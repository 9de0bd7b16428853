------------------------------ MODULE CrmLeads ------------------------------
(***************************************************************************)
(* The leads of src/modules/crm: status and lifecycle, assignment, the     *)
(* merge of two leads, and the conversion of a qualified lead to a sales   *)
(* opportunity.  Of the rows that refer to a lead, and that a merge moves, *)
(* only the assignments are kept.                                          *)
(***************************************************************************)
EXTENDS Requests

CONSTANTS
  Leads, Assignees,
  Keys,          \* idempotency keys of conversions
  AskedStatuses  \* the statuses that requests ask for

LeadStatuses == {"NEW", "CONTACTED", "QUALIFIED", "NURTURING",
                 "CLOSED_WON", "CLOSED_LOST", "ARCHIVED"}
Lead == [status : LeadStatuses, archived : BOOLEAN, owner : Assignees \cup {None},
         conversionKey : Keys \cup {None}]

ASSUME CrmLeadsAssumption ==
  AskedStatuses \subseteq LeadStatuses /\ None \notin Lead \cup Keys \cup Assignees

VARIABLES
  lead,         \* crm_leads
  open,         \* assignees of a lead's assignments that are not closed
  opportunity,  \* sales_opportunities by lead: the idempotency key
  merged        \* history: the leads that a merge has emptied

leadVars == <<lead, open, opportunity, merged>>


CrmLeadsInit ==
  /\ lead = [l \in Leads |-> None]
  /\ open = [l \in Leads |-> {}]
  /\ opportunity = [l \in Leads |-> None]
  /\ merged = {}

\* The rows of crm_lead_status_transitions.
Transitions ==
  ({"NEW"} \X {"CONTACTED", "ARCHIVED"})
  \cup ({"CONTACTED"} \X {"QUALIFIED", "NURTURING", "CLOSED_LOST", "ARCHIVED"})
  \cup ({"QUALIFIED"} \X {"NURTURING", "CLOSED_WON", "CLOSED_LOST", "ARCHIVED"})
  \cup ({"NURTURING"} \X {"CONTACTED", "QUALIFIED", "CLOSED_WON", "CLOSED_LOST", "ARCHIVED"})
  \cup ({"CLOSED_LOST", "CLOSED_WON", "ARCHIVED"} \X {"CONTACTED"})

TransitionAllowed(from, to) == from = to \/ <<from, to>> \in Transitions

Live(l) == lead[l] # None /\ ~lead[l].archived

CreateLead(l, s) ==
  /\ lead[l] = None
  /\ lead' = [lead EXCEPT ![l] = [status |-> s, archived |-> FALSE, owner |-> None,
                                  conversionKey |-> None]]
  /\ UNCHANGED <<open, opportunity, merged, req, clock>>

\* leadId, before the statement or the transaction of each of these operations.
LeadId(p, op, l, arg) ==
  /\ Live(l)
  /\ Start(p, [op |-> op, at |-> "found", lead |-> l, arg |-> arg])
  /\ UNCHANGED <<leadVars, clock>>

Found(p, op) == Running(p, op) /\ At(p, "found")

ArchiveLead(p) ==
  /\ Found(p, "archive")
  /\ lead' = [lead EXCEPT ![req[p].lead].archived = TRUE, ![req[p].lead].status = "ARCHIVED"]
  /\ Done(p)
  /\ UNCHANGED <<open, opportunity, merged, clock>>

-----------------------------------------------------------------------------
(* Status.                                                                 *)

\* The transaction of changeLeadStatus reads the row, archived or not.
ChangeStatusRead(p) ==
  /\ Found(p, "status")
  /\ TransitionAllowed(lead[req[p].lead].status, req[p].arg)
  /\ req' = [req EXCEPT ![p] = [op |-> "status", at |-> "write", lead |-> @.lead,
                                arg |-> @.arg, seen |-> lead[@.lead].archived]]
  /\ UNCHANGED <<leadVars, clock>>

\* It writes by id, archivedAt as it was read.
ChangeStatusWrite(p) ==
  /\ Running(p, "status") /\ At(p, "write")
  /\ lead' = [lead EXCEPT ![req[p].lead].status = req[p].arg,
                          ![req[p].lead].archived = req[p].seen \/ req[p].arg = "ARCHIVED"]
  /\ Done(p)
  /\ UNCHANGED <<open, opportunity, merged, clock>>

ActiveStatuses == {"NEW", "CONTACTED", "NURTURING"}
ClosedStatuses == {"CLOSED_WON", "CLOSED_LOST", "ARCHIVED"}

\* LeadLifecyclePolicy, and the statuses the lifecycle operations ask for.
AssertCan(status, to) ==
  CASE to = "QUALIFIED"                    -> status \in ActiveStatuses
    [] to = "CONTACTED"                    -> status \in ClosedStatuses
    [] to \in {"CLOSED_WON", "CLOSED_LOST"} -> status \notin ClosedStatuses
    [] to = "NURTURING"                    -> status \notin ClosedStatuses

LifecycleTargets == {"QUALIFIED", "NURTURING", "CONTACTED", "CLOSED_WON", "CLOSED_LOST"}

\* qualify, nurture, reactivate and close of CrmLifecycleService.  Whether the
\* score suffices to qualify is left open.
LifecycleStart(p, l, to) ==
  /\ Live(l) /\ AssertCan(lead[l].status, to)
  /\ Start(p, [op |-> "lifecycle", at |-> "found", lead |-> l, arg |-> to])
  /\ UNCHANGED <<leadVars, clock>>

SetLifecycleRead(p) ==
  /\ Found(p, "lifecycle")
  /\ Live(req[p].lead) /\ TransitionAllowed(lead[req[p].lead].status, req[p].arg)
  /\ Goto(p, "write")
  /\ UNCHANGED <<leadVars, clock>>

SetLifecycleWrite(p) ==
  /\ Running(p, "lifecycle") /\ At(p, "write")
  /\ lead' = [lead EXCEPT ![req[p].lead].status = req[p].arg]
  /\ Done(p)
  /\ UNCHANGED <<open, opportunity, merged, clock>>

-----------------------------------------------------------------------------
(* Assignment.                                                             *)

AssignLead(p) ==
  /\ Found(p, "assign")
  /\ open' = [open EXCEPT ![req[p].lead] = {req[p].arg}]
  /\ lead' = [lead EXCEPT ![req[p].lead].owner = req[p].arg]
  /\ Done(p)
  /\ UNCHANGED <<opportunity, merged, clock>>

\* Mutant: the owner is left as it is.
OwnerOfUnassignedKept(l) == lead[l].owner

OwnerOfUnassigned(l) == None

UnassignLead(p) ==
  /\ Found(p, "unassign")
  /\ open' = [open EXCEPT ![req[p].lead] = {}]
  /\ lead' = [lead EXCEPT ![req[p].lead].owner = OwnerOfUnassigned(req[p].lead)]
  /\ Done(p)
  /\ UNCHANGED <<opportunity, merged, clock>>

-----------------------------------------------------------------------------
(* Merge and conversion.                                                   *)

MergeRead(p, s, t) ==
  /\ s # t
  /\ Live(s) /\ Live(t)
  /\ Start(p, [op |-> "merge", at |-> "write", source |-> s, target |-> t])
  /\ UNCHANGED <<leadVars, clock>>

MovedAssignments(s, t) == [open EXCEPT ![s] = {}, ![t] = @ \cup open[s]]

\* The updates move the rows there are now, whatever has happened to the leads.
MergeLeads(p) ==
  /\ Running(p, "merge")
  /\ LET s == req[p].source
         t == req[p].target
     IN  /\ open' = MovedAssignments(s, t)
         /\ lead' = [lead EXCEPT ![s].archived = TRUE, ![s].status = "ARCHIVED"]
         /\ merged' = merged \cup {s}
  /\ Done(p)
  /\ UNCHANGED <<opportunity, clock>>

ConvertRead(p, l, k) ==
  /\ Live(l) /\ lead[l].status = "QUALIFIED"
  /\ Start(p, [op |-> "convert", at |-> "opportunity", lead |-> l, key |-> k])
  /\ UNCHANGED <<leadVars, clock>>

\* Mutant: an earlier conversion is looked up by its key alone.
ExistingConversionByKey(l, k) == \E m \in Leads : opportunity[m] = k

ExistingConversion(l, k) == opportunity[l] # None

\* createFromQualifiedLead: the lead's opportunity, or a new one; the lead and
\* the key are unique.
CreateFromQualifiedLead(p) ==
  /\ Running(p, "convert") /\ At(p, "opportunity")
  /\ \/ ExistingConversion(req[p].lead, req[p].key) /\ UNCHANGED opportunity
     \/ /\ opportunity[req[p].lead] = None
        /\ \A l \in Leads : opportunity[l] # req[p].key
        /\ opportunity' = [opportunity EXCEPT ![req[p].lead] = req[p].key]
  /\ Goto(p, "mark")
  /\ UNCHANGED <<lead, open, merged, clock>>

\* Only a lead without key; the column is unique.
Markable(l, k) ==
  lead[l].conversionKey = None /\ \A m \in Leads : lead[m] # None => lead[m].conversionKey # k

MarkConverted(p) ==
  /\ Running(p, "convert") /\ At(p, "mark")
  /\ lead' = IF Markable(req[p].lead, req[p].key)
             THEN [lead EXCEPT ![req[p].lead].conversionKey = req[p].key] ELSE lead
  /\ Done(p)
  /\ UNCHANGED <<open, opportunity, merged, clock>>

\* A request that is refused, or that dies before its next statement.
CrmLeadsAbandon(p) == req[p] # None /\ Done(p) /\ UNCHANGED <<leadVars, clock>>

LeadIdNext(p, l) ==
  \/ \E op \in {"archive", "unassign"} : LeadId(p, op, l, None)
  \/ \E s \in AskedStatuses : LeadId(p, "status", l, s)
  \/ \E a \in Assignees : LeadId(p, "assign", l, a)

CrmLeadsNext ==
  \/ \E l \in Leads, s \in AskedStatuses : CreateLead(l, s)
  \/ \E p \in Procs, l \in Leads :
       \/ LeadIdNext(p, l)
       \/ \E to \in LifecycleTargets \cap AskedStatuses : LifecycleStart(p, l, to)
       \/ \E t \in Leads : MergeRead(p, l, t)
       \/ \E k \in Keys : ConvertRead(p, l, k)
  \/ \E p \in Procs :
       \/ ArchiveLead(p) \/ ChangeStatusRead(p) \/ ChangeStatusWrite(p)
       \/ SetLifecycleRead(p) \/ SetLifecycleWrite(p)
       \/ AssignLead(p) \/ UnassignLead(p)
       \/ MergeLeads(p) \/ CreateFromQualifiedLead(p) \/ MarkConverted(p)
       \/ CrmLeadsAbandon(p)

-----------------------------------------------------------------------------
\* The rows have the types of the schema.
CrmLeadsTypeOK ==
  /\ lead \in [Leads -> Lead \cup {None}]
  /\ open \in [Leads -> SUBSET Assignees]
  /\ opportunity \in [Leads -> Keys \cup {None}]
  /\ merged \subseteq Leads

\* The owner of a lead, who has access to it (getScopedLead), is the assignee
\* of an assignment that is open, through assignments, merges and requests that
\* overlap.  A merged lead keeps its owner and loses its assignments.
OwnerIsAssigned ==
  \A l \in Leads \ merged :
    lead[l] # None /\ lead[l].owner # None => lead[l].owner \in open[l]

\* Requests may die between createFromQualifiedLead and markConverted, overtake
\* each other and reuse keys: still, a lead that is marked as converted has an
\* opportunity of its own.
ConvertedHasOpportunity ==
  \A l \in Leads :
    lead[l] # None /\ lead[l].conversionKey # None => opportunity[l] # None
=============================================================================
