-------------------------- MODULE AgentManagement --------------------------
(***************************************************************************)
(* One agent of src/modules/agent-management: the profile, the properties  *)
(* it is assigned, its specializations, its availability and a target.     *)
(* How the assignments of a property change is in Listings; here they are  *)
(* the properties of the agent.  The leads, opportunities and deals of the *)
(* agent count against the capacity and belong to modules that do not look *)
(* at it: there is a number of them from the start.                        *)
(***************************************************************************)
EXTENDS Requests

CONSTANTS
  Properties,
  Specializations,
  Capacities,       \* values of maxActiveAssignments
  OtherWork,        \* leads, open opportunities and deals of the agent
  Saves             \* inputs of updateAvailability

\* A row of agent_profiles.
Profile == [status : {"ACTIVE", "INACTIVE", "SUSPENDED", "ARCHIVED"},
            deleted : BOOLEAN, capacity : Capacities]

\* A saveAvailability in progress: what it has replaced, its input, and whether it found a row.
SaveRequest ==
  [op : {"save"}, at : {"row", "schedule", "exceptions"}, input : Saves, found : BOOLEAN]

ASSUME AgentManagementAssumption ==
  /\ Capacities \subseteq Nat /\ OtherWork \in Nat
  /\ None \notin Profile \cup SaveRequest \cup BOOLEAN

VARIABLES
  agent,          \* agent_profiles: the row, or None
  assigned,       \* properties whose open assignment is the agent's
  most,           \* history: the largest capacity so far
  link,           \* agent_specialization_links: isPrimary, or None
  availability,   \* the save that each of its parts stems from, and the same committed
  target          \* agent_targets: status, and the value that was closed

agentVars == <<agent, assigned, most, link, availability, target>>

AgentManagementInit ==
  /\ agent = None /\ assigned = {} /\ most = 0
  /\ link = [s \in Specializations |-> None]
  /\ availability = [row |-> None, schedule |-> None, exceptions |-> None]
  /\ target = [status |-> "ACTIVE", value |-> 1]

-----------------------------------------------------------------------------
(* The profile.                                                            *)

\* create: the profile of an archived agent is not found, but holds the unique key.
CreateAgent(c) ==
  /\ agent = None
  /\ agent' = [status |-> "ACTIVE", deleted |-> FALSE, capacity |-> c]
  /\ most' = IF c > most THEN c ELSE most
  /\ UNCHANGED <<req, clock, assigned, link, availability, target>>

RequireAgent == agent # None /\ ~agent.deleted

UpdateAgentRead(p, status, c) ==
  /\ RequireAgent
  /\ Start(p, [op |-> "updateAgent", at |-> "write", status |-> status, capacity |-> c])
  /\ UNCHANGED <<agentVars, clock>>

\* By the uuid alone.
UpdateAgent(p) ==
  /\ Running(p, "updateAgent")
  /\ agent' = [agent EXCEPT !.status = req[p].status, !.capacity = req[p].capacity]
  /\ most' = IF req[p].capacity > most THEN req[p].capacity ELSE most
  /\ Done(p)
  /\ UNCHANGED <<clock, assigned, link, availability, target>>

ArchiveAgent ==
  /\ RequireAgent
  /\ agent' = [agent EXCEPT !.status = "ARCHIVED", !.deleted = TRUE]
  /\ UNCHANGED <<req, clock, assigned, most, link, availability, target>>

-----------------------------------------------------------------------------
(* Assignments.                                                            *)

AgentRead(p, op, a) ==
  /\ RequireAgent
  /\ Start(p, [op |-> op, at |-> "capacity", property |-> a,
               status |-> agent.status, max |-> agent.capacity])
  /\ UNCHANGED <<agentVars, clock>>

\* Mutant: an agent with a full load takes one more.
RemainingInclusive(p) == req[p].max >= Cardinality(assigned) + OtherWork

\* remainingCapacity > 0 of isAgentAssignable.
Remaining(p) == req[p].max > Cardinality(assigned) + OtherWork

\* ensureAssignable with the profile of the request, before assign and reassign.
\* Whether the user is eligible and available now is left open.
EnsureAssignable(p) ==
  /\ Running(p, "assign") /\ At(p, "capacity")
  /\ IF req[p].status = "ACTIVE" /\ Remaining(p) THEN Goto(p, "write") ELSE Done(p)
  /\ UNCHANGED <<agentVars, clock>>

\* The transaction of the property's adapter.
Assign(p) ==
  /\ Running(p, "assign") /\ At(p, "write")
  /\ req[p].property \notin assigned
  /\ assigned' = assigned \cup {req[p].property}
  /\ Done(p)
  /\ UNCHANGED <<clock, agent, most, link, availability, target>>

\* unassign, and a reassign to another agent.
Unassign(p) ==
  /\ Running(p, "unassign")
  /\ assigned' = assigned \ {req[p].property}
  /\ Done(p)
  /\ UNCHANGED <<clock, agent, most, link, availability, target>>

AssignmentNext ==
  \/ \E c \in Capacities : CreateAgent(c)
  \/ ArchiveAgent
  \/ \E p \in Procs :
       \/ \E s \in {"ACTIVE", "INACTIVE"}, c \in Capacities : UpdateAgentRead(p, s, c)
       \/ \E op \in {"assign", "unassign"}, a \in Properties : AgentRead(p, op, a)
       \/ UpdateAgent(p) \/ EnsureAssignable(p) \/ Assign(p) \/ Unassign(p)

-----------------------------------------------------------------------------
(* Specializations.                                                        *)

LinkUnchanged == UNCHANGED <<clock, agent, assigned, most, availability, target>>

\* Mutant: the primary specialization so far keeps its mark.
NoLongerPrimaryKept == link

\* updateMany of the agent's links, which it locks with the gaps between them.
NoLongerPrimary == [s \in Specializations |-> IF link[s] = None THEN None ELSE FALSE]

\* A second link to the same specialization fails on the key.
AddSpecialization(s, primary) ==
  /\ link[s] = None
  /\ link' = [(IF primary THEN NoLongerPrimary ELSE link) EXCEPT ![s] = primary]
  /\ UNCHANGED req /\ LinkUnchanged

RemoveSpecialization(s) ==
  /\ link' = [link EXCEPT ![s] = None]
  /\ UNCHANGED req /\ LinkUnchanged

SpecializationNext ==
  \E s \in Specializations : RemoveSpecialization(s) \/ \E b \in BOOLEAN : AddSpecialization(s, b)

-----------------------------------------------------------------------------
(* Availability.  saveAvailability replaces the row, the weekly schedule   *)
(* and the exceptions in one transaction; the row stays locked.            *)

AvailabilityUnchanged == UNCHANGED <<clock, agent, assigned, most, link, target>>

SaveRead(p, x) ==
  /\ Start(p, [op |-> "save", at |-> "row", input |-> x, found |-> availability.row # None])
  /\ UNCHANGED availability /\ AvailabilityUnchanged

\* Mutant: the parts are replaced without a transaction.
RowLockedNever(p) == FALSE

RowLocked(p) == \E q \in Procs \ {p} : Running(q, "save") /\ req[q].at # "row"

\* update of the row that was found, or a create, which fails if one has appeared.
SaveRow(p) ==
  /\ Running(p, "save") /\ At(p, "row") /\ ~RowLocked(p)
  /\ req[p].found \/ availability.row = None
  /\ availability' = [availability EXCEPT !.row = req[p].input]
  /\ Goto(p, "schedule")
  /\ AvailabilityUnchanged

SaveSchedule(p) ==
  /\ Running(p, "save") /\ At(p, "schedule")
  /\ availability' = [availability EXCEPT !.schedule = req[p].input]
  /\ Goto(p, "exceptions")
  /\ AvailabilityUnchanged

SaveExceptions(p) ==
  /\ Running(p, "save") /\ At(p, "exceptions")
  /\ availability' = [availability EXCEPT !.exceptions = req[p].input]
  /\ Done(p)
  /\ AvailabilityUnchanged

\* Refused before the first write (a rollback after it is left out).
SaveRefused(p) ==
  /\ Running(p, "save") /\ At(p, "row")
  /\ Done(p)
  /\ UNCHANGED availability /\ AvailabilityUnchanged

AvailabilityNext ==
  \E p \in Procs :
    \/ \E x \in Saves : SaveRead(p, x)
    \/ SaveRow(p) \/ SaveSchedule(p) \/ SaveExceptions(p) \/ SaveRefused(p)

-----------------------------------------------------------------------------
(* Targets.                                                                *)

TargetUnchanged == UNCHANGED <<clock, agent, assigned, most, link, availability>>

UpdateTargetRead(p, status, v) ==
  /\ target.status # "CLOSED"
  /\ Start(p, [op |-> "updateTarget", status |-> status, value |-> v])
  /\ UNCHANGED target /\ TargetUnchanged

UpdateTarget(p) ==
  /\ Running(p, "updateTarget")
  /\ target' = [status |-> IF req[p].status = None THEN target.status ELSE req[p].status,
                value |-> req[p].value]
  /\ Done(p)
  /\ TargetUnchanged

CloseTarget ==
  /\ target' = [target EXCEPT !.status = "CLOSED"]
  /\ UNCHANGED req /\ TargetUnchanged

TargetNext ==
  \/ CloseTarget
  \/ \E p \in Procs :
       \/ \E s \in {None, "ACTIVE"}, v \in 1..2 : UpdateTargetRead(p, s, v)
       \/ UpdateTarget(p)

-----------------------------------------------------------------------------
AgentAbandon(p) ==
  /\ req[p] # None /\ req[p].op \notin {"save"}
  /\ Done(p)
  /\ UNCHANGED <<agentVars, clock>>

AgentManagementNext ==
  \/ focus = "agent assignment" /\ (AssignmentNext \/ \E p \in Procs : AgentAbandon(p))
  \/ focus = "agent specialization" /\ SpecializationNext
  \/ focus = "agent availability" /\ AvailabilityNext
  \/ focus = "agent target" /\ TargetNext

-----------------------------------------------------------------------------
(* Properties.                                                             *)

\* The rows have the types of the schema.
AgentManagementTypeOK ==
  /\ agent \in Profile \cup {None}
  /\ assigned \subseteq Properties
  /\ link \in [Specializations -> BOOLEAN \cup {None}]
  /\ target.status \in {"ACTIVE", "CLOSED"}

\* The capacity is compared in one statement and used in another transaction:
\* requests that overlap overrun the largest capacity the agent ever had, but by
\* no more than the others of them (assign, reassign).
CapacityOverrunBounded ==
  assigned # {} => Cardinality(assigned) + OtherWork <= most + Cardinality(Procs) - 1

\* An agent has at most one primary specialization.
OnePrimarySpecialization == \A s, t \in Specializations : link[s] = TRUE /\ link[t] = TRUE => s = t

\* Between saves the status, the schedule and the exceptions that
\* effectiveAvailability combines stem from one and the same save.
AvailabilityOfOneSave ==
  (\A p \in Procs : Running(p, "save") => req[p].at = "row") =>
    availability.row = availability.schedule /\ availability.row = availability.exceptions
=============================================================================
