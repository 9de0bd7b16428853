----------------------------- MODULE CrmRecords -----------------------------
(***************************************************************************)
(* The other records of src/modules/crm: the emails (phones, addresses) of *)
(* a contact, an inquiry and its conversion to leads, an activity, and a   *)
(* communication with its delivery by an external provider.  A behaviour   *)
(* is about one of them (focus).                                           *)
(***************************************************************************)
EXTENDS Requests

CONSTANTS
  Children,     \* emails of the contact
  MaxLeads      \* bound: leads made of the inquiry

ASSUME CrmRecordsAssumption == MaxLeads \in Nat \ {0} /\ None \notin BOOLEAN

VARIABLES
  contact,      \* crm_contacts: "ACTIVE" or "ARCHIVED"
  child,        \* crm_contact_emails: isPrimary, or None
  inquiry,      \* crm_inquiries
  made,         \* leads made of it
  activity,     \* crm_activities
  message       \* crm_communications

recordVars == <<contact, child, inquiry, made, activity, message>>

ActivityStatuses == {"CREATED", "ASSIGNED", "IN_PROGRESS", "COMPLETED", "CANCELLED"}
MessageStatuses == {"QUEUED", "SENT", "DELIVERED", "FAILED", "CANCELLED"}

CrmRecordsInit ==
  /\ contact = "ACTIVE"
  /\ child = [c \in Children |-> None]
  /\ inquiry = [status |-> "NEW", converted |-> FALSE, contact |-> FALSE]
  /\ made = 0
  /\ activity = [status |-> "CREATED", started |-> FALSE, completed |-> FALSE]
  /\ message = [status |-> "QUEUED", sent |-> FALSE]

-----------------------------------------------------------------------------
(* Contact and emails.  A transaction that clears isPrimary locks the rows *)
(* of the contact, and the gap behind them, until it ends: it is one step. *)

ContactUnchanged == UNCHANGED <<inquiry, made, activity, message, clock>>

ArchiveContact ==
  /\ focus = "crm contact" /\ contact = "ACTIVE"
  /\ contact' = "ARCHIVED"
  /\ UNCHANGED <<child, req>> /\ ContactUnchanged

\* contactId, and for setContactPrimary and deleteContactChild the row.
ChildStart(p, op, c) ==
  /\ focus = "crm contact" /\ contact = "ACTIVE"
  /\ (child[c] = None) = (op \in {"add", "addPrimary"})
  /\ Start(p, [op |-> op, at |-> "write", child |-> c])
  /\ UNCHANGED <<contact, child>> /\ ContactUnchanged

\* Mutant: the primary mark of the other emails is not cleared.
ClearedNone == child

\* updateMany of isPrimary.
Cleared == [c \in Children |-> IF child[c] = None THEN None ELSE FALSE]

AddContactEmail(p) ==
  /\ At(p, "write") /\ req[p].op \in {"add", "addPrimary"}
  /\ child[req[p].child] = None
  /\ child' = [(IF req[p].op = "addPrimary" THEN Cleared ELSE child)
                 EXCEPT ![req[p].child] = (req[p].op = "addPrimary")]
  /\ Done(p)
  /\ UNCHANGED contact /\ ContactUnchanged

\* When the row is still there; otherwise the transaction is rolled back.
SetContactPrimary(p) ==
  /\ At(p, "write") /\ req[p].op = "setPrimary"
  /\ child[req[p].child] # None
  /\ child' = [Cleared EXCEPT ![req[p].child] = TRUE]
  /\ Done(p)
  /\ UNCHANGED contact /\ ContactUnchanged

DeleteContactChild(p) ==
  /\ At(p, "write") /\ req[p].op = "delete"
  /\ child' = [child EXCEPT ![req[p].child] = None]
  /\ Done(p)
  /\ UNCHANGED contact /\ ContactUnchanged

-----------------------------------------------------------------------------
(* Inquiries.                                                              *)

InquiryUnchanged == UNCHANGED <<contact, child, activity, message, clock>>

\* updateInquiry: a status of the client's, or a contact.
UpdateInquiry ==
  /\ focus = "crm inquiry"
  /\ inquiry' \in {[inquiry EXCEPT !.status = "IN_REVIEW"], [inquiry EXCEPT !.contact = TRUE],
                   [inquiry EXCEPT !.contact = FALSE]}
  /\ UNCHANGED <<made, req>> /\ InquiryUnchanged

ConvertInquiryRead(p) ==
  /\ focus = "crm inquiry"
  /\ ~inquiry.converted /\ inquiry.contact
  /\ Start(p, [op |-> "convertInquiry", at |-> "create"])
  /\ UNCHANGED <<inquiry, made>> /\ InquiryUnchanged

ConvertInquiryWrite(p) ==
  /\ Running(p, "convertInquiry")
  /\ made < MaxLeads /\ made' = made + 1
  /\ inquiry' = [inquiry EXCEPT !.status = "CONVERTED", !.converted = TRUE]
  /\ Done(p)
  /\ InquiryUnchanged

-----------------------------------------------------------------------------
(* Activities.                                                             *)

ActivityUnchanged ==
  UNCHANGED <<contact, child, inquiry, made, message, clock>>

ActivityAllowed(from, to) ==
  from = to \/
  <<from, to>> \in ({"CREATED"} \X {"ASSIGNED", "IN_PROGRESS", "CANCELLED"})
             \cup ({"ASSIGNED"} \X {"IN_PROGRESS", "CANCELLED"})
             \cup ({"IN_PROGRESS"} \X {"COMPLETED", "CANCELLED"})

TransitionActivityRead(p, s) ==
  /\ focus = "crm activity" /\ ActivityAllowed(activity.status, s)
  /\ Start(p, [op |-> "activity", at |-> "write", to |-> s, started |-> activity.started])
  /\ UNCHANGED activity /\ ActivityUnchanged

StartedAt(p) == req[p].to = "IN_PROGRESS" \/ req[p].started

TransitionActivityWrite(p) ==
  /\ Running(p, "activity")
  /\ activity' = [status |-> req[p].to, started |-> StartedAt(p),
                  completed |-> req[p].to = "COMPLETED"]
  /\ Done(p)
  /\ ActivityUnchanged

-----------------------------------------------------------------------------
(* Communications.                                                         *)

MessageUnchanged == UNCHANGED <<contact, child, inquiry, made, activity, clock>>

MessageAllowed(from, to) ==
  from = to \/ <<from, to>> \in ({"QUEUED"} \X {"SENT", "FAILED", "CANCELLED"})
                          \cup ({"SENT"} \X {"DELIVERED", "FAILED"})

\* transitionCommunication of PrismaCrmRepository, for the API.
TransitionMessageRead(p, s) ==
  /\ focus = "crm message" /\ MessageAllowed(message.status, s)
  /\ Start(p, [op |-> "message", at |-> "write", to |-> s, sent |-> message.sent])
  /\ UNCHANGED message /\ MessageUnchanged

\* Mutant: sentAt is written by every transition.
SentAtOfStatus(p) == req[p].to = "SENT"

\* sentAt is written back as it was read.
SentAt(p) == req[p].to = "SENT" \/ req[p].sent

TransitionMessageWrite(p) ==
  /\ Running(p, "message")
  /\ message' = [status |-> req[p].to, sent |-> SentAt(p)]
  /\ Done(p)
  /\ MessageUnchanged

DeliverRead(p) ==
  /\ focus = "crm message" /\ message.status = "QUEUED"
  /\ Start(p, [op |-> "deliver", at |-> "send"])
  /\ UNCHANGED message /\ MessageUnchanged

\* The provider's answer: accepted, failed for now, failed.
ProviderSend(p) ==
  /\ Running(p, "deliver") /\ At(p, "send")
  /\ \E to \in {"SENT", "QUEUED", "FAILED"} :
       req' = [req EXCEPT ![p] = [op |-> "deliver", at |-> "check", to |-> to]]
  /\ UNCHANGED message /\ MessageUnchanged

\* transitionCommunication of PrismaCommunicationRepository: it reads again.
\* Where SENT is refused the catch block tries FAILED.
DeliverCheck(p) ==
  /\ Running(p, "deliver") /\ At(p, "check")
  /\ IF MessageAllowed(message.status, req[p].to) THEN Goto(p, "write")
     ELSE IF req[p].to = "SENT" THEN req' = [req EXCEPT ![p].to = "FAILED"]
     ELSE Done(p)
  /\ UNCHANGED message /\ MessageUnchanged

DeliverWrite(p) ==
  /\ Running(p, "deliver") /\ At(p, "write")
  /\ message' = [status |-> req[p].to, sent |-> message.sent \/ req[p].to = "SENT"]
  /\ Done(p)
  /\ MessageUnchanged

-----------------------------------------------------------------------------
CrmRecordsAbandon(p) == req[p] # None /\ Done(p) /\ UNCHANGED <<recordVars, clock>>

CrmRecordsNext ==
  \/ ArchiveContact \/ UpdateInquiry
  \/ \E p \in Procs :
       \/ \E op \in {"add", "addPrimary", "setPrimary", "delete"}, c \in Children : ChildStart(p, op, c)
       \/ AddContactEmail(p) \/ SetContactPrimary(p) \/ DeleteContactChild(p)
       \/ ConvertInquiryRead(p) \/ ConvertInquiryWrite(p)
       \/ \E s \in ActivityStatuses : TransitionActivityRead(p, s)
       \/ TransitionActivityWrite(p)
       \/ \E s \in MessageStatuses : TransitionMessageRead(p, s)
       \/ TransitionMessageWrite(p)
       \/ DeliverRead(p) \/ ProviderSend(p) \/ DeliverCheck(p) \/ DeliverWrite(p)
       \/ CrmRecordsAbandon(p)

-----------------------------------------------------------------------------
\* The rows have the types of the schema.
CrmRecordsTypeOK ==
  /\ contact \in {"ACTIVE", "ARCHIVED"}
  /\ child \in [Children -> BOOLEAN \cup {None}]
  /\ inquiry \in [status : {"NEW", "IN_REVIEW", "CONVERTED"}, converted : BOOLEAN, contact : BOOLEAN]
  /\ made \in 0..MaxLeads
  /\ activity \in [status : ActivityStatuses, started : BOOLEAN, completed : BOOLEAN]
  /\ message \in [status : MessageStatuses, sent : BOOLEAN]

\* Whatever adds, deletions and setContactPrimary overlap, a contact has at most
\* one primary email, the one that detectDuplicates compares.
OnePrimary == Cardinality({c \in Children : child[c] = TRUE}) <= 1

\* The transitions are checked against what was read and written by id, so that
\* requests that overlap take a status back.  The timestamps, written back as
\* they were read, stay right: what is completed has been started, what is
\* delivered has been sent.
TimestampsFollowStatus ==
  /\ activity.status = "COMPLETED" => activity.started /\ activity.completed
  /\ message.status = "DELIVERED" => message.sent
=============================================================================
