-------------------------- MODULE InboundCallbacks --------------------------
(***************************************************************************)
(* SystemIntegrationCallbackService: a provider reports an event, maybe    *)
(* several times and concurrently, as a signed callback.  enqueue reserves *)
(* the identity of the event and stores the event, both in rows with a     *)
(* unique key but in separate statements; the callback worker of each      *)
(* instance processes what is stored; an operator may store an event under *)
(* the same key (emitEvent) or mark it processed (processEvent).  One      *)
(* event is followed.  A request may stop between any two statements.      *)
(***************************************************************************)
EXTENDS Requests

CONSTANTS MaxAnswers   \* bound: callbacks answered ACCEPTED or DUPLICATE

\* No row is not a row with a status.
ASSUME CallbackAssumption ==
  None \notin {"PENDING", "RECEIVED", "PROCESSED", "PROCESSING", "FAILED"}

VARIABLES
  event,     \* status in system_integration_events, or None
  reserved,  \* status in system_integration_idempotency, or None
  answers    \* answers given to the provider

callbackVars == <<event, reserved, answers>>

InboundCallbacksInit == event = None /\ reserved = None /\ answers = <<0, 0>>

Accepted == answers[1]
Duplicates == answers[2]
Answer(a) ==
  /\ Accepted + Duplicates < MaxAnswers
  /\ answers' = CASE a = "ACCEPTED"  -> <<Accepted + 1, Duplicates>>
                  [] a = "DUPLICATE" -> <<Accepted, Duplicates + 1>>
                  [] OTHER -> answers

-----------------------------------------------------------------------------
\* enqueue after its checks: idempotency.reserve.  A reservation that is there
\* answers the request unless it is FAILED.
Reserve(p) ==
  /\ req[p] = None
  /\ reserved' = IF reserved = None THEN "PROCESSING" ELSE reserved
  /\ \/ reserved \in {None, "FAILED"} /\ UNCHANGED answers
        /\ Start(p, [op |-> "enqueue", at |-> "getByKey"])
     \/ reserved = "PROCESSED" /\ Answer("DUPLICATE") /\ UNCHANGED req
     \/ reserved = "PROCESSING" /\ UNCHANGED <<answers, req>>
  /\ UNCHANGED <<event, clock>>

\* event.getByKey
FindEvent(p) ==
  /\ Running(p, "enqueue") /\ At(p, "getByKey")
  /\ req' = [req EXCEPT ![p] = IF event = None THEN [@ EXCEPT !.at = "create"]
                               ELSE [op |-> "existing", at |-> "update", found |-> event]]
  /\ UNCHANGED <<callbackVars, clock>>

\* Mutant: an event that was found counts as processed.
StatusOfEventProcessed(e) == "PROCESSED"

\* The status that the reservation of an existing event gets.
StatusOfEvent(e) == IF e = "PROCESSED" THEN "PROCESSED" ELSE "PROCESSING"

AnswerExisting(p) ==
  /\ Running(p, "existing")
  /\ reserved' = StatusOfEvent(req[p].found)
  /\ Answer(IF req[p].found = "PROCESSED" THEN "DUPLICATE" ELSE "ALREADY_QUEUED")
  /\ Done(p)
  /\ UNCHANGED <<event, clock>>

\* Mutant: the event id is not unique.
EventKeyFreeAlways == TRUE

\* Unique (integrationId, eventKey).
EventKeyFree == event = None

\* event.create; it fails on the unique key or with the database.
CreateEvent(p) ==
  /\ Running(p, "enqueue") /\ At(p, "create")
  /\ \/ EventKeyFree /\ event' = "RECEIVED" /\ Goto(p, "queued")
     \/ UNCHANGED event /\ Goto(p, "failed")
  /\ UNCHANGED <<reserved, answers, clock>>

AnswerQueued(p) ==
  /\ Running(p, "enqueue") /\ At(p, "queued")
  /\ reserved' = "PROCESSING" /\ Answer("ACCEPTED")
  /\ Done(p)
  /\ UNCHANGED <<event, clock>>

\* The catch.
AnswerFailed(p) ==
  /\ Running(p, "enqueue") /\ At(p, "failed")
  /\ reserved' = "FAILED"
  /\ Done(p)
  /\ UNCHANGED <<event, answers, clock>>

-----------------------------------------------------------------------------
\* The worker lists a RECEIVED event and processes it, unless the second list,
\* in processQueuedEvent, no longer has it.
ProcessRead(p) ==
  /\ event = "RECEIVED"
  /\ Start(p, [op |-> "process", at |-> "update"])
  /\ UNCHANGED <<callbackVars, clock>>

ProcessWrite(p) ==
  /\ Running(p, "process") /\ At(p, "update")
  /\ event' = "PROCESSED"
  /\ Goto(p, "reserve")
  /\ UNCHANGED <<reserved, answers, clock>>

\* reserve, and the update of a reservation that is there.
ProcessReserve(p) ==
  /\ Running(p, "process") /\ At(p, "reserve")
  /\ reserved' = "PROCESSED"
  /\ Done(p)
  /\ UNCHANGED <<event, answers, clock>>

-----------------------------------------------------------------------------
EmitRead(p) ==
  /\ event = None
  /\ Start(p, [op |-> "emit", at |-> "create"])
  /\ UNCHANGED <<callbackVars, clock>>

EmitCreate(p) ==
  /\ Running(p, "emit")
  /\ event' = IF EventKeyFree THEN "PENDING" ELSE event
  /\ Done(p)
  /\ UNCHANGED <<reserved, answers, clock>>

ProcessByHand ==
  /\ event # None
  /\ event' = "PROCESSED"
  /\ UNCHANGED <<reserved, answers, req, clock>>

CallbackAbandon(p) == req[p] # None /\ Done(p) /\ UNCHANGED <<callbackVars, clock>>

InboundCallbacksNext ==
  \/ ProcessByHand
  \/ \E p \in Procs :
       \/ Reserve(p) \/ FindEvent(p) \/ AnswerExisting(p) \/ CreateEvent(p)
       \/ AnswerQueued(p) \/ AnswerFailed(p)
       \/ ProcessRead(p) \/ ProcessWrite(p) \/ ProcessReserve(p)
       \/ EmitRead(p) \/ EmitCreate(p) \/ CallbackAbandon(p)

-----------------------------------------------------------------------------
(* Properties.                                                             *)

\* The rows have the types of the schema.
InboundCallbacksTypeOK ==
  /\ event \in {None, "PENDING", "RECEIVED", "PROCESSED"}
  /\ reserved \in {None, "PROCESSING", "PROCESSED", "FAILED"}
  /\ Accepted + Duplicates <= MaxAnswers

\* However deliveries, workers, operators and failures interleave, a callback is
\* answered DUPLICATE, and its reservation PROCESSED, only when its event has
\* been processed (enqueue and processQueuedEvent).
DuplicateWasProcessed ==
  reserved = "PROCESSED" \/ Duplicates > 0 => event = "PROCESSED"

\* One delivery of an event at most is accepted, also when deliveries overlap
\* after a failed one (enqueue).
AcceptedOnce == Accepted <= 1
=============================================================================
