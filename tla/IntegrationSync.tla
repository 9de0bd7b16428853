--------------------------- MODULE IntegrationSync ---------------------------
(***************************************************************************)
(* SystemIntegrationSyncService: pushes under one idempotency key, pulls   *)
(* whose key is the cursor they start from, and the worker that repeats    *)
(* the operations whose retry is due.  The provider answers after the      *)
(* attempts of SystemIntegrationReliabilityService.  An operator may also  *)
(* complete and fail operations by hand (SystemRoadmapControlService; the  *)
(* ones it starts have keys of their own, and nothing runs them).  Rows    *)
(* are read and written in separate statements, most of them without a     *)
(* condition.  A process may stop between any two.  Pushes and pulls share *)
(* nothing: a behaviour is about one of them (focus).                      *)
(***************************************************************************)
EXTENDS Requests

CONSTANTS
  Push,            \* the operation of the pushes
  MaxAttempts,     \* OPERATION_MAX_ATTEMPTS
  MaxCursor,       \* bound: the last page that is pulled
  MaxSchedules     \* bound: times that a retry is scheduled

\* A row of system_integration_operations: its state and the attempt it is at.
OperationRow == [state : {"RUNNING", "SUCCEEDED", "RETRY_SCHEDULED", "FAILED"}, attempt : Nat]

ASSUME IntegrationSyncAssumption ==
  {MaxAttempts, MaxCursor, MaxSchedules} \subseteq Nat \ {0} /\ None \notin OperationRow

VARIABLES
  operation,     \* system_integration_operations: the push and one pull per cursor
  cursor,        \* runtime.syncCursor
  delivered,     \* the provider has accepted the push
  fetched,       \* pages that the provider has handed out
  schedules,     \* times that a retry was scheduled
  claims,        \* retries that workers have claimed
  byHand         \* operations that an operator has completed

syncVars == <<operation, cursor, delivered, fetched, schedules, claims, byHand>>

Operations == {Push} \cup 0..MaxCursor

IntegrationSyncInit ==
  /\ operation = [o \in Operations |-> None]
  /\ cursor = 0 /\ delivered = FALSE /\ fetched = {}
  /\ schedules = 0 /\ claims = 0 /\ byHand = {}

HistoryUnchanged == UNCHANGED <<delivered, fetched, schedules, claims, byHand>>

-----------------------------------------------------------------------------
(* push and pull.                                                          *)

\* The read of the operation.  A SUCCEEDED one is replayed, a RUNNING one is
\* refused, a scheduled one is left to the worker.
SyncRead(p, o) ==
  /\ IF o = Push THEN focus = "integration push" ELSE focus = "integration pull" /\ o = cursor
  /\ operation[o] # None => operation[o].state = "FAILED" /\ operation[o].attempt < MaxAttempts
  /\ Start(p, [op |-> "sync", at |-> IF operation[o] = None THEN "create" ELSE "reopen",
               of |-> o, attempt |-> IF operation[o] = None THEN 1 ELSE operation[o].attempt + 1,
               answer |-> None])
  /\ UNCHANGED <<operation, cursor, clock>> /\ HistoryUnchanged

Raced(p) == operation[req[p].of]

\* Unique (integrationId, idempotencyKey).  After a collision a push of an
\* operation that is RUNNING is refused; any other one goes on with the row.
ReserveOperation(p) ==
  /\ Running(p, "sync") /\ At(p, "create")
  /\ IF Raced(p) = None
     THEN /\ operation' = [operation EXCEPT ![req[p].of] = [state |-> "RUNNING", attempt |-> 1]]
          /\ Goto(p, "call")
     ELSE /\ UNCHANGED operation
          /\ IF req[p].of = Push /\ Raced(p).state = "RUNNING" THEN Done(p)
             ELSE req' = [req EXCEPT ![p].at = "call", ![p].attempt = Raced(p).attempt]
  /\ UNCHANGED <<cursor, clock>> /\ HistoryUnchanged

\* FAILED to RUNNING, by the uuid alone.
ReopenOperation(p) ==
  /\ Running(p, "sync") /\ At(p, "reopen")
  /\ operation' = [operation EXCEPT ![req[p].of] = [state |-> "RUNNING", attempt |-> req[p].attempt]]
  /\ Goto(p, "call")
  /\ UNCHANGED <<cursor, clock>> /\ HistoryUnchanged

\* The provider: done, an error that is retryable or one that is not.  A
\* retryable error of the last attempt is recorded like the other.
ProviderAnswer(p) ==
  /\ At(p, "call")
  /\ \E answer \in {"ok", "permanent"} \cup
                   (IF req[p].attempt < MaxAttempts THEN {"transient"} ELSE {}) :
       /\ req' = [req EXCEPT ![p].answer = answer,
                             ![p].at = IF answer = "ok" /\ req[p].of # Push THEN "cursor" ELSE "record"]
       /\ delivered' = (delivered \/ (answer = "ok" /\ req[p].of = Push))
       /\ fetched' = IF answer = "ok" THEN fetched \cup ({req[p].of} \ {Push}) ELSE fetched
  /\ UNCHANGED <<operation, cursor, schedules, claims, byHand, clock>>

\* Mutant: the next cursor is counted from the stored one.
NextCursorOfRow(p) == {IF cursor > MaxCursor THEN cursor ELSE cursor + 1}

\* nextCursor of the provider's page: the next one or, after the last page,
\* null, which the next pull reads as the start.
NextCursor(p) == {req[p].of + 1, 0}

SaveCursor(p) ==
  /\ At(p, "cursor")
  /\ cursor' \in NextCursor(p)
  /\ Goto(p, "record")
  /\ UNCHANGED <<operation, clock>> /\ HistoryUnchanged

Retryable(p) == req[p].answer = "transient"

\* Mutant: the failure of the provider is recorded as a success.
RecordedAlways(p) == "SUCCEEDED"

Recorded(p) ==
  IF req[p].answer = "ok" THEN "SUCCEEDED" ELSE IF Retryable(p) THEN "RETRY_SCHEDULED" ELSE "FAILED"

\* The outcome, by the uuid alone; push and pull write the attempt of a success.
RecordOutcome(p) ==
  /\ At(p, "record")
  /\ Recorded(p) = "RETRY_SCHEDULED" => schedules < MaxSchedules
  /\ operation' = [operation EXCEPT ![req[p].of] =
       [state |-> Recorded(p),
        attempt |-> IF Recorded(p) = "SUCCEEDED" /\ req[p].op = "sync" THEN req[p].attempt ELSE @.attempt]]
  /\ schedules' = IF Recorded(p) = "RETRY_SCHEDULED" THEN schedules + 1 ELSE schedules
  /\ Done(p)
  /\ UNCHANGED <<cursor, delivered, fetched, claims, byHand, clock>>

-----------------------------------------------------------------------------
(* Retries.                                                                *)

\* retryOperation of an operator.
RetryRead(p, o) ==
  /\ operation[o] # None
  /\ operation[o].state \in {"RETRY_SCHEDULED", "FAILED"} /\ operation[o].attempt < MaxAttempts
  /\ Start(p, [op |-> "retry", at |-> "schedule", of |-> o])
  /\ UNCHANGED <<operation, cursor, clock>> /\ HistoryUnchanged

RetryWrite(p) ==
  /\ Running(p, "retry") /\ schedules < MaxSchedules
  /\ operation' = [operation EXCEPT ![req[p].of].state = "RETRY_SCHEDULED"]
  /\ schedules' = schedules + 1
  /\ Done(p)
  /\ UNCHANGED <<cursor, delivered, fetched, claims, byHand, clock>>

\* recoverDueOperations: the candidates of claimDue.
ClaimRead(p, o) ==
  /\ operation[o] # None /\ operation[o].state = "RETRY_SCHEDULED"
  /\ Start(p, [op |-> "worker", at |-> "claim", of |-> o])
  /\ UNCHANGED <<operation, cursor, clock>> /\ HistoryUnchanged

\* Mutant: the claim does not repeat the condition of its read.
ClaimableAlways(p) == TRUE

\* where: { uuid, state: 'RETRY_SCHEDULED', ... }
Claimable(p) == operation[req[p].of].state = "RETRY_SCHEDULED"

\* attempt is incremented whatever it is.
ClaimWrite(p) ==
  /\ Running(p, "worker") /\ At(p, "claim") /\ Claimable(p)
  /\ operation' = [operation EXCEPT ![req[p].of] = [state |-> "RUNNING", attempt |-> @.attempt + 1]]
  /\ req' = [req EXCEPT ![p] = [op |-> "worker", at |-> "call", of |-> @.of,
                                attempt |-> operation[@.of].attempt + 1, answer |-> None]]
  /\ claims' = claims + 1
  /\ UNCHANGED <<cursor, delivered, fetched, schedules, byHand, clock>>

-----------------------------------------------------------------------------
(* The operator's own requests; one statement each.                        *)

CompleteOperation(o) ==
  /\ operation[o] # None /\ byHand = {}   \* bound: they complete one operation
  /\ operation' = [operation EXCEPT ![o].state = "SUCCEEDED"]
  /\ byHand' = byHand \cup {o}
  /\ UNCHANGED <<req, cursor, delivered, fetched, schedules, claims, clock>>

FailOperation(o, retryable) ==
  /\ operation[o] # None /\ (retryable => schedules < MaxSchedules)
  /\ operation' = [operation EXCEPT ![o].state = IF retryable THEN "RETRY_SCHEDULED" ELSE "FAILED"]
  /\ schedules' = IF retryable THEN schedules + 1 ELSE schedules
  /\ UNCHANGED <<req, cursor, delivered, fetched, claims, byHand, clock>>

\* A refused request, a process that stops: the operation stays as it is.
SyncAbandon(p) == req[p] # None /\ Done(p) /\ UNCHANGED <<syncVars, clock>>

IntegrationSyncNext ==
  \/ \E o \in Operations :
       \/ CompleteOperation(o) \/ \E b \in BOOLEAN : FailOperation(o, b)
       \/ \E p \in Procs : SyncRead(p, o) \/ RetryRead(p, o) \/ ClaimRead(p, o)
  \/ \E p \in Procs :
       \/ ReserveOperation(p) \/ ReopenOperation(p) \/ ProviderAnswer(p) \/ SaveCursor(p)
       \/ RecordOutcome(p) \/ RetryWrite(p) \/ ClaimWrite(p) \/ SyncAbandon(p)

-----------------------------------------------------------------------------
(* Properties.                                                             *)

\* The rows have the types of the schema.
IntegrationSyncTypeOK ==
  /\ operation \in [Operations -> OperationRow \cup {None}]
  /\ cursor \in 0..MaxCursor + 1 /\ fetched \subseteq 0..MaxCursor /\ byHand \subseteq Operations

\* Workers that read the same due operation repeat it once: a retry that was
\* scheduled is claimed at most once (claimDue's conditional update).
RetryClaimedOnce == claims <= schedules

\* Pulls that overlap, retries of old pulls and processes that stop may take the
\* cursor back; no page is skipped: every page before the cursor was handed out.
NoPageSkipped == \A c \in 0..MaxCursor : c < cursor => c \in fetched

\* An idempotent replay answers with the provider's answer: a push is SUCCEEDED
\* only after the provider has accepted it, and a pull after its page was read,
\* unless an operator has said so.
SucceededWasDone ==
  \A o \in Operations \ byHand :
    operation[o] # None /\ operation[o].state = "SUCCEEDED"
      => IF o = Push THEN delivered ELSE o \in fetched
=============================================================================
