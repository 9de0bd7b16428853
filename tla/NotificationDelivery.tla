------------------------ MODULE NotificationDelivery ------------------------
(***************************************************************************)
(* AutomationNotificationDeliveryService: the scheduler of every instance, *)
(* and an operator, process the deliveries that are due.  A delivery is    *)
(* not claimed: it is updated by its uuid, with the attempt counted from   *)
(* the listed row.  Only IN_APP has a provider, its attempt succeeds; on   *)
(* the other channels every attempt fails.  A process may stop anywhere.   *)
(***************************************************************************)
EXTENDS Requests

CONSTANTS
  Deliveries,
  MaxDeliveryAttempts   \* the maxAttempts of every delivery

\* A row of automation_notification_deliveries, and a process that is sending one.
DeliveryRow ==
  [channel : {"IN_APP", "EMAIL"}, state : {"QUEUED", "SENDING", "SENT", "FAILED"},
   attempts : Nat, availableAt : Nat]
Dues == UNION {[S -> Nat] : S \in SUBSET Deliveries}
SendRequest == [op : {"deliver"}, at : {"record"}, due : Dues, taken : Deliveries]

ASSUME DeliveryAssumption ==
  MaxDeliveryAttempts \in Nat \ {0} /\ None \notin DeliveryRow \cup SendRequest

VARIABLES
  delivery,   \* rows of automation_notification_deliveries
  sends,      \* times that each was sent
  orphans,    \* deliveries that a process which stopped was working on
  outdated    \* history: how often each was queued again, past its last attempt, by a
              \* process that had counted fewer

deliveryVars == <<delivery, sends, orphans, outdated>>

NotificationDeliveryInit ==
  /\ delivery = [d \in Deliveries |-> None]
  /\ sends = [d \in Deliveries |-> 0]
  /\ orphans = {}
  /\ outdated = [d \in Deliveries |-> 0]

CreateDelivery(d) ==
  /\ delivery[d] = None
  /\ \E channel \in {"IN_APP", "EMAIL"} :
       delivery' = [delivery EXCEPT ![d] =
         [channel |-> channel, state |-> "QUEUED", attempts |-> 0, availableAt |-> clock]]
  /\ UNCHANGED <<req, clock, sends, orphans, outdated>>

\* Mutant: deliveries that are being sent are listed too.
DueEvenSending(d) ==
  delivery[d] # None /\ delivery[d].state \in {"QUEUED", "SENDING"}

\* listDueDeliveries
DueDelivery(d) ==
  /\ delivery[d] # None /\ delivery[d].state = "QUEUED"
  /\ delivery[d].availableAt <= clock

\* processDue: the listed rows, which are processed one after the other.
ProcessDue(p) ==
  /\ \E d \in Deliveries : DueDelivery(d)
  /\ Start(p, [op |-> "deliver", at |-> "take",
               due |-> [d \in {e \in Deliveries : DueDelivery(e)} |-> delivery[d].attempts]])
  /\ UNCHANGED <<deliveryVars, clock>>

Take(p) ==
  /\ Running(p, "deliver") /\ At(p, "take")
  /\ \E d \in DOMAIN req[p].due :
       /\ delivery' = [delivery EXCEPT ![d].state = "SENDING", ![d].attempts = req[p].due[d] + 1]
       /\ req' = [req EXCEPT ![p] =
            [op |-> "deliver", at |-> "record", due |-> req[p].due, taken |-> d]]
  /\ UNCHANGED <<sends, orphans, outdated, clock>>

\* Mutant: the last attempt is allowed one more.
TerminalLate(attempt) == attempt > MaxDeliveryAttempts

Terminal(attempt) == attempt >= MaxDeliveryAttempts

\* A process that counts this attempt queues the delivery again.
QueuedAgain(d, attempt) ==
  outdated' = IF attempt < MaxDeliveryAttempts /\ delivery[d].attempts >= MaxDeliveryAttempts
              THEN [outdated EXCEPT ![d] = @ + 1] ELSE outdated

\* The outcome, decided from the attempt that the process counted.
RecordDelivery(p) ==
  LET r       == req[p]
      d       == r.taken
      attempt == r.due[d] + 1
      left    == [e \in DOMAIN r.due \ {d} |-> r.due[e]]
  IN  /\ Running(p, "deliver") /\ At(p, "record")
      /\ IF delivery[d].channel = "IN_APP"
         THEN /\ delivery' = [delivery EXCEPT ![d].state = "SENT", ![d].availableAt = clock]
              /\ sends' = [sends EXCEPT ![d] = @ + 1]
              /\ UNCHANGED outdated
         ELSE /\ delivery' = [delivery EXCEPT
                    ![d].state = IF Terminal(attempt) THEN "FAILED" ELSE "QUEUED",
                    ![d].availableAt = clock]
              /\ IF Terminal(attempt) THEN UNCHANGED outdated ELSE QueuedAgain(d, attempt)
              /\ UNCHANGED sends
      /\ req' = [req EXCEPT ![p] =
           IF DOMAIN left = {} THEN None ELSE [op |-> "deliver", at |-> "take", due |-> left]]
      /\ UNCHANGED <<orphans, clock>>

\* retry by an operator, a read and an update: only what failed before its last attempt.
RetryDeliveryRead(p) ==
  /\ \E d \in Deliveries :
       /\ delivery[d] # None /\ delivery[d].state = "FAILED"
       /\ delivery[d].attempts < MaxDeliveryAttempts
       /\ Start(p, [op |-> "retry delivery", at |-> "update", taken |-> d,
                    attempts |-> delivery[d].attempts])
  /\ UNCHANGED <<deliveryVars, clock>>

RetryDeliveryWrite(p) ==
  /\ Running(p, "retry delivery")
  /\ delivery' = [delivery EXCEPT ![req[p].taken].state = "QUEUED",
                                  ![req[p].taken].availableAt = clock]
  /\ QueuedAgain(req[p].taken, req[p].attempts)
  /\ Done(p)
  /\ UNCHANGED <<sends, orphans, clock>>

StopDelivering(p) ==
  /\ req[p] # None /\ Done(p)
  /\ orphans' = IF At(p, "record") THEN orphans \cup {req[p].taken} ELSE orphans
  /\ UNCHANGED <<delivery, sends, outdated, clock>>

NotificationDeliveryNext ==
  \/ \E d \in Deliveries : CreateDelivery(d)
  \/ \E p \in Procs :
       \/ ProcessDue(p) \/ Take(p) \/ RecordDelivery(p) \/ RetryDeliveryRead(p)
       \/ RetryDeliveryWrite(p) \/ StopDelivering(p)

NotificationDeliveryTypeOK == delivery \in [Deliveries -> DeliveryRow \cup {None}]

-----------------------------------------------------------------------------
\* Schedulers that overlap send a delivery again, but each of them at most once:
\* what was sent is never queued again (automation-notification-delivery.service.ts:72).
SentOncePerScheduler == \A d \in Deliveries : sends[d] <= Cardinality(Procs)

\* The attempt counter passes its maximum only because a scheduler or an operator
\* that had counted fewer attempts queued the delivery again, and by one each time.
DeliveryAttemptsBounded ==
  \A d \in Deliveries : delivery[d] # None =>
    delivery[d].attempts <= MaxDeliveryAttempts + outdated[d]

\* A delivery is SENDING for ever only if the process that took it stopped: nothing
\* lists it again.
SendingIsHeld ==
  \A d \in Deliveries \ orphans :
    delivery[d] # None /\ delivery[d].state = "SENDING" =>
      \E p \in Procs : Running(p, "deliver") /\ At(p, "record") /\ req[p].taken = d
=============================================================================
