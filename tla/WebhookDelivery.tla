-------------------------- MODULE WebhookDelivery --------------------------
(***************************************************************************)
(* Outbound webhooks (src/modules/system): subscriptions, the delivery     *)
(* queue, the retry worker of every server process, and the HTTP requests  *)
(* that publish an event, or test or replay a delivery.                    *)
(*                                                                         *)
(* A published delivery is only inserted by the request; workers send it.  *)
(* A test or a replay (a direct delivery) is sent by the request itself,   *)
(* in a loop, although its row is visible to the workers all along.        *)
(* Apart from claimDelivery's conditional UPDATE all writes are            *)
(* unconditional, and a write to a row that is gone throws.                *)
(***************************************************************************)
EXTENDS Naturals

CONSTANTS
  Subs,
  Events,        \* delivery keys of published events
  DirectKeys,    \* delivery keys of tests and replays
  Workers, Callers,
  None,
  MaxAttempts,   \* system.webhook.maxAttempts
  Delay,         \* retryDelayMs, whatever the attempt
  MaxCalls,      \* bound: HTTP requests
  MaxCrashes     \* bound: processes that die and deliveries that throw

ASSUME ConstAssumption ==
  /\ {MaxAttempts, Delay} \subseteq Nat \ {0}
  /\ {MaxCalls, MaxCrashes} \subseteq Nat
  /\ Events \cap DirectKeys = {}
  /\ None \notin Subs \cup Events \cup (Subs \X (Events \cup DirectKeys))

\* system_webhook_deliveries is unique in (subscription_id, delivery_key).
Deliveries == Subs \X (Events \cup DirectKeys)
Published  == Subs \X Events

VARIABLES
  clock,
  sub,       \* system_webhook_subscriptions.status, or "DELETED"
  state,     \* system_webhook_deliveries.state, or "ABSENT"
  count,     \* attempt_count
  next,      \* next_attempt_at; 0: NULL
  used,      \* direct deliveries whose random key has been drawn
  calls,
  sends,     \* history: requests sent for the row
  orphans,   \* history: deliveries whose worker or request died on them
  crashes,
  pc, job,   \* workers
  cpc, req   \* callers

row   == <<state, count, next>>
hist  == <<sends, orphans, crashes>>
wkr   == <<pc, job>>
cllr  == <<used, calls, cpc, req>>
vars  == <<clock, sub, row, hist, wkr, cllr>>

Terminal  == {"SUCCEEDED", "DEAD_LETTER", "CANCELLED"}
Queued    == {"PENDING", "RETRYING"}
RowStates == {"ABSENT", "DELIVERING"} \cup Queued \cup Terminal
Outcomes  == {"ok", "retryable", "rejected", "mismatch", "cancelled"}
HoldPCs   == {"count", "load", "subscription", "send", "record"}

Job == [now     : Nat,
        due     : SUBSET Deliveries,     \* jobs still to process
        listed  : [Deliveries -> Nat],   \* job.delivery.attemptCount
        d       : Deliveries \cup {None},
        attempt : Nat,
        outcome : Outcomes]
NoJob == [now |-> 0, due |-> {}, listed |-> [d \in Deliveries |-> 0],
          d |-> None, attempt |-> 0, outcome |-> "ok"]

Req == [subs    : SUBSET Subs,           \* subscriptions still to enqueue for
        rows    : SUBSET Deliveries,     \* deliveries that cleanup listed
        sub     : Subs \cup {None},
        event   : Events \cup {None},
        d       : Deliveries \cup {None},
        attempt : Nat,
        outcome : Outcomes]
NoReq == [subs |-> {}, rows |-> {}, sub |-> None, event |-> None,
          d |-> None, attempt |-> 0, outcome |-> "ok"]

Init ==
  /\ clock = 1
  /\ sub = [s \in Subs |-> "ACTIVE"]
  /\ state = [d \in Deliveries |-> "ABSENT"]
  /\ count = [d \in Deliveries |-> 0]
  /\ next = [d \in Deliveries |-> 0]
  /\ used = {} /\ calls = 0
  /\ sends = [d \in Deliveries |-> 0]
  /\ orphans = {} /\ crashes = 0
  /\ pc = [w \in Workers |-> "idle"]
  /\ job = [w \in Workers |-> NoJob]
  /\ cpc = [c \in Callers |-> "idle"]
  /\ req = [c \in Callers |-> NoReq]

Goto(w, l)  == pc' = [pc EXCEPT ![w] = l]
CGoto(c, l) == cpc' = [cpc EXCEPT ![c] = l]

Exists(d) == state[d] # "ABSENT"
Holds(w, d) == pc[w] \in HoldPCs /\ job[w].d = d

\* The row that createDelivery inserts, and the rows that a delete removes.
Insert(d) ==
  /\ state' = [state EXCEPT ![d] = "PENDING"]
  /\ count' = [count EXCEPT ![d] = 0]
  /\ next' = [next EXCEPT ![d] = 0]
  /\ sends' = [sends EXCEPT ![d] = 0]

Remove(D) ==
  /\ state' = [d \in Deliveries |-> IF d \in D THEN "ABSENT" ELSE state[d]]
  /\ count' = [d \in Deliveries |-> IF d \in D THEN 0 ELSE count[d]]
  /\ next' = [d \in Deliveries |-> IF d \in D THEN 0 ELSE next[d]]

\* isRetryableStatus, a timeout and a network error leave attempts open.
Retries(r, k) == r = "retryable" /\ k < MaxAttempts

-----------------------------------------------------------------------------
(***************************************************************************)
(* SystemWebhookRetryWorker.runPoll.                                       *)
(***************************************************************************)
\* Mutant: looks for PENDING alone.
DuePending(d, now) == state[d] = "PENDING" /\ next[d] <= now

Due(d, now) == state[d] \in Queued /\ next[d] <= now

\* listDueDeliveries: the time and the attempt counts are those of the poll.
Poll(w) ==
  LET due == {d \in Deliveries : Due(d, clock)} IN
  /\ pc[w] = "idle"
  /\ job' = [job EXCEPT ![w] =
       [NoJob EXCEPT !.now = clock, !.due = due,
          !.listed = [d \in Deliveries |-> IF d \in due THEN count[d] ELSE 0]]]
  /\ Goto(w, "next")
  /\ UNCHANGED <<clock, sub, row, hist, cllr>>

EndPoll(w) ==
  /\ Goto(w, "idle")
  /\ job' = [job EXCEPT ![w] = NoJob]

\* The end of one job: back to the loop over the others.
NextJob(w) ==
  /\ Goto(w, "next")
  /\ job' = [job EXCEPT ![w] = [@ EXCEPT !.d = None, !.attempt = 0, !.outcome = "ok"]]

\* Mutant: claims whatever is queued, also what was rescheduled meanwhile.
ClaimableQueued(w, d) == state[d] \in Queued

\* The WHERE of claimDelivery, with the time of the poll.
Claimable(w, d) == Due(d, job[w].now)

ClaimDelivery(w) ==
  /\ pc[w] = "next"
  /\ \E d \in job[w].due :
       \/ /\ Claimable(w, d)
          /\ state' = [state EXCEPT ![d] = "DELIVERING"]
          /\ job' = [job EXCEPT ![w].d = d, ![w].due = @ \ {d}]
          /\ Goto(w, "count")
       \/ /\ ~Claimable(w, d)
          /\ job' = [job EXCEPT ![w].due = @ \ {d}]
          /\ UNCHANGED <<state, pc>>
  /\ UNCHANGED <<clock, sub, count, next, hist, cllr>>

FinishPoll(w) ==
  /\ pc[w] = "next" /\ job[w].due = {}
  /\ EndPoll(w)
  /\ UNCHANGED <<clock, sub, row, hist, cllr>>

\* Mutant: the count is written without the state, which a slip sets back.
CountAttemptPending(w) ==
  LET d == job[w].d IN
  /\ pc[w] = "count"
  /\ Exists(d)
  /\ count' = [count EXCEPT ![d] = job[w].listed[d] + 1]
  /\ state' = [state EXCEPT ![d] = "PENDING"]
  /\ Goto(w, "load")
  /\ UNCHANGED <<clock, sub, next, job, hist, cllr>>

\* Outside the try of the job: if the row is gone the whole poll fails.
CountAttempt(w) ==
  LET d == job[w].d IN
  /\ pc[w] = "count"
  /\ \/ /\ Exists(d)
        /\ count' = [count EXCEPT ![d] = job[w].listed[d] + 1]
        /\ state' = [state EXCEPT ![d] = "DELIVERING"]
        /\ Goto(w, "load")
        /\ UNCHANGED job
     \/ /\ ~Exists(d)
        /\ EndPoll(w)
        /\ UNCHANGED <<count, state>>
  /\ UNCHANGED <<clock, sub, next, hist, cllr>>

\* processQueuedDelivery, findDelivery.
LoadDelivery(w) ==
  LET d == job[w].d IN
  /\ pc[w] = "load"
  /\ \/ /\ state[d] \in Terminal \cup {"ABSENT"}
        /\ NextJob(w)
     \/ /\ state[d] \notin Terminal \cup {"ABSENT"}
        /\ job' = [job EXCEPT ![w].attempt = IF count[d] = 0 THEN 1 ELSE count[d]]
        /\ Goto(w, "subscription")
  /\ UNCHANGED <<clock, sub, row, hist, cllr>>

\* findSubscriptionByDelivery.  The payload is built again from the JSON column
\* and may hash differently: that rejects the delivery without sending it.
LoadSubscription(w) ==
  LET d == job[w].d IN
  /\ pc[w] = "subscription"
  /\ \/ /\ Exists(d) /\ sub[d[1]] = "ACTIVE"
        /\ \/ Goto(w, "send") /\ UNCHANGED job
           \/ Goto(w, "record") /\ job' = [job EXCEPT ![w].outcome = "mismatch"]
     \/ /\ Exists(d) /\ sub[d[1]] # "ACTIVE"
        /\ Goto(w, "record")
        /\ job' = [job EXCEPT ![w].outcome = "cancelled"]
     \/ /\ ~Exists(d)
        /\ NextJob(w)
  /\ UNCHANGED <<clock, sub, row, hist, cllr>>

Send(w) ==
  /\ pc[w] = "send"
  /\ \E r \in {"ok", "retryable", "rejected"} :
       job' = [job EXCEPT ![w].outcome = r]
  /\ sends' = [sends EXCEPT ![job[w].d] = @ + 1]
  /\ Goto(w, "record")
  /\ UNCHANGED <<clock, sub, row, orphans, crashes, cllr>>

\* Mutant: a state that deliveries do not have.
AfterAttemptFailed(r, k) ==
  CASE r = "ok" -> "SUCCEEDED"
    [] r = "cancelled" -> "CANCELLED"
    [] Retries(r, k) -> "RETRYING"
    [] OTHER -> "FAILED"

AfterAttempt(r, k) ==
  CASE r = "ok" -> "SUCCEEDED"
    [] r = "cancelled" -> "CANCELLED"
    [] Retries(r, k) -> "RETRYING"
    [] OTHER -> "DEAD_LETTER"

\* The updateDelivery that ends processQueuedDelivery, scheduleOrDeadLetter's
\* included.  CANCELLED and a hash mismatch do not write attempt_count.
RecordAttempt(w) ==
  LET d == job[w].d
      s == AfterAttempt(job[w].outcome, job[w].attempt) IN
  /\ pc[w] = "record"
  /\ \/ /\ Exists(d)
        /\ state' = [state EXCEPT ![d] = s]
        /\ count' = IF job[w].outcome \in {"cancelled", "mismatch"} THEN count
                    ELSE [count EXCEPT ![d] = job[w].attempt]
        /\ next' = [next EXCEPT ![d] = IF s = "RETRYING" THEN clock + Delay ELSE 0]
     \/ /\ ~Exists(d)
        /\ UNCHANGED row
  /\ NextJob(w)
  /\ UNCHANGED <<clock, sub, hist, cllr>>

\* decrypt throws: the job is given up, its row stays DELIVERING.
DecryptThrows(w) ==
  /\ pc[w] = "send"
  /\ crashes < MaxCrashes
  /\ crashes' = crashes + 1
  /\ orphans' = orphans \cup {job[w].d}
  /\ NextJob(w)
  /\ UNCHANGED <<clock, sub, row, sends, cllr>>

CrashWorker(w) ==
  /\ pc[w] # "idle"
  /\ crashes < MaxCrashes
  /\ crashes' = crashes + 1
  /\ orphans' = IF pc[w] \in HoldPCs THEN orphans \cup {job[w].d} ELSE orphans
  /\ EndPoll(w)
  /\ UNCHANGED <<clock, sub, row, sends, cllr>>

-----------------------------------------------------------------------------
(***************************************************************************)
(* HTTP requests.  The rate limiter may refuse any of them.                *)
(***************************************************************************)
Begin(c, l, r) ==
  /\ cpc[c] = "idle" /\ calls < MaxCalls
  /\ calls' = calls + 1
  /\ req' = [req EXCEPT ![c] = r]
  /\ CGoto(c, l)
  /\ UNCHANGED <<clock, sub, row, hist, wkr>>

End(c) ==
  /\ CGoto(c, "idle")
  /\ req' = [req EXCEPT ![c] = NoReq]

\* matchesFilters: any of the active subscriptions may let an event through.
MatchesFilters == SUBSET {s \in Subs : sub[s] = "ACTIVE"}

\* publish, to the subscriptions whose filters match.
Publish(c, ev) ==
  /\ \E S \in MatchesFilters :
       Begin(c, "consume", [NoReq EXCEPT !.subs = S, !.event = ev])
  /\ UNCHANGED used

\* rateLimit.consume: refused, the subscription misses the event; a deleted
\* subscription ends the publication for those after it too.
Consume(c) ==
  /\ cpc[c] = "consume"
  /\ \/ \E s \in req[c].subs :
          \/ /\ sub[s] # "DELETED"
             /\ CGoto(c, "enqueue")
             /\ req' = [req EXCEPT ![c].sub = s, ![c].subs = @ \ {s}]
          \/ /\ sub[s] # "DELETED"
             /\ req' = [req EXCEPT ![c].subs = @ \ {s}]
             /\ UNCHANGED cpc
          \/ /\ sub[s] = "DELETED"
             /\ End(c)
     \/ /\ req[c].subs = {}
        /\ End(c)
  /\ UNCHANGED <<clock, sub, row, hist, wkr, used, calls>>

\* Mutant: no unique key, a second publication starts the delivery over.
KnownNever(d) == FALSE

\* createDelivery meets P2002: the row is there already.
Known(d) == Exists(d)

\* enqueueDelivery.
Enqueue(c) ==
  LET d == <<req[c].sub, req[c].event>> IN
  /\ cpc[c] = "enqueue"
  /\ \/ /\ sub[req[c].sub] # "DELETED"
        /\ IF Known(d) THEN UNCHANGED <<row, sends>> ELSE Insert(d)
        /\ CGoto(c, "consume")
        /\ req' = [req EXCEPT ![c].sub = None]
     \/ /\ sub[req[c].sub] = "DELETED"
        /\ End(c)
        /\ UNCHANGED <<row, sends>>
  /\ UNCHANGED <<clock, sub, orphans, crashes, wkr, used, calls>>

\* test and replay: the subscription is read, a random key drawn.
BeginDirect(c, d) ==
  /\ d \notin used /\ used' = used \cup {d}
  /\ sub[d[1]] # "DELETED"
  /\ Begin(c, "create", [NoReq EXCEPT !.d = d, !.attempt = 1])

\* deliver, createDelivery.
CreateDirect(c) ==
  LET d == req[c].d IN
  /\ cpc[c] = "create"
  /\ \/ /\ sub[d[1]] # "DELETED"
        /\ Insert(d)
        /\ CGoto(c, "start")
        /\ UNCHANGED req
     \/ /\ sub[d[1]] = "DELETED"
        /\ End(c)
        /\ UNCHANGED <<row, sends>>
  /\ UNCHANGED <<clock, sub, orphans, crashes, wkr, used, calls>>

\* The head of deliver's loop.
StartDirect(c) ==
  LET d == req[c].d IN
  /\ cpc[c] = "start"
  /\ \/ /\ Exists(d)
        /\ state' = [state EXCEPT ![d] = "DELIVERING"]
        /\ count' = [count EXCEPT ![d] = req[c].attempt]
        /\ CGoto(c, "send")
        /\ UNCHANGED req
     \/ /\ ~Exists(d)
        /\ End(c)
        /\ UNCHANGED <<state, count>>
  /\ UNCHANGED <<clock, sub, next, hist, wkr, used, calls>>

SendDirect(c) ==
  /\ cpc[c] = "send"
  /\ \E r \in {"ok", "retryable", "rejected"} :
       req' = [req EXCEPT ![c].outcome = r]
  /\ sends' = [sends EXCEPT ![req[c].d] = @ + 1]
  /\ CGoto(c, "record")
  /\ UNCHANGED <<clock, sub, row, orphans, crashes, wkr, used, calls>>

\* Success, RETRYING before the next turn of the loop, or DEAD_LETTER after it.
RecordDirect(c) ==
  LET d == req[c].d
      s == AfterAttempt(req[c].outcome, req[c].attempt) IN
  /\ cpc[c] = "record"
  /\ IF Exists(d)
     THEN /\ state' = [state EXCEPT ![d] = s]
          /\ next' = [next EXCEPT ![d] = IF s = "RETRYING" THEN clock + Delay ELSE 0]
     ELSE UNCHANGED <<state, next>>
  /\ IF Exists(d) /\ s = "RETRYING"
     THEN /\ CGoto(c, "start")
          /\ req' = [req EXCEPT ![c].attempt = @ + 1]
     ELSE End(c)
  /\ UNCHANGED <<clock, sub, count, hist, wkr, used, calls>>

\* cleanup: lists finished deliveries, then deletes them by uuid.  A row that
\* the same event inserts later has another uuid, which no list names.
CleanupList(c) ==
  /\ \E D \in SUBSET {d \in Deliveries : state[d] \in Terminal} :
       Begin(c, "cleanup", [NoReq EXCEPT !.rows = D])
  /\ UNCHANGED used

CleanupDelete(c) ==
  /\ cpc[c] = "cleanup"
  /\ Remove(req[c].rows)
  /\ job' = [w \in Workers |-> [job[w] EXCEPT !.due = @ \ req[c].rows]]
  /\ req' = [x \in Callers |-> IF x = c THEN NoReq ELSE [req[x] EXCEPT !.rows = @ \ req[c].rows]]
  /\ CGoto(c, "idle")
  /\ UNCHANGED <<clock, sub, hist, pc, used, calls>>

CrashCaller(c) ==
  /\ cpc[c] # "idle"
  /\ crashes < MaxCrashes
  /\ crashes' = crashes + 1
  /\ orphans' = IF cpc[c] \in {"start", "send", "record"}
                THEN orphans \cup {req[c].d} ELSE orphans
  /\ End(c)
  /\ UNCHANGED <<clock, sub, row, sends, wkr, used, calls>>

-----------------------------------------------------------------------------
\* update with enabled, and remove, which cascades to the deliveries.
SetEnabled(s) ==
  /\ sub[s] # "DELETED"
  /\ sub' = [sub EXCEPT ![s] = IF @ = "ACTIVE" THEN "DISABLED" ELSE "ACTIVE"]
  /\ UNCHANGED <<clock, row, hist, wkr, cllr>>

RemoveSubscription(s) ==
  /\ sub[s] # "DELETED"
  /\ sub' = [sub EXCEPT ![s] = "DELETED"]
  /\ Remove({d \in Deliveries : d[1] = s})
  /\ UNCHANGED <<clock, hist, wkr, cllr>>

\* Time matters only while a delivery waits for its next attempt.
Tick ==
  /\ \E d \in Deliveries : next[d] > clock
  /\ clock' = clock + 1
  /\ UNCHANGED <<sub, row, hist, wkr, cllr>>

WorkerStep(w) ==
  \/ Poll(w) \/ ClaimDelivery(w) \/ FinishPoll(w) \/ CountAttempt(w)
  \/ LoadDelivery(w) \/ LoadSubscription(w) \/ Send(w) \/ RecordAttempt(w)

CallerStep(c) ==
  \/ Consume(c) \/ Enqueue(c) \/ CreateDirect(c) \/ StartDirect(c)
  \/ SendDirect(c) \/ RecordDirect(c) \/ CleanupDelete(c)

Next ==
  \/ \E w \in Workers : WorkerStep(w) \/ DecryptThrows(w) \/ CrashWorker(w)
  \/ \E c \in Callers : CallerStep(c) \/ CleanupList(c) \/ CrashCaller(c)
  \/ \E c \in Callers, ev \in Events : Publish(c, ev)
  \/ \E c \in Callers, d \in Subs \X DirectKeys : BeginDirect(c, d)
  \/ \E s \in Subs : SetEnabled(s) \/ RemoveSubscription(s)
  \/ Tick

Spec == Init /\ [][Next]_vars

\* Timers fire, and queries and the network answer (send has a timeout).
FairSpec ==
  /\ Spec
  /\ \A w \in Workers : WF_vars(WorkerStep(w))
  /\ \A c \in Callers : WF_vars(CallerStep(c))
  /\ WF_vars(Tick)

-----------------------------------------------------------------------------
(***************************************************************************)
(* Properties.                                                             *)
(***************************************************************************)

\* The rows and the local variables have the types of the schema and the code.
TypeOK ==
  /\ clock \in Nat
  /\ sub \in [Subs -> {"ACTIVE", "DISABLED", "DELETED"}]
  /\ state \in [Deliveries -> RowStates]
  /\ count \in [Deliveries -> Nat]
  /\ next \in [Deliveries -> Nat]
  /\ used \in SUBSET Deliveries
  /\ calls \in Nat
  /\ sends \in [Deliveries -> Nat]
  /\ orphans \in SUBSET Deliveries
  /\ crashes \in Nat
  /\ pc \in [Workers -> {"idle", "next"} \cup HoldPCs]
  /\ job \in [Workers -> Job]
  /\ cpc \in [Callers -> {"idle", "consume", "enqueue", "create", "start",
                          "send", "record", "cleanup"}]
  /\ req \in [Callers -> Req]

\* claimDelivery is a lock: a published delivery is in the hands of one worker
\* at most, and its row says DELIVERING for as long (or is gone).
OneSender ==
  \A d \in Published : \A v, w \in Workers :
    Holds(v, d) /\ Holds(w, d) =>
      v = w /\ state[d] \in {"DELIVERING", "ABSENT"}

\* The worker "does not process a delivery claimed by another worker"
\* (test/unit/system/webhook.retry.worker.spec.ts), said of every delivery.
ClaimedByOne ==
  \A d \in Deliveries : \A v, w \in Workers : Holds(v, d) /\ Holds(w, d) => v = w

\* Every request a subscriber receives for a published event is accounted for
\* by attempt_count, and there are maxAttempts of them at most, although the
\* count written is computed from a row that was read before the claim.
SendsCounted ==
  \A d \in Published : Exists(d) => sends[d] <= count[d] /\ count[d] <= MaxAttempts

\* A published delivery is sent by one worker at a time, and every request counted.
SentByOneAndCounted == OneSender /\ SendsCounted

\* SUCCEEDED, DEAD_LETTER and CANCELLED are final for a published delivery:
\* no worker with an old list, and no second publication, revives it.
PublishedFinal ==
  [][\A d \in Published :
       state[d] \in Terminal => state'[d] \in {state[d], "ABSENT"}]_vars

\* Every delivery comes to an end, unless the process that held it died: no
\* operation takes a DELIVERING row up again.
EveryDeliveryEnds ==
  \A d \in Deliveries :
    Exists(d) ~> (state[d] \in Terminal \cup {"ABSENT"} \/ d \in orphans)
=============================================================================
