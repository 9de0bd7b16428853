----------------------- MODULE WebhookDeliveryProofs -----------------------
(***************************************************************************)
(* Proofs about WebhookDelivery for any number of subscriptions, events,   *)
(* workers and callers, any number of attempts and any delay.              *)
(***************************************************************************)
EXTENDS WebhookDelivery, TLAPS

-----------------------------------------------------------------------------
(* The inductive invariant.                                                *)

\* A row that is gone for good: its subscription is.
Gone(d) == state[d] = "ABSENT" /\ sub[d[1]] = "DELETED"

\* What a poll says of a published delivery: as long as the row is still due
\* at the time of the poll, the count that the poll has read is its count.
ListOK(r) ==
  /\ r.now <= clock
  /\ \A d \in r.due \cap Published :
       /\ Exists(d) \/ Gone(d)
       /\ Due(d, r.now) => count[d] = r.listed[d]

ListInv == \A w \in Workers : ListOK(job[w])

\* What a worker at l with the record r knows of the row it has claimed.
Counting(l, r, d) ==
  /\ state[d] = "DELIVERING"
  /\ l = "count" => count[d] = r.listed[d] /\ count[d] < MaxAttempts
  /\ l \in {"load", "subscription", "send"} => sends[d] < count[d]
  /\ l \in {"subscription", "send", "record"} => r.attempt = count[d]

HoldInv ==
  \A w \in Workers, d \in Published :
    Holds(w, d) => Counting(pc[w], job[w], d) \/ Gone(d)

OneHolder ==
  \A d \in Published : \A v, w \in Workers : Holds(v, d) /\ Holds(w, d) => v = w

\* A row that may be claimed has an attempt left.
QueueInv == \A d \in Published : state[d] \in Queued => count[d] < MaxAttempts

\* What a request in flight has in hand: a subscription and an event, a direct
\* delivery, or finished deliveries to delete.
HasJob == \A w \in Workers : pc[w] \in HoldPCs => job[w].d \in Deliveries

ReqInv ==
  \A c \in Callers :
    /\ cpc[c] \in {"consume", "enqueue"} => req[c].event \in Events
    /\ cpc[c] = "enqueue" => req[c].sub \in Subs
    /\ cpc[c] \in {"create", "start", "send", "record"} => req[c].d \in Deliveries \ Published

CleanInv ==
  \A c \in Callers : \A d \in req[c].rows \cap Published : state[d] \in Terminal \/ Gone(d)

IInv ==
  /\ TypeOK /\ HasJob /\ ReqInv /\ ListInv /\ HoldInv /\ OneHolder /\ QueueInv /\ CleanInv
  /\ SendsCounted

-----------------------------------------------------------------------------
LEMMA Records ==
  /\ NoJob \in Job /\ NoJob.due = {} /\ NoJob.now = 0
  /\ NoReq \in Req /\ NoReq.rows = {} /\ NoReq.subs = {}
  /\ \A d \in Deliveries : d # None /\ d[1] \in Subs
  /\ Published \subseteq Deliveries
  /\ \A s \in Subs, e \in Events : <<s, e>> \in Published /\ <<s, e>>[1] = s
  /\ \A d \in Subs \X DirectKeys : d \in Deliveries \ Published
  BY ConstAssumption DEF NoJob, NoReq, Job, Req, Outcomes, Deliveries, Published

\* A worker moves on, and no row changes.  It has claimed nothing, and what it
\* knows of the row it has claimed before is true.
LEMMA WorkerKeeps ==
  ASSUME IInv, NEW w \in Workers, NEW l \in {"idle", "next"} \cup HoldPCs, NEW r \in Job,
         pc' = [pc EXCEPT ![w] = l], job' = [job EXCEPT ![w] = r],
         ListOK(r),
         l \in HoldPCs => /\ pc[w] \in HoldPCs /\ r.d = job[w].d
                          /\ r.d \in Published /\ ~Gone(r.d) => Counting(l, r, r.d),
         orphans' \subseteq Deliveries, crashes' \in Nat,
         UNCHANGED <<clock, sub, row, sends, cllr>>
  PROVE  IInv'
  <1> USE DEF IInv, row, cllr
  <1>1. /\ \A v \in Workers \ {w} : job'[v] = job[v] /\ pc'[v] = pc[v]
        /\ job'[w] = r /\ pc'[w] = l
    BY DEF TypeOK
  <1>2. TypeOK'
    BY DEF TypeOK
  <1>3. HasJob' /\ ReqInv'
    BY <1>1 DEF HasJob, ReqInv
  <1>4. ListInv'
    BY <1>1 DEF ListInv, ListOK, Exists, Gone, Due
  <1>5. \A v \in Workers, d \in Published : Holds(v, d)' =>
          Holds(v, d) /\ (v = w => r.d = d /\ l \in HoldPCs)
    BY <1>1 DEF Holds
  <1>6. HoldInv'
    BY <1>1, <1>5 DEF HoldInv, Counting, Gone
  <1>7. OneHolder' /\ QueueInv' /\ CleanInv' /\ SendsCounted'
    BY <1>5 DEF OneHolder, QueueInv, CleanInv, SendsCounted, Exists, Gone
  <1> QED
    BY <1>2, <1>3, <1>4, <1>6, <1>7

\* A caller moves on, and no row changes.
LEMMA CallerKeeps ==
  ASSUME IInv, NEW c \in Callers, NEW r \in Req,
         NEW l \in {"idle", "consume", "enqueue", "create", "start", "send", "record", "cleanup"},
         cpc' = [cpc EXCEPT ![c] = l], req' = [req EXCEPT ![c] = r],
         l \in {"consume", "enqueue"} => r.event \in Events,
         l = "enqueue" => r.sub \in Subs,
         l \in {"create", "start", "send", "record"} => r.d \in Deliveries \ Published,
         \A d \in r.rows : d \in req[c].rows \/ state[d] \in Terminal,
         used' \subseteq Deliveries, calls' \in Nat, crashes' \in Nat, orphans' \subseteq Deliveries,
         sends' \in [Deliveries -> Nat],
         \A d \in Published : sends'[d] = sends[d],
         UNCHANGED <<clock, sub, row, wkr>>
  PROVE  IInv'
  <1> USE DEF IInv, row, wkr
  <1>1. /\ \A d \in Callers \ {c} : req'[d] = req[d] /\ cpc'[d] = cpc[d]
        /\ req'[c] = r /\ cpc'[c] = l
    BY DEF TypeOK
  <1>2. TypeOK'
    BY DEF TypeOK
  <1>3. HasJob' /\ ReqInv'
    BY <1>1 DEF HasJob, ReqInv
  <1>4. CleanInv'
    BY <1>1 DEF CleanInv, Gone
  <1>5. ListInv' /\ OneHolder' /\ QueueInv'
    BY DEF ListInv, ListOK, Exists, Gone, Due, OneHolder, Holds, QueueInv
  <1>6. HoldInv' /\ SendsCounted'
    BY DEF HoldInv, Holds, Counting, Gone, SendsCounted, Exists
  <1> QED
    BY <1>2, <1>3, <1>4, <1>5, <1>6

\* Rows of direct deliveries, to which the invariant does not speak.
LEMMA DirectKeeps ==
  ASSUME IInv, NEW d \in Deliveries \ Published,
         state' \in [Deliveries -> RowStates], count' \in [Deliveries -> Nat],
         next' \in [Deliveries -> Nat], sends' \in [Deliveries -> Nat],
         \A e \in Published : /\ state'[e] = state[e] /\ count'[e] = count[e]
                              /\ next'[e] = next[e] /\ sends'[e] = sends[e],
         NEW c \in Callers, NEW r \in Req, NEW l \in {"idle", "start", "send"},
         cpc' = [cpc EXCEPT ![c] = l], req' = [req EXCEPT ![c] = r],
         l # "idle" => r.d \in Deliveries \ Published,
         r.rows \subseteq req[c].rows,
         UNCHANGED <<clock, sub, orphans, crashes, wkr, used, calls>>
  PROVE  IInv'
  <1> USE DEF IInv, wkr
  <1>1. /\ \A b \in Callers \ {c} : req'[b] = req[b] /\ cpc'[b] = cpc[b]
        /\ req'[c] = r /\ cpc'[c] = l
    BY DEF TypeOK
  <1>2. TypeOK'
    BY DEF TypeOK
  <1>3. HasJob' /\ ReqInv'
    BY <1>1 DEF HasJob, ReqInv
  <1>4. CleanInv'
    BY <1>1 DEF CleanInv, Gone
  <1>5. ListInv' /\ OneHolder' /\ QueueInv'
    BY DEF ListInv, ListOK, Exists, Gone, Due, OneHolder, Holds, QueueInv
  <1>6. HoldInv' /\ SendsCounted'
    BY DEF HoldInv, Holds, Counting, Gone, SendsCounted, Exists
  <1> QED
    BY <1>2, <1>3, <1>4, <1>5, <1>6

-----------------------------------------------------------------------------
(* SystemWebhookRetryWorker.                                               *)

LEMMA PollKeeps ==
  ASSUME IInv, NEW w \in Workers, Poll(w)
  PROVE  IInv'
  <1> DEFINE due == {d \in Deliveries : Due(d, clock)}
             listed == [d \in Deliveries |-> IF d \in due THEN count[d] ELSE 0]
             r == [NoJob EXCEPT !.now = clock, !.due = due, !.listed = listed]
  <1>1. clock \in Nat /\ count \in [Deliveries -> Nat] /\ orphans \subseteq Deliveries /\ crashes \in Nat
    BY DEF IInv, TypeOK
  <1>2. due \subseteq Deliveries /\ listed \in [Deliveries -> Nat]
    BY <1>1
  <1>3. /\ \A d \in due : d \in Deliveries /\ Due(d, clock)
        /\ \A d \in due : listed[d] = count[d]
    OBVIOUS
  <1> HIDE DEF due, listed
  <1>4. r \in Job /\ r.now = clock /\ r.due = due /\ r.listed = listed
    BY <1>1, <1>2, Records DEF Job, NoJob
  <1>5. job' = [job EXCEPT ![w] = r] /\ pc' = [pc EXCEPT ![w] = "next"]
        /\ UNCHANGED <<clock, sub, row, hist, cllr>>
    BY DEF Poll, Goto, due, listed
  <1> HIDE DEF r
  <1>6. ListOK(r)
    BY <1>1, <1>3, <1>4 DEF ListOK, Due, Exists, Queued
  <1> QED
    BY <1>1, <1>4, <1>5, <1>6, WorkerKeeps DEF HoldPCs, hist

\* What NextJob and EndPoll leave of a worker's record.
LEMMA RestKeeps ==
  ASSUME IInv, NEW w \in Workers, NextJob(w) \/ EndPoll(w),
         orphans' \subseteq Deliveries, crashes' \in Nat,
         UNCHANGED <<clock, sub, row, sends, cllr>>
  PROVE  IInv'
  <1>1. CASE NextJob(w)
    <2> DEFINE r == [job[w] EXCEPT !.d = None, !.attempt = 0, !.outcome = "ok"]
    <2>1. job[w] \in Job /\ ListOK(job[w])
      BY DEF IInv, TypeOK, ListInv
    <2>2. r \in Job /\ r.now = job[w].now /\ r.due = job[w].due /\ r.listed = job[w].listed
      BY <2>1 DEF Job, Outcomes
    <2>3. job' = [job EXCEPT ![w] = r] /\ pc' = [pc EXCEPT ![w] = "next"]
      BY <1>1 DEF NextJob, Goto
    <2> HIDE DEF r
    <2>4. ListOK(r)
      BY <2>1, <2>2 DEF ListOK
    <2> QED
      BY <2>2, <2>3, <2>4, WorkerKeeps DEF HoldPCs
  <1>2. CASE EndPoll(w)
    <2>1. ListOK(NoJob)
      BY Records DEF IInv, TypeOK, ListOK
    <2> QED
      BY <1>2, <2>1, Records, WorkerKeeps DEF EndPoll, Goto, HoldPCs
  <1> QED
    BY <1>1, <1>2

\* The claim: a published row that is due at the time of the poll has the count
\* that the poll has read, and nobody holds it, because it is queued.
LEMMA ClaimDeliveryKeeps ==
  ASSUME IInv, NEW w \in Workers, ClaimDelivery(w)
  PROVE  IInv'
  <1>1. PICK d \in job[w].due :
          \/ /\ Claimable(w, d)
             /\ state' = [state EXCEPT ![d] = "DELIVERING"]
             /\ job' = [job EXCEPT ![w].d = d, ![w].due = @ \ {d}]
             /\ Goto(w, "count")
          \/ /\ ~Claimable(w, d)
             /\ job' = [job EXCEPT ![w].due = @ \ {d}]
             /\ UNCHANGED <<state, pc>>
    BY DEF ClaimDelivery
  <1>2. /\ pc[w] = "next" /\ "next" \notin HoldPCs
        /\ UNCHANGED <<clock, sub, count, next, hist, cllr>>
    BY DEF ClaimDelivery, HoldPCs
  <1>3. /\ job[w] \in Job /\ ListOK(job[w]) /\ d \in Deliveries
        /\ orphans \subseteq Deliveries /\ crashes \in Nat
    BY DEF IInv, TypeOK, ListInv, Job
  <1>4. CASE ~Claimable(w, d)
    <2> DEFINE r == [job[w] EXCEPT !.due = @ \ {d}]
    <2>1. r \in Job /\ r.now = job[w].now /\ r.due = job[w].due \ {d} /\ r.listed = job[w].listed
      BY <1>3 DEF Job
    <2>2. /\ job' = [job EXCEPT ![w] = r]
          /\ pc' = [pc EXCEPT ![w] = "next"]
      <3>1. pc' = pc
        BY <1>1, <1>4
      <3>2. pc = [pc EXCEPT ![w] = "next"]
        BY <1>2 DEF IInv, TypeOK
      <3>3. job' = [job EXCEPT ![w] = [job[w] EXCEPT !.due = job[w].due \ {d}]]
        BY <1>1, <1>4
      <3>4. job' = [job EXCEPT ![w] = r]
        BY <3>3
      <3>5. pc' = [pc EXCEPT ![w] = "next"]
        BY <3>1, <3>2, Zenon
      <3> QED
        BY <3>4, <3>5
    <2>3. UNCHANGED <<clock, sub, row, hist, cllr>>
      BY <1>1, <1>2, <1>4 DEF row
    <2> HIDE DEF r
    <2>4. ListOK(r)
      BY <1>3, <2>1 DEF ListOK
    <2> QED
      BY <1>3, <2>1, <2>2, <2>3, <2>4, WorkerKeeps, <1>2 DEF hist
  <1>5. CASE Claimable(w, d)
    <2> DEFINE r == [job[w] EXCEPT !.d = d, !.due = @ \ {d}]
    <2>1. /\ r \in Job /\ r.now = job[w].now /\ r.due = job[w].due \ {d}
          /\ r.listed = job[w].listed /\ r.d = d
      BY <1>3 DEF Job
    <2>2. /\ job' = [job EXCEPT ![w] = r] /\ pc' = [pc EXCEPT ![w] = "count"]
          /\ state' = [state EXCEPT ![d] = "DELIVERING"]
          /\ Due(d, job[w].now) /\ state[d] \in Queued
      <3>1. /\ state' = [state EXCEPT ![d] = "DELIVERING"]
            /\ job' = [job EXCEPT ![w].d = d, ![w].due = @ \ {d}]
            /\ Goto(w, "count")
        BY <1>1, <1>5
      <3>2. Due(d, job[w].now) /\ state[d] \in Queued
        BY <1>5 DEF Claimable, Due
      <3>3. pc' = [pc EXCEPT ![w] = "count"]
        BY <3>1 DEF Goto
      <3>4. job' = [job EXCEPT ![w] = r]
        BY <3>1
      <3> QED
        BY <3>1, <3>2, <3>3, <3>4
    <2> HIDE DEF r
    <2> USE <1>2, <1>3, <2>1, <2>2 DEF IInv, hist, cllr
    <2>3. /\ \A v \in Workers \ {w} : job'[v] = job[v] /\ pc'[v] = pc[v]
          /\ job'[w] = r /\ pc'[w] = "count" /\ "count" \in HoldPCs
          /\ \A e \in Deliveries : state'[e] = IF e = d THEN "DELIVERING" ELSE state[e]
          /\ "DELIVERING" \notin Queued \cup Terminal \cup {"ABSENT"}
          /\ state[d] \notin Terminal \cup {"ABSENT", "DELIVERING"}
      BY DEF TypeOK, HoldPCs, Queued, Terminal
    <2>4. TypeOK'
      <3>1. state' \in [Deliveries -> RowStates]
        BY DEF TypeOK, RowStates
      <3>2. job' \in [Workers -> Job]
        BY DEF TypeOK
      <3>3. pc' \in [Workers -> {"idle", "next"} \cup HoldPCs]
        BY <2>3 DEF TypeOK
      <3> QED
        BY <3>1, <3>2, <3>3 DEF TypeOK
    <2>5. HasJob' /\ ReqInv'
      BY <2>3 DEF HasJob, ReqInv
    <2>6. ListInv'
      <3>1. ASSUME NEW v \in Workers PROVE ListOK(job[v])'
        <4>1. ListOK(job[v]) /\ job'[v].now = job[v].now /\ job'[v].due \subseteq job[v].due
              /\ job'[v].listed = job[v].listed
          BY <2>3 DEF ListInv
        <4> QED
          BY <4>1, <2>3, Records DEF ListOK, Due, Exists, Gone
      <3> QED
        BY <3>1 DEF ListInv
    <2>7. d \in Published => \A v \in Workers : ~Holds(v, d)
      BY <2>3 DEF HoldInv, Counting, Gone
    <2>8. \A v \in Workers, e \in Published : Holds(v, e)' <=> Holds(v, e) \/ (v = w /\ e = d)
      BY <2>3 DEF Holds
    <2>9. OneHolder'
      BY <2>7, <2>8 DEF OneHolder
    <2>10. HoldInv'
      <3> SUFFICES ASSUME NEW v \in Workers, NEW e \in Published, Holds(v, e)'
                   PROVE  Counting(pc[v], job[v], e)' \/ Gone(e)'
        BY DEF HoldInv
      <3>1. CASE e = d
        <4>1. v = w
          BY <2>7, <2>8, <3>1
        <4>2. count[d] = r.listed[d] /\ count[d] < MaxAttempts
          BY <3>1 DEF ListOK, QueueInv
        <4> QED
          BY <2>3, <3>1, <4>1, <4>2 DEF Counting
      <3>2. CASE e # d
        <4>1. Holds(v, e) /\ v # w
          BY <2>3, <2>8, <3>2 DEF Holds
        <4>2. state'[e] = state[e]
          BY <2>3, <3>2, Records
        <4> QED
          BY <2>3, <4>1, <4>2 DEF HoldInv, Counting, Gone
      <3> QED
        BY <3>1, <3>2
    <2>11. QueueInv' /\ CleanInv' /\ SendsCounted'
      BY <2>3, Records DEF QueueInv, CleanInv, Gone, SendsCounted, Exists
    <2> QED
      BY <2>4, <2>5, <2>6, <2>9, <2>10, <2>11
  <1> QED
    BY <1>4, <1>5

LEMMA FinishPollKeeps ==
  ASSUME IInv, NEW w \in Workers, FinishPoll(w)
  PROVE  IInv'
  BY RestKeeps DEF FinishPoll, IInv, TypeOK, hist

\* A worker writes to the row d that it holds, and stays with it (l in HoldPCs)
\* or lets it go.
LEMMA HolderKeeps ==
  ASSUME IInv, NEW w \in Workers, pc[w] \in HoldPCs,
         NEW l \in {"next"} \cup HoldPCs, NEW r \in Job, NEW s \in RowStates \ {"ABSENT"},
         pc' = [pc EXCEPT ![w] = l], job' = [job EXCEPT ![w] = r],
         r.now = job[w].now, r.due = job[w].due, r.listed = job[w].listed,
         l \in HoldPCs => r.d = job[w].d /\ s = "DELIVERING",
         LET d == job[w].d IN
           /\ Exists(d) /\ state' = [state EXCEPT ![d] = s]
           /\ count' \in [Deliveries -> Nat] /\ next' \in [Deliveries -> Nat]
           /\ sends' \in [Deliveries -> Nat]
           /\ \A e \in Deliveries : e # d =>
                count'[e] = count[e] /\ next'[e] = next[e] /\ sends'[e] = sends[e]
           /\ s \in Queued => next'[d] > clock
           /\ d \in Published =>
                /\ l \in HoldPCs => Counting(l, r, d)'
                /\ s \in Queued => count'[d] < MaxAttempts
                /\ sends'[d] <= count'[d] /\ count'[d] <= MaxAttempts,
         UNCHANGED <<clock, sub, orphans, crashes, cllr>>
  PROVE  IInv'
  <1> USE DEF IInv, cllr
  <1> DEFINE d == job[w].d
  <1>1. /\ \A v \in Workers \ {w} : job'[v] = job[v] /\ pc'[v] = pc[v]
        /\ job'[w] = r /\ pc'[w] = l
        /\ \A e \in Deliveries : state'[e] = IF e = d THEN s ELSE state[e]
        /\ d \in Deliveries
    BY DEF TypeOK, HasJob
  <1>2. TypeOK'
    BY DEF TypeOK
  <1>3. HasJob' /\ ReqInv'
    BY <1>1 DEF HasJob, ReqInv
  <1>4. d \in Published => state[d] = "DELIVERING" /\ \A v \in Workers : Holds(v, d) => v = w
    BY DEF HoldInv, Holds, Counting, Gone, Exists, OneHolder
  <1>5. ListInv'
    <2>1. ASSUME NEW v \in Workers PROVE ListOK(job[v])'
      <3>1. ListOK(job[v]) /\ job'[v].now = job[v].now /\ job'[v].due = job[v].due
            /\ job'[v].listed = job[v].listed /\ job[v].now \in Nat
        BY <1>1 DEF ListInv, TypeOK, Job
      <3>2. ASSUME NEW e \in job[v].due \cap Published
            PROVE  (Exists(e) \/ Gone(e))' /\ (Due(e, job[v].now)' => count'[e] = job[v].listed[e])
        <4>1. CASE e = d
          <5>1. Exists(e)'
            BY <1>1, <4>1 DEF Exists
          <5>2. ~Due(e, job[v].now)'
            BY <1>1, <3>1, <4>1 DEF Due, ListOK, TypeOK
          <5> QED
            BY <5>1, <5>2
        <4>2. CASE e # d
          BY <1>1, <3>1, <3>2, <4>2, Records DEF ListOK, Due, Exists, Gone
        <4> QED
          BY <4>1, <4>2
      <3> QED
        BY <3>1, <3>2 DEF ListOK, Due
    <2> QED
      BY <2>1 DEF ListInv
  <1>6. \A v \in Workers, e \in Published : Holds(v, e)' =>
          Holds(v, e) /\ (v = w => e = d /\ l \in HoldPCs)
    BY <1>1 DEF Holds
  <1>7. HoldInv'
    <2> SUFFICES ASSUME NEW v \in Workers, NEW e \in Published, Holds(v, e)'
                 PROVE  Counting(pc[v], job[v], e)' \/ Gone(e)'
      BY DEF HoldInv
    <2>1. CASE v = w
      <3>1. e = d /\ l \in HoldPCs /\ Counting(l, r, d)'
        BY <1>6, <2>1
      <3> QED
        BY <1>1, <2>1, <3>1 DEF Counting
    <2>2. CASE v # w
      <3>1. Holds(v, e) /\ e # d
        BY <1>4, <1>6, <2>2
      <3> QED
        BY <1>1, <2>2, <3>1, Records DEF HoldInv, Counting, Gone
    <2> QED
      BY <2>1, <2>2
  <1>8. OneHolder'
    BY <1>6 DEF OneHolder
  <1>9. CleanInv'
    BY <1>1, <1>4, Records DEF CleanInv, Gone, Terminal
  <1>10. QueueInv' /\ SendsCounted'
    BY <1>1, Records DEF QueueInv, SendsCounted, Exists
  <1> QED
    BY <1>2, <1>3, <1>5, <1>7, <1>8, <1>9, <1>10

\* The attempt is counted from the count that the poll has read.
LEMMA CountAttemptKeeps ==
  ASSUME IInv, NEW w \in Workers, CountAttempt(w)
  PROVE  IInv'
  <1> DEFINE d == job[w].d
  <1>1. /\ pc[w] = "count" /\ pc[w] \in HoldPCs
        /\ UNCHANGED <<clock, sub, next, hist, cllr>>
    BY DEF CountAttempt, HoldPCs
  <1>2. job[w] \in Job /\ d \in Deliveries
    BY <1>1 DEF IInv, TypeOK, HasJob
  <1>3. CASE Exists(d)
    <2>1. /\ count' = [count EXCEPT ![d] = job[w].listed[d] + 1]
          /\ state' = [state EXCEPT ![d] = "DELIVERING"]
          /\ pc' = [pc EXCEPT ![w] = "load"] /\ job' = job
      BY <1>3 DEF CountAttempt, EndPoll, Goto
    <2>2. job = [job EXCEPT ![w] = job[w]]
      BY DEF IInv, TypeOK
    <2>3. job' = [job EXCEPT ![w] = job[w]]
      BY <2>1, <2>2, Zenon
    <2>4. /\ count' \in [Deliveries -> Nat] /\ next' \in [Deliveries -> Nat]
          /\ sends' \in [Deliveries -> Nat]
          /\ count'[d] = job[w].listed[d] + 1 /\ sends' = sends /\ next' = next
          /\ state'[d] = "DELIVERING" /\ count[d] \in Nat /\ sends[d] \in Nat
          /\ \A e \in Deliveries : e # d => count'[e] = count[e]
      BY <1>1, <1>2, <2>1 DEF IInv, TypeOK, Job, hist
    <2>5. d \in Published => /\ count[d] = job[w].listed[d] /\ count[d] < MaxAttempts
                             /\ sends[d] <= count[d]
      BY <1>1, <1>3 DEF IInv, HoldInv, Holds, Counting, Gone, Exists, SendsCounted
    <2>6. d \in Published => /\ Counting("load", job[w], d)'
                             /\ sends'[d] <= count'[d] /\ count'[d] <= MaxAttempts
      BY <2>1, <2>3, <2>4, <2>5, ConstAssumption DEF Counting
    <2>7. "load" \in HoldPCs /\ "DELIVERING" \in RowStates \ {"ABSENT"} /\ "DELIVERING" \notin Queued
      BY DEF HoldPCs, RowStates, Queued
    <2> QED
      BY <1>1, <1>2, <1>3, <2>1, <2>3, <2>4, <2>6, <2>7, HolderKeeps DEF hist
  <1>4. CASE ~Exists(d)
    <2>1. EndPoll(w) /\ UNCHANGED <<count, state>>
      BY <1>4 DEF CountAttempt
    <2> QED
      BY <1>1, <2>1, RestKeeps DEF IInv, TypeOK, row, hist
  <1> QED
    BY <1>3, <1>4

\* The row is read again after the claim: the attempt is the count in the row.
LEMMA LoadDeliveryKeeps ==
  ASSUME IInv, NEW w \in Workers, LoadDelivery(w)
  PROVE  IInv'
  <1> DEFINE d == job[w].d
             k == IF count[d] = 0 THEN 1 ELSE count[d]
             r == [job[w] EXCEPT !.attempt = k]
  <1>1. /\ pc[w] = "load" /\ pc[w] \in HoldPCs /\ "subscription" \in HoldPCs
        /\ UNCHANGED <<clock, sub, row, hist, cllr>>
        /\ job[w] \in Job /\ ListOK(job[w]) /\ d \in Deliveries
        /\ orphans \in SUBSET Deliveries /\ crashes \in Nat /\ count[d] \in Nat
    BY DEF LoadDelivery, HoldPCs, IInv, TypeOK, HasJob, ListInv
  <1>2. CASE NextJob(w)
    BY <1>1, <1>2, RestKeeps DEF hist
  <1>3. CASE ~NextJob(w)
    <2>1. job' = [job EXCEPT ![w] = r] /\ pc' = [pc EXCEPT ![w] = "subscription"]
      BY <1>3 DEF LoadDelivery, Goto
    <2>2. /\ r \in Job /\ r.now = job[w].now /\ r.due = job[w].due
          /\ r.listed = job[w].listed /\ r.d = d /\ r.attempt = k
      BY <1>1 DEF Job
    <2> HIDE DEF r
    <2>3. ListOK(r)
      BY <1>1, <2>2 DEF ListOK
    <2>4. d \in Published /\ ~Gone(d) => Counting("subscription", r, d)
      <3> SUFFICES ASSUME d \in Published, ~Gone(d)
                   PROVE  Counting("subscription", r, d)
        OBVIOUS
      <3>1. state[d] = "DELIVERING" /\ sends[d] < count[d] /\ sends[d] \in Nat
        BY <1>1 DEF IInv, TypeOK, HoldInv, Holds, Counting
      <3>2. k = count[d]
        BY <1>1, <3>1
      <3> QED
        BY <2>2, <3>1, <3>2 DEF Counting
    <2> QED
      BY <1>1, <2>1, <2>2, <2>3, <2>4, WorkerKeeps DEF hist
  <1> QED
    BY <1>2, <1>3

LEMMA LoadSubscriptionKeeps ==
  ASSUME IInv, NEW w \in Workers, LoadSubscription(w)
  PROVE  IInv'
  <1> DEFINE d == job[w].d
  <1>1. /\ pc[w] = "subscription" /\ pc[w] \in HoldPCs /\ {"send", "record"} \subseteq HoldPCs
        /\ UNCHANGED <<clock, sub, row, hist, cllr>>
        /\ job[w] \in Job /\ ListOK(job[w]) /\ d \in Deliveries
        /\ orphans \in SUBSET Deliveries /\ crashes \in Nat
    BY DEF LoadSubscription, HoldPCs, IInv, TypeOK, HasJob, ListInv
  <1>2. d \in Published /\ ~Gone(d) => state[d] = "DELIVERING" /\ sends[d] < count[d] /\ job[w].attempt = count[d]
    BY <1>1 DEF IInv, HoldInv, Holds, Counting
  <1>3. CASE NextJob(w)
    BY <1>1, <1>3, RestKeeps DEF hist
  <1>4. CASE Goto(w, "send") /\ UNCHANGED job
    <2>1. job = [job EXCEPT ![w] = job[w]]
      BY DEF IInv, TypeOK
    <2>2. job' = [job EXCEPT ![w] = job[w]]
      BY <1>4, <2>1, Zenon
    <2>3. d \in Published /\ ~Gone(d) => Counting("send", job[w], d)
      BY <1>2 DEF Counting
    <2> QED
      BY <1>1, <1>4, <2>2, <2>3, WorkerKeeps DEF hist, Goto
  <1>5. CASE \E o \in Outcomes : Goto(w, "record") /\ job' = [job EXCEPT ![w].outcome = o]
    <2>1. PICK o \in Outcomes : Goto(w, "record") /\ job' = [job EXCEPT ![w].outcome = o]
      BY <1>5
    <2> DEFINE r == [job[w] EXCEPT !.outcome = o]
    <2>2. job' = [job EXCEPT ![w] = r] /\ pc' = [pc EXCEPT ![w] = "record"]
      BY <2>1 DEF Goto
    <2>3. /\ r \in Job /\ r.now = job[w].now /\ r.due = job[w].due
          /\ r.listed = job[w].listed /\ r.d = d /\ r.attempt = job[w].attempt
      BY <1>1 DEF Job
    <2> HIDE DEF r
    <2>4. ListOK(r)
      BY <1>1, <2>3 DEF ListOK
    <2>5. d \in Published /\ ~Gone(d) => Counting("record", r, d)
      BY <1>2, <2>3 DEF Counting
    <2> QED
      BY <1>1, <2>2, <2>3, <2>4, <2>5, WorkerKeeps DEF hist
  <1>6. {"mismatch", "cancelled"} \subseteq Outcomes
    BY DEF Outcomes
  <1> QED
    BY <1>3, <1>4, <1>5, <1>6 DEF LoadSubscription

\* The request is one more than were sent before, and it has been counted.
LEMMA SendKeeps ==
  ASSUME IInv, NEW w \in Workers, Send(w)
  PROVE  IInv'
  <1> DEFINE d == job[w].d
  <1>1. /\ pc[w] = "send" /\ pc[w] \in HoldPCs /\ "record" \in HoldPCs
        /\ UNCHANGED <<clock, sub, row, orphans, crashes, cllr>>
        /\ sends' = [sends EXCEPT ![d] = @ + 1] /\ pc' = [pc EXCEPT ![w] = "record"]
        /\ job[w] \in Job /\ ListOK(job[w]) /\ d \in Deliveries
    BY DEF Send, Goto, HoldPCs, IInv, TypeOK, HasJob, ListInv
  <1>2. PICK o \in {"ok", "retryable", "rejected"} : job' = [job EXCEPT ![w].outcome = o]
    BY DEF Send
  <1> DEFINE r == [job[w] EXCEPT !.outcome = o]
  <1>3. job' = [job EXCEPT ![w] = r]
    BY <1>2
  <1>4. /\ r \in Job /\ r.now = job[w].now /\ r.due = job[w].due
        /\ r.listed = job[w].listed /\ r.d = d /\ r.attempt = job[w].attempt
    BY <1>1 DEF Job, Outcomes
  <1> HIDE DEF r
  <1>5. d \in Published /\ ~Gone(d) => /\ state[d] = "DELIVERING" /\ sends[d] < count[d]
                                       /\ r.attempt = count[d]
    BY <1>1, <1>4 DEF IInv, HoldInv, Holds, Counting
  <1> USE DEF IInv, row, cllr
  <1>6. /\ \A v \in Workers \ {w} : job'[v] = job[v] /\ pc'[v] = pc[v]
        /\ job'[w] = r /\ pc'[w] = "record"
        /\ sends'[d] = sends[d] + 1 /\ sends[d] \in Nat /\ count[d] \in Nat
        /\ \A e \in Deliveries : e # d => sends'[e] = sends[e]
    BY <1>1, <1>3 DEF TypeOK
  <1>7. TypeOK'
    <2>1. sends' \in [Deliveries -> Nat]
      BY <1>1 DEF TypeOK
    <2>2. job' \in [Workers -> Job] /\ pc' \in [Workers -> {"idle", "next"} \cup HoldPCs]
      BY <1>1, <1>3, <1>4 DEF TypeOK
    <2> QED
      BY <1>1, <2>1, <2>2 DEF TypeOK
  <1>8. HasJob' /\ ReqInv'
    BY <1>1, <1>4, <1>6 DEF HasJob, ReqInv
  <1>9. ListInv'
    BY <1>1, <1>4, <1>6 DEF ListInv, ListOK, Exists, Gone, Due
  <1>10. \A v \in Workers, e \in Published : Holds(v, e)' <=> Holds(v, e)
    BY <1>1, <1>4, <1>6 DEF Holds
  <1>11. \A v \in Workers : v # w => ~Holds(v, d) \/ d \notin Published
    BY <1>1 DEF OneHolder, Holds
  <1>12. HoldInv'
    <2> SUFFICES ASSUME NEW v \in Workers, NEW e \in Published, Holds(v, e)'
                 PROVE  Counting(pc[v], job[v], e)' \/ Gone(e)'
      BY DEF HoldInv
    <2>1. CASE v = w
      <3>1. e = d
        BY <1>4, <1>6, <2>1 DEF Holds
      <3> QED
        BY <1>1, <1>5, <1>6, <2>1, <3>1 DEF Counting, Gone
    <2>2. CASE v # w
      <3>1. Holds(v, e) /\ e # d
        BY <1>10, <1>11, <2>2
      <3> QED
        BY <1>1, <1>6, <2>2, <3>1, Records DEF HoldInv, Counting, Gone
    <2> QED
      BY <2>1, <2>2
  <1>13. OneHolder' /\ QueueInv' /\ CleanInv'
    BY <1>1, <1>10 DEF OneHolder, QueueInv, CleanInv, Gone
  <1>14. SendsCounted'
    BY <1>1, <1>5, <1>6, Records DEF SendsCounted, Exists, Gone
  <1> QED
    BY <1>7, <1>8, <1>9, <1>12, <1>13, <1>14

\* A delivery is scheduled again only if it has an attempt left, and then for
\* later than any poll in progress.
LEMMA RecordAttemptKeeps ==
  ASSUME IInv, NEW w \in Workers, RecordAttempt(w)
  PROVE  IInv'
  <1> DEFINE d == job[w].d
             k == job[w].attempt
             s == AfterAttempt(job[w].outcome, k)
             r == [job[w] EXCEPT !.d = None, !.attempt = 0, !.outcome = "ok"]
  <1>1. /\ pc[w] = "record" /\ pc[w] \in HoldPCs /\ NextJob(w)
        /\ UNCHANGED <<clock, sub, hist, cllr>>
        /\ job[w] \in Job /\ d \in Deliveries /\ k \in Nat /\ clock \in Nat
    BY DEF RecordAttempt, HoldPCs, IInv, TypeOK, HasJob, Job
  <1>2. CASE ~Exists(d)
    BY <1>1, <1>2, RestKeeps DEF RecordAttempt, IInv, TypeOK, hist
  <1>3. CASE Exists(d)
    <2>1. /\ state' = [state EXCEPT ![d] = s]
          /\ count' = IF job[w].outcome \in {"cancelled", "mismatch"} THEN count
                      ELSE [count EXCEPT ![d] = k]
          /\ next' = [next EXCEPT ![d] = IF s = "RETRYING" THEN clock + Delay ELSE 0]
      BY <1>3 DEF RecordAttempt
    <2>2. job' = [job EXCEPT ![w] = r] /\ pc' = [pc EXCEPT ![w] = "next"]
      BY <1>1 DEF NextJob, Goto
    <2>3. /\ r \in Job /\ r.now = job[w].now /\ r.due = job[w].due /\ r.listed = job[w].listed
      BY <1>1 DEF Job, Outcomes
    <2> HIDE DEF r
    <2>4. /\ s \in RowStates \ {"ABSENT"}
          /\ s \in Queued => s = "RETRYING" /\ k < MaxAttempts
      BY DEF AfterAttempt, Retries, RowStates, Queued, Terminal
    <2> HIDE DEF s
    <2>5. /\ count' \in [Deliveries -> Nat] /\ next' \in [Deliveries -> Nat]
          /\ sends' \in [Deliveries -> Nat] /\ sends' = sends
          /\ \A e \in Deliveries : e # d => count'[e] = count[e] /\ next'[e] = next[e]
          /\ count'[d] \in {count[d], k}
          /\ s \in Queued => next'[d] > clock
      BY <1>1, <2>1, <2>4, ConstAssumption DEF IInv, TypeOK, hist
    <2>6. d \in Published => k = count[d] /\ sends[d] <= count[d] /\ count[d] <= MaxAttempts
      BY <1>1, <1>3 DEF IInv, HoldInv, Holds, Counting, Gone, Exists, SendsCounted
    <2>7. d \in Published => /\ s \in Queued => count'[d] < MaxAttempts
                             /\ sends'[d] <= count'[d] /\ count'[d] <= MaxAttempts
      BY <2>4, <2>5, <2>6
    <2>8. "next" \notin HoldPCs
      BY DEF HoldPCs
    <2> QED
      BY <1>1, <1>3, <2>1, <2>2, <2>3, <2>4, <2>5, <2>7, <2>8, HolderKeeps DEF hist
  <1> QED
    BY <1>2, <1>3

LEMMA DecryptThrowsKeeps ==
  ASSUME IInv, NEW w \in Workers, DecryptThrows(w)
  PROVE  IInv'
  <1>1. pc[w] \in HoldPCs
    BY DEF DecryptThrows, HoldPCs
  <1>2. orphans' \subseteq Deliveries /\ crashes' \in Nat
    BY <1>1 DEF DecryptThrows, IInv, TypeOK, HasJob
  <1> QED
    BY <1>2, RestKeeps DEF DecryptThrows

LEMMA CrashWorkerKeeps ==
  ASSUME IInv, NEW w \in Workers, CrashWorker(w)
  PROVE  IInv'
  <1>1. orphans' \subseteq Deliveries /\ crashes' \in Nat
    BY DEF CrashWorker, IInv, TypeOK, HasJob
  <1> QED
    BY <1>1, RestKeeps DEF CrashWorker

-----------------------------------------------------------------------------
(* The requests.                                                           *)

LEMMA BeginKeeps ==
  ASSUME IInv, NEW c \in Callers, NEW r \in Req, NEW l \in {"consume", "create", "cleanup"},
         Begin(c, l, r), used' \subseteq Deliveries,
         l = "consume" => r.event \in Events,
         l = "create" => r.d \in Deliveries \ Published,
         \A d \in r.rows : state[d] \in Terminal
  PROVE  IInv'
  <1>1. /\ req' = [req EXCEPT ![c] = r] /\ cpc' = [cpc EXCEPT ![c] = l]
        /\ UNCHANGED <<clock, sub, row, hist, wkr>> /\ calls' = calls + 1
    BY DEF Begin, CGoto
  <1>2. /\ calls' \in Nat /\ crashes' \in Nat /\ orphans' \subseteq Deliveries
        /\ sends' \in [Deliveries -> Nat] /\ sends' = sends
    BY <1>1 DEF IInv, TypeOK, hist
  <1> QED
    BY <1>1, <1>2, CallerKeeps

LEMMA PublishKeeps ==
  ASSUME IInv, NEW c \in Callers, NEW ev \in Events, Publish(c, ev)
  PROVE  IInv'
  <1>1. PICK S \in SUBSET Subs : Begin(c, "consume", [NoReq EXCEPT !.subs = S, !.event = ev])
    BY DEF Publish, MatchesFilters
  <1> DEFINE r == [NoReq EXCEPT !.subs = S, !.event = ev]
  <1>2. r \in Req /\ r.event = ev /\ r.rows = {}
    BY Records DEF NoReq, Req
  <1>3. used' \subseteq Deliveries
    BY DEF Publish, MatchesFilters, IInv, TypeOK
  <1> HIDE DEF r
  <1> QED
    BY <1>1, <1>2, <1>3, BeginKeeps DEF r

LEMMA BeginDirectKeeps ==
  ASSUME IInv, NEW c \in Callers, NEW d \in Subs \X DirectKeys, BeginDirect(c, d)
  PROVE  IInv'
  <1> DEFINE r == [NoReq EXCEPT !.d = d, !.attempt = 1]
  <1>1. r \in Req /\ r.d = d /\ r.rows = {} /\ d \in Deliveries \ Published
    BY Records DEF NoReq, Req
  <1>2. used' \subseteq Deliveries /\ Begin(c, "create", r)
    BY <1>1 DEF BeginDirect, IInv, TypeOK
  <1> HIDE DEF r
  <1> QED
    BY <1>1, <1>2, BeginKeeps

LEMMA CleanupListKeeps ==
  ASSUME IInv, NEW c \in Callers, CleanupList(c)
  PROVE  IInv'
  <1>1. PICK D \in SUBSET {d \in Deliveries : state[d] \in Terminal} :
          Begin(c, "cleanup", [NoReq EXCEPT !.rows = D])
    BY DEF CleanupList
  <1> DEFINE r == [NoReq EXCEPT !.rows = D]
  <1>2. r \in Req /\ r.rows = D
    BY Records DEF NoReq, Req
  <1>3. used' \subseteq Deliveries
    BY DEF CleanupList, IInv, TypeOK
  <1> HIDE DEF r
  <1> QED
    BY <1>1, <1>2, <1>3, BeginKeeps DEF r

\* A request ends, and no row changes.
LEMMA EndKeeps ==
  ASSUME IInv, NEW c \in Callers, End(c), UNCHANGED <<clock, sub, row, sends, wkr, used, calls>>,
         crashes' \in Nat, orphans' \subseteq Deliveries
  PROVE  IInv'
  BY Records, CallerKeeps DEF End, CGoto, IInv, TypeOK

LEMMA ConsumeKeeps ==
  ASSUME IInv, NEW c \in Callers, Consume(c)
  PROVE  IInv'
  <1>1. /\ cpc[c] = "consume" /\ UNCHANGED <<clock, sub, row, hist, wkr, used, calls>>
        /\ req[c] \in Req /\ req[c].event \in Events /\ cpc = [cpc EXCEPT ![c] = "consume"]
        /\ used' \subseteq Deliveries /\ calls' \in Nat /\ crashes' \in Nat
        /\ orphans' \subseteq Deliveries /\ sends' \in [Deliveries -> Nat] /\ sends' = sends
    BY DEF Consume, IInv, TypeOK, ReqInv, hist
  <1>2. CASE End(c)
    BY <1>1, <1>2, EndKeeps
  <1>3. CASE ~End(c)
    <2>1. PICK s \in req[c].subs :
            \/ /\ CGoto(c, "enqueue")
               /\ req' = [req EXCEPT ![c].sub = s, ![c].subs = @ \ {s}]
            \/ /\ req' = [req EXCEPT ![c].subs = @ \ {s}]
               /\ UNCHANGED cpc
      BY <1>3 DEF Consume
    <2>2. s \in Subs
      BY <1>1 DEF Req
    <2>3. CASE /\ CGoto(c, "enqueue")
               /\ req' = [req EXCEPT ![c].sub = s, ![c].subs = @ \ {s}]
      <3> DEFINE r == [req[c] EXCEPT !.sub = s, !.subs = @ \ {s}]
      <3>1. req' = [req EXCEPT ![c] = r] /\ cpc' = [cpc EXCEPT ![c] = "enqueue"]
        BY <2>3 DEF CGoto
      <3>2. r \in Req /\ r.event = req[c].event /\ r.sub = s /\ r.rows = req[c].rows
        BY <1>1, <2>2 DEF Req
      <3> HIDE DEF r
      <3> QED
        BY <1>1, <2>2, <3>1, <3>2, CallerKeeps
    <2>4. CASE /\ req' = [req EXCEPT ![c].subs = @ \ {s}]
               /\ UNCHANGED cpc
      <3> DEFINE r == [req[c] EXCEPT !.subs = @ \ {s}]
      <3>1. req' = [req EXCEPT ![c] = r]
        BY <2>4
      <3>2. cpc' = [cpc EXCEPT ![c] = "consume"]
        BY <1>1, <2>4, Zenon
      <3>3. r \in Req /\ r.event = req[c].event /\ r.rows = req[c].rows
        BY <1>1, <2>2 DEF Req
      <3> HIDE DEF r
      <3> QED
        BY <1>1, <3>1, <3>2, <3>3, CallerKeeps
    <2> QED
      BY <2>1, <2>3, <2>4
  <1> QED
    BY <1>2, <1>3

\* A published row that is not there, of a subscription that is: no worker
\* holds it, no poll and no cleanup in progress has listed it.
LEMMA EnqueueKeeps ==
  ASSUME IInv, NEW c \in Callers, Enqueue(c)
  PROVE  IInv'
  <1> DEFINE d == <<req[c].sub, req[c].event>>
             r == [req[c] EXCEPT !.sub = None]
  <1>1. /\ cpc[c] = "enqueue" /\ req[c] \in Req
        /\ req[c].sub \in Subs /\ req[c].event \in Events
        /\ d \in Published /\ d \in Deliveries /\ d[1] = req[c].sub
        /\ UNCHANGED <<clock, sub, orphans, crashes, wkr, used, calls>>
        /\ used' \subseteq Deliveries /\ calls' \in Nat /\ crashes' \in Nat
        /\ orphans' \subseteq Deliveries
    BY Records DEF Enqueue, IInv, TypeOK, ReqInv
  <1>2. CASE End(c) /\ UNCHANGED <<row, sends>>
    BY <1>1, <1>2, EndKeeps
  <1>3. CASE ~(End(c) /\ UNCHANGED <<row, sends>>)
    <2>1. /\ sub[req[c].sub] # "DELETED"
          /\ IF Known(d) THEN UNCHANGED <<row, sends>> ELSE Insert(d)
          /\ cpc' = [cpc EXCEPT ![c] = "consume"] /\ req' = [req EXCEPT ![c] = r]
      BY <1>3 DEF Enqueue, CGoto
    <2>2. r \in Req /\ r.event = req[c].event /\ r.rows = req[c].rows
      BY <1>1 DEF Req
    <2> HIDE DEF r
    <2>3. CASE UNCHANGED <<row, sends>>
      <3>1. sends' \in [Deliveries -> Nat] /\ sends' = sends
        BY <2>3 DEF IInv, TypeOK
      <3> QED
        BY <1>1, <2>1, <2>2, <2>3, <3>1, CallerKeeps
    <2>4. CASE Insert(d) /\ ~Exists(d)
      <3> HIDE DEF d
      <3>1. ~Gone(d)
        BY <1>1, <2>1 DEF Gone
      <3>2. /\ \A w \in Workers : ~Holds(w, d) /\ d \notin job[w].due
            /\ \A b \in Callers : d \notin req[b].rows
        BY <1>1, <2>4, <3>1 DEF IInv, HoldInv, Counting, ListInv, ListOK, CleanInv, Exists, Terminal
      <3>3. /\ \A e \in Deliveries \ {d} : /\ state'[e] = state[e] /\ count'[e] = count[e]
                                           /\ next'[e] = next[e] /\ sends'[e] = sends[e]
            /\ state'[d] = "PENDING" /\ count'[d] = 0 /\ next'[d] = 0 /\ sends'[d] = 0
            /\ state' \in [Deliveries -> RowStates] /\ count' \in [Deliveries -> Nat]
            /\ next' \in [Deliveries -> Nat] /\ sends' \in [Deliveries -> Nat]
        BY <1>1, <2>4 DEF IInv, TypeOK, Insert, RowStates, Queued
      <3>4. /\ \A b \in Callers \ {c} : req'[b] = req[b] /\ cpc'[b] = cpc[b]
            /\ req'[c] = r /\ cpc'[c] = "consume"
        BY <2>1 DEF IInv, TypeOK
      <3> USE <1>1 DEF IInv, wkr
      <3>5. TypeOK'
        BY <2>1, <2>2, <3>3 DEF TypeOK
      <3>6. HasJob' /\ ReqInv'
        BY <2>2, <3>4 DEF HasJob, ReqInv
      <3>7. ListInv'
        BY <3>2, <3>3, Records DEF ListInv, ListOK, Due, Exists, Gone
      <3>8. HoldInv' /\ OneHolder'
        BY <3>2, <3>3, Records DEF HoldInv, OneHolder, Holds, Counting, Gone
      <3>9. CleanInv'
        BY <2>2, <3>2, <3>3, <3>4, Records DEF CleanInv, Gone
      <3>10. QueueInv' /\ SendsCounted'
        BY <3>3, Records, ConstAssumption DEF QueueInv, SendsCounted, Exists
      <3> QED
        BY <3>5, <3>6, <3>7, <3>8, <3>9, <3>10
    <2> QED
      BY <2>1, <2>3, <2>4 DEF Known
  <1> QED
    BY <1>2, <1>3

LEMMA CreateDirectKeeps ==
  ASSUME IInv, NEW c \in Callers, CreateDirect(c)
  PROVE  IInv'
  <1> DEFINE d == req[c].d
  <1>1. /\ cpc[c] = "create" /\ d \in Deliveries \ Published /\ req[c] \in Req
        /\ UNCHANGED <<clock, sub, orphans, crashes, wkr, used, calls>>
        /\ req = [req EXCEPT ![c] = req[c]]
        /\ crashes' \in Nat /\ orphans' \subseteq Deliveries
    BY DEF CreateDirect, IInv, TypeOK, ReqInv
  <1>2. CASE End(c) /\ UNCHANGED <<row, sends>>
    BY <1>1, <1>2, EndKeeps
  <1>3. CASE Insert(d) /\ CGoto(c, "start") /\ UNCHANGED req
    <2>1. /\ \A e \in Published : /\ state'[e] = state[e] /\ count'[e] = count[e]
                                  /\ next'[e] = next[e] /\ sends'[e] = sends[e]
          /\ state' \in [Deliveries -> RowStates] /\ count' \in [Deliveries -> Nat]
          /\ next' \in [Deliveries -> Nat] /\ sends' \in [Deliveries -> Nat]
      BY <1>1, <1>3, Records DEF IInv, TypeOK, Insert, RowStates, Queued
    <2>2. req' = [req EXCEPT ![c] = req[c]]
      BY <1>1, <1>3, Zenon
    <2> QED
      BY <1>1, <1>3, <2>1, <2>2, DirectKeeps DEF CGoto
  <1> QED
    BY <1>2, <1>3 DEF CreateDirect

LEMMA StartDirectKeeps ==
  ASSUME IInv, NEW c \in Callers, StartDirect(c)
  PROVE  IInv'
  <1> DEFINE d == req[c].d
  <1>1. /\ cpc[c] = "start" /\ d \in Deliveries \ Published /\ req[c] \in Req
        /\ UNCHANGED <<clock, sub, next, hist, wkr, used, calls>>
        /\ req = [req EXCEPT ![c] = req[c]] /\ req[c].attempt \in Nat
        /\ crashes' \in Nat /\ orphans' \subseteq Deliveries
    BY DEF StartDirect, IInv, TypeOK, ReqInv, Req, hist
  <1>2. CASE End(c) /\ UNCHANGED <<state, count>>
    BY <1>1, <1>2, EndKeeps DEF row, hist
  <1>3. CASE /\ state' = [state EXCEPT ![d] = "DELIVERING"]
             /\ count' = [count EXCEPT ![d] = req[c].attempt]
             /\ CGoto(c, "send") /\ UNCHANGED req
    <2>1. /\ \A e \in Published : /\ state'[e] = state[e] /\ count'[e] = count[e]
                                  /\ next'[e] = next[e] /\ sends'[e] = sends[e]
          /\ state' \in [Deliveries -> RowStates] /\ count' \in [Deliveries -> Nat]
          /\ next' \in [Deliveries -> Nat] /\ sends' \in [Deliveries -> Nat]
      BY <1>1, <1>3, Records DEF IInv, TypeOK, RowStates, hist
    <2>2. req' = [req EXCEPT ![c] = req[c]]
      BY <1>1, <1>3, Zenon
    <2> QED
      BY <1>1, <1>3, <2>1, <2>2, DirectKeeps DEF CGoto, hist
  <1> QED
    BY <1>2, <1>3 DEF StartDirect

LEMMA SendDirectKeeps ==
  ASSUME IInv, NEW c \in Callers, SendDirect(c)
  PROVE  IInv'
  <1> DEFINE d == req[c].d
  <1>1. /\ cpc[c] = "send" /\ d \in Deliveries \ Published /\ req[c] \in Req
        /\ UNCHANGED <<clock, sub, row, orphans, crashes, wkr, used, calls>>
        /\ sends' = [sends EXCEPT ![d] = @ + 1] /\ cpc' = [cpc EXCEPT ![c] = "record"]
    BY DEF SendDirect, IInv, TypeOK, ReqInv, CGoto
  <1>2. PICK o \in {"ok", "retryable", "rejected"} : req' = [req EXCEPT ![c].outcome = o]
    BY DEF SendDirect
  <1> DEFINE r == [req[c] EXCEPT !.outcome = o]
  <1>3. req' = [req EXCEPT ![c] = r]
    BY <1>2
  <1>4. r \in Req /\ r.d = d /\ r.rows = req[c].rows
    BY <1>1 DEF Req, Outcomes
  <1> HIDE DEF r
  <1>5. /\ sends' \in [Deliveries -> Nat] /\ \A e \in Published : sends'[e] = sends[e]
        /\ used' \subseteq Deliveries /\ calls' \in Nat /\ crashes' \in Nat
        /\ orphans' \subseteq Deliveries
    BY <1>1, Records DEF IInv, TypeOK
  <1> QED
    BY <1>1, <1>3, <1>4, <1>5, CallerKeeps

LEMMA RecordDirectKeeps ==
  ASSUME IInv, NEW c \in Callers, RecordDirect(c)
  PROVE  IInv'
  <1> DEFINE d == req[c].d
             s == AfterAttempt(req[c].outcome, req[c].attempt)
             r == [req[c] EXCEPT !.attempt = @ + 1]
  <1>1. /\ cpc[c] = "record" /\ d \in Deliveries \ Published /\ req[c] \in Req
        /\ UNCHANGED <<clock, sub, count, hist, wkr, used, calls>>
        /\ req[c].attempt \in Nat /\ clock \in Nat /\ s \in RowStates
    BY DEF RecordDirect, IInv, TypeOK, ReqInv, Req, AfterAttempt, RowStates, Terminal, Queued
  <1>2. /\ \A e \in Published : /\ state'[e] = state[e] /\ count'[e] = count[e]
                                /\ next'[e] = next[e] /\ sends'[e] = sends[e]
        /\ state' \in [Deliveries -> RowStates] /\ count' \in [Deliveries -> Nat]
        /\ next' \in [Deliveries -> Nat] /\ sends' \in [Deliveries -> Nat]
    <2> HIDE DEF s
    <2>1. CASE Exists(d)
      <3>1. /\ state' = [state EXCEPT ![d] = s]
            /\ next' = [next EXCEPT ![d] = IF s = "RETRYING" THEN clock + Delay ELSE 0]
        BY <2>1 DEF RecordDirect, s
      <3> QED
        BY <1>1, <3>1, ConstAssumption, Records DEF IInv, TypeOK, hist
    <2>2. CASE ~Exists(d)
      <3>1. UNCHANGED <<state, next>>
        BY <2>2 DEF RecordDirect
      <3> QED
        BY <1>1, <3>1 DEF IInv, TypeOK, hist
    <2> QED
      BY <2>1, <2>2
  <1>3. CASE End(c)
    <2>1. cpc' = [cpc EXCEPT ![c] = "idle"] /\ req' = [req EXCEPT ![c] = NoReq]
      BY <1>3 DEF End, CGoto
    <2> QED
      BY <1>1, <1>2, <2>1, Records, DirectKeeps DEF hist
  <1>4. CASE ~End(c)
    <2>1. cpc' = [cpc EXCEPT ![c] = "start"] /\ req' = [req EXCEPT ![c] = r]
      BY <1>4 DEF RecordDirect, CGoto
    <2>2. r \in Req /\ r.d = d /\ r.rows = req[c].rows
      BY <1>1 DEF Req
    <2> HIDE DEF r, s
    <2> QED
      BY <1>1, <1>2, <2>1, <2>2, DirectKeeps DEF hist
  <1> QED
    BY <1>3, <1>4

LEMMA CrashCallerKeeps ==
  ASSUME IInv, NEW c \in Callers, CrashCaller(c)
  PROVE  IInv'
  <1>1. orphans' \subseteq Deliveries /\ crashes' \in Nat
    BY DEF CrashCaller, IInv, TypeOK, ReqInv
  <1> QED
    BY <1>1, EndKeeps DEF CrashCaller

\* Rows that are finished or gone are deleted: no worker holds one, and the
\* lists of polls and cleanups in progress have lost them.
LEMMA CleanupDeleteKeeps ==
  ASSUME IInv, NEW c \in Callers, CleanupDelete(c)
  PROVE  IInv'
  <1> DEFINE D == req[c].rows
  <1>1. /\ req[c] \in Req /\ D \subseteq Deliveries
        /\ job' = [w \in Workers |-> [job[w] EXCEPT !.due = @ \ D]]
        /\ req' = [x \in Callers |-> IF x = c THEN NoReq ELSE [req[x] EXCEPT !.rows = @ \ D]]
        /\ cpc' = [cpc EXCEPT ![c] = "idle"]
        /\ UNCHANGED <<clock, sub, hist, pc, used, calls>> /\ Remove(D)
    BY DEF CleanupDelete, CGoto, IInv, TypeOK, Req
  <1> HIDE DEF D
  <1>2. /\ \A d \in Deliveries : /\ state'[d] = IF d \in D THEN "ABSENT" ELSE state[d]
                                 /\ count'[d] = IF d \in D THEN 0 ELSE count[d]
                                 /\ next'[d] = IF d \in D THEN 0 ELSE next[d]
        /\ state' \in [Deliveries -> RowStates] /\ count' \in [Deliveries -> Nat]
        /\ next' \in [Deliveries -> Nat]
    BY <1>1 DEF Remove, IInv, TypeOK, RowStates
  <1>3. \A w \in Workers : /\ job'[w] \in Job /\ job'[w].now = job[w].now
                           /\ job'[w].due = job[w].due \ D /\ job'[w].listed = job[w].listed
                           /\ job'[w].d = job[w].d /\ job'[w].attempt = job[w].attempt
    <2> SUFFICES ASSUME NEW w \in Workers
                 PROVE  /\ job'[w] \in Job /\ job'[w].now = job[w].now
                        /\ job'[w].due = job[w].due \ D /\ job'[w].listed = job[w].listed
                        /\ job'[w].d = job[w].d /\ job'[w].attempt = job[w].attempt
      OBVIOUS
    <2>1. job[w] \in Job /\ job'[w] = [job[w] EXCEPT !.due = @ \ D]
      BY <1>1 DEF IInv, TypeOK
    <2> QED
      BY <2>1 DEF Job
  <1>4. \A x \in Callers : /\ req'[x] \in Req
                           /\ req'[x].rows = IF x = c THEN {} ELSE req[x].rows \ D
                           /\ x # c => /\ req'[x].event = req[x].event /\ req'[x].sub = req[x].sub
                                       /\ req'[x].d = req[x].d /\ cpc'[x] = cpc[x]
                           /\ x = c => cpc'[x] = "idle"
    <2> SUFFICES ASSUME NEW x \in Callers
                 PROVE  /\ req'[x] \in Req
                        /\ req'[x].rows = IF x = c THEN {} ELSE req[x].rows \ D
                        /\ x # c => /\ req'[x].event = req[x].event /\ req'[x].sub = req[x].sub
                                    /\ req'[x].d = req[x].d /\ cpc'[x] = cpc[x]
                        /\ x = c => cpc'[x] = "idle"
      OBVIOUS
    <2>1. CASE x = c
      BY <1>1, <2>1, Records DEF IInv, TypeOK
    <2>2. CASE x # c
      <3>1. req[x] \in Req /\ req'[x] = [req[x] EXCEPT !.rows = @ \ D] /\ cpc'[x] = cpc[x]
        BY <1>1, <2>2 DEF IInv, TypeOK
      <3> QED
        BY <2>2, <3>1 DEF Req
    <2> QED
      BY <2>1, <2>2
  <1>5. \A d \in D \cap Published : (state[d] \in Terminal \/ Gone(d)) /\ state[d] # "DELIVERING"
    BY DEF IInv, CleanInv, Gone, Terminal, D
  <1> USE DEF IInv
  <1>6. TypeOK'
    <2>1. job' \in [Workers -> Job]
      BY <1>1, <1>3
    <2>2. req' \in [Callers -> Req]
      BY <1>1, <1>4
    <2>3. cpc' \in [Callers -> {"idle", "consume", "enqueue", "create", "start",
                                "send", "record", "cleanup"}]
      BY <1>1 DEF TypeOK
    <2> QED
      BY <1>1, <1>2, <2>1, <2>2, <2>3 DEF TypeOK, hist
  <1>7. HasJob' /\ ReqInv'
    BY <1>1, <1>3, <1>4 DEF HasJob, ReqInv
  <1>8. ListInv'
    <2>1. ASSUME NEW w \in Workers PROVE ListOK(job[w])'
      <3>1. /\ ListOK(job[w]) /\ job'[w].now = job[w].now /\ job'[w].due = job[w].due \ D
            /\ job'[w].listed = job[w].listed
        BY <1>3 DEF ListInv
      <3>2. ASSUME NEW e \in job'[w].due \cap Published
            PROVE  /\ e \in job[w].due \cap Published
                   /\ state'[e] = state[e] /\ count'[e] = count[e] /\ next'[e] = next[e]
        BY <1>2, <3>1, Records
      <3>3. ASSUME NEW e \in job'[w].due \cap Published
            PROVE  /\ (Exists(e) \/ Gone(e))'
                   /\ Due(e, job[w].now)' => count'[e] = job'[w].listed[e]
        BY <1>1, <3>1, <3>2 DEF ListOK, Due, Exists, Gone
      <3>4. job'[w].now <= clock'
        BY <1>1, <3>1 DEF ListOK
      <3> QED
        BY <3>3, <3>4 DEF ListOK
    <2> QED
      BY <2>1 DEF ListInv
  <1>9. \A v \in Workers, e \in Published : Holds(v, e)' <=> Holds(v, e)
    BY <1>1, <1>3 DEF Holds
  <1>10. HoldInv'
    <2> SUFFICES ASSUME NEW v \in Workers, NEW e \in Published, Holds(v, e)'
                 PROVE  Counting(pc[v], job[v], e)' \/ Gone(e)'
      BY DEF HoldInv
    <2>1. Holds(v, e) /\ (Counting(pc[v], job[v], e) \/ Gone(e))
      BY <1>9 DEF HoldInv
    <2>2. CASE Gone(e)
      BY <1>1, <1>2, <2>2, Records DEF Gone
    <2>3. CASE Counting(pc[v], job[v], e)
      <3>1. e \notin D
        BY <1>5, <2>3 DEF Counting
      <3> QED
        BY <1>1, <1>2, <1>3, <2>3, <3>1, Records DEF Counting, hist
    <2> QED
      BY <2>1, <2>2, <2>3
  <1>11. OneHolder'
    BY <1>9 DEF OneHolder
  <1>12. CleanInv'
    BY <1>1, <1>2, <1>4, Records DEF CleanInv, Gone
  <1>13. QueueInv' /\ SendsCounted'
    BY <1>1, <1>2, Records DEF QueueInv, SendsCounted, Exists, Queued, hist
  <1> QED
    BY <1>6, <1>7, <1>8, <1>10, <1>11, <1>12, <1>13

-----------------------------------------------------------------------------
(* Subscriptions and time.                                                 *)

LEMMA SetEnabledKeeps ==
  ASSUME IInv, NEW s \in Subs, SetEnabled(s)
  PROVE  IInv'
  <1>1. /\ sub[s] # "DELETED" /\ sub' = [sub EXCEPT ![s] = IF @ = "ACTIVE" THEN "DISABLED" ELSE "ACTIVE"]
        /\ UNCHANGED <<clock, row, hist, wkr, cllr>>
    BY DEF SetEnabled
  <1>2. \A t \in Subs : sub'[t] = "DELETED" <=> sub[t] = "DELETED"
    BY <1>1 DEF IInv, TypeOK
  <1>3. \A d \in Deliveries : Gone(d)' <=> Gone(d)
    BY <1>1, <1>2, Records DEF Gone, row
  <1> USE <1>1, <1>3, Records DEF IInv, row, hist, wkr, cllr
  <1>4. TypeOK'
    BY DEF TypeOK
  <1>5. HasJob' /\ ReqInv'
    BY DEF HasJob, ReqInv
  <1>6. ListInv' /\ HoldInv'
    BY DEF ListInv, ListOK, HoldInv, Holds, Due, Exists, Counting
  <1>7. OneHolder' /\ QueueInv' /\ CleanInv' /\ SendsCounted'
    BY DEF OneHolder, Holds, QueueInv, CleanInv, SendsCounted, Exists
  <1> QED
    BY <1>4, <1>5, <1>6, <1>7

\* The rows of the subscription are gone, with it: whoever has one in hand
\* cannot write to it.
LEMMA RemoveSubscriptionKeeps ==
  ASSUME IInv, NEW s \in Subs, RemoveSubscription(s)
  PROVE  IInv'
  <1>1. /\ sub' = [sub EXCEPT ![s] = "DELETED"]
        /\ Remove({d \in Deliveries : d[1] = s})
        /\ UNCHANGED <<clock, hist, wkr, cllr>>
    BY DEF RemoveSubscription
  <1>2. /\ \A d \in Deliveries : /\ state'[d] = IF d[1] = s THEN "ABSENT" ELSE state[d]
                                 /\ count'[d] = IF d[1] = s THEN 0 ELSE count[d]
                                 /\ next'[d] = IF d[1] = s THEN 0 ELSE next[d]
        /\ state' \in [Deliveries -> RowStates] /\ count' \in [Deliveries -> Nat]
        /\ next' \in [Deliveries -> Nat]
    BY <1>1 DEF Remove, IInv, TypeOK, RowStates
  <1>3. \A t \in Subs : sub'[t] = IF t = s THEN "DELETED" ELSE sub[t]
    BY <1>1 DEF IInv, TypeOK
  <1>4. \A d \in Deliveries : d[1] = s => Gone(d)' /\ ~Exists(d)'
    BY <1>2, <1>3 DEF Gone, Exists
  <1>5. \A d \in Deliveries : d[1] # s =>
          /\ state'[d] = state[d] /\ count'[d] = count[d] /\ next'[d] = next[d]
          /\ Gone(d) => Gone(d)'
    BY <1>2, <1>3, Records DEF Gone
  <1> USE <1>1, Records DEF IInv, hist, wkr, cllr
  <1>6. TypeOK'
    BY <1>2 DEF TypeOK
  <1>7. HasJob' /\ ReqInv'
    BY DEF HasJob, ReqInv
  <1>8. ListInv'
    BY <1>4, <1>5 DEF ListInv, ListOK, Due, Exists, Queued
  <1>9. HoldInv'
    BY <1>4, <1>5 DEF HoldInv, Holds, Counting
  <1>10. OneHolder'
    BY DEF OneHolder, Holds
  <1>11. QueueInv' /\ CleanInv' /\ SendsCounted'
    BY <1>2, <1>4, <1>5 DEF QueueInv, CleanInv, SendsCounted, Exists, Queued
  <1> QED
    BY <1>6, <1>7, <1>8, <1>9, <1>10, <1>11

LEMMA TickKeeps ==
  ASSUME IInv, Tick
  PROVE  IInv'
  <1> USE DEF IInv, Tick, row, hist, wkr, cllr
  <1>1. TypeOK'
    BY DEF TypeOK
  <1>2. HasJob' /\ ReqInv'
    BY DEF HasJob, ReqInv
  <1>3. ListInv'
    <2>1. \A w \in Workers : job[w].now \in Nat
      BY DEF TypeOK, Job
    <2> QED
      BY <2>1 DEF ListInv, ListOK, Due, Exists, Gone, TypeOK
  <1>4. HoldInv' /\ OneHolder' /\ QueueInv' /\ CleanInv' /\ SendsCounted'
    BY DEF HoldInv, OneHolder, Holds, Counting, QueueInv, CleanInv, SendsCounted, Exists, Gone
  <1> QED
    BY <1>1, <1>2, <1>3, <1>4

-----------------------------------------------------------------------------
LEMMA Initial ==
  ASSUME Init
  PROVE  IInv
  <1> USE Records DEF Init
  <1>1. TypeOK
    BY DEF TypeOK, RowStates
  <1>2. HasJob /\ ReqInv
    BY DEF HasJob, ReqInv, HoldPCs
  <1>3. ListInv
    BY DEF ListInv, ListOK
  <1>4. HoldInv /\ OneHolder
    BY DEF HoldInv, OneHolder, Holds, HoldPCs
  <1>5. QueueInv /\ CleanInv /\ SendsCounted
    BY DEF QueueInv, CleanInv, SendsCounted, Exists, Queued
  <1> QED
    BY <1>1, <1>2, <1>3, <1>4, <1>5 DEF IInv

LEMMA StepKeeps ==
  ASSUME IInv, [Next]_vars
  PROVE  IInv'
  <1>1. ASSUME NEW w \in Workers, WorkerStep(w) \/ DecryptThrows(w) \/ CrashWorker(w)
        PROVE  IInv'
    BY <1>1, PollKeeps, ClaimDeliveryKeeps, FinishPollKeeps, CountAttemptKeeps,
       LoadDeliveryKeeps, LoadSubscriptionKeeps, SendKeeps, RecordAttemptKeeps,
       DecryptThrowsKeeps, CrashWorkerKeeps DEF WorkerStep
  <1>2. ASSUME NEW c \in Callers, CallerStep(c) \/ CleanupList(c) \/ CrashCaller(c)
        PROVE  IInv'
    BY <1>2, ConsumeKeeps, EnqueueKeeps, CreateDirectKeeps, StartDirectKeeps,
       SendDirectKeeps, RecordDirectKeeps, CleanupListKeeps, CleanupDeleteKeeps,
       CrashCallerKeeps DEF CallerStep
  <1>3. ASSUME NEW c \in Callers, NEW ev \in Events, Publish(c, ev)
        PROVE  IInv'
    BY <1>3, PublishKeeps
  <1>4. ASSUME NEW c \in Callers, NEW d \in Subs \X DirectKeys, BeginDirect(c, d)
        PROVE  IInv'
    BY <1>4, BeginDirectKeeps
  <1>5. ASSUME NEW s \in Subs, SetEnabled(s) \/ RemoveSubscription(s)
        PROVE  IInv'
    BY <1>5, SetEnabledKeeps, RemoveSubscriptionKeeps
  <1>6. ASSUME Tick PROVE IInv'
    BY <1>6, TickKeeps
  <1>7. CASE UNCHANGED vars
    <2> USE <1>7 DEF IInv, vars, row, hist, wkr, cllr
    <2>1. TypeOK'
      BY DEF TypeOK
    <2>2. HasJob' /\ ReqInv'
      BY DEF HasJob, ReqInv
    <2>3. ListInv' /\ HoldInv'
      BY DEF ListInv, ListOK, HoldInv, Holds, Counting, Due, Exists, Gone
    <2>4. OneHolder' /\ QueueInv' /\ CleanInv' /\ SendsCounted'
      BY DEF OneHolder, Holds, QueueInv, CleanInv, SendsCounted, Exists, Gone
    <2> QED
      BY <2>1, <2>2, <2>3, <2>4
  <1> QED
    BY <1>1, <1>2, <1>3, <1>4, <1>5, <1>6, <1>7 DEF Next

THEOREM Inductive == Spec => []IInv
  BY Initial, StepKeeps, PTL DEF Spec

-----------------------------------------------------------------------------
\* The rows and the local variables have the types of the schema and the code
\* (system_webhook_deliveries, SystemWebhookRetryWorker, SystemWebhookService).
THEOREM TypesKept == Spec => []TypeOK
  BY Inductive, PTL DEF IInv

LEMMA HeldByOne ==
  ASSUME IInv
  PROVE  OneSender
  BY DEF IInv, OneSender, OneHolder, HoldInv, Counting, Gone

\* However many workers poll, whatever the order of claims, cleanups, removals
\* and crashes, a published delivery is in the hands of one worker at a time,
\* and each request sent for it has been counted in attempt_count before, at
\* most maxAttempts of them (claimDelivery, runPoll, processQueuedDelivery).
THEOREM OneSenderAndCount == Spec => []SentByOneAndCounted
  <1>1. IInv => SentByOneAndCounted
    BY HeldByOne DEF IInv, SentByOneAndCounted
  <1> QED
    BY <1>1, Inductive, PTL

\* The only steps that write the state of a published delivery that is there:
\* those of the worker that holds it, the claim of a queued one, and deletes.
LEMMA FinishedRest ==
  ASSUME IInv, [Next]_vars, NEW d \in Published, state[d] \in Terminal
  PROVE  state'[d] \in {state[d], "ABSENT"}
  <1>1. state \in [Deliveries -> RowStates] /\ d \in Deliveries
        /\ state[d] \notin Queued \cup {"ABSENT", "DELIVERING"}
    BY Records DEF IInv, TypeOK, Terminal, Queued
  <1>2. \A w \in Workers : ~Holds(w, d)
    BY <1>1 DEF IInv, HoldInv, Counting, Gone
  <1>3. ASSUME NEW w \in Workers, WorkerStep(w) \/ DecryptThrows(w) \/ CrashWorker(w)
        PROVE  state'[d] = state[d]
    <2>1. CASE ClaimDelivery(w)
      <3>1. PICK e \in job[w].due :
              \/ Claimable(w, e) /\ state' = [state EXCEPT ![e] = "DELIVERING"]
              \/ state' = state
        BY <2>1 DEF ClaimDelivery
      <3> QED
        BY <1>1, <3>1 DEF Claimable, Due
    <2>2. CASE CountAttempt(w)
      BY <1>1, <1>2, <2>2 DEF CountAttempt, Holds, HoldPCs
    <2>3. CASE RecordAttempt(w)
      <3>1. job[w].d # d /\ (state' = state \/ \E s \in RowStates : state' = [state EXCEPT ![job[w].d] = s])
        BY <1>2, <2>3 DEF RecordAttempt, Holds, HoldPCs, row, AfterAttempt, RowStates, Terminal, Queued
      <3> QED
        BY <1>1, <3>1
    <2>4. CASE ~(ClaimDelivery(w) \/ CountAttempt(w) \/ RecordAttempt(w))
      BY <1>3, <2>4 DEF WorkerStep, Poll, FinishPoll, LoadDelivery, LoadSubscription, Send,
                        DecryptThrows, CrashWorker, row
    <2> QED
      BY <2>1, <2>2, <2>3, <2>4
  <1>4. ASSUME NEW c \in Callers, CallerStep(c) \/ CleanupList(c) \/ CrashCaller(c)
        PROVE  state'[d] \in {state[d], "ABSENT"}
    <2>1. CASE Enqueue(c)
      <3>1. state' = state \/ (~Exists(<<req[c].sub, req[c].event>>) /\ Insert(<<req[c].sub, req[c].event>>))
        BY <2>1 DEF Enqueue, Known, row
      <3> QED
        BY <1>1, <3>1 DEF Exists, Insert
    <2>2. CASE CreateDirect(c) \/ StartDirect(c) \/ RecordDirect(c)
      <3>1. req[c].d # d
        BY <2>2 DEF CreateDirect, StartDirect, RecordDirect, IInv, ReqInv
      <3>2. \/ state' = state
            \/ \E s \in RowStates : state' = [state EXCEPT ![req[c].d] = s]
        BY <2>2 DEF CreateDirect, StartDirect, RecordDirect, Insert, row, AfterAttempt,
                    RowStates, Terminal, Queued
      <3> QED
        BY <1>1, <3>1, <3>2
    <2>3. CASE CleanupDelete(c)
      BY <1>1, <2>3 DEF CleanupDelete, Remove
    <2>4. CASE ~(Enqueue(c) \/ CreateDirect(c) \/ StartDirect(c) \/ RecordDirect(c) \/ CleanupDelete(c))
      BY <1>4, <2>4 DEF CallerStep, Consume, SendDirect, CleanupList, CrashCaller, Begin, row
    <2> QED
      BY <2>1, <2>2, <2>3, <2>4
  <1>5. ASSUME NEW c \in Callers,
               \/ \E ev \in Events : Publish(c, ev)
               \/ \E e \in Subs \X DirectKeys : BeginDirect(c, e)
        PROVE  state'[d] = state[d]
    BY <1>5 DEF Publish, MatchesFilters, BeginDirect, Begin, row
  <1>6. ASSUME NEW s \in Subs, SetEnabled(s) \/ RemoveSubscription(s)
        PROVE  state'[d] \in {state[d], "ABSENT"}
    BY <1>1, <1>6 DEF SetEnabled, RemoveSubscription, Remove, row
  <1>7. CASE Tick \/ UNCHANGED vars
    BY <1>7 DEF Tick, vars, row
  <1> QED
    BY <1>3, <1>4, <1>5, <1>6, <1>7 DEF Next

\* SUCCEEDED, DEAD_LETTER and CANCELLED are final: no worker with an old list
\* and no second publication of the event revives such a row
\* (claimDelivery, createDelivery, updateDelivery).
THEOREM FinishedStay == Spec => PublishedFinal
  <1>1. IInv /\ [Next]_vars =>
          [\A d \in Published : state[d] \in Terminal => state'[d] \in {state[d], "ABSENT"}]_vars
    BY FinishedRest
  <1> QED
    BY <1>1, Inductive, PTL DEF Spec, PublishedFinal
=============================================================================
