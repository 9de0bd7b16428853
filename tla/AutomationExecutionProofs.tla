---------------------- MODULE AutomationExecutionProofs ----------------------
(***************************************************************************)
(* Proofs about AutomationExecution for any graph, any number of           *)
(* executions, workers and operators, any lease, delay and number of       *)
(* attempts, of crashes and of requests.                                   *)
(***************************************************************************)
EXTENDS AutomationExecution, TLAPS

-----------------------------------------------------------------------------
(* The inductive invariant.                                                *)

\* Everything before n on e's walk has been done.
BehindDone(e, n) ==
  \A m \in WalkFrom(e, Entry) \ WalkFrom(e, n) : Kind[m] = "ACTION" => m \in done[e]

AllDone(e) == \A m \in WalkFrom(e, Entry) : Kind[m] = "ACTION" => m \in done[e]

\* What a worker at l with the record r knows of its walk, whatever raced.
Walked(l, r) ==
  l \in WorkPCs \ {"read"} =>
    /\ BehindDone(r.exec, r.node)
    /\ l = "advance" /\ Kind[r.node] = "ACTION" => r.node \in done[r.exec]
    /\ l = "record" /\ r.outcome = "success" => r.node \in done[r.exec]

WalkInv ==
  /\ \A e \in Executions : node[e] # None => BehindDone(e, node[e])
  /\ \A w \in Workers : Walked(pc[w], job[w])
  /\ \A e \in Executions, n \in Nodes : actState[e][n] = "SUCCEEDED" => n \in done[e]
  /\ \A e \in Executions : state[e] = "SUCCEEDED" => AllDone(e)

\* A worker past its claim has an execution in hand, and past "read" a node.
JobOK(l, r) ==
  /\ l \in WorkPCs \cup {"claim"} => r.exec \in Executions /\ state[r.exec] # "ABSENT"
  /\ l = "claim" => r.found \in {"PENDING", "WAITING"}
  /\ l \in WorkPCs \ {"read"} => r.node \in Nodes

HasJob  == \A w \in Workers : JobOK(pc[w], job[w])
HasExec == \A o \in Operators : opPc[o] # "idle" =>
             opExec[o] \in Executions /\ state[opExec[o]] # "ABSENT"

\* As long as nobody outlived its lease, whoever holds an execution has the
\* lease, or the execution was cancelled under it.
LeaseInv ==
  \A e \in Executions \ raced : Held(e) =>
    \/ state[e] = "RUNNING" /\ lease[e] \in 1..Lease
    \/ state[e] = "CANCELLED"

\* A retry under way is alone with its execution, and none of the actions it
\* has still to reset has succeeded.
RetryInv ==
  \A e \in Executions \ raced : \A o \in Operators : Retrying(o, e) =>
    /\ state[e] \in {"FAILED", "CANCELLED"}
    /\ ~Held(e)
    /\ \A p \in Operators : Retrying(p, e) => p = o
    /\ opPc[o] = "retryWrite" => \A n \in opActs[o] : actState[e][n] # "SUCCEEDED"

\* What a worker knows of the row of its action, unless the execution raced.
Read(l, r) ==
  r.exec \notin raced =>
    /\ l \in {"create", "start", "handler", "record"} =>
         r.attempt = attempt[r.exec][r.node]
    /\ l \in {"start", "handler", "record"} =>
         actState[r.exec][r.node] # "SUCCEEDED"

ReadInv == \A w \in Workers : Read(pc[w], job[w])

\* The worker has counted its attempt and not written what came of it.
Calling == {"handler", "record", "failExec"}

\* No further fault and no further request is needed to start n once more.
MayStart(e, n) ==
  /\ actState[e][n] # "SUCCEEDED"
  /\ \A w \in Workers : Works(w, e) /\ pc[w] \in Calling => job[w].node # n
  /\ state[e] \in {"FAILED", "CANCELLED"} => Held(e) \/ \E o \in Operators : Retrying(o, e)

Bound == MaxAttempts + faults + requests

AttemptInv ==
  \A e \in Executions \ raced : \A n \in Nodes :
    /\ attempt[e][n] <= Bound
    /\ MayStart(e, n) => attempt[e][n] < Bound

IInv ==
  /\ TypeOK /\ HasJob /\ HasExec /\ WalkInv /\ OneWorker /\ LeaseInv /\ RetryInv
  /\ ReadInv /\ AttemptInv

-----------------------------------------------------------------------------
(* The walk.                                                               *)

LEMMA NextNodeIsNode ==
  ASSUME NEW e \in Executions, NEW n \in Nodes
  PROVE  NextNode(e, n) \in Nodes \cup {None}
  <1>1. Edges[n] \in Seq(Nodes) /\ Len(Edges[n]) \in Nat
    BY GraphAssumption
  <1>2. CASE Len(Edges[n]) = 0
    BY <1>2 DEF NextNode
  <1>3. CASE Len(Edges[n]) = 1
    <2>1. Edges[n][1] \in Nodes
      BY <1>1, <1>3
    <2> QED
      BY <1>3, <2>1 DEF NextNode
  <1>4. CASE Len(Edges[n]) > 1
    <2>1. Edges[n][1] \in Nodes /\ Edges[n][2] \in Nodes
      BY <1>1, <1>4
    <2> QED
      BY <1>4, <2>1 DEF NextNode
  <1>5. \A k \in Nat : k = 0 \/ k = 1 \/ k > 1
    OBVIOUS
  <1> QED
    BY <1>1, <1>2, <1>3, <1>4, <1>5

\* The walk from n visits n, then what the walk from the next node visits.
LEMMA WalkStep ==
  ASSUME NEW e \in Executions, NEW n \in Nodes
  PROVE  /\ n \in WalkFrom(e, n)
         /\ NextNode(e, n) = None => WalkFrom(e, n) \subseteq {n}
         /\ NextNode(e, n) # None => WalkFrom(e, n) \subseteq {n} \cup WalkFrom(e, NextNode(e, n))
  <1>1. n \in WalkFrom(e, n)
    BY DEF WalkFrom
  <1>2. ASSUME NextNode(e, n) = None
        PROVE  WalkFrom(e, n) \subseteq {n}
    BY <1>2 DEF WalkFrom
  <1>3. ASSUME NextNode(e, n) # None
        PROVE  WalkFrom(e, n) \subseteq {n} \cup WalkFrom(e, NextNode(e, n))
    <2> DEFINE m == NextNode(e, n)
               S == {n} \cup WalkFrom(e, m)
    <2>1. m \in Nodes
      BY <1>3, NextNodeIsNode
    <2> HIDE DEF m
    <2>2. m \in WalkFrom(e, m) /\ WalkFrom(e, m) \subseteq Nodes
      BY <2>1 DEF WalkFrom
    <2>3. \A k \in WalkFrom(e, m) : NextNode(e, k) \in WalkFrom(e, m) \cup {None}
      <3> SUFFICES ASSUME NEW k \in WalkFrom(e, m), NextNode(e, k) # None
                   PROVE  NextNode(e, k) \in WalkFrom(e, m)
        OBVIOUS
      <3>1. k \in Nodes /\ NextNode(e, k) \in Nodes
        BY <2>2, NextNodeIsNode
      <3>2. ASSUME NEW T \in SUBSET Nodes, m \in T,
                   \A j \in T : NextNode(e, j) \in T \cup {None}
            PROVE  NextNode(e, k) \in T
        <4>1. k \in T
          BY <3>2 DEF WalkFrom
        <4> QED
          BY <3>2, <4>1
      <3> QED
        BY <3>1, <3>2 DEF WalkFrom
    <2>4. S \in SUBSET Nodes /\ n \in S /\ \A k \in S : NextNode(e, k) \in S \cup {None}
      BY <2>2, <2>3 DEF m
    <2> QED
      BY <2>4 DEF WalkFrom, m
  <1> QED
    BY <1>1, <1>2, <1>3

\* The walk is a matter of the context snapshot alone.
LEMMA WalkKept ==
  ASSUME NEW e, pass'[e] = pass[e]
  PROVE  \A n : WalkFrom(e, n)' = WalkFrom(e, n)
  BY DEF WalkFrom, NextNode

\* What has been done stays done.
LEMMA DoneGrows ==
  ASSUME NEW e, pass'[e] = pass[e], done[e] \subseteq done'[e]
  PROVE  /\ \A n : BehindDone(e, n) => BehindDone(e, n)'
         /\ AllDone(e) => AllDone(e)'
  BY WalkKept DEF BehindDone, AllDone

\* The walk goes on: from a node that is done to the next one, or to its end.
LEMMA BehindNext ==
  ASSUME NEW e \in Executions, NEW n \in Nodes, BehindDone(e, n),
         Kind[n] = "ACTION" => n \in done[e]
  PROVE  /\ NextNode(e, n) = None => AllDone(e)
         /\ NextNode(e, n) # None => BehindDone(e, NextNode(e, n))
  BY WalkStep DEF BehindDone, AllDone

LEMMA EntryBehind ==
  \A e \in Executions : BehindDone(e, Entry)
  BY DEF BehindDone

-----------------------------------------------------------------------------
LEMMA Records ==
  /\ NoJob \in Job /\ \A i \in 0..(Batch - 1) : [NoJob EXCEPT !.index = i] \in Job
  /\ WorkPCs \subseteq PCs /\ Calling \subseteq WorkPCs
  /\ {"idle", "find", "claim", "reclaimActions"} \cap WorkPCs = {}
  /\ {"idle", "find", "claim", "reclaimActions"} \subseteq PCs
  /\ Bound \in Nat \/ ~TypeOK
  BY ConstAssumption DEF NoJob, Job, ExecStates, Outcomes, WorkPCs, PCs, Calling, Bound, TypeOK

\* The end of processDue and of the tick: the worker has nothing in hand.
LEMMA Released ==
  ASSUME TypeOK, NEW w \in Workers, NextInBatch(w) \/ EndTick(w)
  PROVE  \E l \in {"idle", "find"}, r \in Job :
           pc' = [pc EXCEPT ![w] = l] /\ job' = [job EXCEPT ![w] = r]
  <1>1. job[w] \in Job
    BY DEF TypeOK
  <1>2. job[w].index + 1 < Batch => job[w].index + 1 \in 0..(Batch - 1)
    BY <1>1, ConstAssumption DEF Job
  <1> QED
    BY <1>2, Records DEF NextInBatch, EndTick, Goto

\* A worker that has nothing in hand knows nothing.
LEMMA NothingInHand ==
  ASSUME NEW l \in {"idle", "find"}, NEW r
  PROVE  JobOK(l, r)' /\ Walked(l, r)' /\ Read(l, r)'
  BY DEF JobOK, Walked, Read, WorkPCs

\* A worker moves on, and no row changes.
LEMMA WorkerMoves ==
  ASSUME IInv, NEW w \in Workers, NEW l \in PCs, NEW r \in Job,
         pc' = [pc EXCEPT ![w] = l], job' = [job EXCEPT ![w] = r],
         l \in WorkPCs => pc[w] \in WorkPCs /\ r.exec = job[w].exec /\ l \notin Calling,
         JobOK(l, r)', Walked(l, r)', Read(l, r)',
         faults' \in Nat, faults' >= faults, faults' > faults \/ pc[w] \notin Calling,
         UNCHANGED <<execution, action, done, raced, operator, requests>>
  PROVE  IInv'
  <1> USE DEF IInv, execution, action, operator
  <1>1. /\ \A v \in Workers \ {w} : job'[v] = job[v] /\ pc'[v] = pc[v]
        /\ job'[w] = r /\ pc'[w] = l
    BY DEF TypeOK
  <1>2. TypeOK'
    BY DEF TypeOK
  <1>3. \A v \in Workers, e \in Executions : Works(v, e)' => Works(v, e)
    BY <1>1 DEF Works
  <1>4. \A e \in Executions : Held(e)' => Held(e)
    BY <1>3 DEF Held
  <1>5. HasJob' /\ HasExec'
    BY <1>1 DEF HasJob, HasExec, JobOK
  <1>6. WalkInv'
    <2>1. \A e, n : BehindDone(e, n)' <=> BehindDone(e, n)
      BY WalkKept DEF BehindDone
    <2>2. \A e : AllDone(e)' <=> AllDone(e)
      BY WalkKept DEF AllDone
    <2>3. ASSUME NEW v \in Workers PROVE Walked(pc[v], job[v])'
      BY <1>1, <2>1 DEF WalkInv, Walked
    <2> QED
      BY <2>1, <2>2, <2>3 DEF WalkInv
  <1>7. OneWorker' /\ LeaseInv'
    BY <1>3, <1>4 DEF OneWorker, LeaseInv
  <1>8. RetryInv'
    BY <1>4 DEF RetryInv, Retrying
  <1>9. ReadInv'
    BY <1>1 DEF ReadInv, Read
  <1>10. AttemptInv'
    <2> SUFFICES ASSUME NEW e \in Executions \ raced, NEW n \in Nodes
                 PROVE  /\ attempt[e][n] <= Bound'
                        /\ MayStart(e, n)' => attempt[e][n] < Bound'
      BY DEF AttemptInv
    <2>1. /\ Bound \in Nat /\ Bound' \in Nat /\ Bound' >= Bound /\ attempt[e][n] \in Nat
          /\ faults' > faults => Bound' > Bound
      BY ConstAssumption DEF Bound, TypeOK
    <2>2. attempt[e][n] <= Bound /\ (MayStart(e, n) => attempt[e][n] < Bound)
      BY DEF AttemptInv
    <2>3. ASSUME faults' = faults, MayStart(e, n)'
          PROVE  MayStart(e, n)
      <3>1. ASSUME NEW v \in Workers, Works(v, e), pc[v] \in Calling
            PROVE  job[v].node # n
        <4>1. v # w
          BY <2>3, <3>1
        <4>2. Works(v, e)' /\ pc'[v] = pc[v] /\ job'[v] = job[v]
          BY <1>1, <3>1, <4>1 DEF Works
        <4> QED
          BY <2>3, <3>1, <4>2 DEF MayStart
      <3> QED
        BY <1>4, <2>3, <3>1 DEF MayStart, Retrying
    <2>4. CASE faults' = faults
      BY <2>1, <2>2, <2>3, <2>4
    <2>5. CASE faults' > faults
      BY <2>1, <2>2, <2>5
    <2>6. faults' = faults \/ faults' > faults
      BY DEF TypeOK
    <2> QED
      BY <2>4, <2>5, <2>6
  <1> QED
    BY <1>2, <1>5, <1>6, <1>7, <1>8, <1>9, <1>10

\* A worker leaves its execution e in state s, where all of its walk is done
\* if that is SUCCEEDED.
LEMMA LeaveKeeps ==
  ASSUME IInv, NEW w \in Workers, pc[w] \in WorkPCs, NEW s \in {"SUCCEEDED", "WAITING", "FAILED"},
         Leave(w, s),
         s = "SUCCEEDED" => AllDone(job[w].exec),
         s # "FAILED" => pc[w] \notin Calling,
         \/ node' = node
         \/ node' = [node EXCEPT ![job[w].exec] = None],
         wait' \in [Executions -> 0..Delay],
         UNCHANGED <<pass, action, done, raced, operator, faults, requests>>
  PROVE  IInv'
  <1> USE DEF IInv, action, operator
  <1>0. PICK x \in Executions : x = job[w].exec
    BY DEF HasJob, JobOK
  <1>1. PICK l \in {"idle", "find"}, r \in Job :
          pc' = [pc EXCEPT ![w] = l] /\ job' = [job EXCEPT ![w] = r]
    BY Released DEF Leave
  <1>2. /\ \A v \in Workers \ {w} : job'[v] = job[v] /\ pc'[v] = pc[v]
        /\ job'[w] = r /\ pc'[w] = l /\ l \notin WorkPCs
    BY <1>1 DEF TypeOK, WorkPCs
  <1>3. Works(w, x) /\ Held(x)
    BY <1>0 DEF Works, Held
  <1>4. /\ \A e \in Executions : state'[e] = IF e = x THEN s ELSE state[e]
        /\ \A e \in Executions : lease'[e] = IF e = x THEN None ELSE lease[e]
        /\ \A e \in Executions : node'[e] = node[e] \/ node'[e] = None
    BY <1>0 DEF Leave, TypeOK
  <1>5. TypeOK'
    <2>1. state' \in [Executions -> ExecStates] /\ lease' \in [Executions -> (0..Lease) \cup {None}]
      BY DEF Leave, TypeOK, ExecStates
    <2>2. node' \in [Executions -> Nodes \cup {None}]
      BY DEF TypeOK
    <2>3. pc' \in [Workers -> PCs] /\ job' \in [Workers -> Job]
      BY <1>1, Records DEF TypeOK
    <2> QED
      BY <2>1, <2>2, <2>3 DEF TypeOK
  <1>6. \A v \in Workers, e \in Executions : Works(v, e)' <=> Works(v, e) /\ v # w
    BY <1>2 DEF Works
  <1>7. \A e \in Executions : /\ Held(e)' => Held(e)
                              /\ e # x => (Held(e)' <=> Held(e))
    BY <1>0, <1>3, <1>6 DEF Held, Works
  <1>8. HasJob' /\ HasExec'
    <2>1. ASSUME NEW v \in Workers PROVE JobOK(pc[v], job[v])'
      BY <1>2, <1>4, NothingInHand DEF HasJob, JobOK
    <2> QED
      BY <1>4, <2>1 DEF HasJob, HasExec
  <1>9. WalkInv'
    <2>1. \A e, n : BehindDone(e, n)' <=> BehindDone(e, n)
      BY WalkKept DEF BehindDone
    <2>2. \A e : AllDone(e)' <=> AllDone(e)
      BY WalkKept DEF AllDone
    <2>3. ASSUME NEW v \in Workers PROVE Walked(pc[v], job[v])'
      BY <1>2, <2>1 DEF WalkInv, Walked
    <2>4. \A e \in Executions : state'[e] = "SUCCEEDED" => AllDone(e)
      BY <1>0, <1>4 DEF WalkInv
    <2> QED
      BY <1>4, <2>1, <2>2, <2>3, <2>4 DEF WalkInv
  <1>10. x \notin raced => ~Held(x)'
    <2> SUFFICES ASSUME x \notin raced, NEW v \in Workers, Works(v, x)'
                 PROVE  FALSE
      BY DEF Held
    <2>1. Works(v, x) /\ v # w
      BY <1>3, <1>6
    <2> QED
      BY <1>3, <2>1 DEF OneWorker
  <1>11. OneWorker' /\ LeaseInv'
    <2>1. OneWorker'
      BY <1>6 DEF OneWorker
    <2>2. ASSUME NEW e \in Executions \ raced, Held(e)'
          PROVE  Held(e) /\ state'[e] = state[e] /\ lease'[e] = lease[e]
      BY <1>4, <1>7, <1>10, <2>2
    <2>3. LeaseInv'
      BY <2>2 DEF LeaseInv
    <2> QED
      BY <2>1, <2>3
  <1>12. \A e \in Executions \ raced, o \in Operators : Retrying(o, e)' => Retrying(o, e) /\ e # x
    BY <1>3 DEF RetryInv, Retrying
  <1>13. RetryInv'
    BY <1>4, <1>7, <1>12 DEF RetryInv, Retrying
  <1>14. ReadInv'
    <2>1. ASSUME NEW v \in Workers PROVE Read(pc[v], job[v])'
      BY <1>2, NothingInHand DEF ReadInv, Read
    <2> QED
      BY <2>1 DEF ReadInv
  <1>15. AttemptInv'
    <2> SUFFICES ASSUME NEW e \in Executions \ raced, NEW n \in Nodes
                 PROVE  /\ attempt[e][n] <= Bound
                        /\ MayStart(e, n)' => attempt[e][n] < Bound
      BY DEF AttemptInv, Bound
    <2>1. attempt[e][n] <= Bound /\ (MayStart(e, n) => attempt[e][n] < Bound)
      BY DEF AttemptInv
    <2>2. ASSUME MayStart(e, n)' PROVE MayStart(e, n)
      <3>1. CASE e = x
        <4>1. s # "FAILED"
          <5>1. ~Held(e)' /\ (\A o \in Operators : ~Retrying(o, e)') /\ state'[e] = s
            BY <1>3, <1>4, <1>10, <1>12, <3>1
          <5> QED
            BY <2>2, <5>1 DEF MayStart
        <4>2. \A v \in Workers : Works(v, e) => v = w
          BY <1>3, <3>1 DEF OneWorker
        <4> QED
          BY <1>3, <2>2, <3>1, <4>1, <4>2 DEF MayStart
      <3>2. CASE e # x
        <4>1. \A v \in Workers : Works(v, e) => v # w
          BY <1>0, <3>2 DEF Works
        <4>2. \A v \in Workers : Works(v, e) /\ pc[v] \in Calling => job[v].node # n
          BY <1>2, <1>6, <2>2, <4>1 DEF MayStart
        <4> QED
          BY <1>4, <1>7, <2>2, <3>2, <4>2 DEF MayStart, Retrying
      <3> QED
        BY <3>1, <3>2
    <2> QED
      BY <2>1, <2>2
  <1> QED
    BY <1>5, <1>8, <1>9, <1>11, <1>13, <1>14, <1>15

\* A worker writes the row of the action n of the execution x it works on, or
\* calls its handler, and stays with it.
LEMMA ActionWritten ==
  ASSUME IInv, NEW w \in Workers, NEW x \in Executions, NEW n \in Nodes,
         Works(w, x), pc[w] # "read", job[w].node = n,
         NEW l \in WorkPCs \ {"read"}, NEW r \in Job, r.exec = x, r.node = n,
         pc' = [pc EXCEPT ![w] = l], job' = [job EXCEPT ![w] = r],
         actState' \in [Executions -> [Nodes -> ActStates]],
         attempt' \in [Executions -> [Nodes -> Nat]],
         done' \in [Executions -> SUBSET Nodes],
         \A e \in Executions, m \in Nodes : e # x \/ m # n =>
           actState'[e][m] = actState[e][m] /\ attempt'[e][m] = attempt[e][m],
         \A e \in Executions : done[e] \subseteq done'[e],
         Walked(l, r)', actState'[x][n] = "SUCCEEDED" => n \in done'[x],
         x \notin raced =>
           /\ Read(l, r)'
           /\ attempt'[x][n] <= Bound
           /\ attempt'[x][n] < Bound \/ actState'[x][n] = "SUCCEEDED" \/ l \in Calling,
         UNCHANGED <<execution, raced, operator, faults, requests>>
  PROVE  IInv'
  <1> USE DEF IInv, execution, operator
  <1>1. /\ \A v \in Workers \ {w} : job'[v] = job[v] /\ pc'[v] = pc[v]
        /\ job'[w] = r /\ pc'[w] = l
    BY DEF TypeOK
  <1>2. TypeOK'
    BY Records DEF TypeOK
  <1>3. \A v \in Workers, e \in Executions : Works(v, e)' <=> Works(v, e)
    BY <1>1 DEF Works
  <1>4. \A e \in Executions : Held(e)' <=> Held(e)
    BY <1>3 DEF Held
  <1>5. Held(x) /\ state[x] # "ABSENT" /\ "claim" \notin WorkPCs
    BY Records DEF Held, HasJob, JobOK, Works
  <1>6. HasJob' /\ HasExec'
    BY <1>1, <1>5 DEF HasJob, HasExec, JobOK
  <1>7. WalkInv'
    <2>1. \A e \in Executions : /\ \A m : BehindDone(e, m) => BehindDone(e, m)'
                                /\ AllDone(e) => AllDone(e)'
      BY DoneGrows
    <2>2. ASSUME NEW v \in Workers PROVE Walked(pc[v], job[v])'
      <3>1. CASE v = w
        BY <1>1, <3>1
      <3>2. CASE v # w
        <4>1. Walked(pc[v], job[v])
          BY DEF WalkInv
        <4>2. pc[v] \in WorkPCs => job[v].exec \in Executions
          BY DEF HasJob, JobOK
        <4> QED
          BY <1>1, <2>1, <3>2, <4>1, <4>2 DEF Walked
      <3> QED
        BY <3>1, <3>2
    <2>3. \A e \in Executions, m \in Nodes : actState'[e][m] = "SUCCEEDED" => m \in done'[e]
      BY DEF WalkInv
    <2> QED
      BY <2>1, <2>2, <2>3 DEF WalkInv
  <1>8. OneWorker' /\ LeaseInv'
    BY <1>3, <1>4 DEF OneWorker, LeaseInv
  <1>9. RetryInv'
    <2>1. \A e \in Executions \ raced, o \in Operators : Retrying(o, e) => e # x /\ opActs[o] \subseteq Nodes
      BY <1>5 DEF RetryInv, TypeOK
    <2> QED
      BY <1>4, <2>1 DEF RetryInv, Retrying
  <1>10. ReadInv'
    <2> SUFFICES ASSUME NEW v \in Workers PROVE Read(pc[v], job[v])'
      BY DEF ReadInv
    <2>1. CASE v = w
      BY <1>1, <2>1 DEF Read
    <2>2. CASE v # w /\ pc[v] \in {"create", "start", "handler", "record"} /\ job[v].exec \notin raced
      <3>1. Works(v, job[v].exec) /\ job[v].exec \in Executions /\ job[v].node \in Nodes
        BY <2>2 DEF Works, HasJob, JobOK, WorkPCs
      <3>2. job[v].exec # x
        BY <2>2, <3>1 DEF OneWorker
      <3> QED
        BY <1>1, <2>2, <3>1, <3>2 DEF ReadInv, Read
    <2>3. CASE v # w /\ ~(pc[v] \in {"create", "start", "handler", "record"} /\ job[v].exec \notin raced)
      BY <1>1, <2>3 DEF Read
    <2> QED
      BY <2>1, <2>2, <2>3
  <1>11. AttemptInv'
    <2> SUFFICES ASSUME NEW e \in Executions \ raced, NEW m \in Nodes
                 PROVE  /\ attempt'[e][m] <= Bound
                        /\ MayStart(e, m)' => attempt'[e][m] < Bound
      BY DEF AttemptInv, Bound
    <2>1. CASE e = x /\ m = n
      BY <1>1, <1>3, <2>1 DEF MayStart
    <2>2. CASE e # x \/ m # n
      <3>1. attempt[e][m] <= Bound /\ (MayStart(e, m) => attempt[e][m] < Bound)
        BY DEF AttemptInv
      <3>2. MayStart(e, m)' => MayStart(e, m)
        <4> SUFFICES ASSUME MayStart(e, m)' PROVE MayStart(e, m)
          OBVIOUS
        <4>1. ASSUME NEW v \in Workers, Works(v, e), pc[v] \in Calling
              PROVE  job[v].node # m
          <5>1. CASE v = w
            BY <2>2, <4>1, <5>1 DEF Works
          <5>2. CASE v # w
            BY <1>1, <1>3, <4>1, <5>2 DEF MayStart
          <5> QED
            BY <5>1, <5>2
        <4> QED
          BY <1>4, <2>2, <4>1 DEF MayStart, Retrying
      <3> QED
        BY <2>2, <3>1, <3>2
    <2> QED
      BY <2>1, <2>2
  <1> QED
    BY <1>2, <1>6, <1>7, <1>8, <1>9, <1>10, <1>11

-----------------------------------------------------------------------------
(* AutomationScheduler.tick.                                               *)

\* A worker lets go of what it has in hand, and no row changes.
LEMMA ReleaseKeeps ==
  ASSUME IInv, NEW w \in Workers, NextInBatch(w) \/ EndTick(w),
         faults' \in Nat, faults' >= faults, faults' > faults \/ pc[w] \notin Calling,
         UNCHANGED <<execution, action, done, raced, operator, requests>>
  PROVE  IInv'
  <1>1. PICK l \in {"idle", "find"}, r \in Job :
          pc' = [pc EXCEPT ![w] = l] /\ job' = [job EXCEPT ![w] = r]
    BY Released DEF IInv
  <1>2. l \in PCs /\ l \notin WorkPCs
    BY Records
  <1> QED
    BY <1>1, <1>2, NothingInHand, WorkerMoves

\* The executions it takes back are held by nobody, or raced.
LEMMA ReclaimExecutionsKeeps ==
  ASSUME IInv, NEW w \in Workers, ReclaimExecutions(w)
  PROVE  IInv'
  <1> USE DEF IInv, action, operator
  <1>1. /\ pc[w] = "idle" /\ pc' = [pc EXCEPT ![w] = "reclaimActions"]
        /\ state' = [e \in Executions |-> IF Reclaimable(e) THEN "WAITING" ELSE state[e]]
        /\ lease' = [e \in Executions |-> IF Reclaimable(e) THEN None ELSE lease[e]]
        /\ UNCHANGED <<node, wait, pass, action, done, raced, job, operator, faults, requests>>
    BY DEF ReclaimExecutions, Goto
  <1>2. \A e \in Executions :
          \/ state'[e] = state[e] /\ lease'[e] = lease[e]
          \/ state[e] = "RUNNING" /\ lease[e] = 0 /\ state'[e] = "WAITING"
    BY <1>1 DEF Reclaimable, Expired
  <1>3. \A v \in Workers : pc'[v] = pc[v] \/ (pc[v] \notin WorkPCs \cup {"claim"} /\ pc'[v] \notin WorkPCs \cup {"claim"})
    BY <1>1 DEF TypeOK, WorkPCs
  <1>4. \A v \in Workers, e \in Executions : Works(v, e)' <=> Works(v, e)
    BY <1>1, <1>3 DEF Works
  <1>5. \A e \in Executions : Held(e)' <=> Held(e)
    BY <1>4 DEF Held
  <1>6. TypeOK'
    <2>1. state' \in [Executions -> ExecStates] /\ lease' \in [Executions -> (0..Lease) \cup {None}]
      BY <1>1 DEF TypeOK, ExecStates
    <2>2. pc' \in [Workers -> PCs]
      BY <1>1 DEF TypeOK, PCs
    <2> QED
      BY <1>1, <2>1, <2>2 DEF TypeOK
  <1>7. HasJob' /\ HasExec'
    <2>1. ASSUME NEW v \in Workers PROVE JobOK(pc[v], job[v])'
      BY <1>1, <1>2, <1>3 DEF HasJob, JobOK
    <2> QED
      BY <1>1, <1>2, <2>1 DEF HasJob, HasExec
  <1>8. WalkInv'
    <2>1. \A e, n : BehindDone(e, n)' <=> BehindDone(e, n)
      BY <1>1, WalkKept DEF BehindDone
    <2>2. \A e : AllDone(e)' <=> AllDone(e)
      BY <1>1, WalkKept DEF AllDone
    <2>3. ASSUME NEW v \in Workers PROVE Walked(pc[v], job[v])'
      BY <1>1, <1>3, <2>1 DEF WalkInv, Walked
    <2> QED
      BY <1>1, <1>2, <2>1, <2>2, <2>3 DEF WalkInv
  <1>9. OneWorker'
    BY <1>1, <1>4 DEF OneWorker
  <1>10. LeaseInv'
    <2> SUFFICES ASSUME NEW e \in Executions \ raced, Held(e)
                 PROVE  \/ state'[e] = "RUNNING" /\ lease'[e] \in 1..Lease
                        \/ state'[e] = "CANCELLED"
      BY <1>1, <1>5 DEF LeaseInv
    <2> QED
      BY <1>2 DEF LeaseInv
  <1>11. RetryInv'
    BY <1>1, <1>2, <1>5 DEF RetryInv, Retrying
  <1>12. ReadInv'
    <2>1. ASSUME NEW v \in Workers PROVE Read(pc[v], job[v])'
      BY <1>1, <1>3 DEF ReadInv, Read, WorkPCs
    <2> QED
      BY <2>1 DEF ReadInv
  <1>13. AttemptInv'
    <2>1. \A e \in Executions, n \in Nodes : MayStart(e, n)' => MayStart(e, n)
      BY <1>1, <1>2, <1>3, <1>4, <1>5, Records DEF MayStart, Retrying
    <2> QED
      BY <1>1, <2>1 DEF AttemptInv, Bound
  <1> QED
    BY <1>6, <1>7, <1>8, <1>9, <1>10, <1>11, <1>12, <1>13

LEMMA ReclaimActionsKeeps ==
  ASSUME IInv, NEW w \in Workers, ReclaimActions(w)
  PROVE  IInv'
  <1> USE DEF IInv, execution, operator
  <1>1. /\ pc[w] = "reclaimActions" /\ pc' = [pc EXCEPT ![w] = "find"]
        /\ UNCHANGED <<execution, attempt, done, raced, job, operator, faults, requests>>
    BY DEF ReclaimActions, Goto
  <1>2. /\ actState' \in [Executions -> [Nodes -> ActStates]]
        /\ \A e \in Executions, n \in Nodes :
             \/ actState'[e][n] = actState[e][n]
             \/ actState[e][n] = "RUNNING" /\ actState'[e][n] = "RETRYABLE"
    BY DEF ReclaimActions, TypeOK, ActStates
  <1>3. \A v \in Workers : pc'[v] = pc[v] \/ (pc[v] \notin WorkPCs \cup {"claim"} /\ pc'[v] \notin WorkPCs \cup {"claim"})
    BY <1>1 DEF TypeOK, WorkPCs
  <1>4. \A v \in Workers, e \in Executions : Works(v, e)' <=> Works(v, e)
    BY <1>1, <1>3 DEF Works
  <1>5. \A e \in Executions : Held(e)' <=> Held(e)
    BY <1>4 DEF Held
  <1>6. TypeOK'
    <2>1. pc' \in [Workers -> PCs]
      BY <1>1 DEF TypeOK, PCs
    <2> QED
      BY <1>1, <1>2, <2>1 DEF TypeOK
  <1>7. HasJob' /\ HasExec'
    <2>1. ASSUME NEW v \in Workers PROVE JobOK(pc[v], job[v])'
      BY <1>1, <1>3 DEF HasJob, JobOK
    <2> QED
      BY <1>1, <2>1 DEF HasJob, HasExec
  <1>8. WalkInv'
    <2>1. \A e, n : BehindDone(e, n)' <=> BehindDone(e, n)
      BY <1>1, WalkKept DEF BehindDone
    <2>2. \A e : AllDone(e)' <=> AllDone(e)
      BY <1>1, WalkKept DEF AllDone
    <2>3. ASSUME NEW v \in Workers PROVE Walked(pc[v], job[v])'
      BY <1>1, <1>3, <2>1 DEF WalkInv, Walked
    <2> QED
      BY <1>1, <1>2, <2>1, <2>2, <2>3 DEF WalkInv
  <1>9. OneWorker' /\ LeaseInv'
    BY <1>1, <1>4, <1>5 DEF OneWorker, LeaseInv
  <1>10. RetryInv'
    <2>1. \A o \in Operators : opActs[o] \subseteq Nodes
      BY DEF TypeOK
    <2> QED
      BY <1>1, <1>2, <1>5, <2>1 DEF RetryInv, Retrying
  <1>11. ReadInv'
    <2>1. ASSUME NEW v \in Workers PROVE Read(pc[v], job[v])'
      <3>1. pc[v] \in {"create", "start", "handler", "record"} =>
              job[v].exec \in Executions /\ job[v].node \in Nodes
        BY DEF HasJob, JobOK, WorkPCs
      <3> QED
        BY <1>1, <1>2, <1>3, <3>1 DEF ReadInv, Read, WorkPCs
    <2> QED
      BY <2>1 DEF ReadInv
  <1>12. AttemptInv'
    <2>1. \A e \in Executions, n \in Nodes : MayStart(e, n)' => MayStart(e, n)
      BY <1>1, <1>2, <1>3, <1>4, <1>5, Records DEF MayStart, Retrying
    <2> QED
      BY <1>1, <2>1 DEF AttemptInv, Bound
  <1> QED
    BY <1>6, <1>7, <1>8, <1>9, <1>10, <1>11, <1>12

LEMMA FindDueKeeps ==
  ASSUME IInv, NEW w \in Workers, FindDue(w)
  PROVE  IInv'
  <1>1. /\ pc[w] = "find" /\ pc[w] \notin Calling /\ faults \in Nat /\ job[w] \in Job
        /\ UNCHANGED <<execution, action, done, raced, operator, faults, requests>>
        /\ "claim" \in PCs /\ "claim" \notin WorkPCs
    BY Records DEF FindDue, Calling, IInv, TypeOK
  <1>2. CASE EndTick(w)
    BY <1>1, <1>2, ReleaseKeeps
  <1>3. CASE ~EndTick(w)
    <2>1. PICK e \in Executions :
            /\ Due(e)
            /\ job' = [job EXCEPT ![w] = [job[w] EXCEPT !.exec = e, !.found = state[e]]]
            /\ Goto(w, "claim")
      BY <1>3 DEF FindDue
    <2> DEFINE r == [job[w] EXCEPT !.exec = e, !.found = state[e]]
    <2>2. job' = [job EXCEPT ![w] = r] /\ pc' = [pc EXCEPT ![w] = "claim"]
      BY <2>1 DEF Goto
    <2>3. state[e] \in {"PENDING", "WAITING"} /\ state[e] \in ExecStates
      BY <2>1 DEF Due, ExecStates
    <2>4. r \in Job /\ r.exec = e /\ r.found = state[e]
      BY <1>1, <2>3 DEF Job
    <2> HIDE DEF r
    <2>5. PICK q \in Job : q = r
      BY <2>4
    <2>6. JobOK("claim", q)' /\ Walked("claim", q)' /\ Read("claim", q)'
      BY <1>1, <2>3, <2>4, <2>5 DEF JobOK, Walked, Read, WorkPCs, execution
    <2>7. job' = [job EXCEPT ![w] = q]
      BY <2>2, <2>5
    <2>8. faults' \in Nat /\ faults' >= faults
      BY <1>1
    <2> QED
      BY <1>1, <2>2, <2>6, <2>7, <2>8, WorkerMoves
  <1> QED
    BY <1>2, <1>3

\* The conditional UPDATE: the execution is waiting for a worker, so nobody
\* holds it and no retry is under way, or it has raced.
LEMMA ClaimKeeps ==
  ASSUME IInv, NEW w \in Workers, Claim(w)
  PROVE  IInv'
  <1>1. /\ pc[w] = "claim" /\ job[w] \in Job /\ faults \in Nat
        /\ UNCHANGED <<node, wait, pass, action, done, operator, faults, requests>>
        /\ pc[w] \notin WorkPCs /\ pc[w] \notin Calling
    BY Records DEF Claim, IInv, TypeOK
  <1>2. PICK x \in Executions : x = job[w].exec
    BY <1>1 DEF IInv, HasJob, JobOK
  <1>3. CASE EndTick(w) /\ UNCHANGED <<state, lease, raced>>
    BY <1>1, <1>3, ReleaseKeeps DEF execution
  <1>4. CASE ~(EndTick(w) /\ UNCHANGED <<state, lease, raced>>)
    <2> USE DEF IInv, action, operator
    <2>1. /\ StillFound(w)
          /\ state' = [state EXCEPT ![x] = "RUNNING"]
          /\ lease' = [lease EXCEPT ![x] = Lease - job[w].lag]
          /\ raced' = IF job[w].lag = Lease THEN raced \cup {x} ELSE raced
          /\ pc' = [pc EXCEPT ![w] = "read"] /\ job' = job
      BY <1>2, <1>4 DEF Claim, Goto
    <2>2. state[x] \in {"PENDING", "WAITING"}
      BY <1>1, <1>2, <2>1 DEF StillFound, HasJob, JobOK
    <2>3. /\ \A v \in Workers \ {w} : pc'[v] = pc[v]
          /\ pc'[w] = "read" /\ "read" \in WorkPCs /\ "read" \notin Calling
          /\ \A e \in Executions : state'[e] = IF e = x THEN "RUNNING" ELSE state[e]
          /\ \A e \in Executions : e # x => lease'[e] = lease[e]
          /\ raced' \in {raced, raced \cup {x}}
      BY <2>1 DEF TypeOK, WorkPCs, Calling
    <2>4. /\ lease'[x] \in 0..Lease /\ (x \notin raced' => lease'[x] \in 1..Lease)
      <3>1. job[w].lag \in 0..Lease /\ Lease \in Nat \ {0}
        BY <1>1, ConstAssumption DEF Job
      <3>2. lease'[x] = Lease - job[w].lag
        BY <2>1 DEF TypeOK
      <3> QED
        BY <2>1, <3>1, <3>2
    <2>5. TypeOK'
      <3>1. state' \in [Executions -> ExecStates]
        BY <2>1 DEF TypeOK, ExecStates
      <3>2. lease' \in [Executions -> (0..Lease) \cup {None}]
        BY <2>1, <2>3, <2>4 DEF TypeOK
      <3>3. pc' \in [Workers -> PCs]
        BY <2>1, <2>3, Records DEF TypeOK
      <3>4. raced' \in SUBSET Executions
        BY <2>3 DEF TypeOK
      <3> QED
        BY <1>1, <2>1, <3>1, <3>2, <3>3, <3>4 DEF TypeOK
    <2>6. x \notin raced => /\ ~Held(x)
                            /\ \A o \in Operators : ~Retrying(o, x)
      BY <2>2 DEF LeaseInv, RetryInv
    <2>7. \A v \in Workers, e \in Executions : Works(v, e)' <=> Works(v, e) \/ (v = w /\ e = x)
      BY <1>1, <1>2, <2>1, <2>3 DEF Works
    <2>8. \A e \in Executions : Held(e)' <=> Held(e) \/ e = x
      BY <2>7 DEF Held
    <2>9. HasJob' /\ HasExec'
      <3>1. ASSUME NEW v \in Workers PROVE JobOK(pc[v], job[v])'
        BY <1>1, <1>2, <2>1, <2>3 DEF HasJob, JobOK
      <3> QED
        BY <1>1, <2>3, <3>1 DEF HasJob, HasExec
    <2>10. WalkInv'
      <3>1. \A e, n : BehindDone(e, n)' <=> BehindDone(e, n)
        BY <1>1, WalkKept DEF BehindDone
      <3>2. \A e : AllDone(e)' <=> AllDone(e)
        BY <1>1, WalkKept DEF AllDone
      <3>3. ASSUME NEW v \in Workers PROVE Walked(pc[v], job[v])'
        BY <1>1, <2>1, <2>3, <3>1 DEF WalkInv, Walked
      <3> QED
        BY <1>1, <2>3, <3>1, <3>2, <3>3 DEF WalkInv
    <2>11. OneWorker'
      <3> SUFFICES ASSUME NEW e \in Executions \ raced', NEW u \in Workers, NEW v \in Workers,
                          Works(u, e)', Works(v, e)'
                   PROVE  u = v
        BY DEF OneWorker
      <3>1. e \notin raced
        BY <2>3
      <3>2. CASE e = x
        BY <2>6, <2>7, <3>1, <3>2 DEF Held
      <3>3. CASE e # x
        BY <2>7, <3>1, <3>3 DEF OneWorker
      <3> QED
        BY <3>2, <3>3
    <2>12. LeaseInv'
      <3> SUFFICES ASSUME NEW e \in Executions \ raced', Held(e)'
                   PROVE  \/ state'[e] = "RUNNING" /\ lease'[e] \in 1..Lease
                          \/ state'[e] = "CANCELLED"
        BY DEF LeaseInv
      <3>1. CASE e = x
        BY <2>3, <2>4, <3>1
      <3>2. CASE e # x
        BY <2>3, <2>8, <3>2 DEF LeaseInv
      <3> QED
        BY <3>1, <3>2
    <2>13. RetryInv'
      <3>1. \A e \in Executions \ raced', o \in Operators : Retrying(o, e)' => Retrying(o, e) /\ e # x /\ e \notin raced
        BY <1>1, <2>3, <2>6 DEF Retrying
      <3> QED
        BY <1>1, <2>3, <2>8, <3>1 DEF RetryInv, Retrying
    <2>14. ReadInv'
      <3>1. ASSUME NEW v \in Workers PROVE Read(pc[v], job[v])'
        BY <1>1, <2>1, <2>3 DEF ReadInv, Read
      <3> QED
        BY <3>1 DEF ReadInv
    <2>15. AttemptInv'
      <3>1. ASSUME NEW e \in Executions, NEW n \in Nodes, MayStart(e, n)'
            PROVE  MayStart(e, n)
        <4>1. ASSUME NEW v \in Workers, Works(v, e), pc[v] \in Calling
              PROVE  job[v].node # n
          <5>1. v # w
            BY <1>1, <4>1
          <5> QED
            BY <2>1, <2>3, <2>7, <3>1, <4>1, <5>1 DEF MayStart
        <4> QED
          BY <1>1, <2>2, <2>3, <2>8, <3>1, <4>1 DEF MayStart, Retrying
      <3> QED
        BY <1>1, <2>3, <3>1 DEF AttemptInv, Bound
    <2> QED
      BY <2>5, <2>9, <2>10, <2>11, <2>12, <2>13, <2>14, <2>15
  <1> QED
    BY <1>3, <1>4

-----------------------------------------------------------------------------
(* executeWorkflow.                                                        *)

\* The walk starts where the row says it is, or at its entry.
LEMMA ReadExecutionKeeps ==
  ASSUME IInv, NEW w \in Workers, ReadExecution(w)
  PROVE  IInv'
  <1>1. /\ pc[w] = "read" /\ pc[w] \in WorkPCs /\ pc[w] \notin Calling /\ "loop" \in WorkPCs \ Calling
        /\ UNCHANGED <<execution, action, done, raced, operator, faults, requests>>
        /\ faults \in Nat /\ job[w] \in Job /\ pc' = [pc EXCEPT ![w] = "loop"]
    BY DEF ReadExecution, WorkPCs, Calling, Goto, IInv, TypeOK
  <1>2. PICK x \in Executions : x = job[w].exec /\ state[x] # "ABSENT"
    BY <1>1, Records DEF IInv, HasJob, JobOK
  <1>3. PICK n \in Nodes : n = (IF node[x] = None THEN Entry ELSE node[x]) /\ BehindDone(x, n)
    BY GraphAssumption, EntryBehind DEF IInv, TypeOK, WalkInv
  <1>4. PICK r \in Job : r = [job[w] EXCEPT !.node = n]
    BY <1>1 DEF Job
  <1>5. job' = [job EXCEPT ![w] = r] /\ r.exec = x /\ r.node = n
    BY <1>1, <1>2, <1>3, <1>4 DEF ReadExecution, Job
  <1>6. BehindDone(x, n)'
    BY <1>1, <1>3, DoneGrows DEF execution
  <1>7. JobOK("loop", r)' /\ Walked("loop", r)' /\ Read("loop", r)'
    BY <1>1, <1>2, <1>5, <1>6 DEF JobOK, Walked, Read, execution
  <1>8. "loop" \in PCs /\ r.exec = job[w].exec /\ faults' \in Nat /\ faults' >= faults
    BY <1>1, <1>2, <1>5, Records
  <1> QED
    BY <1>1, <1>5, <1>7, <1>8, WorkerMoves

\* A worker goes on with the same node.
LEMMA GoOn ==
  ASSUME IInv, NEW w \in Workers, pc[w] \in WorkPCs \ {"read"}, pc[w] \notin Calling,
         NEW l \in WorkPCs \ (Calling \cup {"read"}), NEW k \in Nat,
         pc' = [pc EXCEPT ![w] = l],
         job' = [job EXCEPT ![w] = [job[w] EXCEPT !.attempt = k]],
         LET e == job[w].exec
             n == job[w].node IN
           /\ l = "advance" => Kind[n] # "ACTION" \/ actState[e][n] = "SUCCEEDED"
           /\ l \in {"create", "start"} => k = attempt[e][n]
           /\ l = "start" => actState[e][n] # "SUCCEEDED",
         UNCHANGED <<execution, action, done, raced, operator, faults, requests>>
  PROVE  IInv'
  <1>1. job[w] \in Job /\ faults \in Nat
    BY DEF IInv, TypeOK
  <1>2. PICK x \in Executions : x = job[w].exec /\ state[x] # "ABSENT"
    BY DEF IInv, HasJob, JobOK
  <1>3. PICK n \in Nodes : n = job[w].node
    BY DEF IInv, HasJob, JobOK
  <1>4. PICK r \in Job : r = [job[w] EXCEPT !.attempt = k]
    BY <1>1 DEF Job
  <1>5. job' = [job EXCEPT ![w] = r] /\ r.exec = x /\ r.node = n /\ r.attempt = k
    BY <1>1, <1>2, <1>3, <1>4 DEF Job
  <1>6. BehindDone(x, n)'
    <2>1. BehindDone(x, n)
      BY <1>2, <1>3 DEF IInv, WalkInv, Walked
    <2> QED
      BY <2>1, DoneGrows DEF execution
  <1>7. l # "record" /\ l # "handler" /\ l # "claim"
    BY Records DEF Calling
  <1>8. actState[x][n] = "SUCCEEDED" => n \in done'[x]
    BY DEF IInv, WalkInv
  <1>9. JobOK(l, r)' /\ Walked(l, r)' /\ Read(l, r)'
    BY <1>2, <1>3, <1>5, <1>6, <1>7, <1>8 DEF JobOK, Walked, Read, execution, action
  <1>10. l \in PCs /\ l \in WorkPCs /\ l \notin Calling /\ r.exec = job[w].exec
    BY <1>2, <1>5, Records
  <1>11. faults' \in Nat /\ faults' >= faults
    BY <1>1
  <1> QED
    BY <1>5, <1>9, <1>10, <1>11, WorkerMoves

LEMMA SameAttempt ==
  ASSUME TypeOK, NEW w \in Workers
  PROVE  /\ job[w].attempt \in Nat
         /\ job = [job EXCEPT ![w] = [job[w] EXCEPT !.attempt = job[w].attempt]]
  <1>1. job[w] \in Job
    BY DEF TypeOK
  <1>2. job[w].attempt \in Nat /\ [job[w] EXCEPT !.attempt = job[w].attempt] = job[w]
    BY <1>1 DEF Job
  <1> QED
    BY <1>2 DEF TypeOK

LEMMA LoopKeeps ==
  ASSUME IInv, NEW w \in Workers, Loop(w) \/ CheckCancelled(w)
  PROVE  IInv'
  <1>1. /\ pc[w] \in {"loop", "check"} /\ pc[w] \in WorkPCs \ {"read"} /\ pc[w] \notin Calling
        /\ UNCHANGED <<execution, action, done, raced, operator, faults, requests>> /\ faults \in Nat
    BY DEF Loop, CheckCancelled, WorkPCs, Calling, IInv, TypeOK
  <1>2. CASE NextInBatch(w)
    BY <1>1, <1>2, ReleaseKeeps
  <1>3. CASE ~NextInBatch(w)
    <2>1. PICK l \in {"check", "advance", "load"} :
            /\ pc' = [pc EXCEPT ![w] = l] /\ job' = job
            /\ l = "advance" => Kind[job[w].node] # "ACTION"
      BY <1>3 DEF Loop, CheckCancelled, Goto
    <2>2. l \in WorkPCs \ (Calling \cup {"read"}) /\ l \notin {"create", "start"}
      BY DEF WorkPCs, Calling
    <2>3. job' = [job EXCEPT ![w] = [job[w] EXCEPT !.attempt = job[w].attempt]]
      BY <2>1, SameAttempt, Zenon DEF IInv
    <2> QED
      BY <1>1, <2>1, <2>2, <2>3, SameAttempt, GoOn DEF IInv
  <1> QED
    BY <1>2, <1>3

LEMMA LoadActionKeeps ==
  ASSUME IInv, NEW w \in Workers, LoadAction(w)
  PROVE  IInv'
  <1>1. /\ pc[w] \in WorkPCs \ {"read"} /\ pc[w] \notin Calling
        /\ UNCHANGED <<execution, action, done, raced, operator, faults, requests>>
    BY DEF LoadAction, WorkPCs, Calling
  <1>2. PICK x \in Executions, n \in Nodes : x = job[w].exec /\ n = job[w].node
    BY <1>1 DEF IInv, HasJob, JobOK
  <1>3. attempt[x][n] \in Nat /\ job[w] \in Job
    BY DEF IInv, TypeOK
  <1>4. PICK l \in {"create", "advance", "start"} :
          /\ pc' = [pc EXCEPT ![w] = l]
          /\ l = "advance" => actState[x][n] = "SUCCEEDED"
          /\ l = "start" => actState[x][n] # "SUCCEEDED"
    BY <1>2 DEF LoadAction, SkipAction, Goto
  <1>5. l \in WorkPCs \ (Calling \cup {"read"})
    BY DEF WorkPCs, Calling
  <1>6. job' = [job EXCEPT ![w] = [job[w] EXCEPT !.attempt = attempt[x][n]]]
    BY <1>2 DEF LoadAction
  <1> QED
    BY <1>1, <1>2, <1>3, <1>4, <1>5, <1>6, GoOn

\* What is known of a worker past "read".
LEMMA InHand ==
  ASSUME IInv, NEW w \in Workers, pc[w] \in WorkPCs \ {"read"}
  PROVE  \E x \in Executions, n \in Nodes :
           /\ x = job[w].exec /\ n = job[w].node /\ state[x] # "ABSENT"
           /\ Works(w, x) /\ BehindDone(x, n) /\ job[w] \in Job
           /\ actState[x][n] \in ActStates /\ attempt[x][n] \in Nat
           /\ x \notin raced => /\ attempt[x][n] <= Bound
                                /\ actState[x][n] = "SUCCEEDED" \/ pc[w] \in Calling \/ attempt[x][n] < Bound
  <1>1. PICK x \in Executions, n \in Nodes :
          x = job[w].exec /\ n = job[w].node /\ state[x] # "ABSENT"
    BY DEF IInv, HasJob, JobOK
  <1>2. Works(w, x) /\ BehindDone(x, n) /\ job[w] \in Job
        /\ actState[x][n] \in ActStates /\ attempt[x][n] \in Nat
    BY <1>1 DEF Works, IInv, WalkInv, Walked, TypeOK
  <1>3. ASSUME x \notin raced, actState[x][n] # "SUCCEEDED", pc[w] \notin Calling
        PROVE  MayStart(x, n)
    <2>1. Held(x) /\ \A v \in Workers : Works(v, x) => v = w
      BY <1>2, <1>3 DEF Held, IInv, OneWorker
    <2> QED
      BY <1>3, <2>1 DEF MayStart
  <1> QED
    BY <1>1, <1>2, <1>3 DEF IInv, AttemptInv

LEMMA CreateActionKeeps ==
  ASSUME IInv, NEW w \in Workers, CreateAction(w)
  PROVE  IInv'
  <1>1. /\ pc[w] = "create" /\ pc[w] \in WorkPCs \ {"read"} /\ pc[w] \notin Calling
        /\ UNCHANGED <<execution, attempt, done, raced, operator, faults, requests>> /\ faults \in Nat
    BY DEF CreateAction, WorkPCs, Calling, IInv, TypeOK
  <1>2. CASE EndTick(w) /\ UNCHANGED actState
    BY <1>1, <1>2, ReleaseKeeps DEF action
  <1>3. CASE ~(EndTick(w) /\ UNCHANGED actState)
    <2>1. PICK x \in Executions, n \in Nodes :
            /\ x = job[w].exec /\ n = job[w].node /\ state[x] # "ABSENT"
            /\ Works(w, x) /\ BehindDone(x, n) /\ job[w] \in Job
            /\ actState[x][n] \in ActStates /\ attempt[x][n] \in Nat
            /\ x \notin raced => /\ attempt[x][n] <= Bound
                                 /\ actState[x][n] = "SUCCEEDED" \/ pc[w] \in Calling \/ attempt[x][n] < Bound
      BY <1>1, InHand
    <2>2. /\ actState[x][n] = "ABSENT" /\ actState' = [actState EXCEPT ![x][n] = "PENDING"]
          /\ pc' = [pc EXCEPT ![w] = "start"] /\ job' = job
      BY <1>3, <2>1 DEF CreateAction, Goto
    <2>3. PICK r \in Job : r = job[w]
      BY <2>1
    <2>4. job' = [job EXCEPT ![w] = r] /\ r.exec = x /\ r.node = n
      BY <2>1, <2>2, <2>3 DEF IInv, TypeOK
    <2>5. /\ actState' \in [Executions -> [Nodes -> ActStates]] /\ actState'[x][n] = "PENDING"
          /\ \A e \in Executions, m \in Nodes : e # x \/ m # n => actState'[e][m] = actState[e][m]
          /\ attempt' \in [Executions -> [Nodes -> Nat]] /\ done' \in [Executions -> SUBSET Nodes]
          /\ attempt' = attempt /\ done' = done
      BY <1>1, <2>2 DEF IInv, TypeOK, ActStates
    <2>6. x \notin raced => r.attempt = attempt[x][n]
      BY <1>1, <2>1, <2>3 DEF IInv, ReadInv, Read
    <2>7. BehindDone(x, n)'
      BY <1>1, <2>1, DoneGrows DEF execution
    <2>8. Walked("start", r)' /\ Read("start", r)'
      BY <1>1, <2>4, <2>5, <2>6, <2>7 DEF Walked, Read
    <2>9. "start" \in WorkPCs \ {"read"}
      BY DEF WorkPCs
    <2>10. x \notin raced => attempt'[x][n] <= Bound /\ attempt'[x][n] < Bound
      BY <1>1, <2>1, <2>2, <2>5
    <2>11. /\ \A e \in Executions, m \in Nodes : e # x \/ m # n =>
                actState'[e][m] = actState[e][m] /\ attempt'[e][m] = attempt[e][m]
           /\ \A e \in Executions : done[e] \subseteq done'[e]
           /\ actState'[x][n] # "SUCCEEDED" /\ pc[w] # "read"
           /\ pc' = [pc EXCEPT ![w] = "start"] /\ Works(w, x) /\ job[w].node = n
      BY <1>1, <2>1, <2>2, <2>5
    <2> QED
      BY <1>1, <2>4, <2>5, <2>8, <2>9, <2>10, <2>11, ActionWritten
  <1> QED
    BY <1>2, <1>3

\* The attempt counted is one more than the row's, which left room for it.
LEMMA StartActionKeeps ==
  ASSUME IInv, NEW w \in Workers, StartAction(w)
  PROVE  IInv'
  <1>1. /\ pc[w] = "start" /\ pc[w] \in WorkPCs \ {"read"} /\ pc[w] \notin Calling
        /\ UNCHANGED <<execution, done, raced, operator, faults, requests>>
        /\ pc' = [pc EXCEPT ![w] = "handler"]
    BY DEF StartAction, WorkPCs, Calling, Goto
  <1>2. PICK x \in Executions, n \in Nodes :
          /\ x = job[w].exec /\ n = job[w].node /\ state[x] # "ABSENT"
          /\ Works(w, x) /\ BehindDone(x, n) /\ job[w] \in Job
          /\ actState[x][n] \in ActStates /\ attempt[x][n] \in Nat
          /\ x \notin raced => /\ attempt[x][n] <= Bound
                               /\ actState[x][n] = "SUCCEEDED" \/ pc[w] \in Calling \/ attempt[x][n] < Bound
    BY <1>1, InHand
  <1>3. PICK k \in Nat : k = job[w].attempt + 1
    BY <1>2 DEF Job
  <1>4. PICK r \in Job : r = [job[w] EXCEPT !.attempt = k]
    BY <1>2 DEF Job
  <1>5. r.exec = x /\ r.node = n /\ r.attempt = k
    BY <1>2, <1>4 DEF Job
  <1>6. /\ actState' = [actState EXCEPT ![x][n] = "RUNNING"]
        /\ attempt' = [attempt EXCEPT ![x][n] = k]
        /\ job' = [job EXCEPT ![w] = r]
    BY <1>2, <1>3, <1>4 DEF StartAction
  <1>7. /\ actState' \in [Executions -> [Nodes -> ActStates]] /\ actState'[x][n] = "RUNNING"
        /\ attempt' \in [Executions -> [Nodes -> Nat]] /\ attempt'[x][n] = k
        /\ \A e \in Executions, m \in Nodes : e # x \/ m # n =>
             actState'[e][m] = actState[e][m] /\ attempt'[e][m] = attempt[e][m]
        /\ done' \in [Executions -> SUBSET Nodes] /\ done' = done
    BY <1>1, <1>6 DEF IInv, TypeOK, ActStates
  <1>8. x \notin raced => attempt[x][n] = job[w].attempt /\ actState[x][n] # "SUCCEEDED"
    BY <1>1, <1>2 DEF IInv, ReadInv, Read
  <1>9. x \notin raced => k <= Bound
    <2>1. Bound \in Nat
      BY Records DEF IInv
    <2> QED
      BY <1>1, <1>2, <1>3, <1>8, <2>1
  <1>10. BehindDone(x, n)'
    BY <1>1, <1>2, DoneGrows DEF execution
  <1>11. Walked("handler", r)' /\ Read("handler", r)'
    BY <1>1, <1>5, <1>7, <1>10 DEF Walked, Read
  <1>12. "handler" \in WorkPCs \ {"read"} /\ "handler" \in Calling /\ pc[w] # "read"
    BY <1>1 DEF WorkPCs, Calling
  <1>13. /\ x \notin raced => attempt'[x][n] <= Bound
         /\ \A e \in Executions : done[e] \subseteq done'[e]
         /\ actState'[x][n] # "SUCCEEDED"
    BY <1>7, <1>9
  <1>14. /\ \A e \in Executions, m \in Nodes : e # x \/ m # n =>
              actState'[e][m] = actState[e][m] /\ attempt'[e][m] = attempt[e][m]
         /\ \A e \in Executions : done[e] \subseteq done'[e]
         /\ actState'[x][n] = "SUCCEEDED" => n \in done'[x]
         /\ x \notin raced =>
              /\ Read("handler", r)'
              /\ attempt'[x][n] <= Bound
              /\ attempt'[x][n] < Bound \/ actState'[x][n] = "SUCCEEDED" \/ "handler" \in Calling
    BY <1>7, <1>11, <1>12, <1>13
  <1>15. Works(w, x) /\ pc[w] # "read" /\ job[w].node = n /\ job' = [job EXCEPT ![w] = r]
    BY <1>2, <1>6, <1>12
  <1>16. UNCHANGED <<execution, raced, operator, faults, requests>>
    BY <1>1
  <1> QED
    BY <1>1, <1>5, <1>7, <1>11, <1>12, <1>14, <1>15, <1>16, ActionWritten

LEMMA RunHandlerKeeps ==
  ASSUME IInv, NEW w \in Workers, RunHandler(w)
  PROVE  IInv'
  <1>1. /\ pc[w] = "handler" /\ pc[w] \in WorkPCs \ {"read"}
        /\ UNCHANGED <<execution, action, raced, operator, faults, requests>>
        /\ pc' = [pc EXCEPT ![w] = "record"]
    BY DEF RunHandler, WorkPCs, Goto
  <1>2. PICK x \in Executions, n \in Nodes :
          /\ x = job[w].exec /\ n = job[w].node /\ state[x] # "ABSENT"
          /\ Works(w, x) /\ BehindDone(x, n) /\ job[w] \in Job
          /\ actState[x][n] \in ActStates /\ attempt[x][n] \in Nat
          /\ x \notin raced => /\ attempt[x][n] <= Bound
                               /\ actState[x][n] = "SUCCEEDED" \/ pc[w] \in Calling \/ attempt[x][n] < Bound
    BY <1>1, InHand
  <1>3. PICK o \in Outcomes :
          /\ job' = [job EXCEPT ![w].outcome = o]
          /\ done' = IF o = "success" THEN [done EXCEPT ![x] = @ \cup {n}] ELSE done
    BY <1>2 DEF RunHandler
  <1>4. PICK r \in Job : r = [job[w] EXCEPT !.outcome = o]
    BY <1>2 DEF Job
  <1>5. /\ job' = [job EXCEPT ![w] = r]
        /\ r.exec = x /\ r.node = n /\ r.attempt = job[w].attempt /\ r.outcome = o
    BY <1>2, <1>3, <1>4 DEF Job
  <1>6. /\ done' \in [Executions -> SUBSET Nodes]
        /\ \A e \in Executions : done[e] \subseteq done'[e]
        /\ o = "success" => n \in done'[x]
    BY <1>3 DEF IInv, TypeOK
  <1>7. /\ actState' = actState /\ attempt' = attempt
        /\ actState' \in [Executions -> [Nodes -> ActStates]]
        /\ attempt' \in [Executions -> [Nodes -> Nat]]
    BY <1>1 DEF IInv, TypeOK, action
  <1>8. /\ x \notin raced => job[w].attempt = attempt[x][n] /\ actState[x][n] # "SUCCEEDED"
        /\ actState[x][n] = "SUCCEEDED" => n \in done'[x]
    BY <1>1, <1>2, <1>6 DEF IInv, ReadInv, Read, WalkInv
  <1>9. BehindDone(x, n)'
    BY <1>1, <1>2, <1>6, DoneGrows DEF execution
  <1>10. Walked("record", r)' /\ (x \notin raced => Read("record", r)')
    BY <1>1, <1>5, <1>6, <1>7, <1>8, <1>9 DEF Walked, Read
  <1>11. "record" \in WorkPCs \ {"read"} /\ "record" \in Calling /\ pc[w] # "read"
    BY <1>1 DEF WorkPCs, Calling
  <1> QED
    BY <1>1, <1>2, <1>5, <1>6, <1>7, <1>8, <1>10, <1>11, ActionWritten

\* A failure that may be tried again has left an attempt of maxAttempts.
LEMMA RecordResultKeeps ==
  ASSUME IInv, NEW w \in Workers, RecordResult(w)
  PROVE  IInv'
  <1>1. /\ pc[w] = "record" /\ pc[w] \in WorkPCs \ {"read"}
        /\ UNCHANGED <<execution, attempt, done, raced, job, operator, faults, requests>>
        /\ pc' = [pc EXCEPT ![w] = AfterRecord(w)]
    BY DEF RecordResult, WorkPCs, Goto
  <1>2. PICK x \in Executions, n \in Nodes :
          /\ x = job[w].exec /\ n = job[w].node /\ state[x] # "ABSENT"
          /\ Works(w, x) /\ BehindDone(x, n) /\ job[w] \in Job
          /\ actState[x][n] \in ActStates /\ attempt[x][n] \in Nat
          /\ x \notin raced => /\ attempt[x][n] <= Bound
                               /\ actState[x][n] = "SUCCEEDED" \/ pc[w] \in Calling \/ attempt[x][n] < Bound
    BY <1>1, InHand
  <1>3. PICK l \in {"advance", "waitExec", "failExec"} :
          /\ l = AfterRecord(w)
          /\ l = "advance" <=> job[w].outcome = "success"
          /\ l = "waitExec" => job[w].attempt < MaxAttempts
    BY DEF AfterRecord, RetriesLeft
  <1>4. PICK s \in ActStates :
          /\ s = Recorded(w)
          /\ l = "advance" => s = "SUCCEEDED"
          /\ s = "SUCCEEDED" => l = "advance" \/ actState[x][n] = "SUCCEEDED"
    BY <1>2, <1>3 DEF Recorded, ActStates
  <1>5. PICK r \in Job : r = job[w]
    BY <1>2
  <1>6. /\ job' = [job EXCEPT ![w] = r] /\ pc' = [pc EXCEPT ![w] = l]
        /\ r.exec = x /\ r.node = n
        /\ actState' = [actState EXCEPT ![x][n] = s]
    BY <1>1, <1>2, <1>3, <1>4, <1>5 DEF RecordResult, IInv, TypeOK
  <1>7. /\ actState' \in [Executions -> [Nodes -> ActStates]] /\ actState'[x][n] = s
        /\ \A e \in Executions, m \in Nodes : e # x \/ m # n => actState'[e][m] = actState[e][m]
        /\ attempt' \in [Executions -> [Nodes -> Nat]] /\ attempt' = attempt
        /\ done' \in [Executions -> SUBSET Nodes] /\ done' = done
    BY <1>1, <1>6 DEF IInv, TypeOK
  <1>8. /\ x \notin raced => job[w].attempt = attempt[x][n]
        /\ actState[x][n] = "SUCCEEDED" \/ job[w].outcome = "success" => n \in done[x]
    BY <1>1, <1>2 DEF IInv, ReadInv, Read, WalkInv, Walked
  <1>9. BehindDone(x, n)'
    BY <1>1, <1>2, DoneGrows DEF execution
  <1>10. l \in WorkPCs \ {"read"} /\ (l = "failExec" => l \in Calling) /\ pc[w] # "read"
    BY <1>1 DEF WorkPCs, Calling
  <1>11. Walked(l, r)' /\ Read(l, r)'
    <2>1. l # "record" /\ l # "create" /\ l # "start" /\ l # "handler"
      OBVIOUS
    <2> QED
      BY <1>3, <1>6, <1>7, <1>8, <1>9, <2>1 DEF Walked, Read
  <1>12. x \notin raced => attempt[x][n] < Bound \/ s = "SUCCEEDED" \/ l \in Calling
    <2>1. Bound \in Nat /\ Bound >= MaxAttempts
      BY ConstAssumption DEF Bound, IInv, TypeOK
    <2> QED
      BY <1>2, <1>3, <1>4, <1>8, <1>10, <2>1, ConstAssumption
  <1>13. s = "SUCCEEDED" => n \in done'[x]
    BY <1>3, <1>4, <1>7, <1>8
  <1>14. /\ \A e \in Executions, m \in Nodes : e # x \/ m # n =>
              actState'[e][m] = actState[e][m] /\ attempt'[e][m] = attempt[e][m]
         /\ \A e \in Executions : done[e] \subseteq done'[e]
         /\ actState'[x][n] = "SUCCEEDED" => n \in done'[x]
         /\ x \notin raced =>
              /\ attempt'[x][n] <= Bound
              /\ attempt'[x][n] < Bound \/ actState'[x][n] = "SUCCEEDED" \/ l \in Calling
    BY <1>2, <1>7, <1>12, <1>13
  <1>15. /\ Works(w, x) /\ job[w].node = n /\ r.exec = x /\ r.node = n
         /\ job' = [job EXCEPT ![w] = r] /\ pc' = [pc EXCEPT ![w] = l]
    BY <1>2, <1>6
  <1>16. UNCHANGED <<execution, raced, operator, faults, requests>>
    BY <1>1
  <1>17. /\ actState' \in [Executions -> [Nodes -> ActStates]]
         /\ attempt' \in [Executions -> [Nodes -> Nat]] /\ done' \in [Executions -> SUBSET Nodes]
    BY <1>7
  <1> QED
    BY <1>10, <1>11, <1>14, <1>15, <1>16, <1>17, ActionWritten

LEMMA AdvanceKeeps ==
  ASSUME IInv, NEW w \in Workers, Advance(w)
  PROVE  IInv'
  <1>1. /\ pc[w] = "advance" /\ pc[w] \in WorkPCs \ {"read"} /\ pc[w] \notin Calling
        /\ UNCHANGED <<wait, pass, action, done, raced, operator, faults, requests>>
    BY DEF Advance, WorkPCs, Calling
  <1>2. PICK x \in Executions, n \in Nodes :
          /\ x = job[w].exec /\ n = job[w].node /\ state[x] # "ABSENT"
          /\ Works(w, x) /\ BehindDone(x, n) /\ job[w] \in Job
          /\ actState[x][n] \in ActStates /\ attempt[x][n] \in Nat
          /\ x \notin raced => /\ attempt[x][n] <= Bound
                               /\ actState[x][n] = "SUCCEEDED" \/ pc[w] \in Calling \/ attempt[x][n] < Bound
    BY <1>1, InHand
  <1>3. Kind[n] = "ACTION" => n \in done[x]
    BY <1>1, <1>2 DEF IInv, WalkInv, Walked
  <1>4. CASE NextNode(x, n) = None
    <2>1. Leave(w, "SUCCEEDED") /\ node' = [node EXCEPT ![job[w].exec] = None]
      BY <1>2, <1>4 DEF Advance
    <2>2. AllDone(job[w].exec)
      BY <1>2, <1>3, <1>4, BehindNext
    <2>3. wait' \in [Executions -> 0..Delay]
      BY <1>1 DEF IInv, TypeOK
    <2> QED
      BY <1>1, <2>1, <2>2, <2>3, LeaveKeeps
  <1>5. CASE NextNode(x, n) # None
    <2> USE DEF IInv, action, operator
    <2>1. PICK m \in Nodes : m = NextNode(x, n) /\ BehindDone(x, m)
      BY <1>2, <1>3, <1>5, NextNodeIsNode, BehindNext
    <2>2. PICK r \in Job : r = [job[w] EXCEPT !.node = m]
      BY <1>2 DEF Job
    <2>3. /\ r.exec = x /\ r.node = m
          /\ node' = [node EXCEPT ![x] = m] /\ job' = [job EXCEPT ![w] = r]
          /\ pc' = [pc EXCEPT ![w] = "loop"] /\ UNCHANGED <<state, lease>>
      BY <1>2, <1>5, <2>1, <2>2 DEF Advance, Goto, Job
    <2>4. /\ \A v \in Workers \ {w} : job'[v] = job[v] /\ pc'[v] = pc[v]
          /\ job'[w] = r /\ pc'[w] = "loop" /\ "loop" \in WorkPCs \ Calling
          /\ \A e \in Executions : node'[e] = IF e = x THEN m ELSE node[e]
      BY <2>3 DEF TypeOK, WorkPCs, Calling
    <2>5. \A v \in Workers, e \in Executions : Works(v, e)' <=> Works(v, e)
      BY <1>1, <1>2, <2>3, <2>4 DEF Works
    <2>6. \A e \in Executions : Held(e)' <=> Held(e)
      BY <2>5 DEF Held
    <2>7. TypeOK'
      <3>1. node' \in [Executions -> Nodes \cup {None}]
        BY <2>3 DEF TypeOK
      <3>2. pc' \in [Workers -> PCs] /\ job' \in [Workers -> Job]
        BY <2>3, <2>4, Records DEF TypeOK
      <3> QED
        BY <1>1, <2>3, <3>1, <3>2 DEF TypeOK
    <2>8. HasJob' /\ HasExec'
      <3>1. ASSUME NEW v \in Workers PROVE JobOK(pc[v], job[v])'
        BY <1>2, <2>3, <2>4 DEF HasJob, JobOK
      <3> QED
        BY <1>1, <2>3, <3>1 DEF HasJob, HasExec
    <2>9. WalkInv'
      <3>1. \A e, k : BehindDone(e, k)' <=> BehindDone(e, k)
        BY <1>1, WalkKept DEF BehindDone
      <3>2. \A e : AllDone(e)' <=> AllDone(e)
        BY <1>1, WalkKept DEF AllDone
      <3>3. ASSUME NEW v \in Workers PROVE Walked(pc[v], job[v])'
        BY <1>1, <2>1, <2>3, <2>4, <3>1 DEF WalkInv, Walked
      <3>4. \A e \in Executions : node'[e] # None => BehindDone(e, node'[e])
        BY <2>1, <2>4 DEF WalkInv
      <3> QED
        BY <1>1, <2>3, <3>1, <3>2, <3>3, <3>4 DEF WalkInv
    <2>10. OneWorker' /\ LeaseInv'
      BY <1>1, <2>3, <2>5, <2>6 DEF OneWorker, LeaseInv
    <2>11. RetryInv'
      BY <1>1, <2>3, <2>6 DEF RetryInv, Retrying
    <2>12. ReadInv'
      <3>1. ASSUME NEW v \in Workers PROVE Read(pc[v], job[v])'
        BY <1>1, <2>4 DEF ReadInv, Read
      <3> QED
        BY <3>1 DEF ReadInv
    <2>13. AttemptInv'
      <3>1. ASSUME NEW e \in Executions, NEW k \in Nodes, MayStart(e, k)'
            PROVE  MayStart(e, k)
        <4>1. ASSUME NEW v \in Workers, Works(v, e), pc[v] \in Calling
              PROVE  job[v].node # k
          BY <1>1, <2>4, <2>5, <3>1, <4>1 DEF MayStart
        <4> QED
          BY <1>1, <2>3, <2>6, <3>1, <4>1 DEF MayStart, Retrying
      <3> QED
        BY <1>1, <3>1 DEF AttemptInv, Bound
    <2> QED
      BY <2>7, <2>8, <2>9, <2>10, <2>11, <2>12, <2>13
  <1> QED
    BY <1>4, <1>5

LEMMA WaitForRetryKeeps ==
  ASSUME IInv, NEW w \in Workers, WaitForRetry(w)
  PROVE  IInv'
  <1>1. /\ pc[w] \in WorkPCs /\ pc[w] \notin Calling /\ Leave(w, "WAITING")
        /\ UNCHANGED <<node, pass, action, done, raced, operator, faults, requests>>
    BY DEF WaitForRetry, WorkPCs, Calling
  <1>2. wait' \in [Executions -> 0..Delay]
    <2>1. Delay \in 0..Delay
      BY ConstAssumption
    <2> QED
      BY <2>1 DEF WaitForRetry, IInv, TypeOK
  <1> QED
    BY <1>1, <1>2, LeaveKeeps

LEMMA FailExecutionKeeps ==
  ASSUME IInv, NEW w \in Workers, FailExecution(w)
  PROVE  IInv'
  <1>1. /\ pc[w] \in WorkPCs /\ Leave(w, "FAILED") /\ wait' \in [Executions -> 0..Delay]
        /\ UNCHANGED <<node, wait, pass, action, done, raced, operator, faults, requests>>
    BY DEF FailExecution, WorkPCs, IInv, TypeOK
  <1> QED
    BY <1>1, LeaveKeeps

LEMMA CrashKeeps ==
  ASSUME IInv, NEW w \in Workers, Crash(w)
  PROVE  IInv'
  <1>1. faults' \in Nat /\ faults' > faults /\ faults' >= faults
    BY DEF Crash, IInv, TypeOK
  <1> QED
    BY <1>1, ReleaseKeeps DEF Crash

-----------------------------------------------------------------------------
(* Operators.                                                              *)

\* An operator moves on to l with the execution y in hand, and no row changes.
LEMMA OperatorMoves ==
  ASSUME IInv, NEW o \in Operators, NEW l \in {"idle", "cancel", "retryList", "retryWrite"},
         NEW y \in Executions, state[y] # "ABSENT",
         opPc' = [opPc EXCEPT ![o] = l], opExec' = [opExec EXCEPT ![o] = y],
         opActs' \in [Operators -> SUBSET Nodes],
         \A p \in Operators : p # o => opActs'[p] = opActs[p],
         l = "retryWrite" => \A n \in opActs'[o] : actState[y][n] # "SUCCEEDED",
         raced \subseteq raced', raced' \subseteq Executions,
         l \in {"retryList", "retryWrite"} /\ y \notin raced' =>
           /\ state[y] \in {"FAILED", "CANCELLED"} /\ ~Held(y)
           /\ \A p \in Operators : Retrying(p, y) => p = o
           /\ Retrying(o, y) \/ requests' > requests,
         requests' \in Nat, requests' >= requests,
         UNCHANGED <<execution, action, done, pc, job, faults>>
  PROVE  IInv'
  <1> USE DEF IInv, execution, action
  <1>1. /\ \A p \in Operators \ {o} : opPc'[p] = opPc[p] /\ opExec'[p] = opExec[p]
        /\ opPc'[o] = l /\ opExec'[o] = y
    BY DEF TypeOK
  <1>2. TypeOK'
    BY DEF TypeOK
  <1>3. \A v \in Workers, e \in Executions : Works(v, e)' <=> Works(v, e)
    BY DEF Works
  <1>4. \A e \in Executions : Held(e)' <=> Held(e)
    BY <1>3 DEF Held
  <1>5. HasJob' /\ HasExec'
    BY <1>1 DEF HasJob, HasExec, JobOK
  <1>6. WalkInv'
    <2>1. \A e, n : BehindDone(e, n)' <=> BehindDone(e, n)
      BY WalkKept DEF BehindDone
    <2>2. \A e : AllDone(e)' <=> AllDone(e)
      BY WalkKept DEF AllDone
    <2> QED
      BY <2>1, <2>2 DEF WalkInv, Walked
  <1>7. OneWorker' /\ LeaseInv'
    BY <1>3, <1>4 DEF OneWorker, LeaseInv
  <1>8. \A p \in Operators, e \in Executions : Retrying(p, e)' <=>
          \/ p # o /\ Retrying(p, e)
          \/ p = o /\ e = y /\ l \in {"retryList", "retryWrite"}
    BY <1>1 DEF Retrying
  <1>9. RetryInv'
    <2> SUFFICES ASSUME NEW e \in Executions \ raced', NEW p \in Operators, Retrying(p, e)'
                 PROVE  /\ state[e] \in {"FAILED", "CANCELLED"} /\ ~Held(e)
                        /\ \A q \in Operators : Retrying(q, e)' => q = p
                        /\ opPc'[p] = "retryWrite" => \A n \in opActs'[p] : actState[e][n] # "SUCCEEDED"
      BY <1>4 DEF RetryInv
    <2>1. CASE p = o
      BY <1>1, <1>8, <2>1
    <2>2. CASE p # o
      <3>1. Retrying(p, e) /\ e \notin raced
        BY <1>8, <2>2
      <3>2. ~(e = y /\ l \in {"retryList", "retryWrite"})
        BY <2>2, <3>1
      <3>3. /\ state[e] \in {"FAILED", "CANCELLED"} /\ ~Held(e)
            /\ \A q \in Operators : Retrying(q, e) => q = p
            /\ opPc[p] = "retryWrite" => \A n \in opActs[p] : actState[e][n] # "SUCCEEDED"
        BY <3>1 DEF RetryInv
      <3> QED
        BY <1>1, <1>8, <2>2, <3>2, <3>3
    <2> QED
      BY <2>1, <2>2
  <1>10. ReadInv'
    BY DEF ReadInv, Read
  <1>11. AttemptInv'
    <2> SUFFICES ASSUME NEW e \in Executions \ raced', NEW n \in Nodes
                 PROVE  /\ attempt[e][n] <= Bound'
                        /\ MayStart(e, n)' => attempt[e][n] < Bound'
      BY DEF AttemptInv
    <2>1. /\ Bound \in Nat /\ Bound' \in Nat /\ Bound' >= Bound /\ attempt[e][n] \in Nat
          /\ requests' > requests => Bound' > Bound
      BY ConstAssumption DEF Bound, TypeOK
    <2>2. attempt[e][n] <= Bound /\ (MayStart(e, n) => attempt[e][n] < Bound)
      BY DEF AttemptInv
    <2>3. CASE requests' > requests
      BY <2>1, <2>2, <2>3
    <2>4. CASE ~(requests' > requests)
      <3>1. MayStart(e, n)' => MayStart(e, n)
        BY <1>3, <1>4, <1>8, <2>4 DEF MayStart
      <3> QED
        BY <2>1, <2>2, <3>1
    <2> QED
      BY <2>3, <2>4
  <1> QED
    BY <1>2, <1>5, <1>6, <1>7, <1>9, <1>10, <1>11

LEMMA CancelReadKeeps ==
  ASSUME IInv, NEW o \in Operators, NEW e \in Executions, CancelRead(o, e)
  PROVE  IInv'
  <1>1. /\ opPc' = [opPc EXCEPT ![o] = "cancel"] /\ opExec' = [opExec EXCEPT ![o] = e]
        /\ UNCHANGED <<execution, action, done, pc, job, faults>>
        /\ UNCHANGED opActs /\ UNCHANGED raced /\ state[e] # "ABSENT"
    BY DEF CancelRead, Request, OpGoto
  <1>2. requests' \in Nat /\ requests' >= requests /\ raced \subseteq raced' /\ raced' \subseteq Executions
        /\ opActs' \in [Operators -> SUBSET Nodes]
    BY <1>1 DEF CancelRead, Request, IInv, TypeOK
  <1> QED
    BY <1>1, <1>2, OperatorMoves

\* A failed execution is held by nobody, unless it raced; a second retry of it
\* is what makes it race.
LEMMA RetryReadKeeps ==
  ASSUME IInv, NEW o \in Operators, NEW e \in Executions, RetryRead(o, e)
  PROVE  IInv'
  <1>1. /\ opPc' = [opPc EXCEPT ![o] = "retryList"] /\ opExec' = [opExec EXCEPT ![o] = e]
        /\ UNCHANGED <<execution, action, done, pc, job, faults>>
        /\ UNCHANGED opActs /\ state[e] = "FAILED"
        /\ raced' = IF \E p \in Operators : Retrying(p, e) THEN raced \cup {e} ELSE raced
    BY DEF RetryRead, Request, OpGoto
  <1>2. requests' \in Nat /\ requests' > requests /\ requests' >= requests
        /\ raced \subseteq raced' /\ raced' \subseteq Executions /\ opActs' \in [Operators -> SUBSET Nodes]
    BY <1>1 DEF RetryRead, Request, IInv, TypeOK
  <1>3. e \notin raced' => ~Held(e) /\ \A p \in Operators : ~Retrying(p, e)
    BY <1>1 DEF IInv, LeaseInv
  <1> QED
    BY <1>1, <1>2, <1>3, OperatorMoves

LEMMA RetryListKeeps ==
  ASSUME IInv, NEW o \in Operators, RetryList(o)
  PROVE  IInv'
  <1>1. PICK y \in Executions : y = opExec[o] /\ state[y] # "ABSENT"
    BY DEF RetryList, IInv, HasExec
  <1>2. /\ opPc[o] = "retryList" /\ opPc' = [opPc EXCEPT ![o] = "retryWrite"]
        /\ opActs' = [opActs EXCEPT ![o] = {n \in Nodes : actState[y][n] \in {"FAILED", "RETRYABLE"}}]
        /\ UNCHANGED <<execution, action, done, raced, pc, job, opExec, faults, requests>>
    BY <1>1 DEF RetryList, OpGoto
  <1>3. opExec' = [opExec EXCEPT ![o] = y]
    BY <1>1, <1>2 DEF IInv, TypeOK
  <1>4. /\ opActs' \in [Operators -> SUBSET Nodes]
        /\ \A p \in Operators : p # o => opActs'[p] = opActs[p]
        /\ \A n \in opActs'[o] : actState[y][n] # "SUCCEEDED"
        /\ requests' \in Nat /\ requests' >= requests /\ raced' \subseteq Executions /\ raced \subseteq raced'
    BY <1>2 DEF IInv, TypeOK
  <1>5. Retrying(o, y) /\ (y \notin raced => /\ state[y] \in {"FAILED", "CANCELLED"} /\ ~Held(y)
                                             /\ \A p \in Operators : Retrying(p, y) => p = o)
    <2>1. Retrying(o, y)
      BY <1>1, <1>2 DEF Retrying
    <2> QED
      BY <2>1 DEF IInv, RetryInv
  <1>6. UNCHANGED <<execution, action, done, pc, job, faults>> /\ raced' = raced
    BY <1>2
  <1>7. opPc' = [opPc EXCEPT ![o] = "retryWrite"]
    BY <1>2
  <1> QED
    BY <1>1, <1>3, <1>4, <1>5, <1>6, <1>7, OperatorMoves

\* An operator that ends its request writes the state of the execution.
LEMMA OperatorWrites ==
  ASSUME IInv, NEW o \in Operators, NEW x \in Executions, x = opExec[o], opPc[o] # "idle",
         NEW s \in {"CANCELLED", "WAITING"},
         s = "WAITING" => Retrying(o, x),
         state' = [state EXCEPT ![x] = s], lease' = [lease EXCEPT ![x] = None],
         wait' \in [Executions -> 0..Delay], OpFinish(o),
         UNCHANGED <<node, pass, action, done, raced, pc, job, opActs, faults, requests>>
  PROVE  IInv'
  <1> USE DEF IInv, action
  <1>1. /\ \A p \in Operators \ {o} : opPc'[p] = opPc[p] /\ opExec'[p] = opExec[p]
        /\ opPc'[o] = "idle"
        /\ \A e \in Executions : state'[e] = IF e = x THEN s ELSE state[e]
        /\ \A e \in Executions : e # x => lease'[e] = lease[e]
    BY DEF OpFinish, OpGoto, TypeOK
  <1>2. TypeOK'
    <2>1. state' \in [Executions -> ExecStates] /\ lease' \in [Executions -> (0..Lease) \cup {None}]
      BY DEF TypeOK, ExecStates
    <2>2. /\ opPc' \in [Operators -> {"idle", "cancel", "retryList", "retryWrite"}]
          /\ opExec' \in [Operators -> Executions \cup {None}]
      BY DEF TypeOK, OpFinish, OpGoto
    <2> QED
      BY <2>1, <2>2 DEF TypeOK
  <1>3. \A v \in Workers, e \in Executions : Works(v, e)' <=> Works(v, e)
    BY DEF Works
  <1>4. \A e \in Executions : Held(e)' <=> Held(e)
    BY <1>3 DEF Held
  <1>5. HasJob' /\ HasExec'
    BY <1>1 DEF HasJob, HasExec, JobOK
  <1>6. WalkInv'
    <2>1. \A e, n : BehindDone(e, n)' <=> BehindDone(e, n)
      BY WalkKept DEF BehindDone
    <2>2. \A e : AllDone(e)' <=> AllDone(e)
      BY WalkKept DEF AllDone
    <2> QED
      BY <1>1, <2>1, <2>2 DEF WalkInv, Walked
  <1>7. OneWorker'
    BY <1>3 DEF OneWorker
  <1>8. s = "WAITING" /\ x \notin raced => ~Held(x) /\ \A p \in Operators : Retrying(p, x) => p = o
    BY DEF RetryInv
  <1>9. LeaseInv'
    BY <1>1, <1>4, <1>8 DEF LeaseInv
  <1>10. \A p \in Operators, e \in Executions : Retrying(p, e)' <=> p # o /\ Retrying(p, e)
    BY <1>1 DEF Retrying
  <1>11. RetryInv'
    <2> SUFFICES ASSUME NEW e \in Executions \ raced, NEW p \in Operators, Retrying(p, e)'
                 PROVE  /\ state'[e] \in {"FAILED", "CANCELLED"} /\ ~Held(e)
                        /\ \A q \in Operators : Retrying(q, e)' => q = p
                        /\ opPc'[p] = "retryWrite" => \A n \in opActs[p] : actState[e][n] # "SUCCEEDED"
      BY <1>4 DEF RetryInv
    <2>1. p # o /\ Retrying(p, e)
      BY <1>10
    <2>2. ~(e = x /\ s = "WAITING")
      BY <1>8, <2>1
    <2> QED
      BY <1>1, <1>10, <2>1, <2>2 DEF RetryInv
  <1>12. ReadInv'
    BY DEF ReadInv, Read
  <1>13. AttemptInv'
    <2>1. ASSUME NEW e \in Executions, NEW n \in Nodes, MayStart(e, n)'
          PROVE  MayStart(e, n)
      BY <1>1, <1>3, <1>4, <1>10, <2>1 DEF MayStart
    <2> QED
      BY <2>1 DEF AttemptInv, Bound
  <1> QED
    BY <1>2, <1>5, <1>6, <1>7, <1>9, <1>11, <1>12, <1>13

LEMMA CancelWriteKeeps ==
  ASSUME IInv, NEW o \in Operators, CancelWrite(o)
  PROVE  IInv'
  <1>1. PICK x \in Executions : x = opExec[o]
    BY DEF CancelWrite, IInv, HasExec
  <1>2. /\ opPc[o] # "idle" /\ wait' \in [Executions -> 0..Delay]
        /\ state' = [state EXCEPT ![x] = "CANCELLED"] /\ lease' = [lease EXCEPT ![x] = None]
        /\ OpFinish(o)
        /\ UNCHANGED <<node, pass, action, done, raced, pc, job, opActs, faults, requests>>
    BY <1>1 DEF CancelWrite, IInv, TypeOK
  <1> QED
    BY <1>1, <1>2, OperatorWrites

LEMMA RetryWriteKeeps ==
  ASSUME IInv, NEW o \in Operators, RetryWrite(o)
  PROVE  IInv'
  <1>1. PICK x \in Executions : x = opExec[o]
    BY DEF RetryWrite, IInv, HasExec
  <1>2. wait' \in [Executions -> 0..Delay]
    <2>1. 0 \in 0..Delay
      BY ConstAssumption
    <2> QED
      BY <2>1 DEF RetryWrite, IInv, TypeOK
  <1>3. /\ opPc[o] # "idle" /\ Retrying(o, x)
        /\ state' = [state EXCEPT ![x] = "WAITING"] /\ lease' = [lease EXCEPT ![x] = None]
        /\ OpFinish(o)
        /\ UNCHANGED <<node, pass, action, done, raced, pc, job, opActs, faults, requests>>
    BY <1>1 DEF RetryWrite, Retrying
  <1> QED
    BY <1>1, <1>2, <1>3, OperatorWrites

\* An action is reset that has not succeeded, unless the execution raced.
LEMMA RetryActionKeeps ==
  ASSUME IInv, NEW o \in Operators, RetryAction(o)
  PROVE  IInv'
  <1> USE DEF IInv, execution
  <1>1. PICK x \in Executions : x = opExec[o]
    BY DEF RetryAction, HasExec
  <1>2. /\ opPc[o] = "retryWrite"
        /\ UNCHANGED <<execution, attempt, done, raced, pc, job, opPc, opExec, faults, requests>>
    BY DEF RetryAction
  <1>3. PICK n \in opActs[o] :
          /\ actState' = [actState EXCEPT ![x][n] = "RETRYABLE"]
          /\ opActs' = [opActs EXCEPT ![o] = @ \ {n}]
    BY <1>1 DEF RetryAction
  <1>4. n \in Nodes
    BY DEF TypeOK
  <1>5. /\ actState' \in [Executions -> [Nodes -> ActStates]]
        /\ \A e \in Executions, m \in Nodes :
             actState'[e][m] = IF e = x /\ m = n THEN "RETRYABLE" ELSE actState[e][m]
        /\ opActs' \in [Operators -> SUBSET Nodes]
        /\ \A p \in Operators : opActs'[p] \subseteq opActs[p]
    BY <1>3, <1>4 DEF TypeOK, ActStates
  <1>6. x \notin raced => actState[x][n] # "SUCCEEDED"
    BY <1>1, <1>2, <1>3 DEF RetryInv, Retrying
  <1>7. \A v \in Workers, e \in Executions : Works(v, e)' <=> Works(v, e)
    BY <1>2 DEF Works
  <1>8. \A e \in Executions : Held(e)' <=> Held(e)
    BY <1>7 DEF Held
  <1>9. TypeOK'
    BY <1>2, <1>5 DEF TypeOK
  <1>10. HasJob' /\ HasExec'
    BY <1>2 DEF HasJob, HasExec, JobOK
  <1>11. WalkInv'
    <2>1. \A e, m : BehindDone(e, m)' <=> BehindDone(e, m)
      BY <1>2, WalkKept DEF BehindDone
    <2>2. \A e : AllDone(e)' <=> AllDone(e)
      BY <1>2, WalkKept DEF AllDone
    <2> QED
      BY <1>2, <1>5, <2>1, <2>2 DEF WalkInv, Walked
  <1>12. OneWorker' /\ LeaseInv'
    BY <1>2, <1>7, <1>8 DEF OneWorker, LeaseInv
  <1>13. RetryInv'
    <2>1. \A p \in Operators : opActs[p] \subseteq Nodes
      BY DEF TypeOK
    <2> QED
      BY <1>2, <1>5, <1>8, <2>1 DEF RetryInv, Retrying
  <1>14. ReadInv'
    <2>1. ASSUME NEW v \in Workers PROVE Read(pc[v], job[v])'
      <3>1. pc[v] \in {"create", "start", "handler", "record"} =>
              job[v].exec \in Executions /\ job[v].node \in Nodes
        BY DEF HasJob, JobOK, WorkPCs
      <3> QED
        BY <1>2, <1>5, <3>1 DEF ReadInv, Read
    <2> QED
      BY <2>1 DEF ReadInv
  <1>15. AttemptInv'
    <2>1. ASSUME NEW e \in Executions \ raced, NEW m \in Nodes, MayStart(e, m)'
          PROVE  MayStart(e, m)
      <3>1. actState[e][m] # "SUCCEEDED"
        BY <1>5, <1>6, <2>1 DEF MayStart
      <3> QED
        BY <1>2, <1>7, <1>8, <2>1, <3>1 DEF MayStart, Retrying
    <2> QED
      BY <1>2, <2>1 DEF AttemptInv, Bound
  <1> QED
    BY <1>9, <1>10, <1>11, <1>12, <1>13, <1>14, <1>15

-----------------------------------------------------------------------------
(* dispatch, and time.                                                     *)

\* Nobody has an execution in hand that is not there yet.
LEMMA DispatchKeeps ==
  ASSUME IInv, NEW x \in Executions, Dispatch(x)
  PROVE  IInv'
  <1> USE DEF IInv, action, operator
  <1>1. /\ state[x] = "ABSENT"
        /\ state' = [state EXCEPT ![x] = "PENDING"]
        /\ node' = [node EXCEPT ![x] = Entry]
        /\ UNCHANGED <<lease, wait, action, done, raced, pc, job, operator, faults, requests>>
    BY DEF Dispatch
  <1>2. PICK S \in SUBSET Nodes : pass' = [pass EXCEPT ![x] = S]
    BY DEF Dispatch
  <1>3. /\ \A e \in Executions \ {x} : state'[e] = state[e] /\ node'[e] = node[e] /\ pass'[e] = pass[e]
        /\ state'[x] = "PENDING" /\ node'[x] = Entry
    BY <1>1, <1>2 DEF TypeOK
  <1>4. TypeOK'
    <2>1. state' \in [Executions -> ExecStates] /\ node' \in [Executions -> Nodes \cup {None}]
      BY <1>1, GraphAssumption DEF TypeOK, ExecStates
    <2>2. pass' \in [Executions -> SUBSET Nodes]
      BY <1>2 DEF TypeOK
    <2> QED
      BY <1>1, <2>1, <2>2 DEF TypeOK
  <1>5. /\ \A v \in Workers : pc[v] \in WorkPCs \cup {"claim"} => job[v].exec \in Executions \ {x}
        /\ \A o \in Operators : opPc[o] # "idle" => opExec[o] \in Executions \ {x}
    BY <1>1 DEF HasJob, JobOK, HasExec
  <1>6. \A v \in Workers, e \in Executions : Works(v, e)' <=> Works(v, e)
    BY <1>1 DEF Works
  <1>7. \A e \in Executions : (Held(e)' <=> Held(e)) /\ (Held(e) => e # x)
    BY <1>5, <1>6 DEF Held, Works
  <1>8. \A o \in Operators, e \in Executions : (Retrying(o, e)' <=> Retrying(o, e)) /\ (Retrying(o, e) => e # x)
    BY <1>1, <1>5 DEF Retrying
  <1>9. HasJob' /\ HasExec'
    <2>1. ASSUME NEW v \in Workers PROVE JobOK(pc[v], job[v])'
      BY <1>1, <1>3 DEF HasJob, JobOK
    <2> QED
      BY <1>1, <1>3, <2>1 DEF HasJob, HasExec
  <1>10. WalkInv'
    <2>1. \A e \in Executions \ {x} : /\ \A n : BehindDone(e, n) => BehindDone(e, n)'
                                      /\ AllDone(e) => AllDone(e)'
      BY <1>1, <1>3, DoneGrows
    <2>2. BehindDone(x, Entry)'
      BY DEF BehindDone
    <2>3. ASSUME NEW v \in Workers PROVE Walked(pc[v], job[v])'
      BY <1>1, <1>5, <2>1 DEF WalkInv, Walked
    <2>4. \A e \in Executions : (node[e] # None => BehindDone(e, node[e]))'
      <3> SUFFICES ASSUME NEW e \in Executions, node'[e] # None
                   PROVE  BehindDone(e, node[e])'
        OBVIOUS
      <3>1. CASE e = x
        BY <1>3, <2>2, <3>1 DEF BehindDone
      <3>2. CASE e # x
        BY <1>3, <2>1, <3>2 DEF WalkInv
      <3> QED
        BY <3>1, <3>2
    <2> QED
      BY <1>1, <1>3, <2>1, <2>3, <2>4 DEF WalkInv
  <1>11. OneWorker' /\ LeaseInv'
    BY <1>1, <1>3, <1>6, <1>7 DEF OneWorker, LeaseInv
  <1>12. RetryInv'
    BY <1>1, <1>3, <1>7, <1>8 DEF RetryInv
  <1>13. ReadInv'
    BY <1>1 DEF ReadInv, Read
  <1>14. AttemptInv'
    <2>1. \A e \in Executions, n \in Nodes : MayStart(e, n)' => MayStart(e, n)
      BY <1>1, <1>3, <1>6, <1>7, <1>8 DEF MayStart
    <2> QED
      BY <1>1, <2>1 DEF AttemptInv, Bound
  <1> QED
    BY <1>4, <1>9, <1>10, <1>11, <1>12, <1>13, <1>14

\* Whoever is at work when its lease runs out has raced.
LEMMA TickKeeps ==
  ASSUME IInv, Tick
  PROVE  IInv'
  <1> USE DEF IInv, action, operator
  <1>1. /\ lease' = [e \in Executions |-> CountDown(lease[e])]
        /\ wait' = [e \in Executions |-> CountDown(wait[e])]
        /\ raced' = raced \cup Outlived
        /\ faults' \in Nat /\ faults' >= faults
        /\ UNCHANGED <<state, node, pass, action, done, pc, operator, requests>>
    BY DEF Tick, TypeOK
  <1>2. \A v \in Workers : /\ job'[v] \in Job /\ job'[v].exec = job[v].exec
                           /\ job'[v].found = job[v].found /\ job'[v].node = job[v].node
                           /\ job'[v].attempt = job[v].attempt /\ job'[v].outcome = job[v].outcome
    <2> SUFFICES ASSUME NEW v \in Workers
                 PROVE  /\ job'[v] \in Job /\ job'[v].exec = job[v].exec
                        /\ job'[v].found = job[v].found /\ job'[v].node = job[v].node
                        /\ job'[v].attempt = job[v].attempt /\ job'[v].outcome = job[v].outcome
      OBVIOUS
    <2>1. job[v] \in Job
      BY DEF TypeOK
    <2>2. \/ job'[v] = job[v]
          \/ job[v].lag < Lease /\ job'[v] = [job[v] EXCEPT !.lag = @ + 1]
      BY DEF Tick
    <2>3. job[v].lag < Lease => job[v].lag + 1 \in 0..Lease
      BY <2>1, ConstAssumption DEF Job
    <2> QED
      BY <2>1, <2>2, <2>3 DEF Job
  <1>3. /\ \A k \in (0..Lease) \cup {None} : CountDown(k) \in (0..Lease) \cup {None}
        /\ \A k \in 0..Delay : CountDown(k) \in 0..Delay
        /\ \A k \in 1..Lease : k # 1 => CountDown(k) \in 1..Lease
    BY ConstAssumption DEF CountDown
  <1>4. TypeOK'
    <2>1. lease' \in [Executions -> (0..Lease) \cup {None}] /\ wait' \in [Executions -> 0..Delay]
      BY <1>1, <1>3 DEF TypeOK
    <2>2. job' \in [Workers -> Job]
      BY <1>2 DEF Tick
    <2>3. raced' \in SUBSET Executions
      BY <1>1 DEF TypeOK, Outlived
    <2> QED
      BY <1>1, <2>1, <2>2, <2>3 DEF TypeOK
  <1>5. \A v \in Workers, e \in Executions : Works(v, e)' <=> Works(v, e)
    BY <1>1, <1>2 DEF Works
  <1>6. \A e \in Executions : Held(e)' <=> Held(e)
    BY <1>5 DEF Held
  <1>7. HasJob' /\ HasExec'
    BY <1>1, <1>2 DEF HasJob, HasExec, JobOK
  <1>8. WalkInv'
    <2>1. \A e, m : BehindDone(e, m)' <=> BehindDone(e, m)
      BY <1>1, WalkKept DEF BehindDone
    <2>2. \A e : AllDone(e)' <=> AllDone(e)
      BY <1>1, WalkKept DEF AllDone
    <2>3. ASSUME NEW v \in Workers PROVE Walked(pc[v], job[v])'
      BY <1>1, <1>2, <2>1 DEF WalkInv, Walked
    <2> QED
      BY <1>1, <2>1, <2>2, <2>3 DEF WalkInv
  <1>9. OneWorker'
    BY <1>1, <1>5 DEF OneWorker
  <1>10. LeaseInv'
    <2> SUFFICES ASSUME NEW e \in Executions \ raced', Held(e)
                 PROVE  \/ state[e] = "RUNNING" /\ lease'[e] \in 1..Lease
                        \/ state[e] = "CANCELLED"
      BY <1>1, <1>6 DEF LeaseInv
    <2>1. e \notin raced /\ lease[e] # 1
      BY <1>1 DEF Outlived
    <2> QED
      BY <1>1, <1>3, <2>1 DEF LeaseInv
  <1>11. RetryInv'
    BY <1>1, <1>6 DEF RetryInv, Retrying
  <1>12. ReadInv'
    BY <1>1, <1>2 DEF ReadInv, Read
  <1>13. AttemptInv'
    <2> SUFFICES ASSUME NEW e \in Executions \ raced', NEW n \in Nodes
                 PROVE  /\ attempt[e][n] <= Bound'
                        /\ MayStart(e, n)' => attempt[e][n] < Bound'
      BY <1>1 DEF AttemptInv
    <2>1. /\ Bound \in Nat /\ Bound' \in Nat /\ Bound' >= Bound /\ attempt[e][n] \in Nat
      BY <1>1, ConstAssumption DEF Bound, TypeOK
    <2>2. attempt[e][n] <= Bound /\ (MayStart(e, n) => attempt[e][n] < Bound)
      BY <1>1 DEF AttemptInv
    <2>3. MayStart(e, n)' => MayStart(e, n)
      BY <1>1, <1>2, <1>5, <1>6 DEF MayStart, Retrying
    <2> QED
      BY <2>1, <2>2, <2>3
  <1> QED
    BY <1>4, <1>7, <1>8, <1>9, <1>10, <1>11, <1>12, <1>13

-----------------------------------------------------------------------------
LEMMA Initial ==
  ASSUME Init
  PROVE  IInv
  <1> USE DEF Init
  <1>1. TypeOK
    BY Records, ConstAssumption DEF TypeOK, ExecStates, ActStates, PCs
  <1>2. HasJob /\ HasExec
    BY DEF HasJob, JobOK, HasExec, WorkPCs
  <1>3. WalkInv
    BY DEF WalkInv, Walked, WorkPCs
  <1>4. \A v \in Workers, e \in Executions : ~Works(v, e)
    BY DEF Works, WorkPCs
  <1>5. OneWorker /\ LeaseInv /\ ReadInv
    BY <1>4 DEF OneWorker, LeaseInv, Held, ReadInv, Read
  <1>6. RetryInv
    BY DEF RetryInv, Retrying
  <1>7. AttemptInv
    BY ConstAssumption DEF AttemptInv, Bound
  <1> QED
    BY <1>1, <1>2, <1>3, <1>5, <1>6, <1>7 DEF IInv

LEMMA StutterKeeps ==
  ASSUME IInv, UNCHANGED vars
  PROVE  IInv'
  <1> USE DEF IInv, vars, execution, action, operator
  <1>1. TypeOK' /\ HasJob' /\ HasExec'
    BY DEF TypeOK, HasJob, JobOK, HasExec
  <1>2. WalkInv'
    <2>1. \A e, m : BehindDone(e, m)' <=> BehindDone(e, m)
      BY WalkKept DEF BehindDone
    <2>2. \A e : AllDone(e)' <=> AllDone(e)
      BY WalkKept DEF AllDone
    <2> QED
      BY <2>1, <2>2 DEF WalkInv, Walked
  <1>3. OneWorker' /\ LeaseInv' /\ RetryInv' /\ ReadInv'
    BY DEF OneWorker, LeaseInv, RetryInv, Retrying, ReadInv, Read, Held, Works
  <1>4. AttemptInv'
    BY DEF AttemptInv, MayStart, Bound, Retrying, Held, Works
  <1> QED
    BY <1>1, <1>2, <1>3, <1>4

LEMMA StepKeeps ==
  ASSUME IInv, [Next]_vars
  PROVE  IInv'
  <1>1. ASSUME NEW e \in Executions, Dispatch(e)
        PROVE  IInv'
    BY <1>1, DispatchKeeps
  <1>2. ASSUME NEW w \in Workers, WorkerStep(w) \/ Crash(w)
        PROVE  IInv'
    BY <1>2, ReclaimExecutionsKeeps, ReclaimActionsKeeps, FindDueKeeps, ClaimKeeps,
       ReadExecutionKeeps, LoopKeeps, LoadActionKeeps, CreateActionKeeps,
       StartActionKeeps, RunHandlerKeeps, RecordResultKeeps, AdvanceKeeps,
       WaitForRetryKeeps, FailExecutionKeeps, CrashKeeps DEF WorkerStep
  <1>3. ASSUME NEW o \in Operators, OperatorStep(o)
        PROVE  IInv'
    BY <1>3, CancelWriteKeeps, RetryListKeeps, RetryActionKeeps, RetryWriteKeeps DEF OperatorStep
  <1>4. ASSUME NEW o \in Operators, NEW e \in Executions, CancelRead(o, e) \/ RetryRead(o, e)
        PROVE  IInv'
    BY <1>4, CancelReadKeeps, RetryReadKeeps
  <1>5. CASE Tick
    BY <1>5, TickKeeps
  <1>6. CASE UNCHANGED vars
    BY <1>6, StutterKeeps
  <1> QED
    BY <1>1, <1>2, <1>3, <1>4, <1>5, <1>6 DEF Next

THEOREM Inductive == Spec => []IInv
  BY Initial, StepKeeps, PTL DEF Spec

-----------------------------------------------------------------------------
\* The rows and the local variables have the types of the schema and the code
\* (automation_workflow_executions, automation_action_executions).
THEOREM TypesKept == Spec => []TypeOK
  BY Inductive, PTL DEF IInv

\* executeWorkflow writes SUCCEEDED only when the handler of every action on
\* the walk has succeeded, whatever crashed, raced or was retried meanwhile,
\* on any graph.
THEOREM SuccessIsWhole == Spec => []SucceededMeansDone
  <1>1. IInv => SucceededMeansDone
    BY DEF IInv, WalkInv, AllDone, SucceededMeansDone
  <1> QED
    BY <1>1, Inductive, PTL

\* claimDueExecution and reclaimExpired keep two workers off an execution that
\* did not race, and the handlers run in the order of the walk, always.
THEOREM HandlersTakeTurns == Spec => []HandlersInTurn
  <1>1. ASSUME IInv PROVE HandlersInTurn
    <2>1. HandlersInOrder
      <3> SUFFICES ASSUME NEW w \in Workers, pc[w] = "handler"
                   PROVE  BehindDone(job[w].exec, job[w].node)
        BY DEF HandlersInOrder, BehindDone
      <3> QED
        BY <1>1 DEF IInv, WalkInv, Walked, WorkPCs
    <2> QED
      BY <1>1, <2>1 DEF IInv, HandlersInTurn
  <1> QED
    BY <1>1, Inductive, PTL

\* decideRetry: beyond maxAttempts, every call of a handler is owed to a crash,
\* an outlived lease or an operator's request.
THEOREM AttemptsStayBounded == Spec => []AttemptsBounded
  <1>1. IInv => AttemptsBounded
    BY DEF IInv, AttemptInv, Bound, AttemptsBounded
  <1> QED
    BY <1>1, Inductive, PTL

\* The workers' steps that write the row of an action write that of the node
\* they are at, which has not succeeded unless the execution raced.
LEMMA SucceededActionKept ==
  ASSUME IInv, [Next]_vars, NEW e \in Executions \ raced', NEW n \in Nodes,
         actState[e][n] = "SUCCEEDED"
  PROVE  actState'[e][n] = "SUCCEEDED"
  <1>1. actState \in [Executions -> [Nodes -> ActStates]]
    BY DEF IInv, TypeOK
  <1>2. CASE actState' = actState
    BY <1>2
  <1>3. ASSUME NEW w \in Workers, ReclaimActions(w)
        PROVE  actState'[e][n] = "SUCCEEDED"
    BY <1>1, <1>3 DEF ReclaimActions
  <1>4. ASSUME NEW w \in Workers, CreateAction(w)
        PROVE  actState'[e][n] = "SUCCEEDED"
    BY <1>1, <1>4 DEF CreateAction
  <1>5. ASSUME NEW w \in Workers, StartAction(w) \/ RecordResult(w)
        PROVE  actState'[e][n] = "SUCCEEDED"
    <2>1. /\ pc[w] \in {"start", "record"} /\ raced' = raced
          /\ \E s : actState' = [actState EXCEPT ![job[w].exec][job[w].node] = s]
      BY <1>5 DEF StartAction, RecordResult
    <2>2. ~(job[w].exec = e /\ job[w].node = n)
      BY <2>1 DEF IInv, ReadInv, Read
    <2> QED
      BY <1>1, <2>1, <2>2
  <1>6. ASSUME NEW o \in Operators, RetryAction(o)
        PROVE  actState'[e][n] = "SUCCEEDED"
    <2>1. /\ opPc[o] = "retryWrite" /\ raced' = raced
          /\ \E m \in opActs[o] : actState' = [actState EXCEPT ![opExec[o]][m] = "RETRYABLE"]
      BY <1>6 DEF RetryAction
    <2>2. opExec[o] = e => n \notin opActs[o]
      BY <2>1 DEF IInv, RetryInv, Retrying
    <2> QED
      BY <1>1, <2>1, <2>2
  <1>7. ASSUME NEW w \in Workers, WorkerStep(w) \/ Crash(w),
               ~(ReclaimActions(w) \/ CreateAction(w) \/ StartAction(w) \/ RecordResult(w))
        PROVE  actState' = actState
    BY <1>7 DEF WorkerStep, Crash, ReclaimExecutions, FindDue, Claim, ReadExecution, Loop,
                CheckCancelled, LoadAction, RunHandler, Advance, WaitForRetry, FailExecution,
                action
  <1>8. ASSUME NEW o \in Operators, OperatorStep(o), ~RetryAction(o)
        PROVE  actState' = actState
    BY <1>8 DEF OperatorStep, CancelWrite, RetryList, RetryWrite, action
  <1>9. ASSUME \/ \E x \in Executions : Dispatch(x)
               \/ \E o \in Operators, x \in Executions : CancelRead(o, x) \/ RetryRead(o, x)
               \/ Tick \/ UNCHANGED vars
        PROVE  actState' = actState
    BY <1>9 DEF Dispatch, CancelRead, RetryRead, Request, Tick, vars, action
  <1> QED
    BY <1>2, <1>3, <1>4, <1>5, <1>6, <1>7, <1>8, <1>9 DEF Next

\* The row of an action that succeeded is never written again, so its handler
\* is never called again, unless the execution raced (runAction, retryExecution).
THEOREM SucceededActionsStick == Spec => SucceededActionSticks
  <1>1. IInv /\ [Next]_vars =>
          [\A e \in Executions \ raced' : \A n \in Nodes :
             actState[e][n] = "SUCCEEDED" => actState'[e][n] = "SUCCEEDED"]_vars
    BY SucceededActionKept
  <1> QED
    BY <1>1, Inductive, PTL DEF Spec, SucceededActionSticks

\* Of a cancelled execution nobody has in hand, every writer looks first.
LEMMA CancelledKept ==
  ASSUME IInv, [Next]_vars, NEW e \in Executions, state[e] = "CANCELLED", ~Held(e),
         \A o \in Operators : ~Retrying(o, e)
  PROVE  state'[e] = "CANCELLED"
  <1>1. state \in [Executions -> ExecStates]
    BY DEF IInv, TypeOK
  <1>2. ASSUME NEW w \in Workers, ReclaimExecutions(w)
        PROVE  state'[e] = "CANCELLED"
    BY <1>2 DEF ReclaimExecutions, Reclaimable
  <1>3. ASSUME NEW w \in Workers, Claim(w)
        PROVE  state'[e] = "CANCELLED"
    <2>1. pc[w] = "claim" /\ job[w].found \in {"PENDING", "WAITING"}
      BY <1>3 DEF Claim, IInv, HasJob, JobOK
    <2>2. state' = state \/ (job[w].exec # e /\ state' = [state EXCEPT ![job[w].exec] = "RUNNING"])
      BY <1>3, <2>1 DEF Claim, StillFound
    <2> QED
      BY <1>1, <2>2
  <1>4. ASSUME NEW w \in Workers, Advance(w) \/ WaitForRetry(w) \/ FailExecution(w)
        PROVE  state'[e] = "CANCELLED"
    <2>1. job[w].exec # e
      BY <1>4 DEF Advance, WaitForRetry, FailExecution, WorkPCs, Held, Works
    <2>2. state' = state \/ \E s : state' = [state EXCEPT ![job[w].exec] = s]
      BY <1>4 DEF Advance, WaitForRetry, FailExecution, Leave
    <2> QED
      BY <1>1, <2>1, <2>2
  <1>5. ASSUME NEW w \in Workers, WorkerStep(w) \/ Crash(w),
               ~(ReclaimExecutions(w) \/ Claim(w) \/ Advance(w) \/ WaitForRetry(w) \/ FailExecution(w))
        PROVE  state' = state
    BY <1>5 DEF WorkerStep, Crash, ReclaimActions, FindDue, ReadExecution, Loop, CheckCancelled,
                LoadAction, CreateAction, StartAction, RunHandler, RecordResult, execution
  <1>6. ASSUME NEW o \in Operators, OperatorStep(o)
        PROVE  state'[e] = "CANCELLED"
    <2>1. CASE CancelWrite(o)
      BY <1>1, <2>1 DEF CancelWrite
    <2>2. CASE RetryWrite(o)
      <3>1. opExec[o] # e /\ state' = [state EXCEPT ![opExec[o]] = "WAITING"]
        BY <2>2 DEF RetryWrite, Retrying
      <3> QED
        BY <1>1, <3>1
    <2>3. CASE ~(CancelWrite(o) \/ RetryWrite(o))
      BY <1>6, <2>3 DEF OperatorStep, RetryList, RetryAction, execution
    <2> QED
      BY <2>1, <2>2, <2>3
  <1>7. ASSUME NEW x \in Executions, Dispatch(x)
        PROVE  state'[e] = "CANCELLED"
    BY <1>1, <1>7 DEF Dispatch
  <1>8. ASSUME \/ \E o \in Operators, x \in Executions : CancelRead(o, x) \/ RetryRead(o, x)
               \/ Tick \/ UNCHANGED vars
        PROVE  state' = state
    BY <1>8 DEF CancelRead, RetryRead, Request, Tick, vars, execution
  <1> QED
    BY <1>2, <1>3, <1>4, <1>5, <1>6, <1>7, <1>8 DEF Next

\* cancelExecution is final once no worker and no retry has the execution in
\* hand: a claim that found it before the cancel loses the race.
THEOREM CancelledStays == Spec => CancelledRests
  <1>1. IInv /\ [Next]_vars =>
          [\A e \in Executions :
             /\ state[e] = "CANCELLED"
             /\ ~Held(e)
             /\ \A o \in Operators : ~Retrying(o, e)
             => state'[e] = "CANCELLED"]_vars
    BY CancelledKept
  <1> QED
    BY <1>1, Inductive, PTL DEF Spec, CancelledRests
=============================================================================
