------------------------ MODULE AutomationExecution ------------------------
(***************************************************************************)
(* Durable execution of automation workflows (src/modules/automation).     *)
(*                                                                         *)
(* Every server process runs an AutomationScheduler (a worker).  A worker  *)
(* takes due executions from the database under a lease and walks each     *)
(* through the nodes of its workflow's graph; a lease that ran out is      *)
(* taken back by the next tick of any worker.  Operators cancel and retry  *)
(* executions over HTTP meanwhile.  No database transaction spans two      *)
(* statements here, so every statement is an action.                       *)
(*                                                                         *)
(* Deadlines are kept as the time left: Tick counts them down, and a       *)
(* deadline at 0 has passed.                                               *)
(***************************************************************************)
EXTENDS Naturals, Sequences, TLC

CONSTANTS
  Executions, Workers, Operators,
  Nodes, Entry, Kind, Edges,  \* the workflow version's graph
  None,                       \* SQL NULL
  Lease,                      \* automation.leaseMs
  Delay,                      \* decideRetry's delay, whatever the attempt
  MaxAttempts,                \* of an action
  Batch,                      \* automation.schedulerBatchSize
  MaxFaults,                  \* bound: crashes and overrun leases
  MaxRequests                 \* bound: operator requests

\* What WorkflowValidator guarantees of a graph, as far as it is used here.
ASSUME GraphAssumption ==
  /\ Entry \in Nodes
  /\ Kind \in [Nodes -> {"TRIGGER", "CONDITION", "ACTION"}]
  /\ Edges \in [Nodes -> Seq(Nodes)]
  /\ None \notin Nodes

ASSUME ConstAssumption ==
  /\ None \notin Nat /\ None \notin Executions
  /\ {Lease, Delay, MaxAttempts, Batch} \subseteq Nat \ {0}
  /\ {MaxFaults, MaxRequests} \subseteq Nat

VARIABLES
  state,      \* automation_workflow_executions.state, or "ABSENT"
  node,       \* current_node_id
  lease,      \* lease_until
  wait,       \* retry_at; 0: NULL or passed
  pass,       \* the condition nodes that hold in the context snapshot
  actState,   \* automation_action_executions.state, or "ABSENT"
  attempt,    \* its attempt
  done,       \* history: the actions whose handler has succeeded
  raced,      \* history: a live worker outlived its lease, or two retries of
              \* the execution were under way at once
  pc,
  job,        \* the local variables of each worker
  opPc,
  opExec,
  opActs,     \* the actions an operator's retry has still to reset
  faults,
  requests

execution == <<state, node, lease, wait, pass>>
action    == <<actState, attempt>>
operator  == <<opPc, opExec, opActs>>
vars      == <<execution, action, done, raced, pc, job, operator,
               faults, requests>>

ExecStates == {"ABSENT", "PENDING", "RUNNING", "WAITING",
               "SUCCEEDED", "FAILED", "CANCELLED"}
ActStates  == {"ABSENT", "PENDING", "RUNNING", "RETRYABLE",
               "SUCCEEDED", "FAILED"}
Outcomes   == {"success", "retryable", "permanent", "exception"}

\* Where a worker holds a claimed execution.
WorkPCs == {"read", "loop", "check", "load", "create", "start", "handler",
            "record", "advance", "waitExec", "failExec"}
PCs == {"idle", "reclaimActions", "find", "claim"} \cup WorkPCs

Job == [exec    : Executions \cup {None},
        found   : ExecStates,          \* candidate.state
        lag     : 0..Lease,            \* time since claimDueExecution's now
        node    : Nodes \cup {None},   \* current
        attempt : Nat,
        outcome : Outcomes,
        index   : 0..(Batch - 1)]      \* of the batch

NoJob == [exec |-> None, found |-> "ABSENT", lag |-> 0, node |-> None,
          attempt |-> 0, outcome |-> "success", index |-> 0]

Init ==
  /\ state = [e \in Executions |-> "ABSENT"]
  /\ node = [e \in Executions |-> None]
  /\ lease = [e \in Executions |-> None]
  /\ wait = [e \in Executions |-> 0]
  /\ pass = [e \in Executions |-> {}]
  /\ actState = [e \in Executions |-> [n \in Nodes |-> "ABSENT"]]
  /\ attempt = [e \in Executions |-> [n \in Nodes |-> 0]]
  /\ done = [e \in Executions |-> {}]
  /\ raced = {}
  /\ pc = [w \in Workers |-> "idle"]
  /\ job = [w \in Workers |-> NoJob]
  /\ opPc = [o \in Operators |-> "idle"]
  /\ opExec = [o \in Operators |-> None]
  /\ opActs = [o \in Operators |-> {}]
  /\ faults = 0
  /\ requests = 0

Goto(w, l) == pc' = [pc EXCEPT ![w] = l]

Works(w, e) == pc[w] \in WorkPCs /\ job[w].exec = e
Held(e)     == \E w \in Workers : Works(w, e)

Expired(e) == lease[e] = 0

\* The edge taken out of n: the second one only where a condition fails.
NextNode(e, n) ==
  CASE Len(Edges[n]) = 0 -> None
    [] Len(Edges[n]) = 1 -> Edges[n][1]
    [] OTHER -> IF Kind[n] = "CONDITION" /\ n \notin pass[e]
                THEN Edges[n][2] ELSE Edges[n][1]

\* Mutant: one attempt too many.
RetriesLeftOffByOne(k) == k <= MaxAttempts

\* decideRetry for a retryable failure.
RetriesLeft(k) == k < MaxAttempts

-----------------------------------------------------------------------------
(***************************************************************************)
(* dispatch: an event matches an active workflow version; the context of   *)
(* the execution, hence the value of its conditions, is fixed here.        *)
(***************************************************************************)
Dispatch(e) ==
  /\ state[e] = "ABSENT"
  /\ state' = [state EXCEPT ![e] = "PENDING"]
  /\ node' = [node EXCEPT ![e] = Entry]
  /\ \E S \in SUBSET {n \in Nodes : Kind[n] = "CONDITION"} :
       pass' = [pass EXCEPT ![e] = S]
  /\ UNCHANGED <<lease, wait, action, done, raced, pc, job, operator,
                 faults, requests>>

-----------------------------------------------------------------------------
(***************************************************************************)
(* AutomationScheduler.tick: reclaimExpired, then up to Batch executions.  *)
(***************************************************************************)

\* Mutant: looks for the wrong state.
ReclaimableWaiting(e) == state[e] = "WAITING" /\ Expired(e)

Reclaimable(e) == state[e] = "RUNNING" /\ Expired(e)

ReclaimExecutions(w) ==
  /\ pc[w] = "idle"
  /\ state' = [e \in Executions |-> IF Reclaimable(e) THEN "WAITING" ELSE state[e]]
  /\ lease' = [e \in Executions |-> IF Reclaimable(e) THEN None ELSE lease[e]]
  /\ Goto(w, "reclaimActions")
  /\ UNCHANGED <<node, wait, pass, action, done, raced, job, operator,
                 faults, requests>>

\* The second statement of reclaimExpired.  An action's lease is its node's
\* timeoutMs, any length: whichever running actions it finds expired.
ReclaimActions(w) ==
  /\ pc[w] = "reclaimActions"
  /\ \E S \in SUBSET {x \in Executions \X Nodes : actState[x[1]][x[2]] = "RUNNING"} :
       actState' = [e \in Executions |-> [n \in Nodes |->
                      IF <<e, n>> \in S THEN "RETRYABLE" ELSE actState[e][n]]]
  /\ Goto(w, "find")
  /\ UNCHANGED <<execution, attempt, done, raced, job, operator,
                 faults, requests>>

\* Mutant: one execution too many.
NextInBatchOffByOne(w) ==
  LET i == job[w].index + 1 IN
  IF i <= Batch
  THEN Goto(w, "find") /\ job' = [job EXCEPT ![w] = [NoJob EXCEPT !.index = i]]
  ELSE Goto(w, "idle") /\ job' = [job EXCEPT ![w] = NoJob]

\* The end of processDue: the next execution of the batch, or of the tick.
NextInBatch(w) ==
  LET i == job[w].index + 1 IN
  IF i < Batch
  THEN Goto(w, "find") /\ job' = [job EXCEPT ![w] = [NoJob EXCEPT !.index = i]]
  ELSE Goto(w, "idle") /\ job' = [job EXCEPT ![w] = NoJob]

\* processDue answers null or throws: the tick ends.
EndTick(w) ==
  /\ Goto(w, "idle")
  /\ job' = [job EXCEPT ![w] = NoJob]

Due(e) ==
  /\ state[e] \in {"PENDING", "WAITING"}
  /\ wait[e] = 0
  /\ lease[e] = None \/ Expired(e)

\* claimDueExecution, findFirst.
FindDue(w) ==
  /\ pc[w] = "find"
  /\ \/ \E e \in Executions :
          /\ Due(e)
          /\ job' = [job EXCEPT ![w] =
               [job[w] EXCEPT !.exec = e, !.found = state[e]]]
          /\ Goto(w, "claim")
     \/ /\ \A e \in Executions : ~Due(e)
        /\ EndTick(w)
  /\ UNCHANGED <<execution, action, done, raced, operator, faults, requests>>

\* Mutant: the UPDATE matches on the uuid alone.
StillFoundAlways(w) == TRUE

\* The WHERE of the conditional UPDATE.
StillFound(w) ==
  LET e == job[w].exec IN
  /\ state[e] = job[w].found
  /\ lease[e] = None \/ Expired(e)

\* claimDueExecution, updateMany: the lease counts from findFirst's now.
Claim(w) ==
  LET e == job[w].exec IN
  /\ pc[w] = "claim"
  /\ \/ /\ StillFound(w)
        /\ state' = [state EXCEPT ![e] = "RUNNING"]
        /\ lease' = [lease EXCEPT ![e] = Lease - job[w].lag]
        /\ raced' = IF job[w].lag = Lease THEN raced \cup {e} ELSE raced
        /\ Goto(w, "read")
        /\ UNCHANGED job
     \/ /\ ~StillFound(w)
        /\ EndTick(w)
        /\ UNCHANGED <<state, lease, raced>>
  /\ UNCHANGED <<node, wait, pass, action, done, operator, faults, requests>>

-----------------------------------------------------------------------------
(***************************************************************************)
(* executeWorkflow and runAction.  The graph is acyclic, so the loop check *)
(* of executeWorkflow never strikes and the version is never missing.      *)
(***************************************************************************)

\* findUnique after the claim; a NULL node starts at the entry.
ReadExecution(w) ==
  LET n == node[job[w].exec] IN
  /\ pc[w] = "read"
  /\ job' = [job EXCEPT ![w].node = IF n = None THEN Entry ELSE n]
  /\ Goto(w, "loop")
  /\ UNCHANGED <<execution, action, done, raced, operator, faults, requests>>

Cancelled(w) == state[job[w].exec] = "CANCELLED"

\* The head of the loop: re-reads the execution, then looks at the node.
Loop(w) ==
  /\ pc[w] = "loop"
  /\ \/ Cancelled(w) /\ NextInBatch(w)
     \/ /\ ~Cancelled(w)
        /\ Goto(w, IF Kind[job[w].node] = "ACTION" THEN "check" ELSE "advance")
        /\ UNCHANGED job
  /\ UNCHANGED <<execution, action, done, raced, operator, faults, requests>>

\* runAction re-reads the execution once more.
CheckCancelled(w) ==
  /\ pc[w] = "check"
  /\ \/ Cancelled(w) /\ NextInBatch(w)
     \/ ~Cancelled(w) /\ Goto(w, "load") /\ UNCHANGED job
  /\ UNCHANGED <<execution, action, done, raced, operator, faults, requests>>

\* Mutant: an action that already succeeded runs again.
SkipActionNever(w) == FALSE

\* A SUCCEEDED action is not run again when the walk comes by once more.
SkipAction(w) == actState[job[w].exec][job[w].node] = "SUCCEEDED"

\* listActions.
LoadAction(w) ==
  LET e == job[w].exec
      n == job[w].node IN
  /\ pc[w] = "load"
  /\ Goto(w, CASE actState[e][n] = "ABSENT" -> "create"
               [] SkipAction(w) -> "advance"
               [] OTHER -> "start")
  /\ job' = [job EXCEPT ![w].attempt = attempt[e][n]]
  /\ UNCHANGED <<execution, action, done, raced, operator, faults, requests>>

\* createAction; (execution, node) is unique, a second insert throws.
CreateAction(w) ==
  LET e == job[w].exec
      n == job[w].node IN
  /\ pc[w] = "create"
  /\ \/ /\ actState[e][n] = "ABSENT"
        /\ actState' = [actState EXCEPT ![e][n] = "PENDING"]
        /\ Goto(w, "start")
        /\ UNCHANGED job
     \/ /\ actState[e][n] # "ABSENT"
        /\ EndTick(w)
        /\ UNCHANGED actState
  /\ UNCHANGED <<execution, attempt, done, raced, operator, faults, requests>>

\* Writes RUNNING and the attempt counted from what was read.
StartAction(w) ==
  LET e == job[w].exec
      n == job[w].node
      k == job[w].attempt + 1 IN
  /\ pc[w] = "start"
  /\ actState' = [actState EXCEPT ![e][n] = "RUNNING"]
  /\ attempt' = [attempt EXCEPT ![e][n] = k]
  /\ job' = [job EXCEPT ![w].attempt = k]
  /\ Goto(w, "handler")
  /\ UNCHANGED <<execution, done, raced, operator, faults, requests>>

\* handler.execute; only a success is known to have had its effect.
RunHandler(w) ==
  LET e == job[w].exec IN
  /\ pc[w] = "handler"
  /\ \E r \in Outcomes :
       /\ job' = [job EXCEPT ![w].outcome = r]
       /\ done' = IF r = "success"
                  THEN [done EXCEPT ![e] = @ \cup {job[w].node}] ELSE done
  /\ Goto(w, "record")
  /\ UNCHANGED <<execution, action, raced, operator, faults, requests>>

\* Mutant: the walk goes on after an exception with no attempts left.
AfterRecordIgnoreException(w) ==
  CASE job[w].outcome \in {"success", "exception"} -> "advance"
    [] job[w].outcome = "retryable" /\ RetriesLeft(job[w].attempt) -> "waitExec"
    [] OTHER -> "failExec"

AfterRecord(w) ==
  CASE job[w].outcome = "success" -> "advance"
    [] job[w].outcome \in {"retryable", "exception"}
         /\ RetriesLeft(job[w].attempt) -> "waitExec"
    [] OTHER -> "failExec"

\* The action row; an exception with no attempts left leaves it RUNNING.
Recorded(w) ==
  CASE AfterRecord(w) = "advance"  -> "SUCCEEDED"
    [] AfterRecord(w) = "waitExec" -> "RETRYABLE"
    [] job[w].outcome = "exception" -> actState[job[w].exec][job[w].node]
    [] OTHER -> "FAILED"

RecordResult(w) ==
  /\ pc[w] = "record"
  /\ actState' = [actState EXCEPT ![job[w].exec][job[w].node] = Recorded(w)]
  /\ Goto(w, AfterRecord(w))
  /\ UNCHANGED <<execution, attempt, done, raced, job, operator, faults, requests>>

\* updateExecution writes its fields whatever the row holds by now.
Leave(w, s) ==
  LET e == job[w].exec IN
  /\ state' = [state EXCEPT ![e] = s]
  /\ lease' = [lease EXCEPT ![e] = None]
  /\ NextInBatch(w)

Advance(w) ==
  LET e == job[w].exec
      n == NextNode(e, job[w].node) IN
  /\ pc[w] = "advance"
  /\ node' = [node EXCEPT ![e] = n]
  /\ \/ /\ n = None
        /\ Leave(w, "SUCCEEDED")
     \/ /\ n # None
        /\ job' = [job EXCEPT ![w].node = n]
        /\ Goto(w, "loop")
        /\ UNCHANGED <<state, lease>>
  /\ UNCHANGED <<wait, pass, action, done, raced, operator, faults, requests>>

WaitForRetry(w) ==
  /\ pc[w] = "waitExec"
  /\ Leave(w, "WAITING")
  /\ wait' = [wait EXCEPT ![job[w].exec] = Delay]
  /\ UNCHANGED <<node, pass, action, done, raced, operator, faults, requests>>

\* failExecution.
FailExecution(w) ==
  /\ pc[w] = "failExec"
  /\ Leave(w, "FAILED")
  /\ UNCHANGED <<node, wait, pass, action, done, raced, operator,
                 faults, requests>>

-----------------------------------------------------------------------------
(***************************************************************************)
(* Operators: each request reads the execution, checks its state and then  *)
(* writes without looking again.                                           *)
(***************************************************************************)
OpGoto(o, l) == opPc' = [opPc EXCEPT ![o] = l]

Request(o, e, from, l) ==
  /\ opPc[o] = "idle" /\ requests < MaxRequests
  /\ state[e] \in from
  /\ opExec' = [opExec EXCEPT ![o] = e]
  /\ requests' = requests + 1
  /\ OpGoto(o, l)
  /\ UNCHANGED <<execution, action, done, pc, job, opActs, faults>>

OpFinish(o) ==
  /\ OpGoto(o, "idle")
  /\ opExec' = [opExec EXCEPT ![o] = None]

CancelRead(o, e) ==
  /\ Request(o, e, {"PENDING", "RUNNING", "WAITING"}, "cancel")
  /\ UNCHANGED raced

CancelWrite(o) ==
  /\ opPc[o] = "cancel"
  /\ state' = [state EXCEPT ![opExec[o]] = "CANCELLED"]
  /\ lease' = [lease EXCEPT ![opExec[o]] = None]
  /\ OpFinish(o)
  /\ UNCHANGED <<node, wait, pass, action, done, raced, pc, job, opActs,
                 faults, requests>>

Retrying(o, e) == opExec[o] = e /\ opPc[o] \in {"retryList", "retryWrite"}

RetryRead(o, e) ==
  /\ Request(o, e, {"FAILED"}, "retryList")
  /\ raced' = IF \E x \in Operators : Retrying(x, e) THEN raced \cup {e} ELSE raced

RetryList(o) ==
  /\ opPc[o] = "retryList"
  /\ opActs' = [opActs EXCEPT ![o] =
       {n \in Nodes : actState[opExec[o]][n] \in {"FAILED", "RETRYABLE"}}]
  /\ OpGoto(o, "retryWrite")
  /\ UNCHANGED <<execution, action, done, raced, pc, job, opExec, faults, requests>>

RetryAction(o) ==
  LET e == opExec[o] IN
  /\ opPc[o] = "retryWrite"
  /\ \E n \in opActs[o] :
       /\ actState' = [actState EXCEPT ![e][n] = "RETRYABLE"]
       /\ opActs' = [opActs EXCEPT ![o] = @ \ {n}]
  /\ UNCHANGED <<execution, attempt, done, raced, pc, job, opPc, opExec, faults, requests>>

RetryWrite(o) ==
  LET e == opExec[o] IN
  /\ opPc[o] = "retryWrite" /\ opActs[o] = {}
  /\ state' = [state EXCEPT ![e] = "WAITING"]
  /\ wait' = [wait EXCEPT ![e] = 0]
  /\ lease' = [lease EXCEPT ![e] = None]
  /\ OpFinish(o)
  /\ UNCHANGED <<node, pass, action, done, raced, pc, job, opActs, faults, requests>>

-----------------------------------------------------------------------------
\* A process dies, or a query of the tick throws: the database keeps the
\* execution as it is, RUNNING under its lease.
Crash(w) ==
  /\ pc[w] # "idle"
  /\ faults < MaxFaults
  /\ faults' = faults + 1
  /\ EndTick(w)
  /\ UNCHANGED <<execution, action, done, raced, operator, requests>>

Outlived == {e \in Executions : lease[e] = 1 /\ Held(e)}
LateClaims == {w \in Workers : pc[w] = "claim" /\ job[w].lag = Lease - 1}

CountDown(k) == IF k = None \/ k = 0 THEN k ELSE k - 1

\* Time passes; a worker that is still at work when its lease runs out, or
\* slept between findFirst and updateMany for that long, is a fault.
Tick ==
  /\ \/ faults < MaxFaults
     \/ Outlived = {} /\ LateClaims = {}
  /\ faults' = IF Outlived = {} /\ LateClaims = {} THEN faults ELSE faults + 1
  /\ lease' = [e \in Executions |-> CountDown(lease[e])]
  /\ wait' = [e \in Executions |-> CountDown(wait[e])]
  /\ job' = [w \in Workers |->
       IF pc[w] = "claim" /\ job[w].lag < Lease
       THEN [job[w] EXCEPT !.lag = @ + 1] ELSE job[w]]
  /\ raced' = raced \cup Outlived
  /\ UNCHANGED <<state, node, pass, action, done, pc, operator, requests>>

WorkerStep(w) ==
  \/ ReclaimExecutions(w) \/ ReclaimActions(w) \/ FindDue(w) \/ Claim(w)
  \/ ReadExecution(w) \/ Loop(w) \/ CheckCancelled(w)
  \/ LoadAction(w) \/ CreateAction(w) \/ StartAction(w) \/ RunHandler(w)
  \/ RecordResult(w) \/ Advance(w) \/ WaitForRetry(w) \/ FailExecution(w)

OperatorStep(o) ==
  CancelWrite(o) \/ RetryList(o) \/ RetryAction(o) \/ RetryWrite(o)

Next ==
  \/ \E e \in Executions : Dispatch(e)
  \/ \E w \in Workers : WorkerStep(w) \/ Crash(w)
  \/ \E o \in Operators : OperatorStep(o)
  \/ \E o \in Operators, e \in Executions : CancelRead(o, e) \/ RetryRead(o, e)
  \/ Tick

Spec == Init /\ [][Next]_vars

\* Timers fire, queries answer and handlers return; crashes and overruns stop
\* with MaxFaults.  Nothing obliges an operator or an event to come.
FairSpec ==
  /\ Spec
  /\ \A w \in Workers : WF_vars(WorkerStep(w))
  /\ \A o \in Operators : WF_vars(OperatorStep(o))
  /\ WF_vars(Tick)

-----------------------------------------------------------------------------
(***************************************************************************)
(* Properties.                                                             *)
(***************************************************************************)

\* The rows and the local variables have the types of the schema and the code.
TypeOK ==
  /\ state \in [Executions -> ExecStates]
  /\ node \in [Executions -> Nodes \cup {None}]
  /\ lease \in [Executions -> (0..Lease) \cup {None}]
  /\ wait \in [Executions -> 0..Delay]
  /\ pass \in [Executions -> SUBSET Nodes]
  /\ actState \in [Executions -> [Nodes -> ActStates]]
  /\ attempt \in [Executions -> [Nodes -> Nat]]
  /\ done \in [Executions -> SUBSET Nodes]
  /\ raced \in SUBSET Executions
  /\ pc \in [Workers -> PCs]
  /\ job \in [Workers -> Job]
  /\ opPc \in [Operators -> {"idle", "cancel", "retryList", "retryWrite"}]
  /\ opExec \in [Operators -> Executions \cup {None}]
  /\ opActs \in [Operators -> SUBSET Nodes]
  /\ faults \in Nat /\ requests \in Nat

\* claimDueExecution and reclaimExpired are the only mutual exclusion: while
\* no lease was outlived and no two retries overlapped, an execution is worked
\* on by one worker at most, through crashes, reclaims, retries and cancels.
OneWorker ==
  \A e \in Executions \ raced : \A v, w \in Workers :
    Works(v, e) /\ Works(w, e) => v = w

\* The nodes visited from n on, as e's conditions determine: the least set
\* that holds n and is closed under NextNode.
WalkFrom(e, n) ==
  {m \in Nodes : \A S \in SUBSET Nodes :
     (n \in S /\ \A k \in S : NextNode(e, k) \in S \cup {None}) => m \in S}

\* executeWorkflow reports SUCCEEDED only when the handler of every action on
\* the walk has succeeded, whatever raced, crashed or was retried meanwhile.
SucceededMeansDone ==
  \A e \in Executions : state[e] = "SUCCEEDED" =>
    {n \in WalkFrom(e, Entry) : Kind[n] = "ACTION"} \subseteq done[e]

\* Actions take effect in the order of the walk: a handler runs only after
\* the handler of every earlier action of the walk has succeeded, also on a
\* walk that was reclaimed, retried or started over.
HandlersInOrder ==
  \A w \in Workers : pc[w] = "handler" =>
    \A n \in WalkFrom(job[w].exec, Entry) \ WalkFrom(job[w].exec, job[w].node) :
      Kind[n] = "ACTION" => n \in done[job[w].exec]

\* One worker at a time, and the handlers in the order of the walk.
HandlersInTurn == OneWorker /\ HandlersInOrder

\* The row of an action that succeeded is never written again (so its handler
\* is never called again), unless the execution was raced.
SucceededActionSticks ==
  [][\A e \in Executions \ raced' : \A n \in Nodes :
       actState[e][n] = "SUCCEEDED" => actState'[e][n] = "SUCCEEDED"]_vars

\* cancelExecution is final once no worker is at work on the execution and no
\* retry is under way: a claim that found the execution before the cancel
\* loses the race.
CancelledRests ==
  [][\A e \in Executions :
       /\ state[e] = "CANCELLED"
       /\ ~Held(e)
       /\ \A o \in Operators : ~Retrying(o, e)
       => state'[e] = "CANCELLED"]_vars

\* WorkflowExecutionAggregate.transition (domain/automation.types.ts) states the
\* lifecycle of an execution and throws on any other change of its state.
Lifecycle ==
  [ABSENT    |-> {"PENDING"},
   PENDING   |-> {"RUNNING", "CANCELLED"},
   RUNNING   |-> {"WAITING", "SUCCEEDED", "FAILED", "CANCELLED"},
   WAITING   |-> {"RUNNING", "FAILED", "CANCELLED"},
   SUCCEEDED |-> {},
   FAILED    |-> {"WAITING", "RUNNING"},
   CANCELLED |-> {}]

\* What that aggregate asserts, of the rows that the service writes without it.
LifecycleRespected ==
  [][\A e \in Executions :
       state'[e] # state[e] => state'[e] \in Lifecycle[state[e]]]_vars

\* decideRetry bounds the calls of a handler: beyond maxAttempts, every call
\* is owed to a crash, an outlived lease or an operator's request.
AttemptsBounded ==
  \A e \in Executions \ raced : \A n \in Nodes :
    attempt[e][n] <= MaxAttempts + faults + requests

\* reclaimExpired, claimDueExecution and decideRetry together: an execution
\* that was dispatched ends, although the worker that held it may have died.
EveryExecutionEnds ==
  \A e \in Executions :
    (state[e] # "ABSENT") ~> (state[e] \in {"SUCCEEDED", "FAILED", "CANCELLED"})

-----------------------------------------------------------------------------
(* For TLC: a small graph that branches on a condition and joins again, and *)
(* what is interchangeable in a small instance.                             *)

MCNodes == {"trigger", "condition", "notify", "assign"}
MCKind  == [n \in MCNodes |->
             CASE n = "trigger" -> "TRIGGER"
               [] n = "condition" -> "CONDITION"
               [] OTHER -> "ACTION"]
MCEdges == [n \in MCNodes |->
             CASE n = "trigger" -> <<"condition">>
               [] n = "condition" -> <<"notify", "assign">>
               [] n = "notify" -> <<"assign">>
               [] n = "assign" -> <<>>]

Symmetry == Permutations(Workers) \cup Permutations(Operators)
              \cup Permutations(Executions)
=============================================================================
