--------------------------- MODULE CircuitBreaker ---------------------------
(***************************************************************************)
(* SystemIntegrationReliabilityService.execute: calls of a provider with   *)
(* retries, behind a circuit breaker.  The state of the circuit is a row   *)
(* that all instances of the application share; the failures of the last   *)
(* window and the flag of a probe under way are in the memory of each      *)
(* instance.  Every write of the row is unconditional and made from what   *)
(* the attempt read when it began.  Statements may fail.                   *)
(***************************************************************************)
EXTENDS Requests, Sequences

CONSTANTS
  Instances,          \* running copies of the application
  CircuitThreshold,   \* failures of one window that open the circuit
  CircuitWindow,      \* how long a failure counts
  CircuitOpenFor,     \* how long an open circuit refuses
  CallAttempts,       \* policy.maxAttempts
  MaxCalls            \* bound: calls of the provider

\* A row of system_integration_runtimes, and the request of a call with what it has
\* read (runtime) and the time at which it failed.
CircuitRow == [state : {"CLOSED", "OPEN", "HALF_OPEN"}, nextRetryAt : {None} \cup Nat]
CallRequest ==
  [op : {"call"}, instance : Instances, attempt : Nat, started : Nat,
   at : {"runtime", "before", "half open", "operation", "success", "failure", "open", "keep",
         "again", "end"},
   runtime : CircuitRow \cup {None}, failedAt : Nat]

ASSUME CircuitAssumption ==
  /\ {CircuitThreshold, CallAttempts} \subseteq Nat \ {0}
  /\ {CircuitWindow, CircuitOpenFor} \subseteq Nat
  /\ None \notin CallRequest

VARIABLES
  circuit,   \* the row of system_integration_runtimes
  memory,    \* per instance: the failures in its window and the probe flag
  called,    \* calls of the provider so far
  tripped,   \* some instance has counted CircuitThreshold failures in a window
  leaked     \* instances whose probe flag was left behind by a failed attempt

circuitVars == <<circuit, memory, called, tripped, leaked>>

CircuitBreakerInit ==
  /\ circuit = [state |-> "CLOSED", nextRetryAt |-> None]
  /\ memory = [i \in Instances |-> [failures |-> <<>>, probe |-> FALSE]]
  /\ called = 0 /\ tripped = FALSE /\ leaked = {}

InWindow(failures) == SelectSeq(failures, LAMBDA at : clock - at <= CircuitWindow)

Execute(p) ==
  /\ \E i \in Instances :
       Start(p, [op |-> "call", at |-> "runtime", instance |-> i, attempt |-> 0,
                 started |-> clock, runtime |-> None, failedAt |-> 0])
  /\ UNCHANGED <<circuitVars, clock>>

\* runtimeFor: what the whole attempt goes by.
ReadRuntime(p) ==
  /\ Running(p, "call") /\ At(p, "runtime")
  /\ req' = [req EXCEPT ![p].at = "before", ![p].runtime = circuit]
  /\ UNCHANGED <<circuitVars, clock>>

\* beforeAttempt: an open circuit refuses until it is due, then one probe of each
\* instance half-opens it.  A refusal is thrown outside of the try.
BeforeAttempt(p) ==
  LET i   == req[p].instance
      at  == req[p].runtime.nextRetryAt
      due == ~(at # None /\ at > clock)
  IN  /\ Running(p, "call") /\ At(p, "before")
      /\ \/ req[p].runtime.state # "OPEN" /\ Goto(p, "operation") /\ UNCHANGED memory
         \/ /\ req[p].runtime.state = "OPEN" /\ (~due \/ memory[i].probe)
            /\ Done(p) /\ UNCHANGED memory
         \/ /\ req[p].runtime.state = "OPEN" /\ due /\ ~memory[i].probe
            /\ memory' = [memory EXCEPT ![i].probe = TRUE]
            /\ Goto(p, "half open")
      /\ UNCHANGED <<circuit, called, tripped, leaked, clock>>

\* The update of beforeAttempt.  Its failure, too, is thrown outside of the try,
\* whose finally would have lowered the flag.
HalfOpen(p) ==
  /\ Running(p, "call") /\ At(p, "half open")
  /\ \/ /\ circuit' = [state |-> "HALF_OPEN", nextRetryAt |-> clock + CircuitOpenFor]
        /\ Goto(p, "operation") /\ UNCHANGED leaked
     \/ leaked' = leaked \cup {req[p].instance} /\ Done(p) /\ UNCHANGED circuit
  /\ UNCHANGED <<memory, called, tripped, clock>>

\* The call of the provider with its timeout, unless the deadline has passed.
CallProvider(p) ==
  /\ Running(p, "call") /\ At(p, "operation")
  /\ \/ /\ clock > req[p].started /\ Done(p)
        /\ leaked' = IF req[p].runtime.state = "OPEN" THEN leaked \cup {req[p].instance}
                     ELSE leaked
        /\ UNCHANGED called
     \/ /\ called < MaxCalls /\ called' = called + 1
        /\ \E l \in {"success", "failure"} : Goto(p, l)
        /\ UNCHANGED leaked
  /\ UNCHANGED <<circuit, memory, tripped, clock>>

\* recordSuccess is within the try: if it fails, the attempt counts as failed.
RecordCallSuccess(p) ==
  LET i == req[p].instance
  IN  /\ Running(p, "call") /\ At(p, "success")
      /\ \/ /\ circuit' = [state |-> "CLOSED", nextRetryAt |-> None]
            /\ memory' = [memory EXCEPT ![i] = [failures |-> InWindow(@.failures), probe |-> FALSE]]
            /\ leaked' = leaked \ {i}
            /\ Done(p)
         \/ /\ memory' = [memory EXCEPT ![i].failures = InWindow(@)]
            /\ Goto(p, "failure") /\ UNCHANGED <<circuit, leaked>>
      /\ UNCHANGED <<called, tripped, clock>>

\* Mutant: one failure less opens the circuit.
OpensEarly(failures) == Len(failures) + 1 >= CircuitThreshold

Opens(failures) == Len(failures) >= CircuitThreshold

\* The catch: the failure joins the window of the instance.
CountFailure(p) ==
  LET i      == req[p].instance
      active == Append(InWindow(memory[i].failures), clock)
  IN  /\ Running(p, "call") /\ At(p, "failure")
      /\ memory' = [memory EXCEPT ![i].failures = active]
      /\ tripped' = (tripped \/ Len(active) >= CircuitThreshold)
      /\ req' = [req EXCEPT ![p].at = IF Opens(active) THEN "open" ELSE "keep",
                             ![p].failedAt = clock]
      /\ UNCHANGED <<circuit, called, leaked, clock>>

\* Its update: the row gets the state that the attempt read unless the circuit
\* opens.  The update may fail, which ends the call.
StoreFailure(p) ==
  /\ Running(p, "call") /\ req[p].at \in {"open", "keep"}
  /\ \/ \E retryable \in BOOLEAN :
          LET again == retryable /\ req[p].attempt + 1 < CallAttempts
          IN  /\ circuit' =
                   IF At(p, "open")
                   THEN [state |-> "OPEN", nextRetryAt |-> req[p].failedAt + CircuitOpenFor]
                   ELSE [state |-> req[p].runtime.state,
                         nextRetryAt |-> IF again THEN req[p].failedAt ELSE None]
              /\ Goto(p, IF again THEN "again" ELSE "end")
     \/ UNCHANGED circuit /\ Goto(p, "end")
  /\ UNCHANGED <<memory, called, tripped, leaked, clock>>

\* Mutant: only the attempt that goes on lowers the flag.
LowersFlagAgain(at) == at = "again"

LowersFlag(at) == at \in {"again", "end"}

\* The finally, after the wait for the next attempt: it lowers the flag whoever
\* raised it.
Finally(p) ==
  LET i == req[p].instance
  IN  /\ Running(p, "call") /\ req[p].at \in {"again", "end"}
      /\ memory' = [memory EXCEPT ![i].probe = @ /\ ~LowersFlag(req[p].at)]
      /\ leaked' = leaked \ {i}
      /\ IF At(p, "again")
         THEN req' = [req EXCEPT ![p].at = "runtime", ![p].attempt = @ + 1,
                                 ![p].runtime = None, ![p].failedAt = 0]
         ELSE Done(p)
      /\ UNCHANGED <<circuit, called, tripped, clock>>

\* An instance stops, and its memory with it.
RestartInstance(i) ==
  /\ memory' = [memory EXCEPT ![i] = [failures |-> <<>>, probe |-> FALSE]]
  /\ req' = [p \in Procs |->
               IF Running(p, "call") /\ req[p].instance = i THEN None ELSE req[p]]
  /\ leaked' = leaked \ {i}
  /\ UNCHANGED <<circuit, called, tripped, clock>>

CircuitBreakerNext ==
  \/ \E p \in Procs :
       \/ Execute(p) \/ ReadRuntime(p) \/ BeforeAttempt(p) \/ HalfOpen(p) \/ CallProvider(p)
       \/ RecordCallSuccess(p) \/ CountFailure(p) \/ StoreFailure(p) \/ Finally(p)
  \/ \E i \in Instances : RestartInstance(i)
  \/ Tick /\ UNCHANGED circuitVars

CircuitBreakerTypeOK ==
  /\ circuit.state \in {"CLOSED", "OPEN", "HALF_OPEN"}
  /\ circuit.nextRetryAt \in {None} \cup 0 .. MaxClock + CircuitOpenFor
  /\ \A i \in Instances : Len(memory[i].failures) <= MaxCalls

-----------------------------------------------------------------------------
\* The circuit leaves CLOSED only after CircuitThreshold failures in one window of
\* one instance, although every failure writes back a state read earlier
\* (system-integration-reliability.service.ts:139).
OpenedByFailures == circuit.state # "CLOSED" => tripped

\* A probe flag that nobody works under refuses every later probe of its instance.
\* It is left behind only when the update of beforeAttempt fails, or the deadline
\* passes during it (system-integration-reliability.service.ts:223).
ProbeFlagIsHeld ==
  \A i \in Instances : memory[i].probe =>
    \/ i \in leaked
    \/ \E p \in Procs : /\ Running(p, "call") /\ req[p].instance = i
                        /\ req[p].at \notin {"runtime", "before"}
=============================================================================
