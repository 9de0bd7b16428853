------------------------------ MODULE Requests ------------------------------
(***************************************************************************)
(* What the models of the request handlers share: the requests in progress *)
(* and the time.  A request is a record with the operation (op), the point *)
(* it has reached where it has several (at), and what it has read.  The    *)
(* components of this kind share nothing else, so that a run may check     *)
(* several of them, one in each behaviour (focus).                         *)
(***************************************************************************)
EXTENDS Naturals, FiniteSets

CONSTANTS
  Procs,     \* concurrent requests
  None,      \* SQL NULL, a row that does not exist, a process without request
  MaxClock   \* bound: the clock stops here

ASSUME MaxClockAssumption == MaxClock \in Nat
ASSUME ProcsAssumption == IsFiniteSet(Procs)

VARIABLES
  req,
  clock,
  focus      \* the component that the behaviour is about

RequestsInit == req = [p \in Procs |-> None] /\ clock = 0

Start(p, r) == req[p] = None /\ req' = [req EXCEPT ![p] = r]
Running(p, op) == req[p] # None /\ req[p].op = op
At(p, l) == req[p] # None /\ req[p].at = l
Goto(p, l) == req' = [req EXCEPT ![p].at = l]
Done(p) == req' = [req EXCEPT ![p] = None]

Tick == clock < MaxClock /\ clock' = clock + 1 /\ UNCHANGED req
=============================================================================
