------------------------------ MODULE TokenChain ------------------------------
(***************************************************************************)
(* What refresh-token rotation promises: a chain of one-time credentials.  *)
(* A chain is opened once; its current credential is exchanged for a fresh *)
(* one, at most once; a closed chain has no credential.                    *)
(***************************************************************************)
CONSTANTS Chains, Credentials
VARIABLES current,  \* the set of credentials of each chain that still work
          issued    \* every credential ever handed out

Init == current = [c \in Chains |-> {}] /\ issued = {}

\* A fresh credential becomes the only one of chain c.
Open(c) ==
  /\ current[c] = {}
  /\ \E n \in Credentials \ issued :
       /\ current' = [current EXCEPT ![c] = {n}]
       /\ issued' = issued \cup {n}

\* The current credential is spent and replaced by a fresh one.
Exchange(c) ==
  \E old \in Credentials : \E n \in Credentials \ issued :
    /\ current[c] = {old}
    /\ current' = [current EXCEPT ![c] = {n}]
    /\ issued' = issued \cup {n}

\* Some chains are closed together.
Close ==
  \E C \in SUBSET Chains :
    /\ current' = [c \in Chains |-> IF c \in C THEN {} ELSE current[c]]
    /\ UNCHANGED issued

Next == (\E c \in Chains : Open(c) \/ Exchange(c)) \/ Close

Spec == Init /\ [][Next]_<<current, issued>>
=============================================================================
