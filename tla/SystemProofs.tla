---------------------------- MODULE SystemProofs ----------------------------
(***************************************************************************)
(* Proofs about the components that exchange data with other systems and   *)
(* keep the system's own tables, as MCPlatform composes them.  The         *)
(* invariant of each component is shown on the steps of the component      *)
(* alone; a behaviour of the composition is about one of them, and the     *)
(* others stay as they began.                                              *)
(***************************************************************************)
EXTENDS MCPlatform, FiniteSetTheorems, WellFoundedInduction, TLAPS

\* A non-empty set of naturals has a least element.
LEMMA Smallest ==
  ASSUME NEW T, T \subseteq Nat, T # {}
  PROVE  \E n \in T : \A m \in T : n <= m
<1>1. PICK n \in T : \A m \in T : <<m, n>> \notin OpToRel(<, Nat)
  BY NatLessThanWellFounded, WFMin
<1>2. \A m \in T : ~(m < n)
  BY <1>1 DEF OpToRel
<1> QED
  BY <1>2

(***************************************************************************)
(* Synchronisation.                                                        *)
(***************************************************************************)

\* A request that has an attempt of its own, and one that plans the next one.
AttemptRequest ==
  [op : {"sync", "worker"}, at : {"create", "reopen", "call", "cursor", "record"},
   of : Operations, attempt : Nat, answer : {None, "ok", "permanent", "transient"}]

SyncRequest ==
  AttemptRequest
    \cup [op : {"retry", "worker"}, at : {"schedule", "claim"}, of : Operations]

PagesBefore(o, pages) == \A c \in 0..MaxCursor : c < o => c \in pages

WasDone(o, taken, pages) == IF o = Push THEN taken ELSE o \in pages

\* Whoever deals with a pull has all pages before it behind them; the row of a
\* request that is past its creation exists, and its answer was given.
KnowsOperation(r, ops, taken, pages) ==
  /\ r.at # "create" => ops[r.of] \in OperationRow
  /\ r.of # Push => PagesBefore(r.of, pages)
  /\ r.at = "cursor" => r.of # Push /\ r.of \in pages
  /\ r.at = "record" /\ r.answer = "ok" => WasDone(r.of, taken, pages)

RowIsEarned(o, row, taken, pages, said) ==
  row # None =>
    /\ o # Push => PagesBefore(o, pages)
    /\ o \notin said /\ row.state = "SUCCEEDED" => WasDone(o, taken, pages)

\* The retries that are due: scheduled, and not claimed yet.
DueRetries == {o \in Operations : operation[o] # None /\ operation[o].state = "RETRY_SCHEDULED"}

SyncInv ==
  /\ req \in [Procs -> SyncRequest \cup {None}]
  /\ operation \in [Operations -> OperationRow \cup {None}]
  /\ cursor \in 0..MaxCursor + 1 /\ fetched \subseteq 0..MaxCursor
  /\ delivered \in BOOLEAN /\ byHand \subseteq Operations
  /\ PagesBefore(cursor, fetched)
  /\ \A p \in Procs : req[p] # None => KnowsOperation(req[p], operation, delivered, fetched)
  /\ \A o \in Operations : RowIsEarned(o, operation[o], delivered, fetched, byHand)
  /\ claims \in Nat /\ schedules \in Nat /\ claims + Cardinality(DueRetries) <= schedules

LEMMA OperationsFinite == MaxCursor \in Nat /\ IsFiniteSet(Operations)
<1>1. MaxCursor \in Nat
  BY IntegrationSyncAssumption
<1>2. IsFiniteSet(0..MaxCursor)
  BY <1>1, FS_Interval
<1>3. IsFiniteSet({Push})
  BY FS_Singleton
<1> QED
  BY <1>1, <1>2, <1>3, FS_Union DEF Operations

LEMMA SyncInitial ==
  ASSUME RequestsInit, IntegrationSyncInit
  PROVE  SyncInv
<1>1. DueRetries = {}
  BY DEF DueRetries, IntegrationSyncInit
<1>2. Cardinality(DueRetries) = 0
  BY <1>1, FS_EmptySet
<1>3. operation \in [Operations -> OperationRow \cup {None}] /\ req \in [Procs -> SyncRequest \cup {None}]
  BY DEF RequestsInit, IntegrationSyncInit
<1>4. cursor \in 0..MaxCursor + 1 /\ PagesBefore(cursor, fetched)
  BY OperationsFinite DEF IntegrationSyncInit, PagesBefore
<1>5. claims \in Nat /\ schedules \in Nat /\ claims + Cardinality(DueRetries) <= schedules
  BY <1>2 DEF IntegrationSyncInit
<1>6. \A p \in Procs : req[p] = None
  BY DEF RequestsInit
<1>7. \A o \in Operations : RowIsEarned(o, operation[o], delivered, fetched, byHand)
  BY DEF IntegrationSyncInit, RowIsEarned
<1>8. fetched \subseteq 0..MaxCursor /\ delivered \in BOOLEAN /\ byHand \subseteq Operations
  BY DEF IntegrationSyncInit
<1> QED
  BY <1>3, <1>4, <1>5, <1>6, <1>7, <1>8 DEF SyncInv

LEMMA SyncInvImplies ==
  ASSUME SyncInv
  PROVE  RetryClaimedOnce /\ NoPageSkipped /\ SucceededWasDone
<1>1. IsFiniteSet(DueRetries)
  BY OperationsFinite, FS_Subset DEF DueRetries
<1>2. Cardinality(DueRetries) \in Nat
  BY <1>1, FS_CardinalityType
<1>3. RetryClaimedOnce
  BY <1>2 DEF SyncInv, RetryClaimedOnce
<1>4. NoPageSkipped
  BY DEF SyncInv, PagesBefore, NoPageSkipped
<1>5. SucceededWasDone
  BY DEF SyncInv, RowIsEarned, WasDone, SucceededWasDone
<1> QED
  BY <1>3, <1>4, <1>5

\* A row that is written: a schedule is counted when it makes a retry due, and a claim
\* when it takes one that was.
LEMMA RowWrite ==
  ASSUME SyncInv, NEW o \in Operations, NEW row \in OperationRow,
         operation' = [operation EXCEPT ![o] = row],
         IF row.state = "RETRY_SCHEDULED" THEN schedules' = schedules + 1 /\ claims' = claims
         ELSE /\ schedules' = schedules
              /\ claims' = claims \/ (claims' = claims + 1 /\ o \in DueRetries)
  PROVE  /\ operation' \in [Operations -> OperationRow \cup {None}]
         /\ operation'[o] = row /\ \A u \in Operations : u # o => operation'[u] = operation[u]
         /\ claims' \in Nat /\ schedules' \in Nat /\ claims' + Cardinality(DueRetries') <= schedules'
<1>1. /\ operation' \in [Operations -> OperationRow \cup {None}]
      /\ operation'[o] = row /\ \A u \in Operations : u # o => operation'[u] = operation[u]
  BY DEF SyncInv
<1>2. IsFiniteSet(DueRetries) /\ Cardinality(DueRetries) \in Nat
  BY OperationsFinite, FS_Subset, FS_CardinalityType DEF DueRetries
<1>3. claims \in Nat /\ schedules \in Nat /\ claims + Cardinality(DueRetries) <= schedules
  BY DEF SyncInv
<1>4. CASE row.state = "RETRY_SCHEDULED"
  <2>1. DueRetries' = DueRetries \cup {o}
    BY <1>1, <1>4, IntegrationSyncAssumption DEF DueRetries
  <2>2. Cardinality(DueRetries') <= Cardinality(DueRetries) + 1 /\ Cardinality(DueRetries') \in Nat
    <3>1. /\ IsFiniteSet(DueRetries \cup {o})
          /\ Cardinality(DueRetries \cup {o}) = IF o \in DueRetries THEN Cardinality(DueRetries)
                                                ELSE Cardinality(DueRetries) + 1
      BY <1>2, FS_AddElement
    <3> QED
      BY <1>2, <2>1, <3>1, FS_CardinalityType
  <2>3. schedules' = schedules + 1 /\ claims' = claims
    BY <1>4
  <2>4. schedules' \in Nat /\ claims' \in Nat
    BY <1>3, <2>3
  <2>5. claims' + Cardinality(DueRetries') <= schedules'
    BY <1>2, <1>3, <2>2, <2>3
  <2> QED
    BY <1>1, <2>4, <2>5
<1>5. CASE row.state # "RETRY_SCHEDULED"
  <2>1. DueRetries' = DueRetries \ {o}
    BY <1>1, <1>5 DEF DueRetries
  <2>2. /\ Cardinality(DueRetries') \in Nat
        /\ Cardinality(DueRetries') = IF o \in DueRetries THEN Cardinality(DueRetries) - 1
                                      ELSE Cardinality(DueRetries)
    BY <1>2, <2>1, FS_RemoveElement, FS_CardinalityType
  <2> QED
    BY <1>1, <1>2, <1>3, <1>5, <2>2
<1> QED
  BY <1>4, <1>5

\* What is left to show of a step of one request.
LEMMA SyncStep ==
  ASSUME SyncInv, NEW p \in Procs, NEW r \in SyncRequest \cup {None},
         req' = [req EXCEPT ![p] = r], NEW o \in Operations,
         operation' \in [Operations -> OperationRow \cup {None}],
         \A u \in Operations : u # o => operation'[u] = operation[u],
         operation[o] \in OperationRow => operation'[o] \in OperationRow,
         operation' = operation \/ RowIsEarned(o, operation'[o], delivered', fetched', byHand'),
         r # None => KnowsOperation(r, operation', delivered', fetched'),
         cursor' \in 0..MaxCursor + 1, PagesBefore(cursor', fetched'),
         delivered' \in BOOLEAN, delivered => delivered',
         fetched' \subseteq 0..MaxCursor, fetched \subseteq fetched',
         byHand' \subseteq Operations, byHand \subseteq byHand',
         claims' \in Nat, schedules' \in Nat, claims' + Cardinality(DueRetries') <= schedules'
  PROVE  SyncInv'
<1>1. req' \in [Procs -> SyncRequest \cup {None}]
  BY DEF SyncInv
<1>2. ASSUME NEW q \in Procs, req'[q] # None
      PROVE  KnowsOperation(req'[q], operation', delivered', fetched')
  <2>1. CASE q = p
    BY <1>2, <2>1 DEF SyncInv
  <2>2. CASE q # p
    <3>1. req'[q] = req[q] /\ req[q] \in SyncRequest /\ KnowsOperation(req[q], operation, delivered, fetched)
      BY <1>2, <2>2 DEF SyncInv
    <3>2. PICK u \in Operations : u = req[q].of
      BY <3>1 DEF SyncRequest, AttemptRequest
    <3>3. operation[u] \in OperationRow => operation'[u] \in OperationRow
      BY <3>2
    <3> QED
      BY <3>1, <3>2, <3>3 DEF KnowsOperation, PagesBefore, WasDone
  <2> QED
    BY <2>1, <2>2
<1>3. ASSUME NEW u \in Operations
      PROVE  RowIsEarned(u, operation'[u], delivered', fetched', byHand')
  <2>1. CASE operation'[u] = operation[u]
    BY <2>1 DEF SyncInv, RowIsEarned, PagesBefore, WasDone
  <2>2. CASE u = o /\ operation' # operation
    BY <2>2
  <2> QED
    BY <2>1, <2>2
<1> QED
  BY <1>1, <1>2, <1>3 DEF SyncInv

\* A step of one request that leaves the ops alone.
LEMMA SyncReads ==
  ASSUME SyncInv, NEW p \in Procs, NEW r \in SyncRequest \cup {None},
         req' = [req EXCEPT ![p] = r], operation' = operation,
         r # None => KnowsOperation(r, operation, delivered', fetched'),
         cursor' \in 0..MaxCursor + 1, PagesBefore(cursor', fetched'),
         delivered' \in BOOLEAN, delivered => delivered',
         fetched' \subseteq 0..MaxCursor, fetched \subseteq fetched',
         UNCHANGED <<schedules, claims, byHand>>
  PROVE  SyncInv'
<1>1. PICK o \in Operations : TRUE
  BY DEF Operations
<1>2. claims' \in Nat /\ schedules' \in Nat /\ claims' + Cardinality(DueRetries') <= schedules'
  BY DEF SyncInv, DueRetries
<1>3. byHand' \subseteq Operations /\ byHand \subseteq byHand'
      /\ operation' \in [Operations -> OperationRow \cup {None}]
      /\ \A u \in Operations : operation'[u] = operation[u]
  BY DEF SyncInv
<1> QED
  BY <1>1, <1>2, <1>3, SyncStep

LEMMA ReadsKeep ==
  ASSUME SyncInv, NEW p \in Procs, NEW o \in Operations,
         SyncRead(p, o) \/ RetryRead(p, o) \/ ClaimRead(p, o)
  PROVE  SyncInv'
<1>0. /\ UNCHANGED <<operation, cursor, delivered, fetched, schedules, claims, byHand>>
      /\ cursor' \in 0..MaxCursor + 1 /\ PagesBefore(cursor', fetched') /\ delivered' \in BOOLEAN
      /\ fetched' \subseteq 0..MaxCursor
  <2>1. UNCHANGED <<operation, cursor, delivered, fetched, schedules, claims, byHand>>
    BY DEF SyncRead, RetryRead, ClaimRead, HistoryUnchanged
  <2> QED
    BY <2>1 DEF SyncInv, PagesBefore
<1>1. operation[o] # None => /\ operation[o] \in OperationRow /\ operation[o].attempt \in Nat
                             /\ o # Push => PagesBefore(o, fetched)
  BY DEF SyncInv, OperationRow, RowIsEarned
<1>2. CASE SyncRead(p, o)
  <2> DEFINE r == [op |-> "sync", at |-> IF operation[o] = None THEN "create" ELSE "reopen",
                   of |-> o, attempt |-> IF operation[o] = None THEN 1 ELSE operation[o].attempt + 1,
                   answer |-> None]
  <2>1. req' = [req EXCEPT ![p] = r] /\ (o # Push => o = cursor)
    BY <1>2 DEF SyncRead, Start
  <2>2. r \in SyncRequest
    <3>1. (IF operation[o] = None THEN 1 ELSE operation[o].attempt + 1) \in Nat
      BY <1>1
    <3>2. (IF operation[o] = None THEN "create" ELSE "reopen") \in {"create", "reopen"}
      OBVIOUS
    <3> QED
      BY <3>1, <3>2 DEF SyncRequest, AttemptRequest
  <2>3. /\ r.of = o /\ r.at = IF operation[o] = None THEN "create" ELSE "reopen"
    OBVIOUS
  <2> HIDE DEF r
  <2>4. KnowsOperation(r, operation, delivered', fetched')
    BY <1>0, <1>1, <2>1, <2>3 DEF KnowsOperation, SyncInv
  <2> QED
    BY <1>0, <2>1, <2>2, <2>4, SyncReads
<1>3. ASSUME NEW o2 \in {"retry", "worker"}, NEW l \in {"schedule", "claim"}, operation[o] # None,
             req' = [req EXCEPT ![p] = [op |-> o2, at |-> l, of |-> o]]
      PROVE  SyncInv'
  <2> DEFINE r == [op |-> o2, at |-> l, of |-> o]
  <2>1. r \in SyncRequest /\ r.of = o /\ r.at \in {"schedule", "claim"}
    BY DEF SyncRequest, AttemptRequest
  <2>2. req' = [req EXCEPT ![p] = r]
    BY <1>3
  <2> HIDE DEF r
  <2>3. KnowsOperation(r, operation, delivered', fetched')
    BY <1>0, <1>1, <1>3, <2>1 DEF KnowsOperation
  <2> QED
    BY <1>0, <2>1, <2>2, <2>3, SyncReads
<1> QED
  BY <1>2, <1>3 DEF RetryRead, ClaimRead, Start

\* A step that writes the row of its operation.
LEMMA SyncWrites ==
  ASSUME SyncInv, NEW p \in Procs, NEW r \in SyncRequest \cup {None},
         req' = [req EXCEPT ![p] = r], NEW o \in Operations, NEW row \in OperationRow,
         operation' = [operation EXCEPT ![o] = row],
         IF row.state = "RETRY_SCHEDULED" THEN schedules' = schedules + 1 /\ claims' = claims
         ELSE /\ schedules' = schedules
              /\ claims' = claims \/ (claims' = claims + 1 /\ o \in DueRetries),
         o # Push => PagesBefore(o, fetched),
         row.state = "SUCCEEDED" => o \in byHand' \/ WasDone(o, delivered, fetched),
         r # None => /\ r.of = o /\ r.at = "call",
         byHand' \subseteq Operations, byHand \subseteq byHand',
         UNCHANGED <<cursor, delivered, fetched>>
  PROVE  SyncInv'
<1>1. /\ operation' \in [Operations -> OperationRow \cup {None}]
      /\ operation'[o] = row /\ \A u \in Operations : u # o => operation'[u] = operation[u]
      /\ claims' \in Nat /\ schedules' \in Nat /\ claims' + Cardinality(DueRetries') <= schedules'
  BY RowWrite
<1>2. RowIsEarned(o, operation'[o], delivered', fetched', byHand')
  BY <1>1 DEF RowIsEarned
<1>3. r # None => KnowsOperation(r, operation', delivered', fetched')
  BY <1>1 DEF KnowsOperation
<1>4. cursor' \in 0..MaxCursor + 1 /\ PagesBefore(cursor', fetched') /\ delivered' \in BOOLEAN
      /\ fetched' \subseteq 0..MaxCursor
  BY DEF SyncInv
<1> QED
  BY <1>1, <1>2, <1>3, <1>4, SyncStep

LEMMA RequestsKeep ==
  ASSUME SyncInv, NEW p \in Procs,
         \/ ReserveOperation(p) \/ ReopenOperation(p) \/ ProviderAnswer(p) \/ SaveCursor(p)
         \/ RecordOutcome(p) \/ RetryWrite(p) \/ ClaimWrite(p) \/ SyncAbandon(p)
  PROVE  SyncInv'
<1>0. /\ cursor \in 0..MaxCursor + 1 /\ PagesBefore(cursor, fetched) /\ delivered \in BOOLEAN
      /\ fetched \subseteq 0..MaxCursor /\ byHand \subseteq Operations
      /\ req \in [Procs -> SyncRequest \cup {None}]
      /\ operation \in [Operations -> OperationRow \cup {None}]
      /\ req[p] # None => req[p] \in SyncRequest /\ KnowsOperation(req[p], operation, delivered, fetched)
  BY DEF SyncInv
<1>1. ASSUME req[p] # None, req[p].at \in {"create", "reopen", "call", "cursor", "record"}
      PROVE  /\ req[p].op \in {"sync", "worker"} /\ req[p].of \in Operations /\ req[p].attempt \in Nat
             /\ req[p].answer \in {None, "ok", "permanent", "transient"}
             /\ req[p] = [op |-> req[p].op, at |-> req[p].at, of |-> req[p].of,
                          attempt |-> req[p].attempt, answer |-> req[p].answer]
  BY <1>0, <1>1 DEF SyncRequest, AttemptRequest
<1>2. ASSUME req[p] # None
      PROVE  req[p].of \in Operations
  BY <1>0, <1>2 DEF SyncRequest, AttemptRequest
<1>3. ASSUME req[p] # None, req[p].at \in {"create", "reopen", "call", "cursor", "record"},
             NEW l \in {"call", "cursor", "record"}
      PROVE  /\ [req[p] EXCEPT !.at = l] \in SyncRequest
             /\ [req[p] EXCEPT !.at = l].of = req[p].of
             /\ [req[p] EXCEPT !.at = l].at = l
             /\ [req[p] EXCEPT !.at = l].answer = req[p].answer
  <2>1. req[p] \in AttemptRequest
    BY <1>0, <1>3 DEF SyncRequest
  <2>2. [req[p] EXCEPT !.at = l] \in AttemptRequest
    BY <1>3, <2>1 DEF AttemptRequest
  <2> QED
    BY <1>3, <2>1, <2>2 DEF SyncRequest, AttemptRequest
<1>4. CASE ReserveOperation(p)
  <2>1. /\ req[p] # None /\ req[p].at = "create"
        /\ UNCHANGED <<cursor, delivered, fetched, schedules, claims, byHand>>
    BY <1>4 DEF ReserveOperation, Running, At, HistoryUnchanged
  <2>2. PICK o \in Operations : o = req[p].of
    BY <1>2, <2>1
  <2>3. o # Push => PagesBefore(o, fetched)
    BY <1>0, <2>1, <2>2 DEF KnowsOperation
  <2>4. CASE /\ operation' = [operation EXCEPT ![o] = [state |-> "RUNNING", attempt |-> 1]]
             /\ Goto(p, "call")
    <3> DEFINE r == [req[p] EXCEPT !.at = "call"]
               row == [state |-> "RUNNING", attempt |-> 1]
    <3>1. r \in SyncRequest /\ r.of = o /\ r.at = "call"
      BY <1>1, <1>3, <2>1, <2>2
    <3>2. req' = [req EXCEPT ![p] = r]
      BY <2>4 DEF Goto
    <3>3. row \in OperationRow /\ row.state = "RUNNING"
      BY DEF OperationRow
    <3> HIDE DEF r, row
    <3>4. operation' = [operation EXCEPT ![o] = row]
      BY <2>4 DEF row
    <3> QED
      BY <1>0, <2>1, <2>3, <3>1, <3>2, <3>3, <3>4, SyncWrites
  <2>5. CASE Done(p) /\ UNCHANGED operation
    BY <1>0, <2>1, <2>5, SyncReads DEF Done
  <2>6. CASE /\ operation[o] # None /\ UNCHANGED operation
             /\ req' = [req EXCEPT ![p].at = "call", ![p].attempt = operation[o].attempt]
    <3>1. operation[o] \in OperationRow /\ operation[o].attempt \in Nat
      BY <1>0, <2>6 DEF OperationRow
    <3> DEFINE r == [req[p] EXCEPT !.at = "call", !.attempt = operation[o].attempt]
    <3>2. r \in SyncRequest /\ r.of = o /\ r.at = "call"
      <4>1. req[p] \in AttemptRequest
        BY <1>0, <2>1 DEF SyncRequest
      <4>2. r \in AttemptRequest
        BY <3>1, <4>1 DEF AttemptRequest
      <4> QED
        BY <2>2, <4>1, <4>2 DEF SyncRequest, AttemptRequest
    <3>3. req' = [req EXCEPT ![p] = r]
      BY <1>0, <2>6
    <3> HIDE DEF r
    <3>4. KnowsOperation(r, operation, delivered', fetched')
      BY <2>1, <2>3, <3>1, <3>2 DEF KnowsOperation
    <3> QED
      BY <1>0, <2>1, <2>6, <3>2, <3>3, <3>4, SyncReads
  <2> QED
    BY <1>4, <2>2, <2>4, <2>5, <2>6 DEF ReserveOperation, Raced
<1>5. CASE ReopenOperation(p)
  <2>1. /\ req[p] # None /\ req[p].at = "reopen"
        /\ UNCHANGED <<cursor, delivered, fetched, schedules, claims, byHand>>
    BY <1>5 DEF ReopenOperation, Running, At, HistoryUnchanged
  <2>2. PICK o \in Operations : o = req[p].of
    BY <1>2, <2>1
  <2>3. o # Push => PagesBefore(o, fetched)
    BY <1>0, <2>1, <2>2 DEF KnowsOperation
  <2> DEFINE r == [req[p] EXCEPT !.at = "call"]
             row == [state |-> "RUNNING", attempt |-> req[p].attempt]
  <2>4. r \in SyncRequest /\ r.of = o /\ r.at = "call"
    BY <1>1, <1>3, <2>1, <2>2
  <2>5. req' = [req EXCEPT ![p] = r]
    BY <1>5 DEF ReopenOperation, Goto
  <2>6. row \in OperationRow /\ row.state = "RUNNING"
    BY <1>1, <2>1 DEF OperationRow
  <2>7. operation' = [operation EXCEPT ![o] = row]
    BY <1>5, <2>2 DEF ReopenOperation
  <2> HIDE DEF r, row
  <2> QED
    BY <1>0, <2>1, <2>3, <2>4, <2>5, <2>6, <2>7, SyncWrites
<1>6. CASE ProviderAnswer(p)
  <2>1. /\ req[p] # None /\ req[p].at = "call"
        /\ UNCHANGED <<operation, cursor, schedules, claims, byHand>>
    BY <1>6 DEF ProviderAnswer, At
  <2>2. PICK o \in Operations : o = req[p].of
    BY <1>2, <2>1
  <2>3. PICK given \in {"ok", "permanent", "transient"} :
          /\ req' = [req EXCEPT ![p].answer = given,
                                ![p].at = IF given = "ok" /\ o # Push THEN "cursor" ELSE "record"]
          /\ delivered' = (delivered \/ (given = "ok" /\ o = Push))
          /\ fetched' = IF given = "ok" THEN fetched \cup ({o} \ {Push}) ELSE fetched
    BY <1>6, <2>2 DEF ProviderAnswer
  <2> DEFINE l == IF given = "ok" /\ o # Push THEN "cursor" ELSE "record"
             r == [req[p] EXCEPT !.answer = given, !.at = l]
  <2>4. l \in {"cursor", "record"}
    OBVIOUS
  <2>5. r \in SyncRequest /\ r.of = o /\ r.at = l /\ r.answer = given
    <3> HIDE DEF l
    <3>1. req[p] \in AttemptRequest
      BY <1>0, <2>1 DEF SyncRequest
    <3>2. r \in AttemptRequest
      BY <2>4, <3>1 DEF AttemptRequest
    <3> QED
      BY <2>2, <2>4, <3>1, <3>2 DEF SyncRequest, AttemptRequest
  <2>6. req' = [req EXCEPT ![p] = r]
    <3>1. req' = [req EXCEPT ![p].answer = given, ![p].at = l]
      BY <2>3
    <3> HIDE DEF l
    <3> QED
      BY <1>0, <3>1
  <2> HIDE DEF r
  <2>7. /\ delivered' \in BOOLEAN /\ (delivered => delivered')
        /\ fetched' \subseteq 0..MaxCursor /\ fetched \subseteq fetched'
    BY <1>0, <2>3 DEF Operations
  <2>8. given = "ok" => WasDone(o, delivered', fetched')
    BY <2>3 DEF WasDone
  <2>9. (o # Push => PagesBefore(o, fetched')) /\ PagesBefore(cursor', fetched') /\ operation[o] \in OperationRow
    BY <1>0, <2>1, <2>2, <2>7 DEF KnowsOperation, PagesBefore
  <2>10. KnowsOperation(r, operation, delivered', fetched')
    <3>1. l = "cursor" => o # Push /\ given = "ok"
      OBVIOUS
    <3> HIDE DEF l
    <3> QED
      BY <2>5, <2>8, <2>9, <3>1 DEF KnowsOperation, WasDone
  <2> QED
    BY <1>0, <2>1, <2>5, <2>6, <2>7, <2>9, <2>10, SyncReads
<1>7. CASE SaveCursor(p)
  <2>1. /\ req[p] # None /\ req[p].at = "cursor"
        /\ UNCHANGED <<operation, delivered, fetched, schedules, claims, byHand>>
        /\ cursor' \in {req[p].of + 1, 0}
    BY <1>7 DEF SaveCursor, At, HistoryUnchanged, NextCursor
  <2>2. PICK o \in Operations : o = req[p].of
    BY <1>2, <2>1
  <2>3. o # Push /\ o \in fetched /\ PagesBefore(o, fetched) /\ operation[o] \in OperationRow
    BY <1>0, <2>1, <2>2 DEF KnowsOperation
  <2>4. o \in 0..MaxCursor
    BY <2>3 DEF Operations
  <2>5. PagesBefore(o + 1, fetched) /\ PagesBefore(0, fetched)
    BY <2>3, <2>4, OperationsFinite DEF PagesBefore
  <2>6. cursor' \in 0..MaxCursor + 1 /\ PagesBefore(cursor', fetched')
    BY <2>1, <2>2, <2>4, <2>5, OperationsFinite
  <2> DEFINE r == [req[p] EXCEPT !.at = "record"]
  <2>7. r \in SyncRequest /\ r.of = o /\ r.at = "record"
    BY <1>1, <1>3, <2>1, <2>2
  <2>8. req' = [req EXCEPT ![p] = r]
    BY <1>7 DEF SaveCursor, Goto
  <2> HIDE DEF r
  <2>9. KnowsOperation(r, operation, delivered', fetched')
    BY <2>1, <2>3, <2>7 DEF KnowsOperation, WasDone
  <2> QED
    BY <1>0, <2>1, <2>6, <2>7, <2>8, <2>9, SyncReads
<1>8. CASE RecordOutcome(p)
  <2>1. /\ req[p] # None /\ req[p].at = "record"
        /\ UNCHANGED <<cursor, delivered, fetched, claims, byHand>>
        /\ req' = [req EXCEPT ![p] = None]
    BY <1>8 DEF RecordOutcome, At, Done
  <2>2. PICK o \in Operations : o = req[p].of
    BY <1>2, <2>1
  <2>3. operation[o] \in OperationRow /\ operation[o].attempt \in Nat /\ (o # Push => PagesBefore(o, fetched))
    BY <1>0, <2>1, <2>2 DEF KnowsOperation, OperationRow
  <2>4. PICK s \in {"SUCCEEDED", "RETRY_SCHEDULED", "FAILED"} : s = Recorded(p)
    BY DEF Recorded
  <2> DEFINE n == IF s = "SUCCEEDED" /\ req[p].op = "sync" THEN req[p].attempt ELSE operation[o].attempt
             row == [state |-> s, attempt |-> n]
  <2>5. n \in Nat
    BY <1>1, <2>1, <2>3
  <2>6. operation' = [operation EXCEPT ![o] = row]
    BY <1>8, <2>2, <2>4 DEF RecordOutcome
  <2>7. IF s = "RETRY_SCHEDULED" THEN schedules' = schedules + 1 ELSE schedules' = schedules
    BY <1>8, <2>4 DEF RecordOutcome
  <2>8. row \in OperationRow /\ row.state = s
    <3> HIDE DEF n
    <3> QED
      BY <2>5 DEF OperationRow
  <2>9. s = "SUCCEEDED" => WasDone(o, delivered, fetched)
    BY <1>0, <2>1, <2>2, <2>4 DEF Recorded, KnowsOperation
  <2> HIDE DEF row
  <2> QED
    BY <1>0, <2>1, <2>3, <2>6, <2>7, <2>8, <2>9, SyncWrites
<1>9. CASE RetryWrite(p)
  <2>1. /\ req[p] # None /\ req[p].op = "retry"
        /\ UNCHANGED <<cursor, delivered, fetched, claims, byHand>>
        /\ schedules' = schedules + 1 /\ req' = [req EXCEPT ![p] = None]
    BY <1>9 DEF RetryWrite, Running, Done
  <2>2. PICK o \in Operations : o = req[p].of
    BY <1>2, <2>1
  <2>3. operation[o] \in OperationRow /\ (o # Push => PagesBefore(o, fetched))
    BY <1>0, <2>1, <2>2 DEF KnowsOperation, SyncRequest, AttemptRequest
  <2> DEFINE row == [operation[o] EXCEPT !.state = "RETRY_SCHEDULED"]
  <2>4. row \in OperationRow /\ row.state = "RETRY_SCHEDULED"
    BY <2>3 DEF OperationRow
  <2>5. operation' = [operation EXCEPT ![o] = row]
    BY <1>9, <2>2 DEF RetryWrite
  <2> HIDE DEF row
  <2> QED
    BY <1>0, <2>1, <2>3, <2>4, <2>5, SyncWrites
<1>10. CASE ClaimWrite(p)
  <2>1. /\ req[p] # None /\ req[p].at = "claim"
        /\ UNCHANGED <<cursor, delivered, fetched, schedules, byHand>>
        /\ claims' = claims + 1
    BY <1>10 DEF ClaimWrite, Running, At
  <2>2. PICK o \in Operations : o = req[p].of
    BY <1>2, <2>1
  <2>3. /\ operation[o] \in OperationRow /\ operation[o].attempt \in Nat
        /\ o # Push => PagesBefore(o, fetched)
    BY <1>0, <2>1, <2>2 DEF KnowsOperation, OperationRow
  <2>4. o \in DueRetries
    BY <1>10, <2>2, <2>3, IntegrationSyncAssumption DEF ClaimWrite, Claimable, DueRetries
  <2> DEFINE row == [state |-> "RUNNING", attempt |-> operation[o].attempt + 1]
             r == [op |-> "worker", at |-> "call", of |-> o, attempt |-> operation[o].attempt + 1,
                   answer |-> None]
  <2>5. PICK n \in Nat : operation[o].attempt + 1 = n
    BY <2>3
  <2>6. row \in OperationRow /\ row.state = "RUNNING"
    BY <2>5 DEF OperationRow
  <2>7. r \in SyncRequest /\ r.of = o /\ r.at = "call"
    BY <2>5 DEF SyncRequest, AttemptRequest
  <2>8. operation' = [operation EXCEPT ![o] = row] /\ req' = [req EXCEPT ![p] = r]
    BY <1>10, <2>2 DEF ClaimWrite
  <2> HIDE DEF row, r
  <2> QED
    BY <1>0, <2>1, <2>3, <2>4, <2>6, <2>7, <2>8, SyncWrites
<1>11. CASE SyncAbandon(p)
  <2>1. /\ req' = [req EXCEPT ![p] = None]
        /\ UNCHANGED <<operation, cursor, delivered, fetched, schedules, claims, byHand>>
    BY <1>11 DEF SyncAbandon, Done, syncVars
  <2> QED
    BY <1>0, <2>1, SyncReads
<1> QED
  BY <1>4, <1>5, <1>6, <1>7, <1>8, <1>9, <1>10, <1>11

\* What an operator does by hand.
LEMMA OperatorKeeps ==
  ASSUME SyncInv, NEW o \in Operations,
         CompleteOperation(o) \/ \E b \in BOOLEAN : FailOperation(o, b)
  PROVE  SyncInv'
<1>1. operation[o] # None /\ req' = req /\ UNCHANGED <<cursor, delivered, fetched, claims>>
  BY DEF CompleteOperation, FailOperation
<1>2. operation[o] \in OperationRow /\ (o # Push => PagesBefore(o, fetched))
  BY <1>1 DEF SyncInv, RowIsEarned
<1>3. PICK s \in {"SUCCEEDED", "RETRY_SCHEDULED", "FAILED"} :
        /\ operation' = [operation EXCEPT ![o] = [operation[o] EXCEPT !.state = s]]
        /\ IF s = "RETRY_SCHEDULED" THEN schedules' = schedules + 1 ELSE schedules' = schedules
        /\ byHand' = IF s = "SUCCEEDED" THEN byHand \cup {o} ELSE byHand
  BY DEF CompleteOperation, FailOperation
<1> DEFINE row == [operation[o] EXCEPT !.state = s]
<1>4. row \in OperationRow /\ row.state = s
  BY <1>2 DEF OperationRow
<1>5. operation' = [operation EXCEPT ![o] = row]
  BY <1>3
<1> HIDE DEF row
<1>6. /\ operation' \in [Operations -> OperationRow \cup {None}]
      /\ operation'[o] = row /\ \A u \in Operations : u # o => operation'[u] = operation[u]
      /\ claims' \in Nat /\ schedules' \in Nat /\ claims' + Cardinality(DueRetries') <= schedules'
  BY <1>1, <1>2, <1>3, <1>4, <1>5, RowWrite
<1>7. byHand' \subseteq Operations /\ byHand \subseteq byHand' /\ (s = "SUCCEEDED" => o \in byHand')
  BY <1>3 DEF SyncInv
<1>8. RowIsEarned(o, operation'[o], delivered', fetched', byHand')
  BY <1>1, <1>2, <1>4, <1>6, <1>7 DEF RowIsEarned
<1>9. ASSUME NEW p \in Procs, req'[p] # None
      PROVE  KnowsOperation(req'[p], operation', delivered', fetched')
  <2>1. req[p] \in SyncRequest /\ KnowsOperation(req[p], operation, delivered, fetched)
    BY <1>1, <1>9 DEF SyncInv
  <2>2. PICK u \in Operations : u = req[p].of
    BY <2>1 DEF SyncRequest, AttemptRequest
  <2>3. operation[u] \in OperationRow => operation'[u] \in OperationRow
    BY <1>4, <1>6
  <2> QED
    BY <1>1, <2>1, <2>2, <2>3 DEF KnowsOperation
<1>10. ASSUME NEW u \in Operations
       PROVE  RowIsEarned(u, operation'[u], delivered', fetched', byHand')
  BY <1>1, <1>6, <1>7, <1>8 DEF SyncInv, RowIsEarned
<1> QED
  BY <1>1, <1>6, <1>7, <1>9, <1>10 DEF SyncInv

LEMMA SyncKeeps ==
  ASSUME SyncInv, IntegrationSyncNext
  PROVE  SyncInv'
BY ReadsKeep, RequestsKeep, OperatorKeeps DEF IntegrationSyncNext

-----------------------------------------------------------------------------
(***************************************************************************)
(* Callbacks.                                                              *)
(***************************************************************************)

CallbackRequest ==
  [op : {"enqueue"}, at : {"getByKey", "create", "queued", "failed"}]
    \cup [op : {"existing"}, at : {"update"}, found : {"PENDING", "RECEIVED", "PROCESSED"}]
    \cup [op : {"process"}, at : {"update", "reserve"}]
    \cup [op : {"emit"}, at : {"create"}]

\* What a request knows of the event holds as long as it runs: an event that was found
\* or made PROCESSED stays so, and the request that created the event is the only
\* one, and has not answered.
KnowsEvent(p) ==
  LET r == req[p]
  IN  /\ r.op = "existing" /\ r.found = "PROCESSED" => event = "PROCESSED"
      /\ r.at = "reserve" => event = "PROCESSED"
      /\ r.at = "queued" =>
           /\ event # None /\ Accepted = 0
           /\ \A q \in Procs : At(q, "queued") => q = p

CallbackInv ==
  /\ req \in [Procs -> CallbackRequest \cup {None}]
  /\ event \in {None, "PENDING", "RECEIVED", "PROCESSED"}
  /\ reserved \in {None, "PROCESSING", "PROCESSED", "FAILED"}
  /\ answers \in Nat \X Nat
  /\ \A p \in Procs : req[p] # None => KnowsEvent(p)
  /\ event = None => Accepted = 0
  /\ AcceptedOnce /\ DuplicateWasProcessed

LEMMA CallbackInitial ==
  ASSUME RequestsInit, InboundCallbacksInit
  PROVE  CallbackInv
BY CallbackAssumption DEF RequestsInit, InboundCallbacksInit, CallbackInv, AcceptedOnce,
   DuplicateWasProcessed, Accepted, Duplicates, KnowsEvent

\* A step that makes one request go on, and the event only from nothing or to PROCESSED.
LEMMA CallbackStep ==
  ASSUME CallbackInv, NEW p \in Procs, NEW r \in CallbackRequest \cup {None},
         req' = [req EXCEPT ![p] = r],
         event' = event \/ (event = None /\ event' \in {"PENDING", "RECEIVED"}) \/ event' = "PROCESSED",
         event' \in {None, "PENDING", "RECEIVED", "PROCESSED"},
         answers' = answers, reserved' = reserved \/ reserved' \in {"PROCESSING", "FAILED"},
         r # None => KnowsEvent(p)'
  PROVE  CallbackInv'
<1>1. req' \in [Procs -> CallbackRequest \cup {None}]
  BY DEF CallbackInv
<1>2. ASSUME NEW q \in Procs, req'[q] # None
      PROVE  KnowsEvent(q)'
  <2>1. CASE q = p
    BY <1>2, <2>1 DEF CallbackInv
  <2>2. CASE q # p
    <3>1. req'[q] = req[q] /\ KnowsEvent(q) /\ Accepted' = Accepted
      BY <1>2, <2>2 DEF CallbackInv, Accepted
    <3>2. /\ req[q].op = "existing" /\ req[q].found = "PROCESSED" => event' = "PROCESSED"
          /\ req[q].at = "reserve" => event' = "PROCESSED"
      BY <1>2, CallbackAssumption, <3>1 DEF KnowsEvent
    <3>3. ASSUME req[q].at = "queued"
          PROVE  event' # None /\ Accepted' = 0 /\ \A z \in Procs : At(z, "queued")' => z = q
      <4>1. event # None /\ Accepted = 0 /\ \A z \in Procs : At(z, "queued") => z = q
        BY <3>1, <3>3 DEF KnowsEvent
      <4>2. ~At(p, "queued")'
        BY <1>2, <2>2, <3>1, <3>3 DEF At, KnowsEvent, CallbackInv
      <4>3. \A z \in Procs : At(z, "queued")' => z = q
        BY <4>1, <4>2 DEF At, CallbackInv
      <4> QED
        BY CallbackAssumption, <3>1, <4>1, <4>3
    <3> QED
      BY <3>1, <3>2, <3>3 DEF KnowsEvent
  <2> QED
    BY <2>1, <2>2
<1>4. DuplicateWasProcessed'
  BY CallbackAssumption DEF CallbackInv, DuplicateWasProcessed, Duplicates
<1>5. AcceptedOnce' /\ (event' = None => Accepted' = 0)
  BY CallbackAssumption DEF CallbackInv, AcceptedOnce, Accepted
<1> QED
  BY <1>1, <1>2, CallbackAssumption, <1>4, <1>5 DEF CallbackInv

\* A step that answers without a change of the event.
LEMMA CallbackAnswers ==
  ASSUME CallbackInv, NEW p \in Procs,
         req' = req \/ req' = [req EXCEPT ![p] = None], event' = event,
         reserved' \in {None, "PROCESSING", "PROCESSED", "FAILED"},
         \/ answers' = answers
         \/ answers' = <<Accepted, Duplicates + 1>> /\ event = "PROCESSED"
         \/ answers' = <<Accepted + 1, Duplicates>> /\ At(p, "queued")
              /\ req[p].op = "enqueue" /\ req' = [req EXCEPT ![p] = None],
         reserved' = "PROCESSED" => event = "PROCESSED"
  PROVE  CallbackInv'
<1>1. req' \in [Procs -> CallbackRequest \cup {None}]
  BY DEF CallbackInv
<1>2. Accepted \in Nat /\ Duplicates \in Nat /\ answers = <<Accepted, Duplicates>>
  BY DEF CallbackInv, Accepted, Duplicates
<1>3. CASE answers' = answers
  <2>1. Accepted' = Accepted /\ Duplicates' = Duplicates
    BY <1>3 DEF Accepted, Duplicates
  <2>2. ASSUME NEW q \in Procs, req'[q] # None
        PROVE  KnowsEvent(q)'
    <3>1. req'[q] = req[q] /\ \A z \in Procs : req'[z] = req[z] \/ req'[z] = None
      BY <2>2 DEF CallbackInv
    <3>2. KnowsEvent(q)
      BY <2>2, <3>1 DEF CallbackInv
    <3> QED
      BY <2>1, <3>1, <3>2 DEF KnowsEvent, At
  <2> QED
    BY <1>1, <1>3, <2>1, <2>2 DEF CallbackInv, AcceptedOnce, DuplicateWasProcessed
<1>4. CASE answers' = <<Accepted, Duplicates + 1>> /\ event = "PROCESSED"
  <2>1. Accepted' = Accepted /\ Duplicates' = Duplicates + 1 /\ answers' \in Nat \X Nat
    BY <1>2, <1>4 DEF Accepted, Duplicates
  <2>2. ASSUME NEW q \in Procs, req'[q] # None
        PROVE  KnowsEvent(q)'
    <3>1. req'[q] = req[q] /\ \A z \in Procs : req'[z] = req[z] \/ req'[z] = None
      BY <2>2 DEF CallbackInv
    <3>2. KnowsEvent(q)
      BY <2>2, <3>1 DEF CallbackInv
    <3> QED
      BY <2>1, <3>1, <3>2 DEF KnowsEvent, At
  <2> QED
    BY <1>1, <1>4, <2>1, <2>2 DEF CallbackInv, AcceptedOnce, DuplicateWasProcessed
<1>5. CASE /\ answers' = <<Accepted + 1, Duplicates>> /\ At(p, "queued")
           /\ req[p].op = "enqueue" /\ req' = [req EXCEPT ![p] = None]
  <2>1. Accepted' = Accepted + 1 /\ Duplicates' = Duplicates /\ answers' \in Nat \X Nat
    BY <1>2, <1>5 DEF Accepted, Duplicates
  <2>2. KnowsEvent(p)
    BY <1>5 DEF CallbackInv, At
  <2>3. Accepted = 0 /\ event # None /\ \A q \in Procs : At(q, "queued") => q = p
    BY <1>5, <2>2 DEF KnowsEvent, At
  <2>4. ASSUME NEW q \in Procs, req'[q] # None
        PROVE  KnowsEvent(q)'
    <3>1. q # p /\ req'[q] = req[q]
      BY <2>4, <1>5 DEF CallbackInv
    <3>2. KnowsEvent(q) /\ ~At(q, "queued")
      BY <2>4, <2>3, <3>1 DEF CallbackInv
    <3> QED
      BY <2>1, <2>4, <3>1, <3>2 DEF KnowsEvent, At
  <2> QED
    BY <1>1, <1>5, <2>1, <2>3, <2>4 DEF CallbackInv, AcceptedOnce, DuplicateWasProcessed
<1> QED
  BY <1>3, <1>4, <1>5

LEMMA CallbackKeeps ==
  ASSUME CallbackInv, InboundCallbacksNext
  PROVE  CallbackInv'
<1>0. /\ \A p \in Procs : req[p] # None => req[p] \in CallbackRequest /\ KnowsEvent(p)
      /\ None \notin {"PENDING", "RECEIVED", "PROCESSED", "PROCESSING", "FAILED"}
  BY CallbackAssumption DEF CallbackInv
<1>1. ASSUME ProcessByHand
      PROVE  CallbackInv'
  <2>1. /\ event' = "PROCESSED" /\ req' = req /\ answers' = answers /\ reserved' = reserved
        /\ event # None /\ event' # None
    BY <1>0, <1>1 DEF ProcessByHand
  <2> QED
    BY <2>1 DEF CallbackInv, KnowsEvent, At, AcceptedOnce, DuplicateWasProcessed,
       Accepted, Duplicates
<1>2. ASSUME NEW p \in Procs, Reserve(p)
      PROVE  CallbackInv'
  <2>1. CASE reserved \in {None, "FAILED"} /\ UNCHANGED answers
             /\ Start(p, [op |-> "enqueue", at |-> "getByKey"])
    <3> DEFINE r == [op |-> "enqueue", at |-> "getByKey"]
    <3>1. req' = [req EXCEPT ![p] = r] /\ r \in CallbackRequest
      BY <2>1 DEF Start, CallbackRequest
    <3>2. KnowsEvent(p)'
      BY <3>1 DEF KnowsEvent, CallbackInv
    <3> HIDE DEF r
    <3> QED
      BY <1>2, <2>1, <3>1, <3>2, CallbackStep DEF Reserve, CallbackInv
  <2>2. CASE reserved = "PROCESSED" /\ Answer("DUPLICATE") /\ UNCHANGED req
    BY <1>0, <1>2, <2>2, CallbackAnswers DEF Reserve, Answer, CallbackInv, DuplicateWasProcessed
  <2>3. CASE reserved = "PROCESSING" /\ UNCHANGED <<answers, req>>
    BY <1>0, <1>2, <2>3, CallbackAnswers DEF Reserve
  <2> QED
    BY <1>2, <2>1, <2>2, <2>3 DEF Reserve
<1>3. ASSUME NEW p \in Procs, FindEvent(p)
      PROVE  CallbackInv'
  <2> DEFINE r == IF event = None THEN [req[p] EXCEPT !.at = "create"]
                  ELSE [op |-> "existing", at |-> "update", found |-> event]
  <2>1. req' = [req EXCEPT ![p] = r] /\ req[p] \in CallbackRequest /\ req[p].op = "enqueue"
    BY <1>0, <1>3 DEF FindEvent, CallbackInv, Running
  <2>2. r \in CallbackRequest
    BY <2>1 DEF CallbackRequest, CallbackInv
  <2>3. event' = event /\ answers' = answers /\ reserved' = reserved
    BY <1>3 DEF FindEvent, callbackVars
  <2>4. KnowsEvent(p)'
    BY <2>1, <2>3 DEF KnowsEvent, CallbackInv, CallbackRequest
  <2> HIDE DEF r
  <2> QED
    BY <2>1, <2>2, <2>3, <2>4, CallbackStep DEF CallbackInv
<1>4. ASSUME NEW p \in Procs, AnswerExisting(p)
      PROVE  CallbackInv'
  <2>1. /\ KnowsEvent(p) /\ req[p].op = "existing" /\ event' = event
        /\ req' = [req EXCEPT ![p] = None]
    BY <1>0, <1>4 DEF AnswerExisting, Running, Done
  <2>2. CASE req[p].found = "PROCESSED"
    BY <1>0, <1>4, <2>1, <2>2, CallbackAnswers DEF AnswerExisting, Answer, KnowsEvent, StatusOfEvent
  <2>3. CASE req[p].found # "PROCESSED"
    BY <1>0, <1>4, <2>1, <2>3, CallbackAnswers DEF AnswerExisting, Answer, StatusOfEvent
  <2> QED
    BY <2>2, <2>3
<1>5. ASSUME NEW p \in Procs, CreateEvent(p)
      PROVE  CallbackInv'
  <2>1. req[p] \in CallbackRequest /\ req[p].op = "enqueue"
    BY <1>0, <1>5 DEF CreateEvent, Running
  <2>2. CASE EventKeyFree /\ event' = "RECEIVED" /\ Goto(p, "queued")
    <3> DEFINE r == [req[p] EXCEPT !.at = "queued"]
    <3>1. req' = [req EXCEPT ![p] = r] /\ r \in CallbackRequest
      BY <2>1, <2>2 DEF Goto, CallbackRequest, CallbackInv
    <3>2. \A q \in Procs : ~At(q, "queued")
      <4> SUFFICES ASSUME NEW q \in Procs, At(q, "queued") PROVE FALSE
        OBVIOUS
      <4>1. req[q] \in CallbackRequest /\ KnowsEvent(q) /\ req[q].at = "queued"
        BY <1>0 DEF At
      <4>2. req[q].op = "enqueue"
        BY <4>1 DEF CallbackRequest
      <4> QED
        BY <2>2, <4>1, <4>2 DEF KnowsEvent, EventKeyFree
    <3>3. \A q \in Procs : At(q, "queued")' => q = p
      BY <3>1, <3>2 DEF At, CallbackInv
    <3>4. Accepted' = 0 /\ event' # None
      BY <1>0, <1>5, <2>2 DEF CallbackInv, EventKeyFree, CreateEvent, Accepted
    <3>5. KnowsEvent(p)'
      BY <2>1, <3>1, <3>3, <3>4 DEF KnowsEvent, CallbackInv
    <3> HIDE DEF r
    <3> QED
      BY <1>5, <2>2, <3>1, <3>5, CallbackStep DEF CreateEvent, EventKeyFree
  <2>3. CASE UNCHANGED event /\ Goto(p, "failed")
    <3> DEFINE r == [req[p] EXCEPT !.at = "failed"]
    <3>1. req' = [req EXCEPT ![p] = r] /\ r \in CallbackRequest
      BY <2>1, <2>3 DEF Goto, CallbackRequest, CallbackInv
    <3>2. KnowsEvent(p)'
      BY <2>1, <3>1 DEF KnowsEvent, CallbackInv
    <3> HIDE DEF r
    <3> QED
      BY <1>5, <2>3, <3>1, <3>2, CallbackStep DEF CreateEvent, CallbackInv
  <2> QED
    BY <1>5, <2>2, <2>3 DEF CreateEvent
<1>6. ASSUME NEW p \in Procs, AnswerQueued(p)
      PROVE  CallbackInv'
  BY <1>0, <1>6, CallbackAnswers DEF AnswerQueued, Answer, Done, Running
<1>7. ASSUME NEW p \in Procs, AnswerFailed(p)
      PROVE  CallbackInv'
  BY <1>0, <1>7, CallbackAnswers DEF AnswerFailed, Done
<1>8. ASSUME NEW p \in Procs, ProcessRead(p) \/ EmitRead(p)
      PROVE  CallbackInv'
  <2> DEFINE r == IF ProcessRead(p) THEN [op |-> "process", at |-> "update"]
                  ELSE [op |-> "emit", at |-> "create"]
  <2>1. req' = [req EXCEPT ![p] = r] /\ r \in CallbackRequest
    BY <1>8 DEF ProcessRead, EmitRead, Start, CallbackRequest
  <2>2. KnowsEvent(p)'
    BY <2>1 DEF KnowsEvent, CallbackInv
  <2>3. event' = event /\ answers' = answers /\ reserved' = reserved
    BY <1>8 DEF ProcessRead, EmitRead, callbackVars
  <2> HIDE DEF r
  <2> QED
    BY <2>1, <2>2, <2>3, CallbackStep DEF CallbackInv
<1>9. ASSUME NEW p \in Procs, ProcessWrite(p)
      PROVE  CallbackInv'
  <2> DEFINE r == [req[p] EXCEPT !.at = "reserve"]
  <2>1. req[p] \in CallbackRequest /\ req[p].op = "process"
    BY <1>0, <1>9 DEF ProcessWrite, Running
  <2>2. req' = [req EXCEPT ![p] = r] /\ r \in CallbackRequest
    BY <1>9, <2>1 DEF ProcessWrite, Goto, CallbackRequest, CallbackInv
  <2>3. KnowsEvent(p)'
    BY <1>9, <2>1, <2>2 DEF ProcessWrite, KnowsEvent, CallbackInv
  <2> HIDE DEF r
  <2> QED
    BY <1>9, <2>2, <2>3, CallbackStep DEF ProcessWrite
<1>10. ASSUME NEW p \in Procs, ProcessReserve(p)
       PROVE  CallbackInv'
  <2>1. event = "PROCESSED"
    BY <1>0, <1>10 DEF ProcessReserve, Running, At, KnowsEvent
  <2> QED
    BY <1>10, <2>1, CallbackAnswers DEF ProcessReserve, Done
<1>11. ASSUME NEW p \in Procs, EmitCreate(p)
       PROVE  CallbackInv'
  BY <1>11, CallbackStep DEF EmitCreate, Done, EventKeyFree, CallbackInv
<1>12. ASSUME NEW p \in Procs, CallbackAbandon(p)
       PROVE  CallbackInv'
  BY <1>12, CallbackStep DEF CallbackAbandon, Done, callbackVars, CallbackInv
<1> QED
  BY <1>1, <1>2, <1>3, <1>4, <1>5, <1>6, <1>7, <1>8, <1>9, <1>10, <1>11, <1>12
     DEF InboundCallbacksNext

-----------------------------------------------------------------------------
(***************************************************************************)
(* The lifecycle of an integration.                                        *)
(***************************************************************************)

ReconnectRequest ==
  [op : {"reconnect"}, key : ReconnectKeys,
   at : {"find", "create", "connecting", "provider", "succeeded", "failed", "SUCCEEDED", "FAILED"}]

LifecycleRequest ==
  [op : {"create integration"}, at : {"create"}]
    \cup [op : {"change integration"}, at : {"update"}, to : {"ACTIVE", "DISABLED", "REMOVED"}]
    \cup [op : {"probe"}, at : {"update"}]
    \cup ReconnectRequest

\* The request that has reserved its key.
HoldsKey(p) == Running(p, "reconnect") /\ req[p].at \notin {"find", "create"}

\* A key has one holder, which found it free; the provider is called by the holder
\* alone, and nothing is called a success before the provider confirmed it.
HoldersApart ==
  \A p \in Procs : HoldsKey(p) =>
    /\ reconnectOp[req[p].key] # None
    /\ \A q \in Procs : HoldsKey(q) /\ req[q].key = req[p].key => q = p
    /\ req[p].at \in {"connecting", "provider"} => reconnects[req[p].key] = 0
    /\ req[p].at \in {"succeeded", "SUCCEEDED"} => req[p].key \in verified

LifecycleInv ==
  /\ req \in [Procs -> LifecycleRequest \cup {None}]
  /\ reconnectOp \in [ReconnectKeys -> {None, "RUNNING", "SUCCEEDED", "FAILED"}]
  /\ reconnects \in [ReconnectKeys -> Nat]
  /\ \A k \in ReconnectKeys : reconnectOp[k] = None => reconnects[k] = 0
  /\ cutShort \in BOOLEAN /\ HoldersApart
  /\ ReconnectedOncePerKey /\ ConnectingIsHeld

LEMMA LifecycleInitial ==
  ASSUME RequestsInit, IntegrationLifecycleInit
  PROVE  LifecycleInv
<1>1. integration # "CONNECTING" /\ \A k \in ReconnectKeys : reconnectOp[k] # "SUCCEEDED"
  BY LifecycleAssumption DEF IntegrationLifecycleInit
<1>2. \A p \in Procs : ~HoldsKey(p)
  BY DEF RequestsInit, HoldsKey, Running
<1>3. HoldersApart /\ ConnectingIsHeld
  BY <1>1, <1>2 DEF HoldersApart, ConnectingIsHeld
<1>4. ReconnectedOncePerKey
  BY <1>1 DEF IntegrationLifecycleInit, ReconnectedOncePerKey
<1> QED
  BY <1>3, <1>4 DEF RequestsInit, IntegrationLifecycleInit, LifecycleInv

\* What a reconnect request looks like, and what becomes of it at its next point.
LEMMA ReconnectFields ==
  ASSUME LifecycleInv, NEW p \in Procs, Running(p, "reconnect"),
         NEW l \in {"create", "connecting", "provider", "succeeded", "failed", "SUCCEEDED", "FAILED"}
  PROVE  /\ req[p].key \in ReconnectKeys /\ req[p] \in ReconnectRequest
         /\ [req[p] EXCEPT !.at = l] \in ReconnectRequest
         /\ [req[p] EXCEPT !.at = l].at = l /\ [req[p] EXCEPT !.at = l].key = req[p].key
<1>1. req[p] \in ReconnectRequest
  BY DEF LifecycleInv, Running, LifecycleRequest, ReconnectRequest
<1> QED
  BY <1>1 DEF ReconnectRequest

\* A step of one request that leaves the keys alone and does not make it a holder.
LEMMA LifecycleStep ==
  ASSUME LifecycleInv, NEW p \in Procs, NEW r \in LifecycleRequest \cup {None},
         req' = [req EXCEPT ![p] = r],
         reconnectOp' = reconnectOp, reconnects' = reconnects, verified' = verified,
         cutShort' \in BOOLEAN,
         r # None /\ r.op = "reconnect" /\ r.at \notin {"find", "create"} =>
           /\ HoldsKey(p) /\ r.key = req[p].key
           /\ r.at \in {"connecting", "provider"} => req[p].at \in {"connecting", "provider"}
           /\ r.at \in {"succeeded", "SUCCEEDED"} => req[p].at \in {"succeeded", "SUCCEEDED"},
         ConnectingIsHeld'
  PROVE  LifecycleInv'
<1>1. req' \in [Procs -> LifecycleRequest \cup {None}]
  BY DEF LifecycleInv
<1>2. \A q \in Procs : HoldsKey(q)' => HoldsKey(q) /\ req'[q].key = req[q].key
  BY DEF HoldsKey, Running, LifecycleInv
<1>3. HoldersApart'
  <2> SUFFICES ASSUME NEW q \in Procs, HoldsKey(q)'
               PROVE  /\ reconnectOp'[req'[q].key] # None
                      /\ \A z \in Procs : HoldsKey(z)' /\ req'[z].key = req'[q].key => z = q
                      /\ req'[q].at \in {"connecting", "provider"} => reconnects'[req'[q].key] = 0
                      /\ req'[q].at \in {"succeeded", "SUCCEEDED"} => req'[q].key \in verified'
    BY DEF HoldersApart
  <2>1. HoldsKey(q) /\ req'[q].key = req[q].key
    BY <1>2
  <2>2. /\ req'[q].at \in {"connecting", "provider"} => req[q].at \in {"connecting", "provider"}
        /\ req'[q].at \in {"succeeded", "SUCCEEDED"} => req[q].at \in {"succeeded", "SUCCEEDED"}
    BY DEF HoldsKey, Running, LifecycleInv
  <2> QED
    BY <1>2, <2>1, <2>2 DEF LifecycleInv, HoldersApart
<1> QED
  BY <1>1, <1>3 DEF LifecycleInv, ReconnectedOncePerKey

\* Whoever may keep the integration CONNECTING goes on doing so.
LEMMA StillHeld ==
  ASSUME LifecycleInv, NEW p \in Procs, NEW r \in LifecycleRequest \cup {None},
         req' = [req EXCEPT ![p] = r], cutShort' = cutShort,
         \/ integration' = integration
         \/ integration' # "CONNECTING",
         ~(Running(p, "reconnect") /\ req[p].at \in {"provider", "succeeded", "failed"})
  PROVE  ConnectingIsHeld'
<1> SUFFICES ASSUME integration' = "CONNECTING", ~cutShort'
             PROVE  \E q \in Procs : Running(q, "reconnect")'
                                     /\ req'[q].at \in {"provider", "succeeded", "failed"}
  BY DEF ConnectingIsHeld
<1>1. PICK q \in Procs : Running(q, "reconnect") /\ req[q].at \in {"provider", "succeeded", "failed"}
  BY DEF LifecycleInv, ConnectingIsHeld
<1>2. q # p /\ req'[q] = req[q]
  BY <1>1 DEF LifecycleInv
<1> QED
  BY <1>1, <1>2 DEF Running

LEMMA LifecycleKeeps ==
  ASSUME LifecycleInv, IntegrationLifecycleNext
  PROVE  LifecycleInv'
<1> PICK p \in Procs :
      \/ CreateIntegrationRead(p) \/ CreateIntegration(p) \/ ChangeRead(p) \/ ChangeWrite(p)
      \/ ProbeRead(p) \/ ProbeWrite(p) \/ ReconnectRead(p) \/ ReconnectFind(p)
      \/ ReserveReconnect(p) \/ Connecting(p) \/ CallReconnect(p) \/ StoreOutcome(p)
      \/ CompleteReconnect(p) \/ StopIntegration(p)
  BY DEF IntegrationLifecycleNext
<1>0. req \in [Procs -> LifecycleRequest \cup {None}]
  BY DEF LifecycleInv
<1>1. ASSUME NEW r \in LifecycleRequest, Start(p, r), UNCHANGED lifecycleVars,
             r.op = "reconnect" => r.at = "find"
      PROVE  LifecycleInv'
  <2>1. /\ req' = [req EXCEPT ![p] = r] /\ req[p] = None /\ integration' = integration
        /\ cutShort' = cutShort /\ reconnectOp' = reconnectOp /\ reconnects' = reconnects
        /\ verified' = verified
    BY <1>1 DEF Start, lifecycleVars
  <2>2. ConnectingIsHeld'
    BY <2>1, StillHeld DEF Running
  <2> QED
    BY <1>1, <2>1, <2>2, LifecycleStep DEF LifecycleInv
<1>2. CASE CreateIntegrationRead(p) \/ ChangeRead(p) \/ ProbeRead(p) \/ ReconnectRead(p)
  <2>0. UNCHANGED lifecycleVars
    BY <1>2 DEF CreateIntegrationRead, ChangeRead, ProbeRead, ReconnectRead
  <2>1. CASE CreateIntegrationRead(p)
    <3> DEFINE r == [op |-> "create integration", at |-> "create"]
    <3>2. r \in LifecycleRequest /\ Start(p, r) /\ (r.op = "reconnect" => r.at = "find")
      BY <2>1 DEF CreateIntegrationRead, LifecycleRequest
    <3> HIDE DEF r
    <3> QED
      BY <1>1, <2>0, <3>2
  <2>2. CASE ChangeRead(p)
    <3>1. PICK to \in {"ACTIVE", "DISABLED", "REMOVED"} :
            Start(p, [op |-> "change integration", at |-> "update", to |-> to])
      BY <2>2 DEF ChangeRead
    <3> DEFINE r == [op |-> "change integration", at |-> "update", to |-> to]
    <3>2. r \in LifecycleRequest /\ Start(p, r) /\ (r.op = "reconnect" => r.at = "find")
      BY <3>1 DEF ChangeRead, LifecycleRequest
    <3> HIDE DEF r
    <3> QED
      BY <1>1, <2>0, <3>2
  <2>3. CASE ProbeRead(p)
    <3> DEFINE r == [op |-> "probe", at |-> "update"]
    <3>2. r \in LifecycleRequest /\ Start(p, r) /\ (r.op = "reconnect" => r.at = "find")
      BY <2>3 DEF ProbeRead, LifecycleRequest
    <3> HIDE DEF r
    <3> QED
      BY <1>1, <2>0, <3>2
  <2>4. CASE ReconnectRead(p)
    <3>1. PICK k \in ReconnectKeys :
            Start(p, [op |-> "reconnect", at |-> "find", key |-> k])
      BY <2>4 DEF ReconnectRead
    <3> DEFINE r == [op |-> "reconnect", at |-> "find", key |-> k]
    <3>2. r \in LifecycleRequest /\ Start(p, r) /\ (r.op = "reconnect" => r.at = "find")
      BY <3>1 DEF ReconnectRead, LifecycleRequest, ReconnectRequest
    <3> HIDE DEF r
    <3> QED
      BY <1>1, <2>0, <3>2
  <2> QED
    BY <1>2, <2>1, <2>2, <2>3, <2>4
<1>3. CASE CreateIntegration(p) \/ ChangeWrite(p) \/ ProbeWrite(p)
  <2>1. /\ req' = [req EXCEPT ![p] = None] /\ cutShort' = cutShort /\ reconnectOp' = reconnectOp
        /\ reconnects' = reconnects /\ verified' = verified /\ ~Running(p, "reconnect")
    BY <1>3 DEF CreateIntegration, ChangeWrite, ProbeWrite, Done, Running
  <2>2. integration' = integration \/ integration' # "CONNECTING"
    BY <1>0, <1>3 DEF CreateIntegration, ChangeWrite, ProbeWrite, Running, LifecycleRequest,
       ReconnectRequest
  <2>3. ConnectingIsHeld'
    BY <2>1, <2>2, StillHeld
  <2> QED
    BY <2>1, <2>3, LifecycleStep DEF LifecycleInv
<1>4. CASE ReconnectFind(p)
  <2> DEFINE r == IF reconnectOp[req[p].key] = None THEN [req[p] EXCEPT !.at = "create"] ELSE None
  <2>1. /\ req' = [req EXCEPT ![p] = r] /\ integration' = integration
        /\ cutShort' = cutShort /\ reconnectOp' = reconnectOp /\ reconnects' = reconnects
        /\ verified' = verified /\ Running(p, "reconnect") /\ req[p].at = "find"
    BY <1>0, <1>4 DEF ReconnectFind, lifecycleVars, Goto, Done, At
  <2>2. r # None => r \in ReconnectRequest /\ r.at = "create"
    BY <2>1, ReconnectFields
  <2> HIDE DEF r
  <2>3. r \in LifecycleRequest \cup {None}
    BY <2>1, <2>2, <1>0 DEF LifecycleRequest
  <2>4. ConnectingIsHeld'
    BY <2>1, <2>3, StillHeld
  <2> QED
    BY <2>1, <2>2, <2>3, <2>4, LifecycleStep DEF LifecycleInv
<1>5. CASE ReserveReconnect(p)
  <2> DEFINE k == req[p].key
  <2>0. /\ Running(p, "reconnect") /\ req[p].at = "create" /\ integration' = integration
        /\ cutShort' = cutShort /\ reconnects' = reconnects /\ verified' = verified
    BY <1>5 DEF ReserveReconnect, At
  <2>1. CASE Done(p) /\ UNCHANGED reconnectOp
    <3>1. req' = [req EXCEPT ![p] = None]
      BY <2>1 DEF Done
    <3>2. ConnectingIsHeld'
      BY <2>0, <3>1, StillHeld
    <3> QED
      BY <2>0, <2>1, <3>1, <3>2, LifecycleStep DEF LifecycleInv
  <2>2. CASE /\ ReconnectKeyFree(k) /\ reconnectOp' = [reconnectOp EXCEPT ![k] = "RUNNING"]
             /\ Goto(p, "connecting")
    <3> DEFINE r == [req[p] EXCEPT !.at = "connecting"]
    <3>2. /\ req' = [req EXCEPT ![p] = r] /\ r \in ReconnectRequest /\ r.at = "connecting"
          /\ r.key = k /\ r.op = "reconnect" /\ k \in ReconnectKeys
      <4>1. req' = [req EXCEPT ![p] = r]
        BY <2>2 DEF Goto
      <4>2. /\ r \in ReconnectRequest /\ r.at = "connecting"
            /\ r.key = k /\ r.op = "reconnect" /\ k \in ReconnectKeys
        BY <2>0, ReconnectFields DEF ReconnectRequest
      <4> QED
        BY <4>1, <4>2
    <3> HIDE DEF r
    <3>3. req' \in [Procs -> LifecycleRequest \cup {None}] /\ req'[p] = r
      BY <1>0, <3>2 DEF LifecycleRequest
    <3>4. \A q \in Procs : q # p => req'[q] = req[q]
      BY <1>0, <3>2
    <3>5. ConnectingIsHeld'
      BY <2>0, <3>2, <3>3, StillHeld DEF LifecycleRequest
    <3>6. /\ reconnectOp[k] = None /\ reconnectOp'[k] = "RUNNING" /\ reconnects[k] = 0
          /\ reconnectOp' \in [ReconnectKeys -> {None, "RUNNING", "SUCCEEDED", "FAILED"}]
          /\ \A j \in ReconnectKeys : j # k => reconnectOp'[j] = reconnectOp[j]
      BY <2>2, <3>2 DEF LifecycleInv, ReconnectKeyFree
    <3>7. \A q \in Procs : q # p /\ HoldsKey(q)' => HoldsKey(q) /\ req[q].key # k
                                                  /\ req[q].key \in ReconnectKeys
      <4> SUFFICES ASSUME NEW q \in Procs, q # p, HoldsKey(q)'
                   PROVE  HoldsKey(q) /\ req[q].key # k /\ req[q].key \in ReconnectKeys
        OBVIOUS
      <4>1. HoldsKey(q)
        BY <3>4 DEF HoldsKey, Running
      <4>2. req[q].key \in ReconnectKeys
        BY <4>1, ReconnectFields DEF HoldsKey
      <4> QED
        BY <3>6, <4>1, <4>2 DEF LifecycleInv, HoldersApart
    <3>8. HoldersApart'
      <4> SUFFICES ASSUME NEW q \in Procs, HoldsKey(q)'
                   PROVE  /\ reconnectOp'[req'[q].key] # None
                          /\ \A z \in Procs : HoldsKey(z)' /\ req'[z].key = req'[q].key => z = q
                          /\ req'[q].at \in {"connecting", "provider"} => reconnects'[req'[q].key] = 0
                          /\ req'[q].at \in {"succeeded", "SUCCEEDED"} => req'[q].key \in verified'
        BY DEF HoldersApart
      <4>1. CASE q = p
        BY <2>0, <3>2, <3>3, <3>4, <3>6, <3>7, <4>1, LifecycleAssumption
      <4>2. CASE q # p
        BY <2>0, <3>2, <3>3, <3>4, <3>6, <3>7, <4>2 DEF LifecycleInv, HoldersApart
      <4> QED
        BY <4>1, <4>2
    <3>9. \A j \in ReconnectKeys : /\ reconnectOp'[j] = None => reconnects'[j] = 0
                                   /\ reconnects'[j] <= 1
                                   /\ reconnectOp'[j] = "SUCCEEDED" => j \in verified'
      BY <2>0, <3>6 DEF LifecycleInv, ReconnectedOncePerKey
    <3> QED
      BY <2>0, <3>3, <3>5, <3>6, <3>8, <3>9 DEF LifecycleInv, ReconnectedOncePerKey
  <2> QED
    BY <1>5, <2>1, <2>2 DEF ReserveReconnect
<1>6. CASE Connecting(p)
  <2> DEFINE r == IF Present THEN [req[p] EXCEPT !.at = "provider"] ELSE None
  <2>1. /\ req' = [req EXCEPT ![p] = r]
        /\ cutShort' = cutShort /\ reconnectOp' = reconnectOp /\ reconnects' = reconnects
        /\ verified' = verified /\ Running(p, "reconnect") /\ req[p].at = "connecting"
    BY <1>0, <1>6 DEF Connecting, Goto, Done, At
  <2>2. Present => r \in ReconnectRequest /\ r.at = "provider" /\ r.key = req[p].key /\ r # None
                   /\ r.op = "reconnect"
    BY <2>1, ReconnectFields, LifecycleAssumption DEF ReconnectRequest
  <2>3. ~Present => r = None /\ integration' = integration
    BY <1>6 DEF Connecting
  <2> HIDE DEF r
  <2>4. r \in LifecycleRequest \cup {None}
    BY <2>2, <2>3 DEF LifecycleRequest
  <2>5. ConnectingIsHeld'
    <3>1. CASE Present
      BY <1>0, <2>1, <2>2, <3>1 DEF ConnectingIsHeld, Running
    <3>2. CASE ~Present
      BY <2>1, <2>3, <2>4, <3>2, StillHeld
    <3> QED
      BY <3>1, <3>2
  <2> QED
    BY <2>1, <2>2, <2>3, <2>4, <2>5, LifecycleStep DEF LifecycleInv, HoldsKey
<1>7. CASE CallReconnect(p)
  <2> DEFINE k == req[p].key
  <2>0. /\ Running(p, "reconnect") /\ req[p].at = "provider" /\ integration' = integration
        /\ cutShort' = cutShort /\ reconnectOp' = reconnectOp
        /\ reconnects' = [reconnects EXCEPT ![k] = @ + 1]
        /\ HoldsKey(p)
    BY <1>7 DEF CallReconnect, At, HoldsKey
  <2>1. PICK l \in {"succeeded", "failed"} :
          /\ Goto(p, l) /\ verified \subseteq verified'
          /\ l = "succeeded" => k \in verified'
    BY <1>7 DEF CallReconnect
  <2> DEFINE r == [req[p] EXCEPT !.at = l]
  <2>3. /\ req' = [req EXCEPT ![p] = r] /\ r \in ReconnectRequest /\ r.at = l
        /\ r.key = k /\ r.op = "reconnect" /\ k \in ReconnectKeys
    <3>1. req' = [req EXCEPT ![p] = r]
      BY <2>1 DEF Goto
    <3>2. /\ r \in ReconnectRequest /\ r.at = l
          /\ r.key = k /\ r.op = "reconnect" /\ k \in ReconnectKeys
      BY <2>0, ReconnectFields DEF ReconnectRequest
    <3> QED
      BY <3>1, <3>2
  <2> HIDE DEF r
  <2>4. /\ req' \in [Procs -> LifecycleRequest \cup {None}] /\ req'[p] = r
        /\ \A q \in Procs : q # p => req'[q] = req[q]
    BY <1>0, <2>3 DEF LifecycleRequest
  <2>5. r # None
    BY <2>1, <2>3, LifecycleAssumption DEF ReconnectRequest
  <2>6. ConnectingIsHeld'
    BY <2>1, <2>3, <2>4, <2>5 DEF ConnectingIsHeld, Running
  <2>7. /\ reconnects[k] = 0 /\ reconnects'[k] = 1 /\ reconnects' \in [ReconnectKeys -> Nat]
        /\ \A j \in ReconnectKeys : j # k => reconnects'[j] = reconnects[j]
    BY <2>0, <2>3 DEF LifecycleInv, HoldersApart
  <2>8. \A q \in Procs : HoldsKey(q)' => HoldsKey(q) /\ req'[q].key = req[q].key
                                        /\ req[q].key \in ReconnectKeys
                                        /\ (q # p => req[q].key # k)
    <3> SUFFICES ASSUME NEW q \in Procs, HoldsKey(q)'
                 PROVE  HoldsKey(q) /\ req'[q].key = req[q].key /\ req[q].key \in ReconnectKeys
                        /\ (q # p => req[q].key # k)
      OBVIOUS
    <3>1. HoldsKey(q) /\ req'[q].key = req[q].key
      BY <2>0, <2>3, <2>4 DEF HoldsKey, Running
    <3>2. req[q].key \in ReconnectKeys
      BY <3>1, ReconnectFields DEF HoldsKey
    <3> QED
      BY <2>0, <3>1, <3>2 DEF LifecycleInv, HoldersApart
  <2>9. HoldersApart'
    <3> SUFFICES ASSUME NEW q \in Procs, HoldsKey(q)'
                 PROVE  /\ reconnectOp'[req'[q].key] # None
                        /\ \A z \in Procs : HoldsKey(z)' /\ req'[z].key = req'[q].key => z = q
                        /\ req'[q].at \in {"connecting", "provider"} => reconnects'[req'[q].key] = 0
                        /\ req'[q].at \in {"succeeded", "SUCCEEDED"} => req'[q].key \in verified'
      BY DEF HoldersApart
    <3>1. reconnectOp'[req'[q].key] # None
          /\ \A z \in Procs : HoldsKey(z)' /\ req'[z].key = req'[q].key => z = q
      BY <2>0, <2>8 DEF LifecycleInv, HoldersApart
    <3>2. CASE q = p
      BY <2>1, <2>3, <2>4, <3>1, <3>2
    <3>3. CASE q # p
      BY <2>1, <2>4, <2>7, <2>8, <3>1, <3>3 DEF LifecycleInv, HoldersApart
    <3> QED
      BY <3>2, <3>3
  <2>10. \A j \in ReconnectKeys : /\ reconnectOp'[j] = None => reconnects'[j] = 0
                                  /\ reconnects'[j] <= 1
                                  /\ reconnectOp'[j] = "SUCCEEDED" => j \in verified'
    BY <2>0, <2>1, <2>7 DEF LifecycleInv, ReconnectedOncePerKey, HoldersApart
  <2> QED
    BY <2>0, <2>4, <2>6, <2>7, <2>9, <2>10 DEF LifecycleInv, ReconnectedOncePerKey
<1>8. CASE StoreOutcome(p)
  <2>0. /\ Running(p, "reconnect") /\ req[p].at \in {"succeeded", "failed"}
        /\ cutShort' = cutShort /\ reconnectOp' = reconnectOp /\ reconnects' = reconnects
        /\ verified' = verified /\ integration' # "CONNECTING"
    BY <1>8, LifecycleAssumption DEF StoreOutcome, AfterReconnect, Present
  <2>1. ConnectingIsHeld'
    BY <2>0 DEF ConnectingIsHeld
  <2>2. CASE Done(p)
    BY <2>0, <2>1, <2>2, LifecycleStep DEF LifecycleInv, Done
  <2>3. ASSUME NEW l \in {"failed", "SUCCEEDED", "FAILED"}, Goto(p, l),
               l = "SUCCEEDED" => req[p].at = "succeeded"
        PROVE  LifecycleInv'
    <3> DEFINE r == [req[p] EXCEPT !.at = l]
    <3>1. req' = [req EXCEPT ![p] = r]
      BY <2>3 DEF Goto
    <3>2. r \in ReconnectRequest /\ r.at = l /\ r.key = req[p].key
      BY <2>0, ReconnectFields
    <3> HIDE DEF r
    <3>3. r \in LifecycleRequest
      BY <3>2 DEF LifecycleRequest
    <3>4. HoldsKey(p)
      BY <2>0 DEF HoldsKey
    <3> QED
      BY <2>0, <2>1, <2>3, <3>1, <3>2, <3>3, <3>4, LifecycleStep DEF LifecycleInv
  <2> QED
    BY <1>8, <2>2, <2>3 DEF StoreOutcome, At
<1>9. CASE CompleteReconnect(p)
  <2> DEFINE k == req[p].key
  <2>0. /\ Running(p, "reconnect") /\ req[p].at \in {"SUCCEEDED", "FAILED"}
        /\ req' = [req EXCEPT ![p] = None] /\ cutShort' = cutShort /\ integration' = integration
        /\ reconnects' = reconnects /\ verified' = verified
        /\ reconnectOp' = [reconnectOp EXCEPT ![k] = req[p].at]
        /\ HoldsKey(p) /\ k \in ReconnectKeys
    BY <1>9, ReconnectFields DEF CompleteReconnect, Done, HoldsKey
  <2>1. ConnectingIsHeld'
    BY <2>0, StillHeld
  <2>2. /\ req' \in [Procs -> LifecycleRequest \cup {None}]
        /\ reconnectOp' \in [ReconnectKeys -> {None, "RUNNING", "SUCCEEDED", "FAILED"}]
        /\ \A j \in ReconnectKeys : reconnectOp'[j] = IF j = k THEN req[p].at ELSE reconnectOp[j]
    BY <1>0, <2>0 DEF LifecycleInv
  <2>3. \A j \in ReconnectKeys :
          /\ reconnectOp'[j] = None => reconnectOp[j] = None
          /\ reconnectOp'[j] = "SUCCEEDED" => j \in verified'
    BY <2>0, <2>2, LifecycleAssumption DEF LifecycleInv, ReconnectedOncePerKey, HoldersApart
  <2>4. \A q \in Procs : HoldsKey(q)' => HoldsKey(q) /\ req'[q] = req[q]
                                         /\ req[q].key \in ReconnectKeys
    <3> SUFFICES ASSUME NEW q \in Procs, HoldsKey(q)'
                 PROVE  HoldsKey(q) /\ req'[q] = req[q] /\ req[q].key \in ReconnectKeys
      OBVIOUS
    <3>1. req'[q] = req[q] /\ HoldsKey(q)
      BY <1>0, <2>0 DEF HoldsKey, Running
    <3> QED
      BY <3>1, ReconnectFields DEF HoldsKey
  <2>5. HoldersApart'
    BY <2>0, <2>3, <2>4 DEF LifecycleInv, HoldersApart
  <2> QED
    BY <2>0, <2>1, <2>2, <2>3, <2>5 DEF LifecycleInv, ReconnectedOncePerKey
<1>10. CASE StopIntegration(p)
  <2>0. /\ req' = [req EXCEPT ![p] = None] /\ integration' = integration
        /\ cutShort' = (cutShort \/ Running(p, "reconnect")) /\ reconnectOp' = reconnectOp
        /\ reconnects' = reconnects /\ verified' = verified
    BY <1>10 DEF StopIntegration, Done
  <2>9. cutShort' \in BOOLEAN
    BY <2>0 DEF LifecycleInv
  <2>1. ConnectingIsHeld'
    <3>1. CASE Running(p, "reconnect")
      BY <2>0, <3>1 DEF ConnectingIsHeld
    <3>2. CASE ~Running(p, "reconnect")
      <4>1. cutShort' = cutShort
        BY <2>0, <3>2 DEF LifecycleInv
      <4> QED
        BY <2>0, <3>2, <4>1, StillHeld
    <3> QED
      BY <3>1, <3>2
  <2> QED
    BY <2>0, <2>1, <2>9, LifecycleStep
<1> QED
  BY <1>2, <1>3, <1>4, <1>5, <1>6, <1>7, <1>8, <1>9, <1>10

-----------------------------------------------------------------------------
(***************************************************************************)
(* The circuit of a provider.                                              *)
(***************************************************************************)

\* The request whose attempt began with an open circuit, and that is past the raising
\* of the flag.
WorksUnderFlag(p, i) ==
  /\ Running(p, "call") /\ req[p].instance = i
  /\ req[p].at \notin {"runtime", "before"} /\ req[p].runtime.state = "OPEN"

MemoryOK ==
  /\ memory = [i \in Instances |-> memory[i]]
  /\ \A i \in Instances :
       /\ memory[i] = [failures |-> memory[i].failures, probe |-> memory[i].probe]
       /\ memory[i].probe \in BOOLEAN

\* A state that is not CLOSED, wherever it was read or is about to be written, is as
\* old as the trip.
CallKnows(r, trip) ==
  /\ r.at # "runtime" => r.runtime \in CircuitRow /\ (r.runtime.state # "CLOSED" => trip)
  /\ r.at = "half open" => r.runtime.state = "OPEN"
  /\ r.at = "open" => trip

\* A flag is raised until its raiser, or whoever lowers it before, has gone on.
FlagsHeld ==
  \A i \in Instances : memory[i].probe => i \in leaked \/ \E p \in Procs : WorksUnderFlag(p, i)

BreakerInv ==
  /\ clock \in Nat /\ circuit \in CircuitRow /\ tripped \in BOOLEAN
  /\ req \in [Procs -> CallRequest \cup {None}]
  /\ MemoryOK
  /\ \A p \in Procs : req[p] # None => CallKnows(req[p], tripped)
  /\ OpenedByFailures /\ FlagsHeld

LEMMA BreakerInitial ==
  ASSUME RequestsInit, CircuitBreakerInit
  PROVE  BreakerInv
BY DEF RequestsInit, CircuitBreakerInit, BreakerInv, MemoryOK, CircuitRow, OpenedByFailures,
   FlagsHeld

\* Nobody gives up a flag, and no flag is raised.
LEMMA FlagsStay ==
  ASSUME BreakerInv, NEW p \in Procs, NEW r, req' = [req EXCEPT ![p] = r],
         \A i \in Instances :
           memory'[i].probe => /\ memory[i].probe /\ (i \in leaked => i \in leaked')
                               /\ WorksUnderFlag(p, i) => i \in leaked' \/ WorksUnderFlag(p, i)'
  PROVE  FlagsHeld'
<1> SUFFICES ASSUME NEW i \in Instances, memory'[i].probe
             PROVE  i \in leaked' \/ \E q \in Procs : WorksUnderFlag(q, i)'
  BY DEF FlagsHeld
<1>1. CASE i \in leaked
  BY <1>1
<1>2. CASE i \notin leaked
  <2>1. PICK q \in Procs : WorksUnderFlag(q, i)
    BY <1>2 DEF BreakerInv, FlagsHeld
  <2>2. CASE q = p
    BY <2>1, <2>2
  <2>3. CASE q # p
    BY <2>1, <2>3 DEF WorksUnderFlag, Running, BreakerInv
  <2> QED
    BY <2>2, <2>3
<1> QED
  BY <1>1, <1>2

\* What is left to show of a step of one request.
LEMMA BreakerStep ==
  ASSUME BreakerInv, NEW p \in Procs, NEW r \in CallRequest \cup {None},
         req' = [req EXCEPT ![p] = r], clock' = clock,
         circuit' \in CircuitRow, tripped' \in BOOLEAN, tripped => tripped',
         circuit' = circuit \/ (circuit'.state # "CLOSED" => tripped'),
         r # None => CallKnows(r, tripped'),
         MemoryOK', FlagsHeld'
  PROVE  BreakerInv'
<1>1. req' \in [Procs -> CallRequest \cup {None}]
  BY DEF BreakerInv
<1>2. ASSUME NEW q \in Procs, req'[q] # None
      PROVE  CallKnows(req'[q], tripped')
  BY <1>2 DEF BreakerInv, CallKnows
<1> QED
  BY <1>1, <1>2 DEF BreakerInv, OpenedByFailures

\* The fields of the memory of an instance.
LEMMA MemoryFields ==
  ASSUME BreakerInv, NEW i \in Instances
  PROVE  /\ \A b : [memory EXCEPT ![i].probe = b]
                      = [memory EXCEPT ![i] = [failures |-> memory[i].failures, probe |-> b]]
         /\ \A f : [memory EXCEPT ![i].failures = f]
                      = [memory EXCEPT ![i] = [failures |-> f, probe |-> memory[i].probe]]
         /\ memory[i].probe \in BOOLEAN
<1>1. PICK a, b : memory[i] = [failures |-> a, probe |-> b]
  BY DEF BreakerInv, MemoryOK
<1>2. \A c : [memory[i] EXCEPT !.probe = c] = [failures |-> a, probe |-> c]
  BY <1>1
<1>3. \A c : [memory[i] EXCEPT !.failures = c] = [failures |-> c, probe |-> b]
  BY <1>1
<1>4. memory[i].failures = a /\ memory[i].probe = b
  BY <1>1
<1> QED
  BY <1>2, <1>3, <1>4 DEF BreakerInv, MemoryOK

LEMMA MemoryWrite ==
  ASSUME BreakerInv, NEW i \in Instances, NEW f, NEW b \in BOOLEAN,
         memory' = [memory EXCEPT ![i] = [failures |-> f, probe |-> b]]
  PROVE  /\ MemoryOK'
         /\ memory'[i].probe = b
         /\ \A j \in Instances : j # i => memory'[j] = memory[j]
<1>1. \A j \in Instances : memory'[j] = IF j = i THEN [failures |-> f, probe |-> b] ELSE memory[j]
  BY DEF BreakerInv, MemoryOK
<1>2. memory' = [j \in Instances |-> memory'[j]]
  BY <1>1 DEF BreakerInv, MemoryOK
<1>3. ASSUME NEW j \in Instances
      PROVE  /\ memory'[j] = [failures |-> memory'[j].failures, probe |-> memory'[j].probe]
             /\ memory'[j].probe \in BOOLEAN
  BY <1>1 DEF BreakerInv, MemoryOK
<1> QED
  BY <1>1, <1>2, <1>3 DEF MemoryOK

LEMMA MemoryRest ==
  ASSUME BreakerInv, memory' = memory
  PROVE  MemoryOK' /\ \A i \in Instances : memory'[i].probe = memory[i].probe
BY DEF BreakerInv, MemoryOK

\* A request that moves on within its attempt.
LEMMA CallGoto ==
  ASSUME BreakerInv, NEW p \in Procs, Running(p, "call"),
         NEW l \in {"before", "half open", "operation", "success", "failure", "again", "end"},
         req[p].at # "runtime", l = "half open" => req[p].runtime.state = "OPEN"
  PROVE  /\ [req[p] EXCEPT !.at = l] \in CallRequest
         /\ tripped' \in BOOLEAN /\ (tripped => tripped') => CallKnows([req[p] EXCEPT !.at = l], tripped')
         /\ l \notin {"runtime", "before"} /\ req'[p] = [req[p] EXCEPT !.at = l] =>
              \A i \in Instances : WorksUnderFlag(p, i) => WorksUnderFlag(p, i)'
<1>1. req[p] \in CallRequest /\ CallKnows(req[p], tripped)
  BY DEF BreakerInv, Running
<1>2. [req[p] EXCEPT !.at = l] \in CallRequest
  BY <1>1 DEF CallRequest
<1>3. [req[p] EXCEPT !.at = l] # None
  BY <1>2, CircuitAssumption
<1>4. ASSUME tripped' \in BOOLEAN /\ (tripped => tripped') PROVE CallKnows([req[p] EXCEPT !.at = l], tripped')
  BY <1>1, <1>4 DEF CallRequest, CallKnows
<1>5. ASSUME l \notin {"runtime", "before"} /\ req'[p] = [req[p] EXCEPT !.at = l], NEW i \in Instances,
             WorksUnderFlag(p, i)
      PROVE  WorksUnderFlag(p, i)'
  BY <1>1, <1>3, <1>5 DEF CallRequest, WorksUnderFlag, Running
<1> QED
  BY <1>2, <1>4, <1>5

LEMMA BreakerKeepsCall ==
  ASSUME BreakerInv, NEW p \in Procs,
         \/ Execute(p) \/ ReadRuntime(p) \/ BeforeAttempt(p) \/ HalfOpen(p) \/ CallProvider(p)
         \/ RecordCallSuccess(p) \/ CountFailure(p) \/ StoreFailure(p) \/ Finally(p)
  PROVE  BreakerInv'
<1>0. /\ clock \in Nat /\ circuit \in CircuitRow /\ tripped \in BOOLEAN
      /\ circuit.state # "CLOSED" => tripped
      /\ req[p] # None => req[p] \in CallRequest /\ CallKnows(req[p], tripped)
      /\ req[p] # None => req[p].instance \in Instances
  BY DEF BreakerInv, OpenedByFailures, CallRequest
<1>1. CASE Execute(p)
  <2>1. PICK i \in Instances :
          Start(p, [op |-> "call", at |-> "runtime", instance |-> i, attempt |-> 0,
                    started |-> clock, runtime |-> None, failedAt |-> 0])
    BY <1>1 DEF Execute
  <2> DEFINE r == [op |-> "call", at |-> "runtime", instance |-> i, attempt |-> 0,
                   started |-> clock, runtime |-> None, failedAt |-> 0]
  <2>2. req' = [req EXCEPT ![p] = r] /\ req[p] = None /\ r \in CallRequest /\ r.at = "runtime"
    BY <1>0, <2>1 DEF Start, CallRequest
  <2> HIDE DEF r
  <2>3. UNCHANGED <<circuit, memory, called, tripped, leaked, clock>>
    BY <1>1 DEF Execute, circuitVars
  <2>4. MemoryOK' /\ \A j \in Instances : memory'[j].probe = memory[j].probe
    BY <2>3, MemoryRest
  <2>5. FlagsHeld'
    BY <2>2, <2>3, <2>4, FlagsStay DEF WorksUnderFlag, Running
  <2> QED
    BY <1>0, <2>2, <2>3, <2>4, <2>5, BreakerStep DEF CallKnows
<1>2. CASE ReadRuntime(p)
  <2> DEFINE r == [req[p] EXCEPT !.at = "before", !.runtime = circuit]
  <2>1. /\ req[p].at = "runtime" /\ req[p] # None
        /\ UNCHANGED <<circuit, memory, called, tripped, leaked, clock>>
    BY <1>2 DEF ReadRuntime, At, circuitVars
  <2>2. req' = [req EXCEPT ![p] = r]
    BY <1>2 DEF ReadRuntime, BreakerInv
  <2>3. r \in CallRequest /\ CallKnows(r, tripped')
    BY <1>0, <2>1 DEF CallRequest, CallKnows
  <2> HIDE DEF r
  <2>4. MemoryOK' /\ \A j \in Instances : memory'[j].probe = memory[j].probe
    BY <2>1, MemoryRest
  <2>5. FlagsHeld'
    BY <2>1, <2>2, <2>4, FlagsStay DEF WorksUnderFlag
  <2> QED
    BY <1>0, <2>1, <2>2, <2>3, <2>4, <2>5, BreakerStep
<1>3. CASE BeforeAttempt(p)
  <2>1. /\ req[p].at = "before" /\ Running(p, "call")
        /\ UNCHANGED <<circuit, called, tripped, leaked, clock>>
    BY <1>3 DEF BeforeAttempt, At
  <2>2. CASE Done(p) /\ UNCHANGED memory
    <3>1. MemoryOK' /\ \A j \in Instances : memory'[j].probe = memory[j].probe
      BY <2>2, MemoryRest
    <3>2. FlagsHeld'
      BY <2>1, <2>2, <3>1, FlagsStay DEF WorksUnderFlag, Done
    <3> QED
      BY <1>0, <2>1, <2>2, <3>1, <3>2, BreakerStep DEF Done
  <2>3. CASE Goto(p, "operation") /\ UNCHANGED memory
    <3> DEFINE r == [req[p] EXCEPT !.at = "operation"]
    <3>1. MemoryOK' /\ \A j \in Instances : memory'[j].probe = memory[j].probe
      BY <2>3, MemoryRest
    <3>2. req' = [req EXCEPT ![p] = r]
      BY <2>3 DEF Goto
    <3>3. r \in CallRequest /\ CallKnows(r, tripped')
      BY <1>0, <2>1, CallGoto
    <3> HIDE DEF r
    <3>4. FlagsHeld'
      BY <2>1, <3>1, <3>2, FlagsStay DEF WorksUnderFlag
    <3> QED
      BY <1>0, <2>1, <3>1, <3>2, <3>3, <3>4, BreakerStep
  <2>4. CASE /\ req[p].runtime.state = "OPEN"
             /\ memory' = [memory EXCEPT ![req[p].instance].probe = TRUE]
             /\ Goto(p, "half open")
    <3>0. PICK i \in Instances : i = req[p].instance
      BY <1>0, <2>1 DEF Running
    <3> DEFINE r == [req[p] EXCEPT !.at = "half open"]
    <3>1. memory' = [memory EXCEPT ![i] = [failures |-> memory[i].failures, probe |-> TRUE]]
      BY <2>4, <3>0, MemoryFields
    <3>2. MemoryOK' /\ \A j \in Instances : j # i => memory'[j] = memory[j]
      BY <3>1, MemoryWrite
    <3>3. req' = [req EXCEPT ![p] = r]
      BY <2>4 DEF Goto
    <3>4. r \in CallRequest /\ CallKnows(r, tripped')
      BY <1>0, <2>1, <2>4, CallGoto
    <3>5. WorksUnderFlag(p, i)'
      <4>1. r # None /\ r.op = "call" /\ r.instance = i /\ r.at = "half open" /\ r.runtime.state = "OPEN"
        BY <1>0, <2>1, <2>4, <3>0, <3>4, CircuitAssumption DEF CallRequest, Running
      <4> QED
        BY <3>3, <4>1 DEF WorksUnderFlag, Running, BreakerInv
    <3> HIDE DEF r
    <3>6. FlagsHeld'
      <4> SUFFICES ASSUME NEW j \in Instances, memory'[j].probe
                   PROVE  j \in leaked' \/ \E q \in Procs : WorksUnderFlag(q, j)'
        BY DEF FlagsHeld
      <4>1. CASE j = i
        BY <3>5, <4>1
      <4>2. CASE j # i
        <5>1. memory[j].probe
          BY <3>2, <4>2
        <5>2. CASE j \in leaked
          BY <2>1, <5>2
        <5>3. CASE j \notin leaked
          <6>1. PICK q \in Procs : WorksUnderFlag(q, j)
            BY <5>1, <5>3 DEF BreakerInv, FlagsHeld
          <6>2. q # p /\ req'[q] = req[q]
            BY <2>1, <3>3, <6>1 DEF WorksUnderFlag, BreakerInv
          <6> QED
            BY <6>1, <6>2 DEF WorksUnderFlag, Running
        <5> QED
          BY <5>2, <5>3
      <4> QED
        BY <4>1, <4>2
    <3> QED
      BY <1>0, <2>1, <3>2, <3>3, <3>4, <3>6, BreakerStep
  <2> QED
    BY <1>3, <2>2, <2>3, <2>4 DEF BeforeAttempt
<1>4. CASE HalfOpen(p)
  <2>1. /\ req[p].at = "half open" /\ Running(p, "call") /\ req[p].runtime.state = "OPEN" /\ tripped
        /\ UNCHANGED <<memory, called, tripped, clock>>
    BY <1>0, <1>4 DEF HalfOpen, At, CallKnows
  <2>2. MemoryOK' /\ \A j \in Instances : memory'[j].probe = memory[j].probe
    BY <2>1, MemoryRest
  <2>3. CASE /\ circuit' = [state |-> "HALF_OPEN", nextRetryAt |-> clock + CircuitOpenFor]
             /\ Goto(p, "operation") /\ UNCHANGED leaked
    <3> DEFINE r == [req[p] EXCEPT !.at = "operation"]
    <3>1. req' = [req EXCEPT ![p] = r]
      BY <2>3 DEF Goto
    <3>2. r \in CallRequest /\ CallKnows(r, tripped')
      BY <1>0, <2>1, CallGoto
    <3>3. req'[p] = r
      BY <3>1 DEF BreakerInv
    <3>4. \A i \in Instances : WorksUnderFlag(p, i) => WorksUnderFlag(p, i)'
      BY <1>0, <2>1, <3>3, CallGoto
    <3> HIDE DEF r
    <3>5. FlagsHeld'
      BY <2>2, <2>3, <3>1, <3>4, FlagsStay
    <3>6. circuit' \in CircuitRow
      BY <1>0, <2>3, CircuitAssumption DEF CircuitRow
    <3> QED
      BY <1>0, <2>1, <2>2, <3>1, <3>2, <3>5, <3>6, BreakerStep
  <2>4. CASE leaked' = leaked \cup {req[p].instance} /\ Done(p) /\ UNCHANGED circuit
    <3>1. FlagsHeld'
      BY <2>2, <2>4, FlagsStay DEF WorksUnderFlag, Done
    <3> QED
      BY <1>0, <2>1, <2>2, <2>4, <3>1, BreakerStep DEF Done
  <2> QED
    BY <1>4, <2>3, <2>4 DEF HalfOpen
<1>5. CASE CallProvider(p)
  <2>1. /\ req[p].at = "operation" /\ Running(p, "call")
        /\ UNCHANGED <<circuit, memory, tripped, clock>>
    BY <1>5 DEF CallProvider, At
  <2>2. MemoryOK' /\ \A j \in Instances : memory'[j].probe = memory[j].probe
    BY <2>1, MemoryRest
  <2>3. CASE /\ Done(p)
             /\ leaked' = IF req[p].runtime.state = "OPEN" THEN leaked \cup {req[p].instance}
                          ELSE leaked
    <3>1. FlagsHeld'
      BY <2>2, <2>3, FlagsStay DEF WorksUnderFlag, Done
    <3> QED
      BY <1>0, <2>1, <2>2, <2>3, <3>1, BreakerStep DEF Done
  <2>4. ASSUME NEW l \in {"success", "failure"}, Goto(p, l), UNCHANGED leaked
        PROVE  BreakerInv'
    <3> DEFINE r == [req[p] EXCEPT !.at = l]
    <3>1. req' = [req EXCEPT ![p] = r]
      BY <2>4 DEF Goto
    <3>2. r \in CallRequest /\ CallKnows(r, tripped')
      BY <1>0, <2>1, CallGoto
    <3>3. req'[p] = r
      BY <3>1 DEF BreakerInv
    <3>4. \A i \in Instances : WorksUnderFlag(p, i) => WorksUnderFlag(p, i)'
      BY <1>0, <2>1, <3>3, CallGoto
    <3> HIDE DEF r
    <3>5. FlagsHeld'
      BY <2>2, <2>4, <3>1, <3>4, FlagsStay
    <3> QED
      BY <1>0, <2>1, <2>2, <3>1, <3>2, <3>5, BreakerStep
  <2> QED
    BY <1>5, <2>3, <2>4 DEF CallProvider
<1>6. CASE RecordCallSuccess(p)
  <2> DEFINE i == req[p].instance
  <2>1. /\ req[p].at = "success" /\ Running(p, "call") /\ i \in Instances
        /\ UNCHANGED <<called, tripped, clock>>
    BY <1>0, <1>6 DEF RecordCallSuccess, At
  <2>2. CASE /\ circuit' = [state |-> "CLOSED", nextRetryAt |-> None]
             /\ memory' = [memory EXCEPT ![i] = [failures |-> InWindow(@.failures), probe |-> FALSE]]
             /\ leaked' = leaked \ {i} /\ Done(p)
    <3>1. MemoryOK' /\ memory'[i].probe = FALSE /\ \A j \in Instances : j # i => memory'[j] = memory[j]
      BY <2>1, <2>2, MemoryWrite
    <3>2. FlagsHeld'
      BY <2>1, <2>2, <3>1, FlagsStay DEF WorksUnderFlag, Done
    <3>3. circuit' \in CircuitRow /\ circuit'.state = "CLOSED"
      BY <2>2 DEF CircuitRow
    <3> QED
      BY <1>0, <2>1, <2>2, <3>1, <3>2, <3>3, BreakerStep DEF Done
  <2>3. CASE /\ memory' = [memory EXCEPT ![i].failures = InWindow(@)]
             /\ Goto(p, "failure") /\ UNCHANGED <<circuit, leaked>>
    <3> DEFINE r == [req[p] EXCEPT !.at = "failure"]
    <3>0. memory' = [memory EXCEPT ![i] = [failures |-> InWindow(memory[i].failures), probe |-> memory[i].probe]]
      BY <2>1, <2>3, MemoryFields
    <3>1. MemoryOK' /\ \A j \in Instances : memory'[j].probe = memory[j].probe
      BY <2>1, <3>0, MemoryFields, MemoryWrite
    <3>2. req' = [req EXCEPT ![p] = r]
      BY <2>3 DEF Goto
    <3>3. r \in CallRequest /\ CallKnows(r, tripped')
      BY <1>0, <2>1, CallGoto
    <3>4. req'[p] = r
      BY <2>1, <3>2 DEF BreakerInv
    <3>5. \A j \in Instances : WorksUnderFlag(p, j) => WorksUnderFlag(p, j)'
      BY <1>0, <2>1, <3>4, CallGoto
    <3> HIDE DEF r
    <3>6. FlagsHeld'
      BY <2>3, <3>1, <3>2, <3>5, FlagsStay
    <3> QED
      BY <1>0, <2>1, <2>3, <3>1, <3>2, <3>3, <3>6, BreakerStep
  <2> QED
    BY <1>6, <2>2, <2>3 DEF RecordCallSuccess
<1>7. CASE CountFailure(p)
  <2> DEFINE i == req[p].instance
             active == Append(InWindow(memory[i].failures), clock)
  <2>1. /\ req[p].at = "failure" /\ Running(p, "call") /\ i \in Instances
        /\ tripped' = (tripped \/ Len(active) >= CircuitThreshold)
        /\ UNCHANGED <<circuit, called, leaked, clock>>
    BY <1>0, <1>7 DEF CountFailure, At
  <2>2. PICK l \in {"open", "keep"} :
          /\ req' = [req EXCEPT ![p] = [req[p] EXCEPT !.at = l, !.failedAt = clock]]
          /\ l = "open" => tripped'
    BY <1>7, <2>1 DEF CountFailure, Opens
  <2> DEFINE r == [req[p] EXCEPT !.at = l, !.failedAt = clock]
  <2>3. memory' = [memory EXCEPT ![i] = [failures |-> active, probe |-> memory[i].probe]]
    BY <1>7, <2>1, MemoryFields DEF CountFailure
  <2>4. MemoryOK' /\ \A j \in Instances : memory'[j].probe = memory[j].probe
    BY <2>1, <2>3, MemoryFields, MemoryWrite
  <2>5. tripped' \in BOOLEAN /\ (tripped => tripped')
    BY <1>0, <2>1
  <2> HIDE DEF active
  <2>6. r \in CallRequest /\ CallKnows(r, tripped')
    BY <1>0, <2>1, <2>2, <2>5 DEF CallRequest, CallKnows, Running
  <2>7. r # None /\ r.at = l /\ r.op = req[p].op /\ r.instance = i /\ r.runtime = req[p].runtime
    BY <1>0, <2>1, <2>6, CircuitAssumption DEF CallRequest, Running
  <2>0. req' = [req EXCEPT ![p] = r]
    BY <2>2
  <2> HIDE DEF r
  <2>8. ASSUME NEW j \in Instances, WorksUnderFlag(p, j)
        PROVE  WorksUnderFlag(p, j)'
    <3>1. req'[p] = r
      BY <2>0 DEF BreakerInv
    <3>2. r.at \notin {"runtime", "before"}
      BY <2>2, <2>7
    <3>3. r # None /\ r.op = "call" /\ r.instance = j /\ r.runtime.state = "OPEN"
      BY <2>7, <2>8 DEF WorksUnderFlag, Running
    <3> QED
      BY <3>1, <3>2, <3>3 DEF WorksUnderFlag, Running
  <2>9. FlagsHeld'
    BY <2>0, <2>1, <2>4, <2>8, FlagsStay
  <2> QED
    BY <1>0, <2>0, <2>1, <2>4, <2>5, <2>6, <2>9, BreakerStep
<1>8. CASE StoreFailure(p)
  <2>1. /\ req[p].at \in {"open", "keep"} /\ Running(p, "call")
        /\ UNCHANGED <<memory, called, tripped, leaked, clock>>
    BY <1>8 DEF StoreFailure, At
  <2>2. MemoryOK' /\ \A j \in Instances : memory'[j].probe = memory[j].probe
    BY <2>1, MemoryRest
  <2>3. PICK l \in {"again", "end"} : Goto(p, l)
    BY <1>8 DEF StoreFailure
  <2>4. circuit' \in CircuitRow /\ (circuit' = circuit \/ (circuit'.state # "CLOSED" => tripped'))
    <3>1. CASE UNCHANGED circuit
      BY <1>0, <3>1
    <3>2. ASSUME NEW more \in BOOLEAN,
                 circuit' = IF At(p, "open")
                            THEN [state |-> "OPEN", nextRetryAt |-> req[p].failedAt + CircuitOpenFor]
                            ELSE [state |-> req[p].runtime.state,
                                  nextRetryAt |-> IF more THEN req[p].failedAt ELSE None]
          PROVE  circuit' \in CircuitRow /\ (circuit'.state # "CLOSED" => tripped')
      <4>1. /\ req[p].failedAt \in Nat /\ req[p].failedAt + CircuitOpenFor \in Nat
            /\ req[p].runtime.state \in {"CLOSED", "OPEN", "HALF_OPEN"}
            /\ req[p].runtime.state # "CLOSED" => tripped
            /\ At(p, "open") => tripped
        <5>1. req[p].failedAt \in Nat /\ CircuitOpenFor \in Nat
          BY <1>0, <2>1, CircuitAssumption DEF CallRequest, Running
        <5>2. req[p].runtime \in CircuitRow /\ (req[p].runtime.state # "CLOSED" => tripped)
              /\ (At(p, "open") => tripped)
          BY <1>0, <2>1 DEF CallKnows, Running, At
        <5> QED
          BY <5>1, <5>2 DEF CircuitRow
      <4>2. CASE At(p, "open")
        BY <2>1, <3>2, <4>1, <4>2 DEF CircuitRow
      <4>3. CASE ~At(p, "open")
        BY <2>1, <3>2, <4>1, <4>3 DEF CircuitRow
      <4> QED
        BY <4>2, <4>3
    <3>3. CASE \E retryable \in BOOLEAN :
                 LET more == retryable /\ req[p].attempt + 1 < CallAttempts
                 IN  circuit' = IF At(p, "open")
                                THEN [state |-> "OPEN", nextRetryAt |-> req[p].failedAt + CircuitOpenFor]
                                ELSE [state |-> req[p].runtime.state,
                                      nextRetryAt |-> IF more THEN req[p].failedAt ELSE None]
      <4>1. PICK retryable \in BOOLEAN :
              circuit' = IF At(p, "open")
                         THEN [state |-> "OPEN", nextRetryAt |-> req[p].failedAt + CircuitOpenFor]
                         ELSE [state |-> req[p].runtime.state,
                               nextRetryAt |-> IF retryable /\ req[p].attempt + 1 < CallAttempts
                                               THEN req[p].failedAt ELSE None]
        BY <3>3
      <4>2. (retryable /\ req[p].attempt + 1 < CallAttempts) \in BOOLEAN
        OBVIOUS
      <4> QED
        BY <3>2, <4>1, <4>2
    <3> QED
      BY <1>8, <3>1, <3>3 DEF StoreFailure
  <2> DEFINE r == [req[p] EXCEPT !.at = l]
  <2>5. req' = [req EXCEPT ![p] = r]
    BY <2>3 DEF Goto
  <2>6. r \in CallRequest /\ CallKnows(r, tripped')
    BY <1>0, <2>1, CallGoto
  <2>7. req'[p] = r
    BY <2>5 DEF BreakerInv
  <2>8. \A i \in Instances : WorksUnderFlag(p, i) => WorksUnderFlag(p, i)'
    BY <1>0, <2>1, <2>7, CallGoto
  <2> HIDE DEF r
  <2>9. FlagsHeld'
    BY <2>1, <2>2, <2>5, <2>8, FlagsStay
  <2> QED
    BY <1>0, <2>1, <2>2, <2>4, <2>5, <2>6, <2>9, BreakerStep
<1>9. CASE Finally(p)
  <2> DEFINE i == req[p].instance
             r == IF At(p, "again")
                  THEN [req[p] EXCEPT !.at = "runtime", !.attempt = @ + 1, !.runtime = None,
                                      !.failedAt = 0]
                  ELSE None
  <2>1. /\ Running(p, "call") /\ i \in Instances /\ leaked' = leaked \ {i}
        /\ UNCHANGED <<circuit, called, tripped, clock>>
    BY <1>0, <1>9 DEF Finally, Running
  <2>2. req' = [req EXCEPT ![p] = r]
    BY <1>9 DEF Finally, Done
  <2>3. r \in CallRequest \cup {None} /\ (r # None => CallKnows(r, tripped'))
    <3>1. CASE At(p, "again")
      <4>1. req[p] \in CallRequest
        BY <1>0, <2>1 DEF Running
      <4>2. PICK n \in Nat : req[p].attempt = n
        BY <4>1 DEF CallRequest
      <4>3. n + 1 \in Nat
        OBVIOUS
      <4>4. [req[p] EXCEPT !.at = "runtime", !.attempt = n + 1, !.runtime = None, !.failedAt = 0]
              \in CallRequest
        BY <4>1, <4>3 DEF CallRequest
      <4>5. r = [req[p] EXCEPT !.at = "runtime", !.attempt = n + 1, !.runtime = None, !.failedAt = 0]
        BY <3>1, <4>2
      <4>6. r.at = "runtime"
        BY <4>1, <4>5 DEF CallRequest
      <4> QED
        BY <4>4, <4>5, <4>6 DEF CallKnows
    <3>2. CASE ~At(p, "again")
      BY <3>2
    <3> QED
      BY <3>1, <3>2
  <2> HIDE DEF r
  <2>4. memory' = [memory EXCEPT ![i] = [failures |-> memory[i].failures, probe |-> FALSE]]
    <3>1. LowersFlag(req[p].at)
      BY <1>9 DEF Finally, LowersFlag
    <3>2. memory' = [memory EXCEPT ![i].probe = FALSE]
      <4>1. memory' = [memory EXCEPT ![i].probe = memory[i].probe /\ ~LowersFlag(req[p].at)]
        BY <1>9 DEF Finally
      <4>2. (memory[i].probe /\ ~LowersFlag(req[p].at)) = FALSE
        BY <3>1
      <4> QED
        BY <4>1, <4>2
    <3> QED
      BY <2>1, <3>2, MemoryFields
  <2>5. MemoryOK' /\ memory'[i].probe = FALSE /\ \A j \in Instances : j # i => memory'[j] = memory[j]
    BY <2>1, <2>4, MemoryWrite
  <2>6. FlagsHeld'
    BY <2>1, <2>2, <2>5, FlagsStay DEF WorksUnderFlag
  <2> QED
    BY <1>0, <2>1, <2>2, <2>3, <2>5, <2>6, BreakerStep
<1> QED
  BY <1>1, <1>2, <1>3, <1>4, <1>5, <1>6, <1>7, <1>8, <1>9

LEMMA BreakerKeeps ==
  ASSUME BreakerInv, CircuitBreakerNext
  PROVE  BreakerInv'
<1>1. ASSUME NEW p \in Procs,
             \/ Execute(p) \/ ReadRuntime(p) \/ BeforeAttempt(p) \/ HalfOpen(p) \/ CallProvider(p)
             \/ RecordCallSuccess(p) \/ CountFailure(p) \/ StoreFailure(p) \/ Finally(p)
      PROVE  BreakerInv'
  BY <1>1, BreakerKeepsCall
<1>2. ASSUME NEW i \in Instances, RestartInstance(i)
      PROVE  BreakerInv'
  <2>1. /\ UNCHANGED <<circuit, called, tripped, clock>> /\ leaked' = leaked \ {i}
        /\ memory' = [memory EXCEPT ![i] = [failures |-> <<>>, probe |-> FALSE]]
    BY <1>2 DEF RestartInstance
  <2>2. MemoryOK' /\ memory'[i].probe = FALSE /\ \A j \in Instances : j # i => memory'[j] = memory[j]
    BY <2>1, MemoryWrite
  <2>3. \A p \in Procs : req'[p] = IF Running(p, "call") /\ req[p].instance = i THEN None ELSE req[p]
    BY <1>2 DEF RestartInstance
  <2>4. req' \in [Procs -> CallRequest \cup {None}]
    BY <1>2 DEF RestartInstance, BreakerInv
  <2>5. FlagsHeld'
    <3> SUFFICES ASSUME NEW j \in Instances, memory'[j].probe
                 PROVE  j \in leaked' \/ \E q \in Procs : WorksUnderFlag(q, j)'
      BY DEF FlagsHeld
    <3>1. j # i /\ memory[j].probe
      BY <2>2
    <3>2. CASE j \in leaked
      BY <2>1, <3>1, <3>2
    <3>3. CASE j \notin leaked
      <4>1. PICK q \in Procs : WorksUnderFlag(q, j)
        BY <3>1, <3>3 DEF BreakerInv, FlagsHeld
      <4>2. req'[q] = req[q]
        BY <2>3, <3>1, <4>1 DEF WorksUnderFlag
      <4> QED
        BY <4>1, <4>2 DEF WorksUnderFlag, Running
    <3> QED
      BY <3>2, <3>3
  <2>6. \A p \in Procs : req'[p] # None => CallKnows(req'[p], tripped')
    BY <2>1, <2>3 DEF BreakerInv
  <2> QED
    BY <2>1, <2>2, <2>4, <2>5, <2>6 DEF BreakerInv, OpenedByFailures
<1>3. ASSUME Tick, UNCHANGED circuitVars
      PROVE  BreakerInv'
  <2>1. clock' \in Nat /\ UNCHANGED <<req, circuit, memory, tripped, leaked>>
    BY <1>3 DEF Tick, circuitVars, BreakerInv
  <2> QED
    BY <2>1 DEF BreakerInv, MemoryOK, OpenedByFailures, FlagsHeld, WorksUnderFlag, Running
<1> QED
  BY <1>1, <1>2, <1>3 DEF CircuitBreakerNext

LEMMA FlagsHeldImplies ==
  ASSUME FlagsHeld
  PROVE  ProbeFlagIsHeld
BY DEF FlagsHeld, ProbeFlagIsHeld, WorksUnderFlag

-----------------------------------------------------------------------------
(***************************************************************************)
(* Credentials and alerts.                                                 *)
(***************************************************************************)

CredentialRow ==
  [status : {"ACTIVE", "ROTATED", "REVOKED"}, rotatedAt : BOOLEAN, revokedAt : BOOLEAN,
   replaces : BOOLEAN]

ControlRequest ==
  [op : {"create credential"}, version : Nat] \cup [op : {"acknowledge"}, row : AlertRow]
    \cup [op : {"resolve"}, uuid : Nat]

\* What the versions 1 .. n of a credential have in common.
History(kept, n) ==
  /\ kept \in [1 .. n -> CredentialRow]
  /\ \A v \in 1 .. n :
       /\ kept[v].rotatedAt => v + 1 \in 1 .. n /\ kept[v + 1].replaces
       /\ kept[v].rotatedAt \/ kept[v].revokedAt => kept[v].status # "ACTIVE"

\* A version that was read as the next one is at most the next one, and an alert that
\* was read stays.
ControlKnows(p, n) ==
  /\ Running(p, "create credential") => req[p].version \in 1 .. n + 1
  /\ Running(p, "acknowledge") \/ Running(p, "resolve") => alert \in AlertRow

ControlInv ==
  /\ req \in [Procs -> ControlRequest \cup {None}]
  /\ \E n \in Nat : History(credential, n) /\ \A p \in Procs : ControlKnows(p, n)
  /\ alert \in AlertRow \cup {None} /\ raised \in Nat /\ writtenOver \in BOOLEAN
  /\ alert # None => alert.uuid = raised \/ writtenOver
  /\ SignalsAreSeen

LEMMA ControlInitial ==
  ASSUME RequestsInit, RoadmapControlInit
  PROVE  ControlInv
<1>1. History(credential, 0)
  BY DEF RoadmapControlInit, History
<1>2. \A p \in Procs : ControlKnows(p, 0)
  BY DEF RequestsInit, ControlKnows, Running
<1> QED
  BY <1>1, <1>2 DEF RequestsInit, RoadmapControlInit, ControlInv, SignalsAreSeen

LEMMA NewestIs ==
  ASSUME NEW n \in Nat, DOMAIN credential = 1 .. n
  PROVE  Newest = n
<1> DEFINE S == {0} \cup 1 .. n
<1>1. n \in S /\ \A y \in S : n >= y
  OBVIOUS
<1>2. \A x \in S : (\A y \in S : x >= y) => x = n
  BY <1>1
<1>3. Max(S) = n
  BY <1>1, <1>2 DEF Max
<1> QED
  BY <1>3 DEF Newest, CredentialVersions

LEMMA HistoryImplies ==
  ASSUME NEW n \in Nat, History(credential, n)
  PROVE  CredentialHistory
<1>1. DOMAIN credential = 1 .. n
  BY DEF History
<1>2. Newest = n
  BY <1>1, NewestIs
<1> QED
  BY <1>1, <1>2 DEF CredentialHistory, CredentialVersions, History

\* What is left to show of a step: the history of its versions, and what the request
\* that it is about has read.
LEMMA ControlStep ==
  ASSUME ControlInv, NEW n \in Nat, NEW m \in Nat, m >= n, History(credential', m),
         \A p \in Procs : ControlKnows(p, n),
         req' \in [Procs -> ControlRequest \cup {None}],
         \A p \in Procs : req'[p] = req[p] \/ req'[p] = None \/ ControlKnows(p, m)',
         alert' = alert \/ alert' \in AlertRow, raised' \in Nat, writtenOver' \in BOOLEAN,
         alert' # None => alert'.uuid = raised' \/ writtenOver', SignalsAreSeen'
  PROVE  ControlInv'
<1>1. ASSUME NEW p \in Procs
      PROVE  ControlKnows(p, m)'
  <2>1. CASE req'[p] = req[p]
    <3>1. 1 .. n + 1 \subseteq 1 .. m + 1
      OBVIOUS
    <3> QED
      BY <2>1, <3>1 DEF ControlKnows, Running
  <2>2. CASE req'[p] = None
    BY <2>2 DEF ControlKnows, Running
  <2> QED
    BY <2>1, <2>2
<1> QED
  BY <1>1 DEF ControlInv

LEMMA CredentialSteps ==
  ASSUME ControlInv, UNCHANGED <<alert, raised, closedFor, writtenOver>>,
         \/ \E v \in CredentialVersions : RotateCredential(v) \/ RevokeCredential(v)
         \/ \E p \in Procs : CreateCredentialRead(p) \/ CreateCredentialWrite(p)
  PROVE  ControlInv'
<1>1. PICK n \in Nat : History(credential, n) /\ \A p \in Procs : ControlKnows(p, n)
  BY DEF ControlInv
<1>2. DOMAIN credential = 1 .. n /\ Newest = n
  BY <1>1, NewestIs DEF History
<1>3. SignalsAreSeen' /\ (alert' # None => alert'.uuid = raised' \/ writtenOver')
  BY DEF ControlInv, SignalsAreSeen
<1>4. ASSUME NEW replaces \in BOOLEAN,
             NEW kept, History(kept, n) \/
                       (\E v \in 1 .. n : /\ v = n /\ replaces
                                          /\ kept = [credential EXCEPT ![v].status = "ROTATED",
                                                                       ![v].rotatedAt = TRUE])
      PROVE  History(WithVersion(kept, n + 1, ActiveCredential(replaces)), n + 1)
  <2> DEFINE new == WithVersion(kept, n + 1, ActiveCredential(replaces))
  <2>1. /\ kept \in [1 .. n -> CredentialRow]
        /\ \A v \in 1 .. n :
             /\ kept[v].rotatedAt => \/ v + 1 \in 1 .. n /\ kept[v + 1].replaces
                                     \/ v = n /\ replaces
             /\ kept[v].rotatedAt \/ kept[v].revokedAt => kept[v].status # "ACTIVE"
    <3>1. CASE History(kept, n)
      BY <3>1 DEF History
    <3>2. CASE /\ n \in 1 .. n /\ replaces
               /\ kept = [credential EXCEPT ![n].status = "ROTATED", ![n].rotatedAt = TRUE]
      <4>1. credential \in [1 .. n -> CredentialRow]
        BY <1>1 DEF History
      <4>2. kept = [credential EXCEPT ![n] = [credential[n] EXCEPT !.status = "ROTATED", !.rotatedAt = TRUE]]
        BY <3>2, <4>1
      <4>3. /\ [credential[n] EXCEPT !.status = "ROTATED", !.rotatedAt = TRUE] \in CredentialRow
            /\ [credential[n] EXCEPT !.status = "ROTATED", !.rotatedAt = TRUE].status = "ROTATED"
        BY <3>2, <4>1 DEF CredentialRow
      <4>4. kept \in [1 .. n -> CredentialRow] /\ kept[n].status = "ROTATED"
        BY <3>2, <4>1, <4>2, <4>3
      <4>5. \A v \in 1 .. n : v # n => kept[v] = credential[v]
        BY <4>1, <4>2
      <4>6. \A v \in 1 .. n : v # n /\ v + 1 \in 1 .. n => kept[v + 1].replaces = credential[v + 1].replaces
        BY <3>2, <4>1, <4>2 DEF CredentialRow
      <4> QED
        BY <1>1, <3>2, <4>4, <4>5, <4>6 DEF History
    <3> QED
      BY <1>4, <3>1, <3>2
  <2>2. /\ new = [w \in 1 .. n + 1 |-> IF w = n + 1 THEN ActiveCredential(replaces) ELSE kept[w]]
    <3>1. DOMAIN kept \cup {n + 1} = 1 .. n + 1
      BY <2>1
    <3> QED
      BY <3>1 DEF WithVersion
  <2>3. /\ ActiveCredential(replaces) \in CredentialRow
        /\ ActiveCredential(replaces).replaces = replaces
        /\ ~ActiveCredential(replaces).rotatedAt /\ ~ActiveCredential(replaces).revokedAt
    BY DEF ActiveCredential, CredentialRow
  <2>4. new \in [1 .. n + 1 -> CredentialRow]
    <3>1. \A w \in 1 .. n + 1 : w # n + 1 => w \in 1 .. n
      OBVIOUS
    <3> QED
      BY <2>1, <2>2, <2>3, <3>1
  <2> HIDE DEF new
  <2>5. /\ new[n + 1] = ActiveCredential(replaces)
        /\ \A v \in 1 .. n : new[v] = kept[v]
    BY <2>2
  <2>6. ASSUME NEW v \in 1 .. n + 1
        PROVE  /\ new[v].rotatedAt => v + 1 \in 1 .. n + 1 /\ new[v + 1].replaces
               /\ new[v].rotatedAt \/ new[v].revokedAt => new[v].status # "ACTIVE"
    <3>1. CASE v = n + 1
      BY <2>3, <2>5, <3>1
    <3>2. CASE v # n + 1
      <4>1. v \in 1 .. n /\ v + 1 \in 1 .. n + 1
        BY <3>2
      <4>2. CASE v = n
        BY <2>1, <2>3, <2>5, <4>1, <4>2
      <4>3. CASE v # n
        BY <2>1, <2>5, <4>1, <4>3
      <4> QED
        BY <4>2, <4>3
    <3> QED
      BY <3>1, <3>2
  <2> QED
    BY <2>4, <2>6 DEF History, new
<1>5. ASSUME NEW v \in CredentialVersions, RotateCredential(v)
      PROVE  ControlInv'
  <2>1. v \in 1 .. n /\ UNCHANGED <<req, alert, raised, writtenOver>> /\ credential' = Rotated(v)
    BY <1>2, <1>5 DEF CredentialVersions, RotateCredential
  <2>2. CASE v + 1 \notin 1 .. n
    <3>1. v = n /\ n + 1 \in Nat /\ n + 1 >= n
      BY <2>1, <2>2
    <3>2. History(credential', n + 1)
      BY <1>2, <1>4, <2>1, <2>2, <3>1 DEF Rotated, VersionFree, CredentialVersions, MarkRotated
    <3>3. req' \in [Procs -> ControlRequest \cup {None}] /\ raised' \in Nat /\ writtenOver' \in BOOLEAN
      BY <2>1 DEF ControlInv
    <3> QED
      BY <1>1, <1>3, <2>1, <3>1, <3>2, <3>3, ControlStep
  <2>3. CASE v + 1 \in 1 .. n
    <3>1. credential' = credential
      BY <1>2, <2>1, <2>3 DEF Rotated, VersionFree, CredentialVersions
    <3>2. History(credential', n) /\ n >= n
      BY <1>1, <3>1
    <3>3. req' \in [Procs -> ControlRequest \cup {None}] /\ raised' \in Nat /\ writtenOver' \in BOOLEAN
      BY <2>1 DEF ControlInv
    <3> QED
      BY <1>1, <1>3, <2>1, <3>2, <3>3, ControlStep
  <2> QED
    BY <2>2, <2>3
<1>6. ASSUME NEW v \in CredentialVersions, RevokeCredential(v)
      PROVE  ControlInv'
  <2>1. /\ v \in 1 .. n /\ UNCHANGED <<req, alert, raised, writtenOver>>
        /\ credential' = [credential EXCEPT ![v].status = "REVOKED", ![v].revokedAt = TRUE]
    BY <1>2, <1>6 DEF CredentialVersions, RevokeCredential
  <2> DEFINE new == [credential[v] EXCEPT !.status = "REVOKED", !.revokedAt = TRUE]
  <2>2. credential \in [1 .. n -> CredentialRow]
    BY <1>1 DEF History
  <2>3. credential' = [credential EXCEPT ![v] = new]
    BY <2>1, <2>2
  <2>4. /\ new \in CredentialRow /\ new.status = "REVOKED"
        /\ new.rotatedAt = credential[v].rotatedAt /\ new.replaces = credential[v].replaces
    BY <2>1, <2>2 DEF CredentialRow
  <2> HIDE DEF new
  <2>5. credential' \in [1 .. n -> CredentialRow]
    BY <2>1, <2>2, <2>3, <2>4
  <2>6. \A w \in 1 .. n : /\ credential'[w].rotatedAt = credential[w].rotatedAt
                          /\ credential'[w].replaces = credential[w].replaces
                          /\ credential'[w] = credential[w] \/ credential'[w].status = "REVOKED"
    BY <2>1, <2>2, <2>3, <2>4
  <2>7. History(credential', n) /\ n >= n
    BY <1>1, <2>5, <2>6 DEF History
  <2>8. req' \in [Procs -> ControlRequest \cup {None}] /\ raised' \in Nat /\ writtenOver' \in BOOLEAN
    BY <2>1 DEF ControlInv
  <2> QED
    BY <1>1, <1>3, <2>1, <2>7, <2>8, ControlStep
<1>7. ASSUME NEW p \in Procs, CreateCredentialRead(p)
      PROVE  ControlInv'
  <2> DEFINE r == [op |-> "create credential", version |-> n + 1]
  <2>1. req' = [req EXCEPT ![p] = r] /\ credential' = credential
    BY <1>2, <1>7 DEF CreateCredentialRead, Start, controlVars
  <2>2. r \in ControlRequest /\ r.op = "create credential" /\ r.version \in 1 .. n + 1
    BY DEF ControlRequest
  <2> HIDE DEF r
  <2>3. req' \in [Procs -> ControlRequest \cup {None}]
    BY <2>1, <2>2 DEF ControlInv
  <2>4. req'[p] = r /\ \A q \in Procs : q # p => req'[q] = req[q]
    BY <2>1 DEF ControlInv
  <2>5. ControlKnows(p, n)'
    BY <2>2, <2>4 DEF ControlKnows, Running
  <2>6. History(credential', n) /\ n >= n /\ raised' \in Nat /\ writtenOver' \in BOOLEAN
    BY <1>1, <2>1 DEF ControlInv
  <2> QED
    BY <1>1, <1>3, <2>3, <2>4, <2>5, <2>6, ControlStep
<1>8. ASSUME NEW p \in Procs, CreateCredentialWrite(p)
      PROVE  ControlInv'
  <2>1. /\ Running(p, "create credential") /\ req' = [req EXCEPT ![p] = None]
        /\ credential' = IF req[p].version \in 1 .. n THEN credential
                         ELSE WithVersion(credential, req[p].version, ActiveCredential(FALSE))
    BY <1>2, <1>8 DEF CreateCredentialWrite, Done, VersionFree, CredentialVersions
  <2>2. /\ req' \in [Procs -> ControlRequest \cup {None}]
        /\ \A q \in Procs : req'[q] = req[q] \/ req'[q] = None
        /\ raised' \in Nat /\ writtenOver' \in BOOLEAN
    BY <2>1 DEF ControlInv
  <2>3. CASE credential' = credential
    <3>1. History(credential', n) /\ n >= n
      BY <1>1, <2>3
    <3> QED
      BY <1>1, <1>3, <2>2, <3>1, ControlStep
  <2>4. CASE req[p].version \notin 1 .. n
    <3>1. req[p].version = n + 1 /\ n + 1 \in Nat /\ n + 1 >= n
      <4>1. req[p].version \in 1 .. n + 1
        BY <1>1, <2>1 DEF ControlKnows
      <4>2. \A w \in 1 .. n + 1 : w \notin 1 .. n => w = n + 1
        OBVIOUS
      <4> QED
        BY <2>4, <4>1, <4>2
    <3>2. History(credential', n + 1)
      <4>1. credential' = WithVersion(credential, n + 1, ActiveCredential(FALSE))
        BY <2>1, <2>4, <3>1
      <4>2. FALSE \in BOOLEAN
        OBVIOUS
      <4>3. History(WithVersion(credential, n + 1, ActiveCredential(FALSE)), n + 1)
        BY <1>1, <1>4, <4>2
      <4> QED
        BY <4>1, <4>3
    <3> QED
      BY <1>1, <1>3, <2>2, <3>1, <3>2, ControlStep
  <2> QED
    BY <2>1, <2>3, <2>4
<1> QED
  BY <1>5, <1>6, <1>7, <1>8

LEMMA AlertSteps ==
  ASSUME ControlInv,
         \/ Evaluate
         \/ \E p \in Procs : \/ AcknowledgeRead(p) \/ AcknowledgeWrite(p)
                             \/ ListAlerts(p) \/ ResolveAlert(p)
  PROVE  ControlInv'
<1>1. PICK n \in Nat : History(credential, n) /\ \A p \in Procs : ControlKnows(p, n)
  BY DEF ControlInv
<1>2. /\ req \in [Procs -> ControlRequest \cup {None}]
      /\ alert \in AlertRow \cup {None} /\ raised \in Nat /\ writtenOver \in BOOLEAN
      /\ alert # None => alert.uuid = raised \/ writtenOver
      /\ alert # None /\ alert.status # "OPEN" => closedFor = raised \/ writtenOver
      /\ n >= n
  BY DEF ControlInv, SignalsAreSeen
<1>3. CASE Evaluate
  <2>1. /\ raised' = raised + 1 /\ UNCHANGED <<req, credential, closedFor, writtenOver>>
        /\ alert' = [uuid |-> raised + 1, status |-> "OPEN", resolvedAt |-> FALSE]
    BY <1>3 DEF Evaluate
  <2>2. raised' \in Nat /\ alert' \in AlertRow /\ alert'.uuid = raised' /\ alert'.status = "OPEN"
    BY <1>2, <2>1 DEF AlertRow
  <2>3. SignalsAreSeen'
    BY <2>2 DEF SignalsAreSeen
  <2> QED
    BY <1>1, <1>2, <2>1, <2>2, <2>3, ControlStep
<1>4. ASSUME NEW p \in Procs, AcknowledgeRead(p)
      PROVE  ControlInv'
  <2> DEFINE r == [op |-> "acknowledge", row |-> alert]
  <2>1. /\ req' = [req EXCEPT ![p] = r] /\ alert # None
        /\ UNCHANGED <<credential, alert, raised, closedFor, writtenOver>>
    BY <1>4 DEF AcknowledgeRead, Start, controlVars
  <2>2. r \in ControlRequest /\ r.op = "acknowledge" /\ alert \in AlertRow
    BY <1>2, <2>1 DEF ControlRequest
  <2> HIDE DEF r
  <2>3. /\ req' \in [Procs -> ControlRequest \cup {None}]
        /\ req'[p] = r /\ \A q \in Procs : q # p => req'[q] = req[q]
    BY <1>2, <2>1, <2>2
  <2>4. ControlKnows(p, n)'
    BY <2>1, <2>2, <2>3 DEF ControlKnows, Running
  <2>5. SignalsAreSeen'
    BY <1>2, <2>1 DEF SignalsAreSeen
  <2> QED
    BY <1>1, <1>2, <2>1, <2>3, <2>4, <2>5, ControlStep
<1>5. ASSUME NEW p \in Procs, ListAlerts(p)
      PROVE  ControlInv'
  <2> DEFINE r == [op |-> "resolve", uuid |-> alert.uuid]
  <2>1. /\ req' = [req EXCEPT ![p] = r] /\ alert # None
        /\ UNCHANGED <<credential, alert, raised, closedFor, writtenOver>>
    BY <1>5 DEF ListAlerts, Start, controlVars
  <2>2. r \in ControlRequest /\ r.op = "resolve" /\ alert \in AlertRow
    BY <1>2, <2>1 DEF ControlRequest, AlertRow
  <2> HIDE DEF r
  <2>3. /\ req' \in [Procs -> ControlRequest \cup {None}]
        /\ req'[p] = r /\ \A q \in Procs : q # p => req'[q] = req[q]
    BY <1>2, <2>1, <2>2
  <2>4. ControlKnows(p, n)'
    BY <2>1, <2>2, <2>3 DEF ControlKnows, Running
  <2>5. SignalsAreSeen'
    BY <1>2, <2>1 DEF SignalsAreSeen
  <2> QED
    BY <1>1, <1>2, <2>1, <2>3, <2>4, <2>5, ControlStep
<1>6. ASSUME NEW p \in Procs, AcknowledgeWrite(p)
      PROVE  ControlInv'
  <2> DEFINE row == req[p].row
  <2>1. /\ Running(p, "acknowledge") /\ req' = [req EXCEPT ![p] = None]
        /\ alert' = [row EXCEPT !.status = "ACKNOWLEDGED"]
        /\ closedFor' = row.uuid
        /\ writtenOver' = (writtenOver \/ row # alert)
        /\ UNCHANGED <<credential, raised>>
    BY <1>6 DEF AcknowledgeWrite, Done
  <2>2. row \in AlertRow
    BY <1>2, <2>1 DEF Running, ControlRequest
  <2>3. alert \in AlertRow
    BY <1>1, <2>1 DEF ControlKnows
  <2> HIDE DEF row
  <2>4. alert' \in AlertRow /\ alert'.uuid = row.uuid
    BY <2>1, <2>2 DEF AlertRow
  <2>5. writtenOver' \in BOOLEAN /\ (~writtenOver' => row = alert /\ ~writtenOver)
    BY <1>2, <2>1
  <2>6. ~writtenOver' => alert.uuid = raised
    BY <1>2, <2>3, <2>5, ControlAssumption
  <2>7. (alert' # None => alert'.uuid = raised' \/ writtenOver') /\ SignalsAreSeen'
    BY <2>1, <2>4, <2>5, <2>6 DEF SignalsAreSeen
  <2>8. /\ req' \in [Procs -> ControlRequest \cup {None}] /\ raised' \in Nat
        /\ \A q \in Procs : req'[q] = req[q] \/ req'[q] = None
    BY <1>2, <2>1
  <2> QED
    BY <1>1, <1>2, <2>1, <2>4, <2>5, <2>7, <2>8, ControlStep
<1>7. ASSUME NEW p \in Procs, ResolveAlert(p)
      PROVE  ControlInv'
  <2>1. /\ Running(p, "resolve") /\ req' = [req EXCEPT ![p] = None]
        /\ UNCHANGED <<credential, raised, writtenOver>>
    BY <1>7 DEF ResolveAlert, Done
  <2>2. alert \in AlertRow
    BY <1>1, <2>1 DEF ControlKnows
  <2>3. /\ req' \in [Procs -> ControlRequest \cup {None}] /\ raised' \in Nat /\ writtenOver' \in BOOLEAN
        /\ \A q \in Procs : req'[q] = req[q] \/ req'[q] = None
    BY <1>2, <2>1
  <2>4. CASE /\ alert.uuid = req[p].uuid /\ closedFor' = req[p].uuid
             /\ alert' = [alert EXCEPT !.status = "RESOLVED", !.resolvedAt = TRUE]
    <3>1. alert' \in AlertRow /\ alert'.uuid = alert.uuid
      BY <2>2, <2>4 DEF AlertRow
    <3>2. (alert' # None => alert'.uuid = raised' \/ writtenOver') /\ SignalsAreSeen'
      BY <1>2, <2>1, <2>2, <2>4, <3>1, ControlAssumption DEF SignalsAreSeen
    <3> QED
      BY <1>1, <1>2, <2>1, <2>3, <3>1, <3>2, ControlStep
  <2>5. CASE UNCHANGED <<alert, closedFor>>
    <3>1. (alert' # None => alert'.uuid = raised' \/ writtenOver') /\ SignalsAreSeen'
      BY <1>2, <2>1, <2>5 DEF SignalsAreSeen
    <3> QED
      BY <1>1, <1>2, <2>1, <2>3, <2>5, <3>1, ControlStep
  <2> QED
    BY <1>7, <2>4, <2>5 DEF ResolveAlert, FoundByUuid
<1> QED
  BY <1>3, <1>4, <1>5, <1>6, <1>7

LEMMA ControlKeeps ==
  ASSUME ControlInv, RoadmapControlNext
  PROVE  ControlInv'
<1>1. CASE \/ \E v \in CredentialVersions : RotateCredential(v) \/ RevokeCredential(v)
           \/ \E p \in Procs : CreateCredentialRead(p) \/ CreateCredentialWrite(p)
  <2>1. UNCHANGED <<alert, raised, closedFor, writtenOver>>
    BY <1>1 DEF RotateCredential, RevokeCredential, CreateCredentialRead, CreateCredentialWrite,
                controlVars
  <2> QED
    BY <1>1, <2>1, CredentialSteps
<1> QED
  BY <1>1, AlertSteps DEF RoadmapControlNext

-----------------------------------------------------------------------------
(***************************************************************************)
(* Imports.                                                                *)
(***************************************************************************)

ImportRequest ==
  [op : {"import"}, at : {"create", "store", "prepare", "write", "finish"}, key : ImportKeys,
   row : Nat, writes : SUBSET Rows, known : SUBSET Rows, errors : Nat, processed : Nat]
CancelRequest == [op : {"cancel"}, at : {"write"}, key : ImportKeys]

\* The request that has created the job of its key.
Imports(p) == req[p] # None /\ req[p].op = "import" /\ req[p].at # "create"

\* What a request has counted is what it has stored, and without an error it has
\* prepared, and then stored or still to store, every row.
KnowsImport(p) ==
  LET r == req[p]
  IN  /\ r.op = "cancel" => job[r.key] # None
      /\ r.op = "import" /\ r.at \in {"create", "store"} =>
           r.row = 1 /\ r.writes = {} /\ r.errors = 0 /\ r.processed = 0
      /\ r.op = "import" /\ r.at # "create" =>
           job[r.key] # None /\ \A x \in reported : x.key # r.key
      /\ r.op = "import" /\ r.at \in {"store", "prepare", "finish"} =>
           StoredOf(r.key) = {} /\ r.processed = 0
      /\ r.op = "import" /\ r.at = "prepare" =>
           /\ r.row \in 1 .. FileRows + 1 /\ r.writes \subseteq 1 .. r.row - 1
           /\ r.errors = 0 => r.writes = 1 .. r.row - 1
      /\ r.op = "import" /\ r.at = "finish" => r.errors > 0
      /\ r.op = "import" /\ r.at = "write" /\ ~file.preview =>
           /\ StoredOf(r.key) \cap r.writes = {} /\ r.processed = Cardinality(StoredOf(r.key))
           /\ r.errors = 0 => StoredOf(r.key) \cup r.writes = Rows
           /\ file.transaction = "ALL_OR_NOTHING" /\ r.writes # {} => r.writes = Rows

KeysApart ==
  \A p, q \in Procs : Imports(p) /\ Imports(q) /\ req[p].key = req[q].key => p = q

ImportInv ==
  /\ file \in Files
  /\ req \in [Procs -> ImportRequest \cup CancelRequest \cup {None}]
  /\ job \in [ImportKeys -> JobRow \cup {None}]
  /\ \A x \in reported : x.key \in ImportKeys
  /\ \A k \in ImportKeys : job[k] = None => StoredOf(k) = {} /\ \A x \in reported : x.key # k
  /\ file.preview => stored = {}
  /\ \A p \in Procs : req[p] # None => KnowsImport(p)
  /\ KeysApart /\ AllOrNothing /\ ReportMatchesStore

LEMMA ImportInitial ==
  ASSUME RequestsInit, ImportJobsInit
  PROVE  ImportInv
<1>1. file \in Files
  <2>1. [valid |-> Rows, transaction |-> "ROW", conflict |-> "FAIL", preview |-> FALSE] \in Files
    BY DEF Files
  <2> QED
    BY <2>1 DEF ImportJobsInit
<1>2. stored = {} /\ reported = {} /\ \A k \in ImportKeys : StoredOf(k) = {}
  BY DEF ImportJobsInit, StoredOf
<1>3. \A p \in Procs : ~Imports(p) /\ req[p] = None
  BY DEF RequestsInit, Imports
<1> QED
  BY <1>1, <1>2, <1>3 DEF RequestsInit, ImportJobsInit, ImportInv, AllOrNothing, ReportMatchesStore,
     KeysApart

\* The rows of every key are finitely many.
LEMMA StoredFinite ==
  ASSUME NEW S, S \subseteq Rows
  PROVE  IsFiniteSet(S) /\ Cardinality(S) \in Nat
<1>1. IsFiniteSet(Rows)
  BY FS_Interval, ImportJobsAssumption DEF Rows
<1> QED
  BY <1>1, FS_Subset, FS_CardinalityType

\* A step of one request, which stores and reports for the key of its job only.
LEMMA ImportStep ==
  ASSUME ImportInv, NEW p \in Procs, NEW r \in ImportRequest \cup CancelRequest \cup {None},
         req' = [req EXCEPT ![p] = r], file' = file,
         job' \in [ImportKeys -> JobRow \cup {None}],
         \A k \in ImportKeys : job[k] # None => job'[k] # None,
         \A k \in ImportKeys : StoredOf(k)' = StoredOf(k) \/ (Imports(p) /\ k = req[p].key),
         \A x \in reported' : x \in reported \/ (Imports(p) /\ x.key = req[p].key),
         Imports(p)' => \A q \in Procs : q # p /\ Imports(q) => req[q].key # r.key,
         r # None => KnowsImport(p)',
         file.preview => stored' = {}, AllOrNothing', ReportMatchesStore'
  PROVE  ImportInv'
<1>1. /\ req' \in [Procs -> ImportRequest \cup CancelRequest \cup {None}] /\ req'[p] = r
      /\ \A q \in Procs : q # p => req'[q] = req[q] /\ (Imports(q)' <=> Imports(q))
  BY DEF ImportInv, Imports
<1>2. Imports(p) => /\ req[p].key \in ImportKeys /\ job[req[p].key] # None
  BY DEF ImportInv, Imports, ImportRequest, CancelRequest, KnowsImport
<1>3. \A x \in reported' : x.key \in ImportKeys
  BY <1>2 DEF ImportInv
<1>4. \A k \in ImportKeys : job'[k] = None => StoredOf(k)' = {} /\ \A x \in reported' : x.key # k
  <2> SUFFICES ASSUME NEW k \in ImportKeys, job'[k] = None
               PROVE  StoredOf(k)' = {} /\ \A x \in reported' : x.key # k
    OBVIOUS
  <2>1. job[k] = None /\ ~(Imports(p) /\ k = req[p].key)
    BY <1>2
  <2>2. StoredOf(k) = {} /\ \A x \in reported : x.key # k
    BY <2>1 DEF ImportInv
  <2> QED
    BY <2>1, <2>2
<1>5. KeysApart'
  <2> SUFFICES ASSUME NEW q \in Procs, NEW z \in Procs, Imports(q)', Imports(z)',
                      req'[q].key = req'[z].key
               PROVE  q = z
    BY DEF KeysApart
  <2> QED
    BY <1>1 DEF ImportInv, KeysApart
<1>6. ASSUME NEW q \in Procs, req'[q] # None
      PROVE  KnowsImport(q)'
  <2>1. CASE q = p
    BY <1>1, <1>6, <2>1
  <2>2. CASE q # p
    <3>1. /\ req'[q] = req[q] /\ KnowsImport(q) /\ req[q] \in ImportRequest \cup CancelRequest
          /\ req[q] # None
      BY <1>1, <1>6, <2>2 DEF ImportInv
    <3>2. PICK k \in ImportKeys : k = req[q].key
      BY <3>1 DEF ImportRequest, CancelRequest
    <3>3. job[k] # None => job'[k] # None
      BY <3>2
    <3>4. CASE Imports(q)
      <4>1. ~(Imports(p) /\ req[p].key = k)
        BY <2>2, <3>2, <3>4 DEF ImportInv, KeysApart
      <4>2. StoredOf(k)' = StoredOf(k)
        BY <3>2, <4>1
      <4>3. \A x \in reported' : x.key = k => x \in reported
        BY <4>1
      <4> QED
        BY <3>1, <3>2, <3>3, <4>2, <4>3 DEF KnowsImport, StoredOf
    <3>5. CASE ~Imports(q)
      BY <3>1, <3>2, <3>3, <3>5 DEF KnowsImport, Imports, ImportRequest, CancelRequest
    <3> QED
      BY <3>4, <3>5
  <2> QED
    BY <2>1, <2>2
<1> QED
  BY <1>1, <1>3, <1>4, <1>5, <1>6 DEF ImportInv

\* A step that stores and reports nothing.
LEMMA ImportQuiet ==
  ASSUME ImportInv, NEW p \in Procs, NEW r \in ImportRequest \cup CancelRequest \cup {None},
         req' = [req EXCEPT ![p] = r], UNCHANGED <<file, stored, reported>>,
         job' \in [ImportKeys -> JobRow \cup {None}],
         \A k \in ImportKeys : job[k] # None => job'[k] # None,
         Imports(p)' => \/ Imports(p) /\ r.key = req[p].key
                        \/ job[r.key] = None,
         r # None => KnowsImport(p)'
  PROVE  ImportInv'
<1>1. \A k : StoredOf(k)' = StoredOf(k)
  BY DEF StoredOf
<1>2. AllOrNothing' /\ ReportMatchesStore'
  <2>1. AllOrNothing'
    BY <1>1 DEF ImportInv, AllOrNothing
  <2>2. ReportMatchesStore'
    BY <1>1 DEF ImportInv, ReportMatchesStore
  <2> QED
    BY <2>1, <2>2
<1>3. Imports(p)' => \A q \in Procs : q # p /\ Imports(q) => req[q].key # r.key
  <2> SUFFICES ASSUME Imports(p)', NEW q \in Procs, q # p, Imports(q)
               PROVE  req[q].key # r.key
    OBVIOUS
  <2>1. job[req[q].key] # None
    BY DEF ImportInv, KnowsImport, Imports
  <2> QED
    BY <2>1 DEF ImportInv, KeysApart
<1>4. (\A x \in reported' : x \in reported) /\ (file.preview => stored' = {}) /\ file' = file
  BY DEF ImportInv
<1> QED
  BY <1>1, <1>2, <1>3, <1>4, ImportStep

\* The state of a job changes.
LEMMA JobChanges ==
  ASSUME ImportInv, NEW k \in ImportKeys, job[k] # None,
         NEW s \in {"QUEUED", "RUNNING", "SUCCEEDED", "FAILED", "CANCELLED"},
         job' = [job EXCEPT ![k].state = s]
  PROVE  /\ job' \in [ImportKeys -> JobRow \cup {None}]
         /\ \A j \in ImportKeys : job[j] # None => job'[j] # None
<1> DEFINE row == [job[k] EXCEPT !.state = s]
<1>1. job[k] \in JobRow
  BY DEF ImportInv
<1>2. row \in JobRow
  BY <1>1 DEF JobRow
<1>3. row # None /\ job' = [job EXCEPT ![k] = row]
  BY <1>2, ImportJobsAssumption DEF ImportInv
<1> HIDE DEF row
<1> QED
  BY <1>2, <1>3 DEF ImportInv

\* What an import looks like.
LEMMA ImportFields ==
  ASSUME ImportInv, NEW p \in Procs, Running(p, "import")
  PROVE  /\ req[p] \in ImportRequest /\ req[p].op = "import" /\ KnowsImport(p) /\ req[p] # None
         /\ req[p].key \in ImportKeys /\ req[p].writes \subseteq Rows
         /\ req[p].errors \in Nat /\ req[p].processed \in Nat
         /\ req[p].at # "create" => Imports(p) /\ job[req[p].key] # None
<1>1. req[p] \in ImportRequest /\ req[p].op = "import" /\ KnowsImport(p) /\ req[p] # None
  BY DEF ImportInv, Running, ImportRequest, CancelRequest
<1> QED
  BY <1>1 DEF ImportRequest, KnowsImport, Imports

\* An import that has created its job knows what it has stored.
LEMMA ImportKnows ==
  ASSUME NEW p \in Procs, NEW k \in ImportKeys, NEW r, req'[p] = r, r.op = "import", r.key = k,
         r.at \in {"store", "prepare", "write", "finish"},
         job'[k] # None, \A x \in reported' : x.key # k,
         r.at = "store" => r.row = 1 /\ r.writes = {} /\ r.errors = 0,
         r.at # "write" => StoredOf(k)' = {} /\ r.processed = 0,
         r.at = "prepare" => /\ r.row \in 1 .. FileRows + 1 /\ r.writes \subseteq 1 .. r.row - 1
                             /\ r.errors = 0 => r.writes = 1 .. r.row - 1,
         r.at = "finish" => r.errors > 0,
         r.at = "write" /\ ~file'.preview =>
           /\ StoredOf(k)' \cap r.writes = {} /\ r.processed = Cardinality(StoredOf(k)')
           /\ r.errors = 0 => StoredOf(k)' \cup r.writes = Rows
           /\ file'.transaction = "ALL_OR_NOTHING" /\ r.writes # {} => r.writes = Rows
  PROVE  KnowsImport(p)'
<1>1. req'[p].key = k /\ req'[p].op = "import"
  OBVIOUS
<1> QED
  BY <1>1 DEF KnowsImport, StoredOf

\* The rows that are written at once are rows that were to be written.
LEMMA NextWriteIn ==
  ASSUME ImportInv, NEW p \in Procs, req[p].writes \subseteq Rows, req[p].writes # {}
  PROVE  /\ NextWrite(p) \subseteq req[p].writes
         /\ file.transaction = "ALL_OR_NOTHING" => NextWrite(p) = req[p].writes
<1>1. file.transaction \in {"ROW", "BATCH", "ALL_OR_NOTHING"}
  BY DEF ImportInv, Files
<1>2. First(req[p].writes) \in req[p].writes
  <2>1. req[p].writes \subseteq Nat
    BY DEF Rows
  <2>2. \E n \in req[p].writes : \A m \in req[p].writes : n <= m
    BY <2>1, Smallest
  <2> QED
    BY <2>2 DEF First
<1>3. CASE file.transaction = "ROW"
  BY <1>2, <1>3 DEF NextWrite
<1>4. CASE file.transaction = "BATCH"
  BY <1>4 DEF NextWrite
<1>5. CASE file.transaction = "ALL_OR_NOTHING"
  BY <1>5 DEF NextWrite
<1> QED
  BY <1>1, <1>3, <1>4, <1>5

LEMMA ImportKeeps ==
  ASSUME ImportInv, ImportJobsNext
  PROVE  ImportInv'
<1>0. FileRows \in Nat /\ Rows = 1..FileRows /\ job \in [ImportKeys -> JobRow \cup {None}]
  BY ImportJobsAssumption DEF Rows, ImportInv
<1>1. ASSUME NEW p \in Procs, NEW k \in ImportKeys, ImportRead(p, k)
      PROVE  ImportInv'
  <2> DEFINE r == [op |-> "import", at |-> "create", key |-> k, row |-> 1, writes |-> {}, known |-> {},
                   errors |-> 0, processed |-> 0]
  <2>1. req' = [req EXCEPT ![p] = r] /\ UNCHANGED <<file, job, stored, reported>>
    BY <1>1 DEF ImportRead, Start, importVars
  <2>2. r \in ImportRequest
    BY DEF ImportRequest
  <2>3. /\ r.op = "import" /\ r.at = "create" /\ r.row = 1 /\ r.writes = {} /\ r.errors = 0
        /\ r.processed = 0
    OBVIOUS
  <2> HIDE DEF r
  <2>4. req'[p] = r
    BY <2>1 DEF ImportInv
  <2>5. KnowsImport(p)' /\ ~Imports(p)'
    BY <2>3, <2>4 DEF KnowsImport, Imports
  <2> QED
    BY <1>0, <2>1, <2>2, <2>5, ImportQuiet
<1>2. ASSUME NEW p \in Procs, CreateJob(p)
      PROVE  ImportInv'
  <2>1. /\ req[p] \in ImportRequest /\ KnowsImport(p) /\ req[p].op = "import" /\ req[p].at = "create"
        /\ req[p].key \in ImportKeys /\ ~Imports(p)
    BY <1>2, ImportFields DEF CreateJob, At, Imports
  <2>2. UNCHANGED <<file, stored, reported>>
    BY <1>2 DEF CreateJob
  <2>3. CASE ~KeyFree(req[p].key)
    <3>1. job' = job /\ req' = [req EXCEPT ![p] = None]
      BY <1>2, <2>3 DEF CreateJob, Done
    <3>2. ~Imports(p)'
      BY <3>1 DEF Imports, ImportInv
    <3> QED
      BY <1>0, <2>2, <3>1, <3>2, ImportQuiet
  <2>4. CASE KeyFree(req[p].key)
    <3> DEFINE r == [req[p] EXCEPT !.at = "store"]
               row == [state |-> "QUEUED", source |-> FALSE]
    <3>1. /\ job' = [job EXCEPT ![req[p].key] = row] /\ req' = [req EXCEPT ![p] = r]
          /\ job[req[p].key] = None
      BY <1>2, <2>4 DEF CreateJob, Goto, KeyFree
    <3>2. /\ r \in ImportRequest /\ r.op = "import" /\ r.at = "store" /\ r.key = req[p].key
          /\ r.row = req[p].row /\ r.writes = req[p].writes /\ r.errors = req[p].errors
          /\ r.processed = req[p].processed
      BY <2>1 DEF ImportRequest
    <3>3. row \in JobRow /\ row # None
      <4>1. row \in JobRow
        BY DEF JobRow
      <4> QED
        BY <4>1, ImportJobsAssumption
    <3> HIDE DEF r, row
    <3>4. /\ job' \in [ImportKeys -> JobRow \cup {None}] /\ job'[req[p].key] # None
          /\ \A k \in ImportKeys : job[k] # None => job'[k] # None
      BY <1>0, <2>1, <3>1, <3>3
    <3>5. req'[p] = r /\ r.row = 1 /\ r.writes = {} /\ r.errors = 0 /\ r.processed = 0
      BY <2>1, <3>1, <3>2 DEF ImportInv, KnowsImport
    <3>6. StoredOf(req[p].key) = {} /\ \A x \in reported : x.key # req[p].key
      BY <2>1, <3>1 DEF ImportInv
    <3>7. KnowsImport(p)'
      BY <2>2, <3>2, <3>4, <3>5, <3>6 DEF KnowsImport, StoredOf
    <3> QED
      BY <2>2, <3>1, <3>2, <3>4, <3>7, ImportQuiet
  <2> QED
    BY <2>3, <2>4
<1>3. ASSUME NEW p \in Procs, StoreSource(p)
      PROVE  ImportInv'
  <2>1. /\ req[p] \in ImportRequest /\ KnowsImport(p) /\ req[p].op = "import" /\ req[p].at = "store"
        /\ req[p].key \in ImportKeys /\ Imports(p) /\ job[req[p].key] # None
    BY <1>3, ImportFields DEF StoreSource, At
  <2> DEFINE r == [req[p] EXCEPT !.at = "prepare"]
             row == [state |-> "RUNNING", source |-> TRUE]
  <2>2. /\ UNCHANGED <<file, stored, reported>> /\ req' = [req EXCEPT ![p] = r]
        /\ job' = [job EXCEPT ![req[p].key] = row]
    BY <1>3 DEF StoreSource, Goto
  <2>3. /\ r \in ImportRequest /\ r.op = "import" /\ r.at = "prepare" /\ r.key = req[p].key
        /\ r.row = req[p].row /\ r.writes = req[p].writes /\ r.errors = req[p].errors
        /\ r.processed = req[p].processed
    BY <2>1 DEF ImportRequest
  <2>4. row \in JobRow /\ row # None
    <3>1. row \in JobRow
      BY DEF JobRow
    <3> QED
      BY <3>1, ImportJobsAssumption
  <2> HIDE DEF r, row
  <2>5. /\ job' \in [ImportKeys -> JobRow \cup {None}] /\ job'[req[p].key] # None
        /\ \A k \in ImportKeys : job[k] # None => job'[k] # None
    BY <1>0, <2>1, <2>2, <2>4
  <2>6. /\ req[p].row = 1 /\ req[p].writes = {} /\ req[p].processed = 0 /\ StoredOf(req[p].key) = {}
        /\ \A x \in reported : x.key # req[p].key
    BY <2>1 DEF KnowsImport
  <2>7. 1 \in 1 .. FileRows + 1 /\ 1 .. 1 - 1 = {}
    BY <1>0
  <2>8. req'[p] = r
    BY <2>2 DEF ImportInv
  <2>9. KnowsImport(p)'
    <3>1. PICK k \in ImportKeys : k = req[p].key
      BY <2>1
    <3>2. StoredOf(k)' = {} /\ job'[k] # None /\ \A x \in reported' : x.key # k
      BY <2>2, <2>5, <2>6, <3>1 DEF StoredOf
    <3>3. /\ r.row \in 1 .. FileRows + 1 /\ r.writes \subseteq 1 .. r.row - 1
          /\ r.writes = 1 .. r.row - 1
      BY <2>3, <2>6, <2>7
    <3> QED
      BY <2>3, <2>6, <2>8, <3>1, <3>2, <3>3, ImportKnows
  <2> QED
    BY <2>1, <2>2, <2>3, <2>5, <2>9, ImportQuiet
<1>4. ASSUME NEW p \in Procs, PrepareRow(p)
      PROVE  ImportInv'
  <2>1. /\ req[p] \in ImportRequest /\ KnowsImport(p) /\ req[p].op = "import" /\ req[p].at = "prepare"
        /\ req[p].key \in ImportKeys /\ Imports(p) /\ req[p].row \in Rows
        /\ job[req[p].key] # None
    BY <1>4, ImportFields DEF PrepareRow, At
  <2>2. /\ StoredOf(req[p].key) = {} /\ req[p].processed = 0
        /\ req[p].writes \subseteq 1 .. req[p].row - 1
        /\ req[p].errors = 0 => req[p].writes = 1 .. req[p].row - 1
        /\ \A x \in reported : x.key # req[p].key
    BY <2>1 DEF KnowsImport
  <2>3. Uuid(req[p].key, req[p].row) \notin stored
    BY <2>1, <2>2 DEF StoredOf
  <2>4. PICK n \in Nat : n = req[p].row + 1
    BY <1>0, <2>1
  <2> DEFINE failed == req[p].row \notin file.valid
  <2>5. PICK e \in Nat : e = IF failed THEN req[p].errors + 1 ELSE req[p].errors
    BY <2>1 DEF ImportRequest
  <2>6. PICK W \in SUBSET Rows : W = IF failed THEN req[p].writes ELSE req[p].writes \cup {req[p].row}
    BY <2>1 DEF ImportRequest
  <2> DEFINE r == [req[p] EXCEPT !.row = n, !.errors = e, !.writes = W]
  <2>7. req' = [req EXCEPT ![p] = r] /\ UNCHANGED <<file, job, stored, reported>>
    BY <1>4, <2>3, <2>4, <2>5, <2>6 DEF PrepareRow, importVars, ImportInv
  <2>8. /\ r \in ImportRequest /\ r.op = "import" /\ r.at = "prepare" /\ r.key = req[p].key
        /\ r.row = n /\ r.writes = W /\ r.errors = e /\ r.processed = req[p].processed
    BY <2>1 DEF ImportRequest
  <2>9. n \in 1 .. FileRows + 1 /\ n - 1 = req[p].row
    BY <1>0, <2>1, <2>4
  <2>10. (1 .. req[p].row - 1) \cup {req[p].row} = 1 .. n - 1
    BY <1>0, <2>1, <2>9
  <2>11. W \subseteq 1 .. n - 1
    BY <2>2, <2>6, <2>10
  <2>12. e = 0 => W = 1 .. n - 1
    <3>1. req[p].errors \in Nat
      BY <2>1 DEF ImportRequest
    <3>2. e = 0 => ~failed /\ req[p].errors = 0
      BY <2>5, <3>1
    <3> QED
      BY <2>2, <2>6, <2>10, <3>2
  <2> HIDE DEF r, failed
  <2>13. req'[p] = r
    BY <2>7 DEF ImportInv
  <2>14. KnowsImport(p)'
    <3>1. PICK k \in ImportKeys : k = req[p].key
      BY <2>1
    <3>2. StoredOf(k)' = {} /\ job'[k] # None /\ \A x \in reported' : x.key # k
      BY <2>1, <2>2, <2>7, <3>1 DEF StoredOf
    <3> QED
      BY <2>2, <2>8, <2>9, <2>11, <2>12, <2>13, <3>1, <3>2, ImportKnows
  <2> QED
    BY <1>0, <2>1, <2>7, <2>8, <2>14, ImportQuiet
<1>5. ASSUME NEW p \in Procs, PreparedAll(p)
      PROVE  ImportInv'
  <2>1. /\ req[p] \in ImportRequest /\ KnowsImport(p) /\ req[p].op = "import" /\ req[p].at = "prepare"
        /\ req[p].key \in ImportKeys /\ Imports(p) /\ req[p].row \notin Rows
        /\ job[req[p].key] # None /\ req[p].errors \in Nat
    BY <1>5, ImportFields DEF PreparedAll, At
  <2>2. /\ StoredOf(req[p].key) = {} /\ req[p].processed = 0 /\ req[p].row \in 1 .. FileRows + 1
        /\ req[p].errors = 0 => req[p].writes = 1 .. req[p].row - 1
        /\ \A x \in reported : x.key # req[p].key
    BY <2>1 DEF KnowsImport
  <2>3. req[p].row - 1 = FileRows
    BY <1>0, <2>1, <2>2
  <2>4. req[p].errors = 0 => req[p].writes = Rows
    BY <1>0, <2>2, <2>3
  <2>5. PICK l \in {"write", "finish"} : l = IF RefusesAll(p) THEN "finish" ELSE "write"
    OBVIOUS
  <2> DEFINE r == [req[p] EXCEPT !.at = l]
  <2>6. req' = [req EXCEPT ![p] = r] /\ UNCHANGED <<file, job, stored, reported>>
    BY <1>5, <2>5 DEF PreparedAll, Goto, importVars
  <2>7. /\ r \in ImportRequest /\ r.op = "import" /\ r.at = l /\ r.key = req[p].key
        /\ r.writes = req[p].writes /\ r.errors = req[p].errors /\ r.processed = req[p].processed
    BY <2>1 DEF ImportRequest
  <2>8. l = "finish" => req[p].errors > 0
    BY <2>5 DEF RefusesAll
  <2>9. l = "write" /\ file.transaction = "ALL_OR_NOTHING" => req[p].writes = Rows
    BY <2>1, <2>4, <2>5 DEF RefusesAll
  <2> HIDE DEF r
  <2>10. req'[p] = r
    BY <2>6 DEF ImportInv
  <2>11. Cardinality({}) = 0
    BY FS_EmptySet
  <2>12. KnowsImport(p)'
    <3>1. PICK k \in ImportKeys : k = req[p].key
      BY <2>1
    <3>2. StoredOf(k)' = {} /\ job'[k] # None /\ \A x \in reported' : x.key # k
      BY <2>1, <2>2, <2>6, <3>1 DEF StoredOf
    <3>3. /\ r.errors = 0 => r.writes = Rows
          /\ r.at = "finish" => r.errors > 0
          /\ r.at = "write" /\ file'.transaction = "ALL_OR_NOTHING" => r.writes = Rows
      BY <2>4, <2>6, <2>7, <2>8, <2>9
    <3> QED
      BY <2>2, <2>7, <2>10, <2>11, <3>1, <3>2, <3>3, ImportKnows
  <2> QED
    <3>1. UNCHANGED <<file, stored, reported>> /\ job' \in [ImportKeys -> JobRow \cup {None}]
      BY <1>0, <2>6
    <3>2. \A k \in ImportKeys : job[k] # None => job'[k] # None
      BY <2>6
    <3> QED
      BY <2>1, <2>6, <2>7, <2>12, <3>1, <3>2, ImportQuiet
<1>6. ASSUME NEW p \in Procs, WriteRows(p)
      PROVE  ImportInv'
  <2>1. /\ req[p] \in ImportRequest /\ KnowsImport(p) /\ req[p].op = "import" /\ req[p].at = "write"
        /\ Imports(p) /\ job[req[p].key] # None /\ req[p].writes \subseteq Rows
        /\ req[p].errors \in Nat /\ req[p].processed \in Nat
    BY <1>6, ImportFields DEF WriteRows, At
  <2>2. PICK k \in ImportKeys : k = req[p].key
    BY <2>1 DEF ImportRequest
  <2>3. req[p].writes # {} /\ ~file.preview /\ UNCHANGED <<file, job, reported>>
    BY <1>6 DEF WriteRows
  <2>4. PICK W \in SUBSET req[p].writes :
          /\ W = NextWrite(p)
          /\ file.transaction = "ALL_OR_NOTHING" => W = req[p].writes
    BY <2>1, <2>3, NextWriteIn
  <2>5. W \subseteq Rows /\ IsFiniteSet(W)
    BY <2>1, StoredFinite
  <2>6. PICK n \in Nat : n = Cardinality(W)
    BY <2>5, StoredFinite
  <2>7. /\ StoredOf(k) \cap req[p].writes = {} /\ req[p].processed = Cardinality(StoredOf(k))
        /\ req[p].errors = 0 => StoredOf(k) \cup req[p].writes = Rows
        /\ file.transaction = "ALL_OR_NOTHING" => req[p].writes = Rows
        /\ \A x \in reported : x.key # k
    BY <2>1, <2>2, <2>3 DEF KnowsImport
  <2>8. CASE /\ stored' = stored \cup {Uuid(req[p].key, r) : r \in W}
             /\ req' = [req EXCEPT ![p].writes = @ \ W, ![p].processed = @ + n]
    <3>1. PICK m \in Nat : m = req[p].processed + n
      BY <2>1
    <3> DEFINE r == [req[p] EXCEPT !.writes = @ \ W, !.processed = m]
    <3>2. req' = [req EXCEPT ![p] = r]
      BY <2>8, <3>1 DEF ImportInv
    <3>3. /\ r \in ImportRequest /\ r.op = "import" /\ r.at = "write" /\ r.key = k
          /\ r.writes = req[p].writes \ W /\ r.errors = req[p].errors /\ r.processed = m
      BY <2>1, <2>2 DEF ImportRequest
    <3> HIDE DEF r
    <3>4. req'[p] = r
      BY <3>2 DEF ImportInv
    <3>5. StoredOf(k)' = StoredOf(k) \cup W
      BY <2>2, <2>5, <2>8 DEF StoredOf, Uuid
    <3>6. \A j \in ImportKeys : j # k => StoredOf(j)' = StoredOf(j)
      BY <2>2, <2>8 DEF StoredOf, Uuid
    <3>7. Cardinality(StoredOf(k) \cup W) = m
      <4>1. StoredOf(k) \cap W = {} /\ IsFiniteSet(StoredOf(k)) /\ Cardinality(StoredOf(k)) \in Nat
        BY <2>4, <2>7, StoredFinite DEF StoredOf
      <4>2. Cardinality(StoredOf(k) \cup W) = Cardinality(StoredOf(k)) + Cardinality(W) - Cardinality({})
        BY <2>5, <4>1, FS_Union
      <4> QED
        BY <2>6, <2>7, <3>1, <4>1, <4>2, FS_EmptySet
    <3>8. KnowsImport(p)'
      <4>1. StoredOf(k)' \cap r.writes = {}
        BY <2>7, <3>3, <3>5
      <4>2. r.errors = 0 => StoredOf(k)' \cup r.writes = Rows
        <5>1. (StoredOf(k) \cup W) \cup (req[p].writes \ W) = StoredOf(k) \cup req[p].writes
          BY <2>4
        <5> QED
          BY <2>7, <3>3, <3>5, <5>1
      <4>3. file.transaction = "ALL_OR_NOTHING" => r.writes = {}
        BY <2>4, <3>3
      <4>4. r.processed = Cardinality(StoredOf(k)')
        BY <3>3, <3>5, <3>7
      <4>5. file' = file /\ job'[k] # None /\ \A x \in reported' : x.key # k
        BY <2>1, <2>2, <2>3, <2>7
      <4> QED
        BY <3>3, <3>4, <4>1, <4>2, <4>3, <4>4, <4>5 DEF KnowsImport, StoredOf
    <3>9. AllOrNothing'
      <4>1. ASSUME file.transaction = "ALL_OR_NOTHING", NEW j \in ImportKeys
            PROVE  StoredOf(j)' \in {{}, Rows}
        <5>1. CASE j = k
          <6>1. StoredOf(k)' = Rows
            <7>1. W = Rows
              BY <2>4, <2>7, <4>1
            <7>2. StoredOf(k) \subseteq Rows
              BY DEF StoredOf
            <7> QED
              BY <3>5, <7>1, <7>2
          <6> QED
            BY <5>1, <6>1
        <5>2. CASE j # k
          BY <3>6, <4>1, <5>2 DEF ImportInv, AllOrNothing
        <5> QED
          BY <5>1, <5>2
      <4> QED
        BY <2>3, <4>1 DEF AllOrNothing
    <3>10. ReportMatchesStore'
      <4>1. \A x \in reported' : x \in reported /\ x.key \in ImportKeys /\ StoredOf(x.key)' = StoredOf(x.key)
        BY <2>3, <2>7, <3>6 DEF ImportInv
      <4> QED
        BY <2>3, <4>1 DEF ImportInv, ReportMatchesStore
    <3>11. Imports(p)' => \A q \in Procs : q # p /\ Imports(q) => req[q].key # r.key
      BY <2>1, <2>2, <3>3 DEF ImportInv, KeysApart
    <3>12. /\ \A j \in ImportKeys : StoredOf(j)' = StoredOf(j) \/ (Imports(p) /\ j = req[p].key)
           /\ \A x \in reported' : x \in reported
           /\ file.preview => stored' = {}
      BY <2>1, <2>2, <2>3, <3>6
    <3> QED
      BY <1>0, <2>3, <3>2, <3>3, <3>8, <3>9, <3>10, <3>11, <3>12, ImportStep
  <2>9. CASE /\ UNCHANGED stored /\ file.transaction = "ALL_OR_NOTHING"
             /\ req' = [req EXCEPT ![p].writes = {}, ![p].errors = 1]
    <3> DEFINE r == [req[p] EXCEPT !.writes = {}, !.errors = 1]
    <3>1. req' = [req EXCEPT ![p] = r]
      BY <2>9 DEF ImportInv
    <3>2. /\ r \in ImportRequest /\ r.op = "import" /\ r.at = "write" /\ r.key = k
          /\ r.writes = {} /\ r.errors = 1 /\ r.processed = req[p].processed
      BY <2>1, <2>2 DEF ImportRequest
    <3> HIDE DEF r
    <3>3. req'[p] = r
      BY <3>1 DEF ImportInv
    <3>4. KnowsImport(p)'
      <4>1. /\ StoredOf(k)' = StoredOf(k) /\ job'[k] # None /\ \A x \in reported' : x.key # k
        BY <2>1, <2>2, <2>3, <2>7, <2>9 DEF StoredOf
      <4>2. r.processed = Cardinality(StoredOf(k)') /\ StoredOf(k)' \cap r.writes = {}
        BY <2>7, <3>2, <4>1
      <4> QED
        BY <3>2, <3>3, <4>1, <4>2, ImportKnows
    <3>5. UNCHANGED <<file, stored, reported>> /\ job' \in [ImportKeys -> JobRow \cup {None}]
      BY <1>0, <2>3, <2>9
    <3>6. \A j \in ImportKeys : job[j] # None => job'[j] # None
      BY <2>3
    <3>7. Imports(p)' => Imports(p) /\ r.key = req[p].key
      BY <2>1, <2>2, <3>2
    <3> QED
      BY <3>1, <3>2, <3>4, <3>5, <3>6, <3>7, ImportQuiet
  <2>10. CASE /\ UNCHANGED stored /\ file.transaction # "ALL_OR_NOTHING"
              /\ req' = [req EXCEPT ![p].writes = @ \ W, ![p].errors = @ + n]
    <3>1. PICK m \in Nat : m = req[p].errors + n
      BY <2>1
    <3> DEFINE r == [req[p] EXCEPT !.writes = @ \ W, !.errors = m]
    <3>2. req' = [req EXCEPT ![p] = r]
      BY <2>10, <3>1 DEF ImportInv
    <3>3. /\ r \in ImportRequest /\ r.op = "import" /\ r.at = "write" /\ r.key = k
          /\ r.writes = req[p].writes \ W /\ r.errors = m /\ r.processed = req[p].processed
      BY <2>1, <2>2 DEF ImportRequest
    <3> HIDE DEF r
    <3>4. req'[p] = r
      BY <3>2 DEF ImportInv
    <3>5. m = 0 => req[p].errors = 0 /\ W = {}
      <4>1. n = 0 => W = {}
        BY <2>5, <2>6, FS_EmptySet
      <4> QED
        BY <2>1, <3>1, <4>1
    <3>6. KnowsImport(p)'
      <4>1. /\ StoredOf(k)' = StoredOf(k) /\ job'[k] # None /\ \A x \in reported' : x.key # k
        BY <2>1, <2>2, <2>3, <2>7, <2>10 DEF StoredOf
      <4>2. r.processed = Cardinality(StoredOf(k)') /\ StoredOf(k)' \cap r.writes = {}
        BY <2>7, <3>3, <4>1
      <4>3. r.errors = 0 => StoredOf(k)' \cup r.writes = Rows
        BY <2>7, <3>3, <3>5, <4>1
      <4>4. file'.transaction # "ALL_OR_NOTHING"
        BY <2>3, <2>10
      <4> QED
        BY <3>3, <3>4, <4>1, <4>2, <4>3, <4>4, ImportKnows
    <3>7. UNCHANGED <<file, stored, reported>> /\ job' \in [ImportKeys -> JobRow \cup {None}]
      BY <1>0, <2>3, <2>10
    <3>8. \A j \in ImportKeys : job[j] # None => job'[j] # None
      BY <2>3
    <3>9. Imports(p)' => Imports(p) /\ r.key = req[p].key
      BY <2>1, <2>2, <3>3
    <3> QED
      BY <3>2, <3>3, <3>6, <3>7, <3>8, <3>9, ImportQuiet
  <2> QED
    <3>1. \/ /\ stored' = stored \cup {Uuid(req[p].key, r) : r \in W}
             /\ req' = [req EXCEPT ![p].writes = @ \ W, ![p].processed = @ + n]
          \/ /\ UNCHANGED stored
             /\ req' = IF file.transaction = "ALL_OR_NOTHING"
                       THEN [req EXCEPT ![p].writes = {}, ![p].errors = 1]
                       ELSE [req EXCEPT ![p].writes = @ \ W, ![p].errors = @ + n]
      BY <1>6, <2>4, <2>6 DEF WriteRows
    <3> QED
      BY <2>8, <2>9, <2>10, <3>1
<1>7. ASSUME NEW p \in Procs, CountPreview(p)
      PROVE  ImportInv'
  <2>1. /\ req[p] \in ImportRequest /\ KnowsImport(p) /\ req[p].op = "import" /\ req[p].at = "write"
        /\ Imports(p) /\ job[req[p].key] # None /\ req[p].key \in ImportKeys
        /\ req[p].writes \subseteq Rows
    BY <1>7, ImportFields DEF CountPreview, At
  <2>2. PICK n \in Nat : n = Cardinality(req[p].writes)
    BY <2>1, StoredFinite
  <2> DEFINE r == [req[p] EXCEPT !.writes = {}, !.processed = n]
  <2>3. req' = [req EXCEPT ![p] = r] /\ UNCHANGED <<file, job, stored, reported>> /\ file.preview
    BY <1>7, <2>2 DEF CountPreview, importVars, ImportInv
  <2>4. r \in ImportRequest /\ r.op = "import" /\ r.at = "write" /\ r.key = req[p].key
    BY <2>1 DEF ImportRequest
  <2> HIDE DEF r
  <2>5. req'[p] = r
    BY <2>3 DEF ImportInv
  <2>6. KnowsImport(p)'
    BY <2>1, <2>3, <2>4, <2>5 DEF KnowsImport
  <2> QED
    BY <1>0, <2>1, <2>3, <2>4, <2>6, ImportQuiet
<1>8. ASSUME NEW p \in Procs, Finish(p)
      PROVE  ImportInv'
  <2>1. /\ req[p] \in ImportRequest /\ KnowsImport(p) /\ req[p].op = "import" /\ req[p].at \in {"write", "finish"}
        /\ req[p].at = "write" => req[p].writes = {}
        /\ Imports(p) /\ job[req[p].key] # None /\ req[p].errors \in Nat
    BY <1>8, ImportFields DEF Finish, At
  <2>2. PICK k \in ImportKeys : k = req[p].key
    BY <2>1 DEF ImportRequest
  <2>3. PICK s \in {"SUCCEEDED", "FAILED"} : s = FinalState(p)
    BY DEF FinalState
  <2> DEFINE x == [key |-> k, state |-> s, processed |-> req[p].processed]
  <2>4. /\ job' = [job EXCEPT ![k].state = s] /\ reported' = reported \cup {x}
        /\ req' = [req EXCEPT ![p] = None] /\ UNCHANGED <<file, stored>>
    BY <1>8, <2>2, <2>3 DEF Finish, Done
  <2>5. /\ job' \in [ImportKeys -> JobRow \cup {None}]
        /\ \A j \in ImportKeys : job[j] # None => job'[j] # None
    BY <2>1, <2>2, <2>4, JobChanges
  <2>6. x.key = k /\ x.state = s /\ x.processed = req[p].processed
    OBVIOUS
  <2> HIDE DEF x
  <2>7. \A j : StoredOf(j)' = StoredOf(j)
    BY <2>4 DEF StoredOf
  <2>8. AllOrNothing'
    BY <2>4, <2>7 DEF ImportInv, AllOrNothing
  <2>9. ~file.preview => /\ x.processed = Cardinality(StoredOf(k))
                         /\ x.state = "SUCCEEDED" => StoredOf(k) = Rows
    <3>1. CASE req[p].at = "finish"
      <4>1. StoredOf(k) = {} /\ req[p].processed = 0 /\ s = "FAILED"
        BY <2>1, <2>2, <2>3, <3>1 DEF KnowsImport, FinalState
      <4> QED
        BY <2>6, <4>1, FS_EmptySet
    <3>2. CASE req[p].at = "write"
      <4>1. ~file.preview => /\ req[p].processed = Cardinality(StoredOf(k))
                             /\ req[p].errors = 0 => StoredOf(k) \cup {} = Rows
        BY <2>1, <2>2, <3>2 DEF KnowsImport
      <4>2. s = "SUCCEEDED" => req[p].errors = 0
        BY <2>1, <2>3 DEF FinalState
      <4> QED
        BY <2>6, <4>1, <4>2
    <3> QED
      BY <2>1, <3>1, <3>2
  <2>10. ReportMatchesStore'
    BY <2>4, <2>6, <2>7, <2>9 DEF ImportInv, ReportMatchesStore
  <2>11. /\ \A j \in ImportKeys : StoredOf(j)' = StoredOf(j)
         /\ \A y \in reported' : y \in reported \/ (Imports(p) /\ y.key = req[p].key)
         /\ file' = file /\ (file.preview => stored' = {}) /\ ~Imports(p)'
    BY <2>1, <2>2, <2>4, <2>6, <2>7 DEF ImportInv, Imports
  <2> QED
    BY <2>4, <2>5, <2>8, <2>10, <2>11, ImportStep
<1>9. ASSUME NEW p \in Procs, FailImport(p)
      PROVE  ImportInv'
  <2>1. /\ req[p].key \in ImportKeys /\ job[req[p].key] # None /\ UNCHANGED <<file, stored, reported>>
        /\ req' = [req EXCEPT ![p] = None] /\ job' = [job EXCEPT ![req[p].key].state = "FAILED"]
    BY <1>9, ImportFields DEF FailImport, At, Done
  <2>2. /\ job' \in [ImportKeys -> JobRow \cup {None}]
        /\ \A j \in ImportKeys : job[j] # None => job'[j] # None
    BY <2>1, JobChanges
  <2>3. ~Imports(p)'
    BY <2>1 DEF Imports, ImportInv
  <2> QED
    BY <2>1, <2>2, <2>3, ImportQuiet
<1>10. ASSUME NEW p \in Procs, NEW k \in ImportKeys, CancelRead(p, k)
       PROVE  ImportInv'
  <2> DEFINE r == [op |-> "cancel", at |-> "write", key |-> k]
  <2>1. req' = [req EXCEPT ![p] = r] /\ UNCHANGED <<file, job, stored, reported>> /\ job[k] # None
    BY <1>10 DEF CancelRead, Start, importVars
  <2>2. r \in CancelRequest /\ r.op = "cancel" /\ r.key = k
    BY DEF CancelRequest
  <2> HIDE DEF r
  <2>3. req'[p] = r
    BY <2>1 DEF ImportInv
  <2>4. KnowsImport(p)' /\ ~Imports(p)'
    BY <2>1, <2>2, <2>3 DEF KnowsImport, Imports
  <2> QED
    BY <1>0, <2>1, <2>2, <2>4, ImportQuiet
<1>11. ASSUME NEW p \in Procs, CancelWrite(p)
       PROVE  ImportInv'
  <2>1. req[p] \in CancelRequest /\ KnowsImport(p) /\ req[p].op = "cancel"
    BY <1>11 DEF CancelWrite, Running, ImportInv, ImportRequest, CancelRequest
  <2>2. /\ req[p].key \in ImportKeys /\ job[req[p].key] # None /\ UNCHANGED <<file, stored, reported>>
        /\ req' = [req EXCEPT ![p] = None] /\ job' = [job EXCEPT ![req[p].key].state = "CANCELLED"]
    BY <1>11, <2>1 DEF CancelWrite, Done, CancelRequest, KnowsImport
  <2>3. /\ job' \in [ImportKeys -> JobRow \cup {None}]
        /\ \A j \in ImportKeys : job[j] # None => job'[j] # None
    BY <2>2, JobChanges
  <2>4. ~Imports(p)'
    BY <2>2 DEF Imports, ImportInv
  <2> QED
    BY <2>2, <2>3, <2>4, ImportQuiet
<1>12. ASSUME NEW p \in Procs, ImportAbandon(p)
       PROVE  ImportInv'
  <2>1. req' = [req EXCEPT ![p] = None] /\ UNCHANGED <<file, job, stored, reported>>
    BY <1>12 DEF ImportAbandon, Done, importVars
  <2>2. ~Imports(p)'
    BY <2>1 DEF Imports, ImportInv
  <2> QED
    BY <1>0, <2>1, <2>2, ImportQuiet
<1> QED
  BY <1>1, <1>2, <1>3, <1>4, <1>5, <1>6, <1>7, <1>8, <1>9, <1>10, <1>11, <1>12 DEF ImportJobsNext

\* Nothing changes.
LEMMA ImportStutters ==
  ASSUME ImportInv, UNCHANGED <<req, importVars>>
  PROVE  ImportInv'
<1>1. UNCHANGED <<req, file, job, stored, reported>>
  BY DEF importVars
<1>2. \A k : StoredOf(k)' = StoredOf(k)
  BY <1>1 DEF StoredOf
<1>3. \A p \in Procs : KnowsImport(p) => KnowsImport(p)'
  BY <1>1 DEF KnowsImport, StoredOf
<1>4. KeysApart' /\ (file.preview => stored = {})
  BY <1>1 DEF ImportInv, KeysApart, Imports
<1>5. AllOrNothing'
  BY <1>1, <1>2 DEF ImportInv, AllOrNothing
<1>6. ReportMatchesStore'
  BY <1>1, <1>2 DEF ImportInv, ReportMatchesStore
<1> QED
  BY <1>1, <1>2, <1>3, <1>4, <1>5, <1>6 DEF ImportInv

-----------------------------------------------------------------------------
(***************************************************************************)
(* Settings.                                                               *)
(***************************************************************************)

UpdateRequest ==
  [op : {"update"}, at : {"write", "invalidate"}, version : 0..MaxSettingVersion]

SettingRequest ==
  [op : {"get"}, at : {"read"}]
    \cup [op : {"get"}, at : {"cache"}, version : 0..MaxSettingVersion]
    \cup UpdateRequest

\* An update has written and not yet emptied the cache.
Invalidates(p) == Running(p, "update") /\ At(p, "invalidate")

SettingsInv ==
  /\ req \in [Procs -> SettingRequest \cup {None}]
  /\ setting \in 0..MaxSettingVersion
  /\ \A n \in replaced.once : n \in 0..MaxSettingVersion /\ n < setting
  /\ replaced.twice = {}
  /\ cache = None \/ cache.version = setting \/ cache.version \in overtaken
       \/ \E p \in Procs : Invalidates(p)

LEMMA SettingsInitial ==
  ASSUME RequestsInit, SystemSettingsInit
  PROVE  SettingsInv
BY SystemSettingsAssumption DEF RequestsInit, SystemSettingsInit, SettingsInv

\* A step of one request that is not, and was not, between its write and the cache.
LEMMA SettingsStep ==
  ASSUME SettingsInv, NEW p \in Procs, NEW r \in SettingRequest \cup {None},
         req' = [req EXCEPT ![p] = r], ~Invalidates(p), UNCHANGED <<setting, replaced>>,
         \/ cache' = None
         \/ cache' = cache /\ overtaken' = overtaken
         \/ cache'.version = setting \/ cache'.version \in overtaken'
  PROVE  SettingsInv'
<1>1. \A q \in Procs : Invalidates(q) => Invalidates(q)'
  BY DEF Invalidates, Running, At, SettingsInv
<1> QED
  BY <1>1 DEF SettingsInv

LEMMA SettingsKeeps ==
  ASSUME SettingsInv, SystemSettingsNext
  PROVE  SettingsInv'
<1>1. CASE Tick /\ UNCHANGED settingVars
  BY <1>1 DEF Tick, settingVars, SettingsInv, Invalidates, Running, At
<1>2. ASSUME NEW p \in Procs, GetStart(p)
      PROVE  SettingsInv'
  <2> DEFINE r == [op |-> "get", at |-> "read"]
  <2>1. req' = [req EXCEPT ![p] = r] /\ r \in SettingRequest /\ ~Invalidates(p)
    BY <1>2 DEF GetStart, Start, SettingRequest, Invalidates, Running
  <2> HIDE DEF r
  <2> QED
    BY <1>2, <2>1, SettingsStep DEF GetStart
<1>3. ASSUME NEW p \in Procs, GetRead(p)
      PROVE  SettingsInv'
  <2> DEFINE r == [op |-> "get", at |-> "cache", version |-> setting]
  <2>1. req' = [req EXCEPT ![p] = r] /\ r \in SettingRequest /\ ~Invalidates(p)
    BY <1>3 DEF GetRead, SettingRequest, Invalidates, Running, SettingsInv
  <2> HIDE DEF r
  <2> QED
    BY <1>3, <2>1, SettingsStep DEF GetRead, settingVars
<1>4. ASSUME NEW p \in Procs, GetCache(p)
      PROVE  SettingsInv'
  <2>1. req' = [req EXCEPT ![p] = None] /\ ~Invalidates(p)
    BY <1>4 DEF GetCache, Done, Invalidates, Running
  <2>2. cache'.version = setting \/ cache'.version \in overtaken'
    BY <1>4 DEF GetCache
  <2> QED
    BY <1>4, <2>1, <2>2, SettingsStep DEF GetCache
<1>5. ASSUME NEW p \in Procs, NEW e, UpsertRead(p, e)
      PROVE  SettingsInv'
  <2> DEFINE r == [op |-> "update", at |-> "write", version |-> setting]
  <2>1. req' = [req EXCEPT ![p] = r] /\ r \in SettingRequest /\ ~Invalidates(p)
    BY <1>5 DEF UpsertRead, Start, SettingRequest, UpdateRequest, Invalidates, Running, SettingsInv
  <2> HIDE DEF r
  <2> QED
    BY <1>5, <2>1, SettingsStep DEF UpsertRead, settingVars
<1>6. ASSUME NEW p \in Procs, UpsertWrite(p)
      PROVE  SettingsInv'
  <2>1. req[p] \in UpdateRequest /\ ~Invalidates(p)
    BY <1>6 DEF UpsertWrite, Running, At, Invalidates, SettingsInv, SettingRequest, UpdateRequest
  <2>2. CASE SettingVersionSame(p)
    <3> DEFINE r == [req[p] EXCEPT !.at = "invalidate"]
    <3>1. req' = [req EXCEPT ![p] = r] /\ r \in UpdateRequest /\ r.at = "invalidate" /\ r.op = "update"
      BY <1>6, <2>1, <2>2 DEF UpsertWrite, Goto, UpdateRequest
    <3>2. r # None
      BY <3>1, SystemSettingsAssumption DEF UpdateRequest
    <3> HIDE DEF r
    <3>3. Invalidates(p)' /\ req' \in [Procs -> SettingRequest \cup {None}]
      BY <3>1, <3>2 DEF Invalidates, Running, At, SettingsInv, SettingRequest
    <3>4. setting' = setting + 1 /\ setting' \in 0..MaxSettingVersion
      BY <1>6, <2>2, SystemSettingsAssumption DEF UpsertWrite, SettingsInv
    <3>5. req[p].version = setting /\ setting \notin replaced.once
      BY <2>2 DEF SettingVersionSame, SettingsInv
    <3>6. replaced'.twice = {} /\ replaced'.once = replaced.once \cup {setting}
      BY <1>6, <2>2, <3>5 DEF UpsertWrite, SettingsInv
    <3>7. \A n \in replaced'.once : n \in 0..MaxSettingVersion /\ n < setting'
      BY <3>4, <3>6 DEF SettingsInv
    <3> QED
      BY <3>3, <3>4, <3>6, <3>7 DEF SettingsInv
  <2>3. CASE ~SettingVersionSame(p)
    BY <1>6, <2>1, <2>3, SettingsStep DEF UpsertWrite, Done
  <2> QED
    BY <2>2, <2>3
<1>7. ASSUME NEW p \in Procs, InvalidateCache(p)
      PROVE  SettingsInv'
  BY <1>7 DEF InvalidateCache, Invalidated, Done, SettingsInv
<1> QED
  BY <1>1, <1>2, <1>3, <1>4, <1>5, <1>6, <1>7 DEF SystemSettingsNext

LEMMA SettingsImplies ==
  ASSUME SettingsInv
  PROVE  VersionReplacedOnce /\ StaleOnlyWhenOvertaken
BY DEF SettingsInv, VersionReplacedOnce, StaleOnlyWhenOvertaken, Invalidates

-----------------------------------------------------------------------------
(***************************************************************************)
(* Notifications.                                                          *)
(***************************************************************************)

TakeRequest  == [op : {"deliver"}, at : {"take"}, due : Dues]
RetryRequest == [op : {"retry delivery"}, at : {"update"}, taken : Deliveries, attempts : Nat]

NotifyRequest == TakeRequest \cup SendRequest \cup RetryRequest

\* The process has the delivery on its list, or does not; or is sending it.
Lists(p, d) == Running(p, "deliver") /\ d \in DOMAIN req[p].due
Idle(d) == {p \in Procs : ~Lists(p, d)}
Sends(p, d) == Running(p, "deliver") /\ At(p, "record") /\ req[p].taken = d

\* A list has rows that were QUEUED, so that their attempts were not used up; what an
\* operator retries had FAILED, which IN_APP never does.
KnowsDeliveries(p) ==
  LET r == req[p]
  IN  /\ r.op = "deliver" => \A d \in DOMAIN r.due :
           delivery[d] # None /\ r.due[d] < MaxDeliveryAttempts + outdated[d]
      /\ r.at = "record" => r.taken \in DOMAIN r.due
      /\ r.op = "retry delivery" =>
           /\ delivery[r.taken] # None /\ delivery[r.taken].channel = "EMAIL"
           /\ r.attempts < MaxDeliveryAttempts

\* Only IN_APP is sent, and what was sent is not QUEUED.
RowAllows(d) ==
  /\ delivery[d] = None => sends[d] = 0
  /\ delivery[d] # None =>
       /\ delivery[d].attempts <= MaxDeliveryAttempts + outdated[d]
       /\ delivery[d].state = "QUEUED" => delivery[d].attempts < MaxDeliveryAttempts + outdated[d]
       /\ delivery[d].state = "FAILED" => delivery[d].channel = "EMAIL"
       /\ delivery[d].state \in {"QUEUED", "FAILED"} \/ delivery[d].channel = "EMAIL" => sends[d] = 0

\* Who has sent a delivery has it no longer on the list.
NotifyInv ==
  /\ clock \in Nat
  /\ req \in [Procs -> NotifyRequest \cup {None}]
  /\ delivery \in [Deliveries -> DeliveryRow \cup {None}]
  /\ sends \in [Deliveries -> Nat] /\ outdated \in [Deliveries -> Nat]
  /\ \A p \in Procs : req[p] # None => KnowsDeliveries(p)
  /\ \A d \in Deliveries : RowAllows(d) /\ sends[d] <= Cardinality(Idle(d))
  /\ SendingIsHeld

LEMMA NotifyInitial ==
  ASSUME RequestsInit, NotificationDeliveryInit
  PROVE  NotifyInv
<1>1. \A d \in Deliveries : RowAllows(d) /\ sends[d] = 0 /\ delivery[d] = None
  BY DEF NotificationDeliveryInit, RowAllows
<1>2. \A d \in Deliveries : Cardinality(Idle(d)) \in Nat
  BY ProcsAssumption, FS_Subset, FS_CardinalityType DEF Idle
<1> QED
  BY <1>1, <1>2 DEF RequestsInit, NotificationDeliveryInit, NotifyInv, SendingIsHeld

\* A step of one process: what it makes of the rows, of what it knows, of the numbers
\* of sendings and of the delivery it sends.
LEMMA NotifyStep ==
  ASSUME NotifyInv, NEW p \in Procs, NEW r \in NotifyRequest \cup {None},
         req' = [req EXCEPT ![p] = r], clock' = clock,
         delivery' \in [Deliveries -> DeliveryRow \cup {None}],
         sends' \in [Deliveries -> Nat], outdated' \in [Deliveries -> Nat],
         \A d \in Deliveries : delivery[d] # None =>
           delivery'[d] # None /\ delivery'[d].channel = delivery[d].channel,
         \A d \in Deliveries : outdated[d] <= outdated'[d],
         r # None => KnowsDeliveries(p)',
         \A d \in Deliveries : RowAllows(d)',
         \A d \in Deliveries :
           \/ sends'[d] = 0
           \/ sends'[d] = sends[d] /\ (Lists(p, d)' => Lists(p, d))
           \/ sends'[d] = sends[d] + 1 /\ Lists(p, d) /\ ~Lists(p, d)',
         \A d \in Deliveries \ orphans' : delivery'[d] # None /\ delivery'[d].state = "SENDING" =>
           \/ Sends(p, d)'
           \/ /\ d \notin orphans /\ delivery[d] # None /\ delivery[d].state = "SENDING"
              /\ ~Sends(p, d)
  PROVE  NotifyInv'
<1>1. req' \in [Procs -> NotifyRequest \cup {None}]
  BY DEF NotifyInv
<1>2. \A q \in Procs : q # p => req'[q] = req[q]
  BY DEF NotifyInv
<1>3. ASSUME NEW q \in Procs, req'[q] # None
      PROVE  KnowsDeliveries(q)'
  <2>1. CASE q = p
    BY <1>3, <2>1 DEF NotifyInv
  <2>2. CASE q # p
    <3>1. req'[q] = req[q] /\ req[q] \in NotifyRequest /\ KnowsDeliveries(q)
      BY <1>2, <1>3, <2>2 DEF NotifyInv
    <3>2. ASSUME req[q].op = "deliver", NEW d \in DOMAIN req[q].due
          PROVE  delivery'[d] # None /\ req[q].due[d] < MaxDeliveryAttempts + outdated'[d]
      <4>1. req[q].due \in Dues
        BY <3>1, <3>2 DEF NotifyRequest, TakeRequest, SendRequest, RetryRequest
      <4>2. d \in Deliveries /\ req[q].due[d] \in Nat
        BY <3>2, <4>1 DEF Dues
      <4>3. delivery[d] # None /\ req[q].due[d] < MaxDeliveryAttempts + outdated[d]
        BY <3>1, <3>2 DEF KnowsDeliveries
      <4>4. outdated[d] \in Nat /\ outdated'[d] \in Nat /\ outdated[d] <= outdated'[d]
        BY <4>2 DEF NotifyInv
      <4> QED
        BY <4>2, <4>3, <4>4, DeliveryAssumption
    <3>3. req[q].op = "retry delivery" => req[q].taken \in Deliveries
      BY <3>1 DEF NotifyRequest, TakeRequest, SendRequest, RetryRequest
    <3>4. req[q].op = "retry delivery" =>
            /\ delivery'[req[q].taken] # None /\ delivery'[req[q].taken].channel = "EMAIL"
            /\ req[q].attempts < MaxDeliveryAttempts
      BY <3>1, <3>3 DEF KnowsDeliveries
    <3>5. req[q].at = "record" => req[q].taken \in DOMAIN req[q].due
      BY <3>1 DEF KnowsDeliveries
    <3> QED
      BY <3>1, <3>2, <3>4, <3>5 DEF KnowsDeliveries
  <2> QED
    BY <2>1, <2>2
<1>4. ASSUME NEW d \in Deliveries
      PROVE  sends'[d] <= Cardinality(Idle(d)')
  <2>1. IsFiniteSet(Idle(d)) /\ IsFiniteSet(Idle(d)')
    BY ProcsAssumption, FS_Subset DEF Idle
  <2>2. Cardinality(Idle(d)) \in Nat /\ Cardinality(Idle(d)') \in Nat
    BY <2>1, FS_CardinalityType
  <2>3. \A q \in Procs : q # p => (Lists(q, d)' <=> Lists(q, d))
    BY <1>2 DEF Lists, Running
  <2>4. sends[d] \in Nat /\ sends[d] <= Cardinality(Idle(d))
    BY DEF NotifyInv
  <2>5. CASE sends'[d] = 0
    BY <2>2, <2>5
  <2>6. CASE sends'[d] = sends[d] /\ (Lists(p, d)' => Lists(p, d))
    <3>1. Idle(d) \subseteq Idle(d)'
      BY <2>3, <2>6 DEF Idle
    <3>2. Cardinality(Idle(d)) <= Cardinality(Idle(d)')
      BY <2>1, <3>1, FS_Subset
    <3> QED
      BY <2>2, <2>4, <2>6, <3>2
  <2>7. CASE sends'[d] = sends[d] + 1 /\ Lists(p, d) /\ ~Lists(p, d)'
    <3>1. p \notin Idle(d) /\ Idle(d)' = Idle(d) \cup {p}
      BY <2>3, <2>7 DEF Idle
    <3>2. Cardinality(Idle(d) \cup {p}) = Cardinality(Idle(d)) + 1
      BY <2>1, <3>1, FS_AddElement
    <3> QED
      BY <2>2, <2>4, <2>7, <3>1, <3>2
  <2> QED
    BY <2>5, <2>6, <2>7
<1>5. ASSUME NEW d \in Deliveries \ orphans', delivery'[d] # None, delivery'[d].state = "SENDING"
      PROVE  \E q \in Procs : Sends(q, d)'
  <2>1. CASE Sends(p, d)'
    BY <2>1
  <2>2. CASE /\ d \notin orphans /\ delivery[d] # None /\ delivery[d].state = "SENDING"
             /\ ~Sends(p, d)
    <3>1. PICK q \in Procs : Sends(q, d)
      BY <2>2 DEF NotifyInv, SendingIsHeld, Sends
    <3>2. req'[q] = req[q]
      BY <1>2, <2>2, <3>1
    <3> QED
      BY <3>1, <3>2 DEF Sends, Running, At
  <2> QED
    BY <1>5, <2>1, <2>2
<1>6. SendingIsHeld'
  BY <1>5 DEF SendingIsHeld, Sends
<1> QED
  BY <1>1, <1>3, <1>4, <1>6 DEF NotifyInv

\* A step that leaves the rows and the numbers of sendings.
LEMMA NotifyRequests ==
  ASSUME NotifyInv, NEW p \in Procs, NEW r \in NotifyRequest \cup {None},
         req' = [req EXCEPT ![p] = r], UNCHANGED <<clock, delivery, sends, outdated>>,
         r # None => KnowsDeliveries(p)',
         \A d \in Deliveries : Lists(p, d)' /\ ~Lists(p, d) => sends[d] = 0,
         orphans \subseteq orphans', \A d \in Deliveries \ orphans' : ~Sends(p, d)
  PROVE  NotifyInv'
<1>1. \A d \in Deliveries : RowAllows(d)'
  BY DEF NotifyInv, RowAllows
<1>2. \A d \in Deliveries : outdated[d] <= outdated'[d]
  BY DEF NotifyInv
<1> QED
  BY <1>1, <1>2, NotifyStep DEF NotifyInv

\* What a request that works on its list looks like.
LEMMA DueFields ==
  ASSUME NotifyInv, NEW p \in Procs, Running(p, "deliver")
  PROVE  /\ req[p] \in TakeRequest \cup SendRequest /\ KnowsDeliveries(p)
         /\ \E S \in SUBSET Deliveries : req[p].due \in [S -> Nat]
         /\ At(p, "take") => req[p] \in TakeRequest
         /\ At(p, "record") => req[p] \in SendRequest /\ req[p].taken \in DOMAIN req[p].due
<1>1. req[p] \in TakeRequest \cup SendRequest /\ KnowsDeliveries(p)
  BY DEF NotifyInv, Running, NotifyRequest, TakeRequest, SendRequest, RetryRequest
<1>2. req[p].due \in Dues
  BY <1>1 DEF TakeRequest, SendRequest
<1> QED
  BY <1>1, <1>2 DEF Dues, TakeRequest, SendRequest, At, KnowsDeliveries

\* A process that decides from the attempt it counted, and queues the delivery again.
LEMMA QueuedAllows ==
  ASSUME NotifyInv, NEW d \in Deliveries, delivery[d] # None, NEW attempt \in Nat,
         attempt < MaxDeliveryAttempts, QueuedAgain(d, attempt)
  PROVE  /\ outdated' \in [Deliveries -> Nat]
         /\ \A e \in Deliveries : outdated[e] <= outdated'[e] /\ (e # d => outdated'[e] = outdated[e])
         /\ delivery[d].attempts < MaxDeliveryAttempts + outdated'[d]
<1>1. /\ outdated \in [Deliveries -> Nat] /\ delivery[d].attempts \in Nat
      /\ delivery[d].attempts <= MaxDeliveryAttempts + outdated[d]
  BY DEF NotifyInv, RowAllows, DeliveryRow
<1>2. CASE delivery[d].attempts >= MaxDeliveryAttempts
  BY <1>1, <1>2, DeliveryAssumption DEF QueuedAgain
<1>3. CASE ~(delivery[d].attempts >= MaxDeliveryAttempts)
  BY <1>1, <1>3, DeliveryAssumption DEF QueuedAgain
<1> QED
  BY <1>2, <1>3

LEMMA NotifyKeeps ==
  ASSUME NotifyInv, NotificationDeliveryNext
  PROVE  NotifyInv'
<1>0. /\ MaxDeliveryAttempts \in Nat \ {0} /\ None \notin DeliveryRow /\ None \notin SendRequest
  BY DeliveryAssumption
<1>1. ASSUME NEW d \in Deliveries, CreateDelivery(d)
      PROVE  NotifyInv'
  <2>a. PICK channel \in {"IN_APP", "EMAIL"} :
          delivery' = [delivery EXCEPT ![d] =
            [channel |-> channel, state |-> "QUEUED", attempts |-> 0, availableAt |-> clock]]
    BY <1>1 DEF CreateDelivery
  <2> DEFINE row == [channel |-> channel, state |-> "QUEUED", attempts |-> 0, availableAt |-> clock]
  <2>1. /\ delivery' = [delivery EXCEPT ![d] = row] /\ row \in DeliveryRow
        /\ row.state = "QUEUED" /\ row.attempts = 0
    BY <2>a DEF DeliveryRow, NotifyInv
  <2> HIDE DEF row
  <2>2. UNCHANGED <<req, clock, sends, orphans, outdated>> /\ delivery[d] = None /\ row # None
    BY <1>0, <1>1, <2>1 DEF CreateDelivery
  <2>3. delivery' \in [Deliveries -> DeliveryRow \cup {None}] /\ delivery'[d] = row
        /\ \A e \in Deliveries : e # d => delivery'[e] = delivery[e]
    BY <2>1 DEF NotifyInv
  <2>4. ASSUME NEW e \in Deliveries
        PROVE  RowAllows(e)'
    <3>1. CASE e = d
      BY <1>0, <2>1, <2>2, <2>3, <3>1 DEF RowAllows, NotifyInv
    <3>2. CASE e # d
      BY <2>2, <2>3, <3>2 DEF RowAllows, NotifyInv
    <3> QED
      BY <3>1, <3>2
  <2>5. ASSUME NEW p \in Procs, req[p] # None
        PROVE  KnowsDeliveries(p)'
    <3>1. req[p] \in NotifyRequest /\ KnowsDeliveries(p)
      BY <2>5 DEF NotifyInv
    <3>2. req[p].op = "deliver" => \A e \in DOMAIN req[p].due : e \in Deliveries
      BY <3>1 DEF NotifyRequest, TakeRequest, SendRequest, RetryRequest, Dues
    <3>3. req[p].op = "retry delivery" => req[p].taken \in Deliveries
      BY <3>1 DEF NotifyRequest, TakeRequest, SendRequest, RetryRequest
    <3>4. \A e \in Deliveries : delivery[e] # None => delivery'[e] = delivery[e]
      BY <2>2, <2>3
    <3> QED
      BY <2>2, <3>1, <3>2, <3>3, <3>4 DEF KnowsDeliveries
  <2>6. \A e \in Deliveries : Idle(e)' = Idle(e)
    BY <2>2 DEF Idle, Lists, Running
  <2>7. SendingIsHeld'
    <3>1. \A e \in Deliveries : delivery'[e] # None /\ delivery'[e].state = "SENDING" =>
            delivery[e] # None /\ delivery[e].state = "SENDING"
      BY <2>1, <2>3
    <3> QED
      BY <2>2, <3>1 DEF NotifyInv, SendingIsHeld, Running, At
  <2> QED
    BY <2>2, <2>3, <2>4, <2>5, <2>6, <2>7 DEF NotifyInv
<1>2. ASSUME NEW p \in Procs, ProcessDue(p)
      PROVE  NotifyInv'
  <2> DEFINE S == {e \in Deliveries : DueDelivery(e)}
             due == [d \in S |-> delivery[d].attempts]
             r == [op |-> "deliver", at |-> "take", due |-> due]
  <2>1. /\ req[p] = None /\ req' = [req EXCEPT ![p] = r]
        /\ UNCHANGED <<clock, delivery, sends, outdated, orphans>>
    BY <1>2 DEF ProcessDue, Start, deliveryVars
  <2>2. \A d \in S : /\ delivery[d] # None /\ delivery[d].attempts \in Nat /\ sends[d] = 0
                     /\ delivery[d].attempts < MaxDeliveryAttempts + outdated[d]
    BY DEF DueDelivery, NotifyInv, RowAllows, DeliveryRow
  <2>3. due \in [S -> Nat] /\ S \in SUBSET Deliveries
    BY <2>2
  <2>4. due \in Dues
    BY <2>3 DEF Dues
  <2>5. r \in NotifyRequest
    BY <2>4 DEF NotifyRequest, TakeRequest
  <2>6. r.op = "deliver" /\ r.at = "take" /\ r.due = due /\ DOMAIN r.due = S
    OBVIOUS
  <2>7. \A d \in S : delivery'[d] # None /\ due[d] < MaxDeliveryAttempts + outdated'[d]
    BY <2>1, <2>2
  <2> HIDE DEF r, due, S
  <2>8. req'[p] = r
    BY <2>1 DEF NotifyInv
  <2>9. KnowsDeliveries(p)'
    BY <2>6, <2>7, <2>8 DEF KnowsDeliveries
  <2>10. \A d \in Deliveries : ~Sends(p, d) /\ (Lists(p, d)' => sends[d] = 0)
    BY <2>1, <2>2, <2>6, <2>8 DEF Sends, Lists, Running
  <2> QED
    BY <2>1, <2>5, <2>9, <2>10, NotifyRequests
<1>3. ASSUME NEW p \in Procs, Take(p)
      PROVE  NotifyInv'
  <2>1. PICK d \in DOMAIN req[p].due :
          /\ delivery' = [delivery EXCEPT ![d].state = "SENDING", ![d].attempts = req[p].due[d] + 1]
          /\ req' = [req EXCEPT ![p] =
               [op |-> "deliver", at |-> "record", due |-> req[p].due, taken |-> d]]
    BY <1>3 DEF Take
  <2> DEFINE r == [op |-> "deliver", at |-> "record", due |-> req[p].due, taken |-> d]
             row == [delivery[d] EXCEPT !.state = "SENDING", !.attempts = req[p].due[d] + 1]
  <2>2. Running(p, "deliver") /\ At(p, "take") /\ UNCHANGED <<sends, orphans, outdated, clock>>
    BY <1>3 DEF Take
  <2>3. req[p] \in TakeRequest /\ KnowsDeliveries(p) /\ req[p].due \in Dues
    BY <2>2, DueFields DEF TakeRequest
  <2>4. /\ d \in Deliveries /\ req[p].due[d] \in Nat /\ delivery[d] # None
        /\ req[p].due[d] < MaxDeliveryAttempts + outdated[d]
    BY <2>1, <2>3 DEF Dues, KnowsDeliveries, TakeRequest
  <2>5. r \in SendRequest /\ req' = [req EXCEPT ![p] = r]
    BY <2>1, <2>3, <2>4 DEF SendRequest
  <2>6. r.op = "deliver" /\ r.at = "record" /\ r.due = req[p].due /\ r.taken = d
    OBVIOUS
  <2>a. PICK n \in Nat : n = req[p].due[d] + 1
    BY <2>4
  <2>b. delivery[d] \in DeliveryRow
    BY <2>4 DEF NotifyInv
  <2>7. row \in DeliveryRow /\ delivery' = [delivery EXCEPT ![d] = row]
    <3>1. row \in DeliveryRow
      BY <2>a, <2>b DEF DeliveryRow
    <3>2. delivery' = [delivery EXCEPT ![d] = row]
      BY <2>1, <2>4 DEF NotifyInv
    <3> QED
      BY <3>1, <3>2
  <2>8. /\ row.state = "SENDING" /\ row.attempts = req[p].due[d] + 1
        /\ row.channel = delivery[d].channel
    BY <2>4 DEF NotifyInv, DeliveryRow
  <2> HIDE DEF r, row
  <2>9. req'[p] = r /\ r # None /\ row # None
    BY <1>0, <2>5, <2>7 DEF NotifyInv
  <2>10. /\ delivery' \in [Deliveries -> DeliveryRow \cup {None}] /\ delivery'[d] = row
         /\ \A e \in Deliveries : e # d => delivery'[e] = delivery[e]
    BY <2>4, <2>7 DEF NotifyInv
  <2>11. KnowsDeliveries(p)'
    <3>1. \A e \in DOMAIN req[p].due : e \in Deliveries /\ delivery[e] # None
            /\ req[p].due[e] < MaxDeliveryAttempts + outdated[e]
      BY <2>3 DEF KnowsDeliveries, TakeRequest, Dues
    <3>2. \A e \in DOMAIN req[p].due : delivery'[e] # None
      BY <2>9, <2>10, <3>1
    <3> QED
      BY <2>1, <2>2, <2>6, <2>9, <3>1, <3>2 DEF KnowsDeliveries
  <2>12. ASSUME NEW e \in Deliveries
         PROVE  RowAllows(e)'
    <3>1. CASE e = d
      <4>1. row.attempts <= MaxDeliveryAttempts + outdated[d]
        BY <1>0, <2>4, <2>8 DEF NotifyInv
      <4>2. row.channel = "EMAIL" => sends[d] = 0
        BY <2>4, <2>8 DEF NotifyInv, RowAllows
      <4> QED
        BY <2>2, <2>8, <2>9, <2>10, <3>1, <4>1, <4>2 DEF RowAllows
    <3>2. CASE e # d
      BY <2>2, <2>10, <3>2 DEF RowAllows, NotifyInv
    <3> QED
      BY <3>1, <3>2
  <2>13. \A e \in Deliveries : Lists(p, e)' => Lists(p, e)
    BY <2>2, <2>6, <2>9 DEF Lists, Running
  <2>14. Sends(p, d)' /\ \A e \in Deliveries : ~Sends(p, e)
    BY <2>2, <2>6, <2>9 DEF Sends, Running, At
  <2>15. \A e \in Deliveries : delivery[e] # None =>
           delivery'[e] # None /\ delivery'[e].channel = delivery[e].channel
    BY <2>8, <2>9, <2>10
  <2>16. \A e \in Deliveries : outdated[e] <= outdated'[e]
    BY <2>2 DEF NotifyInv
  <2>17. sends' \in [Deliveries -> Nat] /\ outdated' \in [Deliveries -> Nat]
    BY <2>2 DEF NotifyInv
  <2>18. r \in NotifyRequest
    BY <2>5 DEF NotifyRequest
  <2>19. \A e \in Deliveries \ orphans' : delivery'[e] # None /\ delivery'[e].state = "SENDING" =>
           \/ Sends(p, e)'
           \/ /\ e \notin orphans /\ delivery[e] # None /\ delivery[e].state = "SENDING"
              /\ ~Sends(p, e)
    BY <2>2, <2>10, <2>14
  <2>20. \A e \in Deliveries : sends'[e] = sends[e]
    BY <2>2
  <2> QED
    BY <2>2, <2>5, <2>10, <2>11, <2>12, <2>13, <2>15, <2>16, <2>17, <2>18, <2>19, <2>20, NotifyStep
<1>4. ASSUME NEW p \in Procs, RecordDelivery(p)
      PROVE  NotifyInv'
  <2>b. PICK d : d = req[p].taken
    OBVIOUS
  <2> DEFINE attempt == req[p].due[d] + 1
             left == [e \in DOMAIN req[p].due \ {d} |-> req[p].due[e]]
             r == IF DOMAIN left = {} THEN None ELSE [op |-> "deliver", at |-> "take", due |-> left]
  <2>1. /\ Running(p, "deliver") /\ At(p, "record") /\ UNCHANGED <<orphans, clock>>
        /\ req' = [req EXCEPT ![p] = r]
    BY <1>4, <2>b DEF RecordDelivery
  <2>2. /\ req[p] \in SendRequest /\ KnowsDeliveries(p) /\ d \in DOMAIN req[p].due
        /\ d \in Deliveries
    BY <2>1, <2>b, DueFields DEF SendRequest
  <2>3. PICK S \in SUBSET Deliveries : req[p].due \in [S -> Nat]
    BY <2>1, DueFields
  <2>a. req[p].op = "deliver" /\ DOMAIN req[p].due = S /\ d \in S /\ req[p].due[d] \in Nat
    BY <2>2, <2>3 DEF SendRequest
  <2>4. /\ attempt \in Nat /\ delivery[d] # None /\ req[p].op = "deliver"
        /\ req[p].due[d] < MaxDeliveryAttempts + outdated[d]
    <3>1. delivery[d] # None /\ req[p].due[d] < MaxDeliveryAttempts + outdated[d]
      BY <2>2, <2>a DEF KnowsDeliveries
    <3> QED
      BY <2>a, <3>1
  <2>5. left \in [S \ {d} -> Nat] /\ left \in Dues
    <3>1. left \in [S \ {d} -> Nat]
      BY <2>3, <2>a
    <3> QED
      BY <3>1 DEF Dues
  <2>6. r \in NotifyRequest \cup {None}
    BY <2>5 DEF NotifyRequest, TakeRequest
  <2>7. req'[p] = r
    BY <2>1 DEF NotifyInv
  <2>8. r # None => /\ r.op = "deliver" /\ r.at = "take" /\ DOMAIN r.due = S \ {d}
                    /\ \A e \in S \ {d} : r.due[e] = req[p].due[e]
    BY <2>3, <2>a
  <2>9. Lists(p, d) /\ ~Lists(p, d)'
    <3>1. Lists(p, d)
      BY <2>1, <2>2 DEF Lists
    <3>2. r # None => d \notin DOMAIN r.due
      BY <2>8
    <3> HIDE DEF r
    <3> QED
      BY <2>7, <3>1, <3>2 DEF Lists, Running
  <2>10. \A e \in Deliveries : Lists(p, e)' => Lists(p, e)
    BY <2>1, <2>3, <2>7, <2>8 DEF Lists, Running
  <2>11. \A e \in Deliveries : Sends(p, e) => e = d
    BY <2>b DEF Sends
  <2>12. \A e \in S : e \in Deliveries /\ delivery[e] # None /\ req[p].due[e] \in Nat
           /\ req[p].due[e] < MaxDeliveryAttempts + outdated[e]
    BY <2>2, <2>3, <2>4 DEF KnowsDeliveries
  <2> HIDE DEF r, left
  <2>13. ASSUME NEW row \in DeliveryRow, delivery' = [delivery EXCEPT ![d] = row],
                row.channel = delivery[d].channel, row.state # "SENDING",
                outdated' \in [Deliveries -> Nat], sends' \in [Deliveries -> Nat],
                \A e \in Deliveries : outdated[e] <= outdated'[e] /\ (e # d => outdated'[e] = outdated[e]),
                \A e \in Deliveries : e # d => sends'[e] = sends[e],
                row.attempts <= MaxDeliveryAttempts + outdated'[d],
                row.state = "QUEUED" => row.attempts < MaxDeliveryAttempts + outdated'[d],
                row.state = "FAILED" => row.channel = "EMAIL",
                row.state \in {"QUEUED", "FAILED"} \/ row.channel = "EMAIL" => sends'[d] = 0,
                sends'[d] \in {0, sends[d], sends[d] + 1}
         PROVE  NotifyInv'
    <3>1. row # None
      BY <1>0, <2>13
    <3>2. /\ delivery' \in [Deliveries -> DeliveryRow \cup {None}] /\ delivery'[d] = row
          /\ \A e \in Deliveries : e # d => delivery'[e] = delivery[e]
      BY <2>2, <2>13 DEF NotifyInv
    <3>3. ASSUME NEW e \in Deliveries
          PROVE  RowAllows(e)'
      <4>1. CASE e = d
        BY <2>13, <3>1, <3>2, <4>1 DEF RowAllows
      <4>2. CASE e # d
        <5>1. outdated'[e] = outdated[e] /\ sends'[e] = sends[e] /\ delivery'[e] = delivery[e]
          BY <2>13, <3>2, <4>2
        <5> QED
          BY <5>1 DEF RowAllows, NotifyInv
      <4> QED
        BY <4>1, <4>2
    <3>4. ASSUME r # None
          PROVE  KnowsDeliveries(p)'
      <4>1. ASSUME NEW e \in S \ {d}
            PROVE  delivery'[e] # None /\ r.due[e] < MaxDeliveryAttempts + outdated'[e]
        <5>1. outdated'[e] = outdated[e] /\ delivery'[e] = delivery[e] /\ r.due[e] = req[p].due[e]
          BY <2>8, <2>12, <2>13, <3>2, <3>4, <4>1
        <5> QED
          BY <2>12, <4>1, <5>1
      <4> QED
        BY <2>7, <2>8, <3>4, <4>1 DEF KnowsDeliveries
    <3>5. \A e \in Deliveries : delivery[e] # None =>
            delivery'[e] # None /\ delivery'[e].channel = delivery[e].channel
      BY <2>13, <3>1, <3>2
    <3>6. \A e \in Deliveries :
            \/ sends'[e] = 0
            \/ sends'[e] = sends[e] /\ (Lists(p, e)' => Lists(p, e))
            \/ sends'[e] = sends[e] + 1 /\ Lists(p, e) /\ ~Lists(p, e)'
      <4>1. \A e \in Deliveries : e = d =>
              \/ sends'[e] = 0
              \/ sends'[e] = sends[e]
              \/ sends'[e] = sends[e] + 1
        BY <2>13
      <4> QED
        BY <2>9, <2>10, <2>13, <4>1
    <3>7. \A e \in Deliveries \ orphans' : delivery'[e] # None /\ delivery'[e].state = "SENDING" =>
            \/ Sends(p, e)'
            \/ /\ e \notin orphans /\ delivery[e] # None /\ delivery[e].state = "SENDING"
               /\ ~Sends(p, e)
      BY <2>1, <2>11, <2>13, <3>2
    <3>8. \A e \in Deliveries : outdated[e] <= outdated'[e]
      BY <2>13
    <3> QED
      BY <2>1, <2>6, <2>13, <3>2, <3>3, <3>4, <3>5, <3>6, <3>7, <3>8, NotifyStep
  <2>14. /\ sends \in [Deliveries -> Nat] /\ outdated \in [Deliveries -> Nat] /\ clock \in Nat
         /\ delivery[d] \in DeliveryRow /\ RowAllows(d)
    BY <2>2, <2>4 DEF NotifyInv
  <2>15. CASE delivery[d].channel = "IN_APP"
    <3> DEFINE row == [delivery[d] EXCEPT !.state = "SENT", !.availableAt = clock]
    <3>1. /\ delivery' = [delivery EXCEPT ![d] = row] /\ sends' = [sends EXCEPT ![d] = @ + 1]
          /\ outdated' = outdated
      BY <1>4, <2>b, <2>2, <2>15 DEF RecordDelivery, NotifyInv
    <3>2. /\ row \in DeliveryRow /\ row.channel = delivery[d].channel /\ row.state = "SENT"
          /\ row.attempts = delivery[d].attempts
      BY <2>14 DEF DeliveryRow
    <3>3. row.attempts <= MaxDeliveryAttempts + outdated[d]
      BY <2>4, <2>14, <3>2 DEF RowAllows
    <3> HIDE DEF row
    <3>4. sends' \in [Deliveries -> Nat] /\ sends'[d] = sends[d] + 1
          /\ \A e \in Deliveries : e # d => sends'[e] = sends[e]
      BY <2>2, <2>14, <3>1
    <3>5. \A e \in Deliveries : outdated[e] <= outdated'[e] /\ (e # d => outdated'[e] = outdated[e])
      BY <2>14, <3>1
    <3> QED
      BY <2>13, <2>14, <2>15, <3>1, <3>2, <3>3, <3>4, <3>5
  <2>16. CASE delivery[d].channel # "IN_APP"
    <3> DEFINE row == [delivery[d] EXCEPT !.state = IF Terminal(attempt) THEN "FAILED" ELSE "QUEUED",
                                          !.availableAt = clock]
    <3>1. /\ delivery' = [delivery EXCEPT ![d] = row] /\ sends' = sends
          /\ IF Terminal(attempt) THEN outdated' = outdated ELSE QueuedAgain(d, attempt)
      BY <1>4, <2>b, <2>2, <2>16 DEF RecordDelivery, NotifyInv
    <3>2. /\ row \in DeliveryRow /\ row.channel = delivery[d].channel /\ row.channel = "EMAIL"
          /\ row.state = IF Terminal(attempt) THEN "FAILED" ELSE "QUEUED"
          /\ row.attempts = delivery[d].attempts
      BY <2>14, <2>16 DEF DeliveryRow
    <3>3. sends[d] = 0 /\ row.attempts <= MaxDeliveryAttempts + outdated[d] /\ row.attempts \in Nat
      BY <2>4, <2>14, <3>2 DEF RowAllows, DeliveryRow
    <3> HIDE DEF row
    <3>4. CASE Terminal(attempt)
      <4>1. \A e \in Deliveries : outdated[e] <= outdated'[e] /\ (e # d => outdated'[e] = outdated[e])
        BY <2>14, <3>1, <3>4
      <4> QED
        BY <2>13, <2>14, <3>1, <3>2, <3>3, <3>4, <4>1
    <3>5. CASE ~Terminal(attempt)
      <4>1. attempt < MaxDeliveryAttempts /\ QueuedAgain(d, attempt)
        BY <1>0, <2>4, <3>1, <3>5 DEF Terminal
      <4>2. /\ outdated' \in [Deliveries -> Nat]
            /\ \A e \in Deliveries : outdated[e] <= outdated'[e] /\ (e # d => outdated'[e] = outdated[e])
            /\ delivery[d].attempts < MaxDeliveryAttempts + outdated'[d]
        BY <2>2, <2>4, <4>1, QueuedAllows
      <4>3. row.attempts <= MaxDeliveryAttempts + outdated'[d]
        BY <1>0, <2>2, <3>2, <3>3, <4>2
      <4> QED
        BY <2>13, <2>14, <3>1, <3>2, <3>3, <3>5, <4>2, <4>3
    <3> QED
      BY <3>4, <3>5
  <2> QED
    BY <2>15, <2>16
<1>5. ASSUME NEW p \in Procs, RetryDeliveryRead(p)
      PROVE  NotifyInv'
  <2>1. PICK d \in Deliveries :
          /\ delivery[d] # None /\ delivery[d].state = "FAILED"
          /\ delivery[d].attempts < MaxDeliveryAttempts
          /\ Start(p, [op |-> "retry delivery", at |-> "update", taken |-> d,
                       attempts |-> delivery[d].attempts])
    BY <1>5 DEF RetryDeliveryRead
  <2> DEFINE r == [op |-> "retry delivery", at |-> "update", taken |-> d,
                   attempts |-> delivery[d].attempts]
  <2>2. /\ req[p] = None /\ req' = [req EXCEPT ![p] = r]
        /\ UNCHANGED <<clock, delivery, sends, outdated, orphans>>
    BY <1>5, <2>1 DEF RetryDeliveryRead, Start, deliveryVars
  <2>3. r \in NotifyRequest
    BY <2>1 DEF NotifyRequest, RetryRequest, NotifyInv, DeliveryRow
  <2>4. /\ r.op = "retry delivery" /\ r.at = "update" /\ r.taken = d
        /\ r.attempts = delivery[d].attempts
    OBVIOUS
  <2> HIDE DEF r
  <2>5. req'[p] = r
    BY <2>2 DEF NotifyInv
  <2>6. delivery[d].channel = "EMAIL"
    BY <2>1 DEF NotifyInv, RowAllows
  <2>7. KnowsDeliveries(p)'
    BY <2>1, <2>2, <2>4, <2>5, <2>6 DEF KnowsDeliveries
  <2>8. \A e \in Deliveries : ~Sends(p, e) /\ ~Lists(p, e)'
    BY <2>2, <2>4, <2>5 DEF Sends, Lists, Running
  <2> QED
    BY <2>2, <2>3, <2>7, <2>8, NotifyRequests
<1>6. ASSUME NEW p \in Procs, RetryDeliveryWrite(p)
      PROVE  NotifyInv'
  <2> DEFINE d == req[p].taken
             row == [delivery[d] EXCEPT !.state = "QUEUED", !.availableAt = clock]
  <2>1. req[p] \in RetryRequest /\ KnowsDeliveries(p) /\ req[p].op = "retry delivery"
    BY <1>6 DEF RetryDeliveryWrite, Running, NotifyInv, NotifyRequest, TakeRequest, SendRequest,
       RetryRequest
  <2>2. /\ d \in Deliveries /\ req[p].attempts \in Nat /\ req[p].attempts < MaxDeliveryAttempts
        /\ delivery[d] # None /\ delivery[d].channel = "EMAIL" /\ delivery[d] \in DeliveryRow
        /\ RowAllows(d) /\ clock \in Nat
    BY <2>1 DEF KnowsDeliveries, RetryRequest, NotifyInv
  <2>3. /\ delivery' = [delivery EXCEPT ![d] = row] /\ req' = [req EXCEPT ![p] = None]
        /\ QueuedAgain(d, req[p].attempts) /\ UNCHANGED <<sends, orphans, clock>>
    BY <1>6, <2>2 DEF RetryDeliveryWrite, Done, NotifyInv
  <2>4. /\ row \in DeliveryRow /\ row.channel = "EMAIL" /\ row.state = "QUEUED"
        /\ row.attempts = delivery[d].attempts /\ row.attempts \in Nat
    BY <2>2 DEF DeliveryRow
  <2>5. sends[d] = 0 /\ sends \in [Deliveries -> Nat]
    BY <2>2 DEF RowAllows, NotifyInv
  <2>6. /\ outdated' \in [Deliveries -> Nat]
        /\ \A e \in Deliveries : outdated[e] <= outdated'[e] /\ (e # d => outdated'[e] = outdated[e])
        /\ delivery[d].attempts < MaxDeliveryAttempts + outdated'[d]
    BY <2>2, <2>3, QueuedAllows
  <2> HIDE DEF row, d
  <2>7. row # None
    BY <1>0, <2>4
  <2>8. /\ delivery' \in [Deliveries -> DeliveryRow \cup {None}] /\ delivery'[d] = row
        /\ \A e \in Deliveries : e # d => delivery'[e] = delivery[e]
    BY <2>2, <2>3, <2>4 DEF NotifyInv
  <2>9. ASSUME NEW e \in Deliveries
        PROVE  RowAllows(e)'
    <3>1. CASE e = d
      <4>1. row.attempts <= MaxDeliveryAttempts + outdated'[d]
        BY <1>0, <2>2, <2>4, <2>6
      <4> QED
        BY <2>3, <2>4, <2>5, <2>6, <2>7, <2>8, <3>1, <4>1 DEF RowAllows
    <3>2. CASE e # d
      <4>1. outdated'[e] = outdated[e] /\ delivery'[e] = delivery[e] /\ sends'[e] = sends[e]
        BY <2>3, <2>6, <2>8, <3>2
      <4> QED
        BY <4>1 DEF RowAllows, NotifyInv
    <3> QED
      BY <3>1, <3>2
  <2>10. req'[p] = None
    BY <2>3 DEF NotifyInv
  <2>11. \A e \in Deliveries : sends'[e] = sends[e] /\ (Lists(p, e)' => Lists(p, e)) /\ ~Sends(p, e)
    BY <2>1, <2>3, <2>10 DEF Lists, Sends, Running
  <2>12. \A e \in Deliveries : delivery[e] # None =>
           delivery'[e] # None /\ delivery'[e].channel = delivery[e].channel
    BY <2>2, <2>4, <2>7, <2>8
  <2>13. \A e \in Deliveries : delivery'[e] # None /\ delivery'[e].state = "SENDING" =>
           delivery[e] # None /\ delivery[e].state = "SENDING"
    BY <2>4, <2>8
  <2>14. \A e \in Deliveries \ orphans' : delivery'[e] # None /\ delivery'[e].state = "SENDING" =>
           \/ Sends(p, e)'
           \/ /\ e \notin orphans /\ delivery[e] # None /\ delivery[e].state = "SENDING"
              /\ ~Sends(p, e)
    BY <2>3, <2>11, <2>13
  <2>15. sends' \in [Deliveries -> Nat] /\ clock' = clock /\ \A e \in Deliveries : outdated[e] <= outdated'[e]
    BY <2>3, <2>5, <2>6
  <2> QED
    BY <2>3, <2>6, <2>8, <2>9, <2>11, <2>12, <2>14, <2>15, NotifyStep
<1>7. ASSUME NEW p \in Procs, StopDelivering(p)
      PROVE  NotifyInv'
  <2>1. /\ req' = [req EXCEPT ![p] = None] /\ UNCHANGED <<delivery, sends, outdated, clock>>
        /\ orphans' = IF At(p, "record") THEN orphans \cup {req[p].taken} ELSE orphans
    BY <1>7 DEF StopDelivering, Done
  <2>2. req'[p] = None
    BY <2>1 DEF NotifyInv
  <2>3. \A d \in Deliveries : ~Lists(p, d)'
    BY <2>2 DEF Lists, Running
  <2>4. orphans \subseteq orphans' /\ \A d \in Deliveries \ orphans' : ~Sends(p, d)
    BY <2>1 DEF Sends
  <2> QED
    BY <2>1, <2>3, <2>4, NotifyRequests
<1> QED
  BY <1>1, <1>2, <1>3, <1>4, <1>5, <1>6, <1>7 DEF NotificationDeliveryNext

LEMMA NotifyImplies ==
  ASSUME NotifyInv
  PROVE  SentOncePerScheduler /\ DeliveryAttemptsBounded /\ SendingIsHeld
<1>1. ASSUME NEW d \in Deliveries
      PROVE  sends[d] <= Cardinality(Procs)
  <2>1. Idle(d) \subseteq Procs /\ IsFiniteSet(Idle(d))
    BY ProcsAssumption, FS_Subset DEF Idle
  <2>2. Cardinality(Idle(d)) <= Cardinality(Procs) /\ Cardinality(Idle(d)) \in Nat
        /\ Cardinality(Procs) \in Nat
    BY <2>1, ProcsAssumption, FS_Subset, FS_CardinalityType
  <2>3. sends[d] \in Nat /\ sends[d] <= Cardinality(Idle(d))
    BY DEF NotifyInv
  <2> QED
    BY <2>2, <2>3
<1> QED
  BY <1>1 DEF NotifyInv, SentOncePerScheduler, DeliveryAttemptsBounded, RowAllows

\* Nothing changes.
LEMMA NotifyStutters ==
  ASSUME NotifyInv, UNCHANGED <<req, clock, deliveryVars>>
  PROVE  NotifyInv'
<1>1. UNCHANGED <<req, clock, delivery, sends, orphans, outdated>>
  BY DEF deliveryVars
<1>2. \A p \in Procs : KnowsDeliveries(p) => KnowsDeliveries(p)'
  BY <1>1 DEF KnowsDeliveries
<1>3. \A d \in Deliveries : RowAllows(d) => RowAllows(d)'
  BY <1>1 DEF RowAllows
<1>4. \A d \in Deliveries : Idle(d)' = Idle(d)
  BY <1>1 DEF Idle, Lists, Running
<1>5. SendingIsHeld'
  BY <1>1 DEF NotifyInv, SendingIsHeld, Running, At
<1> QED
  BY <1>1, <1>2, <1>3, <1>4, <1>5 DEF NotifyInv

-----------------------------------------------------------------------------
(***************************************************************************)
(* Retention.                                                              *)
(***************************************************************************)

SweepRequest ==
  [op : {"retention"}, at : {"find", "remove"}, table : {ActivityRows, AuditRows},
   batch : SUBSET RetainedRows, due : SUBSET RetainedRows]

\* A row that is there and not on hold.  It has no expiry, so that time changes nothing.
Loose(x) == retained[x] # None /\ retained[x].hold # TRUE

\* What a run knows: of its batch, what is on hold now was not when it was found; the
\* run that is followed is alone, has removed what was due of the first table, and has
\* found a full batch if it has not found all of the second.
SweepKnows(p) ==
  LET r == req[p]
  IN  /\ \A x \in r.batch : retained[x] # None /\ retained[x].hold = TRUE => retained[x].late = TRUE
      /\ r.due # {} => \A q \in Procs : Sweeping(q) => q = p
      /\ r.table = AuditRows => \A x \in r.due \cap ActivityRows : ~Loose(x)
      /\ r.at = "remove" /\ r.due # {} =>
           /\ \A x \in r.batch : retained[x] # None
           /\ \A x \in (r.due \cap r.table) \ r.batch :
                Loose(x) => Cardinality(r.batch) >= RetentionBatch

RetentionInv ==
  /\ clock \in Nat
  /\ req \in [Procs -> SweepRequest \cup {None}]
  /\ retained \in [RetainedRows -> RetainedRow \cup {None}]
  /\ \A x \in RetainedRows : Loose(x) => retained[x].until = None
  /\ HeldIsKept /\ SweepIsComplete
  /\ \A p \in Procs : req[p] # None => SweepKnows(p)

LEMMA RetentionInitial ==
  ASSUME RequestsInit, RetentionInit
  PROVE  RetentionInv
<1>1. NoHold \in RetainedRow /\ NoHold.until = None
  BY DEF NoHold, RetainedRow
<1> QED
  BY <1>1 DEF RequestsInit, RetentionInit, RetentionInv, HeldIsKept, SweepIsComplete, Loose

LEMMA PurgeableLoose ==
  ASSUME RetentionInv, NEW x \in RetainedRows
  PROVE  Purgeable(x) <=> Loose(x)
<1>1. retained[x] # None => retained[x] \in RetainedRow
  BY DEF RetentionInv
<1>2. retained[x] # None => (retained[x].hold <=> retained[x].hold = TRUE)
  BY <1>1 DEF RetainedRow
<1> QED
  BY <1>2 DEF RetentionInv, Purgeable, Loose

\* A batch leaves a row of its table behind only if it is full: the first row that it
\* leaves has a full batch of rows before it, and all of them are in the batch.
LEMMA BatchFull ==
  ASSUME NEW table, table \subseteq RetainedRows, NEW x \in table, Purgeable(x),
         x \notin BatchOf(table)
  PROVE  Cardinality(BatchOf(table)) >= RetentionBatch
<1> DEFINE due == {r \in table : Purgeable(r)}
           before(r) == {s \in due : s < r}
           left == due \ BatchOf(table)
<1>1. IsFiniteSet(RetainedRows) /\ RetainedRows \subseteq Nat
  BY RetentionAssumption, FS_Union DEF RetainedRows
<1>2. left \subseteq Nat /\ left # {}
  BY <1>1
<1>3. PICK m \in left : \A n \in left : m <= n
  BY <1>2, Smallest
<1>4. IsFiniteSet(BatchOf(table))
  BY <1>1, FS_Subset DEF BatchOf
<1>5. before(m) \subseteq BatchOf(table)
  <2> SUFFICES ASSUME NEW s \in due, s < m, s \notin BatchOf(table)
               PROVE  FALSE
    OBVIOUS
  <2>1. s \in left /\ s \in Nat /\ m \in Nat
    BY <1>1, <1>2
  <2> QED
    BY <1>3, <2>1
<1>6. ~(Cardinality(before(m)) < RetentionBatch)
  BY <1>3 DEF BatchOf
<1>7. /\ Cardinality(before(m)) <= Cardinality(BatchOf(table))
      /\ Cardinality(before(m)) \in Nat /\ Cardinality(BatchOf(table)) \in Nat
  <2>1. IsFiniteSet(before(m))
    BY <1>4, <1>5, FS_Subset
  <2> QED
    BY <1>4, <1>5, <2>1, FS_Subset, FS_CardinalityType
<1> QED
  BY <1>6, <1>7, RetentionAssumption

\* What a run still knows after a step that leaves its place and its batch.
LEMMA SweepStays ==
  ASSUME RetentionInv, NEW q \in Procs, req[q] # None,
         req'[q].batch = req[q].batch, req'[q].table = req[q].table, req'[q].at = req[q].at,
         req'[q].due \subseteq req[q].due,
         \A x \in req'[q].due : Loose(x)' => Loose(x),
         \A x \in req[q].batch : retained'[x] # None /\ retained'[x].hold = TRUE => retained'[x].late = TRUE,
         req'[q].due # {} => /\ \A x \in req[q].batch : retained[x] # None => retained'[x] # None
                             /\ \A z \in Procs : Sweeping(z)' => Sweeping(z)
  PROVE  SweepKnows(q)'
<1>1. SweepKnows(q)
  BY DEF RetentionInv
<1>2. req'[q].due # {} => \A z \in Procs : Sweeping(z)' => z = q
  BY <1>1 DEF SweepKnows
<1>3. req'[q].table = AuditRows => \A x \in req'[q].due \cap ActivityRows : ~Loose(x)'
  BY <1>1 DEF SweepKnows
<1>4. ASSUME req'[q].at = "remove", req'[q].due # {}
      PROVE  /\ \A x \in req'[q].batch : retained'[x] # None
             /\ \A x \in (req'[q].due \cap req'[q].table) \ req'[q].batch :
                  Loose(x)' => Cardinality(req'[q].batch) >= RetentionBatch
  <2>1. /\ \A x \in req[q].batch : retained[x] # None
        /\ \A x \in (req[q].due \cap req[q].table) \ req[q].batch :
             Loose(x) => Cardinality(req[q].batch) >= RetentionBatch
    BY <1>1, <1>4 DEF SweepKnows
  <2> QED
    BY <1>4, <2>1
<1> QED
  BY <1>2, <1>3, <1>4 DEF SweepKnows

LEMMA RetentionKeeps ==
  ASSUME RetentionInv, RetentionNext
  PROVE  RetentionInv'
<1>0. /\ \A p \in Procs : req[p] # None => req[p] \in SweepRequest /\ SweepKnows(p)
      /\ \A p \in Procs : Sweeping(p) <=> req[p] # None
      /\ removedHeld = {} /\ leftBehind = {}
  BY DEF RetentionInv, HeldIsKept, SweepIsComplete, Sweeping, Running, SweepRequest
<1>1. CASE Tick /\ UNCHANGED retentionVars
  <2>1. clock' \in Nat /\ UNCHANGED <<req, retained, removedHeld, leftBehind>>
    BY <1>1, MaxClockAssumption DEF Tick, retentionVars, RetentionInv
  <2>2. \A x \in RetainedRows : Loose(x)' <=> Loose(x)
    BY <2>1 DEF Loose
  <2>3. \A p \in Procs : req'[p] # None => SweepKnows(p)'
    BY <2>1 DEF RetentionInv, SweepKnows, Loose, Sweeping, Running
  <2> QED
    BY <2>1, <2>2, <2>3 DEF RetentionInv, HeldIsKept, SweepIsComplete
<1>2. ASSUME NEW p \in Procs, StartSweep(p)
      PROVE  RetentionInv'
  <2> DEFINE D == IF \E q \in Procs : Sweeping(q) THEN {} ELSE {r \in RetainedRows : Purgeable(r)}
             run == [op |-> "retention", at |-> "find", table |-> ActivityRows, batch |-> {}, due |-> D]
             other(q) == [req[q] EXCEPT !.due = {}]
  <2>1. /\ req[p] = None /\ UNCHANGED <<clock, retained, removedHeld, leftBehind>>
        /\ req' = [q \in Procs |-> IF q = p THEN run ELSE IF Sweeping(q) THEN other(q) ELSE req[q]]
    BY <1>2 DEF StartSweep, retentionVars
  <2>2. D \subseteq RetainedRows
    OBVIOUS
  <2>3. /\ run \in SweepRequest /\ run.due = D /\ run.batch = {} /\ run.table = ActivityRows
        /\ run.at = "find"
    BY <2>2 DEF SweepRequest
  <2>4. \A q \in Procs : req[q] # None => other(q) \in SweepRequest /\ other(q).due = {}
          /\ other(q).batch = req[q].batch /\ other(q).table = req[q].table /\ other(q).at = req[q].at
    BY <1>0 DEF SweepRequest
  <2>5. D # {} => \A q \in Procs : ~Sweeping(q)
    OBVIOUS
  <2> HIDE DEF run, other, D
  <2>6. req' \in [Procs -> SweepRequest \cup {None}]
    BY <1>0, <2>1, <2>3, <2>4
  <2>7. req'[p] = run /\ \A q \in Procs : q # p => req'[q] = IF Sweeping(q) THEN other(q) ELSE req[q]
    BY <2>1
  <2>8. \A x \in RetainedRows : Loose(x)' <=> Loose(x)
    BY <2>1 DEF Loose
  <2>9. ASSUME NEW q \in Procs, req'[q] # None
        PROVE  SweepKnows(q)'
    <3>1. CASE q = p
      <4>1. D # {} => \A z \in Procs : Sweeping(z)' => z = p
        BY <1>0, <2>5, <2>7 DEF Sweeping, Running
      <4>2. ActivityRows = AuditRows => ActivityRows = {}
        BY RetentionAssumption
      <4> QED
        BY <2>3, <2>7, <3>1, <4>1, <4>2 DEF SweepKnows
    <3>2. CASE q # p
      <4>1. req[q] # None /\ req'[q] = other(q)
        BY <1>0, <1>2, <2>7, <2>9, <3>2
      <4>2. \A x \in req[q].batch : retained'[x] # None /\ retained'[x].hold = TRUE => retained'[x].late = TRUE
        BY <1>0, <2>1, <4>1 DEF SweepKnows
      <4> QED
        BY <2>4, <4>1, <4>2, SweepStays
    <3> QED
      BY <3>1, <3>2
  <2> QED
    BY <2>1, <2>6, <2>8, <2>9 DEF RetentionInv, HeldIsKept, SweepIsComplete
<1>3. ASSUME NEW p \in Procs, FindBatch(p)
      PROVE  RetentionInv'
  <2> DEFINE B == BatchOf(req[p].table)
             r == [req[p] EXCEPT !.at = "remove", !.batch = B]
  <2>1. /\ req[p] \in SweepRequest /\ SweepKnows(p) /\ req[p] # None
        /\ UNCHANGED <<clock, retained, removedHeld, leftBehind>>
    BY <1>0, <1>3 DEF FindBatch, retentionVars
  <2>2. req[p].table \subseteq RetainedRows /\ req[p].table \in {ActivityRows, AuditRows}
    BY <2>1 DEF SweepRequest, RetainedRows
  <2>3. \A x \in B : x \in RetainedRows /\ Purgeable(x)
    BY <2>2 DEF BatchOf
  <2>4. /\ r \in SweepRequest /\ r.at = "remove" /\ r.batch = B
        /\ r.due = req[p].due /\ r.table = req[p].table
    BY <2>1, <2>3 DEF SweepRequest
  <2>5. req' = [req EXCEPT ![p] = r]
    BY <1>3 DEF FindBatch, RetentionInv
  <2>6. \A x \in B : Loose(x)
    BY <2>3, PurgeableLoose
  <2>7. \A x \in req[p].table \ B : Loose(x) => Cardinality(B) >= RetentionBatch
    BY <2>2, BatchFull, PurgeableLoose
  <2> HIDE DEF r, B
  <2>8. req'[p] = r /\ (\A q \in Procs : q # p => req'[q] = req[q]) /\ req' \in [Procs -> SweepRequest \cup {None}]
    BY <2>4, <2>5 DEF RetentionInv
  <2>9. (\A x : Loose(x)' <=> Loose(x)) /\ \A q \in Procs : Sweeping(q)' => Sweeping(q)
    BY <1>0, <2>1, <2>8 DEF Loose, Sweeping, Running
  <2>10. ASSUME NEW q \in Procs, req'[q] # None
         PROVE  SweepKnows(q)'
    <3>1. CASE q = p
      <4>1. \A x \in r.batch : retained'[x] # None /\ retained'[x].hold # TRUE
        BY <2>1, <2>4, <2>6 DEF Loose
      <4>2. r.due # {} => \A z \in Procs : Sweeping(z)' => z = p
        BY <2>1, <2>4, <2>9 DEF SweepKnows
      <4>3. r.table = AuditRows => \A x \in r.due \cap ActivityRows : ~Loose(x)'
        BY <2>1, <2>4, <2>9 DEF SweepKnows
      <4>4. \A x \in (r.due \cap r.table) \ r.batch : Loose(x)' => Cardinality(r.batch) >= RetentionBatch
        BY <2>4, <2>7, <2>9
      <4> QED
        BY <2>8, <3>1, <4>1, <4>2, <4>3, <4>4 DEF SweepKnows
    <3>2. CASE q # p
      BY <1>0, <2>1, <2>8, <2>9, <2>10, <3>2, SweepStays DEF SweepKnows
    <3> QED
      BY <3>1, <3>2
  <2> QED
    BY <2>1, <2>8, <2>9, <2>10 DEF RetentionInv, HeldIsKept, SweepIsComplete
<1>4. ASSUME NEW p \in Procs, RemoveBatch(p)
      PROVE  RetentionInv'
  <2> DEFINE gone == {x \in req[p].batch : retained[x] # None}
  <2>1. /\ req[p] \in SweepRequest /\ SweepKnows(p) /\ req[p] # None /\ req[p].at = "remove"
        /\ retained' = [x \in RetainedRows |-> IF x \in gone THEN None ELSE retained[x]]
        /\ removedHeld' = removedHeld \cup {x \in gone : retained[x].hold /\ ~retained[x].late}
        /\ clock' = clock
    BY <1>0, <1>4 DEF RemoveBatch, At
  <2>2. removedHeld' = {}
    <3>1. ASSUME NEW x \in gone, retained[x].hold
          PROVE  retained[x].late
      <4>1. retained[x] \in RetainedRow
        BY <2>1 DEF SweepRequest, RetentionInv
      <4>2. retained[x].hold = TRUE
        BY <3>1, <4>1 DEF RetainedRow
      <4>3. retained[x].late = TRUE
        BY <2>1, <4>2 DEF SweepKnows
      <4> QED
        BY <4>3
    <3> QED
      BY <1>0, <2>1, <3>1
  <2>3. retained' \in [RetainedRows -> RetainedRow \cup {None}]
    BY <2>1 DEF RetentionInv
  <2>4. \A x \in RetainedRows : retained'[x] = None \/ retained'[x] = retained[x]
    BY <2>1
  <2>5. \A x \in RetainedRows : Loose(x)' => Loose(x) /\ x \notin req[p].batch
    BY <2>1 DEF Loose
  <2>6. ASSUME LastBatch(Cardinality(gone)), NEW x \in (req[p].due \cap req[p].table) \ req[p].batch
        PROVE  ~Loose(x)
    <3>1. SUFFICES ASSUME Loose(x) PROVE FALSE
      OBVIOUS
    <3>2. (\A y \in req[p].batch : retained[y] # None) /\ Cardinality(req[p].batch) >= RetentionBatch
      BY <2>1, <2>6, <3>1 DEF SweepKnows
    <3>3. gone = req[p].batch
      BY <3>2
    <3>4. Cardinality(gone) \in Nat
      <4>1. IsFiniteSet(RetainedRows)
        BY RetentionAssumption, FS_Union DEF RetainedRows
      <4> QED
        BY <2>1, <4>1, FS_Subset, FS_CardinalityType DEF SweepRequest
    <3>5. RetentionBatch \in Nat /\ Cardinality(gone) < RetentionBatch
      BY <2>6, RetentionAssumption DEF LastBatch
    <3>6. Cardinality(gone) >= RetentionBatch
      BY <3>2, <3>3
    <3> HIDE DEF gone
    <3> QED
      BY <3>4, <3>5, <3>6
  <2> HIDE DEF gone
  <2>7. ASSUME NEW r \in SweepRequest \cup {None}, req' = [req EXCEPT ![p] = r], leftBehind' = {},
               r # None => /\ r.at = "find" /\ r.batch = req[p].batch /\ r.due = req[p].due
                           /\ r.table = AuditRows => \A x \in r.due \cap ActivityRows : ~Loose(x)'
        PROVE  RetentionInv'
    <3>1. /\ req' \in [Procs -> SweepRequest \cup {None}] /\ req'[p] = r
          /\ \A q \in Procs : q # p => req'[q] = req[q]
      BY <2>7 DEF RetentionInv
    <3>2. \A q \in Procs : Sweeping(q)' => Sweeping(q)
      BY <1>0, <2>1, <3>1 DEF Sweeping, Running
    <3>3. \A q \in Procs : req[q] # None => \A x \in req[q].batch :
            retained'[x] # None /\ retained'[x].hold = TRUE => retained'[x].late = TRUE
      BY <1>0, <2>4 DEF SweepKnows, SweepRequest
    <3>4. ASSUME NEW q \in Procs, req'[q] # None
          PROVE  SweepKnows(q)'
      <4>1. CASE q = p
        <5>1. r.due # {} => \A z \in Procs : Sweeping(z)' => z = p
          BY <2>1, <2>7, <3>1, <3>2, <3>4, <4>1 DEF SweepKnows
        <5> QED
          BY <2>1, <2>7, <3>1, <3>3, <3>4, <4>1, <5>1 DEF SweepKnows
      <4>2. CASE q # p
        <5>1. req'[q] = req[q] /\ req[q] # None /\ SweepKnows(q) /\ req[q] \in SweepRequest
          BY <1>0, <3>1, <3>4, <4>2
        <5>2. req[q].due = {}
          BY <1>0, <2>1, <4>2, <5>1 DEF SweepKnows
        <5> QED
          BY <3>3, <5>1, <5>2, SweepStays
      <4> QED
        BY <4>1, <4>2
    <3>5. \A x \in RetainedRows : Loose(x)' => retained'[x].until = None
      BY <2>4, <2>5 DEF RetentionInv, Loose
    <3> QED
      BY <2>1, <2>2, <2>3, <2>7, <3>1, <3>4, <3>5 DEF RetentionInv, HeldIsKept, SweepIsComplete
  <2>8. /\ req[p].table \in {ActivityRows, AuditRows} /\ req[p].due \subseteq RetainedRows
        /\ req[p].batch \subseteq RetainedRows
    BY <2>1 DEF SweepRequest
  <2>9. CASE ~LastBatch(Cardinality(gone)) /\ req' = [req EXCEPT ![p].at = "find"] /\ UNCHANGED leftBehind
    <3> DEFINE r == [req[p] EXCEPT !.at = "find"]
    <3>1. /\ r \in SweepRequest /\ r.at = "find" /\ r.batch = req[p].batch /\ r.due = req[p].due
          /\ r.table = req[p].table
      BY <2>1 DEF SweepRequest
    <3>2. req' = [req EXCEPT ![p] = r]
      BY <2>9 DEF RetentionInv
    <3>3. r.table = AuditRows => \A x \in r.due \cap ActivityRows : ~Loose(x)'
      BY <2>1, <2>5, <2>8, <3>1 DEF SweepKnows
    <3> HIDE DEF r
    <3> QED
      BY <1>0, <2>7, <2>9, <3>1, <3>2, <3>3
  <2>10. CASE /\ LastBatch(Cardinality(gone)) /\ req[p].table = ActivityRows
              /\ req' = [req EXCEPT ![p].at = "find", ![p].table = AuditRows] /\ UNCHANGED leftBehind
    <3> DEFINE r == [req[p] EXCEPT !.at = "find", !.table = AuditRows]
    <3>1. /\ r \in SweepRequest /\ r.at = "find" /\ r.batch = req[p].batch /\ r.due = req[p].due
      BY <2>1 DEF SweepRequest
    <3>2. req' = [req EXCEPT ![p] = r]
      BY <2>10 DEF RetentionInv
    <3>3. \A x \in r.due \cap ActivityRows : ~Loose(x)'
      BY <2>5, <2>6, <2>8, <2>10, <3>1
    <3> HIDE DEF r
    <3> QED
      BY <1>0, <2>7, <2>10, <3>1, <3>2, <3>3
  <2>11. CASE /\ LastBatch(Cardinality(gone)) /\ req[p].table = AuditRows /\ Done(p)
              /\ leftBehind' = {x \in req[p].due \ req[p].batch : Purgeable(x)}
    <3>1. \A x \in req[p].due \ req[p].batch : ~Purgeable(x)
      <4> SUFFICES ASSUME NEW x \in req[p].due \ req[p].batch PROVE ~Purgeable(x)
        OBVIOUS
      <4>1. x \in RetainedRows /\ (x \in ActivityRows \/ x \in AuditRows)
        BY <2>8 DEF RetainedRows
      <4>2. ~Loose(x)
        BY <2>1, <2>6, <2>11, <4>1 DEF SweepKnows
      <4> QED
        BY <4>1, <4>2, PurgeableLoose
    <3>2. leftBehind' = {}
      BY <2>11, <3>1
    <3> QED
      BY <2>7, <2>11, <3>2 DEF Done
  <2> QED
    BY <1>4, <2>9, <2>10, <2>11 DEF RemoveBatch, gone
<1>5. ASSUME NEW p \in Procs, SweepStops(p)
      PROVE  RetentionInv'
  <2>1. req' = [req EXCEPT ![p] = None] /\ UNCHANGED <<clock, retained, removedHeld, leftBehind>>
    BY <1>5 DEF SweepStops, Done, retentionVars
  <2>2. /\ req' \in [Procs -> SweepRequest \cup {None}]
        /\ \A q \in Procs : req'[q] = None \/ req'[q] = req[q]
    BY <2>1 DEF RetentionInv
  <2>3. \A q \in Procs : Sweeping(q)' => Sweeping(q)
    BY <1>0, <2>2 DEF Sweeping, Running
  <2>4. (\A x : Loose(x)' <=> Loose(x))
    BY <2>1 DEF Loose
  <2>5. ASSUME NEW q \in Procs, req'[q] # None
        PROVE  SweepKnows(q)'
    BY <1>0, <2>1, <2>2, <2>3, <2>4, <2>5, SweepStays DEF SweepKnows
  <2> QED
    BY <2>1, <2>2, <2>4, <2>5 DEF RetentionInv, HeldIsKept, SweepIsComplete
<1>6. ASSUME NEW y \in RetainedRows, SetHold(y)
      PROVE  RetentionInv'
  <2>1. PICK b \in BOOLEAN : b = (\E q \in Procs : Sweeping(q) /\ y \in req[q].batch)
    OBVIOUS
  <2>c. PICK n \in Nat : n = clock + 1
    BY DEF RetentionInv
  <2> DEFINE row == [hold |-> TRUE, until |-> n, late |-> b]
  <2>2. /\ retained[y] # None /\ retained' = [retained EXCEPT ![y] = row]
        /\ UNCHANGED <<req, clock, removedHeld, leftBehind>>
    BY <1>6, <2>1, <2>c DEF SetHold
  <2>3. row \in RetainedRow /\ row.hold = TRUE /\ row.late = b
    BY DEF RetainedRow
  <2>4. row # None
    BY <2>3, RetentionAssumption
  <2> HIDE DEF row
  <2>5. /\ retained' \in [RetainedRows -> RetainedRow \cup {None}] /\ retained'[y] = row
        /\ \A x \in RetainedRows : x # y => retained'[x] = retained[x]
    BY <2>2, <2>3 DEF RetentionInv
  <2>6. \A x \in RetainedRows : Loose(x)' => Loose(x) /\ retained'[x] = retained[x]
    BY <2>3, <2>5 DEF Loose
  <2>7. ASSUME NEW q \in Procs, req'[q] # None
        PROVE  SweepKnows(q)'
    <3>1. req'[q] = req[q] /\ req[q] \in SweepRequest /\ SweepKnows(q) /\ Sweeping(q)
      BY <1>0, <2>2, <2>7
    <3>2. req[q].batch \subseteq RetainedRows /\ req[q].due \subseteq RetainedRows
      BY <3>1 DEF SweepRequest
    <3>3. \A x \in req[q].batch : retained'[x] # None /\ retained'[x].hold = TRUE => retained'[x].late = TRUE
      BY <2>1, <2>3, <2>5, <3>1, <3>2 DEF SweepKnows
    <3>4. \A x \in req[q].batch : retained[x] # None => retained'[x] # None
      BY <2>4, <2>5, <3>2
    <3>5. \A z \in Procs : Sweeping(z)' => Sweeping(z)
      BY <2>2 DEF Sweeping, Running
    <3> QED
      BY <2>6, <2>7, <3>1, <3>2, <3>3, <3>4, <3>5, SweepStays
  <2> QED
    BY <2>2, <2>5, <2>6, <2>7 DEF RetentionInv, HeldIsKept, SweepIsComplete
<1>7. ASSUME NEW y \in RetainedRows, ReleaseHold(y)
      PROVE  RetentionInv'
  <2> DEFINE other(q) == [req[q] EXCEPT !.due = @ \ {y}]
  <2>1. /\ retained[y] # None /\ retained' = [retained EXCEPT ![y] = NoHold]
        /\ req' = [q \in Procs |-> IF Sweeping(q) THEN other(q) ELSE req[q]]
        /\ UNCHANGED <<clock, removedHeld, leftBehind>>
    BY <1>7 DEF ReleaseHold
  <2>2. NoHold \in RetainedRow /\ NoHold.hold # TRUE /\ NoHold.until = None
    BY DEF NoHold, RetainedRow
  <2>3. NoHold # None
    BY <2>2, RetentionAssumption
  <2>4. \A q \in Procs : req[q] # None => other(q) \in SweepRequest /\ other(q).due = req[q].due \ {y}
          /\ other(q).batch = req[q].batch /\ other(q).table = req[q].table /\ other(q).at = req[q].at
    BY <1>0 DEF SweepRequest
  <2> HIDE DEF other
  <2>5. req' \in [Procs -> SweepRequest \cup {None}]
    BY <1>0, <2>1, <2>4
  <2>6. \A q \in Procs : req'[q] = IF Sweeping(q) THEN other(q) ELSE req[q]
    BY <2>1
  <2>7. /\ retained' \in [RetainedRows -> RetainedRow \cup {None}] /\ retained'[y] = NoHold
        /\ \A x \in RetainedRows : x # y => retained'[x] = retained[x]
    BY <2>1, <2>2 DEF RetentionInv
  <2>8. ASSUME NEW q \in Procs, req'[q] # None
        PROVE  SweepKnows(q)'
    <3>1. req[q] # None /\ req'[q] = other(q) /\ req[q] \in SweepRequest /\ SweepKnows(q)
      BY <1>0, <2>6, <2>8
    <3>2. req[q].batch \subseteq RetainedRows /\ req[q].due \subseteq RetainedRows
      BY <3>1 DEF SweepRequest
    <3>3. \A x \in req[q].batch : retained'[x] # None /\ retained'[x].hold = TRUE => retained'[x].late = TRUE
      BY <2>2, <2>7, <3>1, <3>2 DEF SweepKnows
    <3>4. \A x \in req[q].batch : retained[x] # None => retained'[x] # None
      BY <2>3, <2>7, <3>2
    <3>5. \A z \in Procs : Sweeping(z)' => Sweeping(z)
      BY <1>0, <2>6 DEF Sweeping, Running
    <3>6. \A x \in req'[q].due : Loose(x)' => Loose(x)
      BY <2>4, <2>7, <3>1, <3>2 DEF Loose
    <3>7. /\ req'[q].batch = req[q].batch /\ req'[q].table = req[q].table /\ req'[q].at = req[q].at
          /\ req'[q].due \subseteq req[q].due
      BY <2>4, <3>1
    <3> QED
      BY <3>1, <3>3, <3>4, <3>5, <3>6, <3>7, SweepStays
  <2>9. \A x \in RetainedRows : Loose(x)' => retained'[x].until = None
    BY <2>2, <2>7 DEF RetentionInv, Loose
  <2> QED
    BY <2>1, <2>5, <2>7, <2>8, <2>9 DEF RetentionInv, HeldIsKept, SweepIsComplete
<1> QED
  BY <1>1, <1>2, <1>3, <1>4, <1>5, <1>6, <1>7 DEF RetentionNext

-----------------------------------------------------------------------------
(***************************************************************************)
(* Versions of a workflow.                                                 *)
(***************************************************************************)

DraftRequest == [op : {"draft"}, at : {"create"}, v : Versions, number : Nat]
DispatchRequest ==
  [op : {"dispatch"}, at : {"next"}, event : Events, todo : SUBSET Versions, arrived : BOOLEAN]

AuthoringRequest == DraftRequest \cup PublishRequest \cup DispatchRequest

Publishing(p) == Running(p, "publish")
ActiveVersions == {v \in Versions : version[v] # None /\ version[v].status = "ACTIVE"}
Pointed == {workflow.active} \ {None}

\* A number was the next one when it was computed; a publication is of versions that
\* exist; what a dispatch has still to do was listed while the workflow was ACTIVE.
KnowsVersions(p) ==
  LET r == req[p]
  IN  /\ r.op = "draft" => r.number \in 1 .. Cardinality(Created) + 1
      /\ r.op = "publish" => /\ version[r.v] # None
                             /\ r.previous # None => version[r.previous] # None
      /\ r.op = "dispatch" /\ r.todo # {} => r.arrived = TRUE

\* Without overlap and halt, a publication takes its version and its predecessor
\* through the states of publishActivate.
PublicationsApart ==
  /\ \A p, q \in Procs : Publishing(p) /\ Publishing(q) => p = q
  /\ \A p \in Procs : Publishing(p) =>
       /\ req[p].at = "activate" =>
            /\ ActiveVersions = Pointed /\ req[p].previous = workflow.active
            /\ version[req[p].v].status = "DRAFT"
       /\ req[p].at = "previous" =>
            /\ ActiveVersions = Pointed \cup {req[p].v} /\ req[p].previous = workflow.active
            /\ req[p].previous # req[p].v
       /\ req[p].at = "workflow" => ActiveVersions = {req[p].v}
  /\ (\A p \in Procs : ~Publishing(p)) => ActiveVersions = Pointed

WorkflowInv ==
  /\ req \in [Procs -> AuthoringRequest \cup {None}]
  /\ version \in [Versions -> VersionRow \cup {None}]
  /\ workflow \in [status : {"DRAFT", "ACTIVE", "PAUSED", "ARCHIVED"}, active : Versions \cup {None}]
  /\ disturbed \in BOOLEAN
  /\ workflow.active # None => version[workflow.active] # None
  /\ IsFiniteSet(Created) /\ VersionsNumbered
  /\ \A p \in Procs : req[p] # None => KnowsVersions(p)
  /\ \A x \in execution : x.arrived = TRUE
  /\ ~disturbed => PublicationsApart

LEMMA WorkflowInitial ==
  ASSUME RequestsInit, WorkflowsInit
  PROVE  WorkflowInv
<1>1. Created = {} /\ ActiveVersions = {} /\ Pointed = {}
  BY DEF WorkflowsInit, Created, ActiveVersions, Pointed
<1>2. IsFiniteSet(Created) /\ Cardinality(Created) = 0
  BY <1>1, FS_EmptySet
<1>3. VersionsNumbered
  BY <1>1, <1>2 DEF VersionsNumbered
<1>4. PublicationsApart
  BY <1>1 DEF RequestsInit, PublicationsApart, Publishing, Running
<1> QED
  BY <1>2, <1>3, <1>4 DEF RequestsInit, WorkflowsInit, WorkflowInv

\* A step of one request; the rows of versions are kept or added.
LEMMA WorkflowStep ==
  ASSUME WorkflowInv, NEW p \in Procs, NEW r \in AuthoringRequest \cup {None},
         req' = [req EXCEPT ![p] = r],
         version' \in [Versions -> VersionRow \cup {None}],
         workflow' \in [status : {"DRAFT", "ACTIVE", "PAUSED", "ARCHIVED"}, active : Versions \cup {None}],
         \A v \in Versions : version[v] # None => version'[v] # None,
         workflow'.active # None => version'[workflow'.active] # None,
         IsFiniteSet(Created'), Cardinality(Created) <= Cardinality(Created'), VersionsNumbered',
         r # None => KnowsVersions(p)', \A x \in execution' : x.arrived = TRUE,
         disturbed' \in BOOLEAN, ~disturbed' => PublicationsApart'
  PROVE  WorkflowInv'
<1>1. req' \in [Procs -> AuthoringRequest \cup {None}] /\ req'[p] = r
      /\ \A q \in Procs : q # p => req'[q] = req[q]
  BY DEF WorkflowInv
<1>2. ASSUME NEW q \in Procs, req'[q] # None
      PROVE  KnowsVersions(q)'
  <2>1. CASE q = p
    BY <1>1, <1>2, <2>1
  <2>2. CASE q # p
    <3>1. req'[q] = req[q] /\ req[q] \in AuthoringRequest /\ KnowsVersions(q)
      BY <1>1, <1>2, <2>2 DEF WorkflowInv
    <3>2. Cardinality(Created) \in Nat /\ Cardinality(Created') \in Nat
      BY FS_CardinalityType DEF WorkflowInv
    <3>3. req[q].op = "draft" => req[q].number \in 1 .. Cardinality(Created') + 1
      BY <3>1, <3>2 DEF KnowsVersions
    <3>4. req[q].op = "publish" => req[q].v \in Versions /\ req[q].previous \in Versions \cup {None}
      BY <3>1 DEF AuthoringRequest, DraftRequest, PublishRequest, DispatchRequest
    <3>5. req[q].op = "publish" => /\ version'[req[q].v] # None
                                   /\ req[q].previous # None => version'[req[q].previous] # None
      BY <3>1, <3>4 DEF KnowsVersions
    <3> QED
      BY <3>1, <3>3, <3>5 DEF KnowsVersions
  <2> QED
    BY <2>1, <2>2
<1> QED
  BY <1>1, <1>2 DEF WorkflowInv

\* What is no step of a publication, and adds at most a draft, does not disturb one.
LEMMA ApartStays ==
  ASSUME WorkflowInv, ~disturbed, NEW p \in Procs, NEW r, req' = [req EXCEPT ![p] = r],
         ~(r # None /\ r.op = "publish"),
         Publishing(p) => req[p].at = "activate",
         workflow'.active = workflow.active,
         \A v \in Versions : version[v] # None => version'[v] = version[v],
         \A v \in Versions : version[v] = None => version'[v] = None \/ version'[v].status = "DRAFT"
  PROVE  PublicationsApart'
<1>1. PublicationsApart
  BY DEF WorkflowInv
<1>2. ActiveVersions' = ActiveVersions /\ Pointed' = Pointed
  BY DEF ActiveVersions, Pointed
<1>3. /\ ~Publishing(p)'
      /\ \A q \in Procs : q # p => req'[q] = req[q] /\ (Publishing(q)' <=> Publishing(q))
  BY DEF WorkflowInv, Publishing, Running
<1>4. \A q \in Procs : Publishing(q) => req[q].v \in Versions /\ version[req[q].v] # None
  <2> SUFFICES ASSUME NEW q \in Procs, Publishing(q)
               PROVE  req[q].v \in Versions /\ version[req[q].v] # None
    OBVIOUS
  <2>1. req[q] \in PublishRequest /\ KnowsVersions(q) /\ req[q].op = "publish"
    BY DEF WorkflowInv, AuthoringRequest, DraftRequest, PublishRequest, DispatchRequest,
       Publishing, Running
  <2> QED
    BY <2>1 DEF KnowsVersions, PublishRequest
<1>5. \A q, z \in Procs : Publishing(q)' /\ Publishing(z)' => q = z
  BY <1>1, <1>3 DEF PublicationsApart
<1>6. ASSUME NEW q \in Procs, Publishing(q)'
      PROVE  /\ req'[q].at = "activate" =>
                  /\ ActiveVersions' = Pointed' /\ req'[q].previous = workflow'.active
                  /\ version'[req'[q].v].status = "DRAFT"
             /\ req'[q].at = "previous" =>
                  /\ ActiveVersions' = Pointed' \cup {req'[q].v} /\ req'[q].previous = workflow'.active
                  /\ req'[q].previous # req'[q].v
             /\ req'[q].at = "workflow" => ActiveVersions' = {req'[q].v}
  <2>1. q # p /\ req'[q] = req[q] /\ Publishing(q)
    BY <1>3, <1>6
  <2> QED
    BY <1>1, <1>2, <1>4, <2>1 DEF PublicationsApart
<1>7. ASSUME \A q \in Procs : ~Publishing(q)'
      PROVE  ActiveVersions' = Pointed'
  <2>1. CASE Publishing(p)
    BY <1>1, <1>2, <2>1 DEF PublicationsApart
  <2>2. CASE ~Publishing(p)
    BY <1>1, <1>2, <1>3, <1>7, <2>2 DEF PublicationsApart
  <2> QED
    BY <2>1, <2>2
<1> QED
  BY <1>5, <1>6, <1>7 DEF PublicationsApart

\* A step of a request that leaves the rows and the executions.
LEMMA WorkflowRequests ==
  ASSUME WorkflowInv, NEW p \in Procs, NEW r \in AuthoringRequest \cup {None},
         req' = [req EXCEPT ![p] = r], UNCHANGED <<workflow, version>>,
         \A x \in execution' : x.arrived = TRUE,
         r # None => KnowsVersions(p)', disturbed' \in BOOLEAN, ~disturbed' => PublicationsApart'
  PROVE  WorkflowInv'
<1>1. Created' = Created
  BY DEF Created
<1>3. VersionsNumbered'
  BY <1>1 DEF WorkflowInv, VersionsNumbered
<1>2. Cardinality(Created) \in Nat
  BY FS_CardinalityType DEF WorkflowInv
<1> QED
  <2>1. /\ IsFiniteSet(Created') /\ Cardinality(Created) <= Cardinality(Created')
        /\ \A v \in Versions : version[v] # None => version'[v] # None
        /\ workflow'.active # None => version'[workflow'.active] # None
    BY <1>1, <1>2 DEF WorkflowInv
  <2>2. /\ version' \in [Versions -> VersionRow \cup {None}]
        /\ workflow' \in [status : {"DRAFT", "ACTIVE", "PAUSED", "ARCHIVED"}, active : Versions \cup {None}]
    BY DEF WorkflowInv
  <2> QED
    BY <1>3, <2>1, <2>2, WorkflowStep

\* The status of one version changes.
LEMMA StatusChanges ==
  ASSUME WorkflowInv, NEW v \in Versions, version[v] # None,
         NEW s \in {"DRAFT", "ACTIVE", "PAUSED"}, version' = [version EXCEPT ![v].status = s]
  PROVE  /\ version' \in [Versions -> VersionRow \cup {None}]
         /\ \A w \in Versions : version[w] # None => version'[w] # None
         /\ \A w \in Versions : w # v => version'[w] = version[w]
         /\ version'[v] # None /\ version'[v].status = s
         /\ IsFiniteSet(Created') /\ Cardinality(Created) <= Cardinality(Created') /\ VersionsNumbered'
<1> DEFINE row == [version[v] EXCEPT !.status = s]
<1>1. version[v] \in VersionRow
  BY DEF WorkflowInv
<1>2. row \in VersionRow /\ row.number = version[v].number /\ row.status = s
  BY <1>1 DEF VersionRow
<1>3. version' = [version EXCEPT ![v] = row] /\ row # None
  BY <1>2, WorkflowsAssumption DEF WorkflowInv
<1> HIDE DEF row
<1>4. /\ version' \in [Versions -> VersionRow \cup {None}] /\ version'[v] = row
      /\ \A w \in Versions : w # v => version'[w] = version[w]
  BY <1>2, <1>3 DEF WorkflowInv
<1>5. Created' = Created /\ \A w \in Created : version'[w].number = version[w].number
  BY <1>2, <1>3, <1>4 DEF Created
<1>6. {version'[w].number : w \in Created'} = {version[w].number : w \in Created}
  BY <1>5
<1>7. Cardinality(Created) \in Nat
  BY FS_CardinalityType DEF WorkflowInv
<1> QED
  BY <1>2, <1>3, <1>4, <1>5, <1>6, <1>7 DEF WorkflowInv, VersionsNumbered

\* The number that a request computes.
LEMMA LatestFound ==
  ASSUME WorkflowInv
  PROVE  LatestNumber + 1 \in 1 .. Cardinality(Created) + 1
<1> DEFINE c == Cardinality(Created)
           N == {0} \cup {version[v].number : v \in Created}
<1>1. c \in Nat
  BY FS_CardinalityType DEF WorkflowInv
<1>2. {version[v].number : v \in Created} = 1..c
  BY DEF WorkflowInv, VersionsNumbered
<1>3. c \in N /\ \A v \in Created : version[v].number <= c
  BY <1>1, <1>2
<1>4. LatestNumber \in N
  BY <1>3 DEF LatestNumber
<1>5. LatestNumber \in 0..c
  BY <1>1, <1>2, <1>4
<1> QED
  BY <1>1, <1>5

\* What a publication looks like, and what becomes of it at its next point.
LEMMA PublishFields ==
  ASSUME WorkflowInv, NEW p \in Procs, Publishing(p), NEW l \in {"previous", "workflow"}
  PROVE  /\ req[p] \in PublishRequest /\ req[p].op = "publish" /\ KnowsVersions(p)
         /\ req[p].v \in Versions /\ version[req[p].v] # None
         /\ req[p].previous \in Versions \cup {None}
         /\ req[p].previous # None => version[req[p].previous] # None
         /\ LET r == [req[p] EXCEPT !.at = l]
            IN  /\ r \in PublishRequest /\ r # None /\ r.at = l /\ r.op = "publish"
                /\ r.v = req[p].v /\ r.previous = req[p].previous
<1>1. req[p] \in PublishRequest /\ req[p].op = "publish" /\ KnowsVersions(p)
  BY DEF WorkflowInv, AuthoringRequest, DraftRequest, PublishRequest, DispatchRequest,
     Publishing, Running
<1> DEFINE r == [req[p] EXCEPT !.at = l]
<1>2. /\ r \in PublishRequest /\ r.at = l /\ r.op = "publish"
      /\ r.v = req[p].v /\ r.previous = req[p].previous
  BY <1>1 DEF PublishRequest
<1>3. r # None
  BY <1>2, WorkflowsAssumption
<1>4. /\ req[p].v \in Versions /\ version[req[p].v] # None
      /\ req[p].previous \in Versions \cup {None}
      /\ req[p].previous # None => version[req[p].previous] # None
  BY <1>1 DEF PublishRequest, KnowsVersions
<1> QED
  BY <1>1, <1>2, <1>3, <1>4

\* The next point of the publication p, when no other one is under way.
LEMMA ApartMoves ==
  ASSUME WorkflowInv, ~disturbed, NEW p \in Procs, Publishing(p), NEW r,
         req' = [req EXCEPT ![p] = r], r # None, r.op = "publish", r.v = req[p].v,
         r.previous = req[p].previous, UNCHANGED workflow,
         \/ /\ r.at = "previous" /\ ActiveVersions' = Pointed \cup {r.v}
            /\ r.previous = workflow.active /\ r.previous # r.v
         \/ r.at = "workflow" /\ ActiveVersions' = {r.v}
  PROVE  PublicationsApart'
<1>1. \A q \in Procs : Publishing(q) => q = p
  BY DEF WorkflowInv, PublicationsApart
<1>2. req'[p] = r /\ \A q \in Procs : q # p => req'[q] = req[q]
  BY DEF WorkflowInv
<1>3. \A q \in Procs : Publishing(q)' <=> q = p
  BY <1>1, <1>2 DEF Publishing, Running
<1>4. Pointed' = Pointed
  BY DEF Pointed
<1> QED
  BY <1>2, <1>3, <1>4 DEF PublicationsApart

LEMMA WorkflowKeeps ==
  ASSUME WorkflowInv, WorkflowsNext
  PROVE  WorkflowInv'
<1>0. /\ Cardinality(Created) \in Nat /\ None \notin Versions /\ None \notin VersionRow
      /\ None \notin PublishRequest
  BY WorkflowsAssumption, FS_CardinalityType DEF WorkflowInv
<1>1. ASSUME NEW s \in {"PAUSED", "ARCHIVED"}, UpdateWorkflowStatus(s)
      PROVE  WorkflowInv'
  <2>1. /\ workflow' \in [status : {"DRAFT", "ACTIVE", "PAUSED", "ARCHIVED"}, active : Versions \cup {None}]
        /\ workflow'.active = workflow.active
    BY <1>1 DEF UpdateWorkflowStatus, WorkflowInv
  <2>2. UNCHANGED <<req, version, execution, disturbed>>
    BY <1>1 DEF UpdateWorkflowStatus
  <2>3. Created' = Created /\ ActiveVersions' = ActiveVersions /\ Pointed' = Pointed
    BY <2>1, <2>2 DEF Created, ActiveVersions, Pointed
  <2>4. VersionsNumbered'
    BY <2>2, <2>3 DEF WorkflowInv, VersionsNumbered
  <2>5. PublicationsApart => PublicationsApart'
    BY <2>1, <2>2, <2>3 DEF PublicationsApart, Publishing, Running
  <2>6. \A p \in Procs : req'[p] # None => KnowsVersions(p)'
    BY <2>2, <2>3 DEF WorkflowInv, KnowsVersions
  <2> QED
    BY <2>1, <2>2, <2>3, <2>4, <2>5, <2>6 DEF WorkflowInv
<1>2. ASSUME NEW p \in Procs, NEW v \in Versions, CreateDraftRead(p, v)
      PROVE  WorkflowInv'
  <2>1. PICK n : n = LatestNumber + 1 /\ n \in 1 .. Cardinality(Created) + 1
    BY LatestFound
  <2> DEFINE r == [op |-> "draft", at |-> "create", v |-> v, number |-> n]
  <2>2. /\ req[p] = None /\ req' = [req EXCEPT ![p] = r]
        /\ UNCHANGED <<workflow, version, execution, disturbed>>
    BY <1>2, <2>1 DEF CreateDraftRead, Start, workflowVars
  <2>3. r \in AuthoringRequest /\ r.op = "draft" /\ r.number = n
    BY <1>0, <2>1 DEF AuthoringRequest, DraftRequest
  <2> HIDE DEF r
  <2>4. req'[p] = r /\ Created' = Created
    BY <2>2 DEF WorkflowInv, Created
  <2>5. KnowsVersions(p)'
    BY <2>1, <2>3, <2>4 DEF KnowsVersions
  <2>6. ~disturbed => PublicationsApart'
    BY <2>2, <2>3, ApartStays DEF Publishing, Running
  <2> QED
    BY <2>2, <2>3, <2>5, <2>6, WorkflowRequests DEF WorkflowInv
<1>3. ASSUME NEW p \in Procs, CreateDraftVersion(p)
      PROVE  WorkflowInv'
  <2>1. /\ req[p] \in DraftRequest /\ KnowsVersions(p) /\ req' = [req EXCEPT ![p] = None]
        /\ version[req[p].v] = None /\ UNCHANGED <<workflow, execution, disturbed>>
    BY <1>3 DEF CreateDraftVersion, Running, Done, WorkflowInv, AuthoringRequest, DraftRequest,
       PublishRequest, DispatchRequest
  <2>2. ~Publishing(p)
    BY <2>1 DEF Publishing, Running, DraftRequest
  <2>3. CASE ~NumberFree(req[p].number)
    <3>1. version' = version
      BY <1>3, <2>3 DEF CreateDraftVersion
    <3>2. ~disturbed => PublicationsApart'
      BY <2>1, <2>2, <3>1, ApartStays
    <3> QED
      BY <2>1, <3>1, <3>2, WorkflowRequests DEF WorkflowInv
  <2>4. CASE NumberFree(req[p].number)
    <3> DEFINE v == req[p].v
               row == [number |-> req[p].number, status |-> "DRAFT"]
               c == Cardinality(Created)
    <3>1. /\ v \in Versions /\ req[p].number \in 1 .. c + 1 /\ row \in VersionRow
          /\ version' = [version EXCEPT ![v] = row]
      BY <1>0, <1>3, <2>1, <2>4 DEF CreateDraftVersion, DraftRequest, KnowsVersions, VersionRow
    <3>2. row # None /\ row.status = "DRAFT" /\ row.number = req[p].number
      BY <1>0, <3>1
    <3>3. req[p].number \notin 1..c
      BY <2>4 DEF NumberFree, WorkflowInv, VersionsNumbered
    <3>4. req[p].number = c + 1
      BY <1>0, <3>1, <3>3
    <3> HIDE DEF row
    <3>5. /\ version' \in [Versions -> VersionRow \cup {None}] /\ version'[v] = row
          /\ \A w \in Versions : w # v => version'[w] = version[w]
      BY <3>1 DEF WorkflowInv
    <3>6. Created' = Created \cup {v} /\ v \notin Created
      BY <2>1, <3>1, <3>2, <3>5 DEF Created
    <3>7. IsFiniteSet(Created') /\ Cardinality(Created') = c + 1
      BY <3>6, FS_AddElement DEF WorkflowInv
    <3>8. {version'[w].number : w \in Created'} = {version[w].number : w \in Created} \cup {c + 1}
      <4>1. \A w \in Created : version'[w] = version[w] /\ w \in Created'
        BY <3>5, <3>6 DEF Created
      <4>2. version'[v].number = c + 1
        BY <3>2, <3>4, <3>5
      <4> HIDE DEF v, c
      <4> QED
        BY <3>6, <4>1, <4>2
    <3>9. VersionsNumbered'
      <4>1. {version[w].number : w \in Created} = 1..c
        BY DEF WorkflowInv, VersionsNumbered
      <4>2. (1..c) \cup {c + 1} = 1 .. c + 1
        BY <1>0
      <4> QED
        BY <3>7, <3>8, <4>1, <4>2 DEF VersionsNumbered
    <3>10. \A w \in Versions : version[w] # None => version'[w] = version[w]
      BY <2>1, <3>5
    <3>11. \A w \in Versions : version[w] = None => version'[w] = None \/ version'[w].status = "DRAFT"
      BY <3>2, <3>5
    <3>12. ~disturbed => PublicationsApart'
      BY <2>1, <2>2, <3>10, <3>11, ApartStays
    <3>13. workflow' \in [status : {"DRAFT", "ACTIVE", "PAUSED", "ARCHIVED"}, active : Versions \cup {None}]
      BY <2>1 DEF WorkflowInv
    <3>14. workflow'.active # None => version'[workflow'.active] # None
      BY <2>1, <3>10, <3>13 DEF WorkflowInv
    <3>15. /\ Cardinality(Created) <= Cardinality(Created') /\ disturbed' \in BOOLEAN
           /\ \A x \in execution' : x.arrived = TRUE
      BY <1>0, <2>1, <3>7 DEF WorkflowInv
    <3> HIDE DEF c, v
    <3> QED
      BY <2>1, <3>5, <3>7, <3>9, <3>10, <3>12, <3>13, <3>14, <3>15, WorkflowStep
  <2> QED
    BY <2>3, <2>4
<1>4. ASSUME NEW p \in Procs, NEW v \in Versions, PublishRead(p, v)
      PROVE  WorkflowInv'
  <2> DEFINE r == [op |-> "publish", at |-> "activate", v |-> v, previous |-> workflow.active]
  <2>1. /\ req[p] = None /\ req' = [req EXCEPT ![p] = r]
        /\ version[v] # None /\ version[v].status = "DRAFT"
        /\ UNCHANGED <<workflow, version, execution>>
        /\ disturbed' = (disturbed \/ \E q \in Procs : Running(q, "publish"))
    BY <1>4 DEF PublishRead, Start
  <2>2. /\ r \in PublishRequest /\ r.op = "publish" /\ r.at = "activate" /\ r.v = v
        /\ r.previous = workflow.active
    BY DEF PublishRequest, WorkflowInv
  <2> HIDE DEF r
  <2>3. req'[p] = r /\ \A q \in Procs : q # p => req'[q] = req[q]
    BY <2>1 DEF WorkflowInv
  <2>4. KnowsVersions(p)'
    BY <2>1, <2>2, <2>3 DEF KnowsVersions, WorkflowInv
  <2>5. ASSUME ~disturbed'
        PROVE  PublicationsApart'
    <3>1. ~disturbed /\ \A q \in Procs : ~Publishing(q)
      BY <2>1, <2>5 DEF Publishing
    <3>2. ActiveVersions = Pointed
      BY <3>1 DEF WorkflowInv, PublicationsApart
    <3>3. ActiveVersions' = ActiveVersions /\ Pointed' = Pointed
      BY <2>1 DEF ActiveVersions, Pointed
    <3>4. \A q \in Procs : Publishing(q)' <=> q = p
      BY <1>0, <2>2, <2>3, <3>1 DEF Publishing, Running
    <3> QED
      BY <2>1, <2>2, <2>3, <3>2, <3>3, <3>4 DEF PublicationsApart
  <2>6. disturbed' \in BOOLEAN
    BY <2>1
  <2>7. r \in AuthoringRequest /\ \A x \in execution' : x.arrived = TRUE
    BY <2>1, <2>2 DEF AuthoringRequest, WorkflowInv
  <2> QED
    BY <2>1, <2>4, <2>5, <2>6, <2>7, WorkflowRequests
<1>5. ASSUME NEW p \in Procs, PublishActivate(p)
      PROVE  WorkflowInv'
  <2> DEFINE r == [req[p] EXCEPT !.at = "previous"]
  <2>1. /\ Publishing(p) /\ req[p].at = "activate" /\ req' = [req EXCEPT ![p] = r]
        /\ UNCHANGED <<workflow, execution, disturbed>>
    BY <1>5 DEF PublishActivate, Publishing, Running, At, Goto
  <2>b. PICK v \in Versions : v = req[p].v /\ version[v] # None
    BY <2>1, PublishFields
  <2>2. /\ r \in PublishRequest /\ r # None /\ r.at = "previous" /\ r.op = "publish"
        /\ r.v = v /\ r.previous = req[p].previous /\ req[p].previous \in Versions \cup {None}
        /\ req[p].previous # None => version[req[p].previous] # None
    BY <2>1, <2>b, PublishFields
  <2> HIDE DEF r
  <2>3. version' = [version EXCEPT ![v].status = "ACTIVE"]
    BY <1>5, <2>b DEF PublishActivate
  <2>4. /\ version' \in [Versions -> VersionRow \cup {None}]
        /\ \A w \in Versions : version[w] # None => version'[w] # None
        /\ \A w \in Versions : w # v => version'[w] = version[w]
        /\ version'[v] # None /\ version'[v].status = "ACTIVE"
        /\ IsFiniteSet(Created') /\ Cardinality(Created) <= Cardinality(Created') /\ VersionsNumbered'
    BY <2>b, <2>3, StatusChanges
  <2>5. req'[p] = r
    BY <2>1 DEF WorkflowInv
  <2>6. KnowsVersions(p)'
    BY <2>2, <2>4, <2>5 DEF KnowsVersions
  <2>7. ASSUME ~disturbed'
        PROVE  PublicationsApart'
    <3>1. /\ ~disturbed /\ ActiveVersions = Pointed /\ req[p].previous = workflow.active
          /\ version[v].status = "DRAFT"
      BY <2>1, <2>b, <2>7 DEF WorkflowInv, PublicationsApart
    <3>2. ActiveVersions' = ActiveVersions \cup {v}
      BY <2>4 DEF ActiveVersions
    <3>3. r.previous # v
      BY <1>0, <2>2, <3>1 DEF Pointed, ActiveVersions
    <3> QED
      BY <2>1, <2>b, <2>2, <3>1, <3>2, <3>3, ApartMoves
  <2>8. /\ workflow' \in [status : {"DRAFT", "ACTIVE", "PAUSED", "ARCHIVED"}, active : Versions \cup {None}]
        /\ disturbed' \in BOOLEAN /\ \A x \in execution' : x.arrived = TRUE
        /\ r \in AuthoringRequest
    BY <2>1, <2>2 DEF WorkflowInv, AuthoringRequest
  <2>9. workflow'.active # None => version'[workflow'.active] # None
    BY <2>1, <2>4 DEF WorkflowInv
  <2> QED
    BY <2>1, <2>4, <2>6, <2>7, <2>8, <2>9, WorkflowStep
<1>6. ASSUME NEW p \in Procs, PublishPausePrevious(p)
      PROVE  WorkflowInv'
  <2> DEFINE r == [req[p] EXCEPT !.at = "workflow"]
  <2>1. /\ Publishing(p) /\ req[p].at = "previous" /\ req' = [req EXCEPT ![p] = r]
        /\ UNCHANGED <<workflow, execution, disturbed>> /\ version' = PausedVersion(p)
    BY <1>6 DEF PublishPausePrevious, Publishing, Running, At, Goto
  <2>b. PICK v \in Versions : v = req[p].v /\ version[v] # None
    BY <2>1, PublishFields
  <2>c. PICK w \in Versions \cup {None} : w = req[p].previous /\ (w # None => version[w] # None)
    BY <2>1, PublishFields
  <2>2. /\ r \in PublishRequest /\ r # None /\ r.at = "workflow" /\ r.op = "publish"
        /\ r.v = v /\ r.previous = w
    BY <2>1, <2>b, <2>c, PublishFields
  <2> HIDE DEF r
  <2>3. /\ version' \in [Versions -> VersionRow \cup {None}]
        /\ \A x \in Versions : version[x] # None => version'[x] # None
        /\ IsFiniteSet(Created') /\ Cardinality(Created) <= Cardinality(Created') /\ VersionsNumbered'
        /\ IF w # None /\ w # v THEN ActiveVersions' = ActiveVersions \ {w}
           ELSE ActiveVersions' = ActiveVersions
    <3>1. CASE w # None /\ w # v
      <4>1. version' = [version EXCEPT ![w].status = IF @ = "ACTIVE" THEN "PAUSED" ELSE @]
        BY <2>1, <2>b, <2>c, <3>1 DEF PausedVersion
      <4>2. version[w] \in VersionRow
        BY <2>c, <3>1 DEF WorkflowInv
      <4>3. PICK s \in {"DRAFT", "ACTIVE", "PAUSED"} :
              s = IF version[w].status = "ACTIVE" THEN "PAUSED" ELSE version[w].status
        BY <4>2 DEF VersionRow
      <4>4. version' = [version EXCEPT ![w].status = s]
        BY <4>1, <4>3
      <4>5. /\ version' \in [Versions -> VersionRow \cup {None}]
            /\ \A x \in Versions : version[x] # None => version'[x] # None
            /\ \A x \in Versions : x # w => version'[x] = version[x]
            /\ version'[w] # None /\ version'[w].status = s
            /\ IsFiniteSet(Created') /\ Cardinality(Created) <= Cardinality(Created') /\ VersionsNumbered'
        BY <2>c, <3>1, <4>4, StatusChanges
      <4>6. s # "ACTIVE"
        BY <4>3
      <4>7. ActiveVersions' = ActiveVersions \ {w}
        BY <4>5, <4>6 DEF ActiveVersions
      <4> QED
        BY <3>1, <4>5, <4>7
    <3>2. CASE ~(w # None /\ w # v)
      <4>1. version' = version
        BY <2>1, <2>b, <2>c, <3>2 DEF PausedVersion
      <4>2. Created' = Created /\ ActiveVersions' = ActiveVersions
        BY <4>1 DEF Created, ActiveVersions
      <4>3. VersionsNumbered'
        BY <4>1, <4>2 DEF WorkflowInv, VersionsNumbered
      <4> QED
        BY <1>0, <3>2, <4>1, <4>2, <4>3 DEF WorkflowInv
    <3> QED
      BY <3>1, <3>2
  <2>5. req'[p] = r
    BY <2>1 DEF WorkflowInv
  <2>6. KnowsVersions(p)'
    BY <2>b, <2>c, <2>2, <2>3, <2>5 DEF KnowsVersions
  <2>7. ASSUME ~disturbed'
        PROVE  PublicationsApart'
    <3>1. /\ ~disturbed /\ ActiveVersions = Pointed \cup {v} /\ w = workflow.active /\ w # v
      BY <2>1, <2>b, <2>c, <2>7 DEF WorkflowInv, PublicationsApart
    <3>2. ActiveVersions' = {v}
      BY <2>3, <3>1 DEF Pointed
    <3> QED
      BY <2>1, <2>b, <2>c, <2>2, <3>1, <3>2, ApartMoves
  <2>8. /\ workflow' \in [status : {"DRAFT", "ACTIVE", "PAUSED", "ARCHIVED"}, active : Versions \cup {None}]
        /\ disturbed' \in BOOLEAN /\ \A x \in execution' : x.arrived = TRUE
        /\ r \in AuthoringRequest
    BY <2>1, <2>2 DEF WorkflowInv, AuthoringRequest
  <2>9. workflow'.active # None => version'[workflow'.active] # None
    BY <2>1, <2>3 DEF WorkflowInv
  <2> QED
    BY <2>1, <2>3, <2>6, <2>7, <2>8, <2>9, WorkflowStep
<1>7. ASSUME NEW p \in Procs, PublishWorkflow(p)
      PROVE  WorkflowInv'
  <2>1. /\ Publishing(p) /\ req[p].at = "workflow" /\ req' = [req EXCEPT ![p] = None]
        /\ UNCHANGED <<version, execution, disturbed>>
        /\ workflow' = [status |-> "ACTIVE", active |-> req[p].v]
    BY <1>7 DEF PublishWorkflow, Publishing, Running, At, Done
  <2>2. req[p].v \in Versions /\ version[req[p].v] # None
    BY <2>1, PublishFields
  <2>3. /\ workflow' \in [status : {"DRAFT", "ACTIVE", "PAUSED", "ARCHIVED"}, active : Versions \cup {None}]
        /\ workflow'.active = req[p].v
    BY <2>1, <2>2
  <2>4. Created' = Created /\ ActiveVersions' = ActiveVersions
    BY <2>1 DEF Created, ActiveVersions
  <2>5. VersionsNumbered'
    BY <2>1, <2>4 DEF WorkflowInv, VersionsNumbered
  <2>6. ASSUME ~disturbed'
        PROVE  PublicationsApart'
    <3>1. PublicationsApart /\ ActiveVersions = {req[p].v}
      BY <2>1, <2>6 DEF WorkflowInv, PublicationsApart
    <3>2. Pointed' = {req[p].v}
      BY <1>0, <2>2, <2>3 DEF Pointed
    <3>3. req'[p] = None /\ \A q \in Procs : q # p => req'[q] = req[q]
      BY <2>1 DEF WorkflowInv
    <3>4. \A q \in Procs : ~Publishing(q)'
      BY <2>1, <3>1, <3>3 DEF PublicationsApart, Publishing, Running
    <3> QED
      BY <2>4, <3>1, <3>2, <3>4 DEF PublicationsApart
  <2>7. disturbed' \in BOOLEAN /\ (\A x \in execution' : x.arrived = TRUE)
        /\ version' \in [Versions -> VersionRow \cup {None}]
    BY <2>1 DEF WorkflowInv
  <2>8. IsFiniteSet(Created') /\ Cardinality(Created) <= Cardinality(Created')
    BY <1>0, <2>4 DEF WorkflowInv
  <2> QED
    BY <2>1, <2>2, <2>3, <2>5, <2>6, <2>7, <2>8, WorkflowStep
<1>8. ASSUME NEW p \in Procs, NEW e \in Events, DispatchRead(p, e)
      PROVE  WorkflowInv'
  <2>a. PICK b \in BOOLEAN : b = (workflow.status = "ACTIVE")
    OBVIOUS
  <2>b. PICK S \in SUBSET Versions : S = {v \in Versions : ListedVersion(v)}
    OBVIOUS
  <2> DEFINE r == [op |-> "dispatch", at |-> "next", event |-> e, todo |-> S, arrived |-> b]
  <2>1. /\ req[p] = None /\ req' = [req EXCEPT ![p] = r]
        /\ UNCHANGED <<workflow, version, execution, disturbed>>
    BY <1>8, <2>a, <2>b DEF DispatchRead, Start, workflowVars
  <2>2. r \in AuthoringRequest /\ r.op = "dispatch" /\ r.todo = S /\ r.arrived = b
    BY DEF AuthoringRequest, DispatchRequest
  <2>3. S # {} => b = TRUE
    BY <2>a, <2>b DEF ListedVersion
  <2> HIDE DEF r
  <2>4. req'[p] = r
    BY <2>1 DEF WorkflowInv
  <2>5. KnowsVersions(p)'
    BY <2>2, <2>3, <2>4 DEF KnowsVersions
  <2>6. ~disturbed => PublicationsApart'
    BY <2>1, <2>2, ApartStays DEF Publishing, Running
  <2> QED
    BY <2>1, <2>2, <2>5, <2>6, WorkflowRequests DEF WorkflowInv
<1>9. ASSUME NEW p \in Procs, NEW v \in Versions, DispatchCreate(p, v)
      PROVE  WorkflowInv'
  <2>1. /\ req[p] \in DispatchRequest /\ req[p].op = "dispatch" /\ KnowsVersions(p)
        /\ v \in req[p].todo /\ ~Publishing(p) /\ UNCHANGED <<workflow, version, disturbed>>
    BY <1>9 DEF DispatchCreate, Running, Publishing, WorkflowInv, AuthoringRequest, DraftRequest,
       PublishRequest, DispatchRequest
  <2>2. req[p].arrived = TRUE
    BY <2>1 DEF KnowsVersions
  <2> DEFINE r == [req[p] EXCEPT !.todo = @ \ {v}]
  <2>3. r \in DispatchRequest /\ r.op = "dispatch" /\ r.arrived = req[p].arrived
    BY <2>1 DEF DispatchRequest
  <2> HIDE DEF r
  <2>4. \A x \in execution' : x.arrived = TRUE
    BY <1>9, <2>2 DEF DispatchCreate, WorkflowInv
  <2>5. CASE req' = [req EXCEPT ![p].todo = @ \ {v}]
    <3>1. req' = [req EXCEPT ![p] = r] /\ req'[p] = r
      BY <2>5 DEF WorkflowInv, r
    <3>2. KnowsVersions(p)' /\ r \in AuthoringRequest
      BY <2>2, <2>3, <3>1 DEF KnowsVersions, AuthoringRequest
    <3>3. ~disturbed => PublicationsApart'
      BY <2>1, <2>3, <3>1, ApartStays
    <3> QED
      BY <2>1, <2>4, <3>1, <3>2, <3>3, WorkflowRequests DEF WorkflowInv
  <2>6. CASE Done(p)
    <3>1. req' = [req EXCEPT ![p] = None]
      BY <2>6 DEF Done
    <3>2. ~disturbed => PublicationsApart'
      BY <2>1, <3>1, ApartStays
    <3> QED
      BY <2>1, <2>4, <3>1, <3>2, WorkflowRequests DEF WorkflowInv
  <2> QED
    BY <1>9, <2>5, <2>6 DEF DispatchCreate
<1>10. ASSUME NEW p \in Procs, WorkflowsAbandon(p)
       PROVE  WorkflowInv'
  <2>1. /\ req[p] # None /\ req' = [req EXCEPT ![p] = None]
        /\ disturbed' = (disturbed \/ (req[p].op = "publish" /\ req[p].at # "activate"))
        /\ UNCHANGED <<workflow, version, execution>>
    BY <1>10 DEF WorkflowsAbandon, Done
  <2>2. disturbed' \in BOOLEAN
    BY <2>1
  <2>3. ASSUME ~disturbed'
        PROVE  PublicationsApart'
    <3>1. ~disturbed /\ (Publishing(p) => req[p].at = "activate")
      BY <2>1, <2>3 DEF Publishing, Running
    <3> QED
      BY <2>1, <3>1, ApartStays
  <2> QED
    BY <2>1, <2>2, <2>3, WorkflowRequests DEF WorkflowInv
<1>11. CASE UNCHANGED <<req, clock, workflow, version, execution, disturbed>>
  <2>1. Created' = Created /\ ActiveVersions' = ActiveVersions /\ Pointed' = Pointed
    BY <1>11 DEF Created, ActiveVersions, Pointed
  <2>2. VersionsNumbered'
    BY <1>11, <2>1 DEF WorkflowInv, VersionsNumbered
  <2>3. PublicationsApart => PublicationsApart'
    BY <1>11, <2>1 DEF PublicationsApart, Publishing, Running
  <2>4. \A p \in Procs : req'[p] # None => KnowsVersions(p)'
    BY <1>11, <2>1 DEF WorkflowInv, KnowsVersions
  <2> QED
    BY <1>11, <2>1, <2>2, <2>3, <2>4 DEF WorkflowInv
<1> QED
  BY <1>1, <1>2, <1>3, <1>4, <1>5, <1>6, <1>7, <1>8, <1>9, <1>10, <1>11
     DEF WorkflowsNext, VersionNext, GraphNext, VisitNext, VisitReturn, OrphanCheck, PauseWorkflow,
     ArchiveWorkflow

LEMMA WorkflowImplies ==
  ASSUME WorkflowInv
  PROVE  OneActiveVersion /\ VersionsNumbered /\ PausedIgnoresEvents
BY DEF WorkflowInv, OneActiveVersion, PausedIgnoresEvents, PublicationsApart, Publishing,
   ActiveVersions, Pointed

\* Nothing changes.
LEMMA WorkflowStutters ==
  ASSUME WorkflowInv, UNCHANGED <<req, workflowVars>>
  PROVE  WorkflowInv'
<1>1. UNCHANGED <<req, workflow, version, execution, disturbed>>
  BY DEF workflowVars
<1>2. Created' = Created /\ ActiveVersions' = ActiveVersions /\ Pointed' = Pointed
  BY <1>1 DEF Created, ActiveVersions, Pointed
<1>3. VersionsNumbered'
  BY <1>1, <1>2 DEF WorkflowInv, VersionsNumbered
<1>4. \A p \in Procs : KnowsVersions(p) => KnowsVersions(p)'
  BY <1>1, <1>2 DEF KnowsVersions
<1>5. PublicationsApart => PublicationsApart'
  BY <1>1, <1>2 DEF PublicationsApart, Publishing, Running
<1> QED
  BY <1>1, <1>2, <1>3, <1>4, <1>5 DEF WorkflowInv

-----------------------------------------------------------------------------
(***************************************************************************)
(* The composition.                                                        *)
(***************************************************************************)

\* A component that the behaviour is not about stays as it began.
SystemInv ==
  /\ IF focus \in {"integration push", "integration pull"} THEN SyncInv ELSE IntegrationSyncInit
  /\ IF focus = "callbacks" THEN CallbackInv ELSE InboundCallbacksInit
  /\ IF focus = "integration lifecycle" THEN LifecycleInv ELSE IntegrationLifecycleInit
  /\ IF focus = "circuit breaker" THEN BreakerInv ELSE CircuitBreakerInit
  /\ IF focus \in {"credentials", "alerts"} THEN ControlInv ELSE RoadmapControlInit
  /\ IF focus = "import" THEN ImportInv ELSE ImportJobsInit
  /\ IF focus = "settings" THEN SettingsInv ELSE SystemSettingsInit
  /\ IF focus = "notifications" THEN NotifyInv ELSE NotificationDeliveryInit
  /\ IF focus = "retention" THEN RetentionInv ELSE RetentionInit
  /\ IF focus \in {"workflow versions", "workflow graph"} THEN WorkflowInv ELSE WorkflowsInit

LEMMA SystemInitial ==
  ASSUME MCInit
  PROVE  SystemInv
BY SyncInitial, CallbackInitial, LifecycleInitial, BreakerInitial,
   ControlInitial, ImportInitial, SettingsInitial, NotifyInitial,
   RetentionInitial, WorkflowInitial
   DEF MCInit, SystemInv

\* Which component takes a step.
LEMMA OneSystemSteps ==
  ASSUME MCNext
  PROVE  /\ UNCHANGED focus
         /\ IF focus \in {"integration push", "integration pull"} THEN IntegrationSyncNext ELSE UNCHANGED syncVars
         /\ IF focus = "callbacks" THEN InboundCallbacksNext ELSE UNCHANGED callbackVars
         /\ IF focus = "integration lifecycle" THEN IntegrationLifecycleNext ELSE UNCHANGED lifecycleVars
         /\ IF focus = "circuit breaker" THEN CircuitBreakerNext ELSE UNCHANGED circuitVars
         /\ IF focus \in {"credentials", "alerts"} THEN RoadmapControlNext ELSE UNCHANGED controlVars
         /\ IF focus = "import" THEN ImportJobsNext ELSE UNCHANGED importVars
         /\ IF focus = "settings" THEN SystemSettingsNext ELSE UNCHANGED settingVars
         /\ IF focus = "notifications" THEN NotificationDeliveryNext ELSE UNCHANGED deliveryVars
         /\ IF focus = "retention" THEN RetentionNext ELSE UNCHANGED retentionVars
         /\ IF focus \in {"workflow versions", "workflow graph"} THEN WorkflowsNext ELSE UNCHANGED workflowVars
<1>1. RoadmapControlNext => focus \in {"credentials", "alerts"}
  BY DEF RoadmapControlNext
<1>2. WorkflowsNext => focus \in {"workflow versions", "workflow graph"}
  BY DEF WorkflowsNext
<1>3. IF focus \in {"integration push", "integration pull"} THEN IntegrationSyncNext ELSE UNCHANGED syncVars
  BY <1>1, <1>2 DEF MCNext, exchangeVars, dataVars
<1>4. IF focus = "callbacks" THEN InboundCallbacksNext ELSE UNCHANGED callbackVars
  BY <1>1, <1>2 DEF MCNext, exchangeVars, dataVars
<1>5. IF focus = "integration lifecycle" THEN IntegrationLifecycleNext ELSE UNCHANGED lifecycleVars
  BY <1>1, <1>2 DEF MCNext, exchangeVars, dataVars
<1>6. IF focus = "circuit breaker" THEN CircuitBreakerNext ELSE UNCHANGED circuitVars
  BY <1>1, <1>2 DEF MCNext, exchangeVars, dataVars
<1>7. IF focus \in {"credentials", "alerts"} THEN RoadmapControlNext ELSE UNCHANGED controlVars
  BY <1>1, <1>2 DEF MCNext, exchangeVars, dataVars
<1>8. IF focus = "import" THEN ImportJobsNext ELSE UNCHANGED importVars
  BY <1>1, <1>2 DEF MCNext, exchangeVars, dataVars
<1>9. IF focus = "settings" THEN SystemSettingsNext ELSE UNCHANGED settingVars
  BY <1>1, <1>2 DEF MCNext, exchangeVars, dataVars
<1>10. IF focus = "notifications" THEN NotificationDeliveryNext ELSE UNCHANGED deliveryVars
  BY <1>1, <1>2 DEF MCNext, exchangeVars, dataVars
<1>11. IF focus = "retention" THEN RetentionNext ELSE UNCHANGED retentionVars
  BY <1>1, <1>2 DEF MCNext, exchangeVars, dataVars
<1>12. IF focus \in {"workflow versions", "workflow graph"} THEN WorkflowsNext ELSE UNCHANGED workflowVars
  BY <1>1, <1>2 DEF MCNext, exchangeVars, dataVars
<1>13. UNCHANGED focus
  BY DEF MCNext
<1> QED
  BY <1>3, <1>4, <1>5, <1>6, <1>7, <1>8, <1>9, <1>10, <1>11, <1>12, <1>13

LEMMA SystemKeeps ==
  ASSUME SystemInv, [MCNext]_vars
  PROVE  SystemInv'
<1>1. CASE MCNext
  <2>1. IF focus' \in {"integration push", "integration pull"} THEN SyncInv' ELSE IntegrationSyncInit'
    <3>1. CASE focus \in {"integration push", "integration pull"}
      BY <1>1, <3>1, OneSystemSteps, SyncKeeps DEF SystemInv
    <3>2. CASE focus \notin {"integration push", "integration pull"}
      BY <1>1, <3>2, OneSystemSteps DEF SystemInv, IntegrationSyncInit, syncVars
    <3> QED
      BY <1>1, <3>1, <3>2, OneSystemSteps
  <2>2. IF focus' = "callbacks" THEN CallbackInv' ELSE InboundCallbacksInit'
    <3>1. CASE focus = "callbacks"
      BY <1>1, <3>1, OneSystemSteps, CallbackKeeps DEF SystemInv
    <3>2. CASE focus # "callbacks"
      BY <1>1, <3>2, OneSystemSteps DEF SystemInv, InboundCallbacksInit, callbackVars
    <3> QED
      BY <1>1, <3>1, <3>2, OneSystemSteps
  <2>3. IF focus' = "integration lifecycle" THEN LifecycleInv' ELSE IntegrationLifecycleInit'
    <3>1. CASE focus = "integration lifecycle"
      BY <1>1, <3>1, OneSystemSteps, LifecycleKeeps DEF SystemInv
    <3>2. CASE focus # "integration lifecycle"
      BY <1>1, <3>2, OneSystemSteps DEF SystemInv, IntegrationLifecycleInit, lifecycleVars
    <3> QED
      BY <1>1, <3>1, <3>2, OneSystemSteps
  <2>4. IF focus' = "circuit breaker" THEN BreakerInv' ELSE CircuitBreakerInit'
    <3>1. CASE focus = "circuit breaker"
      BY <1>1, <3>1, OneSystemSteps, BreakerKeeps DEF SystemInv
    <3>2. CASE focus # "circuit breaker"
      BY <1>1, <3>2, OneSystemSteps DEF SystemInv, CircuitBreakerInit, circuitVars
    <3> QED
      BY <1>1, <3>1, <3>2, OneSystemSteps
  <2>5. IF focus' \in {"credentials", "alerts"} THEN ControlInv' ELSE RoadmapControlInit'
    <3>1. CASE focus \in {"credentials", "alerts"}
      BY <1>1, <3>1, OneSystemSteps, ControlKeeps DEF SystemInv
    <3>2. CASE focus \notin {"credentials", "alerts"}
      BY <1>1, <3>2, OneSystemSteps DEF SystemInv, RoadmapControlInit, controlVars
    <3> QED
      BY <1>1, <3>1, <3>2, OneSystemSteps
  <2>6. IF focus' = "import" THEN ImportInv' ELSE ImportJobsInit'
    <3>1. CASE focus = "import"
      BY <1>1, <3>1, OneSystemSteps, ImportKeeps DEF SystemInv
    <3>2. CASE focus # "import"
      BY <1>1, <3>2, OneSystemSteps DEF SystemInv, ImportJobsInit, importVars
    <3> QED
      BY <1>1, <3>1, <3>2, OneSystemSteps
  <2>7. IF focus' = "settings" THEN SettingsInv' ELSE SystemSettingsInit'
    <3>1. CASE focus = "settings"
      BY <1>1, <3>1, OneSystemSteps, SettingsKeeps DEF SystemInv
    <3>2. CASE focus # "settings"
      BY <1>1, <3>2, OneSystemSteps DEF SystemInv, SystemSettingsInit, settingVars
    <3> QED
      BY <1>1, <3>1, <3>2, OneSystemSteps
  <2>8. IF focus' = "notifications" THEN NotifyInv' ELSE NotificationDeliveryInit'
    <3>1. CASE focus = "notifications"
      BY <1>1, <3>1, OneSystemSteps, NotifyKeeps DEF SystemInv
    <3>2. CASE focus # "notifications"
      BY <1>1, <3>2, OneSystemSteps DEF SystemInv, NotificationDeliveryInit, deliveryVars
    <3> QED
      BY <1>1, <3>1, <3>2, OneSystemSteps
  <2>9. IF focus' = "retention" THEN RetentionInv' ELSE RetentionInit'
    <3>1. CASE focus = "retention"
      BY <1>1, <3>1, OneSystemSteps, RetentionKeeps DEF SystemInv
    <3>2. CASE focus # "retention"
      BY <1>1, <3>2, OneSystemSteps DEF SystemInv, RetentionInit, retentionVars
    <3> QED
      BY <1>1, <3>1, <3>2, OneSystemSteps
  <2>10. IF focus' \in {"workflow versions", "workflow graph"} THEN WorkflowInv' ELSE WorkflowsInit'
    <3>1. CASE focus \in {"workflow versions", "workflow graph"}
      BY <1>1, <3>1, OneSystemSteps, WorkflowKeeps DEF SystemInv
    <3>2. CASE focus \notin {"workflow versions", "workflow graph"}
      BY <1>1, <3>2, OneSystemSteps DEF SystemInv, WorkflowsInit, workflowVars
    <3> QED
      BY <1>1, <3>1, <3>2, OneSystemSteps
  <2> QED
    BY <2>1, <2>2, <2>3, <2>4, <2>5, <2>6, <2>7, <2>8, <2>9, <2>10 DEF SystemInv
<1>2. CASE UNCHANGED vars
  <2>1. UNCHANGED <<req, clock, focus, syncVars, callbackVars, lifecycleVars, circuitVars,
     controlVars, importVars, settingVars, deliveryVars, retentionVars, workflowVars>>
    BY <1>2 DEF vars, exchangeVars, dataVars
  <2>2. SyncInv => SyncInv'
    BY <2>1 DEF SyncInv, DueRetries, syncVars
  <2>3. IntegrationSyncInit => IntegrationSyncInit'
    BY <2>1 DEF IntegrationSyncInit, syncVars
  <2>4. CallbackInv => CallbackInv'
    BY <2>1 DEF CallbackInv, KnowsEvent, At, Accepted, Duplicates, AcceptedOnce,
       DuplicateWasProcessed, callbackVars
  <2>5. InboundCallbacksInit => InboundCallbacksInit'
    BY <2>1 DEF InboundCallbacksInit, callbackVars
  <2>6. LifecycleInv => LifecycleInv'
    BY <2>1 DEF LifecycleInv, HoldersApart, HoldsKey, ReconnectedOncePerKey, ConnectingIsHeld,
       Running, lifecycleVars
  <2>7. IntegrationLifecycleInit => IntegrationLifecycleInit'
    BY <2>1 DEF IntegrationLifecycleInit, lifecycleVars
  <2>8. BreakerInv => BreakerInv'
    BY <2>1 DEF BreakerInv, MemoryOK, OpenedByFailures, FlagsHeld, WorksUnderFlag, Running,
       circuitVars
  <2>9. CircuitBreakerInit => CircuitBreakerInit'
    BY <2>1 DEF CircuitBreakerInit, circuitVars
  <2>10. ControlInv => ControlInv'
    BY <2>1 DEF ControlInv, ControlKnows, Running, SignalsAreSeen, controlVars
  <2>11. RoadmapControlInit => RoadmapControlInit'
    BY <2>1 DEF RoadmapControlInit, controlVars
  <2>12. ImportInv => ImportInv'
    BY <2>1, ImportStutters
  <2>13. ImportJobsInit => ImportJobsInit'
    BY <2>1 DEF ImportJobsInit, importVars
  <2>14. SettingsInv => SettingsInv'
    BY <2>1 DEF SettingsInv, Invalidates, Running, At, settingVars
  <2>15. SystemSettingsInit => SystemSettingsInit'
    BY <2>1 DEF SystemSettingsInit, settingVars
  <2>16. NotifyInv => NotifyInv'
    BY <2>1, NotifyStutters
  <2>17. NotificationDeliveryInit => NotificationDeliveryInit'
    BY <2>1 DEF NotificationDeliveryInit, deliveryVars
  <2>18. RetentionInv => RetentionInv'
    BY <2>1 DEF RetentionInv, SweepKnows, Sweeping, Running, Loose, HeldIsKept, SweepIsComplete,
       retentionVars
  <2>19. RetentionInit => RetentionInit'
    BY <2>1 DEF RetentionInit, retentionVars
  <2>20. WorkflowInv => WorkflowInv'
    BY <2>1, WorkflowStutters
  <2>21. WorkflowsInit => WorkflowsInit'
    BY <2>1 DEF WorkflowsInit, workflowVars
  <2>22. focus' = focus
    BY <2>1
  <2>23. IF focus' \in {"integration push", "integration pull"} THEN SyncInv' ELSE IntegrationSyncInit'
    BY <2>2, <2>3, <2>22 DEF SystemInv
  <2>24. IF focus' = "callbacks" THEN CallbackInv' ELSE InboundCallbacksInit'
    BY <2>4, <2>5, <2>22 DEF SystemInv
  <2>25. IF focus' = "integration lifecycle" THEN LifecycleInv' ELSE IntegrationLifecycleInit'
    BY <2>6, <2>7, <2>22 DEF SystemInv
  <2>26. IF focus' = "circuit breaker" THEN BreakerInv' ELSE CircuitBreakerInit'
    BY <2>8, <2>9, <2>22 DEF SystemInv
  <2>27. IF focus' \in {"credentials", "alerts"} THEN ControlInv' ELSE RoadmapControlInit'
    BY <2>10, <2>11, <2>22 DEF SystemInv
  <2>28. IF focus' = "import" THEN ImportInv' ELSE ImportJobsInit'
    BY <2>12, <2>13, <2>22 DEF SystemInv
  <2>29. IF focus' = "settings" THEN SettingsInv' ELSE SystemSettingsInit'
    BY <2>14, <2>15, <2>22 DEF SystemInv
  <2>30. IF focus' = "notifications" THEN NotifyInv' ELSE NotificationDeliveryInit'
    BY <2>16, <2>17, <2>22 DEF SystemInv
  <2>31. IF focus' = "retention" THEN RetentionInv' ELSE RetentionInit'
    BY <2>18, <2>19, <2>22 DEF SystemInv
  <2>32. IF focus' \in {"workflow versions", "workflow graph"} THEN WorkflowInv' ELSE WorkflowsInit'
    BY <2>20, <2>21, <2>22 DEF SystemInv
  <2> QED
    BY <2>23, <2>24, <2>25, <2>26, <2>27, <2>28, <2>29, <2>30, <2>31, <2>32 DEF SystemInv
<1> QED
  BY <1>1, <1>2

\* The invariants of the run follow.
LEMMA SystemInvImplies ==
  ASSUME SystemInv
  PROVE  IntegrationInvariant
<1>1. RetryClaimedOnce /\ NoPageSkipped /\ SucceededWasDone
  <2>1. CASE SyncInv
    BY <2>1, SyncInvImplies
  <2>2. CASE IntegrationSyncInit
    BY <2>2, OperationsFinite DEF IntegrationSyncInit, RetryClaimedOnce, NoPageSkipped, SucceededWasDone
  <2> QED
    BY <2>1, <2>2 DEF SystemInv
<1>2. DuplicateWasProcessed /\ AcceptedOnce
  <2>1. CASE CallbackInv
    BY <2>1 DEF CallbackInv
  <2>2. CASE InboundCallbacksInit
    BY <2>2, CallbackAssumption DEF InboundCallbacksInit, DuplicateWasProcessed, AcceptedOnce,
       Accepted, Duplicates
  <2> QED
    BY <2>1, <2>2 DEF SystemInv
<1>3. ReconnectedOncePerKey /\ ConnectingIsHeld
  <2>1. CASE LifecycleInv
    BY <2>1 DEF LifecycleInv
  <2>2. CASE IntegrationLifecycleInit
    BY <2>2, LifecycleAssumption DEF IntegrationLifecycleInit, ReconnectedOncePerKey, ConnectingIsHeld
  <2> QED
    BY <2>1, <2>2 DEF SystemInv
<1>4. OpenedByFailures /\ ProbeFlagIsHeld
  <2>1. CASE BreakerInv
    BY <2>1, FlagsHeldImplies DEF BreakerInv
  <2>2. CASE CircuitBreakerInit
    BY <2>2 DEF CircuitBreakerInit, OpenedByFailures, ProbeFlagIsHeld
  <2> QED
    BY <2>1, <2>2 DEF SystemInv
<1>5. CredentialHistory
  <2>1. CASE ControlInv
    BY <2>1, HistoryImplies DEF ControlInv
  <2>2. CASE RoadmapControlInit
    <3>1. History(credential, 0)
      BY <2>2 DEF RoadmapControlInit, History
    <3> QED
      BY <3>1, HistoryImplies
  <2> QED
    BY <2>1, <2>2 DEF SystemInv
<1> QED
  BY <1>1, <1>2, <1>3, <1>4, <1>5 DEF IntegrationInvariant

\* However pushes, pulls, retries, deliveries, reconnects and calls overlap and stop
\* halfway: a scheduled retry is claimed once, no page is passed over, a success was the
\* provider's answer, an event is accepted once and a duplicate only when it was
\* processed, a provider is reconnected once per key, the circuit opens on failures
\* alone, neither a probe flag nor CONNECTING is left without a holder, and credentials
\* have a history without gaps (system-integration-sync.service.ts,
\* system-integration.service.ts).
THEOREM ExchangeIsSafe == MCSpec => []IntegrationInvariant
<1>1. MCInit => SystemInv
  BY SystemInitial
<1>2. SystemInv /\ [MCNext]_vars => SystemInv'
  BY SystemKeeps
<1>3. SystemInv => IntegrationInvariant
  BY SystemInvImplies
<1> QED
  BY <1>1, <1>2, <1>3, PTL DEF MCSpec

\* The invariants of the tables follow.
LEMMA TableInvImplies ==
  ASSUME SystemInv
  PROVE  SystemDataInvariant
<1>1. AllOrNothing /\ ReportMatchesStore
  <2>1. CASE ImportInv
    BY <2>1 DEF ImportInv
  <2>2. CASE ImportJobsInit
    BY <2>2 DEF ImportJobsInit, AllOrNothing, ReportMatchesStore, StoredOf
  <2> QED
    BY <2>1, <2>2 DEF SystemInv
<1>2. VersionReplacedOnce /\ StaleOnlyWhenOvertaken
  <2>1. CASE SettingsInv
    BY <2>1, SettingsImplies
  <2>2. CASE SystemSettingsInit
    BY <2>2 DEF SystemSettingsInit, VersionReplacedOnce, StaleOnlyWhenOvertaken
  <2> QED
    BY <2>1, <2>2 DEF SystemInv
<1>3. SentOncePerScheduler /\ DeliveryAttemptsBounded /\ SendingIsHeld
  <2>1. CASE NotifyInv
    BY <2>1, NotifyImplies
  <2>2. CASE NotificationDeliveryInit
    <3>1. Cardinality(Procs) \in Nat
      BY ProcsAssumption, FS_CardinalityType
    <3> QED
      BY <2>2, <3>1 DEF NotificationDeliveryInit, SentOncePerScheduler, DeliveryAttemptsBounded,
         SendingIsHeld
  <2> QED
    BY <2>1, <2>2 DEF SystemInv
<1>4. HeldIsKept /\ SweepIsComplete
  <2>1. CASE RetentionInv
    BY <2>1 DEF RetentionInv
  <2>2. CASE RetentionInit
    BY <2>2 DEF RetentionInit, HeldIsKept, SweepIsComplete
  <2> QED
    BY <2>1, <2>2 DEF SystemInv
<1>5. SignalsAreSeen
  <2>1. CASE ControlInv
    BY <2>1 DEF ControlInv
  <2>2. CASE RoadmapControlInit
    BY <2>2 DEF RoadmapControlInit, SignalsAreSeen
  <2> QED
    BY <2>1, <2>2 DEF SystemInv
<1>6. OneActiveVersion /\ VersionsNumbered /\ PausedIgnoresEvents
  <2>1. CASE WorkflowInv
    BY <2>1, WorkflowImplies
  <2>2. CASE WorkflowsInit
    <3>1. Created = {} /\ execution = {} /\ workflow.active = None
      BY <2>2 DEF WorkflowsInit, Created
    <3>2. Cardinality(Created) = 0
      BY <3>1, FS_EmptySet
    <3>3. VersionsNumbered
      BY <3>1, <3>2 DEF VersionsNumbered
    <3>4. \A v \in Versions : version[v] = None
      BY <2>2 DEF WorkflowsInit
    <3> QED
      BY <3>1, <3>3, <3>4 DEF OneActiveVersion, PausedIgnoresEvents
  <2> QED
    BY <2>1, <2>2 DEF SystemInv
<1> QED
  BY <1>1, <1>2, <1>3, <1>4, <1>5, <1>6 DEF SystemDataInvariant

\* However requests, schedulers and workers overlap and stop halfway: an import stores
\* all or nothing where it promises to and reports what it stored, a version of a
\* setting is replaced once and read stale only by whom an update overtook, a
\* notification is sent at most once by each scheduler and held while it is sent, what
\* is on hold is kept and what is old is removed, no alert is closed by who has not
\* seen it, and of the versions of a workflow, numbered without gaps, one is active
\* (system-import.service.ts, system-setting.service.ts, the notification scheduler,
\* system-retention.service.ts, the workflow repository).
THEOREM TablesAreSafe == MCSpec => []SystemDataInvariant
<1>1. MCInit => SystemInv
  BY SystemInitial
<1>2. SystemInv /\ [MCNext]_vars => SystemInv'
  BY SystemKeeps
<1>3. SystemInv => SystemDataInvariant
  BY TableInvImplies
<1> QED
  BY <1>1, <1>2, <1>3, PTL DEF MCSpec
=============================================================================
