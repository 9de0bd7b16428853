----------------------------- MODULE Retention ------------------------------
(***************************************************************************)
(* SystemRetentionService: the scheduler of every instance removes the old *)
(* rows of system_activities and audit_logs, batch by batch, while         *)
(* operators put rows on hold.  The rows of a batch are found in one       *)
(* statement and removed in another.  A process may stop anywhere.         *)
(***************************************************************************)
EXTENDS Requests, FiniteSetsExt

CONSTANTS
  ActivityRows,      \* ids of the old rows of system_activities
  AuditRows,         \* ids of the old rows of audit_logs
  RetentionBatch     \* batchSize

\* A row, as far as its hold goes.
RetainedRow == [hold : BOOLEAN, until : {None} \cup Nat, late : BOOLEAN]

ASSUME RetentionAssumption ==
  /\ RetentionBatch \in Nat \ {0}
  /\ ActivityRows \subseteq Nat /\ AuditRows \subseteq Nat /\ ActivityRows \cap AuditRows = {}
  /\ IsFiniteSet(ActivityRows) /\ IsFiniteSet(AuditRows)
  /\ None \notin RetainedRow

RetainedRows == ActivityRows \cup AuditRows

VARIABLES
  retained,     \* the rows: None once removed
  removedHeld,  \* rows that were removed although the hold came before the look
  leftBehind    \* rows that a run left, though no other run was going on beside it

retentionVars == <<retained, removedHeld, leftBehind>>

\* late: a process had found the row before it was put on hold.
NoHold == [hold |-> FALSE, until |-> None, late |-> FALSE]

RetentionInit ==
  /\ retained = [r \in RetainedRows |-> NoHold]
  /\ removedHeld = {} /\ leftBehind = {}

Sweeping(p) == Running(p, "retention")

\* Mutant: a hold is not looked at.
PurgeableHeld(r) == retained[r] # None

\* The rows that purgeActivity and purgeAudit look for.
Purgeable(r) ==
  /\ retained[r] # None /\ ~retained[r].hold
  /\ retained[r].until = None \/ retained[r].until <= clock

\* The batch: the first rows by their id.
BatchOf(table) ==
  LET due == {r \in table : Purgeable(r)}
  IN  {r \in due : Cardinality({s \in due : s < r}) < RetentionBatch}

\* SystemRetentionScheduler.tick: one run at a time in every instance.  What the run
\* has to remove (due) is followed as long as no other run crosses it.
StartSweep(p) ==
  /\ req[p] = None
  /\ LET run == [op |-> "retention", at |-> "find", table |-> ActivityRows, batch |-> {},
                 due |-> IF \E q \in Procs : Sweeping(q) THEN {} ELSE {r \in RetainedRows : Purgeable(r)}]
     IN  req' = [q \in Procs |-> IF q = p THEN run
                                ELSE IF Sweeping(q) THEN [req[q] EXCEPT !.due = {}] ELSE req[q]]
  /\ UNCHANGED <<retentionVars, clock>>

FindBatch(p) ==
  /\ Sweeping(p) /\ At(p, "find")
  /\ req' = [req EXCEPT ![p].at = "remove", ![p].batch = BatchOf(req[p].table)]
  /\ UNCHANGED <<retentionVars, clock>>

\* Mutant: the run ends with the first batch.
LastBatchAlways(deleted) == TRUE

LastBatch(deleted) == deleted < RetentionBatch

\* deleteMany of the batch, by id alone; the audit rows with their changes in one
\* transaction.  A batch that is not full ends the loop of its table.
RemoveBatch(p) ==
  LET r == req[p]
      gone == {x \in r.batch : retained[x] # None}
  IN  /\ Sweeping(p) /\ At(p, "remove")
      /\ retained' = [x \in RetainedRows |-> IF x \in gone THEN None ELSE retained[x]]
      /\ removedHeld' = removedHeld \cup {x \in gone : retained[x].hold /\ ~retained[x].late}
      /\ \/ /\ ~LastBatch(Cardinality(gone))
            /\ req' = [req EXCEPT ![p].at = "find"]
            /\ UNCHANGED leftBehind
         \/ /\ LastBatch(Cardinality(gone)) /\ r.table = ActivityRows
            /\ req' = [req EXCEPT ![p].at = "find", ![p].table = AuditRows]
            /\ UNCHANGED leftBehind
         \/ /\ LastBatch(Cardinality(gone)) /\ r.table = AuditRows
            /\ Done(p)
            /\ leftBehind' = {x \in r.due \ r.batch : Purgeable(x)}
      /\ UNCHANGED clock

\* A process stops, or a statement fails: the run is over.
SweepStops(p) ==
  /\ Sweeping(p) /\ Done(p)
  /\ UNCHANGED <<retentionVars, clock>>

\* setActivityHold, setAuditHold: the expiry of a hold is in the future.
SetHold(r) ==
  /\ retained[r] # None /\ ~retained[r].hold
  /\ retained' = [retained EXCEPT ![r] = 
       [hold |-> TRUE, until |-> clock + 1,
        late |-> \E q \in Procs : Sweeping(q) /\ r \in req[q].batch]]
  /\ UNCHANGED <<req, clock, removedHeld, leftBehind>>

ReleaseHold(r) ==
  /\ retained[r] # None /\ retained[r].hold
  /\ retained' = [retained EXCEPT ![r] = NoHold]
  /\ req' = [q \in Procs |-> IF Sweeping(q) THEN [req[q] EXCEPT !.due = @ \ {r}] ELSE req[q]]
  /\ UNCHANGED <<clock, removedHeld, leftBehind>>

RetentionNext ==
  \/ \E p \in Procs : StartSweep(p) \/ FindBatch(p) \/ RemoveBatch(p) \/ SweepStops(p)
  \/ \E r \in RetainedRows : SetHold(r) \/ ReleaseHold(r)
  \/ Tick /\ UNCHANGED retentionVars

-----------------------------------------------------------------------------
RetentionTypeOK ==
  /\ retained \in [RetainedRows -> RetainedRow \cup {None}]
  /\ removedHeld \cup leftBehind \subseteq RetainedRows

\* A row on hold is removed only if a process had found it before it was put on hold
\* (purgeActivity, purgeAudit); a hold that came first keeps the row, even when it
\* has expired.
HeldIsKept == removedHeld = {}

\* A run that no other run crosses removes every row that was due when it began and
\* stayed so (SystemRetentionService.run).
SweepIsComplete == leftBehind = {}
=============================================================================
