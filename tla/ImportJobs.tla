----------------------------- MODULE ImportJobs -----------------------------
(***************************************************************************)
(* SystemImportService: a file is imported within the request, row by row, *)
(* in batches or in one transaction, under an idempotency key.  The uuid   *)
(* of an imported row is computed from the key, its number and its text,   *)
(* so that a row is a pair of a key and a number here.  A retry runs the   *)
(* stored source again, under a key of its own.  Rows of the file differ   *)
(* in whether they are valid.  A request may be cancelled by another one,  *)
(* and its process may stop, between any two statements.                   *)
(***************************************************************************)
EXTENDS Requests

CONSTANTS
  FileRows,      \* number of rows of the file
  ImportKeys,    \* idempotency keys: 0, and n + 1 for the retry of n
  BatchSize

\* A row of system_import_jobs.
JobRow == [state : {"QUEUED", "RUNNING", "SUCCEEDED", "FAILED", "CANCELLED"}, source : BOOLEAN]

ASSUME ImportJobsAssumption ==
  /\ FileRows \in Nat /\ BatchSize \in Nat \ {0} /\ ImportKeys \subseteq Nat
  /\ None \notin JobRow

VARIABLES
  file,      \* the request: valid rows, transaction and conflict strategy, preview
  job,       \* system_import_jobs by key: state and whether it has its source; or None
  stored,    \* uuids in system_activities
  reported   \* results that execute has returned: key, state, processed

importVars == <<file, job, stored, reported>>

Rows == 1..FileRows
Files == [valid : {Rows, Rows \ {1}}, transaction : {"ROW", "BATCH", "ALL_OR_NOTHING"},
          conflict : {"FAIL", "SKIP", "UPSERT"}, preview : BOOLEAN]

ImportJobsInit ==
  /\ file \in IF focus = "import" THEN Files ELSE {CHOOSE f \in Files : TRUE}
  /\ job = [k \in ImportKeys |-> None]
  /\ stored = {} /\ reported = {}

Uuid(k, r) == <<k, r>>
\* UPDATE writes as UPSERT does.
Upserts == file.conflict = "UPSERT"

-----------------------------------------------------------------------------
\* execute, findByIdempotencyKey; retry enters here with the key of the job.
ImportRead(p, k) ==
  /\ k = 0 \/ (k - 1 \in ImportKeys /\ job[k - 1] # None
               /\ job[k - 1].state = "FAILED" /\ job[k - 1].source)
  /\ job[k] = None
  /\ Start(p, [op |-> "import", at |-> "create", key |-> k, row |-> 1, writes |-> {}, known |-> {},
               errors |-> 0, processed |-> 0])
  /\ UNCHANGED <<importVars, clock>>

\* Mutant: the idempotency key is not unique.
KeyFreeAlways(k) == TRUE

\* Unique (actorUuid, idempotencyKey).
KeyFree(k) == job[k] = None

CreateJob(p) ==
  /\ Running(p, "import") /\ At(p, "create")
  /\ IF KeyFree(req[p].key)
     THEN /\ job' = [job EXCEPT ![req[p].key] = [state |-> "QUEUED", source |-> FALSE]]
          /\ Goto(p, "store")
     ELSE UNCHANGED job /\ Done(p)
  /\ UNCHANGED <<file, stored, reported, clock>>

\* storage.put, then RUNNING whatever the state is.
StoreSource(p) ==
  /\ Running(p, "import") /\ At(p, "store")
  /\ job' = [job EXCEPT ![req[p].key] = [state |-> "RUNNING", source |-> TRUE]]
  /\ Goto(p, "prepare")
  /\ UNCHANGED <<file, stored, reported, clock>>

\* The loop over the prepared rows: activity.get of one of them.
PrepareRow(p) ==
  LET r == req[p].row
      exists == Uuid(req[p].key, r) \in stored
      failed == r \notin file.valid \/ (exists /\ file.conflict = "FAIL")
      skipped == exists /\ file.conflict = "SKIP"
  IN  /\ Running(p, "import") /\ At(p, "prepare") /\ r \in Rows
      /\ req' = [req EXCEPT ![p].row = r + 1,
                   ![p].errors = IF failed THEN @ + 1 ELSE @,
                   ![p].writes = IF failed \/ skipped THEN @ ELSE @ \cup {r},
                   ![p].known = IF exists THEN @ \cup {r} ELSE @]
      /\ UNCHANGED <<importVars, clock>>

\* Mutant: rows that failed to prepare do not refuse the file.
RefusesAllNever(p) == FALSE

\* ALL_OR_NOTHING with an error: finish at once.
RefusesAll(p) == file.transaction = "ALL_OR_NOTHING" /\ req[p].errors > 0

PreparedAll(p) ==
  /\ Running(p, "import") /\ At(p, "prepare") /\ req[p].row \notin Rows
  /\ Goto(p, IF RefusesAll(p) THEN "finish" ELSE "write")
  /\ UNCHANGED <<importVars, clock>>

\* The rows of the next statement or transaction: one, a batch or all.
First(S) == CHOOSE r \in S : \A s \in S : r <= s
NextWrite(p) ==
  LET w == req[p].writes
  IN  CASE file.transaction = "ROW"   -> {First(w)}
        [] file.transaction = "BATCH" ->
             {r \in w : Cardinality({s \in w : s < r}) < BatchSize}
        [] OTHER -> w

\* append fails on a uuid that is there; upsert does not.
Persists(p, W) ==
  \/ Upserts \/ W \cap req[p].known # {}
  \/ {Uuid(req[p].key, r) : r \in W} \cap stored = {}

\* The write, or an error of the database that takes back the transaction.
WriteRows(p) ==
  /\ Running(p, "import") /\ At(p, "write") /\ req[p].writes # {} /\ ~file.preview
  /\ LET W == NextWrite(p)
         n == Cardinality(W)
     IN  \/ /\ Persists(p, W)
            /\ stored' = stored \cup {Uuid(req[p].key, r) : r \in W}
            /\ req' = [req EXCEPT ![p].writes = @ \ W, ![p].processed = @ + n]
         \/ /\ UNCHANGED stored
            /\ req' = IF file.transaction = "ALL_OR_NOTHING"
                      THEN [req EXCEPT ![p].writes = {}, ![p].errors = 1]
                      ELSE [req EXCEPT ![p].writes = @ \ W, ![p].errors = @ + n]
  /\ UNCHANGED <<file, job, reported, clock>>

\* Mutant: an import of which some rows fail ends in a state that
\* ImportState does not have.
FinalStatePartial(p) ==
  IF req[p].errors = 0 THEN "SUCCEEDED" ELSE IF req[p].processed > 0 THEN "PARTIAL" ELSE "FAILED"

FinalState(p) == IF req[p].errors > 0 THEN "FAILED" ELSE "SUCCEEDED"

CountPreview(p) ==
  /\ Running(p, "import") /\ At(p, "write") /\ req[p].writes # {} /\ file.preview
  /\ req' = [req EXCEPT ![p].writes = {}, ![p].processed = Cardinality(req[p].writes)]
  /\ UNCHANGED <<importVars, clock>>

\* finish, whatever the state is by now.
Finish(p) ==
  /\ Running(p, "import")
  /\ At(p, "finish") \/ (At(p, "write") /\ req[p].writes = {})
  /\ job' = [job EXCEPT ![req[p].key].state = FinalState(p)]
  /\ reported' = reported \cup
       {[key |-> req[p].key, state |-> FinalState(p), processed |-> req[p].processed]}
  /\ Done(p)
  /\ UNCHANGED <<file, stored, clock>>

\* The catch of execute: the source cannot be stored, the file does not parse
\* or has too many rows.
FailImport(p) ==
  /\ Running(p, "import") /\ (At(p, "store") \/ At(p, "prepare"))
  /\ job' = [job EXCEPT ![req[p].key].state = "FAILED"]
  /\ Done(p)
  /\ UNCHANGED <<file, stored, reported, clock>>

CancelRead(p, k) ==
  /\ job[k] # None /\ job[k].state \in {"QUEUED", "RUNNING"}
  /\ Start(p, [op |-> "cancel", at |-> "write", key |-> k])
  /\ UNCHANGED <<importVars, clock>>

CancelWrite(p) ==
  /\ Running(p, "cancel")
  /\ job' = [job EXCEPT ![req[p].key].state = "CANCELLED"]
  /\ Done(p)
  /\ UNCHANGED <<file, stored, reported, clock>>

ImportAbandon(p) == req[p] # None /\ Done(p) /\ UNCHANGED <<importVars, clock>>

ImportJobsNext ==
  \E p \in Procs :
    \/ \E k \in ImportKeys : ImportRead(p, k) \/ CancelRead(p, k)
    \/ CreateJob(p) \/ StoreSource(p) \/ PrepareRow(p) \/ PreparedAll(p) \/ WriteRows(p)
    \/ CountPreview(p)
    \/ Finish(p) \/ FailImport(p) \/ CancelWrite(p) \/ ImportAbandon(p)

-----------------------------------------------------------------------------
(* Properties.                                                             *)

\* The rows have the types of the schema.
ImportJobsTypeOK ==
  /\ file \in Files
  /\ job \in [ImportKeys -> JobRow \cup {None}]
  /\ stored \subseteq ImportKeys \X Rows

StoredOf(k) == {r \in Rows : Uuid(k, r) \in stored}

\* ALL_OR_NOTHING: whatever is cancelled, repeated or stops half-way, an import
\* stores every row of the file or none (execute and appendBatch).
AllOrNothing ==
  file.transaction = "ALL_OR_NOTHING" => \A k \in ImportKeys : StoredOf(k) \in {{}, Rows}

\* Two requests with the same key import the file once: the rows that a result
\* counts as processed are the rows that are stored, and an import that reports
\* SUCCEEDED has stored all of them.  A preview stores none.
ReportMatchesStore ==
  IF file.preview THEN stored = {}
  ELSE \A x \in reported :
         /\ x.processed = Cardinality(StoredOf(x.key))
         /\ x.state = "SUCCEEDED" => StoredOf(x.key) = Rows
=============================================================================
