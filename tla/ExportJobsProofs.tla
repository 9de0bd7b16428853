-------------------------- MODULE ExportJobsProofs --------------------------
(***************************************************************************)
(* Proofs about ExportJobs for any number of jobs, scheduler processes and *)
(* callers, any limits, and any number of crashes.                         *)
(***************************************************************************)
EXTENDS ExportJobs, TLAPS

-----------------------------------------------------------------------------
(* The inductive invariant.                                                *)

\* Whoever is past its first step has a job.
HasJob ==
  /\ \A w \in Workers : pc[w] \in {"claim"} \cup WorkPCs => job[w].j \in Jobs
  /\ \A c \in Callers : cpc[c] # "idle" => req[c].j \in Jobs

\* A worker that may still emit a row has not emitted the last one.
RowsLeft ==
  \A w \in Workers : pc[w] \notin {"store", "record"} => job[w].emitted < MaxRows

\* Nobody knows a uuid that was not drawn, and only its creator one that was
\* drawn and not inserted.
NotYetInserted(j) == state[j] = "ABSENT" /\ \A w \in Workers : job[w].j # j

Unborn ==
  /\ \A j \in fresh : NotYetInserted(j) /\ \A c \in Callers : req[c].j # j
  /\ \A c \in Callers : cpc[c] = "create" =>
       /\ req[c].j \notin fresh
       /\ NotYetInserted(req[c].j)
       /\ \A d \in Callers \ {c} : req[d].j # req[c].j

\* A job that is worked on can be cancelled, or deleted, and nothing else.
WorkInv ==
  \A w \in Workers : pc[w] \in WorkPCs /\ job[w].j \notin raced =>
    state[job[w].j] \in {"RUNNING", "CANCELLED", "ABSENT"}

\* A job that is about to be queued again has no worker and no second retry.
RetryInv ==
  \A c \in Callers : cpc[c] \in RetryPCs /\ req[c].j \notin raced =>
    /\ state[req[c].j] \in {"FAILED", "CANCELLED", "ABSENT"}
    /\ \A w \in Workers : ~Works(w, req[c].j)
    /\ \A d \in Callers \ {c} : ~Asking(d, req[c].j, RetryPCs)

\* What a worker has stored is complete when it records its success.
StoredInv ==
  \A w \in Workers :
    /\ pc[w] = "record"
    /\ job[w].outcome = "SUCCEEDED"
    /\ job[w].j \notin raced \cup expired
    => file[job[w].j] = "complete"

\* The cleanup removes what has expired.
CleanInv == \A w \in Workers : job[w].listed \subseteq expired /\ job[w].files \subseteq expired

IInv ==
  /\ TypeOK /\ HasJob /\ RowsLeft /\ Unborn /\ WorkInv /\ RetryInv /\ StoredInv
  /\ CleanInv /\ OneWriter /\ DownloadComplete /\ RunningIsHeld

-----------------------------------------------------------------------------
(* What a worker may do without changing a row.                            *)

LEMMA Records ==
  /\ NoJob \in Job /\ NoJob.j = None /\ NoJob.listed = {} /\ NoJob.files = {}
  /\ NoJob.emitted < MaxRows
  /\ NoReq \in Req /\ NoReq.j = None
  /\ \A j \in Jobs : j # None
  BY ConstAssumption DEF NoJob, NoReq, Job, Req, Terminal, RowStates

\* A worker goes on with its job r.j: it may touch that job's file and no
\* other, and it leaves a complete file if it is about to record its success.
LEMMA WorkKeeps ==
  ASSUME IInv, NEW w \in Workers, NEW l \in WorkPCs, NEW r \in Job,
         pc[w] \in WorkPCs,
         pc' = [pc EXCEPT ![w] = l], job' = [job EXCEPT ![w] = r],
         r.j = job[w].j, r.listed = job[w].listed, r.files = job[w].files,
         l \notin {"store", "record"} => r.emitted < MaxRows,
         file' \in [Jobs -> {"none", "partial", "complete"}],
         \A i \in Jobs : i # r.j => file'[i] = file[i],
         l = "record" /\ r.outcome = "SUCCEEDED" /\ r.j \notin raced \cup expired
           => file'[r.j] = "complete",
         crashes' \in Nat,
         UNCHANGED <<row, world, raced, orphans, requests, cllr>>
  PROVE  IInv'
  <1> USE DEF IInv, row, world, cllr
  <1>1. job[w] \in Job /\ r.j \in Jobs
    BY DEF TypeOK, HasJob
  <1>2. TypeOK'
    BY DEF TypeOK
  <1>3. HasJob' /\ RowsLeft' /\ CleanInv'
    BY <1>1 DEF TypeOK, HasJob, RowsLeft, CleanInv
  <1>4. \A v \in Workers : job'[v].j = job[v].j /\ (pc'[v] \in WorkPCs <=> pc[v] \in WorkPCs)
    BY DEF TypeOK
  <1>5. \A v \in Workers, i \in Jobs : Works(v, i)' <=> Works(v, i)
    BY <1>4 DEF Works
  <1>6. Unborn'
    BY <1>4 DEF Unborn, NotYetInserted
  <1>7. WorkInv' /\ RetryInv' /\ OneWriter' /\ RunningIsHeld'
    BY <1>1, <1>4, <1>5 DEF WorkInv, RetryInv, OneWriter, RunningIsHeld, Held, Asking, HasJob, RetryPCs
  <1>8. StoredInv'
    <2> SUFFICES ASSUME NEW v \in Workers, pc'[v] = "record", job'[v].outcome = "SUCCEEDED",
                        job'[v].j \notin raced \cup expired
                 PROVE  file'[job'[v].j] = "complete"
      BY DEF StoredInv
    <2>1. CASE v = w
      BY <2>1 DEF TypeOK
    <2>2. CASE v # w
      <3>1. job'[v] = job[v] /\ pc[v] = "record" /\ job[v].j \in Jobs
        BY <2>2 DEF TypeOK, HasJob, WorkPCs
      <3>2. job[v].j # r.j
        BY <2>2, <3>1, <1>1 DEF OneWriter, Works, WorkPCs
      <3> QED
        BY <3>1, <3>2 DEF StoredInv
    <2> QED
      BY <2>1, <2>2
  <1>9. DownloadComplete'
    BY <1>1 DEF DownloadComplete, WorkInv
  <1> QED
    BY <1>2, <1>3, <1>6, <1>7, <1>8, <1>9

\* A worker has no job any more, and its row, if it had one, is not RUNNING.
LEMMA RestKeeps ==
  ASSUME IInv, NEW w \in Workers, NEW l \in {"idle", "find", "cleanup", "remove"}, NEW r \in Job,
         pc' = [pc EXCEPT ![w] = l], job' = [job EXCEPT ![w] = r],
         r.j = None, r.listed \subseteq expired, r.files \subseteq expired, r.emitted < MaxRows,
         pc[w] \in WorkPCs => state[job[w].j] # "RUNNING" \/ job[w].j \in orphans',
         crashes' \in Nat, orphans \subseteq orphans', orphans' \subseteq Jobs,
         UNCHANGED <<row, world, file, raced, requests, cllr>>
  PROVE  IInv'
  <1> USE DEF IInv, row, world, cllr
  <1>1. TypeOK'
    BY DEF TypeOK
  <1>2. /\ \A v \in Workers \ {w} : job'[v] = job[v] /\ pc'[v] = pc[v]
        /\ job'[w] = r /\ pc'[w] = l /\ l \notin {"claim"} \cup WorkPCs
    BY DEF TypeOK, WorkPCs
  <1>3. HasJob' /\ RowsLeft' /\ CleanInv'
    BY <1>2 DEF HasJob, RowsLeft, CleanInv
  <1>4. Unborn'
    BY <1>2, Records DEF Unborn, NotYetInserted, TypeOK, HasJob
  <1>5. \A v \in Workers, i \in Jobs : Works(v, i)' <=> v # w /\ Works(v, i)
    BY <1>2 DEF Works
  <1>6. WorkInv' /\ RetryInv' /\ OneWriter'
    BY <1>2, <1>5 DEF WorkInv, RetryInv, OneWriter, Asking, HasJob, RetryPCs
  <1>7. StoredInv' /\ DownloadComplete'
    BY <1>2 DEF StoredInv, DownloadComplete, WorkPCs
  <1>8. RunningIsHeld'
    <2> SUFFICES ASSUME NEW j \in Jobs \ orphans', state[j] = "RUNNING" PROVE Held(j)'
      BY DEF RunningIsHeld
    <2>1. PICK v \in Workers : Works(v, j)
      BY DEF RunningIsHeld, Held
    <2>2. v # w
      BY <2>1 DEF Works
    <2> QED
      BY <2>1, <2>2, <1>5 DEF Held
  <1> QED
    BY <1>1, <1>3, <1>4, <1>6, <1>7, <1>8

\* A caller's request ends, or a retry goes on, and nothing else changes.
LEMMA CallKeeps ==
  ASSUME IInv, NEW c \in Callers, NEW l \in {"idle"} \cup RetryPCs, NEW r \in Req,
         cpc' = [cpc EXCEPT ![c] = l], req' = [req EXCEPT ![c] = r],
         l = "idle" => r.j = None,
         l # "idle" => cpc[c] \in RetryPCs /\ r.j = req[c].j,
         crashes' \in Nat,
         UNCHANGED <<row, world, file, raced, orphans, requests, wkr>>
  PROVE  IInv'
  <1> USE DEF IInv, row, world, wkr
  <1>1. TypeOK'
    BY DEF TypeOK
  <1>2. /\ \A d \in Callers \ {c} : req'[d] = req[d] /\ cpc'[d] = cpc[d]
        /\ req'[c] = r /\ cpc'[c] = l /\ l # "create"
    BY DEF TypeOK, RetryPCs
  <1>3. HasJob' /\ RowsLeft' /\ CleanInv'
    BY <1>2 DEF HasJob, RowsLeft, CleanInv, RetryPCs
  <1>4. \A d \in Callers : req'[d].j = req[d].j \/ req'[d].j = None
    BY <1>2
  <1>5. Unborn'
    BY <1>2, <1>4, Records DEF Unborn, NotYetInserted, TypeOK, HasJob
  <1>6. \A d \in Callers, i \in Jobs : Asking(d, i, RetryPCs)' => Asking(d, i, RetryPCs)
    BY <1>2, Records DEF Asking, RetryPCs
  <1>7. RetryInv'
    BY <1>2, <1>6 DEF RetryInv, Works, HasJob, RetryPCs
  <1>8. WorkInv' /\ OneWriter' /\ StoredInv' /\ DownloadComplete' /\ RunningIsHeld'
    BY DEF WorkInv, OneWriter, StoredInv, DownloadComplete, RunningIsHeld, Held, Works
  <1> QED
    BY <1>1, <1>3, <1>5, <1>7, <1>8

-----------------------------------------------------------------------------
(* The scheduler's tick and processJob.                                    *)

LEMMA StartTickKeeps ==
  ASSUME IInv, NEW w \in Workers, StartTick(w)
  PROVE  IInv'
  <1>1. TypeOK' /\ HasJob' /\ RowsLeft' /\ CleanInv'
    BY DEF IInv, StartTick, Goto, TypeOK, HasJob, RowsLeft, CleanInv, WorkPCs, row, world, hist, cllr
  <1>2. \A v \in Workers, i \in Jobs : Works(v, i)' <=> Works(v, i)
    BY DEF IInv, StartTick, Goto, TypeOK, Works, WorkPCs
  <1>3. Unborn'
    BY DEF IInv, StartTick, Unborn, NotYetInserted, row, world, cllr
  <1>4. WorkInv' /\ RetryInv' /\ OneWriter'
    BY <1>2 DEF IInv, StartTick, Goto, TypeOK, HasJob, WorkInv, RetryInv, OneWriter, Asking,
                WorkPCs, RetryPCs, row, hist, cllr
  <1>5. StoredInv' /\ DownloadComplete' /\ RunningIsHeld'
    BY <1>2 DEF IInv, StartTick, Goto, TypeOK, StoredInv, DownloadComplete, RunningIsHeld, Held,
                row, world, hist
  <1> QED
    BY <1>1, <1>3, <1>4, <1>5 DEF IInv

\* A worker looks at a job that is QUEUED, so that it was inserted.
LEMMA FindQueuedKeeps ==
  ASSUME IInv, NEW w \in Workers, FindQueued(w)
  PROVE  IInv'
  <1> USE DEF FindQueued, Goto
  <1>1. CASE \A j \in Jobs : ~Claimable(j)
    BY <1>1, RestKeeps, Records DEF IInv, TypeOK, WorkPCs, hist, row, world, cllr
  <1>2. ASSUME NEW j \in Jobs, Claimable(j),
               job' = [job EXCEPT ![w].j = j], pc' = [pc EXCEPT ![w] = "claim"]
        PROVE  IInv'
    <2> USE <1>2 DEF IInv, row, world, hist, cllr
    <2> DEFINE r == [job[w] EXCEPT !.j = j]
    <2>0. job[w] \in Job
      BY DEF TypeOK
    <2>a. /\ r \in Job /\ r.j = j /\ r.listed = job[w].listed /\ r.files = job[w].files
          /\ r.emitted = job[w].emitted
          /\ job' = [job EXCEPT ![w] = r]
      BY <2>0 DEF Job
    <2>1. /\ \A v \in Workers \ {w} : job'[v] = job[v] /\ pc'[v] = pc[v]
          /\ job'[w] = r /\ pc'[w] = "claim" /\ pc[w] = "find" /\ pc[w] \notin WorkPCs
          /\ "claim" \notin WorkPCs
      BY DEF TypeOK, WorkPCs
    <2> HIDE DEF r
    <2>2. TypeOK'
      BY <2>a DEF TypeOK
    <2>3. HasJob' /\ RowsLeft' /\ CleanInv'
      BY <2>a, <2>1 DEF HasJob, RowsLeft, CleanInv
    <2>4. Unborn'
      <3>1. \A i \in Jobs : state[i] = "ABSENT" => i # j
        BY DEF Claimable
      <3>2. \A v \in Workers : job'[v].j = job[v].j \/ job'[v].j = j
        BY <2>a, <2>1
      <3> QED
        BY <3>1, <3>2 DEF Unborn, NotYetInserted, TypeOK, HasJob
    <2>5. \A v \in Workers, i \in Jobs : Works(v, i)' <=> Works(v, i)
      BY <2>1 DEF Works, WorkPCs
    <2>6. WorkInv' /\ RetryInv' /\ OneWriter'
      BY <2>1, <2>5 DEF WorkInv, RetryInv, OneWriter, Asking, HasJob, RetryPCs, WorkPCs
    <2>7. StoredInv' /\ DownloadComplete' /\ RunningIsHeld'
      BY <2>1, <2>5 DEF StoredInv, DownloadComplete, RunningIsHeld, Held
    <2> QED
      BY <2>2, <2>3, <2>4, <2>6, <2>7
  <1> QED
    BY <1>1, <1>2

\* The claimed job was QUEUED, so that nobody worked on it or was about to
\* queue it again.
LEMMA ClaimKeeps ==
  ASSUME IInv, NEW w \in Workers, Claim(w)
  PROVE  IInv'
  <1> USE DEF Claim, Goto, StillQueued
  <1>1. CASE ~StillQueued(job[w].j)
    BY <1>1, RestKeeps, Records DEF IInv, TypeOK, WorkPCs, hist, row, world, cllr
  <1>2. CASE StillQueued(job[w].j)
    <2> DEFINE j == job[w].j
    <2> USE <1>2 DEF IInv, world, hist, cllr
    <2>1. /\ j \in Jobs /\ state[j] = "QUEUED" /\ pc[w] = "claim"
          /\ state' = [state EXCEPT ![j] = "RUNNING"]
          /\ pc' = [pc EXCEPT ![w] = "start"]
      BY DEF HasJob, Write
    <2>2. /\ \A v \in Workers \ {w} : pc'[v] = pc[v]
          /\ pc'[w] = "start" /\ pc[w] \notin WorkPCs /\ "start" \in WorkPCs
      BY <2>1 DEF TypeOK, WorkPCs
    <2>3. TypeOK' /\ HasJob' /\ RowsLeft' /\ CleanInv'
      BY <2>1, <2>2 DEF TypeOK, HasJob, RowsLeft, CleanInv, RowStates, WorkPCs
    <2>4. Unborn'
      BY <2>1 DEF Unborn, NotYetInserted, TypeOK, HasJob
    <2>5. \A v \in Workers, i \in Jobs : Works(v, i)' <=> Works(v, i) \/ (v = w /\ i = j)
      BY <2>1, <2>2 DEF Works
    <2>6. \A v \in Workers : j \notin raced => ~Works(v, j)
      BY <2>1 DEF WorkInv, Works
    <2>7. WorkInv' /\ OneWriter'
      BY <2>1, <2>2, <2>5, <2>6 DEF WorkInv, OneWriter, Works, TypeOK, HasJob
    <2>8. RetryInv'
      BY <2>1, <2>2, <2>5 DEF RetryInv, Asking, HasJob, RetryPCs, TypeOK
    <2>9. StoredInv' /\ DownloadComplete' /\ RunningIsHeld'
      BY <2>1, <2>2, <2>5 DEF StoredInv, DownloadComplete, RunningIsHeld, Held, TypeOK
    <2> QED
      BY <2>3, <2>4, <2>7, <2>8, <2>9
  <1> QED
    BY <1>1, <1>2

LEMMA StartJobKeeps ==
  ASSUME IInv, NEW w \in Workers, StartJob(w)
  PROVE  IInv'
  <1> USE DEF StartJob, Goto, Exists
  <1>1. CASE ~Exists(job[w].j)
    BY <1>1, RestKeeps, Records DEF EndTick, IInv, TypeOK, WorkPCs, hist, row, world, cllr
  <1>2. CASE Exists(job[w].j)
    <2> DEFINE j == job[w].j
    <2> USE <1>2 DEF IInv, world, hist, cllr
    <2>1. /\ j \in Jobs /\ state[j] # "ABSENT" /\ pc[w] = "start" /\ Works(w, j)
          /\ state' = [state EXCEPT ![j] = "RUNNING"]
          /\ pc' = [pc EXCEPT ![w] = "open"]
      BY DEF HasJob, Write, Works, WorkPCs
    <2>2. TypeOK' /\ HasJob' /\ RowsLeft' /\ CleanInv'
      BY <2>1 DEF TypeOK, HasJob, RowsLeft, CleanInv, RowStates, WorkPCs
    <2>3. Unborn'
      BY <2>1 DEF Unborn, NotYetInserted, TypeOK, HasJob
    <2>4. \A v \in Workers, i \in Jobs : Works(v, i)' <=> Works(v, i)
      BY <2>1 DEF Works, WorkPCs, TypeOK
    <2>5. WorkInv' /\ RetryInv' /\ OneWriter'
      BY <2>1, <2>4 DEF WorkInv, RetryInv, OneWriter, Works, Asking, TypeOK, HasJob, RetryPCs
    <2>6. StoredInv' /\ DownloadComplete' /\ RunningIsHeld'
      BY <2>1, <2>4 DEF StoredInv, DownloadComplete, RunningIsHeld, Held, TypeOK
    <2> QED
      BY <2>2, <2>3, <2>5, <2>6
  <1> QED
    BY <1>1, <1>2

\* The five steps on the artifact.
LEMMA ArtifactKeeps ==
  ASSUME IInv, NEW w \in Workers,
         OpenArtifact(w) \/ CheckCancelled(w) \/ EmitRow(w) \/ StoreArtifact(w) \/ RecordFails(w)
  PROVE  IInv'
  <1> DEFINE j == job[w].j
  <1>1. /\ j \in Jobs /\ job[w] \in Job /\ pc[w] \in WorkPCs /\ Works(w, j)
        /\ file \in [Jobs -> {"none", "partial", "complete"}] /\ crashes \in Nat
        /\ {"check", "emit", "store", "record"} \subseteq WorkPCs
        /\ pc[w] \notin {"store", "record"} => job[w].emitted < MaxRows
    BY DEF OpenArtifact, CheckCancelled, EmitRow, StoreArtifact, RecordFails, WorkPCs, IInv,
           TypeOK, HasJob, RowsLeft, Works
  <1> USE <1>1 DEF Goto, hist
  <1>2. CASE OpenArtifact(w)
    <2>1. job' = [job EXCEPT ![w] = job[w]]
      BY <1>2 DEF OpenArtifact, IInv, TypeOK
    <2> QED
      BY <1>2, <2>1, WorkKeeps DEF OpenArtifact
  <1>3. CASE CheckCancelled(w)
    <2>1. CASE j \in asked
      <3> DEFINE r == [job[w] EXCEPT !.outcome = "CANCELLED"]
      <3>1. r \in Job /\ r.j = j /\ r.listed = job[w].listed /\ r.files = job[w].files
            /\ r.outcome # "SUCCEEDED"
        BY DEF Job, Terminal
      <3>2. job' = [job EXCEPT ![w] = r] /\ pc' = [pc EXCEPT ![w] = "record"]
        BY <1>3, <2>1 DEF CheckCancelled, Fail
      <3>3. /\ file' = [file EXCEPT ![j] = "none"]
            /\ UNCHANGED <<row, world, raced, orphans, requests, crashes, cllr>>
        BY <1>3, <2>1 DEF CheckCancelled, Unlink
      <3> HIDE DEF r
      <3> QED
        BY <3>1, <3>2, <3>3, WorkKeeps
    <2>2. CASE j \notin asked
      <3>1. job' = [job EXCEPT ![w] = job[w]]
        BY <1>3, <2>2 DEF CheckCancelled, IInv, TypeOK
      <3> QED
        BY <1>3, <2>2, <3>1, WorkKeeps DEF CheckCancelled
    <2> QED
      BY <2>1, <2>2
  <1>4. CASE EmitRow(w)
    <2> DEFINE n == job[w].emitted + 1
    <2>1. CASE /\ job' = [job EXCEPT ![w].emitted = n]
               /\ Goto(w, IF n < MaxRows THEN "check" ELSE "store")
               /\ UNCHANGED file
      <3> DEFINE r == [job[w] EXCEPT !.emitted = n]
      <3>1. r \in Job /\ r.j = j /\ r.listed = job[w].listed /\ r.files = job[w].files
        BY ConstAssumption, <1>4, <2>1 DEF Job, EmitRow
      <3>2. job' = [job EXCEPT ![w] = r]
        BY <2>1
      <3>3. r.emitted = n
        BY DEF Job
      <3> HIDE DEF r
      <3> QED
        BY <1>4, <2>1, <3>1, <3>2, <3>3, WorkKeeps DEF EmitRow
    <2>2. CASE Goto(w, "store") /\ UNCHANGED <<job, file>>
      <3>1. job' = [job EXCEPT ![w] = job[w]]
        BY <2>2 DEF IInv, TypeOK
      <3> QED
        BY <1>4, <2>2, <3>1, WorkKeeps DEF EmitRow
    <2>3. CASE Fail(w, "FAILED") /\ Unlink(j)
      <3> DEFINE r == [job[w] EXCEPT !.outcome = "FAILED"]
      <3>1. r \in Job /\ r.j = j /\ r.listed = job[w].listed /\ r.files = job[w].files
            /\ r.outcome # "SUCCEEDED"
        BY DEF Job, Terminal
      <3> QED
        BY <1>4, <2>3, <3>1, WorkKeeps DEF EmitRow, Fail, Unlink
    <2> QED
      BY <1>4, <2>1, <2>2, <2>3 DEF EmitRow
  <1>5. CASE StoreArtifact(w)
    <2>1. CASE Oversized(w)
      <3> DEFINE r == [job[w] EXCEPT !.outcome = "FAILED"]
      <3>1. r \in Job /\ r.j = j /\ r.listed = job[w].listed /\ r.files = job[w].files
            /\ r.outcome # "SUCCEEDED"
        BY DEF Job, Terminal
      <3> QED
        BY <1>5, <2>1, <3>1, WorkKeeps DEF StoreArtifact, Oversized, Fail, Unlink
    <2>2. CASE ~Oversized(w)
      <3> DEFINE r == [job[w] EXCEPT !.outcome = "SUCCEEDED"]
      <3>1. r \in Job /\ r.j = j /\ r.listed = job[w].listed /\ r.files = job[w].files
        BY DEF Job, Terminal
      <3>2. j \notin raced => \A v \in Workers \ {w} : ~Works(v, j)
        BY DEF IInv, OneWriter
      <3>3. /\ file' \in [Jobs -> {"none", "partial", "complete"}]
            /\ \A i \in Jobs : i # j => file'[i] = file[i]
            /\ j \notin raced => file'[j] = "complete"
        BY <1>5, <2>2, <3>2 DEF StoreArtifact
      <3>4. job' = [job EXCEPT ![w] = r] /\ pc' = [pc EXCEPT ![w] = "record"]
        BY <1>5, <2>2 DEF StoreArtifact
      <3> HIDE DEF r
      <3> QED
        BY <1>5, <3>1, <3>3, <3>4, WorkKeeps DEF StoreArtifact
    <2> QED
      BY <2>1, <2>2
  <1>6. CASE RecordFails(w)
    <2> DEFINE r == [job[w] EXCEPT !.outcome = "FAILED"]
    <2>1. r \in Job /\ r.j = j /\ r.listed = job[w].listed /\ r.files = job[w].files
          /\ r.outcome # "SUCCEEDED"
      BY DEF Job, Terminal
    <2>2. job' = [job EXCEPT ![w] = r] /\ pc' = [pc EXCEPT ![w] = "record"]
      BY <1>6 DEF RecordFails, Fail
    <2>3. crashes' \in Nat /\ UNCHANGED <<row, world, file, raced, orphans, requests, cllr>>
      BY <1>6 DEF RecordFails
    <2> HIDE DEF r
    <2> QED
      BY <2>1, <2>2, <2>3, WorkKeeps
  <1> QED
    BY <1>2, <1>3, <1>4, <1>5, <1>6

\* What a worker becomes when it is done with a job.
LEMMA NextJobRests ==
  ASSUME NEW w \in Workers, job[w] \in Job, NextJob(w)
  PROVE  \E l \in {"find", "cleanup"}, r \in Job :
           /\ pc' = [pc EXCEPT ![w] = l] /\ job' = [job EXCEPT ![w] = r]
           /\ r.j = None /\ r.listed = {} /\ r.files = {} /\ r.emitted < MaxRows
  <1> DEFINE i == job[w].index + 1
             r == [NoJob EXCEPT !.index = IF i < MaxConcurrent THEN i ELSE 0]
             l == IF i < MaxConcurrent THEN "find" ELSE "cleanup"
  <1>1. job[w].index \in Nat
    BY ConstAssumption DEF Job
  <1>2. (IF i < MaxConcurrent THEN i ELSE 0) \in 0..(MaxConcurrent - 1)
    BY <1>1, ConstAssumption
  <1>3. r \in Job /\ r.j = None /\ r.listed = {} /\ r.files = {} /\ r.emitted = 0
    BY <1>2, Records DEF Job, NoJob
  <1>4. pc' = [pc EXCEPT ![w] = l] /\ job' = [job EXCEPT ![w] = r] /\ l \in {"find", "cleanup"}
    BY DEF NextJob, Goto
  <1>5. r.emitted < MaxRows
    BY <1>3, ConstAssumption
  <1> HIDE DEF r, l
  <1> QED
    BY <1>3, <1>4, <1>5

LEMMA RecordJobKeeps ==
  ASSUME IInv, NEW w \in Workers, RecordJob(w)
  PROVE  IInv'
  <1> DEFINE j == job[w].j
             s == job[w].outcome
  <1>1. /\ j \in Jobs /\ job[w] \in Job /\ s \in Terminal /\ pc[w] = "record" /\ Works(w, j)
        /\ "RUNNING" \notin Terminal /\ "QUEUED" \notin Terminal /\ "ABSENT" \notin Terminal
    BY DEF RecordJob, IInv, TypeOK, HasJob, Works, WorkPCs, Job, Terminal
  <1>2. CASE ~Exists(j)
    BY <1>1, <1>2, RestKeeps, Records
       DEF RecordJob, Exists, EndTick, Goto, IInv, TypeOK, hist, row
  <1>3. CASE Exists(j)
    <2>1. PICK l \in {"find", "cleanup"}, r \in Job :
            /\ pc' = [pc EXCEPT ![w] = l] /\ job' = [job EXCEPT ![w] = r]
            /\ r.j = None /\ r.listed = {} /\ r.files = {} /\ r.emitted < MaxRows
      BY <1>1, <1>3, NextJobRests DEF RecordJob
    <2>2. /\ state' = [state EXCEPT ![j] = s]
          /\ path' = IF s = "SUCCEEDED" THEN path \cup {j} ELSE path
          /\ UNCHANGED <<asked, world, file, hist, cllr>>
      BY <1>3 DEF RecordJob, Write, FinalState
    <2> USE <1>1, <2>1, <2>2 DEF IInv, world, hist, cllr
    <2>3. /\ \A v \in Workers \ {w} : job'[v] = job[v] /\ pc'[v] = pc[v]
          /\ job'[w] = r /\ pc'[w] = l /\ l \notin {"claim", "record"} \cup WorkPCs
          /\ \A i \in Jobs : state'[i] = IF i = j THEN s ELSE state[i]
      BY DEF TypeOK, WorkPCs
    <2>4. TypeOK'
      <3>1. state' \in [Jobs -> RowStates] /\ path' \in SUBSET Jobs
        BY DEF TypeOK, RowStates
      <3> QED
        BY <3>1 DEF TypeOK
    <2>5. HasJob' /\ RowsLeft' /\ CleanInv'
      BY <2>3 DEF HasJob, RowsLeft, CleanInv
    <2>6. Unborn'
      BY <2>3, Records, <1>3 DEF Unborn, NotYetInserted, TypeOK, HasJob
    <2>7. \A v \in Workers, i \in Jobs : Works(v, i)' <=> v # w /\ Works(v, i)
      BY <2>3 DEF Works
    <2>8. \A v \in Workers \ {w} : Works(v, j) => j \in raced
      BY DEF OneWriter
    <2>9. WorkInv' /\ OneWriter'
      BY <2>3, <2>7, <2>8 DEF WorkInv, OneWriter, Works, HasJob
    <2>10. RetryInv'
      BY <2>3, <2>7 DEF RetryInv, Asking, HasJob, RetryPCs
    <2>11. StoredInv'
      BY <2>3 DEF StoredInv
    <2>12. DownloadComplete'
      BY <2>3 DEF DownloadComplete, StoredInv
    <2>13. RunningIsHeld'
      <3> SUFFICES ASSUME NEW i \in Jobs \ orphans, state'[i] = "RUNNING" PROVE Held(i)'
        BY DEF RunningIsHeld
      <3>1. i # j
        BY <2>3
      <3>2. PICK v \in Workers : Works(v, i)
        BY <2>3, <3>1 DEF RunningIsHeld, Held
      <3>3. v # w
        BY <3>1, <3>2 DEF Works
      <3> QED
        BY <3>2, <3>3, <2>7 DEF Held
    <2> QED
      BY <2>4, <2>5, <2>6, <2>9, <2>10, <2>11, <2>12, <2>13
  <1> QED
    BY <1>2, <1>3

LEMMA CleanupListKeeps ==
  ASSUME IInv, NEW w \in Workers, CleanupList(w)
  PROVE  IInv'
  <1> DEFINE listed == {j \in Jobs : state[j] \in Terminal /\ j \in expired}
             r == [NoJob EXCEPT !.listed = listed, !.files = listed \cap path]
  <1>1. /\ r \in Job /\ r.j = None /\ r.listed = listed /\ r.files = listed \cap path
        /\ r.emitted < MaxRows
    BY Records DEF Job, NoJob
  <1>2. /\ job' = [job EXCEPT ![w] = r] /\ pc' = [pc EXCEPT ![w] = "remove"] /\ pc[w] = "cleanup"
        /\ UNCHANGED <<row, world, file, hist, cllr>>
    BY DEF CleanupList, Goto
  <1>3. crashes \in Nat /\ orphans \subseteq Jobs /\ "cleanup" \notin WorkPCs
    BY DEF IInv, TypeOK, WorkPCs
  <1> HIDE DEF r
  <1> QED
    BY <1>1, <1>2, <1>3, RestKeeps DEF hist

\* Cleanups remove the files of expired jobs.
LEMMA CleanupRemoveKeeps ==
  ASSUME IInv, NEW w \in Workers, CleanupRemove(w)
  PROVE  IInv'
  <1> USE DEF IInv, row, world, hist, cllr
  <1>1. PICK i \in job[w].files : /\ file' = [file EXCEPT ![i] = "none"]
                                  /\ job' = [job EXCEPT ![w].files = @ \ {i}]
                                  /\ pc[w] = "remove"
                                  /\ UNCHANGED <<row, world, hist, pc, cllr>>
    BY DEF CleanupRemove, Unlink
  <1>2. i \in expired /\ job[w] \in Job
    BY DEF CleanInv, TypeOK
  <1> DEFINE r == [job[w] EXCEPT !.files = @ \ {i}]
  <1>3. /\ r \in Job /\ r.j = job[w].j /\ r.listed = job[w].listed /\ r.emitted = job[w].emitted
        /\ r.outcome = job[w].outcome /\ r.files \subseteq job[w].files
        /\ job' = [job EXCEPT ![w] = r]
    BY <1>1, <1>2 DEF Job
  <1> HIDE DEF r
  <1>4. TypeOK' /\ HasJob' /\ RowsLeft' /\ CleanInv'
    BY <1>1, <1>3 DEF TypeOK, HasJob, RowsLeft, CleanInv
  <1>5. \A v \in Workers : job'[v].j = job[v].j /\ job'[v].outcome = job[v].outcome
    BY <1>1, <1>3 DEF TypeOK
  <1>6. \A v \in Workers, k \in Jobs : Works(v, k)' <=> Works(v, k)
    BY <1>1, <1>5 DEF Works
  <1>7. Unborn' /\ WorkInv' /\ RetryInv' /\ OneWriter' /\ RunningIsHeld'
    BY <1>1, <1>5, <1>6 DEF Unborn, NotYetInserted, WorkInv, RetryInv, OneWriter, RunningIsHeld,
                            Held, Asking, HasJob, RetryPCs
  <1>8. StoredInv' /\ DownloadComplete'
    BY <1>1, <1>2, <1>5 DEF StoredInv, DownloadComplete, TypeOK
  <1> QED
    BY <1>4, <1>7, <1>8

\* ... and their rows, whoever has changed these since they were listed.
LEMMA CleanupDeleteKeeps ==
  ASSUME IInv, NEW w \in Workers, CleanupDelete(w)
  PROVE  IInv'
  <1> USE DEF IInv, world, hist, cllr
  <1> DEFINE gone == job[w].listed
  <1>1. /\ gone \subseteq expired /\ gone \subseteq Jobs /\ pc[w] = "remove"
        /\ state' = [j \in Jobs |-> IF j \in gone THEN "ABSENT" ELSE state[j]]
        /\ asked' = asked \ gone /\ path' = path \ gone
        /\ pc' = [pc EXCEPT ![w] = "idle"] /\ job' = [job EXCEPT ![w] = NoJob]
        /\ UNCHANGED <<world, file, hist, cllr>>
    BY DEF CleanupDelete, EndTick, Goto, CleanInv, TypeOK, Job
  <1> HIDE DEF gone
  <1>2. /\ \A v \in Workers \ {w} : job'[v] = job[v] /\ pc'[v] = pc[v]
        /\ job'[w] = NoJob /\ pc'[w] = "idle" /\ pc[w] \notin WorkPCs
        /\ \A j \in Jobs : state'[j] = state[j] \/ state'[j] = "ABSENT"
    BY <1>1 DEF TypeOK, WorkPCs
  <1>3. TypeOK'
    BY <1>1, Records DEF TypeOK, RowStates
  <1>4. HasJob' /\ RowsLeft' /\ CleanInv'
    BY <1>1, <1>2, Records DEF HasJob, RowsLeft, CleanInv, WorkPCs
  <1>5. Unborn'
    BY <1>1, <1>2, Records DEF Unborn, NotYetInserted, TypeOK, HasJob
  <1>6. \A v \in Workers, j \in Jobs : Works(v, j)' <=> Works(v, j)
    BY <1>1, <1>2 DEF Works, WorkPCs
  <1>7. WorkInv' /\ RetryInv' /\ OneWriter'
    BY <1>1, <1>2, <1>6 DEF WorkInv, RetryInv, OneWriter, Asking, HasJob, RetryPCs, WorkPCs
  <1>8. StoredInv' /\ DownloadComplete' /\ RunningIsHeld'
    BY <1>1, <1>2, <1>6 DEF StoredInv, DownloadComplete, RunningIsHeld, Held
  <1> QED
    BY <1>3, <1>4, <1>5, <1>7, <1>8

LEMMA CrashWorkerKeeps ==
  ASSUME IInv, NEW w \in Workers, CrashWorker(w)
  PROVE  IInv'
  <1>1. /\ orphans \subseteq orphans' /\ orphans' \subseteq Jobs /\ crashes' \in Nat
        /\ pc[w] \in WorkPCs => job[w].j \in orphans'
    BY DEF CrashWorker, IInv, TypeOK, HasJob
  <1> QED
    BY <1>1, RestKeeps, Records DEF CrashWorker, EndTick, Goto

-----------------------------------------------------------------------------
(* HTTP requests, and what the clock and the storage do.                   *)

LEMMA CreateCountKeeps ==
  ASSUME IInv, NEW c \in Callers, CreateCount(c)
  PROVE  IInv'
  <1> USE DEF IInv, row, hist, wkr
  <1>1. PICK j \in fresh : /\ fresh' = fresh \ {j} /\ req' = [req EXCEPT ![c].j = j]
                           /\ cpc' = [cpc EXCEPT ![c] = "create"] /\ cpc[c] = "idle"
                           /\ UNCHANGED <<row, expired, file, hist, wkr>>
    BY DEF CreateCount, CGoto
  <1> DEFINE r == [req[c] EXCEPT !.j = j]
  <1>2. req[c] \in Req /\ j \in Jobs
    BY <1>1 DEF TypeOK
  <1>3. r \in Req /\ r.j = j /\ req' = [req EXCEPT ![c] = r]
    BY <1>1, <1>2 DEF Req
  <1> HIDE DEF r
  <1>4. /\ \A d \in Callers \ {c} : req'[d] = req[d] /\ cpc'[d] = cpc[d]
        /\ req'[c].j = j /\ cpc'[c] = "create"
    BY <1>1, <1>3 DEF TypeOK
  <1>5. TypeOK'
    BY <1>1, <1>3 DEF TypeOK
  <1>6. HasJob' /\ RowsLeft' /\ CleanInv'
    BY <1>1, <1>2, <1>4 DEF HasJob, RowsLeft, CleanInv
  <1>7. Unborn'
    <2>1. NotYetInserted(j) /\ \A d \in Callers : req[d].j # j
      BY DEF Unborn
    <2> QED
      BY <1>1, <1>4, <2>1 DEF Unborn, NotYetInserted
  <1>8. RetryInv'
    BY <1>1, <1>4 DEF RetryInv, Asking, Works, RetryPCs
  <1>9. WorkInv' /\ OneWriter' /\ StoredInv' /\ DownloadComplete' /\ RunningIsHeld'
    BY <1>1 DEF WorkInv, OneWriter, StoredInv, DownloadComplete, RunningIsHeld, Held, Works
  <1> QED
    BY <1>5, <1>6, <1>7, <1>8, <1>9

\* A row changes, or two: what the rest of the invariant asks of the change
\* is that nobody works on it or that it ends up CANCELLED.
LEMMA RowKeeps ==
  ASSUME IInv, NEW c \in Callers, NEW s \in {"QUEUED", "CANCELLED"},
         LET j == req[c].j IN
           /\ j \in Jobs \ fresh
           /\ cpc[c] # "create" => state[j] # "ABSENT"
           /\ state' = [state EXCEPT ![j] = s]
           /\ s = "QUEUED" /\ j \notin raced => \A w \in Workers : ~Works(w, j)
           /\ s = "QUEUED" /\ j \notin raced =>
                \A d \in Callers \ {c} : ~Asking(d, j, RetryPCs),
         asked' \subseteq Jobs, path' \subseteq Jobs,
         \A i \in Jobs : i # req[c].j => (i \in path' <=> i \in path),
         cpc' = [cpc EXCEPT ![c] = "idle"], req' = [req EXCEPT ![c] = NoReq],
         UNCHANGED <<world, file, hist, wkr>>
  PROVE  IInv'
  <1> USE DEF IInv, world, hist, wkr
  <1> DEFINE j == req[c].j
  <1>1. /\ \A d \in Callers \ {c} : req'[d] = req[d] /\ cpc'[d] = cpc[d]
        /\ req'[c].j = None /\ cpc'[c] = "idle"
        /\ \A i \in Jobs : state'[i] = IF i = j THEN s ELSE state[i]
    BY Records DEF TypeOK
  <1>2. TypeOK'
    BY Records DEF TypeOK, RowStates, Terminal
  <1>3. HasJob' /\ RowsLeft' /\ CleanInv'
    BY <1>1 DEF HasJob, RowsLeft, CleanInv
  <1>4. Unborn'
    BY <1>1, Records DEF Unborn, NotYetInserted, TypeOK, HasJob
  <1>5. \A v \in Workers, i \in Jobs : Works(v, i)' <=> Works(v, i)
    BY DEF Works
  <1>6. WorkInv' /\ OneWriter'
    BY <1>1, <1>5 DEF WorkInv, OneWriter, Works, HasJob
  <1>7. RetryInv'
    BY <1>1, <1>5 DEF RetryInv, Asking, HasJob, RetryPCs
  <1>8. StoredInv' /\ DownloadComplete' /\ RunningIsHeld'
    BY <1>1, <1>5 DEF StoredInv, DownloadComplete, RunningIsHeld, Held
  <1> QED
    BY <1>2, <1>3, <1>4, <1>6, <1>7, <1>8

LEMMA CreateJobKeeps ==
  ASSUME IInv, NEW c \in Callers, CreateJob(c)
  PROVE  IInv'
  <1> DEFINE j == req[c].j
  <1>1. /\ j \in Jobs \ fresh
        /\ \A w \in Workers : ~Works(w, j)
        /\ \A d \in Callers \ {c} : ~Asking(d, j, RetryPCs)
    BY DEF CreateJob, IInv, HasJob, Unborn, NotYetInserted, Works, Asking
  <1> QED
    BY <1>1, RowKeeps DEF CreateJob, EndCall, CGoto, Write, IInv, TypeOK

\* Whoever has read a row has read one that was inserted.
LEMMA ReadersKnow ==
  ASSUME IInv, NEW c \in Callers, cpc[c] \in {"cancel"} \cup RetryPCs
  PROVE  req[c].j \in Jobs \ fresh
  BY DEF IInv, HasJob, Unborn, RetryPCs

LEMMA CancelWriteKeeps ==
  ASSUME IInv, NEW c \in Callers, CancelWrite(c)
  PROVE  IInv'
  <1> DEFINE j == req[c].j
  <1> USE DEF CancelWrite, EndCall, CGoto, IInv
  <1>1. j \in Jobs \ fresh
    BY ReadersKnow
  <1>2. CASE Exists(j) /\ Write(j, "CANCELLED") /\ UNCHANGED asked
    BY <1>1, <1>2, RowKeeps DEF Write, Exists, TypeOK
  <1>3. CASE UNCHANGED state /\ asked' \in {asked, asked \cup {j}}
    <2>1. TypeOK'
      BY <1>1, <1>3, Records DEF TypeOK, world, hist, wkr
    <2> DEFINE r == NoReq
    <2>2. /\ \A d \in Callers \ {c} : req'[d] = req[d] /\ cpc'[d] = cpc[d]
          /\ req'[c].j = None /\ cpc'[c] = "idle"
      BY Records DEF TypeOK
    <2>3. HasJob' /\ RowsLeft' /\ CleanInv'
      BY <2>2 DEF HasJob, RowsLeft, CleanInv, world, wkr
    <2>4. Unborn'
      BY <1>3, <2>2, Records DEF Unborn, NotYetInserted, TypeOK, HasJob, world, wkr
    <2>5. RetryInv'
      BY <1>3, <2>2 DEF RetryInv, Asking, Works, HasJob, RetryPCs, hist, wkr
    <2>6. WorkInv' /\ OneWriter' /\ StoredInv' /\ DownloadComplete' /\ RunningIsHeld'
      BY <1>3 DEF WorkInv, OneWriter, StoredInv, DownloadComplete, RunningIsHeld, Held, Works,
                  world, hist, wkr
    <2> QED
      BY <2>1, <2>3, <2>4, <2>5, <2>6
  <1> QED
    BY <1>2, <1>3

LEMMA RetryCountKeeps ==
  ASSUME IInv, NEW c \in Callers, RetryCount(c)
  PROVE  IInv'
  <1>1. CASE Full
    BY <1>1, CallKeeps, Records DEF RetryCount, EndCall, CGoto, IInv, TypeOK, hist
  <1>2. CASE ~Full
    <2>1. /\ req[c] \in Req /\ req' = [req EXCEPT ![c] = req[c]] /\ crashes' \in Nat
          /\ cpc[c] \in RetryPCs /\ cpc' = [cpc EXCEPT ![c] = "retryRemove"]
          /\ "retryRemove" \in RetryPCs \ {"idle"}
          /\ UNCHANGED <<row, world, file, raced, orphans, requests, wkr>>
      BY <1>2 DEF RetryCount, CGoto, IInv, TypeOK, RetryPCs, hist
    <2> QED
      BY <2>1, CallKeeps
  <1> QED
    BY <1>1, <1>2

\* The file of a job that is about to be queued again is of no use to anybody.
LEMMA RetryRemoveKeeps ==
  ASSUME IInv, NEW c \in Callers, RetryRemove(c)
  PROVE  IInv'
  <1> USE DEF IInv, row, world, hist, wkr
  <1> DEFINE j == req[c].j
  <1>1. /\ j \in Jobs /\ cpc[c] = "retryRemove" /\ cpc[c] \in RetryPCs
        /\ cpc' = [cpc EXCEPT ![c] = "retryWrite"]
        /\ file' \in {file, [file EXCEPT ![j] = "none"]}
        /\ UNCHANGED <<row, world, hist, wkr, req>>
    BY DEF RetryRemove, Unlink, CGoto, HasJob, RetryPCs
  <1>2. TypeOK' /\ HasJob' /\ RowsLeft' /\ CleanInv'
    BY <1>1 DEF TypeOK, HasJob, RowsLeft, CleanInv, RetryPCs
  <1>3. \A d \in Callers : /\ cpc'[d] = "create" <=> cpc[d] = "create"
                           /\ cpc'[d] \in RetryPCs <=> cpc[d] \in RetryPCs
    BY <1>1 DEF TypeOK, RetryPCs
  <1>4. Unborn' /\ RetryInv'
    BY <1>1, <1>3 DEF Unborn, NotYetInserted, RetryInv, Asking, Works
  <1>5. \A i \in Jobs : i # j => file'[i] = file[i]
    BY <1>1 DEF TypeOK
  <1>6. j \notin raced => state[j] # "SUCCEEDED" /\ \A w \in Workers : ~Works(w, j)
    BY <1>1 DEF RetryInv
  <1>7. StoredInv'
    BY <1>1, <1>5, <1>6 DEF StoredInv, Works, WorkPCs, HasJob
  <1>8. DownloadComplete'
    BY <1>1, <1>5, <1>6 DEF DownloadComplete
  <1>9. WorkInv' /\ OneWriter' /\ RunningIsHeld'
    BY <1>1 DEF WorkInv, OneWriter, RunningIsHeld, Held, Works
  <1> QED
    BY <1>2, <1>4, <1>7, <1>8, <1>9

LEMMA RetryWriteKeeps ==
  ASSUME IInv, NEW c \in Callers, RetryWrite(c)
  PROVE  IInv'
  <1> DEFINE j == req[c].j
  <1>1. /\ j \in Jobs \ fresh /\ cpc[c] \in RetryPCs /\ cpc[c] # "create"
        /\ j \notin raced => \A w \in Workers : ~Works(w, j)
        /\ j \notin raced => \A d \in Callers \ {c} : ~Asking(d, j, RetryPCs)
    BY ReadersKnow DEF RetryWrite, RetryPCs, IInv, RetryInv
  <1>2. CASE ~Exists(j)
    BY <1>2, CallKeeps, Records DEF RetryWrite, EndCall, CGoto, IInv, TypeOK, hist
  <1>3. CASE Exists(j)
    BY <1>1, <1>3, RowKeeps DEF RetryWrite, EndCall, CGoto, Write, Exists, IInv, TypeOK
  <1> QED
    BY <1>2, <1>3

LEMMA CrashCallerKeeps ==
  ASSUME IInv, NEW c \in Callers, CrashCaller(c)
  PROVE  IInv'
  <1>1. crashes' \in Nat /\ UNCHANGED <<row, world, file, raced, orphans, requests, wkr>>
    BY DEF CrashCaller, IInv, TypeOK
  <1> QED
    BY <1>1, CallKeeps, Records DEF CrashCaller, EndCall, CGoto

\* A request reads a job that was inserted; a second retry makes the job raced.
LEMMA ReadKeeps ==
  ASSUME IInv, NEW c \in Callers, NEW j \in Jobs, CancelRead(c, j) \/ RetryRead(c, j)
  PROVE  IInv'
  <1> USE DEF IInv, row, world, wkr
  <1> DEFINE r == [j |-> j, was |-> state[j], files |-> path \cap {j}]
  <1>1. PICK l \in {"cancel", "retryCount"} :
          /\ cpc[c] = "idle" /\ cpc' = [cpc EXCEPT ![c] = l] /\ req' = [req EXCEPT ![c] = r]
          /\ requests' = requests + 1 /\ raced \subseteq raced' /\ raced' \subseteq raced \cup {j}
          /\ l = "retryCount" => state[j] = "FAILED"
          /\ l = "retryCount" /\ j \notin raced' => \A d \in Callers : ~Asking(d, j, RetryPCs)
          /\ state[j] # "ABSENT"
          /\ UNCHANGED <<row, world, file, orphans, crashes, wkr>>
    BY DEF CancelRead, RetryRead, ReadJob, CGoto
  <1>2. r \in Req /\ r.j = j
    BY DEF Req, TypeOK
  <1> HIDE DEF r
  <1>3. /\ \A d \in Callers \ {c} : req'[d] = req[d] /\ cpc'[d] = cpc[d]
        /\ req'[c].j = j /\ cpc'[c] = l /\ l \notin {"create", "idle"}
    BY <1>1, <1>2 DEF TypeOK
  <1>4. TypeOK'
    BY <1>1, <1>2 DEF TypeOK, RetryPCs
  <1>5. HasJob' /\ RowsLeft' /\ CleanInv'
    BY <1>1, <1>3 DEF HasJob, RowsLeft, CleanInv
  <1>6. Unborn'
    BY <1>1, <1>3 DEF Unborn, NotYetInserted
  <1>7. \A v \in Workers, i \in Jobs : Works(v, i)' <=> Works(v, i)
    BY <1>1 DEF Works
  <1>8. WorkInv' /\ OneWriter' /\ StoredInv' /\ DownloadComplete' /\ RunningIsHeld'
    BY <1>1, <1>7 DEF WorkInv, OneWriter, StoredInv, DownloadComplete, RunningIsHeld, Held
  <1>9. RetryInv'
    <2>1. l = "retryCount" /\ j \notin raced' => \A w \in Workers : ~Works(w, j)
      BY <1>1 DEF WorkInv, Works
    <2>2. "cancel" \notin RetryPCs
      BY DEF RetryPCs
    <2>3. \A d \in Callers, i \in Jobs : Asking(d, i, RetryPCs)' <=>
            IF d = c THEN i = j /\ l = "retryCount" ELSE Asking(d, i, RetryPCs)
      BY <1>3, <2>2 DEF Asking, RetryPCs
    <2>4. \A d \in Callers : cpc'[d] \in RetryPCs => req'[d].j \in Jobs
      BY <1>5 DEF HasJob, RetryPCs
    <2>5. \A d \in Callers, i \in Jobs \ raced : Asking(d, i, RetryPCs) =>
            /\ state[i] \in {"FAILED", "CANCELLED", "ABSENT"}
            /\ \A w \in Workers : ~Works(w, i)
            /\ \A e \in Callers \ {d} : ~Asking(e, i, RetryPCs)
      BY DEF RetryInv, Asking
    <2>6. \A d \in Callers, i \in Jobs \ raced' : Asking(d, i, RetryPCs)' =>
            /\ state'[i] \in {"FAILED", "CANCELLED", "ABSENT"}
            /\ \A w \in Workers : ~Works(w, i)'
            /\ \A e \in Callers \ {d} : ~Asking(e, i, RetryPCs)'
      BY <1>1, <1>7, <2>1, <2>3, <2>5
    <2> QED
      BY <2>4, <2>6 DEF RetryInv, Asking
  <1> QED
    BY <1>4, <1>5, <1>6, <1>8, <1>9

\* The promises about files are for jobs that have not expired.
LEMMA ExpiryKeeps ==
  ASSUME IInv, NEW j \in Jobs, DownloadExpired(j) \/ Expire(j)
  PROVE  IInv'
  <1> USE DEF IInv, row, world, hist, wkr, cllr
  <1>1. /\ expired \subseteq expired' /\ expired' \subseteq Jobs
        /\ file' \in [Jobs -> {"none", "partial", "complete"}]
        /\ \A i \in Jobs \ expired' : file'[i] = file[i]
        /\ UNCHANGED <<row, fresh, hist, wkr, cllr>>
    BY DEF DownloadExpired, Expire, Unlink, TypeOK
  <1>2. TypeOK' /\ HasJob' /\ RowsLeft' /\ CleanInv'
    BY <1>1 DEF TypeOK, HasJob, RowsLeft, CleanInv
  <1>3. Unborn' /\ WorkInv' /\ RetryInv' /\ OneWriter' /\ RunningIsHeld'
    BY <1>1 DEF Unborn, NotYetInserted, WorkInv, RetryInv, OneWriter, RunningIsHeld, Held,
                Works, Asking
  <1>4. StoredInv' /\ DownloadComplete'
    BY <1>1 DEF StoredInv, DownloadComplete, HasJob, WorkPCs
  <1> QED
    BY <1>2, <1>3, <1>4

-----------------------------------------------------------------------------
LEMMA Initial == Init => IInv
  <1> SUFFICES ASSUME Init PROVE IInv
    OBVIOUS
  <1>1. TypeOK
    BY Records DEF Init, TypeOK, RowStates
  <1>2. HasJob /\ RowsLeft /\ CleanInv
    BY Records DEF Init, HasJob, RowsLeft, CleanInv, WorkPCs
  <1>3. Unborn
    BY Records DEF Init, Unborn, NotYetInserted
  <1>4. WorkInv /\ RetryInv /\ OneWriter /\ StoredInv /\ DownloadComplete /\ RunningIsHeld
    BY DEF Init, WorkInv, RetryInv, OneWriter, StoredInv, DownloadComplete, RunningIsHeld, Works,
           WorkPCs, RetryPCs
  <1> QED
    BY <1>1, <1>2, <1>3, <1>4 DEF IInv

LEMMA StepKeeps == IInv /\ [Next]_vars => IInv'
  <1> SUFFICES ASSUME IInv, [Next]_vars PROVE IInv'
    OBVIOUS
  <1>1. ASSUME NEW w \in Workers, WorkerStep(w) \/ RecordFails(w) \/ CrashWorker(w) PROVE IInv'
    BY <1>1, StartTickKeeps, FindQueuedKeeps, ClaimKeeps, StartJobKeeps, ArtifactKeeps,
       RecordJobKeeps, CleanupListKeeps, CleanupRemoveKeeps, CleanupDeleteKeeps, CrashWorkerKeeps
       DEF WorkerStep
  <1>2. ASSUME NEW c \in Callers, CreateCount(c) \/ CallerStep(c) \/ CrashCaller(c) PROVE IInv'
    BY <1>2, CreateCountKeeps, CreateJobKeeps, CancelWriteKeeps, RetryCountKeeps,
       RetryRemoveKeeps, RetryWriteKeeps, CrashCallerKeeps
       DEF CallerStep
  <1>3. ASSUME NEW c \in Callers, NEW j \in Jobs, CancelRead(c, j) \/ RetryRead(c, j) PROVE IInv'
    BY <1>3, ReadKeeps
  <1>4. ASSUME NEW j \in Jobs, DownloadExpired(j) \/ Expire(j) PROVE IInv'
    BY <1>4, ExpiryKeeps
  <1>5. CASE UNCHANGED vars
    <2> USE <1>5 DEF vars, row, world, hist, wkr, cllr, IInv
    <2>1. TypeOK' /\ HasJob' /\ RowsLeft' /\ CleanInv' /\ Unborn'
      BY DEF TypeOK, HasJob, RowsLeft, CleanInv, Unborn, NotYetInserted
    <2>2. WorkInv' /\ RetryInv' /\ OneWriter' /\ RunningIsHeld'
      BY DEF WorkInv, RetryInv, OneWriter, RunningIsHeld, Held, Works, Asking
    <2>3. StoredInv' /\ DownloadComplete'
      BY DEF StoredInv, DownloadComplete
    <2> QED
      BY <2>1, <2>2, <2>3
  <1> QED
    BY <1>1, <1>2, <1>3, <1>4, <1>5 DEF Next

LEMMA Inductive == Spec => []IInv
  BY Initial, StepKeeps, PTL DEF Spec

-----------------------------------------------------------------------------
\* Rows, files and local variables keep the types of the schema and the code.
THEOREM TypesKept == Spec => []TypeOK
  <1>1. IInv => TypeOK
    BY DEF IInv
  <1> QED
    BY <1>1, Inductive, PTL

\* However many schedulers and requests overlap, and wherever they crash, one
\* worker writes an artifact and what is downloaded is all of it: the claim and
\* the reads of retries are enough, unless two retries of the job overlapped.
THEOREM WholeArtifacts == Spec => []ArtifactWhole
  <1>1. IInv => ArtifactWhole
    BY DEF IInv, ArtifactWhole
  <1> QED
    BY <1>1, Inductive, PTL

\* The rows that countRunning counts are held, except those of workers that
\* died.
THEOREM CountedAreHeld == Spec => []RunningIsHeld
  <1>1. IInv => RunningIsHeld
    BY DEF IInv
  <1> QED
    BY <1>1, Inductive, PTL

\* Nothing changes a finished export on which nobody is at work.
THEOREM FinishedStay == Spec => FinishedRests
  <1> DEFINE Quiet(j) == /\ state[j] \in Terminal
                         /\ ~Held(j)
                         /\ \A c \in Callers : ~Asking(c, j, {"cancel"} \cup RetryPCs)
             Rests == \A j \in Jobs : Quiet(j) => state'[j] \in {state[j], "ABSENT"}
  <1>1. ASSUME IInv, [Next]_vars PROVE Rests
    <2> SUFFICES ASSUME NEW j \in Jobs, Quiet(j) PROVE state'[j] \in {state[j], "ABSENT"}
      OBVIOUS
    <2>1. /\ state[j] \notin {"QUEUED", "ABSENT"} /\ \A w \in Workers : ~Works(w, j)
          /\ state \in [Jobs -> RowStates]
      BY <1>1 DEF Held, Terminal, IInv, TypeOK
    <2>2. ASSUME NEW w \in Workers, WorkerStep(w) PROVE state'[j] \in {state[j], "ABSENT"}
      <3>1. CASE Claim(w) \/ StartJob(w) \/ RecordJob(w)
        BY <3>1, <2>1 DEF Claim, StartJob, RecordJob, StillQueued, Write, Works, WorkPCs, NextJob,
                          EndTick, Goto
      <3>2. CASE CleanupDelete(w)
        BY <3>2 DEF CleanupDelete
      <3>3. CASE UNCHANGED state
        BY <3>3
      <3> QED
        BY <2>2, <3>1, <3>2, <3>3
           DEF WorkerStep, StartTick, FindQueued, OpenArtifact, CheckCancelled, EmitRow,
               StoreArtifact, CleanupList, CleanupRemove, row
    <2>3. ASSUME NEW c \in Callers, CallerStep(c) PROVE state'[j] \in {state[j], "ABSENT"}
      <3>1. CASE CreateJob(c)
        BY <3>1, <2>1, <1>1 DEF CreateJob, Write, IInv, Unborn, NotYetInserted
      <3>2. CASE CancelWrite(c) \/ RetryWrite(c)
        BY <3>2, <2>1 DEF CancelWrite, RetryWrite, Write, Asking, RetryPCs, row
      <3>3. CASE UNCHANGED state
        BY <3>3
      <3> QED
        BY <2>3, <3>1, <3>2, <3>3 DEF CallerStep, RetryCount, RetryRemove, row
    <2>4. CASE UNCHANGED state
      BY <2>4
    <2> QED
      BY <1>1, <2>2, <2>3, <2>4
         DEF Next, vars, row, RecordFails, CrashWorker, CreateCount, CrashCaller, CancelRead,
             RetryRead, ReadJob, DownloadExpired, Expire
  <1> QED
    BY <1>1, Inductive, PTL DEF Spec, FinishedRests
=============================================================================
