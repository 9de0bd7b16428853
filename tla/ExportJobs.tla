----------------------------- MODULE ExportJobs -----------------------------
(***************************************************************************)
(* Export jobs (src/modules/system): HTTP requests create, cancel, retry   *)
(* and download exports; the SystemExportScheduler of every server process *)
(* claims queued jobs, streams the rows into an artifact file and cleans   *)
(* expired jobs up.  The file name is derived from the job's uuid alone.   *)
(*                                                                         *)
(* Only claimQueued updates conditionally.  Every other update writes its  *)
(* fields whatever the row holds by then, and throws if the row is gone.   *)
(* The scheduler's tick has no catch: where it throws, its job is left as  *)
(* it is, and the tick (in practice its process) starts over.              *)
(***************************************************************************)
EXTENDS Naturals, FiniteSets

CONSTANTS
  Jobs, Workers, Callers,
  None,
  MaxConcurrent,   \* system.export.maxConcurrent
  MaxRows,         \* filters.limit
  MaxRequests,     \* bound: cancels and retries
  MaxCrashes       \* bound: processes that die and database errors

ASSUME ConstAssumption ==
  /\ {MaxConcurrent, MaxRows} \subseteq Nat \ {0}
  /\ {MaxRequests, MaxCrashes} \subseteq Nat
  /\ None \notin Jobs

VARIABLES
  state,      \* system_export_jobs.state; "ABSENT": not created, or deleted
  asked,      \* the jobs with cancel_requested
  path,       \* the jobs with an artifact_path
  expired,    \* the jobs whose expires_at has passed
  file,       \* the artifact in storage
  fresh,      \* uuids not drawn yet
  raced,      \* history: two retries of the job overlapped
  orphans,    \* history: jobs whose worker died on them
  requests, crashes,
  pc, job,    \* workers
  cpc, req    \* callers

row   == <<state, asked, path>>
world == <<expired, fresh>>
hist  == <<raced, orphans, requests, crashes>>
wkr   == <<pc, job>>
cllr  == <<cpc, req>>
vars  == <<row, world, file, hist, wkr, cllr>>

Terminal == {"SUCCEEDED", "FAILED", "CANCELLED"}
RowStates == {"ABSENT", "QUEUED", "RUNNING"} \cup Terminal
WorkPCs == {"start", "open", "check", "emit", "store", "record"}

Job == [j       : Jobs \cup {None},
        index   : 0..(MaxConcurrent - 1),     \* of the tick's loop
        emitted : 0..MaxRows,
        outcome : Terminal,
        listed  : SUBSET Jobs,                \* rows of listExpired
        files   : SUBSET Jobs]                \* their artifacts still to remove
NoJob == [j |-> None, index |-> 0, emitted |-> 0, outcome |-> "FAILED",
          listed |-> {}, files |-> {}]

Req == [j     : Jobs \cup {None},
        was   : RowStates,      \* row.state
        files : SUBSET Jobs]    \* row.artifactPath
NoReq == [j |-> None, was |-> "ABSENT", files |-> {}]

Init ==
  /\ state = [j \in Jobs |-> "ABSENT"]
  /\ asked = {} /\ path = {} /\ expired = {}
  /\ file = [j \in Jobs |-> "none"]
  /\ fresh = Jobs
  /\ raced = {} /\ orphans = {} /\ requests = 0 /\ crashes = 0
  /\ pc = [w \in Workers |-> "idle"]
  /\ job = [w \in Workers |-> NoJob]
  /\ cpc = [c \in Callers |-> "idle"]
  /\ req = [c \in Callers |-> NoReq]

Goto(w, l)  == pc' = [pc EXCEPT ![w] = l]
CGoto(c, l) == cpc' = [cpc EXCEPT ![c] = l]

Exists(j)   == state[j] # "ABSENT"
Works(w, j) == pc[w] \in WorkPCs /\ job[w].j = j
Held(j)     == \E w \in Workers : Works(w, j)
Asking(c, j, l) == req[c].j = j /\ cpc[c] \in l
RetryPCs == {"retryCount", "retryRemove", "retryWrite"}

Write(j, s) == state' = [state EXCEPT ![j] = s]

\* countRunning.
Full == Cardinality({j \in Jobs : state[j] = "RUNNING"}) >= MaxConcurrent

-----------------------------------------------------------------------------
(***************************************************************************)
(* SystemExportScheduler.tick.                                             *)
(***************************************************************************)
EndTick(w) ==
  /\ Goto(w, "idle")
  /\ job' = [job EXCEPT ![w] = NoJob]

\* Mutant: one turn of the loop too many.
NextJobOffByOne(w) ==
  LET i == job[w].index + 1 IN
  /\ job' = [job EXCEPT ![w] = [NoJob EXCEPT !.index = IF i <= MaxConcurrent THEN i ELSE 0]]
  /\ Goto(w, IF i <= MaxConcurrent THEN "find" ELSE "cleanup")

\* processQueued is done with a job: the next one, or the cleanup.
NextJob(w) ==
  LET i == job[w].index + 1 IN
  /\ job' = [job EXCEPT ![w] = [NoJob EXCEPT !.index = IF i < MaxConcurrent THEN i ELSE 0]]
  /\ Goto(w, IF i < MaxConcurrent THEN "find" ELSE "cleanup")

StartTick(w) ==
  /\ pc[w] = "idle"
  /\ Goto(w, "find")
  /\ UNCHANGED <<row, world, file, hist, job, cllr>>

\* Mutant: the comparison with expires_at is the wrong way round.
ClaimableExpired(j) == state[j] = "QUEUED" /\ j \in expired

Claimable(j) == state[j] = "QUEUED" /\ j \notin expired

\* claimQueued, findFirst.
FindQueued(w) ==
  /\ pc[w] = "find"
  /\ \/ \E j \in Jobs :
          /\ Claimable(j)
          /\ job' = [job EXCEPT ![w].j = j]
          /\ Goto(w, "claim")
     \/ /\ \A j \in Jobs : ~Claimable(j)
        /\ job' = [job EXCEPT ![w] = NoJob]
        /\ Goto(w, "cleanup")
  /\ UNCHANGED <<row, world, file, hist, cllr>>

\* Mutant: the UPDATE matches on the uuid alone.
StillQueuedAlways(j) == Exists(j)

\* The WHERE of claimQueued's updateMany.
StillQueued(j) == state[j] = "QUEUED"

Claim(w) ==
  LET j == job[w].j IN
  /\ pc[w] = "claim"
  /\ \/ /\ StillQueued(j)
        /\ Write(j, "RUNNING")
        /\ Goto(w, "start")
        /\ UNCHANGED job
     \/ /\ ~StillQueued(j)
        /\ job' = [job EXCEPT ![w] = NoJob]
        /\ Goto(w, "cleanup")
        /\ UNCHANGED state
  /\ UNCHANGED <<asked, path, world, file, hist, cllr>>

\* processJob, before its try.
StartJob(w) ==
  LET j == job[w].j IN
  /\ pc[w] = "start"
  /\ \/ Exists(j) /\ Write(j, "RUNNING") /\ Goto(w, "open") /\ UNCHANGED job
     \/ ~Exists(j) /\ EndTick(w) /\ UNCHANGED state
  /\ UNCHANGED <<asked, path, world, file, hist, cllr>>

\* putStream creates or truncates the file.
OpenArtifact(w) ==
  /\ pc[w] = "open"
  /\ file' = [file EXCEPT ![job[w].j] = "partial"]
  /\ Goto(w, "check")
  /\ UNCHANGED <<row, world, hist, job, cllr>>

\* Into the catch of processJob, with the state it will write.
Fail(w, s) ==
  /\ job' = [job EXCEPT ![w].outcome = s]
  /\ Goto(w, "record")

\* putStream removes the file of a stream that throws.
Unlink(j) == file' = [file EXCEPT ![j] = "none"]

\* throwIfCancelled, before each row.
CheckCancelled(w) ==
  LET j == job[w].j IN
  /\ pc[w] = "check"
  /\ \/ j \in asked /\ Fail(w, "CANCELLED") /\ Unlink(j)
     \/ j \notin asked /\ Goto(w, "emit") /\ UNCHANGED <<job, file>>
  /\ UNCHANGED <<row, world, hist, cllr>>

\* One row, or the end of the activity; any read or write may throw.
EmitRow(w) ==
  LET j == job[w].j
      n == job[w].emitted + 1 IN
  /\ pc[w] = "emit"
  /\ \/ /\ Exists(j)
        /\ job' = [job EXCEPT ![w].emitted = n]
        /\ Goto(w, IF n < MaxRows THEN "check" ELSE "store")
        /\ UNCHANGED file
     \/ Goto(w, "store") /\ UNCHANGED <<job, file>>
     \/ Fail(w, "FAILED") /\ Unlink(j)
  /\ UNCHANGED <<row, world, hist, cllr>>

\* Mutant: the oversized artifact is removed, the error not thrown.
OversizedStored(w) ==
  /\ Unlink(job[w].j)
  /\ job' = [job EXCEPT ![w].outcome = "SUCCEEDED"]
  /\ Goto(w, "record")

\* An artifact above maxArtifactBytes is removed.
Oversized(w) == Unlink(job[w].j) /\ Fail(w, "FAILED")

\* The file is closed; two writers of one file spoil it.
StoreArtifact(w) ==
  LET j == job[w].j IN
  /\ pc[w] = "store"
  /\ \/ /\ file' = [file EXCEPT ![j] =
             IF \E v \in Workers \ {w} : Works(v, j) THEN "partial" ELSE "complete"]
        /\ job' = [job EXCEPT ![w].outcome = "SUCCEEDED"]
        /\ Goto(w, "record")
     \/ Oversized(w)
  /\ UNCHANGED <<row, world, hist, cllr>>

\* Mutant: a cancelled job returns without its last update.
FinalStateForgotten(w) ==
  IF job[w].outcome = "CANCELLED" THEN state[job[w].j] ELSE job[w].outcome

FinalState(w) == job[w].outcome

\* The last update of processJob.  It does not touch cancel_requested.
RecordJob(w) ==
  LET j == job[w].j IN
  /\ pc[w] = "record"
  /\ \/ /\ Exists(j)
        /\ Write(j, FinalState(w))
        /\ path' = IF job[w].outcome = "SUCCEEDED" THEN path \cup {j} ELSE path
        /\ NextJob(w)
     \/ /\ ~Exists(j)
        /\ EndTick(w)
        /\ UNCHANGED <<state, path>>
  /\ UNCHANGED <<asked, world, file, hist, cllr>>

\* The update to SUCCEEDED fails: FAILED, and the file stays in storage.
RecordFails(w) ==
  /\ pc[w] = "record" /\ job[w].outcome = "SUCCEEDED"
  /\ crashes < MaxCrashes
  /\ crashes' = crashes + 1
  /\ Fail(w, "FAILED")
  /\ UNCHANGED <<row, world, file, raced, orphans, requests, cllr>>

\* cleanup: listExpired ...
CleanupList(w) ==
  LET rows == {j \in Jobs : state[j] \in Terminal /\ j \in expired} IN
  /\ pc[w] = "cleanup"
  /\ job' = [job EXCEPT ![w] = [NoJob EXCEPT !.listed = rows, !.files = rows \cap path]]
  /\ Goto(w, "remove")
  /\ UNCHANGED <<row, world, file, hist, cllr>>

\* ... then the artifacts one by one ...
CleanupRemove(w) ==
  /\ pc[w] = "remove"
  /\ \E j \in job[w].files :
       /\ Unlink(j)
       /\ job' = [job EXCEPT ![w].files = @ \ {j}]
  /\ UNCHANGED <<row, world, hist, pc, cllr>>

\* ... and deleteMany, by uuid alone.
CleanupDelete(w) ==
  /\ pc[w] = "remove" /\ job[w].files = {}
  /\ state' = [j \in Jobs |-> IF j \in job[w].listed THEN "ABSENT" ELSE state[j]]
  /\ asked' = asked \ job[w].listed
  /\ path' = path \ job[w].listed
  /\ EndTick(w)
  /\ UNCHANGED <<world, file, hist, cllr>>

CrashWorker(w) ==
  /\ pc[w] # "idle"
  /\ crashes < MaxCrashes
  /\ crashes' = crashes + 1
  /\ orphans' = IF pc[w] \in WorkPCs THEN orphans \cup {job[w].j} ELSE orphans
  /\ EndTick(w)
  /\ UNCHANGED <<row, world, file, raced, requests, cllr>>

-----------------------------------------------------------------------------
(***************************************************************************)
(* HTTP requests.                                                          *)
(***************************************************************************)
EndCall(c) ==
  /\ CGoto(c, "idle")
  /\ req' = [req EXCEPT ![c] = NoReq]

\* execute: countRunning ...
CreateCount(c) ==
  /\ cpc[c] = "idle" /\ ~Full
  /\ \E j \in fresh :
       /\ fresh' = fresh \ {j}
       /\ req' = [req EXCEPT ![c].j = j]
  /\ CGoto(c, "create")
  /\ UNCHANGED <<row, expired, file, hist, wkr>>

\* ... and, later, the insert.
CreateJob(c) ==
  /\ cpc[c] = "create"
  /\ Write(req[c].j, "QUEUED")
  /\ EndCall(c)
  /\ UNCHANGED <<asked, path, world, file, hist, wkr>>

\* cancel and retry read the job and check its state.
ReadJob(c, j, l) ==
  /\ cpc[c] = "idle" /\ requests < MaxRequests
  /\ requests' = requests + 1
  /\ req' = [req EXCEPT ![c] = [j |-> j, was |-> state[j], files |-> path \cap {j}]]
  /\ CGoto(c, l)
  /\ UNCHANGED <<row, world, file, orphans, crashes, wkr>>

CancelRead(c, j) ==
  /\ state[j] \in {"QUEUED", "RUNNING"}
  /\ ReadJob(c, j, "cancel")
  /\ UNCHANGED raced

\* What is written depends on the state that was read.
CancelWrite(c) ==
  LET j == req[c].j IN
  /\ cpc[c] = "cancel"
  /\ \/ Exists(j) /\ req[c].was = "QUEUED"
        /\ Write(j, "CANCELLED") /\ UNCHANGED asked
     \/ Exists(j) /\ req[c].was = "RUNNING"
        /\ asked' = asked \cup {j} /\ UNCHANGED state
     \/ ~Exists(j) /\ UNCHANGED <<state, asked>>
  /\ EndCall(c)
  /\ UNCHANGED <<path, world, file, hist, wkr>>

RetryRead(c, j) ==
  /\ state[j] = "FAILED"
  /\ ReadJob(c, j, "retryCount")
  /\ raced' = IF \E x \in Callers : Asking(x, j, RetryPCs) THEN raced \cup {j} ELSE raced

RetryCount(c) ==
  /\ cpc[c] = "retryCount"
  /\ \/ Full /\ EndCall(c)
     \/ ~Full /\ CGoto(c, "retryRemove") /\ UNCHANGED req
  /\ UNCHANGED <<row, world, file, hist, wkr>>

\* The artifact of the row that was read, if it named one.
RetryRemove(c) ==
  LET j == req[c].j IN
  /\ cpc[c] = "retryRemove"
  /\ IF j \in req[c].files THEN Unlink(j) ELSE UNCHANGED file
  /\ CGoto(c, "retryWrite")
  /\ UNCHANGED <<row, world, hist, wkr, req>>

RetryWrite(c) ==
  LET j == req[c].j IN
  /\ cpc[c] = "retryWrite"
  /\ \/ /\ Exists(j)
        /\ Write(j, "QUEUED")
        /\ asked' = asked \ {j}
        /\ path' = path \ {j}
     \/ ~Exists(j) /\ UNCHANGED row
  /\ EndCall(c)
  /\ UNCHANGED <<world, file, hist, wkr>>

\* download of an expired artifact removes it.
DownloadExpired(j) ==
  /\ state[j] = "SUCCEEDED" /\ j \in path /\ j \in expired
  /\ file[j] # "none"
  /\ Unlink(j)
  /\ UNCHANGED <<row, world, hist, wkr, cllr>>

CrashCaller(c) ==
  /\ cpc[c] # "idle"
  /\ crashes < MaxCrashes
  /\ crashes' = crashes + 1
  /\ EndCall(c)
  /\ UNCHANGED <<row, world, file, raced, orphans, requests, wkr>>

\* expires_at passes; it is set once, at creation.
Expire(j) ==
  /\ Exists(j) /\ j \notin expired
  /\ expired' = expired \cup {j}
  /\ UNCHANGED <<row, fresh, file, hist, wkr, cllr>>

WorkerStep(w) ==
  \/ StartTick(w) \/ FindQueued(w) \/ Claim(w) \/ StartJob(w)
  \/ OpenArtifact(w) \/ CheckCancelled(w) \/ EmitRow(w) \/ StoreArtifact(w)
  \/ RecordJob(w) \/ CleanupList(w) \/ CleanupRemove(w) \/ CleanupDelete(w)

CallerStep(c) ==
  \/ CreateJob(c) \/ CancelWrite(c)
  \/ RetryCount(c) \/ RetryRemove(c) \/ RetryWrite(c)

Next ==
  \/ \E w \in Workers : WorkerStep(w) \/ RecordFails(w) \/ CrashWorker(w)
  \/ \E c \in Callers : CreateCount(c) \/ CallerStep(c) \/ CrashCaller(c)
  \/ \E c \in Callers, j \in Jobs : CancelRead(c, j) \/ RetryRead(c, j)
  \/ \E j \in Jobs : DownloadExpired(j) \/ Expire(j)

Spec == Init /\ [][Next]_vars

\* The timer fires, and queries and storage answer.
FairSpec ==
  /\ Spec
  /\ \A w \in Workers : WF_vars(WorkerStep(w))
  /\ \A c \in Callers : WF_vars(CallerStep(c))

-----------------------------------------------------------------------------
(***************************************************************************)
(* Properties.                                                             *)
(***************************************************************************)

\* The rows and the local variables have the types of the schema and the code.
TypeOK ==
  /\ state \in [Jobs -> RowStates]
  /\ {asked, path, expired, fresh, raced, orphans} \subseteq SUBSET Jobs
  /\ file \in [Jobs -> {"none", "partial", "complete"}]
  /\ requests \in Nat /\ crashes \in Nat
  /\ pc \in [Workers -> {"idle", "find", "claim", "cleanup", "remove"} \cup WorkPCs]
  /\ job \in [Workers -> Job]
  /\ cpc \in [Callers -> {"idle", "create", "cancel"} \cup RetryPCs]
  /\ req \in [Callers -> Req]

\* The artifact's name is the job's uuid, so two workers on one job would write
\* one file.  claimQueued prevents it, also when a cancel overtakes the claim,
\* as long as no two retries of the job overlap.
OneWriter ==
  \A j \in Jobs \ raced : \A v, w \in Workers : Works(v, j) /\ Works(w, j) => v = w

\* download serves what processJob completed: while a job is SUCCEEDED and has
\* not expired, its whole artifact is in storage, although retries, cleanups
\* and expired downloads remove files and failed streams unlink theirs.
DownloadComplete ==
  \A j \in Jobs \ (raced \cup expired) :
    state[j] = "SUCCEEDED" => j \in path /\ file[j] = "complete"

\* One worker writes an artifact, and what can be downloaded is all of it.
ArtifactWhole == OneWriter /\ DownloadComplete

\* countRunning refuses new exports and retries by counting RUNNING rows.  A
\* RUNNING row has a worker, so the count falls again, unless the worker died.
RunningIsHeld ==
  \A j \in Jobs \ orphans : state[j] = "RUNNING" => Held(j)

\* A finished export stays as it is while no worker holds it and no request on
\* it is under way: the worker that found it queued before a cancel loses.
FinishedRests ==
  [][\A j \in Jobs :
       /\ state[j] \in Terminal
       /\ ~Held(j)
       /\ \A c \in Callers : ~Asking(c, j, {"cancel"} \cup RetryPCs)
       => state'[j] \in {state[j], "ABSENT"}]_vars

\* An export that was queued ends, unless it expires first or its worker dies.
EveryExportEnds ==
  \A j \in Jobs :
    (state[j] = "QUEUED") ~>
      (state[j] \in Terminal \cup {"ABSENT"} \/ j \in expired \cup orphans)
=============================================================================
