-------------------------- MODULE GoBenchAwayProofs --------------------------
(***************************************************************************)
(* The safety properties of GoBenchAway, for any jobs, workers, cancellers *)
(* and failures.  First the types, then the inductive invariant, process   *)
(* by process, then the properties that follow from it.                    *)
(***************************************************************************)
EXTENDS GoBenchAwayInvariant, TLAPS

USE NoWorkerAssumption, NoJobAssumption

(***************************************************************************)
(* Types.                                                                  *)
(***************************************************************************)

\* The copies and records the code builds from a record are records again.
LEMMA NewRecordsTyped ==
    /\ NoRecord \in JobRecords
    /\ NewJob \in JobRecords
    /\ NothingHeld \in HeldJobs
    /\ \A j \in Jobs : CreatedCopy(j) \in HeldJobs
BY DEF NoRecord, NewJob, NothingHeld, CreatedCopy, HeldJobs, JobRecords, JobStatus, Absent

LEMMA CopiesTyped ==
    ASSUME NEW job \in HeldJobs
    PROVE  /\ \A w \in Workers : Claim(w, job) \in HeldJobs
           /\ Claimed(job) \in HeldJobs
           /\ Denied(job) \in HeldJobs
           /\ \A s \in {"Succeeded", "Failed"} : Finished(job, s) \in HeldJobs
           /\ \A k \in ArtifactKinds : Referring(job, k) \in HeldJobs
           /\ UploadError(job) \in HeldJobs
           /\ CancelledCopy(job) \in HeldJobs
           /\ FailedCopy(job) \in HeldJobs
           /\ \A w \in Workers : Claim(w, job).id = job.id
           /\ Claimed(job).id = job.id
           /\ Denied(job).id = job.id
           /\ \A s \in {"Succeeded", "Failed"} : Finished(job, s).id = job.id
           /\ \A k \in ArtifactKinds : Referring(job, k).id = job.id
           /\ UploadError(job).id = job.id
           /\ CancelledCopy(job).id = job.id
           /\ FailedCopy(job).id = job.id
<1> USE DEF HeldJobs, JobRecords, JobStatus
<1>1. \A w \in Workers : Claim(w, job) \in HeldJobs
  BY DEF Claim, SetRunningStatus
<1>2. Claimed(job) \in HeldJobs
  BY DEF Claimed
<1>3. Denied(job) \in HeldJobs
  BY DEF Denied, SetFinalStatus
<1>4. \A s \in {"Succeeded", "Failed"} : Finished(job, s) \in HeldJobs
  BY DEF Finished, SetFinalStatus
<1>5. \A k \in ArtifactKinds : Referring(job, k) \in HeldJobs
  BY DEF Referring
<1>6. UploadError(job) \in HeldJobs
  BY DEF UploadError
<1>7. CancelledCopy(job) \in HeldJobs
  BY DEF CancelledCopy, SetFinalStatus
<1>8. FailedCopy(job) \in HeldJobs
  BY DEF FailedCopy, SetFinalStatus
<1>9. /\ \A w \in Workers : Claim(w, job).id = job.id
      /\ Claimed(job).id = job.id
      /\ Denied(job).id = job.id
      /\ \A s \in {"Succeeded", "Failed"} : Finished(job, s).id = job.id
      /\ \A k \in ArtifactKinds : Referring(job, k).id = job.id
      /\ UploadError(job).id = job.id
      /\ CancelledCopy(job).id = job.id
      /\ FailedCopy(job).id = job.id
  BY DEF Claim, Claimed, Denied, Finished, Referring, UploadError, CancelledCopy, FailedCopy
<1> QED
  BY <1>1, <1>2, <1>3, <1>4, <1>5, <1>6, <1>7, <1>8, <1>9

LEMMA LoadedTyped ==
    ASSUME RepoTypeOK, NEW j \in Jobs
    PROVE  Loaded(j) \in HeldJobs /\ Loaded(j).id = j
BY DEF RepoTypeOK, Loaded, HeldJobs

LEMMA PutTyped ==
    ASSUME RepoTypeOK, NEW job \in HeldJobs, Put(job)
    PROVE  RepoTypeOK'
<1>1. job.rec \in JobRecords
  BY DEF HeldJobs
<1>2. records' \in [Jobs -> JobRecords]
  BY <1>1 DEF Put, RepoTypeOK
<1>3. revisions' \in [Jobs -> Nat]
  <2>1. ASSUME NEW j \in Jobs PROVE revisions'[j] \in Nat
    BY DEF Put, RepoTypeOK
  <2> QED
    BY <2>1 DEF Put, RepoTypeOK
<1> QED
  BY <1>2, <1>3 DEF Put, RepoTypeOK

LEMMA UpdateTyped ==
    ASSUME RepoTypeOK, NEW job \in HeldJobs, UpdateJobOK(job) \/ UpdateJobFails(job)
    PROVE  RepoTypeOK'
<1>1. CASE Put(job)
  BY <1>1, PutTyped
<1>2. CASE UNCHANGED repoVars
  BY <1>2 DEF repoVars, RepoTypeOK
<1> QED
  BY <1>1, <1>2 DEF UpdateJobOK, UpdateJobFails

LEMMA StoreTyped ==
    ASSUME RepoTypeOK, NEW j \in Jobs, NEW k \in ArtifactKinds, NEW w \in Workers,
           StoreArtifact(j, k, w) \/ StoreArtifactFails(j, k, w)
    PROVE  RepoTypeOK'
BY DEF RepoTypeOK, StoreArtifact, StoreArtifactFails, repoVars

LEMMA QueueTyped ==
    ASSUME QueueTypeOK
    PROVE  /\ \A j \in Jobs : Publish(j) => QueueTypeOK' /\ Len(stream') = Len(stream) + 1
           /\ \A s \in DOMAIN stream :
                Deliver(s) \/ AckWaitExpires(s) => QueueTypeOK' /\ stream' = stream
           /\ \A s \in 0 .. Len(stream) : Ack(s) => QueueTypeOK' /\ stream' = stream
<1> USE DEF QueueTypeOK
<1>1. ASSUME NEW j \in Jobs, Publish(j) PROVE QueueTypeOK' /\ Len(stream') = Len(stream) + 1
  BY <1>1 DEF Publish
<1>2. ASSUME NEW s \in DOMAIN stream, Redeliver(s) PROVE QueueTypeOK' /\ stream' = stream
  BY <1>2 DEF Redeliver
<1>3. ASSUME NEW s \in DOMAIN stream, DeliverNext(s) PROVE QueueTypeOK' /\ stream' = stream
  BY <1>3 DEF DeliverNext
<1>4. ASSUME NEW s \in DOMAIN stream, AckWaitExpires(s) PROVE QueueTypeOK' /\ stream' = stream
  BY <1>4 DEF AckWaitExpires
<1>5. ASSUME NEW s \in 0 .. Len(stream), Ack(s) PROVE QueueTypeOK' /\ stream' = stream
  BY <1>5 DEF Ack
<1> QED
  BY <1>1, <1>2, <1>3, <1>4, <1>5 DEF Deliver

LEMMA SubmitTyped ==
    ASSUME TypeOK, NEW j \in Jobs, SubmitNext(j)
    PROVE  TypeOK'
<1> USE DEF TypeOK
<1>1. CancelTypeOK' /\ FailStaleTypeOK'
  BY DEF SubmitNext, cancelVars, failStaleVars, CancelTypeOK, FailStaleTypeOK
<1>2. SubmitTypeOK'
  BY DEF SubmitNext, CreateRecord, PublishJob, SubmitCrash, SubmitTypeOK, SubmissionStates
<1>3. CASE CreateRecord(j)
  <2>1. RepoTypeOK'
    BY <1>3, NewRecordsTyped, UpdateTyped DEF CreateRecord
  <2>2. QueueTypeOK' /\ WorkerTypeOK'
    BY <1>3 DEF SubmitNext, CreateRecord, queueVars, workerVars, QueueTypeOK, WorkerTypeOK
  <2> QED
    BY <1>1, <1>2, <2>1, <2>2
<1>4. CASE PublishJob(j)
  <2>1. QueueTypeOK' /\ Len(stream') >= Len(stream)
    <3>1. CASE Publish(j)
      BY <3>1, QueueTyped DEF QueueTypeOK
    <3>2. CASE UNCHANGED queueVars
      BY <3>2 DEF queueVars, QueueTypeOK
    <3> QED
      BY <1>4, <3>1, <3>2 DEF PublishJob
  <2>2. RepoTypeOK'
    BY <1>4 DEF PublishJob, repoVars, RepoTypeOK
  <2>3. WorkerTypeOK'
    BY <2>1 DEF SubmitNext, workerVars, WorkerTypeOK, QueueTypeOK
  <2> QED
    BY <1>1, <1>2, <2>1, <2>2, <2>3
<1>5. CASE SubmitCrash(j)
  BY <1>1, <1>2, <1>5 DEF SubmitNext, SubmitCrash, repoVars, queueVars, workerVars,
     RepoTypeOK, QueueTypeOK, WorkerTypeOK
<1> QED
  BY <1>3, <1>4, <1>5 DEF SubmitNext

LEMMA CancelTyped ==
    ASSUME TypeOK, NEW c \in Cancellers, CancelNext(c)
    PROVE  TypeOK'
<1> USE DEF TypeOK
<1>1. QueueTypeOK' /\ SubmitTypeOK' /\ WorkerTypeOK' /\ FailStaleTypeOK'
  BY DEF CancelNext, queueVars, submitVars, workerVars, failStaleVars, QueueTypeOK,
     SubmitTypeOK, WorkerTypeOK, FailStaleTypeOK
<1>2. CASE CancelUpdate(c)
  <2>1. cjob[c] \in HeldJobs
    BY DEF CancelTypeOK
  <2>2. RepoTypeOK'
    BY <1>2, <2>1, UpdateTyped DEF CancelUpdate
  <2>3. cancelled' \subseteq Jobs
    BY <1>2 DEF CancelUpdate, CancelTypeOK
  <2>4. CancelTypeOK'
    BY <1>2, <2>3, NewRecordsTyped DEF CancelUpdate, CancelTypeOK
  <2> QED
    BY <1>1, <2>2, <2>4
<1>3. ASSUME NEW j \in Jobs, CancelLoad(c, j) PROVE TypeOK'
  <2>1. CancelledCopy(Loaded(j)) \in HeldJobs /\ CancelledCopy(Loaded(j)).id = j
    BY LoadedTyped, CopiesTyped
  <2>2. CancelTypeOK' /\ RepoTypeOK'
    BY <1>3, <2>1 DEF CancelLoad, CancelTypeOK, RepoTypeOK, repoVars
  <2> QED
    BY <1>1, <2>2
<1> QED
  BY <1>2, <1>3 DEF CancelNext

LEMMA FailStaleTyped ==
    ASSUME TypeOK, FailStaleNext \/ \E j \in Jobs : TimeNext(j)
    PROVE  TypeOK'
<1> USE DEF TypeOK
<1>1. QueueTypeOK' /\ SubmitTypeOK' /\ WorkerTypeOK' /\ CancelTypeOK'
  BY DEF FailStaleNext, TimeNext, queueVars, submitVars, workerVars, cancelVars, QueueTypeOK,
     SubmitTypeOK, WorkerTypeOK, CancelTypeOK
<1>2. CASE BeginScan \/ EndScan \/ EndFailStale \/ \E j \in Jobs : ReadEntry(j) \/ TimeNext(j)
  BY <1>1, <1>2 DEF BeginScan, EndScan, EndFailStale, ReadEntry, TimeNext, TimeoutElapses,
     repoVars, RepoTypeOK, FailStaleTypeOK
<1>3. ASSUME NEW j \in Jobs, FailLoad(j) PROVE TypeOK'
  <2>1. FailedCopy(Loaded(j)) \in HeldJobs /\ FailedCopy(Loaded(j)).id = j
    BY LoadedTyped, CopiesTyped
  <2>2. FailStaleTypeOK' /\ RepoTypeOK'
    BY <1>3, <2>1 DEF FailLoad, FailStaleTypeOK, RepoTypeOK, repoVars
  <2> QED
    BY <1>1, <2>2
<1>4. CASE FailUpdate
  <2>1. RepoTypeOK'
    BY <1>4, UpdateTyped DEF FailUpdate, FailStaleTypeOK
  <2>2. FailStaleTypeOK'
    BY <1>4, NewRecordsTyped DEF FailUpdate, FailStaleTypeOK
  <2> QED
    BY <1>1, <2>1, <2>2
<1> QED
  BY <1>2, <1>3, <1>4 DEF FailStaleNext, FailStaleStep

LEMMA WorkerTyped ==
    ASSUME TypeOK, NEW w \in Workers, WorkerNext(w)
    PROVE  TypeOK'
<1> USE DEF TypeOK
<1>1. SubmitTypeOK' /\ CancelTypeOK' /\ FailStaleTypeOK'
  BY DEF WorkerNext, submitVars, cancelVars, failStaleVars, SubmitTypeOK, CancelTypeOK,
     FailStaleTypeOK
<1>2. wjob[w] \in HeldJobs /\ wmsg[w] \in 0 .. Len(stream)
  BY DEF WorkerTypeOK
<1>3. CASE FetchMessage(w)
  <2>1. PICK s \in DOMAIN stream : Deliver(s) /\ wmsg' = [wmsg EXCEPT ![w] = s]
    BY <1>3 DEF FetchMessage
  <2>2. QueueTypeOK' /\ stream' = stream /\ s \in 1 .. Len(stream)
    BY <2>1, QueueTyped DEF QueueTypeOK
  <2>3. RepoTypeOK'
    BY <1>3 DEF FetchMessage, repoVars, RepoTypeOK
  <2>4. WorkerTypeOK'
    BY <1>3, <2>1, <2>2 DEF FetchMessage, Goto, WorkerTypeOK, WorkerStates
  <2> QED
    BY <1>1, <2>2, <2>3, <2>4
<1>4. CASE LoadMessageJob(w)
  <2> DEFINE j == stream[wmsg[w]]
  <2>1. j \in Jobs
    BY <1>2, <1>4 DEF LoadMessageJob, WorkerTypeOK, QueueTypeOK
  <2>2. Claim(w, Loaded(j)) \in HeldJobs /\ Claim(w, Loaded(j)).id = j
    BY <2>1, LoadedTyped, CopiesTyped
  <2>3. RepoTypeOK' /\ QueueTypeOK' /\ stream' = stream
    BY <1>4 DEF LoadMessageJob, repoVars, queueVars, RepoTypeOK, QueueTypeOK
  <2>4. WorkerTypeOK'
    BY <1>4, <2>1, <2>2, <2>3 DEF LoadMessageJob, Goto, Hold, Abandon, WorkerTypeOK, WorkerStates
  <2> QED
    BY <1>1, <2>3, <2>4
<1>5. CASE ClaimJob(w)
  <2> DEFINE job == wjob[w]
  <2>1. job.id \in Jobs
    BY <1>5 DEF ClaimJob, WorkerTypeOK
  <2>2. /\ Claimed(job) \in HeldJobs /\ Claimed(job).id = job.id
        /\ Denied(Claimed(job)) \in HeldJobs /\ Denied(Claimed(job)).id = job.id
    BY <1>2, CopiesTyped
  <2>3. RepoTypeOK' /\ QueueTypeOK' /\ stream' = stream
    BY <1>2, <1>5, UpdateTyped DEF ClaimJob, queueVars, QueueTypeOK
  <2>4. WorkerTypeOK'
    BY <1>5, <2>1, <2>2, <2>3 DEF ClaimJob, Goto, Hold, LetGo, Abandon, WorkerTypeOK, WorkerStates
  <2> QED
    BY <1>1, <2>3, <2>4
<1>6. CASE LaunchScript(w) \/ ScriptExits(w)
  <2> DEFINE job == wjob[w]
  <2>1. \A s \in {"Succeeded", "Failed"} :
            Finished(job, s) \in HeldJobs /\ Finished(job, s).id = job.id
    BY <1>2, CopiesTyped
  <2>2. RepoTypeOK' /\ QueueTypeOK' /\ stream' = stream
    BY <1>6 DEF LaunchScript, ScriptExits, repoVars, queueVars, RepoTypeOK, QueueTypeOK
  <2>3. executions' \in [Jobs -> Nat]
    BY <1>6 DEF LaunchScript, ScriptExits, WorkerTypeOK
  <2>4. WorkerTypeOK'
    BY <1>6, <2>1, <2>2, <2>3 DEF LaunchScript, ScriptExits, Goto, Hold, WorkerTypeOK,
       WorkerStates, Uploading
  <2> QED
    BY <1>1, <2>2, <2>4
<1>7. ASSUME NEW kind \in ArtifactKinds, UploadArtifact(w, kind) PROVE TypeOK'
  <2> DEFINE job == wjob[w]
  <2>1. job.id \in Jobs
    BY <1>7 DEF UploadArtifact, WorkerTypeOK, ArtifactKinds
  <2>2. /\ Referring(job, kind) \in HeldJobs /\ Referring(job, kind).id = job.id
        /\ UploadError(job) \in HeldJobs /\ UploadError(job).id = job.id
    BY <1>2, CopiesTyped
  <2>3. RepoTypeOK' /\ QueueTypeOK' /\ stream' = stream
    BY <1>7, <2>1, StoreTyped DEF UploadArtifact, queueVars, QueueTypeOK
  <2>4. AfterUpload(kind) \in {"results", "script", "finish"}
    BY DEF AfterUpload, ArtifactKinds
  <2>5. WorkerTypeOK'
    BY <1>7, <2>1, <2>2, <2>3, <2>4 DEF UploadArtifact, Goto, Hold, WorkerTypeOK, WorkerStates,
       Uploading, ArtifactKinds
  <2> QED
    BY <1>1, <2>3, <2>5
<1>8. CASE FinishJob(w)
  <2>1. wjob[w].id \in Jobs
    BY <1>8 DEF FinishJob, WorkerTypeOK
  <2>2. RepoTypeOK' /\ QueueTypeOK' /\ stream' = stream
    BY <1>2, <1>8, UpdateTyped DEF FinishJob, queueVars, QueueTypeOK
  <2>3. WorkerTypeOK'
    BY <1>8, <2>1, <2>2 DEF FinishJob, Goto, LetGo, Abandon, WorkerTypeOK, WorkerStates
  <2> QED
    BY <1>1, <2>2, <2>3
<1>9. CASE AckMessage(w)
  <2>1. RepoTypeOK' /\ QueueTypeOK' /\ stream' = stream
    BY <1>2, <1>9, QueueTyped DEF AckMessage, repoVars, queueVars, RepoTypeOK, QueueTypeOK
  <2>2. WorkerTypeOK'
    BY <1>9, <2>1, NewRecordsTyped DEF AckMessage, BackToFetch, Goto, Hold, WorkerTypeOK,
       WorkerStates
  <2> QED
    BY <1>1, <2>1, <2>2
<1> QED
  BY <1>3, <1>4, <1>5, <1>6, <1>7, <1>8, <1>9 DEF WorkerNext, WorkerStep

LEMMA WorkerFailureTyped ==
    ASSUME TypeOK, WorkerFailure
    PROVE  TypeOK'
<1> USE DEF TypeOK
<1>1. SubmitTypeOK' /\ CancelTypeOK' /\ FailStaleTypeOK'
  BY DEF WorkerFailure, submitVars, cancelVars, failStaleVars, SubmitTypeOK, CancelTypeOK,
     FailStaleTypeOK
<1>2. CASE LoseDelivery
  <2>1. QueueTypeOK' /\ stream' = stream
    BY <1>2, QueueTyped DEF LoseDelivery
  <2> QED
    BY <1>1, <1>2, <2>1 DEF LoseDelivery, repoVars, workerVars, RepoTypeOK, WorkerTypeOK
<1>3. ASSUME NEW w \in Workers, CrashWorker(w) PROVE TypeOK'
  <2>1. RepoTypeOK' /\ QueueTypeOK' /\ stream' = stream
    BY <1>3 DEF CrashWorker, repoVars, queueVars, RepoTypeOK, QueueTypeOK
  <2>2. abandoned' \subseteq Jobs
    BY <1>3 DEF CrashWorker, Abandon, AtWork, Uploading, WorkerTypeOK
  <2>3. WorkerTypeOK'
    BY <1>3, <2>1, <2>2, NewRecordsTyped DEF CrashWorker, BackToFetch, Goto, Hold, WorkerTypeOK,
       WorkerStates
  <2> QED
    BY <1>1, <2>1, <2>3
<1> QED
  BY <1>2, <1>3 DEF WorkerFailure

LEMMA InitTyped == ASSUME Init PROVE TypeOK
BY NewRecordsTyped DEF Init, RepoInit, QueueInit, SubmitInit, WorkerInit, CancelInit, FailStaleInit,
   TypeOK, RepoTypeOK, QueueTypeOK, SubmitTypeOK, SubmissionStates, WorkerTypeOK, WorkerStates,
   CancelTypeOK, FailStaleTypeOK

LEMMA NextTyped == ASSUME TypeOK, [Next]_vars PROVE TypeOK'
<1>1. ASSUME NEW s \in DOMAIN stream, QueueNext(s) PROVE TypeOK'
  BY <1>1, QueueTyped DEF TypeOK, QueueNext, repoVars, submitVars, workerVars, cancelVars,
     failStaleVars, RepoTypeOK, SubmitTypeOK, WorkerTypeOK, CancelTypeOK, FailStaleTypeOK
<1>2. CASE UNCHANGED vars
  BY <1>2 DEF vars, TypeOK, repoVars, queueVars, submitVars, workerVars, cancelVars,
     failStaleVars, RepoTypeOK, QueueTypeOK, SubmitTypeOK, WorkerTypeOK, CancelTypeOK, FailStaleTypeOK
<1> QED
  BY <1>1, <1>2, SubmitTyped, WorkerTyped, WorkerFailureTyped, CancelTyped, FailStaleTyped DEF Next

\* Every variable keeps its type, and a worker has a message in hand exactly
\* when it is not waiting for one: no path of the dispatch loop keeps one back.
THEOREM TypeCorrect == Spec => []TypeOK
<1>1. Init => TypeOK
  BY InitTyped
<1>2. TypeOK /\ [Next]_vars => TypeOK'
  BY NextTyped
<1> QED
  BY <1>1, <1>2, PTL DEF Spec

(***************************************************************************)
(* What any write of a record does.  Writable names the copies the code    *)
(* writes, by the revision they were loaded at; Evolves is what a step may *)
(* do to the records, whoever takes it.                                    *)
(***************************************************************************)
Writable(job) ==
    /\ job.id \in Jobs
    /\ job.rev \in 0 .. 2
    /\ job.rev = 0 => job.rec.status = "Submitted"
    /\ job.rev = 1 => job.rec.status \in {"Running", "Cancelled"}
    /\ job.rev <= 1 => job.rec.artifacts = {}
    /\ job.rev = 2 =>
        /\ job.rec.status \in {"Failed", "Succeeded"}
        /\ records[job.id].status # "Cancelled"
        /\ records[job.id].worker = job.rec.worker
    /\ job.rec.status = "Succeeded" =>
        job.rec.artifacts = ArtifactKinds /\ executions[job.id] = 1
    /\ \A k \in job.rec.artifacts :
        job.rec.worker # NoWorker /\ artifacts[job.id][k] = job.rec.worker

Evolves ==
    \A j \in Jobs :
        /\ revisions'[j] \in Nat
        /\ revisions'[j] >= revisions[j]
        /\ IsCompleted(records[j]) => records'[j] = records[j]
        /\ revisions[j] >= 2 /\ records[j].status # "Cancelled" =>
            records'[j].status # "Cancelled" /\ records'[j].worker = records[j].worker
        /\ records'[j].status = "Cancelled" =>
            records[j].status = "Cancelled" \/ revisions[j] <= 1
        /\ records'[j].status = "Succeeded" =>
            records[j].status = "Succeeded" \/ executions[j] = 1

LEMMA PutKeepsRecords ==
    ASSUME RepoTypeOK, RecordsInv, NEW job \in HeldJobs, Writable(job), Put(job)
    PROVE  RecordsInv' /\ Evolves
<1> USE DEF RepoTypeOK
<1>1. /\ job.id \in Jobs
      /\ revisions[job.id] = job.rev
      /\ records'[job.id] = job.rec
      /\ revisions'[job.id] = job.rev + 1
      /\ artifacts' = artifacts
  BY DEF Writable, Put, RevisionMatches
<1>2. \A j \in Jobs : j # job.id => records'[j] = records[j] /\ revisions'[j] = revisions[j]
  BY DEF Put
<1>3. RevisionTellsStatus'
  <2>1. job.rec.status \in JobStatus \union {Absent}
    BY DEF HeldJobs, JobRecords
  <2> QED
    BY <1>1, <1>2, <2>1 DEF RecordsInv, RevisionTellsStatus, Writable, JobStatus, Absent
<1>4. NoArtifactsBefore'
  BY <1>1, <1>2 DEF RecordsInv, NoArtifactsBefore, Writable
<1>5. ArtifactsBacked'
  BY <1>1, <1>2 DEF RecordsInv, ArtifactsBacked, Writable
<1>6. Evolves
  BY <1>1, <1>2 DEF RecordsInv, RevisionTellsStatus, Writable, Evolves, IsCompleted
<1> QED
  BY <1>3, <1>4, <1>5, <1>6 DEF RecordsInv

LEMMA StillRecords ==
    ASSUME RepoTypeOK, RecordsInv, UNCHANGED <<records, revisions, artifacts>>
    PROVE  RecordsInv' /\ Evolves
<1>1. RecordsInv'
  BY DEF RecordsInv, RevisionTellsStatus, NoArtifactsBefore, ArtifactsBacked
<1>2. Evolves
  BY DEF Evolves, RepoTypeOK
<1> QED
  BY <1>1, <1>2

LEMMA UpdateKeepsRecords ==
    ASSUME RepoTypeOK, RecordsInv, NEW job \in HeldJobs, Writable(job),
           UpdateJobOK(job) \/ UpdateJobFails(job)
    PROVE  /\ RecordsInv'
           /\ Evolves
           /\ artifacts' = artifacts
           /\ \A j \in Jobs : records'[j] = records[j] \/ (j = job.id /\ records'[j] = job.rec)
<1>1. CASE Put(job)
  BY <1>1, PutKeepsRecords DEF Put, RepoTypeOK, Writable
<1>2. CASE UNCHANGED repoVars
  BY <1>2, StillRecords DEF repoVars
<1> QED
  BY <1>1, <1>2 DEF UpdateJobOK, UpdateJobFails

(***************************************************************************)
(* What the processes that do not take a step keep.                        *)
(***************************************************************************)
LEMMA WorkerCopyKept ==
    ASSUME TypeOK, Evolves, NEW w \in Workers, WorkerCopy(w),
           wpc'[w] = wpc[w], wjob'[w] = wjob[w],
           AtWork(w) => executions'[wjob[w].id] = executions[wjob[w].id],
           AtWork(w) => \A k \in wjob[w].rec.artifacts :
               artifacts'[wjob[w].id][k] = artifacts[wjob[w].id][k]
    PROVE  WorkerCopy(w)'
<1>1. RepoTypeOK
  BY DEF TypeOK
<1>2. ASSUME wjob[w].id \in Jobs, revisions[wjob[w].id] >= 1
      PROVE  /\ revisions'[wjob[w].id] \in Nat
             /\ revisions'[wjob[w].id] >= revisions[wjob[w].id]
  BY <1>2 DEF Evolves
<1> QED
  BY <1>1, <1>2 DEF WorkerCopy, ClaimingCopy, WorkingCopy, AtWork, Evolves, RefersTo, RepoTypeOK

LEMMA FailStaleCopyKept ==
    ASSUME TypeOK, Evolves, FailStaleCopy, UNCHANGED <<stale, fjob, overdue>>
    PROVE  FailStaleCopy'
BY DEF TypeOK, RepoTypeOK, FailStaleTypeOK, Evolves, FailStaleCopy

LEMMA RunsOnceKept ==
    ASSUME TypeOK, Evolves, RunsOnce, UNCHANGED executions
    PROVE  RunsOnce'
BY DEF TypeOK, RepoTypeOK, Evolves, RunsOnce

LEMMA CancelledStaysKept ==
    ASSUME TypeOK, Evolves, CancelledStays, UNCHANGED cancelled
    PROVE  CancelledStays'
BY DEF TypeOK, CancelTypeOK, Evolves, CancelledStays, IsCompleted

(***************************************************************************)
(* The inductive invariant, process by process.                            *)
(***************************************************************************)
LEMMA QuietKeeps ==
    ASSUME IInv, TypeOK',
           UNCHANGED <<records, revisions, artifacts, wpc, wjob, executions, abandoned>>,
           UNCHANGED <<cjob, cancelled, fjob>>,
           stale' \subseteq overdue', overdue \subseteq overdue'
    PROVE  IInv' /\ Evolves
<1> USE DEF IInv
<1>1. RecordsInv' /\ Evolves
  BY StillRecords DEF TypeOK
<1>2. WorkerCopies'
  BY <1>1, WorkerCopyKept DEF WorkerCopies
<1>3. CancellerCopies'
  BY DEF CancellerCopies
<1>4. FailStaleCopy'
  BY DEF FailStaleCopy
<1>5. RunsOnce' /\ CancelledStays'
  BY <1>1, RunsOnceKept, CancelledStaysKept
<1>6. RunningIsAttended'
  BY DEF RunningIsAttended, WorksOn, AtWork
<1> QED
  BY <1>1, <1>2, <1>3, <1>4, <1>5, <1>6

LEMMA SubmitKeeps ==
    ASSUME IInv, TypeOK', NEW j \in Jobs, SubmitNext(j)
    PROVE  IInv' /\ Evolves
<1> USE DEF IInv
<1>1. UNCHANGED <<workerVars, cancelVars, failStaleVars>>
  BY DEF SubmitNext
<1>2. CASE CreateRecord(j)
  <2> DEFINE job == CreatedCopy(j)
  <2>1. job \in HeldJobs /\ Writable(job)
    BY NewRecordsTyped DEF CreatedCopy, NewJob, NoRecord, Writable
  <2>2. /\ RecordsInv' /\ Evolves /\ artifacts' = artifacts
        /\ \A i \in Jobs : records'[i] = records[i] \/ (i = job.id /\ records'[i] = job.rec)
    BY <1>2, <2>1, UpdateKeepsRecords DEF CreateRecord, TypeOK
  <2>3. WorkerCopies'
    BY <1>1, <2>2, WorkerCopyKept DEF WorkerCopies, workerVars
  <2>4. CancellerCopies' /\ FailStaleCopy'
    BY <1>1, <2>2, FailStaleCopyKept DEF CancellerCopies, cancelVars, failStaleVars
  <2>5. RunsOnce' /\ CancelledStays'
    BY <1>1, <2>2, RunsOnceKept, CancelledStaysKept DEF workerVars, cancelVars
  <2>6. job.rec.status = "Submitted"
    BY DEF CreatedCopy, NewJob, NoRecord
  <2>7. RunningIsAttended'
    BY <1>1, <2>2, <2>6 DEF RunningIsAttended, WorksOn, AtWork, workerVars
  <2> QED
    BY <2>2, <2>3, <2>4, <2>5, <2>7
<1>3. CASE PublishJob(j) \/ SubmitCrash(j)
  BY <1>1, <1>3, QuietKeeps DEF PublishJob, SubmitCrash, repoVars, workerVars, cancelVars,
     failStaleVars, FailStaleCopy
<1> QED
  BY <1>2, <1>3 DEF SubmitNext

LEMMA CancelKeeps ==
    ASSUME IInv, TypeOK', NEW c \in Cancellers, CancelNext(c)
    PROVE  IInv' /\ Evolves
<1> USE DEF IInv
<1>1. UNCHANGED <<queueVars, submitVars, workerVars, failStaleVars>>
  BY DEF CancelNext
<1>2. CASE CancelUpdate(c)
  <2> DEFINE job == cjob[c]
  <2>1. /\ job \in HeldJobs
        /\ job # NothingHeld
        /\ job.rev = 1 /\ job.rec.status = "Cancelled"
        /\ Writable(job)
    BY <1>2 DEF CancelUpdate, CancellerCopies, TypeOK, CancelTypeOK, Writable
  <2>2. /\ RecordsInv' /\ Evolves /\ artifacts' = artifacts
        /\ \A i \in Jobs : records'[i] = records[i] \/ (i = job.id /\ records'[i] = job.rec)
    BY <1>2, <2>1, UpdateKeepsRecords DEF CancelUpdate, TypeOK
  <2>3. WorkerCopies'
    BY <1>1, <2>2, WorkerCopyKept DEF WorkerCopies, workerVars
  <2>4. CancellerCopies'
    BY <1>2 DEF CancelUpdate, CancellerCopies, TypeOK, CancelTypeOK
  <2>5. FailStaleCopy' /\ RunsOnce'
    BY <1>1, <2>2, FailStaleCopyKept, RunsOnceKept DEF failStaleVars, workerVars
  <2>6. CancelledStays'
    <3>1. CASE UNCHANGED cancelled
      BY <2>2, <3>1, CancelledStaysKept
    <3>2. CASE UpdateJobOK(job) /\ cancelled' = cancelled \union {job.id}
      <4>1. records'[job.id].status = "Cancelled"
        BY <2>1, <3>2 DEF UpdateJobOK, Put, TypeOK, RepoTypeOK, Writable
      <4>2. \A i \in cancelled : records'[i].status = "Cancelled"
        BY <2>2 DEF CancelledStays, Evolves, IsCompleted, TypeOK, CancelTypeOK
      <4> QED
        BY <3>2, <4>1, <4>2 DEF CancelledStays
    <3> QED
      BY <1>2, <3>1, <3>2 DEF CancelUpdate
  <2>7. RunningIsAttended'
    BY <1>1, <2>1, <2>2 DEF RunningIsAttended, WorksOn, AtWork, workerVars
  <2> QED
    BY <2>2, <2>3, <2>4, <2>5, <2>6, <2>7
<1>3. ASSUME NEW j \in Jobs, CancelLoad(c, j) PROVE IInv' /\ Evolves
  <2>1. RecordsInv' /\ Evolves
    BY <1>3, StillRecords DEF CancelLoad, repoVars, TypeOK
  <2>2. WorkerCopies'
    BY <1>1, <1>3, <2>1, WorkerCopyKept DEF CancelLoad, repoVars, WorkerCopies, workerVars
  <2>3. CancellerCopies'
    <3> DEFINE job == CancelledCopy(Loaded(j))
    <3>1. revisions[j] = 1 /\ records[j].artifacts = {}
      BY <1>3 DEF CancelLoad, CanCancel, Loaded, RecordsInv, RevisionTellsStatus,
         NoArtifactsBefore, TypeOK, RepoTypeOK
    <3>2. job.id = j /\ job.rev = 1 /\ job.rec.status = "Cancelled" /\ job.rec.artifacts = {}
      BY <3>1 DEF CancelledCopy, SetFinalStatus, Loaded, TypeOK, RepoTypeOK, JobRecords
    <3> QED
      BY <1>3, <3>2 DEF CancelLoad, CancellerCopies, TypeOK, CancelTypeOK
  <2>4. FailStaleCopy' /\ RunsOnce' /\ CancelledStays'
    BY <1>1, <1>3, <2>1, FailStaleCopyKept, RunsOnceKept, CancelledStaysKept
       DEF CancelLoad, failStaleVars, workerVars
  <2>5. RunningIsAttended'
    BY <1>1, <1>3 DEF CancelLoad, repoVars, RunningIsAttended, WorksOn, AtWork, workerVars
  <2> QED
    BY <2>1, <2>2, <2>3, <2>4, <2>5
<1> QED
  BY <1>2, <1>3 DEF CancelNext

LEMMA FailStaleKeeps ==
    ASSUME IInv, TypeOK', FailStaleNext \/ \E j \in Jobs : TimeNext(j)
    PROVE  IInv' /\ Evolves
<1> USE DEF IInv
<1>1. UNCHANGED <<queueVars, submitVars, workerVars, cancelVars>>
  BY DEF FailStaleNext, TimeNext
<1>2. CASE BeginScan \/ EndScan \/ EndFailStale \/ \E j \in Jobs : ReadEntry(j) \/ TimeNext(j)
  <2>1. /\ UNCHANGED <<records, revisions, artifacts, fjob>>
        /\ stale' \subseteq overdue' /\ overdue \subseteq overdue'
    BY <1>2 DEF BeginScan, EndScan, EndFailStale, ReadEntry, TimeNext, TimeoutElapses, IsStale,
       repoVars, FailStaleCopy
  <2> QED
    BY <1>1, <2>1, QuietKeeps DEF workerVars, cancelVars
<1>3. ASSUME NEW j \in Jobs, FailLoad(j) PROVE IInv' /\ Evolves
  <2>1. RecordsInv' /\ Evolves
    BY <1>3, StillRecords DEF FailLoad, repoVars, TypeOK
  <2>2. WorkerCopies'
    BY <1>1, <1>3, <2>1, WorkerCopyKept DEF FailLoad, repoVars, WorkerCopies, workerVars
  <2>3. CancellerCopies' /\ RunsOnce' /\ CancelledStays'
    BY <1>1, <2>1, RunsOnceKept, CancelledStaysKept DEF CancellerCopies, cancelVars, workerVars
  <2>4. FailStaleCopy'
    <3> DEFINE job == FailedCopy(Loaded(j))
    <3>1. CASE UNCHANGED fjob
      BY <1>3, <3>1 DEF FailLoad, repoVars, FailStaleCopy
    <3>2. CASE StillRunning(Loaded(j)) /\ fjob' = job
      <4>1. revisions[j] = 2 /\ records[j].artifacts = {} /\ records[j].status = "Running"
        BY <3>2 DEF StillRunning, Loaded, RecordsInv, RevisionTellsStatus, NoArtifactsBefore,
           TypeOK, RepoTypeOK
      <4>2. /\ job.id = j /\ job.rev = 2 /\ job.rec.status = "Failed" /\ job.rec.artifacts = {}
            /\ job.rec.worker = records[j].worker
        BY <4>1 DEF FailedCopy, SetFinalStatus, Loaded, TypeOK, RepoTypeOK, JobRecords
      <4> QED
        BY <1>3, <3>2, <4>1, <4>2 DEF FailLoad, repoVars, FailStaleCopy
    <3> QED
      BY <1>3, <3>1, <3>2 DEF FailLoad
  <2>5. RunningIsAttended'
    BY <1>1, <1>3 DEF FailLoad, repoVars, RunningIsAttended, WorksOn, AtWork, workerVars
  <2> QED
    BY <2>1, <2>2, <2>3, <2>4, <2>5
<1>4. CASE FailUpdate
  <2>1. fjob \in HeldJobs /\ fjob.rec.status = "Failed" /\ Writable(fjob)
    BY <1>4 DEF FailUpdate, FailStaleCopy, TypeOK, FailStaleTypeOK, Writable
  <2>2. /\ RecordsInv' /\ Evolves /\ artifacts' = artifacts
        /\ \A i \in Jobs : records'[i] = records[i] \/ (i = fjob.id /\ records'[i] = fjob.rec)
    BY <1>4, <2>1, UpdateKeepsRecords DEF FailUpdate, TypeOK
  <2>3. WorkerCopies'
    BY <1>1, <2>2, WorkerCopyKept DEF WorkerCopies, workerVars
  <2>4. CancellerCopies' /\ RunsOnce' /\ CancelledStays'
    BY <1>1, <2>2, RunsOnceKept, CancelledStaysKept DEF CancellerCopies, cancelVars, workerVars
  <2>5. FailStaleCopy'
    BY <1>4 DEF FailUpdate, FailStaleCopy
  <2>6. RunningIsAttended'
    BY <1>1, <2>1, <2>2 DEF RunningIsAttended, WorksOn, AtWork, workerVars
  <2> QED
    BY <2>2, <2>3, <2>4, <2>5, <2>6
<1> QED
  BY <1>2, <1>3, <1>4 DEF FailStaleNext, FailStaleStep

\* Two workers are never at work on one job: its record names only one.
LEMMA OneWorkerPerJob ==
    ASSUME WorkerCopies, NEW w \in Workers, NEW v \in Workers,
           AtWork(w), AtWork(v), wjob[w].id = wjob[v].id
    PROVE  v = w
BY DEF WorkerCopies, WorkerCopy, WorkingCopy

LEMMA ClaimKeeps ==
    ASSUME IInv, TypeOK', NEW w \in Workers, WorkerNext(w), ClaimJob(w)
    PROVE  IInv' /\ Evolves
<1> USE DEF IInv
<1> DEFINE job == wjob[w]
<1>1. /\ UNCHANGED <<queueVars, submitVars, cancelVars, failStaleVars, executions>>
      /\ wpc[w] = "claim"
      /\ \A v \in Workers : v # w => wpc'[v] = wpc[v] /\ wjob'[v] = wjob[v]
  BY DEF WorkerNext, ClaimJob, Goto, Hold, TypeOK, WorkerTypeOK
<1>2. /\ job \in HeldJobs /\ job.id \in Jobs
      /\ job.rec.status = "Running" /\ job.rec.worker = w /\ job.rec.artifacts = {} /\ job.rev = 1
      /\ Writable(job)
  BY <1>1 DEF WorkerCopies, WorkerCopy, ClaimingCopy, TypeOK, WorkerTypeOK, Writable
<1>3. /\ RecordsInv' /\ Evolves /\ artifacts' = artifacts
      /\ \A i \in Jobs : records'[i] = records[i] \/ (i = job.id /\ records'[i] = job.rec)
  BY <1>2, UpdateKeepsRecords DEF ClaimJob, TypeOK
<1>4. \A v \in Workers : v # w => WorkerCopy(v)'
  BY <1>1, <1>3, WorkerCopyKept DEF WorkerCopies
<1>5. CancellerCopies' /\ FailStaleCopy' /\ RunsOnce' /\ CancelledStays'
  BY <1>1, <1>3, FailStaleCopyKept, RunsOnceKept, CancelledStaysKept
     DEF CancellerCopies, cancelVars, failStaleVars
<1>6. ASSUME NEW i \in Jobs, records'[i] = records[i], records'[i].status = "Running"
      PROVE  i \in abandoned' \/ \E v \in Workers : records'[i].worker = v /\ WorksOn(v, i)'
  <2>1. abandoned \subseteq abandoned'
    BY DEF ClaimJob, LetGo, Abandon
  <2>2. ASSUME NEW v \in Workers, WorksOn(v, i) PROVE WorksOn(v, i)'
    BY <1>1, <2>2 DEF WorksOn, AtWork, Uploading
  <2> QED
    BY <1>6, <2>1, <2>2 DEF RunningIsAttended
<1>7. CASE /\ UpdateJobOK(job)
            /\ UNCHANGED abandoned
            /\ \/ Hold(w, Claimed(job)) /\ Goto(w, "launch")
               \/ Hold(w, Denied(Claimed(job))) /\ Goto(w, "finish")
  <2>1. /\ records'[job.id] = job.rec /\ revisions'[job.id] = 2
        /\ executions'[job.id] = 0
    BY <1>1, <1>2, <1>7 DEF UpdateJobOK, Put, RevisionMatches, TypeOK, RepoTypeOK, RunsOnce
  <2>2. /\ wpc'[w] \in {"launch", "finish"}
        /\ wjob'[w].id = job.id /\ wjob'[w].rev = 2
        /\ wjob'[w].rec.worker = w /\ wjob'[w].rec.artifacts = {}
        /\ wpc'[w] = "launch" => wjob'[w].rec.status = "Running"
        /\ wpc'[w] = "finish" => wjob'[w].rec.status = "Failed"
    <3>1. CASE Hold(w, Claimed(job)) /\ Goto(w, "launch")
      BY <1>2, <3>1 DEF Hold, Goto, Claimed, HeldJobs, TypeOK, WorkerTypeOK
    <3>2. CASE Hold(w, Denied(Claimed(job))) /\ Goto(w, "finish")
      <4>1. Claimed(job) = [id |-> job.id, rec |-> job.rec, rev |-> 2]
        BY <1>2 DEF Claimed, HeldJobs
      <4>2. Denied(Claimed(job)) =
                [id |-> job.id, rec |-> [job.rec EXCEPT !.status = "Failed"], rev |-> 2]
        BY <4>1 DEF Denied, SetFinalStatus
      <4> QED
        BY <1>2, <3>2, <4>2 DEF Hold, Goto, HeldJobs, JobRecords, TypeOK, WorkerTypeOK
    <3> QED
      BY <1>7, <3>1, <3>2
  <2>3. WorkerCopy(w)'
    BY <1>2, <2>1, <2>2 DEF WorkerCopy, ClaimingCopy, WorkingCopy, AtWork, Uploading
  <2>4. RunningIsAttended'
    <3>1. ASSUME NEW i \in Jobs, i = job.id
          PROVE  records'[i].worker = w /\ WorksOn(w, i)'
      BY <3>1, <1>2, <2>1, <2>2 DEF WorksOn, AtWork
    <3> QED
      BY <1>3, <1>6, <3>1 DEF RunningIsAttended
  <2> QED
    BY <1>3, <1>4, <1>5, <2>3, <2>4 DEF WorkerCopies
<1>8. CASE UpdateJobFails(job) /\ Goto(w, "ack") /\ LetGo(job)
  <2>1. WorkerCopy(w)'
    BY <1>8 DEF Goto, WorkerCopy, AtWork, Uploading, TypeOK, WorkerTypeOK
  <2>2. job.id \in abandoned' \/ records' = records
    BY <1>8 DEF LetGo, Abandon, UpdateJobFails, Put, repoVars
  <2>3. RunningIsAttended'
    BY <1>3, <1>6, <2>2 DEF RunningIsAttended
  <2> QED
    BY <1>3, <1>4, <1>5, <2>1, <2>3 DEF WorkerCopies
<1> QED
  BY <1>7, <1>8 DEF ClaimJob

\* A worker's step that writes no record: what is left to show about it.
LEMMA LocalStepKeeps ==
    ASSUME IInv, TypeOK', NEW w \in Workers,
           UNCHANGED <<records, revisions, artifacts, cancelVars, failStaleVars>>,
           \A v \in Workers : v # w =>
                /\ wpc'[v] = wpc[v] /\ wjob'[v] = wjob[v]
                /\ AtWork(v) => executions'[wjob[v].id] = executions[wjob[v].id],
           RunsOnce',
           WorkerCopy(w)',
           abandoned \subseteq abandoned',
           AtWork(w) => \/ wpc'[w] \in {"run", "finish"} \union Uploading /\ wjob'[w].id = wjob[w].id
                        \/ wjob[w].id \in abandoned'
    PROVE  IInv' /\ Evolves
<1> USE DEF IInv
<1>1. RecordsInv' /\ Evolves
  BY StillRecords DEF TypeOK
<1>2. WorkerCopies'
  <2>1. ASSUME NEW v \in Workers, v # w PROVE WorkerCopy(v)'
    BY <1>1, <2>1, WorkerCopyKept DEF WorkerCopies
  <2> QED
    BY <2>1 DEF WorkerCopies
<1>3. CancellerCopies' /\ FailStaleCopy' /\ CancelledStays'
  BY <1>1, FailStaleCopyKept, CancelledStaysKept DEF CancellerCopies, cancelVars, failStaleVars
<1>4. RunningIsAttended'
  <2> SUFFICES ASSUME NEW i \in Jobs, records[i].status = "Running", i \notin abandoned'
               PROVE  \E v \in Workers : records[i].worker = v /\ WorksOn(v, i)'
    BY DEF RunningIsAttended
  <2>1. PICK v \in Workers : records[i].worker = v /\ WorksOn(v, i)
    BY DEF RunningIsAttended
  <2>2. WorksOn(v, i)'
    BY <2>1 DEF WorksOn, AtWork, Uploading
  <2> QED
    BY <2>1, <2>2
<1> QED
  BY <1>1, <1>2, <1>3, <1>4

LEMMA ClaimFields ==
    ASSUME NEW w \in Workers, NEW j \in Jobs, records[j] \in JobRecords
    PROVE  /\ Claim(w, Loaded(j)).id = j
           /\ Claim(w, Loaded(j)).rev = revisions[j]
           /\ Claim(w, Loaded(j)).rec.status = "Running"
           /\ Claim(w, Loaded(j)).rec.worker = w
           /\ Claim(w, Loaded(j)).rec.artifacts = records[j].artifacts
<1> DEFINE running == SetRunningStatus(records[j])
           claimed == [running EXCEPT !.worker = w]
<1>1. running \in JobRecords /\ running.status = "Running"
      /\ running.artifacts = records[j].artifacts
  BY DEF SetRunningStatus, JobRecords, JobStatus
<1>2. claimed.status = "Running" /\ claimed.worker = w
      /\ claimed.artifacts = records[j].artifacts
  <2> HIDE DEF running
  <2> QED
    BY <1>1 DEF JobRecords
<1>3. Claim(w, Loaded(j)) = [id |-> j, rec |-> claimed, rev |-> revisions[j]]
  BY DEF Claim, Loaded
<1> HIDE DEF claimed
<1> QED
  BY <1>2, <1>3

LEMMA DispatchKeeps ==
    ASSUME IInv, TypeOK', NEW w \in Workers, WorkerNext(w),
           FetchMessage(w) \/ LoadMessageJob(w) \/ AckMessage(w)
    PROVE  IInv' /\ Evolves
<1> USE DEF IInv
<1>1. /\ UNCHANGED <<repoVars, cancelVars, failStaleVars, executions>>
      /\ abandoned \subseteq abandoned'
      /\ ~AtWork(w)
      /\ \A v \in Workers : v # w => wpc'[v] = wpc[v] /\ wjob'[v] = wjob[v]
  BY DEF WorkerNext, FetchMessage, LoadMessageJob, AckMessage, BackToFetch, Goto, Hold, Abandon,
     AtWork, Uploading, TypeOK, WorkerTypeOK
<1>2. RunsOnce'
  BY <1>1 DEF RunsOnce, repoVars
<1>3. CASE wpc'[w] # "claim"
  <2>1. WorkerCopy(w)'
    BY <1>3 DEF FetchMessage, LoadMessageJob, AckMessage, BackToFetch, Goto, WorkerCopy, AtWork,
       Uploading, TypeOK, WorkerTypeOK
  <2> QED
    BY <1>1, <1>2, <2>1, LocalStepKeeps DEF repoVars
<1>4. CASE wpc'[w] = "claim"
  <2> DEFINE j == stream[wmsg[w]]
             job == Claim(w, Loaded(j))
  <2>1. LoadMessageJob(w)
    BY <1>4 DEF FetchMessage, AckMessage, BackToFetch, Goto, TypeOK, WorkerTypeOK
  <2>2. j \in Jobs
    BY <2>1 DEF LoadMessageJob, TypeOK, WorkerTypeOK, QueueTypeOK
  <2>3. wjob'[w] = job /\ records[j].status = "Submitted"
    BY <1>4, <2>1 DEF LoadMessageJob, Goto, Hold, IsClaimable, Loaded, TypeOK, WorkerTypeOK
  <2>4. revisions[j] = 1 /\ records[j].artifacts = {}
    BY <2>2, <2>3 DEF RecordsInv, RevisionTellsStatus, NoArtifactsBefore, TypeOK, RepoTypeOK
  <2>5. /\ job.id = j /\ job.rev = 1
        /\ job.rec.status = "Running" /\ job.rec.worker = w /\ job.rec.artifacts = {}
    <3>1. records[j] \in JobRecords
      BY <2>2 DEF TypeOK, RepoTypeOK
    <3> QED
      BY <2>2, <2>4, <3>1, ClaimFields
  <2>6. WorkerCopy(w)'
    BY <1>1, <1>4, <2>2, <2>3, <2>4, <2>5 DEF WorkerCopy, ClaimingCopy, AtWork, Uploading, repoVars
  <2> QED
    BY <1>1, <1>2, <2>6, LocalStepKeeps DEF repoVars
<1> QED
  BY <1>3, <1>4

LEMMA RunKeeps ==
    ASSUME IInv, TypeOK', NEW w \in Workers, WorkerNext(w), LaunchScript(w) \/ ScriptExits(w)
    PROVE  IInv' /\ Evolves
<1> USE DEF IInv
<1> DEFINE job == wjob[w]
<1>1. /\ UNCHANGED <<repoVars, cancelVars, failStaleVars, abandoned>>
      /\ AtWork(w) /\ WorkingCopy(w) /\ wpc[w] \in {"launch", "run"}
      /\ \A v \in Workers : v # w => wpc'[v] = wpc[v] /\ wjob'[v] = wjob[v]
  BY DEF WorkerNext, LaunchScript, ScriptExits, Goto, Hold, AtWork, TypeOK, WorkerTypeOK,
     WorkerCopies, WorkerCopy
<1>2. job \in HeldJobs /\ job.id \in Jobs
  BY <1>1 DEF WorkingCopy, TypeOK, WorkerTypeOK
<1>3. CASE LaunchScript(w) /\ wpc'[w] = "run"
  <2>1. /\ executions' = [executions EXCEPT ![job.id] = @ + 1]
        /\ wjob' = wjob
        /\ executions[job.id] = 0
    BY <1>1, <1>3 DEF LaunchScript, Goto, WorkingCopy, TypeOK, WorkerTypeOK
  <2>2. RunsOnce'
    BY <1>1, <1>2, <2>1 DEF RunsOnce, WorkingCopy, TypeOK, RepoTypeOK, WorkerTypeOK, repoVars
  <2>3. WorkerCopy(w)'
    <3>1. executions'[job.id] = 1
      BY <1>2, <2>1 DEF TypeOK, WorkerTypeOK
    <3> QED
      BY <1>1, <1>3, <2>1, <3>1 DEF WorkerCopy, WorkingCopy, AtWork, Uploading, RefersTo, repoVars
  <2>4. \A v \in Workers : v # w /\ AtWork(v) =>
            executions'[wjob[v].id] = executions[wjob[v].id]
    BY <1>1, <2>1, OneWorkerPerJob DEF AtWork, TypeOK, WorkerTypeOK
  <2> QED
    BY <1>1, <1>3, <2>1, <2>2, <2>3, <2>4, LocalStepKeeps DEF repoVars
<1>4. CASE wpc'[w] = "log" /\ UNCHANGED executions
  <2>1. \E s \in {"Succeeded", "Failed"} :
            wjob'[w] = Finished(job, s) /\ (s = "Succeeded" => wpc[w] = "run")
    BY <1>4 DEF LaunchScript, ScriptExits, Hold, Goto, TypeOK, WorkerTypeOK
  <2>2. /\ wjob'[w].id = job.id /\ wjob'[w].rev = job.rev
        /\ wjob'[w].rec.status \in {"Succeeded", "Failed"}
        /\ wjob'[w].rec.status = "Succeeded" => wpc[w] = "run"
        /\ wjob'[w].rec.worker = job.rec.worker /\ wjob'[w].rec.artifacts = job.rec.artifacts
    BY <1>2, <2>1 DEF Finished, SetFinalStatus, HeldJobs, JobRecords
  <2>3. WorkerCopy(w)'
    BY <1>1, <1>4, <2>2 DEF WorkerCopy, WorkingCopy, AtWork, Uploading, RefersTo, repoVars
  <2>4. RunsOnce'
    BY <1>1, <1>4 DEF RunsOnce, repoVars
  <2> QED
    BY <1>1, <1>4, <2>2, <2>3, <2>4, LocalStepKeeps DEF repoVars, Uploading
<1> QED
  BY <1>3, <1>4 DEF LaunchScript, ScriptExits, Goto, TypeOK, WorkerTypeOK

LEMMA UploadKeeps ==
    ASSUME IInv, TypeOK', NEW w \in Workers, WorkerNext(w),
           NEW kind \in ArtifactKinds, UploadArtifact(w, kind)
    PROVE  IInv' /\ Evolves
<1> USE DEF IInv
<1> DEFINE job == wjob[w]
<1>1. /\ UNCHANGED <<records, revisions, executions, abandoned, cancelVars, failStaleVars>>
      /\ wpc[w] = kind
      /\ AtWork(w) /\ WorkingCopy(w)
      /\ \A v \in Workers : v # w => wpc'[v] = wpc[v] /\ wjob'[v] = wjob[v]
  BY DEF WorkerNext, UploadArtifact, StoreArtifact, StoreArtifactFails, repoVars, Goto, Hold,
     AtWork, ArtifactKinds, Uploading, TypeOK, WorkerTypeOK, WorkerCopies, WorkerCopy
<1>2. job \in HeldJobs /\ job.id \in Jobs
  BY <1>1 DEF WorkingCopy, TypeOK, WorkerTypeOK
<1>3. \/ /\ artifacts' = [artifacts EXCEPT ![job.id][kind] = w]
         /\ wjob'[w] = Referring(job, kind)
      \/ /\ artifacts' = artifacts \/ artifacts' = [artifacts EXCEPT ![job.id][kind] = w]
         /\ wjob'[w] = UploadError(job)
  BY DEF UploadArtifact, StoreArtifact, StoreArtifactFails, repoVars, Hold, TypeOK, WorkerTypeOK
<1>4. \A i \in Jobs, k \in ArtifactKinds :
        \/ artifacts'[i][k] = artifacts[i][k]
        \/ i = job.id /\ k = kind /\ artifacts'[i][k] = w
  BY <1>2, <1>3 DEF TypeOK, RepoTypeOK
<1>5. RecordsInv'
  <2>1. RevisionTellsStatus' /\ NoArtifactsBefore'
    BY <1>1 DEF RecordsInv, RevisionTellsStatus, NoArtifactsBefore
  <2>2. ASSUME NEW i \in Jobs, NEW k \in records[i].artifacts
        PROVE  artifacts'[i][k] = records[i].worker
    <3>1. k \in ArtifactKinds /\ artifacts[i][k] = records[i].worker
      BY <2>2 DEF RecordsInv, ArtifactsBacked, TypeOK, RepoTypeOK, JobRecords
    <3>2. records[job.id].worker = w
      BY <1>1 DEF WorkingCopy
    <3> QED
      BY <1>4, <3>1, <3>2
  <2>3. ArtifactsBacked'
    BY <1>1, <2>2 DEF RecordsInv, ArtifactsBacked
  <2> QED
    BY <2>1, <2>3 DEF RecordsInv
<1>6. Evolves
  BY <1>1 DEF Evolves, TypeOK, RepoTypeOK
<1>7. ASSUME NEW v \in Workers, v # w PROVE WorkerCopy(v)'
  <2>1. AtWork(v) => \A k \in wjob[v].rec.artifacts :
            artifacts'[wjob[v].id][k] = artifacts[wjob[v].id][k]
    <3> SUFFICES ASSUME AtWork(v), NEW k \in wjob[v].rec.artifacts
                 PROVE  artifacts'[wjob[v].id][k] = artifacts[wjob[v].id][k]
      OBVIOUS
    <3>1. wjob[v].id # job.id
      BY <1>1, <1>7, OneWorkerPerJob
    <3>2. wjob[v].id \in Jobs /\ k \in ArtifactKinds
      BY DEF WorkerCopies, WorkerCopy, WorkingCopy, TypeOK, WorkerTypeOK, HeldJobs, JobRecords
    <3> QED
      BY <1>4, <3>1, <3>2
  <2> QED
    BY <1>1, <1>6, <1>7, <2>1, WorkerCopyKept DEF WorkerCopies
<1>8. WorkerCopy(w)'
  <2>1. wpc'[w] = AfterUpload(kind)
    BY DEF UploadArtifact, Goto, TypeOK, WorkerTypeOK
  <2>2. \/ /\ wjob'[w].rec.artifacts = job.rec.artifacts \union {kind}
           /\ wjob'[w].rec.status = job.rec.status
           /\ artifacts'[job.id][kind] = w
        \/ /\ wjob'[w].rec.artifacts = job.rec.artifacts
           /\ wjob'[w].rec.status = "Failed"
    <3>1. /\ Referring(job, kind).rec.artifacts = job.rec.artifacts \union {kind}
          /\ Referring(job, kind).rec.status = job.rec.status
          /\ UploadError(job).rec.artifacts = job.rec.artifacts
          /\ UploadError(job).rec.status = "Failed"
      BY <1>2 DEF Referring, UploadError, HeldJobs, JobRecords
    <3>2. artifacts' = [artifacts EXCEPT ![job.id][kind] = w] => artifacts'[job.id][kind] = w
      BY <1>2 DEF TypeOK, RepoTypeOK
    <3> QED
      BY <1>3, <3>1, <3>2
  <2>3. wjob'[w].id = job.id /\ wjob'[w].rev = job.rev /\ wjob'[w].rec.worker = job.rec.worker
    BY <1>2, <1>3 DEF Referring, UploadError, HeldJobs, JobRecords
  <2>4. \A k \in wjob'[w].rec.artifacts : artifacts'[job.id][k] = w
    BY <1>1, <1>2, <1>4, <2>2 DEF WorkingCopy, HeldJobs, JobRecords
  <2>5. wjob'[w].rec.status \in {"Failed", "Succeeded"}
    BY <1>1, <2>2 DEF WorkingCopy, ArtifactKinds, Uploading
  <2>6. wjob'[w].rec.status = "Succeeded" => RefersTo(AfterUpload(kind)) \subseteq wjob'[w].rec.artifacts
    BY <1>1, <2>2 DEF WorkingCopy, RefersTo, AfterUpload, ArtifactKinds
  <2>7. AfterUpload(kind) \in {"results", "script", "finish"}
    BY DEF AfterUpload, ArtifactKinds
  <2>8. wpc'[w] \notin {"claim", "launch", "run"}
    BY <2>1, <2>7
  <2>9. WorkingCopy(w)'
    BY <1>1, <2>1, <2>2, <2>3, <2>4, <2>5, <2>6, <2>8 DEF WorkingCopy, RefersTo
  <2> QED
    BY <2>8, <2>9 DEF WorkerCopy
<1>9. CancellerCopies' /\ FailStaleCopy' /\ RunsOnce' /\ CancelledStays'
  BY <1>1, <1>6, FailStaleCopyKept, RunsOnceKept, CancelledStaysKept
     DEF CancellerCopies, cancelVars, failStaleVars
<1>10. RunningIsAttended'
  <2>1. ASSUME NEW v \in Workers, NEW i \in Jobs, WorksOn(v, i) PROVE WorksOn(v, i)'
    <3>1. wpc'[w] \in {"results", "script", "finish"} /\ wjob'[w].id = job.id
      BY <1>2, <1>3 DEF UploadArtifact, Goto, AfterUpload, ArtifactKinds, Referring, UploadError,
         HeldJobs, TypeOK, WorkerTypeOK
    <3> QED
      BY <1>1, <2>1, <3>1 DEF WorksOn, AtWork, Uploading
  <2> QED
    BY <1>1, <2>1 DEF RunningIsAttended
<1> QED
  BY <1>5, <1>6, <1>7, <1>8, <1>9, <1>10 DEF WorkerCopies

LEMMA FinishWrites ==
    ASSUME IInv, NEW w \in Workers, wpc[w] = "finish"
    PROVE  Writable(wjob[w])
<1> DEFINE job == wjob[w]
<1>1. WorkingCopy(w)
  BY DEF IInv, WorkerCopies, WorkerCopy, AtWork
<1>2. job.rec.artifacts \subseteq ArtifactKinds
  BY DEF IInv, TypeOK, WorkerTypeOK, HeldJobs, JobRecords
<1>3. job.rec.status = "Succeeded" => job.rec.artifacts = ArtifactKinds
  BY <1>1, <1>2 DEF WorkingCopy, RefersTo
<1> QED
  BY <1>1, <1>3 DEF WorkingCopy, Writable

LEMMA FinishKeeps ==
    ASSUME IInv, TypeOK', NEW w \in Workers, WorkerNext(w), FinishJob(w)
    PROVE  IInv' /\ Evolves
<1> USE DEF IInv
<1> DEFINE job == wjob[w]
<1>1. /\ UNCHANGED <<wjob, executions, cancelVars, failStaleVars>>
      /\ wpc[w] = "finish" /\ wpc'[w] = "ack"
      /\ WorkingCopy(w)
      /\ \A v \in Workers : v # w => wpc'[v] = wpc[v]
  BY DEF WorkerNext, FinishJob, Goto, AtWork, TypeOK, WorkerTypeOK, WorkerCopies, WorkerCopy
<1>2. job \in HeldJobs /\ job.id \in Jobs /\ job.rec.status \in {"Failed", "Succeeded"}
  BY <1>1 DEF WorkingCopy, TypeOK, WorkerTypeOK
<1>3. Writable(job)
  BY FinishWrites DEF FinishJob
<1>4. /\ RecordsInv' /\ Evolves /\ artifacts' = artifacts
      /\ \A i \in Jobs : records'[i] = records[i] \/ (i = job.id /\ records'[i] = job.rec)
  BY <1>2, <1>3, UpdateKeepsRecords DEF FinishJob, TypeOK
<1>5. WorkerCopies'
  <2>1. WorkerCopy(w)'
    BY <1>1 DEF WorkerCopy, AtWork, Uploading
  <2>2. ASSUME NEW v \in Workers, v # w PROVE WorkerCopy(v)'
    BY <1>1, <1>4, <2>2, WorkerCopyKept DEF WorkerCopies
  <2> QED
    BY <2>1, <2>2 DEF WorkerCopies
<1>6. CancellerCopies' /\ FailStaleCopy' /\ RunsOnce' /\ CancelledStays'
  BY <1>1, <1>4, FailStaleCopyKept, RunsOnceKept, CancelledStaysKept
     DEF CancellerCopies, cancelVars, failStaleVars
<1>7. RunningIsAttended'
  <2> SUFFICES ASSUME NEW i \in Jobs, records'[i].status = "Running", i \notin abandoned'
               PROVE  \E v \in Workers : records'[i].worker = v /\ WorksOn(v, i)'
    BY DEF RunningIsAttended
  <2>1. records'[i] = records[i] /\ i \notin abandoned
    BY <1>2, <1>4 DEF FinishJob, LetGo, Abandon
  <2>2. i # job.id
    <3> SUFFICES ASSUME i = job.id PROVE FALSE
      OBVIOUS
    <3>1. revisions[i] = 2 /\ RevisionMatches(job)
      BY <1>1, <2>1 DEF WorkingCopy, RevisionMatches, RecordsInv, RevisionTellsStatus
    <3>2. CASE Put(job)
      BY <1>2, <3>2 DEF Put, TypeOK, RepoTypeOK
    <3>3. CASE LetGo(job)
      BY <3>1, <3>3 DEF LetGo, Abandon
    <3> QED
      BY <3>2, <3>3 DEF FinishJob, UpdateJobOK
  <2>3. PICK v \in Workers : records[i].worker = v /\ WorksOn(v, i)
    BY <2>1 DEF RunningIsAttended
  <2>4. WorksOn(v, i)'
    BY <1>1, <2>2, <2>3 DEF WorksOn, AtWork
  <2> QED
    BY <2>1, <2>3, <2>4
<1> QED
  BY <1>4, <1>5, <1>6, <1>7

LEMMA WorkerFailureKeeps ==
    ASSUME IInv, TypeOK', WorkerFailure
    PROVE  IInv' /\ Evolves
<1> USE DEF IInv
<1>1. CASE LoseDelivery
  BY <1>1, QuietKeeps DEF WorkerFailure, LoseDelivery, repoVars, workerVars, cancelVars,
     failStaleVars, FailStaleCopy
<1>2. ASSUME NEW w \in Workers, CrashWorker(w) PROVE IInv' /\ Evolves
  <2>1. /\ UNCHANGED <<repoVars, executions, cancelVars, failStaleVars>>
        /\ wpc'[w] = "fetch"
        /\ \A v \in Workers : v # w => wpc'[v] = wpc[v] /\ wjob'[v] = wjob[v]
        /\ AtWork(w) => wjob[w].id \in abandoned'
        /\ abandoned \subseteq abandoned'
    BY <1>2 DEF WorkerFailure, CrashWorker, BackToFetch, Goto, Hold, Abandon, TypeOK, WorkerTypeOK
  <2>2. RunsOnce'
    BY <2>1 DEF RunsOnce, repoVars
  <2>3. WorkerCopy(w)'
    BY <2>1 DEF WorkerCopy, AtWork, Uploading
  <2> QED
    BY <2>1, <2>2, <2>3, LocalStepKeeps DEF repoVars
<1> QED
  BY <1>1, <1>2 DEF WorkerFailure

LEMMA InitInvariant == ASSUME Init PROVE IInv
BY InitTyped DEF Init, RepoInit, WorkerInit, CancelInit, FailStaleInit, IInv, RecordsInv,
   RevisionTellsStatus, NoArtifactsBefore, ArtifactsBacked, WorkerCopies, WorkerCopy, AtWork,
   Uploading, CancellerCopies, FailStaleCopy, RunsOnce, CancelledStays, RunningIsAttended,
   NoRecord, Absent

LEMMA NextInvariant == ASSUME IInv, [Next]_vars PROVE IInv' /\ Evolves
<1>1. TypeOK'
  BY NextTyped DEF IInv
<1>2. ASSUME NEW w \in Workers, WorkerNext(w) PROVE IInv' /\ Evolves
  BY <1>1, <1>2, DispatchKeeps, ClaimKeeps, RunKeeps, UploadKeeps, FinishKeeps
     DEF WorkerNext, WorkerStep
<1>3. ASSUME NEW s \in DOMAIN stream, QueueNext(s) PROVE IInv' /\ Evolves
  BY <1>1, <1>3, QuietKeeps DEF QueueNext, repoVars, workerVars, cancelVars, failStaleVars,
     IInv, FailStaleCopy
<1>4. CASE UNCHANGED vars
  BY <1>1, <1>4, QuietKeeps DEF vars, repoVars, workerVars, cancelVars, failStaleVars, IInv,
     FailStaleCopy
<1> QED
  BY <1>1, <1>2, <1>3, <1>4, SubmitKeeps, WorkerFailureKeeps, CancelKeeps, FailStaleKeeps DEF Next

(***************************************************************************)
(* What follows for every behaviour.                                       *)
(***************************************************************************)
LEMMA Invariance == Spec => []IInv
<1>1. Init => IInv
  BY InitInvariant
<1>2. IInv /\ [Next]_vars => IInv'
  BY NextInvariant
<1> QED
  BY <1>1, <1>2, PTL DEF Spec

\* However often its message is delivered and whoever is killed meanwhile, the
\* script of a job is started at most once: the claim of worker.go:101 is a
\* write over the revision of the Submitted record, which only one can make.
THEOREM RunsAtMostOnce == Spec => []AtMostOnce
<1>1. IInv => AtMostOnce
  BY DEF IInv, RunsOnce, AtMostOnce
<1> QED
  BY <1>1, Invariance, PTL

\* A job whose CancelJob returned no error stays Cancelled and is never run,
\* although no one takes its message out of the queue.
THEOREM CancellationHolds == Spec => []CancelledNeverRuns
<1>1. IInv => CancelledNeverRuns
  BY DEF IInv, TypeOK, CancelTypeOK, CancelledStays, RunsOnce, CancelledNeverRuns
<1> QED
  BY <1>1, Invariance, PTL

\* A finished record refers only to artifacts that are in the store and were
\* put there by its own worker, and a Succeeded one to all three of them.
THEOREM ArtifactsAreThere == Spec => []ArtifactsBacked
<1>1. IInv => ArtifactsBacked
  BY DEF IInv, RecordsInv
<1> QED
  BY <1>1, Invariance, PTL

\* A Running record is being worked on by the worker it names, unless that
\* worker was killed or a request of it failed.
THEOREM RunningHasWorker == Spec => []RunningIsAttended
<1>1. IInv => RunningIsAttended
  BY DEF IInv
<1> QED
  BY <1>1, Invariance, PTL

\* No write changes the record of a completed job, whatever copy it is made
\* from: a late worker, canceller or fail-stale loses the comparison.
THEOREM FinalIsForever == Spec => FinalForever
<1>1. IInv /\ [Next]_vars => [\A j \in Jobs : IsCompleted(records[j]) => records'[j] = records[j]]_vars
  BY NextInvariant DEF Evolves
<1> QED
  BY <1>1, Invariance, PTL DEF Spec, FinalForever
=============================================================================
