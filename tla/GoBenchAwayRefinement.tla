------------------------ MODULE GoBenchAwayRefinement ------------------------
(***************************************************************************)
(* Every step of the system is a step of the job lifecycle or changes      *)
(* nothing the lifecycle speaks of, and a running job fails for a reason;  *)
(* and every step of the system with a wait beside it is a step of the     *)
(* system without, so that what wait has seen completed stays completed.   *)
(* Seen by the readers of the queue it is a step of PublishedJobs.         *)
(***************************************************************************)
EXTENDS GoBenchAwayNoLoss, WaitCommand, CreatedJobs

Statuses == [j \in Jobs |-> records[j].status]
Executed == {j \in Jobs : executions[j] > 0}

LEMMA QuietStutters ==
    ASSUME UNCHANGED <<records, executions>>
    PROVE  UNCHANGED <<Statuses, Executed>>
BY DEF Statuses, Executed

\* The abstract actions in terms of the state functions above.
LEMMA LifecycleSteps ==
    ASSUME NEW j \in Jobs
    PROVE  /\ \A to \in JobStatus :
                /\ Statuses' = [Statuses EXCEPT ![j] = to]
                /\ Executed' = Executed
                /\ \/ Statuses[j] = "Absent" /\ to = "Submitted"
                   \/ Statuses[j] = "Submitted" /\ to \in {"Running", "Cancelled"}
                   \/ Statuses[j] = "Running" /\ to = "Failed"
                   \/ Statuses[j] = "Running" /\ to = "Succeeded" /\ j \in Executed
                => Lifecycle!Next
           /\ /\ Statuses[j] \in {"Running", "Failed"}
              /\ j \notin Executed
              /\ Executed' = Executed \union {j}
              /\ Statuses' = Statuses
              => Lifecycle!Next
<1>1. ASSUME NEW from, NEW to, Statuses[j] = from, Statuses' = [Statuses EXCEPT ![j] = to],
             Executed' = Executed
      PROVE  Lifecycle!Becomes(j, from, to)
  BY <1>1 DEF Lifecycle!Becomes, Statuses, Executed
<1>2. ASSUME Statuses[j] \in {"Running", "Failed"}, j \notin Executed,
             Executed' = Executed \union {j}, Statuses' = Statuses
      PROVE  Lifecycle!Execute(j)
  BY <1>2 DEF Lifecycle!Execute, Statuses, Executed
<1>3. ASSUME j \in Executed, Lifecycle!Becomes(j, "Running", "Succeeded")
      PROVE  Lifecycle!Succeed(j)
  BY <1>3 DEF Lifecycle!Succeed, Executed
<1> QED
  BY <1>1, <1>2, <1>3 DEF Lifecycle!Next, Lifecycle!Submit, Lifecycle!Cancel, Lifecycle!Start,
     Lifecycle!Fail

\* A write moves one job along the lifecycle.
LEMMA WriteRefines ==
    ASSUME IInv, NEW job \in HeldJobs, Writable(job), Put(job), UNCHANGED executions
    PROVE  Lifecycle!Next
<1> USE DEF IInv, TypeOK, RepoTypeOK
<1> DEFINE j == job.id
           to == job.rec.status
<1>1. /\ j \in Jobs
      /\ revisions[j] = job.rev
      /\ records' = [records EXCEPT ![j] = job.rec]
  BY DEF Writable, Put, RevisionMatches
<1>2. /\ Statuses' = [Statuses EXCEPT ![j] = to]
      /\ Statuses[j] = records[j].status
      /\ Executed' = Executed
      /\ executions[j] = 1 => j \in Executed
  <2>1. Statuses' = [Statuses EXCEPT ![j] = to]
    BY <1>1 DEF Statuses
  <2>2. Statuses[j] = records[j].status
    BY <1>1 DEF Statuses
  <2>3. Executed' = Executed /\ (executions[j] = 1 => j \in Executed)
    BY <1>1 DEF Executed
  <2> QED
    BY <2>1, <2>2, <2>3
<1>3. \/ records[j].status = "Absent" /\ to = "Submitted"
      \/ records[j].status = "Submitted" /\ to \in {"Running", "Cancelled"}
      \/ records[j].status = "Running" /\ to = "Failed"
      \/ records[j].status = "Running" /\ to = "Succeeded" /\ executions[j] = 1
  BY <1>1 DEF Writable, RecordsInv, RevisionTellsStatus
<1>4. to \in JobStatus
  BY <1>3 DEF JobStatus
<1> QED
  BY <1>1, <1>2, <1>3, <1>4, LifecycleSteps

LEMMA UpdateRefines ==
    ASSUME IInv, NEW job \in HeldJobs, Writable(job), UNCHANGED executions,
           UpdateJobOK(job) \/ UpdateJobFails(job)
    PROVE  Lifecycle!Next \/ UNCHANGED <<records, executions>>
BY WriteRefines DEF UpdateJobOK, UpdateJobFails, repoVars

\* Starting the script is the Execute step: the record of a job a worker is at
\* work on is past Submitted and not Cancelled.
LEMMA LaunchRefines ==
    ASSUME IInv, NEW w \in Workers, LaunchScript(w)
    PROVE  Lifecycle!Next \/ UNCHANGED <<records, executions>>
<1> USE DEF IInv, TypeOK, RepoTypeOK, WorkerTypeOK
<1> DEFINE j == wjob[w].id
<1>1. WorkingCopy(w) /\ j \in Jobs /\ wpc[w] = "launch"
  BY DEF LaunchScript, AtWork, WorkerCopies, WorkerCopy, WorkingCopy
<1>2. records' = records
  BY DEF LaunchScript, repoVars
<1>3. CASE executions' = [executions EXCEPT ![j] = @ + 1]
  <2>1. executions[j] = 0 /\ executions'[j] = 1
    BY <1>1, <1>3 DEF WorkingCopy
  <2>2. Statuses[j] \in {"Running", "Failed"}
    <3>1. records[j].status \notin {"Absent", "Submitted", "Cancelled", "Succeeded"}
      BY <1>1, <2>1 DEF WorkingCopy, RecordsInv, RevisionTellsStatus, RunsOnce
    <3> QED
      BY <1>1, <3>1 DEF JobRecords, JobStatus, Absent, Statuses
  <2>3. /\ Executed' = Executed \union {j} /\ j \notin Executed
        /\ Statuses' = Statuses
    BY <1>1, <1>2, <1>3, <2>1 DEF Executed, Statuses
  <2> QED
    BY <1>1, <2>2, <2>3, LifecycleSteps
<1> QED
  BY <1>2, <1>3 DEF LaunchScript

LEMMA WorkerRefines ==
    ASSUME IInv, NEW w \in Workers, WorkerStep(w)
    PROVE  Lifecycle!Next \/ UNCHANGED <<records, executions>>
<1> USE DEF IInv
<1>1. wjob[w] \in HeldJobs
  BY DEF TypeOK, WorkerTypeOK
<1>2. CASE ClaimJob(w)
  <2>1. Writable(wjob[w]) /\ UNCHANGED executions
    BY <1>2 DEF ClaimJob, WorkerCopies, WorkerCopy, ClaimingCopy, Writable, TypeOK, WorkerTypeOK
  <2> QED
    BY <1>1, <1>2, <2>1, UpdateRefines DEF ClaimJob
<1>3. CASE FinishJob(w)
  BY <1>1, <1>3, FinishWrites, UpdateRefines DEF FinishJob
<1>4. CASE LaunchScript(w)
  BY <1>4, LaunchRefines
<1>5. ASSUME NEW kind \in ArtifactKinds, UploadArtifact(w, kind) PROVE UNCHANGED <<records, executions>>
  BY <1>5 DEF UploadArtifact, StoreArtifact, StoreArtifactFails, repoVars
<1>6. CASE FetchMessage(w) \/ LoadMessageJob(w) \/ ScriptExits(w) \/ AckMessage(w)
  BY <1>6 DEF FetchMessage, LoadMessageJob, ScriptExits, AckMessage, repoVars
<1> QED
  BY <1>2, <1>3, <1>4, <1>5, <1>6 DEF WorkerStep

LEMMA CancelRefines ==
    ASSUME IInv, NEW c \in Cancellers, CancelNext(c)
    PROVE  Lifecycle!Next \/ UNCHANGED <<records, executions>>
<1> USE DEF IInv, TypeOK, CancelTypeOK
<1>1. UNCHANGED executions
  BY DEF CancelNext, workerVars
<1>2. CASE CancelUpdate(c)
  <2>1. cjob[c] \in HeldJobs /\ Writable(cjob[c])
    BY <1>2 DEF CancelUpdate, CancellerCopies, Writable
  <2> QED
    BY <1>1, <1>2, <2>1, UpdateRefines DEF CancelUpdate
<1> QED
  BY <1>1, <1>2 DEF CancelNext, CancelLoad, repoVars

LEMMA FailStaleRefines ==
    ASSUME IInv, FailStaleNext
    PROVE  Lifecycle!Next \/ UNCHANGED <<records, executions>>
<1> USE DEF IInv, TypeOK, FailStaleTypeOK
<1>1. UNCHANGED executions
  BY DEF FailStaleNext, workerVars
<1>2. CASE FailUpdate
  <2>1. fjob \in HeldJobs /\ Writable(fjob)
    BY <1>2 DEF FailUpdate, FailStaleCopy, Writable
  <2> QED
    BY <1>1, <1>2, <2>1, UpdateRefines DEF FailUpdate
<1> QED
  BY <1>1, <1>2 DEF FailStaleNext, FailStaleStep, BeginScan, ReadEntry, FailLoad, EndScan,
     EndFailStale, repoVars

LEMMA SubmitRefines ==
    ASSUME IInv, NEW j \in Jobs, SubmitNext(j)
    PROVE  Lifecycle!Next \/ UNCHANGED <<records, executions>>
<1> USE DEF IInv
<1>1. UNCHANGED executions
  BY DEF SubmitNext, workerVars
<1>2. CASE CreateRecord(j)
  <2>1. CreatedCopy(j) \in HeldJobs /\ Writable(CreatedCopy(j))
    BY NewRecordsTyped DEF CreatedCopy, NewJob, NoRecord, Writable
  <2> QED
    BY <1>1, <1>2, <2>1, UpdateRefines DEF CreateRecord
<1> QED
  BY <1>1, <1>2 DEF SubmitNext, PublishJob, SubmitCrash, repoVars

LEMMA StepRefines ==
    ASSUME IInv, [Next]_vars
    PROVE  [Lifecycle!Next]_<<Statuses, Executed>>
<1>1. CASE WorkerFailure \/ (\E s \in DOMAIN stream : QueueNext(s)) \/ (\E j \in Jobs : TimeNext(j))
           \/ UNCHANGED vars
  BY <1>1, QuietStutters DEF WorkerFailure, LoseDelivery, CrashWorker, QueueNext, TimeNext,
     TimeoutElapses, vars, repoVars, workerVars
<1>2. CASE Next /\ ~WorkerFailure /\ ~(\E s \in DOMAIN stream : QueueNext(s))
           /\ ~(\E j \in Jobs : TimeNext(j))
  <2>1. Lifecycle!Next \/ UNCHANGED <<records, executions>>
    BY <1>2, WorkerRefines, CancelRefines, FailStaleRefines, SubmitRefines DEF Next, WorkerNext
  <2> QED
    BY <2>1, QuietStutters
<1> QED
  BY <1>1, <1>2

\* The two stores, the queue and all the processes together implement the
\* lifecycle of JobLifecycle: it starts once, ends once, is run at most once
\* and not after a cancellation, and succeeds only if it was run.
THEOREM Implementation == Spec => ImplementsLifecycle
<1>1. Init => Lifecycle!Init
  BY DEF Init, RepoInit, WorkerInit, NoRecord, Absent, Lifecycle!Init
<1>2. IInv /\ [Next]_vars => [Lifecycle!Next]_(Lifecycle!lifecycleVars)
  BY StepRefines DEF Lifecycle!lifecycleVars, Statuses, Executed
<1> QED
  BY <1>1, <1>2, Invariance, PTL DEF Spec, ImplementsLifecycle, Lifecycle!Spec

(***************************************************************************)
(* Why a running job may become Failed.                                    *)
(***************************************************************************)
Cause(j) ==
    \/ j \in overdue /\ fjob.id = j
    \/ \E w \in Workers : wpc[w] = "finish" /\ WorksOn(w, j) /\ records[j].worker = w

LEMMA StepHasCause ==
    ASSUME IInv, Next, NEW j \in Jobs, records[j].status = "Running", records'[j].status = "Failed"
    PROVE  Cause(j)
<1> USE DEF IInv, TypeOK
<1>1. ASSUME NEW job \in HeldJobs, Writable(job), UpdateJobOK(job) \/ UpdateJobFails(job)
      PROVE  j = job.id /\ job.rec.status = "Failed"
  BY <1>1, UpdateKeepsRecords
<1>2. ASSUME NEW i \in Jobs, SubmitNext(i) PROVE FALSE
  <2>1. CASE CreateRecord(i)
    <3>1. CreatedCopy(i) \in HeldJobs /\ Writable(CreatedCopy(i))
      BY NewRecordsTyped DEF CreatedCopy, NewJob, NoRecord, Writable
    <3>2. CreatedCopy(i).rec.status = "Submitted"
      BY DEF CreatedCopy, NewJob, NoRecord
    <3> QED
      BY <1>1, <2>1, <3>1, <3>2 DEF CreateRecord
  <2> QED
    BY <1>2, <2>1 DEF SubmitNext, PublishJob, SubmitCrash, repoVars
<1>3. ASSUME NEW w \in Workers, WorkerNext(w) PROVE Cause(j)
  <2>1. wjob[w] \in HeldJobs
    BY DEF WorkerTypeOK
  <2>2. CASE ClaimJob(w)
    <3>1. Writable(wjob[w]) /\ wjob[w].rec.status = "Running"
      BY <2>2 DEF ClaimJob, WorkerCopies, WorkerCopy, ClaimingCopy, Writable, WorkerTypeOK
    <3> QED
      BY <1>1, <2>1, <2>2, <3>1 DEF ClaimJob
  <2>3. CASE FinishJob(w)
    <3>1. wpc[w] = "finish" /\ AtWork(w) /\ j = wjob[w].id
      BY <1>1, <2>1, <2>3, FinishWrites DEF FinishJob, AtWork
    <3>2. records[j].worker = w
      BY <3>1 DEF WorkerCopies, WorkerCopy, WorkingCopy
    <3> QED
      BY <3>1, <3>2 DEF Cause, WorksOn
  <2>4. ASSUME NEW kind \in ArtifactKinds, UploadArtifact(w, kind) PROVE FALSE
    BY <2>4 DEF UploadArtifact, StoreArtifact, StoreArtifactFails, repoVars
  <2>5. CASE FetchMessage(w) \/ LoadMessageJob(w) \/ LaunchScript(w) \/ ScriptExits(w) \/ AckMessage(w)
    BY <2>5 DEF FetchMessage, LoadMessageJob, LaunchScript, ScriptExits, AckMessage, repoVars
  <2> QED
    BY <1>3, <2>2, <2>3, <2>4, <2>5 DEF WorkerNext, WorkerStep
<1>4. ASSUME NEW c \in Cancellers, CancelNext(c) PROVE FALSE
  <2>1. CASE CancelUpdate(c)
    <3>1. cjob[c] \in HeldJobs /\ Writable(cjob[c]) /\ cjob[c].rec.status = "Cancelled"
      BY <2>1 DEF CancelUpdate, CancellerCopies, CancelTypeOK, Writable
    <3> QED
      BY <1>1, <2>1, <3>1 DEF CancelUpdate
  <2> QED
    BY <1>4, <2>1 DEF CancelNext, CancelLoad, repoVars
<1>5. CASE FailStaleNext
  <2>1. CASE FailUpdate
    <3>1. fjob \in HeldJobs /\ Writable(fjob) /\ fjob.id \in overdue
      BY <2>1 DEF FailUpdate, FailStaleCopy, FailStaleTypeOK, Writable
    <3> QED
      BY <1>1, <2>1, <3>1 DEF FailUpdate, Cause
  <2> QED
    BY <1>5, <2>1 DEF FailStaleNext, FailStaleStep, BeginScan, ReadEntry, FailLoad, EndScan,
       EndFailStale, repoVars
<1>6. ~WorkerFailure /\ ~(\E s \in DOMAIN stream : QueueNext(s)) /\ ~(\E i \in Jobs : TimeNext(i))
  BY DEF WorkerFailure, LoseDelivery, CrashWorker, QueueNext, TimeNext, TimeoutElapses, repoVars
<1> QED
  BY <1>2, <1>3, <1>4, <1>5, <1>6 DEF Next

\* A Running record becomes Failed only by the final update of the worker it
\* names, or by fail-stale after the job's timeout.
THEOREM FailureHasCause == Spec => FailsForCause
<1>1. IInv /\ [Next]_vars =>
        [\A j \in Jobs : records[j].status = "Running" /\ records'[j].status = "Failed" => Cause(j)]_vars
  BY StepHasCause
<1> QED
  BY <1>1, Invariance, PTL DEF Spec, FailsForCause, Cause

(***************************************************************************)
(* The wait command beside the system.  It only reads, so everything       *)
(* proved of the system holds beside it; and what it saw of a completed    *)
(* record stays true because the record never changes again.               *)
(***************************************************************************)

\* A step of wait is no step of the stores or of another process.
LEMMA WaitStepIsQuiet ==
    ASSUME [WNext]_allVars
    PROVE  [Next]_vars
BY DEF WNext, WaitNext, allVars

\* The wait command changes nothing anybody else sees: cmd/wait.go loads records and
\* writes none, so beside it the system behaves as it does without it.
THEOREM WaitOnlyReads == WSpec => Spec
<1>1. WInit => Init
  BY DEF WInit
<1>2. [WNext]_allVars => [Next]_vars
  BY WaitStepIsQuiet
<1> QED
  BY <1>1, <1>2, PTL DEF WSpec, Spec

\* A poll returns without an error only for a record that is Failed or Succeeded.
LEMMA WaitSeesTheEnd ==
    ASSUME IInv, WaitTypeOK, WaitedJobsAreOver, [WNext]_allVars
    PROVE  WaitTypeOK' /\ WaitedJobsAreOver'
<1>1. CASE Next /\ UNCHANGED waitVars
  <2>1. IInv' /\ Evolves
    BY <1>1, NextInvariant
  <2> QED
    BY <1>1, <2>1 DEF Evolves, waitVars, WaitTypeOK, WaitedJobsAreOver, IsCompleted
<1>2. CASE WaitNext
  BY <1>2 DEF WaitNext, StartWait, WaitReturns, EndsWait, vars, repoVars, WaitTypeOK,
     WaitedJobsAreOver
<1>3. CASE UNCHANGED allVars
  BY <1>3 DEF allVars, vars, repoVars, waitVars, WaitTypeOK, WaitedJobsAreOver
<1> QED
  BY <1>1, <1>2, <1>3 DEF WNext

\* A job its goroutine returned for without an error (cmd/wait.go) was Failed or Succeeded
\* and still is when the last goroutine returns, whoever writes records meanwhile.
THEOREM WaitedStayOver == WSpec => [](WaitTypeOK /\ WaitedJobsAreOver)
<1>1. WInit => WaitTypeOK /\ WaitedJobsAreOver
  BY DEF WInit, WaitInit, WaitTypeOK, WaitedJobsAreOver
<1>2. IInv /\ WaitTypeOK /\ WaitedJobsAreOver /\ [WNext]_allVars
        => (WaitTypeOK /\ WaitedJobsAreOver)'
  BY WaitSeesTheEnd
<1> QED
  BY <1>1, <1>2, WaitOnlyReads, Invariance, PTL DEF WSpec

(***************************************************************************)
(* What the readers of the queue see.  A job's submit command is the only  *)
(* publisher of its message, publishes when the record is there, and is    *)
(* over then; so the stream never holds two messages of a job.             *)
(***************************************************************************)

\* A job that has a record gets its next status.
LaterStatus(j) ==
    \/ Statuses[j] = "Submitted" /\ Statuses' = [Statuses EXCEPT ![j] = "Cancelled"]
    \/ Statuses[j] = "Submitted" /\ Statuses' = [Statuses EXCEPT ![j] = "Running"]
    \/ Statuses[j] = "Running" /\ Statuses' = [Statuses EXCEPT ![j] = "Failed"]
    \/ Statuses[j] = "Running" /\ Statuses' = [Statuses EXCEPT ![j] = "Succeeded"]

\* Any step of the system changes one job's status as the lifecycle does, or none.
LEMMA OneStatusMoves ==
    ASSUME IInv, [Next]_vars
    PROVE  \/ Statuses' = Statuses
           \/ \E j \in Jobs : Statuses[j] = "Absent" /\ Statuses' = [Statuses EXCEPT ![j] = "Submitted"]
           \/ \E j \in Jobs : LaterStatus(j)
<1>1. CASE UNCHANGED <<Statuses, Executed>>
  BY <1>1
<1>2. CASE Lifecycle!Next
  BY <1>2 DEF Lifecycle!Next, Lifecycle!Submit, Lifecycle!Cancel, Lifecycle!Start, Lifecycle!Fail,
     Lifecycle!Succeed, Lifecycle!Execute, Lifecycle!Becomes, Statuses, Executed, LaterStatus
<1> QED
  BY <1>1, <1>2, StepRefines

\* The readers' view of a step: a record is created, or a message published, or a
\* status changed, or nothing they see.
LEMMA ReadersView ==
    ASSUME DeliveryInv, [ObservedNext]_observedVars
    PROVE  [Published!JobsNext]_(Published!jobsVars)
<1> USE DEF DeliveryInv, IInv
<1>0. [Next]_vars
  BY DEF ObservedNext, observedVars
<1>1. CASE UNCHANGED <<stream, created, Statuses>>
  BY <1>1 DEF Published!jobsVars, Statuses
<1>2. CASE stream' = stream /\ created' = created /\ \E j \in Jobs : LaterStatus(j)
  <2>1. PICK j \in Jobs : LaterStatus(j)
    BY <1>2
  <2>2. DOMAIN Statuses' = DOMAIN Statuses
    BY DEF Statuses
  <2>3. Published!StatusChange(j)
    BY <1>2, <2>1, <2>2 DEF Published!StatusChange, Published!Lifecycle!Cancel,
       Published!Lifecycle!Start, Published!Lifecycle!Fail, Published!Lifecycle!Succeed,
       Published!Lifecycle!Becomes, Statuses, LaterStatus
  <2> QED
    BY <2>3 DEF Published!JobsNext, Published!requestVars
<1>3. ASSUME NEW j \in Jobs, stream' = stream, created' = Append(created, j),
             Statuses[j] = "Absent", Statuses' = [Statuses EXCEPT ![j] = "Submitted"]
      PROVE  Published!JobsNext
  <2>1. DOMAIN Statuses' = DOMAIN Statuses
    BY DEF Statuses
  <2>2. Published!CreateJob(j)
    BY <1>3, <2>1 DEF Published!CreateJob, Published!Lifecycle!Submit, Published!Lifecycle!Becomes,
       Statuses
  <2> QED
    BY <2>2 DEF Published!JobsNext, Published!requestVars
<1>4. ASSUME NEW j \in Jobs, submission[j] = "created", stream' = Append(stream, j),
             Statuses' = Statuses, created' = created
      PROVE  Published!JobsNext
  <2>1. Statuses[j] # "Absent"
    BY <1>4 DEF PublishedHasRecord, RecordsInv, RevisionTellsStatus, TypeOK, RepoTypeOK, Statuses
  <2>2. j \notin Published!ToSet(stream)
    BY <1>4 DEF PublishedIsOver, Published!ToSet
  <2>3. Published!PublishMessage(j)
    BY <1>4, <2>1, <2>2 DEF Published!PublishMessage, Statuses
  <2> QED
    BY <2>3 DEF Published!JobsNext, Published!requestVars
<1>5. ASSUME NEW j \in Jobs
      PROVE  IsCreated(j) <=> Statuses[j] = "Absent" /\ Statuses'[j] # "Absent"
  BY DEF IsCreated, Statuses, Absent
<1>6. (\A j \in Jobs : ~IsCreated(j)) => created' = created
  BY DEF ObservedNext, observedVars
<1>7. \A j \in Jobs : IsCreated(j) /\ (\A i \in Jobs : IsCreated(i) => i = j)
        => created' = Append(created, j)
  BY <1>5 DEF ObservedNext, observedVars, vars, repoVars, Statuses
<1>8. Statuses' # Statuses => stream' = stream
  BY <1>0, OneMessagePublished DEF Statuses
<1>9. CASE Statuses' = Statuses
  <2>1. created' = created
    BY <1>5, <1>6, <1>9
  <2>2. \/ stream' = stream
        \/ \E j \in Jobs : submission[j] = "created" /\ stream' = Append(stream, j)
    BY <1>0, OneMessagePublished
  <2> QED
    BY <1>1, <1>4, <1>9, <2>1, <2>2
<1>10. ASSUME NEW j \in Jobs, Statuses[j] = "Absent", Statuses' = [Statuses EXCEPT ![j] = "Submitted"]
       PROVE  Published!JobsNext
  <2>1. Statuses'[j] = "Submitted" /\ \A i \in Jobs : i # j => Statuses'[i] = Statuses[i]
    BY <1>10 DEF Statuses
  <2>2. created' = Append(created, j)
    BY <1>5, <1>7, <1>10, <2>1
  <2>3. stream' = stream
    BY <1>8, <1>10, <2>1
  <2> QED
    BY <1>3, <1>10, <2>2, <2>3
<1>11. ASSUME NEW j \in Jobs, NEW to \in {"Running", "Cancelled", "Failed", "Succeeded"},
              Statuses[j] # "Absent", Statuses[j] # to, Statuses' = [Statuses EXCEPT ![j] = to]
       PROVE  stream' = stream /\ created' = created
  <2>1. Statuses'[j] = to /\ \A i \in Jobs : i # j => Statuses'[i] = Statuses[i]
    BY <1>11 DEF Statuses
  <2> QED
    BY <1>5, <1>6, <1>8, <1>11, <2>1
<1>12. CASE \E j \in Jobs : LaterStatus(j)
  BY <1>2, <1>11, <1>12 DEF LaterStatus
<1> QED
  BY <1>0, <1>9, <1>10, <1>12, OneStatusMoves

\* The readers' models assume PublishedJobs of the rest of the system, and it is so:
\* SubmitJob (queue.go) publishes a job once its record was created, nobody else publishes,
\* and every step of a process, with requests lost and workers killed, changes one status.
THEOREM ReadersSeeTheSystem == ObservedSpec => ImplementsPublishedJobs
<1>1. ObservedInit => Published!JobsInit
  BY DEF ObservedInit, Init, RepoInit, QueueInit, NoRecord, Absent, Published!JobsInit
<1>2. ObservedSpec => Spec
  <2>1. ObservedInit => Init
    BY DEF ObservedInit
  <2>2. [ObservedNext]_observedVars => [Next]_vars
    BY DEF ObservedNext, observedVars
  <2> QED
    BY <2>1, <2>2, PTL DEF ObservedSpec, Spec
<1>3. DeliveryInv /\ [ObservedNext]_observedVars => [Published!JobsNext]_(Published!jobsVars)
  BY ReadersView
<1> QED
  BY <1>1, <1>2, <1>3, DeliveryInvariance, PTL DEF ObservedSpec, ImplementsPublishedJobs
=============================================================================
