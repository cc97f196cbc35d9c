-------------------------- MODULE GoBenchAwayNoLoss --------------------------
(***************************************************************************)
(* No accepted job is lost silently.  A message leaves the consumer only   *)
(* when it is acknowledged, and a worker acknowledges one only when it has *)
(* seen the job past Submitted, has made it so, or lets go of it because a *)
(* request failed.                                                         *)
(***************************************************************************)
EXTENDS GoBenchAwayProofs

\* What every step leaves in place.
Persists ==
    /\ abandoned \subseteq abandoned'
    /\ \A s \in DOMAIN stream : s \in DOMAIN stream' /\ stream'[s] = stream[s]

LEMMA StreamGrows ==
    ASSUME QueueTypeOK
    PROVE  /\ \A j \in Jobs, s \in DOMAIN stream :
                Publish(j) => s \in DOMAIN stream' /\ stream'[s] = stream[s]
           /\ \A j \in Jobs : Publish(j) => Len(stream) + 1 \in DOMAIN stream'
                                           /\ stream'[Len(stream) + 1] = j
BY DEF QueueTypeOK, Publish

LEMMA StepPersists ==
    ASSUME TypeOK, [Next]_vars
    PROVE  Persists
<1> USE DEF TypeOK
<1>1. ASSUME NEW j \in Jobs, SubmitNext(j) PROVE Persists
  <2>1. CASE Publish(j)
    BY <1>1, <2>1, StreamGrows DEF SubmitNext, workerVars, Persists
  <2> QED
    BY <1>1, <2>1 DEF SubmitNext, CreateRecord, PublishJob, SubmitCrash, queueVars, workerVars, Persists
<1>2. ASSUME NEW w \in Workers, WorkerNext(w) PROVE Persists
  <2>1. stream' = stream
    BY <1>2 DEF WorkerNext, WorkerStep, FetchMessage, LoadMessageJob, ClaimJob, LaunchScript,
       ScriptExits, UploadArtifact, FinishJob, AckMessage, Deliver, Redeliver, DeliverNext, Ack,
       queueVars
  <2>2. abandoned \subseteq abandoned'
    BY <1>2 DEF WorkerNext, WorkerStep, FetchMessage, LoadMessageJob, ClaimJob, LaunchScript,
       ScriptExits, UploadArtifact, FinishJob, AckMessage, LetGo, Abandon
  <2> QED
    BY <2>1, <2>2 DEF Persists
<1>3. CASE WorkerFailure
  BY <1>3 DEF WorkerFailure, LoseDelivery, CrashWorker, Abandon, Deliver, Redeliver, DeliverNext,
     queueVars, workerVars, Persists
<1>4. ASSUME NEW s \in DOMAIN stream, QueueNext(s) PROVE Persists
  BY <1>4 DEF QueueNext, AckWaitExpires, workerVars, Persists
<1>5. ASSUME UNCHANGED <<queueVars, workerVars>> PROVE Persists
  BY <1>5 DEF queueVars, workerVars, Persists
<1> QED
  BY <1>1, <1>2, <1>3, <1>4, <1>5 DEF Next, CancelNext, FailStaleNext, TimeNext, vars

LEMMA PublishedHasRecordKept ==
    ASSUME DeliveryInv, Evolves, [Next]_vars, IInv'
    PROVE  PublishedHasRecord'
<1> USE DEF DeliveryInv, IInv, TypeOK, RepoTypeOK, SubmitTypeOK
<1>1. ASSUME NEW j \in Jobs, submission[j] \in {"created", "accepted"}
      PROVE  revisions'[j] >= 1
  BY <1>1 DEF PublishedHasRecord, Evolves
<1>2. ASSUME NEW i \in Jobs, SubmitNext(i) PROVE PublishedHasRecord'
  <2>1. ASSUME submission'[i] = "created" PROVE revisions'[i] >= 1
    <3>1. UpdateJobOK(CreatedCopy(i))
      BY <1>2, <2>1 DEF SubmitNext, CreateRecord, PublishJob, SubmitCrash
    <3> QED
      BY <3>1 DEF UpdateJobOK, Put, CreatedCopy
  <2>2. submission'[i] = "accepted" => submission[i] \in {"created", "accepted"}
    BY <1>2 DEF SubmitNext, CreateRecord, PublishJob, SubmitCrash
  <2>3. \A j \in Jobs : j # i => submission'[j] = submission[j]
    BY <1>2 DEF SubmitNext, CreateRecord, PublishJob, SubmitCrash
  <2> QED
    BY <1>1, <2>1, <2>2, <2>3 DEF PublishedHasRecord
<1>3. CASE UNCHANGED submission
  BY <1>1, <1>3 DEF PublishedHasRecord
<1> QED
  BY <1>2, <1>3 DEF Next, QueueNext, WorkerNext, WorkerFailure, CancelNext, FailStaleNext, TimeNext,
     submitVars, vars

\* Any step of the system publishes one message, of a job whose record was created and
\* whose submit command is then over, or leaves the stream as it is.
LEMMA OneMessagePublished ==
    ASSUME TypeOK, [Next]_vars
    PROVE  \/ stream' = stream
           \/ \E j \in Jobs :
                /\ submission[j] = "created"
                /\ submission'[j] \in {"accepted", "failed"}
                /\ \A i \in Jobs : i # j => submission'[i] = submission[i]
                /\ stream' = Append(stream, j)
                /\ records' = records
<1> USE DEF TypeOK, SubmitTypeOK
<1>1. ASSUME NEW j \in Jobs, PublishJob(j), stream' # stream
      PROVE  /\ submission[j] = "created"
             /\ submission'[j] \in {"accepted", "failed"}
             /\ \A i \in Jobs : i # j => submission'[i] = submission[i]
             /\ stream' = Append(stream, j)
             /\ records' = records
  BY <1>1 DEF PublishJob, Publish, queueVars, repoVars
<1>2. ASSUME NEW j \in Jobs, CreateRecord(j) \/ SubmitCrash(j) PROVE stream' = stream
  BY <1>2 DEF CreateRecord, SubmitCrash, queueVars
<1>3. ASSUME NEW w \in Workers, WorkerNext(w) PROVE stream' = stream
  BY <1>3 DEF WorkerNext, WorkerStep, FetchMessage, LoadMessageJob, ClaimJob, LaunchScript,
     ScriptExits, UploadArtifact, FinishJob, AckMessage, Deliver, Redeliver, DeliverNext, Ack,
     queueVars
<1>4. CASE WorkerFailure
  BY <1>4 DEF WorkerFailure, LoseDelivery, CrashWorker, Deliver, Redeliver, DeliverNext, queueVars
<1>5. ASSUME NEW s \in DOMAIN stream, QueueNext(s) PROVE stream' = stream
  BY <1>5 DEF QueueNext, AckWaitExpires
<1>6. CASE UNCHANGED queueVars
  BY <1>6 DEF queueVars
<1> QED
  BY <1>1, <1>2, <1>3, <1>4, <1>5, <1>6 DEF Next, SubmitNext, CancelNext, FailStaleNext, TimeNext, vars

\* Once a submit command is over it stays so.
LEMMA OverStaysOver ==
    ASSUME TypeOK, [Next]_vars, NEW j \in Jobs, submission[j] \in {"accepted", "failed"}
    PROVE  submission'[j] \in {"accepted", "failed"}
<1>1. ASSUME NEW i \in Jobs, SubmitNext(i) PROVE submission'[j] = submission[j]
  BY <1>1 DEF SubmitNext, CreateRecord, PublishJob, SubmitCrash, TypeOK, SubmitTypeOK
<1>2. CASE UNCHANGED submission
  BY <1>2
<1> QED
  BY <1>1, <1>2 DEF Next, QueueNext, WorkerNext, WorkerFailure, CancelNext, FailStaleNext, TimeNext,
     submitVars, vars

LEMMA PublishedStaysOver ==
    ASSUME TypeOK, PublishedIsOver, [Next]_vars
    PROVE  PublishedIsOver'
<1> USE DEF TypeOK, QueueTypeOK
<1>1. ASSUME NEW s \in DOMAIN stream PROVE submission'[stream[s]] \in {"accepted", "failed"}
  BY <1>1, OverStaysOver DEF PublishedIsOver
<1>2. CASE stream' = stream
  BY <1>1, <1>2 DEF PublishedIsOver
<1>3. ASSUME NEW j \in Jobs, submission'[j] \in {"accepted", "failed"}, stream' = Append(stream, j)
      PROVE  PublishedIsOver'
  BY <1>1, <1>3 DEF PublishedIsOver
<1> QED
  BY <1>2, <1>3, OneMessagePublished

\* The job of a worker's message, now and after a step.
LEMMA MessageJob ==
    ASSUME TypeOK, Persists, NEW w \in Workers, wpc[w] # "fetch"
    PROVE  /\ wmsg[w] \in DOMAIN stream
           /\ stream[wmsg[w]] \in Jobs
           /\ stream'[wmsg[w]] = stream[wmsg[w]]
BY DEF TypeOK, WorkerTypeOK, QueueTypeOK, Persists

LEMMA OtherWorkerKept ==
    ASSUME DeliveryInv, Evolves, Persists, NEW w \in Workers,
           wpc'[w] = wpc[w], wmsg'[w] = wmsg[w], wjob'[w] = wjob[w]
    PROVE  /\ wpc'[w] = "claim" \/ AtWork(w)' => wjob'[w].id = stream'[wmsg'[w]]
           /\ wpc'[w] = "ack" =>
                stream'[wmsg'[w]] \in abandoned' \/ revisions'[stream'[wmsg'[w]]] >= 2
<1> USE DEF DeliveryInv, IInv
<1>1. CASE wpc[w] = "fetch"
  BY <1>1 DEF AtWork, Uploading
<1>2. CASE wpc[w] # "fetch"
  <2>1. stream[wmsg[w]] \in Jobs /\ stream'[wmsg[w]] = stream[wmsg[w]]
    BY <1>2, MessageJob
  <2>2. wpc[w] = "ack" => stream[wmsg[w]] \in abandoned \/ revisions[stream[wmsg[w]]] >= 2
    BY DEF AckJustified
  <2>3. revisions[stream[wmsg[w]]] >= 2 => revisions'[stream[wmsg[w]]] >= 2
    BY <2>1 DEF Evolves, TypeOK, RepoTypeOK
  <2> QED
    BY <2>1, <2>2, <2>3 DEF MessageCopies, AtWork, Persists
<1> QED
  BY <1>1, <1>2

LEMMA WorkerKept ==
    ASSUME DeliveryInv, Evolves, Persists, IInv', NEW w \in Workers, WorkerNext(w)
    PROVE  /\ wpc'[w] = "claim" \/ AtWork(w)' => wjob'[w].id = stream'[wmsg'[w]]
           /\ wpc'[w] = "ack" =>
                stream'[wmsg'[w]] \in abandoned' \/ revisions'[stream'[wmsg'[w]]] >= 2
           /\ \A v \in Workers : v # w => wpc'[v] = wpc[v] /\ wmsg'[v] = wmsg[v] /\ wjob'[v] = wjob[v]
<1> USE DEF DeliveryInv, IInv, TypeOK, WorkerTypeOK
<1> DEFINE j == stream[wmsg[w]]
<1>1. wpc[w] # "fetch" => j \in Jobs /\ stream'[wmsg[w]] = j
  BY MessageJob
<1>2. CASE FetchMessage(w)
  BY <1>2 DEF FetchMessage, Goto, AtWork, Uploading
<1>3. CASE AckMessage(w)
  BY <1>3 DEF AckMessage, BackToFetch, Goto, Hold, AtWork, Uploading
<1>4. CASE LoadMessageJob(w)
  <2>1. /\ wmsg' = wmsg /\ wpc'[w] \in {"ack", "claim"}
        /\ \A v \in Workers : v # w => wpc'[v] = wpc[v] /\ wjob'[v] = wjob[v]
    BY <1>4 DEF LoadMessageJob, Goto, Hold
  <2>2. wpc'[w] = "claim" => wjob'[w].id = j
    BY <1>4 DEF LoadMessageJob, Goto, Hold, Claim, Loaded
  <2>3. wpc'[w] = "ack" => j \in abandoned' \/ revisions'[j] >= 2
    <3>1. CASE LoadFails(j) /\ Abandon(j)
      BY <3>1 DEF Abandon
    <3>2. CASE RecordExists(j) /\ ~IsClaimable(Loaded(j))
      <4>1. revisions[j] \notin {0, 1}
        BY <1>1, <1>4, <3>2 DEF LoadMessageJob, RecordExists, IsClaimable, Loaded, RecordsInv,
           RevisionTellsStatus, Absent
      <4> QED
        BY <1>1, <1>4, <4>1 DEF LoadMessageJob, RepoTypeOK, Evolves
    <3> QED
      BY <1>4, <3>1, <3>2 DEF LoadMessageJob, Goto
  <2> QED
    BY <1>1, <1>4, <2>1, <2>2, <2>3 DEF LoadMessageJob, AtWork, Uploading
<1>5. CASE ClaimJob(w)
  <2> DEFINE job == wjob[w]
  <2>1. /\ wmsg' = wmsg /\ wpc'[w] \in {"ack", "launch", "finish"}
        /\ \A v \in Workers : v # w => wpc'[v] = wpc[v] /\ wjob'[v] = wjob[v]
        /\ wpc[w] = "claim" /\ job.id = j /\ j \in Jobs /\ job \in HeldJobs
    BY <1>1, <1>5 DEF ClaimJob, Goto, Hold, MessageCopies
  <2>2. wpc'[w] \in {"launch", "finish"} => wjob'[w].id = j
    <3>1. Claimed(job).id = job.id /\ Denied(Claimed(job)).id = job.id
      BY <2>1, CopiesTyped
    <3> QED
      BY <1>5, <2>1, <3>1 DEF ClaimJob, Goto, Hold
  <2>3. wpc'[w] = "ack" => j \in abandoned' \/ revisions'[j] >= 2
    <3>1. wpc'[w] = "ack" => LetGo(job) /\ UpdateJobFails(job)
      BY <1>5, <2>1 DEF ClaimJob, Goto
    <3>2. job.rev = 1 /\ revisions[j] >= 1
      BY <2>1 DEF WorkerCopies, WorkerCopy, ClaimingCopy
    <3>3. ~RevisionMatches(job) => revisions'[j] >= 2
      BY <2>1, <3>2 DEF RevisionMatches, Evolves, RepoTypeOK
    <3> QED
      BY <2>1, <3>1, <3>3 DEF LetGo, Abandon
  <2> QED
    BY <1>1, <2>1, <2>2, <2>3 DEF AtWork, Uploading
<1>6. CASE LaunchScript(w) \/ ScriptExits(w)
  <2>1. /\ wmsg' = wmsg /\ wpc'[w] \in {"run", "log"}
        /\ \A v \in Workers : v # w => wpc'[v] = wpc[v] /\ wjob'[v] = wjob[v]
        /\ wpc[w] \in {"launch", "run"} /\ wjob[w].id = j /\ wjob[w] \in HeldJobs
    BY <1>6 DEF LaunchScript, ScriptExits, Goto, Hold, MessageCopies, AtWork
  <2>2. wjob'[w].id = j
    BY <1>6, <2>1 DEF LaunchScript, ScriptExits, Hold, Finished, HeldJobs
  <2> QED
    BY <1>1, <2>1, <2>2
<1>7. ASSUME NEW kind \in ArtifactKinds, UploadArtifact(w, kind)
      PROVE  /\ wmsg' = wmsg /\ wpc'[w] \in {"results", "script", "finish"}
             /\ \A v \in Workers : v # w => wpc'[v] = wpc[v] /\ wjob'[v] = wjob[v]
             /\ wpc[w] # "fetch" /\ wjob'[w].id = j
  <2>1. /\ wmsg' = wmsg /\ wpc'[w] \in {"results", "script", "finish"}
        /\ \A v \in Workers : v # w => wpc'[v] = wpc[v] /\ wjob'[v] = wjob[v]
        /\ wpc[w] \in Uploading /\ wjob[w].id = j /\ wjob[w] \in HeldJobs
    BY <1>7 DEF UploadArtifact, AfterUpload, ArtifactKinds, Uploading, Goto, Hold, MessageCopies, AtWork
  <2>2. wjob'[w] \in {Referring(wjob[w], kind), UploadError(wjob[w])}
    BY <1>7 DEF UploadArtifact, Hold
  <2>3. Referring(wjob[w], kind).id = j /\ UploadError(wjob[w]).id = j
    BY <2>1 DEF Referring, UploadError, HeldJobs
  <2> QED
    BY <2>1, <2>2, <2>3 DEF Uploading
<1>8. CASE FinishJob(w)
  <2>1. /\ wmsg' = wmsg /\ wpc'[w] = "ack" /\ wjob' = wjob
        /\ \A v \in Workers : v # w => wpc'[v] = wpc[v]
        /\ wpc[w] = "finish" /\ wjob[w].id = j
    BY <1>8 DEF FinishJob, Goto, MessageCopies, AtWork
  <2>2. revisions[j] >= 2
    BY <2>1 DEF WorkerCopies, WorkerCopy, WorkingCopy, AtWork
  <2> QED
    BY <1>1, <2>1, <2>2 DEF Evolves, RepoTypeOK, AtWork, Uploading
<1> QED
  BY <1>1, <1>2, <1>3, <1>4, <1>5, <1>6, <1>7, <1>8 DEF WorkerNext, WorkerStep
\* The sequence s can still be delivered.
Live(s) == s > delivered \/ s \in pending \union expired

LEMMA QueueKeepsLive ==
    ASSUME QueueTypeOK, NEW s \in DOMAIN stream, Live(s)
    PROVE  /\ \A j \in Jobs : Publish(j) => Live(s)'
           /\ \A r \in DOMAIN stream : Deliver(r) \/ AckWaitExpires(r) => Live(s)'
           /\ \A r \in 0 .. Len(stream) : r # s /\ Ack(r) => Live(s)'
           /\ UNCHANGED queueVars => Live(s)'
BY DEF QueueTypeOK, Live, Publish, Deliver, Redeliver, DeliverNext, AckWaitExpires, Ack, queueVars

LEMMA PublishedIsDeliverable ==
    ASSUME QueueTypeOK, NEW j \in Jobs, Publish(j)
    PROVE  Deliverable(j)'
<1>1. Len(stream) + 1 \in DOMAIN stream' /\ stream'[Len(stream) + 1] = j
  BY StreamGrows
<1>2. Len(stream) + 1 > delivered'
  BY DEF Publish, QueueTypeOK
<1> QED
  BY <1>1, <1>2 DEF Deliverable

\* A job that is Submitted after a step, and was accepted, was Submitted before.
LEMMA WasSubmitted ==
    ASSUME DeliveryInv, IInv', Evolves, NEW j \in Jobs,
           submission[j] \in {"created", "accepted"}, records'[j].status = "Submitted"
    PROVE  revisions[j] = 1 /\ records[j].status = "Submitted"
<1>1. revisions'[j] = 1
  BY DEF IInv, RecordsInv, RevisionTellsStatus
<1>2. revisions[j] \in Nat /\ revisions[j] >= 1 /\ revisions[j] <= revisions'[j]
  BY DEF DeliveryInv, IInv, TypeOK, RepoTypeOK, PublishedHasRecord, Evolves
<1>3. revisions[j] = 1
  BY <1>1, <1>2
<1> QED
  BY <1>3 DEF DeliveryInv, IInv, RecordsInv, RevisionTellsStatus

\* An accepted job that is still Submitted keeps its message, or is let go of.
LEMMA MessageKept ==
    ASSUME DeliveryInv, IInv', Evolves, Persists, [Next]_vars, NEW j \in Jobs,
           submission[j] = "accepted", records'[j].status = "Submitted"
    PROVE  Deliverable(j)' \/ j \in abandoned'
<1> USE DEF DeliveryInv, IInv, TypeOK
<1>1. revisions[j] = 1 /\ records[j].status = "Submitted"
  BY WasSubmitted
<1>2. CASE j \in abandoned
  BY <1>2 DEF Persists
<1>3. ASSUME NEW s \in DOMAIN stream, stream[s] = j, Live(s), Live(s)'
      PROVE  Deliverable(j)'
  BY <1>3 DEF Persists, Deliverable, Live
<1>4. ASSUME NEW s \in DOMAIN stream, stream[s] = j, Live(s), j \notin abandoned
      PROVE  Live(s)'
  <2>1. ASSUME NEW i \in Jobs, SubmitNext(i) PROVE Live(s)'
    BY <1>4, <2>1, QueueKeepsLive DEF SubmitNext, CreateRecord, PublishJob, SubmitCrash
  <2>2. ASSUME NEW r \in DOMAIN stream, QueueNext(r) PROVE Live(s)'
    BY <1>4, <2>2, QueueKeepsLive DEF QueueNext
  <2>3. ASSUME NEW w \in Workers, WorkerNext(w) PROVE Live(s)'
    <3>1. CASE AckMessage(w)
      <4>1. stream[wmsg[w]] \in abandoned \/ revisions[stream[wmsg[w]]] >= 2
        BY <3>1 DEF AckMessage, AckJustified
      <4>2. wmsg[w] # s /\ wmsg[w] \in 0 .. Len(stream)
        BY <1>1, <1>4, <4>1 DEF WorkerTypeOK
      <4> QED
        BY <1>4, <3>1, <4>2, QueueKeepsLive DEF AckMessage
    <3>2. CASE FetchMessage(w)
      BY <1>4, <3>2, QueueKeepsLive DEF FetchMessage
    <3>3. CASE ~AckMessage(w) /\ ~FetchMessage(w)
      <4>1. UNCHANGED queueVars
        BY <2>3, <3>3 DEF WorkerNext, WorkerStep, LoadMessageJob, ClaimJob, LaunchScript,
           ScriptExits, UploadArtifact, FinishJob
      <4> QED
        BY <1>4, <4>1, QueueKeepsLive
    <3> QED
      BY <3>1, <3>2, <3>3
  <2>4. CASE WorkerFailure
    BY <1>4, <2>4, QueueKeepsLive DEF WorkerFailure, LoseDelivery, CrashWorker
  <2>5. CASE UNCHANGED queueVars
    BY <1>4, <2>5, QueueKeepsLive
  <2> QED
    BY <2>1, <2>2, <2>3, <2>4, <2>5 DEF Next, CancelNext, FailStaleNext, TimeNext, vars
<1>5. Deliverable(j) \/ j \in abandoned
  BY <1>1 DEF NoSilentLoss
<1> QED
  BY <1>2, <1>3, <1>4, <1>5 DEF Deliverable, Live

LEMMA NoSilentLossKept ==
    ASSUME DeliveryInv, IInv', Evolves, Persists, [Next]_vars
    PROVE  NoSilentLoss'
<1> SUFFICES ASSUME NEW j \in Jobs, submission'[j] = "accepted", records'[j].status = "Submitted"
             PROVE  Deliverable(j)' \/ j \in abandoned'
  BY DEF NoSilentLoss
<1>1. CASE submission[j] = "accepted"
  BY <1>1, MessageKept
<1>2. CASE submission[j] # "accepted"
  <2>1. Publish(j)
    BY <1>2 DEF DeliveryInv, IInv, TypeOK, SubmitTypeOK, Next, SubmitNext, CreateRecord, PublishJob,
       SubmitCrash, QueueNext, WorkerNext, WorkerFailure, CancelNext, FailStaleNext, TimeNext,
       submitVars, vars
  <2> QED
    BY <2>1, PublishedIsDeliverable DEF DeliveryInv, IInv, TypeOK
<1> QED
  BY <1>1, <1>2

\* What MessageCopies and AckJustified say of one worker.
HandlesOwnMessage(w) ==
    /\ wpc[w] = "claim" \/ AtWork(w) => wjob[w].id = stream[wmsg[w]]
    /\ wpc[w] = "ack" => stream[wmsg[w]] \in abandoned \/ revisions[stream[wmsg[w]]] >= 2

LEMMA HandlingKept ==
    ASSUME DeliveryInv, IInv', Evolves, Persists, [Next]_vars, NEW w \in Workers
    PROVE  HandlesOwnMessage(w)'
<1>1. CASE wpc'[w] = wpc[w] /\ wmsg'[w] = wmsg[w] /\ wjob'[w] = wjob[w]
  BY <1>1, OtherWorkerKept DEF HandlesOwnMessage
<1>2. ASSUME NEW v \in Workers, WorkerNext(v) PROVE HandlesOwnMessage(w)'
  BY <1>1, <1>2, WorkerKept DEF HandlesOwnMessage
<1>3. CASE WorkerFailure
  <2>1. ASSUME NEW v \in Workers, CrashWorker(v) PROVE HandlesOwnMessage(w)'
    <3>1. CASE v = w
      BY <2>1, <3>1 DEF CrashWorker, BackToFetch, Goto, HandlesOwnMessage, AtWork, Uploading,
         DeliveryInv, IInv, TypeOK, WorkerTypeOK
    <3>2. CASE v # w
      BY <1>1, <2>1, <3>2 DEF CrashWorker, BackToFetch, Goto, Hold, DeliveryInv, IInv, TypeOK,
         WorkerTypeOK
    <3> QED
      BY <3>1, <3>2
  <2>2. CASE LoseDelivery
    BY <1>1, <2>2 DEF LoseDelivery, workerVars
  <2> QED
    BY <1>3, <2>1, <2>2 DEF WorkerFailure
<1>4. CASE UNCHANGED workerVars
  BY <1>1, <1>4 DEF workerVars
<1> QED
  BY <1>2, <1>3, <1>4 DEF Next, SubmitNext, QueueNext, CancelNext, FailStaleNext, TimeNext, vars

\* A published job has a record, the copy a worker holds is that of its message's job, and
\* a worker acknowledges a message (DispatchJobs) only once its job is past Submitted or
\* was let go of: together, why no accepted job loses its message without a cause.
THEOREM DeliveryInvariance == Spec => []DeliveryInv
<1>1. Init => DeliveryInv
  BY InitInvariant DEF Init, SubmitInit, WorkerInit, DeliveryInv, PublishedHasRecord, MessageCopies,
     AckJustified, NoSilentLoss, AtWork, Uploading, QueueInit, PublishedIsOver
<1>2. DeliveryInv /\ [Next]_vars => DeliveryInv'
  <2> SUFFICES ASSUME DeliveryInv, [Next]_vars PROVE DeliveryInv'
    OBVIOUS
  <2>1. IInv' /\ Evolves
    BY NextInvariant DEF DeliveryInv
  <2>2. Persists
    BY StepPersists DEF DeliveryInv, IInv
  <2>3. MessageCopies' /\ AckJustified'
    BY <2>1, <2>2, HandlingKept DEF HandlesOwnMessage, MessageCopies, AckJustified
  <2> QED
    BY <2>1, <2>2, <2>3, PublishedHasRecordKept, PublishedStaysOver, NoSilentLossKept
    DEF DeliveryInv, IInv
<1> QED
  BY <1>1, <1>2, PTL DEF Spec

\* An accepted job that is still Submitted has a message that can be delivered,
\* or was let go of because a request failed or a worker was killed (the
\* acknowledgements of DispatchJobs never lose a job otherwise).
THEOREM NothingLostSilently == Spec => []NoSilentLoss
<1>1. DeliveryInv => NoSilentLoss
  BY DEF DeliveryInv
<1> QED
  BY <1>1, DeliveryInvariance, PTL
==============================================================================
