---------------------------- MODULE GoBenchAway ----------------------------
(***************************************************************************)
(* The life of the jobs of one namespace: submit commands, workers, cancel *)
(* requests and the fail-stale command, each a process of its own, around  *)
(* the jobs queue, the jobs repository and the artifacts store they share. *)
(***************************************************************************)
EXTENDS Submit, Worker, Cancel, FailStale

vars == <<repoVars, queueVars, submitVars, workerVars, cancelVars, failStaleVars>>

Init ==
    /\ RepoInit
    /\ QueueInit
    /\ SubmitInit
    /\ WorkerInit
    /\ CancelInit
    /\ FailStaleInit

SubmitNext(j) ==
    /\ CreateRecord(j) \/ PublishJob(j) \/ SubmitCrash(j)
    /\ UNCHANGED <<workerVars, cancelVars, failStaleVars>>

QueueNext(s) ==
    /\ AckWaitExpires(s)
    /\ UNCHANGED <<repoVars, submitVars, workerVars, cancelVars, failStaleVars>>

WorkerNext(w) ==
    /\ WorkerStep(w)
    /\ UNCHANGED <<submitVars, cancelVars, failStaleVars>>

WorkerFailure ==
    /\ LoseDelivery \/ \E w \in Workers : CrashWorker(w)
    /\ UNCHANGED <<submitVars, cancelVars, failStaleVars>>

CancelNext(c) ==
    /\ CancelUpdate(c) \/ \E j \in Jobs : CancelLoad(c, j)
    /\ UNCHANGED <<queueVars, submitVars, workerVars, failStaleVars>>

FailStaleNext ==
    /\ FailStaleStep
    /\ UNCHANGED <<queueVars, submitVars, workerVars, cancelVars>>

TimeNext(j) ==
    /\ TimeoutElapses(j)
    /\ UNCHANGED <<queueVars, submitVars, workerVars, cancelVars>>

Next ==
    \/ \E j \in Jobs : SubmitNext(j) \/ TimeNext(j)
    \/ \E s \in DOMAIN stream : QueueNext(s)
    \/ \E w \in Workers : WorkerNext(w)
    \/ WorkerFailure
    \/ \E c \in Cancellers : CancelNext(c)
    \/ FailStaleNext

Spec == Init /\ [][Next]_vars

(***************************************************************************)
(* Safety.                                                                 *)
(***************************************************************************)

\* Every variable has its type, and a worker has a message in hand exactly
\* when it is not waiting for one.
TypeOK ==
    /\ RepoTypeOK
    /\ QueueTypeOK
    /\ SubmitTypeOK
    /\ WorkerTypeOK
    /\ CancelTypeOK
    /\ FailStaleTypeOK

\* A benchmark script is started at most once per job, although its message is
\* delivered at least once: to two workers when the first one is slow, again
\* after a worker was killed, and while cancel and fail-stale write the record.
AtMostOnce == \A j \in Jobs : executions[j] <= 1

\* A job whose cancellation was confirmed stays Cancelled and its script never
\* starts, even though its message is still delivered and a worker may have
\* loaded the record before the cancellation.
CancelledNeverRuns ==
    \A j \in cancelled : records[j].status = "Cancelled" /\ executions[j] = 0

\* A Succeeded record refers to all three artifacts, and whatever a finished
\* record refers to is in the store and was put there by the record's worker.
ArtifactsBacked ==
    \A j \in Jobs :
        /\ records[j].status = "Succeeded" => records[j].artifacts = ArtifactKinds
        /\ \A k \in records[j].artifacts :
            /\ records[j].worker # NoWorker
            /\ artifacts[j][k] = records[j].worker

\* The worker a Running record names is working on that job, or it was killed
\* or a request of it failed.
WorksOn(w, j) == AtWork(w) /\ wjob[w].id = j
RunningIsAttended ==
    \A j \in Jobs : records[j].status = "Running" =>
        j \in abandoned \/ \E w \in Workers : records[j].worker = w /\ WorksOn(w, j)

\* No job is lost silently: the message of one whose submit succeeded and that
\* is still Submitted is to be delivered or not acknowledged, so that it will be
\* delivered again, or a worker skipped the job because a request failed.
NoSilentLoss ==
    \A j \in Jobs : submission[j] = "accepted" /\ records[j].status = "Submitted" =>
        Deliverable(j) \/ j \in abandoned

\* The record of a completed job never changes again, whatever copies of older
\* revisions are still held.
FinalForever ==
    [][\A j \in Jobs : IsCompleted(records[j]) => records'[j] = records[j]]_vars

\* A running job becomes Failed only by its own worker's final update, or by
\* fail-stale once its timeout is over.
FailsForCause ==
    [][\A j \in Jobs :
        records[j].status = "Running" /\ records'[j].status = "Failed" =>
            \/ j \in overdue /\ fjob.id = j
            \/ \E w \in Workers : wpc[w] = "finish" /\ WorksOn(w, j) /\ records[j].worker = w
      ]_vars

\* The stores and processes together implement the lifecycle of each job.
Lifecycle == INSTANCE JobLifecycle WITH
    status <- [j \in Jobs |-> records[j].status],
    executed <- {j \in Jobs : executions[j] > 0}
ImplementsLifecycle == Lifecycle!Spec

(***************************************************************************)
(* Liveness.  A worker that is not killed keeps going and every so often   *)
(* gets the message it asks for (the server answers pull requests in turn);*)
(* an AckWait is over some day.  In OperatedSpec so is a timeout, and      *)
(* fail-stale is run again and again (by its operator; nothing in the code *)
(* schedules it).                                                          *)
(***************************************************************************)
WorkerFairness(w) ==
    /\ WF_vars(WorkerNext(w))
    /\ SF_vars(WorkerNext(w) /\ wpc[w] = "fetch")

QueueFairness ==
    \A s \in 1 .. Cardinality(Jobs) : WF_vars(QueueNext(s))

Fairness ==
    /\ \A w \in Workers \ CrashProne : WorkerFairness(w)
    /\ QueueFairness

OperatorFairness ==
    /\ WF_vars(FailStaleNext)
    /\ \A j \in Jobs : WF_vars(TimeNext(j))

FairSpec == Spec /\ Fairness

OperatedSpec == FairSpec /\ OperatorFairness

\* Every job whose submit succeeded ends: a worker finishes it or it is
\* cancelled; where workers are killed, fail-stale fails the jobs they left.
AcceptedJobsComplete ==
    \A j \in Jobs : submission[j] = "accepted" ~> IsCompleted(records[j])

\* cmd/fail_stale.go:21: fail-stale marks "all stale Submitted/Running jobs as
\* Failed", so a job that is Submitted but was never published fails one day.
StaleSubmittedIsFailed ==
    \A j \in Jobs :
        (submission[j] = "failed" /\ records[j].status = "Submitted")
            ~> IsCompleted(records[j])
=============================================================================
