------------------------------- MODULE Worker -------------------------------
(***************************************************************************)
(* The `worker` command: DispatchJobs fetches one message at a time from   *)
(* the shared consumer and calls processJob for it; processJob claims the  *)
(* record, runs the benchmark script, uploads the artifacts and writes the *)
(* final status.  The message is acknowledged after processJob, whatever   *)
(* came of it.  A worker may also be killed at any point and started again.*)
(*                                                                         *)
(* wpc[w] is the request or step the worker is about to make.  Fetching    *)
(* without a message (a timeout, an error) leaves everything as it is.     *)
(* Not here: the context of DispatchJobs, which nothing cancels, and the   *)
(* branches for a message without job id and for a record stored under the *)
(* key of another job, which SubmitJob never writes.                       *)
(***************************************************************************)
EXTENDS JobsRepository, JobsQueue

CONSTANTS
    CrashProne, \* the workers that may be killed
    Allowed     \* <<w, j>>: the job's git remote passes the worker's filter

ASSUME CrashProneAssumption == CrashProne \subseteq Workers
ASSUME AllowedAssumption == Allowed \subseteq Workers \X Jobs

VARIABLES
    wpc,        \* worker -> where it is
    wmsg,       \* worker -> the sequence of the message it handles, 0 if none
    wjob,       \* worker -> its copy of the job's record
    executions, \* job -> how often its script was started (history)
    abandoned   \* jobs a worker let go of unfinished because it was killed
                \* or a request failed (history)

workerVars == <<wpc, wmsg, wjob, executions, abandoned>>

Uploading == {"log", "results", "script"}
WorkerStates ==
    {"fetch", "load", "claim", "launch", "run", "finish", "ack"} \union Uploading

WorkerTypeOK ==
    /\ wpc \in [Workers -> WorkerStates]
    /\ wmsg \in [Workers -> 0 .. Len(stream)]
    /\ \A w \in Workers : wmsg[w] = 0 <=> wpc[w] = "fetch"
    /\ \A w \in Workers : wpc[w] \notin {"fetch", "load", "ack"} => wjob[w].id \in Jobs
    /\ wjob \in [Workers -> HeldJobs]
    /\ executions \in [Jobs -> Nat]
    /\ abandoned \subseteq Jobs

WorkerInit ==
    /\ wpc = [w \in Workers |-> "fetch"]
    /\ wmsg = [w \in Workers |-> 0]
    /\ wjob = [w \in Workers |-> NothingHeld]
    /\ executions = [j \in Jobs |-> 0]
    /\ abandoned = {}

Goto(w, pc) == wpc' = [wpc EXCEPT ![w] = pc]
Hold(w, job) == wjob' = [wjob EXCEPT ![w] = job]
Abandon(j) == abandoned' = abandoned \union {j}

\* The worker is back in the dispatch loop with nothing in hand.
BackToFetch(w) ==
    /\ Goto(w, "fetch")
    /\ Hold(w, NothingHeld)
    /\ wmsg' = [wmsg EXCEPT ![w] = 0]

\* An update failed: the job is let go of unless somebody else changed it.
LetGo(job) ==
    IF RevisionMatches(job) THEN Abandon(job.id) ELSE UNCHANGED abandoned

(***************************************************************************)
(* The dispatch loop.                                                      *)
(***************************************************************************)
FetchMessage(w) ==
    /\ wpc[w] = "fetch"
    /\ \E s \in DOMAIN stream :
        /\ Deliver(s)
        /\ wmsg' = [wmsg EXCEPT ![w] = s]
    /\ Goto(w, "load")
    /\ UNCHANGED <<repoVars, wjob, executions, abandoned>>

\* A delivery that never reaches the worker stays unacknowledged.
LoseDelivery ==
    /\ RequestLost
    /\ \E w \in Workers : wpc[w] = "fetch"
    /\ \E s \in DOMAIN stream : Deliver(s)
    /\ UNCHANGED <<repoVars, workerVars>>

IsClaimableAlways(job) == TRUE
IsClaimable(job) == job.rec.status = "Submitted"

\* SetRunningStatus and WorkerInfo, set on the local copy before the update.
Claim(w, job) ==
    [job EXCEPT !.rec = [SetRunningStatus(@) EXCEPT !.worker = w]]

\* LoadJob and the status checks: a job that cannot be loaded is skipped for
\* good (its message is acknowledged) and so is one not Submitted any more.
LoadMessageJob(w) ==
    LET j == stream[wmsg[w]] IN
    /\ wpc[w] = "load"
    /\ \/ LoadFails(j) /\ Goto(w, "ack") /\ Abandon(j) /\ UNCHANGED wjob
       \/ /\ RecordExists(j)
          /\ ~IsClaimable(Loaded(j))
          /\ Goto(w, "ack")
          /\ UNCHANGED <<wjob, abandoned>>
       \/ /\ RecordExists(j)
          /\ IsClaimable(Loaded(j))
          /\ Hold(w, Claim(w, Loaded(j)))
          /\ Goto(w, "claim")
          /\ UNCHANGED abandoned
    /\ UNCHANGED <<repoVars, queueVars, wmsg, executions>>

AckMessageNever(w) ==
    /\ wpc[w] = "ack"
    /\ BackToFetch(w)
    /\ UNCHANGED <<repoVars, queueVars, executions, abandoned>>
AckMessage(w) ==
    /\ wpc[w] = "ack"
    /\ \/ Ack(wmsg[w])
       \/ RequestLost /\ UNCHANGED queueVars
    /\ BackToFetch(w)
    /\ UNCHANGED <<repoVars, executions, abandoned>>

(***************************************************************************)
(* processJob.                                                             *)
(***************************************************************************)
ClaimedStaleRevision(job) == job
Claimed(job) == [job EXCEPT !.rev = @ + 1]
Denied(job) == [job EXCEPT !.rec = SetFinalStatus(@, "Failed")]

\* Whether the job's git remote matches one of the worker's expressions.
IsAllowed(w, j) == <<w, j>> \in Allowed

\* Nothing is retried: a worker whose claim fails drops the job, the one whose
\* reply was lost included, and that one's record says Running.
ClaimJob(w) ==
    LET job == wjob[w] IN
    /\ wpc[w] = "claim"
    /\ \/ /\ UpdateJobOK(job)
          /\ \/ /\ IsAllowed(w, job.id)
                /\ Hold(w, Claimed(job))
                /\ Goto(w, "launch")
             \/ /\ ~IsAllowed(w, job.id)
                /\ Hold(w, Denied(Claimed(job)))
                /\ Goto(w, "finish")
          /\ UNCHANGED abandoned
       \/ /\ UpdateJobFails(job)
          /\ Goto(w, "ack")
          /\ LetGo(job)
          /\ UNCHANGED wjob
    /\ UNCHANGED <<queueVars, wmsg, executions>>

FinishedUnset(job, status) == job
Finished(job, status) == [job EXCEPT !.rec = SetFinalStatus(@, status)]

\* runJob up to cmd.Start: the script runs from here, or could not be written.
LaunchScript(w) ==
    LET job == wjob[w] IN
    /\ wpc[w] = "launch"
    /\ \/ /\ executions' = [executions EXCEPT ![job.id] = @ + 1]
          /\ Goto(w, "run")
          /\ UNCHANGED wjob
       \/ /\ Hold(w, Finished(job, "Failed"))
          /\ Goto(w, "log")
          /\ UNCHANGED executions
    /\ UNCHANGED <<repoVars, queueVars, wmsg, abandoned>>

\* The script exits, with zero or not.
ScriptExits(w) ==
    /\ wpc[w] = "run"
    /\ \E status \in {"Succeeded", "Failed"} : Hold(w, Finished(wjob[w], status))
    /\ Goto(w, "log")
    /\ UNCHANGED <<repoVars, queueVars, wmsg, executions, abandoned>>

Referring(job, kind) == [job EXCEPT !.rec.artifacts = @ \union {kind}]
AfterUpload(kind) ==
    CASE kind = "log"     -> "results"
      [] kind = "results" -> "script"
      [] kind = "script"  -> "finish"

\* The uploads are made in turn and none is skipped after another one failed;
\* any failure makes the job Failed.
UploadErrorIgnored(job) == job
UploadError(job) == [job EXCEPT !.rec.status = "Failed"]

UploadArtifact(w, kind) ==
    LET job == wjob[w] IN
    /\ wpc[w] = kind
    /\ \/ StoreArtifact(job.id, kind, w) /\ Hold(w, Referring(job, kind))
       \/ StoreArtifactFails(job.id, kind, w) /\ Hold(w, UploadError(job))
    /\ Goto(w, AfterUpload(kind))
    /\ UNCHANGED <<queueVars, wmsg, executions, abandoned>>

\* The final update, over the revision of the claim; its error is only logged.
FinishJob(w) ==
    LET job == wjob[w] IN
    /\ wpc[w] = "finish"
    /\ \/ UpdateJobOK(job) /\ UNCHANGED abandoned
       \/ UpdateJobFails(job) /\ LetGo(job)
    /\ Goto(w, "ack")
    /\ UNCHANGED <<queueVars, wmsg, wjob, executions>>

(***************************************************************************)
(* The process is killed; a new one starts over with nothing.              *)
(***************************************************************************)
AtWork(w) == wpc[w] \in {"launch", "run", "finish"} \union Uploading

CrashWorker(w) ==
    /\ w \in CrashProne
    /\ wpc[w] # "fetch"
    /\ IF AtWork(w) THEN Abandon(wjob[w].id) ELSE UNCHANGED abandoned
    /\ BackToFetch(w)
    /\ UNCHANGED <<repoVars, queueVars, executions>>

WorkerStep(w) ==
    \/ FetchMessage(w)
    \/ LoadMessageJob(w)
    \/ ClaimJob(w)
    \/ LaunchScript(w)
    \/ ScriptExits(w)
    \/ \E kind \in ArtifactKinds : UploadArtifact(w, kind)
    \/ FinishJob(w)
    \/ AckMessage(w)
=============================================================================
