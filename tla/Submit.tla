------------------------------- MODULE Submit -------------------------------
(***************************************************************************)
(* SubmitJob: creates the job's record, then publishes its message.  Two   *)
(* requests to two stores and no undo: when the second one fails, or the   *)
(* command dies between them, the record stays behind without a message.   *)
(***************************************************************************)
EXTENDS JobsRepository, JobsQueue

VARIABLE submission     \* job -> how far its `submit` command has come

submitVars == <<submission>>

SubmissionStates == {"new", "created", "accepted", "failed"}

SubmitTypeOK == submission \in [Jobs -> SubmissionStates]

SubmitInit == submission = [j \in Jobs |-> "new"]

CreatedCopy(j) == [id |-> j, rec |-> NewJob, rev |-> 0]

CreateRecord(j) ==
    /\ submission[j] = "new"
    /\ \/ UpdateJobOK(CreatedCopy(j)) /\ submission' = [submission EXCEPT ![j] = "created"]
       \/ UpdateJobFails(CreatedCopy(j)) /\ submission' = [submission EXCEPT ![j] = "failed"]
    /\ UNCHANGED queueVars

PublishJobBeforeRecord(j) ==
    /\ submission[j] \in {"new", "created"}
    /\ Publish(j) /\ submission' = [submission EXCEPT ![j] = "accepted"]
    /\ UNCHANGED repoVars
PublishJobIgnoringError(j) ==
    /\ submission[j] = "created"
    /\ submission' = [submission EXCEPT ![j] = "accepted"]
    /\ Publish(j) \/ (RequestLost /\ UNCHANGED queueVars)
    /\ UNCHANGED repoVars
\* A second copy would be dropped by the server: Nats-Msg-Id is the job's id.
PublishJob(j) ==
    /\ submission[j] = "created"
    /\ \/ Publish(j) /\ submission' = [submission EXCEPT ![j] = "accepted"]
       \/ RequestLost /\ UNCHANGED queueVars /\ submission' = [submission EXCEPT ![j] = "failed"]
       \/ ReplyLost /\ Publish(j) /\ submission' = [submission EXCEPT ![j] = "failed"]
    /\ UNCHANGED repoVars

\* The submit command dies between its two requests.
SubmitCrash(j) ==
    /\ submission[j] = "created"
    /\ submission' = [submission EXCEPT ![j] = "failed"]
    /\ UNCHANGED <<repoVars, queueVars>>
=============================================================================
