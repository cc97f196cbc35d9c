--------------------------- MODULE PublishedJobs ---------------------------
(***************************************************************************)
(* What the readers of the queue see: the status of each job, the order of *)
(* the messages in the stream and the order in which the jobs were         *)
(* created.  Statuses change as JobLifecycle lets them, which GoBenchAway  *)
(* implements; messages are never removed, and a job's record is created   *)
(* before its message is published (or never is).                          *)
(***************************************************************************)
EXTENDS Paging, SequencesExt

CONSTANT Jobs

VARIABLES
    status,     \* job -> the status of its record, "Absent" if none
    stream,     \* the jobs of the messages: sequence 1, 2, ...
    created,    \* the jobs with a record, in the order it was created in
    lastSeq,    \* the last sequence when the request being served came in
    missed      \* whether one of its reads failed (history)

requestVars == <<lastSeq, missed>>

jobsVars == <<status, stream, created>>

\* Reading does not tell whether a script was started.
Lifecycle == INSTANCE JobLifecycle WITH executed <- DOMAIN status

Statuses == {"Submitted", "Running", "Failed", "Succeeded", "Cancelled"}

JobsInit ==
    /\ status = [j \in Jobs |-> "Absent"]
    /\ stream = << >>
    /\ created = << >>
    /\ lastSeq = 0
    /\ missed = FALSE

CreateJob(j) ==
    /\ Lifecycle!Submit(j)
    /\ created' = Append(created, j)
    /\ UNCHANGED stream

PublishMessage(j) ==
    /\ status[j] # "Absent"
    /\ j \notin ToSet(stream)
    /\ stream' = Append(stream, j)
    /\ UNCHANGED <<status, created>>

StatusChange(j) ==
    /\ \/ Lifecycle!Cancel(j)
       \/ Lifecycle!Start(j)
       \/ Lifecycle!Fail(j)
       \/ Lifecycle!Succeed(j)
    /\ UNCHANGED <<stream, created>>

JobsNext ==
    /\ \E j \in Jobs : CreateJob(j) \/ PublishMessage(j) \/ StatusChange(j)
    /\ UNCHANGED requestVars

\* A job has one message and, by then, a record; the messages there were when a
\* request came in stay.
StreamInv ==
    /\ status \in [Jobs -> Statuses \union {"Absent"}] /\ created \in Seq(Jobs)
    /\ \A s \in DOMAIN stream : status[stream[s]] # "Absent"
    /\ stream \in Seq(Jobs) /\ IsInjective(stream)
    /\ lastSeq \in 0 .. Len(stream)

\* A record is created once.
CreatedInv ==
    /\ IsInjective(created)
    /\ \A j \in Jobs : j \in ToSet(created) <=> status[j] # "Absent"

\* A request is answered.
RequestEnds ==
    /\ lastSeq' = 0
    /\ missed' = FALSE
=============================================================================
