------------------------------- MODULE Cancel -------------------------------
(***************************************************************************)
(* CancelJob, called by the `cancel` command and by the web server's       *)
(* /job/<id>/cancel: loads the record, refuses any job not Submitted, and  *)
(* stores the copy as Cancelled over the revision it loaded.  Nobody tells *)
(* the worker or the queue: the job's message is still delivered.          *)
(***************************************************************************)
EXTENDS JobsRepository

CONSTANT Cancellers     \* the cancel commands and cancel requests

VARIABLES
    cjob,       \* canceller -> the copy it is about to store, or NothingHeld
    cancelled   \* jobs a canceller was told are cancelled (history)

cancelVars == <<cjob, cancelled>>

CancelTypeOK ==
    /\ cjob \in [Cancellers -> HeldJobs]
    /\ \A c \in Cancellers : cjob[c] # NothingHeld => cjob[c].id \in Jobs
    /\ cancelled \subseteq Jobs

CancelInit ==
    /\ cjob = [c \in Cancellers |-> NothingHeld]
    /\ cancelled = {}

CanCancelAny(job) == job.rec.status # Absent
CanCancel(job) == job.rec.status = "Submitted"

CancelledCopy(job) == [job EXCEPT !.rec = SetFinalStatus(@, "Cancelled")]

\* A job that cannot be loaded or cancelled is an error and changes nothing.
CancelLoad(c, j) ==
    /\ cjob[c] = NothingHeld
    /\ RecordExists(j)
    /\ CanCancel(Loaded(j))
    /\ cjob' = [cjob EXCEPT ![c] = CancelledCopy(Loaded(j))]
    /\ UNCHANGED <<repoVars, cancelled>>

CancelUpdate(c) ==
    LET job == cjob[c] IN
    /\ job # NothingHeld
    /\ \/ UpdateJobOK(job) /\ cancelled' = cancelled \union {job.id}
       \/ UpdateJobFails(job) /\ UNCHANGED cancelled
    /\ cjob' = [cjob EXCEPT ![c] = NothingHeld]
=============================================================================
