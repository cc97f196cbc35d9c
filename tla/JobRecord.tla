----------------------------- MODULE JobRecord -----------------------------
(***************************************************************************)
(* The job record of v1/core/job.go: what the jobs repository stores under *)
(* a job's key, and the local copy of it a process works on between a      *)
(* LoadJob and an UpdateJob.  Parameters, times and revisions of the       *)
(* sources under test are left out: no property tells them apart.          *)
(***************************************************************************)
EXTENDS Naturals, FiniteSets

CONSTANTS
    Jobs,       \* job identifiers (uuid.New() never returns one twice)
    Workers,    \* the running `worker` commands
    NoWorker,   \* WorkerInfo of a record no worker has claimed
    NoJob       \* identifier of the copy of a process that works on no job

ASSUME NoWorkerAssumption == NoWorker \notin Workers
ASSUME NoJobAssumption == NoJob \notin Jobs

\* "Absent" stands for the missing key, the other five are the iota block.
JobStatus == {"Submitted", "Running", "Failed", "Succeeded", "Cancelled"}
Absent == "Absent"

\* The three keys a record may refer to: fields Log, Results and Script.
ArtifactKinds == {"log", "results", "script"}

JobRecords == [status    : JobStatus \union {Absent},
               worker    : Workers \union {NoWorker},
               artifacts : SUBSET ArtifactKinds]

NoRecord == [status |-> Absent, worker |-> NoWorker, artifacts |-> {}]

NewJob == [NoRecord EXCEPT !.status = "Submitted"]

SetRunningStatus(rec) == [rec EXCEPT !.status = "Running"]

SetFinalStatus(rec, s) == [rec EXCEPT !.status = s]

IsCompleted(rec) == rec.status \in {"Failed", "Succeeded", "Cancelled"}

(***************************************************************************)
(* A process holds a record it loaded with the revision it loaded it at.   *)
(***************************************************************************)
HeldJobs == [id : Jobs \union {NoJob}, rec : JobRecords, rev : Nat]

NothingHeld == [id |-> NoJob, rec |-> NoRecord, rev |-> 0]
============================================================================
