---------------------------- MODULE WaitCommand ----------------------------
(***************************************************************************)
(* The `wait` command: one goroutine per job given, each of which loads    *)
(* the record every three seconds and returns when the job is Failed or    *)
(* Succeeded, or when it cannot be loaded.  The command ends when the last *)
(* goroutine has returned.  It only reads the jobs repository.             *)
(***************************************************************************)
EXTENDS GoBenchAway

VARIABLES
    waiting,    \* jobs whose goroutine has not returned
    waited      \* jobs whose goroutine returned without an error

waitVars == <<waiting, waited>>

WaitTypeOK ==
    /\ waiting \subseteq Jobs
    /\ waited \subseteq Jobs

WaitInit ==
    /\ waiting = {}
    /\ waited = {}

\* One run of the command; its arguments are any job ids, known or not.
StartWait(args) ==
    /\ waiting = {}
    /\ args # {}
    /\ waiting' = args
    /\ waited' = {}

EndsWaitUnlessRunning(rec) == rec.status # "Running"
EndsWaitOnlySucceeded(rec) == rec.status = "Succeeded"
EndsWait(rec) == rec.status \in {"Failed", "Succeeded"}

\* A poll that finds the job in another state sleeps and changes nothing.
WaitReturns(j) ==
    /\ j \in waiting
    /\ waiting' = waiting \ {j}
    /\ \/ LoadFails(j) /\ UNCHANGED waited
       \/ RecordExists(j) /\ EndsWait(records[j]) /\ waited' = waited \union {j}

WaitNext ==
    /\ \/ \E args \in SUBSET Jobs : StartWait(args)
       \/ \E j \in Jobs : WaitReturns(j)
    /\ UNCHANGED vars

WInit == Init /\ WaitInit
WNext == (Next /\ UNCHANGED waitVars) \/ WaitNext

allVars == <<vars, waitVars>>

\* Goroutines poll for ever, beside the system as its operator runs it.
WSpec ==
    /\ WInit
    /\ [][WNext]_allVars
    /\ Fairness
    /\ OperatorFairness
    /\ \A j \in Jobs : WF_allVars(WaitReturns(j) /\ UNCHANGED vars)

\* What wait saw is final: a job its goroutine returned for without an error
\* was run or given up, and stays that way while the command is still waiting
\* for other jobs.
WaitedJobsAreOver ==
    \A j \in waited : records[j].status \in {"Failed", "Succeeded"}

\* Unless a job is cancelled, waiting for a job that was accepted ends, even if
\* its worker is killed.
WaitEndsForAccepted ==
    \A j \in Jobs :
        (j \in waiting /\ submission[j] = "accepted")
            ~> (j \notin waiting \/ records[j].status = "Cancelled")

\* cmd/wait.go:25: wait "waits for a set of jobs to complete", and a Cancelled
\* job is completed (IsCompleted, v1/core/job.go:111).
WaitEndsWhenCompleted ==
    \A j \in Jobs : (j \in waiting /\ IsCompleted(records[j])) ~> j \notin waiting
=============================================================================
