-------------------------- MODULE BenchmarkReports --------------------------
(***************************************************************************)
(* A worker executes a job, and reports are made of what it left behind    *)
(* and of jobs that were executed before.                                  *)
(***************************************************************************)
EXTENDS Reports

CONSTANT NewJobId
ASSUME NewJobIdAssumption == NewJobId \notin DOMAIN Finished
ASSUME NewSamplesAssumption == \A b \in Timed \union Sized : Samples[NewJobId][b] \in Measured

vars == <<executionVars, archive, report>>

Init == ExecutionInit /\ ReportsInit

\* One job is executed: NewJobId.  A report reads finished jobs, which do not
\* change any more, so it makes no difference when it is made.
Next ==
    \/ /\ NewJobId \notin DOMAIN archive /\ report = NoReport
       /\ \E ref \in Refs : BeginJob(ref)
       /\ UNCHANGED <<archive, report>>
    \/ ExecutionStep /\ UNCHANGED <<archive, report>>
    \/ /\ EndJob
       /\ archive' = [id \in DOMAIN archive \union {NewJobId} |->
                        IF id = NewJobId THEN stored ELSE archive[id]]
       /\ UNCHANGED report
    \/ /\ worker = "idle"
       /\ ReportsNext
       /\ UNCHANGED executionVars

Spec == Init /\ [][Next]_vars

FairSpec == Spec /\ ExecutionFairness

(***************************************************************************)
(* The inductive invariant behind the properties of reports.               *)
(***************************************************************************)

\* Jobs that may be reported on have the commit that labels are cut from, unless waiting
\* for a script went wrong, and something measured for each of their benchmarks.
ArchiveInv ==
    \A id \in DOMAIN archive :
        /\ "results" \in archive[id].artifacts => archive[id].SHA \in SHAs \/ waitFailed
        /\ \A b \in archive[id].lines \intersect (Timed \union Sized) : Samples[id][b] \in Measured

\* A report is the one that would be made now: no job ends while it is shown.
ReportIsCurrent ==
    report # NoReport =>
        /\ worker = "idle"
        /\ report.request \in Requests
        /\ report.result = Result(report.request)

\* All of it.
ReportsInv == ArchiveInv /\ ReportIsCurrent
=============================================================================
