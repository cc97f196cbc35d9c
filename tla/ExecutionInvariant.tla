------------------------- MODULE ExecutionInvariant -------------------------
(***************************************************************************)
(* The inductive invariant behind the safety properties of Execution.      *)
(*                                                                         *)
(* What a job ends with is true because each step of the script leaves     *)
(* something behind that nothing takes back before the worker has read it: *)
(* the recorded commit, the results file, and an exit code of zero only    *)
(* behind tests that passed and a tee that is done.                        *)
(***************************************************************************)
EXTENDS Execution

PastWait == {"log", "results", "script", "finish", "done"}
BeforeTests == {"none", "validate", "source", "sha", "goVersion", "startTests"}
Lines == Benchmarks \union {Verdict}

Records ==
    [status : {"Absent", "Running", "Failed", "Succeeded"},
     ref : Refs \union {""},
     SHA : SHAs \union {"", "?"},
     GoVersion : GoVersions \union {"", "?"},
     artifacts : SUBSET Artifacts,
     lines : SUBSET Lines]

ExecutionTypeOK ==
    /\ worker \in {"idle", "prepare", "wait"} \union PastWait
    /\ script \in BeforeTests \union {"tests", "trap", "exited"}
    /\ exitCode \in {"zero", "nonzero", "killed"}
    /\ files \in [JobFiles -> SHAs \union GoVersions \union {"missing", "empty", "whole"}]
    /\ tests \in {"none", "running", "passed", "failed"}
    /\ printed \subseteq Lines /\ lines \subseteq Lines
    /\ inPipe \in BOOLEAN /\ held \in BOOLEAN /\ leftover \in BOOLEAN
    /\ cleanups \in Nat
    /\ waitFailed \in BOOLEAN /\ logIsCut \in BOOLEAN
    /\ job \in Records /\ stored \in Records

\* Who waits for whom: the worker for the script, the script for the tests.
PlacesInv ==
    /\ worker \in {"idle", "prepare"} =>
         script = "none" /\ files = [f \in JobFiles |-> "missing"]
    /\ script \notin {"none", "exited"} => worker = "wait"
    /\ script \in BeforeTests => tests = "none"
    /\ tests = "running" => script = "tests" \/ exitCode = "killed"
    /\ tests = "none" => printed = {} /\ lines = {}
    /\ leftover => tests \in {"passed", "failed"}

\* The cleanup command has run once behind a script that was not killed.
CleanupInv ==
    /\ script # "exited" => cleanups = 0 /\ exitCode # "killed"
    /\ script = "exited" => cleanups = IF exitCode = "killed" THEN 0 ELSE 1

HasSHA == files["sha"] \in ResolvesTo(job.ref)
HasGoVersion == files["goVersion"] \in GoVersions

\* What the script has recorded by the time it goes on, and what there are
\* results of.
RecordedInv ==
    /\ files["sha"] \in ResolvesTo(job.ref) \union {"missing", "empty"}
    /\ files["goVersion"] \in GoVersions \union {"missing", "empty"}
    /\ script \in {"goVersion", "startTests", "tests"} => HasSHA
    /\ script \in {"startTests", "tests"} => HasGoVersion
    /\ tests # "none" /\ worker # "done" => HasSHA
    /\ files["results"] # "missing" => tests # "none"

\* An exit code of zero stands for tests that passed and for results that are
\* written to the end.
ExitCodeInv ==
    script \in {"trap", "exited"} /\ exitCode = "zero" =>
        /\ tests = "passed"
        /\ lines = printed
        /\ worker # "done" => HasSHA /\ HasGoVersion

\* The artifacts a job that may still succeed refers to, step by step.
UploadedBefore(place) ==
    CASE place = "results" -> {"log"}
      [] place = "script" -> {"log", "results"}
      [] place \in {"finish", "done"} -> Artifacts
      [] OTHER -> {}

\* What the worker's copy of a job that is about to succeed holds.
SuccessInv ==
    job.status = "Succeeded" =>
        /\ worker \in PastWait
        /\ script = "exited" /\ exitCode = "zero"
        /\ job.SHA \in ResolvesTo(job.ref)
        /\ job.GoVersion \in GoVersions
        /\ UploadedBefore(worker) \subseteq job.artifacts
        /\ "results" \in job.artifacts => job.lines = lines

\* What the worker's copy of any job holds if it has results.
ResultsInv ==
    /\ "results" \in job.artifacts => worker \in PastWait /\ tests # "none"
    /\ worker \in PastWait /\ tests # "none" /\ ~waitFailed => job.SHA \in ResolvesTo(job.ref)

\* The record in the repository is that of a running job, or the worker's copy.
StoredInv ==
    \/ stored.status # "Succeeded" /\ stored.artifacts = {}
    \/ worker = "done" /\ stored = job

\* All of it.
ExecutionInv ==
    /\ ExecutionTypeOK
    /\ PlacesInv
    /\ CleanupInv
    /\ RecordedInv
    /\ ExitCodeInv
    /\ SuccessInv
    /\ ResultsInv
    /\ StoredInv
=============================================================================
