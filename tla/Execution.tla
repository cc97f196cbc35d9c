----------------------------- MODULE Execution -----------------------------
(***************************************************************************)
(* The execution of a job the worker has claimed: runJob writes the script *)
(* and waits for it, the script checks the code out, records what it runs, *)
(* runs the tests and cleans up, and the worker uploads what it finds.     *)
(*                                                                         *)
(* The worker, the script, the copier (the goroutine of os/exec that       *)
(* copies the script's output to the log) and the tests with the tee       *)
(* behind them run beside each other.  When the script is killed, the      *)
(* tests go on.  What the tests or a cleanup command leave running may     *)
(* hold the script's output open, or the pipe tee reads.                   *)
(***************************************************************************)
EXTENDS Naturals

CONSTANTS
    Benchmarks, \* the benchmarks of the job's tests that pass its filter
    Refs,       \* git references a job may be submitted for
    SHAs,       \* the commits they resolve to, which are references too
    GoVersions, \* what `go version` may print
    SkipCleanup \* whether the job's directory is to be kept

\* The line with which `go test` ends; not a benchmark.
Verdict == "ok"
ASSUME VerdictAssumption == Verdict \notin Benchmarks
ASSUME SHAAssumption == SHAs \intersect {"missing", "empty", "?", ""} = {}
ASSUME GoVersionAssumption == GoVersions \intersect {"missing", "empty", "?", ""} = {}
ASSUME SkipCleanupAssumption == SkipCleanup \in BOOLEAN

VARIABLES
    worker,     \* where processJob stands
    script,     \* the command the script is at
    exitCode,   \* of the script: "zero", "nonzero" or "killed"
    files,      \* what the files of the job's directory hold
    tests,      \* `go test`: "none", "running", "passed" or "failed"
    printed,    \* the lines the tests have printed
    lines,      \* those tee has written to the results file
    inPipe,     \* whether output of the script is not in the log yet
    leftover,   \* whether a process the tests left behind holds tee's pipe
    held,       \* whether a process left behind holds the output open
    cleanups,   \* how often the cleanup command was run (history)
    waitFailed, \* whether Process.Wait ever returned an error (history)
    logIsCut,   \* whether the log was closed before its end (history)
    job,        \* the worker's copy of the record
    stored      \* the record in the repository

testVars == <<tests, printed, lines, leftover>>
scriptVars == <<script, exitCode, held, cleanups>>
workerVars == <<worker, waitFailed, logIsCut, job, stored>>
executionVars == <<workerVars, scriptVars, testVars, files, inPipe>>

JobFiles == {"script", "log", "sha", "goVersion", "results"}
Artifacts == {"log", "results", "script"}

NewRecord(ref) ==
    [status |-> "Running", ref |-> ref, SHA |-> "", GoVersion |-> "",
     artifacts |-> {}, lines |-> {}]
NoRecord == [NewRecord("") EXCEPT !.status = "Absent"]

ExecutionInit ==
    /\ worker = "idle"
    /\ script = "none" /\ exitCode = "zero"
    /\ files = [f \in JobFiles |-> "missing"]
    /\ tests = "none" /\ printed = {} /\ lines = {} /\ leftover = FALSE
    /\ cleanups = 0
    /\ inPipe = FALSE /\ held = FALSE
    /\ waitFailed = FALSE /\ logIsCut = FALSE
    /\ job = NoRecord /\ stored = NoRecord

\* The job has been claimed.
BeginJob(ref) ==
    /\ worker = "idle"
    /\ worker' = "prepare"
    /\ job' = NewRecord(ref) /\ stored' = NewRecord(ref)
    /\ UNCHANGED <<scriptVars, testVars, files, inPipe, waitFailed, logIsCut>>

\* On to the next job; what this one left running keeps to its directory.
EndJob ==
    /\ worker = "done"
    /\ worker' = "idle"
    /\ script' = "none" /\ exitCode' = "zero"
    /\ files' = [f \in JobFiles |-> "missing"]
    /\ tests' = "none" /\ printed' = {} /\ lines' = {} /\ leftover' = FALSE
    /\ cleanups' = 0
    /\ inPipe' = FALSE /\ held' = FALSE /\ logIsCut' = FALSE
    /\ job' = NoRecord /\ stored' = NoRecord
    /\ UNCHANGED waitFailed

(***************************************************************************)
(* runJob.                                                                 *)
(***************************************************************************)

\* The log is closed, which ends the copier.
RunReturns ==
    /\ worker' = "log"
    /\ logIsCut' = inPipe

\* The directory, the script or the log cannot be created, or the script not
\* started; what was created by then stays.
PrepareFails ==
    /\ worker = "prepare"
    /\ \E there \in {{}, {"script"}, {"script", "log"}} :
        files' = [f \in JobFiles |-> IF f \in there THEN "whole" ELSE "missing"]
    /\ job' = [job EXCEPT !.status = "Failed"]
    /\ RunReturns
    /\ UNCHANGED <<scriptVars, testVars, inPipe, waitFailed, stored>>

StartScript ==
    /\ worker = "prepare"
    /\ worker' = "wait"
    /\ files' = [files EXCEPT !["script"] = "whole", !["log"] = "whole"]
    /\ script' = "validate"
    /\ UNCHANGED <<exitCode, held, cleanups, testVars, inPipe,
                   waitFailed, logIsCut, job, stored>>

\* Process.Wait waits for the script and not, as Cmd.Wait, for the copier.
ScriptIsOverWithCopier == script = "exited" /\ ~inPipe /\ ~held
ScriptIsOver == script = "exited"

ReadFile(f) ==
    IF files[f] = "missing" THEN "?" ELSE IF files[f] = "empty" THEN "" ELSE files[f]

WaitScript ==
    /\ worker = "wait"
    /\ ScriptIsOver
    /\ job' = [job EXCEPT
                !.status = IF exitCode = "zero" THEN "Succeeded" ELSE "Failed",
                !.SHA = ReadFile("sha"),
                !.GoVersion = ReadFile("goVersion")]
    /\ RunReturns
    /\ UNCHANGED <<scriptVars, testVars, files, inPipe, waitFailed, stored>>

WaitFails ==
    /\ worker = "wait"
    /\ ScriptIsOver
    /\ waitFailed' = TRUE
    /\ job' = [job EXCEPT !.status = "Failed"]
    /\ RunReturns
    /\ UNCHANGED <<scriptVars, testVars, files, inPipe, stored>>

(***************************************************************************)
(* uploadArtifacts, and the rest of processJob.                            *)
(***************************************************************************)
AfterUploadWithoutScript(kind) ==
    IF kind = "log" THEN "results" ELSE "finish"
AfterUpload(kind) ==
    CASE kind = "log" -> "results" [] kind = "results" -> "script" [] kind = "script" -> "finish"

Uploaded(kind) ==
    [job EXCEPT !.artifacts = @ \union {kind},
                !.lines = IF kind = "results" THEN lines ELSE @]

UploadArtifact(kind) ==
    /\ worker = kind
    /\ \/ files[kind] # "missing" /\ job' = Uploaded(kind)
       \/ job' = [job EXCEPT !.status = "Failed"]
    /\ worker' = AfterUpload(kind)
    /\ UNCHANGED <<scriptVars, testVars, files, inPipe, waitFailed, logIsCut, stored>>

\* The final update, which may fail, and the removal of the directory.
FinishJob ==
    /\ worker = "finish"
    /\ worker' = "done"
    /\ stored' = job \/ UNCHANGED stored
    /\ files' = IF SkipCleanup THEN files ELSE [f \in JobFiles |-> "missing"]
    /\ UNCHANGED <<scriptVars, testVars, inPipe, waitFailed, logIsCut, job>>

WorkerNext ==
    \/ PrepareFails \/ StartScript \/ WaitScript \/ WaitFails
    \/ \E kind \in Artifacts : UploadArtifact(kind)
    \/ FinishJob

(***************************************************************************)
(* The script.  Every command of it prints something.                      *)
(***************************************************************************)

\* The exit trap is set before anything can fail.
TrapIsSetLate == script # "validate"
TrapIsSet == TRUE

Exit(code) ==
    /\ script' = IF TrapIsSet THEN "trap" ELSE "exited"
    /\ exitCode' = code

GoOn(next) == script' = next /\ UNCHANGED exitCode

\* The checks of the variables and files; the clone, fetch and checkout.
Prepare(phase, next) ==
    /\ script = phase
    /\ GoOn(next) \/ Exit("nonzero")
    /\ inPipe' = TRUE
    /\ UNCHANGED <<workerVars, testVars, files, held, cleanups>>

\* test -s
HasContentUnchecked(f) == TRUE
HasContent(f) == files'[f] \notin {"missing", "empty"}

ResolvesTo(ref) == IF ref \in SHAs THEN {ref} ELSE SHAs

\* command | tee file, and test -s file: a command that fails leaves the file
\* empty and is noticed by that only.  A failure of tee, or of the `go env`
\* behind the second one, ends the script whatever the file holds.
RecordTo(f, contents, next) ==
    /\ script = f
    /\ \/ \E content \in contents \union {"empty"} : files' = [files EXCEPT ![f] = content]
       \/ UNCHANGED files
    /\ \/ HasContent(f) /\ GoOn(next)
       \/ Exit("nonzero")
    /\ inPipe' = TRUE
    /\ UNCHANGED <<workerVars, testVars, held, cleanups>>

\* go test | tee results
StartTests ==
    /\ script = "startTests"
    /\ GoOn("tests")
    /\ tests' = "running"
    /\ files' = [files EXCEPT !["results"] = "empty"]
    /\ UNCHANGED <<workerVars, held, cleanups, printed, lines, leftover, inPipe>>

\* The pipeline is over when both of its sides are: tee when it has written
\* everything and nobody holds its pipe any more, go test or what that left
\* running.  The status is tee's; that of the tests is in PIPESTATUS.
PipelineIsOverWithoutTee == tests \in {"passed", "failed"}
PipelineIsOver == tests \in {"passed", "failed"} /\ lines = printed /\ ~leftover

EndTests ==
    /\ script = "tests"
    /\ PipelineIsOver
    /\ Exit(IF tests = "passed" /\ lines # {} THEN "zero" ELSE "nonzero")
    /\ inPipe' = TRUE
    /\ UNCHANGED <<workerVars, testVars, files, held, cleanups>>

\* Tee fails, whoever holds its pipe.
TeeFails ==
    /\ script = "tests"
    /\ tests # "running"
    /\ Exit("nonzero")
    /\ inPipe' = TRUE
    /\ UNCHANGED <<workerVars, testVars, files, held, cleanups>>

\* The cleanup command; under set -e its failure is the script's.  (One that
\* ends in `exit 0` would make a script that failed exit with zero; cleanup
\* commands are taken not to set the status.)
RunTrap ==
    /\ script = "trap"
    /\ script' = "exited"
    /\ exitCode' \in {exitCode, "nonzero"}
    /\ cleanups' = cleanups + 1
    /\ held' \in {held, TRUE}
    /\ inPipe' \in {inPipe, TRUE}
    /\ UNCHANGED <<workerVars, testVars, files>>

ScriptNext ==
    \/ Prepare("validate", "source")
    \/ Prepare("source", "sha")
    \/ RecordTo("sha", ResolvesTo(job.ref), "goVersion")
    \/ RecordTo("goVersion", GoVersions, "startTests")
    \/ StartTests \/ EndTests \/ RunTrap

\* The script is killed (SIGKILL): no trap, and what it started goes on.
KillScript ==
    /\ script \notin {"none", "exited"}
    /\ script' = "exited"
    /\ exitCode' = "killed"
    /\ held' \in {held, TRUE}
    /\ UNCHANGED <<workerVars, testVars, files, cleanups, inPipe>>

(***************************************************************************)
(* The tests and the tee behind them, and the copier.                      *)
(***************************************************************************)
TestsPrint ==
    /\ tests = "running"
    /\ \E b \in Benchmarks \ printed : printed' = printed \union {b}
    /\ UNCHANGED <<workerVars, scriptVars, tests, lines, leftover, files, inPipe>>

\* What the tests started may go on behind them, with their output or the
\* script's in hand.
TestsEnd ==
    /\ tests = "running"
    /\ \/ tests' = "passed" /\ printed' = printed \union {Verdict}
       \/ tests' = "failed" /\ printed' \in {printed, printed \union {Verdict}}
    /\ leftover' \in BOOLEAN /\ held' \in {held, TRUE}
    /\ UNCHANGED <<workerVars, script, exitCode, cleanups, lines, files, inPipe>>

\* A killed script leaves tee behind, and the file may be removed under it.
Tee ==
    /\ script = "tests" \/ exitCode = "killed"
    /\ lines # printed
    /\ lines' = printed
    /\ files' = IF worker = "done" THEN files ELSE [files EXCEPT !["results"] = "whole"]
    /\ inPipe' = TRUE
    /\ UNCHANGED <<workerVars, scriptVars, tests, printed, leftover>>

Copy ==
    /\ worker = "wait"
    /\ inPipe
    /\ inPipe' = FALSE
    /\ UNCHANGED <<workerVars, scriptVars, testVars, files>>

\* What was left running may end, or not.
HolderEnds ==
    /\ held
    /\ held' = FALSE
    /\ UNCHANGED <<workerVars, script, exitCode, cleanups, testVars, files, inPipe>>

LeftoverEnds ==
    /\ leftover
    /\ leftover' = FALSE
    /\ UNCHANGED <<workerVars, scriptVars, tests, printed, lines, files, inPipe>>

\* One job, from the claim to the final update.
ExecutionStep ==
    \/ WorkerNext \/ ScriptNext \/ TeeFails \/ KillScript
    \/ TestsPrint \/ TestsEnd \/ Tee \/ Copy \/ HolderEnds \/ LeftoverEnds

ExecutionNext == (\E ref \in Refs : BeginJob(ref)) \/ ExecutionStep \/ EndJob

ExecutionSpec == ExecutionInit /\ [][ExecutionNext]_executionVars

\* The worker, the commands of the script and the copier go on; `go test` ends
\* by its timeout.  Tee need not fail, nothing need be killed, and nothing is
\* said of what was left running.
ExecutionFairness ==
    /\ WF_executionVars(WorkerNext)
    /\ WF_executionVars(ScriptNext)
    /\ WF_executionVars(TestsEnd)
    /\ WF_executionVars(Tee)
    /\ WF_executionVars(Copy)

(***************************************************************************)
(* Properties.                                                             *)
(***************************************************************************)

\* A job that Succeeded has what a report needs and the user trusts: the
\* commit and the Go version it ran, tests that passed, all that they printed,
\* whatever the copier, the tee and what the tests left running were up to, and
\* all three artifacts.
SucceededIsBacked ==
    stored.status = "Succeeded" =>
        /\ stored.SHA \in ResolvesTo(stored.ref)
        /\ stored.GoVersion \in GoVersions
        /\ tests = "passed"
        /\ stored.artifacts = Artifacts
        /\ stored.lines = printed

\* Results, also those of a job that failed or was killed, come with the full
\* SHA that reports cut their labels from, unless waiting itself went wrong.
ResultsHaveSHA ==
    "results" \in stored.artifacts /\ ~waitFailed => stored.SHA \in ResolvesTo(stored.ref)

\* The cleanup command runs once, never beside the tests, and is left out only
\* if the script is killed.
CleanedUpOnce ==
    /\ cleanups > 0 => tests # "running"
    /\ script = "exited" => cleanups = IF exitCode = "killed" THEN 0 ELSE 1

\* The worker is done with every job, even if a process left running holds the
\* output of the script open for ever (Process.Wait does not wait for the
\* copier), unless one the tests left running holds the pipe of tee for ever:
\* it keeps tee, the script and the worker waiting, and no timeout ends that.
WorkerReturns == []<>(~leftover) => (worker = "prepare" ~> worker = "done")

\* "Tee output to logfile and worker stdout" (worker.go:221): the stored log
\* holds all that a script printed that was not killed.
LogIsComplete ==
    "log" \in stored.artifacts /\ exitCode # "killed" => ~logIsCut
=============================================================================
