-------------------------- MODULE ExecutionProofs --------------------------
(***************************************************************************)
(* Proofs about the execution of a job, for any benchmarks, references and *)
(* commits, whatever commands fail or are killed.                          *)
(*                                                                         *)
(* As long as the script goes on the worker waits, and its copy of the     *)
(* record is that of a running job (WorkerWaits); once the script is over  *)
(* with an exit code of zero nothing writes to the job's directory any     *)
(* more, and what the worker reads and uploads is what the script left.    *)
(***************************************************************************)
EXTENDS BenchmarkReports, ExecutionInvariant, TLAPS

LEMMA ResolvesToCommits ==
    ASSUME NEW ref
    PROVE  /\ ResolvesTo(ref) \subseteq SHAs
           /\ ResolvesTo(ref) \intersect {"missing", "empty", "?", ""} = {}
BY SHAAssumption DEF ResolvesTo

\* The three ways the worker changes its copy of the record.
LEMMA FailedCopyTyped ==
    ASSUME NEW rec \in Records PROVE [rec EXCEPT !.status = "Failed"] \in Records
BY DEF Records

LEMMA EndedCopyTyped ==
    ASSUME NEW rec \in Records, NEW status \in {"Failed", "Succeeded"},
           NEW SHA \in SHAs \union {"", "?"}, NEW goVersion \in GoVersions \union {"", "?"}
    PROVE  [rec EXCEPT !.status = status, !.SHA = SHA, !.GoVersion = goVersion] \in Records
BY DEF Records

LEMMA UploadedCopyTyped ==
    ASSUME NEW rec \in Records, NEW kind \in Artifacts, NEW written \in SUBSET Lines
    PROVE  [rec EXCEPT !.artifacts = @ \union {kind}, !.lines = written] \in Records
BY DEF Records

LEMMA InitInv == ExecutionInit => ExecutionInv
<1> SUFFICES ASSUME ExecutionInit PROVE ExecutionInv
  OBVIOUS
<1> USE DEF ExecutionInit, NoRecord, NewRecord
<1>1. ExecutionTypeOK
  BY DEF ExecutionTypeOK, BeforeTests, Records, JobFiles
<1>2. PlacesInv /\ CleanupInv
  BY DEF PlacesInv, CleanupInv
<1>3. RecordedInv /\ ExitCodeInv /\ SuccessInv /\ ResultsInv /\ StoredInv
  BY DEF RecordedInv, ExitCodeInv, SuccessInv, ResultsInv, StoredInv, JobFiles
<1> QED
  BY <1>1, <1>2, <1>3 DEF ExecutionInv

LEMMA BeginJobKeeps ==
    ASSUME ExecutionInv, NEW ref \in Refs, BeginJob(ref) PROVE ExecutionInv'
<1> USE DEF BeginJob, scriptVars, testVars, ExecutionInv, ExecutionTypeOK, NewRecord, Records
<1>1. ExecutionTypeOK'
  <2>1. job' \in Records /\ stored' \in Records
    OBVIOUS
  <2>2. UNCHANGED <<script, exitCode, held, cleanups, tests, printed, lines, leftover, files, inPipe,
                    waitFailed, logIsCut>>
    OBVIOUS
  <2>3. worker' = "prepare"
    OBVIOUS
  <2> HIDE DEF BeginJob, scriptVars, testVars, NewRecord, Records
  <2> QED
    BY <2>1, <2>2, <2>3
<1>2. PlacesInv' /\ CleanupInv'
  BY DEF PlacesInv, CleanupInv
<1>3. RecordedInv'
  BY DEF RecordedInv, PlacesInv, BeforeTests, JobFiles
<1>4. ExitCodeInv' /\ SuccessInv' /\ ResultsInv' /\ StoredInv'
  BY DEF ExitCodeInv, SuccessInv, ResultsInv, StoredInv, PlacesInv, PastWait
<1> QED
  BY <1>1, <1>2, <1>3, <1>4

LEMMA EndJobKeeps ==
    ASSUME ExecutionInv, EndJob PROVE ExecutionInv'
<1> USE DEF EndJob, ExecutionInv, ExecutionTypeOK, NewRecord, NoRecord, Records
<1>1. ExecutionTypeOK'
  BY DEF Lines, Artifacts, JobFiles, BeforeTests
<1>2. PlacesInv' /\ CleanupInv'
  BY DEF PlacesInv, CleanupInv
<1>3. RecordedInv'
  BY DEF RecordedInv, JobFiles
<1>4. ExitCodeInv' /\ SuccessInv' /\ ResultsInv' /\ StoredInv'
  BY DEF ExitCodeInv, SuccessInv, ResultsInv, StoredInv, PastWait
<1> QED
  BY <1>1, <1>2, <1>3, <1>4

LEMMA PrepareFailsKeeps ==
    ASSUME ExecutionInv, PrepareFails PROVE ExecutionInv'
<1> USE DEF PrepareFails, RunReturns, scriptVars, testVars, ExecutionInv, ExecutionTypeOK
<1>1. PICK there \in {{}, {"script"}, {"script", "log"}} :
        files' = [f \in JobFiles |-> IF f \in there THEN "whole" ELSE "missing"]
  OBVIOUS
<1>2. /\ files' \in [JobFiles -> {"whole", "missing"}]
      /\ \A f \in {"sha", "goVersion", "results"} : files'[f] = "missing"
  BY <1>1 DEF JobFiles
<1>3. job' \in Records
  BY FailedCopyTyped
<1>4. ExecutionTypeOK'
  BY <1>2, <1>3 DEF PastWait
<1>5. PlacesInv' /\ CleanupInv'
  BY DEF PlacesInv, CleanupInv
<1>6. RecordedInv'
  BY <1>2 DEF RecordedInv, PlacesInv, BeforeTests, Records
<1>7. ExitCodeInv' /\ SuccessInv' /\ ResultsInv' /\ StoredInv'
  BY DEF Records, ExitCodeInv, SuccessInv, ResultsInv, StoredInv, PlacesInv, PastWait, BeforeTests
<1> QED
  BY <1>4, <1>5, <1>6, <1>7

LEMMA StartScriptKeeps ==
    ASSUME ExecutionInv, StartScript PROVE ExecutionInv'
<1> USE DEF StartScript, testVars, ExecutionInv, ExecutionTypeOK
<1>1. ExecutionTypeOK'
  BY DEF JobFiles, BeforeTests
<1>2. PlacesInv' /\ CleanupInv'
  BY DEF PlacesInv, CleanupInv, BeforeTests
<1>3. RecordedInv'
  BY DEF RecordedInv, PlacesInv, BeforeTests, JobFiles, HasSHA
<1>4. ExitCodeInv' /\ SuccessInv' /\ ResultsInv' /\ StoredInv'
  BY DEF ExitCodeInv, SuccessInv, ResultsInv, StoredInv, PlacesInv, PastWait, BeforeTests
<1> QED
  BY <1>1, <1>2, <1>3, <1>4

LEMMA WaitScriptKeeps ==
    ASSUME ExecutionInv, WaitScript PROVE ExecutionInv'
<1> USE DEF WaitScript, RunReturns, ScriptIsOver, scriptVars, testVars, ExecutionInv, ExecutionTypeOK
<1>1. /\ job'.ref = job.ref /\ job'.artifacts = job.artifacts /\ job'.lines = job.lines
      /\ job'.SHA = ReadFile("sha") /\ job'.GoVersion = ReadFile("goVersion")
      /\ job'.status \in {"Succeeded", "Failed"}
      /\ job'.status = "Succeeded" => exitCode = "zero"
  BY DEF Records
<1>2. /\ HasSHA => ReadFile("sha") \in ResolvesTo(job.ref)
      /\ HasGoVersion => ReadFile("goVersion") \in GoVersions
  BY ResolvesToCommits, GoVersionAssumption DEF ReadFile, HasSHA, HasGoVersion
<1>3. /\ ReadFile("sha") \in SHAs \union {"", "?"}
      /\ ReadFile("goVersion") \in GoVersions \union {"", "?"}
  BY ResolvesToCommits DEF ReadFile, RecordedInv
<1>4. job' \in Records
  BY <1>3, EndedCopyTyped
<1>5. ExecutionTypeOK'
  BY <1>4 DEF PastWait
<1>6. PlacesInv' /\ CleanupInv' /\ RecordedInv' /\ ExitCodeInv'
  BY <1>1 DEF PlacesInv, CleanupInv, RecordedInv, ExitCodeInv, HasSHA, HasGoVersion, BeforeTests
<1>7. SuccessInv'
  BY <1>1, <1>2 DEF SuccessInv, ExitCodeInv, ResultsInv, PastWait, UploadedBefore
<1>8. ResultsInv' /\ StoredInv'
  BY <1>1, <1>2 DEF ResultsInv, StoredInv, RecordedInv, PastWait
<1> QED
  BY <1>5, <1>6, <1>7, <1>8

LEMMA WaitFailsKeeps ==
    ASSUME ExecutionInv, WaitFails PROVE ExecutionInv'
<1> USE DEF WaitFails, RunReturns, ScriptIsOver, scriptVars, testVars, ExecutionInv, ExecutionTypeOK
<1>1. ExecutionTypeOK'
  BY FailedCopyTyped DEF PastWait
<1>2. PlacesInv' /\ CleanupInv' /\ RecordedInv' /\ ExitCodeInv'
  BY DEF Records, PlacesInv, CleanupInv, RecordedInv, ExitCodeInv, HasSHA, HasGoVersion, BeforeTests
<1>3. SuccessInv' /\ ResultsInv' /\ StoredInv'
  BY DEF Records, SuccessInv, ResultsInv, StoredInv, PastWait
<1> QED
  BY <1>1, <1>2, <1>3

\* The copy after an upload, or after one that failed.
LEMMA UploadArtifactKeeps ==
    ASSUME ExecutionInv, NEW kind \in Artifacts, UploadArtifact(kind) PROVE ExecutionInv'
<1> USE DEF UploadArtifact, scriptVars, testVars, ExecutionInv, ExecutionTypeOK
<1>1. /\ worker = kind /\ worker' = AfterUpload(kind)
      /\ worker \in PastWait \ {"finish", "done"} /\ worker' \in PastWait \ {"done"}
  BY DEF Artifacts, AfterUpload, PastWait
<1>2. job'.ref = job.ref /\ job'.SHA = job.SHA /\ job'.GoVersion = job.GoVersion
  BY DEF Uploaded, Records
<1>3. \/ files[kind] # "missing" /\ job'.status = job.status
         /\ job'.artifacts = job.artifacts \union {kind}
         /\ job'.lines = IF kind = "results" THEN lines ELSE job.lines
      \/ job'.status = "Failed" /\ job'.artifacts = job.artifacts
  BY DEF Uploaded, Records
<1>4. job' \in Records
  <2>1. lines \in SUBSET Lines /\ job.lines \in SUBSET Lines
    BY DEF Records
  <2>2. Uploaded(kind) \in Records
    BY <2>1, UploadedCopyTyped DEF Uploaded
  <2> QED
    BY <2>2, FailedCopyTyped
<1>5. ExecutionTypeOK'
  BY <1>1, <1>4
<1>6. PlacesInv' /\ CleanupInv' /\ RecordedInv' /\ ExitCodeInv'
  BY <1>1, <1>2 DEF PlacesInv, CleanupInv, RecordedInv, ExitCodeInv, HasSHA, HasGoVersion,
     BeforeTests, PastWait
<1>7. UploadedBefore(worker') \subseteq UploadedBefore(worker) \union {kind}
  BY <1>1 DEF UploadedBefore, AfterUpload, Artifacts
<1>8. SuccessInv'
  BY <1>1, <1>2, <1>3, <1>7 DEF SuccessInv, PastWait
<1>9. ResultsInv' /\ StoredInv'
  BY <1>1, <1>2, <1>3 DEF ResultsInv, StoredInv, RecordedInv
<1> QED
  BY <1>5, <1>6, <1>8, <1>9

LEMMA FinishJobKeeps ==
    ASSUME ExecutionInv, FinishJob PROVE ExecutionInv'
<1> USE DEF FinishJob, scriptVars, testVars, ExecutionInv, ExecutionTypeOK
<1>1. ExecutionTypeOK'
  BY DEF PastWait
<1>2. PlacesInv' /\ CleanupInv' /\ ExitCodeInv'
  BY DEF PlacesInv, CleanupInv, ExitCodeInv
<1>3. RecordedInv'
  BY DEF RecordedInv, PlacesInv, HasSHA, HasGoVersion, JobFiles
<1>4. SuccessInv' /\ ResultsInv' /\ StoredInv'
  BY DEF SuccessInv, ResultsInv, StoredInv, PastWait, UploadedBefore
<1> QED
  BY <1>1, <1>2, <1>3, <1>4

\* What holds of the worker's copies as long as the script goes on: the worker
\* waits, so they are those of a running job.
LEMMA WorkerWaits ==
    ASSUME ExecutionInv, ExecutionTypeOK', UNCHANGED workerVars,
           script \notin {"none", "exited"}
    PROVE  worker = "wait" /\ SuccessInv' /\ ResultsInv' /\ StoredInv'
<1>1. worker = "wait"
  BY DEF ExecutionInv, PlacesInv
<1> QED
  BY <1>1 DEF workerVars, ExecutionInv, SuccessInv, ResultsInv, StoredInv, PastWait

LEMMA PrepareKeeps ==
    ASSUME ExecutionInv, NEW phase \in {"validate", "source"}, NEW next \in {"source", "sha"},
           Prepare(phase, next)
    PROVE  ExecutionInv'
<1> USE DEF Prepare, GoOn, Exit, TrapIsSet, workerVars, testVars
<1>1. ExecutionTypeOK'
  BY DEF ExecutionInv, ExecutionTypeOK, BeforeTests
<1>2. worker = "wait" /\ SuccessInv' /\ ResultsInv' /\ StoredInv'
  BY <1>1, WorkerWaits
<1>3. PlacesInv' /\ CleanupInv' /\ RecordedInv' /\ ExitCodeInv'
  BY <1>2 DEF ExecutionInv, PlacesInv, CleanupInv, RecordedInv, ExitCodeInv, HasSHA, HasGoVersion,
     BeforeTests
<1> QED
  BY <1>1, <1>2, <1>3 DEF ExecutionInv
LEMMA RecordToKeeps ==
    ASSUME ExecutionInv,
           \/ RecordTo("sha", ResolvesTo(job.ref), "goVersion")
           \/ RecordTo("goVersion", GoVersions, "startTests")
    PROVE  ExecutionInv'
<1> USE DEF RecordTo, GoOn, Exit, TrapIsSet, HasContent, workerVars, testVars
<1> DEFINE Contents(f) == IF f = "sha" THEN ResolvesTo(job.ref) ELSE GoVersions
<1>1. PICK f \in {"sha", "goVersion"} :
        /\ script = f
        /\ files' = files \/ \E content \in Contents(f) \union {"empty"} :
                                files' = [files EXCEPT ![f] = content]
        /\ f = "sha" => RecordTo("sha", ResolvesTo(job.ref), "goVersion")
        /\ f = "goVersion" => RecordTo("goVersion", GoVersions, "startTests")
  OBVIOUS
<1>2. /\ job' = job
      /\ tests = "none"
      /\ script \in {"sha", "goVersion"}
  BY <1>1 DEF ExecutionInv, PlacesInv, BeforeTests
<1>3. /\ \A g \in JobFiles \ {f} : files'[g] = files[g]
      /\ files'[f] \in Contents(f) \union {"missing", "empty"}
  BY <1>1 DEF ExecutionInv, ExecutionTypeOK, RecordedInv, JobFiles
<1>4. files' \in [JobFiles -> SHAs \union GoVersions \union {"missing", "empty", "whole"}]
  <2>1. Contents(f) \subseteq SHAs \union GoVersions
    BY ResolvesToCommits
  <2> QED
    BY <1>1, <2>1 DEF ExecutionInv, ExecutionTypeOK, JobFiles
<1>5. /\ files'["sha"] \in ResolvesTo(job.ref) \union {"missing", "empty"}
      /\ files'["goVersion"] \in GoVersions \union {"missing", "empty"}
  BY <1>1, <1>3 DEF ExecutionInv, RecordedInv, JobFiles
<1>6. /\ script' = "goVersion" => HasSHA'
      /\ script' = "startTests" => HasSHA' /\ HasGoVersion'
  BY <1>1, <1>2, <1>3, <1>5 DEF ExecutionInv, RecordedInv, HasSHA, HasGoVersion, JobFiles
<1>7. ExecutionTypeOK'
  BY <1>1, <1>4 DEF ExecutionInv, ExecutionTypeOK, BeforeTests
<1>8. worker = "wait" /\ SuccessInv' /\ ResultsInv' /\ StoredInv'
  BY <1>2, <1>7, WorkerWaits
<1>9. PlacesInv' /\ CleanupInv' /\ ExitCodeInv'
  BY <1>1, <1>2, <1>8 DEF ExecutionInv, PlacesInv, CleanupInv, ExitCodeInv, BeforeTests
<1>10. RecordedInv'
  BY <1>1, <1>2, <1>3, <1>5, <1>6, <1>8 DEF ExecutionInv, RecordedInv, JobFiles
<1> QED
  BY <1>7, <1>8, <1>9, <1>10 DEF ExecutionInv

LEMMA StartTestsKeeps ==
    ASSUME ExecutionInv, StartTests PROVE ExecutionInv'
<1> USE DEF StartTests, GoOn, workerVars
<1>1. ExecutionTypeOK'
  BY DEF ExecutionInv, ExecutionTypeOK, JobFiles, BeforeTests
<1>2. worker = "wait" /\ SuccessInv' /\ ResultsInv' /\ StoredInv'
  BY <1>1, WorkerWaits
<1>3. PlacesInv' /\ CleanupInv' /\ ExitCodeInv'
  BY <1>2 DEF ExecutionInv, PlacesInv, CleanupInv, ExitCodeInv, BeforeTests
<1>4. RecordedInv'
  BY <1>2 DEF ExecutionInv, ExecutionTypeOK, RecordedInv, HasSHA, HasGoVersion, JobFiles
<1> QED
  BY <1>1, <1>2, <1>3, <1>4 DEF ExecutionInv

\* The pipeline ends, as tee does or because tee fails.
LEMMA EndTestsKeeps ==
    ASSUME ExecutionInv, EndTests \/ TeeFails PROVE ExecutionInv'
<1> USE DEF EndTests, TeeFails, PipelineIsOver, Exit, TrapIsSet, workerVars, testVars
<1>1. ExecutionTypeOK'
  BY DEF ExecutionInv, ExecutionTypeOK
<1>2. worker = "wait" /\ SuccessInv' /\ ResultsInv' /\ StoredInv'
  BY <1>1, WorkerWaits
<1>3. PlacesInv' /\ CleanupInv' /\ RecordedInv' /\ ExitCodeInv'
  BY <1>2 DEF ExecutionInv, PlacesInv, CleanupInv, RecordedInv, ExitCodeInv, HasSHA, HasGoVersion,
     BeforeTests
<1> QED
  BY <1>1, <1>2, <1>3 DEF ExecutionInv

LEMMA RunTrapKeeps ==
    ASSUME ExecutionInv, RunTrap PROVE ExecutionInv'
<1> USE DEF RunTrap, workerVars, testVars
<1>1. ExecutionTypeOK'
  <2>1. /\ inPipe' \in BOOLEAN /\ held' \in BOOLEAN
        /\ exitCode' \in {"zero", "nonzero", "killed"}
    BY Zenon DEF ExecutionInv, ExecutionTypeOK
  <2>2. /\ script' = "exited" /\ cleanups' \in Nat
        /\ UNCHANGED <<worker, files, tests, printed, lines, leftover, waitFailed, logIsCut, job, stored>>
    BY DEF ExecutionInv, ExecutionTypeOK
  <2> HIDE DEF RunTrap, workerVars, testVars
  <2> QED
    BY <2>1, <2>2 DEF ExecutionInv, ExecutionTypeOK
<1>2. worker = "wait" /\ SuccessInv' /\ ResultsInv' /\ StoredInv'
  BY <1>1, WorkerWaits
<1>3. PlacesInv' /\ CleanupInv' /\ RecordedInv' /\ ExitCodeInv'
  BY <1>2 DEF ExecutionInv, PlacesInv, CleanupInv, RecordedInv, ExitCodeInv, HasSHA, HasGoVersion,
     BeforeTests
<1> QED
  BY <1>1, <1>2, <1>3 DEF ExecutionInv

LEMMA KillScriptKeeps ==
    ASSUME ExecutionInv, KillScript PROVE ExecutionInv'
<1> USE DEF KillScript, workerVars, testVars
<1>1. ExecutionTypeOK'
  BY DEF ExecutionInv, ExecutionTypeOK
<1>2. worker = "wait" /\ SuccessInv' /\ ResultsInv' /\ StoredInv'
  BY <1>1, WorkerWaits
<1>3. PlacesInv' /\ CleanupInv' /\ RecordedInv' /\ ExitCodeInv'
  BY <1>2 DEF ExecutionInv, PlacesInv, CleanupInv, RecordedInv, ExitCodeInv, HasSHA, HasGoVersion,
     BeforeTests
<1> QED
  BY <1>1, <1>2, <1>3 DEF ExecutionInv

\* The tests go on or end.
LEMMA TestsKeep ==
    ASSUME ExecutionInv, TestsPrint \/ TestsEnd PROVE ExecutionInv'
<1> USE DEF TestsPrint, TestsEnd, workerVars, scriptVars, ExecutionInv
<1>1. tests = "running" /\ tests' # "none"
  OBVIOUS
<1>2. ExecutionTypeOK'
  <2>1. held' \in BOOLEAN /\ leftover' \in BOOLEAN
    <3>1. CASE TestsPrint
      BY <3>1, Zenon DEF ExecutionTypeOK
    <3>2. CASE TestsEnd
      BY <3>2, Zenon DEF ExecutionTypeOK
    <3> QED
      BY <3>1, <3>2
  <2>2. tests' \in {"running", "passed", "failed"} /\ printed' \subseteq Lines
    BY DEF ExecutionTypeOK, Lines
  <2>3. UNCHANGED <<worker, script, exitCode, files, lines, inPipe, cleanups, waitFailed, logIsCut, job, stored>>
    OBVIOUS
  <2> HIDE DEF TestsPrint, TestsEnd, workerVars, scriptVars
  <2> QED
    BY <2>1, <2>2, <2>3 DEF ExecutionTypeOK
<1>3. PlacesInv' /\ CleanupInv'
  <2>1. leftover' => tests' \in {"passed", "failed"}
    <3>1. CASE TestsPrint
      BY <3>1, Zenon DEF PlacesInv
    <3>2. CASE TestsEnd
      BY <3>2
    <3> QED
      BY <3>1, <3>2
  <2>2. /\ tests' = "running" => tests = "running"
        /\ UNCHANGED <<worker, script, exitCode, files, lines, cleanups>>
    BY <1>1
  <2> HIDE DEF TestsPrint, TestsEnd, workerVars, scriptVars
  <2> QED
    BY <1>1, <2>1, <2>2 DEF PlacesInv, CleanupInv
<1>4. RecordedInv'
  BY <1>1 DEF RecordedInv, HasSHA, HasGoVersion
<1>5. ~(script \in {"trap", "exited"} /\ exitCode = "zero")
  BY <1>1 DEF PlacesInv
<1>6. ExitCodeInv' /\ SuccessInv' /\ ResultsInv' /\ StoredInv'
  BY <1>1, <1>5 DEF ExitCodeInv, SuccessInv, ResultsInv, StoredInv
<1> QED
  BY <1>2, <1>3, <1>4, <1>6

LEMMA TeeKeeps ==
    ASSUME ExecutionInv, Tee PROVE ExecutionInv'
<1> USE DEF Tee, workerVars, scriptVars, ExecutionInv
<1>1. tests # "none" /\ ~(script \in {"trap", "exited"} /\ exitCode = "zero")
  BY DEF PlacesInv
<1>2. ExecutionTypeOK'
  BY DEF ExecutionTypeOK
<1>3. PlacesInv' /\ CleanupInv'
  BY <1>1 DEF PlacesInv, CleanupInv, BeforeTests
<1>4. RecordedInv'
  BY <1>1 DEF RecordedInv, ExecutionTypeOK, HasSHA, HasGoVersion, JobFiles
<1>5. ExitCodeInv' /\ SuccessInv' /\ ResultsInv' /\ StoredInv'
  BY <1>1 DEF ExitCodeInv, SuccessInv, ResultsInv, StoredInv
<1> QED
  BY <1>2, <1>3, <1>4, <1>5

\* The copier, what a job left running, and steps of nobody.
LEMMA OthersKeep ==
    ASSUME ExecutionInv, Copy \/ HolderEnds \/ LeftoverEnds \/ UNCHANGED executionVars
    PROVE  ExecutionInv'
<1>1. UNCHANGED <<workerVars, script, exitCode, cleanups, tests, printed, lines, files>>
  <2>1. CASE Copy
    BY <2>1 DEF Copy, scriptVars, testVars
  <2>2. CASE HolderEnds
    BY <2>2 DEF HolderEnds, testVars
  <2>3. CASE LeftoverEnds
    BY <2>3 DEF LeftoverEnds, scriptVars
  <2>4. CASE UNCHANGED executionVars
    BY <2>4 DEF executionVars, scriptVars, testVars
  <2> QED
    BY <2>1, <2>2, <2>3, <2>4
<1>2. /\ inPipe' = inPipe \/ inPipe' = FALSE
      /\ held' = held \/ held' = FALSE
      /\ leftover' = leftover \/ leftover' = FALSE
  <2>1. CASE Copy
    BY <2>1 DEF Copy, scriptVars, testVars
  <2>2. CASE HolderEnds
    BY <2>2 DEF HolderEnds, testVars
  <2>3. CASE LeftoverEnds
    BY <2>3 DEF LeftoverEnds, scriptVars
  <2>4. CASE UNCHANGED executionVars
    BY <2>4 DEF executionVars, scriptVars, testVars
  <2> QED
    BY <2>1, <2>2, <2>3, <2>4
<1>3. inPipe' \in BOOLEAN /\ held' \in BOOLEAN /\ leftover' \in BOOLEAN
  BY <1>2, Zenon DEF ExecutionInv, ExecutionTypeOK
<1>4. leftover' => leftover
  BY <1>2, Zenon
<1> QED
  BY <1>1, <1>3, <1>4 DEF workerVars, ExecutionInv, ExecutionTypeOK, PlacesInv, CleanupInv, RecordedInv,
     ExitCodeInv, SuccessInv, ResultsInv, StoredInv, HasSHA, HasGoVersion

LEMMA StepInv == ExecutionInv /\ [ExecutionNext]_executionVars => ExecutionInv'
<1> SUFFICES ASSUME ExecutionInv, [ExecutionNext]_executionVars PROVE ExecutionInv'
  OBVIOUS
<1>1. CASE \E ref \in Refs : BeginJob(ref)
  BY <1>1, BeginJobKeeps
<1>2. CASE WorkerNext
  BY <1>2, PrepareFailsKeeps, StartScriptKeeps, WaitScriptKeeps, WaitFailsKeeps, UploadArtifactKeeps,
     FinishJobKeeps DEF WorkerNext
<1>3. CASE ScriptNext
  BY <1>3, PrepareKeeps, RecordToKeeps, StartTestsKeeps, EndTestsKeeps, RunTrapKeeps DEF ScriptNext
<1>4. CASE TeeFails \/ KillScript
  BY <1>4, EndTestsKeeps, KillScriptKeeps
<1>5. CASE TestsPrint \/ TestsEnd
  BY <1>5, TestsKeep
<1>6. CASE Tee
  BY <1>6, TeeKeeps
<1>7. CASE Copy \/ HolderEnds \/ LeftoverEnds \/ UNCHANGED executionVars
  BY <1>7, OthersKeep
<1>8. CASE EndJob
  BY <1>8, EndJobKeeps
<1> QED
  BY <1>1, <1>2, <1>3, <1>4, <1>5, <1>6, <1>7, <1>8 DEF ExecutionNext, ExecutionStep
LEMMA ExecutionInvariance == ExecutionSpec => []ExecutionInv
BY InitInv, StepInv, PTL DEF ExecutionSpec

\* A worker beside which reports are made executes jobs as it does alone.
LEMMA ReportsLeaveExecutionAlone == Spec => ExecutionSpec
<1>1. Init => ExecutionInit
  BY DEF Init
<1>2. [Next]_vars => [ExecutionNext]_executionVars
  BY DEF Next, vars, ExecutionNext
<1> QED
  BY <1>1, <1>2, PTL DEF Spec, ExecutionSpec

\* Every reachable state has the types of the model, and the worker, the script
\* and the tests stand where runJob and the script let them.
THEOREM ExecutionTypeCorrect == Spec => []ExecutionInv
BY ExecutionInvariance, ReportsLeaveExecutionAlone, PTL

\* A job is stored as Succeeded only with a commit its reference resolves to, a
\* Go version, tests that passed, all three artifacts and results with all that
\* the tests printed (runJob, uploadArtifacts and the script's checks of
\* PIPESTATUS and of the files it wrote).
THEOREM SuccessIsBacked == Spec => []SucceededIsBacked
<1>1. ExecutionInv => SucceededIsBacked
  <2> SUFFICES ASSUME ExecutionInv, stored.status = "Succeeded" PROVE SucceededIsBacked
    BY DEF SucceededIsBacked
  <2>1. worker = "done" /\ stored = job
    BY DEF ExecutionInv, StoredInv
  <2>2. Artifacts \subseteq stored.artifacts /\ stored.artifacts \in SUBSET Artifacts
    BY <2>1 DEF ExecutionInv, SuccessInv, UploadedBefore, ExecutionTypeOK, Records
  <2> QED
    BY <2>1, <2>2 DEF ExecutionInv, SuccessInv, ExitCodeInv, SucceededIsBacked, Artifacts
<1> QED
  BY <1>1, ExecutionTypeCorrect, PTL

\* Results are never stored without the commit they were measured on, whatever
\* became of the job, unless waiting for the script went wrong (runJob reads the
\* SHA only behind Process.Wait; reports cut their labels from it).
THEOREM ResultsComeWithSHA == Spec => []ResultsHaveSHA
<1>1. ExecutionInv => ResultsHaveSHA
  BY DEF ExecutionInv, StoredInv, ResultsInv, PastWait, ResultsHaveSHA
<1> QED
  BY <1>1, ExecutionTypeCorrect, PTL

\* The cleanup command runs exactly once for a script that was not killed, and
\* never while its tests run (the exit trap of the script).
THEOREM CleanupRunsOnce == Spec => []CleanedUpOnce
<1>1. ExecutionInv => CleanedUpOnce
  BY DEF ExecutionInv, ExecutionTypeOK, PlacesInv, CleanupInv, CleanedUpOnce
<1> QED
  BY <1>1, ExecutionTypeCorrect, PTL
=============================================================================
