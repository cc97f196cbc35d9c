# A formal model of go-bench-away

go-bench-away runs Go benchmarks on remote workers. A user submits a job; a worker
somewhere takes it, runs a generated script, uploads its output and writes down how it
ended. All coordination goes through a NATS server: there is no scheduler process.
This directory holds TLA+ modules that model that coordination, the TLC configurations
that check it on small instances, and TLAPS proofs of its main properties for instances
of any size.

## The system

| Part | Code | State | Operations |
|---|---|---|---|
| Job record | `v1/core/job.go` | status, worker, references to artifacts | `NewJob`, `SetRunningStatus`, `SetFinalStatus`, `IsCompleted` |
| Jobs repository | `v1/client/artifacts.go`, `update.go` (NATS key-value bucket) | one record per job, with a revision | `LoadJob`, `UpdateJob` (compare-and-swap), create |
| Artifacts store | `v1/client/artifacts.go` (NATS object store) | log, results and script of each job | `Upload*Artifact`, downloads |
| Jobs queue | `v1/client/dispatch.go`, `queue.go` (JetStream stream, one durable pull consumer) | messages, what was delivered, what was acknowledged | publish, fetch, acknowledge; redelivery after 30s |
| Submission | `SubmitJob`, `cmd/submit.go` | how far the command came | create the record, then publish |
| Worker | `DispatchJobs`, `internal/worker/worker.go` | the message and record copy in hand | fetch, load, claim, run, upload, finish, acknowledge |
| Cancellation | `CancelJob`, `cmd/cancel.go`, web handler | the copy about to be stored | load, store as Cancelled |
| Fail-stale | `FailStaleJobs`, `cmd/fail_stale.go` | ids found stale, the copy about to be stored | scan, load again, store as Failed |
| Wait | `cmd/wait.go` | jobs still waited for | poll |
| Listing, search | `LoadJobs*`, `FindJobOffset`, `internal/web/handler.go`, `cmd/list.go` | the walk of one request; offset and limit of the page on the screen | pages of jobs, newest first |
| Schema | `NewClient`, `storage_manager.go`, `cmd/init.go`, `cmd/wipe.go` | which stores exist | create and delete the three stores |
| Execution | `runJob`, `benchmark.sh.tmpl` | the job's directory, the script's exit code, output under way | check out, record SHA and Go version, test, clean up; read, upload |
| Reports | `v1/reports`, `cmd/*_report.go`, plot of the web server | none: a report is made of records and results | load jobs, label them, tabulate, fill sections |

The processes never talk to each other. They share the repository, the queue and the
artifacts store, and each works on a *copy* of a record it loaded earlier. What holds
the system together is that a record is only ever written over the revision it was
loaded at.

What is hard to get right: a message is delivered at least once and, since a job takes
longer than 30 seconds, normally several times, while the first worker is still at
work; nothing is retried, so every lost request or reply leaves its mark; a worker may
be killed anywhere; cancel and fail-stale decide on what they saw a moment ago; two
stores are written one after the other with no undo; a script, the tests it starts, the
tee behind them and the copier of its output end in any order. `PROJECT.json` lists these hazards
one by one with their lines.

What must be true of each part:

- submission: a job reported as submitted has a record and a message;
- queue and dispatch: no accepted job is lost without a failure, and each ends;
- worker: a script starts at most once per job; a Running record has somebody at work;
  Succeeded means that all the artifacts are there;
- cancellation: a job reported as cancelled never runs;
- fail-stale: it fails no job that is not overdue, and none that has ended;
- wait: what it reports is final and it comes to an end;
- listing: a page shows the jobs it should, once and in order, although they change while
  it is made; its links lead to pages; a search leads to what it found;
- execution: what Succeeded has a commit, a Go version, tests that passed and all that
  they printed; the cleanup runs once; the worker comes back, whatever holds the output of
  the script, unless the tests leave something running that holds the pipe of tee;
- reports: a value stands in the column of the job that measured it, labels tell jobs
  apart, green is faster, and what cannot be shown is refused rather than a panic;
- all: a completed record never changes.

## Modules

    JobRecord <- JobsRepository <- Submit, Worker, Cancel, FailStale <- GoBenchAway
    JobRecord <- JobsQueue      <- Submit, Worker                    <-
    GoBenchAway (INSTANCE JobLifecycle) <- WaitCommand <- MCWaitCommand
    GoBenchAway <- GoBenchAwayInvariant <- MCGoBenchAway
                   GoBenchAwayInvariant <- GoBenchAwayProofs <- GoBenchAwayNoLoss
                   GoBenchAwayInvariant <- CreatedJobs <- MCCreatedJobs (and MCGoBenchAway)
                   CreatedJobs (INSTANCE PublishedJobs), GoBenchAwayNoLoss, WaitCommand <- GoBenchAwayRefinement
    Paging <- QueuePage <- QueuePageProofs
    Paging <- PublishedJobs (INSTANCE JobLifecycle) <- Listing <- Readers <- MCReaders
                                                    <- Search  <-
                                                    <- Watch   <-         <- ReadersProofs
    Schema <- SchemaInvariant <- MCSchema, SchemaProofs
    Execution <- Reports <- BenchmarkReports <- MCBenchmarkReports, ExecutionProofs <- ReportsProofs
    Execution <- ExecutionInvariant          <- MCBenchmarkReports, ExecutionProofs

- `JobRecord`: the record, its setters, and the copy a process holds: id, record,
  revision. Parameters and times are left out. `Absent` stands for a missing key.
- `JobsRepository`: `Put` is the server's compare-and-swap; `UpdateJobOK` and
  `UpdateJobFails` are what the caller sees. A failed update may have taken effect: the
  reply was lost. Revisions count the writes of one key; in NATS they come from one
  counter per bucket, but the code only ever compares the revisions of one key. Reads
  see the latest write (the bucket is created with one replica, `storage_manager.go:26`).
- `JobsQueue` (external): the stream keeps every message; `delivered`, `pending` and
  `expired` are the consumer's state. `AckWaitExpires` may happen as soon as a message
  was delivered; `InProgress` (`dispatch.go:63`) only restarts the same clock, so it is
  not a step of its own. An acknowledgement counts whoever sends it.
- `Submit`: `CreateRecord`, `PublishJob`, and the command's death in between.
- `Worker`: one action per request or step of `DispatchJobs` and `processJob`; `wpc`
  names the one to come. `LaunchScript` is `runJob` up to `cmd.Start`, `ScriptExits` the
  rest of it; each upload is one action. `CrashWorker` is a kill followed by a new
  process. An upload may fail without any fault of the network, since the file may be
  missing (a script that dies early writes no results).
- `Cancel`, `FailStale`: a load and an update each, as two actions. `overdue` holds the
  jobs whose `Started` is longer ago than their timeout; they were started once.
- `GoBenchAway`: all of it together, with the properties. Every action of one process
  leaves the variables of the others alone.
- `JobLifecycle`: what the system promises about one job, with no stores, messages,
  copies or processes: Absent, Submitted, Running or Cancelled, Failed or Succeeded, and a
  script that starts once, only for a job that was Running, and has started if the job
  Succeeded. `GoBenchAway` implements it under the refinement mapping at its INSTANCE.
- `WaitCommand`: the goroutines of `wait`, beside everything else.
- `GoBenchAwayInvariant`: the inductive invariants. `GoBenchAwayProofs`,
  `GoBenchAwayNoLoss`, `GoBenchAwayRefinement` (also about `WaitCommand`): the proofs.

- `PublishedJobs`: what a reader of the queue sees of all this. Statuses change by the
  steps of `JobLifecycle`; messages come after records, once for each job, and are never
  removed. `created` is the order in which the records were created, which is not that of
  their `Created`.
- `CreatedJobs`: `GoBenchAway` with the order in which the records appeared as a history,
  and the mapping under which it implements `PublishedJobs` (no request being served):
  so the readers' models, composed with `PublishedJobs`, assume nothing of the rest that
  the rest does not keep.
- `Listing`: `LoadJobs` and `LoadJobsFiltered` (and `LoadRecentJobs`) as one walk: `Begin`
  asks for the last sequence, each `ReadNext` reads a message and its record, which may
  fail and then leaves the job out, and jobs change in between.
- `Search`: the two passes of `FindJobOffset` and the page `serveQueue` redirects to.
- `Watch`: `LoadJobsByKV` and `CountJobsByStatus` behind the queue page. NATS delivers the
  records in the order of their last writes, and the client's watcher ends the walk after
  as many more as were pending when the first one came; a record written meanwhile moves
  to the end in its new version. What is made of the entries (sorting, window, counts,
  the pages counted from them) are operators on them. `Created` is a second of the submitter's
  clock, taken before the record is created (`job.go:124`): two submitters' records may be
  created in the other order, and jobs of one second tie. It never changes and only the
  sorting looks at it, so it is no part of the state: the operators take it as an argument,
  and the properties hold for each value of it (`CreatedTimes`, any function from the jobs
  to numbers in the proofs). `sort.Slice` is not stable, so jobs of one second, and
  several versions of one job, may come in any order: `LoadJobsByKV` is the set of the pages
  the code may return. Two requests may order jobs of one second in two ways, so that a
  page and the next one may show one of them twice and another not at all; the properties are
  about the page of one request, and about the pages one arrangement would give.
- `Readers`: all three, one request at a time; reading changes nothing, so they do not meet.
  Once all records have come to a watcher, jobs do not change until the page is made: it
  is made of the entries alone, so that it makes no difference.
  `ReadersProofs`: the proofs. The parts of the inductive invariant are in the module whose
  variables they are about (`StreamInv`, `CreatedInv`, `ScanInv`, `SearchInv`, `WatchInv`,
  `RecordsInv`).
- `Schema`: `init` and `wipe`, one request at a time, beside submit commands and workers
  at the level of stores, records and messages. `StoresOf` gives the stores of a queue:
  a stream of its own, and the namespace's repository and artifacts store. What a client
  found when it started may be gone when it makes its requests. A consumer goes with its
  stream, and only a starting worker makes one.
  `SchemaInvariant` holds the inductive invariant, `SchemaProofs` the proofs.
- `Execution`: one job from its claim to its final update, closer than `Worker`, where
  all of it is one choice of an outcome. `worker` walks through `runJob` and
  `uploadArtifacts`, `script` through the commands of `benchmark.sh.tmpl`; `tests`, `Tee`
  and `Copy` run beside them. Any command may fail; `Exit` goes to the trap, whose own
  failure makes the exit code nonzero. `KillScript` is a SIGKILL: no trap runs, and the
  tests and tee go on by themselves (on SIGTERM bash would run the trap; not modelled).
  What the tests leave running may hold the pipe that tee reads (`leftover`): tee ends
  only when nobody holds it any more, and the pipeline when tee and `go test` have ended
  (`PipelineIsOver`). `held` is a process, left behind by the tests, the cleanup command or
  a script that was killed, that holds the script's output open, which only the copier
  waits for. Either may go on for ever. A file is missing, empty, or has content. The
  cleanup command is one that does not set the exit status: `exit 0` in it would make a
  script that failed exit with zero, and its job Succeeded.
- `Reports`: one operator per command (`basicReport`, `singleReport`, `comparativeReport`,
  `trendReport`, `customReport`) and for the plot; each checks its arguments, makes the
  tables (`CreateDataTable`) and fills the sections (`WriteReport`). The outcome is a
  report, an error or a panic. benchstat is external: a row per benchmark, a cell per
  job, only common benchmarks for two jobs. Measurements are numbers of ns/op, and an
  inverse is counted in twelfths, which is exact for 1 to 4. A cell nobody measured is
  empty; charts draw it as 0 with the label "no data" (`helpers.go:113`). A filter that is
  no regular expression panics (`helpers.go:144`); requests have valid ones.
- `BenchmarkReports`: a worker executes a job, and reports are made of its record and
  results and of older ones. `ReportsProofs`: the proofs about reports.
- `ExecutionInvariant`, `ExecutionProofs`: its inductive invariant and the proofs.
- `Paging`, `QueuePage`: the arithmetic of `serveQueue`, and a user who follows the links
  of the page while jobs come and go. Offsets and limits below 0, which only a
  hand-written URL gives, are left out. `QueuePageProofs`: the proofs.

`executions`, `abandoned`, `cancelled`, `missed`, `always`, `ever`, `wiped`, `alone`,
`last`, `changed`, `cleanups`, `waitFailed` and `logIsCut` are history: no guard reads them.

Some operators have a second form with another name directly before them
(`IsStaleAnyRuntime` before `IsStale`, say). These are plausible mistakes; with one of
them in place of the original, the property named in `PROJECT.json` fails.

Not in these modules: the context of `DispatchJobs` (`cmd/worker.go` passes one that
nothing cancels), messages without a job id and records under another job's key (no
code writes them), and `Unsubscribe`, reached only through those.

## Runs

| Run | Instance | Question | States |
|---|---|---|---|
| `failures` | 1 job, 2 workers that may be killed, 1 cancel, fail-stale, both faults | do the compare-and-swaps settle every race, and what survives lost requests, lost replies and kills? Is the invariant of the proofs true? | 829k |
| `progress` | 2 jobs, 1 worker, fair | does every accepted job end, without fail-stale, and do readers see what their models assume? | 655k |
| `wait` | 1 job, 2 workers, one may be killed, the other refuses the job, 1 cancel, fail-stale repeated | does every job end when workers die, is what wait reports final, and does it end? | 140k |
| `queue_page` | pages of 1 to 3 jobs, up to 20 jobs | do links lead to pages, and are the page numbers true? | 777 |
| `readers` | 3 jobs, 14 requests, every search, 3 filters, 6 values of `Created` | is a page right while jobs change under it, does a search find the newest match, and do rows and counts agree? | 2.6M |
| `schema` | 1 job, 2 queues, 2 administrators, 1 worker | are the stores what init and wipe say, and is nothing accepted that is not stored? | 246k |
| `execution` | 1 job of 2 references, 3 older ones, 3 benchmarks, 269 reports | is what Succeeded true whatever ran beside it, does the worker come back, and do reports show it right? | 581k |
| `stale_submitted` | 1 job, 1 worker | *violation*: fail-stale ignores Submitted jobs | |
| `wait_cancelled` | 1 job, 1 worker, 1 cancel | *violation*: wait never ends for a Cancelled job | |
| `search_page` | 3 jobs, pages of 2 | *violation*: the page a search leads to does not show the match | |
| `wipe_queue` | 1 job, 2 queues, 1 administrator | *violation*: wiping a queue deletes the records of another | |
| `log_incomplete` | 1 job, 1 benchmark | *violation*: the stored log lacks what the script printed last | |

Bounds. Each job has its own record, message and artifacts; jobs meet only in the
consumer (`MaxAckPending`, the order of deliveries) and in one fail-stale scan, which
the two jobs of `progress` show; that the handling of one job leaves the safety of the
others alone is part of the proofs, which hold for any number. A race on a record is
between holders of copies of one revision: two workers, a cancel and fail-stale give
every pair of kinds and a third party, and the proofs hold for more.
`MaxAckPending` is 1 instead of 500, so that the limit is met. Nothing else is bounded:
redeliveries, faults, kills, scans, cancels and waits happen any number of times, and
the state space is finite all the same. Deadlock is checked in every run but
`log_incomplete`, where nothing is left to do after the job. Symmetry is
used only where all jobs and workers are alike and no liveness is checked:
`readers`, `search_page`, `schema`.

The requests of `readers` have limits of 0 (none), 1 and 2 and offsets of 0 and 1, which
with up to three jobs lie below, at and above what there is (a limit of 2 without a filter,
of 1 with one, which reads a job more than it shows); both directions; and an
empty filter, one of transient statuses only (which reads at most `MaxScan` messages, 2
instead of 50) and one of the others. 20 jobs on pages of one give page numbers with both
gaps; with fewer, every way they close up. The pages counted in `CountedPagesHold` hold
two jobs, so that three make a full and a short one. In each of the six values of `Created`
two jobs tie and the third is a second before or behind them, whatever the order in which
the records were created.

In `execution` the three benchmarks have time/op and speed, time/op alone and speed alone;
the older jobs share a reference, a commit, a Go version or a benchmark in every
combination, one has failed with results, and the new one ends in every way a job can.
Lists of jobs have one to three members, one of them twice in one list, and one reference
is a commit. Every command gets lists it refuses; the report specifications name every
section, a metric of each kind, and a section and a metric that do not exist. One section
per specification is enough, as each is filled by itself.

Fairness. A worker that is not killed takes its next step (`DispatchJobs` loops for
ever and every request has a time limit), and gets a message every so often while there
are any: strong fairness, because the server serves the pull requests of a consumer in turn,
so no worker asks in vain for ever. The 30s of an unacknowledged message are over some
day. `OperatedSpec` adds that timeouts elapse and that an operator runs fail-stale again
and again: nothing in the code schedules it, and without it a job whose worker died
stays Running. `WSpec` adds that `wait` goes on polling; in `progress` (`ObservedFairSpec`, the fairness of
`FairSpec` with the history of `CreatedJobs`) there is no operator. `ExecutionFairness`: the
worker, the commands of the script, tee and the copier go on, and `go test` ends by its
`-timeout`. That other commands (git, the build, the cleanup) end is assumed: nothing in the
code bounds them. Nothing is assumed of what a job leaves running; so `WorkerReturns` has a
condition of its own, that nothing the tests left running holds the pipe of tee for ever.
Without it the worker may wait for ever, as no timeout covers that process. (In `Worker`,
where the script is one choice of an outcome, `ScriptExits` takes this for granted.) Submitting, cancelling and failures are never forced. Liveness is checked without faults of the network: with them
`NoSilentLoss` says what is left, a job that is Submitted with no message because some
request failed.

## Findings

- `fail-stale` says it marks "all stale Submitted/Running jobs as Failed"
  (`cmd/fail_stale.go:21`), but `FailStaleJobs` skips every job that is not Running
  (`queue.go:458`). A job whose submit command died before publishing is Submitted for
  ever. (`StaleSubmittedIsFailed`)
- `wait` "waits for a set of jobs to complete" (`cmd/wait.go:25`), but ends only for
  Failed and Succeeded (`wait.go:82`), not for Cancelled, which `IsCompleted` counts as
  completed (`job.go:111`). (`WaitEndsWhenCompleted`)
- Searching in the web queue leads to the wrong page: `FindJobOffset` counts the jobs
  older than the match (`queue.go:191`), and the pages are sorted newest first
  (`queue.go:417`). (`SearchLandsOnMatch`; that the number itself is right is
  `SearchFindsNewest`.) The number also counts jobs the status filter hides.
- `wipe -queue` is to "wipe non-default queue with the specified name" (`cmd/wipe.go:30`),
  but deletes the repository and the artifacts store all queues share
  (`cmd/wipe.go:61`). (`WipeSparesOtherQueues`)
- The log file is to get all of the script's output (`worker.go:221`), but `runJob` waits
  for the process only (`worker.go:234`) and closes the file under the goroutine that
  copies the output (`worker.go:219`). (`LogIsComplete`) Waiting for that goroutine
  instead, as `cmd.Wait` does, would let whatever holds the output of the script hold up the
  worker; `WorkerReturns` says that now only what holds the pipe of tee can.

## Proofs

For any sets of jobs, workers and cancellers, any faults, any filter, any limit of
unacknowledged messages (the assumptions are the ASSUMEs of the modules: `NoWorker` and
`NoJob` are not members, `CrashProne`, `Allowed` and `Faults` are subsets, the limit is
positive):

| Theorem | Says |
|---|---|
| `TypeCorrect` | `[]TypeOK` |
| `RunsAtMostOnce` | `[]AtMostOnce` |
| `CancellationHolds` | `[]CancelledNeverRuns` |
| `ArtifactsAreThere` | `[]ArtifactsBacked` |
| `RunningHasWorker` | `[]RunningIsAttended` |
| `FinalIsForever` | `FinalForever` |
| `FailureHasCause` | `FailsForCause` |
| `Implementation` | `Spec => Lifecycle!Spec` |
| `ReadersSeeTheSystem` | `ObservedSpec => ImplementsPublishedJobs` |
| `DeliveryInvariance` | `[]DeliveryInv` |
| `NothingLostSilently` | `[]NoSilentLoss` |
| `WaitOnlyReads` | `WSpec => Spec`: with `wait` beside it the system does what it does without |
| `WaitedStayOver` | `[]WaitedJobsAreOver` |

and for any benchmarks, references, commits and Go versions (no commit or version reads
"?", "missing" or the like, and go test's verdict is not the name of a benchmark):

| Theorem | Says |
|---|---|
| `ExecutionTypeCorrect` | `[]ExecutionInv` |
| `SuccessIsBacked` | `[]SucceededIsBacked` |
| `ResultsComeWithSHA` | `[]ResultsHaveSHA` |
| `CleanupRunsOnce` | `[]CleanedUpOnce` |

and for any queues, jobs, administrators and workers (`NoQueue` is no queue):

| Theorem | Says |
|---|---|
| `SchemaInvariance` | `[]SchemaInv` |
| `AcceptedStaysStored` | `[]AcceptedIsStored` |
| `SkipsAreWiped` | `[]SkippedOnlyWhenWiped` |
| `CommandsHold` | `[]LastCommandHolds` |

and for any jobs, requests, limits, offsets, filters and queries (`Limit` and `MaxScan` are
positive):

| Theorem | Says |
|---|---|
| `ReadersKeepTrack` | `[]ReadersInv` |
| `ListingsInStreamOrder` | `[]InStreamOrder` |
| `UnfilteredListingsExact` | `[]UnfilteredIsExact` |
| `FilteredListingsExact` | `[]FilteredIsExact` |
| `FilteredListingsFair` | `[]FilteredIsFair` |
| `SearchFindsTheNewest` | `[]SearchFindsNewest` |
| `UnchangedJobsSeenOnce` | `[]UnchangedSeenOnce` |
| `CountedPages` | `[]CountedPagesHold`, and `CountedPagesExact` for any `Created`, filter and limit |
| `QuietPages` | `[]QuietPageIsExact`, and `QuietPagesExact` for any `Created`, filter, limit and offset |

and for any page sizes and any number of jobs:

| Theorem | Says |
|---|---|
| `PagesBeginPages` | `[]BeginsAPage` |
| `PageNumbersTrue` | `[]GapsAreReal` |
| `PagesPartitionJobs` | `[]PagesPartition` |

and for any older jobs, measurements and requests (of every benchmark a job ran there is a
measurement above 0; an older job with results has a commit, which is what
`ResultsComeWithSHA` proves of the new one; a plot, which has no parameter for it, skips no
section):

| Theorem | Says |
|---|---|
| `ReportsAreCurrent` | `[]ReportsInv` |
| `ReportsPanicForCause` | `[]PanicsForCause` |
| `ReportsKeepColumns` | `[]ColumnsBelongToJobs` |
| `ReportsTellJobsApart` | `[]LabelsTellJobsApart` |
| `ReportsPaintFasterGreen` | `[]GreenIsFaster` |

None of the first table's invariants is inductive: a state in which two workers hold copies they may
both write would satisfy them all and break them in a step. The strengthening, `IInv`,
rests on one observation: **the revision of a record tells its status** (0 absent, 1
Submitted, 2 Running or Cancelled, 3 Failed or Succeeded), since each status is written
over one particular revision. A copy therefore tells by its own revision what it may
still replace: claims and cancellations are held at revision 1, final updates and
fail-stale's at revision 2, and of all the copies of one revision only the first is
written. From that, at most one worker is past its claim of a given job
(`OneWorkerPerJob`: the record names it), so the script starts once, and what its copy
refers to is in the store under its name.

`GoBenchAwayProofs` first proves that each action keeps the types, then that each write
of a record, whoever makes it, keeps `RecordsInv` and does no more than `Evolves` allows
(`PutKeepsRecords`, with `Writable` the condition on the copy), and that every held copy
stays good under `Evolves`; each action then needs only its own part. `Evolves` also
gives the action properties and the refinement. `GoBenchAwayNoLoss` adds `DeliveryInv`:
a worker about to acknowledge a message knows its job to be past Submitted, or has let
it go after a failure; and a job with a message has a record, and its submit command, the
only publisher, is over. That gives the second refinement: a message is published for a
job that has a record and no message (`ReadersView`), a status changes by one step of
the lifecycle or not at all (`OneStatusMoves`), and no step does both.

The argument of `ExecutionProofs` is one about who may still write: while the script goes
on the worker waits, and its copy is that of a running job (`WorkerWaits`); a script
reaches its tests only past files that were checked (`RecordedInv`), and ends with an exit
code of zero only behind tests that passed and a tee that has written everything
(`ExitCodeInv`), after which nobody writes to the directory; so what the worker reads and
uploads is what the script left (`SuccessInv`, `ResultsInv`). A killed script is the case
that makes the strengthening necessary: its tests and tee go on beside the uploads, and
only the files recorded before they started can be relied on. The theorems are about the
specification of `BenchmarkReports`, which leaves the execution alone
(`ReportsLeaveExecutionAlone`).

`SchemaProofs` rests on two facts. What was once stored is in its store or was taken by a
wipe (`RequestKeepsStored`), and `SubmitJob` asks for the message only once it knows that
the record was stored, so a message implies a record, or a wipe (`RecordsPrecedeMessages`).
And what a command that runs alone has created or deleted so far is still there or gone
(`AloneSoFar`), since nobody else creates or deletes stores.

`wait` only reads, so `WSpec => Spec` and everything above holds beside it. What it
reports stays true by `Evolves`: a completed record does not change (`WaitSeesTheEnd`).

`ReadersProofs`. None of the promises about a finished request is inductive: they say nothing
of a walk that is not over. The invariant says where each walk stands. A listing has read
`scanned` messages, the next one is at the place that follows from that and the direction
(`At`), and what it holds are jobs of those messages in their order (`WalkInv`,
`CollectedInv`). What passes the filter now lies between the jobs that passed all along and
those that ever did (`HistoryInv`). The heart is `CompleteInv`: without a missed read, the
jobs skipped and collected are those read that passed, and if nothing came or went, the jobs are
numbered through by counting the passing ones up to each place (`PassedUpTo`), so the
offset cuts off exactly that many. `ReadPassesOver` and `ReadTakes` are its two steps. A
search has numbered the messages its first pass went through, and nothing its second pass
went through matches (`NumberedUpTo`, `SearchInv`). A watcher waits for a number of entries
settled by the first; a record written meanwhile moves behind all others, so a record that
stays as it was only ever moves forward and comes in time (`ComesInTime`), and a record
handed over comes again only if it was written (`WatchInv`).

What the queue page makes of the entries needs no further invariant but that they are
records (`RecordsInv`). The counts are a fold over the statuses; that they add up to the
number of entries that pass (`CountsAddUp`) is shown by a set of statuses least among
those for which they do not, and so is that finite sets can be sorted (`OrderExists`).
The sorted orders are then all of one length, which is the total the pages are counted
from, whatever versions of a job came and whatever `Created` says (`CountedPagesAre`). If
nothing was written, entries and jobs correspond (`QuietMatched`), so each arrangement of
the entries is one of the jobs, as they are (`QuietRows`), and what sorting leaves of them
are sorted lists of the jobs. There may be several, as jobs of one second have no order.

`ReportsProofs`. A report is the one that would be made now, since jobs that are over do not
change (`ReportIsCurrent`; `SameArchiveSameReports`: storing a new job changes none made of
others). This reduces the four properties to facts about `Result` over any archive with
`ArchiveInv`: whatever is asked for comes to an error, the panic of a label, or the sections
asked for (`ResultComesTo`), and their cells are followed back to measurements
(`TableHolds`, `SectionShown`). `ArchiveInv` holds of the new job because of
`ExecutionInv`. Means are sums over samples of any length, defined by a recursive function;
what holds of all initial parts of a sample is shown without an induction rule: the places
where it fails would have a least one (`LeastNumber`, `InductionUpTo`). `GreenIsFaster` is
then arithmetic about two means and their inverses.

`QueuePageProofs`. The invariant of the page on the screen is small (`PageInv`: it begins at a
multiple of a size the page offers); the work is in the arithmetic. `InParts` says which token is at which
place of the pagination, and `TokensAreTrue` goes through the places where two parts meet:
a gap is there only if more than one step is skipped. `PagesShareOut` is division with
remainder: job k is on page (k - 1) div limit + 1, pages below the count `PagesCounted`
gives begin before the last job, and the one behind does not.

Only model-checked: liveness under fairness (`AcceptedJobsComplete`, `WaitEndsForAccepted`,
`WorkerReturns`), which is out of this prover's reach, and the refutations.

## Not modelled, and the plan

What is left, in this order:

1. The numbering of charts by concurrent plot requests (`helpers.go:101`), which share a
   counter without a lock.
2. The clocks behind fail-stale's comparison (`queue.go:462`).

Left out for good: formatting and rendering, deviations and significance tests, flag
parsing, a filter that names a status twice (only a hand-written URL does, and its jobs are
then counted twice), downloading artifacts, `GetQueueStatus` (one number, printed), credentials, and
the NATS server, benchstat, git and `go test` beyond what the code relies on.
