------------------------------ MODULE FailStale ------------------------------
(***************************************************************************)
(* FailStaleJobs, the `fail-stale` command: reads every record once, keeps *)
(* the ids of the Running ones whose run time exceeds their timeout, then  *)
(* loads each of them again and, if it is still Running, stores it as      *)
(* Failed over the revision of that second load.  Errors are skipped.      *)
(***************************************************************************)
EXTENDS JobsRepository

VARIABLES
    fpc,        \* "idle", "scan" (the watcher's snapshot) or "fail" (the updates)
    unread,     \* the records the watcher has still to hand over
    stale,      \* staleJobs: ids collected by the scan and not dealt with yet
    fjob,       \* the copy of the job about to be stored, or NothingHeld
    overdue     \* jobs whose Started is more than their Timeout ago

failStaleVars == <<fpc, unread, stale, fjob, overdue>>

FailStaleTypeOK ==
    /\ fpc \in {"idle", "scan", "fail"}
    /\ unread \subseteq Jobs
    /\ stale \subseteq Jobs
    /\ fjob \in HeldJobs
    /\ fjob # NothingHeld => fjob.id \in Jobs
    /\ overdue \subseteq Jobs

FailStaleInit ==
    /\ fpc = "idle"
    /\ unread = {}
    /\ stale = {}
    /\ fjob = NothingHeld
    /\ overdue = {}

\* Time passes: the job was started (once, so Started never moves) and its
\* timeout is over.  The job itself need not be running any more.
TimeoutElapses(j) ==
    /\ j \notin overdue
    /\ records[j].status = "Running"
    /\ overdue' = overdue \union {j}
    /\ UNCHANGED <<repoVars, fpc, unread, stale, fjob>>

BeginScan ==
    /\ fpc = "idle"
    /\ fpc' = "scan"
    /\ unread' = Jobs
    /\ UNCHANGED <<repoVars, stale, fjob, overdue>>

IsStaleAnyRuntime(j) == records[j].status = "Running"
IsStaleWithinTimeout(j) == records[j].status = "Running" /\ j \notin overdue
IsStale(j) == records[j].status = "Running" /\ j \in overdue

ReadEntry(j) ==
    /\ fpc = "scan"
    /\ j \in unread
    /\ unread' = unread \ {j}
    /\ stale' = IF IsStale(j) THEN stale \union {j} ELSE stale
    /\ UNCHANGED <<repoVars, fpc, fjob, overdue>>

EndScan ==
    /\ fpc = "scan"
    /\ unread = {}
    /\ fpc' = "fail"
    /\ UNCHANGED <<repoVars, unread, stale, fjob, overdue>>

StillRunningUnchecked(job) == TRUE
StillRunning(job) == job.rec.status = "Running"

FailedCopy(job) == [job EXCEPT !.rec = SetFinalStatus(@, "Failed")]

FailLoad(j) ==
    /\ fpc = "fail"
    /\ fjob = NothingHeld
    /\ j \in stale
    /\ stale' = stale \ {j}
    /\ \/ LoadFails(j) /\ UNCHANGED fjob
       \/ RecordExists(j) /\ ~StillRunning(Loaded(j)) /\ UNCHANGED fjob
       \/ RecordExists(j) /\ StillRunning(Loaded(j)) /\ fjob' = FailedCopy(Loaded(j))
    /\ UNCHANGED <<repoVars, fpc, unread, overdue>>

FailUpdate ==
    /\ fjob # NothingHeld
    /\ UpdateJobOK(fjob) \/ UpdateJobFails(fjob)
    /\ fjob' = NothingHeld
    /\ UNCHANGED <<fpc, unread, stale, overdue>>

EndFailStale ==
    /\ fpc = "fail"
    /\ stale = {}
    /\ fjob = NothingHeld
    /\ fpc' = "idle"
    /\ UNCHANGED <<repoVars, unread, stale, fjob, overdue>>

FailStaleStep ==
    \/ BeginScan
    \/ \E j \in Jobs : ReadEntry(j) \/ FailLoad(j)
    \/ EndScan
    \/ FailUpdate
    \/ EndFailStale
==============================================================================
