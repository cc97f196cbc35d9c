------------------------ MODULE GoBenchAwayInvariant ------------------------
(***************************************************************************)
(* The inductive invariant behind the safety properties of GoBenchAway.    *)
(*                                                                         *)
(* The argument is that a record's revision tells how far its job is: each *)
(* status is written over one particular revision, so a held copy tells by *)
(* its revision which statuses it may still replace.                       *)
(***************************************************************************)
EXTENDS GoBenchAway

\* The revision of a key counts the writes of its record.
RevisionTellsStatus ==
    \A j \in Jobs :
        /\ records[j].status = "Absent" <=> revisions[j] = 0
        /\ records[j].status = "Submitted" <=> revisions[j] = 1
        /\ records[j].status \in {"Running", "Cancelled"} <=> revisions[j] = 2
        /\ records[j].status \in {"Failed", "Succeeded"} <=> revisions[j] = 3

\* A copy about to claim a job was loaded at revision 1, when nobody had it.
ClaimingCopy(w) ==
    /\ wjob[w].id \in Jobs
    /\ wjob[w].rev = 1
    /\ revisions[wjob[w].id] >= 1
    /\ wjob[w].rec.status = "Running"
    /\ wjob[w].rec.worker = w
    /\ wjob[w].rec.artifacts = {}

\* The artifacts a job that may still succeed refers to, step by step.
RefersTo(pc) ==
    CASE pc = "results" -> {"log"}
      [] pc = "script" -> {"log", "results"}
      [] pc = "finish" -> ArtifactKinds
      [] OTHER -> {}

\* A worker at work holds the copy it wrote at revision 2, its record names it
\* (so no two workers are at work on one job) and is not Cancelled, and the
\* artifacts its copy refers to are its own.
WorkingCopy(w) ==
    LET job == wjob[w] IN
    /\ job.id \in Jobs
    /\ job.rev = 2
    /\ revisions[job.id] >= 2
    /\ records[job.id].status # "Cancelled"
    /\ records[job.id].worker = w
    /\ job.rec.worker = w
    /\ \A k \in job.rec.artifacts : artifacts[job.id][k] = w
    /\ wpc[w] \in {"launch", "run"} => job.rec.status = "Running"
    /\ wpc[w] = "launch" => executions[job.id] = 0
    /\ wpc[w] = "run" \/ job.rec.status = "Succeeded" => executions[job.id] = 1
    /\ wpc[w] \in Uploading \union {"finish"} => job.rec.status \in {"Failed", "Succeeded"}
    /\ job.rec.status = "Succeeded" => RefersTo(wpc[w]) \subseteq job.rec.artifacts

WorkerCopy(w) ==
    /\ wpc[w] = "claim" => ClaimingCopy(w)
    /\ AtWork(w) => WorkingCopy(w)

WorkerCopies == \A w \in Workers : WorkerCopy(w)

CancellerCopies ==
    \A c \in Cancellers : cjob[c] # NothingHeld =>
        /\ cjob[c].id \in Jobs
        /\ cjob[c].rev = 1
        /\ cjob[c].rec.status = "Cancelled"
        /\ cjob[c].rec.artifacts = {}

\* fail-stale holds copies of jobs that were running and whose timeout is over.
FailStaleCopy ==
    /\ stale \subseteq overdue
    /\ fjob # NothingHeld =>
        /\ fjob.id \in overdue
        /\ fjob.rev = 2
        /\ revisions[fjob.id] >= 2
        /\ records[fjob.id].status # "Cancelled"
        /\ fjob.rec.status = "Failed"
        /\ fjob.rec.artifacts = {}
        /\ fjob.rec.worker = records[fjob.id].worker

RunsOnce ==
    \A j \in Jobs :
        /\ executions[j] <= 1
        /\ revisions[j] <= 1 \/ records[j].status = "Cancelled" => executions[j] = 0
        /\ records[j].status = "Succeeded" => executions[j] = 1

CancelledStays == \A j \in cancelled : records[j].status = "Cancelled"

\* Only the final update brings artifacts into the record.
NoArtifactsBefore == \A j \in Jobs : revisions[j] <= 2 => records[j].artifacts = {}

RecordsInv == RevisionTellsStatus /\ NoArtifactsBefore /\ ArtifactsBacked

\* The conjunction is inductive: it holds whatever the constants, initially
\* and after every step from a state where it holds.
IInv ==
    /\ TypeOK
    /\ RecordsInv
    /\ WorkerCopies
    /\ CancellerCopies
    /\ FailStaleCopy
    /\ RunsOnce
    /\ CancelledStays
    /\ RunningIsAttended

(***************************************************************************)
(* For NoSilentLoss: a message is acknowledged only with a reason.  For    *)
(* ImplementsPublishedJobs: a message is published after its record.       *)
(***************************************************************************)
PublishedHasRecord ==
    \A j \in Jobs : submission[j] \in {"created", "accepted"} => revisions[j] >= 1

\* The copy a worker holds is that of its message's job.
MessageCopies ==
    \A w \in Workers : wpc[w] = "claim" \/ AtWork(w) => wjob[w].id = stream[wmsg[w]]

\* A worker about to acknowledge a message knows that its job is past Submitted,
\* or has let go of it.
AckJustified ==
    \A w \in Workers : wpc[w] = "ack" =>
        stream[wmsg[w]] \in abandoned \/ revisions[stream[wmsg[w]]] >= 2

\* Only the submit command publishes a job, once, and is over then.
PublishedIsOver ==
    \A s \in DOMAIN stream : submission[stream[s]] \in {"accepted", "failed"}

DeliveryInv ==
    /\ IInv
    /\ PublishedHasRecord
    /\ PublishedIsOver
    /\ MessageCopies
    /\ AckJustified
    /\ NoSilentLoss
=============================================================================
