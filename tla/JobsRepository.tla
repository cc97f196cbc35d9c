--------------------------- MODULE JobsRepository ---------------------------
(***************************************************************************)
(* The jobs repository (a NATS key-value bucket, one key per job) and the  *)
(* artifacts store (a NATS object store), as v1/client uses them.  Every   *)
(* write of a record is a compare-and-swap on the revision of its key.     *)
(*                                                                         *)
(* A request may fail in the two ways a client cannot tell apart: it never *)
(* reached the server, or it took effect and its reply was lost.           *)
(***************************************************************************)
EXTENDS JobRecord

CONSTANT Faults     \* the failures of requests that may happen
ASSUME FaultsAssumption == Faults \subseteq {"lost_request", "lost_reply"}

VARIABLES
    records,    \* job -> the record stored under its key, NoRecord if none
    revisions,  \* job -> the revision of its key, 0 while there is none
    artifacts   \* job -> kind -> the worker that stored it, NoWorker if none

repoVars == <<records, revisions, artifacts>>

RepoTypeOK ==
    /\ records \in [Jobs -> JobRecords]
    /\ revisions \in [Jobs -> Nat]
    /\ artifacts \in [Jobs -> [ArtifactKinds -> Workers \union {NoWorker}]]

RepoInit ==
    /\ records = [j \in Jobs |-> NoRecord]
    /\ revisions = [j \in Jobs |-> 0]
    /\ artifacts = [j \in Jobs |-> [k \in ArtifactKinds |-> NoWorker]]

RequestLost == "lost_request" \in Faults
ReplyLost == "lost_reply" \in Faults

(***************************************************************************)
(* LoadJob: the copy of the record and its revision, or an error.          *)
(***************************************************************************)
RecordExists(j) == records[j].status # Absent

LoadFails(j) == ~RecordExists(j) \/ RequestLost

Loaded(j) == [id |-> j, rec |-> records[j], rev |-> revisions[j]]

(***************************************************************************)
(* UpdateJob: stores the copy, and only over the revision it was loaded    *)
(* at.  CreateRecord is the same with the revision of a key that is not    *)
(* there.                                                                  *)
(***************************************************************************)
RevisionMatches(job) == revisions[job.id] = job.rev

Put(job) ==
    /\ RevisionMatches(job)
    /\ records' = [records EXCEPT ![job.id] = job.rec]
    /\ revisions' = [revisions EXCEPT ![job.id] = @ + 1]
    /\ UNCHANGED artifacts

UpdateJobOK(job) == Put(job)

UpdateJobFails(job) ==
    \/ ~RevisionMatches(job) /\ UNCHANGED repoVars
    \/ RequestLost /\ UNCHANGED repoVars
    \/ ReplyLost /\ Put(job)

(***************************************************************************)
(* Storing an artifact: last writer wins, the key holds only the job's id. *)
(***************************************************************************)
StoreArtifact(j, kind, w) ==
    /\ artifacts' = [artifacts EXCEPT ![j][kind] = w]
    /\ UNCHANGED <<records, revisions>>

\* The file may be missing or unreadable, whatever the server does.
StoreArtifactFails(j, kind, w) ==
    \/ UNCHANGED repoVars
    \/ ReplyLost /\ StoreArtifact(j, kind, w)
=============================================================================
