------------------------------ MODULE JobsQueue ------------------------------
(***************************************************************************)
(* The jobs queue: a JetStream stream and the one durable pull consumer    *)
(* every worker shares (external code, as v1/client uses it).  The stream  *)
(* keeps its messages; the consumer remembers which ones it delivered and  *)
(* which of those nobody has acknowledged.                                 *)
(*                                                                         *)
(* Delivery is at least once: an unacknowledged message is delivered again *)
(* when its AckWait (30s, the default) is over, to any worker, while the   *)
(* first one may still be at work.                                         *)
(***************************************************************************)
EXTENDS JobRecord, Sequences

CONSTANT MaxAckPending  \* new messages stop when so many are unacknowledged
ASSUME MaxAckPendingAssumption == MaxAckPending \in Nat \ {0}

VARIABLES
    stream,     \* the job identifiers of the messages, in stream order
    delivered,  \* the last stream sequence delivered for the first time
    pending,    \* delivered sequences whose AckWait is running
    expired     \* delivered sequences waiting for redelivery

queueVars == <<stream, delivered, pending, expired>>

QueueTypeOK ==
    /\ stream \in Seq(Jobs)
    /\ delivered \in 0 .. Len(stream)
    /\ pending \subseteq 1 .. delivered
    /\ expired \subseteq 1 .. delivered
    /\ pending \intersect expired = {}

QueueInit ==
    /\ stream = << >>
    /\ delivered = 0
    /\ pending = {}
    /\ expired = {}

Publish(j) ==
    /\ stream' = Append(stream, j)
    /\ UNCHANGED <<delivered, pending, expired>>

\* Redeliveries go first and do not count against MaxAckPending.
Redeliver(s) ==
    /\ s \in expired
    /\ expired' = expired \ {s}
    /\ pending' = pending \union {s}
    /\ UNCHANGED <<stream, delivered>>

DeliverNext(s) ==
    /\ expired = {}
    /\ s = delivered + 1
    /\ s <= Len(stream)
    /\ Cardinality(pending) < MaxAckPending
    /\ delivered' = s
    /\ pending' = pending \union {s}
    /\ UNCHANGED <<stream, expired>>

Deliver(s) == Redeliver(s) \/ DeliverNext(s)

\* The AckWait of a message is over.
AckWaitExpires(s) ==
    /\ s \in pending
    /\ pending' = pending \ {s}
    /\ expired' = expired \union {s}
    /\ UNCHANGED <<stream, delivered>>

\* An acknowledgement counts whoever sends it, and whenever.
Ack(s) ==
    /\ pending' = pending \ {s}
    /\ expired' = expired \ {s}
    /\ UNCHANGED <<stream, delivered>>

\* The message of j can still reach a worker.
Deliverable(j) ==
    \E s \in DOMAIN stream : stream[s] = j /\ (s > delivered \/ s \in pending \union expired)
==============================================================================
