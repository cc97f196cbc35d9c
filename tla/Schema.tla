------------------------------- MODULE Schema -------------------------------
(***************************************************************************)
(* The three stores come and go: `init` and `wipe` create and delete them  *)
(* with one request each, in turn, while other commands check that they    *)
(* exist, submit jobs and start workers.  A queue has a stream of its own; *)
(* all queues of a namespace share the jobs repository and the artifacts   *)
(* store.                                                                  *)
(*                                                                         *)
(* What becomes of a job once a worker has its message is GoBenchAway's    *)
(* matter; here it only counts whether its record is still there.          *)
(***************************************************************************)
EXTENDS Integers, Sequences, FiniteSets, TLC

CONSTANTS
    Queues,     \* the queue of the namespace and those given with -queue
    Jobs,
    Admins,     \* those who run init and wipe
    Workers,
    NoQueue     \* no member of Queues

ASSUME NoQueueAssumption == NoQueue \notin Queues

VARIABLES
    existing,   \* the stores that exist
    messages,   \* queue -> the jobs in its stream
    records,    \* the jobs with a record
    consumers,  \* the queues whose stream has the workers' consumer
    commands,   \* admin -> the command it runs
    submits,    \* job -> its submit command
    serving,    \* worker -> the queue it started for, NoQueue if none
    subscribed, \* the workers that fetch messages
    taken,      \* jobs whose message was taken and whose record was there
    skipped,    \* jobs whose message was dropped because it was not
    wiped,      \* jobs a wipe took the record or the message of (history)
    alone,      \* the command under way is the only one since it began (history)
    last        \* the last command, if it was alone and succeeded, until the
                \* next one begins (history)

storeVars == <<existing, messages, records, consumers, wiped>>
adminVars == <<commands, alone, last>>
workerVars == <<serving, subscribed, taken, skipped>>
vars == <<storeVars, adminVars, submits, workerVars>>

\* The stores a client with -queue q is for, in the order of init and wipe.
StoresOf(q) == <<q, "repository", "artifacts">>

NoCommand == [op |-> "none", queue |-> NoQueue, next |-> 0]
NoSubmit == [queue |-> NoQueue, at |-> "new"]

Init ==
    /\ existing = {}
    /\ messages = [q \in Queues |-> {}]
    /\ records = {}
    /\ consumers = {}
    /\ commands = [a \in Admins |-> NoCommand]
    /\ submits = [j \in Jobs |-> NoSubmit]
    /\ serving = [w \in Workers |-> NoQueue]
    /\ subscribed = {}
    /\ taken = {} /\ skipped = {} /\ wiped = {}
    /\ alone = TRUE
    /\ last = NoCommand

(***************************************************************************)
(* init and wipe.                                                          *)
(***************************************************************************)
Begin(a, op, q) ==
    /\ commands[a] = NoCommand
    /\ commands' = [commands EXCEPT ![a] = [op |-> op, queue |-> q, next |-> 1]]
    /\ alone' = (\A b \in Admins : commands[b] = NoCommand)
    /\ last' = NoCommand
    /\ UNCHANGED <<storeVars, submits, workerVars>>

\* Creating a store that exists changes nothing.
Create(s) ==
    /\ existing' = existing \union {s}
    /\ UNCHANGED <<messages, records, consumers, wiped>>

\* Deleting one that does not is no error.  A stream's consumer goes with it.
Delete(s) ==
    /\ existing' = existing \ {s}
    /\ consumers' = consumers \ {s}
    /\ messages' = [q \in Queues |-> IF q = s THEN {} ELSE messages[q]]
    /\ records' = IF s = "repository" THEN {} ELSE records
    /\ wiped' = wiped \union (records \ records')
                      \union UNION {messages[q] \ messages'[q] : q \in Queues}

Request(c) ==
    LET s == StoresOf(c.queue)[c.next] IN
    IF c.op = "init" THEN Create(s) ELSE Delete(s)

RequestDoneIgnoringErrors(a) ==
    LET c == commands[a] IN
    /\ c # NoCommand
    /\ Request(c) \/ UNCHANGED storeVars
    /\ IF c.next < 3
       THEN commands' = [commands EXCEPT ![a].next = @ + 1] /\ UNCHANGED last
       ELSE /\ commands' = [commands EXCEPT ![a] = NoCommand]
            /\ last' = IF alone THEN c ELSE NoCommand
    /\ UNCHANGED <<alone, submits, workerVars>>
RequestDone(a) ==
    LET c == commands[a] IN
    /\ c # NoCommand
    /\ Request(c)
    /\ IF c.next < 3
       THEN commands' = [commands EXCEPT ![a].next = @ + 1] /\ UNCHANGED last
       ELSE /\ commands' = [commands EXCEPT ![a] = NoCommand]
            /\ last' = IF alone THEN c ELSE NoCommand
    /\ UNCHANGED <<alone, submits, workerVars>>

\* A request fails, having taken effect or not, or the command dies: the rest
\* is not done.
CommandFails(a) ==
    /\ commands[a] # NoCommand
    /\ Request(commands[a]) \/ UNCHANGED storeVars
    /\ commands' = [commands EXCEPT ![a] = NoCommand]
    /\ UNCHANGED <<alone, last, submits, workerVars>>

(***************************************************************************)
(* submit: NewClient's checks, then SubmitJob's two requests.              *)
(***************************************************************************)
SubmitAt(j, at) == submits' = [submits EXCEPT ![j].at = at]

\* NewClient checks the stores it is asked for; without them the command ends.
NewClient(needed) == needed \subseteq existing

StartSubmit(j, q) ==
    /\ submits[j].at = "new"
    /\ NewClient({q, "repository"})
    /\ submits' = [submits EXCEPT ![j] = [queue |-> q, at |-> "create"]]
    /\ UNCHANGED <<storeVars, adminVars, workerVars>>

CreateRecordIgnoringError(j) ==
    /\ submits[j].at = "create"
    /\ records' = IF "repository" \in existing THEN records \union {j} ELSE records
    /\ SubmitAt(j, "publish")
    /\ UNCHANGED <<existing, messages, consumers, wiped, adminVars, workerVars>>
\* Without the store the request fails; with it, it may, having taken effect or
\* not, and so may the command die.
CreateRecord(j) ==
    /\ submits[j].at = "create"
    /\ \/ /\ "repository" \in existing
          /\ records' = records \union {j}
          /\ \E at \in {"publish", "failed"} : SubmitAt(j, at)
       \/ UNCHANGED records /\ SubmitAt(j, "failed")
    /\ UNCHANGED <<existing, messages, consumers, wiped, adminVars, workerVars>>

PublishIgnoringError(j) ==
    /\ submits[j].at = "publish"
    /\ \/ /\ submits[j].queue \in existing
          /\ messages' = [messages EXCEPT ![submits[j].queue] = @ \union {j}]
       \/ UNCHANGED messages
    /\ SubmitAt(j, "accepted")
    /\ UNCHANGED <<existing, records, consumers, wiped, adminVars, workerVars>>
Publish(j) ==
    /\ submits[j].at = "publish"
    /\ \/ /\ submits[j].queue \in existing
          /\ messages' = [messages EXCEPT ![submits[j].queue] = @ \union {j}]
          /\ \E at \in {"accepted", "failed"} : SubmitAt(j, at)
       \/ UNCHANGED messages /\ SubmitAt(j, "failed")
    /\ UNCHANGED <<existing, records, consumers, wiped, adminVars, workerVars>>

(***************************************************************************)
(* worker: NewClient's checks, the subscription, and one message after     *)
(* the other.                                                              *)
(***************************************************************************)
StartWorker(w, q) ==
    /\ serving[w] = NoQueue
    /\ NewClient({q, "repository", "artifacts"})
    /\ serving' = [serving EXCEPT ![w] = q]
    /\ UNCHANGED <<storeVars, adminVars, submits, subscribed, taken, skipped>>

\* The first worker of a queue makes the consumer; without a stream the worker
\* ends.
Subscribe(w) ==
    LET q == serving[w] IN
    /\ q # NoQueue /\ w \notin subscribed
    /\ \/ /\ q \in existing
          /\ consumers' = consumers \union {q}
          /\ subscribed' = subscribed \union {w}
          /\ UNCHANGED serving
       \/ /\ q \notin existing
          /\ serving' = [serving EXCEPT ![w] = NoQueue]
          /\ UNCHANGED <<consumers, subscribed>>
    /\ UNCHANGED <<existing, messages, records, wiped, adminVars, submits, taken, skipped>>

\* Without its consumer the worker goes on asking in vain.
TakeMessage(w, j) ==
    LET q == serving[w] IN
    /\ w \in subscribed
    /\ q \in consumers
    /\ j \in messages[q] \ (taken \union skipped)
    /\ IF j \in records THEN taken' = taken \union {j} /\ UNCHANGED skipped
       ELSE skipped' = skipped \union {j} /\ UNCHANGED taken
    /\ UNCHANGED <<storeVars, adminVars, submits, serving, subscribed>>

StopWorker(w) ==
    /\ serving[w] # NoQueue
    /\ serving' = [serving EXCEPT ![w] = NoQueue]
    /\ subscribed' = subscribed \ {w}
    /\ UNCHANGED <<storeVars, adminVars, submits, taken, skipped>>

Next ==
    \/ \E a \in Admins :
        \/ \E op \in {"init", "wipe"}, q \in Queues : Begin(a, op, q)
        \/ RequestDone(a)
        \/ CommandFails(a)
    \/ \E j \in Jobs :
        \/ \E q \in Queues : StartSubmit(j, q)
        \/ CreateRecord(j)
        \/ Publish(j)
    \/ \E w \in Workers :
        \/ \E q \in Queues : StartWorker(w, q)
        \/ Subscribe(w)
        \/ \E j \in Jobs : TakeMessage(w, j)
        \/ StopWorker(w)

Spec == Init /\ [][Next]_vars

(***************************************************************************)
(* Properties.                                                             *)
(***************************************************************************)

\* An init or wipe that says it succeeded, and had nobody else's running beside
\* it, left all three stores of its queue there, or none of them.
LastCommandHolds ==
    LET stores == {StoresOf(last.queue)[n] : n \in 1 .. 3} IN
    /\ last.op = "init" => stores \subseteq existing
    /\ last.op = "wipe" => stores \intersect existing = {}

\* A job whose submit succeeded has its record and its message, whatever init
\* and wipe did between NewClient's checks and SubmitJob's requests, unless a
\* wipe took them.
AcceptedIsStored ==
    \A j \in Jobs : submits[j].at = "accepted" =>
        j \in wiped \/ (j \in records /\ j \in messages[submits[j].queue])

\* A worker drops a message for want of its record only if the record was there
\* and a wipe took it: a message never precedes its record.
SkippedOnlyWhenWiped == skipped \subseteq wiped

\* cmd/wipe.go:30: wipe -queue is to "wipe non-default queue with the specified
\* name", so the records of another queue's jobs survive it.
WipeSparesOtherQueues ==
    [][\A j \in records \ records' :
        \E a \in Admins : commands[a].op = "wipe" /\ commands[a].queue = submits[j].queue]_vars
=============================================================================
