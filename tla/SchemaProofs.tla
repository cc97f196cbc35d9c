---------------------------- MODULE SchemaProofs ----------------------------
(***************************************************************************)
(* Proofs about init, wipe and the commands beside them, for any number of *)
(* queues, jobs, administrators and workers.                               *)
(*                                                                         *)
(* Whatever a wipe removes it leaves in `wiped`, so what was once stored   *)
(* is in a store or in `wiped` for ever (RequestKeepsStored); and the      *)
(* record of a job is stored before its message is.                        *)
(***************************************************************************)
EXTENDS SchemaInvariant, TLAPS

LEMMA StoresListed ==
    ASSUME NEW q
    PROVE  /\ {StoresOf(q)[n] : n \in 1 .. 3} = {q, "repository", "artifacts"}
           /\ StoresOf(q)[1] = q /\ StoresOf(q)[2] = "repository" /\ StoresOf(q)[3] = "artifacts"
<1>1. StoresOf(q)[1] = q /\ StoresOf(q)[2] = "repository" /\ StoresOf(q)[3] = "artifacts"
  BY DEF StoresOf
<1>2. 1 .. 3 = {1, 2, 3}
  OBVIOUS
<1> QED
  BY <1>1, <1>2

LEMMA NoCommandIsNone ==
    ASSUME NEW c \in Commands PROVE c # NoCommand
BY DEF Commands, NoCommand

\* A request of init or wipe moves what it takes into wiped, and nothing else changes.
LEMMA RequestKeepsStored ==
    ASSUME SchemaTypeOK, NEW c \in Commands, Request(c) \/ UNCHANGED storeVars
    PROVE  /\ messages' \in [Queues -> SUBSET Jobs] /\ records' \subseteq Jobs
           /\ wiped' \subseteq Jobs /\ consumers' \subseteq Queues
           /\ wiped \subseteq wiped'
           /\ records \subseteq records' \union wiped'
           /\ \A q \in Queues : /\ messages'[q] \subseteq messages[q]
                                /\ messages[q] \subseteq messages'[q] \union wiped'
<1> DEFINE s == StoresOf(c.queue)[c.next]
<1>1. CASE UNCHANGED storeVars
  BY <1>1 DEF storeVars, SchemaTypeOK
<1>2. CASE Create(s)
  BY <1>2 DEF Create, SchemaTypeOK
<1>3. CASE Delete(s)
  <2>1. /\ messages' = [q \in Queues |-> IF q = s THEN {} ELSE messages[q]]
        /\ records' = IF s = "repository" THEN {} ELSE records
        /\ wiped' = wiped \union (records \ records')
                          \union UNION {messages[q] \ messages'[q] : q \in Queues}
        /\ consumers' = consumers \ {s}
    BY <1>3 DEF Delete
  <2>2. ASSUME NEW q \in Queues PROVE messages[q] \ messages'[q] \subseteq wiped'
    BY <2>1
  <2>3. ASSUME NEW q \in Queues PROVE messages'[q] \subseteq messages[q]
    BY <2>1
  <2>4. messages' \in [Queues -> SUBSET Jobs] /\ records' \subseteq Jobs
    BY <2>1 DEF SchemaTypeOK
  <2>5. wiped' \subseteq Jobs
    BY <2>1, <2>4 DEF SchemaTypeOK
  <2> QED
    BY <2>1, <2>2, <2>3, <2>4, <2>5 DEF SchemaTypeOK
<1> QED
  BY <1>1, <1>2, <1>3 DEF Request

\* What a request leaves of the stores is true of the store it is for, and it leaves
\* the others as they were.
LEMMA RequestDoes ==
    ASSUME NEW c \in Commands, Request(c)
    PROVE  existing' = IF c.op = "init" THEN existing \union {StoresOf(c.queue)[c.next]}
                       ELSE existing \ {StoresOf(c.queue)[c.next]}
BY DEF Request, Create, Delete

\* The parts of the invariant about stored jobs survive any request.
LEMMA StoredAfterRequest ==
    ASSUME SchemaInv, NEW c \in Commands, Request(c) \/ UNCHANGED storeVars,
           UNCHANGED <<submits, workerVars>>
    PROVE  /\ RecordsPrecedeMessages' /\ SubmittersHaveQueues'
           /\ AcceptedIsStored' /\ SkippedOnlyWhenWiped'
<1>1. /\ wiped \subseteq wiped'
      /\ records \subseteq records' \union wiped'
      /\ \A q \in Queues : /\ messages'[q] \subseteq messages[q]
                           /\ messages[q] \subseteq messages'[q] \union wiped'
  BY RequestKeepsStored DEF SchemaInv
<1>2. RecordsPrecedeMessages'
  BY <1>1 DEF SchemaInv, RecordsPrecedeMessages
<1>3. AcceptedIsStored'
  BY <1>1 DEF SchemaInv, AcceptedIsStored, SubmittersHaveQueues
<1> QED
  BY <1>1, <1>2, <1>3 DEF SchemaInv, SubmittersHaveQueues, SkippedOnlyWhenWiped, workerVars

LEMMA BeginKeeps ==
    ASSUME SchemaInv, NEW a \in Admins, NEW op \in {"init", "wipe"}, NEW q \in Queues,
           Begin(a, op, q)
    PROVE  SchemaInv'
<1> DEFINE c == [op |-> op, queue |-> q, next |-> 1]
<1>1. c \in Commands
  BY DEF Commands
<1>2. SchemaTypeOK'
  BY <1>1 DEF SchemaInv, SchemaTypeOK, Begin, storeVars, workerVars
<1>3. AloneSoFar'
  <2> SUFFICES ASSUME alone', NEW b \in Admins, commands'[b] # NoCommand
               PROVE  /\ \A d \in Admins \ {b} : commands'[d] = NoCommand
                      /\ \A n \in 1 .. commands'[b].next - 1 :
                            (StoresOf(commands'[b].queue)[n] \in existing')
                                <=> (commands'[b].op = "init")
    BY DEF AloneSoFar
  <2>1. \A d \in Admins : commands[d] = NoCommand
    BY DEF Begin
  <2>2. b = a /\ commands'[b] = c /\ \A d \in Admins \ {b} : commands'[d] = NoCommand
    BY <2>1 DEF Begin, SchemaInv, SchemaTypeOK
  <2> QED
    BY <2>2
<1>4. LastIsOver' /\ LastCommandHolds'
  BY DEF Begin, LastIsOver, LastCommandHolds, NoCommand
<1> QED
  BY <1>2, <1>3, <1>4 DEF SchemaInv, Begin, storeVars, workerVars, RecordsPrecedeMessages,
     SubmittersHaveQueues, AcceptedIsStored, SkippedOnlyWhenWiped

LEMMA RequestDoneKeeps ==
    ASSUME SchemaInv, NEW a \in Admins, RequestDone(a)
    PROVE  SchemaInv'
<1> DEFINE c == commands[a]
           d == [c EXCEPT !.next = @ + 1]
           s == StoresOf(c.queue)[c.next]
<1>1. c \in Commands /\ c # NoCommand /\ Request(c)
  BY DEF RequestDone, SchemaInv, SchemaTypeOK
<1>2. UNCHANGED <<alone, submits, workerVars>>
  BY DEF RequestDone
<1>3. /\ RecordsPrecedeMessages' /\ SubmittersHaveQueues'
      /\ AcceptedIsStored' /\ SkippedOnlyWhenWiped'
  BY <1>1, <1>2, StoredAfterRequest
<1>4. messages' \in [Queues -> SUBSET Jobs] /\ records' \subseteq Jobs
      /\ wiped' \subseteq Jobs /\ consumers' \subseteq Queues
  BY <1>1, RequestKeepsStored DEF SchemaInv
<1>5. existing' = IF c.op = "init" THEN existing \union {s} ELSE existing \ {s}
  BY <1>1, RequestDoes
\* What the command did before, this request does not undo.
<1>6. ASSUME alone, NEW n \in 1 .. c.next
      PROVE  (StoresOf(c.queue)[n] \in existing') <=> (c.op = "init")
  <2>1. CASE n = c.next
    BY <1>1, <1>5, <2>1 DEF Commands
  <2>2. CASE n \in 1 .. c.next - 1
    BY <1>1, <1>5, <1>6, <2>2 DEF Commands, SchemaInv, AloneSoFar
  <2> QED
    BY <1>1, <2>1, <2>2 DEF Commands
<1>7. ASSUME alone PROVE \A b \in Admins \ {a} : commands[b] = NoCommand
  BY <1>1, <1>7 DEF SchemaInv, AloneSoFar
<1>8. CASE c.next < 3
  <2>1. commands' = [commands EXCEPT ![a] = d] /\ UNCHANGED last
    BY <1>8 DEF RequestDone
  <2>2. d \in Commands /\ d.next = c.next + 1 /\ d.op = c.op /\ d.queue = c.queue
    BY <1>1, <1>8 DEF Commands
  <2>3. SchemaTypeOK'
    BY <1>2, <1>4, <2>1, <2>2 DEF SchemaInv, SchemaTypeOK, workerVars
  <2>4. AloneSoFar'
    <3> SUFFICES ASSUME alone', NEW b \in Admins, commands'[b] # NoCommand
                 PROVE  /\ \A e \in Admins \ {b} : commands'[e] = NoCommand
                        /\ \A n \in 1 .. commands'[b].next - 1 :
                              (StoresOf(commands'[b].queue)[n] \in existing')
                                  <=> (commands'[b].op = "init")
      BY DEF AloneSoFar
    <3>1. alone
      BY <1>2
    <3>2. b = a /\ commands'[b] = d
      BY <1>7, <2>1, <3>1 DEF SchemaInv, SchemaTypeOK
    <3>3. 1 .. d.next - 1 = 1 .. c.next
      BY <1>1, <2>2 DEF Commands
    <3>4. \A e \in Admins \ {b} : commands'[e] = NoCommand
      BY <1>7, <2>1, <3>1, <3>2 DEF SchemaInv, SchemaTypeOK
    <3> QED
      BY <1>6, <2>2, <3>1, <3>2, <3>3, <3>4
  <2>5. last = NoCommand
    BY <1>1 DEF SchemaInv, LastIsOver
  <2>6. LastIsOver' /\ LastCommandHolds'
    BY <2>1, <2>5 DEF LastIsOver, LastCommandHolds, NoCommand
  <2> QED
    BY <1>3, <2>3, <2>4, <2>6 DEF SchemaInv
<1>9. CASE ~ (c.next < 3)
  <2>1. commands' = [commands EXCEPT ![a] = NoCommand]
        /\ last' = IF alone THEN c ELSE NoCommand
    BY <1>9 DEF RequestDone
  <2>2. c.next = 3
    BY <1>1, <1>9 DEF Commands
  <2>3. c \in [op : {"init", "wipe"}, queue : Queues, next : {3}]
    BY <1>1, <2>2 DEF Commands
  <2>4. SchemaTypeOK'
    BY <1>2, <1>4, <2>1, <2>3 DEF SchemaInv, SchemaTypeOK, workerVars
  <2>5. ASSUME alone PROVE \A b \in Admins : commands'[b] = NoCommand
    BY <1>7, <2>1, <2>5 DEF SchemaInv, SchemaTypeOK
  <2>6. AloneSoFar' /\ LastIsOver'
    BY <1>2, <2>1, <2>5 DEF AloneSoFar, LastIsOver
  <2>7. LastCommandHolds'
    <3>1. CASE alone
      <4>1. \A n \in 1 .. 3 : (StoresOf(c.queue)[n] \in existing') <=> (c.op = "init")
        BY <1>6, <2>2, <3>1
      <4> HIDE DEF c
      <4>2. last' = c
        BY <2>1, <3>1
      <4> QED
        BY <4>1, <4>2 DEF LastCommandHolds
    <3>2. CASE ~ alone
      BY <2>1, <3>2 DEF LastCommandHolds, NoCommand
    <3> QED
      BY <3>1, <3>2
  <2> QED
    BY <1>3, <2>4, <2>6, <2>7 DEF SchemaInv
<1> QED
  BY <1>8, <1>9

LEMMA CommandFailsKeeps ==
    ASSUME SchemaInv, NEW a \in Admins, CommandFails(a)
    PROVE  SchemaInv'
<1>1. commands[a] \in Commands /\ (Request(commands[a]) \/ UNCHANGED storeVars)
  BY DEF CommandFails, SchemaInv, SchemaTypeOK
<1>2. UNCHANGED <<alone, last, submits, workerVars>>
      /\ commands' = [commands EXCEPT ![a] = NoCommand] /\ commands[a] # NoCommand
  BY DEF CommandFails
<1>3. /\ RecordsPrecedeMessages' /\ SubmittersHaveQueues'
      /\ AcceptedIsStored' /\ SkippedOnlyWhenWiped'
  BY <1>1, <1>2, StoredAfterRequest
<1>4. SchemaTypeOK'
  BY <1>1, <1>2, RequestKeepsStored DEF SchemaInv, SchemaTypeOK, workerVars
<1>5. alone => \A b \in Admins : commands'[b] = NoCommand
  BY <1>2 DEF SchemaInv, SchemaTypeOK, AloneSoFar
<1>6. last = NoCommand
  BY <1>2 DEF SchemaInv, LastIsOver
<1>7. AloneSoFar' /\ LastIsOver' /\ LastCommandHolds'
  BY <1>2, <1>5, <1>6 DEF AloneSoFar, LastIsOver, LastCommandHolds, NoCommand
<1> QED
  BY <1>3, <1>4, <1>7 DEF SchemaInv

\* No one but init and wipe touches what LastCommandHolds speaks of.
LEMMA AdminsUntouched ==
    ASSUME SchemaInv, UNCHANGED <<existing, adminVars>>
    PROVE  AloneSoFar' /\ LastIsOver' /\ LastCommandHolds'
BY DEF SchemaInv, AloneSoFar, LastIsOver, LastCommandHolds, adminVars

LEMMA StartSubmitKeeps ==
    ASSUME SchemaInv, NEW j \in Jobs, NEW q \in Queues, StartSubmit(j, q)
    PROVE  SchemaInv'
<1>1. SchemaTypeOK'
  BY DEF StartSubmit, storeVars, adminVars, workerVars, SchemaInv, SchemaTypeOK
<1>2. submits'[j] = [queue |-> q, at |-> "create"] /\ \A i \in Jobs \ {j} : submits'[i] = submits[i]
  BY DEF StartSubmit, SchemaInv, SchemaTypeOK
<1>3. RecordsPrecedeMessages' /\ SubmittersHaveQueues' /\ AcceptedIsStored' /\ SkippedOnlyWhenWiped'
  BY <1>2 DEF StartSubmit, storeVars, workerVars, SchemaInv, RecordsPrecedeMessages,
     SubmittersHaveQueues, AcceptedIsStored, SkippedOnlyWhenWiped
<1> QED
  BY <1>1, <1>3, AdminsUntouched DEF StartSubmit, storeVars, SchemaInv

LEMMA SubmitAtDoes ==
    ASSUME SchemaTypeOK, NEW j \in Jobs, NEW at \in {"publish", "accepted", "failed"},
           SubmitAt(j, at)
    PROVE  /\ submits' \in [Jobs -> [queue : Queues \union {NoQueue},
                             at : {"new", "create", "publish", "accepted", "failed"}]]
           /\ submits'[j].at = at /\ submits'[j].queue = submits[j].queue
           /\ \A i \in Jobs \ {j} : submits'[i] = submits[i]
BY DEF SchemaTypeOK, SubmitAt

LEMMA CreateRecordKeeps ==
    ASSUME SchemaInv, NEW j \in Jobs, CreateRecord(j)
    PROVE  SchemaInv'
<1>1. PICK at \in {"publish", "failed"} :
        /\ SubmitAt(j, at)
        /\ records' = records \union {j} \/ (records' = records /\ at = "failed")
  BY DEF CreateRecord
<1>2. /\ submits'[j].at = at /\ submits'[j].queue = submits[j].queue
      /\ \A i \in Jobs \ {j} : submits'[i] = submits[i]
  BY <1>1, SubmitAtDoes DEF SchemaInv
<1>3. SchemaTypeOK'
  BY <1>1, SubmitAtDoes DEF CreateRecord, adminVars, workerVars, SchemaInv, SchemaTypeOK
<1>4. submits[j].at = "create"
  BY DEF CreateRecord
<1>5. RecordsPrecedeMessages'
  BY <1>1, <1>2 DEF CreateRecord, SchemaInv, RecordsPrecedeMessages
<1>6. SubmittersHaveQueues'
  BY <1>2, <1>4 DEF SchemaInv, SubmittersHaveQueues
<1>7. AcceptedIsStored' /\ SkippedOnlyWhenWiped'
  BY <1>1, <1>2 DEF CreateRecord, workerVars, SchemaInv, AcceptedIsStored, SkippedOnlyWhenWiped
<1> QED
  BY <1>3, <1>5, <1>6, <1>7, AdminsUntouched DEF CreateRecord, SchemaInv

LEMMA PublishKeeps ==
    ASSUME SchemaInv, NEW j \in Jobs, Publish(j)
    PROVE  SchemaInv'
<1> DEFINE q == submits[j].queue
<1>1. PICK at \in {"accepted", "failed"} :
        /\ SubmitAt(j, at)
        /\ \/ messages' = [messages EXCEPT ![q] = @ \union {j}]
           \/ messages' = messages /\ at = "failed"
  BY DEF Publish
<1>2. /\ submits'[j].at = at /\ submits'[j].queue = q
      /\ \A i \in Jobs \ {j} : submits'[i] = submits[i]
  BY <1>1, SubmitAtDoes DEF SchemaInv
<1>3. submits[j].at = "publish" /\ q \in Queues /\ j \in records \union wiped
  BY DEF Publish, SchemaInv, SubmittersHaveQueues, RecordsPrecedeMessages
<1>4. /\ messages' \in [Queues -> SUBSET Jobs]
      /\ \A p \in Queues : /\ messages[p] \subseteq messages'[p]
                           /\ messages'[p] \subseteq messages[p] \union {j}
      /\ at = "accepted" => j \in messages'[q]
  BY <1>1, <1>3 DEF SchemaInv, SchemaTypeOK
<1>5. SchemaTypeOK'
  BY <1>1, <1>4, SubmitAtDoes DEF Publish, adminVars, workerVars, SchemaInv, SchemaTypeOK
<1>6. RecordsPrecedeMessages'
  BY <1>2, <1>3, <1>4 DEF Publish, SchemaInv, RecordsPrecedeMessages
<1>7. SubmittersHaveQueues'
  BY <1>2, <1>3 DEF SchemaInv, SubmittersHaveQueues
<1>8. AcceptedIsStored'
  <2> SUFFICES ASSUME NEW i \in Jobs, submits'[i].at = "accepted"
               PROVE  i \in wiped' \/ (i \in records' /\ i \in messages'[submits'[i].queue])
    BY DEF AcceptedIsStored
  <2>1. CASE i = j
    BY <1>2, <1>3, <1>4, <2>1 DEF Publish
  <2>2. CASE i # j
    BY <1>2, <1>4, <2>2 DEF Publish, SchemaInv, AcceptedIsStored, SubmittersHaveQueues
  <2> QED
    BY <2>1, <2>2
<1> QED
  BY <1>5, <1>6, <1>7, <1>8, AdminsUntouched DEF Publish, workerVars, SchemaInv,
     SkippedOnlyWhenWiped

\* A worker changes no store but for the consumer, and drops a message only when the
\* record that preceded it is gone.
LEMMA WorkerKeeps ==
    ASSUME SchemaInv, NEW w \in Workers,
           \/ \E q \in Queues : StartWorker(w, q)
           \/ Subscribe(w)
           \/ \E j \in Jobs : TakeMessage(w, j)
           \/ StopWorker(w)
    PROVE  SchemaInv'
<1>1. UNCHANGED <<existing, messages, records, wiped, adminVars, submits>>
  BY DEF StartWorker, Subscribe, TakeMessage, StopWorker, storeVars
<1>2. SchemaTypeOK' /\ SkippedOnlyWhenWiped'
  <2>1. CASE \E q \in Queues : StartWorker(w, q)
    BY <1>1, <2>1 DEF StartWorker, storeVars, adminVars, SchemaInv, SchemaTypeOK,
       SkippedOnlyWhenWiped
  <2>2. CASE Subscribe(w)
    BY <1>1, <2>2 DEF Subscribe, adminVars, SchemaInv, SchemaTypeOK, SkippedOnlyWhenWiped
  <2>3. ASSUME NEW j \in Jobs, TakeMessage(w, j) PROVE SchemaTypeOK' /\ SkippedOnlyWhenWiped'
    <3>1. serving[w] \in Queues
      BY <2>3, NoQueueAssumption DEF TakeMessage, SchemaInv, SchemaTypeOK
    <3>2. j \in records \union wiped
      BY <2>3, <3>1 DEF TakeMessage, SchemaInv, RecordsPrecedeMessages
    <3>3. taken' \subseteq Jobs /\ skipped' \subseteq Jobs /\ skipped' \subseteq wiped
      BY <2>3, <3>2 DEF TakeMessage, SchemaInv, SchemaTypeOK, SkippedOnlyWhenWiped
    <3> QED
      BY <1>1, <2>3, <3>3 DEF TakeMessage, storeVars, adminVars, SchemaInv, SchemaTypeOK,
         SkippedOnlyWhenWiped
  <2>4. CASE StopWorker(w)
    BY <1>1, <2>4 DEF StopWorker, storeVars, adminVars, SchemaInv, SchemaTypeOK,
       SkippedOnlyWhenWiped
  <2> QED
    BY <2>1, <2>2, <2>3, <2>4
<1>3. RecordsPrecedeMessages' /\ SubmittersHaveQueues' /\ AcceptedIsStored'
  BY <1>1 DEF SchemaInv, RecordsPrecedeMessages, SubmittersHaveQueues, AcceptedIsStored
<1> QED
  BY <1>1, <1>2, <1>3, AdminsUntouched DEF SchemaInv

\* Every reachable state has the types of the model, and what init, wipe and SubmitJob
\* have done so far is what the invariant says of it.
THEOREM SchemaInvariance == Spec => []SchemaInv
<1>1. Init => SchemaInv
  BY DEF Init, NoCommand, NoSubmit, SchemaInv, SchemaTypeOK, RecordsPrecedeMessages,
     SubmittersHaveQueues, AloneSoFar, LastIsOver, LastCommandHolds, AcceptedIsStored,
     SkippedOnlyWhenWiped
<1>2. SchemaInv /\ [Next]_vars => SchemaInv'
  <2> SUFFICES ASSUME SchemaInv, [Next]_vars PROVE SchemaInv'
    OBVIOUS
  <2>1. ASSUME NEW a \in Admins, NEW op \in {"init", "wipe"}, NEW q \in Queues, Begin(a, op, q)
        PROVE  SchemaInv'
    BY <2>1, BeginKeeps
  <2>2. ASSUME NEW a \in Admins, RequestDone(a) PROVE SchemaInv'
    BY <2>2, RequestDoneKeeps
  <2>3. ASSUME NEW a \in Admins, CommandFails(a) PROVE SchemaInv'
    BY <2>3, CommandFailsKeeps
  <2>4. ASSUME NEW j \in Jobs, NEW q \in Queues, StartSubmit(j, q) PROVE SchemaInv'
    BY <2>4, StartSubmitKeeps
  <2>5. ASSUME NEW j \in Jobs, CreateRecord(j) \/ Publish(j) PROVE SchemaInv'
    BY <2>5, CreateRecordKeeps, PublishKeeps
  <2>6. ASSUME NEW w \in Workers,
               \/ \E q \in Queues : StartWorker(w, q)
               \/ Subscribe(w)
               \/ \E j \in Jobs : TakeMessage(w, j)
               \/ StopWorker(w)
        PROVE  SchemaInv'
    BY <2>6, WorkerKeeps
  <2>7. CASE UNCHANGED vars
    BY <2>7 DEF vars, storeVars, adminVars, workerVars, SchemaInv, SchemaTypeOK,
       RecordsPrecedeMessages, SubmittersHaveQueues, AloneSoFar, LastIsOver, LastCommandHolds,
       AcceptedIsStored, SkippedOnlyWhenWiped
  <2> QED
    BY <2>1, <2>2, <2>3, <2>4, <2>5, <2>6, <2>7 DEF Next
<1> QED
  BY <1>1, <1>2, PTL DEF Spec

\* Whatever init and wipe do beside it, a job whose submit succeeded has its record and its
\* message unless a wipe took them (SubmitJob's order of requests).
THEOREM AcceptedStaysStored == Spec => []AcceptedIsStored
<1>1. SchemaInv => AcceptedIsStored
  BY DEF SchemaInv
<1> QED
  BY <1>1, SchemaInvariance, PTL

\* A worker drops a message for want of its record (handleMessage) only after a wipe.
THEOREM SkipsAreWiped == Spec => []SkippedOnlyWhenWiped
<1>1. SchemaInv => SkippedOnlyWhenWiped
  BY DEF SchemaInv
<1> QED
  BY <1>1, SchemaInvariance, PTL

\* After an init or wipe that succeeded with nobody beside it, all three stores of its
\* queue are there, or none.
THEOREM CommandsHold == Spec => []LastCommandHolds
<1>1. SchemaInv => LastCommandHolds
  BY DEF SchemaInv
<1> QED
  BY <1>1, SchemaInvariance, PTL
=============================================================================
