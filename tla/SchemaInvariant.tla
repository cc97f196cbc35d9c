--------------------------- MODULE SchemaInvariant ---------------------------
(***************************************************************************)
(* The inductive invariant behind the safety properties of Schema.         *)
(***************************************************************************)
EXTENDS Schema

Commands == [op : {"init", "wipe"}, queue : Queues, next : 1 .. 3]

SchemaTypeOK ==
    /\ messages \in [Queues -> SUBSET Jobs]
    /\ records \subseteq Jobs
    /\ wiped \subseteq Jobs /\ taken \subseteq Jobs /\ skipped \subseteq Jobs
    /\ commands \in [Admins -> Commands \union {NoCommand}]
    /\ submits \in [Jobs -> [queue : Queues \union {NoQueue},
                             at : {"new", "create", "publish", "accepted", "failed"}]]
    /\ serving \in [Workers -> Queues \union {NoQueue}]
    /\ subscribed \subseteq Workers
    /\ consumers \subseteq Queues
    /\ alone \in BOOLEAN
    /\ last \in [op : {"init", "wipe"}, queue : Queues, next : {3}] \union {NoCommand}

\* Between its two requests, after both, and wherever its message went: a job has
\* its record unless a wipe took it.
RecordsPrecedeMessages ==
    /\ \A j \in Jobs : submits[j].at \in {"publish", "accepted"} => j \in records \union wiped
    /\ \A q \in Queues : messages[q] \subseteq records \union wiped

SubmittersHaveQueues ==
    \A j \in Jobs : submits[j].at \in {"create", "publish", "accepted"} =>
        submits[j].queue \in Queues

\* What a command that is alone has done so far is still done.
AloneSoFar ==
    alone => \A a \in Admins : commands[a] # NoCommand =>
        /\ \A b \in Admins \ {a} : commands[b] = NoCommand
        /\ \A n \in 1 .. commands[a].next - 1 :
              (StoresOf(commands[a].queue)[n] \in existing) <=> (commands[a].op = "init")

\* The last command is remembered only while nobody runs another.
LastIsOver == last # NoCommand => \A a \in Admins : commands[a] = NoCommand

SchemaInv ==
    /\ SchemaTypeOK
    /\ RecordsPrecedeMessages
    /\ SubmittersHaveQueues
    /\ AloneSoFar
    /\ LastIsOver
    /\ LastCommandHolds
    /\ AcceptedIsStored
    /\ SkippedOnlyWhenWiped
=============================================================================
