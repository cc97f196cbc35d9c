------------------------------- MODULE Watch -------------------------------
(***************************************************************************)
(* LoadJobsByKV and CountJobsByStatus, which serve the queue page: a       *)
(* watcher on the jobs repository hands over every record once, in the     *)
(* order of their last writes, and then says (nil) that this was all.      *)
(*                                                                         *)
(* The bucket keeps one version of a record, so one that is written during *)
(* the walk moves to its end, in the new version; and the watcher counts   *)
(* messages, as many as there were jobs when it delivered the first one.   *)
(* So a job may come twice and push another one out.                       *)
(***************************************************************************)
EXTENDS PublishedJobs

\* The values of Created that jobs may have: the second in which each was
\* submitted, by the clock of its submitter.  It is in the record from the
\* Create request on, never changes, and nothing but the sorting of a page looks
\* at it.  So it need not agree with the order in which the records were created,
\* and jobs may share it.
CONSTANT CreatedTimes
ASSUME CreatedTimesAssumption == CreatedTimes \subseteq [Jobs -> Nat]

VARIABLES
    watching,   \* whether such a request is being served
    undelivered,\* the jobs whose records are to come, in their order
    initPending,\* the messages that followed the first one, as it came
    entries,    \* what came: job and status, counted and perhaps matched
    changed     \* jobs whose record was written since (history)

watchVars == <<watching, undelivered, initPending, entries, changed>>

WatchInit ==
    /\ watching = FALSE
    /\ undelivered = << >>
    /\ initPending = 0
    /\ entries = << >>
    /\ changed = {}

Place(j) == CHOOSE k \in DOMAIN created : created[k] = j

\* The orders the last writes of the records may have been made in: nothing
\* was written to a Submitted one since it was created.
WriteOrders ==
    {order \in SetToSeqs(ToSet(created)) :
        \A a, b \in DOMAIN order :
            status[order[a]] = "Submitted" /\ Place(order[a]) < Place(order[b]) => a < b}

\* Without records the end is announced at once.
BeginWatch ==
    /\ ~watching
    /\ watching' = TRUE
    /\ undelivered' \in WriteOrders
    /\ initPending' = IF created = << >> THEN -1 ELSE 0
    /\ UNCHANGED <<entries, changed>>

\* The nil entry.
EndOfRecordsTooEarly ==
    Len(entries) >= initPending /\ (entries # << >> \/ initPending < 0)
EndOfRecords == Len(entries) > initPending

ReceiveEntry ==
    /\ watching
    /\ ~EndOfRecords
    /\ entries' = Append(entries, [job |-> Head(undelivered), status |-> status[Head(undelivered)]])
    /\ undelivered' = Tail(undelivered)
    /\ initPending' = IF entries = << >> THEN Len(undelivered) - 1 ELSE initPending
    /\ UNCHANGED <<watching, changed>>

WatchFinished == watching /\ EndOfRecords

EndWatch ==
    /\ WatchFinished
    /\ watching' = FALSE
    /\ undelivered' = << >>
    /\ initPending' = 0
    /\ entries' = << >>
    /\ changed' = {}

WatchStep == (BeginWatch \/ ReceiveEntry \/ EndWatch) /\ UNCHANGED requestVars

\* A record that is written goes to the end; jobs are written one at a time.
MovedToEnd(order, j) ==
    IF j \in ToSet(order)
    THEN Append(RemoveAt(order, CHOOSE k \in DOMAIN order : order[k] = j), j)
    ELSE Append(order, j)

ObserveWatch ==
    LET written == {j \in Jobs : status'[j] # status[j]} IN
    /\ UNCHANGED <<watching, initPending, entries>>
    /\ IF watching /\ written # {}
       THEN /\ \E j \in written : undelivered' = MovedToEnd(undelivered, j)
            /\ changed' = changed \union written
       ELSE UNCHANGED <<undelivered, changed>>

(***************************************************************************)
(* What the request makes of the entries.                                  *)
(***************************************************************************)
PassesFilter(statuses, s) == statuses = {} \/ s \in statuses

\* The places of the entries that pass.
Matched(statuses) == {k \in DOMAIN entries : PassesFilter(statuses, entries[k].status)}

\* They were appended as they came; the order does not survive the sorting.
Arrangements(statuses) ==
    {[k \in DOMAIN order |-> entries[order[k]]] : order \in SetToSeqs(Matched(statuses))}

\* sort.Slice by Created is not stable: jobs of one second, and the versions of
\* one job, may come in any order.
OldestFirst(Created, arrangements) ==
    {rows \in arrangements :
        \A a, b \in DOMAIN rows : a < b => Created[rows[a].job] <= Created[rows[b].job]}
NewestFirst(Created, arrangements) ==
    {rows \in arrangements :
        \A a, b \in DOMAIN rows : a < b => Created[rows[a].job] >= Created[rows[b].job]}

\* The pages it may return.
Pages(sorted, limit, offset) == {Window(rows, offset, limit) : rows \in sorted}
LoadJobsByKV(Created, statuses, limit, offset) ==
    Pages(NewestFirst(Created, Arrangements(statuses)), limit, offset)

Count(s) == Cardinality({k \in DOMAIN entries : entries[k].status = s})

\* serveQueue: a filter without a status it knows is none.
CountedOfFilter(statuses) == MapThenSumSet(Count, statuses)
Counted(statuses) == MapThenSumSet(Count, IF statuses = {} THEN Statuses ELSE statuses)

(***************************************************************************)
(* Properties.                                                             *)
(***************************************************************************)
Filters == {{}, {"Submitted", "Running"}, {"Failed", "Cancelled"}}

\* The records that were not written during the walk come once each and as
\* they are, whatever is written meanwhile: no running job that just runs is
\* left out of the page, of the counts, or of fail-stale's scan.
SeenOnce(j) ==
    \E k \in DOMAIN entries :
        /\ entries[k] = [job |-> j, status |-> status[j]]
        /\ \A l \in DOMAIN entries : entries[l].job = j => l = k

UnchangedSeenOnce ==
    WatchFinished => \A j \in ToSet(created) \ changed : SeenOnce(j)

\* No job is behind one that was submitted in an earlier second.
InOrder(Created, rows) ==
    \A a, b \in DOMAIN rows : a < b => Created[rows[a].job] >= Created[rows[b].job]

\* A page is a window of the jobs that pass the filter, as they are, each once and
\* sorted; jobs of one second have no order.
PageIsExact(Created, statuses, limit, offset) ==
    LET passing == {j \in ToSet(created) : PassesFilter(statuses, status[j])}
        row(j) == [job |-> j, status |-> status[j]]
        lists == {[k \in DOMAIN listed |-> row(listed[k])] : listed \in SetToSeqs(passing)}
    IN  \A page \in LoadJobsByKV(Created, statuses, limit, offset) :
            \E rows \in lists : InOrder(Created, rows) /\ page = Window(rows, offset, limit)

\* If nothing was written, every page LoadJobsByKV may return is one of those,
\* whatever second each job was submitted in.
QuietPageIsExact ==
    WatchFinished /\ changed = {} =>
        \A Created \in CreatedTimes, statuses \in Filters, limit \in 1 .. 2, offset \in 0 .. 2 :
            PageIsExact(Created, statuses, limit, offset)

\* The counts and the rows of one request agree however the walk was disturbed:
\* none of the pages counted is empty, and there is nothing behind the last.
PagesHold(times, statuses, limit) ==
    LET count == TotalPages(Counted(statuses), limit)
        arrangements == Arrangements(statuses)
    IN
    \A Created \in times :
        LET sorted == NewestFirst(Created, arrangements)
            pages(n) == Pages(sorted, limit, (n - 1) * limit)
        IN  /\ \A n \in 1 .. count : << >> \notin pages(n)
            /\ pages(count + 1) = {<< >>}

CountedPagesHold ==
    WatchFinished => \A statuses \in Filters : PagesHold(CreatedTimes, statuses, 2)

(***************************************************************************)
(* The inductive invariant behind them.                                    *)
(***************************************************************************)

\* A job that comes early enough: those in front of it were written before it,
\* and only ever move behind it.
ComesInTime(j) ==
    /\ \A k \in DOMAIN entries : entries[k].job # j
    /\ \E p \in DOMAIN undelivered :
        undelivered[p] = j /\ (entries # << >> => Len(entries) + p <= initPending + 1)

\* The entries to come, as many at least as the watcher waits for.
DeliveryInv ==
    /\ undelivered \in Seq(Jobs) /\ IsInjective(undelivered)
    /\ entries \in Seq([job : Jobs, status : Statuses \union {"Absent"}])
    /\ IF entries = << >>
       THEN \/ initPending = 0 /\ undelivered # << >>
            \/ initPending = -1 /\ ToSet(created) \subseteq changed
       ELSE initPending \in Nat /\ Len(entries) + Len(undelivered) > initPending

WatchInv ==
    IF watching
    THEN /\ DeliveryInv
         /\ \A j \in ToSet(created) \ changed :
              \/ SeenOnce(j) /\ j \notin ToSet(undelivered)
              \/ ComesInTime(j)
    ELSE entries = << >> /\ changed = {}

\* What came, and is to come, are records that were created.
RecordsInv ==
    /\ ToSet(undelivered) \subseteq ToSet(created)
    /\ \A k \in DOMAIN entries :
          entries[k].job \in ToSet(created) /\ entries[k].status \in Statuses
=============================================================================
