------------------------------ MODULE Listing ------------------------------
(***************************************************************************)
(* LoadJobs and LoadJobsFiltered: a walk along the sequences of the        *)
(* stream, oldest or newest first, that reads one message and its job's    *)
(* record at a time while jobs go on being submitted and changing status.  *)
(* The two differ in the filter, in how deep they go, and in the extra job *)
(* LoadJobsFiltered reads to see whether there are more.                   *)
(***************************************************************************)
EXTENDS PublishedJobs

CONSTANTS
    Requests,   \* the requests made: see RequestTypes
    MaxScan     \* messages read by a filter of transient statuses only (50)

RequestTypes ==
    [kind : {"LoadJobs", "LoadJobsFiltered"}, limit : Nat, offset : Nat,
     asc : BOOLEAN, statuses : SUBSET Statuses]

ASSUME RequestsAssumption == Requests \subseteq RequestTypes
ASSUME MaxScanAssumption == MaxScan \in Nat \ {0}

VARIABLES
    request,    \* the request being served, or NoRequest
    i,          \* the next sequence to read
    skipped,    \* jobs passed over for the offset
    scanned,    \* messages read
    jobs,       \* the jobs collected
    always,     \* jobs that passed the filter ever since (history)
    ever        \* jobs that passed the filter at some time since (history)

scanVars == <<request, i, skipped, scanned, jobs, always, ever>>

NoRequest == [kind |-> "none"]

\* An empty filter lets everything through.
Passes(r, s) == r.statuses = {} \/ s \in r.statuses
Passing(r) == {j \in Jobs : status[j] # "Absent" /\ Passes(r, status[j])}

Transient == {"Submitted", "Running"}
ScanLimit(r) == r.kind = "LoadJobsFiltered" /\ r.statuses # {} /\ r.statuses \subseteq Transient

\* The jobs to collect, 0 for all of them.
fetchLimitWithoutExtra(r) == r.limit
fetchLimit(r) ==
    IF r.kind = "LoadJobsFiltered" /\ r.limit > 0 THEN r.limit + 1 ELSE r.limit

ScanInit ==
    /\ request = NoRequest
    /\ i = 0 /\ skipped = 0 /\ scanned = 0
    /\ jobs = << >>
    /\ always = {} /\ ever = {}

Begin(r) ==
    /\ request = NoRequest
    /\ request' = r
    /\ lastSeq' = Len(stream)
    /\ i' = IF r.asc THEN 1 ELSE Len(stream)
    /\ UNCHANGED <<skipped, scanned, jobs, missed>>
    /\ always' = Passing(r) /\ ever' = Passing(r)

\* The conditions at the head of the loop, and the break at its end.
InRangeUnbounded == i >= 1 /\ i <= Len(stream)
InRange == i >= 1 /\ i <= lastSeq
Scanning ==
    /\ request # NoRequest
    /\ InRange
    /\ ScanLimit(request) => scanned < MaxScan
    /\ fetchLimit(request) > 0 => Len(jobs) < fetchLimit(request)

Advance == i' = IF request.asc THEN i + 1 ELSE i - 1

\* The message or the record cannot be read: the job is left out.
ReadFails ==
    /\ missed' = TRUE
    /\ UNCHANGED <<skipped, jobs>>

ReadSkips ==
    /\ \/ ~Passes(request, status[stream[i]]) /\ UNCHANGED skipped
       \/ /\ Passes(request, status[stream[i]])
          /\ skipped < request.offset
          /\ skipped' = skipped + 1
    /\ UNCHANGED <<jobs, missed>>

ReadCollectsInFront ==
    /\ Passes(request, status[stream[i]])
    /\ skipped >= request.offset
    /\ jobs' = <<stream[i]>> \o jobs
    /\ UNCHANGED <<skipped, missed>>
ReadCollectsUnfiltered ==
    /\ skipped >= request.offset
    /\ jobs' = Append(jobs, stream[i])
    /\ UNCHANGED <<skipped, missed>>
ReadCollects ==
    /\ Passes(request, status[stream[i]])
    /\ skipped >= request.offset
    /\ jobs' = Append(jobs, stream[i])
    /\ UNCHANGED <<skipped, missed>>

ReadNext ==
    /\ Scanning
    /\ ReadFails \/ ReadSkips \/ ReadCollects
    /\ Advance
    /\ scanned' = scanned + 1
    /\ UNCHANGED <<request, lastSeq, always, ever>>

Finished == request # NoRequest /\ ~Scanning

\* What the request returns: the page, and for LoadJobsFiltered the total.
hasMore == request.kind = "LoadJobsFiltered" /\ request.limit > 0 /\ Len(jobs) > request.limit
Page == IF hasMore THEN SubSeq(jobs, 1, request.limit) ELSE jobs
totalFiltered == request.offset + Len(Page) + (IF hasMore THEN 1 ELSE 0)

Return ==
    /\ Finished
    /\ request' = NoRequest
    /\ i' = 0 /\ skipped' = 0 /\ scanned' = 0
    /\ jobs' = << >>
    /\ always' = {} /\ ever' = {}
    /\ RequestEnds

ListingStep == (\E r \in Requests : Begin(r)) \/ ReadNext \/ Return

\* What a change of the jobs means to the request being served.
Observe ==
    /\ UNCHANGED <<request, i, skipped, scanned, jobs>>
    /\ IF request = NoRequest THEN UNCHANGED <<always, ever>>
       ELSE /\ always' = always \intersect Passing(request)'
            /\ ever' = ever \union Passing(request)'

(***************************************************************************)
(* Properties.                                                             *)
(***************************************************************************)

\* The messages a request goes through, in its order.
Walk ==
    LET atStart == SubSeq(stream, 1, lastSeq)
        ordered == IF request.asc THEN atStart ELSE Reverse(atStart)
    IN  IF ScanLimit(request) /\ Len(ordered) > MaxScan THEN SubSeq(ordered, 1, MaxScan) ELSE ordered

\* Jobs come in the order of the stream and none comes twice, whatever happens
\* during the walk and whichever reads fail.
InStreamOrder ==
    LET place(j) == CHOOSE s \in DOMAIN stream : stream[s] = j
    IN  \A a, b \in DOMAIN jobs : a < b =>
            IF request.asc THEN place(jobs[a]) < place(jobs[b])
            ELSE place(jobs[a]) > place(jobs[b])

\* An unfiltered page is exact even while jobs are submitted and run: it is
\* the window of the stream as it was when the request came in.
UnfilteredIsExact ==
    Finished /\ request.statuses = {} /\ ~missed =>
        Page = Window(Walk, request.offset, request.limit)

\* A filtered page is the window of the jobs that pass the filter if none of
\* them came or went during the walk: numbered in the order of the walk they
\* stand on it from the offset on, as many as there are or as the limit allows,
\* and its total exceeds the page exactly when there are more.
FilteredIsExact ==
    Finished /\ ~missed /\ always = ever =>
        LET passing == {k \in DOMAIN Walk : Walk[k] \in always}
            number(k) == Cardinality({l \in passing : l <= k})
            all == Cardinality(passing)
            rest == IF all > request.offset THEN all - request.offset ELSE 0
        IN  /\ Len(Page) = IF request.limit > 0 /\ rest > request.limit THEN request.limit ELSE rest
            /\ \A k \in passing :
                number(k) - request.offset \in DOMAIN Page => Page[number(k) - request.offset] = Walk[k]
            /\ request.kind = "LoadJobsFiltered" =>
                (totalFiltered > request.offset + Len(Page) <=> rest > Len(Page))

\* While statuses change: every job on the page passed the filter at some time
\* during the walk, and without offset and limit no job of the walk is missing
\* that passed it all along.
FilteredIsFair ==
    Finished =>
        /\ ToSet(Page) \subseteq ever
        /\ ~missed /\ request.offset = 0 /\ request.limit = 0 =>
            ToSet(Walk) \intersect always \subseteq ToSet(Page)

(***************************************************************************)
(* The inductive invariant behind these properties.                        *)
(***************************************************************************)

\* The sequence of the k-th message of the walk.
At(k) == IF request.asc THEN k ELSE lastSeq - k + 1

\* The places among the first k of the walk of jobs that passed all along.
PassedUpTo(k) == {l \in 1 .. k : stream[At(l)] \in always}

\* How far the walk is.
WalkInv ==
    /\ request \in Requests
    /\ scanned \in 0 .. lastSeq
    /\ i = At(scanned + 1)
    /\ ScanLimit(request) => scanned <= MaxScan
    /\ skipped \in 0 .. request.offset
    /\ fetchLimit(request) > 0 => Len(jobs) <= fetchLimit(request)

\* The jobs collected come from the walk, in its order, behind the offset.
CollectedInv ==
    /\ jobs \in Seq(ever)
    /\ jobs # << >> => skipped = request.offset
    /\ \A a \in DOMAIN jobs : \E k \in 1 .. scanned : jobs[a] = stream[At(k)]
    /\ \A a, b \in DOMAIN jobs, k, l \in 1 .. scanned :
         a < b /\ jobs[a] = stream[At(k)] /\ jobs[b] = stream[At(l)] => k < l

\* What passes now is between what always did and what ever did.
HistoryInv == always \subseteq Passing(request) /\ Passing(request) \subseteq ever /\ ever \subseteq Jobs

\* Nothing that passed is left out but for the offset and the limit; if what
\* passes never changed, the jobs are numbered through.
CompleteInv ==
    ~missed =>
        /\ request.statuses = {} =>
            /\ skipped + Len(jobs) = scanned
            /\ \A a \in DOMAIN jobs : jobs[a] = stream[At(request.offset + a)]
        /\ request.offset = 0 /\ request.limit = 0 =>
            \A k \in PassedUpTo(scanned) : \E a \in DOMAIN jobs : jobs[a] = stream[At(k)]
        /\ always = ever =>
            /\ skipped + Len(jobs) = Cardinality(PassedUpTo(scanned))
            /\ \A k \in PassedUpTo(scanned) :
                 LET number == Cardinality(PassedUpTo(k)) IN
                 number > request.offset => jobs[number - request.offset] = stream[At(k)]

ScanInv ==
    IF request = NoRequest THEN jobs = << >> /\ skipped = 0 /\ scanned = 0
    ELSE WalkInv /\ CollectedInv /\ HistoryInv /\ CompleteInv
=============================================================================
