------------------------------- MODULE Search -------------------------------
(***************************************************************************)
(* The search of the queue page: FindJobOffset goes through the stream     *)
(* twice, oldest message first to number the jobs and newest first to find *)
(* a match, and serveQueue redirects to the page that holds the number it  *)
(* returns.  Jobs are submitted and change in the meantime, and any read   *)
(* may fail.                                                               *)
(***************************************************************************)
EXTENDS PublishedJobs

CONSTANT Limit      \* jobs per page
ASSUME LimitAssumption == Limit \in Nat \ {0}

VARIABLES
    pass,       \* "idle", "index", "match" or "done"
    query,      \* the jobs the query matches
    seq,        \* the sequence to read next
    seqToOffset,\* sequence -> number, of the messages the first pass could read
    found       \* the result: a number, or -1

searchVars == <<pass, query, seq, seqToOffset, found>>

Nothing == [s \in {} |-> 0]

SearchInit ==
    /\ pass = "idle"
    /\ query = {} /\ seq = 0
    /\ seqToOffset = Nothing
    /\ found = -1

\* An empty stream is answered at once, and so is a failure to look at it.
BeginSearch(q) ==
    /\ pass = "idle"
    /\ query' = q
    /\ lastSeq' = Len(stream)
    /\ seq' = 1
    /\ \/ /\ pass' = IF stream = << >> THEN "done" ELSE "index"
          /\ UNCHANGED missed
       \/ pass' = "done" /\ missed' = TRUE
    /\ UNCHANGED <<seqToOffset, found>>

\* A message or record that cannot be read gets no number.
IndexNext ==
    /\ pass = "index"
    /\ seq <= lastSeq
    /\ seq' = seq + 1
    /\ \/ /\ seqToOffset' = [s \in DOMAIN seqToOffset \union {seq} |->
                IF s = seq THEN Cardinality(DOMAIN seqToOffset) ELSE seqToOffset[s]]
          /\ UNCHANGED missed
       \/ missed' = TRUE /\ UNCHANGED seqToOffset
    /\ UNCHANGED <<pass, query, lastSeq, found>>

EndIndex ==
    /\ pass = "index"
    /\ seq > lastSeq
    /\ pass' = "match"
    /\ seq' = lastSeq
    /\ UNCHANGED <<query, lastSeq, seqToOffset, found, missed>>

MatchInRangeStoppingEarly == seq > 1
MatchInRange == seq >= 1

\* No match among the jobs the second pass could read.
EndMatch ==
    /\ pass = "match"
    /\ ~MatchInRange
    /\ pass' = "done"
    /\ UNCHANGED <<query, seq, lastSeq, seqToOffset, found, missed>>

Matches(s) == s \in DOMAIN seqToOffset /\ stream[s] \in query

MatchNext ==
    /\ pass = "match"
    /\ MatchInRange
    /\ \/ /\ Matches(seq)
          /\ found' = seqToOffset[seq]
          /\ pass' = "done"
          /\ UNCHANGED <<seq, missed>>
       \/ /\ ~Matches(seq)
          /\ seq' = seq - 1
          /\ UNCHANGED <<found, pass, missed>>
       \/ /\ seq \in DOMAIN seqToOffset
          /\ seq' = seq - 1
          /\ missed' = TRUE
          /\ UNCHANGED <<found, pass>>
    /\ UNCHANGED <<query, lastSeq, seqToOffset>>

EndSearch ==
    /\ pass = "done"
    /\ pass' = "idle"
    /\ query' = {} /\ seq' = 0
    /\ seqToOffset' = Nothing
    /\ found' = -1
    /\ RequestEnds

SearchStep ==
    \/ \E q \in SUBSET Jobs : BeginSearch(q)
    \/ IndexNext
    \/ EndIndex
    \/ MatchNext
    \/ EndMatch
    \/ EndSearch

(***************************************************************************)
(* Properties.                                                             *)
(***************************************************************************)

\* If every read succeeds the search finds the newest job that matches, of
\* those in the stream when it began, and says how many are older; -1 only if
\* none matches.  What happens meanwhile makes no difference.
SearchFindsNewest ==
    pass = "done" /\ ~missed =>
        LET matching == {s \in 1 .. lastSeq : stream[s] \in query}
        IN  found = IF matching = {} THEN -1 ELSE Max(matching) - 1

\* Why: the first pass numbers what it has gone through, and what the second
\* pass has gone through does not match.
NumberedUpTo(n) ==
    /\ DOMAIN seqToOffset \subseteq 1 .. n
    /\ ~missed => DOMAIN seqToOffset = 1 .. n /\ \A s \in 1 .. n : seqToOffset[s] = s - 1

SearchInv ==
    /\ pass \in {"idle", "index", "match"} => found = -1
    /\ pass = "idle" => seqToOffset = Nothing
    /\ pass = "index" => seq \in 1 .. lastSeq + 1 /\ NumberedUpTo(seq - 1)
    /\ pass = "match" =>
        /\ seq \in 0 .. lastSeq /\ NumberedUpTo(lastSeq)
        /\ ~missed => \A s \in seq + 1 .. lastSeq : stream[s] \notin query
    /\ SearchFindsNewest

\* The page serveQueue redirects to, with all statuses shown (LoadJobsByKV
\* sorts the newest first).
RedirectPage == Window(Reverse(created), SearchOffset(found, Limit), Limit)

\* What the page promises ("Auto-scroll to first match"): the page the search
\* leads to shows a match, at least when nothing failed or came in between.
SearchLandsOnMatch ==
    pass = "done" /\ found >= 0 /\ ~missed /\ stream = created /\ Len(stream) = lastSeq =>
        ToSet(RedirectPage) \intersect query # {}
=============================================================================
