----------------------------- MODULE QueuePage -----------------------------
(***************************************************************************)
(* Paging in the web server's queue page: serveQueue's arithmetic, and the *)
(* links of queue.html.tmpl that lead from one page to another.  The       *)
(* number of jobs that pass the filter changes between two requests, so a  *)
(* user may well be on a page that does not exist any more.                *)
(***************************************************************************)
EXTENDS Paging, SequencesExt

CONSTANTS
    Limits,     \* the jobs per page the page offers
    MaxTotal    \* bound: the jobs that pass the filter

ASSUME LimitsAssumption == Limits \subseteq Nat \ {0}
ASSUME MaxTotalAssumption == MaxTotal \in Nat

VARIABLES offset, limit, total      \* of the page on the screen

pageVars == <<offset, limit, total>>

Current == CurrentPage(offset, limit)
PageCount == TotalPages(total, limit)
Tokens == calculatePagination(Current, PageCount, 2)

(***************************************************************************)
(* What changes the page: the jobs, and the links.                         *)
(***************************************************************************)
PageInit ==
    /\ offset = 0
    /\ limit \in Limits
    /\ total \in 0 .. MaxTotal

\* Jobs are submitted, or leave the states the filter lets through; the next
\* request counts again.
JobsChange ==
    /\ total' \in 0 .. MaxTotal
    /\ UNCHANGED <<offset, limit>>

PreviousPage ==
    /\ Current > 1
    /\ offset' = offset - limit
    /\ UNCHANGED <<limit, total>>

NextPage ==
    /\ Current < PageCount
    /\ offset' = offset + limit
    /\ UNCHANGED <<limit, total>>

GotoPage(n) ==
    /\ n \notin {Gap, Current}
    /\ offset' = (n - 1) * limit
    /\ UNCHANGED <<limit, total>>

SelectLimitKeepingOffset(lim) ==
    /\ limit' = lim
    /\ UNCHANGED <<offset, total>>
SelectLimit(lim) ==
    /\ limit' = lim
    /\ offset' = 0
    /\ UNCHANGED total

SearchRedirect(found) ==
    /\ offset' = SearchOffset(found, limit)
    /\ UNCHANGED <<limit, total>>

PageNext ==
    \/ JobsChange
    \/ PreviousPage
    \/ NextPage
    \/ \E n \in ToSet(Tokens) : GotoPage(n)
    \/ \E lim \in Limits : SelectLimit(lim)
    \/ \E found \in 0 .. MaxTotal - 1 : SearchRedirect(found)

PageSpec == PageInit /\ [][PageNext]_pageVars

(***************************************************************************)
(* Properties.                                                             *)
(***************************************************************************)

\* Whatever is clicked, in whatever order and however the number of jobs
\* changes in between, the page begins where a page begins: no link leads to
\* a negative offset, and Previous and Next never lose step with the numbers.
BeginsAPage == offset >= 0 /\ offset % limit = 0

\* The numbers between the first and the last page are true: they rise, what
\* is next to each other follows, "..." stands for at least one page, and the
\* pages around the current one are there.  (Only while the current page
\* exists: past the end the code leaves a "..." behind that hides nothing.)
GapsAreReal ==
    Current <= PageCount =>
        /\ Tokens[1] = 1
        /\ Tokens[Len(Tokens)] = PageCount
        /\ \A k \in 1 .. Len(Tokens) - 1 :
            \/ Tokens[k] # Gap /\ Tokens[k + 1] = Tokens[k] + 1
            \/ Tokens[k] # Gap /\ Tokens[k + 1] = Gap
            \/ k > 1 /\ Tokens[k] = Gap /\ Tokens[k + 1] > Tokens[k - 1] + 1
        /\ \A n \in (Current - 2) .. (Current + 2) : n \in 1 .. PageCount => n \in ToSet(Tokens)

\* Going through the pages one by one shows each job that passes the filter
\* once, in order, and leaves none out; the page past the last one is empty.
PagesPartition ==
    LET all == [k \in 1 .. total |-> k]
        page(n) == Window(all, (n - 1) * limit, limit)
        shown == UNION {{page(n)[a] : a \in DOMAIN page(n)} : n \in 1 .. PageCount}
    IN  /\ shown = 1 .. total
        /\ \A n, m \in 1 .. PageCount : \A a \in DOMAIN page(n), b \in DOMAIN page(m) :
             n < m \/ (n = m /\ a < b) => page(n)[a] < page(m)[b]
        /\ \A n \in 1 .. PageCount : page(n) # << >>
        /\ page(PageCount + 1) = << >>
=============================================================================
