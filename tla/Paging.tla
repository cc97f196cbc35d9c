------------------------------- MODULE Paging -------------------------------
(***************************************************************************)
(* The arithmetic of the web server's queue page (serveQueue and           *)
(* LoadJobsByKV): which jobs a page shows and which pages it links to.     *)
(***************************************************************************)
EXTENDS Integers, Sequences

TotalPagesRoundedDown(n, lim) == n \div lim
TotalPages(n, lim) == (n + lim - 1) \div lim
CurrentPage(off, lim) == (off \div lim) + 1

\* matched[offset:], cut off at limit; a limit of 0 cuts nothing off.
Window(seq, off, lim) ==
    IF off >= Len(seq) THEN << >>
    ELSE LET rest == SubSeq(seq, off + 1, Len(seq)) IN
         IF lim > 0 /\ Len(rest) > lim THEN SubSeq(rest, 1, lim) ELSE rest

\* The page a search is redirected to.
SearchOffset(found, lim) == (found \div lim) * lim

\* "..." is written 0.  window pages are shown on either side of the current.
Gap == 0
FirstShown(current, window) == IF current - window > 2 THEN current - window ELSE 2
LastShownUpToEnd(current, last, window) ==
    IF current + window < last THEN current + window ELSE last
LastShown(current, last, window) ==
    IF current + window < last - 1 THEN current + window ELSE last - 1

calculatePagination(current, last, window) ==
    LET start == FirstShown(current, window)
        end == LastShown(current, last, window)
    IN  <<1>>
        \o (IF current - window > 2 THEN <<Gap>> ELSE << >>)
        \o SubSeq([n \in 1 .. last |-> n], start, end)
        \o (IF end < last - 1 THEN <<Gap>> ELSE << >>)
        \o (IF last > 1 THEN <<last>> ELSE << >>)
=============================================================================
