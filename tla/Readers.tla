------------------------------ MODULE Readers ------------------------------
(***************************************************************************)
(* The readers of the queue: the listing requests, the search and the     *)
(* watcher, while jobs are submitted and change.  Reading changes nothing, *)
(* so requests do not meet and one at a time is enough.                    *)
(***************************************************************************)
EXTENDS Listing, Search, Watch

vars == <<jobsVars, requestVars, scanVars, searchVars, watchVars>>

Init == JobsInit /\ ScanInit /\ SearchInit /\ WatchInit

\* A page is made of the entries alone: when all have come, it makes no
\* difference whether jobs change before or after the answer.
Next ==
    \/ /\ pass = "idle" /\ ~watching
       /\ ListingStep
       /\ UNCHANGED <<jobsVars, searchVars, watchVars>>
    \/ /\ request = NoRequest /\ ~watching
       /\ SearchStep
       /\ UNCHANGED <<jobsVars, scanVars, watchVars>>
    \/ /\ request = NoRequest /\ pass = "idle"
       /\ WatchStep
       /\ UNCHANGED <<jobsVars, scanVars, searchVars>>
    \/ /\ ~WatchFinished
       /\ JobsNext /\ Observe /\ ObserveWatch
       /\ UNCHANGED searchVars

Spec == Init /\ [][Next]_vars

\* The inductive invariant behind the properties of listings, searches and
\* the watcher.
ReadersInv == StreamInv /\ ScanInv /\ SearchInv /\ WatchInv /\ CreatedInv /\ RecordsInv
=============================================================================
