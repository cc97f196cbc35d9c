----------------------------- MODULE CreatedJobs -----------------------------
(***************************************************************************)
(* What the readers of the queue see of the stores and processes: the      *)
(* statuses, the stream, and the order in which the records were created,  *)
(* kept here as a history.  So seen, GoBenchAway implements PublishedJobs, *)
(* which the listings, the search and the watcher are composed with.       *)
(***************************************************************************)
EXTENDS GoBenchAwayInvariant

VARIABLE created    \* the jobs with a record, in the order it was created in (history)

observedVars == <<vars, created>>

ObservedInit == Init /\ created = << >>

\* The request of SubmitJob that creates the record, or one whose reply was lost.
IsCreated(j) == records[j].status = Absent /\ records'[j].status # Absent

ObservedNext ==
    /\ Next
    /\ IF \E j \in Jobs : IsCreated(j)
       THEN \E j \in Jobs : IsCreated(j) /\ created' = Append(created, j)
       ELSE UNCHANGED created

ObservedSpec == ObservedInit /\ [][ObservedNext]_observedVars

ObservedFairSpec == ObservedSpec /\ Fairness

\* No request is being served.
Published == INSTANCE PublishedJobs WITH
    status <- [j \in Jobs |-> records[j].status],
    lastSeq <- 0,
    missed <- FALSE

\* What the models of the readers assume of the rest: statuses change by the
\* steps of the lifecycle, one job at a time, a message is published after the
\* job's record was created and once, and the stream only grows.
ImplementsPublishedJobs ==
    Published!JobsInit /\ [][Published!JobsNext]_(Published!jobsVars)
=============================================================================
