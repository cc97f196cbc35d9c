------------------------------ MODULE MCReaders ------------------------------
(***************************************************************************)
(* Requests for TLC: limits and offsets below, at and above the number of  *)
(* jobs, both directions, and filters of each sort.                        *)
(***************************************************************************)
EXTENDS Readers

CONSTANTS j1, j2, j3

Symmetric == Permutations(Jobs)

Request(kind, limit, offset, asc, statuses) ==
    [kind |-> kind, limit |-> limit, offset |-> offset, asc |-> asc, statuses |-> statuses]

\* One job is of the second before or behind that of the others, whichever was
\* created first.
SecondsApart ==
    {[k \in Jobs |-> IF k = j THEN second ELSE 2] : j \in Jobs, second \in {1, 3}}

\* All jobs, and a page that is not the first.
Bounds(limit) == {<<0, 0>>, <<limit, 1>>}

Unfiltered ==
    {Request("LoadJobs", b[1], b[2], asc, {}) : b \in Bounds(2), asc \in BOOLEAN}

Filtered ==
    {Request("LoadJobsFiltered", b[1], b[2], asc, statuses) :
        b \in Bounds(1), asc \in BOOLEAN,
        statuses \in {{"Submitted", "Running"}, {"Failed", "Cancelled"}}}
    \union {Request("LoadJobsFiltered", 1, 1, asc, {}) : asc \in BOOLEAN}

AllRequests == Unfiltered \union Filtered

NoRequests == {}
=============================================================================
