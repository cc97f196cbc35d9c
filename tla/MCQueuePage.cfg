\* Pages of 1 to 3 jobs, up to 20 jobs: up to 20 pages.
SPECIFICATION PageSpec
CONSTANTS
    Limits = {1, 2, 3}
    MaxTotal = 20
INVARIANTS
    BeginsAPage
    GapsAreReal
    PagesPartition
