\* One job that may be killed anywhere, and the reports made of it and others.
SPECIFICATION FairSpec
CONSTANTS
    Benchmarks = {"b1", "b2", "b3"}
    Refs = {"main", "sha1"}
    SHAs = {"sha1", "sha2"}
    GoVersions = {"go1"}
    SkipCleanup = FALSE
    Timed = {"b1", "b2"}
    Sized = {"b1", "b3"}
    NewJobId = "new"
    Finished <- FinishedJobs
    Samples <- Measurements
    ShortSHA <- ShortSHAs
    Requests <- AllRequests
INVARIANTS
    ExecutionInv
    SucceededIsBacked
    ResultsHaveSHA
    CleanedUpOnce
    PanicsForCause
    ColumnsBelongToJobs
    LabelsTellJobsApart
    GreenIsFaster
    ReportsInv
PROPERTIES
    WorkerReturns
