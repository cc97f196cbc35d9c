\* One job and no reports: when it is over nothing is left to do.
SPECIFICATION FairSpec
CONSTANTS
    Benchmarks = {"b1"}
    Refs = {"main"}
    SHAs = {"sha1", "sha2"}
    GoVersions = {"go1"}
    SkipCleanup = FALSE
    Timed = {"b1"}
    Sized = {}
    NewJobId = "new"
    Finished <- FinishedJobs
    Samples <- Measurements
    ShortSHA <- ShortSHAs
    Requests <- NoReports
INVARIANTS
    LogIsComplete
CHECK_DEADLOCK FALSE
