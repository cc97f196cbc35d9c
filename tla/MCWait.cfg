\* wait beside two workers, one of which may be killed and the other one refuses
\* the job, a canceller and an operator who runs fail-stale again and again.
SPECIFICATION WSpec
CONSTANTS
    j1 = j1
    j2 = j2
    w1 = w1
    w2 = w2
    c1 = c1
    Jobs = {j1}
    Workers = {w1, w2}
    Cancellers = {c1}
    NoWorker = NoWorker
    NoJob = NoJob
    Faults = {}
    CrashProne = {w1}
    Allowed <- AllowFiltered
    MaxAckPending = 1
INVARIANTS
    WaitedJobsAreOver
PROPERTIES
    WaitEndsForAccepted
    AcceptedJobsComplete
