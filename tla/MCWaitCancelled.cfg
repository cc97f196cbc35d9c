\* wait for a job that is cancelled.
SPECIFICATION WSpec
CONSTANTS
    j1 = j1
    j2 = j2
    w1 = w1
    w2 = w2
    c1 = c1
    Jobs = {j1}
    Workers = {w1}
    Cancellers = {c1}
    NoWorker = NoWorker
    NoJob = NoJob
    Faults = {}
    CrashProne = {}
    Allowed <- AllowAll
    MaxAckPending = 1
PROPERTIES
    WaitEndsWhenCompleted
