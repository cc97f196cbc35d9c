\* A submit command killed between its two requests, and fail-stale.
SPECIFICATION OperatedSpec
CONSTANTS
    j1 = j1
    j2 = j2
    w1 = w1
    w2 = w2
    w3 = w3
    c1 = c1
    c2 = c2
    Jobs = {j1}
    Workers = {w1}
    Cancellers = {}
    NoWorker = NoWorker
    NoJob = NoJob
    Faults = {}
    CrashProne = {}
    Allowed <- AllowAll
    MaxAckPending = 1
PROPERTIES
    StaleSubmittedIsFailed
