\* One job; every request may fail either way and every worker be killed.
SPECIFICATION Spec
CONSTANTS
    j1 = j1
    j2 = j2
    w1 = w1
    w2 = w2
    w3 = w3
    c1 = c1
    c2 = c2
    Jobs = {j1}
    Workers = {w1, w2}
    Cancellers = {c1}
    NoWorker = NoWorker
    NoJob = NoJob
    Faults = {"lost_request", "lost_reply"}
    CrashProne = {w1, w2}
    Allowed <- AllowAll
    MaxAckPending = 1
INVARIANTS
    AtMostOnce
    ArtifactsBacked
    NoSilentLoss
    CancelledNeverRuns
    RunningIsAttended
    DeliveryInv
PROPERTIES
    FinalForever
    ImplementsLifecycle
    FailsForCause
