\* Two queues, two administrators, a worker and a job.
SPECIFICATION Spec
CONSTANTS
    j1 = j1
    a1 = a1
    a2 = a2
    w1 = w1
    q1 = q1
    q2 = q2
    NoQueue = NoQueue
    Queues = {q1, q2}
    Jobs = {j1}
    Admins = {a1, a2}
    Workers = {w1}
SYMMETRY Symmetric
INVARIANTS
    LastCommandHolds
    AcceptedIsStored
    SkippedOnlyWhenWiped
    SchemaInv
