\* Three jobs, any read may fail; transient filters read two messages.
SPECIFICATION Spec
CONSTANTS
    j1 = j1
    j2 = j2
    j3 = j3
    Jobs = {j1, j2, j3}
    Requests <- AllRequests
    MaxScan = 2
    CreatedTimes <- SecondsApart
    Limit = 1
SYMMETRY Symmetric
INVARIANTS
    InStreamOrder
    UnfilteredIsExact
    FilteredIsExact
    FilteredIsFair
    SearchFindsNewest
    ReadersInv
    UnchangedSeenOnce
    QuietPageIsExact
    CountedPagesHold
