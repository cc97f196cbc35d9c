\* Three jobs on pages of two.
SPECIFICATION Spec
CONSTANTS
    j1 = j1
    j2 = j2
    j3 = j3
    Jobs = {j1, j2, j3}
    Requests <- NoRequests
    MaxScan = 2
    CreatedTimes <- SecondsApart
    Limit = 2
SYMMETRY Symmetric
INVARIANTS
    SearchLandsOnMatch
