CONSTANTS
    t1 = t1
    c1 = c1
    c2 = c2
    x1 = x1
    x2 = x2
    Tenants <- MCTenants
    Content <- MCContent
    Interviews <- MCInterviews
    MaxSeq = 3
    MaxTampers = 3
SYMMETRY Symmetry
CONSTRAINT RecordedForFirst
SPECIFICATION TamperSpec
INVARIANTS
    TamperTypeOK
    GuardedChainComplete
    DigestsVouchForHistory
PROPERTIES
    RecordingNeverRepairs
CHECK_DEADLOCK FALSE
