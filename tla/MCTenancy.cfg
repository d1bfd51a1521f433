CONSTANTS
    a1 = a1
    a2 = a2
    k1 = k1
    k2 = k2
    i1 = i1
    i2 = i2
    q1 = q1
    q2 = q2
    Users = {a1, a2, k1}
    Interviews = {i1, i2}
    Questions = {q1, q2}
    Verdicts = {"correct", "requires_human_review"}
    MaxVersions = 2
SPECIFICATION TenancySpec
INVARIANTS
    TenancyTypeOK
    TenantsIsolated
    ChainBelongsToTenant
    NothingStranded
PROPERTIES
    ScopesOnlyGrow
SYMMETRY MCSymmetry
CHECK_DEADLOCK FALSE
