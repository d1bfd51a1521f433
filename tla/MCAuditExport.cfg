CONSTANTS
    t1 = t1
    t2 = t2
    c1 = c1
    c2 = c2
    x1 = x1
    x2 = x2
    FullLog = FullLog
    Tenants <- MCTenants
    Content <- MCContent
    Interviews <- MCInterviews
    MaxSeq = 3
SPECIFICATION ExportSpec
INVARIANTS
    TypeOK
    ChainIntact
    DigestPinsHistory
    ExportSelfDescribing
PROPERTIES
    VerificationMonotone
