CONSTANTS
    sub1 = sub1
    sub2 = sub2
    re1 = re1
    re2 = re2
    rev1 = rev1
    rev2 = rev2
    s1 = s1
    s2 = s2
    x1 = x1
    x2 = x2
    t1 = t1
    w1 = w1
    w2 = w2
    Submits = {sub1, sub2}
    Reevaluates = {re1, re2}
    Reviews = {rev1, rev2}
    Slots = {s1, s2}
    Interviews = {x1, x2}
    Tenants = {t1}
    InterviewOf <- MCInterviewOf
    OwnerOf <- MCOwnerOf
    LLMResults <- MCLLMResults
    HumanVerdicts = {"correct"}
    ConfidenceThreshold = 70
    Workers = {w1, w2}
    Settings <- SQLiteOnly
    MaxCrashes = 1
SPECIFICATION Spec
INVARIANTS
    ResponseHasEvaluation
