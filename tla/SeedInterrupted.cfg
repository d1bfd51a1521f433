CONSTANTS
    Environments = {"development", "production"}
    ConfidenceThreshold = 70
    MaxCopies = 2
    MaxCommands = 4
    MaxVisits = 1
    Visited = {4}
SPECIFICATION Spec
INVARIANTS
    InterruptLeavesNothing
CHECK_DEADLOCK FALSE
