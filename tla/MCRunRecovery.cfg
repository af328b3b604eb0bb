SPECIFICATION Spec
CONSTANTS
    Runs = {1, 2}
    Passes = {1, 2}
    MaxRecoveries = 1
    MaxSessions = 2
    Mixes <- FewMixes
INVARIANTS
    TypeOK
    OneAtATime
    BudgetHolds
    VerdictLeavesWithThePark
PROPERTIES
    ComesToRest
CHECK_DEADLOCK FALSE

