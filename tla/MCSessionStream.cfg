SPECIFICATION Spec
CONSTANTS
    Sessions = {1, 2}
    Bodies = {1, 2}
    Viewers = {1}
    Threshold = 1
    KeptTail = 1
    Mixes <- FewMixes
INVARIANTS
    TypeOK
    LogIsDense
    SummariesArePartition
    NothingMissed
    OrderIsKept
PROPERTIES
    ForkPointsHold
    CatchesUp
CHECK_DEADLOCK FALSE
