SPECIFICATION Spec
CONSTANTS
    Steps <- LoopingSteps
    Reports <- FewReports
    Bounds <- FewBounds
INVARIANTS
    TypeOK
    OneGatePerApproval
    AppliedOnce
    IntegratesAnApprovedGate
    CommittedCrossingIsKept
PROPERTIES
    ActsAsALedger
CHECK_DEADLOCK FALSE
