SPECIFICATION Spec
CONSTANTS
    Steps <- BranchingSteps
    Reports <- SilentReports
    Bounds <- OneDecision
PROPERTY MoveSpendsItsApproval
CHECK_DEADLOCK FALSE
