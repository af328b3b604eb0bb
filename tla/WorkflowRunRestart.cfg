SPECIFICATION Spec
CONSTANTS
    Steps <- GatedSteps
    Reports <- SilentReports
    Bounds <- OneRestart
INVARIANT NoDecisionLost
CHECK_DEADLOCK FALSE
