SPECIFICATION Spec
CONSTANTS
    Tasks = {plain}
    OnWorkflow = {}
    Runs = {first, second}
    Cap = 1
    Bounds <- OneDeath
PROPERTY StandsDownHoldingNothing
CHECK_DEADLOCK FALSE
