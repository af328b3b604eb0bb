SPECIFICATION Spec
CONSTANTS
    Tasks = {plain}
    OnWorkflow = {}
    Runs = {first, second}
    Cap = 1
    Bounds <- OneRetry
PROPERTY MovedSleeperStandsDown
CHECK_DEADLOCK FALSE
