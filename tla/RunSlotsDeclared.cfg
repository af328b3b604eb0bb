SPECIFICATION Spec
CONSTANTS
    Tasks = {plain}
    OnWorkflow = {}
    Runs = {first, second}
    Cap = 1
    Bounds <- OneStart
INVARIANT NothingRunsWhenFinished
CHECK_DEADLOCK FALSE
