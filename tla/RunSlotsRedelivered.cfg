SPECIFICATION Spec
CONSTANTS
    Tasks = {piped}
    OnWorkflow = {piped}
    Runs = {first, second}
    Cap = 1
    Bounds <- OneRedelivery
PROPERTY SecondRunFindsNothingToDo
CHECK_DEADLOCK FALSE
