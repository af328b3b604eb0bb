SPECIFICATION Spec
CONSTANTS
    Tasks = {piped, plain}
    OnWorkflow = {piped}
    Runs = {first, second}
    Cap = 1
    Bounds <- FewBounds
INVARIANTS
    TypeOK
    CapHolds
    WorkHoldsASlot
    SlotIsWorkedFor
    ParkedIsSleptOn
PROPERTIES
    ActsAsASemaphore
SYMMETRY RunsAlike
CHECK_DEADLOCK FALSE
