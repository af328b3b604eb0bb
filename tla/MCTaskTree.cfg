SPECIFICATION Spec
CONSTANTS
    A = A
    B = B
    C = C
    D = D
    Tasks = {A, B, C, D}
    NoTask = NoTask
    IssueOf <- TwoIssues
    Window = 2
    Mixes <- FewMixes
SYMMETRY Alike
INVARIANTS
    TypeOK
    ChainsEnd
    SomethingCanStart
PROPERTIES
    OnlyHistoryIsPurged
CHECK_DEADLOCK FALSE
