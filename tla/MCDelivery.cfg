SPECIFICATION Spec
CONSTANTS
    A = A
    B = B
    Repos = {A, B}
    Kinds <- FewKinds
    Mixes <- FewMixes
INVARIANTS
    TypeOK
    DoneIsDelivered
    UnapprovedStaysHome
    LinkIsLatest
PROPERTIES
    SettlesItsOwnTask
    ShipAgainEnds
CHECK_DEADLOCK FALSE
