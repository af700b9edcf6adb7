SPECIFICATION Spec
CONSTANTS
    TOTAL_SLOTS = 30
    SESSION1_SLOTS = 6
    SESSION2_SLOTS = 4
    SESSION1_DRIVER_OFFSET = 1
    SESSION2_DRIVER_OFFSET = 20
    c1 = c1
    c2 = c2
    c3 = c3
    a1 = a1
    b1 = b1
    sta1 = sta1
    sta2 = sta2
    AP = AP
    NoProgram = NoProgram
    Programs = {c1, c2, c3}
    Stas = {sta1, sta2}
    Board <- RaceBoard
    Kind <- RaceKind
    Plans <- TwoServerPlans
    Backlog = 2
    MaxStarts = 2
SYMMETRY RaceSymmetry
INVARIANTS
    TypeOK
    NeverMoreThanGranted
    FullyServedIsComplete
    SameRoundNoOverlap
    FirstRoundMediumExclusive
    ReaderIsAttended
    DeviceFromOwnGrant
PROPERTY ServiceImplemented
CHECK_DEADLOCK FALSE
