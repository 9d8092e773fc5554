CONSTANTS
    main = main
    other = other
    s1 = s1
    s2 = s2
    priced = priced
    title = title
    None = None
    Homes <- MCHomes
    Sessions <- MCSessions
    Models <- MCModels
    Priced <- MCPriced
    Names <- MCNames
    HomeOrder <- MCHomeOrder
    MaxWrites = 3
    MaxMoves = 1
    MaxWork = 2
SPECIFICATION Spec
CONSTRAINT MCBound
INVARIANTS
    FiguresMatchCalls
    PiecesMakeTheWhole
    SkippedIsComplete
    DeletedLeavesNoGhost
PROPERTIES
    UndoneIsWhole
CHECK_DEADLOCK FALSE
