SPECIFICATION NodeSpec
CONSTANTS
    Headers <- MCHeaders
    Capacity = 2
    MaxInt32 = 12
    MaxCrashes = 1
    MaxForwards <- MCMaxForwards
INVARIANTS
    StreamInStep
    ConfigAsBuilt
    WeightsLoaded
    RootServesLast
    ExecTypeOK
    LogitsRight
    RaisesOnlyAsKnown
    CacheIsHistory
PROPERTY LoadingEnds
CHECK_DEADLOCK FALSE
