SPECIFICATION NodeSpec
CONSTANTS
    Headers <- MCExperts
    Capacity = 2
    MaxInt32 = 12
    MaxCrashes = 0
    MaxForwards <- MCMaxForwards
INVARIANT ExpertsLoaded
CHECK_DEADLOCK FALSE
