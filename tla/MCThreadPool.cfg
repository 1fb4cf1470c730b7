\* A caller and three pool threads, three rounds.  A round may never return
\* (see MCThreadPool_missed), so the pool may stop.
SPECIFICATION Spec
CONSTANTS
    NThreads = 4
    MaxRounds = 3
INVARIANTS
    TypeOK
    RoundComplete
    NoReadWhileWritten
PROPERTY
    PunctualRoundReturns
CHECK_DEADLOCK FALSE
