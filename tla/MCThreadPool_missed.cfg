\* Two rounds, one pool thread: a thread that is still in the second spin when
\* the next round begins misses it.
SPECIFICATION Spec
CONSTANTS
    NThreads = 2
    MaxRounds = 2
PROPERTY
    RoundReturns
CHECK_DEADLOCK FALSE
