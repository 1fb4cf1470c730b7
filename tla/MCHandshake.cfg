SPECIFICATION FairSpec
CONSTANTS
  NNodes = 5
  MaxFaults = 1
INVARIANT TypeOK
INVARIANT RootIsSocketZero
INVARIANT MeshComplete
INVARIANT NothingDropped
PROPERTY Connects
CHECK_DEADLOCK FALSE
