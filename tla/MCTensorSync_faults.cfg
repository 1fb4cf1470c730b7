SPECIFICATION FairSpec
CONSTANTS
  NNodes = 3
  NLayers = 1
  NBatches = 1
  NThreads <- OneThread
  Chunks = 2
  Cap = 2
  MaxForwards = 2
  MaxFaults = 1
INVARIANT StreamAligned
PROPERTY ForwardReturns
PROPERTY WorkersFollowRoot
