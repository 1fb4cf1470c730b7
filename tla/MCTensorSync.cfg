SPECIFICATION Spec
CONSTANTS
  NNodes = 3
  NLayers = 1
  NBatches = 2
  NThreads <- OneThread
  Chunks = 1
  Cap = 10
  MaxForwards = 2
  MaxFaults = 0
INVARIANT TypeOK
INVARIANT StreamAligned
INVARIANT InputsComplete
INVARIANT LogitsComplete
INVARIANT SameCall
INVARIANT OrderlyStop
INVARIANT BufferDemand
PROPERTY ImplementsCollective
