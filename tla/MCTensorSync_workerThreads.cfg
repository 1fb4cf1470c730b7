SPECIFICATION Spec
CONSTANTS
  NNodes = 3
  NLayers = 1
  NBatches = 2
  NThreads <- DefaultThreads
  Chunks = 1
  Cap = 10
  MaxForwards = 2
  MaxFaults = 0
INVARIANT InputsComplete
