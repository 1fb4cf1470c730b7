SPECIFICATION Spec
CONSTANTS
  NNodes = 3
  NLayers = 1
  NBatches = 2
  MaxForwards = 2
INVARIANT TypeOK
INVARIANT Gathered
INVARIANT Lockstep
INVARIANT RootLeads
