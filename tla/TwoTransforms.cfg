SPECIFICATION Spec
CONSTANTS
  MaxAllocations = 2
  MaxEpoch = 1
  MaxClock = 4
  Budget = 0
  Imports <- MCNoImports
  MaxSlots = 2
  MaxTokens = 1
  Kinds = {Sampled}
  Holds = {h1}
  Scopes = {}
  NoHold = NoHold
  NoFacet = NoFacet
  MaxUses = 0
  MaxItems = 2
INVARIANTS
  ProducedFacetsCurrent

  
CHECK_DEADLOCK FALSE
