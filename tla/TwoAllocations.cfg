SPECIFICATION Spec
CONSTANTS
  MaxAllocations = 2
  MaxEpoch = 1
  MaxClock = 0
  Budget = 0
  Imports <- MCImports
  MaxSlots = 1
  MaxTokens = 2
  Kinds = {Sampled}
  Holds = {h1, h2}
  Scopes = {}
  NoHold = NoHold
  NoFacet = NoFacet
  MaxUses = 1
  MaxItems = 0
SYMMETRY MCSymmetry
INVARIANTS
  Conservation
  EpochMatchImpliesLive
CHECK_DEADLOCK FALSE
