SPECIFICATION Spec
CONSTANTS
  MaxAllocations = 1
  MaxEpoch = 2
  MaxClock = 2
  Budget = 2
  Imports <- MCNoImports
  MaxSlots = 2
  MaxTokens = 1
  Kinds = {Sampled}
  Holds = {h1, h2}
  Scopes = {k1}
  NoHold = NoHold
  NoFacet = NoFacet
  MaxUses = 1
  MaxItems = 1
SYMMETRY MCSymmetry
INVARIANTS
  TypeOK
  Conservation
  HeldIsReleasable
  FreeListExact
  FacetUsesCannotFail
PROPERTIES
  HeldBackingStable
  TokenNamesOneFacet
  ImplementsReaderLease
CHECK_DEADLOCK FALSE
