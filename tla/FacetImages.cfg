SPECIFICATION Spec
CONSTANTS
  None = None
  Backends = {"Vulkan", "Metal"}
  MaxWrites = 2
  MaxEpoch = 2
INVARIANTS
  
  OnlyCopyKept
  DrawHasBytes
CHECK_DEADLOCK FALSE
