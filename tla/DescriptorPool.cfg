SPECIFICATION VulkanSpec
CONSTANTS
  Calls = {"draw"}
  MaxCalls = 6
INVARIANTS
  SetIsLeft
CHECK_DEADLOCK FALSE
