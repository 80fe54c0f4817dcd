SPECIFICATION VulkanSpec
CONSTANTS
  Calls = {"compile", "compute", "timeline", "commit", "draw", "draw user", "draw tier2", "pass", "kernels"}
  MaxCalls = 5
INVARIANTS
  NothingLost
  TeardownInOrder
  RecordsWhole
CHECK_DEADLOCK FALSE
