SPECIFICATION Spec
CONSTANTS
  A = A
  B = B
  NoTask = NoTask
  NoPlan = NoPlan
  MaxTokens = 1
  Regions = {A, B}
  Plans <- MCPlans
  Backends = {"Vulkan"}
INVARIANTS
  OutputIsPartiallyProduced
