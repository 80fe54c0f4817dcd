SPECIFICATION FairSpec
CONSTANTS
  A = A
  B = B
  NoTask = NoTask
  NoPlan = NoPlan
  MaxTokens = 2
  Backends = {"Reference", "Metal", "Vulkan"}
  Regions = {A, B}
  Plans <- MCPlans
INVARIANTS
  FaultIsCanonical
  NoHiddenOutput
  MemoryUnlessDrawnOver
  EnvelopePublishedOnce
PROPERTIES
  ImplementsGraphRun
  SubmitReturns
  TimelineAdvances
