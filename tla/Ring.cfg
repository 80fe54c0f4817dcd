SPECIFICATION FairSpec
CONSTANTS
  Producers = {p1, p2}
  Consumers = {c1, c2}
  Capacity = 2
  CounterSize = 2
  Words = {w1, w2}
  Tasks = {t1, t2, t3}
  Malformed = {t3}
  Unsupported = {t2}
  Quota = 1
  NoTask = NoTask
INVARIANTS
  WriterExclusive
  NoTornRecord
  AcceptedOnce
  ConsumedWasAccepted
PROPERTIES
  PublishedIsConsumed
  OverflowMeansFull
CHECK_DEADLOCK FALSE
