SPECIFICATION Spec
CONSTANTS
  Devices = {d1, d2}
  CodeObjects = {c1}
  Nodes = {n1, n2}
  Builders = {b1}
  Graphs = {g1}
  Envelopes = {e1}
  Arenas = {a1}
  Free = Free
  Threads = {s1, s2}
  MaxDevices = 2
  LastToken = 3
  MaxTasks = 2
CHECK_DEADLOCK FALSE
INVARIANTS
  NoDangling
  TableIsExact
  RunsOwnNodes
  IdsNameTasks
