SPECIFICATION Spec
CONSTANTS
  A = A
  D = D
  Token = Token
  NoDepth = NoDepth
  MaxTasks = 4
  MaxDependencies = 2
  MaxDeclared = 1
  Programs <- MCPrograms
  DeclaredEffects <- MCDeclaredEffects
  Operations <- MCOperations
INVARIANTS
  ConflictsOrdered
  OrderIsLeast
  ScheduleIsTight
  TransitionsComplete
  RefusedOnlyWhenDoubled
CHECK_DEADLOCK FALSE
