CONSTANTS
  Names = {n1, n2}
  NewNames = {n1}
  Operators = {m1, m2}
  None = None
  Broken = Broken
  MaxLimit = 1
  MaxDays = 1
  MaxToday = 1
  MaxSpent = 3
SPECIFICATION Spec
SYMMETRY Alike
INVARIANTS TypeOK ShownIsEnforced LimitAsTold AddIsAllOrNothing
PROPERTIES RollbackSparesOthers RemovedIsCutOff CleanupAgreesWithGuard
CHECK_DEADLOCK FALSE
