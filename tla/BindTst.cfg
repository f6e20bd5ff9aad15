SPECIFICATION TstSpec
CONSTANTS
  NumCores = 3
  Id = {0, 1}
  Owner <- MCOwner
  Inst <- MCInst
  Kind <- MCKind
  None = None
  JoinFirst = TRUE
INVARIANTS AllCallsPass CallsAreWhole BarrierHolds
PROPERTY TestEnds
CHECK_DEADLOCK FALSE
