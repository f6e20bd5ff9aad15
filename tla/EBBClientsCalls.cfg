SPECIFICATION ClientSpec
CONSTANTS
  NumCores = 3
  Id = {0, 1, 2}
  Owner <- MCOwner
  Inst <- MCInst
  Kind <- MCKind
  None = None
  MaxBinds <- MCBindOnce
INVARIANTS TypeOK IdsAreUnique OneRepPerEL CallsReachInstance
