SPECIFICATION ClientSpec
CONSTANTS
  NumCores = 2
  Id = {0}
  Owner <- MCOwner
  Inst <- MCInst
  Kind <- MCKind
  None = None
  MaxBinds <- MCBindTwice
INVARIANT NoStaleTranslation
