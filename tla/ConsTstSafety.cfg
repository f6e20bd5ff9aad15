SPECIFICATION Spec
CONSTANTS
  NumCores = 2
  NumVec = 4
  Handlers <- MCHandlers
  Funcs <- MCFuncs
  None = None
  BufSize = 2
  Greeting = 2
  MaxKeys = 1
  TtyRoom = 1
INVARIANTS TypeOK VectorsAgree NoDeafCore DispatchedRight OutputInOrder OutputIsOn
CHECK_DEADLOCK FALSE
