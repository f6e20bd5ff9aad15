SPECIFICATION Spec
CONSTANTS
  NumCores = 2
  NumVec = 4
  Handlers <- MCHandlers
  Funcs <- MCFuncs
  None = None
  BufSize = 1
  Greeting = 0
  MaxKeys = 1
  TtyRoom = 1
PROPERTIES OutputFlows InputIsRead
CHECK_DEADLOCK FALSE
