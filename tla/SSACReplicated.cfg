SPECIFICATION Spec
CONSTANTS
  NumVP = 2
  Thread <- MCThread
  VPOf <- MCVPOf
  Id = {0, 7}
  Associativity = 1
  MaxRequests = 3
  FlushAlone = TRUE
  None = None
INVARIANTS TypeOK Coherent ReadIsFresh SingleWriter DirectoryExact NoLockCycle AssertionsHold
