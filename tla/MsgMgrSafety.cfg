SPECIFICATION Safety
CONSTANTS
  Core = {c0, c1}
  FirstCore = c0
  StartAll = TRUE
  AppMsg = {m1, m2}
  Store = {s1, s2, s3, s4}
  None = None
SYMMETRY Symmetry
INVARIANTS TypeOK NoLostWakeup StoreConserved AssertionsHold
PROPERTY ImplementsChannel
