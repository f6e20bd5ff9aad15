SPECIFICATION Spec
CONSTANTS
  Core = {c0, c1, c2}
  FirstCore = c0
  StartAll = FALSE
  Staggered = TRUE
  Reloads = TRUE
INVARIANTS CallsFindAnId
PROPERTY AllCoresStart
