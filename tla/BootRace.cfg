SPECIFICATION Spec
CONSTANTS
  Core = {c0, c1}
  FirstCore = c0
  StartAll = FALSE
  Staggered = FALSE
  Reloads = TRUE
INVARIANT CallsFindAnId
