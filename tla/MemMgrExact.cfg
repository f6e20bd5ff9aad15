SPECIFICATION Spec
CONSTANTS
  End = 15
  Sizes = {1, 2, 4}
  ExactFits = TRUE
INVARIANT BumpersIntact
