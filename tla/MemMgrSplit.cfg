SPECIFICATION Spec
CONSTANTS
  End = 15
  Sizes = {1, 2, 4}
  ExactFits = FALSE
INVARIANTS BlocksDisjoint BumpersIntact WalkCovers NoFalseExhaustion
