SPECIFICATION Spec
CONSTANTS
  MaxByte = 5
  NumLen = 2
  Star = 1
  Question = 2
  UpperA = 3
  LowerA = 4
  Leaf <- Leaves
  Shape <- Shapes
  MaxTerms = 3
  MaxParens = 2
INVARIANTS
  NormalizeSound
  NormalizeComplete
  DoubleNegation
CHECK_DEADLOCK FALSE
