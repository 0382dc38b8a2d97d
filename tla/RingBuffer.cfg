CONSTANTS
  ItemSize = 3
  SizeMax = 16
  Type = {a, b}
  Unset = Unset
  ConstantEvaluated = FALSE
  MaxSpan = 4
  a = a
  b = b
SPECIFICATION Spec
INVARIANTS
  TypeOK
  AlignedInv
  PopLoopBounded
PROPERTIES
  RefinesFifo
