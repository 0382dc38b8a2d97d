SPECIFICATION Spec
CONSTANTS
  N = 3
  Keys = {1, 2, 3, 4}
  Values = {zero, one}
  Zero = zero
  Moved = moved
  Maps = {a, b}
  MaxOther = 0
  MaxSpan = 2
  AnyHint = FALSE
INVARIANTS TypeOK KeysAscend Parallel
PROPERTY RefinesFiniteMap
SYMMETRY Symmetry
