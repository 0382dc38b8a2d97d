SPECIFICATION Spec
CONSTANTS
  N = 3
  Keys = {1, 2, 3, 4}
  Values = {zero, one}
  Zero = zero
  Moved = moved
  Maps = {a}
  MaxOther = 1
  MaxSpan = 2
  AnyHint = TRUE
INVARIANT KeysAscend
