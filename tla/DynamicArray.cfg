SPECIFICATION Spec
CONSTANTS
  N = 3
  SizeMax = 8
  Type = {zero, one}
  Moved = moved
  Raw = raw
  Broken = broken
  Arrays = {a, b}
  MaxOther = 1
  MaxSpan = 4
  Counts = {0, 1, 2, 3, 4}
INVARIANTS TypeOK LiveExactly
PROPERTY RefinesBoundedVector
SYMMETRY Symmetry
