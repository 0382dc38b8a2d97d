CONSTANTS
  MaxNum = 5
  SizeMax = 16
  ClockMax = 16
  PerMilli = 3
  MaxPosition = 70
  Undefined = Undefined
  Bits = 5
  RealBits = 8
  IntBits = 8
  Chars = {0, 1, 2}
  MaxText = 3
  Keys = {0, 1, 2, 3, 4}
  KeyClasses = 3
  Given = {"x", "y"}
  Default = "default"
  MovedFrom = "moved"
SPECIFICATION CoreSpec
INVARIANTS
  ResidueInv
  DistanceInv
  ValuesKept
