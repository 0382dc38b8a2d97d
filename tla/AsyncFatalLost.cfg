CONSTANTS
  p1 = p1
  p2 = p2
  Printer = Printer
  NoThread = NoThread
  Blank = Blank
  Torn = Torn
  BufferCount = 2
  SizeMax = 16
  MaxMessages = 4
  IgnoreLevel = 2
  FormatMayFail = FALSE
  PrintMayFail = FALSE
  Producers <- TwoProducers
  Levels <- WithFatal
SPECIFICATION Spec
INVARIANTS
  FatalMessageOutput
CHECK_DEADLOCK FALSE
