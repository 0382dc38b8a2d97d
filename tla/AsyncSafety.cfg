CONSTANTS
  p1 = p1
  p2 = p2
  Printer = Printer
  NoThread = NoThread
  Blank = Blank
  Torn = Torn
  BufferCount = 2
  SizeMax = 16
  MaxMessages = 5
  IgnoreLevel = 2
  FormatMayFail = TRUE
  PrintMayFail = TRUE
  Producers <- TwoProducers
  Levels <- WithFatal
SPECIFICATION Spec
INVARIANTS
  TypeOK
  MutexInv
  NoLostWakeup
  DiscardsWhatItPrinted
  PrintedInOrder
PROPERTIES
  LeavesPrintedOrOldest
  RefinesChannel
  HaltFreezes
SYMMETRY Symmetry
CHECK_DEADLOCK FALSE
