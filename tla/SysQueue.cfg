CONSTANTS
  t1 = t1
  t2 = t2
  isr = isr
  Tasks = {t1, t2}
  Isr = isr
  Lengths = {1, 2}
  LeastMaxValue = 2
  MaxMessages = 3
  MaxReleases = 3
SPECIFICATION Spec
INVARIANTS
  TypeOK
  ExactlyOnceInOrder
  PermitsAccounted
PROPERTIES
  NeverGoesBack
CHECK_DEADLOCK FALSE
