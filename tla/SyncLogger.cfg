CONSTANTS
  t1 = t1
  t2 = t2
  f = f
  Null = Null
  Threads = {t1, t2}
  Functions = {f}
  LineSize = 6
  SeparatorLength = 2
  PrefixLengths = {4, 6, 7}
  TextLengths = {0, 5}
  SizeMax = 16
SPECIFICATION Spec
INVARIANTS
  TypeOK
  SectionsExclusive
  NeverCallsNull
