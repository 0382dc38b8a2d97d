CONSTANTS
  u1 = u1
  u2 = u2
  th1 = th1
  th2 = th2
  q1 = q1
  q2 = q2
  a1 = a1
  a2 = a2
  Users = {u1, u2}
  ThreadVars = {th1, th2}
  ObjectVars = {q1, q2}
  Addresses = {a1, a2}
  HeapBlocks = 3
  MaxMade = 3
SPECIFICATION Spec
SYMMETRY Symmetry
INVARIANTS
  TypeOK
  TuplesAccounted
  OneHolder
PROPERTIES
  StraysOnlyAfterMissedExit
CHECK_DEADLOCK FALSE
