\* A process with two threads is killed.
CONSTANTS
  a = a
  b = b
  t1 = t1
  t2 = t2
  t3 = t3
  c1 = c1
  c2 = c2
  c3 = c3
  Ua = {b}
  Thread = {t2, t3}
  Cmd = {c3}
  UaOf <- MCUaOf
  Killable = {a, b}
  NONE = NONE
SPECIFICATION FairSpec
PROPERTIES ExecEnds
CHECK_DEADLOCK FALSE
