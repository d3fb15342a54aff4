\* An agent with one thread that may be killed, and one with two threads.
CONSTANTS
  a = a
  b = b
  t1 = t1
  t2 = t2
  t3 = t3
  c1 = c1
  c2 = c2
  c3 = c3
  Ua = {a, b}
  Thread = {t1, t2, t3}
  Cmd = {c1, c2, c3}
  UaOf <- MCUaOf
  Killable = {a}
  NONE = NONE
SPECIFICATION FairSpec
INVARIANTS ParamsLive NoneFreed
PROPERTIES ExecEnds FreeEnds
