\* Two processes, one with two threads, two cp files, two channels and sockets: nodes of
\* either process, forks, closes while others add and delete, and the unloading.
CONSTANTS
  t1 = t1
  t2 = t2
  t3 = t3
  p1 = p1
  p2 = p2
  Exit = Exit
  Freed = Freed
  NULL = NULL
  Thread = {t1, t2, t3}
  Proc = {p1, p2}
  ProcOf <- MCProcOf
  File = {f1, f2}
  Sock = {s1, s2}
  Driven = {s1}
  MaxFail = 1
  ChanNum <- MCChanNum
SPECIFICATION Spec
SYMMETRY Symmetry
INVARIANTS NodesWhole NodesOwned NoDeadlock
