\* Three packets of two senders, or two if these meet; one may be sent in part.
\* No deadlock is looked for: the history is bounded.
CONSTANTS
  BufLen = 8
  MaxPkt = 4
  IdxMod = 16
  Senders = {s1, s2}
  Payloads <- SomePayloads
  Stray = {36}
  Remains <- SomeRemains
  MaxSent = 3
  MaxMixed = 2
  MaxCut = 1
  Hosts = {h1, h2}
  NoHost = NoHost
SPECIFICATION RxSpec
SYMMETRY OfSenders
INVARIANTS AllForwarded RoomLeft
CHECK_DEADLOCK FALSE
