\* Two channels that others listen to and receivers of three types; one
\* converter less than all of them need; b is found before it is set up.
CONSTANTS
  a = a
  b = b
  c = c
  d = d
  v1 = v1
  v2 = v2
  v3 = v3
  v4 = v4
  NULL = NULL
  Chan = {a, b, c, d}
  Listens = {a, b}
  Net = {b}
  Type = {"ES", "TS", "PS"}
  BaseType = "ES"
  ChanType <- MCChanType
  Conv <- MCBothWays
  VswId = {v1, v2, v3}
SPECIFICATION FairSpec
INVARIANTS TreeSound ConvertedRight NoStalePort
PROPERTIES Connects ReleaseEnds
