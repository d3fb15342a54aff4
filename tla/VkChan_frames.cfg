\* One sender and one or two receivers, without faults and with a limit and
\* faults; two senders and a receiver that are connected and disconnected.
\* Nobody has to put or read: the system may stop.
CONSTANTS
  s1 = s1
  s2 = s2
  r1 = r1
  r2 = r2
  Snd = {s1, s2}
  Rx = {r1, r2}
  NoRx = NoRx
  Rooms = {1}
  MaxPktLen = 1
  Settings <- MCSettings
  MaxFrame = 3
SPECIFICATION FairSpec
INVARIANTS GotWholeFrames
PROPERTIES Streams NothingLost PollReturns
CHECK_DEADLOCK FALSE
