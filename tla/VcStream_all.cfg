SPECIFICATION Spec
CONSTANTS
  NetLen = 7
  RtpHdrLen = 2
  PesLen = 2
  FuLen = 1
  FmtMin = 2
  SeqIdMod = 8
  TsPktLen = 6
  TsHdrLen = 2
  TsFirstLen = 4
  TsNetPkts = 2
  CounterMod = 4
  AudioTables = 2
  MinBufLen = 12
  Vcers <- MCVcers
  Frames <- MCFrames
  MaxFrames = 3
  MaxAudio = 1
  MaxFaults = 1
CHECK_DEADLOCK FALSE
INVARIANTS
  Decodable
  NothingLost
  Framed
  Packaged
