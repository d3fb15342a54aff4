SPECIFICATION FairSpec
CONSTANTS
  Blk = {b1, b2}
  NoBlk = NoBlk
  NoHandle = NoHandle
  Thread = {t1, t2}
  Handle = {h1, h2}
  BlkSize = 6
  BufHdr = 1
  MinRsvd = 2
  Lens = {1, 3}
  Flags <- AllFlags
  MaxTmp = 1
INVARIANTS NoUseAfterFree RefsCounted BlocksConserved BufsDisjoint
PROPERTIES WaitersServed
CHECK_DEADLOCK FALSE

