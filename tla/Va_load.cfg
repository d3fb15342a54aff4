\* Every link order of eleven parts, every point at which the load may fail,
\* and programs that mount the file system and bind files meanwhile.
CONSTANTS
  Mods <- MCMods
  File <- MCFile
  MaxMount = 2
  Short <- MCShort
  Chan = {c1, n1}
  NodeChan = {n1}
  ChanDev <- MCChanDev
  DevOf <- MCDevOf
  Fd = {f1, f2}
  Thread = {t1, t2}
  MaxRef = 3
  NULL = NULL
SPECIFICATION Spec
SYMMETRY MCSymmetry
\* a load that failed, an unloaded module and a fault in an unload are ends
CHECK_DEADLOCK FALSE
INVARIANTS
  ServicesUp StartedOnce FilesShown BoundIsLive AllUndone
