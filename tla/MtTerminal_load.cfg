\* Two registrants and a terminal; ids below 4.
CONSTANTS
  r1 = r1
  r2 = r2
  t1 = t1
  Cbs = {r1, r2}
  Cas = {t1}
  MaxId = 4
SPECIFICATION FairSpec
INVARIANTS CountsRight InSync
PROPERTIES Converges
