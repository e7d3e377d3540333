SPECIFICATION Spec
CONSTANTS
  a = a
  c = c
  d = d
  z = z
  NONE = NONE
  t1 = t1
  t2 = t2
  Players = {a, z}
  Bots = {z}
  Numbers = {1, 2, 3, 4, 5}
  Cards <- TwoPlayers
  FillerCounts = {0}
  LinePool = 12
  FullPool = 12
  Ticks = {t1, t2}
  Faults = {}
  MaxFaults = 0
CHECK_DEADLOCK FALSE
INVARIANTS
  FullPoolKept
