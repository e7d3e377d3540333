SPECIFICATION FairSpec
CONSTANTS
  a = a
  c = c
  d = d
  z = z
  NONE = NONE
  t1 = t1
  t2 = t2
  Players = {a, c, d, z}
  Bots = {z}
  Numbers = {1, 2, 3, 4, 5}
  Cards <- FourPlayers
  FillerCounts = {0, 1}
  LinePool = 13
  FullPool = 13
  Ticks = {t1}
  Faults = {"read", "persist", "lineread", "linetx", "fullread", "fulltx", "reread", "finish"}
  MaxFaults = 1
CHECK_DEADLOCK FALSE
INVARIANTS
  TypeOK
  CalledMatchesRows
  ResultsAgree
  FullPoolShared
PROPERTIES
  PlaysBingo
  LinePaidOnce
  MatchEnds
  FullHouseAwarded
