SPECIFICATION Spec
CONSTANTS
  u1 = u1
  u2 = u2
  j1 = j1
  j2 = j2
  j3 = j3
  r1 = r1
  r2 = r2
  Users = {u1, u2}
  Rooms = {r1}
  Joins = {j1, j2, j3}
  BOT = BOT
  CardCounts = {1, 2}
  MinRoomCards = 0
  MaxRoomCards = 2
  MaxCardsPerMatch = 3
  CardsPerMatch = 3
  MinCardsToStart = 2
  BotMinCards = 1
  BotMaxCards = 2
  MaxBotsPerMatch = 1
  Prizes = {}
  MaxPending = 2
  MaxCredit = 2
  Failures = {"charge", "start", "calling", "announce", "bot"}
  EntryFee <- Fees
  InitCredit <- Credits
  Inviter <- NoInviter
SYMMETRY Symmetry
CHECK_DEADLOCK FALSE
INVARIANTS
  TypeOK
  CardsAddUp
  OneStartPerRoom
  TimersOnlyWhileWaiting
  StartHasQuorum
  SeatsArePrefix
  PoolsCovered
  PaidSeatKept
  SeatPlaysOnce
  WaitersAreTimed
  DebtBounded
  SeatsBounded
