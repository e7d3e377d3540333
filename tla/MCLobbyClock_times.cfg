SPECIFICATION ClockSpec
CONSTANTS
  Users = {u1, u2}
  Rooms = {r1}
  Joins = {j1, j2, j3}
  BOT = BOT
  CardCounts = {1, 2}
  MinRoomCards = 0
  MaxRoomCards = 2
  MaxCardsPerMatch = 3
  CardsPerMatch = 3
  MinCardsToStart = 2
  BotMinCards = 1
  BotMaxCards = 2
  MaxBotsPerMatch = 2
  Prizes = {}
  MaxPending = 1
  MaxCredit = 2
  Failures = {"start", "bot"}
  EntryFee <- Fees
  InitCredit <- Credits
  Inviter <- NoInviter
  FirstWindow = 9
  SecondWindow = 9
  BotFillStart = 1
  BotFillEnd = 4
  BotFillDelays = {0, 1}
  Second = 3
SYMMETRY Symmetry
CHECK_DEADLOCK FALSE
INVARIANTS
  ClockTypeOK
  ShownTimeHolds
PROPERTIES
  ImplementsLobby
