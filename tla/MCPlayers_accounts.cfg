SPECIFICATION Spec
CONSTANTS
  NONE = NONE
  Registrations = {q1, q2}
  Completions = {c1, c2, c3}
  SignIns = {s1}
  Names = {n1, n2}
  Codes = {k1, k2}
  Phones = {p1}
  GIFT_AMOUNT = 2
  MaxPending = 2
  Failures = {"create", "update", "charge", "settle"}
  Payments = {y1}
  Costs = {1}
  Prizes = {w1}
  Amounts = {3}
  Fills = {f1}
  MaxBots = 2
SYMMETRY Symmetry
CHECK_DEADLOCK FALSE
INVARIANTS
  TypeOK
  KeysUnique
  ReferrerFirst
  CompletionsBounded
  SignedInByOwner
  LedgerAddsUp
  BotsToldApart
PROPERTIES
  KeepsLedger
