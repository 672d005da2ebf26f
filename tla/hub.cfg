SPECIFICATION MCSpec
CONSTANTS
  NoOne = NoOne
  x1 = x1
  x2 = x2
  ra = ra
  ta = ta
  tb = tb
  tc = tc
  da = da
  db = db
  lab1 = lab1
  lab2 = lab2
  lab3 = lab3
  k1 = k1
  k2 = k2
  a1 = a1
  a2 = a2
  b1 = b1
  b2 = b2
  f1 = f1
  v1 = v1
  v2 = v2
  p1 = p1
  p2 = p2
  Signer = {lab1, lab2, lab3}
  KeyName = {k1, k2}
  Pubkey = {a1, a2, b1, b2}
  Home = lab1
  Declared = FALSE
  Claims <- ClaimTypes
  Rules <- CanaryRules
  Policies = {"policy"}
  Provisioned <- Registered
  Registrations <- Later
  Traffic <- AllTraffic
  Writer = {p1, p2}
  w1 = w1
  w2 = w2
  ann = ann
  ben = ben
  Lab = {1, 2}
  Channel = "plaza"
  Sayings <- AllEvents
  Prepared <- ByBbs
  NoEvent = NoOne
  MaxQuad = 4
  Pusher = {w1, w2}
  Letters <- LetterSet
  NoBody = NoOne
  NoFile = NoOne
  FirstTokens <- Tokens1
  Unscoped = NoOne
  Outboxes = {1, 2}
  Exporter = {x1, x2}
  Doors = {da, db}
  DoorOf <- DoorsOf
  Reader = {ra}
  ReadsAt <- ReadsDoor
  MaxNumber = 3
  PageSize = 1
  TokenFiles <- Files3
  MemberToken = ta
  Limits = {0, 2}
  Window = 2
  None = NoOne
  d1 = d1
  d2 = d2
  d3 = d3
  c1 = c1
  c2 = c2
  Draft = {d1, d2, d3}
  Caller = {c1, c2}
  Person = {p1, p2}
  PendingMax = 1
  MaxDamages = 1
  Budgets <- AllBudgets
INVARIANTS
  TypeOK
  KeysInOrder
  EvidenceHolds
  OneReceiptPerEvent
  ReplayAgrees
  QuadsWhole
  MissedOnlyIfLate
  LimiterIsFair
  ProofsHold
  PostsAreOnce
  CompleteMeansAll
  BoardSaysWhatWasSaid
  AnswersStand
  WaitingBounded
CHECK_DEADLOCK FALSE
