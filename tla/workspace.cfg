SPECIFICATION MCFairSpec
CONSTANTS
  NoOne = NoOne
  a = a
  b = b
  p1 = p1
  p2 = p2
  p3 = p3
  x = x
  y = y
  k = k
  i1 = i1
  i2 = i2
  w1 = w1
  w2 = w2
  n1 = n1
  n2 = n2
  Cell = {a, b}
  Body = {x, y}
  Key = {k}
  FeedLimit = 2
  Process = {p1, p2, p3}
  CellOf <- TwoForOne
  Role = {"worker", "chief"}
  Legacy = {b}
  Address = {n1, n2}
  PageLimit = 1
  Window = 1
  Menu <- Sayings
  Joins <- Ways
  Watcher = {b}
  Command = {w1, w2}
  Item = {i1, i2}
  StreakN = 2
  SectionLimit = 2
  OldFormat = 0
  NewFormat = 2
  Budgets <- AllBudgets
INVARIANTS
  TypeOK
  NoneSkippedNoneTwice
  SessionsHold
  InboxHolds
  ClaimsHaveGround
  InTurnHolds
  ChangesAreSafe
PROPERTIES
  WhatIsWrittenStands
  WatchersShowAll
CHECK_DEADLOCK FALSE
