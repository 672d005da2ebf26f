SPECIFICATION Spec
CONSTANTS
  Nobody = Nobody
  NoSha = NoSha
  h1 = h1
  h2 = h2
  l1 = l1
  l2 = l2
  n1 = n1
  s1 = s1
  s2 = s2
  Client = {h1, h2}
  Keep = 2
  MaxJump = 10
  MaxGeneration = 9
  MaxRedeploys = 0
  MaxLate = 0
  Letter = {l1, l2}
  Note = {}
  Stamp = {s1, s2}
  Founder = h1
  RecordKeep = 4
  SoleHolder = FALSE
  AcceptTimeout = FALSE
  Human = FALSE
  MaxNumbers = 2
  MaxWipes = 0
  MaxSilences = 1
  MaxBoxLosses = 0
  MixFaults = TRUE
  MaxFaults = 1
  MaxTorn = 0
  MaxFloor = 8
SYMMETRY Symmetry
INVARIANTS
  PutOnExtends
PROPERTIES
  SavedBeforeSent
CHECK_DEADLOCK FALSE
