SPECIFICATION Spec
CONSTANTS
  Nobody = Nobody
  NoSha = NoSha
  h1 = h1
  h2 = h2
  l1 = l1
  l2 = l2
  n1 = n1
  s1 = s1
  s2 = s2
  Client = {h1, h2}
  Keep = 1
  MaxJump = 1
  MaxGeneration = 3
  MaxRedeploys = 1
  MaxLate = 1
  Letter = {l1}
  Note = {}
  Stamp = {s1}
  Founder = h1
  RecordKeep = 2
  SoleHolder = FALSE
  AcceptTimeout = FALSE
  Human = FALSE
  MaxNumbers = 2
  MaxWipes = 0
  MaxSilences = 1
  MaxBoxLosses = 0
  MixFaults = TRUE
  MaxFaults = 1
  MaxTorn = 0
  MaxFloor = 4
PROPERTIES
  CurrentNeverGoesBack
CHECK_DEADLOCK FALSE
