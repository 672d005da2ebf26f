SPECIFICATION FairSpec
CONSTANTS
  Nobody = Nobody
  NoSha = NoSha
  h1 = h1
  h2 = h2
  l1 = l1
  l2 = l2
  n1 = n1
  s1 = s1
  s2 = s2
  Client = {h1}
  Keep = 2
  MaxJump = 20
  MaxGeneration = 20
  MaxRedeploys = 1
  MaxLate = 0
  Letter = {l1}
  Note = {}
  Stamp = {s1}
  Founder = h1
  RecordKeep = 4
  SoleHolder = TRUE
  AcceptTimeout = FALSE
  Human = TRUE
  MaxNumbers = 1
  MaxWipes = 0
  MaxSilences = 1
  MaxBoxLosses = 0
  MixFaults = TRUE
  MaxFaults = 1
  MaxTorn = 0
  MaxFloor = 15
PROPERTIES
  NumbersAreSent
