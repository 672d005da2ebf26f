SPECIFICATION Spec
CONSTANTS
  Nobody = Nobody
  NoSha = NoSha
  h1 = h1
  h2 = h2
  l1 = l1
  l2 = l2
  n1 = n1
  s1 = s1
  s2 = s2
  Client = {h1}
  Keep = 2
  MaxJump = 10
  MaxGeneration = 9
  MaxRedeploys = 1
  MaxLate = 0
  Letter = {l1, l2}
  Note = {n1}
  Stamp = {s1}
  Founder = h1
  RecordKeep = 4
  SoleHolder = TRUE
  AcceptTimeout = FALSE
  Human = TRUE
  MaxNumbers = 2
  MaxWipes = 1
  MaxSilences = 1
  MaxBoxLosses = 1
  MixFaults = FALSE
  MaxFaults = 1
  MaxTorn = 1
  MaxFloor = 5
SYMMETRY Symmetry
PROPERTIES
  SavedBeforeSent
  RestoreKeepsPushed
CHECK_DEADLOCK FALSE
