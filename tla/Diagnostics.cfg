SPECIFICATION FairSpec
CONSTANTS
  a = a
  b = b
  c = c
  Neighbour <- MCNeighbour
  MayBeLate = {a}
  MaySwallow = {c}
  MayHang = {a, b}
  MayDisconnect = {b, c}
  MayNotStart = TRUE
INVARIANTS
  DiagTypeOK
  SuccessIsGenuine
  FailureHasACause
PROPERTIES
  SilentIsDetectedWhileConnected
CHECK_DEADLOCK FALSE
