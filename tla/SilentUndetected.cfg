SPECIFICATION FairSpec
CONSTANTS
  a = a
  b = b
  c = c
  Neighbour <- MCNeighbour
  MayBeLate = {}
  MaySwallow = {}
  MayHang = {a}
  MayDisconnect = {c}
  MayNotStart = FALSE
PROPERTIES
  SilentIsDetected
CHECK_DEADLOCK FALSE
