SPECIFICATION FairSpec
CONSTANTS
  Node = {1, 2, 3, 4, 5}
  HOST_ID = 0
  TAIL_ID <- MCTail
  Route = {1, 2}
  nodes_list <- MCNodesList
  MayFailToConnect = {2, 3}
INVARIANTS
  StartTypeOK
  AnnouncedMeansRunning
  AheadIsRunning
PROPERTIES
  EverybodyStarts
CHECK_DEADLOCK FALSE
