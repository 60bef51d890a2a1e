SPECIFICATION LockSpec
CONSTANTS
  Node = {1, 2, 3, 4, 5, 6, 7, 8, 9, 10, 11}
  HOST_ID = 0
  TAIL_ID <- MCTail
  Route = {1, 2, 3, 4}
  nodes_list <- MCNodesList
  Free = Free
INVARIANTS
  LockTypeOK
  WayAheadLocked
  NoConflictingRoutes
