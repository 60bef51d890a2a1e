SPECIFICATION FairSpec
CONSTANTS
  Neighbour = {"a", "b"}
  RECV = 3
  QUEUE = 1
  MayDisconnect = {"b"}
  MayClose = {"b"}
  MaxSent <- MCMaxSent
INVARIANTS
  CommTypeOK
  ServedInOrder
  OnlyABacklogJams
PROPERTIES
  NodeNeverStalls
  EverythingIsServed
  ReloadEndsTheTasks
CHECK_DEADLOCK FALSE
