SPECIFICATION FairSpec
CONSTANTS
  Node = {1, 2, 3, 4, 5}
  HOST_ID = 0
  TAIL_ID <- MCTail
  Route = {1, 2}
  nodes_list <- MCNodesList
  Train = {0, 7}
  NO_HOST <- MCMinusOne
  NULL = NULL
  Commands <- AllCommands
  NextTest <- MCNextTest
  ROUTES_TO_TEST <- MCOneTestEach
  Settings <- OnlyWithdrawn
PROPERTIES
  ItineraryReleased
CHECK_DEADLOCK FALSE
