SPECIFICATION Spec
CONSTANTS
  PERIOD = 13
  HIGH = 10
  LOW = 1
  TIMER_FREQ_MHz = 3
  DELAY = 8
  WORD = 16
  MaxTurn = 5
INVARIANTS
  TimerTypeOK
  CountsNoTurnTwice
  CountsEveryTurn
  StampIsNotAhead
CHECK_DEADLOCK FALSE
