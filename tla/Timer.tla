------------------------------- MODULE Timer --------------------------------
(***************************************************************************)
(* The time of a node (timerTask.c): a register that counts up and starts  *)
(* again from zero, a task that polls it to count how often it did, and    *)
(* getTimeMicro, with which the other tasks stamp what they log.           *)
(*                                                                         *)
(* The register turns every 79.5 seconds.  The task notices it by seeing a *)
(* value of its last 5 microseconds and then one of its first 18; between  *)
(* two turns it sleeps for 76 seconds.                                     *)
(***************************************************************************)
EXTENDS Integers

CONSTANTS
  PERIOD,          \* values of the register: 2^32
  HIGH, LOW,       \* 4294967000 and 1000, the ends of what the task looks for
  TIMER_FREQ_MHz,  \* steps of the register in a microsecond: 54
  DELAY,           \* steps of the register while the task sleeps
  WORD,            \* values of an int: 2^32
  MaxTurn          \* bound: how often the register turns

\* The C macro, with the division C makes of it.
TIME_TO_GET_OVERFLOW_MICRO == (PERIOD - 1) \div TIMER_FREQ_MHz

ASSUME TimerAssumption ==
  /\ {PERIOD, TIMER_FREQ_MHz, WORD} \subseteq Nat \ {0}
  /\ {HIGH, LOW, DELAY, MaxTurn} \subseteq Nat
  /\ LOW < HIGH /\ HIGH < PERIOD

VARIABLES
  reg,                   \* sysTimestamp()
  turn,                  \* how often the register has started again
  timer_pc,              \* where timerMain is in its loop
  currentTimerRegValue,  \* the value it read
  flagOverflow,          \* it saw the end of a turn
  overflowCounter,       \* the turns it counted
  sleep,                 \* steps left of its taskDelay
  preemptible,           \* tasks of higher priority may keep it from polling
  polled,                \* it has polled the register since the last step
  totalCurrentTimeMicro, \* what it reports, under TIMER_SEM
  reader,                \* getTimeMicro of a task: its total, or -1
  stamp                  \* what getTimeMicro returned last

task == <<timer_pc, currentTimerRegValue, flagOverflow, overflowCounter, preemptible>>
read == <<reader, stamp>>

vars == <<reg, turn, task, sleep, polled, totalCurrentTimeMicro, read>>

Register == 0 .. PERIOD - 1

TimerTypeOK ==
  /\ reg \in Register /\ turn \in 0 .. MaxTurn
  /\ timer_pc \in {"read", "test", "report", "delay"}
  /\ currentTimerRegValue \in Register
  /\ flagOverflow \in BOOLEAN /\ preemptible \in BOOLEAN /\ polled \in BOOLEAN
  /\ overflowCounter \in Nat /\ sleep \in 0 .. DELAY
  /\ totalCurrentTimeMicro \in 0 .. WORD - 1
  /\ reader \in Nat \union {-1} /\ stamp \in Nat

\* The task starts at any moment of the first turn.
Init ==
  /\ reg \in Register /\ turn = 0
  /\ timer_pc = "read" /\ currentTimerRegValue = 0
  /\ flagOverflow = FALSE /\ overflowCounter = 0
  /\ sleep = 0 /\ polled = FALSE
  /\ preemptible \in BOOLEAN
  /\ totalCurrentTimeMicro = 0
  /\ reader = -1 /\ stamp = 0

-----------------------------------------------------------------------------
(* Time.  Unless it is preempted, the task polls several times while the   *)
(* register is at either end of a turn: a step here is long enough for an  *)
(* iteration of its loop.                                                  *)

Tick ==
  /\ reg < PERIOD - 1 \/ turn < MaxTurn
  /\ preemptible \/ sleep > 0 \/ (polled /\ timer_pc = "read")
  /\ IF reg = PERIOD - 1 THEN reg' = 0 /\ turn' = turn + 1
                         ELSE reg' = reg + 1 /\ turn' = turn
  /\ sleep' = IF sleep > 0 THEN sleep - 1 ELSE 0
  /\ polled' = FALSE
  /\ UNCHANGED <<task, totalCurrentTimeMicro, read>>

-----------------------------------------------------------------------------
(* The timer task.                                                         *)

ReadTimer ==
  /\ timer_pc = "read"
  /\ currentTimerRegValue' = reg
  /\ timer_pc' = "test"
  /\ UNCHANGED <<reg, turn, flagOverflow, overflowCounter, preemptible, sleep, polled,
                 totalCurrentTimeMicro, read>>

SeesEnd == currentTimerRegValue >= HIGH /\ ~flagOverflow

\* Faulty: every value of the first microseconds counts as a turn.
SeesStartAlways == currentTimerRegValue <= LOW

SeesStart == currentTimerRegValue <= LOW /\ flagOverflow

TestEnd ==
  /\ timer_pc = "test" /\ SeesEnd
  /\ flagOverflow' = TRUE
  /\ timer_pc' = "read" /\ polled' = TRUE
  /\ UNCHANGED <<reg, turn, currentTimerRegValue, overflowCounter, preemptible, sleep,
                 totalCurrentTimeMicro, read>>

TestStart ==
  /\ timer_pc = "test" /\ ~SeesEnd /\ SeesStart
  /\ overflowCounter' = overflowCounter + 1
  /\ timer_pc' = "report"
  /\ UNCHANGED <<reg, turn, currentTimerRegValue, flagOverflow, preemptible, sleep, polled,
                 totalCurrentTimeMicro, read>>

TestNeither ==
  /\ timer_pc = "test" /\ ~SeesEnd /\ ~SeesStart
  /\ timer_pc' = "read" /\ polled' = TRUE
  /\ UNCHANGED <<reg, turn, currentTimerRegValue, flagOverflow, overflowCounter, preemptible,
                 sleep, totalCurrentTimeMicro, read>>

\* Faulty: the new total is added to the old one.
TotalMicroAdded(counter, value) ==
  (totalCurrentTimeMicro + counter * TIME_TO_GET_OVERFLOW_MICRO + value \div TIMER_FREQ_MHz)
    % WORD

\* The sum is an unsigned int before it becomes a uint64_t; the product is an
\* int, whose overflow wraps in what compilers make of it.
TotalMicro(counter, value) ==
  (counter * TIME_TO_GET_OVERFLOW_MICRO + value \div TIMER_FREQ_MHz) % WORD

\* Faulty: the delay was taken for longer than a turn, 80 seconds.
DelayTooLong == PERIOD

\* taskDelay(4560): 76 seconds.
Delay == DELAY

\* The total, under TIMER_SEM, and the delay.
Report ==
  /\ timer_pc = "report"
  /\ totalCurrentTimeMicro' = TotalMicro(overflowCounter, currentTimerRegValue)
  /\ flagOverflow' = FALSE
  /\ sleep' = Delay
  /\ timer_pc' = "delay"
  /\ UNCHANGED <<reg, turn, currentTimerRegValue, overflowCounter, preemptible, polled, read>>

WakeUp ==
  /\ timer_pc = "delay" /\ sleep = 0
  /\ timer_pc' = "read"
  /\ UNCHANGED <<reg, turn, currentTimerRegValue, flagOverflow, overflowCounter, preemptible,
                 sleep, polled, totalCurrentTimeMicro, read>>

timerMain == ReadTimer \/ TestEnd \/ TestStart \/ TestNeither \/ Report \/ WakeUp

-----------------------------------------------------------------------------
(* getTimeMicro: the total, under TIMER_SEM, and later the register.       *)

ReadTotal ==
  /\ reader = -1
  /\ reader' = totalCurrentTimeMicro
  /\ UNCHANGED <<reg, turn, task, sleep, polled, totalCurrentTimeMicro, stamp>>

ReadRegister ==
  /\ reader # -1
  /\ stamp' = reader + reg \div TIMER_FREQ_MHz
  /\ reader' = -1
  /\ UNCHANGED <<reg, turn, task, sleep, polled, totalCurrentTimeMicro>>

getTimeMicro == ReadTotal \/ ReadRegister

Next == Tick \/ timerMain \/ getTimeMicro

Spec == Init /\ [][Next]_vars

-----------------------------------------------------------------------------
(* Properties.                                                             *)

\* No turn of the register is counted twice.
CountsNoTurnTwice == overflowCounter <= turn

\* And none is missed, by a task that is not preempted: once the beginning of
\* a turn is over, it has been counted.
CountsEveryTurn == ~preemptible /\ reg > LOW => overflowCounter = turn

\* A time stamp is never ahead of the time by more than the moment at which
\* the turn was noticed, which both of its parts contain.
Elapsed == (turn * PERIOD + reg) \div TIMER_FREQ_MHz

StampIsNotAhead == stamp <= Elapsed + LOW \div TIMER_FREQ_MHz

\* Time does not run backwards: a later call of getTimeMicro returns no
\* earlier time.
TimeGoesForward == [][stamp' >= stamp]_stamp
=============================================================================
