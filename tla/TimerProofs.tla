---------------------------- MODULE TimerProofs -----------------------------
(***************************************************************************)
(* For every register, every pair of windows that do not meet, every delay *)
(* and any preemption of the timer task: the types, that no turn of the    *)
(* register is counted twice, and that no time stamp is ahead of the time. *)
(* For a delay shorter than a turn and a task that is not preempted: every *)
(* turn is counted.                                                        *)
(***************************************************************************)
EXTENDS Timer, TLAPS

\* Between two turns that are counted the register has been near its end: the
\* flag is only set there, and whatever the task reads after that and takes
\* for the start of a turn belongs to a later turn.
OnlyTurnsCounted ==
  /\ overflowCounter <= turn
  /\ timer_pc \in {"read", "test"} /\ flagOverflow => overflowCounter < turn \/ reg >= HIGH
  /\ timer_pc = "test" => overflowCounter < turn \/ currentTimerRegValue <= reg
  /\ timer_pc = "test" /\ flagOverflow /\ currentTimerRegValue <= LOW => overflowCounter < turn
  /\ timer_pc = "delay" => ~flagOverflow

Inv == TimerTypeOK /\ OnlyTurnsCounted

LEMMA ConstantTypes ==
  /\ PERIOD \in Nat /\ TIMER_FREQ_MHz \in Nat /\ WORD \in Nat
  /\ PERIOD > 0 /\ TIMER_FREQ_MHz > 0 /\ WORD > 0
  /\ HIGH \in Nat /\ LOW \in Nat /\ DELAY \in Nat /\ MaxTurn \in Nat
  /\ LOW < HIGH /\ HIGH < PERIOD
BY TimerAssumption DEF TimerAssumption

\* What is reported fits into an int.
LEMMA TotalMicroType ==
  ASSUME NEW counter \in Nat, NEW value \in Register
  PROVE  TotalMicro(counter, value) \in 0 .. WORD - 1
<1> DEFINE total == counter * TIME_TO_GET_OVERFLOW_MICRO + value \div TIMER_FREQ_MHz
<1>1. TIME_TO_GET_OVERFLOW_MICRO \in Nat /\ value \div TIMER_FREQ_MHz \in Nat
  BY ConstantTypes DEF TIME_TO_GET_OVERFLOW_MICRO, Register
<1>2. total \in Int BY <1>1
<1> HIDE DEF total
<1>3. total % WORD \in 0 .. WORD - 1 BY <1>2, ConstantTypes
<1> QED BY <1>3 DEF TotalMicro, total

LEMMA InitEstablishesInv == Init => Inv
<1> SUFFICES ASSUME Init PROVE Inv OBVIOUS
<1> USE ConstantTypes DEF Init
<1>1. TimerTypeOK
  <2>1. /\ reg \in Register /\ turn \in 0 .. MaxTurn
        /\ currentTimerRegValue \in Register /\ sleep \in 0 .. DELAY
        /\ totalCurrentTimeMicro \in 0 .. WORD - 1
    BY DEF Register
  <2> QED BY <2>1 DEF TimerTypeOK
<1>2. OnlyTurnsCounted BY DEF OnlyTurnsCounted
<1> QED BY <1>1, <1>2 DEF Inv

LEMMA TickKeepsInv ==
  ASSUME Inv, Tick
  PROVE  Inv'
<1>1. /\ reg \in Nat /\ reg < PERIOD /\ turn \in Nat /\ turn <= MaxTurn
      /\ sleep \in Nat /\ sleep <= DELAY
      /\ currentTimerRegValue \in Nat /\ overflowCounter \in Nat
  BY ConstantTypes DEF Inv, TimerTypeOK, Register
<1>2. UNCHANGED <<task, totalCurrentTimeMicro, read>> BY DEF Tick
<1>3. TimerTypeOK'
  <2>1. reg' \in Register /\ turn' \in 0 .. MaxTurn /\ sleep' \in 0 .. DELAY
    BY <1>1, ConstantTypes DEF Tick, Register
  <2>2. polled' \in BOOLEAN BY DEF Tick
  <2> QED BY <1>2, <2>1, <2>2 DEF Inv, TimerTypeOK, task, read
<1>4. OnlyTurnsCounted'
  <2>1. \/ reg' = 0 /\ turn' = turn + 1
        \/ reg' = reg + 1 /\ turn' = turn
    BY DEF Tick
  <2> QED BY <1>1, <1>2, <2>1, ConstantTypes DEF Inv, OnlyTurnsCounted, task
<1> QED BY <1>3, <1>4 DEF Inv

LEMMA TimerKeepsInv ==
  ASSUME Inv, timerMain
  PROVE  Inv'
<1>1. /\ reg \in Nat /\ turn \in Nat /\ currentTimerRegValue \in Nat
      /\ overflowCounter \in Nat
  BY ConstantTypes DEF Inv, TimerTypeOK, Register
<1> USE ConstantTypes, <1>1 DEF Inv, read
<1>2. CASE ReadTimer BY <1>2 DEF ReadTimer, TimerTypeOK, OnlyTurnsCounted
<1>3. CASE TestEnd
  <2>1. TimerTypeOK' BY <1>3 DEF TestEnd, TimerTypeOK
  <2>2. OnlyTurnsCounted' BY <1>3 DEF TestEnd, SeesEnd, OnlyTurnsCounted
  <2> QED BY <2>1, <2>2
<1>4. CASE TestStart BY <1>4 DEF TestStart, SeesStart, TimerTypeOK, OnlyTurnsCounted
<1>5. CASE TestNeither BY <1>5 DEF TestNeither, TimerTypeOK, OnlyTurnsCounted
<1>6. CASE Report
  <2>1. totalCurrentTimeMicro' \in 0 .. WORD - 1
    BY <1>6, TotalMicroType DEF Report, TimerTypeOK
  <2>2. sleep' \in 0 .. DELAY BY <1>6 DEF Report, Delay
  <2>3. TimerTypeOK' BY <1>6, <2>1, <2>2 DEF Report, TimerTypeOK
  <2>4. OnlyTurnsCounted' BY <1>6 DEF Report, OnlyTurnsCounted
  <2> QED BY <2>3, <2>4
<1>7. CASE WakeUp BY <1>7 DEF WakeUp, TimerTypeOK, OnlyTurnsCounted
<1> QED BY <1>2, <1>3, <1>4, <1>5, <1>6, <1>7 DEF timerMain

LEMMA ReaderKeepsInv ==
  ASSUME Inv, getTimeMicro
  PROVE  Inv'
<1>1. CASE ReadTotal
  BY <1>1 DEF ReadTotal, Inv, TimerTypeOK, OnlyTurnsCounted, task
<1>2. CASE ReadRegister
  <2>1. reg \div TIMER_FREQ_MHz \in Nat
    BY ConstantTypes DEF Inv, TimerTypeOK, Register
  <2>2. stamp' \in Nat BY <1>2, <2>1 DEF ReadRegister, Inv, TimerTypeOK
  <2> QED BY <1>2, <2>2 DEF ReadRegister, Inv, TimerTypeOK, OnlyTurnsCounted, task
<1> QED BY <1>1, <1>2 DEF getTimeMicro

LEMMA InvHolds == Spec => []Inv
<1>1. Inv /\ [Next]_vars => Inv'
  <2> SUFFICES ASSUME Inv, [Next]_vars PROVE Inv' OBVIOUS
  <2>1. CASE UNCHANGED vars BY <2>1 DEF vars, task, read, Inv, TimerTypeOK, OnlyTurnsCounted
  <2> QED BY <2>1, TickKeepsInv, TimerKeepsInv, ReaderKeepsInv DEF Next
<1> QED BY <1>1, InitEstablishesInv, PTL DEF Spec

\* Every variable of the timer keeps its type; the total stays an int.
THEOREM TimerTypeCorrect == Spec => []TimerTypeOK
<1>1. Inv => TimerTypeOK BY DEF Inv
<1> QED BY <1>1, InvHolds, PTL

\* However long the task is kept from running between two polls, it counts no
\* turn of the register that did not happen (timerTask.c, timerMain).
THEOREM NoTurnCountedTwice == Spec => []CountsNoTurnTwice
<1>1. Inv => CountsNoTurnTwice BY DEF Inv, OnlyTurnsCounted, CountsNoTurnTwice
<1> QED BY <1>1, InvHolds, PTL

-----------------------------------------------------------------------------
(* No time stamp is ahead of the time.                                     *)

LEMMA TimesMonotone ==
  ASSUME NEW a \in Nat, NEW b \in Nat, NEW c \in Nat, a <= b
  PROVE  a * c <= b * c
OBVIOUS

LEMMA Division ==
  ASSUME NEW a \in Nat, NEW d \in Nat, d > 0
  PROVE  /\ a \div d \in Nat /\ (a \div d) * d <= a
         /\ a < ((a \div d) + 1) * d
OBVIOUS

\* The quotient is the largest number whose multiple is not more.
LEMMA DivisionIsLargest ==
  ASSUME NEW a \in Nat, NEW q \in Nat, NEW d \in Nat, d > 0, q * d <= a
  PROVE  q <= a \div d
<1> DEFINE p == a \div d
<1>1. p \in Nat /\ a < (p + 1) * d BY Division
<1> HIDE DEF p
<1>2. CASE q > p
  <2>1. (p + 1) * d <= q * d BY <1>1, <1>2, TimesMonotone
  <2>2. (p + 1) * d \in Nat /\ q * d \in Nat BY <1>1
  <2> QED BY <1>1, <2>1, <2>2
<1>3. q <= p BY <1>1, <1>2
<1> QED BY <1>3 DEF p

LEMMA DivisionMonotone ==
  ASSUME NEW a \in Nat, NEW b \in Nat, NEW d \in Nat, d > 0, a <= b
  PROVE  a \div d <= b \div d
<1>1. a \div d \in Nat /\ (a \div d) * d <= a BY Division
<1>2. (a \div d) * d \in Nat BY <1>1
<1>3. (a \div d) * d <= b BY <1>1, <1>2
<1> QED BY <1>1, <1>3, DivisionIsLargest

Micro == TIME_TO_GET_OVERFLOW_MICRO

LEMMA MicroOfATurn == Micro \in Nat /\ Micro * TIMER_FREQ_MHz <= PERIOD
<1>1. PERIOD - 1 \in Nat BY ConstantTypes
<1>2. Micro \in Nat /\ Micro * TIMER_FREQ_MHz <= PERIOD - 1
  BY <1>1, ConstantTypes, Division DEF Micro, TIME_TO_GET_OVERFLOW_MICRO
<1>3. Micro * TIMER_FREQ_MHz \in Nat BY <1>2, ConstantTypes
<1> QED BY <1>1, <1>2, <1>3, ConstantTypes

\* What the counter and the register stand for is not more than the time, for a
\* counter that has counted every turn.
LEMMA PartsAreNotAhead ==
  ASSUME NEW t \in Nat, NEW r \in Nat
  PROVE  t * Micro + r \div TIMER_FREQ_MHz <= (t * PERIOD + r) \div TIMER_FREQ_MHz
<1> DEFINE d == TIMER_FREQ_MHz
           m == r \div d
<1>1. d \in Nat /\ d > 0 /\ PERIOD \in Nat BY ConstantTypes
<1>2. m \in Nat /\ m * d <= r BY <1>1, Division
<1>3. Micro \in Nat /\ Micro * d \in Nat /\ Micro * d <= PERIOD BY <1>1, MicroOfATurn
<1> HIDE DEF d, m
<1>4. (Micro * d) * t <= PERIOD * t BY <1>1, <1>3, TimesMonotone
<1>5. (t * Micro + m) * d = (Micro * d) * t + m * d BY <1>1, <1>2, <1>3
<1>6. /\ (Micro * d) * t \in Nat /\ PERIOD * t \in Nat /\ m * d \in Nat
      /\ PERIOD * t = t * PERIOD
  BY <1>1, <1>2, <1>3
<1>7. (t * Micro + m) * d <= t * PERIOD + r BY <1>2, <1>4, <1>5, <1>6
<1>8. t * Micro + m \in Nat /\ t * PERIOD + r \in Nat BY <1>1, <1>2, <1>3
<1> QED BY <1>1, <1>7, <1>8, DivisionIsLargest DEF d, m

Ahead == LOW \div TIMER_FREQ_MHz

\* The total is of turns that have been, and of what the register had reached
\* when the last one was noticed; so is what getTimeMicro has read of it.
StampsAreBehind ==
  /\ timer_pc = "report" => currentTimerRegValue <= LOW
  /\ totalCurrentTimeMicro <= turn * Micro + Ahead
  /\ reader <= turn * Micro + Ahead
  /\ StampIsNotAhead

LEMMA TotalIsBehind ==
  ASSUME NEW counter \in Nat, NEW value \in Nat, NEW t \in Nat, counter <= t, value <= LOW
  PROVE  TotalMicro(counter, value) <= t * Micro + Ahead
<1> DEFINE x == counter * Micro
           v == value \div TIMER_FREQ_MHz
<1>1. Micro \in Nat /\ x \in Nat /\ t * Micro \in Nat BY MicroOfATurn
<1>2. x <= t * Micro BY <1>1, TimesMonotone
<1>3. v \in Nat /\ Ahead \in Nat /\ v <= Ahead
  BY ConstantTypes, Division, DivisionMonotone DEF Ahead
<1>4. TotalMicro(counter, value) = (x + v) % WORD BY DEF TotalMicro, Micro
<1> HIDE DEF x, v
<1>5. (x + v) % WORD <= x + v
  <2> DEFINE s == x + v
  <2>1. s \in Nat BY <1>1, <1>3
  <2> HIDE DEF s
  <2>2. s % WORD <= s BY <2>1, ConstantTypes
  <2> QED BY <2>2 DEF s
<1>6. (x + v) % WORD \in Int BY <1>1, <1>3, ConstantTypes
<1> QED BY <1>1, <1>2, <1>3, <1>4, <1>5, <1>6

\* Time passes: neither bound becomes smaller.
LEMMA BoundsGrow ==
  ASSUME NEW t \in Nat, NEW u \in Nat, NEW r \in Nat, NEW q \in Nat,
         t <= u, t * PERIOD + r <= u * PERIOD + q
  PROVE  /\ t * Micro + Ahead \in Nat /\ u * Micro + Ahead \in Nat
         /\ t * Micro + Ahead <= u * Micro + Ahead
         /\ (t * PERIOD + r) \div TIMER_FREQ_MHz \in Nat
         /\ (u * PERIOD + q) \div TIMER_FREQ_MHz \in Nat
         /\ (t * PERIOD + r) \div TIMER_FREQ_MHz <= (u * PERIOD + q) \div TIMER_FREQ_MHz
<1>1. /\ Micro \in Nat /\ t * Micro \in Nat /\ u * Micro \in Nat /\ t * Micro <= u * Micro
  BY MicroOfATurn, TimesMonotone
<1>2. Ahead \in Nat BY ConstantTypes, Division DEF Ahead
<1>3. t * PERIOD + r \in Nat /\ u * PERIOD + q \in Nat BY ConstantTypes
<1>4. /\ (t * PERIOD + r) \div TIMER_FREQ_MHz \in Nat
      /\ (u * PERIOD + q) \div TIMER_FREQ_MHz \in Nat
      /\ (t * PERIOD + r) \div TIMER_FREQ_MHz <= (u * PERIOD + q) \div TIMER_FREQ_MHz
  BY <1>3, ConstantTypes, Division, DivisionMonotone
<1> QED BY <1>1, <1>2, <1>4

LEMMA BoundsAreNat ==
  ASSUME NEW t \in Nat, NEW r \in Nat
  PROVE  /\ Ahead \in Nat /\ t * Micro + Ahead \in Nat
         /\ (t * PERIOD + r) \div TIMER_FREQ_MHz \in Nat
<1>1. t * PERIOD + r \in Nat BY ConstantTypes
<1>2. Ahead \in Nat BY ConstantTypes, Division DEF Ahead
<1>3. t * Micro \in Nat BY MicroOfATurn
<1> QED BY <1>1, <1>2, <1>3, ConstantTypes, Division

LEMMA StillBehind ==
  ASSUME NEW s \in Nat, NEW a \in Nat, NEW e \in Nat, NEW f \in Nat, s <= e + a, e <= f
  PROVE  s <= f + a
OBVIOUS

LEMMA StepKeepsStampsBehind ==
  ASSUME Inv, StampsAreBehind, [Next]_vars
  PROVE  StampsAreBehind'
<1>1. /\ reg \in Nat /\ reg < PERIOD /\ turn \in Nat /\ currentTimerRegValue \in Nat
      /\ overflowCounter \in Nat /\ overflowCounter <= turn
      /\ totalCurrentTimeMicro \in Nat /\ reader \in Int /\ stamp \in Nat
  BY ConstantTypes DEF Inv, TimerTypeOK, OnlyTurnsCounted, Register
<1>2. Ahead \in Nat /\ turn * Micro \in Nat /\ PERIOD \in Nat
  BY <1>1, ConstantTypes, Division, MicroOfATurn DEF Ahead
<1>3. stamp <= Elapsed + Ahead BY DEF StampsAreBehind, StampIsNotAhead, Ahead
<1>4. CASE Tick
  <2>1. /\ UNCHANGED <<timer_pc, currentTimerRegValue, totalCurrentTimeMicro, reader, stamp>>
        /\ \/ reg = PERIOD - 1 /\ reg' = 0 /\ turn' = turn + 1
           \/ reg' = reg + 1 /\ turn' = turn
    BY <1>4 DEF Tick, task, read
  <2>2. /\ reg' \in Nat /\ turn' \in Nat /\ turn <= turn'
        /\ turn * PERIOD + reg <= turn' * PERIOD + reg'
    BY <1>1, <1>2, <2>1
  <2>3. /\ turn * Micro + Ahead \in Nat /\ turn' * Micro + Ahead \in Nat
        /\ turn * Micro + Ahead <= turn' * Micro + Ahead
        /\ Elapsed \in Nat /\ Elapsed' \in Nat /\ Elapsed <= Elapsed'
    BY <1>1, <2>2, BoundsGrow DEF Elapsed
  <2>4. stamp <= Elapsed' + Ahead BY <1>1, <1>2, <1>3, <2>3, StillBehind
  <2> QED BY <1>1, <2>1, <2>3, <2>4 DEF StampsAreBehind, StampIsNotAhead, Ahead
<1>5. CASE Report
  <2>1. totalCurrentTimeMicro' <= turn * Micro + Ahead
    BY <1>1, <1>5, TotalIsBehind DEF Report, StampsAreBehind
  <2> QED BY <1>5, <2>1 DEF Report, StampsAreBehind, StampIsNotAhead, Elapsed, read
<1>6. CASE ReadTotal
  BY <1>6 DEF ReadTotal, StampsAreBehind, StampIsNotAhead, Elapsed, task
<1>7. CASE ReadRegister
  <2>1. reg \div TIMER_FREQ_MHz \in Nat BY <1>1, ConstantTypes, Division
  <2>2. turn * Micro + reg \div TIMER_FREQ_MHz <= Elapsed
    BY <1>1, PartsAreNotAhead DEF Elapsed
  <2>3. Elapsed \in Nat BY <1>1, BoundsAreNat DEF Elapsed
  <2>4. stamp' = reader + reg \div TIMER_FREQ_MHz /\ reader <= turn * Micro + Ahead
    BY <1>7 DEF ReadRegister, StampsAreBehind
  <2>5. stamp' <= Elapsed + Ahead BY <1>1, <1>2, <2>1, <2>2, <2>3, <2>4
  <2>6. -1 <= turn * Micro + Ahead BY <1>2
  <2> QED
    BY <1>7, <2>5, <2>6 DEF ReadRegister, StampsAreBehind, StampIsNotAhead, Elapsed, Ahead, task
<1>8. CASE ReadTimer \/ TestEnd \/ TestNeither \/ WakeUp
  BY <1>8 DEF ReadTimer, TestEnd, TestNeither, WakeUp, StampsAreBehind, StampIsNotAhead, Elapsed,
              read
<1>9. CASE TestStart
  BY <1>9 DEF TestStart, SeesStart, StampsAreBehind, StampIsNotAhead, Elapsed, read
<1>10. CASE UNCHANGED vars
  BY <1>10 DEF vars, task, read, StampsAreBehind, StampIsNotAhead, Elapsed
<1> QED BY <1>4, <1>5, <1>6, <1>7, <1>8, <1>9, <1>10 DEF Next, timerMain, getTimeMicro

\* Whatever is preempted between the two reads of getTimeMicro, and however the
\* total wraps, a time stamp is not later than the time (timerTask.c 31-50).
THEOREM StampsAreNeverAhead == Spec => []StampIsNotAhead
<1>1. Init => StampsAreBehind
  <2> SUFFICES ASSUME Init PROVE StampsAreBehind OBVIOUS
  <2>1. reg \in Nat /\ turn = 0 BY ConstantTypes DEF Init, Register
  <2>2. Ahead \in Nat /\ Elapsed \in Nat /\ turn * Micro + Ahead \in Nat
    BY <2>1, BoundsAreNat DEF Elapsed
  <2> QED BY <2>2 DEF Init, StampsAreBehind, StampIsNotAhead, Ahead
<1>2. StampsAreBehind => StampIsNotAhead BY DEF StampsAreBehind
<1> QED BY <1>1, <1>2, InvHolds, StepKeepsStampsBehind, PTL DEF Spec

-----------------------------------------------------------------------------
(* Every turn of the register is counted.                                  *)

\* The delay of the task, 76 seconds, is shorter than a turn, 79.5 seconds.
DelayIsShort == DELAY < PERIOD

\* A task that is not preempted sees every value of the register while it is
\* awake: the last one of a turn sets the flag, the first one of the next is
\* counted.  What it sleeps after that ends before the turn does.
EveryTurnSeen ==
  /\ timer_pc # "delay" => sleep = 0
  /\ timer_pc = "test" => currentTimerRegValue = reg
  /\ timer_pc \in {"read", "test"} =>
       /\ ~flagOverflow \/ reg >= HIGH => overflowCounter = turn
       /\ flagOverflow /\ reg < HIGH => reg = 0 /\ overflowCounter + 1 = turn
       /\ polled => (flagOverflow <=> reg >= HIGH)
  /\ timer_pc \in {"report", "delay"} => overflowCounter = turn /\ ~polled
  /\ timer_pc = "report" => reg = 0
  /\ timer_pc = "delay" => reg + sleep < PERIOD

SeenUnlessPreempted == ~preemptible => EveryTurnSeen

LEMMA StepKeepsEveryTurnSeen ==
  ASSUME DelayIsShort, Inv, SeenUnlessPreempted, [Next]_vars
  PROVE  SeenUnlessPreempted'
<1>1. preemptible' = preemptible
  BY DEF Next, Tick, timerMain, ReadTimer, TestEnd, TestStart, TestNeither, Report, WakeUp,
         getTimeMicro, ReadTotal, ReadRegister, vars, task
<1> SUFFICES ASSUME ~preemptible PROVE EveryTurnSeen' BY <1>1 DEF SeenUnlessPreempted
<1>2. EveryTurnSeen BY DEF SeenUnlessPreempted
<1>3. /\ reg \in Nat /\ reg < PERIOD /\ turn \in Nat /\ currentTimerRegValue \in Nat
      /\ overflowCounter \in Nat /\ sleep \in Nat
      /\ timer_pc \in {"read", "test", "report", "delay"}
  BY ConstantTypes DEF Inv, TimerTypeOK, Register
<1>4. timer_pc = "delay" => ~flagOverflow BY DEF Inv, OnlyTurnsCounted
<1>5. CASE Tick
  <2>1. UNCHANGED <<timer_pc, currentTimerRegValue, flagOverflow, overflowCounter>> /\ ~polled'
    BY <1>5 DEF Tick, task
  <2>2. sleep > 0 \/ (polled /\ timer_pc = "read") BY <1>5 DEF Tick
  <2>3. CASE timer_pc = "delay"
    <3>1. sleep > 0 BY <2>2, <2>3
    <3>2. reg + sleep < PERIOD /\ overflowCounter = turn BY <1>2, <2>3 DEF EveryTurnSeen
    <3>3. reg # PERIOD - 1 BY <1>3, <3>1, <3>2, ConstantTypes
    <3>4. reg' = reg + 1 /\ turn' = turn /\ sleep' = sleep - 1 BY <1>5, <3>1, <3>3 DEF Tick
    <3> QED BY <1>3, <2>1, <2>3, <3>2, <3>4, ConstantTypes DEF EveryTurnSeen
  <2>4. CASE timer_pc # "delay"
    <3>1. sleep = 0 /\ polled /\ timer_pc = "read" BY <1>2, <2>2, <2>4 DEF EveryTurnSeen
    <3>2. flagOverflow <=> reg >= HIGH BY <1>2, <3>1 DEF EveryTurnSeen
    <3>3. overflowCounter = turn BY <1>2, <3>1, <3>2 DEF EveryTurnSeen
    <3>4. sleep' = 0 BY <1>5, <3>1 DEF Tick
    <3>5. CASE reg = PERIOD - 1
      <4>1. reg' = 0 /\ turn' = turn + 1 BY <1>5, <3>5 DEF Tick
      <4>2. reg >= HIGH BY <1>3, <3>5, ConstantTypes
      <4>3. flagOverflow BY <3>2, <4>2
      <4> QED BY <1>3, <2>1, <3>1, <3>3, <3>4, <4>1, <4>3, ConstantTypes DEF EveryTurnSeen
    <3>6. CASE reg # PERIOD - 1
      <4>1. reg' = reg + 1 /\ turn' = turn BY <1>5, <3>6 DEF Tick
      <4>2. flagOverflow => reg' >= HIGH BY <1>3, <3>2, <4>1, ConstantTypes
      <4> QED BY <1>3, <2>1, <3>1, <3>3, <3>4, <4>1, <4>2, ConstantTypes DEF EveryTurnSeen
    <3> QED BY <3>5, <3>6
  <2> QED BY <2>3, <2>4
<1>6. CASE ReadTimer BY <1>2, <1>6 DEF ReadTimer, EveryTurnSeen
<1>7. CASE TestEnd
  <2>1. currentTimerRegValue = reg /\ reg >= HIGH /\ ~flagOverflow
    BY <1>2, <1>7 DEF TestEnd, SeesEnd, EveryTurnSeen
  <2> QED BY <1>2, <1>3, <1>7, <2>1, ConstantTypes DEF TestEnd, EveryTurnSeen
<1>8. CASE TestStart
  <2>1. currentTimerRegValue = reg /\ reg <= LOW /\ flagOverflow
    BY <1>2, <1>8 DEF TestStart, SeesStart, EveryTurnSeen
  <2>2. reg < HIGH BY <1>3, <2>1, ConstantTypes
  <2>3. reg = 0 /\ overflowCounter + 1 = turn /\ ~polled
    BY <1>2, <1>3, <1>8, <2>1, <2>2 DEF TestStart, EveryTurnSeen
  <2>4. sleep = 0 BY <1>2, <1>8 DEF TestStart, EveryTurnSeen
  <2> QED BY <1>3, <1>8, <2>3, <2>4 DEF TestStart, EveryTurnSeen
<1>9. CASE TestNeither
  <2>1. currentTimerRegValue = reg /\ sleep = 0 BY <1>2, <1>9 DEF TestNeither, EveryTurnSeen
  <2>2. reg >= HIGH => flagOverflow BY <1>9, <2>1 DEF TestNeither, SeesEnd
  <2>3. flagOverflow => reg > LOW BY <1>3, <1>9, <2>1, ConstantTypes DEF TestNeither, SeesStart
  <2>4. flagOverflow => reg >= HIGH
    BY <1>2, <1>3, <1>9, <2>3, ConstantTypes DEF TestNeither, EveryTurnSeen
  <2> QED BY <1>2, <1>9, <2>1, <2>2, <2>4 DEF TestNeither, EveryTurnSeen
<1>10. CASE Report
  <2>1. reg = 0 /\ overflowCounter = turn /\ ~polled BY <1>2, <1>10 DEF Report, EveryTurnSeen
  <2>2. DELAY < PERIOD BY DEF DelayIsShort
  <2>3. reg + DELAY < PERIOD BY <2>1, <2>2, ConstantTypes
  <2> QED BY <1>10, <2>1, <2>3 DEF Report, Delay, EveryTurnSeen
<1>11. CASE WakeUp
  <2>1. overflowCounter = turn /\ ~polled /\ ~flagOverflow
    BY <1>2, <1>4, <1>11 DEF WakeUp, EveryTurnSeen
  <2> QED BY <1>11, <2>1 DEF WakeUp, EveryTurnSeen
<1>12. CASE getTimeMicro
  BY <1>2, <1>12 DEF getTimeMicro, ReadTotal, ReadRegister, task, EveryTurnSeen
<1>13. CASE UNCHANGED vars BY <1>2, <1>13 DEF vars, task, EveryTurnSeen
<1> QED BY <1>5, <1>6, <1>7, <1>8, <1>9, <1>10, <1>11, <1>12, <1>13 DEF Next, timerMain

\* Wherever in a turn the task starts, and however the sleep and the windows
\* fall, it misses no turn while nothing keeps it from polling (timerTask.c,
\* timerMain; the delay is that of line 26).
THEOREM NoTurnMissed == DelayIsShort => (Spec => []CountsEveryTurn)
<1> SUFFICES ASSUME DelayIsShort PROVE Spec => []CountsEveryTurn OBVIOUS
<1>1. Init => SeenUnlessPreempted
  <2> SUFFICES ASSUME Init PROVE SeenUnlessPreempted OBVIOUS
  <2>1. reg \in Nat BY ConstantTypes DEF Init, Register
  <2> QED BY <2>1 DEF Init, SeenUnlessPreempted, EveryTurnSeen
<1>2. Inv /\ SeenUnlessPreempted => CountsEveryTurn
  <2> SUFFICES ASSUME Inv, EveryTurnSeen, reg > LOW PROVE overflowCounter = turn
    BY DEF SeenUnlessPreempted, CountsEveryTurn
  <2>1. reg \in Nat /\ timer_pc \in {"read", "test", "report", "delay"}
    BY ConstantTypes DEF Inv, TimerTypeOK, Register
  <2>2. reg # 0 BY <2>1, ConstantTypes
  <2> QED BY <2>1, <2>2, ConstantTypes DEF EveryTurnSeen
<1>3. Inv /\ SeenUnlessPreempted /\ [Next]_vars => SeenUnlessPreempted'
  BY StepKeepsEveryTurnSeen
<1> QED BY <1>1, <1>2, <1>3, InvHolds, PTL DEF Spec
=============================================================================
