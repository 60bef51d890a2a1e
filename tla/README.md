# A verification development of the distributed railway interlocking system

TLA+ models, TLC runs and TLAPS proofs for the program in `src/`: a railway
interlocking without a central computer, in which every track element is watched
by a Raspberry Pi under VxWorks (`src/Interlocking_system`), a train reserves its
route from the elements themselves by a two-phase commit along the route, and a
host PC (`src/host_script`) configures the nodes, plays the trains and collects
the logs.

File names below are relative to `src/Interlocking_system/src` unless they say
otherwise.

## 1. Inventory

### Components, their state and operations

| component | state | operations | model |
|---|---|---|---|
| railway topology (`host.py` `Route`, `Graph`; `initTask.c`) | none, fixed by the configuration | neighbours of an element on a route, who is a switch, who connects to whom | `Routes` |
| control task (`controlTask.c`) | `NODE_STATUS`, `current_route`, `railswitch`, `flagDiagnOn`, the message in hand | loop: sensors, verdict of the diagnostics, one message of `IN_CONTROL_QUEUE` | `Interlocking`, `Diagnostics`, `Communication` |
| communication task (`wifiTask.c`) | connections, `total_conn`, `CURRENT_HOST` | loop: `checkDiag`, read every ready connection, cut what was read into messages and dispatch them, send one message of `OUT_CONTROL_QUEUE` | `Communication` (bytes and tasks), `Interlocking` (dispatch), `Diagnostics` (pings), `Startup` (opening) |
| positioning task (`positioningTask.c`) | `railswitch.in_position` | move the switch, maybe fail, resume the control task | `Interlocking`, `Communication` |
| diagnostics task (`diagnosticsTask.c`) | `ping_status`, `ping_answers`, `ping_success`, `diag_ended`, `diag_success` | start a round of pings, wait two seconds, read the outcome, leave the verdict | `Diagnostics` |
| init task (`initTask.c`) | the node's place in the start protocol | fetch the configuration, connect to the elements before, accept those after, confirm, start the tasks | `Startup`, `Log` (its wait for the log task) |
| host PC (`host.py`) | connections, counters of the automatic test | `server_loop`, the polling thread, the keyboard thread | `Interlocking`, `Startup` |
| timer task (`timerTask.c`) | `overflowCounter`, `totalCurrentTimeMicro` | count the turns of a register by polling it, `getTimeMicro` | `Timer` |
| log task (`logTask.c`), transfer (`processLogToSend`), `log.py` | `LOG_QUEUE`, `log.txt`, its copy, the offset of `LOG_FD` | queue an entry, write it, copy the file with the log task suspended, send it, save it | `Log` |
| destructor task (`destructorTask.c`) | none | end the other tasks by a signal before a reload | `Communication`, the tasks that hold something; partly |
| sensors with a button, LED (`gpio.c`) | level of a pin | read the button; show the status | the button in `Interlocking`; partly |
| entry points, error texts (`dkm.c`, `errors.c`) | how the system is set up | `startInit` | `setting` of `Interlocking`; partly |
| `virtualized_raspberry` | an early Linux port without the commit protocol | its connection phase | a flag of `Startup`; partly |
| `connect`, scripts that build and evaluate logs | tooling | | not modelled |

### How they interact

The communication task turns bytes into messages. A commit message (`REQ`, `ACK`,
`COMMIT`, `AGREE`, `TRAIN_OK`, `NOT_OK`, `SENSOR_OFF`) is queued for the control
task if the node is free or already serves the message's train (`CURRENT_HOST`,
under `WIFI_CONTROL_SEM`), and answered with a `NOT_OK` otherwise. A `SENSOR_ON`
only sets `sensor_on_detected`. The control task drives the element's status:
`NOT_RESERVED`, three waiting states of the commit, `RESERVED`,
`TRAIN_IN_TRANSITION`, and two failure states. Its answers go through
`OUT_CONTROL_QUEUE` back to the communication task. On a switch the commit's last
phase starts the positioning task while the control task is suspended. Two seconds
without a message (and without a round under way) the control task starts the
diagnostics task, which has the communication task ping all neighbours. Every
task stamps what it logs with `getTimeMicro` and puts it into `LOG_QUEUE`; on
request the communication task starts a transfer, which suspends the log task
while it copies the file.

### What is hard here

- Commits of several trains run at once through a shared switch, in any order of
  the messages of different connections, with rejections that cross grants.
- `CURRENT_HOST`, `current_route` and `NODE_STATUS` are three pieces of state that
  two tasks change at different moments; each message overwrites `current_route`.
- A message the status does not expect is only logged, so that somebody may wait
  for an answer that never comes. The protocol has no timeouts.
- Positioning and the diagnostics fail in the middle of a reservation.
- Messages are cut and merged by the network, and connections end while the array
  of connections is scanned.
- Tasks suspend themselves after they have started whoever is to resume them, hold
  a semaphore while they wait for a queue, and are deleted wherever they are.
- The rounds of the diagnostics share counters that are reset by different tasks,
  and count against a number of connections that may change.
- Time is the sum of a counter and a register that are read at different moments.
- The transfer shares a file offset with the task it suspends, makes nine calls that may
  fail, and marks the log's end inside the log.
- The start is a chain of blocking reads and accepts over the whole railway.

`PROJECT.json` lists each hazard at its line, with the properties that would catch it.

### What makes each component correct

- Locking: whoever sees an element locked knows that everything ahead is locked for
  the same route and set for it; conflicting routes exclude each other; elements
  are released behind the train and never ahead of it.
- Commit: each request is answered, nobody stays in a waiting state, elements
  become available again, a failed element never serves again, nobody follows a
  route it does not know.
- Sensors: no element believes in a train that was not let in.
- Communication: what is sent is served once and in order, the tasks wait for each
  other only when there is more to serve than a queue holds, a reload ends them.
- Diagnostics: a success is genuine, a failure has a cause, a silent neighbour is
  detected.
- Time: each turn of the register is counted once, and no stamp is ahead of time.
- Log: what is logged is written, what is copied is the log, and no transfer leaves
  a task suspended or the host PC waiting.
- Start: the host PC's announcement is true, and everybody gets started.

## 2. Modules

| module | content |
|---|---|
| `Routes` | the railway and its derived topology |
| `RouteLocking` | abstract specification: elements of a route are locked from tail to head and unlocked from head to tail |
| `Interlocking` | all nodes, queues and connections during reservations, with the host PC; `Locking == INSTANCE RouteLocking WITH lock <- ...` and `LocksHandOverHand == Locking!LockSpec` state that it implements `RouteLocking` |
| `Communication` | the tasks of one node and the bytes between its neighbours and its control task; reload |
| `Diagnostics` | one node's three tasks and its neighbours during rounds of pings |
| `Startup` | all init tasks and the host PC until the tasks start |
| `Timer` | the time of a node |
| `Log` | one node's log, its transfer and the receiving thread of the host PC |
| `MCInterlocking`, `MCRouteLocking`, `MCCommunication`, `MCDiagnostics`, `MCStartup`, `MCTimer`, `MCLog` | instances for TLC |
| `RouteLockingProofs`, `DiagnosticsProofs`, `TimerProofs`, `LogProofs`, `StartupProofs`, `CommunicationProofs` | theorems about the module each is named after |
| `InterlockingProofs`, `LockingProofs` | theorems about `Interlocking`: for every script and for one train; and the refinement of `RouteLocking` |

A definition whose comment begins with "Faulty:" is a variant of the definition after
it, as a plausible bug would make it. No specification uses one; with it in place
of the right one the property named for it in `PROJECT.json` is violated.

### `Interlocking` and the code

Variables carry the names of the code; all but the queues and connections are
functions over the nodes. `control_pc` says where the control task is in its loop:

- `"sensors"`: the head of the loop (`controlTask.c` 192-250). It only does anything
  in `RESERVED` and `TRAIN_IN_TRANSITION`, so other iterations start at `"message"`.
- `"message"`: verdict of the diagnostics (`DiagFailed`) and one message. Each case of
  the switch on `NODE_STATUS` and `command` is an action (`HandleReq` ...
  `AnswerFailSafe`, `HandleErrorMsg` for what is only logged).
- `"reset"`: a forwarded message is already queued but `resetNodeStatus` was not
  called yet. In between the communication task still accepts messages for the old
  train; this window is part of the code (239-240, 374-378) and of the model. In the
  NOT_OK branch the reset comes before the sends, and is one step.
- `"suspended"`, `"resumed"`: the control task waits for the positioning task, or goes on.
- `"crashed"`: a relayed `SENSOR_OFF` with `current_route` a null pointer.

`setting` is how the system was set up and is used, chosen once from `Settings`: the
script of the operator, whether `host.py` runs its automatic test, whether
sensors are messages or buttons (`SIM_SENSOR`), whether positioning may fail
(`PROB_ERROR`) and whose diagnostics may.

`HandleInSingleMsg` is one step because the task holds `WIFI_CONTROL_SEM` from the
test of `CURRENT_HOST` until the message is queued. `HostCommand` is the keyboard
thread with a script (`commands`), each line typed at most once and at any moment;
the ten-second pause after a command (`host.py` 211) is left out, since nothing
bounds a commit to ten seconds. `HostReceive` is the polling thread; on a `TRAIN_OK`
the train departs, sent by the automatic test itself or by the operator who is shown
the message. Nodes never look at the train and route fields of a `SENSOR_ON`.

With buttons the train itself is part of the model: `TrainEnters` presses the button of
a reserved element while it is still on the one behind, `TrainLeaves` lets that one
go, and `ButtonOn`, `ButtonOff` are what the control tasks make of it. No message tells
an element of the train then. Trains drive where their own route is reserved: with two of
them on a route, the one on the element behind is the one this element waits for when both
serve the same train (`ItsTrainIsOn`).

Modelling decisions a reader should know:

- `last_route_id` and `current_route` start as `NULL` (0 and a null pointer in the
  code); a `CURRENT_HOST` of -1 can travel in a message, and does in the model.
- `PassageIsOver`: a passage takes `SIM_SENSOR_OFF_TIME`, two to ten seconds; the reset of
  the node behind it is one semaphore away. The model lets no passage end while a node
  is at `"reset"`. `Noticed` is the same assumption for a train on buttons: it stays on an
  element for longer than a loop of the control tasks takes. These are the only timing
  assumptions of `Interlocking`.
- The queues are unbounded here, and the runs keep them short because the script is
  finite; `Communication` has their bound.
- The verdict of the diagnostics is an input (`DiagFailed`, for the nodes of
  `PingFailNodes`), so that it can come at any moment; `Diagnostics` says when it does.
- Connections neither break nor merge messages; `Communication` has that.
- The status `POSITIONING` is declared (`includes/controlTask.h`) but never set.

### `Communication` and the code

One node, and messages without content: only the train the node serves sends them.
A message on a connection is two pieces, `head` and `tail`, and a read (`ReadFromConn`,
`recv` at `wifiTask.c` 763) returns up to `RECV` of them, so that it may end inside a
message or hold several. `Parse` is `handleInMsgs` and `handleInSingleMsg` on what was
read. Where inside its text a message was cut decides what its end is taken
for, and that is a choice: nothing but the full stop (the rest is taken for a
message, or everything is given up), something without a command and its data (an
error), or a message with a command nobody knows. What of it reaches the control task
is `Unknown`, and only logged there (`controlTask.c` 468). `whole`, chosen once, says that
reads return whole messages, as they do when the network is quick.

`Select`, `NotReady`, `ReadFromConn`, `Disconnection`, `ScannedAll` are the scan of the connections
(752-806). `Disconnection` removes the connection and still goes on with the next index, so that
the one which moved up is not looked at in this loop. `TakeSem` and `QueueMsg` are
`semTake(WIFI_CONTROL_SEM)` and the `msgQSend` that may wait under it. A loop of the control task
starts with the sensors: `TestSensorOn` takes the semaphore in `RESERVED` (200), `SensorOff` ends a
passage. For a message (`ReceiveMsg`) it has `duties`, in the order in which the code does them:
each `"send"` is one `msgQSend` to the other queue, which may wait (`forwardMsg`, of which
`forwardNotOk` makes up to two), each `"reset"` takes the semaphore (`resetNodeStatus`). `Duties`
lists what the branches of the message dispatch amount to; of `NODE_STATUS` only what decides about
the semaphore is told apart. `ActivatePositioning`, `SuspendControl`, `StartPositioning` and
`EndPositioning` are the hand-over to the positioning task: a `taskResume` that comes before the
`taskSuspend` has no effect. It never does, because both tasks are created with one priority on one
core (`ControlIsWaiting`, the assumption the code relies on).

Both tasks wait for ever where a queue is full: the communication task keeps the semaphore while
it waits for room in `IN_CONTROL_QUEUE` (631), and empties `OUT_CONTROL_QUEUE` only when it is
through with what it has read. `Jammed` is the state in which the control task then needs the
semaphore, for a reset or for the sensor, or room in `OUT_CONTROL_QUEUE`. The code does not
exclude it, it only has long queues (50000 messages, `initTask.c` 283).

`RefuseClose`: `CLOSE` is only ever sent without data (582), and `handleInSingleMsg` refuses
a message without data (516-522) before it compares the command, although the note
at 515 wants to let `CLOSE` through. The branch it was meant for is out of reach and
is not modelled.

`KillWifi` and `KillControl` are `destructorMain`, `wifiDestructor` and `controlDestructor` the
signal handlers. Handlers run at the next step of the task, wherever it is, but
not while it is suspended. As in VxWorks without deletion safety, a mutex that a deleted
task holds stays taken.

### `Diagnostics` and the code

`StartDiagn` and `CheckVerdict` are the control task (294-367), `StartPing`, `StopPing` and
`WriteVerdict` the three critical sections of `diagnosticsMain`, `SendPings` and `EndPings` the
cases of `checkDiag`, `HandlePingAck` and `Disconnection` the communication task's reads.
`WIFI_DIAG_SEM` is a recursive VxWorks mutex: when `handleInSingleMsg` returns without giving it
back, the communication task itself goes on and only the diagnostics task stops; the model keeps
`"wifi"` in the variable then. A neighbour is up, silent (nothing was closed) or closed, and may
answer late or, as `host.py` does when a ping is not read alone, not at all. `missed` is a history
variable. Assumptions, each named by the guard it is in: two rounds are `DIAG_TIME` (2 s) apart,
far longer than one loop of the communication task (`StartDiagn` needs `ping_status # "ENDING"`;
its second branch is the error of `startDiagn`, 157-170, after which `flagDiagnOn` is set although
no task was started, so that none ever is: `MayNotStart`); the pings leave within the two seconds
and a late answer is late by less than a round (`TwoSeconds`, which is also the bound on the
counters). What a silent neighbour leaves unread counts once.

### `Startup` and the code

`AskConfig` to `StartConnecting` are the handshake with the host PC, `Connect`, `Connected`
and `ConnectFails` the client phase (218-227), `Accept` the server phase,
`ReadConfirmation` and `InitDone` lines 248-260, the `Host...` actions `server_loop`. Busy
retries of a refused connection are stuttering. The host PC's loops over all nodes that
only wait are one step guarded by what they wait for. The order of a node's previous
elements is left open; that of its connections is not (`node_conn` is a sequence, read by
index as `getConnByIndex` does). A read takes all that has arrived. Two nodes have one
connection, so that neighbours are in one direction only (`StartupAssumption`): were each before
the other, each would wait for the other to listen. Routes that form a longer cycle are
not excluded by the model; `RoutesInOrder` says that they form none.

`virtualized`, chosen once, is the build of `src/virtualized_raspberry`. Its start is the
prototype's, line by line, but for one thing: its `connectToServer` returns the same error
for a refusal as for everything else (its `wifiTask.c` 59), so that the loop which is to
try again never does, and a node that asks before the other side listens goes on
without the connection (`Refused`).

### `Timer` and the code

`reg` is `sysTimestamp()`, `turn` how often it has started again, and a `Tick` a step of it.
`ReadTimer`, `TestEnd`, `TestStart`, `TestNeither`, `Report` and `WakeUp` are the loop of
`timerMain`; `ReadTotal` and `ReadRegister` the two reads of `getTimeMicro`, between which anything
may happen. `TotalMicro` has the width of the C expression: a product of `int`s in an unsigned sum,
modulo `WORD`. A task that is not preempted polls between two steps of the register (`polled`): a
step stands for as many microseconds as an iteration takes. `preemptible`, chosen once, lets the
register run ahead of the task, as tasks of higher priority can make it.

### `Log` and the code

An entry is one cell of a file, of a buffer or of the connection, and its number is
the order of logging. `BLOCK` and `SO_SNDBUF` are how many of them a read of the copying
and of the sending loop returns. `GiveUp` and `GiveUpSending` are the error exits of
`processLogToSend`, one for each call of `MayFail`. `SendBlock` says what the buffer really
holds when it is sent with `strlen`: behind a last, shorter read follows what was there before,
and behind a full buffer 34 bytes that are not its own, which `log.py` cuts out of every
4131 (`Clean`). `HostSaves` is the end of `receiveAndSaveLog`: the log is cut behind the last
entry that announces a transfer (`UpToLastStart`). Assumption: `taskDelay(5)` is long
enough for the host PC to have read `[START_SENDING]` (`DelayOver`). `AwaitLog` and
`ResumeInit` are the hand-over between the init task and the log task, which run on different
cores, so that the resume can be lost.

## 3. Runs

The railway of `Interlocking` and `Startup` is `graph_testing3` of `host.py`, the one of the
repository's README and of the automatic test: routes `<<1, 2, 3>>` and `<<4, 2, 5>>` cross at
switch 2. It is small but has every role: a first and a last linear element on each
route, and a switch that is shared, in the middle, and must be moved between the
routes. Two trains are enough for every conflict of the protocol: an element only
compares a message's train with its own. Each command of the script can be
typed at any moment, which covers every overlap of the second command with the
phases started by the first.

| run | instance | what it shows |
|---|---|---|
| `Trains` | eight settings, below | locking is hand over hand, the way ahead is locked up to a failed element, every switch ahead is set, no phantom train, engaged elements know their train; requests are answered, nobody waits for ever or follows a route it does not know, a failed switch stays out of use; the automatic test ends with a free railway |
| `RouteLocking` | four routes, two of them in opposite directions over two switches | the abstract locking: way ahead locked, conflicting routes exclusive |
| `Diagnostics` | three neighbours: late, without answer, silent, disconnected; rounds that do not start | verdicts are right while no connection is lost |
| `Startup` | five nodes of either build in any order, two may fail to connect | the announcement is true; the system starts |
| `Timer` | a register of 13 values that turns five times, with and without preemption | no turn is counted twice, none is missed without preemption, no time stamp is ahead of the time |
| `Log` | two tasks with two entries each, two transfers, any call may fail | the copy is consistent and what the host PC saves as a success is the log up to the announcement of the transfer; nothing stays suspended or waiting |
| `Communication` | two neighbours with two messages and one, one of which also disconnects or closes; queues of one message; a reload | messages are served once and in order, the tasks jam only over a backlog longer than the queue and do not stall otherwise, a reload ends them |
| `RouteTakenOver` (violation) | one train asks for both routes | the second request overwrites the route of a locked element |
| `ClaimedAfterAbort` (violation) | a withdrawn request, nothing fails | a late `ACK` claims for ever an element that the `NOT_OK` has freed |
| `SilentUndetected` (violation) | one neighbour silent, one lost | a lost connection makes the diagnostics stop for good |
| `TimeGoesBack` (violation) | as `Timer` | a time stamp between the turn of the register and its count |
| `LogDuplicated` (violation) | as `Log`, nothing fails | what the buffer held before is saved a second time |

The settings of `Trains` (`MCInterlocking`), between which the initial state chooses:

| setting | question |
|---|---|
| `AutoTest` | `host.py`'s automatic test, one train over both routes in turn |
| `Buttons` | two trains on the same route that are noticed by buttons instead of messages |
| `TwoTrains` | conflicting requests at once, positioning may fail |
| `SameRoute` | a second train on the same route, before, during or after the first |
| `Misaddressed` | a request for a route the node is not on |
| `Withdrawn` | a request that is withdrawn, positioning may fail |
| `PingFail` | the same, and the diagnostics of the switch may fail as well |
| `EndsFail` | one train, whose route is not withdrawn; the diagnostics of both ends of its route may fail, also while it is on them |

A property that cannot hold in some setting names the ones it is about: `WellAddressed`,
`OneRequestEach`, `PingFailNodes = {}`. Where the diagnostics may fail there is no order of
locking, because `PING_FAIL_SAFE` overwrites a locked status on purpose (`LockOf`); what is left
of it there is `WayAheadLockedOrFailed`.
With two trains and a failed element the nodes can exchange `NOT_OK`s without end
(`wifiTask.c` 611 answers a `NOT_OK` with a `NOT_OK`, `controlTask.c` 549 too), so that
`PingFail` has one train.

Bounds, and why they are enough:

- `Trains`: the commands of the script; one further request per route in the
  automatic test (`ROUTES_TO_TEST`, 1000 and more in `host.py`: the railway is back in its
  initial state up to the position of the switch after each, and both positions occur).
- `Diagnostics`: three neighbours are the fewest for which one can be lost while another is
  outstanding and a third answers; one late ping per neighbour (`TwoSeconds`).
- `Timer`: three steps to the microsecond, so that the divisions of the code round, two and
  three values at the ends the task looks for, a delay longer than half a turn and shorter than
  one, an `int` that wraps after four turns, `MaxTurn` one more than that.
- `Log`: a queue of two entries fills; a block of two and a buffer of three entries make the last
  read of either loop a full or a shorter one, over logs of up to eight entries; the second
  transfer copies a log that contains the announcement and the success of the first.
- `Communication`: `RECV = 3` pieces cut a message in its middle and hold one and a half. `QUEUE =
  1` stands for 50000 (`MAX_LOG_BUFF`): with three messages to come both queues fill, and the run
  reaches `Jammed` in each of its three forms, the control task before a reset, before the sensor
  and before its own full queue. That a longer queue keeps the order too is a theorem
  (`MessagesAreServedInOrder`). Two neighbours are the fewest for which the scan skips one.

Deadlock is not checked in the runs where the system rightly stops: the trains have
passed and nobody types, the start is over, the register has turned as often as the bound allows,
nobody logs or sends any more, or the diagnostics of a node that is already
out of service are stuck.

### Fairness

Weak fairness of every task of every node, of the delivery on every connection, of the host PC's
threads and of the positioning task: each is a loop at a fixed priority that sleeps or waits every
iteration, so none starves another. Strong fairness of `SensorOff`, the end of a passage: it
depends on the clock only, while its action is disabled again and again by the rest of the loop. A
train on buttons does not stop for ever. The operator is not fair, except that the automatic test's
first request is sent. In `Diagnostics` neighbours that are up read their pings eventually, in
`Startup` all nodes are switched on. In `Communication` and `Log` nobody has to send, to close, to
reload or to start a transfer; what is started goes on. Where a node is `Jammed`, for which nothing
goes on, the liveness properties of `Communication` make an exception. `Timer` has only safety
properties.

### Findings

1. `RouteTakenOver`. `controlTask.c` 393 sets `current_route` before the status is looked at. A
   `REQ` of the same train for another route takes over a `RESERVED` or occupied switch:
   its sensors then report the train to the other route's next element.
2. `ClaimedAfterAbort`. `wifiTask.c` 607 claims a free node for any commit message, also one the
   control task then only logs; nobody releases the claim. `ItineraryReleased` asks of elements
   that took part in the reservation only that they are not claimed for ever once they are
   `NOT_RESERVED` again. The counterexample: element 3 has sent its `ACK` when the `NOT_OK` of the
   operator, on its way from element 1 to the tail, frees 2 and then 3; the `ACK` reaches 2 and
   claims it. With a claim for a `REQ` only, nothing else changed, the property holds in the same
   setting. The same happens with stray `NOT_OK`s after two trains competed, and, the other way
   round, `resetNodeStatus` can clear the claim of a train whose next request is already queued.
3. `SilentUndetected`. `wifiTask.c` 559 returns with `WIFI_DIAG_SEM` held. A disconnection in the
   middle of a round makes a legitimate answer one too many: the diagnostics then never
   run again, on a node that is in service.
4. `TimeGoesBack`. `timerTask.c` 40 adds the register, which has started again, to a total that
   does not contain its last turn yet: the time is 79.5 seconds too small until the timer task has
   seen the new turn. (The total also wraps after 54 turns, 72 minutes.)
5. `LogDuplicated`. `wifiTask.c` 427 sends the buffer of the last, shorter read up to its first
   zero byte, with what it held before; `log.py` cuts the log behind the last announcement
   of a transfer, which may be in that part.

Also met, without a run of its own: `handleErrorMsg` (`controlTask.c` 468) drops a `REQ` that
reaches an element in the middle of another reservation of the same train, so that such a request
is never answered (`RequestAnswered` holds for the scripts of `Trains`, of which none has two
routes of one train). A reload that hits the communication task between `wifiTask.c` 605 and 633
leaves `WIFI_CONTROL_SEM` taken, and the control task's handler waits for it for ever
(`ReloadEndsTheTasks` makes the exception). A neighbour that disconnects is taken out of the pings
(`wifiTask.c` 791), so that the node stays in service without it; only the LED shows the loss.
`wifiTask.c` 519 refuses `CLOSE` because it has no data, although the comment above it lists
`CLOSE` among the commands that need none (`RefuseClose`). A request for a route that the element
is not on leaves `current_route` a null pointer, and the next `SENSOR_OFF` that the element is to
pass on crashes its control task (`controlTask.c` 379; `NobodyCrashes` is about well-addressed
requests).

## 4. Proofs

Checked by `tlapm` for every railway, set of trains, number of neighbours, width of the register,
length of the log and every other constant that satisfies the named assumptions:

- `RoutesAssumption` (routes are non-empty, repeat no element, the host and the tail are not
  elements), `NoRouteEndsWithSwitch` (the comment at `initTask.c` 232: "no route can end with a
  switch");
- `InterlockingAssumption`, `RouteLockingAssumption`, `DiagnosticsAssumption`, `TimerAssumption`,
  `LogAssumption` and `CommunicationAssumption`: the types of the constants, that neighbours are
  finitely many, and that queues and reads have some length;
- `StartupAssumption`: finitely many nodes, no two of which are each before the other.

TLC evaluates all of them in the runs. Some theorems have a hypothesis of their own, each with
instances among the runs:

- `Scripted`: any number of trains, noticed by buttons; every train asks once, at the head of its
  route, nobody withdraws, no diagnostics fail; positioning may fail at any switch (the setting
  `Buttons` of `Trains`);
- `OneTrain`: simulated sensors, and one train: the operator types at most one request, at the head
  of a route, and so does every request of the automatic test, which the host PC makes when the
  train has left; positioning and the diagnostics of any element may fail at any moment (the
  settings `AutoTest` and `EndsFail`);
- `AsksOnce`: `OneTrain` without the automatic test, and the request names its train (`EndsFail`);
- `RoutesInOrder`: every element is on a route and the routes form no cycle (the instance of
  `Startup`);
- `DelayIsShort`: the timer task sleeps 76 s, less than the 79.5 s of a turn (the instance of
  `Timer`).

None bounds the number of elements or routes.

| theorem | statement |
|---|---|
| `InterlockingProofs!TypeCorrect` | `Spec => []TypeOK` |
| `InterlockingProofs!SwitchesStayPut` | `Spec => []LockedSwitchInPosition` |
| `InterlockingProofs!FailedStaysFailed` | `Spec => FailSafeLatched` |
| `InterlockingProofs!NoPhantomOfOneTrain` | `Spec /\ OneTrain => []NoPhantomTrain` |
| `InterlockingProofs!NobodyCrashesOfOneTrain` | `Spec /\ OneTrain => []NobodyCrashes` |
| `InterlockingProofs!WayAheadOfOneTrain` | `Spec /\ OneTrain => []WayAheadLockedOrFailed` |
| `InterlockingProofs!SwitchesAheadOfOneTrain` | `Spec /\ OneTrain => []SwitchesAheadAreSet` |
| `InterlockingProofs!LockedRouteOfOneTrain` | `Spec /\ OneTrain => LockedRouteIsKept` |
| `InterlockingProofs!EngagedOfOneTrain` | `Spec /\ AsksOnce => []EngagedIsOwned` |
| `LockingProofs!CommitLocksHandOverHand` | `Spec /\ (Scripted \/ OneTrain) => LocksHandOverHand`: `Interlocking` implements `RouteLocking` |
| `LockingProofs!WayAheadStaysLocked` | `Spec /\ (Scripted \/ OneTrain) => []Locking!WayAheadLocked` |
| `LockingProofs!ConflictsStayExcluded` | `Spec /\ (Scripted \/ OneTrain) => []Locking!NoConflictingRoutes` |
| `LockingProofs!WayAheadOfTrains` | `Spec /\ Scripted => []WayAheadLockedOrFailed` |
| `LockingProofs!SwitchesAreSetAhead` | `Spec /\ Scripted => []SwitchesAheadAreSet` |
| `LockingProofs!EngagedElementsAreOwned` | `Spec /\ Scripted => []EngagedIsOwned` |
| `LockingProofs!LockedRouteStays` | `Spec /\ Scripted => LockedRouteIsKept` |
| `RouteLockingProofs!WayAheadIsLocked` | `LockSpec => [](LockTypeOK /\ WayAheadLocked)` |
| `RouteLockingProofs!LockTypeCorrect` | `LockSpec => []LockTypeOK` |
| `RouteLockingProofs!ConflictingRoutesExcluded` | `LockSpec => []NoConflictingRoutes` |
| `CommunicationProofs!CommTypeCorrect` | `Spec => []CommTypeOK` |
| `CommunicationProofs!MessagesAreServedInOrder` | `Spec => []ServedInOrder` |
| `CommunicationProofs!TheNodeJamsOnlyOfABacklog` | `Spec => []OnlyABacklogJams` |
| `DiagnosticsProofs!DiagTypeCorrect` | `Spec => []DiagTypeOK` |
| `DiagnosticsProofs!SuccessesAreGenuine` | `Spec => []SuccessIsGenuine` |
| `DiagnosticsProofs!EveryFailureHasACause` | `Spec => []FailureHasACause` |
| `StartupProofs!StartTypeCorrect` | `Spec => []StartTypeOK` |
| `StartupProofs!AheadRuns` | `Spec => []AheadIsRunning` |
| `StartupProofs!AnnouncementIsTrue` | `RoutesInOrder => (Spec => []AnnouncedMeansRunning)` |
| `TimerProofs!TimerTypeCorrect` | `Spec => []TimerTypeOK` |
| `TimerProofs!NoTurnCountedTwice` | `Spec => []CountsNoTurnTwice` |
| `TimerProofs!NoTurnMissed` | `DelayIsShort => (Spec => []CountsEveryTurn)` |
| `TimerProofs!StampsAreNeverAhead` | `Spec => []StampIsNotAhead` |
| `LogProofs!LogTypeCorrect` | `Spec => []LogTypeOK` |
| `LogProofs!QueueIsUsedAfterCreation` | `Spec => []QueueBeforeUse` |
| `LogProofs!CopyStaysConsistent` | `Spec => []CopyIsConsistent` |
| `LogProofs!WhatIsSavedIsTheLog` | `Spec => []SavedIsTheLog` |

Argument for `Interlocking` under every script: the inductive invariant is `Inv == TypeOK /\
ControlOK /\ LockedSwitchInPosition`. `LockedSwitchInPosition` alone is not inductive:
`StartPositioning` moves `railswitch` while the status is `WAIT_AGREE`, and the resumed task sets
`RESERVED` from the message it holds. `ControlOK` says what the place in the loop implies: the task
at `"suspended"` or `"resumed"` is in `WAIT_AGREE` and holds a message of a route the element is
on, and the one at `"sensors"` has a route. From this, the switch only moves in a status that is
not locked, and becomes locked only if `in_position` holds. A switch can be locked without an
`AGREE` only as the tail of a route, in `HandleCommit`; `NoRouteEndsWithSwitch` excludes that, and
the theorem needs it. `FailedStaysFailed` holds because the only transition out of a failure state
is the reset by a message of a route the element is not on, which an element of every route has
not.

Argument for one train (`OneTrainInv` in `InterlockingProofs`): with simulated sensors the train is
a message, and a message that comes too late acts on an element that is free again. The invariant
says where everything is. Either the railway is at rest (`Idle`). Or the request is on its way
(`OnItsWay(r, c)`): there is exactly one message in the whole system (`Mail`), between two elements
beside each other on the route, or none because a switch moves or the train is about to enter, or
passes, an element; and its command and place fix the status of every element (`Crew`, `Member`),
one for those behind, another for those ahead, with ten alternatives from the first `REQ` to the
last `SENSOR_OFF`. An element that the train has left may still be about to be reset (`HasLeft`),
and any element may have failed. Or the request has failed (`OnlyRefusals(r, k)`, `Deserted(r,
k)`): only `NOT_OK`s are under way, however many, and none has come further than the element after
the place `k`; beyond `k` the elements are still reserved, up to it none is. This third case is
what a count of messages cannot express, since a failed element answers every message to both
sides.

Each action keeps the invariant: a step of the one that has the message takes `OnItsWay` to its
next alternative or place, or, at a failed element, to the third case; every other step leaves it
alone (`OnlyAt`). In each case the elements ahead of a locked one are locked for its route up to
the first that is out of service (`LeadsOn`), which gives `WayAheadOfOneTrain` and
`SwitchesAheadOfOneTrain`; a `sensor_on_detected` is only set in the alternatives in which the
element is reserved for the train (`NoPhantomOfOneTrain`); a locked element hears of no other route
(`LockedHears`); and a `SENSOR_OFF` only comes to elements of its route, which know it (`LoopOK`,
`NobodyCrashesOfOneTrain`). Without `PingFailNodes` the same invariant gives the refinement
(`LockStepOfOneTrain`); with it `LockOf` is free everywhere and the refinement says nothing, so
that `WayAheadOfOneTrain` is the theorem there. `EngagedOfOneTrain` adds `OwnedInv`: while a `REQ`
is under way no element is about to be reset, so that the reset, which clears `CURRENT_HOST` after
the next element was told, never comes between the claim of the communication task and the control
task that serves it. Once the automatic test makes the next request this is false, the reset of the
last train may still be due, and the property is not stated for it (`OneRequestEach`).

Argument for the refinement of `RouteLocking` (`LockingProofs`): an element locks itself because of
a message, and what that message says of the next element must still be true when it is served. So
the invariant, `CommitInv`, is about messages under way. For each train and each two elements
beside each other on its route, a message between them is in one of three places, the queue of the
sender, the connection or the queue of the receiver. `Alone` says that at most one is; `PairOK`
lists, for the statuses of the two elements, which one it may be, in either direction: from the
`REQ` on its way to an element that is free to the `NOT_OK` that takes back the reservation of an
element when the switch behind it failed. `ElementOK` adds what holds of an element alone, and
`RequestOK` that a train which has not asked yet, or whose `REQ` is still on its way, has nothing
at or beyond that point. A step changes one element and the messages on both of its sides, so that
each action is checked for one pair behind and one ahead, and for other trains nothing has moved. A
step that locks then finds the element ahead `RESERVED` for the same route, and one that releases
finds the train on the next element or the whole way behind released: the action of `RouteLocking`
or a stutter. `Chain`, an instance of `RouteLockingProofs`, carries the theorems of the abstract
locking over, and with the invariant of the switches they give `SwitchesAheadAreSet`.

Each hypothesis of `Scripted` excludes something that breaks `CommitInv`. A train that asks twice
breaks the refinement (finding 1), and a request that is withdrawn leaves claims behind (finding
2). A verdict `PING_FAIL_SAFE` overwrites a locked status on purpose. With simulated sensors and
several trains a `SENSOR_OFF` that reaches an element which is free again is relayed
(`controlTask.c` 369-382), and the reset after it may meet a `CURRENT_HOST` that another train has
claimed meanwhile: then `CommitInv` does not hold any more. The run `Trains` shows the refinement
there for two trains.

Argument for `RouteLocking`: the inductive invariant is that the successor of a locked element on
its route is locked for that route; `WayAheadLocked` follows by induction over the position,
`NoConflictingRoutes` because the shared element would be locked for two routes.

Argument for `Communication`: `InOrder` says what is unread of a neighbour, a tail of the last
message read and after it whole messages with the numbers that follow, and that what has been
served, is queued or was just cut is before it and in order. `Parse` turns a read into its messages
with a filter, so that lemmas first say what a read of `RECV` pieces of such a stream can contain.
For the queue, numbers are not enough: the end of a cut message is queued as a message that has
none, and could fill the queue as well. `Tagged` gives each entry of the line the message it is, or
was cut from; tags of one neighbour increase, and all are behind as many of its first messages as
were served (`Floors`), because a message that is served uses up a tag (`TagsPass`). So the line is
never longer than `Backlog`, the messages that were sent and not served. A communication task that
waits has one more in its hand than the full queue (`QueueIsBacklog`), which gives
`OnlyABacklogJams`.

Argument for `Diagnostics`: the counters are reset by two tasks at two moments, so the invariant
first says that there is one round at a time and that what a round leaves is gone before the next
(`OneRound`). Then it counts: while the node is in service with all its connections, every ping or
answer under way belongs to this round, and the answers counted plus the neighbours still under way
are at most the neighbours (`AnswersAreOfThisRound`); a success needs as many answers as
neighbours, so nothing is under way. As long as nobody was late, silent or gone the two are equal
(`EveryAnswerArrives`), so a round that ends with nothing under way has succeeded. A disconnection
takes a neighbour out of the count, and the guarantees with it (finding 3).

Argument for `Startup`: `PairOK` says that the two ends of a connection agree on it, `WholeOK` that
a node that did not fail has all its connections, those to previous elements first, so that the
confirmations it reads by index are those of next ones, and `ConfirmedOK` that a confirmation comes
from an element that runs. This gives `AheadIsRunning`. The announcement does not follow from it,
since a node that failed to connect is not covered. But the element it failed to connect to waits
for it and never runs. `RunsAhead` says that from an element that runs on, a route runs up to and
including the first node that failed; the host PC hears from the first element of every route. If a
node had failed, take the one that is first in the order of `RoutesInOrder`. It did not fail to
connect to the host PC, which has waited for all first elements, but to an element before it on
some route. Nobody failed on that route up to there, so that this element runs, although it still
waits for the connection. So nobody failed, and everything runs. Without `RoutesInOrder` the
announcement can be false: on a cycle every node can only start because another one failed.

Argument for `Timer`: between two turns that are counted the register must have been near its end,
because `flagOverflow` is only set there; what the task has read since is no older than the flag.
`OnlyTurnsCounted` says this for each place of the loop. It needs `LOW < HIGH`, that the two ranges
the task looks for do not meet, and nothing about the delay or the preemption. That no turn is
missed needs both (`EveryTurnSeen`): a task that is awake and not preempted sees every value of the
register, the last one of a turn sets the flag and the first one of the next is counted; it falls
asleep at the first value of a turn and so wakes up before the turn is over, when the delay is
shorter than a turn. A time stamp is not ahead of the time because the total is at most the
microseconds of the turns that have been, plus what the register had reached when the last was
noticed, at most `LOW` (`StampsAreBehind`): rounding down and the overflow of the total only make
it smaller.

Argument for `Log`: the log task is suspended from the first step of the copying to the last
(`NobodyWrites`), so that neither the file nor the shared offset changes under it; a read that
starts at the offset extends the copy to the offset after it (`ReadContinues`). That the queue
exists before it is used rests on the init task being resumed by the log task only
(`QueueIsFirst`). The types include what `log.py` computes: `Clean` never reads behind the end of
what was received (`CleanIndex`), and the last announcement in a log exists if there is one
(`HasLast`, from the well-foundedness of the numbers, since induction over data is not at hand).
`SavedIsTheLog` needs the whole way of an entry. Entries are numbered, and one queue with one
reader keeps them in order in the file (`EntriesInOrder`), of which the copy is a beginning
(`CopyIsABeginning`). What is on the connection or received consists of full blocks with one cell
too many each, and a last, shorter one followed by what the buffer held before (`TransferInStep`);
`Clean` takes out exactly the cells that are too many. What is cut behind the last announcement is
then the copy up to this transfer's announcement (`SavedIsOfTheCopy`), unless an older announcement
is in the part behind the end, `Stale` (finding 5).

Model-checked only: liveness (`RequestAnswered`, `NobodyWaitsForever`, `AutoTestCompletes`,
`SilentIsDetectedWhileConnected`, `EverybodyStarts`, `EveryEntryIsWritten`, `HostThreadEnds`,
`NodeNeverStalls`, `EverythingIsServed`, `ReloadEndsTheTasks`), which is out of the prover's reach.
Every invariant of `Interlocking` that a run checks is a theorem, but the refinement of
`RouteLocking`, `NoPhantomTrain`, `NobodyCrashes`, `WayAheadLockedOrFailed`, `SwitchesAheadAreSet`
and `EngagedIsOwned` only under the hypotheses above. TLC alone checks them

- for two trains with simulated sensors (`TwoTrains`, `SameRoute`): neither invariant covers it, as
  said above of `Scripted`; messages of both trains are under way, and what is relayed or refused
  for one may clear the claim of the other;
- for a request that is withdrawn (`Withdrawn`, `PingFail`): the `NOT_OK` crosses the grant, so that
  a second message of the train is under way while `OnItsWay` has one;
- for a request of a route that the node is not on (`Misaddressed`).

## 5. Not modelled

- The LED (an output that nothing reads), device initialisation, `log_status`, the entries of
  `dkm.c` that start single tasks by hand, the texts of `errors.c`.
- The destructors of the diagnostics, timer and log task, which only delete the task; and with
  them a reload in the middle of a round of pings or of a transfer.
- Messages of the interlocking that one `recv` of the host PC returns together (`host.py` splits
  nothing: it would take them for one), and a connection the host PC closes.
- Connections that end during a reservation: `Communication` has what a node does then,
  `Interlocking` keeps its connections.
- Format errors of the configuration, two nodes with the same id, a host PC that starts late,
  pings that reach a node still in its init task.
- What `processLogToSend` tells the host PC before it sends the log, which is only printed, and
  the part of `log.py` that starts one thread per node.
- Of `virtualized_raspberry` all but its start: it has no control task, and its log task is not
  waited for.
- `connect`, the build files and the scripts that turn logs into input for the Petri net.

## 6. Plan

Done, in this order: `Routes`, `RouteLocking`, `Interlocking`, the first proofs, `Diagnostics`,
`Startup`, `Timer`, `Log`, `Communication`, the setting with buttons, the reload, the proofs about
`Timer`, `Log` and `Diagnostics`, the refinement of `RouteLocking`, the proofs about
`Communication` and `Startup`, the proofs for one train with simulated sensors.

Next:

1. `Interlocking` with connections that close, and with merged messages at the host PC.
2. A railway with two shared switches, and one where a switch comes first. The state space of
   `Trains` leaves no room for it in one run; it needs a setting of its own.
3. The configuration string and its errors; early pings in `Startup`.

Proofs, next: a request that is withdrawn, as a fourth case of `OneTrainInv` with a `NOT_OK` that
follows or meets the message of the route; then several trains with simulated sensors, for which
`Alone` of `CommitInv` has to become a statement about the set of messages between two elements,
with the relayed `SENSOR_OFF`s of one train told from those of another.
