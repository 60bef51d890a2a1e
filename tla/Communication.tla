---------------------------- MODULE Communication ----------------------------
(***************************************************************************)
(* The tasks of a node that work for the interlocking, and how a message   *)
(* passes through them: the communication task (wifiMain) reads it from a  *)
(* connection and queues it for the control task (controlMain), which may  *)
(* start the positioning task (positioningMain) and wait for it, and       *)
(* queues what it has to send.  What the messages say and do is the matter *)
(* of Interlocking; here all are of the train the node serves.             *)
(*                                                                         *)
(* A message on a connection is two pieces, and a read may end between     *)
(* them; the second one ends with the full stop that separates messages.   *)
(***************************************************************************)
EXTENDS Integers, SequencesExt

CONSTANTS
  Neighbour,      \* the other ends of the node's connections
  RECV,           \* pieces that fit into a read: 100 bytes
  QUEUE,          \* messages that fit into a queue: MAX_LOG_BUFF, 50000
  MayDisconnect,  \* neighbours that may close their connection
  MayClose,       \* neighbours that may send CLOSE
  MaxSent         \* bound: messages each neighbour sends

ASSUME CommunicationAssumption ==
  /\ IsFiniteSet(Neighbour)
  /\ MayDisconnect \subseteq Neighbour /\ MayClose \subseteq Neighbour
  /\ RECV \in Nat \ {0} /\ QUEUE \in Nat \ {0} /\ MaxSent \in [Neighbour -> Nat]

VARIABLES
  whole,             \* reads return whole messages (never changes)
  stream,            \* pieces on a connection, unread
  sent,              \* messages a neighbour has sent
  open,              \* it has not closed its connection
  node_conn,         \* the connections, total_conn of them
  wifi_pc,           \* where wifiMain is in its loop
  readfds,           \* connections select has found ready
  conn_idx,          \* the one it looks at
  todo,              \* single_msg_array, what is left of it
  WIFI_CONTROL_SEM,  \* who holds it
  IN_CONTROL_QUEUE,
  OUT_CONTROL_QUEUE, \* how many messages it holds
  control_pc,        \* where controlMain is in its loop
  duties,            \* what it has still to do for a message
  NODE_STATUS,       \* the status of the node, those told apart here
  posi_pc,           \* the positioning task
  destructor_pc,     \* the task that ends the others before a reload
  SIGUSR1,           \* tasks it has sent the signal to
  served             \* what the control task has received of each neighbour

network == <<stream, sent, open>>
wifi    == <<node_conn, wifi_pc, readfds, conn_idx, todo>>
queues  == <<WIFI_CONTROL_SEM, IN_CONTROL_QUEUE, OUT_CONTROL_QUEUE>>
control == <<control_pc, duties, NODE_STATUS, posi_pc, served>>
reload  == <<destructor_pc, SIGUSR1>>

vars == <<whole, network, wifi, queues, control, reload>>

\* Messages: CLOSE, what is taken for a message although its beginning is
\* missing, and those of the interlocking by their number.
CLOSE   == 0
Unknown == -1

Piece == [nr : Nat, part : {"head", "tail"}]

Message == [from : Neighbour, nr : Nat \union {Unknown}]

\* To pass a message on or answer it, and to take WIFI_CONTROL_SEM for a reset.
Duty == {"send", "reset"}

\* Before and while a switch is locked all statuses are alike.
Status == {"other", "RESERVED", "TRAIN_IN_TRANSITION"}

total_conn == Len(node_conn)

CommTypeOK ==
  /\ whole \in BOOLEAN
  /\ stream \in [Neighbour -> Seq(Piece)] /\ sent \in [Neighbour -> Nat]
  /\ open \in [Neighbour -> BOOLEAN]
  /\ node_conn \in Seq(Neighbour) /\ IsInjective(node_conn)
  /\ wifi_pc \in {"select", "scan", "handle", "queue", "out", "deleted"}
  /\ readfds \subseteq Neighbour /\ conn_idx \in Nat
  /\ todo \in Seq(Message)
  /\ WIFI_CONTROL_SEM \in {"free", "wifi"}
  /\ IN_CONTROL_QUEUE \in Seq(Message) /\ OUT_CONTROL_QUEUE \in Nat
  /\ control_pc \in {"sensors", "receive", "activated", "suspended", "resumed", "act",
                     "deleted"}
  /\ duties \in Seq(Duty) /\ NODE_STATUS \in Status
  /\ posi_pc \in {"none", "ready", "positioning"}
  /\ destructor_pc \in {"none", "control", "ended"} /\ SIGUSR1 \subseteq {"wifi", "control"}
  /\ served \in [Neighbour -> Seq(Nat)]

Init ==
  /\ whole \in BOOLEAN
  /\ stream = [n \in Neighbour |-> << >>] /\ sent = [n \in Neighbour |-> 0]
  /\ open = [n \in Neighbour |-> TRUE]
  /\ node_conn \in SetToSeqs(Neighbour)
  /\ wifi_pc = "select" /\ readfds = {} /\ conn_idx = 1
  /\ todo = << >>
  /\ WIFI_CONTROL_SEM = "free" /\ IN_CONTROL_QUEUE = << >> /\ OUT_CONTROL_QUEUE = 0
  /\ control_pc = "sensors" /\ duties = << >> /\ NODE_STATUS = "other" /\ posi_pc = "none"
  /\ destructor_pc = "none" /\ SIGUSR1 = {}
  /\ served = [n \in Neighbour |-> << >>]

-----------------------------------------------------------------------------
(* The neighbours.                                                         *)

Arrives(n, nr) ==
  stream' = [stream EXCEPT ![n] =
               @ \o <<[nr |-> nr, part |-> "head"], [nr |-> nr, part |-> "tail"]>>]

NeighbourSends(n) ==
  /\ n \in ToSet(node_conn) /\ open[n] /\ sent[n] < MaxSent[n]
  /\ sent' = [sent EXCEPT ![n] = @ + 1]
  /\ Arrives(n, sent'[n])
  /\ UNCHANGED <<whole, open, wifi, queues, control, reload>>

NeighbourDisconnects(n) ==
  /\ n \in ToSet(node_conn) /\ open[n] /\ n \in MayDisconnect
  /\ open' = [open EXCEPT ![n] = FALSE]
  /\ UNCHANGED <<whole, stream, sent, wifi, queues, control, reload>>

\* The host PC tells the nodes to close, and ends.
NeighbourCloses(n) ==
  /\ n \in ToSet(node_conn) /\ open[n] /\ n \in MayClose
  /\ Arrives(n, CLOSE)
  /\ open' = [open EXCEPT ![n] = FALSE]
  /\ UNCHANGED <<whole, sent, wifi, queues, control, reload>>

-----------------------------------------------------------------------------
(* wifiMain.                                                               *)

\* The connections that can be read, by data or by their end.
Select ==
  /\ wifi_pc = "select"
  /\ readfds' = {n \in ToSet(node_conn) : stream[n] # << >> \/ ~open[n]}
  /\ conn_idx' = 1
  /\ wifi_pc' = "scan"
  /\ UNCHANGED <<whole, network, node_conn, todo, queues, control, reload>>

NotReady ==
  /\ wifi_pc = "scan" /\ conn_idx <= total_conn
  /\ node_conn[conn_idx] \notin readfds
  /\ conn_idx' = conn_idx + 1
  /\ UNCHANGED <<whole, network, node_conn, wifi_pc, readfds, todo, queues, control, reload>>

\* Faulty: what is behind the last full stop is taken for a message already.
CutTaken(read, n) ==
  LET cut == IF read[1].part = "head" THEN 0 ELSE 1
  IN  [i \in 1 .. (Len(read) - cut + 1) \div 2 |-> [from |-> n, nr |-> read[2 * i + cut - 1].nr]]

\* Faulty: a message is taken from every read that has a part of it.
TakenByPart(read, n) ==
  LET cut == IF read[1].part = "head" THEN 0 ELSE 1
      part(i) == IF 2 * i - cut <= Len(read) THEN 2 * i - cut ELSE Len(read)
  IN  [i \in 1 .. (Len(read) + cut + 1) \div 2 |-> [from |-> n, nr |-> read[part(i)].nr]]

\* The messages that are in what was read as a whole: heads and tails take turns.
Whole(read, n) ==
  LET cut == IF read[1].part = "head" THEN 0 ELSE 1
  IN  [i \in 1 .. (Len(read) - cut) \div 2 |-> [from |-> n, nr |-> read[2 * i + cut].nr]]

\* handleInMsgs, handleInSingleMsg: where a message was cut decides what its
\* end is taken for.  Nothing but the full stop: full stops are counted and
\* then skipped, so that the rest is taken for a message, or all are given up
\* when there is none.  Something without a command and its data: an error.
\* Else a message, of a command nobody knows.
Parse(read, n) ==
  LET Msg(nr) == <<[from |-> n, nr |-> nr]>>
      rest == IF Last(read).part = "head" THEN Whole(read, n) \o Msg(Last(read).nr) ELSE << >>
  IN  IF read[1].part = "head" THEN {Whole(read, n)}
      ELSE {rest, Whole(read, n)}
             \union (IF read[1].nr = CLOSE THEN {} ELSE {Msg(Unknown) \o Whole(read, n)})

\* The read returns up to RECV pieces, as many as have arrived.
ReadFromConn ==
  /\ wifi_pc = "scan" /\ conn_idx <= total_conn
  /\ LET n == node_conn[conn_idx] IN
       /\ n \in readfds /\ stream[n] # << >>
       /\ \E k \in 1 .. RECV :
            /\ k <= Len(stream[n])
            /\ whole => stream[n][k].part = "tail"
            /\ todo' \in Parse(SubSeq(stream[n], 1, k), n)
            /\ stream' = [stream EXCEPT ![n] = SubSeq(@, k + 1, Len(@))]
  /\ wifi_pc' = "handle"
  /\ UNCHANGED <<whole, sent, open, node_conn, readfds, conn_idx, queues, control, reload>>

\* Faulty: the number of connections goes down, the last one is lost.
RemovedLast(i) == Front(node_conn)

\* Faulty: they move up, the number stays.
ShiftedOnly(i) ==
  [j \in DOMAIN node_conn |-> node_conn[IF i <= j /\ j < Len(node_conn) THEN j + 1 ELSE j]]

\* The connections behind it move up by one.
Removed(i) == RemoveAt(node_conn, i)

\* E_DISCONNECTION.  The loop goes on with the next index, and so past the
\* connection that has moved up.
Disconnection ==
  /\ wifi_pc = "scan" /\ conn_idx <= total_conn
  /\ LET n == node_conn[conn_idx] IN n \in readfds /\ stream[n] = << >> /\ ~open[n]
  /\ node_conn' = Removed(conn_idx)
  /\ conn_idx' = conn_idx + 1
  /\ UNCHANGED <<whole, network, wifi_pc, readfds, todo, queues, control, reload>>

\* A message of the interlocking: semTake(WIFI_CONTROL_SEM).
TakeSem ==
  /\ wifi_pc = "handle" /\ todo # << >> /\ Head(todo).nr # CLOSE
  /\ WIFI_CONTROL_SEM = "free"
  /\ WIFI_CONTROL_SEM' = "wifi"
  /\ wifi_pc' = "queue"
  /\ UNCHANGED <<whole, network, node_conn, readfds, conn_idx, todo,
                 IN_CONTROL_QUEUE, OUT_CONTROL_QUEUE, control, reload>>

\* msgQCreate(MAX_LOG_BUFF, ...)
QueueLength == QUEUE

\* MSG_PRI_NORMAL.
Put(queue, m) == Append(queue, m)

\* msgQSend with WAIT_FOREVER, semGive.
QueueMsg ==
  /\ wifi_pc = "queue"
  /\ Len(IN_CONTROL_QUEUE) < QueueLength
  /\ IN_CONTROL_QUEUE' = Put(IN_CONTROL_QUEUE, Head(todo))
  /\ todo' = Tail(todo)
  /\ WIFI_CONTROL_SEM' = "free"
  /\ wifi_pc' = "handle"
  /\ UNCHANGED <<whole, network, node_conn, readfds, conn_idx,
                 OUT_CONTROL_QUEUE, control, reload>>

\* CLOSE comes without data, here and where a node sends it on: it is refused
\* before anybody looks at the command.
RefuseClose ==
  /\ wifi_pc = "handle" /\ todo # << >> /\ Head(todo).nr = CLOSE
  /\ todo' = Tail(todo)
  /\ UNCHANGED <<whole, network, node_conn, wifi_pc, readfds, conn_idx, queues, control, reload>>

HandledAll ==
  /\ wifi_pc = "handle" /\ todo = << >>
  /\ conn_idx' = conn_idx + 1
  /\ wifi_pc' = "scan"
  /\ UNCHANGED <<whole, network, node_conn, readfds, todo, queues, control, reload>>

\* The next loop starts with the first connection and asks select anew.
ScannedAll ==
  /\ wifi_pc = "scan" /\ conn_idx > total_conn
  /\ readfds' = {} /\ conn_idx' = 1
  /\ wifi_pc' = "out"
  /\ UNCHANGED <<whole, network, node_conn, todo, queues, control, reload>>

\* One message of the control task is sent; then the next loop.
handleOutControlMsg ==
  /\ wifi_pc = "out"
  /\ OUT_CONTROL_QUEUE' = IF OUT_CONTROL_QUEUE = 0 THEN 0 ELSE OUT_CONTROL_QUEUE - 1
  /\ wifi_pc' = "select"
  /\ UNCHANGED <<whole, network, node_conn, readfds, conn_idx, todo,
                 WIFI_CONTROL_SEM, IN_CONTROL_QUEUE, control, reload>>

\* resetConnections, taskDelete, wherever the task is.  What was unread is lost;
\* what the task holds VxWorks does not give back.
wifiDestructor ==
  /\ wifi_pc # "deleted"
  /\ node_conn' = << >> /\ stream' = [n \in Neighbour |-> << >>]
  /\ wifi_pc' = "deleted"
  /\ readfds' = {} /\ conn_idx' = 1 /\ todo' = << >>
  /\ UNCHANGED <<whole, sent, open, queues, control, reload>>

wifiMain ==
  IF "wifi" \in SIGUSR1 THEN wifiDestructor
  ELSE \/ Select \/ NotReady \/ ReadFromConn \/ Disconnection \/ TakeSem \/ QueueMsg
       \/ RefuseClose \/ HandledAll \/ ScannedAll \/ handleOutControlMsg

-----------------------------------------------------------------------------
(* controlMain and positioningMain.                                        *)

\* Between the sensors and the messages it looks at the diagnostics, and may
\* find PING_FAIL_SAFE there.
Diagnosed(status) == {status, "other"}

\* The simulated sensor is tested at the head of the loop, with
\* WIFI_CONTROL_SEM.
TestSensorOn ==
  /\ control_pc = "sensors" /\ NODE_STATUS = "RESERVED" /\ WIFI_CONTROL_SEM = "free"
  /\ \E status \in {"RESERVED", "TRAIN_IN_TRANSITION"} : NODE_STATUS' \in Diagnosed(status)
  /\ control_pc' = "receive"
  /\ UNCHANGED <<whole, network, wifi, queues, duties, posi_pc, served, reload>>

\* In another status there is nothing to test, or the train is still there.
NoSensor ==
  /\ control_pc = "sensors" /\ NODE_STATUS # "RESERVED"
  /\ NODE_STATUS' \in Diagnosed(NODE_STATUS)
  /\ control_pc' = "receive"
  /\ UNCHANGED <<whole, network, wifi, queues, duties, posi_pc, served, reload>>

\* With nothing left to do the next loop starts.
ToDo(rest) ==
  /\ duties' = rest
  /\ control_pc' = IF rest = << >> THEN "sensors" ELSE "act"

\* The train has left: the next node is told.
SensorOff ==
  /\ control_pc = "sensors" /\ NODE_STATUS = "TRAIN_IN_TRANSITION"
  /\ ToDo(<<"send", "reset">>)
  /\ UNCHANGED <<whole, network, wifi, queues, NODE_STATUS, posi_pc, served, reload>>

\* A message that the status does not expect is only logged.  One for a route
\* that the node is not on is answered and one SENSOR_OFF passed on, both before
\* a reset; a NOT_OK resets before it is passed on to the neighbours, at most
\* two, that it is not from.  Else a message is passed on or answered, and a
\* node that has failed answers to both neighbours.
Duties ==
  {<< >>, <<"send", "reset">>}
    \union (IF NODE_STATUS = "TRAIN_IN_TRANSITION" THEN {}
            ELSE {<<"reset">>, <<"reset", "send">>, <<"reset", "send", "send">>})
    \union (IF NODE_STATUS = "other" THEN {<<"send">>, <<"send", "send">>} ELSE {})

Serve ==
  /\ \E rest \in Duties :
       /\ ToDo(rest)
       /\ NODE_STATUS' \in {NODE_STATUS} \union (IF rest = <<"send">> THEN {"RESERVED"} ELSE {})
  /\ UNCHANGED posi_pc

\* Or the switch is set before that: taskCreate, taskActivate.
ActivatePositioning ==
  /\ NODE_STATUS = "other"
  /\ posi_pc' = "ready"
  /\ control_pc' = "activated"
  /\ UNCHANGED <<duties, NODE_STATUS>>

\* msgQReceive.  A command nobody knows is only logged.
ReceiveMsg ==
  /\ control_pc = "receive" /\ IN_CONTROL_QUEUE # << >>
  /\ LET m == Head(IN_CONTROL_QUEUE) IN
       IF m.nr = Unknown
         THEN ToDo(<< >>) /\ UNCHANGED <<NODE_STATUS, posi_pc, served>>
         ELSE /\ served' = [served EXCEPT ![m.from] = Append(@, m.nr)]
              /\ Serve \/ ActivatePositioning
  /\ IN_CONTROL_QUEUE' = Tail(IN_CONTROL_QUEUE)
  /\ UNCHANGED <<whole, network, wifi, WIFI_CONTROL_SEM, OUT_CONTROL_QUEUE, reload>>

\* It ends after a tick.
ReceiveNothing ==
  /\ control_pc = "receive" /\ IN_CONTROL_QUEUE = << >>
  /\ ToDo(<< >>)
  /\ UNCHANGED <<whole, network, wifi, queues, NODE_STATUS, posi_pc, served, reload>>

\* taskSuspend(0).
SuspendControl ==
  /\ control_pc = "activated"
  /\ control_pc' = "suspended"
  /\ UNCHANGED <<whole, network, wifi, queues, duties, NODE_STATUS, posi_pc, served, reload>>

\* The switch is in position, or else both neighbours are told.
Positioned ==
  /\ control_pc = "resumed"
  /\ \/ ToDo(<<"send">>) /\ NODE_STATUS' = "RESERVED"
     \/ ToDo(<<"send", "send">>) /\ UNCHANGED NODE_STATUS
  /\ UNCHANGED <<whole, network, wifi, queues, posi_pc, served, reload>>

\* forwardMsg, and each msgQSend of forwardNotOk; with WAIT_FOREVER.
forwardMsg ==
  /\ control_pc = "act" /\ duties # << >> /\ Head(duties) = "send"
  /\ OUT_CONTROL_QUEUE < QueueLength
  /\ OUT_CONTROL_QUEUE' = OUT_CONTROL_QUEUE + 1
  /\ ToDo(Tail(duties))
  /\ UNCHANGED <<whole, network, wifi, WIFI_CONTROL_SEM, IN_CONTROL_QUEUE,
                 NODE_STATUS, posi_pc, served, reload>>

\* It takes WIFI_CONTROL_SEM.
resetNodeStatus ==
  /\ control_pc = "act" /\ duties # << >> /\ Head(duties) = "reset"
  /\ WIFI_CONTROL_SEM = "free"
  /\ NODE_STATUS' = "other"
  /\ ToDo(Tail(duties))
  /\ UNCHANGED <<whole, network, wifi, queues, posi_pc, served, reload>>

\* Faulty: the positioning task has another core.
RunsAtOnce == TRUE

\* It has the core and the priority of the control task, which therefore keeps
\* running until it waits for something.
ControlIsWaiting == control_pc # "activated"

StartPositioning ==
  /\ posi_pc = "ready" /\ ControlIsWaiting
  /\ posi_pc' = "positioning"
  /\ UNCHANGED <<whole, network, wifi, queues, control_pc, duties, NODE_STATUS, served, reload>>

\* After three seconds, or at once when it fails.  taskResume of a task that
\* is not suspended has no effect.
EndPositioning ==
  /\ posi_pc = "positioning"
  /\ posi_pc' = "none"
  /\ control_pc' = IF control_pc = "suspended" THEN "resumed" ELSE control_pc
  /\ UNCHANGED <<whole, network, wifi, queues, duties, NODE_STATUS, served, reload>>

\* resetNodeStatus, taskDelete.  A suspended task takes the signal when it is
\* resumed.
controlDestructor ==
  /\ control_pc \notin {"suspended", "deleted"} /\ WIFI_CONTROL_SEM = "free"
  /\ control_pc' = "deleted"
  /\ duties' = << >> /\ NODE_STATUS' = "other"
  /\ UNCHANGED <<whole, network, wifi, queues, posi_pc, served, reload>>

controlMain ==
  IF "control" \in SIGUSR1 THEN controlDestructor
  ELSE \/ TestSensorOn \/ NoSensor \/ SensorOff \/ ReceiveMsg \/ ReceiveNothing
       \/ SuspendControl \/ Positioned
       \/ forwardMsg \/ resetNodeStatus

positioningMain == StartPositioning \/ EndPositioning

-----------------------------------------------------------------------------
(* destructorMain.  It runs on any core, so that its signals reach a task  *)
(* in the middle of anything.  Of the tasks it ends, those modelled here.  *)

\* startDestructor: it first ends the communication task.
KillWifi ==
  /\ destructor_pc = "none"
  /\ SIGUSR1' = {"wifi"}
  /\ destructor_pc' = "control"
  /\ UNCHANGED <<whole, network, wifi, queues, control>>

\* Faulty: a suspended task does not get the signal.
KillControlRunning ==
  /\ destructor_pc = "control"
  /\ SIGUSR1' = IF control_pc = "suspended" THEN SIGUSR1 ELSE SIGUSR1 \union {"control"}
  /\ destructor_pc' = "ended"
  /\ UNCHANGED <<whole, network, wifi, queues, control>>

KillControl ==
  /\ destructor_pc = "control"
  /\ SIGUSR1' = SIGUSR1 \union {"control"}
  /\ destructor_pc' = "ended"
  /\ UNCHANGED <<whole, network, wifi, queues, control>>

Next ==
  \/ \E n \in Neighbour : NeighbourSends(n) \/ NeighbourDisconnects(n) \/ NeighbourCloses(n)
  \/ wifiMain \/ controlMain \/ positioningMain
  \/ KillWifi \/ KillControl

Spec == Init /\ [][Next]_vars

\* The tasks keep running; nobody has to send anything, or to reload.
FairSpec ==
  /\ Spec
  /\ WF_vars(wifiMain) /\ WF_vars(controlMain) /\ WF_vars(positioningMain)
  /\ WF_vars(KillControl)

-----------------------------------------------------------------------------
(* Properties.                                                             *)

\* However messages are cut and put together on their way, what the control
\* task is given of a neighbour it is given once and in the order in which it
\* was sent.
ServedInOrder ==
  \A n \in Neighbour : \A i, j \in DOMAIN served[n] :
    i < j => served[n][i] < served[n][j]

\* Messages of the neighbours that the control task has not been given.
Backlog == UNION {{n} \X (Len(served[n]) + 1 .. sent[n]) : n \in Neighbour}

\* What the control task waits for when the communication task holds the
\* semaphore.
ControlIsBlocked ==
  \/ control_pc = "sensors" /\ NODE_STATUS = "RESERVED"
  \/ control_pc = "act" /\ (Head(duties) = "send" => OUT_CONTROL_QUEUE >= QueueLength)

\* The communication task, with the semaphore, waits for room in the queue of
\* the control task, which waits for the semaphore or for room in its own: the
\* node does nothing any more.
Jammed ==
  wifi_pc = "queue" /\ Len(IN_CONTROL_QUEUE) >= QueueLength /\ ControlIsBlocked

\* Wherever reads cut what is sent, the tasks wait for each other only when the
\* neighbours have sent more messages than fit into the queue that the control
\* task was not given.
OnlyABacklogJams == Jammed => Cardinality(Backlog) > QUEUE

\* Whatever is read, the node deals with it and is ready for the next message,
\* unless it is jammed.
NodeNeverStalls ==
  <>[](\/ destructor_pc # "none" \/ Jammed
       \/ /\ control_pc \in {"sensors", "receive"} /\ IN_CONTROL_QUEUE = << >>
          /\ OUT_CONTROL_QUEUE = 0 /\ posi_pc = "none"
          /\ \A n \in Neighbour : stream[n] = << >>)

\* When reads return whole messages, every message is served, also when other
\* connections, or its own, are closed meanwhile, unless the node is jammed.
EverythingIsServed ==
  <>[](whole /\ destructor_pc = "none" /\ ~Jammed =>
         \A n \in Neighbour : Len(served[n]) = sent[n])

\* A reload ends both tasks, whatever they are doing or waiting for, unless the
\* communication task is hit while it holds the semaphore.
ReloadEndsTheTasks ==
  destructor_pc = "ended" ~>
    /\ wifi_pc = "deleted" /\ node_conn = << >>
    /\ control_pc = "deleted" \/ WIFI_CONTROL_SEM = "wifi"
=============================================================================
