---------------------------- MODULE Interlocking ----------------------------
(***************************************************************************)
(* The nodes of the interlocking while they reserve, grant and release     *)
(* routes: on every node the control task (controlTask.c), the dispatch of *)
(* the communication task (wifiTask.c), the positioning task of a switch   *)
(* (positioningTask.c), the two message queues and the variables these     *)
(* tasks share; between the nodes the TCP connections, each a FIFO; and    *)
(* the host PC (host.py) that plays the trains and the operator.           *)
(*                                                                         *)
(* Sensors are simulated by messages (SIM_SENSOR) or are buttons.  The     *)
(* verdict of the periodic diagnostics is an input here; see the README.   *)
(***************************************************************************)
EXTENDS Routes

CONSTANTS
  Train,                     \* host ids: the trains that request routes
  NO_HOST,                   \* the -1 of CURRENT_HOST
  NULL,                      \* the null pointer of current_route
  Commands,                  \* all that an operator may type
  NextTest,                  \* NextTest[n]: the request after a SENSOR_OFF from n
  ROUTES_TO_TEST,            \* how many of those requests host.py makes per node
  Settings                   \* the ways the system is set up and used

Command == {"REQ", "ACK", "COMMIT", "AGREE", "TRAIN_OK", "NOT_OK",
            "SENSOR_ON", "SENSOR_OFF"}

tpcp_status == {"NOT_RESERVED", "WAIT_ACK", "WAIT_COMMIT", "WAIT_AGREE",
                "RESERVED", "TRAIN_IN_TRANSITION", "FAIL_SAFE", "PING_FAIL_SAFE"}

\* "command;host_id;route_id." on a connection, and a tpcp_msg in a queue.
Wire == [command : Command, host_id : Train \union {NO_HOST}, route_id : Route]

Id == Node \union {HOST_ID}

tpcp_msg == [command : Command, host_id : Train \union {NO_HOST},
             route_id : Route, sender_id : Id, recevier_id : Id \union {TAIL_ID}]

\* What is fixed before the nodes start, and what the operator then does.
Setting == [commands                 : SUBSET Commands, \* typed, each once
            AUTOMATIC_TESTING_ROUTES : BOOLEAN,  \* host.py runs its automatic test
            SIM_SENSOR               : BOOLEAN,  \* sensors are messages, not buttons
            PositioningMayFail       : BOOLEAN,  \* PROB_ERROR # 0
            PingFailNodes            : SUBSET Node] \* whose diagnostics may fail

ASSUME InterlockingAssumption ==
  /\ NO_HOST \notin Train
  /\ NULL \notin Route
  /\ Commands \subseteq [to : first_nodes, msg : Wire]
  /\ Settings \subseteq Setting
  /\ NextTest \in [first_nodes -> [to : first_nodes, msg : Wire]]
  /\ ROUTES_TO_TEST \in [first_nodes -> Nat]

VARIABLES
  NODE_STATUS,          \* status of the element, private to the control task
  current_route,        \* route of the last message handled, or NULL
  control_pc,           \* where the control task is in its loop
  in_msg,               \* the AGREE it holds while the switch moves
  CURRENT_HOST,         \* the train this node serves, or NO_HOST
  sensor_on_detected,   \* a SENSOR_ON arrived and was not consumed
  railswitch,           \* last_route_id and in_position of the switch
  IN_CONTROL_QUEUE,     \* communication task -> control task
  OUT_CONTROL_QUEUE,    \* control task -> communication task
  sock,                 \* sock[<<a, b>>]: sent by a, not yet read by b
  setting,              \* one of Settings, chosen once
  button,               \* a train presses the button of the element
  keyboard,             \* commands the operator has not typed yet
  ROUTES_TESTED_COUNTER \* requests made by the automatic test, per node

control == <<NODE_STATUS, current_route, control_pc, in_msg>>
queues  == <<IN_CONTROL_QUEUE, OUT_CONTROL_QUEUE>>
host    == <<setting, button, keyboard, ROUTES_TESTED_COUNTER>>

vars == <<control, CURRENT_HOST, sensor_on_detected, railswitch, queues,
          sock, host>>

Engaged == {"WAIT_ACK", "WAIT_COMMIT", "WAIT_AGREE"}
Locked  == {"RESERVED", "TRAIN_IN_TRANSITION"}

TypeOK ==
  /\ NODE_STATUS \in [Node -> tpcp_status]
  /\ current_route \in [Node -> Route \union {NULL}]
  /\ control_pc \in [Node -> {"sensors", "message", "suspended", "resumed",
                              "reset", "crashed"}]
  /\ in_msg \in [Node -> tpcp_msg \union {NULL}]
  /\ CURRENT_HOST \in [Node -> Train \union {NO_HOST}]
  /\ sensor_on_detected \in [Node -> BOOLEAN]
  /\ railswitch \in [Node -> [last_route_id : Route \union {NULL},
                              in_position : BOOLEAN]]
  /\ IN_CONTROL_QUEUE \in [Node -> Seq(tpcp_msg)]
  /\ OUT_CONTROL_QUEUE \in [Node -> Seq(tpcp_msg)]
  /\ sock \in [Channel -> Seq(Wire)]
  /\ setting \in Settings
  /\ button \in [Node -> BOOLEAN]
  /\ keyboard \subseteq Commands
  /\ ROUTES_TESTED_COUNTER \in [first_nodes -> Nat]

Init ==
  /\ NODE_STATUS = [n \in Node |-> "NOT_RESERVED"]
  /\ current_route = [n \in Node |-> NULL]
  /\ control_pc = [n \in Node |-> "message"]
  /\ in_msg = [n \in Node |-> NULL]
  /\ CURRENT_HOST = [n \in Node |-> NO_HOST]
  /\ sensor_on_detected = [n \in Node |-> FALSE]
  /\ railswitch = [n \in Node |-> [last_route_id |-> NULL, in_position |-> FALSE]]
  /\ IN_CONTROL_QUEUE = [n \in Node |-> << >>]
  /\ OUT_CONTROL_QUEUE = [n \in Node |-> << >>]
  /\ sock = [c \in Channel |-> << >>]
  /\ setting \in Settings
  /\ button = [n \in Node |-> FALSE]
  /\ keyboard = setting.commands
  /\ ROUTES_TESTED_COUNTER = [f \in first_nodes |-> 0]

-----------------------------------------------------------------------------
(* Sending.  A node only has connections to its neighbours: a message to   *)
(* anyone else is dropped (E_NODE_NOTFOUND).                               *)

Wired(m) == [command |-> m.command, host_id |-> m.host_id, route_id |-> m.route_id]

SendTo(s, from, to, w) ==
  IF <<from, to>> \in Channel THEN [s EXCEPT ![<<from, to>>] = Append(@, w)] ELSE s

\* forwardMsg: the message with a new receiver, and maybe a new command.
forwardMsg(n, m, receiver, command) ==
  << [m EXCEPT !.command = command, !.sender_id = n, !.recevier_id = receiver] >>

\* Faulty: a NOT_OK is not passed towards the head, or not towards the tail.
forwardNotOkAheadOnly(n, m, r, sender_id) ==
  IF rasp_id_next(n, r) \in {TAIL_ID, sender_id} THEN << >>
    ELSE forwardMsg(n, m, rasp_id_next(n, r), "NOT_OK")

forwardNotOkBackOnly(n, m, r, sender_id) ==
  IF rasp_id_prev(n, r) = sender_id THEN << >>
    ELSE forwardMsg(n, m, rasp_id_prev(n, r), "NOT_OK")

\* forwardNotOk: what a NOT_OK that came from sender_id becomes at node n: it
\* goes to the neighbours that did not send it.  When n itself is the origin
\* and the tail of the route, the first message keeps n as its receiver.
forwardNotOk(n, m, r, sender_id) ==
  LET prev == rasp_id_prev(n, r)
      next == rasp_id_next(n, r)
  IN (CASE next \notin {TAIL_ID, sender_id} -> forwardMsg(n, m, next, "NOT_OK")
        [] next = TAIL_ID /\ sender_id = n -> <<[m EXCEPT !.command = "NOT_OK"]>>
        [] OTHER -> << >>)
     \o (IF prev # sender_id THEN forwardMsg(n, m, prev, "NOT_OK") ELSE << >>)

\* handleMsg: a phase of the commit runs along the route, towards the tail
\* when direction holds, towards the head otherwise.  Elements on the way
\* pass it on; the one at the edge starts the next phase with new_command.
AtEdge(n, r, direction) ==
  IF direction THEN rasp_id_next(n, r) = TAIL_ID ELSE rasp_id_prev(n, r) = HOST_ID

\* Faulty: an element reserves itself on COMMIT, before those ahead agreed.
NewStatusEarly(n, r, direction, middle, edge) ==
  LET status == IF AtEdge(n, r, direction) THEN edge ELSE middle
  IN IF status = "WAIT_AGREE" THEN "RESERVED" ELSE status

\* Faulty: a switch takes the status POSITIONING, which nothing ever leaves.
NewStatusPositioning(n, r, direction, middle, edge) ==
  LET status == IF AtEdge(n, r, direction) THEN edge ELSE middle
  IN IF IsSwitch(n) /\ status = "WAIT_AGREE" THEN "POSITIONING" ELSE status

NewStatus(n, r, direction, middle, edge) == IF AtEdge(n, r, direction) THEN edge ELSE middle

handleMsg(n, m, r, direction, edge, new_command) ==
  LET onwards == IF direction THEN rasp_id_next(n, r) ELSE rasp_id_prev(n, r)
      turned  == IF direction \/ edge \in {"RESERVED", "NOT_RESERVED"}
                   THEN rasp_id_prev(n, r) ELSE rasp_id_next(n, r)
  IN IF AtEdge(n, r, direction) THEN forwardMsg(n, m, turned, new_command)
                                ELSE forwardMsg(n, m, onwards, m.command)

-----------------------------------------------------------------------------
(* The host PC.                                                            *)

\* The operator types a command for one of the nodes the host PC reaches.
HostCommand(c) ==
  /\ c \in keyboard
  /\ keyboard' = keyboard \ {c}
  /\ sock' = SendTo(sock, HOST_ID, c.to, c.msg)
  /\ UNCHANGED <<control, CURRENT_HOST, sensor_on_detected, railswitch, queues,
                 setting, button, ROUTES_TESTED_COUNTER>>

\* The polling thread reads what node f sent.  On TRAIN_OK the train departs:
\* the automatic test sends the SENSOR_ON itself, otherwise the operator who
\* is shown the message does, or drives onto the button.  After a SENSOR_OFF
\* the automatic test requests the next route.
HostReceive(f) ==
  /\ sock[<<f, HOST_ID>>] # << >>
  /\ LET w == Head(sock[<<f, HOST_ID>>])
         read == [sock EXCEPT ![<<f, HOST_ID>>] = Tail(@)]
         again == setting.AUTOMATIC_TESTING_ROUTES /\ w.command = "SENSOR_OFF"
                    /\ ROUTES_TESTED_COUNTER[f] < ROUTES_TO_TEST[f]
         departs == w.command = "TRAIN_OK" /\ setting.SIM_SENSOR
     IN \/ /\ departs
           /\ sock' = SendTo(read, HOST_ID, f, [w EXCEPT !.command = "SENSOR_ON"])
           /\ UNCHANGED ROUTES_TESTED_COUNTER
        \/ /\ again
           /\ sock' = SendTo(read, HOST_ID, NextTest[f].to, NextTest[f].msg)
           /\ ROUTES_TESTED_COUNTER' = [ROUTES_TESTED_COUNTER EXCEPT ![f] = @ + 1]
        \/ /\ ~departs /\ ~again
           /\ sock' = read
           /\ UNCHANGED ROUTES_TESTED_COUNTER
  /\ UNCHANGED <<control, CURRENT_HOST, sensor_on_detected, railswitch, queues,
                 setting, button, keyboard>>

\* A train on the buttons: it enters a reserved element from the one behind,
\* or at the head of the route, and then leaves the one behind.  It stays on an
\* element for longer than an iteration of the control tasks takes: whoever
\* has to notice that it moved has noticed before it moves again.
Noticed == \A m \in Node : button[m] = (NODE_STATUS[m] = "TRAIN_IN_TRANSITION")

\* The train for which n is reserved presses the button of element m.
ItsTrainIsOn(n, m) == button[m] /\ CURRENT_HOST[m] = CURRENT_HOST[n]

TrainEnters(n) ==
  /\ ~setting.SIM_SENSOR
  /\ NODE_STATUS[n] = "RESERVED" /\ Noticed
  /\ LET prev == rasp_id_prev(n, current_route[n])
     IN prev # HOST_ID => ItsTrainIsOn(n, prev)
  /\ button' = [button EXCEPT ![n] = TRUE]
  /\ UNCHANGED <<control, CURRENT_HOST, sensor_on_detected, railswitch, queues, sock,
                 setting, keyboard, ROUTES_TESTED_COUNTER>>

TrainLeaves(n) ==
  /\ button[n] /\ Noticed
  /\ LET prev == rasp_id_prev(n, current_route[n])
         next == rasp_id_next(n, current_route[n])
     IN (prev # HOST_ID => ~ItsTrainIsOn(n, prev)) /\ (next # TAIL_ID => ItsTrainIsOn(n, next))
  /\ button' = [button EXCEPT ![n] = FALSE]
  /\ UNCHANGED <<control, CURRENT_HOST, sensor_on_detected, railswitch, queues, sock,
                 setting, keyboard, ROUTES_TESTED_COUNTER>>

-----------------------------------------------------------------------------
(* The communication task.  It holds WIFI_CONTROL_SEM from the test of     *)
(* CURRENT_HOST until the message is queued or answered.                   *)

\* Faulty: the last message to arrive decides whom the node serves.
ClaimedByLast(n, h) == h

\* The train a node serves once a message of train h reached it.
Claimed(n, h) == IF CURRENT_HOST[n] = NO_HOST THEN h ELSE CURRENT_HOST[n]

\* handleInSingleMsg: node n dispatches the next message of its neighbour s.
HandleInSingleMsg(n, s) ==
  /\ <<s, n>> \in Channel
  /\ sock[<<s, n>>] # << >>
  /\ LET w == Head(sock[<<s, n>>])
         read == [sock EXCEPT ![<<s, n>>] = Tail(@)]
         h == Claimed(n, w.host_id)
         m == [command |-> w.command, host_id |-> h, route_id |-> w.route_id,
               sender_id |-> s, recevier_id |-> n]
     IN \/ /\ w.command = "SENSOR_ON"
           /\ sensor_on_detected' = [sensor_on_detected EXCEPT ![n] = TRUE]
           /\ sock' = read
           /\ UNCHANGED <<CURRENT_HOST, IN_CONTROL_QUEUE>>
        \/ /\ w.command # "SENSOR_ON" /\ h = w.host_id
           /\ CURRENT_HOST' = [CURRENT_HOST EXCEPT ![n] = h]
           /\ IN_CONTROL_QUEUE' = [IN_CONTROL_QUEUE EXCEPT ![n] = Append(@, m)]
           /\ sock' = read
           /\ UNCHANGED sensor_on_detected
        \/ /\ w.command # "SENSOR_ON" /\ h # w.host_id
           /\ sock' = SendTo(read, n, s, [w EXCEPT !.command = "NOT_OK"])
           /\ UNCHANGED <<CURRENT_HOST, IN_CONTROL_QUEUE, sensor_on_detected>>
  /\ UNCHANGED <<control, railswitch, OUT_CONTROL_QUEUE, host>>

\* handleOutControlMsg: send the next message of the control task.
HandleOutControlMsg(n) ==
  /\ OUT_CONTROL_QUEUE[n] # << >>
  /\ LET m == Head(OUT_CONTROL_QUEUE[n])
     IN sock' = SendTo(sock, n, m.recevier_id, Wired(m))
  /\ OUT_CONTROL_QUEUE' = [OUT_CONTROL_QUEUE EXCEPT ![n] = Tail(@)]
  /\ UNCHANGED <<control, CURRENT_HOST, sensor_on_detected, railswitch,
                 IN_CONTROL_QUEUE, host>>

-----------------------------------------------------------------------------
(* The control task: one iteration of its loop is the sensors, the verdict *)
(* of the diagnostics, then at most one message.  The sensors only act on  *)
(* an element that is Locked, so other iterations start at "message".      *)

LoopStart(status) == IF status \in Locked THEN "sensors" ELSE "message"

Goto(n, pc) == control_pc' = [control_pc EXCEPT ![n] = pc]

setNodeStatus(n, status) == NODE_STATUS' = [NODE_STATUS EXCEPT ![n] = status]

Send(n, out) == OUT_CONTROL_QUEUE' = [OUT_CONTROL_QUEUE EXCEPT ![n] = @ \o out]

\* The train enters: the flag is consumed under WIFI_CONTROL_SEM.
SensorOn(n) ==
  /\ control_pc[n] = "sensors" /\ setting.SIM_SENSOR
  /\ NODE_STATUS[n] = "RESERVED" /\ sensor_on_detected[n]
  /\ setNodeStatus(n, "TRAIN_IN_TRANSITION")
  /\ sensor_on_detected' = [sensor_on_detected EXCEPT ![n] = FALSE]
  /\ Goto(n, "message")
  /\ UNCHANGED <<current_route, in_msg, CURRENT_HOST, railswitch, queues, sock, host>>

\* A train takes SIM_SENSOR_OFF_TIME, 2 to 10 seconds, to pass an element; the
\* rest of a reset is one semaphore away.  No reset outlives a passage.
PassageIsOver == \A m \in Node : control_pc[m] # "reset"

\* Faulty: the tail reports that the train arrived, not that it left.
sensors_msg_on(n, r) ==
  forwardMsg(n, [command |-> "SENSOR_ON", host_id |-> CURRENT_HOST[n], route_id |-> r,
                 sender_id |-> n, recevier_id |-> n],
             IF rasp_id_next(n, r) # TAIL_ID THEN rasp_id_next(n, r) ELSE rasp_id_prev(n, r),
             "SENSOR_ON")

\* The simulated sensors: the train is reported to the next element, or the
\* tail reports back that it left the route.
sensors_msg(n, r) ==
  LET m == [command |-> "SENSOR_ON", host_id |-> CURRENT_HOST[n], route_id |-> r,
            sender_id |-> n, recevier_id |-> n]
  IN IF rasp_id_next(n, r) # TAIL_ID
       THEN forwardMsg(n, m, rasp_id_next(n, r), "SENSOR_ON")
       ELSE forwardMsg(n, m, rasp_id_prev(n, r), "SENSOR_OFF")

\* SIM_SENSOR_OFF_TIME is over: the train is on the next element, or has left
\* the route.  The neighbour is told first, the node is reset afterwards.
SensorOff(n) ==
  /\ control_pc[n] = "sensors" /\ setting.SIM_SENSOR
  /\ NODE_STATUS[n] = "TRAIN_IN_TRANSITION" /\ PassageIsOver
  /\ Send(n, sensors_msg(n, current_route[n]))
  /\ Goto(n, "reset")
  /\ UNCHANGED <<NODE_STATUS, current_route, in_msg, CURRENT_HOST, sensor_on_detected,
                 railswitch, IN_CONTROL_QUEUE, sock, host>>

\* readButton: the train is on the element.
ButtonOn(n) ==
  /\ control_pc[n] = "sensors" /\ ~setting.SIM_SENSOR
  /\ NODE_STATUS[n] = "RESERVED" /\ button[n]
  /\ setNodeStatus(n, "TRAIN_IN_TRANSITION")
  /\ Goto(n, "message")
  /\ UNCHANGED <<current_route, in_msg, CURRENT_HOST, sensor_on_detected, railswitch,
                 queues, sock, host>>

\* readButton: the train has left.  Nobody is told.
ButtonOff(n) ==
  /\ control_pc[n] = "sensors" /\ ~setting.SIM_SENSOR
  /\ NODE_STATUS[n] = "TRAIN_IN_TRANSITION" /\ ~button[n]
  /\ setNodeStatus(n, "NOT_RESERVED")
  /\ CURRENT_HOST' = [CURRENT_HOST EXCEPT ![n] = NO_HOST]
  /\ Goto(n, "message")
  /\ UNCHANGED <<current_route, in_msg, sensor_on_detected, railswitch, queues, sock, host>>

\* No SENSOR_ON yet, or the train is still passing.
NoSensor(n) ==
  /\ control_pc[n] = "sensors"
  /\ setting.SIM_SENSOR => ~(NODE_STATUS[n] = "RESERVED" /\ sensor_on_detected[n])
  /\ ~setting.SIM_SENSOR => button[n] = (NODE_STATUS[n] = "TRAIN_IN_TRANSITION")
  /\ Goto(n, "message")
  /\ UNCHANGED <<NODE_STATUS, current_route, in_msg, CURRENT_HOST, sensor_on_detected,
                 railswitch, queues, sock, host>>

\* Faulty: the reset forgets the route as well.
ResetForgetsRoute(n) ==
  /\ control_pc[n] = "reset"
  /\ setNodeStatus(n, "NOT_RESERVED")
  /\ CURRENT_HOST' = [CURRENT_HOST EXCEPT ![n] = NO_HOST]
  /\ current_route' = [current_route EXCEPT ![n] = NULL]
  /\ Goto(n, "message")
  /\ UNCHANGED <<in_msg, sensor_on_detected, railswitch, queues, sock, host>>

\* resetNodeStatus after a message was sent: until now CURRENT_HOST let the
\* communication task accept messages of the old train.
ResetNodeStatus(n) ==
  /\ control_pc[n] = "reset"
  /\ setNodeStatus(n, "NOT_RESERVED")
  /\ CURRENT_HOST' = [CURRENT_HOST EXCEPT ![n] = NO_HOST]
  /\ Goto(n, "message")
  /\ UNCHANGED <<current_route, in_msg, sensor_on_detected, railswitch, queues, sock, host>>

\* Faulty: resetNodeStatus, which frees the element.
DiagFailedFrees(n) ==
  /\ control_pc[n] = "message" /\ n \in setting.PingFailNodes
  /\ NODE_STATUS[n] # "PING_FAIL_SAFE"
  /\ setNodeStatus(n, "NOT_RESERVED")
  /\ CURRENT_HOST' = [CURRENT_HOST EXCEPT ![n] = NO_HOST]
  /\ UNCHANGED <<current_route, control_pc, in_msg, sensor_on_detected, railswitch, queues,
                 sock, host>>

\* The diagnostics reported that a neighbour did not answer, whatever the
\* element is doing.
DiagFailed(n) ==
  /\ control_pc[n] = "message" /\ n \in setting.PingFailNodes
  /\ NODE_STATUS[n] # "PING_FAIL_SAFE"
  /\ setNodeStatus(n, "PING_FAIL_SAFE")
  /\ UNCHANGED <<current_route, control_pc, in_msg, CURRENT_HOST, sensor_on_detected,
                 railswitch, queues, sock, host>>

\* msgQReceive times out: back to the sensors.
NoMessage(n) ==
  /\ control_pc[n] = "message" /\ IN_CONTROL_QUEUE[n] = << >>
  /\ LoopStart(NODE_STATUS[n]) # "message"
  /\ Goto(n, LoopStart(NODE_STATUS[n]))
  /\ UNCHANGED <<NODE_STATUS, current_route, in_msg, CURRENT_HOST, sensor_on_detected,
                 railswitch, queues, sock, host>>

-----------------------------------------------------------------------------
(* The control task: the message it received.                              *)

Received(n) == Head(IN_CONTROL_QUEUE[n])

\* Faulty: nobody passes a SENSOR_OFF on.
IsRelayedNever(n) == Received(n).command = "SENSOR_OFF" /\ FALSE

\* A SENSOR_OFF is passed towards the host PC by elements that are free.
IsRelayed(n) == NODE_STATUS[n] = "NOT_RESERVED" /\ Received(n).command = "SENSOR_OFF"

\* msgQReceive returned a message, of a route that n belongs to when known.
Receives(n, relayed, known) ==
  /\ control_pc[n] = "message" /\ IN_CONTROL_QUEUE[n] # << >>
  /\ IsRelayed(n) = relayed
  /\ (Received(n).route_id \in node_routes(n)) = known
  /\ IN_CONTROL_QUEUE' = [IN_CONTROL_QUEUE EXCEPT ![n] = Tail(@)]
  /\ UNCHANGED <<sensor_on_detected, sock, host>>

\* The relay does not look at the route of the message: it goes to the
\* previous element on the route of the message before it.
RelaySensorOff(n) ==
  /\ \E known \in BOOLEAN : Receives(n, TRUE, known)
  /\ \/ /\ current_route[n] # NULL
        /\ Send(n, forwardMsg(n, Received(n), rasp_id_prev(n, current_route[n]), "SENSOR_OFF"))
        /\ Goto(n, "reset")
     \/ /\ current_route[n] = NULL
        /\ Goto(n, "crashed")
        /\ UNCHANGED OUT_CONTROL_QUEUE
  /\ UNCHANGED <<NODE_STATUS, current_route, in_msg, CURRENT_HOST, railswitch>>

\* A message of a route n is not on: refuse it, then reset, in any status.
UnknownRoute(n) ==
  /\ Receives(n, FALSE, FALSE)
  /\ current_route' = [current_route EXCEPT ![n] = NULL]
  /\ Send(n, forwardMsg(n, Received(n), Received(n).sender_id, "NOT_OK"))
  /\ Goto(n, "reset")
  /\ UNCHANGED <<NODE_STATUS, in_msg, CURRENT_HOST, railswitch>>

\* Every other message first makes its route the current one.
Dispatched(n, statuses, command) ==
  /\ Receives(n, FALSE, TRUE)
  /\ NODE_STATUS[n] \in statuses /\ Received(n).command = command
  /\ current_route' = [current_route EXCEPT ![n] = Received(n).route_id]

\* A phase of the commit: n takes its new status and passes the message on.
Phase(n, direction, middle, edge, new_command) ==
  LET status == NewStatus(n, Received(n).route_id, direction, middle, edge)
  IN /\ setNodeStatus(n, status)
     /\ Send(n, handleMsg(n, Received(n), Received(n).route_id, direction, edge, new_command))
     /\ Goto(n, LoopStart(status))
     /\ UNCHANGED <<in_msg, CURRENT_HOST, railswitch>>

\* Faulty: a failed element takes part in the next reservation.
HandleReqWhenFailed(n) ==
  /\ Dispatched(n, {"NOT_RESERVED", "FAIL_SAFE", "PING_FAIL_SAFE"}, "REQ")
  /\ Phase(n, TRUE, "WAIT_ACK", "WAIT_COMMIT", "ACK")

HandleReq(n) ==
  /\ Dispatched(n, {"NOT_RESERVED"}, "REQ")
  /\ Phase(n, TRUE, "WAIT_ACK", "WAIT_COMMIT", "ACK")

HandleAck(n) ==
  /\ Dispatched(n, {"WAIT_ACK"}, "ACK")
  /\ Phase(n, FALSE, "WAIT_COMMIT", "WAIT_AGREE", "COMMIT")

HandleCommit(n) ==
  /\ Dispatched(n, {"WAIT_COMMIT"}, "COMMIT")
  /\ Phase(n, TRUE, "WAIT_AGREE", "RESERVED", "AGREE")

\* Faulty: a switch that was positioned once is taken to be in position.
NeedsPositioningOnce(n, r) == IsSwitch(n) /\ ~(r \in Route /\ railswitch[n].in_position)

\* A switch that is not set for the route moves before it agrees.
NeedsPositioning(n, r) ==
  IsSwitch(n) /\ ~(railswitch[n].last_route_id = r /\ railswitch[n].in_position)

HandleAgree(n) ==
  /\ Dispatched(n, {"WAIT_AGREE"}, "AGREE")
  /\ ~IsSwitch(n)
  /\ Phase(n, FALSE, "RESERVED", "RESERVED", "TRAIN_OK")

\* A switch passes the AGREE on as it is, be it the first element or not.
SwitchAgrees(n, m) ==
  /\ setNodeStatus(n, "RESERVED")
  /\ Send(n, forwardMsg(n, m, rasp_id_prev(n, m.route_id), m.command))
  /\ Goto(n, LoopStart("RESERVED"))

HandleAgreeInPosition(n) ==
  /\ Dispatched(n, {"WAIT_AGREE"}, "AGREE")
  /\ IsSwitch(n) /\ ~NeedsPositioning(n, Received(n).route_id)
  /\ SwitchAgrees(n, Received(n))
  /\ UNCHANGED <<in_msg, CURRENT_HOST, railswitch>>

\* The control task starts the positioning task and suspends itself.
StartPositioning(n) ==
  /\ Dispatched(n, {"WAIT_AGREE"}, "AGREE")
  /\ NeedsPositioning(n, Received(n).route_id)
  /\ railswitch' = [railswitch EXCEPT ![n].last_route_id = Received(n).route_id]
  /\ in_msg' = [in_msg EXCEPT ![n] = Received(n)]
  /\ Goto(n, "suspended")
  /\ UNCHANGED <<NODE_STATUS, CURRENT_HOST, OUT_CONTROL_QUEUE>>

\* positioningMain: the switch reaches its position, or does not.
PositioningMain(n) ==
  /\ control_pc[n] = "suspended"
  /\ \E moved \in {TRUE, ~setting.PositioningMayFail} :
       railswitch' = [railswitch EXCEPT ![n].in_position = moved]
  /\ Goto(n, "resumed")
  /\ UNCHANGED <<NODE_STATUS, current_route, in_msg, CURRENT_HOST, sensor_on_detected,
                 queues, sock, host>>

\* Faulty: looks at the position asked for, not at the outcome.
PositionedAsAsked(n) == railswitch[n].last_route_id = in_msg[n].route_id

\* What the control task finds when it is resumed.
Positioned(n) == railswitch[n].in_position

\* The control task goes on with the AGREE, or fails safe.
AfterPositioning(n) ==
  /\ control_pc[n] = "resumed"
  /\ \/ /\ Positioned(n)
        /\ SwitchAgrees(n, in_msg[n])
     \/ /\ ~Positioned(n)
        /\ setNodeStatus(n, "FAIL_SAFE")
        /\ Send(n, forwardNotOk(n, in_msg[n], current_route[n], n))
        /\ Goto(n, "message")
  /\ in_msg' = [in_msg EXCEPT ![n] = NULL]
  /\ UNCHANGED <<current_route, CURRENT_HOST, sensor_on_detected, railswitch,
                 IN_CONTROL_QUEUE, sock, host>>

\* A NOT_OK while the route is requested or granted: the reservation is
\* abandoned and the other neighbour is told.
HandleNotOk(n) ==
  /\ Dispatched(n, Engaged \union {"RESERVED"}, "NOT_OK")
  /\ setNodeStatus(n, "NOT_RESERVED")
  /\ CURRENT_HOST' = [CURRENT_HOST EXCEPT ![n] = NO_HOST]
  /\ Send(n, forwardNotOk(n, Received(n), Received(n).route_id, Received(n).sender_id))
  /\ Goto(n, "message")
  /\ UNCHANGED <<in_msg, railswitch>>

\* A failed element answers NOT_OK to both sides, whatever it received.
AnswerFailSafe(n) ==
  /\ \E command \in Command : Dispatched(n, {"FAIL_SAFE", "PING_FAIL_SAFE"}, command)
  /\ Send(n, forwardNotOk(n, Received(n), Received(n).route_id, n))
  /\ UNCHANGED <<NODE_STATUS, control_pc, in_msg, CURRENT_HOST, railswitch>>

\* handleErrorMsg, and the default of the switch on the status: a message
\* the status does not expect is logged and forgotten.
Expected(status) ==
  CASE status = "NOT_RESERVED" -> {"REQ"}
    [] status = "WAIT_ACK"     -> {"ACK", "NOT_OK"}
    [] status = "WAIT_COMMIT"  -> {"COMMIT", "NOT_OK"}
    [] status = "WAIT_AGREE"   -> {"AGREE", "NOT_OK"}
    [] status = "RESERVED"     -> {"NOT_OK"}
    [] OTHER                   -> {}

HandleErrorMsg(n) ==
  /\ \E command \in Command \ Expected(NODE_STATUS[n]) :
       Dispatched(n, tpcp_status \ {"FAIL_SAFE", "PING_FAIL_SAFE"}, command)
  /\ Goto(n, LoopStart(NODE_STATUS[n]))
  /\ UNCHANGED <<NODE_STATUS, in_msg, CURRENT_HOST, railswitch, OUT_CONTROL_QUEUE>>

-----------------------------------------------------------------------------
Sensors(n) == SensorOn(n) \/ SensorOff(n) \/ ButtonOn(n) \/ ButtonOff(n) \/ NoSensor(n)

Message(n) ==
  \/ RelaySensorOff(n) \/ UnknownRoute(n)
  \/ HandleReq(n) \/ HandleAck(n) \/ HandleCommit(n)
  \/ HandleAgree(n) \/ HandleAgreeInPosition(n) \/ StartPositioning(n)
  \/ HandleNotOk(n) \/ AnswerFailSafe(n) \/ HandleErrorMsg(n)

controlMain(n) ==
  \/ Sensors(n) \/ NoMessage(n) \/ Message(n)
  \/ AfterPositioning(n) \/ ResetNodeStatus(n)

Next ==
  \/ \E c \in Commands : HostCommand(c)
  \/ \E f \in first_nodes : HostReceive(f)
  \/ \E n \in Node, s \in Id : HandleInSingleMsg(n, s)
  \/ \E n \in Node : HandleOutControlMsg(n)
  \/ \E n \in Node : controlMain(n)
  \/ \E n \in Node : DiagFailed(n)
  \/ \E n \in Node : PositioningMain(n)
  \/ \E n \in Node : TrainEnters(n) \/ TrainLeaves(n)

Spec == Init /\ [][Next]_vars

\* Every task of every node keeps running, connections deliver, the host PC
\* keeps reading, and a train does not stay on an element for ever.  Nobody
\* types unless the automatic test does.
Fairness ==
  /\ WF_vars(setting.AUTOMATIC_TESTING_ROUTES /\ \E c \in Commands : HostCommand(c))
  /\ \A f \in first_nodes : WF_vars(HostReceive(f))
  /\ \A n \in Node :
       /\ \A s \in Connections(n) : WF_vars(HandleInSingleMsg(n, s))
       /\ WF_vars(HandleOutControlMsg(n))
       /\ WF_vars(controlMain(n))
       /\ SF_vars(SensorOff(n))
  /\ \A n \in {m \in Node : IsSwitch(m)} : WF_vars(PositioningMain(n))
  /\ WF_vars(\E n \in Node : TrainEnters(n) \/ TrainLeaves(n))

FairSpec == Spec /\ Fairness

-----------------------------------------------------------------------------
(* Properties.                                                             *)

\* Element n is reserved for route r, or a train on r is passing it.
LockedFor(n, r) == NODE_STATUS[n] \in Locked /\ current_route[n] = r

\* What the locks of RouteLocking stand for.  An element whose diagnostics
\* failed drops out of its route at once, whatever is behind it: where that may
\* happen there is no order of locking to speak of.
LockOf(n) ==
  IF setting.PingFailNodes = {} /\ \E r \in Route : LockedFor(n, r) THEN current_route[n]
                                                                ELSE NULL

Locking == INSTANCE RouteLocking WITH Free <- NULL, lock <- [n \in Node |-> LockOf(n)]

\* The commit protocol implements the hand-over-hand locking of RouteLocking.
LocksHandOverHand == Locking!LockSpec

\* Every switch ahead of a locked element is set for its route.
SwitchesAheadAreSet ==
  \A r \in Route : \A i, j \in 1 .. Len(nodes_list[r]) :
    LET n == nodes_list[r][j]
    IN i <= j /\ LockedFor(nodes_list[r][i], r) /\ IsSwitch(n)
         => railswitch[n] = [last_route_id |-> r, in_position |-> TRUE]

\* Also when diagnostics fail, whatever the status they overwrite: the way ahead
\* of a locked element is locked for its route, at least up to an element that
\* has failed.
WayAheadLockedOrFailed ==
  \A r \in Route : \A i, j \in 1 .. Len(nodes_list[r]) :
    i < j /\ LockedFor(nodes_list[r][i], r) =>
      \/ LockedFor(nodes_list[r][j], r)
      \/ \E k \in i + 1 .. j : NODE_STATUS[nodes_list[r][k]] = "PING_FAIL_SAFE"

\* The operator only asks an element for routes it is on; and no train is
\* asked for twice.
WellAddressed == \A c \in setting.commands : c.msg.route_id \in node_routes(c.to)

OneRequestEach ==
  /\ ~setting.AUTOMATIC_TESTING_ROUTES
  /\ \A c, d \in setting.commands :
       c.msg.command = "REQ" /\ d.msg.command = "REQ" /\ c.msg.host_id = d.msg.host_id => c = d

\* A SENSOR_ON that was not consumed is about the train the element is
\* reserved for: no train is reported where none was let in.  (A request that
\* is withdrawn once it is granted crosses the departing train.)
NoPhantomTrain ==
  WellAddressed /\ setting.PingFailNodes = {}
    /\ (\A c \in setting.commands : c.msg.command = "REQ") =>
  \A n \in Node : sensor_on_detected[n] => NODE_STATUS[n] = "RESERVED"

\* An element that takes part in a reservation serves some train.
EngagedIsOwned ==
  OneRequestEach =>
    \A n \in Node : NODE_STATUS[n] \in Engaged \union Locked => CURRENT_HOST[n] # NO_HOST

\* A switch that is reserved or occupied is in position: nothing moves it.
LockedSwitchInPosition ==
  \A n \in Node : IsSwitch(n) /\ NODE_STATUS[n] \in Locked => railswitch[n].in_position

\* A failed element that is on every route, as the switch of the test railway
\* is, never serves again.
FailSafeLatched ==
  [][\A n \in Node :
       node_routes(n) = Route /\ NODE_STATUS[n] \in {"FAIL_SAFE", "PING_FAIL_SAFE"}
         => NODE_STATUS'[n] \in {"FAIL_SAFE", "PING_FAIL_SAFE"}]_vars

\* A train that requests a route is told that it is granted or refused,
\* unless the operator withdraws the request himself.
Carries(from, to, commands, w) ==
  \E i \in DOMAIN sock[<<from, to>>] : \E c \in commands :
     sock[<<from, to>>][i] = [w EXCEPT !.command = c]

Requests(t) == {c \in setting.commands : c.msg.host_id = t /\ c.msg.command = "REQ"}

Requesting(t) == \E c \in Requests(t) : Carries(HOST_ID, c.to, {"REQ"}, c.msg)

Answered(t) ==
  \E c \in Requests(t) : \/ Carries(c.to, HOST_ID, {"TRAIN_OK", "NOT_OK"}, c.msg)
                         \/ Carries(HOST_ID, c.to, {"NOT_OK"}, c.msg)

RequestAnswered == \A t \in Train : WellAddressed /\ Requesting(t) ~> Answered(t)

\* The report that a train has left only reaches elements that know where to
\* pass it on to: as long as requests are well addressed, no control task follows
\* a route that it has not been told, or has been made to forget.
NobodyCrashes == WellAddressed => \A n \in Node : control_pc[n] # "crashed"

\* No element stays in the middle of the commit protocol.
NobodyWaitsForever ==
  \A n \in Node : []<>(WellAddressed => NODE_STATUS[n] \notin Engaged)

\* An element is free, of trains and for the next train.
Available(n) ==
  NODE_STATUS[n] = "NOT_RESERVED" /\ CURRENT_HOST[n] = NO_HOST /\ ~sensor_on_detected[n]

\* A locked element stays locked for the same route.
LockedRouteIsKept ==
  [][\A n \in Node : NODE_STATUS[n] \in Locked /\ NODE_STATUS'[n] \in Locked
       => current_route'[n] = current_route[n]]_vars

\* An element that took part in a reservation and has reverted to NOT_RESERVED
\* is available for every train: it does not stay claimed for the train whose
\* reservation was abandoned.
ItineraryReleased ==
  \A n \in Node : <>(NODE_STATUS[n] \in Engaged) =>
    []<>(NODE_STATUS[n] = "NOT_RESERVED" => CURRENT_HOST[n] = NO_HOST)

\* The automatic test runs to its end and leaves the railway free.
AutoTestCompletes ==
  <>[](setting.AUTOMATIC_TESTING_ROUTES =>
         ROUTES_TESTED_COUNTER = ROUTES_TO_TEST /\ \A n \in Node : Available(n))
=============================================================================
