------------------------- MODULE InterlockingProofs -------------------------
(***************************************************************************)
(* For every railway, every set of trains, every script of the operator    *)
(* and any failure of positioning and of the diagnostics: the types, and   *)
(* that a switch in use is in position and a failed one is out of use.     *)
(*                                                                         *)
(* Then, for one train with simulated sensors, or the automatic test, and  *)
(* whatever fails: every train that is reported was let in, the way ahead  *)
(* of it is locked as far as elements are in service, its switches are     *)
(* set, and no locked element changes its route.                           *)
(***************************************************************************)
EXTENDS Interlocking, TLAPS

FailSafes == {"FAIL_SAFE", "PING_FAIL_SAFE"}

\* What the control task of node n knows at each place of its loop.
ControlOK(n) ==
  /\ current_route[n] \in node_routes(n) \union {NULL}
  /\ NODE_STATUS[n] = "TRAIN_IN_TRANSITION" /\ control_pc[n] # "reset"
       => current_route[n] # NULL
  /\ NODE_STATUS[n] \in Engaged \union {"RESERVED"} /\ control_pc[n] # "reset"
       => current_route[n] # NULL
  /\ control_pc[n] \in {"suspended", "resumed"} =>
       /\ NODE_STATUS[n] = "WAIT_AGREE"
       /\ in_msg[n] \in tpcp_msg
       /\ in_msg[n].route_id \in node_routes(n)
  /\ control_pc[n] = "reset" /\ node_routes(n) = Route => NODE_STATUS[n] \notin FailSafes

Inv ==
  /\ TypeOK
  /\ \A n \in Node : ControlOK(n)
  /\ LockedSwitchInPosition

-----------------------------------------------------------------------------
(* The operators.                                                          *)

\* The neighbours of an element on one of its routes.
LEMMA NeighbourTypes ==
  ASSUME NEW n \in Node, NEW r \in node_routes(n)
  PROVE  /\ r \in Route
         /\ rasp_id_prev(n, r) \in Id
         /\ rasp_id_next(n, r) \in Id \union {TAIL_ID}
<1>1. r \in Route /\ n \in Elements(r) BY DEF node_routes
<1>2. nodes_list[r] \in Seq(Node) BY <1>1, RoutesAssumption
<1>3. IndexOf(n, r) \in 1 .. Len(nodes_list[r]) BY <1>1 DEF IndexOf, Elements
<1>4. Len(nodes_list[r]) \in Nat BY <1>2
<1>5. \A i \in 1 .. Len(nodes_list[r]) : nodes_list[r][i] \in Node BY <1>2
<1>6. rasp_id_prev(n, r) \in Id
  <2>1. CASE IndexOf(n, r) = 1 BY <2>1 DEF rasp_id_prev, Id
  <2>2. CASE IndexOf(n, r) # 1
    <3>1. IndexOf(n, r) - 1 \in 1 .. Len(nodes_list[r]) BY <2>2, <1>3, <1>4
    <3> QED BY <3>1, <2>2, <1>5 DEF rasp_id_prev, Id
  <2> QED BY <2>1, <2>2
<1>7. rasp_id_next(n, r) \in Id \union {TAIL_ID}
  <2>1. CASE IndexOf(n, r) = Len(nodes_list[r]) BY <2>1 DEF rasp_id_next
  <2>2. CASE IndexOf(n, r) # Len(nodes_list[r])
    <3>1. IndexOf(n, r) + 1 \in 1 .. Len(nodes_list[r]) BY <2>2, <1>3, <1>4
    <3> QED BY <3>1, <2>2, <1>5 DEF rasp_id_next, Id
  <2> QED BY <2>1, <2>2
<1> QED BY <1>1, <1>6, <1>7

\* An element has one place on a route.
LEMMA PlaceOf ==
  ASSUME NEW r \in Route
  PROVE  /\ nodes_list[r] \in Seq(Node) /\ Len(nodes_list[r]) \in Nat \ {0}
         /\ \A i \in 1 .. Len(nodes_list[r]) :
              /\ nodes_list[r][i] \in Node /\ nodes_list[r][i] \in Elements(r)
              /\ IndexOf(nodes_list[r][i], r) = i
         /\ \A n \in Elements(r) :
              /\ n \in Node /\ IndexOf(n, r) \in 1 .. Len(nodes_list[r])
              /\ nodes_list[r][IndexOf(n, r)] = n
<1>1. nodes_list[r] \in Seq(Node) /\ nodes_list[r] # << >> BY RoutesAssumption
<1>2. Len(nodes_list[r]) \in Nat \ {0} BY <1>1
<1>3. ASSUME NEW n \in Elements(r)
      PROVE  n \in Node /\ IndexOf(n, r) \in 1 .. Len(nodes_list[r]) /\ nodes_list[r][IndexOf(n, r)] = n
  BY <1>1 DEF Elements, IndexOf
<1>4. ASSUME NEW i \in 1 .. Len(nodes_list[r])
      PROVE  /\ nodes_list[r][i] \in Node /\ nodes_list[r][i] \in Elements(r)
             /\ IndexOf(nodes_list[r][i], r) = i
  <2>1. nodes_list[r][i] \in Elements(r) BY DEF Elements
  <2> QED BY <2>1, <1>3, RoutesAssumption
<1> QED BY <1>1, <1>2, <1>3, <1>4

\* The neighbours of an element on a route, and its connections to them.
LEMMA Beside ==
  ASSUME NEW r \in Route, NEW n \in Elements(r)
  PROVE  /\ n \in Node
         /\ rasp_id_prev(n, r) \in Elements(r) \union {HOST_ID}
         /\ rasp_id_next(n, r) \in Elements(r) \union {TAIL_ID}
         /\ HOST_ID \notin Elements(r) /\ TAIL_ID \notin Elements(r) /\ HOST_ID # TAIL_ID
         /\ rasp_id_prev(n, r) # n /\ rasp_id_next(n, r) # n
         /\ rasp_id_prev(n, r) # rasp_id_next(n, r)
         /\ rasp_id_next(n, r) # TAIL_ID => rasp_id_prev(rasp_id_next(n, r), r) = n
         /\ rasp_id_prev(n, r) # HOST_ID => rasp_id_next(rasp_id_prev(n, r), r) = n
         /\ rasp_id_prev(n, r) = HOST_ID <=> n = nodes_list[r][1]
         /\ nodes_list[r][1] \in Elements(r)
<1> DEFINE list == nodes_list[r]
           i == IndexOf(n, r)
<1>1. Len(list) \in Nat \ {0} BY PlaceOf
<1>2. i \in 1 .. Len(list) /\ list[i] = n /\ n \in Node BY PlaceOf
<1>3. \A k \in 1 .. Len(list) : list[k] \in Elements(r) /\ IndexOf(list[k], r) = k BY PlaceOf
<1>4. HOST_ID \notin Elements(r) /\ TAIL_ID \notin Elements(r) /\ HOST_ID # TAIL_ID
  BY PlaceOf, RoutesAssumption
<1>5. rasp_id_prev(n, r) = IF i = 1 THEN HOST_ID ELSE list[i - 1] BY DEF rasp_id_prev
<1>6. rasp_id_next(n, r) = IF i = Len(list) THEN TAIL_ID ELSE list[i + 1] BY DEF rasp_id_next
<1>7. i # 1 => i - 1 \in 1 .. Len(list) /\ i - 1 # Len(list) /\ (i - 1) + 1 = i BY <1>1, <1>2
<1>8. i # Len(list) => i + 1 \in 1 .. Len(list) /\ i + 1 # 1 /\ (i + 1) - 1 = i BY <1>1, <1>2
<1>9. 1 \in 1 .. Len(list) BY <1>1
<1>10. i # 1 => rasp_id_next(list[i - 1], r) = n BY <1>2, <1>3, <1>7 DEF rasp_id_next
<1>11. i # Len(list) => rasp_id_prev(list[i + 1], r) = n BY <1>2, <1>3, <1>8 DEF rasp_id_prev
<1>12. i # 1 => list[i - 1] \in Elements(r) /\ list[i - 1] # n
  BY <1>1, <1>2, <1>3, <1>7
<1>13. i # Len(list) => list[i + 1] \in Elements(r) /\ list[i + 1] # n
  BY <1>1, <1>2, <1>3, <1>8
<1>14. i # 1 /\ i # Len(list) => list[i - 1] # list[i + 1]
  BY <1>1, <1>2, <1>3, <1>7, <1>8
<1>15. i = 1 <=> n = list[1] BY <1>2, <1>3, <1>9
<1>16. list[1] \in Elements(r) BY <1>3, <1>9
<1> HIDE DEF list, i
<1> QED
  <2>1. /\ rasp_id_prev(n, r) \in Elements(r) \union {HOST_ID} /\ rasp_id_prev(n, r) # n
        /\ rasp_id_prev(n, r) # HOST_ID => rasp_id_next(rasp_id_prev(n, r), r) = n
        /\ rasp_id_prev(n, r) = HOST_ID <=> n = list[1]
    BY <1>4, <1>5, <1>10, <1>12, <1>15
  <2>2. /\ rasp_id_next(n, r) \in Elements(r) \union {TAIL_ID} /\ rasp_id_next(n, r) # n
        /\ rasp_id_next(n, r) # TAIL_ID => rasp_id_prev(rasp_id_next(n, r), r) = n
    BY <1>4, <1>6, <1>11, <1>13
  <2>3. rasp_id_prev(n, r) # rasp_id_next(n, r)
    BY <1>4, <1>5, <1>6, <1>12, <1>13, <1>14
  <2> QED BY <1>2, <1>4, <1>16, <2>1, <2>2, <2>3 DEF list

\* There are connections in both directions.
LEMMA Connected ==
  ASSUME NEW r \in Route, NEW n \in Elements(r), NEW a \in {rasp_id_prev(n, r), rasp_id_next(n, r)},
         a # TAIL_ID
  PROVE  <<a, n>> \in Channel /\ <<n, a>> \in Channel
<1>2. \A m \in Elements(r) : m \in Node /\ r \in node_routes(m) BY PlaceOf DEF node_routes
<1>3. \A m \in Elements(r) : rasp_id_prev(m, r) \in prev_nodes(m) /\ rasp_id_next(m, r) \in next_nodes(m)
  BY <1>2 DEF prev_nodes, next_nodes
<1>4. a \in Connections(n) /\ a \in Node \union {HOST_ID}
  BY <1>2, <1>3, Beside DEF Connections
<1>5. <<n, a>> \in Channel
  <2>1. <<n, a>> \in Node \X (Node \union {HOST_ID}) /\ <<n, a>>[1] = n /\ <<n, a>>[2] = a
    BY <1>2, <1>4
  <2> QED BY <1>4, <2>1 DEF Channel
<1>6. <<a, n>> \in Channel
  <2>1. CASE a = HOST_ID
    <3>1. rasp_id_prev(n, r) = HOST_ID
      BY <2>1, Beside
    <3>2. n \in first_nodes BY <1>2, <1>3, <3>1 DEF first_nodes
    <3> QED BY <2>1, <3>2 DEF Channel
  <2>2. CASE a # HOST_ID
    <3>1. a \in Elements(r) /\ n \in {rasp_id_prev(a, r), rasp_id_next(a, r)}
      BY <2>2, Beside
    <3>2. n \in Connections(a) /\ a \in Node
      BY <1>2, <1>3, <3>1, Beside DEF Connections
    <3>3. <<a, n>> \in Node \X (Node \union {HOST_ID}) /\ <<a, n>>[1] = a /\ <<a, n>>[2] = n
      BY <1>2, <3>2
    <3> QED BY <3>2, <3>3 DEF Channel
  <2> QED BY <2>1, <2>2
<1> QED BY <1>5, <1>6

\* A forwarded message is one message.
LEMMA ForwardType ==
  ASSUME NEW n \in Node, NEW m \in tpcp_msg,
         NEW receiver \in Id \union {TAIL_ID}, NEW command \in Command
  PROVE  forwardMsg(n, m, receiver, command) \in Seq(tpcp_msg)
<1>1. [m EXCEPT !.command = command, !.sender_id = n, !.recevier_id = receiver] \in tpcp_msg
  BY DEF tpcp_msg, Id
<1> QED BY <1>1 DEF forwardMsg

\* What a NOT_OK becomes is a sequence of messages.
LEMMA NotOkType ==
  ASSUME NEW n \in Node, NEW m \in tpcp_msg, NEW r \in node_routes(n), NEW sender_id
  PROVE  forwardNotOk(n, m, r, sender_id) \in Seq(tpcp_msg)
<1> DEFINE prev == rasp_id_prev(n, r)
           next == rasp_id_next(n, r)
<1>1. "NOT_OK" \in Command BY DEF Command
<1>2. forwardMsg(n, m, next, "NOT_OK") \in Seq(tpcp_msg)
  BY <1>1, NeighbourTypes, ForwardType
<1>3. forwardMsg(n, m, prev, "NOT_OK") \in Seq(tpcp_msg)
  BY <1>1, NeighbourTypes, ForwardType
<1>4. <<[m EXCEPT !.command = "NOT_OK"]>> \in Seq(tpcp_msg)
  <2>1. [m EXCEPT !.command = "NOT_OK"] \in tpcp_msg BY <1>1 DEF tpcp_msg
  <2> QED BY <2>1
<1> DEFINE onwards == CASE next \notin {TAIL_ID, sender_id} -> forwardMsg(n, m, next, "NOT_OK")
                        [] next = TAIL_ID /\ sender_id = n -> <<[m EXCEPT !.command = "NOT_OK"]>>
                        [] OTHER -> << >>
           back == IF prev # sender_id THEN forwardMsg(n, m, prev, "NOT_OK") ELSE << >>
<1>5. onwards \in Seq(tpcp_msg)
  <2> HIDE DEF next
  <2>1. CASE next \notin {TAIL_ID, sender_id} BY <2>1, <1>2
  <2>2. CASE next = TAIL_ID /\ sender_id = n BY <2>2, <1>4
  <2>3. CASE ~(next \notin {TAIL_ID, sender_id}) /\ ~(next = TAIL_ID /\ sender_id = n)
    <3>1. onwards = << >> BY <2>3
    <3>2. << >> \in Seq(tpcp_msg) OBVIOUS
    <3> HIDE DEF onwards
    <3> QED BY <3>1, <3>2
  <2> QED BY <2>1, <2>2, <2>3
<1>6. back \in Seq(tpcp_msg) BY <1>3
<1>7. forwardNotOk(n, m, r, sender_id) = onwards \o back BY DEF forwardNotOk
<1> HIDE DEF onwards, back
<1> QED BY <1>5, <1>6, <1>7

\* So is what a phase of the commit sends.
LEMMA PhaseType ==
  ASSUME NEW n \in Node, NEW m \in tpcp_msg, NEW r \in node_routes(n), NEW direction,
         NEW edge, NEW new_command \in Command
  PROVE  handleMsg(n, m, r, direction, edge, new_command) \in Seq(tpcp_msg)
<1>1. m.command \in Command BY DEF tpcp_msg
<1>2. rasp_id_prev(n, r) \in Id \union {TAIL_ID} /\ rasp_id_next(n, r) \in Id \union {TAIL_ID}
  BY NeighbourTypes
<1>3. \A receiver \in Id \union {TAIL_ID}, command \in Command :
        forwardMsg(n, m, receiver, command) \in Seq(tpcp_msg)
  BY ForwardType
<1> QED BY <1>1, <1>2, <1>3 DEF handleMsg

\* And the message of the simulated sensors.
LEMMA SensorsType ==
  ASSUME TypeOK, NEW n \in Node, NEW r \in node_routes(n)
  PROVE  sensors_msg(n, r) \in Seq(tpcp_msg)
<1> DEFINE m == [command |-> "SENSOR_ON", host_id |-> CURRENT_HOST[n], route_id |-> r,
                 sender_id |-> n, recevier_id |-> n]
<1>1. m \in tpcp_msg BY NeighbourTypes DEF TypeOK, tpcp_msg, Command, Id
<1>2. forwardMsg(n, m, rasp_id_next(n, r), "SENSOR_ON") \in Seq(tpcp_msg)
  BY <1>1, NeighbourTypes, ForwardType DEF Command
<1>3. forwardMsg(n, m, rasp_id_prev(n, r), "SENSOR_OFF") \in Seq(tpcp_msg)
  BY <1>1, NeighbourTypes, ForwardType DEF Command
<1> QED BY <1>2, <1>3 DEF sensors_msg

\* Sending keeps the connections sequences of wire messages.
LEMMA SendToType ==
  ASSUME NEW s \in [Channel -> Seq(Wire)], NEW from, NEW to, NEW w \in Wire
  PROVE  SendTo(s, from, to, w) \in [Channel -> Seq(Wire)]
<1>1. CASE <<from, to>> \in Channel
  <2>1. Append(s[<<from, to>>], w) \in Seq(Wire) BY <1>1
  <2> QED BY <1>1, <2>1 DEF SendTo
<1>2. CASE <<from, to>> \notin Channel BY <1>2 DEF SendTo
<1> QED BY <1>1, <1>2

\* The message at the head of the queue of the control task.
LEMMA ReceivedType ==
  ASSUME TypeOK, NEW n \in Node, IN_CONTROL_QUEUE[n] # << >>
  PROVE  /\ Received(n) \in tpcp_msg
         /\ Received(n).route_id \in Route
         /\ Received(n).command \in Command
         /\ Received(n).sender_id \in Id
         /\ Tail(IN_CONTROL_QUEUE[n]) \in Seq(tpcp_msg)
<1>1. IN_CONTROL_QUEUE[n] \in Seq(tpcp_msg) BY DEF TypeOK
<1>2. Head(IN_CONTROL_QUEUE[n]) \in tpcp_msg /\ Tail(IN_CONTROL_QUEUE[n]) \in Seq(tpcp_msg)
  BY <1>1
<1> QED BY <1>2 DEF Received, tpcp_msg

-----------------------------------------------------------------------------
(* The host PC and the communication task leave the control task alone.    *)

\* What is known of the setting.
LEMMA SettingType ==
  ASSUME setting \in Settings
  PROVE  /\ setting.commands \subseteq Commands
         /\ setting.PositioningMayFail \in BOOLEAN
BY InterlockingAssumption DEF Setting

\* Steps that touch neither the control task nor the switch.
LEMMA OutsideKeepsInv ==
  ASSUME Inv, TypeOK', UNCHANGED <<control, railswitch>>
  PROVE  Inv'
BY DEF Inv, control, ControlOK, LockedSwitchInPosition

LEMMA HostKeepsInv ==
  ASSUME Inv,
         \/ \E c \in Commands : HostCommand(c)
         \/ \E f \in first_nodes : HostReceive(f)
  PROVE  Inv'
<1>1. ASSUME NEW c \in Commands, HostCommand(c) PROVE Inv'
  <2>1. c.msg \in Wire BY InterlockingAssumption
  <2>2. sock' \in [Channel -> Seq(Wire)]
    BY <1>1, <2>1, SendToType DEF HostCommand, Inv, TypeOK
  <2>3. TypeOK'
    BY <1>1, <2>2 DEF HostCommand, Inv, TypeOK, control, queues
  <2> QED BY <1>1, <2>3, OutsideKeepsInv DEF HostCommand
<1>2. ASSUME NEW f \in first_nodes, HostReceive(f) PROVE Inv'
  <2> DEFINE ch == <<f, HOST_ID>>
             w == Head(sock[ch])
             read == [sock EXCEPT ![ch] = Tail(@)]
  <2>1. ch \in Channel
    <3>1. f \in Node /\ HOST_ID \in Connections(f)
      BY RoutesAssumption DEF first_nodes, Connections
    <3>2. ch \in Node \X (Node \union {HOST_ID}) /\ ch[1] = f /\ ch[2] = HOST_ID BY <3>1
    <3> HIDE DEF ch
    <3> QED BY <3>1, <3>2 DEF Channel
  <2>2. sock[ch] \in Seq(Wire) /\ sock[ch] # << >>
    BY <2>1, <1>2 DEF HostReceive, Inv, TypeOK
  <2>3. w \in Wire /\ Tail(sock[ch]) \in Seq(Wire) BY <2>2
  <2>4. read \in [Channel -> Seq(Wire)] BY <2>1, <2>3 DEF Inv, TypeOK
  <2>5. [w EXCEPT !.command = "SENSOR_ON"] \in Wire BY <2>3 DEF Wire, Command
  <2>6. NextTest[f].msg \in Wire BY InterlockingAssumption
  <2>7. /\ \/ sock' = read
           \/ sock' = SendTo(read, HOST_ID, f, [w EXCEPT !.command = "SENSOR_ON"])
           \/ sock' = SendTo(read, HOST_ID, NextTest[f].to, NextTest[f].msg)
        /\ \/ ROUTES_TESTED_COUNTER' = ROUTES_TESTED_COUNTER
           \/ ROUTES_TESTED_COUNTER' = [ROUTES_TESTED_COUNTER EXCEPT ![f] = @ + 1]
    BY <1>2 DEF HostReceive
  <2>8. sock' \in [Channel -> Seq(Wire)]
    <3> HIDE DEF read, w
    <3> QED BY <2>4, <2>5, <2>6, <2>7, SendToType
  <2>9. ROUTES_TESTED_COUNTER' \in [first_nodes -> Nat]
    <3>1. ROUTES_TESTED_COUNTER \in [first_nodes -> Nat] BY DEF Inv, TypeOK
    <3>2. ROUTES_TESTED_COUNTER[f] + 1 \in Nat BY <3>1
    <3> HIDE DEF read, w
    <3> QED BY <2>7, <3>1, <3>2
  <2>10. TypeOK'
    BY <1>2, <2>8, <2>9 DEF HostReceive, Inv, TypeOK, control, queues
  <2> QED BY <1>2, <2>10, OutsideKeepsInv DEF HostReceive
<1> QED BY <1>1, <1>2

\* A train on the buttons does not touch the nodes.
LEMMA TrainKeepsInv ==
  ASSUME Inv, NEW n \in Node, TrainEnters(n) \/ TrainLeaves(n)
  PROVE  Inv'
<1>1. UNCHANGED <<control, CURRENT_HOST, sensor_on_detected, railswitch, queues, sock,
                  setting, keyboard, ROUTES_TESTED_COUNTER>>
  BY DEF TrainEnters, TrainLeaves
<1>2. button' \in [Node -> BOOLEAN] BY DEF TrainEnters, TrainLeaves, Inv, TypeOK
<1>3. TypeOK' BY <1>1, <1>2 DEF Inv, TypeOK, control, queues
<1> QED BY <1>1, <1>3, OutsideKeepsInv

LEMMA HandleInKeepsInv ==
  ASSUME Inv, NEW n \in Node, NEW s \in Id, HandleInSingleMsg(n, s)
  PROVE  Inv'
<1> DEFINE ch == <<s, n>>
           w == Head(sock[ch])
           read == [sock EXCEPT ![ch] = Tail(@)]
           h == Claimed(n, w.host_id)
           m == [command |-> w.command, host_id |-> h, route_id |-> w.route_id,
                 sender_id |-> s, recevier_id |-> n]
<1>1. ch \in Channel /\ sock[ch] # << >> BY DEF HandleInSingleMsg
<1>2. sock[ch] \in Seq(Wire) BY <1>1 DEF Inv, TypeOK
<1>3. w \in Wire /\ Tail(sock[ch]) \in Seq(Wire) BY <1>1, <1>2
<1>4. read \in [Channel -> Seq(Wire)] BY <1>1, <1>3 DEF Inv, TypeOK
<1>5. [w EXCEPT !.command = "NOT_OK"] \in Wire BY <1>3 DEF Wire, Command
<1>6. h \in Train \union {NO_HOST} BY <1>3 DEF Claimed, Wire, Inv, TypeOK
<1>7. m \in tpcp_msg
  <2> HIDE DEF h, w
  <2> QED BY <1>3, <1>6 DEF Wire, tpcp_msg, Id
<1>8. /\ \/ sock' = read
         \/ sock' = SendTo(read, n, s, [w EXCEPT !.command = "NOT_OK"])
      /\ \/ CURRENT_HOST' = CURRENT_HOST
         \/ CURRENT_HOST' = [CURRENT_HOST EXCEPT ![n] = h]
      /\ \/ IN_CONTROL_QUEUE' = IN_CONTROL_QUEUE
         \/ IN_CONTROL_QUEUE' = [IN_CONTROL_QUEUE EXCEPT ![n] = Append(@, m)]
      /\ \/ sensor_on_detected' = sensor_on_detected
         \/ sensor_on_detected' = [sensor_on_detected EXCEPT ![n] = TRUE]
  BY DEF HandleInSingleMsg
<1>9. UNCHANGED <<control, railswitch, OUT_CONTROL_QUEUE, host>>
  BY DEF HandleInSingleMsg
<1> HIDE DEF read, w, h, m
<1>10. sock' \in [Channel -> Seq(Wire)] BY <1>4, <1>5, <1>8, SendToType
<1>11. CURRENT_HOST' \in [Node -> Train \union {NO_HOST}] BY <1>6, <1>8 DEF Inv, TypeOK
<1>12. IN_CONTROL_QUEUE' \in [Node -> Seq(tpcp_msg)]
  <2>1. Append(IN_CONTROL_QUEUE[n], m) \in Seq(tpcp_msg) BY <1>7 DEF Inv, TypeOK
  <2> QED BY <1>8, <2>1 DEF Inv, TypeOK
<1>13. sensor_on_detected' \in [Node -> BOOLEAN] BY <1>8 DEF Inv, TypeOK
<1>14. TypeOK' BY <1>9, <1>10, <1>11, <1>12, <1>13 DEF Inv, TypeOK, control, host
<1> QED BY <1>9, <1>14, OutsideKeepsInv

LEMMA HandleOutKeepsInv ==
  ASSUME Inv, NEW n \in Node, HandleOutControlMsg(n)
  PROVE  Inv'
<1> DEFINE m == Head(OUT_CONTROL_QUEUE[n])
<1>1. OUT_CONTROL_QUEUE[n] \in Seq(tpcp_msg) /\ OUT_CONTROL_QUEUE[n] # << >>
  BY DEF HandleOutControlMsg, Inv, TypeOK
<1>2. m \in tpcp_msg /\ Tail(OUT_CONTROL_QUEUE[n]) \in Seq(tpcp_msg) BY <1>1
<1>3. Wired(m) \in Wire BY <1>2 DEF Wired, Wire, tpcp_msg
<1>4. sock' = SendTo(sock, n, m.recevier_id, Wired(m)) BY DEF HandleOutControlMsg
<1>5. sock' \in [Channel -> Seq(Wire)] BY <1>3, <1>4, SendToType DEF Inv, TypeOK
<1>6. OUT_CONTROL_QUEUE' \in [Node -> Seq(tpcp_msg)]
  BY <1>2 DEF HandleOutControlMsg, Inv, TypeOK
<1>7. UNCHANGED <<control, CURRENT_HOST, sensor_on_detected, railswitch,
                  IN_CONTROL_QUEUE, host>>
  BY DEF HandleOutControlMsg
<1>8. TypeOK' BY <1>5, <1>6, <1>7 DEF Inv, TypeOK, control, host
<1> QED BY <1>7, <1>8, OutsideKeepsInv

-----------------------------------------------------------------------------
(* The control task.  Its steps change nothing at another node but what    *)
(* TypeOK speaks of.                                                       *)

LEMMA LocalStepKeepsInv ==
  ASSUME Inv, NEW n \in Node, TypeOK',
         \A k \in Node \ {n} :
           /\ NODE_STATUS'[k] = NODE_STATUS[k] /\ current_route'[k] = current_route[k]
           /\ control_pc'[k] = control_pc[k] /\ in_msg'[k] = in_msg[k]
           /\ railswitch'[k] = railswitch[k],
         ControlOK(n)',
         IsSwitch(n) /\ NODE_STATUS'[n] \in Locked => railswitch'[n].in_position
  PROVE  Inv'
<1>1. ASSUME NEW k \in Node PROVE ControlOK(k)'
  <2>1. CASE k = n BY <2>1
  <2>2. CASE k # n BY <2>2 DEF Inv, ControlOK
  <2> QED BY <2>1, <2>2
<1>2. LockedSwitchInPosition'
  BY DEF Inv, LockedSwitchInPosition
<1> QED BY <1>1, <1>2 DEF Inv

LEMMA SensorsKeepInv ==
  ASSUME Inv, NEW n \in Node, Sensors(n)
  PROVE  Inv'
<1>1. CASE SensorOn(n)
  <2>1. TypeOK'
    BY <1>1 DEF SensorOn, setNodeStatus, Goto, Inv, TypeOK, tpcp_status, queues, host
  <2>2. ControlOK(n)'
    BY <1>1 DEF SensorOn, setNodeStatus, Goto, Inv, TypeOK, ControlOK, Engaged, FailSafes
  <2> QED BY <1>1, <2>1, <2>2, LocalStepKeepsInv
        DEF SensorOn, setNodeStatus, Goto, Inv, TypeOK, LockedSwitchInPosition, Locked
<1>2. CASE SensorOff(n)
  <2>1. current_route[n] \in node_routes(n)
    BY <1>2 DEF SensorOff, Inv, ControlOK
  <2>2. sensors_msg(n, current_route[n]) \in Seq(tpcp_msg) BY <2>1, SensorsType DEF Inv
  <2>3. OUT_CONTROL_QUEUE' \in [Node -> Seq(tpcp_msg)]
    BY <1>2, <2>2 DEF SensorOff, Send, Inv, TypeOK
  <2>4. TypeOK' BY <1>2, <2>3 DEF SensorOff, Goto, Inv, TypeOK, host
  <2>5. ControlOK(n)' BY <1>2 DEF SensorOff, Goto, Inv, TypeOK, ControlOK, FailSafes
  <2> QED BY <1>2, <2>4, <2>5, LocalStepKeepsInv
        DEF SensorOff, Goto, Inv, TypeOK, LockedSwitchInPosition
<1>3. CASE NoSensor(n)
  <2>1. TypeOK' BY <1>3 DEF NoSensor, Goto, Inv, TypeOK, queues, host
  <2>2. ControlOK(n)' BY <1>3 DEF NoSensor, Goto, Inv, TypeOK, ControlOK
  <2> QED BY <1>3, <2>1, <2>2, LocalStepKeepsInv
        DEF NoSensor, Goto, Inv, TypeOK, LockedSwitchInPosition
<1>4. CASE ButtonOn(n)
  <2>1. TypeOK'
    BY <1>4 DEF ButtonOn, setNodeStatus, Goto, Inv, TypeOK, tpcp_status, queues, host
  <2>2. ControlOK(n)'
    BY <1>4 DEF ButtonOn, setNodeStatus, Goto, Inv, TypeOK, ControlOK, Engaged, FailSafes
  <2> QED BY <1>4, <2>1, <2>2, LocalStepKeepsInv
        DEF ButtonOn, setNodeStatus, Goto, Inv, TypeOK, LockedSwitchInPosition, Locked
<1>5. CASE ButtonOff(n)
  <2>1. TypeOK'
    BY <1>5 DEF ButtonOff, setNodeStatus, Goto, Inv, TypeOK, tpcp_status, queues, host
  <2>2. ControlOK(n)'
    BY <1>5 DEF ButtonOff, setNodeStatus, Goto, Inv, TypeOK, ControlOK, Engaged
  <2> QED BY <1>5, <2>1, <2>2, LocalStepKeepsInv
        DEF ButtonOff, setNodeStatus, Goto, Inv, TypeOK, Locked
<1> QED BY <1>1, <1>2, <1>3, <1>4, <1>5 DEF Sensors

LEMMA LoopKeepsInv ==
  ASSUME Inv, NEW n \in Node, NoMessage(n) \/ ResetNodeStatus(n) \/ DiagFailed(n)
  PROVE  Inv'
<1>1. CASE NoMessage(n)
  <2>1. LoopStart(NODE_STATUS[n]) \in {"sensors", "message"} BY DEF LoopStart
  <2>2. TypeOK' BY <1>1, <2>1 DEF NoMessage, Goto, Inv, TypeOK, queues, host
  <2>3. ControlOK(n)' BY <1>1, <2>1 DEF NoMessage, Goto, Inv, TypeOK, ControlOK
  <2> QED BY <1>1, <2>2, <2>3, LocalStepKeepsInv
        DEF NoMessage, Goto, Inv, TypeOK, LockedSwitchInPosition
<1>2. CASE ResetNodeStatus(n)
  <2>1. TypeOK'
    BY <1>2 DEF ResetNodeStatus, setNodeStatus, Goto, Inv, TypeOK, tpcp_status, queues, host
  <2>2. ControlOK(n)'
    BY <1>2 DEF ResetNodeStatus, setNodeStatus, Goto, Inv, TypeOK, ControlOK, Engaged
  <2> QED BY <1>2, <2>1, <2>2, LocalStepKeepsInv
        DEF ResetNodeStatus, setNodeStatus, Goto, Inv, TypeOK, Locked
<1>3. CASE DiagFailed(n)
  <2>1. TypeOK'
    BY <1>3 DEF DiagFailed, setNodeStatus, Inv, TypeOK, tpcp_status, queues, host
  <2>2. ControlOK(n)'
    BY <1>3 DEF DiagFailed, setNodeStatus, Inv, TypeOK, ControlOK, Engaged
  <2> QED BY <1>3, <2>1, <2>2, LocalStepKeepsInv
        DEF DiagFailed, setNodeStatus, Inv, TypeOK, Locked
<1> QED BY <1>1, <1>2, <1>3

LEMMA PositioningKeepsInv ==
  ASSUME Inv, NEW n \in Node, PositioningMain(n) \/ AfterPositioning(n)
  PROVE  Inv'
<1>1. CASE PositioningMain(n)
  <2>1. PICK moved \in {TRUE, ~setting.PositioningMayFail} :
          railswitch' = [railswitch EXCEPT ![n].in_position = moved]
    BY <1>1 DEF PositioningMain
  <2>2. moved \in BOOLEAN BY SettingType DEF Inv, TypeOK
  <2>3. railswitch' \in [Node -> [last_route_id : Route \union {NULL}, in_position : BOOLEAN]]
    BY <2>1, <2>2 DEF Inv, TypeOK
  <2>4. TypeOK' BY <1>1, <2>3 DEF PositioningMain, Goto, Inv, TypeOK, queues, host
  <2>5. ControlOK(n)' BY <1>1 DEF PositioningMain, Goto, Inv, TypeOK, ControlOK
  <2>6. NODE_STATUS'[n] \notin Locked
    BY <1>1 DEF PositioningMain, Inv, ControlOK, Locked
  <2> QED BY <1>1, <2>1, <2>4, <2>5, <2>6, LocalStepKeepsInv
        DEF PositioningMain, Goto, Inv, TypeOK
<1>2. CASE AfterPositioning(n)
  <2>1. /\ NODE_STATUS[n] = "WAIT_AGREE" /\ in_msg[n] \in tpcp_msg
        /\ in_msg[n].route_id \in node_routes(n)
        /\ current_route[n] \in node_routes(n)
    BY <1>2 DEF AfterPositioning, Inv, ControlOK, Engaged
  <2>2. CASE Positioned(n)
    <3>1. /\ NODE_STATUS' = [NODE_STATUS EXCEPT ![n] = "RESERVED"]
          /\ OUT_CONTROL_QUEUE' = [OUT_CONTROL_QUEUE EXCEPT ![n] =
               @ \o forwardMsg(n, in_msg[n], rasp_id_prev(n, in_msg[n].route_id),
                              in_msg[n].command)]
          /\ control_pc' = [control_pc EXCEPT ![n] = "sensors"]
          /\ in_msg' = [in_msg EXCEPT ![n] = NULL]
          /\ UNCHANGED <<current_route, CURRENT_HOST, sensor_on_detected, railswitch,
                         IN_CONTROL_QUEUE, sock, host>>
      BY <1>2, <2>2 DEF AfterPositioning, SwitchAgrees, setNodeStatus, Send, Goto,
                        LoopStart, Locked
    <3>2. forwardMsg(n, in_msg[n], rasp_id_prev(n, in_msg[n].route_id), in_msg[n].command)
            \in Seq(tpcp_msg)
      BY <2>1, NeighbourTypes, ForwardType DEF tpcp_msg
    <3>3. OUT_CONTROL_QUEUE' \in [Node -> Seq(tpcp_msg)] BY <3>1, <3>2 DEF Inv, TypeOK
    <3>4. TypeOK' BY <3>1, <3>3 DEF Inv, TypeOK, tpcp_status, host
    <3>5. ControlOK(n)'
      BY <3>1, <2>1, InterlockingAssumption, NeighbourTypes
      DEF Inv, TypeOK, ControlOK, Engaged
    <3> QED BY <3>1, <3>4, <3>5, <2>2, LocalStepKeepsInv DEF Inv, TypeOK, Positioned
  <2>3. CASE ~Positioned(n)
    <3>1. /\ NODE_STATUS' = [NODE_STATUS EXCEPT ![n] = "FAIL_SAFE"]
          /\ OUT_CONTROL_QUEUE' = [OUT_CONTROL_QUEUE EXCEPT ![n] =
               @ \o forwardNotOk(n, in_msg[n], current_route[n], n)]
          /\ control_pc' = [control_pc EXCEPT ![n] = "message"]
          /\ in_msg' = [in_msg EXCEPT ![n] = NULL]
          /\ UNCHANGED <<current_route, CURRENT_HOST, sensor_on_detected, railswitch,
                         IN_CONTROL_QUEUE, sock, host>>
      BY <1>2, <2>3 DEF AfterPositioning, setNodeStatus, Send, Goto
    <3>2. forwardNotOk(n, in_msg[n], current_route[n], n) \in Seq(tpcp_msg)
      BY <2>1, NotOkType
    <3>3. OUT_CONTROL_QUEUE' \in [Node -> Seq(tpcp_msg)] BY <3>1, <3>2 DEF Inv, TypeOK
    <3>4. TypeOK' BY <3>1, <3>3 DEF Inv, TypeOK, tpcp_status, host
    <3>5. ControlOK(n)' BY <3>1 DEF Inv, TypeOK, ControlOK, Engaged
    <3> QED BY <3>1, <3>4, <3>5, LocalStepKeepsInv DEF Inv, TypeOK, Locked
  <2> QED BY <2>2, <2>3
<1> QED BY <1>1, <1>2

-----------------------------------------------------------------------------
(* The control task handles a message.                                     *)

\* What a received message leaves as it was, and what is known of it.
LEMMA ReceivesType ==
  ASSUME Inv, NEW n \in Node, NEW relayed, NEW known, Receives(n, relayed, known)
  PROVE  /\ control_pc[n] = "message"
         /\ Received(n) \in tpcp_msg
         /\ Received(n).route_id \in Route
         /\ Received(n).command \in Command
         /\ Received(n).sender_id \in Id
         /\ IsRelayed(n) = relayed
         /\ (Received(n).route_id \in node_routes(n)) = known
         /\ IN_CONTROL_QUEUE' \in [Node -> Seq(tpcp_msg)]
         /\ UNCHANGED <<sensor_on_detected, sock, setting, button, keyboard,
                       ROUTES_TESTED_COUNTER>>
<1>1. IN_CONTROL_QUEUE[n] # << >> BY DEF Receives
<1>2. /\ Received(n) \in tpcp_msg
      /\ Received(n).route_id \in Route
      /\ Received(n).command \in Command
      /\ Received(n).sender_id \in Id
      /\ Tail(IN_CONTROL_QUEUE[n]) \in Seq(tpcp_msg)
  BY <1>1, ReceivedType DEF Inv
<1>3. IN_CONTROL_QUEUE' \in [Node -> Seq(tpcp_msg)] BY <1>2 DEF Receives, Inv, TypeOK
<1> QED BY <1>2, <1>3 DEF Receives, host

\* A dispatched message: its route is one of n's and becomes the current one.
LEMMA DispatchedType ==
  ASSUME Inv, NEW n \in Node, NEW statuses, NEW command, Dispatched(n, statuses, command)
  PROVE  /\ Received(n).route_id \in node_routes(n)
         /\ Received(n).route_id # NULL
         /\ current_route' = [current_route EXCEPT ![n] = Received(n).route_id]
         /\ current_route' \in [Node -> Route \union {NULL}]
<1>1. Received(n).route_id \in node_routes(n) /\ Received(n).route_id \in Route
  BY ReceivesType DEF Dispatched
<1>2. current_route' \in [Node -> Route \union {NULL}]
  BY <1>1 DEF Dispatched, Inv, TypeOK
<1> QED BY <1>1, <1>2, InterlockingAssumption DEF Dispatched

\* A phase of the commit keeps the invariant when it does not lock a switch.
LEMMA PhaseKeepsInv ==
  ASSUME Inv, NEW n \in Node, NEW statuses, NEW command, Dispatched(n, statuses, command),
         NEW direction, NEW middle \in tpcp_status \ {"TRAIN_IN_TRANSITION"},
         NEW edge \in tpcp_status \ {"TRAIN_IN_TRANSITION"},
         NEW new_command \in Command, Phase(n, direction, middle, edge, new_command),
         IsSwitch(n) => NewStatus(n, Received(n).route_id, direction, middle, edge) \notin Locked
  PROVE  Inv'
<1> DEFINE r == Received(n).route_id
           status == NewStatus(n, r, direction, middle, edge)
           out == handleMsg(n, Received(n), r, direction, edge, new_command)
<1>1. /\ Received(n) \in tpcp_msg /\ r \in node_routes(n) /\ r # NULL
      /\ current_route' = [current_route EXCEPT ![n] = r]
      /\ current_route' \in [Node -> Route \union {NULL}]
      /\ IN_CONTROL_QUEUE' \in [Node -> Seq(tpcp_msg)]
      /\ UNCHANGED <<sensor_on_detected, sock, setting, button, keyboard,
                       ROUTES_TESTED_COUNTER>>
  BY ReceivesType, DispatchedType DEF Dispatched
<1>2. /\ NODE_STATUS' = [NODE_STATUS EXCEPT ![n] = status]
      /\ OUT_CONTROL_QUEUE' = [OUT_CONTROL_QUEUE EXCEPT ![n] = @ \o out]
      /\ control_pc' = [control_pc EXCEPT ![n] = LoopStart(status)]
      /\ UNCHANGED <<in_msg, CURRENT_HOST, railswitch>>
  BY DEF Phase, setNodeStatus, Send, Goto
<1>3. status \in tpcp_status \ {"TRAIN_IN_TRANSITION"} BY DEF NewStatus
<1>4. LoopStart(status) \in {"sensors", "message"} BY DEF LoopStart
<1>5. out \in Seq(tpcp_msg) BY <1>1, PhaseType
<1>6. IsSwitch(n) => status \notin Locked OBVIOUS
<1> HIDE DEF status, out
<1>7. OUT_CONTROL_QUEUE' \in [Node -> Seq(tpcp_msg)] BY <1>2, <1>5 DEF Inv, TypeOK
<1>8. TypeOK' BY <1>1, <1>2, <1>3, <1>4, <1>7 DEF Inv, TypeOK
<1>9. ControlOK(n)' BY <1>1, <1>2, <1>4 DEF Inv, TypeOK, ControlOK
<1> QED BY <1>1, <1>2, <1>6, <1>8, <1>9, LocalStepKeepsInv DEF Inv, TypeOK

\* REQ, ACK, COMMIT, and AGREE at an element that is no switch.  Only the last
\* element of a route is reserved by a COMMIT, and it is no switch.
LEMMA CommitKeepsInv ==
  ASSUME Inv, NEW n \in Node,
         HandleReq(n) \/ HandleAck(n) \/ HandleCommit(n) \/ HandleAgree(n)
  PROVE  Inv'
<1>1. CASE HandleReq(n)
  <2>1. NewStatus(n, Received(n).route_id, TRUE, "WAIT_ACK", "WAIT_COMMIT") \notin Locked
    BY DEF NewStatus, Locked
  <2> QED BY <1>1, <2>1, PhaseKeepsInv DEF HandleReq, tpcp_status, Command
<1>2. CASE HandleAck(n)
  <2>1. NewStatus(n, Received(n).route_id, FALSE, "WAIT_COMMIT", "WAIT_AGREE") \notin Locked
    BY DEF NewStatus, Locked
  <2> QED BY <1>2, <2>1, PhaseKeepsInv DEF HandleAck, tpcp_status, Command
<1>3. CASE HandleCommit(n)
  <2> DEFINE r == Received(n).route_id
  <2>1. r \in Route /\ n \in Elements(r)
    BY <1>3, DispatchedType DEF HandleCommit, node_routes
  <2>2. ASSUME rasp_id_next(n, r) = TAIL_ID PROVE ~IsSwitch(n)
    <3>1. IndexOf(n, r) \in 1 .. Len(nodes_list[r]) /\ nodes_list[r][IndexOf(n, r)] = n
      BY <2>1 DEF IndexOf, Elements
    <3>2. nodes_list[r] \in Seq(Node) BY <2>1, RoutesAssumption
    <3>3. IndexOf(n, r) = Len(nodes_list[r])
      <4>1. SUFFICES ASSUME IndexOf(n, r) # Len(nodes_list[r]) PROVE FALSE OBVIOUS
      <4>2. IndexOf(n, r) + 1 \in 1 .. Len(nodes_list[r]) BY <3>1, <3>2, <4>1
      <4>3. nodes_list[r][IndexOf(n, r) + 1] \in Node BY <3>2, <4>2
      <4>4. rasp_id_next(n, r) \in Node BY <4>1, <4>3 DEF rasp_id_next
      <4> QED BY <2>2, <4>4, RoutesAssumption
    <3> QED BY <2>1, <3>1, <3>3, NoRouteEndsWithSwitch
  <2>3. IsSwitch(n) => NewStatus(n, r, TRUE, "WAIT_AGREE", "RESERVED") \notin Locked
    BY <2>2 DEF NewStatus, AtEdge, Locked
  <2> QED BY <1>3, <2>3, PhaseKeepsInv DEF HandleCommit, tpcp_status, Command
<1>4. CASE HandleAgree(n)
  BY <1>4, PhaseKeepsInv DEF HandleAgree, tpcp_status, Command
<1> QED BY <1>1, <1>2, <1>3, <1>4

\* A switch agrees at once, or first moves; then nothing is locked yet.
LEMMA SwitchKeepsInv ==
  ASSUME Inv, NEW n \in Node, HandleAgreeInPosition(n) \/ StartPositioning(n)
  PROVE  Inv'
<1> DEFINE r == Received(n).route_id
<1>1. Dispatched(n, {"WAIT_AGREE"}, "AGREE")
  BY DEF HandleAgreeInPosition, StartPositioning
<1>2. /\ Received(n) \in tpcp_msg /\ r \in node_routes(n) /\ r \in Route /\ r # NULL
      /\ NODE_STATUS[n] = "WAIT_AGREE"
      /\ current_route' = [current_route EXCEPT ![n] = r]
      /\ current_route' \in [Node -> Route \union {NULL}]
      /\ IN_CONTROL_QUEUE' \in [Node -> Seq(tpcp_msg)]
      /\ UNCHANGED <<sensor_on_detected, sock, setting, button, keyboard,
                       ROUTES_TESTED_COUNTER>>
  BY <1>1, ReceivesType, DispatchedType DEF Dispatched
<1>3. CASE HandleAgreeInPosition(n)
  <2> DEFINE out == forwardMsg(n, Received(n), rasp_id_prev(n, r), Received(n).command)
  <2>1. /\ NODE_STATUS' = [NODE_STATUS EXCEPT ![n] = "RESERVED"]
        /\ OUT_CONTROL_QUEUE' = [OUT_CONTROL_QUEUE EXCEPT ![n] = @ \o out]
        /\ control_pc' = [control_pc EXCEPT ![n] = "sensors"]
        /\ UNCHANGED <<in_msg, CURRENT_HOST, railswitch>>
    BY <1>3 DEF HandleAgreeInPosition, SwitchAgrees, setNodeStatus, Send, Goto,
                LoopStart, Locked
  <2>2. railswitch[n].in_position
    BY <1>3 DEF HandleAgreeInPosition, NeedsPositioning
  <2>3. out \in Seq(tpcp_msg)
    BY <1>2, NeighbourTypes, ForwardType DEF tpcp_msg
  <2> HIDE DEF out
  <2>4. OUT_CONTROL_QUEUE' \in [Node -> Seq(tpcp_msg)] BY <2>1, <2>3 DEF Inv, TypeOK
  <2>5. TypeOK' BY <1>2, <2>1, <2>4 DEF Inv, TypeOK, tpcp_status
  <2>6. ControlOK(n)' BY <1>2, <2>1 DEF Inv, TypeOK, ControlOK
  <2> QED BY <1>2, <2>1, <2>2, <2>5, <2>6, LocalStepKeepsInv DEF Inv, TypeOK
<1>4. CASE StartPositioning(n)
  <2>1. /\ railswitch' = [railswitch EXCEPT ![n].last_route_id = r]
        /\ in_msg' = [in_msg EXCEPT ![n] = Received(n)]
        /\ control_pc' = [control_pc EXCEPT ![n] = "suspended"]
        /\ UNCHANGED <<NODE_STATUS, CURRENT_HOST, OUT_CONTROL_QUEUE>>
    BY <1>4 DEF StartPositioning, Goto
  <2>2. railswitch' \in [Node -> [last_route_id : Route \union {NULL}, in_position : BOOLEAN]]
    BY <1>2, <2>1 DEF Inv, TypeOK
  <2>3. TypeOK' BY <1>2, <2>1, <2>2 DEF Inv, TypeOK
  <2>4. ControlOK(n)' BY <1>2, <2>1 DEF Inv, TypeOK, ControlOK
  <2> QED BY <1>2, <2>1, <2>3, <2>4, LocalStepKeepsInv DEF Inv, TypeOK, Locked
<1> QED BY <1>3, <1>4

\* A message that is refused, relayed or logged, and a NOT_OK.
LEMMA RefusalKeepsInv ==
  ASSUME Inv, NEW n \in Node,
         RelaySensorOff(n) \/ UnknownRoute(n) \/ HandleNotOk(n) \/ AnswerFailSafe(n)
           \/ HandleErrorMsg(n)
  PROVE  Inv'
<1>1. CASE RelaySensorOff(n)
  <2>1. PICK known \in BOOLEAN : Receives(n, TRUE, known) BY <1>1 DEF RelaySensorOff
  <2>2. /\ Received(n) \in tpcp_msg /\ NODE_STATUS[n] = "NOT_RESERVED"
        /\ IN_CONTROL_QUEUE' \in [Node -> Seq(tpcp_msg)]
        /\ UNCHANGED <<sensor_on_detected, sock, setting, button, keyboard,
                       ROUTES_TESTED_COUNTER>>
    BY <2>1, ReceivesType DEF IsRelayed
  <2>3. UNCHANGED <<NODE_STATUS, current_route, in_msg, CURRENT_HOST, railswitch>>
    BY <1>1 DEF RelaySensorOff
  <2>4. PICK pc \in {"reset", "crashed"} : control_pc' = [control_pc EXCEPT ![n] = pc]
    BY <1>1 DEF RelaySensorOff, Goto
  <2>5. OUT_CONTROL_QUEUE' \in [Node -> Seq(tpcp_msg)]
    <3> DEFINE out == forwardMsg(n, Received(n), rasp_id_prev(n, current_route[n]), "SENSOR_OFF")
    <3>1. CASE current_route[n] # NULL /\ Send(n, out)
      <4>1. current_route[n] \in node_routes(n) BY <3>1 DEF Inv, ControlOK
      <4>2. out \in Seq(tpcp_msg) BY <2>2, <4>1, NeighbourTypes, ForwardType DEF Command
      <4> HIDE DEF out
      <4> QED BY <3>1, <4>2 DEF Send, Inv, TypeOK
    <3>2. CASE UNCHANGED OUT_CONTROL_QUEUE BY <3>2 DEF Inv, TypeOK
    <3> QED BY <1>1, <3>1, <3>2 DEF RelaySensorOff
  <2>6. TypeOK' BY <2>2, <2>3, <2>4, <2>5 DEF Inv, TypeOK
  <2>7. ControlOK(n)'
    BY <2>2, <2>3, <2>4 DEF Inv, TypeOK, ControlOK, Engaged, FailSafes
  <2> QED BY <2>2, <2>3, <2>4, <2>6, <2>7, LocalStepKeepsInv DEF Inv, TypeOK, Locked
<1>2. CASE UnknownRoute(n)
  <2> DEFINE out == forwardMsg(n, Received(n), Received(n).sender_id, "NOT_OK")
  <2>1. /\ Received(n) \in tpcp_msg /\ Received(n).sender_id \in Id
        /\ Received(n).route_id \in Route \ node_routes(n)
        /\ IN_CONTROL_QUEUE' \in [Node -> Seq(tpcp_msg)]
        /\ UNCHANGED <<sensor_on_detected, sock, setting, button, keyboard,
                       ROUTES_TESTED_COUNTER>>
    BY <1>2, ReceivesType DEF UnknownRoute
  <2>2. /\ current_route' = [current_route EXCEPT ![n] = NULL]
        /\ OUT_CONTROL_QUEUE' = [OUT_CONTROL_QUEUE EXCEPT ![n] = @ \o out]
        /\ control_pc' = [control_pc EXCEPT ![n] = "reset"]
        /\ UNCHANGED <<NODE_STATUS, in_msg, CURRENT_HOST, railswitch>>
    BY <1>2 DEF UnknownRoute, Send, Goto
  <2>3. out \in Seq(tpcp_msg) BY <2>1, ForwardType DEF Command
  <2> HIDE DEF out
  <2>4. OUT_CONTROL_QUEUE' \in [Node -> Seq(tpcp_msg)] BY <2>2, <2>3 DEF Inv, TypeOK
  <2>5. TypeOK' BY <2>1, <2>2, <2>4 DEF Inv, TypeOK
  <2>6. ControlOK(n)' BY <2>1, <2>2 DEF Inv, TypeOK, ControlOK
  <2> QED BY <2>1, <2>2, <2>5, <2>6, LocalStepKeepsInv
        DEF Inv, TypeOK, LockedSwitchInPosition
<1>3. CASE HandleNotOk(n)
  <2> DEFINE r == Received(n).route_id
             out == forwardNotOk(n, Received(n), r, Received(n).sender_id)
  <2>1. Dispatched(n, Engaged \union {"RESERVED"}, "NOT_OK") BY <1>3 DEF HandleNotOk
  <2>2. /\ Received(n) \in tpcp_msg /\ r \in node_routes(n)
        /\ current_route' = [current_route EXCEPT ![n] = r]
        /\ current_route' \in [Node -> Route \union {NULL}]
        /\ IN_CONTROL_QUEUE' \in [Node -> Seq(tpcp_msg)]
        /\ UNCHANGED <<sensor_on_detected, sock, setting, button, keyboard,
                       ROUTES_TESTED_COUNTER>>
    BY <2>1, ReceivesType, DispatchedType DEF Dispatched
  <2>3. /\ NODE_STATUS' = [NODE_STATUS EXCEPT ![n] = "NOT_RESERVED"]
        /\ CURRENT_HOST' = [CURRENT_HOST EXCEPT ![n] = NO_HOST]
        /\ OUT_CONTROL_QUEUE' = [OUT_CONTROL_QUEUE EXCEPT ![n] = @ \o out]
        /\ control_pc' = [control_pc EXCEPT ![n] = "message"]
        /\ UNCHANGED <<in_msg, railswitch>>
    BY <1>3 DEF HandleNotOk, setNodeStatus, Send, Goto
  <2>4. out \in Seq(tpcp_msg) BY <2>2, NotOkType
  <2> HIDE DEF out
  <2>5. OUT_CONTROL_QUEUE' \in [Node -> Seq(tpcp_msg)] BY <2>3, <2>4 DEF Inv, TypeOK
  <2>6. TypeOK' BY <2>2, <2>3, <2>5 DEF Inv, TypeOK, tpcp_status
  <2>7. ControlOK(n)' BY <2>2, <2>3 DEF Inv, TypeOK, ControlOK, Engaged
  <2> QED BY <2>2, <2>3, <2>6, <2>7, LocalStepKeepsInv DEF Inv, TypeOK, Locked
<1>4. CASE AnswerFailSafe(n)
  <2> DEFINE r == Received(n).route_id
             out == forwardNotOk(n, Received(n), r, n)
  <2>1. PICK command \in Command : Dispatched(n, {"FAIL_SAFE", "PING_FAIL_SAFE"}, command)
    BY <1>4 DEF AnswerFailSafe
  <2>2. /\ Received(n) \in tpcp_msg /\ r \in node_routes(n)
        /\ NODE_STATUS[n] \in FailSafes /\ control_pc[n] = "message"
        /\ current_route' = [current_route EXCEPT ![n] = r]
        /\ current_route' \in [Node -> Route \union {NULL}]
        /\ IN_CONTROL_QUEUE' \in [Node -> Seq(tpcp_msg)]
        /\ UNCHANGED <<sensor_on_detected, sock, setting, button, keyboard,
                       ROUTES_TESTED_COUNTER>>
    BY <2>1, ReceivesType, DispatchedType DEF Dispatched, FailSafes
  <2>3. /\ OUT_CONTROL_QUEUE' = [OUT_CONTROL_QUEUE EXCEPT ![n] = @ \o out]
        /\ UNCHANGED <<NODE_STATUS, control_pc, in_msg, CURRENT_HOST, railswitch>>
    BY <1>4 DEF AnswerFailSafe, Send
  <2>4. out \in Seq(tpcp_msg) BY <2>2, NotOkType
  <2> HIDE DEF out
  <2>5. OUT_CONTROL_QUEUE' \in [Node -> Seq(tpcp_msg)] BY <2>3, <2>4 DEF Inv, TypeOK
  <2>6. TypeOK' BY <2>2, <2>3, <2>5 DEF Inv, TypeOK
  <2>7. ControlOK(n)' BY <2>2, <2>3 DEF Inv, TypeOK, ControlOK, Engaged, FailSafes
  <2> QED BY <2>2, <2>3, <2>6, <2>7, LocalStepKeepsInv
        DEF Inv, TypeOK, LockedSwitchInPosition
<1>5. CASE HandleErrorMsg(n)
  <2> DEFINE r == Received(n).route_id
  <2>1. PICK command \in Command :
          Dispatched(n, tpcp_status \ {"FAIL_SAFE", "PING_FAIL_SAFE"}, command)
    BY <1>5 DEF HandleErrorMsg
  <2>2. /\ r \in node_routes(n) /\ r # NULL /\ control_pc[n] = "message"
        /\ current_route' = [current_route EXCEPT ![n] = r]
        /\ current_route' \in [Node -> Route \union {NULL}]
        /\ IN_CONTROL_QUEUE' \in [Node -> Seq(tpcp_msg)]
        /\ UNCHANGED <<sensor_on_detected, sock, setting, button, keyboard,
                       ROUTES_TESTED_COUNTER>>
    BY <2>1, ReceivesType, DispatchedType DEF Dispatched
  <2>3. /\ control_pc' = [control_pc EXCEPT ![n] = LoopStart(NODE_STATUS[n])]
        /\ UNCHANGED <<NODE_STATUS, in_msg, CURRENT_HOST, railswitch, OUT_CONTROL_QUEUE>>
    BY <1>5 DEF HandleErrorMsg, Goto
  <2>4. LoopStart(NODE_STATUS[n]) \in {"sensors", "message"} BY DEF LoopStart
  <2>5. TypeOK' BY <2>2, <2>3, <2>4 DEF Inv, TypeOK
  <2>6. ControlOK(n)' BY <2>2, <2>3, <2>4 DEF Inv, TypeOK, ControlOK
  <2> QED BY <2>2, <2>3, <2>5, <2>6, LocalStepKeepsInv
        DEF Inv, TypeOK, LockedSwitchInPosition
<1> QED BY <1>1, <1>2, <1>3, <1>4, <1>5

-----------------------------------------------------------------------------
(* The theorems.                                                           *)

LEMMA InitEstablishesInv == Init => Inv
<1> SUFFICES ASSUME Init PROVE Inv OBVIOUS
<1>1. TypeOK BY SettingType DEF Init, TypeOK, tpcp_status
<1>2. \A n \in Node : ControlOK(n) BY DEF Init, ControlOK, Engaged
<1>3. LockedSwitchInPosition BY DEF Init, LockedSwitchInPosition, Locked
<1> QED BY <1>1, <1>2, <1>3 DEF Inv

LEMMA NextKeepsInv == Inv /\ [Next]_vars => Inv'
<1> SUFFICES ASSUME Inv, [Next]_vars PROVE Inv' OBVIOUS
<1>1. CASE UNCHANGED vars
  <2>1. TypeOK' BY <1>1 DEF vars, control, queues, host, Inv, TypeOK
  <2> QED BY <1>1, <2>1, OutsideKeepsInv DEF vars
<1>2. ASSUME NEW n \in Node, controlMain(n) PROVE Inv'
  <2>1. CASE Message(n)
    BY <2>1, CommitKeepsInv, SwitchKeepsInv, RefusalKeepsInv DEF Message
  <2> QED BY <1>2, <2>1, SensorsKeepInv, LoopKeepsInv, PositioningKeepsInv DEF controlMain
<1> QED BY <1>1, <1>2, HostKeepsInv, HandleInKeepsInv, HandleOutKeepsInv, LoopKeepsInv,
           PositioningKeepsInv, TrainKeepsInv DEF Next

LEMMA InvHolds == Spec => []Inv
BY InitEstablishesInv, NextKeepsInv, PTL DEF Spec

\* Every variable keeps its type.
THEOREM TypeCorrect == Spec => []TypeOK
<1>1. Inv => TypeOK BY DEF Inv
<1> QED BY <1>1, InvHolds, PTL

\* Once a switch is reserved or occupied it is in position, whatever is
\* received, refused or fails meanwhile (controlTask.c, positioningTask.c).
THEOREM SwitchesStayPut == Spec => []LockedSwitchInPosition
<1>1. Inv => LockedSwitchInPosition BY DEF Inv
<1> QED BY <1>1, InvHolds, PTL

\* A control task that changes the status of a failed element is resetting it.
LEMMA FailSafeLatchedStep ==
  ASSUME Inv, [Next]_vars, NEW n \in Node, node_routes(n) = Route,
         NODE_STATUS[n] \in FailSafes
  PROVE  NODE_STATUS'[n] \in FailSafes
<1> DEFINE Kept == NODE_STATUS'[n] \in FailSafes
<1>1. CASE UNCHANGED NODE_STATUS BY <1>1
<1>2. ASSUME NEW k \in Node, Sensors(k) \/ ResetNodeStatus(k) \/ AfterPositioning(k)
      PROVE  Kept
  <2>1. CASE k = n
    <3>1. ~SensorOn(k) /\ ~SensorOff(k) /\ ~ButtonOn(k) /\ ~ButtonOff(k)
      BY <2>1 DEF SensorOn, SensorOff, ButtonOn, ButtonOff, FailSafes
    <3>2. ~ResetNodeStatus(k) BY <2>1 DEF ResetNodeStatus, Inv, ControlOK
    <3>3. ~AfterPositioning(k) BY <2>1 DEF AfterPositioning, Inv, ControlOK, FailSafes
    <3> QED BY <1>2, <3>1, <3>2, <3>3 DEF Sensors, NoSensor
  <2>2. CASE k # n
    BY <1>2, <2>2 DEF Sensors, SensorOn, SensorOff, ButtonOn, ButtonOff, NoSensor, ResetNodeStatus,
         AfterPositioning, SwitchAgrees, setNodeStatus, Inv, TypeOK
  <2> QED BY <2>1, <2>2
<1>3. ASSUME NEW k \in Node, Message(k) PROVE Kept
  <2>1. CASE k = n
    <3>1. \A statuses, command : Dispatched(k, statuses, command) => NODE_STATUS[n] \in statuses
      BY <2>1 DEF Dispatched
    <3>2. ~HandleReq(k) /\ ~HandleAck(k) /\ ~HandleCommit(k) /\ ~HandleAgree(k)
      BY <3>1 DEF HandleReq, HandleAck, HandleCommit, HandleAgree, FailSafes
    <3>3. ~HandleAgreeInPosition(k) /\ ~HandleNotOk(k)
      BY <3>1 DEF HandleAgreeInPosition, HandleNotOk, FailSafes, Engaged
    <3> QED BY <1>3, <3>2, <3>3
          DEF Message, RelaySensorOff, UnknownRoute, StartPositioning, AnswerFailSafe,
              HandleErrorMsg
  <2>2. CASE k # n
    BY <1>3, <2>2 DEF Message, RelaySensorOff, UnknownRoute, HandleReq, HandleAck,
         HandleCommit, HandleAgree, HandleAgreeInPosition, StartPositioning, HandleNotOk,
         AnswerFailSafe, HandleErrorMsg, Phase, SwitchAgrees, setNodeStatus, Inv, TypeOK
  <2> QED BY <2>1, <2>2
<1>4. ASSUME NEW k \in Node, DiagFailed(k) PROVE Kept
  BY <1>4 DEF DiagFailed, setNodeStatus, Inv, TypeOK, FailSafes
<1>5. ASSUME NEW k \in Node, controlMain(k) PROVE Kept
  <2>1. CASE NoMessage(k) BY <2>1 DEF NoMessage
  <2> QED BY <1>2, <1>3, <1>5, <2>1 DEF controlMain
<1>6. ASSUME NEW k \in Node, PositioningMain(k) PROVE Kept BY <1>6 DEF PositioningMain
<1> QED BY <1>1, <1>4, <1>5, <1>6
      DEF Next, vars, control, HostCommand, HostReceive, HandleInSingleMsg,
          HandleOutControlMsg, TrainEnters, TrainLeaves

\* A failed element that is on every route never serves again.
THEOREM FailedStaysFailed == Spec => FailSafeLatched
<1>1. Inv /\ [Next]_vars
        => [\A n \in Node :
              node_routes(n) = Route /\ NODE_STATUS[n] \in {"FAIL_SAFE", "PING_FAIL_SAFE"}
                => NODE_STATUS'[n] \in {"FAIL_SAFE", "PING_FAIL_SAFE"}]_vars
  BY FailSafeLatchedStep DEF FailSafes
<1> QED BY <1>1, InvHolds, PTL DEF Spec, FailSafeLatched
-----------------------------------------------------------------------------
(* One train, or the automatic test of host.py: sensors are simulated, and *)
(* every request is made at the head of its route, once the train has left *)
(* the railway.  Positioning may fail, and so may the diagnostics of any   *)
(* element.                                                                *)

AtHead(c) == c.msg.command = "REQ" /\ c.to = nodes_list[c.msg.route_id][1]

OneTrain ==
  /\ setting.SIM_SENSOR
  /\ \A c, d \in setting.commands : c = d /\ AtHead(c)
  /\ setting.AUTOMATIC_TESTING_ROUTES => \A f \in first_nodes : AtHead(NextTest[f])

\* The host PC, then the elements of a route.
Stop(r, i) == IF i = 0 THEN HOST_ID ELSE nodes_list[r][i]

NoMail == [n \in Node |-> << >>]

NoWire == [c \in Channel |-> << >>]

Silent == OUT_CONTROL_QUEUE = NoMail /\ sock = NoWire /\ IN_CONTROL_QUEUE = NoMail

\* There is one message: it is of route r, and under way from a to b.
Mail(command, r, a, b) ==
  \/ /\ sock = NoWire /\ IN_CONTROL_QUEUE = NoMail /\ a \in Node
     /\ \E m \in tpcp_msg :
          /\ m.command = command /\ m.route_id = r /\ m.recevier_id = b
          /\ OUT_CONTROL_QUEUE = [NoMail EXCEPT ![a] = <<m>>]
  \/ /\ OUT_CONTROL_QUEUE = NoMail /\ IN_CONTROL_QUEUE = NoMail
     /\ \E w \in Wire :
          /\ w.command = command /\ w.route_id = r
          /\ sock = [NoWire EXCEPT ![<<a, b>>] = <<w>>]
  \/ /\ OUT_CONTROL_QUEUE = NoMail /\ sock = NoWire /\ b \in Node /\ command # "SENSOR_ON"
     /\ \E m \in tpcp_msg :
          /\ m.command = command /\ m.route_id = r /\ m.sender_id = a /\ m.recevier_id = b
          /\ IN_CONTROL_QUEUE = [NoMail EXCEPT ![b] = <<m>>]

\* The train has left n, which is about to be reset.
HasLeft(n) == NODE_STATUS[n] = "TRAIN_IN_TRANSITION" /\ control_pc[n] = "reset"

\* Element n has the status s, or has failed; a free one may still be reset.
Stands(n, s) ==
  NODE_STATUS[n] \in {s, "PING_FAIL_SAFE"} \/ (s = "NOT_RESERVED" /\ HasLeft(n))

EndsAt(n) ==
  /\ current_route[n] \in node_routes(n)
  /\ rasp_id_next(n, current_route[n]) = TAIL_ID

SetFor(n, r) ==
  IsSwitch(n) => railswitch[n] = [last_route_id |-> r, in_position |-> TRUE]

\* Where the control task of n may be.
LoopOK(n) ==
  /\ control_pc[n] # "crashed"
  /\ control_pc[n] = "reset" => NODE_STATUS[n] \in {"NOT_RESERVED", "TRAIN_IN_TRANSITION"}
  /\ NODE_STATUS[n] = "PING_FAIL_SAFE" => control_pc[n] = "message" /\ n \in setting.PingFailNodes

\* The first c elements of route r have one status, the others another, and the
\* rest of the railway is free; the elements in waits move a switch, those in
\* passing have the train on them, those in flagged and left are about to notice
\* that it comes, and that it went.
Member(n, r, c, back, front, waits, flagged, passing, left) ==
  /\ LoopOK(n)
  /\ n \notin Elements(r) => Stands(n, "NOT_RESERVED")
  /\ n \in Elements(r) =>
       /\ IndexOf(n, r) <= c => Stands(n, back)
       /\ IndexOf(n, r) > c => n \in passing \/ Stands(n, front)
       /\ current_route[n] = r \/ (front = "NOT_RESERVED" /\ IndexOf(n, r) > c)
       /\ front = "RESERVED" /\ (back = "NOT_RESERVED" \/ IndexOf(n, r) > c) => SetFor(n, r)
  /\ control_pc[n] \in {"suspended", "resumed"} <=> n \in waits
  /\ sensor_on_detected[n] => n \in flagged
  /\ n \in flagged => NODE_STATUS[n] = "RESERVED"
  /\ n \in passing => NODE_STATUS[n] = "TRAIN_IN_TRANSITION" /\ control_pc[n] # "reset"
  /\ HasLeft(n) => EndsAt(n) \/ n \in left

Crew(r, c, back, front, waits, flagged, passing, left) ==
  /\ keyboard = {}
  /\ \A n \in Node : Member(n, r, c, back, front, waits, flagged, passing, left)

\* The place of the train, or of the message about it, is c on route r.
OnItsWay(r, c) ==
  LET a == Stop(r, c)
      b == Stop(r, c + 1)
      Reserving(back, front) == Crew(r, c, back, front, {}, {}, {}, {})
      Riding(flagged, passing, left) ==
        Crew(r, c, "NOT_RESERVED", "RESERVED", {}, flagged, passing, left)
  IN \/ Mail("REQ", r, a, b) /\ Reserving("WAIT_ACK", "NOT_RESERVED")
     \/ Mail("ACK", r, b, a) /\ Reserving("WAIT_ACK", "WAIT_COMMIT")
     \/ c # 0 /\ Mail("COMMIT", r, a, b) /\ Reserving("WAIT_AGREE", "WAIT_COMMIT")
     \/ Mail("AGREE", r, b, a) /\ Reserving("WAIT_AGREE", "RESERVED")
     \/ /\ c # 0 /\ Silent /\ Crew(r, c, "WAIT_AGREE", "RESERVED", {a}, {}, {}, {})
        /\ IsSwitch(a) /\ railswitch[a].last_route_id = r
        /\ in_msg[a].command = "AGREE" /\ in_msg[a].route_id = r
     \/ c = 0 /\ Mail("TRAIN_OK", r, b, a) /\ Riding({}, {}, {})
     \/ Mail("SENSOR_ON", r, a, b) /\ Riding({}, {}, {a})
     \/ Silent /\ Riding({b}, {}, {a})
     \/ Silent /\ Riding({}, {b}, {a})
     \/ Mail("SENSOR_OFF", r, b, a) /\ Crew(r, c, "NOT_RESERVED", "NOT_RESERVED", {}, {}, {}, {})

\* Nobody has asked for a route yet, or the train is gone.
AtRest(n) ==
  /\ LoopOK(n) /\ Stands(n, "NOT_RESERVED") /\ (HasLeft(n) => EndsAt(n))
  /\ control_pc[n] \notin {"suspended", "resumed"} /\ ~sensor_on_detected[n]

Idle ==
  /\ Silent /\ keyboard \subseteq setting.commands
  /\ \A n \in Node : AtRest(n)

\* The request has failed: what is still said is NOT_OK, up to one place beyond k.
Hop(r, k, a, b) ==
  \E i \in 0 .. Len(nodes_list[r]) - 1 :
    i <= k /\ <<a, b>> \in {<<Stop(r, i), Stop(r, i + 1)>>, <<Stop(r, i + 1), Stop(r, i)>>}

Refusals(r) == {w \in Wire : w.command = "NOT_OK" /\ w.route_id = r}

Refusing(r, k, n) ==
  {m \in tpcp_msg : Wired(m) \in Refusals(r) /\ (m.recevier_id = n \/ Hop(r, k, n, m.recevier_id))}

Refused(r, k, n) ==
  {m \in tpcp_msg : Wired(m) \in Refusals(r) /\ m.recevier_id = n /\ Hop(r, k, m.sender_id, n)}

OnlyRefusals(r, k) ==
  /\ \A n \in Node : OUT_CONTROL_QUEUE[n] \in Seq(Refusing(r, k, n))
  /\ \A c \in Channel : sock[c] \in Seq(IF Hop(r, k, c[1], c[2]) THEN Refusals(r) ELSE {})
  /\ \A n \in Node : IN_CONTROL_QUEUE[n] \in Seq(Refused(r, k, n))

\* An element ahead of a failed one is still reserved until it hears of it.
DesertedAt(n, r, k) ==
  /\ LoopOK(n)
  /\ n \notin Elements(r) => Stands(n, "NOT_RESERVED")
  /\ n \in Elements(r) /\ IndexOf(n, r) > k =>
       Stands(n, "RESERVED") /\ current_route[n] = r /\ SetFor(n, r)
  /\ n \in Elements(r) /\ IndexOf(n, r) <= k => NODE_STATUS[n] # "RESERVED"
  /\ NODE_STATUS[n] = "TRAIN_IN_TRANSITION" => HasLeft(n)
  /\ HasLeft(n) =>
       \/ EndsAt(n)
       \/ /\ n \in Elements(r) /\ current_route[n] = r /\ rasp_id_next(n, r) # TAIL_ID
          /\ NODE_STATUS[rasp_id_next(n, r)] = "PING_FAIL_SAFE"
          /\ \A m \in Elements(r) : IndexOf(n, r) <= IndexOf(m, r) => SetFor(m, r)
  /\ control_pc[n] \notin {"suspended", "resumed"}
  /\ sensor_on_detected[n] => NODE_STATUS[n] = "PING_FAIL_SAFE"

Deserted(r, k) ==
  /\ keyboard = {}
  /\ \A n \in Node : DesertedAt(n, r, k)

OneTrainInv ==
  /\ Inv /\ OneTrain
  /\ \/ Idle
     \/ \E r \in Route : \E c \in 0 .. Len(nodes_list[r]) - 1 : OnItsWay(r, c)
     \/ \E r \in Route : \E k \in 0 .. Len(nodes_list[r]) : OnlyRefusals(r, k) /\ Deserted(r, k)

-----------------------------------------------------------------------------
(* Stops and messages.                                                     *)

\* Two stops of a route, one after the other.
LEMMA Stops ==
  ASSUME NEW r \in Route, NEW c \in 0 .. Len(nodes_list[r]) - 1
  PROVE  /\ Len(nodes_list[r]) \in Nat \ {0} /\ c \in Nat
         /\ Stop(r, c + 1) \in Elements(r) /\ Stop(r, c + 1) \in Node
         /\ r \in node_routes(Stop(r, c + 1))
         /\ IndexOf(Stop(r, c + 1), r) = c + 1
         /\ rasp_id_prev(Stop(r, c + 1), r) = Stop(r, c)
         /\ Stop(r, c) \in Id /\ Stop(r, c) # Stop(r, c + 1)
         /\ c = 0 => Stop(r, c) = HOST_ID
         /\ c # 0 => Stop(r, c) \in Elements(r) /\ IndexOf(Stop(r, c), r) = c
         /\ <<Stop(r, c), Stop(r, c + 1)>> \in Channel
         /\ <<Stop(r, c + 1), Stop(r, c)>> \in Channel
         /\ HOST_ID \notin Elements(r) /\ HOST_ID \notin Node /\ TAIL_ID \notin Id
<1>1. Len(nodes_list[r]) \in Nat \ {0} BY PlaceOf
<1>2. c \in Nat /\ c + 1 \in 1 .. Len(nodes_list[r]) BY <1>1
<1> DEFINE b == nodes_list[r][c + 1]
<1>3. b \in Elements(r) /\ b \in Node /\ IndexOf(b, r) = c + 1 BY <1>2, PlaceOf
<1>4. Stop(r, c + 1) = b BY <1>2 DEF Stop
<1>5. rasp_id_prev(b, r) = Stop(r, c) BY <1>2, <1>3 DEF rasp_id_prev, Stop
<1>7. c # 0 => c \in 1 .. Len(nodes_list[r]) BY <1>1
<1>8. c # 0 => /\ Stop(r, c) \in Elements(r) /\ IndexOf(Stop(r, c), r) = c
  BY <1>7, PlaceOf DEF Stop
<1>9. c = 0 => Stop(r, c) = HOST_ID BY DEF Stop
<1>10. Stop(r, c) # TAIL_ID /\ Stop(r, c) \in Id /\ Stop(r, c) # b
  BY <1>3, <1>8, <1>9, PlaceOf, RoutesAssumption, <1>2 DEF Id
<1>11. <<Stop(r, c), b>> \in Channel /\ <<b, Stop(r, c)>> \in Channel
  BY <1>3, <1>5, <1>10, Connected
<1>13. HOST_ID \notin Elements(r) /\ HOST_ID \notin Node /\ TAIL_ID \notin Id
  BY PlaceOf, RoutesAssumption DEF Id
<1>14. r \in node_routes(b) BY <1>3 DEF node_routes
<1> QED BY <1>1, <1>2, <1>3, <1>4, <1>5, <1>8, <1>9, <1>10, <1>11, <1>13, <1>14

LEMMA StopOf ==
  ASSUME NEW r \in Route, NEW n \in Elements(r)
  PROVE  /\ n \in Node /\ IndexOf(n, r) \in 1 .. Len(nodes_list[r]) /\ Len(nodes_list[r]) \in Nat
         /\ \A i : IndexOf(n, r) = i => n = Stop(r, i)
<1>1. Len(nodes_list[r]) \in Nat /\ IndexOf(n, r) \in 1 .. Len(nodes_list[r]) /\ n \in Node
      /\ nodes_list[r][IndexOf(n, r)] = n
  BY PlaceOf
<1>2. IndexOf(n, r) # 0 BY <1>1
<1> QED BY <1>1, <1>2 DEF Stop

\* The stop after them, and the stop before them.
LEMMA NextStop ==
  ASSUME NEW r \in Route, NEW c \in 0 .. Len(nodes_list[r]) - 1
  PROVE  \/ /\ c + 1 \in 0 .. Len(nodes_list[r]) - 1 /\ (c + 1) + 1 # 0 /\ c + 1 # 0
            /\ rasp_id_next(Stop(r, c + 1), r) = Stop(r, (c + 1) + 1)
            /\ rasp_id_next(Stop(r, c + 1), r) # TAIL_ID
            /\ rasp_id_next(Stop(r, c + 1), r) \in Node
         \/ /\ rasp_id_next(Stop(r, c + 1), r) = TAIL_ID
            /\ Stop(r, c + 1) = nodes_list[r][Len(nodes_list[r])]
            /\ \A k \in Elements(r) \ {Stop(r, c + 1)} : IndexOf(k, r) <= c /\ ~(IndexOf(k, r) > c)
<1>1. Len(nodes_list[r]) \in Nat \ {0} BY PlaceOf
<1>2. c \in Nat /\ c + 1 \in 1 .. Len(nodes_list[r]) BY <1>1
<1> DEFINE b == nodes_list[r][c + 1]
<1>3. b \in Elements(r) /\ b \in Node /\ IndexOf(b, r) = c + 1 BY <1>2, PlaceOf
<1>4. Stop(r, c + 1) = b BY <1>2 DEF Stop
<1>5. CASE c + 1 = Len(nodes_list[r])
  <2>1. rasp_id_next(b, r) = TAIL_ID BY <1>3, <1>5 DEF rasp_id_next
  <2>2. ASSUME NEW k \in Elements(r), k # b PROVE IndexOf(k, r) <= c /\ ~(IndexOf(k, r) > c)
    <3>1. IndexOf(k, r) \in 1 .. Len(nodes_list[r]) /\ (IndexOf(k, r) = c + 1 => k = Stop(r, c + 1))
      BY StopOf
    <3> QED BY <1>1, <1>2, <1>4, <1>5, <2>2, <3>1
  <2> QED BY <1>4, <1>5, <2>1, <2>2
<1>6. CASE c + 1 # Len(nodes_list[r])
  <2>1. c + 1 \in 0 .. Len(nodes_list[r]) - 1 /\ (c + 1) + 1 \in 1 .. Len(nodes_list[r]) /\ (c + 1) + 1 # 0
        /\ c + 1 # 0
    BY <1>1, <1>2, <1>6
  <2>2. rasp_id_next(b, r) = nodes_list[r][(c + 1) + 1] BY <1>3, <1>6 DEF rasp_id_next
  <2>3. nodes_list[r][(c + 1) + 1] \in Node BY <2>1, PlaceOf
  <2>4. Stop(r, (c + 1) + 1) = nodes_list[r][(c + 1) + 1] BY <2>1 DEF Stop
  <2> QED BY <1>4, <2>1, <2>2, <2>3, <2>4, RoutesAssumption
<1> QED BY <1>5, <1>6

LEMMA StopBefore ==
  ASSUME NEW r \in Route, NEW c \in 0 .. Len(nodes_list[r]) - 1, c # 0
  PROVE  /\ c - 1 \in 0 .. Len(nodes_list[r]) - 1 /\ (c - 1) + 1 = c
         /\ rasp_id_prev(Stop(r, c), r) = Stop(r, c - 1) /\ rasp_id_next(Stop(r, c), r) = Stop(r, c + 1)
         /\ Stop(r, c - 1) = HOST_ID <=> c = 1
         /\ Stop(r, c) \in Node /\ Stop(r, c) \in Elements(r) /\ r \in node_routes(Stop(r, c))
         /\ IndexOf(Stop(r, c), r) = c
         /\ Stop(r, c - 1) \in Id /\ Stop(r, c + 1) \in Node
<1>1. Len(nodes_list[r]) \in Nat \ {0} BY PlaceOf
<1>2. c - 1 \in 0 .. Len(nodes_list[r]) - 1 /\ (c - 1) + 1 = c /\ c \in 1 .. Len(nodes_list[r])
  BY <1>1
<1>3. /\ Stop(r, c) \in Node /\ Stop(r, c) \in Elements(r) /\ r \in node_routes(Stop(r, c))
      /\ IndexOf(Stop(r, c), r) = c /\ rasp_id_prev(Stop(r, c), r) = Stop(r, c - 1)
      /\ Stop(r, c - 1) \in Id
  BY <1>2, Stops
<1>4. Stop(r, c - 1) = HOST_ID <=> c = 1
  <2>1. PICK d \in 0 .. Len(nodes_list[r]) - 1 : d = c - 1 BY <1>2
  <2>2. d # 0 => Stop(r, d) \in Elements(r) BY Stops
  <2>3. HOST_ID \notin Elements(r) BY Stops
  <2>4. d = 0 => Stop(r, d) = HOST_ID BY DEF Stop
  <2>5. d = 0 <=> c = 1 BY <1>2, <2>1
  <2> QED BY <2>1, <2>2, <2>3, <2>4, <2>5
<1>5. rasp_id_next(Stop(r, c), r) = Stop(r, c + 1) /\ Stop(r, c + 1) \in Node
  <2>1. c # Len(nodes_list[r]) /\ c + 1 # 0 BY <1>1
  <2>2. rasp_id_next(Stop(r, c), r) = nodes_list[r][c + 1] BY <1>3, <2>1 DEF rasp_id_next
  <2> QED BY <2>1, <2>2, Stops DEF Stop
<1> QED BY <1>2, <1>3, <1>4, <1>5

\* Nobody is connected to itself.
LEMMA NotToItself == ASSUME NEW n \in Node PROVE <<n, n>> \notin Channel
<1>1. \A r \in node_routes(n) : rasp_id_prev(n, r) # n /\ rasp_id_next(n, r) # n
  BY Beside DEF node_routes
<1>2. n \notin Connections(n) BY <1>1 DEF Connections, prev_nodes, next_nodes
<1>3. <<n, n>>[1] = n /\ <<n, n>>[2] = n OBVIOUS
<1>4. \A m \in first_nodes : <<HOST_ID, m>>[1] = HOST_ID /\ HOST_ID # n BY RoutesAssumption
<1> QED BY <1>2, <1>3, <1>4 DEF Channel

\* The only message goes out ...
LEMMA MailSent ==
  ASSUME OUT_CONTROL_QUEUE = NoMail, sock' = NoWire, IN_CONTROL_QUEUE' = NoMail,
         NEW n \in Node, NEW m \in tpcp_msg, NEW to \in Id, NEW command \in Command,
         Send(n, forwardMsg(n, m, to, command))
  PROVE  Mail(command, m.route_id, n, to)'
<1> DEFINE sent == [m EXCEPT !.command = command, !.sender_id = n, !.recevier_id = to]
<1>1. sent \in tpcp_msg /\ sent.command = command /\ sent.route_id = m.route_id /\ sent.recevier_id = to
  BY DEF tpcp_msg, Id
<1>2. OUT_CONTROL_QUEUE' = [NoMail EXCEPT ![n] = @ \o <<sent>>] BY DEF Send, forwardMsg
<1>3. NoMail[n] \o <<sent>> = <<sent>> BY <1>1 DEF NoMail
<1>4. OUT_CONTROL_QUEUE' = [NoMail EXCEPT ![n] = <<sent>>] BY <1>2, <1>3 DEF NoMail
<1> HIDE DEF sent
<1>5. NoMail' = NoMail /\ NoWire' = NoWire BY DEF NoMail, NoWire
<1> QED BY <1>1, <1>4, <1>5 DEF Mail

\* ... to the connection ...
LEMMA MailOut ==
  ASSUME NEW command, NEW r, NEW a, NEW b, Mail(command, r, a, b), <<a, b>> \in Channel,
         NEW n \in Node, HandleOutControlMsg(n)
  PROVE  Mail(command, r, a, b)'
<1>1. OUT_CONTROL_QUEUE # NoMail BY DEF HandleOutControlMsg, NoMail
<1>2. PICK m \in tpcp_msg :
        /\ sock = NoWire /\ IN_CONTROL_QUEUE = NoMail /\ a \in Node
        /\ m.command = command /\ m.route_id = r /\ m.recevier_id = b
        /\ OUT_CONTROL_QUEUE = [NoMail EXCEPT ![a] = <<m>>]
  BY <1>1 DEF Mail
<1>3. n = a /\ OUT_CONTROL_QUEUE[n] = <<m>> BY <1>2 DEF HandleOutControlMsg, NoMail
<1>4. Head(<<m>>) = m /\ Tail(<<m>>) = << >> BY <1>2
<1>5. OUT_CONTROL_QUEUE' = NoMail
  BY <1>2, <1>3, <1>4 DEF HandleOutControlMsg, NoMail
<1>6. sock' = [NoWire EXCEPT ![<<a, b>>] = Append(@, Wired(m))]
  BY <1>2, <1>3, <1>4 DEF HandleOutControlMsg, SendTo
<1>7. Wired(m) \in Wire /\ Wired(m).command = command /\ Wired(m).route_id = r
  BY <1>2 DEF Wired, Wire, tpcp_msg
<1>8. Append(NoWire[<<a, b>>], Wired(m)) = <<Wired(m)>> BY <1>7 DEF NoWire
<1>9. sock' = [NoWire EXCEPT ![<<a, b>>] = <<Wired(m)>>] BY <1>6, <1>8 DEF NoWire
<1>10. IN_CONTROL_QUEUE' = NoMail BY <1>2 DEF HandleOutControlMsg
<1>11. NoMail' = NoMail /\ NoWire' = NoWire BY DEF NoMail, NoWire
<1> QED BY <1>5, <1>7, <1>9, <1>10, <1>11 DEF Mail

\* ... where the one it is sent to reads it ...
LEMMA MailArrives ==
  ASSUME NEW command, NEW r, NEW a, NEW b, Mail(command, r, a, b),
         NEW x, NEW y, <<x, y>> \in Channel, sock[<<x, y>>] # << >>
  PROVE  /\ x = a /\ y = b
         /\ OUT_CONTROL_QUEUE = NoMail /\ IN_CONTROL_QUEUE = NoMail
         /\ Head(sock[<<x, y>>]) \in Wire
         /\ Head(sock[<<x, y>>]).command = command /\ Head(sock[<<x, y>>]).route_id = r
         /\ [sock EXCEPT ![<<x, y>>] = Tail(@)] = NoWire
<1>1. sock # NoWire BY DEF NoWire
<1>2. PICK w \in Wire :
        /\ OUT_CONTROL_QUEUE = NoMail /\ IN_CONTROL_QUEUE = NoMail
        /\ w.command = command /\ w.route_id = r
        /\ sock = [NoWire EXCEPT ![<<a, b>>] = <<w>>]
  BY <1>1 DEF Mail
<1>3. <<x, y>> = <<a, b>> /\ sock[<<x, y>>] = <<w>> BY <1>2 DEF NoWire
<1>4. Head(<<w>>) = w /\ Tail(<<w>>) = << >> BY <1>2
<1>5. [sock EXCEPT ![<<x, y>>] = Tail(@)] = NoWire BY <1>2, <1>3, <1>4 DEF NoWire
<1> QED BY <1>2, <1>3, <1>4, <1>5

\* ... and the control task receives it.
LEMMA MailReceived ==
  ASSUME NEW command, NEW r, NEW a, NEW b, Mail(command, r, a, b),
         NEW n \in Node, NEW relayed, NEW known, Receives(n, relayed, known)
  PROVE  /\ n = b /\ command # "SENSOR_ON"
         /\ OUT_CONTROL_QUEUE = NoMail /\ sock' = NoWire /\ IN_CONTROL_QUEUE' = NoMail
         /\ Received(n) \in tpcp_msg /\ Received(n).sender_id = a /\ Received(n).recevier_id = n
         /\ Received(n).command = command /\ Received(n).route_id = r
<1>1. IN_CONTROL_QUEUE # NoMail BY DEF Receives, NoMail
<1>2. PICK m \in tpcp_msg :
        /\ OUT_CONTROL_QUEUE = NoMail /\ sock = NoWire /\ command # "SENSOR_ON"
        /\ m.command = command /\ m.route_id = r /\ m.sender_id = a /\ m.recevier_id = b
        /\ IN_CONTROL_QUEUE = [NoMail EXCEPT ![b] = <<m>>]
  BY <1>1 DEF Mail
<1>3. n = b /\ IN_CONTROL_QUEUE[n] = <<m>> BY <1>2 DEF Receives, NoMail
<1>4. Head(<<m>>) = m /\ Tail(<<m>>) = << >> BY <1>2
<1>5. IN_CONTROL_QUEUE' = NoMail BY <1>2, <1>3, <1>4 DEF Receives, NoMail
<1>6. Received(n) = m BY <1>3, <1>4 DEF Received
<1> QED BY <1>2, <1>3, <1>5, <1>6 DEF Receives

\* When nobody says anything, nobody sends, reads or receives.
LEMMA SilentMeans ==
  ASSUME Silent
  PROVE  /\ \A n \in Node : ~HandleOutControlMsg(n)
         /\ \A n \in Node, s \in Id : ~HandleInSingleMsg(n, s)
         /\ \A f \in first_nodes : <<f, HOST_ID>> \in Channel => ~HostReceive(f)
         /\ \A n \in Node : \A relayed, known : ~Receives(n, relayed, known)
<1>1. \A n \in Node : ~HandleOutControlMsg(n) BY DEF Silent, NoMail, HandleOutControlMsg
<1>2. \A n \in Node, s \in Id : ~HandleInSingleMsg(n, s) BY DEF Silent, NoWire, HandleInSingleMsg
<1>3. \A f \in first_nodes : <<f, HOST_ID>> \in Channel => ~HostReceive(f)
  BY DEF Silent, NoWire, HostReceive
<1>4. \A n \in Node : \A relayed, known : ~Receives(n, relayed, known)
  BY DEF Silent, NoMail, Receives
<1> QED BY <1>1, <1>2, <1>3, <1>4

-----------------------------------------------------------------------------
(* One element at a time.                                                  *)

\* Only what belongs to n changes.
OnlyAt(n) ==
  /\ UNCHANGED <<setting, keyboard>>
  /\ \A k \in Node \ {n} :
       /\ NODE_STATUS'[k] = NODE_STATUS[k] /\ current_route'[k] = current_route[k]
       /\ control_pc'[k] = control_pc[k] /\ sensor_on_detected'[k] = sensor_on_detected[k]
       /\ railswitch'[k] = railswitch[k]

LEMMA StepsAreLocal ==
  ASSUME Inv, NEW n \in Node, NEW s \in Id,
         controlMain(n) \/ DiagFailed(n) \/ PositioningMain(n) \/ HandleInSingleMsg(n, s)
  PROVE  OnlyAt(n)
<1>1. TypeOK BY DEF Inv
<1>2. CASE Sensors(n) \/ NoMessage(n) \/ ResetNodeStatus(n) \/ AfterPositioning(n)
  BY <1>1, <1>2 DEF Sensors, SensorOn, SensorOff, ButtonOn, ButtonOff, NoSensor, NoMessage,
     ResetNodeStatus, AfterPositioning, SwitchAgrees, setNodeStatus, Goto, host, OnlyAt, TypeOK
<1>3. CASE RelaySensorOff(n) \/ UnknownRoute(n)
  BY <1>1, <1>3 DEF RelaySensorOff, UnknownRoute, Receives, Goto, host, OnlyAt, TypeOK
<1>4. CASE HandleReq(n) \/ HandleAck(n) \/ HandleCommit(n) \/ HandleAgree(n)
  BY <1>1, <1>4 DEF HandleReq, HandleAck, HandleCommit, HandleAgree, Dispatched, Receives, Phase,
     setNodeStatus, Goto, host, OnlyAt, TypeOK
<1>5. CASE HandleAgreeInPosition(n) \/ StartPositioning(n)
  BY <1>1, <1>5 DEF HandleAgreeInPosition, StartPositioning, Dispatched, Receives, SwitchAgrees,
     setNodeStatus, Goto, host, OnlyAt, TypeOK
<1>6. CASE HandleNotOk(n) \/ AnswerFailSafe(n) \/ HandleErrorMsg(n)
  BY <1>1, <1>6 DEF HandleNotOk, AnswerFailSafe, HandleErrorMsg, Dispatched, Receives, setNodeStatus,
     Goto, host, OnlyAt, TypeOK
<1>7. CASE DiagFailed(n) \/ PositioningMain(n)
  BY <1>1, <1>7 DEF DiagFailed, PositioningMain, setNodeStatus, Goto, host, OnlyAt, TypeOK
<1>8. CASE HandleInSingleMsg(n, s)
  BY <1>1, <1>8 DEF HandleInSingleMsg, control, host, OnlyAt, TypeOK
<1> QED BY <1>2, <1>3, <1>4, <1>5, <1>6, <1>7, <1>8 DEF controlMain, Message

\* The others stay where they stand.
LEMMA MemberElsewhere ==
  ASSUME NEW n, OnlyAt(n), NEW k \in Node \ {n}, NEW r, NEW c, NEW back, NEW front,
         NEW waits, NEW flagged, NEW passing, NEW left,
         Member(k, r, c, back, front, waits, flagged, passing, left)
  PROVE  Member(k, r, c, back, front, waits, flagged, passing, left)'
BY DEF OnlyAt, Member, LoopOK, Stands, HasLeft, EndsAt, SetFor

LEMMA DesertedElsewhere ==
  ASSUME NEW n \in Node, OnlyAt(n), railswitch'[n] = railswitch[n],
         NODE_STATUS[n] = "PING_FAIL_SAFE" => NODE_STATUS'[n] = "PING_FAIL_SAFE",
         NEW k \in Node \ {n}, NEW r \in Route, NEW i, DesertedAt(k, r, i)
  PROVE  DesertedAt(k, r, i)'
<1>1. k \in Elements(r) => rasp_id_next(k, r) \in Node \union {TAIL_ID} BY Beside, PlaceOf
<1>2. \A m \in Elements(r) : SetFor(m, r) => SetFor(m, r)'
  BY PlaceOf DEF OnlyAt, SetFor
<1>3. /\ LoopOK(k)' = LoopOK(k) /\ HasLeft(k)' = HasLeft(k) /\ EndsAt(k)' = EndsAt(k)
      /\ \A s : Stands(k, s)' = Stands(k, s)
  BY DEF OnlyAt, LoopOK, HasLeft, EndsAt, Stands
<1> QED BY <1>1, <1>2, <1>3 DEF OnlyAt, DesertedAt

\* A step of n alone takes the crew from one state to another.
LEMMA CrewAfter ==
  ASSUME NEW n \in Node, OnlyAt(n), keyboard = {}, NEW r, NEW c, NEW back, NEW front,
         NEW waits, NEW flagged, NEW passing, NEW left,
         \A k \in Node \ {n} : Member(k, r, c, back, front, waits, flagged, passing, left),
         Member(n, r, c, back, front, waits, flagged, passing, left)'
  PROVE  Crew(r, c, back, front, waits, flagged, passing, left)'
BY MemberElsewhere DEF Crew, OnlyAt

\* Nothing that belongs to an element changes.
LEMMA CrewSame ==
  ASSUME UNCHANGED <<control, sensor_on_detected, railswitch, setting, keyboard>>,
         NEW r, NEW c, NEW back, NEW front, NEW waits, NEW flagged, NEW passing, NEW left,
         Crew(r, c, back, front, waits, flagged, passing, left)
  PROVE  Crew(r, c, back, front, waits, flagged, passing, left)'
BY DEF control, Crew, Member, LoopOK, Stands, HasLeft, EndsAt, SetFor

\* An element goes round its loop, is reset, or fails.
LEMMA CrewKept ==
  ASSUME Inv, NEW n \in Node, NEW r, NEW c, NEW back, NEW front,
         back # "TRAIN_IN_TRANSITION", front # "TRAIN_IN_TRANSITION", NEW waits, NEW flagged, NEW passing, NEW left,
         Crew(r, c, back, front, waits, flagged, passing, left),
         \/ NoSensor(n) \/ NoMessage(n) \/ ResetNodeStatus(n)
         \/ DiagFailed(n) /\ n \notin flagged /\ n \notin passing
  PROVE  /\ Crew(r, c, back, front, waits, flagged, passing, left)'
         /\ UNCHANGED <<queues, sock, in_msg, railswitch, setting>>
<1>1. UNCHANGED <<queues, sock, in_msg, railswitch, setting>>
  BY DEF NoSensor, NoMessage, ResetNodeStatus, DiagFailed, host
<1>2. OnlyAt(n)
  <2>1. HOST_ID \in Id BY DEF Id
  <2> QED BY <2>1, StepsAreLocal DEF controlMain, Sensors
<1>3. UNCHANGED <<current_route, sensor_on_detected>>
  BY DEF NoSensor, NoMessage, ResetNodeStatus, DiagFailed
<1>4. Member(n, r, c, back, front, waits, flagged, passing, left) BY DEF Crew
<1>5. TypeOK BY DEF Inv
<1>6. Member(n, r, c, back, front, waits, flagged, passing, left)'
  <2>1. CASE NoSensor(n) \/ NoMessage(n)
    <3>1. /\ control_pc[n] \in {"sensors", "message"} /\ control_pc'[n] \in {"sensors", "message"}
          /\ NODE_STATUS' = NODE_STATUS
          /\ NODE_STATUS[n] = "PING_FAIL_SAFE" => control_pc'[n] = "message"
      BY <1>4, <1>5, <2>1 DEF NoSensor, NoMessage, Goto, LoopStart, TypeOK, Locked
    <3> QED BY <1>1, <1>3, <1>4, <3>1 DEF Member, LoopOK, Stands, HasLeft, EndsAt, SetFor
  <2>2. CASE ResetNodeStatus(n)
    <3>1. /\ control_pc[n] = "reset" /\ control_pc'[n] = "message" /\ NODE_STATUS'[n] = "NOT_RESERVED"
      BY <1>5, <2>2 DEF ResetNodeStatus, Goto, setNodeStatus, TypeOK
    <3>2. NODE_STATUS[n] \in {"NOT_RESERVED", "TRAIN_IN_TRANSITION"} BY <1>4, <3>1 DEF Member, LoopOK
    <3> QED BY <1>1, <1>3, <1>4, <3>1, <3>2 DEF Member, LoopOK, Stands, HasLeft, EndsAt, SetFor
  <2>3. CASE DiagFailed(n) /\ n \notin flagged /\ n \notin passing
    <3>1. /\ control_pc[n] = "message" /\ control_pc' = control_pc /\ n \in setting.PingFailNodes
          /\ NODE_STATUS'[n] = "PING_FAIL_SAFE"
      BY <1>5, <2>3 DEF DiagFailed, setNodeStatus, TypeOK
    <3> QED BY <1>1, <1>3, <1>4, <2>3, <3>1 DEF Member, LoopOK, Stands, HasLeft, EndsAt, SetFor
  <2> QED BY <2>1, <2>2, <2>3
<1> QED BY <1>1, <1>2, <1>6, CrewAfter DEF Crew

\* An element that takes part in a reservation has taken a new status.
LEMMA MemberNow ==
  ASSUME NEW n \in Node, NEW r, NEW c, NEW back, NEW front, n \in Elements(r),
         NODE_STATUS'[n] = IF IndexOf(n, r) <= c THEN back ELSE front,
         ~(IndexOf(n, r) <= c) <=> IndexOf(n, r) > c,
         NODE_STATUS'[n] \notin {"PING_FAIL_SAFE", "TRAIN_IN_TRANSITION"},
         control_pc'[n] \in {"message", "sensors"}, ~sensor_on_detected'[n], current_route'[n] = r,
         front = "RESERVED" => SetFor(n, r)'
  PROVE  Member(n, r, c, back, front, {}, {}, {}, {})'
BY DEF Member, LoopOK, Stands, HasLeft

-----------------------------------------------------------------------------
(* The train's message is handled.                                         *)

\* Who handles it, and how: it is always what the status of the element expects,
\* unless the element has failed.
LEMMA Handlers ==
  ASSUME Inv, NEW command \in Command \ {"NOT_OK"}, NEW r \in Route, NEW a, NEW b,
         Mail(command, r, a, b), b \in Elements(r) \/ b \notin Node, NEW n \in Node, Message(n)
  PROVE  /\ n = b /\ control_pc[n] = "message" /\ OnlyAt(n)
         /\ OUT_CONTROL_QUEUE = NoMail /\ sock' = NoWire /\ IN_CONTROL_QUEUE' = NoMail
         /\ Received(n) \in tpcp_msg /\ Received(n).sender_id = a /\ Received(n).recevier_id = n
         /\ Received(n).command = command /\ Received(n).route_id = r
         /\ \/ AnswerFailSafe(n) /\ NODE_STATUS[n] \in FailSafes
            \/ HandleReq(n) /\ command = "REQ" /\ NODE_STATUS[n] = "NOT_RESERVED"
            \/ HandleAck(n) /\ command = "ACK" /\ NODE_STATUS[n] = "WAIT_ACK"
            \/ HandleCommit(n) /\ command = "COMMIT" /\ NODE_STATUS[n] = "WAIT_COMMIT"
            \/ /\ HandleAgree(n) \/ HandleAgreeInPosition(n) \/ StartPositioning(n)
               /\ command = "AGREE" /\ NODE_STATUS[n] = "WAIT_AGREE"
            \/ RelaySensorOff(n) /\ command = "SENSOR_OFF" /\ NODE_STATUS[n] = "NOT_RESERVED"
            \/ /\ HandleErrorMsg(n) /\ NODE_STATUS[n] \notin FailSafes
               /\ command \notin Expected(NODE_STATUS[n])
               /\ ~(command = "SENSOR_OFF" /\ NODE_STATUS[n] = "NOT_RESERVED")
<1>1. PICK relayed, known : Receives(n, relayed, known)
  BY DEF Message, RelaySensorOff, UnknownRoute, HandleReq, HandleAck, HandleCommit, HandleAgree,
     HandleAgreeInPosition, StartPositioning, HandleNotOk, AnswerFailSafe, HandleErrorMsg, Dispatched
<1>2. /\ n = b /\ OUT_CONTROL_QUEUE = NoMail /\ sock' = NoWire /\ IN_CONTROL_QUEUE' = NoMail
      /\ Received(n) \in tpcp_msg /\ Received(n).sender_id = a /\ Received(n).recevier_id = n
      /\ Received(n).command = command /\ Received(n).route_id = r
  BY <1>1, MailReceived
<1>3. r \in node_routes(n) BY <1>2 DEF node_routes
<1>4. ~UnknownRoute(n) BY <1>2, <1>3 DEF UnknownRoute, Receives
<1>5. ~HandleNotOk(n) BY <1>2 DEF HandleNotOk, Dispatched
<1>6. ASSUME NEW statuses, NEW other, Dispatched(n, statuses, other)
      PROVE  /\ other = command /\ NODE_STATUS[n] \in statuses
             /\ ~(command = "SENSOR_OFF" /\ NODE_STATUS[n] = "NOT_RESERVED")
  BY <1>2, <1>6 DEF Dispatched, Receives, IsRelayed
<1>7. OnlyAt(n)
  <2>1. HOST_ID \in Id BY DEF Id
  <2> QED BY <2>1, StepsAreLocal DEF controlMain
<1>8. control_pc[n] = "message" BY <1>1 DEF Receives
<1>9. CASE RelaySensorOff(n)
  <2>1. \E k \in BOOLEAN : Receives(n, TRUE, k) BY <1>9 DEF RelaySensorOff
  <2>2. command = "SENSOR_OFF" /\ NODE_STATUS[n] = "NOT_RESERVED"
    BY <1>2, <2>1 DEF Receives, IsRelayed
  <2> QED BY <1>2, <1>7, <1>8, <1>9, <2>2
<1>10. CASE HandleReq(n)
  <2>1. command = "REQ" /\ NODE_STATUS[n] = "NOT_RESERVED" BY <1>6, <1>10 DEF HandleReq
  <2> QED BY <1>2, <1>7, <1>8, <1>10, <2>1
<1>11. CASE HandleAck(n)
  <2>1. command = "ACK" /\ NODE_STATUS[n] = "WAIT_ACK" BY <1>6, <1>11 DEF HandleAck
  <2> QED BY <1>2, <1>7, <1>8, <1>11, <2>1
<1>12. CASE HandleCommit(n)
  <2>1. command = "COMMIT" /\ NODE_STATUS[n] = "WAIT_COMMIT" BY <1>6, <1>12 DEF HandleCommit
  <2> QED BY <1>2, <1>7, <1>8, <1>12, <2>1
<1>13. CASE HandleAgree(n)
  <2>1. command = "AGREE" /\ NODE_STATUS[n] = "WAIT_AGREE" BY <1>6, <1>13 DEF HandleAgree
  <2> QED BY <1>2, <1>7, <1>8, <1>13, <2>1
<1>14. CASE HandleAgreeInPosition(n)
  <2>1. command = "AGREE" /\ NODE_STATUS[n] = "WAIT_AGREE" BY <1>6, <1>14 DEF HandleAgreeInPosition
  <2> QED BY <1>2, <1>7, <1>8, <1>14, <2>1
<1>15. CASE StartPositioning(n)
  <2>1. command = "AGREE" /\ NODE_STATUS[n] = "WAIT_AGREE" BY <1>6, <1>15 DEF StartPositioning
  <2> QED BY <1>2, <1>7, <1>8, <1>15, <2>1
<1>16. CASE AnswerFailSafe(n)
  BY <1>2, <1>6, <1>7, <1>8, <1>16 DEF AnswerFailSafe, FailSafes
<1>17. CASE HandleErrorMsg(n)
  <2>1. PICK other \in Command \ Expected(NODE_STATUS[n]) :
          Dispatched(n, tpcp_status \ {"FAIL_SAFE", "PING_FAIL_SAFE"}, other)
    BY <1>17 DEF HandleErrorMsg
  <2>2. /\ command \notin Expected(NODE_STATUS[n]) /\ NODE_STATUS[n] \notin FailSafes
        /\ ~(command = "SENSOR_OFF" /\ NODE_STATUS[n] = "NOT_RESERVED")
    BY <1>6, <2>1 DEF FailSafes
  <2> QED BY <1>2, <1>7, <1>8, <1>17, <2>2
<1> QED BY <1>4, <1>5, <1>9, <1>10, <1>11, <1>12, <1>13, <1>14, <1>15, <1>16, <1>17 DEF Message

\* What a phase of the commit does when nothing else is said.
LEMMA PhaseSends ==
  ASSUME Inv, OUT_CONTROL_QUEUE = NoMail, sock' = NoWire, IN_CONTROL_QUEUE' = NoMail,
         NEW n \in Node, Received(n) \in tpcp_msg, NEW r, Received(n).route_id = r,
         NEW to \in Id, NEW said \in Command, Send(n, forwardMsg(n, Received(n), to, said))
  PROVE  Mail(said, r, n, to)'
<1> PICK m \in tpcp_msg : m = Received(n) OBVIOUS
<1>1. Send(n, forwardMsg(n, m, to, said)) /\ m.route_id = r OBVIOUS
<1> HIDE DEF Inv
<1> QED BY <1>1, MailSent

LEMMA PhaseOn ==
  ASSUME Inv, OUT_CONTROL_QUEUE = NoMail, sock' = NoWire, IN_CONTROL_QUEUE' = NoMail,
         NEW n \in Node, Received(n) \in tpcp_msg, NEW r \in node_routes(n), Received(n).route_id = r,
         NEW statuses, NEW command, Dispatched(n, statuses, command),
         NEW middle, NEW edge, NEW new_command \in Command, Phase(n, TRUE, middle, edge, new_command)
  PROVE  /\ UNCHANGED <<in_msg, railswitch, sensor_on_detected>> /\ current_route'[n] = r
         /\ control_pc'[n] = LoopStart(NODE_STATUS'[n])
         /\ rasp_id_next(n, r) = TAIL_ID =>
              NODE_STATUS'[n] = edge /\ Mail(new_command, r, n, rasp_id_prev(n, r))'
         /\ rasp_id_next(n, r) # TAIL_ID =>
              NODE_STATUS'[n] = middle /\ Mail(command, r, n, rasp_id_next(n, r))'
<1>1. UNCHANGED <<in_msg, railswitch, sensor_on_detected>> /\ current_route'[n] = r
  BY DEF Phase, Dispatched, Receives, Inv, TypeOK
<1>2. /\ rasp_id_prev(n, r) \in Id /\ rasp_id_next(n, r) \in Id \union {TAIL_ID}
  BY NeighbourTypes
<1>3. /\ NODE_STATUS'[n] = NewStatus(n, r, TRUE, middle, edge)
      /\ control_pc'[n] = LoopStart(NewStatus(n, r, TRUE, middle, edge))
      /\ Send(n, handleMsg(n, Received(n), r, TRUE, edge, new_command))
  BY DEF Phase, setNodeStatus, Goto, Inv, TypeOK
<1>4. Received(n).command = command /\ command \in Command BY DEF Dispatched, tpcp_msg
<1>5. ASSUME rasp_id_next(n, r) = TAIL_ID
      PROVE  NODE_STATUS'[n] = edge /\ Mail(new_command, r, n, rasp_id_prev(n, r))'
  <2>1. Send(n, forwardMsg(n, Received(n), rasp_id_prev(n, r), new_command))
    BY <1>3, <1>5 DEF handleMsg, AtEdge
  <2>2. NODE_STATUS'[n] = edge BY <1>3, <1>5 DEF NewStatus, AtEdge
  <2> QED BY <1>2, <2>1, <2>2, PhaseSends
<1>6. ASSUME rasp_id_next(n, r) # TAIL_ID
      PROVE  NODE_STATUS'[n] = middle /\ Mail(command, r, n, rasp_id_next(n, r))'
  <2>1. Send(n, forwardMsg(n, Received(n), rasp_id_next(n, r), command))
    BY <1>3, <1>4, <1>6 DEF handleMsg, AtEdge
  <2>2. NODE_STATUS'[n] = middle BY <1>3, <1>6 DEF NewStatus, AtEdge
  <2> QED BY <1>2, <1>4, <1>6, <2>1, <2>2, PhaseSends
<1> QED BY <1>1, <1>3, <1>5, <1>6

LEMMA PhaseBack ==
  ASSUME Inv, OUT_CONTROL_QUEUE = NoMail, sock' = NoWire, IN_CONTROL_QUEUE' = NoMail,
         NEW n \in Node, Received(n) \in tpcp_msg, NEW r \in node_routes(n), Received(n).route_id = r,
         NEW statuses, NEW command, Dispatched(n, statuses, command), NEW middle, NEW edge,
         NEW new_command \in Command, Phase(n, FALSE, middle, edge, new_command)
  PROVE  /\ UNCHANGED <<in_msg, railswitch, sensor_on_detected>> /\ current_route'[n] = r
         /\ control_pc'[n] = LoopStart(NODE_STATUS'[n])
         /\ rasp_id_prev(n, r) = HOST_ID => NODE_STATUS'[n] = edge
         /\ rasp_id_prev(n, r) = HOST_ID /\ edge = "RESERVED" => Mail(new_command, r, n, rasp_id_prev(n, r))'
         /\ rasp_id_prev(n, r) = HOST_ID /\ edge = "WAIT_AGREE" /\ rasp_id_next(n, r) # TAIL_ID =>
              Mail(new_command, r, n, rasp_id_next(n, r))'
         /\ rasp_id_prev(n, r) # HOST_ID =>
              NODE_STATUS'[n] = middle /\ Mail(command, r, n, rasp_id_prev(n, r))'
<1>1. UNCHANGED <<in_msg, railswitch, sensor_on_detected>> /\ current_route'[n] = r
  BY DEF Phase, Dispatched, Receives, Inv, TypeOK
<1>2. rasp_id_prev(n, r) \in Id /\ rasp_id_next(n, r) \in Id \union {TAIL_ID} BY NeighbourTypes
<1>3. /\ NODE_STATUS'[n] = NewStatus(n, r, FALSE, middle, edge)
      /\ control_pc'[n] = LoopStart(NewStatus(n, r, FALSE, middle, edge))
      /\ Send(n, handleMsg(n, Received(n), r, FALSE, edge, new_command))
  BY DEF Phase, setNodeStatus, Goto, Inv, TypeOK
<1>4. Received(n).command = command /\ command \in Command BY DEF Dispatched, tpcp_msg
<1>5. ASSUME rasp_id_prev(n, r) = HOST_ID
      PROVE  /\ NODE_STATUS'[n] = edge
             /\ edge = "RESERVED" => Mail(new_command, r, n, rasp_id_prev(n, r))'
             /\ edge = "WAIT_AGREE" /\ rasp_id_next(n, r) # TAIL_ID
                  => Mail(new_command, r, n, rasp_id_next(n, r))'
  <2>1. edge = "RESERVED" => Send(n, forwardMsg(n, Received(n), rasp_id_prev(n, r), new_command))
    BY <1>3, <1>5 DEF handleMsg, AtEdge
  <2>2. edge = "WAIT_AGREE" => Send(n, forwardMsg(n, Received(n), rasp_id_next(n, r), new_command))
    BY <1>3, <1>5 DEF handleMsg, AtEdge
  <2>3. NODE_STATUS'[n] = edge BY <1>3, <1>5 DEF NewStatus, AtEdge
  <2>4. edge = "RESERVED" => Mail(new_command, r, n, rasp_id_prev(n, r))' BY <1>2, <2>1, PhaseSends
  <2>5. edge = "WAIT_AGREE" /\ rasp_id_next(n, r) # TAIL_ID => Mail(new_command, r, n, rasp_id_next(n, r))'
    BY <1>2, <2>2, PhaseSends
  <2> QED BY <2>3, <2>4, <2>5
<1>6. ASSUME rasp_id_prev(n, r) # HOST_ID
      PROVE  NODE_STATUS'[n] = middle /\ Mail(command, r, n, rasp_id_prev(n, r))'
  <2>1. Send(n, forwardMsg(n, Received(n), rasp_id_prev(n, r), command))
    BY <1>3, <1>4, <1>6 DEF handleMsg, AtEdge
  <2>2. NODE_STATUS'[n] = middle BY <1>3, <1>6 DEF NewStatus, AtEdge
  <2> QED BY <1>2, <1>4, <2>1, <2>2, PhaseSends
<1> QED BY <1>1, <1>3, <1>5, <1>6

\* To the others it is the same whether the train is before or after stop c + 1.
LEMMA MemberShift ==
  ASSUME NEW r \in Route, NEW c \in 0 .. Len(nodes_list[r]) - 1,
         NEW k \in Node \ {Stop(r, c + 1)}, NEW back, NEW front,
         NEW waits, NEW flagged, NEW passing, NEW left
  PROVE  Member(k, r, c, back, front, waits, flagged, passing, left)
           <=> Member(k, r, c + 1, back, front, waits, flagged, passing, left)
<1>1. k \in Elements(r) => IndexOf(k, r) \in Nat /\ IndexOf(k, r) # c + 1 /\ c \in Nat BY StopOf
<1>2. k \in Elements(r) => /\ IndexOf(k, r) <= c <=> IndexOf(k, r) <= c + 1
                           /\ IndexOf(k, r) > c <=> IndexOf(k, r) > c + 1
  BY <1>1
<1> QED BY <1>2 DEF Member

\* A REQ goes on, or reaches the end of the route and comes back as ACK.
LEMMA ReqGoesOn ==
  ASSUME Inv, NEW r \in Route, NEW c \in 0 .. Len(nodes_list[r]) - 1,
         Mail("REQ", r, Stop(r, c), Stop(r, c + 1)),
         Crew(r, c, "WAIT_ACK", "NOT_RESERVED", {}, {}, {}, {}), NEW n \in Node, Message(n)
  PROVE  \/ AnswerFailSafe(n)
         \/ \E d \in 0 .. Len(nodes_list[r]) - 1 : OnItsWay(r, d)'
<1> PICK a, b : a = Stop(r, c) /\ b = Stop(r, c + 1) OBVIOUS
<1>1. /\ b \in Elements(r) /\ b \in Node /\ r \in node_routes(b) /\ IndexOf(b, r) = c + 1 /\ c \in Nat
      /\ rasp_id_prev(b, r) = a
  BY Stops
<1>2. /\ n = b /\ control_pc[n] = "message" /\ OnlyAt(n)
      /\ OUT_CONTROL_QUEUE = NoMail /\ sock' = NoWire /\ IN_CONTROL_QUEUE' = NoMail
      /\ Received(n) \in tpcp_msg /\ Received(n).route_id = r
      /\ \/ AnswerFailSafe(n)
         \/ HandleReq(n) /\ NODE_STATUS[n] = "NOT_RESERVED"
         \/ "REQ" \notin Expected(NODE_STATUS[n]) /\ NODE_STATUS[n] \notin FailSafes
  <2>1. "REQ" \in Command \ {"NOT_OK"} BY DEF Command
  <2> QED BY <1>1, <2>1, Handlers
<1>3. keyboard = {} /\ \A k \in Node : Member(k, r, c, "WAIT_ACK", "NOT_RESERVED", {}, {}, {}, {})
  BY DEF Crew
<1>4. Stands(n, "NOT_RESERVED") /\ LoopOK(n) /\ ~sensor_on_detected[n]
  BY <1>1, <1>2, <1>3 DEF Member
<1>6. CASE HandleReq(n)
  <2>1. Dispatched(n, {"NOT_RESERVED"}, "REQ") /\ Phase(n, TRUE, "WAIT_ACK", "WAIT_COMMIT", "ACK")
    BY <1>6 DEF HandleReq
  <2>2. /\ UNCHANGED <<in_msg, railswitch, sensor_on_detected>> /\ current_route'[n] = r
        /\ control_pc'[n] = LoopStart(NODE_STATUS'[n])
        /\ rasp_id_next(n, r) = TAIL_ID =>
             NODE_STATUS'[n] = "WAIT_COMMIT" /\ Mail("ACK", r, n, rasp_id_prev(n, r))'
        /\ rasp_id_next(n, r) # TAIL_ID =>
             NODE_STATUS'[n] = "WAIT_ACK" /\ Mail("REQ", r, n, rasp_id_next(n, r))'
    <3>1. "ACK" \in Command BY DEF Command
    <3> QED BY <1>1, <1>2, <2>1, <3>1, PhaseOn
  <2>3. control_pc'[n] = "message" /\ ~sensor_on_detected'[n]
    BY <1>4, <2>2 DEF LoopStart, Locked
  <2>4. CASE rasp_id_next(n, r) = TAIL_ID
    <3>1. \A k \in Elements(r) \ {n} : IndexOf(k, r) <= c /\ ~(IndexOf(k, r) > c)
      BY <1>2, <2>4, NextStop
    <3>2. \A k \in Node \ {n} : Member(k, r, c, "WAIT_ACK", "WAIT_COMMIT", {}, {}, {}, {})
      BY <1>3, <3>1 DEF Member
    <3>3. ~(IndexOf(n, r) <= c) /\ IndexOf(n, r) > c BY <1>1, <1>2
    <3>4. Member(n, r, c, "WAIT_ACK", "WAIT_COMMIT", {}, {}, {}, {})'
      BY <1>1, <1>2, <2>2, <2>3, <2>4, <3>3, MemberNow
    <3>5. Crew(r, c, "WAIT_ACK", "WAIT_COMMIT", {}, {}, {}, {})' BY <1>2, <1>3, <3>2, <3>4, CrewAfter
    <3>6. OnItsWay(r, c)' BY <1>1, <1>2, <2>2, <2>4, <3>5 DEF OnItsWay
    <3> QED BY <3>6
  <2>5. CASE rasp_id_next(n, r) # TAIL_ID
    <3>1. \A k \in Node \ {n} : Member(k, r, c + 1, "WAIT_ACK", "NOT_RESERVED", {}, {}, {}, {})
      BY <1>2, <1>3, MemberShift
    <3>2. IndexOf(n, r) <= c + 1 /\ ~(IndexOf(n, r) > c + 1) BY <1>1, <1>2
    <3>3. Member(n, r, c + 1, "WAIT_ACK", "NOT_RESERVED", {}, {}, {}, {})'
      BY <1>1, <1>2, <2>2, <2>3, <2>5, <3>2, MemberNow
    <3>4. Crew(r, c + 1, "WAIT_ACK", "NOT_RESERVED", {}, {}, {}, {})'
      BY <1>2, <1>3, <3>1, <3>3, CrewAfter
    <3>5. rasp_id_next(n, r) = Stop(r, (c + 1) + 1) /\ c + 1 \in 0 .. Len(nodes_list[r]) - 1
      BY <1>2, <2>5, NextStop
    <3>6. OnItsWay(r, c + 1)' BY <1>2, <2>2, <2>5, <3>4, <3>5 DEF OnItsWay
    <3> QED BY <3>5, <3>6
  <2> QED BY <2>4, <2>5
<1>7. ~("REQ" \notin Expected(NODE_STATUS[n]) /\ NODE_STATUS[n] \notin FailSafes)
  <2>1. NODE_STATUS[n] \in {"NOT_RESERVED", "PING_FAIL_SAFE"} BY <1>2, <1>4 DEF Stands, HasLeft
  <2>2. NODE_STATUS[n] = "NOT_RESERVED" => Expected(NODE_STATUS[n]) = {"REQ"} BY DEF Expected
  <2> QED BY <2>1, <2>2 DEF FailSafes
<1> QED BY <1>2, <1>6, <1>7

\* An ACK comes back, or reaches the head of the route and turns into a COMMIT.
LEMMA AckGoesOn ==
  ASSUME Inv, NEW r \in Route, NEW c \in 0 .. Len(nodes_list[r]) - 1,
         Mail("ACK", r, Stop(r, c + 1), Stop(r, c)),
         Crew(r, c, "WAIT_ACK", "WAIT_COMMIT", {}, {}, {}, {}), NEW n \in Node, Message(n)
  PROVE  \/ AnswerFailSafe(n)
         \/ \E d \in 0 .. Len(nodes_list[r]) - 1 : OnItsWay(r, d)'
<1> PICK a, b : a = Stop(r, c) /\ b = Stop(r, c + 1) OBVIOUS
<1>1. /\ a \in Elements(r) \/ a \notin Node
      /\ c = 0 => a \notin Node
  BY Stops
<1>2. /\ n = a /\ control_pc[n] = "message" /\ OnlyAt(n)
      /\ OUT_CONTROL_QUEUE = NoMail /\ sock' = NoWire /\ IN_CONTROL_QUEUE' = NoMail
      /\ Received(n) \in tpcp_msg /\ Received(n).route_id = r
      /\ \/ AnswerFailSafe(n)
         \/ HandleAck(n) /\ NODE_STATUS[n] = "WAIT_ACK"
         \/ "ACK" \notin Expected(NODE_STATUS[n]) /\ NODE_STATUS[n] \notin FailSafes
  <2>1. "ACK" \in Command \ {"NOT_OK"} BY DEF Command
  <2> QED BY <1>1, <2>1, Handlers
<1>3. keyboard = {} /\ \A k \in Node : Member(k, r, c, "WAIT_ACK", "WAIT_COMMIT", {}, {}, {}, {})
  BY DEF Crew
<1>4. c # 0 BY <1>1, <1>2
<1> PICK d \in 0 .. Len(nodes_list[r]) - 1 : d = c - 1 BY <1>4, StopBefore
<1>5. /\ d + 1 = c /\ rasp_id_prev(n, r) = Stop(r, d) /\ rasp_id_next(n, r) = b
      /\ Stop(r, d) = HOST_ID <=> c = 1
      /\ n \in Elements(r) /\ r \in node_routes(n) /\ IndexOf(n, r) = c /\ b \in Node /\ c \in Nat /\ d \in Nat
      /\ b \in Id
  BY <1>2, <1>4, StopBefore, Stops DEF Id
<1>6. Stands(n, "WAIT_ACK") /\ LoopOK(n) /\ ~sensor_on_detected[n]
  BY <1>3, <1>5 DEF Member
<1>7. CASE HandleAck(n)
  <2>1. Dispatched(n, {"WAIT_ACK"}, "ACK") /\ Phase(n, FALSE, "WAIT_COMMIT", "WAIT_AGREE", "COMMIT")
    BY <1>7 DEF HandleAck
  <2>2. /\ UNCHANGED <<in_msg, railswitch, sensor_on_detected>> /\ current_route'[n] = r
        /\ control_pc'[n] = LoopStart(NODE_STATUS'[n])
        /\ rasp_id_prev(n, r) = HOST_ID =>
             NODE_STATUS'[n] = "WAIT_AGREE" /\ Mail("COMMIT", r, n, rasp_id_next(n, r))'
        /\ rasp_id_prev(n, r) # HOST_ID =>
             NODE_STATUS'[n] = "WAIT_COMMIT" /\ Mail("ACK", r, n, rasp_id_prev(n, r))'
    <3>1. "COMMIT" \in Command /\ rasp_id_next(n, r) # TAIL_ID BY <1>5, RoutesAssumption DEF Command
    <3>2. /\ OUT_CONTROL_QUEUE = NoMail /\ sock' = NoWire /\ IN_CONTROL_QUEUE' = NoMail
          /\ Received(n) \in tpcp_msg /\ Received(n).route_id = r /\ r \in node_routes(n)
      BY <1>2, <1>5
    <3>3. PICK edge : edge = "WAIT_AGREE" OBVIOUS
    <3>4. Phase(n, FALSE, "WAIT_COMMIT", edge, "COMMIT") BY <2>1, <3>3
    <3>5. rasp_id_prev(n, r) = HOST_ID => NODE_STATUS'[n] = edge BY <2>1, <3>1, <3>2, <3>4, PhaseBack
    <3>6. /\ UNCHANGED <<in_msg, railswitch, sensor_on_detected>> /\ current_route'[n] = r
          /\ control_pc'[n] = LoopStart(NODE_STATUS'[n])
      BY <2>1, <3>1, <3>2, <3>4, PhaseBack
    <3>7. rasp_id_prev(n, r) = HOST_ID /\ edge = "WAIT_AGREE" /\ rasp_id_next(n, r) # TAIL_ID =>
            Mail("COMMIT", r, n, rasp_id_next(n, r))'
      BY <2>1, <3>1, <3>2, <3>4, PhaseBack
    <3>8. rasp_id_prev(n, r) # HOST_ID =>
             NODE_STATUS'[n] = "WAIT_COMMIT" /\ Mail("ACK", r, n, rasp_id_prev(n, r))'
      BY <2>1, <3>1, <3>2, <3>4, PhaseBack
    <3> QED BY <3>1, <3>3, <3>5, <3>6, <3>7, <3>8
  <2>3. control_pc'[n] = "message" /\ ~sensor_on_detected'[n]
    BY <1>6, <2>2 DEF LoopStart, Locked
  <2>4. CASE rasp_id_prev(n, r) = HOST_ID
    <3>1. c = 1 BY <1>5, <2>4
    <3>2. \A k \in Elements(r) \ {n} : IndexOf(k, r) > c /\ ~(IndexOf(k, r) <= c)
      BY <1>2, <3>1, StopOf
    <3>3. \A k \in Node \ {n} : Member(k, r, c, "WAIT_AGREE", "WAIT_COMMIT", {}, {}, {}, {})
      BY <1>3, <3>2 DEF Member
    <3>4. IndexOf(n, r) <= c /\ ~(IndexOf(n, r) > c) BY <1>5
    <3>5. Member(n, r, c, "WAIT_AGREE", "WAIT_COMMIT", {}, {}, {}, {})'
      BY <1>5, <2>2, <2>3, <2>4, <3>4, MemberNow
    <3>6. Crew(r, c, "WAIT_AGREE", "WAIT_COMMIT", {}, {}, {}, {})' BY <1>2, <1>3, <3>3, <3>5, CrewAfter
    <3>7. OnItsWay(r, c)' BY <1>2, <1>4, <1>5, <2>2, <2>4, <3>6 DEF OnItsWay
    <3> QED BY <3>7
  <2>5. CASE rasp_id_prev(n, r) # HOST_ID
    <3>1. \A k \in Node \ {n} : Member(k, r, d, "WAIT_ACK", "WAIT_COMMIT", {}, {}, {}, {})
      BY <1>2, <1>3, <1>5, MemberShift
    <3>2. IndexOf(n, r) > d /\ ~(IndexOf(n, r) <= d) BY <1>5
    <3>3. Member(n, r, d, "WAIT_ACK", "WAIT_COMMIT", {}, {}, {}, {})'
      BY <1>5, <2>2, <2>3, <2>5, <3>2, MemberNow
    <3>4. Crew(r, d, "WAIT_ACK", "WAIT_COMMIT", {}, {}, {}, {})' BY <1>2, <1>3, <3>1, <3>3, CrewAfter
    <3>5. OnItsWay(r, d)' BY <1>2, <1>5, <2>2, <2>5, <3>4 DEF OnItsWay
    <3> QED BY <3>5
  <2> QED BY <2>4, <2>5
<1>8. ~("ACK" \notin Expected(NODE_STATUS[n]) /\ NODE_STATUS[n] \notin FailSafes)
  <2>1. NODE_STATUS[n] \in {"WAIT_ACK", "PING_FAIL_SAFE"} BY <1>6 DEF Stands
  <2>2. NODE_STATUS[n] = "WAIT_ACK" => Expected(NODE_STATUS[n]) = {"ACK", "NOT_OK"} BY DEF Expected
  <2> QED BY <2>1, <2>2 DEF FailSafes
<1> QED BY <1>2, <1>7, <1>8

\* A COMMIT goes on, or reaches the tail, which agrees.
LEMMA CommitGoesOn ==
  ASSUME Inv, NEW r \in Route, NEW c \in 0 .. Len(nodes_list[r]) - 1,
         Mail("COMMIT", r, Stop(r, c), Stop(r, c + 1)),
         Crew(r, c, "WAIT_AGREE", "WAIT_COMMIT", {}, {}, {}, {}), NEW n \in Node, Message(n)
  PROVE  \/ AnswerFailSafe(n)
         \/ \E d \in 0 .. Len(nodes_list[r]) - 1 : OnItsWay(r, d)'
<1> PICK a, b : a = Stop(r, c) /\ b = Stop(r, c + 1) OBVIOUS
<1>1. /\ b \in Elements(r) /\ b \in Node /\ r \in node_routes(b) /\ IndexOf(b, r) = c + 1 /\ c \in Nat
      /\ rasp_id_prev(b, r) = a
  BY Stops
<1>2. /\ n = b /\ control_pc[n] = "message" /\ OnlyAt(n)
      /\ OUT_CONTROL_QUEUE = NoMail /\ sock' = NoWire /\ IN_CONTROL_QUEUE' = NoMail
      /\ Received(n) \in tpcp_msg /\ Received(n).route_id = r
      /\ \/ AnswerFailSafe(n)
         \/ HandleCommit(n) /\ NODE_STATUS[n] = "WAIT_COMMIT"
         \/ "COMMIT" \notin Expected(NODE_STATUS[n]) /\ NODE_STATUS[n] \notin FailSafes
  <2>1. "COMMIT" \in Command \ {"NOT_OK"} BY DEF Command
  <2> QED BY <1>1, <2>1, Handlers
<1>3. keyboard = {} /\ \A k \in Node : Member(k, r, c, "WAIT_AGREE", "WAIT_COMMIT", {}, {}, {}, {})
  BY DEF Crew
<1>4. Stands(n, "WAIT_COMMIT") /\ LoopOK(n) /\ ~sensor_on_detected[n]
  BY <1>1, <1>2, <1>3 DEF Member
<1>5. CASE HandleCommit(n)
  <2>1. Dispatched(n, {"WAIT_COMMIT"}, "COMMIT") /\ Phase(n, TRUE, "WAIT_AGREE", "RESERVED", "AGREE")
    BY <1>5 DEF HandleCommit
  <2>2. /\ UNCHANGED <<in_msg, railswitch, sensor_on_detected>> /\ current_route'[n] = r
        /\ control_pc'[n] = LoopStart(NODE_STATUS'[n])
        /\ rasp_id_next(n, r) = TAIL_ID =>
             NODE_STATUS'[n] = "RESERVED" /\ Mail("AGREE", r, n, rasp_id_prev(n, r))'
        /\ rasp_id_next(n, r) # TAIL_ID =>
             NODE_STATUS'[n] = "WAIT_AGREE" /\ Mail("COMMIT", r, n, rasp_id_next(n, r))'
    <3>1. "AGREE" \in Command BY DEF Command
    <3> QED BY <1>1, <1>2, <2>1, <3>1, PhaseOn
  <2>3. control_pc'[n] \in {"message", "sensors"} /\ ~sensor_on_detected'[n]
    BY <1>4, <2>2 DEF LoopStart
  <2>4. CASE rasp_id_next(n, r) = TAIL_ID
    <3>1. /\ n = nodes_list[r][Len(nodes_list[r])]
          /\ \A k \in Elements(r) \ {n} : IndexOf(k, r) <= c /\ ~(IndexOf(k, r) > c)
      BY <1>2, <2>4, NextStop
    <3>2. \A k \in Node \ {n} : Member(k, r, c, "WAIT_AGREE", "RESERVED", {}, {}, {}, {})
      BY <1>3, <3>1 DEF Member
    <3>3. ~(IndexOf(n, r) <= c) /\ IndexOf(n, r) > c BY <1>1, <1>2
    <3>4. SetFor(n, r)' BY <3>1, NoRouteEndsWithSwitch DEF SetFor
    <3>5. Member(n, r, c, "WAIT_AGREE", "RESERVED", {}, {}, {}, {})'
      BY <1>1, <1>2, <2>2, <2>3, <2>4, <3>3, <3>4, MemberNow
    <3>6. Crew(r, c, "WAIT_AGREE", "RESERVED", {}, {}, {}, {})' BY <1>2, <1>3, <3>2, <3>5, CrewAfter
    <3>7. OnItsWay(r, c)' BY <1>1, <1>2, <2>2, <2>4, <3>6 DEF OnItsWay
    <3> QED BY <3>7
  <2>5. CASE rasp_id_next(n, r) # TAIL_ID
    <3>1. \A k \in Node \ {n} : Member(k, r, c + 1, "WAIT_AGREE", "WAIT_COMMIT", {}, {}, {}, {})
      BY <1>2, <1>3, MemberShift
    <3>2. IndexOf(n, r) <= c + 1 /\ ~(IndexOf(n, r) > c + 1) BY <1>1, <1>2
    <3>3. Member(n, r, c + 1, "WAIT_AGREE", "WAIT_COMMIT", {}, {}, {}, {})'
      BY <1>1, <1>2, <2>2, <2>3, <2>5, <3>2, MemberNow
    <3>4. Crew(r, c + 1, "WAIT_AGREE", "WAIT_COMMIT", {}, {}, {}, {})'
      BY <1>2, <1>3, <3>1, <3>3, CrewAfter
    <3>5. /\ rasp_id_next(n, r) = Stop(r, (c + 1) + 1) /\ c + 1 \in 0 .. Len(nodes_list[r]) - 1
          /\ c + 1 # 0
      BY <1>2, <2>5, NextStop
    <3>6. OnItsWay(r, c + 1)' BY <1>2, <2>2, <2>5, <3>4, <3>5 DEF OnItsWay
    <3> QED BY <3>5, <3>6
  <2> QED BY <2>4, <2>5
<1>6. ~("COMMIT" \notin Expected(NODE_STATUS[n]) /\ NODE_STATUS[n] \notin FailSafes)
  <2>1. NODE_STATUS[n] \in {"WAIT_COMMIT", "PING_FAIL_SAFE"} BY <1>4 DEF Stands
  <2>2. NODE_STATUS[n] = "WAIT_COMMIT" => Expected(NODE_STATUS[n]) = {"COMMIT", "NOT_OK"} BY DEF Expected
  <2> QED BY <2>1, <2>2 DEF FailSafes
<1> QED BY <1>2, <1>5, <1>6

\* The element before the last one that agreed has agreed.
LEMMA Agreed ==
  ASSUME NEW r \in Route, NEW c \in 0 .. Len(nodes_list[r]) - 1, c # 0,
         NEW d \in 0 .. Len(nodes_list[r]) - 1, d = c - 1,
         NEW n \in Node, n = Stop(r, c), OnlyAt(n), keyboard = {}, NEW waits \in SUBSET {n},
         \A k \in Node \ {n} : Member(k, r, c, "WAIT_AGREE", "RESERVED", waits, {}, {}, {}),
         NODE_STATUS'[n] = "RESERVED", control_pc'[n] \in {"message", "sensors"}, ~sensor_on_detected'[n],
         current_route'[n] = r, SetFor(n, r)'
  PROVE  /\ Crew(r, d, "WAIT_AGREE", "RESERVED", {}, {}, {}, {})'
         /\ d = 0 => Crew(r, d, "NOT_RESERVED", "RESERVED", {}, {}, {}, {})'
<1>1. /\ d + 1 = c /\ n \in Elements(r) /\ IndexOf(n, r) = c /\ c \in Nat /\ d \in Nat
      /\ n = Stop(r, d + 1)
  BY StopBefore, Stops
<1>2. \A k \in Node \ {n} : Member(k, r, c, "WAIT_AGREE", "RESERVED", {}, {}, {}, {})
  BY DEF Member
<1>3. \A k \in Node \ {n} : Member(k, r, d, "WAIT_AGREE", "RESERVED", {}, {}, {}, {})
  BY <1>1, <1>2, MemberShift
<1>4. IndexOf(n, r) > d /\ ~(IndexOf(n, r) <= d) BY <1>1
<1>5. Member(n, r, d, "WAIT_AGREE", "RESERVED", {}, {}, {}, {})'
  BY <1>1, <1>4, MemberNow
<1>6. Crew(r, d, "WAIT_AGREE", "RESERVED", {}, {}, {}, {})' BY <1>3, <1>5, CrewAfter
<1>7. d = 0 => Crew(r, d, "NOT_RESERVED", "RESERVED", {}, {}, {}, {})'
  <2>1. SUFFICES ASSUME d = 0 PROVE Crew(r, d, "NOT_RESERVED", "RESERVED", {}, {}, {}, {})' OBVIOUS
  <2>2. \A k \in Elements(r) : ~(IndexOf(k, r) <= d) /\ IndexOf(k, r) > d BY <2>1, StopOf
  <2>3. \A k \in Node \ {n} : Member(k, r, d, "NOT_RESERVED", "RESERVED", {}, {}, {}, {})
    BY <1>3, <2>2 DEF Member
  <2>4. Member(n, r, d, "NOT_RESERVED", "RESERVED", {}, {}, {}, {})' BY <1>1, <1>4, MemberNow
  <2> QED BY <2>3, <2>4, CrewAfter
<1> QED BY <1>6, <1>7

\* The element passes its AGREE on towards the head.
LEMMA SwitchSends ==
  ASSUME Inv, OUT_CONTROL_QUEUE = NoMail, sock' = NoWire, IN_CONTROL_QUEUE' = NoMail,
         NEW n \in Node, NEW m \in tpcp_msg, m.command = "AGREE", NEW r \in node_routes(n), m.route_id = r,
         SwitchAgrees(n, m)
  PROVE  /\ NODE_STATUS'[n] = "RESERVED" /\ control_pc'[n] = "sensors"
         /\ Mail("AGREE", r, n, rasp_id_prev(n, r))'
<1>1. rasp_id_prev(n, r) \in Id /\ "AGREE" \in Command BY NeighbourTypes DEF Command
<1>2. /\ NODE_STATUS'[n] = "RESERVED" /\ control_pc'[n] = "sensors"
      /\ Send(n, forwardMsg(n, m, rasp_id_prev(n, r), "AGREE"))
  BY DEF SwitchAgrees, setNodeStatus, Goto, LoopStart, Locked, Inv, TypeOK
<1> QED BY <1>1, <1>2, MailSent

\* An AGREE comes back, perhaps once the switch is in position; at the head of the
\* route the train is told.
LEMMA AgreeGoesOn ==
  ASSUME Inv, NEW r \in Route, NEW c \in 0 .. Len(nodes_list[r]) - 1,
         Mail("AGREE", r, Stop(r, c + 1), Stop(r, c)),
         Crew(r, c, "WAIT_AGREE", "RESERVED", {}, {}, {}, {}), NEW n \in Node, Message(n)
  PROVE  \/ AnswerFailSafe(n)
         \/ \E d \in 0 .. Len(nodes_list[r]) - 1 : OnItsWay(r, d)'
<1> PICK a, b : a = Stop(r, c) /\ b = Stop(r, c + 1) OBVIOUS
<1>1. /\ a \in Elements(r) \/ a \notin Node
      /\ c = 0 => a \notin Node
  BY Stops
<1>2. /\ n = a /\ control_pc[n] = "message" /\ OnlyAt(n)
      /\ OUT_CONTROL_QUEUE = NoMail /\ sock' = NoWire /\ IN_CONTROL_QUEUE' = NoMail
      /\ Received(n) \in tpcp_msg /\ Received(n).route_id = r /\ Received(n).command = "AGREE"
      /\ \/ AnswerFailSafe(n)
         \/ /\ HandleAgree(n) \/ HandleAgreeInPosition(n) \/ StartPositioning(n)
            /\ NODE_STATUS[n] = "WAIT_AGREE"
         \/ "AGREE" \notin Expected(NODE_STATUS[n]) /\ NODE_STATUS[n] \notin FailSafes
  <2>1. "AGREE" \in Command \ {"NOT_OK"} BY DEF Command
  <2> QED BY <1>1, <2>1, Handlers
<1>3. keyboard = {} /\ \A k \in Node : Member(k, r, c, "WAIT_AGREE", "RESERVED", {}, {}, {}, {})
  BY DEF Crew
<1>4. c # 0 BY <1>1, <1>2
<1> PICK d \in 0 .. Len(nodes_list[r]) - 1 : d = c - 1 BY <1>4, StopBefore
<1>5. /\ d + 1 = c /\ rasp_id_prev(n, r) = Stop(r, d)
      /\ Stop(r, d) = HOST_ID <=> c = 1
      /\ n \in Elements(r) /\ r \in node_routes(n) /\ IndexOf(n, r) = c /\ c \in Nat /\ d \in Nat
  BY <1>2, <1>4, StopBefore, Stops
<1>6. Stands(n, "WAIT_AGREE") /\ LoopOK(n) /\ ~sensor_on_detected[n]
  BY <1>3, <1>5 DEF Member
<1>7. \A k \in Node \ {n} : Member(k, r, c, "WAIT_AGREE", "RESERVED", {}, {}, {}, {}) BY <1>3
<1>8. /\ "AGREE" \in Command /\ "TRAIN_OK" \in Command /\ {} \in SUBSET {n}
  BY DEF Command
<1>9. CASE HandleAgree(n)
  <2>1. /\ Dispatched(n, {"WAIT_AGREE"}, "AGREE") /\ ~IsSwitch(n)
        /\ Phase(n, FALSE, "RESERVED", "RESERVED", "TRAIN_OK")
    BY <1>9 DEF HandleAgree
  <2>2. /\ OUT_CONTROL_QUEUE = NoMail /\ sock' = NoWire /\ IN_CONTROL_QUEUE' = NoMail
        /\ Received(n) \in tpcp_msg /\ Received(n).route_id = r /\ r \in node_routes(n)
    BY <1>2, <1>5
  <2> PICK reserved : reserved = "RESERVED" OBVIOUS
  <2>3. Phase(n, FALSE, reserved, reserved, "TRAIN_OK") BY <2>1
  <2>4. /\ UNCHANGED <<in_msg, railswitch, sensor_on_detected>> /\ current_route'[n] = r
        /\ control_pc'[n] = LoopStart(NODE_STATUS'[n])
    BY <1>8, <2>1, <2>2, <2>3, PhaseBack
  <2>5. rasp_id_prev(n, r) = HOST_ID =>
          NODE_STATUS'[n] = reserved /\ Mail("TRAIN_OK", r, n, rasp_id_prev(n, r))'
    BY <1>8, <2>1, <2>2, <2>3, PhaseBack
  <2>6. rasp_id_prev(n, r) # HOST_ID =>
          NODE_STATUS'[n] = reserved /\ Mail("AGREE", r, n, rasp_id_prev(n, r))'
    BY <1>8, <2>1, <2>2, <2>3, PhaseBack
  <2>7. NODE_STATUS'[n] = "RESERVED" /\ control_pc'[n] = "sensors" /\ ~sensor_on_detected'[n]
    BY <1>6, <2>4, <2>5, <2>6 DEF LoopStart, Locked
  <2>8. SetFor(n, r)' BY <2>1 DEF SetFor
  <2>9. /\ Crew(r, d, "WAIT_AGREE", "RESERVED", {}, {}, {}, {})'
        /\ d = 0 => Crew(r, d, "NOT_RESERVED", "RESERVED", {}, {}, {}, {})'
    BY <1>2, <1>3, <1>4, <1>7, <1>8, <2>4, <2>7, <2>8, Agreed
  <2>10. CASE rasp_id_prev(n, r) = HOST_ID
    <3>1. d = 0 BY <1>5, <2>10
    <3>2. OnItsWay(r, d)' BY <1>2, <1>5, <2>5, <2>9, <2>10, <3>1 DEF OnItsWay
    <3> QED BY <3>2
  <2>11. CASE rasp_id_prev(n, r) # HOST_ID
    <3>1. OnItsWay(r, d)' BY <1>2, <1>5, <2>6, <2>9, <2>11 DEF OnItsWay
    <3> QED BY <3>1
  <2> QED BY <2>10, <2>11
<1>10. CASE HandleAgreeInPosition(n)
  <2>1. /\ Dispatched(n, {"WAIT_AGREE"}, "AGREE") /\ ~NeedsPositioning(n, r) /\ IsSwitch(n)
        /\ SwitchAgrees(n, Received(n)) /\ UNCHANGED railswitch
    BY <1>2, <1>10 DEF HandleAgreeInPosition
  <2>2. /\ UNCHANGED sensor_on_detected /\ current_route'[n] = r
    BY <1>2, <2>1 DEF Dispatched, Receives, Inv, TypeOK
  <2>3. /\ NODE_STATUS'[n] = "RESERVED" /\ control_pc'[n] = "sensors"
        /\ Mail("AGREE", r, n, rasp_id_prev(n, r))'
    BY <1>2, <1>5, <2>1, SwitchSends
  <2>4. SetFor(n, r)' BY <2>1 DEF SetFor, NeedsPositioning, Inv, TypeOK
  <2>5. Crew(r, d, "WAIT_AGREE", "RESERVED", {}, {}, {}, {})'
    BY <1>2, <1>3, <1>4, <1>6, <1>7, <1>8, <2>2, <2>3, <2>4, Agreed
  <2>6. OnItsWay(r, d)' BY <1>2, <1>5, <2>3, <2>5 DEF OnItsWay
  <2> QED BY <2>6
<1>11. CASE StartPositioning(n) /\ NODE_STATUS[n] = "WAIT_AGREE"
  <2>1. /\ Dispatched(n, {"WAIT_AGREE"}, "AGREE") /\ IsSwitch(n)
        /\ railswitch' = [railswitch EXCEPT ![n].last_route_id = r]
        /\ in_msg' = [in_msg EXCEPT ![n] = Received(n)] /\ Goto(n, "suspended")
        /\ UNCHANGED <<NODE_STATUS, OUT_CONTROL_QUEUE>>
    BY <1>2, <1>11 DEF StartPositioning, NeedsPositioning
  <2>2. /\ UNCHANGED sensor_on_detected /\ current_route'[n] = r /\ control_pc'[n] = "suspended"
        /\ railswitch'[n].last_route_id = r
        /\ in_msg'[n].command = "AGREE" /\ in_msg'[n].route_id = r
    BY <1>2, <2>1 DEF Dispatched, Receives, Goto, Inv, TypeOK
  <2>3. \A k \in Node \ {n} : Member(k, r, c, "WAIT_AGREE", "RESERVED", {n}, {}, {}, {})
    BY <1>7 DEF Member
  <2>4. IndexOf(n, r) <= c /\ ~(IndexOf(n, r) > c) BY <1>5
  <2>5. Member(n, r, c, "WAIT_AGREE", "RESERVED", {n}, {}, {}, {})'
    BY <1>5, <1>6, <1>11, <2>1, <2>2, <2>4 DEF Member, LoopOK, Stands, HasLeft
  <2>6. Crew(r, c, "WAIT_AGREE", "RESERVED", {n}, {}, {}, {})' BY <1>2, <1>3, <2>3, <2>5, CrewAfter
  <2>7. Silent' BY <1>2, <2>1 DEF Silent, NoMail, NoWire
  <2>8. IsSwitch(n)' BY <2>1
  <2>9. OnItsWay(r, c)' BY <1>2, <1>4, <2>1, <2>2, <2>6, <2>7 DEF OnItsWay
  <2> QED BY <2>9
<1>12. ~("AGREE" \notin Expected(NODE_STATUS[n]) /\ NODE_STATUS[n] \notin FailSafes)
  <2>1. NODE_STATUS[n] \in {"WAIT_AGREE", "PING_FAIL_SAFE"} BY <1>6 DEF Stands
  <2>2. NODE_STATUS[n] = "WAIT_AGREE" => Expected(NODE_STATUS[n]) = {"AGREE", "NOT_OK"} BY DEF Expected
  <2> QED BY <2>1, <2>2 DEF FailSafes
<1> QED BY <1>2, <1>9, <1>10, <1>11, <1>12

\* The switch moves; once it is in position, the AGREE goes on.
LEMMA PositioningGoesOn ==
  ASSUME Inv, NEW r \in Route, NEW c \in 0 .. Len(nodes_list[r]) - 1, NEW a, a = Stop(r, c),
         c # 0, Silent, Crew(r, c, "WAIT_AGREE", "RESERVED", {a}, {}, {}, {}),
         IsSwitch(a), railswitch[a].last_route_id = r,
         in_msg[a].command = "AGREE", in_msg[a].route_id = r,
         NEW n \in Node, PositioningMain(n) \/ (AfterPositioning(n) /\ Positioned(n))
  PROVE  \E d \in 0 .. Len(nodes_list[r]) - 1 : OnItsWay(r, d)'
<1> PICK d \in 0 .. Len(nodes_list[r]) - 1 : d = c - 1 BY StopBefore
<1>1. keyboard = {} /\ \A k \in Node : Member(k, r, c, "WAIT_AGREE", "RESERVED", {a}, {}, {}, {})
  BY DEF Crew
<1>2. n = a /\ control_pc[n] \in {"suspended", "resumed"}
  BY <1>1 DEF PositioningMain, AfterPositioning, Member
<1>3. OnlyAt(n)
  <2>1. HOST_ID \in Id BY DEF Id
  <2> QED BY <2>1, StepsAreLocal DEF controlMain
<1>4. /\ d + 1 = c /\ rasp_id_prev(n, r) = Stop(r, d) /\ n = Stop(r, d + 1)
      /\ n \in Elements(r) /\ r \in node_routes(n) /\ IndexOf(n, r) = c /\ c \in Nat /\ d \in Nat
  BY <1>2, StopBefore, Stops
<1>5. NODE_STATUS[n] = "WAIT_AGREE" /\ in_msg[n] \in tpcp_msg BY <1>2 DEF Inv, ControlOK
<1>6. LoopOK(n) /\ ~sensor_on_detected[n] /\ current_route[n] = r BY <1>1, <1>4 DEF Member
<1>7. CASE PositioningMain(n)
  <2>1. /\ UNCHANGED <<NODE_STATUS, current_route, in_msg, sensor_on_detected, queues, sock>>
        /\ control_pc'[n] = "resumed" /\ railswitch'[n].last_route_id = r
    BY <1>2, <1>7 DEF PositioningMain, Goto, Inv, TypeOK
  <2>2. IndexOf(n, r) <= c /\ ~(IndexOf(n, r) > c) BY <1>4
  <2>3. Member(n, r, c, "WAIT_AGREE", "RESERVED", {n}, {}, {}, {})'
    BY <1>4, <1>5, <1>6, <2>1, <2>2 DEF Member, LoopOK, Stands, HasLeft
  <2>4. Crew(r, c, "WAIT_AGREE", "RESERVED", {n}, {}, {}, {})' BY <1>1, <1>2, <1>3, <2>3, CrewAfter
  <2>5. Silent' BY <2>1 DEF Silent, NoMail, NoWire, queues
  <2>6. in_msg'[n].command = "AGREE" /\ in_msg'[n].route_id = r BY <1>2, <2>1
  <2>7. OnItsWay(r, c)' BY <1>2, <2>1, <2>4, <2>5, <2>6 DEF OnItsWay
  <2> QED BY <2>7
<1>8. CASE AfterPositioning(n) /\ Positioned(n)
  <2>1. SwitchAgrees(n, in_msg[n]) /\ UNCHANGED <<current_route, sensor_on_detected, railswitch>>
        /\ OUT_CONTROL_QUEUE = NoMail /\ sock' = NoWire /\ IN_CONTROL_QUEUE' = NoMail
    BY <1>8 DEF AfterPositioning, Silent
  <2>2. /\ NODE_STATUS'[n] = "RESERVED" /\ control_pc'[n] = "sensors"
        /\ Mail("AGREE", r, n, rasp_id_prev(n, r))'
    BY <1>2, <1>4, <1>5, <2>1, SwitchSends
  <2>3. SetFor(n, r)' BY <1>2, <1>8, <2>1 DEF SetFor, Positioned, Inv, TypeOK
  <2>4. {n} \in SUBSET {n} OBVIOUS
  <2>5. \A k \in Node \ {n} : Member(k, r, c, "WAIT_AGREE", "RESERVED", {n}, {}, {}, {})
    BY <1>1, <1>2
  <2>6. Crew(r, d, "WAIT_AGREE", "RESERVED", {}, {}, {}, {})'
    BY <1>1, <1>2, <1>3, <1>6, <2>1, <2>2, <2>3, <2>4, <2>5, Agreed
  <2>7. OnItsWay(r, d)' BY <1>4, <2>2, <2>6 DEF OnItsWay
  <2> QED BY <2>7
<1> QED BY <1>7, <1>8

\* A SENSOR_OFF goes back along the elements that the train has left.
LEMMA SensorOffGoesOn ==
  ASSUME Inv, NEW r \in Route, NEW c \in 0 .. Len(nodes_list[r]) - 1,
         Mail("SENSOR_OFF", r, Stop(r, c + 1), Stop(r, c)),
         Crew(r, c, "NOT_RESERVED", "NOT_RESERVED", {}, {}, {}, {}), NEW n \in Node, Message(n)
  PROVE  \/ AnswerFailSafe(n)
         \/ \E d \in 0 .. Len(nodes_list[r]) - 1 : OnItsWay(r, d)'
<1> PICK a : a = Stop(r, c) OBVIOUS
<1>1. /\ a \in Elements(r) \/ a \notin Node
      /\ c = 0 => a \notin Node
  BY Stops
<1>2. /\ n = a /\ control_pc[n] = "message" /\ OnlyAt(n)
      /\ OUT_CONTROL_QUEUE = NoMail /\ sock' = NoWire /\ IN_CONTROL_QUEUE' = NoMail
      /\ Received(n) \in tpcp_msg /\ Received(n).route_id = r
      /\ \/ AnswerFailSafe(n)
         \/ RelaySensorOff(n) /\ NODE_STATUS[n] = "NOT_RESERVED"
         \/ NODE_STATUS[n] \notin FailSafes /\ NODE_STATUS[n] # "NOT_RESERVED"
  <2>1. "SENSOR_OFF" \in Command \ {"NOT_OK"} BY DEF Command
  <2> QED BY <1>1, <2>1, Handlers
<1>3. keyboard = {} /\ \A k \in Node : Member(k, r, c, "NOT_RESERVED", "NOT_RESERVED", {}, {}, {}, {})
  BY DEF Crew
<1>4. c # 0 BY <1>1, <1>2
<1> PICK d \in 0 .. Len(nodes_list[r]) - 1 : d = c - 1 BY <1>4, StopBefore
<1>5. /\ d + 1 = c /\ rasp_id_prev(n, r) = Stop(r, d) /\ n = Stop(r, d + 1)
      /\ n \in Elements(r) /\ r \in node_routes(n) /\ IndexOf(n, r) = c /\ c \in Nat /\ d \in Nat
  BY <1>2, <1>4, StopBefore, Stops
<1>6. /\ Stands(n, "NOT_RESERVED") /\ LoopOK(n) /\ ~sensor_on_detected[n]
      /\ IndexOf(n, r) > c \/ current_route[n] = r
  BY <1>3, <1>5 DEF Member
<1>7. CASE RelaySensorOff(n) /\ NODE_STATUS[n] = "NOT_RESERVED"
  <2>1. current_route[n] = r /\ r # NULL /\ r \in Route BY <1>5, <1>6, InterlockingAssumption
  <2>2. /\ Send(n, forwardMsg(n, Received(n), rasp_id_prev(n, r), "SENSOR_OFF"))
        /\ Goto(n, "reset") /\ UNCHANGED <<NODE_STATUS, current_route, railswitch, sensor_on_detected>>
    BY <1>7, <2>1 DEF RelaySensorOff, Receives
  <2>3. rasp_id_prev(n, r) \in Id /\ "SENSOR_OFF" \in Command BY <1>5, NeighbourTypes DEF Command
  <2>4. Mail("SENSOR_OFF", r, n, rasp_id_prev(n, r))' BY <1>2, <2>2, <2>3, PhaseSends
  <2>5. control_pc'[n] = "reset" BY <2>2 DEF Goto, Inv, TypeOK
  <2>6. \A k \in Node \ {n} : Member(k, r, d, "NOT_RESERVED", "NOT_RESERVED", {}, {}, {}, {})
    BY <1>3, <1>5, MemberShift
  <2>7. Member(n, r, d, "NOT_RESERVED", "NOT_RESERVED", {}, {}, {}, {})'
    BY <1>5, <1>6, <1>7, <2>1, <2>2, <2>5 DEF Member, LoopOK, Stands, HasLeft
  <2>8. Crew(r, d, "NOT_RESERVED", "NOT_RESERVED", {}, {}, {}, {})' BY <1>2, <1>3, <2>6, <2>7, CrewAfter
  <2>9. OnItsWay(r, d)' BY <1>5, <2>4, <2>8 DEF OnItsWay
  <2> QED BY <2>9
<1>8. NODE_STATUS[n] \in {"NOT_RESERVED", "PING_FAIL_SAFE"} BY <1>2, <1>6 DEF Stands, HasLeft
<1> QED BY <1>2, <1>7, <1>8 DEF FailSafes

-----------------------------------------------------------------------------
(* The communication task, the sensors and the host PC.                    *)

\* What the neighbour reads is handed to its control task, or refused.
Bounced(r, a, b) ==
  /\ OUT_CONTROL_QUEUE = NoMail /\ IN_CONTROL_QUEUE = NoMail
  /\ \E w \in Refusals(r) : sock = [NoWire EXCEPT ![<<b, a>>] = <<w>>]

LEMMA MailIn ==
  ASSUME Inv, NEW command \in Command \ {"SENSOR_ON"}, NEW r, NEW a, NEW b, Mail(command, r, a, b),
         <<b, a>> \in Channel, NEW n \in Node, NEW s \in Id, HandleInSingleMsg(n, s)
  PROVE  /\ n = b /\ s = a /\ UNCHANGED <<control, sensor_on_detected, railswitch, setting, keyboard>>
         /\ Mail(command, r, a, b)' \/ Bounced(r, a, b)'
<1> DEFINE w == Head(sock[<<s, n>>])
           m == [command |-> w.command, host_id |-> Claimed(n, w.host_id), route_id |-> w.route_id,
                 sender_id |-> s, recevier_id |-> n]
<1>1. /\ s = a /\ n = b
      /\ OUT_CONTROL_QUEUE = NoMail /\ IN_CONTROL_QUEUE = NoMail
      /\ w \in Wire /\ w.command = command /\ w.route_id = r
      /\ [sock EXCEPT ![<<s, n>>] = Tail(@)] = NoWire
  BY MailArrives DEF HandleInSingleMsg
<1>2. /\ UNCHANGED <<control, sensor_on_detected, railswitch, setting, keyboard>>
      /\ OUT_CONTROL_QUEUE' = NoMail
  BY <1>1 DEF HandleInSingleMsg, host
<1>3. NoMail' = NoMail /\ NoWire' = NoWire BY DEF NoMail, NoWire
<1>4. CASE /\ IN_CONTROL_QUEUE' = [IN_CONTROL_QUEUE EXCEPT ![n] = Append(@, m)]
           /\ sock' = [sock EXCEPT ![<<s, n>>] = Tail(@)]
  <2>1. Inv' BY HandleInKeepsInv
  <2>2. Append(NoMail[n], m) = <<m>> BY DEF NoMail
  <2>3. IN_CONTROL_QUEUE' = [NoMail EXCEPT ![n] = <<m>>]
    <3> HIDE DEF m
    <3> QED BY <1>1, <1>4, <2>2 DEF NoMail
  <2>4. m.command = command /\ m.route_id = r /\ m.sender_id = a /\ m.recevier_id = b BY <1>1
  <2> HIDE DEF m, w
  <2>5. IN_CONTROL_QUEUE'[n] = <<m>> BY <2>3 DEF NoMail
  <2>6. <<m>> \in Seq(tpcp_msg)
    <3>1. IN_CONTROL_QUEUE'[n] \in Seq(tpcp_msg) BY <2>1 DEF Inv, TypeOK
    <3> QED BY <2>5, <3>1
  <2>7. m \in tpcp_msg
    <3>1. <<m>>[1] \in tpcp_msg BY <2>6
    <3> QED BY <3>1
  <2>8. b \in Node /\ command # "SENSOR_ON" BY <1>1
  <2>9. IN_CONTROL_QUEUE' = [NoMail EXCEPT ![b] = <<m>>] BY <1>1, <2>3
  <2>10. sock' = NoWire BY <1>1, <1>4
  <2>11. Mail(command, r, a, b)' BY <1>2, <1>3, <2>4, <2>7, <2>8, <2>9, <2>10 DEF Mail
  <2> QED BY <1>1, <1>2, <2>11
<1>5. CASE /\ IN_CONTROL_QUEUE' = IN_CONTROL_QUEUE
           /\ sock' = SendTo([sock EXCEPT ![<<s, n>>] = Tail(@)], n, s, [w EXCEPT !.command = "NOT_OK"])
  <2> PICK refusal : refusal = [w EXCEPT !.command = "NOT_OK"] OBVIOUS
  <2>1. refusal \in Refusals(r) BY <1>1 DEF Refusals, Wire, Command
  <2>2. sock' = SendTo(NoWire, n, s, refusal) BY <1>1, <1>5
  <2>3. sock' = [NoWire EXCEPT ![<<n, s>>] = Append(@, refusal)] BY <1>1, <2>2 DEF SendTo
  <2>4. Append(NoWire[<<n, s>>], refusal) = <<refusal>> BY <1>1 DEF NoWire
  <2>5. sock' = [NoWire EXCEPT ![<<b, a>>] = <<refusal>>] BY <1>1, <2>3, <2>4 DEF NoWire
  <2>6. Refusals(r)' = Refusals(r) BY DEF Refusals
  <2>7. Bounced(r, a, b)' BY <1>1, <1>2, <1>3, <1>5, <2>1, <2>5, <2>6 DEF Bounced
  <2> QED BY <1>1, <1>2, <2>7
<1> HIDE DEF m
<1> QED BY <1>1, <1>4, <1>5 DEF HandleInSingleMsg, m

\* A SENSOR_ON raises the flag of the element, if it is still in service.
LEMMA SensorOnArrives ==
  ASSUME Inv, NEW r \in Route, NEW c \in 0 .. Len(nodes_list[r]) - 1, NEW a, NEW b,
         a = Stop(r, c), b = Stop(r, c + 1),
         Mail("SENSOR_ON", r, a, b), Crew(r, c, "NOT_RESERVED", "RESERVED", {}, {}, {}, {a}),
         NEW n \in Node, NEW s \in Id, HandleInSingleMsg(n, s)
  PROVE  /\ n = b /\ OnlyAt(n) /\ Silent'
         /\ UNCHANGED <<control, railswitch>> /\ sensor_on_detected'[n]
         /\ NODE_STATUS[n] = "PING_FAIL_SAFE" \/ OnItsWay(r, c)'
<1>1. /\ n = b /\ s = a /\ Head(sock[<<s, n>>]).command = "SENSOR_ON"
      /\ OUT_CONTROL_QUEUE = NoMail /\ IN_CONTROL_QUEUE = NoMail
      /\ [sock EXCEPT ![<<s, n>>] = Tail(@)] = NoWire
  BY MailArrives DEF HandleInSingleMsg
<1>2. /\ UNCHANGED <<control, railswitch, OUT_CONTROL_QUEUE, IN_CONTROL_QUEUE>>
      /\ sock' = NoWire /\ sensor_on_detected'[n]
  BY <1>1 DEF HandleInSingleMsg, Inv, TypeOK
<1>3. OnlyAt(n) BY StepsAreLocal
<1>4. Silent' BY <1>1, <1>2 DEF Silent, NoMail, NoWire
<1>5. n \in Elements(r) /\ IndexOf(n, r) > c /\ ~(IndexOf(n, r) <= c)
  <2>1. n \in Elements(r) /\ IndexOf(n, r) = c + 1 /\ c \in Nat BY <1>1, Stops
  <2> QED BY <2>1
<1>6. /\ keyboard = {}
      /\ \A k \in Node : Member(k, r, c, "NOT_RESERVED", "RESERVED", {}, {}, {}, {a})
  BY DEF Crew
<1>7. Stands(n, "RESERVED") BY <1>5, <1>6 DEF Member
<1>8. CASE NODE_STATUS[n] = "RESERVED"
  <2>1. \A k \in Node \ {n} : Member(k, r, c, "NOT_RESERVED", "RESERVED", {}, {n}, {}, {a})
    BY <1>6 DEF Member
  <2>2. Member(n, r, c, "NOT_RESERVED", "RESERVED", {}, {n}, {}, {a})'
    BY <1>2, <1>5, <1>6, <1>8 DEF Member, control, LoopOK, Stands, HasLeft, EndsAt, SetFor
  <2>3. Crew(r, c, "NOT_RESERVED", "RESERVED", {}, {n}, {}, {a})'
    BY <1>3, <1>6, <2>1, <2>2, CrewAfter
  <2>4. OnItsWay(r, c)' BY <1>1, <1>4, <2>3 DEF OnItsWay
  <2> QED BY <1>1, <1>2, <1>3, <1>4, <2>4
<1> QED BY <1>1, <1>2, <1>3, <1>4, <1>7, <1>8 DEF Stands

\* The train enters the element.
LEMMA TrainComesIn ==
  ASSUME Inv, NEW r \in Route, NEW c \in 0 .. Len(nodes_list[r]) - 1, NEW a, NEW b,
         a = Stop(r, c), b = Stop(r, c + 1), Silent,
         Crew(r, c, "NOT_RESERVED", "RESERVED", {}, {b}, {}, {a}), NEW n \in Node, SensorOn(n)
  PROVE  OnItsWay(r, c)'
<1>1. /\ keyboard = {}
      /\ \A k \in Node : Member(k, r, c, "NOT_RESERVED", "RESERVED", {}, {b}, {}, {a})
  BY DEF Crew
<1>2. n = b BY <1>1 DEF SensorOn, Member
<1>3. n \in Elements(r) /\ IndexOf(n, r) > c /\ ~(IndexOf(n, r) <= c)
  <2>1. n \in Elements(r) /\ IndexOf(n, r) = c + 1 /\ c \in Nat BY <1>2, Stops
  <2> QED BY <2>1
<1>4. OnlyAt(n)
  <2>1. HOST_ID \in Id BY DEF Id
  <2> QED BY <2>1, StepsAreLocal DEF controlMain, Sensors
<1>5. /\ NODE_STATUS'[n] = "TRAIN_IN_TRANSITION" /\ control_pc'[n] = "message"
      /\ ~sensor_on_detected'[n] /\ UNCHANGED <<current_route, railswitch, queues, sock>>
  BY DEF SensorOn, setNodeStatus, Goto, Inv, TypeOK
<1>6. \A k \in Node \ {n} : Member(k, r, c, "NOT_RESERVED", "RESERVED", {}, {}, {n}, {a})
  BY <1>1, <1>2 DEF Member
<1>7. Member(n, r, c, "NOT_RESERVED", "RESERVED", {}, {}, {n}, {a})'
  BY <1>1, <1>3, <1>5 DEF Member, LoopOK, Stands, HasLeft, SetFor
<1>8. Crew(r, c, "NOT_RESERVED", "RESERVED", {}, {}, {n}, {a})' BY <1>1, <1>4, <1>6, <1>7, CrewAfter
<1>9. Silent' BY <1>5 DEF Silent, NoMail, NoWire, queues
<1> QED BY <1>2, <1>8, <1>9 DEF OnItsWay

\* The train goes on to the next element, or leaves the route.
LEMMA TrainGoesOn ==
  ASSUME Inv, NEW r \in Route, NEW c \in 0 .. Len(nodes_list[r]) - 1, NEW a, NEW b,
         a = Stop(r, c), b = Stop(r, c + 1), Silent,
         Crew(r, c, "NOT_RESERVED", "RESERVED", {}, {}, {b}, {a}), NEW n \in Node, SensorOff(n)
  PROVE  \E d \in 0 .. Len(nodes_list[r]) - 1 : OnItsWay(r, d)'
<1>1. /\ keyboard = {}
      /\ \A k \in Node : Member(k, r, c, "NOT_RESERVED", "RESERVED", {}, {}, {b}, {a})
  BY DEF Crew
<1>2. n = b
  <2>1. NODE_STATUS[n] = "TRAIN_IN_TRANSITION" /\ ~HasLeft(n) BY DEF SensorOff, HasLeft
  <2>2. n \in Elements(r) => IndexOf(n, r) <= c \/ IndexOf(n, r) > c BY StopOf
  <2> QED BY <1>1, <2>1, <2>2 DEF Member, Stands
<1>3. /\ n \in Elements(r) /\ IndexOf(n, r) > c /\ ~(IndexOf(n, r) <= c) /\ r \in node_routes(n)
      /\ rasp_id_prev(n, r) = a /\ IndexOf(n, r) = c + 1 /\ c \in Nat
  <2>1. /\ n \in Elements(r) /\ r \in node_routes(n)
        /\ rasp_id_prev(n, r) = a /\ IndexOf(n, r) = c + 1 /\ c \in Nat
    BY <1>2, Stops
  <2> QED BY <2>1
<1>4. OnlyAt(n)
  <2>1. HOST_ID \in Id BY DEF Id
  <2> QED BY <2>1, StepsAreLocal DEF controlMain, Sensors
<1>5. \A k \in Node : ~HasLeft(k) BY DEF SensorOff, PassageIsOver, HasLeft
<1>6. /\ NODE_STATUS'[n] = "TRAIN_IN_TRANSITION" /\ control_pc'[n] = "reset"
      /\ ~sensor_on_detected'[n]
      /\ UNCHANGED <<current_route, railswitch, sensor_on_detected, IN_CONTROL_QUEUE, sock>>
  BY <1>1 DEF SensorOff, Goto, Inv, TypeOK, Member
<1>7. current_route[n] = r /\ SetFor(n, r) BY <1>1, <1>3 DEF Member
<1>8. Send(n, sensors_msg(n, r)) BY <1>7 DEF SensorOff
<1>9. /\ OUT_CONTROL_QUEUE = NoMail /\ sock' = NoWire /\ IN_CONTROL_QUEUE' = NoMail
  BY <1>6 DEF Silent
<1> DEFINE m == [command |-> "SENSOR_ON", host_id |-> CURRENT_HOST[n], route_id |-> r,
                 sender_id |-> n, recevier_id |-> n]
<1>10. m \in tpcp_msg /\ m.route_id = r
  BY <1>3, NeighbourTypes DEF Inv, TypeOK, tpcp_msg, Command, Id
<1>11. rasp_id_prev(n, r) \in Id /\ rasp_id_next(n, r) \in Id \union {TAIL_ID}
       /\ "SENSOR_ON" \in Command /\ "SENSOR_OFF" \in Command
  BY <1>3, NeighbourTypes DEF Command
<1>12. CASE rasp_id_next(n, r) = TAIL_ID
  <2>1. Send(n, forwardMsg(n, m, rasp_id_prev(n, r), "SENSOR_OFF")) BY <1>8, <1>12 DEF sensors_msg
  <2>2. Mail("SENSOR_OFF", r, n, rasp_id_prev(n, r))'
    <3> HIDE DEF m
    <3> QED BY <1>9, <1>10, <1>11, <2>1, MailSent
  <2>3. \A k \in Elements(r) \ {n} : IndexOf(k, r) <= c /\ ~(IndexOf(k, r) > c)
    BY <1>2, <1>12, NextStop
  <2>4. \A k \in Node \ {n} : Member(k, r, c, "NOT_RESERVED", "NOT_RESERVED", {}, {}, {}, {})
    BY <1>1, <1>2, <1>5, <2>3 DEF Member
  <2>5. EndsAt(n)' BY <1>3, <1>6, <1>7, <1>12 DEF EndsAt
  <2>6. Member(n, r, c, "NOT_RESERVED", "NOT_RESERVED", {}, {}, {}, {})'
    BY <1>1, <1>3, <1>6, <1>7, <2>5 DEF Member, LoopOK, Stands, HasLeft
  <2>7. Crew(r, c, "NOT_RESERVED", "NOT_RESERVED", {}, {}, {}, {})' BY <1>1, <1>4, <2>4, <2>6, CrewAfter
  <2>8. OnItsWay(r, c)' BY <1>2, <1>3, <2>2, <2>7 DEF OnItsWay
  <2> QED BY <2>8
<1>13. CASE rasp_id_next(n, r) # TAIL_ID
  <2>1. Send(n, forwardMsg(n, m, rasp_id_next(n, r), "SENSOR_ON")) BY <1>8, <1>13 DEF sensors_msg
  <2>2. Mail("SENSOR_ON", r, n, rasp_id_next(n, r))'
    <3> HIDE DEF m
    <3> QED BY <1>9, <1>10, <1>11, <1>13, <2>1, MailSent
  <2>3. c + 1 \in 0 .. Len(nodes_list[r]) - 1 /\ rasp_id_next(n, r) = Stop(r, (c + 1) + 1)
    BY <1>2, <1>13, NextStop
  <2>4. \A k \in Node \ {n} : Member(k, r, c, "NOT_RESERVED", "RESERVED", {}, {}, {}, {n})
    BY <1>1, <1>2, <1>5 DEF Member
  <2>5. \A k \in Node \ {n} : Member(k, r, c + 1, "NOT_RESERVED", "RESERVED", {}, {}, {}, {n})
    BY <1>2, <2>4, MemberShift
  <2>6. IndexOf(n, r) <= c + 1 /\ ~(IndexOf(n, r) > c + 1) BY <1>3
  <2>7. SetFor(n, r)' BY <1>6, <1>7 DEF SetFor
  <2>8. Member(n, r, c + 1, "NOT_RESERVED", "RESERVED", {}, {}, {}, {n})'
    BY <1>1, <1>3, <1>6, <1>7, <2>6, <2>7 DEF Member, LoopOK, Stands, HasLeft
  <2>9. Crew(r, c + 1, "NOT_RESERVED", "RESERVED", {}, {}, {}, {n})' BY <1>1, <1>4, <2>5, <2>8, CrewAfter
  <2>10. OnItsWay(r, c + 1)' BY <1>2, <2>2, <2>3, <2>9 DEF OnItsWay
  <2> QED BY <2>3, <2>10
<1> QED BY <1>12, <1>13

LEMMA FirstNodes ==
  ASSUME NEW f \in first_nodes
  PROVE  f \in Node /\ <<f, HOST_ID>> \in Channel
<1>1. f \in Node /\ HOST_ID \in Connections(f)
  BY RoutesAssumption DEF first_nodes, Connections
<1>2. <<f, HOST_ID>> \in Node \X (Node \union {HOST_ID}) /\ <<f, HOST_ID>>[1] = f /\ <<f, HOST_ID>>[2] = HOST_ID
  BY <1>1
<1> QED BY <1>1, <1>2 DEF Channel

\* What the host PC reads, and what it does about it.
LEMMA HostReads ==
  ASSUME NEW command, NEW r, NEW a, NEW b, Mail(command, r, b, a),
         NEW f \in first_nodes, HostReceive(f)
  PROVE  /\ f = b /\ HOST_ID = a /\ OUT_CONTROL_QUEUE' = NoMail /\ IN_CONTROL_QUEUE' = NoMail
         /\ UNCHANGED <<control, sensor_on_detected, railswitch, setting, keyboard>>
         /\ \/ /\ command = "TRAIN_OK" /\ setting.SIM_SENSOR
               /\ \E w \in Wire : /\ w.command = "SENSOR_ON" /\ w.route_id = r
                                  /\ sock' = SendTo(NoWire, HOST_ID, f, w)
            \/ /\ command = "SENSOR_OFF" /\ setting.AUTOMATIC_TESTING_ROUTES
               /\ sock' = SendTo(NoWire, HOST_ID, NextTest[f].to, NextTest[f].msg)
            \/ ~(command = "TRAIN_OK" /\ setting.SIM_SENSOR) /\ sock' = NoWire
<1> DEFINE w == Head(sock[<<f, HOST_ID>>])
<1>1. <<f, HOST_ID>> \in Channel /\ sock[<<f, HOST_ID>>] # << >> BY FirstNodes DEF HostReceive
<1>2. /\ f = b /\ HOST_ID = a
      /\ OUT_CONTROL_QUEUE = NoMail /\ IN_CONTROL_QUEUE = NoMail
      /\ w \in Wire /\ w.command = command /\ w.route_id = r
      /\ [sock EXCEPT ![<<f, HOST_ID>>] = Tail(@)] = NoWire
  BY <1>1, MailArrives
<1>3. /\ UNCHANGED <<control, sensor_on_detected, railswitch, setting, keyboard, queues>>
  BY DEF HostReceive
<1>4. PICK x : x = [w EXCEPT !.command = "SENSOR_ON"] OBVIOUS
<1>5. x \in Wire /\ x.command = "SENSOR_ON" /\ x.route_id = r BY <1>2, <1>4 DEF Wire, Command
<1>6. \/ /\ command = "TRAIN_OK" /\ setting.SIM_SENSOR
         /\ sock' = SendTo(NoWire, HOST_ID, f, x)
      \/ /\ command = "SENSOR_OFF" /\ setting.AUTOMATIC_TESTING_ROUTES
         /\ sock' = SendTo(NoWire, HOST_ID, NextTest[f].to, NextTest[f].msg)
      \/ ~(command = "TRAIN_OK" /\ setting.SIM_SENSOR) /\ sock' = NoWire
  BY <1>2, <1>4 DEF HostReceive
<1> QED BY <1>2, <1>3, <1>5, <1>6 DEF queues

\* A request is made at the head of a route.
LEMMA RequestStarts ==
  ASSUME NEW x \in [to : first_nodes, msg : Wire], AtHead(x), keyboard' = {},
         UNCHANGED <<control, sensor_on_detected, railswitch, setting>>,
         \A n \in Node : AtRest(n), OUT_CONTROL_QUEUE' = NoMail, IN_CONTROL_QUEUE' = NoMail,
         sock' = SendTo(NoWire, HOST_ID, x.to, x.msg)
  PROVE  \E r \in Route : \E c \in 0 .. Len(nodes_list[r]) - 1 : OnItsWay(r, c)'
<1> PICK r \in Route : r = x.msg.route_id BY DEF Wire
<1>1. 0 \in 0 .. Len(nodes_list[r]) - 1 BY PlaceOf
<1> PICK c \in 0 .. Len(nodes_list[r]) - 1 : c = 0 BY <1>1
<1>2. /\ Stop(r, c) = HOST_ID /\ <<HOST_ID, Stop(r, c + 1)>> \in Channel
  BY Stops
<1>3. x.to = Stop(r, c + 1) BY DEF AtHead, Stop
<1>4. x.msg \in Wire /\ x.msg.command = "REQ" /\ x.msg.route_id = r BY DEF AtHead
<1>5. sock' = [NoWire EXCEPT ![<<HOST_ID, Stop(r, c + 1)>>] = Append(@, x.msg)]
  BY <1>2, <1>3 DEF SendTo
<1>6. Append(NoWire[<<HOST_ID, Stop(r, c + 1)>>], x.msg) = <<x.msg>> BY <1>2 DEF NoWire
<1>7. sock' = [NoWire EXCEPT ![<<Stop(r, c), Stop(r, c + 1)>>] = <<x.msg>>] BY <1>2, <1>5, <1>6 DEF NoWire
<1>8. NoMail' = NoMail /\ NoWire' = NoWire BY DEF NoMail, NoWire
<1>9. Mail("REQ", r, Stop(r, c), Stop(r, c + 1))' BY <1>4, <1>7, <1>8 DEF Mail
<1>10. \A k \in Elements(r) : ~(IndexOf(k, r) <= c) /\ IndexOf(k, r) > c BY StopOf
<1>11. Crew(r, c, "WAIT_ACK", "NOT_RESERVED", {}, {}, {}, {})'
  BY <1>10 DEF Crew, Member, AtRest, control, LoopOK, Stands, HasLeft, EndsAt
<1>12. OnItsWay(r, c)' BY <1>9, <1>11 DEF OnItsWay
<1> QED BY <1>12

\* The operator, or the automatic test, asks for a route of a free railway.
LEMMA OperatorAsks ==
  ASSUME OneTrain, Idle, NEW x \in Commands, HostCommand(x)
  PROVE  \E r \in Route : \E c \in 0 .. Len(nodes_list[r]) - 1 : OnItsWay(r, c)'
<1>1. /\ x \in keyboard /\ keyboard' = keyboard \ {x} /\ sock' = SendTo(sock, HOST_ID, x.to, x.msg)
      /\ UNCHANGED <<control, sensor_on_detected, railswitch, queues, setting>>
  BY DEF HostCommand
<1>2. AtHead(x) /\ keyboard' = {} BY <1>1 DEF OneTrain, Idle
<1>3. sock = NoWire /\ OUT_CONTROL_QUEUE' = NoMail /\ IN_CONTROL_QUEUE' = NoMail /\ \A n \in Node : AtRest(n)
  BY <1>1 DEF Idle, Silent, queues
<1> QED BY <1>1, <1>2, <1>3, RequestStarts, InterlockingAssumption

LEMMA TrainIsGone ==
  ASSUME OneTrain, NEW r \in Route, NEW c \in 0 .. Len(nodes_list[r]) - 1,
         Mail("SENSOR_OFF", r, Stop(r, c + 1), Stop(r, c)),
         Crew(r, c, "NOT_RESERVED", "NOT_RESERVED", {}, {}, {}, {}), NEW f \in first_nodes, HostReceive(f)
  PROVE  Idle' \/ \E q \in Route : \E d \in 0 .. Len(nodes_list[q]) - 1 : OnItsWay(q, d)'
<1>1. /\ HOST_ID = Stop(r, c) /\ OUT_CONTROL_QUEUE' = NoMail /\ IN_CONTROL_QUEUE' = NoMail
      /\ UNCHANGED <<control, sensor_on_detected, railswitch, setting, keyboard>>
      /\ \/ /\ setting.AUTOMATIC_TESTING_ROUTES
            /\ sock' = SendTo(NoWire, HOST_ID, NextTest[f].to, NextTest[f].msg)
         \/ sock' = NoWire
  BY HostReads
<1>2. c = 0 BY <1>1, Stops
<1>3. \A k \in Elements(r) : IndexOf(k, r) > c BY <1>2, StopOf
<1>4. keyboard = {} /\ \A n \in Node : AtRest(n)
  BY <1>3 DEF Crew, Member, AtRest, Stands, LoopOK
<1>5. CASE sock' = NoWire
  <2>1. Silent' BY <1>1, <1>5 DEF Silent, NoMail, NoWire
  <2>2. Idle' BY <1>1, <1>4, <2>1 DEF Idle, AtRest, control, LoopOK, Stands, HasLeft, EndsAt
  <2> QED BY <2>2
<1>6. CASE /\ setting.AUTOMATIC_TESTING_ROUTES
           /\ sock' = SendTo(NoWire, HOST_ID, NextTest[f].to, NextTest[f].msg)
  <2>1. AtHead(NextTest[f]) /\ NextTest[f] \in [to : first_nodes, msg : Wire]
    BY <1>6, InterlockingAssumption DEF OneTrain
  <2> PICK x \in [to : first_nodes, msg : Wire] : x = NextTest[f] BY <2>1
  <2>2. AtHead(x) /\ sock' = SendTo(NoWire, HOST_ID, x.to, x.msg) /\ keyboard' = {}
    BY <1>1, <1>4, <1>6, <2>1
  <2> QED BY <1>1, <1>4, <2>2, RequestStarts
<1> QED BY <1>1, <1>5, <1>6

\* The train departs.
LEMMA TrainDeparts ==
  ASSUME OneTrain, NEW r \in Route, NEW c \in 0 .. Len(nodes_list[r]) - 1,
         Mail("TRAIN_OK", r, Stop(r, c + 1), Stop(r, c)),
         Crew(r, c, "NOT_RESERVED", "RESERVED", {}, {}, {}, {}), NEW f \in first_nodes, HostReceive(f)
  PROVE  OnItsWay(r, c)'
<1>1. /\ f = Stop(r, c + 1) /\ HOST_ID = Stop(r, c) /\ OUT_CONTROL_QUEUE' = NoMail /\ IN_CONTROL_QUEUE' = NoMail
      /\ UNCHANGED <<control, sensor_on_detected, railswitch, setting, keyboard>>
      /\ \E w \in Wire : /\ w.command = "SENSOR_ON" /\ w.route_id = r
                         /\ sock' = SendTo(NoWire, HOST_ID, f, w)
  BY HostReads DEF OneTrain
<1>2. PICK w \in Wire : /\ w.command = "SENSOR_ON" /\ w.route_id = r
                        /\ sock' = SendTo(NoWire, HOST_ID, f, w)
  BY <1>1
<1>3. <<Stop(r, c), Stop(r, c + 1)>> \in Channel BY Stops
<1>4. sock' = [NoWire EXCEPT ![<<Stop(r, c), Stop(r, c + 1)>>] = Append(@, w)]
  BY <1>1, <1>2, <1>3 DEF SendTo
<1>5. Append(NoWire[<<Stop(r, c), Stop(r, c + 1)>>], w) = <<w>> BY <1>3 DEF NoWire
<1>6. sock' = [NoWire EXCEPT ![<<Stop(r, c), Stop(r, c + 1)>>] = <<w>>] BY <1>3, <1>4, <1>5 DEF NoWire
<1>7. NoMail' = NoMail /\ NoWire' = NoWire BY DEF NoMail, NoWire
<1>8. Mail("SENSOR_ON", r, Stop(r, c), Stop(r, c + 1))' BY <1>1, <1>2, <1>6, <1>7 DEF Mail
<1>9. Crew(r, c, "NOT_RESERVED", "RESERVED", {}, {}, {}, {})' BY <1>1, CrewSame
<1>10. Crew(r, c, "NOT_RESERVED", "RESERVED", {}, {}, {}, {Stop(r, c)})' BY <1>9 DEF Crew, Member
<1> QED BY <1>8, <1>10 DEF OnItsWay

-----------------------------------------------------------------------------
(* What is left of a request that failed.                                  *)

LEMMA HopAt ==
  ASSUME NEW r \in Route, NEW c \in 0 .. Len(nodes_list[r]) - 1, NEW k \in Nat, c <= k
  PROVE  Hop(r, k, Stop(r, c), Stop(r, c + 1)) /\ Hop(r, k, Stop(r, c + 1), Stop(r, c))
BY DEF Hop

LEMMA HopMeans ==
  ASSUME NEW r \in Route, NEW k \in Nat, NEW a, NEW b, Hop(r, k, a, b)
  PROVE  /\ <<a, b>> \in Channel /\ <<b, a>> \in Channel /\ Hop(r, k, b, a) /\ a \in Id
         /\ \A j \in Nat : k <= j => Hop(r, j, a, b)
         /\ b \in Node => b \in Elements(r) /\ IndexOf(b, r) <= k + 1
<1>1. PICK i \in 0 .. Len(nodes_list[r]) - 1 :
        i <= k /\ <<a, b>> \in {<<Stop(r, i), Stop(r, i + 1)>>, <<Stop(r, i + 1), Stop(r, i)>>}
  BY DEF Hop
<1>2. /\ i \in Nat /\ HOST_ID \notin Node
      /\ Stop(r, i + 1) \in Elements(r) /\ IndexOf(Stop(r, i + 1), r) = i + 1 /\ Stop(r, i + 1) \in Node
      /\ i = 0 => Stop(r, i) = HOST_ID
      /\ i # 0 => Stop(r, i) \in Elements(r) /\ IndexOf(Stop(r, i), r) = i
      /\ <<Stop(r, i), Stop(r, i + 1)>> \in Channel /\ <<Stop(r, i + 1), Stop(r, i)>> \in Channel
      /\ Stop(r, i) \in Id
  BY Stops
<1>3. \A j \in Nat : k <= j => i <= j BY <1>1, <1>2
<1>4. \A j \in Nat : k <= j => Hop(r, j, a, b) BY <1>1, <1>3 DEF Hop
<1>5. Hop(r, k, b, a) BY <1>1 DEF Hop
<1>6. a \in Id BY <1>1, <1>2 DEF Id
<1>7. b \in Node => b \in Elements(r) /\ IndexOf(b, r) \in {i, i + 1} BY <1>1, <1>2
<1>8. i <= k + 1 /\ i + 1 <= k + 1 BY <1>1, <1>2
<1> QED BY <1>1, <1>2, <1>4, <1>5, <1>6, <1>7, <1>8

LEMMA SeqOfMore == ASSUME NEW S, NEW T, S \subseteq T PROVE Seq(S) \subseteq Seq(T)
OBVIOUS

\* More may be said later.
LEMMA RefusalsMore ==
  ASSUME NEW r \in Route, NEW k \in Nat, NEW j \in Nat, k <= j, OnlyRefusals(r, k)
  PROVE  OnlyRefusals(r, j)
<1>1. \A a, b : Hop(r, k, a, b) => Hop(r, j, a, b) BY HopMeans
<1>2. \A n \in Node : Refusing(r, k, n) \subseteq Refusing(r, j, n) BY <1>1 DEF Refusing
<1>3. \A n \in Node : Refused(r, k, n) \subseteq Refused(r, j, n) BY <1>1 DEF Refused
<1>4. \A n \in Node : OUT_CONTROL_QUEUE[n] \in Seq(Refusing(r, j, n))
  BY <1>2, SeqOfMore DEF OnlyRefusals
<1>5. \A n \in Node : IN_CONTROL_QUEUE[n] \in Seq(Refused(r, j, n))
  BY <1>3, SeqOfMore DEF OnlyRefusals
<1>6. ASSUME NEW c \in Channel
      PROVE  sock[c] \in Seq(IF Hop(r, j, c[1], c[2]) THEN Refusals(r) ELSE {})
  <2>1. (IF Hop(r, k, c[1], c[2]) THEN Refusals(r) ELSE {})
          \subseteq (IF Hop(r, j, c[1], c[2]) THEN Refusals(r) ELSE {})
    BY <1>1
  <2> QED BY <2>1, SeqOfMore DEF OnlyRefusals
<1> QED BY <1>4, <1>5, <1>6 DEF OnlyRefusals

\* A refusal of element n is passed on to its neighbours on the route.
LEMMA NotOkRefuses ==
  ASSUME NEW r \in Route, NEW n \in Elements(r), NEW m \in tpcp_msg, m.route_id = r, NEW s,
         rasp_id_next(n, r) = TAIL_ID => m.recevier_id = n,
         NEW k \in Nat, IndexOf(n, r) <= k
  PROVE  forwardNotOk(n, m, r, s) \in Seq(Refusing(r, k, n))
<1> DEFINE prev == rasp_id_prev(n, r)
           next == rasp_id_next(n, r)
<1>1. /\ n \in Node /\ IndexOf(n, r) \in 1 .. Len(nodes_list[r]) /\ Len(nodes_list[r]) \in Nat
      /\ n = Stop(r, IndexOf(n, r))
  BY StopOf
<1> PICK c \in 0 .. Len(nodes_list[r]) - 1 : c = IndexOf(n, r) - 1 BY <1>1
<1>2. c + 1 = IndexOf(n, r) /\ n = Stop(r, c + 1) /\ c <= k /\ c + 1 <= k BY <1>1
<1>3. r \in node_routes(n) /\ prev \in Id /\ next \in Id \union {TAIL_ID}
  BY <1>1, NeighbourTypes DEF node_routes
<1>4. prev = Stop(r, c)
  <2>1. rasp_id_prev(Stop(r, c + 1), r) = Stop(r, c) BY Stops
  <2> QED BY <1>2, <2>1
<1>5. Hop(r, k, n, prev) BY <1>2, <1>4, HopAt
<1>6. next # TAIL_ID => Hop(r, k, n, next)
  <2>1. next # TAIL_ID => c + 1 \in 0 .. Len(nodes_list[r]) - 1 /\ next = Stop(r, (c + 1) + 1)
    BY <1>2, NextStop
  <2> QED BY <1>2, <2>1, HopAt
<1>7. ASSUME NEW to \in {prev, next}, to # TAIL_ID
      PROVE  forwardMsg(n, m, to, "NOT_OK") \in Seq(Refusing(r, k, n))
  <2> PICK x : x = [m EXCEPT !.command = "NOT_OK", !.sender_id = n, !.recevier_id = to] OBVIOUS
  <2>1. x \in tpcp_msg /\ x.recevier_id = to
    BY <1>1, <1>3, <1>7 DEF tpcp_msg, Command, Id
  <2>2. Wired(x) \in Refusals(r) BY DEF Wired, Refusals, Wire, tpcp_msg, Command
  <2>3. x \in Refusing(r, k, n) BY <1>5, <1>6, <1>7, <2>1, <2>2 DEF Refusing
  <2> QED BY <2>3 DEF forwardMsg
<1>8. next = TAIL_ID => <<[m EXCEPT !.command = "NOT_OK"]>> \in Seq(Refusing(r, k, n))
  <2> PICK x : x = [m EXCEPT !.command = "NOT_OK"] OBVIOUS
  <2>1. x \in tpcp_msg /\ x.recevier_id = m.recevier_id BY DEF tpcp_msg, Command
  <2>2. Wired(x) \in Refusals(r) BY DEF Wired, Refusals, Wire, tpcp_msg, Command
  <2>3. next = TAIL_ID => x \in Refusing(r, k, n) BY <2>1, <2>2 DEF Refusing
  <2> QED BY <2>3
<1> DEFINE onwards == CASE next \notin {TAIL_ID, s} -> forwardMsg(n, m, next, "NOT_OK")
                        [] next = TAIL_ID /\ s = n -> <<[m EXCEPT !.command = "NOT_OK"]>>
                        [] OTHER -> << >>
           back == IF prev # s THEN forwardMsg(n, m, prev, "NOT_OK") ELSE << >>
<1>9. << >> \in Seq(Refusing(r, k, n)) OBVIOUS
<1>10. onwards \in Seq(Refusing(r, k, n))
  <2> HIDE DEF next
  <2>1. CASE next \notin {TAIL_ID, s} BY <2>1, <1>7
  <2>2. CASE next = TAIL_ID /\ s = n BY <2>2, <1>8
  <2>3. CASE ~(next \notin {TAIL_ID, s}) /\ ~(next = TAIL_ID /\ s = n)
    <3>1. onwards = << >> BY <2>3
    <3> HIDE DEF onwards
    <3> QED BY <1>9, <3>1
  <2> QED BY <2>1, <2>2, <2>3
<1>11. prev # TAIL_ID BY <1>3, RoutesAssumption DEF Id
<1>12. back \in Seq(Refusing(r, k, n)) BY <1>7, <1>9, <1>11
<1>13. forwardNotOk(n, m, r, s) = onwards \o back BY DEF forwardNotOk
<1> HIDE DEF onwards, back
<1> QED BY <1>10, <1>12, <1>13

\* The request fails while n has no train on it: the crew is deserted.
LEMMA MemberDeserts ==
  ASSUME NEW n \in Node, NEW r \in Route, NEW c \in 0 .. Len(nodes_list[r]) - 1,
         NEW k \in 0 .. Len(nodes_list[r]),
         NEW back \in {"WAIT_ACK", "WAIT_AGREE", "NOT_RESERVED"},
         NEW front \in {"NOT_RESERVED", "WAIT_COMMIT", "RESERVED"},
         front = "RESERVED" => k = c, front # "RESERVED" => k = Len(nodes_list[r]),
         Member(n, r, c, back, front, {}, {}, {}, {})
  PROVE  DesertedAt(n, r, k)
<1>1. n \in Elements(r) => /\ IndexOf(n, r) <= c \/ IndexOf(n, r) > c
                           /\ IndexOf(n, r) <= Len(nodes_list[r]) /\ ~(IndexOf(n, r) > Len(nodes_list[r]))
                           /\ IndexOf(n, r) > c => ~(IndexOf(n, r) <= c)
  BY StopOf
<1>2. LoopOK(n) /\ control_pc[n] \notin {"suspended", "resumed"} /\ ~sensor_on_detected[n]
      /\ (HasLeft(n) => EndsAt(n))
  BY DEF Member
<1>3. NODE_STATUS[n] = "TRAIN_IN_TRANSITION" => HasLeft(n)
  BY <1>1 DEF Member, Stands
<1>4. n \notin Elements(r) => Stands(n, "NOT_RESERVED") BY DEF Member
<1>5. n \in Elements(r) /\ IndexOf(n, r) > k =>
        Stands(n, "RESERVED") /\ current_route[n] = r /\ SetFor(n, r)
  BY <1>1 DEF Member
<1>6. n \in Elements(r) /\ IndexOf(n, r) <= k => NODE_STATUS[n] # "RESERVED"
  BY <1>1 DEF Member, Stands, HasLeft
<1> QED BY <1>2, <1>3, <1>4, <1>5, <1>6 DEF DesertedAt

LEMMA CrewDeserts ==
  ASSUME NEW r \in Route, NEW c \in 0 .. Len(nodes_list[r]) - 1,
         NEW k \in 0 .. Len(nodes_list[r]),
         NEW back \in {"WAIT_ACK", "WAIT_AGREE", "NOT_RESERVED"},
         NEW front \in {"NOT_RESERVED", "WAIT_COMMIT", "RESERVED"},
         front = "RESERVED" => k = c, front # "RESERVED" => k = Len(nodes_list[r]),
         Crew(r, c, back, front, {}, {}, {}, {})
  PROVE  Deserted(r, k)
BY MemberDeserts DEF Crew, Deserted

\* Nothing that belongs to an element changes.
LEMMA DesertedSame ==
  ASSUME UNCHANGED <<control, sensor_on_detected, railswitch, setting, keyboard>>,
         NEW r, NEW k, Deserted(r, k)
  PROVE  Deserted(r, k)'
BY DEF control, Deserted, DesertedAt, LoopOK, Stands, HasLeft, EndsAt, SetFor

\* What belongs to n changes, but not its switch.
LEMMA DesertedAfter ==
  ASSUME NEW n \in Node, OnlyAt(n), railswitch'[n] = railswitch[n], keyboard = {},
         NODE_STATUS[n] = "PING_FAIL_SAFE" => NODE_STATUS'[n] = "PING_FAIL_SAFE",
         NEW r \in Route, NEW k, \A j \in Node \ {n} : DesertedAt(j, r, k), DesertedAt(n, r, k)'
  PROVE  Deserted(r, k)'
BY DesertedElsewhere DEF Deserted, OnlyAt

\* Element b fails when the train is about to enter it, or is on it.
LEMMA RideDeserts ==
  ASSUME NEW r \in Route, NEW c \in 0 .. Len(nodes_list[r]) - 1, NEW a, NEW b,
         a = Stop(r, c), b = Stop(r, c + 1), NEW flagged \in SUBSET {b}, NEW passing \in SUBSET {b},
         Crew(r, c, "NOT_RESERVED", "RESERVED", {}, flagged, passing, {a}),
         OnlyAt(b), UNCHANGED <<railswitch, current_route, control_pc>>,
         control_pc[b] = "message", b \in setting.PingFailNodes, NODE_STATUS'[b] = "PING_FAIL_SAFE"
  PROVE  Deserted(r, c + 1)'
<1>1. /\ c \in Nat /\ b \in Elements(r) /\ b \in Node /\ IndexOf(b, r) = c + 1
      /\ c = 0 => a \notin Node
      /\ c # 0 => a \in Elements(r) /\ IndexOf(a, r) = c /\ rasp_id_next(a, r) = b
      /\ HOST_ID \notin Node /\ b # a /\ TAIL_ID \notin Id
  <2>1. c # 0 => rasp_id_next(a, r) = b BY StopBefore
  <2> QED BY <2>1, Stops
<1>2. \A j \in Elements(r) : /\ IndexOf(j, r) \in Nat /\ j \in Node
                             /\ IndexOf(j, r) = c + 1 => j = b
  BY StopOf
<1>3. \A j \in Elements(r) : /\ IndexOf(j, r) <= c \/ IndexOf(j, r) > c
                             /\ IndexOf(j, r) > c + 1 => IndexOf(j, r) > c
                             /\ IndexOf(j, r) <= c + 1 /\ j # b => IndexOf(j, r) <= c
                             /\ IndexOf(j, r) <= c + 1 /\ IndexOf(j, r) > c => j = b
  BY <1>1, <1>2
<1>4. \A j \in Node : Member(j, r, c, "NOT_RESERVED", "RESERVED", {}, flagged, passing, {a})
  BY DEF Crew
<1>5. \A j \in Elements(r) : SetFor(j, r)'
  BY <1>2, <1>3, <1>4 DEF Member, SetFor
<1>6. DesertedAt(b, r, c + 1)'
  <2>1. ~(IndexOf(b, r) > c + 1) /\ IndexOf(b, r) <= c + 1 BY <1>1
  <2>2. control_pc'[b] = "message" /\ b \in setting'.PingFailNodes BY DEF OnlyAt
  <2> QED BY <1>1, <2>1, <2>2 DEF DesertedAt, LoopOK, HasLeft
<1>7. ASSUME NEW j \in Node \ {b} PROVE DesertedAt(j, r, c + 1)'
  <2>1. Member(j, r, c, "NOT_RESERVED", "RESERVED", {}, {}, {}, {a})'
    <3>1. Member(j, r, c, "NOT_RESERVED", "RESERVED", {}, {}, {}, {a}) BY <1>4 DEF Member
    <3> QED BY <3>1, MemberElsewhere
  <2>2. HasLeft(j)' => EndsAt(j)' \/ j = a BY <2>1 DEF Member
  <2>3. j = a => /\ j \in Elements(r) /\ rasp_id_next(j, r) # TAIL_ID /\ IndexOf(j, r) <= c
                 /\ NODE_STATUS'[rasp_id_next(j, r)] = "PING_FAIL_SAFE"
    <3>1. b # TAIL_ID BY <1>1 DEF Id
    <3>2. j = a => c # 0 BY <1>1
    <3> QED BY <1>1, <3>1, <3>2
  <2>4. j = a => current_route'[j] = r BY <2>1, <2>3 DEF Member
  <2>5. /\ LoopOK(j)' /\ control_pc'[j] \notin {"suspended", "resumed"} /\ ~sensor_on_detected'[j]
        /\ j \notin Elements(r) => Stands(j, "NOT_RESERVED")'
    BY <2>1 DEF Member
  <2>6. j \in Elements(r) /\ IndexOf(j, r) > c + 1 => Stands(j, "RESERVED")' /\ current_route'[j] = r
    BY <1>3, <2>1 DEF Member
  <2>7. j \in Elements(r) /\ IndexOf(j, r) <= c + 1 => NODE_STATUS'[j] # "RESERVED"
    BY <1>3, <2>1 DEF Member, Stands, HasLeft
  <2>8. NODE_STATUS'[j] = "TRAIN_IN_TRANSITION" => HasLeft(j)'
    BY <1>3, <2>1 DEF Member, Stands
  <2> QED BY <1>5, <2>2, <2>3, <2>4, <2>5, <2>6, <2>7, <2>8 DEF DesertedAt
<1>8. keyboard' = {} BY DEF Crew, OnlyAt
<1> QED BY <1>6, <1>7, <1>8 DEF Deserted

\* What the request leaves behind: only refusals are said.
Failed(r) == \E k \in 0 .. Len(nodes_list[r]) : OnlyRefusals(r, k) /\ Deserted(r, k)

\* The terms it is made of do not change.
LEMMA RefusalTerms ==
  ASSUME NEW r, NEW k
  PROVE  /\ Refusals(r)' = Refusals(r)
         /\ \A n : Refusing(r, k, n)' = Refusing(r, k, n) /\ Refused(r, k, n)' = Refused(r, k, n)
         /\ \A a, b : Hop(r, k, a, b)' = Hop(r, k, a, b)
BY DEF Refusals, Refusing, Refused, Hop, Stop, Wired

LEMMA SilentRefuses ==
  ASSUME Silent', NEW r, NEW k
  PROVE  OnlyRefusals(r, k)'
<1>1. \A S : << >> \in Seq(S) OBVIOUS
<1> QED BY <1>1, RefusalTerms DEF Silent, NoMail, NoWire, OnlyRefusals

\* The first refusal.
LEMMA BouncedRefuses ==
  ASSUME NEW r \in Route, NEW k \in Nat, NEW a, NEW b, Bounced(r, a, b)', Hop(r, k, b, a)
  PROVE  OnlyRefusals(r, k)'
<1>1. \A S : << >> \in Seq(S) OBVIOUS
<1> PICK w \in Refusals(r) : sock' = [NoWire EXCEPT ![<<b, a>>] = <<w>>] BY RefusalTerms DEF Bounced, NoWire
<1>2. <<w>> \in Seq(Refusals(r)) OBVIOUS
<1>3. ASSUME NEW c \in Channel
      PROVE  sock'[c] \in Seq(IF Hop(r, k, c[1], c[2]) THEN Refusals(r) ELSE {})
  <2>1. CASE c = <<b, a>> BY <1>2, <2>1 DEF NoWire
  <2>2. CASE c # <<b, a>> BY <1>1, <2>2 DEF NoWire
  <2> QED BY <2>1, <2>2
<1> QED BY <1>1, <1>3, RefusalTerms DEF Bounced, NoMail, OnlyRefusals

LEMMA FirstRefusal ==
  ASSUME NEW n \in Node, NEW r \in Route, NEW k \in Nat, OUT_CONTROL_QUEUE = NoMail,
         sock' = NoWire, IN_CONTROL_QUEUE' = NoMail, NEW out \in Seq(Refusing(r, k, n)), Send(n, out)
  PROVE  OnlyRefusals(r, k)'
<1>1. \A S : << >> \in Seq(S) OBVIOUS
<1>2. OUT_CONTROL_QUEUE' = [NoMail EXCEPT ![n] = << >> \o out] BY DEF Send, NoMail
<1>3. << >> \o out = out OBVIOUS
<1>4. \A j \in Node : OUT_CONTROL_QUEUE'[j] \in Seq(Refusing(r, k, j)) BY <1>1, <1>2, <1>3 DEF NoMail
<1> QED BY <1>1, <1>4, RefusalTerms DEF NoMail, NoWire, OnlyRefusals

\* A failed element answers the train's message.
LEMMA FailedAnswers ==
  ASSUME Inv, NEW r \in Route, NEW c \in 0 .. Len(nodes_list[r]) - 1, NEW k \in 0 .. Len(nodes_list[r]),
         NEW back \in {"WAIT_ACK", "WAIT_AGREE", "NOT_RESERVED"},
         NEW front \in {"NOT_RESERVED", "WAIT_COMMIT", "RESERVED"},
         front = "RESERVED" => k = c, front # "RESERVED" => k = Len(nodes_list[r]),
         Crew(r, c, back, front, {}, {}, {}, {}), NEW command \in Command, NEW a, NEW b,
         Mail(command, r, a, b), NEW n \in Elements(r), IndexOf(n, r) <= k, AnswerFailSafe(n)
  PROVE  Failed(r)'
<1>1. n \in Node /\ k \in Nat /\ IndexOf(n, r) \in Nat /\ r \in node_routes(n)
      /\ (IndexOf(n, r) <= k => ~(IndexOf(n, r) > k))
  BY StopOf DEF node_routes
<1>2. PICK other \in Command : Dispatched(n, {"FAIL_SAFE", "PING_FAIL_SAFE"}, other)
  BY DEF AnswerFailSafe
<1>3. /\ OUT_CONTROL_QUEUE = NoMail /\ sock' = NoWire /\ IN_CONTROL_QUEUE' = NoMail
      /\ Received(n) \in tpcp_msg /\ Received(n).route_id = r /\ Received(n).recevier_id = n
  <2>1. PICK relayed, known : Receives(n, relayed, known) BY <1>2 DEF Dispatched
  <2>2. Received(n).route_id = r BY <1>1, <2>1, MailReceived
  <2> QED BY <1>1, <2>1, <2>2, MailReceived
<1>4. /\ Send(n, forwardNotOk(n, Received(n), r, n)) /\ current_route'[n] = r
      /\ UNCHANGED <<NODE_STATUS, control_pc, railswitch, sensor_on_detected>>
      /\ NODE_STATUS[n] \in {"FAIL_SAFE", "PING_FAIL_SAFE"}
  BY <1>1, <1>2, <1>3 DEF AnswerFailSafe, Dispatched, Receives, Inv, TypeOK
<1>5. OnlyRefusals(r, k)'
  <2>1. forwardNotOk(n, Received(n), r, n) \in Seq(Refusing(r, k, n)) BY <1>1, <1>3, NotOkRefuses
  <2> QED BY <1>1, <1>3, <1>4, <2>1, FirstRefusal
<1>6. Deserted(r, k) BY CrewDeserts
<1>7. OnlyAt(n)
  <2>1. HOST_ID \in Id BY DEF Id
  <2> QED BY <1>1, <2>1, StepsAreLocal DEF controlMain, Message
<1>8. DesertedAt(n, r, k)'
  BY <1>1, <1>4, <1>6, <1>7 DEF Deserted, DesertedAt, LoopOK, HasLeft, OnlyAt
<1>9. Deserted(r, k)' BY <1>1, <1>4, <1>6, <1>7, <1>8, DesertedAfter DEF Deserted
<1> QED BY <1>5, <1>9 DEF Failed

\* The switch did not reach its position.
LEMMA PositioningFails ==
  ASSUME Inv, NEW r \in Route, NEW c \in 0 .. Len(nodes_list[r]) - 1, NEW a, a = Stop(r, c),
         c # 0, Silent, Crew(r, c, "WAIT_AGREE", "RESERVED", {a}, {}, {}, {}),
         in_msg[a].route_id = r, NEW n \in Node, AfterPositioning(n), ~Positioned(n)
  PROVE  Failed(r)'
<1>1. keyboard = {} /\ \A k \in Node : Member(k, r, c, "WAIT_AGREE", "RESERVED", {a}, {}, {}, {})
  BY DEF Crew
<1>2. n = a /\ control_pc[n] = "resumed" BY <1>1 DEF AfterPositioning, Member
<1>3. /\ n \in Elements(r) /\ r \in node_routes(n) /\ IndexOf(n, r) = c /\ c \in Nat
      /\ rasp_id_next(n, r) # TAIL_ID /\ c \in 0 .. Len(nodes_list[r])
      /\ ~(IndexOf(n, r) > c) /\ IndexOf(n, r) <= c
  <2>1. Len(nodes_list[r]) \in Nat BY PlaceOf
  <2>2. n \in Elements(r) /\ r \in node_routes(n) /\ IndexOf(n, r) = c /\ rasp_id_next(n, r) \in Node
    BY <1>2, StopBefore
  <2> QED BY <2>1, <2>2, RoutesAssumption
<1>4. NODE_STATUS[n] = "WAIT_AGREE" /\ in_msg[n] \in tpcp_msg BY <1>2 DEF Inv, ControlOK
<1>5. LoopOK(n) /\ ~sensor_on_detected[n] /\ current_route[n] = r BY <1>1, <1>3 DEF Member
<1>6. OnlyAt(n)
  <2>1. HOST_ID \in Id BY DEF Id
  <2> QED BY <2>1, StepsAreLocal DEF controlMain
<1>7. /\ Send(n, forwardNotOk(n, in_msg[n], r, n)) /\ UNCHANGED <<current_route, sensor_on_detected, railswitch>>
      /\ NODE_STATUS'[n] = "FAIL_SAFE" /\ control_pc'[n] = "message"
      /\ OUT_CONTROL_QUEUE = NoMail /\ sock' = NoWire /\ IN_CONTROL_QUEUE' = NoMail
  BY <1>5 DEF AfterPositioning, Silent, setNodeStatus, Goto, Inv, TypeOK
<1>8. OnlyRefusals(r, c)'
  <2>1. forwardNotOk(n, in_msg[n], r, n) \in Seq(Refusing(r, c, n)) BY <1>2, <1>3, <1>4, NotOkRefuses
  <2> QED BY <1>3, <1>7, <2>1, FirstRefusal
<1>9. \A j \in Node \ {n} : DesertedAt(j, r, c)
  <2>1. \A j \in Node \ {n} : Member(j, r, c, "WAIT_AGREE", "RESERVED", {}, {}, {}, {})
    BY <1>1, <1>2 DEF Member
  <2> QED BY <1>3, <2>1, MemberDeserts
<1>10. DesertedAt(n, r, c)'
  BY <1>3, <1>5, <1>7 DEF DesertedAt, LoopOK, HasLeft
<1>11. Deserted(r, c)' BY <1>1, <1>4, <1>6, <1>7, <1>9, <1>10, DesertedAfter
<1> QED BY <1>3, <1>8, <1>11 DEF Failed

LEMMA StopAhead ==
  ASSUME NEW r \in Route, NEW c \in 0 .. Len(nodes_list[r]) - 1
  PROVE  c + 1 \in 0 .. Len(nodes_list[r]) /\ c \in 0 .. Len(nodes_list[r])
         /\ Len(nodes_list[r]) \in 0 .. Len(nodes_list[r]) /\ c \in Nat /\ c + 1 \in Nat
         /\ Len(nodes_list[r]) \in Nat /\ c <= Len(nodes_list[r]) /\ c + 1 <= Len(nodes_list[r])
<1>1. Len(nodes_list[r]) \in Nat BY PlaceOf
<1> QED BY <1>1

\* The element the train is about to enter, or is on, is out of service.
LEMMA RideFails ==
  ASSUME Inv, NEW r \in Route, NEW c \in 0 .. Len(nodes_list[r]) - 1, NEW a, NEW b,
         a = Stop(r, c), b = Stop(r, c + 1), NEW n \in Node, NEW s \in Id,
         NEW flagged \in SUBSET {b}, NEW passing \in SUBSET {b},
         Crew(r, c, "NOT_RESERVED", "RESERVED", {}, flagged, passing, {a}),
         \/ /\ Mail("SENSOR_ON", r, a, b) /\ HandleInSingleMsg(n, s) /\ NODE_STATUS[n] = "PING_FAIL_SAFE"
            /\ flagged = {} /\ passing = {}
         \/ Silent /\ DiagFailed(n) /\ n \in flagged \union passing
  PROVE  Failed(r)'
<1>1. n = b
  <2>1. \/ flagged = {} /\ passing = {} /\ Mail("SENSOR_ON", r, a, b) /\ HandleInSingleMsg(n, s)
        \/ n \in flagged \union passing
    OBVIOUS
  <2>2. Mail("SENSOR_ON", r, a, b) /\ HandleInSingleMsg(n, s) => n = b BY MailArrives DEF HandleInSingleMsg
  <2> QED BY <2>1, <2>2
<1>2. /\ OnlyAt(n) /\ Silent' /\ UNCHANGED <<railswitch, current_route, control_pc>>
      /\ NODE_STATUS'[n] = "PING_FAIL_SAFE"
  <2>1. CASE /\ Mail("SENSOR_ON", r, a, b) /\ HandleInSingleMsg(n, s) /\ NODE_STATUS[n] = "PING_FAIL_SAFE"
             /\ flagged = {} /\ passing = {}
    BY <2>1, SensorOnArrives DEF control
  <2>2. CASE Silent /\ DiagFailed(n)
    <3>1. OnlyAt(n) BY <2>2, StepsAreLocal
    <3> QED BY <2>2, <3>1 DEF DiagFailed, setNodeStatus, Inv, TypeOK, Silent, NoMail, NoWire, queues
  <2> QED BY <2>1, <2>2
<1>3. control_pc[n] = "message" /\ n \in setting.PingFailNodes
  <2>1. NODE_STATUS[n] = "PING_FAIL_SAFE" \/ DiagFailed(n) OBVIOUS
  <2>2. LoopOK(n) BY DEF Crew, Member
  <2> QED BY <2>1, <2>2 DEF DiagFailed, LoopOK
<1>4. Deserted(r, c + 1)' BY <1>1, <1>2, <1>3, RideDeserts
<1>5. PICK k \in 0 .. Len(nodes_list[r]) : k = c + 1 BY StopAhead
<1>6. OnlyRefusals(r, k)'
  <2>1. \A S : << >> \in Seq(S) OBVIOUS
  <2> QED BY <1>2, <2>1 DEF Silent, NoMail, NoWire, OnlyRefusals
<1> QED BY <1>4, <1>5, <1>6 DEF Failed

-----------------------------------------------------------------------------
(* Refusals go round until everybody has heard of them.                    *)

LEMMA RefusalOut ==
  ASSUME Inv, NEW r \in Route, NEW k \in 0 .. Len(nodes_list[r]), OnlyRefusals(r, k), Deserted(r, k),
         NEW n \in Node, HandleOutControlMsg(n)
  PROVE  Failed(r)'
<1> DEFINE m == Head(OUT_CONTROL_QUEUE[n])
<1>1. OUT_CONTROL_QUEUE[n] \in Seq(Refusing(r, k, n)) /\ OUT_CONTROL_QUEUE[n] # << >>
  BY DEF HandleOutControlMsg, OnlyRefusals
<1>2. m \in Refusing(r, k, n) /\ Tail(OUT_CONTROL_QUEUE[n]) \in Seq(Refusing(r, k, n)) BY <1>1
<1> HIDE DEF m
<1>3. Wired(m) \in Refusals(r) /\ (m.recevier_id = n \/ Hop(r, k, n, m.recevier_id))
  BY <1>2 DEF Refusing
<1>4. sock' = SendTo(sock, n, m.recevier_id, Wired(m))
      /\ OUT_CONTROL_QUEUE' = [OUT_CONTROL_QUEUE EXCEPT ![n] = Tail(@)]
      /\ UNCHANGED <<control, sensor_on_detected, railswitch, setting, keyboard, IN_CONTROL_QUEUE>>
  BY DEF HandleOutControlMsg, host, m
<1>5. \A j \in Node : OUT_CONTROL_QUEUE'[j] \in Seq(Refusing(r, k, j))
  BY <1>2, <1>4 DEF OnlyRefusals, Inv, TypeOK
<1>6. <<n, m.recevier_id>> \in Channel => Hop(r, k, n, m.recevier_id)
  <2>1. <<n, n>> \notin Channel BY NotToItself
  <2> QED BY <1>3, <2>1
<1>7. ASSUME NEW c \in Channel
      PROVE  sock'[c] \in Seq(IF Hop(r, k, c[1], c[2]) THEN Refusals(r) ELSE {})
  <2>1. sock[c] \in Seq(IF Hop(r, k, c[1], c[2]) THEN Refusals(r) ELSE {}) BY DEF OnlyRefusals
  <2>2. sock'[c] = sock[c] \/ (c = <<n, m.recevier_id>> /\ sock'[c] = Append(sock[c], Wired(m)))
    BY <1>4 DEF SendTo, Inv, TypeOK
  <2>3. CASE c = <<n, m.recevier_id>> /\ sock'[c] = Append(sock[c], Wired(m))
    <3>1. Hop(r, k, c[1], c[2]) BY <1>6, <2>3
    <3>2. sock[c] \in Seq(Refusals(r)) BY <2>1, <3>1
    <3> QED BY <1>3, <2>3, <3>1, <3>2
  <2> QED BY <2>1, <2>2, <2>3
<1>8. OnlyRefusals(r, k)' BY <1>4, <1>5, <1>7, RefusalTerms DEF OnlyRefusals
<1>9. Deserted(r, k)' BY <1>4, DesertedSame
<1> QED BY <1>8, <1>9 DEF Failed

LEMMA RefusalIn ==
  ASSUME Inv, NEW r \in Route, NEW k \in 0 .. Len(nodes_list[r]), OnlyRefusals(r, k), Deserted(r, k),
         NEW n \in Node, NEW s \in Id, HandleInSingleMsg(n, s)
  PROVE  Failed(r)'
<1> DEFINE w == Head(sock[<<s, n>>])
           m == [command |-> w.command, host_id |-> Claimed(n, w.host_id), route_id |-> w.route_id,
                 sender_id |-> s, recevier_id |-> n]
           read == [sock EXCEPT ![<<s, n>>] = Tail(@)]
<1>1. k \in Nat OBVIOUS
<1>2. <<s, n>> \in Channel /\ sock[<<s, n>>] # << >> BY DEF HandleInSingleMsg
<1>3. sock[<<s, n>>] \in Seq(IF Hop(r, k, s, n) THEN Refusals(r) ELSE {})
  BY <1>2 DEF OnlyRefusals
<1>4. Hop(r, k, s, n) BY <1>2, <1>3
<1>5. w \in Refusals(r) /\ Tail(sock[<<s, n>>]) \in Seq(Refusals(r)) BY <1>2, <1>3, <1>4
<1>6. w.command = "NOT_OK" /\ w.route_id = r /\ w \in Wire BY <1>5 DEF Refusals
<1>7. UNCHANGED <<control, sensor_on_detected, railswitch, setting, keyboard, OUT_CONTROL_QUEUE>>
  BY <1>6 DEF HandleInSingleMsg, host
<1>8. Deserted(r, k)' BY <1>7, DesertedSame
<1>9. \A c \in Channel : read[c] \in Seq(IF Hop(r, k, c[1], c[2]) THEN Refusals(r) ELSE {})
  <2> HIDE DEF w
  <2> QED BY <1>2, <1>4, <1>5 DEF OnlyRefusals, Inv, TypeOK
<1>10. CASE /\ IN_CONTROL_QUEUE' = [IN_CONTROL_QUEUE EXCEPT ![n] = Append(@, m)]
            /\ sock' = read
  <2>1. m \in tpcp_msg
    <3>1. Claimed(n, w.host_id) \in Train \union {NO_HOST} BY <1>6 DEF Claimed, Wire, Inv, TypeOK
    <3> HIDE DEF w
    <3> QED BY <1>6, <3>1 DEF Wire, tpcp_msg, Id
  <2>2. Wired(m) \in Refusals(r)
    <3>1. Claimed(n, w.host_id) \in Train \union {NO_HOST} BY <1>6 DEF Claimed, Wire, Inv, TypeOK
    <3> HIDE DEF w
    <3> QED BY <1>6, <3>1 DEF Wired, Refusals, Wire
  <2>3. m \in Refused(r, k, n) BY <1>4, <2>1, <2>2 DEF Refused
  <2>4. \A j \in Node : IN_CONTROL_QUEUE'[j] \in Seq(Refused(r, k, j))
    <3> HIDE DEF m
    <3> QED BY <1>10, <2>3 DEF OnlyRefusals, Inv, TypeOK
  <2>5. OnlyRefusals(r, k)'
    <3> HIDE DEF m
    <3> QED BY <1>7, <1>9, <1>10, <2>4, RefusalTerms DEF OnlyRefusals
  <2> QED BY <1>8, <2>5 DEF Failed
<1>11. CASE /\ IN_CONTROL_QUEUE' = IN_CONTROL_QUEUE
            /\ sock' = SendTo(read, n, s, [w EXCEPT !.command = "NOT_OK"])
  <2> PICK x : x = [w EXCEPT !.command = "NOT_OK"] OBVIOUS
  <2>1. x \in Refusals(r) BY <1>6 DEF Refusals, Wire, Command
  <2>2. Hop(r, k, n, s) BY <1>1, <1>4, HopMeans
  <2>3. sock' = SendTo(read, n, s, x) BY <1>11
  <2>4. ASSUME NEW c \in Channel
        PROVE  sock'[c] \in Seq(IF Hop(r, k, c[1], c[2]) THEN Refusals(r) ELSE {})
    <3>1. read[c] \in Seq(IF Hop(r, k, c[1], c[2]) THEN Refusals(r) ELSE {}) BY <1>9
    <3>2. sock'[c] = read[c] \/ (c = <<n, s>> /\ sock'[c] = Append(read[c], x))
      BY <2>3 DEF SendTo, Inv, TypeOK
    <3>3. CASE c = <<n, s>> /\ sock'[c] = Append(read[c], x)
      <4>1. Hop(r, k, c[1], c[2]) BY <2>2, <3>3
      <4> HIDE DEF read
      <4>2. read[c] \in Seq(Refusals(r)) BY <3>1, <4>1
      <4> QED BY <2>1, <3>3, <4>1, <4>2
    <3> QED BY <3>1, <3>2, <3>3
  <2>5. OnlyRefusals(r, k)' BY <1>7, <1>11, <2>4, RefusalTerms DEF OnlyRefusals
  <2> QED BY <1>8, <2>5 DEF Failed
<1> QED BY <1>6, <1>10, <1>11 DEF HandleInSingleMsg

LEMMA RefusalAtHost ==
  ASSUME Inv, NEW r \in Route, NEW k \in 0 .. Len(nodes_list[r]), OnlyRefusals(r, k), Deserted(r, k),
         NEW f \in first_nodes, HostReceive(f)
  PROVE  Failed(r)'
<1> DEFINE ch == <<f, HOST_ID>>
           w == Head(sock[ch])
<1>1. ch \in Channel /\ sock[ch] # << >> BY FirstNodes DEF HostReceive
<1>2. sock[ch] \in Seq(IF Hop(r, k, f, HOST_ID) THEN Refusals(r) ELSE {})
  BY <1>1 DEF OnlyRefusals
<1>3. w.command = "NOT_OK" BY <1>1, <1>2 DEF Refusals
<1>4. Tail(sock[ch]) \in Seq(IF Hop(r, k, f, HOST_ID) THEN Refusals(r) ELSE {})
  <2>1. ASSUME NEW S, NEW q \in Seq(S), q # << >> PROVE Tail(q) \in Seq(S) BY <2>1
  <2> HIDE DEF ch
  <2> QED BY <1>1, <1>2, <2>1
<1>5. sock' = [sock EXCEPT ![ch] = Tail(@)]
      /\ UNCHANGED <<control, sensor_on_detected, railswitch, setting, keyboard, queues>>
  BY <1>3 DEF HostReceive
<1>6. \A c \in Channel : sock'[c] \in Seq(IF Hop(r, k, c[1], c[2]) THEN Refusals(r) ELSE {})
  BY <1>1, <1>4, <1>5 DEF OnlyRefusals, Inv, TypeOK
<1>7. OnlyRefusals(r, k)' BY <1>5, <1>6, RefusalTerms DEF OnlyRefusals, queues
<1>8. Deserted(r, k)' BY <1>5, DesertedSame
<1> QED BY <1>7, <1>8 DEF Failed

\* A control task hears of the refusal, and passes it on.
LEMMA RefusalHandled ==
  ASSUME Inv, NEW r \in Route, NEW k \in 0 .. Len(nodes_list[r]), OnlyRefusals(r, k), Deserted(r, k),
         NEW n \in Node, Message(n)
  PROVE  Failed(r)'
<1> DEFINE m == Received(n)
<1>1. PICK relayed, known : Receives(n, relayed, known)
  BY DEF Message, RelaySensorOff, UnknownRoute, HandleReq, HandleAck, HandleCommit, HandleAgree,
     HandleAgreeInPosition, StartPositioning, HandleNotOk, AnswerFailSafe, HandleErrorMsg, Dispatched
<1>2. /\ IN_CONTROL_QUEUE[n] \in Seq(Refused(r, k, n)) /\ IN_CONTROL_QUEUE[n] # << >>
      /\ IN_CONTROL_QUEUE' = [IN_CONTROL_QUEUE EXCEPT ![n] = Tail(@)]
      /\ control_pc[n] = "message" /\ UNCHANGED <<sensor_on_detected, sock, setting, keyboard>>
  BY <1>1 DEF Receives, OnlyRefusals, host
<1>3. m \in Refused(r, k, n) /\ Tail(IN_CONTROL_QUEUE[n]) \in Seq(Refused(r, k, n))
  BY <1>2 DEF Received
<1>4. /\ m \in tpcp_msg /\ m.command = "NOT_OK" /\ m.route_id = r /\ m.recevier_id = n
      /\ Hop(r, k, m.sender_id, n)
  BY <1>3 DEF Refused, Refusals, Wired
<1> HIDE DEF m
<1>5. /\ n \in Elements(r) /\ r \in node_routes(n) /\ IndexOf(n, r) \in Nat /\ k \in Nat
      /\ IndexOf(n, r) <= k + 1 /\ IndexOf(n, r) \in 1 .. Len(nodes_list[r]) /\ Len(nodes_list[r]) \in Nat
  <2>0. k \in Nat BY PlaceOf
  <2> PICK x : x = m.sender_id OBVIOUS
  <2>1. n \in Elements(r) /\ IndexOf(n, r) <= k + 1 BY <1>4, <2>0, HopMeans
  <2> QED BY <2>1, StopOf DEF node_routes
\* From now on it is said up to element n as well.
<1>6. PICK j \in 0 .. Len(nodes_list[r]) : k <= j /\ IndexOf(n, r) <= j /\ j \in Nat
                                           /\ (j = k \/ j = IndexOf(n, r))
  <2>1. CASE IndexOf(n, r) <= k BY <1>5, <2>1
  <2>2. CASE ~(IndexOf(n, r) <= k)
    <3>1. k <= IndexOf(n, r) /\ IndexOf(n, r) \in 0 .. Len(nodes_list[r]) BY <1>5, <2>2
    <3> QED BY <1>5, <3>1
  <2> QED BY <2>1, <2>2
<1>7. OnlyRefusals(r, j) BY <1>5, <1>6, RefusalsMore
<1>8. /\ \A i \in Node : IN_CONTROL_QUEUE'[i] \in Seq(Refused(r, j, i))
      /\ \A c \in Channel : sock'[c] \in Seq(IF Hop(r, j, c[1], c[2]) THEN Refusals(r) ELSE {})
  <2>1. IN_CONTROL_QUEUE[n] \in Seq(Refused(r, j, n)) BY <1>7 DEF OnlyRefusals
  <2>2. Tail(IN_CONTROL_QUEUE[n]) \in Seq(Refused(r, j, n)) BY <1>2, <2>1
  <2> QED BY <1>2, <1>7, <2>2 DEF OnlyRefusals, Inv, TypeOK
<1>9. ASSUME NEW out \in Seq(Refusing(r, j, n)), Send(n, out) PROVE OnlyRefusals(r, j)'
  <2>1. OUT_CONTROL_QUEUE[n] \o out \in Seq(Refusing(r, j, n)) BY <1>7 DEF OnlyRefusals
  <2>2. \A i \in Node : OUT_CONTROL_QUEUE'[i] \in Seq(Refusing(r, j, i))
    BY <1>7, <1>9, <2>1 DEF Send, OnlyRefusals, Inv, TypeOK
  <2> QED BY <1>8, <2>2, RefusalTerms DEF OnlyRefusals
<1>10. OnlyAt(n)
  <2>1. HOST_ID \in Id BY DEF Id
  <2> QED BY <2>1, StepsAreLocal DEF controlMain
<1>11. \A i \in Node \ {n} : DesertedAt(i, r, j)
  <2>1. \A i \in Elements(r) \ {n} : IndexOf(i, r) \in Nat /\ IndexOf(i, r) # IndexOf(n, r)
    BY <1>5, StopOf
  <2>2. \A i \in Elements(r) \ {n} : /\ IndexOf(i, r) <= j => IndexOf(i, r) <= k
                                     /\ IndexOf(i, r) > j => IndexOf(i, r) > k
    BY <1>5, <1>6, <2>1
  <2> QED BY <2>2 DEF Deserted, DesertedAt
<1>12. /\ LoopOK(n) /\ ~HasLeft(n) /\ NODE_STATUS[n] # "TRAIN_IN_TRANSITION"
       /\ sensor_on_detected[n] => NODE_STATUS[n] = "PING_FAIL_SAFE"
       /\ IndexOf(n, r) <= k => NODE_STATUS[n] # "RESERVED"
       /\ IndexOf(n, r) > k => Stands(n, "RESERVED") /\ current_route[n] = r /\ SetFor(n, r)
       /\ keyboard = {}
  BY <1>2, <1>5 DEF Deserted, DesertedAt, HasLeft
<1>13. ASSUME /\ NODE_STATUS'[n] # "RESERVED" /\ NODE_STATUS'[n] # "TRAIN_IN_TRANSITION"
              /\ NODE_STATUS'[n] = "PING_FAIL_SAFE" <=> NODE_STATUS[n] = "PING_FAIL_SAFE"
              /\ NODE_STATUS[n] = "PING_FAIL_SAFE" => control_pc'[n] = "message"
              /\ control_pc'[n] \in {"message", "sensors"}
              /\ UNCHANGED railswitch /\ (sensor_on_detected[n] => NODE_STATUS[n] = "PING_FAIL_SAFE")
       PROVE  Deserted(r, j)'
  <2>1. ~(IndexOf(n, r) > j) BY <1>5, <1>6
  <2>2. DesertedAt(n, r, j)'
    BY <1>2, <1>5, <1>12, <1>13, <2>1 DEF DesertedAt, LoopOK, HasLeft
  <2> QED BY <1>10, <1>11, <1>12, <1>13, <2>2, DesertedAfter
<1>14. ~RelaySensorOff(n) BY <1>4 DEF RelaySensorOff, Receives, IsRelayed, m
<1>15. ~UnknownRoute(n) BY <1>4, <1>5 DEF UnknownRoute, Receives, m
<1>16. \A statuses, command : Dispatched(n, statuses, command) => command = "NOT_OK" /\ NODE_STATUS[n] \in statuses
  BY <1>4 DEF Dispatched, m
<1>17. /\ ~HandleReq(n) /\ ~HandleAck(n) /\ ~HandleCommit(n) /\ ~HandleAgree(n)
       /\ ~HandleAgreeInPosition(n) /\ ~StartPositioning(n)
  <2>1. \A statuses : ~Dispatched(n, statuses, "REQ") /\ ~Dispatched(n, statuses, "ACK")
                     /\ ~Dispatched(n, statuses, "COMMIT") /\ ~Dispatched(n, statuses, "AGREE")
    BY <1>16
  <2> QED BY <2>1 DEF HandleReq, HandleAck, HandleCommit, HandleAgree, HandleAgreeInPosition, StartPositioning
<1>18. CASE HandleNotOk(n)
  <2>1. Dispatched(n, Engaged \union {"RESERVED"}, "NOT_OK") BY <1>18 DEF HandleNotOk
  <2>2. NODE_STATUS[n] # "PING_FAIL_SAFE" BY <1>16, <2>1 DEF Engaged
  <2>3. /\ NODE_STATUS'[n] = "NOT_RESERVED" /\ control_pc'[n] = "message" /\ UNCHANGED railswitch
        /\ Send(n, forwardNotOk(n, m, r, m.sender_id))
    BY <1>4, <1>18 DEF HandleNotOk, setNodeStatus, Goto, Inv, TypeOK, m
  <2>4. forwardNotOk(n, m, r, m.sender_id) \in Seq(Refusing(r, j, n)) BY <1>4, <1>5, <1>6, NotOkRefuses
  <2>5. OnlyRefusals(r, j)' BY <1>9, <2>3, <2>4
  <2>6. Deserted(r, j)' BY <1>12, <1>13, <2>2, <2>3
  <2> QED BY <2>5, <2>6 DEF Failed
<1>19. CASE AnswerFailSafe(n)
  <2>1. NODE_STATUS[n] \in {"FAIL_SAFE", "PING_FAIL_SAFE"} BY <1>16, <1>19 DEF AnswerFailSafe
  <2>2. /\ UNCHANGED <<NODE_STATUS, control_pc, railswitch>>
        /\ Send(n, forwardNotOk(n, m, r, n))
    BY <1>4, <1>19 DEF AnswerFailSafe, m
  <2>3. forwardNotOk(n, m, r, n) \in Seq(Refusing(r, j, n)) BY <1>4, <1>5, <1>6, NotOkRefuses
  <2>4. OnlyRefusals(r, j)' BY <1>9, <2>2, <2>3
  <2>5. Deserted(r, j)' BY <1>2, <1>12, <1>13, <2>1, <2>2
  <2> QED BY <2>4, <2>5 DEF Failed
<1>20. CASE HandleErrorMsg(n)
  <2>1. PICK command \in Command \ Expected(NODE_STATUS[n]) :
          Dispatched(n, tpcp_status \ {"FAIL_SAFE", "PING_FAIL_SAFE"}, command)
    BY <1>20 DEF HandleErrorMsg
  <2>2. "NOT_OK" \notin Expected(NODE_STATUS[n]) /\ NODE_STATUS[n] \in tpcp_status \ {"FAIL_SAFE", "PING_FAIL_SAFE"}
    BY <1>16, <2>1
  <2>3. NODE_STATUS[n] = "RESERVED" => Expected(NODE_STATUS[n]) = {"NOT_OK"} BY DEF Expected
  <2>4. NODE_STATUS[n] # "RESERVED" /\ NODE_STATUS[n] # "PING_FAIL_SAFE" BY <2>2, <2>3
  <2>5. /\ UNCHANGED <<NODE_STATUS, railswitch, OUT_CONTROL_QUEUE>>
        /\ control_pc'[n] \in {"message", "sensors"}
    BY <1>20 DEF HandleErrorMsg, Goto, LoopStart, Inv, TypeOK
  <2>6. Deserted(r, j)' BY <1>12, <1>13, <2>4, <2>5
  <2>7. OnlyRefusals(r, j)' BY <1>7, <1>8, <2>5, RefusalTerms DEF OnlyRefusals
  <2> QED BY <2>6, <2>7 DEF Failed
<1> QED BY <1>14, <1>15, <1>17, <1>18, <1>19, <1>20 DEF Message

\* The rest of the loop, and the diagnostics.
LEMMA RefusalAndLoop ==
  ASSUME Inv, NEW r \in Route, NEW k \in 0 .. Len(nodes_list[r]), OnlyRefusals(r, k), Deserted(r, k),
         NEW n \in Node, NoSensor(n) \/ NoMessage(n) \/ ResetNodeStatus(n) \/ DiagFailed(n)
  PROVE  Failed(r)'
<1>1. /\ UNCHANGED <<queues, sock, in_msg, railswitch, setting, current_route, sensor_on_detected>>
  BY DEF NoSensor, NoMessage, ResetNodeStatus, DiagFailed, host
<1>2. OnlyAt(n)
  <2>1. HOST_ID \in Id BY DEF Id
  <2> QED BY <2>1, StepsAreLocal DEF controlMain, Sensors
<1>3. keyboard = {} /\ DesertedAt(n, r, k) /\ \A j \in Node \ {n} : DesertedAt(j, r, k) BY DEF Deserted
<1>4. n \in Elements(r) => (IndexOf(n, r) <= k \/ IndexOf(n, r) > k) /\ ~(IndexOf(n, r) <= k /\ IndexOf(n, r) > k)
  BY StopOf
<1>5. /\ DesertedAt(n, r, k)'
      /\ NODE_STATUS[n] = "PING_FAIL_SAFE" => NODE_STATUS'[n] = "PING_FAIL_SAFE"
  <2>1. CASE NoSensor(n) \/ NoMessage(n)
    <3>1. /\ control_pc[n] \in {"sensors", "message"} /\ control_pc'[n] \in {"sensors", "message"}
          /\ NODE_STATUS' = NODE_STATUS
          /\ NODE_STATUS[n] = "PING_FAIL_SAFE" => control_pc'[n] = "message"
      BY <1>3, <2>1 DEF NoSensor, NoMessage, Goto, LoopStart, Inv, TypeOK, Locked
    <3>2. \A s : Stands(n, s) => NODE_STATUS[n] \in {s, "PING_FAIL_SAFE"} BY <3>1 DEF Stands, HasLeft
    <3> QED BY <1>1, <1>3, <3>1, <3>2 DEF DesertedAt, LoopOK, Stands, HasLeft, SetFor
  <2>2. CASE ResetNodeStatus(n)
    <3>1. /\ control_pc[n] = "reset" /\ control_pc'[n] = "message" /\ NODE_STATUS'[n] = "NOT_RESERVED"
      BY <2>2 DEF ResetNodeStatus, Goto, setNodeStatus, Inv, TypeOK
    <3>2. NODE_STATUS[n] \in {"NOT_RESERVED", "TRAIN_IN_TRANSITION"} /\ ~sensor_on_detected[n]
      BY <1>3, <3>1 DEF DesertedAt, LoopOK
    <3> QED BY <1>1, <1>3, <1>4, <3>1, <3>2 DEF DesertedAt, LoopOK, Stands, HasLeft, SetFor
  <2>3. CASE DiagFailed(n)
    <3>1. /\ control_pc[n] = "message" /\ control_pc' = control_pc /\ n \in setting.PingFailNodes
          /\ NODE_STATUS'[n] = "PING_FAIL_SAFE"
      BY <2>3 DEF DiagFailed, setNodeStatus, Inv, TypeOK
    <3> QED BY <1>1, <1>3, <3>1 DEF DesertedAt, LoopOK, Stands, HasLeft, SetFor
  <2> QED BY <2>1, <2>2, <2>3
<1>6. Deserted(r, k)' BY <1>1, <1>2, <1>3, <1>5, DesertedAfter
<1>7. OnlyRefusals(r, k)' BY <1>1, RefusalTerms DEF OnlyRefusals, queues
<1> QED BY <1>6, <1>7 DEF Failed

-----------------------------------------------------------------------------
(* Whatever happens, the message or the train goes on, or all is refused.  *)

\* Nothing happens, or a button is released.
Unmoved == UNCHANGED <<control, sensor_on_detected, railswitch, queues, sock, setting, keyboard>>

\* An element goes round its loop, is reset, or fails.
Turns(n) == NoSensor(n) \/ NoMessage(n) \/ ResetNodeStatus(n) \/ DiagFailed(n)

LEMMA Steps ==
  ASSUME OneTrain, keyboard = {}, [Next]_vars
  PROVE  \/ Unmoved
         \/ \E f \in first_nodes : HostReceive(f)
         \/ \E n \in Node, s \in Id : HandleInSingleMsg(n, s)
         \/ \E n \in Node : HandleOutControlMsg(n)
         \/ \E n \in Node : Turns(n) \/ Message(n)
         \/ \E n \in Node : SensorOn(n) \/ SensorOff(n)
         \/ \E n \in Node : AfterPositioning(n) \/ PositioningMain(n)
<1>1. \A x \in Commands : ~HostCommand(x) BY DEF HostCommand
<1>2. \A n \in Node : ~ButtonOn(n) /\ ~ButtonOff(n) /\ ~TrainEnters(n)
  BY DEF ButtonOn, ButtonOff, TrainEnters, OneTrain
<1>3. \A n \in Node : TrainLeaves(n) => Unmoved BY DEF TrainLeaves, Unmoved
<1>4. UNCHANGED vars => Unmoved BY DEF vars, host, Unmoved
<1>5. CASE Next BY <1>1, <1>2, <1>3, <1>5 DEF Next, controlMain, Sensors, Turns
<1> QED BY <1>4, <1>5

LEMMA MessageReceives ==
  ASSUME NEW n, Message(n)
  PROVE  \E relayed, known : Receives(n, relayed, known)
BY DEF Message, RelaySensorOff, UnknownRoute, HandleReq, HandleAck, HandleCommit, HandleAgree,
   HandleAgreeInPosition, StartPositioning, HandleNotOk, AnswerFailSafe, HandleErrorMsg, Dispatched

\* Who may act on the sensors and on the switches.
LEMMA CrewMoves ==
  ASSUME NEW r \in Route, NEW c \in 0 .. Len(nodes_list[r]) - 1,
         NEW back \in {"WAIT_ACK", "WAIT_AGREE", "NOT_RESERVED"},
         NEW front \in {"NOT_RESERVED", "WAIT_COMMIT", "RESERVED"},
         NEW waits, NEW flagged, NEW passing, NEW left,
         Crew(r, c, back, front, waits, flagged, passing, left), NEW n \in Node
  PROVE  /\ SensorOn(n) => n \in flagged
         /\ SensorOff(n) => n \in passing
         /\ AfterPositioning(n) \/ PositioningMain(n) => n \in waits
<1>1. Member(n, r, c, back, front, waits, flagged, passing, left) BY DEF Crew
<1>2. SensorOn(n) => n \in flagged BY <1>1 DEF Member, SensorOn
<1>3. SensorOff(n) => n \in passing
  <2>1. n \in Elements(r) => IndexOf(n, r) <= c \/ IndexOf(n, r) > c BY StopOf
  <2> QED BY <1>1, <2>1 DEF Member, SensorOff, Stands, HasLeft
<1>4. AfterPositioning(n) \/ PositioningMain(n) => n \in waits
  BY <1>1 DEF Member, AfterPositioning, PositioningMain
<1> QED BY <1>2, <1>3, <1>4

LEMMA MailSame ==
  ASSUME UNCHANGED <<queues, sock>>, NEW command, NEW r, NEW a, NEW b
  PROVE  Silent' = Silent /\ (Mail(command, r, a, b) => Mail(command, r, a, b)')
BY DEF queues, Silent, Mail, NoMail, NoWire

\* The route is reserved or released: the message is passed on, dropped by the
\* host PC, or refused.
LEMMA MailTravels ==
  ASSUME Inv, NEW r \in Route, NEW c \in 0 .. Len(nodes_list[r]) - 1,
         NEW back \in {"WAIT_ACK", "WAIT_AGREE", "NOT_RESERVED"},
         NEW front \in {"NOT_RESERVED", "WAIT_COMMIT", "RESERVED"},
         NEW command \in Command \ {"SENSOR_ON"}, NEW a, NEW b, Mail(command, r, a, b),
         \/ a = Stop(r, c) /\ b = Stop(r, c + 1) /\ front # "RESERVED"
         \/ a = Stop(r, c + 1) /\ b = Stop(r, c),
         Crew(r, c, back, front, {}, {}, {}, {}), NEW n \in Node, NEW s \in Id, NEW f,
         \/ Unmoved \/ Turns(n) \/ HandleOutControlMsg(n) \/ HandleInSingleMsg(n, s) \/ AnswerFailSafe(n)
         \/ f \in first_nodes /\ HostReceive(f) /\ command \notin {"TRAIN_OK", "SENSOR_OFF"}
  PROVE  \/ Mail(command, r, a, b)' /\ Crew(r, c, back, front, {}, {}, {}, {})'
         \/ Failed(r)'
<1> PICK k \in 0 .. Len(nodes_list[r]) : /\ front = "RESERVED" => k = c
                                         /\ front # "RESERVED" => k = Len(nodes_list[r])
                                         /\ c <= k /\ k \in Nat
  BY StopAhead
<1>1. <<a, b>> \in Channel /\ <<b, a>> \in Channel /\ Hop(r, k, b, a) BY Stops, HopAt
<1>2. Deserted(r, k) BY CrewDeserts
<1>3. CASE Unmoved BY <1>3, MailSame, CrewSame DEF Unmoved
<1>4. CASE Turns(n)
  <2>1. Crew(r, c, back, front, {}, {}, {}, {})' /\ UNCHANGED <<queues, sock>>
    BY <1>4, CrewKept DEF Turns
  <2> QED BY <2>1, MailSame
<1>5. CASE HandleOutControlMsg(n)
  <2>1. Mail(command, r, a, b)' BY <1>1, <1>5, MailOut
  <2>2. UNCHANGED <<control, sensor_on_detected, railswitch, setting, keyboard>>
    BY <1>5 DEF HandleOutControlMsg, host
  <2> QED BY <2>1, <2>2, CrewSame
<1>6. CASE HandleInSingleMsg(n, s)
  <2>1. /\ UNCHANGED <<control, sensor_on_detected, railswitch, setting, keyboard>>
        /\ Mail(command, r, a, b)' \/ Bounced(r, a, b)'
    BY <1>1, <1>6, MailIn
  <2>2. CASE Mail(command, r, a, b)' BY <2>1, <2>2, CrewSame
  <2>3. CASE Bounced(r, a, b)'
    <3>1. OnlyRefusals(r, k)' BY <1>1, <2>3, BouncedRefuses
    <3>2. Deserted(r, k)' BY <1>2, <2>1, DesertedSame
    <3> QED BY <3>1, <3>2 DEF Failed
  <2> QED BY <2>1, <2>2, <2>3
<1>7. CASE AnswerFailSafe(n)
  <2>1. n = b
    <3>1. PICK relayed, known : Receives(n, relayed, known) BY <1>7 DEF AnswerFailSafe, Dispatched
    <3> QED BY <3>1, MailReceived
  <2>2. n \in Elements(r) /\ IndexOf(n, r) <= k
    <3>1. CASE b = Stop(r, c + 1) /\ front # "RESERVED"
      <4>1. n \in Elements(r) BY <2>1, <3>1, Stops
      <4> QED BY <3>1, <4>1, StopOf
    <3>2. CASE b = Stop(r, c)
      <4>1. c # 0 BY <2>1, <3>2, Stops
      <4> QED BY <2>1, <3>2, <4>1, Stops
    <3> QED BY <3>1, <3>2
  <2> QED BY <1>7, <2>2, FailedAnswers
<1>8. CASE f \in first_nodes /\ HostReceive(f) /\ command \notin {"TRAIN_OK", "SENSOR_OFF"}
  <2>1. /\ OUT_CONTROL_QUEUE' = NoMail /\ IN_CONTROL_QUEUE' = NoMail /\ sock' = NoWire
        /\ UNCHANGED <<control, sensor_on_detected, railswitch, setting, keyboard>>
    BY <1>8, HostReads
  <2>2. OnlyRefusals(r, k)' BY <2>1, SilentRefuses DEF Silent, NoMail, NoWire
  <2>3. Deserted(r, k)' BY <1>2, <2>1, DesertedSame
  <2> QED BY <2>2, <2>3 DEF Failed
<1> QED BY <1>3, <1>4, <1>5, <1>6, <1>7, <1>8

LEMMA MailStep ==
  ASSUME Inv, OneTrain, [Next]_vars, NEW r \in Route, NEW c \in 0 .. Len(nodes_list[r]) - 1,
         NEW back \in {"WAIT_ACK", "WAIT_AGREE", "NOT_RESERVED"},
         NEW front \in {"NOT_RESERVED", "WAIT_COMMIT", "RESERVED"},
         NEW command \in Command \ {"SENSOR_ON"}, NEW a, NEW b, Mail(command, r, a, b),
         \/ a = Stop(r, c) /\ b = Stop(r, c + 1) /\ front # "RESERVED"
         \/ a = Stop(r, c + 1) /\ b = Stop(r, c),
         Crew(r, c, back, front, {}, {}, {}, {})
  PROVE  \/ Mail(command, r, a, b)' /\ Crew(r, c, back, front, {}, {}, {}, {})'
         \/ Failed(r)'
         \/ \E n \in Node : Message(n) /\ ~AnswerFailSafe(n)
         \/ command \in {"TRAIN_OK", "SENSOR_OFF"} /\ \E f \in first_nodes : HostReceive(f)
<1>1. keyboard = {} BY DEF Crew
<1>2. Node # {} /\ HOST_ID \in Id
  <2>1. Stop(r, c + 1) \in Node BY Stops
  <2> QED BY <2>1 DEF Id
<1>4. \A n \in Node : ~SensorOn(n) /\ ~SensorOff(n) /\ ~AfterPositioning(n) /\ ~PositioningMain(n)
  <2> TAKE n \in Node
  <2> PICK none : none = {} OBVIOUS
  <2>1. /\ SensorOn(n) => n \in none
        /\ SensorOff(n) => n \in none
        /\ AfterPositioning(n) \/ PositioningMain(n) => n \in none
    BY CrewMoves
  <2> QED BY <2>1
<1>5. ASSUME NEW n \in Node, NEW s \in Id, NEW f,
             \/ Unmoved \/ Turns(n) \/ HandleOutControlMsg(n) \/ HandleInSingleMsg(n, s) \/ AnswerFailSafe(n)
             \/ f \in first_nodes /\ HostReceive(f) /\ command \notin {"TRAIN_OK", "SENSOR_OFF"}
      PROVE  \/ Mail(command, r, a, b)' /\ Crew(r, c, back, front, {}, {}, {}, {})'
             \/ Failed(r)'
  BY <1>5, MailTravels
<1>6. \/ Unmoved
      \/ \E f \in first_nodes : HostReceive(f)
      \/ \E n \in Node, s \in Id : HandleInSingleMsg(n, s)
      \/ \E n \in Node : HandleOutControlMsg(n) \/ Turns(n) \/ Message(n)
  BY <1>1, <1>4, Steps
<1> QED BY <1>2, <1>5, <1>6

\* The step of a route that is reserved.
LEMMA ReservingStep ==
  ASSUME Inv, OneTrain, [Next]_vars, NEW r \in Route, NEW c \in 0 .. Len(nodes_list[r]) - 1,
         NEW a, NEW b, a = Stop(r, c), b = Stop(r, c + 1),
         \/ Mail("REQ", r, a, b) /\ Crew(r, c, "WAIT_ACK", "NOT_RESERVED", {}, {}, {}, {})
         \/ Mail("ACK", r, b, a) /\ Crew(r, c, "WAIT_ACK", "WAIT_COMMIT", {}, {}, {}, {})
         \/ c # 0 /\ Mail("COMMIT", r, a, b) /\ Crew(r, c, "WAIT_AGREE", "WAIT_COMMIT", {}, {}, {}, {})
         \/ Mail("AGREE", r, b, a) /\ Crew(r, c, "WAIT_AGREE", "RESERVED", {}, {}, {}, {})
  PROVE  (\E d \in 0 .. Len(nodes_list[r]) - 1 : OnItsWay(r, d)') \/ Failed(r)'
<1> DEFINE Goal == (\E d \in 0 .. Len(nodes_list[r]) - 1 : OnItsWay(r, d)') \/ Failed(r)'
<1>0. {"REQ", "ACK", "COMMIT", "AGREE"} \subseteq Command \ {"SENSOR_ON"} BY DEF Command
<1>1. CASE Mail("REQ", r, a, b) /\ Crew(r, c, "WAIT_ACK", "NOT_RESERVED", {}, {}, {}, {})
  <2>1. \/ Mail("REQ", r, a, b)' /\ Crew(r, c, "WAIT_ACK", "NOT_RESERVED", {}, {}, {}, {})'
        \/ Failed(r)'
        \/ \E n \in Node : Message(n) /\ ~AnswerFailSafe(n)
    BY <1>0, <1>1, MailStep
  <2>2. CASE Mail("REQ", r, a, b)' /\ Crew(r, c, "WAIT_ACK", "NOT_RESERVED", {}, {}, {}, {})'
    <3>1. OnItsWay(r, c)' BY <2>2 DEF OnItsWay, Stop
    <3> QED BY <3>1
  <2> QED BY <1>1, <2>1, <2>2, ReqGoesOn
<1>2. CASE Mail("ACK", r, b, a) /\ Crew(r, c, "WAIT_ACK", "WAIT_COMMIT", {}, {}, {}, {})
  <2>1. \/ Mail("ACK", r, b, a)' /\ Crew(r, c, "WAIT_ACK", "WAIT_COMMIT", {}, {}, {}, {})'
        \/ Failed(r)'
        \/ \E n \in Node : Message(n) /\ ~AnswerFailSafe(n)
    BY <1>0, <1>2, MailStep
  <2>2. CASE Mail("ACK", r, b, a)' /\ Crew(r, c, "WAIT_ACK", "WAIT_COMMIT", {}, {}, {}, {})'
    <3>1. OnItsWay(r, c)' BY <2>2 DEF OnItsWay, Stop
    <3> QED BY <3>1
  <2> QED BY <1>2, <2>1, <2>2, AckGoesOn
<1>3. CASE c # 0 /\ Mail("COMMIT", r, a, b) /\ Crew(r, c, "WAIT_AGREE", "WAIT_COMMIT", {}, {}, {}, {})
  <2>1. \/ Mail("COMMIT", r, a, b)' /\ Crew(r, c, "WAIT_AGREE", "WAIT_COMMIT", {}, {}, {}, {})'
        \/ Failed(r)'
        \/ \E n \in Node : Message(n) /\ ~AnswerFailSafe(n)
    BY <1>0, <1>3, MailStep
  <2>2. CASE Mail("COMMIT", r, a, b)' /\ Crew(r, c, "WAIT_AGREE", "WAIT_COMMIT", {}, {}, {}, {})'
    <3>1. OnItsWay(r, c)' BY <1>3, <2>2 DEF OnItsWay, Stop
    <3> QED BY <3>1
  <2> QED BY <1>3, <2>1, <2>2, CommitGoesOn
<1>4. CASE Mail("AGREE", r, b, a) /\ Crew(r, c, "WAIT_AGREE", "RESERVED", {}, {}, {}, {})
  <2>1. \/ Mail("AGREE", r, b, a)' /\ Crew(r, c, "WAIT_AGREE", "RESERVED", {}, {}, {}, {})'
        \/ Failed(r)'
        \/ \E n \in Node : Message(n) /\ ~AnswerFailSafe(n)
    BY <1>0, <1>4, MailStep
  <2>2. CASE Mail("AGREE", r, b, a)' /\ Crew(r, c, "WAIT_AGREE", "RESERVED", {}, {}, {}, {})'
    <3>1. OnItsWay(r, c)' BY <2>2 DEF OnItsWay, Stop
    <3> QED BY <3>1
  <2> QED BY <1>4, <2>1, <2>2, AgreeGoesOn
<1> QED BY <1>1, <1>2, <1>3, <1>4

\* The step of a train that departs, or has left.
LEMMA TravellingStep ==
  ASSUME Inv, OneTrain, [Next]_vars, NEW r \in Route, NEW c \in 0 .. Len(nodes_list[r]) - 1,
         NEW a, NEW b, a = Stop(r, c), b = Stop(r, c + 1),
         \/ c = 0 /\ Mail("TRAIN_OK", r, b, a) /\ Crew(r, c, "NOT_RESERVED", "RESERVED", {}, {}, {}, {})
         \/ Mail("SENSOR_OFF", r, b, a) /\ Crew(r, c, "NOT_RESERVED", "NOT_RESERVED", {}, {}, {}, {})
  PROVE  \/ Idle' \/ Failed(r)'
         \/ \E q \in Route : \E d \in 0 .. Len(nodes_list[q]) - 1 : OnItsWay(q, d)'
<1>0. {"TRAIN_OK", "SENSOR_OFF"} \subseteq Command \ {"SENSOR_ON"} BY DEF Command
<1>1. CASE c = 0 /\ Mail("TRAIN_OK", r, b, a) /\ Crew(r, c, "NOT_RESERVED", "RESERVED", {}, {}, {}, {})
  <2>1. \/ Mail("TRAIN_OK", r, b, a)' /\ Crew(r, c, "NOT_RESERVED", "RESERVED", {}, {}, {}, {})'
        \/ Failed(r)'
        \/ \E n \in Node : Message(n)
        \/ \E f \in first_nodes : HostReceive(f)
    BY <1>0, <1>1, MailStep
  <2>2. CASE Mail("TRAIN_OK", r, b, a)' /\ Crew(r, c, "NOT_RESERVED", "RESERVED", {}, {}, {}, {})'
    <3>1. OnItsWay(r, c)' BY <1>1, <2>2 DEF OnItsWay, Stop
    <3> QED BY <3>1
  <2>3. \A n \in Node : ~Message(n)
    <3>1. a \notin Node BY <1>1, Stops
    <3> QED BY <1>1, <3>1, MessageReceives, MailReceived
  <2> QED BY <1>1, <2>1, <2>2, <2>3, TrainDeparts
<1>2. CASE Mail("SENSOR_OFF", r, b, a) /\ Crew(r, c, "NOT_RESERVED", "NOT_RESERVED", {}, {}, {}, {})
  <2>1. \/ Mail("SENSOR_OFF", r, b, a)' /\ Crew(r, c, "NOT_RESERVED", "NOT_RESERVED", {}, {}, {}, {})'
        \/ Failed(r)'
        \/ \E n \in Node : Message(n) /\ ~AnswerFailSafe(n)
        \/ \E f \in first_nodes : HostReceive(f)
    BY <1>0, <1>2, MailStep
  <2>2. CASE Mail("SENSOR_OFF", r, b, a)' /\ Crew(r, c, "NOT_RESERVED", "NOT_RESERVED", {}, {}, {}, {})'
    <3>1. OnItsWay(r, c)' BY <2>2 DEF OnItsWay, Stop
    <3> QED BY <3>1
  <2>3. CASE \E n \in Node : Message(n) /\ ~AnswerFailSafe(n) BY <1>2, <2>3, SensorOffGoesOn
  <2>4. CASE \E f \in first_nodes : HostReceive(f) BY <1>2, <2>4, TrainIsGone
  <2> QED BY <2>1, <2>2, <2>3, <2>4
<1> QED BY <1>1, <1>2

\* The step of a train that rides, or of a switch that moves.
LEMMA RidingStep ==
  ASSUME Inv, OneTrain, [Next]_vars, NEW r \in Route, NEW c \in 0 .. Len(nodes_list[r]) - 1,
         NEW a, NEW b, a = Stop(r, c), b = Stop(r, c + 1),
         \/ Mail("SENSOR_ON", r, a, b) /\ Crew(r, c, "NOT_RESERVED", "RESERVED", {}, {}, {}, {a})
         \/ Silent /\ Crew(r, c, "NOT_RESERVED", "RESERVED", {}, {b}, {}, {a})
         \/ Silent /\ Crew(r, c, "NOT_RESERVED", "RESERVED", {}, {}, {b}, {a})
  PROVE  (\E d \in 0 .. Len(nodes_list[r]) - 1 : OnItsWay(r, d)') \/ Failed(r)'
<1>1. keyboard = {} BY DEF Crew
<1>2. HOST_ID \in Id BY DEF Id
<1>3. /\ <<a, b>> \in Channel /\ \A f \in first_nodes : <<f, HOST_ID>> \in Channel
      /\ b \in Node /\ b # HOST_ID
  BY Stops, FirstNodes
<1>4. CASE Mail("SENSOR_ON", r, a, b) /\ Crew(r, c, "NOT_RESERVED", "RESERVED", {}, {}, {}, {a})
  <2>1. \A n \in Node : ~SensorOn(n) /\ ~SensorOff(n) /\ ~AfterPositioning(n) /\ ~PositioningMain(n)
    <3> TAKE n \in Node
    <3> PICK none : none = {} OBVIOUS
    <3>1. /\ SensorOn(n) => n \in none
          /\ SensorOff(n) => n \in none
          /\ AfterPositioning(n) \/ PositioningMain(n) => n \in none
      BY <1>4, CrewMoves
    <3> QED BY <3>1
  <2>2. \A n \in Node : ~Message(n) BY <1>4, MessageReceives, MailReceived
  <2>3. \A f \in first_nodes : ~HostReceive(f) BY <1>3, <1>4, HostReads
  <2>4. ASSUME Mail("SENSOR_ON", r, a, b)', Crew(r, c, "NOT_RESERVED", "RESERVED", {}, {}, {}, {a})'
        PROVE  OnItsWay(r, c)'
    BY <2>4 DEF OnItsWay, Stop
  <2>5. CASE Unmoved BY <1>4, <2>4, <2>5, MailSame, CrewSame DEF Unmoved
  <2>6. CASE \E n \in Node : Turns(n)
    <3>1. Crew(r, c, "NOT_RESERVED", "RESERVED", {}, {}, {}, {a})' /\ UNCHANGED <<queues, sock>>
      BY <1>4, <2>6, CrewKept DEF Turns
    <3> QED BY <1>4, <2>4, <3>1, MailSame
  <2>7. CASE \E n \in Node : HandleOutControlMsg(n)
    <3>1. Mail("SENSOR_ON", r, a, b)' BY <1>3, <1>4, <2>7, MailOut
    <3>2. UNCHANGED <<control, sensor_on_detected, railswitch, setting, keyboard>>
      BY <2>7 DEF HandleOutControlMsg, host
    <3> QED BY <1>4, <2>4, <3>1, <3>2, CrewSame
  <2>8. CASE \E n \in Node, s \in Id : HandleInSingleMsg(n, s)
    <3> PICK n \in Node, s \in Id : HandleInSingleMsg(n, s) BY <2>8
    <3>1. NODE_STATUS[n] = "PING_FAIL_SAFE" \/ OnItsWay(r, c)' BY <1>4, SensorOnArrives
    <3>2. NODE_STATUS[n] = "PING_FAIL_SAFE" => Failed(r)'
      <4> PICK none \in SUBSET {b} : none = {} OBVIOUS
      <4> QED BY <1>4, RideFails
    <3> QED BY <3>1, <3>2
  <2> QED BY <1>1, <2>1, <2>2, <2>3, <2>5, <2>6, <2>7, <2>8, Steps
<1>5. ASSUME NEW flagged \in SUBSET {b}, NEW passing \in SUBSET {b}, Silent,
             Crew(r, c, "NOT_RESERVED", "RESERVED", {}, flagged, passing, {a}),
             (flagged = {b} /\ passing = {}) \/ (flagged = {} /\ passing = {b})
      PROVE  (\E d \in 0 .. Len(nodes_list[r]) - 1 : OnItsWay(r, d)') \/ Failed(r)'
  <2>1. \A n \in Node : /\ ~AfterPositioning(n) /\ ~PositioningMain(n)
                        /\ SensorOn(n) => flagged = {b}
                        /\ SensorOff(n) => passing = {b}
    BY <1>5, CrewMoves
  <2>2. /\ \A n \in Node : ~Message(n) /\ ~HandleOutControlMsg(n)
        /\ \A f \in first_nodes : ~HostReceive(f)
        /\ \A n \in Node, s \in Id : ~HandleInSingleMsg(n, s)
    BY <1>3, <1>5, SilentMeans, MessageReceives
  <2>3. ASSUME Silent', Crew(r, c, "NOT_RESERVED", "RESERVED", {}, flagged, passing, {a})'
        PROVE  OnItsWay(r, c)'
    <3>1. CASE flagged = {b} /\ passing = {} BY <2>3, <3>1 DEF OnItsWay, Stop
    <3>2. CASE flagged = {} /\ passing = {b} BY <2>3, <3>2 DEF OnItsWay, Stop
    <3> QED BY <1>5, <3>1, <3>2
  <2>4. CASE Unmoved BY <1>5, <2>3, <2>4, MailSame, CrewSame DEF Unmoved
  <2>5. CASE \E n \in Node : Turns(n)
    <3> PICK n \in Node : Turns(n) BY <2>5
    <3>1. DiagFailed(n) /\ n \in flagged \union passing => Failed(r)' BY <1>2, <1>5, RideFails
    <3>2. CASE ~(DiagFailed(n) /\ n \in flagged \union passing)
      <4>1. /\ Crew(r, c, "NOT_RESERVED", "RESERVED", {}, flagged, passing, {a})'
            /\ UNCHANGED <<queues, sock>>
        BY <1>5, <3>2, CrewKept DEF Turns
      <4> QED BY <1>5, <2>3, <4>1, MailSame
    <3> QED BY <3>1, <3>2
  <2>6. CASE \E n \in Node : SensorOn(n)
    <3>1. flagged = {b} /\ passing = {} BY <1>5, <2>1, <2>6
    <3> QED BY <1>5, <2>6, <3>1, TrainComesIn
  <2>7. CASE \E n \in Node : SensorOff(n)
    <3>1. flagged = {} /\ passing = {b} BY <1>5, <2>1, <2>7
    <3> QED BY <1>5, <2>7, <3>1, TrainGoesOn
  <2> QED BY <1>1, <2>1, <2>2, <2>4, <2>5, <2>6, <2>7, Steps
<1>6. CASE Silent /\ Crew(r, c, "NOT_RESERVED", "RESERVED", {}, {b}, {}, {a})
  <2> PICK flagged \in SUBSET {b}, passing \in SUBSET {b} : flagged = {b} /\ passing = {} OBVIOUS
  <2>1. Crew(r, c, "NOT_RESERVED", "RESERVED", {}, flagged, passing, {a}) BY <1>6
  <2>2. flagged = {b} /\ passing = {} OBVIOUS
  <2> QED BY <1>5, <1>6, <2>1, <2>2
<1>7. CASE Silent /\ Crew(r, c, "NOT_RESERVED", "RESERVED", {}, {}, {b}, {a})
  <2> PICK flagged \in SUBSET {b}, passing \in SUBSET {b} : flagged = {} /\ passing = {b} OBVIOUS
  <2>1. Crew(r, c, "NOT_RESERVED", "RESERVED", {}, flagged, passing, {a}) BY <1>7
  <2>2. flagged = {} /\ passing = {b} OBVIOUS
  <2> QED BY <1>5, <1>7, <2>1, <2>2
<1> QED BY <1>4, <1>6, <1>7

\* The step of a switch that moves.
LEMMA PositioningStep ==
  ASSUME Inv, OneTrain, [Next]_vars, NEW r \in Route, NEW c \in 0 .. Len(nodes_list[r]) - 1,
         NEW a, a = Stop(r, c), c # 0, Silent, Crew(r, c, "WAIT_AGREE", "RESERVED", {a}, {}, {}, {}),
         IsSwitch(a), railswitch[a].last_route_id = r,
         in_msg[a].command = "AGREE", in_msg[a].route_id = r
  PROVE  (\E d \in 0 .. Len(nodes_list[r]) - 1 : OnItsWay(r, d)') \/ Failed(r)'
<1>1. keyboard = {} /\ \A f \in first_nodes : <<f, HOST_ID>> \in Channel BY FirstNodes DEF Crew
<1>2. \A n \in Node : ~SensorOn(n) /\ ~SensorOff(n)
  <2> TAKE n \in Node
  <2> PICK none : none = {} OBVIOUS
  <2>1. (SensorOn(n) => n \in none) /\ (SensorOff(n) => n \in none) BY CrewMoves
  <2> QED BY <2>1
<1>3. /\ \A n \in Node : ~Message(n) /\ ~HandleOutControlMsg(n)
      /\ \A f \in first_nodes : ~HostReceive(f)
      /\ \A n \in Node, s \in Id : ~HandleInSingleMsg(n, s)
  BY <1>1, SilentMeans, MessageReceives
<1>4. ASSUME Silent', Crew(r, c, "WAIT_AGREE", "RESERVED", {a}, {}, {}, {})', UNCHANGED <<in_msg, railswitch>>
      PROVE  OnItsWay(r, c)'
  BY <1>4 DEF OnItsWay, Stop, IsSwitch
<1>5. CASE Unmoved BY <1>4, <1>5, MailSame, CrewSame DEF Unmoved, control
<1>6. CASE \E n \in Node : Turns(n)
  <2> PICK n \in Node : Turns(n) BY <1>6
  <2>1. /\ Crew(r, c, "WAIT_AGREE", "RESERVED", {a}, {}, {}, {})'
        /\ UNCHANGED <<queues, sock, in_msg, railswitch>>
    BY CrewKept DEF Turns
  <2> QED BY <1>4, <2>1, MailSame
<1>7. CASE \E n \in Node : AfterPositioning(n) \/ PositioningMain(n)
  <2> PICK n \in Node : AfterPositioning(n) \/ PositioningMain(n) BY <1>7
  <2>1. AfterPositioning(n) /\ ~Positioned(n) => Failed(r)' BY PositioningFails
  <2>2. PositioningMain(n) \/ (AfterPositioning(n) /\ Positioned(n))
          => \E d \in 0 .. Len(nodes_list[r]) - 1 : OnItsWay(r, d)'
    BY PositioningGoesOn
  <2> QED BY <2>1, <2>2
<1> QED BY <1>1, <1>2, <1>3, <1>5, <1>6, <1>7, Steps

LEMMA WayStep ==
  ASSUME Inv, OneTrain, [Next]_vars, NEW r \in Route, NEW c \in 0 .. Len(nodes_list[r]) - 1,
         OnItsWay(r, c)
  PROVE  \/ Idle' \/ Failed(r)'
         \/ \E q \in Route : \E d \in 0 .. Len(nodes_list[q]) - 1 : OnItsWay(q, d)'
<1> PICK a : a = Stop(r, c) OBVIOUS
<1> PICK b : b = Stop(r, c + 1) OBVIOUS
<1>1. \/ Mail("REQ", r, a, b) /\ Crew(r, c, "WAIT_ACK", "NOT_RESERVED", {}, {}, {}, {})
      \/ Mail("ACK", r, b, a) /\ Crew(r, c, "WAIT_ACK", "WAIT_COMMIT", {}, {}, {}, {})
      \/ c # 0 /\ Mail("COMMIT", r, a, b) /\ Crew(r, c, "WAIT_AGREE", "WAIT_COMMIT", {}, {}, {}, {})
      \/ Mail("AGREE", r, b, a) /\ Crew(r, c, "WAIT_AGREE", "RESERVED", {}, {}, {}, {})
      \/ /\ c # 0 /\ Silent /\ Crew(r, c, "WAIT_AGREE", "RESERVED", {a}, {}, {}, {})
         /\ IsSwitch(a) /\ railswitch[a].last_route_id = r
         /\ in_msg[a].command = "AGREE" /\ in_msg[a].route_id = r
      \/ c = 0 /\ Mail("TRAIN_OK", r, b, a) /\ Crew(r, c, "NOT_RESERVED", "RESERVED", {}, {}, {}, {})
      \/ Mail("SENSOR_ON", r, a, b) /\ Crew(r, c, "NOT_RESERVED", "RESERVED", {}, {}, {}, {a})
      \/ Silent /\ Crew(r, c, "NOT_RESERVED", "RESERVED", {}, {b}, {}, {a})
      \/ Silent /\ Crew(r, c, "NOT_RESERVED", "RESERVED", {}, {}, {b}, {a})
      \/ Mail("SENSOR_OFF", r, b, a) /\ Crew(r, c, "NOT_RESERVED", "NOT_RESERVED", {}, {}, {}, {})
  BY DEF OnItsWay
<1>2. \/ (\E d \in 0 .. Len(nodes_list[r]) - 1 : OnItsWay(r, d)') \/ Failed(r)'
      \/ Idle' \/ \E q \in Route : \E d \in 0 .. Len(nodes_list[q]) - 1 : OnItsWay(q, d)'
  BY <1>1, ReservingStep, PositioningStep, TravellingStep, RidingStep
<1> QED BY <1>2

\* The step of a request that has failed.
LEMMA FailedStep ==
  ASSUME Inv, OneTrain, [Next]_vars, NEW r \in Route, Failed(r)
  PROVE  Failed(r)'
<1> PICK k \in 0 .. Len(nodes_list[r]) : OnlyRefusals(r, k) /\ Deserted(r, k) BY DEF Failed
<1>1. keyboard = {} /\ \A n \in Node : DesertedAt(n, r, k) BY DEF Deserted
<1>2. \A n \in Node : ~AfterPositioning(n) /\ ~PositioningMain(n) /\ ~SensorOn(n) /\ ~SensorOff(n)
  BY <1>1 DEF DesertedAt, AfterPositioning, PositioningMain, SensorOn, SensorOff, HasLeft
<1>3. CASE Unmoved
  <2>1. Deserted(r, k)' BY <1>3, DesertedSame DEF Unmoved
  <2>2. OnlyRefusals(r, k)' BY <1>3, RefusalTerms DEF Unmoved, OnlyRefusals, queues
  <2> QED BY <2>1, <2>2 DEF Failed
<1>4. CASE \E n \in Node : Turns(n) BY <1>4, RefusalAndLoop DEF Turns
<1> QED BY <1>1, <1>2, <1>3, <1>4, Steps, RefusalOut, RefusalIn, RefusalAtHost, RefusalHandled

LEMMA SettingStays == ASSUME Inv, [Next]_vars PROVE setting' = setting
<1>1. HOST_ID \in Id BY DEF Id
<1>2. \A n \in Node : controlMain(n) \/ DiagFailed(n) \/ PositioningMain(n) => setting' = setting
  BY <1>1, StepsAreLocal DEF OnlyAt
<1>3. \A n \in Node, s \in Id : HandleInSingleMsg(n, s) => setting' = setting
  BY StepsAreLocal DEF OnlyAt
<1> QED BY <1>2, <1>3 DEF Next, vars, host, HostCommand, HostReceive, HandleOutControlMsg, TrainEnters, TrainLeaves

\* The step before the operator asks, or once the train is gone.
LEMMA IdleStep ==
  ASSUME Inv, OneTrain, [Next]_vars, Idle
  PROVE  Idle' \/ \E q \in Route : \E d \in 0 .. Len(nodes_list[q]) - 1 : OnItsWay(q, d)'
<1>1. /\ \A n \in Node : ~Message(n) /\ ~HandleOutControlMsg(n)
      /\ \A f \in first_nodes : ~HostReceive(f)
      /\ \A n \in Node, s \in Id : ~HandleInSingleMsg(n, s)
  BY FirstNodes, SilentMeans, MessageReceives DEF Idle
<1>2. \A n \in Node : AtRest(n) BY DEF Idle
<1>3. \A n \in Node : /\ ~AfterPositioning(n) /\ ~PositioningMain(n) /\ ~SensorOn(n) /\ ~SensorOff(n)
                      /\ ~ButtonOn(n) /\ ~ButtonOff(n) /\ ~TrainEnters(n)
  BY <1>2 DEF AtRest, Stands, HasLeft, AfterPositioning, PositioningMain, SensorOn, SensorOff,
     ButtonOn, ButtonOff, TrainEnters, OneTrain
<1>4. CASE \E x \in Commands : HostCommand(x) BY <1>4, OperatorAsks
<1>5. CASE Unmoved
  <2>1. \A n \in Node : AtRest(n)'
    BY <1>2, <1>5 DEF Unmoved, control, AtRest, LoopOK, Stands, HasLeft, EndsAt
  <2> QED BY <1>5, <2>1, MailSame DEF Unmoved, Idle
<1>6. CASE \E n \in Node : Turns(n)
  <2> PICK n \in Node : Turns(n) BY <1>6
  <2>1. UNCHANGED <<queues, sock, setting, keyboard, sensor_on_detected, current_route>>
    BY DEF Turns, NoSensor, NoMessage, ResetNodeStatus, DiagFailed, host
  <2>2. OnlyAt(n)
    <3>1. HOST_ID \in Id BY DEF Id
    <3> QED BY <3>1, StepsAreLocal DEF Turns, controlMain, Sensors
  <2>3. \A k \in Node \ {n} : AtRest(k)'
    BY <1>2, <2>2 DEF OnlyAt, AtRest, LoopOK, Stands, HasLeft, EndsAt
  <2>4. AtRest(n)'
    <3>1. CASE NoSensor(n) \/ NoMessage(n)
      <4>1. /\ control_pc[n] \in {"sensors", "message"} /\ control_pc'[n] \in {"sensors", "message"}
            /\ NODE_STATUS' = NODE_STATUS
            /\ NODE_STATUS[n] = "PING_FAIL_SAFE" => control_pc'[n] = "message"
        BY <1>2, <3>1 DEF NoSensor, NoMessage, Goto, LoopStart, Inv, TypeOK, Locked, AtRest, LoopOK
      <4> QED BY <1>2, <2>1, <4>1 DEF AtRest, LoopOK, Stands, HasLeft, EndsAt
    <3>2. CASE ResetNodeStatus(n)
      <4>1. /\ control_pc[n] = "reset" /\ control_pc'[n] = "message" /\ NODE_STATUS'[n] = "NOT_RESERVED"
        BY <3>2 DEF ResetNodeStatus, Goto, setNodeStatus, Inv, TypeOK
      <4> QED BY <1>2, <2>1, <4>1 DEF AtRest, LoopOK, Stands, HasLeft, EndsAt
    <3>3. CASE DiagFailed(n)
      <4>1. /\ control_pc[n] = "message" /\ control_pc' = control_pc /\ n \in setting.PingFailNodes
            /\ NODE_STATUS'[n] = "PING_FAIL_SAFE"
        BY <3>3 DEF DiagFailed, setNodeStatus, Inv, TypeOK
      <4> QED BY <1>2, <2>1, <4>1 DEF AtRest, LoopOK, Stands, HasLeft, EndsAt
    <3> QED BY <3>1, <3>2, <3>3 DEF Turns
  <2> QED BY <2>1, <2>3, <2>4, MailSame DEF Idle
<1>7. \A n \in Node : TrainLeaves(n) => Unmoved BY DEF TrainLeaves, Unmoved
<1>8. UNCHANGED vars => Unmoved BY DEF vars, host, Unmoved
<1>9. CASE Next BY <1>1, <1>3, <1>4, <1>5, <1>6, <1>7, <1>9 DEF Next, controlMain, Sensors, Turns
<1> QED BY <1>5, <1>8, <1>9

-----------------------------------------------------------------------------
(* The inductive invariant, for one train.                                 *)

LEMMA OneTrainHolds == Spec /\ OneTrain => []OneTrainInv
<1>1. Init /\ OneTrain /\ Inv => OneTrainInv
  <2> SUFFICES ASSUME Init, OneTrain, Inv PROVE Idle BY DEF OneTrainInv
  <2>1. \A n \in Node : AtRest(n) BY DEF Init, AtRest, LoopOK, Stands, HasLeft
  <2>2. Silent BY DEF Init, Silent, NoMail, NoWire
  <2> QED BY <2>1, <2>2 DEF Init, Idle
<1>2. Inv /\ Inv' /\ OneTrainInv /\ [Next]_vars => OneTrainInv'
  <2> SUFFICES ASSUME Inv, Inv', OneTrainInv, [Next]_vars PROVE OneTrainInv' OBVIOUS
  <2>1. OneTrain BY DEF OneTrainInv
  <2>2. OneTrain'
    <3>1. UNCHANGED setting BY SettingStays
    <3> QED BY <2>1, <3>1 DEF OneTrain, AtHead
  <2>3. \/ Idle' \/ (\E q \in Route : Failed(q)')
        \/ \E q \in Route : \E d \in 0 .. Len(nodes_list[q]) - 1 : OnItsWay(q, d)'
    <3>1. CASE Idle BY <2>1, <3>1, IdleStep
    <3>2. CASE \E r \in Route : \E c \in 0 .. Len(nodes_list[r]) - 1 : OnItsWay(r, c)
      BY <2>1, <3>2, WayStep
    <3>3. CASE \E r \in Route : Failed(r) BY <2>1, <3>3, FailedStep
    <3> QED BY <3>1, <3>2, <3>3 DEF OneTrainInv, Failed
  <2> QED BY <2>2, <2>3 DEF OneTrainInv, Failed
<1>3. Spec => []Inv BY InvHolds
<1> QED BY <1>1, <1>2, <1>3, PTL DEF Spec

-----------------------------------------------------------------------------
(* What a locked element can rely on.                                      *)

\* Its switches ahead are set, and all is locked up to an element that failed.
LeadsOn(n, r) ==
  /\ n \in Elements(r) /\ current_route[n] = r
  /\ \A m \in Elements(r) : IndexOf(n, r) <= IndexOf(m, r) => SetFor(m, r)
  /\ \/ rasp_id_next(n, r) # TAIL_ID /\ NODE_STATUS[rasp_id_next(n, r)] = "PING_FAIL_SAFE"
     \/ \A m \in Elements(r) : IndexOf(n, r) < IndexOf(m, r) =>
          NODE_STATUS[m] \in Locked \union {"PING_FAIL_SAFE"} /\ current_route[m] = r

LEMMA CrewLocked ==
  ASSUME NEW r \in Route, NEW c \in 0 .. Len(nodes_list[r]) - 1,
         NEW back \in {"WAIT_ACK", "WAIT_AGREE", "NOT_RESERVED"},
         NEW front \in {"NOT_RESERVED", "WAIT_COMMIT", "RESERVED"},
         NEW waits, NEW flagged, NEW passing \in SUBSET {Stop(r, c + 1)}, NEW left \in SUBSET {Stop(r, c)},
         passing = {} \/ front = "RESERVED",
         left = {} \/ (back = "NOT_RESERVED" /\ front = "RESERVED"),
         Crew(r, c, back, front, waits, flagged, passing, left),
         NEW n \in Node, NODE_STATUS[n] \in Locked
  PROVE  (HasLeft(n) /\ EndsAt(n)) \/ LeadsOn(n, r)
<1>1. Member(n, r, c, back, front, waits, flagged, passing, left) BY DEF Crew
<1>2. /\ n \in Elements(r) => IndexOf(n, r) \in Nat /\ (IndexOf(n, r) <= c \/ IndexOf(n, r) > c)
      /\ c \in Nat /\ \A m \in Elements(r) : m \in Node /\ IndexOf(m, r) \in Nat
  BY StopOf
<1>3. Stop(r, c + 1) \in Elements(r) /\ IndexOf(Stop(r, c + 1), r) = c + 1
  BY Stops
<1>4. c # 0 => Stop(r, c) \in Elements(r) /\ IndexOf(Stop(r, c), r) = c
  BY Stops
<1>5. c = 0 => Stop(r, c) \notin Node BY Stops
\* It is ahead of the train, or the train has just left it.
<1>6. \/ HasLeft(n) /\ EndsAt(n)
      \/ /\ n \in Elements(r) /\ front = "RESERVED" /\ current_route[n] = r
         /\ IndexOf(n, r) > c \/ (IndexOf(n, r) = c /\ back = "NOT_RESERVED")
  <2>1. CASE n \in passing
    <3>1. n = Stop(r, c + 1) /\ front = "RESERVED" BY <2>1
    <3>2. IndexOf(n, r) > c BY <1>2, <1>3, <3>1
    <3> QED BY <1>1, <1>3, <3>1, <3>2 DEF Member
  <2>2. CASE n \in left
    <3>1. n = Stop(r, c) /\ c # 0 /\ back = "NOT_RESERVED" /\ front = "RESERVED" BY <1>5, <2>2
    <3> QED BY <1>1, <1>4, <3>1 DEF Member
  <2>3. CASE n \notin passing /\ n \notin left
    <3>1. HasLeft(n) => EndsAt(n) BY <1>1, <2>3 DEF Member
    <3>2. CASE ~HasLeft(n)
      <4>1. \A s : Stands(n, s) => s \in Locked BY <3>2 DEF Stands, Locked
      <4>2. n \in Elements(r) /\ ~(IndexOf(n, r) <= c) BY <1>1, <2>3, <4>1 DEF Member, Locked
      <4>3. IndexOf(n, r) > c BY <1>2, <4>2
      <4>4. front = "RESERVED" BY <1>1, <2>3, <4>1, <4>2, <4>3 DEF Member, Locked
      <4> QED BY <1>1, <4>2, <4>3, <4>4 DEF Member
    <3> QED BY <3>1, <3>2
  <2> QED BY <2>1, <2>2, <2>3
<1>7. ASSUME n \in Elements(r), front = "RESERVED", current_route[n] = r,
             IndexOf(n, r) > c \/ (IndexOf(n, r) = c /\ back = "NOT_RESERVED")
      PROVE  LeadsOn(n, r)
  <2>1. ASSUME NEW m \in Elements(r), IndexOf(n, r) <= IndexOf(m, r) PROVE SetFor(m, r)
    <3>1. Member(m, r, c, back, front, waits, flagged, passing, left) BY <1>2 DEF Crew
    <3>2. back = "NOT_RESERVED" \/ IndexOf(m, r) > c BY <1>2, <1>7, <2>1
    <3> QED BY <1>7, <3>1, <3>2 DEF Member
  <2>2. ASSUME NEW m \in Elements(r), IndexOf(n, r) < IndexOf(m, r)
        PROVE  NODE_STATUS[m] \in Locked \union {"PING_FAIL_SAFE"} /\ current_route[m] = r
    <3>1. Member(m, r, c, back, front, waits, flagged, passing, left) BY <1>2 DEF Crew
    <3>2. IndexOf(m, r) > c BY <1>2, <1>7, <2>2
    <3>3. m \in passing => NODE_STATUS[m] = "TRAIN_IN_TRANSITION" BY <3>1 DEF Member
    <3> QED BY <1>7, <3>1, <3>2, <3>3 DEF Member, Stands, Locked
  <2> QED BY <1>7, <2>1, <2>2 DEF LeadsOn
<1> QED BY <1>6, <1>7

LEMMA WayLocked ==
  ASSUME NEW r \in Route, NEW c \in 0 .. Len(nodes_list[r]) - 1, OnItsWay(r, c),
         NEW n \in Node, NODE_STATUS[n] \in Locked
  PROVE  (HasLeft(n) /\ EndsAt(n)) \/ LeadsOn(n, r)
<1> PICK a : a = Stop(r, c) OBVIOUS
<1> PICK b : b = Stop(r, c + 1) OBVIOUS
<1>1. ASSUME NEW back \in {"WAIT_ACK", "WAIT_AGREE", "NOT_RESERVED"},
             NEW front \in {"NOT_RESERVED", "WAIT_COMMIT", "RESERVED"}, NEW waits, NEW flagged,
             NEW passing \in SUBSET {b}, NEW left \in SUBSET {a}, passing = {}, left = {},
             Crew(r, c, back, front, waits, flagged, passing, left)
      PROVE  (HasLeft(n) /\ EndsAt(n)) \/ LeadsOn(n, r)
  BY <1>1, CrewLocked
<1>2. ASSUME NEW flagged, NEW passing \in SUBSET {b}, NEW left \in SUBSET {a},
             Crew(r, c, "NOT_RESERVED", "RESERVED", {}, flagged, passing, left)
      PROVE  (HasLeft(n) /\ EndsAt(n)) \/ LeadsOn(n, r)
  BY <1>2, CrewLocked
<1>3. {} \in SUBSET {a} /\ {} \in SUBSET {b} /\ {b} \in SUBSET {b} /\ {a} \in SUBSET {a} OBVIOUS
<1>4. \/ \E waits : \/ Crew(r, c, "WAIT_ACK", "NOT_RESERVED", waits, {}, {}, {})
                    \/ Crew(r, c, "WAIT_ACK", "WAIT_COMMIT", waits, {}, {}, {})
                    \/ Crew(r, c, "WAIT_AGREE", "WAIT_COMMIT", waits, {}, {}, {})
                    \/ Crew(r, c, "WAIT_AGREE", "RESERVED", waits, {}, {}, {})
                    \/ Crew(r, c, "NOT_RESERVED", "RESERVED", waits, {}, {}, {})
                    \/ Crew(r, c, "NOT_RESERVED", "NOT_RESERVED", waits, {}, {}, {})
      \/ Crew(r, c, "NOT_RESERVED", "RESERVED", {}, {}, {}, {a})
      \/ Crew(r, c, "NOT_RESERVED", "RESERVED", {}, {b}, {}, {a})
      \/ Crew(r, c, "NOT_RESERVED", "RESERVED", {}, {}, {b}, {a})
  BY DEF OnItsWay
<1> QED BY <1>1, <1>2, <1>3, <1>4

LEMMA DesertedLocked ==
  ASSUME NEW r \in Route, NEW k \in 0 .. Len(nodes_list[r]), Deserted(r, k),
         NEW n \in Node, NODE_STATUS[n] \in Locked
  PROVE  (HasLeft(n) /\ EndsAt(n)) \/ LeadsOn(n, r)
<1>1. \A m \in Node : DesertedAt(m, r, k) BY DEF Deserted
<1>2. /\ n \in Elements(r) => IndexOf(n, r) \in Nat /\ (IndexOf(n, r) <= k \/ IndexOf(n, r) > k)
      /\ k \in Nat /\ \A m \in Elements(r) : m \in Node /\ IndexOf(m, r) \in Nat
  BY StopOf
<1>3. CASE NODE_STATUS[n] = "TRAIN_IN_TRANSITION"
  <2>1. HasLeft(n) BY <1>1, <1>3 DEF DesertedAt
  <2> QED BY <1>1, <2>1 DEF DesertedAt, LeadsOn
<1>4. CASE NODE_STATUS[n] = "RESERVED"
  <2>1. n \in Elements(r) BY <1>1, <1>4 DEF DesertedAt, Stands, HasLeft
  <2>2. IndexOf(n, r) > k BY <1>1, <1>2, <1>4, <2>1 DEF DesertedAt
  <2>3. current_route[n] = r BY <1>1, <2>1, <2>2 DEF DesertedAt
  <2>4. ASSUME NEW m \in Elements(r), IndexOf(n, r) <= IndexOf(m, r)
        PROVE  /\ NODE_STATUS[m] \in Locked \union {"PING_FAIL_SAFE"}
               /\ current_route[m] = r /\ SetFor(m, r)
    <3>1. IndexOf(m, r) > k /\ m \in Node BY <1>2, <2>1, <2>2, <2>4
    <3> QED BY <1>1, <3>1 DEF DesertedAt, Stands, Locked
  <2>5. \A m \in Elements(r) : IndexOf(n, r) < IndexOf(m, r) => IndexOf(n, r) <= IndexOf(m, r)
    BY <1>2, <2>1
  <2> QED BY <2>1, <2>3, <2>4, <2>5 DEF LeadsOn
<1> QED BY <1>3, <1>4 DEF Locked

\* The elements of the train's route are locked for it, or are the last of it.
LEMMA LockedLeads ==
  ASSUME OneTrainInv, NEW n \in Node, NODE_STATUS[n] \in Locked
  PROVE  (HasLeft(n) /\ EndsAt(n)) \/ \E r \in Route : LeadsOn(n, r)
<1>1. CASE Idle BY <1>1 DEF Idle, AtRest, Stands, Locked
<1> QED BY <1>1, WayLocked, DesertedLocked DEF OneTrainInv

\* A locked element handles messages of its own route only.
LEMMA LockedHears ==
  ASSUME Inv, OneTrainInv, NEW n \in Node, NODE_STATUS[n] \in Locked, Message(n)
  PROVE  Received(n).route_id = current_route[n] /\ current_route[n] \in node_routes(n)
<1> PICK relayed, known : Receives(n, relayed, known) BY MessageReceives
<1>1. control_pc[n] = "message" /\ ~HasLeft(n) BY DEF Receives, HasLeft
<1>2. ~Idle BY SilentMeans DEF Idle
<1>3. ASSUME NEW r \in Route, NEW c \in 0 .. Len(nodes_list[r]) - 1, OnItsWay(r, c)
      PROVE  Received(n).route_id = r /\ LeadsOn(n, r)
  <2> PICK a : a = Stop(r, c) OBVIOUS
  <2> PICK b : b = Stop(r, c + 1) OBVIOUS
  <2>1. ASSUME NEW command, Mail(command, r, a, b) \/ Mail(command, r, b, a)
        PROVE  Received(n).route_id = r
    BY <2>1, MailReceived
  <2>2. ~Silent BY SilentMeans
  <2>3. \E command : Mail(command, r, a, b) \/ Mail(command, r, b, a) BY <1>3, <2>2 DEF OnItsWay
  <2> QED BY <1>1, <1>3, <2>1, <2>3, WayLocked
<1>4. ASSUME NEW r \in Route, NEW k \in 0 .. Len(nodes_list[r]), OnlyRefusals(r, k), Deserted(r, k)
      PROVE  Received(n).route_id = r /\ LeadsOn(n, r)
  <2>1. IN_CONTROL_QUEUE[n] \in Seq(Refused(r, k, n)) /\ IN_CONTROL_QUEUE[n] # << >>
    BY <1>4 DEF OnlyRefusals, Receives
  <2>2. Received(n) \in Refused(r, k, n) BY <2>1 DEF Received
  <2> QED BY <1>1, <1>4, <2>2, DesertedLocked DEF Refused, Refusals, Wired
<1> QED BY <1>2, <1>3, <1>4 DEF OneTrainInv, LeadsOn, node_routes

\* The way ahead, on a route.
LEMMA LeadsAlong ==
  ASSUME OneTrainInv, NEW r \in Route, NEW i \in 1 .. Len(nodes_list[r]), NEW j \in 1 .. Len(nodes_list[r]),
         i <= j, LockedFor(nodes_list[r][i], r)
  PROVE  /\ IsSwitch(nodes_list[r][j]) => SetFor(nodes_list[r][j], r)
         /\ i < j => \/ LockedFor(nodes_list[r][j], r)
                     \/ NODE_STATUS[nodes_list[r][j]] = "PING_FAIL_SAFE"
                     \/ NODE_STATUS[nodes_list[r][i + 1]] = "PING_FAIL_SAFE"
<1> PICK n : n = nodes_list[r][i] OBVIOUS
<1> PICK m : m = nodes_list[r][j] OBVIOUS
<1>1. /\ n \in Node /\ n \in Elements(r) /\ IndexOf(n, r) = i
      /\ m \in Node /\ m \in Elements(r) /\ IndexOf(m, r) = j
  BY PlaceOf
<1>2. NODE_STATUS[n] \in Locked /\ current_route[n] = r BY DEF LockedFor
<1>3. CASE EndsAt(n)
  <2>1. rasp_id_next(n, r) = TAIL_ID BY <1>2, <1>3 DEF EndsAt
  <2>2. i = Len(nodes_list[r])
    <3>1. TAIL_ID \notin Node /\ Len(nodes_list[r]) \in Nat BY PlaceOf, RoutesAssumption
    <3>2. ASSUME i # Len(nodes_list[r]) PROVE FALSE
      <4>1. rasp_id_next(n, r) = nodes_list[r][i + 1] BY <1>1, <3>2 DEF rasp_id_next
      <4>2. i + 1 \in 1 .. Len(nodes_list[r]) BY <3>1, <3>2
      <4> QED BY <2>1, <3>1, <4>1, <4>2, PlaceOf
    <3> QED BY <3>2
  <2>3. i = j /\ ~(i < j) BY <2>2
  <2> QED BY <2>2, <2>3, NoRouteEndsWithSwitch
<1>4. CASE \E q \in Route : LeadsOn(n, q)
  <2>1. LeadsOn(n, r) BY <1>2, <1>4 DEF LeadsOn
  <2>2. SetFor(m, r) BY <1>1, <2>1 DEF LeadsOn
  <2>3. ASSUME i < j
        PROVE  \/ LockedFor(m, r) \/ NODE_STATUS[m] = "PING_FAIL_SAFE"
               \/ NODE_STATUS[nodes_list[r][i + 1]] = "PING_FAIL_SAFE"
    <3>1. rasp_id_next(n, r) = nodes_list[r][i + 1] BY <1>1, <2>3 DEF rasp_id_next
    <3> QED BY <1>1, <2>1, <2>3, <3>1 DEF LeadsOn, LockedFor
  <2> QED BY <2>2, <2>3
<1> QED BY <1>1, <1>2, <1>3, <1>4, LockedLeads

\* With one train no SENSOR_ON is lost or comes too late, however the commit
\* protocol ends: a train is only reported where it was let in.
THEOREM NoPhantomOfOneTrain == Spec /\ OneTrain => []NoPhantomTrain
<1>1. OneTrainInv => NoPhantomTrain
  <2> SUFFICES ASSUME OneTrainInv, setting.PingFailNodes = {}, NEW n \in Node, sensor_on_detected[n]
               PROVE  NODE_STATUS[n] = "RESERVED"
    BY DEF NoPhantomTrain
  <2>1. CASE Idle BY <2>1 DEF Idle, AtRest
  <2>2. ASSUME NEW r \in Route, NEW c \in 0 .. Len(nodes_list[r]) - 1, OnItsWay(r, c)
        PROVE  NODE_STATUS[n] = "RESERVED"
    <3>1. ASSUME NEW back, NEW front, NEW waits, NEW flagged, NEW passing, NEW left,
                 Crew(r, c, back, front, waits, flagged, passing, left)
          PROVE  NODE_STATUS[n] = "RESERVED"
      BY <3>1 DEF Crew, Member
    <3> QED BY <2>2, <3>1 DEF OnItsWay
  <2>3. ASSUME NEW r \in Route, NEW k \in 0 .. Len(nodes_list[r]), Deserted(r, k)
        PROVE  NODE_STATUS[n] = "RESERVED"
    BY <2>3 DEF Deserted, DesertedAt, LoopOK
  <2> QED BY <2>1, <2>2, <2>3 DEF OneTrainInv
<1> QED BY <1>1, OneTrainHolds, PTL

\* With one train, whatever fails: no report that the train has left reaches an
\* element without a route (controlTask.c:379).
THEOREM NobodyCrashesOfOneTrain == Spec /\ OneTrain => []NobodyCrashes
<1>1. OneTrainInv => NobodyCrashes
  <2> SUFFICES ASSUME OneTrainInv, NEW n \in Node PROVE LoopOK(n) BY DEF NobodyCrashes, LoopOK
  <2>1. CASE Idle BY <2>1 DEF Idle, AtRest
  <2>2. ASSUME NEW r \in Route, NEW c \in 0 .. Len(nodes_list[r]) - 1, OnItsWay(r, c)
        PROVE  LoopOK(n)
    <3>1. ASSUME NEW back, NEW front, NEW waits, NEW flagged, NEW passing, NEW left,
                 Crew(r, c, back, front, waits, flagged, passing, left)
          PROVE  LoopOK(n)
      BY <3>1 DEF Crew, Member
    <3> QED BY <2>2, <3>1 DEF OnItsWay
  <2>3. ASSUME NEW r \in Route, NEW k \in 0 .. Len(nodes_list[r]), Deserted(r, k)
        PROVE  LoopOK(n)
    BY <2>3 DEF Deserted, DesertedAt
  <2> QED BY <2>1, <2>2, <2>3 DEF OneTrainInv
<1> QED BY <1>1, OneTrainHolds, PTL

\* With one train, whatever fails: the way ahead of a locked element is locked
\* for its route, at least up to an element that is out of service.
THEOREM WayAheadOfOneTrain == Spec /\ OneTrain => []WayAheadLockedOrFailed
<1>1. OneTrainInv => WayAheadLockedOrFailed
  <2> SUFFICES ASSUME OneTrainInv, NEW r \in Route,
                      NEW i \in 1 .. Len(nodes_list[r]), NEW j \in 1 .. Len(nodes_list[r]),
                      i < j, LockedFor(nodes_list[r][i], r)
               PROVE  \/ LockedFor(nodes_list[r][j], r)
                      \/ \E k \in i + 1 .. j : NODE_STATUS[nodes_list[r][k]] = "PING_FAIL_SAFE"
    BY DEF WayAheadLockedOrFailed
  <2>1. i <= j /\ i + 1 \in i + 1 .. j /\ j \in i + 1 .. j OBVIOUS
  <2> QED BY <2>1, LeadsAlong
<1> QED BY <1>1, OneTrainHolds, PTL

\* With one train, whatever fails: the switches ahead of a locked element are
\* set for its route.
THEOREM SwitchesAheadOfOneTrain == Spec /\ OneTrain => []SwitchesAheadAreSet
<1>1. OneTrainInv => SwitchesAheadAreSet BY LeadsAlong DEF SwitchesAheadAreSet, SetFor
<1> QED BY <1>1, OneTrainHolds, PTL

LEMMA LockedRouteStep ==
  ASSUME Inv, OneTrainInv, [Next]_vars, NEW n \in Node, NODE_STATUS[n] \in Locked
  PROVE  current_route'[n] = current_route[n]
<1>1. HOST_ID \in Id BY DEF Id
<1>2. ASSUME NEW k \in Node, controlMain(k) \/ DiagFailed(k) \/ PositioningMain(k), k # n
      PROVE  current_route'[n] = current_route[n]
  BY <1>1, <1>2, StepsAreLocal DEF OnlyAt
<1>3. ASSUME Message(n) PROVE current_route'[n] = current_route[n]
  <2>1. Received(n).route_id = current_route[n] /\ current_route[n] \in node_routes(n)
    BY <1>3, LockedHears
  <2>2. ~UnknownRoute(n) BY <2>1 DEF UnknownRoute, Receives
  <2>3. \A statuses, command : Dispatched(n, statuses, command) => current_route'[n] = current_route[n]
    BY <2>1 DEF Dispatched, Inv, TypeOK
  <2> QED BY <1>3, <2>2, <2>3
          DEF Message, RelaySensorOff, HandleReq, HandleAck, HandleCommit, HandleAgree,
              HandleAgreeInPosition, StartPositioning, HandleNotOk, AnswerFailSafe, HandleErrorMsg
<1>4. UNCHANGED current_route => current_route'[n] = current_route[n] OBVIOUS
<1>5. ASSUME NEW k \in Node, Sensors(k) \/ NoMessage(k) \/ AfterPositioning(k) \/ ResetNodeStatus(k)
      PROVE  UNCHANGED current_route
  BY <1>5 DEF Sensors, SensorOn, SensorOff, ButtonOn, ButtonOff, NoSensor, NoMessage,
     AfterPositioning, ResetNodeStatus
<1>6. ASSUME NEW k \in Node, controlMain(k) PROVE current_route'[n] = current_route[n]
  BY <1>2, <1>3, <1>4, <1>5, <1>6 DEF controlMain
<1> QED BY <1>4, <1>6 DEF Next, vars, control, HostCommand, HostReceive, HandleInSingleMsg,
           HandleOutControlMsg, DiagFailed, PositioningMain, TrainEnters, TrainLeaves

\* With one train, whatever fails: a locked element stays locked for its route.
THEOREM LockedRouteOfOneTrain == Spec /\ OneTrain => LockedRouteIsKept
<1>1. Inv /\ OneTrainInv /\ [Next]_vars
        => [\A n \in Node : NODE_STATUS[n] \in Locked /\ NODE_STATUS'[n] \in Locked
              => current_route'[n] = current_route[n]]_vars
  BY LockedRouteStep
<1>2. OneTrainInv => Inv BY DEF OneTrainInv
<1> QED BY <1>1, <1>2, OneTrainHolds, PTL DEF Spec, LockedRouteIsKept

\* Where no diagnostics fail no element is out of service.
LEMMA NobodyFails ==
  ASSUME OneTrainInv, setting.PingFailNodes = {}, NEW n \in Node
  PROVE  NODE_STATUS[n] # "PING_FAIL_SAFE"
<1>1. CASE Idle BY <1>1 DEF Idle, AtRest, LoopOK
<1>2. ASSUME NEW r \in Route, NEW c \in 0 .. Len(nodes_list[r]) - 1, OnItsWay(r, c)
      PROVE  LoopOK(n)
  <2>1. ASSUME NEW back, NEW front, NEW waits, NEW flagged, NEW passing, NEW left,
               Crew(r, c, back, front, waits, flagged, passing, left)
        PROVE  LoopOK(n)
    BY <2>1 DEF Crew, Member
  <2> QED BY <1>2, <2>1 DEF OnItsWay
<1>3. ASSUME NEW r \in Route, NEW k \in 0 .. Len(nodes_list[r]), Deserted(r, k)
      PROVE  LoopOK(n)
  BY <1>3 DEF Deserted, DesertedAt
<1> QED BY <1>1, <1>2, <1>3 DEF OneTrainInv, LoopOK

-----------------------------------------------------------------------------
(* One train that asks once: who takes part in its reservation serves it.   *)

AsksOnce ==
  /\ OneTrain /\ ~setting.AUTOMATIC_TESTING_ROUTES
  /\ \A c \in setting.commands : c.msg.host_id \in Train

\* No element is reset any more when a request is made, or is under way; the
\* request names the train, and so does the element that is about to serve it.
Named(M) == {m \in M : m.command = "REQ" => m.host_id # NO_HOST}

Others(M) == {m \in M : m.command # "REQ"}

NoRequest ==
  /\ OUT_CONTROL_QUEUE \in [Node -> Seq(Others(tpcp_msg))]
  /\ sock \in [Channel -> Seq(Others(Wire))]
  /\ IN_CONTROL_QUEUE \in [Node -> Seq(Others(tpcp_msg))]

RequestsNamed ==
  /\ OUT_CONTROL_QUEUE \in [Node -> Seq(Named(tpcp_msg))]
  /\ sock \in [Channel -> Seq(Named(Wire))]
  /\ IN_CONTROL_QUEUE \in [Node -> Seq(Named(tpcp_msg))]

OwnedAt(n) ==
  /\ NODE_STATUS[n] \in Engaged \union Locked => CURRENT_HOST[n] # NO_HOST
  /\ control_pc[n] = "reset" => keyboard = {} /\ NoRequest
  /\ CURRENT_HOST[n] = NO_HOST => IN_CONTROL_QUEUE[n] \in Seq(Others(tpcp_msg))

OwnedInv ==
  /\ OneTrainInv /\ AsksOnce /\ RequestsNamed
  /\ \A n \in Node : OwnedAt(n)

\* Before anybody has asked nothing happens, and a REQ is alone with the elements
\* that wait for its ACK.
LEMMA RequestIsAlone ==
  ASSUME OneTrainInv
  PROVE  /\ keyboard # {} => Idle
         /\ \/ NoRequest
            \/ \E r \in Route : \E c \in 0 .. Len(nodes_list[r]) - 1 :
                 /\ Mail("REQ", r, Stop(r, c), Stop(r, c + 1))
                 /\ Crew(r, c, "WAIT_ACK", "NOT_RESERVED", {}, {}, {}, {})
<1>0. TypeOK BY DEF OneTrainInv, Inv
<1>1. Silent => NoRequest BY DEF Silent, NoMail, NoWire, NoRequest
<1>2. ASSUME NEW command, command # "REQ", NEW r, NEW a, NEW b, Mail(command, r, a, b)
      PROVE  NoRequest
  <2>1. NoMail \in [Node -> Seq(Others(tpcp_msg))] /\ NoWire \in [Channel -> Seq(Others(Wire))]
    BY DEF NoMail, NoWire
  <2>2. ASSUME NEW m \in tpcp_msg, m.command = command, NEW k
        PROVE  [NoMail EXCEPT ![k] = <<m>>] \in [Node -> Seq(Others(tpcp_msg))]
    <3>1. m \in Others(tpcp_msg) BY <1>2, <2>2 DEF Others
    <3>2. <<m>> \in Seq(Others(tpcp_msg)) BY <3>1
    <3> QED BY <2>1, <3>2
  <2>3. ASSUME NEW w \in Wire, w.command = command, NEW k
        PROVE  [NoWire EXCEPT ![k] = <<w>>] \in [Channel -> Seq(Others(Wire))]
    <3>1. w \in Others(Wire) BY <1>2, <2>3 DEF Others
    <3>2. <<w>> \in Seq(Others(Wire)) BY <3>1
    <3> QED BY <2>1, <3>2
  <2>4. CASE /\ sock = NoWire /\ IN_CONTROL_QUEUE = NoMail
             /\ \E m \in tpcp_msg : /\ m.command = command
                                   /\ OUT_CONTROL_QUEUE = [NoMail EXCEPT ![a] = <<m>>]
    BY <2>1, <2>2, <2>4 DEF NoRequest
  <2>5. CASE /\ OUT_CONTROL_QUEUE = NoMail /\ IN_CONTROL_QUEUE = NoMail
             /\ \E w \in Wire : /\ w.command = command
                               /\ sock = [NoWire EXCEPT ![<<a, b>>] = <<w>>]
    BY <2>1, <2>3, <2>5 DEF NoRequest
  <2>6. CASE /\ OUT_CONTROL_QUEUE = NoMail /\ sock = NoWire
             /\ \E m \in tpcp_msg : /\ m.command = command
                                   /\ IN_CONTROL_QUEUE = [NoMail EXCEPT ![b] = <<m>>]
    BY <2>1, <2>2, <2>6 DEF NoRequest
  <2> QED BY <1>2, <2>4, <2>5, <2>6 DEF Mail
<1>3. CASE Idle BY <1>1, <1>3 DEF Idle
<1>4. ASSUME NEW r \in Route, NEW c \in 0 .. Len(nodes_list[r]) - 1, OnItsWay(r, c)
      PROVE  /\ keyboard = {}
             /\ \/ NoRequest
                \/ /\ Mail("REQ", r, Stop(r, c), Stop(r, c + 1))
                   /\ Crew(r, c, "WAIT_ACK", "NOT_RESERVED", {}, {}, {}, {})
  <2>1. keyboard = {} BY <1>4 DEF OnItsWay, Crew
  <2> QED BY <1>1, <1>2, <1>4, <2>1 DEF OnItsWay
<1>5. ASSUME NEW r \in Route, NEW k \in 0 .. Len(nodes_list[r]), OnlyRefusals(r, k), Deserted(r, k)
      PROVE  keyboard = {} /\ NoRequest
  <2>1. \A n : Refusing(r, k, n) \subseteq Others(tpcp_msg) /\ Refused(r, k, n) \subseteq Others(tpcp_msg)
    BY DEF Refusing, Refused, Refusals, Wired, Others
  <2>2. Refusals(r) \subseteq Others(Wire) BY DEF Refusals, Others
  <2>3. \A n \in Node : OUT_CONTROL_QUEUE[n] \in Seq(Others(tpcp_msg))
    BY <1>5, <2>1 DEF OnlyRefusals
  <2>4. \A n \in Node : IN_CONTROL_QUEUE[n] \in Seq(Others(tpcp_msg))
    BY <1>5, <2>1 DEF OnlyRefusals
  <2>5. \A x \in Channel : sock[x] \in Seq(Others(Wire))
    BY <1>5, <2>2 DEF OnlyRefusals
  <2> QED BY <1>5, <2>3, <2>4, <2>5, <1>0 DEF Deserted, NoRequest, TypeOK
<1> QED BY <1>3, <1>1, <1>4, <1>5 DEF OneTrainInv, Idle

\* While a REQ is under way no train is on the railway, and only the element it
\* has reached does anything about a message.
LEMMA WhileAsked ==
  ASSUME OneTrainInv, ~NoRequest, NEW n \in Node
  PROVE  /\ keyboard = {} /\ ~SensorOff(n) /\ ~AfterPositioning(n)
         /\ Message(n) => HandleReq(n) \/ AnswerFailSafe(n) \/ HandleErrorMsg(n)
<1> PICK r \in Route : \E c \in 0 .. Len(nodes_list[r]) - 1 :
      /\ Mail("REQ", r, Stop(r, c), Stop(r, c + 1))
      /\ Crew(r, c, "WAIT_ACK", "NOT_RESERVED", {}, {}, {}, {})
  BY RequestIsAlone
<1> PICK c \in 0 .. Len(nodes_list[r]) - 1 :
      /\ Mail("REQ", r, Stop(r, c), Stop(r, c + 1))
      /\ Crew(r, c, "WAIT_ACK", "NOT_RESERVED", {}, {}, {}, {})
  OBVIOUS
<1>1. keyboard = {} /\ Member(n, r, c, "WAIT_ACK", "NOT_RESERVED", {}, {}, {}, {}) BY DEF Crew
<1>2. ~SensorOff(n)
  <2> SUFFICES ASSUME SensorOff(n) PROVE FALSE OBVIOUS
  <2>1. NODE_STATUS[n] = "TRAIN_IN_TRANSITION" /\ control_pc[n] = "sensors" BY DEF SensorOff
  <2>2. ~Stands(n, "WAIT_ACK") /\ ~Stands(n, "NOT_RESERVED") BY <2>1 DEF Stands, HasLeft
  <2>3. n \in Elements(r) => IndexOf(n, r) <= c \/ IndexOf(n, r) > c BY StopOf
  <2> QED BY <1>1, <2>2, <2>3 DEF Member
<1>3. ~AfterPositioning(n) BY <1>1 DEF AfterPositioning, Member
<1>4. ASSUME Message(n) PROVE HandleReq(n) \/ AnswerFailSafe(n) \/ HandleErrorMsg(n)
  <2>1. "REQ" \in Command \ {"NOT_OK"} /\ Inv BY DEF Command, OneTrainInv
  <2> PICK a, b : a = Stop(r, c) /\ b = Stop(r, c + 1) OBVIOUS
  <2>2. b \in Elements(r) /\ Mail("REQ", r, a, b) BY Stops
  <2>3. ASSUME NEW command, command = "REQ", command \in Command \ {"NOT_OK"}, Mail(command, r, a, b)
        PROVE  HandleReq(n) \/ AnswerFailSafe(n) \/ HandleErrorMsg(n)
    BY <1>4, <2>1, <2>2, <2>3, Handlers
  <2> QED BY <2>1, <2>2, <2>3
<1> QED BY <1>1, <1>2, <1>3, <1>4

\* What is said, unless it is a REQ.
LEMMA SaysOthers ==
  ASSUME NEW n \in Node, NEW m \in tpcp_msg, NEW to \in Id \union {TAIL_ID},
         NEW command \in Command, command # "REQ"
  PROVE  forwardMsg(n, m, to, command) \in Seq(Others(tpcp_msg))
<1>1. [m EXCEPT !.command = command, !.sender_id = n, !.recevier_id = to] \in Others(tpcp_msg)
  BY DEF tpcp_msg, Id, Others
<1> QED BY <1>1 DEF forwardMsg

LEMMA RefusesOnly ==
  ASSUME NEW n \in Node, NEW m \in tpcp_msg, NEW r \in node_routes(n), NEW sender_id
  PROVE  forwardNotOk(n, m, r, sender_id) \in Seq(Others(tpcp_msg))
<1>1. "NOT_OK" \in Command BY DEF Command
<1>2. \A to \in Id \union {TAIL_ID} : forwardMsg(n, m, to, "NOT_OK") \in Seq(Others(tpcp_msg))
  BY <1>1, SaysOthers
<1>3. rasp_id_prev(n, r) \in Id \union {TAIL_ID} /\ rasp_id_next(n, r) \in Id \union {TAIL_ID}
  BY NeighbourTypes
<1>4. [m EXCEPT !.command = "NOT_OK"] \in Others(tpcp_msg) BY <1>1 DEF tpcp_msg, Others
<1>5. <<[m EXCEPT !.command = "NOT_OK"]>> \in Seq(Others(tpcp_msg)) BY <1>4
<1> QED BY <1>2, <1>3, <1>5 DEF forwardNotOk

LEMMA OthersAreNamed ==
  /\ Seq(Others(tpcp_msg)) \subseteq Seq(Named(tpcp_msg))
  /\ Seq(Others(Wire)) \subseteq Seq(Named(Wire))
BY DEF Others, Named

\* The control task of n takes a message, or none, and says something else.
Speaks(n) ==
  /\ UNCHANGED <<sock, keyboard>>
  /\ \/ IN_CONTROL_QUEUE' = IN_CONTROL_QUEUE
     \/ /\ IN_CONTROL_QUEUE[n] # << >>
        /\ IN_CONTROL_QUEUE' = [IN_CONTROL_QUEUE EXCEPT ![n] = Tail(@)]
  /\ \/ OUT_CONTROL_QUEUE' = OUT_CONTROL_QUEUE
     \/ \E out \in Seq(Others(tpcp_msg)) : Send(n, out)

LEMMA Taken ==
  ASSUME NEW n \in Node, NEW M, NEW q \in [Node -> Seq(M)],
         NEW p, p = q \/ (q[n] # << >> /\ p = [q EXCEPT ![n] = Tail(@)])
  PROVE  p \in [Node -> Seq(M)]
<1>1. q[n] # << >> => Tail(q[n]) \in Seq(M) OBVIOUS
<1> QED BY <1>1

LEMMA SpeakingKeeps ==
  ASSUME RequestsNamed, NEW n \in Node, Speaks(n)
  PROVE  /\ RequestsNamed' /\ (NoRequest => NoRequest')
         /\ \A k \in Node \ {n} : IN_CONTROL_QUEUE'[k] = IN_CONTROL_QUEUE[k]
         /\ IN_CONTROL_QUEUE[n] \in Seq(Others(tpcp_msg)) => IN_CONTROL_QUEUE'[n] \in Seq(Others(tpcp_msg))
<1> DEFINE Kept(M) ==
      /\ OUT_CONTROL_QUEUE \in [Node -> Seq(M)] => OUT_CONTROL_QUEUE' \in [Node -> Seq(M)]
      /\ IN_CONTROL_QUEUE \in [Node -> Seq(M)] => IN_CONTROL_QUEUE' \in [Node -> Seq(M)]
<1>1. ASSUME NEW M, Seq(Others(tpcp_msg)) \subseteq Seq(M) PROVE Kept(M)
  <2>1. ASSUME OUT_CONTROL_QUEUE \in [Node -> Seq(M)], NEW out \in Seq(M), Send(n, out)
        PROVE  OUT_CONTROL_QUEUE' \in [Node -> Seq(M)]
    <3>1. OUT_CONTROL_QUEUE[n] \o out \in Seq(M) BY <2>1
    <3> QED BY <2>1, <3>1 DEF Send
  <2>2. IN_CONTROL_QUEUE \in [Node -> Seq(M)] => IN_CONTROL_QUEUE' \in [Node -> Seq(M)]
    BY Taken DEF Speaks
  <2> QED BY <1>1, <2>1, <2>2 DEF Speaks
<1>2. Kept(Others(tpcp_msg)) BY <1>1
<1>3. Kept(Named(tpcp_msg)) BY <1>1, OthersAreNamed
<1>4. sock' = sock /\ Others(Wire)' = Others(Wire) /\ Named(Wire)' = Named(Wire)
      /\ Others(tpcp_msg)' = Others(tpcp_msg) /\ Named(tpcp_msg)' = Named(tpcp_msg)
  BY DEF Speaks, Others, Named
<1>5. IN_CONTROL_QUEUE[n] # << >> /\ IN_CONTROL_QUEUE[n] \in Seq(Others(tpcp_msg))
        => Tail(IN_CONTROL_QUEUE[n]) \in Seq(Others(tpcp_msg))
  OBVIOUS
<1> QED BY <1>2, <1>3, <1>4, <1>5 DEF RequestsNamed, NoRequest, Speaks

\* The other elements are left alone.
LEMMA OwnedElsewhere ==
  ASSUME NEW n, OnlyAt(n), NEW k \in Node \ {n}, OwnedAt(k), NoRequest => NoRequest',
         CURRENT_HOST'[k] = CURRENT_HOST[k],
         IN_CONTROL_QUEUE'[k] = IN_CONTROL_QUEUE[k]
  PROVE  OwnedAt(k)'
BY DEF OnlyAt, OwnedAt, Others

\* What such a step has to show of its own element.
Serves(n) ==
  /\ \/ /\ CURRENT_HOST' = CURRENT_HOST
        /\ NODE_STATUS'[n] \in Engaged \union Locked => NODE_STATUS[n] \in Engaged \union Locked
     \/ /\ CURRENT_HOST' = [CURRENT_HOST EXCEPT ![n] = NO_HOST]
        /\ NODE_STATUS'[n] \notin Engaged \union Locked /\ NoRequest
  /\ control_pc'[n] = "reset" => control_pc[n] = "reset" \/ (keyboard = {} /\ NoRequest)

LEMMA ServingKeeps ==
  ASSUME OwnedInv, TypeOK, NEW n \in Node, OnlyAt(n), Speaks(n), Serves(n)
  PROVE  RequestsNamed' /\ \A k \in Node : OwnedAt(k)'
<1>1. /\ RequestsNamed' /\ (NoRequest => NoRequest')
      /\ \A k \in Node \ {n} : IN_CONTROL_QUEUE'[k] = IN_CONTROL_QUEUE[k]
      /\ IN_CONTROL_QUEUE[n] \in Seq(Others(tpcp_msg)) => IN_CONTROL_QUEUE'[n] \in Seq(Others(tpcp_msg))
  BY SpeakingKeeps DEF OwnedInv
<1>2. \A k \in Node \ {n} : CURRENT_HOST'[k] = CURRENT_HOST[k] BY DEF Serves, TypeOK
<1>3. \A k \in Node \ {n} : OwnedAt(k)' BY <1>1, <1>2, OwnedElsewhere DEF OwnedInv
<1>4. OwnedAt(n) BY DEF OwnedInv
<1>5. keyboard' = keyboard BY DEF OnlyAt
<1>6. /\ Others(tpcp_msg)' = Others(tpcp_msg)
      /\ NoRequest => IN_CONTROL_QUEUE[n] \in Seq(Others(tpcp_msg))
  BY DEF Others, NoRequest
<1>7. control_pc'[n] = "reset" => keyboard' = {} /\ NoRequest' BY <1>1, <1>4, <1>5 DEF Serves, OwnedAt
<1>8. NODE_STATUS'[n] \in Engaged \union Locked => CURRENT_HOST'[n] # NO_HOST
  BY <1>4 DEF Serves, OwnedAt
<1>9. CURRENT_HOST'[n] = NO_HOST => IN_CONTROL_QUEUE'[n] \in Seq(Others(tpcp_msg))
  BY <1>1, <1>4, <1>6 DEF Serves, OwnedAt
<1>10. OwnedAt(n)' BY <1>6, <1>7, <1>8, <1>9 DEF OwnedAt
<1> QED BY <1>1, <1>3, <1>10

\* The sensors, the verdict of the diagnostics and the end of a reset.
LEMMA OwnedAroundTheLoop ==
  ASSUME OwnedInv, NEW n \in Node,
         Sensors(n) \/ NoMessage(n) \/ ResetNodeStatus(n) \/ DiagFailed(n) \/ PositioningMain(n)
  PROVE  Speaks(n) /\ Serves(n)
<1>1. TypeOK /\ Inv /\ OwnedAt(n) /\ setting.SIM_SENSOR BY DEF OwnedInv, OneTrainInv, OneTrain, Inv
<1>2. CASE SensorOn(n) \/ NoSensor(n) \/ NoMessage(n) \/ DiagFailed(n) \/ PositioningMain(n)
  BY <1>1, <1>2 DEF SensorOn, NoSensor, NoMessage, DiagFailed, PositioningMain, TypeOK, Speaks, Serves,
     queues, host, setNodeStatus, Goto, LoopStart, Engaged, Locked
<1>3. CASE ResetNodeStatus(n)
  BY <1>1, <1>3 DEF ResetNodeStatus, OwnedAt, TypeOK, Speaks, Serves, queues, host, setNodeStatus, Goto,
     Engaged, Locked
<1>4. CASE SensorOff(n)
  <2>1. keyboard = {} /\ NoRequest
    <3>1. CASE keyboard # {}
      <4>1. AtRest(n) BY <3>1, RequestIsAlone DEF OwnedInv, Idle
      <4> QED BY <1>4, <4>1 DEF SensorOff, AtRest, Stands, HasLeft
    <3> QED BY <1>4, <3>1, WhileAsked DEF OwnedInv
  <2>2. current_route[n] \in node_routes(n)
    BY <1>1, <1>4 DEF SensorOff, Inv, ControlOK
  <2>3. sensors_msg(n, current_route[n]) \in Seq(Others(tpcp_msg))
    <3> PICK r \in node_routes(n) : r = current_route[n] BY <2>2
    <3> DEFINE m == [command |-> "SENSOR_ON", host_id |-> CURRENT_HOST[n], route_id |-> r,
                     sender_id |-> n, recevier_id |-> n]
    <3>1. m \in tpcp_msg BY <1>1, NeighbourTypes DEF TypeOK, tpcp_msg, Command, Id
    <3>2. /\ rasp_id_prev(n, r) \in Id \union {TAIL_ID} /\ rasp_id_next(n, r) \in Id \union {TAIL_ID}
          /\ "SENSOR_ON" \in Command /\ "SENSOR_OFF" \in Command
      BY NeighbourTypes DEF Command
    <3> HIDE DEF m
    <3>3. /\ forwardMsg(n, m, rasp_id_next(n, r), "SENSOR_ON") \in Seq(Others(tpcp_msg))
          /\ forwardMsg(n, m, rasp_id_prev(n, r), "SENSOR_OFF") \in Seq(Others(tpcp_msg))
      BY <3>1, <3>2, SaysOthers
    <3> QED BY <3>3 DEF sensors_msg, m
  <2>4. Speaks(n) BY <1>4, <2>3 DEF SensorOff, Speaks, host
  <2> QED BY <1>4, <2>1, <2>4 DEF SensorOff, Serves
<1> QED BY <1>1, <1>2, <1>3, <1>4 DEF Sensors, ButtonOn, ButtonOff

\* The positioning of a switch is over: it passes on the AGREE that it holds.
LEMMA OwnedPositioned ==
  ASSUME OwnedInv, NEW n \in Node, AfterPositioning(n)
  PROVE  Speaks(n) /\ Serves(n)
<1>1. TypeOK /\ OneTrainInv BY DEF OwnedInv, OneTrainInv, Inv
<1>2. /\ control_pc[n] = "resumed" /\ NODE_STATUS[n] = "WAIT_AGREE" /\ in_msg[n] \in tpcp_msg
      /\ in_msg[n].route_id \in node_routes(n) /\ current_route[n] \in node_routes(n)
  BY <1>1 DEF AfterPositioning, OneTrainInv, Inv, ControlOK, Engaged
<1>3. in_msg[n].command = "AGREE"
  <2>1. CASE Idle BY <1>2, <2>1 DEF Idle, AtRest
  <2>2. ASSUME NEW r \in Route, NEW c \in 0 .. Len(nodes_list[r]) - 1, OnItsWay(r, c)
        PROVE  in_msg[n].command = "AGREE"
    <3>1. ASSUME NEW back, NEW front, NEW waits, NEW flagged, NEW passing, NEW left,
                 Crew(r, c, back, front, waits, flagged, passing, left)
          PROVE  n \in waits
      BY <1>2, <3>1 DEF Crew, Member
    <3> QED BY <2>2, <3>1 DEF OnItsWay
  <2>3. ASSUME NEW r \in Route, NEW k \in 0 .. Len(nodes_list[r]), Deserted(r, k) PROVE FALSE
    BY <1>2, <2>3 DEF Deserted, DesertedAt
  <2> QED BY <1>1, <2>1, <2>2, <2>3 DEF OneTrainInv
<1> PICK m \in tpcp_msg : m = in_msg[n] BY <1>2
<1>4. rasp_id_prev(n, m.route_id) \in Id \union {TAIL_ID} /\ m.command \in Command /\ m.command # "REQ"
  BY <1>2, <1>3, NeighbourTypes DEF Command
<1>5. forwardMsg(n, m, rasp_id_prev(n, m.route_id), m.command) \in Seq(Others(tpcp_msg))
  BY <1>4, SaysOthers
<1>6. forwardNotOk(n, m, current_route[n], n) \in Seq(Others(tpcp_msg)) BY <1>2, RefusesOnly
<1>7. \E out \in Seq(Others(tpcp_msg)) : Send(n, out)
  BY <1>5, <1>6 DEF AfterPositioning, SwitchAgrees
<1>8. Speaks(n) BY <1>7 DEF AfterPositioning, Speaks, host
<1>9. control_pc'[n] \in {"message", "sensors"}
  BY <1>1 DEF AfterPositioning, SwitchAgrees, Goto, LoopStart, Locked, TypeOK
<1> QED BY <1>2, <1>8, <1>9 DEF AfterPositioning, Serves, Engaged

\* A message that is not a REQ an element can serve.
LEMMA OwnedMessage ==
  ASSUME OwnedInv, NEW n \in Node, Message(n), ~HandleReq(n)
  PROVE  Speaks(n) /\ Serves(n)
<1>1. Inv /\ TypeOK BY DEF OwnedInv, OneTrainInv, Inv
<1>2. PICK relayed, known : Receives(n, relayed, known)
  BY DEF Message, RelaySensorOff, UnknownRoute, HandleReq, HandleAck, HandleCommit, HandleAgree,
     HandleAgreeInPosition, StartPositioning, HandleNotOk, AnswerFailSafe, HandleErrorMsg, Dispatched
<1>3. Received(n) \in tpcp_msg /\ Received(n).sender_id \in Id
  BY <1>1, <1>2, ReceivedType DEF Receives
<1>4. /\ UNCHANGED <<sock, keyboard>> /\ IN_CONTROL_QUEUE[n] # << >>
      /\ IN_CONTROL_QUEUE' = [IN_CONTROL_QUEUE EXCEPT ![n] = Tail(@)]
  BY <1>2 DEF Receives, host
<1>5. ASSUME OUT_CONTROL_QUEUE' = OUT_CONTROL_QUEUE \/ (\E out \in Seq(Others(tpcp_msg)) : Send(n, out))
      PROVE  Speaks(n)
  BY <1>4, <1>5 DEF Speaks
<1>6. keyboard = {}
  <2> SUFFICES ASSUME keyboard # {} PROVE FALSE OBVIOUS
  <2>1. Silent BY RequestIsAlone DEF OwnedInv, Idle
  <2> QED BY <1>2, <2>1, SilentMeans
<1> PICK m \in tpcp_msg : m = Received(n) BY <1>3
<1>7. ASSUME NEW to \in Id \union {TAIL_ID}, NEW command \in Command, command # "REQ",
             Send(n, forwardMsg(n, m, to, command))
      PROVE  Speaks(n)
  BY <1>5, <1>7, SaysOthers
<1>8. ASSUME NEW statuses, NEW command, Dispatched(n, statuses, command)
      PROVE  /\ m.route_id \in node_routes(n) /\ m.command = command /\ NODE_STATUS[n] \in statuses
             /\ rasp_id_prev(n, m.route_id) \in Id \union {TAIL_ID}
             /\ rasp_id_next(n, m.route_id) \in Id \union {TAIL_ID}
  BY <1>8, NeighbourTypes DEF Dispatched, Receives
<1>9. ASSUME NEW statuses, NEW command \in Command, command # "REQ", Dispatched(n, statuses, command),
             statuses \subseteq Engaged, NEW direction \in BOOLEAN, NEW middle, NEW edge, NEW said \in Command, said # "REQ",
             Phase(n, direction, middle, edge, said)
      PROVE  Speaks(n) /\ Serves(n)
  <2>1. \E to \in Id \union {TAIL_ID}, x \in Command \ {"REQ"} : Send(n, forwardMsg(n, m, to, x))
    BY <1>8, <1>9 DEF Phase, handleMsg
  <2>2. Speaks(n) BY <1>7, <2>1
  <2>3. /\ CURRENT_HOST' = CURRENT_HOST /\ NODE_STATUS[n] \in Engaged
        /\ control_pc'[n] \in {"sensors", "message"}
    BY <1>1, <1>8, <1>9 DEF Phase, Goto, LoopStart, TypeOK
  <2> QED BY <2>2, <2>3 DEF Serves
<1>10. ~NoRequest => AnswerFailSafe(n) \/ HandleErrorMsg(n) BY WhileAsked DEF OwnedInv
<1>11. {"REQ", "ACK", "COMMIT", "AGREE", "TRAIN_OK", "NOT_OK", "SENSOR_OFF"} \subseteq Command BY DEF Command
<1>12. CASE RelaySensorOff(n) /\ NoRequest
  <2>1. current_route[n] # NULL => rasp_id_prev(n, current_route[n]) \in Id \union {TAIL_ID}
    BY <1>1, NeighbourTypes DEF Inv, ControlOK
  <2>2. OUT_CONTROL_QUEUE' = OUT_CONTROL_QUEUE \/ Speaks(n) BY <1>7, <1>11, <1>12, <2>1 DEF RelaySensorOff
  <2> QED BY <1>5, <1>6, <1>12, <2>2 DEF RelaySensorOff, Serves
<1>13. CASE UnknownRoute(n) /\ NoRequest
  <2>1. Speaks(n) BY <1>3, <1>7, <1>11, <1>13 DEF UnknownRoute
  <2> QED BY <1>6, <1>13, <2>1 DEF UnknownRoute, Serves
<1>14. CASE HandleAck(n) BY <1>9, <1>11, <1>14 DEF HandleAck, Engaged
<1>15. CASE HandleCommit(n) BY <1>9, <1>11, <1>15 DEF HandleCommit, Engaged
<1>16. CASE HandleAgree(n) BY <1>9, <1>11, <1>16 DEF HandleAgree, Engaged
<1>17. CASE HandleAgreeInPosition(n)
  <2>1. Dispatched(n, {"WAIT_AGREE"}, "AGREE") BY <1>17 DEF HandleAgreeInPosition
  <2>2. Send(n, forwardMsg(n, m, rasp_id_prev(n, m.route_id), m.command))
    BY <1>17 DEF HandleAgreeInPosition, SwitchAgrees
  <2>3. Speaks(n) BY <1>7, <1>8, <1>11, <2>1, <2>2
  <2>4. control_pc'[n] = "sensors" /\ CURRENT_HOST' = CURRENT_HOST /\ NODE_STATUS[n] \in Engaged
    BY <1>1, <1>8, <1>17, <2>1 DEF HandleAgreeInPosition, SwitchAgrees, Goto, LoopStart, Locked, Engaged, TypeOK
  <2> QED BY <2>3, <2>4 DEF Serves
<1>18. CASE StartPositioning(n)
  BY <1>1, <1>5, <1>18 DEF StartPositioning, Serves, Goto, TypeOK
<1>19. CASE HandleNotOk(n) /\ NoRequest
  <2>1. Dispatched(n, Engaged \union {"RESERVED"}, "NOT_OK") BY <1>19 DEF HandleNotOk
  <2>2. forwardNotOk(n, m, m.route_id, m.sender_id) \in Seq(Others(tpcp_msg)) BY <1>8, <2>1, RefusesOnly
  <2>3. Speaks(n) BY <1>5, <1>19, <2>2 DEF HandleNotOk
  <2>4. NODE_STATUS'[n] = "NOT_RESERVED" /\ control_pc'[n] = "message"
    BY <1>1, <1>19 DEF HandleNotOk, setNodeStatus, Goto, TypeOK
  <2> QED BY <1>19, <2>3, <2>4 DEF HandleNotOk, Serves, Engaged, Locked
<1>20. CASE AnswerFailSafe(n)
  <2>1. m.route_id \in node_routes(n) BY <1>8, <1>20 DEF AnswerFailSafe
  <2>2. forwardNotOk(n, m, m.route_id, n) \in Seq(Others(tpcp_msg)) BY <2>1, RefusesOnly
  <2>3. Speaks(n) BY <1>5, <1>20, <2>2 DEF AnswerFailSafe
  <2> QED BY <1>20, <2>3 DEF AnswerFailSafe, Serves
<1>21. CASE HandleErrorMsg(n)
  <2>1. Speaks(n) BY <1>5, <1>21 DEF HandleErrorMsg
  <2>2. control_pc'[n] \in {"sensors", "message"} BY <1>1, <1>21 DEF HandleErrorMsg, Goto, LoopStart, TypeOK
  <2> QED BY <1>21, <2>1, <2>2 DEF HandleErrorMsg, Serves
<1>22. HandleAck(n) \/ HandleCommit(n) \/ HandleAgree(n) \/ HandleAgreeInPosition(n) \/ StartPositioning(n)
       \/ AnswerFailSafe(n) \/ HandleErrorMsg(n)
       \/ ((RelaySensorOff(n) \/ UnknownRoute(n) \/ HandleNotOk(n)) /\ NoRequest)
  BY <1>10 DEF Message
<1> QED BY <1>12, <1>13, <1>14, <1>15, <1>16, <1>17, <1>18, <1>19, <1>20, <1>21, <1>22

\* An element that serves the REQ was claimed for its train when it was queued.
LEMMA OwnedRequest ==
  ASSUME OwnedInv, NEW n \in Node, HandleReq(n)
  PROVE  RequestsNamed' /\ \A k \in Node : OwnedAt(k)'
<1>1. TypeOK /\ Inv /\ OneTrainInv /\ RequestsNamed /\ OwnedAt(n) BY DEF OwnedInv, OneTrainInv, Inv
<1>2. /\ IN_CONTROL_QUEUE[n] # << >> /\ Received(n).command = "REQ"
      /\ Received(n).route_id \in node_routes(n)
      /\ IN_CONTROL_QUEUE' = [IN_CONTROL_QUEUE EXCEPT ![n] = Tail(@)]
      /\ UNCHANGED <<CURRENT_HOST, sock, keyboard>>
  BY DEF HandleReq, Dispatched, Receives, Phase, host
<1>3. IN_CONTROL_QUEUE[n] \in Seq(Named(tpcp_msg)) /\ Received(n) \in Named(tpcp_msg)
  <2>1. IN_CONTROL_QUEUE[n] \in Seq(Named(tpcp_msg)) BY <1>1 DEF RequestsNamed
  <2> QED BY <1>2, <2>1 DEF Received
<1>4. IN_CONTROL_QUEUE[n] \notin Seq(Others(tpcp_msg)) BY <1>2 DEF Received, Others
<1>5. CURRENT_HOST[n] # NO_HOST /\ ~NoRequest BY <1>1, <1>4 DEF OwnedAt, NoRequest
<1>6. \A k \in Node : control_pc[k] # "reset" BY <1>5 DEF OwnedInv, OwnedAt
<1>7. control_pc' = [control_pc EXCEPT ![n] = LoopStart(NODE_STATUS'[n])]
  BY <1>1 DEF HandleReq, Phase, Goto, setNodeStatus, TypeOK
<1>8. \A k \in Node : control_pc'[k] # "reset" BY <1>1, <1>6, <1>7 DEF LoopStart, TypeOK
<1>9. OnlyAt(n)
  <2>1. HOST_ID \in Id BY DEF Id
  <2> QED BY <1>1, <2>1, StepsAreLocal DEF controlMain, Message
<1> PICK m \in Named(tpcp_msg) : m = Received(n) BY <1>3
<1>10. PICK to \in Id \union {TAIL_ID}, x \in {"REQ", "ACK"} : Send(n, forwardMsg(n, m, to, x))
  BY <1>2, NeighbourTypes DEF HandleReq, Phase, handleMsg
<1>11. forwardMsg(n, m, to, x) \in Seq(Named(tpcp_msg))
  <2>1. [m EXCEPT !.command = x, !.sender_id = n, !.recevier_id = to] \in Named(tpcp_msg)
    BY <1>2 DEF tpcp_msg, Id, Named, Command
  <2> QED BY <2>1 DEF forwardMsg
<1>12. OUT_CONTROL_QUEUE' \in [Node -> Seq(Named(tpcp_msg))]
  <2>1. OUT_CONTROL_QUEUE \in [Node -> Seq(Named(tpcp_msg))] BY <1>1 DEF RequestsNamed
  <2>2. OUT_CONTROL_QUEUE[n] \o forwardMsg(n, m, to, x) \in Seq(Named(tpcp_msg)) BY <1>11, <2>1
  <2> QED BY <1>10, <2>1, <2>2 DEF Send
<1>13. IN_CONTROL_QUEUE' \in [Node -> Seq(Named(tpcp_msg))] BY <1>1, <1>2, Taken DEF RequestsNamed
<1>14. RequestsNamed'
  <2>1. Named(tpcp_msg)' = Named(tpcp_msg) /\ Named(Wire)' = Named(Wire) BY DEF Named
  <2> QED BY <1>1, <1>2, <1>12, <1>13, <2>1 DEF RequestsNamed
<1>15. ASSUME NEW k \in Node \ {n} PROVE OwnedAt(k)'
  BY <1>1, <1>2, <1>8, <1>9 DEF OwnedInv, OwnedAt, OnlyAt, Others, TypeOK
<1>16. OwnedAt(n)' BY <1>2, <1>5, <1>8 DEF OwnedAt
<1> QED BY <1>14, <1>15, <1>16

\* A message that is sent, read or refused keeps what it is.
LEMMA SentOn ==
  ASSUME NEW M, M \in {Named(Wire), Others(Wire)}, NEW s \in [Channel -> Seq(M)],
         NEW from, NEW to, NEW w \in M
  PROVE  SendTo(s, from, to, w) \in [Channel -> Seq(M)]
<1>1. CASE <<from, to>> \in Channel
  <2>1. Append(s[<<from, to>>], w) \in Seq(M) BY <1>1
  <2> QED BY <1>1, <2>1 DEF SendTo
<1>2. CASE <<from, to>> \notin Channel BY <1>2 DEF SendTo
<1> QED BY <1>1, <1>2

LEMMA ReadFrom ==
  ASSUME NEW M, NEW s \in [Channel -> Seq(M)], NEW c \in Channel, s[c] # << >>
  PROVE  Head(s[c]) \in M /\ [s EXCEPT ![c] = Tail(@)] \in [Channel -> Seq(M)]
<1>1. Head(s[c]) \in M /\ Tail(s[c]) \in Seq(M) OBVIOUS
<1> QED BY <1>1

\* The elements keep what they have when the control tasks do nothing.
LEMMA OwnedAround ==
  ASSUME OwnedInv, UNCHANGED <<control, CURRENT_HOST, IN_CONTROL_QUEUE, keyboard>>, NoRequest => NoRequest',
         NEW k \in Node
  PROVE  OwnedAt(k)'
BY DEF OwnedInv, OwnedAt, control, Others

LEMMA OwnedOut ==
  ASSUME OwnedInv, NEW n \in Node, HandleOutControlMsg(n)
  PROVE  RequestsNamed' /\ \A k \in Node : OwnedAt(k)'
<1>1. /\ OUT_CONTROL_QUEUE[n] # << >> /\ OUT_CONTROL_QUEUE' = [OUT_CONTROL_QUEUE EXCEPT ![n] = Tail(@)]
      /\ UNCHANGED <<control, CURRENT_HOST, IN_CONTROL_QUEUE, keyboard>>
  BY DEF HandleOutControlMsg, host
<1>2. PICK m : m = Head(OUT_CONTROL_QUEUE[n]) OBVIOUS
<1>3. sock' = SendTo(sock, n, m.recevier_id, Wired(m)) BY <1>2 DEF HandleOutControlMsg
<1>4. ASSUME NEW M, NEW W, W \in {Named(Wire), Others(Wire)}, \A x \in M : Wired(x) \in W,
             OUT_CONTROL_QUEUE \in [Node -> Seq(M)], sock \in [Channel -> Seq(W)]
      PROVE  OUT_CONTROL_QUEUE' \in [Node -> Seq(M)] /\ sock' \in [Channel -> Seq(W)]
  <2>1. OUT_CONTROL_QUEUE' \in [Node -> Seq(M)] BY <1>1, <1>4, Taken
  <2>2. m \in M BY <1>1, <1>2, <1>4
  <2>3. sock' \in [Channel -> Seq(W)] BY <1>3, <1>4, <2>2, SentOn
  <2> QED BY <2>1, <2>3
<1>5. /\ \A x \in Named(tpcp_msg) : Wired(x) \in Named(Wire)
      /\ \A x \in Others(tpcp_msg) : Wired(x) \in Others(Wire)
  BY DEF Named, Others, Wired, tpcp_msg, Wire
<1>6. /\ Named(tpcp_msg)' = Named(tpcp_msg) /\ Named(Wire)' = Named(Wire)
      /\ Others(tpcp_msg)' = Others(tpcp_msg) /\ Others(Wire)' = Others(Wire)
  BY DEF Named, Others
<1>7. RequestsNamed' BY <1>1, <1>4, <1>5, <1>6 DEF OwnedInv, RequestsNamed
<1>8. NoRequest => NoRequest' BY <1>1, <1>4, <1>5, <1>6 DEF NoRequest
<1> QED BY <1>1, <1>7, <1>8, OwnedAround

LEMMA OwnedIn ==
  ASSUME OwnedInv, NEW n \in Node, NEW s \in Id, HandleInSingleMsg(n, s)
  PROVE  RequestsNamed' /\ \A k \in Node : OwnedAt(k)'
<1> DEFINE read == [sock EXCEPT ![<<s, n>>] = Tail(@)]
<1>1. TypeOK /\ RequestsNamed BY DEF OwnedInv, OneTrainInv, Inv
<1>2. /\ <<s, n>> \in Channel /\ sock[<<s, n>>] # << >>
      /\ UNCHANGED <<control, OUT_CONTROL_QUEUE, keyboard>>
  BY DEF HandleInSingleMsg, host
<1> PICK w : w = Head(sock[<<s, n>>]) OBVIOUS
<1> PICK h : h = Claimed(n, w.host_id) OBVIOUS
<1> PICK m : m = [command |-> w.command, host_id |-> h, route_id |-> w.route_id,
                  sender_id |-> s, recevier_id |-> n] OBVIOUS
<1>3. /\ read \in [Channel -> Seq(Named(Wire))] /\ w \in Named(Wire)
      /\ NoRequest => read \in [Channel -> Seq(Others(Wire))] /\ w \in Others(Wire)
  <2>1. sock \in [Channel -> Seq(Named(Wire))] BY <1>1 DEF RequestsNamed
  <2>2. NoRequest => sock \in [Channel -> Seq(Others(Wire))] BY DEF NoRequest
  <2> QED BY <1>2, <2>1, <2>2, ReadFrom
<1>4. \/ UNCHANGED <<CURRENT_HOST, IN_CONTROL_QUEUE>> /\ sock' = read
      \/ /\ UNCHANGED <<CURRENT_HOST, IN_CONTROL_QUEUE>>
         /\ sock' = SendTo(read, n, s, [w EXCEPT !.command = "NOT_OK"])
      \/ /\ h = w.host_id /\ CURRENT_HOST' = [CURRENT_HOST EXCEPT ![n] = h]
         /\ IN_CONTROL_QUEUE' = [IN_CONTROL_QUEUE EXCEPT ![n] = Append(@, m)] /\ sock' = read
  BY DEF HandleInSingleMsg
<1>5. /\ Named(tpcp_msg)' = Named(tpcp_msg) /\ Named(Wire)' = Named(Wire)
      /\ Others(tpcp_msg)' = Others(tpcp_msg) /\ Others(Wire)' = Others(Wire)
  BY DEF Named, Others
<1>6. CASE UNCHANGED <<CURRENT_HOST, IN_CONTROL_QUEUE>>
  <2>1. [w EXCEPT !.command = "NOT_OK"] \in Others(Wire) /\ [w EXCEPT !.command = "NOT_OK"] \in Named(Wire)
    BY <1>3 DEF Named, Others, Wire, Command
  <2>2. /\ SendTo(read, n, s, [w EXCEPT !.command = "NOT_OK"]) \in [Channel -> Seq(Named(Wire))]
        /\ NoRequest => SendTo(read, n, s, [w EXCEPT !.command = "NOT_OK"]) \in [Channel -> Seq(Others(Wire))]
    BY <1>3, <2>1, SentOn
  <2>3. /\ sock' \in [Channel -> Seq(Named(Wire))]
        /\ NoRequest => sock' \in [Channel -> Seq(Others(Wire))]
    <3>1. CASE sock' = read BY <1>3, <3>1
    <3>2. CASE sock' = SendTo(read, n, s, [w EXCEPT !.command = "NOT_OK"]) BY <2>2, <3>2
    <3>3. CASE /\ IN_CONTROL_QUEUE' = [IN_CONTROL_QUEUE EXCEPT ![n] = Append(@, m)] /\ sock' = read
      BY <1>3, <3>3
    <3> QED BY <1>4, <3>1, <3>2, <3>3
  <2>4. RequestsNamed' BY <1>1, <1>2, <1>5, <1>6, <2>3 DEF RequestsNamed
  <2>5. NoRequest => NoRequest' BY <1>2, <1>5, <1>6, <2>3 DEF NoRequest
  <2> QED BY <1>2, <1>6, <2>4, <2>5, OwnedAround
<1>7. CASE /\ h = w.host_id /\ CURRENT_HOST' = [CURRENT_HOST EXCEPT ![n] = h]
           /\ IN_CONTROL_QUEUE' = [IN_CONTROL_QUEUE EXCEPT ![n] = Append(@, m)] /\ sock' = read
  <2>1. /\ m \in Named(tpcp_msg)
        /\ w \in Others(Wire) => m \in Others(tpcp_msg)
        /\ h = NO_HOST => m \in Others(tpcp_msg)
    BY <1>3, <1>7 DEF Named, Others, Wire, tpcp_msg, Id
  <2>2. ASSUME NEW M, IN_CONTROL_QUEUE \in [Node -> Seq(M)], m \in M
        PROVE  IN_CONTROL_QUEUE' \in [Node -> Seq(M)]
    <3>1. Append(IN_CONTROL_QUEUE[n], m) \in Seq(M) BY <2>2
    <3> QED BY <1>7, <2>2, <3>1
  <2>3. RequestsNamed' BY <1>1, <1>2, <1>3, <1>5, <1>7, <2>1, <2>2 DEF RequestsNamed
  <2>4. NoRequest => NoRequest' BY <1>2, <1>3, <1>5, <1>7, <2>1, <2>2 DEF NoRequest
  <2>5. ASSUME NEW k \in Node \ {n} PROVE OwnedAt(k)'
    <3>1. OwnedAt(k) /\ CURRENT_HOST'[k] = CURRENT_HOST[k] /\ IN_CONTROL_QUEUE'[k] = IN_CONTROL_QUEUE[k]
      BY <1>1, <1>7, <2>5 DEF OwnedInv, TypeOK
    <3> QED BY <1>2, <1>5, <2>4, <3>1 DEF OwnedAt, control
  <2>6. OwnedAt(n)'
    <3>1. OwnedAt(n) BY DEF OwnedInv
    <3>2. CURRENT_HOST'[n] = h /\ IN_CONTROL_QUEUE'[n] = Append(IN_CONTROL_QUEUE[n], m)
      BY <1>1, <1>7 DEF TypeOK
    <3>3. CURRENT_HOST[n] # NO_HOST => h # NO_HOST BY DEF Claimed
    <3>4. CURRENT_HOST'[n] = NO_HOST => IN_CONTROL_QUEUE'[n] \in Seq(Others(tpcp_msg))
      <4> SUFFICES ASSUME CURRENT_HOST'[n] = NO_HOST PROVE IN_CONTROL_QUEUE'[n] \in Seq(Others(tpcp_msg)) OBVIOUS
      <4>1. IN_CONTROL_QUEUE[n] \in Seq(Others(tpcp_msg)) /\ m \in Others(tpcp_msg)
        BY <2>1, <3>1, <3>2, <3>3 DEF OwnedAt
      <4> QED BY <3>2, <4>1
    <3>5. NODE_STATUS'[n] \in Engaged \union Locked => CURRENT_HOST'[n] # NO_HOST
      BY <1>2, <3>1, <3>2, <3>3 DEF OwnedAt, control
    <3>6. control_pc'[n] = "reset" => keyboard' = {} /\ NoRequest' BY <1>2, <2>4, <3>1 DEF OwnedAt, control
    <3> QED BY <1>5, <3>4, <3>5, <3>6 DEF OwnedAt
  <2> QED BY <2>3, <2>5, <2>6
<1> QED BY <1>4, <1>6, <1>7

LEMMA OwnedHost ==
  ASSUME OwnedInv, (\E f \in first_nodes : HostReceive(f)) \/ (\E x \in Commands : HostCommand(x))
  PROVE  RequestsNamed' /\ \A k \in Node : OwnedAt(k)'
<1>1. TypeOK /\ RequestsNamed BY DEF OwnedInv, OneTrainInv, Inv
<1>2. /\ Named(tpcp_msg)' = Named(tpcp_msg) /\ Named(Wire)' = Named(Wire)
      /\ Others(tpcp_msg)' = Others(tpcp_msg) /\ Others(Wire)' = Others(Wire)
  BY DEF Named, Others
<1>3. UNCHANGED <<control, CURRENT_HOST, OUT_CONTROL_QUEUE, IN_CONTROL_QUEUE>>
  BY DEF HostReceive, HostCommand, queues
<1>4. CASE \E f \in first_nodes : HostReceive(f)
  <2> PICK f \in first_nodes : HostReceive(f) BY <1>4
  <2> DEFINE read == [sock EXCEPT ![<<f, HOST_ID>>] = Tail(@)]
  <2>1. PICK w : w = Head(sock[<<f, HOST_ID>>]) OBVIOUS
  <2>2. /\ keyboard' = keyboard /\ sock[<<f, HOST_ID>>] # << >>
        /\ sock' = read \/ sock' = SendTo(read, HOST_ID, f, [w EXCEPT !.command = "SENSOR_ON"])
    BY <2>1 DEF HostReceive, OwnedInv, AsksOnce
  <2>3. <<f, HOST_ID>> \in Channel BY FirstNodes
  <2>4. ASSUME NEW W, W \in {Named(Wire), Others(Wire)}, sock \in [Channel -> Seq(W)]
        PROVE  sock' \in [Channel -> Seq(W)]
    <3>1. w \in W /\ read \in [Channel -> Seq(W)] BY <2>1, <2>2, <2>3, <2>4, ReadFrom
    <3>2. /\ \A x \in Named(Wire) : [x EXCEPT !.command = "SENSOR_ON"] \in Named(Wire)
          /\ \A x \in Others(Wire) : [x EXCEPT !.command = "SENSOR_ON"] \in Others(Wire)
      BY DEF Named, Others, Wire, Command
    <3> HIDE DEF read
    <3>3. [w EXCEPT !.command = "SENSOR_ON"] \in W BY <2>4, <3>1, <3>2
    <3>4. SendTo(read, HOST_ID, f, [w EXCEPT !.command = "SENSOR_ON"]) \in [Channel -> Seq(W)]
      BY <2>4, <3>1, <3>3, SentOn
    <3> QED BY <2>2, <3>1, <3>4
  <2>5. RequestsNamed' BY <1>1, <1>2, <1>3, <2>4 DEF RequestsNamed
  <2>6. NoRequest => NoRequest' BY <1>2, <1>3, <2>4 DEF NoRequest
  <2> QED BY <1>3, <2>2, <2>5, <2>6, OwnedAround
<1>5. CASE \E x \in Commands : HostCommand(x)
  <2> PICK x \in Commands : HostCommand(x) BY <1>5
  <2>1. x \in keyboard /\ sock' = SendTo(sock, HOST_ID, x.to, x.msg) BY DEF HostCommand
  <2>2. x.msg \in Named(Wire)
    <3>1. Idle BY <2>1, RequestIsAlone DEF OwnedInv
    <3>2. x \in setting.commands BY <2>1, <3>1 DEF Idle
    <3> QED BY <3>2, InterlockingAssumption DEF OwnedInv, AsksOnce, Named
  <2>3. sock' \in [Channel -> Seq(Named(Wire))] BY <1>1, <2>1, <2>2, SentOn DEF RequestsNamed
  <2>4. RequestsNamed' BY <1>1, <1>2, <1>3, <2>3 DEF RequestsNamed
  <2>5. \A k \in Node : control_pc[k] # "reset" BY <2>1 DEF OwnedInv, OwnedAt
  <2>6. ASSUME NEW k \in Node PROVE OwnedAt(k)'
    BY <1>2, <1>3, <2>5 DEF OwnedInv, OwnedAt, control
  <2> QED BY <2>4, <2>6
<1> QED BY <1>4, <1>5

\* With one train that asks once, an element that takes part in the reservation
\* serves the train, although two tasks write CURRENT_HOST and a reset comes
\* after the message that releases the next element: none is overtaken by a REQ.
THEOREM EngagedOfOneTrain == Spec /\ AsksOnce => []EngagedIsOwned
<1>1. Init /\ AsksOnce /\ OneTrainInv => OwnedInv
  <2> SUFFICES ASSUME Init, AsksOnce, OneTrainInv PROVE OwnedInv OBVIOUS
  <2>1. RequestsNamed BY DEF Init, RequestsNamed
  <2>2. \A n \in Node : OwnedAt(n) BY DEF Init, OwnedAt, Engaged, Locked
  <2> QED BY <2>1, <2>2 DEF OwnedInv
<1>2. OneTrainInv /\ OneTrainInv' /\ OwnedInv /\ [Next]_vars => OwnedInv'
  <2> SUFFICES ASSUME OneTrainInv', OwnedInv, [Next]_vars PROVE OwnedInv' OBVIOUS
  <2>1. Inv /\ TypeOK BY DEF OwnedInv, OneTrainInv, Inv
  <2>2. AsksOnce'
    <3>1. UNCHANGED setting BY <2>1, SettingStays
    <3> QED BY <3>1 DEF OwnedInv, OneTrainInv, AsksOnce
  <2>3. RequestsNamed' /\ \A k \in Node : OwnedAt(k)'
    <3>1. CASE UNCHANGED <<control, CURRENT_HOST, queues, sock, keyboard>>
      <4>1. RequestsNamed' /\ (NoRequest => NoRequest')
        BY <3>1 DEF OwnedInv, RequestsNamed, NoRequest, queues, Named, Others
      <4> QED BY <3>1, <4>1, OwnedAround DEF queues
    <3>2. ASSUME NEW n \in Node, controlMain(n) \/ DiagFailed(n) \/ PositioningMain(n)
          PROVE  RequestsNamed' /\ \A k \in Node : OwnedAt(k)'
      <4>1. HOST_ID \in Id BY DEF Id
      <4>2. OnlyAt(n) BY <2>1, <3>2, <4>1, StepsAreLocal
      <4>3. HandleReq(n) \/ (Speaks(n) /\ Serves(n))
        BY <3>2, OwnedAroundTheLoop, OwnedPositioned, OwnedMessage DEF controlMain
      <4> QED BY <2>1, <4>2, <4>3, OwnedRequest, ServingKeeps
    <3>4. (\E n \in Node : TrainEnters(n) \/ TrainLeaves(n)) \/ UNCHANGED vars
            => UNCHANGED <<control, CURRENT_HOST, queues, sock, keyboard>>
      BY DEF TrainEnters, TrainLeaves, vars, host
    <3> QED BY <3>1, <3>2, <3>4, OwnedOut, OwnedIn, OwnedHost DEF Next
  <2> QED BY <2>2, <2>3 DEF OwnedInv
<1>3. OwnedInv => EngagedIsOwned BY DEF OwnedInv, OwnedAt, EngagedIsOwned
<1>4. AsksOnce => OneTrain BY DEF AsksOnce
<1> QED BY <1>1, <1>2, <1>3, <1>4, OneTrainHolds, PTL DEF Spec
=============================================================================
