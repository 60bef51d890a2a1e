---------------------------- MODULE LockingProofs ----------------------------
(***************************************************************************)
(* The commit protocol implements the hand-over-hand locking of            *)
(* RouteLocking on every railway: with any number of trains, when every    *)
(* train asks once, at the head of its route, and is noticed by buttons;   *)
(* and with one train and simulated sensors, or the automatic test.        *)
(* Positioning may fail.                                                   *)
(***************************************************************************)
EXTENDS InterlockingProofs

\* The setting the theorems are about.
Scripted ==
  /\ ~setting.SIM_SENSOR /\ ~setting.AUTOMATIC_TESTING_ROUTES
  /\ setting.PingFailNodes = {}
  /\ \A c \in setting.commands :
       /\ c.msg.command = "REQ" /\ c.msg.host_id \in Train
       /\ c.to = nodes_list[c.msg.route_id][1]
  /\ \A c, d \in setting.commands : c.msg.host_id = d.msg.host_id => c = d

\* The trains, the request of each, and its route.
Asking == {c.msg.host_id : c \in setting.commands}

Request(t) == CHOOSE c \in setting.commands : c.msg.host_id = t

RouteOf(t) == Request(t).msg.route_id

Way(t) == Elements(RouteOf(t))

Before(t, n) == rasp_id_prev(n, RouteOf(t))

After(t, n) == rasp_id_next(n, RouteOf(t))

\* Whom n exchanges messages of t with.
Partners(t, n) == {Before(t, n), After(t, n)} \ {TAIL_ID}

\* The elements of route r from n on.
Onwards(n, r) == {nodes_list[r][i] : i \in IndexOf(n, r) .. Len(nodes_list[r])}

-----------------------------------------------------------------------------
(* The messages of a train that are under way from a to b: in the queue of *)
(* a's control task, on the connection, in the queue of b's control task.  *)

\* The commands of the members of S that are in the queue q; at most one is.
Said(q, S) == {q[i].command : i \in {j \in DOMAIN q : q[j] \in S}}

Once(q, S) == \A i, j \in DOMAIN q : q[i] \in S /\ q[j] \in S => i = j

Leaving(t, b) == {m \in tpcp_msg : m.host_id = t /\ m.recevier_id = b}

Passing(t) == {w \in Wire : w.host_id = t}

Coming(t, a) == {m \in tpcp_msg : m.host_id = t /\ m.sender_id = a}

OutOf(a) == IF a \in Node THEN OUT_CONTROL_QUEUE[a] ELSE << >>

Between(out, wire, in, t, a, b) ==
  Said(out, Leaving(t, b)) \union Said(wire, Passing(t)) \union Said(in, Coming(t, a))

AtMostOne(out, wire, in, t, a, b) ==
  /\ Once(out, Leaving(t, b)) /\ Once(wire, Passing(t)) /\ Once(in, Coming(t, a))
  /\ \/ Said(out, Leaving(t, b)) = {} /\ Said(wire, Passing(t)) = {}
     \/ Said(out, Leaving(t, b)) = {} /\ Said(in, Coming(t, a)) = {}
     \/ Said(wire, Passing(t)) = {} /\ Said(in, Coming(t, a)) = {}

UnderWay(t, a, b) ==
  Between(OutOf(a), sock[<<a, b>>], IN_CONTROL_QUEUE[b], t, a, b)

Alone(t, a, b) ==
  AtMostOne(OutOf(a), sock[<<a, b>>], IN_CONTROL_QUEUE[b], t, a, b)

-----------------------------------------------------------------------------
(* The invariant.                                                          *)

\* Every message is of a train of the script, about its route, and between
\* two elements that are beside each other there; one that was let in is of the
\* train that the node serves.
OutgoingOK(n, m) ==
  /\ m.host_id \in Asking /\ m.route_id = RouteOf(m.host_id)
  /\ n \in Way(m.host_id)
  /\ m.recevier_id \in Partners(m.host_id, n)

WireOK(a, b, w) ==
  b \in Node =>
    /\ w.host_id \in Asking /\ w.route_id = RouteOf(w.host_id)
    /\ b \in Way(w.host_id)
    /\ a \in Partners(w.host_id, b)

IncomingOK(n, m) ==
  /\ m.host_id \in Asking /\ m.route_id = RouteOf(m.host_id)
  /\ n \in Way(m.host_id)
  /\ m.sender_id \in Partners(m.host_id, n)
  /\ m.host_id = CURRENT_HOST[n]

MessagesOK ==
  /\ keyboard \subseteq setting.commands
  /\ \A n \in Node : \A i \in DOMAIN OUT_CONTROL_QUEUE[n] : OutgoingOK(n, OUT_CONTROL_QUEUE[n][i])
  /\ \A c \in Channel : \A i \in DOMAIN sock[c] : WireOK(c[1], c[2], sock[c][i])
  /\ \A n \in Node : \A i \in DOMAIN IN_CONTROL_QUEUE[n] : IncomingOK(n, IN_CONTROL_QUEUE[n][i])

\* The control task waits for the switch.
Waiting == {"suspended", "resumed"}

Awaits(n) == control_pc[n] \in Waiting

\* An element that is not free serves a train of the script on its route.
ElementOK(n) ==
  /\ control_pc[n] \notin {"reset", "crashed"}
  /\ NODE_STATUS[n] # "PING_FAIL_SAFE"
  /\ CURRENT_HOST[n] \in Asking \union {NO_HOST}
  /\ NODE_STATUS[n] # "NOT_RESERVED" =>
       /\ CURRENT_HOST[n] \in Asking /\ n \in Way(CURRENT_HOST[n])
       /\ current_route[n] = RouteOf(CURRENT_HOST[n])
  /\ Awaits(n) =>
       /\ IsSwitch(n)
       /\ in_msg[n].host_id = CURRENT_HOST[n] /\ in_msg[n].command = "AGREE"
       /\ in_msg[n].route_id = current_route[n]
       /\ railswitch[n].last_route_id = current_route[n]
  /\ button[n] => NODE_STATUS[n] \in Locked
  /\ IsSwitch(n) /\ NODE_STATUS[n] \in Locked =>
       railswitch[n] = [last_route_id |-> current_route[n], in_position |-> TRUE]

\* What n's status is to train t.
StatusFor(t, n) == IF CURRENT_HOST[n] = t THEN NODE_STATUS[n] ELSE "NOT_RESERVED"

\* Two elements beside each other on the route of t, b after a, with the
\* messages f under way from a to b and g from b to a; pc is where the control
\* task of a is.
Quiet ==
  {<<"NOT_RESERVED", "NOT_RESERVED">>, <<"WAIT_ACK", "WAIT_ACK">>,
   <<"WAIT_COMMIT", "WAIT_COMMIT">>, <<"WAIT_AGREE", "WAIT_AGREE">>,
   <<"NOT_RESERVED", "FAIL_SAFE">>, <<"FAIL_SAFE", "NOT_RESERVED">>,
   <<"NOT_RESERVED", "TRAIN_IN_TRANSITION">>}

PairOK(sa, sb, f, g, pc, pa, pb) ==
  /\ sa = "WAIT_AGREE" /\ pc \in Waiting => sb = "RESERVED"
  /\ \/ f = {} /\ g = {} /\ <<sa, sb>> \in Quiet
     \/ f = {} /\ g = {} /\ <<sa, sb>> = <<"RESERVED", "RESERVED">> /\ ~pb
     \/ f = {} /\ g = {} /\ <<sa, sb>> = <<"TRAIN_IN_TRANSITION", "RESERVED">> /\ pa
     \/ f = {} /\ g = {} /\ <<sa, sb>> = <<"TRAIN_IN_TRANSITION", "TRAIN_IN_TRANSITION">> /\ pb
     \/ f = {"REQ"} /\ g = {} /\ <<sa, sb>> = <<"WAIT_ACK", "NOT_RESERVED">>
     \/ f = {} /\ g = {"ACK"} /\ <<sa, sb>> = <<"WAIT_ACK", "WAIT_COMMIT">>
     \/ f = {"COMMIT"} /\ g = {} /\ <<sa, sb>> = <<"WAIT_AGREE", "WAIT_COMMIT">>
     \/ f = {} /\ g = (IF pc \in Waiting THEN {} ELSE {"AGREE"}) /\ ~pb
          /\ <<sa, sb>> = <<"WAIT_AGREE", "RESERVED">>
     \/ f = {} /\ g = {"NOT_OK"}
          /\ <<sa, sb>> \in {<<"WAIT_ACK", "NOT_RESERVED">>, <<"WAIT_AGREE", "FAIL_SAFE">>,
                             <<"WAIT_AGREE", "NOT_RESERVED">>}
     \/ f = {"NOT_OK"} /\ g = {} /\ ~pb
          /\ <<sa, sb>> \in {<<"FAIL_SAFE", "RESERVED">>, <<"NOT_RESERVED", "RESERVED">>}

EdgeOK(t, a, b) ==
  PairOK(StatusFor(t, a), StatusFor(t, b), UnderWay(t, a, b), UnderWay(t, b, a),
         control_pc[a], button[a], button[b])

\* Nothing of t is at n or beyond.
Untouched(t, n) ==
  \A a \in Onwards(n, RouteOf(t)) :
    /\ StatusFor(t, a) = "NOT_RESERVED"
    /\ After(t, a) # TAIL_ID =>
         UnderWay(t, a, After(t, a)) = {} /\ UnderWay(t, After(t, a), a) = {}

\* The train asks once.
RequestOK(t) ==
  LET first == nodes_list[RouteOf(t)][1] IN
  /\ UnderWay(t, HOST_ID, first) \subseteq {"REQ"}
  /\ Request(t) \in keyboard => Untouched(t, first) /\ UnderWay(t, HOST_ID, first) = {}
  /\ \A b \in Way(t) : "REQ" \in UnderWay(t, Before(t, b), b) => Untouched(t, b)

TrainOK(t) ==
  /\ \A b \in Way(t) : \A a \in Partners(t, b) : Alone(t, a, b)
  /\ \A a \in Way(t) : After(t, a) # TAIL_ID => EdgeOK(t, a, After(t, a))
  /\ RequestOK(t)

CommitInv ==
  /\ Inv /\ Scripted /\ MessagesOK
  /\ \A n \in Node : ElementOK(n)
  /\ \A t \in Asking : TrainOK(t)
-----------------------------------------------------------------------------
(* Queues.                                                                 *)

\* What is said in two queues, one after the other.
LEMMA SaidConcat ==
  ASSUME NEW X, NEW q \in Seq(X), NEW p \in Seq(X), NEW S
  PROVE  /\ Said(q \o p, S) = Said(q, S) \union Said(p, S)
         /\ Once(q, S) /\ Once(p, S) /\ (Said(q, S) = {} \/ Said(p, S) = {}) => Once(q \o p, S)
<1>1. /\ q \o p \in Seq(X) /\ Len(q) \in Nat /\ Len(p) \in Nat
      /\ DOMAIN (q \o p) = 1 .. Len(q) + Len(p) /\ DOMAIN q = 1 .. Len(q) /\ DOMAIN p = 1 .. Len(p)
      /\ \A i \in 1 .. Len(q) + Len(p) :
           (q \o p)[i] = IF i <= Len(q) THEN q[i] ELSE p[i - Len(q)]
  OBVIOUS
<1> DEFINE s == q \o p
<1>2. \A i \in DOMAIN q : i \in DOMAIN s /\ s[i] = q[i] BY <1>1
<1>3. \A i \in DOMAIN p : i + Len(q) \in DOMAIN s /\ s[i + Len(q)] = p[i] BY <1>1
<1>4. \A i \in DOMAIN s : (i \in DOMAIN q /\ s[i] = q[i])
                         \/ (i - Len(q) \in DOMAIN p /\ s[i] = p[i - Len(q)])
  BY <1>1
<1>5. \A i \in DOMAIN s : i \in Nat BY <1>1
<1> HIDE DEF s
<1>6. Said(s, S) = Said(q, S) \union Said(p, S)
  <2>1. Said(s, S) \subseteq Said(q, S) \union Said(p, S) BY <1>4 DEF Said
  <2>2. Said(q, S) \subseteq Said(s, S) BY <1>2 DEF Said
  <2>3. Said(p, S) \subseteq Said(s, S) BY <1>3 DEF Said
  <2> QED BY <2>1, <2>2, <2>3
<1>7. ASSUME Once(q, S), Once(p, S), Said(q, S) = {} \/ Said(p, S) = {} PROVE Once(s, S)
  <2> SUFFICES ASSUME NEW i \in DOMAIN s, NEW j \in DOMAIN s, s[i] \in S, s[j] \in S
               PROVE  i = j
    BY DEF Once
  <2>1. \A k \in DOMAIN q : q[k] \in S => Said(q, S) # {} BY DEF Said
  <2>2. \A k \in DOMAIN p : p[k] \in S => Said(p, S) # {} BY DEF Said
  <2>3. CASE Said(q, S) = {}
    <3>1. /\ i - Len(q) \in DOMAIN p /\ s[i] = p[i - Len(q)]
          /\ j - Len(q) \in DOMAIN p /\ s[j] = p[j - Len(q)]
      BY <1>4, <2>1, <2>3
    <3>2. i - Len(q) = j - Len(q) BY <3>1, <1>7 DEF Once
    <3> QED BY <3>2, <1>1, <1>5
  <2>4. CASE Said(p, S) = {} BY <1>4, <1>7, <2>2, <2>4 DEF Once
  <2> QED BY <1>7, <2>3, <2>4
<1> QED BY <1>6, <1>7 DEF s

\* What one message says.
LEMMA SaidByOne ==
  ASSUME NEW m, NEW S
  PROVE  Said(<<m>>, S) = (IF m \in S THEN {m.command} ELSE {}) /\ Once(<<m>>, S)
<1>1. DOMAIN <<m>> = {1} /\ <<m>>[1] = m OBVIOUS
<1> QED BY <1>1 DEF Said, Once

\* What is said in a queue after its first message has been taken.
LEMMA SaidAfter ==
  ASSUME NEW X, NEW q \in Seq(X), q # << >>, NEW S
  PROVE  /\ Said(q, S) = (IF Head(q) \in S THEN {Head(q).command} ELSE {}) \union Said(Tail(q), S)
         /\ Once(q, S) => Once(Tail(q), S) /\ (Head(q) \in S => Said(Tail(q), S) = {})
<1>1. /\ Len(q) \in Nat \ {0} /\ DOMAIN q = 1 .. Len(q) /\ Head(q) = q[1]
      /\ DOMAIN Tail(q) = 1 .. Len(q) - 1
      /\ \A i \in 1 .. Len(q) - 1 : Tail(q)[i] = q[i + 1]
  OBVIOUS
<1> DEFINE s == Tail(q)
<1>2. 1 \in DOMAIN q BY <1>1
<1>3. \A i \in DOMAIN s : i + 1 \in DOMAIN q /\ i + 1 # 1 /\ s[i] = q[i + 1] BY <1>1
<1>4. \A i \in DOMAIN q : i = 1 \/ (i - 1 \in DOMAIN s /\ s[i - 1] = q[i]) BY <1>1
<1>5. \A i \in DOMAIN s : i \in Nat BY <1>1
<1>6. Head(q) = q[1] BY <1>1
<1> HIDE DEF s
<1>7. Said(q, S) = (IF Head(q) \in S THEN {Head(q).command} ELSE {}) \union Said(s, S)
  <2>1. Said(s, S) \subseteq Said(q, S) BY <1>3 DEF Said
  <2>2. Head(q) \in S => Head(q).command \in Said(q, S) BY <1>2, <1>6 DEF Said
  <2>3. \A i \in DOMAIN q : q[i] \in S =>
          q[i].command \in (IF Head(q) \in S THEN {Head(q).command} ELSE {}) \union Said(s, S)
    BY <1>4, <1>6 DEF Said
  <2>4. Said(q, S) \subseteq (IF Head(q) \in S THEN {Head(q).command} ELSE {}) \union Said(s, S)
    BY <2>3 DEF Said
  <2> QED BY <2>1, <2>2, <2>4
<1>8. ASSUME Once(q, S) PROVE Once(s, S) /\ (Head(q) \in S => Said(s, S) = {})
  <2>1. Once(s, S)
    <3> SUFFICES ASSUME NEW i \in DOMAIN s, NEW j \in DOMAIN s, s[i] \in S, s[j] \in S
                 PROVE  i = j
      BY DEF Once
    <3>1. i + 1 = j + 1 BY <1>3, <1>8 DEF Once
    <3> QED BY <3>1, <1>5
  <2>2. Head(q) \in S => Said(s, S) = {}
    BY <1>2, <1>3, <1>6, <1>8 DEF Said, Once
  <2> QED BY <2>1, <2>2
<1> QED BY <1>7, <1>8 DEF s

\* What is said once a message was appended.
LEMMA SaidAppend ==
  ASSUME NEW X, NEW q \in Seq(X), NEW m \in X, NEW S
  PROVE  /\ Said(Append(q, m), S) = Said(q, S) \union (IF m \in S THEN {m.command} ELSE {})
         /\ Once(q, S) /\ (m \in S => Said(q, S) = {}) => Once(Append(q, m), S)
<1> DEFINE p == <<m>>
<1>1. Append(q, m) = q \o p /\ p \in Seq(X) OBVIOUS
<1>2. Said(p, S) = (IF m \in S THEN {m.command} ELSE {}) /\ Once(p, S) BY SaidByOne
<1> HIDE DEF p
<1>3. /\ Said(q \o p, S) = Said(q, S) \union Said(p, S)
      /\ Once(q, S) /\ Once(p, S) /\ (Said(q, S) = {} \/ Said(p, S) = {}) => Once(q \o p, S)
  BY <1>1, SaidConcat
<1> QED BY <1>1, <1>2, <1>3

\* What holds of the messages of a queue holds of those that are left, and of
\* a new one.
LEMMA AllIn ==
  ASSUME NEW X, NEW S, NEW q \in Seq(X), \A j \in DOMAIN q : q[j] \in S, NEW p,
         \/ p = q
         \/ q # << >> /\ p = Tail(q)
         \/ \E y \in X : y \in S /\ p = Append(q, y)
  PROVE  \A i \in DOMAIN p : p[i] \in S
<1>1. CASE p = q BY <1>1
<1>2. CASE q # << >> /\ p = Tail(q)
  <2>1. \A i \in DOMAIN Tail(q) : i + 1 \in DOMAIN q /\ Tail(q)[i] = q[i + 1] BY <1>2
  <2> QED BY <1>2, <2>1
<1>3. ASSUME NEW y \in X, y \in S, p = Append(q, y) PROVE \A i \in DOMAIN p : p[i] \in S
  <2>1. \A i \in DOMAIN Append(q, y) : Append(q, y)[i] = y \/ (i \in DOMAIN q /\ Append(q, y)[i] = q[i])
    OBVIOUS
  <2> QED BY <1>3, <2>1
<1> QED BY <1>1, <1>2, <1>3

\* The control task of a queues messages.
LEMMA Queueing ==
  ASSUME NEW X, NEW out \in Seq(X), NEW new \in Seq(X), NEW wire, NEW in, NEW t, NEW a, NEW b
  PROVE  /\ Between(out \o new, wire, in, t, a, b)
              = Between(out, wire, in, t, a, b) \union Said(new, Leaving(t, b))
         /\ AtMostOne(out, wire, in, t, a, b) /\ Once(new, Leaving(t, b))
              /\ (Between(out, wire, in, t, a, b) = {} \/ Said(new, Leaving(t, b)) = {})
              => AtMostOne(out \o new, wire, in, t, a, b)
<1>1. /\ Said(out \o new, Leaving(t, b)) = Said(out, Leaving(t, b)) \union Said(new, Leaving(t, b))
      /\ Once(out, Leaving(t, b)) /\ Once(new, Leaving(t, b))
           /\ (Said(out, Leaving(t, b)) = {} \/ Said(new, Leaving(t, b)) = {})
           => Once(out \o new, Leaving(t, b))
  BY SaidConcat
<1> QED BY <1>1 DEF Between, AtMostOne

\* The communication task of a sends the first message of the queue.
LEMMA Sending ==
  ASSUME NEW out \in Seq(tpcp_msg), out # << >>, NEW wire \in Seq(Wire), NEW in, NEW t, NEW a, NEW b,
         AtMostOne(out, wire, in, t, a, b), NEW wire2,
         Head(out).recevier_id = b => wire2 = Append(wire, Wired(Head(out))),
         Head(out).recevier_id # b => wire2 = wire
  PROVE  /\ Between(Tail(out), wire2, in, t, a, b) = Between(out, wire, in, t, a, b)
         /\ AtMostOne(Tail(out), wire2, in, t, a, b)
<1> DEFINE m == Head(out)
           L == Leaving(t, b)
           P == Passing(t)
<1>1. m \in tpcp_msg OBVIOUS
<1>2. Wired(m) \in Wire /\ Wired(m).host_id = m.host_id /\ Wired(m).command = m.command
  BY <1>1 DEF Wired, Wire, tpcp_msg
<1>3. /\ Said(out, L) = (IF m \in L THEN {m.command} ELSE {}) \union Said(Tail(out), L)
      /\ Once(Tail(out), L) /\ (m \in L => Said(Tail(out), L) = {})
  BY SaidAfter DEF AtMostOne
<1>4. /\ Said(Append(wire, Wired(m)), P)
           = Said(wire, P) \union (IF Wired(m) \in P THEN {Wired(m).command} ELSE {})
      /\ Once(wire, P) /\ (Wired(m) \in P => Said(wire, P) = {}) => Once(Append(wire, Wired(m)), P)
  BY <1>2, SaidAppend
<1>6. m \in L <=> m.host_id = t /\ m.recevier_id = b BY <1>1 DEF Leaving
<1>7. Wired(m) \in P <=> m.host_id = t BY <1>2 DEF Passing
<1>8. wire2 = IF m.recevier_id = b THEN Append(wire, Wired(m)) ELSE wire OBVIOUS
<1> HIDE DEF m, L, P
<1>9. CASE m \in L
  <2>1. Said(out, L) # {} BY <1>3, <1>9
  <2>2. Said(wire, P) = {} /\ Said(in, Coming(t, a)) = {} BY <2>1 DEF AtMostOne, L, P
  <2> QED BY <1>2, <1>3, <1>4, <1>6, <1>7, <1>8, <1>9, <2>2 DEF Between, AtMostOne, L, P
<1>10. CASE m \notin L
  <2>1. Said(wire2, P) = Said(wire, P) /\ Once(wire2, P)
    BY <1>4, <1>6, <1>7, <1>8, <1>10 DEF AtMostOne, P
  <2> QED BY <1>3, <1>10, <2>1 DEF Between, AtMostOne, L, P
<1> QED BY <1>9, <1>10

\* The communication task of b lets a message of a in.
LEMMA Delivering ==
  ASSUME NEW out, NEW wire \in Seq(Wire), wire # << >>, NEW in \in Seq(tpcp_msg), NEW t, NEW a, NEW b,
         AtMostOne(out, wire, in, t, a, b), NEW m \in tpcp_msg,
         m.command = Head(wire).command, m.host_id = Head(wire).host_id, m.sender_id = a
  PROVE  /\ Between(out, Tail(wire), Append(in, m), t, a, b) = Between(out, wire, in, t, a, b)
         /\ AtMostOne(out, Tail(wire), Append(in, m), t, a, b)
<1> DEFINE w == Head(wire)
           P == Passing(t)
           C == Coming(t, a)
<1>1. w \in Wire OBVIOUS
<1>2. /\ Said(wire, P) = (IF w \in P THEN {w.command} ELSE {}) \union Said(Tail(wire), P)
      /\ Once(Tail(wire), P) /\ (w \in P => Said(Tail(wire), P) = {})
  BY SaidAfter DEF AtMostOne
<1>3. /\ Said(Append(in, m), C) = Said(in, C) \union (IF m \in C THEN {m.command} ELSE {})
      /\ Once(in, C) /\ (m \in C => Said(in, C) = {}) => Once(Append(in, m), C)
  BY SaidAppend
<1>5. w \in P <=> w.host_id = t BY <1>1 DEF Passing
<1>6. m \in C <=> w.host_id = t BY DEF Coming
<1>7. m.command = w.command OBVIOUS
<1> HIDE DEF w, P, C
<1>8. CASE w \in P
  <2>1. Said(wire, P) # {} BY <1>2, <1>8
  <2>2. Said(out, Leaving(t, b)) = {} /\ Said(in, C) = {} BY <2>1 DEF AtMostOne, C, P
  <2> QED BY <1>2, <1>3, <1>5, <1>6, <1>7, <1>8, <2>2 DEF Between, AtMostOne, C, P
<1>9. CASE w \notin P
  <2>1. Said(Append(in, m), C) = Said(in, C) /\ Once(Append(in, m), C)
    BY <1>3, <1>5, <1>6, <1>9 DEF AtMostOne, C
  <2> QED BY <1>2, <1>9, <2>1 DEF Between, AtMostOne, C, P
<1> QED BY <1>8, <1>9

\* The control task of b takes the first message.
LEMMA Taking ==
  ASSUME NEW out, NEW wire, NEW in \in Seq(tpcp_msg), in # << >>, NEW t, NEW a, NEW b,
         AtMostOne(out, wire, in, t, a, b)
  PROVE  /\ AtMostOne(out, wire, Tail(in), t, a, b)
         /\ Head(in).host_id = t /\ Head(in).sender_id = a =>
              /\ Between(out, wire, in, t, a, b) = {Head(in).command}
              /\ Between(out, wire, Tail(in), t, a, b) = {}
         /\ ~(Head(in).host_id = t /\ Head(in).sender_id = a) =>
              Between(out, wire, Tail(in), t, a, b) = Between(out, wire, in, t, a, b)
<1> DEFINE m == Head(in)
           C == Coming(t, a)
<1>1. m \in tpcp_msg OBVIOUS
<1>2. /\ Said(in, C) = (IF m \in C THEN {m.command} ELSE {}) \union Said(Tail(in), C)
      /\ Once(Tail(in), C) /\ (m \in C => Said(Tail(in), C) = {})
  BY SaidAfter DEF AtMostOne
<1>3. m \in C <=> m.host_id = t /\ m.sender_id = a BY <1>1 DEF Coming
<1> HIDE DEF m, C
<1>4. CASE m \in C
  <2>1. Said(in, C) # {} BY <1>2, <1>4
  <2>2. Said(out, Leaving(t, b)) = {} /\ Said(wire, Passing(t)) = {} BY <2>1 DEF AtMostOne, C
  <2> QED BY <1>2, <1>3, <1>4, <2>2 DEF Between, AtMostOne, C, m
<1>5. CASE m \notin C
  BY <1>2, <1>3, <1>5 DEF Between, AtMostOne, C, m
<1> QED BY <1>4, <1>5

\* A message is taken from the connection and does not reach the queue.
LEMMA Dropping ==
  ASSUME NEW out, NEW wire \in Seq(Wire), wire # << >>, NEW in, NEW t, NEW a, NEW b,
         AtMostOne(out, wire, in, t, a, b)
  PROVE  /\ AtMostOne(out, Tail(wire), in, t, a, b)
         /\ Head(wire).host_id = t =>
              /\ Between(out, wire, in, t, a, b) = {Head(wire).command}
              /\ Between(out, Tail(wire), in, t, a, b) = {}
         /\ Head(wire).host_id # t =>
              Between(out, Tail(wire), in, t, a, b) = Between(out, wire, in, t, a, b)
<1> DEFINE w == Head(wire)
           P == Passing(t)
<1>1. w \in Wire OBVIOUS
<1>2. /\ Said(wire, P) = (IF w \in P THEN {w.command} ELSE {}) \union Said(Tail(wire), P)
      /\ Once(Tail(wire), P) /\ (w \in P => Said(Tail(wire), P) = {})
  BY SaidAfter DEF AtMostOne
<1>3. w \in P <=> w.host_id = t BY <1>1 DEF Passing
<1> HIDE DEF w, P
<1>4. CASE w \in P
  <2>1. Said(wire, P) # {} BY <1>2, <1>4
  <2>2. Said(out, Leaving(t, b)) = {} /\ Said(in, Coming(t, a)) = {} BY <2>1 DEF AtMostOne, P
  <2> QED BY <1>2, <1>3, <1>4, <2>2 DEF Between, AtMostOne, P, w
<1>5. CASE w \notin P
  BY <1>2, <1>3, <1>5 DEF Between, AtMostOne, P, w
<1> QED BY <1>4, <1>5

\* A message is put on the connection directly.
LEMMA Putting ==
  ASSUME NEW out, NEW wire \in Seq(Wire), NEW in, NEW t, NEW a, NEW b, NEW w \in Wire,
         AtMostOne(out, wire, in, t, a, b),
         w.host_id = t => Between(out, wire, in, t, a, b) = {}
  PROVE  /\ AtMostOne(out, Append(wire, w), in, t, a, b)
         /\ Between(out, Append(wire, w), in, t, a, b)
              = Between(out, wire, in, t, a, b) \union (IF w.host_id = t THEN {w.command} ELSE {})
<1> DEFINE P == Passing(t)
<1>1. /\ Said(Append(wire, w), P) = Said(wire, P) \union (IF w \in P THEN {w.command} ELSE {})
      /\ Once(wire, P) /\ (w \in P => Said(wire, P) = {}) => Once(Append(wire, w), P)
  BY SaidAppend
<1>2. w \in P <=> w.host_id = t BY DEF Passing
<1> HIDE DEF P
<1> QED BY <1>1, <1>2 DEF Between, AtMostOne, P

-----------------------------------------------------------------------------
(* Routes.                                                                 *)

\* The rest of a route.
LEMMA OnwardsFacts ==
  ASSUME NEW r \in Route, NEW n \in Elements(r)
  PROVE  /\ n \in Onwards(n, r) /\ Onwards(n, r) \subseteq Elements(r)
         /\ Onwards(nodes_list[r][1], r) = Elements(r)
         /\ rasp_id_prev(n, r) \notin Onwards(n, r)
         /\ rasp_id_next(n, r) # TAIL_ID =>
              Onwards(rasp_id_next(n, r), r) \subseteq Onwards(n, r) \ {n}
         /\ \A m \in Elements(r) : m \in Onwards(n, r) \/ (n \in Onwards(m, r) /\ n # m)
         /\ \A m \in Onwards(n, r) :
              /\ rasp_id_next(m, r) # TAIL_ID => rasp_id_next(m, r) \in Onwards(n, r)
              /\ m # n => rasp_id_prev(m, r) \in Onwards(n, r)
<1> DEFINE list == nodes_list[r]
           i == IndexOf(n, r)
           Place(m) == IndexOf(m, r)
<1>1. Len(list) \in Nat \ {0} BY PlaceOf
<1>2. \A m \in Elements(r) : Place(m) \in 1 .. Len(list) /\ list[Place(m)] = m BY PlaceOf
<1>3. \A k \in 1 .. Len(list) : list[k] \in Elements(r) /\ Place(list[k]) = k BY PlaceOf
<1>4. \A m \in Elements(r) : Onwards(m, r) = {k \in Elements(r) : Place(m) <= Place(k)}
  <2> SUFFICES ASSUME NEW m \in Elements(r)
               PROVE  Onwards(m, r) = {k \in Elements(r) : Place(m) <= Place(k)}
    OBVIOUS
  <2>1. Onwards(m, r) = {list[k] : k \in Place(m) .. Len(list)} BY DEF Onwards
  <2>2. \A k \in Place(m) .. Len(list) : k \in 1 .. Len(list) /\ Place(m) <= k
    BY <1>1, <1>2
  <2>3. \A k \in Elements(r) : Place(m) <= Place(k) => Place(k) \in Place(m) .. Len(list)
    BY <1>1, <1>2
  <2> HIDE DEF list, Place
  <2>4. Onwards(m, r) \subseteq {k \in Elements(r) : Place(m) <= Place(k)}
    BY <1>3, <2>1, <2>2
  <2>5. {k \in Elements(r) : Place(m) <= Place(k)} \subseteq Onwards(m, r)
    BY <1>2, <2>1, <2>3
  <2> QED BY <2>4, <2>5
<1>5. \A m \in Elements(r) :
        /\ rasp_id_prev(m, r) = HOST_ID \/ (/\ rasp_id_prev(m, r) \in Elements(r)
                                           /\ Place(rasp_id_prev(m, r)) = Place(m) - 1)
        /\ rasp_id_next(m, r) = TAIL_ID \/ (/\ rasp_id_next(m, r) \in Elements(r)
                                           /\ Place(rasp_id_next(m, r)) = Place(m) + 1)
  <2> SUFFICES ASSUME NEW m \in Elements(r)
               PROVE  /\ rasp_id_prev(m, r) = HOST_ID \/ (/\ rasp_id_prev(m, r) \in Elements(r)
                                                      /\ Place(rasp_id_prev(m, r)) = Place(m) - 1)
                      /\ rasp_id_next(m, r) = TAIL_ID \/ (/\ rasp_id_next(m, r) \in Elements(r)
                                                      /\ Place(rasp_id_next(m, r)) = Place(m) + 1)
    OBVIOUS
  <2>1. rasp_id_prev(m, r) = IF Place(m) = 1 THEN HOST_ID ELSE list[Place(m) - 1] BY DEF rasp_id_prev
  <2>2. rasp_id_next(m, r) = IF Place(m) = Len(list) THEN TAIL_ID ELSE list[Place(m) + 1]
    BY DEF rasp_id_next
  <2>3. Place(m) # 1 => Place(m) - 1 \in 1 .. Len(list) BY <1>1, <1>2
  <2>4. Place(m) # Len(list) => Place(m) + 1 \in 1 .. Len(list) BY <1>1, <1>2
  <2> QED BY <1>3, <2>1, <2>2, <2>3, <2>4
<1>6. list[1] \in Elements(r) /\ Place(list[1]) = 1 /\ HOST_ID \notin Elements(r)
  <2>1. 1 \in 1 .. Len(list) BY <1>1
  <2>2. HOST_ID \notin Elements(r) BY Beside
  <2> HIDE DEF list, Place
  <2> QED BY <1>3, <2>1, <2>2
<1>7. \A m \in Elements(r) : Place(m) \in Nat /\ Place(m) >= 1 BY <1>1, <1>2
<1> HIDE DEF list, i, Place
<1>8. n \in Onwards(n, r) /\ Onwards(n, r) \subseteq Elements(r) BY <1>4, <1>7
<1>9. Onwards(list[1], r) = Elements(r) BY <1>4, <1>6, <1>7
<1>10. rasp_id_prev(n, r) \notin Onwards(n, r) BY <1>4, <1>5, <1>6, <1>7
<1>11. rasp_id_next(n, r) # TAIL_ID => Onwards(rasp_id_next(n, r), r) \subseteq Onwards(n, r) \ {n}
  BY <1>4, <1>5, <1>7
<1>12. \A m \in Elements(r) : m \in Onwards(n, r) \/ (n \in Onwards(m, r) /\ n # m)
  BY <1>4, <1>7
<1>13. \A m \in Onwards(n, r) : rasp_id_next(m, r) # TAIL_ID => rasp_id_next(m, r) \in Onwards(n, r)
  BY <1>4, <1>5, <1>7
<1>14. \A m \in Onwards(n, r) : m # n => rasp_id_prev(m, r) \in Onwards(n, r)
  <2> SUFFICES ASSUME NEW m \in Onwards(n, r), m # n PROVE rasp_id_prev(m, r) \in Onwards(n, r)
    OBVIOUS
  <2>1. m \in Elements(r) /\ Place(n) <= Place(m) BY <1>4
  <2>2. Place(n) # Place(m) BY <1>2, <2>1
  <2>3. rasp_id_prev(m, r) # HOST_ID
    <3>1. m # list[1] BY <1>6, <1>7, <2>1, <2>2
    <3> QED BY <2>1, <3>1, Beside DEF list
  <2> QED BY <1>4, <1>5, <1>7, <2>1, <2>2, <2>3
<1> QED BY <1>8, <1>9, <1>10, <1>11, <1>12, <1>13, <1>14 DEF list

-----------------------------------------------------------------------------
(* What the invariant says of a train and of an element.                   *)

\* The script never changes.
LEMMA ScriptKept ==
  ASSUME setting' = setting
  PROVE  /\ Asking' = Asking
         /\ \A t : Request(t)' = Request(t) /\ RouteOf(t)' = RouteOf(t) /\ Way(t)' = Way(t)
         /\ \A t, n : /\ Before(t, n)' = Before(t, n) /\ After(t, n)' = After(t, n)
                     /\ Partners(t, n)' = Partners(t, n)
<1>1. Asking' = Asking BY DEF Asking
<1>2. ASSUME NEW t PROVE Request(t)' = Request(t) BY DEF Request
<1>3. ASSUME NEW t PROVE RouteOf(t)' = RouteOf(t) BY <1>2 DEF RouteOf
<1>4. ASSUME NEW t PROVE Way(t)' = Way(t) BY <1>3 DEF Way
<1>5. ASSUME NEW t, NEW n
      PROVE  /\ Before(t, n)' = Before(t, n) /\ After(t, n)' = After(t, n)
             /\ Partners(t, n)' = Partners(t, n)
  <2>1. Before(t, n)' = Before(t, n) /\ After(t, n)' = After(t, n) BY <1>3 DEF Before, After
  <2> QED BY <2>1 DEF Partners
<1> QED BY <1>1, <1>2, <1>3, <1>4, <1>5

\* A train of the script, its request and its route.
LEMMA TrainFacts ==
  ASSUME CommitInv, NEW t \in Asking
  PROVE  /\ t \in Train /\ t # NO_HOST /\ RouteOf(t) \in Route /\ RouteOf(t) # NULL
         /\ Request(t) \in setting.commands /\ Request(t) \in Commands
         /\ Request(t).msg \in Wire /\ Request(t).msg.host_id = t
         /\ Request(t).msg.command = "REQ" /\ Request(t).to = nodes_list[RouteOf(t)][1]
         /\ \A c \in setting.commands : c.msg.host_id = t => c = Request(t)
<1>1. Scripted /\ setting.commands \subseteq Commands BY SettingType DEF CommitInv, Inv, TypeOK
<1>2. Request(t) \in setting.commands /\ Request(t).msg.host_id = t BY DEF Asking, Request
<1>3. Request(t).msg \in Wire BY <1>1, <1>2, InterlockingAssumption
<1>4. Request(t).msg.route_id \in Route BY <1>3 DEF Wire
<1> QED BY <1>1, <1>2, <1>3, <1>4, InterlockingAssumption DEF Scripted, RouteOf

\* The elements of its route.
LEMMA WayFacts ==
  ASSUME CommitInv, NEW t \in Asking, NEW n \in Way(t)
  PROVE  /\ n \in Node
         /\ Before(t, n) \in Way(t) \union {HOST_ID} /\ After(t, n) \in Way(t) \union {TAIL_ID}
         /\ HOST_ID \notin Way(t) /\ TAIL_ID \notin Way(t) /\ HOST_ID # TAIL_ID
         /\ Before(t, n) # n /\ After(t, n) # n /\ Before(t, n) # After(t, n)
         /\ After(t, n) # TAIL_ID => Before(t, After(t, n)) = n
         /\ Before(t, n) # HOST_ID => After(t, Before(t, n)) = n
         /\ Before(t, n) = HOST_ID <=> n = nodes_list[RouteOf(t)][1]
         /\ nodes_list[RouteOf(t)][1] \in Way(t)
<1>1. RouteOf(t) \in Route BY TrainFacts
<1> QED BY <1>1, Beside DEF Way, Before, After

LEMMA PartnerFacts ==
  ASSUME CommitInv, NEW t \in Asking, NEW n \in Way(t), NEW a \in Partners(t, n)
  PROVE  /\ n \in Node /\ a # n /\ a \in Way(t) \union {HOST_ID} /\ a \in Node \union {HOST_ID}
         /\ a \in Node => n \in Partners(t, a) /\ a \in Way(t)
         /\ <<a, n>> \in Channel /\ <<n, a>> \in Channel
<1>1. RouteOf(t) \in Route BY TrainFacts
<1>2. a # n /\ a \in Way(t) \union {HOST_ID} /\ n \in Node BY WayFacts DEF Partners
<1>3. a \in Way(t) => a \in Node BY WayFacts
<1>4. a \in Node => n \in Partners(t, a)
  <2> SUFFICES ASSUME a \in Node PROVE n \in Partners(t, a) OBVIOUS
  <2>1. n # TAIL_ID /\ a # HOST_ID BY <1>2, RoutesAssumption
  <2> QED BY <2>1, WayFacts DEF Partners
<1>5. <<a, n>> \in Channel /\ <<n, a>> \in Channel
  BY <1>1, Connected DEF Partners, Before, After, Way
<1> QED BY <1>2, <1>3, <1>4, <1>5, RoutesAssumption

-----------------------------------------------------------------------------
(* Two elements beside each other.                                         *)

\* What may be under way, by the status of the one who sends or receives it.
LEMMA PairMessages ==
  ASSUME NEW sa, NEW sb, NEW f, NEW g, NEW pc, NEW pa, NEW pb,
         PairOK(sa, sb, f, g, pc, pa, pb)
  PROVE  /\ f # {} =>
              \/ f = {"REQ"} /\ sb = "NOT_RESERVED" /\ sa = "WAIT_ACK"
              \/ f = {"COMMIT"} /\ sb = "WAIT_COMMIT"
              \/ f = {"NOT_OK"} /\ sb = "RESERVED"
         /\ g # {} =>
              /\ \/ g = {"ACK"} /\ sa = "WAIT_ACK"
                 \/ g = {"AGREE"} /\ sa = "WAIT_AGREE"
                 \/ g = {"NOT_OK"} /\ (sa = "WAIT_ACK" \/ sa = "WAIT_AGREE")
              /\ ~(sa = "WAIT_AGREE" /\ pc \in Waiting)
         /\ f # {} => g = {}
BY DEF PairOK, Quiet, Waiting

\* Where an element is free, its switch and its button do not matter.
LEMMA PairSame ==
  ASSUME NEW sa, NEW sb, NEW f, NEW g, NEW pc, NEW pa, NEW pb,
         PairOK(sa, sb, f, g, pc, pa, pb), NEW pc2, NEW pa2, NEW pb2,
         sa = "NOT_RESERVED" \/ (pa2 = pa /\ (pc2 \in Waiting <=> pc \in Waiting)),
         sb = "NOT_RESERVED" \/ pb2 = pb
  PROVE  PairOK(sa, sb, f, g, pc2, pa2, pb2)
BY DEF PairOK, Quiet, Waiting

\* What each step of the element b makes of the pair.
LEMMA PairBehind ==
  ASSUME NEW sa, NEW sb, NEW f, NEW g, NEW pc, NEW pa, NEW pb,
         PairOK(sa, sb, f, g, pc, pa, pb)
  PROVE  /\ f = {"REQ"} =>
              /\ PairOK(sa, "WAIT_ACK", {}, {}, pc, pa, pb)
              /\ PairOK(sa, "WAIT_COMMIT", {}, {"ACK"}, pc, pa, pb)
              /\ PairOK(sa, sb, {}, {"NOT_OK"}, pc, pa, pb)
         /\ sb = "WAIT_ACK" =>
              /\ f = {} /\ g = {}
              /\ PairOK(sa, "WAIT_COMMIT", {}, {"ACK"}, pc, pa, pb)
              /\ PairOK(sa, "NOT_RESERVED", {}, {"NOT_OK"}, pc, pa, pb)
         /\ f = {"COMMIT"} =>
              /\ PairOK(sa, "WAIT_AGREE", {}, {}, pc, pa, pb)
              /\ PairOK(sa, "RESERVED", {}, {"AGREE"}, pc, pa, FALSE)
         /\ sb = "WAIT_AGREE" =>
              /\ f = {} /\ g = {}
              /\ PairOK(sa, "RESERVED", {}, {"AGREE"}, pc, pa, FALSE)
              /\ PairOK(sa, "NOT_RESERVED", {}, {"NOT_OK"}, pc, pa, pb)
              /\ PairOK(sa, "FAIL_SAFE", {}, {"NOT_OK"}, pc, pa, pb)
         /\ f = {"NOT_OK"} => g = {} /\ PairOK(sa, "NOT_RESERVED", {}, {}, pc, pa, pb)
         /\ sb = "RESERVED" /\ pb = TRUE =>
              /\ f = {} /\ g = {}
              /\ PairOK(sa, "TRAIN_IN_TRANSITION", {}, {}, pc, pa, pb)
         /\ sb = "TRAIN_IN_TRANSITION" /\ pb = FALSE =>
              /\ f = {} /\ g = {}
              /\ PairOK(sa, "NOT_RESERVED", {}, {}, pc, pa, pb)
         /\ sa = "TRAIN_IN_TRANSITION" /\ sb = "RESERVED" => PairOK(sa, sb, f, g, pc, pa, TRUE)
         /\ sa # "TRAIN_IN_TRANSITION" /\ sb = "TRAIN_IN_TRANSITION"
              => PairOK(sa, sb, f, g, pc, pa, FALSE)
BY DEF PairOK, Quiet, Waiting

-----------------------------------------------------------------------------
(* A train that a step leaves alone, or changes at one element only.       *)

\* What is under way for an element stays between its partners.
LEMMA EdgePartners ==
  ASSUME CommitInv, NEW t \in Asking, NEW a \in Way(t), After(t, a) # TAIL_ID
  PROVE  /\ a \in Node /\ After(t, a) \in Node /\ After(t, a) \in Way(t) /\ After(t, a) # a
         /\ a \in Partners(t, After(t, a)) /\ After(t, a) \in Partners(t, a)
         /\ Before(t, After(t, a)) = a
         /\ EdgeOK(t, a, After(t, a))
<1>1. a \in Node /\ After(t, a) \in Way(t) /\ After(t, a) # a /\ Before(t, After(t, a)) = a
  BY WayFacts
<1>2. After(t, a) \in Node BY <1>1, WayFacts
<1>3. After(t, a) \in Partners(t, a) BY DEF Partners
<1>4. a \in Partners(t, After(t, a)) BY <1>1, <1>2, <1>3, PartnerFacts
<1> QED BY <1>1, <1>2, <1>3, <1>4 DEF CommitInv, TrainOK

LEMMA TrainSame ==
  ASSUME CommitInv, NEW t \in Asking, setting' = setting, keyboard' \subseteq keyboard,
         button' \in [Node -> BOOLEAN],
         \A n \in Way(t) :
           /\ StatusFor(t, n)' = StatusFor(t, n)
           /\ StatusFor(t, n) = "NOT_RESERVED" \/ (Awaits(n)' = Awaits(n) /\ button'[n] = button[n]),
         \A b \in Way(t) : \A a \in Partners(t, b) :
           /\ Alone(t, a, b)'
           /\ UnderWay(t, a, b)' = UnderWay(t, a, b)
                \/ (a = HOST_ID /\ UnderWay(t, a, b)' \subseteq UnderWay(t, a, b))
  PROVE  TrainOK(t)'
<1>1. /\ Asking' = Asking /\ Request(t)' = Request(t) /\ RouteOf(t)' = RouteOf(t) /\ Way(t)' = Way(t)
      /\ \A n : /\ Before(t, n)' = Before(t, n) /\ After(t, n)' = After(t, n)
                /\ Partners(t, n)' = Partners(t, n)
  BY ScriptKept
<1>2. ASSUME NEW a \in Way(t), NEW b, b = After(t, a), b # TAIL_ID
      PROVE  UnderWay(t, a, b)' = UnderWay(t, a, b) /\ UnderWay(t, b, a)' = UnderWay(t, b, a)
  <2>1. a \in Node /\ b \in Node /\ b \in Way(t) /\ a \in Partners(t, b) /\ b \in Partners(t, a)
    BY <1>2, EdgePartners
  <2> QED BY <2>1, RoutesAssumption
<1>3. ASSUME NEW a \in Way(t), NEW b, b = After(t, a), b # TAIL_ID PROVE EdgeOK(t, a, b)'
  <2>1. a \in Node /\ b \in Node /\ b \in Way(t) /\ EdgeOK(t, a, b) BY <1>3, EdgePartners
  <2>2. /\ button[a] \in BOOLEAN /\ button[b] \in BOOLEAN /\ button'[a] \in BOOLEAN
        /\ button'[b] \in BOOLEAN /\ Awaits(a) \in BOOLEAN /\ Awaits(a)' \in BOOLEAN
    BY <2>1 DEF CommitInv, Inv, TypeOK, Awaits
  <2>3. /\ StatusFor(t, a)' = StatusFor(t, a) /\ StatusFor(t, b)' = StatusFor(t, b)
        /\ StatusFor(t, a) = "NOT_RESERVED" \/ (Awaits(a)' = Awaits(a) /\ button'[a] = button[a])
        /\ StatusFor(t, b) = "NOT_RESERVED" \/ button'[b] = button[b]
    BY <2>1
  <2>4. UnderWay(t, a, b)' = UnderWay(t, a, b) /\ UnderWay(t, b, a)' = UnderWay(t, b, a)
    BY <1>2, <1>3
  <2>5. PairOK(StatusFor(t, a), StatusFor(t, b), UnderWay(t, a, b), UnderWay(t, b, a),
               control_pc[a], button[a], button[b])
    BY <2>1 DEF EdgeOK
  <2>6. PairOK(StatusFor(t, a), StatusFor(t, b), UnderWay(t, a, b), UnderWay(t, b, a),
               control_pc'[a], button'[a], button'[b])
    BY <2>3, <2>5, PairSame DEF Awaits
  <2> QED BY <2>3, <2>4, <2>6 DEF EdgeOK
<1>4. ASSUME NEW n \in Way(t), Untouched(t, n) PROVE Untouched(t, n)'
  <2>1. RouteOf(t) \in Route /\ n \in Elements(RouteOf(t)) BY TrainFacts DEF Way
  <2>2. Onwards(n, RouteOf(t)) \subseteq Way(t) BY <2>1, OnwardsFacts DEF Way
  <2> SUFFICES ASSUME NEW a \in Onwards(n, RouteOf(t)), NEW b, b = After(t, a)
               PROVE  /\ StatusFor(t, a)' = "NOT_RESERVED"
                      /\ b # TAIL_ID => UnderWay(t, a, b)' = {} /\ UnderWay(t, b, a)' = {}
    BY <1>1 DEF Untouched
  <2> QED BY <1>2, <1>4, <2>2 DEF Untouched
<1>5. RequestOK(t)'
  <2>1. PICK first : first = nodes_list[RouteOf(t)][1] OBVIOUS
  <2>2. first \in Way(t) /\ Before(t, first) = HOST_ID /\ HOST_ID \in Partners(t, first)
    <3>1. RouteOf(t) \in Route BY TrainFacts
    <3>2. first \in Way(t) BY <2>1, <3>1, PlaceOf, Beside DEF Way
    <3>3. Before(t, first) = HOST_ID BY <2>1, <3>2, WayFacts
    <3> QED BY <3>2, <3>3, RoutesAssumption DEF Partners
  <2>3. /\ UnderWay(t, HOST_ID, first) \subseteq {"REQ"}
        /\ Request(t) \in keyboard => Untouched(t, first) /\ UnderWay(t, HOST_ID, first) = {}
        /\ \A b \in Way(t) : "REQ" \in UnderWay(t, Before(t, b), b) => Untouched(t, b)
    BY <2>1 DEF CommitInv, TrainOK, RequestOK
  <2>4. UnderWay(t, HOST_ID, first)' \subseteq UnderWay(t, HOST_ID, first) BY <2>2
  <2>5. ASSUME NEW b \in Way(t), NEW a, a = Before(t, b), "REQ" \in UnderWay(t, a, b)'
        PROVE  Untouched(t, b)'
    <3>1. a \in Partners(t, b) BY <2>5, WayFacts, RoutesAssumption DEF Partners
    <3>2. "REQ" \in UnderWay(t, a, b) BY <2>5, <3>1
    <3> QED BY <1>4, <2>3, <2>5, <3>2
  <2>6. Request(t) \in keyboard' => Untouched(t, first)' /\ UnderWay(t, HOST_ID, first)' = {}
    BY <1>4, <2>2, <2>3, <2>4
  <2>7. first = nodes_list[RouteOf(t)'][1] BY <1>1, <2>1
  <2> QED BY <1>1, <2>3, <2>4, <2>5, <2>6, <2>7 DEF RequestOK
<1> QED BY <1>1, <1>3, <1>5 DEF TrainOK

\* The first element of its route hears from the host PC.
LEMMA FirstFacts ==
  ASSUME CommitInv, NEW t \in Asking, NEW first, first = nodes_list[RouteOf(t)][1]
  PROVE  /\ first \in Way(t) /\ first \in Node /\ Before(t, first) = HOST_ID
         /\ HOST_ID \in Partners(t, first)
         /\ Onwards(first, RouteOf(t)) = Way(t)
         /\ UnderWay(t, HOST_ID, first) \subseteq {"REQ"}
         /\ Request(t) \in keyboard => Untouched(t, first) /\ UnderWay(t, HOST_ID, first) = {}
         /\ \A b \in Way(t) : "REQ" \in UnderWay(t, Before(t, b), b) => Untouched(t, b)
<1>1. RouteOf(t) \in Route BY TrainFacts
<1>2. first \in Way(t) BY <1>1, PlaceOf, Beside DEF Way
<1>3. Before(t, first) = HOST_ID /\ first \in Node BY <1>2, WayFacts
<1>4. HOST_ID \in Partners(t, first) BY <1>3, RoutesAssumption DEF Partners
<1>5. Onwards(first, RouteOf(t)) = Way(t) BY <1>1, <1>2, OnwardsFacts DEF Way
<1> QED BY <1>2, <1>3, <1>4, <1>5 DEF CommitInv, TrainOK, RequestOK

\* A step at an element that is not free for the train: its two pairs are to
\* be shown, the others are as they were.
LEMMA TrainStep ==
  ASSUME CommitInv, NEW t \in Asking, NEW n \in Way(t), setting' = setting, keyboard' \subseteq keyboard,
         StatusFor(t, n) # "NOT_RESERVED",
         \A m \in Way(t) \ {n} :
           StatusFor(t, m)' = StatusFor(t, m) /\ control_pc'[m] = control_pc[m] /\ button'[m] = button[m],
         \A b \in Way(t) : \A a \in Partners(t, b) :
           /\ Alone(t, a, b)'
           /\ n \notin {a, b} => UnderWay(t, a, b)' = UnderWay(t, a, b)
           /\ "REQ" \in UnderWay(t, a, b)' => "REQ" \in UnderWay(t, a, b)
           /\ a = HOST_ID => UnderWay(t, a, b)' \subseteq UnderWay(t, a, b),
         \A b \in Way(t) : b = After(t, n) => EdgeOK(t, n, b)',
         \A a \in Way(t) : n = After(t, a) => EdgeOK(t, a, n)'
  PROVE  TrainOK(t)'
<1>1. /\ Asking' = Asking /\ Request(t)' = Request(t) /\ RouteOf(t)' = RouteOf(t) /\ Way(t)' = Way(t)
      /\ \A m : /\ Before(t, m)' = Before(t, m) /\ After(t, m)' = After(t, m)
                /\ Partners(t, m)' = Partners(t, m)
  BY ScriptKept
<1>2. ASSUME NEW a \in Way(t), NEW b, b = After(t, a), b # TAIL_ID, n \notin {a, b}
      PROVE  /\ UnderWay(t, a, b)' = UnderWay(t, a, b) /\ UnderWay(t, b, a)' = UnderWay(t, b, a)
             /\ EdgeOK(t, a, b)'
  <2>1. b \in Way(t) /\ a \in Partners(t, b) /\ b \in Partners(t, a) /\ EdgeOK(t, a, b)
    BY <1>2, EdgePartners
  <2>2. UnderWay(t, a, b)' = UnderWay(t, a, b) /\ UnderWay(t, b, a)' = UnderWay(t, b, a)
    BY <1>2, <2>1
  <2>3. /\ StatusFor(t, a)' = StatusFor(t, a) /\ control_pc'[a] = control_pc[a] /\ button'[a] = button[a]
        /\ StatusFor(t, b)' = StatusFor(t, b) /\ button'[b] = button[b]
    BY <1>2, <2>1
  <2> QED BY <2>1, <2>2, <2>3 DEF EdgeOK
<1>3. ASSUME NEW a \in Way(t), NEW b, b = After(t, a), b # TAIL_ID PROVE EdgeOK(t, a, b)'
  BY <1>2, <1>3, EdgePartners
<1>4. ASSUME NEW m \in Way(t), Untouched(t, m) PROVE Untouched(t, m)'
  <2>1. RouteOf(t) \in Route /\ m \in Elements(RouteOf(t)) BY TrainFacts DEF Way
  <2>2. Onwards(m, RouteOf(t)) \subseteq Way(t) BY <2>1, OnwardsFacts DEF Way
  <2>3. n \notin Onwards(m, RouteOf(t)) BY <1>4 DEF Untouched
  <2> SUFFICES ASSUME NEW a \in Onwards(m, RouteOf(t)), NEW b, b = After(t, a)
               PROVE  /\ StatusFor(t, a)' = "NOT_RESERVED"
                      /\ b # TAIL_ID => UnderWay(t, a, b)' = {} /\ UnderWay(t, b, a)' = {}
    BY <1>1 DEF Untouched
  <2>4. a # n /\ StatusFor(t, a)' = "NOT_RESERVED" BY <1>4, <2>2, <2>3 DEF Untouched
  <2>5. b # TAIL_ID => b \in Onwards(m, RouteOf(t)) BY <2>1, OnwardsFacts DEF After
  <2> QED BY <1>2, <1>4, <2>2, <2>3, <2>4, <2>5 DEF Untouched
<1>5. RequestOK(t)'
  <2>1. PICK first : first = nodes_list[RouteOf(t)][1] OBVIOUS
  <2>2. /\ first \in Way(t) /\ HOST_ID \in Partners(t, first)
        /\ Onwards(first, RouteOf(t)) = Way(t)
        /\ UnderWay(t, HOST_ID, first) \subseteq {"REQ"}
        /\ Request(t) \in keyboard => Untouched(t, first)
        /\ \A b \in Way(t) : "REQ" \in UnderWay(t, Before(t, b), b) => Untouched(t, b)
    BY <2>1, FirstFacts
  <2>3. Request(t) \notin keyboard' BY <2>2 DEF Untouched
  <2>4. UnderWay(t, HOST_ID, first)' \subseteq {"REQ"} BY <2>2
  <2>5. ASSUME NEW b \in Way(t), NEW a, a = Before(t, b), "REQ" \in UnderWay(t, a, b)'
        PROVE  Untouched(t, b)'
    <3>1. a \in Partners(t, b) BY <2>5, WayFacts, RoutesAssumption DEF Partners
    <3> QED BY <1>4, <2>2, <2>5, <3>1
  <2>6. first = nodes_list[RouteOf(t)'][1] BY <1>1, <2>1
  <2> QED BY <1>1, <2>3, <2>4, <2>5, <2>6 DEF RequestOK
<1> QED BY <1>1, <1>3, <1>5 DEF TrainOK

\* The REQ reaches n: it is on its way to the next element, or n answers it.
LEMMA TrainAsks ==
  ASSUME CommitInv, NEW t \in Asking, NEW n \in Way(t), setting' = setting, keyboard' \subseteq keyboard,
         StatusFor(t, n) = "NOT_RESERVED", NEW p, p = Before(t, n), NEW q, q = After(t, n),
         UnderWay(t, p, n) = {"REQ"}, UnderWay(t, p, n)' = {},
         \A m \in Way(t) \ {n} :
           StatusFor(t, m)' = StatusFor(t, m) /\ control_pc'[m] = control_pc[m] /\ button'[m] = button[m],
         \A b \in Way(t) : \A a \in Partners(t, b) :
           /\ Alone(t, a, b)'
           /\ n \notin {a, b} => UnderWay(t, a, b)' = UnderWay(t, a, b),
         q # TAIL_ID => EdgeOK(t, n, q)',
         p # HOST_ID => EdgeOK(t, p, n)'
  PROVE  TrainOK(t)'
<1>1. /\ Asking' = Asking /\ Request(t)' = Request(t) /\ RouteOf(t)' = RouteOf(t) /\ Way(t)' = Way(t)
      /\ \A m : /\ Before(t, m)' = Before(t, m) /\ After(t, m)' = After(t, m)
                /\ Partners(t, m)' = Partners(t, m)
  BY ScriptKept
<1>2. ASSUME NEW a \in Way(t), NEW b, b = After(t, a), b # TAIL_ID, n \notin {a, b}
      PROVE  /\ UnderWay(t, a, b)' = UnderWay(t, a, b) /\ UnderWay(t, b, a)' = UnderWay(t, b, a)
             /\ EdgeOK(t, a, b)'
  <2>1. b \in Way(t) /\ a \in Partners(t, b) /\ b \in Partners(t, a) /\ EdgeOK(t, a, b)
    BY <1>2, EdgePartners
  <2>2. UnderWay(t, a, b)' = UnderWay(t, a, b) /\ UnderWay(t, b, a)' = UnderWay(t, b, a)
    BY <1>2, <2>1
  <2>3. /\ StatusFor(t, a)' = StatusFor(t, a) /\ control_pc'[a] = control_pc[a] /\ button'[a] = button[a]
        /\ StatusFor(t, b)' = StatusFor(t, b) /\ button'[b] = button[b]
    BY <1>2, <2>1
  <2> QED BY <2>1, <2>2, <2>3 DEF EdgeOK
<1>3. ASSUME NEW a \in Way(t), NEW b, b = After(t, a), b # TAIL_ID PROVE EdgeOK(t, a, b)'
  <2>1. CASE n = a BY <1>3, <2>1
  <2>2. CASE n = b
    <3>1. a = p BY <1>3, <2>2, EdgePartners
    <3>2. p # HOST_ID BY <3>1, WayFacts
    <3> QED BY <2>2, <3>1, <3>2
  <2> QED BY <1>2, <1>3, <2>1, <2>2
<1>4. PICK first : first = nodes_list[RouteOf(t)][1] OBVIOUS
<1>5. /\ first \in Way(t) /\ HOST_ID \in Partners(t, first) /\ Before(t, first) = HOST_ID
      /\ Onwards(first, RouteOf(t)) = Way(t)
      /\ UnderWay(t, HOST_ID, first) \subseteq {"REQ"}
      /\ Request(t) \in keyboard => Untouched(t, first) /\ UnderWay(t, HOST_ID, first) = {}
      /\ \A b \in Way(t) : "REQ" \in UnderWay(t, Before(t, b), b) => Untouched(t, b)
  BY <1>4, FirstFacts
<1>6. RouteOf(t) \in Route /\ Way(t) = Elements(RouteOf(t)) BY TrainFacts DEF Way
<1>7. Untouched(t, n) BY <1>5
<1>8. p \in Partners(t, n) BY WayFacts, RoutesAssumption DEF Partners
\* Until now nothing was under way between the elements behind n and n.
<1>9. ASSUME NEW m \in Way(t), m # n, Untouched(t, m) PROVE m \in Onwards(n, RouteOf(t))
  <2> SUFFICES ASSUME n \in Onwards(m, RouteOf(t)) PROVE FALSE
    BY <1>6, OnwardsFacts
  <2>1. p \in Onwards(m, RouteOf(t)) BY <1>6, <1>9, OnwardsFacts DEF Before
  <2>2. p \in Way(t) BY <1>6, <1>9, <2>1, OnwardsFacts
  <2>3. After(t, p) = n /\ n # TAIL_ID BY <2>2, WayFacts, RoutesAssumption
  <2>4. UnderWay(t, p, n) = {} BY <1>9, <2>1, <2>3 DEF Untouched
  <2> QED BY <2>4
<1>10. UnderWay(t, HOST_ID, first)' \subseteq UnderWay(t, HOST_ID, first)
  <2>1. CASE first = n BY <1>5, <2>1
  <2>2. CASE first # n
    <3>1. n # HOST_ID BY WayFacts
    <3> QED BY <1>5, <2>2, <3>1
  <2> QED BY <2>1, <2>2
<1>11. Request(t) \notin keyboard'
  <2> SUFFICES ASSUME Request(t) \in keyboard PROVE FALSE OBVIOUS
  <2>1. Untouched(t, first) /\ UnderWay(t, HOST_ID, first) = {} BY <1>5
  <2>2. first # n BY <1>5, <2>1
  <2>3. first \in Onwards(n, RouteOf(t)) BY <1>5, <1>9, <2>1, <2>2
  <2>4. n \in Onwards(first, RouteOf(t)) BY <1>5
  <2>5. p \in Onwards(n, RouteOf(t))
    <3>1. p \in Way(t) BY <1>6, <2>2, <2>4, <1>4, <1>5, WayFacts
    <3>2. After(t, p) = n BY <3>1, WayFacts
    <3>3. UnderWay(t, p, n) = {} BY <1>5, <2>1, <3>1, <3>2, WayFacts DEF Untouched
    <3> QED BY <3>3
  <2> QED BY <1>6, <2>5, OnwardsFacts DEF Before
<1>12. ASSUME NEW b \in Way(t), NEW a, a = Before(t, b), "REQ" \in UnderWay(t, a, b)'
       PROVE  Untouched(t, b)'
  <2>1. b # n BY <1>12
  <2>2. a \in Partners(t, b) BY <1>12, WayFacts, RoutesAssumption DEF Partners
  <2>3. b = q
    <3> SUFFICES ASSUME b # q PROVE FALSE OBVIOUS
    <3>1. a # n BY <1>12, WayFacts
    <3>2. "REQ" \in UnderWay(t, a, b) BY <1>12, <2>1, <2>2, <3>1
    <3>3. b \in Onwards(n, RouteOf(t)) BY <1>5, <1>9, <1>12, <2>1, <3>2
    <3>4. a \in Onwards(n, RouteOf(t)) BY <1>6, <1>12, <2>1, <3>3, OnwardsFacts DEF Before
    <3>5. a \in Way(t) /\ After(t, a) = b /\ b # TAIL_ID
      BY <1>6, <1>12, <3>4, OnwardsFacts, WayFacts, RoutesAssumption
    <3>6. UnderWay(t, a, b) = {} BY <1>7, <3>4, <3>5 DEF Untouched
    <3> QED BY <3>2, <3>6
  <2>4. q # TAIL_ID BY <2>3, WayFacts
  <2>5. /\ Onwards(q, RouteOf(t)) \subseteq Onwards(n, RouteOf(t)) \ {n}
        /\ Onwards(q, RouteOf(t)) \subseteq Way(t)
    BY <1>6, <2>3, <2>4, OnwardsFacts DEF After
  <2> SUFFICES ASSUME NEW c \in Onwards(q, RouteOf(t)), NEW d, d = After(t, c)
               PROVE  /\ StatusFor(t, c)' = "NOT_RESERVED"
                      /\ d # TAIL_ID => UnderWay(t, c, d)' = {} /\ UnderWay(t, d, c)' = {}
    BY <1>1, <2>3 DEF Untouched
  <2>6. c \in Way(t) /\ c # n /\ c \in Onwards(n, RouteOf(t)) BY <2>5
  <2>7. d # TAIL_ID => d \in Onwards(q, RouteOf(t)) BY <1>6, <2>3, OnwardsFacts DEF After
  <2>8. d # n BY <2>5, <2>7, WayFacts
  <2> QED BY <1>2, <1>7, <2>6, <2>8 DEF Untouched
<1>13. RequestOK(t)'
  <2>1. first = nodes_list[RouteOf(t)'][1] BY <1>1, <1>4
  <2>2. UnderWay(t, HOST_ID, first)' \subseteq {"REQ"} BY <1>5, <1>10
  <2> QED BY <1>1, <1>11, <1>12, <2>1, <2>2 DEF RequestOK
<1> QED BY <1>1, <1>3, <1>13 DEF TrainOK

-----------------------------------------------------------------------------
(* What a node receives, and what is left in its queue.                    *)

\* The status of an element to the train it serves, or to another.
LEMMA StatusFacts ==
  ASSUME CommitInv, NEW n \in Node, NEW t \in Asking
  PROVE  /\ CURRENT_HOST[n] = t => StatusFor(t, n) = NODE_STATUS[n]
         /\ CURRENT_HOST[n] # t => StatusFor(t, n) = "NOT_RESERVED"
         /\ StatusFor(t, n) # "NOT_RESERVED" =>
              /\ CURRENT_HOST[n] = t /\ n \in Way(t) /\ current_route[n] = RouteOf(t)
              /\ StatusFor(t, n) = NODE_STATUS[n]
         /\ CURRENT_HOST[n] = NO_HOST => NODE_STATUS[n] = "NOT_RESERVED"
         /\ Awaits(n) \in BOOLEAN /\ button[n] \in BOOLEAN
<1>1. ElementOK(n) /\ Inv BY DEF CommitInv
<1>2. t \in Train /\ NO_HOST \notin Asking BY TrainFacts, InterlockingAssumption
<1> QED BY <1>1, <1>2 DEF ElementOK, StatusFor, Awaits, Inv, TypeOK

\* What is under way between two partners, and the pair.
LEMMA PairFacts ==
  ASSUME CommitInv, NEW t \in Asking, NEW a \in Way(t), NEW b \in Way(t), b = After(t, a)
  PROVE  /\ a \in Node /\ b \in Node /\ a # b /\ Before(t, b) = a
         /\ a \in Partners(t, b) /\ b \in Partners(t, a)
         /\ Awaits(a) \in BOOLEAN /\ button[a] \in BOOLEAN /\ button[b] \in BOOLEAN
         /\ PairOK(StatusFor(t, a), StatusFor(t, b), UnderWay(t, a, b), UnderWay(t, b, a),
                   control_pc[a], button[a], button[b])
<1>1. b # TAIL_ID BY WayFacts
<1>2. a \in Node /\ b \in Node /\ a # b BY <1>1, EdgePartners
<1> QED BY <1>1, <1>2, EdgePartners, StatusFacts DEF EdgeOK

\* What is in the queue of a control task is what is expected there.
LEMMA Arrived ==
  ASSUME CommitInv, NEW n \in Node, NEW i \in DOMAIN IN_CONTROL_QUEUE[n], NEW m,
         m = IN_CONTROL_QUEUE[n][i], NEW t, t = CURRENT_HOST[n]
  PROVE  /\ m \in tpcp_msg /\ m.host_id = t /\ t \in Asking /\ n \in Way(t)
         /\ m.route_id = RouteOf(t) /\ m.sender_id \in Partners(t, n)
         /\ m.command \in UnderWay(t, m.sender_id, n)
<1>1. IN_CONTROL_QUEUE[n] \in Seq(tpcp_msg) BY DEF CommitInv, Inv, TypeOK
<1>2. m \in tpcp_msg BY <1>1
<1>3. IncomingOK(n, m) BY DEF CommitInv, MessagesOK
<1>4. m \in Coming(t, m.sender_id) BY <1>2, <1>3 DEF Coming, IncomingOK
<1>5. m.command \in Said(IN_CONTROL_QUEUE[n], Coming(t, m.sender_id)) BY <1>4 DEF Said
<1> QED BY <1>2, <1>3, <1>5 DEF IncomingOK, UnderWay, Between

\* A partner of n is the one before it, maybe the host PC, or the one after it.
LEMMA PartnerCases ==
  ASSUME CommitInv, NEW t \in Asking, NEW n \in Way(t), NEW a \in Partners(t, n)
  PROVE  \/ a = HOST_ID /\ a = Before(t, n) /\ n = nodes_list[RouteOf(t)][1]
         \/ a \in Way(t) /\ a = Before(t, n) /\ n = After(t, a)
         \/ a \in Way(t) /\ a = After(t, n)
BY WayFacts DEF Partners

\* What n may find on its way from a partner, by its status.
LEMMA Underway ==
  ASSUME CommitInv, NEW t \in Asking, NEW n \in Way(t), NEW a \in Partners(t, n),
         UnderWay(t, a, n) # {}
  PROVE  \/ /\ a = Before(t, n) /\ UnderWay(t, a, n) = {"REQ"} /\ StatusFor(t, n) = "NOT_RESERVED"
            /\ Untouched(t, n)
            /\ a # HOST_ID => StatusFor(t, a) = "WAIT_ACK"
         \/ /\ a = Before(t, n) /\ a \in Way(t) /\ n = After(t, a)
            /\ \/ UnderWay(t, a, n) = {"COMMIT"} /\ StatusFor(t, n) = "WAIT_COMMIT"
               \/ UnderWay(t, a, n) = {"NOT_OK"} /\ StatusFor(t, n) = "RESERVED"
         \/ /\ a = After(t, n) /\ a \in Way(t) /\ ~(StatusFor(t, n) = "WAIT_AGREE" /\ Awaits(n))
            /\ \/ UnderWay(t, a, n) = {"ACK"} /\ StatusFor(t, n) = "WAIT_ACK"
               \/ UnderWay(t, a, n) = {"AGREE"} /\ StatusFor(t, n) = "WAIT_AGREE"
               \/ UnderWay(t, a, n) = {"NOT_OK"} /\ StatusFor(t, n) \in {"WAIT_ACK", "WAIT_AGREE"}
<1>1. CASE a = HOST_ID /\ a = Before(t, n) /\ n = nodes_list[RouteOf(t)][1]
  <2>1. UnderWay(t, a, n) = {"REQ"} /\ Untouched(t, n) BY <1>1, FirstFacts
  <2>2. StatusFor(t, n) = "NOT_RESERVED" BY <1>1, <2>1, FirstFacts DEF Untouched
  <2> QED BY <1>1, <2>1, <2>2
<1>2. CASE a \in Way(t) /\ a = Before(t, n) /\ n = After(t, a)
  <2> DEFINE sa == StatusFor(t, a)
             sb == StatusFor(t, n)
             f == UnderWay(t, a, n)
             g == UnderWay(t, n, a)
  <2>1. PairOK(sa, sb, f, g, control_pc[a], button[a], button[n])
    BY <1>2, PairFacts
  <2>2. "REQ" \in f => Untouched(t, n) BY <1>2, FirstFacts
  <2>3. f # {} OBVIOUS
  <2> HIDE DEF sa, sb, f, g
  <2>4. \/ f = {"REQ"} /\ sb = "NOT_RESERVED" /\ sa = "WAIT_ACK"
        \/ f = {"COMMIT"} /\ sb = "WAIT_COMMIT"
        \/ f = {"NOT_OK"} /\ sb = "RESERVED"
    BY <2>1, <2>3, PairMessages
  <2> QED BY <1>2, <2>2, <2>4 DEF sa, sb, f
<1>3. CASE a \in Way(t) /\ a = After(t, n)
  <2> DEFINE sa == StatusFor(t, n)
             sb == StatusFor(t, a)
             f == UnderWay(t, n, a)
             g == UnderWay(t, a, n)
  <2>1. PairOK(sa, sb, f, g, control_pc[n], button[n], button[a])
    BY <1>3, PairFacts
  <2>3. g # {} OBVIOUS
  <2> HIDE DEF sa, sb, f, g
  <2>4. /\ \/ g = {"ACK"} /\ sa = "WAIT_ACK"
           \/ g = {"AGREE"} /\ sa = "WAIT_AGREE"
           \/ g = {"NOT_OK"} /\ (sa = "WAIT_ACK" \/ sa = "WAIT_AGREE")
        /\ ~(sa = "WAIT_AGREE" /\ control_pc[n] \in Waiting)
    BY <2>1, <2>3, PairMessages
  <2> QED BY <1>3, <2>1, <2>4 DEF sa, g, Awaits
<1> QED BY <1>1, <1>2, <1>3, PartnerCases

\* The message a control task receives.
LEMMA Expects ==
  ASSUME CommitInv, NEW n \in Node, IN_CONTROL_QUEUE[n] # << >>,
         NEW m, m = Received(n), NEW t, t = CURRENT_HOST[n], NEW a, a = m.sender_id
  PROVE  /\ m \in tpcp_msg /\ m.host_id = t /\ t \in Asking /\ n \in Way(t)
         /\ m.route_id = RouteOf(t) /\ RouteOf(t) \in node_routes(n)
         /\ a \in Partners(t, n) /\ UnderWay(t, a, n) = {m.command}
         /\ StatusFor(t, n) = NODE_STATUS[n]
         /\ NODE_STATUS[n] # "NOT_RESERVED" => current_route[n] = RouteOf(t)
<1>1. IN_CONTROL_QUEUE[n] \in Seq(tpcp_msg) BY DEF CommitInv, Inv, TypeOK
<1>2. 1 \in DOMAIN IN_CONTROL_QUEUE[n] /\ m = IN_CONTROL_QUEUE[n][1] BY <1>1 DEF Received
<1>3. /\ m \in tpcp_msg /\ m.host_id = t /\ t \in Asking /\ n \in Way(t)
      /\ m.route_id = RouteOf(t) /\ a \in Partners(t, n) /\ m.command \in UnderWay(t, a, n)
  BY <1>2, Arrived
<1>4. RouteOf(t) \in node_routes(n) BY <1>3, TrainFacts DEF Way, node_routes
<1>5. UnderWay(t, a, n) = {m.command} BY <1>3, Underway
<1> QED BY <1>3, <1>4, <1>5, StatusFacts

\* An element that is free, or is left free, has only one message to handle.
LEMMA OneAtATime ==
  ASSUME CommitInv, NEW t \in Asking, NEW n \in Way(t), StatusFor(t, n) # "NOT_RESERVED",
         NEW a \in Partners(t, n), NEW b \in Partners(t, n),
         UnderWay(t, a, n) # {}, UnderWay(t, b, n) # {}
  PROVE  a = b
<1>1. ASSUME NEW c \in Partners(t, n), UnderWay(t, c, n) # {}, c = Before(t, n),
             NEW d \in Partners(t, n), UnderWay(t, d, n) # {}, d = After(t, n)
      PROVE  FALSE
  <2>1. c # d BY <1>1, WayFacts
  <2>2. \/ UnderWay(t, c, n) = {"COMMIT"} /\ StatusFor(t, n) = "WAIT_COMMIT"
        \/ UnderWay(t, c, n) = {"NOT_OK"} /\ StatusFor(t, n) = "RESERVED"
    BY <1>1, <2>1, Underway
  <2>3. StatusFor(t, n) \in {"WAIT_ACK", "WAIT_AGREE"} BY <1>1, <2>1, Underway
  <2> QED BY <2>2, <2>3
<1> QED BY <1>1 DEF Partners

-----------------------------------------------------------------------------
(* The effect of a step on what is under way.                              *)

\* The queues and connections have their types.
LEMMA QueueTypes ==
  ASSUME CommitInv
  PROVE  /\ \A n \in Node : IN_CONTROL_QUEUE[n] \in Seq(tpcp_msg) /\ OUT_CONTROL_QUEUE[n] \in Seq(tpcp_msg)
         /\ \A a : OutOf(a) \in Seq(tpcp_msg)
         /\ \A c \in Channel : sock[c] \in Seq(Wire)
<1>1. /\ \A n \in Node : IN_CONTROL_QUEUE[n] \in Seq(tpcp_msg) /\ OUT_CONTROL_QUEUE[n] \in Seq(tpcp_msg)
      /\ \A c \in Channel : sock[c] \in Seq(Wire)
  BY DEF CommitInv, Inv, TypeOK
<1>2. << >> \in Seq(tpcp_msg) OBVIOUS
<1> QED BY <1>1, <1>2 DEF OutOf

\* Nothing in the three places changed.
LEMMA PipeSame ==
  ASSUME CommitInv, NEW t \in Asking, NEW b \in Way(t), NEW a \in Partners(t, b),
         a \in Node => OUT_CONTROL_QUEUE'[a] = OUT_CONTROL_QUEUE[a],
         sock'[<<a, b>>] = sock[<<a, b>>], IN_CONTROL_QUEUE'[b] = IN_CONTROL_QUEUE[b]
  PROVE  UnderWay(t, a, b)' = UnderWay(t, a, b) /\ Alone(t, a, b)'
<1>1. OutOf(a)' = OutOf(a) BY DEF OutOf
<1>2. Alone(t, a, b) BY DEF CommitInv, TrainOK
<1> QED BY <1>1, <1>2 DEF UnderWay, Alone

\* The control task of n queues the messages new.
LEMMA QueueEffect ==
  ASSUME CommitInv, NEW t \in Asking, NEW b \in Way(t), NEW n \in Partners(t, b), n \in Node,
         NEW new \in Seq(tpcp_msg),
         OUT_CONTROL_QUEUE'[n] = OUT_CONTROL_QUEUE[n] \o new,
         sock'[<<n, b>>] = sock[<<n, b>>], IN_CONTROL_QUEUE'[b] = IN_CONTROL_QUEUE[b]
  PROVE  /\ UnderWay(t, n, b)' = UnderWay(t, n, b) \union Said(new, Leaving(t, b))
         /\ Once(new, Leaving(t, b)) /\ (UnderWay(t, n, b) = {} \/ Said(new, Leaving(t, b)) = {})
              => Alone(t, n, b)'
<1> DEFINE out == OutOf(n)
           wire == sock[<<n, b>>]
           in == IN_CONTROL_QUEUE[b]
<1>1. OutOf(n)' = out \o new BY DEF OutOf
<1>2. out \in Seq(tpcp_msg) BY QueueTypes
<1>3. AtMostOne(out, wire, in, t, n, b) /\ UnderWay(t, n, b) = Between(out, wire, in, t, n, b)
  BY DEF CommitInv, TrainOK, Alone, UnderWay
<1>4. /\ UnderWay(t, n, b)' = Between(out \o new, wire, in, t, n, b)
      /\ Alone(t, n, b)' = AtMostOne(out \o new, wire, in, t, n, b)
  BY <1>1 DEF UnderWay, Alone
<1> HIDE DEF out, wire, in
<1>5. /\ Between(out \o new, wire, in, t, n, b)
           = Between(out, wire, in, t, n, b) \union Said(new, Leaving(t, b))
      /\ AtMostOne(out, wire, in, t, n, b) /\ Once(new, Leaving(t, b))
           /\ (Between(out, wire, in, t, n, b) = {} \/ Said(new, Leaving(t, b)) = {})
           => AtMostOne(out \o new, wire, in, t, n, b)
  BY <1>2, Queueing
<1> QED BY <1>3, <1>4, <1>5

\* The control task of n takes the message m.
LEMMA TakeEffect ==
  ASSUME CommitInv, NEW n \in Node, IN_CONTROL_QUEUE[n] # << >>, NEW m, m = Received(n),
         NEW t \in Asking, n \in Way(t), NEW a \in Partners(t, n),
         a \in Node => OUT_CONTROL_QUEUE'[a] = OUT_CONTROL_QUEUE[a],
         sock'[<<a, n>>] = sock[<<a, n>>],
         IN_CONTROL_QUEUE'[n] = Tail(IN_CONTROL_QUEUE[n])
  PROVE  /\ Alone(t, a, n)'
         /\ m.host_id = t /\ m.sender_id = a => UnderWay(t, a, n)' = {}
         /\ ~(m.host_id = t /\ m.sender_id = a) => UnderWay(t, a, n)' = UnderWay(t, a, n)
<1>1. OutOf(a)' = OutOf(a) BY DEF OutOf
<1>2. IN_CONTROL_QUEUE[n] \in Seq(tpcp_msg) BY QueueTypes
<1>3. Alone(t, a, n) BY DEF CommitInv, TrainOK
<1>4. /\ AtMostOne(OutOf(a), sock[<<a, n>>], Tail(IN_CONTROL_QUEUE[n]), t, a, n)
      /\ m.host_id = t /\ m.sender_id = a =>
           Between(OutOf(a), sock[<<a, n>>], Tail(IN_CONTROL_QUEUE[n]), t, a, n) = {}
      /\ ~(m.host_id = t /\ m.sender_id = a) =>
           Between(OutOf(a), sock[<<a, n>>], Tail(IN_CONTROL_QUEUE[n]), t, a, n) = UnderWay(t, a, n)
  BY <1>2, <1>3, Taking DEF UnderWay, Alone, Received
<1> QED BY <1>1, <1>4 DEF UnderWay, Alone

\* Messages of t say nothing about another train, and nothing to whom they are
\* not for.
LEMMA SaidNothing ==
  ASSUME NEW t, NEW b, NEW new, \A i \in DOMAIN new : new[i].host_id # t \/ new[i].recevier_id # b
  PROVE  Said(new, Leaving(t, b)) = {} /\ Once(new, Leaving(t, b))
BY DEF Said, Once, Leaving

-----------------------------------------------------------------------------
(* A step of the control task or of the switch of n, which serves train t. *)

\* It takes a message that came from s, or none (then s is n itself), queues
\* the messages new, and leaves n in a status and at a place of its loop.
ControlStep(n, s, new, status, pc) ==
  /\ \/ /\ IN_CONTROL_QUEUE[n] # << >> /\ s = Received(n).sender_id
        /\ IN_CONTROL_QUEUE' = [IN_CONTROL_QUEUE EXCEPT ![n] = Tail(@)]
     \/ s = n /\ IN_CONTROL_QUEUE' = IN_CONTROL_QUEUE
  /\ OUT_CONTROL_QUEUE' = [OUT_CONTROL_QUEUE EXCEPT ![n] = @ \o new]
  /\ NODE_STATUS' = [NODE_STATUS EXCEPT ![n] = status]
  /\ control_pc' = [control_pc EXCEPT ![n] = pc]
  /\ \/ CURRENT_HOST' = CURRENT_HOST
     \/ /\ CURRENT_HOST' = [CURRENT_HOST EXCEPT ![n] = NO_HOST]
        /\ status = "NOT_RESERVED" /\ IN_CONTROL_QUEUE'[n] = << >>
  /\ \A k \in Node \ {n} :
       current_route'[k] = current_route[k] /\ in_msg'[k] = in_msg[k] /\ railswitch'[k] = railswitch[k]
  /\ UNCHANGED <<sock, setting, button, keyboard>>

\* The messages it queues are of t, for the partners of n, at most one each.
ForPartners(n, t, new) ==
  /\ new \in Seq(tpcp_msg)
  /\ \A i \in DOMAIN new :
       /\ new[i].host_id = t /\ new[i].route_id = RouteOf(t)
       /\ new[i].recevier_id \in Partners(t, n)
  /\ \A b \in Way(t) : Once(new, Leaving(t, b))

\* What is under way after such a step.
LEMMA HandlingEffect ==
  ASSUME CommitInv, NEW n \in Node, NEW t \in Asking, t = CURRENT_HOST[n],
         NEW s, NEW new, NEW status, NEW pc,
         ControlStep(n, s, new, status, pc), ForPartners(n, t, new),
         NEW u \in Asking, NEW b \in Way(u), NEW a \in Partners(u, b)
  PROVE  /\ u # t \/ n \notin {a, b} => UnderWay(u, a, b)' = UnderWay(u, a, b) /\ Alone(u, a, b)'
         /\ u = t /\ b = n /\ a = s => UnderWay(u, a, b)' = {} /\ Alone(u, a, b)'
         /\ u = t /\ b = n /\ a # s => UnderWay(u, a, b)' = UnderWay(u, a, b) /\ Alone(u, a, b)'
         /\ u = t /\ a = n =>
              /\ UnderWay(u, a, b)' = UnderWay(u, a, b) \union Said(new, Leaving(u, b))
              /\ UnderWay(u, a, b) = {} \/ Said(new, Leaving(u, b)) = {} => Alone(u, a, b)'
<1>1. /\ b \in Node /\ a # b /\ a \in Node \union {HOST_ID} BY PartnerFacts
<1>2. IN_CONTROL_QUEUE[n] # << >> => Received(n).host_id = t BY Expects
<1>3. /\ \/ /\ IN_CONTROL_QUEUE'[n] = Tail(IN_CONTROL_QUEUE[n])
            /\ s = Received(n).sender_id /\ IN_CONTROL_QUEUE[n] # << >>
         \/ IN_CONTROL_QUEUE'[n] = IN_CONTROL_QUEUE[n] /\ s = n
      /\ OUT_CONTROL_QUEUE'[n] = OUT_CONTROL_QUEUE[n] \o new
      /\ \A k \in Node \ {n} : /\ IN_CONTROL_QUEUE'[k] = IN_CONTROL_QUEUE[k]
                               /\ OUT_CONTROL_QUEUE'[k] = OUT_CONTROL_QUEUE[k]
      /\ sock' = sock
  BY DEF ControlStep, CommitInv, Inv, TypeOK
<1>4. CASE b = n
  <2>1. CASE IN_CONTROL_QUEUE'[n] = IN_CONTROL_QUEUE[n] /\ s = n
    <3>1. UnderWay(u, a, b)' = UnderWay(u, a, b) /\ Alone(u, a, b)'
      BY <1>1, <1>3, <1>4, <2>1, PipeSame
    <3> QED BY <1>1, <1>4, <2>1, <3>1
  <2>2. CASE /\ IN_CONTROL_QUEUE'[n] = Tail(IN_CONTROL_QUEUE[n])
             /\ s = Received(n).sender_id /\ IN_CONTROL_QUEUE[n] # << >>
    <3>1. /\ Alone(u, a, b)'
          /\ t = u /\ s = a => UnderWay(u, a, b)' = {}
          /\ ~(t = u /\ s = a) => UnderWay(u, a, b)' = UnderWay(u, a, b)
      BY <1>1, <1>2, <1>3, <1>4, <2>2, TakeEffect
    <3> QED BY <1>1, <1>4, <3>1
  <2> QED BY <1>3, <2>1, <2>2
<1>5. CASE a = n
  <2>1. /\ UnderWay(u, a, b)' = UnderWay(u, a, b) \union Said(new, Leaving(u, b))
        /\ Once(new, Leaving(u, b)) /\ (UnderWay(u, a, b) = {} \/ Said(new, Leaving(u, b)) = {})
             => Alone(u, a, b)'
    <3>1. new \in Seq(tpcp_msg) BY DEF ForPartners
    <3>2. a \in Node /\ OUT_CONTROL_QUEUE'[a] = OUT_CONTROL_QUEUE[a] \o new BY <1>3, <1>5
    <3>3. sock'[<<a, b>>] = sock[<<a, b>>] BY <1>3
    <3>4. IN_CONTROL_QUEUE'[b] = IN_CONTROL_QUEUE[b] BY <1>1, <1>3, <1>5
    <3>5. UnderWay(u, a, b)' = UnderWay(u, a, b) \union Said(new, Leaving(u, b))
      BY <3>1, <3>2, <3>3, <3>4, QueueEffect
    <3>6. Once(new, Leaving(u, b)) /\ (UnderWay(u, a, b) = {} \/ Said(new, Leaving(u, b)) = {})
             => Alone(u, a, b)'
      BY <3>1, <3>2, <3>3, <3>4, QueueEffect
    <3> QED BY <3>5, <3>6
  <2>2. u # t => Said(new, Leaving(u, b)) = {} /\ Once(new, Leaving(u, b))
    BY SaidNothing DEF ForPartners
  <2>3. u = t => Once(new, Leaving(u, b)) BY DEF ForPartners
  <2> QED BY <1>1, <1>5, <2>1, <2>2, <2>3
<1>6. CASE n \notin {a, b}
  <2>1. UnderWay(u, a, b)' = UnderWay(u, a, b) /\ Alone(u, a, b)' BY <1>1, <1>3, <1>6, PipeSame
  <2> QED BY <1>6, <2>1
<1> QED BY <1>4, <1>5, <1>6

\* Everything but n and its train is as it was, and every message in place.
LEMMA StepElsewhere ==
  ASSUME CommitInv, NEW n \in Node, NEW t \in Asking, t = CURRENT_HOST[n], n \in Way(t),
         NEW s, NEW new, NEW status, NEW pc,
         ControlStep(n, s, new, status, pc), ForPartners(n, t, new)
  PROVE  /\ Scripted' /\ MessagesOK'
         /\ \A k \in Node \ {n} : ElementOK(k)'
         /\ \A u \in Asking \ {t} : TrainOK(u)'
         /\ \A u \in Asking, k \in Node : u # t \/ k # n => StatusFor(u, k)' = StatusFor(u, k)
         /\ StatusFor(t, n)' = status
<1>1. /\ Asking' = Asking
      /\ \A u : RouteOf(u)' = RouteOf(u) /\ Way(u)' = Way(u) /\ \A k : Partners(u, k)' = Partners(u, k)
  BY ScriptKept DEF ControlStep
<1>2. /\ \A k \in Node \ {n} :
           /\ NODE_STATUS'[k] = NODE_STATUS[k] /\ CURRENT_HOST'[k] = CURRENT_HOST[k]
           /\ control_pc'[k] = control_pc[k]
           /\ IN_CONTROL_QUEUE'[k] = IN_CONTROL_QUEUE[k] /\ OUT_CONTROL_QUEUE'[k] = OUT_CONTROL_QUEUE[k]
      /\ NODE_STATUS'[n] = status /\ control_pc'[n] = pc
      /\ \/ CURRENT_HOST'[n] = t
         \/ CURRENT_HOST'[n] = NO_HOST /\ status = "NOT_RESERVED" /\ IN_CONTROL_QUEUE'[n] = << >>
      /\ OUT_CONTROL_QUEUE'[n] = OUT_CONTROL_QUEUE[n] \o new
      /\ sock' = sock /\ setting' = setting /\ button' = button /\ keyboard' = keyboard
  BY DEF ControlStep, CommitInv, Inv, TypeOK
<1>3. NO_HOST \notin Asking
  <2>1. \A u \in Asking : u \in Train BY TrainFacts
  <2> QED BY <2>1, InterlockingAssumption
<1>4. Scripted' BY <1>2 DEF CommitInv, Scripted
<1>5. \A u \in Asking, k \in Node : u # t \/ k # n => StatusFor(u, k)' = StatusFor(u, k)
  BY <1>2, <1>3 DEF StatusFor
<1>6. StatusFor(t, n)' = status BY <1>2 DEF StatusFor
<1>7. ASSUME NEW k \in Node \ {n} PROVE ElementOK(k)'
  <2>1. ElementOK(k) BY DEF CommitInv
  <2>2. current_route'[k] = current_route[k] /\ in_msg'[k] = in_msg[k] /\ railswitch'[k] = railswitch[k]
    BY DEF ControlStep
  <2> QED BY <1>1, <1>2, <2>1, <2>2 DEF ElementOK, Awaits
<1>8. ASSUME NEW u \in Asking \ {t} PROVE TrainOK(u)'
  <2>1. \A k \in Way(u) : k \in Node BY WayFacts
  <2>2. button' \in [Node -> BOOLEAN] BY <1>2 DEF CommitInv, Inv, TypeOK
  <2>3. ASSUME NEW k \in Way(u)
        PROVE  /\ StatusFor(u, k)' = StatusFor(u, k)
               /\ StatusFor(u, k) = "NOT_RESERVED" \/ (Awaits(k)' = Awaits(k) /\ button'[k] = button[k])
    <3>1. CASE k = n BY <1>5, <2>1, <3>1, StatusFacts
    <3>2. CASE k # n BY <1>2, <1>5, <2>1, <3>2 DEF Awaits
    <3> QED BY <3>1, <3>2
  <2>4. ASSUME NEW b \in Way(u), NEW a \in Partners(u, b)
        PROVE  UnderWay(u, a, b)' = UnderWay(u, a, b) /\ Alone(u, a, b)'
    BY HandlingEffect
  <2> QED BY <1>2, <2>2, <2>3, <2>4, TrainSame
<1>9. MessagesOK'
  <2>1. ASSUME NEW k \in Node, NEW i \in DOMAIN OUT_CONTROL_QUEUE'[k],
               NEW x, x = OUT_CONTROL_QUEUE'[k][i]
        PROVE  OutgoingOK(k, x)'
    <3>1. CASE k # n
      <4>1. OutgoingOK(k, x) BY <1>2, <2>1, <3>1 DEF CommitInv, MessagesOK
      <4> QED BY <1>1, <4>1 DEF OutgoingOK
    <3>2. CASE k = n
      <4> DEFINE out == OUT_CONTROL_QUEUE[n]
      <4>1. out \in Seq(tpcp_msg) /\ new \in Seq(tpcp_msg) BY QueueTypes DEF ForPartners
      <4>2. OUT_CONTROL_QUEUE'[n] = out \o new BY <1>2
      <4> HIDE DEF out
      <4>3. (\E j \in DOMAIN out : x = out[j]) \/ (\E j \in DOMAIN new : x = new[j])
        <5>1. \A j \in DOMAIN (out \o new) :
                \/ j \in DOMAIN out /\ (out \o new)[j] = out[j]
                \/ j - Len(out) \in DOMAIN new /\ (out \o new)[j] = new[j - Len(out)]
          BY <4>1
        <5> QED BY <2>1, <3>2, <4>2, <5>1
      <4>4. x.host_id \in Asking /\ x.route_id = RouteOf(x.host_id) /\ n \in Way(x.host_id)
            /\ x.recevier_id \in Partners(x.host_id, n)
        BY <4>3 DEF CommitInv, MessagesOK, OutgoingOK, ForPartners, out
      <4> QED BY <1>1, <3>2, <4>4 DEF OutgoingOK
    <3> QED BY <3>1, <3>2
  <2>2. ASSUME NEW c \in Channel, NEW i \in DOMAIN sock'[c], NEW x, x = sock'[c][i],
               NEW a, a = c[1], NEW b, b = c[2]
        PROVE  WireOK(a, b, x)'
    <3>1. WireOK(a, b, x) BY <1>2, <2>2 DEF CommitInv, MessagesOK
    <3> QED BY <1>1, <3>1 DEF WireOK
  <2>3. ASSUME NEW k \in Node, NEW i \in DOMAIN IN_CONTROL_QUEUE'[k],
               NEW x, x = IN_CONTROL_QUEUE'[k][i]
        PROVE  IncomingOK(k, x)'
    <3>1. /\ CURRENT_HOST'[k] = CURRENT_HOST[k]
          /\ \E j \in DOMAIN IN_CONTROL_QUEUE[k] : IN_CONTROL_QUEUE'[k][i] = IN_CONTROL_QUEUE[k][j]
      <4>1. CASE k # n BY <1>2, <4>1
      <4>2. CASE k = n
        <5>1. CURRENT_HOST'[n] = CURRENT_HOST[n] BY <1>2, <4>2
        <5>2. IN_CONTROL_QUEUE[n] \in Seq(tpcp_msg) BY QueueTypes
        <5>3. \/ IN_CONTROL_QUEUE'[n] = IN_CONTROL_QUEUE[n]
              \/ IN_CONTROL_QUEUE[n] # << >> /\ IN_CONTROL_QUEUE'[n] = Tail(IN_CONTROL_QUEUE[n])
          BY DEF ControlStep, CommitInv, Inv, TypeOK
        <5>4. IN_CONTROL_QUEUE[n] # << >> =>
                \A j \in DOMAIN Tail(IN_CONTROL_QUEUE[n]) :
                  /\ j + 1 \in DOMAIN IN_CONTROL_QUEUE[n]
                  /\ Tail(IN_CONTROL_QUEUE[n])[j] = IN_CONTROL_QUEUE[n][j + 1]
          BY <5>2
        <5> QED BY <4>2, <5>1, <5>3, <5>4
      <4> QED BY <4>1, <4>2
    <3>2. PICK j \in DOMAIN IN_CONTROL_QUEUE[k] : x = IN_CONTROL_QUEUE[k][j] BY <2>3, <3>1
    <3>3. IncomingOK(k, x) BY <3>2 DEF CommitInv, MessagesOK
    <3> QED BY <1>1, <3>1, <3>3 DEF IncomingOK
  <2>4. keyboard' \subseteq setting'.commands BY <1>2 DEF CommitInv, MessagesOK
  <2> QED BY <2>1, <2>2, <2>3, <2>4 DEF MessagesOK
<1> QED BY <1>4, <1>5, <1>6, <1>7, <1>8, <1>9

\* The two pairs that n belongs to, after such a step.
PairsKept(n, t, s, new, status, pc) ==
  /\ \A b \in Way(t) : b = After(t, n) =>
       /\ UnderWay(t, n, b) = {} \/ Said(new, Leaving(t, b)) = {}
       /\ PairOK(status, StatusFor(t, b), UnderWay(t, n, b) \union Said(new, Leaving(t, b)),
                 IF b = s THEN {} ELSE UnderWay(t, b, n), pc, button[n], button[b])
  /\ \A b \in Way(t) : n = After(t, b) =>
       /\ UnderWay(t, n, b) = {} \/ Said(new, Leaving(t, b)) = {}
       /\ PairOK(StatusFor(t, b), status, IF b = s THEN {} ELSE UnderWay(t, b, n),
                 UnderWay(t, n, b) \union Said(new, Leaving(t, b)),
                 control_pc[b], button[b], button[n])

\* Such a step keeps the invariant when the two pairs that n belongs to, and n
\* itself, are shown.
LEMMA ControlKeeps ==
  ASSUME CommitInv, Inv', NEW n \in Node, NEW t \in Asking, t = CURRENT_HOST[n], n \in Way(t),
         StatusFor(t, n) # "NOT_RESERVED",
         NEW s, NEW new, NEW status, NEW pc,
         ControlStep(n, s, new, status, pc), ForPartners(n, t, new), ElementOK(n)',
         \A b : "REQ" \notin Said(new, Leaving(t, b)),
         PairsKept(n, t, s, new, status, pc)
  PROVE  CommitInv'
<1>1. /\ Scripted' /\ MessagesOK'
      /\ \A k \in Node \ {n} : ElementOK(k)'
      /\ \A u \in Asking \ {t} : TrainOK(u)'
      /\ \A k \in Node : k # n => StatusFor(t, k)' = StatusFor(t, k)
      /\ StatusFor(t, n)' = status
  BY StepElsewhere
<1>2. /\ setting' = setting /\ keyboard' = keyboard /\ button' = button
      /\ control_pc'[n] = pc /\ \A k \in Node \ {n} : control_pc'[k] = control_pc[k]
  BY DEF ControlStep, CommitInv, Inv, TypeOK
<1>3. ASSUME NEW b \in Way(t), NEW a \in Partners(t, b)
      PROVE  /\ Alone(t, a, b)'
             /\ n \notin {a, b} => UnderWay(t, a, b)' = UnderWay(t, a, b)
             /\ b = n => UnderWay(t, a, b)' = IF a = s THEN {} ELSE UnderWay(t, a, b)
             /\ a = n => UnderWay(t, a, b)' = UnderWay(t, a, b) \union Said(new, Leaving(t, b))
  <2>1. /\ n \notin {a, b} => UnderWay(t, a, b)' = UnderWay(t, a, b) /\ Alone(t, a, b)'
        /\ b = n /\ a = s => UnderWay(t, a, b)' = {} /\ Alone(t, a, b)'
        /\ b = n /\ a # s => UnderWay(t, a, b)' = UnderWay(t, a, b) /\ Alone(t, a, b)'
        /\ a = n =>
             /\ UnderWay(t, a, b)' = UnderWay(t, a, b) \union Said(new, Leaving(t, b))
             /\ UnderWay(t, a, b) = {} \/ Said(new, Leaving(t, b)) = {} => Alone(t, a, b)'
    BY HandlingEffect
  <2>2. a = n => UnderWay(t, a, b) = {} \/ Said(new, Leaving(t, b)) = {}
    <3> SUFFICES ASSUME a = n
                 PROVE  UnderWay(t, n, b) = {} \/ Said(new, Leaving(t, b)) = {}
      OBVIOUS
    <3>1. (n = Before(t, b) /\ b = After(t, n)) \/ n = After(t, b) BY PartnerCases, WayFacts
    <3> QED BY <3>1 DEF PairsKept
  <2>3. a # b BY PartnerFacts
  <2> QED BY <2>1, <2>2, <2>3
<1>4. ASSUME NEW q \in Way(t), q = After(t, n) PROVE EdgeOK(t, n, q)'
  <2>1. q \in Node /\ q # n /\ n \in Partners(t, q) /\ q \in Partners(t, n)
    BY <1>4, PairFacts
  <2>2. /\ UnderWay(t, n, q)' = UnderWay(t, n, q) \union Said(new, Leaving(t, q))
        /\ UnderWay(t, q, n)' = IF q = s THEN {} ELSE UnderWay(t, q, n)
    BY <1>3, <2>1
  <2> QED BY <1>1, <1>2, <1>4, <2>1, <2>2 DEF EdgeOK, PairsKept
<1>5. ASSUME NEW p \in Way(t), n = After(t, p) PROVE EdgeOK(t, p, n)'
  <2>1. p \in Node /\ p # n /\ n \in Partners(t, p) /\ p \in Partners(t, n)
    BY <1>5, PairFacts
  <2>2. /\ UnderWay(t, n, p)' = UnderWay(t, n, p) \union Said(new, Leaving(t, p))
        /\ UnderWay(t, p, n)' = IF p = s THEN {} ELSE UnderWay(t, p, n)
    BY <1>3, <2>1
  <2> QED BY <1>1, <1>2, <1>5, <2>1, <2>2 DEF EdgeOK, PairsKept
<1>6. ASSUME NEW b \in Way(t), NEW a \in Partners(t, b)
      PROVE  /\ Alone(t, a, b)'
             /\ n \notin {a, b} => UnderWay(t, a, b)' = UnderWay(t, a, b)
             /\ "REQ" \in UnderWay(t, a, b)' => "REQ" \in UnderWay(t, a, b)
             /\ a = HOST_ID => UnderWay(t, a, b)' \subseteq UnderWay(t, a, b)
  <2>1. n # HOST_ID BY RoutesAssumption
  <2> QED BY <1>3, <2>1
<1>7. TrainOK(t)'
  <2>1. \A m \in Way(t) \ {n} :
          StatusFor(t, m)' = StatusFor(t, m) /\ control_pc'[m] = control_pc[m] /\ button'[m] = button[m]
    BY <1>1, <1>2, WayFacts
  <2> QED BY <1>2, <1>4, <1>5, <1>6, <2>1, TrainStep
<1>8. Asking' = Asking BY <1>2, ScriptKept
<1> QED BY <1>1, <1>7, <1>8 DEF CommitInv

-----------------------------------------------------------------------------
(* What a step of the control task sends.                                  *)

\* Nothing.
LEMMA SendsNothing ==
  ASSUME CommitInv, NEW n \in Node, NEW t \in Asking
  PROVE  /\ ForPartners(n, t, << >>)
         /\ \A b : Said(<< >>, Leaving(t, b)) = {}
BY DEF ForPartners, Said, Once

\* One message to a partner.
LEMMA SendsOne ==
  ASSUME CommitInv, NEW n \in Node, NEW t \in Asking, n \in Way(t),
         NEW m \in tpcp_msg, m.host_id = t, m.route_id = RouteOf(t),
         NEW x \in Partners(t, n), NEW command \in Command, NEW new,
         new = forwardMsg(n, m, x, command)
  PROVE  /\ ForPartners(n, t, new)
         /\ \A b : Said(new, Leaving(t, b)) = IF b = x THEN {command} ELSE {}
<1> DEFINE m2 == [m EXCEPT !.command = command, !.sender_id = n, !.recevier_id = x]
<1>1. x \in Id BY PartnerFacts DEF Id
<1>2. /\ m2 \in tpcp_msg /\ m2.host_id = t /\ m2.route_id = RouteOf(t)
      /\ m2.recevier_id = x /\ m2.command = command
  BY <1>1 DEF tpcp_msg, Id
<1>3. new = <<m2>> BY DEF forwardMsg
<1> HIDE DEF m2
<1>4. \A b : m2 \in Leaving(t, b) <=> b = x BY <1>2 DEF Leaving
<1>5. new \in Seq(tpcp_msg) /\ \A i \in DOMAIN new : new[i] = m2 BY <1>2, <1>3
<1>6. \A b : /\ Once(new, Leaving(t, b))
             /\ Said(new, Leaving(t, b)) = IF m2 \in Leaving(t, b) THEN {m2.command} ELSE {}
  BY <1>3, SaidByOne
<1> QED BY <1>2, <1>4, <1>5, <1>6 DEF ForPartners

\* One message each to two partners.
LEMMA SendsTwo ==
  ASSUME CommitInv, NEW n \in Node, NEW t \in Asking, n \in Way(t),
         NEW m \in tpcp_msg, m.host_id = t, m.route_id = RouteOf(t),
         NEW x \in Partners(t, n), NEW y \in Partners(t, n), x # y,
         NEW command \in Command, NEW new,
         new = forwardMsg(n, m, x, command) \o forwardMsg(n, m, y, command)
  PROVE  /\ ForPartners(n, t, new)
         /\ \A b : Said(new, Leaving(t, b)) = IF b = x \/ b = y THEN {command} ELSE {}
<1>1. PICK e : e = forwardMsg(n, m, x, command) OBVIOUS
<1>2. PICK f : f = forwardMsg(n, m, y, command) OBVIOUS
<1>3. /\ ForPartners(n, t, e) /\ ForPartners(n, t, f)
      /\ \A b : Said(e, Leaving(t, b)) = IF b = x THEN {command} ELSE {}
      /\ \A b : Said(f, Leaving(t, b)) = IF b = y THEN {command} ELSE {}
  BY <1>1, <1>2, SendsOne
<1>4. e \in Seq(tpcp_msg) /\ f \in Seq(tpcp_msg) /\ new = e \o f
  BY <1>1, <1>2, <1>3 DEF ForPartners
<1>5. \A b : /\ Said(new, Leaving(t, b)) = Said(e, Leaving(t, b)) \union Said(f, Leaving(t, b))
             /\ Once(e, Leaving(t, b)) /\ Once(f, Leaving(t, b))
                  /\ (Said(e, Leaving(t, b)) = {} \/ Said(f, Leaving(t, b)) = {})
                  => Once(new, Leaving(t, b))
  BY <1>4, SaidConcat
<1>6. \A b \in Way(t) : Once(new, Leaving(t, b)) BY <1>3, <1>5 DEF ForPartners
<1>7. new \in Seq(tpcp_msg) BY <1>4
<1>8. ASSUME NEW i \in DOMAIN new
      PROVE  /\ new[i].host_id = t /\ new[i].route_id = RouteOf(t)
             /\ new[i].recevier_id \in Partners(t, n)
  <2>1. \/ i \in DOMAIN e /\ new[i] = e[i]
        \/ i - Len(e) \in DOMAIN f /\ new[i] = f[i - Len(e)]
    BY <1>4, <1>8
  <2> QED BY <1>3, <2>1 DEF ForPartners
<1>9. \A b : Said(new, Leaving(t, b)) = IF b = x \/ b = y THEN {command} ELSE {}
  BY <1>3, <1>5
<1> QED BY <1>6, <1>7, <1>8, <1>9 DEF ForPartners

-----------------------------------------------------------------------------
(* The steps of the control task.                                          *)

\* The element itself after a step, still engaged or free.
LEMMA ElementAfter ==
  ASSUME CommitInv, NEW n \in Node, NEW t \in Asking, n \in Way(t), NEW status, NEW pc,
         setting' = setting, NODE_STATUS'[n] = status, control_pc'[n] = pc,
         pc \in {"sensors", "message"}, status # "PING_FAIL_SAFE",
         \/ /\ CURRENT_HOST'[n] = t /\ current_route'[n] = RouteOf(t)
            /\ IsSwitch(n) /\ status \in Locked =>
                 railswitch'[n] = [last_route_id |-> RouteOf(t), in_position |-> TRUE]
         \/ CURRENT_HOST'[n] = NO_HOST /\ status = "NOT_RESERVED",
         button'[n] => status \in Locked
  PROVE  ElementOK(n)'
<1>1. Asking' = Asking /\ RouteOf(t)' = RouteOf(t) /\ Way(t)' = Way(t) BY ScriptKept
<1>2. ~Awaits(n)' BY DEF Awaits, Waiting
<1>3. CASE CURRENT_HOST'[n] = t /\ current_route'[n] = RouteOf(t)
           /\ (IsSwitch(n) /\ status \in Locked =>
                 railswitch'[n] = [last_route_id |-> RouteOf(t), in_position |-> TRUE])
  BY <1>1, <1>2, <1>3 DEF ElementOK
<1>4. CASE CURRENT_HOST'[n] = NO_HOST /\ status = "NOT_RESERVED"
  BY <1>1, <1>2, <1>4 DEF ElementOK, Locked
<1> QED BY <1>3, <1>4

\* A message is handled: what it is, and what this changes anyway.
LEMMA Handling ==
  ASSUME CommitInv, NEW n \in Node, NEW statuses, NEW command, Dispatched(n, statuses, command)
  PROVE  \E m, t, a :
           /\ m = Received(n) /\ t = CURRENT_HOST[n] /\ a = m.sender_id
           /\ IN_CONTROL_QUEUE[n] # << >> /\ control_pc[n] = "message"
           /\ m \in tpcp_msg /\ m.host_id = t /\ m.route_id = RouteOf(t) /\ m.command = command
           /\ t \in Asking /\ n \in Way(t)
           /\ a \in Partners(t, n) /\ a # n /\ UnderWay(t, a, n) = {command}
           /\ NODE_STATUS[n] \in statuses /\ StatusFor(t, n) = NODE_STATUS[n]
           /\ IN_CONTROL_QUEUE' = [IN_CONTROL_QUEUE EXCEPT ![n] = Tail(@)]
           /\ \A k \in Node \ {n} : current_route'[k] = current_route[k]
           /\ current_route'[n] = RouteOf(t)
           /\ UNCHANGED <<sensor_on_detected, sock, setting, button, keyboard>>
           /\ NODE_STATUS[n] \notin Locked => button[n] = FALSE
<1>1. NODE_STATUS[n] \notin Locked => button[n] = FALSE
  BY DEF CommitInv, ElementOK, Inv, TypeOK
<1>2. /\ current_route' = [current_route EXCEPT ![n] = Received(n).route_id]
      /\ current_route \in [Node -> Route \union {NULL}]
  BY DEF Dispatched, CommitInv, Inv, TypeOK
<1>3. /\ current_route'[n] = Received(n).route_id
      /\ \A k \in Node \ {n} : current_route'[k] = current_route[k]
  BY <1>2
<1>4. PICK m, t, a : m = Received(n) /\ t = CURRENT_HOST[n] /\ a = m.sender_id OBVIOUS
<1>5. IN_CONTROL_QUEUE[n] # << >> BY DEF Dispatched, Receives
<1>6. /\ m \in tpcp_msg /\ m.host_id = t /\ t \in Asking /\ n \in Way(t)
      /\ m.route_id = RouteOf(t)
      /\ a \in Partners(t, n) /\ UnderWay(t, a, n) = {m.command}
      /\ StatusFor(t, n) = NODE_STATUS[n]
  BY <1>4, <1>5, Expects
<1>7. a # n BY <1>6, PartnerFacts
<1>8. Received(n).command = command /\ NODE_STATUS[n] \in statuses BY DEF Dispatched
<1>9. /\ control_pc[n] = "message"
      /\ IN_CONTROL_QUEUE' = [IN_CONTROL_QUEUE EXCEPT ![n] = Tail(@)]
      /\ UNCHANGED <<sensor_on_detected, sock, setting, button, keyboard>>
  BY DEF Dispatched, Receives, host
<1> QED BY <1>1, <1>3, <1>4, <1>5, <1>6, <1>7, <1>8, <1>9

\* The first and the last element of a route.
LEMMA AtEdgeFacts ==
  ASSUME CommitInv, NEW t \in Asking, NEW n \in Way(t)
  PROVE  /\ AtEdge(n, RouteOf(t), TRUE) <=> After(t, n) = TAIL_ID
         /\ AtEdge(n, RouteOf(t), FALSE) <=> Before(t, n) = HOST_ID
         /\ Before(t, n) \in Partners(t, n)
         /\ After(t, n) # TAIL_ID => After(t, n) \in Partners(t, n) /\ After(t, n) \in Way(t)
         /\ After(t, n) = TAIL_ID => ~IsSwitch(n)
<1>1. Before(t, n) # TAIL_ID BY WayFacts
<1>2. ASSUME After(t, n) = TAIL_ID PROVE ~IsSwitch(n)
  <2>1. RouteOf(t) \in Route /\ n \in Elements(RouteOf(t)) BY TrainFacts DEF Way
  <2> DEFINE r == RouteOf(t)
  <2>2. nodes_list[r][IndexOf(n, r)] = n /\ IndexOf(n, r) \in 1 .. Len(nodes_list[r])
    BY <2>1, PlaceOf
  <2>3. nodes_list[r] \in Seq(Node) /\ Len(nodes_list[r]) \in Nat BY <2>1, PlaceOf
  <2>4. IndexOf(n, r) = Len(nodes_list[r])
    <3> SUFFICES ASSUME IndexOf(n, r) # Len(nodes_list[r]) PROVE FALSE OBVIOUS
    <3>1. After(t, n) = nodes_list[r][IndexOf(n, r) + 1] BY DEF After, rasp_id_next
    <3>2. IndexOf(n, r) + 1 \in 1 .. Len(nodes_list[r]) BY <2>2, <2>3
    <3>3. nodes_list[r][IndexOf(n, r) + 1] \in Node BY <2>3, <3>2
    <3> QED BY <1>2, <3>1, <3>3, RoutesAssumption
  <2> QED BY <2>1, <2>2, <2>4, NoRouteEndsWithSwitch
<1> QED BY <1>1, <1>2, WayFacts DEF AtEdge, Before, After, Partners

\* The REQ goes on, or comes back as ACK from the last element.
LEMMA ReqKeeps ==
  ASSUME CommitInv, Inv', NEW n \in Node, HandleReq(n)
  PROVE  CommitInv'
<1>1. PICK m, t, a :
        /\ m = Received(n) /\ t = CURRENT_HOST[n] /\ a = m.sender_id
        /\ IN_CONTROL_QUEUE[n] # << >> /\ control_pc[n] = "message"
        /\ m \in tpcp_msg /\ m.host_id = t /\ m.route_id = RouteOf(t) /\ m.command = "REQ"
        /\ t \in Asking /\ n \in Way(t)
        /\ a \in Partners(t, n) /\ a # n /\ UnderWay(t, a, n) = {"REQ"}
        /\ NODE_STATUS[n] \in {"NOT_RESERVED"} /\ StatusFor(t, n) = NODE_STATUS[n]
        /\ IN_CONTROL_QUEUE' = [IN_CONTROL_QUEUE EXCEPT ![n] = Tail(@)]
        /\ \A k \in Node \ {n} : current_route'[k] = current_route[k]
        /\ current_route'[n] = RouteOf(t)
        /\ UNCHANGED <<sensor_on_detected, sock, setting, button, keyboard>>
        /\ NODE_STATUS[n] \notin Locked => button[n] = FALSE
  BY Handling DEF HandleReq
<1>2. /\ NODE_STATUS[n] = "NOT_RESERVED" /\ StatusFor(t, n) = "NOT_RESERVED"
      /\ button[n] = FALSE
  BY <1>1 DEF Locked
<1>q. PICK q : q = After(t, n) OBVIOUS
<1>3. a = Before(t, n) /\ Untouched(t, n) BY <1>1, <1>2, <1>q, Underway
<1>4. PICK new, status, pc :
        /\ new = handleMsg(n, m, RouteOf(t), TRUE, "WAIT_COMMIT", "ACK")
        /\ status = NewStatus(n, RouteOf(t), TRUE, "WAIT_ACK", "WAIT_COMMIT")
        /\ pc = LoopStart(status)
  OBVIOUS
<1>5. \/ /\ q # TAIL_ID /\ status = "WAIT_ACK" /\ pc = "message"
         /\ new = forwardMsg(n, m, q, "REQ")
      \/ /\ q = TAIL_ID /\ status = "WAIT_COMMIT" /\ pc = "message"
         /\ new = forwardMsg(n, m, a, "ACK")
  BY <1>1, <1>2, <1>q, <1>3, <1>4, AtEdgeFacts
     DEF handleMsg, NewStatus, LoopStart, Locked, Before, After
<1>6. PICK x, command : /\ x \in Partners(t, n) /\ command \in Command
                       /\ new = forwardMsg(n, m, x, command)
                       /\ \/ q # TAIL_ID /\ x = q /\ command = "REQ" /\ status = "WAIT_ACK"
                          \/ q = TAIL_ID /\ x = a /\ command = "ACK" /\ status = "WAIT_COMMIT"
                       /\ pc = "message"
  BY <1>1, <1>2, <1>q, <1>5, AtEdgeFacts DEF Command
<1>7. /\ ForPartners(n, t, new)
      /\ \A b : Said(new, Leaving(t, b)) = IF b = x THEN {command} ELSE {}
  BY <1>1, <1>2, <1>q, <1>6, SendsOne
<1>8. ControlStep(n, a, new, status, pc)
  <2>1. Phase(n, TRUE, "WAIT_ACK", "WAIT_COMMIT", "ACK") BY DEF HandleReq
  <2>2. /\ OUT_CONTROL_QUEUE' = [OUT_CONTROL_QUEUE EXCEPT ![n] = @ \o new]
        /\ NODE_STATUS' = [NODE_STATUS EXCEPT ![n] = status]
        /\ control_pc' = [control_pc EXCEPT ![n] = pc]
        /\ UNCHANGED <<in_msg, CURRENT_HOST, railswitch>>
    BY <1>1, <1>2, <1>q, <1>4, <2>1 DEF Phase, Send, setNodeStatus, Goto
  <2> QED BY <1>1, <1>2, <1>q, <2>2 DEF ControlStep, CommitInv, Inv, TypeOK
<1>9. /\ Scripted' /\ MessagesOK'
      /\ \A k \in Node \ {n} : ElementOK(k)'
      /\ \A u \in Asking \ {t} : TrainOK(u)'
      /\ \A k \in Node : k # n => StatusFor(t, k)' = StatusFor(t, k)
      /\ StatusFor(t, n)' = status
  BY <1>1, <1>2, <1>q, <1>7, <1>8, StepElsewhere
<1>10. /\ NODE_STATUS'[n] = status /\ CURRENT_HOST' = CURRENT_HOST
       /\ control_pc'[n] = pc /\ \A k \in Node \ {n} : control_pc'[k] = control_pc[k]
  <2>1. CURRENT_HOST' = CURRENT_HOST BY DEF HandleReq, Phase
  <2> QED BY <1>8, <2>1 DEF ControlStep, CommitInv, Inv, TypeOK
<1>11. ElementOK(n)'
  BY <1>1, <1>2, <1>q, <1>6, <1>10, ElementAfter DEF Locked
<1>12. /\ q # TAIL_ID =>
            /\ q \in Way(t) /\ q \in Node /\ q # n /\ q # a
            /\ n \in Partners(t, q) /\ q \in Partners(t, n)
            /\ UnderWay(t, n, q) = {} /\ UnderWay(t, q, n) = {}
            /\ StatusFor(t, q) = "NOT_RESERVED"
  <2> SUFFICES ASSUME q # TAIL_ID
               PROVE  /\ q \in Way(t) /\ q \in Node /\ q # n /\ q # a
                      /\ n \in Partners(t, q) /\ q \in Partners(t, n)
                      /\ UnderWay(t, n, q) = {} /\ UnderWay(t, q, n) = {}
                      /\ StatusFor(t, q) = "NOT_RESERVED"
    OBVIOUS
  <2>1. q \in Way(t) /\ q \in Node /\ q # n /\ n \in Partners(t, q) /\ q \in Partners(t, n)
    BY <1>1, <1>2, <1>q, EdgePartners
  <2>2. q # a BY <1>1, <1>2, <1>q, <1>3, WayFacts
  <2>3. RouteOf(t) \in Route /\ n \in Elements(RouteOf(t)) BY <1>1, <1>2, <1>q, TrainFacts DEF Way
  <2>4. n \in Onwards(n, RouteOf(t)) /\ q \in Onwards(n, RouteOf(t))
    BY <1>q, <2>3, OnwardsFacts DEF After
  <2> QED BY <1>1, <1>q, <1>3, <2>1, <2>2, <2>4 DEF Untouched
<1>13. a # HOST_ID =>
         /\ a \in Way(t) /\ a \in Node /\ n = After(t, a)
         /\ n \in Partners(t, a) /\ UnderWay(t, n, a) = {}
         /\ PairOK(StatusFor(t, a), "WAIT_ACK", {}, {}, control_pc[a], button[a], button[n])
         /\ PairOK(StatusFor(t, a), "WAIT_COMMIT", {}, {"ACK"}, control_pc[a], button[a], button[n])
  <2> SUFFICES ASSUME a # HOST_ID
               PROVE  /\ a \in Way(t) /\ a \in Node /\ n = After(t, a)
                      /\ n \in Partners(t, a) /\ UnderWay(t, n, a) = {}
                      /\ PairOK(StatusFor(t, a), "WAIT_ACK", {}, {}, control_pc[a], button[a], button[n])
                      /\ PairOK(StatusFor(t, a), "WAIT_COMMIT", {}, {"ACK"}, control_pc[a], button[a], button[n])
    OBVIOUS
  <2>1. a \in Way(t) /\ n = After(t, a) BY <1>1, <1>2, <1>q, <1>3, WayFacts
  <2>2. /\ a \in Node /\ n \in Partners(t, a)
        /\ PairOK(StatusFor(t, a), StatusFor(t, n), UnderWay(t, a, n), UnderWay(t, n, a),
                  control_pc[a], button[a], button[n])
    BY <1>1, <1>2, <1>q, <2>1, PairFacts
  <2> DEFINE sa == StatusFor(t, a)
             sb == StatusFor(t, n)
             f == UnderWay(t, a, n)
             g == UnderWay(t, n, a)
  <2>3. PairOK(sa, sb, f, g, control_pc[a], button[a], button[n]) /\ f = {"REQ"}
    BY <1>1, <1>2, <1>q, <2>2
  <2> HIDE DEF sa, sb, f, g
  <2>4. g = {} BY <2>3, PairMessages
  <2>5. /\ PairOK(sa, "WAIT_ACK", {}, {}, control_pc[a], button[a], button[n])
        /\ PairOK(sa, "WAIT_COMMIT", {}, {"ACK"}, control_pc[a], button[a], button[n])
    BY <2>3, PairBehind
  <2> QED BY <2>1, <2>2, <2>4, <2>5 DEF sa, g
<1>14. ASSUME NEW b \in Way(t), NEW c \in Partners(t, b)
       PROVE  /\ Alone(t, c, b)'
              /\ n \notin {c, b} => UnderWay(t, c, b)' = UnderWay(t, c, b)
              /\ b = n => UnderWay(t, c, b)' = IF c = a THEN {} ELSE UnderWay(t, c, b)
              /\ c = n => UnderWay(t, c, b)' = UnderWay(t, c, b) \union Said(new, Leaving(t, b))
  <2>1. /\ n \notin {c, b} => UnderWay(t, c, b)' = UnderWay(t, c, b) /\ Alone(t, c, b)'
        /\ b = n /\ c = a => UnderWay(t, c, b)' = {} /\ Alone(t, c, b)'
        /\ b = n /\ c # a => UnderWay(t, c, b)' = UnderWay(t, c, b) /\ Alone(t, c, b)'
        /\ c = n =>
             /\ UnderWay(t, c, b)' = UnderWay(t, c, b) \union Said(new, Leaving(t, b))
             /\ UnderWay(t, c, b) = {} \/ Said(new, Leaving(t, b)) = {} => Alone(t, c, b)'
    BY <1>1, <1>2, <1>q, <1>7, <1>8, HandlingEffect
  <2>2. c = n => UnderWay(t, c, b) = {}
    <3> SUFFICES ASSUME c = n PROVE UnderWay(t, n, b) = {} OBVIOUS
    <3>1. (n = Before(t, b) /\ b = After(t, n)) \/ (n = After(t, b) /\ b = Before(t, n))
      BY <1>1, <1>2, <1>q, PartnerCases, WayFacts
    <3>2. b # TAIL_ID /\ b # HOST_ID BY <1>1, <1>2, <1>q, WayFacts
    <3> QED BY <1>1, <1>q, <1>3, <1>12, <1>13, <3>1, <3>2
  <2>3. c # b BY <1>1, <1>2, <1>q, PartnerFacts
  <2> QED BY <2>1, <2>2, <2>3
<1>15. q # TAIL_ID => EdgeOK(t, n, q)'
  <2> SUFFICES ASSUME q # TAIL_ID PROVE EdgeOK(t, n, q)' OBVIOUS
  <2>1. UnderWay(t, n, q)' = {"REQ"} /\ UnderWay(t, q, n)' = {}
    BY <1>1, <1>2, <1>q, <1>6, <1>7, <1>12, <1>14
  <2>2. StatusFor(t, n)' = "WAIT_ACK" /\ StatusFor(t, q)' = "NOT_RESERVED"
    BY <1>6, <1>9, <1>12
  <2>3. PairOK("WAIT_ACK", "NOT_RESERVED", {"REQ"}, {}, pc, button'[n], button'[q])
    BY DEF PairOK, Waiting
  <2> QED BY <1>10, <2>1, <2>2, <2>3 DEF EdgeOK
<1>16. a # HOST_ID => EdgeOK(t, a, n)'
  <2> SUFFICES ASSUME a # HOST_ID PROVE EdgeOK(t, a, n)' OBVIOUS
  <2>1. UnderWay(t, a, n)' = {} /\ UnderWay(t, n, a)' = IF a = x THEN {command} ELSE {}
    BY <1>1, <1>2, <1>q, <1>7, <1>13, <1>14
  <2>2. StatusFor(t, n)' = status /\ StatusFor(t, a)' = StatusFor(t, a)
    BY <1>1, <1>2, <1>q, <1>9, <1>13
  <2>3. PairOK(StatusFor(t, a), status, {}, IF a = x THEN {command} ELSE {},
               control_pc[a], button[a], button[n])
    BY <1>6, <1>12, <1>13
  <2> QED BY <1>1, <1>2, <1>q, <1>10, <1>13, <2>1, <2>2, <2>3 DEF EdgeOK
<1>17. TrainOK(t)'
  <2>1. \A k \in Way(t) \ {n} :
          StatusFor(t, k)' = StatusFor(t, k) /\ control_pc'[k] = control_pc[k] /\ button'[k] = button[k]
    BY <1>1, <1>2, <1>q, <1>9, <1>10, WayFacts
  <2>2. UnderWay(t, a, n)' = {} BY <1>1, <1>2, <1>q, <1>14
  <2> QED BY <1>1, <1>2, <1>q, <1>3, <1>14, <1>15, <1>16, <2>1, <2>2, TrainAsks
<1>18. Asking' = Asking BY <1>1, <1>2, <1>q, ScriptKept
<1> QED BY <1>9, <1>11, <1>17, <1>18 DEF CommitInv

\* What the steps of n make of the pair it is the second of.
LEMMA Behind ==
  ASSUME CommitInv, NEW t \in Asking, NEW n \in Way(t), NEW p \in Way(t), n = After(t, p)
  PROVE  /\ p = Before(t, n) /\ p # HOST_ID /\ p # n /\ p # After(t, n)
         /\ StatusFor(t, n) = "WAIT_ACK" =>
              /\ UnderWay(t, p, n) = {} /\ UnderWay(t, n, p) = {}
              /\ PairOK(StatusFor(t, p), "WAIT_COMMIT", {}, {"ACK"}, control_pc[p], button[p], button[n])
              /\ PairOK(StatusFor(t, p), "NOT_RESERVED", {}, {"NOT_OK"}, control_pc[p], button[p], button[n])
         /\ UnderWay(t, p, n) = {"COMMIT"} =>
              /\ UnderWay(t, n, p) = {}
              /\ PairOK(StatusFor(t, p), "WAIT_AGREE", {}, {}, control_pc[p], button[p], button[n])
              /\ PairOK(StatusFor(t, p), "RESERVED", {}, {"AGREE"}, control_pc[p], button[p], FALSE)
         /\ StatusFor(t, n) = "WAIT_AGREE" =>
              /\ UnderWay(t, p, n) = {} /\ UnderWay(t, n, p) = {}
              /\ PairOK(StatusFor(t, p), "WAIT_AGREE", {}, {}, control_pc[p], button[p], button[n])
              /\ PairOK(StatusFor(t, p), "RESERVED", {}, {"AGREE"}, control_pc[p], button[p], FALSE)
              /\ PairOK(StatusFor(t, p), "NOT_RESERVED", {}, {"NOT_OK"}, control_pc[p], button[p], button[n])
              /\ PairOK(StatusFor(t, p), "FAIL_SAFE", {}, {"NOT_OK"}, control_pc[p], button[p], button[n])
         /\ UnderWay(t, p, n) = {"NOT_OK"} =>
              /\ UnderWay(t, n, p) = {}
              /\ PairOK(StatusFor(t, p), "NOT_RESERVED", {}, {}, control_pc[p], button[p], button[n])
         /\ StatusFor(t, n) = "RESERVED" /\ button[n] = TRUE =>
              /\ UnderWay(t, p, n) = {} /\ UnderWay(t, n, p) = {}
              /\ PairOK(StatusFor(t, p), "TRAIN_IN_TRANSITION", {}, {}, control_pc[p], button[p], button[n])
         /\ StatusFor(t, n) = "TRAIN_IN_TRANSITION" /\ button[n] = FALSE =>
              /\ UnderWay(t, p, n) = {} /\ UnderWay(t, n, p) = {}
              /\ PairOK(StatusFor(t, p), "NOT_RESERVED", {}, {}, control_pc[p], button[p], button[n])
<1> DEFINE sa == StatusFor(t, p)
           sb == StatusFor(t, n)
           f == UnderWay(t, p, n)
           g == UnderWay(t, n, p)
           pc == control_pc[p]
           pa == button[p]
           pb == button[n]
<1>1. PairOK(sa, sb, f, g, pc, pa, pb) BY PairFacts
<1>2. p = Before(t, n) /\ p # HOST_ID /\ p # n /\ p # After(t, n) BY PairFacts, WayFacts
<1> HIDE DEF sa, sb, f, g, pc, pa, pb
<1>3. sb = "WAIT_ACK" =>
        /\ f = {} /\ g = {}
        /\ PairOK(sa, "WAIT_COMMIT", {}, {"ACK"}, pc, pa, pb)
        /\ PairOK(sa, "NOT_RESERVED", {}, {"NOT_OK"}, pc, pa, pb)
  BY <1>1, PairBehind
<1>4. f = {"COMMIT"} =>
        /\ g = {}
        /\ PairOK(sa, "WAIT_AGREE", {}, {}, pc, pa, pb)
        /\ PairOK(sa, "RESERVED", {}, {"AGREE"}, pc, pa, FALSE)
  <2>1. f = {"COMMIT"} => g = {} BY <1>1, PairMessages
  <2> QED BY <1>1, <2>1, PairBehind
<1>5. sb = "WAIT_AGREE" =>
        /\ f = {} /\ g = {}
        /\ PairOK(sa, "RESERVED", {}, {"AGREE"}, pc, pa, FALSE)
        /\ PairOK(sa, "NOT_RESERVED", {}, {"NOT_OK"}, pc, pa, pb)
        /\ PairOK(sa, "FAIL_SAFE", {}, {"NOT_OK"}, pc, pa, pb)
  BY <1>1, PairBehind
<1>6. f = {"NOT_OK"} => g = {} /\ PairOK(sa, "NOT_RESERVED", {}, {}, pc, pa, pb)
  BY <1>1, PairBehind
<1>7. sb = "RESERVED" /\ pb = TRUE =>
        f = {} /\ g = {} /\ PairOK(sa, "TRAIN_IN_TRANSITION", {}, {}, pc, pa, pb)
  BY <1>1, PairBehind
<1>8. sb = "TRAIN_IN_TRANSITION" /\ pb = FALSE =>
        f = {} /\ g = {} /\ PairOK(sa, "NOT_RESERVED", {}, {}, pc, pa, pb)
  BY <1>1, PairBehind
<1>9. sb = "WAIT_AGREE" => PairOK(sa, "WAIT_AGREE", {}, {}, pc, pa, pb) BY <1>1, <1>5
<1> QED BY <1>2, <1>3, <1>4, <1>5, <1>6, <1>7, <1>8, <1>9 DEF sa, sb, f, g, pc, pa, pb

\* And of the pair it is the first of.
LEMMA Ahead ==
  ASSUME CommitInv, NEW t \in Asking, NEW n \in Way(t), NEW q \in Way(t), q = After(t, n),
         NEW pc, pc \notin Waiting
  PROVE  /\ q # n /\ q # Before(t, n)
         /\ UnderWay(t, q, n) = {"ACK"} =>
              /\ UnderWay(t, n, q) = {}
              /\ PairOK("WAIT_COMMIT", StatusFor(t, q), {}, {}, pc, button[n], button[q])
              /\ PairOK("WAIT_AGREE", StatusFor(t, q), {"COMMIT"}, {}, pc, button[n], button[q])
         /\ StatusFor(t, n) = "WAIT_COMMIT" =>
              /\ UnderWay(t, n, q) = {} /\ UnderWay(t, q, n) = {}
              /\ PairOK("WAIT_AGREE", StatusFor(t, q), {"COMMIT"}, {}, pc, button[n], button[q])
         /\ StatusFor(t, n) = "WAIT_AGREE" /\ (UnderWay(t, q, n) = {"AGREE"} \/ Awaits(n)) =>
              /\ UnderWay(t, n, q) = {}
              /\ Awaits(n) => UnderWay(t, q, n) = {}
              /\ PairOK("RESERVED", StatusFor(t, q), {}, {}, pc, button[n], button[q])
              /\ PairOK("WAIT_AGREE", StatusFor(t, q), {}, {}, "suspended", button[n], button[q])
              /\ PairOK("FAIL_SAFE", StatusFor(t, q), {"NOT_OK"}, {}, pc, button[n], button[q])
         /\ UnderWay(t, q, n) = {"NOT_OK"} =>
              /\ UnderWay(t, n, q) = {}
              /\ PairOK("NOT_RESERVED", StatusFor(t, q), {}, {}, pc, button[n], button[q])
         /\ StatusFor(t, n) = "RESERVED" =>
              /\ UnderWay(t, n, q) = {} /\ UnderWay(t, q, n) = {}
              /\ PairOK("NOT_RESERVED", StatusFor(t, q), {"NOT_OK"}, {}, pc, button[n], button[q])
              /\ button[n] = TRUE =>
                   PairOK("TRAIN_IN_TRANSITION", StatusFor(t, q), {}, {}, pc, button[n], button[q])
         /\ StatusFor(t, n) = "TRAIN_IN_TRANSITION" /\ button[n] = FALSE =>
              /\ UnderWay(t, n, q) = {} /\ UnderWay(t, q, n) = {}
              /\ PairOK("NOT_RESERVED", StatusFor(t, q), {}, {}, pc, button[n], button[q])
<1> DEFINE sa == StatusFor(t, n)
           sb == StatusFor(t, q)
           f == UnderWay(t, n, q)
           g == UnderWay(t, q, n)
           pc1 == control_pc[n]
           pa == button[n]
           pb == button[q]
<1>1. PairOK(sa, sb, f, g, pc1, pa, pb) BY PairFacts
<1>2. q # n /\ q # Before(t, n) BY PairFacts, WayFacts
<1>3. Awaits(n) <=> pc1 \in Waiting BY DEF Awaits
<1>4. PICK pc3 \in Waiting : pc3 = "suspended" BY DEF Waiting
<1> HIDE DEF sa, sb, f, g, pc1, pa, pb
<1>5. g = {"ACK"} =>
        /\ f = {}
        /\ PairOK("WAIT_COMMIT", sb, {}, {}, pc, pa, pb)
        /\ PairOK("WAIT_AGREE", sb, {"COMMIT"}, {}, pc, pa, pb)
  BY <1>1, <1>4 DEF PairOK, Quiet, Waiting
<1>6. sa = "WAIT_COMMIT" =>
        f = {} /\ g = {} /\ PairOK("WAIT_AGREE", sb, {"COMMIT"}, {}, pc, pa, pb)
  BY <1>1, <1>4 DEF PairOK, Quiet, Waiting
<1>7. sa = "WAIT_AGREE" /\ (g = {"AGREE"} \/ pc1 \in Waiting) =>
        /\ f = {}
        /\ PairOK("RESERVED", sb, {}, {}, pc, pa, pb)
        /\ PairOK("WAIT_AGREE", sb, {}, {}, pc3, pa, pb)
        /\ PairOK("FAIL_SAFE", sb, {"NOT_OK"}, {}, pc, pa, pb)
  BY <1>1, <1>4 DEF PairOK, Quiet, Waiting
<1>8. sa = "WAIT_AGREE" /\ pc1 \in Waiting => g = {} BY <1>1, PairMessages
<1>9. g = {"NOT_OK"} => f = {} /\ PairOK("NOT_RESERVED", sb, {}, {}, pc, pa, pb)
  BY <1>1, <1>4 DEF PairOK, Quiet, Waiting
<1>10. sa = "RESERVED" =>
        /\ f = {} /\ g = {}
        /\ PairOK("NOT_RESERVED", sb, {"NOT_OK"}, {}, pc, pa, pb)
        /\ PairOK("TRAIN_IN_TRANSITION", sb, {}, {}, pc, TRUE, pb)
  BY <1>1, <1>4 DEF PairOK, Quiet, Waiting
<1>11. sa = "TRAIN_IN_TRANSITION" /\ pa = FALSE =>
         f = {} /\ g = {} /\ PairOK("NOT_RESERVED", sb, {}, {}, pc, pa, pb)
  BY <1>1, <1>4 DEF PairOK, Quiet, Waiting
<1>12. sa = "RESERVED" /\ pa = TRUE => PairOK("TRAIN_IN_TRANSITION", sb, {}, {}, pc, pa, pb)
  BY <1>10
<1> QED BY <1>2, <1>3, <1>4, <1>5, <1>6, <1>7, <1>8, <1>9, <1>10, <1>11, <1>12
        DEF sa, sb, f, g, pc1, pa, pb

\* The ACK goes back, or turns into COMMIT at the first element.
LEMMA AckKeeps ==
  ASSUME CommitInv, Inv', NEW n \in Node, HandleAck(n)
  PROVE  CommitInv'
<1>1. PICK m, t, a :
        /\ m = Received(n) /\ t = CURRENT_HOST[n] /\ a = m.sender_id
        /\ IN_CONTROL_QUEUE[n] # << >> /\ control_pc[n] = "message"
        /\ m \in tpcp_msg /\ m.host_id = t /\ m.route_id = RouteOf(t) /\ m.command = "ACK"
        /\ t \in Asking /\ n \in Way(t)
        /\ a \in Partners(t, n) /\ a # n /\ UnderWay(t, a, n) = {"ACK"}
        /\ NODE_STATUS[n] \in {"WAIT_ACK"} /\ StatusFor(t, n) = NODE_STATUS[n]
        /\ IN_CONTROL_QUEUE' = [IN_CONTROL_QUEUE EXCEPT ![n] = Tail(@)]
        /\ \A k \in Node \ {n} : current_route'[k] = current_route[k]
        /\ current_route'[n] = RouteOf(t)
        /\ UNCHANGED <<sensor_on_detected, sock, setting, button, keyboard>>
        /\ NODE_STATUS[n] \notin Locked => button[n] = FALSE
  BY Handling DEF HandleAck
<1>2. StatusFor(t, n) = "WAIT_ACK" /\ button[n] = FALSE BY <1>1 DEF Locked
<1>t. t \in Asking /\ n \in Way(t) /\ t = CURRENT_HOST[n] /\ StatusFor(t, n) # "NOT_RESERVED"
  BY <1>1, <1>2
<1>3. a = After(t, n) /\ a \in Way(t) BY <1>1, <1>2, Underway
<1>p. PICK p : p = Before(t, n) OBVIOUS
<1>4. PICK new, status :
        /\ new = handleMsg(n, m, RouteOf(t), FALSE, "WAIT_AGREE", "COMMIT")
        /\ status = NewStatus(n, RouteOf(t), FALSE, "WAIT_COMMIT", "WAIT_AGREE")
  OBVIOUS
<1>5. \/ p # HOST_ID /\ status = "WAIT_COMMIT" /\ new = forwardMsg(n, m, p, "ACK")
      \/ p = HOST_ID /\ status = "WAIT_AGREE" /\ new = forwardMsg(n, m, a, "COMMIT")
  BY <1>p, <1>1, <1>3, <1>4, AtEdgeFacts DEF handleMsg, NewStatus, Before, After
<1>6. PICK x \in Partners(t, n), command \in Command :
        /\ new = forwardMsg(n, m, x, command) /\ command # "REQ"
        /\ \/ p # HOST_ID /\ x = p /\ command = "ACK" /\ status = "WAIT_COMMIT"
           \/ p = HOST_ID /\ x = a /\ command = "COMMIT" /\ status = "WAIT_AGREE"
  BY <1>p, <1>1, <1>3, <1>5, AtEdgeFacts DEF Command
<1>7. /\ ForPartners(n, t, new)
      /\ \A b : Said(new, Leaving(t, b)) = IF b = x THEN {command} ELSE {}
  BY <1>1, <1>6, SendsOne
<1>8. ControlStep(n, a, new, status, "message") /\ CURRENT_HOST' = CURRENT_HOST
  <2>1. Phase(n, FALSE, "WAIT_COMMIT", "WAIT_AGREE", "COMMIT") BY DEF HandleAck
  <2>2. LoopStart(status) = "message" BY <1>6 DEF LoopStart, Locked
  <2>3. /\ OUT_CONTROL_QUEUE' = [OUT_CONTROL_QUEUE EXCEPT ![n] = @ \o new]
        /\ NODE_STATUS' = [NODE_STATUS EXCEPT ![n] = status]
        /\ control_pc' = [control_pc EXCEPT ![n] = "message"]
        /\ UNCHANGED <<in_msg, CURRENT_HOST, railswitch>>
    BY <1>1, <1>4, <2>1, <2>2 DEF Phase, Send, setNodeStatus, Goto
  <2> QED BY <1>1, <2>3 DEF ControlStep
<1>9. NODE_STATUS'[n] = status /\ control_pc'[n] = "message"
  BY <1>8 DEF ControlStep, CommitInv, Inv, TypeOK
<1>10. ElementOK(n)' BY <1>1, <1>2, <1>6, <1>8, <1>9, ElementAfter DEF Locked
<1>11. \A b : "REQ" \notin Said(new, Leaving(t, b)) BY <1>6, <1>7
<1>12. ASSUME NEW q \in Way(t), q = After(t, n)
       PROVE  /\ UnderWay(t, n, q) = {} \/ Said(new, Leaving(t, q)) = {}
              /\ PairOK(status, StatusFor(t, q), UnderWay(t, n, q) \union Said(new, Leaving(t, q)),
                        IF q = a THEN {} ELSE UnderWay(t, q, n), "message", button[n], button[q])
  <2>1. /\ UnderWay(t, n, q) = {} /\ q # p
        /\ PairOK("WAIT_COMMIT", StatusFor(t, q), {}, {}, "message", button[n], button[q])
        /\ PairOK("WAIT_AGREE", StatusFor(t, q), {"COMMIT"}, {}, "message", button[n], button[q])
    BY <1>p, <1>1, <1>3, <1>12, Ahead DEF Waiting
  <2> QED BY <1>3, <1>6, <1>7, <1>12, <2>1
<1>13. ASSUME NEW b \in Way(t), n = After(t, b)
       PROVE  /\ UnderWay(t, n, b) = {} \/ Said(new, Leaving(t, b)) = {}
              /\ PairOK(StatusFor(t, b), status, IF b = a THEN {} ELSE UnderWay(t, b, n),
                        UnderWay(t, n, b) \union Said(new, Leaving(t, b)),
                        control_pc[b], button[b], button[n])
  <2>1. b = Before(t, n) /\ b # HOST_ID /\ b # After(t, n) BY <1>t, <1>13, Behind
  <2>2. /\ UnderWay(t, b, n) = {} /\ UnderWay(t, n, b) = {}
        /\ PairOK(StatusFor(t, b), "WAIT_COMMIT", {}, {"ACK"}, control_pc[b], button[b], button[n])
    BY <1>t, <1>2, <1>13, Behind
  <2> QED BY <1>p, <1>3, <1>6, <1>7, <2>1, <2>2
<1>14. PairsKept(n, t, a, new, status, "message") BY <1>12, <1>13 DEF PairsKept
<1> QED BY <1>t, <1>7, <1>8, <1>10, <1>11, <1>14, ControlKeeps

\* The COMMIT goes on, or comes back as AGREE from the last element.
LEMMA CommitKeeps ==
  ASSUME CommitInv, Inv', NEW n \in Node, HandleCommit(n)
  PROVE  CommitInv'
<1>1. PICK m, t, a :
        /\ m = Received(n) /\ t = CURRENT_HOST[n] /\ a = m.sender_id
        /\ IN_CONTROL_QUEUE[n] # << >> /\ control_pc[n] = "message"
        /\ m \in tpcp_msg /\ m.host_id = t /\ m.route_id = RouteOf(t) /\ m.command = "COMMIT"
        /\ t \in Asking /\ n \in Way(t)
        /\ a \in Partners(t, n) /\ a # n /\ UnderWay(t, a, n) = {"COMMIT"}
        /\ NODE_STATUS[n] \in {"WAIT_COMMIT"} /\ StatusFor(t, n) = NODE_STATUS[n]
        /\ IN_CONTROL_QUEUE' = [IN_CONTROL_QUEUE EXCEPT ![n] = Tail(@)]
        /\ \A k \in Node \ {n} : current_route'[k] = current_route[k]
        /\ current_route'[n] = RouteOf(t)
        /\ UNCHANGED <<sensor_on_detected, sock, setting, button, keyboard>>
        /\ NODE_STATUS[n] \notin Locked => button[n] = FALSE
  BY Handling DEF HandleCommit
<1>2. StatusFor(t, n) = "WAIT_COMMIT" /\ button[n] = FALSE BY <1>1 DEF Locked
<1>t. t \in Asking /\ n \in Way(t) /\ t = CURRENT_HOST[n] /\ StatusFor(t, n) # "NOT_RESERVED"
  BY <1>1, <1>2
<1>3. a = Before(t, n) /\ a \in Way(t) BY <1>1, <1>2, Underway
<1>p. PICK q : q = After(t, n) OBVIOUS
<1>4. PICK new, status, pc :
        /\ new = handleMsg(n, m, RouteOf(t), TRUE, "RESERVED", "AGREE")
        /\ status = NewStatus(n, RouteOf(t), TRUE, "WAIT_AGREE", "RESERVED")
        /\ pc = LoopStart(status)
  OBVIOUS
<1>5. \/ q # TAIL_ID /\ status = "WAIT_AGREE" /\ new = forwardMsg(n, m, q, "COMMIT")
      \/ q = TAIL_ID /\ status = "RESERVED" /\ new = forwardMsg(n, m, a, "AGREE")
  BY <1>p, <1>1, <1>3, <1>4, AtEdgeFacts DEF handleMsg, NewStatus, Before, After
<1>6. PICK x \in Partners(t, n), command \in Command :
        /\ new = forwardMsg(n, m, x, command) /\ command # "REQ"
        /\ \/ q # TAIL_ID /\ x = q /\ command = "COMMIT" /\ status = "WAIT_AGREE"
           \/ q = TAIL_ID /\ x = a /\ command = "AGREE" /\ status = "RESERVED" /\ ~IsSwitch(n)
        /\ pc \in {"sensors", "message"} /\ pc \notin Waiting
  BY <1>p, <1>1, <1>3, <1>4, <1>5, AtEdgeFacts DEF Command, LoopStart, Waiting
<1>7. /\ ForPartners(n, t, new)
      /\ \A b : Said(new, Leaving(t, b)) = IF b = x THEN {command} ELSE {}
  BY <1>1, <1>6, SendsOne
<1>8. ControlStep(n, a, new, status, pc) /\ CURRENT_HOST' = CURRENT_HOST
  <2>1. Phase(n, TRUE, "WAIT_AGREE", "RESERVED", "AGREE") BY DEF HandleCommit
  <2>3. /\ OUT_CONTROL_QUEUE' = [OUT_CONTROL_QUEUE EXCEPT ![n] = @ \o new]
        /\ NODE_STATUS' = [NODE_STATUS EXCEPT ![n] = status]
        /\ control_pc' = [control_pc EXCEPT ![n] = pc]
        /\ UNCHANGED <<in_msg, CURRENT_HOST, railswitch>>
    BY <1>1, <1>4, <2>1 DEF Phase, Send, setNodeStatus, Goto
  <2> QED BY <1>1, <2>3 DEF ControlStep
<1>9. NODE_STATUS'[n] = status /\ control_pc'[n] = pc
  BY <1>8 DEF ControlStep, CommitInv, Inv, TypeOK
<1>10. ElementOK(n)' BY <1>1, <1>2, <1>6, <1>8, <1>9, ElementAfter DEF Locked
<1>11. \A b : "REQ" \notin Said(new, Leaving(t, b)) BY <1>6, <1>7
<1>12. ASSUME NEW b \in Way(t), b = After(t, n)
       PROVE  /\ UnderWay(t, n, b) = {} \/ Said(new, Leaving(t, b)) = {}
              /\ PairOK(status, StatusFor(t, b), UnderWay(t, n, b) \union Said(new, Leaving(t, b)),
                        IF b = a THEN {} ELSE UnderWay(t, b, n), pc, button[n], button[b])
  <2>1. b # Before(t, n) /\ b # TAIL_ID BY <1>t, <1>12, WayFacts
  <2>2. /\ UnderWay(t, n, b) = {} /\ UnderWay(t, b, n) = {}
        /\ PairOK("WAIT_AGREE", StatusFor(t, b), {"COMMIT"}, {}, pc, button[n], button[b])
    BY <1>t, <1>2, <1>6, <1>12, Ahead
  <2> QED BY <1>p, <1>3, <1>6, <1>7, <1>12, <2>1, <2>2
<1>13. ASSUME NEW b \in Way(t), n = After(t, b)
       PROVE  /\ UnderWay(t, n, b) = {} \/ Said(new, Leaving(t, b)) = {}
              /\ PairOK(StatusFor(t, b), status, IF b = a THEN {} ELSE UnderWay(t, b, n),
                        UnderWay(t, n, b) \union Said(new, Leaving(t, b)),
                        control_pc[b], button[b], button[n])
  <2>1. b = Before(t, n) /\ b # After(t, n) BY <1>t, <1>13, Behind
  <2>2. UnderWay(t, b, n) = {"COMMIT"} BY <1>1, <1>3, <2>1
  <2>3. /\ UnderWay(t, n, b) = {}
        /\ PairOK(StatusFor(t, b), "WAIT_AGREE", {}, {}, control_pc[b], button[b], button[n])
        /\ PairOK(StatusFor(t, b), "RESERVED", {}, {"AGREE"}, control_pc[b], button[b], FALSE)
    BY <1>t, <1>13, <2>2, Behind
  <2> QED BY <1>p, <1>2, <1>3, <1>6, <1>7, <2>1, <2>3
<1>14. PairsKept(n, t, a, new, status, pc) BY <1>12, <1>13 DEF PairsKept
<1> QED BY <1>t, <1>7, <1>8, <1>10, <1>11, <1>14, ControlKeeps

\* n sends an AGREE or a TRAIN_OK to the element before it.
AgreementOf(n, t, new) ==
  \E m \in tpcp_msg, command \in Command :
    /\ m.host_id = t /\ m.route_id = RouteOf(t)
    /\ command # "REQ" /\ (Before(t, n) # HOST_ID => command = "AGREE")
    /\ new = forwardMsg(n, m, Before(t, n), command)

\* n agrees: to the AGREE of s, or on its own when the switch is in position.
Agreement(n, t, s, new) ==
  /\ t = CURRENT_HOST[n] /\ n \in Way(t)
  /\ StatusFor(t, n) = "WAIT_AGREE" /\ button[n] = FALSE
  /\ (s = After(t, n) /\ UnderWay(t, s, n) = {"AGREE"}) \/ (s = n /\ Awaits(n))
  /\ AgreementOf(n, t, new)
  /\ ControlStep(n, s, new, "RESERVED", "sensors")
  /\ CURRENT_HOST'[n] = t /\ current_route'[n] = RouteOf(t)
  /\ IsSwitch(n) => railswitch'[n] = [last_route_id |-> RouteOf(t), in_position |-> TRUE]

\* An element agrees: it is reserved, and the AGREE or TRAIN_OK goes back.
LEMMA Agrees ==
  ASSUME CommitInv, Inv', NEW n \in Node, NEW t \in Asking, NEW s, NEW new, Agreement(n, t, s, new)
  PROVE  CommitInv'
<1>0. /\ t = CURRENT_HOST[n] /\ n \in Way(t)
      /\ StatusFor(t, n) = "WAIT_AGREE" /\ button[n] = FALSE
      /\ (s = After(t, n) /\ UnderWay(t, s, n) = {"AGREE"}) \/ (s = n /\ Awaits(n))
      /\ AgreementOf(n, t, new)
      /\ ControlStep(n, s, new, "RESERVED", "sensors")
      /\ CURRENT_HOST'[n] = t /\ current_route'[n] = RouteOf(t)
      /\ IsSwitch(n) => railswitch'[n] = [last_route_id |-> RouteOf(t), in_position |-> TRUE]
  BY DEF Agreement
<1>1. PICK p \in Partners(t, n) : p = Before(t, n) BY <1>0, AtEdgeFacts
<1>m. PICK m \in tpcp_msg, command \in Command :
        /\ m.host_id = t /\ m.route_id = RouteOf(t)
        /\ command # "REQ" /\ (p # HOST_ID => command = "AGREE")
        /\ new = forwardMsg(n, m, p, command)
  BY <1>0, <1>1 DEF AgreementOf
<1>2. /\ ForPartners(n, t, new)
      /\ \A b : Said(new, Leaving(t, b)) = IF b = p THEN {command} ELSE {}
  BY <1>0, <1>m, SendsOne
<1>3. NODE_STATUS'[n] = "RESERVED" /\ control_pc'[n] = "sensors" /\ setting' = setting
  BY <1>0 DEF ControlStep, CommitInv, Inv, TypeOK
<1>4. button'[n] = FALSE BY <1>0 DEF ControlStep
<1>5. ElementOK(n)' BY <1>0, <1>3, <1>4, ElementAfter DEF Locked
<1>6. \A b : "REQ" \notin Said(new, Leaving(t, b)) BY <1>m, <1>2
<1>7. ASSUME NEW b \in Way(t), b = After(t, n)
      PROVE  /\ UnderWay(t, n, b) = {} \/ Said(new, Leaving(t, b)) = {}
             /\ PairOK("RESERVED", StatusFor(t, b), UnderWay(t, n, b) \union Said(new, Leaving(t, b)),
                       IF b = s THEN {} ELSE UnderWay(t, b, n), "sensors", button[n], button[b])
  <2>1. b # p /\ b # n BY <1>0, <1>1, <1>7, WayFacts
  <2>2. PICK pc : pc = "sensors" OBVIOUS
  <2>3. pc \notin Waiting BY <2>2 DEF Waiting
  <2>4. UnderWay(t, b, n) = {"AGREE"} \/ Awaits(n) BY <1>0, <1>7
  <2>5. /\ UnderWay(t, n, b) = {} /\ (Awaits(n) => UnderWay(t, b, n) = {})
        /\ PairOK("RESERVED", StatusFor(t, b), {}, {}, pc, button[n], button[b])
    BY <1>0, <1>7, <2>3, <2>4, Ahead
  <2> QED BY <1>0, <1>2, <1>7, <2>1, <2>2, <2>5
<1>8. ASSUME NEW b \in Way(t), n = After(t, b)
      PROVE  /\ UnderWay(t, n, b) = {} \/ Said(new, Leaving(t, b)) = {}
             /\ PairOK(StatusFor(t, b), "RESERVED", IF b = s THEN {} ELSE UnderWay(t, b, n),
                       UnderWay(t, n, b) \union Said(new, Leaving(t, b)),
                       control_pc[b], button[b], button[n])
  <2>1. b = Before(t, n) /\ b # HOST_ID BY <1>0, <1>8, Behind
  <2>2. /\ UnderWay(t, b, n) = {} /\ UnderWay(t, n, b) = {}
        /\ PairOK(StatusFor(t, b), "RESERVED", {}, {"AGREE"}, control_pc[b], button[b], FALSE)
    BY <1>0, <1>8, Behind
  <2> QED BY <1>0, <1>1, <1>m, <1>2, <2>1, <2>2
<1>9. PairsKept(n, t, s, new, "RESERVED", "sensors") BY <1>7, <1>8 DEF PairsKept
<1> QED BY <1>0, <1>2, <1>5, <1>6, <1>9, ControlKeeps

\* A switch that is set, in the terms of the element.
LEMMA SwitchSet ==
  ASSUME CommitInv, NEW n \in Node, NEW r, railswitch[n].last_route_id = r, railswitch[n].in_position
  PROVE  railswitch[n] = [last_route_id |-> r, in_position |-> TRUE]
<1>1. railswitch[n] \in [last_route_id : Route \union {NULL}, in_position : BOOLEAN]
  BY DEF CommitInv, Inv, TypeOK
<1>2. railswitch[n].in_position = TRUE BY <1>1
<1> QED BY <1>1, <1>2

LEMMA AgreeKeeps ==
  ASSUME CommitInv, Inv', NEW n \in Node,
         HandleAgree(n) \/ HandleAgreeInPosition(n)
  PROVE  CommitInv'
<1>1. PICK m, t, a :
        /\ m = Received(n) /\ t = CURRENT_HOST[n] /\ a = m.sender_id
        /\ IN_CONTROL_QUEUE[n] # << >> /\ control_pc[n] = "message"
        /\ m \in tpcp_msg /\ m.host_id = t /\ m.route_id = RouteOf(t) /\ m.command = "AGREE"
        /\ t \in Asking /\ n \in Way(t)
        /\ a \in Partners(t, n) /\ a # n /\ UnderWay(t, a, n) = {"AGREE"}
        /\ NODE_STATUS[n] \in {"WAIT_AGREE"} /\ StatusFor(t, n) = NODE_STATUS[n]
        /\ IN_CONTROL_QUEUE' = [IN_CONTROL_QUEUE EXCEPT ![n] = Tail(@)]
        /\ \A k \in Node \ {n} : current_route'[k] = current_route[k]
        /\ current_route'[n] = RouteOf(t)
        /\ UNCHANGED <<sensor_on_detected, sock, setting, button, keyboard>>
        /\ NODE_STATUS[n] \notin Locked => button[n] = FALSE
  <2>1. Dispatched(n, {"WAIT_AGREE"}, "AGREE") BY DEF HandleAgree, HandleAgreeInPosition
  <2> QED BY <2>1, Handling
<1>2. StatusFor(t, n) = "WAIT_AGREE" /\ button[n] = FALSE BY <1>1 DEF Locked
<1>3. a = After(t, n) /\ a \in Way(t) BY <1>1, <1>2, Underway
<1>p. PICK p : p = Before(t, n) OBVIOUS
<1>t. t \in Asking /\ n \in Way(t) /\ t = CURRENT_HOST[n] /\ UnderWay(t, a, n) = {"AGREE"}
  BY <1>1
<1>4. CASE HandleAgree(n)
  <2>1. PICK new, status :
          /\ new = handleMsg(n, m, RouteOf(t), FALSE, "RESERVED", "TRAIN_OK")
          /\ status = NewStatus(n, RouteOf(t), FALSE, "RESERVED", "RESERVED")
    OBVIOUS
  <2>2. status = "RESERVED" /\ LoopStart(status) = "sensors"
    BY <2>1 DEF NewStatus, LoopStart, Locked
  <2>3. \/ p # HOST_ID /\ new = forwardMsg(n, m, p, "AGREE")
        \/ p = HOST_ID /\ new = forwardMsg(n, m, p, "TRAIN_OK")
    BY <1>p, <1>1, <2>1, AtEdgeFacts DEF handleMsg, Before, After
  <2>4. PICK command \in Command :
          /\ command # "REQ" /\ (p # HOST_ID => command = "AGREE")
          /\ new = forwardMsg(n, m, p, command)
    BY <2>3 DEF Command
  <2>5. Phase(n, FALSE, "RESERVED", "RESERVED", "TRAIN_OK") /\ ~IsSwitch(n) BY <1>4 DEF HandleAgree
  <2>6. /\ OUT_CONTROL_QUEUE' = [OUT_CONTROL_QUEUE EXCEPT ![n] = @ \o new]
        /\ NODE_STATUS' = [NODE_STATUS EXCEPT ![n] = "RESERVED"]
        /\ control_pc' = [control_pc EXCEPT ![n] = "sensors"]
        /\ UNCHANGED <<in_msg, CURRENT_HOST, railswitch>>
    BY <1>1, <2>1, <2>2, <2>5 DEF Phase, Send, setNodeStatus, Goto
  <2>7. ControlStep(n, a, new, "RESERVED", "sensors") BY <1>1, <2>6 DEF ControlStep
  <2>8. CURRENT_HOST'[n] = t /\ current_route'[n] = RouteOf(t) BY <1>1, <2>6
  <2>9. AgreementOf(n, t, new) BY <1>p, <1>1, <2>4 DEF AgreementOf
  <2>10. a = After(t, n) /\ UnderWay(t, a, n) = {"AGREE"} BY <1>t, <1>3
  <2>11. ~IsSwitch(n) BY <2>5
  <2>12. Agreement(n, t, a, new) BY <1>t, <1>2, <2>7, <2>8, <2>9, <2>10, <2>11 DEF Agreement
  <2> QED BY <1>t, <2>12, Agrees
<1>5. CASE HandleAgreeInPosition(n)
  <2>1. /\ ~NeedsPositioning(n, RouteOf(t)) /\ IsSwitch(n) /\ SwitchAgrees(n, m)
        /\ UNCHANGED <<in_msg, CURRENT_HOST, railswitch>>
    BY <1>1, <1>5 DEF HandleAgreeInPosition
  <2>2. PICK new : new = forwardMsg(n, m, p, "AGREE") OBVIOUS
  <2>3. LoopStart("RESERVED") = "sensors" BY DEF LoopStart, Locked
  <2>6. /\ OUT_CONTROL_QUEUE' = [OUT_CONTROL_QUEUE EXCEPT ![n] = @ \o new]
        /\ NODE_STATUS' = [NODE_STATUS EXCEPT ![n] = "RESERVED"]
        /\ control_pc' = [control_pc EXCEPT ![n] = "sensors"]
    BY <1>p, <1>1, <2>1, <2>2, <2>3 DEF SwitchAgrees, Send, setNodeStatus, Goto, Before
  <2>7. ControlStep(n, a, new, "RESERVED", "sensors") BY <1>1, <2>1, <2>6 DEF ControlStep
  <2>8. CURRENT_HOST'[n] = t /\ current_route'[n] = RouteOf(t) BY <1>1, <2>1
  <2>9. railswitch'[n] = [last_route_id |-> RouteOf(t), in_position |-> TRUE]
    <3>1. railswitch[n].last_route_id = RouteOf(t) /\ railswitch[n].in_position
      BY <2>1 DEF NeedsPositioning
    <3> QED BY <2>1, <3>1, SwitchSet
  <2>10. AgreementOf(n, t, new) BY <1>p, <1>1, <2>2 DEF AgreementOf, Command
  <2>11. a = After(t, n) /\ UnderWay(t, a, n) = {"AGREE"} BY <1>t, <1>3
  <2>12. Agreement(n, t, a, new) BY <1>t, <1>2, <2>7, <2>8, <2>9, <2>10, <2>11 DEF Agreement
  <2> QED BY <1>t, <2>12, Agrees
<1> QED BY <1>4, <1>5

\* The switch starts to move; the element behind it waits on.
LEMMA StartPositioningKeeps ==
  ASSUME CommitInv, Inv', NEW n \in Node, StartPositioning(n)
  PROVE  CommitInv'
<1>1. PICK m, t, a :
        /\ m = Received(n) /\ t = CURRENT_HOST[n] /\ a = m.sender_id
        /\ IN_CONTROL_QUEUE[n] # << >> /\ control_pc[n] = "message"
        /\ m \in tpcp_msg /\ m.host_id = t /\ m.route_id = RouteOf(t) /\ m.command = "AGREE"
        /\ t \in Asking /\ n \in Way(t)
        /\ a \in Partners(t, n) /\ a # n /\ UnderWay(t, a, n) = {"AGREE"}
        /\ NODE_STATUS[n] \in {"WAIT_AGREE"} /\ StatusFor(t, n) = NODE_STATUS[n]
        /\ IN_CONTROL_QUEUE' = [IN_CONTROL_QUEUE EXCEPT ![n] = Tail(@)]
        /\ \A k \in Node \ {n} : current_route'[k] = current_route[k]
        /\ current_route'[n] = RouteOf(t)
        /\ UNCHANGED <<sensor_on_detected, sock, setting, button, keyboard>>
        /\ NODE_STATUS[n] \notin Locked => button[n] = FALSE
  BY Handling DEF StartPositioning
<1>2. StatusFor(t, n) = "WAIT_AGREE" /\ button[n] = FALSE /\ NODE_STATUS[n] = "WAIT_AGREE"
  BY <1>1 DEF Locked
<1>t. t \in Asking /\ n \in Way(t) /\ t = CURRENT_HOST[n] /\ StatusFor(t, n) # "NOT_RESERVED"
  BY <1>1, <1>2
<1>3. a = After(t, n) /\ a \in Way(t) BY <1>1, <1>2, Underway
<1>4. /\ railswitch' = [railswitch EXCEPT ![n].last_route_id = RouteOf(t)]
      /\ in_msg' = [in_msg EXCEPT ![n] = m]
      /\ control_pc' = [control_pc EXCEPT ![n] = "suspended"]
      /\ IsSwitch(n)
      /\ UNCHANGED <<NODE_STATUS, CURRENT_HOST, OUT_CONTROL_QUEUE>>
  BY <1>1 DEF StartPositioning, Goto, NeedsPositioning
<1>5. PICK new : new = << >> OBVIOUS
<1>6. ForPartners(n, t, new) /\ \A b : Said(new, Leaving(t, b)) = {}
  BY <1>t, <1>5, SendsNothing
<1>7. /\ \A k \in Node \ {n} : railswitch'[k] = railswitch[k] /\ in_msg'[k] = in_msg[k]
      /\ railswitch'[n].last_route_id = RouteOf(t) /\ in_msg'[n] = m
      /\ control_pc'[n] = "suspended"
  BY <1>4 DEF CommitInv, Inv, TypeOK
<1>8. ControlStep(n, a, new, "WAIT_AGREE", "suspended")
  <2>1. OUT_CONTROL_QUEUE' = [OUT_CONTROL_QUEUE EXCEPT ![n] = @ \o new]
    <3>1. /\ OUT_CONTROL_QUEUE[n] \in Seq(tpcp_msg)
          /\ OUT_CONTROL_QUEUE \in [Node -> Seq(tpcp_msg)]
      BY DEF CommitInv, Inv, TypeOK
    <3>2. OUT_CONTROL_QUEUE[n] \o new = OUT_CONTROL_QUEUE[n] BY <1>5, <3>1
    <3> QED BY <1>4, <3>1, <3>2
  <2>2. NODE_STATUS' = [NODE_STATUS EXCEPT ![n] = "WAIT_AGREE"]
    BY <1>2, <1>4 DEF CommitInv, Inv, TypeOK
  <2> QED BY <1>1, <1>4, <1>7, <2>1, <2>2 DEF ControlStep
<1>9. ElementOK(n)'
  <2>1. Asking' = Asking /\ RouteOf(t)' = RouteOf(t) /\ Way(t)' = Way(t) BY <1>1, ScriptKept
  <2>2. NODE_STATUS'[n] = "WAIT_AGREE" /\ CURRENT_HOST'[n] = t /\ button'[n] = FALSE
    BY <1>1, <1>2, <1>4
  <2> QED BY <1>1, <1>4, <1>7, <2>1, <2>2 DEF ElementOK, Locked
<1>10. \A b : "REQ" \notin Said(new, Leaving(t, b)) BY <1>6
<1>11. ASSUME NEW b \in Way(t), b = After(t, n)
       PROVE  /\ UnderWay(t, n, b) = {} \/ Said(new, Leaving(t, b)) = {}
              /\ PairOK("WAIT_AGREE", StatusFor(t, b), UnderWay(t, n, b) \union Said(new, Leaving(t, b)),
                        IF b = a THEN {} ELSE UnderWay(t, b, n), "suspended", button[n], button[b])
  <2>1. PICK pc : pc \notin Waiting
    <3>1. "sensors" \notin Waiting BY DEF Waiting
    <3> QED BY <3>1
  <2>2. /\ UnderWay(t, n, b) = {}
        /\ PairOK("WAIT_AGREE", StatusFor(t, b), {}, {}, "suspended", button[n], button[b])
    BY <1>t, <1>1, <1>2, <1>3, <1>11, <2>1, Ahead
  <2> QED BY <1>3, <1>6, <1>11, <2>2
<1>12. ASSUME NEW b \in Way(t), n = After(t, b)
       PROVE  /\ UnderWay(t, n, b) = {} \/ Said(new, Leaving(t, b)) = {}
              /\ PairOK(StatusFor(t, b), "WAIT_AGREE", IF b = a THEN {} ELSE UnderWay(t, b, n),
                        UnderWay(t, n, b) \union Said(new, Leaving(t, b)),
                        control_pc[b], button[b], button[n])
  <2>1. b = Before(t, n) /\ b # After(t, n) BY <1>t, <1>12, Behind
  <2>2. /\ UnderWay(t, b, n) = {} /\ UnderWay(t, n, b) = {}
        /\ PairOK(StatusFor(t, b), "WAIT_AGREE", {}, {}, control_pc[b], button[b], button[n])
    BY <1>t, <1>2, <1>12, Behind
  <2> QED BY <1>3, <1>6, <2>1, <2>2
<1>13. PairsKept(n, t, a, new, "WAIT_AGREE", "suspended") BY <1>11, <1>12 DEF PairsKept
<1> QED BY <1>t, <1>6, <1>8, <1>9, <1>10, <1>13, ControlKeeps

\* The switch is in position and the element agrees, or it fails safe.
LEMMA AfterPositioningKeeps ==
  ASSUME CommitInv, Inv', NEW n \in Node, AfterPositioning(n)
  PROVE  CommitInv'
<1>1. PICK t, m : t = CURRENT_HOST[n] /\ m = in_msg[n] OBVIOUS
<1>2. Awaits(n) /\ control_pc[n] = "resumed" BY DEF AfterPositioning, Awaits, Waiting
<1>3. NODE_STATUS[n] = "WAIT_AGREE" /\ m \in tpcp_msg
  BY <1>1, <1>2 DEF CommitInv, Inv, ControlOK
<1>4. /\ m.host_id = t /\ m.command = "AGREE" /\ m.route_id = RouteOf(t) /\ IsSwitch(n)
      /\ t \in Asking /\ n \in Way(t) /\ current_route[n] = RouteOf(t)
      /\ railswitch[n].last_route_id = RouteOf(t) /\ button[n] = FALSE
  <2>1. ElementOK(n) /\ button[n] \in BOOLEAN BY DEF CommitInv, Inv, TypeOK
  <2>2. /\ t \in Asking /\ n \in Way(t) /\ current_route[n] = RouteOf(t)
    BY <1>1, <1>3, <2>1 DEF ElementOK
  <2>3. /\ m.host_id = t /\ m.command = "AGREE" /\ m.route_id = RouteOf(t) /\ IsSwitch(n)
        /\ railswitch[n].last_route_id = RouteOf(t)
    BY <1>1, <1>2, <2>1, <2>2 DEF ElementOK
  <2>4. button[n] = FALSE BY <1>3, <2>1 DEF ElementOK, Locked
  <2> QED BY <2>2, <2>3, <2>4
<1>5. StatusFor(t, n) = "WAIT_AGREE" BY <1>1, <1>3 DEF StatusFor
<1>t. t \in Asking /\ n \in Way(t) /\ t = CURRENT_HOST[n] /\ StatusFor(t, n) # "NOT_RESERVED"
  BY <1>1, <1>4, <1>5
<1>6. /\ in_msg' = [in_msg EXCEPT ![n] = NULL]
      /\ UNCHANGED <<current_route, CURRENT_HOST, sensor_on_detected, railswitch,
                    IN_CONTROL_QUEUE, sock, setting, button, keyboard>>
  BY DEF AfterPositioning, host
<1>7. \A k \in Node \ {n} : in_msg'[k] = in_msg[k] BY <1>6 DEF CommitInv, Inv, TypeOK
<1>8. CASE Positioned(n) /\ SwitchAgrees(n, m)
  <2>1. PICK new : new = forwardMsg(n, m, Before(t, n), "AGREE") OBVIOUS
  <2>2. LoopStart("RESERVED") = "sensors" BY DEF LoopStart, Locked
  <2>3. /\ OUT_CONTROL_QUEUE' = [OUT_CONTROL_QUEUE EXCEPT ![n] = @ \o new]
        /\ NODE_STATUS' = [NODE_STATUS EXCEPT ![n] = "RESERVED"]
        /\ control_pc' = [control_pc EXCEPT ![n] = "sensors"]
    BY <1>4, <1>8, <2>1, <2>2 DEF SwitchAgrees, Send, setNodeStatus, Goto, Before
  <2>4. ControlStep(n, n, new, "RESERVED", "sensors") BY <1>6, <1>7, <2>3 DEF ControlStep
  <2>5. CURRENT_HOST'[n] = t /\ current_route'[n] = RouteOf(t) BY <1>1, <1>4, <1>6
  <2>6. railswitch'[n] = [last_route_id |-> RouteOf(t), in_position |-> TRUE]
    BY <1>4, <1>6, <1>8, SwitchSet DEF Positioned
  <2>7. AgreementOf(n, t, new) BY <1>3, <1>4, <2>1 DEF AgreementOf, Command
  <2>8. Agreement(n, t, n, new) BY <1>t, <1>2, <1>4, <1>5, <2>4, <2>5, <2>6, <2>7 DEF Agreement
  <2> QED BY <1>t, <2>8, Agrees
<1>9. CASE /\ setNodeStatus(n, "FAIL_SAFE")
           /\ Send(n, forwardNotOk(n, m, RouteOf(t), n))
           /\ Goto(n, "message")
  <2>1. PICK q, p : q = After(t, n) /\ p = Before(t, n) OBVIOUS
  <2>2. /\ q # TAIL_ID /\ q \in Partners(t, n) /\ p \in Partners(t, n) /\ q # p /\ q # n /\ p # n
    BY <1>t, <1>4, <2>1, AtEdgeFacts, WayFacts
  <2>3. PICK new : new = forwardMsg(n, m, q, "NOT_OK") \o forwardMsg(n, m, p, "NOT_OK") OBVIOUS
  <2>4. forwardNotOk(n, m, RouteOf(t), n) = new
    BY <2>1, <2>2, <2>3 DEF forwardNotOk, Before, After
  <2>5. PICK command \in Command : command = "NOT_OK" BY DEF Command
  <2>6. /\ ForPartners(n, t, new)
        /\ \A b : Said(new, Leaving(t, b)) = IF b = q \/ b = p THEN {command} ELSE {}
    <3>1. new = forwardMsg(n, m, q, command) \o forwardMsg(n, m, p, command) BY <2>3, <2>5
    <3>2. /\ t \in Asking /\ n \in Way(t) /\ m \in tpcp_msg /\ m.host_id = t /\ m.route_id = RouteOf(t)
          /\ q \in Partners(t, n) /\ p \in Partners(t, n) /\ q # p
      BY <1>t, <1>3, <1>4, <2>2
    <3> QED BY <3>1, <3>2, SendsTwo
  <2>7. ControlStep(n, n, new, "FAIL_SAFE", "message")
    BY <1>6, <1>7, <1>9, <2>4 DEF ControlStep, setNodeStatus, Send, Goto
  <2>8. NODE_STATUS'[n] = "FAIL_SAFE" /\ control_pc'[n] = "message" /\ setting' = setting
    BY <2>7 DEF ControlStep, CommitInv, Inv, TypeOK
  <2>9. CURRENT_HOST'[n] = t /\ current_route'[n] = RouteOf(t) /\ button'[n] = FALSE
    BY <1>1, <1>4, <1>6
  <2>10. ElementOK(n)' BY <1>t, <2>8, <2>9, ElementAfter DEF Locked
  <2>11. \A b : "REQ" \notin Said(new, Leaving(t, b)) BY <2>5, <2>6
  <2>12. ASSUME NEW b \in Way(t), b = After(t, n)
         PROVE  /\ UnderWay(t, n, b) = {} \/ Said(new, Leaving(t, b)) = {}
                /\ PairOK("FAIL_SAFE", StatusFor(t, b), UnderWay(t, n, b) \union Said(new, Leaving(t, b)),
                          IF b = n THEN {} ELSE UnderWay(t, b, n), "message", button[n], button[b])
    <3>1. PICK pc : pc = "message" OBVIOUS
    <3>2. pc \notin Waiting BY <3>1 DEF Waiting
    <3>3. /\ UnderWay(t, n, b) = {} /\ UnderWay(t, b, n) = {}
          /\ PairOK("FAIL_SAFE", StatusFor(t, b), {"NOT_OK"}, {}, pc, button[n], button[b])
      BY <1>t, <1>2, <1>5, <2>12, <3>2, Ahead
    <3> QED BY <2>1, <2>5, <2>6, <2>12, <3>1, <3>3
  <2>13. ASSUME NEW b \in Way(t), n = After(t, b)
         PROVE  /\ UnderWay(t, n, b) = {} \/ Said(new, Leaving(t, b)) = {}
                /\ PairOK(StatusFor(t, b), "FAIL_SAFE", IF b = n THEN {} ELSE UnderWay(t, b, n),
                          UnderWay(t, n, b) \union Said(new, Leaving(t, b)),
                          control_pc[b], button[b], button[n])
    <3>1. b = Before(t, n) BY <1>t, <2>13, Behind
    <3>2. /\ UnderWay(t, b, n) = {} /\ UnderWay(t, n, b) = {}
          /\ PairOK(StatusFor(t, b), "FAIL_SAFE", {}, {"NOT_OK"}, control_pc[b], button[b], button[n])
      BY <1>t, <1>5, <2>13, Behind
    <3> QED BY <2>1, <2>5, <2>6, <3>1, <3>2
  <2>14. PairsKept(n, t, n, new, "FAIL_SAFE", "message") BY <2>12, <2>13 DEF PairsKept
  <2> QED BY <1>t, <2>6, <2>7, <2>10, <2>11, <2>14, ControlKeeps
<1> QED BY <1>1, <1>4, <1>8, <1>9 DEF AfterPositioning

\* An element that serves a train has one message of it to handle at most.
LEMMA OnlyMessage ==
  ASSUME CommitInv, NEW n \in Node, IN_CONTROL_QUEUE[n] # << >>,
         StatusFor(CURRENT_HOST[n], n) # "NOT_RESERVED"
  PROVE  Tail(IN_CONTROL_QUEUE[n]) = << >>
<1>1. IN_CONTROL_QUEUE[n] \in Seq(tpcp_msg) BY QueueTypes
<1>2. SUFFICES ASSUME 1 \in DOMAIN IN_CONTROL_QUEUE[n], 2 \in DOMAIN IN_CONTROL_QUEUE[n] PROVE FALSE
  <2> DEFINE in == IN_CONTROL_QUEUE[n]
  <2>1. in \in Seq(tpcp_msg) /\ in # << >> BY <1>1
  <2> HIDE DEF in
  <2>2. Len(in) \in Nat \ {0} /\ DOMAIN in = 1 .. Len(in) /\ Tail(in) \in Seq(tpcp_msg)
        /\ Len(Tail(in)) = Len(in) - 1
    BY <2>1
  <2>3. 2 \notin DOMAIN in => Len(in) = 1 BY <2>2
  <2>4. Len(in) = 1 => Tail(in) = << >>
    <3>1. PICK x \in Seq(tpcp_msg) : x = Tail(in) BY <2>2
    <3>2. Len(x) = 0 => x = << >> BY <3>1
    <3> QED BY <2>2, <3>1, <3>2
  <2>5. 1 \in DOMAIN in BY <2>2
  <2> QED BY <2>3, <2>4, <2>5 DEF in
<1>3. PICK t, m1, m2, a, b : /\ t = CURRENT_HOST[n]
                            /\ m1 = IN_CONTROL_QUEUE[n][1] /\ m2 = IN_CONTROL_QUEUE[n][2]
                            /\ a = m1.sender_id /\ b = m2.sender_id
  OBVIOUS
<1>4. /\ m1 \in tpcp_msg /\ m1.host_id = t /\ t \in Asking /\ n \in Way(t)
      /\ a \in Partners(t, n) /\ m1.command \in UnderWay(t, a, n)
  BY <1>2, <1>3, Arrived
<1>5. /\ m2 \in tpcp_msg /\ m2.host_id = t
      /\ b \in Partners(t, n) /\ m2.command \in UnderWay(t, b, n)
  BY <1>2, <1>3, Arrived
<1>6. UnderWay(t, a, n) # {} /\ UnderWay(t, b, n) # {} /\ StatusFor(t, n) # "NOT_RESERVED"
  BY <1>3, <1>4, <1>5
<1>7. a = b BY <1>4, <1>5, <1>6, OneAtATime
<1>8. Alone(t, a, n) BY <1>4 DEF CommitInv, TrainOK
<1>9. m1 \in Coming(t, a) /\ m2 \in Coming(t, a) BY <1>3, <1>4, <1>5, <1>7 DEF Coming
<1> QED BY <1>2, <1>3, <1>8, <1>9 DEF Alone, AtMostOne, Once

\* No train is on an element whose reservation is given up from behind.
LEMMA NotLetIn ==
  ASSUME CommitInv, NEW t \in Asking, NEW n \in Way(t), NEW p \in Way(t), n = After(t, p),
         UnderWay(t, p, n) = {"NOT_OK"}
  PROVE  button[n] = FALSE
<1> DEFINE sa == StatusFor(t, p)
           sb == StatusFor(t, n)
           f == UnderWay(t, p, n)
           g == UnderWay(t, n, p)
<1>1. PairOK(sa, sb, f, g, control_pc[p], button[p], button[n]) BY PairFacts
<1>2. f = {"NOT_OK"} OBVIOUS
<1>3. button[n] \in BOOLEAN BY PairFacts
<1> HIDE DEF sa, sb, f, g
<1>4. ~button[n] BY <1>1, <1>2 DEF PairOK, Quiet
<1> QED BY <1>3, <1>4

\* The reservation is given up, and the other neighbour is told.
LEMMA NotOkKeeps ==
  ASSUME CommitInv, Inv', NEW n \in Node, HandleNotOk(n)
  PROVE  CommitInv'
<1>1. PICK m, t, a :
        /\ m = Received(n) /\ t = CURRENT_HOST[n] /\ a = m.sender_id
        /\ IN_CONTROL_QUEUE[n] # << >> /\ control_pc[n] = "message"
        /\ m \in tpcp_msg /\ m.host_id = t /\ m.route_id = RouteOf(t) /\ m.command = "NOT_OK"
        /\ t \in Asking /\ n \in Way(t)
        /\ a \in Partners(t, n) /\ a # n /\ UnderWay(t, a, n) = {"NOT_OK"}
        /\ NODE_STATUS[n] \in Engaged \union {"RESERVED"} /\ StatusFor(t, n) = NODE_STATUS[n]
        /\ IN_CONTROL_QUEUE' = [IN_CONTROL_QUEUE EXCEPT ![n] = Tail(@)]
        /\ \A k \in Node \ {n} : current_route'[k] = current_route[k]
        /\ current_route'[n] = RouteOf(t)
        /\ UNCHANGED <<sensor_on_detected, sock, setting, button, keyboard>>
        /\ NODE_STATUS[n] \notin Locked => button[n] = FALSE
  BY Handling DEF HandleNotOk
<1>t. t \in Asking /\ n \in Way(t) /\ t = CURRENT_HOST[n] /\ StatusFor(t, n) # "NOT_RESERVED"
  BY <1>1 DEF Engaged
<1>2. /\ NODE_STATUS' = [NODE_STATUS EXCEPT ![n] = "NOT_RESERVED"]
      /\ CURRENT_HOST' = [CURRENT_HOST EXCEPT ![n] = NO_HOST]
      /\ OUT_CONTROL_QUEUE' = [OUT_CONTROL_QUEUE EXCEPT ![n] = @ \o forwardNotOk(n, m, RouteOf(t), a)]
      /\ control_pc' = [control_pc EXCEPT ![n] = "message"]
      /\ UNCHANGED <<in_msg, railswitch>>
  BY <1>1 DEF HandleNotOk, setNodeStatus, Send, Goto
<1>3. IN_CONTROL_QUEUE'[n] = << >>
  <2>1. IN_CONTROL_QUEUE'[n] = Tail(IN_CONTROL_QUEUE[n]) BY <1>1 DEF CommitInv, Inv, TypeOK
  <2> QED BY <1>1, <1>t, <2>1, OnlyMessage
<1>4. PICK p, q : p = Before(t, n) /\ q = After(t, n) OBVIOUS
<1>5. /\ p \in Partners(t, n) /\ p # q /\ p # n /\ q # n
      /\ q # TAIL_ID => q \in Partners(t, n)
  BY <1>t, <1>4, AtEdgeFacts, WayFacts
<1>6. \/ /\ a = p /\ a \in Way(t) /\ n = After(t, a) /\ StatusFor(t, n) = "RESERVED"
      \/ a = q /\ a \in Way(t) /\ StatusFor(t, n) \in {"WAIT_ACK", "WAIT_AGREE"}
  BY <1>1, <1>t, <1>4, Underway
<1>7. PICK command \in Command : command = "NOT_OK" BY DEF Command
\* The one who is told, if anyone is.
<1>8. PICK new :
        /\ new = forwardNotOk(n, m, RouteOf(t), a)
        /\ \/ a = p /\ q # TAIL_ID /\ new = forwardMsg(n, m, q, command)
           \/ a = p /\ q = TAIL_ID /\ new = << >>
           \/ a = q /\ new = forwardMsg(n, m, p, command)
  <2>1. PICK new : new = forwardNotOk(n, m, RouteOf(t), a) OBVIOUS
  <2>2. /\ forwardMsg(n, m, q, "NOT_OK") \in Seq(tpcp_msg) \/ q = TAIL_ID
        /\ forwardMsg(n, m, p, "NOT_OK") \in Seq(tpcp_msg)
    BY <1>1, <1>5, PartnerFacts, ForwardType DEF Command, Id
  <2>3. CASE a = p /\ q # TAIL_ID
    <3>1. new = forwardMsg(n, m, q, "NOT_OK") \o << >>
      BY <1>4, <1>5, <2>1, <2>3 DEF forwardNotOk, Before, After
    <3>2. PICK x \in Seq(tpcp_msg) : x = forwardMsg(n, m, q, "NOT_OK") BY <2>2, <2>3
    <3>3. x \o << >> = x OBVIOUS
    <3>4. new = forwardMsg(n, m, q, command) BY <1>7, <3>1, <3>2, <3>3
    <3> QED BY <2>1, <2>3, <3>4
  <2>4. CASE a = p /\ q = TAIL_ID
    <3>1. new = << >> \o << >> BY <1>1, <1>4, <1>5, <2>1, <2>4 DEF forwardNotOk, Before, After
    <3> QED BY <2>1, <2>4, <3>1
  <2>5. CASE a = q /\ a \in Way(t)
    <3>1. new = << >> \o forwardMsg(n, m, p, "NOT_OK")
      BY <1>1, <1>4, <1>5, <2>1, <2>5 DEF forwardNotOk, Before, After
    <3>2. PICK x \in Seq(tpcp_msg) : x = forwardMsg(n, m, p, "NOT_OK") BY <2>2
    <3>3. << >> \o x = x OBVIOUS
    <3>4. new = forwardMsg(n, m, p, command) BY <1>7, <3>1, <3>2, <3>3
    <3> QED BY <2>1, <2>5, <3>4
  <2> QED BY <1>6, <2>3, <2>4, <2>5
<1>9. /\ ForPartners(n, t, new)
      /\ \A b \in Way(t) : Said(new, Leaving(t, b)) =
           IF b # a /\ (b = p \/ b = q) THEN {"NOT_OK"} ELSE {}
      /\ \A b : "REQ" \notin Said(new, Leaving(t, b))
  <2>1. t \in Asking /\ n \in Way(t) /\ m \in tpcp_msg /\ m.host_id = t /\ m.route_id = RouteOf(t)
    BY <1>1
  <2>2. CASE a = p /\ q # TAIL_ID /\ new = forwardMsg(n, m, q, command)
    <3>1. /\ ForPartners(n, t, new)
          /\ \A b : Said(new, Leaving(t, b)) = IF b = q THEN {command} ELSE {}
      BY <1>5, <2>1, <2>2, SendsOne
    <3> QED BY <1>5, <1>7, <2>2, <3>1
  <2>3. CASE a = p /\ q = TAIL_ID /\ new = << >>
    <3>1. ForPartners(n, t, new) /\ \A b : Said(new, Leaving(t, b)) = {} BY <2>1, <2>3, SendsNothing
    <3>2. TAIL_ID \notin Way(t) BY <1>t, WayFacts
    <3> QED BY <2>3, <3>1, <3>2
  <2>4. CASE a = q /\ new = forwardMsg(n, m, p, command)
    <3>1. /\ ForPartners(n, t, new)
          /\ \A b : Said(new, Leaving(t, b)) = IF b = p THEN {command} ELSE {}
      BY <1>5, <2>1, <2>4, SendsOne
    <3> QED BY <1>5, <1>7, <2>4, <3>1
  <2> QED BY <1>8, <2>2, <2>3, <2>4
<1>10. ControlStep(n, a, new, "NOT_RESERVED", "message")
  BY <1>1, <1>2, <1>3, <1>8 DEF ControlStep
<1>11. button[n] = FALSE
  <2>1. CASE StatusFor(t, n) = "RESERVED" /\ a \in Way(t) /\ n = After(t, a)
    BY <1>1, <1>t, <2>1, NotLetIn
  <2>2. CASE StatusFor(t, n) \in {"WAIT_ACK", "WAIT_AGREE"} BY <1>1, <2>2 DEF Locked
  <2> QED BY <1>6, <2>1, <2>2
<1>12. ElementOK(n)'
  <2>1. /\ NODE_STATUS'[n] = "NOT_RESERVED" /\ control_pc'[n] = "message" /\ setting' = setting
        /\ CURRENT_HOST'[n] = NO_HOST /\ button'[n] = FALSE
    BY <1>1, <1>2, <1>11 DEF CommitInv, Inv, TypeOK
  <2> QED BY <1>t, <2>1, ElementAfter DEF Locked
<1>13. ASSUME NEW b \in Way(t), b = After(t, n)
       PROVE  /\ UnderWay(t, n, b) = {} \/ Said(new, Leaving(t, b)) = {}
              /\ PairOK("NOT_RESERVED", StatusFor(t, b), UnderWay(t, n, b) \union Said(new, Leaving(t, b)),
                        IF b = a THEN {} ELSE UnderWay(t, b, n), "message", button[n], button[b])
  <2>1. PICK pc : pc = "message" OBVIOUS
  <2>2. pc \notin Waiting BY <2>1 DEF Waiting
  <2>3. b = q /\ b # p BY <1>4, <1>5, <1>13
  <2>4. CASE b = a
    <3>1. UnderWay(t, b, n) = {"NOT_OK"} BY <1>1, <2>4
    <3>2. /\ UnderWay(t, n, b) = {}
          /\ PairOK("NOT_RESERVED", StatusFor(t, b), {}, {}, pc, button[n], button[b])
      BY <1>t, <1>13, <2>2, <3>1, Ahead
    <3> QED BY <1>9, <2>1, <2>4, <3>2
  <2>5. CASE b # a
    <3>1. StatusFor(t, n) = "RESERVED" BY <1>6, <2>3, <2>5
    <3>2. /\ UnderWay(t, n, b) = {} /\ UnderWay(t, b, n) = {}
          /\ PairOK("NOT_RESERVED", StatusFor(t, b), {"NOT_OK"}, {}, pc, button[n], button[b])
      BY <1>t, <1>13, <2>2, <3>1, Ahead
    <3> QED BY <1>9, <2>1, <2>3, <2>5, <3>2
  <2> QED BY <2>4, <2>5
<1>14. ASSUME NEW b \in Way(t), n = After(t, b)
       PROVE  /\ UnderWay(t, n, b) = {} \/ Said(new, Leaving(t, b)) = {}
              /\ PairOK(StatusFor(t, b), "NOT_RESERVED", IF b = a THEN {} ELSE UnderWay(t, b, n),
                        UnderWay(t, n, b) \union Said(new, Leaving(t, b)),
                        control_pc[b], button[b], button[n])
  <2>1. b = p /\ b # q BY <1>t, <1>4, <1>5, <1>14, Behind
  <2>2. CASE b = a
    <3>1. UnderWay(t, b, n) = {"NOT_OK"} BY <1>1, <2>2
    <3>2. /\ UnderWay(t, n, b) = {}
          /\ PairOK(StatusFor(t, b), "NOT_RESERVED", {}, {}, control_pc[b], button[b], button[n])
      BY <1>t, <1>14, <3>1, Behind
    <3> QED BY <1>9, <2>2, <3>2
  <2>3. CASE b # a
    <3>1. StatusFor(t, n) = "WAIT_ACK" \/ StatusFor(t, n) = "WAIT_AGREE" BY <1>6, <2>1, <2>3
    <3>2. /\ UnderWay(t, b, n) = {} /\ UnderWay(t, n, b) = {}
          /\ PairOK(StatusFor(t, b), "NOT_RESERVED", {}, {"NOT_OK"}, control_pc[b], button[b], button[n])
      BY <1>t, <1>14, <3>1, Behind
    <3> QED BY <1>9, <2>1, <2>3, <3>2
  <2> QED BY <2>2, <2>3
<1>15. PairsKept(n, t, a, new, "NOT_RESERVED", "message") BY <1>13, <1>14 DEF PairsKept
<1>16. \A b : "REQ" \notin Said(new, Leaving(t, b)) BY <1>9
<1> QED BY <1>t, <1>9, <1>10, <1>12, <1>15, <1>16, ControlKeeps

\* The train presses the button of n, or has left it.
LEMMA ButtonsKeep ==
  ASSUME CommitInv, Inv', NEW n \in Node, ButtonOn(n) \/ ButtonOff(n)
  PROVE  CommitInv'
<1>1. /\ OUT_CONTROL_QUEUE[n] \in Seq(tpcp_msg) /\ OUT_CONTROL_QUEUE \in [Node -> Seq(tpcp_msg)]
      /\ ElementOK(n) /\ button[n] \in BOOLEAN
  BY DEF CommitInv, Inv, TypeOK
<1>2. PICK t, new : t = CURRENT_HOST[n] /\ new = << >> OBVIOUS
<1>3. /\ NODE_STATUS[n] \in Locked
      /\ UNCHANGED <<current_route, in_msg, railswitch, queues, sock, setting, button, keyboard>>
  BY DEF ButtonOn, ButtonOff, Locked, host
<1>t. t \in Asking /\ n \in Way(t) /\ t = CURRENT_HOST[n] /\ current_route[n] = RouteOf(t)
      /\ StatusFor(t, n) = NODE_STATUS[n] /\ StatusFor(t, n) # "NOT_RESERVED"
  BY <1>1, <1>2, <1>3, StatusFacts DEF ElementOK, Locked
<1>4. ForPartners(n, t, new) /\ \A b : Said(new, Leaving(t, b)) = {} BY <1>t, <1>2, SendsNothing
<1>5. \A b : "REQ" \notin Said(new, Leaving(t, b)) BY <1>4
<1>6. OUT_CONTROL_QUEUE' = [OUT_CONTROL_QUEUE EXCEPT ![n] = @ \o new]
  <2>1. OUT_CONTROL_QUEUE[n] \o new = OUT_CONTROL_QUEUE[n] BY <1>1, <1>2
  <2> QED BY <1>1, <1>3, <2>1 DEF queues
<1>7. n # After(t, n) /\ n # Before(t, n) BY <1>t, WayFacts
<1>8. PICK pc : pc = "message" OBVIOUS
<1>9. pc \notin Waiting BY <1>8 DEF Waiting
<1>10. CASE ButtonOn(n)
  <2>1. /\ NODE_STATUS' = [NODE_STATUS EXCEPT ![n] = "TRAIN_IN_TRANSITION"]
        /\ control_pc' = [control_pc EXCEPT ![n] = "message"]
        /\ CURRENT_HOST' = CURRENT_HOST
        /\ StatusFor(t, n) = "RESERVED" /\ button[n] = TRUE
    BY <1>1, <1>10, <1>t DEF ButtonOn, setNodeStatus, Goto
  <2>2. ControlStep(n, n, new, "TRAIN_IN_TRANSITION", pc)
    BY <1>3, <1>6, <1>8, <2>1 DEF ControlStep, queues
  <2>3. ElementOK(n)'
    <3>1. NODE_STATUS'[n] = "TRAIN_IN_TRANSITION" /\ control_pc'[n] = "message"
      BY <2>1 DEF CommitInv, Inv, TypeOK
    <3>2. IsSwitch(n) => railswitch'[n] = [last_route_id |-> RouteOf(t), in_position |-> TRUE]
      BY <1>1, <1>3, <1>t DEF ElementOK
    <3> QED BY <1>t, <1>3, <2>1, <3>1, <3>2, ElementAfter DEF Locked
  <2>4. ASSUME NEW b \in Way(t), b = After(t, n)
        PROVE  /\ UnderWay(t, n, b) = {} \/ Said(new, Leaving(t, b)) = {}
               /\ PairOK("TRAIN_IN_TRANSITION", StatusFor(t, b),
                         UnderWay(t, n, b) \union Said(new, Leaving(t, b)),
                         IF b = n THEN {} ELSE UnderWay(t, b, n), pc, button[n], button[b])
    <3>1. /\ UnderWay(t, n, b) = {} /\ UnderWay(t, b, n) = {}
          /\ PairOK("TRAIN_IN_TRANSITION", StatusFor(t, b), {}, {}, pc, button[n], button[b])
      BY <1>t, <1>9, <2>1, <2>4, Ahead
    <3> QED BY <1>4, <1>7, <2>4, <3>1
  <2>5. ASSUME NEW b \in Way(t), n = After(t, b)
        PROVE  /\ UnderWay(t, n, b) = {} \/ Said(new, Leaving(t, b)) = {}
               /\ PairOK(StatusFor(t, b), "TRAIN_IN_TRANSITION", IF b = n THEN {} ELSE UnderWay(t, b, n),
                         UnderWay(t, n, b) \union Said(new, Leaving(t, b)),
                         control_pc[b], button[b], button[n])
    <3>1. /\ UnderWay(t, n, b) = {} /\ UnderWay(t, b, n) = {} /\ b # n
          /\ PairOK(StatusFor(t, b), "TRAIN_IN_TRANSITION", {}, {}, control_pc[b], button[b], button[n])
      BY <1>t, <2>1, <2>5, Behind
    <3> QED BY <1>4, <3>1
  <2>6. PairsKept(n, t, n, new, "TRAIN_IN_TRANSITION", pc) BY <2>4, <2>5 DEF PairsKept
  <2> QED BY <1>t, <1>4, <1>5, <2>2, <2>3, <2>6, ControlKeeps
<1>11. CASE ButtonOff(n)
  <2>1. /\ NODE_STATUS' = [NODE_STATUS EXCEPT ![n] = "NOT_RESERVED"]
        /\ control_pc' = [control_pc EXCEPT ![n] = "message"]
        /\ CURRENT_HOST' = [CURRENT_HOST EXCEPT ![n] = NO_HOST]
        /\ StatusFor(t, n) = "TRAIN_IN_TRANSITION" /\ button[n] = FALSE
    BY <1>1, <1>11, <1>t DEF ButtonOff, setNodeStatus, Goto
  \* Nothing comes to an element that a train is on.
  <2>2. IN_CONTROL_QUEUE[n] = << >>
    <3> SUFFICES ASSUME IN_CONTROL_QUEUE[n] # << >> PROVE FALSE OBVIOUS
    <3>1. PICK m, a : m = Received(n) /\ a = m.sender_id OBVIOUS
    <3>t. t = CURRENT_HOST[n] BY <1>t
    <3>2. a \in Partners(t, n) /\ UnderWay(t, a, n) = {m.command} BY <3>t, <3>1, Expects
    <3>3. UnderWay(t, a, n) # {} BY <3>2
    <3> QED BY <1>t, <2>1, <3>2, <3>3, Underway
  <2>3. ControlStep(n, n, new, "NOT_RESERVED", pc)
    BY <1>3, <1>6, <1>8, <2>1, <2>2 DEF ControlStep, queues
  <2>4. ElementOK(n)'
    <3>1. NODE_STATUS'[n] = "NOT_RESERVED" /\ control_pc'[n] = "message" /\ CURRENT_HOST'[n] = NO_HOST
      BY <2>1 DEF CommitInv, Inv, TypeOK
    <3>2. button'[n] = FALSE BY <1>3, <2>1
    <3> QED BY <1>t, <1>3, <2>1, <3>1, <3>2, ElementAfter
  <2>5. ASSUME NEW b \in Way(t), b = After(t, n)
        PROVE  /\ UnderWay(t, n, b) = {} \/ Said(new, Leaving(t, b)) = {}
               /\ PairOK("NOT_RESERVED", StatusFor(t, b),
                         UnderWay(t, n, b) \union Said(new, Leaving(t, b)),
                         IF b = n THEN {} ELSE UnderWay(t, b, n), pc, button[n], button[b])
    <3>1. /\ UnderWay(t, n, b) = {} /\ UnderWay(t, b, n) = {}
          /\ PairOK("NOT_RESERVED", StatusFor(t, b), {}, {}, pc, button[n], button[b])
      BY <1>t, <1>9, <2>1, <2>5, Ahead
    <3> QED BY <1>4, <1>7, <2>5, <3>1
  <2>6. ASSUME NEW b \in Way(t), n = After(t, b)
        PROVE  /\ UnderWay(t, n, b) = {} \/ Said(new, Leaving(t, b)) = {}
               /\ PairOK(StatusFor(t, b), "NOT_RESERVED", IF b = n THEN {} ELSE UnderWay(t, b, n),
                         UnderWay(t, n, b) \union Said(new, Leaving(t, b)),
                         control_pc[b], button[b], button[n])
    <3>1. /\ UnderWay(t, n, b) = {} /\ UnderWay(t, b, n) = {} /\ b # n
          /\ PairOK(StatusFor(t, b), "NOT_RESERVED", {}, {}, control_pc[b], button[b], button[n])
      BY <1>t, <2>1, <2>6, Behind
    <3> QED BY <1>4, <3>1
  <2>7. PairsKept(n, t, n, new, "NOT_RESERVED", pc) BY <2>5, <2>6 DEF PairsKept
  <2> QED BY <1>t, <1>4, <1>5, <2>3, <2>4, <2>7, ControlKeeps
<1> QED BY <1>10, <1>11

-----------------------------------------------------------------------------
(* The steps that move no train and no lock.                               *)

\* Nothing that the invariant looks at changes for the elements and messages.
Still ==
  /\ UNCHANGED <<NODE_STATUS, current_route, CURRENT_HOST, IN_CONTROL_QUEUE,
                 OUT_CONTROL_QUEUE, sock, setting, button, keyboard>>
  /\ \A k \in Node : Awaits(k)' = Awaits(k)

\* Then trains and messages are as they were.
LEMMA StillKeeps ==
  ASSUME CommitInv, Still
  PROVE  /\ Scripted' /\ MessagesOK' /\ Asking' = Asking
         /\ \A u \in Asking : TrainOK(u)'
<1>1. /\ Asking' = Asking
      /\ \A u : RouteOf(u)' = RouteOf(u) /\ Way(u)' = Way(u) /\ \A k : Partners(u, k)' = Partners(u, k)
  BY ScriptKept DEF Still
<1>2. Scripted' BY DEF Still, CommitInv, Scripted
<1>3. MessagesOK'
  <2>1. ASSUME NEW k \in Node, NEW i \in DOMAIN OUT_CONTROL_QUEUE[k],
               NEW x, x = OUT_CONTROL_QUEUE[k][i]
        PROVE  OutgoingOK(k, x)'
    <3>1. OutgoingOK(k, x) BY <2>1 DEF CommitInv, MessagesOK
    <3> QED BY <1>1, <3>1 DEF OutgoingOK
  <2>2. ASSUME NEW c \in Channel, NEW i \in DOMAIN sock[c], NEW x, x = sock[c][i],
               NEW a, a = c[1], NEW b, b = c[2]
        PROVE  WireOK(a, b, x)'
    <3>1. WireOK(a, b, x) BY <2>2 DEF CommitInv, MessagesOK
    <3> QED BY <1>1, <3>1 DEF WireOK
  <2>3. ASSUME NEW k \in Node, NEW i \in DOMAIN IN_CONTROL_QUEUE[k],
               NEW x, x = IN_CONTROL_QUEUE[k][i]
        PROVE  IncomingOK(k, x)'
    <3>1. IncomingOK(k, x) BY <2>3 DEF CommitInv, MessagesOK
    <3> QED BY <1>1, <3>1 DEF IncomingOK, Still
  <2>4. keyboard \subseteq setting.commands BY DEF CommitInv, MessagesOK
  <2> QED BY <2>1, <2>2, <2>3, <2>4 DEF MessagesOK, Still
<1>4. ASSUME NEW u \in Asking PROVE TrainOK(u)'
  <2>1. \A k \in Way(u) : k \in Node BY WayFacts
  <2>2. button' \in [Node -> BOOLEAN] BY DEF Still, CommitInv, Inv, TypeOK
  <2>3. \A k \in Way(u) : StatusFor(u, k)' = StatusFor(u, k) BY DEF StatusFor, Still
  <2>4. ASSUME NEW b \in Way(u), NEW a \in Partners(u, b)
        PROVE  UnderWay(u, a, b)' = UnderWay(u, a, b) /\ Alone(u, a, b)'
    BY PipeSame DEF Still
  <2>5. setting' = setting /\ keyboard' = keyboard /\ button' = button BY DEF Still
  <2>6. \A k \in Way(u) : Awaits(k)' = Awaits(k) BY <2>1 DEF Still
  <2> QED BY <2>2, <2>3, <2>4, <2>5, <2>6, TrainSame
<1> QED BY <1>1, <1>2, <1>3, <1>4

\* The task goes round its loop, or the switch reaches an end position.
LEMMA AsideKeeps ==
  ASSUME CommitInv, Inv', NEW n \in Node, NoSensor(n) \/ NoMessage(n) \/ PositioningMain(n)
  PROVE  CommitInv'
<1>1. ElementOK(n) /\ ControlOK(n) /\ TypeOK BY DEF CommitInv, Inv
<1>2. /\ UNCHANGED <<NODE_STATUS, current_route, in_msg, CURRENT_HOST, IN_CONTROL_QUEUE,
                     OUT_CONTROL_QUEUE, sock, setting, button, keyboard>>
      /\ \A k \in Node \ {n} : control_pc'[k] = control_pc[k] /\ railswitch'[k] = railswitch[k]
      /\ \/ /\ control_pc[n] \in {"sensors", "message"} /\ control_pc'[n] \in {"sensors", "message"}
            /\ railswitch'[n] = railswitch[n]
         \/ /\ control_pc[n] = "suspended" /\ control_pc'[n] = "resumed"
            /\ railswitch'[n].last_route_id = railswitch[n].last_route_id
  <2>1. CASE NoSensor(n)
    BY <1>1, <2>1 DEF NoSensor, Goto, queues, host, TypeOK
  <2>2. CASE NoMessage(n)
    <3>1. LoopStart(NODE_STATUS[n]) = "sensors" BY <2>2 DEF NoMessage, LoopStart
    <3> QED BY <1>1, <2>2, <3>1 DEF NoMessage, Goto, queues, host, TypeOK
  <2>3. CASE PositioningMain(n)
    <3>1. PICK moved : railswitch' = [railswitch EXCEPT ![n].in_position = moved]
      BY <2>3 DEF PositioningMain
    <3>2. /\ railswitch'[n].last_route_id = railswitch[n].last_route_id
          /\ \A k \in Node \ {n} : railswitch'[k] = railswitch[k]
      BY <1>1, <3>1 DEF TypeOK
    <3> QED BY <1>1, <2>3, <3>2 DEF PositioningMain, Goto, queues, host, TypeOK
  <2> QED BY <2>1, <2>2, <2>3
<1>3. \A k \in Node : Awaits(k)' = Awaits(k) BY <1>2 DEF Awaits, Waiting
<1>4. Still BY <1>2, <1>3 DEF Still
<1>5. Scripted' /\ MessagesOK' /\ Asking' = Asking /\ \A u \in Asking : TrainOK(u)'
  BY <1>4, StillKeeps
<1>6. \A u : RouteOf(u)' = RouteOf(u) /\ Way(u)' = Way(u) BY <1>2, ScriptKept
<1>7. ASSUME NEW k \in Node PROVE ElementOK(k)'
  <2>1. ElementOK(k) BY DEF CommitInv
  <2>2. CASE k # n BY <1>2, <1>3, <1>5, <1>6, <2>1, <2>2 DEF ElementOK
  <2>3. CASE k = n /\ railswitch'[n] = railswitch[n] /\ control_pc'[n] \in {"sensors", "message"}
    BY <1>2, <1>3, <1>5, <1>6, <2>1, <2>3 DEF ElementOK
  <2>4. CASE k = n /\ control_pc[n] = "suspended" /\ control_pc'[n] = "resumed"
    <3>1. NODE_STATUS[n] = "WAIT_AGREE" BY <1>1, <2>4 DEF ControlOK
    <3>2. railswitch'[n].last_route_id = railswitch[n].last_route_id BY <1>2, <2>4
    <3> QED BY <1>2, <1>3, <1>5, <1>6, <2>1, <2>4, <3>1, <3>2 DEF ElementOK, Locked
  <2> QED BY <1>2, <2>2, <2>3, <2>4
<1> QED BY <1>5, <1>7 DEF CommitInv

\* A control task is only sent what it expects.
LEMMA OnlyExpected ==
  ASSUME CommitInv, NEW n \in Node, IN_CONTROL_QUEUE[n] # << >>
  PROVE  /\ Received(n).command \in Expected(NODE_STATUS[n])
         /\ Received(n).command # "SENSOR_OFF"
         /\ Received(n).route_id \in node_routes(n)
<1>1. PICK m, t, a : m = Received(n) /\ t = CURRENT_HOST[n] /\ a = m.sender_id OBVIOUS
<1>2. /\ t \in Asking /\ n \in Way(t) /\ a \in Partners(t, n) /\ UnderWay(t, a, n) = {m.command}
      /\ m.route_id = RouteOf(t) /\ RouteOf(t) \in node_routes(n)
      /\ StatusFor(t, n) = NODE_STATUS[n]
  <2>1. t \in Asking /\ n \in Way(t) BY <1>1, Expects
  <2>2. a \in Partners(t, n) /\ UnderWay(t, a, n) = {m.command} BY <1>1, Expects
  <2>3. m.route_id = RouteOf(t) /\ RouteOf(t) \in node_routes(n) BY <1>1, Expects
  <2>4. StatusFor(t, n) = NODE_STATUS[n] BY <1>1, Expects
  <2> QED BY <2>1, <2>2, <2>3, <2>4
<1>3. UnderWay(t, a, n) # {} BY <1>2
<1>4. \/ UnderWay(t, a, n) = {"REQ"} /\ StatusFor(t, n) = "NOT_RESERVED"
      \/ UnderWay(t, a, n) = {"COMMIT"} /\ StatusFor(t, n) = "WAIT_COMMIT"
      \/ UnderWay(t, a, n) = {"NOT_OK"} /\ StatusFor(t, n) \in {"RESERVED", "WAIT_ACK", "WAIT_AGREE"}
      \/ UnderWay(t, a, n) = {"ACK"} /\ StatusFor(t, n) = "WAIT_ACK"
      \/ UnderWay(t, a, n) = {"AGREE"} /\ StatusFor(t, n) = "WAIT_AGREE"
  BY <1>2, <1>3, Underway
<1>5. \/ m.command = "REQ" /\ NODE_STATUS[n] = "NOT_RESERVED"
      \/ m.command = "COMMIT" /\ NODE_STATUS[n] = "WAIT_COMMIT"
      \/ m.command = "NOT_OK" /\ NODE_STATUS[n] \in {"RESERVED", "WAIT_ACK", "WAIT_AGREE"}
      \/ m.command = "ACK" /\ NODE_STATUS[n] = "WAIT_ACK"
      \/ m.command = "AGREE" /\ NODE_STATUS[n] = "WAIT_AGREE"
  BY <1>2, <1>4
<1> QED BY <1>1, <1>2, <1>5 DEF Expected

\* Every step of a control task.
LEMMA ControlMainKeeps ==
  ASSUME CommitInv, Inv', NEW n \in Node, controlMain(n)
  PROVE  CommitInv'
<1>1. /\ ~setting.SIM_SENSOR /\ control_pc[n] # "reset"
      /\ IN_CONTROL_QUEUE[n] # << >> =>
           /\ Received(n).command \in Expected(NODE_STATUS[n])
           /\ Received(n).command # "SENSOR_OFF"
           /\ Received(n).route_id \in node_routes(n)
  BY OnlyExpected DEF CommitInv, Scripted, ElementOK
<1>2. ~SensorOn(n) /\ ~SensorOff(n) /\ ~ResetNodeStatus(n)
  BY <1>1 DEF SensorOn, SensorOff, ResetNodeStatus
<1>3. ~RelaySensorOff(n)
  BY <1>1 DEF RelaySensorOff, Receives, IsRelayed
<1>4. ~UnknownRoute(n) BY <1>1 DEF UnknownRoute, Receives
<1>5. ~AnswerFailSafe(n) /\ ~HandleErrorMsg(n)
  BY <1>1 DEF AnswerFailSafe, HandleErrorMsg, Dispatched, Receives, Expected
<1> QED BY <1>2, <1>3, <1>4, <1>5, ButtonsKeep, AsideKeeps, ReqKeeps, AckKeeps, CommitKeeps,
           AgreeKeeps, StartPositioningKeeps, NotOkKeeps, AfterPositioningKeeps
       DEF controlMain, Sensors, Message

-----------------------------------------------------------------------------
(* The steps of the communication tasks.                                   *)

\* The communication task of n lets a message of s in: it stays under way.
LEMMA DeliverEffect ==
  ASSUME CommitInv, NEW n \in Node, NEW s, <<s, n>> \in Channel, sock[<<s, n>>] # << >>,
         NEW m \in tpcp_msg, m.sender_id = s,
         m.command = Head(sock[<<s, n>>]).command, m.host_id = Head(sock[<<s, n>>]).host_id,
         sock' = [sock EXCEPT ![<<s, n>>] = Tail(@)],
         IN_CONTROL_QUEUE' = [IN_CONTROL_QUEUE EXCEPT ![n] = Append(@, m)],
         OUT_CONTROL_QUEUE' = OUT_CONTROL_QUEUE,
         NEW v \in Asking, NEW b \in Way(v), NEW a \in Partners(v, b)
  PROVE  UnderWay(v, a, b)' = UnderWay(v, a, b) /\ Alone(v, a, b)'
<1>1. b \in Node /\ <<a, b>> \in Channel BY PartnerFacts
<1>2. sock[<<s, n>>] \in Seq(Wire) /\ IN_CONTROL_QUEUE[n] \in Seq(tpcp_msg) BY QueueTypes
<1>3. /\ sock'[<<s, n>>] = Tail(sock[<<s, n>>])
      /\ \A c \in Channel : c # <<s, n>> => sock'[c] = sock[c]
      /\ IN_CONTROL_QUEUE'[n] = Append(IN_CONTROL_QUEUE[n], m)
      /\ \A k \in Node \ {n} : IN_CONTROL_QUEUE'[k] = IN_CONTROL_QUEUE[k]
  BY DEF CommitInv, Inv, TypeOK
<1>4. Alone(v, a, b) BY DEF CommitInv, TrainOK
<1>5. OutOf(a)' = OutOf(a) BY DEF OutOf
<1> DEFINE out == OutOf(a)
           wire == sock[<<a, b>>]
           in == IN_CONTROL_QUEUE[b]
<1>6. /\ UnderWay(v, a, b) = Between(out, wire, in, v, a, b)
      /\ AtMostOne(out, wire, in, v, a, b)
  BY <1>4 DEF UnderWay, Alone
<1>7. CASE b # n
  <2>1. <<a, b>> # <<s, n>> BY <1>7
  <2> QED BY <1>1, <1>3, <1>7, <2>1, PipeSame
<1>8. CASE b = n /\ a = s
  <2>1. wire \in Seq(Wire) /\ wire # << >> /\ in \in Seq(tpcp_msg) BY <1>2, <1>8
  <2>2. m.command = Head(wire).command /\ m.host_id = Head(wire).host_id /\ m.sender_id = a BY <1>8
  <2>3. /\ UnderWay(v, a, b)' = Between(out, Tail(wire), Append(in, m), v, a, b)
        /\ Alone(v, a, b)' = AtMostOne(out, Tail(wire), Append(in, m), v, a, b)
    BY <1>3, <1>5, <1>8 DEF UnderWay, Alone
  <2> HIDE DEF out, wire, in
  <2>4. /\ Between(out, Tail(wire), Append(in, m), v, a, b) = Between(out, wire, in, v, a, b)
        /\ AtMostOne(out, Tail(wire), Append(in, m), v, a, b)
    BY <1>6, <2>1, <2>2, Delivering
  <2> QED BY <1>6, <2>3, <2>4
<1>9. CASE b = n /\ a # s
  <2>1. in \in Seq(tpcp_msg) /\ sock'[<<a, b>>] = wire
    <3>1. <<a, b>> # <<s, n>> BY <1>9
    <3> QED BY <1>1, <1>2, <1>3, <1>9, <3>1
  <2>2. m \notin Coming(v, a) BY <1>9 DEF Coming
  <2>3. /\ UnderWay(v, a, b)' = Between(out, wire, Append(in, m), v, a, b)
        /\ Alone(v, a, b)' = AtMostOne(out, wire, Append(in, m), v, a, b)
    BY <1>3, <1>5, <1>9, <2>1 DEF UnderWay, Alone
  <2> HIDE DEF out, wire, in
  <2>4. /\ Said(Append(in, m), Coming(v, a)) = Said(in, Coming(v, a))
        /\ Once(in, Coming(v, a)) => Once(Append(in, m), Coming(v, a))
    <3>1. PICK C : C = Coming(v, a) OBVIOUS
    <3>2. /\ Said(Append(in, m), C) = Said(in, C) \union (IF m \in C THEN {m.command} ELSE {})
          /\ Once(in, C) /\ (m \in C => Said(in, C) = {}) => Once(Append(in, m), C)
      BY <2>1, SaidAppend
    <3> QED BY <2>2, <3>1, <3>2
  <2> QED BY <1>6, <2>3, <2>4 DEF Between, AtMostOne
<1> QED BY <1>7, <1>8, <1>9

\* A message on the way to a node is of a train of the script.
LEMMA OnTheWire ==
  ASSUME CommitInv, NEW n \in Node, NEW s, <<s, n>> \in Channel, sock[<<s, n>>] # << >>,
         NEW w, w = Head(sock[<<s, n>>]), NEW u, u = w.host_id
  PROVE  /\ w \in Wire /\ u \in Asking /\ w.route_id = RouteOf(u) /\ n \in Way(u)
         /\ s \in Partners(u, n) /\ UnderWay(u, s, n) = {w.command}
         /\ w.command \in Command
<1>1. sock[<<s, n>>] \in Seq(Wire) BY QueueTypes
<1>2. w \in Wire /\ 1 \in DOMAIN sock[<<s, n>>] /\ w = sock[<<s, n>>][1] BY <1>1
<1>3. WireOK(s, n, w)
  <2>1. PICK c \in Channel : c = <<s, n>> OBVIOUS
  <2>2. c[1] = s /\ c[2] = n BY <2>1
  <2>3. \A i \in DOMAIN sock[c] : WireOK(c[1], c[2], sock[c][i]) BY DEF CommitInv, MessagesOK
  <2> QED BY <1>2, <2>1, <2>2, <2>3
<1>4. u \in Asking /\ w.route_id = RouteOf(u) /\ n \in Way(u) /\ s \in Partners(u, n)
  BY <1>3 DEF WireOK
<1>5. w \in Passing(u) BY <1>2 DEF Passing
<1>6. w.command \in Said(sock[<<s, n>>], Passing(u)) BY <1>2, <1>5 DEF Said
<1>7. w.command \in UnderWay(u, s, n) BY <1>6 DEF UnderWay, Between
<1>8. UnderWay(u, s, n) = {w.command} BY <1>4, <1>7, Underway
<1>9. w.command \in Command BY <1>2 DEF Wire
<1> QED BY <1>2, <1>4, <1>8, <1>9

\* A message is let in: the node serves its train from now on, or did already.
LEMMA LetInKeeps ==
  ASSUME CommitInv, Inv', NEW n \in Node, NEW s, <<s, n>> \in Channel, sock[<<s, n>>] # << >>,
         NEW w, w = Head(sock[<<s, n>>]), NEW u, u = w.host_id,
         CURRENT_HOST[n] \in {NO_HOST, u},
         CURRENT_HOST' = [CURRENT_HOST EXCEPT ![n] = u],
         IN_CONTROL_QUEUE' = [IN_CONTROL_QUEUE EXCEPT ![n] =
           Append(@, [command |-> w.command, host_id |-> u, route_id |-> w.route_id,
                      sender_id |-> s, recevier_id |-> n])],
         sock' = [sock EXCEPT ![<<s, n>>] = Tail(@)],
         UNCHANGED <<NODE_STATUS, current_route, control_pc, in_msg, railswitch, OUT_CONTROL_QUEUE,
                     setting, button, keyboard>>
  PROVE  CommitInv'
<1>1. /\ w \in Wire /\ u \in Asking /\ w.route_id = RouteOf(u) /\ n \in Way(u)
      /\ s \in Partners(u, n) /\ w.command \in Command
  BY OnTheWire
<1>2. PICK m : m = [command |-> w.command, host_id |-> u, route_id |-> w.route_id,
                    sender_id |-> s, recevier_id |-> n]
  OBVIOUS
<1>3. /\ m.command = w.command /\ m.host_id = u /\ m.route_id = w.route_id /\ m.sender_id = s
  BY <1>2
<1>4. m \in tpcp_msg
  <2>1. u \in Train /\ RouteOf(u) \in Route BY <1>1, TrainFacts
  <2>2. s \in Id BY <1>1, PartnerFacts DEF Id
  <2> QED BY <1>1, <1>2, <2>1, <2>2 DEF tpcp_msg, Id
<1>5. /\ Asking' = Asking
      /\ \A v : RouteOf(v)' = RouteOf(v) /\ Way(v)' = Way(v) /\ \A k : Partners(v, k)' = Partners(v, k)
  BY ScriptKept
<1>6. IN_CONTROL_QUEUE' = [IN_CONTROL_QUEUE EXCEPT ![n] = Append(@, m)] BY <1>2
<1>7. /\ CURRENT_HOST'[n] = u
      /\ \A k \in Node \ {n} : CURRENT_HOST'[k] = CURRENT_HOST[k]
      /\ CURRENT_HOST[n] \in Asking => CURRENT_HOST'[n] = CURRENT_HOST[n]
      /\ CURRENT_HOST[n] \notin Asking => NODE_STATUS[n] = "NOT_RESERVED"
      /\ NO_HOST \notin Asking
  <2>1. \A v \in Asking : v \in Train BY TrainFacts
  <2>2. NO_HOST \notin Asking BY <2>1, InterlockingAssumption
  <2> QED BY <1>1, <2>2 DEF CommitInv, ElementOK, Inv, TypeOK
<1>8. \A v \in Asking, k \in Node : StatusFor(v, k)' = StatusFor(v, k)
  <2> SUFFICES ASSUME NEW v \in Asking, NEW k \in Node PROVE StatusFor(v, k)' = StatusFor(v, k)
    OBVIOUS
  <2>1. CASE k # n BY <1>7, <2>1 DEF StatusFor
  <2>2. CASE k = n BY <1>7, <2>2 DEF StatusFor
  <2> QED BY <2>1, <2>2
<1>9. \A k \in Node : ElementOK(k)'
  <2> SUFFICES ASSUME NEW k \in Node PROVE ElementOK(k)'
    OBVIOUS
  <2>1. ElementOK(k) /\ ControlOK(k) BY DEF CommitInv, Inv
  <2>2. CASE k # n BY <1>5, <1>7, <2>1, <2>2 DEF ElementOK, Awaits
  <2>3. CASE k = n /\ CURRENT_HOST'[n] = CURRENT_HOST[n] BY <1>5, <2>1, <2>3 DEF ElementOK, Awaits
  <2>4. CASE k = n /\ NODE_STATUS[n] = "NOT_RESERVED"
    <3>1. ~Awaits(n) BY <2>1, <2>4 DEF ControlOK, Awaits, Waiting
    <3> QED BY <1>1, <1>5, <1>7, <2>1, <2>4, <3>1 DEF ElementOK, Awaits, Locked
  <2> QED BY <1>7, <2>2, <2>3, <2>4
<1>10. \A v \in Asking : TrainOK(v)'
  <2> SUFFICES ASSUME NEW v \in Asking PROVE TrainOK(v)'
    OBVIOUS
  <2>1. \A k \in Way(v) : k \in Node BY WayFacts
  <2>2. button' \in [Node -> BOOLEAN] BY DEF CommitInv, Inv, TypeOK
  <2>3. \A k \in Way(v) : StatusFor(v, k)' = StatusFor(v, k) /\ Awaits(k)' = Awaits(k)
    BY <1>8, <2>1 DEF Awaits
  <2>4. ASSUME NEW b \in Way(v), NEW a \in Partners(v, b)
        PROVE  UnderWay(v, a, b)' = UnderWay(v, a, b) /\ Alone(v, a, b)'
    BY <1>3, <1>4, <1>6, DeliverEffect
  <2> QED BY <2>2, <2>3, <2>4, TrainSame
<1>11. MessagesOK'
  <2>1. ASSUME NEW k \in Node, NEW i \in DOMAIN OUT_CONTROL_QUEUE[k],
               NEW x, x = OUT_CONTROL_QUEUE[k][i]
        PROVE  OutgoingOK(k, x)'
    <3>1. OutgoingOK(k, x) BY <2>1 DEF CommitInv, MessagesOK
    <3> QED BY <1>5, <3>1 DEF OutgoingOK
  <2>2. ASSUME NEW c \in Channel, NEW i \in DOMAIN sock'[c], NEW x, x = sock'[c][i],
               NEW a, a = c[1], NEW b, b = c[2]
        PROVE  WireOK(a, b, x)'
    <3>1. \E j \in DOMAIN sock[c] : sock'[c][i] = sock[c][j]
      <4>1. sock'[c] = sock[c] \/ (sock[c] # << >> /\ sock'[c] = Tail(sock[c]))
        <5>1. PICK d : d = <<s, n>> OBVIOUS
        <5>2. sock' = [sock EXCEPT ![d] = Tail(@)] /\ sock[d] # << >> BY <5>1
        <5> QED BY <5>2 DEF CommitInv, Inv, TypeOK
      <4>2. sock[c] \in Seq(Wire) BY QueueTypes
      <4>3. sock[c] # << >> =>
              \A j \in DOMAIN Tail(sock[c]) :
                j + 1 \in DOMAIN sock[c] /\ Tail(sock[c])[j] = sock[c][j + 1]
        BY <4>2
      <4> QED BY <4>1, <4>3
    <3>2. WireOK(a, b, x) BY <2>2, <3>1 DEF CommitInv, MessagesOK
    <3> QED BY <1>5, <3>2 DEF WireOK
  <2>3. ASSUME NEW k \in Node, NEW i \in DOMAIN IN_CONTROL_QUEUE'[k],
               NEW x, x = IN_CONTROL_QUEUE'[k][i]
        PROVE  IncomingOK(k, x)'
    <3>1. ASSUME NEW j \in DOMAIN IN_CONTROL_QUEUE[k], x = IN_CONTROL_QUEUE[k][j]
          PROVE  IncomingOK(k, x)'
      <4>1. IncomingOK(k, x) BY <3>1 DEF CommitInv, MessagesOK
      <4>2. CURRENT_HOST[k] = CURRENT_HOST'[k] BY <1>7, <4>1 DEF IncomingOK
      <4> QED BY <1>5, <4>1, <4>2 DEF IncomingOK
    <3>2. CASE k # n
      <4>1. IN_CONTROL_QUEUE'[k] = IN_CONTROL_QUEUE[k] BY <1>6, <3>2
      <4> QED BY <2>3, <3>1, <4>1
    <3>3. CASE k = n
      <4>1. IN_CONTROL_QUEUE[n] \in Seq(tpcp_msg) /\ IN_CONTROL_QUEUE'[n] = Append(IN_CONTROL_QUEUE[n], m)
        BY <1>6, QueueTypes DEF CommitInv, Inv, TypeOK
      <4>2. x = m \/ \E j \in DOMAIN IN_CONTROL_QUEUE[n] : x = IN_CONTROL_QUEUE[n][j]
        BY <1>4, <2>3, <3>3, <4>1
      <4>3. IncomingOK(n, m)' BY <1>1, <1>3, <1>5, <1>7 DEF IncomingOK
      <4> QED BY <3>1, <3>3, <4>2, <4>3
    <3> QED BY <3>2, <3>3
  <2>4. keyboard' \subseteq setting'.commands BY DEF CommitInv, MessagesOK
  <2> QED BY <2>1, <2>2, <2>3, <2>4 DEF MessagesOK
<1>12. Scripted' BY DEF CommitInv, Scripted
<1> QED BY <1>5, <1>9, <1>10, <1>11, <1>12 DEF CommitInv

\* A connection after messages were taken from others or put there.
LEMMA WiresAfter ==
  ASSUME CommitInv, setting' = setting, NEW a, NEW b, NEW c \in Channel, a = c[1], b = c[2],
         \/ sock'[c] = sock[c]
         \/ sock[c] # << >> /\ sock'[c] = Tail(sock[c])
         \/ \E y \in Wire : WireOK(a, b, y)' /\ sock'[c] = Append(sock[c], y),
         NEW x, \E i \in DOMAIN sock'[c] : x = sock'[c][i]
  PROVE  WireOK(a, b, x)'
<1>1. /\ Asking' = Asking
      /\ \A v : RouteOf(v)' = RouteOf(v) /\ Way(v)' = Way(v) /\ \A k : Partners(v, k)' = Partners(v, k)
  BY ScriptKept
<1>2. PICK S : S = {z \in Wire : WireOK(a, b, z)'} OBVIOUS
<1>3. \A z \in Wire : WireOK(a, b, z) => z \in S BY <1>1, <1>2 DEF WireOK
<1>4. PICK q, p : q = sock[c] /\ p = sock'[c] OBVIOUS
<1>5. q \in Seq(Wire) BY <1>4, QueueTypes
<1>6. \A j \in DOMAIN q : q[j] \in S
  <2>1. \A j \in DOMAIN q : q[j] \in Wire BY <1>5
  <2>2. \A j \in DOMAIN q : WireOK(a, b, q[j]) BY <1>4 DEF CommitInv, MessagesOK
  <2> QED BY <1>3, <2>1, <2>2
<1>7. \/ p = q
      \/ q # << >> /\ p = Tail(q)
      \/ \E y \in Wire : y \in S /\ p = Append(q, y)
  BY <1>2, <1>4
<1>8. \A i \in DOMAIN p : p[i] \in S BY <1>5, <1>6, <1>7, AllIn
<1>9. x \in S BY <1>4, <1>8
<1> QED BY <1>2, <1>9

\* The queues of the tasks are as they were.
LEMMA QueuesAfter ==
  ASSUME CommitInv, UNCHANGED <<setting, IN_CONTROL_QUEUE, CURRENT_HOST>>, keyboard' \subseteq keyboard,
         \A k \in Node : \/ OUT_CONTROL_QUEUE'[k] = OUT_CONTROL_QUEUE[k]
                         \/ /\ OUT_CONTROL_QUEUE[k] # << >>
                            /\ OUT_CONTROL_QUEUE'[k] = Tail(OUT_CONTROL_QUEUE[k]),
         \A c \in Channel : \A a, b, x :
           (a = c[1] /\ b = c[2] /\ \E i \in DOMAIN sock'[c] : x = sock'[c][i]) => WireOK(a, b, x)'
  PROVE  MessagesOK'
<1>1. /\ Asking' = Asking
      /\ \A v : RouteOf(v)' = RouteOf(v) /\ Way(v)' = Way(v) /\ \A k : Partners(v, k)' = Partners(v, k)
  BY ScriptKept
<1>2. ASSUME NEW k \in Node, NEW i \in DOMAIN OUT_CONTROL_QUEUE'[k],
             NEW x, x = OUT_CONTROL_QUEUE'[k][i]
      PROVE  OutgoingOK(k, x)'
  <2>1. OUT_CONTROL_QUEUE[k] \in Seq(tpcp_msg) BY QueueTypes
  <2>2. OUT_CONTROL_QUEUE[k] # << >> =>
          \A j \in DOMAIN Tail(OUT_CONTROL_QUEUE[k]) :
            /\ j + 1 \in DOMAIN OUT_CONTROL_QUEUE[k]
            /\ Tail(OUT_CONTROL_QUEUE[k])[j] = OUT_CONTROL_QUEUE[k][j + 1]
    BY <2>1
  <2>3. PICK j \in DOMAIN OUT_CONTROL_QUEUE[k] : x = OUT_CONTROL_QUEUE[k][j] BY <1>2, <2>2
  <2>4. OutgoingOK(k, x) BY <2>3 DEF CommitInv, MessagesOK
  <2> QED BY <1>1, <2>4 DEF OutgoingOK
<1>3. ASSUME NEW k \in Node, NEW i \in DOMAIN IN_CONTROL_QUEUE[k],
             NEW x, x = IN_CONTROL_QUEUE[k][i]
      PROVE  IncomingOK(k, x)'
  <2>1. IncomingOK(k, x) BY <1>3 DEF CommitInv, MessagesOK
  <2> QED BY <1>1, <2>1 DEF IncomingOK
<1>4. ASSUME NEW c \in Channel, NEW i \in DOMAIN sock'[c], NEW x, x = sock'[c][i],
             NEW a, a = c[1], NEW b, b = c[2]
      PROVE  WireOK(a, b, x)'
  BY <1>4
<1>5. keyboard' \subseteq setting'.commands BY DEF CommitInv, MessagesOK
<1> QED BY <1>2, <1>3, <1>4, <1>5 DEF MessagesOK

\* No element changed.
LEMMA ElementsSame ==
  ASSUME CommitInv,
         UNCHANGED <<NODE_STATUS, current_route, control_pc, in_msg, CURRENT_HOST, railswitch, setting, button>>
  PROVE  /\ \A k \in Node : ElementOK(k)'
         /\ \A v, k : StatusFor(v, k)' = StatusFor(v, k)
         /\ \A k : Awaits(k)' = Awaits(k)
         /\ button' \in [Node -> BOOLEAN]
         /\ Asking' = Asking /\ Scripted'
<1>1. Asking' = Asking /\ \A v : RouteOf(v)' = RouteOf(v) /\ Way(v)' = Way(v) BY ScriptKept
<1>2. \A k : Awaits(k)' = Awaits(k) BY DEF Awaits
<1>3. ASSUME NEW k \in Node PROVE ElementOK(k)'
  <2>1. ElementOK(k) BY DEF CommitInv
  <2> QED BY <1>1, <1>2, <2>1 DEF ElementOK
<1>4. \A v, k : StatusFor(v, k)' = StatusFor(v, k) BY DEF StatusFor
<1>5. button' \in [Node -> BOOLEAN] BY DEF CommitInv, Inv, TypeOK
<1>6. Scripted' BY DEF CommitInv, Scripted
<1> QED BY <1>1, <1>2, <1>3, <1>4, <1>5, <1>6

\* The first message of s to n is read and answered with NOT_OK at once.
Refusal(n, s, w) ==
  /\ <<s, n>> \in Channel /\ <<n, s>> \in Channel /\ s # n
  /\ sock[<<s, n>>] # << >> /\ w = Head(sock[<<s, n>>])
  /\ sock' = SendTo([sock EXCEPT ![<<s, n>>] = Tail(@)], n, s, [w EXCEPT !.command = "NOT_OK"])
  /\ UNCHANGED <<IN_CONTROL_QUEUE, OUT_CONTROL_QUEUE>>

LEMMA RefusalEffect ==
  ASSUME CommitInv, NEW n, NEW s, NEW w, Refusal(n, s, w), NEW w2, w2 = [w EXCEPT !.command = "NOT_OK"]
  PROVE  /\ w \in Wire /\ w2 \in Wire /\ w2.host_id = w.host_id /\ w2.command = "NOT_OK"
         /\ w2.route_id = w.route_id
         /\ sock'[<<s, n>>] = Tail(sock[<<s, n>>])
         /\ sock'[<<n, s>>] = Append(sock[<<n, s>>], w2)
         /\ \A c \in Channel : c # <<s, n>> /\ c # <<n, s>> => sock'[c] = sock[c]
<1>1. sock[<<s, n>>] \in Seq(Wire) BY QueueTypes DEF Refusal
<1>2. w \in Wire BY <1>1 DEF Refusal
<1>3. /\ w2 \in Wire /\ w2.host_id = w.host_id /\ w2.command = "NOT_OK"
      /\ w2.route_id = w.route_id
  BY <1>2 DEF Wire, Command
<1>4. PICK c, d : c = <<s, n>> /\ d = <<n, s>> OBVIOUS
<1>5. c # d /\ c \in Channel /\ d \in Channel BY <1>4 DEF Refusal
<1>6. PICK mid : mid = [sock EXCEPT ![c] = Tail(@)] /\ sock' = [mid EXCEPT ![d] = Append(@, w2)]
  BY <1>4 DEF Refusal, SendTo
<1>7. sock \in [Channel -> Seq(Wire)] BY DEF CommitInv, Inv, TypeOK
<1>8. /\ sock'[c] = Tail(sock[c]) /\ sock'[d] = Append(sock[d], w2)
      /\ \A e \in Channel : e # c /\ e # d => sock'[e] = sock[e]
  BY <1>5, <1>6, <1>7
<1> QED BY <1>2, <1>3, <1>4, <1>8

\* What is under way afterwards.
LEMMA RefusalPipes ==
  ASSUME CommitInv, NEW n \in Node, NEW s, NEW w, Refusal(n, s, w),
         NEW u, u = w.host_id, s \in Node => UnderWay(u, n, s) = {},
         NEW v \in Asking, NEW b \in Way(v), NEW a \in Partners(v, b)
  PROVE  /\ Alone(v, a, b)'
         /\ v = u /\ a = s /\ b = n => UnderWay(v, a, b)' = {}
         /\ v = u /\ a = n /\ b = s => UnderWay(v, a, b)' = {"NOT_OK"}
         /\ ~(v = u /\ <<a, b>> \in {<<s, n>>, <<n, s>>}) => UnderWay(v, a, b)' = UnderWay(v, a, b)
<1>1. b \in Node /\ <<a, b>> \in Channel BY PartnerFacts
<1>2. PICK w2 : w2 = [w EXCEPT !.command = "NOT_OK"] OBVIOUS
<1>3. /\ w \in Wire /\ w2 \in Wire /\ w2.host_id = u /\ w2.command = "NOT_OK"
      /\ sock'[<<s, n>>] = Tail(sock[<<s, n>>])
      /\ sock'[<<n, s>>] = Append(sock[<<n, s>>], w2)
      /\ \A c \in Channel : c # <<s, n>> /\ c # <<n, s>> => sock'[c] = sock[c]
  BY <1>2, RefusalEffect
<1>4. OutOf(a)' = OutOf(a) /\ IN_CONTROL_QUEUE'[b] = IN_CONTROL_QUEUE[b] BY DEF OutOf, Refusal
<1> DEFINE out == OutOf(a)
           wire == sock[<<a, b>>]
           in == IN_CONTROL_QUEUE[b]
<1>5. /\ UnderWay(v, a, b) = Between(out, wire, in, v, a, b)
      /\ AtMostOne(out, wire, in, v, a, b)
  BY DEF UnderWay, Alone, CommitInv, TrainOK
<1>6. wire \in Seq(Wire) BY <1>1, QueueTypes
<1>7. /\ UnderWay(v, a, b)' = Between(out, sock'[<<a, b>>], in, v, a, b)
      /\ Alone(v, a, b)' = AtMostOne(out, sock'[<<a, b>>], in, v, a, b)
  BY <1>4 DEF UnderWay, Alone
<1>8. CASE a = s /\ b = n
  <2>1. s # n BY DEF Refusal
  <2>2. wire # << >> /\ w = Head(wire) BY <1>8 DEF Refusal
  <2>3. sock'[<<a, b>>] = Tail(wire) BY <1>3, <1>8
  <2> HIDE DEF out, wire, in
  <2>4. /\ AtMostOne(out, Tail(wire), in, v, a, b)
        /\ Head(wire).host_id = v => Between(out, Tail(wire), in, v, a, b) = {}
        /\ Head(wire).host_id # v =>
             Between(out, Tail(wire), in, v, a, b) = Between(out, wire, in, v, a, b)
    BY <1>5, <1>6, <2>2, Dropping
  <2> QED BY <1>5, <1>7, <1>8, <2>1, <2>2, <2>3, <2>4
<1>9. CASE a = n /\ b = s
  <2>1. s # n BY DEF Refusal
  <2>2. sock'[<<a, b>>] = Append(wire, w2) BY <1>3, <1>9
  <2>3. w2.host_id = v => Between(out, wire, in, v, a, b) = {} BY <1>1, <1>3, <1>5, <1>9
  <2> HIDE DEF out, wire, in
  <2>4. /\ AtMostOne(out, Append(wire, w2), in, v, a, b)
        /\ Between(out, Append(wire, w2), in, v, a, b)
             = Between(out, wire, in, v, a, b) \union (IF w2.host_id = v THEN {w2.command} ELSE {})
    <3>1. w2 \in Wire BY <1>3
    <3>2. AtMostOne(out, wire, in, v, a, b) BY <1>5
    <3>3. wire \in Seq(Wire) BY <1>6
    <3> QED BY <2>3, <3>1, <3>2, <3>3, Putting
  <2> QED BY <1>3, <1>5, <1>7, <1>9, <2>1, <2>2, <2>3, <2>4
<1>10. CASE ~(a = s /\ b = n) /\ ~(a = n /\ b = s)
  <2>1. sock'[<<a, b>>] = wire
    <3>1. <<a, b>> # <<s, n>> /\ <<a, b>> # <<n, s>> BY <1>10
    <3> QED BY <1>1, <1>3, <3>1
  <2> QED BY <1>5, <1>7, <1>10, <2>1
<1> QED BY <1>8, <1>9, <1>10

\* Nothing is on the connections that was not there, but the answer.
LEMMA RefusalWires ==
  ASSUME CommitInv, setting' = setting, NEW n \in Node, NEW s, NEW w, Refusal(n, s, w),
         NEW w2, w2 = [w EXCEPT !.command = "NOT_OK"], WireOK(n, s, w2)',
         NEW c \in Channel, NEW a, a = c[1], NEW b, b = c[2],
         NEW x, \E i \in DOMAIN sock'[c] : x = sock'[c][i]
  PROVE  WireOK(a, b, x)'
<1>1. /\ w \in Wire /\ w2 \in Wire
      /\ sock'[<<s, n>>] = Tail(sock[<<s, n>>])
      /\ sock'[<<n, s>>] = Append(sock[<<n, s>>], w2)
      /\ \A d \in Channel : d # <<s, n>> /\ d # <<n, s>> => sock'[d] = sock[d]
  BY RefusalEffect
<1>2. sock[<<s, n>>] # << >> BY DEF Refusal
<1>3. \/ sock'[c] = sock[c]
      \/ sock[c] # << >> /\ sock'[c] = Tail(sock[c])
      \/ \E y \in Wire : WireOK(a, b, y)' /\ sock'[c] = Append(sock[c], y)
  <2>1. CASE c = <<s, n>> BY <1>1, <1>2, <2>1
  <2>2. CASE c = <<n, s>>
    <3>1. a = n /\ b = s BY <2>2
    <3>2. WireOK(a, b, w2)' BY <3>1
    <3> QED BY <1>1, <2>2, <3>2
  <2>3. CASE c # <<s, n>> /\ c # <<n, s>> BY <1>1, <2>3
  <2> QED BY <2>1, <2>2, <2>3
<1> QED BY <1>3, WiresAfter

\* The train whose REQ is answered: a NOT_OK is on its way back.
LEMMA RefusedTrain ==
  ASSUME CommitInv, NEW u \in Asking, NEW s \in Way(u), NEW n \in Way(u), n = After(u, s),
         UnderWay(u, s, n) = {"REQ"}, StatusFor(u, s) # "NOT_RESERVED",
         \A b \in Way(u) : \A a \in Partners(u, b) : Alone(u, a, b)',
         \A b \in Way(u) : \A a \in Partners(u, b) :
           /\ a = s /\ b = n => UnderWay(u, a, b)' = {}
           /\ a = n /\ b = s => UnderWay(u, a, b)' = {"NOT_OK"}
           /\ <<a, b>> \notin {<<s, n>>, <<n, s>>} => UnderWay(u, a, b)' = UnderWay(u, a, b),
         UNCHANGED <<NODE_STATUS, CURRENT_HOST, control_pc, button, setting, keyboard>>
  PROVE  TrainOK(u)'
<1>1. n # TAIL_ID /\ n # HOST_ID /\ s # HOST_ID /\ s # TAIL_ID BY WayFacts
<1>2. s \in Partners(u, n) /\ n \in Partners(u, s) /\ s # n BY <1>1, EdgePartners
<1>3. \A k : StatusFor(u, k)' = StatusFor(u, k) BY DEF StatusFor
<1>4. EdgeOK(u, s, n)'
  <2> DEFINE sa == StatusFor(u, s)
             sb == StatusFor(u, n)
             f == UnderWay(u, s, n)
             g == UnderWay(u, n, s)
  <2>1. PairOK(sa, sb, f, g, control_pc[s], button[s], button[n]) BY <1>2, PairFacts
  <2>2. UnderWay(u, s, n)' = {} /\ UnderWay(u, n, s)' = {"NOT_OK"} BY <1>2
  <2>3. f = {"REQ"} OBVIOUS
  <2>4. sa = StatusFor(u, s) /\ sb = StatusFor(u, n) OBVIOUS
  <2> HIDE DEF sa, sb, f, g
  <2>5. PairOK(sa, sb, {}, {"NOT_OK"}, control_pc[s], button[s], button[n])
    BY <2>1, <2>3, PairBehind
  <2>6. PairOK(StatusFor(u, s), StatusFor(u, n), {}, {"NOT_OK"}, control_pc[s], button[s], button[n])
    BY <2>4, <2>5
  <2>7. control_pc' = control_pc /\ button' = button OBVIOUS
  <2> QED BY <1>3, <2>2, <2>6, <2>7 DEF EdgeOK
<1>5. ASSUME NEW a \in Way(u), s = After(u, a) PROVE EdgeOK(u, a, s)'
  <2>1. /\ a \in Partners(u, s) /\ s \in Partners(u, a) /\ EdgeOK(u, a, s) /\ Before(u, s) = a
    BY <1>1, <1>5, EdgePartners
  <2>2. a # n BY <2>1, WayFacts
  <2>3. <<a, s>> \notin {<<s, n>>, <<n, s>>} /\ <<s, a>> \notin {<<s, n>>, <<n, s>>}
    BY <1>2, <2>2
  <2>4. UnderWay(u, a, s)' = UnderWay(u, a, s) BY <2>1, <2>3
  <2>5. UnderWay(u, s, a)' = UnderWay(u, s, a) BY <1>5, <2>1, <2>3
  <2>6. control_pc' = control_pc /\ button' = button OBVIOUS
  <2> QED BY <1>3, <2>1, <2>4, <2>5, <2>6 DEF EdgeOK
<1>6. ASSUME NEW b \in Way(u), NEW a \in Partners(u, b)
      PROVE  /\ Alone(u, a, b)'
             /\ s \notin {a, b} => UnderWay(u, a, b)' = UnderWay(u, a, b)
             /\ "REQ" \in UnderWay(u, a, b)' => "REQ" \in UnderWay(u, a, b)
             /\ a = HOST_ID => UnderWay(u, a, b)' \subseteq UnderWay(u, a, b)
  <2>1. Alone(u, a, b)' OBVIOUS
  <2>2. a = s /\ b = n => UnderWay(u, a, b)' = {} OBVIOUS
  <2>3. a = n /\ b = s => UnderWay(u, a, b)' = {"NOT_OK"} OBVIOUS
  <2>4. ~(a = s /\ b = n) /\ ~(a = n /\ b = s) => UnderWay(u, a, b)' = UnderWay(u, a, b)
    OBVIOUS
  <2> QED BY <1>1, <2>1, <2>2, <2>3, <2>4
<1>7. \A m \in Way(u) \ {s} :
        StatusFor(u, m)' = StatusFor(u, m) /\ control_pc'[m] = control_pc[m] /\ button'[m] = button[m]
  BY <1>3
<1>8. \A b \in Way(u) : b = After(u, s) => EdgeOK(u, s, b)' BY <1>4
<1>9. setting' = setting /\ keyboard' \subseteq keyboard OBVIOUS
<1> QED BY <1>5, <1>6, <1>7, <1>8, <1>9, TrainStep

\* A train is refused by a node that serves another: only a REQ can meet that.
LEMMA RefusedKeeps ==
  ASSUME CommitInv, Inv', NEW n \in Node, NEW s, NEW w, Refusal(n, s, w),
         NEW u, u = w.host_id, CURRENT_HOST[n] # u,
         UNCHANGED <<NODE_STATUS, current_route, control_pc, in_msg, CURRENT_HOST, railswitch,
                     setting, button, keyboard>>
  PROVE  CommitInv'
<1>1. /\ w \in Wire /\ u \in Asking /\ w.route_id = RouteOf(u) /\ n \in Way(u)
      /\ s \in Partners(u, n) /\ UnderWay(u, s, n) = {w.command}
  <2>1. <<s, n>> \in Channel /\ sock[<<s, n>>] # << >> /\ w = Head(sock[<<s, n>>]) BY DEF Refusal
  <2> QED BY <2>1, OnTheWire
<1>2. s # n /\ <<n, s>> \in Channel /\ (s \in Node => s \in Way(u) /\ n \in Partners(u, s))
      /\ (s = HOST_ID \/ s \in Node)
  BY <1>1, PartnerFacts
<1>3. UNCHANGED <<IN_CONTROL_QUEUE, OUT_CONTROL_QUEUE>> BY DEF Refusal
<1>4. StatusFor(u, n) = "NOT_RESERVED" BY <1>1, StatusFacts
<1>5. s = Before(u, n) /\ UnderWay(u, s, n) = {"REQ"} /\ (s # HOST_ID => StatusFor(u, s) = "WAIT_ACK")
  <2>1. UnderWay(u, s, n) # {} BY <1>1
  <2> QED BY <1>1, <1>4, <2>1, Underway
<1>6. s \in Node => n = After(u, s) /\ UnderWay(u, n, s) = {}
  <2> SUFFICES ASSUME s \in Node PROVE n = After(u, s) /\ UnderWay(u, n, s) = {}
    OBVIOUS
  <2>1. s \in Way(u) /\ s # HOST_ID BY <1>2, RoutesAssumption
  <2>2. n = After(u, s)
    <3>1. s = Before(u, n) BY <1>5
    <3>2. n \in Way(u) /\ u \in Asking BY <1>1
    <3> QED BY <2>1, <3>1, <3>2, WayFacts
  <2> DEFINE sa == StatusFor(u, s)
             sb == StatusFor(u, n)
             f == UnderWay(u, s, n)
             g == UnderWay(u, n, s)
  <2>3. PairOK(sa, sb, f, g, control_pc[s], button[s], button[n]) BY <1>1, <2>1, <2>2, PairFacts
  <2>4. f # {} BY <1>5
  <2> HIDE DEF sa, sb, f, g
  <2>5. g = {} BY <2>3, <2>4, PairMessages
  <2> QED BY <2>2, <2>5 DEF g
<1>7. ASSUME NEW v \in Asking, NEW b \in Way(v), NEW a \in Partners(v, b)
      PROVE  /\ Alone(v, a, b)'
             /\ v = u /\ a = s /\ b = n => UnderWay(v, a, b)' = {}
             /\ v = u /\ a = n /\ b = s => UnderWay(v, a, b)' = {"NOT_OK"}
             /\ ~(v = u /\ <<a, b>> \in {<<s, n>>, <<n, s>>}) => UnderWay(v, a, b)' = UnderWay(v, a, b)
  <2>1. Refusal(n, s, w) OBVIOUS
  <2>2. u = w.host_id OBVIOUS
  <2>3. s \in Node => UnderWay(u, n, s) = {} BY <1>6
  <2>4. Alone(v, a, b)' BY <2>1, <2>2, <2>3, RefusalPipes
  <2>5. v = u /\ a = s /\ b = n => UnderWay(v, a, b)' = {} BY <2>1, <2>2, <2>3, RefusalPipes
  <2>6. v = u /\ a = n /\ b = s => UnderWay(v, a, b)' = {"NOT_OK"} BY <2>1, <2>2, <2>3, RefusalPipes
  <2>7. ~(v = u /\ <<a, b>> \in {<<s, n>>, <<n, s>>}) => UnderWay(v, a, b)' = UnderWay(v, a, b)
    BY <2>1, <2>2, <2>3, RefusalPipes
  <2> QED BY <2>4, <2>5, <2>6, <2>7
<1>8. /\ \A k \in Node : ElementOK(k)'
      /\ \A v, k : StatusFor(v, k)' = StatusFor(v, k)
      /\ \A k : Awaits(k)' = Awaits(k)
      /\ button' \in [Node -> BOOLEAN] /\ Asking' = Asking /\ Scripted'
  BY ElementsSame
<1>9. ASSUME NEW v \in Asking, v # u \/ s = HOST_ID PROVE TrainOK(v)'
  <2>1. n # HOST_ID BY RoutesAssumption
  <2>2. ASSUME NEW b \in Way(v), NEW a \in Partners(v, b)
        PROVE  /\ Alone(v, a, b)'
               /\ UnderWay(v, a, b)' = UnderWay(v, a, b)
                    \/ (a = HOST_ID /\ UnderWay(v, a, b)' \subseteq UnderWay(v, a, b))
    <3>1. b # HOST_ID BY PartnerFacts, RoutesAssumption
    <3>2. a = HOST_ID \/ UnderWay(v, a, b)' = UnderWay(v, a, b)
      BY <1>7, <1>9, <3>1
    <3>3. v = u /\ a = s /\ b = n => UnderWay(v, a, b)' = {} BY <1>7
    <3>4. a = HOST_ID /\ ~(v = u /\ a = s /\ b = n) => UnderWay(v, a, b)' = UnderWay(v, a, b)
      BY <1>7, <2>1
    <3> QED BY <1>7, <3>2, <3>3, <3>4
  <2>3. \A k \in Way(v) :
          /\ StatusFor(v, k)' = StatusFor(v, k)
          /\ StatusFor(v, k) = "NOT_RESERVED" \/ (Awaits(k)' = Awaits(k) /\ button'[k] = button[k])
    BY <1>8
  <2>4. setting' = setting /\ keyboard' \subseteq keyboard /\ button' \in [Node -> BOOLEAN] BY <1>8
  <2> QED BY <2>2, <2>3, <2>4, TrainSame
<1>10. ASSUME s \in Node PROVE TrainOK(u)'
  <2>1. s \in Way(u) /\ n = After(u, s) /\ n \in Way(u) /\ u \in Asking
    BY <1>1, <1>2, <1>6, <1>10
  <2>2. UnderWay(u, s, n) = {"REQ"} /\ StatusFor(u, s) # "NOT_RESERVED"
    BY <1>5, <1>10, RoutesAssumption
  <2>3. \A b \in Way(u) : \A a \in Partners(u, b) : Alone(u, a, b)'
    BY <1>1, <1>7
  <2>4. \A b \in Way(u) : \A a \in Partners(u, b) :
          /\ a = s /\ b = n => UnderWay(u, a, b)' = {}
          /\ a = n /\ b = s => UnderWay(u, a, b)' = {"NOT_OK"}
          /\ <<a, b>> \notin {<<s, n>>, <<n, s>>} => UnderWay(u, a, b)' = UnderWay(u, a, b)
    BY <1>1, <1>7
  <2>5. UNCHANGED <<NODE_STATUS, CURRENT_HOST, control_pc, button, setting, keyboard>> BY <1>3
  <2> QED BY <2>1, <2>2, <2>3, <2>4, <2>5, RefusedTrain
<1>11. MessagesOK'
  <2>1. PICK w2 : w2 = [w EXCEPT !.command = "NOT_OK"] OBVIOUS
  <2>2. /\ w2 \in Wire /\ w2.host_id = u /\ w2.route_id = w.route_id
    BY <1>1, <2>1 DEF Wire, Command
  <2>3. RouteOf(u)' = RouteOf(u) /\ Way(u)' = Way(u) /\ \A k : Partners(u, k)' = Partners(u, k)
    BY ScriptKept
  <2>4. WireOK(n, s, w2)' BY <1>1, <1>2, <1>8, <2>2, <2>3 DEF WireOK
  <2>5. Refusal(n, s, w) OBVIOUS
  <2>6. setting' = setting OBVIOUS
  <2>7. \A c \in Channel : \A a, b, x :
          (a = c[1] /\ b = c[2] /\ \E i \in DOMAIN sock'[c] : x = sock'[c][i]) => WireOK(a, b, x)'
    BY <2>1, <2>4, <2>5, <2>6, RefusalWires
  <2>8. UNCHANGED <<setting, IN_CONTROL_QUEUE, CURRENT_HOST>> /\ keyboard' \subseteq keyboard BY <1>3
  <2>9. \A k \in Node : OUT_CONTROL_QUEUE'[k] = OUT_CONTROL_QUEUE[k] BY <1>3
  <2> QED BY <2>7, <2>8, <2>9, QueuesAfter
<1>12. \A v \in Asking : TrainOK(v)' BY <1>2, <1>9, <1>10
<1> QED BY <1>8, <1>11, <1>12 DEF CommitInv

\* The communication task dispatches a message.
LEMMA HandleInKeeps ==
  ASSUME CommitInv, Inv', NEW n \in Node, NEW s \in Id, HandleInSingleMsg(n, s)
  PROVE  CommitInv'
<1>1. <<s, n>> \in Channel /\ sock[<<s, n>>] # << >> BY DEF HandleInSingleMsg
<1>2. PICK w, u, h : w = Head(sock[<<s, n>>]) /\ u = w.host_id /\ h = Claimed(n, u) OBVIOUS
<1>3. /\ w \in Wire /\ u \in Asking /\ w.route_id = RouteOf(u) /\ n \in Way(u)
      /\ s \in Partners(u, n) /\ UnderWay(u, s, n) = {w.command}
  BY <1>1, <1>2, OnTheWire
<1>4. w.command \in {"REQ", "COMMIT", "NOT_OK", "ACK", "AGREE"}
  <2>1. UnderWay(u, s, n) # {} BY <1>3
  <2> QED BY <1>3, <2>1, Underway
<1>5. UNCHANGED <<NODE_STATUS, current_route, control_pc, in_msg, railswitch, OUT_CONTROL_QUEUE,
                  setting, button, keyboard>>
  BY DEF HandleInSingleMsg, control, host
<1>6. CASE CURRENT_HOST[n] \in {NO_HOST, u}
  <2>1. h = u BY <1>2, <1>6 DEF Claimed
  <2>2. /\ CURRENT_HOST' = [CURRENT_HOST EXCEPT ![n] = u]
        /\ IN_CONTROL_QUEUE' = [IN_CONTROL_QUEUE EXCEPT ![n] =
             Append(@, [command |-> w.command, host_id |-> u, route_id |-> w.route_id,
                        sender_id |-> s, recevier_id |-> n])]
        /\ sock' = [sock EXCEPT ![<<s, n>>] = Tail(@)]
    BY <1>2, <1>4, <2>1 DEF HandleInSingleMsg
  <2> QED BY <1>1, <1>2, <1>5, <1>6, <2>2, LetInKeeps
<1>7. CASE CURRENT_HOST[n] \notin {NO_HOST, u}
  <2>1. h # u BY <1>2, <1>7 DEF Claimed
  <2>2. /\ sock' = SendTo([sock EXCEPT ![<<s, n>>] = Tail(@)], n, s, [w EXCEPT !.command = "NOT_OK"])
        /\ UNCHANGED <<CURRENT_HOST, IN_CONTROL_QUEUE>>
    BY <1>2, <1>4, <2>1 DEF HandleInSingleMsg
  <2>3. <<n, s>> \in Channel /\ s # n BY <1>3, PartnerFacts
  <2>4. Refusal(n, s, w) BY <1>1, <1>2, <1>5, <2>2, <2>3 DEF Refusal
  <2>5. CURRENT_HOST[n] # u BY <1>7
  <2> QED BY <1>2, <1>5, <2>2, <2>4, <2>5, RefusedKeeps
<1> QED BY <1>6, <1>7

-----------------------------------------------------------------------------
(* The communication task sends.                                           *)

\* A connection after a message was put on one.
LEMMA SendToEffect ==
  ASSUME NEW f \in [Channel -> Seq(Wire)], NEW from, NEW to, NEW w, NEW a, NEW b, <<a, b>> \in Channel
  PROVE  SendTo(f, from, to, w)[<<a, b>>]
           = IF a = from /\ b = to THEN Append(f[<<a, b>>], w) ELSE f[<<a, b>>]
<1>1. PICK c, d : c = <<a, b>> /\ d = <<from, to>> OBVIOUS
<1>2. c \in Channel /\ (c = d <=> (a = from /\ b = to)) BY <1>1
<1>3. PICK g : g = SendTo(f, from, to, w) OBVIOUS
<1>4. g[c] = IF c = d THEN Append(f[c], w) ELSE f[c]
  <2>1. g = IF d \in Channel THEN [f EXCEPT ![d] = Append(@, w)] ELSE f BY <1>1, <1>3 DEF SendTo
  <2> QED BY <1>2, <2>1
<1> QED BY <1>1, <1>2, <1>3, <1>4

\* What is under way when the communication task of n sends m.
LEMMA SendingPipes ==
  ASSUME CommitInv, NEW n \in Node, HandleOutControlMsg(n), NEW m, m = Head(OUT_CONTROL_QUEUE[n]),
         NEW v \in Asking, NEW b \in Way(v), NEW a \in Partners(v, b)
  PROVE  UnderWay(v, a, b)' = UnderWay(v, a, b) /\ Alone(v, a, b)'
<1>1. b \in Node /\ <<a, b>> \in Channel BY PartnerFacts
<1>2. PICK w : w = Wired(m) OBVIOUS
<1>3. sock'[<<a, b>>] = IF a = n /\ b = m.recevier_id THEN Append(sock[<<a, b>>], w) ELSE sock[<<a, b>>]
  <2>1. sock \in [Channel -> Seq(Wire)] BY DEF CommitInv, Inv, TypeOK
  <2>2. sock' = SendTo(sock, n, m.recevier_id, w) BY <1>2 DEF HandleOutControlMsg
  <2> QED BY <1>1, <2>1, <2>2, SendToEffect
<1>4. CASE a # n
  <2>1. a \in Node => OUT_CONTROL_QUEUE'[a] = OUT_CONTROL_QUEUE[a]
    BY <1>4 DEF HandleOutControlMsg, CommitInv, Inv, TypeOK
  <2>2. sock'[<<a, b>>] = sock[<<a, b>>] BY <1>3, <1>4
  <2>3. IN_CONTROL_QUEUE' = IN_CONTROL_QUEUE BY DEF HandleOutControlMsg
  <2> QED BY <2>1, <2>2, <2>3, PipeSame
<1>5. CASE a = n
  <2> DEFINE out == OUT_CONTROL_QUEUE[n]
             wire == sock[<<a, b>>]
             wire2 == sock'[<<a, b>>]
             in == IN_CONTROL_QUEUE[b]
  <2>1. OutOf(a) = out /\ OutOf(a)' = Tail(out) BY <1>5 DEF OutOf, HandleOutControlMsg, CommitInv, Inv, TypeOK
  <2>2. /\ UnderWay(v, a, b) = Between(out, wire, in, v, a, b)
        /\ AtMostOne(out, wire, in, v, a, b)
    BY <2>1 DEF UnderWay, Alone, CommitInv, TrainOK
  <2>3. /\ UnderWay(v, a, b)' = Between(Tail(out), wire2, in, v, a, b)
        /\ Alone(v, a, b)' = AtMostOne(Tail(out), wire2, in, v, a, b)
    BY <2>1 DEF UnderWay, Alone, HandleOutControlMsg
  <2>4. out \in Seq(tpcp_msg) /\ out # << >> /\ m = Head(out) /\ wire \in Seq(Wire)
    BY <1>1, QueueTypes DEF HandleOutControlMsg
  <2>5. wire2 = IF m.recevier_id = b THEN Append(wire, w) ELSE wire BY <1>3, <1>5
  <2> HIDE DEF out, wire, wire2, in
  <2>6. /\ Head(out).recevier_id = b => wire2 = Append(wire, Wired(Head(out)))
        /\ Head(out).recevier_id # b => wire2 = wire
    BY <1>2, <2>4, <2>5
  <2>7. AtMostOne(out, wire, in, v, a, b) BY <2>2
  <2>8. out \in Seq(tpcp_msg) /\ out # << >> /\ wire \in Seq(Wire) BY <2>4
  <2>9. /\ Between(Tail(out), wire2, in, v, a, b) = Between(out, wire, in, v, a, b)
        /\ AtMostOne(Tail(out), wire2, in, v, a, b)
    BY <2>6, <2>7, <2>8, Sending
  <2> QED BY <2>2, <2>3, <2>9
<1> QED BY <1>4, <1>5

LEMMA HandleOutKeeps ==
  ASSUME CommitInv, Inv', NEW n \in Node, HandleOutControlMsg(n)
  PROVE  CommitInv'
<1>1. PICK m, w, x : m = Head(OUT_CONTROL_QUEUE[n]) /\ w = Wired(m) /\ x = m.recevier_id OBVIOUS
<1>2. PICK t : t = m.host_id OBVIOUS
<1>3. m \in tpcp_msg /\ OutgoingOK(n, m)
  <2>1. OUT_CONTROL_QUEUE[n] \in Seq(tpcp_msg) /\ OUT_CONTROL_QUEUE[n] # << >>
    BY QueueTypes DEF HandleOutControlMsg
  <2>2. 1 \in DOMAIN OUT_CONTROL_QUEUE[n] /\ m = OUT_CONTROL_QUEUE[n][1] /\ m \in tpcp_msg BY <1>1, <2>1
  <2> QED BY <2>2 DEF CommitInv, MessagesOK
<1>4. t \in Asking /\ m.route_id = RouteOf(t) /\ n \in Way(t) /\ x \in Partners(t, n)
  BY <1>1, <1>2, <1>3 DEF OutgoingOK
<1>5. <<n, x>> \in Channel /\ (x \in Node => x \in Way(t) /\ n \in Partners(t, x))
  BY <1>4, PartnerFacts
<1>6. w \in Wire /\ w.host_id = t /\ w.route_id = RouteOf(t)
  BY <1>1, <1>2, <1>3, <1>4 DEF Wired, Wire, tpcp_msg
<1>7. UNCHANGED <<NODE_STATUS, current_route, control_pc, in_msg, CURRENT_HOST, railswitch, setting,
                  button, keyboard, IN_CONTROL_QUEUE>>
  BY DEF HandleOutControlMsg, control, host
<1>8. /\ \A k \in Node : ElementOK(k)'
      /\ \A v, k : StatusFor(v, k)' = StatusFor(v, k)
      /\ \A k : Awaits(k)' = Awaits(k)
      /\ button' \in [Node -> BOOLEAN] /\ Asking' = Asking /\ Scripted'
  BY <1>7, ElementsSame
<1>9. ASSUME NEW v \in Asking PROVE TrainOK(v)'
  <2>1. ASSUME NEW b \in Way(v), NEW a \in Partners(v, b)
        PROVE  UnderWay(v, a, b)' = UnderWay(v, a, b) /\ Alone(v, a, b)'
    BY <1>1, SendingPipes
  <2>2. \A b \in Way(v) : \A a \in Partners(v, b) :
          /\ Alone(v, a, b)'
          /\ UnderWay(v, a, b)' = UnderWay(v, a, b)
               \/ (a = HOST_ID /\ UnderWay(v, a, b)' \subseteq UnderWay(v, a, b))
    BY <2>1
  <2>3. \A k \in Way(v) :
          /\ StatusFor(v, k)' = StatusFor(v, k)
          /\ StatusFor(v, k) = "NOT_RESERVED" \/ (Awaits(k)' = Awaits(k) /\ button'[k] = button[k])
    BY <1>7, <1>8
  <2>4. setting' = setting /\ keyboard' \subseteq keyboard /\ button' \in [Node -> BOOLEAN]
    BY <1>7, <1>8
  <2> QED BY <2>2, <2>3, <2>4, TrainSame
<1>10. MessagesOK'
  <2>1. RouteOf(t)' = RouteOf(t) /\ Way(t)' = Way(t) /\ \A k : Partners(t, k)' = Partners(t, k)
    BY <1>7, ScriptKept
  <2>2. WireOK(n, x, w)' BY <1>4, <1>5, <1>6, <1>8, <2>1 DEF WireOK
  <2>3. ASSUME NEW c \in Channel, NEW a, a = c[1], NEW b, b = c[2],
               NEW y, \E i \in DOMAIN sock'[c] : y = sock'[c][i]
        PROVE  WireOK(a, b, y)'
    <3>1. c = <<a, b>>
      <4>1. c \in Id \X Id BY DEF Channel, first_nodes, Id
      <4> QED BY <2>3, <4>1
    <3>2. sock'[c] = IF a = n /\ b = x THEN Append(sock[c], w) ELSE sock[c]
      <4>1. sock \in [Channel -> Seq(Wire)] BY DEF CommitInv, Inv, TypeOK
      <4>2. sock' = SendTo(sock, n, x, w) BY <1>1 DEF HandleOutControlMsg
      <4>3. sock'[<<a, b>>] = IF a = n /\ b = x THEN Append(sock[<<a, b>>], w) ELSE sock[<<a, b>>]
        BY <3>1, <4>1, <4>2, SendToEffect
      <4> QED BY <3>1, <4>3
    <3>3. \/ sock'[c] = sock[c]
          \/ \E z \in Wire : WireOK(a, b, z)' /\ sock'[c] = Append(sock[c], z)
      <4>1. CASE a = n /\ b = x
        <5>1. WireOK(a, b, w)' BY <2>2, <4>1
        <5> QED BY <1>6, <3>2, <4>1, <5>1
      <4> QED BY <3>2, <4>1
    <3>4. setting' = setting BY <1>7
    <3> QED BY <2>3, <3>3, <3>4, WiresAfter
  <2>4. \A c \in Channel : \A a, b, y :
          (a = c[1] /\ b = c[2] /\ \E i \in DOMAIN sock'[c] : y = sock'[c][i]) => WireOK(a, b, y)'
    BY <2>3
  <2>5. UNCHANGED <<setting, IN_CONTROL_QUEUE, CURRENT_HOST>> /\ keyboard' \subseteq keyboard BY <1>7
  <2>6. \A k \in Node : \/ OUT_CONTROL_QUEUE'[k] = OUT_CONTROL_QUEUE[k]
                        \/ /\ OUT_CONTROL_QUEUE[k] # << >>
                           /\ OUT_CONTROL_QUEUE'[k] = Tail(OUT_CONTROL_QUEUE[k])
    BY DEF HandleOutControlMsg, CommitInv, Inv, TypeOK
  <2> QED BY <2>4, <2>5, <2>6, QueuesAfter
<1> QED BY <1>8, <1>9, <1>10 DEF CommitInv

-----------------------------------------------------------------------------
(* The host PC.                                                            *)

\* It reads; only a simulated sensor or the automatic test would make it send.
LEMMA HostReceiveKeeps ==
  ASSUME CommitInv, Inv', NEW f \in first_nodes, HostReceive(f)
  PROVE  CommitInv'
<1>1. PICK d : d = <<f, HOST_ID>> OBVIOUS
<1>2. sock[d] # << >> /\ sock' = [sock EXCEPT ![d] = Tail(@)]
  BY <1>1 DEF HostReceive, CommitInv, Scripted
<1>3. UNCHANGED <<NODE_STATUS, current_route, control_pc, in_msg, CURRENT_HOST, railswitch, setting,
                  button, keyboard, IN_CONTROL_QUEUE, OUT_CONTROL_QUEUE>>
  BY DEF HostReceive, control, queues
<1>4. /\ \A k \in Node : ElementOK(k)'
      /\ \A v, k : StatusFor(v, k)' = StatusFor(v, k)
      /\ \A k : Awaits(k)' = Awaits(k)
      /\ button' \in [Node -> BOOLEAN] /\ Asking' = Asking /\ Scripted'
  BY <1>3, ElementsSame
<1>5. \A c \in Channel : \/ sock'[c] = sock[c]
                         \/ sock[c] # << >> /\ c = d /\ sock'[c] = Tail(sock[c])
  BY <1>2 DEF CommitInv, Inv, TypeOK
<1>6. ASSUME NEW v \in Asking PROVE TrainOK(v)'
  <2>1. ASSUME NEW b \in Way(v), NEW a \in Partners(v, b)
        PROVE  UnderWay(v, a, b)' = UnderWay(v, a, b) /\ Alone(v, a, b)'
    <3>1. <<a, b>> \in Channel /\ b \in Node BY PartnerFacts
    <3>2. <<a, b>> # d BY <1>1, <3>1, RoutesAssumption
    <3>3. sock'[<<a, b>>] = sock[<<a, b>>] BY <1>5, <3>1, <3>2
    <3>4. OUT_CONTROL_QUEUE' = OUT_CONTROL_QUEUE /\ IN_CONTROL_QUEUE' = IN_CONTROL_QUEUE BY <1>3
    <3> QED BY <3>3, <3>4, PipeSame
  <2>2. \A b \in Way(v) : \A a \in Partners(v, b) :
          /\ Alone(v, a, b)'
          /\ UnderWay(v, a, b)' = UnderWay(v, a, b)
               \/ (a = HOST_ID /\ UnderWay(v, a, b)' \subseteq UnderWay(v, a, b))
    BY <2>1
  <2>3. \A k \in Way(v) :
          /\ StatusFor(v, k)' = StatusFor(v, k)
          /\ StatusFor(v, k) = "NOT_RESERVED" \/ (Awaits(k)' = Awaits(k) /\ button'[k] = button[k])
    BY <1>3, <1>4
  <2>4. setting' = setting /\ keyboard' \subseteq keyboard /\ button' \in [Node -> BOOLEAN]
    BY <1>3, <1>4
  <2> QED BY <2>2, <2>3, <2>4, TrainSame
<1>7. MessagesOK'
  <2>1. setting' = setting BY <1>3
  <2>2. ASSUME NEW c \in Channel, NEW a, a = c[1], NEW b, b = c[2],
               NEW y, \E i \in DOMAIN sock'[c] : y = sock'[c][i]
        PROVE  WireOK(a, b, y)'
    <3>1. sock'[c] = sock[c] \/ (sock[c] # << >> /\ sock'[c] = Tail(sock[c])) BY <1>5
    <3> QED BY <2>1, <2>2, <3>1, WiresAfter
  <2>3. \A c \in Channel : \A a, b, y :
          (a = c[1] /\ b = c[2] /\ \E i \in DOMAIN sock'[c] : y = sock'[c][i]) => WireOK(a, b, y)'
    BY <2>2
  <2>4. UNCHANGED <<setting, IN_CONTROL_QUEUE, CURRENT_HOST>> /\ keyboard' \subseteq keyboard BY <1>3
  <2>5. \A k \in Node : OUT_CONTROL_QUEUE'[k] = OUT_CONTROL_QUEUE[k] BY <1>3
  <2> QED BY <2>3, <2>4, <2>5, QueuesAfter
<1> QED BY <1>4, <1>6, <1>7 DEF CommitInv

\* What is under way when the operator types a request of u.
LEMMA TypingPipes ==
  ASSUME CommitInv, NEW u \in Asking, NEW c, c = Request(u), HostCommand(c), c \in keyboard,
         NEW first, first = nodes_list[RouteOf(u)][1],
         NEW v \in Asking, NEW b \in Way(v), NEW a \in Partners(v, b)
  PROVE  /\ Alone(v, a, b)'
         /\ v = u /\ a = HOST_ID /\ b = first => UnderWay(v, a, b)' = {"REQ"}
         /\ ~(v = u /\ a = HOST_ID /\ b = first) => UnderWay(v, a, b)' = UnderWay(v, a, b)
<1>1. PICK w : w = c.msg OBVIOUS
<1>2. /\ w \in Wire /\ w.host_id = u /\ w.command = "REQ" /\ c.to = first
      /\ UnderWay(u, HOST_ID, first) = {}
  BY <1>1, TrainFacts, FirstFacts
<1>3. b \in Node /\ <<a, b>> \in Channel BY PartnerFacts
<1>4. IN_CONTROL_QUEUE' = IN_CONTROL_QUEUE /\ OUT_CONTROL_QUEUE' = OUT_CONTROL_QUEUE
  BY DEF HostCommand, queues
<1>5. sock'[<<a, b>>] = IF a = HOST_ID /\ b = first THEN Append(sock[<<a, b>>], w) ELSE sock[<<a, b>>]
  <2>1. sock \in [Channel -> Seq(Wire)] BY DEF CommitInv, Inv, TypeOK
  <2>2. sock' = SendTo(sock, HOST_ID, first, w) BY <1>1, <1>2 DEF HostCommand
  <2> QED BY <1>3, <2>1, <2>2, SendToEffect
<1>6. CASE ~(a = HOST_ID /\ b = first)
  <2>1. sock'[<<a, b>>] = sock[<<a, b>>] BY <1>5, <1>6
  <2>2. UnderWay(v, a, b)' = UnderWay(v, a, b) /\ Alone(v, a, b)' BY <1>4, <2>1, PipeSame
  <2> QED BY <1>6, <2>2
<1>7. CASE a = HOST_ID /\ b = first
  <2> DEFINE out == OutOf(a)
             wire == sock[<<a, b>>]
             in == IN_CONTROL_QUEUE[b]
  <2>1. OutOf(a)' = out BY <1>4 DEF OutOf
  <2>2. UnderWay(v, a, b) = Between(out, wire, in, v, a, b) /\ AtMostOne(out, wire, in, v, a, b)
    BY DEF UnderWay, Alone, CommitInv, TrainOK
  <2>3. sock'[<<a, b>>] = Append(wire, w) BY <1>5, <1>7
  <2>4. /\ UnderWay(v, a, b)' = Between(out, Append(wire, w), in, v, a, b)
        /\ Alone(v, a, b)' = AtMostOne(out, Append(wire, w), in, v, a, b)
    BY <1>4, <2>1, <2>3 DEF UnderWay, Alone
  <2>5. wire \in Seq(Wire) BY <1>3, QueueTypes
  <2>6. w.host_id = v => Between(out, wire, in, v, a, b) = {} BY <1>2, <1>7, <2>2
  <2> HIDE DEF out, wire, in
  <2>7. w \in Wire BY <1>2
  <2>8. AtMostOne(out, wire, in, v, a, b) BY <2>2
  <2>9. /\ AtMostOne(out, Append(wire, w), in, v, a, b)
        /\ Between(out, Append(wire, w), in, v, a, b)
             = Between(out, wire, in, v, a, b) \union (IF w.host_id = v THEN {w.command} ELSE {})
    BY <2>5, <2>6, <2>7, <2>8, Putting
  <2> QED BY <1>2, <1>7, <2>2, <2>4, <2>6, <2>9
<1> QED BY <1>6, <1>7

\* The train that asks: its REQ is under way to the first element of its route.
LEMMA AskingTrain ==
  ASSUME CommitInv, NEW u \in Asking, NEW first, first = nodes_list[RouteOf(u)][1],
         Request(u) \in keyboard, Request(u) \notin keyboard',
         \A b \in Way(u) : \A a \in Partners(u, b) :
           /\ Alone(u, a, b)'
           /\ a = HOST_ID /\ b = first => UnderWay(u, a, b)' = {"REQ"}
           /\ ~(a = HOST_ID /\ b = first) => UnderWay(u, a, b)' = UnderWay(u, a, b),
         UNCHANGED <<NODE_STATUS, CURRENT_HOST, control_pc, button, setting>>
  PROVE  TrainOK(u)'
<1>1. /\ Asking' = Asking /\ Request(u)' = Request(u) /\ RouteOf(u)' = RouteOf(u) /\ Way(u)' = Way(u)
      /\ \A n : /\ Before(u, n)' = Before(u, n) /\ After(u, n)' = After(u, n)
                /\ Partners(u, n)' = Partners(u, n)
  BY ScriptKept
<1>2. \A k : StatusFor(u, k)' = StatusFor(u, k) BY DEF StatusFor
<1>3. /\ first \in Way(u) /\ Before(u, first) = HOST_ID /\ HOST_ID \in Partners(u, first)
      /\ Onwards(first, RouteOf(u)) = Way(u) /\ Untouched(u, first)
  BY FirstFacts
<1>4. ASSUME NEW a \in Way(u), NEW b, b = After(u, a), b # TAIL_ID
      PROVE  /\ UnderWay(u, a, b)' = UnderWay(u, a, b) /\ UnderWay(u, b, a)' = UnderWay(u, b, a)
             /\ UnderWay(u, a, b) = {} /\ UnderWay(u, b, a) = {}
             /\ EdgeOK(u, a, b)
  <2>1. /\ b \in Way(u) /\ a \in Partners(u, b) /\ b \in Partners(u, a) /\ EdgeOK(u, a, b)
        /\ a # HOST_ID /\ b # HOST_ID
    BY <1>4, EdgePartners, RoutesAssumption
  <2>2. UnderWay(u, a, b) = {} /\ UnderWay(u, b, a) = {} BY <1>3, <1>4 DEF Untouched
  <2> QED BY <2>1, <2>2
<1>5. ASSUME NEW a \in Way(u), NEW b, b = After(u, a), b # TAIL_ID PROVE EdgeOK(u, a, b)'
  <2>1. control_pc' = control_pc /\ button' = button OBVIOUS
  <2> QED BY <1>2, <1>4, <1>5, <2>1 DEF EdgeOK
<1>6. ASSUME NEW m \in Way(u) PROVE Untouched(u, m)'
  <2>1. RouteOf(u) \in Route /\ m \in Elements(RouteOf(u)) BY TrainFacts DEF Way
  <2>2. Onwards(m, RouteOf(u)) \subseteq Way(u) BY <2>1, OnwardsFacts DEF Way
  <2> SUFFICES ASSUME NEW a \in Onwards(m, RouteOf(u)), NEW b, b = After(u, a)
               PROVE  /\ StatusFor(u, a)' = "NOT_RESERVED"
                      /\ b # TAIL_ID => UnderWay(u, a, b)' = {} /\ UnderWay(u, b, a)' = {}
    BY <1>1 DEF Untouched
  <2>3. StatusFor(u, a)' = "NOT_RESERVED" BY <1>2, <1>3, <2>2 DEF Untouched
  <2> QED BY <1>4, <2>2, <2>3
<1>7. RequestOK(u)'
  <2>1. UnderWay(u, HOST_ID, first)' \subseteq {"REQ"} BY <1>3
  <2>2. first = nodes_list[RouteOf(u)'][1] BY <1>1
  <2> QED BY <1>1, <1>6, <2>1, <2>2 DEF RequestOK
<1> QED BY <1>1, <1>5, <1>7 DEF TrainOK

LEMMA HostCommandKeeps ==
  ASSUME CommitInv, Inv', NEW c \in Commands, HostCommand(c)
  PROVE  CommitInv'
<1>1. c \in keyboard /\ keyboard' = keyboard \ {c} BY DEF HostCommand
<1>2. c \in setting.commands BY <1>1 DEF CommitInv, MessagesOK
<1>3. PICK u : u = c.msg.host_id OBVIOUS
<1>4. u \in Asking BY <1>2, <1>3 DEF Asking
<1>5. c = Request(u) BY <1>2, <1>3, <1>4, TrainFacts
<1>6. PICK first, w : first = nodes_list[RouteOf(u)][1] /\ w = c.msg OBVIOUS
<1>7. /\ w \in Wire /\ w.host_id = u /\ w.route_id = RouteOf(u) /\ c.to = first
      /\ first \in Way(u) /\ first \in Node /\ HOST_ID \in Partners(u, first)
  BY <1>4, <1>5, <1>6, TrainFacts, FirstFacts DEF RouteOf
<1>8. UNCHANGED <<NODE_STATUS, current_route, control_pc, in_msg, CURRENT_HOST, railswitch, setting,
                  button, IN_CONTROL_QUEUE, OUT_CONTROL_QUEUE>>
  BY DEF HostCommand, control, queues
<1>9. /\ \A k \in Node : ElementOK(k)'
      /\ \A v, k : StatusFor(v, k)' = StatusFor(v, k)
      /\ \A k : Awaits(k)' = Awaits(k)
      /\ button' \in [Node -> BOOLEAN] /\ Asking' = Asking /\ Scripted'
  BY <1>8, ElementsSame
<1>10. ASSUME NEW v \in Asking, NEW b \in Way(v), NEW a \in Partners(v, b)
       PROVE  /\ Alone(v, a, b)'
              /\ v = u /\ a = HOST_ID /\ b = first => UnderWay(v, a, b)' = {"REQ"}
              /\ ~(v = u /\ a = HOST_ID /\ b = first) => UnderWay(v, a, b)' = UnderWay(v, a, b)
  BY <1>1, <1>4, <1>5, <1>6, TypingPipes
<1>11. ASSUME NEW v \in Asking, v # u PROVE TrainOK(v)'
  <2>1. \A b \in Way(v) : \A a \in Partners(v, b) :
          /\ Alone(v, a, b)'
          /\ UnderWay(v, a, b)' = UnderWay(v, a, b)
               \/ (a = HOST_ID /\ UnderWay(v, a, b)' \subseteq UnderWay(v, a, b))
    BY <1>10, <1>11
  <2>2. \A k \in Way(v) :
          /\ StatusFor(v, k)' = StatusFor(v, k)
          /\ StatusFor(v, k) = "NOT_RESERVED" \/ (Awaits(k)' = Awaits(k) /\ button'[k] = button[k])
    BY <1>8, <1>9
  <2>3. setting' = setting /\ keyboard' \subseteq keyboard /\ button' \in [Node -> BOOLEAN]
    BY <1>1, <1>8, <1>9
  <2> QED BY <2>1, <2>2, <2>3, TrainSame
<1>12. TrainOK(u)'
  <2>1. Request(u) \in keyboard /\ Request(u) \notin keyboard' BY <1>1, <1>5
  <2>2. \A b \in Way(u) : \A a \in Partners(u, b) :
           /\ Alone(u, a, b)'
           /\ a = HOST_ID /\ b = first => UnderWay(u, a, b)' = {"REQ"}
           /\ ~(a = HOST_ID /\ b = first) => UnderWay(u, a, b)' = UnderWay(u, a, b)
    BY <1>4, <1>10
  <2> QED BY <1>4, <1>6, <1>8, <2>1, <2>2, AskingTrain
<1>13. MessagesOK'
  <2>1. setting' = setting BY <1>8
  <2>2. RouteOf(u)' = RouteOf(u) /\ Way(u)' = Way(u) /\ \A k : Partners(u, k)' = Partners(u, k)
    BY <2>1, ScriptKept
  <2>3. WireOK(HOST_ID, first, w)' BY <1>4, <1>7, <1>9, <2>2 DEF WireOK
  <2>4. ASSUME NEW d \in Channel, NEW a, a = d[1], NEW b, b = d[2],
               NEW y, \E i \in DOMAIN sock'[d] : y = sock'[d][i]
        PROVE  WireOK(a, b, y)'
    <3>1. d = <<a, b>>
      <4>1. d \in Id \X Id BY DEF Channel, first_nodes, Id
      <4> QED BY <2>4, <4>1
    <3>2. sock'[d] = IF a = HOST_ID /\ b = first THEN Append(sock[d], w) ELSE sock[d]
      <4>1. sock \in [Channel -> Seq(Wire)] BY DEF CommitInv, Inv, TypeOK
      <4>2. sock' = SendTo(sock, HOST_ID, first, w) BY <1>6, <1>7 DEF HostCommand
      <4>3. sock'[<<a, b>>]
              = IF a = HOST_ID /\ b = first THEN Append(sock[<<a, b>>], w) ELSE sock[<<a, b>>]
        BY <3>1, <4>1, <4>2, SendToEffect
      <4> QED BY <3>1, <4>3
    <3>3. \/ sock'[d] = sock[d]
          \/ \E z \in Wire : WireOK(a, b, z)' /\ sock'[d] = Append(sock[d], z)
      <4>1. CASE a = HOST_ID /\ b = first
        <5>1. WireOK(a, b, w)' BY <2>3, <4>1
        <5> QED BY <1>7, <3>2, <4>1, <5>1
      <4> QED BY <3>2, <4>1
    <3> QED BY <2>1, <2>4, <3>3, WiresAfter
  <2>5. \A d \in Channel : \A a, b, y :
          (a = d[1] /\ b = d[2] /\ \E i \in DOMAIN sock'[d] : y = sock'[d][i]) => WireOK(a, b, y)'
    BY <2>4
  <2>6. UNCHANGED <<setting, IN_CONTROL_QUEUE, CURRENT_HOST>> /\ keyboard' \subseteq keyboard
    BY <1>1, <1>8
  <2>7. \A k \in Node : OUT_CONTROL_QUEUE'[k] = OUT_CONTROL_QUEUE[k] BY <1>8
  <2> QED BY <2>5, <2>6, <2>7, QueuesAfter
<1> QED BY <1>9, <1>11, <1>12, <1>13 DEF CommitInv

-----------------------------------------------------------------------------
(* The train on the buttons.                                               *)

\* It presses or releases the button of n: only the pairs of n are to be shown.
LEMMA MovingKeeps ==
  ASSUME CommitInv, Inv', NEW n \in Node, NODE_STATUS[n] \in Locked, NEW t, t = CURRENT_HOST[n],
         NEW p \in BOOLEAN, button' = [button EXCEPT ![n] = p],
         UNCHANGED <<control, CURRENT_HOST, railswitch, queues, sock, setting, keyboard>>,
         \A b \in Way(t) : b = After(t, n) =>
           PairOK(StatusFor(t, n), StatusFor(t, b), UnderWay(t, n, b), UnderWay(t, b, n),
                  control_pc[n], p, button[b]),
         \A a \in Way(t) : n = After(t, a) =>
           PairOK(StatusFor(t, a), StatusFor(t, n), UnderWay(t, a, n), UnderWay(t, n, a),
                  control_pc[a], button[a], p)
  PROVE  CommitInv'
<1>1. UNCHANGED <<NODE_STATUS, current_route, control_pc, in_msg, IN_CONTROL_QUEUE, OUT_CONTROL_QUEUE>>
  BY DEF control, queues
<1>2. button'[n] = p /\ \A k \in Node \ {n} : button'[k] = button[k] BY DEF CommitInv, Inv, TypeOK
<1>3. button' \in [Node -> BOOLEAN] BY DEF Inv, TypeOK
<1>4. /\ Asking' = Asking
      /\ \A v : RouteOf(v)' = RouteOf(v) /\ Way(v)' = Way(v)
      /\ \A v, k : After(v, k)' = After(v, k) /\ Partners(v, k)' = Partners(v, k)
  BY ScriptKept
<1>5. (\A v, k : StatusFor(v, k)' = StatusFor(v, k)) /\ (\A k : Awaits(k)' = Awaits(k))
  BY <1>1 DEF StatusFor, Awaits
<1>6. ASSUME NEW k \in Node PROVE ElementOK(k)'
  <2>1. ElementOK(k) BY DEF CommitInv
  <2>2. button'[k] => NODE_STATUS[k] \in Locked BY <1>2, <2>1 DEF ElementOK
  <2> QED BY <1>1, <1>4, <1>5, <2>1, <2>2 DEF ElementOK
<1>7. t \in Asking /\ n \in Way(t) /\ StatusFor(t, n) # "NOT_RESERVED"
  <2>1. ElementOK(n) BY DEF CommitInv
  <2> QED BY <2>1 DEF ElementOK, Locked, StatusFor
<1>8. ASSUME NEW v \in Asking, NEW b \in Way(v), NEW a \in Partners(v, b)
      PROVE  UnderWay(v, a, b)' = UnderWay(v, a, b) /\ Alone(v, a, b)'
  BY <1>1, PipeSame
<1>9. ASSUME NEW v \in Asking, v # t PROVE TrainOK(v)'
  <2>1. \A b \in Way(v) : \A a \in Partners(v, b) :
          /\ Alone(v, a, b)'
          /\ UnderWay(v, a, b)' = UnderWay(v, a, b)
               \/ (a = HOST_ID /\ UnderWay(v, a, b)' \subseteq UnderWay(v, a, b))
    BY <1>8
  <2>2. ASSUME NEW k \in Way(v)
        PROVE  /\ StatusFor(v, k)' = StatusFor(v, k)
               /\ StatusFor(v, k) = "NOT_RESERVED" \/ (Awaits(k)' = Awaits(k) /\ button'[k] = button[k])
    <3>1. k \in Node BY WayFacts
    <3>2. k = n => StatusFor(v, k) = "NOT_RESERVED" BY <1>9 DEF StatusFor
    <3> QED BY <1>2, <1>5, <3>1, <3>2
  <2> QED BY <1>3, <2>1, <2>2, TrainSame
<1>10. TrainOK(t)'
  <2>1. ASSUME NEW b \in Way(t), b = After(t, n) PROVE EdgeOK(t, n, b)'
    <3>1. b \in Node /\ b # n /\ b \in Partners(t, n) /\ n \in Partners(t, b) BY <1>7, <2>1, PairFacts
    <3>2. UnderWay(t, n, b)' = UnderWay(t, n, b) /\ UnderWay(t, b, n)' = UnderWay(t, b, n)
      BY <1>7, <1>8, <2>1, <3>1
    <3>3. PairOK(StatusFor(t, n), StatusFor(t, b), UnderWay(t, n, b), UnderWay(t, b, n),
                 control_pc[n], p, button[b])
      BY <2>1
    <3>4. button'[b] = button[b] BY <1>2, <3>1
    <3> QED BY <1>1, <1>2, <1>5, <3>2, <3>3, <3>4 DEF EdgeOK
  <2>2. ASSUME NEW a \in Way(t), n = After(t, a) PROVE EdgeOK(t, a, n)'
    <3>1. a \in Node /\ a # n /\ a \in Partners(t, n) /\ n \in Partners(t, a) BY <1>7, <2>2, PairFacts
    <3>2. UnderWay(t, a, n)' = UnderWay(t, a, n) /\ UnderWay(t, n, a)' = UnderWay(t, n, a)
      BY <1>7, <1>8, <2>2, <3>1
    <3>3. PairOK(StatusFor(t, a), StatusFor(t, n), UnderWay(t, a, n), UnderWay(t, n, a),
                 control_pc[a], button[a], p)
      BY <2>2
    <3>4. button'[a] = button[a] BY <1>2, <3>1
    <3> QED BY <1>1, <1>2, <1>5, <3>2, <3>3, <3>4 DEF EdgeOK
  <2>3. \A m \in Way(t) \ {n} :
          StatusFor(t, m)' = StatusFor(t, m) /\ control_pc'[m] = control_pc[m] /\ button'[m] = button[m]
    BY <1>1, <1>2, <1>5, <1>7, WayFacts
  <2>4. \A b \in Way(t) : \A a \in Partners(t, b) :
           /\ Alone(t, a, b)'
           /\ n \notin {a, b} => UnderWay(t, a, b)' = UnderWay(t, a, b)
           /\ "REQ" \in UnderWay(t, a, b)' => "REQ" \in UnderWay(t, a, b)
           /\ a = HOST_ID => UnderWay(t, a, b)' \subseteq UnderWay(t, a, b)
    BY <1>7, <1>8
  <2>5. \A b \in Way(t) : b = After(t, n) => EdgeOK(t, n, b)' BY <2>1
  <2>6. \A a \in Way(t) : n = After(t, a) => EdgeOK(t, a, n)' BY <2>2
  <2> QED BY <1>7, <2>3, <2>4, <2>5, <2>6, TrainStep
<1>11. MessagesOK'
  <2>1. ASSUME NEW c \in Channel, NEW a, a = c[1], NEW b, b = c[2],
               NEW y, \E i \in DOMAIN sock'[c] : y = sock'[c][i]
        PROVE  WireOK(a, b, y)'
    <3>1. sock'[c] = sock[c] OBVIOUS
    <3> QED BY <2>1, <3>1, WiresAfter
  <2>2. \A c \in Channel : \A a, b, y :
          (a = c[1] /\ b = c[2] /\ \E i \in DOMAIN sock'[c] : y = sock'[c][i]) => WireOK(a, b, y)'
    BY <2>1
  <2> QED BY <1>1, <2>2, QueuesAfter
<1>12. Scripted' BY DEF CommitInv, Scripted
<1> QED BY <1>4, <1>6, <1>9, <1>10, <1>11, <1>12 DEF CommitInv

\* What the moves of the train make of a pair.
LEMMA PairMoves ==
  ASSUME NEW sa, NEW sb, NEW f, NEW g, NEW pc, NEW pa, NEW pb, NEW p,
         PairOK(sa, sb, f, g, pc, pa, pb)
  PROVE  /\ sa = "RESERVED" => PairOK(sa, sb, f, g, pc, p, pb)
         /\ sa = "TRAIN_IN_TRANSITION" /\ sb = "TRAIN_IN_TRANSITION" => PairOK(sa, sb, f, g, pc, p, pb)
         /\ sa = "TRAIN_IN_TRANSITION" /\ sb = "RESERVED" => PairOK(sa, sb, f, g, pc, pa, p)
         /\ sa # "TRAIN_IN_TRANSITION" /\ sb = "TRAIN_IN_TRANSITION" => PairOK(sa, sb, f, g, pc, pa, p)
BY DEF PairOK, Quiet, Waiting

\* It enters a reserved element from the one behind, which has noticed it.
LEMMA TrainEntersKeeps ==
  ASSUME CommitInv, Inv', NEW n \in Node, TrainEnters(n)
  PROVE  CommitInv'
<1>1. PICK t : t = CURRENT_HOST[n] OBVIOUS
<1>2. NODE_STATUS[n] = "RESERVED" BY DEF TrainEnters
<1>3. t \in Asking /\ n \in Way(t) /\ current_route[n] = RouteOf(t)
  BY <1>1, <1>2 DEF CommitInv, ElementOK
<1>4. StatusFor(t, n) = "RESERVED" BY <1>1, <1>2 DEF StatusFor
<1>5. /\ UNCHANGED <<control, CURRENT_HOST, railswitch, queues, sock, setting, keyboard>>
      /\ button' = [button EXCEPT ![n] = TRUE]
  BY DEF TrainEnters
<1>6. ASSUME NEW b \in Way(t), b = After(t, n)
      PROVE  PairOK(StatusFor(t, n), StatusFor(t, b), UnderWay(t, n, b), UnderWay(t, b, n),
                    control_pc[n], TRUE, button[b])
  <2>1. PairOK(StatusFor(t, n), StatusFor(t, b), UnderWay(t, n, b), UnderWay(t, b, n),
               control_pc[n], button[n], button[b])
    BY <1>3, <1>6, PairFacts
  <2> QED BY <1>4, <2>1, PairMoves
<1>7. ASSUME NEW a \in Way(t), n = After(t, a)
      PROVE  PairOK(StatusFor(t, a), StatusFor(t, n), UnderWay(t, a, n), UnderWay(t, n, a),
                    control_pc[a], button[a], TRUE)
  <2>1. /\ a \in Node /\ Before(t, n) = a
        /\ PairOK(StatusFor(t, a), StatusFor(t, n), UnderWay(t, a, n), UnderWay(t, n, a),
                  control_pc[a], button[a], button[n])
    BY <1>3, <1>7, PairFacts
  <2>2. a = rasp_id_prev(n, current_route[n]) /\ a # HOST_ID
    BY <1>3, <2>1, RoutesAssumption DEF Before
  <2>3. button[a] /\ CURRENT_HOST[a] = t BY <1>1, <2>2 DEF TrainEnters, ItsTrainIsOn
  <2>4. StatusFor(t, a) = "TRAIN_IN_TRANSITION" BY <2>1, <2>3 DEF TrainEnters, Noticed, StatusFor
  <2> QED BY <1>4, <2>1, <2>4, PairMoves
<1>8. NODE_STATUS[n] \in Locked BY <1>2 DEF Locked
<1> QED BY <1>1, <1>5, <1>6, <1>7, <1>8, MovingKeeps

\* It leaves an element for the one ahead, once it has left the one behind.
LEMMA TrainLeavesKeeps ==
  ASSUME CommitInv, Inv', NEW n \in Node, TrainLeaves(n)
  PROVE  CommitInv'
<1>1. PICK t : t = CURRENT_HOST[n] OBVIOUS
<1>2. NODE_STATUS[n] = "TRAIN_IN_TRANSITION" BY DEF TrainLeaves, Noticed
<1>3. t \in Asking /\ n \in Way(t) /\ current_route[n] = RouteOf(t)
  BY <1>1, <1>2 DEF CommitInv, ElementOK
<1>4. StatusFor(t, n) = "TRAIN_IN_TRANSITION" BY <1>1, <1>2 DEF StatusFor
<1>5. /\ UNCHANGED <<control, CURRENT_HOST, railswitch, queues, sock, setting, keyboard>>
      /\ button' = [button EXCEPT ![n] = FALSE]
  BY DEF TrainLeaves
<1>6. ASSUME NEW b \in Way(t), b = After(t, n)
      PROVE  PairOK(StatusFor(t, n), StatusFor(t, b), UnderWay(t, n, b), UnderWay(t, b, n),
                    control_pc[n], FALSE, button[b])
  <2>1. /\ b \in Node
        /\ PairOK(StatusFor(t, n), StatusFor(t, b), UnderWay(t, n, b), UnderWay(t, b, n),
                  control_pc[n], button[n], button[b])
    BY <1>3, <1>6, PairFacts
  <2>2. b = rasp_id_next(n, current_route[n]) /\ b # TAIL_ID
    BY <1>3, <1>6, <2>1, RoutesAssumption DEF After
  <2>3. button[b] /\ CURRENT_HOST[b] = t BY <1>1, <2>2 DEF TrainLeaves, ItsTrainIsOn
  <2>4. StatusFor(t, b) = "TRAIN_IN_TRANSITION" BY <2>1, <2>3 DEF TrainLeaves, Noticed, StatusFor
  <2> QED BY <1>4, <2>1, <2>4, PairMoves
<1>7. ASSUME NEW a \in Way(t), n = After(t, a)
      PROVE  PairOK(StatusFor(t, a), StatusFor(t, n), UnderWay(t, a, n), UnderWay(t, n, a),
                    control_pc[a], button[a], FALSE)
  <2>1. /\ a \in Node /\ Before(t, n) = a
        /\ PairOK(StatusFor(t, a), StatusFor(t, n), UnderWay(t, a, n), UnderWay(t, n, a),
                  control_pc[a], button[a], button[n])
    BY <1>3, <1>7, PairFacts
  <2>2. a = rasp_id_prev(n, current_route[n]) /\ a # HOST_ID
    BY <1>3, <2>1, RoutesAssumption DEF Before
  <2>3. ~(button[a] /\ CURRENT_HOST[a] = t) BY <1>1, <2>2 DEF TrainLeaves, ItsTrainIsOn
  <2>4. StatusFor(t, a) # "TRAIN_IN_TRANSITION"
    BY <2>1, <2>3 DEF TrainLeaves, Noticed, StatusFor
  <2> QED BY <1>4, <2>1, <2>4, PairMoves
<1>8. NODE_STATUS[n] \in Locked BY <1>2 DEF Locked
<1> QED BY <1>1, <1>5, <1>6, <1>7, <1>8, MovingKeeps

-----------------------------------------------------------------------------
(* The invariant holds.                                                    *)

LEMMA InitEstablishes == Init /\ Scripted => CommitInv
<1> SUFFICES ASSUME Init, Scripted PROVE CommitInv OBVIOUS
<1>1. Inv BY InitEstablishesInv
<1>2. /\ \A n \in Node : /\ NODE_STATUS[n] = "NOT_RESERVED" /\ control_pc[n] = "message"
                         /\ CURRENT_HOST[n] = NO_HOST /\ ~button[n]
                         /\ IN_CONTROL_QUEUE[n] = << >> /\ OUT_CONTROL_QUEUE[n] = << >>
      /\ \A c \in Channel : sock[c] = << >>
      /\ keyboard = setting.commands
  BY DEF Init
<1>3. MessagesOK BY <1>2 DEF MessagesOK
<1>4. ASSUME NEW n \in Node PROVE ElementOK(n) BY <1>2 DEF ElementOK, Awaits, Waiting, Locked
<1>5. ASSUME NEW t \in Asking PROVE TrainOK(t)
  <2>1. RouteOf(t) \in Route
    <3>1. Request(t) \in setting.commands BY DEF Asking, Request
    <3>2. setting.commands \subseteq Commands BY <1>1, SettingType DEF Inv, TypeOK
    <3>3. Request(t).msg \in Wire BY <3>1, <3>2, InterlockingAssumption
    <3> QED BY <3>3 DEF RouteOf, Wire
  <2>2. ASSUME NEW n \in Way(t)
        PROVE  /\ n \in Node /\ StatusFor(t, n) = "NOT_RESERVED"
               /\ \A a \in Partners(t, n) : <<a, n>> \in Channel
               /\ Before(t, n) \in Partners(t, n)
               /\ After(t, n) # TAIL_ID =>
                    /\ After(t, n) \in Way(t)
                    /\ n \in Partners(t, After(t, n)) /\ After(t, n) \in Partners(t, n)
    <3>1. n \in Elements(RouteOf(t)) BY DEF Way
    <3>2. n \in Node /\ StatusFor(t, n) = "NOT_RESERVED" BY <1>2, <2>1, <3>1, Beside DEF StatusFor
    <3>3. ASSUME NEW a \in Partners(t, n) PROVE <<a, n>> \in Channel
      BY <2>1, <3>1, Connected DEF Partners, Before, After
    <3>4. Before(t, n) \in Partners(t, n)
      BY <2>1, <3>1, Beside, RoutesAssumption DEF Partners, Before, After
    <3>5. ASSUME After(t, n) # TAIL_ID
          PROVE  /\ After(t, n) \in Way(t)
                 /\ n \in Partners(t, After(t, n)) /\ After(t, n) \in Partners(t, n)
      <4>1. After(t, n) \in Elements(RouteOf(t)) /\ Before(t, After(t, n)) = n /\ n # TAIL_ID
        BY <2>1, <3>1, <3>5, Beside DEF Before, After
      <4> QED BY <3>5, <4>1 DEF Partners, Way
    <3> QED BY <3>2, <3>3, <3>4, <3>5
  <2>3. ASSUME NEW b \in Way(t), NEW a \in Partners(t, b)
        PROVE  UnderWay(t, a, b) = {} /\ Alone(t, a, b)
    <3>1. OutOf(a) = << >> BY <1>2 DEF OutOf
    <3>2. sock[<<a, b>>] = << >> /\ IN_CONTROL_QUEUE[b] = << >> BY <1>2, <2>2
    <3>3. \A S : Said(<< >>, S) = {} /\ Once(<< >>, S) BY DEF Said, Once
    <3> QED BY <3>1, <3>2, <3>3 DEF UnderWay, Alone, Between, AtMostOne
  <2>4. ASSUME NEW a \in Way(t), NEW b, b = After(t, a), b # TAIL_ID
        PROVE  /\ UnderWay(t, a, b) = {} /\ UnderWay(t, b, a) = {} /\ EdgeOK(t, a, b)
    <3>1. UnderWay(t, a, b) = {} /\ UnderWay(t, b, a) = {} BY <2>2, <2>3, <2>4
    <3>2. StatusFor(t, a) = "NOT_RESERVED" /\ StatusFor(t, b) = "NOT_RESERVED" BY <2>2, <2>4
    <3> QED BY <3>1, <3>2 DEF EdgeOK, PairOK, Quiet
  <2>5. ASSUME NEW n \in Way(t) PROVE Untouched(t, n)
    <3>1. Onwards(n, RouteOf(t)) \subseteq Way(t) BY <2>1, OnwardsFacts DEF Way
    <3> QED BY <2>2, <2>4, <3>1 DEF Untouched
  <2>6. RequestOK(t)
    <3>1. PICK first : first = nodes_list[RouteOf(t)][1] OBVIOUS
    <3>2. first \in Way(t) BY <2>1, <3>1, PlaceOf, Beside DEF Way
    <3>3. HOST_ID \in Partners(t, first)
      BY <2>1, <2>2, <3>1, <3>2, Beside DEF Way, Before
    <3> QED BY <2>3, <2>5, <3>1, <3>2, <3>3 DEF RequestOK
  <2> QED BY <2>3, <2>4, <2>6 DEF TrainOK
<1> QED BY <1>1, <1>3, <1>4, <1>5 DEF CommitInv

LEMMA NextKeeps == CommitInv /\ [Next]_vars => CommitInv'
<1> SUFFICES ASSUME CommitInv, [Next]_vars PROVE CommitInv' OBVIOUS
<1>1. Inv' BY NextKeepsInv DEF CommitInv
<1>2. CASE UNCHANGED vars
  <2>1. UNCHANGED <<NODE_STATUS, current_route, control_pc, in_msg, CURRENT_HOST, railswitch,
                    IN_CONTROL_QUEUE, OUT_CONTROL_QUEUE, sock, setting, button, keyboard>>
    BY <1>2 DEF vars, control, queues, host
  <2>2. \A k \in Node : Awaits(k)' = Awaits(k) BY <2>1 DEF Awaits
  <2>3. Still BY <2>1, <2>2 DEF Still
  <2>4. Scripted' /\ MessagesOK' /\ Asking' = Asking /\ \A u \in Asking : TrainOK(u)'
    BY <1>1, <2>3, StillKeeps
  <2>5. \A k \in Node : ElementOK(k)' BY <2>1, ElementsSame
  <2> QED BY <1>1, <2>4, <2>5 DEF CommitInv
<1>3. ~(\E n \in Node : DiagFailed(n)) BY DEF DiagFailed, CommitInv, Scripted
<1>4. CASE Next
  BY <1>1, <1>3, <1>4, HostCommandKeeps, HostReceiveKeeps, HandleInKeeps, HandleOutKeeps, ControlMainKeeps,
     AsideKeeps, TrainEntersKeeps, TrainLeavesKeeps DEF Next
<1> QED BY <1>2, <1>4

\* Of a train that asks once, every two elements beside each other agree on how
\* far its reservation is, and what they still have to tell each other is on
\* its way; whatever the railway and the number of trains.
LEMMA CommitInvHolds == Spec /\ Scripted => []CommitInv
<1>1. Init /\ Scripted => CommitInv BY InitEstablishes
<1>2. CommitInv /\ [Next]_vars => CommitInv' BY NextKeeps
<1> QED BY <1>1, <1>2, PTL DEF Spec

-----------------------------------------------------------------------------
(* What the invariant says of the locks.                                   *)

\* What an element is locked for.
LEMMA LocksAre ==
  ASSUME CommitInv, NEW n \in Node
  PROVE  /\ LockOf(n) \in Route \union {NULL}
         /\ NODE_STATUS[n] \in Locked =>
              /\ CURRENT_HOST[n] \in Asking /\ n \in Way(CURRENT_HOST[n])
              /\ current_route[n] = RouteOf(CURRENT_HOST[n]) /\ current_route[n] \in Route
              /\ LockOf(n) = current_route[n]
         /\ NODE_STATUS[n] \notin Locked => LockOf(n) = NULL
         /\ \A r \in Route : LockOf(n) = r <=> LockedFor(n, r)
<1>1. setting.PingFailNodes = {} BY DEF CommitInv, Scripted
<1>2. ASSUME NODE_STATUS[n] \in Locked
      PROVE  /\ CURRENT_HOST[n] \in Asking /\ n \in Way(CURRENT_HOST[n])
             /\ current_route[n] = RouteOf(CURRENT_HOST[n]) /\ current_route[n] \in Route
  <2>1. ElementOK(n) BY DEF CommitInv
  <2>2. NODE_STATUS[n] # "NOT_RESERVED" BY <1>2 DEF Locked
  <2> QED BY <2>1, <2>2, TrainFacts DEF ElementOK
<1>3. NODE_STATUS[n] \in Locked => LockOf(n) = current_route[n] BY <1>1, <1>2 DEF LockOf, LockedFor
<1>4. NODE_STATUS[n] \notin Locked => LockOf(n) = NULL BY DEF LockOf, LockedFor
<1>5. \A r \in Route : LockOf(n) = r <=> LockedFor(n, r)
  BY <1>3, <1>4, InterlockingAssumption DEF LockedFor
<1> QED BY <1>2, <1>3, <1>4, <1>5

\* An element that is locked has the next one of its route locked.
LEMMA LockedAhead ==
  ASSUME CommitInv, NEW n \in Node, NEW r \in Route, LockOf(n) = r, rasp_id_next(n, r) # TAIL_ID
  PROVE  rasp_id_next(n, r) \in Node /\ LockOf(rasp_id_next(n, r)) = r
<1>1. NODE_STATUS[n] \in Locked /\ current_route[n] = r BY LocksAre DEF LockedFor
<1>2. PICK t \in Asking : t = CURRENT_HOST[n] BY <1>1, LocksAre
<1>3. n \in Way(t) /\ RouteOf(t) = r BY <1>1, <1>2, LocksAre
<1>4. PICK b : b = After(t, n) OBVIOUS
<1>5. b = rasp_id_next(n, r) /\ b # TAIL_ID BY <1>3, <1>4 DEF After
<1>6. b \in Way(t) BY <1>3, <1>4, <1>5, WayFacts
<1>7. b \in Node BY <1>3, <1>4, <1>6, PairFacts
<1>8. StatusFor(t, n) \in Locked BY <1>1, <1>2, StatusFacts
<1>9. StatusFor(t, b) \in Locked
  <2>1. PairOK(StatusFor(t, n), StatusFor(t, b), UnderWay(t, n, b), UnderWay(t, b, n),
               control_pc[n], button[n], button[b])
    BY <1>3, <1>4, <1>6, PairFacts
  <2> QED BY <1>8, <2>1 DEF PairOK, Quiet, Locked
<1>10. NODE_STATUS[b] \in Locked /\ current_route[b] = r
  <2>1. StatusFor(t, b) # "NOT_RESERVED" BY <1>9 DEF Locked
  <2> QED BY <1>3, <1>7, <1>9, <2>1, StatusFacts
<1> QED BY <1>5, <1>7, <1>10, LocksAre

\* A step changes one element, and only lets go of its train.
LEMMA OneElementMoves ==
  ASSUME CommitInv, [Next]_vars
  PROVE  /\ setting' = setting
         /\ \A k \in Node : \/ CURRENT_HOST[k] = NO_HOST \/ CURRENT_HOST'[k] = NO_HOST
                            \/ CURRENT_HOST'[k] = CURRENT_HOST[k]
         /\ \/ NODE_STATUS' = NODE_STATUS /\ current_route' = current_route
            \/ \E n \in Node : \A k \in Node \ {n} :
                 NODE_STATUS'[k] = NODE_STATUS[k] /\ current_route'[k] = current_route[k]
<1>1. CASE UNCHANGED vars BY <1>1 DEF vars, control, queues, host
<1>2. ASSUME NEW c \in Commands, HostCommand(c)
      PROVE  UNCHANGED <<setting, CURRENT_HOST, NODE_STATUS, current_route>>
  BY <1>2 DEF HostCommand, control
<1>3. ASSUME NEW f \in first_nodes, HostReceive(f)
      PROVE  UNCHANGED <<setting, CURRENT_HOST, NODE_STATUS, current_route>>
  BY <1>3 DEF HostReceive, control
<1>4. ASSUME NEW n \in Node, NEW s \in Id, HandleInSingleMsg(n, s)
      PROVE  /\ UNCHANGED <<setting, NODE_STATUS, current_route>>
             /\ \A k \in Node : \/ CURRENT_HOST[k] = NO_HOST \/ CURRENT_HOST'[k] = CURRENT_HOST[k]
  <2>1. UNCHANGED <<setting, NODE_STATUS, current_route>> BY <1>4 DEF HandleInSingleMsg, control, host
  <2>2. PICK h : h = Claimed(n, Head(sock[<<s, n>>]).host_id) OBVIOUS
  <2>3. CURRENT_HOST' = CURRENT_HOST \/ CURRENT_HOST' = [CURRENT_HOST EXCEPT ![n] = h]
    BY <1>4, <2>2 DEF HandleInSingleMsg
  <2>4. CURRENT_HOST[n] = NO_HOST \/ h = CURRENT_HOST[n] BY <2>2 DEF Claimed
  <2> QED BY <2>1, <2>3, <2>4 DEF CommitInv, Inv, TypeOK
<1>5. ASSUME NEW n \in Node, HandleOutControlMsg(n)
      PROVE  UNCHANGED <<setting, CURRENT_HOST, NODE_STATUS, current_route>>
  BY <1>5 DEF HandleOutControlMsg, control, host
<1>6. ASSUME NEW n \in Node, PositioningMain(n)
      PROVE  UNCHANGED <<setting, CURRENT_HOST, NODE_STATUS, current_route>>
  BY <1>6 DEF PositioningMain, host
<1>7. ASSUME NEW n \in Node, TrainEnters(n) \/ TrainLeaves(n)
      PROVE  UNCHANGED <<setting, CURRENT_HOST, NODE_STATUS, current_route>>
  BY <1>7 DEF TrainEnters, TrainLeaves, control
<1>8. ASSUME NEW n \in Node, controlMain(n)
      PROVE  /\ setting' = setting
             /\ CURRENT_HOST' = CURRENT_HOST \/ CURRENT_HOST' = [CURRENT_HOST EXCEPT ![n] = NO_HOST]
             /\ \A k \in Node \ {n} :
                  NODE_STATUS'[k] = NODE_STATUS[k] /\ current_route'[k] = current_route[k]
  <2>1. NODE_STATUS \in [Node -> tpcp_status] /\ current_route \in [Node -> Route \union {NULL}]
    BY DEF CommitInv, Inv, TypeOK
  <2>2. CASE Sensors(n) \/ NoMessage(n) \/ ResetNodeStatus(n) \/ AfterPositioning(n)
    BY <2>1, <2>2 DEF Sensors, SensorOn, SensorOff, ButtonOn, ButtonOff, NoSensor, NoMessage,
       ResetNodeStatus, AfterPositioning, SwitchAgrees, setNodeStatus, host
  <2>3. CASE RelaySensorOff(n) \/ UnknownRoute(n)
    BY <2>1, <2>3 DEF RelaySensorOff, UnknownRoute, Receives, host
  <2>4. CASE HandleReq(n) \/ HandleAck(n) \/ HandleCommit(n) \/ HandleAgree(n)
    BY <2>1, <2>4 DEF HandleReq, HandleAck, HandleCommit, HandleAgree, Dispatched, Receives, Phase,
       setNodeStatus, host
  <2>5. CASE HandleAgreeInPosition(n) \/ StartPositioning(n)
    BY <2>1, <2>5 DEF HandleAgreeInPosition, StartPositioning, Dispatched, Receives, SwitchAgrees,
       setNodeStatus, host
  <2>6. CASE HandleNotOk(n) \/ AnswerFailSafe(n) \/ HandleErrorMsg(n)
    BY <2>1, <2>6 DEF HandleNotOk, AnswerFailSafe, HandleErrorMsg, Dispatched, Receives, setNodeStatus, host
  <2> QED BY <1>8, <2>2, <2>3, <2>4, <2>5, <2>6 DEF controlMain, Message
<1>9. \A n \in Node : ~DiagFailed(n) BY DEF DiagFailed, CommitInv, Scripted
<1>10. CURRENT_HOST \in [Node -> Train \union {NO_HOST}] BY DEF CommitInv, Inv, TypeOK
<1>11. CASE UNCHANGED <<setting, CURRENT_HOST, NODE_STATUS, current_route>> BY <1>11
<1>12. CASE \E n \in Node, s \in Id : HandleInSingleMsg(n, s) BY <1>4, <1>12
<1>13. CASE \E n \in Node : controlMain(n)
  <2>1. PICK n \in Node : controlMain(n) BY <1>13
  <2>2. \A k \in Node : CURRENT_HOST'[k] = NO_HOST \/ CURRENT_HOST'[k] = CURRENT_HOST[k]
    BY <1>8, <1>10, <2>1
  <2> QED BY <1>8, <2>1, <2>2
<1> QED BY <1>1, <1>2, <1>3, <1>5, <1>6, <1>7, <1>9, <1>11, <1>12, <1>13 DEF Next

\* So an element is locked for the route of the train that it serves ...
LEMMA LockOwner ==
  ASSUME CommitInv, NEW n \in Node, NEW r \in Route, LockOf(n) = r
  PROVE  r \in node_routes(n) /\ CURRENT_HOST[n] \in Asking /\ RouteOf(CURRENT_HOST[n]) = r
<1>1. NODE_STATUS[n] \in Locked /\ current_route[n] = r BY LocksAre DEF LockedFor
<1>2. n \in Elements(r) /\ CURRENT_HOST[n] \in Asking /\ RouteOf(CURRENT_HOST[n]) = r
  BY <1>1, LocksAre DEF Way
<1> QED BY <1>2 DEF node_routes

\* ... and then the next element of the route is as well.
LocksInOrder ==
  \A n \in Node :
    /\ LockOf(n) \in Route \union {NULL}
    /\ \A r \in Route : LockOf(n) = r =>
         /\ r \in node_routes(n)
         /\ rasp_id_next(n, r) # TAIL_ID =>
              rasp_id_next(n, r) \in Node /\ LockOf(rasp_id_next(n, r)) = r

LEMMA LocksAreInOrder == CommitInv => LocksInOrder
BY LocksAre, LockedAhead, LockOwner DEF LocksInOrder

\* With one train they are too: where diagnostics may fail there are no locks.
LEMMA LocksOfOneTrain == OneTrainInv => LocksInOrder
<1> SUFFICES ASSUME OneTrainInv, NEW n \in Node
             PROVE  /\ LockOf(n) \in Route \union {NULL}
                    /\ \A r \in Route : LockOf(n) = r =>
                         /\ r \in node_routes(n)
                         /\ rasp_id_next(n, r) # TAIL_ID =>
                              rasp_id_next(n, r) \in Node /\ LockOf(rasp_id_next(n, r)) = r
  BY DEF LocksInOrder
<1>1. LockOf(n) \in Route \union {NULL} BY DEF LockOf, LockedFor
<1>2. ASSUME NEW r \in Route, LockOf(n) = r
      PROVE  /\ r \in node_routes(n)
             /\ rasp_id_next(n, r) # TAIL_ID =>
                  rasp_id_next(n, r) \in Node /\ LockOf(rasp_id_next(n, r)) = r
  <2>1. /\ NODE_STATUS[n] \in Locked /\ current_route[n] = r
        /\ \A k \in Node : NODE_STATUS[k] # "PING_FAIL_SAFE"
        /\ setting.PingFailNodes = {}
    <3>1. r # NULL BY InterlockingAssumption
    <3>2. setting.PingFailNodes = {} BY <1>2, <3>1 DEF LockOf
    <3> QED BY <1>2, <3>1, <3>2, NobodyFails DEF LockOf, LockedFor
  <2>2. CASE EndsAt(n) BY <2>1, <2>2 DEF EndsAt
  <2>3. CASE \E q \in Route : LeadsOn(n, q)
    <3>1. LeadsOn(n, r) BY <2>1, <2>3 DEF LeadsOn
    <3>2. n \in Elements(r) /\ r \in node_routes(n) BY <3>1 DEF LeadsOn, node_routes
    <3>3. ASSUME rasp_id_next(n, r) # TAIL_ID
          PROVE  rasp_id_next(n, r) \in Node /\ LockOf(rasp_id_next(n, r)) = r
      <4>1. PICK m : m = rasp_id_next(n, r) OBVIOUS
      <4>2. m \in Elements(r) /\ rasp_id_prev(m, r) = n BY <3>2, <3>3, <4>1, Beside
      <4>3. m \in Node /\ IndexOf(n, r) < IndexOf(m, r)
        <5>1. IndexOf(n, r) \in 1 .. Len(nodes_list[r]) /\ Len(nodes_list[r]) \in Nat
          BY <3>2, PlaceOf
        <5>2. IndexOf(n, r) # Len(nodes_list[r]) /\ m = nodes_list[r][IndexOf(n, r) + 1]
          BY <3>3, <4>1 DEF rasp_id_next
        <5>3. IndexOf(n, r) + 1 \in 1 .. Len(nodes_list[r]) BY <5>1, <5>2
        <5>4. IndexOf(m, r) = IndexOf(n, r) + 1 BY <5>2, <5>3, PlaceOf
        <5> QED BY <4>2, <5>1, <5>4, PlaceOf
      <4>4. NODE_STATUS[m] \in Locked /\ current_route[m] = r
        BY <2>1, <3>1, <4>1, <4>2, <4>3 DEF LeadsOn
      <4>5. LockOf(m) = r BY <2>1, <4>4 DEF LockOf, LockedFor
      <4> QED BY <4>1, <4>3, <4>5
    <3> QED BY <3>2, <3>3
  <2> QED BY <2>1, <2>2, <2>3, LockedLeads
<1> QED BY <1>1, <1>2

\* The instances of RouteLocking speak of the same railway.
LEMMA SameRailway ==
  ASSUME NEW n, NEW r
  PROVE  /\ Locking!node_routes(n) = node_routes(n)
         /\ Locking!rasp_id_prev(n, r) = rasp_id_prev(n, r)
         /\ Locking!rasp_id_next(n, r) = rasp_id_next(n, r)
BY DEF Locking!node_routes, node_routes, Locking!Elements, Elements, Locking!IndexOf, IndexOf,
   Locking!rasp_id_prev, rasp_id_prev, Locking!rasp_id_next, rasp_id_next

\* Nothing else changes what an element is locked for.
LEMMA LocksKept ==
  ASSUME setting' = setting, NEW k,
         NODE_STATUS'[k] = NODE_STATUS[k] /\ current_route'[k] = current_route[k]
  PROVE  LockOf(k)' = LockOf(k)
BY DEF LockOf, LockedFor

\* Locks are taken and given back one at a time, in the order of the route, if
\* no element goes from one route to another.
LEMMA LockStep ==
  ASSUME LocksInOrder, LocksInOrder', setting' = setting, NEW n \in Node,
         \A k \in Node \ {n} : NODE_STATUS'[k] = NODE_STATUS[k] /\ current_route'[k] = current_route[k],
         NODE_STATUS[n] \in Locked /\ NODE_STATUS'[n] \in Locked => current_route'[n] = current_route[n]
  PROVE  [Locking!LockNext]_[k \in Node |-> LockOf(k)]
<1> DEFINE lock == [k \in Node |-> LockOf(k)]
<1>0. \A r \in Route : r # NULL BY InterlockingAssumption
<1>1. \A k \in Node \ {n} : LockOf(k)' = LockOf(k) BY LocksKept
<1>2. lock' = [lock EXCEPT ![n] = LockOf(n)'] BY <1>1
<1>3. CASE LockOf(n)' = LockOf(n) BY <1>1, <1>3
<1>4. ASSUME LockOf(n) = NULL, NEW r \in Route, LockOf(n)' = r PROVE Locking!Lock(n, r)
  <2>1. r \in node_routes(n) BY <1>4 DEF LocksInOrder
  <2>2. ASSUME rasp_id_next(n, r) # TAIL_ID PROVE lock[rasp_id_next(n, r)] = r
    <3>1. PICK b : b = rasp_id_next(n, r) OBVIOUS
    <3>2. b \in Node /\ LockOf(b)' = r BY <1>4, <2>2, <3>1 DEF LocksInOrder
    <3>3. b # n BY <2>1, <2>2, <3>1, Beside DEF node_routes
    <3> QED BY <1>1, <3>1, <3>2, <3>3
  <2>3. lock[n] = NULL /\ lock' = [lock EXCEPT ![n] = r] BY <1>2, <1>4
  <2> HIDE DEF lock
  <2>4. lock = [k \in Node |-> LockOf(k)] /\ lock' = [k \in Node |-> LockOf(k)'] BY DEF lock
  <2> QED BY <2>1, <2>2, <2>3, <2>4, SameRailway DEF Locking!Lock
<1>5. ASSUME NEW r \in Route, LockOf(n) = r, LockOf(n)' = NULL PROVE Locking!Unlock(n, r)
  <2>1. r \in node_routes(n) BY <1>5 DEF LocksInOrder
  <2>2. ASSUME rasp_id_prev(n, r) # HOST_ID PROVE lock[rasp_id_prev(n, r)] # r
    <3>1. PICK a : a = rasp_id_prev(n, r) OBVIOUS
    <3>2. n \in Elements(r) BY <2>1 DEF node_routes
    <3>3. a \in Elements(r) /\ a # n /\ rasp_id_next(a, r) = n /\ n # TAIL_ID
      BY <2>2, <3>1, <3>2, Beside, RoutesAssumption
    <3>4. a \in Node BY <3>3, Beside
    <3>5. ASSUME LockOf(a)' = r PROVE FALSE
      <4>1. LockOf(n)' = r BY <3>3, <3>4, <3>5 DEF LocksInOrder
      <4> QED BY <1>0, <1>5, <4>1
    <3> QED BY <1>1, <3>1, <3>3, <3>4, <3>5
  <2>3. lock[n] = r /\ lock' = [lock EXCEPT ![n] = NULL] BY <1>2, <1>5
  <2> HIDE DEF lock
  <2>4. lock = [k \in Node |-> LockOf(k)] /\ lock' = [k \in Node |-> LockOf(k)'] BY DEF lock
  <2> QED BY <2>1, <2>2, <2>3, <2>4, SameRailway DEF Locking!Unlock
<1>6. LockOf(n) \in Route \union {NULL} /\ LockOf(n)' \in Route \union {NULL}
  BY DEF LocksInOrder
<1>7. CASE \E r \in Route : Locking!Lock(n, r) \/ Locking!Unlock(n, r) BY <1>7 DEF Locking!LockNext
<1>8. ASSUME NEW r \in Route, NEW q \in Route, LockOf(n) = r, LockOf(n)' = q PROVE r = q
  <2>1. NODE_STATUS[n] \in Locked /\ current_route[n] = r BY <1>0, <1>8 DEF LockOf, LockedFor
  <2>2. NODE_STATUS'[n] \in Locked /\ current_route'[n] = q BY <1>0, <1>8 DEF LockOf, LockedFor
  <2> QED BY <2>1, <2>2
<1> QED BY <1>3, <1>4, <1>5, <1>6, <1>7, <1>8

\* An element stays locked for its train.
LEMMA RouteOfTrainStays ==
  ASSUME CommitInv, CommitInv', [Next]_vars, NEW n \in Node,
         NODE_STATUS[n] \in Locked, NODE_STATUS'[n] \in Locked
  PROVE  current_route'[n] = current_route[n]
<1>1. ElementOK(n) /\ ElementOK(n)' BY DEF CommitInv
<1>2. CURRENT_HOST[n] \in Asking /\ current_route[n] = RouteOf(CURRENT_HOST[n])
  BY <1>1 DEF ElementOK, Locked
<1>3. (CURRENT_HOST[n] \in Asking)' /\ current_route'[n] = RouteOf(CURRENT_HOST[n])'
  BY <1>1 DEF ElementOK, Locked
<1>4. NO_HOST \notin Asking /\ Asking' = Asking
  <2>1. \A t \in Asking : t # NO_HOST BY TrainFacts
  <2> QED BY <2>1, OneElementMoves, ScriptKept
<1>5. CURRENT_HOST'[n] = CURRENT_HOST[n] BY <1>2, <1>3, <1>4, OneElementMoves
<1>6. PICK t : t = CURRENT_HOST[n] OBVIOUS
<1>7. RouteOf(t)' = RouteOf(t) BY OneElementMoves, ScriptKept
<1>8. RouteOf(CURRENT_HOST[n])' = RouteOf(t)' BY <1>5, <1>6 DEF RouteOf, Request
<1> QED BY <1>2, <1>3, <1>6, <1>7, <1>8
LEMMA LockStepOfTrains ==
  ASSUME CommitInv, CommitInv', LocksInOrder, LocksInOrder', [Next]_vars
  PROVE  [Locking!LockNext]_[n \in Node |-> LockOf(n)]
<1>1. setting' = setting BY OneElementMoves
<1>2. CASE NODE_STATUS' = NODE_STATUS /\ current_route' = current_route
  BY <1>1, <1>2, LocksKept
<1>3. ASSUME NEW n \in Node,
             \A k \in Node \ {n} : NODE_STATUS'[k] = NODE_STATUS[k] /\ current_route'[k] = current_route[k]
      PROVE  [Locking!LockNext]_[k \in Node |-> LockOf(k)]
  BY <1>1, <1>3, RouteOfTrainStays, LockStep
<1> QED BY <1>2, <1>3, OneElementMoves

LEMMA LockStepOfOneTrain ==
  ASSUME OneTrainInv, LocksInOrder, LocksInOrder', [Next]_vars
  PROVE  [Locking!LockNext]_[n \in Node |-> LockOf(n)]
<1>1. setting' = setting BY SettingStays DEF OneTrainInv
<1>2. CASE UNCHANGED <<NODE_STATUS, current_route>> BY <1>1, <1>2, LocksKept
<1>3. ASSUME NEW n \in Node, controlMain(n) \/ DiagFailed(n)
      PROVE  [Locking!LockNext]_[k \in Node |-> LockOf(k)]
  <2>1. HOST_ID \in Id BY DEF Id
  <2>2. OnlyAt(n) BY <1>3, <2>1, StepsAreLocal DEF OneTrainInv
  <2> QED BY <1>1, <2>2, LockedRouteStep, LockStep DEF OnlyAt, OneTrainInv
<1> QED BY <1>2, <1>3 DEF Next, vars, control, HostCommand, HostReceive, HandleInSingleMsg,
           HandleOutControlMsg, PositioningMain, TrainEnters, TrainLeaves

-----------------------------------------------------------------------------
(* The theorems.                                                           *)

\* What RouteLockingProofs proves of hand-over-hand locking, for these locks.
Chain == INSTANCE RouteLockingProofs WITH Free <- NULL, lock <- [n \in Node |-> LockOf(n)]

\* Its assumptions are those of Routes and Interlocking.
LEMMA ChainAssumptions ==
  /\ \A r \in Route : ~Chain!IsSwitch(nodes_list[r][Len(nodes_list[r])])
  /\ NULL \notin Route
<1>1. \A n, r : /\ Chain!rasp_id_prev(n, r) = rasp_id_prev(n, r)
                /\ Chain!rasp_id_next(n, r) = rasp_id_next(n, r)
  BY DEF rasp_id_prev, Chain!rasp_id_prev, rasp_id_next, Chain!rasp_id_next, IndexOf, Chain!IndexOf
<1>2. \A n : Chain!node_routes(n) = node_routes(n)
  BY DEF node_routes, Chain!node_routes, Elements, Chain!Elements
<1>3. \A n : Chain!prev_nodes(n) = prev_nodes(n) /\ Chain!next_nodes(n) = next_nodes(n)
  BY <1>1, <1>2 DEF prev_nodes, Chain!prev_nodes, next_nodes, Chain!next_nodes
<1>4. \A S : Chain!Cardinality(S) = Cardinality(S) BY DEF Chain!Cardinality, Cardinality
<1> QED BY <1>3, <1>4, NoRouteEndsWithSwitch, InterlockingAssumption DEF IsSwitch, Chain!IsSwitch

\* The commit protocol implements hand-over-hand locking: an element is locked
\* for a route only when all that is ahead of it is, and released only when no
\* train can come from behind, for any railway, whatever order the messages of
\* different nodes are handled in and whichever switches fail: for any trains on
\* the buttons, and for one train with simulated sensors.
THEOREM CommitLocksHandOverHand == Spec /\ (Scripted \/ OneTrain) => LocksHandOverHand
<1>1. Init => Locking!LockInit
  <2> SUFFICES ASSUME Init PROVE Locking!LockInit OBVIOUS
  <2>1. \A n \in Node : LockOf(n) = NULL BY DEF Init, LockOf, LockedFor, Locked
  <2> QED BY <2>1 DEF Locking!LockInit
<1>2. CommitInv /\ CommitInv' /\ LocksInOrder /\ LocksInOrder' /\ [Next]_vars
        => [Locking!LockNext]_[n \in Node |-> LockOf(n)]
  BY LockStepOfTrains
<1>3. OneTrainInv /\ LocksInOrder /\ LocksInOrder' /\ [Next]_vars
        => [Locking!LockNext]_[n \in Node |-> LockOf(n)]
  BY LockStepOfOneTrain
<1>4. Spec /\ Scripted => LocksHandOverHand
  BY <1>1, <1>2, CommitInvHolds, LocksAreInOrder, PTL DEF Spec, LocksHandOverHand, Locking!LockSpec
<1>5. Spec /\ OneTrain => LocksHandOverHand
  BY <1>1, <1>3, OneTrainHolds, LocksOfOneTrain, PTL DEF Spec, LocksHandOverHand, Locking!LockSpec
<1> QED BY <1>4, <1>5, PTL

LEMMA LocksFollowTheChain == LocksHandOverHand => Chain!LockSpec
<1>1. Locking!LockInit => Chain!LockInit BY DEF Locking!LockInit, Chain!LockInit
<1>2. Locking!LockNext => Chain!LockNext
  BY DEF Locking!LockNext, Chain!LockNext, Locking!Lock, Chain!Lock, Locking!Unlock, Chain!Unlock,
     Locking!node_routes, Chain!node_routes, Locking!Elements, Chain!Elements,
     Locking!rasp_id_prev, Chain!rasp_id_prev, Locking!rasp_id_next, Chain!rasp_id_next,
     Locking!IndexOf, Chain!IndexOf
<1> QED BY <1>1, <1>2, PTL DEF LocksHandOverHand, Locking!LockSpec, Chain!LockSpec

\* So the way ahead of a locked element is locked for the same route ...
THEOREM WayAheadStaysLocked == Spec /\ (Scripted \/ OneTrain) => []Locking!WayAheadLocked
<1>1. Chain!LockSpec => [](Chain!LockTypeOK /\ Chain!WayAheadLocked)
  BY Chain!WayAheadIsLocked, ChainAssumptions, RoutesAssumption
<1>2. Chain!WayAheadLocked => Locking!WayAheadLocked
  BY DEF Chain!WayAheadLocked, Locking!WayAheadLocked
<1> QED BY <1>1, <1>2, CommitLocksHandOverHand, LocksFollowTheChain, PTL

\* ... and two trains are never let into conflicting routes.
THEOREM ConflictsStayExcluded == Spec /\ (Scripted \/ OneTrain) => []Locking!NoConflictingRoutes
<1>1. Chain!LockSpec => []Chain!NoConflictingRoutes
  BY Chain!ConflictingRoutesExcluded, ChainAssumptions, RoutesAssumption
<1>2. Chain!NoConflictingRoutes => Locking!NoConflictingRoutes
  BY DEF Chain!NoConflictingRoutes, Locking!NoConflictingRoutes, Chain!Elements, Locking!Elements
<1> QED BY <1>1, <1>2, CommitLocksHandOverHand, LocksFollowTheChain, PTL

\* With any trains on the buttons nothing ahead of a locked element is anything
\* but locked for its route.
THEOREM WayAheadOfTrains == Spec /\ Scripted => []WayAheadLockedOrFailed
<1>1. CommitInv /\ Locking!WayAheadLocked => WayAheadLockedOrFailed
  <2> SUFFICES ASSUME CommitInv, Locking!WayAheadLocked, NEW r \in Route,
                      NEW i \in 1 .. Len(nodes_list[r]), NEW j \in 1 .. Len(nodes_list[r]),
                      i < j, LockedFor(nodes_list[r][i], r)
               PROVE  LockedFor(nodes_list[r][j], r)
    BY DEF WayAheadLockedOrFailed
  <2>1. PICK a, b : a = nodes_list[r][i] /\ b = nodes_list[r][j] OBVIOUS
  <2>2. a \in Node /\ b \in Node /\ i <= j BY <2>1, RoutesAssumption
  <2>3. LockOf(a) = r BY <2>1, <2>2, LocksAre
  <2>4. LockOf(b) = r BY <2>1, <2>2, <2>3 DEF Locking!WayAheadLocked
  <2> QED BY <2>1, <2>2, <2>4, LocksAre
<1> QED BY <1>1, CommitInvHolds, WayAheadStaysLocked, PTL

\* A train that is let in, or is on its way, finds every switch ahead of it set
\* for its route and in position.
THEOREM SwitchesAreSetAhead == Spec /\ Scripted => []SwitchesAheadAreSet
<1>1. CommitInv /\ Locking!WayAheadLocked => SwitchesAheadAreSet
  <2> SUFFICES ASSUME CommitInv, Locking!WayAheadLocked, NEW r \in Route,
                      NEW i \in 1 .. Len(nodes_list[r]), NEW j \in 1 .. Len(nodes_list[r]),
                      i <= j, LockedFor(nodes_list[r][i], r), IsSwitch(nodes_list[r][j])
               PROVE  railswitch[nodes_list[r][j]] = [last_route_id |-> r, in_position |-> TRUE]
    BY DEF SwitchesAheadAreSet
  <2>1. PICK a, b : a = nodes_list[r][i] /\ b = nodes_list[r][j] OBVIOUS
  <2>2. a \in Node /\ b \in Node BY <2>1, RoutesAssumption
  <2>3. LockOf(a) = r BY <2>1, <2>2, LocksAre
  <2>4. LockOf(b) = r BY <2>1, <2>2, <2>3 DEF Locking!WayAheadLocked
  <2>5. LockedFor(b, r) BY <2>2, <2>4, LocksAre
  <2>6. ElementOK(b) BY <2>2 DEF CommitInv
  <2> QED BY <2>1, <2>5, <2>6 DEF ElementOK, LockedFor
<1> QED BY <1>1, CommitInvHolds, WayAheadStaysLocked, PTL

\* An element that takes part in a reservation knows the train it serves: no
\* other train is let in behind its back.
THEOREM EngagedElementsAreOwned == Spec /\ Scripted => []EngagedIsOwned
<1>1. CommitInv => EngagedIsOwned
  <2> SUFFICES ASSUME CommitInv, NEW n \in Node, NODE_STATUS[n] \in Engaged \union Locked
               PROVE  CURRENT_HOST[n] # NO_HOST
    BY DEF EngagedIsOwned
  <2>1. ElementOK(n) BY DEF CommitInv
  <2>2. NODE_STATUS[n] # "NOT_RESERVED" BY DEF Engaged, Locked
  <2> QED BY <2>1, <2>2, TrainFacts DEF ElementOK
<1> QED BY <1>1, CommitInvHolds, PTL

\* When every train asks once, a locked element stays locked for its route; a
\* train that asks twice can move it to another one (run RouteTakenOver).
THEOREM LockedRouteStays == Spec /\ Scripted => LockedRouteIsKept
<1>1. CommitInv /\ CommitInv' /\ [Next]_vars
        => [\A n \in Node : NODE_STATUS[n] \in Locked /\ NODE_STATUS'[n] \in Locked
              => current_route'[n] = current_route[n]]_vars
  BY RouteOfTrainStays
<1> QED BY <1>1, CommitInvHolds, PTL DEF Spec, LockedRouteIsKept
=============================================================================
