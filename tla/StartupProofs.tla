---------------------------- MODULE StartupProofs ----------------------------
(***************************************************************************)
(* For every railway: an element that is up can reach everything ahead of  *)
(* it, and the host PC announces the system only when all of it is up,     *)
(* whichever nodes fail to connect.                                        *)
(***************************************************************************)
EXTENDS Startup, FiniteSetTheorems, TLAPS

\* The other ends of the connections of n, and of the first ones.
Partners(n) == {node_conn[n][i] : i \in DOMAIN node_conn[n]}

FirstPartners(n) == {node_conn[n][i] : i \in 1 .. prev_node_count(n)}

\* The clients that s has accepted and answered.
Served(s) ==
  IF s = HOST_ID THEN IF host_pc = "configuring" THEN {} ELSE host_conn
                 ELSE Partners(s) \intersect next_nodes(s)

\* c is connected to s, which has not accepted it; and s has answered, unread by c.
Waits(c, s)   == c \in backlog[s] /\ (s = HOST_ID => host_pc # "configuring")
Greeted(c, s) == s \in to_connect[c] /\ wire[<<s, c>>] > 0

\* What an init task and the host PC have done at each of their places.
PhaseOK(n) ==
  /\ init_pc[n] = "boot" => config_conn[n] = ""
  /\ config_conn[n] \in {"DONE", "START"} => init_pc[n] \notin {"boot", "configure"}
  /\ host_pc # "configuring" => init_pc[n] \notin {"boot", "configure"}
  /\ host_pc = "configuring" /\ n \in backlog[HOST_ID] =>
       init_pc[n] = "configure" /\ config_conn[n] = ""
  /\ init_pc[n] \in {"boot", "configure", "wait"} => node_conn[n] = << >>
  /\ init_pc[n] \in {"boot", "configure"} => to_connect[n] = {}
  /\ init_pc[n] = "wait" => to_connect[n] = prev_nodes(n)
  /\ init_pc[n] \in {"server", "confirm", "running"} => to_connect[n] = {}
  /\ init_pc[n] \notin {"confirm", "running"} => confirmations[n] = 0

\* Connections are to different neighbours, those to previous ones first.
ConnOK(n) ==
  /\ \A i, j \in DOMAIN node_conn[n] : node_conn[n][i] = node_conn[n][j] => i = j
  /\ Partners(n) \subseteq Connections(n)
  /\ to_connect[n] \subseteq prev_nodes(n) \ Partners(n)
  /\ init_pc[n] \in {"client", "hello"} => Partners(n) \subseteq prev_nodes(n)

\* Client and server agree on their connection, and a client opens one at a time.
PairOK(c, s) ==
  /\ Waits(c, s) => init_pc[c] = "hello" /\ s \in to_connect[c] /\ c \notin Served(s)
  /\ Greeted(c, s) => init_pc[c] = "hello"
  /\ s \in prev_nodes(c) /\ wire[<<s, c>>] > 0 => c \in Served(s)
  /\ c \in Served(s) => s \in Partners(c) \/ Greeted(c, s)

OneAtATime(c) ==
  \A s, t \in Server :
    (Waits(c, s) \/ Greeted(c, s)) /\ (Waits(c, t) \/ Greeted(c, t)) => s = t

\* A node that did not fail has all its connections to previous elements, the
\* first of all; every node waits for those to the next ones.
WholeOK(n) ==
  /\ n \notin connect_failed =>
       /\ init_pc[n] \in {"client", "hello"} =>
            prev_nodes(n) \ to_connect[n] \subseteq Partners(n)
       /\ init_pc[n] \in {"server", "confirm", "running"} =>
            /\ 1 .. prev_node_count(n) \subseteq DOMAIN node_conn[n]
            /\ FirstPartners(n) = prev_nodes(n)
  /\ n \in connect_failed =>
       /\ init_pc[n] \notin {"boot", "configure", "wait"}
       /\ \E s \in prev_nodes(n) : s \notin to_connect[n] /\ s \notin Partners(n)
  /\ init_pc[n] \in {"confirm", "running"} /\ next_nodes(n) # {TAIL_ID} =>
       next_nodes(n) \subseteq Partners(n)

\* A confirmation comes from an element that runs.
ConfirmedOK(n) ==
  /\ \A m \in next_nodes(n) \intersect Node : wire[<<m, n>>] > 0 => init_pc[m] = "running"
  /\ n \notin connect_failed =>
       \A i \in DOMAIN node_conn[n] :
         prev_node_count(n) < i /\ i <= prev_node_count(n) + confirmations[n] =>
           node_conn[n][i] \in Node /\ init_pc[node_conn[n][i]] = "running"
  /\ init_pc[n] = "running" /\ next_nodes(n) # {TAIL_ID} => confirmations[n] = next_node_count(n)

HostOK ==
  /\ host_pc \in {"confirming", "running"} => host_conn = first_nodes
  /\ \A n \in first_nodes : wire[<<n, HOST_ID>>] > 0 => init_pc[n] = "running"
  /\ host_pc = "running" => \A n \in first_nodes : init_pc[n] = "running"

\* From an element that runs on, a route runs up to the first node that failed.
RunsAhead ==
  \A r \in Route : \A i, j \in 1 .. Len(nodes_list[r]) :
    /\ i <= j /\ init_pc[nodes_list[r][i]] = "running"
    /\ \A k \in i .. j : k # j => nodes_list[r][k] \notin connect_failed
    => init_pc[nodes_list[r][j]] = "running"

NodeOK(n) ==
  PhaseOK(n) /\ ConnOK(n) /\ WholeOK(n) /\ ConfirmedOK(n) /\ OneAtATime(n)

StartInv ==
  /\ StartTypeOK /\ HostOK
  /\ \A n \in Node : NodeOK(n) /\ \A s \in Server : PairOK(n, s)

-----------------------------------------------------------------------------
(* The railway.                                                            *)

\* The neighbours of an element are the ones beside it on a route.
LEMMA Beside ==
  ASSUME NEW r \in Route, NEW i \in 1 .. Len(nodes_list[r])
  PROVE  /\ nodes_list[r][i] \in Node /\ Len(nodes_list[r]) \in Nat
         /\ rasp_id_next(nodes_list[r][i], r) =
              IF i = Len(nodes_list[r]) THEN TAIL_ID ELSE nodes_list[r][i + 1]
         /\ rasp_id_prev(nodes_list[r][i], r) =
              IF i = 1 THEN HOST_ID ELSE nodes_list[r][i - 1]
<1>1. \A k \in 1 .. Len(nodes_list[r]) :
        nodes_list[r][k] = nodes_list[r][i] => k = i
  BY RoutesAssumption
<1>2. IndexOf(nodes_list[r][i], r) \in 1 .. Len(nodes_list[r])
      /\ nodes_list[r][IndexOf(nodes_list[r][i], r)] = nodes_list[r][i]
  BY DEF IndexOf
<1>3. IndexOf(nodes_list[r][i], r) = i BY <1>1, <1>2
<1>4. nodes_list[r] \in Seq(Node) BY RoutesAssumption
<1> QED BY <1>3, <1>4 DEF rasp_id_next, rasp_id_prev

\* n comes right after s on a route, as seen from either.
LEMMA NextOfPrev ==
  ASSUME NEW n \in Node, NEW s \in Node
  PROVE  /\ s \in prev_nodes(n) <=> n \in next_nodes(s)
         /\ s \in prev_nodes(n) <=> \E r \in Route : \E i \in 1 .. Len(nodes_list[r]) :
              i # 1 /\ nodes_list[r][i] = n /\ nodes_list[r][i - 1] = s
<1> DEFINE Adjacent == \E r \in Route : \E i \in 1 .. Len(nodes_list[r]) :
              i # 1 /\ nodes_list[r][i] = n /\ nodes_list[r][i - 1] = s
<1>1. ASSUME s \in prev_nodes(n) PROVE Adjacent
  <2>1. PICK r \in Route : n \in Elements(r) /\ s = rasp_id_prev(n, r)
    BY <1>1 DEF prev_nodes, node_routes
  <2>2. PICK i \in 1 .. Len(nodes_list[r]) : nodes_list[r][i] = n
    BY <2>1 DEF Elements
  <2>3. s = IF i = 1 THEN HOST_ID ELSE nodes_list[r][i - 1]
    BY <2>1, <2>2, Beside
  <2> QED BY <2>2, <2>3, RoutesAssumption
<1>2. ASSUME n \in next_nodes(s) PROVE Adjacent
  <2>1. PICK r \in Route : s \in Elements(r) /\ n = rasp_id_next(s, r)
    BY <1>2 DEF next_nodes, node_routes
  <2>2. PICK i \in 1 .. Len(nodes_list[r]) : nodes_list[r][i] = s
    BY <2>1 DEF Elements
  <2>3. n = IF i = Len(nodes_list[r]) THEN TAIL_ID ELSE nodes_list[r][i + 1]
    BY <2>1, <2>2, Beside
  <2>4. i # Len(nodes_list[r]) /\ n = nodes_list[r][i + 1] /\ Len(nodes_list[r]) \in Nat
    BY <2>3, RoutesAssumption, Beside
  <2>5. i + 1 \in 1 .. Len(nodes_list[r]) /\ i + 1 # 1 /\ (i + 1) - 1 = i BY <2>4
  <2> QED BY <2>2, <2>4, <2>5
<1>3. ASSUME Adjacent PROVE s \in prev_nodes(n) /\ n \in next_nodes(s)
  <2>1. PICK r \in Route : \E i \in 1 .. Len(nodes_list[r]) :
          i # 1 /\ nodes_list[r][i] = n /\ nodes_list[r][i - 1] = s
    BY <1>3
  <2>2. PICK i \in 1 .. Len(nodes_list[r]) :
          i # 1 /\ nodes_list[r][i] = n /\ nodes_list[r][i - 1] = s
    BY <2>1
  <2>3. Len(nodes_list[r]) \in Nat BY Beside
  <2>4. i - 1 \in 1 .. Len(nodes_list[r]) /\ i - 1 # Len(nodes_list[r]) /\ (i - 1) + 1 = i
    BY <2>2, <2>3
  <2>5. rasp_id_prev(n, r) = s BY <2>2, Beside
  <2>6. rasp_id_next(s, r) = n BY <2>2, <2>4, Beside
  <2>7. n \in Elements(r) /\ s \in Elements(r) BY <2>2, <2>4 DEF Elements
  <2> QED BY <2>5, <2>6, <2>7 DEF prev_nodes, next_nodes, node_routes
<1> QED BY <1>1, <1>2, <1>3

\* Only the last element of a route has the tail after it, and nothing else.
LEMMA AroundNode ==
  ASSUME NEW n \in Node
  PROVE  /\ prev_nodes(n) \subseteq Server
         /\ next_nodes(n) \subseteq Node \union {TAIL_ID}
         /\ TAIL_ID \in next_nodes(n) =>
              \E r \in Route : n = nodes_list[r][Len(nodes_list[r])]
<1>1. ASSUME NEW r \in Route, n \in Elements(r)
      PROVE  /\ rasp_id_prev(n, r) \in Server
             /\ rasp_id_next(n, r) \in Node \union {TAIL_ID}
             /\ rasp_id_next(n, r) = TAIL_ID => n = nodes_list[r][Len(nodes_list[r])]
  <2>1. PICK i \in 1 .. Len(nodes_list[r]) : nodes_list[r][i] = n
    BY <1>1 DEF Elements
  <2>2. Len(nodes_list[r]) \in Nat BY Beside
  <2>3. i # 1 => i - 1 \in 1 .. Len(nodes_list[r]) BY <2>2
  <2>4. i # Len(nodes_list[r]) => i + 1 \in 1 .. Len(nodes_list[r]) BY <2>2
  <2>5. \A k \in 1 .. Len(nodes_list[r]) : nodes_list[r][k] \in Node BY Beside
  <2>6. rasp_id_prev(n, r) = IF i = 1 THEN HOST_ID ELSE nodes_list[r][i - 1]
    BY <2>1, Beside
  <2>7. rasp_id_next(n, r) =
          IF i = Len(nodes_list[r]) THEN TAIL_ID ELSE nodes_list[r][i + 1]
    BY <2>1, Beside
  <2> QED BY <2>1, <2>3, <2>4, <2>5, <2>6, <2>7, RoutesAssumption DEF Server
<1> QED BY <1>1 DEF prev_nodes, next_nodes, node_routes

\* The neighbours of an element are finitely many, and known by their numbers.
LEMMA Counted ==
  ASSUME NEW n \in Node
  PROVE  /\ IsFiniteSet(prev_nodes(n)) /\ prev_node_count(n) \in Nat
         /\ IsFiniteSet(next_nodes(n)) /\ next_node_count(n) \in Nat
         /\ IsFiniteSet(first_nodes)
<1>1. IsFiniteSet(Node) BY StartupAssumption
<1>2. IsFiniteSet(Node \union {HOST_ID}) /\ IsFiniteSet(Node \union {TAIL_ID})
  BY <1>1, FS_AddElement
<1>3. prev_nodes(n) \subseteq Node \union {HOST_ID}
      /\ next_nodes(n) \subseteq Node \union {TAIL_ID}
  BY AroundNode DEF Server
<1>4. IsFiniteSet(prev_nodes(n)) /\ IsFiniteSet(next_nodes(n))
  BY <1>2, <1>3, FS_Subset
<1>5. prev_node_count(n) \in Nat /\ next_node_count(n) \in Nat
  BY <1>4, FS_CardinalityType DEF prev_node_count, next_node_count
<1>6. first_nodes \subseteq Node BY DEF first_nodes
<1>7. IsFiniteSet(first_nodes) BY <1>1, <1>6, FS_Subset
<1> QED BY <1>4, <1>5, <1>7

\* "No route can finish with a switch": after a last element comes the tail alone.
LEMMA TailAlone ==
  ASSUME NEW n \in Node, TAIL_ID \in next_nodes(n)
  PROVE  next_nodes(n) = {TAIL_ID}
<1>1. PICK r \in Route : n = nodes_list[r][Len(nodes_list[r])] BY AroundNode
<1>2. ~IsSwitch(n) BY <1>1, NoRouteEndsWithSwitch
<1>3. ~(Cardinality(next_nodes(n)) > 1) BY <1>2 DEF IsSwitch
<1>4. IsFiniteSet(next_nodes(n)) /\ Cardinality(next_nodes(n)) \in Nat
  BY Counted DEF next_node_count
<1>5. {TAIL_ID} \subseteq next_nodes(n) OBVIOUS
<1>6. Cardinality({TAIL_ID}) = 1 BY FS_Singleton
<1>7. Cardinality({TAIL_ID}) <= Cardinality(next_nodes(n)) BY <1>4, <1>5, FS_Subset
<1>8. Cardinality(next_nodes(n)) = Cardinality({TAIL_ID}) BY <1>3, <1>4, <1>6, <1>7
<1> QED BY <1>4, <1>5, <1>8, FS_Subset

\* Every connection has its two directions.
LEMMA Channels ==
  ASSUME NEW n \in Node
  PROVE  /\ Connections(n) \subseteq Server
         /\ \A s \in Server :
              /\ s \in prev_nodes(n) => <<s, n>> \in Channel /\ <<n, s>> \in Channel
              /\ s \in next_nodes(n) => <<s, n>> \in Channel /\ <<n, s>> \in Channel
         /\ n \in first_nodes <=> HOST_ID \in prev_nodes(n)
<1>1. n \in first_nodes <=> HOST_ID \in prev_nodes(n) BY DEF first_nodes
<1>2. Connections(n) \subseteq Server
  BY AroundNode DEF Connections, Server
<1>3. \A s \in Node : s \in Connections(n) => <<n, s>> \in Channel
  BY DEF Channel
<1>4. \A s \in Node : n \in Connections(s) => <<s, n>> \in Channel
  BY DEF Channel
<1>5. \A s \in Node : s \in prev_nodes(n) \/ s \in next_nodes(n) =>
        s \in Connections(n) /\ n \in Connections(s)
  BY NextOfPrev, RoutesAssumption DEF Connections
<1>6. HOST_ID \in prev_nodes(n) =>
        <<HOST_ID, n>> \in Channel /\ <<n, HOST_ID>> \in Channel
  BY <1>1, RoutesAssumption DEF Channel, Connections
<1>7. HOST_ID \notin next_nodes(n) BY AroundNode, RoutesAssumption
<1> QED BY <1>1, <1>2, <1>3, <1>4, <1>5, <1>6, <1>7 DEF Server

-----------------------------------------------------------------------------
(* The invariant holds.                                                    *)

\* Nothing is connected before the nodes are switched on.
LEMMA StartsInInv == Init => StartInv
<1> SUFFICES ASSUME Init PROVE StartInv OBVIOUS
<1>0. /\ \A n \in Node : /\ init_pc[n] = "boot" /\ config_conn[n] = ""
                         /\ to_connect[n] = {} /\ confirmations[n] = 0
      /\ \A s \in Server : backlog[s] = {}
      /\ \A c \in Channel : wire[c] = 0
      /\ connect_failed = {} /\ host_pc = "configuring" /\ host_conn = {}
  BY DEF Init
<1>1. \A n \in Node : node_conn[n] = << >> BY DEF Init
<1>2. \A n \in Node : Partners(n) = {}
  <2> SUFFICES ASSUME NEW n \in Node PROVE Partners(n) = {} OBVIOUS
  <2>1. DOMAIN node_conn[n] = {} BY <1>1
  <2> QED BY <2>1 DEF Partners
<1>3. StartTypeOK
  <2>1. node_conn \in [Node -> Seq(Server)]
    <3>1. << >> \in Seq(Server) OBVIOUS
    <3> QED BY <3>1 DEF Init
  <2>2. to_connect \in [Node -> SUBSET Server] /\ backlog \in [Server -> SUBSET Node]
    BY DEF Init
  <2>3. wire \in [Channel -> Nat] /\ confirmations \in [Node -> Nat] BY DEF Init
  <2>4. virtualized \in BOOLEAN BY DEF Init
  <2>5. init_pc \in [Node -> {"boot", "configure", "wait", "client", "hello", "server",
                             "confirm", "running"}]
    BY DEF Init
  <2>6. config_conn \in [Node -> {"", "CONFIG", "DONE", "START"}] BY DEF Init
  <2> QED BY <2>1, <2>2, <2>3, <2>4, <2>5, <2>6, <1>0 DEF StartTypeOK
<1>4. HostOK
  <2>1. \A n \in first_nodes : <<n, HOST_ID>> \in Channel
    BY Channels DEF first_nodes, Server
  <2>2. \A n \in first_nodes : wire[<<n, HOST_ID>>] = 0 BY <1>0, <2>1
  <2>3. \A n \in first_nodes : ~(wire[<<n, HOST_ID>>] > 0) BY <2>2
  <2> QED BY <1>0, <2>3 DEF HostOK
<1>5. ASSUME NEW n \in Node PROVE NodeOK(n)
  <2>1. PhaseOK(n) BY <1>0, <1>1 DEF PhaseOK, Server
  <2>2. DOMAIN node_conn[n] = {} BY <1>1
  <2>3. ConnOK(n) BY <1>0, <2>2, <1>2 DEF ConnOK
  <2>4. WholeOK(n) BY <1>0 DEF WholeOK
  <2>5. \A m \in next_nodes(n) \intersect Node : wire[<<m, n>>] = 0
    BY <1>0, Channels DEF Server
  <2>6. \A m \in next_nodes(n) \intersect Node : ~(wire[<<m, n>>] > 0) BY <2>5
  <2>7. ConfirmedOK(n) BY <1>0, <2>2, <2>6 DEF ConfirmedOK
  <2>8. \A s \in Server : ~Waits(n, s) /\ ~Greeted(n, s) BY <1>0 DEF Waits, Greeted
  <2>9. OneAtATime(n) BY <2>8 DEF OneAtATime
  <2> QED BY <2>1, <2>3, <2>4, <2>7, <2>9 DEF NodeOK
<1>6. ASSUME NEW c \in Node, NEW s \in Server PROVE PairOK(c, s)
  <2>1. Served(s) = {} BY <1>0, <1>2 DEF Served, Server
  <2>2. ~Waits(c, s) /\ ~Greeted(c, s) BY <1>0 DEF Waits, Greeted
  <2>3. s \in prev_nodes(c) => wire[<<s, c>>] = 0 BY <1>0, Channels
  <2> QED BY <2>1, <2>2, <2>3 DEF PairOK
<1> QED BY <1>3, <1>4, <1>5, <1>6 DEF StartInv

\* What an action leaves alone it does not disturb.
LEMMA PartnersStay ==
  ASSUME NEW m \in Node, node_conn'[m] = node_conn[m]
  PROVE  Partners(m)' = Partners(m) /\ FirstPartners(m)' = FirstPartners(m)
BY DEF Partners, FirstPartners

\* Without connections there is nobody at the other end.
LEMMA NoPartners ==
  ASSUME NEW m \in Node, node_conn[m] = << >>
  PROVE  Partners(m) = {}
<1>1. DOMAIN node_conn[m] = {} OBVIOUS
<1> QED BY <1>1 DEF Partners

\* The conditions on one node stay true while what they speak of stays the same.
LEMMA ConnStays ==
  ASSUME NEW m \in Node, ConnOK(m),
         node_conn'[m] = node_conn[m], to_connect'[m] \subseteq to_connect[m],
         init_pc'[m] \in {"client", "hello"} => init_pc[m] \in {"client", "hello"}
  PROVE  ConnOK(m)'
BY PartnersStay DEF ConnOK

LEMMA WholeStays ==
  ASSUME NEW m \in Node, WholeOK(m),
         node_conn'[m] = node_conn[m], to_connect'[m] = to_connect[m],
         m \in connect_failed' <=> m \in connect_failed,
         init_pc'[m] = init_pc[m]
  PROVE  WholeOK(m)'
BY PartnersStay DEF WholeOK

\* Faults and confirmations only add up.
Grows ==
  \A x \in Node : /\ init_pc[x] = "running" => init_pc'[x] = "running"
                  /\ x \in connect_failed => x \in connect_failed'

\* Whatever x newly tells m, or has already told it, it is running.
OnlyConfirms(m) ==
  \A x \in next_nodes(m) \intersect Node :
    wire'[<<x, m>>] > 0 => wire[<<x, m>>] > 0 \/ init_pc'[x] = "running"

\* Confirmations read stay true while elements only start to run.
LEMMA ConfirmedStays ==
  ASSUME NEW m \in Node, ConfirmedOK(m), Grows, OnlyConfirms(m),
         node_conn'[m] = node_conn[m], confirmations'[m] = confirmations[m],
         init_pc'[m] = "running" => init_pc[m] = "running"
  PROVE  ConfirmedOK(m)'
<1>1. \A x \in next_nodes(m) \intersect Node : wire'[<<x, m>>] > 0 => init_pc'[x] = "running"
  BY DEF ConfirmedOK, Grows, OnlyConfirms
<1>2. ASSUME m \notin connect_failed', NEW i \in DOMAIN node_conn'[m],
             prev_node_count(m) < i, i <= prev_node_count(m) + confirmations'[m]
      PROVE  node_conn'[m][i] \in Node /\ init_pc'[node_conn'[m][i]] = "running"
  <2>1. m \notin connect_failed /\ i \in DOMAIN node_conn[m] BY <1>2 DEF Grows
  <2>2. node_conn[m][i] \in Node /\ init_pc[node_conn[m][i]] = "running"
    BY <1>2, <2>1 DEF ConfirmedOK
  <2> QED BY <2>2 DEF Grows
<1>3. init_pc'[m] = "running" /\ next_nodes(m) # {TAIL_ID} =>
        confirmations'[m] = next_node_count(m)
  BY DEF ConfirmedOK
<1> QED BY <1>1, <1>2, <1>3 DEF ConfirmedOK

\* No connection that was not under way before is under way now.
LEMMA OneAtATimeStays ==
  ASSUME NEW m \in Node, OneAtATime(m),
         \A s \in Server : Waits(m, s)' \/ Greeted(m, s)' => Waits(m, s) \/ Greeted(m, s)
  PROVE  OneAtATime(m)'
BY DEF OneAtATime

\* Client and server still agree.
LEMMA PairStays ==
  ASSUME NEW c \in Node, NEW s \in Server, PairOK(c, s),
         Served(s)' = Served(s), Partners(c)' = Partners(c),
         to_connect'[c] = to_connect[c], wire'[<<s, c>>] = wire[<<s, c>>],
         Waits(c, s)' => Waits(c, s), init_pc'[c] = init_pc[c]
  PROVE  PairOK(c, s)'
BY DEF PairOK, Greeted

\* A node asks for its configuration.
LEMMA AskConfigKeeps ==
  ASSUME StartInv, NEW n \in Node, AskConfig(n)
  PROVE  StartInv'
<1>0. /\ StartTypeOK /\ HostOK
      /\ \A m \in Node : NodeOK(m) /\ \A t \in Server : PairOK(m, t)
  BY DEF StartInv
<1>1. StartTypeOK'
  BY <1>0, AroundNode DEF StartTypeOK, AskConfig, Goto, host, Server
<1>2. HostOK'
  BY <1>0 DEF HostOK, first_nodes, NodeOK, PhaseOK, StartTypeOK, AskConfig, Goto, host, Server
<1>3. ASSUME NEW m \in Node PROVE NodeOK(m)'
  <2>1. node_conn'[m] = node_conn[m] BY DEF AskConfig
  <2>2. PhaseOK(m)' BY <1>0 DEF NodeOK, PhaseOK, StartTypeOK, AskConfig, Goto, host, Server
  <2>3. ConnOK(m)'
    BY <1>0, <2>1, ConnStays DEF NodeOK, PhaseOK, StartTypeOK, AskConfig, Goto
  <2>4. WholeOK(m)'
    <3>1. m = n => m \notin connect_failed' /\ init_pc'[m] = "configure"
      BY <1>0 DEF NodeOK, WholeOK, StartTypeOK, AskConfig, Goto
    <3>2. m # n => WholeOK(m)'
      BY <1>0, WholeStays DEF NodeOK, StartTypeOK, AskConfig, Goto
    <3> QED BY <3>1, <3>2 DEF WholeOK
  <2>5. Grows /\ OnlyConfirms(m)
    BY <1>0 DEF Grows, OnlyConfirms, StartTypeOK, AskConfig, Goto
  <2>6. ConfirmedOK(m)'
    BY <1>0, <2>1, <2>5, ConfirmedStays DEF NodeOK, StartTypeOK, AskConfig, Goto
  <2>7. OneAtATime(m)'
    BY <1>0, OneAtATimeStays
    DEF NodeOK, Waits, Greeted, PhaseOK, StartTypeOK, AskConfig, Goto, host, Server
  <2> QED BY <2>2, <2>3, <2>4, <2>6, <2>7 DEF NodeOK
<1>4. ASSUME NEW c \in Node, NEW t \in Server PROVE PairOK(c, t)'
  <2>1. \A m \in Node : Partners(m)' = Partners(m) BY PartnersStay DEF AskConfig
  <2>2. Served(t)' = Served(t) BY <2>1 DEF Served, Server, AskConfig, Goto, host, Server
  <2>3. to_connect'[c] = to_connect[c] /\ wire' = wire BY DEF AskConfig, Goto, host, Server
  <2>4. Greeted(c, t)' <=> Greeted(c, t) BY <2>3 DEF Greeted
  <2>5. Waits(c, t)' => Waits(c, t)
    BY <1>0 DEF Waits, NodeOK, PhaseOK, StartTypeOK, AskConfig, Goto, host, Server
  <2>6. init_pc[c] = "hello" => init_pc'[c] = "hello"
    BY <1>0 DEF StartTypeOK, AskConfig, Goto, host, Server
  <2> QED BY <1>0, <2>1, <2>2, <2>3, <2>4, <2>5, <2>6 DEF PairOK
<1> QED BY <1>1, <1>2, <1>3, <1>4 DEF StartInv

\* The host PC answers; the node leaves the listening socket of this phase.
LEMMA HostConfiguresKeeps ==
  ASSUME StartInv, NEW n \in Node, HostConfigures(n)
  PROVE  StartInv'
<1>0. /\ StartTypeOK /\ HostOK
      /\ \A m \in Node : NodeOK(m) /\ \A t \in Server : PairOK(m, t)
  BY DEF StartInv
<1>1. StartTypeOK'
  BY <1>0, AroundNode DEF StartTypeOK, HostConfigures, init_task, Server
<1>2. HostOK'
  BY <1>0
  DEF HostOK, first_nodes, NodeOK, PhaseOK, StartTypeOK, HostConfigures, init_task, Server
<1>3. ASSUME NEW m \in Node PROVE NodeOK(m)'
  <2>1. node_conn'[m] = node_conn[m] BY DEF HostConfigures, init_task
  <2>2. PhaseOK(m)' BY <1>0 DEF NodeOK, PhaseOK, StartTypeOK, HostConfigures, init_task, Server
  <2>3. ConnOK(m)'
    BY <1>0, <2>1, ConnStays DEF NodeOK, PhaseOK, StartTypeOK, HostConfigures, init_task
  <2>4. WholeOK(m)'
    BY <1>0, WholeStays DEF NodeOK, StartTypeOK, HostConfigures, init_task, Server
  <2>5. Grows /\ OnlyConfirms(m)
    BY <1>0 DEF Grows, OnlyConfirms, StartTypeOK, HostConfigures, init_task
  <2>6. ConfirmedOK(m)'
    BY <1>0, <2>1, <2>5, ConfirmedStays DEF NodeOK, StartTypeOK, HostConfigures, init_task
  <2>7. OneAtATime(m)'
    BY <1>0, OneAtATimeStays
    DEF NodeOK, Waits, Greeted, PhaseOK, StartTypeOK, HostConfigures, init_task, Server
  <2> QED BY <2>2, <2>3, <2>4, <2>6, <2>7 DEF NodeOK
<1>4. ASSUME NEW c \in Node, NEW t \in Server PROVE PairOK(c, t)'
  <2>1. \A m \in Node : Partners(m)' = Partners(m) BY PartnersStay DEF HostConfigures, init_task
  <2>2. Served(t)' = Served(t) BY <2>1 DEF Served, Server, HostConfigures, init_task, Server
  <2>3. to_connect'[c] = to_connect[c] /\ wire' = wire BY DEF HostConfigures, init_task, Server
  <2>4. Waits(c, t)' => Waits(c, t)
    BY <1>0 DEF Waits, NodeOK, PhaseOK, StartTypeOK, HostConfigures, init_task, Server
  <2>5. init_pc'[c] = init_pc[c] BY DEF HostConfigures, init_task, Server
  <2> QED BY <1>0, <2>1, <2>2, <2>3, <2>4, <2>5, PairStays
<1> QED BY <1>1, <1>2, <1>3, <1>4 DEF StartInv

\* When the connections start nobody is left from the configuration.
LEMMA HostStartsKeeps ==
  ASSUME StartInv, HostStarts
  PROVE  StartInv'
<1>0. /\ StartTypeOK /\ HostOK
      /\ \A m \in Node : NodeOK(m) /\ \A t \in Server : PairOK(m, t)
  BY DEF StartInv
<1>1. StartTypeOK'
  BY <1>0, AroundNode DEF StartTypeOK, HostStarts, init_task, Server
<1>2. HostOK'
  BY <1>0 DEF HostOK, first_nodes, NodeOK, PhaseOK, StartTypeOK, HostStarts, init_task, Server
<1>3. ASSUME NEW m \in Node PROVE NodeOK(m)'
  <2>1. node_conn'[m] = node_conn[m] BY DEF HostStarts, init_task
  <2>2. PhaseOK(m)' BY <1>0 DEF NodeOK, PhaseOK, StartTypeOK, HostStarts, init_task, Server
  <2>3. ConnOK(m)'
    BY <1>0, <2>1, ConnStays DEF NodeOK, PhaseOK, StartTypeOK, HostStarts, init_task
  <2>4. WholeOK(m)'
    BY <1>0, WholeStays DEF NodeOK, StartTypeOK, HostStarts, init_task, Server
  <2>5. Grows /\ OnlyConfirms(m)
    BY <1>0 DEF Grows, OnlyConfirms, StartTypeOK, HostStarts, init_task
  <2>6. ConfirmedOK(m)'
    BY <1>0, <2>1, <2>5, ConfirmedStays DEF NodeOK, StartTypeOK, HostStarts, init_task
  <2>7. OneAtATime(m)'
    BY <1>0, OneAtATimeStays
    DEF NodeOK, Waits, Greeted, PhaseOK, StartTypeOK, HostStarts, init_task, Server
  <2> QED BY <2>2, <2>3, <2>4, <2>6, <2>7 DEF NodeOK
<1>4. ASSUME NEW c \in Node, NEW t \in Server PROVE PairOK(c, t)'
  <2>1. \A m \in Node : Partners(m)' = Partners(m) BY PartnersStay DEF HostStarts, init_task
  <2>2. Served(t)' = Served(t) BY <2>1 DEF Served, Server, HostStarts, init_task, Server
  <2>3. to_connect'[c] = to_connect[c] /\ wire' = wire BY DEF HostStarts, init_task, Server
  <2>4. Waits(c, t)' => Waits(c, t)
    BY <1>0 DEF Waits, NodeOK, PhaseOK, StartTypeOK, HostStarts, init_task, Server
  <2>5. init_pc'[c] = init_pc[c] BY DEF HostStarts, init_task, Server
  <2> QED BY <1>0, <2>1, <2>2, <2>3, <2>4, <2>5, PairStays
<1> QED BY <1>1, <1>2, <1>3, <1>4 DEF StartInv

\* The first connection can be opened.
LEMMA StartConnectingKeeps ==
  ASSUME StartInv, NEW n \in Node, StartConnecting(n)
  PROVE  StartInv'
<1>0. /\ StartTypeOK /\ HostOK
      /\ \A m \in Node : NodeOK(m) /\ \A t \in Server : PairOK(m, t)
  BY DEF StartInv
<1>1. StartTypeOK'
  BY <1>0, AroundNode DEF StartTypeOK, StartConnecting, Goto, host
<1>2. HostOK'
  BY <1>0 DEF HostOK, first_nodes, NodeOK, PhaseOK, StartTypeOK, StartConnecting, Goto, host
<1>3. ASSUME NEW m \in Node PROVE NodeOK(m)'
  <2>1. node_conn'[m] = node_conn[m] BY DEF StartConnecting
  <2>2. PhaseOK(m)' BY <1>0 DEF NodeOK, PhaseOK, StartTypeOK, StartConnecting, Goto, host
  <2>3. ConnOK(m)'
    <3>1. ASSUME m = n PROVE ConnOK(m)'
      <4>1. Partners(m)' = Partners(m) BY <2>1, PartnersStay
      <4>2. node_conn[m] = << >> BY <1>0, <3>1 DEF NodeOK, PhaseOK, StartConnecting
      <4>3. Partners(m) = {} BY <4>2, NoPartners
      <4>4. to_connect'[m] = to_connect[m] BY DEF StartConnecting
      <4>5. ConnOK(m) BY <1>0 DEF NodeOK
      <4> QED BY <2>1, <4>1, <4>3, <4>4, <4>5 DEF ConnOK
    <3>2. m # n => ConnOK(m)'
      BY <1>0, <2>1, ConnStays DEF NodeOK, StartTypeOK, StartConnecting, Goto
    <3> QED BY <3>1, <3>2
  <2>4. WholeOK(m)'
    BY <1>0, PartnersStay DEF NodeOK, PhaseOK, WholeOK, StartTypeOK, StartConnecting, Goto, host
  <2>5. Grows /\ OnlyConfirms(m)
    BY <1>0 DEF Grows, OnlyConfirms, StartTypeOK, StartConnecting, Goto
  <2>6. ConfirmedOK(m)'
    BY <1>0, <2>1, <2>5, ConfirmedStays DEF NodeOK, StartTypeOK, StartConnecting, Goto
  <2>7. OneAtATime(m)'
    BY <1>0, OneAtATimeStays
    DEF NodeOK, Waits, Greeted, PhaseOK, StartTypeOK, StartConnecting, Goto, host
  <2> QED BY <2>2, <2>3, <2>4, <2>6, <2>7 DEF NodeOK
<1>4. ASSUME NEW c \in Node, NEW t \in Server PROVE PairOK(c, t)'
  <2>1. \A m \in Node : Partners(m)' = Partners(m) BY PartnersStay DEF StartConnecting
  <2>2. Served(t)' = Served(t) BY <2>1 DEF Served, Server, StartConnecting, Goto, host
  <2>3. to_connect'[c] = to_connect[c] /\ wire' = wire BY DEF StartConnecting, Goto, host
  <2>4. Greeted(c, t)' <=> Greeted(c, t) BY <2>3 DEF Greeted
  <2>5. Waits(c, t)' => Waits(c, t)
    BY <1>0 DEF Waits, NodeOK, PhaseOK, StartTypeOK, StartConnecting, Goto, host
  <2>6. init_pc[c] = "hello" => init_pc'[c] = "hello"
    BY <1>0 DEF StartTypeOK, StartConnecting, Goto, host
  <2> QED BY <1>0, <2>1, <2>2, <2>3, <2>4, <2>5, <2>6 DEF PairOK
<1> QED BY <1>1, <1>2, <1>3, <1>4 DEF StartInv

\* Nothing has been sent to a node as an answer before it knows its servers.
LEMMA ConfigureKeeps ==
  ASSUME StartInv, NEW n \in Node, Configure(n)
  PROVE  StartInv'
<1>0. /\ StartTypeOK /\ HostOK
      /\ \A m \in Node : NodeOK(m) /\ \A t \in Server : PairOK(m, t)
  BY DEF StartInv
<1>1. /\ node_conn[n] = << >> /\ Partners(n) = {} /\ init_pc[n] = "configure"
      /\ to_connect'[n] = prev_nodes(n)
      /\ \A t \in Server : /\ ~Greeted(n, t) /\ ~Greeted(n, t)' /\ ~Waits(n, t)'
                           /\ n \notin Served(t)
  <2>1. node_conn[n] = << >> /\ to_connect[n] = {} /\ init_pc[n] = "configure"
    BY <1>0 DEF NodeOK, PhaseOK, Configure
  <2>2. Partners(n) = {} BY <2>1, NoPartners
  <2>3. wire' = wire /\ to_connect'[n] = prev_nodes(n)
    BY <1>0 DEF Configure, prev_ids, StartTypeOK
  <2>4. ASSUME NEW t \in Server
        PROVE  ~Greeted(n, t) /\ ~Greeted(n, t)' /\ ~Waits(n, t)' /\ n \notin Served(t)
    <3>1. ~Greeted(n, t) /\ n \notin Served(t) /\ ~Waits(n, t)
      BY <1>0, <2>1, <2>2 DEF PairOK, Greeted
    <3>2. t \in prev_nodes(n) => ~(wire[<<t, n>>] > 0) BY <1>0, <3>1 DEF PairOK
    <3>3. ~Greeted(n, t)' BY <2>3, <3>2 DEF Greeted
    <3>4. ~Waits(n, t)' BY <3>1 DEF Waits, Configure, host
    <3> QED BY <3>1, <3>3, <3>4
  <2> QED BY <2>1, <2>2, <2>3, <2>4
<1>2. StartTypeOK'
  BY <1>0, AroundNode DEF StartTypeOK, Configure, Goto, host, prev_ids
<1>3. HostOK'
  BY <1>0 DEF HostOK, first_nodes, NodeOK, PhaseOK, StartTypeOK, Configure, Goto, host, prev_ids
<1>4. ASSUME NEW m \in Node PROVE NodeOK(m)'
  <2>1. node_conn'[m] = node_conn[m] BY DEF Configure
  <2>2. PhaseOK(m)' BY <1>0 DEF NodeOK, PhaseOK, StartTypeOK, Configure, Goto, host, prev_ids
  <2>3. ConnOK(m)'
    <3>1. ASSUME m = n PROVE ConnOK(m)'
      <4>1. Partners(m)' = {} BY <1>1, <2>1, <3>1, PartnersStay
      <4>2. ConnOK(m) BY <1>0 DEF NodeOK
      <4> QED BY <1>1, <2>1, <3>1, <4>1, <4>2 DEF ConnOK
    <3>2. m # n => ConnOK(m)'
      BY <1>0, <2>1, ConnStays DEF NodeOK, StartTypeOK, Configure, Goto
    <3> QED BY <3>1, <3>2
  <2>4. WholeOK(m)'
    <3>1. m = n => m \notin connect_failed' /\ init_pc'[m] = "wait"
      BY <1>0 DEF NodeOK, WholeOK, StartTypeOK, Configure, Goto
    <3>2. m # n => WholeOK(m)'
      BY <1>0, WholeStays DEF NodeOK, StartTypeOK, Configure, Goto
    <3> QED BY <3>1, <3>2 DEF WholeOK
  <2>5. Grows /\ OnlyConfirms(m)
    BY <1>0 DEF Grows, OnlyConfirms, StartTypeOK, Configure, Goto
  <2>6. ConfirmedOK(m)'
    BY <1>0, <2>1, <2>5, ConfirmedStays DEF NodeOK, StartTypeOK, Configure, Goto
  <2>7. OneAtATime(m)'
    <3>1. m = n => OneAtATime(m)' BY <1>1 DEF OneAtATime
    <3>2. ASSUME m # n, NEW t \in Server
          PROVE  (Waits(m, t)' => Waits(m, t)) /\ (Greeted(m, t)' => Greeted(m, t))
      BY <1>0, <3>2 DEF Waits, Greeted, StartTypeOK, Configure, host
    <3>3. m # n => OneAtATime(m)' BY <1>0, <3>2, OneAtATimeStays DEF NodeOK
    <3> QED BY <3>1, <3>3
  <2> QED BY <2>2, <2>3, <2>4, <2>6, <2>7 DEF NodeOK
<1>5. ASSUME NEW c \in Node, NEW t \in Server PROVE PairOK(c, t)'
  <2>1. \A m \in Node : Partners(m)' = Partners(m) BY PartnersStay DEF Configure
  <2>2. Served(t)' = Served(t) BY <2>1 DEF Served, Server, Configure, Goto, host, prev_ids
  <2>3. CASE c = n
    <3>1. wire' = wire BY DEF Configure
    <3> QED BY <1>0, <1>1, <2>2, <2>3, <3>1 DEF PairOK, Greeted
  <2>4. CASE c # n
    <3>1. to_connect'[c] = to_connect[c] /\ wire' = wire /\ init_pc'[c] = init_pc[c]
      BY <2>4 DEF Configure, Goto
    <3>2. Waits(c, t)' => Waits(c, t) BY DEF Waits, Configure, host
    <3> QED BY <1>0, <2>1, <2>2, <3>1, <3>2, PairStays
  <2> QED BY <2>3, <2>4
<1> QED BY <1>2, <1>3, <1>4, <1>5 DEF StartInv

\* A client that opens a connection waits for no other server.
LEMMA ConnectKeeps ==
  ASSUME StartInv, NEW n \in Node, NEW s \in Server, Connect(n, s)
  PROVE  StartInv'
<1>0. /\ StartTypeOK /\ HostOK
      /\ \A m \in Node : NodeOK(m) /\ \A t \in Server : PairOK(m, t)
  BY DEF StartInv
<1>1. StartTypeOK'
  BY <1>0, AroundNode DEF StartTypeOK, Connect, Goto, host, Listening, Server
<1>2. HostOK'
  BY <1>0
  DEF HostOK, first_nodes, NodeOK, PhaseOK, StartTypeOK, Connect, Goto, host, Listening, Server
<1>3. ASSUME NEW m \in Node PROVE NodeOK(m)'
  <2>1. node_conn'[m] = node_conn[m] BY DEF Connect
  <2>2. PhaseOK(m)'
    BY <1>0 DEF NodeOK, PhaseOK, StartTypeOK, Connect, Goto, host, Listening, Server
  <2>3. ConnOK(m)'
    BY <1>0, <2>1, ConnStays DEF NodeOK, PhaseOK, StartTypeOK, Connect, Goto
  <2>4. WholeOK(m)'
    <3>1. m = n => init_pc[m] = "client" /\ init_pc'[m] = "hello"
      BY <1>0 DEF StartTypeOK, Connect, Goto
    <3>2. node_conn' = node_conn /\ to_connect' = to_connect /\ connect_failed' = connect_failed
      BY DEF Connect
    <3>3. m = n => WholeOK(m)'
      BY <1>0, <3>1, <3>2, PartnersStay DEF NodeOK, WholeOK
    <3>4. m # n => WholeOK(m)'
      BY <1>0, WholeStays DEF NodeOK, StartTypeOK, Connect, Goto
    <3> QED BY <3>3, <3>4
  <2>5. Grows /\ OnlyConfirms(m)
    BY <1>0 DEF Grows, OnlyConfirms, StartTypeOK, Connect, Goto
  <2>6. ConfirmedOK(m)'
    BY <1>0, <2>1, <2>5, ConfirmedStays DEF NodeOK, StartTypeOK, Connect, Goto
  <2>7. OneAtATime(m)'
    <3>1. ASSUME m = n PROVE OneAtATime(m)'
      <4>1. \A t \in Server : ~Waits(m, t) /\ ~Greeted(m, t)
        BY <1>0, <3>1 DEF PairOK, Connect
      <4>2. \A t \in Server : ~Greeted(m, t)' BY <4>1 DEF Greeted, Connect
      <4>3. \A t \in Server : Waits(m, t)' => t = s
        BY <1>0, <3>1, <4>1 DEF Waits, Connect, host, StartTypeOK
      <4> QED BY <4>2, <4>3 DEF OneAtATime
    <3>2. ASSUME m # n, NEW t \in Server
          PROVE  (Waits(m, t)' => Waits(m, t)) /\ (Greeted(m, t)' => Greeted(m, t))
      BY <1>0, <3>2 DEF Waits, Greeted, StartTypeOK, Connect, host
    <3>3. m # n => OneAtATime(m)' BY <1>0, <3>2, OneAtATimeStays DEF NodeOK
    <3> QED BY <3>1, <3>3
  <2> QED BY <2>2, <2>3, <2>4, <2>6, <2>7 DEF NodeOK
<1>4. ASSUME NEW c \in Node, NEW t \in Server PROVE PairOK(c, t)'
  <2>1. \A m \in Node : Partners(m)' = Partners(m) BY PartnersStay DEF Connect
  <2>2. Served(t)' = Served(t)
    BY <2>1 DEF Served, Server, Connect, Goto, host, Listening, Server
  <2>3. to_connect' = to_connect /\ wire' = wire BY DEF Connect
  <2>4. Greeted(c, t)' <=> Greeted(c, t) BY <2>3 DEF Greeted
  <2>5. CASE c = n /\ t = s
    <3>1. init_pc[c] = "client" /\ t \in to_connect[c] /\ init_pc'[c] = "hello"
      BY <1>0, <2>5 DEF Connect, Goto, StartTypeOK
    <3>2. t \notin Partners(c) BY <1>0, <3>1 DEF NodeOK, ConnOK
    <3>3. ~Greeted(c, t) BY <1>0, <3>1 DEF PairOK
    <3>4. c \notin Served(t) BY <1>0, <3>2, <3>3 DEF PairOK
    <3> QED BY <1>0, <2>1, <2>2, <2>3, <2>4, <3>1, <3>4 DEF PairOK
  <2>6. CASE ~(c = n /\ t = s)
    <3>1. Waits(c, t)' => Waits(c, t)
      BY <1>0, <2>6 DEF Waits, Connect, host, StartTypeOK
    <3>2. init_pc[c] = "hello" => init_pc'[c] = "hello"
      BY <1>0 DEF Connect, Goto, StartTypeOK
    <3> QED BY <1>0, <2>1, <2>2, <2>3, <2>4, <3>1, <3>2 DEF PairOK
  <2> QED BY <2>5, <2>6
<1> QED BY <1>1, <1>2, <1>3, <1>4 DEF StartInv

\* A node logs an error and goes on without the connection to s.
GivesUp(n, s) ==
  /\ init_pc[n] = "client" /\ s \in to_connect[n]
  /\ to_connect' = [to_connect EXCEPT ![n] = @ \ {s}]
  /\ connect_failed' = connect_failed \union {n}
  /\ UNCHANGED <<virtualized, init_pc, node_conn, confirmations, host, config_conn, backlog,
                 wire>>

\* The connection given up was to a server that will never accept this node.
LEMMA GivesUpKeeps ==
  ASSUME StartInv, NEW n \in Node, NEW s \in Server, GivesUp(n, s)
  PROVE  StartInv'
<1>0. /\ StartTypeOK /\ HostOK
      /\ \A m \in Node : NodeOK(m) /\ \A t \in Server : PairOK(m, t)
  BY DEF StartInv
<1>1. StartTypeOK'
  BY <1>0, AroundNode DEF StartTypeOK, GivesUp, host
<1>2. HostOK'
  BY <1>0 DEF HostOK, first_nodes, NodeOK, PhaseOK, StartTypeOK, GivesUp, host
<1>3. ASSUME NEW m \in Node PROVE NodeOK(m)'
  <2>1. node_conn'[m] = node_conn[m] BY DEF GivesUp
  <2>2. PhaseOK(m)' BY <1>0 DEF NodeOK, PhaseOK, StartTypeOK, GivesUp, host
  <2>3. ConnOK(m)'
    BY <1>0, <2>1, ConnStays DEF NodeOK, PhaseOK, StartTypeOK, GivesUp
  <2>4. WholeOK(m)'
    <3>1. ASSUME m = n PROVE WholeOK(m)'
      <4>1. init_pc'[m] = "client" /\ m \in connect_failed' BY <3>1 DEF GivesUp
      <4>2. s \in prev_nodes(m) /\ s \notin Partners(m)
        BY <1>0, <3>1 DEF NodeOK, ConnOK, GivesUp
      <4>3. s \notin to_connect'[m] BY <1>0, <3>1 DEF GivesUp, StartTypeOK
      <4>4. Partners(m)' = Partners(m) BY <2>1, PartnersStay
      <4> QED BY <4>1, <4>2, <4>3, <4>4 DEF WholeOK
    <3>2. m # n => WholeOK(m)'
      BY <1>0, WholeStays DEF NodeOK, StartTypeOK, GivesUp
    <3> QED BY <3>1, <3>2
  <2>5. Grows /\ OnlyConfirms(m)
    BY <1>0 DEF Grows, OnlyConfirms, StartTypeOK, GivesUp
  <2>6. ConfirmedOK(m)'
    BY <1>0, <2>1, <2>5, ConfirmedStays DEF NodeOK, StartTypeOK, GivesUp
  <2>7. OneAtATime(m)'
    BY <1>0, OneAtATimeStays DEF NodeOK, Waits, Greeted, PhaseOK, StartTypeOK, GivesUp, host
  <2> QED BY <2>2, <2>3, <2>4, <2>6, <2>7 DEF NodeOK
<1>4. ASSUME NEW c \in Node, NEW t \in Server PROVE PairOK(c, t)'
  <2>1. \A m \in Node : Partners(m)' = Partners(m) BY PartnersStay DEF GivesUp
  <2>2. Served(t)' = Served(t) BY <2>1 DEF Served, Server, GivesUp, host
  <2>3. CASE c = n
    <3>1. init_pc[c] = "client" /\ init_pc' = init_pc /\ wire' = wire BY <2>3 DEF GivesUp
    <3>2. to_connect'[c] \subseteq to_connect[c] BY <1>0, <2>3 DEF GivesUp, StartTypeOK
    <3>3. ~Greeted(c, t) /\ ~Waits(c, t) BY <1>0, <3>1 DEF PairOK
    <3>4. ~Greeted(c, t)' BY <3>1, <3>2, <3>3 DEF Greeted
    <3>5. ~Waits(c, t)' BY <3>3 DEF Waits, GivesUp, host
    <3> QED BY <1>0, <2>1, <2>2, <3>1, <3>3, <3>4, <3>5 DEF PairOK
  <2>4. CASE c # n
    <3>1. to_connect'[c] = to_connect[c] /\ wire' = wire /\ init_pc'[c] = init_pc[c]
      BY <2>4 DEF GivesUp
    <3>2. Waits(c, t)' => Waits(c, t) BY DEF Waits, GivesUp, host
    <3> QED BY <1>0, <2>1, <2>2, <3>1, <3>2, PairStays
  <2> QED BY <2>3, <2>4
<1> QED BY <1>1, <1>2, <1>3, <1>4 DEF StartInv

\* A connection is added to those of n, at the end.
Links(n, s) ==
  /\ s \notin Partners(n)
  /\ node_conn' = [node_conn EXCEPT ![n] = Append(@, s)]

Linked(n, s) ==
  /\ Partners(n)' = Partners(n) \union {s}
  /\ \A m \in Node \ {n} : node_conn'[m] = node_conn[m] /\ Partners(m)' = Partners(m)
  /\ Len(node_conn[n]) \in Nat
  /\ DOMAIN node_conn[n] = 1 .. Len(node_conn[n])
  /\ DOMAIN node_conn'[n] = 1 .. Len(node_conn[n]) + 1
  /\ \A i \in 1 .. Len(node_conn[n]) : node_conn'[n][i] = node_conn[n][i]
  /\ node_conn'[n][Len(node_conn[n]) + 1] = s
  /\ \A i, j \in DOMAIN node_conn'[n] : node_conn'[n][i] = node_conn'[n][j] => i = j
  /\ node_conn' \in [Node -> Seq(Server)]

\* The list of connections of n grows by one other partner.
LEMMA LinkIsAdded ==
  ASSUME StartTypeOK, NEW n \in Node, NEW s \in Server, ConnOK(n), Links(n, s)
  PROVE  Linked(n, s)
<1> DEFINE L == Len(node_conn[n])
<1>1. node_conn[n] \in Seq(Server) /\ node_conn'[n] = Append(node_conn[n], s)
  BY DEF StartTypeOK, Links
<1>2. L \in Nat /\ DOMAIN node_conn[n] = 1 .. L BY <1>1
<1>3. DOMAIN node_conn'[n] = 1 .. L + 1 BY <1>1
<1>4. \A i \in 1 .. L : node_conn'[n][i] = node_conn[n][i] BY <1>1
<1>5. node_conn'[n][L + 1] = s BY <1>1
<1>6. Partners(n)' = Partners(n) \union {s}
  <2>1. Partners(n) = {node_conn[n][i] : i \in 1 .. L} BY <1>2 DEF Partners
  <2>2. Partners(n)' = {node_conn'[n][i] : i \in 1 .. L + 1} BY <1>3 DEF Partners
  <2>3. 1 .. L + 1 = (1 .. L) \union {L + 1} BY <1>2
  <2>4. {node_conn'[n][i] : i \in 1 .. L + 1} = {node_conn[n][i] : i \in 1 .. L} \union {s}
    BY <2>3, <1>4, <1>5
  <2> QED BY <2>1, <2>2, <2>4
<1>7. \A m \in Node \ {n} : node_conn'[m] = node_conn[m] /\ Partners(m)' = Partners(m)
  <2>1. \A m \in Node \ {n} : node_conn'[m] = node_conn[m] BY DEF Links, StartTypeOK
  <2> QED BY <2>1, PartnersStay
<1>8. ASSUME NEW i \in 1 .. L + 1, NEW j \in 1 .. L + 1, node_conn'[n][i] = node_conn'[n][j]
      PROVE  i = j
  <2>1. \A k \in 1 .. L : node_conn[n][k] # s BY <1>2 DEF Links, Partners
  <2>2. (i \in 1 .. L \/ i = L + 1) /\ (j \in 1 .. L \/ j = L + 1) BY <1>2
  <2>3. \A k, l \in 1 .. L : node_conn[n][k] = node_conn[n][l] => k = l
    BY <1>2 DEF ConnOK
  <2> QED BY <1>4, <1>5, <1>8, <2>1, <2>2, <2>3
<1>9. node_conn' \in [Node -> Seq(Server)]
  <2>1. Append(node_conn[n], s) \in Seq(Server) BY <1>1
  <2> QED BY <2>1 DEF StartTypeOK, Links
<1> QED BY <1>2, <1>3, <1>4, <1>5, <1>6, <1>7, <1>8, <1>9 DEF Linked

\* A previous element is none of the next ones.
LEMMA EitherSide ==
  ASSUME NEW n \in Node, NEW s \in Server, s \in prev_nodes(n)
  PROVE  /\ s \notin next_nodes(n) /\ s \in Connections(n)
         /\ s \in Node => n \in next_nodes(s) /\ n \notin prev_nodes(s) /\ s # n
<1>1. s \notin next_nodes(n) BY StartupAssumption
<1>2. s \in Connections(n) BY RoutesAssumption DEF Connections, Server
<1>3. s \in Node => n \in next_nodes(s) BY NextOfPrev
<1>4. s \in Node => n \notin prev_nodes(s) BY <1>1, NextOfPrev
<1> QED BY <1>1, <1>2, <1>3, <1>4

\* The server's RASP_ID arrives at n.
LEMMA ConnectedKeeps ==
  ASSUME StartInv, NEW n \in Node, NEW s \in Server, Connected(n, s)
  PROVE  StartInv'
<1>0. /\ StartTypeOK /\ HostOK
      /\ \A m \in Node : NodeOK(m) /\ \A t \in Server : PairOK(m, t)
  BY DEF StartInv
<1>1. /\ init_pc[n] = "hello" /\ s \in to_connect[n] /\ wire[<<s, n>>] > 0
      /\ s \in prev_nodes(n) /\ s \notin Partners(n) /\ <<s, n>> \in Channel
  BY <1>0, Channels DEF NodeOK, ConnOK, Connected
<1>2. s \notin next_nodes(n) /\ s \in Connections(n) BY <1>1, EitherSide
<1>3. Linked(n, s)
  BY <1>0, <1>1, LinkIsAdded DEF Links, NodeOK, Connected
<1>4. /\ \A m \in Node : init_pc'[m] = IF m = n THEN "client" ELSE init_pc[m]
      /\ \A m \in Node : to_connect'[m] = IF m = n THEN to_connect[n] \ {s} ELSE to_connect[m]
      /\ \A d \in Channel : wire'[d] = IF d = <<s, n>> THEN 0 ELSE wire[d]
      /\ confirmations' = confirmations /\ connect_failed' = connect_failed
  BY <1>0 DEF StartTypeOK, Connected, Goto
<1>5. \A t \in Server : Served(t)' = Served(t)
  <2> SUFFICES ASSUME NEW t \in Server PROVE Served(t)' = Served(t) OBVIOUS
  <2>1. CASE t = HOST_ID BY <2>1 DEF Served, Connected, host
  <2>2. CASE t = n
    <3>1. Partners(n)' \intersect next_nodes(n) = Partners(n) \intersect next_nodes(n)
      BY <1>2, <1>3 DEF Linked
    <3> QED BY <2>2, <3>1, RoutesAssumption DEF Served
  <2>3. CASE t \in Node \ {n}
    <3>1. Partners(t)' = Partners(t) BY <2>3, <1>3 DEF Linked
    <3> QED BY <2>3, <3>1, RoutesAssumption DEF Served
  <2> QED BY <2>1, <2>2, <2>3 DEF Server
<1>6. ASSUME NEW t \in Server
      PROVE  /\ ~Waits(n, t) /\ ~Waits(n, t)' /\ ~Greeted(n, t)'
             /\ t # s => ~Greeted(n, t)
  <2>1. Greeted(n, s) /\ n \in Served(s) BY <1>0, <1>1 DEF Greeted, PairOK
  <2>2. ~Waits(n, s) BY <1>0, <2>1 DEF PairOK
  <2>3. t # s => ~Waits(n, t) /\ ~Greeted(n, t)
    BY <1>0, <2>1 DEF NodeOK, OneAtATime
  <2>4. Waits(n, t)' => Waits(n, t) BY DEF Waits, Connected, host
  <2>5. t = s => ~Greeted(n, t)' BY <1>4 DEF Greeted
  <2>6. t # s /\ t \in to_connect[n] => wire'[<<t, n>>] = wire[<<t, n>>]
    BY <1>0, <1>4, Channels DEF NodeOK, ConnOK
  <2>7. t # s => ~Greeted(n, t)' BY <1>4, <2>3, <2>6 DEF Greeted
  <2> QED BY <2>2, <2>3, <2>4, <2>5, <2>7
<1>7. StartTypeOK'
  <2>1. node_conn' \in [Node -> Seq(Server)] BY <1>3 DEF Linked
  <2> QED BY <1>0, <2>1 DEF StartTypeOK, Connected, Goto, host
<1>8. HostOK'
  <2>1. \A m \in first_nodes : wire'[<<m, HOST_ID>>] = wire[<<m, HOST_ID>>]
    BY <1>4, Channels, RoutesAssumption DEF first_nodes, Server
  <2>2. \A m \in first_nodes : init_pc[m] = "running" => init_pc'[m] = "running"
    BY <1>1, <1>4 DEF first_nodes
  <2> QED BY <1>0, <2>1, <2>2 DEF HostOK, Connected, host
<1>9. NodeOK(n)'
  <2>1. PhaseOK(n)'
    BY <1>0, <1>1, <1>4 DEF NodeOK, PhaseOK, Connected, host
  <2>2. ConnOK(n)'
    <3>1. Partners(n) \subseteq Connections(n) /\ Partners(n) \subseteq prev_nodes(n)
          /\ to_connect[n] \subseteq prev_nodes(n) \ Partners(n)
      BY <1>0, <1>1 DEF NodeOK, ConnOK
    <3>2. Partners(n)' = Partners(n) \union {s} BY <1>3 DEF Linked
    <3>3. \A i, j \in DOMAIN node_conn'[n] : node_conn'[n][i] = node_conn'[n][j] => i = j
      BY <1>3 DEF Linked
    <3> QED BY <1>1, <1>2, <1>4, <3>1, <3>2, <3>3 DEF ConnOK
  <2>3. WholeOK(n)'
    <3>1. Partners(n)' = Partners(n) \union {s} BY <1>3 DEF Linked
    <3>2. WholeOK(n) BY <1>0 DEF NodeOK
    <3> QED BY <1>1, <1>4, <3>1, <3>2 DEF WholeOK
  <2>4. ConfirmedOK(n)'
    <3>1. confirmations'[n] = 0 /\ prev_node_count(n) \in Nat
      BY <1>0, <1>1, <1>4, Counted DEF NodeOK, PhaseOK
    <3>2. \A m \in next_nodes(n) \intersect Node : wire'[<<m, n>>] = wire[<<m, n>>]
      BY <1>2, <1>4, Channels DEF Server
    <3>3. \A m \in Node : init_pc[m] = "running" => init_pc'[m] = "running"
      BY <1>1, <1>4
    <3>4. ConfirmedOK(n) BY <1>0 DEF NodeOK
    <3>5. \A m \in next_nodes(n) \intersect Node : wire'[<<m, n>>] > 0 => init_pc'[m] = "running"
      BY <3>2, <3>3, <3>4 DEF ConfirmedOK
    <3>6. \A i \in DOMAIN node_conn'[n] :
            ~(prev_node_count(n) < i /\ i <= prev_node_count(n) + confirmations'[n])
      BY <3>1, <1>3 DEF Linked
    <3>7. init_pc'[n] # "running" BY <1>4
    <3> QED BY <3>5, <3>6, <3>7 DEF ConfirmedOK
  <2>5. OneAtATime(n)' BY <1>6 DEF OneAtATime
  <2> QED BY <2>1, <2>2, <2>3, <2>4, <2>5 DEF NodeOK
<1>10. ASSUME NEW m \in Node \ {n} PROVE NodeOK(m)'
  <2>1. /\ node_conn'[m] = node_conn[m] /\ to_connect'[m] = to_connect[m]
        /\ init_pc'[m] = init_pc[m] /\ connect_failed' = connect_failed
        /\ confirmations' = confirmations
    BY <1>3, <1>4 DEF Linked
  <2>2. PhaseOK(m)' BY <1>0, <2>1 DEF NodeOK, PhaseOK, Connected, host
  <2>3. ConnOK(m)' BY <1>0, <2>1, ConnStays DEF NodeOK
  <2>4. WholeOK(m)' BY <1>0, <2>1, WholeStays DEF NodeOK
  <2>5. Grows BY <1>1, <1>4 DEF Grows
  <2>6. OnlyConfirms(m) BY <1>4, Channels DEF OnlyConfirms, Server
  <2>7. ConfirmedOK(m)' BY <1>0, <2>1, <2>5, <2>6, ConfirmedStays DEF NodeOK
  <2>8. ASSUME NEW t \in Server
        PROVE  (Waits(m, t)' => Waits(m, t)) /\ (Greeted(m, t)' => Greeted(m, t))
    <3>1. t \in to_connect[m] => wire'[<<t, m>>] = wire[<<t, m>>]
      BY <1>0, <1>4, Channels DEF NodeOK, ConnOK
    <3> QED BY <2>1, <3>1 DEF Waits, Greeted, Connected, host
  <2>9. OneAtATime(m)' BY <1>0, <2>8, OneAtATimeStays DEF NodeOK
  <2> QED BY <2>2, <2>3, <2>4, <2>7, <2>9 DEF NodeOK
<1>11. ASSUME NEW c \in Node, NEW t \in Server PROVE PairOK(c, t)'
  <2>1. CASE c = n
    <3>1. t = s => t \in Partners(c)' BY <2>1, <1>3 DEF Linked
    <3>2. t # s => (c \in Served(t) => t \in Partners(c)')
      BY <2>1, <1>0, <1>3, <1>6 DEF PairOK, Linked
    <3>3. t \in prev_nodes(c) /\ wire'[<<t, c>>] > 0 => c \in Served(t)
      <4>1. t = s => wire'[<<t, c>>] = 0 BY <2>1, <1>1, <1>4
      <4>2. t # s /\ t \in prev_nodes(c) => wire'[<<t, c>>] = wire[<<t, c>>]
        BY <2>1, <1>4, Channels
      <4>3. t = s => ~(wire'[<<t, c>>] > 0) BY <4>1
      <4> QED BY <1>0, <4>2, <4>3 DEF PairOK
    <3> QED BY <2>1, <1>5, <1>6, <3>1, <3>2, <3>3 DEF PairOK
  <2>2. CASE c # n
    <3>1. Partners(c)' = Partners(c) BY <2>2, <1>3 DEF Linked
    <3>2. Waits(c, t)' <=> Waits(c, t) BY DEF Waits, Connected, host
    <3>3. t \in prev_nodes(c) => wire'[<<t, c>>] = wire[<<t, c>>] BY <2>2, <1>4, Channels
    <3>4. Greeted(c, t)' <=> Greeted(c, t)
      BY <2>2, <1>0, <1>4, <3>3 DEF Greeted, NodeOK, ConnOK
    <3> QED BY <2>2, <1>0, <1>4, <1>5, <3>1, <3>2, <3>3, <3>4 DEF PairOK
  <2> QED BY <2>1, <2>2
<1> QED BY <1>7, <1>8, <1>9, <1>10, <1>11 DEF StartInv

\* When the last client is accepted, all next elements are connected.
LEMMA AllAccepted ==
  ASSUME NEW n \in Node, NEW c \in next_nodes(n), c \notin Partners(n), ConnOK(n),
         LastClient(n)
  PROVE  next_nodes(n) \subseteq Partners(n) \union {c}
<1> DEFINE A == {i \in DOMAIN node_conn[n] : node_conn[n][i] \in next_nodes(n)}
           B == next_nodes(n) \ {c}
           f == [i \in A |-> node_conn[n][i]]
<1>1. IsFiniteSet(next_nodes(n)) /\ Cardinality(next_nodes(n)) \in Nat
  BY Counted DEF next_node_count
<1>2. IsFiniteSet(B) /\ Cardinality(B) = Cardinality(next_nodes(n)) - 1
  BY <1>1, FS_RemoveElement
<1>3. \A i \in A : node_conn[n][i] \in B BY DEF Partners
<1>4. \A i, j \in A : node_conn[n][i] = node_conn[n][j] => i = j BY DEF ConnOK
<1>5. f \in Injection(A, B) BY <1>3, <1>4 DEF Injection, IsInjective
<1>6. IsFiniteSet(A) BY <1>2, <1>5, FS_Injection
<1>7. Cardinality(A) \in Nat BY <1>6, FS_CardinalityType
<1>8. Cardinality(A) + 1 = Cardinality(next_nodes(n))
  BY DEF LastClient, Accepted, next_node_count
<1>9. Cardinality(A) = Cardinality(B) BY <1>1, <1>2, <1>7, <1>8
<1> HIDE DEF A, B, f
<1>10. f \in Surjection(A, B) BY <1>2, <1>5, <1>9, FS_Injection
<1>11. \A m \in B : \E i \in A : f[i] = m BY <1>10 DEF Surjection
<1>12. \A m \in B : m \in Partners(n) BY <1>11 DEF A, f, Partners
<1> QED BY <1>12 DEF B

\* The server takes one waiting client and greets it.
LEMMA AcceptKeeps ==
  ASSUME StartInv, NEW n \in Node, NEW c \in Node, Accept(n, c)
  PROVE  StartInv'
<1>0. /\ StartTypeOK /\ HostOK
      /\ \A m \in Node : NodeOK(m) /\ \A t \in Server : PairOK(m, t)
  BY DEF StartInv
<1> DEFINE pc == IF LastClient(n) THEN "confirm" ELSE "server"
<1>1. /\ n \in Server /\ n # HOST_ID /\ c # HOST_ID /\ c # n
      /\ init_pc[n] = "server" /\ to_connect[n] = {} /\ confirmations[n] = 0
      /\ Waits(c, n) /\ init_pc[c] = "hello" /\ n \in to_connect[c] /\ n \in prev_nodes(c)
      /\ c \in next_nodes(n) /\ c \notin prev_nodes(n) /\ n \notin next_nodes(c)
      /\ c \notin Partners(n) /\ <<n, c>> \in Channel
  <2>1. n \in Server /\ n # HOST_ID /\ c # HOST_ID BY RoutesAssumption DEF Server
  <2>2. Waits(c, n) BY <2>1 DEF Waits, Accept
  <2>3. init_pc[c] = "hello" /\ n \in to_connect[c] /\ c \notin Served(n)
    BY <1>0, <2>1, <2>2 DEF PairOK
  <2>4. n \in prev_nodes(c) BY <1>0, <2>3 DEF NodeOK, ConnOK
  <2>5. c \in next_nodes(n) /\ c \notin prev_nodes(n) /\ n \notin next_nodes(c) /\ c # n
    BY <2>1, <2>4, EitherSide
  <2>6. c \notin Partners(n) BY <2>1, <2>3, <2>5 DEF Served
  <2>7. <<n, c>> \in Channel BY <2>1, <2>4, Channels
  <2>8. init_pc[n] = "server" BY DEF Accept
  <2>9. to_connect[n] = {} /\ confirmations[n] = 0
    BY <1>0, <2>8 DEF NodeOK, PhaseOK
  <2> QED BY <2>1, <2>2, <2>3, <2>4, <2>5, <2>6, <2>7, <2>8, <2>9
<1>2. c \in Server /\ c \in Connections(n)
  BY <1>1, RoutesAssumption DEF Server, Connections
<1>3. Linked(n, c) BY <1>0, <1>1, <1>2, LinkIsAdded DEF Links, NodeOK, Accept
<1>4. /\ \A m \in Node : init_pc'[m] = IF m = n THEN pc ELSE init_pc[m]
      /\ \A d \in Channel : wire'[d] = IF d = <<n, c>> THEN wire[d] + 1 ELSE wire[d]
      /\ \A d \in Channel : wire[d] \in Nat
      /\ \A t \in Server : backlog'[t] = IF t = n THEN backlog[t] \ {c} ELSE backlog[t]
      /\ to_connect' = to_connect /\ confirmations' = confirmations
      /\ connect_failed' = connect_failed /\ host_pc' = host_pc /\ host_conn' = host_conn
  BY <1>0 DEF StartTypeOK, Accept, Goto, host
<1>5. pc \in {"confirm", "server"} OBVIOUS
<1>6. pc = "confirm" => next_nodes(n) \subseteq Partners(n) \union {c}
  BY <1>0, <1>1, AllAccepted DEF NodeOK
<1> HIDE DEF pc
<1>7. \A t \in Server : Served(t)' = IF t = n THEN Served(n) \union {c} ELSE Served(t)
  <2> SUFFICES ASSUME NEW t \in Server
               PROVE  Served(t)' = IF t = n THEN Served(n) \union {c} ELSE Served(t)
    OBVIOUS
  <2>1. CASE t = HOST_ID BY <2>1, <1>1, <1>4 DEF Served
  <2>2. CASE t = n
    <3>1. Partners(n)' = Partners(n) \union {c} BY <1>3 DEF Linked
    <3> QED BY <2>2, <3>1, <1>1 DEF Served
  <2>3. CASE t \in Node \ {n}
    <3>1. Partners(t)' = Partners(t) BY <2>3, <1>3 DEF Linked
    <3> QED BY <2>3, <3>1, RoutesAssumption DEF Served
  <2> QED BY <2>1, <2>2, <2>3 DEF Server
<1>8. ASSUME NEW m \in Node, NEW t \in Server
      PROVE  /\ Waits(m, t)' <=> Waits(m, t) /\ ~(m = c /\ t = n)
             /\ t \in prev_nodes(m) =>
                  (wire'[<<t, m>>] > 0 <=> wire[<<t, m>>] > 0 \/ (m = c /\ t = n))
             /\ Greeted(m, t)' <=> Greeted(m, t) \/ (m = c /\ t = n)
  <2>1. Waits(m, t)' <=> Waits(m, t) /\ ~(m = c /\ t = n)
    BY <1>1, <1>4 DEF Waits
  <2>2. t \in prev_nodes(m) /\ ~(m = c /\ t = n) => wire'[<<t, m>>] = wire[<<t, m>>]
    BY <1>4, Channels
  <2>3. wire'[<<n, c>>] > 0 BY <1>1, <1>4
  <2>4. to_connect[m] \subseteq prev_nodes(m) BY <1>0 DEF NodeOK, ConnOK
  <2>5. Greeted(m, t)' <=> Greeted(m, t) \/ (m = c /\ t = n)
    BY <1>1, <1>4, <2>2, <2>3, <2>4 DEF Greeted
  <2> QED BY <2>1, <2>2, <2>3, <2>5
<1>9. StartTypeOK'
  <2>1. node_conn' \in [Node -> Seq(Server)] BY <1>3 DEF Linked
  <2>2. wire' \in [Channel -> Nat]
    <3>1. wire[<<n, c>>] + 1 \in Nat BY <1>1, <1>4
    <3> QED BY <1>0, <3>1 DEF StartTypeOK, Accept
  <2>3. init_pc' \in [Node -> {"boot", "configure", "wait", "client", "hello", "server",
                             "confirm", "running"}]
    BY <1>0 DEF StartTypeOK, Accept, Goto
  <2>4. backlog' \in [Server -> SUBSET Node] BY <1>0 DEF StartTypeOK, Accept
  <2> QED BY <1>0, <2>1, <2>2, <2>3, <2>4 DEF StartTypeOK, Accept, host
<1>10. HostOK'
  <2>1. \A m \in first_nodes : wire'[<<m, HOST_ID>>] = wire[<<m, HOST_ID>>]
    BY <1>1, <1>4, Channels, RoutesAssumption DEF first_nodes, Server
  <2>2. \A m \in first_nodes : init_pc[m] = "running" => init_pc'[m] = "running"
    BY <1>1, <1>4 DEF first_nodes
  <2> QED BY <1>0, <1>4, <2>1, <2>2 DEF HostOK
<1>11. \A m \in Node : OnlyConfirms(m)
  BY <1>1, <1>4, Channels DEF OnlyConfirms, Server
<1>12. \A m \in Node : OneAtATime(m)'
  <2> SUFFICES ASSUME NEW m \in Node PROVE OneAtATime(m)' OBVIOUS
  <2>1. \A t \in Server : Waits(m, t)' \/ Greeted(m, t)' => Waits(m, t) \/ Greeted(m, t)
    BY <1>1, <1>8
  <2> QED BY <1>0, <2>1, OneAtATimeStays DEF NodeOK
<1>13. NodeOK(n)'
  <2>0. /\ ConnOK(n) /\ WholeOK(n) /\ ConfirmedOK(n)
        /\ Partners(n)' = Partners(n) \union {c} /\ prev_node_count(n) \in Nat
        /\ init_pc'[n] = pc
    BY <1>0, <1>3, <1>4, Counted DEF NodeOK, Linked
  <2>1. PhaseOK(n)'
    BY <1>0, <1>1, <1>4, <1>5 DEF NodeOK, PhaseOK, Accept, Server
  <2>2. ConnOK(n)'
    <3>1. \A i, j \in DOMAIN node_conn'[n] : node_conn'[n][i] = node_conn'[n][j] => i = j
      BY <1>3 DEF Linked
    <3> QED BY <1>1, <1>2, <1>4, <1>5, <2>0, <3>1 DEF ConnOK
  <2>3. WholeOK(n)'
    <3>1. ASSUME n \notin connect_failed
          PROVE  1 .. prev_node_count(n) \subseteq DOMAIN node_conn'[n]
                 /\ FirstPartners(n)' = prev_nodes(n)
      <4>1. 1 .. prev_node_count(n) \subseteq DOMAIN node_conn[n]
            /\ FirstPartners(n) = prev_nodes(n)
        BY <3>1, <1>1, <2>0 DEF WholeOK
      <4>2. \A i \in 1 .. prev_node_count(n) : node_conn'[n][i] = node_conn[n][i]
        BY <4>1, <1>3 DEF Linked
      <4>3. FirstPartners(n)' = FirstPartners(n) BY <4>2 DEF FirstPartners
      <4>4. DOMAIN node_conn[n] \subseteq DOMAIN node_conn'[n] BY <1>3 DEF Linked
      <4> QED BY <4>1, <4>3, <4>4
    <3>2. n \in connect_failed =>
            \E t \in prev_nodes(n) : t \notin to_connect'[n] /\ t \notin Partners(n)'
      BY <1>1, <1>4, <2>0 DEF WholeOK
    <3>3. pc = "confirm" => next_nodes(n) \subseteq Partners(n)' BY <1>6, <2>0
    <3> QED BY <1>4, <1>5, <2>0, <3>1, <3>2, <3>3 DEF WholeOK
  <2>4. ConfirmedOK(n)'
    <3>1. \A i \in DOMAIN node_conn'[n] :
            ~(prev_node_count(n) < i /\ i <= prev_node_count(n) + confirmations'[n])
      BY <1>1, <1>3, <1>4, <2>0 DEF Linked
    <3>2. \A m \in next_nodes(n) \intersect Node : wire'[<<m, n>>] > 0 => init_pc'[m] = "running"
      <4>1. \A m \in Node : init_pc[m] = "running" => init_pc'[m] = "running"
        BY <1>1, <1>4
      <4> QED BY <2>0, <4>1, <1>11 DEF ConfirmedOK, OnlyConfirms
    <3> QED BY <1>5, <2>0, <3>1, <3>2 DEF ConfirmedOK
  <2> QED BY <2>1, <2>2, <2>3, <2>4, <1>12 DEF NodeOK
<1>14. ASSUME NEW m \in Node \ {n} PROVE NodeOK(m)'
  <2>1. /\ node_conn'[m] = node_conn[m] /\ to_connect'[m] = to_connect[m]
        /\ init_pc'[m] = init_pc[m] /\ connect_failed' = connect_failed
        /\ confirmations' = confirmations
    BY <1>3, <1>4 DEF Linked
  <2>2. PhaseOK(m)' BY <1>0, <1>1, <1>4, <2>1 DEF NodeOK, PhaseOK, Accept, Server
  <2>3. ConnOK(m)' BY <1>0, <2>1, ConnStays DEF NodeOK
  <2>4. WholeOK(m)' BY <1>0, <2>1, WholeStays DEF NodeOK
  <2>5. Grows BY <1>1, <1>4 DEF Grows
  <2>6. ConfirmedOK(m)' BY <1>0, <1>11, <2>1, <2>5, ConfirmedStays DEF NodeOK
  <2> QED BY <2>2, <2>3, <2>4, <2>6, <1>12 DEF NodeOK
<1>15. ASSUME NEW m \in Node, NEW t \in Server PROVE PairOK(m, t)'
  <2>1. Partners(m) \subseteq Partners(m)' BY <1>3 DEF Linked
  <2>2. init_pc[m] = "hello" => init_pc'[m] = "hello" BY <1>1, <1>4
  <2>3. PairOK(m, t) BY <1>0
  <2>4. m \in Served(t)' <=> m \in Served(t) \/ (m = c /\ t = n) BY <1>1, <1>7
  <2>5. Waits(m, t)' => init_pc'[m] = "hello" /\ t \in to_connect'[m] /\ m \notin Served(t)'
    BY <1>4, <1>8, <2>2, <2>3, <2>4 DEF PairOK
  <2>6. Greeted(m, t)' => init_pc'[m] = "hello" BY <1>1, <1>8, <2>2, <2>3 DEF PairOK
  <2>7. t \in prev_nodes(m) /\ wire'[<<t, m>>] > 0 => m \in Served(t)'
    BY <1>8, <2>3, <2>4 DEF PairOK
  <2>8. m \in Served(t)' => t \in Partners(m)' \/ Greeted(m, t)'
    BY <1>8, <2>1, <2>3, <2>4 DEF PairOK
  <2> QED BY <2>5, <2>6, <2>7, <2>8 DEF PairOK
<1> QED BY <1>9, <1>10, <1>13, <1>14, <1>15 DEF StartInv

\* Once all previous elements are tried, those connected are all there are.
LEMMA AllConnected ==
  ASSUME StartTypeOK, NEW n \in Node, ConnOK(n), WholeOK(n),
         n \notin connect_failed, init_pc[n] = "client", to_connect[n] = {}
  PROVE  /\ 1 .. prev_node_count(n) \subseteq DOMAIN node_conn[n]
         /\ FirstPartners(n) = prev_nodes(n)
<1> DEFINE L == Len(node_conn[n])
           f == [i \in 1 .. L |-> node_conn[n][i]]
<1>1. L \in Nat /\ DOMAIN node_conn[n] = 1 .. L
  <2>1. node_conn[n] \in Seq(Server) BY DEF StartTypeOK
  <2> QED BY <2>1
<1>2. Partners(n) = prev_nodes(n) BY DEF ConnOK, WholeOK
<1>3. \A i \in 1 .. L : node_conn[n][i] \in prev_nodes(n) BY <1>1, <1>2 DEF Partners
<1>4. \A m \in prev_nodes(n) : \E i \in 1 .. L : node_conn[n][i] = m
  BY <1>1, <1>2 DEF Partners
<1>5. \A i, j \in 1 .. L : node_conn[n][i] = node_conn[n][j] => i = j BY <1>1 DEF ConnOK
<1>6. f \in Injection(1 .. L, prev_nodes(n)) /\ f \in Surjection(1 .. L, prev_nodes(n))
  BY <1>3, <1>4, <1>5 DEF Injection, IsInjective, Surjection
<1>7. Cardinality(1 .. L) = L BY <1>1, FS_Interval
<1>8. IsFiniteSet(prev_nodes(n)) BY Counted
<1> HIDE DEF L, f
<1>9. Cardinality(1 .. L) = Cardinality(prev_nodes(n)) BY <1>6, <1>8, FS_Injection
<1>10. prev_node_count(n) = L BY <1>7, <1>9 DEF prev_node_count
<1> QED BY <1>1, <1>2, <1>10 DEF FirstPartners, Partners

\* n confirms to its first connections and changes nothing else but its place.
Confirms(n) ==
  /\ wire' = Confirm(n, wire)
  /\ UNCHANGED <<to_connect, node_conn, confirmations, connect_failed, host, config_conn,
                 backlog>>
  /\ \A m \in Node : init_pc'[m] = IF m = n THEN "running" ELSE init_pc[m]
  /\ init_pc[n] \in {"client", "confirm"}

\* What n newly sends goes to one of its partners, so nobody takes it for an
\* answer it waits for.
LEMMA ConfirmingIsHarmless ==
  ASSUME StartInv, NEW n \in Node, Confirms(n)
  PROVE  /\ wire' \in [Channel -> Nat]
         /\ HostOK'
         /\ \A m \in Node : Grows /\ OnlyConfirms(m) /\ ConnOK(m)' /\ OneAtATime(m)'
         /\ \A m \in Node, t \in Server : PairOK(m, t)'
<1>0. /\ StartTypeOK /\ HostOK
      /\ \A m \in Node : NodeOK(m) /\ \A t \in Server : PairOK(m, t)
  BY DEF StartInv
<1>1. /\ \A m \in Node : init_pc'[m] = IF m = n THEN "running" ELSE init_pc[m]
      /\ init_pc[n] \in {"client", "confirm"}
      /\ to_connect' = to_connect /\ node_conn' = node_conn /\ backlog' = backlog
      /\ connect_failed' = connect_failed /\ host_pc' = host_pc /\ host_conn' = host_conn
  BY DEF Confirms, host
<1>2. ASSUME NEW d \in Channel
      PROVE  /\ wire[d] \in Nat /\ wire'[d] \in Nat
             /\ wire[d] > 0 => wire'[d] > 0
             /\ wire'[d] > 0 => wire[d] > 0 \/ (d[1] = n /\ d[2] \in Partners(n))
  <2>1. wire[d] \in Nat BY <1>0 DEF StartTypeOK
  <2>2. wire'[d] = IF d[1] = n /\ d[2] \in ConfirmTo(n) THEN wire[d] + 1 ELSE wire[d]
    BY DEF Confirms, Confirm
  <2>3. ConfirmTo(n) \subseteq Partners(n) BY DEF ConfirmTo, Partners
  <2> QED BY <2>1, <2>2, <2>3
<1>3. wire' \in [Channel -> Nat]
  <2>1. DOMAIN wire' = Channel /\ wire' = [d \in Channel |-> wire'[d]] BY DEF Confirms, Confirm
  <2> QED BY <2>1, <1>2
<1>4. \A m \in Node : Partners(m)' = Partners(m) BY <1>1, PartnersStay
<1>5. \A t \in Server : Served(t)' = Served(t) BY <1>1, <1>4 DEF Served, Server
<1>6. ASSUME NEW m \in Node, NEW t \in Server, t \in prev_nodes(m)
      PROVE  /\ wire[<<t, m>>] > 0 => wire'[<<t, m>>] > 0
             /\ wire'[<<t, m>>] > 0 => m \in Served(t)
  <2>1. <<t, m>> \in Channel BY <1>6, Channels
  <2>2. wire[<<t, m>>] > 0 => m \in Served(t) BY <1>0, <1>6 DEF PairOK
  <2>3. wire'[<<t, m>>] > 0 => wire[<<t, m>>] > 0 \/ (t = n /\ m \in Partners(n))
    BY <1>2, <2>1
  <2>4. t = n /\ m \in Partners(n) => m \in Served(t)
    BY <1>6, EitherSide, RoutesAssumption DEF Served
  <2> QED BY <1>2, <2>1, <2>2, <2>3, <2>4
<1>7. ASSUME NEW m \in Node, NEW t \in Server
      PROVE  (Waits(m, t)' <=> Waits(m, t)) /\ (Greeted(m, t)' <=> Greeted(m, t))
  <2>1. Waits(m, t)' <=> Waits(m, t) BY <1>1 DEF Waits
  <2>2. t \in to_connect[m] => t \in prev_nodes(m) /\ t \notin Partners(m)
    BY <1>0 DEF NodeOK, ConnOK
  <2>3. m \in Served(t) => t \in Partners(m) \/ Greeted(m, t) BY <1>0 DEF PairOK
  <2>4. Greeted(m, t)' <=> Greeted(m, t) BY <1>1, <1>6, <2>2, <2>3 DEF Greeted
  <2> QED BY <2>1, <2>4
<1>8. ASSUME NEW m \in Node, NEW t \in Server PROVE PairOK(m, t)'
  <2>1. PairOK(m, t) BY <1>0
  <2>2. init_pc[m] = "hello" => init_pc'[m] = "hello" BY <1>1
  <2> QED BY <1>1, <1>4, <1>5, <1>6, <1>7, <2>1, <2>2 DEF PairOK
<1>9. ASSUME NEW m \in Node
      PROVE  Grows /\ OnlyConfirms(m) /\ ConnOK(m)' /\ OneAtATime(m)'
  <2>1. Grows BY <1>1 DEF Grows
  <2>2. OnlyConfirms(m)
    <3>1. \A x \in next_nodes(m) \intersect Node : <<x, m>> \in Channel
      BY Channels DEF Server
    <3> QED BY <1>1, <1>2, <3>1 DEF OnlyConfirms
  <2>3. ConnOK(m)' BY <1>0, <1>1, ConnStays DEF NodeOK
  <2>4. OneAtATime(m)' BY <1>0, <1>7, OneAtATimeStays DEF NodeOK
  <2> QED BY <2>1, <2>2, <2>3, <2>4
<1>10. HostOK'
  <2>1. \A m \in first_nodes : m \in Node /\ <<m, HOST_ID>> \in Channel
    BY Channels DEF first_nodes, Server
  <2> QED BY <1>0, <1>1, <1>2, <2>1 DEF HostOK
<1> QED BY <1>3, <1>8, <1>9, <1>10

\* A terminal element confirms, another one opens its server.
LEMMA ClientDoneKeeps ==
  ASSUME StartInv, NEW n \in Node, ClientDone(n)
  PROVE  StartInv'
<1>0. /\ StartTypeOK /\ HostOK
      /\ \A m \in Node : NodeOK(m) /\ \A t \in Server : PairOK(m, t)
  BY DEF StartInv
<1>1. init_pc[n] = "client" /\ to_connect[n] = {} BY DEF ClientDone
<1>2. ASSUME n \notin connect_failed
      PROVE  1 .. prev_node_count(n) \subseteq DOMAIN node_conn[n]
             /\ FirstPartners(n) = prev_nodes(n)
  BY <1>0, <1>1, <1>2, AllConnected DEF NodeOK
<1>3. CASE next_nodes(n) = {TAIL_ID}
  <2>1. Confirms(n)
    BY <1>0, <1>1, <1>3 DEF Confirms, ClientDone, Goto, StartTypeOK
  <2>2. /\ wire' \in [Channel -> Nat] /\ HostOK'
        /\ \A m \in Node : Grows /\ OnlyConfirms(m) /\ ConnOK(m)' /\ OneAtATime(m)'
        /\ \A m \in Node, t \in Server : PairOK(m, t)'
    BY <2>1, ConfirmingIsHarmless
  <2>3. StartTypeOK'
    BY <1>0, <1>3, <2>2 DEF StartTypeOK, ClientDone, Goto, host
  <2>4. ASSUME NEW m \in Node PROVE NodeOK(m)'
    <3>1. /\ node_conn'[m] = node_conn[m] /\ to_connect'[m] = to_connect[m]
          /\ connect_failed' = connect_failed /\ confirmations' = confirmations
          /\ init_pc'[m] = IF m = n THEN "running" ELSE init_pc[m]
      BY <2>1 DEF Confirms
    <3>2. PhaseOK(m)' BY <1>0, <1>1, <2>1, <3>1 DEF NodeOK, PhaseOK, Confirms, host
    <3>3. WholeOK(m)'
      <4>1. m = n => WholeOK(m)'
        BY <1>0, <1>2, <1>3, <1>1, <3>1, PartnersStay DEF NodeOK, WholeOK
      <4>2. m # n => WholeOK(m)' BY <1>0, <3>1, WholeStays DEF NodeOK
      <4> QED BY <4>1, <4>2
    <3>4. ConfirmedOK(m)'
      <4>1. ASSUME m = n PROVE ConfirmedOK(m)'
        <5>1. ConfirmedOK(m) /\ confirmations[m] = 0 /\ prev_node_count(m) \in Nat
          BY <1>0, <1>1, <4>1, Counted DEF NodeOK, PhaseOK
        <5>2. \A x \in next_nodes(m) \intersect Node :
                wire'[<<x, m>>] > 0 => init_pc'[x] = "running"
          BY <2>2, <5>1 DEF ConfirmedOK, OnlyConfirms, Grows
        <5>3. \A i \in DOMAIN node_conn'[m] :
                ~(prev_node_count(m) < i /\ i <= prev_node_count(m) + confirmations'[m])
          <6>1. node_conn[m] \in Seq(Server) BY <1>0 DEF StartTypeOK
          <6>2. DOMAIN node_conn[m] \subseteq Nat BY <6>1
          <6> QED BY <3>1, <5>1, <6>2
        <5> QED BY <1>3, <4>1, <5>2, <5>3 DEF ConfirmedOK
      <4>2. m # n => ConfirmedOK(m)'
        BY <1>0, <2>2, <3>1, ConfirmedStays DEF NodeOK
      <4> QED BY <4>1, <4>2
    <3> QED BY <2>2, <3>2, <3>3, <3>4 DEF NodeOK
  <2> QED BY <2>2, <2>3, <2>4 DEF StartInv
<1>4. CASE next_nodes(n) # {TAIL_ID}
  <2>1. /\ \A m \in Node : init_pc'[m] = IF m = n THEN "server" ELSE init_pc[m]
        /\ node_conn' = node_conn /\ to_connect' = to_connect /\ wire' = wire
        /\ connect_failed' = connect_failed /\ confirmations' = confirmations
        /\ backlog' = backlog /\ config_conn' = config_conn
        /\ host_pc' = host_pc /\ host_conn' = host_conn
    BY <1>0, <1>4 DEF ClientDone, Goto, StartTypeOK, host
  <2>2. StartTypeOK' BY <1>0, <1>4 DEF StartTypeOK, ClientDone, Goto, host
  <2>3. HostOK' BY <1>0, <1>1, <2>1 DEF HostOK, first_nodes
  <2>4. ASSUME NEW m \in Node, NEW t \in Server
        PROVE  (Waits(m, t)' <=> Waits(m, t)) /\ (Greeted(m, t)' <=> Greeted(m, t))
    BY <2>1 DEF Waits, Greeted
  <2>5. ASSUME NEW m \in Node PROVE NodeOK(m)'
    <3>1. PhaseOK(m)' BY <1>0, <1>1, <2>1 DEF NodeOK, PhaseOK
    <3>2. ConnOK(m)' BY <1>0, <2>1, ConnStays DEF NodeOK
    <3>3. WholeOK(m)'
      <4>1. m = n => WholeOK(m)'
        BY <1>0, <1>2, <1>1, <2>1, PartnersStay DEF NodeOK, WholeOK
      <4>2. m # n => WholeOK(m)' BY <1>0, <2>1, WholeStays DEF NodeOK
      <4> QED BY <4>1, <4>2
    <3>4. Grows /\ OnlyConfirms(m) BY <1>1, <2>1 DEF Grows, OnlyConfirms
    <3>5. ConfirmedOK(m)' BY <1>0, <2>1, <3>4, ConfirmedStays DEF NodeOK
    <3>6. OneAtATime(m)' BY <1>0, <2>4, OneAtATimeStays DEF NodeOK
    <3> QED BY <3>1, <3>2, <3>3, <3>5, <3>6 DEF NodeOK
  <2>6. ASSUME NEW m \in Node, NEW t \in Server PROVE PairOK(m, t)'
    <3>1. \A x \in Node : Partners(x)' = Partners(x) BY <2>1, PartnersStay
    <3>2. Served(t)' = Served(t) BY <2>1, <3>1 DEF Served, Server
    <3>3. init_pc[m] = "hello" => init_pc'[m] = "hello" BY <1>1, <2>1
    <3> QED BY <1>0, <2>1, <2>4, <3>1, <3>2, <3>3 DEF PairOK
  <2> QED BY <2>2, <2>3, <2>5, <2>6 DEF StartInv
<1> QED BY <1>3, <1>4

\* n reads the next confirmation, or finds that there is no such connection.
LEMMA ReadConfirmationKeeps ==
  ASSUME StartInv, NEW n \in Node, ReadConfirmation(n)
  PROVE  StartInv'
<1> DEFINE k == ClientConn(n)
           x == node_conn[n][k]
<1>0. /\ StartTypeOK /\ HostOK
      /\ \A m \in Node : NodeOK(m) /\ \A t \in Server : PairOK(m, t)
  BY DEF StartInv
<1>1. /\ init_pc[n] = "confirm"
      /\ \A m \in Node : confirmations'[m] =
           IF m = n THEN confirmations[n] + 1 ELSE confirmations[m]
      /\ init_pc' = init_pc /\ to_connect' = to_connect /\ node_conn' = node_conn
      /\ connect_failed' = connect_failed /\ config_conn' = config_conn
      /\ backlog' = backlog /\ host_pc' = host_pc /\ host_conn' = host_conn
  BY <1>0 DEF StartTypeOK, ReadConfirmation, host
<1>2. confirmations[n] \in Nat /\ prev_node_count(n) \in Nat
      /\ k = prev_node_count(n) + confirmations[n] + 1
  BY <1>0, Counted DEF StartTypeOK, ClientConn
<1>3. ASSUME NEW d \in Channel
      PROVE  /\ wire'[d] > 0 => wire[d] > 0
             /\ d[2] # n => wire'[d] = wire[d]
  <2>1. CASE wire' = [wire EXCEPT ![<<x, n>>] = 0]
    <3>1. wire'[d] = IF d = <<x, n>> THEN 0 ELSE wire[d]
      BY <1>0, <2>1 DEF StartTypeOK
    <3>2. d = <<x, n>> => ~(wire'[d] > 0) /\ d[2] = n BY <3>1
    <3> QED BY <3>1, <3>2
  <2>2. CASE wire' = wire BY <2>2
  <2> QED BY <2>1, <2>2 DEF ReadConfirmation
<1>4. StartTypeOK'
  <2>1. wire' \in [Channel -> Nat]
    <3>1. wire' = [wire EXCEPT ![<<x, n>>] = 0] \/ wire' = wire BY DEF ReadConfirmation
    <3>2. wire \in [Channel -> Nat] /\ 0 \in Nat BY <1>0 DEF StartTypeOK
    <3> HIDE DEF k
    <3> QED BY <3>1, <3>2
  <2>2. confirmations' \in [Node -> Nat]
    <3>1. confirmations[n] + 1 \in Nat BY <1>2
    <3>2. confirmations' = [confirmations EXCEPT ![n] = confirmations[n] + 1]
      BY DEF ReadConfirmation
    <3> QED BY <1>0, <3>1, <3>2 DEF StartTypeOK
  <2> QED BY <1>0, <2>1, <2>2 DEF StartTypeOK, ReadConfirmation, host
<1>5. HostOK'
  <2>1. \A m \in first_nodes : <<m, HOST_ID>> \in Channel
    BY Channels DEF first_nodes, Server
  <2> QED BY <1>0, <1>1, <1>3, <2>1 DEF HostOK
<1>6. \A m \in Node : Grows /\ OnlyConfirms(m)
  BY <1>1, <1>3, Channels DEF Grows, OnlyConfirms, Server
<1>7. ASSUME n \notin connect_failed, k \in DOMAIN node_conn[n]
      PROVE  x \in Node /\ init_pc[x] = "running"
  <2>1. ConnOK(n) /\ WholeOK(n) /\ ConfirmedOK(n) BY <1>0 DEF NodeOK
  <2>2. x \in Partners(n) BY <1>7 DEF Partners
  <2>3. x \notin prev_nodes(n)
    <3>1. 1 .. prev_node_count(n) \subseteq DOMAIN node_conn[n]
          /\ FirstPartners(n) = prev_nodes(n)
      BY <1>1, <1>7, <2>1 DEF WholeOK
    <3>2. \A i \in 1 .. prev_node_count(n) : i # k BY <1>2
    <3>3. \A i \in 1 .. prev_node_count(n) : node_conn[n][i] # x
      BY <1>7, <2>1, <3>1, <3>2 DEF ConnOK
    <3> QED BY <3>1, <3>3 DEF FirstPartners
  <2>4. x \in next_nodes(n) /\ x # TAIL_ID
    BY <2>1, <2>2, <2>3 DEF ConnOK, Connections
  <2>5. x \in Node BY <2>4, AroundNode
  <2>6. wire[<<x, n>>] > 0 BY <1>7 DEF ReadConfirmation
  <2> QED BY <2>1, <2>4, <2>5, <2>6 DEF ConfirmedOK
<1> HIDE DEF k
<1>8. ASSUME NEW m \in Node, NEW t \in Server
      PROVE  (Waits(m, t)' <=> Waits(m, t)) /\ (Greeted(m, t)' <=> Greeted(m, t))
  <2>1. Waits(m, t)' <=> Waits(m, t) BY <1>1 DEF Waits
  <2>2. t \in to_connect[m] => <<t, m>> \in Channel
    BY <1>0, Channels DEF NodeOK, ConnOK
  <2>3. m = n => to_connect[m] = {} BY <1>0, <1>1 DEF NodeOK, PhaseOK
  <2>4. t \in to_connect[m] => wire'[<<t, m>>] = wire[<<t, m>>] BY <1>3, <2>2, <2>3
  <2>5. Greeted(m, t)' <=> Greeted(m, t) BY <1>1, <2>4 DEF Greeted
  <2> QED BY <2>1, <2>5
<1>9. ASSUME NEW m \in Node PROVE NodeOK(m)'
  <2>1. PhaseOK(m)' BY <1>0, <1>1 DEF NodeOK, PhaseOK
  <2>2. ConnOK(m)' BY <1>0, <1>1, ConnStays DEF NodeOK
  <2>3. WholeOK(m)' BY <1>0, <1>1, WholeStays DEF NodeOK
  <2>4. ConfirmedOK(m)'
    <3>1. m # n => ConfirmedOK(m)' BY <1>0, <1>1, <1>6, ConfirmedStays DEF NodeOK
    <3>2. ASSUME m = n PROVE ConfirmedOK(m)'
      <4>1. ConfirmedOK(n) BY <1>0 DEF NodeOK
      <4>2. \A y \in next_nodes(n) \intersect Node :
              wire'[<<y, n>>] > 0 => init_pc'[y] = "running"
        BY <1>6, <4>1 DEF ConfirmedOK, OnlyConfirms, Grows
      <4>3. ASSUME n \notin connect_failed, NEW i \in DOMAIN node_conn[n],
                   prev_node_count(n) < i, i <= prev_node_count(n) + (confirmations[n] + 1)
            PROVE  node_conn[n][i] \in Node /\ init_pc[node_conn[n][i]] = "running"
        <5>1. node_conn[n] \in Seq(Server) BY <1>0 DEF StartTypeOK
        <5>2. i \in Nat BY <5>1
        <5>3. i = k \/ i <= prev_node_count(n) + confirmations[n] BY <1>2, <4>3, <5>2
        <5>4. CASE i = k BY <1>7, <4>3, <5>4
        <5>5. CASE i <= prev_node_count(n) + confirmations[n]
          BY <4>1, <4>3, <5>5 DEF ConfirmedOK
        <5> QED BY <5>3, <5>4, <5>5
      <4> QED BY <1>1, <3>2, <4>2, <4>3 DEF ConfirmedOK
    <3> QED BY <3>1, <3>2
  <2>5. OneAtATime(m)' BY <1>0, <1>8, OneAtATimeStays DEF NodeOK
  <2> QED BY <2>1, <2>2, <2>3, <2>4, <2>5 DEF NodeOK
<1>10. ASSUME NEW m \in Node, NEW t \in Server PROVE PairOK(m, t)'
  <2>1. \A y \in Node : Partners(y)' = Partners(y) BY <1>1, PartnersStay
  <2>2. Served(t)' = Served(t) BY <1>1, <2>1 DEF Served, Server
  <2>3. t \in prev_nodes(m) /\ wire'[<<t, m>>] > 0 => wire[<<t, m>>] > 0
    BY <1>3, Channels
  <2> QED BY <1>0, <1>1, <1>8, <2>1, <2>2, <2>3 DEF PairOK
<1> QED BY <1>4, <1>5, <1>9, <1>10 DEF StartInv

\* All confirmations are read: the element runs and confirms in turn.
LEMMA InitDoneKeeps ==
  ASSUME StartInv, NEW n \in Node, InitDone(n)
  PROVE  StartInv'
<1>0. /\ StartTypeOK /\ HostOK
      /\ \A m \in Node : NodeOK(m) /\ \A t \in Server : PairOK(m, t)
  BY DEF StartInv
<1>1. init_pc[n] = "confirm" /\ confirmations[n] = next_node_count(n)
      /\ init_pc'[n] = "running"
  BY <1>0 DEF InitDone, Goto, StartTypeOK
<1>2. Confirms(n) BY <1>0, <1>1 DEF Confirms, InitDone, Goto, StartTypeOK
<1>3. /\ wire' \in [Channel -> Nat] /\ HostOK'
      /\ \A m \in Node : Grows /\ OnlyConfirms(m) /\ ConnOK(m)' /\ OneAtATime(m)'
      /\ \A m \in Node, t \in Server : PairOK(m, t)'
  BY <1>2, ConfirmingIsHarmless
<1>4. StartTypeOK' BY <1>0, <1>3 DEF StartTypeOK, InitDone, Goto, host
<1>5. ASSUME NEW m \in Node PROVE NodeOK(m)'
  <2>1. /\ node_conn'[m] = node_conn[m] /\ to_connect'[m] = to_connect[m]
        /\ connect_failed' = connect_failed /\ confirmations'[m] = confirmations[m]
        /\ init_pc'[m] = IF m = n THEN "running" ELSE init_pc[m]
    BY <1>2 DEF Confirms
  <2>2. PhaseOK(m)' BY <1>0, <1>1, <1>2, <2>1 DEF NodeOK, PhaseOK, Confirms, host
  <2>3. WholeOK(m)'
    <3>1. m = n => WholeOK(m)'
      BY <1>0, <1>1, <2>1, PartnersStay DEF NodeOK, WholeOK
    <3>2. m # n => WholeOK(m)' BY <1>0, <2>1, WholeStays DEF NodeOK
    <3> QED BY <3>1, <3>2
  <2>4. ConfirmedOK(m)'
    <3>1. ASSUME m = n PROVE ConfirmedOK(m)'
      <4>1. ConfirmedOK(m) BY <1>0 DEF NodeOK
      <4>2. \A x \in next_nodes(m) \intersect Node :
              wire'[<<x, m>>] > 0 => init_pc'[x] = "running"
        BY <1>3, <4>1 DEF ConfirmedOK, OnlyConfirms, Grows
      <4>3. m \notin connect_failed' =>
              \A i \in DOMAIN node_conn'[m] :
                prev_node_count(m) < i /\ i <= prev_node_count(m) + confirmations'[m] =>
                  node_conn'[m][i] \in Node /\ init_pc'[node_conn'[m][i]] = "running"
        BY <1>3, <2>1, <4>1 DEF ConfirmedOK, Grows
      <4> QED BY <1>1, <2>1, <3>1, <4>2, <4>3 DEF ConfirmedOK
    <3>2. m # n => ConfirmedOK(m)' BY <1>0, <1>3, <2>1, ConfirmedStays DEF NodeOK
    <3> QED BY <3>1, <3>2
  <2> QED BY <1>3, <2>2, <2>3, <2>4 DEF NodeOK
<1> QED BY <1>3, <1>4, <1>5 DEF StartInv

\* The host PC takes one of the first elements and greets it.
LEMMA HostAcceptsKeeps ==
  ASSUME StartInv, NEW n \in Node, HostAccepts(n)
  PROVE  StartInv'
<1>0. /\ StartTypeOK /\ HostOK
      /\ \A m \in Node : NodeOK(m) /\ \A t \in Server : PairOK(m, t)
  BY DEF StartInv
<1>1. /\ HOST_ID \in Server /\ host_pc = "accepting" /\ Waits(n, HOST_ID)
      /\ init_pc[n] = "hello" /\ HOST_ID \in to_connect[n] /\ n \in first_nodes
      /\ <<HOST_ID, n>> \in Channel
  <2>1. HOST_ID \in Server /\ host_pc = "accepting" /\ Waits(n, HOST_ID)
    BY DEF Waits, HostAccepts, Server
  <2>2. init_pc[n] = "hello" /\ HOST_ID \in to_connect[n]
    BY <1>0, <2>1 DEF PairOK
  <2> QED BY <1>0, <2>1, <2>2, Channels DEF NodeOK, ConnOK
<1>2. /\ host_pc' \in {"accepting", "confirming"} /\ host_conn' = host_conn \union {n}
      /\ \A t \in Server :
           backlog'[t] = IF t = HOST_ID THEN backlog[t] \ {n} ELSE backlog[t]
      /\ \A d \in Channel : wire'[d] = IF d = <<HOST_ID, n>> THEN wire[d] + 1 ELSE wire[d]
      /\ \A d \in Channel : wire[d] \in Nat
      /\ init_pc' = init_pc /\ to_connect' = to_connect /\ node_conn' = node_conn
      /\ confirmations' = confirmations /\ connect_failed' = connect_failed
      /\ config_conn' = config_conn
  BY <1>0 DEF StartTypeOK, HostAccepts, init_task
<1>3. StartTypeOK'
  <2>1. wire' \in [Channel -> Nat]
    <3>1. wire[<<HOST_ID, n>>] + 1 \in Nat BY <1>1, <1>2
    <3> QED BY <1>0, <3>1 DEF StartTypeOK, HostAccepts
  <2> QED BY <1>0, <2>1 DEF StartTypeOK, HostAccepts, init_task
<1>4. HostOK'
  <2>1. host_conn \subseteq first_nodes
    <3> SUFFICES ASSUME NEW c \in host_conn PROVE c \in first_nodes OBVIOUS
    <3>1. c \in Node /\ c \in Served(HOST_ID) BY <1>0, <1>1 DEF StartTypeOK, Served
    <3>2. HOST_ID \in Partners(c) \/ HOST_ID \in to_connect[c]
      BY <1>0, <1>1, <3>1 DEF PairOK, Greeted
    <3>3. HOST_ID \in prev_nodes(c) \/ HOST_ID \in next_nodes(c)
      BY <1>0, <3>1, <3>2 DEF NodeOK, ConnOK, Connections
    <3>4. HOST_ID \notin next_nodes(c) BY <3>1, AroundNode, RoutesAssumption
    <3> QED BY <3>1, <3>3, <3>4, Channels
  <2>2. host_conn' \subseteq first_nodes BY <1>1, <1>2, <2>1
  <2>3. IsFiniteSet(first_nodes) BY Counted
  <2>4. host_pc' = "confirming" => Cardinality(host_conn') = Cardinality(first_nodes)
    BY DEF HostAccepts
  <2>5. host_pc' = "confirming" => host_conn' = first_nodes
    BY <2>2, <2>3, <2>4, FS_Subset
  <2>6. \A m \in first_nodes : wire'[<<m, HOST_ID>>] = wire[<<m, HOST_ID>>]
    BY <1>2, Channels, RoutesAssumption DEF first_nodes, Server
  <2> QED BY <1>0, <1>2, <2>5, <2>6 DEF HostOK
<1>5. ASSUME NEW m \in Node, NEW t \in Server
      PROVE  /\ Waits(m, t)' <=> Waits(m, t) /\ ~(m = n /\ t = HOST_ID)
             /\ t \in prev_nodes(m) =>
                  (wire'[<<t, m>>] > 0 <=> wire[<<t, m>>] > 0 \/ (m = n /\ t = HOST_ID))
             /\ Greeted(m, t)' <=> Greeted(m, t) \/ (m = n /\ t = HOST_ID)
  <2>1. Waits(m, t)' <=> Waits(m, t) /\ ~(m = n /\ t = HOST_ID)
    BY <1>1, <1>2 DEF Waits
  <2>2. t \in prev_nodes(m) /\ ~(m = n /\ t = HOST_ID) => wire'[<<t, m>>] = wire[<<t, m>>]
    BY <1>2, Channels
  <2>3. wire'[<<HOST_ID, n>>] > 0 BY <1>1, <1>2
  <2>4. to_connect[m] \subseteq prev_nodes(m) BY <1>0 DEF NodeOK, ConnOK
  <2>5. Greeted(m, t)' <=> Greeted(m, t) \/ (m = n /\ t = HOST_ID)
    BY <1>1, <1>2, <2>2, <2>3, <2>4 DEF Greeted
  <2> QED BY <2>1, <2>2, <2>3, <2>5
<1>6. ASSUME NEW m \in Node PROVE NodeOK(m)'
  <2>1. PhaseOK(m)' BY <1>0, <1>1, <1>2 DEF NodeOK, PhaseOK
  <2>2. ConnOK(m)' BY <1>0, <1>2, ConnStays DEF NodeOK
  <2>3. WholeOK(m)' BY <1>0, <1>2, WholeStays DEF NodeOK
  <2>4. Grows BY <1>2 DEF Grows
  <2>5. OnlyConfirms(m)
    BY <1>2, Channels, RoutesAssumption DEF OnlyConfirms, Server
  <2>6. ConfirmedOK(m)' BY <1>0, <1>2, <2>4, <2>5, ConfirmedStays DEF NodeOK
  <2>7. \A t \in Server : Waits(m, t)' \/ Greeted(m, t)' => Waits(m, t) \/ Greeted(m, t)
    BY <1>1, <1>5
  <2>8. OneAtATime(m)' BY <1>0, <2>7, OneAtATimeStays DEF NodeOK
  <2> QED BY <2>1, <2>2, <2>3, <2>6, <2>8 DEF NodeOK
<1>7. ASSUME NEW m \in Node, NEW t \in Server PROVE PairOK(m, t)'
  <2>1. \A y \in Node : Partners(y)' = Partners(y) BY <1>2, PartnersStay
  <2>2. m \in Served(t)' <=> m \in Served(t) \/ (m = n /\ t = HOST_ID)
    <3>1. t = HOST_ID => Served(t) = host_conn /\ Served(t)' = host_conn'
      BY <1>1, <1>2 DEF Served
    <3>2. t # HOST_ID => Served(t)' = Served(t) BY <2>1 DEF Served, Server
    <3> QED BY <1>2, <3>1, <3>2
  <2>3. PairOK(m, t) BY <1>0
  <2> QED BY <1>1, <1>2, <1>5, <2>1, <2>2, <2>3 DEF PairOK
<1> QED BY <1>3, <1>4, <1>6, <1>7 DEF StartInv

\* All first elements have confirmed.
LEMMA HostAnnouncesKeeps ==
  ASSUME StartInv, HostAnnounces
  PROVE  StartInv'
<1>0. /\ StartTypeOK /\ HostOK
      /\ \A m \in Node : NodeOK(m) /\ \A t \in Server : PairOK(m, t)
  BY DEF StartInv
<1>1. /\ host_pc = "confirming" /\ host_pc' = "running" /\ host_conn' = host_conn
      /\ \A d \in Channel : wire'[d] = IF d[2] = HOST_ID THEN 0 ELSE wire[d]
      /\ backlog' = backlog /\ config_conn' = config_conn
      /\ init_pc' = init_pc /\ to_connect' = to_connect /\ node_conn' = node_conn
      /\ confirmations' = confirmations /\ connect_failed' = connect_failed
  BY DEF HostAnnounces, init_task
<1>2. StartTypeOK' BY <1>0 DEF StartTypeOK, HostAnnounces, init_task
<1>3. HostOK'
  <2>1. host_conn = first_nodes BY <1>0, <1>1 DEF HostOK
  <2>2. \A m \in first_nodes : init_pc[m] = "running"
    BY <1>0, <2>1 DEF HostOK, HostAnnounces
  <2> QED BY <1>1, <2>1, <2>2 DEF HostOK
<1>4. ASSUME NEW m \in Node, NEW t \in Server, <<t, m>> \in Channel
      PROVE  wire'[<<t, m>>] = wire[<<t, m>>]
  BY <1>1, <1>4, RoutesAssumption
<1>5. ASSUME NEW m \in Node, NEW t \in Server
      PROVE  Waits(m, t)' <=> Waits(m, t)
  BY <1>1 DEF Waits
<1>6. ASSUME NEW m \in Node, NEW t \in Server
      PROVE  Greeted(m, t)' <=> Greeted(m, t)
  BY <1>0, <1>1, <1>4, Channels DEF Greeted, NodeOK, ConnOK
<1>7. ASSUME NEW m \in Node PROVE NodeOK(m)'
  <2>1. PhaseOK(m)' BY <1>0, <1>1 DEF NodeOK, PhaseOK
  <2>2. ConnOK(m)' BY <1>0, <1>1, ConnStays DEF NodeOK
  <2>3. WholeOK(m)' BY <1>0, <1>1, WholeStays DEF NodeOK
  <2>4. Grows BY <1>1 DEF Grows
  <2>5. OnlyConfirms(m) BY <1>4, Channels DEF OnlyConfirms, Server
  <2>6. ConfirmedOK(m)' BY <1>0, <1>1, <2>4, <2>5, ConfirmedStays DEF NodeOK
  <2>7. OneAtATime(m)' BY <1>0, <1>5, <1>6, OneAtATimeStays DEF NodeOK
  <2> QED BY <2>1, <2>2, <2>3, <2>6, <2>7 DEF NodeOK
<1>8. ASSUME NEW m \in Node, NEW t \in Server PROVE PairOK(m, t)'
  <2>1. \A y \in Node : Partners(y)' = Partners(y) BY <1>1, PartnersStay
  <2>2. Served(t)' = Served(t) BY <1>1, <2>1 DEF Served, Server
  <2>3. t \in prev_nodes(m) => wire'[<<t, m>>] = wire[<<t, m>>] BY <1>4, Channels
  <2> QED BY <1>0, <1>1, <1>5, <1>6, <2>1, <2>2, <2>3 DEF PairOK
<1> QED BY <1>2, <1>3, <1>7, <1>8 DEF StartInv

\* Every step keeps the invariant.
LEMMA NextKeepsInv == StartInv /\ [Next]_vars => StartInv'
<1> SUFFICES ASSUME StartInv, [Next]_vars PROVE StartInv' OBVIOUS
<1>1. CASE server_loop
  BY <1>1, HostConfiguresKeeps, HostAcceptsKeeps, HostStartsKeeps, HostAnnouncesKeeps
  DEF server_loop
<1>2. ASSUME NEW n \in Node, initMain(n) PROVE StartInv'
  <2>1. ASSUME NEW s \in Server, ConnectFails(n, s) PROVE StartInv'
    BY <2>1, GivesUpKeeps DEF ConnectFails, GivesUp
  <2>2. ASSUME NEW s \in Server, Refused(n, s) PROVE StartInv'
    BY <2>2, GivesUpKeeps DEF Refused, GivesUp
  <2> QED
    BY <1>2, <2>1, <2>2, AskConfigKeeps, ConfigureKeeps, StartConnectingKeeps, ConnectKeeps,
       ConnectedKeeps, ClientDoneKeeps, AcceptKeeps, ReadConfirmationKeeps, InitDoneKeeps
    DEF initMain
<1>3. CASE UNCHANGED vars
  <2> USE <1>3 DEF vars, init_task, host
  <2>1. StartTypeOK' /\ HostOK' BY DEF StartInv, StartTypeOK, HostOK
  <2>2. \A m \in Node : Partners(m)' = Partners(m) /\ FirstPartners(m)' = FirstPartners(m)
    BY PartnersStay
  <2>3. \A t \in Server : Served(t)' = Served(t) BY <2>2 DEF Served, Server
  <2>4. ASSUME NEW m \in Node, NEW t \in Server
        PROVE  (Waits(m, t)' <=> Waits(m, t)) /\ (Greeted(m, t)' <=> Greeted(m, t))
    BY DEF Waits, Greeted
  <2>5. ASSUME NEW m \in Node, NEW t \in Server PROVE PairOK(m, t)'
    BY <2>2, <2>3, <2>4 DEF StartInv, PairOK
  <2>6. ASSUME NEW m \in Node PROVE NodeOK(m)'
    <3>1. NodeOK(m) BY DEF StartInv
    <3>2. PhaseOK(m)' BY <3>1 DEF NodeOK, PhaseOK
    <3>3. ConnOK(m)' BY <3>1, ConnStays DEF NodeOK
    <3>4. WholeOK(m)' BY <3>1, WholeStays DEF NodeOK
    <3>5. ConfirmedOK(m)' BY <3>1 DEF NodeOK, ConfirmedOK
    <3>6. OneAtATime(m)' BY <3>1, <2>4, OneAtATimeStays DEF NodeOK
    <3> QED BY <3>2, <3>3, <3>4, <3>5, <3>6 DEF NodeOK
  <2> QED BY <2>1, <2>5, <2>6 DEF StartInv
<1> QED BY <1>1, <1>2, <1>3 DEF Next

\* At every state of the start each variable has its type: a node keeps its
\* connections in a list, and what is unread on a channel is counted.
THEOREM StartTypeCorrect == Spec => []StartTypeOK
<1>1. StartInv => StartTypeOK BY DEF StartInv
<1> QED BY <1>1, StartsInInv, NextKeepsInv, PTL DEF Spec

\* The next elements of a node that failed nowhere are its partners right after
\* the previous ones, where it looks for their confirmations.
LEMMA NextArePlaced ==
  ASSUME StartInv, NEW n \in Node \ connect_failed, NEW m \in next_nodes(n),
         init_pc[n] = "running", next_nodes(n) # {TAIL_ID}
  PROVE  \E i \in DOMAIN node_conn[n] :
           /\ node_conn[n][i] = m
           /\ prev_node_count(n) < i /\ i <= prev_node_count(n) + next_node_count(n)
<1> DEFINE P == prev_node_count(n)
           L == Len(node_conn[n])
           f == [i \in P + 1 .. L |-> node_conn[n][i]]
<1>1. StartTypeOK /\ ConnOK(n) /\ WholeOK(n) BY DEF StartInv, NodeOK
<1>2. L \in Nat /\ DOMAIN node_conn[n] = 1 .. L
  <2>1. node_conn[n] \in Seq(Server) BY <1>1 DEF StartTypeOK
  <2> QED BY <2>1
<1>3. /\ P \in Nat /\ IsFiniteSet(next_nodes(n)) /\ next_node_count(n) \in Nat
  BY Counted
<1>4. 1 .. P \subseteq 1 .. L /\ FirstPartners(n) = prev_nodes(n)
      /\ next_nodes(n) \subseteq Partners(n)
  BY <1>1, <1>2 DEF WholeOK
<1>5. \A i, j \in 1 .. L : node_conn[n][i] = node_conn[n][j] => i = j
  BY <1>1, <1>2 DEF ConnOK
<1>6. ASSUME NEW i \in P + 1 .. L PROVE node_conn[n][i] \in next_nodes(n)
  <2>1. i \in 1 .. L /\ \A j \in 1 .. P : j # i /\ j \in 1 .. L BY <1>2, <1>3, <1>4
  <2>2. \A j \in 1 .. P : node_conn[n][j] # node_conn[n][i] BY <1>5, <2>1
  <2>3. node_conn[n][i] \notin prev_nodes(n) BY <1>4, <2>2 DEF FirstPartners
  <2>4. node_conn[n][i] \in Connections(n) BY <1>1, <1>2, <2>1 DEF ConnOK, Partners
  <2> QED BY <2>3, <2>4 DEF Connections
<1>7. f \in Injection(P + 1 .. L, next_nodes(n))
  <2>1. P + 1 .. L \subseteq 1 .. L BY <1>2, <1>3
  <2> QED BY <1>5, <1>6, <2>1 DEF Injection, IsInjective
<1>8. Cardinality(P + 1 .. L) <= next_node_count(n)
  <2> HIDE DEF f, P, L
  <2> QED BY <1>3, <1>7, FS_Injection DEF next_node_count
<1>9. L <= P + next_node_count(n)
  <2>1. P + 1 \in Int /\ L \in Int BY <1>2, <1>3
  <2> HIDE DEF P, L
  <2>2. Cardinality(P + 1 .. L) = IF P + 1 > L THEN 0 ELSE L - (P + 1) + 1
    BY <2>1, FS_Interval
  <2> QED BY <1>2, <1>3, <1>8, <2>2
<1>10. PICK i \in 1 .. L : node_conn[n][i] = m BY <1>2, <1>4 DEF Partners
<1>11. m \notin prev_nodes(n) BY StartupAssumption
<1>12. ~(i \in 1 .. P) BY <1>4, <1>10, <1>11 DEF FirstPartners
<1> HIDE DEF P, L
<1>13. P < i /\ i <= P + next_node_count(n) BY <1>2, <1>3, <1>9, <1>12
<1> QED BY <1>2, <1>10, <1>13 DEF P

\* All confirmations of an element that runs are read, one of each next element.
LEMMA InvGivesAhead == StartInv => AheadIsRunning
<1> SUFFICES ASSUME StartInv, NEW n \in Node \ connect_failed, init_pc[n] = "running",
                    NEW m \in next_nodes(n) \ {TAIL_ID}
             PROVE  init_pc[m] = "running"
  BY DEF AheadIsRunning
<1>1. next_nodes(n) # {TAIL_ID} OBVIOUS
<1>2. PICK i \in DOMAIN node_conn[n] :
        /\ node_conn[n][i] = m
        /\ prev_node_count(n) < i /\ i <= prev_node_count(n) + next_node_count(n)
  BY <1>1, NextArePlaced
<1>3. ConfirmedOK(n) BY DEF StartInv, NodeOK
<1> QED BY <1>1, <1>2, <1>3 DEF ConfirmedOK

\* On every railway: an element that is up can reach everything ahead of it,
\* unless one of its own connections to the elements behind it is missing.
THEOREM AheadRuns == Spec => []AheadIsRunning
BY StartsInInv, NextKeepsInv, InvGivesAhead, PTL DEF Spec

-----------------------------------------------------------------------------
(* The announcement.                                                       *)

\* A step moves one init task at most, and none that is done.
Moves ==
  /\ \/ init_pc' = init_pc
     \/ \E n \in Node : /\ init_pc[n] # "running"
                       /\ \A m \in Node \ {n} : init_pc'[m] = init_pc[m]
  /\ connect_failed \subseteq connect_failed'

\* No handler moves two nodes.
LEMMA StepsMove == StartTypeOK /\ [Next]_vars => Moves
<1> SUFFICES ASSUME StartTypeOK, [Next]_vars PROVE Moves OBVIOUS
<1>1. CASE server_loop
  BY <1>1 DEF server_loop, HostConfigures, HostAccepts, HostStarts, HostAnnounces, init_task,
              Moves
<1>2. CASE UNCHANGED vars BY <1>2 DEF vars, init_task, Moves
<1>3. ASSUME NEW n \in Node, initMain(n) PROVE Moves
  <2> USE DEF Moves, StartTypeOK, Goto
  <2>1. CASE AskConfig(n) BY <2>1 DEF AskConfig
  <2>2. CASE Configure(n) BY <2>2 DEF Configure
  <2>3. CASE StartConnecting(n) BY <2>3 DEF StartConnecting
  <2>4. ASSUME NEW s \in Server, Connect(n, s) \/ Connected(n, s) PROVE Moves
    BY <2>4 DEF Connect, Connected
  <2>5. ASSUME NEW s \in Server, ConnectFails(n, s) \/ Refused(n, s) PROVE Moves
    BY <2>5 DEF ConnectFails, Refused
  <2>6. CASE ClientDone(n) BY <2>6 DEF ClientDone
  <2>7. ASSUME NEW c \in Node, Accept(n, c) PROVE Moves BY <2>7 DEF Accept
  <2>8. CASE ReadConfirmation(n) BY <2>8 DEF ReadConfirmation
  <2>9. CASE InitDone(n) BY <2>9 DEF InitDone
  <2> QED BY <1>3, <2>1, <2>2, <2>3, <2>4, <2>5, <2>6, <2>7, <2>8, <2>9 DEF initMain
<1> QED BY <1>1, <1>2, <1>3 DEF Next

\* Running elements reach further and further along their routes.
LEMMA RunsAheadKept ==
  ASSUME RunsAhead, Moves, AheadIsRunning'
  PROVE  RunsAhead'
<1> SUFFICES ASSUME NEW r \in Route,
                    NEW i \in 1 .. Len(nodes_list[r]), NEW j \in 1 .. Len(nodes_list[r]),
                    i <= j, init_pc'[nodes_list[r][i]] = "running",
                    \A k \in i .. j : k # j => nodes_list[r][k] \notin connect_failed'
             PROVE  init_pc'[nodes_list[r][j]] = "running"
  BY DEF RunsAhead
<1>1. Len(nodes_list[r]) \in Nat /\ \A k \in 1 .. Len(nodes_list[r]) : nodes_list[r][k] \in Node
  BY Beside
<1>2. \A m \in Node : init_pc[m] = "running" => init_pc'[m] = "running" BY DEF Moves
<1>3. \A k \in i .. j : k # j => nodes_list[r][k] \notin connect_failed BY DEF Moves
<1>4. CASE init_pc[nodes_list[r][i]] = "running"
  <2>1. init_pc[nodes_list[r][j]] = "running" BY <1>3, <1>4 DEF RunsAhead
  <2> QED BY <1>1, <1>2, <2>1
<1>5. CASE init_pc[nodes_list[r][i]] # "running" /\ i # j
  <2>1. i + 1 \in 1 .. Len(nodes_list[r]) /\ i + 1 <= j /\ i # Len(nodes_list[r])
        /\ (i + 1) - 1 = i /\ i + 1 # 1 /\ i \in i .. j
    BY <1>1, <1>5
  <2> DEFINE a == nodes_list[r][i]
             b == nodes_list[r][i + 1]
  <2>2. a \in Node /\ b \in Node /\ b # TAIL_ID /\ a # b
    BY <1>1, <2>1, RoutesAssumption
  <2>3. b \in next_nodes(a) BY <2>1, <2>2, NextOfPrev
  <2>4. a \notin connect_failed' BY <1>5, <2>1
  <2>5. init_pc'[b] = "running" BY <2>2, <2>3, <2>4 DEF AheadIsRunning
  <2>6. init_pc[b] = "running" BY <1>5, <2>2, <2>5 DEF Moves
  <2>7. \A k \in i + 1 .. j : k # j => nodes_list[r][k] \notin connect_failed
    <3>1. i + 1 .. j \subseteq i .. j BY <1>1
    <3> QED BY <1>3, <3>1
  <2>8. init_pc[nodes_list[r][j]] = "running" BY <2>1, <2>6, <2>7 DEF RunsAhead
  <2> QED BY <1>1, <1>2, <2>8
<1> QED BY <1>4, <1>5

\* There is a first one among finitely many numbers, as of any.
LEMMA Least ==
  ASSUME NEW T \in SUBSET Nat, T # {}
  PROVE  \E x \in T : \A y \in T : x <= y
<1> DEFINE D == {1 .. x : x \in T}
<1>1. \A x \in T : IsFiniteSet(1 .. x) /\ 1 .. x \subseteq Nat
  BY FS_Interval
<1>2. D \subseteq FiniteSubsetsOf(Nat) /\ D # {}
  BY <1>1 DEF FiniteSubsetsOf
<1>3. IsWellFoundedOn(StrictSubsetOrdering(Nat), FiniteSubsetsOf(Nat))
  BY FS_StrictSubsetOrderingWellFounded
<1> HIDE DEF D
<1>4. PICK d \in D : \A e \in D : <<e, d>> \notin StrictSubsetOrdering(Nat)
  BY <1>2, <1>3, WFMin
<1>5. PICK x \in T : d = 1 .. x BY DEF D
<1>6. ASSUME NEW y \in T, y < x PROVE FALSE
  <2>1. 1 .. y \in D BY DEF D
  <2>2. 1 .. y \subseteq 1 .. x /\ x \in 1 .. x /\ x \notin 1 .. y BY <1>6
  <2>3. <<1 .. y, 1 .. x>> \in StrictSubsetOrdering(Nat)
    BY <2>2, <1>1 DEF StrictSubsetOrdering
  <2> QED BY <2>1, <2>3, <1>4, <1>5
<1> QED BY <1>6

\* The first element of a route is connected to the host PC.
LEMMA FirstOfRoute ==
  ASSUME NEW r \in Route
  PROVE  1 \in 1 .. Len(nodes_list[r]) /\ nodes_list[r][1] \in first_nodes
<1>1. nodes_list[r] \in Seq(Node) /\ nodes_list[r] # << >> BY RoutesAssumption
<1>2. 1 \in 1 .. Len(nodes_list[r]) BY <1>1
<1>3. nodes_list[r][1] \in Node /\ rasp_id_prev(nodes_list[r][1], r) = HOST_ID
  BY <1>2, Beside
<1>4. nodes_list[r][1] \in Elements(r) BY <1>2 DEF Elements
<1>5. HOST_ID \in prev_nodes(nodes_list[r][1])
  BY <1>3, <1>4 DEF prev_nodes, node_routes
<1> QED BY <1>2, <1>3, <1>5 DEF first_nodes

\* If nodes failed, the first of them in the order of the routes failed to
\* connect to an element that everything from the host PC on waits for.
LEMMA NobodyFailed ==
  ASSUME StartInv, RunsAhead, RoutesInOrder, host_pc = "running"
  PROVE  connect_failed = {}
<1> SUFFICES ASSUME connect_failed # {} PROVE FALSE OBVIOUS
<1>0. /\ connect_failed \subseteq Node /\ host_conn = first_nodes
      /\ \A m \in first_nodes : m \in Node /\ init_pc[m] = "running"
      /\ \A m \in Node : NodeOK(m) /\ \A t \in Server : PairOK(m, t)
  BY DEF StartInv, HostOK, StartTypeOK, first_nodes
<1>1. PICK order \in [Node -> 1 .. Cardinality(Node)] : \A r \in Route :
        \A i, j \in 1 .. Len(nodes_list[r]) :
          i < j => order[nodes_list[r][i]] < order[nodes_list[r][j]]
  BY DEF RoutesInOrder
<1>2. \A m \in Node : order[m] \in Nat OBVIOUS
<1>3. PICK n \in connect_failed : \A m \in connect_failed : order[n] <= order[m]
  <2> DEFINE T == {order[m] : m \in connect_failed}
  <2>1. T \in SUBSET Nat /\ T # {} BY <1>0, <1>2
  <2>2. PICK x \in T : \A y \in T : x <= y
    <3> HIDE DEF T
    <3> QED BY <2>1, Least
  <2>3. PICK m \in connect_failed : x = order[m] OBVIOUS
  <2> QED BY <2>2, <2>3
<1>4. PICK s \in prev_nodes(n) : s \notin to_connect[n] /\ s \notin Partners(n)
  BY <1>0 DEF NodeOK, WholeOK
<1>5. n \in Node /\ s \in Server BY <1>0, AroundNode
<1>6. n \notin Served(s) BY <1>0, <1>4, <1>5 DEF PairOK, Greeted
<1>7. s # HOST_ID BY <1>0, <1>4, <1>5, <1>6, Channels DEF Served
<1>8. s \in Node /\ n \in next_nodes(s) BY <1>5, <1>7, NextOfPrev DEF Server
<1>9. PICK r \in Route : \E i \in 1 .. Len(nodes_list[r]) :
        i # 1 /\ nodes_list[r][i] = n /\ nodes_list[r][i - 1] = s
  BY <1>5, <1>8, NextOfPrev
<1>10. PICK i \in 1 .. Len(nodes_list[r]) :
        i # 1 /\ nodes_list[r][i] = n /\ nodes_list[r][i - 1] = s
  BY <1>9
<1>11. Len(nodes_list[r]) \in Nat /\ \A k \in 1 .. Len(nodes_list[r]) : nodes_list[r][k] \in Node
  BY Beside
<1>12. i - 1 \in 1 .. Len(nodes_list[r]) /\ 1 <= i - 1 BY <1>10, <1>11
<1>13. ASSUME NEW k \in 1 .. i - 1 PROVE nodes_list[r][k] \notin connect_failed
  <2>1. k \in 1 .. Len(nodes_list[r]) /\ k < i BY <1>11, <1>12
  <2>2. order[nodes_list[r][k]] < order[n] BY <1>1, <1>10, <2>1
  <2> QED BY <1>2, <1>3, <1>5, <1>11, <2>1, <2>2
<1>14. init_pc[s] = "running"
  <2>1. 1 \in 1 .. Len(nodes_list[r]) /\ init_pc[nodes_list[r][1]] = "running"
    BY <1>0, FirstOfRoute
  <2> QED BY <1>10, <1>12, <1>13, <2>1 DEF RunsAhead
<1>15. n \in Partners(s)
  BY <1>0, <1>5, <1>8, <1>14, RoutesAssumption DEF NodeOK, WholeOK
<1> QED BY <1>6, <1>7, <1>8, <1>15 DEF Served

\* With nobody failed every route runs from its first element to its last.
LEMMA InvGivesAnnouncement ==
  ASSUME StartInv, RunsAhead, RoutesInOrder
  PROVE  AnnouncedMeansRunning
<1> SUFFICES ASSUME host_pc = "running", NEW n \in Node
             PROVE  init_pc[n] = "running" /\ Partners(n) = Connections(n)
  BY DEF AnnouncedMeansRunning, Partners
<1>1. connect_failed = {} BY NobodyFailed
<1>2. \A m \in first_nodes : init_pc[m] = "running" BY DEF StartInv, HostOK
<1>3. init_pc[n] = "running"
  <2>1. PICK r \in Route : n \in Elements(r) BY DEF RoutesInOrder, node_routes
  <2>2. PICK i \in 1 .. Len(nodes_list[r]) : nodes_list[r][i] = n BY <2>1 DEF Elements
  <2>3. 1 \in 1 .. Len(nodes_list[r]) /\ init_pc[nodes_list[r][1]] = "running"
    BY <1>2, FirstOfRoute
  <2>4. 1 <= i BY <2>2, Beside
  <2> QED BY <1>1, <2>2, <2>3, <2>4 DEF RunsAhead
<1>4. ConnOK(n) /\ WholeOK(n) BY DEF StartInv, NodeOK
<1>5. prev_nodes(n) \subseteq Partners(n)
  BY <1>1, <1>3, <1>4 DEF WholeOK, FirstPartners, Partners
<1>6. next_nodes(n) \ {TAIL_ID} \subseteq Partners(n) BY <1>3, <1>4 DEF WholeOK
<1> QED BY <1>3, <1>4, <1>5, <1>6 DEF ConnOK, Connections

\* On every railway without a cycle: when the host PC announces that all
\* connections are established, every node runs with all its connections,
\* whichever nodes met errors while they connected.
THEOREM AnnouncementIsTrue == RoutesInOrder => (Spec => []AnnouncedMeansRunning)
<1> SUFFICES ASSUME RoutesInOrder PROVE Spec => []AnnouncedMeansRunning OBVIOUS
<1>1. Init => RunsAhead
  <2> SUFFICES ASSUME Init PROVE RunsAhead OBVIOUS
  <2>1. \A n \in Node : init_pc[n] # "running" BY DEF Init
  <2> QED BY <2>1, Beside DEF RunsAhead
<1>2. StartInv /\ RunsAhead /\ [Next]_vars => RunsAhead'
  <2> SUFFICES ASSUME StartInv, RunsAhead, [Next]_vars PROVE RunsAhead' OBVIOUS
  <2>1. Moves BY StepsMove DEF StartInv
  <2>2. StartInv' BY NextKeepsInv
  <2>3. AheadIsRunning' BY <2>2, InvGivesAhead, PTL
  <2> QED BY <2>1, <2>3, RunsAheadKept
<1>3. StartInv /\ RunsAhead => AnnouncedMeansRunning BY InvGivesAnnouncement
<1> QED BY <1>1, <1>2, <1>3, StartsInInv, NextKeepsInv, PTL DEF Spec
=============================================================================
