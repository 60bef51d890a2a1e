------------------------------- MODULE Routes -------------------------------
(***************************************************************************)
(* The railway as the host PC describes it to the nodes: a set of routes,  *)
(* each an ordered list of the track elements it crosses.  Every element   *)
(* is watched by one node (a Raspberry Pi).  A node only ever knows, for   *)
(* each route it belongs to, the element before it and the element after   *)
(* it.  These are the definitions of host_script/host.py (Route, Graph)    *)
(* together with what initTask.c derives from them.                        *)
(***************************************************************************)
EXTENDS Naturals, Sequences, FiniteSets

CONSTANTS
  Node,        \* RASP_IDs of the track elements
  HOST_ID,     \* the host PC, "previous element" of the first one of a route
  TAIL_ID,     \* the "next element" of the last one of a route
  Route,       \* route_ids
  nodes_list   \* nodes_list[r] = the elements of route r, first to last

ASSUME RoutesAssumption ==
  /\ HOST_ID \notin Node
  /\ TAIL_ID \notin Node
  /\ HOST_ID # TAIL_ID
  /\ nodes_list \in [Route -> Seq(Node)]
  /\ \A r \in Route :
       /\ nodes_list[r] # << >>
       /\ \A i, j \in 1 .. Len(nodes_list[r]) :
            nodes_list[r][i] = nodes_list[r][j] => i = j

\* The elements a route crosses, and the place of element n among them.
Elements(r) == {nodes_list[r][i] : i \in 1 .. Len(nodes_list[r])}

IndexOf(n, r) == CHOOSE i \in 1 .. Len(nodes_list[r]) : nodes_list[r][i] = n

\* Route.get_node_info: the neighbours of element n on route r.
rasp_id_prev(n, r) ==
  IF IndexOf(n, r) = 1 THEN HOST_ID ELSE nodes_list[r][IndexOf(n, r) - 1]

rasp_id_next(n, r) ==
  IF IndexOf(n, r) = Len(nodes_list[r])
    THEN TAIL_ID
    ELSE nodes_list[r][IndexOf(n, r) + 1]

\* Graph.query_node_data: the routes of n and its distinct neighbours.
node_routes(n) == {r \in Route : n \in Elements(r)}

prev_nodes(n) == {rasp_id_prev(n, r) : r \in node_routes(n)}

next_nodes(n) == {rasp_id_next(n, r) : r \in node_routes(n)}

\* NODE_TYPE == TYPE_SWITCH: the element joins or parts several tracks.
IsSwitch(n) == Cardinality(prev_nodes(n)) > 1 \/ Cardinality(next_nodes(n)) > 1

\* initTask.c: "no route can finish with a switch, for construction".
ASSUME NoRouteEndsWithSwitch ==
  \A r \in Route : ~IsSwitch(nodes_list[r][Len(nodes_list[r])])

\* initTask opens one TCP connection per neighbour; the tail is none.
Connections(n) == (prev_nodes(n) \union next_nodes(n)) \ {TAIL_ID}

\* Graph.get_first_nodes: the nodes the host PC is connected to.
first_nodes == {n \in Node : HOST_ID \in prev_nodes(n)}

\* The two directions of every connection, as <<from, to>>.
Channel ==
  {c \in Node \X (Node \union {HOST_ID}) : c[2] \in Connections(c[1])}
    \union {<<HOST_ID, n>> : n \in first_nodes}
=============================================================================
