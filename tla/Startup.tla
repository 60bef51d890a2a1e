------------------------------- MODULE Startup -------------------------------
(***************************************************************************)
(* The start of the system: every node (initTask.c) asks the host PC       *)
(* (server_loop of host.py) for its configuration, waits until all nodes   *)
(* have theirs, connects to the elements before it on its routes, then     *)
(* accepts those after it and waits for their confirmation before it gives *)
(* its own, so that confirmations travel from the tails to the host PC.    *)
(* A read takes whatever has arrived on its connection.                    *)
(*                                                                         *)
(* The nodes are all of one build: the prototype's or the virtualized one, *)
(* whose start differs in what it makes of a refused connection.           *)
(***************************************************************************)
EXTENDS Routes

CONSTANT MayFailToConnect   \* nodes that may meet an error other than a refusal

\* Two elements are neighbours in one direction: if each were before the other
\* both would wait for the other one to open its server, and nothing starts.
ASSUME StartupAssumption ==
  /\ IsFiniteSet(Node) /\ MayFailToConnect \subseteq Node
  /\ \A n \in Node : prev_nodes(n) \intersect next_nodes(n) = {}

\* Every element is on a route, and no routes form a cycle: there is an order
\* in which all of them run.
RoutesInOrder ==
  /\ \A n \in Node : node_routes(n) # {}
  /\ \E order \in [Node -> 1 .. Cardinality(Node)] : \A r \in Route :
       \A i, j \in 1 .. Len(nodes_list[r]) :
         i < j => order[nodes_list[r][i]] < order[nodes_list[r][j]]

VARIABLES
  virtualized,     \* the build of the nodes (never changes)
  init_pc,         \* where the init task of a node is
  config_conn,     \* what is unread on its configuration connection
  to_connect,      \* previous elements it has not tried to connect to yet
  node_conn,       \* its connections, in the order they were opened
  confirmations,   \* how many confirmations it has read
  connect_failed,  \* nodes that logged an error and went on without a connection
  host_pc,         \* where server_loop is
  backlog,         \* connected to a listening socket, not accepted yet
  host_conn,       \* connected_nodes of server_loop
  wire             \* wire[<<a, b>>]: how many RASP_IDs of a are unread by b

init_task == <<virtualized, init_pc, to_connect, node_conn, confirmations, connect_failed>>
host      == <<host_pc, host_conn>>
vars      == <<init_task, host, config_conn, backlog, wire>>

Server == Node \union {HOST_ID}

StartTypeOK ==
  /\ virtualized \in BOOLEAN
  /\ init_pc \in [Node -> {"boot", "configure", "wait", "client", "hello", "server",
                           "confirm", "running"}]
  /\ config_conn \in [Node -> {"", "CONFIG", "DONE", "START"}]
  /\ to_connect \in [Node -> SUBSET Server]
  /\ node_conn \in [Node -> Seq(Server)]
  /\ confirmations \in [Node -> Nat]
  /\ connect_failed \subseteq Node
  /\ host_pc \in {"configuring", "accepting", "confirming", "running"}
  /\ backlog \in [Server -> SUBSET Node]
  /\ host_conn \subseteq Node
  /\ wire \in [Channel -> Nat]

Init ==
  /\ virtualized \in BOOLEAN
  /\ init_pc = [n \in Node |-> "boot"]
  /\ config_conn = [n \in Node |-> ""]
  /\ to_connect = [n \in Node |-> {}]
  /\ node_conn = [n \in Node |-> << >>]
  /\ confirmations = [n \in Node |-> 0]
  /\ connect_failed = {}
  /\ host_pc = "configuring"
  /\ backlog = [s \in Server |-> {}]
  /\ host_conn = {}
  /\ wire = [c \in Channel |-> 0]

Goto(n, pc) == init_pc' = [init_pc EXCEPT ![n] = pc]

-----------------------------------------------------------------------------
(* Configuration.                                                          *)

\* The init task connects to the host PC and tells it its RASP_ID.
AskConfig(n) ==
  /\ init_pc[n] = "boot"
  /\ backlog' = [backlog EXCEPT ![HOST_ID] = @ \union {n}]
  /\ Goto(n, "configure")
  /\ UNCHANGED <<virtualized, to_connect, node_conn, confirmations, connect_failed, host,
                 config_conn, wire>>

\* server_loop accepts the next node and sends it its configuration.
HostConfigures(n) ==
  /\ host_pc = "configuring" /\ n \in backlog[HOST_ID]
  /\ backlog' = [backlog EXCEPT ![HOST_ID] = @ \ {n}]
  /\ host_conn' = host_conn \union {n}
  /\ config_conn' = [config_conn EXCEPT ![n] = "CONFIG"]
  /\ UNCHANGED <<init_task, host_pc, wire>>

\* parseConfigString: the elements to connect to, from the second packet of
\* the configuration string.
prev_ids(n) == prev_nodes(n)

\* Faulty: the second packet is taken for the third one.
ConfigureSwapped(n) ==
  /\ init_pc[n] = "configure" /\ config_conn[n] = "CONFIG"
  /\ to_connect' = [to_connect EXCEPT ![n] = next_nodes(n)]
  /\ config_conn' = [config_conn EXCEPT ![n] = "DONE"]
  /\ Goto(n, "wait")
  /\ UNCHANGED <<virtualized, node_conn, confirmations, connect_failed, host, backlog, wire>>

\* The node reads its neighbours and routes and reports.
Configure(n) ==
  /\ init_pc[n] = "configure" /\ config_conn[n] = "CONFIG"
  /\ to_connect' = [to_connect EXCEPT ![n] = prev_ids(n)]
  /\ config_conn' = [config_conn EXCEPT ![n] = "DONE"]
  /\ Goto(n, "wait")
  /\ UNCHANGED <<virtualized, node_conn, confirmations, connect_failed, host, backlog, wire>>

\* All nodes have reported: "Avvio connessioni" to each of them.
HostStarts ==
  /\ host_pc = "configuring" /\ host_conn = Node
  /\ \A n \in Node : config_conn[n] = "DONE"
  /\ config_conn' = [n \in Node |-> "START"]
  /\ host_conn' = {}
  /\ host_pc' = "accepting"
  /\ UNCHANGED <<init_task, backlog, wire>>

StartConnecting(n) ==
  /\ init_pc[n] = "wait" /\ config_conn[n] = "START"
  /\ config_conn' = [config_conn EXCEPT ![n] = ""]
  /\ Goto(n, "client")
  /\ UNCHANGED <<virtualized, to_connect, node_conn, confirmations, connect_failed, host,
                 backlog, wire>>

-----------------------------------------------------------------------------
(* The chain of connections.                                               *)

Listening(s) ==
  IF s = HOST_ID THEN host_pc = "accepting" ELSE init_pc[s] = "server"

\* addConnToServer: connect to a previous element and send the own RASP_ID.
\* As long as the connection is refused a node of the prototype tries again.
Connect(n, s) ==
  /\ init_pc[n] = "client" /\ s \in to_connect[n]
  /\ Listening(s)
  /\ backlog' = [backlog EXCEPT ![s] = @ \union {n}]
  /\ Goto(n, "hello")
  /\ UNCHANGED <<virtualized, to_connect, node_conn, confirmations, connect_failed, host,
                 config_conn, wire>>

\* Another error is logged; the loop goes on to the next element.
ConnectFails(n, s) ==
  /\ init_pc[n] = "client" /\ s \in to_connect[n]
  /\ n \in MayFailToConnect
  /\ to_connect' = [to_connect EXCEPT ![n] = @ \ {s}]
  /\ connect_failed' = connect_failed \union {n}
  /\ UNCHANGED <<virtualized, init_pc, node_conn, confirmations, host, config_conn, backlog,
                 wire>>

\* The virtualized build compares errno with a code of its own and returns the
\* same for every error, so that the loop around it never tries again.
Refused(n, s) ==
  /\ init_pc[n] = "client" /\ s \in to_connect[n]
  /\ virtualized /\ ~Listening(s)
  /\ to_connect' = [to_connect EXCEPT ![n] = @ \ {s}]
  /\ connect_failed' = connect_failed \union {n}
  /\ UNCHANGED <<virtualized, init_pc, node_conn, confirmations, host, config_conn, backlog,
                 wire>>

\* The RASP_ID of the server arrives: the connection counts.
Connected(n, s) ==
  /\ init_pc[n] = "hello" /\ s \in to_connect[n]
  /\ wire[<<s, n>>] > 0
  /\ wire' = [wire EXCEPT ![<<s, n>>] = 0]
  /\ to_connect' = [to_connect EXCEPT ![n] = @ \ {s}]
  /\ node_conn' = [node_conn EXCEPT ![n] = Append(@, s)]
  /\ Goto(n, "client")
  /\ UNCHANGED <<virtualized, confirmations, connect_failed, host, config_conn, backlog>>

prev_node_count(n) == Cardinality(prev_nodes(n))

next_node_count(n) == Cardinality(next_nodes(n))

\* A confirmation, "RASP_ID : n", to the first prev_node_count connections.
ConfirmTo(n) == {node_conn[n][i] : i \in DOMAIN node_conn[n] \intersect 1 .. prev_node_count(n)}

Confirm(n, w) ==
  [c \in Channel |-> IF c[1] = n /\ c[2] \in ConfirmTo(n) THEN w[c] + 1 ELSE w[c]]

\* All previous elements were tried.  A terminal element confirms at once,
\* another one opens its server.
ClientDone(n) ==
  /\ init_pc[n] = "client" /\ to_connect[n] = {}
  /\ \/ /\ next_nodes(n) = {TAIL_ID}
        /\ wire' = Confirm(n, wire)
        /\ Goto(n, "running")
     \/ /\ next_nodes(n) # {TAIL_ID}
        /\ Goto(n, "server")
        /\ UNCHANGED wire
  /\ UNCHANGED <<virtualized, to_connect, node_conn, confirmations, connect_failed, host,
                 config_conn, backlog>>

\* How many connections of n come from the elements after it.
Accepted(n) == Cardinality({i \in DOMAIN node_conn[n] : node_conn[n][i] \in next_nodes(n)})

\* Faulty: the server is closed one client early.
LastClientEarly(n) == Accepted(n) + 2 >= next_node_count(n)

LastClient(n) == Accepted(n) + 1 = next_node_count(n)

\* addConnToClient: accept the next client and answer with the own RASP_ID.
Accept(n, c) ==
  /\ init_pc[n] = "server" /\ c \in backlog[n]
  /\ backlog' = [backlog EXCEPT ![n] = @ \ {c}]
  /\ node_conn' = [node_conn EXCEPT ![n] = Append(@, c)]
  /\ wire' = [wire EXCEPT ![<<n, c>>] = @ + 1]
  /\ Goto(n, IF LastClient(n) THEN "confirm" ELSE "server")
  /\ UNCHANGED <<virtualized, to_connect, confirmations, connect_failed, host, config_conn>>

\* Faulty: counts from the first connection, those to previous elements.
ClientConnFromFirst(n) == confirmations[n] + 1

\* The next connection to read a confirmation from: getConnByIndex.
ClientConn(n) == prev_node_count(n) + confirmations[n] + 1

\* Wait for the confirmation of the next client.  When a connection is missing
\* the index runs past the last one, where a read fails at once.
ReadConfirmation(n) ==
  /\ init_pc[n] = "confirm" /\ confirmations[n] < next_node_count(n)
  /\ \/ /\ ClientConn(n) \in DOMAIN node_conn[n]
        /\ wire[<<node_conn[n][ClientConn(n)], n>>] > 0
        /\ wire' = [wire EXCEPT ![<<node_conn[n][ClientConn(n)], n>>] = 0]
     \/ /\ ClientConn(n) \notin DOMAIN node_conn[n]
        /\ UNCHANGED wire
  /\ confirmations' = [confirmations EXCEPT ![n] = @ + 1]
  /\ UNCHANGED <<virtualized, init_pc, to_connect, node_conn, connect_failed, host,
                 config_conn, backlog>>

\* All are read: confirm to the previous elements, start the other tasks.
InitDone(n) ==
  /\ init_pc[n] = "confirm" /\ confirmations[n] = next_node_count(n)
  /\ wire' = Confirm(n, wire)
  /\ Goto(n, "running")
  /\ UNCHANGED <<virtualized, to_connect, node_conn, confirmations, connect_failed, host,
                 config_conn, backlog>>

-----------------------------------------------------------------------------
(* The host PC as the element before the first ones.                       *)

HostAccepts(n) ==
  /\ host_pc = "accepting" /\ n \in backlog[HOST_ID]
  /\ backlog' = [backlog EXCEPT ![HOST_ID] = @ \ {n}]
  /\ host_conn' = host_conn \union {n}
  /\ wire' = [wire EXCEPT ![<<HOST_ID, n>>] = @ + 1]
  /\ host_pc' = IF Cardinality(host_conn') = Cardinality(first_nodes) THEN "confirming"
                                                                      ELSE "accepting"
  /\ UNCHANGED <<init_task, config_conn>>

\* "Tutte le connessioni sono state stabilite".
HostAnnounces ==
  /\ host_pc = "confirming"
  /\ \A n \in host_conn : wire[<<n, HOST_ID>>] > 0
  /\ wire' = [c \in Channel |-> IF c[2] = HOST_ID THEN 0 ELSE wire[c]]
  /\ host_pc' = "running"
  /\ UNCHANGED <<init_task, host_conn, config_conn, backlog>>

-----------------------------------------------------------------------------
initMain(n) ==
  \/ AskConfig(n) \/ Configure(n) \/ StartConnecting(n)
  \/ \E s \in Server : Connect(n, s) \/ ConnectFails(n, s) \/ Refused(n, s) \/ Connected(n, s)
  \/ ClientDone(n)
  \/ \E c \in Node : Accept(n, c)
  \/ ReadConfirmation(n) \/ InitDone(n)

server_loop ==
  \/ \E n \in Node : HostConfigures(n) \/ HostAccepts(n)
  \/ HostStarts \/ HostAnnounces

Next == server_loop \/ \E n \in Node : initMain(n)

Spec == Init /\ [][Next]_vars

\* Every node is switched on, and the init tasks and the host PC keep running.
FairSpec == Spec /\ WF_vars(server_loop) /\ \A n \in Node : WF_vars(initMain(n))

-----------------------------------------------------------------------------
(* Properties.                                                             *)

\* When the host PC announces that all connections are established, every node
\* has all its connections and runs its tasks, also when a node that failed to
\* connect went on without a connection.
AnnouncedMeansRunning ==
  host_pc = "running" =>
    \A n \in Node :
      /\ init_pc[n] = "running"
      /\ {node_conn[n][i] : i \in DOMAIN node_conn[n]} = Connections(n)

\* An element that is up can already reach everything ahead of it, unless one
\* of the connections to the elements behind it is missing.
AheadIsRunning ==
  \A n \in Node \ connect_failed :
    init_pc[n] = "running" => \A m \in next_nodes(n) \ {TAIL_ID} : init_pc[m] = "running"

\* The system starts, unless a node failed to connect.
EverybodyStarts == <>(host_pc = "running" \/ connect_failed # {})
=============================================================================
