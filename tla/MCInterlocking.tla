--------------------------- MODULE MCInterlocking ---------------------------
(***************************************************************************)
(* Instances of Interlocking for TLC.  The railway is the one of host.py's *)
(* graph_testing3 and of the README: routes <<1, 2, 3>> and <<4, 2, 5>>    *)
(* share the switch 2.  Trains 0 and 7 are two of the host ids an operator *)
(* may type; -1 is no train.                                               *)
(***************************************************************************)
EXTENDS Interlocking, Integers, TLC

MCNodesList == 1 :> <<1, 2, 3>> @@ 2 :> <<4, 2, 5>>

Type(to, command, train, route) ==
  [to |-> to, msg |-> [command |-> command, host_id |-> train, route_id |-> route]]

\* The automatic test: each SENSOR_OFF is answered by a request for the other
\* route, ROUTES_TO_TEST times per route.
MCNextTest == 1 :> Type(4, "REQ", 0, 2) @@ 4 :> Type(1, "REQ", 0, 1)

MCOneTestEach == 1 :> 1 @@ 4 :> 1

MCMinusOne == -1
MCTail == -9999

Operated(commands, fails) ==
  [commands |-> commands, AUTOMATIC_TESTING_ROUTES |-> FALSE, SIM_SENSOR |-> TRUE,
   PositioningMayFail |-> fails, PingFailNodes |-> {}]

\* The automatic test, with simulated sensors.
AutoTest == [Operated({Type(1, "REQ", 0, 1)}, FALSE) EXCEPT !.AUTOMATIC_TESTING_ROUTES = TRUE]

\* Two trains on conflicting routes, while the switch may fail.
TwoTrains == Operated({Type(1, "REQ", 0, 1), Type(4, "REQ", 7, 2)}, TRUE)

\* Two trains on the same route.
SameRoute == Operated({Type(1, "REQ", 0, 1), Type(1, "REQ", 7, 1)}, FALSE)

\* The same, on buttons.
Buttons == [SameRoute EXCEPT !.SIM_SENSOR = FALSE]

\* One train that also asks node 1 for a route it is not on.
Misaddressed == Operated({Type(1, "REQ", 0, 1), Type(1, "REQ", 0, 2)}, FALSE)

\* One train that asks for both routes.
BothRoutes == Operated({Type(1, "REQ", 0, 1), Type(4, "REQ", 0, 2)}, FALSE)

\* A request that is withdrawn, while the switch may fail.
Withdrawn == Operated({Type(1, "REQ", 0, 1), Type(1, "NOT_OK", 0, 1)}, TRUE)

\* The same, and the diagnostics of the switch may fail as well.
PingFail == [Withdrawn EXCEPT !.PingFailNodes = {2}]

\* One train, while the diagnostics of the elements at the ends of its route may
\* fail.
EndsFail == [Operated({Type(1, "REQ", 0, 1)}, FALSE) EXCEPT !.PingFailNodes = {1, 3}]

AllCommands ==
  {Type(1, "REQ", 0, 1), Type(4, "REQ", 7, 2), Type(4, "REQ", 0, 2), Type(1, "REQ", 7, 1),
   Type(1, "REQ", 0, 2), Type(1, "NOT_OK", 0, 1)}

Trains == {AutoTest, Buttons, TwoTrains, SameRoute, Misaddressed, Withdrawn, PingFail, EndsFail}
OnlyBothRoutes == {BothRoutes}
OnlyWithdrawn == {[Withdrawn EXCEPT !.PositioningMayFail = FALSE]}
=============================================================================
