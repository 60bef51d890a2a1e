---------------------------- MODULE RouteLocking ----------------------------
(***************************************************************************)
(* What the commit protocol promises to a train, without its messages: the *)
(* elements of a route are locked from the tail to the head, so that       *)
(* whoever sees an element locked knows that everything ahead of it is,    *)
(* and they are unlocked from the head on, behind the train or when the    *)
(* reservation is abandoned.                                               *)
(***************************************************************************)
EXTENDS Routes

CONSTANT Free    \* the route of an element that is not locked

ASSUME RouteLockingAssumption == Free \notin Route

VARIABLE lock    \* lock[n]: the route element n is locked for, or Free

LockTypeOK == lock \in [Node -> Route \union {Free}]

LockInit == lock = [n \in Node |-> Free]

\* Faulty: agrees without asking what is ahead.
LockAlone(n, r) ==
  /\ r \in node_routes(n)
  /\ lock[n] = Free
  /\ lock' = [lock EXCEPT ![n] = r]

\* Element n agrees to route r: everything ahead of it has agreed.
Lock(n, r) ==
  /\ r \in node_routes(n)
  /\ lock[n] = Free
  /\ rasp_id_next(n, r) # TAIL_ID => lock[rasp_id_next(n, r)] = r
  /\ lock' = [lock EXCEPT ![n] = r]

\* Faulty: released although a train may still come from behind.
UnlockAlone(n, r) ==
  /\ r \in node_routes(n)
  /\ lock[n] = r
  /\ lock' = [lock EXCEPT ![n] = Free]

\* Faulty: released to the "no neighbour" value instead of the "no route" one.
UnlockToTail(n, r) ==
  /\ r \in node_routes(n)
  /\ lock[n] = r
  /\ rasp_id_prev(n, r) # HOST_ID => lock[rasp_id_prev(n, r)] # r
  /\ lock' = [lock EXCEPT ![n] = TAIL_ID]

\* Element n is released: no train can come from behind any more.
Unlock(n, r) ==
  /\ r \in node_routes(n)
  /\ lock[n] = r
  /\ rasp_id_prev(n, r) # HOST_ID => lock[rasp_id_prev(n, r)] # r
  /\ lock' = [lock EXCEPT ![n] = Free]

LockNext == \E n \in Node, r \in Route : Lock(n, r) \/ Unlock(n, r)

LockSpec == LockInit /\ [][LockNext]_lock

-----------------------------------------------------------------------------
\* A locked element has the rest of its route locked: a train that is let in
\* finds the way out of the route free.
WayAheadLocked ==
  \A r \in Route : \A i, j \in 1 .. Len(nodes_list[r]) :
     i <= j /\ lock[nodes_list[r][i]] = r => lock[nodes_list[r][j]] = r

\* Two routes with an element in common are never both locked from the head.
NoConflictingRoutes ==
  \A r, s \in Route :
     /\ r # s
     /\ Elements(r) \intersect Elements(s) # {}
     => ~(lock[nodes_list[r][1]] = r /\ lock[nodes_list[s][1]] = s)
=============================================================================
