------------------------- MODULE RouteLockingProofs -------------------------
(***************************************************************************)
(* For every railway, hand-over-hand locking keeps the way ahead of every  *)
(* locked element locked, and never locks two conflicting routes.          *)
(***************************************************************************)
EXTENDS RouteLocking, TLAPS

LockInv == LockTypeOK /\ WayAheadLocked

\* An element occurs once on a route, so its place there is the place at
\* which it is found.
LEMMA IndexOfIsPlace ==
  ASSUME NEW r \in Route, NEW i \in 1 .. Len(nodes_list[r])
  PROVE  IndexOf(nodes_list[r][i], r) = i
<1>1. \A k \in 1 .. Len(nodes_list[r]) :
        nodes_list[r][k] = nodes_list[r][i] => k = i
  BY RoutesAssumption
<1>2. IndexOf(nodes_list[r][i], r) \in 1 .. Len(nodes_list[r])
      /\ nodes_list[r][IndexOf(nodes_list[r][i], r)] = nodes_list[r][i]
  BY DEF IndexOf
<1> QED BY <1>1, <1>2

\* The neighbours of an element are the ones beside it in the list.
LEMMA Neighbours ==
  ASSUME NEW r \in Route, NEW i \in 1 .. Len(nodes_list[r])
  PROVE  /\ nodes_list[r][i] \in Node
         /\ Len(nodes_list[r]) \in Nat
         /\ i + 1 \in 1 .. Len(nodes_list[r]) =>
              rasp_id_next(nodes_list[r][i], r) = nodes_list[r][i + 1]
         /\ i - 1 \in 1 .. Len(nodes_list[r]) =>
              rasp_id_prev(nodes_list[r][i], r) = nodes_list[r][i - 1]
<1>1. nodes_list[r] \in Seq(Node) BY RoutesAssumption
<1>2. IndexOf(nodes_list[r][i], r) = i BY IndexOfIsPlace
<1> QED BY <1>1, <1>2 DEF rasp_id_next, rasp_id_prev

\* Agreeing to a route keeps the way ahead locked.
LEMMA LockKeepsInv ==
  ASSUME LockInv, NEW n \in Node, NEW r \in Route, Lock(n, r)
  PROVE  LockInv'
<1>1. LockTypeOK' BY DEF LockInv, LockTypeOK, Lock
<1>2. WayAheadLocked'
  <2> SUFFICES ASSUME NEW q \in Route,
                      NEW i \in 1 .. Len(nodes_list[q]), NEW j \in 1 .. Len(nodes_list[q]),
                      i <= j, lock'[nodes_list[q][i]] = q
               PROVE  lock'[nodes_list[q][j]] = q
    BY DEF WayAheadLocked
  <2> DEFINE a == nodes_list[q][i]
             b == nodes_list[q][j]
  <2>1. a \in Node /\ b \in Node /\ Len(nodes_list[q]) \in Nat BY Neighbours
  <2>2. \A m \in Node : lock'[m] = IF m = n THEN r ELSE lock[m]
    BY DEF LockInv, LockTypeOK, Lock
  <2>3. CASE a = n
    <3>1. q = r BY <2>1, <2>2, <2>3
    <3>2. CASE j = i BY <3>2, <2>3, <2>2, <3>1, <2>1
    <3>3. CASE j # i
      <4>1. i + 1 \in 1 .. Len(nodes_list[q]) /\ i + 1 <= j
        BY <3>3, <2>1
      <4>2. rasp_id_next(a, q) = nodes_list[q][i + 1] BY <4>1, Neighbours
      <4>3. nodes_list[q][i + 1] \in Node BY <4>1, Neighbours
      <4>4. lock[nodes_list[q][i + 1]] = q
        BY <4>2, <4>3, <3>1, <2>3, RoutesAssumption DEF Lock
      <4>5. lock[b] = q BY <4>1, <4>4 DEF LockInv, WayAheadLocked
      <4>6. b # n BY <4>5, RouteLockingAssumption DEF Lock
      <4> QED BY <4>5, <4>6, <2>1, <2>2
    <3> QED BY <3>2, <3>3
  <2>4. CASE a # n
    <3>1. lock[a] = q BY <2>4, <2>1, <2>2
    <3>2. lock[b] = q BY <3>1 DEF LockInv, WayAheadLocked
    <3>3. b # n BY <3>2, RouteLockingAssumption DEF Lock
    <3> QED BY <3>2, <3>3, <2>1, <2>2
  <2> QED BY <2>3, <2>4
<1> QED BY <1>1, <1>2 DEF LockInv

\* So does releasing an element that nobody can reach from behind.
LEMMA UnlockKeepsInv ==
  ASSUME LockInv, NEW n \in Node, NEW r \in Route, Unlock(n, r)
  PROVE  LockInv'
<1>1. LockTypeOK' BY DEF LockInv, LockTypeOK, Unlock
<1>2. WayAheadLocked'
  <2> SUFFICES ASSUME NEW q \in Route,
                      NEW i \in 1 .. Len(nodes_list[q]), NEW j \in 1 .. Len(nodes_list[q]),
                      i <= j, lock'[nodes_list[q][i]] = q
               PROVE  lock'[nodes_list[q][j]] = q
    BY DEF WayAheadLocked
  <2> DEFINE a == nodes_list[q][i]
             b == nodes_list[q][j]
  <2>1. a \in Node /\ b \in Node /\ Len(nodes_list[q]) \in Nat BY Neighbours
  <2>2. \A m \in Node : lock'[m] = IF m = n THEN Free ELSE lock[m]
    BY DEF LockInv, LockTypeOK, Unlock
  <2>3. a # n /\ lock[a] = q BY <2>1, <2>2, RouteLockingAssumption
  <2>4. lock[b] = q BY <2>3 DEF LockInv, WayAheadLocked
  <2>5. b # n
    <3> SUFFICES ASSUME b = n PROVE FALSE OBVIOUS
    <3>1. q = r BY <2>4 DEF Unlock
    <3>2. j - 1 \in 1 .. Len(nodes_list[q]) /\ i <= j - 1
      BY <2>1, <2>3
    <3>3. rasp_id_prev(b, q) = nodes_list[q][j - 1] BY <3>2, Neighbours
    <3>4. nodes_list[q][j - 1] \in Node BY <3>2, Neighbours
    <3>5. lock[nodes_list[q][j - 1]] = q BY <3>2, <2>3 DEF LockInv, WayAheadLocked
    <3> QED BY <3>1, <3>3, <3>4, <3>5, RoutesAssumption DEF Unlock
  <2> QED BY <2>4, <2>5, <2>1, <2>2
<1> QED BY <1>1, <1>2 DEF LockInv

\* The way ahead of a locked element is locked for the same route.
THEOREM WayAheadIsLocked == LockSpec => [](LockTypeOK /\ WayAheadLocked)
<1>1. LockInit => LockInv
  <2> SUFFICES ASSUME LockInit PROVE LockInv OBVIOUS
  <2>1. LockTypeOK BY DEF LockInit, LockTypeOK
  <2>2. \A r \in Route : \A i \in 1 .. Len(nodes_list[r]) : lock[nodes_list[r][i]] # r
    BY Neighbours, RouteLockingAssumption DEF LockInit
  <2> QED BY <2>1, <2>2 DEF LockInv, WayAheadLocked
<1>2. LockInv /\ [LockNext]_lock => LockInv'
  <2> SUFFICES ASSUME LockInv, [LockNext]_lock PROVE LockInv' OBVIOUS
  <2>1. CASE LockNext BY <2>1, LockKeepsInv, UnlockKeepsInv DEF LockNext
  <2>2. CASE UNCHANGED lock BY <2>2 DEF LockInv, LockTypeOK, WayAheadLocked
  <2> QED BY <2>1, <2>2
<1>3. LockInv => LockTypeOK /\ WayAheadLocked BY DEF LockInv
<1> QED BY <1>1, <1>2, <1>3, PTL DEF LockSpec

\* An element is free or locked for one of its routes; the first half of
\* WayAheadIsLocked, for readers who look for it by itself.
THEOREM LockTypeCorrect == LockSpec => []LockTypeOK
BY WayAheadIsLocked, PTL

\* Of two routes with an element in common at most one is locked as a whole:
\* two trains are never let into conflicting routes.
THEOREM ConflictingRoutesExcluded == LockSpec => []NoConflictingRoutes
<1>1. WayAheadLocked => NoConflictingRoutes
  <2> SUFFICES ASSUME WayAheadLocked, NEW r \in Route, NEW s \in Route, r # s,
                      NEW n \in Elements(r) \intersect Elements(s),
                      lock[nodes_list[r][1]] = r, lock[nodes_list[s][1]] = s
               PROVE  FALSE
    BY DEF NoConflictingRoutes
  <2>1. \A q \in Route : nodes_list[q] \in Seq(Node) /\ nodes_list[q] # << >>
    BY RoutesAssumption
  <2>2. \A q \in Route : Len(nodes_list[q]) \in Nat /\ 1 \in 1 .. Len(nodes_list[q])
    BY <2>1
  <2>3. \A q \in Route : n \in Elements(q) /\ lock[nodes_list[q][1]] = q => lock[n] = q
    BY <2>2 DEF WayAheadLocked, Elements
  <2> QED BY <2>3
<1> QED BY <1>1, WayAheadIsLocked, PTL
=============================================================================
