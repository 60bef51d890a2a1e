-------------------------- MODULE DiagnosticsProofs --------------------------
(***************************************************************************)
(* For any number of neighbours, whichever of them are late, swallow pings,*)
(* fall silent or disconnect: the types, that a round of pings that is     *)
(* called a success is one, and that a failure has a cause.                *)
(***************************************************************************)
EXTENDS Diagnostics, TLAPS, FiniteSetTheorems

\* One round at a time: the control task waits for the verdict, and what a
\* round counts is reset before the next one.
OneRound ==
  /\ diag_pc # "none" \/ diag_ended => flagDiagnOn
  /\ diag_ended => diag_pc = "none"
  /\ ping_status \in {"STARTING", "ACTIVE"} => diag_pc = "waiting"
  /\ diag_pc = "begin" => ping_status = "NOT_ACTIVE"
  /\ ping_success => ping_status = "ACTIVE"
  /\ ping_status \in {"NOT_ACTIVE", "STARTING"} => ping_answers = 0

\* Neighbours whose ping or answer is under way.
Pending == {k \in Neighbour : req[k] + ack[k] > 0}

AtMostOneEach == \A k \in Neighbour : req[k] + ack[k] <= 1

\* The node will fail safe as soon as the control task looks at the verdict.
Failing == (diag_pc = "report" /\ in_ping_fail_safe) \/ (diag_ended /\ ~diag_success)

\* No connection was lost, and the node is in service.
InService == ~ping_fail_safe /\ node_conn = Neighbour

\* A round starts with nothing under way, unless the node is about to fail;
\* each neighbour then accounts for at most one ping or answer.
AnswersAreOfThisRound ==
  InService =>
    /\ ping_status # "ACTIVE" /\ ~Failing => Pending = {}
    /\ ping_status = "ACTIVE" =>
         /\ AtMostOneEach
         /\ ping_answers + Cardinality(Pending) <= Cardinality(Neighbour)
         /\ ping_success <=> ping_answers = Cardinality(Neighbour)

NobodyMissed == missed = {} /\ \A k \in Neighbour : peer[k] = "up"

\* And for exactly one as long as nobody was late, lost or silent.
EveryAnswerArrives ==
  NobodyMissed =>
    /\ InService /\ ~Failing
    /\ ping_status = "ACTIVE" =>
         ping_answers + Cardinality(Pending) = Cardinality(Neighbour)

Inv == DiagTypeOK /\ OneRound /\ AnswersAreOfThisRound /\ EveryAnswerArrives

-----------------------------------------------------------------------------

LEMMA NeighbourCount ==
  /\ IsFiniteSet(Neighbour) /\ Cardinality(Neighbour) \in Nat /\ Cardinality(Neighbour) > 0
<1>1. IsFiniteSet(Neighbour) /\ Neighbour # {}
  BY DiagnosticsAssumption DEF DiagnosticsAssumption
<1> QED BY <1>1, FS_CardinalityType, FS_EmptySet

LEMMA CountOfSome ==
  ASSUME NEW S \in SUBSET Neighbour
  PROVE  /\ IsFiniteSet(S) /\ Cardinality(S) \in Nat
         /\ Cardinality(S) <= Cardinality(Neighbour)
         /\ Cardinality(S) = 0 <=> S = {}
<1>1. IsFiniteSet(S) /\ Cardinality(S) <= Cardinality(Neighbour)
  BY NeighbourCount, FS_Subset
<1> QED BY <1>1, FS_CardinalityType, FS_EmptySet

\* Once all have answered there is nothing under way, and the reverse.
LEMMA CompleteMeansNothingPending ==
  ASSUME DiagTypeOK, AnswersAreOfThisRound, InService, ping_status = "ACTIVE", ping_success
  PROVE  Pending = {}
<1>1. Pending \in SUBSET Neighbour BY DEF Pending
<1>2. /\ ping_answers \in Nat /\ ping_answers = Cardinality(Neighbour)
      /\ ping_answers + Cardinality(Pending) <= Cardinality(Neighbour)
  BY DEF DiagTypeOK, AnswersAreOfThisRound
<1> QED BY <1>1, <1>2, CountOfSome, NeighbourCount

LEMMA InitEstablishesInv == Init => Inv
<1> SUFFICES ASSUME Init PROVE Inv OBVIOUS
<1>1. DiagTypeOK BY DEF Init, DiagTypeOK
<1>2. OneRound BY DEF Init, OneRound
<1>3. Pending = {} BY DEF Init, Pending
<1>4. AnswersAreOfThisRound BY <1>3 DEF Init, AnswersAreOfThisRound
<1>5. EveryAnswerArrives BY DEF Init, EveryAnswerArrives, InService, Failing
<1> QED BY <1>1, <1>2, <1>4, <1>5 DEF Inv

\* The control task and the verdict.
LEMMA VerdictKeepsInv ==
  ASSUME Inv, StartDiagn \/ CheckVerdict \/ WriteVerdict
  PROVE  Inv'
<1>1. UNCHANGED <<ping, network>> BY DEF StartDiagn, CheckVerdict, WriteVerdict, ping, network
<1>2. Pending' = Pending /\ (AtMostOneEach <=> AtMostOneEach')
  BY <1>1 DEF network, Pending, AtMostOneEach
<1>3. DiagTypeOK'
  BY <1>1 DEF Inv, DiagTypeOK, StartDiagn, CheckVerdict, WriteVerdict, ping, network, verdict
<1>4. OneRound'
  BY <1>1 DEF Inv, DiagTypeOK, OneRound, StartDiagn, CheckVerdict, WriteVerdict, ping, network,
              verdict
<1>5. InService' => InService /\ (Failing => Failing')
  BY <1>1 DEF Inv, DiagTypeOK, OneRound, InService, Failing, StartDiagn, CheckVerdict,
              WriteVerdict, network, verdict
<1>6. AnswersAreOfThisRound'
  BY <1>1, <1>2, <1>5 DEF Inv, AnswersAreOfThisRound, ping
<1>7. EveryAnswerArrives'
  BY <1>1, <1>2, <1>5 DEF Inv, EveryAnswerArrives, NobodyMissed, InService, Failing, StartDiagn,
              CheckVerdict, WriteVerdict, OneRound, ping, network, verdict
<1> QED BY <1>3, <1>4, <1>6, <1>7 DEF Inv

LEMMA StartPingKeepsInv ==
  ASSUME Inv, StartPing
  PROVE  Inv'
<1>1. UNCHANGED <<network, verdict>> BY DEF StartPing
<1>2. Pending' = Pending BY <1>1 DEF network, Pending
<1>3. DiagTypeOK' BY DEF Inv, DiagTypeOK, StartPing, network, verdict
<1>4. OneRound' BY DEF Inv, OneRound, StartPing, network, verdict
<1>5. AnswersAreOfThisRound'
  BY <1>2 DEF Inv, AnswersAreOfThisRound, InService, Failing, OneRound, StartPing, network, verdict
<1>6. EveryAnswerArrives'
  BY <1>2 DEF Inv, EveryAnswerArrives, NobodyMissed, InService, Failing, StartPing, network, verdict
<1> QED BY <1>3, <1>4, <1>5, <1>6 DEF Inv

\* The round is a failure unless all have answered, and then nothing is left.
LEMMA StopPingKeepsInv ==
  ASSUME Inv, StopPing
  PROVE  Inv'
<1>1. UNCHANGED <<node_conn, peer, req, ack, ping_fail_safe, diag_ended, diag_success>>
  BY DEF StopPing
<1>2. Pending' = Pending BY <1>1 DEF Pending
<1>3. ping_status = "ACTIVE" BY DEF StopPing, TwoSeconds
<1>4. DiagTypeOK' BY <1>1 DEF Inv, DiagTypeOK, StopPing, Expected
<1>5. OneRound' BY DEF Inv, OneRound, StopPing
<1>6. InService /\ ping_success => Pending = {}
  BY <1>3, CompleteMeansNothingPending DEF Inv
<1>7. AnswersAreOfThisRound'
  <2>1. ~Failing' => ping_success BY Zenon DEF Failing, StopPing
  <2>2. InService' => InService BY <1>1 DEF InService
  <2>3. ping_status' # "ACTIVE" BY DEF StopPing
  <2> QED BY <1>2, <1>6, <2>1, <2>2, <2>3 DEF AnswersAreOfThisRound
<1>8. ASSUME NobodyMissed' PROVE InService' /\ ~Failing'
  <2>1. NobodyMissed /\ Expected = {} BY <1>1, <1>8 DEF NobodyMissed, StopPing
  <2>2. InService /\ ~Failing BY <2>1 DEF Inv, EveryAnswerArrives
  <2>3. Pending = {} BY <2>1, <2>2 DEF NobodyMissed, InService, Expected, Pending
  <2>4. ping_answers = Cardinality(Neighbour)
    BY <1>3, <2>1, <2>3, FS_EmptySet, NeighbourCount
    DEF Inv, EveryAnswerArrives, DiagTypeOK
  <2>5. ping_success BY <1>3, <2>2, <2>4 DEF Inv, AnswersAreOfThisRound
  <2>6. ~in_ping_fail_safe' BY <2>5, Zenon DEF StopPing
  <2>7. ~diag_ended BY DEF StopPing, Inv, OneRound
  <2> QED BY <1>1, <2>2, <2>6, <2>7 DEF InService, Failing
<1>9. EveryAnswerArrives' BY <1>8 DEF EveryAnswerArrives, StopPing
<1> QED BY <1>4, <1>5, <1>7, <1>9 DEF Inv

\* Everybody is sent one ping; a neighbour that has closed is not.
LEMMA SendPingsKeepsInv ==
  ASSUME Inv, SendPings
  PROVE  Inv'
<1>1. UNCHANGED <<verdict, diag_pc, ping_fail_safe, node_conn, peer, ack, missed>>
  BY DEF SendPings
<1>2. /\ ping_status = "STARTING" /\ diag_pc = "waiting" /\ ~diag_ended
      /\ ping_answers = 0 /\ ~ping_success
  BY DEF SendPings, Inv, OneRound
<1>3. DiagTypeOK' BY <1>1 DEF Inv, DiagTypeOK, SendPings, verdict
<1>4. OneRound' BY <1>1, <1>2 DEF Inv, OneRound, SendPings, verdict
<1>5. Pending' \in SUBSET Neighbour BY DEF Pending
<1>6. ASSUME InService PROVE \A k \in Neighbour : req[k] = 0 /\ ack[k] = 0
  <2>1. Pending = {} BY <1>2, <1>6 DEF Inv, AnswersAreOfThisRound, Failing
  <2> QED BY <2>1 DEF Pending, Inv, DiagTypeOK
<1>7. AnswersAreOfThisRound'
  <2> SUFFICES ASSUME InService' PROVE AnswersAreOfThisRound' BY DEF AnswersAreOfThisRound
  <2>1. InService BY <1>1 DEF InService
  <2>2. AtMostOneEach' BY <1>6, <2>1 DEF AtMostOneEach, SendPings
  <2>3. ping_answers' = 0 /\ ~ping_success' /\ ping_status' = "ACTIVE" BY <1>2 DEF SendPings
  <2> QED BY <2>2, <2>3, <1>5, CountOfSome, NeighbourCount DEF AnswersAreOfThisRound
<1>8. EveryAnswerArrives'
  <2> SUFFICES ASSUME NobodyMissed' PROVE EveryAnswerArrives' BY DEF EveryAnswerArrives
  <2>1. NobodyMissed BY <1>1 DEF NobodyMissed
  <2>2. InService BY <2>1 DEF Inv, EveryAnswerArrives
  <2>3. InService' /\ ~Failing' BY <1>1, <1>2, <2>2 DEF InService, Failing, verdict
  <2>4. Pending' = Neighbour BY <1>1, <1>6, <2>1, <2>2 DEF Pending, SendPings, NobodyMissed, InService
  <2> QED BY <1>2, <2>3, <2>4, NeighbourCount DEF EveryAnswerArrives, SendPings
<1> QED BY <1>3, <1>4, <1>7, <1>8 DEF Inv

LEMMA EndPingsKeepsInv ==
  ASSUME Inv, EndPings
  PROVE  Inv'
<1>1. UNCHANGED <<network, verdict, diag_pc, ping_fail_safe, ping_success>> BY DEF EndPings
<1>2. Pending' = Pending BY <1>1 DEF network, Pending
<1>3. DiagTypeOK' BY DEF Inv, DiagTypeOK, EndPings, network, verdict
<1>4. OneRound' BY DEF Inv, OneRound, EndPings, verdict
<1>5. AnswersAreOfThisRound'
  BY <1>1, <1>2 DEF Inv, AnswersAreOfThisRound, InService, Failing, EndPings, network, verdict
<1>6. EveryAnswerArrives'
  BY <1>1, <1>2 DEF Inv, EveryAnswerArrives, NobodyMissed, InService, Failing, EndPings, network,
     verdict
<1> QED BY <1>3, <1>4, <1>5, <1>6 DEF Inv

\* An answer is one of this round's, so that it cannot be one too many.
LEMMA HandlePingAckKeepsInv ==
  ASSUME Inv, NEW k \in Neighbour, HandlePingAck(k)
  PROVE  Inv'
<1>1. /\ UNCHANGED <<flagDiagnOn, ping_fail_safe, diag_pc, verdict, node_conn, peer, req, missed>>
      /\ k \in node_conn /\ ack[k] > 0 /\ ack' = [ack EXCEPT ![k] = @ - 1]
  BY DEF HandlePingAck
<1>2. DiagTypeOK
  BY DEF Inv
<1>3. ack' \in [Neighbour -> Nat] BY <1>1, <1>2 DEF DiagTypeOK
<1>4. DiagTypeOK'
  <2>1. AllAnswered(ping_answers') \in BOOLEAN BY DEF AllAnswered
  <2> QED BY <1>1, <1>2, <1>3, <2>1 DEF DiagTypeOK, HandlePingAck, ping, verdict
<1>5. OneRound'
  BY <1>1 DEF Inv, OneRound, HandlePingAck, ping, verdict
<1>6. (InService' <=> InService) /\ (Failing' <=> Failing) /\ (NobodyMissed' <=> NobodyMissed)
  BY <1>1 DEF InService, Failing, NobodyMissed, verdict
<1>7. Pending' \subseteq Pending /\ k \in Pending
  BY <1>1, <1>2, <1>3 DEF Pending, DiagTypeOK
<1>8. CASE InService /\ ping_status = "ACTIVE"
  <2>1. /\ AtMostOneEach
        /\ ping_answers + Cardinality(Pending) <= Cardinality(Neighbour)
        /\ ping_success <=> ping_answers = Cardinality(Neighbour)
    BY <1>8 DEF Inv, AnswersAreOfThisRound
  <2>2. Pending \in SUBSET Neighbour /\ Pending' = Pending \ {k}
    BY <1>1, <1>2, <2>1 DEF Pending, AtMostOneEach, DiagTypeOK
  <2>3. Cardinality(Pending') = Cardinality(Pending) - 1 /\ Cardinality(Pending) > 0
    BY <1>7, <2>2, CountOfSome, FS_RemoveElement
  <2>4. /\ ping_answers \in Nat /\ Cardinality(Pending) \in Nat
        /\ Cardinality(Neighbour) \in Nat
    BY <1>2, <2>2, CountOfSome, NeighbourCount DEF DiagTypeOK
  <2>5. ~ping_success BY <2>1, <2>3, <2>4
  <2>6. /\ ping_answers' = ping_answers + 1 /\ ping_status' = "ACTIVE"
        /\ ping_success' <=> ping_answers' = Cardinality(Neighbour)
    BY <1>8, <2>5 DEF HandlePingAck, AllAnswered, total_conn, InService
  <2>7. AtMostOneEach' BY <1>1, <1>2, <2>1 DEF AtMostOneEach, DiagTypeOK
  <2>8. AnswersAreOfThisRound'
    BY <2>1, <2>3, <2>4, <2>6, <2>7 DEF AnswersAreOfThisRound
  <2>9. EveryAnswerArrives'
    BY <1>6, <1>8, <2>3, <2>4, <2>6 DEF Inv, EveryAnswerArrives
  <2> QED BY <1>4, <1>5, <2>8, <2>9 DEF Inv
<1>9. CASE ~(InService /\ ping_status = "ACTIVE")
  <2>1. ping_status' = "ACTIVE" => ping_status = "ACTIVE" BY DEF HandlePingAck, ping
  <2>2. ping_status = "ACTIVE" => ping_status' = "ACTIVE" BY DEF HandlePingAck, ping
  <2>3. AnswersAreOfThisRound'
    BY <1>6, <1>7, <1>9, <2>1, <2>2 DEF Inv, AnswersAreOfThisRound
  <2>4. EveryAnswerArrives'
    BY <1>6, <1>9, <2>1 DEF Inv, EveryAnswerArrives
  <2> QED BY <1>4, <1>5, <2>3, <2>4 DEF Inv
<1> QED BY <1>8, <1>9

\* A neighbour that is lost, does not answer or ends changes the guarantees; one
\* that answers changes a ping for an answer.
LEMMA NeighbourKeepsInv ==
  ASSUME Inv, NEW k \in Neighbour,
         Disconnection(k) \/ AnswerPing(k) \/ SwallowPing(k) \/ Hang(k) \/ Close(k)
  PROVE  Inv'
<1>1. UNCHANGED <<flagDiagnOn, ping_fail_safe, diag_pc, verdict, ping>>
  BY DEF Disconnection, AnswerPing, SwallowPing, Hang, Close
<1>2. DiagTypeOK BY DEF Inv
<1>3. DiagTypeOK'
  <2>1. /\ req' \in [Neighbour -> Nat] /\ ack' \in [Neighbour -> Nat]
        /\ peer' \in [Neighbour -> {"up", "silent", "closed"}]
    BY <1>2 DEF DiagTypeOK, Disconnection, AnswerPing, SwallowPing, Hang, Close
  <2>2. node_conn' \subseteq Neighbour /\ missed' \subseteq Neighbour
    BY <1>2 DEF DiagTypeOK, Disconnection, AnswerPing, SwallowPing, Hang, Close
  <2> QED BY <1>1, <1>2, <2>1, <2>2 DEF DiagTypeOK, ping, verdict
<1>4. OneRound' BY <1>1 DEF Inv, OneRound, ping, verdict
<1>5. \A j \in Neighbour : req'[j] + ack'[j] <= req[j] + ack[j]
  BY <1>2 DEF DiagTypeOK, Disconnection, AnswerPing, SwallowPing, Hang, Close
<1>6. /\ Pending' \subseteq Pending /\ Pending \in SUBSET Neighbour
      /\ AtMostOneEach => AtMostOneEach'
  <2>1. \A j \in Neighbour : /\ req[j] + ack[j] \in Nat
                              /\ req'[j] + ack'[j] \in Nat
    BY <1>2, <1>3 DEF DiagTypeOK
  <2> QED BY <1>5, <2>1 DEF Pending, AtMostOneEach
<1>7. Cardinality(Pending') <= Cardinality(Pending)
  BY <1>6, CountOfSome, FS_Subset
<1>8. InService' => InService
  BY <1>1, <1>2 DEF InService, DiagTypeOK, Disconnection, AnswerPing, SwallowPing, Hang, Close
<1>9. Failing' <=> Failing BY <1>1 DEF Failing, verdict
<1>10. AnswersAreOfThisRound'
  <2>1. /\ ping_answers \in Nat /\ Cardinality(Pending) \in Nat /\ Cardinality(Pending') \in Nat
        /\ Cardinality(Neighbour) \in Nat
    BY <1>2, <1>6, CountOfSome, NeighbourCount DEF DiagTypeOK
  <2>2. ping_status' = ping_status /\ ping_answers' = ping_answers /\ ping_success' = ping_success
    BY <1>1 DEF ping
  <2> QED BY <1>6, <1>7, <1>8, <1>9, <2>1, <2>2 DEF Inv, AnswersAreOfThisRound
<1>11. EveryAnswerArrives'
  <2> SUFFICES ASSUME NobodyMissed' PROVE EveryAnswerArrives' BY DEF EveryAnswerArrives
  <2>1. AnswerPing(k)
    BY <1>2 DEF NobodyMissed, DiagTypeOK, Disconnection, AnswerPing, SwallowPing, Hang, Close
  <2>2. NobodyMissed /\ (InService' <=> InService)
    BY <1>1, <2>1 DEF NobodyMissed, InService, AnswerPing
  <2>3. \A j \in Neighbour : req'[j] + ack'[j] = req[j] + ack[j]
    BY <1>2, <2>1 DEF DiagTypeOK, AnswerPing
  <2>4. Pending' = Pending BY <2>3 DEF Pending
  <2> QED BY <1>1, <1>9, <2>2, <2>4 DEF Inv, EveryAnswerArrives, ping
<1> QED BY <1>3, <1>4, <1>10, <1>11 DEF Inv

LEMMA InvHolds == Spec => []Inv
<1>1. ASSUME Inv, UNCHANGED vars PROVE Inv'
  <2>1. Pending' = Pending /\ (AtMostOneEach <=> AtMostOneEach')
    BY <1>1 DEF vars, network, Pending, AtMostOneEach
  <2> QED BY <1>1, <2>1 DEF vars, network, verdict, ping, Inv, DiagTypeOK, OneRound,
                            AnswersAreOfThisRound, EveryAnswerArrives, InService, Failing, NobodyMissed
<1>2. ASSUME Inv, Next PROVE Inv'
  <2>1. CASE control_task BY <1>2, <2>1, VerdictKeepsInv DEF control_task
  <2>2. CASE diagnosticsMain
    BY <1>2, <2>2, VerdictKeepsInv, StartPingKeepsInv, StopPingKeepsInv DEF diagnosticsMain
  <2>3. CASE checkDiag BY <1>2, <2>3, SendPingsKeepsInv, EndPingsKeepsInv DEF checkDiag
  <2>4. CASE \E k \in Neighbour : HandlePingAck(k) BY <1>2, <2>4, HandlePingAckKeepsInv
  <2>5. CASE \E k \in Neighbour : \/ Disconnection(k) \/ AnswerPing(k)
                                    \/ SwallowPing(k) \/ Hang(k) \/ Close(k)
    BY <1>2, <2>5, NeighbourKeepsInv
  <2> QED BY <1>2, <2>1, <2>2, <2>3, <2>4, <2>5 DEF Next
<1> QED BY <1>1, <1>2, InitEstablishesInv, PTL DEF Spec

-----------------------------------------------------------------------------

\* Every variable keeps its type; the connections are among the neighbours.
THEOREM DiagTypeCorrect == Spec => []DiagTypeOK
<1>1. Inv => DiagTypeOK BY DEF Inv
<1> QED BY <1>1, InvHolds, PTL

\* A success is a success of this round and of every neighbour, however late
\* answers of earlier rounds are (wifiTask.c 543-577, diagnosticsTask.c 26-52).
THEOREM SuccessesAreGenuine == Spec => []SuccessIsGenuine
<1>1. Inv => SuccessIsGenuine
  <2> SUFFICES ASSUME Inv, ping_success, InService
               PROVE  ping_status = "ACTIVE" /\ \A k \in Neighbour : req[k] = 0 /\ ack[k] = 0
    BY DEF SuccessIsGenuine, InService
  <2>1. ping_status = "ACTIVE" BY DEF Inv, OneRound
  <2>2. Pending = {} BY <2>1, CompleteMeansNothingPending DEF Inv
  <2> QED BY <2>1, <2>2 DEF Pending, Inv, DiagTypeOK
<1> QED BY <1>1, InvHolds, PTL

\* A node leaves service only if some neighbour was late, silent or gone, or did
\* not answer: the counters of its tasks alone never make it fail.
THEOREM EveryFailureHasACause == Spec => []FailureHasACause
<1>1. Inv => FailureHasACause
  BY DEF Inv, EveryAnswerArrives, NobodyMissed, InService, FailureHasACause
<1> QED BY <1>1, InvHolds, PTL
=============================================================================
