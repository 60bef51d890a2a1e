----------------------------- MODULE Diagnostics -----------------------------
(***************************************************************************)
(* The diagnostics of one node: every DIAG_TIME seconds without messages   *)
(* its control task (controlTask.c) starts the diagnostics task            *)
(* (diagnosticsTask.c), which lets the communication task (wifiTask.c)     *)
(* ping all neighbours, waits two seconds for their answers and leaves its *)
(* verdict to the control task.  The three tasks share ping_status and the *)
(* counters under WIFI_DIAG_SEM, the verdict under CONTROL_DIAG_SEM.       *)
(*                                                                         *)
(* A neighbour is another node or the host PC.  It may be late, stop       *)
(* answering without closing its connection, or close it.                  *)
(***************************************************************************)
EXTENDS Naturals, FiniteSets

CONSTANTS
  Neighbour,       \* the other ends of the node's connections
  MayBeLate,       \* neighbours that may take more than two seconds
  MaySwallow,      \* neighbours that may read a ping without answering it
  MayHang,         \* neighbours that may fall silent for good
  MayDisconnect,   \* neighbours that may close their connection
  MayNotStart      \* whether the task may be refused when a round is due

ASSUME DiagnosticsAssumption ==
  /\ IsFiniteSet(Neighbour)
  /\ Neighbour # {}
  /\ MayBeLate \subseteq Neighbour
  /\ MaySwallow \subseteq Neighbour
  /\ MayHang \subseteq Neighbour
  /\ MayDisconnect \subseteq Neighbour
  /\ MayNotStart \in BOOLEAN

VARIABLES
  flagDiagnOn,      \* control task: a round of diagnostics is under way
  ping_fail_safe,   \* NODE_STATUS = PING_FAIL_SAFE
  diag_pc,          \* where the diagnostics task is, "none" when there is none
  in_ping_fail_safe,\* its verdict, before it is written
  diag_ended, diag_success,                 \* the verdict left to the control task
  ping_status, ping_answers, ping_success,  \* shared with the communication task
  WIFI_DIAG_SEM,    \* "free", or "wifi" when the communication task kept it
  node_conn,        \* the open connections, total_conn of them
  peer,             \* state of the neighbour at the other end
  req, ack,         \* PING_REQ and PING_ACK under way per neighbour
  missed            \* history: neighbours that once answered late or not at all

verdict == <<in_ping_fail_safe, diag_ended, diag_success>>
ping    == <<ping_status, ping_answers, ping_success, WIFI_DIAG_SEM>>
network == <<node_conn, peer, req, ack, missed>>

vars == <<flagDiagnOn, ping_fail_safe, diag_pc, verdict, ping, network>>

total_conn == Cardinality(node_conn)

DiagTypeOK ==
  /\ flagDiagnOn \in BOOLEAN /\ ping_fail_safe \in BOOLEAN
  /\ diag_pc \in {"none", "begin", "waiting", "report"}
  /\ in_ping_fail_safe \in BOOLEAN /\ diag_ended \in BOOLEAN /\ diag_success \in BOOLEAN
  /\ ping_status \in {"NOT_ACTIVE", "STARTING", "ACTIVE", "ENDING"}
  /\ ping_answers \in Nat /\ ping_success \in BOOLEAN
  /\ WIFI_DIAG_SEM \in {"free", "wifi"}
  /\ node_conn \subseteq Neighbour
  /\ peer \in [Neighbour -> {"up", "silent", "closed"}]
  /\ req \in [Neighbour -> Nat] /\ ack \in [Neighbour -> Nat]
  /\ missed \subseteq Neighbour

Init ==
  /\ flagDiagnOn = FALSE /\ ping_fail_safe = FALSE
  /\ diag_pc = "none" /\ in_ping_fail_safe = FALSE
  /\ diag_ended = FALSE /\ diag_success = FALSE
  /\ ping_status = "NOT_ACTIVE" /\ ping_answers = 0 /\ ping_success = FALSE
  /\ WIFI_DIAG_SEM = "free"
  /\ node_conn = Neighbour
  /\ peer = [k \in Neighbour |-> "up"]
  /\ req = [k \in Neighbour |-> 0] /\ ack = [k \in Neighbour |-> 0]
  /\ missed = {}

-----------------------------------------------------------------------------
(* The control task.                                                       *)

\* DIAG_TIME is over since the last round, and no message has arrived.  The
\* communication task has acknowledged the end of that round long before.
\* startDiagn starts no task when errno is not the one of a timeout any more; the
\* round counts as started all the same.
StartDiagn ==
  /\ ~flagDiagnOn
  /\ ping_status # "ENDING"
  /\ flagDiagnOn' = TRUE
  /\ \/ diag_pc' = "begin"
     \/ MayNotStart /\ UNCHANGED diag_pc
  /\ UNCHANGED <<ping_fail_safe, verdict, ping, network>>

\* The control task finds the verdict.
CheckVerdict ==
  /\ flagDiagnOn /\ diag_ended
  /\ ping_fail_safe' = (ping_fail_safe \/ ~diag_success)
  /\ diag_ended' = FALSE /\ diag_success' = FALSE
  /\ flagDiagnOn' = FALSE
  /\ UNCHANGED <<diag_pc, in_ping_fail_safe, ping, network>>

-----------------------------------------------------------------------------
(* The diagnostics task.  WIFI_DIAG_SEM is a recursive mutex: kept by the  *)
(* communication task, it stops only the diagnostics task.                 *)

StartPing ==
  /\ diag_pc = "begin" /\ WIFI_DIAG_SEM = "free"
  /\ ping_status' = "STARTING"
  /\ diag_pc' = "waiting"
  /\ UNCHANGED <<flagDiagnOn, ping_fail_safe, verdict, ping_answers, ping_success,
                 WIFI_DIAG_SEM, network>>

\* Neighbours that can still answer the pings of this round in time, or late.
Expected == {k \in node_conn : peer[k] = "up" /\ req[k] + ack[k] > 0}

\* The two seconds are over.  The communication task has sent the pings by
\* then, its loop takes milliseconds.  Only neighbours of MayBeLate exceed the
\* two seconds, by less than a round.
TwoSeconds ==
  /\ ping_status = "ACTIVE"
  /\ Expected \subseteq MayBeLate
  /\ \A k \in Expected : req[k] + ack[k] = 1

\* Faulty: the outcome of this round is also the next one's.
StopPingKeepsSuccess ==
  /\ diag_pc = "waiting" /\ TwoSeconds /\ WIFI_DIAG_SEM = "free"
  /\ ping_status' = "ENDING"
  /\ in_ping_fail_safe' = ~ping_success
  /\ diag_pc' = "report"
  /\ missed' = missed \union Expected
  /\ UNCHANGED <<flagDiagnOn, ping_fail_safe, diag_ended, diag_success, ping_answers,
                 ping_success, WIFI_DIAG_SEM, node_conn, peer, req, ack>>

StopPing ==
  /\ diag_pc = "waiting" /\ TwoSeconds /\ WIFI_DIAG_SEM = "free"
  /\ ping_status' = "ENDING"
  /\ in_ping_fail_safe' = ~ping_success
  /\ ping_success' = FALSE
  /\ diag_pc' = "report"
  /\ missed' = missed \union Expected
  /\ UNCHANGED <<flagDiagnOn, ping_fail_safe, diag_ended, diag_success, ping_answers,
                 WIFI_DIAG_SEM, node_conn, peer, req, ack>>

WriteVerdict ==
  /\ diag_pc = "report"
  /\ diag_ended' = TRUE /\ diag_success' = ~in_ping_fail_safe
  /\ diag_pc' = "none"
  /\ UNCHANGED <<flagDiagnOn, ping_fail_safe, in_ping_fail_safe, ping, network>>

-----------------------------------------------------------------------------
(* The communication task.                                                 *)

\* checkDiag at the start of a round: a ping to every connection.  What a
\* silent neighbour leaves unread counts once.
SendPings ==
  /\ ping_status = "STARTING"
  /\ req' = [k \in Neighbour |->
               IF k \notin node_conn \/ peer[k] = "closed" THEN req[k]
               ELSE IF peer[k] = "silent" THEN 1 ELSE req[k] + 1]
  /\ ping_status' = "ACTIVE"
  /\ UNCHANGED <<flagDiagnOn, ping_fail_safe, diag_pc, verdict, ping_answers,
                 ping_success, WIFI_DIAG_SEM, node_conn, peer, ack, missed>>

\* Faulty: the answers of this round are counted for the next one too.
EndPingsKeepsAnswers ==
  /\ ping_status = "ENDING"
  /\ ping_status' = "NOT_ACTIVE"
  /\ UNCHANGED <<flagDiagnOn, ping_fail_safe, diag_pc, verdict, ping_answers,
                 ping_success, WIFI_DIAG_SEM, network>>

\* Faulty: takes off one answer per connection, though some may be missing.
EndPingsSubtracts ==
  /\ ping_status = "ENDING"
  /\ ping_answers' = ping_answers - total_conn
  /\ ping_status' = "NOT_ACTIVE"
  /\ UNCHANGED <<flagDiagnOn, ping_fail_safe, diag_pc, verdict, ping_success,
                 WIFI_DIAG_SEM, network>>

\* checkDiag at the end of a round.
EndPings ==
  /\ ping_status = "ENDING"
  /\ ping_answers' = 0
  /\ ping_status' = "NOT_ACTIVE"
  /\ UNCHANGED <<flagDiagnOn, ping_fail_safe, diag_pc, verdict, ping_success,
                 WIFI_DIAG_SEM, network>>

\* Faulty: the host PC is not counted among the connections.
AllAnsweredButOne(answers) == answers + 1 >= total_conn

AllAnswered(answers) == answers = total_conn

\* handleInSingleMsg: a PING_ACK from k.  One too many while a round is active
\* returns E_PING_ACK without giving WIFI_DIAG_SEM back.
HandlePingAck(k) ==
  /\ k \in node_conn /\ ack[k] > 0
  /\ ack' = [ack EXCEPT ![k] = @ - 1]
  /\ \/ /\ ping_status = "ACTIVE" /\ ping_success
        /\ WIFI_DIAG_SEM' = "wifi"
        /\ UNCHANGED <<ping_status, ping_answers, ping_success>>
     \/ /\ ping_status = "ACTIVE" /\ ~ping_success
        /\ ping_answers' = ping_answers + 1
        /\ ping_success' = AllAnswered(ping_answers')
        /\ UNCHANGED <<ping_status, WIFI_DIAG_SEM>>
     \/ /\ ping_status = "ENDING"
        /\ ping_answers' = 0
        /\ ping_status' = "NOT_ACTIVE"
        /\ UNCHANGED <<ping_success, WIFI_DIAG_SEM>>
     \/ /\ ping_status \in {"NOT_ACTIVE", "STARTING"}
        /\ UNCHANGED ping
  /\ UNCHANGED <<flagDiagnOn, ping_fail_safe, diag_pc, verdict, node_conn, peer, req, missed>>

\* E_DISCONNECTION: everything k sent was read, its connection is removed.
Disconnection(k) ==
  /\ k \in node_conn /\ peer[k] = "closed" /\ ack[k] = 0
  /\ node_conn' = node_conn \ {k}
  /\ UNCHANGED <<flagDiagnOn, ping_fail_safe, diag_pc, verdict, ping, peer, req, ack, missed>>

-----------------------------------------------------------------------------
(* The neighbours.                                                         *)

\* The communication task of a neighbour, or host.py, answers a ping.
AnswerPing(k) ==
  /\ peer[k] = "up" /\ req[k] > 0
  /\ req' = [req EXCEPT ![k] = @ - 1]
  /\ ack' = [ack EXCEPT ![k] = @ + 1]
  /\ UNCHANGED <<flagDiagnOn, ping_fail_safe, diag_pc, verdict, ping, node_conn, peer, missed>>

\* host.py only answers a ping it reads alone; a node that still runs its init
\* task reads it as part of the handshake.
SwallowPing(k) ==
  /\ k \in MaySwallow /\ peer[k] = "up" /\ req[k] > 0
  /\ req' = [req EXCEPT ![k] = @ - 1]
  /\ missed' = missed \union {k}
  /\ UNCHANGED <<flagDiagnOn, ping_fail_safe, diag_pc, verdict, ping, node_conn, peer, ack>>

\* A neighbour stops without closing its connection; what it sent arrives.
Hang(k) ==
  /\ k \in MayHang /\ peer[k] = "up"
  /\ peer' = [peer EXCEPT ![k] = "silent"]
  /\ UNCHANGED <<flagDiagnOn, ping_fail_safe, diag_pc, verdict, ping, node_conn, req, ack, missed>>

\* resetConnections of a neighbour, or the end of host.py.
Close(k) ==
  /\ k \in MayDisconnect /\ peer[k] = "up"
  /\ peer' = [peer EXCEPT ![k] = "closed"]
  /\ req' = [req EXCEPT ![k] = 0]
  /\ UNCHANGED <<flagDiagnOn, ping_fail_safe, diag_pc, verdict, ping, node_conn, ack, missed>>

-----------------------------------------------------------------------------
control_task == StartDiagn \/ CheckVerdict

diagnosticsMain == StartPing \/ StopPing \/ WriteVerdict

checkDiag == SendPings \/ EndPings

Next ==
  \/ control_task \/ diagnosticsMain \/ checkDiag
  \/ \E k \in Neighbour :
       \/ HandlePingAck(k) \/ Disconnection(k)
       \/ AnswerPing(k) \/ SwallowPing(k) \/ Hang(k) \/ Close(k)

Spec == Init /\ [][Next]_vars

\* The tasks keep running, connections deliver, a live neighbour reads.
Fairness ==
  /\ WF_vars(control_task) /\ WF_vars(diagnosticsMain) /\ WF_vars(checkDiag)
  /\ \A k \in Neighbour :
       /\ WF_vars(HandlePingAck(k))
       /\ WF_vars(Disconnection(k))
       /\ WF_vars(AnswerPing(k) \/ SwallowPing(k))

FairSpec == Spec /\ Fairness

-----------------------------------------------------------------------------
(* Properties.                                                             *)

\* As long as no connection was lost, a node that is still in service calls a
\* round a success only after every neighbour answered the ping of that round.
SuccessIsGenuine ==
  ping_success /\ ~ping_fail_safe /\ node_conn = Neighbour =>
    /\ ping_status = "ACTIVE"
    /\ \A k \in Neighbour : req[k] = 0 /\ ack[k] = 0

\* A node fails safe only if some neighbour let it down.
FailureHasACause ==
  ping_fail_safe => missed # {} \/ \E k \in Neighbour : peer[k] # "up"

\* A neighbour that stops answering puts the node out of service, whatever
\* happens to the other connections.
SilentIsDetected == \A k \in Neighbour : peer[k] = "silent" ~> ping_fail_safe

\* The control task waits for the verdict of a task that it did not start.
NeverStarted == flagDiagnOn /\ diag_pc = "none" /\ ~diag_ended

\* A silent neighbour, as long as no connection is lost and every round starts.
SilentIsDetectedWhileConnected ==
  \A k \in Neighbour :
    peer[k] = "silent" ~>
      ping_fail_safe \/ NeverStarted \/ \E j \in Neighbour : peer[j] = "closed"
=============================================================================
