-------------------------------- MODULE Log ---------------------------------
(***************************************************************************)
(* The log of a node and its transfer: the tasks put entries into a        *)
(* bounded queue (logMessage), the log task writes them to log.txt         *)
(* (logInit), a transfer task suspends it to copy the file and sends the   *)
(* copy (processLogToSend) to a thread of the host PC (log.py).            *)
(*                                                                         *)
(* An entry is one cell of a file or of the connection.  A read into a     *)
(* buffer, sizeof the buffer, is BLOCK or SO_SNDBUF cells.                 *)
(***************************************************************************)
EXTENDS Integers, Sequences, FiniteSets

CONSTANTS
  Task,          \* the tasks that log, apart from the transfer
  MAX_LOG_BUFF,  \* entries the queue can hold
  BLOCK,         \* entries a read of the copying loop returns at most
  SO_SNDBUF,     \* entries the buffer of the sending loop holds
  MayFail,       \* calls that may return an error
  MaxLogs,       \* bound: entries a task logs
  MaxTransfers   \* bound: transfers

ASSUME LogAssumption ==
  /\ {MAX_LOG_BUFF, BLOCK, SO_SNDBUF} \subseteq Nat \ {0}
  /\ {MaxLogs, MaxTransfers} \subseteq Nat
  /\ MayFail \subseteq {"write", "stat", "open", "seek", "copy", "reopen", "send"}

VARIABLES
  init_pc,       \* the init task, which waits for the queue
  left,          \* entries a task will still log
  logged,        \* entries logged so far
  LOG_QUEUE,
  log_pc,        \* the log task
  log_suspended, \* it is suspended
  log_buffer,    \* the entry it received
  log_txt,       \* the file
  offset,        \* of LOG_FD, which the log task and the transfer share
  transfer_pc,   \* the transfer task
  transfers,     \* transfers started
  own_start,     \* the entry with which the last one announced itself
  copy,          \* log_tmp_copy.txt
  position,      \* how much of it was read for sending
  buffer_to_send,
  stream,        \* on the connection, unread by the host
  closed,        \* the node has closed the connection
  host_pc,       \* the thread of log.py
  encoded_log,   \* what it received
  saved          \* what it wrote to its file, and whether as a success

tasks    == <<init_pc, left>>
log_task == <<log_pc, log_suspended, log_buffer>>
transfer == <<transfer_pc, transfers, own_start, position, buffer_to_send>>
socket   == <<stream, closed>>
host     == <<host_pc, encoded_log, saved>>

vars == <<tasks, logged, LOG_QUEUE, log_task, log_txt, offset, transfer, copy, socket, host>>

Cell == [kind : {"log", "start", "junk", "error", "[START_SENDING]", "[END_WITH_SUCCESS]"},
         nr : Nat]

Mark(kind) == [kind |-> kind, nr |-> 0]

Junk == Mark("junk")

LogTypeOK ==
  /\ init_pc \in {"create", "activated", "suspended", "running"}
  /\ left \in [Task -> 0 .. MaxLogs] /\ logged \in Nat
  /\ LOG_QUEUE \in Seq(Cell) /\ Len(LOG_QUEUE) <= MAX_LOG_BUFF
  /\ log_pc \in {"none", "init", "resume", "receive", "write", "deleted"}
  /\ log_suspended \in BOOLEAN /\ log_buffer \in Cell
  /\ log_txt \in Seq(Cell) /\ offset \in 0 .. Len(log_txt) /\ copy \in Seq(Cell)
  /\ transfer_pc \in {"none", "announce", "suspend", "stat", "open", "seek", "copy", "resume",
                      "reopen", "send", "log", "done"}
  /\ transfers \in 0 .. MaxTransfers /\ own_start \in Nat /\ position \in Nat
  /\ buffer_to_send \in [1 .. SO_SNDBUF -> Cell]
  /\ stream \in Seq(Cell) /\ closed \in BOOLEAN
  /\ host_pc \in {"none", "talk", "receive", "done"}
  /\ encoded_log \in Seq(Cell)
  /\ saved \in [success : BOOLEAN, log : Seq(Cell)]

Init ==
  /\ init_pc = "create" /\ left = [t \in Task |-> MaxLogs] /\ logged = 0
  /\ LOG_QUEUE = << >>
  /\ log_pc = "none" /\ log_suspended = FALSE /\ log_buffer = Junk
  /\ log_txt = << >> /\ offset = 0 /\ copy = << >>
  /\ transfer_pc = "none" /\ transfers = 0 /\ own_start = 0 /\ position = 0
  /\ buffer_to_send = [i \in 1 .. SO_SNDBUF |-> Junk]
  /\ stream = << >> /\ closed = FALSE
  /\ host_pc = "none" /\ encoded_log = << >>
  /\ saved = [success |-> FALSE, log |-> << >>]

-----------------------------------------------------------------------------
(* The start: the init task activates the log task, on another core, and   *)
(* suspends itself until that has created the queue.                       *)

ActivateLog ==
  /\ init_pc = "create"
  /\ log_pc' = "init" /\ init_pc' = "activated"
  /\ UNCHANGED <<left, logged, LOG_QUEUE, log_suspended, log_buffer, log_txt, offset, transfer,
                 copy, socket, host>>

\* Faulty: the init task goes on without waiting.
AwaitLogNot ==
  /\ init_pc = "activated"
  /\ init_pc' = "running"
  /\ UNCHANGED <<left, logged, LOG_QUEUE, log_task, log_txt, offset, transfer, copy, socket, host>>

\* taskSuspend(0).
AwaitLog ==
  /\ init_pc = "activated"
  /\ init_pc' = "suspended"
  /\ UNCHANGED <<left, logged, LOG_QUEUE, log_task, log_txt, offset, transfer, copy, socket, host>>

\* The file and the queue.
CreateQueue ==
  /\ log_pc = "init"
  /\ log_pc' = "resume" /\ log_txt' = << >> /\ LOG_QUEUE' = << >>
  /\ UNCHANGED <<tasks, logged, log_suspended, log_buffer, offset, transfer, copy, socket, host>>

\* A task that is not suspended yet does not notice that it is resumed.
ResumeInit ==
  /\ log_pc = "resume"
  /\ log_pc' = "receive"
  /\ init_pc' = IF init_pc = "suspended" THEN "running" ELSE init_pc
  /\ UNCHANGED <<left, logged, LOG_QUEUE, log_suspended, log_buffer, log_txt, offset, transfer,
                 copy, socket, host>>

-----------------------------------------------------------------------------
(* Entries.                                                                *)

\* msgQSend, WAIT_FOREVER.
Enqueue(kind) ==
  /\ Len(LOG_QUEUE) < MAX_LOG_BUFF
  /\ logged' = logged + 1
  /\ LOG_QUEUE' = Append(LOG_QUEUE, [kind |-> kind, nr |-> logged'])

logMessage(t) ==
  /\ init_pc = "running" /\ left[t] > 0
  /\ Enqueue("log")
  /\ left' = [left EXCEPT ![t] = @ - 1]
  /\ UNCHANGED <<init_pc, log_task, log_txt, offset, transfer, copy, socket, host>>

Receive ==
  /\ log_pc = "receive" /\ ~log_suspended /\ LOG_QUEUE # << >>
  /\ log_buffer' = Head(LOG_QUEUE)
  /\ LOG_QUEUE' = Tail(LOG_QUEUE)
  /\ log_pc' = "write"
  /\ UNCHANGED <<tasks, logged, log_suspended, log_txt, offset, transfer, copy, socket, host>>

\* The file is opened with O_APPEND: a write moves the offset to its end.
Write ==
  /\ log_pc = "write" /\ ~log_suspended
  /\ log_txt' = Append(log_txt, log_buffer)
  /\ offset' = Len(log_txt')
  /\ log_pc' = "receive"
  /\ UNCHANGED <<tasks, logged, LOG_QUEUE, log_suspended, log_buffer, transfer, copy, socket, host>>

\* The log task deletes itself; what others log stays in the queue.
WriteFails ==
  /\ log_pc = "write" /\ ~log_suspended /\ "write" \in MayFail
  /\ log_pc' = "deleted"
  /\ UNCHANGED <<tasks, logged, LOG_QUEUE, log_suspended, log_buffer, log_txt, offset, transfer,
                 copy, socket, host>>

logInit == CreateQueue \/ ResumeInit \/ Receive \/ Write \/ WriteFails

-----------------------------------------------------------------------------
(* The transfer.  What it tells the host before it sends the log is only   *)
(* printed there and left out.                                             *)

\* log.py accepts the connection of a new transfer task; one that still waits
\* for a transfer that gave up is interrupted.
sendLogToHost ==
  /\ init_pc = "running" /\ transfers < MaxTransfers
  /\ transfer_pc \in {"none", "done"} /\ host_pc # "receive"
  /\ transfers' = transfers + 1
  /\ transfer_pc' = "announce"
  /\ buffer_to_send' = [i \in 1 .. SO_SNDBUF |-> Junk]
  /\ stream' = << >> /\ closed' = FALSE
  /\ host_pc' = "talk" /\ encoded_log' = << >>
  /\ saved' = [success |-> FALSE, log |-> << >>]
  /\ UNCHANGED <<tasks, logged, LOG_QUEUE, log_task, log_txt, offset, own_start, copy, position>>

\* "Avvio task di trasferimento log verso l'host".
Announce ==
  /\ transfer_pc = "announce"
  /\ Enqueue("start")
  /\ own_start' = logged'
  /\ transfer_pc' = "suspend"
  /\ UNCHANGED <<tasks, log_task, log_txt, offset, transfers, position, buffer_to_send, copy,
                 socket, host>>

\* Faulty: the log task goes on writing while its file is copied.
SuspendLogNot ==
  /\ transfer_pc = "suspend" /\ log_pc # "deleted"
  /\ transfer_pc' = "stat"
  /\ UNCHANGED <<tasks, logged, LOG_QUEUE, log_task, log_txt, offset, transfers, own_start,
                 position, buffer_to_send, copy, socket, host>>

SuspendLog ==
  /\ transfer_pc = "suspend" /\ log_pc # "deleted"
  /\ log_suspended' = TRUE
  /\ transfer_pc' = "stat"
  /\ UNCHANGED <<tasks, logged, LOG_QUEUE, log_pc, log_buffer, log_txt, offset, transfers,
                 own_start, position, buffer_to_send, copy, socket, host>>

\* There is no log task to suspend.
SuspendFails ==
  /\ transfer_pc = "suspend" /\ log_pc = "deleted"
  /\ closed' = TRUE
  /\ transfer_pc' = "done"
  /\ UNCHANGED <<tasks, logged, LOG_QUEUE, log_task, log_txt, offset, transfers, own_start,
                 position, buffer_to_send, copy, stream, host>>

\* fstat; the size is only told.
Stat ==
  /\ transfer_pc = "stat"
  /\ transfer_pc' = "open"
  /\ UNCHANGED <<tasks, logged, LOG_QUEUE, log_task, log_txt, offset, transfers, own_start,
                 position, buffer_to_send, copy, socket, host>>

\* A new copy.
OpenCopy ==
  /\ transfer_pc = "open"
  /\ copy' = << >>
  /\ transfer_pc' = "seek"
  /\ UNCHANGED <<tasks, logged, LOG_QUEUE, log_task, log_txt, offset, transfers, own_start,
                 position, buffer_to_send, socket, host>>

\* lseek(LOG_FD, 0, SEEK_SET).
Seek ==
  /\ transfer_pc = "seek"
  /\ offset' = 0
  /\ transfer_pc' = "copy"
  /\ UNCHANGED <<tasks, logged, LOG_QUEUE, log_task, log_txt, transfers, own_start, position,
                 buffer_to_send, copy, socket, host>>

\* What a read of up to size cells returns.
Read(file, at, size) ==
  SubSeq(file, at + 1, IF at + size < Len(file) THEN at + size ELSE Len(file))

\* Faulty: the loop counts the whole buffer where the read returned less.
CopyBlockBySize ==
  /\ transfer_pc = "copy"
  /\ LET read == Read(log_txt, offset, BLOCK) IN
       /\ offset' = offset + BLOCK
       /\ copy' = copy \o read
       /\ transfer_pc' = IF read = << >> THEN "resume" ELSE "copy"
  /\ UNCHANGED <<tasks, logged, LOG_QUEUE, log_task, log_txt, transfers, own_start, position,
                 buffer_to_send, socket, host>>

\* One read from LOG_FD, written to the copy; at the end of the file, the next step.
CopyBlock ==
  /\ transfer_pc = "copy"
  /\ LET read == Read(log_txt, offset, BLOCK) IN
       /\ offset' = offset + Len(read)
       /\ copy' = copy \o read
       /\ transfer_pc' = IF read = << >> THEN "resume" ELSE "copy"
  /\ UNCHANGED <<tasks, logged, LOG_QUEUE, log_task, log_txt, transfers, own_start, position,
                 buffer_to_send, socket, host>>

\* Faulty: after a failed lseek the log task stays suspended.
GiveUpSuspended ==
  /\ transfer_pc \in {"stat", "open", "seek", "copy"} /\ transfer_pc \in MayFail
  /\ log_suspended' = (transfer_pc = "seek")
  /\ closed' = TRUE
  /\ transfer_pc' = "done"
  /\ UNCHANGED <<tasks, logged, LOG_QUEUE, log_pc, log_buffer, log_txt, offset, transfers,
                 own_start, position, buffer_to_send, copy, stream, host>>

\* One of these calls fails: resume the log task, close, exit.
GiveUp ==
  /\ transfer_pc \in {"stat", "open", "seek", "copy"} /\ transfer_pc \in MayFail
  /\ log_suspended' = FALSE
  /\ closed' = TRUE
  /\ transfer_pc' = "done"
  /\ UNCHANGED <<tasks, logged, LOG_QUEUE, log_pc, log_buffer, log_txt, offset, transfers,
                 own_start, position, buffer_to_send, copy, stream, host>>

ResumeLog ==
  /\ transfer_pc = "resume"
  /\ log_suspended' = FALSE
  /\ stream' = Append(stream, Mark("[START_SENDING]"))
  /\ transfer_pc' = "reopen"
  /\ UNCHANGED <<tasks, logged, LOG_QUEUE, log_pc, log_buffer, log_txt, offset, transfers,
                 own_start, position, buffer_to_send, copy, closed, host>>

\* Faulty: the log follows at once.
DelayOverAtOnce == TRUE

\* taskDelay(5), assumed to be long enough for the host to have read it.
DelayOver == stream = << >>

Reopen ==
  /\ transfer_pc = "reopen" /\ DelayOver
  /\ position' = 0
  /\ transfer_pc' = "send"
  /\ UNCHANGED <<tasks, logged, LOG_QUEUE, log_task, log_txt, offset, transfers, own_start,
                 buffer_to_send, copy, socket, host>>

\* The read overwrites the beginning of the buffer.  It is sent up to the
\* first zero byte: a buffer that was filled once has none, and neither have
\* the next 34 bytes, one cell; in one that was not, the rest is anything.
SendBlock ==
  /\ transfer_pc = "send"
  /\ LET read == Read(copy, position, SO_SNDBUF) IN
       /\ read # << >>
       /\ position' = position + Len(read)
       /\ buffer_to_send' = [i \in 1 .. SO_SNDBUF |->
                               IF i <= Len(read) THEN read[i] ELSE buffer_to_send[i]]
       /\ \E n \in Len(read) .. SO_SNDBUF + 1 :
            /\ Junk \notin {buffer_to_send'[i] : i \in 1 .. SO_SNDBUF} => n = SO_SNDBUF + 1
            /\ stream' = stream \o SubSeq(buffer_to_send' \o <<Junk>>, 1, n)
  /\ UNCHANGED <<tasks, logged, LOG_QUEUE, log_task, log_txt, offset, transfer_pc, transfers,
                 own_start, copy, closed, host>>

EndWithSuccess ==
  /\ transfer_pc = "send" /\ position = Len(copy)
  /\ stream' = Append(stream, Mark("[END_WITH_SUCCESS]"))
  /\ closed' = TRUE
  /\ transfer_pc' = "log"
  /\ UNCHANGED <<tasks, logged, LOG_QUEUE, log_task, log_txt, offset, transfers, own_start,
                 position, buffer_to_send, copy, host>>

\* "Inviato con successo il log all'host".
LogSuccess ==
  /\ transfer_pc = "log"
  /\ Enqueue("log")
  /\ transfer_pc' = "done"
  /\ UNCHANGED <<tasks, log_task, log_txt, offset, transfers, own_start, position,
                 buffer_to_send, copy, socket, host>>

\* Faulty: the task exits and leaves the connection open.
GiveUpSendingOpen ==
  /\ transfer_pc \in {"reopen", "send"} /\ transfer_pc \in MayFail
  /\ transfer_pc = "reopen" => DelayOver
  /\ stream' = Append(stream, Mark("error"))
  /\ transfer_pc' = "done"
  /\ UNCHANGED <<tasks, logged, LOG_QUEUE, log_task, log_txt, offset, transfers, own_start,
                 position, buffer_to_send, copy, closed, host>>

\* The copy cannot be opened or read: tell the host, close, exit.
GiveUpSending ==
  /\ transfer_pc \in {"reopen", "send"} /\ transfer_pc \in MayFail
  /\ transfer_pc = "reopen" => DelayOver
  /\ stream' = Append(stream, Mark("error"))
  /\ closed' = TRUE
  /\ transfer_pc' = "done"
  /\ UNCHANGED <<tasks, logged, LOG_QUEUE, log_task, log_txt, offset, transfers, own_start,
                 position, buffer_to_send, copy, host>>

processLogToSend ==
  \/ Announce \/ SuspendLog \/ SuspendFails \/ Stat \/ OpenCopy \/ Seek \/ CopyBlock \/ GiveUp
  \/ ResumeLog \/ Reopen \/ SendBlock \/ EndWithSuccess \/ LogSuccess
  \/ GiveUpSending

-----------------------------------------------------------------------------
(* The thread of the host PC.                                              *)

\* Up to the message with [START_SENDING]; what arrived with it is kept in a
\* variable that is never used.  On a closed connection it reads for ever.
HostTalks ==
  /\ host_pc = "talk" /\ stream # << >>
  /\ stream' = << >>
  /\ host_pc' = "receive"
  /\ UNCHANGED <<tasks, logged, LOG_QUEUE, log_task, log_txt, offset, transfer, copy, closed,
                 encoded_log, saved>>

HostReceives ==
  /\ host_pc = "receive" /\ stream # << >>
  /\ encoded_log' = encoded_log \o stream
  /\ stream' = << >>
  /\ UNCHANGED <<tasks, logged, LOG_QUEUE, log_task, log_txt, offset, transfer, copy, closed,
                 host_pc, saved>>

\* Of every 4131 bytes the last 34 are left out.
Clean(log) ==
  LET rest == Len(log) % (SO_SNDBUF + 1)
      kept == (Len(log) \div (SO_SNDBUF + 1)) * SO_SNDBUF
                + (IF rest > SO_SNDBUF THEN SO_SNDBUF ELSE rest)
  IN  [i \in 1 .. kept |-> log[i + (i - 1) \div SO_SNDBUF]]

Starts(log) == {i \in DOMAIN log : log[i].kind = "start"}

\* rfind: up to the last entry that announces a transfer.  Without one, what is
\* left is a piece of the first line, here nothing.
UpToLastStart(log) ==
  IF Starts(log) = {} THEN << >>
  ELSE SubSeq(log, 1, CHOOSE i \in Starts(log) : \A j \in Starts(log) : j <= i)

HostSaves ==
  /\ host_pc = "receive" /\ stream = << >> /\ closed
  /\ LET log == Clean(encoded_log)
         success == log # << >> /\ log[Len(log)] = Mark("[END_WITH_SUCCESS]")
     IN  saved' = [success |-> success, log |-> IF success THEN UpToLastStart(log) ELSE log]
  /\ host_pc' = "done"
  /\ UNCHANGED <<tasks, logged, LOG_QUEUE, log_task, log_txt, offset, transfer, copy, socket,
                 encoded_log>>

receiveAndSaveLog == HostTalks \/ HostReceives \/ HostSaves

Next ==
  \/ ActivateLog \/ AwaitLog
  \/ logInit
  \/ \E t \in Task : logMessage(t)
  \/ sendLogToHost \/ processLogToSend
  \/ receiveAndSaveLog

Spec == Init /\ [][Next]_vars

\* The tasks and the thread keep running; nobody has to start a transfer.
FairSpec ==
  /\ Spec
  /\ WF_vars(ActivateLog \/ AwaitLog) /\ WF_vars(logInit)
  /\ \A t \in Task : WF_vars(logMessage(t))
  /\ WF_vars(processLogToSend) /\ WF_vars(receiveAndSaveLog)

-----------------------------------------------------------------------------
(* Properties.                                                             *)

\* No task uses the queue before the log task has created it.
QueueBeforeUse == log_pc \in {"none", "init"} => logged = 0

\* While the file is copied it does not change under the copying loop: the
\* copy is its beginning up to the shared offset.
CopyIsConsistent == transfer_pc \in {"copy", "resume"} => copy = SubSeq(log_txt, 1, offset)

\* What is left in the buffer behind the last read of the copy, if it is a
\* shorter one.
Stale ==
  {i \in DOMAIN copy : /\ Len(copy) % SO_SNDBUF # 0
                       /\ Len(copy) - SO_SNDBUF < i
                       /\ i <= Len(copy) - (Len(copy) % SO_SNDBUF)}

\* A transfer that was announced in what it copied, and not in the stale part
\* that follows it, ends with the log up to that announcement on the host PC.
SavedIsTheLog ==
  host_pc = "done" /\ saved.success =>
    \A i \in DOMAIN copy :
      copy[i].nr = own_start /\ Starts(copy) \intersect Stale = {}
        => saved.log = SubSeq(log_txt, 1, i)

\* What the host PC saves as a success is a copy of the log, from its start.
SavedIsACopy ==
  host_pc = "done" /\ saved.success =>
    /\ Len(saved.log) <= Len(log_txt)
    /\ saved.log = SubSeq(log_txt, 1, Len(saved.log))

\* Whatever a transfer does, and wherever it gives up, every task can log what
\* it has to and it is written, as long as there is a log task.
EveryEntryIsWritten ==
  <>[](\/ init_pc # "running" \/ log_pc = "deleted"
       \/ left = [t \in Task |-> 0] /\ Len(log_txt) = logged)

\* Once the host PC is told that the log comes, its thread comes to an end.
HostThreadEnds == host_pc = "receive" ~> host_pc = "done"
=============================================================================
