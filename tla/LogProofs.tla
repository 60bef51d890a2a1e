------------------------------ MODULE LogProofs ------------------------------
(***************************************************************************)
(* For any number of tasks, any size of the queue and of the buffers, any  *)
(* calls that fail, and any number of entries and transfers: the types,    *)
(* that no task uses the queue before it exists, that a transfer copies a  *)
(* file that does not change, and that what the host PC saves as a success *)
(* is the log up to the announcement of the transfer.                      *)
(***************************************************************************)
EXTENDS Log, TLAPS, SequenceTheorems, WellFoundedInduction

\* The init task lets the others start, and so a transfer, only once the log
\* task has the queue and the file.
QueueIsFirst ==
  /\ init_pc = "create" => log_pc = "none"
  /\ log_pc \in {"none", "init"} => init_pc # "running" /\ logged = 0 /\ offset = 0
  /\ init_pc # "running" => transfer_pc = "none"

\* The log task is suspended from the first step of the copying to the last.
NobodyWrites ==
  /\ transfer_pc \in {"stat", "open", "seek", "copy", "resume"} => log_suspended
  /\ transfer_pc = "seek" => copy = << >>

Inv == LogTypeOK /\ QueueIsFirst /\ NobodyWrites /\ CopyIsConsistent

LEMMA ConstantTypes ==
  /\ MAX_LOG_BUFF \in Nat /\ BLOCK \in Nat /\ SO_SNDBUF \in Nat
  /\ MAX_LOG_BUFF > 0 /\ BLOCK > 0 /\ SO_SNDBUF > 0
  /\ MaxLogs \in Nat /\ MaxTransfers \in Nat
BY LogAssumption DEF LogAssumption

-----------------------------------------------------------------------------
(* What the host PC's functions return.                                    *)

LEMMA DivMod ==
  ASSUME NEW S \in Nat, S > 0, NEW L \in Nat
  PROVE  /\ L \div S \in Nat /\ L % S \in 0 .. S - 1
         /\ L = S * (L \div S) + (L % S)
OBVIOUS

\* Clean reads no entry behind the end of what was received.
LEMMA CleanIndex ==
  ASSUME NEW S \in Nat, S > 0, NEW L \in Nat,
         NEW i \in Nat, i > 0,
         i <= (L \div (S + 1)) * S
                + (IF L % (S + 1) > S THEN S ELSE L % (S + 1))
  PROVE  i + ((i - 1) \div S) \in 1 .. L
<1> DEFINE q == L \div (S + 1)
           r == L % (S + 1)
           d == (i - 1) \div S
           e == (i - 1) % S
<1>1. q \in Nat /\ r \in 0 .. S /\ L = (S + 1) * q + r BY DivMod
<1>2. d \in Nat /\ e \in 0 .. S - 1 /\ i - 1 = S * d + e BY DivMod
<1>3. i <= q * S + r BY <1>1
<1> HIDE DEF q, r, d, e
<1>4. (S + 1) * q = S * q + q /\ q * S = S * q BY <1>1
<1>5. CASE d < q
  <2>1. S * (d + 1) <= S * q BY <1>1, <1>2, <1>5
  <2>2. S * (d + 1) = S * d + S BY <1>2
  <2>3. S * d \in Nat /\ S * q \in Nat BY <1>1, <1>2
  <2>4. i + d <= S * q + q BY <1>1, <1>2, <1>5, <2>1, <2>2, <2>3
  <2>5. i + d \in 1 .. L BY <1>1, <1>2, <1>4, <2>3, <2>4
  <2> QED BY <2>5 DEF d
<1>6. CASE d >= q
  <2>1. d <= q
    <3> SUFFICES ASSUME d >= q + 1 PROVE FALSE BY <1>1, <1>2
    <3>1. S * d >= S * (q + 1) /\ S * (q + 1) = S * q + S BY <1>1, <1>2
    <3>2. S * d \in Nat /\ S * q \in Nat BY <1>1, <1>2
    <3> QED BY <1>1, <1>2, <1>3, <1>4, <3>1, <3>2
  <2>2. d = q BY <1>1, <1>2, <1>6, <2>1
  <2>3. S * q \in Nat BY <1>1
  <2>4. i + d \in 1 .. L BY <1>1, <1>2, <1>3, <1>4, <2>2, <2>3
  <2> QED BY <2>4 DEF d
<1> QED BY <1>1, <1>2, <1>5, <1>6

LEMMA CleanType ==
  ASSUME NEW log \in Seq(Cell)
  PROVE  Clean(log) \in Seq(Cell)
<1> DEFINE kept == (Len(log) \div (SO_SNDBUF + 1)) * SO_SNDBUF
                     + (IF Len(log) % (SO_SNDBUF + 1) > SO_SNDBUF THEN SO_SNDBUF
                                                                ELSE Len(log) % (SO_SNDBUF + 1))
<1>1. Len(log) \in Nat BY LenProperties
<1>2. /\ Len(log) \div (SO_SNDBUF + 1) \in Nat
      /\ Len(log) % (SO_SNDBUF + 1) \in Nat
  BY <1>1, ConstantTypes, DivMod
<1>3. kept \in Nat BY <1>2, ConstantTypes
<1>4. \A i \in 1 .. kept : log[i + ((i - 1) \div SO_SNDBUF)] \in Cell
  <2> TAKE i \in 1 .. kept
  <2>1. i \in Nat /\ i > 0 /\ i <= kept BY <1>3
  <2>2. i + ((i - 1) \div SO_SNDBUF) \in 1 .. Len(log)
    BY <1>1, <2>1, ConstantTypes, CleanIndex
  <2> QED BY <2>2, ElementOfSeq
<1>5. Clean(log) = [i \in 1 .. kept |-> log[i + ((i - 1) \div SO_SNDBUF)]]
  BY DEF Clean
<1> HIDE DEF kept
<1>6. Clean(log) \in [1 .. kept -> Cell] BY <1>4, <1>5
<1> QED BY <1>3, <1>6, SeqDef

\* Numbers up to a bound, if there are any, have a last one.
LEMMA HasLast ==
  ASSUME NEW N \in Nat, NEW T \in SUBSET (1 .. N), T # {}
  PROVE  \E i \in T : \A j \in T : j <= i
<1> DEFINE U == {n \in Nat : N - n \in T}
<1>1. U \subseteq Nat OBVIOUS
<1>2. \A i \in T : N - i \in U /\ i \in 1 .. N OBVIOUS
<1>3. U # {} BY <1>2
<1>4. PICK x \in U : \A y \in U : ~(<<y, x>> \in OpToRel(<, Nat))
  BY <1>1, <1>3, WFMin, NatLessThanWellFounded
<1>5. \A y \in U : ~(y < x) BY <1>4, <1>1 DEF OpToRel
<1>6. x \in Nat /\ N - x \in T OBVIOUS
<1> HIDE DEF U
<1>7. ASSUME NEW j \in T PROVE j <= N - x
  <2>1. N - j \in U /\ j \in 1 .. N BY <1>2
  <2>2. ~(N - j < x) BY <2>1, <1>5
  <2> QED BY <2>1, <2>2, <1>6
<1> QED BY <1>6, <1>7

LEMMA UpToLastStartType ==
  ASSUME NEW log \in Seq(Cell)
  PROVE  UpToLastStart(log) \in Seq(Cell)
<1>1. CASE Starts(log) = {} BY <1>1, EmptySeq DEF UpToLastStart
<1>2. CASE Starts(log) # {}
  <2> DEFINE last == CHOOSE i \in Starts(log) : \A j \in Starts(log) : j <= i
  <2>1. Len(log) \in Nat /\ Starts(log) \in SUBSET (1 .. Len(log))
    BY LenProperties DEF Starts
  <2>2. \E i \in Starts(log) : \A j \in Starts(log) : j <= i
    BY <1>2, <2>1, HasLast
  <2>3. last \in Starts(log) BY <2>2
  <2>4. last \in 1 .. Len(log) BY <2>1, <2>3
  <2>5. UpToLastStart(log) = SubSeq(log, 1, last) BY <1>2 DEF UpToLastStart
  <2> HIDE DEF last
  <2>6. \A i \in 1 .. last : log[i] \in Cell BY <2>1, <2>4, ElementOfSeq
  <2> QED BY <2>4, <2>5, <2>6, SubSeqProperties
<1> QED BY <1>1, <1>2

LEMMA CellTypes ==
  /\ Junk \in Cell
  /\ \A kind \in {"log", "start", "error", "[START_SENDING]", "[END_WITH_SUCCESS]"} :
       Mark(kind) \in Cell /\ \A nr \in Nat : [kind |-> kind, nr |-> nr] \in Cell
BY DEF Junk, Mark, Cell

\* What a read returns, and where in the file it stands.
LEMMA ReadType ==
  ASSUME NEW file \in Seq(Cell), NEW at \in Nat, NEW size \in Nat
  PROVE  /\ Read(file, at, size) \in Seq(Cell)
         /\ Len(Read(file, at, size)) \in 0 .. size
<1> DEFINE end == IF at + size < Len(file) THEN at + size ELSE Len(file)
<1>1. Len(file) \in Nat /\ end \in Nat /\ end <= Len(file) /\ end <= at + size
  BY LenProperties
<1>2. Read(file, at, size) = SubSeq(file, at + 1, end) BY DEF Read
<1> HIDE DEF end
<1>3. \A i \in at + 1 .. end : file[i] \in Cell
  <2> TAKE i \in at + 1 .. end
  <2>1. i \in 1 .. Len(file) BY <1>1
  <2> QED BY <2>1, ElementOfSeq
<1>4. /\ SubSeq(file, at + 1, end) \in Seq(Cell)
      /\ Len(SubSeq(file, at + 1, end)) = IF at + 1 <= end THEN end - (at + 1) + 1 ELSE 0
  BY <1>1, <1>3, SubSeqProperties
<1> QED BY <1>1, <1>2, <1>4

\* Appended to the beginning of the file up to where it starts, it gives the
\* beginning up to where it ends.
LEMMA ReadContinues ==
  ASSUME NEW file \in Seq(Cell), NEW at \in 0 .. Len(file), NEW size \in Nat
  PROVE  /\ at + Len(Read(file, at, size)) \in 0 .. Len(file)
         /\ SubSeq(file, 1, at) \o Read(file, at, size)
              = SubSeq(file, 1, at + Len(Read(file, at, size)))
<1> DEFINE end == IF at + size < Len(file) THEN at + size ELSE Len(file)
<1>1. Len(file) \in Nat /\ end \in at .. Len(file) BY LenProperties
<1>2. Read(file, at, size) = SubSeq(file, at + 1, end) BY DEF Read
<1> HIDE DEF end
<1>3. \A i \in at + 1 .. end : file[i] \in Cell
  <2> TAKE i \in at + 1 .. end
  <2>1. i \in 1 .. Len(file) BY <1>1
  <2> QED BY <2>1, ElementOfSeq
<1>4. Len(SubSeq(file, at + 1, end)) = IF at + 1 <= end THEN end - (at + 1) + 1 ELSE 0
  BY <1>1, <1>3, SubSeqProperties
<1>5. Len(SubSeq(file, at + 1, end)) = end - at BY <1>1, <1>4
<1>6. SubSeq(file, 1, at) \o SubSeq(file, at + 1, end) = SubSeq(file, 1, end)
  BY <1>1, ConcatAdjacentSubSeq
<1>7. at + Len(Read(file, at, size)) = end BY <1>1, <1>2, <1>5
<1> QED BY <1>1, <1>2, <1>6, <1>7

-----------------------------------------------------------------------------
(* The inductive invariant.                                                *)

LEMMA InitEstablishesInv == Init => Inv
<1> SUFFICES ASSUME Init PROVE Inv OBVIOUS
<1> USE ConstantTypes DEF Init
<1>1. << >> \in Seq(Cell) /\ Len(<< >>) = 0 BY EmptySeq
<1>2. LogTypeOK
  <2>1. left \in [Task -> 0 .. MaxLogs] /\ buffer_to_send \in [1 .. SO_SNDBUF -> Cell]
    BY CellTypes
  <2>2. saved \in [success : BOOLEAN, log : Seq(Cell)] BY <1>1
  <2>3. Len(LOG_QUEUE) <= MAX_LOG_BUFF /\ offset \in 0 .. Len(log_txt) BY <1>1
  <2>4. log_buffer \in Cell /\ transfers \in 0 .. MaxTransfers BY CellTypes
  <2> QED BY <1>1, <2>1, <2>2, <2>3, <2>4 DEF LogTypeOK
<1>3. QueueIsFirst /\ NobodyWrites /\ CopyIsConsistent
  BY DEF QueueIsFirst, NobodyWrites, CopyIsConsistent
<1> QED BY <1>2, <1>3 DEF Inv

LEMMA EnqueueType ==
  ASSUME Inv, NEW kind \in {"log", "start"}, Enqueue(kind)
  PROVE  logged' \in Nat /\ LOG_QUEUE' \in Seq(Cell) /\ Len(LOG_QUEUE') <= MAX_LOG_BUFF
<1>1. logged' \in Nat BY DEF Enqueue, Inv, LogTypeOK
<1>2. LOG_QUEUE \in Seq(Cell) /\ Len(LOG_QUEUE) \in Nat
  BY LenProperties DEF Inv, LogTypeOK
<1>3. [kind |-> kind, nr |-> logged'] \in Cell BY <1>1, CellTypes
<1> HIDE DEF Cell
<1>4. LOG_QUEUE' = Append(LOG_QUEUE, [kind |-> kind, nr |-> logged']) BY DEF Enqueue
<1> DEFINE entry == [kind |-> kind, nr |-> logged']
<1> HIDE DEF entry
<1>5. LOG_QUEUE' \in Seq(Cell) /\ Len(LOG_QUEUE') = Len(LOG_QUEUE) + 1
  BY <1>2, <1>3, <1>4, AppendProperties DEF entry
<1> QED BY <1>1, <1>2, <1>5, ConstantTypes DEF Enqueue

LEMMA StartKeepsInv ==
  ASSUME Inv, ActivateLog \/ AwaitLog
  PROVE  Inv'
<1> USE DEF Inv, LogTypeOK, QueueIsFirst, NobodyWrites, CopyIsConsistent, transfer, socket, host
<1>1. CASE ActivateLog BY <1>1 DEF ActivateLog
<1>2. CASE AwaitLog BY <1>2 DEF AwaitLog, log_task
<1> QED BY <1>1, <1>2

LEMMA LogMessageKeepsInv ==
  ASSUME Inv, NEW t \in Task, logMessage(t)
  PROVE  Inv'
<1>1. logged' \in Nat /\ LOG_QUEUE' \in Seq(Cell) /\ Len(LOG_QUEUE') <= MAX_LOG_BUFF
  BY EnqueueType DEF logMessage
<1>2. left' \in [Task -> 0 .. MaxLogs]
  BY ConstantTypes DEF logMessage, Inv, LogTypeOK
<1> QED BY <1>1, <1>2 DEF logMessage, Inv, LogTypeOK, QueueIsFirst, NobodyWrites,
      CopyIsConsistent, log_task, transfer, socket, host

LEMMA LogTaskKeepsInv ==
  ASSUME Inv, logInit
  PROVE  Inv'
<1> USE ConstantTypes DEF tasks, transfer, socket, host
<1>1. CASE CreateQueue
  <2>1. transfer_pc = "none" /\ offset = 0 BY <1>1 DEF CreateQueue, Inv, QueueIsFirst
  <2>2. LOG_QUEUE' = << >> /\ log_txt' = << >> /\ << >> \in Seq(Cell) /\ Len(<< >>) = 0
    BY <1>1, EmptySeq DEF CreateQueue
  <2>3. LogTypeOK' BY <1>1, <2>1, <2>2 DEF CreateQueue, Inv, LogTypeOK
  <2>4. (QueueIsFirst /\ NobodyWrites /\ CopyIsConsistent)'
    BY <1>1, <2>1 DEF CreateQueue, Inv, QueueIsFirst, NobodyWrites, CopyIsConsistent
  <2> QED BY <2>3, <2>4 DEF Inv
<1>2. CASE ResumeInit
  BY <1>2 DEF ResumeInit, Inv, LogTypeOK, QueueIsFirst, NobodyWrites, CopyIsConsistent
<1>3. CASE Receive
  <2>1. log_buffer' \in Cell /\ LOG_QUEUE' \in Seq(Cell) /\ Len(LOG_QUEUE') = Len(LOG_QUEUE) - 1
    BY <1>3, HeadTailProperties DEF Receive, Inv, LogTypeOK
  <2>2. Len(LOG_QUEUE) \in Nat BY LenProperties DEF Inv, LogTypeOK
  <2>3. LogTypeOK' BY <1>3, <2>1, <2>2 DEF Receive, Inv, LogTypeOK
  <2>4. (QueueIsFirst /\ NobodyWrites /\ CopyIsConsistent)'
    BY <1>3 DEF Receive, Inv, QueueIsFirst, NobodyWrites, CopyIsConsistent
  <2> QED BY <2>3, <2>4 DEF Inv
<1>4. CASE Write
  <2>1. transfer_pc \notin {"stat", "open", "seek", "copy", "resume"}
    BY <1>4 DEF Write, Inv, NobodyWrites
  <2>2. log_txt' \in Seq(Cell) BY <1>4, AppendProperties DEF Write, Inv, LogTypeOK
  <2>3. offset' \in 0 .. Len(log_txt') BY <1>4, <2>2, LenProperties DEF Write
  <2>4. LogTypeOK' BY <1>4, <2>2, <2>3 DEF Write, Inv, LogTypeOK
  <2>5. (QueueIsFirst /\ NobodyWrites /\ CopyIsConsistent)'
    BY <1>4, <2>1 DEF Write, Inv, QueueIsFirst, NobodyWrites, CopyIsConsistent
  <2> QED BY <2>4, <2>5 DEF Inv
<1>5. CASE WriteFails
  BY <1>5 DEF WriteFails, Inv, LogTypeOK, QueueIsFirst, NobodyWrites, CopyIsConsistent
<1> QED BY <1>1, <1>2, <1>3, <1>4, <1>5 DEF logInit

LEMMA NewTransferKeepsInv ==
  ASSUME Inv, sendLogToHost
  PROVE  Inv'
<1> USE ConstantTypes DEF tasks, log_task
<1>1. buffer_to_send' \in [1 .. SO_SNDBUF -> Cell]
  BY CellTypes DEF sendLogToHost
<1>2. transfers' \in 0 .. MaxTransfers BY DEF sendLogToHost, Inv, LogTypeOK
<1>3. /\ stream' \in Seq(Cell) /\ encoded_log' \in Seq(Cell)
      /\ saved' \in [success : BOOLEAN, log : Seq(Cell)]
  BY EmptySeq DEF sendLogToHost
<1>4. LogTypeOK' BY <1>1, <1>2, <1>3 DEF sendLogToHost, Inv, LogTypeOK
<1>5. (QueueIsFirst /\ NobodyWrites /\ CopyIsConsistent)'
  BY DEF sendLogToHost, Inv, QueueIsFirst, NobodyWrites, CopyIsConsistent
<1> QED BY <1>4, <1>5 DEF Inv

LEMMA CopyingKeepsInv ==
  ASSUME Inv,
         \/ Announce \/ SuspendLog \/ SuspendFails \/ Stat \/ OpenCopy \/ Seek \/ CopyBlock
         \/ GiveUp \/ ResumeLog
  PROVE  Inv'
<1> USE ConstantTypes DEF tasks, log_task, socket, host
<1>1. CASE Announce
  <2>1. logged' \in Nat /\ LOG_QUEUE' \in Seq(Cell) /\ Len(LOG_QUEUE') <= MAX_LOG_BUFF
    BY <1>1, EnqueueType DEF Announce
  <2>2. LogTypeOK' BY <1>1, <2>1 DEF Announce, Inv, LogTypeOK
  <2>3. (QueueIsFirst /\ NobodyWrites /\ CopyIsConsistent)'
    BY <1>1 DEF Announce, Inv, QueueIsFirst, NobodyWrites, CopyIsConsistent
  <2> QED BY <2>2, <2>3 DEF Inv
<1>2. CASE SuspendLog
  BY <1>2 DEF SuspendLog, Inv, LogTypeOK, QueueIsFirst, NobodyWrites, CopyIsConsistent
<1>3. CASE SuspendFails
  BY <1>3 DEF SuspendFails, Inv, LogTypeOK, QueueIsFirst, NobodyWrites, CopyIsConsistent
<1>4. CASE Stat
  BY <1>4 DEF Stat, Inv, LogTypeOK, QueueIsFirst, NobodyWrites, CopyIsConsistent
<1>5. CASE OpenCopy
  BY <1>5, EmptySeq
    DEF OpenCopy, Inv, LogTypeOK, QueueIsFirst, NobodyWrites, CopyIsConsistent
<1>6. CASE Seek
  <2>1. copy = << >> /\ copy' = copy /\ log_txt' = log_txt /\ offset' = 0
    BY <1>6 DEF Seek, Inv, NobodyWrites
  <2>2. Len(log_txt) \in Nat BY LenProperties DEF Inv, LogTypeOK
  <2>3. SubSeq(log_txt', 1, offset') = << >> BY <2>1, SubSeqEmpty
  <2>4. LogTypeOK' BY <1>6, <2>2 DEF Seek, Inv, LogTypeOK
  <2>5. (QueueIsFirst /\ NobodyWrites)' BY <1>6 DEF Seek, Inv, QueueIsFirst, NobodyWrites
  <2> QED BY <2>1, <2>3, <2>4, <2>5 DEF Inv, CopyIsConsistent
<1>7. CASE CopyBlock
  <2> DEFINE read == Read(log_txt, offset, BLOCK)
  <2>1. log_txt \in Seq(Cell) /\ copy \in Seq(Cell) /\ offset \in 0 .. Len(log_txt)
    BY DEF Inv, LogTypeOK
  <2>2. copy = SubSeq(log_txt, 1, offset)
    BY <1>7 DEF CopyBlock, Inv, CopyIsConsistent
  <2>3. /\ read \in Seq(Cell)
        /\ offset + Len(read) \in 0 .. Len(log_txt)
        /\ SubSeq(log_txt, 1, offset) \o read = SubSeq(log_txt, 1, offset + Len(read))
    <3>1. offset \in Nat BY <2>1, LenProperties
    <3> QED BY <2>1, <3>1, ReadType, ReadContinues
  <2>4. /\ copy' = copy \o read /\ offset' = offset + Len(read) /\ log_txt' = log_txt
        /\ transfer_pc' \in {"copy", "resume"}
    BY <1>7 DEF CopyBlock
  <2> HIDE DEF read
  <2>5. copy' \in Seq(Cell) BY <2>1, <2>3, <2>4, ConcatProperties
  <2>6. LogTypeOK' BY <1>7, <2>3, <2>4, <2>5 DEF CopyBlock, Inv, LogTypeOK
  <2>7. (QueueIsFirst /\ NobodyWrites)'
    BY <1>7, <2>4 DEF CopyBlock, Inv, QueueIsFirst, NobodyWrites
  <2>8. CopyIsConsistent' BY <2>2, <2>3, <2>4 DEF CopyIsConsistent
  <2> QED BY <2>6, <2>7, <2>8 DEF Inv
<1>8. CASE GiveUp
  BY <1>8 DEF GiveUp, Inv, LogTypeOK, QueueIsFirst, NobodyWrites, CopyIsConsistent
<1>9. CASE ResumeLog
  <2>1. stream' \in Seq(Cell)
    BY <1>9, CellTypes, AppendProperties DEF ResumeLog, Inv, LogTypeOK
  <2> QED BY <1>9, <2>1
        DEF ResumeLog, Inv, LogTypeOK, QueueIsFirst, NobodyWrites, CopyIsConsistent
<1> QED BY <1>1, <1>2, <1>3, <1>4, <1>5, <1>6, <1>7, <1>8, <1>9

LEMMA SendingKeepsInv ==
  ASSUME Inv, Reopen \/ SendBlock \/ EndWithSuccess \/ LogSuccess \/ GiveUpSending
  PROVE  Inv'
<1> USE ConstantTypes DEF tasks, log_task, socket, host
<1>1. CASE Reopen
  BY <1>1 DEF Reopen, Inv, LogTypeOK, QueueIsFirst, NobodyWrites, CopyIsConsistent
<1>2. CASE SendBlock
  <2> DEFINE read == Read(copy, position, SO_SNDBUF)
             sent == buffer_to_send' \o <<Junk>>
  <2>1. copy \in Seq(Cell) /\ position \in Nat /\ stream \in Seq(Cell)
    BY DEF Inv, LogTypeOK
  <2>2. read \in Seq(Cell) /\ Len(read) \in 0 .. SO_SNDBUF BY <2>1, ReadType
  <2>3. /\ buffer_to_send' = [i \in 1 .. SO_SNDBUF |->
                                IF i <= Len(read) THEN read[i] ELSE buffer_to_send[i]]
        /\ position' = position + Len(read)
        /\ \E n \in Len(read) .. SO_SNDBUF + 1 : stream' = stream \o SubSeq(sent, 1, n)
    BY <1>2 DEF SendBlock
  <2> HIDE DEF read
  <2>4. buffer_to_send' \in [1 .. SO_SNDBUF -> Cell]
    <3>1. \A i \in 1 .. SO_SNDBUF : i <= Len(read) => read[i] \in Cell
      BY <2>2, ElementOfSeq
    <3>2. buffer_to_send \in [1 .. SO_SNDBUF -> Cell] BY DEF Inv, LogTypeOK
    <3> QED BY <2>3, <3>1, <3>2
  <2>5. buffer_to_send' \in Seq(Cell) /\ Len(buffer_to_send') = SO_SNDBUF
    <3>1. buffer_to_send' \in Seq(Cell) BY <2>4, SeqDef
    <3> QED BY <2>4, <3>1, LenProperties
  <2>6. sent \in Seq(Cell) /\ Len(sent) = SO_SNDBUF + 1
    <3>1. <<Junk>> \in Seq(Cell) /\ Len(<<Junk>>) = 1 BY CellTypes
    <3> QED BY <2>5, <3>1, ConcatProperties
  <2>7. PICK n \in Len(read) .. SO_SNDBUF + 1 : stream' = stream \o SubSeq(sent, 1, n)
    BY <2>3
  <2> HIDE DEF sent
  <2>8. SubSeq(sent, 1, n) \in Seq(Cell)
    <3>1. n \in Int /\ \A i \in 1 .. n : i \in 1 .. Len(sent) BY <2>2, <2>6, <2>7
    <3>2. \A i \in 1 .. n : sent[i] \in Cell BY <2>6, <3>1, ElementOfSeq
    <3> QED BY <3>1, <3>2, SubSeqProperties
  <2>9. stream' \in Seq(Cell) BY <2>1, <2>7, <2>8, ConcatProperties
  <2>10. position' \in Nat BY <2>1, <2>2, <2>3
  <2>11. LogTypeOK' BY <1>2, <2>4, <2>9, <2>10 DEF SendBlock, Inv, LogTypeOK
  <2>12. (QueueIsFirst /\ NobodyWrites /\ CopyIsConsistent)'
    BY <1>2 DEF SendBlock, Inv, QueueIsFirst, NobodyWrites, CopyIsConsistent
  <2> QED BY <2>11, <2>12 DEF Inv
<1>3. CASE EndWithSuccess
  <2>1. stream' \in Seq(Cell)
    BY <1>3, CellTypes, AppendProperties DEF EndWithSuccess, Inv, LogTypeOK
  <2> QED BY <1>3, <2>1
        DEF EndWithSuccess, Inv, LogTypeOK, QueueIsFirst, NobodyWrites, CopyIsConsistent
<1>4. CASE LogSuccess
  <2>1. logged' \in Nat /\ LOG_QUEUE' \in Seq(Cell) /\ Len(LOG_QUEUE') <= MAX_LOG_BUFF
    BY <1>4, EnqueueType DEF LogSuccess
  <2>2. LogTypeOK' BY <1>4, <2>1 DEF LogSuccess, Inv, LogTypeOK
  <2>3. (QueueIsFirst /\ NobodyWrites /\ CopyIsConsistent)'
    BY <1>4 DEF LogSuccess, Inv, QueueIsFirst, NobodyWrites, CopyIsConsistent
  <2> QED BY <2>2, <2>3 DEF Inv
<1>5. CASE GiveUpSending
  <2>1. stream' \in Seq(Cell)
    BY <1>5, CellTypes, AppendProperties DEF GiveUpSending, Inv, LogTypeOK
  <2> QED BY <1>5, <2>1
        DEF GiveUpSending, Inv, LogTypeOK, QueueIsFirst, NobodyWrites, CopyIsConsistent
<1> QED BY <1>1, <1>2, <1>3, <1>4, <1>5

LEMMA HostKeepsInv ==
  ASSUME Inv, receiveAndSaveLog
  PROVE  Inv'
<1> USE DEF tasks, log_task, transfer, socket
<1>1. CASE HostTalks
  BY <1>1, EmptySeq
    DEF HostTalks, Inv, LogTypeOK, QueueIsFirst, NobodyWrites, CopyIsConsistent
<1>2. CASE HostReceives
  <2>1. stream' \in Seq(Cell) /\ encoded_log' \in Seq(Cell)
    BY <1>2, EmptySeq, ConcatProperties DEF HostReceives, Inv, LogTypeOK
  <2> QED BY <1>2, <2>1
        DEF HostReceives, Inv, LogTypeOK, QueueIsFirst, NobodyWrites, CopyIsConsistent
<1>3. CASE HostSaves
  <2>1. Clean(encoded_log) \in Seq(Cell) /\ UpToLastStart(Clean(encoded_log)) \in Seq(Cell)
    BY CleanType, UpToLastStartType DEF Inv, LogTypeOK
  <2>2. saved' \in [success : BOOLEAN, log : Seq(Cell)] BY <1>3, <2>1 DEF HostSaves
  <2>3. LogTypeOK' BY <1>3, <2>2 DEF HostSaves, Inv, LogTypeOK
  <2>4. (QueueIsFirst /\ NobodyWrites /\ CopyIsConsistent)'
    BY <1>3 DEF HostSaves, Inv, QueueIsFirst, NobodyWrites, CopyIsConsistent
  <2> QED BY <2>3, <2>4 DEF Inv
<1> QED BY <1>1, <1>2, <1>3 DEF receiveAndSaveLog

LEMMA InvHolds == Spec => []Inv
<1>1. Inv /\ [Next]_vars => Inv'
  <2> SUFFICES ASSUME Inv, [Next]_vars PROVE Inv' OBVIOUS
  <2>1. CASE UNCHANGED vars
    BY <2>1 DEF vars, tasks, log_task, transfer, socket, host, Inv, LogTypeOK, QueueIsFirst,
      NobodyWrites, CopyIsConsistent
  <2>2. CASE processLogToSend
    BY <2>2, CopyingKeepsInv, SendingKeepsInv DEF processLogToSend
  <2> QED BY <2>1, <2>2, StartKeepsInv, LogMessageKeepsInv, LogTaskKeepsInv,
        NewTransferKeepsInv, HostKeepsInv DEF Next
<1> QED BY <1>1, InitEstablishesInv, PTL DEF Spec

\* Every variable keeps its type: the queue holds no more than it may, the
\* shared offset stays in the file, and log.py reads no entry it did not receive.
THEOREM LogTypeCorrect == Spec => []LogTypeOK
<1>1. Inv => LogTypeOK BY DEF Inv
<1> QED BY <1>1, InvHolds, PTL

\* No task uses the queue before the log task has created it, whenever that
\* resumes the init task (initTask.c 163-169).
THEOREM QueueIsUsedAfterCreation == Spec => []QueueBeforeUse
<1>1. Inv => QueueBeforeUse BY DEF Inv, QueueIsFirst, QueueBeforeUse
<1> QED BY <1>1, InvHolds, PTL

\* Whatever is logged meanwhile and whatever fails, the copying loop copies the
\* file as it was when the log task was suspended (wifiTask.c 257-397).
THEOREM CopyStaysConsistent == Spec => []CopyIsConsistent
<1>1. Inv => CopyIsConsistent BY DEF Inv
<1> QED BY <1>1, InvHolds, PTL

-----------------------------------------------------------------------------
(* What the host PC saves as a success is the log.                         *)
(*                                                                         *)
(* The entries reach the file in the order in which they were logged, so   *)
(* the announcement of a transfer is the last one of its copy.  The copy   *)
(* is sent in blocks with one cell behind each, and the host PC leaves out *)
(* exactly these cells.                                                    *)

\* The entries are numbered as they are logged; own_start is the last that
\* announces a transfer.
IsEntry(cell, last, start) ==
  /\ cell.kind \in {"log", "start"}
  /\ cell.nr \in 1 .. last
  /\ cell.kind = "start" => cell.nr <= start
  /\ cell.nr = start => cell.kind = "start"

InOrder(s, last, start) ==
  /\ \A i \in 1 .. Len(s) : IsEntry(s[i], last, start)
  /\ \A i, j \in 1 .. Len(s) : i < j => s[i].nr < s[j].nr

\* There is one queue and one log task.
EntriesInOrder ==
  /\ own_start <= logged
  /\ InOrder(log_txt, logged, own_start) /\ InOrder(LOG_QUEUE, logged, own_start)
  /\ \A i \in 1 .. Len(log_txt) : \A j \in 1 .. Len(LOG_QUEUE) : log_txt[i].nr < LOG_QUEUE[j].nr
  /\ log_pc = "write" =>
       /\ IsEntry(log_buffer, logged, own_start)
       /\ \A i \in 1 .. Len(log_txt) : log_txt[i].nr < log_buffer.nr
       /\ \A j \in 1 .. Len(LOG_QUEUE) : log_buffer.nr < LOG_QUEUE[j].nr

\* The file only grows.
CopyIsABeginning ==
  /\ transfer_pc = "none" => copy = << >>
  /\ Len(copy) <= Len(log_txt)
  /\ \A i \in 1 .. Len(copy) : copy[i] = log_txt[i]

LEMMA BeginningOf ==
  ASSUME NEW s \in Seq(Cell), NEW n \in 0 .. Len(s)
  PROVE  /\ SubSeq(s, 1, n) \in Seq(Cell) /\ Len(SubSeq(s, 1, n)) = n
         /\ \A i \in 1 .. n : SubSeq(s, 1, n)[i] = s[i]
<1>1. Len(s) \in Nat BY LenProperties
<1>2. n \in Nat /\ n <= Len(s) BY <1>1
<1>3. \A i \in 1 .. n : i \in 1 .. Len(s) BY <1>1, <1>2
<1>4. \A i \in 1 .. n : s[i] \in Cell BY <1>3, ElementOfSeq
<1> DEFINE t == SubSeq(s, 1, n)
<1>5. /\ t \in Seq(Cell) /\ Len(t) = IF 1 <= n THEN n - 1 + 1 ELSE 0
      /\ \A i \in 1 .. n - 1 + 1 : t[i] = s[1 + i - 1]
  BY <1>2, <1>4, SubSeqProperties
<1> HIDE DEF t
<1>6. n - 1 + 1 = n /\ \A i \in 1 .. n : 1 + i - 1 = i BY <1>2
<1>7. Len(t) = n BY <1>2, <1>5, <1>6
<1>8. \A i \in 1 .. n : t[i] = s[i] BY <1>5, <1>6
<1> QED BY <1>5, <1>7, <1>8 DEF t

\* Nothing that orders the entries is touched.
SameEntries == UNCHANGED <<logged, LOG_QUEUE, log_pc, log_buffer, log_txt, own_start>>

LEMMA SameEntriesInOrder ==
  ASSUME EntriesInOrder, SameEntries
  PROVE  EntriesInOrder'
BY DEF EntriesInOrder, InOrder, IsEntry, SameEntries

\* A new entry goes behind all the others, with a number of its own.
LEMMA EnqueueKeepsOrder ==
  ASSUME Inv, EntriesInOrder, NEW kind \in {"log", "start"}, Enqueue(kind),
         own_start' = IF kind = "start" THEN logged' ELSE own_start,
         UNCHANGED <<log_pc, log_buffer, log_txt>>
  PROVE  EntriesInOrder'
<1> DEFINE entry == [kind |-> kind, nr |-> logged']
<1>1. /\ logged \in Nat /\ logged' = logged + 1 /\ own_start \in Nat /\ own_start <= logged
      /\ LOG_QUEUE \in Seq(Cell) /\ log_txt \in Seq(Cell)
  BY DEF Inv, LogTypeOK, EntriesInOrder, Enqueue
<1>2. entry \in Cell BY <1>1, CellTypes
<1>3. LOG_QUEUE' = Append(LOG_QUEUE, entry) BY DEF Enqueue
<1>4. entry.kind = kind /\ entry.nr = logged + 1 BY <1>1
<1> HIDE DEF entry
<1>5. /\ Len(LOG_QUEUE') = Len(LOG_QUEUE) + 1
      /\ \A i \in 1 .. Len(LOG_QUEUE) : LOG_QUEUE'[i] = LOG_QUEUE[i]
      /\ LOG_QUEUE'[Len(LOG_QUEUE) + 1] = entry
  BY <1>1, <1>2, <1>3, AppendProperties
<1>6. Len(LOG_QUEUE) \in Nat /\ Len(log_txt) \in Nat BY <1>1, LenProperties
<1>7. ASSUME NEW cell, IsEntry(cell, logged, own_start)
      PROVE  IsEntry(cell, logged', own_start') /\ cell.nr < entry.nr
  <2>1. cell.nr \in 1 .. logged /\ cell.nr # logged' BY <1>1, <1>7 DEF IsEntry
  <2>2. CASE kind = "start" BY <1>1, <1>4, <1>7, <2>1, <2>2 DEF IsEntry
  <2>3. CASE kind = "log" BY <1>1, <1>4, <1>7, <2>1, <2>3 DEF IsEntry
  <2> QED BY <2>2, <2>3
<1>8. IsEntry(entry, logged', own_start') BY <1>1, <1>4 DEF IsEntry
<1>9. InOrder(log_txt, logged', own_start') BY <1>7 DEF EntriesInOrder, InOrder
<1>10. \A i \in 1 .. Len(LOG_QUEUE') : IsEntry(LOG_QUEUE'[i], logged', own_start')
  BY <1>5, <1>6, <1>7, <1>8 DEF EntriesInOrder, InOrder
<1>11. \A i, j \in 1 .. Len(LOG_QUEUE') : i < j => LOG_QUEUE'[i].nr < LOG_QUEUE'[j].nr
  BY <1>5, <1>6, <1>7 DEF EntriesInOrder, InOrder
<1>12. \A i \in 1 .. Len(log_txt) : \A j \in 1 .. Len(LOG_QUEUE') :
         log_txt[i].nr < LOG_QUEUE'[j].nr
  BY <1>5, <1>6, <1>7 DEF EntriesInOrder, InOrder
<1>13. log_pc = "write" =>
         /\ IsEntry(log_buffer, logged', own_start')
         /\ \A j \in 1 .. Len(LOG_QUEUE') : log_buffer.nr < LOG_QUEUE'[j].nr
  BY <1>5, <1>6, <1>7 DEF EntriesInOrder
<1>14. own_start' <= logged' BY <1>1
<1> QED BY <1>9, <1>10, <1>11, <1>12, <1>13, <1>14 DEF EntriesInOrder, InOrder

LEMMA LogTaskKeepsOrder ==
  ASSUME Inv, EntriesInOrder, logInit
  PROVE  EntriesInOrder'
<1>1. /\ LOG_QUEUE \in Seq(Cell) /\ log_txt \in Seq(Cell)
      /\ Len(LOG_QUEUE) \in Nat /\ Len(log_txt) \in Nat /\ log_buffer \in Cell
  BY LenProperties DEF Inv, LogTypeOK
<1>2. UNCHANGED <<logged, own_start>>
  BY DEF logInit, CreateQueue, ResumeInit, Receive, Write, WriteFails, transfer
<1>4. CASE CreateQueue
  <2>1. Len(LOG_QUEUE') = 0 /\ Len(log_txt') = 0 /\ log_pc' # "write"
    BY <1>4, EmptySeq DEF CreateQueue
  <2> QED BY <1>2, <2>1 DEF EntriesInOrder, InOrder
<1>5. CASE ResumeInit \/ WriteFails
  BY <1>2, <1>5 DEF ResumeInit, WriteFails, EntriesInOrder, InOrder
<1>6. CASE Receive
  <2>1. LOG_QUEUE # << >> /\ LOG_QUEUE' = Tail(LOG_QUEUE) /\ log_buffer' = Head(LOG_QUEUE)
    BY <1>6 DEF Receive
  <2>2. /\ Len(LOG_QUEUE') = Len(LOG_QUEUE) - 1
        /\ \A i \in 1 .. Len(LOG_QUEUE') : LOG_QUEUE'[i] = LOG_QUEUE[i + 1]
    BY <1>1, <2>1, HeadTailProperties
  <2>3. Len(LOG_QUEUE) > 0 BY <1>1, <2>1, EmptySeq
  <2>4. log_buffer' = LOG_QUEUE[1] BY <2>1
  <2>5. log_txt' = log_txt /\ log_pc = "receive" BY <1>6 DEF Receive
  <2>6. IsEntry(log_buffer', logged, own_start) BY <1>1, <2>3, <2>4 DEF EntriesInOrder, InOrder
  <2>7. InOrder(LOG_QUEUE', logged, own_start)
    <3>1. \A i \in 1 .. Len(LOG_QUEUE') : i + 1 \in 1 .. Len(LOG_QUEUE) /\ i \in Nat
      BY <1>1, <2>2
    <3>2. InOrder(LOG_QUEUE, logged, own_start) BY DEF EntriesInOrder
    <3>3. \A i \in 1 .. Len(LOG_QUEUE') : IsEntry(LOG_QUEUE'[i], logged, own_start)
      BY <2>2, <3>1, <3>2 DEF InOrder
    <3>4. ASSUME NEW i \in 1 .. Len(LOG_QUEUE'), NEW j \in 1 .. Len(LOG_QUEUE'), i < j
          PROVE  LOG_QUEUE'[i].nr < LOG_QUEUE'[j].nr
      <4>1. i + 1 < j + 1 BY <3>1, <3>4
      <4>2. LOG_QUEUE[i + 1].nr < LOG_QUEUE[j + 1].nr BY <3>1, <3>2, <4>1 DEF InOrder
      <4> QED BY <2>2, <4>2
    <3> QED BY <3>3, <3>4 DEF InOrder
  <2>8. \A j \in 1 .. Len(LOG_QUEUE') : log_buffer'.nr < LOG_QUEUE'[j].nr
    BY <1>1, <2>2, <2>3, <2>4 DEF EntriesInOrder, InOrder
  <2>9. \A i \in 1 .. Len(log_txt) :
          /\ log_txt[i].nr < log_buffer'.nr
          /\ \A j \in 1 .. Len(LOG_QUEUE') : log_txt[i].nr < LOG_QUEUE'[j].nr
    BY <1>1, <2>2, <2>3, <2>4 DEF EntriesInOrder
  <2>10. InOrder(log_txt', logged, own_start) BY <2>5 DEF EntriesInOrder, InOrder
  <2> QED BY <1>2, <2>5, <2>6, <2>7, <2>8, <2>9, <2>10 DEF EntriesInOrder
<1>7. CASE Write
  <2>1. log_txt' = Append(log_txt, log_buffer) /\ LOG_QUEUE' = LOG_QUEUE /\ log_pc' = "receive"
    BY <1>7 DEF Write
  <2>2. /\ Len(log_txt') = Len(log_txt) + 1
        /\ \A i \in 1 .. Len(log_txt) : log_txt'[i] = log_txt[i]
        /\ log_txt'[Len(log_txt) + 1] = log_buffer
    BY <1>1, <2>1, AppendProperties
  <2>3. log_pc = "write" BY <1>7 DEF Write
  <2>4. InOrder(log_txt', logged, own_start) BY <1>1, <2>2, <2>3 DEF EntriesInOrder, InOrder
  <2>5. InOrder(LOG_QUEUE', logged, own_start) BY <2>1 DEF EntriesInOrder, InOrder
  <2>6. \A i \in 1 .. Len(log_txt') : \A j \in 1 .. Len(LOG_QUEUE) :
          log_txt'[i].nr < LOG_QUEUE[j].nr
    BY <1>1, <2>2, <2>3 DEF EntriesInOrder
  <2> QED BY <1>2, <2>1, <2>4, <2>5, <2>6 DEF EntriesInOrder
<1> QED BY <1>4, <1>5, <1>6, <1>7 DEF logInit

LEMMA StepKeepsOrder ==
  ASSUME Inv, EntriesInOrder, [Next]_vars
  PROVE  EntriesInOrder'
<1>1. CASE \E t \in Task : logMessage(t)
  <2>1. Enqueue("log") /\ UNCHANGED <<own_start, log_pc, log_buffer, log_txt>>
    BY <1>1 DEF logMessage, log_task, transfer
  <2> QED BY <2>1, EnqueueKeepsOrder
<1>2. CASE Announce
  <2>1. Enqueue("start") /\ own_start' = logged' /\ UNCHANGED <<log_pc, log_buffer, log_txt>>
    BY <1>2 DEF Announce, log_task
  <2> QED BY <2>1, EnqueueKeepsOrder
<1>3. CASE LogSuccess
  <2>1. Enqueue("log") /\ UNCHANGED <<own_start, log_pc, log_buffer, log_txt>>
    BY <1>3 DEF LogSuccess, log_task
  <2> QED BY <2>1, EnqueueKeepsOrder
<1>4. CASE ActivateLog
  BY <1>4 DEF ActivateLog, transfer, EntriesInOrder, InOrder, IsEntry
<1>5. ASSUME \/ AwaitLog \/ sendLogToHost
             \/ SuspendLog \/ SuspendFails \/ Stat \/ OpenCopy \/ Seek \/ CopyBlock \/ GiveUp
             \/ ResumeLog \/ Reopen \/ SendBlock \/ EndWithSuccess \/ GiveUpSending
             \/ receiveAndSaveLog \/ UNCHANGED vars
      PROVE  SameEntries
  BY <1>5 DEF AwaitLog, sendLogToHost, SuspendLog, SuspendFails, Stat, OpenCopy, Seek, CopyBlock,
    GiveUp, ResumeLog, Reopen, SendBlock, EndWithSuccess, GiveUpSending, receiveAndSaveLog,
    HostTalks, HostReceives, HostSaves, vars, tasks, log_task, transfer, SameEntries
<1> QED BY <1>1, <1>2, <1>3, <1>4, <1>5, LogTaskKeepsOrder, SameEntriesInOrder
      DEF Next, processLogToSend

LEMMA StepKeepsCopyABeginning ==
  ASSUME Inv, Inv', CopyIsABeginning, [Next]_vars
  PROVE  CopyIsABeginning'
<1>1. /\ log_txt \in Seq(Cell) /\ copy \in Seq(Cell)
      /\ Len(log_txt) \in Nat /\ Len(copy) \in Nat
  BY LenProperties DEF Inv, LogTypeOK
<1>2. CASE CreateQueue
  <2>1. transfer_pc = "none" /\ copy = << >> BY <1>2 DEF CreateQueue, Inv, QueueIsFirst, CopyIsABeginning
  <2>2. Len(copy) = 0 /\ Len(log_txt') = 0 /\ copy' = copy
    BY <1>2, <2>1, EmptySeq DEF CreateQueue
  <2> QED BY <1>2, <2>1, <2>2 DEF CopyIsABeginning
<1>3. CASE Write
  <2>1. /\ Len(log_txt') = Len(log_txt) + 1
        /\ \A i \in 1 .. Len(log_txt) : log_txt'[i] = log_txt[i]
        /\ UNCHANGED <<transfer_pc, copy>>
    BY <1>1, <1>3, AppendProperties DEF Write, Inv, LogTypeOK, transfer
  <2> QED BY <1>1, <2>1 DEF CopyIsABeginning
<1>4. CASE OpenCopy
  <2>1. Len(copy') = 0 /\ copy' = << >> /\ log_txt' = log_txt BY <1>4, EmptySeq DEF OpenCopy
  <2> QED BY <1>1, <2>1 DEF CopyIsABeginning
<1>5. CASE CopyBlock
  <2>1. transfer_pc' \in {"copy", "resume"} /\ log_txt' = log_txt BY <1>5 DEF CopyBlock
  <2>2. copy' = SubSeq(log_txt, 1, offset') /\ offset' \in 0 .. Len(log_txt)
    BY <2>1 DEF Inv, LogTypeOK, CopyIsConsistent
  <2>3. Len(copy') = offset' /\ \A i \in 1 .. offset' : copy'[i] = log_txt[i]
    BY <1>1, <2>2, BeginningOf
  <2>4. transfer_pc' # "none" /\ offset' <= Len(log_txt) BY <1>1, <2>1, <2>2
  <2> QED BY <2>1, <2>3, <2>4 DEF CopyIsABeginning
<1>6. ASSUME \/ ActivateLog \/ AwaitLog \/ ResumeInit \/ Receive \/ WriteFails \/ sendLogToHost
             \/ \E t \in Task : logMessage(t)
             \/ Announce \/ SuspendLog \/ SuspendFails \/ Stat \/ Seek \/ GiveUp
             \/ ResumeLog \/ Reopen \/ SendBlock \/ EndWithSuccess \/ LogSuccess \/ GiveUpSending
             \/ receiveAndSaveLog \/ UNCHANGED vars
      PROVE  UNCHANGED <<copy, log_txt>> /\ (transfer_pc' = "none" => transfer_pc = "none")
  BY <1>6 DEF ActivateLog, AwaitLog, ResumeInit, Receive, WriteFails, sendLogToHost, logMessage,
    Announce, SuspendLog, SuspendFails, Stat, Seek, GiveUp, ResumeLog, Reopen, SendBlock,
    EndWithSuccess, LogSuccess, GiveUpSending, receiveAndSaveLog, HostTalks, HostReceives,
    HostSaves, vars, transfer
<1> QED BY <1>2, <1>3, <1>4, <1>5, <1>6 DEF Next, logInit, processLogToSend, CopyIsABeginning

\* Division by the size of a block.
LEMMA QuotientIs ==
  ASSUME NEW D \in Nat, D > 0, NEW m \in Nat, NEW r \in 0 .. D - 1, NEW L \in Nat, L = m * D + r
  PROVE  L \div D = m /\ L % D = r
<1> DEFINE q == L \div D
           x == L % D
<1>1. q \in Nat /\ x \in 0 .. D - 1 /\ L = D * q + x BY DivMod
<1> HIDE DEF q, x
<1>2. m * D \in Nat /\ D * q \in Nat BY <1>1
<1>3. ASSUME q > m PROVE FALSE
  <2>1. D * q >= D * (m + 1) /\ D * (m + 1) = m * D + D BY <1>1, <1>3
  <2> QED BY <1>1, <1>2, <2>1
<1>4. ASSUME q < m PROVE FALSE
  <2>1. D * m >= D * (q + 1) /\ D * (q + 1) = D * q + D /\ D * m = m * D BY <1>1, <1>4
  <2> QED BY <1>1, <1>2, <2>1
<1>5. q = m BY <1>1, <1>3, <1>4
<1>6. D * q = m * D BY <1>1, <1>5
<1> QED BY <1>1, <1>2, <1>5, <1>6 DEF q, x

\* Cell j of block b, and the cell of the stream that holds it.
LEMMA CellOfBlock ==
  ASSUME NEW S \in Nat, S > 0, NEW b \in Nat, NEW j \in 1 .. S
  PROVE  /\ b * S + j \in Nat /\ b * S + j > 0
         /\ (b * S + j) + ((b * S + j) - 1) \div S = b * (S + 1) + j
<1> DEFINE p == b * S
<1>1. p \in Nat /\ b * (S + 1) = p + b OBVIOUS
<1>2. (p + j) - 1 \in Nat /\ j - 1 \in 0 .. S - 1 /\ (p + j) - 1 = p + (j - 1) BY <1>1
<1>3. ((p + j) - 1) \div S = b
  <2> DEFINE L == (p + j) - 1
             r == j - 1
  <2>1. L \in Nat /\ r \in 0 .. S - 1 /\ L = b * S + r BY <1>2
  <2> HIDE DEF L, r, p
  <2>2. L \div S = b BY <2>1, QuotientIs
  <2> QED BY <2>2 DEF L
<1> HIDE DEF p
<1>4. p + j \in Nat /\ p + j > 0 /\ (p + j) + b = (p + b) + j BY <1>1
<1> QED BY <1>1, <1>3, <1>4 DEF p

LEMMA InABlock ==
  ASSUME NEW S \in Nat, S > 0, NEW i \in Nat, i > 0
  PROVE  \E b \in Nat : \E j \in 1 .. S : i = b * S + j
<1> DEFINE b == (i - 1) \div S
           e == (i - 1) % S
<1>1. b \in Nat /\ e \in 0 .. S - 1 /\ i - 1 = S * b + e BY DivMod
<1> HIDE DEF b, e
<1>2. S * b = b * S /\ S * b \in Nat BY <1>1
<1>3. e + 1 \in 1 .. S /\ i = b * S + (e + 1) BY <1>1, <1>2
<1> QED BY <1>1, <1>3

LEMMA TimesGrow ==
  ASSUME NEW a \in Nat, NEW b \in Nat, NEW c \in Nat, a <= b
  PROVE  a * c <= b * c
OBVIOUS

\* A block that begins before the end of k blocks lies in them.
LEMMA BlocksBefore ==
  ASSUME NEW S \in Nat, NEW b \in Nat, NEW j \in 1 .. S, NEW k \in Nat
  PROVE  /\ b < k <=> b * S + j <= k * S
         /\ b < k => b * (S + 1) + j < k * (S + 1)
<1> DEFINE p == b * S
           q == k * S
<1>1. p \in Nat /\ q \in Nat OBVIOUS
<1>2. b * (S + 1) = p + b /\ k * (S + 1) = q + k OBVIOUS
<1>3. b < k => p + S <= q
  <2> SUFFICES ASSUME b < k PROVE p + S <= q OBVIOUS
  <2>1. (b + 1) * S <= k * S BY TimesGrow
  <2>2. (b + 1) * S = p + S OBVIOUS
  <2> QED BY <2>1, <2>2
<1>4. b >= k => q <= p BY TimesGrow
<1> HIDE DEF p, q
<1>5. b < k <=> p + j <= q BY <1>1, <1>3, <1>4
<1>6. b < k => (p + b) + j < q + k BY <1>1, <1>3
<1> QED BY <1>2, <1>5, <1>6 DEF p, q

-----------------------------------------------------------------------------
(* What Clean leaves.                                                      *)

LEMMA CleanLength ==
  ASSUME NEW log \in Seq(Cell), NEW m \in Nat, NEW r \in 0 .. SO_SNDBUF,
         Len(log) = m * (SO_SNDBUF + 1) + r
  PROVE  Len(Clean(log)) = m * SO_SNDBUF + r
<1>1. Len(log) \in Nat /\ SO_SNDBUF + 1 \in Nat /\ SO_SNDBUF + 1 > 0
      /\ r \in 0 .. (SO_SNDBUF + 1) - 1 /\ SO_SNDBUF \in Nat
  BY LenProperties, ConstantTypes
<1>2. Len(log) \div (SO_SNDBUF + 1) = m /\ Len(log) % (SO_SNDBUF + 1) = r
  BY <1>1, QuotientIs
<1> DEFINE kept == m * SO_SNDBUF + r
<1>3. Clean(log) = [i \in 1 .. kept |-> log[i + ((i - 1) \div SO_SNDBUF)]]
  BY <1>1, <1>2 DEF Clean
<1>4. kept \in Nat BY <1>1
<1> HIDE DEF kept
<1>5. Clean(log) \in Seq(Cell) BY CleanType
<1>6. DOMAIN Clean(log) = 1 .. kept BY <1>3
<1>7. Len(Clean(log)) = kept BY <1>4, <1>5, <1>6, LenProperties
<1> QED BY <1>7 DEF kept

LEMMA CleanCell ==
  ASSUME NEW log \in Seq(Cell), NEW i \in 1 .. Len(Clean(log))
  PROVE  /\ Clean(log)[i] = log[i + ((i - 1) \div SO_SNDBUF)]
         /\ i + ((i - 1) \div SO_SNDBUF) \in 1 .. Len(log)
<1> DEFINE kept == (Len(log) \div (SO_SNDBUF + 1)) * SO_SNDBUF
                     + (IF Len(log) % (SO_SNDBUF + 1) > SO_SNDBUF THEN SO_SNDBUF
                                                                ELSE Len(log) % (SO_SNDBUF + 1))
<1>1. Len(log) \in Nat BY LenProperties
<1>2. /\ Len(log) \div (SO_SNDBUF + 1) \in Nat
      /\ Len(log) % (SO_SNDBUF + 1) \in Nat
  BY <1>1, ConstantTypes, DivMod
<1>3. kept \in Nat BY <1>2, ConstantTypes
<1>4. Clean(log) = [x \in 1 .. kept |-> log[x + ((x - 1) \div SO_SNDBUF)]] BY DEF Clean
<1>5. i \in 1 .. Len(Clean(log)) /\ Clean(log) \in Seq(Cell) BY CleanType
<1>6. i \in DOMAIN Clean(log) BY <1>5, LenProperties
<1>7. i \in 1 .. kept BY <1>4, <1>6
<1>8. i \in Nat /\ i > 0 /\ i <= kept BY <1>3, <1>7
<1>9. i + ((i - 1) \div SO_SNDBUF) \in 1 .. Len(log) BY <1>1, <1>8, ConstantTypes, CleanIndex
<1> QED BY <1>4, <1>7, <1>9

LEMMA CleanCellOfBlock ==
  ASSUME NEW log \in Seq(Cell), NEW b \in Nat, NEW j \in 1 .. SO_SNDBUF,
         b * SO_SNDBUF + j <= Len(Clean(log))
  PROVE  Clean(log)[b * SO_SNDBUF + j] = log[b * (SO_SNDBUF + 1) + j]
<1> DEFINE i == b * SO_SNDBUF + j
<1>1. /\ i \in Nat /\ i > 0
      /\ i + ((i - 1) \div SO_SNDBUF) = b * (SO_SNDBUF + 1) + j
  BY ConstantTypes, CellOfBlock
<1>2. Len(Clean(log)) \in Nat BY CleanType, LenProperties
<1>3. i <= Len(Clean(log)) OBVIOUS
<1> HIDE DEF i
<1>4. i \in 1 .. Len(Clean(log)) BY <1>1, <1>2, <1>3
<1>5. Clean(log)[i] = log[i + ((i - 1) \div SO_SNDBUF)] BY <1>4, CleanCell
<1> QED BY <1>1, <1>5 DEF i

End == Mark("[END_WITH_SUCCESS]")

NoEnd(s) == \A i \in 1 .. Len(s) : s[i] # End

\* Without the mark of a success there is none.
LEMMA CleanKeepsNoEnd ==
  ASSUME NEW log \in Seq(Cell), NoEnd(log)
  PROVE  NoEnd(Clean(log))
<1> SUFFICES ASSUME NEW i \in 1 .. Len(Clean(log)) PROVE Clean(log)[i] # End BY DEF NoEnd
<1> QED BY CleanCell DEF NoEnd

-----------------------------------------------------------------------------
(* What has been sent.                                                     *)

\* The first n cells of s begin with k full blocks, one cell behind each.
FullBlocks(s, n, k) ==
  /\ k * SO_SNDBUF <= Len(copy) /\ k * (SO_SNDBUF + 1) <= n
  /\ \A b \in 0 .. k - 1 : \A j \in 1 .. SO_SNDBUF :
       s[b * (SO_SNDBUF + 1) + j] = copy[b * SO_SNDBUF + j]

\* What the buffer holds after k full blocks.
Buffered(k, j) == IF k = 0 THEN Junk ELSE copy[(k - 1) * SO_SNDBUF + j]

OnlyBlocks(n, k) ==
  /\ position = k * SO_SNDBUF /\ n = k * (SO_SNDBUF + 1)
  /\ \A j \in 1 .. SO_SNDBUF : buffer_to_send[j] = Buffered(k, j)

\* Behind the blocks a last one that the rest of the copy does not fill.
ShorterBlock(s, n, k) ==
  /\ Len(copy) - k * SO_SNDBUF \in 1 .. SO_SNDBUF - 1
  /\ position = Len(copy)
  /\ IF k > 0 THEN n = (k + 1) * (SO_SNDBUF + 1) ELSE n \in Len(copy) .. SO_SNDBUF + 1
  /\ \A j \in 1 .. SO_SNDBUF :
       k * (SO_SNDBUF + 1) + j <= n =>
         s[k * (SO_SNDBUF + 1) + j] =
           IF k * SO_SNDBUF + j <= Len(copy) THEN copy[k * SO_SNDBUF + j] ELSE Buffered(k, j)

Sent(s, n) == \E k \in Nat : FullBlocks(s, n, k) /\ (OnlyBlocks(n, k) \/ ShorterBlock(s, n, k))

\* log begins with the copy; a start that follows is one of the stale entries.
IsTheCopy(log) ==
  /\ Len(copy) <= Len(log)
  /\ \A i \in 1 .. Len(copy) : log[i] = copy[i]
  /\ \A i \in 1 .. Len(log) :
       i > Len(copy) /\ log[i].kind = "start" => \E q \in Stale : copy[q] = log[i]

\* Every cell behind a block is left out, and nothing else, whatever the last
\* block is; if it ends with the cell that is left out, so does the success.
LEMMA CleanedIsTheCopy ==
  ASSUME NEW s \in Seq(Cell), NEW n \in Nat, Len(s) = n + 1, s[n + 1] = End, Sent(s, n),
         copy \in Seq(Cell), position = Len(copy),
         Clean(s) # << >>, Clean(s)[Len(Clean(s))] = End
  PROVE  IsTheCopy(Clean(s))
<1> DEFINE S == SO_SNDBUF
           C == Clean(s)
           N == Len(copy)
<1>1. S \in Nat /\ S > 0 /\ N \in Nat /\ DOMAIN copy = 1 .. N
  BY ConstantTypes, LenProperties
<1>2. PICK k \in Nat : FullBlocks(s, n, k) /\ (OnlyBlocks(n, k) \/ ShorterBlock(s, n, k))
  BY DEF Sent
<1>3. /\ End.kind # "start" /\ Junk.kind # "start" /\ Junk # End
  BY DEF End, Junk, Mark
<1>4. C \in Seq(Cell) /\ Len(C) \in Nat BY CleanType, LenProperties
<1>5. \A b \in Nat : \A j \in 1 .. S :
        b * S + j <= Len(C) => C[b * S + j] = s[b * (S + 1) + j]
  BY CleanCellOfBlock
<1>6. \A i \in Nat : i > 0 => \E b \in Nat : \E j \in 1 .. S : i = b * S + j
  BY <1>1, InABlock
<1>7. \A b \in Nat : \A j \in 1 .. S : b < k <=> b * S + j <= k * S
  BY <1>1, BlocksBefore
<1>8. /\ k * S \in Nat /\ k * (S + 1) = k * S + k
      /\ (k + 1) * S = k * S + S /\ (k + 1) * (S + 1) = k * S + k + S + 1
  BY <1>1
<1>9. \A b \in 0 .. k - 1 : \A j \in 1 .. S : s[b * (S + 1) + j] = copy[b * S + j]
  BY <1>2 DEF FullBlocks
<1>10. k * S <= N /\ k * (S + 1) <= n BY <1>2 DEF FullBlocks
<1>11. \A r \in 0 .. S : \A m \in Nat : n + 1 = m * (S + 1) + r => Len(C) = m * S + r
  BY CleanLength
<1> HIDE DEF S, C, N
\* The full blocks.
<1>12. ASSUME NEW i \in Nat, i > 0, i <= k * S, i <= Len(C)
       PROVE  C[i] = copy[i]
  <2>1. PICK b \in Nat, j \in 1 .. S : i = b * S + j BY <1>6, <1>12
  <2>2. b < k BY <1>7, <1>12, <2>1
  <2>3. b \in 0 .. k - 1 BY <2>2
  <2> QED BY <1>5, <1>9, <1>12, <2>1, <2>3
<1>13. CASE OnlyBlocks(n, k)
  <2>1. N = k * S /\ n = k * (S + 1) BY <1>13 DEF OnlyBlocks, S, N
  <2>2. Len(C) = k * S + 1 BY <1>1, <1>8, <1>11, <2>1
  <2>3. C[k * S + 1] = s[k * (S + 1) + 1]
    <3>1. 1 \in 1 .. S /\ k * S + 1 <= Len(C) BY <1>1, <1>4, <2>2
    <3> QED BY <1>5, <3>1
  <2>4. C[k * S + 1] = End BY <2>1, <2>3
  <2>5. \A i \in 1 .. Len(C) : i > N => i = k * S + 1 BY <1>8, <2>1, <2>2
  <2>6. \A i \in 1 .. N : C[i] = copy[i] BY <1>8, <1>12, <2>1, <2>2
  <2> QED BY <1>3, <1>8, <2>1, <2>2, <2>4, <2>5, <2>6 DEF IsTheCopy, C, N
<1>14. CASE ShorterBlock(s, n, k)
  <2> DEFINE p == k * S
             q == k * (S + 1)
  <2>1. /\ N - p \in 1 .. S - 1
        /\ IF k > 0 THEN n = (k + 1) * (S + 1) ELSE n \in N .. S + 1
        /\ \A j \in 1 .. S :
             q + j <= n => s[q + j] = IF p + j <= N THEN copy[p + j] ELSE Buffered(k, j)
    BY <1>14 DEF ShorterBlock, S, N
  <2>2. \A j \in 1 .. S : p + j <= Len(C) => C[p + j] = s[q + j] BY <1>5
  <2>3. p \in Nat /\ q = p + k BY <1>8
  <2>4. k = 0 => p = 0 /\ q = 0 BY <1>1
  <2>5. \A i \in 1 .. p : i <= Len(C) => C[i] = copy[i] BY <1>12, <2>3
  <2>6. k > 0 => n = p + k + S + 1 BY <1>8, <2>1
  <2>7. (k + 1) * S = p + S /\ (k + 1) * (S + 1) = p + k + S + 1 BY <1>8
  \* The length of what is left is that of the blocks and the mark.
  <2>8. \/ Len(C) = p + S + 1 /\ n = q + S + 1
        \/ k = 0 /\ n < S /\ Len(C) = n + 1
    <3>1. CASE n = q + S + 1
      <4>1. n + 1 = (k + 1) * (S + 1) + 1 BY <2>3, <2>7, <3>1
      <4>2. 1 \in 0 .. S /\ k + 1 \in Nat BY <1>1
      <4>3. Len(C) = (k + 1) * S + 1 BY <1>11, <4>1, <4>2
      <4> QED BY <2>7, <3>1, <4>3
    <3>2. CASE n # q + S + 1
      <4>1. k = 0 BY <1>2, <2>3, <2>6, <3>2
      <4>2. n \in N .. S BY <1>1, <2>1, <2>4, <3>2, <4>1
      <4>3. CASE n = S
        <5>1. n + 1 = 1 * (S + 1) + 0 /\ 0 \in 0 .. S /\ 1 \in Nat BY <1>1, <4>3
        <5>2. Len(C) = 1 * S + 0 BY <1>11, <5>1
        <5>3. Len(C) = S BY <1>1, <5>2
        <5>4. S \in 1 .. S /\ p + S = S /\ q + S = S BY <1>1, <2>4, <4>1
        <5>5. C[S] = s[S]
          <6>1. p + S <= Len(C) BY <1>1, <5>3, <5>4
          <6> QED BY <2>2, <5>4, <6>1
        <5>6. ~(S <= N) /\ S <= n BY <1>1, <2>1, <2>4, <4>1, <4>3
        <5>7. s[S] = Buffered(k, S) BY <2>1, <5>4, <5>6
        <5>8. C[S] = Junk BY <4>1, <5>5, <5>7 DEF Buffered
        <5>9. C[Len(C)] = End BY DEF C
        <5> QED BY <1>3, <5>3, <5>8, <5>9
      <4>4. CASE n < S
        <5>1. n + 1 = 0 * (S + 1) + (n + 1) /\ n + 1 \in 0 .. S /\ 0 \in Nat BY <1>1, <4>4
        <5>2. Len(C) = 0 * S + (n + 1) BY <1>11, <5>1
        <5>3. Len(C) = n + 1 BY <1>1, <5>2
        <5> QED BY <4>1, <4>4, <5>3
      <4> QED BY <1>1, <4>2, <4>3, <4>4
    <3> QED BY <3>1, <3>2
  <2>9. N <= n - k /\ N < Len(C)
    BY <1>1, <2>1, <2>3, <2>4, <2>8
  <2>10. \A j \in 1 .. S : p + j <= N => q + j <= n /\ p + j <= Len(C)
    BY <1>1, <2>3, <2>9
  <2>11. ASSUME NEW i \in 1 .. N PROVE C[i] = copy[i]
    <3>1. CASE i <= p BY <2>3, <2>5, <2>9, <3>1, <1>1, <1>4
    <3>2. CASE i > p
      <4>1. i - p \in 1 .. S /\ p + (i - p) = i BY <1>1, <2>1, <2>3, <3>2
      <4>2. C[i] = s[q + (i - p)] BY <2>2, <2>10, <4>1
      <4>3. s[q + (i - p)] = copy[i] BY <2>1, <2>10, <4>1
      <4> QED BY <4>2, <4>3
    <3> QED BY <1>1, <2>3, <3>1, <3>2
  <2>12. ASSUME NEW i \in 1 .. Len(C), i > N, C[i].kind = "start"
         PROVE  \E x \in Stale : copy[x] = C[i]
    <3>1. CASE i = Len(C)
      <4>1. C[i] = End BY <3>1 DEF C
      <4> QED BY <1>3, <2>12, <4>1
    <3>2. CASE i # Len(C)
      <4> DEFINE j == i - p
      <4>1. j \in 1 .. S /\ p + j = i /\ ~(p + j <= N) /\ q + j <= n
        BY <1>1, <1>4, <2>1, <2>3, <2>4, <2>8, <2>12, <3>2
      <4> HIDE DEF j
      <4>2. C[i] = Buffered(k, j) BY <2>1, <2>2, <4>1, <1>4
      <4>3. k # 0 BY <1>3, <2>12, <4>2 DEF Buffered
      <4>4. C[i] = copy[(k - 1) * S + j] BY <4>2, <4>3 DEF Buffered, S
      <4>5. (k - 1) * S = p - S BY <1>1
      <4>6. k >= 1 /\ p >= S
        <5>1. k >= 1 BY <4>3, <1>2
        <5>2. 1 * S <= k * S BY <5>1, <1>1, TimesGrow
        <5> QED BY <5>1, <5>2, <1>1
      <4> DEFINE x == (p - S) + j
                 r == N - p
      <4>7. C[i] = copy[x] BY <4>4, <4>5
      <4>8. N % S = r
        <5>1. r \in 0 .. S - 1 /\ N = k * S + r BY <1>1, <2>1, <2>3
        <5> HIDE DEF r, p
        <5> QED BY <1>1, <5>1, QuotientIs
      <4>9. r # 0 /\ x \in 1 .. N /\ N - S < x /\ x <= N - r
        <5>1. p \in Nat /\ N - p \in 1 .. S - 1 /\ j \in 1 .. S /\ ~(p + j <= N) /\ p >= S
          BY <2>1, <2>3, <4>1, <4>6
        <5> HIDE DEF p
        <5> QED BY <1>1, <5>1
      <4>10. x \in Stale BY <1>1, <4>8, <4>9 DEF Stale, N, S
      <4> QED BY <4>7, <4>10
    <3> QED BY <3>1, <3>2
  <2> QED BY <2>9, <2>11, <2>12, <1>1, <1>4 DEF IsTheCopy, C, N
<1> QED BY <1>2, <1>13, <1>14

\* What was sent after [START_SENDING], read by the host PC or not.
Received == encoded_log \o stream

WholeSent ==
  /\ position = Len(copy)
  /\ \E n \in Nat : Len(Received) = n + 1 /\ Received[n + 1] = End /\ Sent(Received, n)

Fresh == encoded_log = << >> /\ \A j \in 1 .. SO_SNDBUF : buffer_to_send[j] = Junk

\* How far the host PC is, and what it has, at each step of a transfer.
TransferInStep ==
  /\ transfer_pc = "none" => host_pc = "none"
  /\ transfer_pc \in {"announce", "suspend", "stat", "open", "seek", "copy", "resume"} =>
       host_pc = "talk" /\ stream = << >> /\ ~closed /\ Fresh
  /\ transfer_pc = "reopen" =>
       /\ ~closed /\ Fresh
       /\ \/ host_pc = "talk" /\ stream # << >>
          \/ host_pc = "receive" /\ stream = << >>
  /\ transfer_pc = "send" =>
       host_pc = "receive" /\ ~closed /\ Sent(Received, Len(Received)) /\ NoEnd(Received)
  /\ transfer_pc \in {"log", "done"} =>
       \/ host_pc = "talk" /\ stream = << >>
       \/ host_pc \in {"receive", "done"} /\ (WholeSent \/ NoEnd(Received))

SavedIsOfTheCopy ==
  host_pc = "done" /\ saved.success =>
    \A i \in 1 .. Len(copy) :
      copy[i].nr = own_start /\ Starts(copy) \intersect Stale = {}
        => saved.log = SubSeq(copy, 1, i)

SavedInv ==
  /\ Inv /\ EntriesInOrder /\ CopyIsABeginning
  /\ TransferInStep /\ SavedIsOfTheCopy

LEMMA CopyInOrder ==
  ASSUME Inv, EntriesInOrder, CopyIsABeginning
  PROVE  InOrder(copy, logged, own_start)
<1>1. Len(copy) \in Nat /\ Len(log_txt) \in Nat /\ Len(copy) <= Len(log_txt)
  BY LenProperties DEF Inv, LogTypeOK, CopyIsABeginning
<1>2. InOrder(log_txt, logged, own_start) BY DEF EntriesInOrder
<1>3. \A i \in 1 .. Len(copy) : i \in 1 .. Len(log_txt) /\ copy[i] = log_txt[i]
  BY <1>1 DEF CopyIsABeginning
<1> QED BY <1>2, <1>3 DEF InOrder

\* The last start in what is received is the one of this transfer.
LEMMA SavedUpToTheStart ==
  ASSUME NEW log \in Seq(Cell), copy \in Seq(Cell), IsTheCopy(log),
         InOrder(copy, logged, own_start), logged \in Nat, own_start \in Nat,
         NEW i \in 1 .. Len(copy), copy[i].nr = own_start, Starts(copy) \intersect Stale = {}
  PROVE  UpToLastStart(log) = SubSeq(copy, 1, i)
<1>1. /\ Len(log) \in Nat /\ Len(copy) \in Nat /\ Len(copy) <= Len(log)
      /\ DOMAIN log = 1 .. Len(log) /\ DOMAIN copy = 1 .. Len(copy)
  BY LenProperties DEF IsTheCopy
<1>2. \A x \in 1 .. Len(copy) : IsEntry(copy[x], logged, own_start)
  BY DEF InOrder
<1>3. copy[i].kind = "start" BY <1>2 DEF IsEntry
<1>4. log[i] = copy[i] /\ i \in 1 .. Len(log) BY <1>1 DEF IsTheCopy
<1>5. i \in Starts(log) BY <1>1, <1>3, <1>4 DEF Starts
<1>6. ASSUME NEW x \in Starts(log) PROVE x <= i
  <2>1. x \in 1 .. Len(log) /\ log[x].kind = "start" BY <1>1 DEF Starts
  <2>2. CASE x > Len(copy)
    <3>1. PICK q \in Stale : copy[q] = log[x] BY <2>1, <2>2 DEF IsTheCopy
    <3>2. q \in Starts(copy) BY <2>1, <3>1 DEF Stale, Starts
    <3> QED BY <3>1, <3>2
  <2>3. CASE x <= Len(copy)
    <3>1. x \in 1 .. Len(copy) BY <1>1, <2>1, <2>3
    <3>2. log[x] = copy[x] BY <3>1 DEF IsTheCopy
    <3>3. copy[x].nr <= own_start /\ copy[x].nr \in Nat
      BY <1>2, <2>1, <3>1, <3>2 DEF IsEntry
    <3>4. ~(i < x)
      <4> SUFFICES ASSUME i < x PROVE FALSE OBVIOUS
      <4>1. copy[i].nr < copy[x].nr BY <3>1 DEF InOrder
      <4> QED BY <3>3, <4>1
    <3> QED BY <1>1, <3>1, <3>4
  <2> QED BY <1>1, <2>1, <2>2, <2>3
<1> DEFINE last == CHOOSE x \in Starts(log) : \A y \in Starts(log) : y <= x
<1>7. last \in Starts(log) /\ \A y \in Starts(log) : y <= last BY <1>5, <1>6
<1>8. last = i
  <2>1. last \in 1 .. Len(log) BY <1>1, <1>7 DEF Starts
  <2>2. last <= i /\ i <= last BY <1>5, <1>6, <1>7
  <2> HIDE DEF last
  <2> QED BY <1>1, <2>1, <2>2
<1>9. UpToLastStart(log) = SubSeq(log, 1, last) BY <1>5 DEF UpToLastStart
<1> HIDE DEF last
<1>10. SubSeq(log, 1, i) = SubSeq(copy, 1, i)
  <2> DEFINE a == SubSeq(log, 1, i)
             b == SubSeq(copy, 1, i)
  <2>1. i \in 0 .. Len(log) /\ i \in 0 .. Len(copy) BY <1>1, <1>4
  <2>2. /\ a \in Seq(Cell) /\ Len(a) = i /\ \A x \in 1 .. i : a[x] = log[x]
        /\ b \in Seq(Cell) /\ Len(b) = i /\ \A x \in 1 .. i : b[x] = copy[x]
    BY <2>1, BeginningOf
  <2>3. \A x \in 1 .. i : log[x] = copy[x] BY <1>1 DEF IsTheCopy
  <2> HIDE DEF a, b
  <2>4. \A x \in 1 .. Len(a) : a[x] = b[x] BY <2>2, <2>3
  <2>5. a = b BY <2>2, <2>4, SeqEqual
  <2> QED BY <2>5 DEF a, b
<1> QED BY <1>8, <1>9, <1>10

LEMMA HostSavesTheCopy ==
  ASSUME SavedInv, HostSaves
  PROVE  SavedIsOfTheCopy'
<1>1. /\ copy \in Seq(Cell) /\ encoded_log \in Seq(Cell)
      /\ logged \in Nat /\ own_start \in Nat
      /\ transfer_pc \in {"none", "announce", "suspend", "stat", "open", "seek", "copy", "resume",
                          "reopen", "send", "log", "done"}
  BY DEF SavedInv, Inv, LogTypeOK
<1>2. host_pc = "receive" /\ stream = << >> /\ closed BY DEF HostSaves
<1>3. UNCHANGED <<copy, own_start>> BY DEF HostSaves, transfer
<1> DEFINE log == Clean(encoded_log)
           success == log # << >> /\ log[Len(log)] = End
<1>4. saved' = [success |-> success, log |-> IF success THEN UpToLastStart(log) ELSE log]
  BY DEF HostSaves, End
<1>5. saved'.success <=> success BY <1>4
<1>6. success => saved'.log = UpToLastStart(log) BY <1>4
<1>7. WholeSent \/ NoEnd(Received) BY <1>1, <1>2 DEF SavedInv, TransferInStep
<1>8. Received = encoded_log BY <1>1, <1>2, ConcatEmptySeq DEF Received
<1>9. log \in Seq(Cell) BY <1>1, CleanType
<1> HIDE DEF log
<1> SUFFICES ASSUME success, NEW i \in 1 .. Len(copy), copy[i].nr = own_start,
                    Starts(copy) \intersect Stale = {}
             PROVE  UpToLastStart(log) = SubSeq(copy, 1, i)
  <2>1. (Starts(copy) \intersect Stale = {})' <=> Starts(copy) \intersect Stale = {}
    BY <1>3 DEF Starts, Stale
  <2> QED BY <1>3, <1>5, <1>6, <2>1 DEF SavedIsOfTheCopy
<1>10. ~NoEnd(log)
  <2>1. Len(log) \in Nat \ {0} BY <1>9, EmptySeq
  <2>2. Len(log) \in 1 .. Len(log) BY <2>1
  <2> QED BY <2>2 DEF NoEnd
<1>11. WholeSent BY <1>1, <1>7, <1>8, <1>10, CleanKeepsNoEnd DEF log
<1>12. PICK n \in Nat : Len(encoded_log) = n + 1 /\ encoded_log[n + 1] = End
                       /\ Sent(encoded_log, n)
  BY <1>8, <1>11 DEF WholeSent
<1>13. position = Len(copy) BY <1>11 DEF WholeSent
<1>14. IsTheCopy(log) BY <1>1, <1>12, <1>13, CleanedIsTheCopy DEF log
<1>15. InOrder(copy, logged, own_start) BY CopyInOrder DEF SavedInv
<1> QED BY <1>1, <1>9, <1>14, <1>15, SavedUpToTheStart

LEMMA StepKeepsSaved ==
  ASSUME SavedInv, [Next]_vars
  PROVE  SavedIsOfTheCopy'
<1>1. CASE HostSaves BY <1>1, HostSavesTheCopy
<1>2. CASE sendLogToHost \/ HostTalks \/ HostReceives
  BY <1>2 DEF sendLogToHost, HostTalks, HostReceives, SavedIsOfTheCopy
<1>3. CASE Announce \/ OpenCopy \/ CopyBlock
  <2>1. host_pc = "talk" /\ host_pc' = host_pc
    BY <1>3 DEF Announce, OpenCopy, CopyBlock, host, SavedInv, TransferInStep
  <2> QED BY <2>1 DEF SavedIsOfTheCopy
<1>4. ASSUME \/ ActivateLog \/ AwaitLog \/ logInit \/ \E t \in Task : logMessage(t)
             \/ SuspendLog \/ SuspendFails \/ Stat \/ Seek \/ GiveUp \/ ResumeLog
             \/ Reopen \/ SendBlock \/ EndWithSuccess \/ LogSuccess \/ GiveUpSending
             \/ UNCHANGED vars
      PROVE  UNCHANGED <<host_pc, saved, copy, own_start>>
  BY <1>4 DEF ActivateLog, AwaitLog, logInit, CreateQueue, ResumeInit, Receive, Write, WriteFails,
    logMessage, SuspendLog, SuspendFails, Stat, Seek, GiveUp, ResumeLog, Reopen, SendBlock,
    EndWithSuccess, LogSuccess, GiveUpSending, vars, transfer, host
<1>5. UNCHANGED <<host_pc, saved, copy, own_start>> => SavedIsOfTheCopy'
  BY DEF SavedInv, SavedIsOfTheCopy, Starts, Stale
<1> QED BY <1>1, <1>2, <1>3, <1>4, <1>5 DEF Next, processLogToSend, receiveAndSaveLog

-----------------------------------------------------------------------------
(* The sending.                                                            *)

\* The cells of a read.
LEMMA ReadCells ==
  ASSUME NEW file \in Seq(Cell), NEW at \in Nat, NEW size \in Nat, at <= Len(file)
  PROVE  /\ Len(Read(file, at, size))
              = IF at + size < Len(file) THEN size ELSE Len(file) - at
         /\ \A i \in 1 .. Len(Read(file, at, size)) : Read(file, at, size)[i] = file[at + i]
<1> DEFINE end == IF at + size < Len(file) THEN at + size ELSE Len(file)
           t == Read(file, at, size)
<1>1. Len(file) \in Nat /\ end \in at .. Len(file) BY LenProperties
<1>2. t = SubSeq(file, at + 1, end) BY DEF Read
<1>3. at + size < Len(file) => end - at = size BY <1>1
<1>4. ~(at + size < Len(file)) => end - at = Len(file) - at BY <1>1
<1> HIDE DEF end, t
<1>5. \A i \in at + 1 .. end : file[i] \in Cell
  <2> TAKE i \in at + 1 .. end
  <2>1. i \in 1 .. Len(file) BY <1>1
  <2> QED BY <2>1, ElementOfSeq
<1>6. /\ Len(t) = IF at + 1 <= end THEN end - (at + 1) + 1 ELSE 0
      /\ \A i \in 1 .. end - (at + 1) + 1 : t[i] = file[at + 1 + i - 1]
  BY <1>1, <1>2, <1>5, SubSeqProperties
<1>7. Len(t) = end - at BY <1>1, <1>6
<1>8. \A i \in 1 .. Len(t) : t[i] = file[at + i]
  <2> TAKE i \in 1 .. Len(t)
  <2>1. i \in 1 .. end - (at + 1) + 1 /\ at + 1 + i - 1 = at + i BY <1>1, <1>7
  <2> QED BY <1>6, <2>1
<1> QED BY <1>3, <1>4, <1>7, <1>8 DEF t

LEMMA NoEndAppended ==
  ASSUME NEW s \in Seq(Cell), NEW t \in Seq(Cell), NoEnd(s), NoEnd(t)
  PROVE  NoEnd(s \o t)
<1>1. Len(s) \in Nat /\ Len(t) \in Nat BY LenProperties
<1>2. /\ Len(s \o t) = Len(s) + Len(t)
      /\ \A i \in 1 .. Len(s) + Len(t) :
           (s \o t)[i] = IF i <= Len(s) THEN s[i] ELSE t[i - Len(s)]
  BY ConcatProperties
<1> SUFFICES ASSUME NEW i \in 1 .. Len(s \o t) PROVE (s \o t)[i] # End BY DEF NoEnd
<1>3. CASE i <= Len(s) BY <1>1, <1>2, <1>3 DEF NoEnd
<1>4. CASE i > Len(s)
  <2>1. i - Len(s) \in 1 .. Len(t) BY <1>1, <1>2, <1>4
  <2> QED BY <1>1, <1>2, <1>4, <2>1 DEF NoEnd
<1> QED BY <1>1, <1>2, <1>3, <1>4

\* Another read: a full block more, or the last one, behind which the buffer
\* still holds the block before.
LEMMA SendBlockKeepsSent ==
  ASSUME SavedInv, SendBlock
  PROVE  (Sent(Received, Len(Received)) /\ NoEnd(Received))'
<1> DEFINE S == SO_SNDBUF
           N == Len(copy)
           R == Received
           read == Read(copy, position, S)
           room == buffer_to_send' \o <<Junk>>
<1>1. /\ S \in Nat /\ S > 0 /\ copy \in Seq(Cell) /\ N \in Nat /\ position \in Nat
      /\ encoded_log \in Seq(Cell) /\ stream \in Seq(Cell)
      /\ buffer_to_send \in [1 .. S -> Cell]
  BY ConstantTypes, LenProperties DEF SavedInv, Inv, LogTypeOK
<1>2. Sent(R, Len(R)) /\ NoEnd(R) BY DEF SendBlock, SavedInv, TransferInStep
<1>3. /\ read # << >> /\ position' = position + Len(read)
      /\ buffer_to_send' = [i \in 1 .. S |-> IF i <= Len(read) THEN read[i] ELSE buffer_to_send[i]]
      /\ \E n \in Len(read) .. S + 1 :
           /\ Junk \notin {buffer_to_send'[i] : i \in 1 .. S} => n = S + 1
           /\ stream' = stream \o SubSeq(room, 1, n)
      /\ copy' = copy /\ encoded_log' = encoded_log
  BY DEF SendBlock, host
<1>4. read \in Seq(Cell) /\ Len(read) \in 0 .. S BY <1>1, ReadType
<1>5. Len(read) # 0 BY <1>3, <1>4, EmptySeq
<1>6. PICK n \in Len(read) .. S + 1 :
        /\ Junk \notin {buffer_to_send'[i] : i \in 1 .. S} => n = S + 1
        /\ stream' = stream \o SubSeq(room, 1, n)
  BY <1>3
<1>7. PICK k \in Nat : FullBlocks(R, Len(R), k) /\ (OnlyBlocks(Len(R), k) \/ ShorterBlock(R, Len(R), k))
  BY <1>2 DEF Sent
<1>8. position <= N
  <2>1. k * SO_SNDBUF <= Len(copy) BY <1>7 DEF FullBlocks
  <2> QED BY <1>1, <1>7, <2>1 DEF OnlyBlocks, ShorterBlock
<1>9. /\ Len(read) = IF position + S < N THEN S ELSE N - position
      /\ \A i \in 1 .. Len(read) : read[i] = copy[position + i]
  BY <1>1, <1>8, ReadCells
<1> HIDE DEF read
<1>10. OnlyBlocks(Len(R), k) /\ position < N
  BY <1>1, <1>5, <1>7, <1>8, <1>9 DEF ShorterBlock
<1>11. buffer_to_send' \in [1 .. S -> Cell]
  <2>1. \A i \in 1 .. S : i <= Len(read) => read[i] \in Cell BY <1>4, ElementOfSeq
  <2> QED BY <1>1, <1>3, <2>1
<1>12. /\ room \in Seq(Cell) /\ Len(room) = S + 1
       /\ \A i \in 1 .. S : room[i] = buffer_to_send'[i]
       /\ room[S + 1] = Junk
  <2>1. buffer_to_send' \in Seq(Cell) BY <1>1, <1>11, SeqDef
  <2>2. Len(buffer_to_send') = S BY <1>1, <1>11, <2>1, LenProperties
  <2>3. <<Junk>> \in Seq(Cell) /\ Len(<<Junk>>) = 1 /\ <<Junk>>[1] = Junk BY CellTypes
  <2>4. /\ room \in Seq(Cell) /\ Len(room) = S + 1
        /\ \A i \in 1 .. S + 1 :
             room[i] = IF i <= S THEN buffer_to_send'[i] ELSE <<Junk>>[i - S]
    BY <2>1, <2>2, <2>3, ConcatProperties
  <2>5. (S + 1) - S = 1 /\ S + 1 \in 1 .. S + 1 /\ ~(S + 1 <= S) BY <1>1
  <2>6. room[S + 1] = Junk BY <2>3, <2>4, <2>5
  <2>7. \A i \in 1 .. S : i \in 1 .. S + 1 /\ i <= S BY <1>1
  <2> QED BY <2>4, <2>6, <2>7
<1> HIDE DEF room
<1> DEFINE t == SubSeq(room, 1, n)
<1>13. n \in Nat /\ n <= S + 1 /\ n >= Len(read) BY <1>1, <1>4, <1>6
<1>14. t \in Seq(Cell) /\ Len(t) = n /\ \A x \in 1 .. n : t[x] = room[x]
  <2>1. n \in 0 .. Len(room) BY <1>12, <1>13
  <2> QED BY <1>12, <2>1, BeginningOf
<1>15. stream' = stream \o t BY <1>6
<1> HIDE DEF t
<1>16. R \in Seq(Cell) /\ Received' = R \o t /\ Len(R) \in Nat
  <2>1. Received' = encoded_log \o (stream \o t) BY <1>3, <1>15 DEF Received
  <2>2. Received' = R \o t
    <3> DEFINE e == encoded_log
               f == stream
    <3>1. e \in Seq(Cell) /\ f \in Seq(Cell) /\ t \in Seq(Cell) BY <1>1, <1>14
    <3> HIDE DEF e, f
    <3>2. (e \o f) \o t = e \o (f \o t) BY <3>1, ConcatAssociative
    <3> QED BY <2>1, <3>2 DEF e, f, Received
  <2>3. R \in Seq(Cell) BY <1>1, ConcatProperties DEF Received
  <2> QED BY <2>2, <2>3, LenProperties
<1>17. /\ Len(Received') = Len(R) + n
       /\ \A i \in 1 .. Len(R) + n : Received'[i] = IF i <= Len(R) THEN R[i] ELSE t[i - Len(R)]
  BY <1>14, <1>16, ConcatProperties
\* The buffer.
<1>18. \A j \in 1 .. S :
         buffer_to_send'[j] = IF j <= Len(read) THEN copy[position + j] ELSE Buffered(k, j)
  <2>1. \A j \in 1 .. S : buffer_to_send[j] = Buffered(k, j) BY <1>10 DEF OnlyBlocks
  <2>2. \A j \in 1 .. S : j <= Len(read) => j \in 1 .. Len(read) BY <1>1, <1>4
  <2> QED BY <1>3, <1>9, <2>1, <2>2
<1>19. \A i \in 1 .. N : copy[i] # Junk /\ copy[i] # End
  <2>1. InOrder(copy, logged, own_start) BY CopyInOrder DEF SavedInv
  <2>2. \A i \in 1 .. N : copy[i].kind \in {"log", "start"} BY <2>1 DEF InOrder, IsEntry
  <2>3. Junk.kind = "junk" /\ End.kind = "[END_WITH_SUCCESS]" BY DEF Junk, End, Mark
  <2> QED BY <2>2, <2>3
<1> DEFINE p == k * S
           q == k * (S + 1)
<1>20. /\ p \in Nat /\ q = p + k /\ q \in Nat /\ position = p /\ Len(R) = q /\ p <= N
       /\ (k + 1) * S = p + S /\ (k + 1) * (S + 1) = q + S + 1 /\ (k - 1) * S = p - S
       /\ (k = 0 => p = 0 /\ q = 0) /\ (k > 0 => p >= S)
  <2>1. k > 0 => 1 * S <= k * S BY <1>1, TimesGrow
  <2> QED BY <1>1, <1>7, <1>10, <2>1 DEF OnlyBlocks, FullBlocks
<1>21. \A b \in 0 .. k - 1 : \A j \in 1 .. S :
         /\ R[b * (S + 1) + j] = copy[b * S + j]
         /\ b * (S + 1) + j \in 1 .. q
  <2> SUFFICES ASSUME NEW b \in 0 .. k - 1, NEW j \in 1 .. S
               PROVE  R[b * (S + 1) + j] = copy[b * S + j] /\ b * (S + 1) + j \in 1 .. q
    OBVIOUS
  <2>1. R[b * (S + 1) + j] = copy[b * S + j] BY <1>7 DEF FullBlocks
  <2>2. b \in Nat /\ b < k BY <1>7
  <2>3. b * (S + 1) + j < k * (S + 1) BY <1>1, <2>2, BlocksBefore
  <2>4. b * (S + 1) \in Nat BY <1>1, <2>2
  <2> QED BY <1>20, <2>1, <2>3, <2>4
<1> HIDE DEF p, q
<1>22. \A b \in 0 .. k - 1 : \A j \in 1 .. S : Received'[b * (S + 1) + j] = copy[b * S + j]
  <2> SUFFICES ASSUME NEW b \in 0 .. k - 1, NEW j \in 1 .. S
               PROVE  Received'[b * (S + 1) + j] = copy[b * S + j]
    OBVIOUS
  <2> DEFINE c == b * (S + 1) + j
  <2>1. R[c] = copy[b * S + j] /\ c \in 1 .. q BY <1>21
  <2> HIDE DEF c
  <2>2. c \in 1 .. Len(R) + n /\ c <= Len(R) BY <1>13, <1>20, <2>1
  <2>3. Received'[c] = R[c] BY <1>17, <2>2
  <2> QED BY <2>1, <2>3 DEF c
<1>23. \A j \in 1 .. S : j <= n => Received'[q + j] = buffer_to_send'[j]
  <2> SUFFICES ASSUME NEW j \in 1 .. S, j <= n PROVE Received'[q + j] = buffer_to_send'[j]
    OBVIOUS
  <2>1. q + j \in 1 .. Len(R) + n /\ ~(q + j <= Len(R)) /\ (q + j) - Len(R) = j
    BY <1>13, <1>20
  <2>2. Received'[q + j] = t[j] BY <1>17, <2>1
  <2>3. j \in 1 .. n BY <1>1, <1>13
  <2> QED BY <1>12, <1>14, <2>2, <2>3
<1>24. \A j \in 1 .. S : k > 0 => Buffered(k, j) # Junk /\ Buffered(k, j) # End
  <2> SUFFICES ASSUME NEW j \in 1 .. S, k > 0
               PROVE  Buffered(k, j) # Junk /\ Buffered(k, j) # End
    OBVIOUS
  <2>1. Buffered(k, j) = copy[(p - S) + j] BY <1>7, <1>20 DEF Buffered
  <2>2. (p - S) + j \in 1 .. N BY <1>1, <1>20
  <2> QED BY <1>19, <2>1, <2>2
<1>25. \A j \in 1 .. S : Buffered(k, j) # End
  <2>1. Junk # End BY DEF Junk, End, Mark
  <2> QED BY <1>7, <1>24, <2>1 DEF Buffered
<1>26. \A j \in 1 .. S : j <= Len(read) => position + j \in 1 .. N
  BY <1>1, <1>8, <1>9
<1>27. k > 0 \/ Len(read) = S => n = S + 1
  <2> SUFFICES ASSUME k > 0 \/ Len(read) = S, NEW j \in 1 .. S PROVE buffer_to_send'[j] # Junk
    BY <1>6
  <2>1. CASE j <= Len(read) BY <1>18, <1>19, <1>26, <2>1
  <2>2. CASE ~(j <= Len(read))
    <3>1. k > 0 BY <2>2, <1>1
    <3> QED BY <1>18, <1>24, <2>2, <3>1
  <2> QED BY <2>1, <2>2
<1>28. NoEnd(Received')
  <2>1. \A j \in 1 .. S : buffer_to_send'[j] # End BY <1>18, <1>19, <1>25, <1>26
  <2>2. Junk # End BY DEF Junk, End, Mark
  <2>3. \A x \in 1 .. n : x \in 1 .. S \/ x = S + 1 BY <1>1, <1>13
  <2>4. \A x \in 1 .. n : t[x] # End BY <1>12, <1>14, <2>1, <2>2, <2>3
  <2>5. NoEnd(t) BY <1>14, <2>4 DEF NoEnd
  <2> QED BY <1>2, <1>14, <1>16, <2>5, NoEndAppended
<1>29. CASE Len(read) = S
  <2>1. n = S + 1 /\ position + S <= N BY <1>1, <1>9, <1>8, <1>27, <1>29
  <2>2. Len(Received') = (k + 1) * (S + 1) BY <1>1, <1>17, <1>20, <2>1
  <2>3. (k + 1) * S <= N /\ position' = (k + 1) * S BY <1>3, <1>20, <1>29, <2>1
  <2>4. ASSUME NEW b \in 0 .. (k + 1) - 1, NEW j \in 1 .. S
        PROVE  Received'[b * (S + 1) + j] = copy[b * S + j]
    <3>1. CASE b = k
      <4>1. Received'[q + j] = buffer_to_send'[j] BY <1>1, <1>23, <2>1
      <4>2. buffer_to_send'[j] = copy[p + j] BY <1>18, <1>20, <1>29
      <4> QED BY <3>1, <4>1, <4>2 DEF p, q
    <3>2. CASE b # k
      <4>1. b \in 0 .. k - 1 BY <1>7, <3>2
      <4> QED BY <1>22, <4>1
    <3> QED BY <3>1, <3>2
  <2>5. \A j \in 1 .. S : buffer_to_send'[j] = copy[p + j] BY <1>18, <1>20, <1>29
  <2>6. k + 1 \in Nat /\ k + 1 # 0 /\ (k + 1) - 1 = k BY <1>7
  <2>7. FullBlocks(Received, Len(Received), k + 1)'
    BY <1>1, <1>3, <2>2, <2>3, <2>4, <2>6, <1>20 DEF FullBlocks
  <2>8. OnlyBlocks(Len(Received), k + 1)'
    <3>1. \A j \in 1 .. S : Buffered(k + 1, j)' = copy[p + j]
      BY <1>3, <2>6 DEF Buffered, p
    <3> QED BY <2>2, <2>3, <2>5, <3>1 DEF OnlyBlocks
  <2>9. Sent(Received, Len(Received))' BY <2>6, <2>7, <2>8 DEF Sent
  <2> QED BY <1>28, <2>9 DEF NoEnd
<1>30. CASE Len(read) # S
  <2>1. Len(read) = N - p /\ N - p \in 1 .. S - 1 /\ position' = N
    BY <1>1, <1>3, <1>4, <1>5, <1>8, <1>9, <1>20, <1>30
  <2>2. Len(Received') = q + n BY <1>17, <1>20
  <2>3. FullBlocks(Received, Len(Received), k)'
    <3>1. q <= q + n /\ p <= N BY <1>13, <1>20
    <3>2. k * S <= Len(copy') /\ k * (S + 1) <= Len(Received')
      BY <1>3, <2>2, <3>1 DEF p, q
    <3> QED BY <1>3, <1>22, <3>2 DEF FullBlocks
  <2>4. IF k > 0 THEN Len(Received') = (k + 1) * (S + 1) ELSE Len(Received') \in N .. S + 1
    <3>1. CASE k > 0 BY <1>1, <1>20, <1>27, <2>2, <3>1
    <3>2. CASE ~(k > 0)
      <4>1. p = 0 /\ q = 0 BY <1>7, <1>20, <3>2
      <4>2. Len(Received') = n /\ Len(read) = N BY <1>1, <1>13, <2>1, <2>2, <4>1
      <4> QED BY <1>1, <1>13, <3>2, <4>2
    <3> QED BY <3>1, <3>2
  <2>5. ASSUME NEW j \in 1 .. S, q + j <= q + n
        PROVE  Received'[q + j] = IF p + j <= N THEN copy[p + j] ELSE Buffered(k, j)
    <3>1. j <= n BY <1>13, <1>20, <2>5
    <3>2. Received'[q + j] = buffer_to_send'[j] BY <1>23, <3>1
    <3>3. p + j <= N <=> j <= Len(read) BY <1>1, <1>20, <2>1
    <3> QED BY <1>18, <1>20, <3>2, <3>3
  <2>6. \A j : Buffered(k, j)' = Buffered(k, j) BY <1>3 DEF Buffered
  <2>7. ShorterBlock(Received, Len(Received), k)'
    <3>1. /\ Len(copy') - k * S \in 1 .. S - 1 /\ position' = Len(copy')
          /\ \A j \in 1 .. S : k * (S + 1) + j <= Len(Received') =>
               Received'[k * (S + 1) + j] =
                 IF k * S + j <= Len(copy') THEN copy'[k * S + j] ELSE Buffered(k, j)'
      BY <1>3, <2>1, <2>2, <2>5, <2>6 DEF p, q
    <3> QED BY <1>3, <2>4, <3>1 DEF ShorterBlock
  <2>8. Sent(Received, Len(Received))' BY <1>7, <2>3, <2>7 DEF Sent
  <2> QED BY <1>28, <2>8 DEF NoEnd
<1> QED BY <1>29, <1>30

-----------------------------------------------------------------------------
(* The transfer and the host PC in step.                                   *)

\* A mark that ends what is sent.
LEMMA MarkSent ==
  ASSUME Inv, NEW kind \in {"error", "[END_WITH_SUCCESS]"},
         stream' = Append(stream, Mark(kind)), encoded_log' = encoded_log
  PROVE  /\ Received \in Seq(Cell) /\ Len(Received) \in Nat
         /\ Len(Received') = Len(Received) + 1
         /\ \A i \in 1 .. Len(Received) : Received'[i] = Received[i]
         /\ Received'[Len(Received) + 1] = Mark(kind)
<1> DEFINE e == encoded_log
           f == stream
           m == Mark(kind)
<1>1. e \in Seq(Cell) /\ f \in Seq(Cell) /\ m \in Cell
  BY CellTypes DEF Inv, LogTypeOK
<1>2. Received = e \o f /\ Received' = e \o Append(f, m) BY DEF Received
<1> HIDE DEF e, f, m
<1>3. Received \in Seq(Cell) /\ Len(Received) = Len(e) + Len(f)
  BY <1>1, <1>2, ConcatProperties
<1>4. e \o Append(f, m) = Append(e \o f, m)
  <2>1. Append(f, m) = f \o <<m>> BY <1>1, AppendIsConcat
  <2>2. e \o f \in Seq(Cell) BY <1>2, <1>3
  <2>3. Append(e \o f, m) = (e \o f) \o <<m>> BY <1>1, <2>2, AppendIsConcat
  <2>4. <<m>> \in Seq(Cell) BY <1>1
  <2>5. (e \o f) \o <<m>> = e \o (f \o <<m>>) BY <1>1, <2>4, ConcatAssociative
  <2> QED BY <2>1, <2>3, <2>5
<1>5. Received' = Append(Received, m) BY <1>2, <1>4
<1>6. /\ Len(Received') = Len(Received) + 1
      /\ \A i \in 1 .. Len(Received) : Received'[i] = Received[i]
      /\ Received'[Len(Received) + 1] = m
  BY <1>1, <1>3, <1>5, AppendProperties
<1> QED BY <1>3, <1>6, LenProperties DEF m

\* As long as neither the copy nor the buffer changes, what was sent is what it was.
LEMMA SentStays ==
  ASSUME UNCHANGED <<position, buffer_to_send, copy>>, Received' = Received
  PROVE  /\ WholeSent' <=> WholeSent
         /\ Sent(Received, Len(Received))' <=> Sent(Received, Len(Received))
         /\ NoEnd(Received)' <=> NoEnd(Received)
<1>1. ASSUME NEW n PROVE Sent(Received, n)' <=> Sent(Received, n)
  BY DEF Sent, FullBlocks, OnlyBlocks, ShorterBlock, Buffered
<1>2. WholeSent' <=> WholeSent BY <1>1 DEF WholeSent
<1>3. Sent(Received, Len(Received))' <=> Sent(Received, Len(Received))
  BY DEF Sent, FullBlocks, OnlyBlocks, ShorterBlock, Buffered
<1>4. NoEnd(Received)' <=> NoEnd(Received) BY DEF NoEnd
<1> QED BY <1>2, <1>3, <1>4

LEMMA SendingKeepsInStep ==
  ASSUME SavedInv, Reopen \/ SendBlock \/ EndWithSuccess \/ LogSuccess \/ GiveUpSending
  PROVE  TransferInStep'
<1>1. Inv /\ TransferInStep BY DEF SavedInv
<1>2. CASE Reopen
  <2>1. /\ host_pc = "receive" /\ stream = << >> /\ encoded_log = << >> /\ ~closed
        /\ \A j \in 1 .. SO_SNDBUF : buffer_to_send[j] = Junk
    BY <1>1, <1>2 DEF Reopen, DelayOver, TransferInStep, Fresh
  <2>2. /\ position' = 0 /\ transfer_pc' = "send"
        /\ UNCHANGED <<host_pc, stream, encoded_log, closed, buffer_to_send, copy>>
    BY <1>2 DEF Reopen, socket, host
  <2>3. Received' = << >> /\ Len(Received') = 0
    <3>1. << >> \in Seq(Cell) /\ Len(<< >>) = 0 BY EmptySeq
    <3>2. << >> \o << >> = << >> BY <3>1, ConcatEmptySeq
    <3> QED BY <2>1, <2>2, <3>1, <3>2 DEF Received
  <2>4. Len(copy) \in Nat BY <1>1, LenProperties DEF Inv, LogTypeOK
  <2>5. FullBlocks(Received, Len(Received), 0)'
    BY <2>2, <2>3, <2>4, ConstantTypes DEF FullBlocks
  <2>6. OnlyBlocks(Len(Received), 0)'
    BY <2>1, <2>2, <2>3, ConstantTypes DEF OnlyBlocks, Buffered
  <2>7. Sent(Received, Len(Received))' BY <2>5, <2>6 DEF Sent
  <2>8. NoEnd(Received)' BY <2>3 DEF NoEnd
  <2> QED BY <2>1, <2>2, <2>7, <2>8 DEF TransferInStep
<1>3. CASE SendBlock
  <2>1. host_pc = "receive" /\ ~closed /\ transfer_pc = "send"
    BY <1>1, <1>3 DEF SendBlock, TransferInStep
  <2>2. UNCHANGED <<host_pc, closed, transfer_pc>> BY <1>3 DEF SendBlock, host
  <2> QED BY <1>3, <2>1, <2>2, SendBlockKeepsSent DEF TransferInStep
<1>4. CASE EndWithSuccess
  <2>1. host_pc = "receive" /\ Sent(Received, Len(Received)) /\ position = Len(copy)
    BY <1>1, <1>4 DEF EndWithSuccess, TransferInStep
  <2>2. /\ transfer_pc' = "log" /\ stream' = Append(stream, Mark("[END_WITH_SUCCESS]"))
        /\ UNCHANGED <<host_pc, encoded_log, position, buffer_to_send, copy>>
    BY <1>4 DEF EndWithSuccess, host
  <2> DEFINE n == Len(Received)
  <2>3. /\ n \in Nat /\ Len(Received') = n + 1 /\ Received'[n + 1] = End
        /\ \A i \in 1 .. n : Received'[i] = Received[i]
    BY <1>1, <2>2, MarkSent DEF End
  <2> HIDE DEF n
  <2>4. Sent(Received, n) BY <2>1 DEF n
  <2>5. PICK k \in Nat : FullBlocks(Received, n, k)
                         /\ (OnlyBlocks(n, k) \/ ShorterBlock(Received, n, k))
    BY <2>4 DEF Sent
  <2>6. FullBlocks(Received', n, k)
    <3>1. ASSUME NEW b \in 0 .. k - 1, NEW j \in 1 .. SO_SNDBUF
          PROVE  Received'[b * (SO_SNDBUF + 1) + j] = copy[b * SO_SNDBUF + j]
      <4> DEFINE c == b * (SO_SNDBUF + 1) + j
                 q == k * (SO_SNDBUF + 1)
      <4>1. b \in Nat /\ b < k BY <2>5
      <4>2. c < q BY <4>1, ConstantTypes, BlocksBefore
      <4>3. q <= n /\ Received[c] = copy[b * SO_SNDBUF + j] BY <2>5 DEF FullBlocks
      <4>4. c \in Nat /\ c > 0 /\ q \in Nat BY <4>1, ConstantTypes
      <4> HIDE DEF c, q
      <4>5. c \in 1 .. n BY <2>3, <4>2, <4>3, <4>4
      <4>6. Received'[c] = Received[c] BY <2>3, <4>5
      <4> QED BY <4>3, <4>6 DEF c
    <3> QED BY <2>5, <3>1 DEF FullBlocks
  <2>7. ShorterBlock(Received, n, k) => ShorterBlock(Received', n, k)
    <3> SUFFICES ASSUME ShorterBlock(Received, n, k), NEW j \in 1 .. SO_SNDBUF,
                        k * (SO_SNDBUF + 1) + j <= n
                 PROVE  Received'[k * (SO_SNDBUF + 1) + j] = Received[k * (SO_SNDBUF + 1) + j]
      BY DEF ShorterBlock
    <3>1. k * (SO_SNDBUF + 1) \in Nat BY ConstantTypes
    <3>2. k * (SO_SNDBUF + 1) + j \in 1 .. n BY <2>3, <3>1
    <3> QED BY <2>3, <3>2
  <2>8. OnlyBlocks(n, k) \/ ShorterBlock(Received', n, k) BY <2>5, <2>7
  <2>10. ASSUME NEW m \in Nat, m = n PROVE Sent(Received, m)'
    <3>1. FullBlocks(Received, m, k)' BY <2>2, <2>6, <2>10 DEF FullBlocks
    <3>2. (OnlyBlocks(m, k) \/ ShorterBlock(Received, m, k))'
      BY <2>2, <2>8, <2>10 DEF OnlyBlocks, ShorterBlock, Buffered
    <3> QED BY <3>1, <3>2 DEF Sent
  <2>11. PICK m \in Nat : m = n BY <2>3
  <2>12. (Len(Received) = m + 1 /\ Received[m + 1] = End /\ Sent(Received, m))'
    BY <2>3, <2>10, <2>11
  <2>13. WholeSent' BY <2>1, <2>2, <2>12 DEF WholeSent
  <2> QED BY <2>1, <2>2, <2>13 DEF TransferInStep
<1>5. CASE LogSuccess
  <2>1. /\ transfer_pc = "log" /\ transfer_pc' = "done"
        /\ UNCHANGED <<host_pc, stream, encoded_log, position, buffer_to_send, copy>>
    BY <1>5 DEF LogSuccess, socket, host
  <2>2. Received' = Received BY <2>1 DEF Received
  <2> QED BY <1>1, <2>1, <2>2, SentStays DEF TransferInStep
<1>6. CASE GiveUpSending
  <2>1. /\ transfer_pc' = "done" /\ stream' = Append(stream, Mark("error"))
        /\ UNCHANGED <<host_pc, encoded_log>>
    BY <1>6 DEF GiveUpSending, host
  <2>2. host_pc = "receive" /\ NoEnd(Received)
    <3>1. CASE transfer_pc = "send" BY <1>1, <3>1 DEF TransferInStep
    <3>2. CASE transfer_pc = "reopen"
      <4>1. host_pc = "receive" /\ stream = << >> /\ encoded_log = << >>
        BY <1>1, <1>6, <3>2 DEF GiveUpSending, DelayOver, TransferInStep, Fresh
      <4>2. << >> \in Seq(Cell) /\ Len(<< >>) = 0 BY EmptySeq
      <4>3. << >> \o << >> = << >> BY <4>2, ConcatEmptySeq
      <4>4. Len(Received) = 0 BY <4>1, <4>2, <4>3 DEF Received
      <4> QED BY <4>1, <4>4 DEF NoEnd
    <3> QED BY <1>6, <3>1, <3>2 DEF GiveUpSending
  <2>3. /\ Len(Received) \in Nat /\ Len(Received') = Len(Received) + 1
        /\ \A i \in 1 .. Len(Received) : Received'[i] = Received[i]
        /\ Received'[Len(Received) + 1] = Mark("error")
    BY <1>1, <2>1, MarkSent
  <2>4. Mark("error") # End BY DEF End, Mark
  <2>5. \A i \in 1 .. Len(Received') : i \in 1 .. Len(Received) \/ i = Len(Received) + 1
    BY <2>3
  <2>6. NoEnd(Received)' BY <2>2, <2>3, <2>4, <2>5 DEF NoEnd
  <2> QED BY <2>1, <2>2, <2>6 DEF TransferInStep
<1> QED BY <1>2, <1>3, <1>4, <1>5, <1>6

LEMMA StepKeepsInStep ==
  ASSUME SavedInv, [Next]_vars
  PROVE  TransferInStep'
<1>1. Inv /\ TransferInStep BY DEF SavedInv
<1>2. transfer_pc \in {"none", "announce", "suspend", "stat", "open", "seek", "copy", "resume",
                       "reopen", "send", "log", "done"}
  BY <1>1 DEF Inv, LogTypeOK
<1>3. CASE sendLogToHost
  <2>1. /\ transfer_pc' = "announce" /\ host_pc' = "talk" /\ stream' = << >> /\ ~closed'
        /\ encoded_log' = << >> /\ \A j \in 1 .. SO_SNDBUF : buffer_to_send'[j] = Junk
    BY <1>3 DEF sendLogToHost
  <2> QED BY <2>1 DEF TransferInStep, Fresh
<1>4. CASE Announce \/ SuspendLog \/ Stat \/ OpenCopy \/ Seek \/ CopyBlock
  <2>1. /\ transfer_pc \in {"announce", "suspend", "stat", "open", "seek", "copy"}
        /\ transfer_pc' \in {"suspend", "stat", "open", "seek", "copy", "resume"}
        /\ UNCHANGED <<host_pc, stream, closed, encoded_log, buffer_to_send>>
    BY <1>4 DEF Announce, SuspendLog, Stat, OpenCopy, Seek, CopyBlock, socket, host
  <2> QED BY <1>1, <2>1 DEF TransferInStep, Fresh
<1>5. CASE SuspendFails \/ GiveUp
  <2>1. /\ transfer_pc \in {"suspend", "stat", "open", "seek", "copy"} /\ transfer_pc' = "done"
        /\ UNCHANGED <<host_pc, stream>>
    BY <1>5 DEF SuspendFails, GiveUp, host
  <2> QED BY <1>1, <2>1 DEF TransferInStep
<1>6. CASE ResumeLog
  <2>1. /\ transfer_pc = "resume" /\ transfer_pc' = "reopen"
        /\ stream' = Append(stream, Mark("[START_SENDING]"))
        /\ UNCHANGED <<host_pc, closed, encoded_log, buffer_to_send>>
    BY <1>6 DEF ResumeLog, host
  <2>2. stream' # << >>
    <3>1. stream \in Seq(Cell) /\ Mark("[START_SENDING]") \in Cell
      BY <1>1, CellTypes DEF Inv, LogTypeOK
    <3> QED BY <2>1, <3>1, AppendProperties
  <2> QED BY <1>1, <2>1, <2>2 DEF TransferInStep, Fresh
<1>7. CASE HostTalks
  <2>1. /\ host_pc = "talk" /\ stream # << >> /\ stream' = << >> /\ host_pc' = "receive"
        /\ UNCHANGED <<transfer_pc, closed, encoded_log, buffer_to_send>>
    BY <1>7 DEF HostTalks, transfer
  <2>2. transfer_pc = "reopen" BY <1>1, <1>2, <2>1 DEF TransferInStep
  <2> QED BY <1>1, <2>1, <2>2 DEF TransferInStep, Fresh
<1>8. CASE HostReceives
  <2>1. /\ host_pc = "receive" /\ stream # << >> /\ stream' = << >>
        /\ encoded_log' = encoded_log \o stream
        /\ UNCHANGED <<host_pc, transfer_pc, closed, position, buffer_to_send, copy>>
    BY <1>8 DEF HostReceives, transfer
  <2>2. transfer_pc \in {"send", "log", "done"} BY <1>1, <1>2, <2>1 DEF TransferInStep
  <2>3. Received' = Received
    <3>1. encoded_log \o stream \in Seq(Cell)
      BY <1>1, ConcatProperties DEF Inv, LogTypeOK
    <3> QED BY <2>1, <3>1, ConcatEmptySeq DEF Received
  <2> QED BY <1>1, <2>1, <2>2, <2>3, SentStays DEF TransferInStep
<1>9. CASE HostSaves
  <2>1. /\ host_pc = "receive" /\ stream = << >> /\ closed /\ host_pc' = "done"
        /\ UNCHANGED <<transfer_pc, stream, encoded_log, position, buffer_to_send, copy>>
    BY <1>9 DEF HostSaves, transfer, socket
  <2>2. transfer_pc \in {"log", "done"} BY <1>1, <1>2, <2>1 DEF TransferInStep
  <2>3. Received' = Received BY <2>1 DEF Received
  <2> QED BY <1>1, <2>1, <2>2, <2>3, SentStays DEF TransferInStep
<1>10. ASSUME \/ ActivateLog \/ AwaitLog \/ logInit \/ \E t \in Task : logMessage(t)
              \/ UNCHANGED vars
       PROVE  UNCHANGED <<transfer, copy, socket, host>>
  BY <1>10 DEF ActivateLog, AwaitLog, logInit, CreateQueue, ResumeInit, Receive, Write,
    WriteFails, logMessage, vars
<1>11. ASSUME UNCHANGED <<transfer, copy, socket, host>> PROVE TransferInStep'
  <2>1. UNCHANGED <<transfer_pc, position, buffer_to_send, copy, stream, closed, host_pc,
                    encoded_log>>
    BY <1>11 DEF transfer, socket, host
  <2>2. Received' = Received BY <2>1 DEF Received
  <2> QED BY <1>1, <2>1, <2>2, SentStays DEF TransferInStep, Fresh
<1> QED BY <1>3, <1>4, <1>5, <1>6, <1>7, <1>8, <1>9, <1>10, <1>11, SendingKeepsInStep
      DEF Next, processLogToSend, receiveAndSaveLog

LEMMA InitEstablishesSavedInv == Init => SavedInv
<1> SUFFICES ASSUME Init PROVE SavedInv OBVIOUS
<1>1. Inv BY InitEstablishesInv
<1>2. Len(<< >>) = 0 BY EmptySeq
<1>3. log_txt = << >> /\ LOG_QUEUE = << >> /\ copy = << >> /\ logged = 0 /\ own_start = 0
  BY DEF Init
<1>4. log_pc = "none" /\ transfer_pc = "none" /\ host_pc = "none" BY DEF Init
<1>5. EntriesInOrder BY <1>2, <1>3, <1>4 DEF EntriesInOrder, InOrder
<1>6. CopyIsABeginning BY <1>2, <1>3 DEF CopyIsABeginning
<1>7. TransferInStep /\ SavedIsOfTheCopy BY <1>4 DEF TransferInStep, SavedIsOfTheCopy
<1> QED BY <1>1, <1>5, <1>6, <1>7 DEF SavedInv

LEMMA SavedInvImplies == SavedInv => SavedIsTheLog
<1> SUFFICES ASSUME SavedInv, host_pc = "done", saved.success, NEW i \in DOMAIN copy,
                    copy[i].nr = own_start, Starts(copy) \intersect Stale = {}
             PROVE  saved.log = SubSeq(log_txt, 1, i)
  BY DEF SavedIsTheLog
<1>1. /\ copy \in Seq(Cell) /\ log_txt \in Seq(Cell) BY DEF SavedInv, Inv, LogTypeOK
<1>2. /\ Len(copy) \in Nat /\ Len(log_txt) \in Nat /\ Len(copy) <= Len(log_txt)
      /\ i \in 1 .. Len(copy)
  BY <1>1, LenProperties DEF SavedInv, CopyIsABeginning
<1>3. saved.log = SubSeq(copy, 1, i) BY <1>2 DEF SavedInv, SavedIsOfTheCopy
<1> DEFINE a == SubSeq(copy, 1, i)
           b == SubSeq(log_txt, 1, i)
<1>4. i \in 0 .. Len(copy) /\ i \in 0 .. Len(log_txt) BY <1>2
<1>5. /\ a \in Seq(Cell) /\ Len(a) = i /\ \A x \in 1 .. i : a[x] = copy[x]
      /\ b \in Seq(Cell) /\ Len(b) = i /\ \A x \in 1 .. i : b[x] = log_txt[x]
  BY <1>1, <1>4, BeginningOf
<1>6. \A x \in 1 .. i : copy[x] = log_txt[x] BY <1>2 DEF SavedInv, CopyIsABeginning
<1> HIDE DEF a, b
<1>7. \A x \in 1 .. Len(a) : a[x] = b[x] BY <1>5, <1>6
<1>8. a = b BY <1>5, <1>7, SeqEqual
<1> QED BY <1>3, <1>8 DEF a, b

\* Whatever is logged, fails and is repeated, and however the cells arrive:
\* a transfer that is announced in its copy, and whose last block leaves no
\* older announcement behind it, ends with the log up to its announcement on
\* the host PC, or not as a success (wifiTask.c 198-480, log.py).
THEOREM WhatIsSavedIsTheLog == Spec => []SavedIsTheLog
<1>1. Inv /\ Inv' /\ SavedInv /\ [Next]_vars => SavedInv'
  <2> SUFFICES ASSUME Inv, Inv', SavedInv, [Next]_vars PROVE SavedInv' OBVIOUS
  <2>1. EntriesInOrder' BY StepKeepsOrder DEF SavedInv
  <2>2. CopyIsABeginning' BY StepKeepsCopyABeginning DEF SavedInv
  <2>3. TransferInStep' BY StepKeepsInStep
  <2>4. SavedIsOfTheCopy' BY StepKeepsSaved
  <2> QED BY <2>1, <2>2, <2>3, <2>4 DEF SavedInv
<1> QED BY <1>1, InvHolds, InitEstablishesSavedInv, SavedInvImplies, PTL DEF Spec
=============================================================================
