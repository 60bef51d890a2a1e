------------------------- MODULE CommunicationProofs -------------------------
(***************************************************************************)
(* However many neighbours a node has, and wherever reads cut what they    *)
(* send: the control task is given the messages of each in their order,    *)
(* and the tasks wait for each other only when more messages than a queue  *)
(* holds were sent that the control task was not given.                    *)
(***************************************************************************)
EXTENDS Communication, FiniteSetTheorems, TLAPS

-----------------------------------------------------------------------------
(* The invariant.                                                          *)

\* The number of message j, when top have been sent and the next one is CLOSE.
Nr(j, top) == IF j <= top THEN j ELSE CLOSE

Headed(j, top) == [nr |-> Nr(j, top), part |-> "head"]

Tailed(j, top) == [nr |-> Nr(j, top), part |-> "tail"]

\* Unread are the messages after b, h of them, and, when cut is 1, the tail of b
\* itself.
StreamIs(s, cut, h, b, top) ==
  /\ s \in Seq(Piece) /\ Len(s) = 2 * h + cut
  /\ cut = 1 => s[1] = Tailed(b, top)
  /\ \A i \in 1 .. h : /\ s[2 * i - 1 + cut] = Headed(b + i, top)
                       /\ s[2 * i + cut] = Tailed(b + i, top)

\* What the communication task has read and the control task not yet received.
Line == IN_CONTROL_QUEUE \o todo

\* What was received of n, and what is in the line, is in order and not after b.
Ordered(given, line, n, b) ==
  /\ \A i, j \in DOMAIN given : i < j => given[i] < given[j]
  /\ \A i \in DOMAIN given : given[i] <= b
  /\ \A j \in DOMAIN line : line[j].from = n /\ line[j].nr > 0 =>
       /\ line[j].nr <= b
       /\ \A i \in DOMAIN given : given[i] < line[j].nr
  /\ \A i, j \in DOMAIN line :
       /\ i < j
       /\ line[i].from = n /\ line[i].nr > 0
       /\ line[j].from = n /\ line[j].nr > 0
       => line[i].nr < line[j].nr

\* Of the top messages of n those after b are still to be read, and CLOSE when n
\* has sent it.
OrderIs(s, top, isOpen, given, line, n) ==
  \E h, b \in Nat, cut \in {0, 1} :
    /\ StreamIs(s, cut, h, b, top)
    /\ cut <= b /\ top <= b + h /\ b + h <= top + 1
    /\ isOpen => b + h = top
    /\ Ordered(given, line, n, b)

InOrder(n) == OrderIs(stream[n], sent[n], open[n], served[n], Line, n)

\* A CLOSE is only the last of what was read.
CloseIsLast(line) == \A i \in DOMAIN line : line[i].nr = CLOSE => i = Len(line)

\* Everything else in the line has a message of its own, of which it is or was
\* cut from: tags[i] names the message.
TagsFor(tags, line) ==
  /\ tags \in Seq(Neighbour \X Nat)
  /\ \A i \in DOMAIN tags : tags[i][1] = line[i].from
  /\ \/ Len(tags) = Len(line)
     \/ Len(tags) + 1 = Len(line) /\ line[Len(line)].nr = CLOSE
  /\ \A i, j \in DOMAIN tags : i < j /\ tags[i][1] = tags[j][1] => tags[i][2] < tags[j][2]

\* The end of message j was read.
Gone(s, top, j) ==
  /\ j \in 1 .. top
  /\ \A i \in DOMAIN s : s[i].part = "tail" /\ s[i].nr # CLOSE => j < s[i].nr

\* As many of the first messages as were received, floors[n] of n, are used up.
UsedUp(streams, tops, floors) ==
  \A n \in Neighbour : /\ floors[n] \in Nat
                       /\ floors[n] = 0 \/ Gone(streams[n], tops[n], floors[n])

Names(tag, streams, tops, floors) ==
  Gone(streams[tag[1]], tops[tag[1]], tag[2]) /\ floors[tag[1]] < tag[2]

TaggedBy(streams, tops, floors, line) ==
  /\ UsedUp(streams, tops, floors)
  /\ \E tags \in Seq(Neighbour \X Nat) :
       /\ TagsFor(tags, line)
       /\ \A i \in DOMAIN tags : Names(tags[i], streams, tops, floors)

Floors == [n \in Neighbour |-> Len(served[n])]

Tagged == TaggedBy(stream, sent, Floors, Line)

PcOK ==
  /\ wifi_pc = "scan" => conn_idx >= 1
  /\ wifi_pc \notin {"handle", "queue"} => todo = << >>
  /\ wifi_pc = "queue" => todo # << >> /\ Head(todo).nr # CLOSE /\ WIFI_CONTROL_SEM = "wifi"
  /\ wifi_pc \notin {"queue", "deleted"} => WIFI_CONTROL_SEM = "free"
  /\ \A i \in DOMAIN IN_CONTROL_QUEUE : IN_CONTROL_QUEUE[i].nr # CLOSE

LineOK ==
  /\ CloseIsLast(Line) /\ Tagged
  /\ \A n \in Neighbour : sent[n] <= MaxSent[n] /\ InOrder(n)

CommInv == CommTypeOK /\ PcOK /\ LineOK

-----------------------------------------------------------------------------
(* Streams.                                                                *)

LEMMA Halves ==
  ASSUME NEW k \in Nat
  PROVE  \E g \in Nat, e \in {0, 1} : k = 2 * g + e
<1>1. k \div 2 \in Nat /\ k % 2 \in {0, 1} /\ k = 2 * (k \div 2) + (k % 2) OBVIOUS
<1> QED BY <1>1

LEMMA Undone ==
  ASSUME NEW i \in Int, NEW e \in Int, NEW q \in Int, i - e - 1 = 2 * q + 1
  PROVE  i = 2 * (q + 1) + e
OBVIOUS

LEMMA Concat ==
  ASSUME NEW S, NEW s \in Seq(S), NEW t \in Seq(S)
  PROVE  /\ s \o t \in Seq(S) /\ Len(s \o t) = Len(s) + Len(t)
         /\ \A i \in 1 .. Len(s) : (s \o t)[i] = s[i]
         /\ \A i \in 1 .. Len(t) : (s \o t)[Len(s) + i] = t[i]
OBVIOUS

LEMMA IsSeq ==
  ASSUME NEW S, NEW l \in Nat, NEW f \in [1 .. l -> S]
  PROVE  f \in Seq(S) /\ Len(f) = l
OBVIOUS

LEMMA IsMessage ==
  ASSUME NEW n \in Neighbour, NEW nr \in Nat \union {Unknown}
  PROVE  [from |-> n, nr |-> nr] \in Message
BY DEF Message

LEMMA NrIsInt ==
  ASSUME NEW m \in Message
  PROVE  m.nr \in Int /\ m.nr \in Nat \union {Unknown} /\ m.from \in Neighbour
BY DEF Message, Unknown

\* A message is sent.
LEMMA StreamGrows ==
  ASSUME NEW s, NEW cut \in {0, 1}, NEW h \in Nat, NEW b \in Nat, NEW top \in Nat,
         StreamIs(s, cut, h, b, top), cut <= b, b + h = top,
         NEW nr, NEW top2, (nr = top + 1 /\ top2 = top + 1) \/ (nr = CLOSE /\ top2 = top),
         NEW s2, s2 = s \o <<[nr |-> nr, part |-> "head"], [nr |-> nr, part |-> "tail"]>>
  PROVE  StreamIs(s2, cut, h + 1, b, top2)
<1>1. s \in Seq(Piece) /\ Len(s) = 2 * h + cut BY DEF StreamIs
<1>2. nr \in Nat /\ nr = Nr(b + h + 1, top2) BY DEF CLOSE, Nr
<1>3. PICK p, q : p = [nr |-> nr, part |-> "head"] /\ q = [nr |-> nr, part |-> "tail"] OBVIOUS
<1>4. p \in Piece /\ q \in Piece BY <1>2, <1>3 DEF Piece
<1>5. s2 = s \o <<p, q>> BY <1>3
<1>6. s2 \in Seq(Piece) /\ Len(s2) = 2 * (h + 1) + cut
  <2>1. <<p, q>> \in Seq(Piece) /\ Len(<<p, q>>) = 2 BY <1>4
  <2>2. s2 \in Seq(Piece) /\ Len(s2) = Len(s) + 2 BY <1>1, <1>5, <2>1, Concat
  <2> QED BY <1>1, <2>2
<1>7. \A i \in 1 .. Len(s) : s2[i] = s[i] BY <1>1, <1>4, <1>5
<1>8. s2[Len(s) + 1] = p /\ s2[Len(s) + 2] = q BY <1>1, <1>4, <1>5
<1>9. \A j \in 0 .. b + h : Nr(j, top2) = Nr(j, top) BY DEF Nr
<1>10. cut = 1 => s2[1] = Tailed(b, top2)
  BY <1>1, <1>7, <1>9 DEF StreamIs, Tailed
<1>11. ASSUME NEW i \in 1 .. h + 1
       PROVE  s2[2 * i - 1 + cut] = Headed(b + i, top2) /\ s2[2 * i + cut] = Tailed(b + i, top2)
  <2>1. CASE i <= h
    <3>1. s[2 * i - 1 + cut] = Headed(b + i, top) /\ s[2 * i + cut] = Tailed(b + i, top)
      BY <2>1 DEF StreamIs
    <3>2. Nr(b + i, top2) = Nr(b + i, top) BY <1>9, <2>1
    <3>3. 2 * i - 1 + cut \in 1 .. Len(s) /\ 2 * i + cut \in 1 .. Len(s) BY <1>1, <2>1
    <3> QED BY <1>7, <3>1, <3>2, <3>3 DEF Headed, Tailed
  <2>2. CASE i = h + 1
    <3>1. 2 * i - 1 + cut = Len(s) + 1 /\ 2 * i + cut = Len(s) + 2 /\ b + i = b + h + 1
      BY <1>1, <2>2
    <3> QED BY <1>2, <1>3, <1>8, <3>1 DEF Headed, Tailed
  <2>3. i <= h \/ i = h + 1 OBVIOUS
  <2> QED BY <2>1, <2>2, <2>3
<1> QED BY <1>6, <1>10, <1>11 DEF StreamIs

\* What is taken for messages, when the tail of b, if cut is 1, and the g
\* messages after it were read, and, if e is 1, the head of the next one: those
\* messages or a part of them, or, if b was cut, something nobody knows in its
\* place before them.
TakenAre(T, n, b, cut, g, e, top) ==
  \/ \E l \in {0, g, g + 1} :
       /\ l = g + 1 => cut = 1 /\ e = 1
       /\ T = [i \in 1 .. l |-> [from |-> n, nr |-> Nr(b + i, top)]]
  \/ /\ cut = 1 /\ Nr(b, top) # CLOSE
     /\ T = [i \in 1 .. g + 1 |-> [from |-> n, nr |-> IF i = 1 THEN Unknown ELSE Nr(b + i - 1, top)]]

\* The first k pieces of the stream are read: g messages, and e = 1 when the
\* next one is cut.
Reading(s, cut, h, b, top, k, g, e) ==
  /\ cut \in {0, 1} /\ h \in Nat /\ b \in Nat /\ top \in Nat
  /\ StreamIs(s, cut, h, b, top)
  /\ k \in 1 .. Len(s) /\ g \in Nat /\ e \in {0, 1} /\ k = 2 * g + cut + e

\* What is left.
LEMMA StreamShrinks ==
  ASSUME NEW s, NEW cut, NEW h, NEW b, NEW top, NEW k, NEW g, NEW e,
         Reading(s, cut, h, b, top, k, g, e),
         NEW s2, s2 = SubSeq(s, k + 1, Len(s))
  PROVE  /\ g + e <= h
         /\ StreamIs(s2, e, h - g - e, b + g + e, top)
<1> USE DEF Reading
<1>1. s \in Seq(Piece) /\ Len(s) = 2 * h + cut BY DEF StreamIs
<1>2. g + e <= h BY <1>1
<1>3. s2 \in Seq(Piece) /\ Len(s2) = Len(s) - k BY <1>1
<1>4. \A i \in 1 .. Len(s) - k : s2[i] = s[k + i] BY <1>1
<1>5. e = 1 => s2[1] = Tailed(b + g + e, top)
  <2> SUFFICES ASSUME e = 1 PROVE s2[1] = Tailed(b + g + 1, top) OBVIOUS
  <2>1. g + 1 \in 1 .. h /\ 2 * (g + 1) + cut = k + 1 BY <1>2
  <2>2. s[2 * (g + 1) + cut] = Tailed(b + (g + 1), top) BY <2>1 DEF StreamIs
  <2>3. s2[1] = s[k + 1]
    <3>1. 1 \in 1 .. Len(s) - k BY <1>1, <2>1
    <3> QED BY <1>4, <3>1
  <2>4. b + (g + 1) = b + g + 1 OBVIOUS
  <2> QED BY <2>1, <2>2, <2>3, <2>4
<1>6. ASSUME NEW i \in 1 .. h - g - e
      PROVE  /\ s2[2 * i - 1 + e] = Headed(b + g + e + i, top)
             /\ s2[2 * i + e] = Tailed(b + g + e + i, top)
  <2>1. PICK m \in 1 .. h : m = g + e + i BY <1>2
  <2>2. s[2 * m - 1 + cut] = Headed(b + m, top) /\ s[2 * m + cut] = Tailed(b + m, top)
    BY DEF StreamIs
  <2>3. /\ 2 * m - 1 + cut = k + (2 * i - 1 + e) /\ 2 * m + cut = k + (2 * i + e)
        /\ b + m = b + g + e + i
    BY <2>1
  <2>4. 2 * i - 1 + e \in 1 .. Len(s) - k /\ 2 * i + e \in 1 .. Len(s) - k BY <1>1, <2>1
  <2> QED BY <1>4, <2>2, <2>3, <2>4
<1>7. Len(s2) = 2 * (h - g - e) + e BY <1>1, <1>3
<1> QED BY <1>2, <1>3, <1>5, <1>6, <1>7 DEF StreamIs

\* What was read.
ReadAs(read, n, cut, b, g, e, top) ==
  /\ read[1].part = "head" <=> cut = 0
  /\ cut = 1 => read[1].nr = Nr(b, top)
  /\ Whole(read, n) = [i \in 1 .. g |-> [from |-> n, nr |-> Nr(b + i, top)]]
  /\ Last(read).part = "head" <=> e = 1
  /\ e = 1 => Last(read).nr = Nr(b + g + 1, top)

LEMMA ReadIs ==
  ASSUME NEW s, NEW cut, NEW h, NEW b, NEW top, NEW k, NEW g, NEW e,
         Reading(s, cut, h, b, top, k, g, e), NEW n,
         NEW read, read = SubSeq(s, 1, k)
  PROVE  ReadAs(read, n, cut, b, g, e, top)
<1> USE DEF Reading
<1>1. s \in Seq(Piece) /\ Len(s) = 2 * h + cut /\ Len(s) \in Nat BY DEF StreamIs
<1>2. Len(read) = k /\ \A i \in 1 .. k : read[i] = s[i] BY <1>1
<1>3. read[1] = s[1] /\ Last(read) = s[k] BY <1>1, <1>2 DEF Last
<1>4. ASSUME NEW i \in 1 .. h
      PROVE  /\ s[2 * i - 1 + cut].part = "head" /\ s[2 * i - 1 + cut].nr = Nr(b + i, top)
             /\ s[2 * i + cut].part = "tail" /\ s[2 * i + cut].nr = Nr(b + i, top)
  <2>1. s[2 * i - 1 + cut] = Headed(b + i, top) /\ s[2 * i + cut] = Tailed(b + i, top)
    BY DEF StreamIs
  <2> QED BY <2>1 DEF Headed, Tailed
<1>5. cut = 1 => s[1].part = "tail" /\ s[1].nr = Nr(b, top) BY DEF StreamIs, Tailed
<1>6. cut = 0 => s[1].part = "head"
  <2> SUFFICES ASSUME cut = 0 PROVE s[1].part = "head" OBVIOUS
  <2>1. 1 \in 1 .. h /\ 2 * 1 - 1 + cut = 1 BY <1>1
  <2>2. s[2 * 1 - 1 + cut].part = "head" BY <1>4, <2>1
  <2> QED BY <2>1, <2>2
<1>7. g + e <= h BY <1>1
<1>8. e = 1 => s[k].part = "head" /\ s[k].nr = Nr(b + g + 1, top)
  <2> SUFFICES ASSUME e = 1 PROVE s[k].part = "head" /\ s[k].nr = Nr(b + g + 1, top) OBVIOUS
  <2>1. g + 1 \in 1 .. h /\ 2 * (g + 1) - 1 + cut = k /\ b + (g + 1) = b + g + 1 BY <1>7
  <2> QED BY <1>4, <2>1
<1>9. e = 0 => s[k].part = "tail"
  <2>1. CASE g = 0 BY <1>5, <2>1
  <2>2. CASE g # 0 /\ e = 0
    <3>1. g \in 1 .. h /\ 2 * g + cut = k BY <1>7, <2>2
    <3> QED BY <1>4, <3>1
  <2> QED BY <2>1, <2>2
<1>10. read[1].part = "head" <=> cut = 0 BY <1>3, <1>5, <1>6
<1>11. Whole(read, n) = [i \in 1 .. g |-> [from |-> n, nr |-> Nr(b + i, top)]]
  <2>1. Whole(read, n) = [i \in 1 .. (k - cut) \div 2 |-> [from |-> n, nr |-> read[2 * i + cut].nr]]
    BY <1>2, <1>10 DEF Whole
  <2>2. (k - cut) \div 2 = g BY <1>1
  <2>3. ASSUME NEW i \in 1 .. g PROVE read[2 * i + cut].nr = Nr(b + i, top)
    <3>1. i \in 1 .. h /\ 2 * i + cut \in 1 .. k BY <1>7
    <3> QED BY <1>2, <1>4, <3>1
  <2> QED BY <2>1, <2>2, <2>3
<1> QED BY <1>3, <1>5, <1>8, <1>9, <1>10, <1>11 DEF ReadAs

LEMMA ParseIs ==
  ASSUME NEW s, NEW cut, NEW h, NEW b, NEW top, NEW k, NEW g, NEW e,
         Reading(s, cut, h, b, top, k, g, e), NEW n,
         NEW T \in Parse(SubSeq(s, 1, k), n)
  PROVE  TakenAre(T, n, b, cut, g, e, top)
<1>1. PICK read : read = SubSeq(s, 1, k) OBVIOUS
<1> DEFINE W == [i \in 1 .. g |-> [from |-> n, nr |-> Nr(b + i, top)]]
           Msg(nr) == <<[from |-> n, nr |-> nr]>>
<1>2. /\ read[1].part = "head" <=> cut = 0
      /\ cut = 1 => read[1].nr = Nr(b, top)
      /\ Whole(read, n) = W
      /\ Last(read).part = "head" <=> e = 1
      /\ e = 1 => Last(read).nr = Nr(b + g + 1, top)
  <2>1. ReadAs(read, n, cut, b, g, e, top) BY <1>1, ReadIs
  <2> QED BY <2>1 DEF ReadAs
<1> cut \in {0, 1} /\ e \in {0, 1} /\ g \in Nat /\ b \in Nat BY DEF Reading
<1>3. \/ T = W
      \/ cut = 1 /\ e = 1 /\ T = W \o Msg(Nr(b + g + 1, top))
      \/ cut = 1 /\ T = << >>
      \/ cut = 1 /\ Nr(b, top) # CLOSE /\ T = Msg(Unknown) \o W
  BY <1>1, <1>2 DEF Parse
<1>4. CASE T = W BY <1>4 DEF TakenAre
<1>5. CASE cut = 1 /\ T = << >>
  <2>1. << >> = [i \in 1 .. 0 |-> [from |-> n, nr |-> Nr(b + i, top)]] OBVIOUS
  <2> QED BY <1>5, <2>1 DEF TakenAre
<1>6. CASE cut = 1 /\ e = 1 /\ T = W \o Msg(Nr(b + g + 1, top))
  <2>1. T = [i \in 1 .. g + 1 |-> [from |-> n, nr |-> Nr(b + i, top)]] BY <1>6
  <2> QED BY <1>6, <2>1 DEF TakenAre
<1>7. CASE cut = 1 /\ Nr(b, top) # CLOSE /\ T = Msg(Unknown) \o W
  <2>1. T = [i \in 1 .. g + 1 |->
               [from |-> n, nr |-> IF i = 1 THEN Unknown ELSE Nr(b + i - 1, top)]]
    BY <1>7
  <2> QED BY <1>7, <2>1 DEF TakenAre
<1> QED BY <1>3, <1>4, <1>5, <1>6, <1>7

\* They are in order, after b and not after b2.
Fits(T, n, b, b2) ==
  /\ T \in Seq(Message) /\ CloseIsLast(T)
  /\ \A i \in DOMAIN T : T[i].from = n /\ (T[i].nr > 0 => b < T[i].nr /\ T[i].nr <= b2)
  /\ \A i, j \in DOMAIN T : i < j /\ T[i].nr > 0 /\ T[j].nr > 0 => T[i].nr < T[j].nr

\* All of them but a CLOSE have one of the messages after x and up to y.
HaveTags(T, x, y) ==
  \E m \in Nat :
    /\ m = Len(T) \/ (m + 1 = Len(T) /\ T[Len(T)].nr = CLOSE)
    /\ m > 0 => x + m <= y

\* The last message whose end was read.
Until(j, top) == IF j <= top THEN j ELSE top

LEMMA TakenFit ==
  ASSUME NEW n \in Neighbour, NEW cut \in {0, 1}, NEW h \in Nat, NEW b \in Nat, NEW top \in Nat,
         NEW g \in Nat, NEW e \in {0, 1}, cut <= b, g + e <= h, b + h <= top + 1,
         NEW T, TakenAre(T, n, b, cut, g, e, top)
  PROVE  /\ Fits(T, n, b, b + g + e)
         /\ HaveTags(T, b - cut, Until(b + g, top))
<1>1. \A j \in Nat : Nr(j, top) \in Nat /\ (Nr(j, top) > 0 => Nr(j, top) = j)
                       /\ (j > 0 /\ Nr(j, top) = CLOSE => j > top)
  BY DEF Nr, CLOSE
<1>2. CASE \E l \in {0, g, g + 1} :
             /\ l = g + 1 => cut = 1 /\ e = 1
             /\ T = [i \in 1 .. l |-> [from |-> n, nr |-> Nr(b + i, top)]]
  <2>1. PICK l \in {0, g, g + 1} :
             /\ l = g + 1 => cut = 1 /\ e = 1
             /\ T = [i \in 1 .. l |-> [from |-> n, nr |-> Nr(b + i, top)]]
    BY <1>2
  <2>2. l \in Nat /\ l <= g + e /\ l <= g + cut BY <2>1
  <2>3. DOMAIN T = 1 .. l /\ \A i \in 1 .. l : T[i] = [from |-> n, nr |-> Nr(b + i, top)] BY <2>1
  <2>4. \A i \in 1 .. l : T[i].from = n /\ T[i].nr = Nr(b + i, top) /\ T[i] \in Message
    <3> SUFFICES ASSUME NEW i \in 1 .. l
                 PROVE  T[i].from = n /\ T[i].nr = Nr(b + i, top) /\ T[i] \in Message
      OBVIOUS
    <3>1. b + i \in Nat BY <2>2
    <3>2. Nr(b + i, top) \in Nat \union {Unknown} BY <1>1, <3>1
    <3>3. T[i] = [from |-> n, nr |-> Nr(b + i, top)] BY <2>3
    <3>4. T[i] \in Message BY <3>2, <3>3, IsMessage
    <3> QED BY <3>3, <3>4
  <2>5. T \in Seq(Message) /\ Len(T) = l
    <3>1. T \in [1 .. l -> Message] BY <2>1, <2>4
    <3> QED BY <2>2, <3>1, IsSeq
  <2>6. \A i \in 1 .. l : T[i].nr = CLOSE => i = l
    <3> SUFFICES ASSUME NEW i \in 1 .. l, T[i].nr = CLOSE PROVE i = l OBVIOUS
    <3>1. b + i > top BY <1>1, <2>4
    <3> QED BY <2>2, <3>1
  <2>7. \A i \in 1 .. l : T[i].nr > 0 => T[i].nr = b + i BY <1>1, <2>4
  <2>8. Fits(T, n, b, b + g + e)
    <3>1. CloseIsLast(T) BY <2>3, <2>5, <2>6 DEF CloseIsLast
    <3>2. \A i \in 1 .. l : T[i].nr > 0 => b < T[i].nr /\ T[i].nr <= b + g + e BY <2>2, <2>7
    <3>3. \A i, j \in 1 .. l : i < j /\ T[i].nr > 0 /\ T[j].nr > 0 => T[i].nr < T[j].nr
      BY <2>2, <2>7
    <3> QED BY <2>3, <2>4, <2>5, <3>1, <3>2, <3>3 DEF Fits
  <2>9. HaveTags(T, b - cut, Until(b + g, top))
    <3>1. CASE l = 0 BY <2>5, <3>1 DEF HaveTags
    <3>2. CASE l > 0 /\ T[l].nr # CLOSE
      <4>1. b + l <= top BY <2>2, <2>4, <3>2 DEF Nr
      <4>2. (b - cut) + l <= Until(b + g, top) BY <2>2, <4>1 DEF Until
      <4> QED BY <2>2, <2>5, <4>2 DEF HaveTags
    <3>3. CASE l > 0 /\ T[l].nr = CLOSE
      <4>1. l - 1 \in Nat /\ (l - 1) + 1 = l BY <2>2, <3>3
      <4>2. (b - cut) + (l - 1) <= Until(b + g, top) BY <2>2, <3>3 DEF Until
      <4> QED BY <2>5, <3>3, <4>1, <4>2 DEF HaveTags
    <3> QED BY <2>2, <3>1, <3>2, <3>3
  <2> QED BY <2>8, <2>9
<1>3. CASE /\ cut = 1 /\ Nr(b, top) # CLOSE
           /\ T = [i \in 1 .. g + 1 |->
                     [from |-> n, nr |-> IF i = 1 THEN Unknown ELSE Nr(b + i - 1, top)]]
  <2>1. b <= top BY <1>3 DEF Nr
  <2>2. DOMAIN T = 1 .. g + 1 BY <1>3
  <2>3. T[1] = [from |-> n, nr |-> Unknown] BY <1>3
  <2>4. \A i \in 2 .. g + 1 : T[i] = [from |-> n, nr |-> Nr(b + i - 1, top)] BY <1>3
  <2>5. \A i \in 1 .. g + 1 : /\ T[i] \in Message /\ T[i].from = n
                              /\ i = 1 => T[i].nr = Unknown
                              /\ i > 1 => T[i].nr = Nr(b + i - 1, top)
    <3> SUFFICES ASSUME NEW i \in 1 .. g + 1
                 PROVE  /\ T[i] \in Message /\ T[i].from = n
                        /\ i = 1 => T[i].nr = Unknown
                        /\ i > 1 => T[i].nr = Nr(b + i - 1, top)
      OBVIOUS
    <3>1. CASE i = 1
      <4>1. T[i] \in Message BY <2>3, <3>1, IsMessage
      <4> QED BY <2>3, <3>1, <4>1
    <3>2. CASE i > 1
      <4>1. b + i - 1 \in Nat /\ i \in 2 .. g + 1 BY <3>2
      <4>2. Nr(b + i - 1, top) \in Nat \union {Unknown} BY <1>1, <4>1
      <4>3. T[i] = [from |-> n, nr |-> Nr(b + i - 1, top)] BY <2>4, <4>1
      <4>4. T[i] \in Message BY <4>2, <4>3, IsMessage
      <4> QED BY <3>2, <4>3, <4>4
    <3> QED BY <3>1, <3>2
  <2>6. T \in Seq(Message) /\ Len(T) = g + 1
    <3>1. T \in [1 .. g + 1 -> Message] BY <1>3, <2>5
    <3> QED BY <3>1, IsSeq
  <2>7. \A i \in 1 .. g + 1 : T[i].nr > 0 => i > 1 /\ T[i].nr = b + i - 1
    BY <1>1, <2>5 DEF Unknown
  <2>8. \A i \in 1 .. g + 1 : T[i].nr = CLOSE => i > 1 /\ b + i - 1 > top
    BY <2>5 DEF Unknown, CLOSE, Nr
  <2>9. Fits(T, n, b, b + g + e)
    <3>1. CloseIsLast(T) BY <2>2, <2>6, <2>8 DEF CloseIsLast
    <3>2. \A i \in 1 .. g + 1 : T[i].nr > 0 => b < T[i].nr /\ T[i].nr <= b + g + e BY <2>7
    <3>3. \A i, j \in 1 .. g + 1 : i < j /\ T[i].nr > 0 /\ T[j].nr > 0 => T[i].nr < T[j].nr
      BY <2>7
    <3> QED BY <2>2, <2>5, <2>6, <3>1, <3>2, <3>3 DEF Fits
  <2>10. HaveTags(T, b - cut, Until(b + g, top))
    <3>1. CASE T[g + 1].nr # CLOSE
      <4>1. b + g <= top BY <2>1, <2>5, <3>1 DEF Nr
      <4>2. (b - cut) + (g + 1) <= Until(b + g, top) BY <1>3, <4>1 DEF Until
      <4> QED BY <2>6, <4>2 DEF HaveTags
    <3>2. CASE T[g + 1].nr = CLOSE
      <4>1. (b - cut) + g <= Until(b + g, top) BY <1>3 DEF Until
      <4> QED BY <2>6, <3>2, <4>1 DEF HaveTags
    <3> QED BY <3>1, <3>2
  <2> QED BY <2>9, <2>10
<1> QED BY <1>2, <1>3 DEF TakenAre

-----------------------------------------------------------------------------
(* The line.                                                               *)

\* More is read of n.
LEMMA OrderGrows ==
  ASSUME NEW given \in Seq(Nat), NEW line \in Seq(Message), NEW n, NEW b \in Nat, NEW b2 \in Nat, b <= b2,
         Ordered(given, line, n, b), NEW T, Fits(T, n, b, b2), NEW line2, line2 = line \o T
  PROVE  Ordered(given, line2, n, b2)
<1>1. T \in Seq(Message) BY DEF Fits
<1>2. /\ line2 \in Seq(Message) /\ Len(line2) = Len(line) + Len(T)
      /\ \A i \in 1 .. Len(line) : line2[i] = line[i]
      /\ \A i \in 1 .. Len(T) : line2[Len(line) + i] = T[i]
  BY <1>1, Concat
<1>3. \A j \in DOMAIN line2 : \/ j \in 1 .. Len(line) /\ line2[j] = line[j]
                              \/ \E k \in 1 .. Len(T) : j = Len(line) + k /\ line2[j] = T[k]
  <2> SUFFICES ASSUME NEW j \in DOMAIN line2, j \notin 1 .. Len(line)
               PROVE  \E k \in 1 .. Len(T) : j = Len(line) + k /\ line2[j] = T[k]
    BY <1>2
  <2>1. j - Len(line) \in 1 .. Len(T) /\ j = Len(line) + (j - Len(line)) BY <1>1, <1>2
  <2> QED BY <1>2, <2>1
<1>4. \A j \in DOMAIN line : line[j].nr \in Int
  <2>1. \A j \in DOMAIN line : line[j] \in Message OBVIOUS
  <2> QED BY <2>1, NrIsInt
<1>5. \A j \in DOMAIN T : T[j].nr \in Int
  <2>1. \A j \in DOMAIN T : T[j] \in Message BY <1>1
  <2> QED BY <2>1, NrIsInt
<1>6. \A i \in DOMAIN given : given[i] \in Nat /\ given[i] <= b2 BY DEF Ordered
<1>7. ASSUME NEW j \in DOMAIN line2, line2[j].from = n, line2[j].nr > 0
      PROVE  line2[j].nr <= b2 /\ \A i \in DOMAIN given : given[i] < line2[j].nr
  <2>1. CASE j \in 1 .. Len(line) /\ line2[j] = line[j]
    BY <1>4, <1>7, <2>1 DEF Ordered
  <2>2. CASE \E k \in 1 .. Len(T) : j = Len(line) + k /\ line2[j] = T[k]
    BY <1>1, <1>5, <1>6, <1>7, <2>2 DEF Ordered, Fits
  <2> QED BY <1>3, <2>1, <2>2
<1>8. ASSUME NEW i \in DOMAIN line2, NEW j \in DOMAIN line2, i < j,
             line2[i].from = n, line2[i].nr > 0, line2[j].from = n, line2[j].nr > 0
      PROVE  line2[i].nr < line2[j].nr
  <2>1. CASE j \in 1 .. Len(line) /\ line2[j] = line[j]
    <3>1. i \in 1 .. Len(line) /\ line2[i] = line[i] BY <1>2, <1>8, <2>1
    <3> QED BY <1>8, <2>1, <3>1 DEF Ordered
  <2>2. CASE \E k \in 1 .. Len(T) : j = Len(line) + k /\ line2[j] = T[k]
    <3>1. PICK k \in 1 .. Len(T) : j = Len(line) + k /\ line2[j] = T[k] BY <2>2
    <3>2. CASE i \in 1 .. Len(line) /\ line2[i] = line[i]
      <4>1. line[i].nr <= b BY <1>8, <3>2 DEF Ordered
      <4>2. b < T[k].nr BY <1>1, <1>8, <3>1 DEF Fits
      <4>3. line[i].nr \in Int /\ T[k].nr \in Int BY <1>1, <1>4, <1>5, <3>1, <3>2
      <4> QED BY <3>1, <3>2, <4>1, <4>2, <4>3
    <3>3. CASE \E l \in 1 .. Len(T) : i = Len(line) + l /\ line2[i] = T[l]
      BY <1>1, <1>8, <3>1, <3>3 DEF Fits
    <3> QED BY <1>3, <3>2, <3>3
  <2> QED BY <1>3, <2>1, <2>2
<1> QED BY <1>6, <1>7, <1>8 DEF Ordered

\* Something else is read of another neighbour.
LEMMA OrderStays ==
  ASSUME NEW given \in Seq(Nat), NEW line \in Seq(Message), NEW n, NEW b \in Nat,
         Ordered(given, line, n, b), NEW T \in Seq(Message), \A i \in DOMAIN T : T[i].from # n,
         NEW line2, line2 = line \o T
  PROVE  Ordered(given, line2, n, b)
<1>1. /\ line2 \in Seq(Message) /\ Len(line2) = Len(line) + Len(T)
      /\ \A i \in 1 .. Len(line) : line2[i] = line[i]
      /\ \A i \in 1 .. Len(T) : line2[Len(line) + i] = T[i]
  BY Concat
<1>2. ASSUME NEW j \in DOMAIN line2, line2[j].from = n
      PROVE  j \in DOMAIN line /\ line2[j] = line[j]
  <2>1. CASE j \notin 1 .. Len(line)
    <3>1. j - Len(line) \in 1 .. Len(T) /\ j = Len(line) + (j - Len(line)) BY <1>1, <2>1
    <3>2. line2[j] = T[j - Len(line)] BY <1>1, <3>1
    <3> QED BY <1>2, <3>1, <3>2
  <2>2. CASE j \in 1 .. Len(line) BY <1>1, <2>2
  <2> QED BY <2>1, <2>2
<1> QED BY <1>2 DEF Ordered

\* The end of the line is given up.
LEMMA OrderOfPrefix ==
  ASSUME NEW given \in Seq(Nat), NEW line \in Seq(Message), NEW n, NEW b \in Nat, NEW b2 \in Nat,
         b <= b2, Ordered(given, line, n, b),
         NEW k \in 0 .. Len(line), NEW line2, line2 = SubSeq(line, 1, k)
  PROVE  Ordered(given, line2, n, b2)
<1>1. Len(line2) = k /\ DOMAIN line2 = 1 .. k /\ \A i \in 1 .. k : line2[i] = line[i] OBVIOUS
<1>2. \A j \in DOMAIN line2 : j \in DOMAIN line /\ line2[j] = line[j] BY <1>1
<1>3. \A i \in DOMAIN given : given[i] <= b2
  <2>1. \A i \in DOMAIN given : given[i] \in Nat /\ given[i] <= b BY DEF Ordered
  <2> QED BY <2>1
<1>4. \A j \in DOMAIN line2 : line2[j].from = n /\ line2[j].nr > 0 => line2[j].nr <= b2
  <2> SUFFICES ASSUME NEW j \in DOMAIN line2, line2[j].from = n, line2[j].nr > 0
               PROVE  line2[j].nr <= b2
    OBVIOUS
  <2>1. j \in DOMAIN line /\ line2[j] = line[j] /\ line[j] \in Message BY <1>2
  <2>2. line[j].nr <= b /\ line[j].nr \in Int BY <2>1, NrIsInt DEF Ordered
  <2> QED BY <2>1, <2>2
<1> QED BY <1>2, <1>3, <1>4 DEF Ordered

\* The control task receives the first one.
LEMMA OrderOfTail ==
  ASSUME NEW given \in Seq(Nat), NEW line \in Seq(Message), NEW n, NEW b \in Nat,
         Ordered(given, line, n, b), line # << >>, NEW m, m = Head(line), m.nr # CLOSE,
         NEW given2, given2 = IF m.nr # Unknown /\ m.from = n THEN Append(given, m.nr) ELSE given,
         NEW line2, line2 = Tail(line)
  PROVE  given2 \in Seq(Nat) /\ Ordered(given2, line2, n, b)
<1>1. 1 \in DOMAIN line /\ m = line[1] /\ m \in Message OBVIOUS
<1>2. line2 \in Seq(Message) /\ DOMAIN line2 = 1 .. Len(line) - 1 OBVIOUS
<1>3. \A j \in DOMAIN line2 : j + 1 \in DOMAIN line /\ line2[j] = line[j + 1] OBVIOUS
<1>4. \A j \in DOMAIN line : line[j].nr \in Int
  <2>1. \A j \in DOMAIN line : line[j] \in Message OBVIOUS
  <2> QED BY <2>1, NrIsInt
<1>5. Ordered(given, line2, n, b)
  <2>1. ASSUME NEW j \in DOMAIN line2, line2[j].from = n, line2[j].nr > 0
        PROVE  line2[j].nr <= b /\ \A i \in DOMAIN given : given[i] < line2[j].nr
    BY <1>3, <2>1 DEF Ordered
  <2>2. ASSUME NEW i \in DOMAIN line2, NEW j \in DOMAIN line2, i < j,
               line2[i].from = n, line2[i].nr > 0, line2[j].from = n, line2[j].nr > 0
        PROVE  line2[i].nr < line2[j].nr
    <3>1. i + 1 < j + 1 BY <1>2, <2>2
    <3> QED BY <1>3, <2>2, <3>1 DEF Ordered
  <2> QED BY <2>1, <2>2 DEF Ordered
<1>6. CASE m.nr = Unknown \/ m.from # n BY <1>5, <1>6
<1>7. CASE m.nr # Unknown /\ m.from = n
  <2>1. m.nr \in Nat /\ m.nr > 0 BY <1>1, <1>7, NrIsInt DEF CLOSE
  <2>2. /\ given2 \in Seq(Nat) /\ DOMAIN given2 = 1 .. Len(given) + 1
        /\ \A i \in 1 .. Len(given) : given2[i] = given[i]
        /\ given2[Len(given) + 1] = m.nr
    BY <1>7, <2>1
  <2>3. m.nr <= b /\ \A i \in DOMAIN given : given[i] < m.nr
    BY <1>1, <1>7, <2>1 DEF Ordered
  <2>4. \A i, j \in DOMAIN given2 : i < j => given2[i] < given2[j]
    BY <2>2, <2>3 DEF Ordered
  <2>5. \A i \in DOMAIN given2 : given2[i] <= b BY <2>2, <2>3 DEF Ordered
  <2>6. ASSUME NEW j \in DOMAIN line2, line2[j].from = n, line2[j].nr > 0
        PROVE  /\ line2[j].nr <= b
               /\ \A i \in DOMAIN given2 : given2[i] < line2[j].nr
    <3>1. line2[j].nr <= b /\ \A i \in DOMAIN given : given[i] < line2[j].nr
      BY <1>5, <2>6 DEF Ordered
    <3>2. m.nr < line2[j].nr
      <4>1. 1 < j + 1 /\ j + 1 \in DOMAIN line /\ line2[j] = line[j + 1] BY <1>2, <1>3
      <4> QED BY <1>1, <1>7, <2>1, <2>6, <4>1 DEF Ordered
    <3> QED BY <2>2, <3>1, <3>2
  <2>7. \A i, j \in DOMAIN line2 :
          i < j /\ line2[i].from = n /\ line2[i].nr > 0 /\ line2[j].from = n /\ line2[j].nr > 0
          => line2[i].nr < line2[j].nr
    BY <1>5 DEF Ordered
  <2> QED BY <2>2, <2>4, <2>5, <2>6, <2>7 DEF Ordered
<1> QED BY <1>6, <1>7

\* Something arrives from n, as long as it has not closed.
LEMMA OrderOnArrival ==
  ASSUME NEW s, NEW top \in Nat, NEW given, NEW line, NEW n, OrderIs(s, top, TRUE, given, line, n),
         NEW nr, NEW top2, NEW isOpen2,
         (nr = top + 1 /\ top2 = top + 1) \/ (nr = CLOSE /\ top2 = top /\ ~isOpen2),
         given \in Seq(Nat), line \in Seq(Message),
         NEW s2, s2 = s \o <<[nr |-> nr, part |-> "head"], [nr |-> nr, part |-> "tail"]>>
  PROVE  OrderIs(s2, top2, isOpen2, given, line, n)
<1>1. PICK h \in Nat, b \in Nat, cut \in {0, 1} :
        /\ StreamIs(s, cut, h, b, top)
        /\ cut <= b /\ top <= b + h /\ b + h <= top + 1
        /\ TRUE => b + h = top
        /\ Ordered(given, line, n, b)
  BY DEF OrderIs
<1>2. StreamIs(s2, cut, h + 1, b, top2) BY <1>1, StreamGrows
<1>3. h + 1 \in Nat /\ top2 <= b + (h + 1) /\ b + (h + 1) <= top2 + 1 BY <1>1
<1>4. top2 = top + 1 => b + (h + 1) = top2 BY <1>1
<1>5. isOpen2 => b + (h + 1) = top2 BY <1>4, Zenon
<1> QED BY <1>1, <1>2, <1>3, <1>5 DEF OrderIs

\* The first k pieces of the stream of n are read.
LEMMA ReadingExists ==
  ASSUME NEW s, NEW top \in Nat, NEW isOpen, NEW given, NEW line, NEW n,
         OrderIs(s, top, isOpen, given, line, n), NEW k \in 1 .. Len(s)
  PROVE  \E h, b, g \in Nat, cut, e \in {0, 1} :
           /\ Reading(s, cut, h, b, top, k, g, e)
           /\ cut <= b /\ top <= b + h /\ b + h <= top + 1
           /\ isOpen => b + h = top
           /\ Ordered(given, line, n, b)
<1>1. PICK h \in Nat, b \in Nat, cut \in {0, 1} :
        /\ StreamIs(s, cut, h, b, top)
        /\ cut <= b /\ top <= b + h /\ b + h <= top + 1
        /\ isOpen => b + h = top
        /\ Ordered(given, line, n, b)
  BY DEF OrderIs
<1>2. Len(s) \in Nat BY <1>1 DEF StreamIs
<1>3. k - cut \in Nat BY <1>2
<1>4. PICK g \in Nat, e \in {0, 1} : k - cut = 2 * g + e BY <1>3, Halves
<1>5. k = 2 * g + cut + e BY <1>2, <1>4
<1>6. Reading(s, cut, h, b, top, k, g, e) BY <1>1, <1>5 DEF Reading
<1> QED BY <1>1, <1>6

\* What was taken for messages has messages of its own, after those that were
\* gone, and they are gone now.
HasTags(T, s, s2, top) ==
  \E x, m \in Nat :
    /\ m = Len(T) \/ (m + 1 = Len(T) /\ T[Len(T)].nr = CLOSE)
    /\ \A i \in 1 .. m : Gone(s2, top, x + i)
    /\ m > 0 => \A j \in Nat : Gone(s, top, j) => j <= x
    /\ \A j \in Nat : Gone(s, top, j) => Gone(s2, top, j)

\* The first k pieces of what n has sent are read and taken for T.
IsRead(s, top, isOpen, given, line, n, k, T) ==
  /\ top \in Nat /\ given \in Seq(Nat) /\ line \in Seq(Message)
  /\ n \in Neighbour /\ OrderIs(s, top, isOpen, given, line, n)
  /\ k \in 1 .. Len(s) /\ T \in Parse(SubSeq(s, 1, k), n)

\* What is left, and the line.
ReadGives(s, s2, top, isOpen, given, line2, n, T) ==
  /\ T \in Seq(Message) /\ CloseIsLast(T) /\ \A i \in DOMAIN T : T[i].from = n
  /\ OrderIs(s2, top, isOpen, given, line2, n)
  /\ HasTags(T, s, s2, top)

LEMMA ReadKeeps ==
  ASSUME NEW s, NEW top, NEW isOpen, NEW given, NEW line, NEW n, NEW k, NEW T,
         IsRead(s, top, isOpen, given, line, n, k, T),
         NEW s2, s2 = SubSeq(s, k + 1, Len(s)), NEW line2, line2 = line \o T
  PROVE  ReadGives(s, s2, top, isOpen, given, line2, n, T)
<1> USE DEF IsRead
<1>1. PICK h \in Nat, b \in Nat, g \in Nat, cut \in {0, 1}, e \in {0, 1} :
           /\ Reading(s, cut, h, b, top, k, g, e)
           /\ cut <= b /\ top <= b + h /\ b + h <= top + 1
           /\ isOpen => b + h = top
           /\ Ordered(given, line, n, b)
  BY ReadingExists
<1>2. g + e <= h /\ StreamIs(s2, e, h - g - e, b + g + e, top) BY <1>1, StreamShrinks
<1>3. TakenAre(T, n, b, cut, g, e, top) BY <1>1, ParseIs
<1>4. Fits(T, n, b, b + g + e) /\ HaveTags(T, b - cut, Until(b + g, top))
  BY <1>1, <1>2, <1>3, TakenFit
<1>5. b + g + e \in Nat /\ b <= b + g + e OBVIOUS
<1>6. Ordered(given, line2, n, b + g + e) BY <1>1, <1>4, <1>5, OrderGrows
<1>7. /\ h - g - e \in Nat /\ e <= b + g + e
      /\ (b + g + e) + (h - g - e) = b + h
  BY <1>2
<1>8. OrderIs(s2, top, isOpen, given, line2, n) BY <1>1, <1>2, <1>5, <1>6, <1>7 DEF OrderIs
<1>9. PICK x \in Nat, y \in Nat : x = b - cut /\ y = Until(b + g, top)
  <2>1. b - cut \in Nat /\ Until(b + g, top) \in Nat BY <1>1 DEF Until
  <2> QED BY <2>1
<1>10. /\ HaveTags(T, x, y) /\ y <= top /\ y <= b + g /\ x + cut = b /\ (y = top \/ y = b + g)
  BY <1>4, <1>9 DEF Until
<1>11. PICK m \in Nat : /\ m = Len(T) \/ (m + 1 = Len(T) /\ T[Len(T)].nr = CLOSE)
                        /\ m > 0 => x + m <= y
  BY <1>10 DEF HaveTags
<1>12. s \in Seq(Piece) /\ Len(s) = 2 * h + cut BY <1>1 DEF Reading, StreamIs
<1>13. s2 \in Seq(Piece) /\ Len(s2) = 2 * (h - g - e) + e BY <1>2 DEF StreamIs
<1>14. ASSUME NEW i \in DOMAIN s2, s2[i].part = "tail", s2[i].nr # CLOSE
      PROVE  b + g < s2[i].nr
  <2>1. \A j \in Nat : Nr(j, top) # CLOSE => Nr(j, top) = j BY DEF Nr
  <2>2. CASE e = 1 /\ i = 1
    <3>1. s2[i].nr = Nr(b + g + e, top) BY <1>2, <2>2 DEF StreamIs, Tailed
    <3>2. b + g + e \in Nat OBVIOUS
    <3>3. s2[i].nr = b + g + e BY <1>14, <2>1, <3>1, <3>2
    <3> QED BY <2>2, <3>3
  <2>3. CASE ~(e = 1 /\ i = 1)
    <3>1. i - e \in Nat /\ i - e >= 1 /\ i - e <= 2 * (h - g - e) BY <1>2, <1>13, <2>3
    <3>2. PICK q \in Nat, r \in {0, 1} : i - e - 1 = 2 * q + r
      <4>1. i - e - 1 \in Nat BY <3>1
      <4> QED BY <4>1, Halves
    <3>3. q + 1 \in 1 .. h - g - e BY <1>2, <3>1, <3>2
    <3>4. /\ s2[2 * (q + 1) - 1 + e] = Headed(b + g + e + (q + 1), top)
          /\ s2[2 * (q + 1) + e] = Tailed(b + g + e + (q + 1), top)
      BY <1>2, <3>3 DEF StreamIs
    <3>5. r = 1
      <4>1. r = 0 => i = 2 * (q + 1) - 1 + e BY <3>1, <3>2
      <4> QED BY <1>14, <3>4, <4>1 DEF Headed
    <3>6. i = 2 * (q + 1) + e
      <4>1. i \in Int /\ e \in Int /\ q \in Int /\ i - e - 1 = 2 * q + 1 BY <1>13, <3>2, <3>5
      <4> QED BY <4>1, Undone
    <3>7. s2[i].nr = Nr(b + g + e + (q + 1), top) BY <3>4, <3>6 DEF Tailed
    <3>8. b + g + e + (q + 1) \in Nat OBVIOUS
    <3>9. s2[i].nr = b + g + e + (q + 1) BY <1>14, <2>1, <3>7, <3>8
    <3> QED BY <3>9
  <2> QED BY <2>2, <2>3
<1>15. \A i \in 1 .. m : Gone(s2, top, x + i)
  <2> SUFFICES ASSUME NEW i \in 1 .. m PROVE Gone(s2, top, x + i) OBVIOUS
  <2>1. x + i \in 1 .. top /\ x + i <= b + g
    <3>1. x + m <= y BY <1>11
    <3> QED BY <1>10, <3>1
  <2>2. ASSUME NEW j \in DOMAIN s2, s2[j].part = "tail", s2[j].nr # CLOSE
        PROVE  x + i < s2[j].nr
    <3>1. s2[j] \in Piece BY <1>13
    <3>2. s2[j].nr \in Nat BY <3>1 DEF Piece
    <3>3. b + g < s2[j].nr BY <1>14, <2>2
    <3> QED BY <2>1, <3>2, <3>3
  <2> QED BY <2>1, <2>2 DEF Gone
<1>16. ASSUME m > 0, NEW j \in Nat, Gone(s, top, j)
       PROVE  j <= x
  <2>1. x + 1 <= y
    <3>1. x + m <= y BY <1>11, <1>16
    <3> QED BY <1>16, <3>1
  <2>2. CASE cut = 1
    <3>1. b <= top BY <1>10, <2>1, <2>2
    <3>2. s[1] = Tailed(b, top) /\ 1 \in DOMAIN s BY <1>1, <1>12, <2>2 DEF Reading, StreamIs
    <3>3. s[1].part = "tail" /\ s[1].nr = b /\ b # CLOSE
      BY <1>1, <2>2, <3>1, <3>2 DEF Tailed, Nr, CLOSE
    <3> QED BY <1>9, <1>16, <2>2, <3>2, <3>3 DEF Gone
  <2>3. CASE cut = 0
    <3>1. g > 0 /\ b + 1 <= top BY <1>10, <2>1, <2>3
    <3>2. 1 \in 1 .. h /\ 2 * 1 + cut = 2 /\ 2 \in DOMAIN s BY <1>2, <1>12, <2>3, <3>1
    <3>3. s[2 * 1 + cut] = Tailed(b + 1, top) BY <1>1, <3>2 DEF Reading, StreamIs
    <3>4. s[2].part = "tail" /\ s[2].nr = b + 1 /\ b + 1 # CLOSE
      BY <3>1, <3>2, <3>3 DEF Tailed, Nr, CLOSE
    <3> QED BY <1>9, <1>16, <2>3, <3>2, <3>4 DEF Gone
  <2> QED BY <2>2, <2>3
<1>17. ASSUME NEW j \in Nat, Gone(s, top, j) PROVE Gone(s2, top, j)
  <2>1. \A i \in DOMAIN s2 : k + i \in DOMAIN s /\ s2[i] = s[k + i] BY <1>12
  <2> QED BY <1>17, <2>1 DEF Gone
<1>18. HasTags(T, s, s2, top) BY <1>11, <1>15, <1>16, <1>17 DEF HasTags
<1>19. T \in Seq(Message) /\ CloseIsLast(T) /\ \A i \in DOMAIN T : T[i].from = n
  BY <1>4 DEF Fits
<1> QED BY <1>8, <1>18, <1>19 DEF ReadGives

Pieces(nr) == <<[nr |-> nr, part |-> "head"], [nr |-> nr, part |-> "tail"]>>

LEMMA GoneOnArrival ==
  ASSUME NEW s \in Seq(Piece), NEW top \in Nat, NEW nr \in Nat, NEW top2,
         (nr = top + 1 /\ top2 = top + 1) \/ (nr = CLOSE /\ top2 = top),
         NEW s2, s2 = s \o Pieces(nr), NEW j \in Nat, Gone(s, top, j)
  PROVE  Gone(s2, top2, j)
<1>1. PICK p, q : p = [nr |-> nr, part |-> "head"] /\ q = [nr |-> nr, part |-> "tail"] OBVIOUS
<1>2. p \in Piece /\ q \in Piece /\ p.part = "head" /\ q.nr = nr BY <1>1 DEF Piece
<1>3. s2 = s \o <<p, q>> BY <1>1 DEF Pieces
<1>4. /\ DOMAIN s2 = 1 .. Len(s) + 2 /\ s2[Len(s) + 1] = p /\ s2[Len(s) + 2] = q
      /\ \A i \in 1 .. Len(s) : i \in DOMAIN s /\ s2[i] = s[i]
  BY <1>2, <1>3
<1>5. j \in 1 .. top /\ j \in 1 .. top2 BY DEF Gone
<1>6. ASSUME NEW i \in DOMAIN s2, s2[i].part = "tail", s2[i].nr # CLOSE
      PROVE  j < s2[i].nr
  <2>1. CASE i \in 1 .. Len(s) BY <1>4, <1>6, <2>1 DEF Gone
  <2>2. CASE i = Len(s) + 1 BY <1>2, <1>4, <1>6, <2>2
  <2>3. CASE i = Len(s) + 2
    <3>1. nr = top + 1 BY <1>2, <1>4, <1>6, <2>3
    <3> QED BY <1>2, <1>4, <1>5, <2>3, <3>1
  <2> QED BY <1>4, <2>1, <2>2, <2>3
<1> QED BY <1>5, <1>6 DEF Gone

LEMMA GoneBelow ==
  ASSUME NEW s \in Seq(Piece), NEW top \in Nat, NEW j \in Nat, Gone(s, top, j), NEW i \in 1 .. j
  PROVE  Gone(s, top, i)
<1>1. \A l \in DOMAIN s : s[l] \in Piece OBVIOUS
<1>2. \A l \in DOMAIN s : s[l].nr \in Nat BY <1>1 DEF Piece
<1>3. i \in 1 .. top BY DEF Gone
<1>4. ASSUME NEW l \in DOMAIN s, s[l].part = "tail" /\ s[l].nr # CLOSE PROVE i < s[l].nr
  <2>1. j < s[l].nr /\ s[l].nr \in Nat BY <1>2, <1>4 DEF Gone
  <2> QED BY <2>1
<1> QED BY <1>3, <1>4 DEF Gone

\* What is gone stays gone, while the line stays or loses its end.
LEMMA TagsKept ==
  ASSUME NEW streams, NEW tops, NEW floors, NEW streams2, NEW tops2,
         \A n \in Neighbour : \A j \in Nat :
           Gone(streams[n], tops[n], j) => Gone(streams2[n], tops2[n], j),
         NEW line \in Seq(Message), TaggedBy(streams, tops, floors, line),
         NEW line2, \E k \in 0 .. Len(line) : line2 = SubSeq(line, 1, k)
  PROVE  TaggedBy(streams2, tops2, floors, line2)
<1>0. PICK k \in 0 .. Len(line) : line2 = SubSeq(line, 1, k) OBVIOUS
<1>1. PICK tags \in Seq(Neighbour \X Nat) :
        /\ TagsFor(tags, line)
        /\ \A i \in DOMAIN tags : Names(tags[i], streams, tops, floors)
  BY DEF TaggedBy
<1>2. \A i \in DOMAIN tags : Names(tags[i], streams2, tops2, floors)
  <2> SUFFICES ASSUME NEW i \in DOMAIN tags PROVE Names(tags[i], streams2, tops2, floors)
    OBVIOUS
  <2>1. PICK n \in Neighbour, j \in Nat : tags[i][1] = n /\ tags[i][2] = j
    <3>1. tags[i] \in Neighbour \X Nat OBVIOUS
    <3> QED BY <3>1
  <2>2. Gone(streams[n], tops[n], j) /\ floors[n] < j BY <1>1, <2>1 DEF Names
  <2>3. Gone(streams2[n], tops2[n], j) BY <2>2
  <2> QED BY <2>1, <2>2, <2>3 DEF Names
<1>3. UsedUp(streams2, tops2, floors)
  <2>1. UsedUp(streams, tops, floors) BY DEF TaggedBy
  <2> QED BY <2>1 DEF UsedUp
<1>4. CASE k = Len(line)
  <2>1. line2 = line BY <1>0, <1>4
  <2> QED BY <1>1, <1>2, <1>3, <2>1 DEF TaggedBy
<1>5. CASE k # Len(line)
  <2>1. k \in 0 .. Len(tags) /\ Len(line2) = k BY <1>0, <1>1, <1>5 DEF TagsFor
  <2>2. PICK tags2 : tags2 = SubSeq(tags, 1, k) OBVIOUS
  <2>3. /\ tags2 \in Seq(Neighbour \X Nat) /\ Len(tags2) = k
        /\ \A i \in DOMAIN tags2 : i \in DOMAIN tags /\ tags2[i] = tags[i] /\ line2[i] = line[i]
    BY <1>0, <2>1, <2>2
  <2>4. TagsFor(tags2, line2) BY <1>1, <2>1, <2>3 DEF TagsFor
  <2>5. \A i \in DOMAIN tags2 : Names(tags2[i], streams2, tops2, floors) BY <1>2, <2>3
  <2> QED BY <1>3, <2>3, <2>4, <2>5 DEF TaggedBy
<1> QED BY <1>4, <1>5

\* The first of the line is received, and counted when it is of the interlocking:
\* its tag is used up, and with it one of those that were sent before.
LEMMA TagsPass ==
  ASSUME NEW streams, NEW tops,
         \A n \in Neighbour : streams[n] \in Seq(Piece) /\ tops[n] \in Nat,
         NEW floors, NEW line \in Seq(Message), TaggedBy(streams, tops, floors, line),
         line # << >>, line[1].nr # CLOSE,
         NEW floors2,
         \A n \in Neighbour : \/ floors2[n] = floors[n]
                              \/ n = line[1].from /\ floors2[n] = floors[n] + 1,
         NEW line2, line2 = Tail(line)
  PROVE  TaggedBy(streams, tops, floors2, line2)
<1>1. PICK tags \in Seq(Neighbour \X Nat) :
        /\ TagsFor(tags, line)
        /\ \A i \in DOMAIN tags : Names(tags[i], streams, tops, floors)
  BY DEF TaggedBy
<1>2. \A n \in Neighbour : /\ floors[n] \in Nat
                           /\ floors[n] = 0 \/ Gone(streams[n], tops[n], floors[n])
  BY DEF TaggedBy, UsedUp
<1>3. PICK tags2 : tags2 = Tail(tags) OBVIOUS
<1>4. tags # << >>
  <2>1. Len(line) > 0 BY DEF TagsFor
  <2>2. Len(tags) + 1 = Len(line) /\ line[Len(line)].nr = CLOSE => Len(line) # 1 OBVIOUS
  <2>3. Len(tags) = Len(line) \/ (Len(tags) + 1 = Len(line) /\ line[Len(line)].nr = CLOSE)
    BY <1>1 DEF TagsFor
  <2>4. Len(tags) > 0
    <3>1. Len(tags) \in Nat /\ Len(line) \in Nat OBVIOUS
    <3>2. CASE Len(tags) = Len(line) BY <2>1, <3>2
    <3>3. CASE Len(tags) + 1 = Len(line) /\ line[Len(line)].nr = CLOSE
      <4>1. Len(line) # 1 BY <2>2, <3>3
      <4> QED BY <3>1, <3>3, <4>1
    <3> QED BY <2>3, <3>2, <3>3
  <2> QED BY <2>4
<1>5. /\ tags2 \in Seq(Neighbour \X Nat) /\ Len(tags2) = Len(tags) - 1
      /\ \A i \in DOMAIN tags2 : i \in Nat \ {0} /\ i + 1 \in DOMAIN tags /\ tags2[i] = tags[i + 1]
  BY <1>3, <1>4
<1>6. /\ Len(line2) = Len(line) - 1 /\ (Len(line) > 1 => line2[Len(line2)] = line[Len(line)])
      /\ \A i \in 1 .. Len(line2) : line2[i] = line[i + 1]
  OBVIOUS
<1>7. \/ Len(tags2) = Len(line2)
      \/ Len(tags2) + 1 = Len(line2) /\ line2[Len(line2)].nr = CLOSE
  <2>1. Len(tags) = Len(line) \/ (Len(tags) + 1 = Len(line) /\ line[Len(line)].nr = CLOSE)
    BY <1>1 DEF TagsFor
  <2>2. Len(tags) \in Nat /\ Len(line) \in Nat /\ Len(tags) > 0 BY <1>4
  <2>3. CASE Len(tags) = Len(line) BY <1>5, <1>6, <2>3
  <2>4. CASE Len(tags) + 1 = Len(line) /\ line[Len(line)].nr = CLOSE
    <3>1. Len(line) > 1 BY <2>2, <2>4
    <3>2. line2[Len(line2)].nr = CLOSE BY <1>6, <2>4, <3>1
    <3>3. Len(line2) = Len(line) - 1 /\ Len(tags2) = Len(tags) - 1 BY <1>5, <1>6
    <3>4. Len(tags2) + 1 = Len(line2)
      <4>1. PICK a \in Nat, b \in Nat : a = Len(tags) /\ b = Len(line) BY <2>2
      <4> QED BY <2>4, <3>3, <4>1
    <3> QED BY <3>2, <3>4
  <2> QED BY <2>1, <2>3, <2>4
<1>8. \A i, j \in DOMAIN tags2 : i < j /\ tags2[i][1] = tags2[j][1] => tags2[i][2] < tags2[j][2]
  <2> SUFFICES ASSUME NEW i \in DOMAIN tags2, NEW j \in DOMAIN tags2, i < j,
                      tags2[i][1] = tags2[j][1]
               PROVE  tags2[i][2] < tags2[j][2]
    OBVIOUS
  <2>1. i + 1 < j + 1 /\ i + 1 \in DOMAIN tags /\ j + 1 \in DOMAIN tags BY <1>5
  <2>2. tags2[i] = tags[i + 1] /\ tags2[j] = tags[j + 1] BY <1>5
  <2> QED BY <1>1, <2>1, <2>2 DEF TagsFor
<1>9. \A i \in DOMAIN tags2 : tags2[i][1] = line2[i].from
  <2> SUFFICES ASSUME NEW i \in DOMAIN tags2 PROVE tags2[i][1] = line2[i].from OBVIOUS
  <2>1. tags[i + 1][1] = line[i + 1].from BY <1>1, <1>5 DEF TagsFor
  <2>2. i \in 1 .. Len(line2)
    <3>1. PICK a \in Nat, b \in Nat : a = Len(tags2) /\ b = Len(line2)
      <4>1. Len(line2) \in Nat OBVIOUS
      <4>2. Len(tags2) \in Nat BY <1>5
      <4> QED BY <4>1, <4>2
    <3>2. i \in 1 .. a BY <1>5, <3>1
    <3>3. a <= b BY <1>7, <3>1
    <3> QED BY <3>1, <3>2, <3>3
  <2> QED BY <1>5, <1>6, <2>1, <2>2
<1>10. TagsFor(tags2, line2) BY <1>5, <1>7, <1>8, <1>9 DEF TagsFor
<1>11. PICK n \in Neighbour, j \in Nat : tags[1][1] = n /\ tags[1][2] = j
  <2>1. 1 \in DOMAIN tags BY <1>4
  <2>2. tags[1] \in Neighbour \X Nat BY <2>1
  <2> QED BY <2>2
<1>12. n = line[1].from /\ Gone(streams[n], tops[n], j) /\ floors[n] < j
  <2>1. 1 \in DOMAIN tags BY <1>4
  <2> QED BY <1>1, <1>11, <2>1 DEF TagsFor, Names
<1>13. ASSUME NEW i \in DOMAIN tags2 PROVE Names(tags2[i], streams, tops, floors2)
  <2>1. PICK o \in Neighbour, l \in Nat : tags[i + 1][1] = o /\ tags[i + 1][2] = l
    <3>1. i + 1 \in DOMAIN tags BY <1>5
    <3>2. tags[i + 1] \in Neighbour \X Nat BY <3>1
    <3> QED BY <3>2
  <2>2. i + 1 \in DOMAIN tags /\ tags2[i] = tags[i + 1] BY <1>5
  <2>3. Gone(streams[o], tops[o], l) /\ floors[o] < l BY <1>1, <2>1, <2>2 DEF Names
  <2>4. floors2[o] < l
    <3>1. CASE floors2[o] = floors[o] BY <2>3, <3>1
    <3>2. CASE o = n /\ floors2[o] = floors[o] + 1
      <4>1. 1 \in DOMAIN tags /\ 1 < i + 1 BY <1>4, <1>5
      <4>2. j < l BY <1>1, <1>11, <2>1, <2>2, <3>2, <4>1 DEF TagsFor
      <4>3. floors[n] \in Nat BY <1>2
      <4> QED BY <1>12, <3>2, <4>2, <4>3
    <3> QED BY <1>12, <3>1, <3>2
  <2> QED BY <2>1, <2>2, <2>3, <2>4 DEF Names
<1>14. ASSUME NEW o \in Neighbour
       PROVE  /\ floors2[o] \in Nat
              /\ floors2[o] = 0 \/ Gone(streams[o], tops[o], floors2[o])
  <2>1. floors[o] \in Nat BY <1>2
  <2>2. CASE floors2[o] = floors[o] BY <1>2, <2>2
  <2>3. CASE o = n /\ floors2[o] = floors[o] + 1
    <3>1. floors2[o] \in 1 .. j BY <1>12, <2>1, <2>3
    <3>2. Gone(streams[o], tops[o], j) BY <1>12, <2>3
    <3>3. streams[o] \in Seq(Piece) /\ tops[o] \in Nat OBVIOUS
    <3>4. \A f \in 1 .. j : Gone(streams[o], tops[o], f) BY <3>2, <3>3, GoneBelow
    <3> QED BY <3>1, <3>4
  <2> QED BY <1>12, <2>2, <2>3
<1>15. UsedUp(streams, tops, floors2) BY <1>14 DEF UsedUp
<1> QED BY <1>5, <1>10, <1>13, <1>15 DEF TaggedBy

\* More is read of n.
LEMMA TagsGrow ==
  ASSUME NEW n \in Neighbour, NEW streams, NEW tops, NEW floors, NEW streams2,
         \A o \in Neighbour : o # n => streams2[o] = streams[o],
         NEW line \in Seq(Message), TaggedBy(streams, tops, floors, line),
         \A i \in DOMAIN line : line[i].nr # CLOSE,
         NEW T \in Seq(Message), HasTags(T, streams[n], streams2[n], tops[n]),
         \A i \in DOMAIN T : T[i].from = n,
         NEW line2, line2 = line \o T
  PROVE  TaggedBy(streams2, tops, floors, line2)
<1>1. PICK tags \in Seq(Neighbour \X Nat) :
        /\ TagsFor(tags, line)
        /\ \A i \in DOMAIN tags : Names(tags[i], streams, tops, floors)
  BY DEF TaggedBy
<1>2. PICK x \in Nat, m \in Nat :
        /\ m = Len(T) \/ (m + 1 = Len(T) /\ T[Len(T)].nr = CLOSE)
        /\ \A i \in 1 .. m : Gone(streams2[n], tops[n], x + i)
        /\ m > 0 => \A j \in Nat : Gone(streams[n], tops[n], j) => j <= x
        /\ \A j \in Nat : Gone(streams[n], tops[n], j) => Gone(streams2[n], tops[n], j)
  BY DEF HasTags
<1>3. Len(tags) = Len(line)
  <2>1. Len(tags) + 1 = Len(line) => Len(line) \in DOMAIN line OBVIOUS
  <2> QED BY <1>1, <2>1 DEF TagsFor
<1>4. PICK new : new = [i \in 1 .. m |-> <<n, x + i>>] OBVIOUS
<1>5. new \in Seq(Neighbour \X Nat) /\ Len(new) = m
  <2>1. new \in [1 .. m -> Neighbour \X Nat] BY <1>4
  <2> QED BY <2>1, IsSeq
<1>6. \A i \in 1 .. m : new[i][1] = n /\ new[i][2] = x + i BY <1>4
<1>7. PICK tags2 : tags2 = tags \o new OBVIOUS
<1>8. /\ tags2 \in Seq(Neighbour \X Nat) /\ Len(tags2) = Len(tags) + m
      /\ \A i \in 1 .. Len(tags) : tags2[i] = tags[i]
      /\ \A i \in 1 .. m : tags2[Len(tags) + i] = new[i]
  <2>1. PICK S : S = Neighbour \X Nat OBVIOUS
  <2>2. tags \in Seq(S) /\ new \in Seq(S) BY <1>5, <2>1
  <2>3. /\ tags2 \in Seq(S) /\ Len(tags2) = Len(tags) + Len(new)
        /\ \A i \in 1 .. Len(tags) : tags2[i] = tags[i]
        /\ \A i \in 1 .. Len(new) : tags2[Len(tags) + i] = new[i]
    BY <1>7, <2>2, Concat
  <2> QED BY <1>5, <2>1, <2>3
<1>9. \A j \in DOMAIN tags2 : \/ j \in 1 .. Len(tags) /\ tags2[j] = tags[j]
                              \/ \E k \in 1 .. m : j = Len(tags) + k /\ tags2[j] = new[k]
  <2> SUFFICES ASSUME NEW j \in DOMAIN tags2, j \notin 1 .. Len(tags)
               PROVE  \E k \in 1 .. m : j = Len(tags) + k /\ tags2[j] = new[k]
    BY <1>8
  <2>1. j - Len(tags) \in 1 .. m /\ j = Len(tags) + (j - Len(tags)) BY <1>8
  <2> QED BY <1>8, <2>1
<1>10. /\ Len(line2) = Len(line) + Len(T)
       /\ Len(T) > 0 => line2[Len(line2)] = T[Len(T)]
  <2>1. /\ Len(line2) = Len(line) + Len(T)
        /\ \A i \in 1 .. Len(T) : line2[Len(line) + i] = T[i]
    BY Concat
  <2> QED BY <2>1
<1>11. \/ Len(tags2) = Len(line2)
       \/ Len(tags2) + 1 = Len(line2) /\ line2[Len(line2)].nr = CLOSE
  <2>1. CASE m = Len(T) BY <1>3, <1>8, <1>10, <2>1
  <2>2. CASE m + 1 = Len(T) /\ T[Len(T)].nr = CLOSE BY <1>3, <1>8, <1>10, <2>2
  <2> QED BY <1>2, <2>1, <2>2
<1>12. \A i \in DOMAIN tags : tags[i] \in Neighbour \X Nat OBVIOUS
<1>13. ASSUME NEW i \in DOMAIN tags2, NEW j \in DOMAIN tags2, i < j, tags2[i][1] = tags2[j][1]
       PROVE  tags2[i][2] < tags2[j][2]
  <2>1. CASE j \in 1 .. Len(tags) /\ tags2[j] = tags[j]
    <3>1. i \in 1 .. Len(tags)
      <4>1. DOMAIN tags2 = 1 .. Len(tags2) BY <1>8
      <4> QED BY <1>13, <2>1, <4>1
    <3>2. i \in DOMAIN tags /\ tags2[i] = tags[i] BY <1>8, <3>1
    <3> QED BY <1>1, <1>13, <2>1, <3>2 DEF TagsFor
  <2>2. CASE \E k \in 1 .. m : j = Len(tags) + k /\ tags2[j] = new[k]
    <3>1. PICK k \in 1 .. m : j = Len(tags) + k /\ tags2[j] = new[k] BY <2>2
    <3>2. tags2[j][1] = n /\ tags2[j][2] = x + k BY <1>6, <3>1
    <3>3. CASE i \in 1 .. Len(tags) /\ tags2[i] = tags[i]
      <4>1. tags[i][1] = n /\ tags[i][2] \in Nat BY <1>12, <1>13, <3>2, <3>3
      <4>2. Gone(streams[n], tops[n], tags[i][2])
        <5>1. Gone(streams[tags[i][1]], tops[tags[i][1]], tags[i][2]) BY <1>1, <3>3 DEF Names
        <5> QED BY <4>1, <5>1
      <4>3. tags[i][2] <= x BY <1>2, <4>1, <4>2
      <4> QED BY <3>2, <3>3, <4>1, <4>3
    <3>4. CASE \E l \in 1 .. m : i = Len(tags) + l /\ tags2[i] = new[l]
      <4>1. PICK l \in 1 .. m : i = Len(tags) + l /\ tags2[i] = new[l] BY <3>4
      <4>2. tags2[i][2] = x + l /\ l < k BY <1>6, <1>13, <3>1, <4>1
      <4> QED BY <3>2, <4>2
    <3> QED BY <1>9, <3>3, <3>4
  <2> QED BY <1>9, <2>1, <2>2
<1>14. ASSUME NEW i \in DOMAIN tags2 PROVE tags2[i][1] = line2[i].from
  <2>1. /\ \A j \in 1 .. Len(line) : line2[j] = line[j]
        /\ \A j \in 1 .. Len(T) : line2[Len(line) + j] = T[j]
    BY Concat
  <2>2. CASE i \in 1 .. Len(tags) /\ tags2[i] = tags[i]
    BY <1>1, <1>3, <2>1, <2>2 DEF TagsFor
  <2>3. CASE \E k \in 1 .. m : i = Len(tags) + k /\ tags2[i] = new[k]
    <3>1. PICK k \in 1 .. m : i = Len(tags) + k /\ tags2[i] = new[k] BY <2>3
    <3>2. k \in 1 .. Len(T)
      <4>1. Len(T) \in Nat OBVIOUS
      <4>2. m = Len(T) \/ m + 1 = Len(T) BY <1>2
      <4> QED BY <4>1, <4>2
    <3>3. T[k].from = n BY <3>2
    <3> QED BY <1>3, <1>6, <2>1, <3>1, <3>2, <3>3
  <2> QED BY <1>9, <2>2, <2>3
<1>15. TagsFor(tags2, line2) BY <1>8, <1>11, <1>13, <1>14 DEF TagsFor
<1>16. \A o \in Neighbour : /\ floors[o] \in Nat
                            /\ floors[o] = 0 \/ Gone(streams[o], tops[o], floors[o])
  BY DEF TaggedBy, UsedUp
<1>17. ASSUME NEW i \in DOMAIN tags2 PROVE Names(tags2[i], streams2, tops, floors)
  <2>1. CASE i \in 1 .. Len(tags) /\ tags2[i] = tags[i]
    <3>1. PICK o \in Neighbour, j \in Nat : tags[i][1] = o /\ tags[i][2] = j BY <1>12, <2>1
    <3>2. Gone(streams[o], tops[o], j) /\ floors[o] < j BY <1>1, <2>1, <3>1 DEF Names
    <3>3. Gone(streams2[o], tops[o], j)
      <4>1. CASE o = n BY <1>2, <3>2, <4>1
      <4>2. CASE o # n BY <3>2, <4>2
      <4> QED BY <4>1, <4>2
    <3> QED BY <2>1, <3>1, <3>2, <3>3 DEF Names
  <2>2. CASE \E k \in 1 .. m : i = Len(tags) + k /\ tags2[i] = new[k]
    <3>1. PICK k \in 1 .. m : i = Len(tags) + k /\ tags2[i] = new[k] BY <2>2
    <3>2. tags2[i][1] = n /\ tags2[i][2] = x + k BY <1>6, <3>1
    <3>3. Gone(streams2[n], tops[n], x + k) BY <1>2
    <3>4. floors[n] \in Nat /\ floors[n] <= x
      <4>1. m > 0 OBVIOUS
      <4>2. floors[n] \in Nat /\ (floors[n] = 0 \/ Gone(streams[n], tops[n], floors[n])) BY <1>16
      <4>3. \A j \in Nat : Gone(streams[n], tops[n], j) => j <= x BY <1>2, <4>1
      <4> QED BY <4>2, <4>3
    <3>5. floors[n] < x + k BY <3>4
    <3> QED BY <3>2, <3>3, <3>5 DEF Names
  <2> QED BY <1>9, <2>1, <2>2
<1>18. UsedUp(streams2, tops, floors)
  <2> SUFFICES ASSUME NEW o \in Neighbour, floors[o] # 0
               PROVE  Gone(streams2[o], tops[o], floors[o])
    BY <1>16 DEF UsedUp
  <2>1. Gone(streams[o], tops[o], floors[o]) /\ floors[o] \in Nat BY <1>16
  <2>2. CASE o = n BY <1>2, <2>1, <2>2
  <2>3. CASE o # n BY <2>1, <2>3
  <2> QED BY <2>2, <2>3
<1> QED BY <1>8, <1>15, <1>17, <1>18 DEF TaggedBy

-----------------------------------------------------------------------------
(* Types, and where the tasks are.                                         *)

LEMMA RemoveKeeps ==
  ASSUME NEW S, NEW s \in Seq(S), IsInjective(s), NEW i \in 1 .. Len(s)
  PROVE  RemoveAt(s, i) \in Seq(S) /\ IsInjective(RemoveAt(s, i))
<1>1. PICK p, q : p = SubSeq(s, 1, i - 1) /\ q = SubSeq(s, i + 1, Len(s)) OBVIOUS
<1>2. /\ p \in Seq(S) /\ Len(p) = i - 1
      /\ \A j \in 1 .. Len(p) : p[j] = s[j]
  BY <1>1
<1>3. /\ q \in Seq(S) /\ Len(q) = Len(s) - i
      /\ \A j \in 1 .. Len(q) : q[j] = s[i + j]
  BY <1>1
<1>4. PICK r : r = p \o q OBVIOUS
<1>5. RemoveAt(s, i) = r BY <1>1, <1>4 DEF RemoveAt
<1>6. /\ r \in Seq(S) /\ Len(r) = Len(p) + Len(q)
      /\ \A j \in 1 .. Len(p) : r[j] = p[j]
      /\ \A j \in 1 .. Len(q) : r[Len(p) + j] = q[j]
  <2>1. p \in Seq(S) /\ q \in Seq(S) BY <1>2, <1>3
  <2> QED BY <1>4, <2>1, Concat
<1>7. ASSUME NEW j \in 1 .. Len(s) - 1
      PROVE  r[j] = IF j < i THEN s[j] ELSE s[j + 1]
  <2>1. CASE j < i BY <1>2, <1>6, <2>1
  <2>2. CASE ~(j < i)
    <3>1. j - (i - 1) \in 1 .. Len(q) /\ j = (i - 1) + (j - (i - 1)) /\ i + (j - (i - 1)) = j + 1
      BY <1>3, <2>2
    <3>2. r[j] = q[j - (i - 1)] BY <1>2, <1>6, <3>1
    <3> QED BY <1>3, <2>2, <3>1, <3>2
  <2> QED BY <2>1, <2>2
<1>8. DOMAIN r = 1 .. Len(s) - 1 BY <1>2, <1>3, <1>6
<1>9. ASSUME NEW j \in 1 .. Len(s) - 1, NEW k \in 1 .. Len(s) - 1, r[j] = r[k]
      PROVE  j = k
  <2>1. PICK a \in DOMAIN s, b \in DOMAIN s :
          a = (IF j < i THEN j ELSE j + 1) /\ b = (IF k < i THEN k ELSE k + 1)
    OBVIOUS
  <2>2. r[j] = s[a] /\ r[k] = s[b] BY <1>7, <2>1
  <2>3. a = b BY <1>9, <2>2 DEF IsInjective
  <2> QED BY <2>1, <2>3
<1>10. IsInjective(r) BY <1>8, <1>9 DEF IsInjective
<1> QED BY <1>5, <1>6, <1>10

LEMMA SeqsAreInjective ==
  ASSUME NEW s \in SetToSeqs(Neighbour)
  PROVE  s \in Seq(Neighbour) /\ IsInjective(s)
<1>1. PICK D : D = 1 .. Cardinality(Neighbour) OBVIOUS
<1>2. s \in [D -> Neighbour] /\ \A i, j \in D : i # j => s[i] # s[j]
  BY <1>1 DEF SetToSeqs
<1>3. Cardinality(Neighbour) \in Nat BY CommunicationAssumption, FS_CardinalityType
<1>4. s \in Seq(Neighbour) BY <1>1, <1>2, <1>3, IsSeq
<1>5. IsInjective(s) BY <1>2 DEF IsInjective
<1> QED BY <1>4, <1>5

LEMMA InConnections ==
  ASSUME NEW s \in Seq(Neighbour)
  PROVE  ToSet(s) \subseteq Neighbour
BY DEF ToSet

TypeOK == CommTypeOK /\ PcOK

LEMMA NeighbourTypes ==
  ASSUME TypeOK, NEW n \in Neighbour,
         NeighbourSends(n) \/ NeighbourDisconnects(n) \/ NeighbourCloses(n)
  PROVE  TypeOK'
<1> USE DEF TypeOK, CommTypeOK, PcOK, wifi, queues, control, reload
<1>1. stream' \in [Neighbour -> Seq(Piece)]
  <2>1. ASSUME NEW nr \in Nat, Arrives(n, nr) PROVE stream' \in [Neighbour -> Seq(Piece)]
    <3>1. PICK p, q : p = [nr |-> nr, part |-> "head"] /\ q = [nr |-> nr, part |-> "tail"] OBVIOUS
    <3>2. p \in Piece /\ q \in Piece BY <3>1 DEF Piece
    <3>3. stream[n] \in Seq(Piece) OBVIOUS
    <3>4. stream[n] \o <<p, q>> \in Seq(Piece) BY <3>2, <3>3
    <3>5. stream' = [stream EXCEPT ![n] = stream[n] \o <<p, q>>] BY <2>1, <3>1 DEF Arrives
    <3> QED BY <3>4, <3>5
  <2>2. CASE NeighbourSends(n)
    <3>1. sent'[n] \in Nat BY <2>2 DEF NeighbourSends
    <3> QED BY <2>1, <2>2, <3>1 DEF NeighbourSends
  <2>3. CASE NeighbourCloses(n)
    <3>1. CLOSE \in Nat BY DEF CLOSE
    <3> QED BY <2>1, <2>3, <3>1 DEF NeighbourCloses
  <2>4. CASE NeighbourDisconnects(n) BY <2>4 DEF NeighbourDisconnects
  <2> QED BY <2>2, <2>3, <2>4
<1>2. sent' \in [Neighbour -> Nat] /\ open' \in [Neighbour -> BOOLEAN]
  <2>1. CASE NeighbourSends(n) BY <2>1 DEF NeighbourSends
  <2>2. CASE NeighbourCloses(n) BY <2>2 DEF NeighbourCloses
  <2>3. CASE NeighbourDisconnects(n) BY <2>3 DEF NeighbourDisconnects
  <2> QED BY <2>1, <2>2, <2>3
<1>3. UNCHANGED <<whole, wifi, queues, control, reload>>
  BY DEF NeighbourSends, NeighbourCloses, NeighbourDisconnects
<1> QED BY <1>1, <1>2, <1>3

\* Without a new piece of the messages that go round.
LEMMA WifiTypes ==
  ASSUME TypeOK,
         \/ Select \/ NotReady \/ Disconnection \/ TakeSem \/ QueueMsg
         \/ RefuseClose \/ HandledAll \/ ScannedAll \/ handleOutControlMsg \/ wifiDestructor
  PROVE  TypeOK'
<1> USE DEF TypeOK, CommTypeOK, PcOK, network, wifi, queues, control, reload
<1>1. CASE Select
  <2>1. readfds' \subseteq Neighbour BY <1>1, InConnections DEF Select
  <2> QED BY <1>1, <2>1 DEF Select
<1>2. CASE NotReady BY <1>2 DEF NotReady
<1>3. CASE Disconnection
  <2>1. conn_idx \in 1 .. Len(node_conn) BY <1>3 DEF Disconnection, total_conn
  <2>2. node_conn' = RemoveAt(node_conn, conn_idx) BY <1>3 DEF Disconnection, Removed
  <2>3. node_conn' \in Seq(Neighbour) /\ IsInjective(node_conn') BY <2>1, <2>2, RemoveKeeps
  <2>4. conn_idx' \in Nat /\ conn_idx' >= 1
    <3> HIDE DEF TypeOK, CommTypeOK, PcOK
    <3>1. conn_idx' = conn_idx + 1 BY <1>3 DEF Disconnection
    <3>2. conn_idx \in Nat BY DEF TypeOK, CommTypeOK
    <3> QED BY <3>1, <3>2
  <2>5. UNCHANGED <<whole, network, wifi_pc, readfds, todo, queues, control, reload>>
    BY <1>3 DEF Disconnection
  <2> QED BY <2>3, <2>4, <2>5
<1>4. CASE TakeSem BY <1>4 DEF TakeSem
<1>5. CASE QueueMsg
  <2>1. Head(todo) \in Message /\ Head(todo).nr # CLOSE /\ todo # << >> BY <1>5 DEF QueueMsg
  <2>2. IN_CONTROL_QUEUE' = Append(IN_CONTROL_QUEUE, Head(todo)) BY <1>5 DEF QueueMsg, Put
  <2>3. IN_CONTROL_QUEUE' \in Seq(Message) BY <2>1, <2>2
  <2>4. \A i \in DOMAIN IN_CONTROL_QUEUE' : IN_CONTROL_QUEUE'[i].nr # CLOSE
    <3>1. PICK q, q2, m : q = IN_CONTROL_QUEUE /\ q2 = IN_CONTROL_QUEUE' /\ m = Head(todo)
      OBVIOUS
    <3>2. q \in Seq(Message) /\ m \in Message /\ q2 = Append(q, m) BY <2>1, <2>2, <3>1
    <3>3. \A i \in DOMAIN q2 : (i \in DOMAIN q /\ q2[i] = q[i]) \/ q2[i] = m BY <3>2
    <3>4. m.nr # CLOSE /\ \A i \in DOMAIN q : q[i].nr # CLOSE BY <2>1, <3>1
    <3> QED BY <3>1, <3>3, <3>4
  <2>5. todo' \in Seq(Message) BY <1>5, <2>1 DEF QueueMsg
  <2> QED BY <1>5, <2>3, <2>4, <2>5 DEF QueueMsg
<1>6. CASE RefuseClose BY <1>6 DEF RefuseClose
<1>7. CASE HandledAll BY <1>7 DEF HandledAll
<1>8. CASE ScannedAll BY <1>8 DEF ScannedAll
<1>9. CASE handleOutControlMsg BY <1>9 DEF handleOutControlMsg
<1>10. CASE wifiDestructor
  <2>1. << >> \in Seq(Piece) /\ << >> \in Seq(Message) /\ << >> \in Seq(Neighbour) OBVIOUS
  <2>2. IsInjective(<< >>) BY DEF IsInjective
  <2>3. stream' \in [Neighbour -> Seq(Piece)] BY <1>10, <2>1 DEF wifiDestructor
  <2> QED BY <1>10, <2>1, <2>2, <2>3 DEF wifiDestructor
<1> QED BY <1>1, <1>2, <1>3, <1>4, <1>5, <1>6, <1>7, <1>8, <1>9, <1>10

LEMMA ToDoTypes ==
  ASSUME NEW rest \in Seq(Duty), ToDo(rest)
  PROVE  duties' \in Seq(Duty) /\ control_pc' \in {"sensors", "act"}
BY DEF ToDo

LEMMA DutyLists ==
  /\ << >> \in Seq(Duty) /\ <<"send">> \in Seq(Duty) /\ <<"send", "send">> \in Seq(Duty)
  /\ <<"send", "reset">> \in Seq(Duty) /\ Duties \subseteq Seq(Duty)
<1>1. <<"reset">> \in Seq(Duty) /\ <<"reset", "send">> \in Seq(Duty) BY DEF Duty
<1>2. <<"reset", "send", "send">> \in Seq(Duty) BY DEF Duty
<1>3. /\ << >> \in Seq(Duty) /\ <<"send">> \in Seq(Duty) /\ <<"send", "send">> \in Seq(Duty)
      /\ <<"send", "reset">> \in Seq(Duty)
  BY DEF Duty
<1> QED BY <1>1, <1>2, <1>3 DEF Duties

LEMMA ControlTypes ==
  ASSUME TypeOK,
         \/ TestSensorOn \/ NoSensor \/ SensorOff \/ ReceiveMsg \/ ReceiveNothing
         \/ SuspendControl \/ Positioned \/ forwardMsg \/ resetNodeStatus \/ controlDestructor
         \/ positioningMain \/ KillWifi \/ KillControl \/ UNCHANGED vars
  PROVE  TypeOK'
<1> USE DEF TypeOK, CommTypeOK, PcOK, network, wifi, queues, control, reload
<1>1. CASE ReceiveMsg
  <2>1. Head(IN_CONTROL_QUEUE) \in Message /\ IN_CONTROL_QUEUE # << >> BY <1>1 DEF ReceiveMsg
  <2>2. IN_CONTROL_QUEUE' = Tail(IN_CONTROL_QUEUE) BY <1>1 DEF ReceiveMsg
  <2>3. IN_CONTROL_QUEUE' \in Seq(Message) BY <2>1, <2>2
  <2>4. \A i \in DOMAIN IN_CONTROL_QUEUE' : IN_CONTROL_QUEUE'[i].nr # CLOSE BY <2>1, <2>2
  <2>5. served' \in [Neighbour -> Seq(Nat)]
    <3>1. PICK m : m = Head(IN_CONTROL_QUEUE) OBVIOUS
    <3>2. m.from \in Neighbour /\ m.nr \in Nat \union {Unknown} BY <2>1, <3>1, NrIsInt
    <3>3. CASE m.nr = Unknown BY <1>1, <3>1, <3>3 DEF ReceiveMsg
    <3>4. CASE m.nr # Unknown
      <4>1. served' = [served EXCEPT ![m.from] = Append(served[m.from], m.nr)]
        BY <1>1, <3>1, <3>4 DEF ReceiveMsg
      <4>2. Append(served[m.from], m.nr) \in Seq(Nat) BY <3>2, <3>4
      <4> QED BY <3>2, <4>1, <4>2
    <3> QED BY <3>3, <3>4
  <2>6. /\ duties' \in Seq(Duty) /\ control_pc' \in {"sensors", "act", "activated"}
        /\ NODE_STATUS' \in Status /\ posi_pc' \in {"none", "ready", "positioning"}
    <3>1. CASE Serve
      <4>1. PICK rest \in Duties :
              /\ ToDo(rest)
              /\ NODE_STATUS' \in {NODE_STATUS} \union (IF rest = <<"send">> THEN {"RESERVED"} ELSE {})
        BY <3>1 DEF Serve
      <4>2. rest \in Seq(Duty) BY DutyLists
      <4>3. duties' \in Seq(Duty) /\ control_pc' \in {"sensors", "act"} BY <4>1, <4>2, ToDoTypes
      <4>4. NODE_STATUS' \in Status BY <4>1 DEF Status
      <4> QED BY <3>1, <4>3, <4>4 DEF Serve
    <3>2. CASE ActivatePositioning BY <3>2 DEF ActivatePositioning
    <3>3. CASE ToDo(<< >>) /\ UNCHANGED <<NODE_STATUS, posi_pc>> BY <3>3, DutyLists, ToDoTypes
    <3> QED BY <1>1, <3>1, <3>2, <3>3 DEF ReceiveMsg
  <2>7. UNCHANGED <<whole, network, wifi, WIFI_CONTROL_SEM, OUT_CONTROL_QUEUE, reload>>
    BY <1>1 DEF ReceiveMsg
  <2> QED BY <2>3, <2>4, <2>5, <2>6, <2>7
<1>2. CASE TestSensorOn \/ NoSensor
  BY <1>2 DEF TestSensorOn, NoSensor, Diagnosed, Status
<1>3. CASE SensorOff
  <2>1. duties' \in Seq(Duty) /\ control_pc' \in {"sensors", "act"}
    BY <1>3, DutyLists, ToDoTypes DEF SensorOff
  <2> QED BY <1>3, <2>1 DEF SensorOff
<1>4. CASE ReceiveNothing
  <2>1. duties' \in Seq(Duty) /\ control_pc' \in {"sensors", "act"}
    BY <1>4, DutyLists, ToDoTypes DEF ReceiveNothing
  <2> QED BY <1>4, <2>1 DEF ReceiveNothing
<1>5. CASE SuspendControl BY <1>5 DEF SuspendControl
<1>6. CASE Positioned
  <2>1. duties' \in Seq(Duty) /\ control_pc' \in {"sensors", "act"}
    BY <1>6, DutyLists, ToDoTypes DEF Positioned
  <2> QED BY <1>6, <2>1 DEF Positioned, Status
<1>7. CASE forwardMsg \/ resetNodeStatus
  <2>1. duties # << >> /\ ToDo(Tail(duties)) BY <1>7 DEF forwardMsg, resetNodeStatus
  <2>2. Tail(duties) \in Seq(Duty) BY <2>1
  <2>3. duties' \in Seq(Duty) /\ control_pc' \in {"sensors", "act"} BY <2>1, <2>2, ToDoTypes
  <2>4. /\ NODE_STATUS' \in Status /\ OUT_CONTROL_QUEUE' \in Nat
        /\ UNCHANGED <<whole, network, wifi, WIFI_CONTROL_SEM, IN_CONTROL_QUEUE, posi_pc, served,
                       reload>>
    BY <1>7 DEF forwardMsg, resetNodeStatus, Status
  <2> QED BY <2>3, <2>4
<1>13. CASE controlDestructor BY <1>13, DutyLists DEF controlDestructor, Status
<1>8. CASE StartPositioning BY <1>8 DEF StartPositioning
<1>9. CASE EndPositioning BY <1>9 DEF EndPositioning
<1>10. CASE KillWifi BY <1>10 DEF KillWifi
<1>11. CASE KillControl BY <1>11 DEF KillControl
<1>12. CASE UNCHANGED vars BY <1>12 DEF vars
<1> QED BY <1>1, <1>2, <1>3, <1>4, <1>5, <1>6, <1>7, <1>8, <1>9, <1>10, <1>11, <1>12, <1>13
        DEF positioningMain

-----------------------------------------------------------------------------
(* The messages.                                                           *)

LEMMA LineType ==
  ASSUME TypeOK
  PROVE  /\ Line \in Seq(Message) /\ IN_CONTROL_QUEUE \in Seq(Message) /\ todo \in Seq(Message)
         /\ \A n \in Neighbour : /\ stream[n] \in Seq(Piece) /\ sent[n] \in Nat
                                 /\ served[n] \in Seq(Nat) /\ open[n] \in BOOLEAN
BY DEF TypeOK, CommTypeOK, Line

LEMMA LineKept ==
  ASSUME LineOK, UNCHANGED <<stream, sent, open, served>>, Line' = Line
  PROVE  LineOK'
BY DEF LineOK, Tagged, Floors, InOrder

LEMMA LineAfterNeighbour ==
  ASSUME TypeOK, LineOK, NEW n \in Neighbour,
         NeighbourSends(n) \/ NeighbourDisconnects(n) \/ NeighbourCloses(n)
  PROVE  LineOK'
<1>1. Line' = Line /\ served' = served
  BY DEF NeighbourSends, NeighbourDisconnects, NeighbourCloses, wifi, queues, control, Line
<1>2. \A o \in Neighbour : o # n =>
        stream'[o] = stream[o] /\ sent'[o] = sent[o] /\ open'[o] = open[o]
  BY DEF NeighbourSends, NeighbourDisconnects, NeighbourCloses, Arrives, TypeOK, CommTypeOK
<1>3. PICK s, s2, top, top2, isOpen2, given, line :
        /\ s = stream[n] /\ s2 = stream'[n] /\ top = sent[n] /\ top2 = sent'[n]
        /\ isOpen2 = open'[n] /\ given = served[n] /\ line = Line
  OBVIOUS
<1>4. /\ s \in Seq(Piece) /\ top \in Nat /\ given \in Seq(Nat) /\ line \in Seq(Message)
  BY <1>3, LineType
<1>5. open[n] = TRUE
  BY DEF NeighbourSends, NeighbourDisconnects, NeighbourCloses, TypeOK, CommTypeOK
<1>6. OrderIs(s, top, TRUE, given, line, n) BY <1>3, <1>5 DEF LineOK, InOrder
<1>7. CASE NeighbourDisconnects(n)
  <2>1. stream' = stream /\ sent' = sent BY <1>7 DEF NeighbourDisconnects
  <2>2. open'[n] = FALSE BY <1>7 DEF NeighbourDisconnects, TypeOK, CommTypeOK
  <2>3. OrderIs(s, top, FALSE, given, line, n) BY <1>6 DEF OrderIs
  <2>4. InOrder(n)' BY <1>1, <1>3, <2>1, <2>2, <2>3 DEF InOrder
  <2>5. \A o \in Neighbour : o # n => InOrder(o)' BY <1>1, <1>2, <2>1 DEF LineOK, InOrder
  <2>6. Tagged' BY <1>1, <2>1 DEF LineOK, Tagged, Floors
  <2> QED BY <1>1, <2>1, <2>4, <2>5, <2>6 DEF LineOK
<1>8. CASE NeighbourSends(n) \/ NeighbourCloses(n)
  <2>1. PICK nr : /\ \/ nr = top + 1 /\ top2 = top + 1
                     \/ nr = CLOSE /\ top2 = top /\ ~isOpen2
                  /\ s2 = s \o <<[nr |-> nr, part |-> "head"], [nr |-> nr, part |-> "tail"]>>
                  /\ top2 <= MaxSent[n]
    <3>1. CASE NeighbourSends(n)
      <4>1. top2 = top + 1 /\ top < MaxSent[n]
        BY <1>3, <3>1 DEF NeighbourSends, TypeOK, CommTypeOK
      <4>2. Arrives(n, top2) BY <1>3, <3>1 DEF NeighbourSends
      <4>3. s2 = s \o <<[nr |-> top2, part |-> "head"], [nr |-> top2, part |-> "tail"]>>
        BY <1>3, <4>2 DEF Arrives, TypeOK, CommTypeOK
      <4>4. MaxSent[n] \in Nat BY CommunicationAssumption
      <4>5. top2 <= MaxSent[n] BY <1>4, <4>1, <4>4
      <4> QED BY <4>1, <4>3, <4>5
    <3>2. CASE NeighbourCloses(n)
      <4>1. top2 = top /\ isOpen2 = FALSE /\ top <= MaxSent[n]
        BY <1>3, <3>2 DEF NeighbourCloses, TypeOK, CommTypeOK, LineOK
      <4>2. s2 = s \o <<[nr |-> CLOSE, part |-> "head"], [nr |-> CLOSE, part |-> "tail"]>>
        BY <1>3, <3>2 DEF NeighbourCloses, Arrives, TypeOK, CommTypeOK
      <4> QED BY <4>1, <4>2
    <3> QED BY <1>8, <3>1, <3>2
  <2>2. OrderIs(s2, top2, isOpen2, given, line, n) BY <1>4, <1>6, <2>1, OrderOnArrival
  <2>3. InOrder(n)' BY <1>1, <1>3, <2>2 DEF InOrder
  <2>4. nr \in Nat BY <1>4, <2>1 DEF CLOSE
  <2>5. \A j \in Nat : Gone(s, top, j) => Gone(s2, top2, j)
    <3>1. (nr = top + 1 /\ top2 = top + 1) \/ (nr = CLOSE /\ top2 = top) BY <2>1
    <3>2. s2 = s \o Pieces(nr) BY <2>1 DEF Pieces
    <3> SUFFICES ASSUME NEW j \in Nat, Gone(s, top, j) PROVE Gone(s2, top2, j) OBVIOUS
    <3> QED BY <1>4, <2>4, <3>1, <3>2, GoneOnArrival
  <2>6. \A o \in Neighbour : o # n => InOrder(o)' BY <1>1, <1>2 DEF LineOK, InOrder
  <2>7. \A o \in Neighbour : \A j \in Nat :
          Gone(stream[o], sent[o], j) => Gone(stream'[o], sent'[o], j)
    <3> SUFFICES ASSUME NEW o \in Neighbour, NEW j \in Nat, Gone(stream[o], sent[o], j)
                 PROVE  Gone(stream'[o], sent'[o], j)
      OBVIOUS
    <3>1. CASE o = n BY <1>3, <2>5, <3>1
    <3>2. CASE o # n BY <1>2, <3>2
    <3> QED BY <3>1, <3>2
  <2>8. TaggedBy(stream', sent', Floors, line)
    <3>1. PICK ss, tt, ff, ss2, tt2 :
            ss = stream /\ tt = sent /\ ff = Floors /\ ss2 = stream' /\ tt2 = sent'
      OBVIOUS
    <3>2. TaggedBy(ss, tt, ff, line) BY <1>3, <3>1 DEF LineOK, Tagged
    <3>3. \A o \in Neighbour : \A j \in Nat : Gone(ss[o], tt[o], j) => Gone(ss2[o], tt2[o], j)
      BY <2>7, <3>1
    <3>4. \E k \in 0 .. Len(line) : line = SubSeq(line, 1, k)
      <4>1. Len(line) \in 0 .. Len(line) /\ line = SubSeq(line, 1, Len(line)) BY <1>4
      <4> QED BY <4>1
    <3>5. TaggedBy(ss2, tt2, ff, line) BY <1>4, <3>2, <3>3, <3>4, TagsKept
    <3> QED BY <3>1, <3>5
  <2>9. Tagged' BY <1>1, <1>3, <2>8 DEF Tagged, Floors
  <2>10. \A o \in Neighbour : sent'[o] <= MaxSent[o] BY <1>2, <1>3, <2>1 DEF LineOK
  <2> QED BY <1>1, <2>3, <2>6, <2>9, <2>10 DEF LineOK
<1> QED BY <1>7, <1>8

LEMMA LineAfterRead ==
  ASSUME TypeOK, LineOK, ReadFromConn
  PROVE  LineOK' /\ TypeOK'
<1>1. PICK n \in Neighbour, k \in 1 .. RECV :
        /\ n = node_conn[conn_idx] /\ k <= Len(stream[n])
        /\ todo' \in Parse(SubSeq(stream[n], 1, k), n)
        /\ stream' = [stream EXCEPT ![n] = SubSeq(stream[n], k + 1, Len(stream[n]))]
  <2>1. conn_idx \in DOMAIN node_conn /\ node_conn \in Seq(Neighbour)
    BY DEF ReadFromConn, total_conn, TypeOK, CommTypeOK, PcOK
  <2>2. node_conn[conn_idx] \in Neighbour BY <2>1
  <2> QED BY <2>2 DEF ReadFromConn
<1>2. PICK s, s2, top, isOpen, given, line, T, line2 :
        /\ s = stream[n] /\ s2 = SubSeq(s, k + 1, Len(s)) /\ top = sent[n] /\ isOpen = open[n]
        /\ given = served[n] /\ line = Line /\ T = todo' /\ line2 = line \o T
  OBVIOUS
<1>3. /\ s \in Seq(Piece) /\ top \in Nat /\ given \in Seq(Nat) /\ line \in Seq(Message)
  BY <1>2, LineType
<1>4. /\ stream'[n] = s2 /\ sent' = sent /\ open' = open /\ served' = served
      /\ IN_CONTROL_QUEUE' = IN_CONTROL_QUEUE
  BY <1>1, <1>2 DEF ReadFromConn, TypeOK, CommTypeOK, queues, control
<1>5. \A o \in Neighbour : o # n => stream'[o] = stream[o] BY <1>1 DEF TypeOK, CommTypeOK
<1>6. line = IN_CONTROL_QUEUE
  <2>1. todo = << >> BY DEF ReadFromConn, TypeOK, PcOK
  <2>2. IN_CONTROL_QUEUE \in Seq(Message) BY LineType
  <2> QED BY <1>2, <2>1, <2>2 DEF Line
<1>7. Line' = line2 BY <1>2, <1>4, <1>6 DEF Line
<1>8. k \in 1 .. Len(s) /\ T \in Parse(SubSeq(s, 1, k), n)
  <2>1. RECV \in Nat BY CommunicationAssumption
  <2>2. Len(s) \in Nat BY <1>3
  <2> QED BY <1>1, <1>2, <2>1, <2>2
<1>9. OrderIs(s, top, isOpen, given, line, n) BY <1>2 DEF LineOK, InOrder
<1>10. /\ T \in Seq(Message) /\ CloseIsLast(T) /\ \A i \in DOMAIN T : T[i].from = n
       /\ OrderIs(s2, top, isOpen, given, line2, n)
       /\ HasTags(T, s, s2, top)
  <2>1. s2 = SubSeq(s, k + 1, Len(s)) /\ line2 = line \o T BY <1>2
  <2>2. k \in 1 .. Len(s) BY <1>8
  <2>3. IsRead(s, top, isOpen, given, line, n, k, T) BY <1>3, <1>8, <1>9 DEF IsRead
  <2>4. ReadGives(s, s2, top, isOpen, given, line2, n, T) BY <2>1, <2>3, ReadKeeps
  <2> QED BY <2>4 DEF ReadGives
<1>11. \A i \in DOMAIN line : line[i].nr # CLOSE BY <1>6 DEF TypeOK, PcOK
<1>12. CloseIsLast(line2)
  <2>1. /\ line2 \in Seq(Message) /\ Len(line2) = Len(line) + Len(T)
        /\ \A i \in 1 .. Len(line) : line2[i] = line[i]
        /\ \A i \in 1 .. Len(T) : line2[Len(line) + i] = T[i]
    BY <1>2, <1>3, <1>10, Concat
  <2>2. ASSUME NEW i \in DOMAIN line2, line2[i].nr = CLOSE PROVE i = Len(line2)
    <3>1. i \notin 1 .. Len(line) BY <1>3, <1>11, <2>1, <2>2
    <3>2. i - Len(line) \in 1 .. Len(T) /\ i = Len(line) + (i - Len(line))
      BY <1>3, <1>10, <2>1, <3>1
    <3>3. T[i - Len(line)].nr = CLOSE BY <2>1, <2>2, <3>2
    <3>4. i - Len(line) = Len(T) BY <1>10, <3>2, <3>3 DEF CloseIsLast
    <3> QED BY <2>1, <3>2, <3>4
  <2> QED BY <2>2 DEF CloseIsLast
<1>13. InOrder(n)' BY <1>2, <1>4, <1>7, <1>10 DEF InOrder
<1>14. ASSUME NEW o \in Neighbour, o # n PROVE InOrder(o)'
  <2>1. PICK given1 : given1 = served[o] OBVIOUS
  <2>2. given1 \in Seq(Nat) BY <2>1, LineType
  <2>3. PICK h \in Nat, b \in Nat, cut \in {0, 1} :
          /\ StreamIs(stream[o], cut, h, b, sent[o])
          /\ cut <= b /\ sent[o] <= b + h /\ b + h <= sent[o] + 1
          /\ open[o] => b + h = sent[o]
          /\ Ordered(given1, line, o, b)
    BY <1>2, <2>1 DEF LineOK, InOrder, OrderIs
  <2>4. \A i \in DOMAIN T : T[i].from # o BY <1>10, <1>14
  <2>5. Ordered(given1, line2, o, b) BY <1>2, <1>3, <1>10, <2>2, <2>3, <2>4, OrderStays
  <2>6. OrderIs(stream[o], sent[o], open[o], given1, line2, o) BY <2>3, <2>5 DEF OrderIs
  <2> QED BY <1>4, <1>5, <1>7, <1>14, <2>1, <2>6 DEF InOrder
<1>15. Tagged'
  <2>1. PICK ss, tt, ff, ss2 : ss = stream /\ tt = sent /\ ff = Floors /\ ss2 = stream' OBVIOUS
  <2>2. TaggedBy(ss, tt, ff, line) BY <1>2, <2>1 DEF LineOK, Tagged
  <2>3. HasTags(T, ss[n], ss2[n], tt[n]) BY <1>2, <1>4, <1>10, <2>1
  <2>4. \A o \in Neighbour : o # n => ss2[o] = ss[o] BY <1>5, <2>1
  <2>5. TaggedBy(ss2, tt, ff, line2) BY <1>2, <1>3, <1>10, <1>11, <2>2, <2>3, <2>4, TagsGrow
  <2> QED BY <1>4, <1>7, <2>1, <2>5 DEF Tagged, Floors
<1>16. LineOK'
  BY <1>4, <1>7, <1>12, <1>13, <1>14, <1>15 DEF LineOK
<1>17. TypeOK'
  <2>1. s2 \in Seq(Piece)
    <3>1. \A i \in 1 .. Len(s) - k : k + 1 + i - 1 \in DOMAIN s BY <1>3, <1>8
    <3> QED BY <1>2, <1>3, <1>8
  <2>2. stream' \in [Neighbour -> Seq(Piece)] BY <1>1, <1>2, <2>1 DEF TypeOK, CommTypeOK
  <2>3. todo' \in Seq(Message) BY <1>2, <1>10
  <2>4. /\ UNCHANGED <<whole, sent, open, node_conn, readfds, conn_idx, queues, control, reload>>
        /\ wifi_pc = "scan" /\ wifi_pc' = "handle"
    BY DEF ReadFromConn
  <2> QED BY <2>2, <2>3, <2>4 DEF TypeOK, CommTypeOK, PcOK, queues, control, reload
<1> QED BY <1>16, <1>17

LEMMA LineAfterEnd ==
  ASSUME TypeOK, LineOK, RefuseClose \/ wifiDestructor
  PROVE  LineOK'
<1>1. PICK line, line2 : line = Line /\ line2 = Line' OBVIOUS
<1>2. line \in Seq(Message) /\ IN_CONTROL_QUEUE \in Seq(Message) /\ todo \in Seq(Message)
  BY <1>1, LineType
<1>3. /\ sent' = sent /\ open' = open /\ served' = served
      /\ IN_CONTROL_QUEUE' = IN_CONTROL_QUEUE
      /\ stream' = stream \/ stream' = [n \in Neighbour |-> << >>]
  BY DEF RefuseClose, wifiDestructor, network, queues, control
<1>4. todo' = << >>
  <2>1. CASE RefuseClose
    <3>1. todo # << >> /\ todo[1].nr = CLOSE /\ todo' = Tail(todo) BY <1>2, <2>1 DEF RefuseClose
    <3>2. line = IN_CONTROL_QUEUE \o todo BY <1>1 DEF Line
    <3>3. /\ Len(line) = Len(IN_CONTROL_QUEUE) + Len(todo)
          /\ line[Len(IN_CONTROL_QUEUE) + 1] = todo[1]
          /\ Len(IN_CONTROL_QUEUE) + 1 \in DOMAIN line
      BY <1>2, <3>1, <3>2
    <3>4. CloseIsLast(line) BY <1>1 DEF LineOK
    <3>5. Len(IN_CONTROL_QUEUE) + 1 = Len(line) BY <3>1, <3>3, <3>4 DEF CloseIsLast
    <3>6. Len(todo) = 1
      <4>1. PICK a \in Nat, b \in Nat : a = Len(todo) /\ b = Len(IN_CONTROL_QUEUE) BY <1>2
      <4>2. b + 1 = b + a BY <3>3, <3>5, <4>1
      <4>3. a = 1 BY <4>2
      <4> QED BY <4>1, <4>3
    <3> QED BY <1>2, <3>1, <3>6
  <2>2. CASE wifiDestructor BY <2>2 DEF wifiDestructor
  <2> QED BY <2>1, <2>2
<1>5. PICK k \in 0 .. Len(line) : k = Len(IN_CONTROL_QUEUE)
  <2>1. line = IN_CONTROL_QUEUE \o todo BY <1>1 DEF Line
  <2>2. Len(IN_CONTROL_QUEUE) \in 0 .. Len(line) BY <1>2, <2>1
  <2> QED BY <2>2
<1>6. line2 = SubSeq(line, 1, k)
  <2>1. line = IN_CONTROL_QUEUE \o todo /\ line2 = IN_CONTROL_QUEUE \o << >>
    BY <1>1, <1>3, <1>4 DEF Line
  <2>2. line2 = IN_CONTROL_QUEUE BY <1>2, <2>1
  <2> QED BY <1>2, <1>5, <2>1, <2>2
<1>7. CloseIsLast(line2)
  <2>1. line2 = IN_CONTROL_QUEUE BY <1>1, <1>2, <1>3, <1>4 DEF Line
  <2> QED BY <2>1 DEF TypeOK, PcOK, CloseIsLast
<1>8. ASSUME NEW n \in Neighbour PROVE InOrder(n)'
  <2>1. PICK given : given = served[n] OBVIOUS
  <2>2. given \in Seq(Nat) /\ sent[n] \in Nat BY <2>1, LineType
  <2>3. PICK h \in Nat, b \in Nat, cut \in {0, 1} :
          /\ StreamIs(stream[n], cut, h, b, sent[n])
          /\ cut <= b /\ sent[n] <= b + h /\ b + h <= sent[n] + 1
          /\ open[n] => b + h = sent[n]
          /\ Ordered(given, line, n, b)
    BY <1>1, <2>1 DEF LineOK, InOrder, OrderIs
  <2>4. CASE stream' = stream
    <3>1. Ordered(given, line2, n, b)
      <4>1. b <= b OBVIOUS
      <4> QED BY <1>2, <1>6, <2>2, <2>3, <4>1, OrderOfPrefix
    <3>2. OrderIs(stream[n], sent[n], open[n], given, line2, n) BY <2>3, <3>1 DEF OrderIs
    <3> QED BY <1>1, <1>3, <2>1, <2>4, <3>2 DEF InOrder
  <2>5. CASE stream' = [o \in Neighbour |-> << >>]
    <3>1. b + h \in Nat /\ b <= b + h OBVIOUS
    <3>2. Ordered(given, line2, n, b + h) BY <1>2, <1>6, <2>2, <2>3, <3>1, OrderOfPrefix
    <3>3. stream'[n] = << >> BY <2>5
    <3>4. StreamIs(<< >>, 0, 0, b + h, sent[n]) BY DEF StreamIs
    <3>5. OrderIs(<< >>, sent[n], open[n], given, line2, n)
      <4>1. 0 <= b + h /\ (b + h) + 0 = b + h OBVIOUS
      <4> QED BY <2>3, <3>1, <3>2, <3>4, <4>1 DEF OrderIs
    <3> QED BY <1>1, <1>3, <2>1, <3>3, <3>5 DEF InOrder
  <2> QED BY <1>3, <2>4, <2>5
<1>9. Tagged'
  <2>1. PICK ss, tt, ff, ss2 : ss = stream /\ tt = sent /\ ff = Floors /\ ss2 = stream' OBVIOUS
  <2>2. TaggedBy(ss, tt, ff, line) BY <1>1, <2>1 DEF LineOK, Tagged
  <2>3. \A n \in Neighbour : \A j \in Nat : Gone(ss[n], tt[n], j) => Gone(ss2[n], tt[n], j)
    <3> SUFFICES ASSUME NEW n \in Neighbour, NEW j \in Nat, Gone(ss[n], tt[n], j)
                 PROVE  Gone(ss2[n], tt[n], j)
      OBVIOUS
    <3>1. CASE ss2 = ss BY <3>1
    <3>2. CASE ss2[n] = << >> BY <3>2 DEF Gone
    <3> QED BY <1>3, <2>1, <3>1, <3>2
  <2>4. \E k1 \in 0 .. Len(line) : line2 = SubSeq(line, 1, k1) BY <1>5, <1>6
  <2>5. TaggedBy(ss2, tt, ff, line2) BY <1>2, <2>2, <2>3, <2>4, TagsKept
  <2> QED BY <1>1, <1>3, <2>1, <2>5 DEF Tagged, Floors
<1> QED BY <1>1, <1>3, <1>7, <1>8, <1>9 DEF LineOK

LEMMA LineAfterReceive ==
  ASSUME TypeOK, LineOK, ReceiveMsg
  PROVE  LineOK'
<1>1. PICK line, line2, m : line = Line /\ line2 = Line' /\ m = Head(line) OBVIOUS
<1>2. line \in Seq(Message) /\ IN_CONTROL_QUEUE \in Seq(Message) /\ todo \in Seq(Message)
  BY <1>1, LineType
<1>3. /\ IN_CONTROL_QUEUE # << >> /\ IN_CONTROL_QUEUE' = Tail(IN_CONTROL_QUEUE)
      /\ todo' = todo /\ stream' = stream /\ sent' = sent /\ open' = open
  BY DEF ReceiveMsg, network, wifi
<1>4. /\ line # << >> /\ m = Head(IN_CONTROL_QUEUE) /\ m = line[1] /\ line2 = Tail(line)
  <2>1. line = IN_CONTROL_QUEUE \o todo /\ line2 = Tail(IN_CONTROL_QUEUE) \o todo
    BY <1>1, <1>3 DEF Line
  <2> QED BY <1>1, <1>2, <1>3, <2>1
<1>5. m.nr # CLOSE
  <2>1. 1 \in DOMAIN IN_CONTROL_QUEUE /\ m = IN_CONTROL_QUEUE[1] BY <1>2, <1>3, <1>4
  <2> QED BY <2>1 DEF TypeOK, PcOK
<1>6. CloseIsLast(line2)
  <2>1. CloseIsLast(line) BY <1>1 DEF LineOK
  <2>2. /\ Len(line2) = Len(line) - 1 /\ DOMAIN line2 = 1 .. Len(line) - 1
        /\ \A i \in 1 .. Len(line) - 1 : line2[i] = line[i + 1] /\ i + 1 \in DOMAIN line
    BY <1>2, <1>4
  <2>3. ASSUME NEW i \in DOMAIN line2, line2[i].nr = CLOSE PROVE i = Len(line2)
    <3>1. i + 1 = Len(line) BY <2>1, <2>2, <2>3 DEF CloseIsLast
    <3> QED BY <1>2, <2>2, <3>1
  <2> QED BY <2>3 DEF CloseIsLast
<1>7. ASSUME NEW n \in Neighbour PROVE InOrder(n)'
  <2>1. PICK given, given2 : given = served[n] /\ given2 = served'[n] OBVIOUS
  <2>2. given \in Seq(Nat) BY <2>1, LineType
  <2>3. given2 = IF m.nr # Unknown /\ m.from = n THEN Append(given, m.nr) ELSE given
    BY <1>4, <2>1 DEF ReceiveMsg, TypeOK, CommTypeOK
  <2>4. PICK h \in Nat, b \in Nat, cut \in {0, 1} :
          /\ StreamIs(stream[n], cut, h, b, sent[n])
          /\ cut <= b /\ sent[n] <= b + h /\ b + h <= sent[n] + 1
          /\ open[n] => b + h = sent[n]
          /\ Ordered(given, line, n, b)
    BY <1>1, <2>1 DEF LineOK, InOrder, OrderIs
  <2>5. Ordered(given2, line2, n, b) BY <1>1, <1>2, <1>4, <1>5, <2>2, <2>3, <2>4, OrderOfTail
  <2>6. OrderIs(stream[n], sent[n], open[n], given2, line2, n) BY <2>4, <2>5 DEF OrderIs
  <2> QED BY <1>1, <1>3, <2>1, <2>6 DEF InOrder
<1>8. Tagged'
  <2>1. PICK ss, tt, ff, ff2 : ss = stream /\ tt = sent /\ ff = Floors /\ ff2 = Floors' OBVIOUS
  <2>2. TaggedBy(ss, tt, ff, line) BY <1>1, <2>1 DEF LineOK, Tagged
  <2>3. ASSUME NEW n \in Neighbour
        PROVE  ff2[n] = ff[n] \/ (n = m.from /\ ff2[n] = ff[n] + 1)
    <3>1. served[n] \in Seq(Nat) BY LineType
    <3>2. ff[n] = Len(served[n]) /\ ff2[n] = Len(served'[n]) BY <2>1 DEF Floors
    <3>3. served'[n] = IF m.nr # Unknown /\ m.from = n THEN Append(served[n], m.nr) ELSE served[n]
      BY <1>4 DEF ReceiveMsg, TypeOK, CommTypeOK
    <3> QED BY <3>1, <3>2, <3>3
  <2>4. \A n \in Neighbour : ss[n] \in Seq(Piece) /\ tt[n] \in Nat BY <2>1, LineType
  <2>5. line[1].nr # CLOSE /\ m = line[1] BY <1>4, <1>5
  <2>6. TaggedBy(ss, tt, ff2, line2) BY <1>2, <1>4, <2>2, <2>3, <2>4, <2>5, TagsPass
  <2> QED BY <1>1, <1>3, <2>1, <2>6 DEF Tagged
<1> QED BY <1>1, <1>3, <1>6, <1>7, <1>8 DEF LineOK

LEMMA LineStays ==
  ASSUME TypeOK, LineOK,
         \/ Select \/ NotReady \/ Disconnection \/ TakeSem \/ QueueMsg \/ HandledAll
         \/ ScannedAll \/ handleOutControlMsg
         \/ TestSensorOn \/ NoSensor \/ SensorOff \/ ReceiveNothing \/ SuspendControl
         \/ Positioned \/ forwardMsg \/ resetNodeStatus
         \/ controlDestructor \/ positioningMain \/ KillWifi \/ KillControl \/ UNCHANGED vars
  PROVE  LineOK'
<1> USE DEF network, wifi, queues, control, reload
<1>1. CASE QueueMsg
  <2>1. IN_CONTROL_QUEUE \in Seq(Message) /\ todo \in Seq(Message) BY LineType
  <2>2. todo # << >> BY <1>1 DEF QueueMsg, TypeOK, PcOK
  <2>3. IN_CONTROL_QUEUE' = Append(IN_CONTROL_QUEUE, Head(todo)) /\ todo' = Tail(todo)
    BY <1>1 DEF QueueMsg, Put
  <2>4. Append(IN_CONTROL_QUEUE, Head(todo)) \o Tail(todo) = IN_CONTROL_QUEUE \o todo
    BY <2>1, <2>2
  <2>5. Line' = Line BY <2>3, <2>4 DEF Line
  <2>6. UNCHANGED <<stream, sent, open, served>> BY <1>1 DEF QueueMsg
  <2> QED BY <2>5, <2>6, LineKept
<1>2. CASE ~QueueMsg
  <2>1. UNCHANGED <<stream, sent, open, served, IN_CONTROL_QUEUE, todo>>
    BY <1>2 DEF Select, NotReady, Disconnection, TakeSem, HandledAll, ScannedAll,
                handleOutControlMsg, TestSensorOn, NoSensor, SensorOff, ReceiveNothing,
                SuspendControl, Positioned, forwardMsg, resetNodeStatus, controlDestructor,
                positioningMain, StartPositioning, EndPositioning, KillWifi, KillControl, vars
  <2>2. Line' = Line BY <2>1 DEF Line
  <2> QED BY <2>1, <2>2, LineKept
<1> QED BY <1>1, <1>2

LEMMA InitEstablishes == Init => CommInv
<1> SUFFICES ASSUME Init PROVE CommInv OBVIOUS
<1> USE DEF Init
<1>1. node_conn \in Seq(Neighbour) /\ IsInjective(node_conn) BY SeqsAreInjective
<1>2. << >> \in Seq(Piece) /\ << >> \in Seq(Message) /\ << >> \in Seq(Nat) OBVIOUS
<1>3. CommTypeOK BY <1>1, <1>2, DutyLists DEF CommTypeOK, Status
<1>4. PcOK BY DEF PcOK
<1>5. Line = << >> BY DEF Line
<1>6. CloseIsLast(Line) BY <1>5 DEF CloseIsLast
<1>7. Tagged
  <2>1. << >> \in Seq(Neighbour \X Nat) OBVIOUS
  <2>2. TagsFor(<< >>, << >>) BY <2>1 DEF TagsFor
  <2>3. PICK tags : tags = << >> OBVIOUS
  <2>4. \A i \in DOMAIN tags : Names(tags[i], stream, sent, Floors) BY <2>3
  <2>5. tags \in Seq(Neighbour \X Nat) /\ TagsFor(tags, Line) BY <1>5, <2>1, <2>2, <2>3
  <2>6. UsedUp(stream, sent, Floors) BY DEF UsedUp, Floors
  <2> QED BY <2>4, <2>5, <2>6 DEF Tagged, TaggedBy
<1>8. ASSUME NEW n \in Neighbour PROVE sent[n] <= MaxSent[n] /\ InOrder(n)
  <2>1. MaxSent[n] \in Nat /\ sent[n] = 0 BY CommunicationAssumption
  <2>2. StreamIs(<< >>, 0, 0, 0, 0) BY DEF StreamIs
  <2>3. Ordered(<< >>, << >>, n, 0) BY DEF Ordered
  <2>4. OrderIs(<< >>, 0, TRUE, << >>, << >>, n) BY <2>2, <2>3 DEF OrderIs
  <2>5. stream[n] = << >> /\ open[n] = TRUE /\ served[n] = << >> OBVIOUS
  <2>6. InOrder(n) BY <1>5, <2>1, <2>4, <2>5 DEF InOrder
  <2> QED BY <2>1, <2>6
<1> QED BY <1>3, <1>4, <1>6, <1>7, <1>8 DEF CommInv, LineOK

LEMMA NextKeeps == CommInv /\ [Next]_vars => CommInv'
<1> SUFFICES ASSUME CommInv, [Next]_vars PROVE CommInv' OBVIOUS
<1> USE DEF CommInv
<1>1. TypeOK /\ LineOK BY DEF TypeOK
<1>2. CASE \E n \in Neighbour : NeighbourSends(n) \/ NeighbourDisconnects(n) \/ NeighbourCloses(n)
  BY <1>1, <1>2, NeighbourTypes, LineAfterNeighbour DEF TypeOK
<1>3. CASE ReadFromConn BY <1>1, <1>3, LineAfterRead DEF TypeOK
<1>4. CASE RefuseClose \/ wifiDestructor BY <1>1, <1>4, WifiTypes, LineAfterEnd DEF TypeOK
<1>5. CASE \/ Select \/ NotReady \/ Disconnection \/ TakeSem \/ QueueMsg \/ HandledAll
           \/ ScannedAll \/ handleOutControlMsg
  BY <1>1, <1>5, WifiTypes, LineStays DEF TypeOK
<1>6. CASE ReceiveMsg BY <1>1, <1>6, ControlTypes, LineAfterReceive DEF TypeOK
<1>7. CASE \/ TestSensorOn \/ NoSensor \/ SensorOff \/ ReceiveNothing \/ SuspendControl
           \/ Positioned \/ forwardMsg \/ resetNodeStatus
           \/ controlDestructor \/ positioningMain \/ KillWifi \/ KillControl \/ UNCHANGED vars
  BY <1>1, <1>7, ControlTypes, LineStays DEF TypeOK
<1> QED BY <1>2, <1>3, <1>4, <1>5, <1>6, <1>7 DEF Next, wifiMain, controlMain

LEMMA BacklogIsFinite ==
  ASSUME TypeOK
  PROVE  IsFiniteSet(Backlog)
<1>1. PICK f : f = [n \in Neighbour |-> {n} \X (Len(served[n]) + 1 .. sent[n])] OBVIOUS
<1>2. PICK S : S = {{n} \X (Len(served[n]) + 1 .. sent[n]) : n \in Neighbour} OBVIOUS
<1>3. f \in Surjection(Neighbour, S) BY <1>1, <1>2 DEF Surjection
<1>4. IsFiniteSet(S) BY <1>3, CommunicationAssumption, FS_Surjection
<1>5. \A T \in S : IsFiniteSet(T)
  <2> SUFFICES ASSUME NEW n \in Neighbour
               PROVE  IsFiniteSet({n} \X (Len(served[n]) + 1 .. sent[n]))
    BY <1>2
  <2>1. Len(served[n]) + 1 \in Int /\ sent[n] \in Int
    <3>1. served[n] \in Seq(Nat) /\ sent[n] \in Nat BY LineType
    <3> QED BY <3>1
  <2>2. IsFiniteSet(Len(served[n]) + 1 .. sent[n]) BY <2>1, FS_Interval
  <2>3. IsFiniteSet({n}) BY FS_Singleton
  <2> QED BY <2>2, <2>3, FS_Product
<1> QED BY <1>2, <1>4, <1>5, FS_UNION DEF Backlog

\* Everything in the queue, and the message the communication task is about to
\* queue, has one of its own that was sent and not received.
LEMMA QueueIsBacklog ==
  ASSUME CommInv, wifi_pc = "queue"
  PROVE  Cardinality(Backlog) \in Nat /\ Len(IN_CONTROL_QUEUE) < Cardinality(Backlog)
<1>1. TypeOK BY DEF CommInv, TypeOK
<1>2. PICK U : U = Backlog OBVIOUS
<1>3. IsFiniteSet(U) /\ Cardinality(U) \in Nat BY <1>1, <1>2, BacklogIsFinite, FS_CardinalityType
<1>4. PICK tags \in Seq(Neighbour \X Nat) :
        /\ TagsFor(tags, Line)
        /\ \A i \in DOMAIN tags : Names(tags[i], stream, sent, Floors)
  BY DEF CommInv, LineOK, Tagged, TaggedBy
<1>6. IN_CONTROL_QUEUE \in Seq(Message) /\ todo \in Seq(Message) BY <1>1, LineType
<1>7. Len(IN_CONTROL_QUEUE) + 1 <= Len(tags)
  <2>1. todo # << >> /\ todo[1].nr # CLOSE BY <1>6 DEF CommInv, PcOK
  <2>2. PICK a \in Nat, b \in Nat : a = Len(IN_CONTROL_QUEUE) /\ b = Len(todo) BY <1>6
  <2>3. Len(Line) = a + b /\ b >= 1 BY <1>6, <2>1, <2>2 DEF Line
  <2>4. CASE Len(tags) = Len(Line) BY <2>2, <2>3, <2>4
  <2>5. CASE Len(tags) + 1 = Len(Line) /\ Line[Len(Line)].nr = CLOSE
    <3>1. b # 1
      <4>1. Line[a + 1] = todo[1] BY <1>6, <2>1, <2>2 DEF Line
      <4> QED BY <2>1, <2>3, <2>5, <4>1
    <3>2. PICK c \in Nat : c = Len(tags) OBVIOUS
    <3>3. c + 1 = a + b BY <2>3, <2>5, <3>2
    <3> QED BY <2>2, <2>3, <3>1, <3>2, <3>3
  <2> QED BY <1>4, <2>4, <2>5 DEF TagsFor
<1>8. tags \in Injection(1 .. Len(tags), U)
  <2>1. ASSUME NEW i \in DOMAIN tags PROVE tags[i] \in U
    <3>1. PICK n \in Neighbour, j \in Nat : tags[i] = <<n, j>>
      <4>1. tags[i] \in Neighbour \X Nat OBVIOUS
      <4> QED BY <4>1
    <3>2. Gone(stream[n], sent[n], j) /\ Floors[n] < j BY <1>4, <3>1 DEF Names
    <3>3. served[n] \in Seq(Nat) /\ sent[n] \in Nat BY <1>1, LineType
    <3>4. j \in 1 .. sent[n] /\ Len(served[n]) < j BY <3>2 DEF Gone, Floors
    <3>5. j \in Len(served[n]) + 1 .. sent[n] BY <3>3, <3>4
    <3> QED BY <1>2, <3>1, <3>5 DEF Backlog
  <2>2. ASSUME NEW i \in DOMAIN tags, NEW j \in DOMAIN tags, tags[i] = tags[j]
        PROVE  i = j
    <3>1. tags[i] \in Neighbour \X Nat BY <2>2
    <3>2. tags[i][2] \in Nat BY <3>1
    <3>3. ~(tags[i][2] < tags[j][2]) /\ ~(tags[j][2] < tags[i][2]) BY <2>2, <3>2
    <3>4. ~(i < j) /\ ~(j < i) BY <1>4, <2>2, <3>3 DEF TagsFor
    <3> QED BY <3>4
  <2>3. tags \in [1 .. Len(tags) -> U] BY <2>1
  <2>4. IsInjective(tags) BY <2>2 DEF IsInjective
  <2> QED BY <2>3, <2>4 DEF Injection
<1>9. Cardinality(1 .. Len(tags)) <= Cardinality(U) BY <1>3, <1>8, FS_Injection
<1>10. Cardinality(1 .. Len(tags)) = Len(tags)
  <2>1. 1 \in Int /\ Len(tags) \in Int /\ Len(tags) >= 0 OBVIOUS
  <2>2. Cardinality(1 .. Len(tags)) = IF 1 > Len(tags) THEN 0 ELSE Len(tags) - 1 + 1
    BY <2>1, FS_Interval
  <2> QED BY <2>1, <2>2
<1> QED
  <2>1. PICK a \in Nat, b \in Nat, c \in Nat :
          a = Len(IN_CONTROL_QUEUE) /\ b = Len(tags) /\ c = Cardinality(U)
    BY <1>3, <1>6
  <2>2. a + 1 <= b /\ b <= c BY <1>7, <1>9, <1>10, <2>1
  <2> QED BY <1>2, <2>1, <2>2

LEMMA InvHolds == Spec => []CommInv
BY InitEstablishes, NextKeeps, PTL DEF Spec

-----------------------------------------------------------------------------

\* The tasks of a node, its connections and its queues keep their types,
\* however connections are lost and tasks ended; no connection is in the table
\* twice.
THEOREM CommTypeCorrect == Spec => []CommTypeOK
<1>1. CommInv => CommTypeOK BY DEF CommInv
<1> QED BY <1>1, InvHolds, PTL

\* For every number of neighbours and of messages, and wherever reads cut them:
\* what the control task is given of a neighbour it is given once, and in the
\* order in which it was sent.
THEOREM MessagesAreServedInOrder == Spec => []ServedInOrder
<1>1. CommInv => ServedInOrder
  <2> SUFFICES ASSUME CommInv, NEW n \in Neighbour
               PROVE  \A i, j \in DOMAIN served[n] : i < j => served[n][i] < served[n][j]
    BY DEF ServedInOrder
  <2>1. \E h, b \in Nat, cut \in {0, 1} : Ordered(served[n], Line, n, b)
    BY DEF CommInv, LineOK, InOrder, OrderIs
  <2> QED BY <2>1 DEF Ordered
<1> QED BY <1>1, InvHolds, PTL

\* For every number of neighbours, length of the queues, and wherever reads cut
\* the messages: the communication task, which has the semaphore, and the control
\* task, which waits for it or for room in its own queue, wait for each other only
\* when more messages than fit into a queue were sent and not received.
THEOREM TheNodeJamsOnlyOfABacklog == Spec => []OnlyABacklogJams
<1>1. CommInv => OnlyABacklogJams
  <2> SUFFICES ASSUME CommInv, Jammed PROVE Cardinality(Backlog) > QUEUE BY DEF OnlyABacklogJams
  <2>1. wifi_pc = "queue" /\ Len(IN_CONTROL_QUEUE) >= QUEUE BY DEF Jammed, QueueLength
  <2>2. Cardinality(Backlog) \in Nat /\ Len(IN_CONTROL_QUEUE) < Cardinality(Backlog)
    BY <2>1, QueueIsBacklog
  <2>3. Len(IN_CONTROL_QUEUE) \in Nat /\ QUEUE \in Nat
    BY CommunicationAssumption DEF CommInv, CommTypeOK
  <2> QED BY <2>1, <2>2, <2>3
<1> QED BY <1>1, InvHolds, PTL
=============================================================================
