------------------------- MODULE LinksAndJobsProofs -------------------------
(* The links of the SDK to a pod, the USB console and the TCP exchange; the   *)
(* jobs on a pod's SPI bus, the flash and the motor emulator; and the tools   *)
(* by which an agent calls for all of it.  Each part by itself.               *)
EXTENDS SerialConsole, TcpExchange, SpiFlash, MotorStack, McpTools, FiniteSetTheorems, SequenceTheorems,
        WellFoundedInduction, TLAPS

-----------------------------------------------------------------------------
(* The USB console (transport/serial.py): any commands, any timing. *)

Commands == [what : Kinds, cmd : 0 .. MaxCommands]
ReplyTokens == [what : Pieces, cmd : 0 .. MaxCommands]

ConData ==
    /\ toPod \in Seq(Commands)
    /\ outbox \in Seq(ReplyTokens) /\ toHost \in Seq(ReplyTokens) /\ acc \in Seq(ReplyTokens) /\ answer \in Seq(ReplyTokens)
    /\ raw \in RawModes \cup {"text", "deaf"} /\ rawMode \in RawModes /\ unquit \subseteq RawModes
    /\ conPc \in {"idle", "cr", "reading", "quit", "rawCr", "awaiting", "recover", "link"}
    /\ cmds \in 0 .. MaxCommands

(* The pod is on its way to no raw mode but that of the handshake or the link   *)
(* under way, or one whose quit was lost.                                       *)
MaySay(m) == (conPc \in {"awaiting", "recover", "link"} /\ rawMode = m) \/ m \in unquit
TextIsText == \A m \in RawModes : MaySay(m) \/ ~MayEndIn(m)

(* While a call waits for its reply, and the pod was done with all before: the  *)
(* command is on its way, or its reply and nothing else is on its way back.     *)
OwnReplies == TextReplies(cmds)
Coming == (acc \o toHost) \o outbox
ReplyComes ==
    /\ conPc = "cr" => acc = <<>>
    /\ conPc # "idle" => answer = <<>>
    /\ conPc = "reading" /\ ~late =>
          /\ raw = "text"
          /\ \/ toPod = <<Token("text", cmds)>> /\ outbox = <<>> /\ toHost = <<>> /\ acc = <<>>
             \/ toPod = <<>> /\ Coming \in OwnReplies

ConKept == ConData /\ TextIsText /\ ReplyComes /\ AnswerIsOwn

-----------------------------------------------------------------------------
LEMMA TokensAre ==
    /\ \A w \in Kinds, n \in 0 .. MaxCommands : Token(w, n) \in Commands
    /\ \A w \in Pieces, n \in 0 .. MaxCommands : Token(w, n) \in ReplyTokens
    /\ \A w, n : Token(w, n).what = w
    /\ 0 \in 0 .. MaxCommands
    /\ \A m \in RawModes : QuitOf[m] \in Kinds /\ StartOf[m] \in Kinds /\ ReadyOf[m] \in Pieces
    /\ {"cr", "text"} \subseteq Kinds
    /\ {"prompt", "angle", "out", "error", "raw"} \subseteq Pieces
BY ConsoleAssumption DEF ConsoleAssumption, Token, Commands, ReplyTokens, Kinds, Pieces, RawModes, QuitOf, StartOf, ReadyOf

(* No two modes share what starts or quits them. *)
LEMMA ModesDiffer ==
    /\ \A m \in RawModes : StartOf[m] # QuitOf[m]
    /\ \A m, k \in RawModes : StartOf[m] # QuitOf[k]
    /\ \A m, k \in RawModes : m # k => QuitOf[m] # QuitOf[k] /\ StartOf[m] # StartOf[k]
    /\ \A m \in RawModes : QuitOf[m] \notin {"cr", "text"} /\ StartOf[m] \notin {"cr", "text"}
BY DEF RawModes, QuitOf, StartOf

(* A reply is made of pieces, and ends, but for the first of them, only in its prompt. *)
LEMMA RepliesAre ==
    ASSUME NEW n \in 0 .. MaxCommands
    PROVE  \A z \in TextReplies(n) :
              /\ z \in Seq(ReplyTokens)
              /\ \/ z = <<Token("out", n), Token("prompt", n)>>
                 \/ z = <<Token("angle", n), Token("out", n), Token("prompt", n)>>
<1> DEFINE out == Token("out", n)
           prompt == Token("prompt", n)
           angle == Token("angle", n)
<1>1. out \in ReplyTokens /\ prompt \in ReplyTokens /\ angle \in ReplyTokens
  BY TokensAre
<1> HIDE DEF out, prompt, angle
<1>3. TextReplies(n) = {<<out, prompt>>, <<angle, out, prompt>>}
  BY DEF TextReplies, out, prompt, angle
<1>4. <<out, prompt>> \in Seq(ReplyTokens) /\ <<angle, out, prompt>> \in Seq(ReplyTokens)
  BY <1>1
<1> QED BY <1>3, <1>4 DEF out, prompt, angle

(* Whether a pod in the mode r may be in the mode m after what it has to read.    *)
Decides(c, m) == c.what \in {StartOf[m], QuitOf[m]}
RawAfter(q, r, m) ==
    \/ r = m /\ \A i \in 1 .. Len(q) : q[i].what # QuitOf[m]
    \/ \E i \in 1 .. Len(q) : q[i].what = StartOf[m] /\ \A j \in 1 .. Len(q) : i < j => q[j].what # QuitOf[m]

LEMMA MayEndIs ==
    ASSUME toPod \in Seq(Commands), toPod' \in Seq(Commands), NEW m \in RawModes
    PROVE  (MayEndIn(m) <=> RawAfter(toPod, raw, m)) /\ (MayEndIn(m)' <=> RawAfter(toPod', raw', m))
<1>1. Len(toPod) \in Nat /\ DOMAIN toPod = 1 .. Len(toPod) /\ Len(toPod') \in Nat /\ DOMAIN toPod' = 1 .. Len(toPod')
  BY LenProperties
<1>2. ASSUME NEW n \in Nat, NEW i \in 1 .. n, NEW j \in 1 .. n PROVE j <= i <=> ~(i < j)
  OBVIOUS
<1>3. MayEndIn(m) <=> RawAfter(toPod, raw, m)
  BY <1>1, <1>2, Zenon DEF MayEndIn, RawAfter
<1>4. MayEndIn(m)' <=> RawAfter(toPod', raw', m)
  BY <1>1, <1>2, Zenon DEF MayEndIn, RawAfter
<1> QED BY <1>3, <1>4

LEMMA AfterOneMore ==
    ASSUME NEW q \in Seq(Commands), NEW c \in Commands, NEW r, NEW m \in RawModes
    PROVE  /\ ~Decides(c, m) => (RawAfter(Append(q, c), r, m) <=> RawAfter(q, r, m))
           /\ c.what = QuitOf[m] => ~RawAfter(Append(q, c), r, m)
<1> DEFINE p == Append(q, c)
           quit == QuitOf[m]
           start == StartOf[m]
<1>1. /\ Len(q) \in Nat /\ Len(p) = Len(q) + 1 /\ p[Len(q) + 1] = c
      /\ \A i \in 1 .. Len(q) : p[i] = q[i]
  BY AppendProperties, LenProperties
<1>2. start # quit
  BY ModesDiffer
<1> HIDE DEF p, quit, start
<1>3. \A i \in 1 .. Len(p) : i \in 1 .. Len(q) \/ i = Len(q) + 1
  BY <1>1
<1>4. \A i \in 1 .. Len(q) : i \in 1 .. Len(p) /\ i < Len(q) + 1
  BY <1>1
<1>5. Len(q) + 1 \in 1 .. Len(p)
  BY <1>1
<1>6. ASSUME ~Decides(c, m) PROVE RawAfter(p, r, m) <=> RawAfter(q, r, m)
  <2>1. c.what # start /\ c.what # quit
    BY <1>6 DEF Decides, start, quit
  <2>2. \A i \in 1 .. Len(p) : p[i].what \in {start, quit} => i \in 1 .. Len(q)
    BY <1>1, <1>3, <2>1
  <2>3. RawAfter(p, r, m) => RawAfter(q, r, m)
    BY <1>1, <1>4, <2>2, Zenon DEF RawAfter, start, quit
  <2>4. RawAfter(q, r, m) => RawAfter(p, r, m)
    BY <1>1, <1>4, <2>2, Zenon DEF RawAfter, start, quit
  <2> QED BY <2>3, <2>4
<1>7. ASSUME c.what = QuitOf[m] PROVE ~RawAfter(p, r, m)
  <2>1. c.what = quit /\ c.what # start
    BY <1>2, <1>7 DEF quit
  <2> QED BY <1>1, <1>3, <1>4, <1>5, <2>1, Zenon DEF RawAfter, start, quit
<1> QED BY <1>6, <1>7 DEF p

LEMMA AfterOneLess ==
    ASSUME NEW q \in Seq(Commands), q # <<>>, NEW r, NEW s, NEW m \in RawModes,
           Head(q).what = QuitOf[m] => s # m, Head(q).what # StartOf[m] /\ s = m => r = m, RawAfter(Tail(q), s, m)
    PROVE  RawAfter(q, r, m)
<1> DEFINE t == Tail(q)
           quit == QuitOf[m]
           start == StartOf[m]
<1>1. /\ Len(q) \in Nat /\ Len(q) > 0 /\ Len(t) = Len(q) - 1 /\ \A i \in 1 .. Len(t) : t[i] = q[i + 1]
  BY HeadTailProperties, EmptySeq, LenProperties
<1>2. Head(q) = q[1]
  OBVIOUS
<1>3. RawAfter(t, s, m)
  OBVIOUS
<1> HIDE DEF t
<1>4. ASSUME NEW j \in 1 .. Len(q), 1 < j PROVE j - 1 \in 1 .. Len(t) /\ t[j - 1] = q[j]
  <2>1. j - 1 \in 1 .. Len(t) /\ (j - 1) + 1 = j
    BY <1>1, <1>4
  <2> QED BY <1>1, <2>1
<1>5. CASE s = m /\ \A i \in 1 .. Len(t) : t[i].what # quit
  <2>1. \A j \in 1 .. Len(q) : 1 < j => q[j].what # quit
    BY <1>4, <1>5
  <2>2. 1 \in 1 .. Len(q) /\ \A j \in 1 .. Len(q) : j = 1 \/ 1 < j
    BY <1>1
  <2>3. CASE q[1].what = start
    BY <2>1, <2>2, <2>3, Zenon DEF RawAfter
  <2>4. CASE q[1].what # start
    <3>1. q[1].what # quit /\ r = m
      BY <1>2, <1>5, <2>4
    <3> QED BY <2>1, <2>2, <3>1, Zenon DEF RawAfter
  <2> QED BY <2>3, <2>4
<1>6. ASSUME NEW i \in 1 .. Len(t), t[i].what = start, \A j \in 1 .. Len(t) : i < j => t[j].what # quit
      PROVE  RawAfter(q, r, m)
  <2>1. i + 1 \in 1 .. Len(q) /\ q[i + 1].what = start
    BY <1>1, <1>6
  <2>2. ASSUME NEW j \in 1 .. Len(q), i + 1 < j PROVE q[j].what # quit
    <3>1. j - 1 \in 1 .. Len(t) /\ t[j - 1] = q[j] /\ i < j - 1
      BY <1>1, <1>4, <2>2
    <3> QED BY <1>6, <3>1, Zenon
  <2> QED BY <2>1, <2>2, Zenon DEF RawAfter
<1> QED BY <1>3, <1>5, <1>6, Zenon DEF RawAfter

-----------------------------------------------------------------------------
(* How queues are put together does not matter, ... *)
Splits(S, a, h, o) == h \o o \in Seq(S) /\ a \o (h \o o) = (a \o h) \o o

LEMMA TheySplit == \A S : \A a, h, o \in Seq(S) : Splits(S, a, h, o)
<1> SUFFICES ASSUME NEW S, NEW a \in Seq(S), NEW h \in Seq(S), NEW o \in Seq(S) PROVE Splits(S, a, h, o)
  BY Zenon
<1>1. h \o o \in Seq(S)
  BY ConcatProperties, Zenon
<1>2. a \o (h \o o) = (a \o h) \o o
  BY ConcatAssociative, SMT
<1> QED BY <1>1, <1>2 DEF Splits

(* ... and what is cut off the front of one and put to the end of another stays   *)
(* in its place, ...                                                              *)
Moved(S, a, h, n) ==
    /\ SubSeq(h, 1, n) \in Seq(S) /\ SubSeq(h, n + 1, Len(h)) \in Seq(S)
    /\ a \o SubSeq(h, 1, n) \in Seq(S)
    /\ (a \o SubSeq(h, 1, n)) \o SubSeq(h, n + 1, Len(h)) = a \o h

LEMMA CutOff == \A S : \A a, h \in Seq(S) : \A n \in 1 .. Len(h) : Moved(S, a, h, n)
<1> SUFFICES ASSUME NEW S, NEW a \in Seq(S), NEW h \in Seq(S), NEW n \in 1 .. Len(h) PROVE Moved(S, a, h, n)
  BY Zenon
<1> DEFINE front == SubSeq(h, 1, n)
           back == SubSeq(h, n + 1, Len(h))
<1>1. Len(h) \in Nat /\ n \in Nat
  BY LenProperties
<1>2. \A i \in 1 .. Len(h) : h[i] \in S
  BY <1>1, ElementOfSeq
<1>3. front \in Seq(S)
  <2>1. \A i \in 1 .. n : h[i] \in S
    BY <1>1, <1>2
  <2>2. 1 \in Int /\ n \in Int
    BY <1>1
  <2> QED BY <2>1, <2>2, SubSeqProperties, Zenon
<1>4. back \in Seq(S)
  <2>1. \A i \in n + 1 .. Len(h) : h[i] \in S
    BY <1>1, <1>2
  <2>2. n + 1 \in Int /\ Len(h) \in Int
    BY <1>1
  <2> QED BY <2>1, <2>2, SubSeqProperties, Zenon
<1>5. front \o back = h
  <2>1. 1 \in 1 .. Len(h) + 1 /\ n \in 1 - 1 .. Len(h) /\ Len(h) \in n .. Len(h)
    BY <1>1
  <2>2. front \o back = SubSeq(h, 1, Len(h))
    BY <1>1, <2>1, ConcatAdjacentSubSeq, Zenon
  <2> QED BY <1>1, <2>2, SubSeqFull, Zenon
<1> HIDE DEF front, back
<1>6. a \o front \in Seq(S)
  BY <1>3, ConcatProperties, Zenon
<1>7. (a \o front) \o back = a \o h
  <2>1. (a \o front) \o back = a \o (front \o back)
    <3>1. Splits(S, a, front, back)
      BY <1>3, <1>4, TheySplit, Zenon
    <3> QED BY <3>1 DEF Splits
  <2> QED BY <1>3, <1>4, <1>5, <2>1
<1> QED BY <1>3, <1>4, <1>6, <1>7 DEF front, back, Moved

(* ... so that a chunk is read in its place.                                      *)
LEMMA ChunkIs ==
    ASSUME ConData, NEW n \in 1 .. Len(toHost), Chunk(n)
    PROVE  acc' \in Seq(ReplyTokens) /\ toHost' \in Seq(ReplyTokens) /\ acc' \o toHost' = acc \o toHost
<1>1. acc \in Seq(ReplyTokens) /\ toHost \in Seq(ReplyTokens)
  BY DEF ConData
<1>2. acc' = acc \o SubSeq(toHost, 1, n) /\ toHost' = SubSeq(toHost, n + 1, Len(toHost))
  BY DEF Chunk
<1>3. Moved(ReplyTokens, acc, toHost, n)
  BY <1>1, CutOff, Zenon
<1> QED BY <1>1, <1>2, <1>3 DEF Moved

(* What moves from the head of one queue to the end of another stays in its place. *)
InItsPlace(a, h, o) ==
    /\ Tail(o) \in Seq(ReplyTokens) /\ Append(h, Head(o)) \in Seq(ReplyTokens)
    /\ (a \o Append(h, Head(o))) \o Tail(o) = (a \o h) \o o

LEMMA MovesOn ==
    ASSUME NEW a \in Seq(ReplyTokens), NEW h \in Seq(ReplyTokens), NEW o \in Seq(ReplyTokens), o # <<>>
    PROVE  InItsPlace(a, h, o)
<1> DEFINE x == Head(o)
           t == Tail(o)
<1>1. x \in ReplyTokens /\ t \in Seq(ReplyTokens) /\ Append(h, x) \in Seq(ReplyTokens) /\ <<x>> \in Seq(ReplyTokens)
  BY HeadTailProperties, AppendProperties
<1>2. o = <<x>> \o t
  <2>1. Len(o) \in Nat /\ Len(o) > 0 /\ Len(t) = Len(o) - 1 /\ \A i \in 1 .. Len(t) : t[i] = o[i + 1]
    BY HeadTailProperties, EmptySeq, LenProperties
  <2>2. Len(<<x>>) = 1 /\ <<x>>[1] = x /\ x = o[1]
    OBVIOUS
  <2> HIDE DEF x, t
  <2>3. <<x>> \o t \in Seq(ReplyTokens) /\ Len(<<x>> \o t) = Len(o)
        /\ \A i \in 1 .. Len(o) : (<<x>> \o t)[i] = IF i <= 1 THEN <<x>>[i] ELSE t[i - 1]
    BY <1>1, <2>1, <2>2, ConcatProperties
  <2>4. ASSUME NEW i \in 1 .. Len(o) PROVE (<<x>> \o t)[i] = o[i]
    <3>1. CASE i = 1
      BY <2>1, <2>2, <2>3, <3>1
    <3>2. CASE i # 1
      <4>1. i - 1 \in 1 .. Len(t) /\ ~(i <= 1) /\ (i - 1) + 1 = i
        BY <2>1, <3>2
      <4> QED BY <2>1, <2>3, <4>1
    <3> QED BY <3>1, <3>2
  <2> QED BY <2>3, <2>4, SeqEqual
<1> HIDE DEF x, t
<1>3. Append(h, x) = h \o <<x>>
  BY <1>1, AppendIsConcat
<1>4. a \o h \in Seq(ReplyTokens)
  BY ConcatProperties
<1>5. a \o Append(h, x) = (a \o h) \o <<x>>
  BY <1>1, <1>3, ConcatAssociative
<1>6. (a \o Append(h, x)) \o t = (a \o h) \o o
  BY <1>1, <1>2, <1>4, <1>5, ConcatAssociative
<1> QED BY <1>1, <1>6 DEF x, t, InItsPlace

(* What begins a sequence has its first elements. *)
IsHead(a, z) == Len(a) \in Nat /\ Len(a) <= Len(z) /\ \A i \in 1 .. Len(a) : a[i] = z[i]
LEMMA HeadOf == \A S : \A a, b \in Seq(S) : IsHead(a, a \o b)
<1> SUFFICES ASSUME NEW S, NEW a \in Seq(S), NEW b \in Seq(S) PROVE IsHead(a, a \o b)
  BY Zenon
<1> DEFINE z == a \o b
<1>1. Len(a) \in Nat /\ Len(b) \in Nat
  BY LenProperties
<1>2. /\ Len(z) = Len(a) + Len(b)
      /\ \A i \in 1 .. Len(a) + Len(b) : z[i] = IF i <= Len(a) THEN a[i] ELSE b[i - Len(a)]
  BY ConcatProperties, Zenon
<1> HIDE DEF z
<1>3. \A i \in 1 .. Len(a) : i \in 1 .. Len(a) + Len(b) /\ i <= Len(a)
  BY <1>1
<1>4. Len(a) <= Len(z) /\ \A i \in 1 .. Len(a) : a[i] = z[i]
  BY <1>1, <1>2, <1>3
<1> QED BY <1>1, <1>4 DEF IsHead, z

LEMMA UpToThree == \A k \in Nat : k > 0 => (k <= 2 => k = 1 \/ k = 2) /\ (k <= 3 => k = 1 \/ k = 2 \/ k = 3)
OBVIOUS

(* What begins a reply and ends like a prompt is all of it, or the piece that ends *)
(* in ">" before it.                                                              *)
LEMMA AllOfIt ==
    ASSUME NEW n \in 0 .. MaxCommands, NEW z \in TextReplies(n), NEW a \in Seq(ReplyTokens), IsHead(a, z), EndsInPrompt(a)
    PROVE  a \in TextReplies(n) \cup {<<Token("angle", n)>>}
<1> DEFINE out == Token("out", n)
           prompt == Token("prompt", n)
           angle == Token("angle", n)
<1>1. out.what = "out" /\ prompt.what = "prompt" /\ angle.what = "angle" /\ angle \in ReplyTokens
  BY TokensAre
<1>2. z \in Seq(ReplyTokens) /\ (z = <<out, prompt>> \/ z = <<angle, out, prompt>>)
  BY RepliesAre, Zenon
<1> HIDE DEF out, prompt, angle
<1>3. a # <<>> /\ a[Len(a)].what \in {"prompt", "angle"}
  BY DEF EndsInPrompt
<1>4. Len(a) \in Nat /\ Len(a) > 0 /\ Len(a) <= Len(z) /\ \A i \in 1 .. Len(a) : a[i] = z[i]
  BY <1>3, EmptySeq, LenProperties DEF IsHead
<1>5. a[Len(a)] = z[Len(a)]
  BY <1>4
<1>6. CASE z = <<out, prompt>>
  <2>1. Len(z) = 2 /\ z[1] = out /\ z[2] = prompt
    BY <1>6
  <2>2. Len(a) = 1 \/ Len(a) = 2
    BY <1>4, <2>1, UpToThree, Zenon
  <2>3. Len(a) = Len(z)
    BY <1>1, <1>3, <1>5, <2>1, <2>2
  <2>4. a = z
    BY <1>2, <1>4, <2>3, SeqEqual
  <2> QED BY <2>4
<1>7. CASE z = <<angle, out, prompt>>
  <2>1. Len(z) = 3 /\ z[1] = angle /\ z[2] = out /\ z[3] = prompt
    BY <1>7
  <2>2. Len(a) = 1 \/ Len(a) = 2 \/ Len(a) = 3
    BY <1>4, <2>1, UpToThree, Zenon
  <2>3. Len(a) = 1 \/ Len(a) = Len(z)
    BY <1>1, <1>3, <1>5, <2>1, <2>2
  <2>4. CASE Len(a) = Len(z)
    <3>1. a = z
      BY <1>2, <1>4, <2>4, SeqEqual
    <3> QED BY <3>1
  <2>5. CASE Len(a) = 1
    <3>1. <<angle>> \in Seq(ReplyTokens) /\ Len(<<angle>>) = 1 /\ <<angle>>[1] = angle
      BY <1>1
    <3>2. \A i \in 1 .. Len(a) : a[i] = <<angle>>[i]
      BY <1>4, <2>1, <2>5, <3>1
    <3>3. a = <<angle>>
      BY <2>5, <3>1, <3>2, SeqEqual
    <3> QED BY <3>3 DEF angle
  <2> QED BY <2>3, <2>4, <2>5
<1> QED BY <1>2, <1>6, <1>7

(* A step that touches neither the way to the pod nor its mode. *)
LEMMA SameWay == ASSUME UNCHANGED <<toPod, raw>> PROVE \A m \in RawModes : MayEndIn(m)' <=> MayEndIn(m)
BY Zenon DEF MayEndIn

-----------------------------------------------------------------------------
(* The pod reads what comes next. *)
LEMMA PodReadsKeeps ==
    ASSUME ConKept, PodReads
    PROVE  ConKept'
<1> USE DEF ConKept
<1> DEFINE item == Head(toPod)
<1>1. /\ toPod # <<>> /\ toPod' = Tail(toPod)
      /\ raw = "text" => InText(item)
      /\ raw # "text" => InRaw(item)
      /\ UNCHANGED <<toHost, conPc, cmds, rawMode, acc, late, unquit, answer>>
  BY DEF PodReads
<1>2. toPod \in Seq(Commands) /\ item \in Commands /\ toPod' \in Seq(Commands)
  BY <1>1, HeadTailProperties DEF ConData
<1>3. item.what \in Kinds /\ item.cmd \in 0 .. MaxCommands
  BY <1>2 DEF Commands
<1> HIDE DEF item
<1>4. /\ raw' \in RawModes \cup {"text", "deaf"}
      /\ \A m \in RawModes : (item.what = QuitOf[m] => raw' # m) /\ (item.what # StartOf[m] /\ raw' = m => raw = m)
  <2>1. CASE raw = "text"
    <3>1. \/ raw' = raw
          \/ \E m \in RawModes : item.what = StartOf[m] /\ (raw' = m \/ raw' = raw)
      BY <1>1, <2>1, Zenon DEF InText
    <3>2. "text" \notin RawModes
      BY DEF RawModes
    <3> QED BY <2>1, <3>1, <3>2, ModesDiffer, Zenon
  <2>2. CASE raw # "text"
    <3>1. \/ raw' = "text"
          \/ /\ raw \in RawModes => item.what # QuitOf[raw]
             /\ raw' \in (IF raw = "uart" THEN {"uart"} ELSE {raw, "deaf"})
      BY <1>1, <2>2, Zenon DEF InRaw
    <3>2. "text" \notin RawModes /\ "deaf" \notin RawModes /\ "uart" \in RawModes /\ raw \in RawModes \cup {"deaf"}
      BY <2>2 DEF RawModes, ConData
    <3>3. CASE raw' = "text"
      BY <3>2, <3>3
    <3>4. CASE /\ raw \in RawModes => item.what # QuitOf[raw]
               /\ raw' \in (IF raw = "uart" THEN {"uart"} ELSE {raw, "deaf"})
      BY <3>2, <3>4
    <3> QED BY <3>1, <3>3, <3>4
  <2> QED BY <2>1, <2>2
<1>5. outbox' = outbox \/ \E q \in Seq(ReplyTokens) : outbox' = outbox \o q
  <2> USE TokensAre
  <2>1. /\ <<Token("prompt", 0)>> \in Seq(ReplyTokens)
        /\ <<Token("error", item.cmd), Token("prompt", item.cmd)>> \in Seq(ReplyTokens)
    BY <1>3
  <2>2. \A m \in RawModes : <<Token(ReadyOf[m], item.cmd), Token("raw", item.cmd)>> \in Seq(ReplyTokens)
    BY <1>3
  <2>3. \A q \in TextReplies(item.cmd) : q \in Seq(ReplyTokens)
    BY <1>3, RepliesAre, Zenon
  <2>4. CASE raw = "text"
    BY <1>1, <2>1, <2>2, <2>3, <2>4, Zenon DEF InText, Emit
  <2>5. CASE raw # "text"
    BY <1>1, <2>1, <2>5, Zenon DEF InRaw, Emit
  <2> QED BY <2>4, <2>5
<1>6. outbox' \in Seq(ReplyTokens)
  BY <1>5, ConcatProperties DEF ConData
<1>7. ConData'
  BY <1>1, <1>2, <1>4, <1>6 DEF ConData
<1>8. \A m \in RawModes : MayEndIn(m)' => MayEndIn(m)
  <2> TAKE m \in RawModes
  <2>1. RawAfter(toPod', raw', m) => RawAfter(toPod, raw, m)
    BY <1>1, <1>2, <1>4, AfterOneLess DEF item
  <2> QED BY <1>2, <2>1, MayEndIs
<1>9. TextIsText'
  BY <1>1, <1>8, Zenon DEF TextIsText, MaySay
<1>10. ReplyComes'
  <2> SUFFICES ASSUME conPc = "reading", ~late
               PROVE  raw' = "text" /\ toPod' = <<>> /\ (acc \o toHost) \o outbox' \in OwnReplies
    BY <1>1 DEF ReplyComes, Coming, OwnReplies
  <2>1. raw = "text" /\ toPod = <<Token("text", cmds)>> /\ outbox = <<>> /\ toHost = <<>> /\ acc = <<>>
    BY <1>1 DEF ReplyComes
  <2>2. item = Token("text", cmds) /\ toPod' = <<>>
    BY <1>1, <2>1 DEF item
  <2>3. item.what = "text" /\ item.cmd = cmds
    BY <2>2 DEF Token
  <2>4. raw' = "text" /\ \E z \in OwnReplies : outbox' = outbox \o z
    BY <1>1, <2>1, <2>3 DEF InText, Emit, OwnReplies, RawModes, StartOf
  <2>5. PICK z \in OwnReplies : outbox' = outbox \o z
    BY <2>4
  <2>6. z \in Seq(ReplyTokens) /\ <<>> \in Seq(ReplyTokens)
    <3>1. cmds \in 0 .. MaxCommands
      BY DEF ConData
    <3> QED BY <3>1, RepliesAre DEF OwnReplies
  <2>7. (<<>> \o <<>>) \o (<<>> \o z) = z
    BY <2>6, ConcatEmptySeq
  <2> QED BY <2>1, <2>2, <2>4, <2>5, <2>7
<1>11. AnswerIsOwn'
  BY <1>1 DEF AnswerIsOwn
<1> QED BY <1>7, <1>9, <1>10, <1>11

LEMMA PodSendsKeeps ==
    ASSUME ConKept, PodSends \/ Watchdog
    PROVE  ConKept'
<1> USE DEF ConKept
<1>1. CASE PodSends
  <2>1. /\ outbox # <<>> /\ toHost' = Append(toHost, Head(outbox)) /\ outbox' = Tail(outbox)
        /\ UNCHANGED <<toPod, raw, conPc, cmds, rawMode, acc, late, unquit, answer>>
    BY <1>1 DEF PodSends
  <2>2. toHost' \in Seq(ReplyTokens) /\ outbox' \in Seq(ReplyTokens) /\ (acc \o toHost') \o outbox' = Coming
    <3>1. outbox \in Seq(ReplyTokens) /\ toHost \in Seq(ReplyTokens) /\ acc \in Seq(ReplyTokens)
      BY DEF ConData
    <3>2. /\ Tail(outbox) \in Seq(ReplyTokens) /\ Append(toHost, Head(outbox)) \in Seq(ReplyTokens)
          /\ (acc \o Append(toHost, Head(outbox))) \o Tail(outbox) = (acc \o toHost) \o outbox
      <4>1. InItsPlace(acc, toHost, outbox)
        BY <2>1, <3>1, MovesOn, Zenon
      <4> QED BY <4>1 DEF InItsPlace
    <3> QED BY <2>1, <3>2, Zenon DEF Coming
  <2>3. ConData'
    BY <2>1, <2>2 DEF ConData
  <2>4. TextIsText'
    BY <2>1, SameWay, Zenon DEF TextIsText, MaySay
  <2>5. ReplyComes'
    BY <2>1, <2>2, Zenon DEF ReplyComes, Coming, OwnReplies
  <2> QED BY <2>1, <2>3, <2>4, <2>5 DEF AnswerIsOwn
<1>2. CASE Watchdog
  <2>1. /\ raw' = "text" /\ outbox' = outbox \o <<Token("prompt", 0)>>
        /\ UNCHANGED <<toPod, toHost, conPc, cmds, rawMode, acc, late, unquit, answer>>
    BY <1>2 DEF Watchdog, Emit
  <2>2. outbox' \in Seq(ReplyTokens)
    <3>1. <<Token("prompt", 0)>> \in Seq(ReplyTokens)
      BY TokensAre
    <3> QED BY <2>1, <3>1, ConcatProperties DEF ConData
  <2>3. ConData'
    BY <2>1, <2>2 DEF ConData
  <2>4. \A m \in RawModes : MayEndIn(m)' => MayEndIn(m)
    <3>1. "text" \notin RawModes
      BY DEF RawModes
    <3> QED BY <2>1, <3>1, Zenon DEF MayEndIn
  <2>5. TextIsText'
    BY <2>1, <2>4, Zenon DEF TextIsText, MaySay
  <2>6. ReplyComes'
    <3>1. raw # "text"
      BY <1>2 DEF Watchdog
    <3> QED BY <2>1, <3>1 DEF ReplyComes
  <2> QED BY <2>1, <2>3, <2>5, <2>6 DEF AnswerIsOwn
<1> QED BY <1>1, <1>2

-----------------------------------------------------------------------------
(* The thread that writes a line and reads its reply. *)
LEMMA CallTextKeeps ==
    ASSUME ConKept, CallText
    PROVE  ConKept'
<1> USE DEF ConKept
<1>1. /\ conPc = "idle" /\ cmds < MaxCommands /\ cmds' = cmds + 1
      /\ toPod' = Append(toPod, Token("cr", 0)) /\ conPc' = "cr" /\ acc' = <<>> /\ answer' = <<>>
      /\ UNCHANGED <<outbox, toHost, raw, rawMode, late, unquit>>
  BY DEF CallText
<1>2. toPod \in Seq(Commands) /\ Token("cr", 0) \in Commands /\ \A m \in RawModes : ~Decides(Token("cr", 0), m)
  BY TokensAre, ModesDiffer DEF ConData, Decides
<1>3. toPod' \in Seq(Commands)
  BY <1>1, <1>2, AppendProperties
<1>4. ConData'
  BY <1>1, <1>3, ConsoleAssumption DEF ConData, ConsoleAssumption
<1>5. \A m \in RawModes : MayEndIn(m)' <=> MayEndIn(m)
  BY <1>1, <1>2, <1>3, MayEndIs, AfterOneMore
<1>6. TextIsText'
  BY <1>1, <1>5 DEF TextIsText, MaySay
<1>7. ReplyComes' /\ AnswerIsOwn'
  BY <1>1 DEF ReplyComes, AnswerIsOwn
<1> QED BY <1>4, <1>6, <1>7

LEMMA WriteLineKeeps ==
    ASSUME ConKept, WriteLine
    PROVE  ConKept'
<1> USE DEF ConKept
<1>1. /\ conPc \in {"cr", "rawCr"} /\ toHost' = <<>>
      /\ late' = (toPod # <<>> \/ outbox # <<>> \/ raw # "text")
      /\ toPod' = Append(toPod, ToWrite)
      /\ conPc' = IF conPc = "cr" THEN "reading" ELSE "awaiting"
      /\ UNCHANGED <<outbox, raw, cmds, rawMode, acc, unquit, answer>>
  BY Zenon DEF WriteLine
<1>2. toPod \in Seq(Commands) /\ ToWrite \in Commands
  BY TokensAre DEF ConData, ToWrite
<1>3. /\ conPc = "cr" => ToWrite = Token("text", cmds)
      /\ \A m \in RawModes : conPc = "cr" \/ m # rawMode => ~Decides(ToWrite, m)
  <2>1. conPc = "cr" => ToWrite = Token("text", cmds)
    BY DEF ToWrite
  <2>2. conPc # "cr" => ToWrite = Token(StartOf[rawMode], cmds) /\ rawMode \in RawModes
    BY DEF ToWrite, ConData
  <2>3. ToWrite.what = IF conPc = "cr" THEN "text" ELSE StartOf[rawMode]
    BY <2>1, <2>2, TokensAre, Zenon
  <2>4. ASSUME NEW m \in RawModes, conPc = "cr" \/ m # rawMode PROVE ToWrite.what # StartOf[m] /\ ToWrite.what # QuitOf[m]
    <3>1. CASE conPc = "cr"
      BY <2>3, <3>1, ModesDiffer
    <3>2. CASE conPc # "cr"
      BY <2>2, <2>3, <2>4, <3>2, ModesDiffer
    <3> QED BY <3>1, <3>2
  <2> QED BY <2>1, <2>4 DEF Decides
<1>4. toPod' \in Seq(Commands)
  BY <1>1, <1>2, AppendProperties
<1>5. ConData'
  BY <1>1, <1>4 DEF ConData
<1>6. conPc' = "reading" => conPc = "cr"
  BY <1>1
<1>7. \A m \in RawModes : conPc = "cr" \/ m # rawMode => (MayEndIn(m)' <=> MayEndIn(m))
  BY <1>1, <1>2, <1>3, <1>4, MayEndIs, AfterOneMore
<1>8. TextIsText'
  <2>1. ASSUME NEW m \in RawModes PROVE MaySay(m)' \/ ~MayEndIn(m)'
    <3>1. CASE conPc = "cr" \/ m # rawMode
      BY <1>1, <1>7, <3>1 DEF TextIsText, MaySay
    <3>2. CASE ~(conPc = "cr" \/ m # rawMode)
      BY <1>1, <3>2 DEF MaySay
    <3> QED BY <3>1, <3>2
  <2> QED BY <2>1 DEF TextIsText
<1>9. ReplyComes'
  <2>1. conPc' # "cr" /\ answer' = <<>>
    BY <1>1 DEF ReplyComes
  <2>2. ASSUME conPc' = "reading", ~late'
        PROVE  raw' = "text" /\ toPod' = <<Token("text", cmds')>> /\ outbox' = <<>> /\ toHost' = <<>> /\ acc' = <<>>
    <3>1. toPod = <<>> /\ outbox = <<>> /\ raw = "text" /\ acc = <<>> /\ ToWrite = Token("text", cmds)
      BY <1>1, <1>3, <1>6, <2>2 DEF ReplyComes
    <3>2. toPod' = Append(<<>>, ToWrite)
      BY <1>1, <3>1
    <3>3. toPod' = <<ToWrite>>
      BY <3>2
    <3> QED BY <1>1, <3>1, <3>3
  <2> QED BY <2>1, <2>2 DEF ReplyComes
<1>10. AnswerIsOwn'
  BY <1>1 DEF AnswerIsOwn, ReplyComes
<1> QED BY <1>5, <1>8, <1>9, <1>10

LEMMA ReadPromptKeeps ==
    ASSUME ConKept, NEW n \in 1 .. Len(toHost), ReadPrompt(n)
    PROVE  ConKept'
<1> USE DEF ConKept
<1>1. /\ conPc = "reading" /\ Chunk(n)
      /\ UNCHANGED <<toPod, outbox, raw, cmds, rawMode, late, unquit>>
  BY Zenon DEF ReadPrompt
<1>2. \/ EndsInPrompt(acc') /\ conPc' = "idle" /\ answer' = acc'
      \/ conPc' = "reading" /\ answer' = answer
  BY Zenon DEF ReadPrompt
<1>3. acc' \in Seq(ReplyTokens) /\ toHost' \in Seq(ReplyTokens) /\ acc' \o toHost' = acc \o toHost
  BY <1>1, ChunkIs
<1>4. ConData'
  BY <1>1, <1>2, <1>3 DEF ConData
<1>5. TextIsText'
  <2>1. \A m \in RawModes : MayEndIn(m)' <=> MayEndIn(m)
    BY <1>1, Zenon DEF MayEndIn
  <2> QED BY <1>1, <1>2, <2>1 DEF TextIsText, MaySay
<1>6. ~late => raw = "text" /\ toPod = <<>> /\ (acc' \o toHost') \o outbox \in OwnReplies
  <2>1. toHost # <<>>
    OBVIOUS
  <2> QED BY <1>1, <1>3, <2>1 DEF ReplyComes, Coming
<1>7. OwnReplies' = OwnReplies /\ answer = <<>>
  BY <1>1, Zenon DEF OwnReplies, ReplyComes
<1>8. ReplyComes'
  BY <1>1, <1>2, <1>6, <1>7 DEF ReplyComes, Coming
<1>9. AnswerIsOwn'
  <2> SUFFICES ASSUME answer' # <<>>, ~late PROVE answer' \in TextReplies(cmds) \cup {<<Token("angle", cmds)>>}
    BY <1>1, Zenon DEF AnswerIsOwn
  <2>1. EndsInPrompt(acc') /\ answer' = acc'
    BY <1>2, <1>7
  <2>2. outbox \in Seq(ReplyTokens) /\ cmds \in 0 .. MaxCommands
    BY DEF ConData
  <2>3. toHost' \o outbox \in Seq(ReplyTokens) /\ acc' \o (toHost' \o outbox) \in TextReplies(cmds)
    <3>1. Splits(ReplyTokens, acc', toHost', outbox)
      BY <1>3, <2>2, TheySplit, Zenon
    <3> QED BY <1>6, <3>1 DEF Splits, OwnReplies
  <2>4. IsHead(acc', acc' \o (toHost' \o outbox))
    BY <1>3, <2>3, HeadOf, Zenon
  <2> QED BY <1>3, <2>1, <2>2, <2>3, <2>4, AllOfIt
<1> QED BY <1>4, <1>5, <1>8, <1>9

LEMMA TextFailsKeeps ==
    ASSUME ConKept, TextFails
    PROVE  ConKept'
<1> USE DEF ConKept
<1>1. /\ conPc \in {"cr", "reading"} /\ conPc' = "idle"
      /\ UNCHANGED <<toPod, outbox, toHost, raw, cmds, rawMode, acc, late, unquit, answer>>
  BY DEF TextFails, Wire
<1>2. ConData'
  BY <1>1 DEF ConData
<1>3. \A m \in RawModes : MayEndIn(m)' <=> MayEndIn(m)
  BY <1>1, SameWay
<1>4. TextIsText'
  BY <1>1, <1>3 DEF TextIsText, MaySay
<1>5. ReplyComes' /\ AnswerIsOwn'
  BY <1>1 DEF ReplyComes, AnswerIsOwn
<1> QED BY <1>2, <1>4, <1>5

(* The calls that write a quit byte.  *)
LEMMA QuitKeeps ==
    ASSUME ConKept, NEW sent \in BOOLEAN, (\E m \in RawModes : CallRaw(m, sent)) \/ Recover(sent) \/ LinkClose(sent)
    PROVE  ConKept'
<1> USE DEF ConKept
<1> DEFINE Sole(m) == m = rawMode \/ conPc = "idle"
<1>1. PICK k \in RawModes :
      /\ toPod' = IF sent THEN Append(toPod, Token(QuitOf[k], 0)) ELSE toPod
      /\ unquit' = IF sent THEN unquit \ {k} ELSE unquit \cup {k}
      /\ (toHost' = toHost \/ toHost' = <<>>)
      /\ Sole(k) /\ rawMode' = k
      /\ UNCHANGED <<outbox, raw, late>>
      /\ conPc' \in {"idle", "quit"} /\ acc' = <<>>
      /\ (cmds' = cmds \/ (cmds < MaxCommands /\ cmds' = cmds + 1))
      /\ (answer' = <<>> \/ (conPc # "idle" /\ answer' = answer))
  <2>1. CASE \E m \in RawModes : CallRaw(m, sent)
    BY <2>1, Zenon DEF CallRaw, Quit, WriteQuit
  <2>2. CASE Recover(sent)
    <3>1. conPc # "idle" /\ rawMode \in RawModes
      BY <2>2 DEF Recover, ConData
    <3> QED BY <2>2, <3>1, Zenon DEF Recover, Quit, WriteQuit
  <2>3. CASE LinkClose(sent)
    <3>1. conPc # "idle" /\ rawMode \in RawModes
      BY <2>3 DEF LinkClose, ConData
    <3> QED BY <2>3, <3>1, Zenon DEF LinkClose, WriteQuit
  <2> QED BY <2>1, <2>2, <2>3, Zenon
<1> DEFINE quit == Token(QuitOf[k], 0)
<1>2. toPod \in Seq(Commands) /\ quit \in Commands /\ quit.what = QuitOf[k]
  BY TokensAre DEF ConData
<1>3. \A m \in RawModes : m # k => ~Decides(quit, m)
  BY <1>2, ModesDiffer DEF Decides
<1>4. toPod' \in Seq(Commands)
  BY <1>1, <1>2, AppendProperties
<1>5. ConData'
  <2>1. cmds' \in 0 .. MaxCommands
    BY <1>1, ConsoleAssumption DEF ConData, ConsoleAssumption
  <2>2. <<>> \in Seq(ReplyTokens)
    OBVIOUS
  <2>3. toHost' \in Seq(ReplyTokens) /\ acc' \in Seq(ReplyTokens) /\ answer' \in Seq(ReplyTokens) /\ outbox' \in Seq(ReplyTokens)
    BY <1>1, <2>2, Zenon DEF ConData
  <2>4. unquit' \subseteq RawModes
    BY <1>1 DEF ConData
  <2> QED BY <1>1, <1>4, <2>1, <2>3, <2>4 DEF ConData
<1> HIDE DEF quit
<1>6. sent => ~MayEndIn(k)'
  BY <1>1, <1>2, <1>4, MayEndIs, AfterOneMore DEF quit
<1>7. \A m \in RawModes : m # k => (MayEndIn(m)' <=> MayEndIn(m))
  <2> SUFFICES ASSUME NEW m \in RawModes, m # k PROVE MayEndIn(m)' <=> MayEndIn(m)
    OBVIOUS
  <2>1. CASE sent
    <3>1. toPod' = Append(toPod, quit) /\ raw' = raw
      BY <1>1, <2>1 DEF quit
    <3> QED BY <1>2, <1>3, <1>4, <3>1, MayEndIs, AfterOneMore
  <2>2. CASE ~sent
    BY <1>1, <2>2, SameWay
  <2> QED BY <2>1, <2>2
<1>8. TextIsText'
  <2>1. ASSUME NEW m \in RawModes PROVE MaySay(m)' \/ ~MayEndIn(m)'
    <3>1. CASE m = k
      BY <1>1, <1>6, <3>1 DEF MaySay
    <3>2. CASE m # k
      <4>1. MaySay(m) => m \in unquit
        BY <1>1, <3>2 DEF MaySay
      <4> QED BY <1>1, <1>7, <3>2, <4>1 DEF MaySay, TextIsText
    <3> QED BY <3>1, <3>2
  <2> QED BY <2>1 DEF TextIsText
<1>9. answer' = <<>>
  BY <1>1 DEF ReplyComes
<1>10. ReplyComes' /\ AnswerIsOwn'
  BY <1>1, <1>9 DEF ReplyComes, AnswerIsOwn
<1> QED BY <1>5, <1>8, <1>10

(* The other steps of a handshake and of the link it opens. *)
LEMMA RawNewlineKeeps ==
    ASSUME ConKept, RawNewline
    PROVE  ConKept'
<1> USE DEF ConKept
<1>1. /\ conPc = "quit" /\ toPod' = Append(toPod, Token("cr", 0)) /\ conPc' = "rawCr"
      /\ UNCHANGED <<outbox, toHost, raw, cmds, rawMode, acc, late, unquit, answer>>
  BY DEF RawNewline
<1>2. toPod' \in Seq(Commands)
  BY <1>1, TokensAre, AppendProperties DEF ConData
<1>3. ConData'
  BY <1>1, <1>2 DEF ConData
<1>4. \A m \in RawModes : MayEndIn(m)' <=> MayEndIn(m)
  <2>1. toPod \in Seq(Commands) /\ Token("cr", 0) \in Commands /\ \A m \in RawModes : ~Decides(Token("cr", 0), m)
    BY TokensAre, ModesDiffer DEF ConData, Decides
  <2> QED BY <1>1, <1>2, <2>1, MayEndIs, AfterOneMore
<1>5. TextIsText' /\ ReplyComes' /\ AnswerIsOwn'
  BY <1>1, <1>4 DEF TextIsText, MaySay, ReplyComes, AnswerIsOwn
<1> QED BY <1>3, <1>5

LEMMA AwaitReadyKeeps ==
    ASSUME ConKept, NEW n \in 1 .. Len(toHost), AwaitReady(n)
    PROVE  ConKept'
<1> USE DEF ConKept
<1>1. /\ conPc = "awaiting" /\ Chunk(n)
      /\ conPc' \in {"link", "recover", "awaiting"}
      /\ UNCHANGED <<toPod, outbox, raw, cmds, rawMode, late, unquit, answer>>
  BY DEF AwaitReady
<1>2. acc' \in Seq(ReplyTokens) /\ toHost' \in Seq(ReplyTokens)
  BY <1>1, ChunkIs
<1>3. ConData'
  BY <1>1, <1>2 DEF ConData
<1>4. \A m \in RawModes : MayEndIn(m)' <=> MayEndIn(m)
  BY <1>1, SameWay
<1>5. TextIsText' /\ ReplyComes' /\ AnswerIsOwn'
  BY <1>1, <1>4 DEF TextIsText, MaySay, ReplyComes, AnswerIsOwn
<1> QED BY <1>3, <1>5

LEMMA RawEndsKeep ==
    ASSUME ConKept, HandshakeTimesOut \/ HandshakeRaises \/ LinkRead \/ LinkFails
    PROVE  ConKept'
<1> USE DEF ConKept
<1>1. /\ UNCHANGED <<toPod, outbox, raw, cmds, rawMode, late, answer>>
      /\ conPc \in {"quit", "rawCr", "awaiting", "link"}
      /\ \/ conPc' \in {"recover", "link"} /\ conPc \in {"awaiting", "link"} /\ unquit' = unquit
         \/ conPc' = "idle" /\ unquit' = unquit \cup {rawMode}
      /\ (acc' = acc \/ acc' = <<>>)
      /\ (toHost' = toHost \/ toHost' = <<>>)
  BY DEF HandshakeTimesOut, HandshakeRaises, LinkRead, LinkFails, Wire
<1>2. ConData'
  <2>1. <<>> \in Seq(ReplyTokens)
    OBVIOUS
  <2>2. toHost' \in Seq(ReplyTokens) /\ acc' \in Seq(ReplyTokens)
    BY <1>1, <2>1, Zenon DEF ConData
  <2> QED BY <1>1, <2>2 DEF ConData
<1>3. \A m \in RawModes : MayEndIn(m)' <=> MayEndIn(m)
  BY <1>1, SameWay
<1>4. TextIsText'
  BY <1>1, <1>3 DEF TextIsText, MaySay
<1>5. ReplyComes' /\ AnswerIsOwn'
  BY <1>1 DEF ReplyComes, AnswerIsOwn
<1> QED BY <1>2, <1>4, <1>5

-----------------------------------------------------------------------------
LEMMA ConStarts == ConInit => ConKept /\ late \in BOOLEAN
<1> SUFFICES ASSUME ConInit PROVE ConKept /\ late \in BOOLEAN
  OBVIOUS
<1>1. /\ toPod = <<>> /\ outbox = <<>> /\ toHost = <<>> /\ acc = <<>> /\ answer = <<>>
      /\ conPc = "idle" /\ cmds = 0 /\ rawMode = "dap"
  BY DEF ConInit
<1>2. raw \in RawModes \cup {"text"} /\ unquit = {raw} \ {"text"} /\ late = FALSE
  BY DEF ConInit
<1>3. ConData
  BY <1>1, <1>2, ConsoleAssumption DEF ConData, ConsoleAssumption, RawModes
<1>4. TextIsText
  <2>1. ASSUME NEW m \in RawModes, m \notin unquit PROVE ~MayEndIn(m)
    <3>1. raw # m /\ DOMAIN toPod = {}
      BY <1>1, <1>2, <2>1 DEF RawModes
    <3> QED BY <3>1, Zenon DEF MayEndIn
  <2> QED BY <2>1 DEF TextIsText, MaySay
<1>5. ReplyComes /\ AnswerIsOwn
  BY <1>1 DEF ReplyComes, AnswerIsOwn
<1> QED BY <1>2, <1>3, <1>4, <1>5 DEF ConKept

LEMMA LateOfCon == late \in BOOLEAN /\ [ConNext]_conVars => late' \in BOOLEAN
<1> SUFFICES ASSUME late \in BOOLEAN, [ConNext]_conVars PROVE late' \in BOOLEAN
  OBVIOUS
<1>1. CASE ThePod
  BY <1>1, Zenon DEF ThePod, PodReads, PodSends, Watchdog
<1>2. CASE WriteLine
  BY <1>2, Zenon DEF WriteLine
<1>3. CASE Text
  BY <1>3, Zenon DEF Text, CallText, ReadPrompt, TextFails, Wire
<1>4. CASE RawMode
  BY <1>4, Zenon DEF RawMode, CallRaw, Recover, LinkClose, Quit, AwaitReady, RawNewline,
     HandshakeTimesOut, HandshakeRaises, LinkRead, LinkFails, Wire
<1>5. CASE UNCHANGED conVars
  BY <1>5, Zenon DEF conVars
<1> QED BY <1>1, <1>2, <1>3, <1>4, <1>5, Zenon DEF ConNext

LEMMA ConStep == ConKept /\ [ConNext]_conVars => ConKept'
<1> SUFFICES ASSUME ConKept, [ConNext]_conVars PROVE ConKept'
  OBVIOUS
<1>1. CASE ThePod
  BY <1>1, PodReadsKeeps, PodSendsKeeps, Zenon DEF ThePod
<1>2. CASE WriteLine
  BY <1>2, WriteLineKeeps, Zenon
<1>3. CASE Text
  BY <1>3, CallTextKeeps, ReadPromptKeeps, TextFailsKeeps, Zenon DEF Text
<1>4. CASE RawMode
  BY <1>4, QuitKeeps, RawNewlineKeeps, AwaitReadyKeeps, RawEndsKeep, Zenon DEF RawMode
<1>5. CASE UNCHANGED conVars
  <2>1. UNCHANGED <<toPod, outbox, toHost, raw, conPc, cmds, rawMode, acc, late, unquit, answer>>
    BY <1>5 DEF conVars
  <2>2. \A m \in RawModes : MayEndIn(m)' <=> MayEndIn(m)
    BY <2>1, SameWay
  <2>3. ConData' /\ TextIsText'
    BY <2>1, <2>2 DEF ConKept, ConData, TextIsText, MaySay
  <2>4. ReplyComes' /\ AnswerIsOwn'
    BY <2>1, Zenon DEF ConKept, ReplyComes, AnswerIsOwn, Coming, OwnReplies
  <2> QED BY <2>3, <2>4 DEF ConKept
<1> QED BY <1>1, <1>2, <1>3, <1>4, <1>5, Zenon DEF ConNext

LEMMA ConIsSafe == ConKept /\ late \in BOOLEAN => ConInv
<1> SUFFICES ASSUME ConKept, late \in BOOLEAN PROVE ConInv
  OBVIOUS
<1>1. Commands \subseteq Tokens /\ ReplyTokens \subseteq Tokens
  BY DEF Commands, ReplyTokens, Tokens
<1>2. ConTypeOK
  BY <1>1 DEF ConKept, ConData, ConTypeOK
<1>3. NotWedged /\ AnswerIsOwn
  BY DEF ConKept, TextIsText, MaySay, NotWedged
<1> QED BY <1>2, <1>3 DEF ConInv

(* What a text command returns is its own output, from its beginning and whole  *)
(* but for a cut after a piece that ends in ">", unless the pod was busy or in  *)
(* a raw mode when the input was thrown away; and between two calls the pod is  *)
(* on its way to no raw mode but one whose own quit could not be sent since     *)
(* (transport/serial.py): for any number of calls and handshakes of both modes. *)
THEOREM OutputIsItsOwn == ConSpec => []ConInv
<1>1. ConInit => ConKept /\ late \in BOOLEAN
  BY ConStarts
<1>2. (ConKept /\ late \in BOOLEAN) /\ [ConNext]_conVars => (ConKept /\ late \in BOOLEAN)'
  BY ConStep, LateOfCon, Zenon
<1>3. ConKept /\ late \in BOOLEAN => ConInv
  BY ConIsSafe
<1> QED BY <1>1, <1>2, <1>3, PTL DEF ConSpec

-----------------------------------------------------------------------------
(* The TCP exchange (transport/tcp.py): any line length, lines and cuts. *)

(* The lines read so far, but for a piece of one at the end of the stream. *)
LinesRead == used \div LineLen
PieceRead == used % LineLen
AtLineEnd == PieceRead = 0
BytesUpTo(n) == LineLen * n

TcpFlags == ended \in BOOLEAN
TcpData ==
    /\ exchange \in Exchanges /\ lines \in Seq(LineKinds)
    /\ written \in Nat /\ received \in 0 .. written /\ used \in 0 .. received
    /\ asked \in 1 .. Stages[exchange] /\ taken \in Seq(Nat)
    /\ tcpPc \in {"reading", "returned", "raised"}

(* What is sent is made of whole lines, and after the line that switched the    *)
(* connection to raw of raw bytes; what was read of it ends with a line, or     *)
(* with the stream.                                                             *)
BytesAre ==
    /\ written <= BytesUpTo(Len(lines)) + RawPart
    /\ LinesRead <= Len(lines)
    /\ tcpPc = "reading" => AtLineEnd \/ (ended /\ used = received /\ received = written)

(* The line that switches to raw mode is the only one read. *)
RawIs ==
    exchange = "raw" =>
        /\ received <= LineLen
        /\ tcpPc = "reading" => used = 0
        /\ \A i \in 1 .. Len(lines) : lines[i] # "more"

(* The lines used are those read that are not skipped, in order. *)
ReadLines == {i \in DOMAIN lines : Counts(i) /\ i <= LinesRead}
TakenAre ==
    /\ \A i, j \in 1 .. Len(taken) : i < j => taken[i] < taken[j]
    /\ \A i \in 1 .. Len(taken) : taken[i] \in 1 .. Len(lines) /\ lines[taken[i]] \in {"ok", "more"}
    /\ tcpPc = "reading" /\ AtLineEnd => {taken[i] : i \in DOMAIN taken} = ReadLines
    /\ tcpPc = "returned" =>
          /\ asked = Stages[exchange] /\ Len(taken) > 0 /\ lines[taken[Len(taken)]] = "ok"
          /\ {taken[i] : i \in DOMAIN taken} = ReadLines \cup (IF AtLineEnd THEN {} ELSE {LinesRead + 1})

TcpKept == TcpData /\ BytesAre /\ RawIs /\ TakenAre

-----------------------------------------------------------------------------
(* A number of bytes as lines and the rest of a line. *)
LEMMA LinesOf ==
    ASSUME NEW l \in Nat \ {0}
    PROVE  /\ \A u \in Nat : u = l * (u \div l) + (u % l) /\ u % l \in 0 .. l - 1 /\ u \div l \in Nat
           /\ \A k \in Nat, r \in 0 .. l - 1 : (l * k + r) \div l = k /\ (l * k + r) % l = r
<1>1. ASSUME NEW u \in Nat PROVE u = l * (u \div l) + (u % l) /\ u % l \in 0 .. l - 1 /\ u \div l \in Nat
  BY SMT
<1>2. ASSUME NEW k \in Nat, NEW r \in 0 .. l - 1 PROVE (l * k + r) \div l = k /\ (l * k + r) % l = r
  BY SMT
<1> QED BY <1>1, <1>2, Zenon

LEMMA BytesGrow ==
    /\ \A n \in Nat : BytesUpTo(n) \in Nat /\ BytesUpTo(n + 1) = BytesUpTo(n) + LineLen /\ n * LineLen = BytesUpTo(n)
    /\ \A m, n \in Nat : m < n => BytesUpTo(m) + LineLen <= BytesUpTo(n)
    /\ \A m, n \in Nat : m <= n => BytesUpTo(m) <= BytesUpTo(n)
    /\ BytesUpTo(0) = 0 /\ BytesUpTo(1) = LineLen
<1> USE TcpAssumption DEF TcpAssumption
<1>1. ASSUME NEW n \in Nat
      PROVE  BytesUpTo(n) \in Nat /\ BytesUpTo(n + 1) = BytesUpTo(n) + LineLen /\ n * LineLen = BytesUpTo(n)
  BY SMT DEF BytesUpTo
<1>2. ASSUME NEW m \in Nat, NEW n \in Nat, m < n PROVE BytesUpTo(m) + LineLen <= BytesUpTo(n)
  <2>1. n - (m + 1) \in Nat /\ BytesUpTo(n - (m + 1)) = BytesUpTo(n) - (BytesUpTo(m) + LineLen)
    BY <1>2, SMT DEF BytesUpTo
  <2>2. BytesUpTo(n - (m + 1)) \in Nat /\ BytesUpTo(n) \in Nat /\ BytesUpTo(m) \in Nat
    BY <1>1, <2>1
  <2> QED BY <2>1, <2>2
<1>3. ASSUME NEW m \in Nat, NEW n \in Nat, m <= n PROVE BytesUpTo(m) <= BytesUpTo(n)
  <2>1. CASE m < n
    BY <1>1, <1>2, <2>1
  <2>2. CASE m = n
    BY <1>1, <2>2
  <2> QED BY <1>3, <2>1, <2>2
<1>4. BytesUpTo(0) = 0 /\ BytesUpTo(1) = LineLen
  BY SMT DEF BytesUpTo
<1> QED BY <1>1, <1>2, <1>3, <1>4, Zenon

(* The exchanges, and what the raw one has of its own. *)
LEMMA StagesAre ==
    /\ \A x \in Exchanges : Stages[x] \in 1 .. 3
    /\ Stages["raw"] = 1 /\ Skipped["raw"] = {} /\ Before["raw"] = {}
<1>1. \A x \in Exchanges : Stages[x] \in 1 .. 3
  BY DEF Exchanges, Stages
<1>2. "raw" \in Exchanges /\ Stages["raw"] = 1
  BY DEF Exchanges, Stages
<1>3. Skipped["raw"] = {}
  BY <1>2 DEF Skipped
<1>4. Before["raw"] = {}
  BY <1>2 DEF Before
<1> QED BY <1>1, <1>2, <1>3, <1>4

(* The numbers of an exchange. *)
LEMMA NumbersAre ==
    ASSUME TcpData
    PROVE  /\ LineLen \in Nat /\ 1 < LineLen /\ RawPart \in Nat /\ RawBytes \in Nat
           /\ written \in Nat /\ received \in Nat /\ used \in Nat /\ received <= written /\ used <= received
           /\ LinesRead \in Nat /\ Number = LinesRead + 1 /\ Len(lines) \in Nat /\ Len(taken) \in Nat
           /\ used = BytesUpTo(LinesRead) + PieceRead /\ PieceRead \in 0 .. LineLen - 1
           /\ BytesUpTo(LinesRead) \in Nat /\ BytesUpTo(Len(lines)) \in Nat
           /\ DOMAIN lines = 1 .. Len(lines) /\ DOMAIN taken = 1 .. Len(taken)
<1>1. /\ LineLen \in Nat \ {0, 1} /\ RawBytes \in Nat /\ used \in Nat /\ received \in Nat /\ written \in Nat
      /\ received <= written /\ used <= received
  BY TcpAssumption DEF TcpAssumption, TcpData
<1>2. /\ Len(lines) \in Nat /\ Len(taken) \in Nat
      /\ DOMAIN lines = 1 .. Len(lines) /\ DOMAIN taken = 1 .. Len(taken)
  BY LenProperties DEF TcpData
<1>3. RawPart \in Nat
  BY <1>1, Zenon DEF RawPart
<1>4. used = BytesUpTo(LinesRead) + PieceRead /\ PieceRead \in 0 .. LineLen - 1 /\ LinesRead \in Nat
  BY <1>1, LinesOf, Zenon DEF LinesRead, PieceRead, BytesUpTo
<1>5. BytesUpTo(LinesRead) \in Nat /\ BytesUpTo(Len(lines)) \in Nat
  BY <1>2, <1>4, BytesGrow, Zenon
<1>6. Number = LinesRead + 1 /\ 1 < LineLen
  BY <1>1 DEF Number, LinesRead
<1> QED BY <1>1, <1>2, <1>3, <1>4, <1>5, <1>6, Zenon

(* The pod sends a line: those it sent stay as they were. *)
LEMMA PodSaysKeeps ==
    ASSUME TcpKept, NEW kind \in LineKinds, PodSays(kind)
    PROVE  TcpKept'
<1> USE DEF TcpKept
<1>1. /\ lines' = Append(lines, kind)
      /\ kind = "more" => kind \in Before[exchange]
      /\ UNCHANGED <<exchange, written, received, used, ended, asked, taken, tcpPc>>
  BY DEF PodSays
<1>2. /\ lines' \in Seq(LineKinds) /\ Len(lines') = Len(lines) + 1
      /\ \A i \in 1 .. Len(lines) : lines'[i] = lines[i]
      /\ lines'[Len(lines) + 1] = kind
  BY <1>1, AppendProperties DEF TcpData
<1>3. TcpData'
  BY <1>1, <1>2 DEF TcpData
<1>4. /\ Len(lines) \in Nat /\ LinesRead \in Nat /\ written \in Nat /\ Len(taken) \in Nat
      /\ RawPart \in Nat /\ BytesUpTo(Len(lines)) \in Nat /\ LineLen \in Nat /\ RawBytes \in Nat
      /\ DOMAIN lines = 1 .. Len(lines) /\ LinesRead <= Len(lines)
  BY NumbersAre DEF BytesAre
<1>5. LinesRead' = LinesRead /\ (AtLineEnd <=> AtLineEnd')
  BY <1>1 DEF LinesRead, AtLineEnd, PieceRead
<1>6. BytesAre'
  <2>1. Len(lines) > 0 => lines'[1] = lines[1] /\ Len(lines') > 0
    BY <1>2, <1>4
  <2>2. RawPart' \in Nat /\ RawPart <= RawPart'
    <3>1. CASE exchange = "raw" /\ Len(lines) > 0 /\ lines[1] = "ok"
      BY <1>1, <1>4, <2>1, <3>1 DEF RawPart
    <3>2. CASE ~(exchange = "raw" /\ Len(lines) > 0 /\ lines[1] = "ok")
      BY <1>4, <3>2 DEF RawPart
    <3> QED BY <3>1, <3>2
  <2>3. BytesUpTo(Len(lines')) = BytesUpTo(Len(lines)) + LineLen
    BY <1>2, <1>4, BytesGrow
  <2>4. written <= BytesUpTo(Len(lines')) + RawPart'
    BY <1>4, <2>2, <2>3 DEF BytesAre
  <2>5. LinesRead <= Len(lines')
    BY <1>2, <1>4
  <2>6. BytesUpTo(Len(lines))' = BytesUpTo(Len(lines'))
    BY DEF BytesUpTo
  <2> QED BY <1>1, <1>5, <2>4, <2>5, <2>6, Zenon DEF BytesAre
<1>7. RawIs'
  <2> SUFFICES ASSUME exchange = "raw"
               PROVE  received <= LineLen /\ (tcpPc = "reading" => used = 0)
                      /\ \A i \in 1 .. Len(lines') : lines'[i] # "more"
    BY <1>1, Zenon DEF RawIs
  <2>1. kind # "more"
    BY <1>1, StagesAre
  <2>2. ASSUME NEW i \in 1 .. Len(lines') PROVE lines'[i] # "more"
    <3>1. i \in 1 .. Len(lines) \/ i = Len(lines) + 1
      BY <1>2, <1>4
    <3> QED BY <1>2, <2>1, <3>1, Zenon DEF RawIs
  <2> QED BY <2>2, Zenon DEF RawIs
<1>8. ReadLines' = ReadLines
  <2>1. DOMAIN lines' = 1 .. Len(lines) + 1
    BY <1>2, LenProperties
  <2>2. \A i \in 1 .. Len(lines) : Counts(i)' <=> Counts(i)
    BY <1>1, <1>2, Zenon DEF Counts
  <2>3. \A i \in DOMAIN lines' : i <= LinesRead => i \in 1 .. Len(lines) /\ i \in DOMAIN lines
    BY <2>1, <1>4
  <2>4. \A i \in DOMAIN lines : i \in DOMAIN lines' /\ i \in 1 .. Len(lines)
    BY <2>1, <1>4
  <2>5. ReadLines' = {i \in DOMAIN lines' : Counts(i)' /\ i <= LinesRead}
    BY <1>5, Zenon DEF ReadLines
  <2>6. ASSUME NEW i PROVE i \in ReadLines' <=> i \in ReadLines
    <3>1. i \in ReadLines' <=> i \in DOMAIN lines' /\ Counts(i)' /\ i <= LinesRead
      BY <2>5, Zenon
    <3>2. i \in ReadLines <=> i \in DOMAIN lines /\ Counts(i) /\ i <= LinesRead
      BY Zenon DEF ReadLines
    <3> QED BY <2>2, <2>3, <2>4, <3>1, <3>2, Zenon
  <2> QED BY <2>6, Zenon
<1>9. TakenAre'
  <2>1. ASSUME NEW i \in 1 .. Len(taken)
        PROVE  taken[i] \in 1 .. Len(lines') /\ lines'[taken[i]] = lines[taken[i]]
    <3>1. taken[i] \in 1 .. Len(lines)
      BY Zenon DEF TakenAre
    <3> QED BY <1>2, <1>4, <3>1
  <2>2. tcpPc = "returned" => lines'[taken[Len(taken)]] = "ok"
    <3> SUFFICES ASSUME tcpPc = "returned" PROVE lines'[taken[Len(taken)]] = "ok"
      OBVIOUS
    <3>1. Len(taken) \in 1 .. Len(taken)
      BY <1>4 DEF TakenAre
    <3> QED BY <2>1, <3>1, Zenon DEF TakenAre
  <2> QED BY <1>1, <1>5, <1>8, <2>1, <2>2, Zenon DEF TakenAre
<1> QED BY <1>3, <1>6, <1>7, <1>9

(* The bytes move, or the call gives up: lines and replies stay as they were.     *)
LEMMA BytesMove ==
    ASSUME TcpKept,
           \/ ConnectionEnds \/ Closed \/ TcpTimesOut
           \/ \E n \in 1 .. MaxLines * LineLen + RawBytes : Arrives(n) \/ Recv(n)
    PROVE  TcpKept'
<1> USE DEF TcpKept
<1>1. UNCHANGED <<exchange, lines, used, asked, taken>>
  BY Zenon DEF ConnectionEnds, Closed, TcpTimesOut, Arrives, Recv
<1>2. tcpPc' = tcpPc \/ tcpPc' = "raised"
  BY Zenon DEF ConnectionEnds, Closed, TcpTimesOut, Arrives, Recv
<1>3. \/ written' = written /\ received' = received
      \/ /\ ~ended /\ received' = received
         /\ written' \in Int /\ written < written' /\ written' <= Len(lines) * LineLen + RawPart
      \/ /\ tcpPc = "reading" /\ written' = written /\ received < used + LineLen
         /\ received' \in Int /\ received < received' /\ received' <= written
         /\ exchange = "raw" => received' <= received + 1
  <2>1. CASE ConnectionEnds \/ Closed \/ TcpTimesOut
    BY <2>1, Zenon DEF ConnectionEnds, Closed, TcpTimesOut
  <2>2. ASSUME NEW n \in 1 .. MaxLines * LineLen + RawBytes, Arrives(n)
        PROVE  /\ ~ended /\ received' = received
               /\ written' \in Int /\ written < written' /\ written' <= Len(lines) * LineLen + RawPart
    <3>1. n \in written + 1 .. Len(lines) * LineLen + RawPart
      BY <2>2, Zenon DEF Arrives
    <3>2. written \in Int /\ Len(lines) * LineLen + RawPart \in Int
      BY NumbersAre, BytesGrow
    <3> QED BY <2>2, <3>1, <3>2 DEF Arrives
  <2>3. ASSUME NEW n \in 1 .. MaxLines * LineLen + RawBytes, Recv(n)
        PROVE  /\ tcpPc = "reading" /\ written' = written /\ received < used + LineLen
               /\ received' \in Int /\ received < received' /\ received' <= written
               /\ exchange = "raw" => received' <= received + 1
    <3>1. n \in received + 1 .. (IF exchange = "raw" THEN received + 1 ELSE written)
      BY <2>3, Zenon DEF Recv
    <3> QED BY <2>3, <3>1, NumbersAre DEF Recv
  <2> QED BY <2>1, <2>2, <2>3, Zenon
<1>4. /\ Len(lines) \in Nat /\ written \in Nat /\ received \in Nat /\ used \in Nat /\ LineLen \in Nat
      /\ RawPart \in Nat /\ BytesUpTo(Len(lines)) \in Nat /\ Len(lines) * LineLen = BytesUpTo(Len(lines))
      /\ received <= written /\ used <= received
  BY NumbersAre, BytesGrow
<1>5. RawPart' = RawPart /\ LinesRead' = LinesRead /\ (AtLineEnd <=> AtLineEnd') /\ ReadLines' = ReadLines
      /\ BytesUpTo(Len(lines))' = BytesUpTo(Len(lines))
  BY <1>1, Zenon DEF RawPart, LinesRead, AtLineEnd, PieceRead, ReadLines, Counts, BytesUpTo
<1>6. written' \in Nat /\ received' \in Nat /\ received' <= written' /\ used <= received'
      /\ written' <= BytesUpTo(Len(lines)) + RawPart
  BY <1>3, <1>4 DEF BytesAre
<1>7. TcpData'
  BY <1>1, <1>2, <1>6, <1>4 DEF TcpData
<1>8. BytesAre'
  <2>1. ended /\ used = received /\ received = written => written' = written /\ received' = received
    BY <1>3, <1>4
  <2>2. ended => ended'
    BY Zenon DEF ConnectionEnds, Closed, TcpTimesOut, Arrives, Recv
  <2> QED BY <1>1, <1>2, <1>5, <1>6, <2>1, <2>2, Zenon DEF BytesAre
<1>9. RawIs'
  <2>1. exchange = "raw" => received' <= LineLen
    BY <1>3, <1>4 DEF RawIs
  <2> QED BY <1>1, <1>2, <2>1, Zenon DEF RawIs
<1>10. TakenAre'
  BY <1>1, <1>2, <1>5, Zenon DEF TakenAre
<1> QED BY <1>7, <1>8, <1>9, <1>10

(* The line to take is one the pod sent, and where reading is after it.           *)
LEMMA TheLine ==
    ASSUME TcpKept, UseLine
    PROVE  /\ AtLineEnd /\ Number = LinesRead + 1 /\ Number \in 1 .. Len(lines)
           /\ \/ HasLine /\ used' \in 0 .. received /\ AtLineEnd' /\ LinesRead' = LinesRead + 1
              \/ /\ ~HasLine /\ ended /\ exchange # "raw" /\ used' = received /\ received = written
                 /\ ~AtLineEnd' /\ LinesRead' = LinesRead
<1> USE DEF TcpKept
<1>1. /\ LineLen \in Nat /\ 1 < LineLen /\ RawPart \in Nat
      /\ written \in Nat /\ received \in Nat /\ used \in Nat /\ received <= written /\ used <= received
      /\ LinesRead \in Nat /\ Number = LinesRead + 1 /\ Len(lines) \in Nat
      /\ used = BytesUpTo(LinesRead) + PieceRead /\ PieceRead \in Nat
      /\ BytesUpTo(LinesRead) \in Nat /\ BytesUpTo(Len(lines)) \in Nat
  BY NumbersAre
<1>2. tcpPc = "reading" /\ CanTake /\ used' = (IF HasLine THEN used + LineLen ELSE received)
  BY Zenon DEF UseLine, TakeLine
<1>3. received > used
  BY <1>1, <1>2 DEF CanTake, HasLine
<1>4. AtLineEnd /\ used = BytesUpTo(LinesRead)
  BY <1>1, <1>2, <1>3 DEF BytesAre, AtLineEnd
<1>5. \A r \in 0 .. LineLen - 1 : /\ (BytesUpTo(LinesRead) + r) \div LineLen = LinesRead
                              /\ (BytesUpTo(LinesRead) + r) % LineLen = r
  <2>1. LineLen \in Nat \ {0} /\ LinesRead \in Nat
    BY <1>1
  <2> QED BY <2>1, LinesOf, Zenon DEF BytesUpTo
<1>6. (BytesUpTo(LinesRead) + LineLen) \div LineLen = LinesRead + 1 /\ (BytesUpTo(LinesRead) + LineLen) % LineLen = 0
  <2>1. BytesUpTo(LinesRead + 1) = BytesUpTo(LinesRead) + LineLen /\ BytesUpTo(LinesRead + 1) \in Nat /\ LinesRead + 1 \in Nat
    BY <1>1, BytesGrow
  <2>2. /\ (LineLen * (LinesRead + 1) + 0) \div LineLen = LinesRead + 1
        /\ (LineLen * (LinesRead + 1) + 0) % LineLen = 0
    <3>1. LineLen \in Nat \ {0} /\ 0 \in 0 .. LineLen - 1
      BY <1>1
    <3> QED BY <2>1, <3>1, LinesOf, Zenon
  <2>3. LineLen * (LinesRead + 1) + 0 = BytesUpTo(LinesRead) + LineLen
    <3>1. BytesUpTo(LinesRead + 1) + 0 = BytesUpTo(LinesRead) + LineLen
      BY <2>1
    <3> QED BY <3>1, Zenon DEF BytesUpTo
  <2> QED BY <2>2, <2>3
<1>7. CASE HasLine
  <2>1. used' = BytesUpTo(LinesRead) + LineLen /\ used + LineLen <= received
    BY <1>1, <1>2, <1>4, <1>7 DEF HasLine
  <2>2. LinesRead' = LinesRead + 1 /\ AtLineEnd'
    BY <1>6, <2>1, Zenon DEF LinesRead, AtLineEnd, PieceRead
  <2>3. LinesRead < Len(lines)
    <3>1. BytesUpTo(LinesRead) + LineLen <= BytesUpTo(Len(lines)) + RawPart
      <4>1. written <= BytesUpTo(Len(lines)) + RawPart
        BY Zenon DEF BytesAre
      <4>2. used = BytesUpTo(LinesRead)
        BY <1>4
      <4> DEFINE sent == BytesUpTo(Len(lines)) + RawPart
      <4>3. written <= sent /\ sent \in Nat
        BY <1>1, <4>1
      <4> HIDE DEF sent, TcpKept
      <4> QED BY <1>1, <2>1, <4>2, <4>3 DEF sent
    <3>2. Len(lines) <= LinesRead => BytesUpTo(Len(lines)) <= BytesUpTo(LinesRead)
      BY <1>1, BytesGrow
    <3>3. CASE exchange # "raw"
      <4>1. RawPart = 0
        BY <3>3 DEF RawPart
      <4> QED BY <1>1, <3>1, <3>2, <4>1
    <3>4. CASE exchange = "raw"
      <4>1. used = 0
        BY <1>2, <3>4 DEF RawIs
      <4>2. 0 < LinesRead => LineLen <= BytesUpTo(LinesRead)
        BY <1>1, BytesGrow
      <4>3. LinesRead = 0
        BY <1>1, <1>4, <4>1, <4>2
      <4>4. Len(lines) = 0 => RawPart = 0 /\ BytesUpTo(Len(lines)) = 0
        BY BytesGrow DEF RawPart
      <4> QED BY <1>1, <3>1, <4>3, <4>4
    <3> QED BY <3>3, <3>4
  <2> QED BY <1>1, <1>4, <1>7, <2>1, <2>2, <2>3
<1>8. CASE ~HasLine
  <2>1. ended /\ received = written /\ exchange # "raw" /\ used' = received
    BY <1>2, <1>8 DEF CanTake, AtEnd
  <2> DEFINE r == received - used
  <2>2. r \in 0 .. LineLen - 1 /\ r # 0 /\ received = BytesUpTo(LinesRead) + r
    <3>1. received < used + LineLen
      BY <1>1, <1>8 DEF HasLine
    <3>2. received \in Int /\ used \in Int /\ LineLen \in Int /\ used = BytesUpTo(LinesRead)
      BY <1>1, <1>4
    <3>3. r \in Int /\ 0 < r /\ r < LineLen /\ received = used + r
      BY <1>3, <3>1, <3>2
    <3> HIDE DEF r
    <3> QED BY <3>2, <3>3
  <2> HIDE DEF r
  <2>3. received \div LineLen = LinesRead /\ received % LineLen # 0
    BY <1>5, <2>2
  <2>4. LinesRead' = LinesRead /\ ~AtLineEnd'
    BY <2>1, <2>3, Zenon DEF LinesRead, AtLineEnd, PieceRead
  <2>5. LinesRead < Len(lines)
    <3>1. RawPart = 0
      BY <2>1 DEF RawPart
    <3>2. Len(lines) <= LinesRead => BytesUpTo(Len(lines)) <= BytesUpTo(LinesRead)
      BY <1>1, BytesGrow
    <3> QED BY <1>1, <1>3, <1>4, <2>1, <3>1, <3>2 DEF BytesAre
  <2> QED BY <1>1, <1>4, <1>8, <2>1, <2>4, <2>5
<1> QED BY <1>7, <1>8

(* A line that is used comes after those used before.                             *)
LEMMA NextTaken ==
    ASSUME TcpKept, tcpPc = "reading", AtLineEnd, Number = LinesRead + 1, Number \in 1 .. Len(lines),
           lines[Number] \in {"ok", "more"}
    PROVE  LET t == Append(taken, Number) IN
           /\ t \in Seq(Nat) /\ Len(t) = Len(taken) + 1 /\ t[Len(t)] = Number
           /\ \A i, j \in 1 .. Len(t) : i < j => t[i] < t[j]
           /\ \A i \in 1 .. Len(t) : t[i] \in 1 .. Len(lines) /\ lines[t[i]] \in {"ok", "more"}
           /\ {t[i] : i \in DOMAIN t} = ReadLines \cup {Number}
<1> USE DEF TcpKept
<1> DEFINE t == Append(taken, Number)
<1>1. taken \in Seq(Nat) /\ Number \in Nat /\ Len(taken) \in Nat /\ LinesRead \in Nat
      /\ DOMAIN taken = 1 .. Len(taken) /\ Len(lines) \in Nat
  BY NumbersAre DEF TcpData
<1>2. /\ t \in Seq(Nat) /\ Len(t) = Len(taken) + 1 /\ DOMAIN t = 1 .. Len(taken) + 1
      /\ \A i \in 1 .. Len(taken) : t[i] = taken[i]
      /\ t[Len(taken) + 1] = Number
  <2>1. /\ t \in Seq(Nat) /\ Len(t) = Len(taken) + 1
        /\ \A i \in 1 .. Len(taken) : t[i] = taken[i]
        /\ t[Len(taken) + 1] = Number
    BY <1>1, AppendProperties
  <2>2. DOMAIN t = 1 .. Len(t)
    BY <2>1, LenProperties
  <2> QED BY <2>1, <2>2
<1> HIDE DEF t
<1>3. {taken[i] : i \in DOMAIN taken} = ReadLines
  BY Zenon DEF TakenAre
<1>4. \A i \in 1 .. Len(taken) : taken[i] \in Nat /\ taken[i] < Number
  <2> SUFFICES ASSUME NEW i \in 1 .. Len(taken) PROVE taken[i] \in Nat /\ taken[i] < Number
    BY Zenon
  <2>1. taken[i] \in {taken[k] : k \in DOMAIN taken}
    BY <1>1, Zenon
  <2>2. taken[i] <= LinesRead /\ taken[i] \in DOMAIN lines
    BY <1>3, <2>1, Zenon DEF ReadLines
  <2>3. taken[i] \in Nat
    BY <1>1, ElementOfSeq
  <2> HIDE DEF TcpKept
  <2> QED BY <1>1, <2>2, <2>3
<1>5. \A i \in 1 .. Len(taken) + 1 : i \in 1 .. Len(taken) \/ i = Len(taken) + 1
  BY <1>1
<1>6. \A i, j \in 1 .. Len(taken) + 1 : i < j => t[i] < t[j]
  <2> SUFFICES ASSUME NEW i \in 1 .. Len(taken) + 1, NEW j \in 1 .. Len(taken) + 1, i < j PROVE t[i] < t[j]
    BY Zenon
  <2>1. i \in 1 .. Len(taken)
    BY <1>1
  <2>2. CASE j \in 1 .. Len(taken)
    BY <1>2, <2>1, <2>2, Zenon DEF TakenAre
  <2>3. CASE j = Len(taken) + 1
    BY <1>2, <1>4, <2>1, <2>3
  <2> QED BY <1>5, <2>2, <2>3
<1>7. \A i \in 1 .. Len(taken) + 1 : t[i] \in 1 .. Len(lines) /\ lines[t[i]] \in {"ok", "more"}
  BY <1>2, <1>5, Zenon DEF TakenAre
<1>8. ASSUME NEW x PROVE x \in {t[i] : i \in DOMAIN t} <=> x \in ReadLines \cup {Number}
  <2>1. ASSUME NEW i \in DOMAIN t PROVE t[i] \in ReadLines \cup {Number}
    <3>1. CASE i \in 1 .. Len(taken)
      BY <1>1, <1>2, <1>3, <3>1, Zenon
    <3> QED BY <1>2, <1>5, <3>1, Zenon
  <2>2. ASSUME NEW y \in ReadLines PROVE \E i \in DOMAIN t : t[i] = y
    <3>1. PICK i \in DOMAIN taken : taken[i] = y
      BY <1>3, <2>2, Zenon
    <3>2. i \in DOMAIN t /\ t[i] = y
      BY <1>1, <1>2, <3>1
    <3> QED BY <3>2, Zenon
  <2>3. Len(taken) + 1 \in DOMAIN t
    BY <1>1, <1>2
  <2> QED BY <1>2, <2>1, <2>2, <2>3, Zenon
<1> QED BY <1>2, <1>6, <1>7, <1>8, Zenon DEF t

(* What is read of a line that is skipped, used or refused.                       *)
LEMMA UseLineKeeps ==
    ASSUME TcpKept, UseLine
    PROVE  TcpKept'
<1> USE DEF TcpKept
<1>1. /\ AtLineEnd /\ Number = LinesRead + 1 /\ Number \in 1 .. Len(lines)
      /\ \/ HasLine /\ used' \in 0 .. received /\ AtLineEnd' /\ LinesRead' = LinesRead + 1
         \/ /\ ~HasLine /\ ended /\ exchange # "raw" /\ used' = received /\ received = written
            /\ ~AtLineEnd' /\ LinesRead' = LinesRead
  BY TheLine
<1>2. tcpPc = "reading" /\ UNCHANGED <<exchange, lines, written, received, ended>>
  BY Zenon DEF UseLine
<1>3. /\ LinesRead \in Nat /\ Len(lines) \in Nat /\ written \in Nat /\ received \in Nat /\ received <= written
      /\ DOMAIN lines = 1 .. Len(lines) /\ Len(taken) \in Nat
  BY NumbersAre
<1>4. \/ LineRead \in Skipped[exchange] /\ UNCHANGED <<asked, taken, tcpPc>>
      \/ LineRead \notin Skipped[exchange] /\ Finish(LineRead)
      \/ tcpPc' = "raised" /\ UNCHANGED <<asked, taken>>
  BY Zenon DEF UseLine, Fails
<1>5. HasLine => LineRead = lines[Number]
  BY DEF LineRead
<1>6. LineRead \in {"ok", "more"} => LineRead = lines[Number]
  BY DEF LineRead
<1>7. Stages[exchange] \in 1 .. 3 /\ asked \in 1 .. Stages[exchange]
  BY StagesAre DEF TcpData
<1>8. RawPart' = RawPart /\ BytesUpTo(Len(lines))' = BytesUpTo(Len(lines))
  BY <1>2, Zenon DEF RawPart, BytesUpTo
<1>9. BytesAre'
  BY <1>1, <1>2, <1>3, <1>8 DEF BytesAre
<1>10. used' \in 0 .. received
  BY <1>1, <1>3
<1>11. ReadLines' = IF HasLine /\ Counts(Number) THEN ReadLines \cup {Number} ELSE ReadLines
  <2>1. ReadLines' = {i \in 1 .. Len(lines) : Counts(i) /\ i <= LinesRead'}
    <3>1. \A i : Counts(i)' <=> Counts(i)
      BY <1>2, Zenon DEF Counts
    <3> QED BY <1>2, <1>3, <3>1, Zenon DEF ReadLines
  <2>2. ReadLines = {i \in 1 .. Len(lines) : Counts(i) /\ i <= LinesRead}
    BY <1>3, Zenon DEF ReadLines
  <2>3. \A i \in 1 .. Len(lines) : i <= LinesRead + 1 <=> i <= LinesRead \/ i = Number
    BY <1>1, <1>3
  <2>4. CASE HasLine
    <3>1. LinesRead' = LinesRead + 1
      BY <1>1, <2>4
    <3> QED BY <1>1, <2>1, <2>2, <2>3, <2>4, <3>1
  <2>5. CASE ~HasLine
    BY <1>1, <2>1, <2>2, <2>5, Zenon
  <2> QED BY <2>4, <2>5
<1>12. exchange = "raw" => HasLine /\ Stages[exchange] = 1 /\ Skipped[exchange] = {} /\ lines[Number] # "more"
  BY <1>1, <1>3, StagesAre DEF RawIs
<1>13. CASE LineRead \in Skipped[exchange] /\ UNCHANGED <<asked, taken, tcpPc>>
  <2>1. TcpData'
    BY <1>2, <1>10, <1>13 DEF TcpData
  <2>2. RawIs'
    BY <1>2, <1>12, <1>13, Zenon DEF RawIs
  <2>3. ReadLines' = ReadLines
    BY <1>5, <1>11, <1>13, Zenon DEF Counts
  <2>4. TakenAre'
    BY <1>1, <1>2, <1>13, <2>3, Zenon DEF TakenAre
  <2> QED BY <1>9, <2>1, <2>2, <2>4
<1>14. CASE tcpPc' = "raised" /\ UNCHANGED <<asked, taken>>
  <2>1. TcpData'
    BY <1>2, <1>10, <1>14 DEF TcpData
  <2>2. RawIs'
    BY <1>2, <1>14 DEF RawIs
  <2>3. TakenAre'
    BY <1>2, <1>14, "raised" # "reading", "raised" # "returned" DEF TakenAre
  <2> QED BY <1>9, <2>1, <2>2, <2>3
<1>15. CASE LineRead \notin Skipped[exchange] /\ Finish(LineRead)
  <2>1. /\ LineRead \in {"ok", "more"} /\ taken' = Append(taken, Number)
        /\ \/ asked' = asked /\ tcpPc' = tcpPc /\ LineRead = "more"
           \/ asked < Stages[exchange] /\ asked' = asked + 1 /\ tcpPc' = tcpPc
           \/ asked' = asked /\ asked >= Stages[exchange] /\ tcpPc' = "returned" /\ LineRead = "ok"
    BY <1>7, <1>15 DEF Finish
  <2>2. LineRead = lines[Number] /\ Counts(Number)
    BY <1>6, <1>15, <2>1, Zenon DEF Counts
  <2>3. /\ taken' \in Seq(Nat) /\ Len(taken') = Len(taken) + 1 /\ taken'[Len(taken')] = Number
        /\ \A i, j \in 1 .. Len(taken') : i < j => taken'[i] < taken'[j]
        /\ \A i \in 1 .. Len(taken') : taken'[i] \in 1 .. Len(lines) /\ lines[taken'[i]] \in {"ok", "more"}
        /\ {taken'[i] : i \in DOMAIN taken'} = ReadLines \cup {Number}
    BY <1>1, <1>2, <2>1, <2>2, NextTaken
  <2>4. tcpPc' = "reading" \/ (tcpPc' = "returned" /\ asked' = Stages[exchange] /\ LineRead = "ok")
    BY <1>2, <1>7, <2>1
  <2>5. asked' \in 1 .. Stages[exchange]
    BY <1>7, <2>1
  <2>6. TcpData'
    BY <1>2, <1>10, <2>3, <2>4, <2>5 DEF TcpData
  <2>7. RawIs'
    <3>1. exchange = "raw" => tcpPc' = "returned"
      BY <1>2, <1>7, <1>12, <2>1, <2>2
    <3> QED BY <1>2, <3>1 DEF RawIs
  <2>8. AtLineEnd' => ReadLines' = ReadLines \cup {Number}
    BY <1>1, <1>11, <2>2, Zenon
  <2>9. ~AtLineEnd' => ReadLines' = ReadLines /\ LinesRead' + 1 = Number
    BY <1>1, <1>11
  <2>10. Len(taken') > 0
    BY <1>3, <2>3
  <2>11. tcpPc' = "reading" /\ AtLineEnd' => {taken'[i] : i \in DOMAIN taken'} = ReadLines'
    BY <2>3, <2>8, Zenon
  <2>12. {taken'[i] : i \in DOMAIN taken'} = ReadLines' \cup (IF AtLineEnd' THEN {} ELSE {LinesRead' + 1})
    <3>1. CASE AtLineEnd'
      BY <2>3, <2>8, <3>1
    <3>2. CASE ~AtLineEnd'
      BY <2>3, <2>9, <3>2
    <3> QED BY <3>1, <3>2
  <2>13. tcpPc' = "returned" => lines[taken'[Len(taken')]] = "ok"
    BY <2>2, <2>3, <2>4
  <2>14. tcpPc' = "returned" => asked' = Stages[exchange]
    BY <2>4
  <2>15. TakenAre'
    BY <1>2, <2>3, <2>10, <2>11, <2>12, <2>13, <2>14, Zenon DEF TakenAre
  <2> QED BY <1>9, <2>6, <2>7, <2>15
<1> QED BY <1>4, <1>13, <1>14, <1>15

-----------------------------------------------------------------------------
LEMMA TcpStarts == TcpInit => TcpFlags /\ TcpKept
<1> SUFFICES ASSUME TcpInit PROVE TcpFlags /\ TcpKept
  OBVIOUS
<1>1. /\ lines = <<>> /\ taken = <<>> /\ Len(lines) = 0 /\ Len(taken) = 0 /\ lines \in Seq(LineKinds)
      /\ taken \in Seq(Nat) /\ DOMAIN lines = {} /\ DOMAIN taken = {}
  BY EmptySeq DEF TcpInit
<1>2. TcpFlags
  BY Zenon DEF TcpInit, TcpFlags
<1>3. Stages[exchange] \in 1 .. 3
  BY StagesAre DEF TcpInit
<1>4. TcpData
  BY <1>1, <1>3 DEF TcpInit, TcpData
<1>5. LinesRead = 0 /\ AtLineEnd
  <2>1. (LineLen * 0 + 0) \div LineLen = 0 /\ (LineLen * 0 + 0) % LineLen = 0
    BY TcpAssumption, LinesOf DEF TcpAssumption
  <2>2. LineLen * 0 + 0 = 0
    BY TcpAssumption DEF TcpAssumption
  <2> QED BY <2>1, <2>2 DEF TcpInit, LinesRead, AtLineEnd, PieceRead
<1>6. BytesAre
  BY <1>1, <1>4, <1>5, NumbersAre DEF TcpInit, BytesAre
<1>7. RawIs
  BY <1>1, TcpAssumption DEF TcpInit, RawIs, TcpAssumption
<1>8. TakenAre
  BY <1>1 DEF TcpInit, TakenAre, ReadLines
<1> QED BY <1>2, <1>4, <1>6, <1>7, <1>8 DEF TcpKept

LEMMA FlagsOfTcp == TcpFlags /\ [TcpNext]_tcpVars => TcpFlags'
BY Zenon DEF TcpFlags, TcpNext, tcpVars, PodSays, Arrives, Recv, ConnectionEnds, UseLine, Closed, TcpTimesOut

LEMMA TcpStep == TcpKept /\ [TcpNext]_tcpVars => TcpKept'
<1> SUFFICES ASSUME TcpKept, [TcpNext]_tcpVars PROVE TcpKept'
  OBVIOUS
<1>1. CASE TcpNext
  BY <1>1, PodSaysKeeps, BytesMove, UseLineKeeps, Zenon DEF TcpNext
<1>2. CASE UNCHANGED tcpVars
  <2>1. UNCHANGED <<exchange, lines, written, received, used, ended, asked, taken, tcpPc>>
    BY <1>2, Zenon DEF tcpVars
  <2>2. UNCHANGED <<RawPart, LinesRead, PieceRead, ReadLines, BytesUpTo(Len(lines))>>
    BY <2>1, Zenon DEF RawPart, LinesRead, PieceRead, ReadLines, Counts, BytesUpTo
  <2>3. TcpData' /\ RawIs'
    BY <2>1 DEF TcpKept, TcpData, RawIs
  <2>4. BytesAre'
    BY <2>1, <2>2, Zenon DEF TcpKept, BytesAre, AtLineEnd
  <2>5. TakenAre'
    BY <2>1, <2>2, Zenon DEF TcpKept, TakenAre, AtLineEnd
  <2> QED BY <2>3, <2>4, <2>5 DEF TcpKept
<1> QED BY <1>1, <1>2

LEMMA TcpIsSafe == TcpFlags /\ TcpKept => TcpInv
<1> SUFFICES ASSUME TcpFlags, TcpKept PROVE TcpInv
  OBVIOUS
<1>1. /\ used % LineLen \in Nat /\ LinesRead \in Nat /\ Number = LinesRead + 1
      /\ DOMAIN lines = 1 .. Len(lines) /\ DOMAIN taken = 1 .. Len(taken)
  BY NumbersAre DEF TcpKept, PieceRead
<1>2. TcpTypeOK
  <2>1. asked \in 1 .. 3
    BY StagesAre DEF TcpKept, TcpData
  <2> QED BY <2>1, Zenon DEF TcpKept, TcpData, TcpFlags, TcpTypeOK
<1>3. WholeReplies
  <2>1. ReadLines = {i \in DOMAIN lines : Counts(i) /\ i <= Number - 1} /\ LinesRead + 1 = Number
    <3>1. Number - 1 = LinesRead
      BY <1>1
    <3> QED BY <1>1, <3>1, Zenon DEF ReadLines
  <2>2. AtLineEnd <=> used % LineLen = 0
    BY DEF AtLineEnd, PieceRead
  <2> QED BY <1>1, <2>1, <2>2, Zenon DEF TcpKept, TakenAre, WholeReplies
<1>4. RawUntouched
  BY Zenon DEF TcpKept, RawIs, RawUntouched
<1> QED BY <1>2, <1>3, <1>4 DEF TcpInv

(* The lines a command takes are those of its own reply, whole, in order and each  *)
(* once, and a raw link gets every byte after the "ready" as it came (tcp.py,      *)
(* protocol.py): whatever the length of a line, how many there are, and how the    *)
(* network cuts the stream.                                                        *)
THEOREM RepliesAreWhole == TcpSpec => []TcpInv
<1>1. TcpInit => TcpFlags /\ TcpKept
  BY TcpStarts
<1>2. TcpFlags /\ [TcpNext]_tcpVars => TcpFlags'
  BY FlagsOfTcp
<1>3. TcpKept /\ [TcpNext]_tcpVars => TcpKept'
  BY TcpStep
<1>4. TcpFlags /\ TcpKept => TcpInv
  BY TcpIsSafe
<1> QED BY <1>1, <1>2, <1>3, <1>4, PTL DEF TcpSpec

-----------------------------------------------------------------------------
(* The SPI flash (spi.py): any sector, page, size and jobs. *)

JobStop == job.at + job.len

SpiFlags == armed \in BOOLEAN /\ inReset \in BOOLEAN
SpiData ==
    /\ before \in {"old", "erased"} /\ cells \in [Cells -> {"old", "erased", "image", "mixed"}] /\ job \in Jobs
    /\ spiPc \in {"call", "open", "id", "erase", "write", "close", "release", "end"}
    /\ erasePos \in job.at .. ChipSize /\ off \in 0 .. job.len - 1 /\ erased \subseteq Sectors(Covered)
    /\ spiResult \in {"running", "programmed", "raised"}
    /\ missed \subseteq {"hold", "open", "close", "release"}

(* Erasing has got as far as the reply of the last step said, ... *)
EraseGoesOn ==
    /\ spiPc \in {"call", "open", "id", "erase"} => off = 0 /\ spiResult = "running"
    /\ spiPc \in {"call", "open", "id"} => erased = {} /\ erasePos = job.at
    /\ spiPc = "erase" => job.erase /\ erasePos < JobStop
    /\ spiPc \in {"erase", "write"} /\ job.erase => Sectors(job.at .. erasePos - 1) \subseteq erased
    /\ spiPc = "write" /\ job.erase => erasePos >= JobStop

(* ... and writing, with verify, has put the image into all cells before off. *)
WriteGoesOn ==
    /\ spiPc = "write" => spiResult = "running"
    /\ spiPc = "write" /\ job.verify => \A c \in job.at .. job.at + off - 1 : cells[c] = "image"

(* Whoever armed the master, or took the reset line, is still to give it back. *)
HeldIs ==
    /\ armed => spiPc \in {"id", "erase", "write", "close"} \/ missed \cap {"open", "close"} # {}
    /\ inReset => job.hold /\ (spiPc \notin {"call", "end"} \/ missed \cap {"hold", "release"} # {})

ErasedStaysSo == \A c \in erased : cells[c] # "old"

SpiKept == SpiData /\ EraseGoesOn /\ WriteGoesOn /\ ImageInPlace /\ NeighboursKept /\ ErasedStaysSo /\ HeldIs

-----------------------------------------------------------------------------
(* The sectors of the chip. *)
LEMMA DivisionIs ==
    ASSUME NEW l \in Nat \ {0}
    PROVE  /\ \A u \in Nat : u = l * (u \div l) + (u % l) /\ u % l \in 0 .. l - 1 /\ u \div l \in Nat
           /\ \A k \in Nat, r \in 0 .. l - 1 : (l * k + r) \div l = k /\ (l * k + r) % l = r
<1>1. ASSUME NEW u \in Nat PROVE u = l * (u \div l) + (u % l) /\ u % l \in 0 .. l - 1 /\ u \div l \in Nat
  BY SMT
<1>2. ASSUME NEW k \in Nat, NEW r \in 0 .. l - 1 PROVE (l * k + r) \div l = k /\ (l * k + r) % l = r
  BY SMT
<1> QED BY <1>1, <1>2, Zenon

FirstOf(k) == Sector * k
SectorNo(c) == c \div Sector
EndOf(c) == FirstOf(SectorNo(c)) + (Sector - 1)

LEMMA StartsGrow ==
    /\ \A k \in Nat : FirstOf(k) \in Nat
    /\ \A k, m \in Nat : k < m => FirstOf(k) + Sector <= FirstOf(m)
<1> USE SpiAssumption DEF SpiAssumption
<1>1. ASSUME NEW k \in Nat PROVE FirstOf(k) \in Nat
  BY SMT DEF FirstOf
<1>2. ASSUME NEW k \in Nat, NEW m \in Nat, k < m PROVE FirstOf(k) + Sector <= FirstOf(m)
  <2>1. m - (k + 1) \in Nat /\ FirstOf(m - (k + 1)) = FirstOf(m) - (FirstOf(k) + Sector)
    BY <1>2, SMT DEF FirstOf
  <2>2. FirstOf(m - (k + 1)) \in Nat /\ FirstOf(m) \in Nat /\ FirstOf(k) \in Nat
    BY <1>1, <2>1
  <2> QED BY <2>1, <2>2
<1> QED BY <1>1, <1>2, Zenon

LEMMA CellIs ==
    /\ Sector \in Nat \ {0} /\ ChipSize \in Nat /\ \E n \in Nat : ChipSize = FirstOf(n)
    /\ \A c \in Nat : SectorNo(c) \in Nat /\ FirstOf(SectorNo(c)) <= c /\ c <= EndOf(c) /\ EndOf(c) \in Nat
    /\ \A k \in Nat, c \in Nat : FirstOf(k) <= c /\ c <= FirstOf(k) + (Sector - 1) => SectorNo(c) = k
<1>1. Sector \in Nat \ {0} /\ ChipSize \in Nat /\ ChipSize % Sector = 0
  BY SpiAssumption DEF SpiAssumption
<1>2. \A u \in Nat : u = Sector * (u \div Sector) + (u % Sector) /\ u % Sector \in 0 .. Sector - 1 /\ u \div Sector \in Nat
  BY <1>1, DivisionIs, Zenon
<1>3. \A k \in Nat, r \in 0 .. Sector - 1 : (Sector * k + r) \div Sector = k
  BY <1>1, DivisionIs, Zenon
<1>4. \E n \in Nat : ChipSize = FirstOf(n)
  <2>1. ChipSize \div Sector \in Nat /\ ChipSize = FirstOf(ChipSize \div Sector) + (ChipSize % Sector)
    BY <1>1, <1>2, Zenon DEF FirstOf
  <2>2. FirstOf(ChipSize \div Sector) \in Nat
    BY <2>1, StartsGrow, Zenon
  <2> QED BY <1>1, <2>1, <2>2
<1>5. ASSUME NEW c \in Nat
      PROVE  SectorNo(c) \in Nat /\ FirstOf(SectorNo(c)) <= c /\ c <= EndOf(c) /\ EndOf(c) \in Nat
  <2>1. SectorNo(c) \in Nat /\ c = FirstOf(SectorNo(c)) + (c % Sector) /\ c % Sector \in 0 .. Sector - 1
    BY <1>2, Zenon DEF FirstOf, SectorNo
  <2>2. FirstOf(SectorNo(c)) \in Nat
    BY <2>1, StartsGrow, Zenon
  <2> QED BY <1>1, <2>1, <2>2 DEF EndOf
<1>6. ASSUME NEW k \in Nat, NEW c \in Nat, FirstOf(k) <= c, c <= FirstOf(k) + (Sector - 1)
      PROVE  SectorNo(c) = k
  <2> DEFINE r == c - FirstOf(k)
  <2>1. FirstOf(k) \in Nat
    BY StartsGrow, Zenon
  <2>2. r \in 0 .. Sector - 1 /\ c = FirstOf(k) + r
    BY <1>1, <1>6, <2>1
  <2> HIDE DEF r
  <2>3. (Sector * k + r) \div Sector = k
    BY <1>3, <2>2, Zenon
  <2> QED BY <2>2, <2>3, Zenon DEF SectorNo, FirstOf
<1> QED BY <1>1, <1>4, <1>5, <1>6, Zenon

LEMMA SectorIs ==
    ASSUME NEW c \in Cells
    PROVE  /\ EndOf(c) \in Cells /\ c <= EndOf(c) /\ SectorNo(EndOf(c)) = SectorNo(c)
           /\ \A b, d \in Cells : b <= c /\ SectorNo(d) = SectorNo(b) => d <= EndOf(c)
           /\ \A d \in Cells : c <= d /\ d <= EndOf(c) => SectorNo(d) = SectorNo(c)
<1>1. PICK n \in Nat : ChipSize = FirstOf(n)
  BY CellIs
<1>2. /\ Sector \in Nat \ {0} /\ Cells \subseteq Nat /\ c \in Nat /\ c < FirstOf(n) /\ SectorNo(c) \in Nat
      /\ FirstOf(SectorNo(c)) \in Nat /\ FirstOf(SectorNo(c)) <= c /\ c <= EndOf(c) /\ EndOf(c) \in Nat
      /\ FirstOf(n) \in Nat
  <2>1. Sector \in Nat \ {0} /\ ChipSize \in Nat
    BY CellIs, Zenon
  <2>2. Cells \subseteq Nat /\ c \in Nat /\ c < ChipSize
    BY <2>1 DEF Cells
  <2>3. /\ SectorNo(c) \in Nat /\ FirstOf(SectorNo(c)) <= c /\ c <= EndOf(c) /\ EndOf(c) \in Nat
    BY <2>2, CellIs, Zenon
  <2>4. FirstOf(SectorNo(c)) \in Nat /\ FirstOf(n) \in Nat
    BY <2>3, StartsGrow, Zenon
  <2> QED BY <1>1, <2>1, <2>2, <2>3, <2>4, Zenon
<1>3. SectorNo(c) < n
  <2> SUFFICES ASSUME ~(SectorNo(c) < n) PROVE FALSE
    OBVIOUS
  <2>1. n = SectorNo(c) \/ n < SectorNo(c)
    BY <1>2
  <2>2. FirstOf(n) <= FirstOf(SectorNo(c))
    <3>1. CASE n = SectorNo(c)
      BY <1>2, <3>1
    <3>2. CASE n < SectorNo(c)
      <4>1. FirstOf(n) + Sector <= FirstOf(SectorNo(c))
        BY <1>2, <3>2, StartsGrow, Zenon
      <4> QED BY <1>2, <4>1
    <3> QED BY <2>1, <3>1, <3>2
  <2> QED BY <1>2, <2>2
<1>4. EndOf(c) \in Cells
  <2>1. FirstOf(SectorNo(c)) + Sector <= FirstOf(n)
    BY <1>2, <1>3, StartsGrow, Zenon
  <2> QED BY <1>1, <1>2, <2>1 DEF EndOf, Cells
<1>5. ASSUME NEW d \in Cells, c <= d, d <= EndOf(c) PROVE SectorNo(d) = SectorNo(c)
  <2>1. d \in Nat /\ FirstOf(SectorNo(c)) <= d /\ d <= FirstOf(SectorNo(c)) + (Sector - 1)
    BY <1>2, <1>5 DEF EndOf
  <2> QED BY <1>2, <2>1, CellIs, Zenon
<1>6. ASSUME NEW b \in Cells, NEW d \in Cells, b <= c, SectorNo(d) = SectorNo(b) PROVE d <= EndOf(c)
  <2>1. /\ b \in Nat /\ d \in Nat /\ SectorNo(b) \in Nat /\ FirstOf(SectorNo(b)) <= b
        /\ FirstOf(SectorNo(b)) \in Nat /\ d <= EndOf(d)
    BY <1>2, CellIs, StartsGrow
  <2>2. EndOf(d) = FirstOf(SectorNo(b)) + (Sector - 1)
    BY <1>6, Zenon DEF EndOf
  <2>3. CASE SectorNo(b) = SectorNo(c)
    BY <2>1, <2>2, <2>3, Zenon DEF EndOf
  <2>4. CASE SectorNo(b) < SectorNo(c)
    <3>1. FirstOf(SectorNo(b)) + Sector <= FirstOf(SectorNo(c))
      BY <1>2, <2>1, <2>4, StartsGrow, Zenon
    <3> QED BY <1>2, <2>1, <2>2, <3>1
  <2>5. CASE SectorNo(c) < SectorNo(b)
    <3>1. FirstOf(SectorNo(c)) + Sector <= FirstOf(SectorNo(b))
      BY <1>2, <2>1, <2>5, StartsGrow, Zenon
    <3>2. FirstOf(SectorNo(c)) + (Sector - 1) >= c
      BY <1>2 DEF EndOf
    <3> QED BY <1>2, <1>6, <2>1, <3>1, <3>2
  <2> QED BY <1>2, <2>1, <2>3, <2>4, <2>5
<1>7. EndOf(c) <= EndOf(c)
  BY <1>2
<1>8. SectorNo(EndOf(c)) = SectorNo(c)
  BY <1>2, <1>4, <1>5, <1>7, Zenon
<1> QED BY <1>2, <1>4, <1>5, <1>6, <1>8, Zenon

(* Erasing from p to q: the sectors these cells lie in, as far as the end of the  *)
(* last one.                                                                      *)
LEMMA InSectors == \A S, d : d \in Sectors(S) <=> d \in Cells /\ \E c \in S : SectorNo(d) = SectorNo(c)
<1> SUFFICES ASSUME NEW S, NEW d PROVE d \in Sectors(S) <=> d \in Cells /\ \E c \in S : SectorNo(d) = SectorNo(c)
  BY Zenon
<1>1. d \in Sectors(S) <=> \E c \in S : d \in SectorOf(c)
  BY Zenon DEF Sectors
<1>2. \A c : d \in SectorOf(c) <=> d \in Cells /\ SectorNo(d) = SectorNo(c)
  BY Zenon DEF SectorOf, SectorNo
<1> QED BY <1>1, <1>2, Zenon

LEMMA MoreSectors == \A S, T : S \subseteq T => Sectors(S) \subseteq Sectors(T)
<1> SUFFICES ASSUME NEW S, NEW T, S \subseteq T, NEW d \in Sectors(S) PROVE d \in Sectors(T)
  BY Zenon
<1>1. PICK c \in S : d \in Cells /\ SectorNo(d) = SectorNo(c)
  BY InSectors, Zenon
<1>2. c \in T
  OBVIOUS
<1> QED BY <1>1, <1>2, InSectors, Zenon

LEMMA LastErased ==
    ASSUME NEW p \in Cells, NEW q \in Cells, p <= q
    PROVE  LET wiped == Sectors(p .. q)
               end == 1 + CHOOSE c \in wiped : \A d \in wiped : d <= c
           IN  /\ Most(p + Cardinality(p .. q), end) = EndOf(q) + 1
               /\ wiped \subseteq Cells /\ (p .. EndOf(q)) \cap Cells \subseteq wiped
<1> DEFINE wiped == Sectors(p .. q)
           max == CHOOSE c \in wiped : \A d \in wiped : d <= c
<1>1. Cells \subseteq Int /\ p .. q \subseteq Cells /\ p \in p .. q /\ q \in p .. q
  BY CellIs DEF Cells
<1>2. EndOf(q) \in wiped /\ \A d \in wiped : d <= EndOf(q)
  <2>1. EndOf(q) \in Cells /\ SectorNo(EndOf(q)) = SectorNo(q)
    BY SectorIs, Zenon
  <2>2. EndOf(q) \in wiped
    BY <1>1, <2>1, InSectors, Zenon
  <2>3. ASSUME NEW d \in wiped PROVE d <= EndOf(q)
    <3>1. PICK b \in p .. q : SectorNo(d) = SectorNo(b)
      BY <2>3, InSectors, Zenon
    <3>2. d \in Cells /\ b \in Cells
      BY <1>1, <2>3, InSectors, Zenon
    <3>3. b <= q
      BY <1>1, <3>2
    <3> QED BY <3>1, <3>2, <3>3, SectorIs, Zenon
  <2> QED BY <2>2, <2>3
<1>3. wiped \subseteq Cells
  BY InSectors, Zenon
<1> HIDE DEF wiped
<1>4. max = EndOf(q)
  <2>1. max \in wiped /\ \A d \in wiped : d <= max
    BY <1>2, Zenon
  <2>2. max <= EndOf(q) /\ EndOf(q) <= max /\ max \in Int /\ EndOf(q) \in Int
    BY <1>1, <1>2, <1>3, <2>1
  <2> HIDE DEF max
  <2> QED BY <2>2
<1>5. Cardinality(p .. q) = q - p + 1
  <2>1. p \in Int /\ q \in Int /\ ~(p > q)
    BY <1>1
  <2> QED BY <2>1, FS_Interval, Zenon
<1>6. Most(p + Cardinality(p .. q), 1 + max) = EndOf(q) + 1
  <2>1. q <= EndOf(q) /\ EndOf(q) \in Cells
    BY SectorIs, Zenon
  <2>2. p \in Int /\ q \in Int /\ EndOf(q) \in Int
    BY <1>1, <2>1
  <2> HIDE DEF max
  <2> QED BY <1>4, <1>5, <2>1, <2>2 DEF Most
<1>7. ASSUME NEW d \in (p .. EndOf(q)) \cap Cells PROVE d \in wiped
  <2>1. d \in Cells /\ d \in Int /\ p <= d /\ d <= EndOf(q) /\ q \in Int /\ p \in Int
    BY <1>1, <1>7
  <2>2. CASE d <= q
    <3>1. d \in p .. q
      BY <2>1, <2>2
    <3> QED BY <2>1, <3>1, InSectors, Zenon DEF wiped
  <2>3. CASE q <= d
    <3>1. SectorNo(d) = SectorNo(q)
      BY <2>1, <2>3, SectorIs, Zenon
    <3> QED BY <1>1, <2>1, <3>1, InSectors, Zenon DEF wiped
  <2> QED BY <2>1, <2>2, <2>3
<1> QED BY <1>3, <1>6, <1>7 DEF wiped

-----------------------------------------------------------------------------
LEMMA JobIs ==
    ASSUME SpiData
    PROVE  /\ job.at \in Nat /\ job.len \in Nat \ {0} /\ JobStop \in Nat /\ JobStop <= ChipSize /\ ChipSize \in Nat
           /\ job.at < JobStop /\ JobStop = job.at + job.len
           /\ \A c : c \in Covered <=> c \in Nat /\ job.at <= c /\ c < JobStop
           /\ \A c : c \in Cells <=> c \in Nat /\ c < ChipSize
           /\ Covered \subseteq Cells /\ Covered \subseteq Sectors(Covered)
           /\ job.erase \in BOOLEAN /\ job.verify \in BOOLEAN /\ job.hold \in BOOLEAN
           /\ EraseStep \in Nat \ {0} /\ SpiChunk \in Nat \ {0}
<1>1. ChipSize \in Nat \ {0} /\ EraseStep \in Nat \ {0} /\ SpiChunk \in Nat \ {0}
  BY SpiAssumption DEF SpiAssumption
<1>2. /\ job.at \in Cells /\ job.len \in 1 .. ChipSize /\ job.at + job.len <= ChipSize
      /\ job.erase \in BOOLEAN /\ job.verify \in BOOLEAN /\ job.hold \in BOOLEAN
  BY DEF SpiData, Jobs
<1>3. /\ job.at \in Nat /\ job.len \in Nat \ {0} /\ JobStop \in Nat /\ JobStop <= ChipSize /\ ChipSize \in Nat
      /\ job.at < JobStop /\ JobStop = job.at + job.len
  BY <1>1, <1>2 DEF Cells, JobStop
<1>4. \A c : c \in Covered <=> c \in Nat /\ job.at <= c /\ c < JobStop
  BY <1>3 DEF Covered, JobStop
<1>5. \A c : c \in Cells <=> c \in Nat /\ c < ChipSize
  BY <1>3 DEF Cells
<1>6. Covered \subseteq Cells
  BY <1>3, <1>4, <1>5
<1>7. Covered \subseteq Sectors(Covered)
  BY <1>6, InSectors, Zenon
<1> QED BY <1>1, <1>2, <1>3, <1>4, <1>5, <1>6, <1>7, Zenon

(* One more step of erasing. *)
LEMMA FlashEraseKeeps ==
    ASSUME SpiKept, NEW did \in BOOLEAN, NEW ok \in BOOLEAN, FlashErase(did, ok), before' = before
    PROVE  SpiKept'
<1> USE DEF SpiKept
<1> DEFINE q == Least(erasePos + EraseStep, job.at + job.len) - 1
           wiped == Sectors(erasePos .. q)
           next == Most(erasePos + Cardinality(erasePos .. q), 1 + CHOOSE c \in wiped : \A d \in wiped : d <= c)
<1>1. /\ spiPc = "erase" /\ (ok => did)
      /\ cells' = IF did THEN [c \in Cells |-> IF c \in wiped THEN "erased" ELSE cells[c]] ELSE cells
      /\ erased' = IF ok THEN erased \cup wiped ELSE erased
      /\ erasePos' = IF ok THEN next ELSE erasePos
      /\ spiPc' = CASE ~ok -> "close" [] ok /\ next < job.at + job.len -> "erase" [] OTHER -> "write"
      /\ spiResult' = IF ok THEN spiResult ELSE "raised"
      /\ UNCHANGED <<armed, inReset, job, off, missed>>
  BY Zenon DEF FlashErase
<1>2. SpiData /\ job.erase /\ erasePos \in Nat /\ job.at <= erasePos /\ erasePos < JobStop
      /\ off = 0 /\ spiResult = "running"
  <2>1. SpiData /\ job.erase /\ erasePos < JobStop /\ off = 0 /\ spiResult = "running"
    BY <1>1 DEF EraseGoesOn
  <2>2. erasePos \in job.at .. ChipSize
    BY <2>1 DEF SpiData
  <2> QED BY <2>1, <2>2, JobIs
<1> HIDE DEF SpiKept
<1>3. q \in Covered /\ erasePos \in Covered /\ erasePos <= q
  BY <1>2, JobIs DEF Least
<1> HIDE DEF q
<1>4. /\ erasePos \in Cells /\ q \in Cells
  BY <1>2, <1>3, JobIs, Zenon
<1>5. next = EndOf(q) + 1 /\ wiped \subseteq Cells /\ (erasePos .. EndOf(q)) \cap Cells \subseteq wiped
  BY <1>3, <1>4, LastErased, Zenon
<1>6. q <= EndOf(q) /\ EndOf(q) \in Cells
  BY <1>4, SectorIs, Zenon
<1> HIDE DEF next
<1>7. next \in job.at .. ChipSize /\ next > erasePos
  BY <1>2, <1>3, <1>5, <1>6, JobIs
<1>8. wiped \subseteq Sectors(Covered)
  <2>1. erasePos .. q \subseteq Covered
    BY <1>2, <1>3, JobIs
  <2> QED BY <2>1, MoreSectors, Zenon
<1>9. Sectors(job.at .. next - 1) \subseteq Sectors(job.at .. erasePos - 1) \cup wiped
  <2>1. ASSUME NEW d \in Sectors(job.at .. next - 1) PROVE d \in Sectors(job.at .. erasePos - 1) \cup wiped
    <3>1. PICK c \in job.at .. next - 1 : d \in Cells /\ SectorNo(d) = SectorNo(c)
      BY <2>1, InSectors, Zenon
    <3>2. CASE c < erasePos
      <4>1. c \in job.at .. erasePos - 1
        BY <1>2, <3>2, JobIs
      <4> QED BY <3>1, <4>1, InSectors, Zenon
    <3>3. CASE erasePos <= c
      <4>1. c \in (erasePos .. EndOf(q)) \cap Cells
        BY <1>2, <1>5, <1>6, <3>3, JobIs
      <4>2. c \in wiped
        BY <1>5, <4>1, Zenon
      <4>3. d \in wiped
        BY <3>1, <4>2, InSectors, Zenon
      <4> QED BY <4>3
    <3>4. c \in Int /\ erasePos \in Int
      BY <1>2, JobIs
    <3> QED BY <3>2, <3>3, <3>4
  <2> QED BY <2>1, Zenon
<1> HIDE DEF wiped
<1>10. cells \in [Cells -> {"old", "erased", "image", "mixed"}]
  BY <1>2 DEF SpiData
<1>11. /\ cells' \in [Cells -> {"old", "erased", "image", "mixed"}]
       /\ \A c \in Cells : c \notin wiped => cells'[c] = cells[c]
       /\ \A c \in Cells : cells'[c] = cells[c] \/ cells'[c] = "erased"
       /\ ok => \A c \in wiped : cells'[c] = "erased"
  <2>1. CASE did
    BY <1>1, <1>5, <1>10, <2>1
  <2>2. CASE ~did
    BY <1>1, <1>10, <2>2
  <2> QED BY <2>1, <2>2
<1>12. /\ Cells' = Cells /\ Covered' = Covered /\ Sectors(Covered)' = Sectors(Covered) /\ JobStop' = JobStop
  BY <1>1, Zenon DEF Cells, Covered, JobStop, Sectors, SectorOf
<1>13. spiPc' \in {"close", "erase", "write"} /\ (spiPc' = "close" <=> ~ok)
       /\ (spiPc' = "erase" => next < JobStop) /\ (spiPc' = "write" => ~(next < JobStop))
  BY <1>1 DEF JobStop
<1>14. missed' = missed /\ missed \subseteq {"hold", "open", "close", "release"}
  BY <1>1, <1>2 DEF SpiData
<1>15. erased' \subseteq Sectors(Covered) /\ erased \subseteq erased'
  BY <1>1, <1>2, <1>8 DEF SpiData
<1>16. SpiData'
  <2>1. erasePos' \in job.at .. ChipSize
    BY <1>1, <1>2, <1>7 DEF SpiData
  <2>2. spiResult' \in {"running", "programmed", "raised"}
    BY <1>1, <1>2
  <2> QED BY <1>1, <1>2, <1>11, <1>12, <1>13, <1>14, <1>15, <2>1, <2>2, Zenon DEF SpiData
<1>17. EraseGoesOn'
  <2>1. ok => Sectors(job.at .. next - 1) \subseteq erased'
    <3>1. Sectors(job.at .. erasePos - 1) \subseteq erased
      BY <1>1, <1>2, Zenon DEF SpiKept, EraseGoesOn
    <3> QED BY <1>1, <1>9, <3>1
  <2>2. ok => Sectors(job.at .. erasePos - 1)' = Sectors(job.at .. next - 1)
    BY <1>1, Zenon DEF Sectors, SectorOf
  <2>3. next \in Nat /\ JobStop \in Nat
    BY <1>2, <1>7, JobIs
  <2> QED BY <1>1, <1>2, <1>12, <1>13, <2>1, <2>2, <2>3 DEF EraseGoesOn
<1>18. WriteGoesOn'
  <2>1. job.at .. job.at + off - 1 = {}
    BY <1>2, JobIs
  <2> QED BY <1>1, <1>2, <1>13, <2>1 DEF WriteGoesOn
<1>19. ImageInPlace'
  BY <1>1, <1>2 DEF ImageInPlace
<1>20. NeighboursKept'
  <2>1. \A c \in Cells \ Sectors(Covered) : cells'[c] = cells[c]
    BY <1>8, <1>11
  <2> QED BY <1>1, <1>2, <1>12, <2>1, Zenon DEF SpiKept, NeighboursKept
<1>21. ErasedStaysSo'
  <2>1. ASSUME NEW c \in erased' PROVE cells'[c] # "old"
    <3>1. CASE c \in erased
      <4>1. cells[c] # "old" /\ c \in Cells
        BY <1>2, <3>1, InSectors DEF SpiKept, ErasedStaysSo, SpiData
      <4> QED BY <1>11, <4>1
    <3>2. CASE c \in wiped /\ ok
      BY <1>11, <3>2
    <3> QED BY <1>1, <2>1, <3>1, <3>2
  <2> QED BY <2>1, Zenon DEF ErasedStaysSo
<1>22. HeldIs'
  BY <1>1, <1>13, <1>14 DEF SpiKept, HeldIs
<1> QED BY <1>16, <1>17, <1>18, <1>19, <1>20, <1>21, <1>22 DEF SpiKept

(* One more chunk is written. *)
LEMMA FlashWriteKeeps ==
    ASSUME SpiKept, NEW did \in BOOLEAN, NEW replied \in BOOLEAN, NEW faulty \in BOOLEAN,
           FlashWrite(did, replied, faulty), before' = before
    PROVE  SpiKept'
<1> USE DEF SpiKept
<1> DEFINE last == Least(job.at + off + SpiChunk, job.at + job.len) - 1
           piece == job.at + off .. last
           after == [c \in Cells |->
                       IF c \notin piece THEN cells[c]
                       ELSE IF cells[c] = "erased" /\ ~faulty THEN "image" ELSE "mixed"]
           good == \A c \in piece : after[c] = "image"
           ok == replied /\ (job.verify => good)
           more == off + SpiChunk < job.len
<1>1. /\ spiPc = "write" /\ (replied => did)
      /\ cells' = IF did THEN after ELSE cells
      /\ off' = IF ok /\ more THEN off + SpiChunk ELSE off
      /\ spiPc' = IF ok /\ more THEN "write" ELSE "close"
      /\ spiResult' = IF ~ok THEN "raised" ELSE IF more THEN spiResult ELSE "programmed"
      /\ UNCHANGED <<armed, inReset, job, erasePos, erased, missed>>
  BY Zenon DEF FlashWrite
<1>2. SpiData /\ off \in 0 .. job.len - 1 /\ spiResult = "running"
      /\ (job.verify => \A c \in job.at .. job.at + off - 1 : cells[c] = "image")
  BY <1>1 DEF SpiData, WriteGoesOn
<1> HIDE DEF SpiKept
<1>3. /\ \A c : c \in piece => c \in Covered /\ c >= job.at + off
      /\ \A c \in Covered : c < job.at + off + SpiChunk => c \in piece \/ c \in job.at .. job.at + off - 1
  BY <1>2, JobIs DEF Least
<1>4. cells \in [Cells -> {"old", "erased", "image", "mixed"}]
  BY <1>2 DEF SpiData
<1> HIDE DEF piece
<1>5. /\ after \in [Cells -> {"old", "erased", "image", "mixed"}]
      /\ \A c \in Cells : c \notin piece => after[c] = cells[c]
      /\ \A c \in Cells : after[c] = "old" => cells[c] = "old"
  BY <1>4
<1> HIDE DEF after
<1>6. /\ cells' \in [Cells -> {"old", "erased", "image", "mixed"}]
      /\ \A c \in Cells : c \notin piece => cells'[c] = cells[c]
      /\ \A c \in Cells : cells'[c] = "old" => cells[c] = "old"
  BY <1>1, <1>4, <1>5, Zenon
<1>7. ok /\ job.verify => \A c \in piece : cells'[c] = "image"
  BY <1>1, Zenon
<1> HIDE DEF good
<1>8. ok /\ job.verify =>
         \A c \in Covered : c < job.at + off + SpiChunk => cells'[c] = "image"
  <2> SUFFICES ASSUME ok, job.verify, NEW c \in Covered, c < job.at + off + SpiChunk
               PROVE  cells'[c] = "image"
    BY Zenon
  <2>1. c \in Cells
    BY <1>2, JobIs, Zenon
  <2>2. CASE c \in piece
    BY <1>7, <2>2, Zenon
  <2>3. CASE c \notin piece
    <3>1. c \in job.at .. job.at + off - 1
      BY <1>3, <2>3, Zenon
    <3>2. cells[c] = "image"
      BY <1>2, <3>1, Zenon
    <3> QED BY <1>6, <2>1, <2>3, <3>2, Zenon
  <2> QED BY <2>2, <2>3
<1> HIDE DEF ok
<1>9. Cells' = Cells /\ Covered' = Covered /\ Sectors(Covered)' = Sectors(Covered) /\ JobStop' = JobStop
      /\ Sectors(job.at .. erasePos - 1)' = Sectors(job.at .. erasePos - 1)
  BY <1>1, Zenon DEF Cells, Covered, JobStop, Sectors, SectorOf
<1>10. missed' = missed /\ missed \subseteq {"hold", "open", "close", "release"}
  BY <1>1, <1>2 DEF SpiData
<1>11. off' \in 0 .. job.len - 1
  BY <1>1, <1>2, JobIs
<1>12. spiResult' \in {"running", "programmed", "raised"} /\ spiPc' \in {"write", "close"}
       /\ (spiPc' = "write" => ok /\ more /\ spiResult' = "running")
       /\ (spiResult' = "programmed" => ok /\ ~more)
  BY <1>1, <1>2
<1>13. SpiData'
  BY <1>1, <1>2, <1>6, <1>9, <1>10, <1>11, <1>12 DEF SpiData
<1>14. EraseGoesOn'
  BY <1>1, <1>2, <1>9, <1>12 DEF SpiKept, EraseGoesOn
<1>15. WriteGoesOn'
  <2>1. ASSUME ok, more, job.verify, NEW c \in job.at .. job.at + (off + SpiChunk) - 1
        PROVE  cells'[c] = "image"
    <3>1. c \in Covered /\ c < job.at + off + SpiChunk
      BY <1>2, <2>1, JobIs
    <3> QED BY <1>8, <2>1, <3>1, Zenon
  <2>2. ok /\ more => off' = off + SpiChunk
    BY <1>1
  <2> QED BY <1>1, <1>12, <2>1, <2>2, Zenon DEF WriteGoesOn
<1>16. ImageInPlace'
  <2> SUFFICES ASSUME spiResult' = "programmed", job.verify, NEW c \in Covered PROVE cells'[c] = "image"
    BY <1>1, <1>9, Zenon DEF ImageInPlace
  <2>1. ok /\ ~more
    BY <1>12
  <2>2. c < job.at + off + SpiChunk
    BY <1>2, <2>1, JobIs
  <2> QED BY <1>8, <2>1, <2>2, Zenon
<1>17. NeighboursKept'
  <2>1. \A c \in Cells : c \notin Covered => cells'[c] = cells[c]
    BY <1>3, <1>6, Zenon
  <2>2. Covered \subseteq Sectors(Covered)
    BY <1>2, JobIs, Zenon
  <2>3. NeighboursKept
    BY DEF SpiKept
  <2>4. \A c \in Cells \ Sectors(Covered) : cells'[c] = before
    BY <2>1, <2>2, <2>3 DEF NeighboursKept
  <2>5. ~job.erase => \A c \in Cells \ Covered : cells'[c] = before
    BY <2>1, <2>3 DEF NeighboursKept
  <2> QED BY <1>1, <1>9, <2>4, <2>5, Zenon DEF NeighboursKept
<1>18. ErasedStaysSo'
  <2>1. erased \subseteq Cells
    BY <1>2, InSectors DEF SpiData
  <2> QED BY <1>1, <1>6, <2>1 DEF SpiKept, ErasedStaysSo
<1>19. HeldIs'
  BY <1>1, <1>10, <1>12 DEF SpiKept, HeldIs
<1> QED BY <1>13, <1>14, <1>15, <1>16, <1>17, <1>18, <1>19 DEF SpiKept

(* The steps around the work, which touch no cell. *)
Around(did, ok) ==
    HoldReset(did, ok) \/ OpenSpi(did, ok) \/ CloseSpi(did, ok) \/ ReleaseReset(did, ok)

LEMMA AroundKeeps ==
    ASSUME SpiKept, before' = before, NEW did \in BOOLEAN, NEW ok \in BOOLEAN,
           Around(did, ok) \/ FlashId(ok)
    PROVE  SpiKept'
<1> USE DEF SpiKept
<1>1. /\ UNCHANGED <<cells, job, erasePos, erased, off>>
      /\ missed' = missed \/ \E c \in {"hold", "open", "close", "release"} : missed' = missed \cup {c}
      /\ spiResult' \in {spiResult, "raised"}
      /\ \/ spiPc' = "open" /\ spiPc = "call" /\ spiResult' = spiResult
         \/ spiPc' = "id" /\ spiPc = "open" /\ spiResult' = spiResult
         \/ spiPc' = "erase" /\ spiPc = "id" /\ spiResult' = spiResult /\ job.erase
         \/ spiPc' = "write" /\ spiPc = "id" /\ spiResult' = spiResult /\ ~job.erase
         \/ spiPc' \in {"close", "release", "end"}
  BY DEF Around, HoldReset, OpenSpi, CloseSpi, ReleaseReset, FlashId, Missed
<1>2. Cells' = Cells /\ Covered' = Covered /\ Sectors(Covered)' = Sectors(Covered) /\ JobStop' = JobStop
      /\ Sectors(job.at .. erasePos - 1)' = Sectors(job.at .. erasePos - 1)
  BY <1>1, Zenon DEF Cells, Covered, JobStop, Sectors, SectorOf
<1>3. SpiData'
  BY <1>1, <1>2 DEF SpiData
<1>4. Sectors(job.at .. job.at - 1) = {} /\ job.at < JobStop /\ job.at .. job.at + 0 - 1 = {}
  <2>1. job.at .. job.at - 1 = {} /\ job.at < JobStop /\ job.at .. job.at + 0 - 1 = {}
    BY JobIs
  <2> QED BY <2>1, InSectors, Zenon
<1>5. EraseGoesOn'
  BY <1>1, <1>2, <1>4 DEF EraseGoesOn
<1>6. WriteGoesOn'
  BY <1>1, <1>4 DEF WriteGoesOn, EraseGoesOn
<1>7. ImageInPlace'
  BY <1>1, <1>2 DEF ImageInPlace
<1>8. NeighboursKept' /\ ErasedStaysSo'
  BY <1>1, <1>2, Zenon DEF NeighboursKept, ErasedStaysSo
<1>9. HeldIs'
  <2>1. CASE HoldReset(did, ok)
    BY <2>1 DEF HoldReset, HeldIs, Missed
  <2>2. CASE OpenSpi(did, ok)
    BY <2>2 DEF OpenSpi, HeldIs, Missed
  <2>3. CASE CloseSpi(did, ok)
    BY <2>3 DEF CloseSpi, HeldIs, Missed
  <2>4. CASE ReleaseReset(did, ok)
    BY <2>4 DEF ReleaseReset, HeldIs, Missed
  <2>5. CASE FlashId(ok)
    BY <2>5 DEF FlashId, HeldIs
  <2> QED BY <2>1, <2>2, <2>3, <2>4, <2>5 DEF Around
<1> QED BY <1>3, <1>5, <1>6, <1>7, <1>8, <1>9

-----------------------------------------------------------------------------
LEMMA SpiStarts == SpiInit => SpiKept /\ SpiFlags
<1> SUFFICES ASSUME SpiInit PROVE SpiKept /\ SpiFlags
  OBVIOUS
<1>1. /\ before \in {"old", "erased"} /\ cells = [c \in Cells |-> before] /\ job \in Jobs
      /\ armed = FALSE /\ inReset = FALSE
      /\ spiPc = "call" /\ erasePos = job.at /\ erased = {} /\ off = 0
      /\ spiResult = "running" /\ missed = {}
  BY DEF SpiInit
<1>2. SpiFlags
  BY <1>1 DEF SpiFlags
<1>3. SpiData
  <2>1. job.at \in Cells /\ job.len \in 1 .. ChipSize /\ ChipSize \in Nat
    BY <1>1, SpiAssumption DEF Jobs, SpiAssumption
  <2>2. erasePos \in job.at .. ChipSize /\ off \in 0 .. job.len - 1
    BY <1>1, <2>1 DEF Cells
  <2> QED BY <1>1, <2>2 DEF SpiData
<1>4. EraseGoesOn /\ WriteGoesOn /\ ImageInPlace
  BY <1>1 DEF EraseGoesOn, WriteGoesOn, ImageInPlace
<1>5. NeighboursKept /\ ErasedStaysSo /\ HeldIs
  BY <1>1 DEF NeighboursKept, ErasedStaysSo, HeldIs
<1> QED BY <1>2, <1>3, <1>4, <1>5 DEF SpiKept

LEMMA FlagsOfSpi == SpiFlags /\ [SpiNext]_spiVars => SpiFlags'
<1> SUFFICES ASSUME SpiFlags, [SpiNext]_spiVars PROVE SpiFlags'
  OBVIOUS
<1> USE DEF SpiFlags
<1>1. ASSUME NEW did \in BOOLEAN, NEW ok \in BOOLEAN,
             HoldReset(did, ok) \/ OpenSpi(did, ok) \/ FlashErase(did, ok) \/ CloseSpi(did, ok) \/ ReleaseReset(did, ok)
      PROVE  SpiFlags'
  BY <1>1, Zenon DEF HoldReset, OpenSpi, FlashErase, CloseSpi, ReleaseReset
<1>2. ASSUME NEW present \in BOOLEAN, FlashId(present) PROVE SpiFlags'
  BY <1>2, Zenon DEF FlashId
<1>3. ASSUME NEW did \in BOOLEAN, NEW replied \in BOOLEAN, NEW faulty \in BOOLEAN, FlashWrite(did, replied, faulty)
      PROVE  SpiFlags'
  BY <1>3, Zenon DEF FlashWrite
<1>4. CASE UNCHANGED spiVars
  BY <1>4, Zenon DEF spiVars
<1> QED BY <1>1, <1>2, <1>3, <1>4, Zenon DEF SpiNext

LEMMA SpiStep == SpiKept /\ [SpiNext]_spiVars => SpiKept'
<1> SUFFICES ASSUME SpiKept, [SpiNext]_spiVars PROVE SpiKept'
  OBVIOUS
<1>1. ASSUME before' = before, NEW did \in BOOLEAN, NEW ok \in BOOLEAN,
             HoldReset(did, ok) \/ OpenSpi(did, ok) \/ FlashErase(did, ok) \/ CloseSpi(did, ok) \/ ReleaseReset(did, ok)
      PROVE  SpiKept'
  BY <1>1, AroundKeeps, FlashEraseKeeps, Zenon DEF Around
<1>2. ASSUME before' = before, NEW present \in BOOLEAN, FlashId(present) PROVE SpiKept'
  BY <1>2, AroundKeeps, Zenon
<1>3. ASSUME before' = before, NEW did \in BOOLEAN, NEW replied \in BOOLEAN, NEW faulty \in BOOLEAN,
             FlashWrite(did, replied, faulty)
      PROVE  SpiKept'
  BY <1>3, FlashWriteKeeps, Zenon
<1>4. CASE UNCHANGED spiVars
  <2>1. UNCHANGED <<before, cells, armed, inReset, job, spiPc, erasePos, erased, off, spiResult, missed>>
    BY <1>4 DEF spiVars
  <2>2. SpiData' /\ EraseGoesOn' /\ WriteGoesOn' /\ ImageInPlace'
    BY <2>1, Zenon DEF SpiKept, SpiData, EraseGoesOn, WriteGoesOn, ImageInPlace, Covered, Cells, Sectors, SectorOf, JobStop
  <2>3. NeighboursKept' /\ ErasedStaysSo' /\ HeldIs'
    BY <2>1, Zenon DEF SpiKept, NeighboursKept, ErasedStaysSo, HeldIs, Covered, Cells, Sectors, SectorOf
  <2> QED BY <2>2, <2>3 DEF SpiKept
<1> QED BY <1>1, <1>2, <1>3, <1>4, Zenon DEF SpiNext

LEMMA SpiIsSafe == SpiKept /\ SpiFlags => SpiInv
<1> SUFFICES ASSUME SpiKept, SpiFlags PROVE SpiInv
  OBVIOUS
<1>1. SpiData /\ ImageInPlace /\ NeighboursKept /\ ErasedStaysSo /\ EraseGoesOn /\ HeldIs
  BY DEF SpiKept
<1>2. erased \subseteq Sectors(Covered) /\ Sectors(Covered) \subseteq Cells
  <2>1. Sectors(Covered) \subseteq Cells
    BY InSectors, Zenon
  <2> QED BY <1>1, <2>1 DEF SpiData
<1>3. SpiTypeOK
  <2>1. erasePos \in 0 .. 2 * ChipSize /\ off \in 0 .. ChipSize
    BY <1>1, JobIs DEF SpiData
  <2> QED BY <1>1, <1>2, <2>1 DEF SpiData, SpiFlags, SpiTypeOK
<1>4. ErasedAsTold
  <2>1. ASSUME spiPc = "write", job.erase PROVE erased = Sectors(Covered)
    <3>1. Sectors(job.at .. erasePos - 1) \subseteq erased /\ erasePos >= JobStop
      BY <1>1, <2>1 DEF EraseGoesOn
    <3>2. Covered \subseteq job.at .. erasePos - 1
      BY <1>1, <3>1, JobIs DEF SpiData
    <3>3. Sectors(Covered) \subseteq Sectors(job.at .. erasePos - 1)
      BY <3>2, MoreSectors, Zenon
    <3> QED BY <1>2, <3>1, <3>3
  <2> QED BY <1>1, <2>1 DEF ErasedAsTold, ErasedStaysSo
<1>5. NothingHeld
  BY <1>1 DEF HeldIs, NothingHeld
<1> QED BY <1>1, <1>3, <1>4, <1>5 DEF SpiInv

(* A verified job that returns has the image in the chip, what lies outside the   *)
(* sectors of the image is untouched, the erased range is the one told, and       *)
(* the SPI master and the reset line are each left taken only by a lost reply to  *)
(* the command that took it or a failure of the one that gives it back (spi.py,   *)
(* spi_flash): for any chip, sector, chunk and job, and whichever commands fail.  *)
THEOREM ImageIsInPlace == SpiSpec => []SpiInv
<1>1. SpiInit => SpiKept /\ SpiFlags
  BY SpiStarts
<1>2. (SpiKept /\ SpiFlags) /\ [SpiNext]_spiVars => (SpiKept /\ SpiFlags)'
  BY SpiStep, FlagsOfSpi, Zenon
<1>3. SpiKept /\ SpiFlags => SpiInv
  BY SpiIsSafe
<1> QED BY <1>1, <1>2, <1>3, PTL DEF SpiSpec

-----------------------------------------------------------------------------
(* The motor emulator (motor_emulator.py): any FIFO, transfer and number of sets. *)

LogWords == Nat \X Nat

MotorFlags == spiArmed \in BOOLEAN
MotorData ==
    /\ gates \in {"blank", "loaded"} /\ pinsHeld \subseteq Pins
    /\ stack \in {"none", "opening", "open", "closing", "closed"} /\ undo \subseteq Pins \cup {"spi"}
    /\ logging \in 0 .. 2 /\ width \in 0 .. 2 /\ sets \in 0 .. MaxSets /\ toRead \in 0 .. FifoWords
    /\ fifo \in Seq(LogWords) /\ Len(fifo) <= FifoWords /\ carried \in Seq(LogWords)
    /\ motorPc \in {"idle", "starting", "reading", "configuring", "stopped"}
    /\ battery \in Models \cup {0} /\ entryOf \in Models \cup {0} /\ model \in Models
    /\ slip \subseteq {"words", "blank", "model"} /\ astray \subseteq Pins \cup {"spi"}

(* What the board and the call under way are to each other. *)
BoardIs ==
    /\ gates = "blank" => logging = 0 /\ fifo = <<>> /\ battery = 0
    /\ motorPc = "configuring" => gates = "blank"
    /\ motorPc = "starting" => logging = 0 /\ fifo = <<>>
    /\ motorPc \in {"configuring", "reading"} => given = <<>>
    /\ motorPc = "reading" => width > 0 /\ (gates = "loaded" => toRead <= Len(fifo))

(* What the host has not returned yet is a stream of sets, and the first of them  *)
(* starts it.                                                                     *)
Clean == slip \cap {"words", "blank"} = {}
Place(i, w) == ((i - 1) % w) + 1
SetNo(i, w) == (i - 1) \div w
Framed(q, w, top) ==
    \A i \in 1 .. Len(q) :
        /\ q[i][2] = Place(i, w) /\ q[i][1] \in 1 .. top
        /\ \A j \in 1 .. Len(q) : /\ SetNo(i, w) = SetNo(j, w) => q[i][1] = q[j][1]
                                  /\ SetNo(i, w) < SetNo(j, w) => q[i][1] < q[j][1]
LogIs ==
    Clean =>
        /\ width = 0 => logging = 0 /\ fifo = <<>> /\ carried = <<>>
        /\ width > 0 => Framed(carried \o fifo, width, sets)
        /\ logging > 0 => logging = width /\ Len(carried \o fifo) % width = 0
        /\ width > 0 /\ motorPc # "configuring" => gates = "loaded"

ChargeIs ==
    /\ motorPc \in {"idle", "starting", "reading"} /\ "model" \notin slip => entryOf = battery

(* What opening took and heard of, closing still has to give back, each after the  *)
(* one before it.                                                                  *)
HeldOfStack ==
    /\ stack = "none" => ~spiArmed /\ undo = {} /\ pinsHeld = {}
    /\ stack \in {"opening", "open"} => "spi" \notin undo
    /\ "DONE" \in undo => {"PROGRAMN", "spi"} \cap undo # {}
    /\ spiArmed => (stack # "closed" /\ "spi" \notin undo) \/ "spi" \in astray
    /\ pinsHeld \subseteq undo \cup astray
    /\ stack = "closed" => /\ "PROGRAMN" \in undo => "spi" \in astray
                           /\ "DONE" \in undo => "PROGRAMN" \in astray

MotorKept == MotorData /\ BoardIs /\ LogIs /\ SetsAreWhole /\ ChargeIs /\ HeldOfStack

-----------------------------------------------------------------------------

(* The words of a stream of sets of one or two words. *)
PlacesOf(w) ==
    /\ \A i \in Nat \ {0} : Place(i, w) \in 1 .. w /\ SetNo(i, w) \in Nat
    /\ \A i \in 1 .. w : Place(i, w) = i /\ SetNo(i, w) = 0
    /\ \A m \in Nat, i \in Nat \ {0} : m % w = 0 =>
          Place(m + i, w) = Place(i, w) /\ SetNo(m + i, w) = (m \div w) + SetNo(i, w)
    /\ \A m \in Nat, i \in Nat \ {0} : m % w = 0 /\ i <= m => SetNo(i, w) < m \div w
    /\ \A m \in Nat, l \in Nat : m % w = 0 /\ l % w = 0 => (m + l) % w = 0 /\ (m <= l => (l - m) % w = 0)
    /\ \A m \in Nat : m \div w \in Nat
    /\ w % w = 0

LEMMA PlacesAre == \A w \in {1, 2} : PlacesOf(w)
<1> SUFFICES ASSUME NEW w \in {1, 2} PROVE PlacesOf(w)
  BY Zenon
<1>1. ASSUME NEW i \in Nat \ {0} PROVE Place(i, w) \in 1 .. w /\ SetNo(i, w) \in Nat
  <2>1. CASE w = 1
    BY <2>1, SMT DEF Place, SetNo
  <2>2. CASE w = 2
    BY <2>2, SMT DEF Place, SetNo
  <2> QED BY <2>1, <2>2
<1>2. ASSUME NEW i \in 1 .. w PROVE Place(i, w) = i /\ SetNo(i, w) = 0
  <2>1. CASE w = 1
    BY <2>1, SMT DEF Place, SetNo
  <2>2. CASE w = 2
    BY <2>2, SMT DEF Place, SetNo
  <2> QED BY <2>1, <2>2
<1>3. ASSUME NEW m \in Nat, NEW i \in Nat \ {0}, m % w = 0
      PROVE  /\ Place(m + i, w) = Place(i, w) /\ SetNo(m + i, w) = (m \div w) + SetNo(i, w)
             /\ i <= m => SetNo(i, w) < m \div w
  <2>1. CASE w = 1
    BY <1>3, <2>1, SMT DEF Place, SetNo
  <2>2. CASE w = 2
    BY <1>3, <2>2, SMT DEF Place, SetNo
  <2> QED BY <2>1, <2>2
<1>4. ASSUME NEW m \in Nat, NEW l \in Nat, m % w = 0, l % w = 0
      PROVE  (m + l) % w = 0 /\ (m <= l => (l - m) % w = 0)
  <2>1. CASE w = 1
    BY <1>4, <2>1, SMT
  <2>2. CASE w = 2
    BY <1>4, <2>2, SMT
  <2> QED BY <2>1, <2>2
<1>5. ASSUME NEW m \in Nat PROVE m \div w \in Nat
  <2>1. CASE w = 1
    BY <2>1, SMT
  <2>2. CASE w = 2
    BY <2>2, SMT
  <2> QED BY <2>1, <2>2
<1>6. w % w = 0
  <2>1. CASE w = 1
    BY <2>1, SMT
  <2>2. CASE w = 2
    BY <2>2, SMT
  <2> QED BY <2>1, <2>2
<1> QED BY <1>1, <1>2, <1>3, <1>4, <1>5, <1>6, Zenon DEF PlacesOf

(* A stream stays one when whole sets are taken off its front, ... *)
FrontTaken(q, r, m) == Len(r) = Len(q) - m /\ \A i \in 1 .. Len(r) : r[i] = q[m + i]

LEMMA SetsTaken ==
    ASSUME NEW w \in {1, 2}, NEW top \in Nat, NEW m \in Nat, NEW q \in Seq(LogWords), NEW r \in Seq(LogWords),
           Framed(q, w, top), FrontTaken(q, r, m), m % w = 0
    PROVE  Framed(r, w, top) /\ (Len(q) % w = 0 => Len(r) % w = 0)
<1>1. Len(q) \in Nat /\ Len(r) \in Nat
  BY LenProperties
<1>a. PlacesOf(w)
  BY PlacesAre, Zenon
<1>2. Len(r) = Len(q) - m /\ \A i \in 1 .. Len(r) : r[i] = q[m + i]
  BY DEF FrontTaken
<1>3. ASSUME NEW i \in 1 .. Len(r)
      PROVE  /\ m + i \in 1 .. Len(q) /\ r[i] = q[m + i]
             /\ Place(m + i, w) = Place(i, w) /\ SetNo(m + i, w) = (m \div w) + SetNo(i, w) /\ SetNo(i, w) \in Nat
  <2>1. m + i \in 1 .. Len(q) /\ i \in Nat \ {0}
    BY <1>1, <1>2
  <2>2. Place(m + i, w) = Place(i, w) /\ SetNo(m + i, w) = (m \div w) + SetNo(i, w) /\ SetNo(i, w) \in Nat
    BY <1>a, <2>1, Zenon DEF PlacesOf
  <2> QED BY <1>2, <2>1, <2>2
<1>4. ASSUME NEW i \in 1 .. Len(r), NEW j \in 1 .. Len(r)
      PROVE  /\ SetNo(m + i, w) = SetNo(m + j, w) <=> SetNo(i, w) = SetNo(j, w)
             /\ SetNo(m + i, w) < SetNo(m + j, w) <=> SetNo(i, w) < SetNo(j, w)
  <2>1. m \div w \in Nat
    BY <1>a, Zenon DEF PlacesOf
  <2> QED BY <1>3, <2>1
<1>5. Framed(r, w, top)
  <2>1. \A i \in 1 .. Len(q) : q[i][2] = Place(i, w) /\ q[i][1] \in 1 .. top
    BY DEF Framed
  <2>2. \A i, j \in 1 .. Len(q) :
           /\ SetNo(i, w) = SetNo(j, w) => q[i][1] = q[j][1]
           /\ SetNo(i, w) < SetNo(j, w) => q[i][1] < q[j][1]
    BY DEF Framed
  <2>3. \A i \in 1 .. Len(r) : r[i][2] = Place(i, w) /\ r[i][1] \in 1 .. top
    BY <1>3, <2>1
  <2>4. ASSUME NEW i \in 1 .. Len(r), NEW j \in 1 .. Len(r)
        PROVE  /\ SetNo(i, w) = SetNo(j, w) => r[i][1] = r[j][1]
               /\ SetNo(i, w) < SetNo(j, w) => r[i][1] < r[j][1]
    <3>1. m + i \in 1 .. Len(q) /\ m + j \in 1 .. Len(q) /\ r[i] = q[m + i] /\ r[j] = q[m + j]
      BY <1>3, Zenon
    <3>2. /\ SetNo(m + i, w) = SetNo(m + j, w) => q[m + i][1] = q[m + j][1]
          /\ SetNo(m + i, w) < SetNo(m + j, w) => q[m + i][1] < q[m + j][1]
      BY <2>2, <3>1, Zenon
    <3> QED BY <1>4, <3>1, <3>2, Zenon
  <2> QED BY <2>3, <2>4 DEF Framed
<1>6. Len(q) % w = 0 => Len(r) % w = 0
  <2>1. CASE Len(r) = 0
    <3>1. CASE w = 1
      BY <2>1, <3>1
    <3>2. CASE w = 2
      BY <2>1, <3>2
    <3> QED BY <3>1, <3>2
  <2>2. CASE Len(r) > 0
    <3>1. m <= Len(q)
      BY <1>1, <1>2, <2>2
    <3> QED BY <1>1, <1>2, <1>a, <3>1, Zenon DEF PlacesOf
  <2> QED BY <1>1, <2>1, <2>2
<1> QED BY <1>5, <1>6

(* ... and when one more is put to its end, if it ends with a set. *)
OneMoreSet(q, r, w, set) ==
    /\ Len(r) = Len(q) + w
    /\ \A i \in 1 .. Len(q) : r[i] = q[i]
    /\ \A i \in 1 .. w : r[Len(q) + i] = <<set, i>>

LEMMA SetLogged ==
    ASSUME NEW w \in {1, 2}, NEW top \in Nat, NEW q \in Seq(LogWords), NEW r \in Seq(LogWords),
           Framed(q, w, top), Len(q) % w = 0, OneMoreSet(q, r, w, top + 1)
    PROVE  Framed(r, w, top + 1) /\ Len(r) % w = 0
<1> DEFINE n == Len(q) \div w
<1>b. Len(q) \in Nat
  BY LenProperties
<1>p. PlacesOf(w)
  BY PlacesAre, Zenon
<1>1. Len(q) \in Nat /\ n \in Nat
  BY <1>b, <1>p, Zenon DEF PlacesOf
<1>a. /\ \A i \in Nat \ {0} : i <= Len(q) => SetNo(i, w) < n /\ SetNo(i, w) \in Nat
      /\ \A i \in 1 .. w : Place(Len(q) + i, w) = i /\ SetNo(Len(q) + i, w) = n
      /\ (Len(q) + w) % w = 0
  <2>1. \A i \in Nat \ {0} : i <= Len(q) => SetNo(i, w) < n /\ SetNo(i, w) \in Nat
    BY <1>1, <1>p, Zenon DEF PlacesOf
  <2>2. ASSUME NEW i \in 1 .. w PROVE Place(Len(q) + i, w) = i /\ SetNo(Len(q) + i, w) = n
    <3>1. i \in Nat \ {0}
      OBVIOUS
    <3>2. Place(i, w) = i /\ SetNo(i, w) = 0
      BY <1>p, Zenon DEF PlacesOf
    <3>3. Place(Len(q) + i, w) = Place(i, w) /\ SetNo(Len(q) + i, w) = n + SetNo(i, w)
      BY <1>1, <1>p, <3>1, Zenon DEF PlacesOf
    <3>4. n + 0 = n
      BY <1>1
    <3> QED BY <3>2, <3>3, <3>4, Zenon
  <2>3. (Len(q) + w) % w = 0
    <3>1. w \in Nat
      OBVIOUS
    <3> QED BY <1>1, <1>p, <3>1, Zenon DEF PlacesOf
  <2> QED BY <2>1, <2>2, <2>3, Zenon
<1> HIDE DEF n
<1>2. Len(r) = Len(q) + w /\ (\A i \in 1 .. Len(q) : r[i] = q[i]) /\ \A i \in 1 .. w : r[Len(q) + i] = <<top + 1, i>>
  BY DEF OneMoreSet
<1>3. ASSUME NEW i \in 1 .. Len(q)
      PROVE  r[i][2] = Place(i, w) /\ r[i][1] \in 1 .. top /\ r[i] = q[i] /\ SetNo(i, w) < n /\ SetNo(i, w) \in Nat
  <2>1. i \in Nat \ {0} /\ i <= Len(q)
    BY <1>1
  <2>2. SetNo(i, w) < n /\ SetNo(i, w) \in Nat
    BY <1>a, <2>1, Zenon
  <2> QED BY <1>2, <2>2, Zenon DEF Framed
<1>4. ASSUME NEW i \in 1 .. Len(r), ~(i <= Len(q))
      PROVE  r[i][2] = Place(i, w) /\ r[i][1] = top + 1 /\ SetNo(i, w) = n
  <2> DEFINE k == i - Len(q)
  <2>1. k \in 1 .. w /\ i = Len(q) + k
    BY <1>1, <1>2, <1>4
  <2> HIDE DEF k
  <2>4. Place(i, w) = k /\ SetNo(i, w) = n
    BY <1>a, <2>1, Zenon
  <2>5. r[i] = <<top + 1, k>>
    BY <1>2, <2>1, Zenon
  <2> QED BY <2>4, <2>5
<1>5. \A i \in 1 .. Len(r) : i <= Len(q) => i \in 1 .. Len(q)
  BY <1>1
<1>6. ASSUME NEW i \in 1 .. Len(r) PROVE r[i][2] = Place(i, w) /\ r[i][1] \in 1 .. top + 1
  <2>1. CASE i <= Len(q)
    BY <1>3, <1>5, <2>1
  <2>2. CASE ~(i <= Len(q))
    BY <1>4, <2>2
  <2> QED BY <2>1, <2>2
<1>7. ASSUME NEW i \in 1 .. Len(r), NEW j \in 1 .. Len(r)
      PROVE  /\ SetNo(i, w) = SetNo(j, w) => r[i][1] = r[j][1]
             /\ SetNo(i, w) < SetNo(j, w) => r[i][1] < r[j][1]
  <2>1. CASE i <= Len(q) /\ j <= Len(q)
    <3>1. i \in 1 .. Len(q) /\ j \in 1 .. Len(q) /\ r[i] = q[i] /\ r[j] = q[j]
      BY <1>3, <1>5, <2>1, Zenon
    <3>2. /\ SetNo(i, w) = SetNo(j, w) => q[i][1] = q[j][1]
          /\ SetNo(i, w) < SetNo(j, w) => q[i][1] < q[j][1]
      BY <3>1, Zenon DEF Framed
    <3> QED BY <3>1, <3>2, Zenon
  <2>2. CASE i <= Len(q) /\ ~(j <= Len(q))
    <3>1. r[i][1] \in 1 .. top /\ SetNo(i, w) < n /\ SetNo(i, w) \in Nat /\ r[j][1] = top + 1 /\ SetNo(j, w) = n
      BY <1>3, <1>4, <1>5, <2>2, Zenon
    <3> QED BY <1>1, <3>1
  <2>3. CASE ~(i <= Len(q)) /\ j <= Len(q)
    <3>1. SetNo(j, w) < n /\ SetNo(j, w) \in Nat /\ SetNo(i, w) = n
      BY <1>3, <1>4, <1>5, <2>3, Zenon
    <3> QED BY <1>1, <3>1
  <2>4. CASE ~(i <= Len(q)) /\ ~(j <= Len(q))
    <3>1. r[j][1] = top + 1 /\ SetNo(j, w) = n /\ r[i][1] = top + 1 /\ SetNo(i, w) = n
      BY <1>4, <2>4, Zenon
    <3> QED BY <1>1, <3>1
  <2> QED BY <2>1, <2>2, <2>3, <2>4
<1>8. Framed(r, w, top + 1)
  BY <1>6, <1>7, Zenon DEF Framed
<1>9. Len(r) % w = 0
  BY <1>2, <1>a, Zenon
<1> QED BY <1>8, <1>9

-----------------------------------------------------------------------------
(* Sequences of words put together, cut and logged. *)
Appended(q, a, b) ==
    /\ q \in Seq(LogWords) /\ Len(q) = Len(a) + Len(b)
    /\ \A i \in 1 .. Len(a) : q[i] = a[i]
    /\ \A i \in 1 .. Len(b) : q[Len(a) + i] = b[i]

LEMMA AppendedIs == \A a, b \in Seq(LogWords) : Appended(a \o b, a, b)
<1> SUFFICES ASSUME NEW a \in Seq(LogWords), NEW b \in Seq(LogWords) PROVE Appended(a \o b, a, b)
  BY Zenon
<1> DEFINE q == a \o b
<1>1. /\ q \in Seq(LogWords) /\ Len(q) = Len(a) + Len(b)
      /\ \A i \in 1 .. Len(a) + Len(b) : q[i] = IF i <= Len(a) THEN a[i] ELSE b[i - Len(a)]
  BY ConcatProperties, Zenon
<1>2. Len(a) \in Nat /\ Len(b) \in Nat
  BY LenProperties
<1> HIDE DEF q
<1>3. \A i \in 1 .. Len(a) : q[i] = a[i]
  BY <1>1, <1>2
<1>4. ASSUME NEW i \in 1 .. Len(b) PROVE q[Len(a) + i] = b[i]
  <2>1. Len(a) + i \in 1 .. Len(a) + Len(b) /\ ~(Len(a) + i <= Len(a)) /\ (Len(a) + i) - Len(a) = i
    BY <1>2
  <2> QED BY <1>1, <2>1
<1>5. Appended(q, a, b)
  BY <1>1, <1>3, <1>4 DEF Appended
<1> QED BY <1>5 DEF q

CutIs(c, m, n) ==
    /\ SubSeq(c, m, n) \in Seq(LogWords)
    /\ Len(SubSeq(c, m, n)) = IF m <= n THEN n - m + 1 ELSE 0
    /\ \A i \in 1 .. n - m + 1 : SubSeq(c, m, n)[i] = c[m + i - 1]

LEMMA AnyCut == \A c \in Seq(LogWords) : \A m \in Nat \ {0}, n \in 0 .. Len(c) : CutIs(c, m, n)
<1> SUFFICES ASSUME NEW c \in Seq(LogWords), NEW m \in Nat \ {0}, NEW n \in 0 .. Len(c) PROVE CutIs(c, m, n)
  BY Zenon
<1>1. Len(c) \in Nat /\ \A i \in 1 .. Len(c) : c[i] \in LogWords
  BY LenProperties, ElementOfSeq
<1>2. m \in Int /\ n \in Int /\ \A i \in m .. n : c[i] \in LogWords
  BY <1>1
<1>3. /\ SubSeq(c, m, n) \in Seq(LogWords)
      /\ Len(SubSeq(c, m, n)) = IF m <= n THEN n - m + 1 ELSE 0
      /\ \A i \in 1 .. n - m + 1 : SubSeq(c, m, n)[i] = c[m + i - 1]
  BY <1>2, SubSeqProperties, SMT
<1> QED BY <1>3 DEF CutIs

LEMMA WordsAre ==
    ASSUME NEW set \in Nat, NEW n \in Nat
    PROVE  /\ Words(set, n) \in Seq(LogWords) /\ Len(Words(set, n)) = n
           /\ \A i \in 1 .. n : Words(set, n)[i] = <<set, i>>
BY DEF Words, LogWords

(* The front of a stream is one, ... *)
FrontFramed(a, b, w, top) == Framed(a \o b, w, top) => Framed(a, w, top)

LEMMA FrontIsFramed == \A a, b \in Seq(LogWords) : \A w, top : FrontFramed(a, b, w, top)
<1> SUFFICES ASSUME NEW a \in Seq(LogWords), NEW b \in Seq(LogWords), NEW w, NEW top, Framed(a \o b, w, top)
             PROVE  Framed(a, w, top)
  BY Zenon DEF FrontFramed
<1> DEFINE q == a \o b
<1>1. Framed(q, w, top) /\ Appended(q, a, b)
  BY AppendedIs, Zenon
<1> HIDE DEF q
<1>2. Len(a) \in Nat /\ Len(b) \in Nat
  BY LenProperties
<1>3. \A i \in 1 .. Len(a) : i \in 1 .. Len(q) /\ q[i] = a[i]
  BY <1>1, <1>2 DEF Appended
<1>4. ASSUME NEW i \in 1 .. Len(a) PROVE a[i][2] = Place(i, w) /\ a[i][1] \in 1 .. top
  BY <1>1, <1>3, Zenon DEF Framed
<1>5. ASSUME NEW i \in 1 .. Len(a), NEW j \in 1 .. Len(a)
      PROVE  /\ SetNo(i, w) = SetNo(j, w) => a[i][1] = a[j][1]
             /\ SetNo(i, w) < SetNo(j, w) => a[i][1] < a[j][1]
  <2>1. /\ SetNo(i, w) = SetNo(j, w) => q[i][1] = q[j][1]
        /\ SetNo(i, w) < SetNo(j, w) => q[i][1] < q[j][1]
    BY <1>1, <1>3, Zenon DEF Framed
  <2> QED BY <1>3, <2>1, Zenon
<1> QED BY <1>4, <1>5, Zenon DEF Framed

(* ... and the sets cut off its front are sets that were logged, in order. *)
CutInSets(g, c, w, n) == n * w <= Len(c) /\ g = [i \in 1 .. n |-> SubSeq(c, (i - 1) * w + 1, i * w)]

LEMMA SetsOut ==
    ASSUME NEW w \in {1, 2}, NEW top \in Nat, NEW c \in Seq(LogWords), Framed(c, w, top),
           NEW n \in Nat, NEW g, CutInSets(g, c, w, n)
    PROVE  /\ \A i \in DOMAIN g : \E s \in 1 .. top : g[i] = Words(s, Len(g[i]))
           /\ \A i, j \in DOMAIN g : i < j => g[i][1][1] < g[j][1][1]
<1>1. Len(c) \in Nat /\ \A i \in 1 .. Len(c) : c[i] \in LogWords
  BY LenProperties, ElementOfSeq
<1>c. n * w <= Len(c) /\ g = [i \in 1 .. n |-> SubSeq(c, (i - 1) * w + 1, i * w)]
  BY DEF CutInSets
<1>2. DOMAIN g = 1 .. n
  BY <1>c
<1>3. ASSUME NEW i \in 1 .. n
      PROVE  \E a \in Nat : /\ a % w = 0 /\ a \div w = i - 1 /\ a + w <= Len(c)
                            /\ g[i] = SubSeq(c, a + 1, a + w)
  <2>1. CASE w = 1
    <3>1. (i - 1) % w = 0 /\ (i - 1) \div w = i - 1 /\ (i - 1) + w <= Len(c) /\ i - 1 \in Nat
      BY <1>1, <1>c, <2>1
    <3>2. g[i] = SubSeq(c, (i - 1) + 1, (i - 1) + w)
      BY <1>c, <2>1
    <3> QED BY <3>1, <3>2
  <2>2. CASE w = 2
    <3> DEFINE a == (i - 1) * 2
    <3>1. a % w = 0 /\ a \div w = i - 1 /\ a + w <= Len(c) /\ a \in Nat /\ i * w = a + w
      BY <1>1, <1>c, <2>2
    <3>2. g[i] = SubSeq(c, a + 1, a + w)
      BY <1>c, <2>2, <3>1
    <3> HIDE DEF a
    <3> QED BY <3>1, <3>2
  <2> QED BY <2>1, <2>2
<1>p. PlacesOf(w)
  BY PlacesAre, Zenon
<1>4. ASSUME NEW i \in 1 .. n
      PROVE  \E s \in 1 .. top : /\ g[i] = Words(s, Len(g[i]))
                                 /\ g[i][1][1] = s
                                 /\ \E k \in 1 .. Len(c) : c[k][1] = s /\ SetNo(k, w) = i - 1
  <2>1. PICK a \in Nat : /\ a % w = 0 /\ a \div w = i - 1 /\ a + w <= Len(c)
                         /\ g[i] = SubSeq(c, a + 1, a + w)
    BY <1>3, Zenon
  <2>2. CutIs(c, a + 1, a + w)
    <3>1. a + 1 \in Nat \ {0} /\ a + w \in 0 .. Len(c)
      BY <1>1, <2>1
    <3> QED BY <3>1, AnyCut, Zenon
  <2> DEFINE h == g[i]
             s == c[a + 1][1]
  <2>3. h \in Seq(LogWords) /\ Len(h) = w /\ \A k \in 1 .. w : h[k] = c[a + k]
    <3>1. /\ h \in Seq(LogWords) /\ Len(h) = IF a + 1 <= a + w THEN (a + w) - (a + 1) + 1 ELSE 0
          /\ \A k \in 1 .. (a + w) - (a + 1) + 1 : h[k] = c[(a + 1) + k - 1]
      BY <2>1, <2>2, Zenon DEF CutIs
    <3> HIDE DEF h
    <3>2. a + 1 <= a + w /\ (a + w) - (a + 1) + 1 = w
      OBVIOUS
    <3>3. \A k \in 1 .. w : (a + 1) + k - 1 = a + k
      OBVIOUS
    <3> QED BY <3>1, <3>2, <3>3
  <2> HIDE DEF h
  <2>4. ASSUME NEW k \in 1 .. w PROVE c[a + k] = <<s, k>> /\ SetNo(a + k, w) = i - 1 /\ a + k \in 1 .. Len(c)
    <3>1. k \in Nat \ {0} /\ 1 \in 1 .. w /\ 1 \in Nat \ {0} /\ a + k \in 1 .. Len(c) /\ a + 1 \in 1 .. Len(c)
      BY <1>1, <2>1
    <3>a. \A l \in 1 .. w : Place(l, w) = l /\ SetNo(l, w) = 0
      BY <1>p, Zenon DEF PlacesOf
    <3>b. \A l \in Nat \ {0} : Place(a + l, w) = Place(l, w) /\ SetNo(a + l, w) = (a \div w) + SetNo(l, w)
      BY <1>p, <2>1, Zenon DEF PlacesOf
    <3>2. Place(a + k, w) = k /\ SetNo(a + k, w) = (i - 1) + 0
      <4>1. Place(k, w) = k /\ SetNo(k, w) = 0
        BY <3>a, Zenon
      <4>2. Place(a + k, w) = Place(k, w) /\ SetNo(a + k, w) = (a \div w) + SetNo(k, w)
        BY <3>1, <3>b, Zenon
      <4> QED BY <2>1, <4>1, <4>2, Zenon
    <3>3. SetNo(a + 1, w) = (i - 1) + 0
      <4>1. SetNo(1, w) = 0
        BY <3>1, <3>a, Zenon
      <4>2. SetNo(a + 1, w) = (a \div w) + SetNo(1, w)
        BY <3>1, <3>b, Zenon
      <4> QED BY <2>1, <4>1, <4>2, Zenon
    <3>4. c[a + k][2] = k /\ c[a + k][1] = s
      BY <3>1, <3>2, <3>3, Zenon DEF Framed
    <3>5. c[a + k] \in LogWords
      BY <1>1, <3>1, Zenon
    <3> HIDE DEF s
    <3>6. c[a + k] = <<s, k>>
      BY <3>4, <3>5 DEF LogWords
    <3>7. (i - 1) + 0 = i - 1
      OBVIOUS
    <3> QED BY <3>1, <3>2, <3>6, <3>7, Zenon
  <2>5. a + 1 \in 1 .. Len(c) /\ s \in 1 .. top /\ SetNo(a + 1, w) = i - 1
    <3>1. 1 \in 1 .. w
      OBVIOUS
    <3>2. a + 1 \in 1 .. Len(c) /\ SetNo(a + 1, w) = i - 1
      BY <2>4, <3>1, Zenon
    <3> QED BY <3>2, Zenon DEF Framed
  <2>6. c[a + 1][1] = s
    OBVIOUS
  <2> HIDE DEF s
  <2>7. h = Words(s, w)
    <3>1. /\ Words(s, w) \in Seq(LogWords) /\ Len(Words(s, w)) = w
          /\ \A k \in 1 .. w : Words(s, w)[k] = <<s, k>>
      <4>1. s \in Nat /\ w \in Nat
        BY <2>5
      <4> QED BY <4>1, WordsAre, Zenon
    <3>2. \A k \in 1 .. w : h[k] = Words(s, w)[k]
      BY <2>3, <2>4, <3>1, Zenon
    <3> QED BY <2>3, <3>1, <3>2, SeqEqual
  <2>8. h[1][1] = s
    <3>1. 1 \in 1 .. w
      OBVIOUS
    <3> QED BY <2>3, <2>6, <3>1, Zenon
  <2> QED BY <2>3, <2>5, <2>6, <2>7, <2>8 DEF h
<1>5. ASSUME NEW i \in 1 .. n, NEW j \in 1 .. n, i < j PROVE g[i][1][1] < g[j][1][1]
  <2>1. PICK k \in 1 .. Len(c) : c[k][1] = g[i][1][1] /\ SetNo(k, w) = i - 1
    BY <1>4, Zenon
  <2>2. PICK l \in 1 .. Len(c) : c[l][1] = g[j][1][1] /\ SetNo(l, w) = j - 1
    BY <1>4, Zenon
  <2>3. SetNo(k, w) < SetNo(l, w)
    BY <1>5, <2>1, <2>2
  <2> QED BY <2>1, <2>2, <2>3, Zenon DEF Framed
<1> QED BY <1>2, <1>4, <1>5, Zenon

-----------------------------------------------------------------------------
(* What the log is made of. *)
LEMMA LogIsTyped ==
    ASSUME MotorData
    PROVE  /\ carried \in Seq(LogWords) /\ fifo \in Seq(LogWords) /\ Len(carried) \in Nat /\ Len(fifo) \in Nat
           /\ FifoWords \in Nat \ {0} /\ ReadWords \in Nat \ {0} /\ MaxSets \in Nat /\ sets \in Nat /\ toRead \in Nat
           /\ width \in 0 .. 2 /\ logging \in 0 .. 2 /\ (width > 0 => width \in {1, 2})
BY MotorAssumption, LenProperties DEF MotorAssumption, MotorData

(* Opening and closing: the pins and the SPI master. *)
LEMMA StackKeeps ==
    ASSUME MotorKept, NEW did \in BOOLEAN, NEW ok \in BOOLEAN,
           \/ OpenStack(did, ok) \/ TakePin(did, ok) \/ StopSpi(did, ok) \/ ReleasePins(did, ok)
           \/ CloseStack
    PROVE  MotorKept'
<1>1. MotorData /\ BoardIs /\ LogIs /\ SetsAreWhole /\ ChargeIs /\ HeldOfStack
  BY DEF MotorKept
<1>2. /\ UNCHANGED <<gates, logging, fifo, sets, width, carried, toRead, given, motorPc, battery, model, entryOf>>
      /\ slip' = slip
  BY DEF OpenStack, TakePin, StopSpi, ReleasePins, CloseStack, logVars, batteryVars
<1>3. Clean' = Clean /\ ("model" \in slip' <=> "model" \in slip)
  BY <1>2 DEF Clean
<1>4. /\ pinsHeld' \subseteq Pins /\ undo' \subseteq Pins \cup {"spi"} /\ astray' \subseteq Pins \cup {"spi"}
      /\ stack' \in {"none", "opening", "open", "closing", "closed"}
  <2> USE <1>1 DEF MotorData
  <2>1. CASE OpenStack(did, ok) \/ CloseStack
    BY <2>1 DEF OpenStack, CloseStack, Strays
  <2>2. CASE TakePin(did, ok)
    BY <2>2 DEF TakePin, Pins, Strays
  <2>3. CASE StopSpi(did, ok)
    BY <2>3 DEF StopSpi, Strays
  <2>4. CASE ReleasePins(did, ok)
    BY <2>4 DEF ReleasePins, Pins, Strays
  <2> QED BY <2>1, <2>2, <2>3, <2>4
<1>5. MotorData'
  <2>1. slip' \subseteq {"words", "blank", "model"}
    BY <1>1, <1>2 DEF MotorData
  <2> QED BY <1>1, <1>2, <1>4, <2>1, Zenon DEF MotorData
<1>6. BoardIs' /\ ChargeIs'
  BY <1>1, <1>2, <1>3, Zenon DEF BoardIs, ChargeIs
<1>7. LogIs' /\ SetsAreWhole'
  <2>1. slip' \cap {"words", "blank"} = slip \cap {"words", "blank"}
    BY <1>2
  <2>2. LogIs'
    BY <1>1, <1>2, <1>3, Zenon DEF LogIs
  <2>3. SetsAreWhole'
    BY <1>1, <1>2, <2>1, Zenon DEF SetsAreWhole
  <2> QED BY <2>2, <2>3
<1>8. HeldOfStack'
  <2> USE <1>1 DEF HeldOfStack
  <2>1. CASE OpenStack(did, ok)
    BY <2>1 DEF OpenStack, Strays
  <2>2. CASE TakePin(did, ok)
    BY <2>2 DEF TakePin, Strays
  <2>3. CASE StopSpi(did, ok)
    <3>1. stack = "closing" /\ "spi" \notin undo /\ pinsHeld' = pinsHeld
      BY <2>3 DEF StopSpi
    <3>2. undo \subseteq {"PROGRAMN", "DONE", "spi"} /\ ("DONE" \in undo => "PROGRAMN" \in undo)
      BY <1>1, <3>1 DEF MotorData, Pins
    <3>3. CASE ok
      <4>1. ~spiArmed' /\ undo' = undo \cup {"spi"} /\ stack' = stack /\ astray' = astray
        BY <2>3, <3>3 DEF StopSpi, Strays
      <4> QED BY <3>1, <3>2, <4>1
    <3>4. CASE ~ok
      <4>1. /\ astray' = astray \cup {"spi"}
            /\ \/ undo # Pins /\ stack' = "closed" /\ undo' = undo
               \/ undo' = undo \cup {"spi"} /\ stack' = stack
        BY <2>3, <3>4 DEF StopSpi, Strays
      <4>2. CASE undo # Pins /\ stack' = "closed" /\ undo' = undo
        <5>1. "DONE" \notin undo
          BY <3>1, <3>2, <4>2 DEF Pins
        <5> QED BY <3>1, <3>2, <4>1, <4>2, <5>1
      <4>3. CASE undo' = undo \cup {"spi"} /\ stack' = stack
        BY <3>1, <3>2, <4>1, <4>3
      <4> QED BY <4>1, <4>2, <4>3
    <3> QED BY <3>3, <3>4
  <2>4. CASE ReleasePins(did, ok)
    BY <2>4, <1>1 DEF ReleasePins, Strays, Pins, MotorData
  <2>5. CASE CloseStack
    BY <2>5 DEF CloseStack
  <2> QED BY <2>1, <2>2, <2>3, <2>4, <2>5
<1> QED BY <1>5, <1>6, <1>7, <1>8 DEF MotorKept

(* The calls on an open stack leave what it holds alone. *)
LEMMA HeldStays ==
    ASSUME HeldOfStack, UNCHANGED podSide
    PROVE  HeldOfStack'
BY Zenon DEF HeldOfStack, podSide

(* Without the FIFO the log is still one. *)
LEMMA RestIsFramed ==
    ASSUME MotorData, LogIs, Clean, width > 0
    PROVE  Framed(carried \o <<>>, width, sets)
<1>1. Framed(carried \o fifo, width, sets)
  BY DEF LogIs
<1>2. carried \o <<>> = carried
  BY LogIsTyped, ConcatEmptySeq
<1>3. FrontFramed(carried, fifo, width, sets)
  BY LogIsTyped, FrontIsFramed, Zenon
<1>4. Framed(carried, width, sets)
  BY <1>1, <1>3, Zenon DEF FrontFramed
<1> QED BY <1>2, <1>4

(* Configuring. *)
LEMMA ConfigureKeeps ==
    ASSUME MotorKept, NEW loaded \in BOOLEAN, NEW ok \in BOOLEAN, ConfigureMotor \/ Configured(loaded, ok)
    PROVE  MotorKept'
<1>1. MotorData /\ BoardIs /\ LogIs /\ SetsAreWhole /\ ChargeIs /\ HeldOfStack
  BY DEF MotorKept
<1>2. CASE ConfigureMotor
  <2>1. /\ gates' = "blank" /\ logging' = 0 /\ fifo' = <<>> /\ battery' = 0 /\ given' = <<>>
        /\ motorPc' = "configuring"
        /\ UNCHANGED <<podSide, sets, width, carried, toRead, model, entryOf, slip>>
    BY <1>2 DEF ConfigureMotor, Wiped
  <2>2. UNCHANGED <<pinsHeld, stack, undo, astray>>
    BY <2>1, Zenon DEF podSide
  <2>3. MotorData'
    <3>1. Len(<<>>) <= FifoWords /\ <<>> \in Seq(LogWords)
      BY <1>1, LogIsTyped
    <3> QED BY <1>1, <2>1, <2>2, <3>1 DEF MotorData
  <2>4. BoardIs' /\ ChargeIs' /\ SetsAreWhole'
    BY <2>1 DEF BoardIs, ChargeIs, SetsAreWhole
  <2>5. LogIs'
    <3>1. Clean' = Clean
      BY <2>1 DEF Clean
    <3>2. ASSUME Clean, width > 0 PROVE Framed(carried \o <<>>, width, sets)
      BY <1>1, <3>2, RestIsFramed, Zenon
    <3> QED BY <1>1, <2>1, <3>1, <3>2 DEF LogIs
  <2>6. HeldOfStack'
    BY <1>1, <2>1, HeldStays
  <2> QED BY <2>3, <2>4, <2>5, <2>6 DEF MotorKept
<1>3. CASE Configured(loaded, ok)
  <2>1. /\ motorPc = "configuring" /\ motorPc' = "idle" /\ (ok => loaded)
        /\ gates' = IF loaded THEN "loaded" ELSE "blank"
        /\ UNCHANGED <<podSide, logging, fifo, sets, toRead, given, battery, model>>
        /\ \/ /\ ok /\ width' = 0 /\ carried' = <<>> /\ entryOf' = 0
              /\ slip' = slip \ {"words", "blank", "model"}
           \/ slip' = slip \cup {"blank", "model"} /\ UNCHANGED <<width, carried, entryOf>>
    BY <1>3, Zenon DEF Configured
  <2>2. UNCHANGED <<pinsHeld, stack, undo, astray>>
    BY <2>1, Zenon DEF podSide
  <2>3. logging = 0 /\ fifo = <<>> /\ battery = 0 /\ given = <<>>
    BY <1>1, <2>1 DEF BoardIs
  <2>4. MotorData'
    <3>1. <<>> \in Seq(LogWords)
      OBVIOUS
    <3>2. carried' \in Seq(LogWords) /\ width' \in 0 .. 2 /\ entryOf' \in Models \cup {0}
      <4>1. CASE carried' = <<>> /\ width' = 0 /\ entryOf' = 0
        BY <3>1, <4>1
      <4>2. CASE UNCHANGED <<width, carried, entryOf>>
        BY <1>1, <4>2 DEF MotorData
      <4> QED BY <2>1, <4>1, <4>2
    <3>3. slip' \subseteq {"words", "blank", "model"}
      BY <1>1, <2>1 DEF MotorData
    <3> QED BY <1>1, <2>1, <2>2, <3>2, <3>3 DEF MotorData
  <2>5. BoardIs' /\ ChargeIs' /\ SetsAreWhole'
    BY <1>1, <2>1, <2>3 DEF BoardIs, ChargeIs, SetsAreWhole
  <2>6. LogIs'
    BY <2>1, <2>3 DEF LogIs, Clean
  <2>7. HeldOfStack'
    BY <1>1, <2>1, HeldStays
  <2> QED BY <2>4, <2>5, <2>6, <2>7 DEF MotorKept
<1> QED BY <1>2, <1>3

-----------------------------------------------------------------------------
(* The gateware logs a set. *)
LEMMA LaterSets ==
    ASSUME NEW top \in Nat
    PROVE  \A q, w : Framed(q, w, top) => Framed(q, w, top + 1)
<1>1. \A s : s \in 1 .. top => s \in 1 .. top + 1
  OBVIOUS
<1> QED BY <1>1, Zenon DEF Framed

LEMMA LogSetKeeps ==
    ASSUME MotorKept, LogSet
    PROVE  MotorKept'
<1>1. MotorData /\ BoardIs /\ LogIs /\ SetsAreWhole /\ ChargeIs /\ HeldOfStack
  BY DEF MotorKept
<1>2. /\ logging > 0 /\ sets < MaxSets /\ sets' = sets + 1
      /\ fifo' = IF Len(fifo) + logging <= FifoWords THEN fifo \o Words(sets + 1, logging) ELSE fifo
      /\ UNCHANGED <<gates, podSide, logging, width, carried, toRead, given, motorPc, battery, model, entryOf, slip>>
  BY DEF LogSet, batteryVars
<1>3. UNCHANGED <<pinsHeld, stack, undo, astray>>
  BY <1>2, Zenon DEF podSide
<1>4. /\ Len(fifo) \in Nat /\ fifo \in Seq(LogWords) /\ carried \in Seq(LogWords) /\ FifoWords \in Nat
      /\ sets \in Nat /\ MaxSets \in Nat /\ logging \in 1 .. 2
  BY <1>1, <1>2, LogIsTyped
<1> DEFINE set == Words(sets + 1, logging)
<1>5. set \in Seq(LogWords) /\ Len(set) = logging /\ \A i \in 1 .. logging : set[i] = <<sets + 1, i>>
  <2>1. sets + 1 \in Nat /\ logging \in Nat
    BY <1>4
  <2> QED BY <2>1, WordsAre, Zenon
<1> HIDE DEF set
<1>6. Appended(fifo \o set, fifo, set)
  BY <1>4, <1>5, AppendedIs, Zenon
<1>7. ASSUME Len(fifo) + logging <= FifoWords
      PROVE  fifo' \in Seq(LogWords) /\ Len(fifo) <= Len(fifo') /\ Len(fifo') <= FifoWords /\ Len(fifo') \in Nat /\ LogIs'
  <2>1. fifo' = fifo \o set
    BY <1>2, <1>7 DEF set
  <2>2. /\ fifo' \in Seq(LogWords) /\ Len(fifo') = Len(fifo) + logging
        /\ \A i \in 1 .. Len(fifo) : fifo'[i] = fifo[i]
        /\ \A i \in 1 .. Len(set) : fifo'[Len(fifo) + i] = set[i]
    BY <1>5, <1>6, <2>1, Zenon DEF Appended
  <2>5. LogIs'
    <3> SUFFICES ASSUME Clean
                 PROVE  /\ width > 0 /\ logging = width /\ (motorPc # "configuring" => gates = "loaded")
                        /\ Framed(carried \o fifo', width, sets + 1) /\ Len(carried \o fifo') % width = 0
      <4>1. width' = width /\ logging' = logging /\ sets' = sets + 1 /\ Clean' = Clean
            /\ motorPc' = motorPc /\ gates' = gates /\ carried' = carried
        BY <1>2 DEF Clean
      <4> QED BY <4>1 DEF LogIs
    <3>1. /\ width \in {1, 2} /\ logging = width /\ (motorPc # "configuring" => gates = "loaded")
          /\ Framed(carried \o fifo, width, sets) /\ Len(carried \o fifo) % width = 0 /\ width > 0
      BY <1>1, <1>2, <1>4 DEF LogIs
    <3> DEFINE q == carried \o fifo
               r == carried \o fifo'
    <3>2. Appended(q, carried, fifo) /\ Appended(r, carried, fifo')
      BY <1>4, <2>2, AppendedIs, Zenon
    <3>3. Framed(q, width, sets) /\ Len(q) % width = 0
      BY <3>1
    <3> HIDE DEF q, r
    <3>4. Len(carried) \in Nat
      BY <1>4, LenProperties
    <3>5. OneMoreSet(q, r, width, sets + 1)
      <4>1. Len(q) = Len(carried) + Len(fifo) /\ Len(r) = Len(q) + width
        BY <1>4, <2>2, <3>1, <3>2, <3>4 DEF Appended
      <4>2. ASSUME NEW i \in 1 .. Len(q) PROVE r[i] = q[i]
        <5>1. CASE i <= Len(carried)
          <6>1. i \in 1 .. Len(carried)
            BY <3>4, <5>1
          <6> QED BY <3>2, <6>1, Zenon DEF Appended
        <5>2. CASE ~(i <= Len(carried))
          <6> DEFINE k == i - Len(carried)
          <6>1. k \in 1 .. Len(fifo) /\ k \in 1 .. Len(fifo') /\ i = Len(carried) + k
            BY <1>4, <2>2, <3>1, <3>4, <4>1, <5>2
          <6> HIDE DEF k
          <6>2. q[i] = fifo[k] /\ r[i] = fifo'[k] /\ fifo'[k] = fifo[k]
            BY <2>2, <3>2, <6>1, Zenon DEF Appended
          <6> QED BY <6>2
        <5> QED BY <5>1, <5>2
      <4>3. ASSUME NEW i \in 1 .. width PROVE r[Len(q) + i] = <<sets + 1, i>>
        <5>1. /\ Len(fifo) + i \in 1 .. Len(fifo') /\ Len(q) + i = Len(carried) + (Len(fifo) + i) /\ i \in 1 .. Len(set)
              /\ i \in 1 .. logging
          BY <1>4, <1>5, <2>2, <3>1, <3>4, <4>1
        <5>2. r[Len(carried) + (Len(fifo) + i)] = fifo'[Len(fifo) + i]
          BY <3>2, <5>1, Zenon DEF Appended
        <5>3. fifo'[Len(fifo) + i] = <<sets + 1, i>>
          BY <1>5, <2>2, <5>1, Zenon
        <5> QED BY <5>1, <5>2, <5>3, Zenon
      <4> QED BY <4>1, <4>2, <4>3 DEF OneMoreSet
    <3>6. q \in Seq(LogWords) /\ r \in Seq(LogWords)
      BY <3>2 DEF Appended
    <3>7. Framed(r, width, sets + 1) /\ Len(r) % width = 0
      BY <1>4, <3>1, <3>3, <3>5, <3>6, SetLogged, Zenon
    <3> QED BY <3>1, <3>7 DEF r
  <2>6. Len(fifo') \in Nat /\ Len(fifo) <= Len(fifo') /\ Len(fifo') <= FifoWords
    BY <1>4, <1>7, <2>2
  <2> QED BY <2>2, <2>5, <2>6
<1>8. ASSUME ~(Len(fifo) + logging <= FifoWords)
      PROVE  fifo' \in Seq(LogWords) /\ Len(fifo) <= Len(fifo') /\ Len(fifo') <= FifoWords /\ Len(fifo') \in Nat /\ LogIs'
  <2>1. fifo' = fifo
    BY <1>2, <1>8
  <2>2. Len(fifo) <= FifoWords /\ Len(fifo) <= Len(fifo)
    BY <1>1, <1>4 DEF MotorData
  <2>3. \A q, w : Framed(q, w, sets) => Framed(q, w, sets')
    BY <1>2, <1>4, LaterSets
  <2>4. LogIs'
    BY <1>1, <1>2, <2>1, <2>3, Zenon DEF LogIs, Clean
  <2> QED BY <1>4, <2>1, <2>2, <2>4
<1>9. fifo' \in Seq(LogWords) /\ Len(fifo) <= Len(fifo') /\ Len(fifo') <= FifoWords /\ Len(fifo') \in Nat /\ LogIs'
  BY <1>7, <1>8
<1>10. MotorData'
  <2>1. sets' \in 0 .. MaxSets
    BY <1>2, <1>4
  <2> QED BY <1>1, <1>2, <1>3, <1>9, <2>1 DEF MotorData
<1>11. BoardIs'
  <2>1. gates # "blank" /\ motorPc \notin {"starting", "configuring"} /\ toRead \in Nat
    BY <1>1, <1>2, <1>4, LogIsTyped DEF BoardIs
  <2> QED BY <1>1, <1>2, <1>4, <1>9, <2>1 DEF BoardIs
<1>12. SetsAreWhole'
  <2>1. \A s : s \in 1 .. sets => s \in 1 .. sets'
    BY <1>2, <1>4
  <2> QED BY <1>1, <1>2, <2>1, Zenon DEF SetsAreWhole
<1>13. ChargeIs' /\ HeldOfStack'
  <2>1. ChargeIs'
    BY <1>1, <1>2, Zenon DEF ChargeIs
  <2> QED BY <1>1, <1>2, <2>1, HeldStays
<1> QED BY <1>9, <1>10, <1>11, <1>12, <1>13 DEF MotorKept

(* Starting and stopping the log. *)
LEMMA StartLogKeeps ==
    ASSUME MotorKept, NEW did \in BOOLEAN, NEW ok \in BOOLEAN, StartLog(did, ok) \/ StopLog(did, ok)
    PROVE  MotorKept'
<1>1. MotorData /\ BoardIs /\ LogIs /\ SetsAreWhole /\ ChargeIs /\ HeldOfStack
  BY DEF MotorKept
<1>2. /\ UNCHANGED <<gates, podSide, sets, width, carried, toRead, given, battery, model, entryOf, slip>>
      /\ motorPc = "idle" /\ motorPc' \in {"idle", "starting"}
      /\ (logging' = 0 \/ logging' = logging) /\ (fifo' = <<>> \/ fifo' = fifo)
      /\ (fifo' = fifo \/ logging' = 0)
      /\ (motorPc' = "starting" /\ gates = "loaded" => logging' = 0 /\ fifo' = <<>>)
  <2>1. CASE StartLog(did, ok)
    BY <2>1 DEF StartLog, batteryVars
  <2>2. CASE StopLog(did, ok)
    BY <2>2 DEF StopLog, batteryVars
  <2> QED BY <2>1, <2>2
<1>3. UNCHANGED <<pinsHeld, stack, undo, astray>>
  BY <1>2, Zenon DEF podSide
<1>4. MotorData'
  <2>1. Len(<<>>) <= FifoWords /\ <<>> \in Seq(LogWords)
    BY <1>1, LogIsTyped
  <2>2. fifo' \in Seq(LogWords) /\ Len(fifo') <= FifoWords /\ logging' \in 0 .. 2
    <3>1. logging' \in 0 .. 2
      BY <1>1, <1>2 DEF MotorData
    <3>2. fifo' \in Seq(LogWords) /\ Len(fifo') <= FifoWords
      BY <1>1, <1>2, <2>1, Zenon DEF MotorData
    <3> QED BY <3>1, <3>2
  <2> QED BY <1>1, <1>2, <1>3, <2>2 DEF MotorData
<1>5. BoardIs'
  <2>1. CASE gates = "blank"
    BY <1>1, <1>2, <2>1 DEF BoardIs
  <2>2. CASE gates = "loaded"
    BY <1>1, <1>2, <2>2 DEF BoardIs
  <2> QED BY <1>1, <2>1, <2>2 DEF MotorData
<1>6. ChargeIs' /\ SetsAreWhole'
  <2>1. ChargeIs'
    BY <1>1, <1>2 DEF ChargeIs
  <2>2. SetsAreWhole'
    BY <1>1, <1>2, Zenon DEF SetsAreWhole
  <2> QED BY <2>1, <2>2
<1>7. LogIs'
  <2> SUFFICES ASSUME Clean
               PROVE  /\ width = 0 => logging' = 0 /\ fifo' = <<>> /\ carried = <<>>
                      /\ width > 0 => Framed(carried \o fifo', width, sets)
                      /\ logging' > 0 => logging' = width /\ Len(carried \o fifo') % width = 0
                      /\ width > 0 => gates = "loaded"
    <3>1. width' = width /\ sets' = sets /\ Clean' = Clean /\ gates' = gates /\ carried' = carried
          /\ motorPc' # "configuring"
      BY <1>2 DEF Clean
    <3> QED BY <3>1 DEF LogIs
  <2>1. /\ width = 0 => logging = 0 /\ fifo = <<>> /\ carried = <<>>
        /\ width > 0 => Framed(carried \o fifo, width, sets)
        /\ logging > 0 => logging = width /\ Len(carried \o fifo) % width = 0
        /\ width > 0 => gates = "loaded"
    BY <1>1, <1>2 DEF LogIs
  <2>2. width > 0 => Framed(carried \o <<>>, width, sets)
    BY <1>1, RestIsFramed, Zenon
  <2>3. ~(0 > 0)
    OBVIOUS
  <2>4. width = 0 => logging' = 0 /\ fifo' = <<>> /\ carried = <<>>
    BY <1>2, <2>1, Zenon
  <2>5. width > 0 => Framed(carried \o fifo', width, sets)
    BY <1>2, <2>1, <2>2, Zenon
  <2>6. logging' > 0 => logging' = width /\ Len(carried \o fifo') % width = 0
    BY <1>2, <2>1, <2>3, Zenon
  <2> QED BY <2>1, <2>4, <2>5, <2>6
<1>8. HeldOfStack'
  BY <1>1, <1>2, HeldStays
<1> QED BY <1>4, <1>5, <1>6, <1>7, <1>8 DEF MotorKept

LEMMA LogStartsKeeps ==
    ASSUME MotorKept, NEW n \in 1 .. 2, NEW did \in BOOLEAN, NEW ok \in BOOLEAN, LogStarts(n, did, ok)
    PROVE  MotorKept'
<1>1. MotorData /\ BoardIs /\ LogIs /\ SetsAreWhole /\ ChargeIs /\ HeldOfStack
  BY DEF MotorKept
<1>2. /\ motorPc = "starting" /\ motorPc' = "idle" /\ width' = n /\ carried' = <<>> /\ given' = <<>>
      /\ logging' = IF did /\ gates = "loaded" THEN n ELSE logging
      /\ slip' = (slip \ {"words", "blank"}) \cup (IF gates = "blank" THEN {"blank"} ELSE {})
      /\ UNCHANGED <<gates, podSide, fifo, sets, toRead, battery, model, entryOf>>
  BY DEF LogStarts, batteryVars
<1>3. UNCHANGED <<pinsHeld, stack, undo, astray>>
  BY <1>2, Zenon DEF podSide
<1>4. logging = 0 /\ fifo = <<>>
  BY <1>1, <1>2 DEF BoardIs
<1>5. MotorData'
  <2>1. <<>> \in Seq(LogWords)
    OBVIOUS
  <2>2. slip' \subseteq {"words", "blank", "model"}
    BY <1>1, <1>2 DEF MotorData
  <2> QED BY <1>1, <1>2, <1>3, <2>1, <2>2 DEF MotorData
<1>6. BoardIs' /\ SetsAreWhole'
  BY <1>1, <1>2, <1>4 DEF BoardIs, SetsAreWhole
<1>7. ChargeIs'
  BY <1>1, <1>2 DEF ChargeIs
<1>8. LogIs'
  <2>1. Clean' => gates = "loaded"
    BY <1>1, <1>2 DEF Clean, MotorData
  <2>2. Len(<<>> \o <<>>) = 0 /\ <<>> \o <<>> = <<>>
    BY ConcatEmptySeq
  <2>3. \A w, top : Framed(<<>>, w, top)
    BY DEF Framed
  <2>4. 0 % n = 0
    <3>1. CASE n = 1
      BY <3>1
    <3>2. CASE n = 2
      BY <3>2
    <3> QED BY <3>1, <3>2
  <2>5. logging' \in {0, n} /\ width' = n /\ n > 0
    BY <1>2, <1>4
  <2>6. carried' \o fifo' = <<>>
    BY <1>2, <1>4, <2>2
  <2>7. Framed(carried' \o fifo', width', sets') /\ Len(carried' \o fifo') % width' = 0
    BY <1>2, <2>2, <2>3, <2>4, <2>6, Zenon
  <2> QED BY <1>2, <2>1, <2>5, <2>7 DEF LogIs
<1>9. HeldOfStack'
  BY <1>1, <1>2, HeldStays
<1> QED BY <1>5, <1>6, <1>7, <1>8, <1>9 DEF MotorKept

(* The battery. *)
LEMMA BatteryKeeps ==
    ASSUME MotorKept, NEW did \in BOOLEAN, NEW ok \in BOOLEAN, NEW m \in Models,
           SetBattery(m, ok) \/ WriteModel(did, ok)
    PROVE  MotorKept'
<1>1. MotorData /\ BoardIs /\ LogIs /\ SetsAreWhole /\ ChargeIs /\ HeldOfStack
  BY DEF MotorKept
<1>2. /\ UNCHANGED <<gates, podSide, logging, fifo, sets, width, carried, toRead, given>>
      /\ slip' \in {slip, slip \cup {"model"}, slip \ {"model"}}
      /\ motorPc # "configuring" /\ motorPc' \in {"idle", "stopped"}
      /\ battery' \in {battery, model} /\ entryOf' \in {entryOf, model} /\ model' \in Models
  BY <1>1 DEF SetBattery, WriteModel, logVars, MotorData
<1>3. UNCHANGED <<pinsHeld, stack, undo, astray>>
  BY <1>2, Zenon DEF podSide
<1>4. Clean' = Clean /\ slip' \cap {"words", "blank"} = slip \cap {"words", "blank"}
  BY <1>2 DEF Clean
<1>5. MotorData'
  <2>1. slip' \subseteq {"words", "blank", "model"}
    BY <1>1, <1>2 DEF MotorData
  <2>2. battery' \in Models \cup {0} /\ entryOf' \in Models \cup {0}
    BY <1>1, <1>2 DEF MotorData
  <2> QED BY <1>1, <1>2, <1>3, <2>1, <2>2 DEF MotorData
<1>6. BoardIs'
  <2>1. gates = "blank" => battery' = battery
    BY DEF SetBattery, WriteModel
  <2> QED BY <1>1, <1>2, <2>1 DEF BoardIs
<1>7. LogIs' /\ SetsAreWhole'
  <2>1. LogIs'
    <3>1. motorPc' # "configuring"
      BY <1>2
    <3> QED BY <1>1, <1>2, <1>4, <3>1, Zenon DEF LogIs
  <2>2. SetsAreWhole'
    BY <1>1, <1>2, <1>4, Zenon DEF SetsAreWhole
  <2> QED BY <2>1, <2>2
<1>8. ChargeIs'
  <2>1. CASE SetBattery(m, ok)
    BY <1>1, <2>1 DEF SetBattery, ChargeIs
  <2>2. CASE WriteModel(did, ok)
    BY <1>1, <2>2 DEF WriteModel, ChargeIs
  <2> QED BY <2>1, <2>2
<1>9. HeldOfStack'
  BY <1>1, <1>2, <1>4, HeldStays
<1> QED BY <1>5, <1>6, <1>7, <1>8, <1>9 DEF MotorKept

(* Reading the log. *)
LEMMA ReadLogKeeps ==
    ASSUME MotorKept, NEW limit \in 1 .. FifoWords, ReadLog(limit)
    PROVE  MotorKept'
<1>1. MotorData /\ BoardIs /\ LogIs /\ SetsAreWhole /\ ChargeIs /\ HeldOfStack
  BY DEF MotorKept
<1>2. /\ motorPc = "idle" /\ width > 0 /\ motorPc' = "reading" /\ given' = <<>>
      /\ toRead' = IF limit < (IF gates = "loaded" THEN Len(fifo) ELSE FifoWords) THEN limit
                   ELSE IF gates = "loaded" THEN Len(fifo) ELSE FifoWords
      /\ UNCHANGED <<gates, podSide, logging, fifo, sets, width, carried, battery, model, entryOf, slip>>
  BY DEF ReadLog, batteryVars
<1>3. UNCHANGED <<pinsHeld, stack, undo, astray>>
  BY <1>2, Zenon DEF podSide
<1>4. Len(fifo) \in Nat /\ FifoWords \in Nat /\ Len(fifo) <= FifoWords
  BY <1>1, LogIsTyped DEF MotorData
<1>5. toRead' \in 0 .. FifoWords /\ (gates = "loaded" => toRead' <= Len(fifo))
  BY <1>2, <1>4
<1>6. MotorData'
  BY <1>1, <1>2, <1>3, <1>5 DEF MotorData
<1>7. BoardIs'
  BY <1>1, <1>2, <1>5 DEF BoardIs
<1>8. LogIs'
  BY <1>1, <1>2, Zenon DEF LogIs, Clean
<1>9. SetsAreWhole'
  BY <1>2 DEF SetsAreWhole
<1>10. ChargeIs'
  BY <1>1, <1>2 DEF ChargeIs
<1>11. HeldOfStack'
  BY <1>1, <1>2, HeldStays
<1> QED BY <1>6, <1>7, <1>8, <1>9, <1>10, <1>11 DEF MotorKept

LEMMA ReadPieceKeeps ==
    ASSUME MotorKept, NEW did \in BOOLEAN, NEW ok \in BOOLEAN, ReadPiece(did, ok)
    PROVE  MotorKept'
<1> DEFINE k == IF toRead < ReadWords THEN toRead ELSE ReadWords
<1>1. MotorData /\ BoardIs /\ LogIs /\ SetsAreWhole /\ ChargeIs /\ HeldOfStack
  BY DEF MotorKept
<1>2. /\ motorPc = "reading" /\ toRead > 0 /\ (ok => did)
      /\ fifo' = IF did /\ gates = "loaded" THEN SubSeq(fifo, k + 1, Len(fifo)) ELSE fifo
      /\ carried' = IF ~ok THEN carried
                    ELSE carried \o (IF gates = "loaded" THEN SubSeq(fifo, 1, k) ELSE [i \in 1 .. k |-> Junk])
      /\ toRead' = IF ok THEN toRead - k ELSE 0
      /\ motorPc' = IF ok THEN "reading" ELSE "idle"
      /\ slip' = IF ok \/ ~did \/ ~(gates = "loaded") THEN slip ELSE slip \cup {"words"}
      /\ UNCHANGED <<gates, podSide, logging, sets, width, given, battery, model, entryOf>>
  BY DEF ReadPiece, batteryVars
<1>3. UNCHANGED <<pinsHeld, stack, undo, astray>>
  BY <1>2, Zenon DEF podSide
<1>4. /\ k \in Nat \ {0} /\ k <= toRead /\ width > 0 /\ given = <<>>
      /\ gates = "loaded" => toRead <= Len(fifo)
      /\ Len(fifo) \in Nat /\ toRead \in Nat /\ FifoWords \in Nat /\ Len(fifo) <= FifoWords
      /\ fifo \in Seq(LogWords) /\ carried \in Seq(LogWords) /\ toRead <= FifoWords
  <2>1. /\ width > 0 /\ given = <<>> /\ (gates = "loaded" => toRead <= Len(fifo))
    BY <1>1, <1>2 DEF BoardIs
  <2>2. toRead \in 0 .. FifoWords /\ Len(fifo) <= FifoWords
    BY <1>1 DEF MotorData
  <2> QED BY <1>1, <1>2, <2>1, <2>2, LogIsTyped
<1> HIDE DEF k
<1>5. ASSUME gates = "loaded"
      PROVE  /\ k \in 1 .. Len(fifo) /\ Moved(LogWords, carried, fifo, k)
             /\ Len(SubSeq(fifo, k + 1, Len(fifo))) = Len(fifo) - k
  <2>1. k \in 1 .. Len(fifo)
    BY <1>4, <1>5
  <2>2. Moved(LogWords, carried, fifo, k)
    BY <1>4, <2>1, CutOff, Zenon
  <2>3. CutIs(fifo, k + 1, Len(fifo))
    <3>1. k + 1 \in Nat \ {0} /\ Len(fifo) \in 0 .. Len(fifo)
      BY <1>4
    <3> QED BY <1>4, <3>1, AnyCut, Zenon
  <2>4. Len(SubSeq(fifo, k + 1, Len(fifo))) = IF k + 1 <= Len(fifo) THEN Len(fifo) - (k + 1) + 1 ELSE 0
    BY <2>3, Zenon DEF CutIs
  <2> QED BY <1>4, <2>1, <2>2, <2>4
<1>6. ASSUME gates # "loaded" PROVE ~Clean /\ gates = "blank"
  BY <1>1, <1>2, <1>4, <1>6 DEF LogIs, MotorData
<1>7. fifo' \in Seq(LogWords) /\ Len(fifo') <= FifoWords
  <2>1. CASE did /\ gates = "loaded"
    <3>1. fifo' = SubSeq(fifo, k + 1, Len(fifo)) /\ Len(fifo') = Len(fifo) - k
      BY <1>2, <1>5, <2>1
    <3>2. fifo' \in Seq(LogWords)
      BY <1>5, <2>1, <3>1, Zenon DEF Moved
    <3> QED BY <1>4, <3>1, <3>2
  <2>2. CASE ~(did /\ gates = "loaded")
    BY <1>2, <1>4, <2>2
  <2> QED BY <2>1, <2>2
<1>8. carried' \in Seq(LogWords)
  <2>1. CASE ~ok
    BY <1>2, <1>4, <2>1
  <2>2. CASE ok /\ gates = "loaded"
    BY <1>2, <1>5, <2>2, Zenon DEF Moved
  <2>3. CASE ok /\ gates # "loaded"
    <3>1. [i \in 1 .. k |-> Junk] \in Seq(LogWords)
      BY <1>4 DEF Junk, LogWords
    <3>2. Appended(carried \o [i \in 1 .. k |-> Junk], carried, [i \in 1 .. k |-> Junk])
      BY <1>4, <3>1, AppendedIs, Zenon
    <3>3. carried' = carried \o [i \in 1 .. k |-> Junk]
      BY <1>2, <2>3
    <3> QED BY <3>2, <3>3, Zenon DEF Appended
  <2> QED BY <2>1, <2>2, <2>3
<1>9. toRead' \in 0 .. FifoWords
  BY <1>2, <1>4
<1>10. MotorData'
  <2>1. slip' \subseteq {"words", "blank", "model"}
    BY <1>1, <1>2 DEF MotorData
  <2>2. motorPc' \in {"idle", "starting", "reading", "configuring", "stopped"}
    BY <1>2
  <2> QED BY <1>1, <1>2, <1>3, <1>7, <1>8, <1>9, <2>1, <2>2, Zenon DEF MotorData
<1>11. BoardIs'
  <2>1. gates = "blank" => fifo' = fifo
    BY <1>2
  <2>2. motorPc' = "reading" => (gates = "loaded" => toRead' <= Len(fifo'))
    <3>1. ASSUME ok, gates = "loaded" PROVE toRead' <= Len(fifo')
      <4>1. Len(fifo') = Len(fifo) - k /\ toRead' = toRead - k
        BY <1>2, <1>5, <3>1
      <4> QED BY <1>4, <3>1, <4>1
    <3> QED BY <1>2, <3>1
  <2> QED BY <1>1, <1>2, <1>4, <2>1, <2>2 DEF BoardIs
<1>12. LogIs'
  <2>1. CASE gates # "loaded"
    <3>1. ~Clean'
      BY <1>2, <1>6, <2>1 DEF Clean
    <3> QED BY <3>1 DEF LogIs
  <2>2. CASE gates = "loaded" /\ did /\ ~ok
    <3>1. ~Clean'
      BY <1>2, <2>2 DEF Clean
    <3> QED BY <3>1 DEF LogIs
  <2>3. CASE gates = "loaded" /\ (ok \/ ~did)
    <3>1. carried' \o fifo' = carried \o fifo
      <4>1. CASE ok
        <5>1. carried' = carried \o SubSeq(fifo, 1, k) /\ fifo' = SubSeq(fifo, k + 1, Len(fifo))
          BY <1>2, <2>3, <4>1
        <5> QED BY <1>5, <2>3, <5>1, Zenon DEF Moved
      <4>2. CASE ~ok
        <5>1. carried' = carried /\ fifo' = fifo
          BY <1>2, <2>3, <4>2
        <5> QED BY <5>1
      <4> QED BY <4>1, <4>2
    <3>2. Clean' = Clean /\ motorPc' # "configuring"
      BY <1>2, <2>3 DEF Clean
    <3>3. width # 0
      BY <1>1, <1>4, LogIsTyped
    <3> QED BY <1>1, <1>2, <3>1, <3>2, <3>3, Zenon DEF LogIs
  <2> QED BY <1>2, <2>1, <2>2, <2>3
<1>13. SetsAreWhole'
  BY <1>2, <1>4 DEF SetsAreWhole
<1>14. ChargeIs'
  BY <1>1, <1>2 DEF ChargeIs
<1>15. HeldOfStack'
  BY <1>1, <1>2, HeldStays
<1> QED BY <1>10, <1>11, <1>12, <1>13, <1>14, <1>15 DEF MotorKept

(* How many sets the words at hand make, and where the rest begins. *)
WholeSets(l, w) ==
    /\ l \div w \in Nat /\ (l \div w) * w \in Nat /\ (l \div w) * w <= l
    /\ ((l \div w) * w) % w = 0

LEMMA WholeSetsAre == \A w \in {1, 2} : \A l \in Nat : WholeSets(l, w)
<1> SUFFICES ASSUME NEW w \in {1, 2}, NEW l \in Nat PROVE WholeSets(l, w)
  BY Zenon
<1>1. CASE w = 1
  BY <1>1, SMT DEF WholeSets
<1>2. CASE w = 2
  BY <1>2, SMT DEF WholeSets
<1> QED BY <1>1, <1>2

LEMMA ReadDoneKeeps ==
    ASSUME MotorKept, ReadDone
    PROVE  MotorKept'
<1> DEFINE n == Len(carried) \div width
           m == n * width
           rest == SubSeq(carried, m + 1, Len(carried))
           g == [i \in 1 .. n |-> SubSeq(carried, (i - 1) * width + 1, i * width)]
<1>1. MotorData /\ BoardIs /\ LogIs /\ SetsAreWhole /\ ChargeIs /\ HeldOfStack
  BY DEF MotorKept
<1>2. /\ motorPc = "reading" /\ toRead = 0 /\ motorPc' = "idle"
      /\ given' = g /\ carried' = rest
      /\ UNCHANGED <<gates, podSide, logging, fifo, sets, width, toRead, battery, model, entryOf, slip>>
  BY DEF ReadDone, batteryVars
<1>3. UNCHANGED <<pinsHeld, stack, undo, astray>>
  BY <1>2, Zenon DEF podSide
<1>4. /\ width \in {1, 2} /\ Len(carried) \in Nat /\ carried \in Seq(LogWords)
      /\ fifo \in Seq(LogWords) /\ Len(fifo) \in Nat /\ sets \in Nat
  BY <1>1, <1>2, LogIsTyped DEF BoardIs
<1>5. n \in Nat /\ m \in Nat /\ m <= Len(carried) /\ m % width = 0
  <2>1. WholeSets(Len(carried), width)
    BY <1>4, WholeSetsAre, Zenon
  <2> QED BY <2>1, Zenon DEF WholeSets
<1>g. given' = g
  BY <1>2
<1> HIDE DEF n
<1>m. m = n * width
  OBVIOUS
<1> HIDE DEF m
<1>6. CutIs(carried, m + 1, Len(carried))
  <2>1. m + 1 \in Nat \ {0} /\ Len(carried) \in 0 .. Len(carried)
    BY <1>4, <1>5
  <2> QED BY <1>4, <2>1, AnyCut, Zenon
<1>7. /\ rest \in Seq(LogWords) /\ Len(rest) = Len(carried) - m
      /\ \A i \in 1 .. Len(rest) : rest[i] = carried[m + i]
  <2>1. /\ rest \in Seq(LogWords)
        /\ Len(rest) = IF m + 1 <= Len(carried) THEN Len(carried) - (m + 1) + 1 ELSE 0
        /\ \A i \in 1 .. Len(carried) - (m + 1) + 1 : rest[i] = carried[(m + 1) + i - 1]
    BY <1>6, Zenon DEF CutIs
  <2> HIDE DEF rest
  <2>2. Len(rest) = Len(carried) - m
    BY <1>4, <1>5, <2>1
  <2>3. ASSUME NEW i \in 1 .. Len(rest) PROVE rest[i] = carried[m + i]
    <3>1. i \in 1 .. Len(carried) - (m + 1) + 1 /\ (m + 1) + i - 1 = m + i
      BY <1>4, <1>5, <2>2
    <3> QED BY <2>1, <3>1, Zenon
  <2> QED BY <2>1, <2>2, <2>3
<1> HIDE DEF rest
<1>8. FrontTaken(carried \o fifo, rest \o fifo, m) /\ carried \o fifo \in Seq(LogWords) /\ rest \o fifo \in Seq(LogWords)
  <2> DEFINE q == carried \o fifo
             r == rest \o fifo
  <2>1. Appended(q, carried, fifo) /\ Appended(r, rest, fifo)
    BY <1>4, <1>7, AppendedIs, Zenon
  <2> HIDE DEF q, r
  <2>2. q \in Seq(LogWords) /\ r \in Seq(LogWords) /\ Len(q) = Len(carried) + Len(fifo) /\ Len(r) = Len(rest) + Len(fifo)
    BY <2>1, Zenon DEF Appended
  <2>3. Len(rest) \in Nat
    BY <1>4, <1>5, <1>7
  <2>4. Len(r) = Len(q) - m
    BY <1>4, <1>5, <1>7, <2>2
  <2>5. ASSUME NEW i \in 1 .. Len(r) PROVE r[i] = q[m + i]
    <3>1. CASE i <= Len(rest)
      <4>1. i \in 1 .. Len(rest) /\ m + i \in 1 .. Len(carried)
        BY <1>4, <1>5, <1>7, <2>3, <3>1
      <4>2. r[i] = rest[i] /\ rest[i] = carried[m + i] /\ q[m + i] = carried[m + i]
        BY <1>7, <2>1, <4>1, Zenon DEF Appended
      <4> QED BY <4>2
    <3>2. CASE ~(i <= Len(rest))
      <4> DEFINE j == i - Len(rest)
      <4>1. j \in 1 .. Len(fifo) /\ i = Len(rest) + j /\ m + i = Len(carried) + j
        BY <1>4, <1>5, <1>7, <2>2, <2>3, <3>2
      <4> HIDE DEF j
      <4>2. r[Len(rest) + j] = fifo[j] /\ q[Len(carried) + j] = fifo[j]
        BY <2>1, <4>1, Zenon DEF Appended
      <4> QED BY <4>1, <4>2, Zenon
    <3> QED BY <3>1, <3>2
  <2>6. FrontTaken(q, r, m)
    BY <2>4, <2>5 DEF FrontTaken
  <2> QED BY <2>2, <2>6 DEF q, r
<1>9. ASSUME Clean
      PROVE  /\ gates = "loaded" /\ Framed(rest \o fifo, width, sets)
             /\ logging > 0 => logging = width /\ Len(rest \o fifo) % width = 0
             /\ Framed(carried, width, sets)
  <2>1. /\ gates = "loaded" /\ Framed(carried \o fifo, width, sets)
        /\ logging > 0 => logging = width /\ Len(carried \o fifo) % width = 0
    BY <1>1, <1>2, <1>4, <1>9 DEF LogIs
  <2>2. Framed(rest \o fifo, width, sets) /\ (Len(carried \o fifo) % width = 0 => Len(rest \o fifo) % width = 0)
    <3> DEFINE q == carried \o fifo
               r == rest \o fifo
    <3>1. q \in Seq(LogWords) /\ r \in Seq(LogWords) /\ FrontTaken(q, r, m) /\ Framed(q, width, sets)
      BY <1>8, <2>1
    <3> HIDE DEF q, r
    <3>2. width \in {1, 2} /\ sets \in Nat /\ m \in Nat /\ m % width = 0
      BY <1>4, <1>5
    <3>3. Framed(r, width, sets) /\ (Len(q) % width = 0 => Len(r) % width = 0)
      BY <3>1, <3>2, SetsTaken, SMT
    <3> QED BY <3>3 DEF q, r
  <2>3. FrontFramed(carried, fifo, width, sets)
    BY <1>4, FrontIsFramed, Zenon
  <2> QED BY <2>1, <2>2, <2>3, Zenon DEF FrontFramed
<1>10. MotorData'
  <2>1. carried' \in Seq(LogWords) /\ motorPc' \in {"idle", "starting", "reading", "configuring", "stopped"}
    BY <1>2, <1>7
  <2> QED BY <1>1, <1>2, <1>3, <2>1, Zenon DEF MotorData
<1>11. BoardIs'
  BY <1>1, <1>2 DEF BoardIs
<1>12. LogIs'
  <2>1. Clean' = Clean /\ width' = width /\ width > 0 /\ width # 0
    BY <1>2, <1>4 DEF Clean
  <2>2. carried' \o fifo' = rest \o fifo
    BY <1>2
  <2> QED BY <1>2, <1>9, <2>1, <2>2, Zenon DEF LogIs
<1>13. SetsAreWhole'
  <2> SUFFICES ASSUME Clean
               PROVE  /\ \A i \in DOMAIN given' : \E s \in 1 .. sets : given'[i] = Words(s, Len(given'[i]))
                      /\ \A i, j \in DOMAIN given' : i < j => given'[i][1][1] < given'[j][1][1]
    <3>1. sets' = sets /\ slip' = slip
      BY <1>2
    <3> QED BY <3>1, Zenon DEF SetsAreWhole, Clean
  <2>1. Framed(carried, width, sets)
    BY <1>9
  <2>2. n * width <= Len(carried)
    BY <1>5, <1>m
  <2>3. given' = [i \in 1 .. n |-> SubSeq(carried, (i - 1) * width + 1, i * width)]
    BY <1>g
  <2> DEFINE h == given'
  <2>4. h = [i \in 1 .. n |-> SubSeq(carried, (i - 1) * width + 1, i * width)]
    BY <2>3
  <2>5. CutInSets(h, carried, width, n)
    BY <2>2, <2>4 DEF CutInSets
  <2> HIDE DEF g, h
  <2>6. /\ \A i \in DOMAIN h : \E s \in 1 .. sets : h[i] = Words(s, Len(h[i]))
        /\ \A i, j \in DOMAIN h : i < j => h[i][1][1] < h[j][1][1]
    <3>1. width \in {1, 2} /\ sets \in Nat /\ n \in Nat /\ carried \in Seq(LogWords)
      BY <1>4, <1>5
    <3> QED BY <2>1, <2>5, <3>1, SetsOut, Zenon
  <2> QED BY <2>6 DEF h
<1>14. ChargeIs'
  BY <1>1, <1>2 DEF ChargeIs
<1>15. HeldOfStack'
  BY <1>1, <1>2, HeldStays
<1> QED BY <1>10, <1>11, <1>12, <1>13, <1>14, <1>15 DEF MotorKept

-----------------------------------------------------------------------------
LEMMA MotorStarts == MotorInit => MotorFlags /\ MotorKept
<1> SUFFICES ASSUME MotorInit PROVE MotorFlags /\ MotorKept
  OBVIOUS
<1>1. MotorFlags
  BY Zenon DEF MotorInit, MotorFlags
<1>2. MotorData
  <2>1. FifoWords \in Nat /\ MaxSets \in Nat /\ Len(<<>>) = 0 /\ <<>> \in Seq(LogWords)
    BY MotorAssumption DEF MotorAssumption
  <2> QED BY <2>1 DEF MotorInit, MotorData, Models
<1>3. BoardIs /\ LogIs
  BY DEF MotorInit, BoardIs, LogIs
<1>4. SetsAreWhole
  BY DEF MotorInit, SetsAreWhole
<1>5. ChargeIs /\ HeldOfStack
  BY DEF MotorInit, ChargeIs, HeldOfStack
<1> QED BY <1>1, <1>2, <1>3, <1>4, <1>5 DEF MotorKept

LEMMA FlagsOfMotor == MotorFlags /\ [MotorNext]_motorVars => MotorFlags'
<1> SUFFICES ASSUME MotorFlags, [MotorNext]_motorVars PROVE spiArmed' \in BOOLEAN
  BY DEF MotorFlags
<1> USE DEF MotorFlags
<1>1. \A did \in BOOLEAN : (~did) \in BOOLEAN
  OBVIOUS
<1>2. CASE UNCHANGED motorVars
  <2>1. spiArmed' = spiArmed
    BY <1>2 DEF motorVars, podSide
  <2> QED BY <2>1, Zenon
<1>3. ASSUME NEW did \in BOOLEAN, NEW ok \in BOOLEAN, OpenStack(did, ok) \/ StopSpi(did, ok) PROVE spiArmed' \in BOOLEAN
  BY <1>1, <1>3, Zenon DEF OpenStack, StopSpi
<1>4. ASSUME NEW did \in BOOLEAN, NEW ok \in BOOLEAN,
             TakePin(did, ok) \/ ReleasePins(did, ok) \/ CloseStack
      PROVE  spiArmed' \in BOOLEAN
  BY <1>4, Zenon DEF TakePin, ReleasePins, CloseStack
<1>5. ASSUME UNCHANGED podSide PROVE spiArmed' \in BOOLEAN
  <2>1. spiArmed' = spiArmed
    BY <1>5 DEF podSide
  <2> QED BY <2>1, Zenon
<1>6. ASSUME NEW did \in BOOLEAN, NEW ok \in BOOLEAN,
             \/ Configured(did, ok) \/ StartLog(did, ok) \/ StopLog(did, ok) \/ ReadPiece(did, ok)
             \/ WriteModel(did, ok)
      PROVE  UNCHANGED podSide
  BY <1>6, Zenon DEF Configured, StartLog, StopLog, ReadPiece, WriteModel
<1>7. ASSUME NEW n \in 1 .. 2, NEW did \in BOOLEAN, NEW ok \in BOOLEAN, LogStarts(n, did, ok) PROVE UNCHANGED podSide
  BY <1>7, Zenon DEF LogStarts
<1>8. ASSUME ConfigureMotor \/ LogSet \/ ReadDone PROVE UNCHANGED podSide
  BY <1>8, Zenon DEF ConfigureMotor, LogSet, ReadDone
<1>9. ASSUME NEW limit \in 1 .. FifoWords, ReadLog(limit) PROVE UNCHANGED podSide
  BY <1>9, Zenon DEF ReadLog
<1>10. ASSUME NEW m \in Models, NEW ok \in BOOLEAN, SetBattery(m, ok) PROVE UNCHANGED podSide
  BY <1>10, Zenon DEF SetBattery
<1> QED BY <1>2, <1>3, <1>4, <1>5, <1>6, <1>7, <1>8, <1>9, <1>10, Zenon DEF MotorNext

LEMMA MotorStep == MotorKept /\ [MotorNext]_motorVars => MotorKept'
<1> SUFFICES ASSUME MotorKept, [MotorNext]_motorVars PROVE MotorKept'
  OBVIOUS
<1>1. CASE UNCHANGED motorVars
  <2>1. UNCHANGED <<gates, spiArmed, pinsHeld, stack, undo, astray, logging, fifo, sets, width, carried, toRead, given,
                    motorPc, battery, model, entryOf, slip>>
    BY <1>1 DEF motorVars, podSide, logVars, batteryVars
  <2>2. MotorData'
    BY <2>1, Zenon DEF MotorKept, MotorData
  <2>3. BoardIs' /\ ChargeIs'
    BY <2>1, Zenon DEF MotorKept, BoardIs, ChargeIs
  <2>4. LogIs'
    BY <2>1, Zenon DEF MotorKept, LogIs, Clean
  <2>5. SetsAreWhole'
    BY <2>1, Zenon DEF MotorKept, SetsAreWhole
  <2>6. HeldOfStack'
    BY <2>1, Zenon DEF MotorKept, HeldOfStack
  <2> QED BY <2>2, <2>3, <2>4, <2>5, <2>6 DEF MotorKept
<1>2. ASSUME NEW did \in BOOLEAN, NEW ok \in BOOLEAN,
             \/ OpenStack(did, ok) \/ TakePin(did, ok) \/ StopSpi(did, ok) \/ ReleasePins(did, ok)
      PROVE  MotorKept'
  BY <1>2, StackKeeps, Zenon
<1>3. ASSUME CloseStack PROVE MotorKept'
  <2>1. TRUE \in BOOLEAN
    OBVIOUS
  <2> QED BY <1>3, <2>1, StackKeeps, Zenon
<1>4. ASSUME NEW did \in BOOLEAN, NEW ok \in BOOLEAN, Configured(did, ok) PROVE MotorKept'
  BY <1>4, ConfigureKeeps, Zenon
<1>5. ASSUME ConfigureMotor PROVE MotorKept'
  <2>1. TRUE \in BOOLEAN
    OBVIOUS
  <2> QED BY <1>5, <2>1, ConfigureKeeps, Zenon
<1>6. ASSUME NEW did \in BOOLEAN, NEW ok \in BOOLEAN, StartLog(did, ok) \/ StopLog(did, ok) PROVE MotorKept'
  BY <1>6, StartLogKeeps, Zenon
<1>7. ASSUME NEW n \in 1 .. 2, NEW did \in BOOLEAN, NEW ok \in BOOLEAN, LogStarts(n, did, ok) PROVE MotorKept'
  BY <1>7, LogStartsKeeps, Zenon
<1>8. ASSUME NEW did \in BOOLEAN, NEW ok \in BOOLEAN, ReadPiece(did, ok) PROVE MotorKept'
  BY <1>8, ReadPieceKeeps, Zenon
<1>9. ASSUME NEW did \in BOOLEAN, NEW ok \in BOOLEAN, WriteModel(did, ok) PROVE MotorKept'
  <2>1. 1 \in Models
    BY DEF Models
  <2> QED BY <1>9, <2>1, BatteryKeeps, Zenon
<1>10. ASSUME NEW m \in Models, NEW ok \in BOOLEAN, SetBattery(m, ok) PROVE MotorKept'
  BY <1>10, BatteryKeeps, Zenon
<1>11. ASSUME NEW limit \in 1 .. FifoWords, ReadLog(limit) PROVE MotorKept'
  BY <1>11, ReadLogKeeps, Zenon
<1>12. LogSet \/ ReadDone => MotorKept'
  BY LogSetKeeps, ReadDoneKeeps, Zenon
<1> QED BY <1>1, <1>2, <1>3, <1>4, <1>5, <1>6, <1>7, <1>8, <1>9, <1>10, <1>11, <1>12, Zenon DEF MotorNext

LEMMA MotorIsSafe == MotorFlags /\ MotorKept => MotorInv
<1> SUFFICES ASSUME MotorFlags, MotorKept PROVE MotorInv
  OBVIOUS
<1>1. MotorData /\ BoardIs /\ LogIs /\ SetsAreWhole /\ ChargeIs /\ HeldOfStack
  BY DEF MotorKept
<1>2. MotorTypeOK
  <2>1. spiArmed \in BOOLEAN /\ {undo, astray} \subseteq SUBSET (Pins \cup {"spi"})
    BY <1>1, Zenon DEF MotorFlags, MotorData
  <2>2. {logging, width} \subseteq 0 .. 2 /\ {battery, entryOf} \subseteq Models \cup {0}
    BY <1>1, Zenon DEF MotorData
  <2> QED BY <1>1, <2>1, <2>2, Zenon DEF MotorData, MotorTypeOK
<1>3. RestIsTheBeginning
  <2> SUFFICES ASSUME motorPc = "idle", carried # <<>>, Clean PROVE carried[1][2] = 1
    BY DEF RestIsTheBeginning, Clean
  <2>1. width \in {1, 2} /\ Framed(carried \o fifo, width, sets) /\ carried \in Seq(LogWords) /\ fifo \in Seq(LogWords)
    BY <1>1, LogIsTyped DEF LogIs
  <2>2. Framed(carried, width, sets)
    <3>1. FrontFramed(carried, fifo, width, sets)
      BY <2>1, FrontIsFramed, Zenon
    <3> QED BY <2>1, <3>1, Zenon DEF FrontFramed
  <2>3. 1 \in 1 .. Len(carried) /\ 1 \in 1 .. width
    <3>1. Len(carried) \in Nat /\ Len(carried) # 0
      BY <2>1, EmptySeq, LenProperties
    <3> QED BY <2>1, <3>1
  <2>4. Place(1, width) = 1
    <3>1. PlacesOf(width)
      BY <2>1, PlacesAre, Zenon
    <3> QED BY <2>3, <3>1, Zenon DEF PlacesOf
  <2> QED BY <2>2, <2>3, <2>4, Zenon DEF Framed
<1>4. ChargeIsOfTheModel
  BY <1>1 DEF ChargeIs, ChargeIsOfTheModel
<1>5. StackLetsGo
  BY <1>1 DEF HeldOfStack, StackLetsGo
<1> QED BY <1>1, <1>2, <1>3, <1>4, <1>5 DEF MotorInv

(* The sets that read_log returns are sets that the gateware logged, whole, each   *)
(* once and in order, and what it leaves is the beginning of the next one; the     *)
(* charge is told in the scale of the model in the board; and what a closed stack  *)
(* still holds, its own commands failed to take or to give back (MotorEmulator and *)
(* the log of motor_emulator.py): whatever the FIFO, the transfers and the sets.   *)
THEOREM LoggedSetsAreWhole == MotorSpec => []MotorInv
<1>1. MotorInit => MotorFlags /\ MotorKept
  BY MotorStarts
<1>2. MotorFlags /\ MotorKept /\ [MotorNext]_motorVars => MotorFlags' /\ MotorKept'
  BY FlagsOfMotor, MotorStep
<1>3. MotorFlags /\ MotorKept => MotorInv
  BY MotorIsSafe
<1> QED BY <1>1, <1>2, <1>3, PTL DEF MotorSpec

-----------------------------------------------------------------------------
(* The tools of the MCP server and their hints (server.py): any values of the   *)
(* arguments, any devices.                                                      *)

(* A set of naturals has a least element, and a bounded one a greatest. *)
LEMMA LeastNatural ==
    ASSUME NEW S, S \subseteq Nat, S # {}
    PROVE  \E m \in S : \A k \in S : m <= k
<1> DEFINE R == OpToRel(<, Nat)
<1>1. IsWellFoundedOn(R, Nat)
  BY NatLessThanWellFounded
<1>2. PICK m \in S : \A k \in S : <<k, m>> \notin R
  BY <1>1, WFMin
<1>3. \A k \in S : ~(k < m)
  BY <1>2 DEF OpToRel
<1> QED BY <1>3

(* A set of numbers up to n has a greatest element, and Max is it. *)
LEMMA GreatestOf ==
    ASSUME NEW n \in Nat, NEW S, S \subseteq 1 .. n, S # {}
    PROVE  Max(S) \in S /\ \A k \in S : k <= Max(S)
<1> DEFINE Below == {n - k : k \in S}
<1>1. Below \subseteq Nat /\ Below # {}
  <2>1. \A k \in S : k \in 1 .. n
    OBVIOUS
  <2>2. PICK k \in S : TRUE
    OBVIOUS
  <2>3. n - k \in Below
    BY <2>2
  <2>4. \A k2 \in Below : k2 \in Nat
    BY <2>1
  <2> QED BY <2>3, <2>4
<1>2. PICK m \in Below : \A k \in Below : m <= k
  <2> HIDE DEF Below
  <2> QED BY <1>1, LeastNatural
<1>3. n - m \in S /\ \A k \in S : n - m >= k
  <2>1. PICK k \in S : m = n - k
    BY <1>2
  <2>2. \A j \in S : m <= n - j
    BY <1>2
  <2>3. \A j \in S : j \in 1 .. n
    OBVIOUS
  <2> QED BY <2>1, <2>2, <2>3
<1> QED BY <1>3 DEF Max

-----------------------------------------------------------------------------
(* A field after n steps is what the last of them to put it put. *)
LastPut(steps, n, f, i) ==
    i \in 1 .. n /\ f \in DOMAIN steps[i] /\ \A j \in i + 1 .. n : f \notin DOMAIN steps[j]

(* A field after n of the steps of a row: the last step that puts it says what  *)
(* it is, if any does.                                                          *)
LEMMA AfterIs ==
    ASSUME NEW b, NEW steps, NEW n \in Nat
    PROVE  /\ After(b, steps, n) = [f \in DOMAIN b |-> After(b, steps, n)[f]]
           /\ DOMAIN After(b, steps, n) = DOMAIN b
           /\ \A f \in DOMAIN b :
                \/ (\A i \in 1 .. n : f \notin DOMAIN steps[i]) /\ After(b, steps, n)[f] = b[f]
                \/ \E i \in 1 .. n : LastPut(steps, n, f, i) /\ After(b, steps, n)[f] = steps[i][f]
<1> DEFINE puts(f) == {i \in 1 .. n : f \in DOMAIN steps[i]}
           value(f) == IF puts(f) = {} THEN b[f] ELSE steps[Max(puts(f))][f]
<1>1. After(b, steps, n) = [f \in DOMAIN b |-> value(f)]
  BY DEF After
<1>2. ASSUME NEW f, puts(f) # {}
      PROVE  LastPut(steps, n, f, Max(puts(f)))
  <2>1. /\ Max(puts(f)) \in puts(f)
        /\ \A k \in 1 .. n : f \in DOMAIN steps[k] => k <= Max(puts(f))
    <3>1. puts(f) \subseteq 1 .. n
      OBVIOUS
    <3>2. Max(puts(f)) \in puts(f) /\ \A k \in puts(f) : k <= Max(puts(f))
      <4> HIDE DEF puts
      <4> QED BY <3>1, <1>2, GreatestOf
    <3>3. \A k \in 1 .. n : f \in DOMAIN steps[k] => k \in puts(f)
      OBVIOUS
    <3> HIDE DEF puts
    <3> QED BY <3>2, <3>3
  <2>2. Max(puts(f)) \in 1 .. n /\ f \in DOMAIN steps[Max(puts(f))]
    BY <2>1
  <2> HIDE DEF puts
  <2> QED BY <2>1, <2>2 DEF LastPut
<1>3. ASSUME NEW f \in DOMAIN b
      PROVE  \/ (\A i \in 1 .. n : f \notin DOMAIN steps[i]) /\ value(f) = b[f]
             \/ \E i \in 1 .. n : LastPut(steps, n, f, i) /\ value(f) = steps[i][f]
  <2>1. CASE puts(f) = {}
    BY <2>1
  <2>2. CASE puts(f) # {}
    <3>1. LastPut(steps, n, f, Max(puts(f)))
      BY <2>2, <1>2
    <3>2. value(f) = steps[Max(puts(f))][f]
      BY <2>2
    <3>3. Max(puts(f)) \in 1 .. n
      BY <3>1 DEF LastPut
    <3> HIDE DEF value, puts
    <3> QED BY <3>1, <3>2, <3>3
  <2> QED BY <2>1, <2>2
<1> HIDE DEF value
<1> QED BY <1>1, <1>3

(* Two last steps to put a field are one. *)
LEMMA OneLastPut ==
    ASSUME NEW steps, NEW n \in Nat, NEW f, NEW i, NEW j, LastPut(steps, n, f, i), LastPut(steps, n, f, j)
    PROVE  i = j
BY DEF LastPut

(* The same steps once more after some of them end where they do from the start. *)
LEMMA SameStepsAgain ==
    ASSUME NEW b, NEW steps, NEW m \in Nat, NEW n \in 0 .. m
    PROVE  After(After(b, steps, n), steps, m) = After(b, steps, m)
<1> DEFINE cut == After(b, steps, n)
<1>1. DOMAIN cut = DOMAIN b
  BY AfterIs
<1>2. ASSUME NEW f \in DOMAIN b
      PROVE  After(cut, steps, m)[f] = After(b, steps, m)[f]
  <2>1. CASE \E i \in 1 .. m : LastPut(steps, m, f, i)
    <3>1. PICK i \in 1 .. m : LastPut(steps, m, f, i)
      BY <2>1
    <3>2. f \in DOMAIN steps[i]
      BY <3>1 DEF LastPut
    <3>3. After(cut, steps, m)[f] = steps[i][f]
      BY <3>1, <3>2, <1>1, AfterIs, OneLastPut
    <3>4. After(b, steps, m)[f] = steps[i][f]
      BY <3>1, <3>2, AfterIs, OneLastPut
    <3> QED BY <3>3, <3>4
  <2>2. CASE ~ \E i \in 1 .. m : LastPut(steps, m, f, i)
    <3>1. (\A i \in 1 .. m : f \notin DOMAIN steps[i]) /\ After(b, steps, m)[f] = b[f]
      BY <2>2, AfterIs
    <3>2. After(cut, steps, m)[f] = cut[f]
      BY <2>2, <1>1, AfterIs
    <3>3. cut[f] = b[f]
      <4>1. \A i \in 1 .. n : f \notin DOMAIN steps[i]
        BY <3>1
      <4>2. ~ \E i \in 1 .. n : LastPut(steps, n, f, i)
        BY <4>1 DEF LastPut
      <4> QED BY <4>2, AfterIs
    <3> QED BY <3>1, <3>2, <3>3
  <2> QED BY <2>1, <2>2
<1>3. /\ After(cut, steps, m) = [f \in DOMAIN b |-> After(cut, steps, m)[f]]
      /\ After(b, steps, m) = [f \in DOMAIN b |-> After(b, steps, m)[f]]
  BY <1>1, AfterIs
<1> DEFINE x == After(cut, steps, m)
           y == After(b, steps, m)
<1>4. \A f \in DOMAIN b : x[f] = y[f]
  BY <1>2
<1>5. x = [f \in DOMAIN b |-> x[f]] /\ y = [f \in DOMAIN b |-> y[f]]
  BY <1>3
<1>6. x = y
  <2> HIDE DEF x, y
  <2> QED BY <1>4, <1>5
<1> QED BY <1>6

-----------------------------------------------------------------------------
(* What the steps of a row may put, given its hint. *)
Fields == Switches \cup DOMAIN Values
HeldValues == BOOLEAN \cup UNION {Values[f] : f \in DOMAIN Values}
Assignments == UNION {[D -> HeldValues] : D \in SUBSET Fields}
Fits(f, v, h) ==
    /\ f \in Fields /\ (f \in Switches => v \in BOOLEAN) /\ (f \in DOMAIN Values => v \in Values[f])
    /\ h = "reads" => f \in Heard
    /\ h \in {"reads", "repeats", "plain", "routes", "tests"} =>
          f \notin Driven /\ (f = "output" => v = "off") /\ (f \in {"loop", "volts"} => v = FALSE)
    /\ h \in {"reads", "repeats", "plain", "tests"} => (f = "routed" => v = FALSE)
    /\ h \in {"reads", "repeats", "plain", "routes"} => (f = "driven" => v = FALSE)
StepsOf(h) == {s \in Assignments : \A f \in DOMAIN s : Fits(f, s[f], h)}
(* Two kinds of tools do more than their hint says: those that connect the DAC and *)
(* the self-test.                                                                  *)
Excused(r, k) ==
    Gentle(r) /\ r.hint # "reads" /\ ((k = "routes" /\ Routes(r)) \/ (k = "tests" /\ IsSelfTest(r)))
RowFits(r) ==
    /\ r.hint \in Hints
    /\ \E k : (k = r.hint \/ Excused(r, k)) /\ r.steps \in Seq(StepsOf(k))

(* The fields of a scene: the switches, and those with more than two values. *)
LEMMA FieldsAre ==
    /\ Fields = Switches \cup {"bank", "pin", "sensor", "fix", "firmware", "chip", "cert", "route", "range",
                               "output", "code", "image", "library"}
    /\ DOMAIN Values = {"bank", "pin", "sensor", "fix", "firmware", "chip", "cert", "route", "range",
                               "output", "code", "image", "library"}
    /\ Switches \cap DOMAIN Values = {}
BY DEF Fields, Values, Switches

(* What a fitting step puts is a value. *)
LEMMA HeldFits ==
    ASSUME NEW f, NEW v, NEW h, Fits(f, v, h)
    PROVE  v \in HeldValues
BY DEF Fits, HeldValues, Fields

(* A step that puts one fitting value fits. *)
LEMMA PutFits ==
    ASSUME NEW f, NEW v, NEW h, Fits(f, v, h)
    PROVE  Put(f, v) \in StepsOf(h)
<1>1. Put(f, v) \in [{f} -> HeldValues] /\ {f} \in SUBSET Fields
  BY HeldFits DEF Put, Fits
<1>2. Put(f, v) \in Assignments
  BY <1>1 DEF Assignments
<1>3. DOMAIN Put(f, v) = {f} /\ Put(f, v)[f] = v
  BY DEF Put
<1> QED BY <1>2, <1>3 DEF StepsOf

(* Two fitting steps, taken as one, fit. *)
LEMMA BothFit ==
    ASSUME NEW h, NEW s \in StepsOf(h), NEW t \in StepsOf(h)
    PROVE  s ++ t \in StepsOf(h)
<1>1. PICK D \in SUBSET Fields : s \in [D -> HeldValues]
  BY DEF StepsOf, Assignments
<1>2. PICK E \in SUBSET Fields : t \in [E -> HeldValues]
  BY DEF StepsOf, Assignments
<1>3. s ++ t \in [D \cup E -> HeldValues] /\ D \cup E \in SUBSET Fields
  BY <1>1, <1>2 DEF ++
<1>4. s ++ t \in Assignments
  BY <1>3 DEF Assignments
<1>5. \A f \in DOMAIN (s ++ t) : Fits(f, (s ++ t)[f], h)
  BY <1>1, <1>2 DEF ++, StepsOf
<1> QED BY <1>4, <1>5 DEF StepsOf

(* Rows by the number of their steps. *)
LEMMA NoSteps == ASSUME NEW h PROVE <<>> \in Seq(StepsOf(h))
OBVIOUS
LEMMA OneStep == ASSUME NEW h, NEW s \in StepsOf(h) PROVE <<s>> \in Seq(StepsOf(h))
OBVIOUS
LEMMA TwoSteps == ASSUME NEW h, NEW s \in StepsOf(h), NEW t \in StepsOf(h) PROVE <<s, t>> \in Seq(StepsOf(h))
OBVIOUS
LEMMA MoreSteps ==
    ASSUME NEW h, NEW p \in Seq(StepsOf(h)), NEW q \in Seq(StepsOf(h)) PROVE p \o q \in Seq(StepsOf(h))
BY ConcatProperties
(* A row is fit if its steps are. *)
LEMMA TheRowFits ==
    ASSUME NEW name, NEW arg, NEW h \in Hints, NEW q \in Seq(StepsOf(h))
    PROVE  RowFits(Row(name, arg, h, q))
BY DEF RowFits, Row

(* And if they are what its excuse lets it do. *)
LEMMA TheExcusedRowFits ==
    ASSUME NEW name, NEW arg, NEW h \in {"repeats", "plain"}, NEW k, NEW q \in Seq(StepsOf(k)),
           \/ (k = "routes" /\ name \in {"analog_path", "capture_adc", "capture_correlated"})
           \/ (k = "tests" /\ name = "adc_range" /\ arg = "test")
    PROVE  RowFits(Row(name, arg, h, q))
<1> DEFINE r == Row(name, arg, h, q)
<1>1. r.call = <<name, arg>> /\ r.hint = h /\ r.steps = q
  BY DEF Row
<1>2. Excused(r, k)
  BY <1>1 DEF Excused, Gentle, Routes, IsSelfTest
<1>3. r.hint \in Hints
  BY <1>1 DEF Hints
<1> HIDE DEF r
<1>4. RowFits(r)
  BY <1>1, <1>2, <1>3 DEF RowFits
<1> QED BY <1>4 DEF r

(* What the tools may put that are published as destructive (server.py). *)
LEMMA ThoseThatDrivePut ==
    ASSUME NEW h \in {"drives", "drivesAgain"}
    PROVE  /\ \A f \in Switches : \A v \in BOOLEAN : Put(f, v) \in StepsOf(h)
           /\ \A f \in DOMAIN Values : \A v \in Values[f] : Put(f, v) \in StepsOf(h)
<1>1. \A f \in Switches : \A v \in BOOLEAN : Fits(f, v, h)
  BY FieldsAre DEF Fits
<1>2. \A f \in DOMAIN Values : \A v \in Values[f] : Fits(f, v, h)
  BY FieldsAre DEF Fits, Fields
<1> QED BY <1>1, <1>2, PutFits

(* What those may put that are not. *)
LEMMA GentleOnesPut ==
    ASSUME NEW h \in {"repeats", "plain", "routes", "tests"}
    PROVE  /\ \A f \in Switches \ Driven : Put(f, FALSE) \in StepsOf(h)
           /\ \A f \in Switches \ (Driven \cup {"loop", "volts", "routed", "driven"}) : Put(f, TRUE) \in StepsOf(h)
           /\ (h = "routes" => On("routed") \in StepsOf(h)) /\ (h = "tests" => On("driven") \in StepsOf(h))
           /\ \A f \in DOMAIN Values \ (Driven \cup {"output"}) : \A v \in Values[f] : Put(f, v) \in StepsOf(h)
           /\ Put("output", "off") \in StepsOf(h)
<1>1. \A f \in Switches \ Driven : Fits(f, FALSE, h)
  BY FieldsAre DEF Fits
<1>2. \A f \in Switches \ (Driven \cup {"loop", "volts", "routed", "driven"}) : Fits(f, TRUE, h)
  BY FieldsAre DEF Fits
<1>3. \A f \in DOMAIN Values \ (Driven \cup {"output"}) : \A v \in Values[f] : Fits(f, v, h)
  BY FieldsAre DEF Fits, Fields
<1>4. Fits("output", "off", h)
  BY FieldsAre DEF Fits, Driven, Values
<1>5. (h = "routes" => Fits("routed", TRUE, h)) /\ (h = "tests" => Fits("driven", TRUE, h))
  BY FieldsAre DEF Fits, Driven, Switches, Fields
<1> QED BY <1>1, <1>2, <1>3, <1>4, <1>5, PutFits DEF On

(* What those may put that are read-only. *)
LEMMA ReadersPut ==
    /\ \A r \in Values.range : Put("range", r) \in StepsOf("reads")
    /\ \A v \in Values.route : Put("route", v) \in StepsOf("reads")
    /\ Off("unread") \in StepsOf("reads") /\ Off("queue") \in StepsOf("reads")
    /\ On("armed") \in StepsOf("reads") /\ Off("armed") \in StepsOf("reads")
<1>1. \A r \in Values.range : Fits("range", r, "reads")
  BY FieldsAre DEF Fits, Fields, Heard, Driven, Switches
<1>2. \A v \in Values.route : Fits("route", v, "reads")
  BY FieldsAre DEF Fits, Fields, Heard, Driven, Switches
<1>3. Fits("unread", FALSE, "reads") /\ Fits("queue", FALSE, "reads") /\ Fits("armed", FALSE, "reads") /\ Fits("armed", TRUE, "reads")
  BY FieldsAre DEF Fits, Fields, Heard, Driven, Switches
<1> QED BY <1>1, <1>2, <1>3, PutFits DEF On, Off

-----------------------------------------------------------------------------
(* Every row of the table fits its hint, whatever the scene. *)
Typed(b) ==
    /\ DOMAIN b = Fields
    /\ \A f \in Switches : b[f] \in BOOLEAN
    /\ \A f \in DOMAIN Values : b[f] \in Values[f]

(* The steps in which a session forgets its pod (session.py). *)
LEMMA SessionFits ==
    ASSUME NEW h \in {"repeats", "plain"}, NEW heard \in BOOLEAN
    PROVE  CloseUart \in StepsOf(h) /\ CloseCan(heard) \in StepsOf(h) /\ Forgotten(heard) \in StepsOf(h)
<1>1. \A f \in {"console", "unread", "can", "rules", "queue", "profile", "lastLa", "lastAdc", "given", "link"} :
        Off(f) \in StepsOf(h)
  BY GentleOnesPut DEF Off, Switches, Driven
<1>2. CloseUart \in StepsOf(h)
  BY <1>1, BothFit DEF CloseUart
<1>3. CloseCan(heard) \in StepsOf(h)
  <2>1. (IF heard THEN Off("rules") ++ Off("queue") ELSE Off("queue")) \in StepsOf(h)
    BY <1>1, BothFit
  <2> QED BY <1>1, <2>1, BothFit DEF CloseCan
<1>4. CloseUart ++ CloseCan(heard) \in StepsOf(h)
  BY <1>2, <1>3, BothFit
<1>5. Forgotten(heard) \in StepsOf(h)
  <2>1. CloseUart ++ CloseCan(heard) ++ Off("profile") \in StepsOf(h)
    BY <1>1, <1>4, BothFit
  <2>2. CloseUart ++ CloseCan(heard) ++ Off("profile") ++ Off("lastLa") \in StepsOf(h)
    BY <1>1, <2>1, BothFit
  <2>3. CloseUart ++ CloseCan(heard) ++ Off("profile") ++ Off("lastLa") ++ Off("lastAdc") \in StepsOf(h)
    BY <1>1, <2>2, BothFit
  <2>4. CloseUart ++ CloseCan(heard) ++ Off("profile") ++ Off("lastLa") ++ Off("lastAdc") ++ Off("given") \in StepsOf(h)
    BY <1>1, <2>3, BothFit
  <2> QED BY <1>1, <2>4, BothFit DEF Forgotten
<1> QED BY <1>2, <1>3, <1>5

(* connect and disconnect. *)
LEMMA ConnectFits ==
    ASSUME NEW b
    PROVE  \A r \in Connect(b) \cup Disconnect : RowFits(r)
<1>1. Forgotten(TRUE) \in StepsOf("repeats") /\ Forgotten(FALSE) \in StepsOf("repeats")
  BY SessionFits
<1>2. On("link") \in StepsOf("repeats") /\ Put("bank", "v3") \in StepsOf("repeats")
  BY GentleOnesPut DEF On, Switches, Driven, Values
<1>3. \A bank \in {"asked", "kept"} :
        <<Forgotten(TRUE)>> \o (IF bank = "asked" THEN SetBank("v3") ELSE <<>>) \o <<On("link")>>
          \in Seq(StepsOf("repeats"))
  <2> TAKE bank \in {"asked", "kept"}
  <2>1. (IF bank = "asked" THEN SetBank("v3") ELSE <<>>) \in Seq(StepsOf("repeats"))
    BY <1>2, OneStep, NoSteps DEF SetBank
  <2>2. <<Forgotten(TRUE)>> \o (IF bank = "asked" THEN SetBank("v3") ELSE <<>>) \in Seq(StepsOf("repeats"))
    BY <1>1, <2>1, OneStep, MoreSteps
  <2> QED BY <1>2, <2>2, OneStep, MoreSteps
<1>4. \A r \in Connect(b) : RowFits(r)
  BY <1>3, TheRowFits DEF Connect, Hints
<1>5. \A r \in Disconnect : RowFits(r)
  BY <1>1, OneStep, TheRowFits DEF Disconnect, Hints
<1> QED BY <1>4, <1>5

(* The tools that need no pod. *)
LEMMA UnconnectedFits ==
    ASSUME NEW b
    PROVE  \A r \in Unconnected(b) : RowFits(r)
<1>1. \A heard \in BOOLEAN : <<IF b.can THEN CloseCan(heard) ELSE CloseCan(FALSE)>> \in Seq(StepsOf("repeats"))
  <2> TAKE heard \in BOOLEAN
  <2>1. CloseCan(heard) \in StepsOf("repeats") /\ CloseCan(FALSE) \in StepsOf("repeats")
    BY SessionFits
  <2>2. (IF b.can THEN CloseCan(heard) ELSE CloseCan(FALSE)) \in StepsOf("repeats")
    BY <2>1
  <2> QED BY <2>2, OneStep
<1>2. <<CloseUart>> \in Seq(StepsOf("repeats"))
  BY SessionFits, OneStep
<1>3. \A heard \in BOOLEAN :
        RowFits(Row("can_close", heard, "repeats", <<IF b.can THEN CloseCan(heard) ELSE CloseCan(FALSE)>>))
  BY <1>1, TheRowFits DEF Hints
<1>4. /\ RowFits(Row("status", "", "reads", <<>>)) /\ RowFits(Row("uart_close", "", "repeats", <<CloseUart>>))
      /\ RowFits(Row("la_timing", "", "reads", <<>>)) /\ RowFits(Row("cloud_list_devices", "", "reads", <<>>))
  BY <1>2, NoSteps, TheRowFits DEF Hints
<1> QED BY <1>3, <1>4, ConnectFits DEF Unconnected

(* The tools of power, of the power profile and of reset. *)
LEMMA PowerAndResetFit ==
    ASSUME NEW b
    PROVE  \A r \in PowerTools \cup ProfileTools(b) \cup ResetTools : RowFits(r)
<1>1. \A h \in {"drives", "drivesAgain"} : \A f \in {"power", "reset"} : \A v \in BOOLEAN :
         <<Put(f, v)>> \in Seq(StepsOf(h))
  BY ThoseThatDrivePut, OneStep DEF Switches
<1>2. <<On("profile")>> \in Seq(StepsOf("plain")) /\ <<Off("profile")>> \in Seq(StepsOf("plain"))
  BY GentleOnesPut, OneStep DEF On, Off, Switches, Driven
<1>3. \A r \in PowerTools : RowFits(r)
  BY <1>1, NoSteps, TheRowFits DEF PowerTools, TargetPower, Hints
<1>4. \A r \in ProfileTools(b) : RowFits(r)
  BY <1>2, NoSteps, TheRowFits DEF ProfileTools, Hints
<1>5. \A a \in {"hold", "release", "pulse", "status"} : ResetLine(a) \in Seq(StepsOf("drives"))
  BY <1>1, NoSteps DEF ResetLine, On, Off
<1>6. \A r \in ResetTools : RowFits(r)
  BY <1>5, TheRowFits DEF ResetTools, Hints
<1> QED BY <1>3, <1>4, <1>6

(* The tools of the wiring profile. *)
LEMMA WiringFits == \A r \in WiringTools : RowFits(r)
<1>1. \A v \in {"v1", "v3"} : SetBank(v) \in Seq(StepsOf("repeats"))
  BY GentleOnesPut, OneStep DEF SetBank, Values, Driven
<1>2. On("given") \in StepsOf("repeats") /\ On("stored") \in StepsOf("repeats")
  BY GentleOnesPut DEF On, Switches, Driven
<1>3. <<On("given")>> \in Seq(StepsOf("repeats")) /\ <<On("given"), On("stored")>> \in Seq(StepsOf("repeats"))
  BY <1>2, OneStep, TwoSteps
<1>4. \A v \in {"v1", "v3"} : RowFits(Row("set_la_voltage", v, "repeats", SetBank(v)))
  BY <1>1, TheRowFits DEF Hints
<1>5. /\ RowFits(Row("wiring", "", "reads", <<>>)) /\ RowFits(Row("set_wiring", "use", "repeats", <<On("given")>>))
      /\ RowFits(Row("set_wiring", "save", "repeats", <<On("given"), On("stored")>>))
  BY <1>3, NoSteps, TheRowFits DEF Hints
<1> QED BY <1>4, <1>5 DEF WiringTools

(* Work between open_spi and close_spi, with the pins as they are put for it. *)
LEMMA OverSpiFits ==
    ASSUME NEW h \in {"reads", "drives"}, NEW work \in Seq(StepsOf(h))
    PROVE  OverSpi(work) \in Seq(StepsOf(h))
<1>1. <<On("armed")>> \in Seq(StepsOf(h)) /\ <<Off("armed")>> \in Seq(StepsOf(h))
  BY ReadersPut, ThoseThatDrivePut, OneStep DEF On, Off, Switches
<1> QED BY <1>1, MoreSteps DEF OverSpi

(* The tools of SPI and of the flash. *)
LEMMA SpiAndFlashFit == \A r \in SpiTools \cup FlashTools : RowFits(r)
<1>1. /\ On("sent") \in StepsOf("drives") /\ On("reset") \in StepsOf("drives") /\ Off("reset") \in StepsOf("drives")
      /\ On("power") \in StepsOf("drives")
  BY ThoseThatDrivePut DEF On, Off, Switches
<1>2. \A f \in {"chip", "firmware"} : Put(f, "torn") \in StepsOf("drives") /\ Put(f, "new") \in StepsOf("drives")
  BY ThoseThatDrivePut, FieldsAre DEF Values
<1>3. \A f \in {"chip", "firmware"} : <<Put(f, "torn"), Put(f, "new")>> \in Seq(StepsOf("drives"))
  BY <1>2, TwoSteps
<1>4. OverSpi(<<>>) \in Seq(StepsOf("reads"))
  BY OverSpiFits, NoSteps
<1>5. OverSpi(<<On("sent")>>) \in Seq(StepsOf("drives"))
  BY <1>1, OverSpiFits, OneStep
<1>6. \A hold \in BOOLEAN : ProgramChip(hold) \in Seq(StepsOf("drives"))
  <2> TAKE hold \in BOOLEAN
  <2>1. (IF hold THEN <<On("reset")>> ELSE <<>>) \in Seq(StepsOf("drives"))
    BY <1>1, OneStep, NoSteps
  <2>2. (IF hold THEN <<Off("reset")>> ELSE <<>>) \in Seq(StepsOf("drives"))
    BY <1>1, OneStep, NoSteps
  <2>3. OverSpi(<<Put("chip", "torn"), Put("chip", "new")>>) \in Seq(StepsOf("drives"))
    BY <1>3, OverSpiFits
  <2>4. (IF hold THEN <<On("reset")>> ELSE <<>>) \o OverSpi(<<Put("chip", "torn"), Put("chip", "new")>>)
          \in Seq(StepsOf("drives"))
    BY <2>1, <2>3, MoreSteps
  <2> QED BY <2>2, <2>4, MoreSteps DEF ProgramChip
<1>7. \A power \in BOOLEAN : Flash(power) \in Seq(StepsOf("drives"))
  <2> TAKE power \in BOOLEAN
  <2>1. (IF power THEN TargetPower(TRUE) ELSE <<>>) \in Seq(StepsOf("drives"))
    BY <1>1, OneStep, NoSteps DEF TargetPower, On
  <2> QED BY <1>3, <2>1, MoreSteps DEF Flash
<1>8. /\ RowFits(Row("spi_flash_info", "", "reads", OverSpi(<<>>)))
      /\ RowFits(Row("spi_flash_read", "", "reads", OverSpi(<<>>)))
      /\ RowFits(Row("spi_transfer", "", "drives", OverSpi(<<On("sent")>>)))
  BY <1>4, <1>5, TheRowFits DEF Hints
<1>9. /\ \A hold \in BOOLEAN : RowFits(Row("spi_flash_program", hold, "drives", ProgramChip(hold)))
      /\ \A power \in BOOLEAN : RowFits(Row("flash", power, "drives", Flash(power)))
  BY <1>6, <1>7, TheRowFits DEF Hints
<1> QED BY <1>8, <1>9 DEF SpiTools, FlashTools

(* The tools of the UART. *)
LEMMA UartFits ==
    ASSUME NEW b
    PROVE  \A r \in UartTools(b) : RowFits(r)
<1>1. PowerCycle \in Seq(StepsOf("drives"))
  <2>1. \A v \in BOOLEAN : <<Put("power", v)>> \in Seq(StepsOf("drives"))
    BY ThoseThatDrivePut, OneStep DEF Switches
  <2> QED BY <2>1, MoreSteps DEF PowerCycle, TargetPower
<1>2. <<CloseUart, On("console")>> \in Seq(StepsOf("plain")) /\ <<On("sent")>> \in Seq(StepsOf("plain"))
  <2>1. On("console") \in StepsOf("plain") /\ On("sent") \in StepsOf("plain")
    BY GentleOnesPut DEF On, Switches, Driven
  <2> QED BY <2>1, SessionFits, OneStep, TwoSteps
<1>3. <<Off("unread")>> \in Seq(StepsOf("reads"))
  BY ReadersPut, OneStep
<1>4. /\ RowFits(Row("capture_uart", "", "plain", CaptureUart))
      /\ RowFits(Row("power_cycle_and_capture", "", "drives", PowerCycle))
      /\ RowFits(Row("uart_open", "", "plain", <<CloseUart, On("console")>>))
      /\ RowFits(Row("uart_write", "", "plain", <<On("sent")>>))
      /\ RowFits(Row("uart_read", "", "reads", <<Off("unread")>>))
  BY <1>1, <1>2, <1>3, NoSteps, TheRowFits DEF Hints, CaptureUart
<1> QED BY <1>4 DEF UartTools

(* The tools of the emulated sensors and of the GPS. *)
LEMMA SensorsFit ==
    ASSUME NEW b
    PROVE  \A r \in SensorTools(b) \cup GpsTools(b) : RowFits(r)
<1>1. \A h \in {"repeats", "plain"} : \A f \in {"sensor", "fix"} : \A v \in {"off", "first", "next"} :
        <<Put(f, v)>> \in Seq(StepsOf(h))
  BY GentleOnesPut, FieldsAre, OneStep DEF Values, Driven
<1>2. \A values \in BOOLEAN : EnableSensor(values) \in Seq(StepsOf("plain"))
  <2> TAKE values \in BOOLEAN
  <2>1. (IF values THEN <<Put("sensor", "next")>> ELSE <<>>) \in Seq(StepsOf("plain"))
    BY <1>1, NoSteps
  <2> QED BY <1>1, <2>1, MoreSteps DEF EnableSensor
<1>3. SetSensor(b) \in Seq(StepsOf("repeats")) /\ SetGps(b) \in Seq(StepsOf("repeats"))
  BY <1>1, NoSteps DEF SetSensor, SetGps
<1>4. \A values \in BOOLEAN : RowFits(Row("enable_i2c_sensor", values, "plain", EnableSensor(values)))
  BY <1>2, TheRowFits DEF Hints
<1>5. /\ RowFits(Row("set_i2c_sensor", "", "repeats", SetSensor(b)))
      /\ RowFits(Row("disable_i2c_sensor", "", "repeats", <<Put("sensor", "off")>>))
      /\ RowFits(Row("i2c_sensor_types", "", "reads", <<>>)) /\ RowFits(Row("i2c_sensor_status", "", "reads", <<>>))
      /\ RowFits(Row("i2c_sensor_regs", "", "reads", <<>>)) /\ RowFits(Row("i2c_sensor_capture", "", "plain", <<>>))
  BY <1>1, <1>3, NoSteps, TheRowFits DEF Hints
<1>6. /\ RowFits(Row("enable_gps", "", "plain", EnableGps)) /\ RowFits(Row("set_gps", "", "repeats", SetGps(b)))
      /\ RowFits(Row("disable_gps", "", "repeats", <<Put("fix", "off")>>))
      /\ RowFits(Row("gps_status", "", "reads", <<>>))
  BY <1>1, <1>3, NoSteps, TheRowFits DEF Hints, EnableGps
<1> QED BY <1>4, <1>5, <1>6 DEF SensorTools, GpsTools

(* The tools of the pulls and of the network. *)
LEMMA PullsAndNetworkFit == \A r \in PullTools \cup NetworkTools : RowFits(r)
<1>1. \A on \in BOOLEAN : SetPull(on) \in Seq(StepsOf("repeats"))
  BY GentleOnesPut, OneStep DEF SetPull, Switches, Driven
<1>2. UsbNetworkOff("read") \in Seq(StepsOf("drives")) /\ UsbNetworkOff("off") \in Seq(StepsOf("drives"))
  <2>1. Off("usbNet") \in StepsOf("drives") /\ Off("link") \in StepsOf("drives")
    BY ThoseThatDrivePut DEF Off, Switches
  <2> QED BY <2>1, NoSteps, TwoSteps DEF UsbNetworkOff
<1>3. \A what \in {"read", "regenerate", "only"} : LanTls(what) \in Seq(StepsOf("drives"))
  <2>1. Put("cert", "new") \in StepsOf("drives") /\ On("httpsOnly") \in StepsOf("drives")
    BY ThoseThatDrivePut, FieldsAre DEF On, Switches, Values
  <2> QED BY <2>1, NoSteps, OneStep DEF LanTls
<1>4. /\ \A on \in BOOLEAN : RowFits(Row("set_pull", on, "repeats", SetPull(on)))
      /\ \A set \in {"read", "off"} : RowFits(Row("usb_network", set, "drives", UsbNetworkOff(set)))
      /\ \A what \in {"read", "regenerate", "only"} : RowFits(Row("lan_tls", what, "drives", LanTls(what)))
      /\ RowFits(Row("pull_status", "", "reads", <<>>))
  BY <1>1, <1>2, <1>3, NoSteps, TheRowFits DEF Hints
<1> QED BY <1>4 DEF PullTools, NetworkTools

(* The tools of GPIO. *)
LEMMA GpioFits ==
    ASSUME NEW b
    PROVE  \A r \in GpioTools(b) : RowFits(r)
<1>1. \A mode \in {"in", "low", "high"} : Put("pin", mode) \in StepsOf("drivesAgain")
  BY ThoseThatDrivePut, FieldsAre DEF Values
<1>2. Put("pin", "free") \in StepsOf("repeats")
  BY GentleOnesPut, FieldsAre DEF Values, Driven
<1>3. On("moved") \in StepsOf("drives")
  BY ThoseThatDrivePut DEF On, Switches
<1>4. /\ \A mode \in {"in", "low", "high"} : Gpio(mode) \in Seq(StepsOf("drivesAgain"))
      /\ \A level \in {"low", "high"} : SetGpio(b, level) \in Seq(StepsOf("drivesAgain"))
  BY <1>1, OneStep, NoSteps DEF Gpio, SetGpio
<1>5. Gpio("free") \in Seq(StepsOf("repeats")) /\ LaStep \in Seq(StepsOf("drives"))
  BY <1>2, <1>3, OneStep DEF Gpio, LaStep
<1>6. /\ \A mode \in {"in", "low", "high"} : RowFits(Row("gpio_mode", mode, "drivesAgain", Gpio(mode)))
      /\ \A level \in {"low", "high"} : RowFits(Row("gpio_write", level, "drivesAgain", SetGpio(b, level)))
      /\ RowFits(Row("gpio_release", "", "repeats", Gpio("free")))
      /\ RowFits(Row("gpio_pulse", "", "drives", LaStep))
      /\ RowFits(Row("la_pins", "", "reads", <<>>)) /\ RowFits(Row("gpio_read", "", "reads", <<>>))
      /\ RowFits(Row("gpio_wait", "", "reads", <<>>))
  BY <1>4, <1>5, NoSteps, TheRowFits DEF Hints
<1> QED BY <1>6 DEF GpioTools

(* The steps in which paths and outputs are switched. *)
LEMMA PathsFit ==
    ASSUME NEW h \in {"routes", "tests", "drives", "drivesAgain"}
    PROVE  /\ OutputsOff \in StepsOf(h)
           /\ h # "tests" => OnOutput \in StepsOf(h)
           /\ h = "routes" => \A p \in ToolPaths : \A r \in {"normal", "low"} : ApplyPath(p, r) \in StepsOf(h)
           /\ h \notin {"tests", "routes"} => \A to \in PlaysTo : RouteOutput(to) \in Seq(StepsOf(h))
           /\ h \in {"tests", "drivesAgain"} => DrivesItself \in StepsOf(h)
<1>1. Off("routed") \in StepsOf(h) /\ Off("volts") \in StepsOf(h)
  BY GentleOnesPut, ThoseThatDrivePut DEF Off, Switches, Driven
<1>2. h # "tests" => On("routed") \in StepsOf(h)
  BY GentleOnesPut, ThoseThatDrivePut DEF On, Switches
<1>3. \A v \in {"ext", "other"} : Put("route", v) \in StepsOf(h)
  BY GentleOnesPut, ThoseThatDrivePut, FieldsAre DEF Values, Driven
<1>4. \A r \in {"normal", "low"} : Put("range", r) \in StepsOf(h)
  BY GentleOnesPut, ThoseThatDrivePut, FieldsAre DEF Values, Driven
<1>5. OutputsOff \in StepsOf(h)
  BY <1>1, BothFit DEF OutputsOff
<1>6. h # "tests" => OnOutput \in StepsOf(h)
  BY <1>2, <1>3, BothFit DEF OnOutput
<1>7. ASSUME h = "routes", NEW p \in ToolPaths, NEW r \in {"normal", "low"}
      PROVE  ApplyPath(p, r) \in StepsOf(h)
  <2> DEFINE moves == CASE p = "dac" -> OnOutput
                        [] p = "adc_ext" -> Put("route", "ext")
                        [] p = "current_in" -> Put("route", "other")
                        [] p \in {"cal1", "cal2"} -> On("routed") ++ Put("route", "other")
                        [] p = "current_out" -> Off("routed")
                        [] p = "off" -> OutputsOff ++ Put("route", "ext")
             ends == IF p \in {"cal2", "off"} THEN "normal" ELSE r
  <2>1. On("routed") ++ Put("route", "other") \in StepsOf(h) /\ OutputsOff ++ Put("route", "ext") \in StepsOf(h)
    BY <1>2, <1>3, <1>5, <1>7, BothFit
  <2>2. moves \in StepsOf(h)
    BY <1>1, <1>3, <1>6, <1>7, <2>1 DEF ToolPaths
  <2>3. Put("range", ends) \in StepsOf(h)
    BY <1>4
  <2> HIDE DEF moves, ends
  <2>4. moves ++ Put("range", ends) \in StepsOf(h)
    BY <2>2, <2>3, BothFit
  <2> QED BY <2>4 DEF ApplyPath, moves, ends
<1>8. ASSUME h \notin {"tests", "routes"}, NEW to \in PlaysTo
      PROVE  RouteOutput(to) \in Seq(StepsOf(h))
  BY <1>1, <1>6, <1>8, OneStep, NoSteps DEF RouteOutput, PlaysTo
<1>9. ASSUME h \in {"tests", "drivesAgain"} PROVE DrivesItself \in StepsOf(h)
  <2>1. On("driven") \in StepsOf(h)
    BY <1>9, GentleOnesPut, ThoseThatDrivePut DEF On, Switches
  <2>2. On("driven") ++ OutputsOff \in StepsOf(h)
    BY <2>1, <1>5, BothFit
  <2> QED BY <2>2, <1>4, BothFit DEF DrivesItself
<1> QED BY <1>5, <1>6, <1>7, <1>8, <1>9

(* The tools that measure. *)
LEMMA AnalogFits ==
    ASSUME NEW b, Typed(b)
    PROVE  \A r \in AnalogTools(b) : RowFits(r)
<1>1. b.range \in {"normal", "low"}
  BY FieldsAre DEF Typed, Values
<1>2. \A p \in ToolPaths : \A r \in {"normal", "low", b.range} : <<ApplyPath(p, r)>> \in Seq(StepsOf("routes"))
  BY <1>1, PathsFit, OneStep
<1>3. \A r \in {"normal", "low"} : <<Put("range", r)>> \in Seq(StepsOf("repeats"))
  BY GentleOnesPut, FieldsAre, OneStep DEF Values, Driven
<1>4. RangeTest \in Seq(StepsOf("tests"))
  BY PathsFit, OneStep DEF RangeTest
<1>5. \A path \in {"ext", "other"} : \A r \in {"normal", "low"} : RouteAdc(path, r) \in Seq(StepsOf("reads"))
  <2>1. /\ \A path \in {"ext", "other"} : Put("route", path) \in StepsOf("reads")
        /\ \A r \in {"normal", "low"} : Put("range", r) \in StepsOf("reads")
    BY ReadersPut DEF Values
  <2> QED BY <2>1, BothFit, OneStep DEF RouteAdc
<1>6. \A a \in ToolPaths \X {"normal", "low", b.range} :
          RowFits(Row("analog_path", a, "repeats", <<ApplyPath(a[1], a[2])>>))
  BY <1>2, TheExcusedRowFits
<1>7. RowFits(Row("adc_range", "test", "repeats", RangeTest))
  BY <1>4, TheExcusedRowFits
<1>8. /\ \A r \in {"normal", "low", b.range} : RowFits(Row("adc_range", r, "repeats", <<Put("range", r)>>))
      /\ RowFits(Row("adc_read", "", "reads", RouteAdc("ext", b.range)))
      /\ RowFits(Row("adc_read", "range", "reads", RouteAdc("ext", "low")))
      /\ RowFits(Row("adc_read", "other", "reads", RouteAdc("other", "normal")))
  BY <1>1, <1>3, <1>5, TheRowFits DEF Hints
<1> QED BY <1>6, <1>7, <1>8 DEF AnalogTools

(* The tools of the outputs and of calibration. *)
LEMMA OutputsFit == \A r \in OutputTools \cup CalibrationTools : RowFits(r)
<1>1. \A f \in {"volts", "current", "calibrated", "measured"} : \A v \in BOOLEAN :
        Put(f, v) \in StepsOf("drivesAgain")
  BY ThoseThatDrivePut DEF Switches
<1>2. OnOutput \in StepsOf("drivesAgain") /\ OutputsOff \in StepsOf("drivesAgain")
      /\ DrivesItself \in StepsOf("drivesAgain")
  BY PathsFit
<1>3. \A clear \in BOOLEAN : Calibrate(clear) \in Seq(StepsOf("drivesAgain"))
  <2> TAKE clear \in BOOLEAN
  <2>1. \A v \in BOOLEAN : <<Put("calibrated", v)>> \in Seq(StepsOf("drivesAgain"))
    BY <1>1, OneStep
  <2>2. (~clear) = TRUE \/ (~clear) = FALSE
    OBVIOUS
  <2> QED BY <2>1, <2>2 DEF Calibrate
<1>4. GainFromLoop \in Seq(StepsOf("drivesAgain"))
  BY <1>1, <1>2, BothFit, OneStep DEF GainFromLoop, On
<1>7. \A what \in {"volts", "route", "off"} : HoldOutput(what) \in Seq(StepsOf("drivesAgain"))
  <2>1. On("volts") ++ OnOutput \in StepsOf("drivesAgain")
    BY <1>1, <1>2, BothFit DEF On
  <2> QED BY <1>2, <2>1, OneStep DEF HoldOutput
<1>8. HoldCurrent \in Seq(StepsOf("drivesAgain"))
  BY <1>1, <1>2, BothFit, OneStep DEF HoldCurrent, On
<1>5. /\ \A what \in {"volts", "route", "off"} : RowFits(Row("dac_output", what, "drivesAgain", HoldOutput(what)))
      /\ RowFits(Row("current_out", "", "drivesAgain", HoldCurrent))
      /\ RowFits(Row("current_out", "limits", "drivesAgain", <<>>))
  BY <1>7, <1>8, NoSteps, TheRowFits DEF Hints
<1>6. /\ \A clear \in BOOLEAN : RowFits(Row("calibrate", clear, "drivesAgain", Calibrate(clear)))
      /\ RowFits(Row("calibration", "", "reads", <<>>))
      /\ RowFits(Row("calibrate_dac", "", "drivesAgain", Calibrate(FALSE)))
      /\ RowFits(Row("calibrate_adc_gain", "", "drivesAgain", GainFromLoop))
  BY <1>3, <1>4, NoSteps, TheRowFits DEF Hints
<1> QED BY <1>5, <1>6 DEF OutputTools, CalibrationTools

(* Stopping a DAC. *)
LEMMA DacStopFits ==
    ASSUME NEW h \in {"repeats", "plain"}
    PROVE  DacStop \in Seq(StepsOf(h))
<1>1. Put("output", "off") \in StepsOf(h) /\ Off("loop") \in StepsOf(h)
  BY GentleOnesPut DEF Off, Switches, Driven
<1> QED BY <1>1, BothFit, OneStep DEF DacStop

(* The tools that capture and decode. *)
LEMMA CapturesFit ==
    ASSUME NEW b, Typed(b)
    PROVE  \A r \in CaptureTools(b) \cup DecodeTools(b) : RowFits(r)
<1>1. \A h \in {"plain", "routes"} :
          On("lastAdc") \in StepsOf(h) /\ On("lastLa") \in StepsOf(h) /\ On("lastAdc") ++ On("lastLa") \in StepsOf(h)
  <2> TAKE h \in {"plain", "routes"}
  <2>1. On("lastAdc") \in StepsOf(h) /\ On("lastLa") \in StepsOf(h)
    BY GentleOnesPut DEF On, Switches, Driven
  <2> QED BY <2>1, BothFit
<1>2. /\ <<On("lastLa")>> \in Seq(StepsOf("plain")) /\ <<On("lastAdc")>> \in Seq(StepsOf("plain"))
      /\ <<On("lastAdc") ++ On("lastLa")>> \in Seq(StepsOf("plain"))
  BY <1>1, OneStep
<1>3. \A s \in CaptureSources :
          /\ <<ApplyPath(s, b.range), On("lastAdc")>> \in Seq(StepsOf("routes"))
          /\ <<ApplyPath(s, b.range), On("lastAdc") ++ On("lastLa")>> \in Seq(StepsOf("routes"))
  <2>1. b.range \in {"normal", "low"} /\ CaptureSources \subseteq ToolPaths
    BY FieldsAre DEF Typed, Values, CaptureSources, ToolPaths
  <2>2. \A s \in CaptureSources : ApplyPath(s, b.range) \in StepsOf("routes")
    BY <2>1, PathsFit
  <2> QED BY <1>1, <2>2, TwoSteps
<1>4. DacStop \o <<On("lastLa")>> \in Seq(StepsOf("plain"))
  BY <1>2, DacStopFits, MoreSteps
<1>5. (IF b.lastLa THEN <<>> ELSE <<On("lastLa")>>) \in Seq(StepsOf("plain"))
  BY <1>2, NoSteps
<1>6. /\ RowFits(Row("capture_adc", "kept", "plain", <<On("lastAdc")>>))
      /\ RowFits(Row("capture_la", "", "plain", <<On("lastLa")>>))
      /\ RowFits(Row("capture_la", "stop_dac", "plain", DacStop \o <<On("lastLa")>>))
      /\ RowFits(Row("capture_correlated", "kept", "plain", <<On("lastAdc") ++ On("lastLa")>>))
      /\ RowFits(Row("decode_la", "new", "plain", <<On("lastLa")>>))
      /\ RowFits(Row("decode_la", "last", "plain", IF b.lastLa THEN <<>> ELSE <<On("lastLa")>>))
  BY <1>2, <1>4, <1>5, TheRowFits DEF Hints
<1>7. \A s \in CaptureSources :
          /\ RowFits(Row("capture_adc", s, "plain", <<ApplyPath(s, b.range), On("lastAdc")>>))
          /\ RowFits(Row("capture_correlated", s, "plain", <<ApplyPath(s, b.range), On("lastAdc") ++ On("lastLa")>>))
  BY <1>3, TheExcusedRowFits
<1>8. \A r \in CaptureTools(b) : RowFits(r)
  BY <1>6, <1>7 DEF CaptureTools
<1>9. \A r \in DecodeTools(b) : RowFits(r)
  BY <1>6 DEF DecodeTools
<1> QED BY <1>8, <1>9

(* The steps of a switch of the gateware image. *)
LEMMA SwitchedFits ==
    ASSUME NEW b, NEW image \in {"loop", "deep"}
    PROVE  Switched(b, image) \in Seq(StepsOf("drives"))
<1>1. Put("image", image) \in StepsOf("drives") /\ Put("output", "off") \in StepsOf("drives")
      /\ Off("loop") \in StepsOf("drives") /\ Put("sensor", "off") \in StepsOf("drives")
  BY ThoseThatDrivePut, FieldsAre DEF Off, Switches, Values
<1>2. Put("image", image) ++ Put("output", "off") ++ Off("loop") \in StepsOf("drives")
  BY <1>1, BothFit
<1> QED BY <1>1, <1>2, BothFit, OneStep, NoSteps DEF Switched

(* The tools of replays, the library, the control loop and the image. *)
LEMMA ReplaysFit ==
    ASSUME NEW b
    PROVE  \A r \in ReplayTools(b) \cup LibraryTools(b) \cup LoopTools(b) \cup ImageTools(b) : RowFits(r)
<1>1. /\ Put("output", "wave") \in StepsOf("drives") /\ Put("output", "replay") \in StepsOf("drives")
      /\ Put("output", "off") \in StepsOf("drives") /\ Off("loop") \in StepsOf("drives")
      /\ On("loop") \in StepsOf("drives") /\ Put("code", "start") \in StepsOf("drives")
      /\ Put("code", "next") \in StepsOf("drives")
  BY ThoseThatDrivePut, FieldsAre DEF On, Off, Switches, Values
<1>2. \A to \in PlaysTo : Waveform(to) \in Seq(StepsOf("drives"))
  <2>1. <<Put("output", "wave") ++ Off("loop")>> \in Seq(StepsOf("drives"))
    BY <1>1, BothFit, OneStep
  <2> QED BY <2>1, PathsFit, MoreSteps DEF Waveform
<1>3. \A deep \in BOOLEAN : \A to \in PlaysTo : ArmReplay(b, deep, to) \in Seq(StepsOf("drives"))
  <2> TAKE deep \in BOOLEAN
  <2> TAKE to \in PlaysTo
  <2>1. (IF deep THEN Switched(b, "deep") ELSE <<>>) \in Seq(StepsOf("drives"))
    BY SwitchedFits, NoSteps
  <2>2. <<Put("output", "replay") ++ Off("loop")>> \in Seq(StepsOf("drives"))
    BY <1>1, BothFit, OneStep
  <2>3. RouteOutput(to) \in Seq(StepsOf("drives"))
    BY PathsFit
  <2> QED BY <2>1, <2>2, <2>3, MoreSteps DEF ArmReplay
<1>4. ArmLoop(b) \in Seq(StepsOf("drives"))
  <2>1. On("loop") ++ Put("output", "off") ++ Put("code", "start") \in StepsOf("drives")
    BY <1>1, BothFit
  <2> QED BY <2>1, SwitchedFits, OneStep, MoreSteps DEF ArmLoop
<1>5. LoopInput(b) \in Seq(StepsOf("drives"))
  BY <1>1, OneStep, NoSteps DEF LoopInput
<1>6. SaveRecording(b) \in Seq(StepsOf("plain"))
  <2>1. \A v \in {"some", "more"} : Put("library", v) \in StepsOf("plain")
    BY GentleOnesPut, FieldsAre DEF Values, Driven
  <2> QED BY <2>1, OneStep, NoSteps DEF SaveRecording
<1>7. /\ RowFits(Row("dac_stop", "", "repeats", DacStop))
      /\ \A to \in PlaysTo : RowFits(Row("generate", to, "drives", Waveform(to)))
      /\ \A a \in BOOLEAN \X PlaysTo : RowFits(Row("replay", a, "drives", ArmReplay(b, a[1], a[2])))
  BY <1>2, <1>3, DacStopFits, TheRowFits DEF Hints
<1>8. /\ RowFits(Row("list_waveforms", "", "reads", <<>>))
      /\ RowFits(Row("save_capture_as_recording", "", "plain", SaveRecording(b)))
      /\ \A a \in BOOLEAN \X (PlaysTo \ {"kept"}) :
            RowFits(Row("replay_waveform", a, "drives", LibraryReplay(b, a[1], a[2])))
  BY <1>3, <1>6, NoSteps, TheRowFits DEF Hints, LibraryReplay
<1>9. /\ RowFits(Row("control_loop", "", "drives", ArmLoop(b))) /\ RowFits(Row("loop_input", "", "drives", LoopInput(b)))
      /\ RowFits(Row("loop_probe", "", "reads", <<>>))
      /\ \A i \in {"loop", "deep"} : RowFits(Row("fpga_image", i, "drives", Switched(b, i)))
  BY <1>4, <1>5, SwitchedFits, NoSteps, TheRowFits DEF Hints
<1>10. /\ \A r \in ReplayTools(b) : RowFits(r)
       /\ \A r \in LibraryTools(b) : RowFits(r)
  BY <1>7, <1>8 DEF ReplayTools, LibraryTools
<1>11. /\ \A r \in LoopTools(b) : RowFits(r)
       /\ \A r \in ImageTools(b) : RowFits(r)
  BY <1>9 DEF LoopTools, ImageTools
<1> QED BY <1>10, <1>11

(* The tools of CAN and what remains. *)
LEMMA CanAndOthersFit ==
    ASSUME NEW b
    PROVE  \A r \in CanTools(b) \cup OtherTools : RowFits(r)
<1>1. On("sent") \in StepsOf("drives") /\ On("rules") \in StepsOf("drives") /\ Off("rules") \in StepsOf("drives")
      /\ On("moved") \in StepsOf("drives") /\ On("power") \in StepsOf("drives")
  BY ThoseThatDrivePut DEF On, Off, Switches
<1>2. On("can") \in StepsOf("plain")
  BY GentleOnesPut DEF On, Switches, Driven
<1>3. <<CloseCan(TRUE), On("can")>> \in Seq(StepsOf("plain"))
  BY <1>2, SessionFits, TwoSteps
<1>4. /\ RowFits(Row("can_open", "", "plain", <<CloseCan(TRUE), On("can")>>)) /\ RowFits(Row("can_status", "", "reads", <<>>))
      /\ RowFits(Row("can_write", "", "drives", <<On("sent")>>))
      /\ RowFits(Row("can_read", "", "reads", <<Off("queue")>>))
      /\ RowFits(Row("can_respond", "", "drives", <<On("rules")>>))
      /\ RowFits(Row("can_respond", "clear", "drives", <<Off("rules")>>))
  BY <1>1, <1>3, ReadersPut, OneStep, NoSteps, TheRowFits DEF Hints
<1>5. RowFits(Row("la_step", "", "drives", LaStep)) /\ RowFits(Row("command", "", "drives", Command))
  BY <1>1, OneStep, TheRowFits DEF Hints, LaStep, Command
<1>6. \A r \in CanTools(b) : RowFits(r)
  BY <1>4 DEF CanTools
<1>7. \A r \in OtherTools : RowFits(r)
  BY <1>5 DEF OtherTools
<1> QED BY <1>6, <1>7

(* Every tool does what its hint lets it. *)
LEMMA TableFits ==
    ASSUME NEW b, Typed(b)
    PROVE  \A r \in Table(b) : RowFits(r)
<1>1. \A r \in Connected(b) : RowFits(r)
  BY WiringFits, PowerAndResetFit, SpiAndFlashFit, UartFits, SensorsFit, PullsAndNetworkFit, GpioFits, AnalogFits,
     OutputsFit, CapturesFit, ReplaysFit, CanAndOthersFit DEF Connected
<1> QED BY <1>1, UnconnectedFits DEF Table

-----------------------------------------------------------------------------
(* A field after some steps of a row is as it was, or the row's hint lets it be so. *)
LEMMA EveryFieldFits ==
    ASSUME NEW b, NEW r, RowFits(r), NEW n \in 0 .. Len(r.steps), NEW f \in DOMAIN b
    PROVE  \/ After(b, r.steps, n)[f] = b[f]
           \/ \E k : (k = r.hint \/ Excused(r, k)) /\ Fits(f, After(b, r.steps, n)[f], k)
<1>1. CASE After(b, r.steps, n)[f] = b[f]
  BY <1>1
<1>2. CASE \E i \in 1 .. n : LastPut(r.steps, n, f, i) /\ After(b, r.steps, n)[f] = r.steps[i][f]
  <2>1. PICK i \in 1 .. n : LastPut(r.steps, n, f, i) /\ After(b, r.steps, n)[f] = r.steps[i][f]
    BY <1>2
  <2>2. PICK k : (k = r.hint \/ Excused(r, k)) /\ r.steps \in Seq(StepsOf(k))
    BY DEF RowFits
  <2>3. r.steps[i] \in StepsOf(k)
    BY <2>2
  <2>4. f \in DOMAIN r.steps[i]
    BY <2>1 DEF LastPut
  <2>5. Fits(f, r.steps[i][f], k)
    BY <2>3, <2>4 DEF StepsOf
  <2> QED BY <2>1, <2>2, <2>5
<1>3. n \in Nat
  BY DEF RowFits
<1> QED BY <1>1, <1>2, <1>3, AfterIs

(* What fits leaves the scene in its types, however far a call comes. *)
LEMMA StaysTyped ==
    ASSUME NEW b, Typed(b), NEW r, RowFits(r), NEW n \in 0 .. Len(r.steps)
    PROVE  Typed(After(b, r.steps, n))
<1> DEFINE later == After(b, r.steps, n)
<1>1. DOMAIN b = Fields /\ n \in Nat
  BY DEF Typed, RowFits
<1>2. DOMAIN later = Fields
  BY <1>1, AfterIs
<1>3. \A f \in Fields : later[f] = b[f] \/ \E k : Fits(f, later[f], k)
  BY <1>1, EveryFieldFits
<1> HIDE DEF later
<1>4. \A f \in Switches : b[f] \in BOOLEAN /\ f \in Fields
  BY DEF Typed, Fields
<1>5. \A f \in DOMAIN Values : b[f] \in Values[f] /\ f \in Fields
  BY DEF Typed, Fields
<1>6. \A f \in Switches : later[f] \in BOOLEAN
  BY <1>3, <1>4 DEF Fits
<1>7. \A f \in DOMAIN Values : later[f] \in Values[f]
  BY <1>3, <1>5 DEF Fits
<1> QED BY <1>2, <1>6, <1>7 DEF Typed, later

(* The scene of the model in the types used here. *)
LEMMA ToolsType ==
    ToolsTypeOK <=> Typed(scene) /\ toolCalls \in 0 .. MaxCalls
BY DEF ToolsTypeOK, Typed, Fields

(* A read-only tool leaves all that an agent counts on, after each of its       *)
(* steps.                                                                       *)
LEMMA ReadersKeep ==
    ASSUME Typed(scene)
    PROVE  ReadOnlyKeeps
<1> SUFFICES ASSUME NEW r \in Table(scene), r.hint = "reads", NEW n \in 0 .. Len(r.steps), NEW f \in DOMAIN scene \ Heard
             PROVE  scene[f] = After(scene, r.steps, n)[f]
  BY DEF ReadOnlyKeeps, Same
<1>1. RowFits(r)
  BY TableFits
<1>2. \A k : ~Excused(r, k)
  BY DEF Excused
<1> QED BY <1>1, <1>2, EveryFieldFits DEF Fits

(* A tool that is not destructive leaves what drives the target as it is, or    *)
(* off.                                                                         *)
LEMMA GentleOnesKeep ==
    ASSUME Typed(scene)
    PROVE  GentleKeeps
<1> SUFFICES ASSUME NEW r \in Table(scene), Gentle(r), NEW n \in 0 .. Len(r.steps)
             PROVE  LET later == After(scene, r.steps, n)
                    IN  /\ Same(scene, later, Driven)
                        /\ later.output \in {scene.output, "off"}
                        /\ later.loop => scene.loop
                        /\ later.volts => scene.volts
                        /\ later.routed => scene.routed \/ Routes(r)
                        /\ later.driven => scene.driven \/ IsSelfTest(r)
  BY DEF GentleKeeps
<1> DEFINE later == After(scene, r.steps, n)
<1>1. RowFits(r) /\ DOMAIN scene = Fields
  BY TableFits DEF Typed
<1>2. \A f \in Fields : \/ later[f] = scene[f]
                        \/ \E k : (k = r.hint \/ Excused(r, k)) /\ Fits(f, later[f], k)
  BY <1>1, EveryFieldFits
<1> HIDE DEF later
<1>3. Driven \cup {"output", "loop", "volts", "routed", "driven"} \subseteq Fields
  BY FieldsAre DEF Driven, Switches
<1>7. \A k : k = r.hint \/ Excused(r, k) =>
          /\ k \in {"reads", "repeats", "plain", "routes", "tests"}
          /\ (k = "routes" => Routes(r)) /\ (k = "tests" => IsSelfTest(r))
  BY DEF Gentle, Excused
<1>8. ASSUME NEW f \in Fields, later[f] # scene[f]
      PROVE  /\ f \notin Driven /\ (f = "output" => later[f] = "off") /\ (f \in {"loop", "volts"} => later[f] = FALSE)
             /\ (f = "routed" => later[f] = FALSE \/ Routes(r)) /\ (f = "driven" => later[f] = FALSE \/ IsSelfTest(r))
  <2>1. PICK k : (k = r.hint \/ Excused(r, k)) /\ Fits(f, later[f], k)
    BY <1>2, <1>8
  <2>2. k \in {"reads", "repeats", "plain", "routes", "tests"}
    BY <2>1, <1>7
  <2>3. CASE k = "routes"
    BY <2>1, <2>3, <1>7 DEF Fits
  <2>4. CASE k = "tests"
    BY <2>1, <2>4, <1>7 DEF Fits
  <2>5. CASE k \in {"reads", "repeats", "plain"}
    BY <2>1, <2>5 DEF Fits
  <2> QED BY <2>2, <2>3, <2>4, <2>5
<1>4. Same(scene, later, Driven)
  BY <1>3, <1>8 DEF Same
<1>5. later.output \in {scene.output, "off"}
  BY <1>3, <1>8
<1>6. /\ (later.loop => scene.loop) /\ (later.volts => scene.volts)
      /\ (later.routed => scene.routed \/ Routes(r)) /\ (later.driven => scene.driven \/ IsSelfTest(r))
  BY <1>3, <1>8
<1> QED BY <1>4, <1>5, <1>6 DEF later

-----------------------------------------------------------------------------
(* The tools that may be called again, by name, and the steps of each. *)
Again == {"repeats", "drivesAgain"}
AgainNames ==
    {"connect", "disconnect", "uart_close", "can_close", "set_la_voltage", "set_wiring", "power_on", "power_off",
     "set_i2c_sensor", "disable_i2c_sensor", "set_gps", "disable_gps", "set_pull", "gpio_mode", "gpio_write",
     "gpio_release", "analog_path", "adc_range", "dac_output", "current_out", "calibrate", "calibrate_dac",
     "calibrate_adc_gain", "dac_stop"}
ConnectSteps(bank) ==
    <<Forgotten(TRUE)>> \o (IF bank = "asked" THEN SetBank("v3") ELSE <<>>) \o <<On("link")>>
CloseCanSteps(b, heard) == <<IF b.can THEN CloseCan(heard) ELSE CloseCan(FALSE)>>
AgainSteps(b, name, arg) ==
    CASE name = "connect" -> ConnectSteps(arg)
      [] name = "disconnect" -> <<Forgotten(arg)>>
      [] name = "uart_close" -> <<CloseUart>>
      [] name = "can_close" -> CloseCanSteps(b, arg)
      [] name = "set_la_voltage" -> SetBank(arg)
      [] name = "set_wiring" -> IF arg = "use" THEN <<On("given")>> ELSE <<On("given"), On("stored")>>
      [] name = "power_on" -> TargetPower(TRUE)
      [] name = "power_off" -> TargetPower(FALSE)
      [] name = "set_i2c_sensor" -> SetSensor(b)
      [] name = "disable_i2c_sensor" -> <<Put("sensor", "off")>>
      [] name = "set_gps" -> SetGps(b)
      [] name = "disable_gps" -> <<Put("fix", "off")>>
      [] name = "set_pull" -> SetPull(arg)
      [] name = "gpio_mode" -> Gpio(arg)
      [] name = "gpio_write" -> SetGpio(b, arg)
      [] name = "gpio_release" -> Gpio("free")
      [] name = "analog_path" -> <<ApplyPath(arg[1], arg[2])>>
      [] name = "adc_range" -> IF arg = "test" THEN RangeTest ELSE <<Put("range", arg)>>
      [] name = "dac_output" -> HoldOutput(arg)
      [] name = "current_out" -> IF arg = "" THEN HoldCurrent ELSE <<>>
      [] name = "calibrate" -> Calibrate(arg)
      [] name = "calibrate_dac" -> Calibrate(FALSE)
      [] name = "calibrate_adc_gain" -> GainFromLoop
      [] name = "dac_stop" -> DacStop
ArgFits(name, arg) ==
    (name = "gpio_write" => arg \in {"low", "high"}) /\ (name = "can_close" => arg \in BOOLEAN)
Known(b, r) ==
    /\ r.hint \in Again => r.call[1] \in AgainNames
    /\ r.call[1] \in AgainNames =>
          r.steps = AgainSteps(b, r.call[1], r.call[2]) /\ ArgFits(r.call[1], r.call[2])

(* A row that is not published as idempotent is not one to repeat. *)
LEMMA OtherRowKnown ==
    ASSUME NEW b, NEW name, NEW arg, NEW h, NEW q, h \notin Again, name \notin AgainNames
    PROVE  Known(b, Row(name, arg, h, q))
BY DEF Known, Row

(* A row to repeat has the steps that AgainSteps says. *)
LEMMA AgainRowKnown ==
    ASSUME NEW b, NEW name, name \in AgainNames, NEW arg, NEW h, NEW q, q = AgainSteps(b, name, arg),
           name = "gpio_write" => arg \in {"low", "high"}, name = "can_close" => arg \in BOOLEAN
    PROVE  Known(b, Row(name, arg, h, q))
BY DEF Known, Row, ArgFits

(* Of each group of tools: those to repeat are known by name. *)
LEMMA UnconnectedToolsKnown ==
    ASSUME NEW b
    PROVE  \A r \in Unconnected(b) : Known(b, r)
<1>1. "status" \notin AgainNames /\ "la_timing" \notin AgainNames /\ "cloud_list_devices" \notin AgainNames
  BY DEF AgainNames
<1>2. "reads" \notin Again /\ "plain" \notin Again /\ "drives" \notin Again
  BY DEF Again
<1>3. /\ "connect" \in AgainNames /\ "disconnect" \in AgainNames /\ "uart_close" \in AgainNames
      /\ "can_close" \in AgainNames
  BY DEF AgainNames
<1>4. \A bank \in {"asked", "kept"} : AgainSteps(b, "connect", bank)
          = <<Forgotten(TRUE)>> \o (IF bank = "asked" THEN SetBank("v3") ELSE <<>>) \o <<On("link")>>
  BY DEF AgainSteps, ConnectSteps
<1>5. \A bank \in {"asked", "kept"} :
          Known(b, Row("connect", bank, "repeats",
            <<Forgotten(TRUE)>> \o (IF bank = "asked" THEN SetBank("v3") ELSE <<>>) \o <<On("link")>>))
  BY <1>3, <1>4, AgainRowKnown
<1>6. \A r \in Connect(b) : Known(b, r)
  BY <1>5 DEF Connect
<1>7. \A heard \in BOOLEAN : AgainSteps(b, "disconnect", heard) = <<Forgotten(heard)>>
  BY DEF AgainSteps
<1>8. \A heard \in BOOLEAN : Known(b, Row("disconnect", heard, "repeats", <<Forgotten(heard)>>))
  BY <1>3, <1>7, AgainRowKnown
<1>9. \A r \in Disconnect : Known(b, r)
  BY <1>8 DEF Disconnect
<1>10. /\ Known(b, Row("status", "", "reads", <<>>))
      /\ Known(b, Row("la_timing", "", "reads", <<>>))
      /\ Known(b, Row("cloud_list_devices", "", "reads", <<>>))
  BY <1>1, <1>2, OtherRowKnown
<1>11. /\ AgainSteps(b, "uart_close", "") = <<CloseUart>>
      /\ \A heard \in BOOLEAN : AgainSteps(b, "can_close", heard)
                = <<IF b.can THEN CloseCan(heard) ELSE CloseCan(FALSE)>>
  BY DEF AgainSteps, CloseCanSteps
<1>12. /\ Known(b, Row("uart_close", "", "repeats", <<CloseUart>>))
      /\ \A heard \in BOOLEAN :
                Known(b, Row("can_close", heard, "repeats", <<IF b.can THEN CloseCan(heard) ELSE CloseCan(FALSE)>>))
  BY <1>3, <1>11, AgainRowKnown
<1>13. \A r \in Unconnected(b) : Known(b, r)
  BY <1>10, <1>12, <1>6, <1>9 DEF Unconnected
<1> QED BY <1>6, <1>9, <1>13

LEMMA SessionToolsKnown ==
    ASSUME NEW b
    PROVE  \A r \in WiringTools \cup PowerTools \cup ProfileTools(b) \cup ResetTools : Known(b, r)
<1>1. /\ "wiring" \notin AgainNames /\ "measure_power" \notin AgainNames
      /\ "power_profile_start" \notin AgainNames /\ "power_status" \notin AgainNames
      /\ "power_profile_stop" \notin AgainNames /\ "reset_target" \notin AgainNames
  BY DEF AgainNames
<1>2. "reads" \notin Again /\ "plain" \notin Again /\ "drives" \notin Again
  BY DEF Again
<1>3. /\ "set_la_voltage" \in AgainNames /\ "set_wiring" \in AgainNames /\ "power_on" \in AgainNames
      /\ "power_off" \in AgainNames
  BY DEF AgainNames
<1>4. Known(b, Row("wiring", "", "reads", <<>>))
  BY <1>1, <1>2, OtherRowKnown
<1>5. /\ \A v \in {"v1", "v3"} : AgainSteps(b, "set_la_voltage", v) = SetBank(v)
      /\ AgainSteps(b, "set_wiring", "use") = <<On("given")>>
      /\ AgainSteps(b, "set_wiring", "save") = <<On("given"), On("stored")>>
  BY DEF AgainSteps
<1>6. /\ \A v \in {"v1", "v3"} : Known(b, Row("set_la_voltage", v, "repeats", SetBank(v)))
      /\ Known(b, Row("set_wiring", "use", "repeats", <<On("given")>>))
      /\ Known(b, Row("set_wiring", "save", "repeats", <<On("given"), On("stored")>>))
  BY <1>3, <1>5, AgainRowKnown
<1>7. \A r \in WiringTools : Known(b, r)
  BY <1>4, <1>6 DEF WiringTools
<1>8. Known(b, Row("measure_power", "", "plain", <<>>))
  BY <1>1, <1>2, OtherRowKnown
<1>9. /\ AgainSteps(b, "power_on", "") = TargetPower(TRUE)
      /\ AgainSteps(b, "power_off", "") = TargetPower(FALSE)
  BY DEF AgainSteps
<1>10. /\ Known(b, Row("power_on", "", "drivesAgain", TargetPower(TRUE)))
      /\ Known(b, Row("power_off", "", "drivesAgain", TargetPower(FALSE)))
  BY <1>3, <1>9, AgainRowKnown
<1>11. \A r \in PowerTools : Known(b, r)
  BY <1>8, <1>10 DEF PowerTools
<1>12. /\ Known(b, Row("power_profile_start", "", "plain", <<On("profile")>>))
      /\ Known(b, Row("power_status", "", "reads", <<>>))
      /\ Known(b, Row("power_profile_stop", "", "plain", <<Off("profile")>>))
  BY <1>1, <1>2, OtherRowKnown
<1>13. \A r \in ProfileTools(b) : Known(b, r)
  BY <1>12 DEF ProfileTools
<1>14. \A a \in {"hold", "release", "pulse", "status"} : Known(b, Row("reset_target", a, "drives", ResetLine(a)))
  BY <1>1, <1>2, OtherRowKnown
<1>15. \A r \in ResetTools : Known(b, r)
  BY <1>14 DEF ResetTools
<1> QED BY <1>7, <1>11, <1>13, <1>15

LEMMA FlashToolsKnown ==
    ASSUME NEW b
    PROVE  \A r \in SpiTools \cup FlashTools \cup UartTools(b) \cup NetworkTools : Known(b, r)
<1>1. /\ "spi_flash_info" \notin AgainNames /\ "spi_flash_read" \notin AgainNames
      /\ "spi_transfer" \notin AgainNames /\ "spi_flash_program" \notin AgainNames /\ "flash" \notin AgainNames
      /\ "capture_uart" \notin AgainNames /\ "power_cycle_and_capture" \notin AgainNames
      /\ "uart_open" \notin AgainNames /\ "uart_write" \notin AgainNames /\ "uart_read" \notin AgainNames
      /\ "usb_network" \notin AgainNames /\ "lan_tls" \notin AgainNames
  BY DEF AgainNames
<1>2. "reads" \notin Again /\ "plain" \notin Again /\ "drives" \notin Again
  BY DEF Again
<1>3. /\ Known(b, Row("spi_flash_info", "", "reads", OverSpi(<<>>)))
      /\ Known(b, Row("spi_flash_read", "", "reads", OverSpi(<<>>)))
      /\ Known(b, Row("spi_transfer", "", "drives", OverSpi(<<On("sent")>>)))
      /\ \A hold \in BOOLEAN : Known(b, Row("spi_flash_program", hold, "drives", ProgramChip(hold)))
  BY <1>1, <1>2, OtherRowKnown
<1>4. \A r \in SpiTools : Known(b, r)
  BY <1>3 DEF SpiTools
<1>5. \A power \in BOOLEAN : Known(b, Row("flash", power, "drives", Flash(power)))
  BY <1>1, <1>2, OtherRowKnown
<1>6. \A r \in FlashTools : Known(b, r)
  BY <1>5 DEF FlashTools
<1>7. /\ Known(b, Row("capture_uart", "", "plain", CaptureUart))
      /\ Known(b, Row("power_cycle_and_capture", "", "drives", PowerCycle))
      /\ Known(b, Row("uart_open", "", "plain", <<CloseUart, On("console")>>))
      /\ Known(b, Row("uart_write", "", "plain", <<On("sent")>>))
      /\ Known(b, Row("uart_read", "", "reads", <<Off("unread")>>))
  BY <1>1, <1>2, OtherRowKnown
<1>8. \A r \in UartTools(b) : Known(b, r)
  BY <1>7 DEF UartTools
<1>9. /\ \A set \in {"read", "off"} : Known(b, Row("usb_network", set, "drives", UsbNetworkOff(set)))
      /\ \A what \in {"read", "regenerate", "only"} : Known(b, Row("lan_tls", what, "drives", LanTls(what)))
  BY <1>1, <1>2, OtherRowKnown
<1>10. \A r \in NetworkTools : Known(b, r)
  BY <1>9 DEF NetworkTools
<1> QED BY <1>4, <1>6, <1>8, <1>10

LEMMA SensorToolsKnown ==
    ASSUME NEW b
    PROVE  \A r \in SensorTools(b) \cup GpsTools(b) \cup PullTools : Known(b, r)
<1>1. /\ "enable_i2c_sensor" \notin AgainNames /\ "i2c_sensor_types" \notin AgainNames
      /\ "i2c_sensor_status" \notin AgainNames /\ "i2c_sensor_regs" \notin AgainNames
      /\ "i2c_sensor_capture" \notin AgainNames /\ "enable_gps" \notin AgainNames
      /\ "gps_status" \notin AgainNames /\ "pull_status" \notin AgainNames
  BY DEF AgainNames
<1>2. "reads" \notin Again /\ "plain" \notin Again /\ "drives" \notin Again
  BY DEF Again
<1>3. /\ "set_i2c_sensor" \in AgainNames /\ "disable_i2c_sensor" \in AgainNames /\ "set_gps" \in AgainNames
      /\ "disable_gps" \in AgainNames /\ "set_pull" \in AgainNames
  BY DEF AgainNames
<1>4. /\ \A values \in BOOLEAN : Known(b, Row("enable_i2c_sensor", values, "plain", EnableSensor(values)))
      /\ Known(b, Row("i2c_sensor_types", "", "reads", <<>>))
      /\ Known(b, Row("i2c_sensor_status", "", "reads", <<>>))
      /\ Known(b, Row("i2c_sensor_regs", "", "reads", <<>>))
      /\ Known(b, Row("i2c_sensor_capture", "", "plain", <<>>))
  BY <1>1, <1>2, OtherRowKnown
<1>5. /\ AgainSteps(b, "set_i2c_sensor", "") = SetSensor(b)
      /\ AgainSteps(b, "disable_i2c_sensor", "") = <<Put("sensor", "off")>>
  BY DEF AgainSteps
<1>6. /\ Known(b, Row("set_i2c_sensor", "", "repeats", SetSensor(b)))
      /\ Known(b, Row("disable_i2c_sensor", "", "repeats", <<Put("sensor", "off")>>))
  BY <1>3, <1>5, AgainRowKnown
<1>7. \A r \in SensorTools(b) : Known(b, r)
  BY <1>4, <1>6 DEF SensorTools
<1>8. /\ Known(b, Row("enable_gps", "", "plain", EnableGps))
      /\ Known(b, Row("gps_status", "", "reads", <<>>))
  BY <1>1, <1>2, OtherRowKnown
<1>9. /\ AgainSteps(b, "set_gps", "") = SetGps(b)
      /\ AgainSteps(b, "disable_gps", "") = <<Put("fix", "off")>>
  BY DEF AgainSteps
<1>10. /\ Known(b, Row("set_gps", "", "repeats", SetGps(b)))
      /\ Known(b, Row("disable_gps", "", "repeats", <<Put("fix", "off")>>))
  BY <1>3, <1>9, AgainRowKnown
<1>11. \A r \in GpsTools(b) : Known(b, r)
  BY <1>8, <1>10 DEF GpsTools
<1>12. Known(b, Row("pull_status", "", "reads", <<>>))
  BY <1>1, <1>2, OtherRowKnown
<1>13. \A on \in BOOLEAN : AgainSteps(b, "set_pull", on) = SetPull(on)
  BY DEF AgainSteps
<1>14. \A on \in BOOLEAN : Known(b, Row("set_pull", on, "repeats", SetPull(on)))
  BY <1>3, <1>13, AgainRowKnown
<1>15. \A r \in PullTools : Known(b, r)
  BY <1>12, <1>14 DEF PullTools
<1> QED BY <1>7, <1>11, <1>15

LEMMA GpioToolsKnown ==
    ASSUME NEW b
    PROVE  \A r \in GpioTools(b) : Known(b, r)
<1>1. /\ "gpio_pulse" \notin AgainNames /\ "la_pins" \notin AgainNames /\ "gpio_read" \notin AgainNames
      /\ "gpio_wait" \notin AgainNames
  BY DEF AgainNames
<1>2. "reads" \notin Again /\ "plain" \notin Again /\ "drives" \notin Again
  BY DEF Again
<1>3. "gpio_mode" \in AgainNames /\ "gpio_write" \in AgainNames /\ "gpio_release" \in AgainNames
  BY DEF AgainNames
<1>4. /\ Known(b, Row("gpio_pulse", "", "drives", LaStep))
      /\ Known(b, Row("la_pins", "", "reads", <<>>))
      /\ Known(b, Row("gpio_read", "", "reads", <<>>))
      /\ Known(b, Row("gpio_wait", "", "reads", <<>>))
  BY <1>1, <1>2, OtherRowKnown
<1>5. /\ \A mode \in {"in", "low", "high"} : AgainSteps(b, "gpio_mode", mode) = Gpio(mode)
      /\ \A level \in {"low", "high"} : AgainSteps(b, "gpio_write", level) = SetGpio(b, level)
      /\ AgainSteps(b, "gpio_release", "") = Gpio("free")
  BY DEF AgainSteps
<1>6. /\ \A mode \in {"in", "low", "high"} : Known(b, Row("gpio_mode", mode, "drivesAgain", Gpio(mode)))
      /\ \A level \in {"low", "high"} : Known(b, Row("gpio_write", level, "drivesAgain", SetGpio(b, level)))
      /\ Known(b, Row("gpio_release", "", "repeats", Gpio("free")))
  BY <1>3, <1>5, AgainRowKnown
<1>7. \A r \in GpioTools(b) : Known(b, r)
  BY <1>4, <1>6 DEF GpioTools
<1> QED BY <1>7

LEMMA AnalogToolsKnown ==
    ASSUME NEW b, Typed(b)
    PROVE  \A r \in AnalogTools(b) \cup ReplayTools(b) : Known(b, r)
<1>1. "adc_read" \notin AgainNames /\ "generate" \notin AgainNames /\ "replay" \notin AgainNames
  BY DEF AgainNames
<1>2. "reads" \notin Again /\ "plain" \notin Again /\ "drives" \notin Again
  BY DEF Again
<1>3. "analog_path" \in AgainNames /\ "adc_range" \in AgainNames /\ "dac_stop" \in AgainNames
  BY DEF AgainNames
<1>4. \A r \in {"normal", "low", b.range} : r # "test"
  BY FieldsAre DEF Typed, Values
<1>5. /\ Known(b, Row("adc_read", "", "reads", RouteAdc("ext", b.range)))
      /\ Known(b, Row("adc_read", "range", "reads", RouteAdc("ext", "low")))
      /\ Known(b, Row("adc_read", "other", "reads", RouteAdc("other", "normal")))
  BY <1>1, <1>2, OtherRowKnown
<1>6. /\ \A a \in ToolPaths \X {"normal", "low", b.range} :
            AgainSteps(b, "analog_path", a) = <<ApplyPath(a[1], a[2])>>
      /\ \A r \in {"normal", "low", b.range} : AgainSteps(b, "adc_range", r) = <<Put("range", r)>>
      /\ AgainSteps(b, "adc_range", "test") = RangeTest
  BY <1>4 DEF AgainSteps
<1>7. /\ \A a \in ToolPaths \X {"normal", "low", b.range} :
            Known(b, Row("analog_path", a, "repeats", <<ApplyPath(a[1], a[2])>>))
      /\ \A r \in {"normal", "low", b.range} : Known(b, Row("adc_range", r, "repeats", <<Put("range", r)>>))
      /\ Known(b, Row("adc_range", "test", "repeats", RangeTest))
  BY <1>3, <1>6, AgainRowKnown
<1>8. \A r \in AnalogTools(b) : Known(b, r)
  BY <1>5, <1>7 DEF AnalogTools
<1>9. /\ \A to \in PlaysTo : Known(b, Row("generate", to, "drives", Waveform(to)))
      /\ \A a \in BOOLEAN \X PlaysTo : Known(b, Row("replay", a, "drives", ArmReplay(b, a[1], a[2])))
  BY <1>1, <1>2, OtherRowKnown
<1>10. AgainSteps(b, "dac_stop", "") = DacStop
  BY <1>4 DEF AgainSteps
<1>11. Known(b, Row("dac_stop", "", "repeats", DacStop))
  BY <1>3, <1>10, AgainRowKnown
<1>12. \A r \in ReplayTools(b) : Known(b, r)
  BY <1>9, <1>11 DEF ReplayTools
<1> QED BY <1>8, <1>12

LEMMA OutputToolsKnown ==
    ASSUME NEW b
    PROVE  \A r \in OutputTools \cup CalibrationTools : Known(b, r)
<1>1. "calibration" \notin AgainNames
  BY DEF AgainNames
<1>2. "reads" \notin Again /\ "plain" \notin Again /\ "drives" \notin Again
  BY DEF Again
<1>3. /\ "dac_output" \in AgainNames /\ "current_out" \in AgainNames /\ "calibrate" \in AgainNames
      /\ "calibrate_dac" \in AgainNames /\ "calibrate_adc_gain" \in AgainNames
  BY DEF AgainNames
<1>4. /\ \A what \in {"volts", "route", "off"} : AgainSteps(b, "dac_output", what) = HoldOutput(what)
      /\ AgainSteps(b, "current_out", "") = HoldCurrent
      /\ AgainSteps(b, "current_out", "limits") = <<>>
  BY DEF AgainSteps
<1>5. /\ \A what \in {"volts", "route", "off"} : Known(b, Row("dac_output", what, "drivesAgain", HoldOutput(what)))
      /\ Known(b, Row("current_out", "", "drivesAgain", HoldCurrent))
      /\ Known(b, Row("current_out", "limits", "drivesAgain", <<>>))
  BY <1>3, <1>4, AgainRowKnown
<1>6. \A r \in OutputTools : Known(b, r)
  BY <1>5 DEF OutputTools
<1>7. Known(b, Row("calibration", "", "reads", <<>>))
  BY <1>1, <1>2, OtherRowKnown
<1>8. /\ \A clear \in BOOLEAN : AgainSteps(b, "calibrate", clear) = Calibrate(clear)
      /\ AgainSteps(b, "calibrate_dac", "") = Calibrate(FALSE)
      /\ AgainSteps(b, "calibrate_adc_gain", "") = GainFromLoop
  BY DEF AgainSteps
<1>9. /\ \A clear \in BOOLEAN : Known(b, Row("calibrate", clear, "drivesAgain", Calibrate(clear)))
      /\ Known(b, Row("calibrate_dac", "", "drivesAgain", Calibrate(FALSE)))
      /\ Known(b, Row("calibrate_adc_gain", "", "drivesAgain", GainFromLoop))
  BY <1>3, <1>8, AgainRowKnown
<1>10. \A r \in CalibrationTools : Known(b, r)
  BY <1>7, <1>9 DEF CalibrationTools
<1> QED BY <1>6, <1>10

LEMMA CaptureToolsKnown ==
    ASSUME NEW b
    PROVE  \A r \in CaptureTools(b) \cup DecodeTools(b) \cup LibraryTools(b) : Known(b, r)
<1>1. /\ "capture_adc" \notin AgainNames /\ "capture_la" \notin AgainNames
      /\ "capture_correlated" \notin AgainNames /\ "decode_la" \notin AgainNames
      /\ "list_waveforms" \notin AgainNames /\ "save_capture_as_recording" \notin AgainNames
      /\ "replay_waveform" \notin AgainNames
  BY DEF AgainNames
<1>2. "reads" \notin Again /\ "plain" \notin Again /\ "drives" \notin Again
  BY DEF Again
<1>3. /\ Known(b, Row("capture_adc", "kept", "plain", <<On("lastAdc")>>))
      /\ Known(b, Row("capture_la", "", "plain", <<On("lastLa")>>))
      /\ Known(b, Row("capture_la", "stop_dac", "plain", DacStop \o <<On("lastLa")>>))
      /\ Known(b, Row("capture_correlated", "kept", "plain", <<On("lastAdc") ++ On("lastLa")>>))
  BY <1>1, <1>2, OtherRowKnown
<1>9. \A s \in CaptureSources :
          /\ Known(b, Row("capture_adc", s, "plain", <<ApplyPath(s, b.range), On("lastAdc")>>))
          /\ Known(b, Row("capture_correlated", s, "plain", <<ApplyPath(s, b.range), On("lastAdc") ++ On("lastLa")>>))
  BY <1>1, <1>2, OtherRowKnown
<1>4. \A r \in CaptureTools(b) : Known(b, r)
  BY <1>3, <1>9 DEF CaptureTools
<1>5. /\ Known(b, Row("decode_la", "new", "plain", <<On("lastLa")>>))
      /\ Known(b, Row("decode_la", "last", "plain", IF b.lastLa THEN <<>> ELSE <<On("lastLa")>>))
  BY <1>1, <1>2, OtherRowKnown
<1>6. \A r \in DecodeTools(b) : Known(b, r)
  BY <1>5 DEF DecodeTools
<1>7. /\ Known(b, Row("list_waveforms", "", "reads", <<>>))
      /\ Known(b, Row("save_capture_as_recording", "", "plain", SaveRecording(b)))
      /\ \A a \in BOOLEAN \X (PlaysTo \ {"kept"}) :
            Known(b, Row("replay_waveform", a, "drives", LibraryReplay(b, a[1], a[2])))
  BY <1>1, <1>2, OtherRowKnown
<1>8. \A r \in LibraryTools(b) : Known(b, r)
  BY <1>7 DEF LibraryTools
<1> QED BY <1>4, <1>6, <1>8

LEMMA LoopToolsKnown ==
    ASSUME NEW b
    PROVE  \A r \in LoopTools(b) \cup ImageTools(b) \cup CanTools(b) \cup OtherTools : Known(b, r)
<1>1. /\ "control_loop" \notin AgainNames /\ "loop_input" \notin AgainNames /\ "loop_probe" \notin AgainNames
      /\ "fpga_image" \notin AgainNames /\ "can_open" \notin AgainNames /\ "can_status" \notin AgainNames
      /\ "can_write" \notin AgainNames /\ "can_read" \notin AgainNames /\ "can_respond" \notin AgainNames
      /\ "la_step" \notin AgainNames /\ "command" \notin AgainNames
  BY DEF AgainNames
<1>2. "reads" \notin Again /\ "plain" \notin Again /\ "drives" \notin Again
  BY DEF Again
<1>3. /\ Known(b, Row("control_loop", "", "drives", ArmLoop(b)))
      /\ Known(b, Row("loop_input", "", "drives", LoopInput(b)))
      /\ Known(b, Row("loop_probe", "", "reads", <<>>))
  BY <1>1, <1>2, OtherRowKnown
<1>4. \A r \in LoopTools(b) : Known(b, r)
  BY <1>3 DEF LoopTools
<1>5. \A i \in {"loop", "deep"} : Known(b, Row("fpga_image", i, "drives", Switched(b, i)))
  BY <1>1, <1>2, OtherRowKnown
<1>6. \A r \in ImageTools(b) : Known(b, r)
  BY <1>5 DEF ImageTools
<1>7. /\ Known(b, Row("can_open", "", "plain", <<CloseCan(TRUE), On("can")>>))
      /\ Known(b, Row("can_status", "", "reads", <<>>))
      /\ Known(b, Row("can_write", "", "drives", <<On("sent")>>))
      /\ Known(b, Row("can_read", "", "reads", <<Off("queue")>>))
      /\ Known(b, Row("can_respond", "", "drives", <<On("rules")>>))
      /\ Known(b, Row("can_respond", "clear", "drives", <<Off("rules")>>))
  BY <1>1, <1>2, OtherRowKnown
<1>8. \A r \in CanTools(b) : Known(b, r)
  BY <1>7 DEF CanTools
<1>9. /\ Known(b, Row("la_step", "", "drives", LaStep))
      /\ Known(b, Row("command", "", "drives", Command))
  BY <1>1, <1>2, OtherRowKnown
<1>10. \A r \in OtherTools : Known(b, r)
  BY <1>9 DEF OtherTools
<1> QED BY <1>4, <1>6, <1>8, <1>10

LEMMA TableKnown ==
    ASSUME NEW b, Typed(b)
    PROVE  \A r \in Table(b) : Known(b, r)
<1>1. \A r \in Connected(b) : Known(b, r)
  BY SessionToolsKnown, FlashToolsKnown, SensorToolsKnown, GpioToolsKnown, AnalogToolsKnown, OutputToolsKnown,
     CaptureToolsKnown, LoopToolsKnown DEF Connected
<1> QED BY <1>1, UnconnectedToolsKnown DEF Table

-----------------------------------------------------------------------------
(* One step, all of it. *)
LEMMA AfterOne ==
    ASSUME NEW b, NEW t
    PROVE  /\ DOMAIN After(b, <<t>>, 1) = DOMAIN b
           /\ After(b, <<t>>, 1) = [f \in DOMAIN b |-> After(b, <<t>>, 1)[f]]
           /\ \A f \in DOMAIN b : After(b, <<t>>, 1)[f] = IF f \in DOMAIN t THEN t[f] ELSE b[f]
<1>1. \A i \in 1 .. 1 : <<t>>[i] = t
  OBVIOUS
<1>2. 1 \in Nat /\ 1 \in 1 .. 1
  OBVIOUS
<1> DEFINE later == After(b, <<t>>, 1)
<1>3. /\ later = [f \in DOMAIN b |-> later[f]] /\ DOMAIN later = DOMAIN b
      /\ \A f \in DOMAIN b :
                \/ (\A i \in 1 .. 1 : f \notin DOMAIN <<t>>[i]) /\ later[f] = b[f]
                \/ \E i \in 1 .. 1 : LastPut(<<t>>, 1, f, i) /\ later[f] = <<t>>[i][f]
  BY <1>2, AfterIs
<1>4. \A f \in DOMAIN b : later[f] = IF f \in DOMAIN t THEN t[f] ELSE b[f]
  <2> HIDE DEF later
  <2> QED BY <1>1, <1>2, <1>3 DEF LastPut
<1> QED BY <1>3, <1>4

(* After one step that puts a field it has that value. *)
LEMMA AfterPut ==
    ASSUME NEW b, NEW v, NEW f \in DOMAIN b
    PROVE  After(b, <<Put(f, v)>>, 1)[f] = v
<1>1. f \in DOMAIN Put(f, v) /\ Put(f, v)[f] = v
  BY DEF Put
<1> QED BY <1>1, AfterOne

(* Closing the bus once more ends where closing it did. *)
LEMMA CanClosesOnce ==
    ASSUME NEW b, Typed(b), NEW heard \in BOOLEAN
    PROVE  LET cut == After(b, CloseCanSteps(b, heard), 1)
           IN  After(cut, CloseCanSteps(cut, heard), 1) = cut
<1> DEFINE t == IF b.can THEN CloseCan(heard) ELSE CloseCan(FALSE)
           cut == After(b, <<t>>, 1)
           u == CloseCan(FALSE)
           then == After(cut, <<u>>, 1)
<1>1. DOMAIN b = Fields /\ "can" \in Fields /\ "queue" \in Fields
  BY DEF Typed, Fields, Switches
<1>2. /\ DOMAIN u = {"can", "queue"} /\ u["can"] = FALSE /\ u["queue"] = FALSE
  BY DEF CloseCan, ++, Off, Put
<1>3. /\ "can" \in DOMAIN t /\ "queue" \in DOMAIN t /\ t["can"] = FALSE /\ t["queue"] = FALSE
  BY DEF CloseCan, ++, Off, Put
<1>4. cut["can"] = FALSE /\ cut["queue"] = FALSE /\ DOMAIN cut = Fields
  <2> HIDE DEF t
  <2> QED BY <1>1, <1>3, AfterOne
<1>5. CloseCanSteps(b, heard) = <<t>> /\ CloseCanSteps(cut, heard) = <<u>>
  BY <1>4 DEF CloseCanSteps
<1>6. then = cut
  <2>1. cut = [f \in Fields |-> cut[f]]
    <3> HIDE DEF t
    <3> QED BY <1>1, AfterOne
  <2>2. then = [f \in Fields |-> then[f]] /\ \A f \in Fields : then[f] = IF f \in DOMAIN u THEN u[f] ELSE cut[f]
    <3> HIDE DEF cut, u
    <3> QED BY <1>4, AfterOne
  <2>3. \A f \in Fields : then[f] = cut[f]
    <3> HIDE DEF cut, u, then
    <3> QED BY <1>2, <1>4, <2>2
  <2> HIDE DEF cut, then
  <2> QED BY <2>1, <2>2, <2>3
<1> HIDE DEF cut, u, t
<1> QED BY <1>5, <1>6 DEF cut, t, u

(* A tool whose steps depend on what it finds finds the same after some of them. *)
LEMMA SameStepsFound ==
    ASSUME NEW b, Typed(b), NEW r \in Table(b), r.hint \in Again, r.call[1] # "can_close",
           NEW n \in 1 .. Len(r.steps)
    PROVE  AgainSteps(After(b, r.steps, n), r.call[1], r.call[2]) = r.steps
<1> DEFINE cut == After(b, r.steps, n)
           name == r.call[1]
           arg == r.call[2]
<1>1. r.steps = AgainSteps(b, name, arg) /\ name \in AgainNames /\ ArgFits(name, arg)
  BY TableKnown DEF Known
<1>2. DOMAIN b = Fields /\ {"sensor", "fix", "pin"} \subseteq Fields
  BY FieldsAre DEF Typed
<1>3. CASE name = "set_i2c_sensor"
  <2>1. r.steps = SetSensor(b)
    BY <1>1, <1>3 DEF AgainSteps
  <2>2. b.sensor # "off" /\ n = 1
    BY <2>1 DEF SetSensor
  <2>3. r.steps = <<Put("sensor", "next")>>
    BY <2>1, <2>2 DEF SetSensor
  <2>4. cut.sensor = "next"
    BY <1>2, <2>2, <2>3, AfterPut
  <2>5. SetSensor(cut) = <<Put("sensor", "next")>>
    BY <2>4 DEF SetSensor
  <2> QED BY <1>3, <2>3, <2>5 DEF AgainSteps
<1>4. CASE name = "set_gps"
  <2>1. r.steps = SetGps(b)
    BY <1>1, <1>4 DEF AgainSteps
  <2>2. b.fix # "off" /\ n = 1
    BY <2>1 DEF SetGps
  <2>3. r.steps = <<Put("fix", "next")>>
    BY <2>1, <2>2 DEF SetGps
  <2>4. cut.fix = "next"
    BY <1>2, <2>2, <2>3, AfterPut
  <2>5. SetGps(cut) = <<Put("fix", "next")>>
    BY <2>4 DEF SetGps
  <2> QED BY <1>4, <2>3, <2>5 DEF AgainSteps
<1>5. CASE name = "gpio_write"
  <2>1. r.steps = SetGpio(b, arg)
    BY <1>1, <1>5 DEF AgainSteps
  <2>2. b.pin \notin {"free", "in"} /\ n = 1
    BY <2>1 DEF SetGpio
  <2>3. r.steps = <<Put("pin", arg)>>
    BY <2>1, <2>2 DEF SetGpio
  <2>4. cut.pin = arg
    BY <1>2, <2>2, <2>3, AfterPut
  <2>5. arg \notin {"free", "in"}
    BY <1>1, <1>5 DEF ArgFits
  <2>6. SetGpio(cut, arg) = <<Put("pin", arg)>>
    BY <2>4, <2>5 DEF SetGpio
  <2> QED BY <1>5, <2>3, <2>6 DEF AgainSteps
<1>6. CASE name \notin {"can_close", "set_i2c_sensor", "set_gps", "gpio_write"}
  <2>1. \A c : AgainSteps(c, name, arg) = AgainSteps(b, name, arg)
    BY <1>1, <1>6, ZenonT(30) DEF AgainSteps, AgainNames
  <2> QED BY <1>1, <2>1
<1> QED BY <1>3, <1>4, <1>5, <1>6

(* An idempotent tool whose call was cut off leaves, called again, what the     *)
(* whole call would have.                                                       *)
LEMMA RetriesAreSafe ==
    ASSUME Typed(scene)
    PROVE  RetryIsSafe
<1> SUFFICES ASSUME NEW r \in Table(scene), r.hint \in Again, NEW n \in 1 .. Len(r.steps),
                    NEW again \in Table(After(scene, r.steps, n)), again.call = r.call
             PROVE  Done(After(scene, r.steps, n), again) = Done(scene, r)
  BY DEF RetryIsSafe, Again
<1> DEFINE cut == After(scene, r.steps, n)
           name == r.call[1]
           arg == r.call[2]
<1>1. RowFits(r) /\ Known(scene, r)
  BY TableFits, TableKnown
<1>2. Len(r.steps) \in Nat /\ n \in 0 .. Len(r.steps)
  BY <1>1 DEF RowFits
<1>3. Typed(cut)
  BY <1>1, <1>2, StaysTyped
<1>4. name \in AgainNames /\ r.steps = AgainSteps(scene, name, arg) /\ ArgFits(name, arg)
  BY <1>1 DEF Known
<1>5. again.steps = AgainSteps(cut, name, arg)
  BY <1>3, <1>4, TableKnown DEF Known
<1>6. CASE name # "can_close"
  <2>1. again.steps = r.steps
    BY <1>5, <1>6, SameStepsFound
  <2> QED BY <1>2, <2>1, SameStepsAgain DEF Done
<1>7. CASE name = "can_close"
  <2>1. r.steps = CloseCanSteps(scene, arg) /\ again.steps = CloseCanSteps(cut, arg)
    BY <1>4, <1>5, <1>7 DEF AgainSteps
  <2>2. Len(r.steps) = 1 /\ Len(again.steps) = 1
    BY <2>1 DEF CloseCanSteps
  <2>3. n = 1
    BY <2>2
  <2>5. arg \in BOOLEAN
    BY <1>4, <1>7 DEF ArgFits
  <2>4. After(cut, again.steps, 1) = cut
    BY <1>7, <2>1, <2>3, <2>5, CanClosesOnce
  <2> QED BY <2>2, <2>3, <2>4 DEF Done
<1> QED BY <1>6, <1>7

-----------------------------------------------------------------------------
(* What the tools' properties rest on: the scene is typed, and so every hint holds. *)
LEMMA HintsHold ==
    ASSUME ToolsTypeOK
    PROVE  ToolsInv
BY ToolsType, ReadersKeep, GentleOnesKeep, RetriesAreSafe DEF ToolsInv

(* The first scene is typed. *)
LEMMA ToolsStart ==
    ASSUME ToolsInit
    PROVE  ToolsTypeOK
<1> PICK linked, deep \in BOOLEAN :
         scene = [bank |-> "none", pin |-> "free", sensor |-> "off", fix |-> "off", firmware |-> "old",
                  chip |-> "old", cert |-> "old", route |-> "ext", range |-> "normal", output |-> "off",
                  code |-> "start", image |-> IF deep THEN "deep" ELSE "loop", library |-> "empty"]
                 ++ [Quiet EXCEPT !.link = linked]
  BY DEF ToolsInit
<1> DEFINE first == [bank |-> "none", pin |-> "free", sensor |-> "off", fix |-> "off", firmware |-> "old",
                     chip |-> "old", cert |-> "old", route |-> "ext", range |-> "normal", output |-> "off",
                     code |-> "start", image |-> IF deep THEN "deep" ELSE "loop", library |-> "empty"]
           rest == [Quiet EXCEPT !.link = linked]
<1>1. DOMAIN first = DOMAIN Values /\ \A f \in DOMAIN Values : first[f] \in Values[f]
  <2>1. DOMAIN first = DOMAIN Values
    BY FieldsAre
  <2>2. first.bank \in Values.bank /\ first.pin \in Values.pin /\ first.sensor \in Values.sensor /\ first.fix \in Values.fix
    BY DEF Values
  <2>3. first.firmware \in Values.firmware /\ first.chip \in Values.chip /\ first.cert \in Values.cert
    BY DEF Values
  <2>4. first.route \in Values.route /\ first.range \in Values.range /\ first.output \in Values.output
    BY DEF Values
  <2>5. first.code \in Values.code /\ first.image \in Values.image /\ first.library \in Values.library
    BY DEF Values
  <2> HIDE DEF first
  <2> QED BY <2>1, <2>2, <2>3, <2>4, <2>5, FieldsAre
<1>2. DOMAIN rest = Switches /\ \A f \in Switches : rest[f] \in BOOLEAN
  <2>1. Quiet \in [Switches -> BOOLEAN]
    <3>1. \A f : (f \in {"stored"}) = TRUE \/ (f \in {"stored"}) = FALSE
      OBVIOUS
    <3> QED BY <3>1 DEF Quiet
  <2>2. rest \in [Switches -> BOOLEAN]
    BY <2>1
  <2> QED BY <2>2
<1>3. scene = first ++ rest
  OBVIOUS
<1> HIDE DEF first, rest
<1>4. Typed(scene)
  BY <1>1, <1>2, <1>3, FieldsAre DEF Typed, ++, Fields
<1>5. toolCalls \in 0 .. MaxCalls
  BY ToolsAssumption DEF ToolsInit
<1> QED BY <1>4, <1>5, ToolsType

(* A call leaves a typed scene. *)
LEMMA ToolsStep ==
    ASSUME ToolsTypeOK, ToolsNext
    PROVE  ToolsTypeOK'
<1>1. Typed(scene) /\ toolCalls \in 0 .. MaxCalls
  BY ToolsType
<1>2. ASSUME NEW r \in Table(scene), NEW n \in 0 .. Len(r.steps), CallTool(r, n)
      PROVE  ToolsTypeOK'
  <2>1. Typed(scene')
    BY <1>1, <1>2, TableFits, StaysTyped DEF CallTool
  <2>2. toolCalls' \in 0 .. MaxCalls
    BY <1>1, <1>2, ToolsAssumption DEF CallTool
  <2> QED BY <2>1, <2>2 DEF ToolsTypeOK, Typed, Fields
<1>3. CASE DutTalks
  <2> DEFINE said == Put("unread", scene.console) ++ Put("queue", scene.can)
  <2>1. "console" \in Switches /\ "can" \in Switches /\ "unread" \in Switches /\ "queue" \in Switches
    BY DEF Switches
  <2>2. DOMAIN said = {"unread", "queue"} /\ said["unread"] \in BOOLEAN /\ said["queue"] \in BOOLEAN
    BY <1>1, <2>1 DEF ++, Put, Typed
  <2>3. scene' = said ++ scene
    BY <1>3 DEF DutTalks
  <2>4. DOMAIN scene' = Fields
    <3> HIDE DEF said
    <3> QED BY <1>1, <2>1, <2>2, <2>3 DEF Typed, ++, Fields
  <2>5. \A f \in Fields : scene'[f] = IF f \in {"unread", "queue"} THEN said[f] ELSE scene[f]
    <3> HIDE DEF said
    <3> QED BY <1>1, <2>1, <2>2, <2>3 DEF Typed, ++, Fields
  <2>6. Typed(scene')
    <3> HIDE DEF said
    <3>1. \A f \in DOMAIN Values : f \notin {"unread", "queue"} /\ f \in Fields
      BY FieldsAre, <2>1
    <3>2. \A f \in Switches : f \in Fields
      BY DEF Fields
    <3> QED BY <1>1, <2>2, <2>4, <2>5, <3>1, <3>2 DEF Typed
  <2>7. toolCalls' = toolCalls
    BY <1>3 DEF DutTalks
  <2> QED BY <1>1, <2>6, <2>7 DEF ToolsTypeOK, Typed, Fields
<1> QED BY <1>2, <1>3 DEF ToolsNext

(* The tools do what they are published as, whatever is called in whatever order  *)
(* and however far a call comes: a read-only one changes nothing an agent counts  *)
(* on, an idempotent one may be repeated, and only a destructive one drives the   *)
(* target or rewrites the pod.                                                    *)
THEOREM ToolsAsPublished == ToolsSpec => []ToolsInv
<1>1. ToolsInit => ToolsTypeOK
  BY ToolsStart
<1>2. ToolsTypeOK /\ [ToolsNext]_toolVars => ToolsTypeOK'
  BY ToolsStep DEF toolVars, ToolsTypeOK
<1>3. ToolsTypeOK => ToolsInv
  BY HintsHold
<1> QED BY <1>1, <1>2, <1>3, PTL DEF ToolsSpec
=============================================================================
