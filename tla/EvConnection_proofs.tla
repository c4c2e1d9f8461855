------------------------- MODULE EvConnection_proofs -------------------------
(***************************************************************************)
(* An open connection of the event server of week 47 answers exactly its    *)
(* lines, within its buffers, however recv cuts the stream and send splits  *)
(* the output, for every buffer, socket and stream: IInv of EvConnection is *)
(* inductive and implies AnswersItsLines.                                   *)
(***************************************************************************)
EXTENDS EvConnection, LineFraming_proofs

USE BufSizeAssumption, SocketAssumption

-----------------------------------------------------------------------------
\* Helpers.

\* What was received is the beginning of what the client wrote.
LEMMA ReceivedIs ==
    ASSUME TypeOK
    PROVE  /\ Received \in Seq(Byte) /\ Len(Received) = taken /\ taken \in Nat
           /\ \A j \in 1 .. taken : Received[j] = input[j]
BY DEF TypeOK, Received

\* The cells of a reply, and of one reply more.
LEMMA CellsAre == \A r \in AnyReply : Cells(r) \in Seq(Cell)
<1> SUFFICES ASSUME NEW r \in AnyReply PROVE Cells(r) \in Seq(Cell)
  OBVIOUS
<1>1. Size(r) \in Nat
  BY DEF Size, AnyReply
<1>2. Cells(r) \in [1 .. Size(r) -> Cell]
  BY <1>1 DEF Cells, Cell
<1> QED
  BY <1>1, <1>2, SeqDef

LEMMA CellsCount == \A r \in AnyReply : Len(Cells(r)) = Size(r) /\ Size(r) \in Nat
<1> SUFFICES ASSUME NEW r \in AnyReply PROVE Len(Cells(r)) = Size(r) /\ Size(r) \in Nat
  OBVIOUS
<1>1. Size(r) \in Nat
  BY DEF Size, AnyReply
<1> QED
  BY <1>1 DEF Cells

LEMMA AllCellsMore ==
    ASSUME NEW s \in Seq(AnyReply), NEW r \in AnyReply
    PROVE  AllCells(s) \in Seq(Cell) /\ AllCells(Append(s, r)) = AllCells(s) \o Cells(r)
<1>1. PICK n \in Nat : n = Len(s)
  OBVIOUS
<1>2. PICK c : c = [k \in 1 .. Len(s) |-> Cells(s[k])]
  OBVIOUS
<1>3. c \in Seq(Seq(Cell)) /\ Len(c) = n
  <2>1. \A k \in 1 .. n : Cells(s[k]) \in Seq(Cell)
    BY <1>1, CellsAre
  <2>2. c \in [1 .. n -> Seq(Cell)]
    BY <1>1, <1>2, <2>1
  <2> QED
    BY <1>1, <2>2, SeqDef
<1>4. PICK t \in Seq(AnyReply) : t = Append(s, r)
  BY AppendProperties
<1>5. Len(t) = n + 1 /\ t[n + 1] = r /\ \A k \in 1 .. n : t[k] = s[k]
  BY <1>1, <1>4
<1>6. [k \in 1 .. Len(t) |-> Cells(t[k])] = Append(c, Cells(r))
  <2>1. PICK d : d = [k \in 1 .. Len(t) |-> Cells(t[k])]
    OBVIOUS
  <2>2. PICK x \in Seq(Cell) : x = Cells(r)
    BY CellsAre
  <2>3. \A k \in 1 .. n : d[k] = c[k]
    BY <1>1, <1>2, <1>5, <2>1
  <2>4. d[n + 1] = x /\ DOMAIN d = 1 .. n + 1
    BY <1>5, <2>1, <2>2
  <2>5. \A k \in 1 .. n + 1 : d[k] \in Seq(Cell)
    BY <1>3, <2>2, <2>3, <2>4
  <2>6. d \in [1 .. n + 1 -> Seq(Cell)]
    <3>1. d = [k \in 1 .. n + 1 |-> Cells(t[k])]
      BY <1>5, <2>1
    <3>2. d = [k \in DOMAIN d |-> d[k]]
      BY <3>1
    <3> QED
      BY <2>4, <2>5, <3>2
  <2>7. d \in Seq(Seq(Cell)) /\ Len(d) = n + 1
    BY <2>6, SeqDef
  <2>8. d = Append(c, x)
    BY <1>3, <2>2, <2>3, <2>4, <2>7
  <2> QED
    BY <2>1, <2>2, <2>8
<1>7. FlattenSeq(c) \in Seq(Cell) /\ FlattenSeq(Append(c, Cells(r))) = FlattenSeq(c) \o Cells(r)
  BY <1>3, CellsAre, FlattenMore
<1>8. AllCells(s) = FlattenSeq(c) /\ AllCells(t) = FlattenSeq(Append(c, Cells(r)))
  BY <1>2, <1>6 DEF AllCells
<1> QED
  BY <1>4, <1>7, <1>8

LEMMA FirstCells == AllCells(<<Ready>>) = Cells(Ready)
<1>1. AllCells(Append(<<>>, Ready)) = AllCells(<<>>) \o Cells(Ready)
  <2>1. <<>> \in Seq(AnyReply)
    OBVIOUS
  <2> QED
    BY <2>1, RepliesAre, AllCellsMore
<1>2. AllCells(<<>>) = <<>>
  <2>1. [k \in 1 .. Len(<<>>) |-> Cells(<<>>[k])] = <<>>
    OBVIOUS
  <2> QED
    BY <2>1 DEF AllCells, FlattenSeq
<1>3. Append(<<>>, Ready) = <<Ready>>
  OBVIOUS
<1>4. <<>> \o Cells(Ready) = Cells(Ready)
  BY RepliesAre, CellsAre
<1> QED
  BY <1>1, <1>2, <1>3, <1>4


\* What a beginning is, element by element, and beginnings of beginnings.
LEMMA PrefixIs ==
    ASSUME NEW X, NEW x \in Seq(X), NEW y \in Seq(X)
    PROVE  IsPrefix(x, y) <=> /\ Len(x) <= Len(y)
                              /\ \A j \in 1 .. Len(x) : x[j] = y[j]
<1>1. CASE ~ (Len(x) <= Len(y))
  BY <1>1 DEF IsPrefix
<1>2. CASE Len(x) <= Len(y)
  <2>1. SubSeq(x, 1, Len(x)) = x
    OBVIOUS
  <2>2. PICK z : z = SubSeq(y, 1, Len(x))
    OBVIOUS
  <2>3. z \in Seq(X) /\ Len(z) = Len(x) /\ \A j \in 1 .. Len(x) : z[j] = y[j]
    BY <1>2, <2>2
  <2>4. x = z <=> \A j \in 1 .. Len(x) : x[j] = y[j]
    BY <2>3
  <2> QED
    BY <1>2, <2>1, <2>2, <2>4 DEF IsPrefix
<1> QED
  BY <1>1, <1>2

LEMMA PrefixOfJoined ==
    ASSUME NEW X, NEW x \in Seq(X), NEW u \in Seq(X), NEW y \in Seq(X), IsPrefix(x \o u, y)
    PROVE  IsPrefix(x, y)
<1>1. PICK z \in Seq(X) : z = x \o u
  <2>1. x \o u \in Seq(X)
    BY ConcatProperties
  <2> QED
    BY <2>1
<1>2. Len(z) = Len(x) + Len(u) /\ \A j \in 1 .. Len(x) : z[j] = x[j]
  BY <1>1, ConcatProperties
<1>3. Len(z) <= Len(y) /\ \A j \in 1 .. Len(z) : z[j] = y[j]
  <2>1. IsPrefix(z, y)
    BY <1>1
  <2> QED
    BY <2>1, PrefixIs
<1> QED
  BY <1>2, <1>3, PrefixIs

LEMMA PrefixOfItself ==
    ASSUME NEW X, NEW x \in Seq(X)
    PROVE  IsPrefix(x, x)
BY PrefixIs

-----------------------------------------------------------------------------
\* The initial states.

LEMMA InitIInv == Init => IInv
<1> SUFFICES ASSUME Init PROVE IInv
  OBVIOUS
<1>1. Cells(Ready) \in Seq(Cell) /\ Len(Cells(Ready)) = 1
  BY RepliesAre, CellsAre, CellsCount DEF Size, Ready
<1>2. <<>> \in Seq(Byte) /\ Len(<<>>) = 0 /\ <<>> \in Seq(Cell)
  OBVIOUS
<1>3. BufSize \in Nat /\ BufSize > 0 /\ SocketSize \in Nat /\ MaxInput \in Nat
  OBVIOUS
<1>4. TypeOK
  <2>1. /\ input \in Seq(Byte) /\ taken \in 0 .. Len(input)
        /\ in \in Seq(Byte) /\ Len(in) <= BufSize
    BY <1>2, <1>3 DEF Init
  <2>2. start \in 1 .. BufSize + 1 /\ Len(socket) <= SocketSize /\ lines \in Nat
    BY <1>2, <1>3 DEF Init
  <2>3. Len(out) <= BufSize /\ outSent \in 0 .. Len(out)
    BY <1>1, <1>3 DEF Init
  <2>4. \A k \in 1 .. Len(said) : said[k] \in Reply
    BY DEF Init, Reply
  <2> QED
    BY <2>1, <2>2, <2>3, <2>4 DEF Init, TypeOK
<1>5. BufferInv
  <2>1. Len(input) <= MaxInput /\ Len(in) = 0 /\ taken = 0 /\ From = 1
    BY <1>2, <1>3 DEF Init, From
  <2> QED
    BY <1>3, <2>1 DEF BufferInv
<1>6. SaidInv
  <2>1. Received \in Seq(Byte)
    BY <1>4, ReceivedIs
  <2>2. Place = 0
    <3>1. Len(in) = 0 /\ taken = 0 /\ From = 1
      BY <1>2 DEF Init, From
    <3> QED
      BY <3>1 DEF Place, Base
  <2>3. Framed(Received, 0, 0) /\ Told(Received, 0) = <<Ready>>
    BY <2>1, FramedNone
  <2>4. WorkedOff = 0
    BY <2>2, <2>3 DEF WorkedOff, Framed
  <2>5. /\ <<Ready>> \in Seq(AnyReply) /\ Len(<<Ready>>) = 1 /\ <<Ready>>[1] = Ready
        /\ Ready.no = 0
    BY RepliesAre DEF Ready
  <2>6. said = <<Ready>> /\ lines = 0 /\ closing = FALSE /\ pc = "wait"
    BY DEF Init
  <2> QED
    BY <2>2, <2>3, <2>4, <2>5, <2>6 DEF SaidInv
<1>7. WireInv
  <2>1. Unsent = Cells(Ready)
    <3>1. SubSeq(Cells(Ready), 1, Len(Cells(Ready))) = Cells(Ready)
      BY <1>1
    <3> QED
      BY <3>1 DEF Init, Unsent
  <2>2. <<>> \o <<>> \o Cells(Ready) = Cells(Ready)
    BY <1>1
  <2>3. got \o socket \o Unsent = AllCells(said)
    BY <2>1, <2>2, FirstCells DEF Init
  <2>4. AllCells(said) \in Seq(Cell)
    BY <1>1, FirstCells DEF Init
  <2> QED
    BY <1>1, <1>2, <2>3, <2>4, PrefixOfItself DEF Init, WireInv
<1> QED
  BY <1>4, <1>5, <1>6, <1>7 DEF IInv

-----------------------------------------------------------------------------
\* The lines of the framing loop.

\* The next newline of in.
LEMMA LineEndIs ==
    ASSUME TypeOK, HasLine
    PROVE  /\ LineEnd \in Nat /\ LineEnd \in start .. Len(in) /\ in[LineEnd] = "nl"
           /\ \A j \in start .. LineEnd - 1 : in[j] # "nl"
<1>1. PICK S \in SUBSET Nat : S = Newlines(in, start)
  <2>1. Newlines(in, start) \in SUBSET Nat
    BY DEF Newlines, TypeOK
  <2> QED
    BY <2>1
<1>2. PICK m : m = LineEnd
  OBVIOUS
<1>3. m \in S /\ \A y \in S : m <= y
  <2>1. S # {} /\ m = Min(S)
    BY <1>1, <1>2 DEF HasLine, LineEnd
  <2> QED
    BY <2>1, MinIs
<1>4. start \in Nat /\ start >= 1 /\ Len(in) \in Nat
  BY DEF TypeOK
<1>5. m \in Nat /\ m \in start .. Len(in) /\ in[m] = "nl"
  BY <1>1, <1>3, <1>4 DEF Newlines
<1>6. ASSUME NEW j \in start .. m - 1, in[j] = "nl" PROVE FALSE
  <2>1. j \in S
    BY <1>1, <1>4, <1>5, <1>6 DEF Newlines
  <2> QED
    BY <1>3, <1>4, <1>5, <2>1
<1> QED
  BY <1>2, <1>5, <1>6

\* The next line of b from k on is a quit, which ends at e.
QuitAt(b, k, e) ==
    /\ e \in k .. Len(b) /\ b[e] = "nl"
    /\ \A j \in k .. e - 1 : b[j] # "nl"
    /\ IsQuit(SubSeq(b, k, e - 1))

\* That QuitNext says so.
LEMMA QuitIs ==
    ASSUME NEW b \in Seq(Byte), NEW k \in Nat
    PROVE  (Newlines(b, k) # {} /\ IsQuit(SubSeq(b, k, Min(Newlines(b, k)) - 1)))
           <=> \E e \in Nat : QuitAt(b, k, e)
<1>1. PICK S \in SUBSET Nat : S = Newlines(b, k)
  <2>1. Newlines(b, k) \in SUBSET Nat
    BY DEF Newlines
  <2> QED
    BY <2>1
<1>2. \A j \in Nat : j \in S <=> j \in k .. Len(b) /\ b[j] = "nl"
  BY <1>1 DEF Newlines
<1>3. ASSUME S # {}, IsQuit(SubSeq(b, k, Min(S) - 1)) PROVE \E e \in Nat : QuitAt(b, k, e)
  <2>1. PICK m \in Nat : m = Min(S) /\ m \in S /\ \A y \in S : m <= y
    <3>1. Min(S) \in S /\ \A y \in S : Min(S) <= y
      BY <1>3, MinIs
    <3> QED
      BY <3>1
  <2>2. \A j \in k .. m - 1 : b[j] # "nl"
    <3> SUFFICES ASSUME NEW j \in k .. m - 1, b[j] = "nl" PROVE FALSE
      OBVIOUS
    <3>1. j \in S
      BY <1>2, <2>1
    <3> QED
      BY <2>1, <3>1
  <2>3. QuitAt(b, k, m)
    BY <1>2, <1>3, <2>1, <2>2 DEF QuitAt
  <2> QED
    BY <2>3
<1>4. ASSUME NEW e \in Nat, QuitAt(b, k, e) PROVE S # {} /\ IsQuit(SubSeq(b, k, Min(S) - 1))
  <2>1. e \in S
    BY <1>2, <1>4 DEF QuitAt
  <2>2. PICK m \in Nat : m = Min(S) /\ m \in S /\ m <= e
    <3>1. Min(S) \in S /\ \A y \in S : Min(S) <= y
      BY <2>1, MinIs
    <3> QED
      BY <2>1, <3>1
  <2>3. m = e
    <3>1. m \in k .. Len(b) /\ b[m] = "nl"
      BY <1>2, <2>2
    <3>2. ~ (m < e)
      BY <1>4, <3>1 DEF QuitAt
    <3> QED
      BY <2>2, <3>2
  <2> QED
    BY <1>4, <2>1, <2>2, <2>3 DEF QuitAt
<1> QED
  BY <1>1, <1>3, <1>4

LEMMA QuitNextIs ==
    ASSUME TypeOK
    PROVE  From \in Nat /\ From >= 1 /\ (QuitNext <=> \E e \in Nat : QuitAt(in, From, e))
<1>1. PICK k \in Nat : k = From /\ k >= 1
  <2>1. From \in Nat /\ From >= 1
    BY DEF From, TypeOK
  <2> QED
    BY <2>1
<1>2. in \in Seq(Byte)
  BY DEF TypeOK
<1>3. QuitNext <=> Newlines(in, k) # {} /\ IsQuit(SubSeq(in, k, Min(Newlines(in, k)) - 1))
  BY <1>1 DEF QuitNext
<1> QED
  BY <1>1, <1>2, <1>3, QuitIs

\* More bytes after it do not change it, nor do those before it that go away.
LEMMA QuitStays ==
    ASSUME NEW b \in Seq(Byte), NEW c \in Seq(Byte), NEW k \in Nat, NEW e, QuitAt(b, k, e),
           k >= 1, Len(b) <= Len(c), \A j \in 1 .. Len(b) : c[j] = b[j]
    PROVE  QuitAt(c, k, e)
<1>1. e \in Nat /\ e <= Len(b) /\ Len(c) \in Nat /\ Len(b) \in Nat
  BY DEF QuitAt
<1>2. SubSeq(c, k, e - 1) = SubSeq(b, k, e - 1)
  BY <1>1
<1>3. e \in k .. Len(c) /\ c[e] = "nl" /\ \A j \in k .. e - 1 : c[j] # "nl"
  BY <1>1 DEF QuitAt
<1> QED
  BY <1>2, <1>3 DEF QuitAt

LEMMA QuitMoves ==
    ASSUME NEW b \in Seq(Byte), NEW k \in Nat, NEW e \in Nat, QuitAt(b, k, e), k >= 1
    PROVE  QuitAt(SubSeq(b, k, Len(b)), 1, (e - k) + 1)
<1>1. e <= Len(b) /\ Len(b) \in Nat /\ k <= e
  BY DEF QuitAt
<1>2. PICK c \in Seq(Byte) : c = SubSeq(b, k, Len(b))
  <2>1. SubSeq(b, k, Len(b)) \in Seq(Byte)
    BY <1>1
  <2> QED
    BY <2>1
<1>3. Len(c) = (Len(b) - k) + 1 /\ \A j \in 1 .. Len(c) : c[j] = b[(k + j) - 1]
  BY <1>1, <1>2
<1>4. PICK d \in Nat : d = (e - k) + 1 /\ d \in 1 .. Len(c)
  <2>1. (e - k) + 1 \in 1 .. Len(c)
    BY <1>1, <1>3
  <2> QED
    BY <2>1
<1>5. c[d] = "nl"
  <2>1. c[d] = b[(k + d) - 1] /\ (k + d) - 1 = e
    BY <1>3, <1>4
  <2> QED
    BY <2>1 DEF QuitAt
<1>6. ASSUME NEW j \in 1 .. d - 1 PROVE c[j] # "nl"
  <2>1. (k + j) - 1 \in k .. e - 1 /\ j \in 1 .. Len(c)
    BY <1>4
  <2> QED
    BY <1>3, <2>1 DEF QuitAt
<1>7. SubSeq(c, 1, d - 1) = SubSeq(b, k, e - 1)
  <2>1. PICK x \in Seq(Byte) : x = SubSeq(c, 1, d - 1)
    <3>1. SubSeq(c, 1, d - 1) \in Seq(Byte)
      BY <1>4
    <3> QED
      BY <3>1
  <2>2. PICK y \in Seq(Byte) : y = SubSeq(b, k, e - 1)
    <3>1. SubSeq(b, k, e - 1) \in Seq(Byte)
      BY <1>1
    <3> QED
      BY <3>1
  <2>3. Len(x) = d - 1 /\ \A j \in 1 .. d - 1 : x[j] = c[j]
    BY <1>4, <2>1
  <2>4. Len(y) = d - 1 /\ \A j \in 1 .. d - 1 : y[j] = b[(k + j) - 1]
    BY <1>1, <1>4, <2>2
  <2>5. ASSUME NEW j \in 1 .. d - 1 PROVE x[j] = y[j]
    <3>1. j \in 1 .. Len(c)
      BY <1>4
    <3> QED
      BY <1>3, <2>3, <2>4, <3>1
  <2>6. Len(x) = Len(y) /\ \A j \in 1 .. Len(x) : x[j] = y[j]
    BY <2>3, <2>4, <2>5
  <2>7. x = y
    BY <2>1, <2>2, <2>6
  <2> QED
    BY <2>1, <2>2, <2>7
<1> QED
  BY <1>2, <1>4, <1>5, <1>6, <1>7 DEF QuitAt

\* in is what was received from Base on.
LEMMA BufferIs ==
    ASSUME TypeOK, BufferInv
    PROVE  /\ Base \in Nat /\ Base + Len(in) = taken /\ Len(in) \in Nat
           /\ \A j \in 1 .. Len(in) : Received[Base + j] = in[j]
<1>1. PICK b \in Nat : b = Base /\ b + Len(in) = taken
  <2>1. Base \in Nat /\ Base + Len(in) = taken
    BY DEF TypeOK, BufferInv, Base
  <2> QED
    BY <2>1
<1>2. Len(in) \in Nat /\ taken \in Nat
  BY DEF TypeOK
<1>3. ASSUME NEW j \in 1 .. Len(in) PROVE Received[b + j] = in[j]
  <2>1. b + j \in 1 .. taken
    BY <1>1, <1>2
  <2>2. Received[b + j] = input[b + j]
    BY <2>1, ReceivedIs
  <2>3. in[j] = input[b + j]
    BY <1>1 DEF BufferInv
  <2> QED
    BY <2>2, <2>3
<1> QED
  BY <1>1, <1>2, <1>3

\* The line that the framing loop has found is the next one of the stream.
LEMMA CurrentLineIs ==
    ASSUME IInv, pc = "lines", HasLine
    PROVE  /\ Place \in Nat /\ Base + LineEnd \in 1 .. Len(Received) /\ Place < Base + LineEnd
           /\ Received[Base + LineEnd] = "nl"
           /\ \A j \in Place + 1 .. (Base + LineEnd) - 1 : Received[j] # "nl"
           /\ CurrentLine = Between(Received, Place, Base + LineEnd)
           /\ Len(CurrentLine) < BufSize
           /\ CurrentLine \in Seq(Byte)
           /\ \A j \in 1 .. Len(CurrentLine) : CurrentLine[j] # "nl"
<1>1. TypeOK /\ BufferInv
  BY DEF IInv
<1>2. PICK s \in Seq(Byte) : s = Received
  BY <1>1, ReceivedIs
<1>3. PICK b \in Nat : b = Base
  BY <1>1, BufferIs
<1>4. /\ Len(s) = taken /\ b + Len(in) = taken /\ Len(in) \in Nat
      /\ \A j \in 1 .. Len(in) : s[b + j] = in[j]
  BY <1>1, <1>2, <1>3, BufferIs, ReceivedIs
<1>5. PICK m \in Nat : m = LineEnd
  BY <1>1, LineEndIs
<1>6. /\ m \in start .. Len(in) /\ in[m] = "nl"
      /\ \A j \in start .. m - 1 : in[j] # "nl"
  BY <1>1, <1>5, LineEndIs
<1>7. PICK a \in Nat : a = start /\ a >= 1
  BY <1>1 DEF TypeOK
<1>8. Place = (b + a) - 1 /\ (b + a) - 1 \in Nat
  BY <1>3, <1>7 DEF Place, From
<1>9. b + m \in 1 .. Len(s) /\ (b + a) - 1 < b + m /\ s[b + m] = "nl"
  BY <1>4, <1>6, <1>7
<1>10. ASSUME NEW j \in ((b + a) - 1) + 1 .. (b + m) - 1 PROVE s[j] # "nl"
  <2>1. PICK i \in a .. m - 1 : j = b + i
    <3>1. j - b \in a .. m - 1 /\ j = b + (j - b)
      BY <1>7
    <3> QED
      BY <3>1
  <2>2. i \in 1 .. Len(in) /\ in[i] # "nl"
    BY <1>4, <1>6, <1>7, <2>1
  <2> QED
    BY <1>4, <2>1, <2>2
<1>11. PICK q \in Seq(Byte) : q = SubSeq(in, a, m - 1)
  <2>1. SubSeq(in, a, m - 1) \in Seq(Byte)
    BY <1>1, <1>4, <1>6, <1>7 DEF TypeOK
  <2> QED
    BY <2>1
<1>12. Len(q) = m - a /\ \A j \in 1 .. m - a : q[j] = in[(a + j) - 1]
  BY <1>1, <1>4, <1>6, <1>7, <1>11 DEF TypeOK
<1>13. q = SubSeq(s, ((b + a) - 1) + 1, (b + m) - 1)
  <2>1. PICK r \in Seq(Byte) : r = SubSeq(s, ((b + a) - 1) + 1, (b + m) - 1)
    <3>1. SubSeq(s, ((b + a) - 1) + 1, (b + m) - 1) \in Seq(Byte)
      BY <1>7, <1>9
    <3> QED
      BY <3>1
  <2>2. Len(r) = m - a /\ \A j \in 1 .. m - a : r[j] = s[b + ((a + j) - 1)]
    BY <1>7, <1>9, <1>6, <2>1
  <2>3. ASSUME NEW j \in 1 .. m - a PROVE q[j] = r[j]
    <3>1. (a + j) - 1 \in 1 .. Len(in)
      BY <1>4, <1>6, <1>7
    <3> QED
      BY <1>4, <1>12, <2>2, <3>1
  <2>4. Len(q) = Len(r) /\ \A j \in 1 .. Len(q) : q[j] = r[j]
    BY <1>12, <2>2, <2>3
  <2>5. q = r
    <3>1. q \in Seq(Byte) /\ r \in Seq(Byte)
      BY <1>11, <2>1
    <3> QED
      BY <2>4, <3>1
  <2> QED
    BY <2>1, <2>5
<1>14. Len(q) < BufSize
  <2>1. Len(in) <= BufSize
    BY <1>1 DEF TypeOK
  <2> QED
    BY <1>4, <1>6, <1>7, <1>12, <2>1
<1>15. ASSUME NEW j \in 1 .. Len(q) PROVE q[j] # "nl"
  <2>1. j \in 1 .. m - a /\ (a + j) - 1 \in a .. m - 1
    BY <1>7, <1>12
  <2> QED
    BY <1>6, <1>7, <1>12, <2>1
<1>16. CurrentLine = q
  BY <1>5, <1>7, <1>11 DEF CurrentLine
<1>17. q = Between(s, (b + a) - 1, b + m)
  BY <1>13 DEF Between
<1> QED
  BY <1>2, <1>3, <1>5, <1>8, <1>9, <1>10, <1>11, <1>14, <1>15, <1>16, <1>17

LEMMA EndedBound ==
    ASSUME NEW t, NEW k \in Nat
    PROVE  Ended(t, k) \in Nat /\ Ended(t, k) <= k
<1>1. IsFiniteSet(1 .. k) /\ Cardinality(1 .. k) = k
  BY FS_Interval
<1>2. Ends(t, k) \in SUBSET (1 .. k)
  BY DEF Ends
<1>3. Cardinality(Ends(t, k)) <= Cardinality(1 .. k)
  BY <1>1, <1>2, FS_Subset
<1> QED
  BY <1>1, <1>3, EndsAre

\* The next line, which is no quit, and its reply.
LEMMA NextLineIs ==
    ASSUME IInv, ProcessLine
    PROVE  /\ lines = WorkedOff /\ lines \in Nat
           /\ Framed(Received, Base + LineEnd, lines + 1)
           /\ Told(Received, lines + 1)
                = Append(Told(Received, lines), Numbered(lines + 1, CurrentLine))
           /\ Line(Received, lines + 1) = CurrentLine
           /\ Numbered(lines + 1, CurrentLine) \in Reply
           /\ Numbered(lines + 1, CurrentLine) \in AnyReply
<1>1. TypeOK /\ BufferInv /\ SaidInv /\ pc = "lines" /\ HasLine /\ ~ IsQuit(CurrentLine)
  BY DEF IInv, ProcessLine
<1>2. lines = WorkedOff /\ lines \in Nat
  <2>1. ~ QuitNext
    BY <1>1 DEF QuitNext, From, CurrentLine, LineEnd
  <2> QED
    BY <1>1, <2>1 DEF SaidInv, TypeOK
<1>3. PICK s \in Seq(Byte) : s = Received /\ Len(s) = taken
  BY <1>1, ReceivedIs
<1>4. PICK line \in Seq(Byte) : line = CurrentLine
  BY <1>1, CurrentLineIs
<1>5. PICK p \in Nat : p = Place
  BY <1>1, CurrentLineIs
<1>6. PICK e \in 1 .. Len(s) : e = Base + LineEnd
  BY <1>1, <1>3, CurrentLineIs
<1>7. /\ p < e /\ s[e] = "nl" /\ \A j \in p + 1 .. e - 1 : s[j] # "nl"
      /\ line = Between(s, p, e) /\ Len(line) < BufSize
      /\ \A j \in 1 .. Len(line) : line[j] # "nl"
  BY <1>1, <1>3, <1>4, <1>5, <1>6, CurrentLineIs
<1>8. Framed(s, p, lines)
  BY <1>1, <1>2, <1>3, <1>5 DEF SaidInv
<1>9. ~ IsQuit(line)
  BY <1>1, <1>4
<1>10. /\ Framed(s, e, lines + 1)
       /\ Told(s, lines + 1) = Append(Told(s, lines), Numbered(lines + 1, line))
  BY <1>7, <1>8, <1>9, FramedMore
<1>11. Ended(s, e) = lines + 1 /\ Line(s, lines + 1) = line
  BY <1>7, <1>8, FramedLine
<1>12. lines + 1 \in 1 .. MaxInput
  <2>1. Ended(s, e) <= e /\ e \in Nat
    BY EndedBound
  <2>2. Len(s) <= Len(input) /\ Len(input) <= MaxInput /\ Len(input) \in Nat
    BY <1>1, <1>3 DEF TypeOK, BufferInv
  <2> QED
    BY <1>2, <1>3, <1>11, <2>1, <2>2
<1>13. line \in BoundedSeq({"x", "quit"}, BufSize)
  <2>1. PICK n \in Nat : n = Len(line) /\ n <= BufSize
    <3>1. Len(line) \in Nat /\ Len(line) <= BufSize
      BY <1>7
    <3> QED
      BY <3>1
  <2>2. \A j \in 1 .. n : line[j] \in {"x", "quit"}
    <3> SUFFICES ASSUME NEW j \in 1 .. n PROVE line[j] \in {"x", "quit"}
      OBVIOUS
    <3>1. line[j] \in Byte /\ line[j] # "nl"
      BY <1>7, <2>1
    <3> QED
      BY <3>1 DEF Byte
  <2>3. line = [j \in 1 .. n |-> line[j]]
    BY <2>1
  <2>4. line \in [1 .. n -> {"x", "quit"}]
    BY <2>2, <2>3
  <2>5. n \in 0 .. BufSize
    BY <2>1
  <2> QED
    BY <2>4, <2>5 DEF BoundedSeq, SeqOf
<1>14. Numbered(lines + 1, line) \in Reply
  BY <1>12, <1>13 DEF Reply
<1>15. Numbered(lines + 1, line) \in AnyReply
  BY <1>2, NumberedIs
<1> QED
  BY <1>2, <1>3, <1>4, <1>6, <1>10, <1>11, <1>14, <1>15

-----------------------------------------------------------------------------
\* The types.

\* conn_queue.
LEMMA QueueIs ==
    ASSUME TypeOK, WireInv, NEW r \in AnyReply, NEW c \in BOOLEAN, Queue(r, c)
    PROVE  /\ out' \in Seq(Cell) /\ Len(out') <= BufSize /\ outSent' = outSent
           /\ outSent \in 0 .. Len(out')
           /\ closing' \in BOOLEAN /\ (closing \/ c => closing')
           /\ ~ Fits(Size(r)) => closing'
           /\ Fits(Size(r)) => /\ said' = Append(said, r)
                               /\ SubSeq(out', outSent + 1, Len(out')) = Unsent \o Cells(r)
           /\ ~ Fits(Size(r)) => said' = said /\ out' = out
<1>1. PICK n \in Nat : n = Size(r) /\ n = Len(Cells(r))
  BY CellsCount
<1>2. PICK z \in Seq(Cell) : z = Cells(r)
  BY CellsAre
<1>3. PICK o \in Seq(Cell) : o = out /\ Len(o) <= BufSize /\ outSent \in 0 .. Len(o)
  BY DEF TypeOK, WireInv
<1>4. outSent' = outSent /\ closing' = (closing \/ c \/ ~ Fits(n)) /\ closing \in BOOLEAN
  BY <1>1 DEF Queue, TypeOK
<1>5. CASE Fits(n)
  <2>1. out' = o \o z /\ said' = Append(said, r) /\ Len(o) + n <= BufSize
    BY <1>1, <1>2, <1>3, <1>5 DEF Queue, Fits
  <2>2. PICK w \in Seq(Cell) : w = o \o z
    <3>1. o \o z \in Seq(Cell)
      BY ConcatProperties
    <3> QED
      BY <3>1
  <2>3. /\ Len(w) = Len(o) + n /\ Len(z) = n
        /\ \A j \in 1 .. Len(w) : w[j] = IF j <= Len(o) THEN o[j] ELSE z[j - Len(o)]
    <3>1. /\ Len(w) = Len(o) + Len(z)
          /\ \A j \in 1 .. Len(o) + Len(z) : w[j] = IF j <= Len(o) THEN o[j] ELSE z[j - Len(o)]
      BY <2>2, ConcatProperties
    <3> QED
      BY <1>1, <1>2, <3>1
  <2>4. PICK u \in Seq(Cell) : u = SubSeq(o, outSent + 1, Len(o))
    <3>1. SubSeq(o, outSent + 1, Len(o)) \in Seq(Cell)
      BY <1>3
    <3> QED
      BY <3>1
  <2>5. Len(u) = Len(o) - outSent /\ \A j \in 1 .. Len(u) : u[j] = o[outSent + j]
    BY <1>3, <2>4
  <2>6. PICK v \in Seq(Cell) : v = SubSeq(w, outSent + 1, Len(w))
    <3>1. SubSeq(w, outSent + 1, Len(w)) \in Seq(Cell)
      BY <1>3, <2>3
    <3> QED
      BY <3>1
  <2>7. Len(v) = Len(w) - outSent /\ \A j \in 1 .. Len(v) : v[j] = w[outSent + j]
    BY <1>3, <2>3, <2>6
  <2>8. PICK x \in Seq(Cell) : x = u \o z
    <3>1. u \o z \in Seq(Cell)
      BY ConcatProperties
    <3> QED
      BY <3>1
  <2>9. /\ Len(x) = Len(u) + n
        /\ \A j \in 1 .. Len(x) : x[j] = IF j <= Len(u) THEN u[j] ELSE z[j - Len(u)]
    <3>1. /\ Len(x) = Len(u) + Len(z)
          /\ \A j \in 1 .. Len(u) + Len(z) : x[j] = IF j <= Len(u) THEN u[j] ELSE z[j - Len(u)]
      BY <2>8, ConcatProperties
    <3> QED
      BY <2>3, <3>1
  <2>10. ASSUME NEW j \in 1 .. Len(v) PROVE v[j] = x[j]
    <3>1. outSent \in Nat /\ outSent <= Len(o) /\ Len(o) \in Nat /\ j \in Nat
      BY <1>3
    <3>2. j \in 1 .. Len(x) /\ outSent + j \in 1 .. Len(w)
      BY <1>1, <2>3, <2>5, <2>7, <2>9, <3>1
    <3>3. CASE j <= Len(u)
      BY <2>3, <2>5, <2>7, <2>9, <3>1, <3>2, <3>3
    <3>4. CASE ~ (j <= Len(u))
      <4>1. j - Len(u) = (outSent + j) - Len(o) /\ ~ (outSent + j <= Len(o))
        BY <2>5, <3>1, <3>4
      <4> QED
        BY <2>3, <2>7, <2>9, <3>2, <3>4, <4>1
    <3> QED
      BY <3>3, <3>4
  <2>11. v = x
    <3>1. Len(v) = Len(x) /\ v \in Seq(Cell) /\ x \in Seq(Cell)
      BY <1>1, <1>3, <2>3, <2>5, <2>6, <2>7, <2>8, <2>9
    <3> QED
      BY <2>10, <3>1
  <2>12. SubSeq(out', outSent + 1, Len(out')) = Unsent \o Cells(r)
    BY <1>2, <1>3, <2>1, <2>2, <2>4, <2>6, <2>8, <2>11 DEF Unsent
  <2>13. out' = w /\ Len(w) <= BufSize /\ outSent \in 0 .. Len(w)
    BY <1>1, <1>3, <2>1, <2>2, <2>3
  <2> QED
    BY <1>1, <1>4, <1>5, <2>1, <2>12, <2>13
<1>6. CASE ~ Fits(n)
  BY <1>1, <1>3, <1>4, <1>6 DEF Queue
<1> QED
  BY <1>5, <1>6

\* Fixed replies are replies.
LEMMA FixedReplies == Ready \in Reply /\ Bye \in Reply /\ TooLong \in Reply
BY DEF Reply

\* A reply more, or none.
LEMMA SaidStays ==
    ASSUME SaidInv, \A k \in 1 .. Len(said) : said[k] \in Reply,
           NEW r \in Reply, r \in AnyReply, said' = said \/ said' = Append(said, r)
    PROVE  said' \in Seq(AnyReply) /\ \A k \in 1 .. Len(said') : said'[k] \in Reply
<1>1. PICK s \in Seq(AnyReply) : s = said
  BY DEF SaidInv
<1>2. PICK t \in Seq(AnyReply) : t = Append(s, r)
  BY AppendProperties
<1>3. Len(t) = Len(s) + 1 /\ t[Len(s) + 1] = r /\ \A k \in 1 .. Len(s) : t[k] = s[k]
  BY <1>1, <1>2
<1>4. \A k \in 1 .. Len(t) : t[k] \in Reply
  <2> SUFFICES ASSUME NEW k \in 1 .. Len(t) PROVE t[k] \in Reply
    OBVIOUS
  <2>1. k \in 1 .. Len(s) \/ k = Len(s) + 1
    BY <1>3
  <2> QED
    BY <1>1, <1>3, <2>1
<1> QED
  BY <1>1, <1>2, <1>4

LEMMA NextType == IInv /\ [Next]_vars => TypeOK'
<1>1. SUFFICES ASSUME IInv, [Next]_vars PROVE TypeOK'
  OBVIOUS
<1>2. TypeOK /\ BufferInv /\ WireInv /\ SaidInv
  BY <1>1 DEF IInv
<1>3. CASE UNCHANGED vars
  BY <1>2, <1>3 DEF vars, TypeOK
<1>4. ASSUME NEW b \in Byte, ClientWrite(b) PROVE TypeOK'
  BY <1>2, <1>4 DEF ClientWrite, TypeOK, framing, wire, outgoing
<1>5. CASE ClientShutdown
  BY <1>2, <1>5 DEF ClientShutdown, TypeOK, framing, wire, outgoing
<1>6. CASE ClientReset
  BY <1>2, <1>6 DEF ClientReset, TypeOK, framing, outgoing
<1>7. CASE ClientRead
  <2>1. Len(socket') <= SocketSize
    <3>1. PICK n \in 1 .. Len(socket) : socket' = SubSeq(socket, n + 1, Len(socket))
      BY <1>7 DEF ClientRead
    <3>2. socket \in Seq(Cell) /\ Len(socket) <= SocketSize
      BY <1>2 DEF WireInv, TypeOK
    <3> QED
      BY <3>1, <3>2
  <2> QED
    BY <1>2, <1>7, <2>1 DEF ClientRead, TypeOK, framing, client, outgoing
<1>8. CASE Wake
  <2>1. events' \subseteq {"in", "out", "hup"} /\ pc' \in {"closed", "recv", "send"}
    BY <1>8 DEF Wake, Reported
  <2> QED
    BY <1>2, <1>8, <2>1 DEF Wake, TypeOK, framing, client, outgoing, wire
<1>9. CASE RecvData
  <2>1. PICK n \in 1 .. Min({RecvSpace, Unread}) :
           /\ in' = in \o SubSeq(input, taken + 1, taken + n)
           /\ taken' = taken + n
    BY <1>9 DEF RecvData
  <2>2. n \in Nat /\ n <= BufSize - Len(in) /\ n <= Len(input) - taken
    <3>1. RecvSpace \in Nat /\ Unread \in Nat
      BY <1>2 DEF RecvSpace, Unread, TypeOK
    <3> QED
      BY <3>1, MinOfTwo DEF RecvSpace, Unread
  <2>3. /\ SubSeq(input, taken + 1, taken + n) \in Seq(Byte)
        /\ Len(SubSeq(input, taken + 1, taken + n)) = n
    BY <1>2, <2>2 DEF TypeOK
  <2>4. in' \in Seq(Byte) /\ Len(in') <= BufSize
    BY <1>2, <2>1, <2>2, <2>3 DEF TypeOK
  <2>5. taken' \in 0 .. Len(input)
    BY <1>2, <2>1, <2>2 DEF TypeOK
  <2> QED
    BY <1>2, <1>9, <2>4, <2>5 DEF RecvData, TypeOK, client, wire, outgoing
<1>10. AfterRead \in {"send", "finish"}
  BY DEF AfterRead
<1>11. CASE RecvNothing
  BY <1>2, <1>10, <1>11 DEF RecvNothing, TypeOK, framing, client, wire, outgoing
<1>12. CASE RecvEnd
  <2>1. Len(out') <= BufSize /\ outSent \in 0 .. Len(out')
    <3>1. out \in Seq(Cell) /\ outSent \in 0 .. Len(out) /\ Len(out) <= BufSize
      BY <1>2 DEF WireInv, TypeOK
    <3>2. out' = SubSeq(out, 1, outSent)
      BY <1>12 DEF RecvEnd
    <3> QED
      BY <3>1, <3>2
  <2> QED
    BY <1>2, <1>10, <1>12, <2>1 DEF RecvEnd, TypeOK, framing, client, wire
<1>13. CASE RecvError
  BY <1>2, <1>10, <1>13 DEF RecvError, TypeOK, framing, client, wire, outgoing
<1>14. CASE ProcessLine
  <2>1. start' \in 1 .. BufSize + 1
    <3>1. LineEnd \in Nat /\ LineEnd \in start .. Len(in)
      BY <1>2, <1>14, LineEndIs DEF ProcessLine
    <3>2. start' = LineEnd + 1
      BY <1>14 DEF ProcessLine
    <3> QED
      BY <1>2, <3>1, <3>2 DEF TypeOK
  <2>2. lines' \in Nat
    BY <1>2, <1>14 DEF ProcessLine, TypeOK
  <2>3. PICK r \in Reply : r = Numbered(lines + 1, CurrentLine) /\ r \in AnyReply
    BY <1>1, <1>14, NextLineIs
  <2>4. Queue(r, FALSE)
    BY <1>14, <2>3 DEF ProcessLine
  <2>5. /\ Len(out') <= BufSize /\ outSent' \in 0 .. Len(out') /\ closing' \in BOOLEAN
        /\ (said' = said \/ said' = Append(said, r))
    BY <1>2, <2>3, <2>4, QueueIs
  <2>6. \A k \in 1 .. Len(said') : said'[k] \in Reply
    BY <1>2, <2>3, <2>5, SaidStays DEF TypeOK
  <2> QED
    BY <1>2, <1>14, <2>1, <2>2, <2>5, <2>6 DEF ProcessLine, TypeOK, client, wire
<1>15. CASE ProcessQuit
  <2>1. lines' \in Nat /\ Queue(Bye, TRUE)
    <3>1. lines' = lines + 1 /\ lines \in Nat
      BY <1>2, <1>15 DEF ProcessQuit, TypeOK
    <3>2. lines' \in Nat
      BY <3>1
    <3>3. Queue(Bye, TRUE)
      BY <1>15 DEF ProcessQuit
    <3> QED
      BY <3>2, <3>3
  <2>2. /\ Len(out') <= BufSize /\ outSent' \in 0 .. Len(out') /\ closing' \in BOOLEAN
        /\ (said' = said \/ said' = Append(said, Bye))
    BY <1>2, <2>1, QueueIs, RepliesAre
  <2>3. \A k \in 1 .. Len(said') : said'[k] \in Reply
    BY <1>2, <2>2, SaidStays, RepliesAre, FixedReplies DEF TypeOK
  <2> QED
    BY <1>2, <1>15, <2>1, <2>2, <2>3 DEF ProcessQuit, TypeOK, client, wire
<1>16. CASE ProcessRest
  <2>1. in' \in Seq(Byte) /\ Len(in') <= BufSize
    <3>1. in' = SubSeq(in, start, Len(in))
      BY <1>16 DEF ProcessRest, Leftover
    <3> QED
      BY <1>2, <3>1 DEF TypeOK
  <2>2. pc' \in {"send", "finish", "recv"}
    BY <1>10, <1>16 DEF ProcessRest
  <2>3. /\ Len(out') <= BufSize /\ outSent' \in 0 .. Len(out') /\ closing' \in BOOLEAN
        /\ \A k \in 1 .. Len(said') : said'[k] \in Reply
    <3>1. CASE Queue(TooLong, TRUE)
      <4>1. /\ Len(out') <= BufSize /\ outSent' \in 0 .. Len(out') /\ closing' \in BOOLEAN
            /\ (said' = said \/ said' = Append(said, TooLong))
        BY <1>2, <3>1, QueueIs, RepliesAre
      <4>2. \A k \in 1 .. Len(said') : said'[k] \in Reply
        BY <1>2, <4>1, SaidStays, RepliesAre, FixedReplies DEF TypeOK
      <4> QED
        BY <4>1, <4>2
    <3>2. CASE UNCHANGED <<closing, outgoing>>
      BY <1>2, <3>2 DEF TypeOK, outgoing
    <3> QED
      BY <1>16, <3>1, <3>2 DEF ProcessRest
  <2> QED
    BY <1>2, <1>16, <2>1, <2>2, <2>3 DEF ProcessRest, TypeOK, client, wire
<1>17. CASE SendSome
  <2>1. PICK n \in 1 .. Min({Len(Unsent), SocketSize - Len(socket)}) :
          /\ socket' = socket \o SubSeq(Unsent, 1, n)
          /\ outSent' = outSent + n
    BY <1>17 DEF SendSome, AfterSend
  <2>2. /\ out \in Seq(Cell) /\ outSent \in 0 .. Len(out)
        /\ socket \in Seq(Cell) /\ Len(socket) <= SocketSize
    BY <1>2 DEF WireInv, TypeOK
  <2>3. Unsent \in Seq(Cell) /\ Len(Unsent) = Len(out) - outSent
    BY <2>2 DEF Unsent
  <2>4. n \in Nat /\ n <= Len(Unsent) /\ n <= SocketSize - Len(socket)
    <3>1. Len(Unsent) \in Nat /\ SocketSize - Len(socket) \in Nat
      BY <2>2, <2>3
    <3> QED
      BY <3>1, MinOfTwo
  <2>5. SubSeq(Unsent, 1, n) \in Seq(Cell) /\ Len(SubSeq(Unsent, 1, n)) = n
    BY <2>3, <2>4
  <2>6. Len(socket') <= SocketSize /\ outSent' \in 0 .. Len(out)
    BY <2>1, <2>2, <2>3, <2>4, <2>5
  <2> QED
    BY <1>2, <1>17, <2>6 DEF SendSome, TypeOK, client, framing
<1>18. CASE SendRefused
  BY <1>2, <1>18 DEF SendRefused, TypeOK, framing, client, wire, outgoing
<1>19. CASE SendError
  BY <1>2, <1>19 DEF SendError, TypeOK, framing, client, wire, outgoing
<1>20. CASE SendDone
  <2>1. Len(out') = 0 /\ outSent' = 0
    BY <1>20 DEF SendDone
  <2> QED
    BY <1>2, <1>20, <2>1 DEF SendDone, TypeOK, framing, client, wire
<1>21. CASE Finish
  <2>1. wantOut' \in BOOLEAN /\ pc' \in {"closed", "wait"}
    BY <1>2, <1>21 DEF Finish, TypeOK, Interest
  <2> QED
    BY <1>2, <1>21, <2>1 DEF Finish, TypeOK, framing, client, wire, outgoing
<1> QED
  BY <1>1, <1>3, <1>4, <1>5, <1>6, <1>7, <1>8, <1>9, <1>11, <1>12, <1>13, <1>14, <1>15, <1>16,
     <1>17, <1>18, <1>19, <1>20, <1>21 DEF Next, Server

-----------------------------------------------------------------------------
\* The buffer.

Framing == pc \in {"lines", "rest"}

LEMMA NextBuffer == IInv /\ [Next]_vars => BufferInv'
<1>1. SUFFICES ASSUME IInv, [Next]_vars PROVE BufferInv'
  OBVIOUS
<1>2. TypeOK /\ BufferInv /\ SaidInv
  BY <1>1 DEF IInv
\* A step that leaves the buffer alone.
<1>3. ASSUME UNCHANGED <<input, taken, in, start>>, Framing' = Framing, closing => closing'
      PROVE  BufferInv'
  <2>1. From' = From /\ Base' = Base
    BY <1>3 DEF From, Base, Framing
  <2> QED
    BY <1>2, <1>3, <2>1 DEF BufferInv, Framing
<1>4. CASE UNCHANGED vars
  BY <1>3, <1>4 DEF vars, Framing
<1>5. ASSUME NEW b \in Byte, ClientWrite(b) PROVE BufferInv'
  <2>1. /\ input' = Append(input, b) /\ taken' = taken /\ in' = in /\ Len(input) < MaxInput
        /\ pc' = pc /\ start' = start /\ closing' = closing
    BY <1>5 DEF ClientWrite, framing
  <2>2. /\ input \in Seq(Byte) /\ taken \in 0 .. Len(input) /\ Len(in) \in Nat
        /\ Len(in) <= taken
    BY <1>2 DEF TypeOK, BufferInv
  <2>3. \A j \in 1 .. Len(in) : input'[Base + j] = input[Base + j]
    BY <2>1, <2>2 DEF Base
  <2>4. Len(input') <= MaxInput
    BY <2>1, <2>2
  <2>5. From' = From
    BY <2>1 DEF From
  <2> QED
    BY <1>2, <2>1, <2>3, <2>4, <2>5 DEF BufferInv, Base
<1>6. CASE RecvData
  <2>1. PICK n \in 1 .. Min({RecvSpace, Unread}) :
           /\ in' = in \o SubSeq(input, taken + 1, taken + n)
           /\ taken' = taken + n
    BY <1>6 DEF RecvData
  <2>2. n \in Nat /\ n <= BufSize - Len(in) /\ n <= Len(input) - taken
    <3>1. RecvSpace \in Nat /\ Unread \in Nat
      BY <1>2 DEF RecvSpace, Unread, TypeOK
    <3> QED
      BY <3>1, MinOfTwo DEF RecvSpace, Unread
  <2>3. PICK more \in Seq(Byte) : more = SubSeq(input, taken + 1, taken + n)
    <3>1. SubSeq(input, taken + 1, taken + n) \in Seq(Byte)
      BY <1>2, <2>2 DEF TypeOK
    <3> QED
      BY <3>1
  <2>4. Len(more) = n /\ \A j \in 1 .. n : more[j] = input[taken + j]
    BY <1>2, <2>2, <2>3 DEF TypeOK
  <2>5. /\ Len(in') = Len(in) + n /\ Len(in) \in Nat
        /\ \A j \in 1 .. Len(in') :
             in'[j] = IF j <= Len(in) THEN in[j] ELSE more[j - Len(in)]
    <3>1. in \in Seq(Byte) /\ Len(in) \in Nat
      BY <1>2 DEF TypeOK
    <3>2. in' = in \o more
      BY <2>1, <2>3
    <3>3. PICK b \in Seq(Byte) : b = in \o more
      <4>1. in \o more \in Seq(Byte)
        BY <3>1, <2>3, ConcatProperties
      <4> QED
        BY <4>1
    <3>4. /\ Len(b) = Len(in) + n
          /\ \A j \in 1 .. Len(b) :
               b[j] = IF j <= Len(in) THEN in[j] ELSE more[j - Len(in)]
      <4>1. more \in Seq(Byte) /\ Len(more) = n
        BY <2>3, <2>4
      <4>2. /\ Len(b) = Len(in) + Len(more)
            /\ \A j \in 1 .. Len(in) + Len(more) :
                 b[j] = IF j <= Len(in) THEN in[j] ELSE more[j - Len(in)]
        BY <3>1, <3>3, <4>1, ConcatProperties
      <4> QED
        BY <4>1, <4>2
    <3> QED
      BY <3>1, <3>2, <3>3, <3>4
  <2>6. input' = input /\ start' = 1 /\ pc' = "lines"
    BY <1>6 DEF RecvData, client
  <2>7. Base' = Base
    BY <1>2, <2>1, <2>2, <2>5 DEF Base, TypeOK
  <2>8. ASSUME NEW j \in 1 .. Len(in') PROVE in'[j] = input[Base + j]
    <3>1. CASE j <= Len(in)
      BY <1>2, <2>5, <3>1 DEF BufferInv
    <3>2. CASE ~ (j <= Len(in))
      <4>1. PICK i \in 1 .. n : i = j - Len(in)
        <5>1. PICK l \in Nat : l = Len(in) /\ j \in 1 .. l + n /\ ~ (j <= l)
          BY <2>2, <2>5, <3>2
        <5>2. j - l \in 1 .. n
          BY <2>2, <5>1
        <5> QED
          BY <5>1, <5>2
      <4>2. taken + i = Base + j
        BY <1>2, <2>5, <4>1 DEF Base, TypeOK
      <4> QED
        BY <2>4, <2>5, <3>2, <4>1, <4>2
    <3> QED
      BY <3>1, <3>2
  <2>9. Len(in') <= taken' /\ Len(input') <= MaxInput /\ From' = 1 /\ From' <= Len(in') + 1
    BY <1>2, <2>1, <2>2, <2>5, <2>6 DEF BufferInv, TypeOK, From
  <2> QED
    BY <2>5, <2>6, <2>7, <2>8, <2>9 DEF BufferInv
<1>7. CASE ProcessLine
  <2>1. LineEnd \in Nat /\ LineEnd \in start .. Len(in)
    BY <1>2, <1>7, LineEndIs DEF ProcessLine
  <2>2. start' = LineEnd + 1 /\ UNCHANGED <<input, taken, in>> /\ pc' = "lines"
    BY <1>7 DEF ProcessLine, client
  <2>3. From' <= Len(in) + 1 /\ Base' = Base
    BY <1>2, <2>1, <2>2 DEF TypeOK, From, Base
  <2> QED
    BY <1>2, <2>2, <2>3 DEF BufferInv
<1>8. CASE ProcessRest
  <2>1. /\ UNCHANGED <<input, taken, start>> /\ pc \in {"lines", "rest"}
        /\ in' = SubSeq(in, start, Len(in))
        /\ pc' \in {"send", "finish", "recv"}
    BY <1>8 DEF ProcessRest, client, Leftover, AfterRead
  <2>2. /\ in \in Seq(Byte) /\ start \in Nat /\ start >= 1 /\ start <= Len(in) + 1
        /\ Len(in) <= taken /\ taken \in Nat /\ Len(in) <= BufSize /\ Len(input) <= MaxInput
    BY <1>2, <2>1 DEF TypeOK, BufferInv, From
  <2>3. /\ Len(in') = (Len(in) + 1) - start /\ Len(in) \in Nat
        /\ \A j \in 1 .. Len(in') : in'[j] = in[(start + j) - 1]
    BY <2>1, <2>2
  <2>4. ASSUME ~ closing' PROVE Newlines(in, start) = {} /\ Len(in') < BufSize
    <3>1. Len(Leftover) # BufSize /\ ~ closing
      BY <1>8, <2>4 DEF ProcessRest, Queue
    <3>2. pc # "rest"
      BY <1>2, <3>1 DEF SaidInv
    <3>3. Newlines(in, start) = {}
      BY <1>8, <3>2 DEF ProcessRest, HasLine
    <3>4. Len(in') # BufSize
      BY <1>8, <3>1 DEF ProcessRest
    <3> QED
      BY <2>2, <2>3, <3>3, <3>4
  <2>5. ASSUME NEW j \in 1 .. Len(in')
        PROVE  in'[j] = input'[Base' + j] /\ (~ closing' => in'[j] # "nl")
    <3>1. PICK i \in 1 .. Len(in) : i = (start + j) - 1 /\ i >= start
      <4>1. PICK l \in Nat : l = Len(in) /\ j \in 1 .. (l + 1) - start
        BY <2>2, <2>3
      <4>2. (start + j) - 1 \in 1 .. l /\ (start + j) - 1 >= start
        BY <2>2, <4>1
      <4> QED
        BY <4>1, <4>2
    <3>2. in'[j] = in[i]
      BY <2>3, <3>1
    <3>3. in[i] = input[Base + i]
      BY <1>2 DEF BufferInv
    <3>4. Base' + j = Base + i
      BY <2>1, <2>2, <2>3, <3>1 DEF Base
    <3>5. ~ closing' => in[i] # "nl"
      BY <2>2, <2>4, <3>1 DEF Newlines
    <3> QED
      BY <2>1, <3>2, <3>3, <3>4, <3>5
  <2>6. Len(in') <= taken' /\ From' = 1 /\ From' <= Len(in') + 1 /\ Len(input') <= MaxInput
    BY <2>1, <2>2, <2>3 DEF From
  <2> QED
    BY <2>4, <2>5, <2>6 DEF BufferInv
<1>9. CASE ProcessQuit
  <2>1. UNCHANGED <<input, taken, in, start>> /\ pc = "lines" /\ pc' = "rest" /\ closing'
    BY <1>9 DEF ProcessQuit, client, Queue
  <2> QED
    BY <1>3, <2>1 DEF Framing
<1>10. CASE ClientShutdown \/ ClientReset \/ ClientRead
  BY <1>3, <1>10 DEF ClientShutdown, ClientReset, ClientRead, client, framing, Framing
<1>11. CASE Wake \/ RecvNothing \/ RecvEnd \/ RecvError
  <2>1. /\ UNCHANGED <<input, taken, in, start>> /\ pc \in {"wait", "recv"}
        /\ pc' \in {"closed", "recv", "send", "finish"} /\ (closing => closing')
    BY <1>11 DEF Wake, RecvNothing, RecvEnd, RecvError, client, framing, AfterRead
  <2> QED
    BY <1>3, <2>1 DEF Framing
<1>12. CASE SendSome \/ SendRefused \/ SendError \/ SendDone \/ Finish
  <2>1. /\ UNCHANGED <<input, taken, in, start>> /\ pc \in {"send", "finish"}
        /\ pc' \in {"send", "finish", "wait", "closed"} /\ (closing => closing')
    BY <1>12 DEF SendSome, SendRefused, SendError, SendDone, Finish, client, framing
  <2> QED
    BY <1>3, <2>1 DEF Framing
<1> QED
  BY <1>1, <1>4, <1>5, <1>6, <1>7, <1>8, <1>9, <1>10, <1>11, <1>12 DEF Next, Server

-----------------------------------------------------------------------------
\* What was said.

\* The numbered replies of r carry the lines of s up to the m-th, in order.
TrueTo(r, s, m) ==
    /\ \A k \in 1 .. Len(r) : r[k].no # 0 =>
           r[k].no \in 1 .. m /\ r[k].text = Line(s, r[k].no)
    /\ \A j, k \in 1 .. Len(r) : j < k /\ r[k].no # 0 => r[j].no < r[k].no

LEMMA TrueMore ==
    ASSUME NEW r \in Seq(AnyReply), NEW s, NEW m \in Nat, TrueTo(r, s, m)
    PROVE  TrueTo(r, s, m + 1)
BY DEF TrueTo

LEMMA TrueAppended ==
    ASSUME NEW r \in Seq(AnyReply), NEW s, NEW m \in Nat, TrueTo(r, s, m),
           NEW x \in AnyReply, NEW i \in Nat, m <= i,
           x.no # 0 => x.no = m + 1 /\ m + 1 <= i /\ x.text = Line(s, m + 1)
    PROVE  TrueTo(Append(r, x), s, i)
<1>1. PICK t \in Seq(AnyReply) : t = Append(r, x)
  BY AppendProperties
<1>2. PICK l \in Nat : l = Len(r)
  OBVIOUS
<1>3. Len(t) = l + 1 /\ t[l + 1] = x /\ \A k \in 1 .. l : t[k] = r[k]
  BY <1>1, <1>2
<1>4. ASSUME NEW k \in 1 .. Len(t), t[k].no # 0
      PROVE  t[k].no \in 1 .. i /\ t[k].text = Line(s, t[k].no)
  <2>1. CASE k \in 1 .. l
    BY <1>2, <1>3, <1>4, <2>1 DEF TrueTo
  <2>2. CASE k = l + 1
    BY <1>3, <1>4, <2>2
  <2> QED
    BY <1>3, <2>1, <2>2
<1>5. ASSUME NEW j \in 1 .. Len(t), NEW k \in 1 .. Len(t), j < k, t[k].no # 0
      PROVE  t[j].no < t[k].no
  <2>1. j \in 1 .. l
    BY <1>3, <1>5
  <2>2. CASE k \in 1 .. l
    BY <1>2, <1>3, <1>5, <2>1, <2>2 DEF TrueTo
  <2>3. CASE k = l + 1
    <3>1. t[k].no = m + 1
      BY <1>3, <1>5, <2>3
    <3>2. r[j].no \in Nat /\ (r[j].no # 0 => r[j].no \in 1 .. m)
      <4>1. r[j] \in AnyReply /\ j \in 1 .. Len(r)
        BY <1>2, <2>1
      <4>2. r[j].no \in Nat
        BY <4>1 DEF AnyReply
      <4> QED
        BY <4>1, <4>2 DEF TrueTo
    <3> QED
      BY <1>3, <2>1, <3>1, <3>2
  <2> QED
    BY <1>3, <2>2, <2>3
<1> QED
  BY <1>1, <1>4, <1>5 DEF TrueTo

LEMMA TrueAgrees ==
    ASSUME NEW s \in Seq(Byte), NEW t \in Seq(Byte), NEW p, NEW m, Framed(s, p, m),
           p <= Len(t), \A j \in 1 .. p : s[j] = t[j], NEW r, TrueTo(r, s, m)
    PROVE  TrueTo(r, t, m)
<1>1. ASSUME NEW n \in 1 .. m PROVE Line(t, n) = Line(s, n)
  BY LineAgrees
<1> QED
  BY <1>1 DEF TrueTo

\* SaidInv, put together.
LEMMA SaidIs ==
    SaidInv <=> /\ said \in Seq(AnyReply)
                /\ Framed(Received, Place, WorkedOff)
                /\ lines = WorkedOff \/ (closing /\ QuitNext)
                /\ pc = "rest" => closing /\ QuitNext
                /\ ~ closing => said = Told(Received, WorkedOff)
                /\ TrueTo(said, Received, WorkedOff)
BY DEF SaidInv, TrueTo

LEMMA NextSaid == IInv /\ [Next]_vars => SaidInv'
<1>1. SUFFICES ASSUME IInv, [Next]_vars PROVE SaidInv'
  OBVIOUS
<1>2. TypeOK /\ BufferInv /\ SaidInv /\ WireInv
  BY <1>1 DEF IInv
<1>3. PICK s \in Seq(Byte) : s = Received /\ Len(s) = taken
  BY <1>2, ReceivedIs
<1>4. PICK p : p = Place
  OBVIOUS
<1>5. PICK m \in Nat : m = WorkedOff /\ Framed(s, p, m) /\ m = Ended(s, p)
  <2>1. Framed(s, p, WorkedOff) /\ WorkedOff = Ended(s, p)
    BY <1>2, <1>3, <1>4 DEF SaidInv, WorkedOff
  <2> QED
    BY <2>1 DEF Framed
<1>6. said \in Seq(AnyReply) /\ TrueTo(said, s, m) /\ (~ closing => said = Told(s, m))
  BY <1>2, <1>3, <1>5, SaidIs
<1>7. PICK q : q = QuitNext
  OBVIOUS
<1>8. (lines = m \/ (closing /\ QuitNext)) /\ (pc = "rest" => closing /\ QuitNext)
  BY <1>2, <1>5 DEF SaidInv
<1>9. input' = input /\ taken' = taken => Received' = s
  BY <1>3 DEF Received
\* A step that neither receives nor works anything off.
<1>10. ASSUME Received' = s, UNCHANGED <<taken, in, start, lines, said>>, Framing' = Framing,
              closing => closing', pc' = "rest" => pc = "rest"
       PROVE  SaidInv'
  <2>1. From' = From /\ Base' = Base
    BY <1>10 DEF From, Base, Framing
  <2>2. Place' = p
    BY <1>4, <2>1 DEF Place
  <2>3. WorkedOff' = m
    BY <1>5, <1>10, <2>2 DEF WorkedOff
  <2>4. QuitNext' = QuitNext
    BY <1>10, <2>1 DEF QuitNext
  <2> QED
    BY <1>5, <1>6, <1>8, <1>10, <2>2, <2>3, <2>4, SaidIs DEF SaidInv, TrueTo
<1>11. CASE UNCHANGED vars
  BY <1>9, <1>10, <1>11 DEF vars, Framing
<1>12. ASSUME NEW b \in Byte, ClientWrite(b) PROVE SaidInv'
  <2>1. Received' = s
    <3>1. input \in Seq(Byte) /\ taken \in 0 .. Len(input)
      BY <1>2 DEF TypeOK
    <3>2. SubSeq(Append(input, b), 1, taken) = SubSeq(input, 1, taken)
      BY <3>1
    <3> QED
      BY <1>3, <1>12, <3>2 DEF ClientWrite, Received
  <2> QED
    BY <1>10, <1>12, <2>1 DEF ClientWrite, framing, outgoing, Framing
<1>13. CASE ClientShutdown \/ ClientReset \/ ClientRead
  BY <1>9, <1>10, <1>13
  DEF ClientShutdown, ClientReset, ClientRead, client, framing, outgoing, Framing
<1>14. CASE Wake \/ RecvNothing \/ RecvEnd \/ RecvError
  <2>1. /\ UNCHANGED <<input, taken, in, start, lines, said>> /\ pc \in {"wait", "recv"}
        /\ pc' \in {"closed", "recv", "send", "finish"} /\ (closing => closing')
    BY <1>14 DEF Wake, RecvNothing, RecvEnd, RecvError, client, framing, outgoing, AfterRead
  <2> QED
    BY <1>9, <1>10, <2>1 DEF Framing
<1>15. CASE SendSome \/ SendRefused \/ SendError \/ SendDone \/ Finish
  <2>1. /\ UNCHANGED <<input, taken, in, start, lines, said>> /\ pc \in {"send", "finish"}
        /\ pc' \in {"send", "finish", "wait", "closed"} /\ (closing => closing')
    BY <1>15 DEF SendSome, SendRefused, SendError, SendDone, Finish, client, framing, outgoing
  <2> QED
    BY <1>9, <1>10, <2>1 DEF Framing
<1>16. CASE RecvData
  <2>1. PICK n \in 1 .. Min({RecvSpace, Unread}) :
           /\ in' = in \o SubSeq(input, taken + 1, taken + n)
           /\ taken' = taken + n
    BY <1>16 DEF RecvData
  <2>2. n \in Nat /\ n <= Len(input) - taken
    <3>1. RecvSpace \in Nat /\ Unread \in Nat
      BY <1>2 DEF RecvSpace, Unread, TypeOK
    <3> QED
      BY <3>1, MinOfTwo DEF Unread
  <2>3. PICK t \in Seq(Byte) : t = Received'
    <3>1. SubSeq(input, 1, taken + n) \in Seq(Byte)
      BY <1>2, <2>2 DEF TypeOK
    <3>2. Received' = SubSeq(input, 1, taken + n)
      BY <1>16, <2>1 DEF RecvData, client, Received
    <3> QED
      BY <3>1, <3>2
  <2>4. Len(t) = taken + n /\ taken \in Nat /\ \A j \in 1 .. taken : t[j] = input[j]
    <3>1. t = SubSeq(input, 1, taken + n)
      BY <1>16, <2>1, <2>3 DEF RecvData, client, Received
    <3> QED
      BY <1>2, <2>2, <3>1 DEF TypeOK
  <2>5. p = Base /\ p \in Nat /\ p <= taken /\ From = 1
    <3>1. Base \in Nat /\ Base <= taken
      BY <1>2 DEF Base, TypeOK, BufferInv
    <3>2. From = 1
      BY <1>16 DEF RecvData, From
    <3> QED
      BY <1>4, <3>1, <3>2 DEF Place
  <2>6. \A j \in 1 .. p : s[j] = t[j]
    BY <1>2, <1>3, <2>4, <2>5, ReceivedIs
  <2>7. p <= Len(t)
    BY <2>2, <2>4, <2>5
  <2>8. Framed(t, p, m) /\ Told(t, m) = Told(s, m)
    BY <1>5, <2>6, <2>7, FramedAgrees
  <2>9. TrueTo(said, t, m)
    BY <1>5, <1>6, <2>6, <2>7, TrueAgrees
  <2>10. PICK more \in Seq(Byte) : more = SubSeq(input, taken + 1, taken + n) /\ Len(more) = n
    <3>1. /\ SubSeq(input, taken + 1, taken + n) \in Seq(Byte)
          /\ Len(SubSeq(input, taken + 1, taken + n)) = n
      BY <1>2, <2>2 DEF TypeOK
    <3> QED
      BY <3>1
  <2>11. PICK c \in Seq(Byte) : /\ c = in' /\ Len(c) = Len(in) + n
                                /\ \A j \in 1 .. Len(in) : c[j] = in[j]
    <3>1. in \in Seq(Byte)
      BY <1>2 DEF TypeOK
    <3>2. PICK d \in Seq(Byte) : d = in \o more
      <4>1. in \o more \in Seq(Byte)
        BY <2>10, <3>1, ConcatProperties
      <4> QED
        BY <4>1
    <3>3. Len(d) = Len(in) + n /\ \A j \in 1 .. Len(in) : d[j] = in[j]
      BY <2>2, <2>10, <3>1, <3>2
    <3>4. d = in'
      BY <2>1, <2>10, <3>2
    <3> QED
      BY <3>3, <3>4
  <2>12. Place' = p /\ From' = 1
    <3>1. start' = 1 /\ pc' = "lines"
      BY <1>16 DEF RecvData
    <3>2. From' = 1
      BY <3>1 DEF From
    <3>3. Len(in) \in Nat /\ Base = taken - Len(in)
      BY <1>2 DEF TypeOK, Base
    <3>4. Base' = Base
      BY <2>1, <2>2, <2>4, <2>11, <3>3 DEF Base
    <3> QED
      BY <2>5, <3>2, <3>4 DEF Place
  <2>13. WorkedOff' = m
    BY <2>3, <2>8, <2>12 DEF WorkedOff, Framed
  <2>14. QuitNext => QuitNext'
    <3>1. SUFFICES ASSUME QuitNext PROVE QuitNext'
      OBVIOUS
    <3>2. in \in Seq(Byte)
      BY <1>2 DEF TypeOK
    <3>3. PICK e \in Nat : QuitAt(in, 1, e)
      BY <1>2, <2>5, <3>1, QuitNextIs
    <3>4. Len(in) <= Len(c)
      BY <2>2, <2>11, <3>2
    <3>5. QuitAt(c, 1, e)
      BY <2>11, <3>2, <3>3, <3>4, QuitStays
    <3>6. Newlines(c, 1) # {} /\ IsQuit(SubSeq(c, 1, Min(Newlines(c, 1)) - 1))
      BY <3>3, <3>5, QuitIs
    <3> QED
      BY <2>11, <2>12, <3>6 DEF QuitNext
  <2>15. lines' = lines /\ said' = said /\ closing' = closing /\ pc' = "lines"
    BY <1>16 DEF RecvData, outgoing
  <2>16. /\ said' \in Seq(AnyReply) /\ Framed(Received', Place', WorkedOff')
         /\ (~ closing' => said' = Told(Received', WorkedOff'))
         /\ TrueTo(said', Received', WorkedOff')
    BY <1>6, <2>3, <2>8, <2>9, <2>12, <2>13, <2>15
  <2>17. lines' = WorkedOff' \/ (closing' /\ QuitNext')
    BY <1>8, <2>13, <2>14, <2>15
  <2> QED
    BY <2>15, <2>16, <2>17 DEF SaidInv, TrueTo
<1>17. CASE ProcessLine
  <2>1. PICK e \in Nat : e = Base + LineEnd
    BY <1>2, <1>17, LineEndIs, BufferIs DEF ProcessLine
  <2>2. PICK x \in AnyReply : x = Numbered(lines + 1, CurrentLine)
    BY <1>1, <1>17, NextLineIs
  <2>3. /\ lines = m /\ Framed(s, e, m + 1) /\ Told(s, m + 1) = Append(Told(s, m), x)
        /\ x.no = m + 1 /\ x.text = Line(s, m + 1)
    <3>1. /\ lines = m /\ Framed(s, e, m + 1) /\ Told(s, m + 1) = Append(Told(s, m), x)
          /\ Line(s, m + 1) = CurrentLine
      BY <1>1, <1>3, <1>5, <1>17, <2>1, <2>2, NextLineIs
    <3> QED
      BY <2>2, <3>1 DEF Numbered
  <2>4. /\ UNCHANGED <<input, taken, in, pc>> /\ lines' = lines + 1 /\ start' = LineEnd + 1
        /\ pc = "lines" /\ Queue(x, FALSE)
    BY <1>17, <2>2 DEF ProcessLine, client
  <2>5. Received' = s
    BY <1>9, <2>4
  <2>6. Place' = e
    <3>1. LineEnd \in Nat /\ Base \in Nat
      BY <1>2, <1>17, LineEndIs, BufferIs DEF ProcessLine
    <3>2. Base' = Base /\ From' = LineEnd + 1
      BY <2>4 DEF Base, From
    <3> QED
      BY <2>1, <3>1, <3>2 DEF Place
  <2>7. WorkedOff' = m + 1
    BY <2>3, <2>5, <2>6 DEF WorkedOff, Framed
  <2>8. /\ said' = Append(said, x) \/ (said' = said /\ closing')
        /\ closing => closing'
    BY <1>2, <2>4, QueueIs
  <2>9. said' \in Seq(AnyReply) /\ TrueTo(said', s, m + 1)
    <3>1. CASE said' = Append(said, x)
      <4>1. m + 1 \in Nat /\ m <= m + 1
        BY <1>5
      <4>2. TrueTo(Append(said, x), s, m + 1)
        BY <1>6, <2>3, <4>1, TrueAppended
      <4>3. Append(said, x) \in Seq(AnyReply)
        BY <1>6, AppendProperties
      <4> QED
        BY <3>1, <4>2, <4>3
    <3>2. CASE said' = said
      BY <1>6, <3>2, TrueMore
    <3> QED
      BY <2>8, <3>1, <3>2
  <2>10. ~ closing' => said' = Told(s, m + 1)
    BY <1>6, <2>3, <2>8
  <2> QED
    BY <2>3, <2>4, <2>5, <2>6, <2>7, <2>9, <2>10 DEF SaidInv, TrueTo
<1>18. Bye.no = 0 /\ TooLong.no = 0
  BY DEF Bye, TooLong
<1>19. CASE ProcessQuit
  <2>1. /\ UNCHANGED <<input, taken, in, start>> /\ pc = "lines" /\ pc' = "rest"
        /\ HasLine /\ IsQuit(CurrentLine)
    BY <1>19 DEF ProcessQuit, client
  <2>2. closing' /\ (said' = said \/ said' = Append(said, Bye))
    <3>1. Queue(Bye, TRUE)
      BY <1>19 DEF ProcessQuit
    <3>2. closing'
      BY <3>1 DEF Queue
    <3>3. said' = said \/ said' = Append(said, Bye)
      BY <3>1 DEF Queue
    <3> QED
      BY <3>2, <3>3
  <2>3. Received' = s /\ From' = From /\ Base' = Base
    BY <1>9, <2>1 DEF From, Base
  <2>4. Place' = p /\ WorkedOff' = m
    BY <1>4, <1>5, <2>3 DEF Place, WorkedOff
  <2>5. QuitNext'
    BY <2>1, <2>3 DEF QuitNext, From, HasLine, CurrentLine, LineEnd
  <2>6. said' \in Seq(AnyReply) /\ TrueTo(said', s, m)
    <3>1. TrueTo(Append(said, Bye), s, m)
      BY <1>5, <1>6, <1>18, RepliesAre, TrueAppended
    <3>2. Append(said, Bye) \in Seq(AnyReply)
      BY <1>6, RepliesAre, AppendProperties
    <3> QED
      BY <1>6, <2>2, <3>1, <3>2
  <2> QED
    BY <1>5, <2>2, <2>3, <2>4, <2>5, <2>6 DEF SaidInv, TrueTo
<1>20. CASE ProcessRest
  <2>1. /\ UNCHANGED <<input, taken, start, lines>> /\ pc \in {"lines", "rest"}
        /\ in' = SubSeq(in, start, Len(in))
        /\ pc' \in {"send", "finish", "recv"}
    BY <1>20 DEF ProcessRest, client, Leftover, AfterRead
  <2>2. /\ in \in Seq(Byte) /\ start \in Nat /\ start >= 1 /\ start <= Len(in) + 1
        /\ From = start /\ Len(in) \in Nat /\ taken \in Nat
    BY <1>2, <2>1 DEF TypeOK, BufferInv, From
  <2>3. PICK c \in Seq(Byte) : c = in' /\ Len(c) = (Len(in) + 1) - start
    <3>1. SubSeq(in, start, Len(in)) \in Seq(Byte)
      BY <2>2
    <3>2. Len(SubSeq(in, start, Len(in))) = (Len(in) + 1) - start
      BY <2>2
    <3> QED
      BY <2>1, <3>1, <3>2
  <2>4. Received' = s /\ From' = 1
    BY <1>9, <2>1 DEF From
  <2>5. Place' = p
    <3>1. Place' = taken - Len(c)
      BY <2>1, <2>2, <2>3, <2>4 DEF Place, Base
    <3>2. p = ((taken - Len(in)) + start) - 1
      BY <1>4, <2>2 DEF Place, Base
    <3> QED
      BY <2>2, <2>3, <3>1, <3>2
  <2>6. WorkedOff' = m
    BY <1>5, <2>4, <2>5 DEF WorkedOff
  <2>7. QuitNext => QuitNext'
    <3>1. SUFFICES ASSUME QuitNext PROVE QuitNext'
      OBVIOUS
    <3>2. PICK e \in Nat : QuitAt(in, start, e)
      BY <1>2, <2>2, <3>1, QuitNextIs
    <3>3. QuitAt(SubSeq(in, start, Len(in)), 1, (e - start) + 1)
      BY <2>2, <3>2, QuitMoves
    <3>4. QuitAt(c, 1, (e - start) + 1) /\ (e - start) + 1 \in Nat
      <4>1. e \in start .. Len(in)
        BY <3>2 DEF QuitAt
      <4> QED
        BY <2>1, <2>2, <2>3, <3>3, <4>1
    <3>5. Newlines(c, 1) # {} /\ IsQuit(SubSeq(c, 1, Min(Newlines(c, 1)) - 1))
      BY <3>4, QuitIs
    <3> QED
      BY <2>3, <2>4, <3>5 DEF QuitNext
  <2>8. /\ said' = said \/ (said' = Append(said, TooLong) /\ closing')
        /\ closing => closing'
    BY <1>20 DEF ProcessRest, Queue, outgoing
  <2>9. said' \in Seq(AnyReply) /\ TrueTo(said', s, m)
    <3>1. TrueTo(Append(said, TooLong), s, m)
      BY <1>5, <1>6, <1>18, RepliesAre, TrueAppended
    <3>2. Append(said, TooLong) \in Seq(AnyReply)
      BY <1>6, RepliesAre, AppendProperties
    <3> QED
      BY <1>6, <2>8, <3>1, <3>2
  <2>10. ~ closing' => said' = Told(s, m)
    BY <1>6, <2>8
  <2>11. lines' = m \/ (closing' /\ QuitNext')
    BY <1>8, <2>1, <2>7, <2>8
  <2> QED
    BY <1>5, <2>1, <2>4, <2>5, <2>6, <2>9, <2>10, <2>11 DEF SaidInv, TrueTo
<1> QED
  BY <1>1, <1>11, <1>12, <1>13, <1>14, <1>15, <1>16, <1>17, <1>19, <1>20 DEF Next, Server

-----------------------------------------------------------------------------
\* The way out.

\* What is cut off the front of the unsent cells.
LEMMA SentIs ==
    ASSUME NEW o \in Seq(Cell), NEW k \in 0 .. Len(o), NEW n \in 0 .. Len(o) - k
    PROVE  /\ SubSeq(o, k + 1, Len(o)) \in Seq(Cell)
           /\ Len(SubSeq(o, k + 1, Len(o))) = Len(o) - k
           /\ SubSeq(o, (k + n) + 1, Len(o))
                = SubSeq(SubSeq(o, k + 1, Len(o)), n + 1, Len(SubSeq(o, k + 1, Len(o))))
<1>1. PICK u \in Seq(Cell) : u = SubSeq(o, k + 1, Len(o))
  <2>1. SubSeq(o, k + 1, Len(o)) \in Seq(Cell)
    OBVIOUS
  <2> QED
    BY <2>1
<1>2. Len(u) = Len(o) - k /\ \A j \in 1 .. Len(u) : u[j] = o[k + j]
  BY <1>1
<1>3. PICK v \in Seq(Cell) : v = SubSeq(o, (k + n) + 1, Len(o))
  <2>1. SubSeq(o, (k + n) + 1, Len(o)) \in Seq(Cell)
    OBVIOUS
  <2> QED
    BY <2>1
<1>4. Len(v) = (Len(o) - k) - n /\ \A j \in 1 .. Len(v) : v[j] = o[(k + n) + j]
  BY <1>3
<1>5. PICK w \in Seq(Cell) : w = SubSeq(u, n + 1, Len(u))
  <2>1. SubSeq(u, n + 1, Len(u)) \in Seq(Cell)
    BY <1>2
  <2> QED
    BY <2>1
<1>6. Len(w) = (Len(o) - k) - n /\ \A j \in 1 .. Len(w) : w[j] = u[n + j]
  BY <1>2, <1>5
<1>7. ASSUME NEW j \in 1 .. Len(v) PROVE v[j] = w[j]
  <2>1. PICK i \in 1 .. Len(u) : i = n + j
    <3>1. n + j \in 1 .. Len(u)
      BY <1>2, <1>4, <1>6
    <3> QED
      BY <3>1
  <2>2. w[j] = u[i] /\ u[i] = o[k + i]
    BY <1>2, <1>4, <1>6, <2>1
  <2>3. k + i = (k + n) + j
    BY <2>1
  <2> QED
    BY <1>4, <2>2, <2>3
<1>8. v = w
  <2>1. Len(v) = Len(w) /\ \A j \in 1 .. Len(v) : v[j] = w[j]
    BY <1>4, <1>6, <1>7
  <2>2. v \in Seq(Cell) /\ w \in Seq(Cell)
    BY <1>3, <1>5
  <2> QED
    BY <2>1, <2>2
<1> QED
  BY <1>1, <1>2, <1>3, <1>5, <1>8

LEMMA UnsentIs ==
    ASSUME TypeOK, WireInv
    PROVE  Unsent \in Seq(Cell) /\ Len(Unsent) = Len(out) - outSent /\ Len(out) \in Nat
<1>1. PICK o \in Seq(Cell) : o = out /\ outSent \in 0 .. Len(o)
  BY DEF TypeOK, WireInv
<1> QED
  BY <1>1, SentIs DEF Unsent

\* Cells read by the client, and cells sent, stay in their place.
LEMMA ReadIs ==
    ASSUME NEW g \in Seq(Cell), NEW s \in Seq(Cell), NEW n \in 0 .. Len(s)
    PROVE  (g \o SubSeq(s, 1, n)) \o SubSeq(s, n + 1, Len(s)) = g \o s
<1>1. PICK a \in Seq(Cell) : a = SubSeq(s, 1, n)
  BY CutIs
<1>2. PICK b \in Seq(Cell) : b = SubSeq(s, n + 1, Len(s))
  BY CutIs
<1>3. a \o b = s
  BY <1>1, <1>2, CutIs
<1>4. Joined(g, a, b)
  BY ThreeJoined
<1> QED
  BY <1>1, <1>2, <1>3, <1>4 DEF Joined

SendKeeps(g, s, u, n) ==
    (g \o (s \o SubSeq(u, 1, n))) \o SubSeq(u, n + 1, Len(u)) = (g \o s) \o u

LEMMA SendIs ==
    ASSUME NEW g \in Seq(Cell), NEW s \in Seq(Cell), NEW u \in Seq(Cell), NEW n \in 0 .. Len(u)
    PROVE  SendKeeps(g, s, u, n)
<1>1. PICK a \in Seq(Cell) : a = SubSeq(u, 1, n)
  BY CutIs
<1>2. PICK b \in Seq(Cell) : b = SubSeq(u, n + 1, Len(u))
  BY CutIs
<1>3. a \o b = u
  BY <1>1, <1>2, CutIs
<1>4. PICK h \in Seq(Cell) : h = g \o s
  <2>1. g \o s \in Seq(Cell)
    BY ConcatProperties
  <2> QED
    BY <2>1
<1>5. Joined(g, s, a) /\ Joined(h, a, b)
  BY ThreeJoined
<1>6. (g \o (s \o a)) \o b = (h \o a) \o b
  BY <1>4, <1>5 DEF Joined
<1>7. (h \o a) \o b = h \o u
  BY <1>3, <1>5 DEF Joined
<1> QED
  BY <1>1, <1>2, <1>4, <1>6, <1>7 DEF SendKeeps

LEMMA NextWire == IInv /\ [Next]_vars => WireInv'
<1>1. SUFFICES ASSUME IInv, [Next]_vars PROVE WireInv'
  OBVIOUS
<1>2. TypeOK /\ BufferInv /\ SaidInv /\ WireInv
  BY <1>1 DEF IInv
<1>3. PICK o \in Seq(Cell) : o = out /\ outSent \in 0 .. Len(o)
  BY <1>2 DEF TypeOK, WireInv
<1>4. PICK w \in Seq(Cell) : w = socket
  BY <1>2 DEF WireInv
<1>5. PICK g \in Seq(Cell) : g = got
  BY <1>2 DEF WireInv
<1>6. PICK u \in Seq(Cell) : u = Unsent /\ Len(u) = Len(o) - outSent
  BY <1>2, <1>3, UnsentIs
<1>7. PICK a \in Seq(Cell) : a = AllCells(said)
  <2>1. said \in Seq(AnyReply)
    BY <1>2 DEF SaidInv
  <2>2. AllCells(said) \in Seq(Cell)
    BY <2>1, RepliesAre, AllCellsMore
  <2> QED
    BY <2>2
<1>8. /\ ~ gone /\ ~ GivenUp => (g \o w) \o u = a
      /\ ~ gone => IsPrefix((g \o w) \o u, a)
  BY <1>2, <1>4, <1>5, <1>6, <1>7 DEF WireInv
\* A step that says nothing, and at most moves cells on.
<1>9. ASSUME said' = said, gone => gone', ~ gone' => (GivenUp => GivenUp'),
             out' \in Seq(Cell), socket' \in Seq(Cell), got' \in Seq(Cell),
             ~ gone' => (got' \o socket') \o Unsent' = (g \o w) \o u
      PROVE  WireInv'
  <2>1. AllCells(said)' = a
    BY <1>7, <1>9
  <2> QED
    BY <1>8, <1>9, <2>1 DEF WireInv
\* A step of the framing loop that says r, or has no room for it.
<1>10. ASSUME NEW r \in AnyReply, NEW c \in BOOLEAN, Queue(r, c), ~ GivenUp,
              UNCHANGED <<gone, socket, got>>
       PROVE  WireInv'
  <2>1. /\ out' \in Seq(Cell) /\ outSent' = outSent
        /\ Fits(Size(r)) => /\ said' = Append(said, r)
                            /\ SubSeq(out', outSent + 1, Len(out')) = Unsent \o Cells(r)
        /\ ~ Fits(Size(r)) => said' = said /\ out' = out
    BY <1>2, <1>10, QueueIs
  <2>2. PICK z \in Seq(Cell) : z = Cells(r)
    BY CellsAre
  <2>3. PICK h \in Seq(Cell) : h = g \o w
    <3>1. g \o w \in Seq(Cell)
      BY ConcatProperties
    <3> QED
      BY <3>1
  <2>4. ~ gone => h \o u = a
    BY <1>8, <1>10, <2>3
  <2>5. CASE Fits(Size(r))
    <3>1. PICK v \in Seq(Cell) : v = u \o z
      <4>1. u \o z \in Seq(Cell)
        BY ConcatProperties
      <4> QED
        BY <4>1
    <3>2. Unsent' = v
      BY <1>6, <2>1, <2>2, <2>5, <3>1 DEF Unsent
    <3>3. PICK b \in Seq(Cell) : b = AllCells(said)' /\ b = a \o z
      <4>1. said \in Seq(AnyReply) /\ said' = Append(said, r)
        BY <1>2, <2>1, <2>5 DEF SaidInv
      <4>2. AllCells(Append(said, r)) = AllCells(said) \o Cells(r)
        BY <4>1, AllCellsMore
      <4>3. AllCells(said)' = a \o z
        BY <1>7, <2>2, <4>1, <4>2
      <4>4. a \o z \in Seq(Cell)
        BY ConcatProperties
      <4> QED
        BY <4>3, <4>4
    <3>4. ~ gone => h \o v = b
      <4>1. Joined(h, u, z)
        BY ThreeJoined
      <4> QED
        BY <2>4, <3>1, <3>3, <4>1 DEF Joined
    <3>5. ~ gone' => (got' \o socket') \o Unsent' = b
      BY <1>4, <1>5, <1>10, <2>3, <3>2, <3>4
    <3>6. IsPrefix(b, b)
      BY PrefixOfItself
    <3>7. socket' \in Seq(Cell) /\ got' \in Seq(Cell)
      BY <1>4, <1>5, <1>10
    <3> QED
      BY <2>1, <3>3, <3>5, <3>6, <3>7 DEF WireInv
  <2>6. CASE ~ Fits(Size(r))
    <3>1. Unsent' = u
      BY <1>6, <2>1, <2>6 DEF Unsent
    <3> QED
      BY <1>3, <1>4, <1>5, <1>9, <1>10, <2>1, <2>6, <3>1
  <2> QED
    BY <2>5, <2>6
<1>11. UNCHANGED <<out, outSent>> => Unsent' = u
  BY <1>6 DEF Unsent
\* A step that leaves the way out alone.
<1>12. ASSUME UNCHANGED <<said, out, outSent, socket, got>>, gone => gone',
              ~ gone' => (GivenUp => GivenUp')
       PROVE  WireInv'
  BY <1>3, <1>4, <1>5, <1>9, <1>11, <1>12
<1>13. CASE UNCHANGED vars
  <2>1. GivenUp' = GivenUp
    BY <1>13 DEF vars, GivenUp, Unread
  <2> QED
    BY <1>12, <1>13, <2>1 DEF vars
<1>14. CASE (\E b \in Byte : ClientWrite(b)) \/ ClientShutdown
  <2>1. UNCHANGED <<said, out, outSent, socket, got, gone>> /\ ~ fin
    BY <1>14 DEF ClientWrite, ClientShutdown, outgoing, wire
  <2> QED
    BY <1>12, <2>1 DEF GivenUp
<1>15. CASE ClientReset
  BY <1>3, <1>5, <1>9, <1>15 DEF ClientReset, outgoing
<1>16. CASE ClientRead
  <2>1. PICK n \in 1 .. Len(w) : /\ got' = g \o SubSeq(w, 1, n)
                                 /\ socket' = SubSeq(w, n + 1, Len(w))
    BY <1>4, <1>5, <1>16 DEF ClientRead
  <2>2. n \in 0 .. Len(w) /\ w \in Seq(Cell) /\ g \in Seq(Cell)
    BY <1>4, <1>5
  <2>3. PICK x \in Seq(Cell) : x = SubSeq(w, 1, n)
    <3>1. SubSeq(w, 1, n) \in Seq(Cell)
      BY <2>2, CutIs
    <3> QED
      BY <3>1
  <2>4. PICK y \in Seq(Cell) : y = SubSeq(w, n + 1, Len(w))
    <3>1. SubSeq(w, n + 1, Len(w)) \in Seq(Cell)
      BY <2>2, CutIs
    <3> QED
      BY <3>1
  <2>5. (g \o x) \o y = g \o w
    <3>1. (g \o SubSeq(w, 1, n)) \o SubSeq(w, n + 1, Len(w)) = g \o w
      BY <2>2, ReadIs
    <3> QED
      BY <2>3, <2>4, <3>1
  <2>6. g \o x \in Seq(Cell)
    BY ConcatProperties
  <2>7. UNCHANGED <<said, out, outSent, gone>> /\ GivenUp' = GivenUp
    BY <1>16 DEF ClientRead, client, outgoing, GivenUp, Unread
  <2>8. (got' \o socket') \o Unsent' = (g \o w) \o u
    BY <1>11, <2>1, <2>3, <2>4, <2>5, <2>7
  <2>9. socket' \in Seq(Cell) /\ got' \in Seq(Cell) /\ out' \in Seq(Cell)
    BY <1>3, <2>1, <2>3, <2>4, <2>6, <2>7
  <2> QED
    BY <1>9, <2>7, <2>8, <2>9
<1>17. CASE Wake \/ RecvNothing \/ RecvError \/ SendRefused \/ SendError \/ Finish
  <2>1. /\ UNCHANGED <<said, out, outSent, socket, got, gone, input, fin, taken>>
        /\ closing => closing'
        /\ pc' \notin {"lines", "rest"}
    BY <1>17 DEF Wake, RecvNothing, RecvError, SendRefused, SendError, Finish, client,
       outgoing, wire, AfterRead
  <2>2. GivenUp => GivenUp'
    BY <2>1 DEF GivenUp, Unread
  <2> QED
    BY <1>12, <2>1, <2>2
<1>18. CASE RecvData
  <2>1. UNCHANGED <<said, out, outSent, socket, got, gone>> /\ ~ GivenUp
    <3>1. Unread \in Nat /\ Unread > 0
      BY <1>2, <1>18 DEF RecvData, TypeOK, Unread
    <3> QED
      BY <1>18, <3>1 DEF RecvData, client, outgoing, wire, GivenUp
  <2> QED
    BY <1>12, <2>1
<1>19. CASE RecvEnd
  <2>1. /\ UNCHANGED <<said, outSent, socket, got, gone>> /\ closing' /\ ~ gone
        /\ UNCHANGED <<input, fin, taken>> /\ fin /\ Unread = 0 /\ pc' \notin {"lines", "rest"}
        /\ out' = SubSeq(o, 1, outSent)
    BY <1>3, <1>19 DEF RecvEnd, client, wire, AfterRead
  <2>2. GivenUp'
    BY <2>1 DEF GivenUp, Unread
  <2>3. PICK q \in Seq(Cell) : q = out' /\ Len(q) = outSent
    <3>1. SubSeq(o, 1, outSent) \in Seq(Cell) /\ Len(SubSeq(o, 1, outSent)) = outSent
      BY <1>3
    <3> QED
      BY <2>1, <3>1
  <2>4. Unsent' = <<>>
    <3>1. SubSeq(q, outSent + 1, outSent) = <<>>
      BY <2>3
    <3> QED
      BY <2>1, <2>3, <3>1 DEF Unsent
  <2>5. PICK h \in Seq(Cell) : h = g \o w
    <3>1. g \o w \in Seq(Cell)
      BY ConcatProperties
    <3> QED
      BY <3>1
  <2>6. IsPrefix(h, a)
    <3>1. IsPrefix(h \o u, a)
      BY <1>8, <2>1, <2>5
    <3> QED
      BY <3>1, PrefixOfJoined
  <2>7. (got' \o socket') \o Unsent' = h
    <3>1. h \o <<>> = h
      OBVIOUS
    <3> QED
      BY <1>4, <1>5, <2>1, <2>4, <2>5, <3>1
  <2>8. AllCells(said)' = a
    BY <1>7, <2>1
  <2>9. socket' \in Seq(Cell) /\ got' \in Seq(Cell) /\ out' \in Seq(Cell)
    BY <1>4, <1>5, <2>1, <2>3
  <2> QED
    BY <2>2, <2>6, <2>7, <2>8, <2>9 DEF WireInv
<1>20. CASE ProcessLine
  <2>1. PICK r \in AnyReply : r = Numbered(lines + 1, CurrentLine)
    BY <1>1, <1>20, NextLineIs
  <2>2. Queue(r, FALSE) /\ ~ GivenUp /\ UNCHANGED <<gone, socket, got>>
    BY <1>20, <2>1 DEF ProcessLine, GivenUp, client, wire
  <2> QED
    BY <1>10, <2>2
<1>21. CASE ProcessQuit
  <2>1. Queue(Bye, TRUE) /\ ~ GivenUp /\ UNCHANGED <<gone, socket, got>>
    BY <1>21 DEF ProcessQuit, GivenUp, client, wire
  <2> QED
    BY <1>10, <2>1, RepliesAre
<1>22. CASE ProcessRest
  <2>1. ~ GivenUp /\ UNCHANGED <<gone, socket, got>>
    BY <1>22 DEF ProcessRest, GivenUp, client, wire
  <2>2. CASE Queue(TooLong, TRUE)
    BY <1>10, <2>1, <2>2, RepliesAre
  <2>3. CASE UNCHANGED <<closing, outgoing>>
    BY <1>12, <2>1, <2>3 DEF outgoing
  <2> QED
    BY <1>22, <2>2, <2>3 DEF ProcessRest
<1>23. CASE SendSome
  <2>1. PICK n \in 1 .. Min({Len(Unsent), SocketSize - Len(socket)}) :
          /\ socket' = w \o SubSeq(u, 1, n)
          /\ outSent' = outSent + n
    BY <1>4, <1>6, <1>23 DEF SendSome, AfterSend
  <2>2. n \in 0 .. Len(u)
    <3>1. Len(u) \in Nat /\ SocketSize - Len(w) \in Nat
      BY <1>2, <1>4, <1>6 DEF TypeOK
    <3>2. n \in 1 .. Min({Len(u), SocketSize - Len(w)})
      BY <1>4, <1>6, <2>1
    <3>3. /\ Min({Len(u), SocketSize - Len(w)}) \in Nat
          /\ Min({Len(u), SocketSize - Len(w)}) <= Len(u)
      BY <3>1, MinOfTwo
    <3> QED
      BY <3>1, <3>2, <3>3
  <2>3. UNCHANGED <<said, out, got, gone>> /\ GivenUp' = GivenUp
    BY <1>23 DEF SendSome, client, GivenUp, Unread
  <2>4. PICK x \in Seq(Cell) : x = SubSeq(u, 1, n)
    BY <2>2, CutIs
  <2>5. PICK y \in Seq(Cell) : y = SubSeq(u, n + 1, Len(u))
    BY <2>2, CutIs
  <2>6. Unsent' = y
    <3>1. u = SubSeq(o, outSent + 1, Len(o))
      BY <1>3, <1>6 DEF Unsent
    <3>2. n \in 0 .. Len(o) - outSent
      BY <1>6, <2>2
    <3>3. SubSeq(o, (outSent + n) + 1, Len(o)) = SubSeq(u, n + 1, Len(u))
      BY <1>3, <3>1, <3>2, SentIs
    <3> QED
      BY <1>3, <2>1, <2>3, <2>5, <3>3 DEF Unsent
  <2>7. (g \o (w \o x)) \o y = (g \o w) \o u
    <3>1. g \in Seq(Cell) /\ w \in Seq(Cell) /\ u \in Seq(Cell)
      BY <1>4, <1>5, <1>6
    <3>2. SendKeeps(g, w, u, n)
      BY <2>2, <3>1, SendIs
    <3> QED
      BY <2>4, <2>5, <3>2 DEF SendKeeps
  <2>8. w \o x \in Seq(Cell)
    BY ConcatProperties
  <2>9. (got' \o socket') \o Unsent' = (g \o w) \o u
    BY <1>5, <2>1, <2>3, <2>4, <2>6, <2>7
  <2>10. socket' \in Seq(Cell) /\ got' \in Seq(Cell) /\ out' \in Seq(Cell)
    BY <1>3, <1>5, <2>1, <2>3, <2>4, <2>8
  <2> QED
    BY <1>9, <2>3, <2>9, <2>10
<1>24. CASE SendDone
  <2>1. /\ UNCHANGED <<said, socket, got, gone, input, fin, taken, closing>>
        /\ out' = <<>> /\ outSent' = 0 /\ Unsent = <<>> /\ pc' = "finish"
    BY <1>24 DEF SendDone, client, wire
  <2>2. GivenUp => GivenUp'
    BY <2>1 DEF GivenUp, Unread
  <2>3. Unsent' = <<>> /\ out' \in Seq(Cell)
    <3>1. SubSeq(<<>>, 1, 0) = <<>> /\ Len(<<>>) = 0 /\ <<>> \in Seq(Cell)
      OBVIOUS
    <3> QED
      BY <2>1, <3>1 DEF Unsent
  <2>4. (got' \o socket') \o Unsent' = (g \o w) \o u
    BY <1>4, <1>5, <1>6, <2>1, <2>3
  <2>5. socket' \in Seq(Cell) /\ got' \in Seq(Cell)
    BY <1>4, <1>5, <2>1
  <2> QED
    BY <1>9, <2>1, <2>2, <2>3, <2>4, <2>5
<1> QED
  BY <1>1, <1>13, <1>14, <1>15, <1>16, <1>17, <1>18, <1>19, <1>20, <1>21, <1>22, <1>23, <1>24
  DEF Next, Server

LEMMA NextIInv == IInv /\ [Next]_vars => IInv'
BY NextType, NextBuffer, NextSaid, NextWire DEF IInv

\* IInv holds in every state: the invariant the results below rest on.
THEOREM Invariance == Spec => []IInv
<1>1. Init => IInv
  BY InitIInv
<1>2. IInv /\ [Next]_vars => IInv'
  BY NextIInv
<1> QED
  BY <1>1, <1>2, PTL DEF Spec

-----------------------------------------------------------------------------
\* What it says of the conversation.

\* No more lines are worked off than have been received.
LEMMA WorkedOffBound ==
    ASSUME IInv
    PROVE  WorkedOff \in Nat /\ LineCount(Received) \in Nat /\ WorkedOff <= LineCount(Received)
<1>1. PICK s \in Seq(Byte) : s = Received
  BY ReceivedIs DEF IInv
<1>2. PICK p : p = Place
  OBVIOUS
<1>3. Framed(s, p, WorkedOff) /\ WorkedOff = Ended(s, p)
  BY <1>1, <1>2 DEF IInv, SaidInv, WorkedOff
<1>4. p \in Nat /\ p <= Len(s) /\ Len(s) \in Nat
  BY <1>3 DEF Framed
<1>5. Ended(s, p) \in Nat /\ Ended(s, Len(s)) \in Nat
  BY <1>4, EndsAre
<1>6. p < Len(s) => Ended(s, p) <= Ended(s, Len(s))
  BY <1>4, EndedGrows
<1> QED
  BY <1>1, <1>3, <1>4, <1>5, <1>6 DEF LineCount

LEMMA TrueInv == IInv => RepliesAreTrue
<1>1. SUFFICES ASSUME IInv PROVE RepliesAreTrue
  OBVIOUS
<1>2. SaidInv
  BY <1>1 DEF IInv
<1>3. ASSUME NEW k \in 1 .. Len(said), said[k].no # 0
      PROVE  said[k].no <= LineCount(Received) /\ said[k].text = Line(Received, said[k].no)
  <2>1. said[k].no \in 1 .. WorkedOff /\ said[k].text = Line(Received, said[k].no)
    BY <1>2, <1>3 DEF SaidInv
  <2> QED
    BY <1>1, <2>1, WorkedOffBound
<1>4. ASSUME NEW j \in 1 .. Len(said), NEW k \in 1 .. Len(said), j < k, said[k].no # 0
      PROVE  said[j].no < said[k].no
  BY <1>2, <1>4 DEF SaidInv
<1> QED
  BY <1>3, <1>4 DEF RepliesAreTrue

LEMMA CurrentInv == IInv => UpToDate
<1>1. SUFFICES ASSUME IInv PROVE UpToDate
  OBVIOUS
<1>2. TypeOK /\ BufferInv /\ SaidInv
  BY <1>1 DEF IInv
<1>3. SUFFICES ASSUME pc \in {"wait", "recv"}, ~ closing
               PROVE  said = Replies(Received) /\ in = Unfinished(Received) /\ Len(in) < BufSize
  BY <1>2 DEF UpToDate
<1>4. PICK s \in Seq(Byte) : s = Received
  BY <1>2, ReceivedIs
<1>5. PICK b \in Nat : b = Base
  BY <1>2, BufferIs
<1>6. /\ Len(s) = taken /\ b + Len(in) = taken /\ Len(in) \in Nat
      /\ \A j \in 1 .. Len(in) : s[b + j] = in[j]
  BY <1>2, <1>4, <1>5, BufferIs, ReceivedIs
<1>7. Len(in) < BufSize /\ \A j \in 1 .. Len(in) : in[j] # "nl"
  BY <1>2, <1>3 DEF BufferInv
<1>8. \A j \in b + 1 .. Len(s) : s[j] # "nl"
  <2> SUFFICES ASSUME NEW j \in b + 1 .. Len(s) PROVE s[j] # "nl"
    OBVIOUS
  <2>1. PICK i \in 1 .. Len(in) : j = b + i
    <3>1. j - b \in 1 .. Len(in) /\ j = b + (j - b)
      BY <1>6
    <3> QED
      BY <3>1
  <2> QED
    BY <1>6, <1>7, <2>1
<1>9. PICK m \in Nat : m = WorkedOff /\ Framed(s, b, m) /\ said = Told(s, m)
  <2>1. From = 1
    BY <1>3 DEF From
  <2>2. Place = b
    BY <1>5, <2>1 DEF Place
  <2>3. Framed(s, b, WorkedOff) /\ said = Told(s, WorkedOff)
    BY <1>2, <1>3, <1>4, <2>2 DEF SaidInv
  <2> QED
    BY <1>1, <2>3, WorkedOffBound
<1>10. in = SubSeq(s, b + 1, Len(s))
  <2>1. in \in Seq(Byte)
    BY <1>2 DEF TypeOK
  <2>2. PICK r \in Seq(Byte) : r = SubSeq(s, b + 1, Len(s))
    <3>1. SubSeq(s, b + 1, Len(s)) \in Seq(Byte)
      BY <1>6
    <3> QED
      BY <3>1
  <2>3. Len(r) = Len(in) /\ \A j \in 1 .. Len(r) : r[j] = s[b + j]
    BY <1>6, <2>2
  <2> QED
    BY <1>6, <2>1, <2>2, <2>3
<1>11. /\ Unfinished(s) = SubSeq(s, b + 1, Len(s))
       /\ Replies(s) = IF Len(Unfinished(s)) >= BufSize
                       THEN Append(Told(s, m), TooLong) ELSE Told(s, m)
  BY <1>8, <1>9, FramedReplies
<1>12. ~ (Len(Unfinished(s)) >= BufSize)
  BY <1>6, <1>7, <1>10, <1>11
<1> QED
  BY <1>4, <1>7, <1>9, <1>10, <1>11, <1>12

LEMMA OrderInv == IInv => BytesInOrder
<1>1. SUFFICES ASSUME IInv PROVE BytesInOrder
  OBVIOUS
<1>2. TypeOK /\ SaidInv /\ WireInv
  BY <1>1 DEF IInv
<1>3. PICK h \in Seq(Cell) : h = got \o socket
  <2>1. got \o socket \in Seq(Cell)
    BY <1>2, ConcatProperties DEF WireInv
  <2> QED
    BY <2>1
<1>4. PICK u \in Seq(Cell) : u = Unsent
  BY <1>2, UnsentIs
<1>5. PICK a \in Seq(Cell) : a = AllCells(said)
  <2>1. AllCells(said) \in Seq(Cell)
    BY <1>2, RepliesAre, AllCellsMore DEF SaidInv
  <2> QED
    BY <2>1
<1>6. /\ ~ gone /\ ~ GivenUp => h \o u = a
      /\ ~ gone => IsPrefix(h \o u, a)
  BY <1>2, <1>3, <1>4, <1>5 DEF WireInv
<1>7. ~ gone => IsPrefix(h, a)
  BY <1>6, PrefixOfJoined
<1>8. ~ gone /\ ~ closing => h \o u = a
  BY <1>6 DEF GivenUp
<1> QED
  BY <1>3, <1>4, <1>5, <1>7, <1>8 DEF BytesInOrder

\* For every buffer, socket and stream, however recv cuts the stream and send
\* splits the output: what the server says are the client's own lines, in order
\* and under their numbers; between events an open conversation has answered
\* each line received and has room for the next; and what it accepted to say
\* reaches the client in order, whole while the connection is open.
THEOREM OpenConnectionAnswers == Spec => []AnswersItsLines
<1>1. IInv => AnswersItsLines
  BY TrueInv, CurrentInv, OrderInv DEF AnswersItsLines
<1> QED
  BY <1>1, Invariance, PTL
=============================================================================
