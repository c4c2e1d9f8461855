--------------------------- MODULE Programs_proofs ---------------------------
(***************************************************************************)
(* Proofs about the programs that run from a beginning to an end.  First    *)
(* the child of the echo server of week 40: it answers exactly the lines it *)
(* received, however recv cuts the stream and however send is cut short,    *)
(* for every buffer, every socket and every stream.  Then the programs that *)
(* read lines (weeks 23, 26, 27 and 31), for any text and any failures; the *)
(* reload of week 44; and the two parsers of week 56.                       *)
(***************************************************************************)
EXTENDS Programs, LineFraming_proofs

USE BufSizeAssumption, SocketAssumption

-----------------------------------------------------------------------------
\* Helpers.

\* What was received is the beginning of what the client wrote.
LEMMA ReceivedIs ==
    ASSUME TypeOK
    PROVE  /\ Received \in Seq(Byte) /\ Len(Received) = taken /\ taken \in Nat
           /\ \A j \in 1 .. taken : Received[j] = input[j]
BY DEF TypeOK, Received

LEMMA TimedOutIs == TimedOut \in AnyReply
<1>1. <<"timeout">> \in Seq(AnyText)
  BY DEF AnyText
<1> QED
  BY <1>1 DEF TimedOut, AnyReply

\* The cells of a reply, and of one reply more.
LEMMA CellsAre == \A r \in AnyReply : Cells(r) \in Seq(Cell)
<1> SUFFICES ASSUME NEW r \in AnyReply PROVE Cells(r) \in Seq(Cell)
  OBVIOUS
<1>1. Size(r) \in Nat
  BY DEF Size, AnyReply
<1>2. Cells(r) \in [1 .. Size(r) -> Cell]
  BY <1>1 DEF Cells, Cell
<1> QED
  BY <1>1, <1>2, SeqDef

LEMMA AllCellsMore ==
    ASSUME NEW s \in Seq(AnyReply), NEW r \in AnyReply
    PROVE  AllCells(s) \in Seq(Cell) /\ AllCells(Append(s, r)) = AllCells(s) \o Cells(r)
<1>1. PICK n \in Nat : n = Len(s)
  OBVIOUS
<1>2. PICK c : c = [k \in 1 .. Len(s) |-> Cells(s[k])]
  OBVIOUS
<1>3. c \in Seq(Seq(Cell)) /\ Len(c) = n
  <2>1. \A k \in 1 .. n : Cells(s[k]) \in Seq(Cell)
    BY <1>1, CellsAre
  <2>2. c \in [1 .. n -> Seq(Cell)]
    BY <1>1, <1>2, <2>1
  <2> QED
    BY <1>1, <2>2, SeqDef
<1>4. PICK t \in Seq(AnyReply) : t = Append(s, r)
  BY AppendProperties
<1>5. Len(t) = n + 1 /\ t[n + 1] = r /\ \A k \in 1 .. n : t[k] = s[k]
  BY <1>1, <1>4
<1>6. [k \in 1 .. Len(t) |-> Cells(t[k])] = Append(c, Cells(r))
  <2>1. PICK d : d = [k \in 1 .. Len(t) |-> Cells(t[k])]
    OBVIOUS
  <2>2. PICK x \in Seq(Cell) : x = Cells(r)
    BY CellsAre
  <2>3. \A k \in 1 .. n : d[k] = c[k]
    BY <1>1, <1>2, <1>5, <2>1
  <2>4. d[n + 1] = x /\ DOMAIN d = 1 .. n + 1
    BY <1>5, <2>1, <2>2
  <2>5. \A k \in 1 .. n + 1 : d[k] \in Seq(Cell)
    BY <1>3, <2>2, <2>3, <2>4
  <2>6. d \in [1 .. n + 1 -> Seq(Cell)]
    <3>1. d = [k \in 1 .. n + 1 |-> Cells(t[k])]
      BY <1>5, <2>1
    <3>2. d = [k \in DOMAIN d |-> d[k]]
      BY <3>1
    <3> QED
      BY <2>4, <2>5, <3>2
  <2>7. d \in Seq(Seq(Cell)) /\ Len(d) = n + 1
    BY <2>6, SeqDef
  <2>8. d = Append(c, x)
    BY <1>3, <2>2, <2>3, <2>4, <2>7
  <2> QED
    BY <2>1, <2>2, <2>8
<1>7. FlattenSeq(c) \in Seq(Cell) /\ FlattenSeq(Append(c, Cells(r))) = FlattenSeq(c) \o Cells(r)
  BY <1>3, CellsAre, FlattenMore
<1>8. AllCells(s) = FlattenSeq(c) /\ AllCells(t) = FlattenSeq(Append(c, Cells(r)))
  BY <1>2, <1>6 DEF AllCells
<1> QED
  BY <1>4, <1>7, <1>8

LEMMA FirstCells == AllCells(<<Ready>>) = Cells(Ready)
<1>1. AllCells(Append(<<>>, Ready)) = AllCells(<<>>) \o Cells(Ready)
  <2>1. <<>> \in Seq(AnyReply)
    OBVIOUS
  <2> QED
    BY <2>1, RepliesAre, AllCellsMore
<1>2. AllCells(<<>>) = <<>>
  <2>1. [k \in 1 .. Len(<<>>) |-> Cells(<<>>[k])] = <<>>
    OBVIOUS
  <2> QED
    BY <2>1 DEF AllCells, FlattenSeq
<1>3. Append(<<>>, Ready) = <<Ready>>
  OBVIOUS
<1>4. <<>> \o Cells(Ready) = Cells(Ready)
  BY RepliesAre, CellsAre
<1> QED
  BY <1>1, <1>2, <1>3, <1>4

-----------------------------------------------------------------------------
\* The initial states.

LEMMA InitIInv == Init => IInv
<1> SUFFICES ASSUME Init PROVE IInv
  OBVIOUS
<1>1. TypeOK /\ BufferInv
  <2>1. <<>> \in Seq(Byte) /\ Len(<<>>) = 0
    OBVIOUS
  <2>2. BufSize \in Nat /\ BufSize > 0 /\ SocketSize \in Nat
    OBVIOUS
  <2>3. TypeOK
    <3>1. input \in Seq(Byte) /\ taken \in 0 .. Len(input) /\ buffer \in Seq(Byte)
      BY <2>1 DEF Init
    <3>2. Len(buffer) <= BufSize /\ Len(socket) <= SocketSize /\ start \in 1 .. BufSize + 1
      BY <2>1, <2>2 DEF Init
    <3> QED
      BY <3>1, <3>2 DEF Init, TypeOK
  <2>4. BufferInv
    BY <2>1, <2>2 DEF Init, BufferInv
  <2> QED
    BY <2>3, <2>4
<1>2. SaidInv
  <2>1. Received \in Seq(Byte) /\ Place = 0
    <3>1. Received \in Seq(Byte)
      BY <1>1, ReceivedIs
    <3>2. Len(buffer) = 0 /\ taken = 0 /\ pc # "lines"
      BY DEF Init
    <3> QED
      BY <3>1, <3>2 DEF Place, Base
  <2>2. Framed(Received, 0, 0) /\ Told(Received, 0) = <<Ready>>
    BY <2>1, FramedNone
  <2>3. <<Ready>> \in Seq(AnyReply)
    BY RepliesAre
  <2> QED
    BY <2>1, <2>2, <2>3 DEF Init, SaidInv
<1>3. WireInv
  <2>1. Cells(Ready) \in Seq(Cell) /\ <<>> \in Seq(Cell)
    BY RepliesAre, CellsAre
  <2>2. <<>> \o <<>> \o Cells(Ready) = Cells(Ready)
    BY <2>1
  <2> QED
    BY <2>1, <2>2, FirstCells DEF Init, WireInv
<1> QED
  BY <1>1, <1>2, <1>3 DEF IInv

-----------------------------------------------------------------------------
\* The types.

\* The next newline of the buffer.
LEMMA LineEndIs ==
    ASSUME TypeOK, HasLine
    PROVE  /\ LineEnd \in Nat /\ LineEnd \in start .. Len(buffer) /\ buffer[LineEnd] = "nl"
           /\ \A j \in start .. LineEnd - 1 : buffer[j] # "nl"
<1>1. PICK S \in SUBSET Nat : S = Newlines(buffer, start)
  <2>1. Newlines(buffer, start) \in SUBSET Nat
    BY DEF Newlines, TypeOK
  <2> QED
    BY <2>1
<1>2. PICK m : m = LineEnd
  OBVIOUS
<1>3. m \in S /\ \A y \in S : m <= y
  <2>1. S # {} /\ m = Min(S)
    BY <1>1, <1>2 DEF HasLine, LineEnd
  <2> QED
    BY <2>1, MinIs
<1>4. start \in Nat /\ start >= 1 /\ Len(buffer) \in Nat
  BY DEF TypeOK
<1>5. m \in Nat /\ m \in start .. Len(buffer) /\ buffer[m] = "nl"
  BY <1>1, <1>3, <1>4 DEF Newlines
<1>6. ASSUME NEW j \in start .. m - 1, buffer[j] = "nl" PROVE FALSE
  <2>1. j \in S
    BY <1>1, <1>4, <1>5, <1>6 DEF Newlines
  <2> QED
    BY <1>3, <1>4, <1>5, <2>1
<1> QED
  BY <1>2, <1>5, <1>6

LEMMA NextType == IInv /\ [Next]_vars => TypeOK'
<1>1. SUFFICES ASSUME IInv, [Next]_vars PROVE TypeOK'
  OBVIOUS
<1>2. TypeOK /\ BufferInv /\ WireInv
  BY <1>1 DEF IInv
<1>3. CASE UNCHANGED vars
  BY <1>2, <1>3 DEF vars, TypeOK
<1>4. ASSUME NEW b \in Byte, ClientWrite(b) PROVE TypeOK'
  BY <1>2, <1>4 DEF ClientWrite, TypeOK, framing, wire
<1>5. CASE ClientShutdown
  BY <1>2, <1>5 DEF ClientShutdown, TypeOK, framing, wire
<1>6. CASE ClientReset
  BY <1>2, <1>6 DEF ClientReset, TypeOK, framing
<1>7. CASE ClientRead
  <2>1. socket' \in Seq(Cell) /\ Len(socket') <= SocketSize
    <3>1. PICK n \in 1 .. Len(socket) : socket' = SubSeq(socket, n + 1, Len(socket))
      BY <1>7 DEF ClientRead
    <3>2. socket \in Seq(Cell) /\ Len(socket) <= SocketSize
      BY <1>2 DEF WireInv, TypeOK
    <3> QED
      BY <3>1, <3>2
  <2> QED
    BY <1>2, <1>7, <2>1 DEF ClientRead, TypeOK, framing, client
<1>8. CASE SendSome
  <2>1. Len(socket') <= SocketSize
    <3>1. PICK n \in 1 .. Min({Len(sending), SocketSize - Len(socket)}) :
             socket' = socket \o SubSeq(sending, 1, n)
      BY <1>8 DEF SendSome
    <3>2. sending \in Seq(Cell) /\ socket \in Seq(Cell) /\ Len(socket) <= SocketSize
      BY <1>2 DEF WireInv, TypeOK
    <3>3. n \in Nat /\ n <= Len(sending) /\ n <= SocketSize - Len(socket)
      <4>1. Len(sending) \in Nat /\ SocketSize - Len(socket) \in Nat
        BY <3>2
      <4> QED
        BY <4>1, MinOfTwo
    <3>4. SubSeq(sending, 1, n) \in Seq(Cell) /\ Len(SubSeq(sending, 1, n)) = n
      BY <3>2, <3>3
    <3> QED
      BY <3>1, <3>2, <3>3, <3>4
  <2> QED
    BY <1>2, <1>8, <2>1 DEF SendSome, TypeOK, framing, client
<1>9. CASE SendError
  BY <1>2, <1>9 DEF SendError, TypeOK, framing, client, wire
<1>10. CASE RecvData
  <2>1. PICK n \in 1 .. Min({RecvSpace, Unread}) :
           /\ buffer' = buffer \o SubSeq(input, taken + 1, taken + n)
           /\ taken' = taken + n
    BY <1>10 DEF RecvData
  <2>2. n \in Nat /\ n <= BufSize - Len(buffer) /\ n <= Len(input) - taken
    <3>1. RecvSpace \in Nat /\ Unread \in Nat
      BY <1>2 DEF RecvSpace, Unread, TypeOK
    <3> QED
      BY <3>1, MinOfTwo DEF RecvSpace, Unread
  <2>3. /\ SubSeq(input, taken + 1, taken + n) \in Seq(Byte)
        /\ Len(SubSeq(input, taken + 1, taken + n)) = n
    BY <1>2, <2>2 DEF TypeOK
  <2>4. buffer' \in Seq(Byte) /\ Len(buffer') <= BufSize
    BY <1>2, <2>1, <2>2, <2>3 DEF TypeOK
  <2>5. taken' \in 0 .. Len(input)
    BY <1>2, <2>1, <2>2 DEF TypeOK
  <2> QED
    BY <1>2, <1>10, <2>4, <2>5 DEF RecvData, TypeOK, client, wire
<1>11. CASE RecvEnd
  BY <1>2, <1>11 DEF RecvEnd, TypeOK, framing, client, wire
<1>12. CASE RecvTimeout
  BY <1>2, <1>12 DEF RecvTimeout, TypeOK, framing, client, wire
<1>13. CASE ServeLine
  <2>1. start' \in 1 .. BufSize + 1
    <3>1. LineEnd \in Nat /\ LineEnd \in start .. Len(buffer)
      BY <1>2, <1>13, LineEndIs DEF ServeLine
    <3>2. start' = LineEnd + 1
      BY <1>13 DEF ServeLine
    <3> QED
      BY <1>2, <3>1, <3>2 DEF TypeOK
  <2>2. lines' \in Nat
    BY <1>2, <1>13 DEF ServeLine, TypeOK
  <2> QED
    BY <1>2, <1>13, <2>1, <2>2 DEF ServeLine, TypeOK, client, wire
<1>14. CASE ServeQuit
  <2>1. lines' \in Nat
    BY <1>2, <1>14 DEF ServeQuit, TypeOK
  <2> QED
    BY <1>2, <1>14, <2>1 DEF ServeQuit, TypeOK, client, wire
<1>15. CASE ServeRest
  <2>1. buffer' \in Seq(Byte) /\ Len(buffer') <= BufSize
    <3>1. buffer' = SubSeq(buffer, start, Len(buffer))
      BY <1>15 DEF ServeRest, Leftover
    <3> QED
      BY <1>2, <3>1 DEF TypeOK
  <2>2. pc' \in {"recv", "done"}
    BY <1>15 DEF ServeRest
  <2> QED
    BY <1>2, <1>15, <2>1, <2>2 DEF ServeRest, TypeOK, client, wire
<1> QED
  BY <1>1, <1>3, <1>4, <1>5, <1>6, <1>7, <1>8, <1>9, <1>10, <1>11, <1>12, <1>13, <1>14, <1>15
  DEF Next, Child

-----------------------------------------------------------------------------
\* The buffer.

LEMMA NextBuffer == IInv /\ [Next]_vars => BufferInv'
<1>1. SUFFICES ASSUME IInv, [Next]_vars PROVE BufferInv'
  OBVIOUS
<1>2. TypeOK /\ BufferInv
  BY <1>1 DEF IInv
<1>3. CASE UNCHANGED vars
  BY <1>2, <1>3 DEF vars, BufferInv, Base
<1>4. ASSUME NEW b \in Byte, ClientWrite(b) PROVE BufferInv'
  <2>1. /\ input' = Append(input, b) /\ taken' = taken /\ buffer' = buffer
        /\ pc' = pc /\ start' = start
    BY <1>4 DEF ClientWrite, framing
  <2>2. /\ input \in Seq(Byte) /\ taken \in 0 .. Len(input) /\ Len(buffer) \in Nat
        /\ Len(buffer) <= taken
    BY <1>2 DEF TypeOK, BufferInv
  <2>3. \A j \in 1 .. Len(buffer) : input'[Base + j] = input[Base + j]
    BY <2>1, <2>2 DEF Base
  <2> QED
    BY <1>2, <2>1, <2>3 DEF BufferInv, Base
<1>5. CASE UNCHANGED <<input, taken, buffer, start>> /\ (pc' = pc \/ pc' = "done")
  BY <1>2, <1>5 DEF BufferInv, Base
<1>6. CASE RecvData
  <2>1. PICK n \in 1 .. Min({RecvSpace, Unread}) :
           /\ buffer' = buffer \o SubSeq(input, taken + 1, taken + n)
           /\ taken' = taken + n
    BY <1>6 DEF RecvData
  <2>2. n \in Nat /\ n <= BufSize - Len(buffer) /\ n <= Len(input) - taken
    <3>1. RecvSpace \in Nat /\ Unread \in Nat
      BY <1>2 DEF RecvSpace, Unread, TypeOK
    <3> QED
      BY <3>1, MinOfTwo DEF RecvSpace, Unread
  <2>3. PICK more \in Seq(Byte) : more = SubSeq(input, taken + 1, taken + n)
    <3>1. SubSeq(input, taken + 1, taken + n) \in Seq(Byte)
      BY <1>2, <2>2 DEF TypeOK
    <3> QED
      BY <3>1
  <2>4. Len(more) = n /\ \A j \in 1 .. n : more[j] = input[taken + j]
    BY <1>2, <2>2, <2>3 DEF TypeOK
  <2>5. /\ Len(buffer') = Len(buffer) + n /\ Len(buffer) \in Nat
        /\ \A j \in 1 .. Len(buffer') :
             buffer'[j] = IF j <= Len(buffer) THEN buffer[j] ELSE more[j - Len(buffer)]
    <3>1. buffer \in Seq(Byte) /\ Len(buffer) \in Nat
      BY <1>2 DEF TypeOK
    <3>2. buffer' = buffer \o more
      BY <2>1, <2>3
    <3>3. PICK b \in Seq(Byte) : b = buffer \o more
      <4>1. buffer \o more \in Seq(Byte)
        BY <3>1, <2>3, ConcatProperties
      <4> QED
        BY <4>1
    <3>4. /\ Len(b) = Len(buffer) + n
          /\ \A j \in 1 .. Len(b) :
               b[j] = IF j <= Len(buffer) THEN buffer[j] ELSE more[j - Len(buffer)]
      BY <2>2, <2>3, <2>4, <3>1, <3>3
    <3> QED
      BY <3>1, <3>2, <3>3, <3>4
  <2>6. input' = input /\ start' = 1 /\ pc' = "lines"
    BY <1>6 DEF RecvData, client
  <2>7. Base' = Base
    BY <1>2, <2>1, <2>2, <2>5 DEF Base, TypeOK
  <2>8. ASSUME NEW j \in 1 .. Len(buffer') PROVE buffer'[j] = input[Base + j]
    <3>1. CASE j <= Len(buffer)
      BY <1>2, <2>5, <3>1 DEF BufferInv
    <3>2. CASE ~ (j <= Len(buffer))
      <4>1. PICK i \in 1 .. n : i = j - Len(buffer)
        <5>1. PICK l \in Nat : l = Len(buffer) /\ j \in 1 .. l + n /\ ~ (j <= l)
          BY <2>2, <2>5, <3>2
        <5>2. j - l \in 1 .. n
          BY <2>2, <5>1
        <5> QED
          BY <5>1, <5>2
      <4>2. taken + i = Base + j
        BY <1>2, <2>5, <4>1 DEF Base, TypeOK
      <4> QED
        BY <2>4, <2>5, <3>2, <4>1, <4>2
    <3> QED
      BY <3>1, <3>2
  <2>9. Len(buffer') <= taken'
    BY <1>2, <2>1, <2>2, <2>5 DEF BufferInv, TypeOK
  <2> QED
    BY <2>5, <2>6, <2>7, <2>8, <2>9 DEF BufferInv
<1>7. CASE ServeLine
  <2>1. LineEnd \in Nat /\ LineEnd \in start .. Len(buffer)
    BY <1>2, <1>7, LineEndIs DEF ServeLine
  <2>2. start' = LineEnd + 1 /\ UNCHANGED <<input, taken, buffer, pc>> /\ pc = "lines"
    BY <1>7 DEF ServeLine, client, Here
  <2>3. start' <= Len(buffer) + 1
    BY <1>2, <2>1, <2>2 DEF TypeOK
  <2> QED
    BY <1>2, <2>2, <2>3 DEF BufferInv, Base
<1>8. CASE ServeRest
  <2>1. /\ UNCHANGED <<input, taken, start>> /\ pc = "lines" /\ Newlines(buffer, start) = {}
        /\ buffer' = SubSeq(buffer, start, Len(buffer))
        /\ (Len(buffer') # BufSize /\ pc' = "recv") \/ pc' = "done"
    BY <1>8 DEF ServeRest, client, Here, HasLine, Leftover
  <2>2. /\ buffer \in Seq(Byte) /\ start \in Nat /\ start >= 1 /\ start <= Len(buffer) + 1
        /\ Len(buffer) <= taken /\ taken \in Nat /\ Len(buffer) <= BufSize
    BY <1>2, <2>1 DEF TypeOK, BufferInv
  <2>3. /\ Len(buffer') = Len(buffer) + 1 - start /\ Len(buffer) \in Nat
        /\ \A j \in 1 .. Len(buffer') : buffer'[j] = buffer[start + j - 1]
    BY <2>1, <2>2
  <2>4. ASSUME NEW j \in 1 .. Len(buffer')
        PROVE  buffer'[j] = input'[Base' + j] /\ buffer'[j] # "nl"
    <3>1. PICK i \in 1 .. Len(buffer) : i = start + j - 1 /\ i >= start
      <4>1. PICK l \in Nat : l = Len(buffer) /\ j \in 1 .. l + 1 - start
        BY <2>2, <2>3
      <4>2. start + j - 1 \in 1 .. l /\ start + j - 1 >= start
        BY <2>2, <4>1
      <4> QED
        BY <4>1, <4>2
    <3>2. buffer'[j] = buffer[i]
      BY <2>3, <3>1
    <3>3. buffer[i] = input[Base + i]
      BY <1>2 DEF BufferInv
    <3>4. Base' + j = Base + i
      BY <2>1, <2>2, <2>3, <3>1 DEF Base
    <3>5. buffer[i] # "nl"
      BY <2>1, <3>1 DEF Newlines
    <3> QED
      BY <2>1, <3>2, <3>3, <3>4, <3>5
  <2>5. Len(buffer') <= taken' /\ (pc' = "recv" => Len(buffer') < BufSize) /\ pc' # "lines"
    BY <2>1, <2>2, <2>3
  <2> QED
    BY <2>4, <2>5 DEF BufferInv
<1> QED
  <2>1. CASE ClientShutdown \/ ClientReset \/ ClientRead
    BY <1>5, <2>1 DEF ClientShutdown, ClientReset, ClientRead, client, framing
  <2>2. CASE SendSome \/ SendError \/ RecvEnd \/ RecvTimeout
    BY <1>5, <2>2 DEF SendSome, SendError, RecvEnd, RecvTimeout, client, framing
  <2>3. CASE ServeQuit
    BY <1>5, <2>3 DEF ServeQuit, client
  <2> QED
    BY <1>1, <1>3, <1>4, <1>6, <1>7, <1>8, <2>1, <2>2, <2>3 DEF Next, Child

-----------------------------------------------------------------------------
\* What was said.

\* The buffer is what was received from Base on.
LEMMA BufferIs ==
    ASSUME TypeOK, BufferInv
    PROVE  /\ Base \in Nat /\ Base + Len(buffer) = taken /\ Len(buffer) \in Nat
           /\ \A j \in 1 .. Len(buffer) : Received[Base + j] = buffer[j]
<1>1. PICK b \in Nat : b = Base /\ b + Len(buffer) = taken
  <2>1. Base \in Nat /\ Base + Len(buffer) = taken
    BY DEF TypeOK, BufferInv, Base
  <2> QED
    BY <2>1
<1>2. Len(buffer) \in Nat /\ taken \in Nat
  BY DEF TypeOK
<1>3. ASSUME NEW j \in 1 .. Len(buffer) PROVE Received[b + j] = buffer[j]
  <2>1. b + j \in 1 .. taken
    BY <1>1, <1>2
  <2>2. Received[b + j] = input[b + j]
    BY <2>1, ReceivedIs
  <2>3. buffer[j] = input[b + j]
    BY <1>1 DEF BufferInv
  <2> QED
    BY <2>2, <2>3
<1> QED
  BY <1>1, <1>2, <1>3

\* Outside the framing loop the answer is complete.
LEMMA CompleteAtRecv ==
    ASSUME IInv, pc = "recv"
    PROVE  said = Replies(Received) /\ buffer = Unfinished(Received)
<1>1. TypeOK /\ BufferInv /\ SaidInv
  BY DEF IInv
<1>2. PICK s \in Seq(Byte) : s = Received
  BY <1>1, ReceivedIs
<1>3. PICK b \in Nat : b = Base
  BY <1>1, BufferIs
<1>4. /\ Len(s) = taken /\ b + Len(buffer) = taken /\ Len(buffer) \in Nat
      /\ \A j \in 1 .. Len(buffer) : s[b + j] = buffer[j]
  BY <1>1, <1>2, <1>3, BufferIs, ReceivedIs
<1>5. Len(buffer) < BufSize /\ \A j \in 1 .. Len(buffer) : buffer[j] # "nl"
  BY <1>1 DEF BufferInv
<1>6. \A j \in b + 1 .. Len(s) : s[j] # "nl"
  <2> SUFFICES ASSUME NEW j \in b + 1 .. Len(s) PROVE s[j] # "nl"
    OBVIOUS
  <2>1. PICK i \in 1 .. Len(buffer) : j = b + i
    <3>1. j - b \in 1 .. Len(buffer) /\ j = b + (j - b)
      BY <1>4
    <3> QED
      BY <3>1
  <2> QED
    BY <1>4, <1>5, <2>1
<1>7. Framed(s, b, lines) /\ said = Told(s, lines)
  BY <1>1, <1>2, <1>3 DEF SaidInv, Place
<1>8. buffer = SubSeq(s, b + 1, Len(s))
  <2>1. buffer \in Seq(Byte)
    BY <1>1 DEF TypeOK
  <2>2. PICK r \in Seq(Byte) : r = SubSeq(s, b + 1, Len(s))
    <3>1. SubSeq(s, b + 1, Len(s)) \in Seq(Byte)
      BY <1>4
    <3> QED
      BY <3>1
  <2>3. Len(r) = Len(buffer) /\ \A j \in 1 .. Len(r) : r[j] = buffer[j]
    <3>1. b \in Nat /\ Len(s) \in Nat /\ Len(buffer) \in Nat /\ Len(s) = b + Len(buffer)
      BY <1>4, <2>1
    <3>2. Len(r) = Len(buffer)
      BY <2>2, <3>1
    <3>3. \A j \in 1 .. Len(buffer) : r[j] = s[b + j]
      BY <2>2, <3>1
    <3> QED
      BY <1>4, <3>2, <3>3
  <2>4. r = buffer
    BY <2>1, <2>3
  <2> QED
    BY <2>2, <2>4
<1>9. /\ Unfinished(s) = SubSeq(s, b + 1, Len(s))
      /\ Replies(s) = IF Len(Unfinished(s)) >= BufSize
                      THEN Append(Told(s, lines), TooLong) ELSE Told(s, lines)
  BY <1>6, <1>7, FramedReplies
<1>10. ~ (Len(Unfinished(s)) >= BufSize)
  BY <1>4, <1>5, <1>8, <1>9
<1> QED
  BY <1>2, <1>7, <1>8, <1>9, <1>10

\* The line that the framing loop has found is the next one of the stream.
LEMMA CurrentLineIs ==
    ASSUME IInv, pc = "lines", HasLine
    PROVE  /\ Place \in Nat /\ Base + LineEnd \in 1 .. Len(Received) /\ Place < Base + LineEnd
           /\ Received[Base + LineEnd] = "nl"
           /\ \A j \in Place + 1 .. (Base + LineEnd) - 1 : Received[j] # "nl"
           /\ CurrentLine = Between(Received, Place, Base + LineEnd)
           /\ Len(CurrentLine) < BufSize
<1>1. TypeOK /\ BufferInv
  BY DEF IInv
<1>2. PICK s \in Seq(Byte) : s = Received
  BY <1>1, ReceivedIs
<1>3. PICK b \in Nat : b = Base
  BY <1>1, BufferIs
<1>4. /\ Len(s) = taken /\ b + Len(buffer) = taken /\ Len(buffer) \in Nat
      /\ \A j \in 1 .. Len(buffer) : s[b + j] = buffer[j]
  BY <1>1, <1>2, <1>3, BufferIs, ReceivedIs
<1>5. PICK m \in Nat : m = LineEnd
  BY <1>1, LineEndIs
<1>6. /\ m \in start .. Len(buffer) /\ buffer[m] = "nl"
      /\ \A j \in start .. m - 1 : buffer[j] # "nl"
  BY <1>1, <1>5, LineEndIs
<1>7. PICK a \in Nat : a = start /\ a >= 1
  BY <1>1 DEF TypeOK
<1>8. Place = (b + a) - 1 /\ (b + a) - 1 \in Nat
  BY <1>3, <1>7 DEF Place
<1>9. b + m \in 1 .. Len(s) /\ (b + a) - 1 < b + m /\ s[b + m] = "nl"
  BY <1>4, <1>6, <1>7
<1>10. ASSUME NEW j \in ((b + a) - 1) + 1 .. (b + m) - 1 PROVE s[j] # "nl"
  <2>1. PICK i \in a .. m - 1 : j = b + i
    <3>1. j - b \in a .. m - 1 /\ j = b + (j - b)
      BY <1>7
    <3> QED
      BY <3>1
  <2>2. i \in 1 .. Len(buffer) /\ buffer[i] # "nl"
    BY <1>4, <1>6, <1>7, <2>1
  <2> QED
    BY <1>4, <2>1, <2>2
<1>11. SubSeq(buffer, a, m - 1) = SubSeq(s, ((b + a) - 1) + 1, (b + m) - 1)
  <2>1. buffer \in Seq(Byte)
    BY <1>1 DEF TypeOK
  <2>2. PICK q \in Seq(Byte) : q = SubSeq(buffer, a, m - 1)
    <3>1. SubSeq(buffer, a, m - 1) \in Seq(Byte)
      BY <1>4, <1>6, <1>7, <2>1
    <3> QED
      BY <3>1
  <2>3. Len(q) = m - a /\ \A j \in 1 .. m - a : q[j] = buffer[(a + j) - 1]
    BY <1>4, <1>6, <1>7, <2>1, <2>2
  <2>4. PICK r \in Seq(Byte) : r = SubSeq(s, ((b + a) - 1) + 1, (b + m) - 1)
    <3>1. SubSeq(s, ((b + a) - 1) + 1, (b + m) - 1) \in Seq(Byte)
      BY <1>7, <1>9
    <3> QED
      BY <3>1
  <2>5. Len(r) = m - a /\ \A j \in 1 .. m - a : r[j] = s[b + ((a + j) - 1)]
    BY <1>7, <1>9, <1>6, <2>4
  <2>6. ASSUME NEW j \in 1 .. m - a PROVE q[j] = r[j]
    <3>1. (a + j) - 1 \in 1 .. Len(buffer)
      BY <1>4, <1>6, <1>7
    <3> QED
      BY <1>4, <2>3, <2>5, <3>1
  <2>7. q = r
    <3>1. Len(q) = Len(r) /\ \A j \in 1 .. Len(q) : q[j] = r[j]
      BY <2>3, <2>5, <2>6
    <3>2. q \in Seq(Byte) /\ r \in Seq(Byte)
      BY <2>2, <2>4
    <3> QED
      BY <3>1, <3>2
  <2> QED
    BY <2>2, <2>4, <2>7
<1>12. Len(CurrentLine) < BufSize
  <2>1. Len(SubSeq(buffer, a, m - 1)) = m - a
    BY <1>1, <1>4, <1>6, <1>7 DEF TypeOK
  <2>2. Len(buffer) <= BufSize
    BY <1>1 DEF TypeOK
  <2> QED
    BY <1>4, <1>5, <1>6, <1>7, <2>1, <2>2 DEF CurrentLine
<1>13. CurrentLine = Between(s, (b + a) - 1, b + m)
  BY <1>5, <1>7, <1>11 DEF CurrentLine, Between
<1> QED
  BY <1>2, <1>3, <1>5, <1>8, <1>9, <1>10, <1>12, <1>13

LEMMA NextSaid == IInv /\ [Next]_vars => SaidInv'
<1>1. SUFFICES ASSUME IInv, [Next]_vars PROVE SaidInv'
  OBVIOUS
<1>2. TypeOK /\ BufferInv /\ SaidInv
  BY <1>1 DEF IInv
<1>3. PICK s \in Seq(Byte) : s = Received
  BY <1>2, ReceivedIs
\* A step that neither receives nor says anything.
<1>4. ASSUME Received' = s, UNCHANGED <<taken, framing, said>>, pc' = pc, gone => gone'
      PROVE  SaidInv'
  <2>1. Place' = Place
    BY <1>4 DEF Place, Base, framing
  <2>2. lines' = lines /\ said' = said
    BY <1>4 DEF framing
  <2>3. pc' # "done" => Framed(s, Place, lines) /\ said = Told(s, lines)
    BY <1>2, <1>3, <1>4 DEF SaidInv
  <2>4. pc' = "done" /\ ~ gone' => said \in {Replies(s), Append(Replies(s), TimedOut)}
    BY <1>2, <1>3, <1>4 DEF SaidInv
  <2>5. said \in Seq(AnyReply)
    BY <1>2 DEF SaidInv
  <2> QED
    BY <1>4, <2>1, <2>2, <2>3, <2>4, <2>5 DEF SaidInv
<1>5. input' = input /\ taken' = taken => Received' = s
  BY <1>3 DEF Received
<1>6. CASE UNCHANGED vars
  BY <1>4, <1>5, <1>6 DEF vars, framing
<1>7. ASSUME NEW b \in Byte, ClientWrite(b) PROVE SaidInv'
  <2>1. Received' = s
    <3>1. input \in Seq(Byte) /\ taken \in 0 .. Len(input)
      BY <1>2 DEF TypeOK
    <3>2. SubSeq(Append(input, b), 1, taken) = SubSeq(input, 1, taken)
      BY <3>1
    <3> QED
      BY <1>3, <1>7, <3>2 DEF ClientWrite, Received
  <2> QED
    BY <1>4, <1>7, <2>1 DEF ClientWrite
<1>8. CASE ClientShutdown
  BY <1>4, <1>5, <1>8 DEF ClientShutdown
<1>9. CASE ClientReset
  BY <1>4, <1>5, <1>9 DEF ClientReset
<1>10. CASE ClientRead
  BY <1>4, <1>5, <1>10 DEF ClientRead, client
<1>11. CASE SendSome
  BY <1>4, <1>5, <1>11 DEF SendSome, client
<1>12. CASE SendError
  <2>1. pc' = "done" /\ gone' /\ said' = said
    BY <1>12 DEF SendError, client
  <2> QED
    BY <1>2, <2>1 DEF SaidInv
<1>13. CASE RecvData
  <2>1. PICK n \in 1 .. Min({RecvSpace, Unread}) :
           /\ buffer' = buffer \o SubSeq(input, taken + 1, taken + n)
           /\ taken' = taken + n
    BY <1>13 DEF RecvData
  <2>2. n \in Nat /\ n <= Len(input) - taken
    <3>1. RecvSpace \in Nat /\ Unread \in Nat
      BY <1>2 DEF RecvSpace, Unread, TypeOK
    <3> QED
      BY <3>1, MinOfTwo DEF Unread
  <2>3. PICK t \in Seq(Byte) : t = Received'
    <3>1. SubSeq(input, 1, taken + n) \in Seq(Byte)
      BY <1>2, <2>2 DEF TypeOK
    <3>2. Received' = SubSeq(input, 1, taken + n)
      BY <1>13, <2>1 DEF RecvData, client, Received
    <3> QED
      BY <3>1, <3>2
  <2>4. Len(t) = taken + n /\ taken \in Nat /\ \A j \in 1 .. taken : t[j] = input[j]
    <3>1. t = SubSeq(input, 1, taken + n)
      BY <1>13, <2>1, <2>3 DEF RecvData, client, Received
    <3> QED
      BY <1>2, <2>2, <3>1 DEF TypeOK
  <2>5. PICK b \in Nat : b = Base /\ b <= taken
    <3>1. Base \in Nat /\ Base <= taken
      BY <1>2 DEF Base, TypeOK, BufferInv
    <3> QED
      BY <3>1
  <2>6. Framed(s, b, lines) /\ said = Told(s, lines) /\ said \in Seq(AnyReply)
    BY <1>2, <1>3, <1>13, <2>5 DEF RecvData, Here, SaidInv, Place
  <2>7. \A j \in 1 .. b : s[j] = t[j]
    BY <1>2, <1>3, <2>4, <2>5, ReceivedIs
  <2>8. Framed(t, b, lines) /\ Told(t, lines) = Told(s, lines)
    BY <2>2, <2>4, <2>5, <2>6, <2>7, FramedAgrees
  <2>9. Place' = b
    <3>1. /\ SubSeq(input, taken + 1, taken + n) \in Seq(Byte)
          /\ Len(SubSeq(input, taken + 1, taken + n)) = n
      BY <1>2, <2>2 DEF TypeOK
    <3>2. Len(buffer') = Len(buffer) + n
      BY <1>2, <2>1, <2>2, <3>1 DEF TypeOK
    <3>3. start' = 1 /\ pc' = "lines"
      BY <1>13 DEF RecvData
    <3> QED
      BY <1>2, <2>1, <2>2, <2>5, <3>2, <3>3 DEF Place, Base, TypeOK
  <2>10. lines' = lines /\ said' = said /\ pc' = "lines"
    BY <1>13 DEF RecvData
  <2> QED
    BY <2>3, <2>6, <2>8, <2>9, <2>10 DEF SaidInv
<1>14. CASE RecvEnd
  <2>1. said = Replies(s) /\ said \in Seq(AnyReply)
    BY <1>1, <1>2, <1>3, <1>14, CompleteAtRecv DEF RecvEnd, Here, SaidInv
  <2>2. Received' = s /\ pc' = "done" /\ said' = said
    BY <1>5, <1>14 DEF RecvEnd, client
  <2> QED
    BY <2>1, <2>2 DEF SaidInv
<1>15. CASE RecvTimeout
  <2>1. said = Replies(s) /\ said \in Seq(AnyReply)
    BY <1>1, <1>2, <1>3, <1>15, CompleteAtRecv DEF RecvTimeout, Here, SaidInv
  <2>2. Received' = s /\ pc' = "done" /\ said' = Append(said, TimedOut)
    BY <1>5, <1>15 DEF RecvTimeout, Say, client
  <2>3. Append(said, TimedOut) \in Seq(AnyReply)
    BY <2>1, TimedOutIs
  <2> QED
    BY <2>1, <2>2, <2>3 DEF SaidInv
<1>16. CASE ServeLine
  <2>1. /\ pc = "lines" /\ HasLine /\ ~ QuitLine /\ lines' = lines + 1
        /\ said' = Append(said, Numbered(lines + 1, CurrentLine))
        /\ start' = LineEnd + 1 /\ UNCHANGED <<client, taken, buffer, pc>>
    BY <1>16 DEF ServeLine, Here, Say
  <2>2. PICK p \in Nat : p = Place
    BY <1>1, <2>1, CurrentLineIs
  <2>3. PICK e \in 1 .. Len(s) : e = Base + LineEnd
    BY <1>1, <1>3, <2>1, CurrentLineIs
  <2>4. PICK line : line = CurrentLine
    OBVIOUS
  <2>5. /\ p < e /\ s[e] = "nl" /\ \A j \in p + 1 .. e - 1 : s[j] # "nl"
        /\ line = Between(s, p, e) /\ Len(line) < BufSize
    BY <1>1, <1>3, <2>1, <2>2, <2>3, <2>4, CurrentLineIs
  <2>6. ~ IsQuit(line)
    BY <2>1, <2>4 DEF QuitLine
  <2>7. Framed(s, p, lines) /\ said = Told(s, lines) /\ said \in Seq(AnyReply)
    BY <1>2, <1>3, <2>1, <2>2 DEF SaidInv
  <2>8. /\ Framed(s, e, lines + 1)
        /\ Told(s, lines + 1) = Append(Told(s, lines), Numbered(lines + 1, line))
    BY <2>5, <2>6, <2>7, FramedMore
  <2>9. Received' = s /\ pc' = "lines"
    BY <1>5, <2>1 DEF client
  <2>10. Place' = e
    <3>1. LineEnd \in Nat /\ Base \in Nat
      BY <1>2, <2>1, LineEndIs, BufferIs
    <3>2. Base' = Base /\ start' = LineEnd + 1
      BY <2>1 DEF Base
    <3>3. Place' = Base' + start' - 1
      BY <2>9 DEF Place
    <3> QED
      BY <2>3, <3>1, <3>2, <3>3
  <2>11. said' = Told(s, lines + 1)
    BY <2>1, <2>4, <2>7, <2>8
  <2>12. said' \in Seq(AnyReply)
    BY <2>8, <2>11, TaleIs
  <2> QED
    BY <2>1, <2>8, <2>9, <2>10, <2>11, <2>12 DEF SaidInv
<1>17. CASE ServeQuit
  <2>1. /\ pc = "lines" /\ HasLine /\ QuitLine
        /\ said' = Append(said, Bye) /\ pc' = "done" /\ UNCHANGED <<client, taken>>
    BY <1>17 DEF ServeQuit, Here, Say
  <2>2. PICK p \in Nat : p = Place
    BY <1>1, <2>1, CurrentLineIs
  <2>3. PICK e \in 1 .. Len(s) : e = Base + LineEnd
    BY <1>1, <1>3, <2>1, CurrentLineIs
  <2>4. PICK line : line = CurrentLine
    OBVIOUS
  <2>5. /\ p < e /\ s[e] = "nl" /\ \A j \in p + 1 .. e - 1 : s[j] # "nl"
        /\ line = Between(s, p, e) /\ Len(line) < BufSize
    BY <1>1, <1>3, <2>1, <2>2, <2>3, <2>4, CurrentLineIs
  <2>6. IsQuit(line)
    BY <2>1, <2>4 DEF QuitLine
  <2>7. Framed(s, p, lines) /\ said = Told(s, lines) /\ said \in Seq(AnyReply)
    BY <1>2, <1>3, <2>1, <2>2 DEF SaidInv
  <2>8. Replies(s) = Append(Told(s, lines), Bye)
    BY <2>5, <2>6, <2>7, FramedQuit
  <2>9. Received' = s
    BY <1>5, <2>1 DEF client
  <2>10. said' = Replies(s) /\ said' \in Seq(AnyReply)
    <3>1. Append(said, Bye) \in Seq(AnyReply)
      BY <2>7, RepliesAre
    <3> QED
      BY <2>1, <2>7, <2>8, <3>1
  <2> QED
    BY <2>1, <2>9, <2>10 DEF SaidInv
<1>18. CASE ServeRest
  <2>1. /\ pc = "lines" /\ ~ HasLine /\ buffer' = Leftover
        /\ UNCHANGED <<client, taken, start, lines>>
        /\ \/ Len(Leftover) = BufSize /\ said' = Append(said, TooLong) /\ pc' = "done"
           \/ pc' = "recv" /\ said' = said
    BY <1>18 DEF ServeRest, Here, Say
  <2>2. Received' = s
    BY <1>5, <2>1 DEF client
  <2>3. /\ buffer \in Seq(Byte) /\ start \in Nat /\ start >= 1 /\ start <= Len(buffer) + 1
        /\ Len(buffer) \in Nat /\ Base \in Nat /\ Base + Len(buffer) = taken /\ Len(s) = taken
    BY <1>2, <1>3, <2>1, BufferIs, ReceivedIs DEF TypeOK, BufferInv
  <2>4. Leftover \in Seq(Byte) /\ Len(Leftover) = Len(buffer) + 1 - start
    BY <2>3 DEF Leftover
  <2>5. PICK p \in Nat : p = Place /\ p = (Base + start) - 1
    <3>1. Place = (Base + start) - 1 /\ (Base + start) - 1 \in Nat
      BY <2>1, <2>3 DEF Place
    <3> QED
      BY <3>1
  <2>6. Framed(s, p, lines) /\ said = Told(s, lines) /\ said \in Seq(AnyReply)
    BY <1>2, <1>3, <2>1, <2>5 DEF SaidInv
  <2>7. CASE pc' = "recv" /\ said' = said
    <3>1. Place' = p
      <4>1. Place' = taken - Len(Leftover)
        BY <2>1, <2>7 DEF Place, Base
      <4> QED
        BY <2>3, <2>4, <2>5, <4>1
    <3> QED
      BY <2>1, <2>2, <2>6, <2>7, <3>1 DEF SaidInv
  <2>8. CASE Len(Leftover) = BufSize /\ said' = Append(said, TooLong) /\ pc' = "done"
    <3>1. \A j \in p + 1 .. Len(s) : s[j] # "nl"
      <4> SUFFICES ASSUME NEW j \in p + 1 .. Len(s) PROVE s[j] # "nl"
        OBVIOUS
      <4>1. PICK i \in start .. Len(buffer) : j = Base + i
        <5>1. j - Base \in start .. Len(buffer) /\ j = Base + (j - Base)
          BY <2>3, <2>5
        <5> QED
          BY <5>1
      <4>2. i \in 1 .. Len(buffer) /\ buffer[i] # "nl"
        BY <2>1, <2>3, <4>1 DEF HasLine, Newlines
      <4>3. s[Base + i] = buffer[i]
        BY <1>2, <1>3, <4>2, BufferIs
      <4> QED
        BY <4>1, <4>2, <4>3
    <3>2. /\ Unfinished(s) = SubSeq(s, p + 1, Len(s))
          /\ Replies(s) = IF Len(Unfinished(s)) >= BufSize
                          THEN Append(Told(s, lines), TooLong) ELSE Told(s, lines)
      BY <2>6, <3>1, FramedReplies
    <3>3. Len(SubSeq(s, p + 1, Len(s))) = BufSize
      <4>1. Len(SubSeq(s, p + 1, Len(s))) = Len(s) - p
        BY <2>3, <2>5
      <4> QED
        BY <2>3, <2>4, <2>5, <2>8, <4>1
    <3>4. said' = Replies(s)
      BY <2>6, <2>8, <3>2, <3>3
    <3>5. said' \in Seq(AnyReply)
      BY <2>6, <2>8, RepliesAre
    <3> QED
      BY <2>2, <2>8, <3>4, <3>5 DEF SaidInv
  <2> QED
    BY <2>1, <2>7, <2>8
<1> QED
  BY <1>1, <1>6, <1>7, <1>8, <1>9, <1>10, <1>11, <1>12, <1>13, <1>14, <1>15, <1>16, <1>17, <1>18
  DEF Next, Child

-----------------------------------------------------------------------------
\* What is on its way.

LEMMA NextWire == IInv /\ [Next]_vars => WireInv'
<1>1. SUFFICES ASSUME IInv, [Next]_vars PROVE WireInv'
  OBVIOUS
<1>2. TypeOK /\ WireInv /\ SaidInv
  BY <1>1 DEF IInv
<1>3. CASE UNCHANGED <<sending, wire, said>> /\ gone' = gone
  BY <1>2, <1>3 DEF WireInv, wire
\* A step that says something says it when all was sent.
<1>4. ASSUME NEW r \in AnyReply, sending = <<>>, Say(r), UNCHANGED <<client, wire>>
      PROVE  WireInv'
  <2>1. sending' \in Seq(Cell) /\ sending' = Cells(r)
    BY <1>4, CellsAre DEF Say
  <2>2. AllCells(said') = AllCells(said) \o Cells(r)
    BY <1>2, <1>4, AllCellsMore DEF Say, SaidInv
  <2>3. /\ got \in Seq(Cell) /\ socket \in Seq(Cell) /\ got' = got /\ socket' = socket
        /\ gone' = gone
    BY <1>2, <1>4 DEF WireInv, wire, client
  <2>4. ASSUME ~ gone PROVE got \o socket \o Cells(r) = AllCells(said')
    <3>1. PICK w \in Seq(Cell) : w = got \o socket
      BY <2>3, ConcatProperties
    <3>2. w \o <<>> = w
      BY <3>1
    <3>3. AllCells(said) = w
      BY <1>2, <1>4, <2>4, <3>1, <3>2 DEF WireInv
    <3> QED
      BY <2>2, <3>1, <3>3
  <2> QED
    BY <2>1, <2>3, <2>4 DEF WireInv
<1>5. CASE UNCHANGED vars
  BY <1>3, <1>5 DEF vars, wire
<1>6. CASE (\E b \in Byte : ClientWrite(b)) \/ ClientShutdown
  BY <1>3, <1>6 DEF ClientWrite, ClientShutdown
<1>7. CASE ClientReset
  <2>1. sending' = sending /\ got' = got /\ socket' = <<>> /\ gone'
    BY <1>7 DEF ClientReset
  <2>2. <<>> \in Seq(Cell)
    OBVIOUS
  <2> QED
    BY <1>2, <2>1, <2>2 DEF WireInv
<1>8. CASE ClientRead
  <2>1. PICK n \in 1 .. Len(socket) :
          /\ got' = got \o SubSeq(socket, 1, n)
          /\ socket' = SubSeq(socket, n + 1, Len(socket))
    BY <1>8 DEF ClientRead
  <2>2. UNCHANGED <<sending, said>> /\ gone' = gone
    BY <1>8 DEF ClientRead, client
  <2>3. got \in Seq(Cell) /\ socket \in Seq(Cell)
    BY <1>2 DEF WireInv
  <2>4. PICK a : a = SubSeq(socket, 1, n)
    OBVIOUS
  <2>5. PICK b : b = SubSeq(socket, n + 1, Len(socket))
    OBVIOUS
  <2>6. a \in Seq(Cell) /\ b \in Seq(Cell) /\ a \o b = socket
    <3>1. n \in 0 .. Len(socket)
      BY <2>3
    <3> QED
      BY <2>3, <2>4, <2>5, <3>1, CutIs
  <2>7. got \o a \in Seq(Cell) /\ (got \o a) \o b = got \o socket
    <3>1. Joined(got, a, b)
      BY <2>3, <2>6, ThreeJoined
    <3> QED
      BY <2>3, <2>6, <3>1, ConcatProperties DEF Joined
  <2> QED
    BY <1>2, <2>1, <2>2, <2>4, <2>5, <2>6, <2>7 DEF WireInv
<1>9. CASE SendSome
  <2>1. PICK n \in 1 .. Min({Len(sending), SocketSize - Len(socket)}) :
          /\ socket' = socket \o SubSeq(sending, 1, n)
          /\ sending' = SubSeq(sending, n + 1, Len(sending))
    BY <1>9 DEF SendSome, SentTo
  <2>2. UNCHANGED <<got, said>> /\ gone' = gone
    BY <1>9 DEF SendSome, client
  <2>3. got \in Seq(Cell) /\ socket \in Seq(Cell) /\ sending \in Seq(Cell)
    BY <1>2 DEF WireInv
  <2>4. n \in 0 .. Len(sending)
    <3>1. Len(sending) \in Nat /\ SocketSize - Len(socket) \in Nat
      BY <1>2, <2>3 DEF TypeOK
    <3>2. n \in Nat /\ n <= Len(sending)
      BY <3>1, MinOfTwo
    <3> QED
      BY <3>1, <3>2
  <2>5. PICK a : a = SubSeq(sending, 1, n)
    OBVIOUS
  <2>6. PICK b : b = SubSeq(sending, n + 1, Len(sending))
    OBVIOUS
  <2>7. a \in Seq(Cell) /\ b \in Seq(Cell) /\ a \o b = sending
    BY <2>3, <2>4, <2>5, <2>6, CutIs
  <2>8. socket \o a \in Seq(Cell)
    BY <2>3, <2>7, ConcatProperties
  <2>9. (got \o (socket \o a)) \o b = (got \o socket) \o sending
    <3>1. Joined(got, socket, a)
      BY <2>3, <2>7, ThreeJoined
    <3>2. PICK w \in Seq(Cell) : w = got \o socket
      BY <2>3, ConcatProperties
    <3>3. Joined(w, a, b)
      BY <2>7, ThreeJoined
    <3> QED
      BY <2>7, <3>1, <3>2, <3>3 DEF Joined
  <2> QED
    BY <1>2, <2>1, <2>2, <2>5, <2>6, <2>7, <2>8, <2>9 DEF WireInv
<1>10. CASE SendError
  <2>1. sending' = <<>> /\ UNCHANGED wire /\ gone /\ gone' = gone
    BY <1>10 DEF SendError, client
  <2>2. <<>> \in Seq(Cell)
    OBVIOUS
  <2> QED
    BY <1>2, <2>1, <2>2 DEF WireInv, wire
<1>11. CASE RecvData \/ RecvEnd
  BY <1>3, <1>11 DEF RecvData, RecvEnd, client
<1>12. CASE RecvTimeout
  BY <1>4, <1>12, TimedOutIs DEF RecvTimeout, Here
<1>13. CASE ServeLine
  <2>1. Numbered(lines + 1, CurrentLine) \in AnyReply
    <3>1. LineEnd \in Nat /\ LineEnd \in start .. Len(buffer)
      BY <1>2, <1>13, LineEndIs DEF ServeLine
    <3>2. CurrentLine \in Seq(Byte)
      BY <1>2, <3>1 DEF CurrentLine, TypeOK
    <3>3. lines + 1 \in Nat
      BY <1>2 DEF TypeOK
    <3> QED
      BY <3>2, <3>3, NumberedIs
  <2> QED
    BY <1>4, <1>13, <2>1 DEF ServeLine, Here
<1>14. CASE ServeQuit
  BY <1>4, <1>14, RepliesAre DEF ServeQuit, Here
<1>15. CASE ServeRest
  <2>1. CASE Say(TooLong)
    BY <1>4, <1>15, <2>1, RepliesAre DEF ServeRest, Here
  <2>2. CASE UNCHANGED <<sending, said>>
    BY <1>3, <1>15, <2>2 DEF ServeRest, client
  <2> QED
    BY <1>15, <2>1, <2>2 DEF ServeRest
<1> QED
  BY <1>1, <1>5, <1>6, <1>7, <1>8, <1>9, <1>10, <1>11, <1>12, <1>13, <1>14, <1>15
  DEF Next, Child

-----------------------------------------------------------------------------
\* The results.

LEMMA NextIInv == IInv /\ [Next]_vars => IInv'
BY NextType, NextBuffer, NextSaid, NextWire DEF IInv

\* IInv holds in every reachable state of a conversation, whatever the client
\* does.
THEOREM Invariance == Spec => []IInv
<1>1. Init => IInv
  BY InitIInv
<1>2. IInv /\ [Next]_vars => IInv'
  BY NextIInv
<1> QED
  BY <1>1, <1>2, PTL DEF Spec

LEMMA InvImpliesUpToDate == IInv => UpToDate
BY CompleteAtRecv DEF UpToDate, Here, IInv, BufferInv

\* serve_connection: when the child waits for input, it has answered exactly the
\* lines it received, holds the beginning of the next, and recv has room; see
\* UpToDate in EchoConnection.
THEOREM AnswersEveryLine == Spec => []UpToDate
BY Invariance, InvImpliesUpToDate, PTL

LEMMA InvImpliesWhole == IInv => WholeConversation
BY DEF WholeConversation, IInv, WireInv, SaidInv, Finished

\* send_all and serve_connection: no byte of a reply is lost, repeated or out of
\* order, and a conversation that ended said all it had to; see WholeConversation
\* in EchoConnection.
THEOREM ConversationIsWhole == Spec => []WholeConversation
BY Invariance, InvImpliesWhole, PTL

-----------------------------------------------------------------------------
\* With the program of echoclient.c

clientVars == <<vars, clientProgram>>
ClientSpec == ClientInit /\ [][ClientNext]_clientVars

\* echoclient.c is one of the clients that EchoConnection allows: what main does
\* is, for the connection, a step of it or none.
THEOREM ClientConforms == ClientSpec => Spec
<1>1. ClientInit => Init
  BY DEF ClientInit
<1>2. [ClientNext]_clientVars => [Next]_vars
  <2> SUFFICES ASSUME [ClientNext]_clientVars PROVE [Next]_vars
    OBVIOUS
  <2>1. CASE UNCHANGED clientVars
    BY <2>1 DEF clientVars
  <2>2. ASSUME Close PROVE Next
    BY <2>2 DEF Close, Next
  <2>3. CASE \E b \in Byte : Send(b)
    BY <2>3 DEF Send, Next
  <2>4. CASE EndOfInput
    BY <2>2, <2>4 DEF EndOfInput
  <2>5. CASE SendFails \/ ServerClosed \/ GivesUp
    BY <2>2, <2>5 DEF SendFails, ServerClosed, GivesUp
  <2>6. CASE Receive
    BY <2>6 DEF Receive, Next
  <2>7. CASE Refused
    BY <2>7 DEF Refused, Next
  <2>8. CASE Child
    BY <2>8 DEF Next
  <2> QED
    BY <2>1, <2>3, <2>4, <2>5, <2>6, <2>7, <2>8 DEF ClientNext, Main
<1> QED
  BY <1>1, <1>2, PTL DEF ClientSpec, Spec

-----------------------------------------------------------------------------
\* variant2.c, files.c, errors.c and filter.c: what a run holds

\* What a run takes next is one of the things it needs.
LEMMA NextIsNeeded ==
    ASSUME Text!Missing # {}
    PROVE  \E j \in DOMAIN Text!Needed : Text!NextNeeded = Text!Needed[j] /\ j \in Text!Missing
<1>1. Text!Missing \in SUBSET Nat
  BY DEF Text!Missing, Text!Needed
<1>2. Text!Min(Text!Missing) = Min(Text!Missing)
  BY DEF Text!Min, Min
<1>3. Min(Text!Missing) \in Text!Missing
  BY <1>1, MinIs
<1> QED
  BY <1>2, <1>3 DEF Text!NextNeeded, Text!Missing

LEMMA NeededIsReleased ==
    \A j \in DOMAIN Text!Needed : Text!Needed[j] \in Text!Released
BY DEF Text!Needed, Text!Released

LEMMA TextHeldInv == Text!HeldInv /\ [Text!Next]_textVars => Text!HeldInv'
<1> SUFFICES ASSUME Text!HeldInv, [Text!Next]_textVars PROVE Text!HeldInv'
  OBVIOUS
<1> USE DEF Text!HeldInv, Text!NothingHeld, Text!input, Text!work, Text!outcome
<1>1. CASE Text!Configure
  BY <1>1 DEF Text!Configure
<1>2. CASE Text!Acquire
  BY <1>2, NextIsNeeded, NeededIsReleased DEF Text!Acquire, Text!Needed
<1>3. CASE Text!AcquireFails
  BY <1>3, NextIsNeeded, NeededIsReleased DEF Text!AcquireFails, Text!Needed, Text!Missing
<1>4. CASE Text!Operand
  BY <1>4 DEF Text!Operand, Text!Released
<1>5. CASE Text!ReadLine
  BY <1>5 DEF Text!ReadLine, Text!Verdict, Text!LimitReached, Text!Released
<1>6. CASE Text!WriteFails
  BY <1>6 DEF Text!WriteFails
<1>7. CASE Text!EndOfInput
  BY <1>7 DEF Text!EndOfInput, Text!Full, Text!Stream
<1>8. CASE Text!ReadFails
  BY <1>8 DEF Text!ReadFails
<1>9. CASE Text!NextOperand
  BY <1>9 DEF Text!NextOperand
<1>10. CASE Text!Cleanup
  BY <1>10 DEF Text!Cleanup, Text!Worse
<1>11. CASE UNCHANGED textVars
  BY <1>11 DEF textVars, Text!Needed, Text!Released
<1> QED
  BY <1>1, <1>2, <1>3, <1>4, <1>5, <1>6, <1>7, <1>8, <1>9, <1>10, <1>11 DEF Text!Next

\* A step of any of the programs is a step of the text program or leaves it alone;
\* the same for the others.
LEMMA TextStep == [NextAll]_allVars => [Text!Next]_textVars
BY DEF NextAll, allVars, InConversation, WithClient

LEMMA ConfigStep == [NextAll]_allVars => [Config!Next]_configVars
BY DEF NextAll, allVars, InConversation, WithClient

LEMMA ParserStep == [NextAll]_allVars => [Parser!Next]_parserVars
BY DEF NextAll, allVars, InConversation, WithClient

\* variant2.c, files.c, errors.c, filter.c: whatever the input and whichever calls
\* fail, a run of one of the text programs ends with nothing open or allocated, and
\* double_numbers reports the lines of its file only if it read them all.
THEOREM RunsReleaseAll == SpecAll => []NothingHeld
<1>1. InitAll => Text!HeldInv
  BY DEF InitAll, Text!Init, Text!HeldInv, Text!NothingHeld
<1>2. Text!HeldInv => NothingHeld
  BY DEF Text!HeldInv, NothingHeld
<1> QED
  BY <1>1, <1>2, TextHeldInv, TextStep, PTL DEF SpecAll

-----------------------------------------------------------------------------
\* variant2.c, files.c, errors.c and filter.c: what a run writes

Entries == {"-", "a"} \X Nat

\* One of the sequences begins as the other does.
Begins(p, q) == Len(p) <= Len(q) /\ \A j \in 1 .. Len(p) : q[j] = p[j]

\* A line of the output more, or none.
Taken(f, s, n, before) ==
    IF Text!Good(s[n]) /\ \A j \in 1 .. n : ~ Text!Fatal(s[j])
    THEN Append(before, <<f, n>>) ELSE before

Wants(w, f, s, m) ==
    \A n \in 0 .. m : w[n] = IF n = 0 THEN <<>> ELSE Taken(f, s, n, w[n - 1])

LEMMA TakenIs ==
    ASSUME NEW f \in {"-", "a"}, NEW s, NEW n \in Nat, NEW before \in Seq(Entries)
    PROVE  Taken(f, s, n, before) \in Seq(Entries) /\ Begins(before, Taken(f, s, n, before))
<1>1. PICK e \in Entries : e = <<f, n>>
  BY DEF Entries
<1>2. PICK t \in Seq(Entries) : t = Append(before, e)
  BY AppendProperties
<1>3. Begins(before, t)
  BY <1>2, AppendProperties DEF Begins
<1>4. Begins(before, before)
  BY DEF Begins
<1> QED
  BY <1>1, <1>2, <1>3, <1>4 DEF Taken

LEMMA WantsSome ==
    \A m \in Nat : \A f \in {"-", "a"} : \A s : \E w \in [0 .. m -> Seq(Entries)] : Wants(w, f, s, m)
<1> SUFFICES ASSUME NEW f \in {"-", "a"}, NEW s
             PROVE  \A m \in Nat : \E w \in [0 .. m -> Seq(Entries)] : Wants(w, f, s, m)
  OBVIOUS
<1> DEFINE T == {m \in Nat : \E w \in [0 .. m -> Seq(Entries)] : Wants(w, f, s, m)}
<1>1. 0 \in T
  <2>1. <<>> \in Seq(Entries)
    OBVIOUS
  <2>2. [n \in 0 .. 0 |-> <<>>] \in [0 .. 0 -> Seq(Entries)] /\ Wants([n \in 0 .. 0 |-> <<>>], f, s, 0)
    BY <2>1 DEF Wants
  <2> QED
    BY <2>2
<1>2. ASSUME NEW m \in Nat, m \in T PROVE m + 1 \in T
  <2>1. PICK w \in [0 .. m -> Seq(Entries)] : Wants(w, f, s, m)
    BY <1>2
  <2>2. PICK last \in Seq(Entries) : last = Taken(f, s, m + 1, w[m])
    <3>1. w[m] \in Seq(Entries) /\ m + 1 \in Nat
      OBVIOUS
    <3> QED
      BY <3>1, TakenIs
  <2> DEFINE g == [n \in 0 .. m + 1 |-> IF n = m + 1 THEN last ELSE w[n]]
  <2>3. g \in [0 .. m + 1 -> Seq(Entries)]
    OBVIOUS
  <2>4. ASSUME NEW n \in 0 .. m + 1
        PROVE  g[n] = IF n = 0 THEN <<>> ELSE Taken(f, s, n, g[n - 1])
    <3>1. CASE n = m + 1
      <4>1. n # 0 /\ n - 1 = m /\ g[n - 1] = w[m] /\ g[n] = last
        BY <3>1
      <4> QED
        BY <2>2, <3>1, <4>1
    <3>2. CASE n # m + 1
      <4>1. n \in 0 .. m /\ g[n] = w[n] /\ (n # 0 => g[n - 1] = w[n - 1])
        BY <3>2
      <4>2. w[n] = IF n = 0 THEN <<>> ELSE Taken(f, s, n, w[n - 1])
        BY <2>1, <4>1 DEF Wants
      <4> QED
        BY <4>1, <4>2
    <3> QED
      BY <3>1, <3>2
  <2>5. Wants(g, f, s, m + 1)
    <3> HIDE DEF g
    <3> QED
      BY <2>4 DEF Wants
  <2> HIDE DEF g
  <2> QED
    BY <2>3, <2>5
<1>3. Nat \subseteq T
  <2> HIDE DEF T
  <2> QED
    BY <1>1, <1>2, NatSet
<1> QED
  BY <1>3

LEMMA WantedIs ==
    ASSUME NEW f \in {"-", "a"}, NEW s \in Seq(Text!Line)
    PROVE  /\ Wants(Text!Wanted(f, s), f, s, Len(s))
           /\ \A n \in 0 .. Len(s) : Text!Wanted(f, s)[n] \in Seq(Entries)
<1>1. PICK m \in Nat : m = Len(s)
  OBVIOUS
<1>2. PICK g \in [0 .. m -> Seq(Entries)] : Wants(g, f, s, m)
  BY WantsSome
<1> DEFINE Is(w) == w = [n \in 0 .. m |-> IF n = 0 THEN <<>> ELSE Taken(f, s, n, w[n - 1])]
<1>3. Is(g)
  BY <1>2 DEF Wants
<1>4. Text!Wanted(f, s) = CHOOSE w : Is(w)
  BY <1>1 DEF Text!Wanted, Taken
<1>5. PICK w : w = Text!Wanted(f, s)
  OBVIOUS
<1>6. Is(w)
  <2> HIDE DEF Is
  <2> QED
    BY <1>3, <1>4, <1>5
<1>7. Wants(w, f, s, m)
  BY <1>6 DEF Wants
<1> DEFINE T == {n \in Nat : n <= m => w[n] \in Seq(Entries)}
<1> HIDE DEF Is
<1>8. 0 \in T
  <2>1. 0 \in 0 .. m /\ <<>> \in Seq(Entries)
    OBVIOUS
  <2>2. w[0] = <<>>
    BY <1>7, <2>1 DEF Wants
  <2> QED
    BY <2>1, <2>2
<1>9. ASSUME NEW n \in Nat, n \in T PROVE n + 1 \in T
  <2>1. SUFFICES ASSUME n + 1 <= m PROVE w[n + 1] \in Seq(Entries)
    OBVIOUS
  <2>2. n + 1 \in 0 .. m /\ n + 1 # 0 /\ n + 1 - 1 = n /\ w[n] \in Seq(Entries) /\ n + 1 \in Nat
    BY <1>9, <2>1
  <2>3. w[n + 1] = Taken(f, s, n + 1, w[n])
    BY <1>7, <2>2 DEF Wants
  <2> QED
    BY <2>2, <2>3, TakenIs
<1>10. Nat \subseteq T
  <2> HIDE DEF T
  <2> QED
    BY <1>8, <1>9, NatSet
<1>11. \A n \in 0 .. m : w[n] \in Seq(Entries)
  BY <1>10
<1> QED
  BY <1>1, <1>5, <1>7, <1>11

\* With more of the stream there may be more, after what there was; after a line
\* at which the program gives up there is nothing more.
LEMMA WantedGrows ==
    ASSUME NEW f \in {"-", "a"}, NEW s \in Seq(Text!Line), NEW m \in 0 .. Len(s)
    PROVE  \A n \in m .. Len(s) :
              /\ Begins(Text!Wanted(f, s)[m], Text!Wanted(f, s)[n])
              /\ (m < Len(s) /\ n > m /\ Text!Fatal(s[m + 1])) => Text!Wanted(f, s)[n] = Text!Wanted(f, s)[m]
<1>1. PICK w : w = Text!Wanted(f, s)
  OBVIOUS
<1>2. Wants(w, f, s, Len(s)) /\ \A n \in 0 .. Len(s) : w[n] \in Seq(Entries)
  BY <1>1, WantedIs
<1>3. Len(s) \in Nat /\ m \in Nat
  OBVIOUS
<1> DEFINE Holds(n) ==
             /\ Begins(w[m], w[n])
             /\ (n > m /\ Text!Fatal(s[m + 1])) => w[n] = w[m]
           T == {d \in Nat : m + d <= Len(s) => Holds(m + d)}
<1>4. 0 \in T
  <2>1. Begins(w[m], w[m])
    BY <1>2, <1>3 DEF Begins
  <2> QED
    BY <1>3, <2>1
<1>5. ASSUME NEW d \in Nat, d \in T PROVE d + 1 \in T
  <2>1. SUFFICES ASSUME m + (d + 1) <= Len(s) PROVE Holds(m + (d + 1))
    OBVIOUS
  <2>2. PICK n \in Nat : n = m + d
    BY <1>3
  <2>3. n \in 0 .. Len(s) /\ n + 1 \in 0 .. Len(s) /\ n + 1 # 0 /\ n + 1 - 1 = n /\ m + (d + 1) = n + 1 /\ n >= m
    BY <1>3, <2>1, <2>2
  <2>4. Holds(n)
    BY <1>5, <2>2, <2>3
  <2>5. w[n + 1] = Taken(f, s, n + 1, w[n])
    BY <1>2, <2>3 DEF Wants
  <2>6. Begins(w[n], w[n + 1]) /\ w[n] \in Seq(Entries) /\ w[n + 1] \in Seq(Entries) /\ w[m] \in Seq(Entries)
    BY <1>2, <1>3, <2>3, <2>5, TakenIs
  <2>7. Begins(w[m], w[n + 1])
    BY <2>4, <2>6 DEF Begins
  <2>8. Text!Fatal(s[m + 1]) => w[n + 1] = w[m]
    <3>1. SUFFICES ASSUME Text!Fatal(s[m + 1]) PROVE w[n + 1] = w[m]
      OBVIOUS
    <3>2. m + 1 \in 1 .. n + 1
      BY <1>3, <2>2, <2>3
    <3>3. w[n + 1] = w[n]
      BY <2>5, <3>1, <3>2 DEF Taken
    <3>4. n = m \/ n > m
      BY <1>3, <2>3
    <3> QED
      BY <2>4, <3>1, <3>3, <3>4
  <2> QED
    BY <2>3, <2>7, <2>8
<1>6. Nat \subseteq T
  <2> HIDE DEF T
  <2> QED
    BY <1>4, <1>5, NatSet
<1>7. ASSUME NEW n \in m .. Len(s) PROVE Holds(n)
  <2>1. n - m \in Nat /\ m + (n - m) = n /\ n <= Len(s)
    BY <1>3
  <2>2. n - m \in T
    BY <1>6, <2>1
  <2> QED
    BY <2>1, <2>2
<1> QED
  BY <1>1, <1>7

\* What is cut.
LEMMA CutTo ==
    ASSUME NEW p \in Seq(Entries), NEW m \in Nat
    PROVE  /\ Text!Cut(p, m) \in Seq(Entries)
           /\ Len(Text!Cut(p, m)) = IF m > 0 /\ Len(p) > m THEN m ELSE Len(p)
           /\ \A j \in 1 .. Len(Text!Cut(p, m)) : Text!Cut(p, m)[j] = p[j]
<1>1. CASE m > 0 /\ Len(p) > m
  <2>1. PICK t \in Seq(Entries) : t = SubSeq(p, 1, m)
    <3>1. \A i \in 1 .. m : p[i] \in Entries
      BY <1>1
    <3>2. SubSeq(p, 1, m) \in Seq(Entries)
      BY <3>1, SubSeqProperties
    <3> QED
      BY <3>2
  <2>2. Len(t) = m /\ \A j \in 1 .. m : t[j] = p[j]
    BY <1>1, <2>1
  <2> QED
    BY <1>1, <2>1, <2>2 DEF Text!Cut
<1>2. CASE ~ (m > 0 /\ Len(p) > m)
  BY <1>2 DEF Text!Cut
<1> QED
  BY <1>1, <1>2

LEMMA SameEntries ==
    ASSUME NEW p \in Seq(Entries), NEW q \in Seq(Entries), Len(p) = Len(q),
           \A j \in 1 .. Len(p) : p[j] = q[j]
    PROVE  p = q
OBVIOUS

\* At the limit what comes after is cut off; below it nothing is.
LEMMA CutAtLimit ==
    ASSUME NEW p \in Seq(Entries), NEW q \in Seq(Entries), Begins(p, q), NEW m \in Nat,
           m > 0, Len(Text!Cut(p, m)) >= m
    PROVE  Text!Cut(q, m) = Text!Cut(p, m)
<1>1. PICK a \in Seq(Entries) : a = Text!Cut(p, m)
  BY CutTo
<1>2. PICK b \in Seq(Entries) : b = Text!Cut(q, m)
  BY CutTo
<1>3. Len(a) = m /\ Len(p) >= m /\ \A j \in 1 .. m : a[j] = p[j]
  BY <1>1, CutTo
<1>4. Len(b) = m /\ \A j \in 1 .. m : b[j] = q[j]
  BY <1>2, <1>3, CutTo DEF Begins
<1>5. \A j \in 1 .. m : b[j] = a[j]
  BY <1>3, <1>4 DEF Begins
<1>6. b = a
  BY <1>3, <1>4, <1>5, SameEntries
<1> QED
  BY <1>1, <1>2, <1>6

LEMMA CutBelow ==
    ASSUME NEW p \in Seq(Entries), NEW m \in Nat, ~ (m > 0 /\ Len(Text!Cut(p, m)) >= m), NEW e \in Entries
    PROVE  Text!Cut(p, m) = p /\ Text!Cut(Append(p, e), m) = Append(p, e)
<1>1. Len(Text!Cut(p, m)) = IF m > 0 /\ Len(p) > m THEN m ELSE Len(p)
  BY CutTo
<1>2. ~ (m > 0 /\ Len(p) >= m)
  BY <1>1
<1>3. Len(Append(p, e)) = Len(p) + 1
  BY AppendProperties
<1> QED
  BY <1>2, <1>3 DEF Text!Cut

\* What the verdict on a line means for the output.
LEMMA VerdictIs ==
    ASSUME Text!RunInv, NEW l \in Text!Line
    PROVE  /\ Text!Verdict(l) = "accept" <=> Text!Good(l) /\ ~ Text!Fatal(l)
           /\ Text!Verdict(l) \in {"accept", "reject", "ignore"} <=> ~ Text!Fatal(l)
           /\ Text!Verdict(l) # "usage" /\ Text!Verdict(l) # "ok"
           /\ tprogram # "double" => ~ Text!Fatal(l)
<1>1. Text!TooLong(l) <=> l.length >= LineMax - 1
  BY TextAssumption DEF Text!TooLong, Text!SeesNewline, Text!SeesEnd, Text!Line
<1> QED
  BY <1>1, TextAssumption DEF Text!RunInv, Text!Verdict, Text!Good, Text!Fatal, Text!Accepted,
       Text!Ignored, Text!Line, Text!Texts

\* Where a run is, and what its operands hold.
LEMMA OperandsAre ==
    ASSUME Text!RunInv, NEW i \in 1 .. Len(toperands)
    PROVE  /\ Len(toperands) \in {1, 2}
           /\ toperands[i] \in {"-", "a", "gone"}
           /\ Text!StreamOf(toperands[i]) \in Seq(Text!Line)
           /\ \A n \in 0 .. Len(Text!StreamOf(toperands[i])) : Text!Has(i, n) \in Seq(Entries)
           /\ Text!HasAll(i) \in Seq(Entries)
<1>1. Len(toperands) \in {1, 2} /\ toperands[i] \in {"-", "a", "gone"}
  BY DEF Text!RunInv, Text!TwoOperands
<1>2. PICK s \in Seq(Text!Line) : s = Text!StreamOf(toperands[i])
  BY DEF Text!RunInv, Text!StreamOf
<1>3. ASSUME NEW n \in 0 .. Len(s) PROVE Text!Has(i, n) \in Seq(Entries)
  <2>1. CASE toperands[i] = "gone" \/ (i = 2 /\ toperands = <<"-", "-">>)
    BY <2>1 DEF Text!Has
  <2>2. CASE ~ (toperands[i] = "gone" \/ (i = 2 /\ toperands = <<"-", "-">>))
    <3>1. toperands[i] \in {"-", "a"}
      BY <1>1, <2>2
    <3> QED
      BY <1>2, <2>2, <3>1, WantedIs DEF Text!Has
  <2> QED
    BY <2>1, <2>2
<1>4. Len(s) \in 0 .. Len(s)
  BY <1>2
<1> QED
  BY <1>1, <1>2, <1>3, <1>4 DEF Text!HasAll

\* What there is to read and what belongs in the output never change.
LEMMA SameHas ==
    ASSUME UNCHANGED <<tprogram, tstdin, tfile, toperands>>
    PROVE  /\ \A f : Text!StreamOf(f)' = Text!StreamOf(f)
           /\ \A i, n : Text!Has(i, n)' = Text!Has(i, n)
           /\ \A i : Text!HasAll(i)' = Text!HasAll(i)
           /\ \A l : Text!Fatal(l)' <=> Text!Fatal(l)
           /\ tmaximum' = tmaximum => Text!Expected' = Text!Expected
<1>1. \A f : Text!StreamOf(f)' = Text!StreamOf(f)
  BY DEF Text!StreamOf
<1>2. \A f, s : Text!Wanted(f, s)' = Text!Wanted(f, s)
  BY DEF Text!Wanted, Text!Good, Text!Fatal, Text!Accepted
<1>3. \A i, n : Text!Has(i, n)' = Text!Has(i, n)
  BY <1>1, <1>2 DEF Text!Has
<1>4. \A i : Text!HasAll(i)' = Text!HasAll(i)
  BY <1>1, <1>3 DEF Text!HasAll
<1>5. tmaximum' = tmaximum => Text!Expected' = Text!Expected
  BY <1>4 DEF Text!Expected, Text!MostWanted, Text!Cut
<1> QED
  BY <1>1, <1>3, <1>4, <1>5 DEF Text!Fatal

LEMMA RunNext == Text!RunInv /\ [Text!Next]_textVars => Text!RunInv'
<1> SUFFICES ASSUME Text!RunInv, [Text!Next]_textVars PROVE Text!RunInv'
  OBVIOUS
<1> USE DEF Text!RunInv, Text!TwoOperands, Text!input, Text!work, Text!outcome, Text!Stream
<1>1. CASE Text!Configure
  <2>1. PICK env \in Limits \cup {-1, -2}, option \in Limits \cup {-1, -2} :
           IF Text!Invalid \in {env, option}
           THEN tpc' = "done" /\ tstatus' = "usage" /\ UNCHANGED tmaximum
           ELSE tpc' = "acquire" /\ tmaximum' = Text!Layered(env, option) /\ UNCHANGED tstatus
    BY <1>1 DEF Text!Configure, Text!None, Text!Invalid
  <2>2. Text!Invalid \notin {env, option} => Text!Layered(env, option) \in Nat
    BY TextAssumption DEF Text!Layered, Text!None, Text!Invalid
  <2>3. tpc = "configure" /\ tprogram = "filter"
    BY <1>1 DEF Text!Configure
  <2>4. tmaximum' \in Nat
    BY <2>1, <2>2
  <2>5. /\ UNCHANGED <<tprogram, tstdin, tfile, toperands, ttoFile>>
        /\ UNCHANGED <<tk, tpos, tstdinPos, tout, tcount, trejected, tfailed>>
    BY <1>1 DEF Text!Configure
  <2>6. CASE tpc' = "done" /\ tstatus' = "usage"
    BY <2>3, <2>4, <2>5, <2>6
  <2>7. CASE tpc' = "acquire" /\ UNCHANGED tstatus
    BY <2>3, <2>4, <2>5, <2>7
  <2> QED
    BY <2>1, <2>6, <2>7
<1>2. CASE Text!Acquire
  <2>1. (tpos = 0 /\ tk = 1 /\ toperands[1] # "gone") \/ tprogram = "filter"
    BY <1>2 DEF Text!Acquire
  <2>2. tpc = "acquire" /\ tpc' \in {"acquire", IF tprogram = "filter" THEN "operand" ELSE "read"}
    BY <1>2 DEF Text!Acquire
  <2>3. UNCHANGED <<tprogram, tstdin, tfile, toperands, ttoFile, tmaximum, tk, tpos, tstdinPos,
                    tout, tcount, trejected, tstatus, tlines_out, tfailed>>
    BY <1>2 DEF Text!Acquire
  <2>4. tprogram # "filter" => Len(Text!Stream) >= 0
    OBVIOUS
  <2> QED
    BY <2>1, <2>2, <2>3, <2>4
<1>3. CASE Text!AcquireFails
  BY <1>3 DEF Text!AcquireFails
<1>4. CASE Text!Operand
  BY <1>4 DEF Text!Operand
<1>5. CASE Text!ReadLine
  <2>1. Text!Stream[tpos + 1] \in Text!Line
    BY <1>5 DEF Text!ReadLine
  <2>2. /\ Text!Verdict(Text!Stream[tpos + 1]) # "usage"
        /\ tprogram # "double" => Text!Verdict(Text!Stream[tpos + 1]) \in {"accept", "reject", "ignore"}
    BY <2>1, VerdictIs
  <2> QED
    BY <1>5, <2>2 DEF Text!ReadLine, Text!LimitReached, Text!Take
<1>6. CASE Text!WriteFails
  BY <1>6 DEF Text!WriteFails, Text!Take
<1>7. CASE Text!EndOfInput
  BY <1>7 DEF Text!EndOfInput
<1>8. CASE Text!ReadFails
  BY <1>8 DEF Text!ReadFails
<1>9. CASE Text!NextOperand
  BY <1>9 DEF Text!NextOperand
<1>10. CASE Text!Cleanup
  BY <1>10 DEF Text!Cleanup, Text!Worse
<1>11. CASE UNCHANGED textVars
  BY <1>11 DEF textVars
<1> QED
  BY <1>1, <1>2, <1>3, <1>4, <1>5, <1>6, <1>7, <1>8, <1>9, <1>10, <1>11 DEF Text!Next

\* With one operand: what there is to read, and what belongs in the output.
LEMMA OneOperand ==
    ASSUME Text!RunInv, tprogram # "filter", tk = 1
    PROVE  /\ Len(toperands) = 1 /\ toperands[1] \in {"-", "a"}
           /\ Text!Stream = Text!StreamOf(toperands[1]) /\ Text!Stream \in Seq(Text!Line)
           /\ \A n : Text!Has(1, n) = Text!Wanted(toperands[1], Text!Stream)[n]
           /\ Wants(Text!Wanted(toperands[1], Text!Stream), toperands[1], Text!Stream, Len(Text!Stream))
           /\ \A n \in 0 .. Len(Text!Stream) : Text!Has(1, n) \in Seq(Entries)
           /\ Text!Expected = Text!Cut(Text!Has(1, Len(Text!Stream)), Text!MostWanted)
           /\ tpc \in {"acquire", "read", "cleanup", "done"} /\ tmaximum = 0
<1>1. Len(toperands) = 1 /\ toperands[1] \in {"-", "a"}
  BY DEF Text!RunInv
<1>2. Text!Stream = Text!StreamOf(toperands[1]) /\ Text!Stream \in Seq(Text!Line)
  BY DEF Text!RunInv, Text!Stream, Text!StreamOf
<1>3. \A n : Text!Has(1, n) = Text!Wanted(toperands[1], Text!Stream)[n]
  BY <1>1, <1>2 DEF Text!Has
<1>4. Text!Expected = Text!Cut(Text!Has(1, Len(Text!Stream)), Text!MostWanted)
  BY <1>1, <1>2 DEF Text!Expected, Text!HasAll
<1>5. tpc \in {"acquire", "read", "cleanup", "done"} /\ tmaximum = 0
  BY DEF Text!RunInv
<1> QED
  BY <1>1, <1>2, <1>3, <1>4, <1>5, WantedIs

\* Where a single stream has been read to its end, or records[] is full, the
\* output is as expected.
LEMMA OneIsRead ==
    ASSUME Text!RunInv, tprogram # "filter", tk = 1, NEW n \in 0 .. Len(Text!Stream),
           tprogram = "records" => Len(Text!Has(1, n)) <= Capacity,
           \/ n = Len(Text!Stream)
           \/ tprogram = "records" /\ Len(Text!Has(1, n)) = Capacity
    PROVE  Text!Expected = Text!Has(1, n)
<1>1. PICK s \in Seq(Text!Line) : s = Text!Stream
  BY OneOperand
<1>2. PICK p \in Seq(Entries) : p = Text!Has(1, n)
  BY OneOperand
<1>3. Len(s) \in 0 .. Len(s)
  OBVIOUS
<1>4. PICK q \in Seq(Entries) : q = Text!Has(1, Len(s))
  BY <1>1, <1>3, OneOperand
<1>5. Text!Expected = Text!Cut(q, Text!MostWanted)
  BY <1>1, <1>4, OneOperand
<1>6. CASE n = Len(Text!Stream)
  <2>1. p = q
    BY <1>1, <1>2, <1>4, <1>6
  <2>2. Text!MostWanted = (IF tprogram = "records" THEN Capacity ELSE 0)
    BY OneOperand DEF Text!MostWanted
  <2> QED
    BY <1>2, <1>5, <2>1, <2>2, TextAssumption DEF Text!Cut
<1>7. CASE tprogram = "records" /\ Len(Text!Has(1, n)) = Capacity
  <2>1. Text!MostWanted = Capacity /\ Capacity \in Nat /\ Capacity > 0
    BY <1>7, TextAssumption DEF Text!MostWanted
  <2>2. Text!Cut(p, Capacity) = p
    BY <1>2, <1>7 DEF Text!Cut
  <2>3. n \in 0 .. Len(s) /\ Len(s) \in n .. Len(s)
    BY <1>1
  <2>4. Begins(p, q)
    BY <1>1, <1>2, <1>4, <2>3, OneOperand, WantedGrows
  <2>5. Text!Cut(q, Capacity) = Text!Cut(p, Capacity)
    BY <1>2, <1>7, <2>1, <2>2, <2>4, CutAtLimit
  <2> QED
    BY <1>2, <1>5, <2>1, <2>2, <2>5
<1> QED
  BY <1>6, <1>7

\* A line read: what it adds to what is wanted.
LEMMA OneMore ==
    ASSUME Text!RunInv, tprogram # "filter", tk = 1, tpos < Len(Text!Stream),
           tprogram = "double" => \A j \in 1 .. tpos : ~ Text!Fatal(Text!Stream[j])
    PROVE  /\ Text!Has(1, tpos + 1) =
                 IF Text!Verdict(Text!Stream[tpos + 1]) = "accept"
                 THEN Append(Text!Has(1, tpos), <<toperands[1], tpos + 1>>) ELSE Text!Has(1, tpos)
           /\ Text!Fatal(Text!Stream[tpos + 1]) => Text!Expected = Text!Has(1, tpos + 1)
<1>1. PICK s \in Seq(Text!Line) : s = Text!Stream
  BY OneOperand
<1>2. PICK w : w = Text!Wanted(toperands[1], s)
  OBVIOUS
<1>3. tpos \in Nat /\ tpos + 1 \in 0 .. Len(s) /\ tpos + 1 # 0 /\ tpos + 1 - 1 = tpos /\ tpos \in 0 .. Len(s)
  BY <1>1 DEF Text!RunInv
<1>4. w[tpos + 1] = Taken(toperands[1], s, tpos + 1, w[tpos])
  BY <1>1, <1>2, <1>3, OneOperand DEF Wants
<1>5. s[tpos + 1] \in Text!Line
  BY <1>1, <1>3
<1>6. Text!Verdict(s[tpos + 1]) = "accept" <=> Text!Good(s[tpos + 1]) /\ ~ Text!Fatal(s[tpos + 1])
  BY <1>5, VerdictIs
<1>7. \A j \in 1 .. tpos : ~ Text!Fatal(s[j])
  BY <1>1 DEF Text!Fatal
<1>8. (\A j \in 1 .. tpos + 1 : ~ Text!Fatal(s[j])) <=> ~ Text!Fatal(s[tpos + 1])
  BY <1>3, <1>7
<1>9. w[tpos + 1] = IF Text!Verdict(s[tpos + 1]) = "accept"
                    THEN Append(w[tpos], <<toperands[1], tpos + 1>>) ELSE w[tpos]
  BY <1>4, <1>6, <1>8 DEF Taken
<1>10. ASSUME Text!Fatal(s[tpos + 1]) PROVE Text!Expected = Text!Has(1, tpos + 1)
  <2>1. Text!MostWanted = 0
    BY <1>10, OneOperand DEF Text!MostWanted, Text!Fatal
  <2>2. Text!Expected = Text!Has(1, Len(s))
    BY <1>1, <2>1, OneOperand DEF Text!Cut
  <2>3. Len(s) \in tpos .. Len(s) /\ tpos < Len(s) /\ Len(s) > tpos /\ tpos + 1 \in tpos .. Len(s) /\ tpos + 1 > tpos
    BY <1>3
  <2>4. w[Len(s)] = w[tpos] /\ w[tpos + 1] = w[tpos]
    BY <1>1, <1>2, <1>3, <1>10, <2>3, OneOperand, WantedGrows
  <2> QED
    BY <1>1, <1>2, <2>2, <2>4, OneOperand
<1> QED
  BY <1>1, <1>2, <1>9, <1>10, OneOperand

\* How far a run with one operand is: n lines of the stream.
SingleAt(n) ==
    /\ n \in 0 .. Len(Text!Stream) /\ tout = Text!Has(1, n)
    /\ tpc \in {"acquire", "read"} => n = tpos

\* The same without the stream's length: what SingleInv says besides.
SingleRest ==
    /\ tk = 1
    /\ tprogram = "records" => Len(tout) <= Capacity
    /\ tpc = "read" /\ tprogram = "double" => \A j \in 1 .. tpos : ~ Text!Fatal(Text!Stream[j])
    /\ tpc \in {"acquire", "read"} => ~ tfailed
    /\ tpc \in {"cleanup", "done"} /\ ~ tfailed => tout = Text!Expected
    /\ tfailed /\ tprogram = "double" => tstatus # "ok"

LEMMA SingleIs == Text!SingleInv <=> SingleRest /\ \E n \in 0 .. Len(Text!Stream) : SingleAt(n)
BY DEF Text!SingleInv, SingleRest, SingleAt

\* A step of a run with one operand, from one that has read n lines.
LEMMA SingleStep ==
    ASSUME Text!RunInv, Text!RunInv', tprogram # "filter", SingleRest,
           NEW n \in 0 .. Len(Text!Stream), SingleAt(n), NEW m, m = tpos + 1, Text!Next
    PROVE  SingleRest' /\ (SingleAt(n)' \/ SingleAt(m)')
<1> USE DEF Text!input, Text!work, Text!outcome
<1>1. UNCHANGED <<tprogram, tstdin, tfile, toperands>>
  BY DEF Text!Next, Text!Configure, Text!Acquire, Text!AcquireFails, Text!Operand, Text!ReadLine,
    Text!WriteFails, Text!EndOfInput, Text!ReadFails, Text!NextOperand, Text!Cleanup
<1>2. tk = 1 /\ tmaximum = 0 /\ tpc \in {"acquire", "read", "cleanup", "done"}
  BY OneOperand DEF SingleRest
<1>3. tk' = tk /\ tmaximum' = tmaximum
  BY <1>2 DEF Text!Next, Text!Configure, Text!Acquire, Text!AcquireFails, Text!Operand,
    Text!ReadLine, Text!WriteFails, Text!EndOfInput, Text!ReadFails, Text!NextOperand, Text!Cleanup
<1>4. /\ Text!Stream' = Text!Stream
      /\ \A i, j : Text!Has(i, j)' = Text!Has(i, j)
      /\ \A l : Text!Fatal(l)' <=> Text!Fatal(l)
      /\ Text!Expected' = Text!Expected
  BY <1>1, <1>3, SameHas DEF Text!Stream
<1>5. tpos \in Nat /\ Len(Text!Stream) \in Nat
  BY <1>2, OneOperand DEF Text!RunInv
<1>6. tcount = Len(tout)
  BY DEF Text!RunInv
<1>7. CASE Text!Acquire
  <2>1. tpc = "acquire" /\ tpc' \in {"acquire", "read"} /\ UNCHANGED <<tpos, tout, tfailed, tstatus>>
    BY <1>2, <1>7 DEF Text!Acquire
  <2>2. tpos = 0
    BY <2>1 DEF Text!RunInv
  <2> QED
    BY <1>1, <1>2, <1>3, <1>4, <2>1, <2>2 DEF SingleRest, SingleAt
<1>8. CASE Text!AcquireFails
  <2>1. /\ tpc' \in {"cleanup", "done"} /\ UNCHANGED tout /\ tfailed'
        /\ tprogram = "double" => tstatus' # "ok"
    BY <1>8 DEF Text!AcquireFails
  <2> QED
    BY <1>1, <1>2, <1>3, <1>4, <2>1 DEF SingleRest, SingleAt
<1>9. CASE Text!ReadLine
  <2>1. /\ tpc = "read" /\ tpos < Len(Text!Stream) /\ ~ Text!Full
        /\ tpos' = tpos + 1 /\ UNCHANGED tfailed
    BY <1>9 DEF Text!ReadLine
  <2>2. n = tpos /\ tout = Text!Has(1, tpos)
    BY <2>1 DEF SingleAt
  <2>3. ~ Text!LimitReached
    BY <1>2 DEF Text!LimitReached
  <2>4. Text!Stream[tpos + 1] \in Text!Line
    BY <1>2, <1>5, <2>1, OneOperand
  <2>5. tout' = IF Text!Verdict(Text!Stream[tpos + 1]) = "accept"
                THEN Append(tout, <<toperands[1], tpos + 1>>) ELSE tout
    BY <1>2, <1>9, <2>3 DEF Text!ReadLine
  <2>6. /\ tout' = Text!Has(1, tpos + 1)
        /\ Text!Fatal(Text!Stream[tpos + 1]) => Text!Expected = Text!Has(1, tpos + 1)
    <3>1. tprogram = "double" => \A j \in 1 .. tpos : ~ Text!Fatal(Text!Stream[j])
      BY <2>1 DEF SingleRest
    <3> QED
      BY <1>2, <2>1, <2>2, <2>5, <3>1, OneMore
  <2>7. tpc' = IF ~ Text!Fatal(Text!Stream[tpos + 1]) THEN "read" ELSE "cleanup"
    BY <1>9, <2>3, <2>4, VerdictIs DEF Text!ReadLine
  <2>8. SingleAt(m)'
    <3>1. m \in 0 .. Len(Text!Stream)
      BY <1>5, <2>1
    <3>2. tout' = Text!Has(1, m)
      BY <2>6
    <3> QED
      BY <1>4, <2>1, <3>1, <3>2 DEF SingleAt
  <2>9. tprogram = "records" => Len(tout') <= Capacity
    <3>1. SUFFICES ASSUME tprogram = "records" PROVE Len(tout') <= Capacity
      OBVIOUS
    <3>2. Len(tout) < Capacity /\ Len(tout) \in Nat
      <4>1. tout \in Seq(Entries)
        BY <2>2, <1>2, <1>5, <2>1, OneOperand
      <4> QED
        BY <1>6, <2>1, <3>1, <4>1, TextAssumption DEF Text!Full, SingleRest
    <3>3. Len(tout') = Len(tout) \/ Len(tout') = Len(tout) + 1
      BY <2>5
    <3> QED
      BY <3>2, <3>3, TextAssumption
  <2>10. tfailed' = FALSE /\ ~ tfailed
    <3>1. ~ tfailed
      BY <2>1 DEF SingleRest
    <3>2. tfailed' = tfailed
      BY <2>1
    <3> QED
      BY <3>1, <3>2, <1>9 DEF Text!ReadLine
  <2>11. tpc' = "read" => \A j \in 1 .. tpos + 1 : tprogram = "double" => ~ Text!Fatal(Text!Stream[j])
    <3>1. tprogram = "double" => \A j \in 1 .. tpos : ~ Text!Fatal(Text!Stream[j])
      BY <2>1 DEF SingleRest
    <3> QED
      BY <1>5, <2>7, <3>1
  <2>12. SingleRest'
    BY <1>1, <1>2, <1>3, <1>4, <2>1, <2>6, <2>7, <2>9, <2>10, <2>11 DEF SingleRest
  <2> QED
    BY <2>8, <2>12
<1>10. CASE Text!WriteFails
  <2>1. tpc' = "cleanup" /\ UNCHANGED tout /\ tfailed' /\ tstatus' # "ok"
    BY <1>10 DEF Text!WriteFails
  <2> QED
    BY <1>1, <1>2, <1>3, <1>4, <2>1 DEF SingleRest, SingleAt
<1>11. CASE Text!EndOfInput
  <2>1. tpc = "read" /\ (tpos = Len(Text!Stream) \/ Text!Full) /\ UNCHANGED <<tout, tfailed>> /\ tpc' = "cleanup"
    BY <1>2, <1>11 DEF Text!EndOfInput
  <2>2. n = tpos /\ tout = Text!Has(1, n)
    BY <2>1 DEF SingleAt
  <2>3. Text!Expected = Text!Has(1, n)
    <3>1. Text!Full => tprogram = "records" /\ Len(Text!Has(1, n)) = Capacity
      BY <1>6, <2>2 DEF Text!Full
    <3>2. tprogram = "records" => Len(Text!Has(1, n)) <= Capacity
      BY <2>2 DEF SingleRest
    <3> QED
      BY <1>2, <2>1, <2>2, <3>1, <3>2, OneIsRead
  <2>4. ~ tfailed
    BY <2>1 DEF SingleRest
  <2> QED
    BY <1>1, <1>2, <1>3, <1>4, <2>1, <2>2, <2>3, <2>4 DEF SingleRest, SingleAt
<1>12. CASE Text!ReadFails
  <2>1. tpc' = "cleanup" /\ UNCHANGED tout /\ tfailed' /\ (tprogram = "double" => tstatus' # "ok")
    BY <1>12 DEF Text!ReadFails
  <2> QED
    BY <1>1, <1>2, <1>3, <1>4, <2>1 DEF SingleRest, SingleAt
<1>13. CASE Text!Cleanup
  <2>1. tpc = "cleanup" /\ tpc' = "done" /\ UNCHANGED tout
    BY <1>13 DEF Text!Cleanup
  <2>2. CASE UNCHANGED <<tstatus, tfailed>>
    BY <1>1, <1>2, <1>3, <1>4, <2>1, <2>2 DEF SingleRest, SingleAt
  <2>3. CASE tstatus' = Text!Worse(tstatus) /\ tfailed' = TRUE
    BY <1>1, <1>2, <1>3, <1>4, <2>1, <2>3 DEF SingleRest, SingleAt, Text!Worse
  <2> QED
    BY <1>13, <2>2, <2>3 DEF Text!Cleanup
<1> QED
  BY <1>2, <1>7, <1>8, <1>9, <1>10, <1>11, <1>12, <1>13
  DEF Text!Next, Text!Configure, Text!Operand, Text!NextOperand

LEMMA SingleNext ==
    Text!RunInv /\ Text!SingleInv /\ tprogram # "filter" /\ [Text!Next]_textVars /\ Text!RunInv'
        => Text!SingleInv'
<1> SUFFICES ASSUME Text!RunInv, Text!SingleInv, tprogram # "filter", [Text!Next]_textVars, Text!RunInv'
             PROVE  Text!SingleInv'
  OBVIOUS
<1>1. PICK n \in 0 .. Len(Text!Stream) : SingleAt(n)
  BY SingleIs
<1>2. SingleRest
  BY SingleIs
<1>3. PICK m : m = tpos + 1
  OBVIOUS
<1>4. CASE Text!Next
  <2>1. SingleRest' /\ (SingleAt(n)' \/ SingleAt(m)')
    BY <1>1, <1>2, <1>3, <1>4, SingleStep
  <2>2. (SingleAt(n)' => n \in (0 .. Len(Text!Stream))') /\ (SingleAt(m)' => m \in (0 .. Len(Text!Stream))')
    BY DEF SingleAt
  <2>3. SingleRest' /\ (\E i \in 0 .. Len(Text!Stream) : SingleAt(i))'
    BY <2>1, <2>2
  <2> QED
    BY <2>3 DEF Text!SingleInv, SingleRest, SingleAt
<1>5. CASE UNCHANGED textVars
  <2>1. UNCHANGED <<tprogram, tstdin, tfile, toperands, tmaximum>>
    BY <1>5 DEF textVars
  <2>2. /\ Text!Stream' = Text!Stream
        /\ \A i, j : Text!Has(i, j)' = Text!Has(i, j)
        /\ \A l : Text!Fatal(l)' <=> Text!Fatal(l)
        /\ Text!Expected' = Text!Expected
    BY <1>5, <2>1, SameHas DEF Text!Stream, textVars
  <2>3. SingleRest' /\ SingleAt(n)'
    BY <1>1, <1>2, <1>5, <2>2 DEF SingleRest, SingleAt, textVars
  <2>4. n \in (0 .. Len(Text!Stream))'
    BY <1>1, <2>2
  <2>5. SingleRest' /\ (\E i \in 0 .. Len(Text!Stream) : SingleAt(i))'
    BY <2>3, <2>4
  <2> QED
    BY <2>5 DEF Text!SingleInv, SingleRest, SingleAt
<1> QED
  BY <1>4, <1>5

\* filter: what is wanted when n lines of the i-th operand have been read.
Chained(p, q) == p \o q
SoFar(i, n) == IF i = 1 THEN Text!Has(1, n) ELSE Chained(Text!HasAll(1), Text!Has(2, n))

\* <<"-", "-">>, the second time.
Again(i) == i = 2 /\ toperands = <<"-", "-">>

LEMMA Concatenated ==
    ASSUME NEW p \in Seq(Entries), NEW q \in Seq(Entries)
    PROVE  /\ Chained(p, q) \in Seq(Entries) /\ Len(Chained(p, q)) = Len(p) + Len(q)
           /\ \A j \in 1 .. Len(p) + Len(q) : Chained(p, q)[j] = IF j <= Len(p) THEN p[j] ELSE q[j - Len(p)]
BY ConcatProperties DEF Chained

LEMMA SoFarIs ==
    ASSUME Text!RunInv, tprogram = "filter", NEW i \in 1 .. Len(toperands),
           NEW n \in 0 .. Len(Text!StreamOf(toperands[i]))
    PROVE  SoFar(i, n) \in Seq(Entries)
<1>1. i \in {1, 2} /\ Text!Has(i, n) \in Seq(Entries)
  <2>1. Len(toperands) \in {1, 2} /\ Text!Has(i, n) \in Seq(Entries)
    BY OperandsAre
  <2> QED
    BY <2>1
<1>2. Text!HasAll(1) \in Seq(Entries)
  BY OperandsAre
<1> QED
  BY <1>1, <1>2, Concatenated DEF SoFar

\* Appending to the second of two sequences.
LEMMA AppendLast ==
    ASSUME NEW p \in Seq(Entries), NEW q \in Seq(Entries), NEW e \in Entries,
           NEW r \in Seq(Entries), r = Append(q, e)
    PROVE  Chained(p, r) = Append(Chained(p, q), e)
<1>1. PICK a \in Seq(Entries) : a = Chained(p, r)
  BY Concatenated
<1>2. PICK b \in Seq(Entries) : b = Chained(p, q)
  BY Concatenated
<1>3. PICK c \in Seq(Entries) : c = Append(b, e)
  BY AppendProperties
<1>4. Len(r) = Len(q) + 1 /\ Len(b) = Len(p) + Len(q) /\ Len(a) = Len(p) + Len(r) /\ Len(c) = Len(b) + 1
  BY <1>1, <1>2, <1>3, AppendProperties DEF Chained
<1>5. ASSUME NEW j \in 1 .. Len(a) PROVE a[j] = c[j]
  <2>1. a[j] = IF j <= Len(p) THEN p[j] ELSE r[j - Len(p)]
    BY <1>1, <1>4 DEF Chained
  <2>2. CASE j <= Len(b)
    <3>1. c[j] = b[j] /\ b[j] = IF j <= Len(p) THEN p[j] ELSE q[j - Len(p)]
      BY <1>2, <1>3, <1>4, <2>2, AppendProperties DEF Chained
    <3>2. j > Len(p) => r[j - Len(p)] = q[j - Len(p)]
      BY <1>4, <2>2, AppendProperties
    <3> QED
      BY <1>4, <2>1, <3>1, <3>2
  <2>3. CASE j > Len(b)
    <3>1. j = Len(b) + 1 /\ j > Len(p) /\ j - Len(p) = Len(q) + 1
      <4>1. Len(p) \in Nat /\ Len(q) \in Nat /\ Len(a) = Len(p) + Len(q) + 1
        BY <1>4
      <4>2. PICK x \in Nat, y \in Nat : x = Len(p) /\ y = Len(q)
        BY <4>1
      <4>3. Len(b) = x + y /\ j \in 1 .. x + y + 1 /\ j > x + y
        BY <1>4, <2>3, <4>1, <4>2
      <4>4. j = x + y + 1 /\ j > x /\ j - x = y + 1
        BY <4>3
      <4> QED
        BY <4>2, <4>3, <4>4
    <3>2. c[j] = e /\ r[Len(q) + 1] = e
      BY <1>3, <3>1, AppendProperties
    <3> QED
      BY <2>1, <3>1, <3>2
  <2> QED
    BY <1>4, <2>2, <2>3
<1>6. a = c
  BY <1>4, <1>5, SameEntries
<1> QED
  BY <1>1, <1>2, <1>3, <1>6

\* filter writes every line it reads; what comes from standard input the second
\* time has been written already.
LEMMA SoFarMore ==
    ASSUME Text!RunInv, tprogram = "filter", NEW i \in 1 .. Len(toperands),
           toperands[i] # "gone", ~ Again(i),
           NEW n \in Nat, n < Len(Text!StreamOf(toperands[i]))
    PROVE  SoFar(i, n + 1) = Append(SoFar(i, n), <<toperands[i], n + 1>>)
<1>1. i \in {1, 2} /\ toperands[i] \in {"-", "a"}
  BY OperandsAre
<1>2. PICK s \in Seq(Text!Line) : s = Text!StreamOf(toperands[i])
  BY OperandsAre
<1>3. PICK w : w = Text!Wanted(toperands[i], s)
  OBVIOUS
<1>4. n + 1 \in 0 .. Len(s) /\ n \in 0 .. Len(s) /\ n + 1 # 0 /\ n + 1 - 1 = n /\ n + 1 \in Nat
  BY <1>2
<1>5. Wants(w, toperands[i], s, Len(s)) /\ \A m \in 0 .. Len(s) : w[m] \in Seq(Entries)
  BY <1>1, <1>3, WantedIs
<1>6. w[n + 1] = Taken(toperands[i], s, n + 1, w[n])
  BY <1>4, <1>5 DEF Wants
<1>7. w[n + 1] = Append(w[n], <<toperands[i], n + 1>>)
  BY <1>6 DEF Taken, Text!Good, Text!Fatal
<1>8. Text!Has(i, n) = w[n] /\ Text!Has(i, n + 1) = w[n + 1]
  BY <1>2, <1>3 DEF Text!Has, Again
<1>9. CASE i = 1
  BY <1>7, <1>8, <1>9 DEF SoFar
<1>10. CASE i = 2
  <2>1. PICK p \in Seq(Entries) : p = Text!HasAll(1)
    BY OperandsAre
  <2>2. PICK e \in Entries : e = <<toperands[i], n + 1>>
    BY <1>1, <1>4 DEF Entries
  <2>3. w[n] \in Seq(Entries) /\ w[n + 1] \in Seq(Entries) /\ w[n + 1] = Append(w[n], e)
    BY <1>4, <1>5, <1>7, <2>2
  <2>4. Chained(p, w[n + 1]) = Append(Chained(p, w[n]), e)
    BY <2>3, AppendLast
  <2> QED
    <3>1. SoFar(i, n) = Chained(p, w[n]) /\ SoFar(i, n + 1) = Chained(p, w[n + 1])
      BY <1>8, <1>10, <2>1 DEF SoFar
    <3> QED
      BY <2>2, <2>4, <3>1
<1> QED
  BY <1>1, <1>9, <1>10

LEMMA SoFarGrows ==
    ASSUME Text!RunInv, tprogram = "filter", NEW i \in 1 .. Len(toperands),
           NEW n \in 0 .. Len(Text!StreamOf(toperands[i])),
           NEW m \in n .. Len(Text!StreamOf(toperands[i]))
    PROVE  Begins(SoFar(i, n), SoFar(i, m))
<1>1. i \in {1, 2} /\ toperands[i] \in {"-", "a", "gone"}
  <2>1. Len(toperands) \in {1, 2} /\ toperands[i] \in {"-", "a", "gone"}
    BY OperandsAre
  <2> QED
    BY <2>1
<1>2. PICK s \in Seq(Text!Line) : s = Text!StreamOf(toperands[i])
  BY OperandsAre
<1>3. n \in 0 .. Len(s) /\ m \in n .. Len(s) /\ m \in 0 .. Len(s)
  BY <1>2
<1>4. PICK a \in Seq(Entries) : a = Text!Has(i, n)
  BY <1>2, <1>3, OperandsAre
<1>5. PICK b \in Seq(Entries) : b = Text!Has(i, m)
  BY <1>2, <1>3, OperandsAre
<1>6. Begins(a, b)
  <2>1. CASE toperands[i] = "gone" \/ Again(i)
    <3>1. a = <<>> /\ b = <<>>
      BY <1>4, <1>5, <2>1 DEF Text!Has, Again
    <3> QED
      BY <3>1 DEF Begins
  <2>2. CASE toperands[i] # "gone" /\ ~ Again(i)
    <3>1. toperands[i] \in {"-", "a"}
      BY <1>1, <2>2
    <3>2. a = Text!Wanted(toperands[i], s)[n] /\ b = Text!Wanted(toperands[i], s)[m]
      BY <1>2, <1>4, <1>5, <2>2 DEF Text!Has, Again
    <3> QED
      BY <1>3, <3>1, <3>2, WantedGrows
  <2> QED
    BY <2>1, <2>2
<1>7. PICK p \in Seq(Entries) : p = Text!HasAll(1)
  BY OperandsAre
<1>8. CASE i = 1
  BY <1>4, <1>5, <1>6, <1>8 DEF SoFar
<1>9. CASE i = 2
  <2>1. PICK c \in Seq(Entries) : c = Chained(p, a)
    BY Concatenated
  <2>2. PICK d \in Seq(Entries) : d = Chained(p, b)
    BY Concatenated
  <2>3. /\ Len(c) = Len(p) + Len(a) /\ Len(d) = Len(p) + Len(b)
        /\ \A j \in 1 .. Len(c) : c[j] = IF j <= Len(p) THEN p[j] ELSE a[j - Len(p)]
        /\ \A j \in 1 .. Len(d) : d[j] = IF j <= Len(p) THEN p[j] ELSE b[j - Len(p)]
    BY <2>1, <2>2 DEF Chained
  <2>4. Len(c) <= Len(d)
    BY <1>6, <2>3 DEF Begins
  <2>5. ASSUME NEW j \in 1 .. Len(c) PROVE d[j] = c[j]
    <3>1. j > Len(p) => j - Len(p) \in 1 .. Len(a)
      BY <2>3
    <3>2. j > Len(p) => b[j - Len(p)] = a[j - Len(p)]
      BY <1>6, <3>1 DEF Begins
    <3>3. j \in 1 .. Len(d)
      BY <2>4
    <3> QED
      <4>1. d[j] = IF j <= Len(p) THEN p[j] ELSE b[j - Len(p)]
        BY <2>3, <3>3
      <4>2. c[j] = IF j <= Len(p) THEN p[j] ELSE a[j - Len(p)]
        BY <2>3
      <4> QED
        BY <3>2, <4>1, <4>2
  <2>6. Begins(c, d)
    BY <2>4, <2>5 DEF Begins
  <2> QED
    BY <1>4, <1>5, <1>7, <1>9, <2>1, <2>2, <2>6 DEF SoFar
<1> QED
  BY <1>1, <1>8, <1>9

\* All that is wanted of the operands up to the i-th.
ReadAll(i) == SoFar(i, Len(Text!StreamOf(toperands[i])))

\* The parts of FilterInv.
FilterFailed == tfailed => tstatus = "failure"
FilterFresh ==
    \/ tk = 1 /\ tpc = "operand"
    \/ toperands[1] # "-" /\ (tk = 1 \/ (tk = 2 /\ tpc = "operand"))
    => tstdinPos = 0
FilterReads ==
    ~ tfailed /\ tpc \in {"read", "end"} =>
        /\ tout = Text!Cut(SoFar(tk, tpos), tmaximum)
        /\ tpc = "end" => Text!LimitReached
        /\ toperands[tk] = "-" => tstdinPos = tpos
        /\ Again(tk) => Text!Exhausted(tpos)
FilterTurns ==
    ~ tfailed /\ tpc = "next" =>
        /\ tout = Text!Cut(ReadAll(tk), tmaximum)
        /\ toperands = <<"-", "-">> /\ tk = 1 => Text!Exhausted(tstdinPos)
FilterOpens ==
    ~ tfailed /\ tpc = "operand" =>
        /\ tout = IF tk = 1 THEN <<>>
                  ELSE IF tk = 2 THEN Text!Cut(Text!HasAll(1), tmaximum) ELSE Text!Expected
        /\ Again(tk) => Text!Exhausted(tstdinPos)
FilterEnds ==
    ~ tfailed /\ tpc \in {"cleanup", "done"} /\ tstatus # "usage" => tout = Text!Expected

FilterParts ==
    FilterFailed /\ FilterFresh /\ FilterReads /\ FilterTurns /\ FilterOpens /\ FilterEnds

LEMMA FilterIs == Text!RunInv /\ tprogram = "filter" => (Text!FilterInv <=> FilterParts)
<1> SUFFICES ASSUME Text!RunInv, tprogram = "filter" PROVE Text!FilterInv <=> FilterParts
  OBVIOUS
<1>1. SoFar(tk, tpos) = IF tk = 1 THEN Text!Has(1, tpos) ELSE Text!HasAll(1) \o Text!Has(2, tpos)
  BY DEF SoFar, Chained
<1>2. tpc = "next" => tk \in {1, 2}
  <2>1. Len(toperands) \in {1, 2}
    BY DEF Text!RunInv, Text!TwoOperands
  <2>2. tpc = "next" => tk \in 1 .. Len(toperands)
    BY DEF Text!RunInv
  <2> QED
    BY <2>1, <2>2
<1>3. tk \in {1, 2} =>
         ReadAll(tk) = IF tk = 1 THEN Text!HasAll(1) ELSE Text!HasAll(1) \o Text!HasAll(2)
  BY DEF ReadAll, SoFar, Chained, Text!HasAll
<1> QED
  BY <1>1, <1>2, <1>3 DEF Text!FilterInv, FilterParts, FilterFailed, FilterFresh, FilterReads,
    FilterTurns, FilterOpens, FilterEnds, Again

\* What filter should have written, in terms of what it has read.
LEMMA FilterExpected ==
    ASSUME Text!RunInv, tprogram = "filter"
    PROVE  /\ Text!Expected = Text!Cut(ReadAll(Len(toperands)), tmaximum)
           /\ Len(toperands) = 1 => ReadAll(1) = Text!HasAll(1)
           /\ ReadAll(1) = Text!HasAll(1)
           /\ Len(toperands) \in {1, 2}
<1>1. Len(toperands) \in {1, 2}
  BY DEF Text!RunInv, Text!TwoOperands
<1>2. Text!MostWanted = tmaximum
  BY DEF Text!MostWanted
<1>3. ReadAll(1) = Text!HasAll(1)
  BY DEF ReadAll, SoFar, Text!HasAll
<1>4. Len(toperands) = 2 => ReadAll(2) = Text!HasAll(1) \o Text!HasAll(2)
  BY DEF ReadAll, SoFar, Chained, Text!HasAll
<1> QED
  BY <1>1, <1>2, <1>3, <1>4 DEF Text!Expected

\* The state functions of FilterParts in a step that leaves the input alone.
LEMMA SameFilter ==
    ASSUME UNCHANGED <<tprogram, tstdin, tfile, toperands>>
    PROVE  /\ \A i, n : SoFar(i, n)' = SoFar(i, n)
           /\ \A i : ReadAll(i)' = ReadAll(i)
           /\ \A i : Again(i)' <=> Again(i)
           /\ tmaximum' = tmaximum => Text!Expected' = Text!Expected
           /\ Text!HasAll(1)' = Text!HasAll(1)
<1>1. \A i, n : SoFar(i, n)' = SoFar(i, n)
  BY SameHas DEF SoFar, Chained
<1>2. \A i : ReadAll(i)' = ReadAll(i)
  BY <1>1, SameHas DEF ReadAll
<1> QED
  BY <1>1, <1>2, SameHas DEF Again

\* A line read by filter.
LEMMA FilterReadsLine ==
    ASSUME Text!RunInv, tprogram = "filter", FilterReads, ~ tfailed, Text!ReadLine
    PROVE  /\ tout' = Text!Cut(SoFar(tk, tpos + 1), tmaximum)
           /\ tpc' = IF Text!LimitReached THEN "end" ELSE "read"
           /\ Text!LimitReached => tout' = tout
           /\ Again(tk) => Text!LimitReached
<1>1. /\ tpc = "read" /\ tpos < Len(Text!Stream) /\ tk \in 1 .. Len(toperands)
      /\ toperands[tk] # "gone" /\ tpos \in Nat
  BY DEF Text!ReadLine, Text!RunInv
<1>2. Text!Stream = Text!StreamOf(toperands[tk]) /\ Text!Stream \in Seq(Text!Line)
  BY <1>1, OperandsAre DEF Text!Stream, Text!StreamOf
<1>3. tpos + 1 \in 1 .. Len(Text!Stream) /\ tpos \in 0 .. Len(Text!Stream) /\ tpos + 1 \in tpos .. Len(Text!Stream)
      /\ tpos + 1 \in 0 .. Len(Text!Stream)
  BY <1>1, <1>2
<1>4. Text!Verdict(Text!Stream[tpos + 1]) = "accept"
  <2>1. Text!Stream[tpos + 1] \in Text!Line
    BY <1>2, <1>3
  <2> QED
    BY <2>1 DEF Text!Verdict, Text!Ignored, Text!Accepted, Text!Line
<1>5. tout = Text!Cut(SoFar(tk, tpos), tmaximum) /\ (Again(tk) => Text!Exhausted(tpos))
  BY <1>1 DEF FilterReads
<1>6. tpc' = IF Text!LimitReached THEN "end" ELSE "read"
  BY <1>4 DEF Text!ReadLine
<1>7. tout' = IF Text!LimitReached THEN tout ELSE Append(tout, <<toperands[tk], tpos + 1>>)
  BY <1>4 DEF Text!ReadLine
<1>8. Again(tk) => Text!LimitReached
  BY <1>1, <1>2, <1>5 DEF Again, Text!Exhausted, Text!Stream
<1>9. PICK p \in Seq(Entries) : p = SoFar(tk, tpos)
  BY <1>1, <1>2, <1>3, SoFarIs
<1>10. PICK q \in Seq(Entries) : q = SoFar(tk, tpos + 1)
  BY <1>1, <1>2, <1>3, SoFarIs
<1>11. tmaximum \in Nat /\ tcount = Len(tout)
  BY DEF Text!RunInv
<1>12. CASE Text!LimitReached
  <2>1. Begins(p, q)
    BY <1>1, <1>2, <1>3, <1>9, <1>10, SoFarGrows
  <2>2. tmaximum > 0 /\ Len(Text!Cut(p, tmaximum)) >= tmaximum
    BY <1>5, <1>9, <1>11, <1>12 DEF Text!LimitReached
  <2>3. Text!Cut(q, tmaximum) = Text!Cut(p, tmaximum)
    BY <1>11, <2>1, <2>2, CutAtLimit
  <2> QED
    BY <1>5, <1>6, <1>7, <1>9, <1>10, <1>12, <2>3
<1>13. CASE ~ Text!LimitReached
  <2>1. q = Append(p, <<toperands[tk], tpos + 1>>)
    BY <1>1, <1>2, <1>8, <1>9, <1>10, <1>13, SoFarMore
  <2>2. PICK e \in Entries : e = <<toperands[tk], tpos + 1>>
    <3>1. toperands[tk] \in {"-", "a"} /\ tpos + 1 \in Nat
      BY <1>1, OperandsAre
    <3> QED
      BY <3>1 DEF Entries
  <2>3. ~ (tmaximum > 0 /\ Len(Text!Cut(p, tmaximum)) >= tmaximum)
    BY <1>5, <1>9, <1>11, <1>13 DEF Text!LimitReached
  <2>4. Text!Cut(p, tmaximum) = p /\ Text!Cut(Append(p, e), tmaximum) = Append(p, e)
    BY <1>11, <2>3, CutBelow
  <2> QED
    BY <1>5, <1>6, <1>7, <1>8, <1>9, <1>10, <1>13, <2>1, <2>2, <2>4
<1> QED
  BY <1>12, <1>13

\* The end of an operand, or of what filter wants of it.
LEMMA FilterTurnsOver ==
    ASSUME Text!RunInv, tprogram = "filter", FilterReads, ~ tfailed, Text!EndOfInput
    PROVE  /\ tout = Text!Cut(ReadAll(tk), tmaximum)
           /\ toperands = <<"-", "-">> /\ tk = 1 => Text!Exhausted(tstdinPos)
<1>1. tpc \in {"read", "end"} /\ tk \in 1 .. Len(toperands) /\ toperands[tk] # "gone" /\ tpos \in Nat
      /\ tpos <= Len(Text!Stream) /\ (tpc = "read" => tpos = Len(Text!Stream))
  BY DEF Text!EndOfInput, Text!RunInv, Text!Full
<1>2. Text!Stream = Text!StreamOf(toperands[tk]) /\ Text!Stream \in Seq(Text!Line)
  BY <1>1, OperandsAre DEF Text!Stream, Text!StreamOf
<1>3. /\ tout = Text!Cut(SoFar(tk, tpos), tmaximum)
      /\ tpc = "end" => Text!LimitReached
      /\ toperands[tk] = "-" => tstdinPos = tpos
  BY <1>1 DEF FilterReads
<1>4. CASE tpc = "read"
  BY <1>1, <1>2, <1>3, <1>4 DEF ReadAll, Text!Exhausted, Text!StreamOf
<1>5. CASE tpc = "end"
  <2>1. tpos \in 0 .. Len(Text!Stream) /\ Len(Text!Stream) \in tpos .. Len(Text!Stream)
        /\ Len(Text!Stream) \in 0 .. Len(Text!Stream)
    BY <1>1, <1>2
  <2>2. PICK p \in Seq(Entries) : p = SoFar(tk, tpos)
    BY <1>1, <1>2, <2>1, SoFarIs
  <2>3. PICK q \in Seq(Entries) : q = ReadAll(tk)
    BY <1>1, <1>2, <2>1, SoFarIs DEF ReadAll
  <2>4. Begins(p, q)
    BY <1>1, <1>2, <2>1, <2>2, <2>3, SoFarGrows DEF ReadAll
  <2>5. tmaximum \in Nat /\ tmaximum > 0 /\ Len(Text!Cut(p, tmaximum)) >= tmaximum
    BY <1>3, <1>5, <2>2 DEF Text!RunInv, Text!LimitReached
  <2>6. Text!Cut(q, tmaximum) = Text!Cut(p, tmaximum)
    BY <2>4, <2>5, CutAtLimit
  <2> QED
    BY <1>3, <1>5, <2>2, <2>3, <2>6 DEF Text!Exhausted
<1> QED
  BY <1>1, <1>4, <1>5

LEMMA FilterStep ==
    ASSUME Text!RunInv, Text!RunInv', tprogram = "filter", FilterParts, Text!Next
    PROVE  FilterParts'
<1> USE DEF Text!input, Text!work, Text!outcome
<1>1. UNCHANGED <<tprogram, tstdin, tfile, toperands>>
  BY DEF Text!Next, Text!Configure, Text!Acquire, Text!AcquireFails, Text!Operand, Text!ReadLine,
    Text!WriteFails, Text!EndOfInput, Text!ReadFails, Text!NextOperand, Text!Cleanup
<1>2. /\ FilterFailed /\ FilterFresh /\ FilterReads /\ FilterTurns /\ FilterOpens /\ FilterEnds
      /\ tk \in Nat /\ tk >= 1
  BY DEF FilterParts, Text!RunInv
<1>3. /\ \A i, n : SoFar(i, n)' = SoFar(i, n)
      /\ \A i : ReadAll(i)' = ReadAll(i)
      /\ \A i : Again(i)' <=> Again(i)
      /\ tmaximum' = tmaximum => Text!Expected' = Text!Expected
      /\ Text!HasAll(1)' = Text!HasAll(1)
  BY <1>1, SameFilter
<1>4. CASE Text!Configure
  <2>1. /\ (tpc' = "done" /\ tstatus' = "usage") \/ tpc' = "acquire"
        /\ ~ tfailed /\ ~ tfailed' /\ tstdinPos' = 0
    BY <1>4 DEF Text!Configure, Text!RunInv
  <2> QED
    BY <2>1 DEF FilterParts, FilterFailed, FilterFresh, FilterReads, FilterTurns, FilterOpens, FilterEnds
<1>5. CASE Text!Acquire
  <2>1. tpc' \in {"operand", "acquire"} /\ ~ tfailed' /\ tstdinPos' = 0 /\ tk' = 1 /\ tout' = <<>>
    BY <1>5 DEF Text!Acquire, Text!RunInv
  <2>2. ~ Again(1)
    BY DEF Again
  <2> QED
    BY <1>3, <2>1, <2>2
    DEF FilterParts, FilterFailed, FilterFresh, FilterReads, FilterTurns, FilterOpens, FilterEnds
<1>6. CASE Text!AcquireFails
  <2>1. tfailed' /\ tstatus' = "failure" /\ tstdinPos' = 0
    BY <1>6 DEF Text!AcquireFails, Text!RunInv
  <2> QED
    BY <2>1
    DEF FilterParts, FilterFailed, FilterFresh, FilterReads, FilterTurns, FilterOpens, FilterEnds
<1>7. CASE Text!Operand
  <2>1. /\ tpc = "operand" /\ tfailed' = tfailed /\ tout' = tout /\ tstdinPos' = tstdinPos
        /\ tmaximum' = tmaximum /\ tcount' = tcount /\ tk \in 1 .. Len(toperands) + 1
    BY <1>7 DEF Text!Operand, Text!RunInv
  <2>2. ~ tfailed => /\ tout = IF tk = 1 THEN <<>>
                              ELSE IF tk = 2 THEN Text!Cut(Text!HasAll(1), tmaximum) ELSE Text!Expected
                     /\ Again(tk) => Text!Exhausted(tstdinPos)
    BY <1>2, <2>1 DEF FilterOpens
  <2>3. CASE tk > Len(toperands)
    <3>1. tpc' = "cleanup" /\ tk' = tk /\ tstatus' = tstatus
      BY <1>7, <2>3 DEF Text!Operand
    <3>2. Len(toperands) \in {1, 2} /\ (Len(toperands) = 1 => Text!Expected = Text!Cut(Text!HasAll(1), tmaximum))
      BY FilterExpected
    <3>3. tk = Len(toperands) + 1 /\ Len(toperands) \in Nat
      BY <2>1, <2>3, <3>2
    <3>4. ~ tfailed => tout = Text!Expected
      BY <2>2, <3>2, <3>3
    <3>5. FilterFresh'
      <4>1. tk # 1
        BY <3>2, <3>3
      <4> QED
        BY <1>1, <2>1, <3>1, <4>1 DEF FilterFresh
    <3> QED
      BY <1>2, <1>3, <2>1, <3>1, <3>4, <3>5
      DEF FilterParts, FilterFailed, FilterReads, FilterTurns, FilterOpens, FilterEnds
  <2>4. CASE tk <= Len(toperands) /\ toperands[tk] = "gone"
    <3>1. tk' = tk + 1 /\ tstatus' = "failure" /\ tpc' = "operand"
      BY <1>2, <1>7, <2>4 DEF Text!Operand
    <3>2. tk = 1 /\ toperands = <<"gone", "a">>
      <4>1. toperands \in {<<"-">>, <<"-", "-">>, <<"gone", "a">>, <<"a", "-">>}
        BY DEF Text!RunInv, Text!TwoOperands
      <4> QED
        BY <2>1, <2>4, <4>1
    <3>3. Text!HasAll(1) = <<>>
      BY <3>2 DEF Text!HasAll, Text!Has
    <3>4. Text!Cut(Text!HasAll(1), tmaximum) = <<>>
      BY <3>3 DEF Text!Cut, Text!RunInv
    <3>5. ~ Again(2)
      BY <3>2 DEF Again
    <3>6. tstdinPos = 0
      BY <1>2, <2>1, <3>2 DEF FilterFresh
    <3>7. tk' = 2
      BY <3>1, <3>2
    <3>8. ~ tfailed' => tout' = Text!Cut(Text!HasAll(1), tmaximum')
      BY <2>1, <2>2, <3>2, <3>4
    <3> QED
      BY <1>3, <2>1, <3>1, <3>5, <3>6, <3>7, <3>8
      DEF FilterParts, FilterFailed, FilterFresh, FilterReads, FilterTurns, FilterOpens, FilterEnds
  <2>5. CASE tk <= Len(toperands) /\ toperands[tk] # "gone"
    <3>1. /\ tk' = tk /\ tpc' = "read" /\ tstatus' = tstatus
          /\ tpos' = IF toperands[tk] = "-" THEN tstdinPos ELSE 0
      BY <1>2, <1>7, <2>5 DEF Text!Operand
    <3>2. Len(toperands) \in {1, 2} /\ tk \in {1, 2} /\ tk \in 1 .. Len(toperands)
      <4>1. Len(toperands) \in {1, 2}
        BY FilterExpected
      <4> QED
        BY <2>1, <2>5, <4>1
    <3>3. ~ tfailed => tout = Text!Cut(SoFar(tk, tpos'), tmaximum)
      <4>1. ASSUME ~ Again(tk), ~ tfailed PROVE tpos' = 0 /\ Text!Has(tk, 0) = <<>>
        <5>1. toperands[tk] = "-" => tstdinPos = 0
          <6>1. toperands \in {<<"-">>, <<"-", "-">>, <<"gone", "a">>, <<"a", "-">>}
            BY DEF Text!RunInv, Text!TwoOperands
          <6> QED
            BY <1>2, <2>1, <3>2, <4>1, <6>1 DEF FilterFresh, Again
        <5>2. toperands[tk] \in {"-", "a"} /\ Text!StreamOf(toperands[tk]) \in Seq(Text!Line)
          BY <2>5, <3>2, OperandsAre
        <5>3. Wants(Text!Wanted(toperands[tk], Text!StreamOf(toperands[tk])), toperands[tk],
                    Text!StreamOf(toperands[tk]), Len(Text!StreamOf(toperands[tk])))
          BY <5>2, WantedIs
        <5>4. 0 \in 0 .. Len(Text!StreamOf(toperands[tk]))
          BY <5>2
        <5>5. Text!Wanted(toperands[tk], Text!StreamOf(toperands[tk]))[0] = <<>>
          BY <5>3, <5>4 DEF Wants
        <5> QED
          BY <2>5, <3>1, <4>1, <5>1, <5>5 DEF Text!Has, Again
      <4>2. ASSUME Again(tk) PROVE Text!Has(tk, tpos') = <<>>
        BY <4>2 DEF Text!Has, Again
      <4>3. ~ tfailed => Text!Has(tk, tpos') = <<>>
        BY <4>1, <4>2
      <4>4. CASE tk = 1
        <5>1. ~ tfailed => SoFar(1, tpos') = <<>> /\ tout = <<>>
          BY <2>2, <4>3, <4>4 DEF SoFar
        <5>2. Text!Cut(<<>>, tmaximum) = <<>>
          BY DEF Text!Cut, Text!RunInv
        <5> QED
          BY <4>4, <5>1, <5>2
      <4>5. CASE tk = 2
        <5>1. Text!HasAll(1) \in Seq(Entries)
          BY <3>2, OperandsAre
        <5>2. Chained(Text!HasAll(1), <<>>) = Text!HasAll(1)
          BY <5>1 DEF Chained
        <5>3. ~ tfailed => SoFar(2, tpos') = Text!HasAll(1)
          BY <4>3, <4>5, <5>2 DEF SoFar
        <5> QED
          BY <2>2, <4>5, <5>3
      <4> QED
        BY <3>2, <4>4, <4>5
    <3>4. ~ tfailed /\ Again(tk) => Text!Exhausted(tpos')
      BY <2>2, <3>1 DEF Again
    <3>5. \A n : Text!Exhausted(n) => (n = Len(tstdin) \/ Text!LimitReached)
      BY DEF Text!Exhausted
    <3>6. Text!LimitReached' <=> Text!LimitReached
      BY <2>1 DEF Text!LimitReached
    <3>7. FilterReads'
      BY <1>1, <1>3, <2>1, <3>1, <3>3, <3>4, <3>5, <3>6 DEF FilterReads, Text!Exhausted
    <3>8. FilterFresh'
      BY <1>1, <1>2, <2>1, <3>1 DEF FilterFresh
    <3> QED
      BY <1>2, <2>1, <3>1, <3>7, <3>8
      DEF FilterParts, FilterFailed, FilterTurns, FilterOpens, FilterEnds
  <2> QED
    BY <1>2, <2>1, <2>3, <2>4, <2>5
<1>8. CASE Text!ReadLine
  <2>1. /\ tpc = "read" /\ tpos' = tpos + 1 /\ tfailed' = tfailed /\ tk' = tk /\ tmaximum' = tmaximum
        /\ tstdinPos' = IF toperands[tk] = "-" THEN tpos + 1 ELSE tstdinPos
        /\ tcount' = Len(tout') /\ tcount = Len(tout)
    BY <1>8 DEF Text!ReadLine, Text!Take, Text!RunInv
  <2>2. FilterFresh'
    <3>1. tpc' # "operand"
      BY <1>8 DEF Text!ReadLine
    <3> QED
      BY <1>1, <1>2, <2>1, <3>1 DEF FilterFresh
  <2>3. CASE tfailed
    <3>1. tstatus' = "failure"
      <4>1. tstatus = "failure"
        BY <1>2, <2>3 DEF FilterFailed
      <4>2. tpc' # "cleanup"
        <5>1. tpos \in Nat /\ Text!Stream \in Seq(Text!Line) /\ tpos + 1 \in 1 .. Len(Text!Stream)
          BY <1>8 DEF Text!ReadLine, Text!RunInv, Text!Stream
        <5>2. Text!Stream[tpos + 1] \in Text!Line
          BY <5>1
        <5>3. Text!Verdict(Text!Stream[tpos + 1]) \in {"accept", "reject", "ignore"}
          BY <5>2, VerdictIs
        <5> QED
          BY <1>8, <5>3 DEF Text!ReadLine
      <4> QED
        BY <1>8, <4>1, <4>2 DEF Text!ReadLine
    <3> QED
      BY <2>1, <2>2, <2>3, <3>1
      DEF FilterParts, FilterFailed, FilterReads, FilterTurns, FilterOpens, FilterEnds
  <2>4. CASE ~ tfailed
    <3>1. /\ tout' = Text!Cut(SoFar(tk, tpos + 1), tmaximum)
          /\ tpc' = IF Text!LimitReached THEN "end" ELSE "read"
          /\ Text!LimitReached => tout' = tout
          /\ Again(tk) => Text!LimitReached
      BY <1>2, <1>8, <2>4, FilterReadsLine
    <3>2. Text!LimitReached => Text!LimitReached'
      BY <2>1, <3>1 DEF Text!LimitReached
    <3>3. FilterReads'
      BY <1>1, <1>3, <2>1, <3>1, <3>2 DEF FilterReads, Text!Exhausted
    <3> QED
      BY <2>1, <2>2, <2>4, <3>1, <3>3
      DEF FilterParts, FilterFailed, FilterTurns, FilterOpens, FilterEnds
  <2> QED
    BY <2>3, <2>4
<1>9. CASE Text!WriteFails
  <2>1. /\ tpc' = "next" /\ tfailed' /\ tstatus' = "failure" /\ tk' = tk
        /\ tstdinPos' = IF toperands[tk] = "-" THEN tpos + 1 ELSE tstdinPos
    BY <1>9 DEF Text!WriteFails, Text!Take
  <2> QED
    BY <1>1, <1>2, <2>1
    DEF FilterParts, FilterFailed, FilterFresh, FilterReads, FilterTurns, FilterOpens, FilterEnds
<1>10. CASE Text!EndOfInput
  <2>1. /\ tpc' = "next" /\ tfailed' = tfailed /\ tstatus' = tstatus /\ tk' = tk
        /\ tstdinPos' = tstdinPos /\ tout' = tout /\ tcount' = tcount /\ tmaximum' = tmaximum
    BY <1>10 DEF Text!EndOfInput
  <2>2. ~ tfailed => /\ tout = Text!Cut(ReadAll(tk), tmaximum)
                     /\ toperands = <<"-", "-">> /\ tk = 1 => Text!Exhausted(tstdinPos)
    BY <1>2, <1>10, FilterTurnsOver
  <2>3. \A n : Text!Exhausted(n)' <=> Text!Exhausted(n)
    BY <1>1, <2>1 DEF Text!Exhausted, Text!LimitReached
  <2>4. FilterTurns'
    BY <1>1, <1>3, <2>1, <2>2, <2>3 DEF FilterTurns, Text!Exhausted, Text!LimitReached
  <2>5. FilterFresh'
    BY <1>1, <1>2, <2>1 DEF FilterFresh
  <2> QED
    BY <1>2, <2>1, <2>4, <2>5
    DEF FilterParts, FilterFailed, FilterReads, FilterOpens, FilterEnds
<1>11. CASE Text!ReadFails
  <2>1. /\ tpc' = "next" /\ tfailed' /\ tstatus' = "failure" /\ tk' = tk /\ tstdinPos' = tstdinPos
    BY <1>11 DEF Text!ReadFails
  <2> QED
    BY <1>1, <1>2, <2>1
    DEF FilterParts, FilterFailed, FilterFresh, FilterReads, FilterTurns, FilterOpens, FilterEnds
<1>12. CASE Text!NextOperand
  <2>1. /\ tpc = "next" /\ tpc' = "operand" /\ tfailed' = tfailed /\ tstatus' = tstatus
        /\ tk' = tk + 1 /\ tk \in 1 .. Len(toperands)
        /\ tstdinPos' = tstdinPos /\ tout' = tout /\ tcount' = tcount /\ tmaximum' = tmaximum
    BY <1>12 DEF Text!NextOperand, Text!RunInv
  <2>2. /\ Len(toperands) \in {1, 2} /\ ReadAll(1) = Text!HasAll(1)
        /\ Text!Expected = Text!Cut(ReadAll(Len(toperands)), tmaximum)
    BY FilterExpected
  <2>3. ~ tfailed => /\ tout = Text!Cut(ReadAll(tk), tmaximum)
                     /\ toperands = <<"-", "-">> /\ tk = 1 => Text!Exhausted(tstdinPos)
    BY <1>2, <2>1 DEF FilterTurns
  <2>4. tk \in {1, 2} /\ (tk = 2 => Len(toperands) = 2)
    <3>1. PICK n \in {1, 2} : n = Len(toperands)
      BY <2>2
    <3>2. tk \in 1 .. n
      BY <2>1, <3>1
    <3> QED
      BY <3>1, <3>2
  <2>5. FilterOpens'
    <3>1. CASE tk = 1
      <4>1. tk' = 2
        BY <2>1, <3>1
      <4>2. ~ tfailed => tout' = Text!Cut(Text!HasAll(1), tmaximum)
        BY <2>1, <2>2, <2>3, <3>1
      <4>3. ~ tfailed /\ Again(2) => Text!Exhausted(tstdinPos)
        BY <2>3, <3>1 DEF Again
      <4> QED
        BY <1>1, <1>3, <2>1, <4>1, <4>2, <4>3 DEF FilterOpens, Text!Exhausted, Text!LimitReached
    <3>2. CASE tk = 2
      <4>1. tk' = 3
        BY <2>1, <3>2
      <4>2. ~ tfailed => tout' = Text!Expected
        BY <2>1, <2>2, <2>3, <2>4, <3>2
      <4>3. ~ Again(3)
        BY DEF Again
      <4> QED
        BY <1>3, <2>1, <4>1, <4>2, <4>3 DEF FilterOpens
    <3> QED
      BY <2>4, <3>1, <3>2
  <2>6. FilterFresh'
    <3>1. toperands[1] # "-" /\ tk' = 2 => tstdinPos = 0
      BY <1>2, <2>1, <2>4 DEF FilterFresh
    <3>2. tk' # 1
      BY <2>1, <2>4
    <3> QED
      BY <1>1, <2>1, <3>1, <3>2 DEF FilterFresh
  <2> QED
    BY <1>2, <2>1, <2>5, <2>6
    DEF FilterParts, FilterFailed, FilterReads, FilterTurns, FilterEnds
<1>13. CASE Text!Cleanup
  <2>1. /\ tpc = "cleanup" /\ tpc' = "done" /\ tk' = tk /\ tstdinPos' = tstdinPos /\ tout' = tout
        /\ tmaximum' = tmaximum /\ tstatus # "usage"
    BY <1>13 DEF Text!Cleanup, Text!RunInv
  <2>2. FilterFresh'
    BY <1>1, <1>2, <2>1 DEF FilterFresh
  <2>3. CASE UNCHANGED <<tstatus, tfailed>>
    BY <1>2, <1>3, <2>1, <2>2, <2>3
    DEF FilterParts, FilterFailed, FilterReads, FilterTurns, FilterOpens, FilterEnds
  <2>4. CASE tstatus' = Text!Worse(tstatus) /\ tfailed' = TRUE
    BY <2>1, <2>2, <2>4
    DEF FilterParts, FilterFailed, FilterReads, FilterTurns, FilterOpens, FilterEnds, Text!Worse
  <2> QED
    BY <1>13, <2>3, <2>4 DEF Text!Cleanup
<1> QED
  BY <1>4, <1>5, <1>6, <1>7, <1>8, <1>9, <1>10, <1>11, <1>12, <1>13 DEF Text!Next

LEMMA FilterNext ==
    Text!RunInv /\ Text!FilterInv /\ tprogram = "filter" /\ [Text!Next]_textVars /\ Text!RunInv'
        => Text!FilterInv'
<1> SUFFICES ASSUME Text!RunInv, Text!FilterInv, tprogram = "filter", [Text!Next]_textVars, Text!RunInv'
             PROVE  Text!FilterInv'
  OBVIOUS
<1>1. FilterParts
  BY FilterIs
<1>2. FilterParts' /\ (tprogram = "filter")'
  <2>1. CASE Text!Next
    <3>1. FilterParts'
      BY <1>1, <2>1, FilterStep
    <3>2. tprogram' = tprogram
      BY <2>1 DEF Text!Next, Text!Configure, Text!Acquire, Text!AcquireFails, Text!Operand, Text!ReadLine,
        Text!WriteFails, Text!EndOfInput, Text!ReadFails, Text!NextOperand, Text!Cleanup, Text!input
    <3> QED
      BY <3>1, <3>2
  <2>2. CASE UNCHANGED textVars
    <3>1. UNCHANGED <<tprogram, tstdin, tfile, toperands, tmaximum>>
      BY <2>2 DEF textVars
    <3> QED
      BY <1>1, <2>2, <3>1, SameFilter DEF textVars, FilterParts, FilterFailed, FilterFresh, FilterReads,
        FilterTurns, FilterOpens, FilterEnds, Text!Exhausted, Text!LimitReached
  <2> QED
    BY <2>1, <2>2
<1> QED
  BY <1>2, FilterIs, PTL

LEMMA StreamsAre ==
    ASSUME NEW texts \in SUBSET Text!Texts, NEW most \in Int
    PROVE  Text!Streams(texts, most) \in SUBSET Seq(Text!Line)
<1>1. PICK ended : ended = Text!Short(texts) \cup Text!Long(TRUE)
  OBVIOUS
<1>2. ended \in SUBSET Text!Line /\ Text!Long(FALSE) \in SUBSET Text!Line
  <2>1. ASSUME NEW t \in texts
        PROVE  [text |-> t, length |-> IF t = "blank" THEN 0 ELSE 1, newline |-> TRUE] \in Text!Line
    <3>1. t \in Text!Texts
      OBVIOUS
    <3> QED
      BY <3>1 DEF Text!Line
  <2>2. Text!Short(texts) \in SUBSET Text!Line
    BY <2>1 DEF Text!Short
  <2>3. ASSUME NEW b \in BOOLEAN, NEW n \in Int
        PROVE  [text |-> "number", length |-> n, newline |-> b] \in Text!Line
    BY DEF Text!Line, Text!Texts
  <2>4. LineMax - 2 \in Int /\ LineMax - 1 \in Int
    BY TextAssumption
  <2>5. Text!Long(TRUE) \in SUBSET Text!Line /\ Text!Long(FALSE) \in SUBSET Text!Line
    BY <2>3, <2>4 DEF Text!Long
  <2> QED
    BY <1>1, <2>2, <2>5
<1>3. ASSUME NEW i \in Nat, NEW s \in [1 .. i -> ended] PROVE s \in Seq(Text!Line)
  BY <1>2
<1> DEFINE full(n) == UNION {[1 .. i -> ended] : i \in 0 .. n}
<1>4. ASSUME NEW n \in Int, NEW s \in full(n) PROVE s \in Seq(Text!Line)
  BY <1>3
<1>5. Text!Streams(texts, most) =
         full(most) \cup UNION {{Append(s, l) : s \in full(most - 1)} : l \in Text!Long(FALSE)}
  BY <1>1 DEF Text!Streams
<1>6. ASSUME NEW s \in full(most - 1), NEW l \in Text!Long(FALSE)
      PROVE  Append(s, l) \in Seq(Text!Line)
  <2>1. most - 1 \in Int
    OBVIOUS
  <2>2. s \in Seq(Text!Line)
    <3> HIDE DEF full
    <3> QED
      BY <1>4, <2>1
  <2>3. l \in Text!Line
    BY <1>2
  <2> QED
    BY <2>2, <2>3, AppendProperties
<1> QED
  <2> HIDE DEF full
  <2>1. \A s \in full(most) : s \in Seq(Text!Line)
    BY <1>4
  <2>2. PICK first : first = full(most - 1)
    OBVIOUS
  <2> DEFINE more == UNION {{Append(t, l) : t \in first} : l \in Text!Long(FALSE)}
  <2>3. \A s \in more : \E t \in first, l \in Text!Long(FALSE) : s = Append(t, l)
    OBVIOUS
  <2>4. \A t \in first, l \in Text!Long(FALSE) : Append(t, l) \in Seq(Text!Line)
    BY <1>6, <2>2
  <2>5. \A s \in more : s \in Seq(Text!Line)
    <3> HIDE DEF more
    <3> QED
      BY <2>3, <2>4
  <2>6. Text!Streams(texts, most) = full(most) \cup more
    BY <1>5, <2>2
  <2> HIDE DEF more
  <2> QED
    BY <2>1, <2>5, <2>6

LEMMA TextOutputInit == Text!Init => Text!OutputInv
<1> SUFFICES ASSUME Text!Init PROVE Text!OutputInv
  OBVIOUS
<1>1. tstdin \in Seq(Text!Line)
  BY StreamsAre, TextAssumption DEF Text!Init, Text!Texts
<1>2. tfile \in Seq(Text!Line)
  <2>1. Text!Streams({"number"}, MaxLines - 1) \in SUBSET Seq(Text!Line)
    BY StreamsAre, TextAssumption DEF Text!Texts
  <2> QED
    BY <1>1, <2>1 DEF Text!Init
<1>3. Text!RunInv
  BY <1>1, <1>2 DEF Text!Init, Text!RunInv, Text!TwoOperands, Text!Stream
<1>4. CASE tprogram = "filter"
  BY <1>3, <1>4 DEF Text!OutputInv, Text!FilterInv, Text!Init
<1>5. CASE tprogram # "filter"
  <2>1. tk = 1 /\ tpos = 0 /\ tout = <<>> /\ tpc = "acquire" /\ ~ tfailed
    BY <1>5 DEF Text!Init
  <2>2. Text!Stream \in Seq(Text!Line) /\ \A n : Text!Has(1, n) = Text!Wanted(toperands[1], Text!Stream)[n]
    BY <1>3, <1>5, <2>1, OneOperand
  <2>3. 0 \in 0 .. Len(Text!Stream)
    BY <2>2
  <2>4. Text!Has(1, 0) = <<>>
    BY <1>3, <1>5, <2>1, <2>2, <2>3, OneOperand DEF Wants
  <2>5. SingleAt(0) /\ SingleRest
    BY <2>1, <2>3, <2>4, TextAssumption DEF SingleAt, SingleRest
  <2> QED
    BY <1>3, <1>5, <2>3, <2>5, SingleIs DEF Text!OutputInv
<1> QED
  BY <1>4, <1>5

LEMMA TextOutputNext == Text!OutputInv /\ [Text!Next]_textVars => Text!OutputInv'
<1> SUFFICES ASSUME Text!OutputInv, [Text!Next]_textVars PROVE Text!OutputInv'
  OBVIOUS
<1>1. Text!RunInv /\ Text!RunInv'
  BY RunNext DEF Text!OutputInv
<1>2. tprogram' = tprogram
  BY DEF Text!Next, Text!Configure, Text!Acquire, Text!AcquireFails, Text!Operand, Text!ReadLine,
    Text!WriteFails, Text!EndOfInput, Text!ReadFails, Text!NextOperand, Text!Cleanup, Text!input, textVars
<1>3. CASE tprogram = "filter"
  <2>1. Text!FilterInv'
    BY <1>1, <1>3, FilterNext DEF Text!OutputInv
  <2> QED
    BY <1>1, <1>2, <1>3, <2>1 DEF Text!OutputInv
<1>4. CASE tprogram # "filter"
  <2>1. Text!SingleInv'
    BY <1>1, <1>4, SingleNext DEF Text!OutputInv
  <2> QED
    BY <1>1, <1>2, <1>4, <2>1 DEF Text!OutputInv
<1> QED
  BY <1>3, <1>4

\* One that begins as another does is a prefix of it.
LEMMA BeginsIs ==
    ASSUME NEW p \in Seq(Entries), NEW q \in Seq(Entries), Begins(p, q)
    PROVE  Text!IsPrefix(p, q)
<1>1. Len(p) \in Nat /\ Len(p) <= Len(q) /\ Len(q) \in Nat
  BY DEF Begins
<1>2. PICK a \in Seq(Entries) : a = SubSeq(p, 1, Len(p))
  <2>1. \A i \in 1 .. Len(p) : p[i] \in Entries
    OBVIOUS
  <2>2. SubSeq(p, 1, Len(p)) \in Seq(Entries)
    BY <1>1, <2>1, SubSeqProperties
  <2> QED
    BY <2>2
<1>3. PICK b \in Seq(Entries) : b = SubSeq(q, 1, Len(p))
  <2>1. \A i \in 1 .. Len(p) : q[i] \in Entries
    BY <1>1
  <2>2. SubSeq(q, 1, Len(p)) \in Seq(Entries)
    BY <1>1, <2>1, SubSeqProperties
  <2> QED
    BY <2>2
<1>4. Len(a) = Len(p) /\ Len(b) = Len(p)
  BY <1>1, <1>2, <1>3
<1>5. \A j \in 1 .. Len(p) : a[j] = p[j] /\ b[j] = q[j]
  BY <1>1, <1>2, <1>3
<1>6. a = b
  BY <1>4, <1>5, SameEntries DEF Begins
<1> QED
  BY <1>1, <1>2, <1>3, <1>6 DEF Text!IsPrefix

LEMMA OutputIsPrefix ==
    ASSUME Text!RunInv, Text!SingleInv, tprogram # "filter"
    PROVE  Text!IsPrefix(tout, Text!Expected)
<1>1. PICK n \in 0 .. Len(Text!Stream) : SingleAt(n)
  BY SingleIs
<1>2. tk = 1 /\ (tprogram = "records" => Len(tout) <= Capacity) /\ tout = Text!Has(1, n)
  BY <1>1, SingleIs DEF SingleRest, SingleAt
<1>3. PICK s \in Seq(Text!Line) : s = Text!Stream
  BY <1>2, OneOperand
<1>4. n \in 0 .. Len(s) /\ Len(s) \in n .. Len(s) /\ Len(s) \in 0 .. Len(s)
  BY <1>3
<1>5. PICK p \in Seq(Entries) : p = Text!Has(1, n)
  BY <1>2, <1>3, <1>4, OneOperand
<1>6. PICK q \in Seq(Entries) : q = Text!Has(1, Len(s))
  BY <1>2, <1>3, <1>4, OneOperand
<1>7. Begins(p, q)
  BY <1>2, <1>3, <1>4, <1>5, <1>6, OneOperand, WantedGrows
<1>8. PICK m \in Nat : m = Text!MostWanted
  BY TextAssumption DEF Text!MostWanted, Text!RunInv
<1>9. m > 0 => Len(p) <= m
  BY <1>2, <1>5, <1>8, OneOperand DEF Text!MostWanted
<1>10. PICK c \in Seq(Entries) : c = Text!Cut(q, m)
  BY CutTo
<1>11. /\ Len(c) = IF m > 0 /\ Len(q) > m THEN m ELSE Len(q)
       /\ \A j \in 1 .. Len(c) : c[j] = q[j]
  BY <1>10, CutTo
<1>12. Begins(p, c)
  BY <1>7, <1>9, <1>11 DEF Begins
<1>13. Text!Expected = c
  BY <1>2, <1>3, <1>6, <1>8, <1>10, OneOperand
<1> QED
  BY <1>2, <1>5, <1>12, <1>13, BeginsIs

LEMMA OutputInvImplies == Text!OutputInv => OutputIsRight
<1> SUFFICES ASSUME Text!OutputInv, tpc = "done" PROVE Text!OutputIsRight
  BY DEF OutputIsRight, Text!OutputIsRight
<1>1. Text!RunInv
  BY DEF Text!OutputInv
<1>2. CASE tprogram = "filter"
  <2>1. Text!FilterInv
    BY <1>2 DEF Text!OutputInv
  <2>2. (tstatus = "usage" => tout = <<>>) /\ (tfailed => tstatus = "failure")
    BY <1>1, <2>1 DEF Text!RunInv, Text!FilterInv
  <2>3. ~ tfailed /\ tstatus # "usage" => tout = Text!Expected
    BY <2>1 DEF Text!FilterInv
  <2>4. PICK q \in Seq(Entries) : q = Text!Expected
    <3>1. Len(toperands) \in {1, 2}
      BY <1>1, <1>2, FilterExpected
    <3>2. Text!HasAll(1) \in Seq(Entries) /\ (Len(toperands) = 2 => Text!HasAll(2) \in Seq(Entries))
      BY <1>1, <3>1, OperandsAre
    <3>3. tmaximum \in Nat /\ Text!MostWanted = tmaximum
      BY <1>1, <1>2 DEF Text!RunInv, Text!MostWanted
    <3>4. CASE Len(toperands) = 1
      <4>1. Text!Expected = Text!Cut(Text!HasAll(1), tmaximum)
        BY <3>3, <3>4 DEF Text!Expected
      <4> QED
        BY <3>2, <3>3, <4>1, CutTo
    <3>5. CASE Len(toperands) = 2
      <4>1. Text!Expected = Text!Cut(Chained(Text!HasAll(1), Text!HasAll(2)), tmaximum)
        BY <3>3, <3>5 DEF Text!Expected, Chained
      <4>2. PICK r \in Seq(Entries) : r = Chained(Text!HasAll(1), Text!HasAll(2))
        BY <3>2, <3>5, Concatenated
      <4> QED
        BY <3>3, <4>1, <4>2, CutTo
    <3> QED
      BY <3>1, <3>4, <3>5
  <2>5. Text!IsPrefix(q, q) /\ Text!IsPrefix(<<>>, q)
    <3>1. <<>> \in Seq(Entries) /\ Begins(q, q) /\ Begins(<<>>, q)
      BY DEF Begins
    <3> QED
      BY <3>1, BeginsIs
  <2> QED
    BY <1>2, <2>2, <2>3, <2>4, <2>5 DEF Text!OutputIsRight
<1>3. CASE tprogram # "filter"
  <2>1. Text!SingleInv
    BY <1>3 DEF Text!OutputInv
  <2>2. Text!IsPrefix(tout, Text!Expected)
    BY <1>1, <1>3, <2>1, OutputIsPrefix
  <2> QED
    BY <1>1, <1>3, <2>1, <2>2 DEF Text!OutputIsRight, Text!SingleInv, Text!RunInv
<1> QED
  BY <1>2, <1>3

\* variant2.c, files.c, errors.c, filter.c: at its end a text program has written
\* the lines that belong in its output and nothing else, in order, across the
\* streams it was given and up to the limit; without a failure it has written all
\* of them, and double_numbers and filter do not claim success after one.
THEOREM WritesWhatItShould == SpecAll => []OutputIsRight
<1>1. InitAll => Text!OutputInv
  BY TextOutputInit DEF InitAll
<1> QED
  BY <1>1, TextOutputNext, TextStep, OutputInvImplies, PTL DEF SpecAll

-----------------------------------------------------------------------------
\* config.c: a reload

\* The first m values of Config!Applied.
Applies(f, m) ==
    \A n \in 0 .. m :
        f[n] = IF n = 0 THEN Config!Zeroed ELSE Config!Field(f[n - 1], ctext[n])

\* Applied is defined by recursion; such a function exists.
LEMMA AppliesSome == \A m \in Nat : \E f : Applies(f, m)
<1> DEFINE T == {m \in Nat : \E f : Applies(f, m)}
<1>1. 0 \in T
  <2>1. Applies([n \in {0} |-> Config!Zeroed], 0)
    BY DEF Applies
  <2> QED
    BY <2>1
<1>2. ASSUME NEW m \in Nat, m \in T PROVE m + 1 \in T
  <2>1. PICK f : Applies(f, m)
    BY <1>2
  <2> DEFINE g == [n \in 0 .. m + 1 |->
                     IF n = m + 1 THEN Config!Field(f[m], ctext[m + 1]) ELSE f[n]]
  <2>2. ASSUME NEW n \in 0 .. m + 1
        PROVE  g[n] = IF n = 0 THEN Config!Zeroed ELSE Config!Field(g[n - 1], ctext[n])
    <3>1. CASE n = m + 1
      <4>1. n # 0 /\ n - 1 = m /\ g[n - 1] = f[m] /\ g[n] = Config!Field(f[m], ctext[m + 1])
        BY <3>1
      <4> QED
        BY <3>1, <4>1
    <3>2. CASE n # m + 1
      <4>1. n \in 0 .. m /\ g[n] = f[n] /\ (n # 0 => g[n - 1] = f[n - 1])
        BY <3>2
      <4>2. f[n] = IF n = 0 THEN Config!Zeroed ELSE Config!Field(f[n - 1], ctext[n])
        BY <2>1, <4>1 DEF Applies
      <4> QED
        BY <4>1, <4>2
    <3> QED
      BY <3>1, <3>2
  <2>3. Applies(g, m + 1)
    <3> HIDE DEF g
    <3> QED
      BY <2>2 DEF Applies
  <2> QED
    BY <2>3
<1>3. Nat \subseteq T
  <2> HIDE DEF T
  <2> QED
    BY <1>1, <1>2, NatSet
<1> QED
  BY <1>3

LEMMA AppliedIs ==
    ASSUME ctext \in Seq(Config!Lines)
    PROVE  Applies(Config!Applied, Len(ctext))
<1> DEFINE Is(f) == f = [n \in 0 .. Len(ctext) |->
                    IF n = 0 THEN Config!Zeroed ELSE Config!Field(f[n - 1], ctext[n])]
<1>1. Len(ctext) \in Nat
  OBVIOUS
<1>2. PICK f : Applies(f, Len(ctext))
  BY <1>1, AppliesSome
<1> DEFINE g == [n \in 0 .. Len(ctext) |-> f[n]]
<1>3. ASSUME NEW n \in 0 .. Len(ctext)
      PROVE  g[n] = IF n = 0 THEN Config!Zeroed ELSE Config!Field(g[n - 1], ctext[n])
  <2>1. g[n] = f[n] /\ (n # 0 => g[n - 1] = f[n - 1])
    BY <1>1
  <2>2. f[n] = IF n = 0 THEN Config!Zeroed ELSE Config!Field(f[n - 1], ctext[n])
    BY <1>2 DEF Applies
  <2> QED
    BY <2>1, <2>2
<1>4. Is(g)
  <2>1. g = [n \in 0 .. Len(ctext) |-> g[n]]
    OBVIOUS
  <2> HIDE DEF g
  <2> QED
    BY <1>3, <2>1
<1>5. Config!Applied = CHOOSE h : Is(h)
  BY DEF Config!Applied
<1>6. Is(Config!Applied)
  <2> HIDE DEF Is, g
  <2> QED
    BY <1>4, <1>5
<1> QED
  BY <1>6 DEF Applies

LEMMA ReloadInit == Config!Init => Config!ReloadInv
BY NullAssumption DEF Config!Init, Config!ReloadInv, Config!ReloadIsAtomic, Config!Active

\* What the lines make, and which may be used, follow from the text alone.
LEMMA SameText ==
    ASSUME ctext' = ctext
    PROVE  /\ Config!Applied' = Config!Applied
           /\ \A n : Config!UsableTo(n)' <=> Config!UsableTo(n)
BY DEF Config!Applied, Config!UsableTo, Config!Refused

LEMMA RestOfRest ==
    ASSUME NEW S, NEW s \in Seq(S), NEW n \in 0 .. Len(s) - 1
    PROVE  Tail(SubSeq(s, n + 1, Len(s))) = SubSeq(s, n + 1 + 1, Len(s))
<1> DEFINE u == SubSeq(s, n + 1, Len(s))
           w == SubSeq(s, n + 1 + 1, Len(s))
<1>1. u \in Seq(S) /\ Len(u) = Len(s) - n /\ \A j \in 1 .. Len(s) - n : u[j] = s[n + j]
  OBVIOUS
<1>2. w \in Seq(S) /\ Len(w) = Len(s) - n - 1 /\ \A j \in 1 .. Len(s) - n - 1 : w[j] = s[n + 1 + j]
  OBVIOUS
<1> HIDE DEF u, w
<1>3. Tail(u) \in Seq(S) /\ Len(Tail(u)) = Len(s) - n - 1
  BY <1>1
<1>4. \A j \in 1 .. Len(s) - n - 1 : Tail(u)[j] = w[j]
  BY <1>1, <1>2
<1>5. Tail(u) = w
  BY <1>2, <1>3, <1>4
<1> QED
  BY <1>5 DEF u, w

LEMMA ReloadNext == Config!ReloadInv /\ [Config!Next]_configVars => Config!ReloadInv'
<1> SUFFICES ASSUME Config!ReloadInv, [Config!Next]_configVars PROVE Config!ReloadInv'
  OBVIOUS
<1> USE NullAssumption DEF Config!taken
<1>1. CASE Config!Open
  BY <1>1 DEF Config!Open, Config!ReloadInv, Config!ReloadIsAtomic, Config!Active
<1>2. CASE Config!AllocateBuffer
  BY <1>2 DEF Config!AllocateBuffer, Config!ReloadInv, Config!ReloadIsAtomic, Config!Active
<1>3. CASE Config!Read
  <2>1. CASE cpc' = "cleanup"
    BY <1>3, <2>1 DEF Config!Read, Config!ReloadInv, Config!ReloadIsAtomic, Config!Active
  <2>2. CASE ctext' \in Seq(Config!Lines) /\ clines' = ctext' /\ cpc' = "calloc"
    <3>1. clines' = SubSeq(ctext', 0 + 1, Len(ctext')) /\ 0 \in 0 .. Len(ctext')
      BY <2>2
    <3>2. Config!UsableTo(0)'
      BY DEF Config!UsableTo
    <3> QED
      BY <1>3, <2>2, <3>1, <3>2 DEF Config!Read, Config!ReloadInv, Config!ReloadIsAtomic, Config!Active
  <2>3. ASSUME NEW n \in 0 .. ReadMax, NEW s \in [1 .. n -> Config!Lines] PROVE s \in Seq(Config!Lines)
    BY SeqDef
  <2> QED
    BY <1>3, <2>1, <2>2, <2>3 DEF Config!Read
<1>4. CASE Config!AllocateFresh
  <2>1. CASE cpc' = "cleanup"
    BY <1>4, <2>1 DEF Config!AllocateFresh, Config!ReloadInv, Config!ReloadIsAtomic, Config!Active
  <2>2. CASE cpc' = "parse"
    <3>1. PICK b \in Blocks \ DOMAIN cheap :
             /\ cfresh' = b
             /\ cheap' = [a \in DOMAIN cheap \cup {b} |-> IF a = b THEN Config!Zeroed ELSE cheap[a]]
      BY <1>4, <2>2 DEF Config!AllocateFresh
    <3>2. DOMAIN cheap = {cconfig} \ {NULL} /\ b # NULL /\ b # cconfig
      BY <1>4, <3>1 DEF Config!AllocateFresh, Config!ReloadInv
    <3>3. cheap' = [a \in {cconfig', cfresh'} \ {NULL} |-> cheap'[a]]
      BY <1>4, <3>1, <3>2 DEF Config!AllocateFresh
    <3>4. Config!Active' = Config!Active /\ cheap'[b] = Config!Zeroed
      BY <1>4, <3>1, <3>2 DEF Config!AllocateFresh, Config!Active
    <3>5. UNCHANGED ctext /\ cresult' = -1 /\ ctext \in Seq(Config!Lines)
      BY <1>4 DEF Config!AllocateFresh, Config!ReloadInv
    <3>6. Config!Applied'[0] = Config!Zeroed /\ Config!UsableTo(0)'
      BY <3>5, SameText, AppliedIs DEF Applies, Config!UsableTo
    <3>7. clines' = SubSeq(ctext', 0 + 1, Len(ctext')) /\ 0 \in 0 .. Len(ctext')
      BY <1>4, <3>5 DEF Config!AllocateFresh, Config!ReloadInv
    <3>8. Config!ReloadIsAtomic'
      BY <1>4, <2>2, <3>4, <3>5 DEF Config!AllocateFresh, Config!ReloadInv, Config!ReloadIsAtomic
    <3>9. cfresh' # NULL /\ cfresh' # cconfig' /\ cheap'[cfresh'] = Config!Applied'[0]
      BY <1>4, <3>1, <3>2, <3>4, <3>6 DEF Config!AllocateFresh
    <3>10. ctext' \in Seq(Config!Lines)
      BY <3>5
    <3> QED
      BY <2>2, <3>3, <3>5, <3>6, <3>7, <3>8, <3>9, <3>10 DEF Config!ReloadInv
  <2> QED
    BY <1>4, <2>1, <2>2 DEF Config!AllocateFresh
<1>5. CASE Config!ParseLine
  <2>1. CASE Config!Refused(Head(clines))
    BY <1>5, <2>1 DEF Config!ParseLine, Config!ReloadInv, Config!ReloadIsAtomic, Config!Active
  <2>2. CASE ~ Config!Refused(Head(clines))
    <3>1. PICK n \in 0 .. Len(ctext) :
             /\ clines = SubSeq(ctext, n + 1, Len(ctext)) /\ Config!UsableTo(n)
             /\ cfresh # NULL /\ cheap[cfresh] = Config!Applied[n]
      BY <1>5 DEF Config!ParseLine, Config!ReloadInv
    <3>2. ctext \in Seq(Config!Lines) /\ UNCHANGED ctext
      BY <1>5 DEF Config!ParseLine, Config!ReloadInv
    <3>3. n + 1 \in 0 .. Len(ctext) /\ n + 1 # 0 /\ Head(clines) = ctext[n + 1]
      BY <1>5, <3>1, <3>2 DEF Config!ParseLine
    <3>4. clines' = SubSeq(ctext', n + 1 + 1, Len(ctext'))
      <4>1. clines' = Tail(clines) /\ n \in 0 .. Len(ctext) - 1
        BY <1>5, <2>2, <3>2, <3>3 DEF Config!ParseLine
      <4>2. Tail(SubSeq(ctext, n + 1, Len(ctext))) = SubSeq(ctext, n + 1 + 1, Len(ctext))
        BY <3>2, <4>1, RestOfRest
      <4> QED
        BY <3>1, <3>2, <4>1, <4>2
    <3>5. Config!UsableTo(n + 1)'
      BY <2>2, <3>1, <3>2, <3>3, SameText DEF Config!UsableTo
    <3>6. cheap = [b \in {cconfig, cfresh} \ {NULL} |-> cheap[b]] /\ cfresh # cconfig
      BY <3>1 DEF Config!ReloadInv
    <3>7. cheap' = [cheap EXCEPT ![cfresh] = Config!Field(@, ctext[n + 1])]
      BY <1>5, <2>2, <3>3 DEF Config!ParseLine, Config!Target
    <3>8. /\ cheap' = [b \in {cconfig', cfresh'} \ {NULL} |-> cheap'[b]]
          /\ cheap'[cfresh] = Config!Field(cheap[cfresh], ctext[n + 1])
          /\ Config!Active' = Config!Active
      BY <1>5, <3>1, <3>6, <3>7 DEF Config!ParseLine, Config!Active
    <3>9. Config!Applied'[n + 1] = Config!Field(Config!Applied[n], ctext[n + 1])
      <4>1. Config!Applied[n + 1] = Config!Field(Config!Applied[n + 1 - 1], ctext[n + 1])
        BY <3>2, <3>3, AppliedIs DEF Applies
      <4> QED
        BY <3>1, <3>2, <4>1, SameText
    <3> QED
      BY <1>5, <2>2, <3>1, <3>2, <3>3, <3>4, <3>5, <3>6, <3>8, <3>9
      DEF Config!ParseLine, Config!ReloadInv, Config!ReloadIsAtomic
  <2> QED
    BY <2>1, <2>2
<1>6. CASE Config!Install
  <2>1. PICK n \in 0 .. Len(ctext) :
           /\ clines = SubSeq(ctext, n + 1, Len(ctext)) /\ Config!UsableTo(n)
           /\ cfresh # NULL /\ cheap[cfresh] = Config!Applied[n]
    BY <1>6 DEF Config!Install, Config!ReloadInv
  <2>2. ctext \in Seq(Config!Lines) /\ UNCHANGED ctext /\ n = Len(ctext)
    <3>1. ctext \in Seq(Config!Lines) /\ UNCHANGED ctext /\ clines = <<>>
      BY <1>6 DEF Config!Install, Config!ReloadInv
    <3>2. Len(clines) = IF n + 1 <= Len(ctext) THEN Len(ctext) - n ELSE 0
      BY <2>1, <3>1
    <3> QED
      BY <3>1, <3>2
  <2>3. cheap = [b \in {cconfig, cfresh} \ {NULL} |-> cheap[b]] /\ cfresh # cconfig
    BY <2>1 DEF Config!ReloadInv
  <2>4. cheap' = [b \in DOMAIN cheap \ {cconfig} |-> cheap[b]] /\ cconfig' = cfresh /\ cfresh' = NULL
    BY <1>6 DEF Config!Install, Config!Without
  <2>5. DOMAIN cheap \ {cconfig} = {cconfig', cfresh'} \ {NULL}
    BY <2>1, <2>3, <2>4
  <2>6. cheap' = [b \in {cconfig', cfresh'} \ {NULL} |-> cheap'[b]] /\ cheap'[cfresh] = cheap[cfresh]
    BY <2>1, <2>4, <2>5
  <2>7. Config!Active' = Config!Complete' /\ Config!UsableTo(Len(ctext))'
    BY <2>1, <2>2, <2>4, <2>6, SameText DEF Config!Active, Config!Complete
  <2> QED
    BY <1>6, <2>1, <2>2, <2>4, <2>6, <2>7 DEF Config!Install, Config!ReloadInv, Config!ReloadIsAtomic
<1>7. CASE Config!Cleanup
  <2>1. cheap = [b \in {cconfig, cfresh} \ {NULL} |-> cheap[b]] /\ (cfresh = NULL \/ cfresh # cconfig)
    BY DEF Config!ReloadInv
  <2>2. cheap' = [b \in DOMAIN cheap \ {cfresh} |-> cheap[b]] /\ cconfig' = cconfig /\ cfresh' = NULL
    BY <1>7 DEF Config!Cleanup, Config!Without
  <2>3. DOMAIN cheap \ {cfresh} = {cconfig', cfresh'} \ {NULL}
    BY <2>1, <2>2
  <2>4. cheap' = [b \in {cconfig', cfresh'} \ {NULL} |-> cheap'[b]] /\ Config!Active' = Config!Active
    BY <2>1, <2>2, <2>3 DEF Config!Active
  <2>5. DOMAIN cheap' = {cconfig'} \ {NULL}
    BY <2>2, <2>3, <2>4
  <2> QED
    BY <1>7, <2>2, <2>4, <2>5 DEF Config!Cleanup, Config!ReloadInv, Config!ReloadIsAtomic
<1>8. CASE UNCHANGED configVars
  <2>1. UNCHANGED ctext
    BY <1>8 DEF configVars
  <2> QED
    BY <1>8, <2>1, SameText
    DEF configVars, Config!ReloadInv, Config!ReloadIsAtomic, Config!Active, Config!Complete
<1> QED
  BY <1>1, <1>2, <1>3, <1>4, <1>5, <1>6, <1>7, <1>8 DEF Config!Next

\* config.c: "On failure the previous configuration remains installed": whichever
\* line is refused and whichever call fails, a reload keeps the old configuration
\* or installs what all the lines say, and holds nothing else when it returns.
THEOREM ReloadReplacesOrKeeps == SpecAll => []ReloadIsAtomic
<1>1. InitAll => Config!ReloadInv
  BY ReloadInit DEF InitAll
<1>2. Config!ReloadInv => ReloadIsAtomic
  BY DEF Config!ReloadInv, ReloadIsAtomic
<1> QED
  BY <1>1, <1>2, ReloadNext, ConfigStep, PTL DEF SpecAll

-----------------------------------------------------------------------------
\* legacy.c and parser.c: what the two parsers make of a number

\* The number at the beginning of s has a length.
LEMMA LeadingIs ==
    ASSUME NEW s \in Seq(Parser!Characters)
    PROVE  /\ Parser!Leading(s) \in 0 .. Len(s)
           /\ \A k \in 1 .. Parser!Leading(s) : s[k] \in Parser!Digits
<1> DEFINE Is(n) == /\ \A k \in 1 .. n : s[k] \in Parser!Digits
                    /\ n < Len(s) => s[n + 1] \notin Parser!Digits
           others == {k \in 1 .. Len(s) : s[k] \notin Parser!Digits}
<1>1. Len(s) \in Nat
  OBVIOUS
<1>2. \E n \in 0 .. Len(s) : Is(n)
  <2>1. CASE others = {}
    <3>1. Is(Len(s)) /\ Len(s) \in 0 .. Len(s)
      BY <1>1, <2>1
    <3> HIDE DEF Is
    <3> QED
      BY <3>1
  <2>2. CASE others # {}
    <3>1. others \in SUBSET Nat
      BY <1>1
    <3>2. PICK m \in others : \A y \in others : m <= y
      <4> HIDE DEF others
      <4> QED
        BY <2>2, <3>1, MinIs
    <3>3. Is(m - 1) /\ m - 1 \in 0 .. Len(s)
      BY <1>1, <3>2
    <3> HIDE DEF Is
    <3> QED
      BY <3>3
  <2> QED
    BY <2>1, <2>2
<1>3. Parser!Leading(s) = CHOOSE n \in 0 .. Len(s) : Is(n)
  BY DEF Parser!Leading
<1>4. Parser!Leading(s) \in 0 .. Len(s) /\ Is(Parser!Leading(s))
  <2> HIDE DEF Is
  <2> QED
    BY <1>2, <1>3
<1> QED
  BY <1>4

\* The value of the first n digits of s, for n up to m.
Reads(f, s, m) ==
    \A n \in 0 .. m : f[n] = IF n = 0 THEN 0 ELSE 10 * f[n - 1] + (IF s[n] = "1" THEN 1 ELSE 5)

LEMMA ReadsSome == \A m \in Nat : \A s : \E f \in [0 .. m -> Nat] : Reads(f, s, m)
<1> SUFFICES ASSUME NEW s PROVE \A m \in Nat : \E f \in [0 .. m -> Nat] : Reads(f, s, m)
  OBVIOUS
<1> DEFINE T == {m \in Nat : \E f \in [0 .. m -> Nat] : Reads(f, s, m)}
<1>1. 0 \in T
  <2>1. [n \in 0 .. 0 |-> 0] \in [0 .. 0 -> Nat] /\ Reads([n \in 0 .. 0 |-> 0], s, 0)
    BY DEF Reads
  <2> QED
    BY <2>1
<1>2. ASSUME NEW m \in Nat, m \in T PROVE m + 1 \in T
  <2>1. PICK f \in [0 .. m -> Nat] : Reads(f, s, m)
    BY <1>2
  <2> DEFINE digit == IF s[m + 1] = "1" THEN 1 ELSE 5
             g == [n \in 0 .. m + 1 |-> IF n = m + 1 THEN 10 * f[m] + digit ELSE f[n]]
  <2>2. digit \in Nat /\ f[m] \in Nat
    OBVIOUS
  <2>3. g \in [0 .. m + 1 -> Nat]
    BY <2>2
  <2>4. ASSUME NEW n \in 0 .. m + 1
        PROVE  g[n] = IF n = 0 THEN 0 ELSE 10 * g[n - 1] + (IF s[n] = "1" THEN 1 ELSE 5)
    <3>1. CASE n = m + 1
      <4>1. n # 0 /\ n - 1 = m /\ g[n - 1] = f[m] /\ g[n] = 10 * f[m] + digit
        BY <3>1
      <4> QED
        BY <3>1, <4>1
    <3>2. CASE n # m + 1
      <4>1. n \in 0 .. m /\ g[n] = f[n] /\ (n # 0 => g[n - 1] = f[n - 1])
        BY <3>2
      <4>2. f[n] = IF n = 0 THEN 0 ELSE 10 * f[n - 1] + (IF s[n] = "1" THEN 1 ELSE 5)
        BY <2>1, <4>1 DEF Reads
      <4> QED
        BY <4>1, <4>2
    <3> QED
      BY <3>1, <3>2
  <2>5. Reads(g, s, m + 1)
    <3> HIDE DEF g
    <3> QED
      BY <2>4 DEF Reads
  <2> HIDE DEF g
  <2> QED
    BY <2>3, <2>5
<1>3. Nat \subseteq T
  <2> HIDE DEF T
  <2> QED
    BY <1>1, <1>2, NatSet
<1> QED
  BY <1>3

LEMMA StrtolIs ==
    ASSUME NEW s \in Seq(Parser!Characters)
    PROVE  Parser!Strtol(s) \in Nat /\ (Parser!Leading(s) = 0 => Parser!Strtol(s) = 0)
<1> DEFINE m == Parser!Leading(s)
           Is(f) == f = [n \in 0 .. m |->
                   IF n = 0 THEN 0 ELSE 10 * f[n - 1] + (IF s[n] = "1" THEN 1 ELSE 5)]
<1>1. m \in Nat
  BY LeadingIs
<1> HIDE DEF m
<1>2. PICK g \in [0 .. m -> Nat] : Reads(g, s, m)
  BY <1>1, ReadsSome
<1>3. Is(g)
  BY <1>1, <1>2 DEF Reads
<1>4. Parser!Strtol(s) = (CHOOSE h : Is(h))[m]
  BY DEF Parser!Strtol, m
<1>5. PICK h : h = (CHOOSE x : Is(x))
  OBVIOUS
<1>6. Is(h)
  <2> HIDE DEF Is
  <2> QED
    BY <1>3, <1>5
<1>7. \A n \in 0 .. m : h[n] = g[n]
  <2> DEFINE T == {n \in Nat : n <= m => h[n] = g[n]}
  <2>1. 0 \in T
    BY <1>1, <1>2, <1>6 DEF Reads
  <2>2. ASSUME NEW n \in Nat, n \in T PROVE n + 1 \in T
    <3>1. SUFFICES ASSUME n + 1 <= m PROVE h[n + 1] = g[n + 1]
      OBVIOUS
    <3>2. n + 1 \in 0 .. m /\ n + 1 # 0 /\ n + 1 - 1 = n /\ h[n] = g[n]
      BY <1>1, <2>2, <3>1
    <3>3. g[n + 1] = 10 * g[n + 1 - 1] + (IF s[n + 1] = "1" THEN 1 ELSE 5)
      BY <1>2, <3>2 DEF Reads
    <3>4. h[n + 1] = 10 * h[n + 1 - 1] + (IF s[n + 1] = "1" THEN 1 ELSE 5)
      <4>1. \A k \in 0 .. m : h[k] = IF k = 0 THEN 0 ELSE 10 * h[k - 1] + (IF s[k] = "1" THEN 1 ELSE 5)
        BY <1>6
      <4> HIDE DEF Is
      <4> QED
        BY <3>2, <4>1
    <3> QED
      BY <3>2, <3>3, <3>4
  <2>3. Nat \subseteq T
    <3> HIDE DEF T
    <3> QED
      BY <2>1, <2>2, NatSet
  <2> QED
    BY <1>1, <2>3
<1>8. h[m] = g[m] /\ g[m] \in Nat /\ (m = 0 => g[m] = 0)
  BY <1>1, <1>2, <1>7 DEF Reads
<1> QED
  BY <1>4, <1>5, <1>8 DEF m

\* Conversion to an int keeps what an int can hold and yields only that.
LEMMA AsIntIs ==
    ASSUME NEW v \in Nat
    PROVE  /\ Parser!AsInt(v) \in Int /\ Parser!AsInt(v) <= Parser!INT_MAX
           /\ v <= Parser!INT_MAX => Parser!AsInt(v) = v
<1>1. PICK half \in Nat \ {0} : half = 2 ^ (IntWidth - 1) /\ 2 ^ IntWidth = 2 * half
  BY WidthAssumption
<1>2. PICK w \in Nat \ {0} : w = 2 * half
  OBVIOUS
<1>3. (v + half) % w \in 0 .. w - 1
  OBVIOUS
<1>4. v < half => (v + half) % w = v + half
  <2>1. \A x \in 0 .. w - 1 : x % w = x
    OBVIOUS
  <2> QED
    BY <1>2, <2>1
<1>5. PICK r \in 0 .. w - 1 : r = (v + half) % w
  BY <1>3
<1>6. Parser!AsInt(v) = r - half /\ Parser!INT_MAX = half - 1
  BY <1>1, <1>2, <1>5 DEF Parser!AsInt, Parser!INT_MAX
<1> QED
  BY <1>2, <1>4, <1>5, <1>6

\* The same number in front of both gives the same value, or 0 where it is out of
\* the range of an int and atoi says something else.
LEMMA ValuesAgree ==
    ASSUME NEW s \in Seq(Parser!Characters)
    PROVE  Parser!ParseLong(s) = IF Parser!Atoi(s) = Parser!Strtol(s) THEN Parser!Atoi(s) ELSE 0
<1>1. PICK v \in Nat : v = Parser!Strtol(s) /\ (Parser!Leading(s) = 0 => v = 0)
  BY StrtolIs
<1>2. Parser!LONG_MAX \in Nat /\ Parser!INT_MAX \in Nat /\ Parser!INT_MAX <= Parser!LONG_MAX
  BY WidthAssumption DEF Parser!LONG_MAX, Parser!INT_MAX
<1>3. PICK c \in Nat : c = Parser!Min({v, Parser!LONG_MAX})
  <2>1. Parser!Min({v, Parser!LONG_MAX}) = Min({v, Parser!LONG_MAX})
    BY DEF Parser!Min, Min
  <2> QED
    BY <1>2, <2>1, MinOfTwo
<1>4. v <= Parser!LONG_MAX => c = v
  <2>1. PICK S \in SUBSET Nat : S = {v, Parser!LONG_MAX}
    BY <1>2
  <2>2. Min(S) \in S /\ \A y \in S : Min(S) <= y
    BY <2>1, MinIs
  <2>3. c = Min(S)
    BY <1>3, <2>1 DEF Parser!Min, Min
  <2> QED
    BY <1>2, <2>1, <2>2, <2>3
<1>5. Parser!Atoi(s) = Parser!AsInt(c)
  BY <1>1, <1>3 DEF Parser!Atoi
<1>6. /\ Parser!AsInt(c) \in Int /\ Parser!AsInt(c) <= Parser!INT_MAX
      /\ c <= Parser!INT_MAX => Parser!AsInt(c) = c
  BY <1>3, AsIntIs
<1> QED
  BY <1>1, <1>2, <1>4, <1>5, <1>6 DEF Parser!ParseLong

\* What is left of a line without its spaces in front.
LEMMA RestIs ==
    ASSUME NEW s \in Seq(Parser!Characters), NEW k \in Nat \ {0}
    PROVE  Parser!From(s, k) \in Seq(Parser!Characters)
BY DEF Parser!From

\* The greatest of some numbers no greater than n is one of them.
LEMMA MaxIs ==
    ASSUME NEW n \in Nat, NEW S \in SUBSET (1 .. n), S # {}
    PROVE  Parser!Max(S) \in S
<1> DEFINE D == {n - x : x \in S}
<1>1. D \in SUBSET Nat /\ D # {}
  <2>1. \A x \in S : n - x \in Nat
    OBVIOUS
  <2>2. \E x : x \in S
    OBVIOUS
  <2> QED
    BY <2>1, <2>2
<1>2. PICK d \in D : \A y \in D : d <= y
  <2> HIDE DEF D
  <2> QED
    BY <1>1, MinIs
<1>3. PICK x \in S : d = n - x
  BY <1>2
<1>4. \A y \in S : x >= y
  <2> SUFFICES ASSUME NEW y \in S PROVE x >= y
    OBVIOUS
  <2>1. n - y \in D
    OBVIOUS
  <2>2. d <= n - y
    BY <1>2, <2>1
  <2> HIDE DEF D
  <2> QED
    BY <1>3, <2>2
<1> HIDE DEF D
<1> QED
  BY <1>4 DEF Parser!Max

LEMMA NotSpaceIs ==
    ASSUME NEW s \in Seq(Parser!Characters), Parser!NotSpace(s) # {}
    PROVE  /\ Parser!Min(Parser!NotSpace(s)) \in Nat \ {0}
           /\ Parser!Max(Parser!NotSpace(s)) \in 1 .. Len(s)
<1>1. Len(s) \in Nat /\ DOMAIN s = 1 .. Len(s)
  OBVIOUS
<1>2. Parser!NotSpace(s) \in SUBSET (1 .. Len(s))
  BY <1>1 DEF Parser!NotSpace
<1>3. PICK S \in SUBSET (1 .. Len(s)) : S = Parser!NotSpace(s)
  BY <1>2
<1>4. Min(S) \in S /\ Parser!Max(S) \in S
  <2>1. S \in SUBSET Nat
    BY <1>1
  <2> QED
    BY <1>1, <1>3, <2>1, MinIs, MaxIs
<1>5. Parser!Min(S) = Min(S)
  BY DEF Parser!Min, Min
<1> QED
  BY <1>1, <1>3, <1>4, <1>5

LEMMA SkippedIs ==
    ASSUME NEW s \in Seq(Parser!Characters)
    PROVE  Parser!SkipSpace(s) \in Seq(Parser!Characters)
<1>1. CASE Parser!NotSpace(s) = {}
  BY <1>1 DEF Parser!SkipSpace
<1>2. CASE Parser!NotSpace(s) # {}
  <2>1. PICK m \in Nat \ {0} : m = Parser!Min(Parser!NotSpace(s))
    BY <1>2, NotSpaceIs
  <2> QED
    BY <1>2, <2>1, RestIs DEF Parser!SkipSpace
<1> QED
  BY <1>1, <1>2

LEMMA TrimmedIs ==
    ASSUME NEW s \in Seq(Parser!Characters)
    PROVE  Parser!TrimTrailing(s) \in Seq(Parser!Characters)
<1>1. CASE Parser!NotSpace(s) = {}
  BY <1>1 DEF Parser!TrimTrailing
<1>2. CASE Parser!NotSpace(s) # {}
  <2>1. PICK m \in 1 .. Len(s) : m = Parser!Max(Parser!NotSpace(s))
    BY <1>2, NotSpaceIs
  <2>2. SubSeq(s, 1, m) \in Seq(Parser!Characters)
    OBVIOUS
  <2> QED
    BY <1>2, <2>1, <2>2 DEF Parser!TrimTrailing
<1> QED
  BY <1>1, <1>2

\* The parts of a line, where there is an equals sign.
LEMMA PartsAre ==
    ASSUME pline \in Seq(Parser!Characters), Parser!Equals # {}
    PROVE  /\ Parser!ModernName \in Seq(Parser!Characters)
           /\ Parser!ValueText \in Seq(Parser!Characters)
<1>1. Len(pline) \in Nat /\ DOMAIN pline = 1 .. Len(pline)
  OBVIOUS
<1>2. Parser!Equals \in SUBSET (1 .. Len(pline))
  BY <1>1 DEF Parser!Equals
<1>3. PICK S \in SUBSET Nat : S = Parser!Equals
  BY <1>1, <1>2
<1>4. Min(S) \in 1 .. Len(pline)
  BY <1>2, <1>3, MinIs
<1>5. PICK m \in 1 .. Len(pline) : m = Parser!Min(Parser!Equals)
  BY <1>3, <1>4 DEF Parser!Min, Min
<1>6. Parser!ValueText \in Seq(Parser!Characters)
  BY <1>1, <1>5, RestIs DEF Parser!ValueText
<1>7. SubSeq(pline, 1, m - 1) \in Seq(Parser!Characters)
  BY <1>1
<1>8. Parser!NameText \in Seq(Parser!Characters)
  BY <1>5, <1>7 DEF Parser!NameText
<1> QED
  BY <1>6, <1>8, SkippedIs, TrimmedIs DEF Parser!ModernName

\* An invariant, for RewriteAgrees.
ParserInv == RewriteAgrees /\ pline \in Seq(Parser!Characters)

LEMMA ParserInit == Parser!Init => ParserInv
<1> SUFFICES ASSUME Parser!Init PROVE ParserInv
  OBVIOUS
<1>1. PICK n \in 0 .. MaxLength : pline \in [1 .. n -> Parser!Characters]
  BY DEF Parser!Init
<1>2. pline \in Seq(Parser!Characters)
  BY <1>1, SeqDef
<1> QED
  BY <1>2 DEF ParserInv, RewriteAgrees, Parser!RewriteAgrees, Parser!Init

LEMMA ParserNext == ParserInv /\ [Parser!Next]_parserVars => ParserInv'
<1> SUFFICES ASSUME ParserInv, [Parser!Next]_parserVars PROVE ParserInv'
  OBVIOUS
<1>1. CASE UNCHANGED parserVars
  BY <1>1 DEF parserVars, ParserInv, RewriteAgrees, Parser!RewriteAgrees, Parser!Equals,
       Parser!ModernName, Parser!NameText, Parser!ValueText
<1>2. CASE Parser!Parse
  <2>1. pline \in Seq(Parser!Characters) /\ UNCHANGED pline /\ pcalled'
    BY <1>2 DEF Parser!Parse, ParserInv
  <2>2. /\ Parser!Equals' = Parser!Equals
        /\ Parser!ModernName' = Parser!ModernName
        /\ Parser!ValueText' = Parser!ValueText
    BY <2>1 DEF Parser!Equals, Parser!ModernName, Parser!NameText, Parser!ValueText
  <2>3. CASE Len(pline) >= LINE_MAX_LEN \/ Parser!Equals = {}
    BY <1>2, <2>1, <2>2, <2>3, SizeAssumption
    DEF Parser!Parse, Parser!ModernParse, Parser!LegacyParse, Parser!Untouched,
         ParserInv, RewriteAgrees, Parser!RewriteAgrees
  <2>4. CASE ~ (Len(pline) >= LINE_MAX_LEN) /\ Parser!Equals # {} /\ ~ (Len(Parser!ModernName) >= NameSize)
    <3>1. PICK s \in Seq(Parser!Characters) : s = Parser!SkipSpace(Parser!ValueText)
      BY <2>1, <2>4, PartsAre, SkippedIs
    <3>2. Parser!ParseLong(s) = IF Parser!Atoi(s) = Parser!Strtol(s) THEN Parser!Atoi(s) ELSE 0
      BY <3>1, ValuesAgree
    <3>3. plegacy' = IF Len(pline) < LINE_MAX_LEN
                     THEN [ok |-> TRUE, name |-> <<Parser!ModernName>>, value |-> <<Parser!Atoi(s)>>]
                     ELSE Parser!Untouched
      BY <1>2, <2>4, <3>1 DEF Parser!Parse, Parser!LegacyParse, Parser!ModernName
    <3>4. pmodern' = [ok |-> TRUE, name |-> <<Parser!ModernName>>, value |-> <<Parser!ParseLong(s)>>]
      BY <1>2, <2>4, <3>1 DEF Parser!Parse, Parser!ModernParse
    <3>5. Len(pline) \in Nat /\ Len(pline) < LINE_MAX_LEN
      BY <2>1, <2>4, SizeAssumption
    <3>6. (Parser!Strtol(Parser!SkipSpace(Parser!ValueText)))' = Parser!Strtol(s)
      BY <2>2, <3>1
    <3>7. /\ plegacy'.value = <<Parser!Atoi(s)>> /\ plegacy'.name = <<Parser!ModernName>> /\ plegacy'.ok = TRUE
          /\ pmodern'.value = <<Parser!ParseLong(s)>> /\ pmodern'.name = <<Parser!ModernName>> /\ pmodern'.ok = TRUE
      BY <3>3, <3>4, <3>5
    <3>8. <<Parser!Atoi(s)>> = <<Parser!Strtol(s)>> <=> Parser!Atoi(s) = Parser!Strtol(s)
      OBVIOUS
    <3> QED
      BY <2>1, <2>2, <2>4, <3>2, <3>5, <3>7, <3>8, <3>6, SizeAssumption DEF ParserInv, RewriteAgrees, Parser!RewriteAgrees
  <2>5. CASE ~ (Len(pline) >= LINE_MAX_LEN) /\ Parser!Equals # {} /\ Len(Parser!ModernName) >= NameSize
    BY <2>1, <2>2, <2>5, PartsAre, SizeAssumption DEF ParserInv, RewriteAgrees, Parser!RewriteAgrees
  <2> QED
    BY <2>3, <2>4, <2>5
<1> QED
  BY <1>1, <1>2 DEF Parser!Next

\* parser.c: "the rewrite changed no behavior": for a line of any length, with
\* numbers of any size, and for every width of an int and a long, the rewritten
\* parser answers as the old one did, or 0 for a number that no int holds.
THEOREM RewriteIsFaithful == SpecAll => []RewriteAgrees
<1>1. InitAll => ParserInv
  BY ParserInit DEF InitAll
<1>2. ParserInv => RewriteAgrees
  BY DEF ParserInv
<1> QED
  BY <1>1, <1>2, ParserNext, ParserStep, PTL DEF SpecAll
=============================================================================
