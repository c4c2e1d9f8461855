-------------------------- MODULE LineFraming_proofs --------------------------
(***************************************************************************)
(* What the echo servers of weeks 40 and 47 owe a stream, worked off line   *)
(* by line: these lemmas relate the framing loop, which knows the first     *)
(* lines of the stream and the place after them, to Replies, which is       *)
(* defined by the whole stream.                                             *)
(***************************************************************************)
EXTENDS LineFraming, FiniteSetTheorems, SequenceTheorems, WellFoundedInduction, TLAPS

-----------------------------------------------------------------------------
\* Counting the ends of lines.

Ends(s, k) == {j \in 1 .. k : s[j] = "nl"}

LEMMA EndsAre ==
    ASSUME NEW s, NEW k \in Nat
    PROVE  /\ IsFiniteSet(Ends(s, k)) /\ Ended(s, k) = Cardinality(Ends(s, k))
           /\ Ended(s, k) \in Nat
<1>1. IsFiniteSet(1 .. k) /\ Ends(s, k) \in SUBSET (1 .. k)
  BY FS_Interval DEF Ends
<1>2. IsFiniteSet(Ends(s, k))
  BY <1>1, FS_Subset
<1> QED
  BY <1>2, FS_CardinalityType DEF Ended, Ends

LEMMA NoneEnded == \A s : Ended(s, 0) = 0
<1>1. \A s : Ends(s, 0) = {}
  BY DEF Ends
<1> QED
  BY <1>1, FS_EmptySet DEF Ended, Ends

\* Bytes that end no line do not count, and one that does counts once.
LEMMA EndedSkips ==
    ASSUME NEW s, NEW a \in Nat, NEW b \in Nat, a <= b,
           \A j \in a + 1 .. b : s[j] # "nl"
    PROVE  Ended(s, b) = Ended(s, a)
<1>1. Ends(s, b) = Ends(s, a)
  BY DEF Ends
<1> QED
  BY <1>1 DEF Ended, Ends

LEMMA EndedCounts ==
    ASSUME NEW s, NEW k \in Nat, s[k + 1] = "nl"
    PROVE  Ended(s, k + 1) = Ended(s, k) + 1
<1>1. Ends(s, k + 1) = Ends(s, k) \cup {k + 1} /\ k + 1 \notin Ends(s, k)
  BY DEF Ends
<1>2. IsFiniteSet(Ends(s, k)) /\ Ended(s, k) = Cardinality(Ends(s, k))
  BY EndsAre
<1>3. Cardinality(Ends(s, k) \cup {k + 1}) = Cardinality(Ends(s, k)) + 1
  BY <1>1, <1>2, FS_AddElement
<1>4. Ended(s, k + 1) = Cardinality(Ends(s, k + 1))
  BY EndsAre
<1> QED
  BY <1>1, <1>2, <1>3, <1>4

LEMMA EndedGrows ==
    ASSUME NEW s, NEW a \in Nat, NEW b \in Nat, a < b
    PROVE  Ended(s, a) <= Ended(s, b) /\ (s[b] = "nl" => Ended(s, a) < Ended(s, b))
<1>1. /\ Ends(s, a) \in SUBSET Ends(s, b)
      /\ s[b] = "nl" => b \in Ends(s, b) /\ b \notin Ends(s, a)
  BY DEF Ends
<1>2. /\ IsFiniteSet(Ends(s, b)) /\ Ended(s, a) = Cardinality(Ends(s, a))
      /\ Ended(s, b) = Cardinality(Ends(s, b)) /\ Ended(s, a) \in Nat /\ Ended(s, b) \in Nat
  BY EndsAre
<1>3. /\ Cardinality(Ends(s, a)) <= Cardinality(Ends(s, b))
      /\ Cardinality(Ends(s, b)) = Cardinality(Ends(s, a)) => Ends(s, b) = Ends(s, a)
  BY <1>1, <1>2, FS_Subset
<1> QED
  BY <1>1, <1>2, <1>3

\* Streams that agree up to k end the same lines there.
LEMMA EndedAgrees ==
    ASSUME NEW s, NEW t, NEW k \in Nat, \A j \in 1 .. k : s[j] = t[j]
    PROVE  Ended(s, k) = Ended(t, k)
<1>1. Ends(s, k) = Ends(t, k)
  BY DEF Ends
<1> QED
  BY <1>1 DEF Ended, Ends

\* A newline ends the line whose number is the count of lines ended with it.
LEMMA EndOfIs ==
    ASSUME NEW s \in Seq(Byte), NEW k \in 1 .. Len(s), s[k] = "nl"
    PROVE  EndOf(s, Ended(s, k)) = k
<1>1. k \in Newlines(s, 1) /\ Len(s) \in Nat
  BY DEF Newlines
<1>2. ASSUME NEW j \in Newlines(s, 1), Ended(s, j) = Ended(s, k) PROVE j = k
  <2>1. j \in 1 .. Len(s) /\ s[j] = "nl" /\ j \in Nat /\ k \in Nat
    BY <1>1, <1>2 DEF Newlines
  <2>2. Ended(s, j) \in Nat /\ Ended(s, k) \in Nat
    BY <2>1, EndsAre
  <2>3. ~ (j < k)
    BY <1>2, <2>1, <2>2, EndedGrows
  <2>4. ~ (k < j)
    BY <1>2, <2>1, <2>2, EndedGrows
  <2> QED
    BY <2>1, <2>3, <2>4
<1> QED
  BY <1>1, <1>2 DEF EndOf

-----------------------------------------------------------------------------
\* Working a stream off.

LEMMA FramedNone == \A s \in Seq(Byte) : Framed(s, 0, 0) /\ Told(s, 0) = <<Ready>>
<1>1. ASSUME NEW s \in Seq(Byte) PROVE Framed(s, 0, 0)
  BY NoneEnded DEF Framed
<1>2. ASSUME NEW s PROVE Told(s, 0) = <<Ready>>
  <2>1. [n \in 1 .. 0 |-> Numbered(n, Line(s, n))] = <<>>
    OBVIOUS
  <2> QED
    BY <2>1 DEF Told
<1> QED
  BY <1>1, <1>2

\* The next line begins after them.
LEMMA FramedStart ==
    ASSUME NEW s \in Seq(Byte), NEW p, NEW m, Framed(s, p, m)
    PROVE  LineStart(s, m + 1) = p + 1
<1>1. p \in Nat /\ m \in Nat /\ p <= Len(s) /\ Len(s) \in Nat /\ Ended(s, p) = m
  BY DEF Framed
<1>2. CASE p = 0
  BY <1>1, <1>2, NoneEnded DEF LineStart
<1>3. CASE p # 0
  <2>1. p \in 1 .. Len(s) /\ s[p] = "nl"
    BY <1>1, <1>3 DEF Framed
  <2>2. EndOf(s, m) = p
    BY <1>1, <2>1, EndOfIs
  <2>3. m # 0
    <3>1. Ended(s, 0) = 0 /\ Ended(s, p) \in Nat
      BY <1>1, NoneEnded, EndsAre
    <3>2. Ended(s, 0) < Ended(s, p)
      BY <1>1, <1>3, <2>1, EndedGrows
    <3> QED
      BY <1>1, <3>1, <3>2
  <2>4. m + 1 # 1 /\ (m + 1) - 1 = m
    BY <1>1, <2>3
  <2> QED
    BY <2>2, <2>4 DEF LineStart
<1> QED
  BY <1>2, <1>3

\* What comes after them changes nothing about them.
LEMMA LineAgrees ==
    ASSUME NEW s \in Seq(Byte), NEW t \in Seq(Byte), NEW p, NEW m, Framed(s, p, m),
           p <= Len(t), \A j \in 1 .. p : s[j] = t[j],
           NEW n \in 1 .. m
    PROVE  /\ EndOf(t, n) = EndOf(s, n) /\ LineStart(t, n) = LineStart(s, n)
           /\ Line(t, n) = Line(s, n)
<1>1. p \in Nat /\ m \in Nat /\ p <= Len(s) /\ Len(s) \in Nat /\ Len(t) \in Nat
  BY DEF Framed
<1>2. ASSUME NEW i \in 1 .. m PROVE EndOf(t, i) = EndOf(s, i)
  <2>1. EndOf(s, i) \in 1 .. p /\ s[EndOf(s, i)] = "nl" /\ Ended(s, EndOf(s, i)) = i
    BY DEF Framed
  <2>2. PICK e \in 1 .. p : e = EndOf(s, i)
    BY <2>1
  <2>3. e \in Nat /\ e \in 1 .. Len(t) /\ t[e] = "nl" /\ \A j \in 1 .. e : s[j] = t[j]
    BY <1>1, <2>1, <2>2
  <2>4. Ended(t, e) = i
    BY <2>1, <2>2, <2>3, EndedAgrees
  <2>5. EndOf(t, Ended(t, e)) = e
    BY <2>3, EndOfIs
  <2> QED
    BY <2>2, <2>4, <2>5
<1>3. LineStart(t, n) = LineStart(s, n)
  <2>1. n # 1 => n - 1 \in 1 .. m
    BY <1>1
  <2> QED
    BY <1>2, <2>1 DEF LineStart
<1>4. Line(t, n) = Line(s, n)
  <2>1. PICK a \in 1 .. p : a = LineStart(s, n)
    BY DEF Framed
  <2>2. PICK e \in 1 .. p : e = EndOf(s, n)
    BY DEF Framed
  <2>3. SubSeq(t, a, e - 1) = SubSeq(s, a, e - 1)
    BY <1>1
  <2> QED
    BY <1>2, <1>3, <2>1, <2>2, <2>3 DEF Line
<1> QED
  BY <1>2, <1>3, <1>4

LEMMA FramedAgrees ==
    ASSUME NEW s \in Seq(Byte), NEW t \in Seq(Byte), NEW p, NEW m, Framed(s, p, m),
           p <= Len(t), \A j \in 1 .. p : s[j] = t[j]
    PROVE  Framed(t, p, m) /\ Told(t, m) = Told(s, m)
<1>1. p \in Nat /\ m \in Nat /\ p <= Len(s) /\ Len(s) \in Nat /\ Len(t) \in Nat
  BY DEF Framed
<1>2. ASSUME NEW n \in 1 .. m
      PROVE  /\ EndOf(t, n) = EndOf(s, n) /\ LineStart(t, n) = LineStart(s, n)
           /\ Line(t, n) = Line(s, n)
  BY LineAgrees
<1>3. Told(t, m) = Told(s, m)
  <2>1. [n \in 1 .. m |-> Numbered(n, Line(t, n))] = [n \in 1 .. m |-> Numbered(n, Line(s, n))]
    BY <1>2
  <2> QED
    BY <2>1 DEF Told
<1>4. Framed(t, p, m)
  <2>1. Ended(t, p) = m /\ p \in 0 .. Len(t) /\ (p # 0 => t[p] = "nl")
    BY <1>1, EndedAgrees DEF Framed
  <2>2. ASSUME NEW n \in 1 .. m
        PROVE  /\ LineStart(t, n) \in 1 .. p /\ EndOf(t, n) \in 1 .. p
               /\ t[EndOf(t, n)] = "nl" /\ Ended(t, EndOf(t, n)) = n
               /\ Len(Line(t, n)) < BufSize /\ ~ IsQuit(Line(t, n))
    <3>1. /\ LineStart(s, n) \in 1 .. p /\ EndOf(s, n) \in 1 .. p
          /\ s[EndOf(s, n)] = "nl" /\ Ended(s, EndOf(s, n)) = n
          /\ Len(Line(s, n)) < BufSize /\ ~ IsQuit(Line(s, n))
      BY DEF Framed
    <3>2. Ended(t, EndOf(s, n)) = Ended(s, EndOf(s, n))
      <4>1. EndOf(s, n) \in Nat /\ \A j \in 1 .. EndOf(s, n) : s[j] = t[j]
        BY <1>1, <3>1
      <4> QED
        BY <4>1, EndedAgrees
    <3> QED
      BY <1>2, <3>1, <3>2
  <2> QED
    BY <1>1, <2>1, <2>2 DEF Framed
<1> QED
  BY <1>3, <1>4

\* What lies between two places of a stream.
Between(s, p, e) == SubSeq(s, p + 1, e - 1)

\* The next line, with the newline at e that ends it.
LEMMA FramedLine ==
    ASSUME NEW s \in Seq(Byte), NEW p, NEW m, Framed(s, p, m),
           NEW e \in 1 .. Len(s), p < e, s[e] = "nl", \A j \in p + 1 .. e - 1 : s[j] # "nl"
    PROVE  /\ Ended(s, e) = m + 1 /\ EndOf(s, m + 1) = e
           /\ Line(s, m + 1) = Between(s, p, e) /\ Between(s, p, e) \in Seq(Byte)
<1>1. p \in Nat /\ m \in Nat /\ Ended(s, p) = m /\ Len(s) \in Nat /\ e \in Nat
  BY DEF Framed
<1>2. Ended(s, e) = m + 1
  <2>1. e - 1 \in Nat /\ p <= e - 1 /\ (e - 1) + 1 = e
    BY <1>1
  <2>2. Ended(s, e - 1) = m
    BY <1>1, <2>1, EndedSkips
  <2>3. Ended(s, (e - 1) + 1) = Ended(s, e - 1) + 1
    BY <2>1, EndedCounts
  <2> QED
    BY <2>1, <2>2, <2>3
<1>3. EndOf(s, m + 1) = e
  BY <1>2, EndOfIs
<1>4. SubSeq(s, p + 1, e - 1) \in Seq(Byte)
  BY <1>1
<1> QED
  BY <1>2, <1>3, <1>4, FramedStart DEF Line, Between

-----------------------------------------------------------------------------
\* What is said to them.

LEMMA RepliesAre == Ready \in AnyReply /\ Bye \in AnyReply /\ TooLong \in AnyReply
<1>1. /\ <<"ready">> \in Seq(AnyText) /\ <<"bye">> \in Seq(AnyText)
      /\ <<"line too long">> \in Seq(AnyText)
  BY DEF AnyText
<1> QED
  BY <1>1 DEF Ready, Bye, TooLong, AnyReply

LEMMA NumberedIs ==
    \A n \in Nat : \A line \in Seq(Byte) : Numbered(n, line) \in AnyReply
<1>1. ASSUME NEW line \in Seq(Byte) PROVE line \in Seq(AnyText)
  <2>1. PICK n \in Nat : line \in [1 .. n -> Byte]
    BY SeqDef
  <2>2. line \in [1 .. n -> AnyText]
    BY <2>1 DEF AnyText
  <2> QED
    BY <2>1, <2>2, SeqDef
<1> QED
  BY <1>1 DEF Numbered, AnyReply

LEMMA FramedLines ==
    ASSUME NEW s \in Seq(Byte), NEW p, NEW m, Framed(s, p, m), NEW n \in 1 .. m
    PROVE  Line(s, n) \in Seq(Byte) /\ Numbered(n, Line(s, n)) \in AnyReply
<1>1. p \in Nat /\ m \in Nat /\ p <= Len(s) /\ Len(s) \in Nat
  BY DEF Framed
<1>2. PICK a \in 1 .. p : a = LineStart(s, n)
  BY DEF Framed
<1>3. PICK e \in 1 .. p : e = EndOf(s, n)
  BY DEF Framed
<1>4. SubSeq(s, a, e - 1) \in Seq(Byte)
  BY <1>1
<1>5. Line(s, n) \in Seq(Byte) /\ n \in Nat
  BY <1>1, <1>2, <1>3, <1>4 DEF Line
<1> QED
  BY <1>5, NumberedIs

\* A greeting, and a sequence of replies with one more.
LEMMA GreetedMore ==
    ASSUME NEW a \in AnyReply, NEW m \in Nat, NEW f \in [1 .. m -> AnyReply],
           NEW g \in [1 .. m + 1 -> AnyReply], \A n \in 1 .. m : g[n] = f[n]
    PROVE  <<a>> \o g = Append(<<a>> \o f, g[m + 1])
<1>1. f \in Seq(AnyReply) /\ Len(f) = m /\ g \in Seq(AnyReply) /\ Len(g) = m + 1
  OBVIOUS
<1>2. g[m + 1] \in AnyReply
  OBVIOUS
<1>3. <<a>> \in Seq(AnyReply) /\ Len(<<a>>) = 1 /\ <<a>>[1] = a
  OBVIOUS
<1>4. g = Append(f, g[m + 1])
  BY <1>1, <1>2
<1> QED
  BY <1>1, <1>2, <1>3, <1>4

\* The replies to them, as a function.
Tale(s, m) == [n \in 1 .. m |-> Numbered(n, Line(s, n))]

LEMMA TaleIs ==
    ASSUME NEW s \in Seq(Byte), NEW p, NEW m, Framed(s, p, m)
    PROVE  /\ Tale(s, m) \in [1 .. m -> AnyReply] /\ Told(s, m) = <<Ready>> \o Tale(s, m)
           /\ Told(s, m) \in Seq(AnyReply) /\ m \in Nat
<1>1. m \in Nat
  BY DEF Framed
<1>2. \A n \in 1 .. m : Numbered(n, Line(s, n)) \in AnyReply
  BY FramedLines
<1>3. Tale(s, m) \in [1 .. m -> AnyReply]
  BY <1>2 DEF Tale
<1>4. Tale(s, m) \in Seq(AnyReply) /\ <<Ready>> \in Seq(AnyReply)
  BY <1>1, <1>3, RepliesAre
<1> QED
  BY <1>1, <1>3, <1>4 DEF Told, Tale

\* One line more, which fits the buffer and is not quit, and its reply.
LEMMA FramedMore ==
    ASSUME NEW s \in Seq(Byte), NEW p, NEW m, Framed(s, p, m),
           NEW e \in 1 .. Len(s), p < e, s[e] = "nl", \A j \in p + 1 .. e - 1 : s[j] # "nl",
           NEW line, line = Between(s, p, e), Len(line) < BufSize, ~ IsQuit(line)
    PROVE  /\ Framed(s, e, m + 1)
           /\ Told(s, m + 1) = Append(Told(s, m), Numbered(m + 1, line))
<1>1. p \in Nat /\ m \in Nat /\ Ended(s, p) = m /\ Len(s) \in Nat /\ e \in Nat /\ p <= Len(s)
  BY DEF Framed
<1>2. Ended(s, e) = m + 1 /\ EndOf(s, m + 1) = e /\ Line(s, m + 1) = line /\ line \in Seq(Byte)
  BY FramedLine
<1>3. LineStart(s, m + 1) = p + 1
  BY FramedStart
<1>4. Framed(s, e, m + 1)
  <2>1. ASSUME NEW n \in 1 .. m + 1
        PROVE  /\ LineStart(s, n) \in 1 .. e /\ EndOf(s, n) \in 1 .. e
               /\ s[EndOf(s, n)] = "nl" /\ Ended(s, EndOf(s, n)) = n
               /\ Len(Line(s, n)) < BufSize /\ ~ IsQuit(Line(s, n))
    <3>1. CASE n \in 1 .. m
      <4>1. /\ LineStart(s, n) \in 1 .. p /\ EndOf(s, n) \in 1 .. p
            /\ s[EndOf(s, n)] = "nl" /\ Ended(s, EndOf(s, n)) = n
            /\ Len(Line(s, n)) < BufSize /\ ~ IsQuit(Line(s, n))
        BY <3>1 DEF Framed
      <4>2. 1 .. p \subseteq 1 .. e
        BY <1>1
      <4> QED
        BY <4>1, <4>2
    <3>2. CASE n = m + 1
      BY <1>1, <1>2, <1>3, <3>2
    <3> QED
      BY <1>1, <3>1, <3>2
  <2>2. m + 1 \in Nat /\ e \in 0 .. Len(s)
    BY <1>1
  <2> QED
    BY <1>2, <2>1, <2>2 DEF Framed
<1>5. Told(s, m + 1) = Append(Told(s, m), Numbered(m + 1, line))
  <2>1. Tale(s, m) \in [1 .. m -> AnyReply] /\ Told(s, m) = <<Ready>> \o Tale(s, m)
    BY TaleIs
  <2>2. /\ Tale(s, m + 1) \in [1 .. m + 1 -> AnyReply]
        /\ Told(s, m + 1) = <<Ready>> \o Tale(s, m + 1)
    BY <1>4, TaleIs
  <2>3. \A n \in 1 .. m : Tale(s, m + 1)[n] = Tale(s, m)[n]
    BY <1>1 DEF Tale
  <2>4. Tale(s, m + 1)[m + 1] = Numbered(m + 1, line)
    BY <1>1, <1>2 DEF Tale
  <2>5. <<Ready>> \o Tale(s, m + 1) = Append(<<Ready>> \o Tale(s, m), Tale(s, m + 1)[m + 1])
    BY <1>1, <2>1, <2>2, <2>3, RepliesAre, GreetedMore
  <2> QED
    BY <2>1, <2>2, <2>4, <2>5
<1> QED
  BY <1>4, <1>5

\* Of the lines so far none is final, so the least final line comes later.
LEMMA FramedFinal ==
    ASSUME NEW s \in Seq(Byte), NEW p, NEW m, Framed(s, p, m)
    PROVE  \A n \in Final(s) : n \in Nat /\ n > m
<1>1. m \in Nat
  BY DEF Framed
<1>2. LineCount(s) \in Nat
  BY EndsAre DEF LineCount
<1>3. ASSUME NEW n \in Final(s), n <= m PROVE FALSE
  <2>1. n \in 1 .. LineCount(s) /\ (IsQuit(Line(s, n)) \/ Len(Line(s, n)) >= BufSize)
    BY DEF Final
  <2>2. n \in 1 .. m
    BY <1>1, <1>2, <1>3, <2>1
  <2>3. Len(Line(s, n)) < BufSize /\ ~ IsQuit(Line(s, n))
    BY <2>2 DEF Framed
  <2>4. Len(Line(s, n)) \in Nat
    BY <2>2, FramedLines
  <2> QED
    BY <2>1, <2>3, <2>4, BufSizeAssumption
<1>4. \A n \in Final(s) : n \in Nat
  BY <1>2 DEF Final
<1> QED
  BY <1>1, <1>3, <1>4

\* All of the stream, when no line ends after them.
LEMMA FramedReplies ==
    ASSUME NEW s \in Seq(Byte), NEW p, NEW m, Framed(s, p, m),
           \A j \in p + 1 .. Len(s) : s[j] # "nl"
    PROVE  /\ Unfinished(s) = SubSeq(s, p + 1, Len(s))
           /\ Replies(s) = IF Len(Unfinished(s)) >= BufSize
                           THEN Append(Told(s, m), TooLong) ELSE Told(s, m)
<1>1. p \in Nat /\ m \in Nat /\ Ended(s, p) = m /\ Len(s) \in Nat /\ p <= Len(s)
  BY DEF Framed
<1>2. LineCount(s) = m
  BY <1>1, EndedSkips DEF LineCount
<1>3. Unfinished(s) = SubSeq(s, p + 1, Len(s))
  BY <1>2, FramedStart DEF Unfinished
<1>4. Final(s) = {}
  <2>1. \A n \in Final(s) : n <= m /\ n > m /\ n \in Nat
    BY <1>1, <1>2, FramedFinal DEF Final
  <2> QED
    BY <1>1, <2>1
<1>5. ASSUME NEW n \in 1 .. m PROVE Answer(s, n) = Numbered(n, Line(s, n))
  <2>1. Len(Line(s, n)) < BufSize /\ ~ IsQuit(Line(s, n)) /\ Len(Line(s, n)) \in Nat
    BY FramedLines DEF Framed
  <2> QED
    BY <2>1, BufSizeAssumption DEF Answer
<1>6. [n \in 1 .. LineCount(s) |-> Answer(s, n)] = Tale(s, m)
  BY <1>2, <1>5 DEF Tale
<1>7. Told(s, m) = <<Ready>> \o Tale(s, m) /\ Told(s, m) \in Seq(AnyReply)
  BY TaleIs
<1>8. PICK t \in Seq(AnyReply) : t = Told(s, m)
  BY <1>7
<1>9. t \o <<>> = t /\ t \o <<TooLong>> = Append(t, TooLong)
  BY <1>8, RepliesAre
<1> QED
  BY <1>3, <1>4, <1>6, <1>7, <1>8, <1>9 DEF Replies

\* All of the stream, when the next line is quit: nothing after it counts.
LEMMA FramedQuit ==
    ASSUME NEW s \in Seq(Byte), NEW p, NEW m, Framed(s, p, m),
           NEW e \in 1 .. Len(s), p < e, s[e] = "nl", \A j \in p + 1 .. e - 1 : s[j] # "nl",
           NEW line, line = Between(s, p, e), Len(line) < BufSize, IsQuit(line)
    PROVE  Replies(s) = Append(Told(s, m), Bye)
<1>1. p \in Nat /\ m \in Nat /\ Ended(s, p) = m /\ Len(s) \in Nat /\ e \in Nat /\ p <= Len(s)
  BY DEF Framed
<1>2. Ended(s, e) = m + 1 /\ Line(s, m + 1) = line /\ line \in Seq(Byte)
  BY FramedLine
<1>3. LineCount(s) \in Nat /\ m + 1 <= LineCount(s)
  <2>1. Ended(s, Len(s)) \in Nat
    BY <1>1, EndsAre
  <2>2. e < Len(s) => Ended(s, e) <= Ended(s, Len(s))
    BY <1>1, EndedGrows
  <2> QED
    BY <1>1, <1>2, <2>1, <2>2 DEF LineCount
<1>4. m + 1 \in Final(s)
  BY <1>1, <1>2, <1>3 DEF Final
<1>5. Min(Final(s)) = m + 1
  <2>1. \A n \in Final(s) : n \in Nat /\ m + 1 <= n
    BY <1>1, FramedFinal
  <2> QED
    BY <1>1, <1>4, <2>1 DEF Min
<1> DEFINE f == [n \in 1 .. m + 1 |-> Answer(s, n)]
<1>6. ASSUME NEW n \in 1 .. m PROVE Answer(s, n) = Numbered(n, Line(s, n))
  <2>1. Len(Line(s, n)) < BufSize /\ ~ IsQuit(Line(s, n)) /\ Len(Line(s, n)) \in Nat
    BY FramedLines DEF Framed
  <2> QED
    BY <2>1, BufSizeAssumption DEF Answer
<1>7. Answer(s, m + 1) = Bye
  <2>1. Len(line) \in Nat
    BY <1>2
  <2> QED
    BY <1>2, <2>1, BufSizeAssumption DEF Answer
<1>8. Tale(s, m) \in [1 .. m -> AnyReply] /\ Told(s, m) = <<Ready>> \o Tale(s, m)
  BY TaleIs
<1>9. f[m + 1] = Bye /\ \A n \in 1 .. m : f[n] = Tale(s, m)[n]
  BY <1>1, <1>6, <1>7 DEF Tale
<1>10. f \in [1 .. m + 1 -> AnyReply]
  <2>1. \A n \in 1 .. m + 1 : f[n] \in AnyReply
    <3> HIDE DEF f
    <3>1. ASSUME NEW n \in 1 .. m PROVE Tale(s, m)[n] \in AnyReply
      BY <1>8
    <3>2. \A n \in 1 .. m + 1 : n \in 1 .. m \/ n = m + 1
      BY <1>1
    <3> QED
      BY <1>9, <3>1, <3>2, RepliesAre
  <2> QED
    BY <2>1
<1>11. <<Ready>> \o f = Append(Told(s, m), Bye)
  <2> HIDE DEF f
  <2>1. <<Ready>> \o f = Append(<<Ready>> \o Tale(s, m), f[m + 1])
    BY <1>1, <1>8, <1>9, <1>10, RepliesAre, GreetedMore
  <2> QED
    BY <1>8, <1>9, <2>1
<1> QED
  BY <1>4, <1>5, <1>11 DEF Replies

-----------------------------------------------------------------------------
\* Flattening a sequence of sequences.

\* Induction, as a fact about sets: a set that has 0 and with every number the
\* next has every number, for there is no least number that it has not.
LEMMA NatSet ==
    ASSUME NEW T, 0 \in T, \A n \in Nat : n \in T => n + 1 \in T
    PROVE  Nat \subseteq T
<1> DEFINE less == {ss \in Nat \X Nat : ss[1] < ss[2]}
           rest == Nat \ T
<1>1. SUFFICES ASSUME rest # {} PROVE FALSE
  OBVIOUS
<1>2. IsWellFoundedOn(less, Nat)
  BY NatLessThanWellFounded DEF OpToRel
<1>3. PICK x \in rest : \A y \in rest : ~ (<<y, x>> \in less)
  <2> HIDE DEF less
  <2>1. rest \subseteq Nat /\ rest # {}
    BY <1>1
  <2> HIDE DEF rest
  <2> QED
    BY <1>2, <2>1, WFMin
<1>4. x \in Nat /\ x # 0 /\ x \notin T
  BY <1>3
<1>5. x - 1 \in Nat /\ x - 1 \notin rest
  <2>1. x - 1 \in Nat /\ x - 1 < x
    BY <1>4
  <2>2. <<x - 1, x>> \in less
    BY <1>4, <2>1
  <2> QED
    BY <1>3, <2>1, <2>2
<1> QED
  BY <1>4, <1>5

\* A function that flattens s, as FlattenSeq builds it.
Flattens(f, s) == f = [i \in 1 .. Len(s) |-> IF i = 1 THEN s[i] ELSE f[i - 1] \o s[i]]

LEMMA FlattenIs ==
    ASSUME NEW s, Len(s) # 0
    PROVE  FlattenSeq(s) = (CHOOSE f : Flattens(f, s))[Len(s)]
BY DEF FlattenSeq, Flattens

Agree(f, g, n) == \A i \in 1 .. n : f[i] = g[i]

\* Two functions that flatten a sequence agree as far as the sequences do.
LEMMA FlattensOnce ==
    ASSUME NEW s, NEW t, Len(s) \in Nat, Len(t) \in Nat, NEW n \in Nat,
           n <= Len(s), n <= Len(t), Agree(s, t, n),
           NEW f, Flattens(f, s), NEW g, Flattens(g, t)
    PROVE  Agree(f, g, n)
<1> DEFINE T == {i \in Nat : i \in 1 .. n => f[i] = g[i]}
<1>1. 0 \in T
  OBVIOUS
<1>2. ASSUME NEW i \in Nat, i \in T PROVE i + 1 \in T
  <2>1. SUFFICES ASSUME i + 1 \in 1 .. n PROVE f[i + 1] = g[i + 1]
    OBVIOUS
  <2>2. i + 1 \in 1 .. Len(s) /\ i + 1 \in 1 .. Len(t) /\ (i + 1) - 1 = i
    BY <2>1
  <2>3. /\ f[i + 1] = IF i + 1 = 1 THEN s[i + 1] ELSE f[(i + 1) - 1] \o s[i + 1]
        /\ g[i + 1] = IF i + 1 = 1 THEN t[i + 1] ELSE g[(i + 1) - 1] \o t[i + 1]
    BY <2>2 DEF Flattens
  <2>4. s[i + 1] = t[i + 1]
    BY <2>1 DEF Agree
  <2>5. CASE i = 0
    BY <2>3, <2>4, <2>5
  <2>6. CASE i # 0
    <3>1. f[i] = g[i] /\ i + 1 # 1
      BY <1>2, <2>1, <2>6
    <3> QED
      BY <2>2, <2>3, <2>4, <3>1
  <2> QED
    BY <2>5, <2>6
<1>3. Nat \subseteq T
  <2> HIDE DEF T
  <2> QED
    BY <1>1, <1>2, NatSet
<1> QED
  BY <1>3 DEF Agree

\* The first m steps of such a function.
Builds(f, s, m) ==
    \A i \in 1 .. m : f[i] = IF i = 1 THEN s[i] ELSE f[i - 1] \o s[i]

\* Every sequence of sequences is flattened by some function.
LEMMA FlattensSome ==
    ASSUME NEW X, NEW s \in Seq(Seq(X))
    PROVE  \E f \in [1 .. Len(s) -> Seq(X)] : Flattens(f, s)
<1> DEFINE T == {m \in Nat : m <= Len(s) => \E f \in [1 .. m -> Seq(X)] : Builds(f, s, m)}
<1>1. 0 \in T
  <2>1. [i \in 1 .. 0 |-> <<>>] \in [1 .. 0 -> Seq(X)]
    OBVIOUS
  <2>2. \A f : Builds(f, s, 0)
    BY DEF Builds
  <2> QED
    BY <2>1, <2>2
<1>2. ASSUME NEW m \in Nat, m \in T PROVE m + 1 \in T
  <2>1. SUFFICES ASSUME m + 1 <= Len(s)
                 PROVE  \E f \in [1 .. m + 1 -> Seq(X)] : Builds(f, s, m + 1)
    OBVIOUS
  <2>2. Len(s) \in Nat /\ m <= Len(s)
    BY <2>1
  <2>3. PICK f \in [1 .. m -> Seq(X)] : Builds(f, s, m)
    BY <1>2, <2>2
  <2>4. s[m + 1] \in Seq(X)
    BY <2>1, <2>2
  <2> DEFINE last == IF m = 0 THEN s[m + 1] ELSE f[m] \o s[m + 1]
             g == [i \in 1 .. m + 1 |-> IF i = m + 1 THEN last ELSE f[i]]
  <2>5. last \in Seq(X)
    <3>1. m # 0 => f[m] \in Seq(X)
      BY <2>3
    <3> QED
      BY <2>4, <3>1, ConcatProperties
  <2>6. g \in [1 .. m + 1 -> Seq(X)]
    <3> HIDE DEF last
    <3> QED
      BY <2>3, <2>5
  <2>7. ASSUME NEW i \in 1 .. m + 1
        PROVE  g[i] = IF i = 1 THEN s[i] ELSE g[i - 1] \o s[i]
    <3>1. CASE i = m + 1
      <4>1. g[i] = last
        BY <3>1
      <4>2. i # 1 => g[i - 1] = f[m] /\ m # 0
        BY <3>1
      <4> QED
        BY <3>1, <4>1, <4>2
    <3>2. CASE i # m + 1
      <4>1. i \in 1 .. m /\ g[i] = f[i]
        BY <3>2
      <4>2. i # 1 => g[i - 1] = f[i - 1]
        BY <4>1
      <4>3. f[i] = IF i = 1 THEN s[i] ELSE f[i - 1] \o s[i]
        BY <2>3, <4>1 DEF Builds
      <4> QED
        BY <4>1, <4>2, <4>3
    <3> QED
      BY <3>1, <3>2
  <2> HIDE DEF g
  <2> QED
    BY <2>6, <2>7 DEF Builds
<1>3. Nat \subseteq T
  <2> HIDE DEF T
  <2> QED
    BY <1>1, <1>2, NatSet
<1>4. Len(s) \in Nat
  OBVIOUS
<1>5. PICK f \in [1 .. Len(s) -> Seq(X)] : Builds(f, s, Len(s))
  BY <1>3, <1>4
<1>6. Flattens(f, s)
  BY <1>5 DEF Flattens, Builds
<1> QED
  BY <1>6

\* What FlattenSeq gives for a sequence with one element more.
LEMMA FlattenMore ==
    ASSUME NEW X, NEW s \in Seq(Seq(X)), NEW x \in Seq(X)
    PROVE  /\ FlattenSeq(s) \in Seq(X)
           /\ FlattenSeq(Append(s, x)) = FlattenSeq(s) \o x
<1>1. PICK n \in Nat : n = Len(s)
  OBVIOUS
<1>2. PICK t \in Seq(Seq(X)) : t = Append(s, x)
  BY AppendProperties
<1>3. PICK f : f = CHOOSE h : Flattens(h, s)
  OBVIOUS
<1>4. PICK g : g = CHOOSE h : Flattens(h, t)
  OBVIOUS
<1>5. /\ Len(t) = n + 1 /\ t[n + 1] = x /\ n \in Nat
      /\ \A i \in 1 .. n : t[i] = s[i]
  BY <1>1, <1>2
<1>6. Flattens(f, s) /\ Flattens(g, t)
  BY <1>3, <1>4, FlattensSome
<1>7. FlattenSeq(t) = g[n + 1]
  <2> QED
    BY <1>5, <1>4, FlattenIs
<1>8. n # 0 => FlattenSeq(s) = f[n]
  BY <1>1, <1>3, FlattenIs
<1>9. g[n + 1] = IF n + 1 = 1 THEN t[n + 1] ELSE g[(n + 1) - 1] \o t[n + 1]
  <2>1. n + 1 \in 1 .. Len(t)
    BY <1>5
  <2> QED
    BY <1>6, <2>1 DEF Flattens
<1>10. n # 0 => g[n] = f[n]
  <2>1. Agree(f, g, n)
    <3>1. n <= Len(s) /\ n <= Len(t) /\ Agree(s, t, n)
      BY <1>1, <1>5 DEF Agree
    <3>2. Flattens(f, s) /\ Flattens(g, t)
      BY <1>6
    <3>3. Len(s) \in Nat /\ Len(t) \in Nat
      BY <1>1, <1>5
    <3> QED
      BY <3>1, <3>2, <3>3, FlattensOnce
  <2> QED
    BY <2>1 DEF Agree
<1>11. FlattenSeq(s) \in Seq(X)
  <2>1. CASE n = 0
    <3>1. FlattenSeq(s) = s
      BY <1>1, <2>1 DEF FlattenSeq
    <3>2. s = <<>>
      BY <1>1, <2>1, EmptySeq
    <3> QED
      BY <3>1, <3>2
  <2>2. CASE n # 0
    <3>1. PICK h \in [1 .. n -> Seq(X)] : Flattens(h, s)
      BY <1>1, FlattensSome
    <3>2. f[n] = h[n]
      <4>1. Agree(f, h, n)
        <5>1. Agree(s, s, n) /\ Len(s) \in Nat /\ n <= Len(s)
          BY <1>1 DEF Agree
        <5> QED
          BY <1>6, <3>1, <5>1, FlattensOnce
      <4> QED
        BY <2>2, <4>1 DEF Agree
    <3>3. h[n] \in Seq(X)
      BY <1>5, <2>2, <3>1
    <3> QED
      BY <1>8, <2>2, <3>2, <3>3
  <2> QED
    BY <2>1, <2>2
<1>12. FlattenSeq(t) = FlattenSeq(s) \o x
  <2>1. CASE n = 0
    <3>1. FlattenSeq(t) = x
      BY <1>5, <1>7, <1>9, <2>1
    <3>2. FlattenSeq(s) = s /\ s = <<>>
      BY <1>1, <2>1, EmptySeq DEF FlattenSeq
    <3>3. <<>> \o x = x
      OBVIOUS
    <3> QED
      BY <3>1, <3>2, <3>3
  <2>2. CASE n # 0
    <3>1. n + 1 # 1 /\ (n + 1) - 1 = n
      BY <2>2
    <3>2. g[n + 1] = g[n] \o x
      BY <1>5, <1>9, <3>1
    <3> QED
      BY <1>7, <1>8, <1>10, <2>2, <3>2
  <2> QED
    BY <2>1, <2>2
<1> QED
  BY <1>11, <1>12, <1>2

-----------------------------------------------------------------------------
\* Least elements, and sequences cut and joined.

LEMMA MinIs ==
    ASSUME NEW S \in SUBSET Nat, NEW x \in S
    PROVE  Min(S) \in S /\ \A y \in S : Min(S) <= y
<1> DEFINE less == {ss \in Nat \X Nat : ss[1] < ss[2]}
<1>1. IsWellFoundedOn(less, Nat)
  BY NatLessThanWellFounded DEF OpToRel
<1>2. PICK m \in S : \A y \in S : ~ (<<y, m>> \in less)
  <2> HIDE DEF less
  <2> QED
    BY <1>1, WFMin
<1>3. ASSUME NEW y \in S PROVE m <= y
  <2>1. y \in Nat /\ m \in Nat
    BY <1>2
  <2>2. y < m => <<y, m>> \in less
    BY <2>1
  <2>3. ~ (<<y, m>> \in less)
    BY <1>2
  <2> HIDE DEF less
  <2> QED
    BY <2>1, <2>2, <2>3
<1> QED
  BY <1>2, <1>3 DEF Min

LEMMA MinOfTwo ==
    ASSUME NEW a \in Nat, NEW b \in Nat
    PROVE  Min({a, b}) \in Nat /\ Min({a, b}) <= a /\ Min({a, b}) <= b
<1>1. PICK S \in SUBSET Nat : S = {a, b}
  OBVIOUS
<1>2. Min(S) \in S /\ \A y \in S : Min(S) <= y
  BY <1>1, MinIs
<1> QED
  BY <1>1, <1>2

\* Three sequences, however they are joined.
Joined(a, b, c) == (a \o b) \o c = a \o (b \o c)

LEMMA ThreeJoined ==
    ASSUME NEW X, NEW a \in Seq(X), NEW b \in Seq(X), NEW c \in Seq(X)
    PROVE  Joined(a, b, c)
BY ConcatAssociative DEF Joined

\* Cells that move on along the way, and cells that join its end.
LEMMA CutIs ==
    ASSUME NEW X, NEW x \in Seq(X), NEW n \in 0 .. Len(x)
    PROVE  /\ SubSeq(x, 1, n) \in Seq(X) /\ SubSeq(x, n + 1, Len(x)) \in Seq(X)
           /\ SubSeq(x, 1, n) \o SubSeq(x, n + 1, Len(x)) = x
<1>1. PICK a \in Seq(X) : a = SubSeq(x, 1, n)
  <2>1. SubSeq(x, 1, n) \in Seq(X)
    OBVIOUS
  <2> QED
    BY <2>1
<1>2. PICK b \in Seq(X) : b = SubSeq(x, n + 1, Len(x))
  <2>1. SubSeq(x, n + 1, Len(x)) \in Seq(X)
    OBVIOUS
  <2> QED
    BY <2>1
<1>3. /\ Len(a) = n /\ Len(b) = Len(x) - n
      /\ \A j \in 1 .. n : a[j] = x[j]
      /\ \A j \in 1 .. Len(x) - n : b[j] = x[n + j]
  BY <1>1, <1>2
<1>4. PICK c \in Seq(X) : c = a \o b
  <2>1. a \o b \in Seq(X)
    BY ConcatProperties
  <2> QED
    BY <2>1
<1>5. Len(c) = Len(x) /\ \A j \in 1 .. Len(c) : c[j] = IF j <= n THEN a[j] ELSE b[j - n]
  <2>1. a \in Seq(X) /\ b \in Seq(X)
    BY <1>1, <1>2
  <2>2. /\ Len(c) = Len(a) + Len(b)
        /\ \A j \in 1 .. Len(c) : c[j] = IF j <= Len(a) THEN a[j] ELSE b[j - Len(a)]
    BY <1>4, <2>1, ConcatProperties
  <2> QED
    BY <1>3, <2>2
<1>6. ASSUME NEW j \in 1 .. Len(x) PROVE c[j] = x[j]
  <2>1. CASE j <= n
    BY <1>3, <1>5, <2>1
  <2>2. CASE ~ (j <= n)
    <3>1. j - n \in 1 .. Len(x) - n /\ n + (j - n) = j
      BY <2>2
    <3>2. b[j - n] = x[n + (j - n)]
      BY <1>3, <3>1
    <3> QED
      BY <1>5, <2>2, <3>1, <3>2
  <2> QED
    BY <2>1, <2>2
<1>7. c = x
  BY <1>5, <1>6
<1> QED
  BY <1>1, <1>2, <1>4, <1>7
=============================================================================
