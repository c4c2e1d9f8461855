----------------------------- MODULE LineFraming -----------------------------
(***************************************************************************)
(* What the echo servers of weeks 40 and 47 answer to a stream of bytes:    *)
(* one numbered reply for each line, "bye" to a line that says quit, and    *)
(* "line too long" to a line that does not fit the buffer, either of which  *)
(* ends the conversation.  A stream has no message boundaries, so the       *)
(* answer is a function of the stream and not of how recv cuts it.          *)
(*                                                                          *)
(* A byte is "nl", the newline, "x", any other byte, or "quit", the four    *)
(* bytes of that word counted as one.                                       *)
(***************************************************************************)
EXTENDS Naturals, Sequences, FiniteSets, FiniteSetsExt, SequencesExt

CONSTANT BufSize    \* MAX_LINE in week 40, BUF_SIZE in week 47

ASSUME BufSizeAssumption == BufSize \in Nat \ {0}

Byte == {"x", "quit", "nl"}

Ready == [no |-> 0, text |-> <<"ready">>]
Bye == [no |-> 0, text |-> <<"bye">>]
TooLong == [no |-> 0, text |-> <<"line too long">>]
Numbered(n, line) == [no |-> n, text |-> line]

IsQuit(line) == line = <<"quit">>

\* memchr(start, '\n', ...): where the newlines of s are, from start on.
Newlines(s, start) == {k \in start .. Len(s) : s[k] = "nl"}

\* How many lines end within the first k bytes, and where the n-th line ends.
Ended(s, k) == Cardinality({j \in 1 .. k : s[j] = "nl"})
EndOf(s, n) == CHOOSE k \in Newlines(s, 1) : Ended(s, k) = n

\* The lines of a stream, and the beginning of a line that may follow.
LineStart(s, n) == IF n = 1 THEN 1 ELSE EndOf(s, n - 1) + 1
Line(s, n) == SubSeq(s, LineStart(s, n), EndOf(s, n) - 1)
LineCount(s) == Ended(s, Len(s))
Unfinished(s) == SubSeq(s, LineStart(s, LineCount(s) + 1), Len(s))

\* The lines that end the conversation.
Final(s) ==
    {n \in 1 .. LineCount(s) :
        IsQuit(Line(s, n)) \/ Len(Line(s, n)) >= BufSize}

\* The answer to the n-th line.
Answer(s, n) ==
    IF Len(Line(s, n)) >= BufSize THEN TooLong
    ELSE IF IsQuit(Line(s, n)) THEN Bye
    ELSE Numbered(n, Line(s, n))

\* Everything the server says to a client that sent s.
Replies(s) ==
    IF Final(s) # {}
    THEN <<Ready>> \o [n \in 1 .. Min(Final(s)) |-> Answer(s, n)]
    ELSE <<Ready>> \o [n \in 1 .. LineCount(s) |-> Answer(s, n)]
           \o (IF Len(Unfinished(s)) >= BufSize THEN <<TooLong>> ELSE <<>>)

-----------------------------------------------------------------------------
\* For the invariants of the servers: what is said, how far a stream is worked
\* off, and what has been said then.
AnyText == Byte \cup {"ready", "bye", "line too long", "timeout"}
AnyReply == [no : Nat, text : Seq(AnyText)]

\* The first m lines of s, none of which is final, end at p.
Framed(s, p, m) ==
    /\ p \in 0 .. Len(s) /\ Ended(s, p) = m /\ m \in Nat
    /\ p # 0 => s[p] = "nl"
    /\ \A n \in 1 .. m :
         /\ LineStart(s, n) \in 1 .. p /\ EndOf(s, n) \in 1 .. p
         /\ s[EndOf(s, n)] = "nl" /\ Ended(s, EndOf(s, n)) = n
         /\ Len(Line(s, n)) < BufSize /\ ~ IsQuit(Line(s, n))

Told(s, m) == <<Ready>> \o [n \in 1 .. m |-> Numbered(n, Line(s, n))]
=============================================================================
