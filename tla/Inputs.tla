--------------------------------- MODULE Inputs ---------------------------------
(***************************************************************************)
(* What programs take from outside: the prompt of week 8 (prompt.c), the    *)
(* number of week 16 (params.c), the binary records of week 26 (files.c).   *)
(* A behaviour asks for one of them.  Text is characters of the classes     *)
(* that are told apart.  scanf with %d is the C library's.                  *)
(***************************************************************************)
EXTENDS Integers, SequencesExt

CONSTANTS
    IntWidth,          \* 32
    LongWidth,         \* 64, of long and of size_t
    RecordSize,        \* sizeof(Record), which is even
    TextLength,        \* bound: the characters of an input
    Low, High          \* the range asked for, 1 and 100

VARIABLES arg, result

vars == <<arg, result>>

Digits == {"1", "5"}
Texts(C) == UNION {[1 .. n -> C] : n \in 0 .. TextLength}
SIZE_MAX == 2 ^ LongWidth - 1
LONG_MAX == 2 ^ (LongWidth - 1) - 1
INT_MAX == 2 ^ (IntWidth - 1) - 1

\* size: of the file after fwrite and a flush that failed or not; fails: the call
\* that fails when it is read.
Init ==
    /\ result = <<>>
    /\ \/ arg \in [f : {"prompt"}, text : Texts({" ", "newline", "a"} \cup Digits)]
       \/ arg \in [f : {"parse"}, text : Texts({" ", "-", "a"} \cup Digits)]
       \/ arg \in [f : {"binary"}, count : 0 .. 3, size : 0 .. 3 * RecordSize, closed : BOOLEAN,
                   index : 0 .. SIZE_MAX, fails : {"none", "fopen", "fseek", "fread"}]

-----------------------------------------------------------------------------
Blank == {" ", "newline"}
From(s, k) == SubSeq(s, k, Len(s))
Skip(s, C) == From(s, Min({k \in 1 .. Len(s) + 1 : k <= Len(s) => s[k] \notin C}))
Leading(s) == Min({n \in 0 .. Len(s) : n < Len(s) => s[n + 1] \notin Digits})
Value(s) == FoldLeft(LAMBDA v, c : 10 * v + (IF c = "1" THEN 1 ELSE 5), 0, s)

\* What is left after the line, if it ends.
discard_line(s) == Skip(s, {" ", "a"} \cup Digits)

\* scanf skips blanks, newlines too, and leaves what is not a number.
read_int_in_range[s \in Seq({" ", "newline", "a"} \cup Digits)] ==
    LET t == Skip(s, Blank)
        n == Leading(t)
        value == Value(SubSeq(t, 1, n))
        rest == discard_line(From(t, n + 1))
    IN  IF t = <<>> \/ rest = <<>> THEN <<>>
        ELSE IF n > 0 /\ value \in Low .. High THEN <<value>>
        ELSE read_int_in_range[Tail(rest)]

\* strtol is within a long; without digits its end is its beginning.
parse_int(text) ==
    LET s == Skip(text, {" "})
        negative == s # <<>> /\ Head(s) = "-"
        digits == IF negative THEN Tail(s) ELSE s
        n == Leading(digits)
        value == (IF negative THEN -1 ELSE 1) * Value(SubSeq(digits, 1, n))
    IN  IF \/ s = <<>> \/ n = 0 \/ n < Len(digits)
           \/ value \notin -LONG_MAX - 1 .. LONG_MAX
           \/ value \notin -INT_MAX - 1 .. INT_MAX
        THEN <<>> ELSE <<value>>

\* fwrite counts whole records, fclose writes the rest out.
write_binary(count, size, closed) == size \div RecordSize = count /\ closed

\* The offset of the bytes that were read, if the call succeeds.
AsLong(v) == ((v + LONG_MAX + 1) % (SIZE_MAX + 1)) - LONG_MAX - 1
read_record_at(index, size, fails) ==
    LET total == size \div RecordSize
        offset == AsLong((index * RecordSize) % (SIZE_MAX + 1))
    IN  IF \/ fails # "none" \/ AsLong(index) >= total
           \/ offset < 0 \/ offset + RecordSize > size
        THEN <<>> ELSE <<offset>>

Result ==
    CASE arg.f = "prompt" -> read_int_in_range[arg.text]
      [] arg.f = "parse" -> parse_int(arg.text)
      [] arg.f = "binary" -> [wrote |-> write_binary(arg.count, arg.size, arg.closed),
                              read |-> read_record_at(arg.index, arg.size, arg.fails)]

Call == result = <<>> /\ result' = <<Result>> /\ UNCHANGED arg

Next == Call

-----------------------------------------------------------------------------
\* The lines that end, what is after the last newline left out, without the
\* blanks in front.
Lines(s) ==
    LET ends == {k \in DOMAIN s : s[k] = "newline"}
        starts == {1} \cup {k + 1 : k \in ends}
    IN  [j \in 1 .. Cardinality(ends) |->
            LET end == CHOOSE e \in ends : Cardinality({k \in ends : k <= e}) = j
                start == Max({b \in starts : b <= end})
            IN  Skip(SubSeq(s, start, end - 1), {" "})]

\* The prompt gives the number of the first line that begins with one in range,
\* and none if there is no such line: nothing that was typed wrong is read again
\* or swallows the next line.  A number is accepted when the text is blanks, a
\* sign and digits with a value an int can hold, and nothing else.  A record read
\* back is the one at its index, a torn one never is, and after a write that
\* succeeded all are there.  (Beyond LONG_MAX an index may pass as a smaller one.)
InputsAreTaken ==
    LET r == result[1] IN
    result # <<>> =>
      CASE arg.f = "prompt" ->
             LET fit == SelectSeq(Lines(arg.text), LAMBDA l :
                          Leading(l) > 0 /\ Value(SubSeq(l, 1, Leading(l))) \in Low .. High)
             IN  r = IF fit = <<>> THEN <<>>
                     ELSE <<Value(SubSeq(Head(fit), 1, Leading(Head(fit))))>>
        [] arg.f = "parse" ->
             r = LET cuts == {k \in 0 .. Len(arg.text) - 1 :
                         /\ \A j \in 1 .. k : arg.text[j] = " " \/ (j = k /\ arg.text[j] = "-")
                         /\ \A j \in k + 1 .. Len(arg.text) : arg.text[j] \in Digits}
                     k == CHOOSE c \in cuts : TRUE
                     magnitude == Value(From(arg.text, k + 1))
                     value == IF k > 0 /\ arg.text[k] = "-" THEN -magnitude ELSE magnitude
                 IN  IF cuts # {} /\ value >= -INT_MAX - 1 /\ value <= INT_MAX
                     THEN <<value>> ELSE <<>>
        [] arg.f = "binary" ->
             /\ arg.index <= LONG_MAX =>
                  /\ r.read # <<>> => r.read = <<arg.index * RecordSize>>
                  /\ r.wrote /\ arg.fails = "none" => (r.read # <<>>) = (arg.index < arg.count)
             /\ r.read # <<>> => r.read[1] % RecordSize = 0 /\ r.read[1] + RecordSize <= arg.size
=============================================================================
