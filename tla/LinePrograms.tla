----------------------------- MODULE LinePrograms -----------------------------
(***************************************************************************)
(* The programs that read text line by line with fgets into a buffer:       *)
(* scale of week 23 (variant2.c), the reader of records of week 26          *)
(* (files.c), double_numbers of week 27 (errors.c) and the filter of week   *)
(* 31 (filter.c).  A behaviour is one run of one of them.                   *)
(*                                                                          *)
(* A line is its length, what its text is, and whether a newline ends it    *)
(* (only the last line of a stream may lack one).  A line in the output is  *)
(* named by the stream it came from and its number there.  Every call that  *)
(* takes a resource, reads, writes or closes may fail.                      *)
(***************************************************************************)
EXTENDS Integers, SequencesExt

CONSTANTS
    LineMax,           \* sizeof line: 256 and 512
    Capacity,          \* records[16] of week 26
    Limits,            \* bound: the values of -n and FILTER_MAX; 0 is unlimited
    MaxLines           \* bound: the lines of a stream

Texts == {"number", "spaced", "trailing", "word", "blank", "comment"}

\* Inputs: lines of each text and of each length that matters.  LineMax - 1
\* characters fill the buffer.
Short(texts) ==
    {[text |-> t, length |-> IF t = "blank" THEN 0 ELSE 1, newline |-> TRUE] : t \in texts}
Long(newline) ==
    {[text |-> "number", length |-> n, newline |-> newline] : n \in {LineMax - 2, LineMax - 1}}
Streams(texts, most) ==
    LET ended == Short(texts) \cup Long(TRUE)
        full(n) == UNION {[1 .. i -> ended] : i \in 0 .. n}
    IN  full(most) \cup UNION {{Append(s, l) : s \in full(most - 1)} : l \in Long(FALSE)}

VARIABLES
    program,           \* never changes, nor do the four below
    stdin, file,       \* what there is to read
    operands,          \* the streams to read, in order
    toFile,            \* filter -o
    maximum,           \* filter's limit
    pc,
    k, pos,            \* the operand being read, the lines taken from it
    stdinPos,          \* the lines already taken from standard input
    out,               \* the lines written
    count, rejected,   \* accepted (or emitted) and rejected lines
    open,              \* what is open or allocated
    status, lines_out, \* the exit status or result, and double_numbers' output
    failed             \* history: a system call failed

input == <<program, stdin, file, operands, toFile>>
work == <<k, pos, stdinPos, out, count, rejected>>
outcome == <<status, lines_out, failed>>
vars == <<program, stdin, file, operands, toFile, maximum, pc, k, pos, stdinPos, out,
          count, rejected, open, status, lines_out, failed>>

Init ==
    /\ program \in {"scale", "records", "double", "filter"}
    /\ stdin \in Streams(IF program = "filter" THEN {"number"} ELSE Texts, MaxLines)
    /\ operands \in CASE program = "scale" -> {<<"-">>}
                      [] program = "filter" -> {<<"-">>, <<"-", "-">>, <<"gone", "a">>, <<"a", "-">>}
                      [] OTHER -> {<<"a">>}
    /\ file \in IF Len(operands) = 2 THEN Streams({"number"}, MaxLines - 1) ELSE {stdin}
    /\ toFile \in BOOLEAN /\ (program # "filter" => toFile = FALSE)
    /\ maximum = 0
    /\ pc = IF program = "filter" THEN "configure" ELSE "acquire"
    /\ k = 1 /\ pos = 0 /\ stdinPos = 0
    /\ out = <<>> /\ count = 0 /\ rejected = 0
    /\ open = {}
    /\ status = "ok" /\ lines_out = -1 /\ failed = FALSE

-----------------------------------------------------------------------------
\* A definition whose name starts with "Bug" is a mistake the definition after
\* it could have had; no action uses it.

None == -1             \* not given
Invalid == -2          \* not a number, or a negative one

\* "Layer 1: built-in defaults. Layer 3: the environment. Layer 4: options."
Layered(env, option) ==
    IF option # None THEN option ELSE IF env # None THEN env ELSE 0

Configure ==
    /\ pc = "configure"
    /\ \E env, option \in Limits \cup {None, Invalid} :
         IF Invalid \in {env, option}
         THEN pc' = "done" /\ status' = "usage" /\ UNCHANGED maximum
         ELSE pc' = "acquire" /\ maximum' = Layered(env, option) /\ UNCHANGED status
    /\ UNCHANGED <<input, work, open, lines_out, failed>>

\* What is taken before the first line, in order.
Needed ==
    CASE program = "double" -> <<"in", "out", "buffer">>
      [] program = "records" -> <<"in">>
      [] program = "filter" -> IF toFile THEN <<"out">> ELSE <<>>
      [] OTHER -> <<>>

Missing == {j \in DOMAIN Needed : Needed[j] \notin open}
NextNeeded == Needed[Min(Missing)]

Acquire ==
    /\ pc = "acquire"
    /\ IF Missing = {}
       THEN pc' = (IF program = "filter" THEN "operand" ELSE "read") /\ UNCHANGED open
       ELSE open' = open \cup {NextNeeded} /\ UNCHANGED pc
    /\ UNCHANGED <<input, maximum, work, outcome>>

AcquireFails ==
    /\ pc = "acquire" /\ Missing # {}
    /\ status' = CASE program = "double" ->
                          IF NextNeeded = "buffer" THEN "FC_NO_MEMORY" ELSE "FC_ERRNO"
                   [] program = "records" -> "ok"            \* "return 0" records
                   [] OTHER -> "failure"
    /\ pc' = IF program = "double" THEN "cleanup" ELSE "done"
    /\ failed' = TRUE
    /\ UNCHANGED <<input, maximum, work, open, lines_out>>

\* filter: the operands in turn; one that cannot be opened is passed over.
Operand ==
    /\ pc = "operand"
    /\ IF k > Len(operands) THEN pc' = "cleanup" /\ UNCHANGED <<k, open, status>>
       ELSE IF operands[k] = "gone"
            THEN k' = k + 1 /\ status' = "failure" /\ UNCHANGED <<pc, open>>
            ELSE pc' = "read" /\ open' = open \cup ({"in"} \ {operands[k]})
                              /\ UNCHANGED <<k, status>>
    /\ pos' = IF k <= Len(operands) /\ operands[k] = "-" THEN stdinPos ELSE 0
    /\ UNCHANGED <<input, maximum, stdinPos, out, count, rejected, lines_out, failed>>

-----------------------------------------------------------------------------
Stream == IF operands[k] = "-" THEN stdin ELSE file

\* fgets stops after a newline or LineMax - 1 characters; feof is set only if it
\* wanted to read past the end.
SeesNewline(l) == l.newline /\ l.length + 1 <= LineMax - 1
SeesEnd(l) == ~ l.newline /\ l.length < LineMax - 1
BugTooLong(l) == ~ SeesNewline(l)
TooLong(l) == ~ SeesNewline(l) /\ ~ SeesEnd(l)

\* parse_double allows spaces after the number, sscanf anything, strtol nothing.
Accepted ==
    CASE program = "scale" -> {"number", "spaced"}
      [] program = "records" -> {"number", "spaced", "trailing"}
      [] program = "double" -> {"number"}
      [] program = "filter" -> Texts
Ignored == CASE program \in {"scale", "records"} -> {"blank", "comment"}
             [] program = "double" -> {"blank"}
             [] program = "filter" -> {}

\* What becomes of a line; "FC_..." ends the run.
Verdict(l) ==
    IF TooLong(l) /\ program # "filter"                  \* filter only cuts it
    THEN IF program = "double" THEN "FC_TOO_LONG" ELSE "reject"
    ELSE IF l.text \in Ignored THEN "ignore"
    ELSE IF l.text \in Accepted THEN "accept"
    ELSE IF program = "double" THEN "FC_BAD_FORMAT" ELSE "reject"

\* files.c asks before it reads, filter.c after.
LimitReached == maximum > 0 /\ count >= maximum
Full == program = "records" /\ count = Capacity

Take == stdinPos' = IF operands[k] = "-" THEN pos + 1 ELSE stdinPos

ReadLine ==
    /\ pc = "read" /\ pos < Len(Stream) /\ ~ Full
    /\ pos' = pos + 1 /\ Take
    /\ LET verdict == Verdict(Stream[pos + 1]) IN
       /\ pc' = IF LimitReached THEN "end"
                ELSE IF verdict \in {"accept", "reject", "ignore"} THEN "read" ELSE "cleanup"
       /\ status' = IF pc' = "cleanup" THEN verdict ELSE status
       /\ out' = IF verdict = "accept" /\ ~ LimitReached
                 THEN Append(out, <<operands[k], pos + 1>>) ELSE out
       /\ count' = Len(out')
       /\ rejected' = IF verdict = "reject" THEN rejected + 1 ELSE rejected
    /\ UNCHANGED <<input, maximum, k, open, lines_out, failed>>

\* fprintf is tested by double and filter; scale does not ask.
WriteFails ==
    /\ pc = "read" /\ pos < Len(Stream) /\ program \in {"double", "filter"}
    /\ ~ LimitReached /\ Verdict(Stream[pos + 1]) = "accept"
    /\ pos' = pos + 1 /\ Take
    /\ pc' = IF program = "double" THEN "cleanup" ELSE "next"
    /\ status' = IF program = "double" THEN "FC_ERRNO" ELSE "failure"
    /\ failed' = TRUE
    /\ UNCHANGED <<input, maximum, k, out, count, rejected, open, lines_out>>

\* fgets returned NULL, or nothing more is wanted.
EndOfInput ==
    /\ pc \in {"read", "end"}
    /\ pc = "read" => pos = Len(Stream) \/ Full
    /\ pc' = IF program = "filter" THEN "next" ELSE "cleanup"
    /\ lines_out' = IF program = "double" THEN pos ELSE lines_out
    /\ status' = CASE program = "filter" -> status
                   [] program = "scale" -> IF rejected = 0 THEN "ok" ELSE "failure"
                   [] OTHER -> "ok"
    /\ UNCHANGED <<input, maximum, work, open, failed>>

\* "Only NOW ask which condition ended the loop": ferror.
ReadFails ==
    /\ pc = "read" /\ ~ Full
    /\ pc' = IF program = "filter" THEN "next" ELSE "cleanup"
    /\ status' = CASE program = "double" -> "FC_ERRNO"
                   [] program = "records" -> "ok"            \* perror, and what there is
                   [] OTHER -> "failure"
    /\ failed' = TRUE
    /\ UNCHANGED <<input, maximum, work, open, lines_out>>

NextOperand ==
    /\ pc = "next"
    /\ k' = k + 1
    /\ open' = open \ {"in"}
    /\ pc' = "operand"
    /\ UNCHANGED <<input, maximum, pos, stdinPos, out, count, rejected, outcome>>

\* Everything is released; only what is written is asked whether it could be.
BugReleased == IF status = "ok" THEN {"in", "out", "buffer"} ELSE {"in", "out"}
Released == {"in", "out", "buffer"}
Worse(s) == IF program = "double" THEN (IF s = "ok" THEN "FC_ERRNO" ELSE s) ELSE "failure"

Cleanup ==
    /\ pc = "cleanup"
    /\ open' = open \ Released
    /\ \/ UNCHANGED <<status, failed>>
       \/ "out" \in open /\ status' = Worse(status) /\ failed' = TRUE
    /\ pc' = "done"
    /\ UNCHANGED <<input, maximum, work, lines_out>>

Next ==
    \/ Configure \/ Acquire \/ AcquireFails \/ Operand
    \/ ReadLine \/ WriteFails \/ EndOfInput \/ ReadFails
    \/ NextOperand \/ Cleanup

-----------------------------------------------------------------------------
StreamOf(f) == IF f = "-" THEN stdin ELSE file

\* A line that belongs in the output of the program, and one at which
\* double_numbers gives up.
Good(l) == program = "filter" \/ (l.length < LineMax - 1 /\ l.text \in Accepted)
Fatal(l) == program = "double" /\ (l.length >= LineMax - 1 \/ l.text \notin {"number", "blank"})

\* The lines of the first n of stream f that belong in the output, as far as the
\* run gets.
Wanted(f, s) ==
    LET upTo[n \in 0 .. Len(s)] ==
            IF n = 0 THEN <<>>
            ELSE IF Good(s[n]) /\ \A j \in 1 .. n : ~ Fatal(s[j])
                 THEN Append(upTo[n - 1], <<f, n>>) ELSE upTo[n - 1]
    IN  upTo

Cut(s, n) == IF n > 0 /\ Len(s) > n THEN SubSeq(s, 1, n) ELSE s
MostWanted == IF program = "records" THEN Capacity ELSE maximum

\* What the first n lines of the i-th operand have for the output.  Standard input
\* can be read to its end only once, however often it is named.
Has(i, n) ==
    IF operands[i] = "gone" \/ (i = 2 /\ operands = <<"-", "-">>) THEN <<>>
    ELSE Wanted(operands[i], StreamOf(operands[i]))[n]
HasAll(i) == Has(i, Len(StreamOf(operands[i])))

Expected ==
    Cut(IF Len(operands) = 1 THEN HasAll(1) ELSE HasAll(1) \o HasAll(2), MostWanted)

\* A line of LineMax - 1 characters or more is refused or cut, and the rest of
\* it is never taken for a line of its own; every other line is accepted or
\* rejected on its text, also a last line without a newline; the output has the
\* lines wanted from all the streams, in order and no more than asked for; and a
\* run that claims success has written them all.
OutputIsRight ==
    pc = "done" =>
        /\ IsPrefix(out, Expected) \/ (failed /\ program = "filter")
        /\ status = "usage" => out = <<>>
        /\ ~ failed /\ status # "usage" => out = Expected
        /\ program \in {"double", "filter"} /\ status = "ok" => ~ failed

\* Whatever fails and wherever, a run ends with everything released that it had
\* taken; double_numbers reports the number of lines only if it read them all.
NothingHeld ==
    /\ pc = "done" => open = {}
    /\ lines_out # -1 => lines_out = Len(file)
    /\ pc = "done" /\ program = "double" /\ status = "ok" => lines_out = Len(file)

\* For NothingHeld: what a run has at each place, and that double_numbers ends
\* well only where it has seen the end of its file.
HeldInv ==
    /\ NothingHeld
    /\ open \subseteq (IF pc = "configure" THEN {}
                      ELSE IF pc = "acquire" THEN {Needed[j] : j \in DOMAIN Needed}
                      ELSE Released)
    /\ program # "filter" => maximum = 0 /\ pc \in {"acquire", "read", "cleanup", "done"}
    /\ program = "double" =>
           /\ operands = <<"a">> /\ k = 1
           /\ pc = "cleanup" /\ status = "ok" => lines_out = Len(file)

\* For OutputIsRight: what a run has written so far, wherever it is.
Line == [text : Texts, length : Int, newline : BOOLEAN]
TwoOperands == {<<"-", "-">>, <<"gone", "a">>, <<"a", "-">>}

RunInv ==
    /\ program \in {"scale", "records", "double", "filter"}
    /\ stdin \in Seq(Line) /\ file \in Seq(Line)
    /\ operands \in CASE program = "scale" -> {<<"-">>}
                      [] program = "filter" -> {<<"-">>} \cup TwoOperands
                      [] OTHER -> {<<"a">>}
    /\ maximum \in Nat /\ (program # "filter" => maximum = 0)
    /\ k \in 1 .. Len(operands) + 1 /\ pos \in Nat /\ stdinPos \in 0 .. Len(stdin)
    /\ count = Len(out)
    /\ pc \in (IF program = "filter"
               THEN {"configure", "acquire", "operand", "read", "end", "next", "cleanup", "done"}
               ELSE {"acquire", "read", "cleanup", "done"})
    /\ pc \in {"configure", "acquire"} =>
          out = <<>> /\ pos = 0 /\ k = 1 /\ stdinPos = 0 /\ ~ failed /\ status = "ok"
    /\ pc \in {"read", "end", "next"} =>
          k <= Len(operands) /\ operands[k] # "gone"
    /\ pc \in {"read", "end"} => pos <= Len(Stream)
    /\ status = "usage" => program = "filter" /\ pc = "done" /\ out = <<>>

\* scale, the reader of records, and double_numbers.
SingleInv ==
    /\ k = 1
    /\ \E n \in 0 .. Len(Stream) : out = Has(1, n) /\ (pc \in {"acquire", "read"} => n = pos)
    /\ program = "records" => Len(out) <= Capacity
    /\ pc = "read" /\ program = "double" => \A j \in 1 .. pos : ~ Fatal(Stream[j])
    /\ pc \in {"acquire", "read"} => ~ failed
    /\ pc \in {"cleanup", "done"} /\ ~ failed => out = Expected
    /\ failed /\ program = "double" => status # "ok"

\* The second time there is no line of standard input left to write.
Exhausted(n) == n = Len(stdin) \/ LimitReached

FilterInv ==
    /\ failed => status = "failure"
    /\ \/ k = 1 /\ pc = "operand"
       \/ operands[1] # "-" /\ (k = 1 \/ (k = 2 /\ pc = "operand"))
       => stdinPos = 0
    /\ ~ failed /\ pc \in {"read", "end"} =>
          /\ out = Cut(IF k = 1 THEN Has(1, pos) ELSE HasAll(1) \o Has(2, pos), maximum)
          /\ pc = "end" => LimitReached
          /\ operands[k] = "-" => stdinPos = pos
          /\ k = 2 /\ operands = <<"-", "-">> => Exhausted(pos)
    /\ ~ failed /\ pc = "next" =>
          /\ out = Cut(IF k = 1 THEN HasAll(1) ELSE HasAll(1) \o HasAll(2), maximum)
          /\ operands = <<"-", "-">> /\ k = 1 => Exhausted(stdinPos)
    /\ ~ failed /\ pc = "operand" =>
          /\ out = IF k = 1 THEN <<>>
                   ELSE IF k = 2 THEN Cut(HasAll(1), maximum) ELSE Expected
          /\ operands = <<"-", "-">> /\ k = 2 => Exhausted(stdinPos)
    /\ ~ failed /\ pc \in {"cleanup", "done"} /\ status # "usage" => out = Expected

OutputInv == RunInv /\ IF program = "filter" THEN FilterInv ELSE SingleInv
=============================================================================
