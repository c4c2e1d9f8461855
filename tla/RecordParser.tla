----------------------------- MODULE RecordParser -----------------------------
(***************************************************************************)
(* parse_record of week 56, as it was found (legacy.c) and as it was        *)
(* rewritten (parser.c), called with the same line.                         *)
(*                                                                          *)
(* A line is a sequence of characters, each of a class the parsers tell     *)
(* apart: a space, the equals sign, a letter, or a digit.  atoi is what the *)
(* C library makes of it: strtol, then a conversion to int.                 *)
(***************************************************************************)
EXTENDS Integers, SequencesExt

CONSTANTS
    LINE_MAX_LEN,      \* 256, the size of both buffers
    NameSize,          \* the name_size the rewritten parser is called with
    IntWidth, LongWidth,
    MaxLength          \* bound: the characters of a line

Letter == "a"
Digits == {"1", "5"}
Characters == {" ", "=", Letter} \cup Digits

VARIABLES line, legacy, modern, called

vars == <<line, legacy, modern, called>>

\* An output is a sequence with what was stored in it, if anything was.
Untouched == [ok |-> FALSE, name |-> <<>>, value |-> <<>>]

Init ==
    /\ line \in UNION {[1 .. n -> Characters] : n \in 0 .. MaxLength}
    /\ legacy = Untouched /\ modern = Untouched
    /\ called = FALSE

-----------------------------------------------------------------------------
\* A definition whose name starts with "Bug" is a mistake the definition after
\* it could have had; no action uses it.

From(s, k) == SubSeq(s, k, Len(s))
NotSpace(s) == {k \in DOMAIN s : s[k] # " "}

SkipSpace(s) == IF NotSpace(s) = {} THEN <<>> ELSE From(s, Min(NotSpace(s)))
TrimTrailing(s) == IF NotSpace(s) = {} THEN <<>> ELSE SubSeq(s, 1, Max(NotSpace(s)))

Equals == {k \in DOMAIN line : line[k] = "="}
NameText == SubSeq(line, 1, Min(Equals) - 1)
ValueText == From(line, Min(Equals) + 1)

\* strtol: the number in front; Atoi and ParseLong see to its range.
Leading(s) == CHOOSE n \in 0 .. Len(s) :
    (\A k \in 1 .. n : s[k] \in Digits) /\ (n < Len(s) => s[n + 1] \notin Digits)
Strtol(s) ==
    LET of[n \in 0 .. Leading(s)] ==
          IF n = 0 THEN 0 ELSE 10 * of[n - 1] + (IF s[n] = "1" THEN 1 ELSE 5)
    IN  of[Leading(s)]
LONG_MAX == 2 ^ (LongWidth - 1) - 1
INT_MAX == 2 ^ (IntWidth - 1) - 1
AsInt(v) == ((v + 2 ^ (IntWidth - 1)) % (2 ^ IntWidth)) - 2 ^ (IntWidth - 1)
Atoi(s) == AsInt(Min({Strtol(s), LONG_MAX}))

\* legacy.c, but for count, which nothing reads; a line that fills its buffer is
\* undefined behaviour.
LegacyParse ==
    IF Equals = {} THEN Untouched
    ELSE [ok |-> TRUE, name |-> <<TrimTrailing(SkipSpace(NameText))>>,
          value |-> <<Atoi(SkipSpace(ValueText))>>]

\* parser.c
BugParseLong(s) == IF Leading(s) = 0 \/ Leading(s) < Len(s) THEN 0 ELSE Strtol(s)
ParseLong(s) ==
    IF Leading(s) = 0 \/ Strtol(s) > LONG_MAX \/ Strtol(s) > INT_MAX THEN 0 ELSE Strtol(s)

ModernName == TrimTrailing(SkipSpace(NameText))

ModernParse ==
    IF Len(line) >= LINE_MAX_LEN \/ Equals = {} THEN Untouched
    ELSE IF Len(ModernName) >= NameSize
         THEN [ok |-> FALSE, name |-> <<SubSeq(ModernName, 1, NameSize - 1)>>, value |-> <<>>]
         ELSE [ok |-> TRUE, name |-> <<ModernName>>, value |-> <<ParseLong(SkipSpace(ValueText))>>]

Parse ==
    /\ ~ called
    /\ called' = TRUE
    /\ legacy' = IF Len(line) < LINE_MAX_LEN THEN LegacyParse ELSE Untouched
    /\ modern' = ModernParse
    /\ UNCHANGED line

Next == Parse

-----------------------------------------------------------------------------
\* "the rewrite changed no behavior": wherever the legacy parser is defined and
\* the name fits, both accept the same lines with the same name, and the value
\* is the same unless it is out of range, where the rewritten one says 0; and
\* the rewritten one refuses a line too long for its buffer.
RewriteAgrees ==
    called =>
        /\ Len(line) >= LINE_MAX_LEN => ~ modern.ok
        /\ Len(line) < LINE_MAX_LEN /\ (Equals = {} \/ Len(ModernName) < NameSize) =>
             /\ modern.ok = legacy.ok /\ modern.name = legacy.name
             /\ modern.ok => modern.value =
                  IF legacy.value = <<Strtol(SkipSpace(ValueText))>> THEN legacy.value ELSE <<0>>
=============================================================================
