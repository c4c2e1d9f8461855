---------------------------- MODULE ConfigReload ----------------------------
(***************************************************************************)
(* config_reload of week 44 (config.c), called again and again: it reads a  *)
(* file, builds a fresh configuration and only then replaces the active one.*)
(* Every call that takes something may fail.                                *)
(*                                                                          *)
(* A line is a key with a number or a word, or it is malformed.  A long     *)
(* holds every number here; (int) keeps IntWidth bits of it.                *)
(***************************************************************************)
EXTENDS Integers, Sequences

CONSTANTS
    IntWidth,          \* 32
    ReadMax,           \* CONFIG_MAX, in lines: what one fread takes
    Blocks,            \* bound: the addresses calloc can return
    NULL

Numbers == {-1, 3, 2 ^ (IntWidth - 1), 2 ^ IntWidth}
Lines ==
    {[key |-> "timeout", number |-> n] : n \in Numbers} \cup
    {[key |-> "timeout"], [key |-> "name"], [key |-> "other"], [key |-> "malformed"]}

VARIABLES
    pc,
    lines,             \* buf: the lines of it not yet looked at
    text,              \* history: the lines that were read
    opened, buf,       \* are f and buf to be released?
    fresh,             \* the new configuration's block, or NULL
    global_config,     \* the active one's
    heap,              \* block -> the configuration in it
    before,            \* history: the active configuration when it was called
    result

taken == <<opened, buf>>
vars == <<pc, lines, text, opened, buf, fresh, global_config, heap, before, result>>

Init ==
    /\ pc = "idle" /\ lines = <<>> /\ text = <<>>
    /\ opened = FALSE /\ buf = FALSE /\ fresh = NULL
    /\ global_config = NULL /\ heap = <<>>
    /\ before = <<>> /\ result = 0

-----------------------------------------------------------------------------
\* A definition whose name starts with "Bug" is a mistake the definition after
\* it could have had; no action uses it.

Without(b) == [a \in DOMAIN heap \ {b} |-> heap[a]]
Active == IF global_config = NULL THEN <<>> ELSE <<heap[global_config]>>

Open ==
    /\ pc = "idle"
    /\ before' = Active
    /\ result' = -1
    /\ \/ pc' = "malloc" /\ opened' = TRUE
       \/ pc' = "cleanup" /\ UNCHANGED opened
    /\ UNCHANGED <<lines, text, buf, fresh, global_config, heap>>

AllocateBuffer ==
    /\ pc = "malloc"
    /\ \/ pc' = "fread" /\ buf' = TRUE
       \/ pc' = "cleanup" /\ UNCHANGED buf
    /\ UNCHANGED <<lines, text, opened, fresh, global_config, heap, before, result>>

\* A longer file is cut at CONFIG_MAX, within a line or between two, and what is
\* left of that line is a line like any other.
Read ==
    /\ pc = "fread"
    /\ \/ /\ \E s \in UNION {[1 .. n -> Lines] : n \in 0 .. ReadMax} : text' = s /\ lines' = s
          /\ pc' = "calloc"
       \/ pc' = "cleanup" /\ UNCHANGED <<lines, text>>
    /\ UNCHANGED <<taken, fresh, global_config, heap, before, result>>

Zeroed == [timeout |-> 0, named |-> FALSE]

\* "calloc: every field defined"
AllocateFresh ==
    /\ pc = "calloc"
    /\ \/ \E b \in Blocks \ DOMAIN heap :
            /\ fresh' = b
            /\ heap' = [a \in DOMAIN heap \cup {b} |-> IF a = b THEN Zeroed ELSE heap[a]]
            /\ pc' = "parse"
       \/ pc' = "cleanup" /\ UNCHANGED <<fresh, heap>>
    /\ UNCHANGED <<lines, text, taken, global_config, before, result>>

AsInt(v) == ((v + 2 ^ (IntWidth - 1)) % (2 ^ IntWidth)) - 2 ^ (IntWidth - 1)

\* A timeout that is no number, or a negative one, is refused.
Refused(l) == l.key = "timeout" /\ ("number" \notin DOMAIN l \/ l.number < 0)

Field(config, l) ==
    CASE l.key = "timeout" -> [config EXCEPT !.timeout = AsInt(l.number)]
      [] l.key = "name" -> [config EXCEPT !.named = TRUE]
      [] OTHER -> config

BugTarget == IF global_config = NULL THEN fresh ELSE global_config
Target == fresh

ParseLine ==
    /\ pc = "parse" /\ lines # <<>>
    /\ IF Refused(Head(lines))
       THEN pc' = "cleanup" /\ UNCHANGED <<lines, heap>>
       ELSE /\ heap' = [heap EXCEPT ![Target] = Field(@, Head(lines))]
            /\ lines' = Tail(lines)
            /\ UNCHANGED pc
    /\ UNCHANGED <<text, taken, fresh, global_config, before, result>>

\* "Only now is the old configuration replaced", and freed.
Install ==
    /\ pc = "parse" /\ lines = <<>>
    /\ global_config' = fresh
    /\ fresh' = NULL
    /\ heap' = Without(global_config)
    /\ result' = 0
    /\ pc' = "cleanup"
    /\ UNCHANGED <<lines, text, taken, before>>

Cleanup ==
    /\ pc = "cleanup"
    /\ heap' = Without(fresh)
    /\ fresh' = NULL                     \* out of scope, as the other locals
    /\ opened' = FALSE /\ buf' = FALSE /\ lines' = <<>>
    /\ pc' = "idle"
    /\ UNCHANGED <<text, global_config, before, result>>

Next ==
    \/ Open \/ AllocateBuffer \/ Read \/ AllocateFresh
    \/ ParseLine \/ Install \/ Cleanup

-----------------------------------------------------------------------------
\* The configuration that the first n lines make.
Applied[n \in 0 .. Len(text)] ==
    IF n = 0 THEN Zeroed ELSE Field(Applied[n - 1], text[n])
Complete == <<Applied[Len(text)]>>

UsableTo(n) == \A i \in 1 .. n : ~ Refused(text[i])

\* "On failure the previous configuration remains installed and is unchanged":
\* at every moment of a reload the active configuration is the old one or the
\* complete new one, a reload that fails has kept the old one, one that succeeds
\* has installed what all the lines say together, and between reloads nothing is
\* held but the active configuration.
ReloadIsAtomic ==
    /\ result # 0 => Active = before
    /\ pc # "idle" /\ result = 0 => UsableTo(Len(text)) /\ Active = Complete
    /\ pc = "idle" =>
         /\ DOMAIN heap = {global_config} \ {NULL}
         /\ ~ opened /\ ~ buf

\* For ReloadIsAtomic: the fresh configuration is what the lines looked at so far
\* make, and not yet the active one.
ReloadInv ==
    /\ ReloadIsAtomic
    /\ pc \in {"idle", "malloc", "fread", "calloc", "parse", "cleanup"}
    /\ text \in Seq(Lines)
    /\ fresh = NULL \/ fresh # global_config
    /\ heap = [b \in {global_config, fresh} \ {NULL} |-> heap[b]]
    /\ fresh # NULL => pc \in {"parse", "cleanup"}
    /\ pc \in {"malloc", "fread", "calloc", "parse"} => result = -1
    /\ result = 0 => fresh = NULL
    /\ pc \in {"calloc", "parse"} =>
         \E n \in 0 .. Len(text) :
             /\ lines = SubSeq(text, n + 1, Len(text)) /\ UsableTo(n)
             /\ pc = "calloc" => n = 0
             /\ pc = "parse" => fresh # NULL /\ heap[fresh] = Applied[n]
=============================================================================
