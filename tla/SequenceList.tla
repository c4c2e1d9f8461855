---------------------------- MODULE SequenceList ----------------------------
(***************************************************************************)
(* What the list of week 32 promises, and with it the stack and the queue   *)
(* built on it: a sequence of values that grows at either end, gives up its *)
(* first value, loses the first occurrence of a value, or is reversed.      *)
(***************************************************************************)
EXTENDS Naturals, SequencesExt

CONSTANT Values

VARIABLE contents

SLInit == contents = <<>>

InsertFirst(v) == contents' = <<v>> \o contents
InsertLast(v) == contents' = Append(contents, v)
TakeFirst == contents # <<>> /\ contents' = Tail(contents)

\* The first occurrence of v.
Drop(v) ==
    \E k \in DOMAIN contents :
        /\ contents[k] = v
        /\ \A j \in 1 .. k - 1 : contents[j] # v
        /\ contents' = RemoveAt(contents, k)

TurnAround == contents' = Reverse(contents)

SLNext ==
    \/ \E v \in Values : InsertFirst(v) \/ InsertLast(v) \/ Drop(v)
    \/ TakeFirst
    \/ TurnAround

SLSpec == SLInit /\ [][SLNext]_contents
=============================================================================
