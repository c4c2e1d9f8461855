----------------------------- MODULE Dictionary -----------------------------
(***************************************************************************)
(* What the hash map of week 33 promises: the keys that were put and not    *)
(* removed since, each with the value last put.  A call says whether it     *)
(* succeeded.  How the map finds a key, and that it grows, does not show.   *)
(***************************************************************************)
CONSTANTS Keys, Values, NoValue

VARIABLES
    dict,      \* a function from the keys present to their values
    call,      \* <<>>, or the key of the call under way and the value to put;
               \* NoValue if the key is to be removed
    answer     \* what the last call returned

DInit == dict = <<>> /\ call = <<>> /\ answer = TRUE

Begin(k, v) ==
    /\ call = <<>> /\ call' = <<k, v>>
    /\ UNCHANGED <<dict, answer>>

UnderWay(k, v) == call = <<k, v>> /\ call' = <<>>

Store(k, v) ==
    /\ UnderWay(k, v)
    /\ dict' = [j \in DOMAIN dict \cup {k} |-> IF j = k THEN v ELSE dict[j]]
    /\ answer' = TRUE

\* No memory is left for it.
Refuse(k, v) ==
    /\ UnderWay(k, v) /\ k \notin DOMAIN dict
    /\ answer' = FALSE
    /\ UNCHANGED dict

Forget(k) ==
    /\ UnderWay(k, NoValue)
    /\ dict' = [j \in DOMAIN dict \ {k} |-> dict[j]]
    /\ answer' = (k \in DOMAIN dict)

Clear == call = <<>> /\ dict' = <<>> /\ answer' = TRUE /\ UNCHANGED call

DNext ==
    \/ \E k \in Keys :
          \/ Begin(k, NoValue) \/ Forget(k)
          \/ \E v \in Values : Begin(k, v) \/ Store(k, v) \/ Refuse(k, v)
    \/ Clear

DSpec == DInit /\ [][DNext]_<<dict, call, answer>>
=============================================================================
