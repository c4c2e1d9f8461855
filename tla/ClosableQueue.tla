---------------------------- MODULE ClosableQueue ----------------------------
(***************************************************************************)
(* What a closable bounded FIFO queue promises, without locks, condition    *)
(* variables or ring arithmetic.  The blocking queue of week 41             *)
(* (BoundedQueue) is shown to implement it.                                 *)
(*                                                                          *)
(* "buffer" is what the queue holds, oldest first; "taken" is everything    *)
(* that was ever taken out, in the order it was taken.                      *)
(***************************************************************************)
EXTENDS Naturals, Sequences

CONSTANTS Value,      \* what may be put in the queue
          Bound       \* how much it may hold, a natural number

VARIABLES buffer, isClosed, taken

cqVars == <<buffer, isClosed, taken>>

CQInit ==
    /\ buffer = <<>>
    /\ isClosed = FALSE
    /\ taken = <<>>

\* A value enters at the back of an open queue that is not full.
Put(v) ==
    /\ ~ isClosed
    /\ Len(buffer) < Bound
    /\ buffer' = Append(buffer, v)
    /\ UNCHANGED <<isClosed, taken>>

\* The oldest value leaves, whether or not the queue has been closed.
Take ==
    /\ buffer # <<>>
    /\ taken' = Append(taken, Head(buffer))
    /\ buffer' = Tail(buffer)
    /\ UNCHANGED isClosed

\* Closing keeps what is queued: it only stops further Puts.
Close ==
    /\ isClosed' = TRUE
    /\ UNCHANGED <<buffer, taken>>

CQNext ==
    \/ \E v \in Value : Put(v)
    \/ Take
    \/ Close

CQSpec == CQInit /\ [][CQNext]_cqVars
=============================================================================
