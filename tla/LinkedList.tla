----------------------------- MODULE LinkedList -----------------------------
(***************************************************************************)
(* The singly linked list of week 32 (lists.c), with the stack and the      *)
(* queue built on it, as nodes in a heap.                                   *)
(*                                                                          *)
(* A step is an operation without a loop, or one round of a loop.  A node   *)
(* that has been freed holds garbage: a pointer read out of it leads        *)
(* nowhere, and a value read out of it is no value.  An operation whose     *)
(* malloc fails returns false and changes nothing.                          *)
(***************************************************************************)
EXTENDS Naturals, FiniteSets, SequencesExt

CONSTANTS
    Nodes,         \* bound: the nodes malloc can return
    Values,
    NULL,          \* the null pointer
    HeadField,     \* the address of l->head
    Garbage        \* the content of a freed node

VARIABLES
    value, next,         \* the fields of the nodes
    allocated,           \* the nodes malloc returned and free did not get
    head, tail, count,   \* the fields of List
    pc,                  \* the operation with a loop that is under way
    prev, curr,          \* list_reverse; curr is also list_destroy's n
    link, wanted         \* list_remove's link and its argument

heap == <<value, next, allocated>>
list == <<head, tail, count>>
locals == <<pc, prev, curr, link, wanted>>
vars == <<value, next, allocated, head, tail, count, pc, prev, curr, link, wanted>>

Init ==
    /\ value = [n \in Nodes |-> Garbage]
    /\ next = [n \in Nodes |-> Garbage]
    /\ allocated = {}
    /\ head = NULL /\ tail = NULL /\ count = 0
    /\ pc = "idle"
    /\ prev = NULL /\ curr = NULL /\ link = HeadField /\ wanted = Garbage

-----------------------------------------------------------------------------
\* A definition whose name starts with "Bug" is a mistake the definition after
\* it could have had; no action uses it.

Malloc(n) == n \in Nodes \ allocated /\ allocated' = allocated \cup {n}

\* The fields of the heap once n is freed and the links have changed to links.
FreeWith(n, links) ==
    /\ n \in allocated
    /\ allocated' = allocated \ {n}
    /\ value' = [value EXCEPT ![n] = Garbage]
    /\ next' = [links EXCEPT ![n] = Garbage]

\* list_push_front, which is also stack_push.
PushFront(v) ==
    /\ pc = "idle"
    /\ \E n \in Nodes :
         /\ Malloc(n)
         /\ value' = [value EXCEPT ![n] = v]
         /\ next' = [next EXCEPT ![n] = head]
         /\ head' = n
         /\ tail' = IF tail = NULL THEN n ELSE tail
    /\ count' = count + 1
    /\ UNCHANGED locals

\* list_push_back, which is also queue_enqueue.
PushBack(v) ==
    /\ pc = "idle"
    /\ \E n \in Nodes :
         /\ Malloc(n)
         /\ value' = [value EXCEPT ![n] = v]
         /\ next' = IF tail # NULL THEN [next EXCEPT ![tail] = n, ![n] = NULL]
                    ELSE [next EXCEPT ![n] = NULL]
         /\ head' = IF tail # NULL THEN head ELSE n
         /\ tail' = n
    /\ count' = count + 1
    /\ UNCHANGED locals

BugTailAfterTake == tail
TailAfterTake == IF next[head] = NULL THEN NULL ELSE tail

\* stack_pop and queue_dequeue.
TakeFront ==
    /\ pc = "idle" /\ head # NULL
    /\ head' = next[head]
    /\ tail' = TailAfterTake
    /\ FreeWith(head, next)
    /\ count' = count - 1
    /\ UNCHANGED locals

-----------------------------------------------------------------------------
\* list_remove.

StartRemove(v) ==
    /\ pc = "idle"
    /\ pc' = "remove"
    /\ link' = HeadField /\ wanted' = v
    /\ UNCHANGED <<heap, list, prev, curr>>

Linked == IF link = HeadField THEN head ELSE next[link]     \* *link

RemoveSkip ==
    /\ pc = "remove" /\ Linked # NULL /\ value[Linked] # wanted
    /\ link' = Linked
    /\ UNCHANGED <<heap, list, pc, prev, curr, wanted>>

\* The node that contains the link, or NULL at the head.
TailAfterRemove ==
    IF Linked # tail THEN tail
    ELSE IF link = HeadField THEN NULL ELSE link

RemoveNode ==
    /\ pc = "remove" /\ Linked # NULL /\ value[Linked] = wanted
    /\ head' = IF link = HeadField THEN next[Linked] ELSE head
    /\ tail' = TailAfterRemove
    /\ FreeWith(Linked, IF link = HeadField THEN next
                        ELSE [next EXCEPT ![link] = next[Linked]])
    /\ count' = count - 1
    /\ pc' = "idle"
    /\ link' = HeadField /\ wanted' = Garbage
    /\ UNCHANGED <<prev, curr>>

RemoveNothing ==
    /\ pc = "remove" /\ Linked = NULL
    /\ pc' = "idle"
    /\ link' = HeadField /\ wanted' = Garbage
    /\ UNCHANGED <<heap, list, prev, curr>>

-----------------------------------------------------------------------------
\* list_reverse.

StartReverse ==
    /\ pc = "idle"
    /\ pc' = "reverse"
    /\ prev' = NULL /\ curr' = head
    /\ tail' = head
    /\ UNCHANGED <<heap, head, count, link, wanted>>

\* The rest is saved before the link is flipped.
BugRest == prev
Rest == next[curr]

ReverseLink ==
    /\ pc = "reverse" /\ curr # NULL
    /\ next' = [next EXCEPT ![curr] = prev]
    /\ prev' = curr
    /\ curr' = Rest
    /\ UNCHANGED <<value, allocated, list, pc, link, wanted>>

ReverseDone ==
    /\ pc = "reverse" /\ curr = NULL
    /\ head' = prev
    /\ pc' = "idle" /\ prev' = NULL
    /\ UNCHANGED <<heap, tail, count, curr, link, wanted>>

-----------------------------------------------------------------------------
\* list_destroy, which is also stack_destroy and queue_destroy.

StartDestroy ==
    /\ pc = "idle"
    /\ pc' = "destroy"
    /\ curr' = head
    /\ UNCHANGED <<heap, list, prev, link, wanted>>

DestroyNode ==
    /\ pc = "destroy" /\ curr # NULL
    /\ curr' = next[curr]
    /\ FreeWith(curr, next)
    /\ UNCHANGED <<list, pc, prev, link, wanted>>

\* list_init.
DestroyDone ==
    /\ pc = "destroy" /\ curr = NULL
    /\ head' = NULL /\ tail' = NULL /\ count' = 0
    /\ pc' = "idle"
    /\ UNCHANGED <<heap, prev, curr, link, wanted>>

Next ==
    \/ \E v \in Values : PushFront(v) \/ PushBack(v) \/ StartRemove(v)
    \/ TakeFront
    \/ RemoveSkip \/ RemoveNode \/ RemoveNothing
    \/ StartReverse \/ ReverseLink \/ ReverseDone
    \/ StartDestroy \/ DestroyNode \/ DestroyDone

Spec == Init /\ [][Next]_vars

-----------------------------------------------------------------------------
\* The nodes that next leads to from a node n, as far as the heap is large.
Following(n, k) ==
    LET walk[j \in Nat] ==
            IF j = 0 THEN n
            ELSE IF walk[j - 1] \in allocated THEN next[walk[j - 1]] ELSE NULL
    IN  walk[k]
ChainLength(n) ==
    CHOOSE k \in 0 .. Cardinality(Nodes) + 1 :
        /\ k = Cardinality(Nodes) + 1 \/ Following(n, k) \notin allocated
        /\ \A j \in 0 .. k - 1 : Following(n, j) \in allocated
Chain(n) == [k \in 1 .. ChainLength(n) |-> Following(n, k - 1)]
ValuesFrom(n) == [k \in 1 .. ChainLength(n) |-> value[Following(n, k - 1)]]

\* What the list holds.  While it is being reversed that is what it held before.
\* While it is destroyed its nodes leave one by one.
Contents ==
    CASE pc = "reverse" -> Reverse(ValuesFrom(prev)) \o ValuesFrom(curr)
      [] pc = "destroy" -> ValuesFrom(curr)
      [] OTHER -> ValuesFrom(head)

ChainIs(nodes) ==
    /\ ToSet(nodes) = allocated
    /\ Len(nodes) = Cardinality(allocated)

\* The list is well formed: its chain ends in NULL, at tail, after count nodes,
\* and has every node that was allocated and not freed, in the middle of a
\* removal, a reversal or a destruction too.  No pointer is left to a freed
\* node, no node is lost, and tail follows when the last node goes.
Shape ==
    /\ pc \in {"idle", "remove"} =>
           /\ ChainIs(Chain(head))
           /\ count = Len(Chain(head))
           /\ tail = IF head = NULL THEN NULL ELSE Last(Chain(head))
           /\ Following(head, count) = NULL
    /\ pc = "reverse" => ChainIs(Reverse(Chain(prev)) \o Chain(curr))
    /\ pc = "destroy" => ChainIs(Chain(curr))
    /\ pc = "remove" =>
           \A k \in 1 .. count : Chain(head)[k] = link =>
               \A j \in 1 .. k : value[Chain(head)[j]] # wanted

\* To its callers the list is a sequence: a stack at its head and a queue from
\* tail to head, list_remove takes out the first node with the value and no
\* other, and list_reverse turns the order round, whatever is under way.
SL == INSTANCE SequenceList WITH contents <- Contents
ImplementsSequence == SL!SLSpec

\* For Shape and ImplementsSequence: nodes are the list's in the order of what it
\* holds, and the links of the first few, turned of them, point backwards.
Strung(nodes, turned) ==
    LET n == Cardinality(allocated) IN
    /\ \A j, k \in 1 .. n : nodes[j] = nodes[k] => j = k
    /\ \A b \in allocated : \E k \in 1 .. n : nodes[k] = b
    /\ \A k \in 1 .. turned : next[nodes[k]] = IF k = 1 THEN NULL ELSE nodes[k - 1]
    /\ \A k \in turned + 1 .. n : next[nodes[k]] = IF k = n THEN NULL ELSE nodes[k + 1]
    /\ IF pc = "reverse" THEN prev = IF turned = 0 THEN NULL ELSE nodes[turned] ELSE turned = 0
    /\ (IF pc \in {"idle", "remove"} THEN head ELSE curr) =
           IF turned = n THEN NULL ELSE nodes[turned + 1]
    /\ pc # "destroy" =>
           /\ count = n
           /\ tail = IF n = 0 THEN NULL ELSE nodes[IF pc = "reverse" THEN 1 ELSE n]
    /\ pc = "remove" /\ link # HeadField =>
           \E k \in 1 .. n : link = nodes[k] /\ \A j \in 1 .. k : value[nodes[j]] # wanted

ListInv ==
    /\ allocated \subseteq Nodes
    /\ value \in [Nodes -> Values \cup {Garbage}]
    /\ next \in [Nodes -> Nodes \cup {NULL, Garbage}]
    /\ pc \in {"idle", "remove", "reverse", "destroy"}
    /\ pc = "remove" => wanted \in Values
    /\ \E nodes \in [1 .. Cardinality(allocated) -> allocated] :
           \E turned \in 0 .. Cardinality(allocated) : Strung(nodes, turned)
=============================================================================
