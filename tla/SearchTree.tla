----------------------------- MODULE SearchTree -----------------------------
(***************************************************************************)
(* The binary search tree of week 33 (adt.c) as nodes in a heap.            *)
(*                                                                          *)
(* A step is one turn of tree_insert's loop, its allocation, or one return  *)
(* into a call of tree_destroy.  A freed node holds garbage, which leads    *)
(* nowhere.                                                                 *)
(***************************************************************************)
EXTENDS Integers, FiniteSets, SequencesExt

CONSTANTS
    Nodes,         \* bound: the nodes malloc can return
    TreeKeys,      \* a set of integers
    NULL, NoKey, Garbage

VARIABLES
    key, left, right,    \* the fields of the nodes
    allocated,
    root,
    pc,
    wanted,              \* tree_insert's key
    link,                \* the node and the field in it, or <<>>: &root
    stack                \* tree_destroy's calls, the innermost last

heap == <<key, left, right, allocated>>
vars == <<key, left, right, allocated, root, pc, wanted, link, stack>>

Init ==
    /\ key = [n \in Nodes |-> Garbage]
    /\ left = [n \in Nodes |-> Garbage]
    /\ right = [n \in Nodes |-> Garbage]
    /\ allocated = {}
    /\ root = NULL
    /\ pc = "idle" /\ wanted = NoKey /\ link = <<>> /\ stack = <<>>

-----------------------------------------------------------------------------
\* tree_insert.

StartInsert(k) ==
    /\ pc = "idle"
    /\ pc' = "insert" /\ wanted' = k
    /\ UNCHANGED <<heap, root, link, stack>>

Linked ==            \* *link
    CASE link = <<>> -> root
      [] link # <<>> /\ link[2] = "left" -> left[link[1]]
      [] OTHER -> right[link[1]]

Side == IF wanted < key[Linked] THEN "left" ELSE "right"

Descend ==
    /\ pc = "insert" /\ Linked # NULL /\ key[Linked] # wanted
    /\ link' = <<Linked, Side>>
    /\ UNCHANGED <<heap, root, pc, wanted, stack>>

Leave == pc' = "idle" /\ wanted' = NoKey /\ link' = <<>>

\* The key is there already, or no memory is left for it.
InsertNothing ==
    /\ pc = "insert"
    /\ Linked # NULL => key[Linked] = wanted
    /\ Leave
    /\ UNCHANGED <<heap, root, stack>>

Attach ==
    /\ pc = "insert" /\ Linked = NULL
    /\ \E n \in Nodes \ allocated :
         LET Links(field, name) ==
                 IF link # <<>> /\ link[2] = name
                 THEN [field EXCEPT ![n] = NULL, ![link[1]] = n]
                 ELSE [field EXCEPT ![n] = NULL]
         IN  /\ allocated' = allocated \cup {n}
             /\ key' = [key EXCEPT ![n] = wanted]
             /\ left' = Links(left, "left")
             /\ right' = Links(right, "right")
             /\ root' = IF link = <<>> THEN n ELSE root
    /\ Leave
    /\ UNCHANGED stack

-----------------------------------------------------------------------------
\* tree_destroy, a call for each subtree: n is the node, at the child whose
\* call comes next, or "free" when both have returned.

StartDestroy ==
    /\ pc = "idle"
    /\ pc' = "destroy"
    /\ stack' = IF root = NULL THEN <<>> ELSE <<[n |-> root, at |-> "left"]>>
    /\ UNCHANGED <<heap, root, wanted, link>>

\* A definition whose name starts with "Bug" is a mistake the definition after it
\* could have had; no action uses it.  Here a node is freed before its right child.
BugAfter(at) == "free"

\* The order of a call: its left child, its right child, itself.
After(at) == IF at = "left" THEN "right" ELSE "free"

DestroyChild ==
    /\ pc = "destroy" /\ stack # <<>> /\ Last(stack).at # "free"
    /\ LET call == Last(stack)
           child == IF call.at = "left" THEN left[call.n] ELSE right[call.n]
           here == Append(Front(stack), [n |-> call.n, at |-> After(call.at)])
       IN  stack' = IF child = NULL THEN here ELSE Append(here, [n |-> child, at |-> "left"])
    /\ UNCHANGED <<heap, root, pc, wanted, link>>

DestroyNode ==
    /\ pc = "destroy" /\ stack # <<>> /\ Last(stack).at = "free"
    /\ LET n == Last(stack).n
       IN  /\ n \in allocated
           /\ allocated' = allocated \ {n}
           /\ key' = [key EXCEPT ![n] = Garbage]
           /\ left' = [left EXCEPT ![n] = Garbage]
           /\ right' = [right EXCEPT ![n] = Garbage]
    /\ stack' = Front(stack)
    /\ UNCHANGED <<root, pc, wanted, link>>

\* main goes on with a tree of its own.
DestroyDone ==
    /\ pc = "destroy" /\ stack = <<>>
    /\ pc' = "idle" /\ root' = NULL
    /\ UNCHANGED <<heap, wanted, link, stack>>

Next ==
    \/ \E k \in TreeKeys : StartInsert(k)
    \/ Descend \/ InsertNothing \/ Attach
    \/ StartDestroy \/ DestroyChild \/ DestroyNode \/ DestroyDone

Spec == Init /\ [][Next]_vars

-----------------------------------------------------------------------------
\* The nodes in the order tree_inorder visits them.
InOrder(start) ==
    LET nodes[n \in Nodes \cup {NULL, Garbage}] ==
            IF n \notin allocated THEN <<>>
            ELSE nodes[left[n]] \o <<n>> \o nodes[right[n]]
    IN  nodes[start]

\* The nodes a call of tree_destroy has still to free.
Owed(call) ==
    CASE call.at = "left" -> InOrder(call.n)
      [] call.at = "right" -> <<call.n>> \o InOrder(right[call.n])
      [] call.at = "free" -> <<call.n>>

\* tree_inorder visits every node ever attached, once, in increasing order of
\* the keys: no insertion cuts a subtree off or puts a key on the wrong side of
\* an ancestor.  The calls of tree_destroy under way have, between them, every
\* node that is left to free, so none is freed twice, none read after it was
\* freed and none leaked.
TreeShape ==
    /\ pc # "destroy" =>
           LET nodes == InOrder(root)
           IN  /\ ToSet(nodes) = allocated
               /\ \A j \in 1 .. Len(nodes) - 1 : key[nodes[j]] < key[nodes[j + 1]]
    /\ pc = "destroy" =>
           LET nodes == FlattenSeq([c \in DOMAIN stack |-> Owed(stack[c])])
           IN  ToSet(nodes) = allocated /\ Len(nodes) = Cardinality(allocated)
=============================================================================
