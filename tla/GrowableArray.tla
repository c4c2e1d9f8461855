---------------------------- MODULE GrowableArray ----------------------------
(***************************************************************************)
(* The growable array the course writes again and again: IntArray of week   *)
(* 19 (dynarray.c), the opaque handle of weeks 28, 29 and 45 (intarray.c),  *)
(* and the generic Vector of week 30 (generic.c).  They differ in how they  *)
(* come and go; appending is the same code in each, and the map names one   *)
(* copy for each of its parts.                                              *)
(*                                                                          *)
(* malloc and realloc may fail, and realloc may move the block or not.      *)
(***************************************************************************)
EXTENDS Integers, Sequences

CONSTANTS
    Blocks,            \* bound: the addresses the allocator can return
    IntWidth,          \* an int has this many bits
    Capacities,        \* the initial capacities asked for
    DefaultCapacity,   \* 4
    MaxCapacity,       \* bound: realloc gives no more than this
    NULL, Garbage

INT_MAX == 2 ^ (IntWidth - 1) - 1
INT_MIN == - (2 ^ (IntWidth - 1))
Ints == {INT_MIN, -1, INT_MAX}         \* bound: the ints stored

VARIABLES
    variant,           \* which of the three: never changes
    struct,            \* does the array exist for its caller?
    data, count, capacity,
    heap,              \* address -> the elements of the block there
    pushed             \* history: what a caller was told the array holds

fields == <<data, count, capacity>>
vars == <<variant, struct, data, count, capacity, heap, pushed>>

Init ==
    /\ variant \in {"IntArray", "handle", "Vector"}
    /\ struct = FALSE
    /\ data = NULL /\ count = 0 /\ capacity = 0
    /\ heap = <<>>
    /\ pushed = <<>>

-----------------------------------------------------------------------------
\* A definition whose name starts with "Bug" is a mistake the definition after
\* it could have had; no action uses it.

Without(b) == [a \in DOMAIN heap \ {b} |-> heap[a]]
With(h, b, cells) == [a \in DOMAIN h \cup {b} |-> IF a = b THEN cells ELSE h[a]]

Created(initial) ==
    LET room == IF initial = 0 THEN DefaultCapacity ELSE initial IN
    \E b \in Blocks \ DOMAIN heap :
        /\ heap' = With(heap, b, [k \in 1 .. room |-> Garbage])
        /\ data' = b /\ count' = 0 /\ capacity' = room
        /\ struct' = TRUE

\* array_init on an IntArray that is new, destroyed, or could not be created.
InitArray(initial) ==
    /\ variant = "IntArray" /\ ~ struct
    /\ \/ Created(initial)
       \/ data' = NULL /\ count' = 0 /\ capacity' = 0 /\ UNCHANGED <<struct, heap>>
    /\ UNCHANGED <<variant, pushed>>

\* The struct is allocated before its data, and freed again if there is none.
Create(initial) ==
    /\ variant = "handle" /\ ~ struct
    /\ \/ Created(initial)
       \/ UNCHANGED <<struct, fields, heap>>
    /\ UNCHANGED <<variant, pushed>>

InitVector(initial) ==
    /\ variant = "Vector" /\ ~ struct
    /\ Created(initial)
    /\ UNCHANGED <<variant, pushed>>

DestroyArray ==
    /\ variant \in {"IntArray", "Vector"}
    /\ heap' = Without(data)
    /\ data' = NULL /\ count' = 0 /\ capacity' = 0
    /\ struct' = FALSE /\ pushed' = <<>>
    /\ UNCHANGED variant

DestroyHandle ==
    /\ variant = "handle" /\ struct
    /\ heap' = Without(data)
    /\ data' = NULL /\ count' = 0 /\ capacity' = 0    \* nothing is left of them
    /\ struct' = FALSE /\ pushed' = <<>>
    /\ UNCHANGED variant

-----------------------------------------------------------------------------
Bigger == capacity * 2

Put(cells, v) == [cells EXCEPT ![count + 1] = v]

Fits(v) ==
    /\ count < capacity
    /\ heap' = [heap EXCEPT ![data] = Put(@, v)]
    /\ UNCHANGED <<data, capacity>>

\* The elements are kept, in place or moved, and the old block is gone.
Moved(v) ==
    /\ count = capacity /\ Bigger <= MaxCapacity
    /\ \E b \in {data} \cup (Blocks \ DOMAIN heap) :
         LET cells == [k \in 1 .. Bigger |-> IF k <= capacity THEN heap[data][k] ELSE Garbage]
         IN  heap' = With(Without(data), b, Put(cells, v)) /\ data' = b
    /\ capacity' = Bigger

Push(v) ==
    /\ struct
    /\ Fits(v) \/ Moved(v)
    /\ count' = count + 1
    /\ pushed' = Append(pushed, v)
    /\ UNCHANGED <<variant, struct>>

\* A failed realloc leaves the old block, which is still the array's.
BugAfterFailure == NULL
AfterFailure == data

PushFails ==
    /\ struct /\ count = capacity
    /\ data' = AfterFailure
    /\ UNCHANGED <<variant, struct, count, capacity, heap, pushed>>

Clear ==
    /\ variant = "handle" /\ struct
    /\ count' = 0
    /\ pushed' = <<>>
    /\ UNCHANGED <<variant, struct, data, capacity, heap>>

\* "Never x - y: it overflows."
CmpInt(x, y) == (IF x > y THEN 1 ELSE 0) - (IF x < y THEN 1 ELSE 0)

Elements == SubSeq(heap[data], 1, count)

\* qsort, external: one of the orders that put nothing before what should come
\* before it.
Orders(n) == {p \in [1 .. n -> 1 .. n] : \A k \in 1 .. n : \E j \in 1 .. n : p[j] = k}
Sorted(s, before) ==
    LET order == CHOOSE p \in Orders(Len(s)) :
                     \A j, k \in 1 .. Len(s) : j < k => <<s[p[k]], s[p[j]]>> \notin before
    IN  [k \in 1 .. Len(s) |-> s[order[k]]]

Sort ==
    /\ variant = "Vector" /\ struct
    /\ LET before == {x \in Ints \X Ints : CmpInt(x[1], x[2]) < 0} IN
       heap' = [heap EXCEPT ![data] = Sorted(Elements, before) \o SubSeq(@, count + 1, capacity)]
    /\ pushed' = Sorted(pushed, {x \in Ints \X Ints : x[1] < x[2]})
    /\ UNCHANGED <<variant, struct, fields>>

Next ==
    \/ \E n \in Capacities : InitArray(n) \/ Create(n) \/ InitVector(n)
    \/ DestroyArray \/ DestroyHandle
    \/ \E v \in Ints : Push(v)
    \/ PushFails
    \/ Clear
    \/ Sort

-----------------------------------------------------------------------------
\* array_get, intarray_get and vector_at, at an index below the count.
Get(k) == IF k < count THEN heap[data][k + 1] ELSE Garbage

\* vector_each with sum_int, its visitor with a context.
Sum == LET sum[k \in 0 .. count] == IF k = 0 THEN 0 ELSE sum[k - 1] + Get(k - 1)
       IN  sum[count]

\* "on failure the array is left unchanged and usable" (intarray.h:5), "a->data
\* is still valid and still ours": whatever fails and wherever realloc moves the
\* block, every accepted value can be read back at its index, in order after a
\* sort, and exactly the array's own block is allocated, so that nothing leaks.
ArrayIsSequence ==
    /\ DOMAIN heap = IF struct THEN {data} ELSE {}
    /\ struct => Len(heap[data]) = capacity /\ capacity > 0
    /\ count = Len(pushed) /\ count <= capacity
    /\ \A k \in 1 .. Len(pushed) : Get(k - 1) = pushed[k]
    /\ Sum = LET sum[k \in 0 .. count] == IF k = 0 THEN 0 ELSE sum[k - 1] + pushed[k]
             IN  sum[count]

\* For ArrayIsSequence.
ArrayInv ==
    /\ DOMAIN heap = IF struct THEN {data} ELSE {}
    /\ capacity \in Nat /\ count \in 0 .. capacity
    /\ pushed \in Seq(Ints) /\ Len(pushed) = count
    /\ struct => capacity > 0 /\ heap[data] \in [1 .. capacity -> Ints \cup {Garbage}]
    /\ ~ struct => count = 0
    /\ \A k \in 1 .. count : heap[data][k] = pushed[k]
=============================================================================
