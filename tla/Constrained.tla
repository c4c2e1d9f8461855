----------------------------- MODULE Constrained -----------------------------
(***************************************************************************)
(* The allocation-free building blocks of week 53 (constrained.c): a pool   *)
(* of blocks whose free list runs through the free blocks, and a ring of    *)
(* RING_SIZE bytes of which one stays empty.                                *)
(***************************************************************************)
EXTENDS Naturals, FiniteSets, Sequences

CONSTANTS
    POOL_BLOCKS,       \* 8
    RING_SIZE,         \* 16
    Bytes,             \* the bytes pushed
    NULL

VARIABLES
    next,              \* of each block; what a held block contains is its user's
    free_list, pool_in_use, pool_peak,
    held,              \* the blocks given out and not yet given back
    data, head, tail,  \* the ring
    queued             \* history: accepted and not yet popped

pool == <<next, free_list, pool_in_use, pool_peak, held>>
ring == <<data, head, tail, queued>>
vars == <<next, free_list, pool_in_use, pool_peak, held, data, head, tail, queued>>

Storage == 0 .. POOL_BLOCKS - 1

\* pool_init threads the list through the storage, the last block first.
Init ==
    /\ next = [b \in Storage |-> IF b = 0 THEN NULL ELSE b - 1]
    /\ free_list = POOL_BLOCKS - 1
    /\ pool_in_use = 0 /\ pool_peak = 0
    /\ held = {}
    /\ data = [k \in 0 .. RING_SIZE - 1 |-> NULL]
    /\ head = 0 /\ tail = 0
    /\ queued = <<>>

-----------------------------------------------------------------------------
\* A definition whose name starts with "Bug" is a mistake the definition after
\* it could have had; no action uses it.

Peak(n) == IF n > pool_peak THEN n ELSE pool_peak

\* The user overwrites the link of the block it is given.  An exhausted pool
\* answers NULL and changes nothing.
PoolAlloc ==
    /\ free_list # NULL
    /\ held' = held \cup {free_list}
    /\ free_list' = next[free_list]
    /\ \E content \in Storage \cup {NULL} : next' = [next EXCEPT ![free_list] = content]
    /\ pool_in_use' = pool_in_use + 1
    /\ pool_peak' = Peak(pool_in_use + 1)
    /\ UNCHANGED ring

BugFreed(b) == next
Freed(b) == [next EXCEPT ![b] = free_list]

\* pool_free(NULL) returns at once.
PoolFree(b) ==
    /\ next' = Freed(b)
    /\ free_list' = b
    /\ held' = held \ {b}
    /\ pool_in_use' = pool_in_use - 1
    /\ UNCHANGED <<pool_peak, ring>>

Successor(k) == (k + 1) % RING_SIZE

\* "full: refuse, not grow"
RingFull == Successor(head) = tail

RingPush(v) ==
    /\ ~ RingFull
    /\ data' = [data EXCEPT ![head] = v]
    /\ head' = Successor(head)
    /\ queued' = Append(queued, v)
    /\ UNCHANGED <<tail, pool>>

RingPop ==
    /\ tail # head
    /\ tail' = Successor(tail)
    /\ queued' = Tail(queued)
    /\ UNCHANGED <<data, head, pool>>

Next ==
    \/ PoolAlloc
    \/ \E b \in held : PoolFree(b)
    \/ \E v \in Bytes : RingPush(v)
    \/ RingPop

-----------------------------------------------------------------------------
\* The blocks the free list leads to, after n links.
After[n \in 0 .. POOL_BLOCKS] ==
    IF n = 0 THEN free_list
    ELSE IF After[n - 1] = NULL THEN NULL ELSE next[After[n - 1]]

\* "exhausted, not undefined", "fragmentation is impossible": whatever the users
\* write into their blocks and in whatever order they give them back, the free
\* list leads through exactly the blocks nobody holds, once each, so no block is
\* given out twice or lost and the pool refuses only when all are in use; and
\* the ring holds what was accepted, in order, and loses nothing when it wraps.
BuildingBlocksHold ==
    /\ {After[n] : n \in 0 .. POOL_BLOCKS} \ {NULL} = Storage \ held
    /\ After[POOL_BLOCKS - pool_in_use] = NULL
    /\ pool_in_use = Cardinality(held) /\ pool_peak \in pool_in_use .. POOL_BLOCKS
    /\ Len(queued) = (head + RING_SIZE - tail) % RING_SIZE
    /\ \A k \in 1 .. Len(queued) : data[(tail + k - 1) % RING_SIZE] = queued[k]

\* For BuildingBlocksHold: path is the way of the free list through the free
\* blocks.
FreePath(path) ==
    LET free == POOL_BLOCKS - pool_in_use IN
    /\ \A j, k \in 1 .. free : path[j] = path[k] => j = k
    /\ \A b \in Storage \ held : \E k \in 1 .. free : path[k] = b
    /\ free_list = IF free = 0 THEN NULL ELSE path[1]
    /\ \A k \in 1 .. free : next[path[k]] = IF k = free THEN NULL ELSE path[k + 1]

PoolInv ==
    /\ held \subseteq Storage
    /\ pool_in_use \in 0 .. POOL_BLOCKS /\ pool_peak \in pool_in_use .. POOL_BLOCKS
    /\ pool_in_use = Cardinality(held)
    /\ next \in [Storage -> Storage \cup {NULL}]
    /\ \E path \in [1 .. POOL_BLOCKS - pool_in_use -> Storage \ held] : FreePath(path)

RingInv ==
    /\ head \in 0 .. RING_SIZE - 1 /\ tail \in 0 .. RING_SIZE - 1
    /\ queued \in Seq(Bytes)
    /\ DOMAIN data = 0 .. RING_SIZE - 1
    /\ Len(queued) = IF head >= tail THEN head - tail ELSE head + RING_SIZE - tail
    /\ \A k \in 1 .. Len(queued) : data[(tail + k - 1) % RING_SIZE] = queued[k]
=============================================================================
