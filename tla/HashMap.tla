------------------------------ MODULE HashMap -------------------------------
(***************************************************************************)
(* The hash map of week 33 (adt.c).                                         *)
(*                                                                          *)
(* A chain of entries is a sequence, and the walk along it one step; what   *)
(* allocates memory is a step for each allocation, which may fail.  blocks  *)
(* counts what malloc and calloc returned and free did not get: a map is    *)
(* two blocks, an entry and its key two more.  The hash of a key is any     *)
(* function, chosen once.                                                   *)
(***************************************************************************)
EXTENDS Naturals, FiniteSets, SequencesExt, FiniteSetsExt

CONSTANTS
    Keys,
    Values,
    Hashes,        \* bound: the values hash_string returns
    FirstBuckets,  \* the bucket count of a new map, 8 in the source
    NoKey, NoValue

VARIABLES
    hash,          \* hash_string, as a function
    buckets,       \* from 0 .. bucket_count - 1 to sequences of entries
    count,
    blocks,
    pc,            \* where the operation under way is
    key, val, i,   \* the arguments and the index of map_put and map_remove
    answer         \* what the last of them returned

args == <<key, val, i, answer>>
vars == <<hash, buckets, count, blocks, pc, key, val, i, answer>>

bucket_count == Cardinality(DOMAIN buckets)
Bucket(k, n) == hash[k] % n

Init ==
    /\ hash \in [Keys -> Hashes]
    /\ buckets = <<>> /\ count = 0 /\ blocks = 0
    /\ pc = "none"
    /\ key = NoKey /\ val = NoValue /\ i = 0 /\ answer = TRUE

-----------------------------------------------------------------------------
\* map_create, one step for each of its two allocations.

CreateMap ==
    /\ pc = "none"
    /\ pc' = "create" /\ blocks' = blocks + 1
    /\ UNCHANGED <<hash, buckets, count, args>>

CreateBuckets ==
    /\ pc = "create"
    /\ pc' = "idle" /\ blocks' = blocks + 1
    /\ buckets' = [b \in 0 .. FirstBuckets - 1 |-> <<>>]
    /\ count' = 0
    /\ UNCHANGED <<hash, args>>

CreateFails ==
    /\ pc = "create"
    /\ pc' = "none" /\ blocks' = blocks - 1
    /\ UNCHANGED <<hash, buckets, count, args>>

-----------------------------------------------------------------------------
\* The first entry of a chain with key k, or 0.
Find(chain, k) == SelectInSeq(chain, LAMBDA e : e.key = k)
Chain(k) == buckets[Bucket(k, bucket_count)]

Start(k, v, operation) ==
    /\ pc = "idle"
    /\ key' = k /\ val' = v
    /\ i' = Bucket(k, bucket_count)
    /\ pc' = operation
    /\ UNCHANGED <<hash, buckets, count, blocks, answer>>

Return(ok) ==
    /\ pc' = "idle"
    /\ key' = NoKey /\ val' = NoValue /\ i' = 0
    /\ answer' = ok

StartPut(k, v) == Start(k, v, "put")

\* map_put of a key that is present.
Replace ==
    /\ pc = "put" /\ Find(buckets[i], key) # 0
    /\ buckets' = [buckets EXCEPT ![i][Find(buckets[i], key)].value = val]
    /\ Return(TRUE)
    /\ UNCHANGED <<hash, count, blocks>>

TooFull == (count + 1) * 4 > bucket_count * 3

NotThere ==
    /\ pc = "put" /\ Find(buckets[i], key) = 0
    /\ pc' = IF TooFull THEN "grow" ELSE "entry"
    /\ UNCHANGED <<hash, buckets, count, blocks, args>>

\* A definition whose name starts with "Bug" is a mistake the definition after
\* it could have had; no action uses it.

\* map_grow visits the entries bucket by bucket and pushes each to the front.
Entries ==
    LET upto[b \in 0 .. bucket_count] ==
            IF b = 0 THEN <<>> ELSE upto[b - 1] \o buckets[b - 1]
    IN  upto[bucket_count]
Rehashed(n) ==
    LET moved[m \in 0 .. Len(Entries)] ==
            IF m = 0 THEN [b \in 0 .. n - 1 |-> <<>>]
            ELSE [moved[m - 1] EXCEPT ![Bucket(Entries[m].key, n)] = <<Entries[m]>> \o @]
    IN  moved[Len(Entries)]

\* Where the entry goes after the map has grown.
BugNewIndex(n) == i
NewIndex(n) == Bucket(key, n)

Grow ==
    /\ pc = "grow"
    /\ buckets' = Rehashed(bucket_count * 2)
    /\ i' = NewIndex(bucket_count * 2)
    /\ pc' = "entry"
    /\ UNCHANGED <<hash, count, blocks, key, val, answer>>

NewEntry ==
    /\ pc = "entry"
    /\ blocks' = blocks + 1
    /\ pc' = "key"
    /\ UNCHANGED <<hash, buckets, count, args>>

NewKey ==
    /\ pc = "key"
    /\ blocks' = blocks + 1
    /\ buckets' = [buckets EXCEPT ![i] = <<[key |-> key, value |-> val]>> \o @]
    /\ count' = count + 1
    /\ Return(TRUE)
    /\ UNCHANGED hash

\* What the key's failing allocation gives back of the entry.
GivenBack == 1

PutFails ==
    /\ pc \in {"grow", "entry", "key"}
    /\ blocks' = IF pc = "key" THEN blocks - GivenBack ELSE blocks
    /\ Return(FALSE)
    /\ UNCHANGED <<hash, buckets, count>>

-----------------------------------------------------------------------------
StartRemove(k) == Start(k, NoValue, "remove")

RemoveKey ==
    /\ pc = "remove" /\ Find(buckets[i], key) # 0
    /\ buckets' = [buckets EXCEPT ![i] = RemoveAt(@, Find(@, key))]
    /\ blocks' = blocks - 2
    /\ count' = count - 1
    /\ Return(TRUE)
    /\ UNCHANGED hash

RemoveNothing ==
    /\ pc = "remove" /\ Find(buckets[i], key) = 0
    /\ Return(FALSE)
    /\ UNCHANGED <<hash, buckets, count, blocks>>

\* map_destroy: the entries bucket by bucket, and the map last.
StartDestroy ==
    /\ pc = "idle"
    /\ pc' = "destroy" /\ answer' = TRUE
    /\ UNCHANGED <<hash, buckets, count, blocks, key, val, i>>

FirstUsed == CHOOSE b \in DOMAIN buckets :
                 buckets[b] # <<>> /\ \A c \in 0 .. b - 1 : buckets[c] = <<>>

DestroyEntry ==
    /\ pc = "destroy" /\ Entries # <<>>
    /\ buckets' = [buckets EXCEPT ![FirstUsed] = Tail(@)]
    /\ blocks' = blocks - 2
    /\ UNCHANGED <<hash, count, pc, args>>

DestroyMap ==
    /\ pc = "destroy" /\ Entries = <<>>
    /\ buckets' = <<>> /\ count' = 0
    /\ blocks' = blocks - 2
    /\ pc' = "none"
    /\ UNCHANGED <<hash, args>>

Next ==
    \/ CreateMap \/ CreateBuckets \/ CreateFails
    \/ \E k \in Keys : StartRemove(k) \/ \E v \in Values : StartPut(k, v)
    \/ Replace \/ NotThere \/ RemoveKey \/ RemoveNothing
    \/ Grow \/ NewEntry \/ NewKey \/ PutFails
    \/ StartDestroy \/ DestroyEntry \/ DestroyMap

Spec == Init /\ [][Next]_vars

-----------------------------------------------------------------------------
\* Every block is accounted for, whatever allocation failed on the way, and
\* count, the chains and the load factor agree: no entry is in a bucket where
\* map_get would not look, none is there twice, and a map at rest is no fuller
\* than map_put lets it get.
Held ==
    CASE pc = "none" -> 0 [] pc = "create" -> 1 [] pc = "key" -> 3 [] OTHER -> 2

MapShape ==
    /\ blocks = Held + 2 * Len(Entries)
    /\ \A b \in DOMAIN buckets : \A j \in DOMAIN buckets[b] :
           Bucket(buckets[b][j].key, bucket_count) = b
    /\ pc \notin {"none", "create", "destroy"} =>
           /\ count = Len(Entries)
           /\ count * 4 <= bucket_count * 3
    /\ Cardinality({Entries[j].key : j \in DOMAIN Entries}) = Len(Entries)

\* To its callers the map is a dictionary: map_get finds a key exactly if it was
\* put and not removed, with the value last put, although the map grows and
\* rehashes in between; a map_put that fails at any allocation, after the growth
\* too, changes nothing they can see, and one that succeeds has stored its key.
Present == IF pc \in {"none", "create", "destroy"} THEN {}
           ELSE {k \in Keys : Find(Chain(k), k) # 0}
Lookup == [k \in Present |-> Chain(k)[Find(Chain(k), k)].value]

Busy == pc \in {"put", "grow", "entry", "key", "remove"}

D == INSTANCE Dictionary WITH dict <- Lookup, call <- IF Busy THEN <<key, val>> ELSE <<>>
ImplementsDictionary == D!DSpec
=============================================================================
