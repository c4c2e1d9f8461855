------------------------------- MODULE FixedMap -------------------------------
(***************************************************************************)
(* The string map under test in week 35 (tests.c).  It is the map of week   *)
(* 33 (HashMap) without growth: whoever creates it chooses the number of    *)
(* buckets, and with few of them every chain is long.                       *)
(***************************************************************************)
EXTENDS Naturals, FiniteSets, SequencesExt, FiniteSetsExt

CONSTANTS
    Keys, Values,
    Hashes,            \* bound: the values hash_string returns
    BucketCounts,      \* bound: what map_create is called with
    DefaultBuckets,    \* 8
    NoKey, NoValue

VARIABLES
    hash, buckets, count,
    blocks,            \* what malloc and calloc gave and free did not get
    pc, key, val, answer

vars == <<hash, buckets, count, blocks, pc, key, val, answer>>

bucket_count == Cardinality(DOMAIN buckets)
Bucket(k) == hash[k] % bucket_count

Init ==
    /\ hash \in [Keys -> Hashes]
    /\ buckets = <<>> /\ count = 0 /\ blocks = 0
    /\ pc = "none" /\ key = NoKey /\ val = NoValue /\ answer = TRUE

-----------------------------------------------------------------------------
\* A creation that fails gives back what it took.
Create(n) ==
    /\ pc = "none" /\ pc' = "idle" /\ blocks' = 2
    /\ buckets' = [b \in 0 .. (IF n = 0 THEN DefaultBuckets ELSE n) - 1 |-> <<>>]
    /\ count' = 0
    /\ UNCHANGED <<hash, key, val, answer>>

Find(k) == SelectInSeq(buckets[Bucket(k)], LAMBDA e : e.key = k)

Start(k, v, operation) ==
    /\ pc = "idle" /\ pc' = operation
    /\ key' = k /\ val' = v
    /\ UNCHANGED <<hash, buckets, count, blocks, answer>>

Return(a) == answer' = a /\ pc' = "idle" /\ UNCHANGED <<hash, key, val>>

Replace ==
    /\ pc = "put" /\ Find(key) # 0
    /\ buckets' = [buckets EXCEPT ![Bucket(key)][Find(key)].value = val]
    /\ Return(TRUE) /\ UNCHANGED <<count, blocks>>

NewEntry ==
    /\ pc = "put" /\ Find(key) = 0
    /\ pc' = "key" /\ blocks' = blocks + 1
    /\ UNCHANGED <<hash, buckets, count, key, val, answer>>

NewKey ==
    /\ pc = "key"
    /\ buckets' = [buckets EXCEPT ![Bucket(key)] = <<[key |-> key, value |-> val]>> \o @]
    /\ count' = count + 1 /\ blocks' = blocks + 1
    /\ Return(TRUE)

GivenBack == IF pc = "key" THEN {key} ELSE {}

PutFails ==
    /\ pc = "key" \/ (pc = "put" /\ Find(key) = 0)
    /\ blocks' = blocks - Cardinality(GivenBack)
    /\ Return(FALSE) /\ UNCHANGED <<buckets, count>>

RemoveKey ==
    /\ pc = "remove" /\ Find(key) # 0
    /\ buckets' = [buckets EXCEPT ![Bucket(key)] = RemoveAt(@, Find(key))]
    /\ count' = count - 1 /\ blocks' = blocks - 2
    /\ Return(TRUE)

RemoveNothing ==
    /\ pc = "remove" /\ Find(key) = 0
    /\ Return(FALSE) /\ UNCHANGED <<buckets, count, blocks>>

\* Two blocks for each entry a chain has, then the two of the map.
Entries ==
    LET upto[b \in 0 .. bucket_count] ==
            IF b = 0 THEN <<>> ELSE upto[b - 1] \o buckets[b - 1]
    IN  upto[bucket_count]
Destroy ==
    /\ pc = "idle" /\ pc' = "none"
    /\ blocks' = blocks - 2 * Len(Entries) - 2
    /\ buckets' = <<>> /\ count' = 0 /\ answer' = TRUE
    /\ UNCHANGED <<hash, key, val>>

Next ==
    \/ \E n \in BucketCounts : Create(n)
    \/ \E k \in Keys : Start(k, NoValue, "remove") \/ \E v \in Values : Start(k, v, "put")
    \/ Replace \/ NewEntry \/ NewKey \/ PutFails \/ RemoveKey \/ RemoveNothing \/ Destroy

-----------------------------------------------------------------------------
\* count and memory agree with the chains, also after a put that failed and after
\* "removal from every chain position"; a map that is gone has left nothing.
FixedShape ==
    /\ pc # "none" => count = Len(Entries)
    /\ blocks = IF pc = "none" THEN 0 ELSE 2 + 2 * Len(Entries) + Cardinality(GivenBack)

\* To its callers it is the same dictionary as the map of week 33, however many
\* keys collide.
Present == IF pc = "none" THEN {} ELSE {k \in Keys : Find(k) # 0}
Lookup == [k \in Present |-> buckets[Bucket(k)][Find(k)].value]
D == INSTANCE Dictionary WITH
       dict <- Lookup, call <- IF pc \in {"none", "idle"} THEN <<>> ELSE <<key, val>>
ImplementsDictionary == D!DSpec
=============================================================================
