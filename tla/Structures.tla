----------------------------- MODULE Structures -----------------------------
(***************************************************************************)
(* The data structures of weeks 19 to 53, each on its own: they belong to   *)
(* different programs and share no state, so that a behaviour exercises the *)
(* one that structure names and the others stay as they began.              *)
(***************************************************************************)
EXTENDS Integers, FiniteSets

CONSTANTS
    Nodes, Values, Keys, TreeKeys, Hashes, FirstBuckets,
    NULL, HeadField, Garbage, NoKey, NoValue,
    Blocks, IntWidth, Capacities, DefaultCapacity, MaxCapacity,
    POOL_BLOCKS, RING_SIZE, Bytes, BucketCounts, DefaultBuckets

\* constrained.c has a block and a slot at least, and NULL is no block.
ASSUME ConstrainedAssumption ==
    POOL_BLOCKS \in Nat \ {0} /\ RING_SIZE \in Nat \ {0} /\ NULL \notin Nat

\* An int has some bits; intarray.c and its like start with some capacity.
ASSUME ArrayAssumption ==
    /\ 2 ^ (IntWidth - 1) \in Nat
    /\ Capacities \subseteq Nat /\ DefaultCapacity \in Nat \ {0}

\* A pointer to a node is none of the others.
ASSUME NodesAssumption ==
    IsFiniteSet(Nodes) /\ {NULL, HeadField, Garbage} \cap Nodes = {}

\* hash_string returns a number; a map has some buckets.
ASSUME MapAssumption ==
    /\ Hashes \subseteq Nat /\ FirstBuckets \in Nat \ {0}
    /\ BucketCounts \subseteq Nat /\ DefaultBuckets \in Nat \ {0}

\* adt.c: the keys of the tree are ints.
ASSUME TreeAssumption == TreeKeys \subseteq Int

VARIABLES
    structure,
    lvalue, lnext, lallocated, lhead, ltail, lcount, lpc, lprev, lcurr, llink, lwanted,
    mhash, mbuckets, mcount, mblocks, mpc, mkey, mval, mi, manswer,
    tkey, tleft, tright, tallocated, troot, tpc, twanted, tlink, tstack,
    avariant, astruct, adata, acount, acapacity, aheap, apushed,
    cnext, cfree, cinuse, cpeak, cheld, cdata, chead, ctail, cqueued,
    fhash, fbuckets, fcount, fblocks, fpc, fkey, fval, fanswer

listVars == <<lvalue, lnext, lallocated, lhead, ltail, lcount, lpc, lprev, lcurr, llink, lwanted>>
mapVars == <<mhash, mbuckets, mcount, mblocks, mpc, mkey, mval, mi, manswer>>
treeVars == <<tkey, tleft, tright, tallocated, troot, tpc, twanted, tlink, tstack>>
arrayVars == <<avariant, astruct, adata, acount, acapacity, aheap, apushed>>
blockVars == <<cnext, cfree, cinuse, cpeak, cheld, cdata, chead, ctail, cqueued>>
fixedVars == <<fhash, fbuckets, fcount, fblocks, fpc, fkey, fval, fanswer>>
structureVars == <<structure, listVars, mapVars, treeVars, arrayVars, blockVars, fixedVars>>

List == INSTANCE LinkedList WITH
    value <- lvalue, next <- lnext, allocated <- lallocated, head <- lhead,
    tail <- ltail, count <- lcount, pc <- lpc, prev <- lprev, curr <- lcurr,
    link <- llink, wanted <- lwanted
Map == INSTANCE HashMap WITH
    hash <- mhash, buckets <- mbuckets, count <- mcount, blocks <- mblocks,
    pc <- mpc, key <- mkey, val <- mval, i <- mi, answer <- manswer
Tree == INSTANCE SearchTree WITH
    key <- tkey, left <- tleft, right <- tright, allocated <- tallocated,
    root <- troot, pc <- tpc, wanted <- twanted, link <- tlink, stack <- tstack
Array == INSTANCE GrowableArray WITH
    variant <- avariant, struct <- astruct, data <- adata, count <- acount,
    capacity <- acapacity, heap <- aheap, pushed <- apushed
Building == INSTANCE Constrained WITH
    next <- cnext, free_list <- cfree, pool_in_use <- cinuse, pool_peak <- cpeak,
    held <- cheld, data <- cdata, head <- chead, tail <- ctail, queued <- cqueued

Fixed == INSTANCE FixedMap WITH
    hash <- fhash, buckets <- fbuckets, count <- fcount, blocks <- fblocks,
    pc <- fpc, key <- fkey, val <- fval, answer <- fanswer

InitStructures ==
    /\ structure \in {"list", "map", "tree", "array", "blocks", "fixed"}
    /\ List!Init /\ Tree!Init /\ Building!Init
    /\ Map!Init /\ Fixed!Init
    /\ structure # "map" => mhash = [k \in Keys |-> 0]
    /\ structure # "fixed" => fhash = [k \in Keys |-> 0]
    /\ Array!Init
    /\ structure # "array" => avariant = "handle"

NextStructures ==
    /\ UNCHANGED structure
    /\ \/ structure = "list" /\ List!Next
          /\ UNCHANGED <<mapVars, treeVars, arrayVars, blockVars, fixedVars>>
       \/ structure = "map" /\ Map!Next
          /\ UNCHANGED <<listVars, treeVars, arrayVars, blockVars, fixedVars>>
       \/ structure = "tree" /\ Tree!Next
          /\ UNCHANGED <<listVars, mapVars, arrayVars, blockVars, fixedVars>>
       \/ structure = "array" /\ Array!Next
          /\ UNCHANGED <<listVars, mapVars, treeVars, blockVars, fixedVars>>
       \/ structure = "blocks" /\ Building!Next
          /\ UNCHANGED <<listVars, mapVars, treeVars, arrayVars, fixedVars>>
       \/ structure = "fixed" /\ Fixed!Next
          /\ UNCHANGED <<listVars, mapVars, treeVars, arrayVars, blockVars>>

SpecStructures == InitStructures /\ [][NextStructures]_structureVars

-----------------------------------------------------------------------------
\* lists.c: the list is a sequence to its callers.
ListIsSequence == List!ImplementsSequence

\* adt.c, tests.c: both maps are dictionaries to their callers.
MapIsDictionary == Map!ImplementsDictionary /\ Fixed!ImplementsDictionary

\* adt.c, tests.c: a map's count, blocks, chains and bucket count agree, the tree is
\* ordered and complete, and no allocation that fails and no operation that frees
\* loses memory or leads to memory already freed; see MapShape, FixedShape and
\* TreeShape.
TablesHold == Map!MapShape /\ Fixed!FixedShape /\ Tree!TreeShape

\* dynarray.c, intarray.c, generic.c: the growable array keeps what it accepted
\* whatever realloc does; see ArrayIsSequence in GrowableArray.
ArrayIsSequence == Array!ArrayIsSequence

\* constrained.c: no block of the pool is given out twice and the ring is a
\* queue; see BuildingBlocksHold in Constrained.
BuildingBlocksHold == Building!BuildingBlocksHold

\* lists.c, constrained.c: head, tail, count and links of the list agree whatever
\* is linked in or taken out and freed, and so do those of the pool and the ring;
\* see Shape in LinkedList.
ChainsHold == List!Shape /\ BuildingBlocksHold
=============================================================================
