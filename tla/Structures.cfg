SPECIFICATION SpecStructures
CONSTANTS
    Nodes = {n1, n2, n3, n4}
    Values = {a, b}
    Keys = {k1, k2, k3}
    TreeKeys = {1, 2, 3, 4, 5}
    Hashes = {0, 1, 3, 6}
    FirstBuckets = 3
    NULL = null
    HeadField = headField
    Garbage = garbage
    NoKey = noKey
    NoValue = noValue
    Blocks = {b1, b2, b3}
    IntWidth = 4
    Capacities = {0, 1, 3}
    DefaultCapacity = 2
    MaxCapacity = 4
    POOL_BLOCKS = 3
    RING_SIZE = 3
    Bytes = {1, 2}
    BucketCounts = {0, 1}
    DefaultBuckets = 2
INVARIANTS
    ChainsHold
    TablesHold
    ArrayIsSequence
PROPERTIES
    
    MapIsDictionary
