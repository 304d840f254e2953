CONSTANTS
    Writer = {p1, p2, p3}
    MaxRetries = 2
    MaxBatch = 2
    MaxLog = 2
SPECIFICATION FairSpec
INVARIANTS TypeOK Gapless CollisionsPaidFor
PROPERTIES DecidesOnLatest ImplementsAtomicLog AppendEnds
