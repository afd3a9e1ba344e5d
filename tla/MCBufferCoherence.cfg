SPECIFICATION CoherenceSpec
CONSTANTS
    c1 = c1
    c2 = c2
    image = image
    LastPage = 2
    Cpus = {c1, c2}
    BlockSize = 2
    Images = {image}
    ImagePages <- AcrossBlocks
    MaxRetired = 1
CONSTRAINT Bounded
INVARIANTS
    WatchersExact
    Coherent
CHECK_DEADLOCK FALSE
