SPECIFICATION CoherenceSpec
CONSTANTS
    c1 = c1
    c2 = c2
    image = image
    LastPage = 2
    Cpus = {c1}
    BlockSize = 2
    Images = {image}
    ImagePages <- AcrossBlocks
    MaxRetired = 1
INVARIANT ReadbackFindsOwner
CHECK_DEADLOCK FALSE
