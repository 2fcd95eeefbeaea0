CONSTANTS
    main = main
    stream = stream
    Threads <- MCThreads
    Spinlock = TRUE
    ChunksSize = 1
    MaxRows = 3
    ChunkCap = 1
SPECIFICATION Spec
SYMMETRY MCSymmetry
INVARIANTS
    ChunkOwned
CHECK_DEADLOCK FALSE
