CONSTANTS
    main = main
    stream = stream
    Threads <- MCThreads
    Spinlock = FALSE
    ChunksSize = 1
    MaxRows = 3
    ChunkCap = 1
SPECIFICATION Spec
SYMMETRY MCSymmetry
INVARIANTS
    ChunkOwned
    NoChunkLost
    OneHolder
    HeaderNamesOwner
CHECK_DEADLOCK FALSE
