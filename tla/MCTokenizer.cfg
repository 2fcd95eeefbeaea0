SPECIFICATION Spec
CONSTANTS
    Documents <- AllDocuments
    MaxChunks = 3
INVARIANTS
    ChunksAgree
    SpansSound
    TextKept
    AttrAtHand
    TurnsBounded
CHECK_DEADLOCK FALSE
