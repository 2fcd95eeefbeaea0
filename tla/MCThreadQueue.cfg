CONSTANTS
    Size = 2
    Batch = 2
    MaxPieces = 4
    MaxParses = 2
    BuildModes = {TRUE, FALSE}
    SkipWhitespace = TRUE
    Cdata = TRUE
SPECIFICATION FairSpec
INVARIANTS
    TypeOK
    SlotStable
    BuiltInOrder
    DecodedOnce
    AllDoneAtEnd
    BuilderQuietWhenRead
PROPERTIES
    PipelineRefined
    BuildEnds
