CONSTANTS
    Size = 2
    Batch = 2
    MaxPieces = 3
    MaxParses = 1
    BuildModes = {FALSE}
    SkipWhitespace = TRUE
    Cdata = TRUE
SPECIFICATION FairSpec
PROPERTIES
    ParseEnds
