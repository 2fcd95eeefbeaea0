CONSTANTS
    Names <- MCNames
    Texts <- MCTexts
    MaxChunks = 3
    Ranges <- MCRanges
    Composed <- MCComposed
    EntrySize = 12
    Behind = {59, 65}
SPECIFICATION Spec
INVARIANTS TextRead WritesInside
