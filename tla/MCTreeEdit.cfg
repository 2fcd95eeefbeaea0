SPECIFICATION Spec
CONSTANTS
    doc = doc
    a = a
    b = b
    Null = Null
    Nodes = {doc, a, b}
    Document = doc
    Origin = 11
    SizeWord = 2
    Spaces = {0, 2}
    MaxText = 4
    Lengths = {1, 3}
    MaxChunks = 2
SYMMETRY Symmetry
CHECK_DEADLOCK FALSE
INVARIANTS TreeLinked BlocksApart TextsFit
