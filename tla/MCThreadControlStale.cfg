SPECIFICATION Spec
CONSTANTS
    t1 = t1
    t2 = t2
    Trees = {t1, t2}
    NoTree = NoTree
    Batch = 2
    MaxTokens = 2
    MaxParses = 2
INVARIANT NoUseAfterFree
