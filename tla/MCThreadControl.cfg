SPECIFICATION Spec
CONSTANTS
    t1 = t1
    t2 = t2
    Trees = {t1, t2}
    NoTree = NoTree
    Batch = 1
    MaxTokens = 2
    MaxParses = 3
INVARIANTS NoUseAfterFree ListSound AsleepWhenIdle DestroyedClean
