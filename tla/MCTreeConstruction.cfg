SPECIFICATION Spec
CONSTANTS
    Null = Null
    Documents <- AllDocuments
    Script = FALSE
INVARIANTS
    TypeOK TreeSound StackRooted ActiveSound TemplateModes MarkersHold ModeFitsStack
    TableContent TokensOwned DocumentShape TurnsBounded OneThreadAgrees
