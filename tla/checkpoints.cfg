SPECIFICATION FairSpec
CONSTANTS
    MaxKey = 5
    MaxValue = 1
    MaxBlock = 7
INVARIANTS
    TypeOK
    KeysIncrease
    AnswersAreRight
    SearchesStayInside
PROPERTIES
    PushesRewriteNothing
    LookupsReturn
