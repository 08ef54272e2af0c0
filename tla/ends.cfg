SPECIFICATION Spec
CONSTANTS
    playerOne = playerOne
    playerTwo = playerTwo
    CardWords <- MCCardWords
    EmptyWord = "empty"
    CardNumbers <- MCCardNumbers
    CardsInPlay <- MCCards
    Numbers <- MCNumbers
INVARIANTS
    HiddenTilesNeverWin
PROPERTIES
    WinnableGamesEnd
CHECK_DEADLOCK FALSE
