\* Two updates; messages of eight characters, of which three fit.
CONSTANTS
    Limit = 3
    MaxUpdates = 2
    MaxText = 8
    Texts <- MCTexts
SPECIFICATION Spec
INVARIANTS SplitsWithoutLoss AnswersArriveInOrder FatesAreHonest
PROPERTY OrdinaryTextsAreSent
CHECK_DEADLOCK FALSE
