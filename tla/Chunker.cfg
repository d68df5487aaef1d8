\* Every draft of up to eight symbols.
CONSTANTS
    TargetTokens = 2
    MaxTokens = 3
    OverlapTokens = 1
    MaxLength = 8
SPECIFICATION Spec
INVARIANTS NothingIsLost ChunksRespectLimits ParagraphsStayWhole
CHECK_DEADLOCK FALSE
