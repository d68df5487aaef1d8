\* Two messages, of one conversation or of two, with checkpoints written in the background,
\* under the fairness of the event loop and of LangGraph.
CONSTANTS
    Texts = {t1}
    Ids <- MCIds
    None = None
    Conversations = {c1, c2}
    MaxTurns = 2
    MaxToolRounds = 1
    MaxCalls = 2
    MaxRecentMessages = 3
    Background = TRUE
SPECIFICATION FairSpec
INVARIANT TurnUsesItsOwnRetrieval
PROPERTY EveryTurnEnds
CHECK_DEADLOCK FALSE
