\* Three messages of one conversation: failures and crashes at every step.
CONSTANTS
    Texts = {t1, t2}
    Ids <- MCIds
    None = None
    Conversations = {c1}
    MaxTurns = 3
    MaxToolRounds = 2
    MaxCalls = 1
    MaxRecentMessages = 5
    Background = FALSE
SPECIFICATION Spec
SYMMETRY MCSymmetry
INVARIANTS NoLeftovers RunsWorkOnTheRightDraft
    ActiveDraftIsStored ActiveTaskIsRevisable AnswersAreRemembered WindowIsOrdered
    FailedRunsLeaveNoArtifacts ResultIsCanonical
PROPERTY ConversationChangesAtCompletion
CHECK_DEADLOCK FALSE
