\* Two turns, three heartbeats, of the loop and of one call of trigger_now().
CONSTANTS
    Turns = {t1, t2}
    Triggers = {k1}
    Loop = loop
    MaxRuns = 3
    Capacity = 2
    Threshold = 2
    Pressure <- MCPressure
    NoJob = NoJob
SPECIFICATION FairSpec
INVARIANTS FailedCompositionReleases DatabasesOutliveTurns AlertsAreJustified
    SentWasDelivered QueueStaysShort
PROPERTIES NothingAfterShutdown ShutdownEnds
CHECK_DEADLOCK FALSE
