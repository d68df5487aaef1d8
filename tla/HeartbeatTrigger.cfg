\* One turn, heartbeats of the loop and of one call of trigger_now().
CONSTANTS
    Turns = {t1}
    Triggers = {k1}
    Loop = loop
    MaxRuns = 2
    Capacity = 2
    Threshold = 1
    Pressure <- MCPressure
    NoJob = NoJob
SPECIFICATION Spec
INVARIANT NoHeartbeatAfterClose
CHECK_DEADLOCK FALSE
