\* Three submissions against two slots, two closing calls; an operation of each source
\* may end the worker task.
CONSTANTS
    j1 = j1
    j2 = j2
    j3 = j3
    telegram = telegram
    heartbeat = heartbeat
    Jobs = {j1, j2, j3}
    Sources = {telegram, heartbeat}
    SourceOf <- MCSourceOf
    Capacity = 2
    Workers = {w1, w2}
    Closers = {c1, c2}
    Fatal = {j1, j2}
    STOP = STOP
    NoJob = NoJob
    NoWorker = NoWorker
SPECIFICATION FairSpec
INVARIANTS EveryStartedJobCounted UnfinishedIsExact NoSubmitterStranded CloseDrained
PROPERTIES ClosesUnlessDead ImplementsExecutor
CHECK_DEADLOCK FALSE
