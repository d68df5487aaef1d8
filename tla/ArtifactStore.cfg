\* Two processes that save, replay and contradict the runs of two tasks.
CONSTANTS
    Writers = {w1, w2}
    Runs <- MCRuns
    None = None
SPECIFICATION Spec
INVARIANT ChunksMatchArtifacts
PROPERTIES RepliesAreTruthful ImplementsLedger
