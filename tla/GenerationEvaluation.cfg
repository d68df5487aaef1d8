\* Two cases, one of them compared, and two evaluations on one cache.
CONSTANTS
    CaseCount = 2
    Compared = {2}
    MetricCount = 2
    Contexts = {"near", "far"}
    Answers = {"grounded", "abstained"}
    MaxScore = 1
    MaxEvaluations = 2
SPECIFICATION Spec
INVARIANT ImprovedByReranking
CHECK_DEADLOCK FALSE
