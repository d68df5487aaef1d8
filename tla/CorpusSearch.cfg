\* Every order of three chunks in each ranking; depths smaller than the corpus.
CONSTANTS
    Artifacts <- MCArtifacts
    ConvOf <- MCConvOf
    TimeOf <- MCTimeOf
    Relevances <- MCRelevances
    Requests <- MCRequests
    DenseDepth = 2
    BM25Depth = 2
    FusedDepth = 2
    RerankDepth = 2
    RRFK = 60
    None = None
    Cases <- MCCases
    KValues = {1, 2, 3}
    Discount <- MCDiscount
SPECIFICATION EvaluationSpec
INVARIANTS ResultsInScope BetterInBothComesFirst ScoresAreOfSearches ScoresAreSound
    FindingsMatchRankings
PROPERTY SearchIsDeterministic
