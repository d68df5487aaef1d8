\* Depths that cut nothing off.
CONSTANTS
    Artifacts <- MCArtifacts
    ConvOf <- MCConvOf
    TimeOf <- MCTimeOf
    Relevances <- MCRelevances
    Requests <- MCRequests
    DenseDepth = 4
    BM25Depth = 4
    FusedDepth = 4
    RerankDepth = 4
    RRFK = 60
    None = None
SPECIFICATION Spec
INVARIANT WindowIsInclusive
