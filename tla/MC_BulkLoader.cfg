CONSTANTS
    s1 = s1
    p1 = p1
    o1 = o1
    g1 = g1
    DefaultGraph = DefaultGraph
    Unit = Unit
    ParseErr = ParseErr
    Hint = Hint
    Subjects <- MC_Subjects
    Predicates <- MC_Predicates
    Objects <- MC_Objects
    NamedGraphs <- MC_NamedGraphs
    Inputs <- MC_Inputs
    Hinted <- MC_Hinted
    BatchSize = 1
    NumThreads = 2
    DisplayStep = 2
    MaxFailures = 1
    Variant = "oxiuse_value"
    TreeReadable = {TRUE, FALSE}
SPECIFICATION Spec
\* load returns; the threads then have nothing left to do.
CHECK_DEADLOCK FALSE
INVARIANTS TypeOK PoolBound IndexCoherence GraphsCoverQuads Id2StrCoversLiveTerms BulkLoadEquivalence
