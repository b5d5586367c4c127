CONSTANTS
    s1 = s1
    p1 = p1
    o1 = o1
    g1 = g1
    DefaultGraph = DefaultGraph
    Unit = Unit
    ParseErr = ParseErr
    Hint = Hint
    Subjects <- MC_Subjects
    Predicates <- MC_Predicates
    Objects <- MC_Objects
    NamedGraphs <- MC_NamedGraphs
    Inputs <- MC_InputsOne
    Hinted <- MC_Hinted
    BatchSize = 1
    NumThreads = 2
    DisplayStep = 2
    MaxFailures = 1
    Variant = "plain"
    TreeReadable = {TRUE}
SPECIFICATION Spec
CHECK_DEADLOCK FALSE
PROPERTY NoIngestAfterError
