CONSTANTS
    s1 = s1
    p1 = p1
    o1 = o1
    g1 = g1
    DefaultGraph = DefaultGraph
    Unit = Unit
    Subjects = {s1}
    Predicates = {p1}
    Objects = {o1}
    NamedGraphs = {g1}
    InitQuads <- MC_InitQuads
    IterErrors = {TRUE, FALSE}

SPECIFICATION Spec

INVARIANT ReportExact
PROPERTY ValidateLeavesWalks
