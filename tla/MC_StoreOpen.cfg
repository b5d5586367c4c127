CONSTANTS
    s1 = s1
    p1 = p1
    o1 = o1
    g1 = g1
    DefaultGraph = DefaultGraph
    Unit = Unit
    None = None
    Subjects = {s1}
    Predicates = {p1}
    Objects = {o1}
    NamedGraphs = {g1}
    InitQuads <- MC_InitQuads
    InitVersions <- MC_InitVersions
    MaxCrashes = 2

SPECIFICATION Spec

\* Opening ends in "opened" or "failed" and a failed open returns an error.
CHECK_DEADLOCK FALSE

INVARIANT TypeOK
INVARIANT OpenedMigrated
