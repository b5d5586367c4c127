CONSTANTS
    s1 = s1
    p1 = p1
    o1 = o1
    o2 = o2
    g1 = g1
    c1 = c1
    c2 = c2
    DefaultGraph = DefaultGraph
    Unit = Unit
    Subjects <- MC_Subjects
    Predicates <- MC_Predicates
    Objects <- MC_Objects
    NamedGraphs <- MC_NamedGraphs
    Clients <- MC_Clients
    Ops <- MC_Ops
    InitQuads <- MC_InitQuads
    Batches <- MC_NoBatches
    MaxOps = 2
SPECIFICATION Spec
\* Clients stop after MaxOps operations each: the final all-idle state has
\* no successor by design.
CHECK_DEADLOCK FALSE
INVARIANTS TypeOK Id2StrCoversLiveTerms
PROPERTIES ReturnAtCommit OperationsReturn
