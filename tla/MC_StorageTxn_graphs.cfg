CONSTANTS
    s1 = s1
    p1 = p1
    o1 = o1
    o2 = o2
    g1 = g1
    c1 = c1
    c2 = c2
    DefaultGraph = DefaultGraph
    Unit = Unit
    Subjects <- MC_Subjects
    Predicates <- MC_Predicates
    Objects <- MC_Objects
    NamedGraphs <- MC_NamedGraphs
    Clients <- MC_Clients
    Ops <- MC_Ops
    InitQuads <- MC_InitQuads
    Batches <- MC_RaceBatches
    MaxOps = 2
SPECIFICATION Spec
\* remove_named_graph racing an insert into, and a bulk ingestion of a
\* quad of, the same graph.
CHECK_DEADLOCK FALSE
INVARIANT GraphsCoverQuads
