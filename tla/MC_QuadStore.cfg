CONSTANTS
    s1 = s1
    s2 = s2
    p1 = p1
    o1 = o1
    g1 = g1
    g2 = g2
    DefaultGraph = DefaultGraph
    Unit = Unit
    Subjects <- MC_Subjects
    Predicates <- MC_Predicates
    Objects <- MC_Objects
    NamedGraphs <- MC_NamedGraphs

SPECIFICATION Spec

INVARIANT TypeOK
INVARIANT IndexCoherence
INVARIANT GraphsCoverQuads
INVARIANT Id2StrCoversLiveTerms
INVARIANT ReadsMatchPattern
INVARIANT TermRoundTrip

PROPERTY QuadSetRefinement
