---------------------------- MODULE MC_BulkLoader ----------------------------
(* One subject, predicate and object; one named graph.  The input holds a *)
(* default-graph quad twice (a duplicate across batches) and a quad of g1. *)
EXTENDS BulkLoader, TLC

CONSTANTS s1, p1, o1, g1

MC_Subjects == {s1}
MC_Predicates == {p1}
MC_Objects == {o1}
MC_NamedGraphs == {g1}

qd == [s |-> s1, p |-> p1, o |-> o1, g |-> DefaultGraph]
qg == [s |-> s1, p |-> p1, o |-> o1, g |-> g1]

MC_Inputs == {<<qd, qg, qd>>, <<qd, ParseErr>>}

MC_InputsOne == {<<qd, qg, qd>>}
MC_Hinted == {qd}
=============================================================================
