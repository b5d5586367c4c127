---------------------------- MODULE MC_StorageTxn ----------------------------
(* Two client threads, one subject and predicate, one object, one named *)
(* graph; each client issues two operations, each rerun until it       *)
(* commits.  A bulk load may ingest a batch holding a second object at  *)
(* any time.                                                            *)
EXTENDS StorageTxn, TLC

CONSTANTS s1, p1, o1, o2, g1, c1, c2

MC_Subjects == {s1}
MC_Predicates == {p1}
MC_Objects == {o1, o2}
MC_NamedGraphs == {g1}
MC_Clients == {c1, c2}

\* insert / remove of every quad with object o1, and the graph operations
\* on g1 and on the default graph; every op record carries a quad and a
\* graph.
MC_Ops ==
    LET Q == {q \in S!Quads : q.o = o1}
        any == CHOOSE q \in Q : TRUE
    IN {[kind |-> k, q |-> q, g |-> q.g] : k \in {"insert", "remove"}, q \in Q}
       \cup {[kind |-> k, q |-> any, g |-> g1] :
                k \in {"insert_named_graph", "remove_named_graph", "clear_graph"}}
       \cup {[kind |-> "clear_graph", q |-> any, g |-> DefaultGraph]}

\* The store may start with one quad in g1 (so g1 is declared).
MC_InitQuads == {[s |-> s1, p |-> p1, o |-> o1, g |-> g1]}
\* No bulk load (MC_NoBatches), or a concurrent bulk load of a second
\* quad of g1 (MC_RaceBatches).
MC_NoBatches == {}
MC_RaceBatches == {{[s |-> s1, p |-> p1, o |-> o2, g |-> g1]}}
=============================================================================
