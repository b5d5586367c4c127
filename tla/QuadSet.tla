------------------------------- MODULE QuadSet -------------------------------
(***************************************************************************)
(* What the storage writer promises (spec.md 4.4), stated without indexes: *)
(* the store is a set of quads plus a set of declared named graphs, and   *)
(* every write operation is one atomic step that reports whether it       *)
(* changed anything.  QuadStore and StorageTxn are shown to implement it. *)
(***************************************************************************)
EXTENDS FiniteSets

CONSTANTS
    Subjects, Predicates, Objects,   \* the terms a quad may carry
    NamedGraphs,                     \* graph names other than the default
    DefaultGraph,                    \* EncodedTerm::DefaultGraph
    Unit                             \* what clear_graph & co. return: ()

Quads == [s : Subjects, p : Predicates, o : Objects,
          g : NamedGraphs \cup {DefaultGraph}]


VARIABLES
    dataset,       \* the quads in the store
    namedGraphs,   \* the graph names declared in the store
    ret            \* what the last operation returned

vars == <<dataset, namedGraphs, ret>>

InGraph(Q, g) == {q \in Q : q.g = g}

Init ==
    /\ dataset = {}
    /\ namedGraphs = {}
    /\ ret = Unit

\* A new quad is added and its graph becomes declared; an old one is a no-op.
Insert(q) ==
    /\ ret' = (q \notin dataset)
    /\ dataset' = dataset \cup {q}
    /\ namedGraphs' = IF q.g = DefaultGraph THEN namedGraphs
                      ELSE namedGraphs \cup {q.g}

\* Removing a quad never undeclares its graph.
Remove(q) ==
    /\ ret' = (q \in dataset)
    /\ dataset' = dataset \ {q}
    /\ UNCHANGED namedGraphs

InsertNamedGraph(g) ==
    /\ ret' = (g \notin namedGraphs)
    /\ namedGraphs' = namedGraphs \cup {g}
    /\ UNCHANGED dataset

ClearGraph(g) ==
    /\ dataset' = dataset \ InGraph(dataset, g)
    /\ ret' = Unit
    /\ UNCHANGED namedGraphs

ClearAllNamedGraphs ==
    /\ dataset' = InGraph(dataset, DefaultGraph)
    /\ ret' = Unit
    /\ UNCHANGED namedGraphs

ClearAllGraphs ==
    /\ dataset' = {}
    /\ ret' = Unit
    /\ UNCHANGED namedGraphs

RemoveNamedGraph(g) ==
    /\ ret' = (g \in namedGraphs)
    /\ dataset' = dataset \ InGraph(dataset, g)
    /\ namedGraphs' = namedGraphs \ {g}

RemoveAllNamedGraphs ==
    /\ dataset' = InGraph(dataset, DefaultGraph)
    /\ namedGraphs' = {}
    /\ ret' = Unit

Clear ==
    /\ dataset' = {}
    /\ namedGraphs' = {}
    /\ ret' = Unit

Next ==
    \/ \E q \in Quads : Insert(q) \/ Remove(q)
    \/ \E g \in NamedGraphs : InsertNamedGraph(g) \/ RemoveNamedGraph(g)
    \/ \E g \in NamedGraphs \cup {DefaultGraph} : ClearGraph(g)
    \/ ClearAllNamedGraphs \/ ClearAllGraphs \/ RemoveAllNamedGraphs \/ Clear

Spec == Init /\ [][Next]_vars
=============================================================================
