------------------------------ MODULE QuadStore ------------------------------
(***************************************************************************)
(* The storage core as the transactional writer sees it                    *)
(* (src/lib/src/storage/mod.rs, StorageWriter): eleven column families of  *)
(* keys, and each public write operation run as ONE engine transaction,    *)
(* i.e. as one atomic step.  A key is the sequence of the terms that       *)
(* write_term emits, in the permutation of its column family; the default *)
(* graph emits nothing, so default-graph keys have three terms.  id2str   *)
(* holds the terms whose string has been stored.                           *)
(***************************************************************************)
EXTENDS FiniteSets, Sequences, FiniteSetsExt

CONSTANTS Subjects, Predicates, Objects, NamedGraphs, DefaultGraph, Unit

Terms == Subjects \cup Predicates \cup Objects \cup NamedGraphs
Quads == [s : Subjects, p : Predicates, o : Objects,
          g : NamedGraphs \cup {DefaultGraph}]

QuadCFs == {"spog", "posg", "ospg", "gspo", "gpos", "gosp"}
TripleCFs == {"dspo", "dpos", "dosp"}
CFs == QuadCFs \cup TripleCFs \cup {"graphs"}

\* The order in which write_xxx_quad / read_xxx_quad lay out the fields.
Encoding == [spog |-> <<"s", "p", "o", "g">>, posg |-> <<"p", "o", "s", "g">>,
             ospg |-> <<"o", "s", "p", "g">>, gspo |-> <<"g", "s", "p", "o">>,
             gpos |-> <<"g", "p", "o", "s">>, gosp |-> <<"g", "o", "s", "p">>,
             dspo |-> <<"s", "p", "o">>, dpos |-> <<"p", "o", "s">>,
             dosp |-> <<"o", "s", "p">>]

\* write_term: one term per written term, nothing for the default graph.
WriteTerm(t) == IF t = DefaultGraph THEN <<>> ELSE <<t>>

\* write_spog_quad ... write_osp_quad: the terms in the family's order.
WriteQuad(c, q) ==
    SelectSeq([i \in DOMAIN Encoding[c] |-> q[Encoding[c][i]]],
              LAMBDA t : WriteTerm(t) # <<>>)

\* QuadEncoding::decode: read the terms left to right into their fields.
Decode(c, key) ==
    LET order == Encoding[c]
        at(f) == key[CHOOSE i \in DOMAIN order : order[i] = f]
    IN [s |-> at("s"), p |-> at("p"), o |-> at("o"),
        g |-> IF c \in TripleCFs THEN DefaultGraph ELSE at("g")]

KeySpace == {WriteQuad(c, q) : c \in QuadCFs \cup TripleCFs, q \in Quads}
            \cup {<<g>> : g \in NamedGraphs}

VARIABLES
    db,       \* column family -> set of keys present
    id2str,   \* terms whose string is in id2str
    ret       \* return value of the last operation

vars == <<db, id2str, ret>>

\* StorageReader scans (prefix scan + decode) used inside a transaction.
QuadsIn(c) == {Decode(c, k) : k \in db[c]}
quads == QuadsIn("dspo") \cup QuadsIn("gspo")
quads_for_graph(g) == IF g = DefaultGraph THEN QuadsIn("dspo")
                      ELSE {q \in QuadsIn("gspo") : q.g = g}
named_graphs == {k[1] : k \in db["graphs"]}

\* StorageReader::contains: the exact key in dspo or gspo.
contains(q) == IF q.g = DefaultGraph THEN WriteQuad("dspo", q) \in db["dspo"]
               ELSE WriteQuad("gspo", q) \in db["gspo"]

\* A quads_for_pattern call: the bound fields of an (s, p, o, g) pattern;
\* a field outside the domain is None.
Patterns == {[f \in D |-> q[f]] : D \in SUBSET {"s", "p", "o", "g"}, q \in Quads}

\* inner_quads + DecodingQuadIterator: scan_prefix of family c with the
\* encoded fields of pat, in the given order, each key decoded.
ScanPrefix(c, fields, pat) ==
    LET prefix == [i \in DOMAIN fields |-> pat[fields[i]]]
    IN {Decode(c, k) : k \in {k \in db[c] : Len(k) >= Len(prefix)
                                            /\ SubSeq(k, 1, Len(prefix)) = prefix}}

\* Mutant of quads_for_subject_object: the dosp prefix written in the
\* argument order (s, o) instead of the family's order (o, s).
DefaultScanSubjectFirst(D) ==
    IF D = {"s", "o"} THEN <<"dosp", <<"s", "o">>>>
    ELSE CASE D = {} -> <<"dspo", <<>>>>
           [] D = {"s"} -> <<"dspo", <<"s">>>>
           [] D = {"s", "p"} -> <<"dspo", <<"s", "p">>>>
           [] D = {"s", "p", "o"} -> <<"dspo", <<"s", "p", "o">>>>
           [] D = {"p"} -> <<"dpos", <<"p">>>>
           [] D = {"p", "o"} -> <<"dpos", <<"p", "o">>>>
           [] D = {"o"} -> <<"dosp", <<"o">>>>

\* The default-graph family and prefix for the bound s, p, o of D
\* (quads_for_subject ... quads_for_object, first iterator).
DefaultScan(D) ==
    CASE D = {} -> <<"dspo", <<>>>>
      [] D = {"s"} -> <<"dspo", <<"s">>>>
      [] D = {"s", "p"} -> <<"dspo", <<"s", "p">>>>
      [] D = {"s", "p", "o"} -> <<"dspo", <<"s", "p", "o">>>>
      [] D = {"s", "o"} -> <<"dosp", <<"o", "s">>>>
      [] D = {"p"} -> <<"dpos", <<"p">>>>
      [] D = {"p", "o"} -> <<"dpos", <<"p", "o">>>>
      [] D = {"o"} -> <<"dosp", <<"o">>>>

\* The named-graph family and prefix when no graph is given (second
\* iterator of the pair; quads() pairs dspo with gspo).
AnyGraphScan(D) ==
    CASE D = {} -> <<"gspo", <<>>>>
      [] D = {"s"} -> <<"spog", <<"s">>>>
      [] D = {"s", "p"} -> <<"spog", <<"s", "p">>>>
      [] D = {"s", "p", "o"} -> <<"spog", <<"s", "p", "o">>>>
      [] D = {"s", "o"} -> <<"ospg", <<"o", "s">>>>
      [] D = {"p"} -> <<"posg", <<"p">>>>
      [] D = {"p", "o"} -> <<"posg", <<"p", "o">>>>
      [] D = {"o"} -> <<"ospg", <<"o">>>>

\* The family and prefix for a named graph g (quads_for_graph ...
\* quads_for_object_graph, else branch).
NamedGraphScan(D) ==
    CASE D = {} -> <<"gspo", <<"g">>>>
      [] D = {"s"} -> <<"gspo", <<"g", "s">>>>
      [] D = {"s", "p"} -> <<"gspo", <<"g", "s", "p">>>>
      [] D = {"s", "p", "o"} -> <<"gspo", <<"g", "s", "p", "o">>>>
      [] D = {"s", "o"} -> <<"gosp", <<"g", "o", "s">>>>
      [] D = {"p"} -> <<"gpos", <<"g", "p">>>>
      [] D = {"p", "o"} -> <<"gpos", <<"g", "p", "o">>>>
      [] D = {"o"} -> <<"gosp", <<"g", "o">>>>

Scan(cf, pat) == ScanPrefix(cf[1], cf[2], pat)

\* quads_for_pattern: without a graph, the chained pair of a default-graph
\* and a named-graph scan; with one, a single scan of the family of that
\* graph (ChainedDecodingQuadIterator::new).
quads_for_pattern(pat) ==
    LET D == DOMAIN pat \ {"g"}
    IN IF "g" \notin DOMAIN pat THEN Scan(DefaultScan(D), pat) \cup Scan(AnyGraphScan(D), pat)
       ELSE IF pat.g = DefaultGraph THEN Scan(DefaultScan(D), pat)
       ELSE Scan(NamedGraphScan(D), pat)

\* The column families a quad is written to.
FamiliesOf(q) == IF q.g = DefaultGraph THEN TripleCFs ELSE QuadCFs
\* contains_key_for_update on the first family (dspo or spog).
Present(q) == WriteQuad(IF q.g = DefaultGraph THEN "dspo" ELSE "spog", q)
                \in db[IF q.g = DefaultGraph THEN "dspo" ELSE "spog"]

\* insert_empty / remove of every key of every quad of Q.
AddQuads(d, Q) == [c \in CFs |-> d[c] \cup {WriteQuad(c, q) : q \in {x \in Q : c \in FamiliesOf(x)}}]
DelQuads(d, Q) == [c \in CFs |-> d[c] \ {WriteQuad(c, q) : q \in {x \in Q : c \in FamiliesOf(x)}}]
AddGraph(d, g) == [d EXCEPT !["graphs"] = @ \cup {<<g>>}]
DelGraph(d, g) == [d EXCEPT !["graphs"] = @ \ {<<g>>}]

Init ==
    /\ db = [c \in CFs |-> {}]
    /\ id2str = {}
    /\ ret = Unit

\* Mutants of insert: the graph name never written to graphs; the graph
\* name's string written even for the default graph; the object's string
\* forgotten.
InsertNoGraphKey(q) ==
    IF Present(q) THEN ret' = FALSE /\ UNCHANGED <<db, id2str>>
    ELSE ret' = TRUE /\ db' = AddQuads(db, {q}) /\ id2str' = id2str \cup {q.s, q.p, q.o}
InsertGraphNameAlways(q) ==
    IF Present(q) THEN ret' = FALSE /\ UNCHANGED <<db, id2str>>
    ELSE /\ ret' = TRUE
         /\ db' = IF q.g = DefaultGraph \/ <<q.g>> \in db["graphs"]
                  THEN AddQuads(db, {q}) ELSE AddGraph(AddQuads(db, {q}), q.g)
         /\ id2str' = id2str \cup {q.s, q.p, q.o, q.g}
InsertNoObjectStr(q) ==
    IF Present(q) THEN ret' = FALSE /\ UNCHANGED <<db, id2str>>
    ELSE /\ ret' = TRUE
         /\ IF q.g = DefaultGraph \/ <<q.g>> \in db["graphs"]
            THEN db' = AddQuads(db, {q}) /\ id2str' = id2str \cup {q.s, q.p}
            ELSE db' = AddGraph(AddQuads(db, {q}), q.g) /\ id2str' = id2str \cup {q.s, q.p, q.g}

\* StorageWriter::insert.  The terms' strings go through insert_term, and
\* the graph name through insert_graph_name only when it is new in graphs.
Insert(q) ==
    IF Present(q)
    THEN /\ ret' = FALSE
         /\ UNCHANGED <<db, id2str>>
    ELSE /\ ret' = TRUE
         /\ IF q.g = DefaultGraph \/ <<q.g>> \in db["graphs"]
            THEN /\ db' = AddQuads(db, {q})
                 /\ id2str' = id2str \cup {q.s, q.p, q.o}
            ELSE /\ db' = AddGraph(AddQuads(db, {q}), q.g)
                 /\ id2str' = id2str \cup {q.s, q.p, q.o, q.g}

\* Mutant of remove_encoded: the posg key is left behind.
remove_encoded_skip_posg(d, q) ==
    IF WriteQuad(IF q.g = DefaultGraph THEN "dspo" ELSE "spog", q)
         \in d[IF q.g = DefaultGraph THEN "dspo" ELSE "spog"]
    THEN [DelQuads(d, {q}) EXCEPT !["posg"] = d["posg"]] ELSE d

\* StorageWriter::remove / remove_encoded.  id2str is never touched.
remove_encoded(d, q) == IF WriteQuad(IF q.g = DefaultGraph THEN "dspo" ELSE "spog", q)
                             \in d[IF q.g = DefaultGraph THEN "dspo" ELSE "spog"]
                        THEN DelQuads(d, {q}) ELSE d
Remove(q) ==
    /\ ret' = Present(q)
    /\ db' = remove_encoded(db, q)
    /\ UNCHANGED id2str

\* Mutant of insert_named_graph: the contains_key_for_update result is
\* ignored and the graph reported as new.
InsertNamedGraphNoCheck(g) ==
    /\ ret' = TRUE
    /\ db' = AddGraph(db, g)
    /\ id2str' = id2str \cup {g}

\* StorageWriter::insert_named_graph.
InsertNamedGraph(g) ==
    IF <<g>> \in db["graphs"]
    THEN /\ ret' = FALSE
         /\ UNCHANGED <<db, id2str>>
    ELSE /\ ret' = TRUE
         /\ db' = AddGraph(db, g)
         /\ id2str' = id2str \cup {g}

\* clear_graph: the default graph is always scanned; a named graph only
\* when it is declared in graphs (the lock on the graph key).
ClearGraph(g) ==
    /\ db' = IF g = DefaultGraph \/ <<g>> \in db["graphs"]
             THEN DelQuads(db, quads_for_graph(g)) ELSE db
    /\ ret' = Unit
    /\ UNCHANGED id2str

\* clear_all_named_graphs: every quad of gspo is removed.
ClearAllNamedGraphs ==
    /\ db' = DelQuads(db, QuadsIn("gspo"))
    /\ ret' = Unit
    /\ UNCHANGED id2str

\* clear_all_graphs: every quad of dspo and gspo is removed.
ClearAllGraphs ==
    /\ db' = DelQuads(db, quads)
    /\ ret' = Unit
    /\ UNCHANGED id2str

\* remove_encoded_named_graph on a database d.
remove_encoded_named_graph(d, g) ==
    IF <<g>> \in d["graphs"]
    THEN DelGraph(DelQuads(d, {q \in {Decode("gspo", k) : k \in d["gspo"]} : q.g = g}), g)
    ELSE d

RemoveNamedGraph(g) ==
    /\ ret' = (<<g>> \in db["graphs"])
    /\ db' = remove_encoded_named_graph(db, g)
    /\ UNCHANGED id2str

\* remove_all_named_graphs: remove_encoded_named_graph for every member
\* of graphs, one after the other.
RemoveAllNamedGraphs ==
    /\ db' = FoldSet(LAMBDA g, d : remove_encoded_named_graph(d, g), db, named_graphs)
    /\ ret' = Unit
    /\ UNCHANGED id2str

\* clear: every named graph removed, then every remaining quad.
Clear ==
    /\ db' = LET d == FoldSet(LAMBDA g, x : remove_encoded_named_graph(x, g), db, named_graphs)
             IN DelQuads(d, {Decode("dspo", k) : k \in d["dspo"]}
                            \cup {Decode("gspo", k) : k \in d["gspo"]})
    /\ ret' = Unit
    /\ UNCHANGED id2str

Next ==
    \/ \E q \in Quads : Insert(q) \/ Remove(q)
    \/ \E g \in NamedGraphs : InsertNamedGraph(g) \/ RemoveNamedGraph(g)
    \/ \E g \in NamedGraphs \cup {DefaultGraph} : ClearGraph(g)
    \/ ClearAllNamedGraphs \/ ClearAllGraphs \/ RemoveAllNamedGraphs \/ Clear

Spec == Init /\ [][Next]_vars

-----------------------------------------------------------------------------
TypeOK ==
    /\ db \in [CFs -> SUBSET KeySpace]
    /\ id2str \subseteq Terms
    /\ ret \in BOOLEAN \cup {Unit}

\* Index coherence (spec 3.3, 8.3), the invariant validate() checks: the
\* three default-graph families hold the same triples and the six
\* named-graph families the same quads, whatever sequence of inserts,
\* removes and graph operations produced them.
IndexCoherence ==
    /\ \A c \in TripleCFs : QuadsIn(c) = QuadsIn("dspo")
    /\ \A c \in QuadCFs : QuadsIn(c) = QuadsIn("gspo")

\* Every graph name used by a stored quad is in graphs (spec 3.3; the
\* last check of validate()): insert only adds the name when it is new,
\* and removing a named graph must take all of its quads with it.
GraphsCoverQuads ==
    \A q \in QuadsIn("gspo") : <<q.g>> \in db["graphs"]

\* Every term of a stored quad or declared graph has its string in id2str
\* (spec 3.3, 8.4), although insert writes strings only for new quads and
\* a graph's string only the first time the graph is seen.
Id2StrCoversLiveTerms ==
    /\ \A q \in quads : {q.s, q.p, q.o} \subseteq id2str
    /\ named_graphs \subseteq id2str

\* Every read answers from the right index (spec 3.3, 4.1): for each of
\* the sixteen shapes of quads_for_pattern, the family and prefix the
\* reader picks yield exactly the stored quads matching the pattern, and
\* contains agrees with the stored quads, in every state the writes reach.
ReadsMatchPattern ==
    /\ \A pat \in Patterns :
          quads_for_pattern(pat) = {q \in quads : \A f \in DOMAIN pat : q[f] = pat[f]}
    /\ \A q \in Quads : contains(q) = (q \in quads)

\* The writer implements the abstract quad set: the store's content is
\* what dspo and gspo decode to, its declared graphs what graphs holds.
QS == INSTANCE QuadSet WITH dataset <- quads, namedGraphs <- named_graphs
QuadSetRefinement == QS!Spec
=============================================================================
