---------------------------- MODULE IntervalCodec ----------------------------
(***************************************************************************)
(* The interval sidecar of one value-variant bulk-load worker              *)
(* (FileBulkLoader::load_oxiuse_value, src/lib/src/storage/mod.rs 1799-    *)
(* 1817): construct_tree reads the taxonomy file line by line into a class *)
(* tree and a property tree (2183-2213) and labels both; then every triple *)
(* of the batch gets a dspo, a dpos and a dosp row, whose value is        *)
(* encoded_interval_encoding (binary_encoder.rs 635-761); save_oxiuse_value *)
(* builds one sorted file per family in that order and ingests them with   *)
(* the id2str file in one call.  IRIs are numbers (their order is the order children are      *)
(* visited in); a hint is a sequence of fields (tag, count, start, end,    *)
(* layer), each field written with the width of its Rust type.            *)
(* MultiTree (crate::extendedTree) is not under src/: its labeling is      *)
(* modelled from spec.md 3 (one interval per path from the root, start in  *)
(* pre-order, end in post-order, layer the path's depth).                  *)
(***************************************************************************)
EXTENDS Naturals, Sequences, FiniteSets

CONSTANTS
    ClassRoot, PropertyRoot,             \* owl:Class, rdf:Property
    SubClassOf, SubOrganizationOf, SubPropertyOf,
    Domain, Range, RdfType, OtherPredicates,
    Taxonomy,   \* the taxonomy file: a sequence of lines <<s, p, o>>
    Batch,      \* the worker's default-graph triples <<s, p, o>>
    NoParent    \* the parent of the root's interval

SX == INSTANCE SequencesExt

VARIABLES
    wpc,        \* "tree", "rows", "done"
    line,       \* the next line of the taxonomy file
    cedges,     \* class tree: <<child, parent>> inserted so far
    pedges,     \* property tree
    labels,     \* the intervals of each tree once encode() has run
    built,      \* the number of families whose file is built
    rows,       \* family -> the (key, value) rows of its file
    db          \* family -> the rows ingested; id2str -> the terms

vars == <<wpc, line, cedges, pedges, labels, built, rows, db>>

TYPE_CLASS == 50
TYPE_PROPERTY == 51

(* MultiTree: nodes, parents (a node without a parent hangs under the      *)
(* root), children in IRI order, and the depth-first labeling.             *)
TNodes(t) == {t.root} \cup {e[1] : e \in t.edges} \cup {e[2] : e \in t.edges}
TParents(t, n) ==
    LET ps == {e[2] : e \in {x \in t.edges : x[1] = n}}
    IN IF n = t.root THEN {} ELSE IF ps = {} THEN {t.root} ELSE ps
TChildren(t, n) == {c \in TNodes(t) : n \in TParents(t, c)}

\* The paths from the root to n.
RECURSIVE PathsTo(_, _)
PathsTo(t, n) ==
    IF n = t.root THEN {<<n>>}
    ELSE UNION {{Append(p, n) : p \in PathsTo(t, m)} : m \in TParents(t, n)}

\* The sum of f over the set X.
RECURSIVE Total(_, _)
Total(f, X) == IF X = {} THEN 0
               ELSE LET x == CHOOSE x \in X : TRUE IN f[x] + Total(f, X \ {x})

\* The number of paths below each node, n included.
Sizes(t, kids) ==
    LET size[n \in TNodes(t)] == 1 + Total([c \in kids[n] |-> size[c]], kids[n])
    IN [n \in TNodes(t) |-> size[n]]

\* The interval of path p: its start counts the paths visited before it in
\* pre-order, its end the paths finished before it in post-order.
Label(kids, sz, p) ==
    LET Left(n, c) == Total(sz, {x \in kids[n] : x < c})
        left == [i \in 1..(Len(p) - 1) |-> Left(p[i], p[i + 1])]
    IN [node |-> p[Len(p)],
        start |-> Len(p) - 1 + Total(left, DOMAIN left),
        end |-> Total(left, DOMAIN left) + sz[p[Len(p)]] - 1,
        layer |-> Len(p) - 1,
        parent |-> IF Len(p) = 1 THEN NoParent ELSE p[Len(p) - 1]]

LabelsWith(t, kids, sz) == {Label(kids, sz, p) : p \in UNION {PathsTo(t, n) : n \in TNodes(t)}}

\* MultiTree::encode: depth first from the root, children in IRI order.
Labels(t) == LET kids == [n \in TNodes(t) |-> TChildren(t, n)]
             IN LabelsWith(t, kids, Sizes(t, kids))

\* get_interval_nodes(): a node's intervals in the order they were made
\* (by start, which no two intervals share).
Intervals(ivs, n) ==
    LET mine == {iv \in ivs : iv.node = n}
        Rank(iv) == Cardinality({x \in mine : x.start < iv.start})
    IN [i \in 1..Cardinality(mine) |-> CHOOSE iv \in mine : Rank(iv) = i - 1]

Trees == [class |-> [root |-> ClassRoot, edges |-> cedges],
          property |-> [root |-> PropertyRoot, edges |-> pedges]]

\* The subClassOf / subPropertyOf hint: the tag, (start, end) of each
\* interval of s under o, then (start, end, layer) of o's first interval;
\* empty when s or o is not in the tree.  (With s the root the code's
\* get_parent().unwrap() panics; no batch here has the root as a subject.)
EdgeHint(t, ivs, s, o, tag) ==
    IF {s, o} \subseteq TNodes(t)
    THEN LET under == SelectSeq(Intervals(ivs, s), LAMBDA iv : iv.parent = o)
             first == Intervals(ivs, o)[1]
         IN <<tag>> \o SX!FlattenSeq([i \in 1..Len(under) |-> <<under[i].start, under[i].end>>])
                    \o <<first.start, first.end, first.layer>>
    ELSE <<>>

\* encoded_interval_encoding: the hint of a triple; rdfs:domain, rdfs:range
\* and rdf:type carry o's intervals behind their count, cast to u8.
Encoding(tr) ==
    LET s == tr[1]  p == tr[2]  o == tr[3]
        civs == labels.class
    IN CASE p \in {SubClassOf, SubOrganizationOf} ->
              EdgeHint(Trees.class, civs, s, o, TYPE_CLASS)
         [] p = SubPropertyOf ->
              EdgeHint(Trees.property, labels.property, s, o, TYPE_PROPERTY)
         [] p \in {Domain, Range, RdfType} /\ o \in TNodes(Trees.class) ->
              LET ivs == Intervals(civs, o)
              IN <<TYPE_CLASS, Len(ivs) % 256>>
                 \o SX!FlattenSeq([i \in 1..Len(ivs) |-> <<ivs[i].start, ivs[i].end, ivs[i].layer>>])
         [] OTHER -> <<>>

\* construct_tree: one line of the file; subClassOf and subOrganizationOf
\* lines go to the class tree, subPropertyOf lines to the property tree.
ReadLine ==
    /\ wpc = "tree" /\ line <= Len(Taxonomy)
    /\ LET l == Taxonomy[line]
       IN /\ cedges' = IF l[2] \in {SubClassOf, SubOrganizationOf}
                       THEN cedges \cup {<<l[1], l[3]>>} ELSE cedges
          /\ pedges' = IF l[2] = SubPropertyOf
                       THEN pedges \cup {<<l[1], l[3]>>} ELSE pedges
    /\ line' = line + 1
    /\ UNCHANGED <<wpc, labels, built, rows, db>>

\* classTree.encode(); propertyTree.encode() at the end of the file.
EncodeTrees ==
    /\ wpc = "tree" /\ line > Len(Taxonomy)
    /\ labels' = [class |-> Labels(Trees.class), property |-> Labels(Trees.property)]
    /\ wpc' = "rows"
    /\ UNCHANGED <<line, cedges, pedges, built, rows, db>>

\* The families of save_oxiuse_value, in the order their files are built.
SaveOrder == <<"dspo", "dpos", "dosp">>

\* encode_term_triple_oxiuse_value_spo / _pos / _osp: the key writes s, p,
\* o in the family's order; the value is the hint of the triple.
Perm == [dspo |-> <<1, 2, 3>>, dpos |-> <<2, 3, 1>>, dosp |-> <<3, 1, 2>>]
ValueRow(c, tr) == <<[i \in 1..3 |-> tr[Perm[c][i]]], Encoding(tr)>>

\* build_sst_for_oxiuse_value over every triple of the batch for the next
\* family: the (key, value) pairs, sorted into one file.
BuildSst ==
    /\ wpc = "rows" /\ built < Len(SaveOrder)
    /\ LET c == SaveOrder[built + 1]
       IN rows' = [rows EXCEPT ![c] = {ValueRow(c, tr) : tr \in Batch}]
    /\ built' = built + 1
    /\ UNCHANGED <<wpc, line, cedges, pedges, labels, db>>

\* The id2str file of the batch's terms, then insert_stt_files of every
\* file at once.
Ingest ==
    /\ wpc = "rows" /\ built = Len(SaveOrder)
    /\ db' = [c \in DOMAIN db |-> IF c = "id2str"
                                  THEN db[c] \cup {tr[i] : tr \in Batch, i \in 1..3}
                                  ELSE db[c] \cup rows[c]]
    /\ wpc' = "done"
    /\ UNCHANGED <<line, cedges, pedges, labels, built, rows>>

Init ==
    /\ wpc = "tree" /\ line = 1
    /\ cedges = {} /\ pedges = {}
    /\ labels = [class |-> {}, property |-> {}]
    /\ built = 0
    /\ rows = [c \in {"dspo", "dpos", "dosp"} |-> {}]
    /\ db = [c \in {"dspo", "dpos", "dosp", "id2str"} |-> {}]

Next == ReadLine \/ EncodeTrees \/ BuildSst \/ Ingest

Spec == Init /\ [][Next]_vars

-----------------------------------------------------------------------------
\* The value of a domain, range or type row can be read back (spec 4.2):
\* its count field says how many (start, end, layer) intervals follow,
\* whatever the number of paths from the root to o in the taxonomy.
CountMatchesIntervals ==
    \A c \in DOMAIN rows : \A r \in rows[c] :
        LET p == r[1][CHOOSE i \in 1..3 : Perm[c][i] = 2]
        IN p \in {Domain, Range, RdfType} /\ r[2] # <<>>
           => Len(r[2]) = 2 + 3 * r[2][2]
=============================================================================
