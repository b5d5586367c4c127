---------------------------- MODULE MC_QuadStore ----------------------------
(* Small instance of QuadStore: two subjects so that a graph holds several *)
(* quads, one predicate and object, two named graphs plus the default.     *)
EXTENDS QuadStore, TLC

CONSTANTS s1, s2, p1, o1, g1, g2

MC_Subjects == {s1, s2}
MC_Predicates == {p1}
MC_Objects == {o1}
MC_NamedGraphs == {g1, g2}

\* The keys above are sequences of terms; the byte codec under them.
TC == INSTANCE TermCodec

\* The encoded term of each model value: IRIs, an RDF-star triple as a
\* subject, a typed literal as the object, blank nodes as graph names.
MC_Enc == [x \in {s1, s2, p1, o1, g1, g2} |->
             CASE x = s1 -> TC!Node(0)
               [] x = s2 -> [kind |-> "Triple", s |-> TC!Node(0), p |-> TC!Node(1), o |-> TC!Node(1)]
               [] x = p1 -> TC!Node(1)
               [] x = o1 -> TC!AsBytes([kind |-> "SmallTypedLiteral", f |-> [datatype_id |-> 0, value |-> 1]])
               [] x = g1 -> TC!AsBytes([kind |-> "SmallBlankNode", f |-> [id |-> 1]])
               [] x = g2 -> TC!AsBytes([kind |-> "BigBlankNode", f |-> [id_id |-> 0]])]

\* The bytes of a key: write_term of each of its terms.
KeyBytes(k) == TC!SX!FlattenSeq([i \in DOMAIN k |-> TC!WriteTerm(MC_Enc[k[i]])])

\* Every key the writes leave in any family reads back, byte by byte, as
\* the terms it was written from (QuadEncoding::decode, decode_term for
\* graphs), and write_term / read_term round-trip every variant inside a
\* key while a cut key fails to read (TermCodec!TermRoundTrip): the
\* term-level keys and prefix scans of this model are the byte-level ones.
TermRoundTrip ==
    /\ \A c \in CFs : \A k \in db[c] :
          TC!ReadTerms(Len(k), KeyBytes(k)) = [ok |-> TRUE, terms |-> [i \in DOMAIN k |-> MC_Enc[k[i]]]]
    /\ TC!TermRoundTrip
=============================================================================
