------------------------------ MODULE TermCodec ------------------------------
(***************************************************************************)
(* The term codec (src/lib/src/storage/binary_encoder.rs): write_term     *)
(* emits a type id byte and the term's fields, each with the byte width   *)
(* of its Rust type; read_term reads the type id, then fixed-size buffers *)
(* in its own order.  A term is a record of its variant and its fields; a *)
(* field's bytes are abstracted to one byte value repeated over the       *)
(* field's width (0 or 1, 1 being a valid type id, so a width mismatch    *)
(* reads payload bytes as a type id).  RDF-star triples nest terms.        *)
(***************************************************************************)
EXTENDS Naturals, Sequences, FiniteSets

SX == INSTANCE SequencesExt

\* The type id of every variant (TYPE_NAMED_NODE_ID ... TYPE_TRIPLE).
\* BooleanLiteral(true) and BooleanLiteral(false) have an id each.
Tag == [NamedNode |-> 1, NumericalBlankNode |-> 8, SmallBlankNode |-> 9,
        BigBlankNode |-> 10, SmallStringLiteral |-> 16, BigStringLiteral |-> 17,
        SmallSmallLangStringLiteral |-> 20, SmallBigLangStringLiteral |-> 21,
        BigSmallLangStringLiteral |-> 22, BigBigLangStringLiteral |-> 23,
        SmallTypedLiteral |-> 24, BigTypedLiteral |-> 25,
        BooleanTrue |-> 28, BooleanFalse |-> 29, FloatLiteral |-> 30,
        DoubleLiteral |-> 31, IntegerLiteral |-> 32, DecimalLiteral |-> 33,
        DateTimeLiteral |-> 34, TimeLiteral |-> 35, DateLiteral |-> 36,
        GYearMonthLiteral |-> 37, GYearLiteral |-> 38, GMonthDayLiteral |-> 39,
        GDayLiteral |-> 40, GMonthLiteral |-> 41, DurationLiteral |-> 42,
        YearMonthDurationLiteral |-> 43, DayTimeDurationLiteral |-> 44,
        Triple |-> 48]

Kinds == DOMAIN Tag \ {"Triple"}

\* A field: its name and its width in bytes.
F(n, w) == <<n, w>>
H(n) == F(n, 16)     \* a StrHash, u128 or SmallString

\* write_term: the fields each variant extends the sink with, in order.
WriteLayout ==
    [NamedNode |-> <<H("iri_id")>>, NumericalBlankNode |-> <<H("id")>>,
     SmallBlankNode |-> <<H("id")>>, BigBlankNode |-> <<H("id_id")>>,
     SmallStringLiteral |-> <<H("value")>>, BigStringLiteral |-> <<H("value_id")>>,
     SmallSmallLangStringLiteral |-> <<H("language"), H("value")>>,
     SmallBigLangStringLiteral |-> <<H("language_id"), H("value")>>,
     BigSmallLangStringLiteral |-> <<H("language"), H("value_id")>>,
     BigBigLangStringLiteral |-> <<H("language_id"), H("value_id")>>,
     SmallTypedLiteral |-> <<H("datatype_id"), H("value")>>,
     BigTypedLiteral |-> <<H("datatype_id"), H("value_id")>>,
     BooleanTrue |-> <<>>, BooleanFalse |-> <<>>,
     FloatLiteral |-> <<F("value", 4)>>, DoubleLiteral |-> <<F("value", 8)>>,
     IntegerLiteral |-> <<F("value", 8)>>, DecimalLiteral |-> <<H("value")>>,
     DateTimeLiteral |-> <<F("value", 18)>>, TimeLiteral |-> <<F("value", 18)>>,
     DateLiteral |-> <<F("value", 18)>>, GYearMonthLiteral |-> <<F("value", 18)>>,
     GYearLiteral |-> <<F("value", 18)>>, GMonthDayLiteral |-> <<F("value", 18)>>,
     GDayLiteral |-> <<F("value", 18)>>, GMonthLiteral |-> <<F("value", 18)>>,
     DurationLiteral |-> <<F("value", 24)>>,
     YearMonthDurationLiteral |-> <<F("value", 8)>>,
     DayTimeDurationLiteral |-> <<H("value")>>]

\* Mutant of read_term: the Float arm reads an 8-byte buffer, as the
\* Double arm does.
ReadLayoutFloatWide == [WriteLayout EXCEPT !.FloatLiteral = <<F("value", 8)>>]

\* read_term: the buffers each type id arm reads, in order.
ReadLayout ==
    [NamedNode |-> <<H("iri_id")>>, NumericalBlankNode |-> <<H("id")>>,
     SmallBlankNode |-> <<H("id")>>, BigBlankNode |-> <<H("id_id")>>,
     SmallStringLiteral |-> <<H("value")>>, BigStringLiteral |-> <<H("value_id")>>,
     SmallSmallLangStringLiteral |-> <<H("language"), H("value")>>,
     SmallBigLangStringLiteral |-> <<H("language_id"), H("value")>>,
     BigSmallLangStringLiteral |-> <<H("language"), H("value_id")>>,
     BigBigLangStringLiteral |-> <<H("language_id"), H("value_id")>>,
     SmallTypedLiteral |-> <<H("datatype_id"), H("value")>>,
     BigTypedLiteral |-> <<H("datatype_id"), H("value_id")>>,
     BooleanTrue |-> <<>>, BooleanFalse |-> <<>>,
     FloatLiteral |-> <<F("value", 4)>>, DoubleLiteral |-> <<F("value", 8)>>,
     IntegerLiteral |-> <<F("value", 8)>>, DecimalLiteral |-> <<H("value")>>,
     DateTimeLiteral |-> <<F("value", 18)>>, TimeLiteral |-> <<F("value", 18)>>,
     DateLiteral |-> <<F("value", 18)>>, GYearMonthLiteral |-> <<F("value", 18)>>,
     GYearLiteral |-> <<F("value", 18)>>, GMonthDayLiteral |-> <<F("value", 18)>>,
     GDayLiteral |-> <<F("value", 18)>>, GMonthLiteral |-> <<F("value", 18)>>,
     DurationLiteral |-> <<F("value", 24)>>,
     YearMonthDurationLiteral |-> <<F("value", 8)>>,
     DayTimeDurationLiteral |-> <<H("value")>>]

\* w bytes of value b.
Bytes(b, w) == [i \in 1..w |-> b]

\* write_term.  DefaultGraph writes nothing; a triple writes its id and
\* its three terms.
RECURSIVE WriteTerm(_)
WriteTerm(t) ==
    CASE t.kind = "DefaultGraph" -> <<>>
      [] t.kind = "Triple" ->
            <<Tag.Triple>> \o WriteTerm(t.s) \o WriteTerm(t.p) \o WriteTerm(t.o)
      [] OTHER ->
            LET lay == WriteLayout[t.kind]
            IN <<Tag[t.kind]>> \o SX!FlattenSeq([i \in DOMAIN lay |-> t.f[lay[i][1]]])

\* The result of a read: the term and the bytes after it, or an error
\* (read_exact on a short buffer, or an unknown type id).
Ok(t, rest) == [ok |-> TRUE, term |-> t, rest |-> rest]
Err == [ok |-> FALSE, term |-> [kind |-> "none"], rest |-> <<>>]

\* The read_exact calls of one arm: each buffer filled from b in turn.
ReadFields(k, b) ==
    LET lay == ReadLayout[k]
        Off(i) == SX!FoldLeft(LAMBDA acc, x : acc + x[2], 0, SubSeq(lay, 1, i - 1))
        total == Off(Len(lay) + 1)
    IN IF Len(b) < total THEN Err
       ELSE Ok([kind |-> k,
                f |-> [n \in {lay[i][1] : i \in DOMAIN lay} |->
                         LET i == CHOOSE j \in DOMAIN lay : lay[j][1] = n
                         IN SubSeq(b, Off(i) + 1, Off(i) + lay[i][2])]],
               SubSeq(b, total + 1, Len(b)))

\* read_term: the type id byte, then the arm for it; a triple reads three
\* terms; any other id is a corruption error.
RECURSIVE ReadTerm(_)
ReadTerm(b) ==
    IF b = <<>> THEN Err
    ELSE LET id == Head(b)  rest == Tail(b)
         IN IF id = Tag.Triple
            THEN LET r1 == ReadTerm(rest)
                     r2 == IF r1.ok THEN ReadTerm(r1.rest) ELSE Err
                     r3 == IF r2.ok THEN ReadTerm(r2.rest) ELSE Err
                 IN IF r3.ok
                    THEN Ok([kind |-> "Triple", s |-> r1.term, p |-> r2.term, o |-> r3.term], r3.rest)
                    ELSE Err
            ELSE IF \E k \in Kinds : Tag[k] = id
            THEN ReadFields(CHOOSE k \in Kinds : Tag[k] = id, rest)
            ELSE Err

\* read_spog_quad ... read_dosp_quad: n terms read in turn from a key;
\* what follows them is not looked at.
RECURSIVE ReadTerms(_, _)
ReadTerms(n, b) ==
    IF n = 0 THEN [ok |-> TRUE, terms |-> <<>>]
    ELSE LET r == ReadTerm(b)
             more == IF r.ok THEN ReadTerms(n - 1, r.rest) ELSE [ok |-> FALSE, terms |-> <<>>]
         IN IF more.ok THEN [ok |-> TRUE, terms |-> <<r.term>> \o more.terms]
            ELSE [ok |-> FALSE, terms |-> <<>>]

-----------------------------------------------------------------------------
(* Bounded inputs: every variant with each field all 0 or all 1, triples  *)
(* of a few of them, and a triple nested as a subject.                    *)

SimpleTerms ==
    UNION {{[kind |-> k, f |-> v] :
              v \in [{WriteLayout[k][i][1] : i \in DOMAIN WriteLayout[k]} -> {0, 1}]} : k \in Kinds}
\* The field values as the bytes write_term emits for them.
AsBytes(t) == [kind |-> t.kind,
               f |-> [n \in DOMAIN t.f |->
                        Bytes(t.f[n], (CHOOSE x \in {WriteLayout[t.kind][i] : i \in DOMAIN WriteLayout[t.kind]} : x[1] = n)[2])]]
Simple == {AsBytes(t) : t \in SimpleTerms}

Node(b) == AsBytes([kind |-> "NamedNode", f |-> [iri_id |-> b]])
Parts == {Node(0), Node(1), AsBytes([kind |-> "FloatLiteral", f |-> [value |-> 1]]),
          AsBytes([kind |-> "SmallTypedLiteral", f |-> [datatype_id |-> 0, value |-> 1]]),
          [kind |-> "BooleanTrue", f |-> <<>>]}
Triples == {[kind |-> "Triple", s |-> s, p |-> p, o |-> o] : s, p, o \in Parts}
Nested == {[kind |-> "Triple", s |-> t, p |-> Node(1), o |-> Node(0)] :
             t \in {[kind |-> "Triple", s |-> Node(0), p |-> Node(1), o |-> o] : o \in Parts}}
Terms == Simple \cup Triples \cup Nested
\* What may follow a term in a key: nothing, or another term.
Followers == {<<>>} \cup {WriteTerm(t) : t \in Parts}

-----------------------------------------------------------------------------
\* Round trip inside a key (spec 8.1, 4.1): read_term of what write_term
\* emitted, followed by the next term of the key, gives the term back and
\* stops exactly where the next term starts; a key cut short inside a
\* term is an error.  The code is then prefix-free, which is what makes a
\* byte prefix scan of encode_term(s) select exactly the keys of s.
TermRoundTrip ==
    \A t \in Terms :
        /\ \A u \in Followers :
              LET r == ReadTerm(WriteTerm(t) \o u)
              IN r.ok /\ r.term = t /\ r.rest = u
        /\ \A n \in 0..(Len(WriteTerm(t)) - 1) : ~ReadTerm(SubSeq(WriteTerm(t), 1, n)).ok
=============================================================================
