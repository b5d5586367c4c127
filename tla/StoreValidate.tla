---------------------------- MODULE StoreValidate ----------------------------
(***************************************************************************)
(* StorageReader::validate (src/lib/src/storage/mod.rs 689-805) run on a   *)
(* snapshot reader while writers keep committing transactions.  validate  *)
(* counts the rows of each family of the snapshot, then walks dspo and     *)
(* gspo of the snapshot and probes, for each row, the other families and  *)
(* graphs with self.storage.db.contains_key: a read of the LATEST state,   *)
(* not of the snapshot.  The counts go through DecodingQuadIterator (844-  *)
(* 859), whose next() returns the iterator's error status without         *)
(* advancing, and count() consumes items until None.  The writer is        *)
(* QuadStore: one atomic step per committed operation.                     *)
(***************************************************************************)
EXTENDS Naturals, FiniteSets

CONSTANTS
    Subjects, Predicates, Objects, NamedGraphs, DefaultGraph, Unit,
    InitQuads,    \* the store starts with a subset of these quads
    IterErrors    \* whether the engine iterator reports an error status in a
                  \* call: a subset of BOOLEAN

VARIABLES
    db, id2str, ret,  \* the store, as in QuadStore
    vpc,      \* "idle", "count_triples", "probe_triples", "count_quads",
              \* "probe_quads", "count_err" (count() spinning), "ok",
              \* "corrupt", "err"
    vsnap,    \* the snapshot validate iterates
    vtodo,    \* rows of the current walk not probed yet
    vchanged, \* a writer committed since the snapshot was taken
    ierr      \* the iterators of this call report an error status

S == INSTANCE QuadStore

vars == <<db, id2str, ret, vpc, vsnap, vtodo, vchanged, ierr>>
vVars == <<vpc, vsnap, vtodo, ierr>>

Returned == {"ok", "corrupt", "err"}

\* The snapshot is a store validate must accept.
Coherent(d) ==
    /\ \A c \in S!TripleCFs : {S!Decode(c, k) : k \in d[c]} = {S!Decode("dspo", k) : k \in d["dspo"]}
    /\ \A c \in S!QuadCFs : {S!Decode(c, k) : k \in d[c]} = {S!Decode("gspo", k) : k \in d["gspo"]}
    /\ \A k \in d["gspo"] : <<S!Decode("gspo", k).g>> \in d["graphs"]

\* The stores on disk: every quad of Q with its graph declared, or that
\* store with one key lost.
Stored(Q) == S!AddQuads([c \in S!CFs |->
                 IF c = "graphs" THEN {<<q.g>> : q \in {x \in Q : x.g # DefaultGraph}}
                 ELSE {}], Q)
Damaged(d) == UNION {{[f \in S!CFs |-> IF f = c THEN d[c] \ {k} ELSE d[f]] : k \in d[c]}
                     : c \in S!CFs}

\* validate() is called on a snapshot reader.
Begin ==
    /\ vpc = "idle"
    /\ vpc' = "count_triples" /\ vsnap' = db /\ vtodo' = {}
    /\ vchanged' = FALSE
    /\ ierr' \in IterErrors
    /\ UNCHANGED <<db, id2str, ret>>

\* count() over the three default-graph families of the snapshot; an
\* iterator error is an Err item that does not advance the iterator.
Count(fams, first, probe) ==
    \/ /\ ierr
       /\ vpc' = "count_err" /\ UNCHANGED vtodo
    \/ /\ \E c \in fams : Cardinality(vsnap[c]) # Cardinality(vsnap[first])
       /\ vpc' = "corrupt" /\ UNCHANGED vtodo
    \/ /\ \A c \in fams : Cardinality(vsnap[c]) = Cardinality(vsnap[first])
       /\ vpc' = probe /\ vtodo' = {S!Decode(first, k) : k \in vsnap[first]}

CountTriples ==
    /\ vpc = "count_triples"
    /\ Count(S!TripleCFs, "dspo", "probe_triples")
    /\ UNCHANGED <<db, id2str, ret, vsnap, vchanged, ierr>>

\* The families a triple row is probed in, in the LATEST db.
TripleProbes(q) == {<<"dpos", S!WriteQuad("dpos", q)>>, <<"dosp", S!WriteQuad("dosp", q)>>}
\* Mutant: the graphs probe left out.
QuadProbesNoGraphs(q) == {<<c, S!WriteQuad(c, q)>> : c \in S!QuadCFs \ {"gspo"}}
\* The gspo probes: five families and the graph name.
QuadProbes(q) == {<<c, S!WriteQuad(c, q)>> : c \in S!QuadCFs \ {"gspo"}}
                 \cup {<<"graphs", <<q.g>>>>}

\* Mutant: the walk's iterator does not advance past a row.
ConsumeNone(q) == UNCHANGED vtodo
\* DecodingQuadIterator::next: the row is decoded and the iterator advanced.
Consume(q) == vtodo' = vtodo \ {q}

\* One row of the walk (probes maps each row to its probes): an Err item
\* returns it, a missing key is reported.
Probe(probes, next) ==
    \/ /\ vtodo = {} /\ vpc' = next /\ UNCHANGED vtodo
    \/ /\ vtodo # {} /\ ierr
       /\ vpc' = "err" /\ UNCHANGED vtodo
    \/ \E q \in vtodo :
          \/ /\ \E p \in probes[q] : p[2] \notin db[p[1]]
             /\ vpc' = "corrupt" /\ UNCHANGED vtodo
          \/ /\ \A p \in probes[q] : p[2] \in db[p[1]]
             /\ Consume(q) /\ UNCHANGED vpc

ProbeTriples ==
    /\ vpc = "probe_triples"
    /\ Probe([q \in vtodo |-> TripleProbes(q)], "count_quads")
    /\ UNCHANGED <<db, id2str, ret, vsnap, vchanged, ierr>>

CountQuads ==
    /\ vpc = "count_quads"
    /\ Count(S!QuadCFs, "gspo", "probe_quads")
    /\ UNCHANGED <<db, id2str, ret, vsnap, vchanged, ierr>>

ProbeQuads ==
    /\ vpc = "probe_quads"
    /\ Probe([q \in vtodo |-> QuadProbes(q)], "ok")
    /\ UNCHANGED <<db, id2str, ret, vsnap, vchanged, ierr>>

\* A writer commits one operation.
Write ==
    /\ S!Next
    /\ vchanged' = (vchanged \/ db' # db)
    /\ UNCHANGED vVars

Validate == Begin \/ CountTriples \/ ProbeTriples \/ CountQuads \/ ProbeQuads

Init ==
    /\ \E Q \in SUBSET InitQuads : db \in {Stored(Q)} \cup Damaged(Stored(Q))
    /\ id2str = S!Terms
    /\ ret = Unit
    /\ vpc = "idle" /\ vsnap = db /\ vtodo = {} /\ vchanged = FALSE
    /\ ierr = FALSE

Next == Validate \/ Write

\* validate runs on the caller's thread once called; writers are not
\* required to make progress.
Spec == Init /\ [][Next]_vars
        /\ WF_vars(CountTriples \/ ProbeTriples \/ CountQuads \/ ProbeQuads)

-----------------------------------------------------------------------------
\* With no commit since the snapshot, validate reports corruption exactly
\* when the snapshot is corrupt: a coherent store is never reported and a
\* lost key is never passed (spec 8.3).
ReportExact ==
    ~vchanged =>
       /\ vpc = "corrupt" => ~Coherent(vsnap)
       /\ vpc = "ok" => Coherent(vsnap)

\* A call of validate leaves its walks: it returns, or a count() spins on
\* the Err items of a failed iterator (the case ValidateReturns is about).
ValidateLeavesWalks == vpc # "idle" ~> vpc \in Returned \cup {"count_err"}

\* validate reports corruption only of a snapshot that is corrupt, even
\* while writers commit (it iterates a snapshot reader).
NoFalseCorruption == vpc = "corrupt" => ~Coherent(vsnap)

\* A call of validate returns: its counts and walks over a finite
\* snapshot end (spec 5: an iterator error surfaces as an Err item).
ValidateReturns == vpc # "idle" ~> vpc \in Returned
=============================================================================
