------------------------------ MODULE StoreOpen ------------------------------
(***************************************************************************)
(* Opening a store (src/lib/src/storage/mod.rs 172-256): setup calls       *)
(* migrate, which reads "oxversion" through ensure_version (writing the    *)
(* latest version when it is absent), migrates a version-0 store by        *)
(* collecting the graph names of its quads and ingesting them into graphs, *)
(* writes version 1 and accepts only version 1.  The process may crash     *)
(* between any two engine calls and the store is opened again; engine      *)
(* writes and ingestions are durable once they return.  flush and compact *)
(* (283-311) forward to the engine for a list of column families.          *)
(***************************************************************************)
EXTENDS Naturals, FiniteSets

CONSTANTS
    Subjects, Predicates, Objects, NamedGraphs, DefaultGraph, Unit,
    None,           \* no "oxversion" entry in the default family
    InitVersions,   \* versions the store on disk may carry (or None)
    InitQuads,      \* the store on disk holds a subset of these quads
    MaxCrashes      \* crashes during the run

VARIABLES
    db,         \* the store, as in QuadStore
    version,    \* "oxversion" under default, or None
    opc,        \* "closed", "ensure", "scan", "ingest", "update", "check",
                \* "opened", "failed"
    v,          \* migrate's local version
    gnames,     \* migrate's collected graph names (in memory)
    crashes,    \* crashes so far
    flushed,    \* families the last flush() flushed
    compacted   \* families the last compact() compacted

S == INSTANCE QuadStore WITH id2str <- {}, ret <- Unit

vars == <<db, version, opc, v, gnames, crashes, flushed, compacted>>

LATEST_STORAGE_VERSION == 1
\* Every column family of the store, default included.
AllCFs == S!CFs \cup {"default", "id2str"}

\* The store on disk: a version-0 store has no graphs family content.
V0Store(Q) == S!AddQuads([c \in S!CFs |-> {}], Q)
V1Store(Q) == [V0Store(Q) EXCEPT !["graphs"] =
                  {<<q.g>> : q \in {x \in Q : x.g # DefaultGraph}}]

\* Storage::open: setup runs migrate on a freshly opened db.
Open ==
    /\ opc = "closed"
    /\ opc' = "ensure"
    /\ UNCHANGED <<db, version, v, gnames, crashes, flushed, compacted>>

\* Mutant: the new version is written before the migration has run.
EnsureVersionEarly ==
    /\ opc = "ensure"
    /\ IF version = None \/ version = 0
       THEN version' = LATEST_STORAGE_VERSION
       ELSE UNCHANGED version
    /\ v' = IF version = None THEN LATEST_STORAGE_VERSION ELSE version
    /\ opc' = IF v' = 0 THEN "scan" ELSE "check"
    /\ UNCHANGED <<db, gnames, crashes, flushed, compacted>>

\* ensure_version: read "oxversion", or write the latest (update_version:
\* insert then flush of default) when it is absent.
EnsureVersion ==
    /\ opc = "ensure"
    /\ IF version = None
       THEN version' = LATEST_STORAGE_VERSION /\ v' = LATEST_STORAGE_VERSION
       ELSE UNCHANGED version /\ v' = version
    /\ opc' = IF v' = 0 THEN "scan" ELSE "check"
    /\ UNCHANGED <<db, gnames, crashes, flushed, compacted>>

\* Mutant: the default graph is not filtered out.
ScanGraphNamesAll ==
    /\ opc = "scan"
    /\ gnames' = {q.g : q \in S!quads}
    /\ opc' = "ingest"
    /\ UNCHANGED <<db, version, v, crashes, flushed, compacted>>

\* Version 0: the non-default graph names of snapshot().quads().
ScanGraphNames ==
    /\ opc = "scan"
    /\ gnames' = {q.g : q \in {x \in S!quads : x.g # DefaultGraph}}
    /\ opc' = "ingest"
    /\ UNCHANGED <<db, version, v, crashes, flushed, compacted>>

\* The sorted file of graph names is ingested into graphs.
IngestGraphNames ==
    /\ opc = "ingest"
    /\ db' = [db EXCEPT !["graphs"] = @ \cup {<<g>> : g \in gnames}]
    /\ opc' = "update"
    /\ UNCHANGED <<version, v, gnames, crashes, flushed, compacted>>

\* version = 1; update_version(version).
UpdateVersion ==
    /\ opc = "update"
    /\ version' = 1 /\ v' = 1
    /\ opc' = "check"
    /\ UNCHANGED <<db, gnames, crashes, flushed, compacted>>

\* match version: only LATEST_STORAGE_VERSION opens, older and newer
\* versions are corruption errors.
CheckVersion ==
    /\ opc = "check"
    /\ opc' = IF v = LATEST_STORAGE_VERSION THEN "opened" ELSE "failed"
    /\ UNCHANGED <<db, version, v, gnames, crashes, flushed, compacted>>

\* Storage::flush and Storage::compact: the families the code names.
FlushList == {"default", "gpos", "gosp", "spog", "posg", "ospg",
              "dspo", "dpos", "dosp", "id2str"}
Flush ==
    /\ opc = "opened"
    /\ flushed' = FlushList
    /\ UNCHANGED <<db, version, opc, v, gnames, crashes, compacted>>
Compact ==
    /\ opc = "opened"
    /\ compacted' = FlushList
    /\ UNCHANGED <<db, version, opc, v, gnames, crashes, flushed>>

\* The process dies: what is in memory is lost, the disk stays.
Crash ==
    /\ opc \notin {"closed", "failed"}
    /\ crashes < MaxCrashes
    /\ opc' = "closed" /\ v' = None /\ gnames' = {}
    /\ crashes' = crashes + 1
    /\ UNCHANGED <<db, version, flushed, compacted>>

Init ==
    /\ version \in InitVersions
    /\ \E Q \in SUBSET InitQuads :
          db = CASE version = None -> [c \in S!CFs |-> {}]
                 [] version = 0    -> V0Store(Q)
                 [] OTHER          -> V1Store(Q)
    /\ opc = "closed"
    /\ v = None
    /\ gnames = {}
    /\ crashes = 0
    /\ flushed = {}
    /\ compacted = {}

Next ==
    \/ Open \/ EnsureVersion \/ ScanGraphNames \/ IngestGraphNames
    \/ UpdateVersion \/ CheckVersion \/ Flush \/ Compact \/ Crash

Spec == Init /\ [][Next]_vars

-----------------------------------------------------------------------------
TypeOK ==
    /\ db \in [S!CFs -> SUBSET S!KeySpace]
    /\ version \in {None} \cup (0..2)
    /\ opc \in {"closed", "ensure", "scan", "ingest", "update", "check", "opened", "failed"}
    /\ crashes \in 0..MaxCrashes
    /\ flushed \subseteq AllCFs /\ compacted \subseteq AllCFs

\* A store that opens is at version 1 and every graph of its quads is
\* declared in graphs, even when the process crashed in the middle of a
\* version-0 migration any number of times (spec 4.6 migrate).
OpenedMigrated ==
    opc = "opened" => version = LATEST_STORAGE_VERSION /\ S!GraphsCoverQuads
=============================================================================
