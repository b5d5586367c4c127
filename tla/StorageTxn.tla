----------------------------- MODULE StorageTxn -----------------------------
(***************************************************************************)
(* Concurrent StorageWriter transactions (src/lib/src/storage/mod.rs).     *)
(* Each client thread runs write operations one after the other, each in   *)
(* Storage::transaction.  The steps of an operation are its engine calls: *)
(* the transaction begins (and takes its snapshot), every                  *)
(* contains_key_for_update locks a key and checks that no other           *)
(* transaction committed it since the snapshot, scans read the snapshot   *)
(* plus the transaction's own writes, and insert_empty / remove are       *)
(* buffered until commit.  insert_str bypasses the transaction: it writes *)
(* id2str directly and at once.                                            *)
(*                                                                         *)
(* The engine (backend, not under src/) is modelled from spec.md 5/6 and   *)
(* the usual pessimistic-transaction contract: a lock is held until        *)
(* commit or rollback, a waiter gives up after a lock timeout, and a       *)
(* conflict or timeout makes Storage::transaction run the closure again.  *)
(***************************************************************************)
EXTENDS FiniteSets, Naturals

CONSTANTS
    Subjects, Predicates, Objects, NamedGraphs, DefaultGraph, Unit,
    Clients,      \* threads calling Storage::transaction
    Ops,          \* the operations a client may issue
    InitQuads,    \* the store initially holds the result of inserting a subset
    MaxOps,       \* operations issued per client
    Batches       \* quad sets a concurrent bulk load may ingest

VARIABLES
    db,        \* committed column families
    id2str,    \* committed strings (written outside transactions)
    pc,        \* client -> step of its current operation
    op,        \* client -> operation being run
    snap,      \* client -> snapshot taken at transaction begin
    missed,    \* client -> keys committed by others since its snapshot
    puts,      \* client -> buffered insert_empty, as <<cf, key>>
    dels,      \* client -> buffered remove, as <<cf, key>>
    held,      \* client -> keys locked by contains_key_for_update
    todo,      \* client -> quads the remove loop has still to visit
    res,       \* client -> value the operation returns
    nops,      \* client -> operations issued
    ingested   \* batches the bulk load has ingested

S == INSTANCE QuadStore WITH ret <- Unit

vars == <<db, id2str, pc, op, snap, missed, puts, dels, held, todo, res, nops, ingested>>

\* What a transaction reads: its snapshot overlaid with its own writes.
View(c) == [cf \in S!CFs |-> (snap[c][cf] \ {w[2] : w \in {x \in dels[c] : x[1] = cf}})
                               \cup {w[2] : w \in {x \in puts[c] : x[1] = cf}}]
Group(q) == {<<cf, S!WriteQuad(cf, q)>> : cf \in S!FamiliesOf(q)}
FirstKey(q) == LET cf == IF q.g = DefaultGraph THEN "dspo" ELSE "spog"
               IN <<cf, S!WriteQuad(cf, q)>>
GraphKey(g) == <<"graphs", <<g>>>>
In(k, d) == k[2] \in d[k[1]]
LockedByOther(c, k) == \E o \in Clients \ {c} : k \in held[o]

\* The key the next step of c locks, if any.
NeedsLock(c) ==
    CASE pc[c] = "first" /\ op[c].kind \in {"insert", "remove"} -> {FirstKey(op[c].q)}
      [] pc[c] = "first" /\ op[c].kind = "clear_graph" /\ op[c].g = DefaultGraph -> {}
      [] pc[c] = "first" -> {GraphKey(op[c].g)}
      [] pc[c] = "graph_key" -> {GraphKey(op[c].q.g)}
      [] pc[c] = "loop" /\ todo[c] # {} -> {FirstKey(CHOOSE q \in todo[c] : TRUE)}
      [] OTHER -> {}

Begin(c) ==
    /\ pc[c] = "idle"
    /\ nops[c] < MaxOps
    /\ \E o \in Ops :
        /\ op' = [op EXCEPT ![c] = o]
        /\ pc' = [pc EXCEPT ![c] = "first"]
        /\ snap' = [snap EXCEPT ![c] = db]
        /\ missed' = [missed EXCEPT ![c] = {}]
        /\ nops' = [nops EXCEPT ![c] = @ + 1]
    /\ UNCHANGED <<db, id2str, puts, dels, held, todo, res>>

\* contains_key_for_update on the keys K: lock them; a commit of one of
\* them by another transaction since the snapshot is a conflict (Busy).
Lock(c, K) ==
    /\ \A k \in K : ~LockedByOther(c, k) /\ k \notin missed[c]
    /\ held' = [held EXCEPT ![c] = @ \cup K]
Conflict(c, k) == k \in missed[c]

\* Rollback; Storage::transaction runs the closure again in a fresh
\* transaction.  The closure is an impl Fn the engine reruns after every
\* Busy or TimedOut, with no bound on the number of attempts.
Rollback(c) ==
    /\ held' = [held EXCEPT ![c] = {}]
    /\ puts' = [puts EXCEPT ![c] = {}]
    /\ dels' = [dels EXCEPT ![c] = {}]
    /\ todo' = [todo EXCEPT ![c] = {}]
    /\ pc' = [pc EXCEPT ![c] = "first"]
    /\ snap' = [snap EXCEPT ![c] = db]
    /\ missed' = [missed EXCEPT ![c] = {}]
    /\ UNCHANGED <<db, id2str, op, res, nops>>

\* A lock this step waits for is held by another transaction: after the
\* lock timeout the engine returns TimedOut and the transaction rolls back.
LockTimeout(c) ==
    /\ \E k \in NeedsLock(c) : LockedByOther(c, k)
    /\ Rollback(c)

\* A conflicting contains_key_for_update returns Busy: rollback.
Busy(c) ==
    /\ \E k \in NeedsLock(c) : ~LockedByOther(c, k) /\ Conflict(c, k)
    /\ Rollback(c)

Buffer(var, c, K) == var' = [var EXCEPT ![c] = @ \cup K]
Goto(c, l) == pc' = [pc EXCEPT ![c] = l]
Return(c, v) == res' = [res EXCEPT ![c] = v]

\* Mutant: insert_graph_name without its DefaultGraph => Ok(()) arm.
InsertFirstGraphNameAlways(c) ==
    LET q == op[c].q
        k == FirstKey(q)
    IN /\ pc[c] = "first" /\ op[c].kind = "insert"
       /\ Lock(c, {k})
       /\ IF In(k, View(c))
          THEN /\ Return(c, FALSE) /\ Goto(c, "commit")
               /\ UNCHANGED <<puts, id2str>>
          ELSE /\ Buffer(puts, c, Group(q))
               /\ IF q.g = DefaultGraph
                  THEN /\ id2str' = id2str \cup {q.s, q.p, q.o, q.g}
                       /\ Return(c, TRUE) /\ Goto(c, "commit")
                  ELSE /\ id2str' = id2str \cup {q.s, q.p, q.o}
                       /\ UNCHANGED res /\ Goto(c, "graph_key")
       /\ UNCHANGED <<db, op, snap, missed, dels, todo, nops>>

\* Mutant: an insert of a quad already there does not return at once but
\* goes on to lock the graph name, as a new quad does.
InsertFirstLocksGraphKey(c) ==
    LET q == op[c].q
        k == FirstKey(q)
    IN /\ pc[c] = "first" /\ op[c].kind = "insert"
       /\ Lock(c, {k})
       /\ IF In(k, View(c)) THEN UNCHANGED <<puts, id2str>>
          ELSE Buffer(puts, c, Group(q)) /\ id2str' = id2str \cup {q.s, q.p, q.o}
       /\ IF q.g = DefaultGraph
          THEN Return(c, ~In(k, View(c))) /\ Goto(c, "commit")
          ELSE UNCHANGED res /\ Goto(c, "graph_key")
       /\ UNCHANGED <<db, op, snap, missed, dels, todo, nops>>

\* StorageWriter::insert: contains_key_for_update on dspo/spog; a new quad
\* is buffered into its families and its terms go to id2str at once.
InsertFirst(c) ==
    LET q == op[c].q
        k == FirstKey(q)
    IN /\ pc[c] = "first" /\ op[c].kind = "insert"
       /\ Lock(c, {k})
       /\ IF In(k, View(c))
          THEN /\ Return(c, FALSE) /\ Goto(c, "commit")
               /\ UNCHANGED <<puts, id2str>>
          ELSE /\ Buffer(puts, c, Group(q))
               /\ id2str' = id2str \cup {q.s, q.p, q.o}
               /\ IF q.g = DefaultGraph
                  THEN Return(c, TRUE) /\ Goto(c, "commit")
                  ELSE UNCHANGED res /\ Goto(c, "graph_key")
       /\ UNCHANGED <<db, op, snap, missed, dels, todo, nops>>

\* Mutant: insert_graph_name is skipped when the graph key is new.
InsertGraphKeyNoName(c) ==
    LET g == op[c].q.g
        k == GraphKey(g)
    IN /\ pc[c] = "graph_key"
       /\ Lock(c, {k})
       /\ IF In(k, View(c)) THEN UNCHANGED puts ELSE Buffer(puts, c, {k})
       /\ Return(c, TRUE) /\ Goto(c, "commit")
       /\ UNCHANGED <<db, id2str, op, snap, missed, dels, todo, nops>>

\* insert, named-graph path: contains_key_for_update on the graph name;
\* the name and its string are written only if it is not there yet.
InsertGraphKey(c) ==
    LET g == op[c].q.g
        k == GraphKey(g)
    IN /\ pc[c] = "graph_key"
       /\ Lock(c, {k})
       /\ IF In(k, View(c))
          THEN UNCHANGED <<puts, id2str>>
          ELSE Buffer(puts, c, {k}) /\ id2str' = id2str \cup {g}
       /\ Return(c, TRUE) /\ Goto(c, "commit")
       /\ UNCHANGED <<db, op, snap, missed, dels, todo, nops>>

\* Mutant: remove reports TRUE whatever contains_key_for_update found.
RemoveFirstAlwaysTrue(c) ==
    LET q == op[c].q
        k == FirstKey(q)
    IN /\ pc[c] = "first" /\ op[c].kind = "remove"
       /\ Lock(c, {k})
       /\ IF In(k, View(c)) THEN Buffer(dels, c, Group(q)) ELSE UNCHANGED dels
       /\ Return(c, TRUE)
       /\ Goto(c, "commit")
       /\ UNCHANGED <<db, id2str, op, snap, missed, puts, todo, nops>>

\* StorageWriter::remove / remove_encoded.
RemoveFirst(c) ==
    LET q == op[c].q
        k == FirstKey(q)
    IN /\ pc[c] = "first" /\ op[c].kind = "remove"
       /\ Lock(c, {k})
       /\ IF In(k, View(c))
          THEN Buffer(dels, c, Group(q)) /\ Return(c, TRUE)
          ELSE UNCHANGED dels /\ Return(c, FALSE)
       /\ Goto(c, "commit")
       /\ UNCHANGED <<db, id2str, op, snap, missed, puts, todo, nops>>

\* StorageWriter::insert_named_graph.
InsertNamedGraphFirst(c) ==
    LET g == op[c].g
        k == GraphKey(g)
    IN /\ pc[c] = "first" /\ op[c].kind = "insert_named_graph"
       /\ Lock(c, {k})
       /\ IF In(k, View(c))
          THEN Return(c, FALSE) /\ UNCHANGED <<puts, id2str>>
          ELSE /\ Return(c, TRUE) /\ Buffer(puts, c, {k})
               /\ id2str' = id2str \cup {g}
       /\ Goto(c, "commit")
       /\ UNCHANGED <<db, op, snap, missed, dels, todo, nops>>

\* clear_graph and remove_encoded_named_graph: a named graph is first
\* locked ("done ASAP to lock the graph itself"); when it is declared (or
\* is the default graph) the quads_for_graph scan of the transaction's
\* view fixes the quads the loop removes.
ScanGraph(c) ==
    LET g == op[c].g
        K == IF g = DefaultGraph THEN {} ELSE {GraphKey(g)}
        v == View(c)
        inGraph == IF g = DefaultGraph THEN {S!Decode("dspo", x) : x \in v["dspo"]}
                   ELSE {q \in {S!Decode("gspo", x) : x \in v["gspo"]} : q.g = g}
    IN /\ pc[c] = "first" /\ op[c].kind \in {"clear_graph", "remove_named_graph"}
       /\ Lock(c, K)
       /\ IF g = DefaultGraph \/ In(GraphKey(g), v)
          THEN /\ todo' = [todo EXCEPT ![c] = inGraph]
               /\ Goto(c, "loop") /\ UNCHANGED res
          ELSE /\ UNCHANGED todo /\ Goto(c, "commit")
               /\ Return(c, IF op[c].kind = "clear_graph" THEN Unit ELSE FALSE)
       /\ UNCHANGED <<db, id2str, op, snap, missed, puts, dels, nops>>

\* One iteration of the scan loop: remove_encoded of the next quad.  The
\* quad was read from the view and its key is locked without conflict, so
\* contains_key_for_update finds it and the removal always happens.
RemoveLoop(c) ==
    LET q == CHOOSE x \in todo[c] : TRUE
        k == FirstKey(q)
    IN /\ pc[c] = "loop" /\ todo[c] # {}
       /\ Lock(c, {k})
       /\ Buffer(dels, c, Group(q))
       /\ todo' = [todo EXCEPT ![c] = @ \ {q}]
       /\ UNCHANGED <<db, id2str, pc, op, snap, missed, puts, res, nops>>

\* End of the loop; remove_encoded_named_graph then removes the graph name.
LoopDone(c) ==
    /\ pc[c] = "loop" /\ todo[c] = {}
    /\ IF op[c].kind = "remove_named_graph"
       THEN Buffer(dels, c, {GraphKey(op[c].g)}) /\ Return(c, TRUE)
       ELSE UNCHANGED dels /\ Return(c, Unit)
    /\ Goto(c, "commit")
    /\ UNCHANGED <<db, id2str, op, snap, missed, puts, held, todo, nops>>

\* Commit: the buffered writes become visible at once, every open
\* transaction has now missed them, and the locks are released.
Commit(c) ==
    LET W == puts[c] \cup dels[c]
    IN /\ pc[c] = "commit"
       /\ db' = [cf \in S!CFs |-> (db[cf] \ {w[2] : w \in {x \in dels[c] : x[1] = cf}})
                                   \cup {w[2] : w \in {x \in puts[c] : x[1] = cf}}]
       /\ missed' = [o \in Clients |-> IF o # c /\ pc[o] # "idle"
                                        THEN missed[o] \cup W ELSE missed[o]]
       /\ held' = [held EXCEPT ![c] = {}]
       /\ puts' = [puts EXCEPT ![c] = {}]
       /\ dels' = [dels EXCEPT ![c] = {}]
       /\ Goto(c, "idle")
       /\ UNCHANGED <<id2str, op, snap, todo, res, nops>>

\* The store after the quads of Q were inserted one by one.
Loaded(Q) ==
    [S!AddQuads([cf \in S!CFs |-> {}], Q) EXCEPT
        !["graphs"] = {<<q.g>> : q \in {x \in Q : x.g # DefaultGraph}}]

\* The strings the quads of Q put in id2str.
TermsOf(Q) == UNION {{q.s, q.p, q.o} \cup (IF q.g = DefaultGraph THEN {} ELSE {q.g}) : q \in Q}

\* A bulk load worker's save (FileBulkLoader::save): sorted files of
\* id2str, of every family and of graphs go in one insert_stt_files.  The
\* ingestion takes no transaction lock; the ingested keys carry sequence
\* numbers newer than every open snapshot, so a later
\* contains_key_for_update of one of them is a conflict.
BulkIngest(B) ==
    LET W == UNION {{<<cf, k>> : k \in Loaded(B)[cf]} : cf \in S!CFs}
    IN /\ B \notin ingested
       /\ ingested' = ingested \cup {B}
       /\ db' = [cf \in S!CFs |-> db[cf] \cup Loaded(B)[cf]]
       /\ id2str' = id2str \cup TermsOf(B)
       /\ missed' = [o \in Clients |-> IF pc[o] # "idle" THEN missed[o] \cup W ELSE missed[o]]
       /\ UNCHANGED <<pc, op, snap, puts, dels, held, todo, res, nops>>

Init ==
    /\ \E Q \in SUBSET InitQuads :
        /\ db = Loaded(Q)
        /\ id2str = TermsOf(Q)
    /\ pc = [c \in Clients |-> "idle"]
    /\ op = [c \in Clients |-> CHOOSE o \in Ops : TRUE]
    /\ snap = [c \in Clients |-> db]
    /\ missed = [c \in Clients |-> {}]
    /\ puts = [c \in Clients |-> {}]
    /\ dels = [c \in Clients |-> {}]
    /\ held = [c \in Clients |-> {}]
    /\ todo = [c \in Clients |-> {}]
    /\ res = [c \in Clients |-> Unit]
    /\ nops = [c \in Clients |-> 0]
    /\ ingested = {}

\* Every step of a running operation (all but Begin).
Step(c) ==
    /\ \/ InsertFirst(c) \/ InsertGraphKey(c) \/ RemoveFirst(c)
       \/ InsertNamedGraphFirst(c) \/ ScanGraph(c) \/ RemoveLoop(c) \/ LoopDone(c)
       \/ Commit(c) \/ Busy(c) \/ LockTimeout(c)
    /\ UNCHANGED ingested

Next == \/ \E c \in Clients : (Begin(c) /\ UNCHANGED ingested) \/ Step(c)
        \/ \E B \in Batches : BulkIngest(B)

\* Threads are scheduled and lock timeouts expire: a step that stays
\* enabled is eventually taken.  Issuing an operation, and bulk loading,
\* are up to the caller.
Spec == Init /\ [][Next]_vars /\ \A c \in Clients : WF_vars(Step(c))

-----------------------------------------------------------------------------
TypeOK ==
    /\ S!TypeOK
    /\ pc \in [Clients -> {"idle", "first", "graph_key", "loop", "commit"}]
    /\ op \in [Clients -> Ops]
    /\ res \in [Clients -> BOOLEAN \cup {Unit}]
    /\ nops \in [Clients -> 0..MaxOps]
    /\ ingested \subseteq Batches

\* Strings of committed quads and graphs are in id2str, although they are
\* written outside the transaction that commits the quad.
Id2StrCoversLiveTerms == S!Id2StrCoversLiveTerms

\* Every graph of a committed quad is declared in graphs (spec 3.3, and
\* the check validate() makes), under concurrent transactions.
GraphsCoverQuads == S!GraphsCoverQuads

\* The boolean an insert, remove, insert_named_graph or remove_named_graph
\* returns is right at the moment its transaction commits: the locked key
\* was absent (TRUE of insert) or present (TRUE of remove) in the committed
\* store, so two concurrent inserts of one quad never both return TRUE.
\* This is the promise among transactions: a locked key that is in missed
\* at commit was written under the lock by a bulk ingestion (a commit of it
\* before the lock makes the lock Busy), which the lock does not stop.
CommitsOf(c) == pc[c] = "commit" /\ pc'[c] = "idle"
Stored(d, q) == S!WriteQuad(IF q.g = DefaultGraph THEN "dspo" ELSE "spog", q)
                    \in d[IF q.g = DefaultGraph THEN "dspo" ELSE "spog"]
LockedKey(c) == IF op[c].kind \in {"insert", "remove"} THEN FirstKey(op[c].q)
                ELSE GraphKey(op[c].g)
ReturnAtCommit ==
    [][\A c \in Clients :
        CommitsOf(c) /\ LockedKey(c) \notin missed[c] =>
          CASE op[c].kind = "insert" -> (res[c] = ~Stored(db, op[c].q)) /\ Stored(db', op[c].q)
            [] op[c].kind = "remove" -> (res[c] = Stored(db, op[c].q)) /\ ~Stored(db', op[c].q)
            [] op[c].kind = "insert_named_graph" -> res[c] = (<<op[c].g>> \notin db["graphs"])
            [] op[c].kind = "remove_named_graph" -> res[c] = (<<op[c].g>> \in db["graphs"])
            [] OTHER -> TRUE]_vars

\* Every operation a client starts eventually returns, although
\* Storage::transaction reruns it after every Busy or TimedOut with no
\* bound.  Lock waits end by commit or lock timeout, and no two
\* operations roll each other back forever: insert locks spog then the
\* graphs key, remove_named_graph the graphs key then the spog keys of
\* the quads in its snapshot, and an insert of such a quad returns FALSE
\* before it locks the graphs key.
OperationsReturn == \A c \in Clients : [](pc[c] # "idle" => <>(pc[c] = "idle"))
=============================================================================
