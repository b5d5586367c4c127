----------------------------- MODULE BulkLoader -----------------------------
(***************************************************************************)
(* StorageBulkLoader (src/lib/src/storage/mod.rs 1243-2218).  The main     *)
(* thread reads the input, fills a buffer and, when it is full, calls      *)
(* spawn_load_thread: it joins the oldest worker once num_threads are in   *)
(* flight, then hands the buffer to a new worker.  At the end of the input *)
(* the remaining buffer is handed over too (even when empty) and every     *)
(* worker is joined in spawn order.  A worker (FileBulkLoader) dedupes its *)
(* batch, ingests one sorted file per column family in a single            *)
(* insert_stt_files call, then adds the batch size to the shared done      *)
(* counter.  on_possible_progress runs on the main thread around every     *)
(* spawn and join and calls the hooks.  The oxiuse variants first build    *)
(* the taxonomy trees from a file and unwrap the result.                   *)
(***************************************************************************)
EXTENDS Naturals, Sequences, FiniteSets

CONSTANTS
    Subjects, Predicates, Objects, NamedGraphs, DefaultGraph, Unit,
    Inputs,         \* possible quads iterators: sequences of quads or ParseErr
    ParseErr,       \* an Err item of the input iterator
    BatchSize,      \* batch_size
    NumThreads,     \* num_threads
    DisplayStep,    \* DEFAULT_BULK_LOAD_BATCH_SIZE, scaled down
    MaxFailures,    \* worker saves that may fail (engine / file errors)
    Variant,        \* "plain", "oxiuse_value" or "oxiuse_key"
    TreeReadable,   \* outcomes of construct_tree reading its file (per worker)
    Hinted,         \* default-graph quads whose interval hint is not empty
    Hint            \* the interval hint bytes (type id 50/51 first)

VARIABLES
    db, id2str,     \* the store, as in QuadStore
    input,          \* the quads iterator of this load
    mpc,            \* main thread: "read", "spawn", "join_oldest", "push",
                    \* "join_all", "ok", "err", "panic"
    next,           \* index of the next input item
    eof,            \* the input iterator is exhausted
    buffer,         \* quads of the batch being filled
    threads,        \* VecDeque of the workers not yet joined, oldest first
    nspawned,       \* workers spawned so far
    wpc,            \* worker -> "run", "ingested", "ok", "failed", "panicked"
    wbatch,         \* worker -> the quads handed to it
    done,           \* done_counter (AtomicU64)
    displayed,      \* done_and_displayed_counter
    hooks,          \* number of hook invocations
    nfail           \* worker saves that failed

S == INSTANCE QuadStore WITH ret <- Unit

vars == <<db, id2str, input, mpc, next, eof, buffer, threads, nspawned, wpc, wbatch,
          done, displayed, hooks, nfail>>
mainVars == <<mpc, next, eof, buffer, threads, nspawned, displayed, hooks>>
workerVars == <<wpc, wbatch, done, nfail>>

\* One worker per batch, plus the final spawn for the rest of the input.
MaxLen == LET lens == {Len(i) : i \in Inputs}
              IN CHOOSE n \in lens : \A m \in lens : m <= n
MaxWorkers == MaxLen \div BatchSize + 1
Workers == 1..MaxWorkers
Finished == {"ok", "failed", "panicked"}

\* The keys a worker writes for q into family c: the key-side interval
\* variant puts the hint in front of the terms of a hinted triple
\* (encode_term_triple_oxiuse_key_spo/pos/osp).
KeyOf(c, q) ==
    IF Variant = "oxiuse_key" /\ c \in S!TripleCFs /\ q \in Hinted
    THEN <<Hint>> \o S!WriteQuad(c, q)
    ELSE S!WriteQuad(c, q)

\* on_possible_progress: done.fetch_max(displayed) returns done (it never
\* trails displayed); hooks run when the remainder modulo the display
\* step grows.
OnPossibleProgress ==
    /\ displayed' = done
    /\ hooks' = IF done % DisplayStep > displayed % DisplayStep
                THEN hooks + 1 ELSE hooks

\* Mutants of save: graph names taken from every quad, the default graph
\* included; the gosp file left out; the graphs file left out; the
\* named-graph block (graphs and the six quad families) left out.
IngestAllGraphs(d, B) ==
    [c \in S!CFs |->
        IF c = "graphs" THEN d[c] \cup {<<q.g>> : q \in B}
        ELSE d[c] \cup {KeyOf(c, q) : q \in {x \in B : c \in S!FamiliesOf(x)}}]
IngestNoGosp(d, B) ==
    [c \in S!CFs |->
        IF c = "graphs" THEN d[c] \cup {<<q.g>> : q \in {x \in B : x.g # DefaultGraph}}
        ELSE IF c = "gosp" THEN d[c]
        ELSE d[c] \cup {KeyOf(c, q) : q \in {x \in B : c \in S!FamiliesOf(x)}}]
IngestNoGraphs(d, B) ==
    [c \in S!CFs |->
        IF c = "graphs" THEN d[c]
        ELSE d[c] \cup {KeyOf(c, q) : q \in {x \in B : c \in S!FamiliesOf(x)}}]
IngestTriplesOnly(d, B) ==
    [c \in S!CFs |->
        IF c \in S!TripleCFs
        THEN d[c] \cup {KeyOf(c, q) : q \in {x \in B : x.g = DefaultGraph}}
        ELSE d[c]]
\* Mutant of the strings: the graph name's string is not recorded.
StringsNoGraph(B) == UNION {{q.s, q.p, q.o} : q \in B}

\* FileBulkLoader::encode then save: the batch is deduped, its strings and
\* graph names collected, and every family is ingested in one call.
Ingest(d, B) ==
    LET named == {q \in B : q.g # DefaultGraph}
    IN [c \in S!CFs |->
          IF c = "graphs" THEN d[c] \cup {<<q.g>> : q \in named}
          ELSE d[c] \cup {KeyOf(c, q) : q \in {x \in B : c \in S!FamiliesOf(x)}}]
Strings(B) == UNION {{q.s, q.p, q.o} \cup (IF q.g = DefaultGraph THEN {} ELSE {q.g}) : q \in B}

\* A worker thread: construct_tree(..).unwrap() for the oxiuse variants,
\* then load: encode, save (one insert_stt_files, or an error).
WorkerSave(w) ==
    /\ wpc[w] = "run"
    /\ \E readable \in TreeReadable :
       IF Variant # "plain" /\ ~readable
       THEN /\ wpc' = [wpc EXCEPT ![w] = "panicked"]
            /\ UNCHANGED <<db, id2str, nfail>>
       ELSE \/ /\ db' = Ingest(db, wbatch[w])
               /\ id2str' = id2str \cup Strings(wbatch[w])
               /\ wpc' = [wpc EXCEPT ![w] = "ingested"]
               /\ UNCHANGED nfail
            \/ /\ nfail < MaxFailures
               /\ wpc' = [wpc EXCEPT ![w] = "failed"]
               /\ nfail' = nfail + 1
               /\ UNCHANGED <<db, id2str>>
    /\ UNCHANGED <<wbatch, done>> /\ UNCHANGED <<input>> /\ UNCHANGED mainVars

\* counter.fetch_add(size): size counts the deduped triples and quads.
WorkerCount(w) ==
    /\ wpc[w] = "ingested"
    /\ done' = done + Cardinality(wbatch[w])
    /\ wpc' = [wpc EXCEPT ![w] = "ok"]
    /\ UNCHANGED <<db, id2str, wbatch, nfail>> /\ UNCHANGED <<input>> /\ UNCHANGED mainVars

\* for quad in quads { let quad = quad?; buffer.push(quad); if full spawn }
\* and, at the end of the input, the final spawn_load_thread.
Read ==
    /\ mpc = "read"
    /\ IF next > Len(input)
       THEN mpc' = "spawn" /\ eof' = TRUE /\ UNCHANGED <<next, buffer>>
       ELSE IF input[next] = ParseErr
       THEN mpc' = "err" /\ UNCHANGED <<next, buffer, eof>>
       ELSE /\ buffer' = Append(buffer, input[next])
            /\ next' = next + 1
            /\ mpc' = IF Len(buffer') >= BatchSize THEN "spawn" ELSE "read"
            /\ UNCHANGED eof
    /\ UNCHANGED <<db, id2str, input, threads, nspawned, displayed, hooks>> /\ UNCHANGED workerVars

\* Mutant: the pool check uses > instead of >=.
SpawnCheckGt ==
    /\ mpc = "spawn"
    /\ OnPossibleProgress
    /\ mpc' = IF Len(threads) > NumThreads THEN "join_oldest" ELSE "push"
    /\ UNCHANGED <<db, id2str, input, next, eof, buffer, threads, nspawned>> /\ UNCHANGED workerVars

\* spawn_load_thread, first on_possible_progress and the pool check.
SpawnCheck ==
    /\ mpc = "spawn"
    /\ OnPossibleProgress
    /\ mpc' = IF Len(threads) >= NumThreads THEN "join_oldest" ELSE "push"
    /\ UNCHANGED <<db, id2str, input, next, eof, buffer, threads, nspawned>> /\ UNCHANGED workerVars

\* thread.join().unwrap()? then on_possible_progress, for the front of
\* threads; `to` is where the main thread continues on success.
JoinFront(to) ==
    LET w == Head(threads)
    IN /\ threads # <<>> /\ wpc[w] \in Finished
       /\ threads' = Tail(threads)
       /\ CASE wpc[w] = "panicked" -> mpc' = "panic" /\ UNCHANGED <<displayed, hooks>>
            [] wpc[w] = "failed"   -> mpc' = "err" /\ UNCHANGED <<displayed, hooks>>
            [] OTHER               -> mpc' = to /\ OnPossibleProgress

\* The pool is full: the oldest worker is joined.
JoinOldest ==
    /\ mpc = "join_oldest"
    /\ JoinFront("push")
    /\ UNCHANGED <<db, id2str, input, next, eof, buffer, nspawned>> /\ UNCHANGED workerVars

\* take(buffer) into a new worker, push_back, on_possible_progress.
Push ==
    LET w == nspawned + 1
    IN /\ mpc = "push"
       /\ wpc' = [wpc EXCEPT ![w] = "run"]
       /\ wbatch' = [wbatch EXCEPT ![w] = {buffer[i] : i \in DOMAIN buffer}]
       /\ buffer' = <<>>
       /\ threads' = Append(threads, w)
       /\ nspawned' = w
       /\ OnPossibleProgress
       /\ mpc' = IF eof THEN "join_all" ELSE "read"
       /\ UNCHANGED <<db, id2str, input, next, eof, done, nfail>>

\* for thread in threads { thread.join().unwrap()?; on_possible_progress }
JoinAll ==
    /\ mpc = "join_all"
    /\ IF threads = <<>>
       THEN mpc' = "ok" /\ UNCHANGED <<threads, displayed, hooks>>
       ELSE JoinFront("join_all")
    /\ UNCHANGED <<db, id2str, input, next, eof, buffer, nspawned>> /\ UNCHANGED workerVars

Init ==
    /\ db = [c \in S!CFs |-> {}]
    /\ id2str = {}
    /\ input \in Inputs
    /\ mpc = "read"
    /\ next = 1
    /\ eof = FALSE
    /\ buffer = <<>>
    /\ threads = <<>>
    /\ nspawned = 0
    /\ wpc = [w \in Workers |-> "unused"]
    /\ wbatch = [w \in Workers |-> {}]
    /\ done = 0
    /\ displayed = 0
    /\ hooks = 0
    /\ nfail = 0

Main == Read \/ SpawnCheck \/ JoinOldest \/ Push \/ JoinAll
Worker(w) == WorkerSave(w) \/ WorkerCount(w)

Next == Main \/ \E w \in Workers : Worker(w)

\* The OS runs every live thread, and a join returns once its thread ends.
Spec == Init /\ [][Next]_vars /\ WF_vars(Main) /\ \A w \in Workers : WF_vars(Worker(w))

-----------------------------------------------------------------------------
InputQuads == {input[i] : i \in DOMAIN input} \ {ParseErr}

TypeOK ==
    /\ \A c \in S!CFs : db[c] \subseteq S!KeySpace \cup {<<Hint>> \o k : k \in S!KeySpace}
    /\ id2str \subseteq S!Terms
    /\ mpc \in {"read", "spawn", "join_oldest", "push", "join_all", "ok", "err", "panic"}
    /\ input \in Inputs
    /\ next \in 1..Len(input) + 1
    /\ nspawned \in 0..MaxWorkers
    /\ wpc \in [Workers -> {"unused", "run", "ingested"} \cup Finished]
    /\ done \in Nat /\ displayed \in Nat /\ hooks \in Nat

\* At most num_threads workers are spawned and not yet joined: the main
\* thread joins the oldest before spawning when the deque is full.
PoolBound == Len(threads) <= NumThreads

\* Bulk ingestion keeps the nine families coherent at every point, with
\* batches ingested concurrently and in any order (spec 4.5, 8.3).
IndexCoherence == S!IndexCoherence

\* The graph name of every ingested quad is in graphs.
GraphsCoverQuads == S!GraphsCoverQuads

\* Strings of every ingested term are ingested with it.
Id2StrCoversLiveTerms == S!Id2StrCoversLiveTerms

\* Bulk-load equivalence (spec 8.5): when load returns Ok, every row
\* decodes and the store holds exactly the input quads and their graphs,
\* as iterated inserts would leave it, whatever the batch boundaries,
\* duplicates across batches and order in which workers ingest.
Decodable == \A c \in S!TripleCFs : \A k \in db[c] : k[1] # Hint
BulkLoadEquivalence ==
    mpc = "ok" =>
        /\ Decodable
        /\ S!quads = InputQuads
        /\ S!named_graphs = {q.g : q \in {x \in InputQuads : x.g # DefaultGraph}}

\* Progress hooks are invoked at a DEFAULT_BATCH crossing of the done
\* counter and only then (spec 4.5 step 4), by on_possible_progress.
HooksAtCrossings ==
    [][(hooks' # hooks) <=> (displayed' \div DisplayStep > displayed \div DisplayStep)]_vars

\* Once load has returned Err the load is over (spec 5: the error "aborts
\* the remaining load"): nothing more is ingested into the store.
NoIngestAfterError == [][mpc = "err" => db' = db]_vars
=============================================================================
