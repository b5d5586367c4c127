# TLA+ models of the oxigraph storage core

These modules model `src/lib/src/storage/mod.rs` and `src/lib/src/storage/binary_encoder.rs`, the storage layer of this oxigraph fork. The fork adds interval ("oxiuse") encodings derived from a taxonomy tree. `spec.md` describes the same system in prose.

## The system

| Part | Source | What it does |
|---|---|---|
| Term / quad key codec | `binary_encoder.rs` 66-500, 778-910 | `write_term` / `read_term` per term kind. `write_xxx_quad` lays a quad's terms out in the order of one of nine index families. The default graph writes no bytes. |
| Interval codec | `binary_encoder.rs` 529-776 | Encodes a term's interval set from two `MultiTree`s. This happens either into the value (`oxiuse_value`) or into the key (`oxiuse_key`). |
| Quad indexer / reader | `mod.rs` 320-877 | `StorageReader` has `quads_for_pattern` (16 shapes), `named_graphs` and `validate`, plus the decoding iterators. |
| Transactional writer | `mod.rs` 889-1241 | `StorageWriter` has insert, remove, insert_named_graph, clear_graph, clear_all_*, remove_named_graph, remove_all_named_graphs and clear. Each runs inside `Storage::transaction`. |
| Bulk loader | `mod.rs` 1243-2218 | Batches quads, builds sorted files in a bounded pool of worker threads and ingests them. Progress hooks fire along the way. There are three variants: plain, oxiuse_value and oxiuse_key. |
| Store facade | `mod.rs` 67-318, 689-805 (validate) | setup, migrate / ensure_version / update_version, snapshot, transaction, flush, compact, backup. |
| `io/main.rs` | 14 lines | An example program. It is not modelled. |

The interactions:
- Writers run concurrently in engine transactions over the eleven column families.
- `insert_str` writes `id2str` directly to the db, outside any transaction.
- The bulk loader ingests files straight into the families and takes no locks.

## Modules

- **QuadSet**: the abstract promise of the writer (spec 4.4). It has a set of quads, a set of declared named graphs, and one atomic step per operation with its return value.
- **QuadStore**: the writer with every operation as one atomic transaction.
  - `db` maps each family to its set of keys. A key is the sequence of terms `write_term` emits, in the family's order (`Encoding`, `WriteQuad`). `Decode` is `QuadEncoding::decode`.
  - Terms are model values, so the byte layout of a term is abstracted away. The one layout fact that matters to the indexes is kept: the default graph emits nothing.
  - Each action translates one `StorageWriter` method, all of its calls included.
  - The refinement `quads = decode(dspo) ∪ decode(gspo)` and `named_graphs = graphs` shows that QuadStore implements QuadSet.
- **StorageTxn**: several client threads, each running operations in `Storage::transaction`. Each engine call of an operation is a step:
  - **Begin** takes a snapshot.
  - **Lock** is `contains_key_for_update`: it takes a lock, and validation against the snapshot gives **Busy**.
  - **LockTimeout** fires when the lock is held by another client.
  - **Buffer** is `insert_empty` / `remove`, buffered until **Commit**.
  - **ScanGraph** and **RemoveLoop** are the `quads_for_graph` loop over the transaction's view.
  - `insert_str` updates `id2str` at once.
  - After Busy or TimedOut the closure runs again in a fresh transaction. `Storage::transaction` takes an `impl Fn` that the engine reruns with no bound, so the model has no retry limit and no give-up.
  - **BulkIngest** is a concurrent bulk load's `save` (mod.rs 1652-1775). Its sorted files of `id2str`, every family and `graphs` go in one `insert_stt_files`. It takes no transaction lock. Its keys are newer than every open snapshot, so a later `contains_key_for_update` of one of them is Busy. Each batch of `Batches` is ingested once.
  - The engine itself is not under `src/`. Its transaction semantics are modelled from spec.md 5/6 and are marked `spec_modelled` in the map: a pessimistic transaction whose snapshot is set at begin, held locks, and a lock timeout.
- **BulkLoader**: `BulkLoader::load` and its two interval copies (`load_oxiuse_value`, `load_oxiuse_key`), which share one control flow.
  - The main thread has the steps **Read**, **SpawnCheck**, **JoinOldest**, **Push** and **JoinAll**.
    - **Read** takes one quad; a parse error returns `Err`.
    - **SpawnCheck** is `on_possible_progress` followed by the `threads.len() >= num_threads` check.
    - **JoinOldest** joins the front of the `VecDeque`.
    - **Push** spawns a worker on the taken buffer.
    - **JoinAll** is the final loop of joins.
  - **JoinFront** is `thread.join().unwrap()?`. A panicked worker panics the main thread, and a failed one returns its error.
  - A worker has two steps:
    - **WorkerSave**: `construct_tree(..).unwrap()` for the interval variants (it may panic), then encode and save. Save is one `insert_stt_files` of every family, or an error.
    - **WorkerCount**: `counter.fetch_add` of the deduplicated batch size.
  - `OnPossibleProgress` translates the remainder comparison of `on_possible_progress` exactly. `fetch_max` returns the counter, so `displayed` becomes `done`.
  - `KeyOf` is where the variants differ. The key variant writes the interval bytes, abstracted to one `Hint` value, in front of a hinted triple's terms.
- **StoreOpen**: `setup` and `migrate`.
  - **EnsureVersion** is `ensure_version`: it reads `oxversion`, or writes version 1 when it is absent.
  - **ScanGraphNames** and **IngestGraphNames** are the version-0 migration: collect the non-default graph names of `snapshot().quads()`, then ingest them into `graphs`.
  - **UpdateVersion** is `update_version`, and **CheckVersion** is the final `match`.
  - **Crash** kills the process between any two of these engine calls. Memory is lost; the db and `oxversion` are kept, because an engine write that returned is durable. The next **Open** starts over.
  - **Flush** and **Compact** record the families the code names.
- **IntervalCodec**: one `load_oxiuse_value` worker's interval sidecar.
  - **ReadLine** is one pass of `construct_tree`'s loop (mod.rs 2188-2203). Lines with subClassOf or subOrganizationOf go to the class tree, subPropertyOf lines go to the property tree, and other lines are skipped.
  - **EncodeTrees** is `classTree.encode(); propertyTree.encode()`. IRIs are numbers, and children are visited in IRI order.
  - `MultiTree` (`crate::extendedTree`) is not under `src/`, so its labelling is modelled from spec.md 3 and marked `spec_modelled`. A node without a parent hangs under the root, and every path from the root gives one interval. `start` is the path's pre-order number, `end` its post-order number, and `layer` its depth. `Label` computes both numbers in closed form from the subtree sizes.
  - **BuildSst** is one family's file of `save_oxiuse_value`: `build_sst_for_oxiuse_value` over every batch triple. The files are built in the code's order (dspo, dpos, dosp). A row (`ValueRow`) is `encode_term_triple_oxiuse_value_spo`, `_pos` or `_osp`: the key holds the terms in the family's order (`Perm`), and the value is `Encoding`, which is `encoded_interval_encoding`. A hint is a sequence of fields: the tag, the count written as `u8` (hence `% 256`), and start, end and layer.
  - **Ingest** adds the id2str file and ingests every file in one `insert_stt_files`. The batch holds default-graph triples only; the named-graph files are the same as in `save` (BulkLoader).
- **StoreValidate**: `StorageReader::validate` on a snapshot reader while writers commit QuadStore operations (**Write**).
  - **Begin** takes the snapshot.
  - **CountTriples** and **CountQuads** compare the `count()` of each family of the snapshot.
  - **ProbeTriples** and **ProbeQuads** walk dspo and gspo of the snapshot. Each row is probed (`TripleProbes`, `QuadProbes`) in `storage.db`, the latest state, exactly as the code does.
  - `ierr` records whether the call's iterators report an error status. `DecodingQuadIterator::next` then yields `Err` without advancing. Inside a walk, `spo?` returns the error; inside `count()`, the call never ends (`count_err`).
- **TermCodec**: the term codec of binary_encoder.rs, as operators.
  - `Tag` holds the type ids. `WriteLayout` and `ReadLayout` hold, per variant, the fields in the order `write_term` and `read_term` handle them, each with its byte width. The two tables are translated separately from the two matches.
  - `WriteTerm` is `write_term`. `ReadTerm` is `read_term`: one type id, then the fixed buffers of its arm (`ReadFields`), three nested terms for a triple, and an error for an unknown id or a short buffer. `ReadTerms` is a `read_xxx_quad`: n terms in turn, whatever follows.
  - A field's bytes are one byte value, 0 or 1, repeated over the width. 1 is also a valid type id, so a width slip makes payload bytes read as a type id. The validation of inline strings (`SmallString::from_be_bytes`) is not modelled.
- QuadStore's reader: `contains` and `quads_for_pattern`. `DefaultScan`, `AnyGraphScan` and `NamedGraphScan` give the family and prefix order of each of the sixteen shapes, as `quads_for_subject` ... `quads_for_object_graph` choose them. `ScanPrefix` is `inner_quads`: a prefix scan, each key decoded. `Scan` chains them like `ChainedDecodingQuadIterator`. Iteration order is abstracted to the set of quads read.
- **MC_QuadStore**, **MC_StorageTxn**, **MC_BulkLoader**, **MC_StoreOpen**, **MC_StoreValidate**, **MC_IntervalCodec**: the model values and bounds for TLC.
## Runs

| Run | Checks | Result |
|---|---|---|
| `quadstore_serial` (MC_QuadStore.cfg) | TypeOK, IndexCoherence, GraphsCoverQuads, Id2StrCoversLiveTerms, ReadsMatchPattern, TermRoundTrip, QuadSetRefinement | Pass: 621 distinct states, every sequence of operations. |
| `txn_concurrent` (MC_StorageTxn.cfg) | TypeOK, Id2StrCoversLiveTerms, ReturnAtCommit (action property), OperationsReturn (liveness) | Pass: 83,456 distinct states, about 50 s. Operations return although retries are unbounded. |
| `txn_graph_race` (MC_StorageTxn_graphs.cfg) | GraphsCoverQuads | **Violation**, 7 states: a bulk ingestion under `remove_named_graph`'s lock. With `Batches <- MC_NoBatches`, the same configuration reports the insert route in 12 states. |
| `bulk_load` (MC_BulkLoader.cfg) | TypeOK, PoolBound, IndexCoherence, GraphsCoverQuads, Id2StrCoversLiveTerms, BulkLoadEquivalence | Pass: 368 distinct states. Covers the value variant, worker failure, worker panic and a parse error. |
| `bulk_hooks` (MC_BulkLoader_hooks.cfg) | HooksAtCrossings (action property) | **Violation**: hooks are missed at crossings of the display step and fire between them. |
| `bulk_abort` (MC_BulkLoader_abort.cfg) | NoIngestAfterError (action property) | **Violation**: workers still ingest after `load` returned a worker's error. |
| `bulk_key_variant` (MC_BulkLoader_keyvariant.cfg) | BulkLoadEquivalence | **Violation**: the key variant's default-graph keys start with the interval bytes and do not decode. |
| `interval_wrap` (MC_IntervalCodec_wrap.cfg) | CountMatchesIntervals | **Violation**, about 65 s: a class with 256 root paths gets an `rdf:type` hint whose count field is 0, followed by 256 intervals. |
| `open_migrate` (MC_StoreOpen.cfg) | TypeOK, OpenedMigrated | Pass: 316 distinct states. Covers every on-disk version (absent, 0, 1, 2) and up to 2 crashes. |
| `validate_quiet` (MC_StoreValidate.cfg) | ReportExact, ValidateLeavesWalks (liveness) | Pass: 8,846 distinct states. |
| `validate_stale` (MC_StoreValidate_stale.cfg) | NoFalseCorruption | **Violation**, 5 states: snapshot, count, a writer removes the triple, and the probe of the latest db reports "Quad in dspo and not in dpos". |
| `validate_hang` (MC_StoreValidate_hang.cfg) | ValidateReturns (liveness) | **Violation**: an iterator error during `count()` never ends. |

The insert route of the race checked by `txn_graph_race`:
1. Client 1 inserts quad q into graph g1, which is already declared.
2. Its insert locks the `graphs` key of g1 but does not write it.
3. Client 2's `remove_named_graph(g1)` began before client 1's commit, so q is not in its snapshot. It then locks the `graphs` key of g1 without conflict.
4. Client 2 removes only the quads of its snapshot, then deletes g1.
5. q is left in `gspo` with no graph in `graphs`. This is the state `validate()` reports as corruption (mod.rs 787).

The comment at mod.rs 1203 ("The condition is done ASAP to lock the graph itself") shows that the lock was meant to exclude exactly this. `clear_graph`, `remove_all_named_graphs` and `clear` share the path.

The ingestion route, which TLC reports with the bulk batch (mod.rs 1775):
1. `remove_named_graph(g1)` begins, locks the `graphs` key of g1 and scans its snapshot.
2. It removes the one quad it saw and buffers the deletion of g1.
3. A bulk load's `insert_stt_files` ingests a second quad of g1, and the `graphs` key of g1 with it. The ingestion takes no lock, so the one held does not stop it.
4. The commit deletes g1 and leaves the ingested quad in `gspo`.

The same bypass makes a result stale: an `insert_named_graph` that locked an absent `graphs` key returns TRUE, the ingestion writes that key, and the commit follows. `ReturnAtCommit` therefore states the promise among transactions: it covers the commits whose locked key no ingestion wrote under the lock.

The other findings:
- **bulk_hooks** (mod.rs 1569-1580):
  - `on_possible_progress` fires when `new % step > old % step`. A jump across a multiple of the step makes the remainder fall, so no hook runs.
  - A move inside one step fires a hook.
  - spec 4.5 says hooks run at every crossing.
- **bulk_abort** (mod.rs 1351, 1333):
  - `thread.join().unwrap()?` returns the first failure and drops the other `JoinHandle`s. Dropping a handle detaches its thread, so those workers keep ingesting after `load` returned.
  - spec 5 says the error aborts the remaining load.
  - The panic of an interval worker in `construct_tree(..).unwrap()` reaches the caller as a panic through `join().unwrap()`, and it detaches the other workers the same way.
- **bulk_key_variant** (binary_encoder.rs 576-616):
  - `encode_term_triple_oxiuse_key_spo/pos/osp` append the interval bytes BEFORE the terms.
  - spec 4.2 puts them after, and spec 8.5 asks the bulk load to equal iterated inserts.
- **interval_wrap** (binary_encoder.rs 743):
  - `node.get_interval_nodes().len() as u8` wraps. Multiple inheritance multiplies paths, so four layers of four classes, each under every class above, give 256 paths and a count of 0.
  - spec 4.2 lays the value out as a 1-byte count followed by that many 18-byte intervals, so a reader of the row stops after the count.
- A code observation outside any run: `flush` and `compact` (mod.rs 283-311) name `gpos_cf` twice and never `gspo_cf` or `graphs_cf`, while spec 4.6 says they reach every family. This can be read straight from the code, so it is recorded here rather than spending one of the 12 runs on it. StoreOpen still models both operations with the code's list.
- **validate_stale** (mod.rs 702-790):
  - `validate` is a method of the reader and iterates the reader's snapshot.
  - Every `contains_key` goes to `self.storage.db`, the latest state.
  - A commit during the call, which is allowed by the snapshot isolation the reader promises, gives a false corruption report.
  - With no commit during the call, `ReportExact` shows the report is exact.
- **validate_hang** (mod.rs 849-858, 691):
  - While the engine iterator's status is an error, `DecodingQuadIterator::next` keeps returning `Some(Err(e))` without advancing.
  - `count()` only stops at `None`.

Every property of a passing run has a mutant (PROJECT.json "mutants"). Each mutant is a plausible bug in the mapped code, and TLC finds the property violated with it.

Two properties are stated over the stored keys of every state of `quadstore_serial`:
- **ReadsMatchPattern**: for each of the 16 pattern shapes over the model's quads, `quads_for_pattern` gives exactly the stored quads matching the pattern, and `contains` gives exactly membership. A shape sent to the wrong family or prefix order (for example the subject-object shape scanned in `dspo`) reads quads the pattern does not match, or misses some.
- **TermRoundTrip**: every stored key, written term by term with `write_term`, is read back by `read_xxx_quad` into the same terms. Over the bounded terms of TermCodec, `read_term` also stops exactly where the next term starts, and a term cut short is an error. This prefix-freedom is what makes a prefix scan of encoded terms select exactly the keys that start with those terms.

### Bounds

- **MC_QuadStore**: subjects {s1, s2}, one predicate, one object, named graphs {g1, g2} plus the default graph. That gives two quads per graph, so clears and removes of graphs with several quads are reached, and so is a quad sharing terms with another.
- **MC_StorageTxn**:
  - 2 clients with 2 operations each. An operation is rerun until it commits.
  - One quad per graph in g1 and the default graph.
  - Operations: insert and remove of each quad, insert/remove/clear of g1, and clear of the default graph.
  - The store starts empty or holding the g1 quad.
  - `txn_concurrent` runs without a bulk load (`MC_NoBatches`). With one batch, it reaches 849k states in about 10 minutes, beyond the run budget. `txn_graph_race` adds one batch holding a second quad of g1 (object o2). The clients never write o2, so the batch is the only writer of that quad.
  - This is the smallest setting in which two transactions overlap on one key, a retry happens, and an insert into g1 meets a `remove_named_graph(g1)` that locks the same two keys.
- **MC_BulkLoader**:
  - batch size 1, 2 threads and display step 2;
  - inputs `<<qd, qg, qd>>` (a duplicate and a named graph) and `<<qd, ParseErr>>`;
  - 1 save failure, and a readable or unreadable taxonomy.
  
  Three batches with a pool of two force a join of the oldest worker. The display step 2 with per-batch counts of 1 makes the counter cross a multiple. The hooks and key-variant runs use one input and no failures, so their traces show only the finding.
- **MC_StoreOpen**:
  - one quad per graph (g1 and the default graph);
  - versions absent, 0, 1 and 2;
  - 2 crashes.
  
  Two crashes reach a crash inside a migration that is re-run and crashes again.
- **MC_StoreValidate**:
  - the same two quads;
  - the store on disk is either coherent or has lost one key of any family, so every count check and every probe can fail;
  - the writer runs every QuadStore operation.
- **TermCodec**: every variant with each field all 0 or all 1, triples of five parts (two IRIs, a float, a typed literal and `true`), and a triple nested as a subject. Each term is followed by nothing or by another term. MC_QuadStore encodes its model values as a nested triple, IRIs, a typed literal and two blank nodes, so stored keys hold terms of different widths.
- **MC_IntervalCodec**: a layered taxonomy of width 4 and depth 4 (52 lines), where every class is a subclass of every class of the layer above, and `Leaf` is under every class of the last layer. This is the smallest file of this shape in which a class has 4^4 = 256 paths. The batch is an `rdf:type` triple of `Leaf` and one subClassOf edge. A deeper chain of diamonds gives the same count, but TLC's evaluation stack does not reach that depth.
- **Deadlock**: `CHECK_DEADLOCK FALSE` is set in StorageTxn because the clients stop after `MaxOps`. It is set in BulkLoader because `load` returns and its threads end. It is set in StoreOpen because opening ends in "opened" or "failed" (a failed open is an error returned to the caller). It is set in IntervalCodec because the worker ends after its ingestion.

### Fairness

- **StorageTxn**: weak fairness on every step of a started operation. It is not assumed on Begin, because the caller decides when to issue an operation. The engine does nothing without a thread to run it, and a lock wait ends by the lock timeout, so a step that stays enabled is taken.
  Under this fairness `OperationsReturn` holds with no retry limit. A livelock would need two transactions that lock two keys in opposite orders. Insert locks the quad's `spog` key and then the graph key, and `remove_named_graph` locks the graph key and then the `spog` keys of the quads in its snapshot. An insert of a quad that is already stored returns FALSE before it locks the graph key (mod.rs 939-943), so that cycle is never formed. The mutant without this early return shows the livelock: the two operations time out and roll each other back forever.

- **BulkLoader**: weak fairness on the main thread and on each worker thread. The OS runs every live thread, and a join returns once its thread has ended. No liveness property is stated: with a finite input and `join` returning, termination follows from the structure of `load`.
- **StoreValidate**: weak fairness on validate's own steps (it runs on the caller's thread), not on the writers and not on Begin.
- **StoreOpen**: no fairness, and it states no liveness.

## Not modelled yet, and the plan

The project has the 12 runs it can have. Further questions are added as properties to the runs above.
1. The bulk loader's own control flow (BulkLoader) and its ingestion racing transactions (StorageTxn's BulkIngest) are separate modules. The race needs only the ingestion step, and the two-module product is far beyond the run budget.
2. IntervalCodec models all three value files of `save_oxiuse_value` (dspo, dpos, dosp) with the same hint. It is only checked by `interval_wrap`. The containment test on hints (spec 8.6) and the spec 8 scenario are not stated, because there is no run left for a passing IntervalCodec configuration.
3. TermCodec abstracts payload bytes. It does not model the UTF-8 check of inline strings, the hashing of long strings, or the number formats inside a literal's bytes.
4. `backup` is one engine call and is not modelled. `io/main.rs` is an example program that does file I/O only, and it has no state that a model could check.

`clear_all_named_graphs`, `clear_all_graphs`, `remove_all_named_graphs` and `clear` are modelled atomically in QuadStore, but not yet as interleaved steps in StorageTxn.
