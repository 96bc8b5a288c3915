# incrededup in TLA+

This directory holds TLA+ models of incrededup, the TLC configurations that
check them on small instances, and TLAPS proofs of most of the safety properties
for instances of any size. Paths below are relative to the root of the
repository.

## 1. The system

incrededup finds near-duplicate documents. A *source* (PostgreSQL, SQLite, a
directory) holds the documents; the column `is_parent` is the queue (NULL), the
verdict "unique or canonical" (true) or "duplicate" (false), and the table
`dupes` names the canonical parent of each duplicate. Local *sidecar* files in
redb format hold everything else: `lsh.redb` (signatures and band buckets),
`matches.redb` (raw duplicate edges and an adjacency index over them),
`state.redb` (the documents Phase 2 has finished with, and the progress of a
standalone sync) and `filtered_parents.redb`.

| Component | Source | State | Operations | Modelled in |
|---|---|---|---|---|
| Pipeline (Phase 1, 3) | `src/dedupe/mod.rs` | batch, seeds, plan | fetch, index, filter, resolve, write rows, mark | `IncrementalRun` |
| Phase 1.5 | `src/cleanup.rs` | – | find large buckets, verify clusters, write edges | `FromIndex`; one step of `IncrementalRun` |
| Cleanup mode | `src/cleanup.rs` 405-560 | – | mark or delete a cluster | `IncrementalRun` |
| Phase 2 engine | `src/disk_dedupe.rs` | shared buffer, error flags, `state.redb` | compare, buffer, flush, resume | `Phase2` |
| Match store | `src/storage/mod.rs` | edges, adjacency index, flag | insert, backfill, look up | `MatchStore`, `EdgeLookup` |
| Daemon, one table or file | `src/main.rs` 320-622 | backoff | count, probe, run, sleep | `Daemon` |
| Daemon, datasets | `src/main.rs` 624-868, `src/db/mod.rs` 178-370 | backoff per dataset, advisory lock | the same per dataset, lock, unlock | `DatasetWorkers` |
| Standalone sync | `src/main.rs` 1288-1826, `src/storage/mod.rs` 759-880 | sync progress | three checkpointed steps | `SyncMode` |
| Index-only mode | `src/main.rs` 872-988 | – | Phase 1.5, Phase 2 over an index | `FromIndex` |
| LSH index | `src/lsh/mod.rs` | signatures, bands, metadata | validate, insert, query, rebuild bands | `LshIndex` |
| Union-find | `src/union_find.rs` | – | join, find the root | `Resolution` |
| Database layer | `src/db/mod.rs`, `src/sources/` | pool | statements on rows and marks | actions of `IncrementalRun` and the daemons |
| MinHash, tokenizer | `src/minhash/` | – | pure functions of text | constants |
| CLI, filesystem source | `src/cli.rs`, `src/sources/filesystem.rs` | – | parsing, reading | no |

How they interact: a daemon pass starts a pipeline run; the run indexes the
unprocessed documents, lets Phase 1.5 set large identical buckets apart, hands
its documents to the Phase 2 engine, which reads `lsh.redb` and writes
`matches.redb` and `state.redb`, and then asks the match store for the edges of
the touched clusters, resolves them with what the database says of them, and
writes rows and marks. All communication goes through files and tables. Only
Phase 2, and the markers of the standalone sync, are multi-threaded. redb locks
a file against a second process; across processes, the workers of a daemon keep
apart with an advisory lock per dataset.

What is hard about it:

* Phase 2 threads share one buffer and flush each other's results; edges and
  acknowledgements live in two files without a common transaction.
* Every document is compared once, by one of two possible documents of possibly
  different runs; skipping has to be right for all of them.
* Phase 3 writes in chunks without a common transaction, reads back what an
  interrupted run has left there, and re-points clusters that a batch joins.
* The queue is a column that users change, too, and is read page by page while
  rows come and the run's own marks go; full runs delete the sidecars and take
  everything, runs without database writes settle nothing.
* Normal and index-only runs use the same sidecars, which may be of an earlier
  version or of another seed.
* The adjacency index is built over a live file and may be interrupted.
* A standalone sync checkpoints its progress and resumes, over lists it computes
  anew from sidecars that may have changed, and over a database that other runs
  may have written to.
* The daemon mixes backoff, health probes and failing queries; with several
  workers a lock decides, whose connection may break.

## 2. The modules

Document UUIDs are numbers, because the code compares UUIDs (which end of a
pair does the comparison, which document wins a cluster). Text and scores are
reduced to what the decisions depend on.

### Phase2, MC_Phase2, PairLedger, Phase2_proofs

`Phase2` is `src/disk_dedupe.rs`. `index`, `matches`, `adjacency`, `processed`
are the files; `pending` is the buffer behind the mutex; `thread[t]` says where
thread `t` is, with the document it compares and the batch it took; `todo` are
the documents no worker has picked yet; `failed` is `phase2_failed` with the
counters and flags that are set along with it. One action is one redb
transaction or one critical section:

| Code | Action |
|---|---|
| the beginning of `run`, full or incremental, resumed | `StartFull`, `StartIncremental` |
| the two deletions of a fresh run | `FreshRemoveMatches`, `FreshRemoveState` |
| a rayon worker's closure | `PickDocument`, then `ReadFails` or `PushMatches` |
| `flush_pending_writes` | `TakePending`, `WriteMatchesBatch`, `MarkProcessedBatch`, `SaveMetadata`, `FlushFails` |
| the end of `run` | `FinalFlush`, `Return` |
| Phase 1 between two runs; the process dies | `IndexDocument`, `Crash` |

`FlushAt` is the 10000 of the code. The comparison of a document with all of its
candidates is one step: the index does not change during a run, and nothing is
shared until the results are pushed. A crash may fall anywhere, also between the
two deletions of a fresh run, which leaves acknowledgements without edges. The
history `stale` holds the documents so acknowledged until they are compared again or
`state.redb` is deleted; a pair is excepted from the properties only if both its
documents are in it. `PairLedger` is the abstract promise: a ledger of recorded
pairs and finished documents in which no pair of two finished documents is ever
missing. `LedgerSpec` states that `Phase2` implements it, with `processed \ stale` as
the finished documents.

### IncrementalRun, Resolution, MC_IncrementalRun, IncrementalRun_proofs, Resolution_proofs

`run_dedupe` and `run_dedupe_with_source`, run after run over a database in which
documents keep arriving. `isParent` and `dupes` are the database; `index`, `matches`
and `filteredParents` the sidecars; the rest is the memory of a run.

| Code | Action |
|---|---|
| the count that begins a run; `--all`, `--fresh`; `--skip-db-write` | `StartRun`, `StartFullRun` with `writes` |
| `clear_sidecar_files` | `ClearIndex`, `ClearMatches`, `ClearFiltered` |
| Phase 1: a page of the source; its transactions | `FetchPage`; `InsertBatch`, `FlushFilteredParents` |
| Phase 1.5 | `DetectPathological` |
| Phase 2 as a whole (its inside is `Phase2`) | `FindDuplicates` |
| what Phase 3 reads and decides; its transactions in order | `Resolve`; `WriteDupes`, `MarkAsChildren`, `MarkAsParents` |
| the return; a death or an error anywhere | `EndRun`; `Interrupt`, which in Phase 2 may leave any of its pairs recorded |
| `--cleanup mark-parent`, `--cleanup delete` | `CleanupMarkParents`, `CleanupDelete` |
| an application inserts; a user puts documents back | `Arrive`, `Reset`, at any time |

`scan` is how far Phase 1 has read the source, in the order of the UUIDs; a document
that arrives behind it waits for the next run. The lists that the code sorts are
cut into chunks from the lowest UUID; the child marks come from a hash set and are
cut in any order. Pathological documents are those of one `Cluster`, once
`ClusterMin` of them are indexed. `whole` serves the properties: it is false between
the first deletion of a full run and the next full run that gets through Phase 2.

`Resolution`, which `SyncMode` shares, gives the union-find by what it computes. The
cluster of a document is the intersection of the edge-closed sets around it; each union
keeps the root with the lesser key, here `(priority, uuid)`, so that the root of a
cluster is its member with the least key.

### MatchStore, MatchStore_proofs, EdgeLookup, MC_EdgeLookup

`matches.redb`: rows with their key format and score, adjacency entries, the
`adjacency_built` flag, and the backfill of `--build-adjacency` in transactions of
`FlushEvery` rows, which may die and start over. `EdgeLookup` adds the two
readers, one row or entry at a time: the scan that repeats passes in key order until
nothing new is reached and then emits in a last pass, and the stack walk over the index
that emits an edge at its lower end. A lookup excludes writers, since its process has
the file open; which node the walk takes from its stack is left open, because the stack
is filled from a hash set.

### SyncMode, MC_SyncMode, SyncMode_proofs

`run_sync_mode`: `progress` is the `SyncProgress` in `state.redb`, `mine` the copy in
memory, `slices` what each marking task has left. `StartSync` opens the sidecars,
resolves them from scratch and decides between a fresh sync and the step to take
up again; `WriteDupes` commits one chunk of rows and `SetSyncProgress` checkpoints;
`FinishDupes`, `MarkBatch`, `MarkerFails`, `JoinAll`, `ReportMarkerError` are the marking
tasks and their end; `Interrupt` is a death or an error anywhere. Before and between
syncs other runs may index documents and record edges (`IndexDocument`, `RecordPair`)
and leave in the database any of the states in `Databases` (`Init`, `OtherRunWrites`): those
of complete runs with other edges or parents, and those of runs that died between
rows, child marks and parent marks, or were followed by a reset. A branch of the code
resumes marking at an offset: it cannot be reached, because the progress of
marking is only saved together with the next step, and is left out, as is
`--dry-run`, which changes nothing. When the sidecars or the database change between an
interruption and the resumption, offsets and steps refer to other lists and rows that
were counted may be gone; nothing is promised then before the next sync that starts
afresh, and the properties say so (`Unchanged`, with the histories `startedOn` and
`disturbed`). `Parents` includes the filtered documents without a look at whether they are
children, as the code does. A sync replaces the row of each child and marks everybody, but does
not delete rows: a document that has become a root keeps the row an incremental
run once gave it, so the properties are about children's rows.
`InOrder` is the sorted list of a set, by what a sort yields.

### DatasetWorkers, MC_DatasetWorkers, DatasetWorkers_proofs

The loop of `--daemon --postgres` over datasets, run by several processes.
`pc[w]` is the place of worker `w` in the loop, `todo[w]` what is left of the list it
fetched, `backoff[w][d]` its entry for the dataset, `batch[w]` the documents its run
has fetched; `holder[d]` is what the server knows of the lock, `guard[w]` whether the
worker's lock connection stands. The steps follow the body of the loop:
`ListDatasets`, `Choose`, `ProbeAfterBackoff`, `Probe`, `TryAcquireLock`, `StartRun`,
`FetchPage`, `FinishRun`, `EndPass`, `Sleep`. The world adds documents, changes health,
breaks a lock connection (`LoseConnection`, which the worker does not notice) and kills a
worker (`Die`). Either way the lock stays with a `Ghost` until the server ends the
session (`ServerNotices`). A run fetches what is unprocessed when it starts, and with
later pages some of what arrives meanwhile, and ends; its inside is `IncrementalRun`. The sidecars of a dataset are in a directory
of its own, so runs over different datasets do not meet there.

### Daemon, MC_Daemon, Daemon_proofs

The loops of `--daemon --postgres` and `--daemon --sqlite`, with `--run-once` and
`--skip-db-write` (`mode`). The world changes freely: documents arrive, the database's
health changes between `ok`, `corrupt` (the search-index error the code recognises),
`failing` and `down`, and a run can or cannot open `lsh.redb`, which another process may
hold or have built with another seed (`index_opens`). Any step may take any time; a
backoff is a number of ticks. The SQLite loop has neither probes nor backoff and dies of an error in its count.

### LshIndex, FromIndex, MC_FromIndex, FromIndex_proofs

`LshIndex` is `lsh.redb`: `signatures`, the buckets in `bands`, and `metadata`, one action
per redb transaction. A signature is a list of values; `BandHash` gives its hash in each
band, and `Jaccard`, in `FromIndex`, how many values two signatures have in common, so that
similar documents need not share a bucket, nor need those that do be similar. One
document has unrelated signatures under two configurations. At first there is no file, or one
of an earlier version: signatures of one configuration without buckets, with or
without metadata.

`FromIndex` extends it with the runs that share `lsh.redb`, `matches.redb` and
`state.redb`. Normal runs of any configuration go through `OpenIndex`,
`BuildLegacyBands`, `IndexDocuments`; `--from-index` takes the index as it is
(`StartIndexOnly`). Both go through Phase 1.5 in full: `FindLargeBuckets`, `Analyze`,
which takes the largest bucket first and chooses overlapping buckets of other bands
in any order, `LinkCluster`, one transaction per cluster, and `DetectionFails`
anywhere in between; and through a Phase 2 that compares and acknowledges one
document per step (`Phase2` has its transactions). `RemoveLsh`, `RemoveMatches` and
`RemoveState` are the deletions of fresh runs, in the place each of the two modes
has them. Each run has a `threshold` of its own, which no file remembers. `Interrupt` is a
death or an error anywhere, without a bound. The history `strictest` serves the property: it
is the highest threshold at which the acknowledged documents may have been compared, or
`Lost` when some of their edges may not be on record, which two things bring about
(see below). Phase 2's size filter and `--max-matches-per-doc`, which is off unless it
is asked for, are left out here; `Phase2` has both.

## 3. What is checked

Bounds are the constants of the `.cfg` files. Where a run has `CHECK_DEADLOCK
FALSE`, the model stops when all documents have arrived and are settled, or when
the bounds on runs by hand are used up.

| Run | Instance | Shows |
|---|---|---|
| `Phase2_chain` | 3 documents, chain of 2 duplicate pairs, one of them with equal lengths; 2 workers, flush at 2; fairness | `TypeOK`, `CheckpointCovers`, `AdjacencyNeverDiverges`, `SuccessIsComplete`, `LedgerSpec`, `RunEnds` |
| `Phase2_star_capped` | 4 documents, star of 3 pairs of two strengths, cap 1 | `CheckpointCovers` and `SuccessIsComplete` with the allowance for a cap |
| `IncrementalRun_bridge` | 4 documents, two clusters and the pair that joins them, chunks of 1, two faults; fairness | `TypeOK`, `OneCanonicalParent` while there are no faults, `RetryRestoresParent` up to the first, `SettledPairsRecorded`, `ChildHasRow`, `NoClusterDemoted`, `EveryDocumentSettled` with both |
| `IncrementalRun_modes` | 3 documents that are pathological once all are indexed and a filtered one, chunks of 2; one fault, one reset, one cleanup, two runs by hand of any kind | `OneCanonicalParent`, `SettledPairsRecorded`, `RetryRestoresParent`, `NoClusterDemoted` |
| `EdgeLookup_old_file` | 4 documents; an old chain with rows of both key formats and a self-edge; a new cycle, a reversed edge, better scores, an edge in both formats; fairness | `TypeOK`, `IndexTracksTable`, `LookupsAgree` and `LookupEnds` for every seed set |
| `SyncMode_resumes` | a chain of 4 documents, one of them filtered, and a self-edge of an old file; 11 states of the database, at first and between syncs; 2 tasks, rows one by one, a checkpoint every 2; two faults | `TypeOK`, `CheckpointNeverAhead`, `CompletedSyncIsExact`, `DemotedForParent` |
| `DatasetWorkers_share` | 2 workers, 2 datasets that share one of 2 documents; outages, one damaged or failing dataset; one broken connection or dead worker, noticed late; fairness | `TypeOK`, `RunsAlone`, `NoLockLeaked`, `WorkedOff` |
| `Daemon_polls` | every mode, backoff of 4 ticks, all four health conditions, an index file that can be opened or not; fairness | `BackoffRespected`, `ResumesAfterRepair`, `RunOnceEnds` |
| `FromIndex_shared_files` | 4 documents, 3 bands of 2 values, 2 seeds, thresholds of 3 and 4 equal values out of 6; 3 documents that share 2 buckets are a cluster; any file at first, any number of runs and faults | `TypeOK`, `OneConfiguration`, `BucketsExact`, `ClustersAgree`, `IndexOnlyRunIsExhaustive` |

Why the bounds are enough: two workers suffice for a flush that overlaps another
worker's push, a batch taken by somebody else, and a race for an empty buffer; a
batch size of 2 puts a flush in the middle and at the end of a run. Three
documents in a chain give pairs within one run, pairs across runs in either order
of UUIDs, and a document with two duplicates. Four documents give two clusters and
a bridge in every order of arrival and every split into batches. Chunks of one row
give an interruption point after every single write. Two faults are what it takes
to interrupt the retry of an interrupted run. Two runs by hand are a full run that
is interrupted and its repetition, or a run without database writes and a full one
after it. In a sync, two faults are a task that fails and a death, or the death of a
resumed sync; a list that is longer than a checkpoint interval has a remainder. Two
workers with overlapping datasets put every step of one between any two of the
other's; a third would have to wait for the same lock. In `FromIndex_shared_files`
the fourth document is in a large bucket of the cluster without agreeing in a second
one, which is what verification is for; it is similar to one member of the cluster at
both thresholds and to the others at the lower one only; under the second seed some
documents meet without being similar and some are similar without meeting. An
overlap of 70 percent stands for the 90 of the code, with buckets of 3 and 4 where
the code has 1000; only one choice of covering buckets arises here, so that the order
in which they are looked at is left to the theorem. In `SyncMode_resumes` the 11 states of
the database are nothing; the whole cluster, settled under each of its four documents;
its rows alone; its rows and child marks; two clusters; and a pair with a document
that is not settled. `OneCanonicalParent` and `RetryRestoresParent` are about regular
documents, or about pathological ones, but not both (`OneKind`): see the next section.

### Where the code differs from what it says

These runs are expected to fail; each checks one statement of the repository.

| Run | Statement | What happens |
|---|---|---|
| `IncrementalRun_two_faults` | `README.md:148` | two runs that die between child marks and parent marks leave a settled cluster without a canonical parent: the second demotes the document that the first chose as root |
| `IncrementalRun_pathological` | `tests/sync_tests.rs:10` | in a mixed batch all pathological documents become parents: Phase 3 is not seeded with them |
| `IncrementalRun_cleanup` | `src/cleanup.rs:520` | `--cleanup delete` keeps the lowest UUID of the cluster and may delete the canonical parent; the rest stays marked as its duplicates |

`IncrementalRun_pathological` uses a cluster of two, and `IncrementalRun_cleanup` one of
three, where the code needs a bucket of 1000 documents. On the second one the comments
disagree: `src/dedupe/mod.rs:1208` says that pathological clusters are detected before Phase 2
to "mark them as canonical parents to skip".

### Met on the way

These have no run of their own; where a property has to allow for one of them, its
comment or premise says so.

About the database:

* A document that becomes the root in the retry of an interrupted run keeps the row
  that the interrupted run gave it (nothing in `perform_incremental_sync_streaming`
  deletes a root's own row), so that it is both canonical and listed as a duplicate.
  The reset of a canonical parent can lead to mutual rows in the same way.
* A reset and a death between child marks and parent marks add up as two deaths do.
  A parent that is put back while a run is demoting others for it leaves its cluster
  without a parent until the next run.
* When pathological and regular documents meet, edges can be left unresolved: a
  pathological document is not compared with regular ones of earlier batches, pairs
  across two pathological clusters are not looked for, what Phase 1.5 has joined a
  later full run whose detection fails may separate, and a full run without database
  writes may record edges between settled clusters, which keep a parent each until
  one of them is touched again.
* `--cleanup mark-parent` writes no edges: the documents it settles are compared with
  later ones only.
* An edited document keeps its old signature until a `--fresh` run.

About the sidecars:

* A fresh start that dies between deleting `matches.redb` and `state.redb`
  (`src/disk_dedupe.rs:1032`) leaves documents acknowledged whose edges are gone, and an
  index-only run that resumes trusts the acknowledgement. `Phase2` contains this crash;
  `CheckpointCovers` bounds what is lost by it to pairs of two such documents.
* An acknowledgement does not tell the threshold of its comparison: what only a lower
  `--threshold` finds is not looked for in documents that are acknowledged.
* After an interrupted `--fresh` run an incremental run has no history to compare with:
  it settles documents whose pairs with earlier ones are missed until a full run.
* `--from-index --fresh` deletes the edges that its own Phase 1.5 has just recorded, and
  Phase 2 does not look for them again.
* `--from-index` opens an index without looking at its metadata or building the buckets
  of an early version: over such a file it finds nothing and acknowledges everything.
* An index that is still empty is refused if its metadata name another seed.
* Of an edge that the file of an early version has under its old key and got again
  under the new one, a scan gives both rows and the index one, contrary to what
  `tests/edge_lookup_equivalence_tests.rs:12` says of any store. The clusters are the same;
  `LookupsAgree` makes the exception, and `EdgeLookup_old_file` meets it.

About the loops: with `--run-once` a failed count, or a failing probe, goes back to the
head of the loop without a look at the option (`src/main.rs:551`), a probe even without
a pause, so that the single pass that `src/cli.rs:136` promises may be repeated until
the database recovers. The SQLite daemon ends with the error of a failed count
(`src/main.rs:348`), where the PostgreSQL loops sleep and go on.

And two statements are out of date. `tests/sync_tests.rs:17` says that previously synced
documents are not written again: a batch that joins two settled clusters re-points the
children of one of them and demotes its parent, which the unit tests of
`src/dedupe/mod.rs` assert and `OneCanonicalParent` needs. And `docs/comparison.md:22` says that the smallest UUID
of a cluster becomes the canonical parent. That holds of a resolution from scratch;
an incremental run keeps an existing canonical parent (`Priority` in `IncrementalRun`),
which a test in `src/dedupe/mod.rs` asserts and `NoClusterDemoted` relies on.

### Fairness

* `Phase2!Fairness`: weak fairness per thread. The operating system schedules the
  threads of the pool and the main thread; nothing else is assumed, in particular
  not that a flush succeeds or that a run is ever started. The second deletion of
  a fresh run is in sequential code and follows the first unless the process dies.
* `IncrementalRun!FairSpec`: weak fairness of `Run` as a whole. The pipeline is
  sequential, and the daemon polls for ever. `MaxFaults` is what keeps runs from
  dying for ever; if every run died in Phase 1, no document would ever be settled.
  Runs by hand, arrivals, resets and cleanups are never assumed to happen.
* `DatasetWorkers!FairSpec`: weak fairness of each worker's loop, which is never
  stopped, of each backoff's end, and of the server, whose keep-alive ends the session of
  a broken connection some time. A dead worker is started again. Repairs are the
  premise of `WorkedOff`; nothing is assumed about who gets a lock.
* `EdgeLookup!FairLookupSpec`: a lookup that has begun goes on; it waits for nothing.
* `Daemon!FairSpec`: the loop goes on and time passes. Repairs are not assumed;
  they are the premise of `ResumesAfterRepair` and `RunOnceEnds`, and the former also
  supposes that `lsh.redb` can be opened in the end.

## 4. What is proved

`Phase2_proofs` proves for all documents, similarities, lengths, thresholds, any
number of workers, any flush size and any cap:

| Theorem | States | Further assumptions |
|---|---|---|
| `TypeCorrect` | `[]TypeOK` | |
| `AdjacencyIsExact` | `[]AdjacencyNeverDiverges` | |
| `CheckpointIsCovered` | `[]CheckpointCovers` | |
| `SuccessfulRunIsComplete` | `SuccessIsComplete` | |
| `ImplementsLedger` | `LedgerSpec` | no cap |

`CheckpointCovers` is not inductive: the pair of two acknowledged documents was
compared earlier, by one of them, and its edge travelled through a buffer and a
batch. The inductive invariant `IInv` adds

* `Quiet`: threads have a document, or a batch, only at the right point of the
  closure, and only during a run;
* `Confined`: the ids in files, buffers and batches are indexed documents;
* `Backed`: what a buffer or a batch is about to acknowledge has been compared,
  with its edges in the same buffer or batch or in the file;
* `Apart`: no document of a run is in `stale`, and while a fresh run is between its
  deletions all acknowledged documents are;
* `Finite`: the index is finite and no edge leaves it, so that edges can be counted;
* `CheckpointCovers` itself: the pairs among acknowledged documents are on record.

The step that needs thought is the asymmetric skip: if both ends of a pair are in
the run, the lower one has compared it, else the one in the run has, and it found
the other one in the index, because the index does not change during a run.

With `max_matches_per_doc` an edge may be left out, but only for a document that has
its full number of edges, none of them weaker (`OnRecord`). `CapKeepsEnough` says
that the truncation leaves so many: of the edges ahead of the one left out that are
left out themselves, take the one with the fewest ahead of it; all of those are kept,
and they are as many as the cap. `OnRecordMonotone` says that the file only gains edges.

`SuccessfulRunIsComplete` adds `Accounted`: without a failure every document of
the run is to do, under comparison, in the buffer, in a batch or acknowledged.
`ImplementsLedger` adds `Genuine`, every edge anywhere is a duplicate pair, and
maps the two transactions of a flush to the steps `Record` and `Settle`, the start
of an incremental run to `Reopen`, the first deletion of a fresh run to `Discard`,
and everything else to stuttering.

`DatasetWorkers_proofs` proves for any number of workers, datasets, documents and
broken connections:

| Theorem | States |
|---|---|
| `WorkersTyped` | `[]TypeOK` |
| `MutualExclusion` | `[]RunsAlone` |
| `LocksAreReleased` | `[]NoLockLeaked` |

The inductive invariant `LockInv` is `TypeOK`, `NoLockLeaked` and `HeldWhileConnected`: a
worker whose lock connection stands holds the lock of the dataset it is at. Mutual
exclusion follows, since two such workers at one dataset would both hold its lock.
Only that `Datasets` is finite is assumed, beside the types of the constants.

`MatchStore_proofs` proves for any old file, any batches and any `FlushEvery`:

| Theorem | States |
|---|---|
| `StoreTyped` | `[]TypeOK`: one row per key, one entry per slot |
| `IndexIsFaithful` | `[]IndexTracksTable` |
| `LookupsAreEquivalent` | `[]LookupsAgree`, under `LookupSpec` |

`StoreInv` adds `Progressing`: a backfill in progress has indexed all rows it has
passed. The step that needs thought is a transaction of the backfill: of two rows
for one edge, in the old and the new key format, only the first is written, and it
stands for the other; and an insertion replaces the entries of the rows it
replaces, because a row only gives way to one of the same edge.

`LookupInv` says what a lookup has established halfway: what it knows is within the
clusters of its seeds; a pass that ends without news has gone over a closed set
(`Scanning`), and the last pass has emitted the rows it has passed (`Emitting`); the walk
knows the other ends of the entries it has passed, and has emitted their edges where
they are at the lower end (`Walking`). A closed set around the seeds within their
clusters is their clusters (`ClosedIsReached`), and `IndexTracksTable` makes the walk's set
closed. An edge has one slot at its lower end, so that the walk cannot emit it twice
(`EmittedOnce`). `LookupsAreReadOnly` carries the first two theorems over to
`LookupSpec`. That lookups end is left to TLC.

What the properties of Phase 2 except is real: a torn fresh start does leave pairs of
two `stale` documents uncovered, and the ledger promises every pair, which a run with a
cap does not record.

`IncrementalRun_proofs` proves for any documents and pairs, any chunk sizes and any number of faults, runs by hand, resets and cleanups:

| Theorem | States |
|---|---|
| `RunsTyped` | `[]TypeOK`, with one row per child |
| `RowsBeforeMarks` | `[]ChildHasRow` |
| `ParentsLeaveHeirs` | `NoClusterDemoted` |
| `NoPairLost` | `[]SettledPairsRecorded` |
| `OneParentPerCluster` | `[]OneCanonicalParent` |
| `OneFaultIsRepaired` | `[]RetryRestoresParent` |

The first three rest on `RunInv`, which is `TypeOK`, `ChildHasRow` and

* `Tidy`: plans and scans are empty outside their phases;
* `PlanFits`: a child gets one row, and has its row, written or planned, before its
  mark;
* `HeirsKept`: a parent that is about to be demoted has, in its cluster, another one
  that is not, or that a user has put back.

`HeirsKept` holds of a new plan because the root of a cluster is unique (lemmas of
`Resolution_proofs`: an edge-closed set, and so the cluster of each of its members, is the
same whichever member one starts from; a finite cluster has a least key) and
precedes every other parent; a step that writes changes the marks of planned
children only, and `matches` is fixed while a plan exists.

The others are harder, since a document's history is recorded nowhere: one
that was settled, compared and put back by a user looks like a new one. `RunsInv`
therefore says that there is a set `W` of documents that contains all that were
ever settled or resolved, such that

* `Knows`: settled documents, rows, plans and, in Phase 3, the batch are within `W`;
* `BatchIsWhole`: what the sidecars have seen but `W` does not contain is in the
  batch as soon as the scan has passed it, and so is everything in a full run;
* `PairsOf`: unless `whole` is false, pairs within `W`, and from the end of Phase 2
  on with the batch, are on record, and in Phase 2 a pair of the batch that is not
  on record has an end among the seeds.

Each action comes with the `W` of its successor: the resolution adds the batch to it,
the parents of filtered batches and of `--cleanup` are added as they are written, a
full run that starts over keeps it, and the end of Phase 2 in a full run makes the
property hold of all of it at once. `PastIsPrefix` (the scan has read a prefix of the
UUIDs) is what makes documents that arrive behind the cursor harmless.

The last two theorems are about clusters whose edges may have been deleted, and put
back only in part, since they were resolved. The invariant states them of
`ClusterAmong`, the clusters of the duplicates within `W`, and compares with the
sidecars only where all of `W` is on record (`ClustersAgree`):

* `SomeoneLeads`: after one fault or reset at most, a cluster all of which is settled,
  or will be once the plan is written, has a parent in place or planned;
* `AllCanonical`: without faults, everybody else in it is, or will be, its child by mark
  and row and in nobody else's; and without resets all of `W` is settled or planned;
* `Routine`: what makes resolutions comparable. Filtered documents have no rows, only
  full runs delete sidecars, without faults they are incomplete only inside a full run, and
  where documents are of one kind edges are between duplicates.

The resolution is the step that matters. It turns to whole clusters: one that it does
not touch keeps its parent, because it has no document of the batch; one that it
touches gets the root, which is promoted if it is not a parent, and each other
document is re-pointed to it. A document that is in the way, a root with a row, exists
only after a fault or a reset: a document with a row is in a cluster with another
parent, which precedes it. If the run dies after it has written some of the marks,
the root that was planned is the one the next run chooses, or an earlier parent
stands. A second fault is really excluded: `IncrementalRun_two_faults` shows what it
does.

`FromIndex_proofs` proves for any documents, signatures, band hashes, symmetric similarity,
configurations and thresholds, and any number of runs and interruptions:

| Theorem | States |
|---|---|
| `RunsTyped` | `[]TypeOK` |
| `NeverMixed` | `[]OneConfiguration` |
| `BucketsComplete` | `[]BucketsExact` |
| `ClustersVerified` | `[]ClustersAgree` |
| `IndexOnlyRunsAreExhaustive` | `[]IndexOnlyRunIsExhaustive` |

For the first four, the invariant says what the stages of a run have established
(`Stages`): past validation the metadata are those of the run, whoever inserts
documents has complete buckets, and no cluster outlives a deletion of the index. The documents that are in all of `MinBands`
exact buckets of different bands agree in these bands, and signatures do not change
while a cluster is in use.

The last one needs `RecordInv` on top, which follows pairs from run to run:

* `AcknowledgedOnRecord`: unless `strictest` is `Lost`, `state.redb` acknowledges indexed
  documents only, and those of them that meet and are similar at `strictest` are on record;
* `ComparedOnRecord`: in Phase 2 the acknowledged documents of the run are those it
  has compared, each of them is on record with all that it does not leave to a
  later comparison, and in an index-only run every document outside the run is set
  apart or acknowledged;
* `ClustersOnRecord`: where documents are set apart, their clusters are linked,
  unless a fresh run deletes the edges.

The step that needs thought is a comparison: a document that is acknowledged already
is outside the run, so that the pair is compared now, or it is the lower one of two
in the run and has done it before; similarity is symmetric, so that it does not matter
which. That documents with a band hash in common are candidates of each other is
`BucketsExact`, and what is owed at a threshold is owed at all lower ones.

`SyncMode_proofs` proves for any finite set of documents, any edges and any database to
begin with, any number of tasks and faults, and any sizes of batches, transactions
and intervals:

| Theorem | States |
|---|---|
| `SyncTyped` | `[]TypeOK`, with one row per child |
| `CheckpointsAreCovered` | `[]CheckpointNeverAhead` |
| `CompletedIsExact` | `[]CompletedSyncIsExact` |
| `ChildrenFollowParents` | `DemotedForParent` |

The inductive invariant `SyncInv` is `TypeOK` and

* `Stages`: memory and `state.redb` are at the same step, or the sync has not come to
  its first checkpoint; tasks have something to do in the marking steps only;
* `Grown`: the sidecars have grown since the sync in `state.redb` started. They cannot
  become again what they were, and this, with `disturbed` for the database, is why a promise
  that has lapsed stays so;
* `RowsWritten`: the rows that `state.redb` or memory counts are in `dupes`. A later
  transaction replaces the rows of its children only, by the same rows;
* `TasksShare`: what is not marked yet is in the list of some task, unless one has
  given up, and no task has anything else in its list;
* `MarksWritten`: past the marking of parents, all parents are marked, and at the end
  all children.

It rests on lemmas about the lists: a finite set of numbers has a sorted list, which
holds each of them once (`ListInOrder`); the tasks get all of a list between them,
whatever its length (`SlicesCover`); a batch and the rest make up a share
(`CutSequence`); and the root of a cluster is nobody's child (`RootIsParent`).

`Daemon_proofs` proves `BackoffIsRespected`, `[]BackoffRespected`, for any backoff and any
weather.

Every theorem rests only on the named assumptions about constants in the modules
they are about, which TLC evaluates on each run.

Only model-checked: the liveness properties (`RunEnds`, `EveryDocumentSettled`,
`WorkedOff`, `ResumesAfterRepair`, `RunOnceEnds`, `LookupEnds`: temporal proofs with
fairness are out of the prover's reach).

## 5. Not modelled

* Text processing: tokenizer, MinHash computation, boilerplate patterns. They are
  pure; the models take similarity, or the band hashes, as constants.
* The filesystem source, command-line parsing, URL, identifier and table validation,
  scopes: no protocol state depends on them.
* Statistics, progress bars, logs, memory release. The statistics in
  `Phase2Metadata` are written and printed but decide nothing.
* In Phase 1.5 the limit of 10000 large buckets; in `FromIndex` the size filter of
  Phase 2, and there and in `IncrementalRun` `--max-matches-per-doc`, which is off by
  default (`Phase2` has both); in `IncrementalRun` runs of different thresholds
  (`FromIndex` has them).
* A `--cleanup` that overlaps Phase 3 of a run, which has given `lsh.redb` back before
  Phase 2 (`src/dedupe/mod.rs:1278`): the run would write marks for documents that the
  cleanup has marked or deleted meanwhile. `Cleanup` of `IncrementalRun` comes between runs.
* The report action of `--cleanup`, `--dry-run` and the statistics mode, which change
  nothing.
* The in-memory LSH index and `load_into_memory`, which no mode of the program uses;
  `IndexBuilder`, a library interface, which does not build the buckets of an index
  from an early version as the program does.
* What two runs do to a document that belongs to two datasets. `DatasetWorkers` has
  such documents and `IncrementalRun` has such a run, but their product is beyond
  what TLC explores with instances in which anything happens, and nothing in the
  repository says how such a document should end.
