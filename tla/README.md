# Vsector: TLA+ verification project

Vsector is a vector database written in Python (`src/vsector`). Its promise is
"nothing is fabricated" (`src/docs/architecture.rst:9`): no acknowledged write is
lost, no owner moves except at an explicit boundary, no restart invents success.
This directory models the parts that carry that promise, model-checks them with
TLC on small instances and proves the safety properties with TLAPS for all
instances.

## 1. Inventory

| Component | State | Operations | What is hard | What makes it correct |
|---|---|---|---|---|
| Shard migration (`sharding/migration.py`) | migration records: state, source, target, captured version, digests, finalized | create, prepare, start_copy, verify, commit, cancel, fail | a crash between two durable writes of one step; staleness against other owners of the record | one open migration per shard; ownership moves once, only after verification; a stale migration never commits |
| Shard transfer (`sharding/transfer.py`) | WAL and SSTables under each node's root | export, import, verify, finalize_source, discard_target | half-done imports and removals | the target has what the source had; the owner's data is never removed |
| Shard lifecycle (`sharding/lifecycle.py`, `shard.py`) | shard records: state, owner, replicas, version | create, activate, begin_drain, retire, change_owner | runs between the steps of a migration | owner never among its replicas; owner changes only while DRAINING |
| Cluster membership (`cluster/`) | member states | register, activate, begin_drain, remove, bootstrap | members leave while migrations are open | owners and replicas written at a commit are members |
| Registry (`sharding/etcd.py`) | three dicts and one JSON file | put, delete, persist, load | swallowed write errors, torn file | what an operation returned is durable |
| Write-ahead log (`storage/wal.py`) | buffer, segment files, group-commit thread | append, flush, group commit, rotate, close, read_all | two threads on one file object, restarts, torn tails | acknowledged entries are durable, read back once, in append order |
| Segment store, recovery (`storage/segment.py`, `recovery.py`) | MemTable, SSTables | put, flush, tier, recover | which copy of a record is the newest | recovery returns the last acknowledged state |
| Ingest (`ingest/service.py`) | shard contexts, idempotency map | upsert, delete, fetch | failures between WAL, index and replicas; retries | an answer tells what happened |
| Replication (`sharding/replication.py`) | replica contexts, health | deliver, record, health | partial failures, repeated delivery | replicas that acknowledged agree with the primary |
| Router, placement (`sharding/router.py`, `hash_ring.py`, `placement.py`) | TTL cache, HRW ring | route, decide, split | stale cache, membership changes | writes reach only the ACTIVE owner; minimal movement |
| Namespaces, startup (`api/rest.py`, `storage/metadata.py`) | namespaces, readiness | create, delete, hydrate | a crash between shards of a namespace | shard identity survives restarts |
| Query, cache (`query/`, `infra/cache.py`) | L1 and L2 entries | get, set, invalidate | fill racing invalidation | no answer older than the TTL allows |
| Index lifecycle (`index/lifecycle.py`), backends | state, counters, graphs | notify, compact, add, delete | rebuild while serving | every live record indexed once |
| Gateway (`gateway/`) | rate-limit windows, roles | allow, check | window edges | at most the limit per window |
| Gossip, coordinator, multi-region, bulk, events, S3, CDN, clients | small tables or none | – | – | not on the write or read path, or pure I/O |

All services run on one asyncio event loop, and the managers never `await`: their
operations do not interleave with each other. What interleaves is the death of
the process with the steps of an operation, client requests with the steps of a
migration, the searches of a query with everything else on the loop, other nodes
with a router that shares their registry, and the group-commit threads of the WALs
with everything.
`PROJECT.json` lists the hazards line by line.

## 2. Modules

| Module | Models |
|---|---|
| `ShardMigration` | migration, transfer, lifecycle, membership and registry, over the content of every shard on every node |
| `WAL` | the write-ahead log of one shard and its two writing threads |
| `ShardContext` | the storage of one shard on one node: log, MemTable, SSTables, tombstones, index, recovery |
| `Ingest` | upserts and deletes on a primary and its replicas, over `ShardContext` |
| `ClientStore` | the abstract store that `Ingest` implements |
| `Startup` | the two JSON files, namespaces, shards and the local node from start to restart |
| `Router` | the shard router over a registry that other nodes change |
| `QueryPath` | queries, the two-tier cache, invalidation and the rate limiter |
| `MCShardMigration`, `MCWAL`, `MCIngest`, `MCStartup`, `MCRouter`, `MCQueryPath` | their TLC instances (symmetry, and the constants a configuration cannot write) |
| `ShardMigrationProofs`, `WALProofs`, `IngestProofs`, `StartupProofs`, `RouterProofs`, `QueryPathProofs` | theorems about the module of that name and their TLAPS proofs |
| `ShardContextProofs` | lemmas on the operations of `ShardContext`, for `IngestProofs` |
| `OrderLemmas` | least and greatest naturals, from the well-foundedness of `<` |

The modules meet at these places. `Ingest` takes `WAL.flush` to do what it says;
`WAL` shows how far that is true. `ShardMigration` takes the content of a shard
under a root as what `recover` derives, which `ShardContext` defines. `Router`
takes the transitions of shards and members from the lifecycle that
`ShardMigration` has in full. Definitions named with the comment "Mutant" are
plausible mistakes in the code; no specification uses them.

### ShardMigration

`shards`, `nodes` and `migs` are the dicts of `InMemoryEtcd`; `disk` is the JSON
file. `Persist`, the last conjunct of every action that calls `put*`, writes the
whole store to `disk`, or nothing when `persist_fail` is in `Env` (`_persist`
swallows the exception). `data[n][s]` is what `recover` derives from the WAL and
the SSTables of shard `s` under the root of node `n`: per record a value, a
tombstone or nothing. A digest is that content itself, so digests are taken to be
free of collisions. It is assumed that the transfer provider maps the owner of a
shard to the root the owner's ingest service writes to, as
the tests configure it (`node_base_dirs`).

Every operation that writes something durable more than once is cut at these
writes, and `op` holds the place:

| Code | Actions |
|---|---|
| `create_migration`, `prepare`, `fail` | `CreateMigration`, `Prepare`, `ForceFail` |
| `_assert_source_valid` raising | `StaleFails` |
| `start_copy` | `StartCopy`, `ImportBegins`, `ImportEnds`, `CheckCopy` / `CopyFails` |
| `verify` | `Verify`, `VerifyEnds` / `VerifyFails` / `VerifyRaises` |
| `commit` | `Commit`, `CommitOwnership` / `CommitRollsBack`, `FinalizeSource`, `CommitEnds` |
| `cancel` | `CancelDiscards`, `CancelEnds` |
| `activate`, `begin_drain`, `retire`; `change_owner`; `create`; namespace deletion | `TransitionShard`; `ChangeOwner`; `CreateShard`; `DropShard` |
| `register`, `activate`, `begin_drain`, `remove` of members | `TransitionNode` |
| `IngestService.upsert`, `delete` | `Upsert`, `Delete` |
| restart | `CrashRestart` (`_load`) |

`Env` selects the callers and faults of an instance; the comment on
`Environment` explains each. `ImportBegins` is the reset of the target and the
export, either of which may stop half way. `Tamper` stands for changes of files under the root
an open migration copies to, the case the second digest in `verify_shard` is
written for. `moved` and `stale` are history: the migrations that moved the owner,
and the open ones whose shard record somebody else changed. They are stored and
loaded with the registry, so that a commit a crash undid does not count.

### WAL

`buffer`, `seg` and `file`/`open` are `_buffer`, `_segment_id` and
`_segment_file`; `fbuf` is Python's buffer inside the file object, `files` the
segment files. The two threads, the event loop in `flush()` and the group-commit
thread, run `_flush_batch` with the program counter `pc`: `Rotate`,
`OpenSegment`, `Write`, `FlushFile`, and `WriteRaises` on a closed file. Only
`TakeBuffer` is under the lock. `_segment_written` is updated by both threads
without the lock and entries have any size, so a segment may be full before any
entry: rotation is a free choice as long as the segment is not empty.
`OpenSegment` picks any id between the one this thread set and the present one,
which covers both places where the other thread may raise it. A crash is the
death of the process: files keep what they were handed, a prefix of `fbuf` may
have been spilled, and the entry where it stopped is `Torn`. `ReadAll` is what
`read_all` returns: every segment up to its first torn entry, behind which the
framing is lost; `Written` is all that was written. `acked`, `appended`, `lost`
and `late` (the entries appended when some segment had a torn tail) are history. The model is that of a buffered file; where `O_DIRECT` opens succeed, each
write goes to the file at once, which is the case of a spill after every entry.

### ShardContext and Ingest

A context is a record: `wal` (the last entry per id on disk, all that recovery
looks at), `buf` (what `append` buffered since the last flush), `mem` (MemTable),
`sst` and `copies` (the newest SSTable copy per id, and the metadata of all
copies, which `scan_all` visits), `part` and `partMds` (the same for files whose
write was cut off: this process does not have them open, the next start loads
them), `tomb`, and `idx` (the newest index label of an
id and whether older labels are left). `Upserted`, `Deleted`, `ReplicaUpserted`,
`ReplicaDeleted` and `Reopened` are the writes of `ShardContext` in
`ingest/service.py` and its recovery, with the flush of a full MemTable inside
the write that fills it. A checksum is the vector it is made of: two records of
one vector and different metadata are `Alike`, for recovery and for a replica,
exactly as in the code.

`Ingest` cuts a request where another part of the system can see a difference:

| Code | Actions |
|---|---|
| `IngestService.upsert`, `delete` by ids or by filter | `BeginUpsert`, `BeginDelete`, `BeginFilter`; one `Upsert` or `Delete` per record |
| an SSTable whose write fails, with nothing, some lines or half a line in the file | `UpsertFlushFails` |
| `_deliver` to the next replica | `Deliver` (`Scored`: the acknowledgements of the record; `RecordNode`: the health view) |
| the flush at the end, `aggregate_replication` | `Finish` |
| `fail_node`, `heal_node` | `FailNode`, `HealNode` |
| the process dies, perhaps inside the write of an SSTable | `CrashRestart`, `CrashInFlush` |

A crash leaves any prefix of the buffered log: the group-commit thread may have
written it. What a cut-off SSTable holds is any part of the MemTable's lines
(`CutOff`), and half a line makes it `torn`: `scan` raises there, so every later
start raises for the shard (`raised`) and every request to it is refused.
`missed` is history, per replica the ids whose last write it may lack; `skipped`,
the ids whose last write it acknowledged without storing it (`Skips`); `intact`
says that no MemTable flush of this process failed.

`ClientStore` is the promise: a store and the writes of the one open request.
`StoreAnswer` makes all of them durable, `StoreCrash` any of them. Only a write
may make the store `Unreadable`, and then it stays so.
`ImplementsClientStore` is the refinement, with

    store <- IF torn THEN Unreadable ELSE Recovered(ctx[Primary])
    open  <- the open request's writes

so what is shown is about the files, not about memory.

### Startup

`meta` and `shards`/`node` are the two stores in memory, `metaFile` and
`etcdFile` their files, `dirty` the file a change is about to be written to. Each
`put` is a change of memory followed by `Persist`; a crash in between leaves the
old file, the new one or, with `torn`, one that the loaders take for empty.
`Load`, `BootstrapLocalNode`, `HydrateNamespace` with the loop of
`_ensure_namespace_shards` (`EnsureBegins`, `CreateShard`, `ActivateShard`,
`EnsureReturns`, `CreateShardRaises`) and `RunStartupRecovery` are the import of
`api/rest.py`; `CreateNamespace` and `DeleteNamespace` (`DeleteShard`,
`DeleteMetadata`) the handlers; `TransitionShard` and `TransitionNode` what
operators do in between. `boot`, `interrupted` and `lostMeta` are history.

### Router

One namespace. `Init` chooses the kind of registry: `InMemoryEtcd`, whose shard
objects are shared with the cached list, or `Etcd3Store`, which hands out copies
and which other nodes change in the middle of a lookup (`copies`); whether the
router has a membership to ask (`wired`); and the rendezvous weights, any
injective function (`score`), so that what is shown holds for any hash without
ties. A lookup is `Lookup`, `ListShards`, `StoreList`, `SyncHash` (the cached
hash, rebuilt if its ids are not those of the list), `Select`, then `Return` or
`Write`; an empty list ends it with `NoShards`; `Write` goes on to `BeginLocalSplit`, `PutChild`, `RetireParent` when
the shard is full. `Gossip` handles puts; deletions carry no value and are
dropped, as in `gossip.py`. `RouteOK`, `RouteWriteOK`, `WritableOK` and `Decision`
are the routes and decisions of `router.py` and `placement.py`; `shard_placement`
only describes and is left out. `since` is history.

`RoutesAreCurrent` compares each of them with the registry and not with each
other, because they differ: without a membership, `route` returns a shard that has
no owner while the decision says UNAVAILABLE, and `writable` never asks the
membership, although `router.py:18-20` puts it behind the same gate.

### QueryPath

One namespace and one cached query. `Begin` is `QueryEngine.query` up to its
fan-out, `SearchShard` the task of one shard, `Finish` and `TimesOut` the rest,
which caches the answer. `GetQuery`, `SetQuery` and `InvalidateNamespace` are
`TieredCache`; `up` is whether Redis answers that call, since the code goes on
without it. `Upsert` is the one write that invalidates, `QuietWrite` stands for
those that do not (delete, metadata patch, gRPC). `Admit` and `Reject` are the
sliding window of the rate limiter. `Tick` waits for no query: `wait_for` cannot
interrupt `search_shard`, which never awaits, and merging, re-ranking and caching
come after it. `accepted`, `must` and `tainted` are history, and so is `timedout`
in an answer.

## 3. Runs

Instances are small because ids, nodes and migrations only matter by identity.

| Run | Instance | Shows |
|---|---|---|
| `migration_faults` | 1 shard, 2 nodes, 2 migrations, version at most 4 | types, one open migration, the primary outside its replicas and the ownership boundary under crashes, swallowed persists, failing transfers and cleanups together |
| `migration_three_nodes` | 3 nodes, 1 migration, version at most 3 | the same boundary while members come and go and the shard is dropped and created again; digests are recorded and equal at every commit, even when files of the target change |
| `migration_contents` | 2 nodes, 2 migrations, version at most 6 | with writers and crashes: stale migrations never commit, a shard DRAINING at its commit loses nothing, managers never touch the owner's data |
| `migration_no_crash` | as before, with `cancel` and without crashes | failed migrations never moved, and the target has the verified content when ownership moves |
| `wal_restarts` | 3 entries, 3 segments | over rotations, exceptions, close and crashes: no entry is logged twice, nothing readable is lost, `read_all` returns every acknowledged entry but those still in a buffer, dropped by a crash or a closed file, or appended after a tear; every appended entry reaches the log unless a crash or a closed file dropped it or ended the thread (liveness) |
| `ingest_storage` | 2 ids, 2 records, MemTable of 2, batches of 3, one failing flush per process, no replica | the refinement of `ClientStore`, with SSTables cut off anywhere; a read returns what a restart would; the index and `fetch` agree; a delete by filter leaves no match |
| `ingest_replicas` | 1 id, 3 records (two of one vector), MemTable of 1, 2 replicas, 2 acknowledgements required, batches of 2 | a success is in the files of enough nodes, and of all unless degraded; replicas hold what the primary holds of all that reached them and was not skipped; health follows answers |
| `startup` | 2 namespaces of 2 shards, 2 crashes | the files stay consistent with each other, a restart brings back what they held, namespaces are complete, `/ready` is honest about shards found and made, every start ends (liveness) |
| `router` | 3 shards, 2 nodes, 1 record, TTL 1, clock to 1, 2 changes | a list is stale only within the TTL; once the registry is quiet for a TTL records go to the best stored shard; routes and decisions let through only what the registry allows; minimal movement; a split never leaves a namespace empty |
| `query_path` | 2 clients, 2 shards, TTL 1, timeout 1, clock to 3, window of 3, quota 3 | how old an answer can be, which upserts it must show, how many requests a window admits |

Why the bounds are enough. One shard: shards share nothing but the file. Two
migrations, so that a finished one and a new one coexist. Version 3 allows one
change besides the creation, 4 two, 6 drain, change of owner, activation and a
second migration. Three log entries are a batch of two and one more; three
segments let both threads rotate. In `ingest_storage` a MemTable of two is
filled by two ids, so a flush happens within a batch of three and between
requests, and an id can be in the log, the MemTable and an SSTable with different
values. One failing flush per process keeps the run small; the theorems also hold
with `again` in `Env`, where flushes fail any number of times. One
id is enough for replicas because deliveries are per record and the id may be
written twice in a batch; with a MemTable of one its copies reach an SSTable, where
deletes do not. Three shards are a parent and its two children; one
record is enough because `score` takes every order. Clock 3 with TTL 1 passes
through L1, L2 and L1 again and beyond the age of two TTLs an answer may have.

Deadlock checking is off in `migration_no_crash` and `migration_three_nodes`
(every migration id used up and the shard dropped or OFFLINE), in `startup` (a
process a removed owner stopped, after the last crash) and in `router` and
`query_path` (clock, changes and writes used up).

Fairness is used in two runs. `wal_restarts`: threads inside `_flush_batch` keep
running, and the timed wait of the group-commit thread ends. `startup`: the
import of `api/rest.py` is sequential code without a wait. Nothing is assumed of
clients, operators, Redis or gossip; migrations are driven by an operator and
nothing in the code makes them progress, so no liveness is claimed for them.

Two runs refute a sentence of the repository; `PROJECT.json` quotes it.

| Run | Refutes | Because |
|---|---|---|
| `copy_crash` | ownership moves only after digest equality | COPYING is stored before the digests; `None` skips the check |
| `wal_early_ack` | unwritten writes are never acknowledged | the other thread holds the batch |

### Known limits

The passing runs leave a fault out where a property does not survive it, and the
properties state their exceptions. The limits behind them:

* *Writes during a migration.* Writes do not change the shard's version and
  `commit` compares no data, so a write to an ACTIVE shard after the copy is not on
  the target. Hence `DrainedMigrationPreservesContents`.
* *Crash after the owner moved.* A COMMITTING migration can only be failed after
  a restart: FAILED, though it moved (`FailedNeverMoved` with `crash` in
  `migration_no_crash`). With `crash`, `cancel` may also have emptied the target
  of a migration that commits later (`TargetHoldsDigestAtCommit`).
* *Cancel after a change of owner.* `change_owner` may have made the target the
  owner, and `cancel` removes its data (`OwnerDataKept` with `cancel` in
  `migration_contents`).
* *Shards created again.* Ids follow from the namespace's name and versions start
  at 1, so a migration of a deleted shard may commit over the new one
  (`StaleNeverCommits` with `recreate`).
* *Swallowed persists.* The old owner stays in the file while its data is removed
  (`OwnerDataKept` with `persist_fail`). `Startup` does not have this failure.
* *Order in the log.* A restart appends to segment 0 again, so new entries are
  read before older ones of later segments; two batches are written outside the
  lock in either order, although `recovery.py:9` relies on the order of appends; a
  torn tail is never truncated and hides what is appended behind it, acknowledged
  or not (`late`, the exception in `AckedNotForgotten`). `Ingest` is about a log
  without these.
* *Threads that rotate at once* close the file under each other; `WriteRaises` ends
  the group-commit thread, the exception in `GroupCommitHappens`.
* *Metadata-only updates* have the version and checksum of the stored record. A
  replica acknowledges and skips them, although the docstring at
  `replication.py:171-174` says that a different payload replaces; and recovery
  keeps the SSTable copy in the way of `fetch`, while the files have the update.
  `LiveMatchesDurable` and `IndexMatchesFetch` are therefore as fine as the checksum
  (`Alike`); the properties about files compare records exactly.
* *Deletes on replicas.* A replica skips a record it already has in an SSTable
  even if a tombstone hides it: insert, delete and the same insert leave it deleted
  there, although it acknowledged. This and the metadata-only update are the two
  cases of `skipped`, the exception in `ReplicaAgrees` and `AckedOnEnough`.
* *A failed MemTable flush* empties the MemTable first, so reads miss the records
  until a restart replays the log (`intact`).
* *An SSTable cut off inside a line* is never repaired and never skipped: recovery of
  the shard raises at every start, answered records included (`torn`, `Unreadable`).
  Only the primary's SSTable writes are cut off, not those of replicas, and two
  SSTables written in the same millisecond, which would share a file name, are not
  modelled.
* *Deletes by filter* also match superseded SSTable copies, and then delete the
  current record, which may not match.
* *Native HNSW* forgets only the newest label of an id that was added twice; the
  runs have the flat index, and `IndexMatchesFetch` says less for `Native`.
* *Namespaces.* A namespace whose creation broke off between two shards keeps
  fewer shards for good (`interrupted`), and with `metadata.json` lost the shards
  of its namespaces stay behind while `/ready` answers true (`lostMeta`). With
  `shards.json` torn, a DRAINING or REMOVED node is ACTIVE after the restart, and so
  are the shards made anew: `RestartKeeps` compares with the file as it is read. In
  `Startup` an SSTable is damaged only while the process serves.
* *Splits.* The children get an owner that is no member and no data.
* *Cache.* An upsert is hidden for up to a TTL by a query that was in its fan-out or
  by a Redis that did not take the invalidation (`tainted`); other writes
  invalidate nothing. The empty answer of a timeout is cached like any other and
  served to queries that would have found something (`timedout`).

## 4. Proofs

Every safety property that a passing run checks is also a theorem, for all values
of the constants; the names below are those of the theorems in `PROJECT.json`.

### ShardMigrationProofs

For any nodes, shards, migrations, records, values and version bound:

| Theorem | Property | Environments |
|---|---|---|
| `TypeCorrect` | `TypeOK` | all |
| `OneOpenAlways` | `OneOpenMigration` | all |
| `PrimaryNeverReplica` | `PrimaryNotReplica` | all |
| `OwnershipMovesAtBoundary` | `OwnershipBoundary` | all |
| `StaleCommitsExcluded` | `StaleNeverCommits` | without `recreate` |
| `FailuresNeverMoved` | `FailedNeverMoved` | without `crash` |
| `DigestsAgree` | `DigestsAgreeAtCommit` | without `crash` |
| `TargetHoldsDigest` | `TargetHoldsDigestAtCommit` | `Protected` |
| `DrainedMigrationsPreserve` | `DrainedMigrationPreservesContents` | `Protected` |
| `OwnersKeepTheirData` | `OwnerDataKept` | without `cancel` and `persist_fail` |

`Protected` is an environment without `tamper` and `recreate` and, if there are
crashes, without `cancel` and `persist_fail`. An environment is left out where the
code does not keep the property; "Known limits" says how, and the run `copy_crash`
shows it for digests. Each hypothesis is weaker than what the runs assume: the
runs check one environment each, the theorems every environment of the row.

The base is `TypeOK /\ OpInv`. `OpInv` is `OpMatches` (the migration whose
operation is running is in the state that operation entered) and
`CommitStillValid` (what `commit` checked when it began still holds when it moves
the owner). Both are needed because steps of an operation are separate actions:
without `OpMatches` a step could update a record that is not open, and without
`CommitStillValid` the boundary would not follow from the check one step earlier.
They hold because nothing else runs while `op` is not `Idle`, and a restart
sets it to `Idle`. `OneOpenMigration` and `PrimaryNotReplica` speak of memory and
file together, which makes them inductive across a restart and a failed persist:
the file is the memory of some earlier moment (`StepDisk`).

`BaseInv` adds what the content theorems share: a migration leads away from its
source and has no digest before it copies (`CreatedOK`, of memory and file), the
source is valid until the owner moves and the target is the owner afterwards
(`RunInv`), and, unless writing fails, the file has what memory has except the
digest of a copy that is not checked yet (`FileInv`). On it rest

* `MovedInv`: who moved the owner is COMPLETED or on the way there without a stop;
* `DigestInv`: outside `start_copy` a migration that copied has two equal digests;
* `VersionInv`: the captured version of an open migration is behind the shard's, or
  equal to it and the migration is not stale; of memory and file, so that a crash
  that takes both back takes them back together;
* `CopyInv`: as long as the shard record is the one the migration was created from,
  the target holds the content of the digest, and so does the source if the shard
  is DRAINING. It needs `OneOpenMigration`, or another migration of the shard could
  write to the same root, and `VersionInv`, or a draining could have been undone and
  done again unseen.

### WALProofs

For any entries and number of segments: `TypeCorrect`, `EntriesLoggedOnce`,
`AckedAccountedFor`, `LogOnlyGrows`. The invariant is `PcInv /\ OnceInv /\
SeenInv /\ LateInv`: which place of `_flush_batch` has a batch, that every entry is in one of
the buffer, the two batches, the file object and the files, and that no appended
entry is in none of them unless a crash or a closed file dropped it. That
`read_all` returns a written entry rests on `LateInv`: an entry behind a tear was
appended after it, because a crash, which alone tears, empties every buffer.
`LoggedOnce` is about the files alone and says nothing of an entry about to be
written again, hence the disjointness of all places in `OnceInv`.

### ShardContextProofs and IngestProofs

For any ids, records, MemTable size, index kind, batches, sequence of replicas and
number of required acknowledgements: `TypeCorrect`, `ReadsAreDurable`,
`IndexIsCurrent`, `FiltersAreComplete`, `ReplicasAgree`, `ReadyHolds`,
`AcksAreKept`, and `Implements`, the safety of the refinement: `Init` maps to an
initial state of `ClientStore` and every step to one of its steps or a stutter.

A context is `Sound` if tombstones and MemTable agree with the log and a filter can
see every SSTable copy, and `Whole` if moreover every logged record is in the
MemTable or alike to its SSTable copy and the index has what `fetch` returns.
`ShardContextProofs` shows what each operation, a flush and a reopening make of
them. A failed flush breaks `Whole` and not `Sound`, which is why there are two; what a
cut-off file holds of an id is what the log, buffered entries included, says of it
(`TornFlush`), so a start that loads the file yields a write of the open request
early at most.
`HeldInv` lifts them to all nodes and ties the primary's buffered log to the
request; `FilterInv` follows a delete by filter; `AgreeInv` says what the replicas
have in common with what the primary will have flushed (`Final`), the write on its
way excepted; `CountInv` and `AnswerInv` follow the acknowledgements of a request
to its answer. That the fold of a log yields the last entry of an id is
`LastOf`, an index found with `OrderLemmas` instead of an induction.

### StartupProofs

For any namespaces, shards per namespace, number of crashes and every `Env`:
`TypeCorrect`, `OrphansExcluded`, `NamespacesComplete`, `RestartsKeep`,
`ReadyIsHonest`. `FileInv` says which file is behind memory and by which write, and
that every shard in memory or file has its namespace in `metadata.json`; without
the part on memory a crash in `_persist` could write an orphan. `WholeInv` says
that a namespace nobody works on has all shards or none, in both, and what the
loop has passed; `BootInv` that memory during a start is what the files held.

### RouterProofs

For any finite set of shards, nodes, records, TTL, capacity and rendezvous weights
without ties: `TypeCorrect`, `MovementIsMinimal`, `AlwaysAShard`,
`StalenessBounded`, and from the last `RoutingSettles` and `RoutesStayCurrent`. `CallInv` and `SplitInv`
follow a lookup and a split through their steps, `OwnerInv`, `WritingInv` and
`CountInv` show that a split shard has an owner and is never split twice, and
`FreshInv` bounds the age of a list from the beginning of its lookup: a list read
before a change may be stored after it.

### QueryPathProofs

For any clients, shards, TTL, timeout, window and quota: `TypeCorrect`,
`AnswerAgeBounded`, `UpsertsAreSeen`, `QuotaHolds`. `AgeInv` bounds L1 by the time
an entry was put there and L2 by its expiry, which is what makes the second TTL
the last one, and counts from when an answer was made, however long that took; `SeenInv` carries the last invalidating upsert through both tiers and
every search that will be cached; `QuotaInv` says that what the limiter would keep
is what was admitted in the last second.

### Assumptions

The named `ASSUME`s of the modules, all of which TLC evaluates in a passing run:
bounds are naturals and intervals positive; `Env` is a set of known events;
`None`, `Torn`, `Stray` and the values that stand for nothing or for a tombstone
are none of the data (`ValsAssumption`, `DigestAssumption`, the
`NoneAssumption`s, `TornAssumption`, `StrayAssumption`, `RecordsAssumption`);
`MaxVersion` is at least 2 (`VersionAssumption`), the version of an activated
shard; the shards of a namespace are finitely many (`ShardsAssumption`);
the primary is none of its replicas, one acknowledgement at least is required and
`Unreadable` is no content of a store (`IngestAssumption`); this node is a node (`LocalAssumption`).

### Only model-checked

* `GroupCommitHappens` and `StartupEnds`: liveness under fairness, out of the
  prover's reach.
* The two refuted sentences of section 3, which are counterexamples.

## 5. Plan

The modules of section 2 are written, and their safety properties are checked and
proved. What may be worth adding:

1. Single steps of the two liveness properties, such as that a thread inside
   `_flush_batch` always has a step. They need `ENABLED`, so they would have to be
   stated as the disjunction of the guards.
2. In `ShardMigrationProofs`, what is left of `FailedNeverMoved` and
   `TargetHoldsDigestAtCommit` under crashes, once the failing cases are named by
   history variables.

## 6. Not modelled

* Scores, merging, re-ranking, filters' comparison of values, quantisation, ANN
  graphs: floating point and data. Which ids an index can find is modelled.
* Index lifecycle: `maybe_compact` asks for a full MemTable after a request, and
  `put` has flushed it by then, so COMPACTING is never entered.
* Tokens, roles and TLS, which keep no state that requests change; the circuit
  breaker, coordinator, multi-region view, `ConsistentHashRing` and `WAL.gc`,
  which nothing on a request's path calls.
* Postgres, S3, the cold tier, CDN and the clients of Redis and etcd: I/O of
  external services. Redis appears in `QueryPath` and etcd in `Router` as the code
  uses them.
* Bulk import, events, REST, gRPC and WebSocket framing, the CLI and the SDKs:
  adapters over the services above.
* Idempotency keys, and the cache key, which is made of the first components of the
  query's vector.
* Power failure, as opposed to the death of the process. `SPLITTING` and
  `RETIRED` shards, which no operation creates. The directories and contexts that
  `delete_namespace` leaves behind.
