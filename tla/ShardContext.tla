---------------------------- MODULE ShardContext ----------------------------
(***************************************************************************)
(* The storage of one shard on one node (ShardContext in                   *)
(* ingest/service.py): write-ahead log, MemTable, SSTables, tombstones and *)
(* index, as a record and the operations on it.  The primary has one       *)
(* context per shard, and so has every replica.                            *)
(*                                                                         *)
(* Of the log only the last entry per id matters to recovery, so the part  *)
(* that is on disk is a function of the id; what append() buffered since   *)
(* the last flush is a sequence.  Of the SSTables get() and recovery see   *)
(* the newest copy per id, and a delete by filter the metadata of every    *)
(* copy.  An SSTable whose write was cut off is on disk, but not in         *)
(* _sstables before the next start.                                        *)
(***************************************************************************)
EXTENDS Naturals, Sequences, FiniteSets

CONSTANTS
    Ids,         \* record ids
    Vecs,        \* vectors; a checksum stands for the vector it is made of
    Mds,         \* metadata
    Records,     \* the records clients write: [vec, md]
    None,        \* no record
    Gone,        \* a delete tombstone
    Threshold,   \* memtable_threshold
    Native       \* hnswlib is installed

ASSUME RecordsAssumption ==
    /\ Records \subseteq [vec : Vecs, md : Mds]
    /\ None \notin Records
    /\ Gone \notin Records
    /\ None # Gone
ASSUME ThresholdAssumption == Threshold \in Nat \ {0}
ASSUME NativeAssumption == Native \in BOOLEAN

Maybe == Records \cup {None}
Entry == [id : Ids, cell : Records \cup {Gone}]

Context == [
    wal : [Ids -> Records \cup {None, Gone}],   \* last entry on disk
    buf : Seq(Entry),                           \* appended, not flushed
    mem : [Ids -> Maybe],                       \* the MemTable
    sst : [Ids -> Maybe],                       \* newest SSTable copy
    copies : [Ids -> SUBSET Mds],               \* metadata of all SSTable copies
    part : [Ids -> Maybe],                      \* newest copy in files cut off, if newer
    partMds : [Ids -> SUBSET Mds],              \* metadata of all copies there
    tomb : SUBSET Ids,
    idx : [Ids -> [cur : Maybe, old : BOOLEAN]]]  \* newest label, older ones left

EmptyContext == [
    wal |-> [i \in Ids |-> None],
    buf |-> <<>>,
    mem |-> [i \in Ids |-> None],
    sst |-> [i \in Ids |-> None],
    copies |-> [i \in Ids |-> {}],
    part |-> [i \in Ids |-> None],
    partMds |-> [i \in Ids |-> {}],
    tomb |-> {},
    idx |-> [i \in Ids |-> [cur |-> None, old |-> FALSE]]]

\* The checksum covers the vector alone, and every record has version 1.
SameVersion(a, b) == a.vec = b.vec

\* Equal as far as checksums tell: both absent, or of one vector.
Alike(a, b) == a = b \/ (a \in Records /\ b \in Records /\ SameVersion(a, b))

-----------------------------------------------------------------------------
(* Write-ahead log *)

LastOf(s, i) ==
    LET P == {k \in DOMAIN s : s[k].id = i}
    IN CHOOSE k \in P : \A j \in P : j <= k

\* The last cell per id once the entries of s follow f.
Overlay(f, s) ==
    [i \in Ids |-> IF \E k \in DOMAIN s : s[k].id = i THEN s[LastOf(s, i)].cell ELSE f[i]]

\* Mutant: the payload is logged without the id it belongs to.
LoggedBare(c, e) == [c EXCEPT !.buf = Append(@, e.cell)]

Logged(c, e) == [c EXCEPT !.buf = Append(@, e)]
Synced(c) == [c EXCEPT !.wal = Overlay(c.wal, c.buf), !.buf = <<>>]

-----------------------------------------------------------------------------
(* MemTable and SSTables *)

SegGet(c, i) == IF c.mem[i] # None THEN c.mem[i] ELSE c.sst[i]
Fetch(c, i) == IF i \in c.tomb THEN None ELSE SegGet(c, i)

\* scan_all: the metadata of every copy of i, current or not.
ScanAll(c, i) == c.copies[i] \cup {r.md : r \in {c.mem[i]} \ {None}}
FilterMatches(c, i, md) == md \in ScanAll(c, i)

ShouldFlush(c) == Cardinality({i \in Ids : c.mem[i] # None}) >= Threshold

\* The MemTable's records move to a new SSTable.
Flushed(c) ==
    LET W == {i \in Ids : c.mem[i] # None}
    IN [c EXCEPT
          !.mem = [i \in Ids |-> None],
          !.sst = [i \in Ids |-> IF i \in W THEN c.mem[i] ELSE @[i]],
          !.copies = [i \in Ids |-> IF i \in W THEN @[i] \cup {c.mem[i].md} ELSE @[i]],
          !.part = [i \in Ids |-> IF i \in W THEN None ELSE @[i]]]

\* The write of the SSTable is cut off, by an error or by a crash: the MemTable
\* is already empty, and the lines of S are complete in the file.
FlushCut(c, S) ==
    [c EXCEPT
       !.mem = [i \in Ids |-> None],
       !.part = [i \in Ids |-> IF i \in S THEN c.mem[i] ELSE @[i]],
       !.partMds = [i \in Ids |-> IF i \in S THEN @[i] \cup {c.mem[i].md} ELSE @[i]]]

-----------------------------------------------------------------------------
(* Index: adding an id again leaves its earlier vector searchable; FlatIndex *)
(* removes all of them, native HNSW only the newest label.                   *)

Indexed(c, i, r) == [c EXCEPT !.idx[i] = [cur |-> r, old |-> @.old \/ @.cur # None]]
Unindexed(c, i) == [c EXCEPT !.idx[i] = [cur |-> None, old |-> Native /\ @.old]]
Searchable(c, i) == c.idx[i].cur # None \/ c.idx[i].old

-----------------------------------------------------------------------------
(* Writes *)

\* An upsert up to MemTable.put.
Buffered(c, i, r) ==
    [Logged(c, [id |-> i, cell |-> r]) EXCEPT !.tomb = @ \ {i}, !.mem[i] = r]

Upserted(c, i, r) ==
    LET p == Buffered(c, i, r)
    IN Indexed(IF ShouldFlush(p) THEN Flushed(p) ELSE p, i, r)

Deleted(c, i) ==
    Unindexed([Logged(c, [id |-> i, cell |-> Gone]) EXCEPT !.tomb = @ \cup {i}, !.mem[i] = None], i)

\* The replica has the record already, as far as version and checksum tell.
AlreadyApplied(c, i, r) == SegGet(c, i) # None /\ SameVersion(SegGet(c, i), r)

\* Mutant: the replica's log is left to the group-commit thread.
ReplicaUpsertedUnflushed(c, i, r) ==
    IF AlreadyApplied(c, i, r) THEN c ELSE Upserted(c, i, r)

\* apply_replicated_upsert: what the replica already has is not written again.
ReplicaUpserted(c, i, r) ==
    IF AlreadyApplied(c, i, r) THEN c ELSE Synced(Upserted(c, i, r))

\* Mutant: the tombstone is not flushed before the acknowledgement.
ReplicaDeletedUnflushed(c, i) == Deleted(c, i)

ReplicaDeleted(c, i) == Synced(Deleted(c, i))

-----------------------------------------------------------------------------
(* Recovery *)

\* The newest copy per id in the SSTable files, those cut off included.
TableAt(c, i) == IF c.part[i] # None THEN c.part[i] ELSE c.sst[i]

\* Mutant: what is in an SSTable needs no replay.
RecoveredTablesFirst(c) ==
    [i \in Ids |-> IF TableAt(c, i) # None THEN TableAt(c, i)
                   ELSE IF c.wal[i] = Gone THEN None ELSE c.wal[i]]

\* The SSTables, with the log replayed over them.
Recovered(c) ==
    [i \in Ids |-> IF c.wal[i] = None THEN TableAt(c, i)
                   ELSE IF c.wal[i] = Gone THEN None ELSE c.wal[i]]

\* Every SSTable file is opened, whether its write was completed or not.
Loaded(c) ==
    [c EXCEPT
       !.sst = [i \in Ids |-> TableAt(c, i)],
       !.copies = [i \in Ids |-> @[i] \cup c.partMds[i]],
       !.part = [i \in Ids |-> None],
       !.partMds = [i \in Ids |-> {}]]

\* Mutant: tombstones of the log are not carried over.
OpenedWithoutTombstones(c) ==
    LET rec == Recovered(c)
    IN [Loaded(c) EXCEPT
          !.buf = <<>>,
          !.mem = [i \in Ids |-> IF rec[i] # None /\ ~Alike(rec[i], TableAt(c, i)) THEN rec[i] ELSE None],
          !.tomb = {},
          !.idx = [i \in Ids |-> [cur |-> rec[i], old |-> FALSE]]]

\* A new ShardContext over the files of c: records that differ from their
\* SSTable copy go to the MemTable, and the index is built once.
Opened(c) ==
    LET rec == Recovered(c)
    IN [Loaded(c) EXCEPT
          !.buf = <<>>,
          !.mem = [i \in Ids |-> IF rec[i] # None /\ ~Alike(rec[i], TableAt(c, i)) THEN rec[i] ELSE None],
          !.tomb = {i \in Ids : c.wal[i] = Gone},
          !.idx = [i \in Ids |-> [cur |-> rec[i], old |-> FALSE]]]

\* The first k buffered entries were flushed before the process died.
Reopened(c, k) == Opened(Synced([c EXCEPT !.buf = SubSeq(@, 1, k)]))
=============================================================================
