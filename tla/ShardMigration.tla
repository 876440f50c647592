--------------------------- MODULE ShardMigration ---------------------------
(***************************************************************************)
(* Shard ownership, cluster membership and the explicit shard migration of *)
(* vsector: ShardMigrationManager and ShardTransferProvider running over   *)
(* the ShardLifecycleManager, the ClusterMembershipManager and the         *)
(* JSON-durable InMemoryEtcd they share.                                   *)
(*                                                                         *)
(* Everything runs on one asyncio event loop and no method of the managers *)
(* awaits, so two operations never interleave.  What does interleave is    *)
(* the crash of the process with the steps of an operation: an operation   *)
(* is cut into steps at the points where it has just written something     *)
(* durable, op says where the running operation is, and every other        *)
(* operation waits until op is Idle.                                       *)
(*                                                                         *)
(* The content of a shard on a node is what recover() derives from that    *)
(* node's WAL and SSTables: per record id a value, a tombstone or nothing. *)
(* A digest (SHA-256 over that content) is the content itself: digests are *)
(* taken to be free of collisions.                                         *)
(***************************************************************************)
EXTENDS Naturals, FiniteSets

CONSTANTS
    Nodes,        \* node ids
    Shards,       \* shard ids; every shard is the only one of its namespace
    Migs,         \* migration ids (uuid4, never reused)
    Recs,         \* record ids of a shard
    Vals,         \* values a record may have
    NoDigest,     \* None in source_digest / target_digest
    MaxVersion,   \* bound on shard.version
    Env           \* the callers and faults present in this instance

(***************************************************************************)
(* crash          the process dies and restarts from the durable store     *)
(* persist_fail   InMemoryEtcd._persist fails and swallows the exception   *)
(* transfer_fail  export, import or verify raises an I/O error             *)
(* cleanup_fail   removing a storage tree raises half way                  *)
(* tamper         files change under the root a migration copies to        *)
(* write          clients upsert and delete records                        *)
(* lifecycle      shards are activated, drained, retired                   *)
(* change_owner   ShardLifecycleManager.change_owner is called             *)
(* cancel         migrations are cancelled                                 *)
(* drop           namespaces are deleted                                   *)
(* recreate       shards of deleted namespaces are created again, same ids *)
(* membership     members join, drain and are removed                      *)
(***************************************************************************)
Environment == {"crash", "persist_fail", "transfer_fail", "cleanup_fail", "tamper",
                "write", "lifecycle", "change_owner", "cancel", "drop", "recreate",
                "membership"}

ASSUME EnvAssumption == Env \subseteq Environment
ASSUME VersionAssumption == MaxVersion \in Nat /\ MaxVersion >= 2
ASSUME ValsAssumption == Vals \cap {"none", "deleted"} = {}

VARIABLES
    shards,   \* InMemoryEtcd._data
    nodes,    \* InMemoryEtcd._nodes
    migs,     \* InMemoryEtcd._migrations
    disk,     \* the JSON file: the store as of the last successful _persist
    data,     \* durable content of every shard under every node's storage root
    op,       \* the operation in progress, if it is between two steps
    moved,    \* history: migrations whose commit moved ownership
    stale     \* history: migrations whose shard record somebody else changed

vars == <<shards, nodes, migs, disk, data, op, moved, stale>>

-----------------------------------------------------------------------------
(* Shards, members, migrations and contents *)

ShardState == {"CREATING", "ACTIVE", "DRAINING", "OFFLINE"}

\* Shard.TRANSITIONS, without the legacy SPLITTING and RETIRED.
ShardTransitions ==
    [CREATING |-> {"ACTIVE", "OFFLINE"},
     ACTIVE   |-> {"DRAINING", "OFFLINE"},
     DRAINING |-> {"ACTIVE", "OFFLINE"},
     OFFLINE  |-> {}]

Version == Nat \ {0}

ShardRecord == [state: ShardState, node_id: Nodes, replicas: SUBSET Nodes,
                version: Version]

NoShard == [state |-> "ABSENT"]

NodeState == {"UNKNOWN", "JOINING", "ACTIVE", "DRAINING", "REMOVED"}

\* ClusterNode.TRANSITIONS; the step from UNKNOWN is register().
NodeTransitions ==
    [UNKNOWN  |-> {"JOINING"},
     JOINING  |-> {"ACTIVE", "REMOVED"},
     ACTIVE   |-> {"DRAINING", "REMOVED"},
     DRAINING |-> {"ACTIVE", "REMOVED"},
     REMOVED  |-> {}]

MigrationState == {"PENDING", "PREPARING", "COPYING", "VERIFYING", "COMMITTING",
                   "COMPLETED", "FAILED", "CANCELLED"}

Terminal == {"COMPLETED", "FAILED", "CANCELLED"}
Cancelable == {"PENDING", "PREPARING", "COPYING", "VERIFYING"}
MIGRATABLE_STATES == {"ACTIVE", "DRAINING"}

\* What is stored under one record id: nothing, a tombstone, or a value.
Cell == Vals \cup {"none", "deleted"}
Content == [Recs -> Cell]
EmptyContent == [r \in Recs |-> "none"]
Digest == Content \cup {NoDigest}

MigrationRecord ==
    [state: MigrationState, shard: Shards, source: Nodes, target: Nodes,
     source_version: Version, source_digest: Digest, target_digest: Digest,
     finalized: BOOLEAN]

\* No content has the digest None.
ASSUME DigestAssumption == NoDigest \notin Content

NoMigration == [state |-> "NONE"]

Idle == [at |-> "idle"]
OpStep == {"copy", "import", "check", "verify", "commit", "finalize", "complete", "cancel"}

\* The durable store and the history that goes with it.
StoreRecord ==
    [shards: [Shards -> ShardRecord \cup {NoShard}],
     nodes:  [Nodes -> NodeState],
     migs:   [Migs -> MigrationRecord \cup {NoMigration}],
     moved:  SUBSET Migs,
     stale:  SUBSET Migs]

TypeOK ==
    /\ shards \in [Shards -> ShardRecord \cup {NoShard}]
    /\ nodes \in [Nodes -> NodeState]
    /\ migs \in [Migs -> MigrationRecord \cup {NoMigration}]
    /\ disk \in StoreRecord
    /\ data \in [Nodes -> [Shards -> Content]]
    /\ op \in {Idle} \cup [at: OpStep, mig: Migs]
    /\ moved \in SUBSET Migs
    /\ stale \in SUBSET Migs

-----------------------------------------------------------------------------
(* Helpers *)

\* ClusterMembershipManager.validate_node does not raise.
Member(n) == nodes[n] \in {"JOINING", "ACTIVE", "DRAINING"}

\* Shard.validate_ownership does not raise.
OwnershipValid(owner, replicas) == owner \notin replicas

\* Mutant: only migrations that already copy count as a conflict.
InProgressOnceCopying(m, s) == /\ migs[m].state \in {"COPYING", "VERIFYING", "COMMITTING"}
                               /\ migs[m].shard = s

\* A migration that create_migration regards as a conflict.
InProgress(m, s) == /\ migs[m].state \notin Terminal \cup {"NONE"}
                    /\ migs[m].shard = s

\* Mutant: the captured version is not compared.
SourceValidAnyVersion(m) ==
    LET shard == shards[migs[m].shard]
    IN  /\ shard.state \in MIGRATABLE_STATES
        /\ shard.node_id = migs[m].source

\* _assert_source_valid does not raise.
SourceValid(m) ==
    LET shard == shards[migs[m].shard]
    IN  /\ shard.state \in MIGRATABLE_STATES
        /\ shard.node_id = migs[m].source
        /\ shard.version = migs[m].source_version

\* [r for r in shard.replicas if r != m.target_node_id]
NewReplicas(m) == shards[migs[m].shard].replicas \ {migs[m].target}

\* The shard record after its ownership moved to the target of m.
MovedShard(m) ==
    LET shard == shards[migs[m].shard]
    IN  [state |-> shard.state, node_id |-> migs[m].target, replicas |-> NewReplicas(m),
         version |-> shard.version + 1]

\* InMemoryEtcd._persist: the whole store in one file, or, with the
\* exception swallowed, nothing.
Persist ==
    \/ disk' = [shards |-> shards', nodes |-> nodes', migs |-> migs',
                moved |-> moved', stale |-> stale']
    \/ "persist_fail" \in Env /\ disk' = disk

\* The open migrations that see the record of shard s changed by others.
Outdated(s) == stale \cup {m \in Migs : InProgress(m, s)}

\* What an interrupted import leaves under the target's root: upserts are
\* logged first and tombstones after all of them.
PartialImports(export) ==
    {[r \in Recs |-> IF r \in kept THEN export[r] ELSE "none"] : kept \in
        {k \in SUBSET Recs :
            (\E r \in k : export[r] = "deleted")
                => \A r \in Recs : export[r] \in Vals => r \in k}}

\* What removing the WAL and the SSTables leaves when it stops half way:
\* records are missing, and a record whose tombstone is gone may reappear.
Leftovers(content) ==
    {c \in Content : \A r \in Recs :
        \/ c[r] \in {"none", content[r]}
        \/ content[r] = "deleted" /\ c[r] \in Vals}

\* Mutant: the outcome of the comparison is ignored.
DigestIgnored(actual, expected) == TRUE

\* The digest test of verify_shard; None as the expected digest skips it.
DigestOK(actual, expected) == expected = NoDigest \/ actual = expected

-----------------------------------------------------------------------------
(* Initial states: every shard was created and activated by its namespace  *)
(* (create writes version 1, activate version 2); the owner is a member;   *)
(* the replicas come from a fixed pool of names that need not be members.  *)

Init ==
    /\ shards \in [Shards -> {r \in [state: {"ACTIVE"}, node_id: Nodes,
                                     replicas: SUBSET Nodes, version: {2}] :
                                OwnershipValid(r.node_id, r.replicas)}]
    /\ nodes \in [Nodes -> {"UNKNOWN", "ACTIVE"}]
    /\ \A s \in Shards : Member(shards[s].node_id)
    /\ migs = [m \in Migs |-> NoMigration]
    /\ \E v \in Vals :
          data = [n \in Nodes |-> [s \in Shards |->
                     IF n = shards[s].node_id THEN [r \in Recs |-> v] ELSE EmptyContent]]
    /\ op = Idle
    /\ moved = {}
    /\ stale = {}
    /\ disk = [shards |-> shards, nodes |-> nodes, migs |-> migs,
               moved |-> moved, stale |-> stale]

-----------------------------------------------------------------------------
(* ShardMigrationManager *)

\* create_migration: PENDING, with the owner and the version of the shard.
CreateMigration(m, s, target) ==
    /\ op = Idle
    /\ migs[m].state = "NONE"
    /\ shards[s].state \in MIGRATABLE_STATES
    /\ Member(shards[s].node_id)
    /\ Member(target)
    /\ target # shards[s].node_id
    /\ \A other \in Migs : ~InProgress(other, s)
    /\ migs' = [migs EXCEPT ![m] =
                   [state |-> "PENDING", shard |-> s, source |-> shards[s].node_id,
                    target |-> target, source_version |-> shards[s].version,
                    source_digest |-> NoDigest, target_digest |-> NoDigest,
                    finalized |-> FALSE]]
    /\ UNCHANGED <<shards, nodes, data, op, moved, stale>>
    /\ Persist

\* _fail: the migration becomes FAILED, durably, and the operation ends.
Fail(m) ==
    /\ migs' = [migs EXCEPT ![m].state = "FAILED"]
    /\ op' = Idle
    /\ UNCHANGED <<shards, nodes, data, moved, stale>>
    /\ Persist

\* The persisted transition that opens a lifecycle step; next is what the
\* operation does after it, Idle for nothing.
Enter(m, state, next) ==
    /\ migs' = [migs EXCEPT ![m].state = state]
    /\ op' = next
    /\ UNCHANGED <<shards, nodes, data, moved, stale>>
    /\ Persist

\* Every step re-checks the source first; a stale migration fails.
StaleFails(m) ==
    /\ op = Idle
    /\ migs[m].state \in {"PENDING", "PREPARING", "COPYING", "VERIFYING"}
    /\ ~SourceValid(m)
    /\ Fail(m)

Prepare(m) ==
    /\ op = Idle
    /\ migs[m].state = "PENDING"
    /\ SourceValid(m)
    /\ Enter(m, "PREPARING", Idle)

\* start_copy: COPYING is durable before any data moves ...
StartCopy(m) ==
    /\ op = Idle
    /\ migs[m].state = "PREPARING"
    /\ SourceValid(m)
    /\ Enter(m, "COPYING", [at |-> "copy", mig |-> m])

\* ... the target root is reset, perhaps half way, and the export partly
\* written ...
ImportBegins(m) ==
    LET source == migs[m].source
        target == migs[m].target
        s == migs[m].shard
    IN  /\ op = [at |-> "copy", mig |-> m]
        /\ \E c \in Leftovers(data[target][s]) \cup PartialImports(data[source][s]) :
              data' = [data EXCEPT ![target][s] = c]
        /\ op' = [at |-> "import", mig |-> m]
        /\ UNCHANGED <<shards, nodes, migs, disk, moved, stale>>

\* ... and then completely; source_digest is set in memory only ...
ImportEnds(m) ==
    LET export == data[migs[m].source][migs[m].shard]
    IN  /\ op = [at |-> "import", mig |-> m]
        /\ data' = [data EXCEPT ![migs[m].target][migs[m].shard] = export]
        /\ migs' = [migs EXCEPT ![m].source_digest = export]
        /\ op' = [at |-> "check", mig |-> m]
        /\ UNCHANGED <<shards, nodes, disk, moved, stale>>

\* ... and the digests become durable when the target's digest agrees.
CheckCopy(m) ==
    LET actual == data[migs[m].target][migs[m].shard]
    IN  /\ op = [at |-> "check", mig |-> m]
        /\ DigestOK(actual, migs[m].source_digest)
        /\ migs' = [migs EXCEPT ![m].target_digest = actual]
        /\ op' = Idle
        /\ UNCHANGED <<shards, nodes, data, moved, stale>>
        /\ Persist

\* export, import or verify raises: FAILED, and the partial import stays.
CopyFails(m) ==
    /\ op \in [at: {"copy", "import", "check"}, mig: {m}]
    /\ \/ "transfer_fail" \in Env
       \/ /\ op.at = "check"
          /\ ~DigestOK(data[migs[m].target][migs[m].shard], migs[m].source_digest)
    /\ Fail(m)

\* verify: VERIFYING is durable before the target is read again ...
Verify(m) ==
    /\ op = Idle
    /\ migs[m].state = "COPYING"
    /\ SourceValid(m)
    /\ Enter(m, "VERIFYING", [at |-> "verify", mig |-> m])

\* ... and its digest compared.
VerifyEnds(m) ==
    LET actual == data[migs[m].target][migs[m].shard]
    IN  /\ op = [at |-> "verify", mig |-> m]
        /\ DigestOK(actual, migs[m].source_digest)
        /\ migs' = [migs EXCEPT ![m].target_digest = actual]
        /\ op' = Idle
        /\ UNCHANGED <<shards, nodes, data, moved, stale>>
        /\ Persist

VerifyFails(m) ==
    /\ op = [at |-> "verify", mig |-> m]
    /\ ~DigestOK(data[migs[m].target][migs[m].shard], migs[m].source_digest)
    /\ Fail(m)

\* An exception other than MigrationVerificationError leaves VERIFYING.
VerifyRaises(m) ==
    /\ op = [at |-> "verify", mig |-> m]
    /\ "transfer_fail" \in Env
    /\ op' = Idle
    /\ UNCHANGED <<shards, nodes, migs, disk, data, moved, stale>>

\* commit: COMMITTING is durable once source and target are valid ...
Commit(m) ==
    /\ op = Idle
    /\ migs[m].state = "VERIFYING"
    /\ SourceValid(m)
    /\ Member(migs[m].target)
    /\ shards[migs[m].shard].version < MaxVersion
    /\ Enter(m, "COMMITTING", [at |-> "commit", mig |-> m])

\* Mutant: the remaining replicas are not validated.
CommitValidAnyReplicas(m) == OwnershipValid(migs[m].target, NewReplicas(m))

\* validate_ownership and validate_replicas do not raise.
CommitValid(m) ==
    /\ OwnershipValid(migs[m].target, NewReplicas(m))
    /\ \A r \in NewReplicas(m) : Member(r)

\* Mutant: the shard is changed in memory and not put into the store.
CommitOwnershipInMemory(m) ==
    LET s == migs[m].shard
    IN  /\ op = [at |-> "commit", mig |-> m]
        /\ CommitValid(m)
        /\ shards' = [shards EXCEPT ![s] = MovedShard(m)]
        /\ moved' = moved \cup {m}
        /\ op' = [at |-> "finalize", mig |-> m]
        /\ UNCHANGED <<nodes, migs, disk, data, stale>>

\* ... the shard record moves to the target and is stored ...
CommitOwnership(m) ==
    LET s == migs[m].shard
    IN  /\ op = [at |-> "commit", mig |-> m]
        /\ CommitValid(m)
        /\ shards' = [shards EXCEPT ![s] = MovedShard(m)]
        /\ moved' = moved \cup {m}
        /\ op' = [at |-> "finalize", mig |-> m]
        /\ UNCHANGED <<nodes, migs, data, stale>>
        /\ Persist

\* ... or is rolled back, and the migration fails ...
CommitRollsBack(m) ==
    /\ op = [at |-> "commit", mig |-> m]
    /\ ~CommitValid(m)
    /\ Fail(m)

\* Mutant: the end of the cleanup is recorded as a state of its own.
FinalizeSourceAsState(m) ==
    /\ op = [at |-> "finalize", mig |-> m]
    /\ migs' = [migs EXCEPT ![m].state = "FINALIZED"]
    /\ op' = [at |-> "complete", mig |-> m]
    /\ UNCHANGED <<shards, nodes, disk, data, moved, stale>>

\* ... the source's storage is removed, as far as that works ...
FinalizeSource(m) ==
    LET source == migs[m].source
        s == migs[m].shard
    IN  /\ op = [at |-> "finalize", mig |-> m]
        /\ \/ /\ data' = [data EXCEPT ![source][s] = EmptyContent]
              /\ migs' = [migs EXCEPT ![m].finalized = TRUE]
           \/ /\ "cleanup_fail" \in Env
              /\ \E c \in Leftovers(data[source][s]) : data' = [data EXCEPT ![source][s] = c]
              /\ migs' = migs
        /\ op' = [at |-> "complete", mig |-> m]
        /\ UNCHANGED <<shards, nodes, disk, moved, stale>>

\* Mutant: a failed cleanup fails the migration.
CommitEndsByCleanup(m) ==
    /\ op = [at |-> "complete", mig |-> m]
    /\ Enter(m, IF migs[m].finalized THEN "COMPLETED" ELSE "FAILED", Idle)

\* ... and the migration is COMPLETED, finalized or not.
CommitEnds(m) ==
    /\ op = [at |-> "complete", mig |-> m]
    /\ Enter(m, "COMPLETED", Idle)

\* cancel: a copy is discarded first, as far as that works ...
CancelDiscards(m) ==
    LET target == migs[m].target
        s == migs[m].shard
    IN  /\ "cancel" \in Env
        /\ op = Idle
        /\ migs[m].state \in {"COPYING", "VERIFYING"}
        /\ shards[s].state # "ABSENT"
        /\ \/ data' = [data EXCEPT ![target][s] = EmptyContent]
           \/ /\ "cleanup_fail" \in Env
              /\ \E c \in Leftovers(data[target][s]) : data' = [data EXCEPT ![target][s] = c]
        /\ op' = [at |-> "cancel", mig |-> m]
        /\ UNCHANGED <<shards, nodes, migs, disk, moved, stale>>

\* Mutant: cancel returns after discarding the target.
CancelEndsEarly(m) ==
    /\ op = [at |-> "cancel", mig |-> m]
    /\ op' = Idle
    /\ UNCHANGED <<shards, nodes, migs, disk, data, moved, stale>>

\* ... and then the migration is CANCELLED.
CancelEnds(m) ==
    /\ \/ op = [at |-> "cancel", mig |-> m]
       \/ /\ "cancel" \in Env
          /\ op = Idle
          /\ migs[m].state \in Cancelable
          /\ \/ migs[m].state \in {"PENDING", "PREPARING"}
             \/ shards[migs[m].shard].state = "ABSENT"
    /\ Enter(m, "CANCELLED", Idle)

\* fail: the operator's backstop for every migration that is not terminal.
ForceFail(m) ==
    /\ op = Idle
    /\ migs[m].state \in MigrationState \ Terminal
    /\ Fail(m)

-----------------------------------------------------------------------------
(* ShardLifecycleManager and the namespaces that create and delete shards *)

\* put and delete of a shard record by anyone but a migration.
PutShard(s, record) ==
    /\ shards' = [shards EXCEPT ![s] = record]
    /\ stale' = Outdated(s)
    /\ UNCHANGED <<nodes, migs, data, op, moved>>
    /\ Persist

\* activate, begin_drain, retire
TransitionShard(s, to) ==
    /\ "lifecycle" \in Env
    /\ op = Idle
    /\ shards[s].state \in ShardState
    /\ to \in ShardTransitions[shards[s].state]
    /\ shards[s].version < MaxVersion
    /\ PutShard(s, [shards[s] EXCEPT !.state = to, !.version = @ + 1])

\* Mutant: the new owner is compared with the replicas it had before.
ReassignableBefore(s, owner, replicas) == Member(owner) /\ owner \notin shards[s].replicas

\* The checks of change_owner on the new owner and the new replicas.
Reassignable(s, owner, replicas) == Member(owner) /\ OwnershipValid(owner, replicas)

\* change_owner moves no data and does not look at migrations.
ChangeOwner(s, owner, replicas) ==
    /\ "change_owner" \in Env
    /\ op = Idle
    /\ shards[s].state = "DRAINING"
    /\ Reassignable(s, owner, replicas)
    /\ shards[s].version < MaxVersion
    /\ PutShard(s, [shards[s] EXCEPT !.node_id = owner, !.replicas = replicas,
                                     !.version = @ + 1])

\* delete_namespace removes the record and none of the data.
DropShard(s) ==
    /\ "drop" \in Env
    /\ op = Idle
    /\ shards[s].state # "ABSENT"
    /\ PutShard(s, NoShard)

\* create: CREATING, version 1, under an id derived from the namespace's name;
\* only called for a namespace that has no shards.
CreateShard(s, owner, replicas) ==
    /\ "recreate" \in Env
    /\ op = Idle
    /\ shards[s].state = "ABSENT"
    /\ Member(owner)
    /\ OwnershipValid(owner, replicas)
    /\ PutShard(s, [state |-> "CREATING", node_id |-> owner, replicas |-> replicas,
                    version |-> 1])

-----------------------------------------------------------------------------
(* ClusterMembershipManager: register, activate, begin_drain, remove *)

TransitionNode(n, to) ==
    /\ "membership" \in Env
    /\ op = Idle
    /\ to \in NodeTransitions[nodes[n]]
    /\ nodes' = [nodes EXCEPT ![n] = to]
    /\ UNCHANGED <<shards, migs, data, op, moved, stale>>
    /\ Persist

-----------------------------------------------------------------------------
(* Clients of the owner, and the faults *)

Store(n, s, r, cell) ==
    /\ data' = [data EXCEPT ![n][s][r] = cell]
    /\ UNCHANGED <<shards, nodes, migs, disk, op, moved, stale>>

\* IngestService.upsert on the node that owns the shard, behind route_write.
Upsert(s, r, v) ==
    /\ "write" \in Env
    /\ op = Idle
    /\ shards[s].state = "ACTIVE"
    /\ Member(shards[s].node_id)
    /\ Store(shards[s].node_id, s, r, v)

\* IngestService.delete, behind writable, which does not ask the membership.
Delete(s, r) ==
    /\ "write" \in Env
    /\ op = Idle
    /\ shards[s].state = "ACTIVE"
    /\ Store(shards[s].node_id, s, r, "deleted")

\* Files change under the root an open migration copies to, while that root
\* is not authoritative for the shard.
Tamper(n, s, c) ==
    /\ "tamper" \in Env
    /\ shards[s].state # "ABSENT"
    /\ n # shards[s].node_id
    /\ \E m \in Migs : InProgress(m, s) /\ migs[m].target = n
    /\ data' = [data EXCEPT ![n][s] = c]
    /\ UNCHANGED <<shards, nodes, migs, disk, op, moved, stale>>

\* The process dies; a new one loads the store (InMemoryEtcd._load).
CrashRestart ==
    /\ "crash" \in Env
    /\ shards' = disk.shards
    /\ nodes' = disk.nodes
    /\ migs' = disk.migs
    /\ moved' = disk.moved
    /\ stale' = disk.stale
    /\ op' = Idle
    /\ UNCHANGED <<disk, data>>

-----------------------------------------------------------------------------

MigrationStep(m) ==
    \/ \E s \in Shards, target \in Nodes : CreateMigration(m, s, target)
    \/ StaleFails(m)
    \/ Prepare(m)
    \/ StartCopy(m) \/ ImportBegins(m) \/ ImportEnds(m) \/ CheckCopy(m) \/ CopyFails(m)
    \/ Verify(m) \/ VerifyEnds(m) \/ VerifyFails(m) \/ VerifyRaises(m)
    \/ Commit(m) \/ CommitOwnership(m) \/ CommitRollsBack(m)
    \/ FinalizeSource(m) \/ CommitEnds(m)
    \/ CancelDiscards(m) \/ CancelEnds(m)
    \/ ForceFail(m)

ShardStep(s) ==
    \/ \E to \in ShardState : TransitionShard(s, to)
    \/ \E owner \in Nodes, replicas \in SUBSET Nodes : ChangeOwner(s, owner, replicas)
    \/ DropShard(s)
    \/ \E owner \in Nodes, replicas \in SUBSET Nodes : CreateShard(s, owner, replicas)
    \/ \E r \in Recs, v \in Vals : Upsert(s, r, v)
    \/ \E r \in Recs : Delete(s, r)
    \/ \E n \in Nodes, c \in Content : Tamper(n, s, c)

Next ==
    \/ \E m \in Migs : MigrationStep(m)
    \/ \E s \in Shards : ShardStep(s)
    \/ \E n \in Nodes, to \in NodeState : TransitionNode(n, to)
    \/ CrashRestart

Spec == Init /\ [][Next]_vars

-----------------------------------------------------------------------------
(* Properties *)

\* create_migration refuses a shard that has an open migration, and an open
\* migration only ends: in memory and in the file a restart loads, a shard
\* has at most one open migration, whatever failed in between.
AtMostOneOpen(ms) ==
    \A m1, m2 \in Migs :
        /\ ms[m1].state \notin Terminal \cup {"NONE"}
        /\ ms[m2].state \notin Terminal \cup {"NONE"}
        /\ ms[m1].shard = ms[m2].shard
        => m1 = m2

OneOpenMigration == AtMostOneOpen(migs) /\ AtMostOneOpen(disk.migs)

\* The new primary is never present in its own replica list, after any mix of
\* commits, rollbacks, owner changes and restarts.
NotOwnReplica(ss) ==
    \A s \in Shards : ss[s].state # "ABSENT" => ss[s].node_id \notin ss[s].replicas

PrimaryNotReplica == NotOwnReplica(shards) /\ NotOwnReplica(disk.shards)

\* The owner of a shard changes only by change_owner on a DRAINING shard, by
\* the commit step of a migration that still is what it was created for (from
\* its source, to its target, one version after the one it captured, all
\* replicas members), or by a restart that loads the durable record again.
OwnerMove(s) ==
    \/ shards[s].state = "DRAINING" /\ op = Idle
    \/ shards'[s] = disk.shards[s]
    \/ \E m \in Migs :
          /\ op = [at |-> "commit", mig |-> m]
          /\ migs[m].shard = s
          /\ shards[s].node_id = migs[m].source
          /\ shards'[s].node_id = migs[m].target
          /\ shards'[s].version = migs[m].source_version + 1
          /\ \A r \in shards'[s].replicas : Member(r)

OwnershipBoundary ==
    [][\A s \in Shards :
          /\ shards[s].state # "ABSENT"
          /\ shards'[s].state # "ABSENT"
          /\ shards'[s].node_id # shards[s].node_id
          => OwnerMove(s)]_vars

\* A migration whose shard record was changed by anybody else after it was
\* created never moves ownership: it never overwrites a newer record.
StaleNeverCommits == [][moved' \cap stale' \subseteq moved]_vars

\* The digests recorded when ownership moves: present, and equal.
DigestsAgreeAtCommit ==
    [][\A m \in moved' \ moved :
          /\ migs[m].source_digest # NoDigest
          /\ migs[m].target_digest = migs[m].source_digest]_vars

\* When ownership moves on a recorded digest, the target's storage has the
\* content of that digest.
TargetHoldsDigestAtCommit ==
    [][\A m \in moved' \ moved :
          migs[m].source_digest # NoDigest
          => data[migs[m].target][migs[m].shard] = migs[m].source_digest]_vars

\* A migration preserves the shard's contents: the target has what the source
\* has when ownership moves, for a shard that is DRAINING then and on a recorded
\* digest.  The captured version rules out that the shard was writable since the
\* copy; an ACTIVE shard takes writes that the target does not get.
DrainedMigrationPreservesContents ==
    [][\A m \in moved' \ moved :
          /\ shards[migs[m].shard].state = "DRAINING"
          /\ migs[m].source_digest # NoDigest
          => data[migs[m].target][migs[m].shard] = data[migs[m].source][migs[m].shard]]_vars

\* A migration that ended FAILED or CANCELLED has not moved ownership.
FailedNeverMoved == \A m \in moved : migs[m].state \notin {"FAILED", "CANCELLED"}

\* The managers never remove or overwrite a shard's data on the node that
\* owns it, neither the owner in memory nor the one a restart would load.
OwnerDataKept ==
    [][\A s \in Shards, n \in Nodes :
          /\ data'[n][s] # data[n][s]
          /\ op # Idle \/ op' # Idle
          => /\ shards'[s].state # "ABSENT" => shards'[s].node_id # n
             /\ disk'.shards[s].state # "ABSENT" => disk'.shards[s].node_id # n]_vars
=============================================================================
