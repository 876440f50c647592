------------------------ MODULE ShardMigrationProofs ------------------------
(***************************************************************************)
(* Proofs about ShardMigration, for every set of nodes, shards, migrations *)
(* and records.  In every environment Env: type correctness, at most one   *)
(* open migration per shard, no owner among its own replicas, and the      *)
(* boundary at which ownership may move.  In the environments a theorem    *)
(* names: what failed did not move the owner, digests agree when it moves, *)
(* stale migrations never move it, the target then has the content, and    *)
(* nothing touches the owner's data.                                       *)
(***************************************************************************)
EXTENDS ShardMigration, TLAPS

\* The state of the migration whose operation is between two steps.
OpMatches ==
    /\ op.at \in {"copy", "import", "check"} => migs[op.mig].state = "COPYING"
    /\ op.at = "verify" => migs[op.mig].state = "VERIFYING"
    /\ op.at \in {"commit", "finalize", "complete"} => migs[op.mig].state = "COMMITTING"
    /\ op.at = "cancel" => migs[op.mig].state \in {"COPYING", "VERIFYING"}

\* What commit checked when it began still holds when it moves the owner.
CommitStillValid == op.at = "commit" => SourceValid(op.mig)

-----------------------------------------------------------------------------
(* Type correctness *)

\* The part of TypeOK that is about memory.
MemoryOK ==
    /\ shards \in [Shards -> ShardRecord \cup {NoShard}]
    /\ nodes \in [Nodes -> NodeState]
    /\ migs \in [Migs -> MigrationRecord \cup {NoMigration}]
    /\ moved \in SUBSET Migs
    /\ stale \in SUBSET Migs

\* _persist writes what is in memory, or nothing: the file stays well typed.
LEMMA PersistTyped ==
    ASSUME disk \in StoreRecord, MemoryOK', Persist
    PROVE  disk' \in StoreRecord
BY DEF Persist, MemoryOK, StoreRecord

\* A migration in any state of MigrationState is a full record.
LEMMA OpenIsRecord ==
    ASSUME TypeOK, NEW m \in Migs, migs[m].state \in MigrationState
    PROVE  migs[m] \in MigrationRecord
<1>1. migs[m] \in MigrationRecord \cup {NoMigration}
  BY DEF TypeOK
<1>2. "NONE" \notin MigrationState
  BY DEF MigrationState
<1>3. QED
  BY <1>1, <1>2 DEF NoMigration

\* A shard that is not ABSENT is a full record.
LEMMA PresentIsRecord ==
    ASSUME TypeOK, NEW s \in Shards, shards[s].state # "ABSENT"
    PROVE  shards[s] \in ShardRecord
BY DEF TypeOK, NoShard

\* A transition of one migration keeps the types, wherever op goes.
LEMMA EnterTyped ==
    ASSUME TypeOK, NEW m \in Migs, migs[m].state \in MigrationState,
           NEW to \in MigrationState, NEW next \in {Idle} \cup [at: OpStep, mig: Migs],
           Enter(m, to, next)
    PROVE  TypeOK'
<1>1. migs[m] \in MigrationRecord
  BY OpenIsRecord
<1>2. [migs[m] EXCEPT !.state = to] \in MigrationRecord
  BY <1>1 DEF MigrationRecord
<1>3. migs' \in [Migs -> MigrationRecord \cup {NoMigration}]
  BY <1>2 DEF TypeOK, Enter
<1>4. MemoryOK'
  BY <1>3 DEF TypeOK, MemoryOK, Enter
<1>5. disk' \in StoreRecord
  BY <1>4, PersistTyped DEF TypeOK, Enter
<1>6. QED
  BY <1>4, <1>5 DEF TypeOK, MemoryOK, Enter

\* So does _fail.
LEMMA FailTyped ==
    ASSUME TypeOK, NEW m \in Migs, migs[m].state \in MigrationState, Fail(m)
    PROVE  TypeOK'
<1>1. Enter(m, "FAILED", Idle)
  BY DEF Fail, Enter
<1>2. QED
  BY <1>1, EnterTyped DEF MigrationState

\* Recording a digest keeps the types.
LEMMA DigestTyped ==
    ASSUME TypeOK, NEW m \in Migs, migs[m].state \in MigrationState, NEW d \in Content
    PROVE  /\ [migs EXCEPT ![m].source_digest = d]
                  \in [Migs -> MigrationRecord \cup {NoMigration}]
           /\ [migs EXCEPT ![m].target_digest = d]
                  \in [Migs -> MigrationRecord \cup {NoMigration}]
<1>1. migs[m] \in MigrationRecord
  BY OpenIsRecord
<1>2. /\ [migs[m] EXCEPT !.source_digest = d] \in MigrationRecord
      /\ [migs[m] EXCEPT !.target_digest = d] \in MigrationRecord
  BY <1>1 DEF MigrationRecord, Digest
<1>3. QED
  BY <1>2 DEF TypeOK

\* So does recording that the source was cleaned up.
LEMMA FinalizedTyped ==
    ASSUME TypeOK, NEW m \in Migs, migs[m].state \in MigrationState
    PROVE  [migs EXCEPT ![m].finalized = TRUE]
               \in [Migs -> MigrationRecord \cup {NoMigration}]
<1>1. migs[m] \in MigrationRecord
  BY OpenIsRecord
<1>2. [migs[m] EXCEPT !.finalized = TRUE] \in MigrationRecord
  BY <1>1 DEF MigrationRecord
<1>3. QED
  BY <1>2 DEF TypeOK

\* The content of a cell of data may be replaced by any content.
LEMMA DataTyped ==
    ASSUME TypeOK, NEW n \in Nodes, NEW s \in Shards, NEW c \in Content
    PROVE  /\ data[n][s] \in Content
           /\ [data EXCEPT ![n][s] = c] \in [Nodes -> [Shards -> Content]]
BY DEF TypeOK

\* What interrupted imports and removals leave is a content.
LEMMA PartialTyped ==
    ASSUME NEW c \in Content
    PROVE  /\ PartialImports(c) \subseteq Content
           /\ Leftovers(c) \subseteq Content
           /\ EmptyContent \in Content
BY DEF PartialImports, Leftovers, Content, Cell, EmptyContent

\* The parameters of an open migration.
LEMMA MigrationFields ==
    ASSUME TypeOK, NEW m \in Migs, migs[m].state \in MigrationState
    PROVE  /\ migs[m].shard \in Shards
           /\ migs[m].source \in Nodes
           /\ migs[m].target \in Nodes
           /\ migs[m].source_version \in Version
BY OpenIsRecord DEF MigrationRecord

\* A shard record written by a manager keeps the types.
LEMMA PutShardTyped ==
    ASSUME TypeOK, NEW s \in Shards, NEW r \in ShardRecord \cup {NoShard}, PutShard(s, r)
    PROVE  TypeOK'
<1>1. shards' \in [Shards -> ShardRecord \cup {NoShard}]
  BY DEF TypeOK, PutShard
<1>2. stale' \in SUBSET Migs
  BY DEF TypeOK, PutShard, Outdated
<1>3. MemoryOK'
  BY <1>1, <1>2 DEF TypeOK, MemoryOK, PutShard
<1>4. disk' \in StoreRecord
  BY <1>3, PersistTyped DEF TypeOK, PutShard
<1>5. QED
  BY <1>3, <1>4 DEF TypeOK, MemoryOK, PutShard

\* Every step of a migration keeps the types.
LEMMA MigrationTyped ==
    ASSUME TypeOK, OpMatches, CommitStillValid, NEW m \in Migs, MigrationStep(m)
    PROVE  TypeOK'
<1> USE DEF MigrationState
<1>1. ASSUME NEW s \in Shards, NEW target \in Nodes, CreateMigration(m, s, target)
      PROVE  TypeOK'
  <2>1. shards[s] \in ShardRecord
    BY <1>1, PresentIsRecord DEF CreateMigration, MIGRATABLE_STATES
  <2>2. shards[s].node_id \in Nodes /\ shards[s].version \in Version
    BY <2>1 DEF ShardRecord
  <2>3. [state |-> "PENDING", shard |-> s, source |-> shards[s].node_id,
         target |-> target, source_version |-> shards[s].version,
         source_digest |-> NoDigest, target_digest |-> NoDigest,
         finalized |-> FALSE] \in MigrationRecord
    BY <1>1, <2>2 DEF MigrationRecord, Digest
  <2>4. migs' \in [Migs -> MigrationRecord \cup {NoMigration}]
    BY <1>1, <2>3 DEF CreateMigration, TypeOK
  <2>5. MemoryOK'
    BY <1>1, <2>4 DEF CreateMigration, TypeOK, MemoryOK
  <2>6. disk' \in StoreRecord
    BY <1>1, <2>5, PersistTyped DEF CreateMigration, TypeOK
  <2>7. QED
    BY <1>1, <2>5, <2>6 DEF CreateMigration, TypeOK, MemoryOK
<1>2. ASSUME StaleFails(m) \/ CopyFails(m) \/ VerifyFails(m) \/ CommitRollsBack(m)
             \/ ForceFail(m)
      PROVE  TypeOK'
  <2>1. migs[m].state \in MigrationState
    BY <1>2 DEF StaleFails, CopyFails, VerifyFails, CommitRollsBack, ForceFail, OpMatches
  <2>2. Fail(m)
    BY <1>2 DEF StaleFails, CopyFails, VerifyFails, CommitRollsBack, ForceFail
  <2>3. QED
    BY <2>1, <2>2, FailTyped
<1>3. ASSUME Prepare(m) \/ StartCopy(m) \/ Verify(m) \/ Commit(m)
      PROVE  TypeOK'
  <2>1. migs[m].state \in MigrationState
    BY <1>3 DEF Prepare, StartCopy, Verify, Commit
  <2>2. \E to \in MigrationState, next \in {Idle} \cup [at: OpStep, mig: Migs] :
            Enter(m, to, next)
    <3>1. CASE Prepare(m)
      BY <3>1 DEF Prepare
    <3>2. CASE StartCopy(m)
      BY <3>2 DEF StartCopy, OpStep
    <3>3. CASE Verify(m)
      BY <3>3 DEF Verify, OpStep
    <3>4. CASE Commit(m)
      BY <3>4 DEF Commit, OpStep
    <3>5. QED
      BY <1>3, <3>1, <3>2, <3>3, <3>4
  <2>3. QED
    BY <2>1, <2>2, EnterTyped
<1>4. ASSUME CommitEnds(m) \/ CancelEnds(m)
      PROVE  TypeOK'
  <2>1. migs[m].state \in MigrationState
    BY <1>4 DEF CommitEnds, CancelEnds, OpMatches, Cancelable
  <2>2. \E to \in MigrationState : Enter(m, to, Idle)
    BY <1>4 DEF CommitEnds, CancelEnds
  <2>3. QED
    BY <2>1, <2>2, EnterTyped
<1>5. CASE ImportBegins(m)
  <2>1. migs[m].state \in MigrationState
    BY <1>5 DEF ImportBegins, OpMatches
  <2>2. /\ data[migs[m].source][migs[m].shard] \in Content
        /\ data[migs[m].target][migs[m].shard] \in Content
    BY <2>1, MigrationFields DEF TypeOK
  <2>3. PICK c \in Leftovers(data[migs[m].target][migs[m].shard])
                     \cup PartialImports(data[migs[m].source][migs[m].shard]) :
            data' = [data EXCEPT ![migs[m].target][migs[m].shard] = c]
    BY <1>5 DEF ImportBegins
  <2>4. c \in Content
    BY <2>2, <2>3, PartialTyped
  <2>5. data' \in [Nodes -> [Shards -> Content]]
    BY <2>1, <2>3, <2>4, MigrationFields, DataTyped
  <2>6. QED
    BY <1>5, <2>5 DEF ImportBegins, TypeOK, OpStep
<1>6. CASE ImportEnds(m)
  <2>1. migs[m].state \in MigrationState
    BY <1>6 DEF ImportEnds, OpMatches
  <2>2. data[migs[m].source][migs[m].shard] \in Content
    BY <2>1, MigrationFields DEF TypeOK
  <2>3. data' \in [Nodes -> [Shards -> Content]]
    BY <1>6, <2>1, <2>2, MigrationFields, DataTyped DEF ImportEnds
  <2>4. migs' \in [Migs -> MigrationRecord \cup {NoMigration}]
    BY <1>6, <2>1, <2>2, DigestTyped DEF ImportEnds
  <2>5. QED
    BY <1>6, <2>3, <2>4 DEF ImportEnds, TypeOK, OpStep
<1>7. ASSUME CheckCopy(m) \/ VerifyEnds(m)
      PROVE  TypeOK'
  <2>1. migs[m].state \in MigrationState
    BY <1>7 DEF CheckCopy, VerifyEnds, OpMatches
  <2>2. data[migs[m].target][migs[m].shard] \in Content
    BY <2>1, MigrationFields DEF TypeOK
  <2>3. migs' \in [Migs -> MigrationRecord \cup {NoMigration}]
    <3>1. migs' = [migs EXCEPT ![m].target_digest = data[migs[m].target][migs[m].shard]]
      BY <1>7 DEF CheckCopy, VerifyEnds
    <3>2. QED
      BY <2>1, <2>2, <3>1, DigestTyped
  <2>4. MemoryOK'
    BY <1>7, <2>3 DEF CheckCopy, VerifyEnds, TypeOK, MemoryOK
  <2>5. disk' \in StoreRecord
    BY <1>7, <2>4, PersistTyped DEF CheckCopy, VerifyEnds, TypeOK
  <2>6. QED
    BY <1>7, <2>4, <2>5 DEF CheckCopy, VerifyEnds, TypeOK, MemoryOK
<1>8. CASE VerifyRaises(m)
  BY <1>8 DEF VerifyRaises, TypeOK
<1>9. CASE CommitOwnership(m)
  <2> DEFINE s == migs[m].shard
  <2>1. migs[m].state \in MigrationState
    BY <1>9 DEF CommitOwnership, OpMatches
  <2>2. s \in Shards /\ migs[m].target \in Nodes
    BY <2>1, MigrationFields
  <2>3. shards[s] \in ShardRecord
    BY <1>9, <2>2, PresentIsRecord
       DEF CommitOwnership, CommitStillValid, SourceValid, MIGRATABLE_STATES
  <2>4. MovedShard(m) \in ShardRecord
    BY <2>2, <2>3 DEF MovedShard, ShardRecord, NewReplicas, Version
  <2>5. shards' = [shards EXCEPT ![s] = MovedShard(m)]
    BY <1>9 DEF CommitOwnership
  <2>6. shards' \in [Shards -> ShardRecord \cup {NoShard}]
    BY <2>2, <2>4, <2>5 DEF TypeOK
  <2>7. MemoryOK'
    BY <1>9, <2>6 DEF CommitOwnership, TypeOK, MemoryOK
  <2>8. disk' \in StoreRecord
    BY <1>9, <2>7, PersistTyped DEF CommitOwnership, TypeOK
  <2>9. QED
    BY <1>9, <2>7, <2>8 DEF CommitOwnership, TypeOK, MemoryOK, OpStep
<1>10. CASE FinalizeSource(m)
  <2> DEFINE source == migs[m].source
             s == migs[m].shard
  <2>1. migs[m].state \in MigrationState
    BY <1>10 DEF FinalizeSource, OpMatches
  <2>2. s \in Shards /\ source \in Nodes
    BY <2>1, MigrationFields
  <2>3. data[source][s] \in Content
    BY <2>2 DEF TypeOK
  <2>4. PICK c \in Content : data' = [data EXCEPT ![source][s] = c]
    BY <1>10, <2>3, PartialTyped DEF FinalizeSource
  <2>5. data' \in [Nodes -> [Shards -> Content]]
    BY <2>2, <2>4, DataTyped
  <2>6. migs' \in [Migs -> MigrationRecord \cup {NoMigration}]
    <3>1. migs' = migs \/ migs' = [migs EXCEPT ![m].finalized = TRUE]
      BY <1>10 DEF FinalizeSource
    <3>2. migs \in [Migs -> MigrationRecord \cup {NoMigration}]
      BY DEF TypeOK
    <3>3. QED
      BY <2>1, <3>1, <3>2, FinalizedTyped
  <2>7. QED
    BY <1>10, <2>5, <2>6 DEF FinalizeSource, TypeOK, OpStep
<1>11. CASE CancelDiscards(m)
  <2> DEFINE target == migs[m].target
             s == migs[m].shard
  <2>1. migs[m].state \in MigrationState
    BY <1>11 DEF CancelDiscards
  <2>2. s \in Shards /\ target \in Nodes
    BY <2>1, MigrationFields
  <2>3. data[target][s] \in Content
    BY <2>2 DEF TypeOK
  <2>4. PICK c \in Content : data' = [data EXCEPT ![target][s] = c]
    BY <1>11, <2>3, PartialTyped DEF CancelDiscards
  <2>5. data' \in [Nodes -> [Shards -> Content]]
    BY <2>2, <2>4, DataTyped
  <2>6. QED
    BY <1>11, <2>5 DEF CancelDiscards, TypeOK, OpStep
<1>12. QED
  BY <1>1, <1>2, <1>3, <1>4, <1>5, <1>6, <1>7, <1>8, <1>9, <1>10, <1>11 DEF MigrationStep

\* Every step on a shard record keeps the types.
LEMMA ShardTyped ==
    ASSUME TypeOK, NEW s \in Shards, ShardStep(s)
    PROVE  TypeOK'
<1>1. ASSUME NEW to \in ShardState, TransitionShard(s, to)
      PROVE  TypeOK'
  <2>1. shards[s] \in ShardRecord
    BY <1>1, PresentIsRecord DEF TransitionShard, ShardState
  <2>2. [shards[s] EXCEPT !.state = to, !.version = @ + 1] \in ShardRecord
    <3>1. shards[s].version + 1 \in Version
      BY <2>1 DEF ShardRecord, Version
    <3>2. QED
      BY <2>1, <3>1 DEF ShardRecord
  <2>3. QED
    BY <1>1, <2>2, PutShardTyped DEF TransitionShard
<1>2. ASSUME NEW owner \in Nodes, NEW replicas \in SUBSET Nodes,
             ChangeOwner(s, owner, replicas)
      PROVE  TypeOK'
  <2>1. shards[s] \in ShardRecord
    BY <1>2, PresentIsRecord DEF ChangeOwner
  <2>2. [shards[s] EXCEPT !.node_id = owner, !.replicas = replicas, !.version = @ + 1]
            \in ShardRecord
    <3>1. shards[s].version + 1 \in Version
      BY <2>1 DEF ShardRecord, Version
    <3>2. QED
      BY <2>1, <3>1 DEF ShardRecord
  <2>3. QED
    BY <1>2, <2>2, PutShardTyped DEF ChangeOwner
<1>3. CASE DropShard(s)
  BY <1>3, PutShardTyped DEF DropShard
<1>4. ASSUME NEW owner \in Nodes, NEW replicas \in SUBSET Nodes,
             CreateShard(s, owner, replicas)
      PROVE  TypeOK'
  <2>1. [state |-> "CREATING", node_id |-> owner, replicas |-> replicas, version |-> 1]
            \in ShardRecord
    BY DEF ShardRecord, ShardState, Version
  <2>2. QED
    BY <1>4, <2>1, PutShardTyped DEF CreateShard
<1>5. ASSUME NEW r \in Recs, NEW cell \in Cell, NEW n \in Nodes, Store(n, s, r, cell)
      PROVE  TypeOK'
  <2>1. [data[n][s] EXCEPT ![r] = cell] \in Content
    BY DEF TypeOK, Content
  <2>2. data' \in [Nodes -> [Shards -> Content]]
    BY <1>5, <2>1 DEF Store, TypeOK
  <2>3. QED
    BY <1>5, <2>2 DEF Store, TypeOK
<1>6. ASSUME NEW r \in Recs, NEW v \in Vals, Upsert(s, r, v)
      PROVE  TypeOK'
  <2>1. shards[s].node_id \in Nodes
    BY <1>6, PresentIsRecord DEF Upsert, ShardRecord
  <2>2. QED
    BY <1>5, <1>6, <2>1 DEF Upsert, Cell
<1>7. ASSUME NEW r \in Recs, Delete(s, r)
      PROVE  TypeOK'
  <2>1. shards[s].node_id \in Nodes
    BY <1>7, PresentIsRecord DEF Delete, ShardRecord
  <2>2. QED
    BY <1>5, <1>7, <2>1 DEF Delete, Cell
<1>8. ASSUME NEW n \in Nodes, NEW c \in Content, Tamper(n, s, c)
      PROVE  TypeOK'
  <2>1. data' \in [Nodes -> [Shards -> Content]]
    BY <1>8, DataTyped DEF Tamper
  <2>2. QED
    BY <1>8, <2>1 DEF Tamper, TypeOK
<1>9. QED
  BY <1>1, <1>2, <1>3, <1>4, <1>6, <1>7, <1>8 DEF ShardStep

\* Every step keeps the types.
LEMMA StepTyped ==
    ASSUME TypeOK, OpMatches, CommitStillValid, [Next]_vars
    PROVE  TypeOK'
<1>1. ASSUME NEW n \in Nodes, NEW to \in NodeState, TransitionNode(n, to)
      PROVE  TypeOK'
  <2>1. MemoryOK'
    BY <1>1 DEF TransitionNode, TypeOK, MemoryOK
  <2>2. disk' \in StoreRecord
    BY <1>1, <2>1, PersistTyped DEF TransitionNode, TypeOK
  <2>3. QED
    BY <1>1, <2>1, <2>2 DEF TransitionNode, TypeOK, MemoryOK
<1>2. CASE CrashRestart
  BY <1>2 DEF CrashRestart, TypeOK, StoreRecord
<1>3. CASE UNCHANGED vars
  BY <1>3 DEF vars, TypeOK
<1>4. QED
  BY <1>1, <1>2, <1>3, MigrationTyped, ShardTyped DEF Next

-----------------------------------------------------------------------------
(* The operation in progress *)

\* The two facts about the operation in progress, for one state.
OpInv == OpMatches /\ CommitStillValid

\* They are void when no operation is in progress.
LEMMA IdleOpInv ==
    ASSUME op' = Idle
    PROVE  OpInv'
BY DEF OpInv, OpMatches, CommitStillValid, Idle

\* A step that leaves op, migrations and shards alone keeps them.
LEMMA UnchangedOpInv ==
    ASSUME OpInv, UNCHANGED <<op, migs, shards>>
    PROVE  OpInv'
BY DEF OpInv, OpMatches, CommitStillValid, SourceValid

\* Every step keeps them: the steps of one operation hand the migration's
\* state on, and nothing else runs in between.
LEMMA StepOpInv ==
    ASSUME TypeOK, OpInv, [Next]_vars
    PROVE  OpInv'
<1>1. ASSUME NEW m \in Migs, MigrationStep(m)
      PROVE  OpInv'
  <2>1. ASSUME \E s \in Shards, target \in Nodes : CreateMigration(m, s, target)
        PROVE  OpInv'
    BY <2>1, IdleOpInv DEF CreateMigration
  <2>2. ASSUME StaleFails(m) \/ CopyFails(m) \/ VerifyFails(m) \/ CommitRollsBack(m)
               \/ ForceFail(m) \/ Prepare(m) \/ CheckCopy(m) \/ VerifyEnds(m)
               \/ VerifyRaises(m) \/ CommitEnds(m) \/ CancelEnds(m)
        PROVE  OpInv'
    <3>1. op' = Idle
      BY <2>2 DEF StaleFails, CopyFails, VerifyFails, CommitRollsBack, ForceFail, Prepare,
                  CheckCopy, VerifyEnds, VerifyRaises, CommitEnds, CancelEnds, Fail, Enter
    <3>2. QED
      BY <3>1, IdleOpInv
  <2>3. ASSUME StartCopy(m) \/ Verify(m)
        PROVE  OpInv'
    <3>1. \/ op' = [at |-> "copy", mig |-> m] /\ migs'[m].state = "COPYING"
          \/ op' = [at |-> "verify", mig |-> m] /\ migs'[m].state = "VERIFYING"
      BY <2>3, OpenIsRecord DEF StartCopy, Verify, Enter, TypeOK, MigrationRecord, MigrationState
    <3>2. QED
      BY <3>1 DEF OpInv, OpMatches, CommitStillValid
  <2>4. CASE Commit(m)
    <3>1. migs[m] \in MigrationRecord
      BY <2>4, OpenIsRecord DEF Commit, MigrationState
    <3>2. /\ migs' = [migs EXCEPT ![m].state = "COMMITTING"]
          /\ op' = [at |-> "commit", mig |-> m]
          /\ shards' = shards
      BY <2>4 DEF Commit, Enter
    <3>3. /\ migs'[m].state = "COMMITTING"
          /\ migs'[m].shard = migs[m].shard
          /\ migs'[m].source = migs[m].source
          /\ migs'[m].source_version = migs[m].source_version
      BY <3>1, <3>2 DEF TypeOK, MigrationRecord
    <3>4. SourceValid(m)
      BY <2>4 DEF Commit
    <3>5. QED
      BY <3>2, <3>3, <3>4 DEF OpInv, OpMatches, CommitStillValid, SourceValid
  <2>5. ASSUME ImportBegins(m) \/ CommitOwnership(m)
        PROVE  OpInv'
    BY <2>5 DEF ImportBegins, CommitOwnership, OpInv, OpMatches, CommitStillValid
  <2>6. CASE ImportEnds(m)
    BY <2>6 DEF ImportEnds, OpInv, OpMatches, CommitStillValid, TypeOK
  <2>7. CASE FinalizeSource(m)
    <3>1. migs[m].state = "COMMITTING"
      BY <2>7 DEF FinalizeSource, OpInv, OpMatches
    <3>2. migs' = migs \/ migs' = [migs EXCEPT ![m].finalized = TRUE]
      BY <2>7 DEF FinalizeSource
    <3>3. migs'[m].state = "COMMITTING"
      BY <3>1, <3>2, OpenIsRecord DEF TypeOK, MigrationRecord, MigrationState
    <3>4. op' = [at |-> "complete", mig |-> m]
      BY <2>7 DEF FinalizeSource
    <3>5. QED
      BY <3>3, <3>4 DEF OpInv, OpMatches, CommitStillValid
  <2>8. CASE CancelDiscards(m)
    BY <2>8 DEF CancelDiscards, OpInv, OpMatches, CommitStillValid
  <2>9. QED
    BY <1>1, <2>1, <2>2, <2>3, <2>4, <2>5, <2>6, <2>7, <2>8 DEF MigrationStep
<1>2. ASSUME NEW s \in Shards, ShardStep(s)
      PROVE  OpInv'
  <2>1. CASE op' = Idle
    BY <2>1, IdleOpInv
  <2>2. CASE op' # Idle
    <3>1. UNCHANGED <<op, migs, shards>>
      BY <1>2, <2>2 DEF ShardStep, TransitionShard, ChangeOwner, DropShard, CreateShard,
                        PutShard, Upsert, Delete, Store, Tamper
    <3>2. QED
      BY <3>1, UnchangedOpInv
  <2>3. QED
    BY <2>1, <2>2
<1>3. ASSUME NEW n \in Nodes, NEW to \in NodeState, TransitionNode(n, to)
      PROVE  OpInv'
  BY <1>3, IdleOpInv DEF TransitionNode
<1>4. CASE CrashRestart
  BY <1>4, IdleOpInv DEF CrashRestart
<1>5. CASE UNCHANGED vars
  BY <1>5, UnchangedOpInv DEF vars
<1>6. QED
  BY <1>1, <1>2, <1>3, <1>4, <1>5 DEF Next

\* The initial states are well typed and no operation is in progress.
LEMMA InitTyped ==
    ASSUME Init
    PROVE  TypeOK /\ OpInv
<1>1. shards \in [Shards -> ShardRecord \cup {NoShard}]
  <2>1. [state: {"ACTIVE"}, node_id: Nodes, replicas: SUBSET Nodes, version: {2}]
            \subseteq ShardRecord
    BY DEF ShardRecord, ShardState, Version
  <2>2. QED
    BY <2>1 DEF Init
<1>2. data \in [Nodes -> [Shards -> Content]]
  <2>1. PICK v \in Vals :
            data = [n \in Nodes |-> [s \in Shards |->
                       IF n = shards[s].node_id THEN [r \in Recs |-> v] ELSE EmptyContent]]
    BY DEF Init
  <2>2. [r \in Recs |-> v] \in Content /\ EmptyContent \in Content
    BY DEF Content, Cell, EmptyContent
  <2>3. QED
    BY <2>1, <2>2
<1>3. /\ nodes \in [Nodes -> NodeState]
      /\ migs \in [Migs -> MigrationRecord \cup {NoMigration}]
      /\ op = Idle
      /\ moved = {} /\ stale = {}
  BY DEF Init, NodeState
<1>4. disk \in StoreRecord
  BY <1>1, <1>3 DEF Init, StoreRecord
<1>5. TypeOK
  BY <1>1, <1>2, <1>3, <1>4 DEF TypeOK
<1>6. OpInv
  BY <1>3 DEF OpInv, OpMatches, CommitStillValid, Idle
<1>7. QED
  BY <1>5, <1>6

\* The code behaviour: every operation of the managers leaves shards, members,
\* migrations, the file and the storage roots well formed, and an operation
\* in progress belongs to a migration in the state that operation set.
THEOREM TypeCorrect == Spec => []TypeOK
<1>1. Init => TypeOK /\ OpInv
  BY InitTyped
<1>2. TypeOK /\ OpInv /\ [Next]_vars => (TypeOK /\ OpInv)'
  BY StepTyped, StepOpInv DEF OpInv
<1>3. QED
  BY <1>1, <1>2, PTL DEF Spec

-----------------------------------------------------------------------------
(* What a step does to the open migrations, the owners and the file *)

\* The states of an open migration.
Open == MigrationState \ Terminal

\* No migration becomes open and no open migration changes its shard.
NoNewOpen ==
    \A k \in Migs : migs'[k].state \in Open
        => migs[k].state \in Open /\ migs'[k].shard = migs[k].shard

\* AtMostOneOpen, with the open states named.
LEMMA OpenStates ==
    ASSUME NEW ms \in [Migs -> MigrationRecord \cup {NoMigration}], NEW m \in Migs
    PROVE  ms[m].state \notin Terminal \cup {"NONE"} <=> ms[m].state \in Open
<1>1. ms[m].state \in MigrationState \cup {"NONE"}
  BY DEF MigrationRecord, NoMigration
<1>2. QED
  BY <1>1 DEF Open, MigrationState, Terminal

\* A step writes the whole store to the file, or leaves the file alone.
LEMMA StepPersists ==
    ASSUME [Next]_vars
    PROVE  Persist \/ disk' = disk
<1>1. ASSUME NEW m \in Migs, MigrationStep(m)
      PROVE  Persist \/ disk' = disk
  BY <1>1 DEF MigrationStep, CreateMigration, StaleFails, Prepare, StartCopy,
              ImportBegins, ImportEnds, CheckCopy, CopyFails, Verify, VerifyEnds,
              VerifyFails, VerifyRaises, Commit, CommitOwnership, CommitRollsBack,
              FinalizeSource, CommitEnds, CancelDiscards, CancelEnds, ForceFail,
              Fail, Enter
<1>2. ASSUME NEW s \in Shards, ShardStep(s)
      PROVE  Persist \/ disk' = disk
  BY <1>2 DEF ShardStep, TransitionShard, ChangeOwner, DropShard, CreateShard, PutShard,
              Upsert, Delete, Store, Tamper
<1>3. QED
  BY <1>1, <1>2 DEF Next, TransitionNode, CrashRestart, vars

\* The file a step leaves holds the migrations and the shards of memory, or
\* those it held before.
LEMMA StepDisk ==
    ASSUME [Next]_vars
    PROVE  /\ disk'.migs \in {migs', disk.migs}
           /\ disk'.shards \in {shards', disk.shards}
BY StepPersists DEF Persist

\* A migration step changes at most its own migration, and not its shard.
LEMMA MigrationUpdate ==
    ASSUME TypeOK, OpInv, NEW m \in Migs, MigrationStep(m),
           ~\E s \in Shards, target \in Nodes : CreateMigration(m, s, target)
    PROVE  NoNewOpen
<1>1. ASSUME migs' = migs
      PROVE  NoNewOpen
  BY <1>1 DEF NoNewOpen
<1>2. ASSUME NEW to \in MigrationState, migs[m].state \in Open,
             migs' = [migs EXCEPT ![m].state = to]
      PROVE  NoNewOpen
  BY <1>2, OpenIsRecord DEF NoNewOpen, TypeOK, MigrationRecord, Open
<1>3. ASSUME NEW d, migs[m].state \in Open,
             \/ migs' = [migs EXCEPT ![m].source_digest = d]
             \/ migs' = [migs EXCEPT ![m].target_digest = d]
             \/ migs' = [migs EXCEPT ![m].finalized = d]
      PROVE  NoNewOpen
  <2>1. migs[m] \in MigrationRecord
    BY <1>3, OpenIsRecord DEF Open
  <2>2. \A k \in Migs \ {m} : migs'[k] = migs[k]
    BY <1>3 DEF TypeOK
  <2>3. migs'[m].state = migs[m].state /\ migs'[m].shard = migs[m].shard
    <3>1. CASE migs' = [migs EXCEPT ![m].source_digest = d]
      BY <2>1, <3>1 DEF TypeOK, MigrationRecord
    <3>2. CASE migs' = [migs EXCEPT ![m].target_digest = d]
      BY <2>1, <3>2 DEF TypeOK, MigrationRecord
    <3>3. CASE migs' = [migs EXCEPT ![m].finalized = d]
      BY <2>1, <3>3 DEF TypeOK, MigrationRecord
    <3>4. QED
      BY <1>3, <3>1, <3>2, <3>3
  <2>4. QED
    BY <2>2, <2>3 DEF NoNewOpen
<1>4. ASSUME StaleFails(m) \/ CopyFails(m) \/ VerifyFails(m) \/ CommitRollsBack(m)
             \/ ForceFail(m)
      PROVE  NoNewOpen
  <2>1. migs[m].state \in Open
    BY <1>4 DEF StaleFails, CopyFails, VerifyFails, CommitRollsBack, ForceFail,
                OpInv, OpMatches, MigrationState, Terminal, Open
  <2>2. migs' = [migs EXCEPT ![m].state = "FAILED"]
    BY <1>4 DEF StaleFails, CopyFails, VerifyFails, CommitRollsBack, ForceFail, Fail
  <2>3. QED
    BY <1>2, <2>1, <2>2 DEF MigrationState
<1>5. ASSUME Prepare(m) \/ StartCopy(m) \/ Verify(m) \/ Commit(m) \/ CommitEnds(m)
             \/ CancelEnds(m)
      PROVE  NoNewOpen
  <2>1. migs[m].state \in Open
    BY <1>5 DEF Prepare, StartCopy, Verify, Commit, CommitEnds, CancelEnds, Cancelable,
                OpInv, OpMatches, MigrationState, Terminal, Open
  <2>2. \E to \in MigrationState : migs' = [migs EXCEPT ![m].state = to]
    BY <1>5 DEF Prepare, StartCopy, Verify, Commit, CommitEnds, CancelEnds, Enter,
                MigrationState
  <2>3. QED
    BY <1>2, <2>1, <2>2
<1>6. ASSUME ImportEnds(m) \/ CheckCopy(m) \/ VerifyEnds(m) \/ FinalizeSource(m)
      PROVE  NoNewOpen
  <2>1. migs[m].state \in Open
    BY <1>6 DEF ImportEnds, CheckCopy, VerifyEnds, FinalizeSource, OpInv, OpMatches,
                MigrationState, Terminal, Open
  <2>2. \/ migs' = migs
        \/ \E d : \/ migs' = [migs EXCEPT ![m].source_digest = d]
                  \/ migs' = [migs EXCEPT ![m].target_digest = d]
                  \/ migs' = [migs EXCEPT ![m].finalized = d]
    BY <1>6 DEF ImportEnds, CheckCopy, VerifyEnds, FinalizeSource
  <2>3. QED
    BY <1>1, <1>3, <2>1, <2>2
<1>7. ASSUME ImportBegins(m) \/ VerifyRaises(m) \/ CommitOwnership(m) \/ CancelDiscards(m)
      PROVE  NoNewOpen
  BY <1>1, <1>7 DEF ImportBegins, VerifyRaises, CommitOwnership, CancelDiscards
<1>8. QED
  BY <1>4, <1>5, <1>6, <1>7 DEF MigrationStep

\* Every step keeps OneOpenMigration.
LEMMA StepOneOpen ==
    ASSUME TypeOK, TypeOK', OpInv, OneOpenMigration, [Next]_vars
    PROVE  OneOpenMigration'
<1>1. ASSUME NoNewOpen
      PROVE  AtMostOneOpen(migs')
  BY <1>1, OpenStates DEF NoNewOpen, AtMostOneOpen, OneOpenMigration, TypeOK
<1>2. AtMostOneOpen(migs')
  <2>1. ASSUME NEW m \in Migs, NEW s \in Shards, NEW target \in Nodes,
               CreateMigration(m, s, target)
        PROVE  AtMostOneOpen(migs')
    <3>1. /\ migs'[m].state = "PENDING"
          /\ migs'[m].shard = s
          /\ \A k \in Migs \ {m} : migs'[k] = migs[k]
      BY <2>1 DEF CreateMigration, TypeOK
    <3>2. \A k \in Migs : ~InProgress(k, s)
      BY <2>1 DEF CreateMigration
    <3>3. QED
      BY <3>1, <3>2 DEF InProgress, AtMostOneOpen, OneOpenMigration
  <2>2. ASSUME NEW m \in Migs, MigrationStep(m)
        PROVE  AtMostOneOpen(migs')
    BY <1>1, <2>1, <2>2, MigrationUpdate
  <2>3. ASSUME NEW s \in Shards, ShardStep(s)
        PROVE  AtMostOneOpen(migs')
    <3>1. migs' = migs
      BY <2>3 DEF ShardStep, TransitionShard, ChangeOwner, DropShard, CreateShard, PutShard,
                  Upsert, Delete, Store, Tamper
    <3>2. QED
      BY <3>1 DEF OneOpenMigration
  <2>4. CASE CrashRestart
    BY <2>4 DEF CrashRestart, OneOpenMigration
  <2>5. ASSUME UNCHANGED migs
        PROVE  AtMostOneOpen(migs')
    BY <2>5 DEF OneOpenMigration
  <2>6. QED
    BY <2>2, <2>3, <2>4, <2>5 DEF Next, TransitionNode, vars
<1>3. QED
  BY <1>2, StepDisk DEF OneOpenMigration

\* create_migration's conflict check and the one-way lifecycle together keep
\* at most one open migration per shard, in memory and in the file, through
\* crashes and failed persists.
THEOREM OneOpenAlways == Spec => []OneOpenMigration
<1>1. Init => OneOpenMigration
  BY DEF Init, OneOpenMigration, AtMostOneOpen, NoMigration
<1>2. Init => TypeOK /\ OpInv
  BY InitTyped
<1>3. TypeOK /\ OpInv /\ OneOpenMigration /\ [Next]_vars
        => (TypeOK /\ OpInv /\ OneOpenMigration)'
  BY StepTyped, StepOpInv, StepOneOpen DEF OpInv
<1>4. QED
  BY <1>1, <1>2, <1>3, PTL DEF Spec

-----------------------------------------------------------------------------
(* Owners *)

\* Every step keeps the owner out of its own replica list.
LEMMA StepPrimary ==
    ASSUME TypeOK, OpInv, PrimaryNotReplica, [Next]_vars
    PROVE  PrimaryNotReplica'
<1>1. NotOwnReplica(shards')
  <2>1. ASSUME NEW s \in Shards, NEW r, shards' = [shards EXCEPT ![s] = r],
               r.state # "ABSENT" => r.node_id \notin r.replicas
        PROVE  NotOwnReplica(shards')
    BY <2>1 DEF NotOwnReplica, PrimaryNotReplica, TypeOK
  <2>2. ASSUME NEW m \in Migs, MigrationStep(m)
        PROVE  NotOwnReplica(shards')
    <3>1. CASE CommitOwnership(m)
      <4>1. migs[m].shard \in Shards
        BY <3>1, MigrationFields DEF CommitOwnership, OpInv, OpMatches, MigrationState
      <4>2. shards' = [shards EXCEPT ![migs[m].shard] = MovedShard(m)]
        BY <3>1 DEF CommitOwnership
      <4>3. MovedShard(m).node_id \notin MovedShard(m).replicas
        BY DEF MovedShard, NewReplicas
      <4>4. QED
        BY <2>1, <4>1, <4>2, <4>3
    <3>2. CASE ~CommitOwnership(m)
      <4>1. shards' = shards
        BY <2>2, <3>2 DEF MigrationStep, CreateMigration, StaleFails, Prepare, StartCopy,
                ImportBegins, ImportEnds, CheckCopy, CopyFails, Verify, VerifyEnds,
                VerifyFails, VerifyRaises, Commit, CommitRollsBack,
                FinalizeSource, CommitEnds, CancelDiscards, CancelEnds, ForceFail,
                Fail, Enter
      <4>2. QED
        BY <4>1 DEF PrimaryNotReplica
    <3>3. QED
      BY <3>1, <3>2
  <2>3. ASSUME NEW s \in Shards, ShardStep(s)
        PROVE  NotOwnReplica(shards')
    <3>1. ASSUME NEW to \in ShardState, TransitionShard(s, to)
          PROVE  NotOwnReplica(shards')
      <4>1. shards[s] \in ShardRecord
        BY <3>1, PresentIsRecord DEF TransitionShard, ShardState
      <4>2. shards[s].node_id \notin shards[s].replicas
        BY <3>1 DEF TransitionShard, PrimaryNotReplica, NotOwnReplica, ShardState
      <4>3. PICK r : /\ r = [shards[s] EXCEPT !.state = to, !.version = @ + 1]
                     /\ shards' = [shards EXCEPT ![s] = r]
        BY <3>1 DEF TransitionShard, PutShard
      <4>4. r.node_id = shards[s].node_id /\ r.replicas = shards[s].replicas
        BY <4>1, <4>3 DEF ShardRecord
      <4>5. QED
        BY <2>1, <4>2, <4>3, <4>4
    <3>2. ASSUME NEW owner \in Nodes, NEW replicas \in SUBSET Nodes,
                 ChangeOwner(s, owner, replicas)
          PROVE  NotOwnReplica(shards')
      <4>1. shards[s] \in ShardRecord
        BY <3>2, PresentIsRecord DEF ChangeOwner
      <4>2. PICK r : /\ r = [shards[s] EXCEPT !.node_id = owner, !.replicas = replicas,
                                              !.version = @ + 1]
                     /\ shards' = [shards EXCEPT ![s] = r]
        BY <3>2 DEF ChangeOwner, PutShard
      <4>3. r.node_id = owner /\ r.replicas = replicas
        BY <4>1, <4>2 DEF ShardRecord
      <4>4. owner \notin replicas
        BY <3>2 DEF ChangeOwner, Reassignable, OwnershipValid
      <4>5. QED
        BY <2>1, <4>2, <4>3, <4>4
    <3>3. ASSUME DropShard(s)
                 \/ \E owner \in Nodes, replicas \in SUBSET Nodes :
                        CreateShard(s, owner, replicas)
          PROVE  NotOwnReplica(shards')
      BY <2>1, <3>3 DEF DropShard, CreateShard, PutShard, NoShard, OwnershipValid
    <3>4. ASSUME UNCHANGED shards
          PROVE  NotOwnReplica(shards')
      BY <3>4 DEF PrimaryNotReplica
    <3>5. QED
      BY <2>3, <3>1, <3>2, <3>3, <3>4 DEF ShardStep, Upsert, Delete, Store, Tamper
  <2>4. CASE CrashRestart
    BY <2>4 DEF CrashRestart, PrimaryNotReplica
  <2>5. ASSUME UNCHANGED shards
        PROVE  NotOwnReplica(shards')
    BY <2>5 DEF PrimaryNotReplica
  <2>6. QED
    BY <2>2, <2>3, <2>4, <2>5 DEF Next, TransitionNode, vars
<1>2. QED
  BY <1>1, StepDisk DEF PrimaryNotReplica

\* commit drops the target from the replicas, change_owner and create refuse
\* an owner among them: no record, in memory or in the file, ever lists its
\* own primary as a replica.
THEOREM PrimaryNeverReplica == Spec => []PrimaryNotReplica
<1>1. Init => PrimaryNotReplica
  BY DEF Init, PrimaryNotReplica, NotOwnReplica, OwnershipValid
<1>2. Init => TypeOK /\ OpInv
  BY InitTyped
<1>3. TypeOK /\ OpInv /\ PrimaryNotReplica /\ [Next]_vars
        => (TypeOK /\ OpInv /\ PrimaryNotReplica)'
  BY StepTyped, StepOpInv, StepPrimary DEF OpInv
<1>4. QED
  BY <1>1, <1>2, <1>3, PTL DEF Spec

\* A step that changes the owner of a shard is an owner move.
LEMMA StepOwner ==
    ASSUME TypeOK, OpInv, [Next]_vars, NEW s \in Shards,
           shards[s].state # "ABSENT", shards'[s].state # "ABSENT",
           shards'[s].node_id # shards[s].node_id
    PROVE  OwnerMove(s)
<1>1. ASSUME NEW m \in Migs, MigrationStep(m)
      PROVE  OwnerMove(s)
  <2>1. CommitOwnership(m)
    BY <1>1 DEF MigrationStep, CreateMigration, StaleFails, Prepare, StartCopy,
                ImportBegins, ImportEnds, CheckCopy, CopyFails, Verify, VerifyEnds,
                VerifyFails, VerifyRaises, Commit, CommitRollsBack,
                FinalizeSource, CommitEnds, CancelDiscards, CancelEnds, ForceFail,
                Fail, Enter
  <2>2. /\ op = [at |-> "commit", mig |-> m]
        /\ shards' = [shards EXCEPT ![migs[m].shard] = MovedShard(m)]
        /\ \A r \in NewReplicas(m) : Member(r)
    BY <2>1 DEF CommitOwnership, CommitValid
  <2>3. migs[m].shard = s
    BY <2>2 DEF TypeOK
  <2>4. SourceValid(m)
    BY <2>2 DEF OpInv, CommitStillValid
  <2>5. shards'[s] = MovedShard(m)
    BY <2>2, <2>3 DEF TypeOK
  <2>6. QED
    BY <2>2, <2>3, <2>4, <2>5 DEF SourceValid, MovedShard, OwnerMove
<1>2. ASSUME NEW t \in Shards, ShardStep(t)
      PROVE  OwnerMove(s)
  <2>1. ASSUME NEW to \in ShardState, TransitionShard(t, to)
        PROVE  FALSE
    <3>1. shards[t] \in ShardRecord
      BY <2>1, PresentIsRecord DEF TransitionShard, ShardState
    <3>2. PICK r : /\ r = [shards[t] EXCEPT !.state = to, !.version = @ + 1]
                   /\ shards' = [shards EXCEPT ![t] = r]
      BY <2>1 DEF TransitionShard, PutShard
    <3>3. r.node_id = shards[t].node_id
      BY <3>1, <3>2 DEF ShardRecord
    <3>4. QED
      BY <3>2, <3>3 DEF TypeOK
  <2>2. ASSUME NEW owner \in Nodes, NEW replicas \in SUBSET Nodes,
               ChangeOwner(t, owner, replicas)
        PROVE  OwnerMove(s)
    <3>1. t = s
      BY <2>2 DEF ChangeOwner, PutShard, TypeOK
    <3>2. QED
      BY <2>2, <3>1 DEF ChangeOwner, OwnerMove
  <2>3. ASSUME DropShard(t)
               \/ \E owner \in Nodes, replicas \in SUBSET Nodes :
                      CreateShard(t, owner, replicas)
        PROVE  FALSE
    BY <2>3 DEF DropShard, CreateShard, PutShard, NoShard, TypeOK
  <2>4. QED
    BY <1>2, <2>1, <2>2, <2>3 DEF ShardStep, Upsert, Delete, Store, Tamper
<1>3. CASE CrashRestart
  BY <1>3 DEF CrashRestart, OwnerMove
<1>4. QED
  BY <1>1, <1>2, <1>3 DEF Next, TransitionNode, vars

\* Ownership moves only at its boundary: change_owner on a draining shard, or
\* the commit step of a migration whose source and captured version still are
\* the authoritative ones; otherwise only a restart brings an older record
\* back.
THEOREM OwnershipMovesAtBoundary == Spec => OwnershipBoundary
<1>1. Init => TypeOK /\ OpInv
  BY InitTyped
<1>2. TypeOK /\ OpInv /\ [Next]_vars => (TypeOK /\ OpInv)'
  BY StepTyped, StepOpInv DEF OpInv
<1>3. TypeOK /\ OpInv /\ [Next]_vars
        => [\A s \in Shards :
               /\ shards[s].state # "ABSENT"
               /\ shards'[s].state # "ABSENT"
               /\ shards'[s].node_id # shards[s].node_id
               => OwnerMove(s)]_vars
  BY StepOwner
<1>4. QED
  BY <1>1, <1>2, <1>3, PTL DEF Spec, OwnershipBoundary

-----------------------------------------------------------------------------
(* What a step does to the migration it belongs to *)

\* Only migration m changes, and not in what it was created with.
Progress(m) ==
    /\ migs[m].state \in Open
    /\ \A k \in Migs \ {m} : migs'[k] = migs[k]
    /\ migs'[m] \in MigrationRecord
    /\ migs'[m].shard = migs[m].shard
    /\ migs'[m].source = migs[m].source
    /\ migs'[m].target = migs[m].target
    /\ migs'[m].source_version = migs[m].source_version

\* The steps that make m terminal.
Ends(m) ==
    \/ StaleFails(m) \/ CopyFails(m) \/ VerifyFails(m) \/ CommitRollsBack(m)
    \/ ForceFail(m) \/ CommitEnds(m) \/ CancelEnds(m)

\* The steps that open the next part of its lifecycle.
Enters(m) == Prepare(m) \/ StartCopy(m) \/ Verify(m) \/ Commit(m)

\* The steps that record the digest of the target.
Checks(m) == CheckCopy(m) \/ VerifyEnds(m)

\* A new state for m is progress of m, with its digests as they were.
LEMMA StateProgress ==
    ASSUME TypeOK, NEW m \in Migs, migs[m].state \in Open, NEW to \in MigrationState,
           migs' = [migs EXCEPT ![m].state = to]
    PROVE  /\ Progress(m)
           /\ migs'[m].state = to
           /\ migs'[m].source_digest = migs[m].source_digest
           /\ migs'[m].target_digest = migs[m].target_digest
<1>1. migs[m] \in MigrationRecord
  BY OpenIsRecord DEF Open
<1>2. migs'[m] = [migs[m] EXCEPT !.state = to] /\ \A k \in Migs \ {m} : migs'[k] = migs[k]
  BY DEF TypeOK
<1>3. QED
  BY <1>1, <1>2 DEF Progress, MigrationRecord

\* Every ending is durable, stops the operation and touches no shard; after
\* the owner moved only COMPLETED is left.
LEMMA EndsFrame ==
    ASSUME TypeOK, OpInv, NEW m \in Migs, Ends(m)
    PROVE  /\ Progress(m)
           /\ migs'[m].state \in Terminal
           /\ op.at \in {"finalize", "complete"} => migs'[m].state = "COMPLETED"
           /\ op = Idle \/ op.mig = m
           /\ op' = Idle
           /\ UNCHANGED <<shards, nodes, data, moved, stale>>
           /\ Persist
<1>1. migs[m].state \in Open
  BY DEF Ends, StaleFails, CopyFails, VerifyFails, CommitRollsBack, ForceFail, CommitEnds,
         CancelEnds, Cancelable, OpInv, OpMatches, MigrationState, Terminal, Open
<1>2. PICK to \in Terminal : migs' = [migs EXCEPT ![m].state = to]
                             /\ (op.at \in {"finalize", "complete"} => to = "COMPLETED")
  <2>1. CASE CommitEnds(m)
    BY <2>1 DEF CommitEnds, Enter, Terminal
  <2>2. CASE CancelEnds(m)
    BY <2>2 DEF CancelEnds, Enter, Terminal, Idle
  <2>3. CASE StaleFails(m) \/ CopyFails(m) \/ VerifyFails(m) \/ CommitRollsBack(m) \/ ForceFail(m)
    BY <2>3 DEF StaleFails, CopyFails, VerifyFails, CommitRollsBack, ForceFail, Fail,
                Terminal, Idle
  <2>4. QED
    BY <2>1, <2>2, <2>3 DEF Ends
<1>3. Progress(m) /\ migs'[m].state = to
  BY <1>1, <1>2, StateProgress DEF Terminal, MigrationState
<1>4. /\ op = Idle \/ op.mig = m
      /\ op' = Idle
      /\ UNCHANGED <<shards, nodes, data, moved, stale>>
      /\ Persist
  BY DEF Ends, StaleFails, CopyFails, VerifyFails, CommitRollsBack, ForceFail, CommitEnds,
         CancelEnds, Fail, Enter
<1>5. QED
  BY <1>2, <1>3, <1>4

\* Every entry checks the source first, is durable and touches no data.
LEMMA EntersFrame ==
    ASSUME TypeOK, NEW m \in Migs, Enters(m)
    PROVE  /\ Progress(m)
           /\ \/ /\ migs[m].state = "PENDING" /\ migs'[m].state = "PREPARING"
                 /\ op' = Idle
              \/ /\ migs[m].state = "PREPARING" /\ migs'[m].state = "COPYING"
                 /\ op' = [at |-> "copy", mig |-> m]
              \/ /\ migs[m].state = "COPYING" /\ migs'[m].state = "VERIFYING"
                 /\ op' = [at |-> "verify", mig |-> m]
              \/ /\ migs[m].state = "VERIFYING" /\ migs'[m].state = "COMMITTING"
                 /\ op' = [at |-> "commit", mig |-> m]
           /\ migs'[m].source_digest = migs[m].source_digest
           /\ migs'[m].target_digest = migs[m].target_digest
           /\ SourceValid(m)
           /\ op = Idle
           /\ UNCHANGED <<shards, nodes, data, moved, stale>>
           /\ Persist
<1>1. PICK from \in Open, to \in Open, next \in {Idle} \cup [at: OpStep, mig: Migs] :
         /\ migs[m].state = from /\ Enter(m, to, next)
         /\ \/ from = "PENDING" /\ to = "PREPARING" /\ next = Idle
            \/ from = "PREPARING" /\ to = "COPYING" /\ next = [at |-> "copy", mig |-> m]
            \/ from = "COPYING" /\ to = "VERIFYING" /\ next = [at |-> "verify", mig |-> m]
            \/ from = "VERIFYING" /\ to = "COMMITTING" /\ next = [at |-> "commit", mig |-> m]
  <2>1. /\ {"PENDING", "PREPARING", "COPYING", "VERIFYING", "COMMITTING"} \subseteq Open
        /\ \A at \in {"copy", "verify", "commit"} : [at |-> at, mig |-> m] \in [at: OpStep, mig: Migs]
    BY DEF Open, MigrationState, Terminal, OpStep
  <2>2. CASE Prepare(m)
    BY <2>1, <2>2 DEF Prepare
  <2>3. CASE StartCopy(m)
    BY <2>1, <2>3 DEF StartCopy
  <2>4. CASE Verify(m)
    BY <2>1, <2>4 DEF Verify
  <2>5. CASE Commit(m)
    BY <2>1, <2>5 DEF Commit
  <2>6. QED
    BY <2>2, <2>3, <2>4, <2>5 DEF Enters
<1>2. /\ Progress(m)
      /\ migs'[m].state = to
      /\ migs'[m].source_digest = migs[m].source_digest
      /\ migs'[m].target_digest = migs[m].target_digest
  BY <1>1, StateProgress DEF Enter, Open
<1>3. SourceValid(m) /\ op = Idle
  BY DEF Enters, Prepare, StartCopy, Verify, Commit
<1>4. QED
  BY <1>1, <1>2, <1>3 DEF Enter

\* The end of an import sets the source's digest in memory, and makes the
\* target hold what was exported.
LEMMA ImportFrame ==
    ASSUME TypeOK, OpInv, NEW m \in Migs, ImportEnds(m)
    PROVE  /\ Progress(m)
           /\ migs[m].state = "COPYING" /\ migs'[m].state = "COPYING"
           /\ migs'[m].source_digest = data[migs[m].source][migs[m].shard]
           /\ migs'[m].source_digest \in Content
           /\ op = [at |-> "import", mig |-> m]
           /\ op' = [at |-> "check", mig |-> m]
           /\ UNCHANGED <<shards, nodes, disk, moved, stale>>
<1>1. migs[m].state = "COPYING"
  BY DEF ImportEnds, OpInv, OpMatches
<1>2. migs[m] \in MigrationRecord
  BY <1>1, OpenIsRecord DEF MigrationState
<1>3. PICK d : d = data[migs[m].source][migs[m].shard] /\ migs' = [migs EXCEPT ![m].source_digest = d]
  BY DEF ImportEnds
<1>4. d \in Content
  BY <1>2, <1>3 DEF TypeOK, MigrationRecord
<1>5. migs'[m] = [migs[m] EXCEPT !.source_digest = d] /\ \A k \in Migs \ {m} : migs'[k] = migs[k]
  BY <1>3 DEF TypeOK
<1>6. migs'[m].source_digest = d /\ migs'[m].state = "COPYING" /\ Progress(m)
  BY <1>1, <1>2, <1>4, <1>5 DEF Progress, MigrationRecord, Digest, Open, MigrationState, Terminal
<1>7. QED
  BY <1>1, <1>3, <1>4, <1>6 DEF ImportEnds

\* A check records what it compared.
LEMMA ChecksFrame ==
    ASSUME TypeOK, OpInv, NEW m \in Migs, Checks(m)
    PROVE  /\ Progress(m)
           /\ migs'[m].state = migs[m].state
           /\ migs'[m].source_digest = migs[m].source_digest
           /\ migs'[m].target_digest = data[migs[m].target][migs[m].shard]
           /\ DigestOK(migs'[m].target_digest, migs[m].source_digest)
           /\ op.mig = m
           /\ op.at = "check" \/ op.at = "verify"
           /\ op' = Idle
           /\ UNCHANGED <<shards, nodes, data, moved, stale>>
           /\ Persist
<1>1. migs[m].state \in {"COPYING", "VERIFYING"}
  BY DEF Checks, CheckCopy, VerifyEnds, OpInv, OpMatches
<1>2. migs[m] \in MigrationRecord
  BY <1>1, OpenIsRecord DEF MigrationState
<1>3. PICK d : d = data[migs[m].target][migs[m].shard] /\ migs' = [migs EXCEPT ![m].target_digest = d]
               /\ DigestOK(d, migs[m].source_digest)
  BY DEF Checks, CheckCopy, VerifyEnds
<1>4. d \in Content
  BY <1>2, <1>3 DEF TypeOK, MigrationRecord
<1>5. migs'[m] = [migs[m] EXCEPT !.target_digest = d] /\ \A k \in Migs \ {m} : migs'[k] = migs[k]
  BY <1>3 DEF TypeOK
<1>6. /\ migs'[m].target_digest = d /\ migs'[m].source_digest = migs[m].source_digest
      /\ migs'[m].state = migs[m].state /\ Progress(m)
  BY <1>1, <1>2, <1>4, <1>5 DEF Progress, MigrationRecord, Digest, Open, MigrationState, Terminal
<1>7. QED
  BY <1>3, <1>6 DEF Checks, CheckCopy, VerifyEnds

\* The cleanup of the source touches no digest.
LEMMA FinalizeFrame ==
    ASSUME TypeOK, OpInv, NEW m \in Migs, FinalizeSource(m)
    PROVE  /\ Progress(m)
           /\ migs[m].state = "COMMITTING" /\ migs'[m].state = "COMMITTING"
           /\ migs'[m].source_digest = migs[m].source_digest
           /\ migs'[m].target_digest = migs[m].target_digest
           /\ op = [at |-> "finalize", mig |-> m]
           /\ op' = [at |-> "complete", mig |-> m]
           /\ UNCHANGED <<shards, nodes, disk, moved, stale>>
           /\ \E c : data' = [data EXCEPT ![migs[m].source][migs[m].shard] = c]
<1>1. migs[m].state = "COMMITTING"
  BY DEF FinalizeSource, OpInv, OpMatches
<1>2. migs[m] \in MigrationRecord
  BY <1>1, OpenIsRecord DEF MigrationState
<1>3. migs' = migs \/ migs' = [migs EXCEPT ![m].finalized = TRUE]
  BY DEF FinalizeSource
<1>4. /\ migs'[m] = migs[m] \/ migs'[m] = [migs[m] EXCEPT !.finalized = TRUE]
      /\ \A k \in Migs \ {m} : migs'[k] = migs[k]
  BY <1>3 DEF TypeOK
<1>5. /\ migs'[m].target_digest = migs[m].target_digest
      /\ migs'[m].source_digest = migs[m].source_digest
      /\ migs'[m].state = migs[m].state /\ Progress(m)
  BY <1>1, <1>2, <1>4 DEF Progress, MigrationRecord, Open, MigrationState, Terminal
<1>6. QED
  BY <1>1, <1>5 DEF FinalizeSource

\* create_migration adds a migration without digests, of the present record.
LEMMA CreateFrame ==
    ASSUME TypeOK, NEW m \in Migs, NEW s \in Shards, NEW target \in Nodes,
           CreateMigration(m, s, target)
    PROVE  /\ migs[m].state = "NONE" /\ migs'[m].state = "PENDING"
           /\ \A k \in Migs \ {m} : migs'[k] = migs[k]
           /\ migs'[m].shard = s
           /\ migs'[m].source = shards[s].node_id
           /\ migs'[m].target # migs'[m].source
           /\ migs'[m].source_version = shards[s].version
           /\ migs'[m].source_digest = NoDigest
           /\ shards[s].state # "ABSENT"
           /\ op = Idle /\ op' = Idle
           /\ UNCHANGED <<shards, nodes, data, moved, stale>>
           /\ Persist
BY DEF CreateMigration, TypeOK, MIGRATABLE_STATES

\* The steps of a migration, grouped.
LEMMA MigrationKinds ==
    ASSUME NEW m \in Migs, MigrationStep(m)
    PROVE  \/ \E s \in Shards, target \in Nodes : CreateMigration(m, s, target)
           \/ Ends(m) \/ Enters(m) \/ Checks(m)
           \/ ImportBegins(m) \/ ImportEnds(m) \/ VerifyRaises(m)
           \/ CommitOwnership(m) \/ FinalizeSource(m) \/ CancelDiscards(m)
BY DEF MigrationStep, Ends, Enters, Checks

\* The steps on shard records, members and files leave the migrations alone.
LEMMA OtherFrame ==
    ASSUME NEW s \in Shards, ShardStep(s)
    PROVE  /\ UNCHANGED <<migs, op, moved, nodes>>
           /\ op = Idle \/ UNCHANGED <<shards, disk>>
           /\ Persist \/ UNCHANGED <<shards, disk, stale>>
<1>1. ASSUME NEW r, op = Idle, PutShard(s, r)
      PROVE  Persist /\ op = Idle /\ UNCHANGED <<migs, op, moved, nodes>>
  BY <1>1 DEF PutShard
<1>2. \/ op = Idle /\ \E r : PutShard(s, r)
      \/ UNCHANGED <<shards, nodes, migs, disk, op, moved, stale>>
  <2>1. ASSUME NEW to \in ShardState, TransitionShard(s, to)
        PROVE  op = Idle /\ \E r : PutShard(s, r)
    BY <2>1, Zenon DEF TransitionShard
  <2>2. ASSUME NEW owner \in Nodes, NEW replicas \in SUBSET Nodes,
               ChangeOwner(s, owner, replicas) \/ CreateShard(s, owner, replicas)
        PROVE  op = Idle /\ \E r : PutShard(s, r)
    BY <2>2, Zenon DEF ChangeOwner, CreateShard
  <2>3. CASE DropShard(s)
    BY <2>3, Zenon DEF DropShard
  <2>4. ASSUME \/ \E r \in Recs, v \in Vals : Upsert(s, r, v)
               \/ \E r \in Recs : Delete(s, r)
               \/ \E n \in Nodes, c \in Content : Tamper(n, s, c)
        PROVE  UNCHANGED <<shards, nodes, migs, disk, op, moved, stale>>
    BY <2>4 DEF Upsert, Delete, Store, Tamper
  <2>5. QED
    BY <2>1, <2>2, <2>3, <2>4 DEF ShardStep
<1>3. QED
  BY <1>1, <1>2

-----------------------------------------------------------------------------
(* What holds of every migration, and of the running operation *)

\* An open migration leads away from its source, and has no digest before it
\* copies.
CreatedOK(ms) ==
    \A m \in Migs :
        /\ ms[m].state \in Open => ms[m].source # ms[m].target
        /\ ms[m].state \in {"PENDING", "PREPARING"} => ms[m].source_digest = NoDigest

\* The source stays valid until the owner moves, which is to the target, and
\* the digest is set when the import ends.
RunInv ==
    /\ op.at \in {"copy", "import", "check", "verify", "commit"} => SourceValid(op.mig)
    /\ op.at \in {"copy", "import"} => migs[op.mig].source_digest = NoDigest
    /\ op.at \in {"finalize", "complete"} =>
          /\ shards[migs[op.mig].shard].state # "ABSENT"
          /\ shards[migs[op.mig].shard].node_id = migs[op.mig].target
    /\ "cancel" \notin Env => op.at # "cancel"

\* What the file has of a migration: all of it, but for the digest of a copy
\* that is not checked yet.
Recorded(a, b) ==
    \/ a = b
    \/ /\ a.state = b.state /\ b.state \in Open
       /\ a.shard = b.shard /\ a.source = b.source /\ a.target = b.target
       /\ a.source_version = b.source_version
       /\ a.source_digest \in {NoDigest, b.source_digest}

\* Unless writing the file fails, it has what memory has.
FileInv ==
    "persist_fail" \notin Env =>
        disk.shards = shards /\ \A m \in Migs : Recorded(disk.migs[m], migs[m])

BaseInv == TypeOK /\ OpInv /\ CreatedOK(migs) /\ CreatedOK(disk.migs) /\ RunInv /\ FileInv

\* Every step keeps CreatedOK.
LEMMA StepCreated ==
    ASSUME TypeOK, OpInv, CreatedOK(migs), CreatedOK(disk.migs), [Next]_vars
    PROVE  CreatedOK(migs') /\ CreatedOK(disk'.migs)
<1>1. ASSUME NEW m \in Migs, Progress(m),
             \/ migs'[m].state \notin {"PENDING", "PREPARING"}
             \/ /\ migs[m].state \in {"PENDING", "PREPARING"}
                /\ migs'[m].source_digest = migs[m].source_digest
      PROVE  CreatedOK(migs')
  BY <1>1 DEF Progress, CreatedOK
<1>2. ASSUME NEW m \in Migs, MigrationStep(m)
      PROVE  CreatedOK(migs')
  <2>1. ASSUME NEW s \in Shards, NEW target \in Nodes, CreateMigration(m, s, target)
        PROVE  CreatedOK(migs')
    BY <2>1, CreateFrame DEF CreatedOK
  <2>2. CASE Ends(m)
    BY <1>1, <2>2, EndsFrame DEF Terminal
  <2>3. CASE Enters(m)
    BY <1>1, <2>3, EntersFrame
  <2>4. CASE Checks(m)
    <3>1. migs'[m].state \in {"COPYING", "VERIFYING"}
      BY <2>4, ChecksFrame DEF OpInv, OpMatches
    <3>2. QED
      BY <1>1, <2>4, <3>1, ChecksFrame
  <2>5. CASE ImportEnds(m)
    BY <1>1, <2>5, ImportFrame
  <2>6. CASE FinalizeSource(m)
    BY <1>1, <2>6, FinalizeFrame
  <2>7. CASE ImportBegins(m) \/ VerifyRaises(m) \/ CommitOwnership(m) \/ CancelDiscards(m)
    BY <2>7 DEF ImportBegins, VerifyRaises, CommitOwnership, CancelDiscards
  <2>8. QED
    BY <1>2, <2>1, <2>2, <2>3, <2>4, <2>5, <2>6, <2>7, MigrationKinds
<1>3. CreatedOK(migs')
  BY <1>2, OtherFrame DEF Next, TransitionNode, CrashRestart, vars
<1>4. QED
  BY <1>3, StepDisk

\* Every step keeps RunInv.
LEMMA StepRun ==
    ASSUME TypeOK, OpInv, CreatedOK(migs), RunInv, [Next]_vars
    PROVE  RunInv'
<1>1. ASSUME op' = Idle PROVE RunInv'
  BY <1>1 DEF RunInv, Idle
<1>2. ASSUME UNCHANGED <<op, migs, shards>> PROVE RunInv'
  BY <1>2 DEF RunInv, SourceValid
<1>3. ASSUME NEW m \in Migs, Progress(m), shards' = shards, SourceValid(m)
      PROVE  SourceValid(m)'
  BY <1>3 DEF Progress, SourceValid
<1>4. ASSUME NEW m \in Migs, MigrationStep(m)
      PROVE  RunInv'
  <2>1. CASE Enters(m)
    <3>1. SourceValid(m)'
      BY <1>3, <2>1, EntersFrame
    <3>2. CASE op' = [at |-> "copy", mig |-> m]
      <4>1. migs'[m].source_digest = NoDigest
        BY <2>1, <3>2, EntersFrame DEF CreatedOK, Idle
      <4>2. QED
        BY <3>1, <3>2, <4>1 DEF RunInv
    <3>3. CASE op' = [at |-> "verify", mig |-> m] \/ op' = [at |-> "commit", mig |-> m]
      BY <3>1, <3>3 DEF RunInv
    <3>4. QED
      BY <1>1, <2>1, <3>2, <3>3, EntersFrame
  <2>2. CASE ImportBegins(m)
    <3>1. /\ op = [at |-> "copy", mig |-> m]
          /\ op' = [at |-> "import", mig |-> m]
          /\ UNCHANGED <<shards, migs>>
      BY <2>2 DEF ImportBegins
    <3>2. SourceValid(m) /\ migs[m].source_digest = NoDigest
      BY <3>1 DEF RunInv
    <3>3. QED
      BY <3>1, <3>2 DEF RunInv, SourceValid
  <2>3. CASE ImportEnds(m)
    <3>1. SourceValid(m)
      BY <2>3, ImportFrame DEF RunInv
    <3>2. SourceValid(m)'
      BY <1>3, <2>3, <3>1, ImportFrame
    <3>3. QED
      BY <2>3, <3>2, ImportFrame DEF RunInv
  <2>4. CASE CommitOwnership(m)
    <3>1. migs[m].shard \in Shards /\ migs[m].state = "COMMITTING"
      BY <2>4, MigrationFields DEF CommitOwnership, OpInv, OpMatches, MigrationState
    <3>2. /\ op = [at |-> "commit", mig |-> m]
          /\ op' = [at |-> "finalize", mig |-> m] /\ migs' = migs
          /\ shards'[migs[m].shard] = MovedShard(m)
      BY <2>4, <3>1 DEF CommitOwnership, TypeOK
    <3>3. shards[migs[m].shard].state # "ABSENT"
      BY <3>2 DEF RunInv, SourceValid, MIGRATABLE_STATES
    <3>4. QED
      BY <3>2, <3>3 DEF RunInv, MovedShard
  <2>5. CASE FinalizeSource(m)
    BY <2>5, FinalizeFrame DEF RunInv, Progress
  <2>6. CASE CancelDiscards(m)
    BY <2>6 DEF CancelDiscards, RunInv
  <2>7. CASE op' = Idle
    BY <1>1, <2>7
  <2>8. QED
    BY <1>4, <2>1, <2>2, <2>3, <2>4, <2>5, <2>6, <2>7, MigrationKinds, EndsFrame, ChecksFrame,
       CreateFrame DEF VerifyRaises
<1>5. ASSUME NEW s \in Shards, ShardStep(s) PROVE RunInv'
  BY <1>1, <1>2, <1>5, OtherFrame
<1>6. QED
  BY <1>1, <1>2, <1>4, <1>5 DEF Next, TransitionNode, CrashRestart, vars

\* Every step keeps FileInv.
LEMMA StepFile ==
    ASSUME TypeOK, OpInv, RunInv, FileInv, [Next]_vars
    PROVE  FileInv'
<1>0. SUFFICES ASSUME "persist_fail" \notin Env
               PROVE  disk'.shards = shards' /\ \A m \in Migs : Recorded(disk'.migs[m], migs'[m])
  BY DEF FileInv
<1>1. ASSUME Persist
      PROVE  disk'.shards = shards' /\ disk'.migs = migs'
  BY <1>0, <1>1 DEF Persist
<1>2. disk.shards = shards /\ \A m \in Migs : Recorded(disk.migs[m], migs[m])
  BY <1>0 DEF FileInv
<1>3. ASSUME NEW m \in Migs, MigrationStep(m), ~Persist
      PROVE  disk'.shards = shards' /\ \A k \in Migs : Recorded(disk'.migs[k], migs'[k])
  <2>1. CASE ImportEnds(m)
    <3>1. /\ Progress(m) /\ migs'[m].state = migs[m].state
          /\ migs[m].source_digest = NoDigest
          /\ disk' = disk /\ shards' = shards
      BY <2>1, ImportFrame DEF RunInv
    <3>2. Recorded(disk.migs[m], migs'[m])
      BY <1>2, <3>1 DEF Recorded, Progress
    <3>3. QED
      BY <1>2, <3>1, <3>2 DEF Progress
  <2>2. CASE FinalizeSource(m)
    <3>1. /\ Progress(m) /\ migs'[m].state = migs[m].state
          /\ migs'[m].source_digest = migs[m].source_digest
          /\ disk' = disk /\ shards' = shards
      BY <2>2, FinalizeFrame
    <3>2. Recorded(disk.migs[m], migs'[m])
      BY <1>2, <3>1 DEF Recorded, Progress
    <3>3. QED
      BY <1>2, <3>1, <3>2 DEF Progress
  <2>3. CASE ImportBegins(m) \/ VerifyRaises(m) \/ CancelDiscards(m)
    BY <1>2, <2>3 DEF ImportBegins, VerifyRaises, CancelDiscards
  <2>4. QED
    BY <1>3, <2>1, <2>2, <2>3, MigrationKinds, EndsFrame, EntersFrame, ChecksFrame, CreateFrame
       DEF CommitOwnership
<1>4. ASSUME Persist
      PROVE  \A m \in Migs : Recorded(disk'.migs[m], migs'[m])
  BY <1>1, <1>4 DEF Recorded
<1>5. ASSUME NEW s \in Shards, ShardStep(s), ~Persist
      PROVE  disk'.shards = shards' /\ \A m \in Migs : Recorded(disk'.migs[m], migs'[m])
  BY <1>2, <1>5, OtherFrame
<1>6. CASE CrashRestart
  BY <1>6 DEF CrashRestart, Recorded
<1>7. CASE UNCHANGED vars
  BY <1>2, <1>7 DEF vars
<1>8. QED
  BY <1>1, <1>3, <1>4, <1>5, <1>6, <1>7 DEF Next, TransitionNode

\* BaseInv holds initially and after every step.
LEMMA InitBase == Init => BaseInv
<1> SUFFICES ASSUME Init PROVE BaseInv
  OBVIOUS
<1>1. TypeOK /\ OpInv
  BY InitTyped
<1>2. \A m \in Migs : migs[m].state = "NONE"
  BY DEF Init, NoMigration
<1>3. migs = disk.migs /\ shards = disk.shards /\ op = Idle
  BY DEF Init
<1>4. QED
  BY <1>1, <1>2, <1>3
     DEF BaseInv, CreatedOK, RunInv, FileInv, Recorded, Idle, Open, MigrationState

\* Every step keeps BaseInv.
LEMMA StepBase == BaseInv /\ [Next]_vars => BaseInv'
<1> SUFFICES ASSUME BaseInv, [Next]_vars PROVE BaseInv'
  OBVIOUS
<1>1. TypeOK' /\ OpInv'
  BY StepTyped, StepOpInv DEF BaseInv, OpInv
<1>2. QED
  BY <1>1, StepCreated, StepRun, StepFile DEF BaseInv

\* A step that adds to the migrations that moved is a commit's, or a restart.
LEMMA MovedFrame ==
    ASSUME TypeOK, OpInv, [Next]_vars
    PROVE  \/ moved' = moved
           \/ \E m \in Migs : CommitOwnership(m) /\ moved' = moved \cup {m}
           \/ CrashRestart
<1>1. ASSUME NEW m \in Migs, MigrationStep(m)
      PROVE  moved' = moved \/ (CommitOwnership(m) /\ moved' = moved \cup {m})
  BY <1>1, MigrationKinds, EndsFrame, EntersFrame, ChecksFrame, ImportFrame, FinalizeFrame,
     CreateFrame DEF ImportBegins, VerifyRaises, CommitOwnership, CancelDiscards
<1>2. QED
  BY <1>1, OtherFrame DEF Next, TransitionNode, vars

-----------------------------------------------------------------------------
(* Migrations that moved the owner *)

\* A migration that moved the owner is completed, or about to be.
MovedInv ==
    \A m \in moved :
        \/ migs[m].state = "COMPLETED"
        \/ op.at \in {"finalize", "complete"} /\ op.mig = m

\* Unless the process dies, every step keeps MovedInv.
LEMMA StepMoved ==
    ASSUME "crash" \notin Env, BaseInv, MovedInv, [Next]_vars
    PROVE  MovedInv'
<1> USE DEF BaseInv
<1>1. ASSUME NEW m \in Migs, moved' = moved,
             \A k \in Migs \ {m} : migs'[k] = migs[k],
             migs[m].state # "COMPLETED",
             op.at \in {"finalize", "complete"} =>
                \/ migs'[m].state = "COMPLETED"
                \/ op'.at \in {"finalize", "complete"} /\ op'.mig = m,
             op = Idle \/ op.mig = m
      PROVE  MovedInv'
  BY <1>1 DEF MovedInv, TypeOK, Idle
<1>2. ASSUME NEW m \in Migs, Progress(m) PROVE migs[m].state # "COMPLETED"
  BY <1>2 DEF Progress, Open, Terminal
<1>3. ASSUME NEW m \in Migs, MigrationStep(m)
      PROVE  MovedInv'
  <2>1. ASSUME NEW s \in Shards, NEW target \in Nodes, CreateMigration(m, s, target)
        PROVE  MovedInv'
    BY <1>1, <2>1, CreateFrame DEF Idle
  <2>2. CASE Ends(m)
    <3>1. /\ Progress(m)
          /\ moved' = moved
          /\ op.at \in {"finalize", "complete"} => migs'[m].state = "COMPLETED"
          /\ op = Idle \/ op.mig = m
      BY <2>2, EndsFrame
    <3>2. QED
      BY <1>1, <1>2, <3>1 DEF Progress
  <2>3. CASE Enters(m)
    BY <1>1, <1>2, <2>3, EntersFrame DEF Progress, Idle
  <2>4. CASE Checks(m)
    BY <1>1, <1>2, <2>4, ChecksFrame DEF Progress
  <2>5. CASE ImportEnds(m)
    BY <1>1, <1>2, <2>5, ImportFrame DEF Progress
  <2>6. CASE FinalizeSource(m)
    BY <1>1, <1>2, <2>6, FinalizeFrame DEF Progress
  <2>7. CASE ImportBegins(m) \/ VerifyRaises(m) \/ CancelDiscards(m)
    BY <2>7 DEF ImportBegins, VerifyRaises, CancelDiscards, MovedInv, Idle
  <2>8. CASE CommitOwnership(m)
    BY <2>8 DEF CommitOwnership, MovedInv
  <2>9. QED
    BY <1>3, <2>1, <2>2, <2>3, <2>4, <2>5, <2>6, <2>7, <2>8, MigrationKinds
<1>4. ASSUME UNCHANGED <<migs, op, moved>> PROVE MovedInv'
  BY <1>4 DEF MovedInv
<1>5. ~CrashRestart
  BY DEF CrashRestart
<1>6. QED
  BY <1>3, <1>4, <1>5, OtherFrame DEF Next, TransitionNode, vars

\* As long as the process lives, fail and cancel never meet a migration whose
\* commit has moved the owner: FAILED and CANCELLED mean that it did not.
THEOREM FailuresNeverMoved ==
    ASSUME "crash" \notin Env PROVE Spec => []FailedNeverMoved
<1>1. Init => BaseInv /\ MovedInv
  BY InitBase DEF Init, MovedInv
<1>2. BaseInv /\ MovedInv /\ [Next]_vars => (BaseInv /\ MovedInv)'
  BY StepBase, StepMoved
<1>3. BaseInv /\ MovedInv => FailedNeverMoved
  BY DEF BaseInv, MovedInv, FailedNeverMoved, OpInv, OpMatches
<1>4. QED
  BY <1>1, <1>2, <1>3, PTL DEF Spec

-----------------------------------------------------------------------------
(* Digests *)

\* The states from the copy on.
Copied == {"COPYING", "VERIFYING", "COMMITTING"}

\* Outside start_copy a migration that copied has both digests, and equal.
DigestInv ==
    \A m \in Migs : migs[m].state \in Copied =>
        \/ op.at \in {"copy", "import"} /\ op.mig = m
        \/ op.at = "check" /\ op.mig = m /\ migs[m].source_digest # NoDigest
        \/ migs[m].source_digest # NoDigest /\ migs[m].target_digest = migs[m].source_digest

\* Unless the process dies, every step keeps DigestInv.
LEMMA StepDigest ==
    ASSUME "crash" \notin Env, BaseInv, DigestInv, [Next]_vars
    PROVE  DigestInv'
<1> USE DEF BaseInv
<1>1. ASSUME NEW m \in Migs,
             \A k \in Migs \ {m} : migs'[k] = migs[k],
             op = Idle \/ op.mig = m,
             \/ migs'[m].state \notin Copied
             \/ op'.at \in {"copy", "import"} /\ op'.mig = m
             \/ op'.at = "check" /\ op'.mig = m /\ migs'[m].source_digest # NoDigest
             \/ migs'[m].source_digest # NoDigest /\ migs'[m].target_digest = migs'[m].source_digest
      PROVE  DigestInv'
  BY <1>1 DEF DigestInv, Idle
<1>2. ASSUME NEW m \in Migs, MigrationStep(m)
      PROVE  DigestInv'
  <2>1. ASSUME NEW s \in Shards, NEW target \in Nodes, CreateMigration(m, s, target)
        PROVE  DigestInv'
    BY <1>1, <2>1, CreateFrame DEF Copied
  <2>2. CASE Ends(m)
    BY <1>1, <2>2, EndsFrame DEF Progress, Copied, Terminal
  <2>3. CASE Enters(m)
    BY <1>1, <2>3, EntersFrame DEF Progress, Copied, DigestInv, Idle
  <2>4. CASE Checks(m)
    <3>1. migs[m].source_digest # NoDigest
      BY <2>4, ChecksFrame DEF DigestInv, Copied, OpInv, OpMatches
    <3>2. QED
      BY <1>1, <2>4, <3>1, ChecksFrame DEF Progress, DigestOK
  <2>5. CASE ImportEnds(m)
    BY <1>1, <2>5, ImportFrame, DigestAssumption DEF Progress
  <2>6. CASE FinalizeSource(m)
    BY <1>1, <2>6, FinalizeFrame DEF Progress, DigestInv, Copied
  <2>7. CASE ImportBegins(m) \/ VerifyRaises(m) \/ CommitOwnership(m) \/ CancelDiscards(m)
    <3>1. migs' = migs /\ (op = Idle \/ op.mig = m)
      BY <2>7 DEF ImportBegins, VerifyRaises, CommitOwnership, CancelDiscards
    <3>2. CASE ImportBegins(m)
      BY <1>1, <3>1, <3>2 DEF ImportBegins
    <3>3. CASE VerifyRaises(m) \/ CommitOwnership(m) \/ CancelDiscards(m)
      <4>1. op.at \notin {"copy", "import", "check"}
        BY <3>3 DEF VerifyRaises, CommitOwnership, CancelDiscards, Idle
      <4>2. QED
        BY <1>1, <3>1, <4>1 DEF DigestInv
    <3>4. QED
      BY <2>7, <3>2, <3>3
  <2>8. QED
    BY <1>2, <2>1, <2>2, <2>3, <2>4, <2>5, <2>6, <2>7, MigrationKinds
<1>3. ASSUME UNCHANGED <<migs, op>> PROVE DigestInv'
  BY <1>3 DEF DigestInv
<1>4. ~CrashRestart
  BY DEF CrashRestart
<1>5. QED
  BY <1>2, <1>3, <1>4, OtherFrame DEF Next, TransitionNode, vars

\* As long as the process lives, ownership moves only on two recorded digests
\* that are equal, even when files of the target change under the migration.
THEOREM DigestsAgree ==
    ASSUME "crash" \notin Env PROVE Spec => DigestsAgreeAtCommit
<1>1. Init => BaseInv /\ DigestInv
  <2>1. Init => \A m \in Migs : migs[m].state = "NONE"
    BY DEF Init, NoMigration
  <2>2. QED
    BY <2>1, InitBase DEF DigestInv, Copied
<1>2. BaseInv /\ DigestInv /\ [Next]_vars => (BaseInv /\ DigestInv)'
  BY StepBase, StepDigest
<1>3. BaseInv /\ DigestInv /\ [Next]_vars
        => [\A m \in moved' \ moved :
               /\ migs[m].source_digest # NoDigest
               /\ migs[m].target_digest = migs[m].source_digest]_vars
  <2> SUFFICES ASSUME BaseInv, DigestInv, [Next]_vars, NEW m \in moved' \ moved
               PROVE  /\ migs[m].source_digest # NoDigest
                      /\ migs[m].target_digest = migs[m].source_digest
    OBVIOUS
  <2>1. m \in Migs /\ CommitOwnership(m)
    BY MovedFrame DEF BaseInv, CrashRestart
  <2>2. op = [at |-> "commit", mig |-> m]
    BY <2>1 DEF CommitOwnership
  <2>3. migs[m].state = "COMMITTING"
    BY <2>2 DEF BaseInv, OpInv, OpMatches
  <2>4. QED
    BY <2>1, <2>2, <2>3 DEF DigestInv, Copied
<1>4. QED
  BY <1>1, <1>2, <1>3, PTL DEF Spec, DigestsAgreeAtCommit

-----------------------------------------------------------------------------
(* Stale migrations *)

\* A migration step is its creation, progress of an open migration, or leaves
\* the migrations alone; none of them makes a migration stale.
LEMMA MigrationFrame ==
    ASSUME TypeOK, OpInv, NEW m \in Migs, MigrationStep(m)
    PROVE  /\ \/ \E s \in Shards, target \in Nodes : CreateMigration(m, s, target)
              \/ Progress(m)
              \/ migs' = migs
           /\ stale' = stale
<1>1. CASE Ends(m) \/ Enters(m) \/ Checks(m) \/ ImportEnds(m) \/ FinalizeSource(m)
  BY <1>1, EndsFrame, EntersFrame, ChecksFrame, ImportFrame, FinalizeFrame
<1>2. CASE ImportBegins(m) \/ VerifyRaises(m) \/ CommitOwnership(m) \/ CancelDiscards(m)
  BY <1>2 DEF ImportBegins, VerifyRaises, CommitOwnership, CancelDiscards
<1>3. ASSUME NEW s \in Shards, NEW target \in Nodes, CreateMigration(m, s, target)
      PROVE  stale' = stale
  BY <1>3, CreateFrame
<1>4. QED
  BY <1>1, <1>2, <1>3, MigrationKinds

\* A step that changes the record of shard s removes it or raises its version.
Raised(s) ==
    \/ shards'[s].state = "ABSENT"
    \/ /\ shards[s].state # "ABSENT"
       /\ shards[s].version \in Nat
       /\ shards'[s].version = shards[s].version + 1

\* A commit raises the version of its own shard.
LEMMA CommitRaises ==
    ASSUME BaseInv, NEW m \in Migs, CommitOwnership(m)
    PROVE  /\ migs[m].shard \in Shards
           /\ Raised(migs[m].shard)
           /\ \A t \in Shards \ {migs[m].shard} : shards'[t] = shards[t]
           /\ SourceValid(m)
           /\ migs[m].state = "COMMITTING"
           /\ op = [at |-> "commit", mig |-> m]
           /\ UNCHANGED <<migs, data, stale>>
<1>1. op = [at |-> "commit", mig |-> m] /\ UNCHANGED <<migs, data, stale>>
  BY DEF CommitOwnership
<1>2. migs[m].state = "COMMITTING" /\ SourceValid(m)
  BY <1>1 DEF BaseInv, OpInv, OpMatches, RunInv
<1>3. migs[m].shard \in Shards
  BY <1>2, MigrationFields DEF BaseInv, MigrationState
<1>4. shards' = [shards EXCEPT ![migs[m].shard] = MovedShard(m)]
  BY DEF CommitOwnership
<1>5. /\ shards'[migs[m].shard] = MovedShard(m)
      /\ \A t \in Shards \ {migs[m].shard} : shards'[t] = shards[t]
  BY <1>3, <1>4 DEF BaseInv, TypeOK
<1>6. shards[migs[m].shard].state # "ABSENT" /\ shards[migs[m].shard].version \in Nat
  BY <1>2, <1>3, PresentIsRecord DEF SourceValid, MIGRATABLE_STATES, BaseInv, ShardRecord, Version
<1>7. QED
  BY <1>1, <1>2, <1>3, <1>5, <1>6 DEF Raised, MovedShard

\* Without recreation, so does whoever puts a shard record, and every open
\* migration of the shard becomes stale.
LEMMA PutRaises ==
    ASSUME "recreate" \notin Env, TypeOK, NEW s \in Shards, ShardStep(s)
    PROVE  \/ UNCHANGED <<shards, stale>>
           \/ /\ op = Idle
              /\ Raised(s)
              /\ \A t \in Shards \ {s} : shards'[t] = shards[t]
              /\ stale' = Outdated(s)
              /\ data' = data
<1>1. ASSUME NEW r, PutShard(s, r)
      PROVE  /\ shards'[s] = r
             /\ \A t \in Shards \ {s} : shards'[t] = shards[t]
             /\ stale' = Outdated(s)
             /\ data' = data
  BY <1>1 DEF PutShard, TypeOK
<1>2. ASSUME NEW to \in ShardState, TransitionShard(s, to)
      PROVE  op = Idle /\ \E r : PutShard(s, r) /\ Raised(s)
  <2>1. shards[s] \in ShardRecord
    BY <1>2, PresentIsRecord DEF TransitionShard, ShardState
  <2>2. PICK r : r = [shards[s] EXCEPT !.state = to, !.version = @ + 1] /\ PutShard(s, r)
    BY <1>2 DEF TransitionShard
  <2>3. shards[s].version \in Nat /\ shards[s].state # "ABSENT" /\ r.version = shards[s].version + 1
    BY <2>1, <2>2 DEF ShardRecord, Version, ShardState
  <2>4. Raised(s)
    BY <1>1, <2>2, <2>3 DEF Raised
  <2>5. QED
    BY <1>2, <2>2, <2>4 DEF TransitionShard
<1>3. ASSUME NEW owner \in Nodes, NEW replicas \in SUBSET Nodes, ChangeOwner(s, owner, replicas)
      PROVE  op = Idle /\ \E r : PutShard(s, r) /\ Raised(s)
  <2>1. shards[s] \in ShardRecord
    BY <1>3, PresentIsRecord DEF ChangeOwner
  <2>2. PICK r : /\ r = [shards[s] EXCEPT !.node_id = owner, !.replicas = replicas, !.version = @ + 1]
                 /\ PutShard(s, r)
    BY <1>3 DEF ChangeOwner
  <2>3. shards[s].version \in Nat /\ shards[s].state # "ABSENT" /\ r.version = shards[s].version + 1
    BY <2>1, <2>2 DEF ShardRecord, Version, ShardState
  <2>4. Raised(s)
    BY <1>1, <2>2, <2>3 DEF Raised
  <2>5. QED
    BY <1>3, <2>2, <2>4 DEF ChangeOwner
<1>4. ASSUME DropShard(s)
      PROVE  op = Idle /\ \E r : PutShard(s, r) /\ Raised(s)
  <2>1. PutShard(s, NoShard) /\ op = Idle
    BY <1>4 DEF DropShard
  <2>2. Raised(s)
    BY <1>1, <2>1 DEF Raised, NoShard
  <2>3. QED
    BY <2>1, <2>2
<1>5. \A owner, replicas : ~CreateShard(s, owner, replicas)
  BY DEF CreateShard
<1>6. ASSUME \/ \E r \in Recs, v \in Vals : Upsert(s, r, v)
             \/ \E r \in Recs : Delete(s, r)
             \/ \E n \in Nodes, c \in Content : Tamper(n, s, c)
      PROVE  UNCHANGED <<shards, stale>>
  <2>1. ASSUME NEW n, NEW r, NEW cell, Store(n, s, r, cell)
        PROVE  UNCHANGED <<shards, stale>>
    BY <2>1 DEF Store
  <2>2. ASSUME NEW n, NEW c, Tamper(n, s, c)
        PROVE  UNCHANGED <<shards, stale>>
    BY <2>2 DEF Tamper
  <2>3. QED
    BY <1>6, <2>1, <2>2 DEF Upsert, Delete
<1>7. QED
  BY <1>1, <1>2, <1>3, <1>4, <1>5, <1>6 DEF ShardStep

\* The record an open migration was created from has not been created again
\* since, and a stale migration's is gone or newer.
VersionsOK(ss, ms, st) ==
    \A m \in Migs :
        /\ m \in st => ms[m].state # "NONE"
        /\ ms[m].state \in Open =>
              \/ ss[ms[m].shard].state = "ABSENT"
              \/ ss[ms[m].shard].version > ms[m].source_version
              \/ ss[ms[m].shard].version = ms[m].source_version /\ m \notin st

VersionInv ==
    /\ VersionsOK(shards, migs, stale)
    /\ VersionsOK(disk.shards, disk.migs, disk.stale)
    /\ disk.moved \subseteq moved

\* The file a step leaves is the memory of that moment, or the file before.
LEMMA StepStore ==
    ASSUME [Next]_vars
    PROVE  \/ disk' = disk
           \/ disk' = [shards |-> shards', nodes |-> nodes', migs |-> migs',
                       moved |-> moved', stale |-> stale']
BY StepPersists DEF Persist

\* Unless shards are created again, every step keeps VersionInv: versions only rise.
LEMMA StepVersions ==
    ASSUME "recreate" \notin Env, BaseInv, VersionInv, [Next]_vars
    PROVE  VersionInv'
<1> USE DEF BaseInv
<1>1. \A m \in Migs : migs[m].state \in Open => migs[m].shard \in Shards /\ migs[m].source_version \in Nat
  BY MigrationFields DEF Open, Version
<1>2. \A s \in Shards : shards[s].state # "ABSENT" => shards[s].version \in Nat
  BY PresentIsRecord DEF ShardRecord, Version
<1>3. ASSUME NEW m \in Migs, MigrationStep(m), shards' = shards
      PROVE  VersionsOK(shards', migs', stale')
  <2>1. ASSUME NEW s \in Shards, NEW target \in Nodes, CreateMigration(m, s, target)
        PROVE  VersionsOK(shards', migs', stale')
    <3>1. m \notin stale
      BY <2>1, CreateFrame DEF VersionInv, VersionsOK
    <3>2. QED
      BY <2>1, <3>1, CreateFrame DEF VersionInv, VersionsOK
  <2>2. CASE Progress(m)
    <3>1. migs'[m].state # "NONE"
      BY <2>2 DEF Progress, MigrationRecord, MigrationState
    <3>2. QED
      BY <1>3, <2>2, <3>1, MigrationFrame DEF Progress, VersionInv, VersionsOK
  <2>3. CASE migs' = migs
    BY <1>3, <2>3, MigrationFrame DEF VersionInv
  <2>4. QED
    BY <1>3, <2>1, <2>2, <2>3, MigrationFrame
<1>4. ASSUME NEW s \in Shards, Raised(s), migs' = migs, stale' \in {stale, Outdated(s)},
             \A t \in Shards \ {s} : shards'[t] = shards[t]
      PROVE  VersionsOK(shards', migs', stale')
  <2> SUFFICES ASSUME NEW m \in Migs
               PROVE  /\ m \in stale' => migs[m].state # "NONE"
                      /\ migs[m].state \in Open =>
                            \/ shards'[migs[m].shard].state = "ABSENT"
                            \/ shards'[migs[m].shard].version > migs[m].source_version
                            \/ /\ shards'[migs[m].shard].version = migs[m].source_version
                               /\ m \notin stale'
    BY <1>4 DEF VersionsOK
  <2>1. m \in stale' => migs[m].state # "NONE"
    BY <1>4 DEF VersionInv, VersionsOK, Outdated, InProgress
  <2>2. ASSUME migs[m].state \in Open, migs[m].shard = s, shards[s].state # "ABSENT"
        PROVE  shards[s].version >= migs[m].source_version
    BY <1>1, <1>2, <2>2 DEF VersionInv, VersionsOK
  <2>3. ASSUME migs[m].state \in Open, migs[m].shard = s
        PROVE  \/ shards'[s].state = "ABSENT"
               \/ shards'[s].version > migs[m].source_version
    BY <1>1, <1>4, <2>2, <2>3 DEF Raised
  <2>4. ASSUME migs[m].state \in Open, migs[m].shard # s
        PROVE  shards'[migs[m].shard] = shards[migs[m].shard] /\ (m \in stale' <=> m \in stale)
    BY <1>1, <1>4, <2>4 DEF Outdated, InProgress
  <2>5. QED
    BY <2>1, <2>3, <2>4 DEF VersionInv, VersionsOK
<1>5. ASSUME NEW m \in Migs, MigrationStep(m)
      PROVE  VersionsOK(shards', migs', stale')
  <2>1. CASE CommitOwnership(m)
    BY <1>4, <2>1, CommitRaises
  <2>2. CASE ~CommitOwnership(m)
    <3>1. shards' = shards
      BY <1>5, <2>2, MigrationKinds, EndsFrame, EntersFrame, ChecksFrame, ImportFrame,
         FinalizeFrame, CreateFrame DEF ImportBegins, VerifyRaises, CancelDiscards
    <3>2. QED
      BY <1>3, <1>5, <3>1
  <2>3. QED
    BY <2>1, <2>2
<1>6. ASSUME NEW s \in Shards, ShardStep(s)
      PROVE  VersionsOK(shards', migs', stale')
  BY <1>4, <1>6, PutRaises, OtherFrame DEF VersionInv
<1>7. VersionsOK(shards', migs', stale')
  BY <1>5, <1>6 DEF Next, TransitionNode, CrashRestart, vars, VersionInv
<1>8. disk'.moved \subseteq moved'
  <2>1. CASE CrashRestart
    BY <2>1 DEF CrashRestart
  <2>2. CASE ~CrashRestart
    <3>1. moved \subseteq moved'
      BY <2>2, MovedFrame
    <3>2. QED
      BY <3>1, StepStore DEF VersionInv
  <2>3. QED
    BY <2>1, <2>2
<1>9. VersionsOK(disk'.shards, disk'.migs, disk'.stale)
  BY <1>7, StepStore DEF VersionInv
<1>10. QED
  BY <1>7, <1>8, <1>9 DEF VersionInv

\* Initially there is no migration.
LEMMA InitVersions == Init => VersionInv
<1> SUFFICES ASSUME Init PROVE VersionInv
  OBVIOUS
<1>1. \A m \in Migs : migs[m].state = "NONE"
  BY DEF Init, NoMigration
<1>2. stale = {} /\ disk.stale = {} /\ disk.migs = migs /\ disk.moved = moved
  BY DEF Init
<1>3. QED
  BY <1>1, <1>2 DEF VersionInv, VersionsOK, Open, MigrationState

\* A step that adds to the migrations that moved is a commit.
LEMMA NewlyMoved ==
    ASSUME BaseInv, VersionInv, [Next]_vars, NEW m \in moved' \ moved
    PROVE  m \in Migs /\ CommitOwnership(m)
BY MovedFrame DEF BaseInv, VersionInv, CrashRestart

\* Unless shards are created again under their old ids, the comparison of
\* versions in _assert_source_valid finds every migration whose shard record
\* somebody else has written, through crashes and failed writes of the file:
\* a stale migration never moves the owner.
THEOREM StaleCommitsExcluded ==
    ASSUME "recreate" \notin Env PROVE Spec => StaleNeverCommits
<1>1. Init => BaseInv /\ VersionInv
  BY InitBase, InitVersions
<1>2. BaseInv /\ VersionInv /\ [Next]_vars => (BaseInv /\ VersionInv)'
  BY StepBase, StepVersions
<1>3. BaseInv /\ VersionInv /\ [Next]_vars => [moved' \cap stale' \subseteq moved]_vars
  <2> SUFFICES ASSUME BaseInv, VersionInv, [Next]_vars, NEW m \in moved' \ moved
               PROVE  m \notin stale'
    OBVIOUS
  <2>1. m \in Migs /\ CommitOwnership(m)
    BY NewlyMoved
  <2>2. SourceValid(m) /\ migs[m].state \in Open /\ stale' = stale
    BY <2>1, CommitRaises DEF Open, MigrationState, Terminal
  <2>3. migs[m].source_version \in Nat
    BY <2>1, <2>2, MigrationFields DEF BaseInv, Open, Version
  <2>4. QED
    BY <2>1, <2>2, <2>3 DEF VersionInv, VersionsOK, SourceValid, MIGRATABLE_STATES
<1>4. QED
  BY <1>1, <1>2, <1>3, PTL DEF Spec, StaleNeverCommits

-----------------------------------------------------------------------------
(* What a migration copied *)

\* The environments in which a copy lasts: nobody changes the target's files
\* or creates the shard again; and if the process may die, no cancel can have
\* emptied the target before that and the file is up to date.
Protected ==
    /\ "tamper" \notin Env
    /\ "recreate" \notin Env
    /\ "crash" \in Env => "cancel" \notin Env /\ "persist_fail" \notin Env

\* The shard record is the one migration m was created from.
Stands(m) ==
    LET shard == shards[migs[m].shard]
    IN  /\ shard.state # "ABSENT"
        /\ shard.node_id = migs[m].source
        /\ shard.version = migs[m].source_version

\* The target has what the source had, and the source still has it if the
\* shard takes no writes.
Holds(m) ==
    /\ data[migs[m].target][migs[m].shard] = migs[m].source_digest
    /\ shards[migs[m].shard].state = "DRAINING" =>
          data[migs[m].source][migs[m].shard] = migs[m].source_digest

CopyInv ==
    \A m \in Migs :
        /\ migs[m].state \in Copied
        /\ migs[m].source_digest # NoDigest
        /\ Stands(m)
        /\ ~(op.at = "cancel" /\ op.mig = m)
        => Holds(m)

\* Two open migrations have two shards.
LEMMA OtherShard ==
    ASSUME TypeOK, OneOpenMigration, NEW m \in Migs, NEW k \in Migs, m # k,
           migs[m].state \in Open, migs[k].state \in Open
    PROVE  migs[m].shard # migs[k].shard
BY DEF OneOpenMigration, AtMostOneOpen, Open, MigrationState, Terminal

\* A record that is raised is no longer the one an open migration was created
\* from.
LEMMA StandsAsBefore ==
    ASSUME BaseInv, VersionInv, NEW m \in Migs, migs[m].state \in Open, NEW s \in Shards,
           migs' = migs, Stands(m)', Raised(s),
           \A t \in Shards \ {s} : shards'[t] = shards[t]
    PROVE  migs[m].shard # s
<1>1. migs[m].shard \in Shards /\ migs[m].source_version \in Nat
  BY MigrationFields DEF BaseInv, Open, Version
<1>2. SUFFICES ASSUME migs[m].shard = s PROVE FALSE
  OBVIOUS
<1>3. /\ shards'[s].state # "ABSENT"
      /\ shards'[s].version = migs[m].source_version
  BY <1>2 DEF Stands
<1>4. /\ shards[s].state # "ABSENT"
      /\ shards[s].version \in Nat
      /\ shards'[s].version = shards[s].version + 1
  BY <1>3 DEF Raised
<1>5. shards[s].version >= migs[m].source_version
  BY <1>1, <1>2, <1>4 DEF VersionInv, VersionsOK
<1>6. QED
  BY <1>1, <1>3, <1>4, <1>5

\* A migration whose record, shard and contents stay keeps its copy.
LEMMA CopyStays ==
    ASSUME CopyInv, NEW m \in Migs,
           migs[m].state \in Copied,
           ~(op.at = "cancel" /\ op.mig = m),
           migs'[m].shard = migs[m].shard,
           migs'[m].source = migs[m].source,
           migs'[m].target = migs[m].target,
           migs'[m].source_version = migs[m].source_version,
           migs'[m].source_digest = migs[m].source_digest,
           shards'[migs[m].shard] = shards[migs[m].shard],
           \A n \in Nodes : data'[n][migs[m].shard] = data[n][migs[m].shard],
           migs[m].source \in Nodes, migs[m].target \in Nodes,
           migs'[m].source_digest # NoDigest, Stands(m)'
    PROVE  Holds(m)'
<1>1. Stands(m)
  BY DEF Stands
<1>2. Holds(m)
  BY <1>1 DEF CopyInv
<1>3. QED
  BY <1>2 DEF Holds

\* The steps of an operation on migration k leave the copies of the others.
LEMMA OthersKeepCopies ==
    ASSUME BaseInv, OneOpenMigration, CopyInv, NEW k \in Migs, migs[k].state \in Open,
           op = Idle \/ op.mig = k, shards' = shards,
           \A m \in Migs \ {k} : migs'[m] = migs[m],
           data' = data \/ \E n, c : data' = [data EXCEPT ![n][migs[k].shard] = c],
           NEW m \in Migs \ {k},
           migs'[m].state \in Copied, migs'[m].source_digest # NoDigest, Stands(m)'
    PROVE  Holds(m)'
<1>1. migs[m].state \in Copied /\ migs[m].state \in Open
  BY DEF Copied, Open, MigrationState, Terminal
<1>2. migs[m].shard # migs[k].shard
  BY <1>1, OtherShard DEF BaseInv
<1>3. migs[m].shard \in Shards /\ migs[m].source \in Nodes /\ migs[m].target \in Nodes
  BY <1>1, MigrationFields DEF BaseInv, Open
<1>4. \A n \in Nodes : data'[n][migs[m].shard] = data[n][migs[m].shard]
  BY <1>2, <1>3 DEF BaseInv, TypeOK
<1>5. ~(op.at = "cancel" /\ op.mig = m)
  BY DEF Idle
<1>6. QED
  BY <1>1, <1>3, <1>4, <1>5, CopyStays

\* Every step of a migration keeps CopyInv.
LEMMA MigrationCopies ==
    ASSUME Protected, BaseInv, OneOpenMigration, VersionInv, CopyInv,
           NEW k \in Migs, MigrationStep(k)
    PROVE  CopyInv'
<1> USE DEF BaseInv
<1>1. ASSUME migs[k].state \in Open, op = Idle \/ op.mig = k, shards' = shards,
             \A m \in Migs \ {k} : migs'[m] = migs[m],
             data' = data \/ \E n, c : data' = [data EXCEPT ![n][migs[k].shard] = c],
             /\ migs'[k].state \in Copied
             /\ migs'[k].source_digest # NoDigest
             /\ Stands(k)'
             /\ ~(op'.at = "cancel" /\ op'.mig = k)
             => Holds(k)'
      PROVE  CopyInv'
  BY <1>1, OthersKeepCopies DEF CopyInv
<1>2. ASSUME Progress(k), op = Idle \/ op.mig = k, op.at # "cancel",
             UNCHANGED <<shards, data>>, migs[k].state \in Copied,
             migs'[k].source_digest = migs[k].source_digest
      PROVE  CopyInv'
  <2>1. migs[k].source \in Nodes /\ migs[k].target \in Nodes
    BY <1>2, MigrationFields DEF Progress, Open
  <2>2. ASSUME migs'[k].source_digest # NoDigest, Stands(k)'
        PROVE  Holds(k)'
    BY <1>2, <2>1, <2>2, CopyStays DEF Progress
  <2>3. QED
    BY <1>1, <1>2, <2>2 DEF Progress
<1>3. ASSUME NEW s \in Shards, NEW target \in Nodes, CreateMigration(k, s, target)
      PROVE  CopyInv'
  <2>1. SUFFICES ASSUME NEW m \in Migs, migs'[m].state \in Copied,
                        migs'[m].source_digest # NoDigest, Stands(m)'
                 PROVE  Holds(m)'
    BY DEF CopyInv
  <2>2. m # k /\ migs'[m] = migs[m] /\ UNCHANGED <<shards, data>> /\ op = Idle
    BY <1>3, <2>1, CreateFrame DEF Copied
  <2>3. migs[m].source \in Nodes /\ migs[m].target \in Nodes
    BY <2>1, <2>2, MigrationFields DEF Copied, MigrationState
  <2>4. QED
    BY <2>1, <2>2, <2>3, CopyStays DEF Idle
<1>4. CASE Ends(k)
  BY <1>1, <1>4, EndsFrame DEF Progress, Copied, Terminal
<1>5. CASE Enters(k)
  <2>1. CASE migs[k].state \in Copied
    BY <1>2, <1>5, <2>1, EntersFrame DEF Idle
  <2>2. CASE migs[k].state \notin Copied
    <3>1. migs'[k].source_digest = NoDigest \/ migs'[k].state \notin Copied
      BY <1>5, <2>2, EntersFrame DEF CreatedOK, Copied
    <3>2. QED
      BY <1>1, <1>5, <3>1, EntersFrame DEF Progress
  <2>3. QED
    BY <2>1, <2>2
<1>6. CASE Checks(k)
  BY <1>2, <1>6, ChecksFrame DEF OpInv, OpMatches, Copied
<1>7. CASE ImportBegins(k)
  <2>1. op = [at |-> "copy", mig |-> k] /\ migs' = migs /\ shards' = shards
    BY <1>7 DEF ImportBegins
  <2>2. migs[k].state \in Open /\ migs[k].source_digest = NoDigest
    BY <2>1 DEF OpInv, OpMatches, RunInv, Open, MigrationState, Terminal
  <2>3. \E n, c : data' = [data EXCEPT ![n][migs[k].shard] = c]
    BY <1>7 DEF ImportBegins
  <2>4. QED
    BY <1>1, <2>1, <2>2, <2>3
<1>8. CASE ImportEnds(k)
  <2>1. /\ migs[k].shard \in Shards /\ migs[k].source \in Nodes /\ migs[k].target \in Nodes
        /\ migs[k].source # migs[k].target
    BY <1>8, ImportFrame, MigrationFields DEF Progress, Open, CreatedOK
  <2>2. data' = [data EXCEPT ![migs[k].target][migs[k].shard] = data[migs[k].source][migs[k].shard]]
    BY <1>8 DEF ImportEnds
  <2>3. /\ data'[migs[k].target][migs[k].shard] = data[migs[k].source][migs[k].shard]
        /\ data'[migs[k].source][migs[k].shard] = data[migs[k].source][migs[k].shard]
    BY <2>1, <2>2 DEF TypeOK
  <2>4. Holds(k)'
    BY <1>8, <2>3, ImportFrame DEF Holds, Progress
  <2>5. \E n, c : data' = [data EXCEPT ![n][migs[k].shard] = c]
    BY <2>2
  <2>6. /\ migs[k].state \in Open /\ op.mig = k /\ shards' = shards
        /\ \A m \in Migs \ {k} : migs'[m] = migs[m]
    BY <1>8, ImportFrame DEF Progress
  <2>7. QED
    BY <1>1, <2>4, <2>5, <2>6
<1>9. CASE VerifyRaises(k)
  BY <1>9 DEF VerifyRaises, CopyInv, Holds, Stands, Idle
<1>10. CASE CommitOwnership(k)
  <2>1. SUFFICES ASSUME NEW m \in Migs, migs'[m].state \in Copied,
                        migs'[m].source_digest # NoDigest, Stands(m)'
                 PROVE  Holds(m)'
    BY DEF CopyInv
  <2>2. migs' = migs /\ data' = data /\ op.at = "commit"
    BY <1>10, CommitRaises
  <2>3. /\ migs[m].source \in Nodes /\ migs[m].target \in Nodes /\ migs[m].shard \in Shards
        /\ migs[m].state \in Open
    BY <2>1, <2>2, MigrationFields DEF Copied, MigrationState, Open, Terminal
  <2>4. shards'[migs[m].shard] = shards[migs[m].shard]
    BY <1>10, <2>1, <2>2, <2>3, CommitRaises, StandsAsBefore
  <2>5. QED
    BY <2>1, <2>2, <2>3, <2>4, CopyStays
<1>11. CASE FinalizeSource(k)
  <2>1. ~Stands(k)'
    <3>1. migs[k].source # migs[k].target
      BY <1>11, FinalizeFrame DEF Progress, CreatedOK
    <3>2. shards[migs[k].shard].node_id = migs[k].target
      BY <1>11, FinalizeFrame DEF RunInv
    <3>3. QED
      BY <1>11, <3>1, <3>2, FinalizeFrame DEF Stands, Progress
  <2>2. \E n, c : data' = [data EXCEPT ![n][migs[k].shard] = c]
    BY <1>11 DEF FinalizeSource
  <2>3. /\ migs[k].state \in Open /\ op.mig = k /\ shards' = shards
        /\ \A m \in Migs \ {k} : migs'[m] = migs[m]
    BY <1>11, FinalizeFrame DEF Progress
  <2>4. QED
    BY <1>1, <2>1, <2>2, <2>3
<1>12. CASE CancelDiscards(k)
  <2>1. /\ op = Idle /\ op' = [at |-> "cancel", mig |-> k]
        /\ migs' = migs /\ shards' = shards
        /\ migs[k].state \in {"COPYING", "VERIFYING"}
    BY <1>12 DEF CancelDiscards
  <2>2. \E n, c : data' = [data EXCEPT ![n][migs[k].shard] = c]
    BY <1>12 DEF CancelDiscards
  <2>3. QED
    BY <1>1, <2>1, <2>2 DEF Open, MigrationState, Terminal
<1>13. QED
  BY <1>3, <1>4, <1>5, <1>6, <1>7, <1>8, <1>9, <1>10, <1>11, <1>12, MigrationKinds

\* The clients of the owner and the managers of its record keep it: a shard
\* that takes writes is not DRAINING, and its owner is not the target.
LEMMA ShardCopies ==
    ASSUME Protected, BaseInv, VersionInv, CopyInv, NEW s \in Shards, ShardStep(s)
    PROVE  CopyInv'
<1> USE DEF BaseInv
<1>1. SUFFICES ASSUME NEW m \in Migs, migs[m].state \in Copied,
                      migs[m].source_digest # NoDigest, Stands(m)',
                      ~(op.at = "cancel" /\ op.mig = m)
               PROVE  Holds(m)'
  BY OtherFrame DEF CopyInv
<1>2. migs' = migs /\ op' = op
  BY OtherFrame
<1>3. /\ migs[m].source \in Nodes /\ migs[m].target \in Nodes /\ migs[m].shard \in Shards
      /\ migs[m].state \in Open /\ migs[m].source # migs[m].target
  BY <1>1, MigrationFields DEF Copied, MigrationState, Open, Terminal, CreatedOK
<1>4. CASE data' = data /\ Raised(s) /\ \A t \in Shards \ {s} : shards'[t] = shards[t]
  <2>1. shards'[migs[m].shard] = shards[migs[m].shard]
    BY <1>1, <1>2, <1>3, <1>4, StandsAsBefore
  <2>2. QED
    BY <1>1, <1>2, <1>3, <1>4, <2>1, CopyStays
<1>5. ASSUME NEW r, NEW cell, shards[s].state = "ACTIVE", Store(shards[s].node_id, s, r, cell)
      PROVE  Holds(m)'
  <2>1. shards' = shards /\ data' = [data EXCEPT ![shards[s].node_id][s][r] = cell]
    BY <1>5 DEF Store
  <2>2. Stands(m)
    BY <1>1, <1>2, <2>1 DEF Stands
  <2>3. CASE migs[m].shard = s
    <3>1. data'[migs[m].target][s] = data[migs[m].target][s]
      BY <1>3, <2>1, <2>2, <2>3 DEF Stands, TypeOK
    <3>2. Holds(m)
      BY <1>1, <2>2 DEF CopyInv
    <3>3. QED
      BY <1>2, <1>5, <2>1, <2>3, <3>1, <3>2 DEF Holds
  <2>4. CASE migs[m].shard # s
    <3>1. \A n \in Nodes : data'[n][migs[m].shard] = data[n][migs[m].shard]
      BY <1>3, <2>1, <2>4 DEF TypeOK
    <3>2. QED
      BY <1>1, <1>2, <1>3, <2>1, <3>1, CopyStays
  <2>5. QED
    BY <2>3, <2>4
<1>6. ASSUME UNCHANGED <<shards, stale>> /\ ~UNCHANGED data
      PROVE  Holds(m)'
  <2>1. \/ \E r, cell : shards[s].state = "ACTIVE" /\ Store(shards[s].node_id, s, r, cell)
        \/ \E n \in Nodes, c \in Content : Tamper(n, s, c)
    <3>1. ASSUME NEW r, PutShard(s, r) PROVE FALSE
      BY <1>6, <3>1 DEF PutShard
    <3>2. QED
      BY <1>6, <3>1 DEF ShardStep, TransitionShard, ChangeOwner, DropShard, CreateShard,
                        Upsert, Delete
  <2>2. QED
    BY <1>5, <2>1 DEF Tamper, Protected
<1>7. CASE UNCHANGED <<shards, data>>
  BY <1>1, <1>2, <1>3, <1>7, CopyStays
<1>8. QED
  BY <1>4, <1>6, <1>7, PutRaises DEF Protected

\* Every step keeps CopyInv.
LEMMA StepCopies ==
    ASSUME Protected, BaseInv, OneOpenMigration, VersionInv, CopyInv, [Next]_vars
    PROVE  CopyInv'
<1>1. CASE CrashRestart
  <2>1. "cancel" \notin Env /\ "persist_fail" \notin Env
    BY <1>1 DEF CrashRestart, Protected
  <2>2. /\ shards' = shards /\ data' = data /\ migs' = disk.migs
        /\ op.at # "cancel"
        /\ \A m \in Migs : Recorded(disk.migs[m], migs[m])
    BY <1>1, <2>1 DEF CrashRestart, BaseInv, FileInv, RunInv
  <2>3. SUFFICES ASSUME NEW m \in Migs, migs'[m].state \in Copied,
                        migs'[m].source_digest # NoDigest, Stands(m)'
                 PROVE  Holds(m)'
    BY DEF CopyInv
  <2>4. Recorded(migs'[m], migs[m])
    BY <2>2
  <2>5. migs[m].state \in Copied /\ migs'[m].source_digest = migs[m].source_digest
    BY <2>3, <2>4 DEF Recorded
  <2>6. /\ migs'[m].shard = migs[m].shard
        /\ migs'[m].source = migs[m].source
        /\ migs'[m].target = migs[m].target
        /\ migs'[m].source_version = migs[m].source_version
    BY <2>4 DEF Recorded
  <2>7. migs[m].source \in Nodes /\ migs[m].target \in Nodes
    BY <2>5, MigrationFields DEF BaseInv, Copied, MigrationState
  <2>8. QED
    BY <2>2, <2>3, <2>5, <2>6, <2>7, CopyStays
<1>2. ASSUME UNCHANGED <<shards, data, migs, op>>
      PROVE  CopyInv'
  BY <1>2 DEF CopyInv, Holds, Stands
<1>3. QED
  BY <1>1, <1>2, MigrationCopies, ShardCopies DEF Next, TransitionNode, vars

\* What holds of copies, with all that it rests on.
ContentInv == BaseInv /\ OneOpenMigration /\ VersionInv /\ CopyInv

\* It holds initially, when there is no migration.
LEMMA InitContent == Init => ContentInv
<1> SUFFICES ASSUME Init PROVE ContentInv
  OBVIOUS
<1>1. \A m \in Migs : migs[m].state = "NONE"
  BY DEF Init, NoMigration
<1>2. OneOpenMigration
  BY <1>1 DEF Init, OneOpenMigration, AtMostOneOpen
<1>3. QED
  BY <1>1, <1>2, InitBase, InitVersions DEF ContentInv, CopyInv, Copied

\* Every step keeps it.
LEMMA StepContent ==
    ASSUME Protected, ContentInv, [Next]_vars PROVE ContentInv'
<1>1. BaseInv'
  BY StepBase DEF ContentInv
<1>2. OneOpenMigration'
  BY <1>1, StepOneOpen DEF ContentInv, BaseInv
<1>3. VersionInv'
  BY StepVersions DEF ContentInv, Protected
<1>4. CopyInv'
  BY StepCopies DEF ContentInv
<1>5. QED
  BY <1>1, <1>2, <1>3, <1>4 DEF ContentInv

\* At the commit the migration still has its copy.
LEMMA CommitHolds ==
    ASSUME ContentInv, [Next]_vars, NEW m \in moved' \ moved, migs[m].source_digest # NoDigest
    PROVE  Holds(m)
<1>1. m \in Migs /\ CommitOwnership(m)
  BY NewlyMoved DEF ContentInv
<1>2. SourceValid(m) /\ migs[m].state \in Copied /\ op.at # "cancel"
  BY <1>1, CommitRaises DEF ContentInv, Copied
<1>3. Stands(m)
  BY <1>2 DEF SourceValid, Stands, MIGRATABLE_STATES
<1>4. QED
  BY <1>1, <1>2, <1>3 DEF ContentInv, CopyInv

\* When commit moves the owner on a recorded digest, the target's files hold
\* the content of that digest.
THEOREM TargetHoldsDigest ==
    ASSUME Protected PROVE Spec => TargetHoldsDigestAtCommit
<1>1. Init => ContentInv
  BY InitContent
<1>2. ContentInv /\ [Next]_vars => ContentInv'
  BY StepContent
<1>3. ContentInv /\ [Next]_vars
        => [\A m \in moved' \ moved :
               migs[m].source_digest # NoDigest
               => data[migs[m].target][migs[m].shard] = migs[m].source_digest]_vars
  BY CommitHolds DEF Holds
<1>4. QED
  BY <1>1, <1>2, <1>3, PTL DEF Spec, TargetHoldsDigestAtCommit

\* A shard that is DRAINING when its owner moves loses nothing: the target's
\* files hold what the source's hold.
THEOREM DrainedMigrationsPreserve ==
    ASSUME Protected PROVE Spec => DrainedMigrationPreservesContents
<1>1. Init => ContentInv
  BY InitContent
<1>2. ContentInv /\ [Next]_vars => ContentInv'
  BY StepContent
<1>3. ContentInv /\ [Next]_vars
        => [\A m \in moved' \ moved :
               /\ shards[migs[m].shard].state = "DRAINING"
               /\ migs[m].source_digest # NoDigest
               => data[migs[m].target][migs[m].shard] = data[migs[m].source][migs[m].shard]]_vars
  BY CommitHolds DEF Holds
<1>4. QED
  BY <1>1, <1>2, <1>3, PTL DEF Spec, DrainedMigrationPreservesContents

-----------------------------------------------------------------------------
(* The owner's data *)

\* A replaced cell is the only one that changes.
LEMMA OneCell ==
    ASSUME TypeOK, NEW n \in Nodes, NEW s \in Shards, NEW c,
           data' = [data EXCEPT ![n][s] = c],
           NEW p \in Nodes, NEW t \in Shards, data'[p][t] # data[p][t]
    PROVE  p = n /\ t = s
BY DEF TypeOK

\* A step of an operation changes no data under the owner's root.
LEMMA StepOwnerData ==
    ASSUME "cancel" \notin Env, "persist_fail" \notin Env, BaseInv, [Next]_vars,
           NEW s \in Shards, NEW n \in Nodes,
           data'[n][s] # data[n][s], op # Idle \/ op' # Idle
    PROVE  /\ shards'[s].state # "ABSENT" => shards'[s].node_id # n
           /\ disk'.shards[s].state # "ABSENT" => disk'.shards[s].node_id # n
<1> USE DEF BaseInv
<1>1. disk'.shards = shards'
  BY StepBase DEF FileInv
<1>2. ASSUME NEW m \in Migs, ImportBegins(m) \/ ImportEnds(m)
      PROVE  shards'[s].node_id # n
  <2>1. op.at \in {"copy", "import"} /\ op.mig = m /\ shards' = shards
    BY <1>2 DEF ImportBegins, ImportEnds
  <2>2. migs[m].state = "COPYING" /\ SourceValid(m)
    BY <2>1 DEF OpInv, OpMatches, RunInv
  <2>3. /\ migs[m].shard \in Shards /\ migs[m].target \in Nodes
        /\ migs[m].source # migs[m].target
    BY <2>2, MigrationFields DEF MigrationState, Open, Terminal, CreatedOK
  <2>4. \E c : data' = [data EXCEPT ![migs[m].target][migs[m].shard] = c]
    BY <1>2 DEF ImportBegins, ImportEnds
  <2>5. n = migs[m].target /\ s = migs[m].shard
    BY <2>3, <2>4, OneCell
  <2>6. QED
    BY <2>1, <2>2, <2>3, <2>5 DEF SourceValid
<1>3. ASSUME NEW m \in Migs, FinalizeSource(m)
      PROVE  shards'[s].node_id # n
  <2>1. shards[migs[m].shard].node_id = migs[m].target /\ shards' = shards
    BY <1>3, FinalizeFrame DEF RunInv
  <2>2. /\ migs[m].shard \in Shards /\ migs[m].source \in Nodes
        /\ migs[m].source # migs[m].target
    BY <1>3, FinalizeFrame, MigrationFields DEF Progress, Open, CreatedOK
  <2>3. \E c : data' = [data EXCEPT ![migs[m].source][migs[m].shard] = c]
    BY <1>3 DEF FinalizeSource
  <2>4. n = migs[m].source /\ s = migs[m].shard
    BY <2>2, <2>3, OneCell
  <2>5. QED
    BY <2>1, <2>2, <2>4
<1>4. ASSUME NEW m \in Migs, MigrationStep(m)
      PROVE  shards'[s].node_id # n
  <2>1. ~CancelDiscards(m)
    BY DEF CancelDiscards
  <2>2. ImportBegins(m) \/ ImportEnds(m) \/ FinalizeSource(m)
    BY <1>4, <2>1, MigrationKinds, CreateFrame, EndsFrame, EntersFrame, ChecksFrame
       DEF VerifyRaises, CommitOwnership
  <2>3. QED
    BY <1>2, <1>3, <2>2
<1>5. ASSUME NEW t \in Shards, ShardStep(t)
      PROVE  shards'[s].node_id # n
  <2>1. op' = op
    BY <1>5, OtherFrame
  <2>2. PICK p \in Nodes, c \in Content : Tamper(p, t, c)
    BY <1>5, <2>1 DEF ShardStep, TransitionShard, ChangeOwner, DropShard, CreateShard,
                      Upsert, Delete
  <2>3. n = p /\ s = t
    BY <2>2, OneCell DEF Tamper
  <2>4. QED
    BY <2>2, <2>3 DEF Tamper
<1>6. shards'[s].node_id # n
  BY <1>4, <1>5 DEF Next, TransitionNode, CrashRestart, vars
<1>7. QED
  BY <1>1, <1>6

\* Import, verification and cleanup never change the data under the root of
\* the shard's owner, in memory or in the file, through crashes and failing
\* transfers, as long as nothing is cancelled and the file can be written.
THEOREM OwnersKeepTheirData ==
    ASSUME "cancel" \notin Env, "persist_fail" \notin Env PROVE Spec => OwnerDataKept
<1>1. Init => BaseInv
  BY InitBase
<1>2. BaseInv /\ [Next]_vars => BaseInv'
  BY StepBase
<1>3. BaseInv /\ [Next]_vars
        => [\A s \in Shards, n \in Nodes :
               /\ data'[n][s] # data[n][s]
               /\ op # Idle \/ op' # Idle
               => /\ shards'[s].state # "ABSENT" => shards'[s].node_id # n
                  /\ disk'.shards[s].state # "ABSENT" => disk'.shards[s].node_id # n]_vars
  BY StepOwnerData
<1>4. QED
  BY <1>1, <1>2, <1>3, PTL DEF Spec, OwnerDataKept
=============================================================================
