------------------------------- MODULE Startup ------------------------------
(***************************************************************************)
(* Namespaces, their shards and the local node from start to restart       *)
(* (api/rest.py): the two JSON files, metadata.json and shards.json, the   *)
(* import-time startup (load, bootstrap_local_node, hydration, eager       *)
(* recovery) and the handlers that create and delete namespaces.           *)
(*                                                                         *)
(* Each change goes to memory and is then written as a whole file, which   *)
(* write_text truncates first.  A crash during a write leaves the old      *)
(* file, the new one, or one that cannot be parsed; both loaders take such *)
(* a file for an empty one, and so it is modelled.                         *)
(***************************************************************************)
EXTENDS Naturals, FiniteSets

CONSTANTS
    Namespaces,
    ShardCount,   \* shard_count of every namespace
    None,
    MaxCrashes,   \* bound on the number of crashes
    Env           \* "lifecycle", "membership", "torn", "damage", as far as they happen

ASSUME ShardCountAssumption == ShardCount \in Nat \ {0}
ASSUME CrashAssumption == MaxCrashes \in Nat
ASSUME StartupEnvAssumption == Env \subseteq {"lifecycle", "membership", "torn", "damage"}

VARIABLES
    meta,         \* namespaces in memory
    shards,       \* shard states in memory
    node,         \* membership state of the local node in memory
    metaFile,     \* metadata.json
    etcdFile,     \* shards.json
    dirty,        \* the file that is about to be written
    phase,        \* where the process is
    left,         \* namespaces not hydrated yet
    cur,          \* the namespace whose shards are being made
    index,        \* 0: they are looked for; otherwise the shard being made
    drop,         \* the namespace that is being deleted
    damaged,      \* shards with an SSTable that cannot be read
    failed,       \* recovery_status: shards whose recovery raised
    boot,         \* history: during startup, what the two files held
    interrupted,  \* history: namespaces whose creation or deletion broke off
    lostMeta,     \* history: metadata.json was lost in a crash
    crashes

vars == <<meta, shards, node, metaFile, etcdFile, dirty, phase, left, cur, index, drop,
          damaged, failed, boot, interrupted, lostMeta, crashes>>

Shards == Namespaces \X (1..ShardCount)
ShardsOf(ns) == {ns} \X (1..ShardCount)

ShardState == {"CREATING", "ACTIVE", "DRAINING", "OFFLINE"}
ShardTransitions ==
    {<<"CREATING", "ACTIVE">>, <<"CREATING", "OFFLINE">>, <<"ACTIVE", "DRAINING">>,
     <<"ACTIVE", "OFFLINE">>, <<"DRAINING", "ACTIVE">>, <<"DRAINING", "OFFLINE">>}
NodeState == {"JOINING", "ACTIVE", "DRAINING", "REMOVED"}
NodeTransitions ==
    {<<"JOINING", "ACTIVE">>, <<"JOINING", "REMOVED">>, <<"ACTIVE", "DRAINING">>,
     <<"ACTIVE", "REMOVED">>, <<"DRAINING", "ACTIVE">>, <<"DRAINING", "REMOVED">>}

ASSUME NoneAssumption == None \notin Namespaces \cup ShardState \cup NodeState

Registry == [shards : [Shards -> ShardState \cup {None}], node : NodeState \cup {None}]
EmptyRegistry == [shards |-> [s \in Shards |-> None], node |-> None]
NoBoot == [meta |-> {}, reg |-> EmptyRegistry]
Known(reg, ns) == {s \in ShardsOf(ns) : reg[s] # None}

Phase == {"load", "bootstrap", "hydrate", "running", "dead"}

TypeOK ==
    /\ meta \subseteq Namespaces
    /\ shards \in [Shards -> ShardState \cup {None}]
    /\ node \in NodeState \cup {None}
    /\ metaFile \subseteq Namespaces
    /\ etcdFile \in Registry
    /\ dirty \in {"none", "meta", "etcd"}
    /\ phase \in Phase
    /\ left \subseteq Namespaces
    /\ cur \in Namespaces \cup {None}
    /\ index \in 0..ShardCount + 1
    /\ drop \in Namespaces \cup {None}
    /\ damaged \subseteq Shards
    /\ failed \subseteq Shards
    /\ boot \in [meta : SUBSET Namespaces, reg : Registry]
    /\ interrupted \subseteq Namespaces
    /\ lostMeta \in BOOLEAN
    /\ crashes \in 0..MaxCrashes

Init ==
    /\ meta = {}
    /\ shards = EmptyRegistry.shards
    /\ node = None
    /\ metaFile = {}
    /\ etcdFile = EmptyRegistry
    /\ dirty = "none"
    /\ phase = "load"
    /\ left = {}
    /\ cur = None
    /\ index = 0
    /\ drop = None
    /\ damaged = {}
    /\ failed = {}
    /\ boot = NoBoot
    /\ interrupted = {}
    /\ lostMeta = FALSE
    /\ crashes = 0

-----------------------------------------------------------------------------
(* The two stores *)

\* _persist of the store that changed last: the file takes what memory holds.
PersistMeta ==
    /\ dirty = "meta"
    /\ metaFile' = meta
    /\ UNCHANGED etcdFile

PersistEtcd ==
    /\ dirty = "etcd"
    /\ etcdFile' = [shards |-> shards, node |-> node]
    /\ UNCHANGED metaFile

Persist ==
    /\ PersistMeta \/ PersistEtcd
    /\ dirty' = "none"
    /\ UNCHANGED <<meta, shards, node, phase, left, cur, index, drop, damaged, failed, boot,
                   interrupted, lostMeta, crashes>>

\* Mutant: a deleted shard stays in the store with a state of its own.
PutShardDeleted(s, state) ==
    /\ shards' = [shards EXCEPT ![s] = IF state = None THEN "DELETED" ELSE state]
    /\ dirty' = "etcd"

PutShard(s, state) ==
    /\ shards' = [shards EXCEPT ![s] = state]
    /\ dirty' = "etcd"

PutNode(state) ==
    /\ node' = state
    /\ dirty' = "etcd"

PutMeta(M) ==
    /\ meta' = M
    /\ dirty' = "meta"

-----------------------------------------------------------------------------
(* Startup *)

\* MetadataStore and EtcdStore read their files.
Load ==
    /\ phase = "load"
    /\ meta' = metaFile
    /\ shards' = etcdFile.shards
    /\ node' = etcdFile.node
    /\ boot' = [meta |-> metaFile, reg |-> etcdFile]
    /\ phase' = "bootstrap"
    /\ UNCHANGED <<metaFile, etcdFile, dirty, left, cur, index, drop, damaged, failed,
                   interrupted, lostMeta, crashes>>

\* Mutant: the local node is made available whatever it was.
BootstrapLocalNodeActive ==
    /\ phase = "bootstrap"
    /\ dirty = "none"
    /\ IF node # "ACTIVE"
       THEN PutNode(IF node = None THEN "JOINING" ELSE "ACTIVE") /\ UNCHANGED <<phase, left>>
       ELSE phase' = "hydrate" /\ left' = meta /\ UNCHANGED <<node, dirty>>
    /\ UNCHANGED <<meta, shards, metaFile, etcdFile, cur, index, drop, damaged, failed, boot,
                   interrupted, lostMeta, crashes>>

\* Mutant: startup waits for a node that is DRAINING or REMOVED.
BootstrapLocalNodeWaits ==
    /\ phase = "bootstrap"
    /\ dirty = "none"
    /\ \/ node = None /\ PutNode("JOINING") /\ UNCHANGED <<phase, left>>
       \/ node = "JOINING" /\ PutNode("ACTIVE") /\ UNCHANGED <<phase, left>>
       \/ node = "ACTIVE" /\ phase' = "hydrate" /\ left' = meta /\ UNCHANGED <<node, dirty>>
    /\ UNCHANGED <<meta, shards, metaFile, etcdFile, cur, index, drop, damaged, failed, boot,
                   interrupted, lostMeta, crashes>>

\* bootstrap_local_node, a store write at a time.
BootstrapLocalNode ==
    /\ phase = "bootstrap"
    /\ dirty = "none"
    /\ \/ node = None /\ PutNode("JOINING") /\ UNCHANGED <<phase, left>>
       \/ node = "JOINING" /\ PutNode("ACTIVE") /\ UNCHANGED <<phase, left>>
       \/ /\ node \notin {None, "JOINING"}
          /\ phase' = "hydrate"
          /\ left' = meta
          /\ UNCHANGED <<node, dirty>>
    /\ UNCHANGED <<meta, shards, metaFile, etcdFile, cur, index, drop, damaged, failed, boot,
                   interrupted, lostMeta, crashes>>

\* The next namespace of the hydration loop.
HydrateNamespace(ns) ==
    /\ phase = "hydrate"
    /\ dirty = "none"
    /\ cur = None
    /\ ns \in left
    /\ cur' = ns
    /\ index' = 0
    /\ left' = left \ {ns}
    /\ UNCHANGED <<meta, shards, node, metaFile, etcdFile, dirty, phase, drop, damaged, failed,
                   boot, interrupted, lostMeta, crashes>>

EnsureEnds ==
    /\ cur' = None
    /\ index' = 0

\* _ensure_namespace_shards returns at once if the namespace has any shard.
EnsureBegins ==
    /\ cur # None
    /\ dirty = "none"
    /\ index = 0
    /\ IF Known(shards, cur) # {} THEN EnsureEnds ELSE index' = 1 /\ UNCHANGED cur
    /\ UNCHANGED <<meta, shards, node, metaFile, etcdFile, dirty, phase, left, drop, damaged,
                   failed, boot, interrupted, lostMeta, crashes>>

\* create, for the next shard; its owner must be a member.
CreateShard ==
    /\ cur # None
    /\ dirty = "none"
    /\ index \in 1..ShardCount
    /\ shards[<<cur, index>>] = None
    /\ node # "REMOVED"
    /\ PutShard(<<cur, index>>, "CREATING")
    /\ UNCHANGED <<meta, node, metaFile, etcdFile, phase, left, cur, index, drop, damaged,
                   failed, boot, interrupted, lostMeta, crashes>>

\* activate; the loop goes on to the next shard.
ActivateShard ==
    /\ cur # None
    /\ dirty = "none"
    /\ index \in 1..ShardCount
    /\ shards[<<cur, index>>] = "CREATING"
    /\ PutShard(<<cur, index>>, "ACTIVE")
    /\ index' = index + 1
    /\ UNCHANGED <<meta, node, metaFile, etcdFile, phase, left, cur, drop, damaged, failed, boot,
                   interrupted, lostMeta, crashes>>

\* Mutant: the loop ends one shard early.
EnsureReturnsEarly ==
    /\ cur # None
    /\ dirty = "none"
    /\ index = ShardCount
    /\ shards[<<cur, index>>] = None
    /\ EnsureEnds
    /\ interrupted' = interrupted \ {cur}
    /\ UNCHANGED <<meta, shards, node, metaFile, etcdFile, dirty, phase, left, drop, damaged,
                   failed, boot, lostMeta, crashes>>

\* The loop is over.
EnsureReturns ==
    /\ cur # None
    /\ dirty = "none"
    /\ index = ShardCount + 1
    /\ EnsureEnds
    /\ interrupted' = interrupted \ {cur}
    /\ UNCHANGED <<meta, shards, node, metaFile, etcdFile, dirty, phase, left, drop, damaged,
                   failed, boot, lostMeta, crashes>>

\* A removed owner makes create raise: a request fails with the namespace
\* stored, and an import fails with the server not started.
CreateShardRaises ==
    /\ cur # None
    /\ dirty = "none"
    /\ index \in 1..ShardCount
    /\ shards[<<cur, index>>] = None
    /\ node = "REMOVED"
    /\ EnsureEnds
    /\ phase' = IF phase = "hydrate" THEN "dead" ELSE phase
    /\ interrupted' = interrupted \cup {cur}
    /\ UNCHANGED <<meta, shards, node, metaFile, etcdFile, dirty, left, drop, damaged, failed,
                   boot, lostMeta, crashes>>

\* Mutant: a shard whose recovery raised is left out of recovery_status.
RunStartupRecoveryQuiet ==
    /\ phase = "hydrate"
    /\ dirty = "none"
    /\ cur = None
    /\ left = {}
    /\ failed' = {}
    /\ phase' = "running"
    /\ boot' = NoBoot
    /\ UNCHANGED <<meta, shards, node, metaFile, etcdFile, dirty, left, cur, index, drop,
                   damaged, interrupted, lostMeta, crashes>>

\* _run_startup_recovery: a context for every shard of every namespace.
RunStartupRecovery ==
    /\ phase = "hydrate"
    /\ dirty = "none"
    /\ cur = None
    /\ left = {}
    /\ failed' = damaged \cap UNION {Known(shards, ns) : ns \in meta}
    /\ phase' = "running"
    /\ boot' = NoBoot
    /\ UNCHANGED <<meta, shards, node, metaFile, etcdFile, dirty, left, cur, index, drop,
                   damaged, interrupted, lostMeta, crashes>>

EnsureStep ==
    \/ EnsureBegins
    \/ CreateShard
    \/ ActivateShard
    \/ EnsureReturns
    \/ CreateShardRaises

StartupStep ==
    \/ Load
    \/ BootstrapLocalNode
    \/ \E ns \in Namespaces : HydrateNamespace(ns)
    \/ RunStartupRecovery

-----------------------------------------------------------------------------
(* Handlers *)

Serving == phase = "running" /\ dirty = "none" /\ cur = None /\ drop = None

\* create_namespace: the metadata first, then the shards.
CreateNamespace(ns) ==
    /\ Serving
    /\ ns \notin meta
    /\ PutMeta(meta \cup {ns})
    /\ cur' = ns
    /\ index' = 0
    /\ UNCHANGED <<shards, node, metaFile, etcdFile, phase, left, drop, damaged, failed, boot,
                   interrupted, lostMeta, crashes>>

\* delete_namespace: the shards one by one, then the metadata.
DeleteNamespace(ns) ==
    /\ Serving
    /\ ns \in meta
    /\ drop' = ns
    /\ UNCHANGED <<meta, shards, node, metaFile, etcdFile, dirty, phase, left, cur, index,
                   damaged, failed, boot, interrupted, lostMeta, crashes>>

DeleteShard(s) ==
    /\ drop # None
    /\ dirty = "none"
    /\ s \in Known(shards, drop)
    /\ PutShard(s, None)
    /\ UNCHANGED <<meta, node, metaFile, etcdFile, phase, left, cur, index, drop, damaged,
                   failed, boot, interrupted, lostMeta, crashes>>

\* Mutant: the metadata goes before the shards.
DeleteMetadataFirst ==
    /\ drop # None
    /\ dirty = "none"
    /\ IF drop \in meta
       THEN PutMeta(meta \ {drop}) /\ UNCHANGED <<drop, interrupted>>
       ELSE /\ Known(shards, drop) = {}
            /\ drop' = None
            /\ interrupted' = interrupted \ {drop}
            /\ UNCHANGED <<meta, dirty>>
    /\ UNCHANGED <<shards, node, metaFile, etcdFile, phase, left, cur, index, damaged, failed,
                   boot, lostMeta, crashes>>

DeleteMetadata ==
    /\ drop # None
    /\ dirty = "none"
    /\ Known(shards, drop) = {}
    /\ PutMeta(meta \ {drop})
    /\ drop' = None
    /\ interrupted' = interrupted \ {drop}
    /\ UNCHANGED <<shards, node, metaFile, etcdFile, phase, left, cur, index, damaged, failed,
                   boot, lostMeta, crashes>>

\* A lifecycle operation on a shard.
TransitionShard(s, to) ==
    /\ "lifecycle" \in Env
    /\ Serving
    /\ <<shards[s], to>> \in ShardTransitions
    /\ PutShard(s, to)
    /\ UNCHANGED <<meta, node, metaFile, etcdFile, phase, left, cur, index, drop, damaged,
                   failed, boot, interrupted, lostMeta, crashes>>

\* A membership operation on the local node.
TransitionNode(to) ==
    /\ "membership" \in Env
    /\ Serving
    /\ <<node, to>> \in NodeTransitions
    /\ PutNode(to)
    /\ UNCHANGED <<meta, shards, metaFile, etcdFile, phase, left, cur, index, drop, damaged,
                   failed, boot, interrupted, lostMeta, crashes>>

-----------------------------------------------------------------------------
(* Crashes *)

\* What a crash makes of a file whose write was under way.
MetaAfterCrash ==
    {metaFile} \cup IF dirty # "meta" THEN {} ELSE {meta} \cup IF "torn" \in Env THEN {{}} ELSE {}
EtcdAfterCrash ==
    {etcdFile} \cup IF dirty # "etcd" THEN {}
                    ELSE {[shards |-> shards, node |-> node]}
                         \cup IF "torn" \in Env THEN {EmptyRegistry} ELSE {}

\* The process dies, possibly while it flushes a shard's MemTable, and starts
\* again.
CrashRestart ==
    /\ crashes < MaxCrashes
    /\ crashes' = crashes + 1
    /\ metaFile' \in MetaAfterCrash
    /\ etcdFile' \in EtcdAfterCrash
    /\ \/ damaged' = damaged
       \/ /\ "damage" \in Env
          /\ Serving
          /\ \E s \in Shards : shards[s] = "ACTIVE" /\ s[1] \in meta /\ damaged' = damaged \cup {s}
    /\ interrupted' = interrupted \cup ({cur, drop} \ {None})
    /\ lostMeta' = (lostMeta \/ metaFile' \notin {metaFile, meta})
    /\ meta' = {}
    /\ shards' = EmptyRegistry.shards
    /\ node' = None
    /\ dirty' = "none"
    /\ phase' = "load"
    /\ left' = {}
    /\ cur' = None
    /\ index' = 0
    /\ drop' = None
    /\ failed' = {}
    /\ boot' = NoBoot

Next ==
    \/ Persist
    \/ StartupStep
    \/ EnsureStep
    \/ \E ns \in Namespaces : CreateNamespace(ns) \/ DeleteNamespace(ns)
    \/ \E s \in Shards : DeleteShard(s)
    \/ DeleteMetadata
    \/ \E s \in Shards, to \in ShardState : TransitionShard(s, to)
    \/ \E to \in NodeState : TransitionNode(to)
    \/ CrashRestart

Spec == Init /\ [][Next]_vars

\* The import of api/rest.py is sequential code without a wait: it goes on
\* until it ends.  Requests are not assumed to come.
FairSpec == Spec /\ WF_vars(Persist \/ StartupStep \/ EnsureStep)

-----------------------------------------------------------------------------
(* Properties *)

\* A restart brings back what the files held: the namespaces, the lifecycle
\* state of every stored shard, and the membership of the local node, which is
\* never made ACTIVE again if it was DRAINING or REMOVED.  New shards are made
\* only for namespaces that had none.
RestartKeeps ==
    [][phase = "hydrate" /\ phase' = "running" =>
          /\ meta' = boot.meta
          /\ \A s \in Shards :
                \/ shards'[s] = boot.reg.shards[s]
                \/ Known(boot.reg.shards, s[1]) = {} /\ s[1] \in boot.meta /\ shards'[s] = "ACTIVE"
          /\ boot.reg.node \notin {None, "JOINING"} => node' = boot.reg.node]_vars

\* The order of the writes keeps the two files consistent through every crash:
\* no stored shard belongs to a namespace that is not stored, unless
\* metadata.json was lost.
NoOrphanShards ==
    ~lostMeta => \A s \in Shards : etcdFile.shards[s] # None => s[1] \in metaFile

\* A served namespace has all its shards, each past CREATING, unless a crash
\* or a removed owner broke off its creation or deletion.
NamespaceComplete ==
    Serving => \A ns \in meta \ interrupted : \A s \in ShardsOf(ns) : shards[s] \notin {None, "CREATING"}

\* /ready answers true only if no shard of a stored namespace has an SSTable
\* that cannot be read, found in shards.json or made anew under its old name after
\* that file was lost.  The exception is a shard that a broken-off creation or
\* deletion left out of the registry: startup does not look at its files.
Ready == failed = {}
ReadyMeansRecovered ==
    [][phase = "hydrate" /\ phase' = "running" /\ Ready' =>
          \A s \in damaged :
             s[1] \in boot.meta => s[1] \in interrupted /\ shards'[s] = None]_vars

\* Every start ends: the server runs, or a removed owner stopped it.
StartupEnds == (phase = "load") ~> (phase \in {"running", "dead"})
=============================================================================
