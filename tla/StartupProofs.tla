---------------------------- MODULE StartupProofs ---------------------------
(***************************************************************************)
(* Proofs about Startup, for any number of namespaces, shards and crashes  *)
(* and every environment Env: the two files stay consistent, namespaces    *)
(* are complete, a restart brings back what the files held, and /ready is  *)
(* honest.                                                                 *)
(***************************************************************************)
EXTENDS Startup, TLAPS

USE ShardCountAssumption, NoneAssumption, CrashAssumption

-----------------------------------------------------------------------------
(* Type correctness *)

\* The registry of an empty or unreadable file is a registry.
LEMMA EmptyTyped == EmptyRegistry \in Registry
BY DEF EmptyRegistry, Registry

\* A shard is the pair of a namespace and an index.
LEMMA ShardPairs ==
    /\ \A s \in Shards : s[1] \in Namespaces /\ s[2] \in 1..ShardCount /\ s = <<s[1], s[2]>>
    /\ \A ns \in Namespaces, i \in 1..ShardCount : <<ns, i>> \in Shards
BY DEF Shards

\* A shard of a namespace is one of its pairs.
LEMMA ShardsOfNamespace ==
    \A ns \in Namespaces : \A s : s \in ShardsOf(ns) <=> s \in Shards /\ s[1] = ns
BY DEF ShardsOf, Shards

\* Writing the changed store to its file keeps the types.
LEMMA PersistTyped ==
    ASSUME TypeOK, Persist
    PROVE  TypeOK'
<1>1. [shards |-> shards, node |-> node] \in Registry
  BY DEF TypeOK, Registry
<1>2. CASE PersistMeta
  BY <1>2 DEF PersistMeta, Persist, TypeOK
<1>3. CASE PersistEtcd
  BY <1>1, <1>3 DEF PersistEtcd, Persist, TypeOK
<1>4. QED
  BY <1>2, <1>3 DEF Persist

\* What a step of the startup or of the loop over shards does to types.
LEMMA StartupTyped ==
    ASSUME TypeOK, StartupStep
    PROVE  TypeOK'
<1> USE DEF TypeOK
<1>1. CASE Load
  BY <1>1 DEF Load, Registry, Phase
<1>2. CASE BootstrapLocalNode
  <2>1. /\ node' \in NodeState \cup {None}
        /\ dirty' \in {"none", "meta", "etcd"}
        /\ phase' \in Phase
        /\ left' \subseteq Namespaces
    BY <1>2 DEF BootstrapLocalNode, PutNode, NodeState, Phase
  <2>2. QED
    BY <1>2, <2>1 DEF BootstrapLocalNode
<1>3. ASSUME NEW ns \in Namespaces, HydrateNamespace(ns) PROVE TypeOK'
  BY <1>3 DEF HydrateNamespace
<1>4. CASE RunStartupRecovery
  <2>1. NoBoot \in [meta : SUBSET Namespaces, reg : Registry]
    BY EmptyTyped DEF NoBoot
  <2>2. QED
    BY <1>4, <2>1 DEF RunStartupRecovery, Phase
<1>5. QED
  BY <1>1, <1>2, <1>3, <1>4 DEF StartupStep

\* A step of _ensure_namespace_shards keeps the types.
LEMMA EnsureTyped ==
    ASSUME TypeOK, EnsureStep
    PROVE  TypeOK'
<1> USE DEF TypeOK
<1>1. CASE EnsureBegins
  BY <1>1 DEF EnsureBegins, EnsureEnds
<1>2. CASE CreateShard
  BY <1>2 DEF CreateShard, PutShard, ShardState
<1>3. CASE ActivateShard
  <2>1. shards' \in [Shards -> ShardState \cup {None}]
    BY <1>3 DEF ActivateShard, PutShard, ShardState
  <2>2. index' \in 0..ShardCount + 1
    BY <1>3 DEF ActivateShard
  <2>3. QED
    BY <1>3, <2>1, <2>2 DEF ActivateShard, PutShard
<1>4. CASE EnsureReturns
  BY <1>4 DEF EnsureReturns, EnsureEnds
<1>5. CASE CreateShardRaises
  BY <1>5 DEF CreateShardRaises, EnsureEnds, Phase
<1>6. QED
  BY <1>1, <1>2, <1>3, <1>4, <1>5 DEF EnsureStep

\* What a crash leaves of the files is well typed.
LEMMA CrashTyped ==
    ASSUME TypeOK, CrashRestart
    PROVE  TypeOK'
<1> USE DEF TypeOK
<1>1. metaFile' \subseteq Namespaces
  BY DEF CrashRestart, MetaAfterCrash
<1>2. [shards |-> shards, node |-> node] \in Registry
  BY DEF Registry
<1>3. etcdFile' \in Registry
  BY <1>2, EmptyTyped DEF CrashRestart, EtcdAfterCrash
<1>4. damaged' \subseteq Shards
  BY DEF CrashRestart
<1>5. shards' \in [Shards -> ShardState \cup {None}]
  BY DEF CrashRestart, EmptyRegistry
<1>6. NoBoot \in [meta : SUBSET Namespaces, reg : Registry]
  BY EmptyTyped DEF NoBoot
<1>7. lostMeta' \in BOOLEAN
  BY DEF CrashRestart
<1>8. crashes' \in 0..MaxCrashes
  BY DEF CrashRestart
<1>9. interrupted' \subseteq Namespaces
  BY DEF CrashRestart
<1>10. QED
  BY <1>1, <1>3, <1>4, <1>5, <1>6, <1>7, <1>8, <1>9 DEF CrashRestart, Phase

\* Every variable keeps the values it is meant to have.
THEOREM TypeCorrect == Spec => []TypeOK
<1> USE DEF TypeOK
<1>1. Init => TypeOK
  <2>1. NoBoot \in [meta : SUBSET Namespaces, reg : Registry]
    BY EmptyTyped DEF NoBoot
  <2>2. Init => shards \in [Shards -> ShardState \cup {None}]
    BY DEF Init, EmptyRegistry
  <2>3. 0 \in 0..MaxCrashes /\ 0 \in 0..ShardCount + 1
    OBVIOUS
  <2>4. QED
    BY <2>1, <2>2, <2>3, EmptyTyped DEF Init, Phase
<1>2. TypeOK /\ [Next]_vars => TypeOK'
  <2> SUFFICES ASSUME TypeOK, [Next]_vars PROVE TypeOK'
    OBVIOUS
  <2>1. CASE Persist
    BY <2>1, PersistTyped
  <2>2. CASE StartupStep
    BY <2>2, StartupTyped
  <2>3. CASE EnsureStep
    BY <2>3, EnsureTyped
  <2>4. ASSUME NEW ns \in Namespaces, CreateNamespace(ns) PROVE TypeOK'
    BY <2>4 DEF CreateNamespace, PutMeta
  <2>5. ASSUME NEW ns \in Namespaces, DeleteNamespace(ns) PROVE TypeOK'
    BY <2>5 DEF DeleteNamespace
  <2>6. ASSUME NEW s \in Shards, DeleteShard(s) PROVE TypeOK'
    BY <2>6 DEF DeleteShard, PutShard
  <2>7. CASE DeleteMetadata
    BY <2>7 DEF DeleteMetadata, PutMeta
  <2>8. ASSUME NEW s \in Shards, NEW to \in ShardState, TransitionShard(s, to) PROVE TypeOK'
    BY <2>8 DEF TransitionShard, PutShard
  <2>9. ASSUME NEW to \in NodeState, TransitionNode(to) PROVE TypeOK'
    BY <2>9 DEF TransitionNode, PutNode
  <2>10. CASE CrashRestart
    BY <2>10, CrashTyped
  <2>11. CASE UNCHANGED vars
    BY <2>11 DEF vars
  <2>12. QED
    BY <2>1, <2>2, <2>3, <2>4, <2>5, <2>6, <2>7, <2>8, <2>9, <2>10, <2>11 DEF Next
<1>3. QED
  BY <1>1, <1>2, PTL DEF Spec

-----------------------------------------------------------------------------
(* The two files *)

\* Between two writes the files hold what memory holds, and nothing is under
\* way before the files are read.
InStep ==
    /\ phase = "load" =>
          /\ meta = {} /\ dirty = "none" /\ cur = None /\ drop = None /\ left = {}
          /\ \A s \in Shards : shards[s] = None
    /\ phase # "load" /\ dirty # "etcd" => etcdFile = [shards |-> shards, node |-> node]
    /\ phase # "load" /\ dirty # "meta" => metaFile = meta
    /\ cur # None => cur \in meta /\ drop = None
    /\ drop # None => phase = "running"
    /\ left \subseteq meta
    /\ phase = "running" => left = {}

\* A shard in memory or in the file has its namespace in memory and in the file.
Housed ==
    ~lostMeta =>
        \A s \in Shards :
            shards[s] # None \/ etcdFile.shards[s] # None =>
                s[1] \in metaFile /\ (phase # "load" => s[1] \in meta)

FileInv == InStep /\ Housed

\* The import of api/rest.py keeps InStep.
LEMMA StartupInStep ==
    ASSUME TypeOK, InStep, StartupStep
    PROVE  InStep'
<1>1. CASE Load
  <2>1. etcdFile = [shards |-> etcdFile.shards, node |-> etcdFile.node]
    BY DEF TypeOK, Registry
  <2>2. QED
    BY <1>1, <2>1 DEF Load, InStep
<1>2. CASE BootstrapLocalNode
  BY <1>2 DEF BootstrapLocalNode, PutNode, InStep
<1>3. ASSUME NEW ns \in Namespaces, HydrateNamespace(ns) PROVE InStep'
  BY <1>3 DEF HydrateNamespace, InStep
<1>4. CASE RunStartupRecovery
  BY <1>4 DEF RunStartupRecovery, InStep
<1>5. QED
  BY <1>1, <1>2, <1>3, <1>4 DEF StartupStep

\* Creating and activating a namespace's shards keeps InStep.
LEMMA EnsureInStep ==
    ASSUME TypeOK, InStep, EnsureStep
    PROVE  InStep'
<1>1. CASE EnsureBegins
  BY <1>1 DEF EnsureBegins, EnsureEnds, InStep
<1>2. CASE CreateShard
  BY <1>2 DEF CreateShard, PutShard, InStep
<1>3. CASE ActivateShard
  BY <1>3 DEF ActivateShard, PutShard, InStep
<1>4. CASE EnsureReturns
  BY <1>4 DEF EnsureReturns, EnsureEnds, InStep
<1>5. CASE CreateShardRaises
  BY <1>5 DEF CreateShardRaises, EnsureEnds, InStep
<1>6. QED
  BY <1>1, <1>2, <1>3, <1>4, <1>5 DEF EnsureStep

\* Every step keeps InStep: a file differs from memory only while its write is due.
LEMMA InStepStep ==
    ASSUME TypeOK, InStep, [Next]_vars
    PROVE  InStep'
<1>1. CASE Persist
  BY <1>1 DEF Persist, PersistMeta, PersistEtcd, InStep
<1>2. CASE StartupStep
  BY <1>2, StartupInStep
<1>3. CASE EnsureStep
  BY <1>3, EnsureInStep
<1>4. ASSUME NEW ns \in Namespaces, CreateNamespace(ns) PROVE InStep'
  BY <1>4 DEF CreateNamespace, PutMeta, Serving, InStep
<1>5. ASSUME NEW ns \in Namespaces, DeleteNamespace(ns) PROVE InStep'
  BY <1>5 DEF DeleteNamespace, Serving, InStep
<1>6. ASSUME NEW s \in Shards, DeleteShard(s) PROVE InStep'
  BY <1>6 DEF DeleteShard, PutShard, InStep
<1>7. CASE DeleteMetadata
  BY <1>7 DEF DeleteMetadata, PutMeta, InStep
<1>8. ASSUME NEW s \in Shards, NEW to \in ShardState, TransitionShard(s, to) PROVE InStep'
  BY <1>8 DEF TransitionShard, PutShard, Serving, InStep
<1>9. ASSUME NEW to \in NodeState, TransitionNode(to) PROVE InStep'
  BY <1>9 DEF TransitionNode, PutNode, Serving, InStep
<1>10. CASE CrashRestart
  BY <1>10 DEF CrashRestart, InStep, EmptyRegistry
<1>11. CASE UNCHANGED vars
  BY <1>11 DEF vars, InStep
<1>12. QED
  BY <1>1, <1>2, <1>3, <1>4, <1>5, <1>6, <1>7, <1>8, <1>9, <1>10, <1>11 DEF Next

\* A crash keeps both or tells that metadata.json was lost.
LEMMA CrashHoused ==
    ASSUME TypeOK, InStep, Housed, CrashRestart
    PROVE  Housed'
<1> SUFFICES ASSUME ~lostMeta', NEW s \in Shards, etcdFile'.shards[s] # None
             PROVE  s[1] \in metaFile'
  <2>1. \A s \in Shards : shards'[s] = None
    BY DEF CrashRestart, EmptyRegistry
  <2>2. phase' = "load"
    BY DEF CrashRestart
  <2>3. QED
    BY <2>1, <2>2 DEF Housed
<1>1. ~lostMeta /\ metaFile' \in {metaFile, meta}
  BY DEF CrashRestart
<1>2. CASE dirty = "etcd"
  <2>1. metaFile' = metaFile
    BY <1>2, <1>1 DEF CrashRestart, MetaAfterCrash
  <2>2. shards[s] # None \/ etcdFile.shards[s] # None
    BY <1>2 DEF CrashRestart, EtcdAfterCrash, EmptyRegistry
  <2>3. QED
    BY <1>1, <2>1, <2>2 DEF Housed
<1>3. CASE dirty # "etcd"
  <2>1. etcdFile' = etcdFile
    BY <1>3 DEF CrashRestart, EtcdAfterCrash
  <2>2. s[1] \in metaFile /\ (phase # "load" => s[1] \in meta)
    BY <1>1, <2>1 DEF Housed
  <2>3. phase = "load" => metaFile' = metaFile
    BY <1>1 DEF InStep, CrashRestart, MetaAfterCrash
  <2>4. QED
    BY <1>1, <2>2, <2>3
<1>4. QED
  BY <1>2, <1>3

\* Every step keeps Housed: a stored shard has its namespace in the metadata.
LEMMA HousedStep ==
    ASSUME TypeOK, InStep, Housed, [Next]_vars
    PROVE  Housed'
<1>1. CASE Persist
  BY <1>1 DEF Persist, PersistMeta, PersistEtcd, InStep, Housed
<1>2. CASE StartupStep
  <2>1. CASE Load
    BY <2>1 DEF Load, Housed
  <2>2. CASE BootstrapLocalNode
    BY <2>2 DEF BootstrapLocalNode, PutNode, Housed
  <2>3. ASSUME NEW ns \in Namespaces, HydrateNamespace(ns) PROVE Housed'
    BY <2>3 DEF HydrateNamespace, Housed
  <2>4. CASE RunStartupRecovery
    BY <2>4 DEF RunStartupRecovery, Housed
  <2>5. QED
    BY <1>2, <2>1, <2>2, <2>3, <2>4 DEF StartupStep
<1>3. CASE EnsureStep
  <2>1. CASE EnsureBegins
    BY <2>1 DEF EnsureBegins, Housed
  <2>2. CASE CreateShard
    <3>1. <<cur, index>>[1] \in metaFile /\ <<cur, index>>[1] \in meta
      BY <2>2 DEF CreateShard, InStep
    <3>2. QED
      BY <2>2, <3>1 DEF CreateShard, PutShard, Housed, TypeOK
  <2>3. CASE ActivateShard
    <3>1. <<cur, index>>[1] \in metaFile /\ <<cur, index>>[1] \in meta
      BY <2>3 DEF ActivateShard, InStep
    <3>2. QED
      BY <2>3, <3>1 DEF ActivateShard, PutShard, Housed, TypeOK
  <2>4. CASE EnsureReturns
    BY <2>4 DEF EnsureReturns, Housed
  <2>5. CASE CreateShardRaises
    BY <2>5 DEF CreateShardRaises, Housed, InStep
  <2>6. QED
    BY <1>3, <2>1, <2>2, <2>3, <2>4, <2>5 DEF EnsureStep
<1>4. ASSUME NEW ns \in Namespaces, CreateNamespace(ns) PROVE Housed'
  BY <1>4 DEF CreateNamespace, PutMeta, Housed
<1>5. ASSUME NEW ns \in Namespaces, DeleteNamespace(ns) PROVE Housed'
  BY <1>5 DEF DeleteNamespace, Housed
<1>6. ASSUME NEW s \in Shards, DeleteShard(s) PROVE Housed'
  BY <1>6 DEF DeleteShard, PutShard, Housed, TypeOK
<1>7. CASE DeleteMetadata
  <2>1. \A s \in Shards : s[1] = drop => shards[s] = None /\ etcdFile.shards[s] = None
    BY <1>7, ShardsOfNamespace DEF DeleteMetadata, Known, InStep, TypeOK
  <2>2. QED
    BY <1>7, <2>1 DEF DeleteMetadata, PutMeta, Housed
<1>8. ASSUME NEW s \in Shards, NEW to \in ShardState, TransitionShard(s, to) PROVE Housed'
  <2>1. shards[s] # None
    BY <1>8 DEF TransitionShard, ShardTransitions, ShardState
  <2>2. QED
    BY <1>8, <2>1 DEF TransitionShard, PutShard, Housed, TypeOK
<1>9. ASSUME NEW to \in NodeState, TransitionNode(to) PROVE Housed'
  BY <1>9 DEF TransitionNode, PutNode, Housed
<1>10. CASE CrashRestart
  BY <1>10, CrashHoused
<1>11. CASE UNCHANGED vars
  BY <1>11 DEF vars, Housed
<1>12. QED
  BY <1>1, <1>2, <1>3, <1>4, <1>5, <1>6, <1>7, <1>8, <1>9, <1>10, <1>11 DEF Next

\* Files and memory stay in step, and every shard keeps its namespace.
LEMMA FileInvariant == Spec => []FileInv
<1>1. Init => FileInv
  BY DEF Init, FileInv, InStep, Housed, EmptyRegistry
<1>2. TypeOK /\ FileInv /\ [Next]_vars => FileInv'
  BY InStepStep, HousedStep DEF FileInv
<1>3. QED
  BY <1>1, <1>2, TypeCorrect, PTL DEF Spec

\* No stored shard belongs to a namespace that is not stored, through every
\* crash between and inside the writes of the two files, unless metadata.json
\* itself was lost (create_namespace, delete_namespace, _persist).
THEOREM OrphansExcluded == Spec => []NoOrphanShards
<1>1. FileInv => NoOrphanShards
  BY DEF FileInv, Housed, NoOrphanShards
<1>2. QED
  BY <1>1, FileInvariant, PTL

-----------------------------------------------------------------------------
(* Complete namespaces *)

Full(reg, ns) == \A s \in ShardsOf(ns) : reg[s] \notin {None, "CREATING"}
Bare(reg, ns) == \A s \in ShardsOf(ns) : reg[s] = None

\* The shards of ns are being made or deleted right now.
Busy(ns) == (ns = cur /\ index # 0) \/ ns = drop

\* A namespace nobody is working on has all its shards or none, in memory and
\* in the file; all of them once it was hydrated; and the loop over its shards
\* has made those it has passed.
WholeInv ==
    /\ \A ns \in Namespaces \ interrupted :
          ~Busy(ns) => /\ Full(shards, ns) \/ Bare(shards, ns)
                       /\ Full(etcdFile.shards, ns) \/ Bare(etcdFile.shards, ns)
    /\ phase \in {"hydrate", "running"} =>
          \A ns \in meta \ (interrupted \cup left) :
              ns = cur \/ ns = drop \/ Full(shards, ns)
    /\ cur # None => \A i \in 1..ShardCount : i < index => shards[<<cur, i>>] \notin {None, "CREATING"}

\* A crash leaves of the registry the old file, the new one or nothing.
LEMMA EtcdCrashCases ==
    ASSUME TypeOK, InStep, CrashRestart
    PROVE  \/ etcdFile'.shards = etcdFile.shards
           \/ etcdFile'.shards = shards
           \/ \A s \in Shards : etcdFile'.shards[s] = None
BY DEF CrashRestart, EtcdAfterCrash, EmptyRegistry

\* A crash leaves namespaces whole, or notes the ones it interrupted.
LEMMA CrashWhole ==
    ASSUME TypeOK, InStep, WholeInv, CrashRestart
    PROVE  WholeInv'
<1>1. /\ interrupted' = interrupted \cup ({cur, drop} \ {None})
      /\ cur' = None /\ phase' = "load"
      /\ \A s \in Shards : shards'[s] = None
  BY DEF CrashRestart, EmptyRegistry
<1>2. ASSUME NEW ns \in Namespaces \ interrupted'
      PROVE  /\ Bare(shards', ns)
             /\ Full(etcdFile'.shards, ns) \/ Bare(etcdFile'.shards, ns)
  <2>1. ns \notin interrupted /\ ~Busy(ns)
    BY <1>1, <1>2 DEF Busy
  <2>2. \A s \in ShardsOf(ns) : s \in Shards
    BY <1>2, ShardsOfNamespace
  <2>3. QED
    BY <1>1, <2>1, <2>2, EtcdCrashCases DEF WholeInv, Full, Bare
<1>3. QED
  BY <1>1, <1>2 DEF WholeInv

\* The loop over a namespace's shards goes from the first to the last.
LEMMA EnsureWhole ==
    ASSUME TypeOK, InStep, WholeInv, EnsureStep
    PROVE  WholeInv'
<1>0. \A ns \in Namespaces : \A s \in ShardsOf(ns) : s \in Shards /\ s[1] = ns
  BY ShardsOfNamespace
<1>1. CASE EnsureBegins
  <2>0. /\ cur \in Namespaces /\ index = 0 /\ drop = None
        /\ UNCHANGED <<meta, shards, etcdFile, phase, left, drop, interrupted>>
    BY <1>1 DEF EnsureBegins, TypeOK, InStep
  <2>1. CASE Known(shards, cur) # {}
    <3>1. cur' = None /\ index' = 0
      BY <1>1, <2>1 DEF EnsureBegins, EnsureEnds
    <3>2. ~Bare(shards, cur)
      BY <2>1 DEF Known, Bare
    <3>3. cur \notin interrupted => Full(shards, cur)
      BY <2>0, <3>2 DEF WholeInv, Busy
    <3>4. QED
      BY <2>0, <3>1, <3>3 DEF WholeInv, Busy
  <2>2. CASE Known(shards, cur) = {}
    <3>1. cur' = cur /\ index' = 1
      BY <1>1, <2>2 DEF EnsureBegins
    <3>2. QED
      BY <2>0, <3>1 DEF WholeInv, Busy
  <2>3. QED
    BY <2>1, <2>2
<1>2. CASE CreateShard
  <2>1. /\ cur \in Namespaces /\ index \in 1..ShardCount /\ drop = None
        /\ shards' = [shards EXCEPT ![<<cur, index>>] = "CREATING"]
        /\ UNCHANGED <<meta, etcdFile, phase, left, cur, index, drop, interrupted>>
    BY <1>2 DEF CreateShard, PutShard, TypeOK, InStep
  <2>2. \A s \in Shards : s # <<cur, index>> => shards'[s] = shards[s]
    BY <2>1 DEF TypeOK
  <2>3. \A ns \in Namespaces : ns # cur => \A s \in ShardsOf(ns) : shards'[s] = shards[s]
    BY <1>0, <2>2
  <2>4. \A i \in 1..ShardCount : i < index => shards'[<<cur, i>>] = shards[<<cur, i>>]
    BY <2>1, <2>2, ShardPairs
  <2>5. meta \subseteq Namespaces
    BY DEF TypeOK
  <2>6. QED
    BY <2>1, <2>3, <2>4, <2>5 DEF WholeInv, Busy, Full, Bare
<1>3. CASE ActivateShard
  <2>1. /\ cur \in Namespaces /\ index \in 1..ShardCount /\ drop = None
        /\ shards' = [shards EXCEPT ![<<cur, index>>] = "ACTIVE"]
        /\ index' = index + 1
        /\ UNCHANGED <<meta, etcdFile, phase, left, cur, drop, interrupted>>
    BY <1>3 DEF ActivateShard, PutShard, TypeOK, InStep
  <2>2. \A s \in Shards : s # <<cur, index>> => shards'[s] = shards[s]
    BY <2>1 DEF TypeOK
  <2>3. \A ns \in Namespaces : ns # cur => \A s \in ShardsOf(ns) : shards'[s] = shards[s]
    BY <1>0, <2>2
  <2>4. \A i \in 1..ShardCount : i < index => shards'[<<cur, i>>] = shards[<<cur, i>>]
    BY <2>1, <2>2, ShardPairs
  <2>5. shards'[<<cur, index>>] = "ACTIVE" /\ "ACTIVE" \notin {None, "CREATING"}
    BY <2>1, ShardPairs DEF TypeOK, ShardState
  <2>6. \A i \in 1..ShardCount : i < index' => shards'[<<cur, i>>] \notin {None, "CREATING"}
    <3> SUFFICES ASSUME NEW i \in 1..ShardCount, i < index'
                 PROVE  shards'[<<cur, i>>] \notin {None, "CREATING"}
      OBVIOUS
    <3>1. i < index \/ i = index
      BY <2>1
    <3>2. i < index => shards[<<cur, i>>] \notin {None, "CREATING"}
      BY <2>1 DEF WholeInv
    <3>3. QED
      BY <2>4, <2>5, <3>1, <3>2
  <2>7. meta \subseteq Namespaces /\ index # 0 /\ index' # 0
    BY <2>1 DEF TypeOK
  <2>8. QED
    BY <2>1, <2>3, <2>6, <2>7 DEF WholeInv, Busy, Full, Bare
<1>4. CASE EnsureReturns
  <2>1. /\ cur \in Namespaces /\ index = ShardCount + 1 /\ drop = None /\ dirty = "none"
        /\ cur' = None /\ index' = 0 /\ interrupted' = interrupted \ {cur}
        /\ UNCHANGED <<meta, shards, etcdFile, phase, left, drop>>
    BY <1>4 DEF EnsureReturns, EnsureEnds, TypeOK, InStep
  <2>2. Full(shards, cur)
    <3>1. \A i \in 1..ShardCount : shards[<<cur, i>>] \notin {None, "CREATING"}
      BY <2>1 DEF WholeInv
    <3>2. QED
      BY <1>0, <2>1, <3>1, ShardPairs DEF Full
  <2>3. etcdFile.shards = shards
    <3>1. phase # "load"
      BY <2>1 DEF InStep
    <3>2. QED
      BY <2>1, <3>1 DEF InStep
  <2>4. QED
    BY <2>1, <2>2, <2>3 DEF WholeInv, Busy
<1>5. CASE CreateShardRaises
  <2>1. /\ cur' = None /\ index' = 0 /\ interrupted' = interrupted \cup {cur}
        /\ phase' \in {phase, "dead"}
        /\ UNCHANGED <<meta, shards, etcdFile, left, drop>>
    BY <1>5 DEF CreateShardRaises, EnsureEnds
  <2>2. QED
    BY <2>1 DEF WholeInv, Busy
<1>6. QED
  BY <1>1, <1>2, <1>3, <1>4, <1>5 DEF EnsureStep

\* Every step keeps WholeInv: a namespace nobody works on has all its shards or none.
LEMMA WholeStep ==
    ASSUME TypeOK, InStep, WholeInv, [Next]_vars
    PROVE  WholeInv'
<1>0. \A ns \in Namespaces : \A s \in ShardsOf(ns) : s \in Shards /\ s[1] = ns
  BY ShardsOfNamespace
<1>1. CASE Persist
  <2>1. etcdFile' = etcdFile \/ etcdFile'.shards = shards
    BY <1>1 DEF Persist, PersistMeta, PersistEtcd
  <2>2. QED
    BY <1>1, <2>1 DEF Persist, WholeInv, Busy
<1>2. CASE StartupStep
  <2>1. CASE Load
    <3>1. cur = None /\ drop = None
      BY <2>1 DEF Load, InStep
    <3>2. QED
      BY <2>1, <3>1 DEF Load, WholeInv, Busy
  <2>2. CASE BootstrapLocalNode
    BY <2>2 DEF BootstrapLocalNode, PutNode, WholeInv, Busy
  <2>3. ASSUME NEW ns \in Namespaces, HydrateNamespace(ns) PROVE WholeInv'
    <3>1. /\ cur = None /\ cur' = ns /\ index' = 0 /\ left' = left \ {ns}
          /\ UNCHANGED <<meta, shards, etcdFile, phase, drop, interrupted>>
      BY <2>3 DEF HydrateNamespace
    <3>2. \A i \in 1..ShardCount : ~(i < index')
      BY <3>1
    <3>3. \A x \in Namespaces : ~Busy(x)' => ~Busy(x)
      BY <3>1 DEF Busy
    <3>4. \A x \in Namespaces \ interrupted' :
             ~Busy(x)' => /\ Full(shards', x) \/ Bare(shards', x)
                          /\ Full(etcdFile'.shards, x) \/ Bare(etcdFile'.shards, x)
      BY <3>1, <3>3 DEF WholeInv, Full, Bare
    <3>5. phase' \in {"hydrate", "running"} =>
             \A x \in meta' \ (interrupted' \cup left') :
                 x = cur' \/ x = drop' \/ Full(shards', x)
      BY <3>1, NoneAssumption DEF WholeInv, TypeOK, Full
    <3>6. QED
      BY <3>2, <3>4, <3>5 DEF WholeInv, Full, Bare
  <2>4. CASE RunStartupRecovery
    BY <2>4 DEF RunStartupRecovery, WholeInv, Busy
  <2>5. QED
    BY <1>2, <2>1, <2>2, <2>3, <2>4 DEF StartupStep
<1>3. CASE EnsureStep
  BY <1>3, EnsureWhole
<1>4. ASSUME NEW ns \in Namespaces, CreateNamespace(ns) PROVE WholeInv'
  <2>1. /\ cur = None /\ cur' = ns /\ index' = 0 /\ meta' = meta \cup {ns}
        /\ UNCHANGED <<shards, etcdFile, phase, left, drop, interrupted>>
    BY <1>4 DEF CreateNamespace, PutMeta, Serving
  <2>2. \A i \in 1..ShardCount : ~(i < index')
    BY <2>1
  <2>3. \A x \in Namespaces : ~Busy(x)' => ~Busy(x)
    BY <2>1 DEF Busy
  <2>4. \A x \in Namespaces \ interrupted' :
           ~Busy(x)' => /\ Full(shards', x) \/ Bare(shards', x)
                        /\ Full(etcdFile'.shards, x) \/ Bare(etcdFile'.shards, x)
    BY <2>1, <2>3 DEF WholeInv, Full, Bare
  <2>5. phase' \in {"hydrate", "running"} =>
           \A x \in meta' \ (interrupted' \cup left') :
               x = cur' \/ x = drop' \/ Full(shards', x)
    BY <2>1, NoneAssumption DEF WholeInv, TypeOK, Full
  <2>6. QED
    BY <2>2, <2>4, <2>5 DEF WholeInv, Full, Bare
<1>5. ASSUME NEW ns \in Namespaces, DeleteNamespace(ns) PROVE WholeInv'
  BY <1>5 DEF DeleteNamespace, Serving, WholeInv, Busy
<1>6. ASSUME NEW s \in Shards, DeleteShard(s) PROVE WholeInv'
  <2>1. /\ drop # None /\ cur = None /\ shards' = [shards EXCEPT ![s] = None]
        /\ UNCHANGED <<meta, etcdFile, phase, left, cur, index, drop, interrupted>>
    BY <1>6 DEF DeleteShard, PutShard, InStep
  <2>2. s[1] = drop
    BY <1>6, <1>0, <2>1 DEF DeleteShard, Known, TypeOK
  <2>3. \A ns \in Namespaces : ns # drop => \A t \in ShardsOf(ns) : shards'[t] = shards[t]
    BY <1>0, <2>1, <2>2 DEF TypeOK
  <2>4. meta \subseteq Namespaces
    BY DEF TypeOK
  <2>5. QED
    BY <2>1, <2>3, <2>4 DEF WholeInv, Busy, Full, Bare
<1>7. CASE DeleteMetadata
  <2>1. /\ drop \in Namespaces /\ cur = None /\ phase = "running"
        /\ meta' = meta \ {drop} /\ drop' = None /\ interrupted' = interrupted \ {drop}
        /\ UNCHANGED <<shards, etcdFile, phase, left, cur, index>>
    BY <1>7 DEF DeleteMetadata, PutMeta, InStep, TypeOK
  <2>2. Bare(shards, drop) /\ etcdFile.shards = shards
    BY <1>7, <2>1 DEF DeleteMetadata, Known, Bare, InStep
  <2>3. QED
    BY <2>1, <2>2 DEF WholeInv, Busy
<1>8. ASSUME NEW s \in Shards, NEW to \in ShardState, TransitionShard(s, to) PROVE WholeInv'
  <2>1. /\ cur = None /\ drop = None
        /\ shards[s] # None /\ to \notin {None, "CREATING"}
        /\ shards' = [shards EXCEPT ![s] = to]
        /\ UNCHANGED <<meta, etcdFile, phase, left, cur, index, drop, interrupted>>
    BY <1>8 DEF TransitionShard, ShardTransitions, ShardState, PutShard, Serving
  <2>2. \A t \in Shards : shards'[t] = IF t = s THEN to ELSE shards[t]
    BY <2>1 DEF TypeOK
  <2>3. \A ns \in Namespaces : /\ Full(shards, ns) => Full(shards', ns)
                               /\ Bare(shards, ns) => Bare(shards', ns)
    BY <1>0, <2>1, <2>2 DEF Full, Bare
  <2>4. meta \subseteq Namespaces
    BY DEF TypeOK
  <2>5. QED
    BY <2>1, <2>3, <2>4 DEF WholeInv, Busy
<1>9. ASSUME NEW to \in NodeState, TransitionNode(to) PROVE WholeInv'
  BY <1>9 DEF TransitionNode, PutNode, WholeInv, Busy
<1>10. CASE CrashRestart
  BY <1>10, CrashWhole
<1>11. CASE UNCHANGED vars
  BY <1>11 DEF vars, WholeInv, Busy
<1>12. QED
  BY <1>1, <1>2, <1>3, <1>4, <1>5, <1>6, <1>7, <1>8, <1>9, <1>10, <1>11 DEF Next

\* WholeInv holds always.
LEMMA WholeInvariant == Spec => []WholeInv
<1>1. Init => WholeInv
  <2>1. \A ns \in Namespaces : \A s \in ShardsOf(ns) : s \in Shards
    BY ShardsOfNamespace
  <2>2. QED
    BY <2>1 DEF Init, WholeInv, Busy, Full, Bare, EmptyRegistry
<1>2. TypeOK /\ FileInv /\ WholeInv /\ [Next]_vars => WholeInv'
  BY WholeStep DEF FileInv
<1>3. QED
  BY <1>1, <1>2, TypeCorrect, FileInvariant, PTL DEF Spec

\* A served namespace has all its shards, each past CREATING, unless its
\* creation or deletion broke off (_ensure_namespace_shards, which does nothing
\* for a namespace that has any shard).
THEOREM NamespacesComplete == Spec => []NamespaceComplete
<1>1. TypeOK /\ FileInv /\ WholeInv => NamespaceComplete
  <2> SUFFICES ASSUME TypeOK, FileInv, WholeInv, Serving, NEW ns \in meta \ interrupted
               PROVE  Full(shards, ns)
    BY DEF NamespaceComplete, Full
  <2>1. left = {} /\ cur = None /\ drop = None /\ phase = "running" /\ ns \in Namespaces
    BY DEF FileInv, InStep, Serving, TypeOK
  <2>2. QED
    BY <2>1 DEF WholeInv
<1>2. QED
  BY <1>1, TypeCorrect, FileInvariant, WholeInvariant, PTL

-----------------------------------------------------------------------------
(* What a restart keeps *)

\* During startup memory is what the files held, but for the shards that are
\* made anew and for a node that joins.
BootInv ==
    phase \in {"bootstrap", "hydrate"} =>
        /\ meta = boot.meta
        /\ \A s \in Shards :
              \/ shards[s] = boot.reg.shards[s]
              \/ /\ Known(boot.reg.shards, s[1]) = {}
                 /\ s[1] \in boot.meta
                 /\ shards[s] = "ACTIVE" \/ (shards[s] = "CREATING" /\ s = <<cur, index>>)
        /\ cur # None /\ index # 0 => Known(boot.reg.shards, cur) = {}
        /\ boot.reg.node \notin {None, "JOINING"} => node = boot.reg.node
        /\ phase = "bootstrap" => cur = None

\* Every step keeps BootInv: during a start memory has all that the files held.
LEMMA BootStep ==
    ASSUME TypeOK, InStep, BootInv, [Next]_vars
    PROVE  BootInv'
<1>1. CASE Persist
  BY <1>1 DEF Persist, BootInv
<1>2. CASE StartupStep
  <2>1. CASE Load
    BY <2>1 DEF Load, BootInv, InStep
  <2>2. CASE BootstrapLocalNode
    BY <2>2 DEF BootstrapLocalNode, PutNode, BootInv
  <2>3. ASSUME NEW ns \in Namespaces, HydrateNamespace(ns) PROVE BootInv'
    <3>1. /\ cur = None /\ index' = 0 /\ phase = "hydrate"
          /\ UNCHANGED <<meta, shards, node, phase, boot>>
      BY <2>3 DEF HydrateNamespace
    <3>2. \A s \in Shards : s # <<cur, index>>
      BY <3>1, ShardPairs
    <3>3. QED
      BY <3>1, <3>2 DEF BootInv
  <2>4. CASE RunStartupRecovery
    BY <2>4 DEF RunStartupRecovery, BootInv
  <2>5. QED
    BY <1>2, <2>1, <2>2, <2>3, <2>4 DEF StartupStep
<1>3. CASE EnsureStep
  <2> SUFFICES ASSUME phase' \in {"bootstrap", "hydrate"} PROVE BootInv'
    BY DEF BootInv
  <2>0. cur \in Namespaces /\ phase = "hydrate"
    BY <1>3 DEF EnsureStep, EnsureBegins, CreateShard, ActivateShard, EnsureReturns,
                CreateShardRaises, TypeOK, BootInv
  <2>1. CASE EnsureBegins
    <3>1. index = 0 /\ UNCHANGED <<meta, shards, node, phase, boot>>
      BY <2>1 DEF EnsureBegins
    <3>2. \A s \in Shards : s # <<cur, index>>
      BY <3>1, ShardPairs
    <3>3. CASE Known(shards, cur) # {}
      <4>1. cur' = None
        BY <2>1, <3>3 DEF EnsureBegins, EnsureEnds
      <4>2. QED
        BY <2>0, <3>1, <3>2, <4>1 DEF BootInv
    <3>4. CASE Known(shards, cur) = {}
      <4>1. cur' = cur
        BY <2>1, <3>4 DEF EnsureBegins
      <4>2. \A s \in ShardsOf(cur) : s \in Shards /\ shards[s] = None
        BY <2>0, <3>4, ShardsOfNamespace DEF Known
      <4>3. None \notin {"ACTIVE", "CREATING"}
        BY DEF ShardState
      <4>4. \A s \in ShardsOf(cur) : boot.reg.shards[s] = None
        BY <2>0, <4>2, <4>3 DEF BootInv
      <4>5. Known(boot.reg.shards, cur) = {}
        BY <4>4 DEF Known
      <4>6. QED
        BY <2>0, <3>1, <3>2, <4>1, <4>5 DEF BootInv
    <3>5. QED
      BY <3>3, <3>4
  <2>2. CASE CreateShard
    <3>1. /\ index \in 1..ShardCount /\ index # 0
          /\ shards' = [shards EXCEPT ![<<cur, index>>] = "CREATING"]
          /\ shards[<<cur, index>>] = None
          /\ UNCHANGED <<meta, node, phase, cur, index, boot>>
      BY <2>2 DEF CreateShard, PutShard
    <3>2. \A s \in Shards : shards'[s] = IF s = <<cur, index>> THEN "CREATING" ELSE shards[s]
      BY <3>1 DEF TypeOK
    <3>3. cur \in meta
      BY <2>0 DEF InStep
    <3>4. QED
      BY <2>0, <3>1, <3>2, <3>3 DEF BootInv
  <2>3. CASE ActivateShard
    <3>1. /\ index \in 1..ShardCount /\ index # 0
          /\ shards' = [shards EXCEPT ![<<cur, index>>] = "ACTIVE"]
          /\ UNCHANGED <<meta, node, phase, cur, boot>>
      BY <2>3 DEF ActivateShard, PutShard
    <3>2. \A s \in Shards : shards'[s] = IF s = <<cur, index>> THEN "ACTIVE" ELSE shards[s]
      BY <3>1 DEF TypeOK
    <3>3. cur \in meta
      BY <2>0 DEF InStep
    <3>4. QED
      BY <2>0, <3>1, <3>2, <3>3 DEF BootInv
  <2>4. CASE EnsureReturns
    <3>1. index = ShardCount + 1 /\ cur' = None /\ UNCHANGED <<meta, shards, node, phase, boot>>
      BY <2>4 DEF EnsureReturns, EnsureEnds
    <3>2. \A s \in Shards : s # <<cur, index>>
      BY <3>1, ShardPairs
    <3>3. QED
      BY <2>0, <3>1, <3>2 DEF BootInv
  <2>5. CASE CreateShardRaises
    BY <2>0, <2>5 DEF CreateShardRaises
  <2>6. QED
    BY <1>3, <2>1, <2>2, <2>3, <2>4, <2>5 DEF EnsureStep
<1>4. ASSUME NEW ns \in Namespaces, CreateNamespace(ns) PROVE BootInv'
  BY <1>4 DEF CreateNamespace, Serving, BootInv
<1>5. ASSUME NEW ns \in Namespaces, DeleteNamespace(ns) PROVE BootInv'
  BY <1>5 DEF DeleteNamespace, Serving, BootInv
<1>6. ASSUME NEW s \in Shards, DeleteShard(s) PROVE BootInv'
  BY <1>6 DEF DeleteShard, InStep, BootInv
<1>7. CASE DeleteMetadata
  BY <1>7 DEF DeleteMetadata, InStep, BootInv
<1>8. ASSUME NEW s \in Shards, NEW to \in ShardState, TransitionShard(s, to) PROVE BootInv'
  BY <1>8 DEF TransitionShard, Serving, BootInv
<1>9. ASSUME NEW to \in NodeState, TransitionNode(to) PROVE BootInv'
  BY <1>9 DEF TransitionNode, Serving, BootInv
<1>10. CASE CrashRestart
  BY <1>10 DEF CrashRestart, BootInv
<1>11. CASE UNCHANGED vars
  BY <1>11 DEF vars, BootInv
<1>12. QED
  BY <1>1, <1>2, <1>3, <1>4, <1>5, <1>6, <1>7, <1>8, <1>9, <1>10, <1>11 DEF Next

\* BootInv holds always.
LEMMA BootInvariant == Spec => []BootInv
<1>1. Init => BootInv
  BY DEF Init, BootInv
<1>2. TypeOK /\ FileInv /\ BootInv /\ [Next]_vars => BootInv'
  BY BootStep DEF FileInv
<1>3. QED
  BY <1>1, <1>2, TypeCorrect, FileInvariant, PTL DEF Spec

\* Startup ends only with its recovery.
LEMMA StartsServing ==
    ASSUME TypeOK, InStep, [Next]_vars, phase = "hydrate", phase' = "running"
    PROVE  RunStartupRecovery
BY DEF Next, StartupStep, EnsureStep, Persist, Load, BootstrapLocalNode, HydrateNamespace,
       EnsureBegins, CreateShard, ActivateShard, EnsureReturns, CreateShardRaises,
       CreateNamespace, DeleteNamespace, DeleteShard, DeleteMetadata, TransitionShard,
       TransitionNode, Serving, CrashRestart, vars, InStep

\* At its end every shard is what the file held, or new in a namespace that
\* had none.
LEMMA RecoveredShards ==
    ASSUME TypeOK, BootInv, RunStartupRecovery
    PROVE  \A s \in Shards :
              \/ shards[s] = boot.reg.shards[s]
              \/ Known(boot.reg.shards, s[1]) = {} /\ s[1] \in boot.meta /\ shards[s] = "ACTIVE"
<1>1. cur = None /\ phase = "hydrate"
  BY DEF RunStartupRecovery
<1>2. \A s \in Shards : s # <<cur, index>>
  BY <1>1, ShardPairs
<1>3. QED
  BY <1>1, <1>2 DEF BootInv

\* A restart brings back the namespaces, the state of every stored shard and
\* the membership of the node; it makes shards only where there were none, and
\* never a DRAINING or REMOVED node ACTIVE (bootstrap_local_node).
THEOREM RestartsKeep == Spec => RestartKeeps
<1>1. TypeOK /\ FileInv /\ BootInv /\ [Next]_vars =>
          (phase = "hydrate" /\ phase' = "running" =>
              /\ meta' = boot.meta
              /\ \A s \in Shards :
                    \/ shards'[s] = boot.reg.shards[s]
                    \/ Known(boot.reg.shards, s[1]) = {} /\ s[1] \in boot.meta /\ shards'[s] = "ACTIVE"
              /\ boot.reg.node \notin {None, "JOINING"} => node' = boot.reg.node)
  <2> SUFFICES ASSUME TypeOK, FileInv, BootInv, [Next]_vars, phase = "hydrate", phase' = "running"
               PROVE  /\ meta' = boot.meta
                      /\ \A s \in Shards :
                            \/ shards'[s] = boot.reg.shards[s]
                            \/ Known(boot.reg.shards, s[1]) = {} /\ s[1] \in boot.meta /\ shards'[s] = "ACTIVE"
                      /\ boot.reg.node \notin {None, "JOINING"} => node' = boot.reg.node
    OBVIOUS
  <2>1. RunStartupRecovery
    BY StartsServing DEF FileInv
  <2>2. UNCHANGED <<meta, shards, node>>
    BY <2>1 DEF RunStartupRecovery
  <2>3. QED
    BY <2>1, <2>2, RecoveredShards DEF BootInv
<1>2. QED
  BY <1>1, TypeCorrect, FileInvariant, BootInvariant, PTL DEF Spec, RestartKeeps

\* /ready is true after a start only if no shard of a stored namespace has an
\* SSTable that cannot be read, found or made anew by the start, but for shards
\* that a broken-off creation or deletion left out (_run_startup_recovery,
\* recovery_status).
THEOREM ReadyIsHonest == Spec => ReadyMeansRecovered
<1>1. TypeOK /\ FileInv /\ BootInv /\ WholeInv /\ [Next]_vars =>
          (phase = "hydrate" /\ phase' = "running" /\ Ready' =>
              \A s \in damaged :
                  s[1] \in boot.meta => s[1] \in interrupted /\ shards'[s] = None)
  <2> SUFFICES ASSUME TypeOK, FileInv, BootInv, WholeInv, [Next]_vars, phase = "hydrate",
                      phase' = "running", Ready', NEW s \in damaged, s[1] \in boot.meta
               PROVE  s[1] \in interrupted /\ shards'[s] = None
    OBVIOUS
  <2>1. RunStartupRecovery
    BY StartsServing DEF FileInv
  <2>2. s \in Shards /\ s[1] \in Namespaces /\ s[1] \in meta
    BY ShardPairs DEF TypeOK, BootInv
  <2>3. s \in ShardsOf(s[1])
    BY <2>2, ShardsOfNamespace
  <2>4. shards[s] = None
    <3>1. ASSUME shards[s] # None PROVE FALSE
      <4>1. s \in Known(shards, s[1])
        BY <2>3, <3>1 DEF Known
      <4>2. s \in failed'
        BY <2>1, <2>2, <4>1 DEF RunStartupRecovery
      <4>3. QED
        BY <4>2 DEF Ready
    <3>2. QED
      BY <3>1
  <2>5. s[1] \in interrupted
    <3>1. left = {} /\ cur = None /\ drop = None
      BY <2>1 DEF RunStartupRecovery, FileInv, InStep
    <3>2. s[1] \notin interrupted => Full(shards, s[1])
      BY <2>2, <3>1 DEF WholeInv
    <3>3. QED
      BY <2>3, <2>4, <3>2 DEF Full
  <2>6. QED
    BY <2>1, <2>4, <2>5 DEF RunStartupRecovery
<1>2. QED
  BY <1>1, TypeCorrect, FileInvariant, BootInvariant, WholeInvariant, PTL
     DEF Spec, ReadyMeansRecovered
=============================================================================
