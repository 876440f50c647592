---------------------------- MODULE RouterProofs ----------------------------
(***************************************************************************)
(* Proofs about Router, for any finite set of shard ids, any nodes,        *)
(* records, TTL and shard capacity: how stale a list can be, which shard   *)
(* is selected from it, what moves when the shards change, and that a      *)
(* split never leaves the namespace without a shard.                       *)
(***************************************************************************)
EXTENDS Router, OrderLemmas, FiniteSetTheorems, TLAPS

USE LocalAssumption, StrayAssumption, NoneAssumption, BoundAssumption, ChangesAssumption

-----------------------------------------------------------------------------
(* Rendezvous weights *)

Weights == {f \in [Shards -> 1..Cardinality(Shards)] : IsInjective(f)}

\* The weights are a fixed hash: a property of the record and the shard id.
WeightsOK == score \in [Records -> Weights]

\* The best shard of a non-empty set is one of the set, and its only best one.
LEMMA BestIsBest ==
    ASSUME WeightsOK, NEW r \in Records, NEW S \in SUBSET Shards, S # {}
    PROVE  /\ Best(r, S) \in S
           /\ \A t \in S : score[r][t] <= score[r][Best(r, S)]
<1>1. Cardinality(Shards) \in Nat
  BY ShardsAssumption, FS_CardinalityType
<1>2. \A s \in S : score[r][s] \in 1..Cardinality(Shards)
  BY DEF WeightsOK, Weights
<1>3. \E s \in S : \A t \in S : score[r][t] <= score[r][s]
  BY <1>1, <1>2, Heaviest
<1>4. QED
  BY <1>3 DEF Best

\* No two shards have the same rendezvous weight for a record.
LEMMA WeightsDiffer ==
    ASSUME WeightsOK, NEW r \in Records, NEW s \in Shards, NEW t \in Shards,
           score[r][s] <= score[r][t], score[r][t] <= score[r][s]
    PROVE  s = t
<1>1. score[r] \in [Shards -> 1..Cardinality(Shards)] /\ IsInjective(score[r])
  BY DEF WeightsOK, Weights
<1>2. Cardinality(Shards) \in Nat
  BY ShardsAssumption, FS_CardinalityType
<1>3. score[r][s] = score[r][t]
  BY <1>1, <1>2
<1>4. QED
  BY <1>1, <1>3 DEF IsInjective

-----------------------------------------------------------------------------
(* Lists of shards *)

\* What a list of shards is, with its domain named.
LEMMA ListShape ==
    ASSUME NEW l
    PROVE  l \in List <=> DOMAIN l \subseteq Shards /\ l \in [DOMAIN l -> Object]
<1>1. ASSUME l \in List PROVE DOMAIN l \subseteq Shards /\ l \in [DOMAIN l -> Object]
  <2>1. PICK S \in SUBSET Shards : l \in [S -> Object]
    BY <1>1 DEF List
  <2>2. QED
    BY <2>1
<1>2. ASSUME DOMAIN l \subseteq Shards, l \in [DOMAIN l -> Object] PROVE l \in List
  BY <1>2 DEF List
<1>3. QED
  BY <1>1, <1>2

\* The empty list is a list of no shards.
LEMMA NoListShape == NoList \in List /\ DOMAIN NoList = {}
<1>1. DOMAIN NoList = {} /\ NoList \in [{} -> Object]
  BY DEF NoList
<1>2. QED
  BY <1>1, ListShape

\* It is the only list of no shards.
LEMMA OnlyNoListEmpty ==
    ASSUME NEW l \in List, l # NoList
    PROVE  DOMAIN l # {}
<1>1. SUFFICES ASSUME DOMAIN l = {} PROVE FALSE
  OBVIOUS
<1>2. l \in [{} -> Object] /\ NoList \in [{} -> Object]
  BY <1>1, ListShape, NoListShape DEF NoList
<1>3. l = NoList
  BY <1>2
<1>4. QED
  BY <1>3

\* list_shards returns exactly the stored shards, each with its present object.
LEMMA StoredShape ==
    ASSUME stored \subseteq Shards, obj \in [Shards -> Object]
    PROVE  Stored \in List /\ DOMAIN Stored = stored /\ \A s \in stored : Stored[s] = obj[s]
<1>1. Stored \in [stored -> Object] /\ DOMAIN Stored = stored
  BY DEF Stored
<1>2. \A s \in stored : Stored[s] = obj[s]
  BY DEF Stored
<1>3. QED
  BY <1>1, <1>2, ListShape

-----------------------------------------------------------------------------
(* The inductive invariants *)

\* The lists the router holds: the cached one and that of the running call.
Lists == {call.list} \cup (IF cache = None THEN {} ELSE {cache.list})

\* The shard of a call is the heaviest of the call's list.
SelectsFromOwnList ==
    call.shard # None =>
        /\ call.shard \in DOMAIN call.list
        /\ \A s \in DOMAIN call.list : score[call.rec][s] <= score[call.rec][call.shard]

\* A call has a record from its lookup on, a hash of its list's ids once that is
\* synchronised, and a shard of its list from _select on.
CallInv ==
    /\ WeightsOK
    /\ pc = "idle" <=> call.rec = None
    /\ pc \in {"missed", "read", "listed", "hashed"} => call.shard = None
    /\ pc = "hashed" => call.ring = DOMAIN call.list /\ call.list # NoList
    /\ pc \in {"chosen", "writing"} => call.shard \in DOMAIN call.list
    /\ SelectsFromOwnList

\* What a split has put is stored, what it has yet to put has no owner, and its
\* parent is none of its children.
SplitInv ==
    /\ split.todo \subseteq split.born
    /\ split.born \ split.todo \subseteq stored
    /\ split.todo \cap stored = {}
    /\ \A s \in split.todo : obj[s].owner = None
    /\ split = NoSplit \/ (split.parent \in Shards \ split.born /\ split.born # {})
    /\ split.by = "local" => pc = "writing" /\ split.parent = call.shard

\* An owner is never unset, so a shard that was seen with one has one.
OwnerInv ==
    \A l \in Lists : \A s \in DOMAIN l : l[s].owner # None => obj[s].owner # None

\* A shard over its capacity is the one being split, or was: then it is out of
\* every list, and its id is not used again.
CountInv ==
    \A s \in Shards : count[s] > MaxVectors =>
        /\ obj[s].owner # None
        /\ \/ pc = "writing" /\ s = call.shard
           \/ s \notin stored /\ \A l \in Lists : s \notin DOMAIN l

WritingInv == pc = "writing" => obj[call.shard].owner # None

\* What the list shows of s is what the registry has; shared objects are the
\* registry's own.
UpToDate(list, s) ==
    /\ s \in DOMAIN list <=> s \in stored
    /\ copies /\ s \in stored => list[s] = obj[s]

\* A list differs from the registry only in what changed since its lookup
\* began, and a list in use is younger than the TTL.
FreshInv ==
    /\ \A s \in Shards : since[s] <= now
    /\ call.at <= now
    /\ cache # None => cache.at <= now
    /\ cache # None => \A s \in Shards : cache.at <= since[s] \/ UpToDate(cache.list, s)
    /\ pc = "read" =>
          \A s \in Shards : call.at <= since[s] \/ UpToDate(call.list, s)
    /\ pc \in {"listed", "hashed", "chosen"} =>
          \A s \in Shards : call.at < since[s] + TTL \/ UpToDate(call.list, s)

-----------------------------------------------------------------------------
(* Type correctness *)

CacheOK == cache = None \/ cache \in [at : 0..MaxTime, list : List]
Call == [rec : Records \cup {None}, at : 0..MaxTime, list : List, ring : SUBSET Shards,
         shard : Shards \cup {None}]
Split == [by : {"nobody", "local", "other"}, parent : Shards \cup {None},
          todo : SUBSET Shards, born : SUBSET Shards]
RegistryOK ==
    /\ stored \subseteq Shards
    /\ obj \in [Shards -> Object]
    /\ since \in [Shards -> 0..MaxTime]
    /\ event \in BOOLEAN

\* Between two lookups the call variable has its type.
LEMMA NoCallTyped == NoCall \in Call
BY NoListShape DEF NoCall, Call

\* Between two splits the split variable has its type.
LEMMA NoSplitTyped == NoSplit \in Split
BY DEF NoSplit, Split

\* put_shard keeps the type of the registry.
LEMMA PutTyped ==
    ASSUME TypeOK, NEW s \in Shards, NEW o \in Object, Put(s, o)
    PROVE  RegistryOK'
BY DEF TypeOK, Put, RegistryOK

\* delete_shard keeps the type of the registry.
LEMMA DeleteTyped ==
    ASSUME TypeOK, NEW s \in Shards, Delete(s)
    PROVE  RegistryOK'
BY DEF TypeOK, Delete, RegistryOK

\* What a caller sees of a list has the list's shards, with proper objects.
LEMMA SeenTyped ==
    ASSUME TypeOK, NEW l \in List
    PROVE  DOMAIN Seen(l) = DOMAIN l /\ \A s \in DOMAIN l : Seen(l)[s] \in Object
BY ListShape DEF TypeOK, Seen

\* A write is let through only for a shard that has an owner.
LEMMA WriteSeesOwner ==
    ASSUME TypeOK, OwnerInv, CallInv, Write
    PROVE  /\ call.shard \in Shards
           /\ call.shard \in DOMAIN call.list
           /\ obj[call.shard].owner # None
<1>1. call.shard \in DOMAIN call.list /\ call.list \in List
  BY DEF CallInv, Write, TypeOK
<1>2. call.shard \in Shards
  BY <1>1, ListShape
<1>3. Seen(call.list)[call.shard].owner = Local
  BY DEF Write, RouteWriteOK
<1>4. CASE copies
  BY <1>1, <1>2, <1>3, <1>4 DEF Seen, OwnerInv, Lists
<1>5. CASE ~copies
  BY <1>1, <1>2, <1>3, <1>5 DEF Seen
<1>6. QED
  BY <1>1, <1>2, <1>4, <1>5

\* Its count is within the capacity until it is written.
LEMMA WriteHasRoom ==
    ASSUME TypeOK, OwnerInv, CallInv, CountInv, Write
    PROVE  count[call.shard] \in 0..MaxVectors
<1>1. call.shard \in Shards /\ call.shard \in DOMAIN call.list
  BY WriteSeesOwner
<1>2. pc = "chosen" /\ call.list \in Lists
  BY DEF Write, Lists
<1>3. ~(count[call.shard] > MaxVectors)
  BY <1>1, <1>2 DEF CountInv
<1>4. count[call.shard] \in 0..MaxVectors + 1
  BY <1>1 DEF TypeOK
<1>5. QED
  BY <1>3, <1>4

\* The two halves of a full shard's count are below the bound of a shard.
LEMMA SplitCounts ==
    ASSUME NEW n \in 0..MaxVectors + 1
    PROVE  n \div 2 \in 0..MaxVectors /\ n - n \div 2 \in 0..MaxVectors
OBVIOUS

\* The decision to split keeps the types.
LEMMA BeginSplitTyped ==
    ASSUME TypeOK, NEW by \in {"local", "other"}, NEW p \in Shards, NEW a \in Shards,
           NEW b \in Shards, BeginSplit(by, p, a, b)
    PROVE  TypeOK'
<1>1. count[p] \in 0..MaxVectors + 1
  BY DEF TypeOK
<1>2. /\ count[p] \div 2 \in 0..MaxVectors + 1
      /\ count[p] - count[p] \div 2 \in 0..MaxVectors + 1
  BY <1>1, SplitCounts
<1>3. count' \in [Shards -> 0..MaxVectors + 1]
  BY <1>2 DEF TypeOK, BeginSplit
<1>4. split' \in Split
  BY DEF BeginSplit, Split
<1>5. QED
  BY <1>3, <1>4 DEF TypeOK, BeginSplit, Split

\* The hash a call goes on with is that of the ids of its list, rebuilt or not.
LEMMA SyncHashStep ==
    ASSUME SyncHash
    PROVE  /\ call' = [call EXCEPT !.ring = DOMAIN call.list] /\ hrw' = DOMAIN call.list
           /\ pc = "listed" /\ pc' = "hashed" /\ call.list # NoList
           /\ UNCHANGED <<copies, score, cache, stored, obj, now, since>>
<1>1. hrw' = DOMAIN call.list
  BY DEF SyncHash
<1>2. QED
  BY <1>1 DEF SyncHash, registry

\* _select names the heaviest shard of its list: the fallback is never taken.
LEMMA SelectStep ==
    ASSUME TypeOK, CallInv, Select
    PROVE  \E b \in Shards :
              /\ b \in DOMAIN call.list
              /\ \A t \in DOMAIN call.list : score[call.rec][t] <= score[call.rec][b]
              /\ call' = [call EXCEPT !.shard = b]
              /\ call.rec \in Records
<1>1. call.rec \in Records
  BY DEF TypeOK, CallInv, Select
<1>2. DOMAIN call.list \subseteq Shards /\ DOMAIN call.list # {} /\ call.ring = DOMAIN call.list
  BY ListShape, OnlyNoListEmpty DEF TypeOK, CallInv, Select
<1> DEFINE b == Best(call.rec, call.ring)
<1>3. b \in DOMAIN call.list /\ \A t \in DOMAIN call.list : score[call.rec][t] <= score[call.rec][b]
  BY <1>1, <1>2, BestIsBest DEF CallInv
<1>4. PICK s \in DOMAIN call.list :
         b \in {s} \cup (Shards \ DOMAIN call.list) /\ call' = [call EXCEPT !.shard = s]
  BY DEF Select
<1>5. s = b
  BY <1>3, <1>4
<1>6. QED
  BY <1>1, <1>2, <1>3, <1>4, <1>5

\* Every step keeps the types; the other invariants bound what the step writes.
LEMMA TypeStep ==
    ASSUME TypeOK, CallInv, SplitInv, OwnerInv, CountInv, [Next]_vars
    PROVE  TypeOK'
<1>1. ASSUME NEW s \in Shards, NEW n \in Nodes \cup {None}, RegisterShard(s, n) PROVE TypeOK'
  <2>1. RegistryOK'
    BY <1>1, PutTyped DEF RegisterShard, Object, ShardState
  <2>2. QED
    BY <1>1, <2>1 DEF TypeOK, RegisterShard, RegistryOK, Changes, Invalidate
<1>2. ASSUME NEW s \in Shards, NEW n \in Nodes, CreateShard(s, n) PROVE TypeOK'
  <2>1. RegistryOK'
    BY <1>2, PutTyped DEF CreateShard, Object, ShardState
  <2>2. QED
    BY <1>2, <2>1 DEF TypeOK, CreateShard, RegistryOK, Changes
<1>3. ASSUME NEW s \in Shards, NEW to \in ShardState, Transition(s, to) PROVE TypeOK'
  <2>1. [obj[s] EXCEPT !.state = to] \in Object
    BY DEF TypeOK, Object
  <2>2. RegistryOK'
    BY <1>3, <2>1, PutTyped DEF Transition
  <2>3. QED
    BY <1>3, <2>2 DEF TypeOK, Transition, RegistryOK, Changes
<1>4. ASSUME NEW s \in Shards, NEW n \in Nodes, ChangeOwner(s, n) PROVE TypeOK'
  <2>1. [obj[s] EXCEPT !.owner = n] \in Object
    BY DEF TypeOK, Object
  <2>2. RegistryOK'
    BY <1>4, <2>1, PutTyped DEF ChangeOwner
  <2>3. QED
    BY <1>4, <2>2 DEF TypeOK, ChangeOwner, RegistryOK, Changes
<1>5. ASSUME NEW n \in Nodes, ChangeMember(n) PROVE TypeOK'
  BY <1>5 DEF TypeOK, ChangeMember, Changes
<1>6. CASE Gossip
  BY <1>6 DEF TypeOK, Gossip, Invalidate
<1>7. CASE Tick
  BY <1>7 DEF TypeOK, Tick
<1>8. ASSUME NEW r \in Records, Lookup(r) PROVE TypeOK'
  <2>1. \E l \in {NoList, cache.list} :
           /\ cache # None \/ l = NoList
           /\ call' = [rec |-> r, at |-> now, list |-> l, ring |-> {}, shard |-> None]
    BY <1>8 DEF Lookup, NoCall
  <2>2. \A l \in List : [rec |-> r, at |-> now, list |-> l, ring |-> {}, shard |-> None] \in Call
    BY DEF TypeOK, Call
  <2>3. NoList \in List /\ (cache # None => cache.list \in List)
    BY NoListShape DEF TypeOK
  <2>4. call' \in Call
    BY <2>1, <2>2, <2>3
  <2>5. QED
    BY <1>8, <2>4 DEF TypeOK, Lookup, Call, registry
<1>9. CASE ListShards
  <2>1. call' \in Call
    BY <1>9, StoredShape DEF TypeOK, ListShards, Call
  <2>2. QED
    BY <1>9, <2>1 DEF TypeOK, ListShards, Call, registry
<1>10. CASE StoreList
  BY <1>10 DEF TypeOK, StoreList, registry
<1>11. CASE NoShards
  BY <1>11, NoCallTyped, NoListShape DEF TypeOK, NoShards, Call, registry
<1>12. CASE SyncHash
  <2>1. call' = [call EXCEPT !.ring = DOMAIN call.list] /\ hrw' = DOMAIN call.list
    BY <1>12, SyncHashStep
  <2>2. DOMAIN call.list \in SUBSET Shards
    BY ListShape DEF TypeOK
  <2>3. call' \in Call
    BY <2>1, <2>2 DEF TypeOK, Call
  <2>4. QED
    BY <1>12, <2>1, <2>2, <2>3 DEF TypeOK, SyncHash, Call, registry
<1>13. CASE Select
  <2>1. PICK b \in Shards : call' = [call EXCEPT !.shard = b]
    BY <1>13, SelectStep
  <2>2. call' \in Call
    BY <2>1 DEF TypeOK, Call
  <2>3. QED
    BY <1>13, <2>2 DEF TypeOK, Select, Call, registry
<1>14. CASE Return
  BY <1>14, NoCallTyped DEF TypeOK, Return, Call, registry
<1>15. CASE Write
  <2>1. count[call.shard] \in 0..MaxVectors /\ call.shard \in Shards
    BY <1>15, WriteHasRoom, WriteSeesOwner
  <2>2. count[call.shard] + 1 \in 0..MaxVectors + 1
    BY <2>1
  <2>3. count' \in [Shards -> 0..MaxVectors + 1]
    BY <1>15, <2>1, <2>2 DEF TypeOK, Write
  <2>4. call' \in Call /\ pc' \in {"writing", "idle"}
    BY <1>15, NoCallTyped DEF TypeOK, Write, Call
  <2>5. QED
    BY <1>15, <2>3, <2>4 DEF TypeOK, Write, Call
<1>16. ASSUME NEW a \in Shards, NEW b \in Shards, BeginLocalSplit(a, b) PROVE TypeOK'
  <2>1. call.shard \in Shards
    BY <1>16, ListShape DEF BeginLocalSplit, CallInv, TypeOK
  <2>2. QED
    BY <1>16, <2>1, BeginSplitTyped DEF BeginLocalSplit
<1>17. ASSUME NEW p \in Shards, NEW a \in Shards, NEW b \in Shards, BeginOtherSplit(p, a, b)
       PROVE  TypeOK'
  BY <1>17, BeginSplitTyped DEF BeginOtherSplit
<1>18. ASSUME NEW s \in Shards, PutChild(s) PROVE TypeOK'
  <2>1. RegistryOK'
    BY <1>18, PutTyped DEF PutChild, Object, ShardState
  <2>2. split' \in Split
    BY <1>18 DEF TypeOK, PutChild, Split
  <2>3. QED
    BY <1>18, <2>1, <2>2 DEF TypeOK, PutChild, RegistryOK, Split
<1>19. CASE RetireParent
  <2>1. split.parent \in Shards
    BY <1>19 DEF RetireParent, SplitInv
  <2>2. RegistryOK'
    BY <1>19, <2>1, DeleteTyped DEF RetireParent
  <2>3. /\ pc' \in {"idle", pc} /\ call' \in {call, NoCall}
        /\ cache' \in {cache, None} /\ hrw' \in {hrw, None}
    BY <1>19 DEF RetireParent, Invalidate
  <2>4. QED
    BY <1>19, <2>2, <2>3, NoCallTyped, NoSplitTyped
       DEF TypeOK, RetireParent, RegistryOK, Call, Split
<1>20. CASE UNCHANGED vars
  BY <1>20 DEF TypeOK, vars
<1>21. QED
  BY <1>1, <1>2, <1>3, <1>4, <1>5, <1>6, <1>7, <1>8, <1>9, <1>10, <1>11, <1>12, <1>13, <1>14,
     <1>15, <1>16, <1>17, <1>18, <1>19, <1>20 DEF Next

-----------------------------------------------------------------------------
(* What the steps do to the registry and to the router's lists *)

\* An owner is never unset (put_shard keeps it; an id is used once).
LEMMA OwnersStay ==
    ASSUME TypeOK, SplitInv, [Next]_vars
    PROVE  \A s \in Shards : obj[s].owner # None => obj'[s].owner # None
<1>1. ASSUME NEW s \in Shards, NEW o \in Object, Put(s, o), o.owner # None \/ s \in Fresh
      PROVE  \A t \in Shards : obj[t].owner # None => obj'[t].owner # None
  BY <1>1 DEF TypeOK, Put, Fresh
<1>2. ASSUME NEW s \in Shards, NEW n \in Nodes \cup {None}, RegisterShard(s, n)
      PROVE  \A t \in Shards : obj[t].owner # None => obj'[t].owner # None
  BY <1>1, <1>2 DEF RegisterShard, Object, ShardState
<1>3. ASSUME NEW s \in Shards, NEW n \in Nodes, CreateShard(s, n)
      PROVE  \A t \in Shards : obj[t].owner # None => obj'[t].owner # None
  BY <1>1, <1>3 DEF CreateShard, Object, ShardState
<1>4. ASSUME NEW s \in Shards, NEW to \in ShardState, Transition(s, to)
      PROVE  \A t \in Shards : obj[t].owner # None => obj'[t].owner # None
  BY <1>4 DEF TypeOK, Transition, Put, Object
<1>5. ASSUME NEW s \in Shards, NEW n \in Nodes, ChangeOwner(s, n)
      PROVE  \A t \in Shards : obj[t].owner # None => obj'[t].owner # None
  BY <1>5 DEF TypeOK, ChangeOwner, Put, Object
<1>6. ASSUME NEW s \in Shards, PutChild(s)
      PROVE  \A t \in Shards : obj[t].owner # None => obj'[t].owner # None
  BY <1>1, <1>6 DEF PutChild, Object, ShardState
<1>7. CASE obj' = obj
  BY <1>7
<1>8. QED
  BY <1>2, <1>3, <1>4, <1>5, <1>6, <1>7
     DEF Next, vars, ChangeMember, Gossip, Tick, Lookup, ListShards, StoreList, NoShards,
         SyncHash, Select, Return, Write, BeginLocalSplit, BeginOtherSplit, BeginSplit,
         RetireParent, Delete, registry

\* The router never makes up a list: it drops one, keeps one, takes the cached
\* one or reads the registry.
LEMMA ListsStep ==
    ASSUME TypeOK, [Next]_vars
    PROVE  \A l \in Lists' : \/ l \in Lists
                             \/ l = NoList
                             \/ l = Stored /\ ListShards
<1>1. CASE ListShards
  BY <1>1 DEF ListShards, Lists, TypeOK
<1>2. ASSUME NEW r \in Records, Lookup(r)
      PROVE  \A l \in Lists' : l \in Lists \/ l = NoList
  BY <1>2 DEF Lookup, Lists, NoCall
<1>3. CASE StoreList
  BY <1>3 DEF StoreList, Lists
<1>4. CASE SyncHash
  <2>1. call'.list = call.list /\ cache' = cache
    BY <1>4, SyncHashStep DEF TypeOK
  <2>2. QED
    BY <2>1 DEF Lists
<1>5. CASE Select
  <2>1. call'.list = call.list /\ cache' = cache
    BY <1>5 DEF Select, TypeOK
  <2>2. QED
    BY <2>1 DEF Lists
<1>6. CASE call' \in {call, NoCall} /\ cache' \in {cache, None}
  BY <1>6 DEF Lists, NoCall
<1>7. QED
  BY <1>1, <1>2, <1>3, <1>4, <1>5, <1>6
     DEF Next, vars, RegisterShard, CreateShard, Transition, ChangeOwner, ChangeMember, Gossip,
         Tick, NoShards, Return, Write, BeginLocalSplit, BeginOtherSplit, BeginSplit,
         PutChild, RetireParent, Invalidate

\* Every step keeps OwnerInv: a shard seen with an owner keeps one.
LEMMA OwnerStep ==
    ASSUME TypeOK, SplitInv, OwnerInv, [Next]_vars
    PROVE  OwnerInv'
<1> SUFFICES ASSUME NEW l \in Lists', NEW s \in DOMAIN l, l[s].owner # None
             PROVE  obj'[s].owner # None
  BY DEF OwnerInv
<1>1. CASE l \in Lists
  <2>1. l \in List
    BY <1>1 DEF Lists, TypeOK
  <2>2. QED
    BY <1>1, <2>1, ListShape, OwnersStay DEF OwnerInv
<1>2. CASE l = NoList
  BY <1>2, NoListShape
<1>3. CASE l = Stored /\ ListShards
  <2>1. obj' = obj
    BY <1>3 DEF ListShards, registry
  <2>2. QED
    BY <1>3, <2>1, StoredShape DEF TypeOK
<1>4. QED
  BY <1>1, <1>2, <1>3, ListsStep

-----------------------------------------------------------------------------
(* Calls and splits *)

\* Every step keeps CallInv: each place of a lookup has the data it goes on with.
LEMMA CallStep ==
    ASSUME TypeOK, CallInv, [Next]_vars
    PROVE  CallInv'
<1>1. WeightsOK' /\ score' = score
  BY DEF CallInv, Next, vars, RegisterShard, CreateShard, Transition, ChangeOwner, ChangeMember,
         Gossip, Tick, Lookup, ListShards, StoreList, NoShards, SyncHash, Select, Return,
         Write, BeginLocalSplit, BeginOtherSplit, BeginSplit, PutChild, RetireParent, WeightsOK
<1>2. CASE UNCHANGED <<pc, call>>
  BY <1>1, <1>2 DEF CallInv, SelectsFromOwnList
<1>3. CASE call' = NoCall /\ pc' = "idle"
  BY <1>1, <1>3 DEF CallInv, SelectsFromOwnList, NoCall
<1>4. ASSUME NEW r \in Records, Lookup(r) PROVE CallInv'
  <2>1. call'.rec = r /\ call'.shard = None /\ pc' \in {"listed", "missed"}
    BY <1>4 DEF Lookup, NoCall
  <2>2. QED
    BY <1>1, <2>1 DEF CallInv, SelectsFromOwnList
<1>5. CASE ListShards
  <2>1. call'.rec = call.rec /\ call'.shard = call.shard /\ pc' = "read" /\ pc = "missed"
    BY <1>5 DEF ListShards, TypeOK
  <2>2. QED
    BY <1>1, <2>1 DEF CallInv, SelectsFromOwnList
<1>6. CASE StoreList
  BY <1>1, <1>6 DEF CallInv, SelectsFromOwnList, StoreList
<1>7. CASE Select
  <2>1. PICK b \in Shards :
           /\ b \in DOMAIN call.list
           /\ \A t \in DOMAIN call.list : score[call.rec][t] <= score[call.rec][b]
           /\ call' = [call EXCEPT !.shard = b]
           /\ call.rec \in Records
    BY <1>7, SelectStep
  <2>2. call'.shard = b /\ call'.list = call.list /\ call'.rec = call.rec /\ pc' = "chosen"
    BY <1>7, <2>1 DEF TypeOK, Select
  <2>3. QED
    BY <1>1, <2>1, <2>2 DEF CallInv, SelectsFromOwnList
<1>8. CASE Write
  BY <1>1, <1>8 DEF CallInv, SelectsFromOwnList, Write, NoCall
<1>9. CASE SyncHash
  <2>1. /\ call'.rec = call.rec /\ call'.shard = call.shard /\ call'.list = call.list
        /\ call'.ring = DOMAIN call.list /\ call.list # NoList
        /\ pc = "listed" /\ pc' = "hashed"
    BY <1>9, SyncHashStep DEF TypeOK
  <2>2. QED
    BY <1>1, <2>1 DEF CallInv, SelectsFromOwnList
<1>10. QED
  BY <1>2, <1>3, <1>4, <1>5, <1>6, <1>7, <1>8, <1>9
     DEF Next, vars, RegisterShard, CreateShard, Transition, ChangeOwner, ChangeMember, Gossip,
         Tick, NoShards, Return, BeginLocalSplit, BeginOtherSplit, BeginSplit,
         PutChild, RetireParent

\* Writing a stored shard or a child to the registry does not disturb a split.
LEMMA PutSplit ==
    ASSUME TypeOK, SplitInv, NEW s \in Shards, NEW o \in Object, Put(s, o),
           s \in stored \cup Fresh, UNCHANGED <<split, pc, call>>
    PROVE  SplitInv'
<1>1. s \notin split.todo
  BY DEF SplitInv, Fresh
<1>2. stored' = stored \cup {s} /\ \A t \in Shards \ {s} : obj'[t] = obj[t]
  BY DEF Put, TypeOK
<1>3. QED
  BY <1>1, <1>2 DEF SplitInv, TypeOK

\* A split that begins has a parent and two unused children.
LEMMA BeginSplitStep ==
    ASSUME TypeOK, NEW by \in {"local", "other"}, NEW p \in Shards, NEW a \in Shards,
           NEW b \in Shards, BeginSplit(by, p, a, b), p \in stored \/ obj[p].owner # None,
           by = "local" => pc = "writing" /\ p = call.shard
    PROVE  SplitInv'
<1>1. p \notin {a, b} /\ \A s \in {a, b} : s \notin stored /\ obj[s].owner = None
  BY DEF BeginSplit, Fresh
<1>2. /\ split'.by = by /\ split'.parent = p /\ split'.todo = {a, b} /\ split'.born = {a, b}
      /\ UNCHANGED <<stored, obj, pc, call>>
  BY DEF BeginSplit
<1>3. QED
  BY <1>1, <1>2 DEF SplitInv

\* Every step keeps SplitInv: a split's children are stored one by one, and it has one parent.
LEMMA SplitStep ==
    ASSUME TypeOK, CallInv, SplitInv, WritingInv, [Next]_vars
    PROVE  SplitInv'
<1>1. ASSUME NEW s \in Shards, NEW n \in Nodes \cup {None}, RegisterShard(s, n) PROVE SplitInv'
  BY <1>1, PutSplit DEF RegisterShard, Object, ShardState
<1>2. ASSUME NEW s \in Shards, NEW n \in Nodes, CreateShard(s, n) PROVE SplitInv'
  BY <1>2, PutSplit DEF CreateShard, Object, ShardState
<1>3. ASSUME NEW s \in Shards, NEW to \in ShardState, Transition(s, to) PROVE SplitInv'
  <2>1. [obj[s] EXCEPT !.state = to] \in Object
    BY DEF TypeOK, Object
  <2>2. QED
    BY <1>3, <2>1, PutSplit DEF Transition
<1>4. ASSUME NEW s \in Shards, NEW n \in Nodes, ChangeOwner(s, n) PROVE SplitInv'
  <2>1. [obj[s] EXCEPT !.owner = n] \in Object
    BY DEF TypeOK, Object
  <2>2. QED
    BY <1>4, <2>1, PutSplit DEF ChangeOwner
<1>5. ASSUME NEW a \in Shards, NEW b \in Shards, BeginLocalSplit(a, b) PROVE SplitInv'
  <2>1. call.shard \in Shards /\ obj[call.shard].owner # None
    BY <1>5, ListShape DEF BeginLocalSplit, CallInv, WritingInv, TypeOK
  <2>2. QED
    BY <1>5, <2>1, BeginSplitStep DEF BeginLocalSplit
<1>6. ASSUME NEW p \in Shards, NEW a \in Shards, NEW b \in Shards, BeginOtherSplit(p, a, b)
      PROVE  SplitInv'
  BY <1>6, BeginSplitStep DEF BeginOtherSplit
<1>7. ASSUME NEW s \in Shards, PutChild(s) PROVE SplitInv'
  <2>1. /\ s \in split.todo /\ stored' = stored \cup {s} /\ UNCHANGED <<pc, call>>
        /\ \A t \in Shards \ {s} : obj'[t] = obj[t]
    BY <1>7 DEF PutChild, Put, TypeOK
  <2>2. split'.todo = split.todo \ {s} /\ split'.born = split.born /\ split'.by = split.by
        /\ split'.parent = split.parent
    BY <1>7 DEF PutChild, TypeOK
  <2>3. split # NoSplit
    BY <2>1 DEF NoSplit
  <2>4. split.todo \subseteq Shards
    BY DEF TypeOK
  <2>5. QED
    BY <2>1, <2>2, <2>3, <2>4 DEF SplitInv
<1>8. CASE RetireParent
  BY <1>8 DEF RetireParent, SplitInv, NoSplit
<1>9. CASE UNCHANGED <<stored, obj, split, pc, call>>
  BY <1>9 DEF SplitInv
<1>10. CASE UNCHANGED <<stored, obj, split>> /\ pc # "writing"
  BY <1>10 DEF SplitInv
<1>11. QED
  BY <1>1, <1>2, <1>3, <1>4, <1>5, <1>6, <1>7, <1>8, <1>9, <1>10
     DEF Next, vars, registry, ChangeMember, Gossip, Tick, Lookup, ListShards, StoreList,
         NoShards, SyncHash, Select, Return, Write

-----------------------------------------------------------------------------
(* Capacity *)

\* Every step keeps WritingInv: the shard being written has an owner.
LEMMA WritingStep ==
    ASSUME TypeOK, CallInv, SplitInv, OwnerInv, WritingInv, [Next]_vars
    PROVE  WritingInv'
<1>1. CASE UNCHANGED <<pc, call>>
  <2>1. pc = "writing" => call.shard \in Shards
    BY ListShape DEF CallInv, TypeOK
  <2>2. QED
    BY <1>1, <2>1, OwnersStay DEF WritingInv
<1>2. CASE pc' # "writing"
  BY <1>2 DEF WritingInv
<1>3. CASE Write
  BY <1>3, WriteSeesOwner DEF Write, WritingInv
<1>4. QED
  BY <1>1, <1>2, <1>3
     DEF Next, vars, registry, RegisterShard, CreateShard, Transition, ChangeOwner, ChangeMember,
         Gossip, Tick, Lookup, ListShards, StoreList, NoShards, SyncHash, Select, Return,
         BeginLocalSplit, BeginOtherSplit, BeginSplit, PutChild, RetireParent

\* A step that leaves the counts alone, and the call of a write that must
\* split: no shard over its capacity becomes listed.
LEMMA CountKept ==
    ASSUME TypeOK, SplitInv, CountInv, [Next]_vars, UNCHANGED count,
           \A s \in Shards : s \in stored' \ stored => obj[s].owner = None,
           pc = "writing" => UNCHANGED <<pc, call>>
    PROVE  CountInv'
<1> SUFFICES ASSUME NEW s \in Shards, count[s] > MaxVectors
             PROVE  /\ obj'[s].owner # None
                    /\ \/ pc' = "writing" /\ s = call'.shard
                       \/ s \notin stored' /\ \A l \in Lists' : s \notin DOMAIN l
  BY DEF CountInv
<1>1. obj[s].owner # None /\ obj'[s].owner # None
  BY OwnersStay DEF CountInv
<1>2. CASE pc = "writing" /\ s = call.shard
  BY <1>1, <1>2
<1>3. CASE s \notin stored /\ \A l \in Lists : s \notin DOMAIN l
  <2>1. s \notin stored'
    BY <1>1, <1>3
  <2>2. \A l \in Lists' : s \notin DOMAIN l
    BY <1>3, ListsStep, NoListShape, StoredShape DEF TypeOK
  <2>3. QED
    BY <1>1, <2>1, <2>2
<1>4. QED
  BY <1>2, <1>3 DEF CountInv

\* The counts handed to the children are within the bound.
LEMMA CountSplit ==
    ASSUME TypeOK, CountInv, NEW by, NEW p \in Shards, NEW a \in Shards,
           NEW b \in Shards, BeginSplit(by, p, a, b)
    PROVE  CountInv'
<1>1. \A s \in Shards : count'[s] \in 0..MaxVectors \/ count'[s] = count[s]
  <2>1. count[p] \in 0..MaxVectors + 1
    BY DEF TypeOK
  <2>2. count[p] \div 2 \in 0..MaxVectors /\ count[p] - count[p] \div 2 \in 0..MaxVectors
    BY <2>1, SplitCounts
  <2>3. QED
    BY <2>2 DEF BeginSplit, TypeOK
<1>2. UNCHANGED <<stored, obj, pc, call, cache>>
  BY DEF BeginSplit
<1>3. Lists' = Lists
  BY <1>2 DEF Lists
<1>4. \A s \in Shards : count'[s] > MaxVectors => count[s] > MaxVectors
  BY <1>1
<1>5. QED
  BY <1>2, <1>3, <1>4 DEF CountInv

\* Every step keeps CountInv: only a shard that is being split, or was, is over its capacity.
LEMMA CountStep ==
    ASSUME TypeOK, CallInv, SplitInv, OwnerInv, WritingInv, CountInv, [Next]_vars
    PROVE  CountInv'
<1>1. CASE Write
  <2>1. call.shard \in Shards /\ obj[call.shard].owner # None
    BY <1>1, WriteSeesOwner
  <2>2. /\ pc = "chosen" /\ UNCHANGED <<stored, obj, cache>>
        /\ \A s \in Shards \ {call.shard} : count'[s] = count[s]
        /\ \/ pc' = "idle" /\ call' = NoCall /\ ~(count'[call.shard] > MaxVectors)
           \/ pc' = "writing" /\ call' = call
    BY <1>1 DEF Write, TypeOK
  <2>3. \A l \in Lists' : l \in Lists \/ l = NoList
    BY <2>2 DEF Lists, NoCall
  <2>4. ASSUME NEW s \in Shards \ {call.shard}, count'[s] > MaxVectors
        PROVE  obj'[s].owner # None /\ s \notin stored' /\ \A l \in Lists' : s \notin DOMAIN l
    BY <2>2, <2>3, <2>4, NoListShape DEF CountInv
  <2>5. QED
    BY <2>1, <2>2, <2>4 DEF CountInv
<1>2. ASSUME NEW a \in Shards, NEW b \in Shards, BeginLocalSplit(a, b) PROVE CountInv'
  <2>1. call.shard \in Shards
    BY <1>2, ListShape DEF BeginLocalSplit, CallInv, TypeOK
  <2>2. QED
    BY <1>2, <2>1, CountSplit DEF BeginLocalSplit
<1>3. ASSUME NEW p \in Shards, NEW a \in Shards, NEW b \in Shards, BeginOtherSplit(p, a, b)
      PROVE  CountInv'
  BY <1>3, CountSplit DEF BeginOtherSplit
<1>4. CASE RetireParent /\ split.by = "local"
  <2>1. /\ stored' = stored \ {call.shard} /\ UNCHANGED <<obj, count>>
        /\ cache' = None /\ call' = NoCall
    BY <1>4 DEF RetireParent, Delete, Invalidate, SplitInv
  <2>2. \A l \in Lists' : DOMAIN l = {}
    BY <2>1, NoListShape DEF Lists, NoCall
  <2>3. QED
    BY <2>1, <2>2 DEF CountInv
<1>5. CASE RetireParent /\ split.by # "local"
  BY <1>5, CountKept DEF RetireParent, Delete
<1>6. ASSUME NEW s \in Shards, NEW n \in Nodes \cup {None}, RegisterShard(s, n) PROVE CountInv'
  BY <1>6, CountKept DEF RegisterShard, Put, Fresh
<1>7. ASSUME NEW s \in Shards, NEW n \in Nodes, CreateShard(s, n) PROVE CountInv'
  BY <1>7, CountKept DEF CreateShard, Put, Fresh
<1>8. ASSUME NEW s \in Shards, PutChild(s) PROVE CountInv'
  BY <1>8, CountKept DEF PutChild, Put, SplitInv
<1>9. CASE stored' = stored /\ UNCHANGED count /\ (pc = "writing" => UNCHANGED <<pc, call>>)
  BY <1>9, CountKept
<1>10. ASSUME NEW s \in Shards, NEW to \in ShardState, Transition(s, to) PROVE CountInv'
  BY <1>9, <1>10 DEF Transition, Put
<1>11. ASSUME NEW s \in Shards, NEW n \in Nodes, ChangeOwner(s, n) PROVE CountInv'
  BY <1>9, <1>11 DEF ChangeOwner, Put
<1>12. QED
  BY <1>1, <1>2, <1>3, <1>4, <1>5, <1>6, <1>7, <1>8, <1>9, <1>10, <1>11
     DEF Next, vars, registry, ChangeMember, Gossip, Tick, Lookup, ListShards, StoreList,
         NoShards, SyncHash, Select, Return

-----------------------------------------------------------------------------
(* The theorems *)

Inv == TypeOK /\ CallInv /\ SplitInv /\ OwnerInv /\ WritingInv /\ CountInv

\* The initial states satisfy the joint invariant.
LEMMA InitInv == Init => Inv
<1> SUFFICES ASSUME Init PROVE Inv
  OBVIOUS
<1>1. TypeOK
  <2>1. stored \subseteq Shards /\ obj \in [Shards -> Object]
    BY DEF Init, Object, ShardState
  <2>2. call \in Call /\ split \in Split
    BY NoCallTyped, NoSplitTyped DEF Init
  <2>3. count \in [Shards -> 0..MaxVectors + 1] /\ since \in [Shards -> 0..MaxTime]
    BY DEF Init
  <2>4. member \in [Nodes -> {None, "MEMBER", "REMOVED"}]
    BY DEF Init
  <2>5. copies \in BOOLEAN /\ wired \in BOOLEAN /\ event \in BOOLEAN
    BY DEF Init
  <2>6. cache = None /\ hrw = None /\ pc = "idle" /\ now \in 0..MaxTime /\ changes \in 0..MaxChanges
    BY DEF Init
  <2>7. QED
    BY <2>1, <2>2, <2>3, <2>4, <2>5, <2>6 DEF TypeOK, Call, Split
<1>2. CallInv
  BY DEF Init, CallInv, WeightsOK, Weights, SelectsFromOwnList, NoCall
<1>3. SplitInv
  BY DEF Init, SplitInv, NoSplit
<1>4. OwnerInv
  BY NoListShape DEF Init, OwnerInv, Lists, NoCall
<1>5. WritingInv /\ CountInv
  BY DEF Init, WritingInv, CountInv
<1>6. QED
  BY <1>1, <1>2, <1>3, <1>4, <1>5 DEF Inv

\* The joint invariant of the router holds always.
LEMMA Invariant == Spec => []Inv
<1>1. Inv /\ [Next]_vars => Inv'
  BY TypeStep, CallStep, SplitStep, OwnerStep, WritingStep, CountStep DEF Inv
<1>2. QED
  BY <1>1, InitInv, PTL DEF Spec

\* Every variable keeps its type: a list, a call and a split are what they are
\* meant to be, and a shard's count passes max_vectors by one at most, when it
\* is about to be split (maybe_split).
THEOREM TypeCorrect == Spec => []TypeOK
<1>1. Inv => TypeOK
  BY DEF Inv
<1>2. QED
  BY <1>1, Invariant, PTL

\* When the shards change, a record leaves a shard that stays only for a new
\* one: the promise of rendezvous hashing (hash_ring.py), for every history of
\* registrations, splits and deletions.
THEOREM MovementIsMinimal == Spec => MinimalMovement
<1>1. Inv /\ Inv' /\ [Next]_vars =>
        [\A r \in Records :
            stored # {} /\ stored' # {} /\ Best(r, stored)' \in stored =>
                Best(r, stored) \notin stored' \/ Best(r, stored)' = Best(r, stored)]_vars
  <2> SUFFICES ASSUME Inv, Inv', [Next]_vars, NEW r \in Records, stored # {}, stored' # {},
                      Best(r, stored)' \in stored, Best(r, stored) \in stored'
               PROVE  Best(r, stored)' = Best(r, stored)
    OBVIOUS
  <2>1. score' = score
    BY DEF Next, vars, RegisterShard, CreateShard, Transition, ChangeOwner, ChangeMember,
           Gossip, Tick, Lookup, ListShards, StoreList, NoShards, SyncHash, Select, Return,
           Write, BeginLocalSplit, BeginOtherSplit, BeginSplit, PutChild, RetireParent
  <2>2. WeightsOK /\ stored \subseteq Shards /\ stored' \subseteq Shards
    BY DEF Inv, CallInv, TypeOK
  <2>3. Best(r, stored)' = Best(r, stored')
    BY <2>1 DEF Best
  <2>4. /\ Best(r, stored) \in stored
        /\ \A t \in stored : score[r][t] <= score[r][Best(r, stored)]
    BY <2>2, BestIsBest
  <2>5. /\ Best(r, stored') \in stored'
        /\ \A t \in stored' : score[r][t] <= score[r][Best(r, stored')]
    BY <2>2, BestIsBest
  <2>6. QED
    BY <2>2, <2>3, <2>4, <2>5, WeightsDiffer
<1>2. QED
  BY <1>1, Invariant, PTL DEF Spec, MinimalMovement

\* A split puts both children before it deletes the parent, so a namespace
\* with a shard is never without one (maybe_split).
THEOREM AlwaysAShard == Spec => NeverShardless
<1>1. Inv /\ [Next]_vars => [stored # {} => stored' # {}]_vars
  <2> SUFFICES ASSUME Inv, [Next]_vars, stored # {} PROVE stored' # {}
    OBVIOUS
  <2>1. CASE RetireParent
    <3>1. /\ stored' = stored \ {split.parent} /\ split # NoSplit /\ split.todo = {}
      BY <2>1 DEF RetireParent, Delete
    <3>2. split.born \subseteq stored /\ split.born # {} /\ split.parent \notin split.born
      BY <3>1 DEF Inv, SplitInv
    <3>3. QED
      BY <3>1, <3>2
  <2>2. CASE stored \subseteq stored'
    BY <2>2
  <2>3. QED
    BY <2>1, <2>2
       DEF Next, vars, registry, RegisterShard, CreateShard, Transition, ChangeOwner, Put,
           ChangeMember, Gossip, Tick, Lookup, ListShards, StoreList, NoShards, SyncHash,
           Select, Return, Write, BeginLocalSplit, BeginOtherSplit, BeginSplit, PutChild
<1>2. QED
  BY <1>1, Invariant, PTL DEF Spec, NeverShardless

-----------------------------------------------------------------------------
(* Staleness *)

\* The registry changes in one shard; a list is kept or dropped.
LEMMA FreshChange ==
    ASSUME TypeOK, FreshInv, NEW s \in Shards,
           \A t \in Shards \ {s} : (t \in stored' <=> t \in stored) /\ obj'[t] = obj[t],
           since' = [since EXCEPT ![s] = now], UNCHANGED <<copies, now>>,
           cache' \in {cache, None},
           UNCHANGED <<pc, call>> \/ (pc' = "idle" /\ call' = NoCall)
    PROVE  FreshInv'
<1>1. now \in Nat /\ since \in [Shards -> Nat] /\ call.at \in Nat /\ (cache # None => cache.at \in Nat)
  BY DEF TypeOK
<1>2. since'[s] = now /\ \A t \in Shards \ {s} : since'[t] = since[t]
  BY <1>1
<1>3. \A t \in Shards : since'[t] <= now'
  BY <1>1, <1>2 DEF FreshInv
<1>4. cache' # None => \A t \in Shards : cache'.at <= since'[t] \/ UpToDate(cache.list, t)'
  BY <1>1, <1>2 DEF FreshInv, UpToDate
<1>5. call'.at <= now' /\ (cache' # None => cache'.at <= now')
  BY <1>1 DEF FreshInv, NoCall
<1>6. CASE UNCHANGED <<pc, call>>
  <2>1. pc' = "read" =>
           \A t \in Shards : call'.at <= since'[t] \/ UpToDate(call.list, t)'
    BY <1>1, <1>2, <1>6 DEF FreshInv, UpToDate
  <2>2. pc' \in {"listed", "hashed", "chosen"} =>
           \A t \in Shards : call'.at < since'[t] + TTL \/ UpToDate(call.list, t)'
    BY <1>1, <1>2, <1>6 DEF FreshInv, UpToDate
  <2>3. QED
    BY <1>3, <1>4, <1>5, <2>1, <2>2 DEF FreshInv
<1>7. CASE pc' = "idle" /\ call' = NoCall
  BY <1>3, <1>4, <1>5, <1>7 DEF FreshInv
<1>8. QED
  BY <1>6, <1>7

\* Every step keeps FreshInv: a list differs from the registry only in what changed since its
\* lookup began.
LEMMA FreshStep ==
    ASSUME TypeOK, SplitInv, FreshInv, [Next]_vars
    PROVE  FreshInv'
<1>0. /\ now \in Nat /\ since \in [Shards -> Nat] /\ call.at \in Nat
      /\ cache # None => cache.at \in Nat
      /\ TTL \in Nat /\ TTL > 0
  BY DEF TypeOK
<1>1. ASSUME NEW s \in Shards, NEW o \in Object, Put(s, o), UNCHANGED <<copies, now, pc, call>>,
             cache' \in {cache, None}
      PROVE  FreshInv'
  BY <1>1, FreshChange DEF Put, TypeOK
<1>2. ASSUME NEW s \in Shards, NEW n \in Nodes \cup {None}, RegisterShard(s, n) PROVE FreshInv'
  BY <1>1, <1>2 DEF RegisterShard, Invalidate, Object, ShardState
<1>3. ASSUME NEW s \in Shards, NEW n \in Nodes, CreateShard(s, n) PROVE FreshInv'
  BY <1>1, <1>3 DEF CreateShard, Object, ShardState
<1>4. ASSUME NEW s \in Shards, NEW to \in ShardState, Transition(s, to) PROVE FreshInv'
  <2>1. [obj[s] EXCEPT !.state = to] \in Object
    BY DEF TypeOK, Object
  <2>2. QED
    BY <1>1, <1>4, <2>1 DEF Transition
<1>5. ASSUME NEW s \in Shards, NEW n \in Nodes, ChangeOwner(s, n) PROVE FreshInv'
  <2>1. [obj[s] EXCEPT !.owner = n] \in Object
    BY DEF TypeOK, Object
  <2>2. QED
    BY <1>1, <1>5, <2>1 DEF ChangeOwner
<1>6. ASSUME NEW s \in Shards, PutChild(s) PROVE FreshInv'
  BY <1>1, <1>6 DEF PutChild, Object, ShardState
<1>7. CASE RetireParent
  <2>1. split.parent \in Shards
    BY <1>7 DEF RetireParent, SplitInv
  <2>2. /\ \A t \in Shards \ {split.parent} : (t \in stored' <=> t \in stored) /\ obj'[t] = obj[t]
        /\ since' = [since EXCEPT ![split.parent] = now]
        /\ UNCHANGED <<copies, now>> /\ cache' \in {cache, None}
        /\ UNCHANGED <<pc, call>> \/ (pc' = "idle" /\ call' = NoCall)
    BY <1>7 DEF RetireParent, Delete, Invalidate
  <2>3. QED
    BY <2>1, <2>2, FreshChange
<1>8. CASE Tick
  <2>1. now' = now + 1 /\ UNCHANGED <<since, call, cache, pc, stored, obj, copies>>
    BY <1>8 DEF Tick
  <2>2. QED
    BY <1>0, <2>1 DEF FreshInv, UpToDate
<1>9. ASSUME NEW r \in Records, Lookup(r) PROVE FreshInv'
  <2>1. UNCHANGED <<now, since, cache, stored, obj, copies>> /\ call'.at = now
    BY <1>9 DEF Lookup, registry, NoCall
  <2>2. CASE cache # None /\ now - cache.at < TTL
    <3>1. pc' = "listed" /\ call'.list = cache.list
      BY <1>9, <2>2 DEF Lookup, NoCall
    <3>2. ASSUME NEW s \in Shards PROVE now < since[s] + TTL \/ UpToDate(cache.list, s)
      <4>1. since[s] \in Nat /\ cache.at \in Nat
        BY <1>0, <2>2
      <4>2. cache.at <= since[s] => now < since[s] + TTL
        BY <1>0, <2>2, <4>1
      <4>3. QED
        BY <2>2, <4>2 DEF FreshInv
    <3>3. QED
      BY <1>0, <2>1, <3>1, <3>2 DEF FreshInv, UpToDate
  <2>3. CASE ~(cache # None /\ now - cache.at < TTL)
    <3>1. pc' = "missed" /\ call'.list = NoList
      BY <1>9, <2>3 DEF Lookup, NoCall
    <3>2. QED
      BY <1>0, <2>1, <3>1 DEF FreshInv, UpToDate
  <2>4. QED
    BY <2>2, <2>3
<1>10. CASE ListShards
  <2>1. UNCHANGED <<now, since, cache, stored, obj, copies>> /\ pc = "missed" /\ pc' = "read"
    BY <1>10 DEF ListShards, registry
  <2>2. call'.at = call.at /\ call'.list = Stored
    BY <1>10 DEF ListShards, TypeOK
  <2>3. \A s \in Shards : UpToDate(Stored, s)
    BY StoredShape DEF TypeOK, UpToDate
  <2>4. QED
    BY <2>1, <2>2, <2>3 DEF FreshInv, UpToDate, Stored
<1>11. CASE StoreList
  <2>1. /\ UNCHANGED <<now, since, call, stored, obj, copies>> /\ pc = "read"
        /\ cache'.at = call.at /\ cache'.list = call.list /\ pc' = "listed"
    <3>1. cache' = [at |-> call.at, list |-> call.list]
      BY <1>11 DEF StoreList
    <3>2. QED
      BY <1>11, <3>1 DEF StoreList, registry
  <2>2. \A s \in Shards : call.at <= since[s] => call.at < since[s] + TTL
    BY <1>0
  <2>3. QED
    BY <2>1, <2>2 DEF FreshInv, UpToDate
<1>12. CASE SyncHash
  <2>1. /\ UNCHANGED <<now, since, cache, stored, obj, copies>> /\ pc = "listed" /\ pc' = "hashed"
        /\ call'.at = call.at /\ call'.list = call.list
    BY <1>12, SyncHashStep DEF TypeOK
  <2>2. QED
    BY <2>1 DEF FreshInv, UpToDate
<1>13. CASE Select
  <2>1. UNCHANGED <<now, since, cache, stored, obj, copies>> /\ pc = "hashed" /\ pc' = "chosen"
    BY <1>13 DEF Select, registry
  <2>2. call'.at = call.at /\ call'.list = call.list
    BY <1>13 DEF Select, TypeOK
  <2>3. QED
    BY <2>1, <2>2 DEF FreshInv, UpToDate
<1>14. CASE /\ UNCHANGED <<now, since, stored, obj, copies>> /\ cache' \in {cache, None}
            /\ UNCHANGED <<pc, call>> \/ (pc' = "idle" /\ call' = NoCall)
                 \/ (pc' = "writing" /\ call' = call)
  <2>1. call'.at <= now
    BY <1>0, <1>14 DEF FreshInv, NoCall
  <2>2. QED
    BY <1>14, <2>1 DEF FreshInv, UpToDate
<1>15. QED
  BY <1>2, <1>3, <1>4, <1>5, <1>6, <1>7, <1>8, <1>9, <1>10, <1>11, <1>12, <1>13, <1>14
     DEF Next, vars, registry, ChangeMember, Gossip, Invalidate, NoShards, Return, Write,
         BeginLocalSplit, BeginOtherSplit, BeginSplit

\* FreshInv holds always.
LEMMA FreshInvariant == Spec => []FreshInv
<1>1. Init => FreshInv
  BY DEF Init, FreshInv, NoCall
<1>2. Inv /\ FreshInv /\ [Next]_vars => FreshInv'
  BY FreshStep DEF Inv
<1>3. QED
  BY <1>1, <1>2, Invariant, PTL DEF Spec

\* A list in use shows the registry as it is, but for entries that changed less
\* than the TTL before the call began (_get_shards_cached), whatever
\* invalidation a lookup raced with and whatever event gossip dropped.
THEOREM StalenessBounded == Spec => []StaleOnlyWithinTTL
<1>1. Inv /\ FreshInv => StaleOnlyWithinTTL
  <2> SUFFICES ASSUME Inv, FreshInv, pc \in {"listed", "hashed", "chosen"}, NEW s \in Shards,
                      UpToDate(call.list, s)
               PROVE  /\ s \in DOMAIN call.list <=> s \in stored
                      /\ s \in stored => Seen(call.list)[s] = obj[s]
    BY DEF FreshInv, StaleOnlyWithinTTL
  <2>1. QED
    BY DEF UpToDate, Seen
<1>2. QED
  BY <1>1, Invariant, FreshInvariant, PTL

\* Once the registry has been quiet for a TTL, a record goes to the best of the
\* stored shards, whatever list, hash or event the router had from before: the
\* cached hash of _select never outlives the list it was made for.
THEOREM RoutingSettles == Spec => []SettledRouting
<1>1. Inv /\ StaleOnlyWithinTTL => SettledRouting
  <2> SUFFICES ASSUME Inv, StaleOnlyWithinTTL, pc = "chosen",
                      \A s \in Shards : since[s] + TTL <= call.at
               PROVE  call.shard = Best(call.rec, stored)
    BY DEF SettledRouting
  <2>1. \A s \in Shards : ~(call.at < since[s] + TTL)
    <3>1. call.at \in Nat /\ TTL \in Nat /\ \A s \in Shards : since[s] \in Nat
      BY DEF Inv, TypeOK
    <3>2. QED
      BY <3>1
  <2>2. \A s \in Shards : s \in DOMAIN call.list <=> s \in stored
    BY <2>1 DEF StaleOnlyWithinTTL
  <2>3. DOMAIN call.list \subseteq Shards /\ stored \subseteq Shards
    BY ListShape DEF Inv, TypeOK
  <2>4. DOMAIN call.list = stored
    BY <2>2, <2>3
  <2>5. call.rec \in Records /\ call.shard \in stored
    BY <2>4 DEF Inv, TypeOK, CallInv
  <2>6. call.shard # None
    BY <2>3, <2>5
  <2>7. \A s \in stored : score[call.rec][s] <= score[call.rec][call.shard]
    BY <2>4, <2>6 DEF Inv, CallInv, SelectsFromOwnList
  <2>8. /\ Best(call.rec, stored) \in stored
        /\ \A t \in stored : score[call.rec][t] <= score[call.rec][Best(call.rec, stored)]
    BY <2>3, <2>5, BestIsBest DEF Inv, CallInv
  <2>9. QED
    BY <2>3, <2>5, <2>7, <2>8, WeightsDiffer DEF Inv, CallInv
<1>2. QED
  BY <1>1, Invariant, StalenessBounded, PTL

\* What the routes and the decisions let through is what the registry holds,
\* for every shard whose entry is older than the TTL.
THEOREM RoutesStayCurrent == Spec => []RoutesAreCurrent
<1>1. Inv /\ StaleOnlyWithinTTL => RoutesAreCurrent
  <2> SUFFICES ASSUME Inv, StaleOnlyWithinTTL, pc \in {"listed", "hashed", "chosen"},
                      NEW list, list = Seen(call.list),
                      NEW s \in DOMAIN list, since[s] + TTL <= call.at
               PROVE  /\ RouteOK(list[s]) \/ Decision(list[s], "read") # "UNAVAILABLE" =>
                            s \in stored /\ obj[s].state \in Readable /\ OwnerValid(obj[s])
                      /\ RouteWriteOK(list[s]) \/ Decision(list[s], "write") = "LOCAL" =>
                            /\ s \in stored /\ obj[s].state = "ACTIVE" /\ obj[s].owner = Local
                            /\ OwnerValid(obj[s])
                      /\ WritableOK(list) =>
                            s \in stored /\ obj[s].state = "ACTIVE" /\ obj[s].owner = Local
    BY DEF RoutesAreCurrent
  <2>1. DOMAIN list = DOMAIN call.list /\ s \in Shards
    BY SeenTyped, ListShape DEF Inv, TypeOK
  <2>2. ~(call.at < since[s] + TTL)
    <3>1. call.at \in Nat /\ TTL \in Nat /\ since[s] \in Nat
      BY <2>1 DEF Inv, TypeOK
    <3>2. QED
      BY <3>1
  <2>3. s \in stored /\ list[s] = obj[s]
    BY <2>1, <2>2 DEF StaleOnlyWithinTTL
  <2>4. obj[s] \in Object
    BY <2>1 DEF Inv, TypeOK
  <2>5. /\ RouteOK(obj[s]) \/ Decision(obj[s], "read") # "UNAVAILABLE" =>
              obj[s].state \in Readable /\ OwnerValid(obj[s])
        /\ RouteWriteOK(obj[s]) \/ Decision(obj[s], "write") = "LOCAL" =>
              obj[s].state = "ACTIVE" /\ obj[s].owner = Local /\ OwnerValid(obj[s])
    BY <2>4 DEF RouteOK, RouteWriteOK, Decision, OwnerValid, Object
  <2>6. WritableOK(list) => list[s].state = "ACTIVE" /\ list[s].owner = Local
    BY DEF WritableOK
  <2>7. QED
    BY <2>3, <2>5, <2>6
<1>2. QED
  BY <1>1, Invariant, StalenessBounded, PTL
=============================================================================
