------------------------------- MODULE Router -------------------------------
(***************************************************************************)
(* The shard router of one node, for one namespace (sharding/router.py,    *)
(* hash_ring.py, placement.py, gossip.py): the TTL cache of the shard      *)
(* list, rendezvous selection, the routes that raise and the decisions     *)
(* that do not, and the split of a full shard.                             *)
(*                                                                         *)
(* The registry is InMemoryEtcd, whose shard objects are shared with the   *)
(* cache, or Etcd3Store, which hands out copies and is changed by other    *)
(* nodes in the middle of a lookup.  The router runs on one event loop; a  *)
(* registry of its own process changes only between its calls.            *)
(***************************************************************************)
EXTENDS Naturals, FiniteSets, Functions

CONSTANTS
    Shards,      \* shard ids
    Nodes,       \* node ids that may join the cluster
    Local,       \* the node this router runs on
    Stray,       \* the owner of a split's children: node_id with a suffix
    Records,
    None,
    TTL,         \* cache_ttl_s
    MaxVectors,  \* max_vectors of a shard
    MaxTime,     \* bound on the clock
    MaxChanges   \* bound on the changes to the registry and the membership, splits aside

ASSUME ShardsAssumption == IsFiniteSet(Shards)
ASSUME LocalAssumption == Local \in Nodes
ASSUME StrayAssumption == Stray \notin Nodes
ASSUME NoneAssumption == None \notin Nodes \cup Shards \cup Records \cup {Stray}
ASSUME BoundAssumption == TTL \in Nat \ {0} /\ MaxVectors \in Nat \ {0} /\ MaxTime \in Nat
ASSUME ChangesAssumption == MaxChanges \in Nat

VARIABLES
    copies,   \* the registry hands out copies (Etcd3Store)
    wired,    \* the router has a membership to ask
    score,    \* the rendezvous weight of every shard for every record
    stored,   \* the ids the registry holds
    obj,      \* the shard objects, those of deleted shards included
    count,    \* vector_count
    member,   \* membership: None, MEMBER (JOINING, ACTIVE or DRAINING), REMOVED
    cache,    \* _cache: the list and the time its lookup began, or None
    hrw,      \* _hrw_cache: the ids of the last hash, or None
    pc,       \* the router's call
    call,     \* its record, its time, the list and the hash it has
    split,    \* a split under way: who runs it, the parent, the ids still to be put
    event,    \* a watch event that gossip has not handled
    now,
    changes,  \* how many changes there have been
    since     \* history: when the registry's entry for a shard last changed

vars == <<copies, wired, score, stored, obj, count, member, cache, hrw, pc, call, split, event,
          now, changes, since>>
registry == <<stored, obj, count, event, changes, since>>

ShardState == {"CREATING", "ACTIVE", "DRAINING", "OFFLINE"}
ShardTransitions ==
    {<<"CREATING", "ACTIVE">>, <<"CREATING", "OFFLINE">>, <<"ACTIVE", "DRAINING">>,
     <<"ACTIVE", "OFFLINE">>, <<"DRAINING", "ACTIVE">>, <<"DRAINING", "OFFLINE">>}
Readable == {"ACTIVE", "DRAINING"}

Object == [state : ShardState, owner : Nodes \cup {Stray, None}]
List == UNION {[S -> Object] : S \in SUBSET Shards}
NoList == [s \in {} |-> None]
NoCall == [rec |-> None, at |-> 0, list |-> NoList, ring |-> {}, shard |-> None]
NoSplit == [by |-> "nobody", parent |-> None, todo |-> {}, born |-> {}]

TypeOK ==
    /\ copies \in BOOLEAN
    /\ wired \in BOOLEAN
    /\ stored \subseteq Shards
    /\ obj \in [Shards -> Object]
    /\ count \in [Shards -> 0..MaxVectors + 1]
    /\ member \in [Nodes -> {None, "MEMBER", "REMOVED"}]
    /\ cache = None \/ cache \in [at : 0..MaxTime, list : List]
    /\ hrw = None \/ hrw \in SUBSET Shards
    /\ pc \in {"idle", "missed", "read", "listed", "hashed", "chosen", "writing"}
    /\ call \in [rec : Records \cup {None}, at : 0..MaxTime, list : List,
                 ring : SUBSET Shards, shard : Shards \cup {None}]
    /\ split \in [by : {"nobody", "local", "other"}, parent : Shards \cup {None},
                  todo : SUBSET Shards, born : SUBSET Shards]
    /\ event \in BOOLEAN
    /\ now \in 0..MaxTime
    /\ changes \in 0..MaxChanges
    /\ since \in [Shards -> 0..MaxTime]

Init ==
    /\ copies \in BOOLEAN
    /\ wired \in BOOLEAN
    /\ score \in [Records -> {f \in [Shards -> 1..Cardinality(Shards)] : IsInjective(f)}]
    /\ stored = {} \/ \E s \in Shards : stored = {s}
    /\ \E n \in Nodes :
          obj = [s \in Shards |-> IF s \in stored THEN [state |-> "ACTIVE", owner |-> n]
                                  ELSE [state |-> "CREATING", owner |-> None]]
    /\ count = [s \in Shards |-> 0]
    /\ member = [n \in Nodes |-> IF n = Local THEN "MEMBER" ELSE None]
    /\ cache = None
    /\ hrw = None
    /\ pc = "idle"
    /\ call = NoCall
    /\ split = NoSplit
    /\ event = FALSE
    /\ now = 0
    /\ changes = 0
    /\ since = [s \in Shards |-> 0]

-----------------------------------------------------------------------------
(* Selection and decisions *)

\* Mutant: the weights are taken modulo the number of shards.
BestModulo(r, S) ==
    CHOOSE s \in S : \A t \in S : score[r][t] % Cardinality(S) <= score[r][s] % Cardinality(S)

\* RendezvousHash.get_node: the highest weight wins.
Best(r, S) == CHOOSE s \in S : \A t \in S : score[r][t] <= score[r][s]

\* validate_node
Known(owner) == owner \in Nodes /\ member[owner] = "MEMBER"

\* _validate_owner
OwnerValid(o) == wired => o.owner # None /\ Known(o.owner)

\* route: the record's shard, or an error.
RouteOK(o) ==
    /\ o.state \in Readable
    /\ OwnerValid(o)

\* Mutant: the lifecycle state is not asked for.
RouteWriteAnyState(o) ==
    /\ OwnerValid(o)
    /\ o.owner = Local

\* route_write for the local node.
RouteWriteOK(o) ==
    /\ o.state = "ACTIVE"
    /\ OwnerValid(o)
    /\ o.owner = Local

\* writable: every shard of the list, with no look at the membership.
WritableOK(list) ==
    \A s \in DOMAIN list : list[s].state = "ACTIVE" /\ list[s].owner = Local

\* _decision_for: place, route_read_decision and route_write_decision.
Decision(o, mode) ==
    IF \/ mode = "read" /\ o.state \notin Readable
       \/ mode = "write" /\ o.state # "ACTIVE"
       \/ o.owner = None
       \/ wired /\ ~Known(o.owner)
    THEN "UNAVAILABLE"
    ELSE IF o.owner = Local THEN "LOCAL" ELSE "REMOTE"

-----------------------------------------------------------------------------
(* The registry *)

Stored == [s \in stored |-> obj[s]]

\* What the cached or returned list shows now: shared objects follow the
\* registry's, copies stay as they were.
Seen(list) == IF copies THEN list ELSE [s \in DOMAIN list |-> obj[s]]

\* Ids that were never used: an id is a uuid, or made once for its namespace.
Fresh == {s \in Shards : s \notin stored \cup split.born /\ obj[s].owner = None}

Put(s, o) ==
    /\ stored' = stored \cup {s}
    /\ obj' = [obj EXCEPT ![s] = o]
    /\ since' = [since EXCEPT ![s] = now]
    /\ event' = copies

Delete(s) ==
    /\ stored' = stored \ {s}
    /\ since' = [since EXCEPT ![s] = now]
    /\ UNCHANGED <<obj, event>>

Invalidate ==
    /\ cache' = None
    /\ hrw' = None

\* Where the registry may change: in the process itself between two calls.
Quiet == pc = "idle" \/ (copies /\ pc # "writing")

Changes ==
    /\ changes < MaxChanges
    /\ changes' = changes + 1

\* register_shard on this node; nothing requires an owner.
RegisterShard(s, owner) ==
    /\ Changes
    /\ pc = "idle"
    /\ s \in Fresh
    /\ Put(s, [state |-> "ACTIVE", owner |-> owner])
    /\ Invalidate
    /\ UNCHANGED <<copies, wired, score, count, member, pc, call, split, now>>

\* The lifecycle's create, here or on another node: it does not invalidate.
CreateShard(s, owner) ==
    /\ Changes
    /\ Quiet
    /\ s \in Fresh
    /\ wired => Known(owner)
    /\ Put(s, [state |-> "CREATING", owner |-> owner])
    /\ UNCHANGED <<copies, wired, score, count, member, cache, hrw, pc, call, split, now>>

\* A lifecycle transition.
Transition(s, to) ==
    /\ Changes
    /\ Quiet
    /\ s \in stored
    /\ <<obj[s].state, to>> \in ShardTransitions
    /\ Put(s, [obj[s] EXCEPT !.state = to])
    /\ UNCHANGED <<copies, wired, score, count, member, cache, hrw, pc, call, split, now>>

ChangeOwner(s, n) ==
    /\ Changes
    /\ Quiet
    /\ s \in stored
    /\ obj[s].state = "DRAINING"
    /\ obj[s].owner # n
    /\ wired => Known(n)
    /\ Put(s, [obj[s] EXCEPT !.owner = n])
    /\ UNCHANGED <<copies, wired, score, count, member, cache, hrw, pc, call, split, now>>

ChangeMember(n) ==
    /\ Changes
    /\ Quiet
    /\ \/ member[n] = None /\ member' = [member EXCEPT ![n] = "MEMBER"]
       \/ member[n] = "MEMBER" /\ member' = [member EXCEPT ![n] = "REMOVED"]
    /\ UNCHANGED <<copies, wired, score, stored, obj, count, cache, hrw, pc, call, split, event,
                   now, since>>

\* The watch thread: a put names its namespace, a deletion carries no value
\* and is dropped.
Gossip ==
    /\ event
    /\ event' = FALSE
    /\ Invalidate
    /\ UNCHANGED <<copies, wired, score, stored, obj, count, member, pc, call, split, now,
                   changes, since>>

Tick ==
    /\ now < MaxTime
    /\ now' = now + 1
    /\ UNCHANGED <<copies, wired, score, stored, obj, count, member, cache, hrw, pc, call, split,
                   event, changes, since>>

-----------------------------------------------------------------------------
(* A lookup *)

\* _get_shards_cached: the cached list if it is young enough.
Lookup(r) ==
    /\ pc = "idle"
    /\ IF cache # None /\ now - cache.at < TTL
       THEN /\ pc' = "listed"
            /\ call' = [NoCall EXCEPT !.rec = r, !.at = now, !.list = cache.list]
       ELSE /\ pc' = "missed"
            /\ call' = [NoCall EXCEPT !.rec = r, !.at = now]
    /\ UNCHANGED <<copies, wired, score, member, cache, hrw, split, now>>
    /\ UNCHANGED registry

\* A miss reads the registry; the list is cached afterwards, also an empty one.
ListShards ==
    /\ pc = "missed"
    /\ call' = [call EXCEPT !.list = Stored]
    /\ pc' = "read"
    /\ UNCHANGED <<copies, wired, score, member, cache, hrw, split, now>>
    /\ UNCHANGED registry

\* Mutant: the list is stamped with the time it is stored.
StoreListStampedLate ==
    /\ pc = "read"
    /\ cache' = [at |-> now, list |-> call.list]
    /\ pc' = "listed"
    /\ UNCHANGED <<copies, wired, score, member, hrw, call, split, now>>
    /\ UNCHANGED registry

StoreList ==
    /\ pc = "read"
    /\ cache' = [at |-> call.at, list |-> call.list]
    /\ pc' = "listed"
    /\ UNCHANGED <<copies, wired, score, member, hrw, call, split, now>>
    /\ UNCHANGED registry

\* _select raises if the list is empty.
NoShards ==
    /\ pc = "listed"
    /\ call.list = NoList
    /\ pc' = "idle"
    /\ call' = NoCall
    /\ UNCHANGED <<copies, wired, score, member, cache, hrw, split, now>>
    /\ UNCHANGED registry

\* Mutant: the hash of an earlier list is used again.
SyncHashNever ==
    /\ pc = "listed"
    /\ call.list # NoList
    /\ hrw' = IF hrw = None THEN DOMAIN call.list ELSE hrw
    /\ call' = [call EXCEPT !.ring = hrw']
    /\ pc' = "hashed"
    /\ UNCHANGED <<copies, wired, score, member, cache, split, now>>
    /\ UNCHANGED registry

\* _select up to its hash: the cached one, or a new one when there is none or
\* its ids are not those of the list.
SyncHash ==
    /\ pc = "listed"
    /\ call.list # NoList
    /\ hrw' = IF hrw = None \/ hrw # DOMAIN call.list THEN DOMAIN call.list ELSE hrw
    /\ call' = [call EXCEPT !.ring = hrw']
    /\ pc' = "hashed"
    /\ UNCHANGED <<copies, wired, score, member, cache, split, now>>
    /\ UNCHANGED registry

\* The rest of _select: the shard of the list that the hash names, or else the
\* first, which is any.
Select ==
    /\ pc = "hashed"
    /\ \E s \in DOMAIN call.list :
          /\ Best(call.rec, call.ring) \in {s} \cup (Shards \ DOMAIN call.list)
          /\ call' = [call EXCEPT !.shard = s]
    /\ pc' = "chosen"
    /\ UNCHANGED <<copies, wired, score, member, cache, hrw, split, now>>
    /\ UNCHANGED registry

\* A read, a decision or a refused write ends here.
Return ==
    /\ pc = "chosen"
    /\ pc' = "idle"
    /\ call' = NoCall
    /\ UNCHANGED <<copies, wired, score, member, cache, hrw, split, now>>
    /\ UNCHANGED registry

\* Mutant: a full shard is never split.
WriteUnsplit ==
    /\ pc = "chosen"
    /\ RouteWriteOK(Seen(call.list)[call.shard])
    /\ count' = [count EXCEPT ![call.shard] = @ + 1]
    /\ pc' = "idle"
    /\ call' = NoCall
    /\ UNCHANGED <<copies, wired, score, stored, obj, member, cache, hrw, split, event, now,
                   changes, since>>

\* An accepted write: the shard's context counts it and is asked to split.
Write ==
    /\ pc = "chosen"
    /\ RouteWriteOK(Seen(call.list)[call.shard])
    /\ count' = [count EXCEPT ![call.shard] = @ + 1]
    /\ pc' = IF count'[call.shard] > MaxVectors THEN "writing" ELSE "idle"
    /\ call' = IF pc' = "idle" THEN NoCall ELSE call
    /\ UNCHANGED <<copies, wired, score, stored, obj, member, cache, hrw, split, event, now,
                   changes, since>>

-----------------------------------------------------------------------------
(* maybe_split *)

\* Two children under new ids take half of the count each.
BeginSplit(by, p, a, b) ==
    /\ split = NoSplit
    /\ a # b
    /\ {a, b} \subseteq Fresh
    /\ split' = [by |-> by, parent |-> p, todo |-> {a, b}, born |-> {a, b}]
    /\ count' = [count EXCEPT ![a] = count[p] \div 2, ![b] = count[p] - count[p] \div 2]
    /\ UNCHANGED <<copies, wired, score, stored, obj, member, cache, hrw, pc, call, event, now,
                   changes, since>>

BeginLocalSplit(a, b) ==
    /\ pc = "writing"
    /\ BeginSplit("local", call.shard, a, b)

\* Another owner splits its shard in the shared registry.
BeginOtherSplit(p, a, b) ==
    /\ copies
    /\ Quiet
    /\ p \in stored
    /\ obj[p].owner \in Nodes \ {Local}
    /\ obj[p].state = "ACTIVE"
    /\ BeginSplit("other", p, a, b)

PutChild(s) ==
    /\ s \in split.todo
    /\ Put(s, [state |-> "ACTIVE", owner |-> Stray])
    /\ split' = [split EXCEPT !.todo = @ \ {s}]
    /\ UNCHANGED <<copies, wired, score, count, member, cache, hrw, pc, call, now, changes>>

\* Mutant: the parent goes before its children are stored.
RetireParentFirst ==
    /\ split # NoSplit
    /\ split.todo # {}
    /\ split.parent \in stored
    /\ Delete(split.parent)
    /\ UNCHANGED <<copies, wired, score, count, member, cache, hrw, pc, call, split, now, changes>>

\* The parent is deleted, and on this node the cache is dropped.
RetireParent ==
    /\ split # NoSplit
    /\ split.todo = {}
    /\ Delete(split.parent)
    /\ IF split.by = "local"
       THEN Invalidate /\ pc' = "idle" /\ call' = NoCall
       ELSE UNCHANGED <<cache, hrw, pc, call>>
    /\ split' = NoSplit
    /\ UNCHANGED <<copies, wired, score, count, member, now, changes>>

Next ==
    \/ \E s \in Shards, n \in Nodes \cup {None} : RegisterShard(s, n)
    \/ \E s \in Shards, n \in Nodes : CreateShard(s, n)
    \/ \E s \in Shards, to \in ShardState : Transition(s, to)
    \/ \E s \in Shards, n \in Nodes : ChangeOwner(s, n)
    \/ \E n \in Nodes : ChangeMember(n)
    \/ Gossip
    \/ Tick
    \/ \E r \in Records : Lookup(r)
    \/ ListShards
    \/ StoreList
    \/ NoShards
    \/ SyncHash
    \/ Select
    \/ Return
    \/ Write
    \/ \E a, b \in Shards : BeginLocalSplit(a, b)
    \/ \E p, a, b \in Shards : BeginOtherSplit(p, a, b)
    \/ \E s \in Shards : PutChild(s)
    \/ RetireParent

Spec == Init /\ [][Next]_vars

-----------------------------------------------------------------------------
(* Properties *)

\* A list the router works with differs from the registry only in entries that
\* changed less than the TTL before its call began, whatever invalidations a
\* lookup raced with and whatever gossip dropped.
StaleOnlyWithinTTL ==
    pc \in {"listed", "hashed", "chosen"} =>
        \A s \in Shards :
            \/ call.at < since[s] + TTL
            \/ /\ s \in DOMAIN call.list <=> s \in stored
               /\ s \in stored => Seen(call.list)[s] = obj[s]

\* Once the registry has been quiet for a TTL, a record goes to the best of the
\* stored shards, whatever list, hash or event the router still had from before.
SettledRouting ==
    pc = "chosen" /\ (\A s \in Shards : since[s] + TTL <= call.at) =>
        call.shard = Best(call.rec, stored)

\* When the set of shards changes, a record leaves a shard that stays only for
\* a shard that is new (hash_ring.py's promise of rendezvous hashing).
MinimalMovement ==
    [][\A r \in Records :
          stored # {} /\ stored' # {} /\ Best(r, stored)' \in stored =>
              Best(r, stored) \notin stored' \/ Best(r, stored)' = Best(r, stored)]_vars

\* What a route lets through is what the registry holds, for every shard whose
\* entry is older than the TTL: a read goes to a stored, readable shard, a write
\* to a stored, ACTIVE one of this node, and the owner is a member if there is a
\* membership to ask.  This holds for the routes that raise, for the decisions
\* that do not, and for writable, which never asks the membership.
RoutesAreCurrent ==
    pc \in {"listed", "hashed", "chosen"} =>
        LET list == Seen(call.list)
            Mine(s) == s \in stored /\ obj[s].state = "ACTIVE" /\ obj[s].owner = Local
        IN  \A s \in {t \in DOMAIN list : since[t] + TTL <= call.at} :
               /\ RouteOK(list[s]) \/ Decision(list[s], "read") # "UNAVAILABLE" =>
                     s \in stored /\ obj[s].state \in Readable /\ OwnerValid(obj[s])
               /\ RouteWriteOK(list[s]) \/ Decision(list[s], "write") = "LOCAL" =>
                     Mine(s) /\ OwnerValid(obj[s])
               /\ WritableOK(list) => Mine(s)

\* A split never leaves the namespace without a shard: once there is one, a
\* lookup never reads an empty list.
NeverShardless == [][stored # {} => stored' # {}]_vars
=============================================================================
