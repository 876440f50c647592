------------------------------- MODULE Ingest -------------------------------
(***************************************************************************)
(* Upserts and deletes of one shard (ingest/service.py) on its primary and *)
(* on the replicas (sharding/replication.py).  A request writes record by  *)
(* record: the primary's context first, without flushing its log, then     *)
(* each replica, which flushes before it acknowledges; at the end the      *)
(* primary's log is flushed and the request is answered.                   *)
(*                                                                         *)
(* Handlers have no await inside, so requests do not overlap; a crash may  *)
(* come after every step.  All contexts live in one process and restart    *)
(* together.  WAL.flush is taken to do what it says; module WAL is about   *)
(* when it does not.                                                       *)
(***************************************************************************)
EXTENDS ShardContext, SequencesExt

CONSTANTS
    Primary,    \* the owner of the shard
    Replicas,   \* shard.replicas, in their order
    Required,   \* the namespace's required_acks
    MaxBatch,   \* bound on the records of one request
    Unreadable, \* files that no start can read
    Env         \* "crash", "fault", "flush_fail" (once in a process, or "again"),
                \* "filter", as far as they happen

ASSUME IngestAssumption ==
    /\ Replicas \in Seq(ToSet(Replicas))
    /\ Primary \notin ToSet(Replicas)
    /\ Required \in Nat \ {0}
    /\ MaxBatch \in Nat
    /\ Unreadable \notin [Ids -> Maybe]
    /\ Env \subseteq {"crash", "fault", "flush_fail", "again", "filter"}

VARIABLES
    ctx,      \* the shard context of every node
    req,      \* the request that is running or was answered last
    faults,   \* _faults
    health,   \* the replicas without a known delivery failure
    intact,   \* history: no MemTable flush of this process failed
    missed,   \* history: per replica, the ids whose last write it may lack
    skipped,  \* history: per replica, the ids whose last write it acknowledged unstored
    torn,     \* an SSTable file of the primary ends in half a line
    raised    \* recovery raised in this process: the shard is not served

vars == <<ctx, req, faults, health, intact, missed, skipped, torn, raised>>

ReplicaSet == ToSet(Replicas)
Nodes == {Primary} \cup ReplicaSet

Phase == {"none", "open", "success", "failure"}
Kind == {"upsert", "delete", "filter"}

Request == [
    phase : Phase,
    kind : Kind,
    md : Mds \cup {None},         \* what the filter asks for
    todo : SUBSET Ids,            \* ids the filter found, not yet deleted
    wrote : Seq(Entry),
    pending : Seq(ReplicaSet),    \* replicas still to get the last write
    acks : SUBSET ReplicaSet,     \* replicas that acknowledged it
    ok : BOOLEAN,                 \* every record so far has its acknowledgements
    degraded : BOOLEAN]

NoRequest == [phase |-> "none", kind |-> "upsert", md |-> None, todo |-> {}, wrote |-> <<>>,
              pending |-> <<>>, acks |-> {}, ok |-> TRUE, degraded |-> FALSE]

TypeOK ==
    /\ ctx \in [Nodes -> Context]
    /\ req \in Request
    /\ faults \subseteq ReplicaSet
    /\ health \subseteq ReplicaSet
    /\ intact \in BOOLEAN
    /\ missed \in [ReplicaSet -> SUBSET Ids]
    /\ skipped \in [ReplicaSet -> SUBSET Ids]
    /\ torn \in BOOLEAN
    /\ raised \in BOOLEAN

Init ==
    /\ ctx = [n \in Nodes |-> EmptyContext]
    /\ req = NoRequest
    /\ faults = {}
    /\ health = ReplicaSet
    /\ intact = TRUE
    /\ missed = [r \in ReplicaSet |-> {}]
    /\ skipped = [r \in ReplicaSet |-> {}]
    /\ torn = FALSE
    /\ raised = FALSE

-----------------------------------------------------------------------------
(* Requests *)

Idle == req.phase # "open"
WroteIds == {e.id : e \in ToSet(req.wrote)}

\* A request begins.  A shard whose recovery raised refuses it: every request
\* tries the recovery again, over the same files.
Begin(kind, md, todo) ==
    /\ Idle
    /\ ~raised
    /\ req' = [NoRequest EXCEPT !.phase = "open", !.kind = kind, !.md = md, !.todo = todo]
    /\ UNCHANGED <<ctx, faults, health, intact, missed, skipped, torn, raised>>

BeginUpsert == Begin("upsert", None, {})
BeginDelete == Begin("delete", None, {})

\* Mutant: the filter looks at the MemTable only.
BeginFilterInMemory(md) ==
    /\ "filter" \in Env
    /\ Begin("filter", md, {i \in Ids : ctx[Primary].mem[i] # None /\ ctx[Primary].mem[i].md = md})

\* A delete by filter collects every matching copy before it deletes any.
BeginFilter(md) ==
    /\ "filter" \in Env
    /\ Begin("filter", md, {i \in Ids : FilterMatches(ctx[Primary], i, md)})

\* Mutant: a record is acknowledged by the number of configured replicas.
ScoredByAttempts(q) ==
    IF q.pending = <<>> THEN [q EXCEPT !.ok = @ /\ 1 + Len(Replicas) >= Required] ELSE q

\* The decision about a record, once every replica was tried: the primary
\* counts as one acknowledgement.
Scored(q) ==
    IF q.pending = <<>> THEN [q EXCEPT !.ok = @ /\ 1 + Cardinality(q.acks) >= Required] ELSE q

\* A record was applied on the primary and goes to the replicas.
Replicate(e) ==
    req' = Scored([req EXCEPT !.wrote = Append(@, e), !.todo = @ \ {e.id},
                              !.pending = Replicas, !.acks = {}])

NextRecord(kind) ==
    /\ req.phase = "open"
    /\ req.kind = kind
    /\ req.pending = <<>>

\* Mutant: tombstones outlive a new insert.
UpsertHidden(i, r) ==
    /\ NextRecord("upsert")
    /\ Len(req.wrote) < MaxBatch
    /\ ctx' = [ctx EXCEPT ![Primary] = [Upserted(@, i, r) EXCEPT !.tomb = ctx[Primary].tomb]]
    /\ Replicate([id |-> i, cell |-> r])
    /\ UNCHANGED <<faults, health, intact, missed, skipped, torn, raised>>

\* One record of an upsert, on the primary.
Upsert(i, r) ==
    /\ NextRecord("upsert")
    /\ Len(req.wrote) < MaxBatch
    /\ ctx' = [ctx EXCEPT ![Primary] = Upserted(@, i, r)]
    /\ Replicate([id |-> i, cell |-> r])
    /\ UNCHANGED <<faults, health, intact, missed, skipped, torn, raised>>

\* What is left of a file whose write is cut off: the lines of S, and half of
\* another if tear.  Once a file is torn, nobody reads the lines of any.
CutOff(c, S, tear) ==
    /\ \A i \in S : c.mem[i] # None
    /\ torn \/ tear => S = {}

\* The SSTable cannot be written: the record is an error of the request and
\* is not replicated, its log entry stays, and the MemTable is already empty.
UpsertFlushFails(i, r, S, tear) ==
    /\ "flush_fail" \in Env
    /\ intact \/ "again" \in Env
    /\ NextRecord("upsert")
    /\ Len(req.wrote) < MaxBatch
    /\ ShouldFlush(Buffered(ctx[Primary], i, r))
    /\ CutOff(Buffered(ctx[Primary], i, r), S, tear)
    /\ ctx' = [ctx EXCEPT ![Primary] = FlushCut(Buffered(@, i, r), S)]
    /\ req' = [req EXCEPT !.wrote = Append(@, [id |-> i, cell |-> r]), !.ok = FALSE]
    /\ intact' = FALSE
    /\ missed' = [n \in ReplicaSet |-> missed[n] \cup {i}]
    /\ torn' = (torn \/ tear)
    /\ UNCHANGED <<faults, health, skipped, raised>>

\* One id of a delete, on the primary.
Delete(i) ==
    /\ \/ NextRecord("delete") /\ Len(req.wrote) < MaxBatch
       \/ NextRecord("filter") /\ i \in req.todo
    /\ ctx' = [ctx EXCEPT ![Primary] = Deleted(@, i)]
    /\ Replicate([id |-> i, cell |-> Gone])
    /\ UNCHANGED <<faults, health, intact, missed, skipped, torn, raised>>

\* The health of a replica is the outcome of its last delivery.
RecordNode(n, ok) == health' = IF ok THEN health \cup {n} ELSE health \ {n}

\* The replica takes e for known, although its files do not hold it: only the
\* metadata differs, or a tombstone of its own hides the record it has.
Skips(c, e) ==
    e.cell # Gone /\ AlreadyApplied(c, e.id, e.cell) /\ Recovered(c)[e.id] # e.cell

\* _deliver, for the next replica: applied and flushed there, or failed.
Deliver ==
    /\ req.phase = "open"
    /\ req.pending # <<>>
    /\ LET n == Head(req.pending)
           e == Last(req.wrote)
       IN \/ /\ n \notin faults
             /\ ctx' = [ctx EXCEPT ![n] = IF e.cell = Gone THEN ReplicaDeleted(@, e.id)
                                          ELSE ReplicaUpserted(@, e.id, e.cell)]
             /\ RecordNode(n, TRUE)
             /\ missed' = [missed EXCEPT ![n] = @ \ {e.id}]
             /\ skipped' = [skipped EXCEPT ![n] = IF Skips(ctx[n], e) THEN @ \cup {e.id}
                                                 ELSE @ \ {e.id}]
             /\ req' = Scored([req EXCEPT !.pending = Tail(@), !.acks = @ \cup {n}])
          \/ /\ n \in faults
             /\ RecordNode(n, FALSE)
             /\ missed' = [missed EXCEPT ![n] = @ \cup {e.id}]
             /\ req' = Scored([req EXCEPT !.pending = Tail(@), !.degraded = TRUE])
             /\ UNCHANGED <<ctx, skipped>>
    /\ UNCHANGED <<faults, intact, torn, raised>>

\* aggregate_replication: a request without a record is no success.
Aggregate == IF req.ok /\ req.wrote # <<>> THEN "success" ELSE "failure"

\* Mutant: the request is answered before the log is flushed.
FinishUnflushed ==
    /\ req.phase = "open"
    /\ req.pending = <<>>
    /\ req.todo = {}
    /\ req.wrote # <<>> \/ req.kind = "filter"
    /\ req' = [req EXCEPT !.phase = Aggregate]
    /\ UNCHANGED <<ctx, faults, health, intact, missed, skipped, torn, raised>>

\* The primary's log is flushed and the request is answered.
Finish ==
    /\ req.phase = "open"
    /\ req.pending = <<>>
    /\ req.todo = {}
    /\ req.wrote # <<>> \/ req.kind = "filter"
    /\ ctx' = [ctx EXCEPT ![Primary] = Synced(@)]
    /\ req' = [req EXCEPT !.phase = Aggregate]
    /\ UNCHANGED <<faults, health, intact, missed, skipped, torn, raised>>

-----------------------------------------------------------------------------
(* Faults *)

FailNode(n) ==
    /\ "fault" \in Env
    /\ Idle
    /\ faults' = faults \cup {n}
    /\ UNCHANGED <<ctx, req, health, intact, missed, skipped, torn, raised>>

HealNode(n) ==
    /\ Idle
    /\ n \in faults
    /\ faults' = faults \ {n}
    /\ UNCHANGED <<ctx, req, health, intact, missed, skipped, torn, raised>>

\* The process dies with p as the primary's context; everything in memory is
\* built again from the files.  Recovery raises at half a line, and of the
\* primary's context then only the files matter.
Restart(p, tear) ==
    /\ "crash" \in Env
    /\ \E k \in 0..Len(p.buf) :
          ctx' = [n \in Nodes |-> IF n = Primary THEN Reopened(p, k) ELSE Reopened(ctx[n], 0)]
    /\ faults' = {}
    /\ health' = ReplicaSet
    /\ intact' = TRUE
    /\ torn' = (torn \/ tear)
    /\ raised' = torn'
    /\ UNCHANGED skipped

CrashRestart ==
    /\ Restart(ctx[Primary], FALSE)
    /\ req' = IF Idle THEN req ELSE NoRequest
    /\ missed' = [n \in ReplicaSet |-> IF Idle THEN missed[n] ELSE missed[n] \cup WroteIds]

\* The process dies while it writes an SSTable.
CrashInFlush(i, r, S, tear) ==
    /\ NextRecord("upsert")
    /\ Len(req.wrote) < MaxBatch
    /\ ShouldFlush(Buffered(ctx[Primary], i, r))
    /\ CutOff(Buffered(ctx[Primary], i, r), S, tear)
    /\ Restart(FlushCut(Buffered(ctx[Primary], i, r), S), tear)
    /\ req' = NoRequest
    /\ missed' = [n \in ReplicaSet |-> missed[n] \cup WroteIds \cup {i}]

Next ==
    \/ BeginUpsert
    \/ BeginDelete
    \/ \E md \in Mds : BeginFilter(md)
    \/ \E i \in Ids, r \in Records : Upsert(i, r)
    \/ \E i \in Ids, r \in Records, S \in SUBSET Ids, tear \in BOOLEAN :
          UpsertFlushFails(i, r, S, tear)
    \/ \E i \in Ids : Delete(i)
    \/ Deliver
    \/ Finish
    \/ \E n \in ReplicaSet : FailNode(n) \/ HealNode(n)
    \/ CrashRestart
    \/ \E i \in Ids, r \in Records, S \in SUBSET Ids, tear \in BOOLEAN :
          CrashInFlush(i, r, S, tear)

Spec == Init /\ [][Next]_vars

-----------------------------------------------------------------------------
(* Properties *)

\* A delete tombstone in the log is the absence of the record.
Plain(s) == [k \in DOMAIN s |-> [id |-> s[k].id, cell |-> IF s[k].cell = Gone THEN None ELSE s[k].cell]]

Client == INSTANCE ClientStore WITH
    store <- IF torn THEN Unreadable ELSE Recovered(ctx[Primary]),
    open <- IF Idle THEN <<>> ELSE Plain(req.wrote)

\* The primary's files implement the store clients are promised: an answered
\* request is durable whatever crashes or failed flushes follow, and of an
\* unanswered one nothing but its own writes can appear.  The exception is an
\* SSTable whose write was cut off inside a line: no later start reads it, and
\* the shard is lost with all that was answered before and after.
ImplementsClientStore == Client!StoreSpec

\* Between requests a read returns what a restart would bring back, as far as
\* checksums tell, unless a MemTable flush failed in this process or left half
\* a line.
LiveMatchesDurable ==
    Idle /\ intact /\ ~torn =>
        \A i \in Ids : Alike(Fetch(ctx[Primary], i), Recovered(ctx[Primary])[i])

\* A query finds an id if and only if a fetch does, and its newest vector is
\* the fetched one (with native HNSW a deleted id may still be found).
IndexMatchesFetch ==
    Idle /\ intact /\ ~raised =>
        \A i \in Ids :
            LET c == ctx[Primary]
            IN /\ Alike(c.idx[i].cur, Fetch(c, i))
               /\ ~Native => (Searchable(c, i) <=> Fetch(c, i) # None)

\* When a delete by filter is answered, no record the filter matches can be
\* fetched any more, wherever its copies were.
FilterLeavesNoMatch ==
    [][req.phase = "open" /\ req.kind = "filter" /\ req'.phase \in {"success", "failure"} /\ intact
          => \A i \in Ids : Fetch(ctx[Primary]', i) # None => Fetch(ctx[Primary]', i).md # req.md]_vars

\* A replica's files hold what the primary's do, for every id whose last write
\* it got and stored.  It acknowledges without storing it a record that it has
\* under other metadata, or that it had before its own tombstone.
ReplicaAgrees ==
    Idle /\ ~torn => \A n \in ReplicaSet : \A i \in Ids \ (missed[n] \cup skipped[n]) :
                         Recovered(ctx[n])[i] = Recovered(ctx[Primary])[i]

Holders(e) == {n \in Nodes : Recovered(ctx[n])[e.id] = IF e.cell = Gone THEN None ELSE e.cell}

\* A request that was answered with success is in the files of as many nodes
\* as required_acks asks for, and of all of them unless it was degraded; a
\* crash after the answer changes nothing.  A replica that acknowledged the
\* record without storing it counts although it does not hold it, and a primary
\* with half a line holds nothing.
AckedOnEnough ==
    req.phase = "success" /\ ~torn =>
        \A i \in WroteIds :
            LET H == Holders(req.wrote[LastOf(req.wrote, i)]) \cup {n \in ReplicaSet : i \in skipped[n]}
            IN Cardinality(H) >= Required /\ (~req.degraded => H = Nodes)

\* The health view agrees with the answers: after a success the shard is
\* reported ready, until a delivery fails.
Ready == 1 + Cardinality(health) >= Required
ReadyAfterSuccess == req.phase = "success" => Ready
=============================================================================
