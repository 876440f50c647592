---------------------------- MODULE IngestProofs ----------------------------
(***************************************************************************)
(* Theorems about Ingest, for any ids, records, replicas, thresholds and   *)
(* batch sizes.                                                            *)
(***************************************************************************)
EXTENDS Ingest, ShardContextProofs, FiniteSetTheorems

\* What the proofs use everywhere of the constants.
LEMMA Parameters ==
    /\ Replicas \in Seq(ToSet(Replicas))
    /\ Primary \notin ToSet(Replicas)
    /\ Required \in Nat \ {0}
BY IngestAssumption

USE Parameters

-----------------------------------------------------------------------------
(* The inductive invariants *)

\* Every context agrees with its log; a replica's log is flushed, and the
\* primary's buffer is what the running request wrote.
HeldInv ==
    /\ \A n \in Nodes : Sound(ctx[n])
    /\ \A n \in ReplicaSet : Whole(ctx[n]) /\ ctx[n].buf = <<>>
    /\ intact => Whole(ctx[Primary])
    /\ ctx[Primary].buf = IF Idle THEN <<>> ELSE req.wrote
    /\ req.pending # <<>> => req.phase = "open" /\ req.wrote # <<>>

\* The ids a running delete by filter has done with cannot be matched.
FilterInv ==
    req.phase = "open" /\ req.kind = "filter" =>
        \A i \in Ids \ req.todo : Fetch(ctx[Primary], i) # None => Fetch(ctx[Primary], i).md # req.md

\* The replica n has yet to get the write of i that is on its way.
OnItsWay(n, i) == n \in ToSet(req.pending) /\ i = Last(req.wrote).id

\* The replicas agree with what the primary will have flushed.
AgreeInv ==
    \A n \in ReplicaSet : \A i \in Ids \ (missed[n] \cup skipped[n]) :
        OnItsWay(n, i) \/ Recovered(ctx[n])[i] = Final(ctx[Primary], i)

Current == req.phase \in {"open", "success"} /\ req.ok
Reached(i) == {n \in ReplicaSet : i \notin missed[n]}

\* The records of a request that is a success so far reached enough
\* replicas, and all of them unless it is degraded.
CountInv ==
    /\ Current => \A i \in WroteIds :
          /\ \/ req.pending # <<>> /\ i = Last(req.wrote).id
             \/ 1 + Cardinality(Reached(i)) >= Required
          /\ ~req.degraded => \A n \in ReplicaSet : OnItsWay(n, i) \/ i \notin missed[n]
    /\ req.pending # <<>> =>
          /\ req.acks \cap faults = {}
          /\ req.acks \subseteq health
          /\ req.acks \subseteq Reached(Last(req.wrote).id)
    /\ Current /\ req.wrote # <<>> /\ req.pending = <<>> => 1 + Cardinality(health) >= Required

\* An answered success is in the primary's files.
AnswerInv ==
    req.phase = "success" =>
        /\ req.ok /\ req.wrote # <<>>
        /\ \A i \in WroteIds : ctx[Primary].wal[i] = req.wrote[LastOf(req.wrote, i)].cell

-----------------------------------------------------------------------------
(* Nodes and requests *)

\* The primary and its replicas are all the nodes, finitely many.
LEMMA ReplicaFacts ==
    /\ Primary \in Nodes /\ Primary \notin ReplicaSet
    /\ ReplicaSet \subseteq Nodes /\ \A n \in Nodes : n # Primary => n \in ReplicaSet
    /\ Replicas \in Seq(ReplicaSet)
    /\ IsFiniteSet(ReplicaSet) /\ IsFiniteSet(Nodes)
    /\ \A n \in ReplicaSet : n \in ToSet(Replicas)
    /\ Replicas = <<>> => ReplicaSet = {}
<1>1. ReplicaSet = {Replicas[k] : k \in 1..Len(Replicas)} /\ Len(Replicas) \in Nat
  BY DEF ReplicaSet, ToSet
<1>2. IsFiniteSet(1..Len(Replicas))
  BY <1>1, FS_Interval
<1>3. IsFiniteSet(ReplicaSet)
  <2>1. Replicas \in Surjection(1..Len(Replicas), ReplicaSet)
    BY <1>1 DEF Surjection
  <2>2. QED
    BY <1>2, <2>1, FS_Surjection
<1>4. IsFiniteSet(Nodes)
  BY <1>3, FS_Singleton, FS_Union DEF Nodes
<1>5. Replicas = <<>> => ReplicaSet = {}
  BY DEF ReplicaSet, ToSet
<1>6. QED
  BY <1>3, <1>4, <1>5 DEF Nodes, ReplicaSet

\* Sets of replicas can be counted.
LEMMA ReplicaCount ==
    ASSUME NEW S \in SUBSET ReplicaSet
    PROVE  IsFiniteSet(S) /\ Cardinality(S) \in Nat
BY ReplicaFacts, FS_Subset, FS_CardinalityType

\* The fields of a request.
LEMMA RequestTypes ==
    ASSUME NEW q \in Request
    PROVE  /\ q.phase \in Phase /\ q.kind \in Kind /\ q.md \in Mds \cup {None}
           /\ q.todo \in SUBSET Ids /\ q.wrote \in Seq(Entry) /\ q.pending \in Seq(ReplicaSet)
           /\ q.acks \in SUBSET ReplicaSet /\ q.ok \in BOOLEAN /\ q.degraded \in BOOLEAN
BY DEF Request

\* Before the first request nothing is open.
LEMMA NoRequestTyped ==
    /\ NoRequest \in Request
    /\ NoRequest.phase = "none" /\ NoRequest.wrote = <<>> /\ NoRequest.pending = <<>>
    /\ NoRequest.acks = {}
<1>1. <<>> \in Seq(Entry) /\ <<>> \in Seq(ReplicaSet)
  OBVIOUS
<1>2. QED
  BY <1>1 DEF NoRequest, Request, Phase, Kind

\* Scoring a record changes only whether all records had enough acknowledgements.
LEMMA ScoredFields ==
    ASSUME NEW q \in Request, NEW z, z = Scored(q)
    PROVE  /\ z \in Request
           /\ z.phase = q.phase /\ z.kind = q.kind /\ z.md = q.md /\ z.todo = q.todo
           /\ z.wrote = q.wrote /\ z.pending = q.pending /\ z.acks = q.acks
           /\ z.degraded = q.degraded
           /\ z.ok => q.ok
           /\ z.ok /\ q.pending = <<>> => 1 + Cardinality(q.acks) >= Required
<1>1. Cardinality(q.acks) \in Nat /\ Required \in Nat /\ q.ok \in BOOLEAN
  BY ReplicaCount, RequestTypes
<1> DEFINE b == q.ok /\ 1 + Cardinality(q.acks) >= Required
<1>2. b \in BOOLEAN
  BY <1>1
<1>3. b => q.ok /\ 1 + Cardinality(q.acks) >= Required
  OBVIOUS
<1>4. CASE q.pending = <<>>
  <2>1. z = [q EXCEPT !.ok = b]
    BY <1>4 DEF Scored
  <2> HIDE DEF b
  <2>2. /\ z \in Request /\ z.ok = b
        /\ z.phase = q.phase /\ z.kind = q.kind /\ z.md = q.md /\ z.todo = q.todo
        /\ z.wrote = q.wrote /\ z.pending = q.pending /\ z.acks = q.acks
        /\ z.degraded = q.degraded
    BY <1>2, <2>1 DEF Request
  <2>3. QED
    BY <1>3, <2>2
<1>5. CASE q.pending # <<>>
  <2>1. z = q
    BY <1>5 DEF Scored
  <2>2. QED
    BY <1>5, <2>1
<1>6. QED
  BY <1>4, <1>5

\* The request once a record went to the primary.
LEMMA ReplicateFields ==
    ASSUME TypeOK, NEW e \in Entry, Replicate(e)
    PROVE  /\ req' \in Request
           /\ req'.phase = req.phase /\ req'.kind = req.kind /\ req'.md = req.md
           /\ req'.todo = req.todo \ {e.id}
           /\ req'.wrote = Append(req.wrote, e)
           /\ req'.pending = Replicas /\ req'.acks = {}
           /\ req'.degraded = req.degraded
           /\ req'.ok => req.ok
           /\ req'.ok /\ Replicas = <<>> => 1 + Cardinality({}) >= Required
<1> DEFINE W == Append(req.wrote, e)
           T == req.todo \ {e.id}
           q == [req EXCEPT !.wrote = W, !.todo = T, !.pending = Replicas, !.acks = {}]
<1>1. req \in Request
  BY DEF TypeOK
<1>2. W \in Seq(Entry) /\ T \in SUBSET Ids /\ Replicas \in Seq(ReplicaSet) /\ {} \in SUBSET ReplicaSet
  BY <1>1, RequestTypes, ReplicaFacts
<1>3. req' = Scored(q)
  BY DEF Replicate
<1> HIDE DEF W, T
<1>4. /\ q \in Request
      /\ q.phase = req.phase /\ q.kind = req.kind /\ q.md = req.md /\ q.todo = T
      /\ q.wrote = W /\ q.pending = Replicas /\ q.acks = {}
      /\ q.degraded = req.degraded /\ q.ok = req.ok
  BY <1>1, <1>2 DEF Request
<1> HIDE DEF q
<1>5. /\ req' \in Request
      /\ req'.phase = q.phase /\ req'.kind = q.kind /\ req'.md = q.md /\ req'.todo = q.todo
      /\ req'.wrote = q.wrote /\ req'.pending = q.pending /\ req'.acks = q.acks
      /\ req'.degraded = q.degraded
      /\ req'.ok => q.ok
      /\ req'.ok /\ q.pending = <<>> => 1 + Cardinality(q.acks) >= Required
  BY <1>3, <1>4, ScoredFields
<1>6. QED
  BY <1>4, <1>5 DEF W, T

\* A request starts with nothing written and nothing to deliver.
LEMMA BeginFields ==
    ASSUME NEW kind \in Kind, NEW md \in Mds \cup {None}, NEW todo \in SUBSET Ids,
           Begin(kind, md, todo)
    PROVE  /\ req' \in Request
           /\ req'.phase = "open" /\ req'.kind = kind /\ req'.md = md /\ req'.todo = todo
           /\ req'.wrote = <<>> /\ req'.pending = <<>> /\ req'.acks = {}
           /\ Idle
           /\ UNCHANGED <<ctx, faults, health, intact, missed, skipped, torn, raised>>
<1>1. req' = [NoRequest EXCEPT !.phase = "open", !.kind = kind, !.md = md, !.todo = todo]
  BY DEF Begin
<1>2. NoRequest \in Request /\ "open" \in Phase
  BY NoRequestTyped DEF Phase
<1>3. NoRequest.wrote = <<>> /\ NoRequest.pending = <<>> /\ NoRequest.acks = {}
  BY NoRequestTyped
<1>4. /\ req' \in Request
      /\ req'.phase = "open" /\ req'.kind = kind /\ req'.md = md /\ req'.todo = todo
      /\ req'.wrote = NoRequest.wrote /\ req'.pending = NoRequest.pending
      /\ req'.acks = NoRequest.acks
  BY <1>1, <1>2 DEF Request
<1>5. QED
  BY <1>3, <1>4 DEF Begin

-----------------------------------------------------------------------------
(* What the actions do to the contexts *)

\* The primary took the write e and no other context changed.
PrimaryWrote(e) ==
    /\ ctx' \in [Nodes -> Context]
    /\ \A n \in ReplicaSet : ctx'[n] = ctx[n]
    /\ Sound(ctx'[Primary])
    /\ ctx'[Primary].wal = ctx[Primary].wal
    /\ ctx'[Primary].buf = Append(req.wrote, e)
    /\ Final(ctx'[Primary], e.id) = Resolve(e.cell, None)
    /\ \A j \in Ids \ {e.id} : Final(ctx'[Primary], j) = Final(ctx[Primary], j)
    /\ \A j \in Ids : \/ TableAt(ctx'[Primary], j) = TableAt(ctx[Primary], j)
                      \/ /\ TableAt(ctx'[Primary], j) # None
                         /\ TableAt(ctx'[Primary], j) = Log(ctx'[Primary])[j]

\* A write of the primary leaves the replicas' contexts alone.
LEMMA PrimaryReplaced ==
    ASSUME TypeOK, NEW d \in Context, ctx' = [ctx EXCEPT ![Primary] = d]
    PROVE  /\ ctx' \in [Nodes -> Context]
           /\ \A n \in ReplicaSet : ctx'[n] = ctx[n]
           /\ ctx'[Primary] = d
BY ReplicaFacts DEF TypeOK

\* While a request is open, the primary's unflushed log is what the request wrote.
LEMMA OpenPrimary ==
    ASSUME TypeOK, HeldInv, req.phase = "open"
    PROVE  /\ ctx[Primary] \in Context /\ Sound(ctx[Primary])
           /\ ctx[Primary].buf = req.wrote
BY ReplicaFacts DEF TypeOK, HeldInv, Idle

\* An upsert is a write of the primary that disturbs no other id.
LEMMA UpsertStep ==
    ASSUME TypeOK, HeldInv, NEW i \in Ids, NEW r \in Records, Upsert(i, r)
    PROVE  /\ PrimaryWrote([id |-> i, cell |-> r])
           /\ Whole(ctx[Primary]) => Whole(ctx'[Primary])
           /\ \A j \in Ids \ {i} : Fetch(ctx'[Primary], j) = Fetch(ctx[Primary], j)
<1> DEFINE c == ctx[Primary]
           d == Upserted(c, i, r)
<1>1. c \in Context /\ Sound(c) /\ c.buf = req.wrote
  BY OpenPrimary DEF Upsert, NextRecord
<1>2. ctx' = [ctx EXCEPT ![Primary] = d]
  BY DEF Upsert
<1>3. d = Upserted(c, i, r)
  OBVIOUS
<1> HIDE DEF c, d
<1>4. /\ d \in Context /\ Sound(d)
      /\ Whole(c) => Whole(d)
      /\ Fetch(d, i) = r /\ Final(d, i) = r
      /\ \A j \in Ids \ {i} : Fetch(d, j) = Fetch(c, j) /\ Final(d, j) = Final(c, j)
  BY <1>1, <1>3, UpsertedKeeps
<1>5. /\ d.wal = c.wal /\ d.buf = Append(c.buf, [id |-> i, cell |-> r])
      /\ Log(d) = [Log(c) EXCEPT ![i] = r]
      /\ \A j \in Ids : TableAt(d, j) = TableAt(c, j) \/ (TableAt(d, j) = Log(d)[j] /\ TableAt(d, j) # None)
  BY <1>1, <1>3, UpsertedLogs
<1>6. /\ ctx' \in [Nodes -> Context]
      /\ \A n \in ReplicaSet : ctx'[n] = ctx[n]
      /\ ctx'[Primary] = d
  BY <1>2, <1>4, PrimaryReplaced
<1>7. Resolve(r, None) = r
  BY RecordsAssumption DEF Resolve
<1> DEFINE e == [id |-> i, cell |-> r]
<1>8. e.id = i /\ e.cell = r /\ d.buf = Append(req.wrote, e)
  BY <1>1, <1>5
<1> HIDE DEF e
<1>9. PrimaryWrote(e)
  BY <1>4, <1>5, <1>6, <1>7, <1>8 DEF PrimaryWrote, c
<1>10. QED
  BY <1>4, <1>6, <1>9 DEF c, e

\* A delete is a write of the primary that hides its id and disturbs no other.
LEMMA DeleteStep ==
    ASSUME TypeOK, HeldInv, NEW i \in Ids, Delete(i)
    PROVE  /\ PrimaryWrote([id |-> i, cell |-> Gone])
           /\ Whole(ctx[Primary]) => Whole(ctx'[Primary])
           /\ Fetch(ctx'[Primary], i) = None
           /\ \A j \in Ids \ {i} : Fetch(ctx'[Primary], j) = Fetch(ctx[Primary], j)
<1> DEFINE c == ctx[Primary]
           d == Deleted(c, i)
<1>1. c \in Context /\ Sound(c) /\ c.buf = req.wrote
  BY OpenPrimary DEF Delete, NextRecord
<1>2. ctx' = [ctx EXCEPT ![Primary] = d]
  BY DEF Delete
<1>3. d = Deleted(c, i)
  OBVIOUS
<1> HIDE DEF c, d
<1>4. /\ d \in Context /\ Sound(d)
      /\ Whole(c) => Whole(d)
      /\ Fetch(d, i) = None /\ Final(d, i) = None
      /\ \A j \in Ids \ {i} : Fetch(d, j) = Fetch(c, j) /\ Final(d, j) = Final(c, j)
  BY <1>1, <1>3, DeletedKeeps
<1>5. /\ d.wal = c.wal /\ d.buf = Append(c.buf, [id |-> i, cell |-> Gone])
      /\ \A j \in Ids : TableAt(d, j) = TableAt(c, j)
      /\ Log(d) = [Log(c) EXCEPT ![i] = Gone]
  BY <1>1, <1>3, DeletedLogs
<1>6. /\ ctx' \in [Nodes -> Context]
      /\ \A n \in ReplicaSet : ctx'[n] = ctx[n]
      /\ ctx'[Primary] = d
  BY <1>2, <1>4, PrimaryReplaced
<1>7. Resolve(Gone, None) = None
  BY DEF Resolve
<1> DEFINE e == [id |-> i, cell |-> Gone]
<1>8. e.id = i /\ e.cell = Gone /\ d.buf = Append(req.wrote, e)
  BY <1>1, <1>5
<1> HIDE DEF e
<1>9. PrimaryWrote(e)
  BY <1>4, <1>5, <1>6, <1>7, <1>8 DEF PrimaryWrote, c
<1>10. QED
  BY <1>4, <1>6, <1>9 DEF c, e

\* An upsert whose SSTable write fails is in the log all the same.
LEMMA FlushFailsStep ==
    ASSUME TypeOK, HeldInv, NEW i \in Ids, NEW r \in Records, NEW S \in SUBSET Ids,
           NEW tear \in BOOLEAN, UpsertFlushFails(i, r, S, tear)
    PROVE  PrimaryWrote([id |-> i, cell |-> r])
<1> DEFINE c == ctx[Primary]
           e == [id |-> i, cell |-> r]
           d == FlushCut(Buffered(c, i, r), S)
<1>1. c \in Context /\ Sound(c) /\ c.buf = req.wrote
  BY OpenPrimary DEF UpsertFlushFails, NextRecord
<1>2. ctx' = [ctx EXCEPT ![Primary] = d]
  BY DEF UpsertFlushFails
<1>3. /\ d = FlushCut(Buffered(c, i, r), S) /\ \A j \in S : Buffered(c, i, r).mem[j] # None
  BY DEF UpsertFlushFails, CutOff
<1> HIDE DEF c, d
<1>4. /\ d \in Context /\ Sound(d)
      /\ d.wal = c.wal /\ d.buf = Append(c.buf, e)
      /\ Final(d, i) = r
      /\ \A j \in Ids \ {i} : Final(d, j) = Final(c, j)
      /\ \A j \in Ids : \/ TableAt(d, j) = TableAt(c, j)
                        \/ TableAt(d, j) # None /\ TableAt(d, j) = Log(d)[j]
  BY <1>1, <1>3, TornFlush
<1>5. /\ ctx' \in [Nodes -> Context]
      /\ \A n \in ReplicaSet : ctx'[n] = ctx[n]
      /\ ctx'[Primary] = d
  BY <1>2, <1>4, PrimaryReplaced
<1>6. Resolve(r, None) = r
  BY RecordsAssumption DEF Resolve
<1>7. e.id = i /\ e.cell = r
  OBVIOUS
<1> HIDE DEF e
<1>8. PrimaryWrote(e)
  BY <1>1, <1>4, <1>5, <1>6, <1>7 DEF PrimaryWrote, c
<1>9. QED
  BY <1>8 DEF e

\* The primary's log was flushed.
LEMMA FinishStep ==
    ASSUME TypeOK, HeldInv, Finish
    PROVE  /\ ctx' \in [Nodes -> Context]
           /\ \A n \in ReplicaSet : ctx'[n] = ctx[n]
           /\ Sound(ctx'[Primary])
           /\ Whole(ctx[Primary]) => Whole(ctx'[Primary])
           /\ ctx'[Primary].buf = <<>> /\ ctx'[Primary].wal = Log(ctx[Primary])
           /\ \A j \in Ids : /\ Fetch(ctx'[Primary], j) = Fetch(ctx[Primary], j)
                             /\ Final(ctx'[Primary], j) = Final(ctx[Primary], j)
                             /\ Recovered(ctx'[Primary])[j] = Final(ctx[Primary], j)
           /\ req' \in Request
           /\ req'.phase \in {"success", "failure"}
           /\ req'.phase = "success" <=> req.ok /\ req.wrote # <<>>
           /\ req'.kind = req.kind /\ req'.md = req.md /\ req'.todo = req.todo
           /\ req'.wrote = req.wrote /\ req'.pending = <<>> /\ req'.acks = req.acks
           /\ req'.ok = req.ok /\ req'.degraded = req.degraded
           /\ req.pending = <<>> /\ req.todo = {}
<1> DEFINE c == ctx[Primary]
           d == Synced(c)
<1>1. c \in Context /\ Sound(c)
  BY OpenPrimary DEF Finish
<1>2. ctx' = [ctx EXCEPT ![Primary] = d]
  BY DEF Finish
<1>3. d = Synced(c)
  OBVIOUS
<1> HIDE DEF c, d
<1>4. /\ d \in Context /\ Sound(d)
      /\ Whole(c) => Whole(d)
      /\ d.buf = <<>> /\ d.wal = Log(c)
      /\ \A j \in Ids : /\ Fetch(d, j) = Fetch(c, j)
                        /\ Final(d, j) = Final(c, j)
                        /\ Recovered(d)[j] = Final(c, j)
  BY <1>1, <1>3, SyncedKeeps
<1>5. /\ ctx' \in [Nodes -> Context]
      /\ \A n \in ReplicaSet : ctx'[n] = ctx[n]
      /\ ctx'[Primary] = d
  BY <1>2, <1>4, PrimaryReplaced
<1>6. Aggregate \in {"success", "failure"} /\ (Aggregate = "success" <=> req.ok /\ req.wrote # <<>>)
  BY DEF Aggregate
<1>7. req' = [req EXCEPT !.phase = Aggregate] /\ req \in Request /\ Aggregate \in Phase
  BY <1>6 DEF Finish, TypeOK, Phase
<1>8. /\ req' \in Request /\ req'.phase = Aggregate
      /\ req'.kind = req.kind /\ req'.md = req.md /\ req'.todo = req.todo
      /\ req'.wrote = req.wrote /\ req'.pending = req.pending /\ req'.acks = req.acks
      /\ req'.ok = req.ok /\ req'.degraded = req.degraded
  BY <1>7 DEF Request
<1>9. req.pending = <<>> /\ req.todo = {}
  BY DEF Finish
<1>10. QED
  BY <1>4, <1>5, <1>6, <1>8, <1>9 DEF c

\* The next replica got the write e.
Delivered(n, e) ==
    /\ n \notin faults
    /\ ctx'[n] \in Context /\ Sound(ctx'[n]) /\ Whole(ctx'[n]) /\ ctx'[n].buf = <<>>
    /\ ~Skips(ctx[n], e) => Recovered(ctx'[n])[e.id] = Resolve(e.cell, None)
    /\ \A j \in Ids \ {e.id} : Recovered(ctx'[n])[j] = Recovered(ctx[n])[j]
    /\ health' = health \cup {n}
    /\ missed' = [missed EXCEPT ![n] = @ \ {e.id}]
    /\ skipped' = [skipped EXCEPT ![n] = IF Skips(ctx[n], e) THEN @ \cup {e.id} ELSE @ \ {e.id}]
    /\ req'.acks = req.acks \cup {n} /\ req'.degraded = req.degraded

\* The delivery of e to the next replica failed.
Dropped(n, e) ==
    /\ n \in faults
    /\ ctx' = ctx /\ skipped' = skipped
    /\ health' = health \ {n}
    /\ missed' = [missed EXCEPT ![n] = @ \cup {e.id}]
    /\ req'.acks = req.acks /\ req'.degraded = TRUE

\* A record that is being delivered has been written, and goes to replicas only.
LEMMA PendingFacts ==
    ASSUME TypeOK, HeldInv, req.pending # <<>>
    PROVE  /\ req.phase = "open" /\ req.wrote # <<>>
           /\ Head(req.pending) \in ReplicaSet
           /\ Tail(req.pending) \in Seq(ReplicaSet)
           /\ \A m \in ToSet(req.pending) : m = Head(req.pending) \/ m \in ToSet(Tail(req.pending))
           /\ \A m \in ToSet(Tail(req.pending)) : m \in ToSet(req.pending)
           /\ Last(req.wrote) \in Entry
<1>1. req.pending \in Seq(ReplicaSet) /\ req.wrote \in Seq(Entry)
  BY RequestTypes DEF TypeOK
<1>2. req.phase = "open" /\ req.wrote # <<>>
  BY DEF HeldInv
<1>3. Last(req.wrote) \in Entry
  BY <1>1, <1>2 DEF Last
<1>4. Head(req.pending) \in ReplicaSet /\ Tail(req.pending) \in Seq(ReplicaSet)
  BY <1>1
<1>5. \A m \in ToSet(req.pending) : m = Head(req.pending) \/ m \in ToSet(Tail(req.pending))
  <2>1. TAKE m \in ToSet(req.pending)
  <2>2. PICK k \in 1..Len(req.pending) : m = req.pending[k]
    BY <1>1 DEF ToSet
  <2>3. CASE k = 1
    BY <1>1, <2>2, <2>3
  <2>4. CASE k # 1
    <3> DEFINE T == Tail(req.pending)
               j == k - 1
    <3>1. T \in Seq(ReplicaSet) /\ j \in 1..Len(T) /\ T[j] = m
      BY <1>1, <1>4, <2>2, <2>4
    <3> HIDE DEF T, j
    <3>2. m \in ToSet(T)
      BY <3>1 DEF ToSet
    <3>3. QED
      BY <3>2 DEF T
  <2>5. QED
    BY <2>3, <2>4
<1>6. \A m \in ToSet(Tail(req.pending)) : m \in ToSet(req.pending)
  <2>1. TAKE m \in ToSet(Tail(req.pending))
  <2>2. PICK k \in 1..Len(Tail(req.pending)) : m = Tail(req.pending)[k]
    BY <1>4 DEF ToSet
  <2>3. k + 1 \in 1..Len(req.pending) /\ req.pending[k + 1] = m
    BY <1>1, <2>2
  <2>4. QED
    BY <1>1, <2>3 DEF ToSet
<1>7. QED
  BY <1>2, <1>3, <1>4, <1>5, <1>6

\* A delivery touches one replica, and ends with or without its acknowledgement.
LEMMA DeliverStep ==
    ASSUME TypeOK, HeldInv, Deliver,
           NEW n, n = Head(req.pending), NEW e, e = Last(req.wrote)
    PROVE  /\ req.pending # <<>>
           /\ ctx' \in [Nodes -> Context]
           /\ \A m \in Nodes \ {n} : ctx'[m] = ctx[m]
           /\ req' \in Request
           /\ req'.phase = req.phase /\ req'.kind = req.kind /\ req'.md = req.md
           /\ req'.todo = req.todo /\ req'.wrote = req.wrote
           /\ req'.pending = Tail(req.pending)
           /\ req'.ok => req.ok
           /\ req'.ok /\ req'.pending = <<>> => 1 + Cardinality(req'.acks) >= Required
           /\ Delivered(n, e) \/ Dropped(n, e)
           /\ UNCHANGED <<faults, intact, torn, raised>>
<1>1. req.pending # <<>> /\ UNCHANGED <<faults, intact, torn, raised>>
  BY DEF Deliver
<1>2. /\ n \in ReplicaSet /\ n \in Nodes
      /\ Tail(req.pending) \in Seq(ReplicaSet)
      /\ e \in Entry
  BY <1>1, PendingFacts, ReplicaFacts
<1>3. req \in Request /\ ctx \in [Nodes -> Context]
  BY DEF TypeOK
<1> DEFINE Q == Tail(req.pending)
<1>4. Q \in Seq(ReplicaSet) /\ Q = Tail(req.pending)
  BY <1>2
<1> HIDE DEF Q
<1>5. CASE n \notin faults
  <2> DEFINE A == req.acks \cup {n}
             q == [req EXCEPT !.pending = Q, !.acks = A]
             c == ctx[n]
             d == IF e.cell = Gone THEN ReplicaDeleted(c, e.id) ELSE ReplicaUpserted(c, e.id, e.cell)
  <2>1. /\ ctx' = [ctx EXCEPT ![n] = d]
        /\ RecordNode(n, TRUE)
        /\ missed' = [missed EXCEPT ![n] = @ \ {e.id}]
        /\ skipped' = [skipped EXCEPT ![n] = IF Skips(ctx[n], e) THEN @ \cup {e.id} ELSE @ \ {e.id}]
        /\ req' = Scored(q)
    BY <1>4, <1>5 DEF Deliver
  <2>2. A \in SUBSET ReplicaSet
    BY <1>2, <1>3, RequestTypes
  <2> HIDE DEF A
  <2>3. /\ q \in Request
        /\ q.phase = req.phase /\ q.kind = req.kind /\ q.md = req.md /\ q.todo = req.todo
        /\ q.wrote = req.wrote /\ q.pending = Q /\ q.acks = A
        /\ q.degraded = req.degraded /\ q.ok = req.ok
    BY <1>3, <1>4, <2>2 DEF Request
  <2> HIDE DEF q
  <2>4. /\ req' \in Request
        /\ req'.phase = q.phase /\ req'.kind = q.kind /\ req'.md = q.md /\ req'.todo = q.todo
        /\ req'.wrote = q.wrote /\ req'.pending = q.pending /\ req'.acks = q.acks
        /\ req'.degraded = q.degraded
        /\ req'.ok => q.ok
        /\ req'.ok /\ q.pending = <<>> => 1 + Cardinality(q.acks) >= Required
    BY <2>1, <2>3, ScoredFields
  <2>5. c \in Context /\ Sound(c) /\ Whole(c) /\ c.buf = <<>>
    BY <1>2, <1>3 DEF HeldInv
  <2>6. e.id \in Ids /\ e.cell \in Records \cup {Gone}
    BY <1>2 DEF Entry
  <2>7. /\ d \in Context /\ Sound(d) /\ Whole(d) /\ d.buf = <<>>
        /\ ~Skips(c, e) => Recovered(d)[e.id] = Resolve(e.cell, None)
        /\ \A j \in Ids \ {e.id} : Recovered(d)[j] = Recovered(c)[j]
    <3>1. CASE e.cell = Gone
      <4>0. d = ReplicaDeleted(c, e.id)
        BY <3>1
      <4>1. Resolve(e.cell, None) = None
        BY <3>1 DEF Resolve
      <4> HIDE DEF c, d
      <4>2. /\ d \in Context /\ Sound(d) /\ Whole(d) /\ d.buf = <<>>
            /\ Recovered(d)[e.id] = None
            /\ \A j \in Ids \ {e.id} : Recovered(d)[j] = Recovered(c)[j]
        BY <2>5, <2>6, <4>0, ReplicaDeletedKeeps
      <4>3. QED
        BY <4>1, <4>2
    <3>2. CASE e.cell # Gone
      <4>1. d = ReplicaUpserted(c, e.id, e.cell) /\ e.cell \in Records
        BY <2>6, <3>2
      <4>2. Resolve(e.cell, None) = e.cell
        BY <3>2 DEF Resolve
      <4> HIDE DEF c, d
      <4>3. /\ d \in Context /\ Sound(d) /\ Whole(d) /\ d.buf = <<>>
            /\ ~(AlreadyApplied(c, e.id, e.cell) /\ Recovered(c)[e.id] # e.cell) => Recovered(d)[e.id] = e.cell
            /\ \A j \in Ids \ {e.id} : Recovered(d)[j] = Recovered(c)[j]
        BY <2>5, <2>6, <4>1, ReplicaUpsertedKeeps
      <4>4. QED
        BY <3>2, <4>2, <4>3 DEF Skips
    <3>3. QED
      BY <3>1, <3>2
  <2> HIDE DEF d
  <2>8. /\ ctx' \in [Nodes -> Context] /\ ctx'[n] = d
        /\ \A m \in Nodes \ {n} : ctx'[m] = ctx[m]
    BY <1>2, <1>3, <2>1, <2>7
  <2>9. health' = health \cup {n}
    BY <2>1 DEF RecordNode
  <2>10. Delivered(n, e)
    BY <1>5, <2>1, <2>3, <2>4, <2>7, <2>8, <2>9 DEF Delivered, A
  <2>11. QED
    BY <1>1, <1>4, <2>3, <2>4, <2>8, <2>10
<1>6. CASE n \in faults
  <2> DEFINE q == [req EXCEPT !.pending = Q, !.degraded = TRUE]
  <2>1. /\ ctx' = ctx /\ skipped' = skipped
        /\ RecordNode(n, FALSE)
        /\ missed' = [missed EXCEPT ![n] = @ \cup {e.id}]
        /\ req' = Scored(q)
    BY <1>4, <1>6 DEF Deliver
  <2>2. /\ q \in Request
        /\ q.phase = req.phase /\ q.kind = req.kind /\ q.md = req.md /\ q.todo = req.todo
        /\ q.wrote = req.wrote /\ q.pending = Q /\ q.acks = req.acks
        /\ q.degraded = TRUE /\ q.ok = req.ok
    BY <1>3, <1>4 DEF Request
  <2> HIDE DEF q
  <2>3. /\ req' \in Request
        /\ req'.phase = q.phase /\ req'.kind = q.kind /\ req'.md = q.md /\ req'.todo = q.todo
        /\ req'.wrote = q.wrote /\ req'.pending = q.pending /\ req'.acks = q.acks
        /\ req'.degraded = q.degraded
        /\ req'.ok => q.ok
        /\ req'.ok /\ q.pending = <<>> => 1 + Cardinality(q.acks) >= Required
    BY <2>1, <2>2, ScoredFields
  <2>4. health' = health \ {n}
    BY <2>1 DEF RecordNode
  <2>5. Dropped(n, e)
    BY <1>6, <2>1, <2>2, <2>3, <2>4 DEF Dropped
  <2>6. QED
    BY <1>1, <1>3, <1>4, <2>1, <2>2, <2>3, <2>5
<1>7. QED
  BY <1>5, <1>6

\* The entries of a batch are records or tombstones of ids.
LEMMA EntryCells ==
    ASSUME NEW s \in Seq(Entry), NEW k \in DOMAIN s
    PROVE  s[k] \in Entry /\ s[k].id \in Ids /\ s[k].cell \in Records \cup {Gone}
<1>1. s[k] \in Entry
  OBVIOUS
<1>2. QED
  BY <1>1 DEF Entry

\* The last entry of an appended sequence is the appended one.
LEMMA AppendFacts ==
    ASSUME NEW s \in Seq(Entry), NEW e \in Entry
    PROVE  /\ Append(s, e) \in Seq(Entry) /\ Append(s, e) # <<>>
           /\ Last(Append(s, e)) = e
           /\ DOMAIN Append(s, e) = 1..Len(s) + 1 /\ DOMAIN s = 1..Len(s)
           /\ \A k \in 1..Len(s) : Append(s, e)[k] = s[k]
           /\ Append(s, e)[Len(s) + 1] = e
BY DEF Last

\* A restart: the primary keeps its files and the flushed part of its buffer,
\* a replica all it had.
LEMMA RestartStep ==
    ASSUME TypeOK, HeldInv, NEW p \in Context, Sound(p), NEW tear \in BOOLEAN,
           Restart(p, tear)
    PROVE  /\ ctx' \in [Nodes -> Context]
           /\ \A n \in Nodes : Sound(ctx'[n]) /\ Whole(ctx'[n]) /\ ctx'[n].buf = <<>>
           /\ \A n \in ReplicaSet : Recovered(ctx'[n]) = Recovered(ctx[n])
           /\ Log(ctx'[Primary]) = ctx'[Primary].wal
           /\ \A j \in Ids : TableAt(ctx'[Primary], j) = TableAt(p, j)
           /\ p.buf = <<>> => ctx'[Primary].wal = p.wal
           /\ \A j \in Ids :
                 \/ ctx'[Primary].wal[j] = p.wal[j]
                 \/ \E m \in DOMAIN p.buf : p.buf[m].id = j /\ p.buf[m].cell = ctx'[Primary].wal[j]
           /\ faults' = {} /\ health' = ReplicaSet /\ intact' = TRUE /\ skipped' = skipped
           /\ torn' = (torn \/ tear) /\ raised' = torn'
<1>1. PICK k \in 0..Len(p.buf) :
         ctx' = [n \in Nodes |-> IF n = Primary THEN Reopened(p, k) ELSE Reopened(ctx[n], 0)]
  BY DEF Restart
<1>2. ctx \in [Nodes -> Context]
  BY DEF TypeOK
<1> DEFINE d == ctx'[Primary]
<1>3. d = Reopened(p, k)
  BY <1>1, ReplicaFacts
<1> HIDE DEF d
<1>4. /\ d \in Context /\ Sound(d) /\ Whole(d)
      /\ d.buf = <<>> /\ Log(d) = d.wal
      /\ \A j \in Ids : TableAt(d, j) = TableAt(p, j)
      /\ k = 0 => d.wal = p.wal
      /\ \A j \in Ids : \/ d.wal[j] = p.wal[j]
                        \/ \E m \in DOMAIN p.buf : p.buf[m].id = j /\ p.buf[m].cell = d.wal[j]
  BY <1>3, ReopenedKeeps
<1>5. p.buf = <<>> => k = 0
  OBVIOUS
<1>6. ASSUME NEW n \in ReplicaSet, NEW c, c = ctx[n], NEW b, b = ctx'[n]
      PROVE  /\ b \in Context /\ Sound(b) /\ Whole(b) /\ b.buf = <<>>
             /\ Recovered(b) = Recovered(c)
  <2>1. n \in Nodes /\ n # Primary
    BY ReplicaFacts
  <2>2. b = Reopened(c, 0)
    BY <1>1, <1>6, <2>1
  <2>3. c \in Context /\ Sound(c)
    BY <1>2, <1>6, <2>1 DEF HeldInv
  <2>4. 0 \in 0..Len(c.buf)
    BY <2>3, FieldTypes
  <2>5. /\ b \in Context /\ Sound(b) /\ Whole(b)
        /\ b.buf = <<>> /\ \A j \in Ids : TableAt(b, j) = TableAt(c, j)
        /\ 0 = 0 => b.wal = c.wal
    BY <2>2, <2>3, <2>4, ReopenedKeeps
  <2>6. QED
    BY <2>5 DEF Recovered
<1>7. ASSUME NEW n \in Nodes PROVE ctx'[n] \in Context /\ Sound(ctx'[n]) /\ Whole(ctx'[n]) /\ ctx'[n].buf = <<>>
  BY <1>4, <1>6, ReplicaFacts DEF d
<1>8. ctx' \in [Nodes -> Context]
  BY <1>1, <1>7
<1>9. /\ faults' = {} /\ health' = ReplicaSet /\ intact' = TRUE /\ skipped' = skipped
      /\ torn' = (torn \/ tear) /\ raised' = torn'
  BY DEF Restart
<1>10. ASSUME NEW n \in ReplicaSet PROVE Recovered(ctx'[n]) = Recovered(ctx[n])
  BY <1>6
<1>11. /\ Log(ctx'[Primary]) = ctx'[Primary].wal
       /\ \A j \in Ids : TableAt(ctx'[Primary], j) = TableAt(p, j)
       /\ p.buf = <<>> => ctx'[Primary].wal = p.wal
       /\ \A j \in Ids :
             \/ ctx'[Primary].wal[j] = p.wal[j]
             \/ \E m \in DOMAIN p.buf : p.buf[m].id = j /\ p.buf[m].cell = ctx'[Primary].wal[j]
  BY <1>4, <1>5 DEF d
<1>12. QED
  BY <1>7, <1>8, <1>9, <1>10, <1>11

-----------------------------------------------------------------------------
(* Types, and the contexts in agreement with their logs *)

\* Initially the contexts are empty and consistent.
LEMMA InitHeld == Init => TypeOK /\ HeldInv
<1> SUFFICES ASSUME Init PROVE TypeOK /\ HeldInv
  OBVIOUS
<1>1. /\ EmptyContext \in Context /\ Sound(EmptyContext) /\ Whole(EmptyContext)
      /\ EmptyContext.buf = <<>>
  BY EmptyIsWhole
<1>2. /\ NoRequest \in Request /\ NoRequest.phase = "none" /\ NoRequest.pending = <<>>
  BY NoRequestTyped
<1>3. ctx \in [Nodes -> Context] /\ \A n \in Nodes : ctx[n] = EmptyContext
  BY <1>1 DEF Init
<1>4. TypeOK
  BY <1>2, <1>3 DEF Init, TypeOK
<1>5. HeldInv
  BY <1>1, <1>2, <1>3, ReplicaFacts DEF Init, HeldInv, Idle
<1>6. QED
  BY <1>4, <1>5

\* A write of the primary keeps types and HeldInv.
LEMMA WroteHeld ==
    ASSUME TypeOK, HeldInv, NEW e \in Entry, PrimaryWrote(e), Replicate(e),
           req.phase = "open", Whole(ctx[Primary]) => Whole(ctx'[Primary]),
           UNCHANGED <<faults, health, intact, missed, skipped, torn, raised>>
    PROVE  TypeOK' /\ HeldInv'
<1>1. /\ req' \in Request /\ req'.phase = "open"
      /\ req'.wrote = Append(req.wrote, e)
  BY ReplicateFields
<1>2. req.wrote \in Seq(Entry)
  BY RequestTypes DEF TypeOK
<1>3. req'.wrote # <<>>
  BY <1>1, <1>2
<1>4. TypeOK'
  BY <1>1 DEF TypeOK, PrimaryWrote
<1>5. ASSUME NEW n \in Nodes PROVE Sound(ctx'[n])
  BY <1>5, ReplicaFacts DEF PrimaryWrote, HeldInv
<1>6. ASSUME NEW n \in ReplicaSet PROVE Whole(ctx'[n]) /\ ctx'[n].buf = <<>>
  BY DEF PrimaryWrote, HeldInv
<1>7. intact' => Whole(ctx'[Primary])
  BY DEF HeldInv
<1>8. ctx'[Primary].buf = req'.wrote
  BY <1>1 DEF PrimaryWrote
<1>9. QED
  BY <1>1, <1>3, <1>4, <1>5, <1>6, <1>7, <1>8 DEF HeldInv, Idle

\* A request's start keeps types and HeldInv.
LEMMA BeginHeld ==
    ASSUME TypeOK, HeldInv, NEW kind \in Kind, NEW md \in Mds \cup {None},
           NEW todo \in SUBSET Ids, Begin(kind, md, todo)
    PROVE  TypeOK' /\ HeldInv'
<1>1. /\ req' \in Request
      /\ req'.phase = "open" /\ req'.wrote = <<>> /\ req'.pending = <<>>
      /\ Idle
      /\ UNCHANGED <<ctx, faults, health, intact, missed, skipped, torn, raised>>
  BY BeginFields
<1>2. TypeOK'
  BY <1>1 DEF TypeOK
<1>3. QED
  BY <1>1, <1>2 DEF HeldInv, Idle

\* A failed SSTable write keeps types and HeldInv, and fails the request.
LEMMA FlushFailsHeld ==
    ASSUME TypeOK, HeldInv, NEW i \in Ids, NEW r \in Records,
           NEW S \in SUBSET Ids, NEW tear \in BOOLEAN, UpsertFlushFails(i, r, S, tear)
    PROVE  /\ TypeOK' /\ HeldInv'
           /\ req'.phase = "open" /\ req'.wrote = Append(req.wrote, [id |-> i, cell |-> r])
           /\ req'.pending = <<>> /\ req'.ok = FALSE /\ req'.kind = req.kind
           /\ req.pending = <<>>
<1> DEFINE e == [id |-> i, cell |-> r]
           W == Append(req.wrote, e)
<1>1. e \in Entry /\ req \in Request
  BY DEF Entry, TypeOK
<1>2. PrimaryWrote(e)
  BY FlushFailsStep
<1> HIDE DEF e
<1>3. W \in Seq(Entry) /\ W # <<>>
  <2>1. req.wrote \in Seq(Entry)
    BY <1>1, RequestTypes
  <2>2. QED
    BY <1>1, <2>1, AppendFacts
<1>4. /\ req' = [req EXCEPT !.wrote = W, !.ok = FALSE]
      /\ intact' = FALSE
      /\ missed' = [n \in ReplicaSet |-> missed[n] \cup {i}]
      /\ torn' = (torn \/ tear) /\ UNCHANGED <<faults, health, skipped, raised>>
      /\ req.phase = "open" /\ req.kind = "upsert" /\ req.pending = <<>>
  BY DEF UpsertFlushFails, NextRecord, e
<1> HIDE DEF W
<1>5. /\ req' \in Request
      /\ req'.phase = "open" /\ req'.wrote = W /\ req'.pending = <<>> /\ req'.ok = FALSE
      /\ req'.kind = req.kind
  BY <1>1, <1>3, <1>4 DEF Request
<1>6. missed' \in [ReplicaSet -> SUBSET Ids]
  BY <1>4 DEF TypeOK
<1>7. TypeOK'
  BY <1>2, <1>4, <1>5, <1>6 DEF TypeOK, PrimaryWrote
<1>8. ASSUME NEW n \in Nodes PROVE Sound(ctx'[n])
  BY <1>2, <1>8, ReplicaFacts DEF PrimaryWrote, HeldInv
<1>9. ASSUME NEW n \in ReplicaSet PROVE Whole(ctx'[n]) /\ ctx'[n].buf = <<>>
  BY <1>2 DEF PrimaryWrote, HeldInv
<1>10. ctx'[Primary].buf = req'.wrote
  BY <1>2, <1>5 DEF PrimaryWrote, W
<1>11. HeldInv'
  BY <1>4, <1>5, <1>8, <1>9, <1>10 DEF HeldInv, Idle
<1>12. QED
  BY <1>4, <1>5, <1>7, <1>11 DEF W, e

\* A delivery keeps types and HeldInv.
LEMMA DeliverHeld ==
    ASSUME TypeOK, HeldInv, Deliver
    PROVE  TypeOK' /\ HeldInv'
<1> DEFINE n == Head(req.pending)
           e == Last(req.wrote)
<1>0. n = Head(req.pending) /\ e = Last(req.wrote)
  OBVIOUS
<1> HIDE DEF n, e
<1>1. /\ req.pending # <<>>
      /\ ctx' \in [Nodes -> Context]
      /\ \A m \in Nodes \ {n} : ctx'[m] = ctx[m]
      /\ req' \in Request
      /\ req'.phase = req.phase /\ req'.wrote = req.wrote
      /\ Delivered(n, e) \/ Dropped(n, e)
      /\ UNCHANGED <<faults, intact, torn, raised>>
  BY <1>0, DeliverStep
<1>2. n \in ReplicaSet /\ e.id \in Ids /\ req.phase = "open" /\ req.wrote # <<>>
  BY <1>0, <1>1, PendingFacts DEF Entry
<1>3. /\ health' \subseteq ReplicaSet
      /\ missed' \in [ReplicaSet -> SUBSET Ids] /\ skipped' \in [ReplicaSet -> SUBSET Ids]
  <2>1. CASE Delivered(n, e)
    BY <1>2, <2>1 DEF Delivered, TypeOK
  <2>2. CASE Dropped(n, e)
    BY <1>2, <2>2 DEF Dropped, TypeOK
  <2>3. QED
    BY <1>1, <2>1, <2>2
<1>4. TypeOK'
  BY <1>1, <1>3 DEF TypeOK
<1>5. ctx'[Primary] = ctx[Primary]
  BY <1>1, <1>2, ReplicaFacts
<1>6. ASSUME NEW m \in ReplicaSet PROVE Sound(ctx'[m]) /\ Whole(ctx'[m]) /\ ctx'[m].buf = <<>>
  <2>1. CASE m = n /\ Delivered(n, e)
    BY <2>1 DEF Delivered
  <2>2. CASE ctx'[m] = ctx[m]
    BY <2>2, ReplicaFacts DEF HeldInv
  <2>3. QED
    BY <1>1, <2>1, <2>2, ReplicaFacts DEF Dropped
<1>7. HeldInv'
  BY <1>1, <1>2, <1>5, <1>6, ReplicaFacts DEF HeldInv, Idle
<1>8. QED
  BY <1>4, <1>7

\* The flush and the answer at the end keep types and HeldInv.
LEMMA FinishHeld ==
    ASSUME TypeOK, HeldInv, Finish
    PROVE  TypeOK' /\ HeldInv'
<1>1. /\ ctx' \in [Nodes -> Context]
      /\ \A n \in ReplicaSet : ctx'[n] = ctx[n]
      /\ Sound(ctx'[Primary])
      /\ Whole(ctx[Primary]) => Whole(ctx'[Primary])
      /\ ctx'[Primary].buf = <<>>
      /\ req' \in Request
      /\ req'.phase \in {"success", "failure"} /\ req'.pending = <<>>
  BY FinishStep
<1>2. UNCHANGED <<faults, health, intact, missed, skipped, torn, raised>>
  BY DEF Finish
<1>3. TypeOK'
  BY <1>1, <1>2 DEF TypeOK
<1>4. ASSUME NEW n \in Nodes PROVE Sound(ctx'[n])
  BY <1>1, <1>4, ReplicaFacts DEF HeldInv
<1>5. HeldInv'
  BY <1>1, <1>2, <1>4 DEF HeldInv, Idle
<1>6. QED
  BY <1>3, <1>5

\* A restart from sound files keeps types and HeldInv.
LEMMA RestartHeld ==
    ASSUME TypeOK, HeldInv, NEW p \in Context, Sound(p), NEW tear \in BOOLEAN,
           Restart(p, tear),
           req' \in Request, req'.phase # "open", req'.pending = <<>>,
           missed' \in [ReplicaSet -> SUBSET Ids]
    PROVE  TypeOK' /\ HeldInv'
<1>1. /\ ctx' \in [Nodes -> Context]
      /\ \A n \in Nodes : Sound(ctx'[n]) /\ Whole(ctx'[n]) /\ ctx'[n].buf = <<>>
      /\ faults' = {} /\ health' = ReplicaSet /\ intact' = TRUE /\ skipped' = skipped
  BY RestartStep
<1>0. torn' \in BOOLEAN /\ raised' \in BOOLEAN
  BY DEF Restart, TypeOK
<1>2. TypeOK'
  BY <1>0, <1>1 DEF TypeOK
<1>3. HeldInv'
  BY <1>1, ReplicaFacts DEF HeldInv, Idle
<1>4. QED
  BY <1>2, <1>3

\* The ids of an open request's writes.
LEMMA WroteIdsTyped ==
    ASSUME TypeOK
    PROVE  /\ WroteIds \subseteq Ids
           /\ \A k \in DOMAIN req.wrote : req.wrote[k].id \in WroteIds
           /\ \A i \in WroteIds : \E k \in DOMAIN req.wrote : req.wrote[k].id = i
           /\ req.wrote # <<>> => Last(req.wrote).id \in WroteIds
<1>1. req.wrote \in Seq(Entry)
  BY RequestTypes DEF TypeOK
<1>2. \A k \in DOMAIN req.wrote : req.wrote[k].id \in Ids
  BY <1>1, EntryCells
<1>3. /\ \A k \in DOMAIN req.wrote : req.wrote[k].id \in WroteIds
      /\ \A i \in WroteIds : \E k \in DOMAIN req.wrote : req.wrote[k].id = i
  BY DEF WroteIds, ToSet
<1>4. req.wrote # <<>> => Len(req.wrote) \in DOMAIN req.wrote
  BY <1>1
<1>5. QED
  BY <1>2, <1>3, <1>4 DEF Last

\* A crash between two steps keeps types and HeldInv.
LEMMA CrashHeld ==
    ASSUME TypeOK, HeldInv, CrashRestart
    PROVE  TypeOK' /\ HeldInv'
<1>1. ctx[Primary] \in Context /\ Sound(ctx[Primary])
  BY ReplicaFacts DEF TypeOK, HeldInv
<1>2. req' \in Request /\ req'.phase # "open" /\ req'.pending = <<>>
  BY NoRequestTyped DEF CrashRestart, Idle, TypeOK, HeldInv
<1>3. missed' \in [ReplicaSet -> SUBSET Ids]
  BY WroteIdsTyped DEF CrashRestart, TypeOK
<1>4. QED
  BY <1>1, <1>2, <1>3, RestartHeld DEF CrashRestart

\* A crash while an SSTable is written keeps types and HeldInv.
LEMMA CrashInFlushHeld ==
    ASSUME TypeOK, HeldInv, NEW i \in Ids, NEW r \in Records, NEW S \in SUBSET Ids,
           NEW tear \in BOOLEAN, CrashInFlush(i, r, S, tear)
    PROVE  TypeOK' /\ HeldInv'
<1> DEFINE c == ctx[Primary]
           p == FlushCut(Buffered(c, i, r), S)
<1>1. c \in Context /\ Sound(c)
  BY ReplicaFacts DEF TypeOK, HeldInv
<1>2. /\ Restart(p, tear) /\ p = FlushCut(Buffered(c, i, r), S)
      /\ \A j \in S : Buffered(c, i, r).mem[j] # None
  BY DEF CrashInFlush, CutOff
<1> HIDE DEF c, p
<1>3. p \in Context /\ Sound(p)
  BY <1>1, <1>2, TornFlush
<1>4. req' \in Request /\ req'.phase # "open" /\ req'.pending = <<>>
  BY NoRequestTyped DEF CrashInFlush
<1>5. missed' \in [ReplicaSet -> SUBSET Ids]
  BY WroteIdsTyped DEF CrashInFlush, TypeOK
<1>6. QED
  BY <1>2, <1>3, <1>4, <1>5, RestartHeld

\* A filter selects ids.
LEMMA FilterIds ==
    ASSUME NEW c, NEW md
    PROVE  {i \in Ids : FilterMatches(c, i, md)} \in SUBSET Ids
OBVIOUS

\* Every step keeps types and HeldInv.
LEMMA NextHeld == TypeOK /\ HeldInv /\ [Next]_vars => TypeOK' /\ HeldInv'
<1> SUFFICES ASSUME TypeOK, HeldInv, [Next]_vars PROVE TypeOK' /\ HeldInv'
  OBVIOUS
<1>1. CASE BeginUpsert \/ BeginDelete
  <2>1. PICK kind \in Kind : Begin(kind, None, {})
    BY <1>1 DEF BeginUpsert, BeginDelete, Kind
  <2>2. None \in Mds \cup {None} /\ {} \in SUBSET Ids
    OBVIOUS
  <2>3. QED
    BY <2>1, <2>2, BeginHeld
<1>2. ASSUME NEW md \in Mds, BeginFilter(md) PROVE TypeOK' /\ HeldInv'
  BY <1>2, BeginHeld, FilterIds DEF BeginFilter, Kind
<1>3. ASSUME NEW i \in Ids, NEW r \in Records, Upsert(i, r) PROVE TypeOK' /\ HeldInv'
  <2> DEFINE e == [id |-> i, cell |-> r]
  <2>1. e \in Entry /\ Replicate(e) /\ req.phase = "open"
    BY <1>3 DEF Entry, Upsert, NextRecord
  <2>2. PrimaryWrote(e) /\ (Whole(ctx[Primary]) => Whole(ctx'[Primary]))
    BY <1>3, UpsertStep
  <2> HIDE DEF e
  <2>3. QED
    BY <1>3, <2>1, <2>2, WroteHeld DEF Upsert
<1>4. ASSUME NEW i \in Ids, NEW r \in Records,
             NEW S \in SUBSET Ids, NEW tear \in BOOLEAN, UpsertFlushFails(i, r, S, tear)
      PROVE TypeOK' /\ HeldInv'
  BY <1>4, FlushFailsHeld
<1>5. ASSUME NEW i \in Ids, Delete(i) PROVE TypeOK' /\ HeldInv'
  <2> DEFINE e == [id |-> i, cell |-> Gone]
  <2>1. e \in Entry /\ Replicate(e) /\ req.phase = "open"
    BY <1>5 DEF Entry, Delete, NextRecord
  <2>2. PrimaryWrote(e) /\ (Whole(ctx[Primary]) => Whole(ctx'[Primary]))
    BY <1>5, DeleteStep
  <2> HIDE DEF e
  <2>3. QED
    BY <1>5, <2>1, <2>2, WroteHeld DEF Delete
<1>6. CASE Deliver
  BY <1>6, DeliverHeld
<1>7. CASE Finish
  BY <1>7, FinishHeld
<1>8. ASSUME NEW n \in ReplicaSet, FailNode(n) \/ HealNode(n) PROVE TypeOK' /\ HeldInv'
  <2>1. UNCHANGED <<ctx, req, health, intact, missed, skipped, torn, raised>> /\ faults' \subseteq ReplicaSet
    BY <1>8 DEF FailNode, HealNode, TypeOK
  <2>2. QED
    BY <2>1 DEF TypeOK, HeldInv, Idle
<1>9. CASE CrashRestart
  BY <1>9, CrashHeld
<1>10. ASSUME NEW i \in Ids, NEW r \in Records, NEW S \in SUBSET Ids,
              NEW tear \in BOOLEAN, CrashInFlush(i, r, S, tear)
       PROVE  TypeOK' /\ HeldInv'
  BY <1>10, CrashInFlushHeld
<1>11. CASE UNCHANGED vars
  BY <1>11 DEF vars, TypeOK, HeldInv, Idle
<1>12. QED
  BY <1>1, <1>2, <1>3, <1>4, <1>5, <1>6, <1>7, <1>8, <1>9, <1>10, <1>11 DEF Next

\* The variables keep their types: every context, the running request and the
\* history of deliveries.
THEOREM TypeCorrect == Spec => []TypeOK
BY InitHeld, NextHeld, PTL DEF Spec

\* Types and HeldInv hold always: every context is what its own log and SSTables make of it.
THEOREM ContextsHold == Spec => [](TypeOK /\ HeldInv)
BY InitHeld, NextHeld, PTL DEF Spec

-----------------------------------------------------------------------------
(* Reads between requests *)

\* Between requests, and unless a MemTable flush of this process failed, a
\* read of the primary returns what a restart would bring back: MemTable,
\* tombstones and SSTables together say what the log and the SSTables say.
THEOREM ReadsAreDurable == Spec => []LiveMatchesDurable
<1>1. TypeOK /\ HeldInv => LiveMatchesDurable
  <2> SUFFICES ASSUME TypeOK, HeldInv, Idle, intact, NEW i \in Ids,
                      NEW c, c = ctx[Primary]
               PROVE  Alike(Fetch(c, i), Recovered(c)[i])
    BY DEF LiveMatchesDurable
  <2>1. c \in Context /\ SoundAt(c, i) /\ StoredAt(c, i) /\ c.buf = <<>>
    BY ReplicaFacts DEF TypeOK, HeldInv, Sound, Whole
  <2>2. Alike(Fetch(c, i), Final(c, i))
    BY <2>1, FetchIsFinal
  <2>3. QED
    BY <2>1, <2>2, FlushedLogIsFinal
<1>2. QED
  BY <1>1, ContextsHold, PTL

\* Between requests a query finds an id if and only if a fetch does, with the
\* fetched vector as its newest (a deleted id may stay searchable with native
\* HNSW), unless a MemTable flush of this process failed.
THEOREM IndexIsCurrent == Spec => []IndexMatchesFetch
<1>1. TypeOK /\ HeldInv => IndexMatchesFetch
  <2> SUFFICES ASSUME TypeOK, HeldInv, Idle, intact, NEW i \in Ids,
                      NEW c, c = ctx[Primary]
               PROVE  /\ Alike(c.idx[i].cur, Fetch(c, i))
                      /\ ~Native => (Searchable(c, i) <=> Fetch(c, i) # None)
    BY DEF IndexMatchesFetch
  <2>1. SoundAt(c, i) /\ IndexedAt(c, i)
    BY ReplicaFacts DEF HeldInv, Sound, Whole
  <2>2. Alike(c.idx[i].cur, Fetch(c, i))
    BY <2>1 DEF IndexedAt
  <2>3. c.idx[i].cur = None <=> Fetch(c, i) = None
    BY <2>2, AlikeNone
  <2>4. QED
    BY <2>1, <2>2, <2>3 DEF SoundAt, Searchable
<1>2. QED
  BY <1>1, ContextsHold, PTL

-----------------------------------------------------------------------------
(* Deletes by filter *)

\* A filter sees the metadata of the record a fetch returns.
LEMMA FetchIsScanned ==
    ASSUME NEW c \in Context, NEW i \in Ids, SoundAt(c, i), Fetch(c, i) # None
    PROVE  Fetch(c, i).md \in ScanAll(c, i)
<1>1. CASE c.mem[i] # None
  <2>1. Fetch(c, i) = c.mem[i]
    BY <1>1 DEF Fetch, SegGet
  <2>2. QED
    BY <1>1, <2>1 DEF ScanAll
<1>2. CASE c.mem[i] = None
  <2>1. Fetch(c, i) = c.sst[i]
    BY <1>2 DEF Fetch, SegGet
  <2>2. QED
    BY <2>1 DEF ScanAll, SoundAt
<1>3. QED
  BY <1>1, <1>2

\* Every step keeps FilterInv: what a delete by filter is done with cannot match.
LEMMA NextFilter ==
    ASSUME TypeOK, HeldInv, FilterInv, [Next]_vars PROVE FilterInv'
<1>1. CASE BeginUpsert \/ BeginDelete
  <2>1. req'.kind # "filter"
    BY <1>1, BeginFields DEF BeginUpsert, BeginDelete, Kind
  <2>2. QED
    BY <2>1 DEF FilterInv
<1>2. ASSUME NEW md \in Mds, BeginFilter(md) PROVE FilterInv'
  <2> DEFINE c == ctx[Primary]
             T == {i \in Ids : FilterMatches(c, i, md)}
  <2>1. req'.md = md /\ req'.todo = T /\ ctx' = ctx
    BY <1>2, BeginFields, FilterIds DEF BeginFilter, Kind
  <2>2. ASSUME NEW i \in Ids \ T, Fetch(c, i) # None PROVE Fetch(c, i).md # md
    <3>1. c \in Context /\ SoundAt(c, i)
      BY ReplicaFacts DEF TypeOK, HeldInv, Sound
    <3>2. Fetch(c, i).md \in ScanAll(c, i)
      BY <2>2, <3>1, FetchIsScanned
    <3>3. QED
      BY <2>2, <3>2 DEF FilterMatches
  <2> HIDE DEF T
  <2>3. QED
    BY <2>1, <2>2 DEF FilterInv
<1>3. ASSUME NEW i \in Ids, NEW r \in Records, Upsert(i, r) PROVE FilterInv'
  <2>1. [id |-> i, cell |-> r] \in Entry
    BY DEF Entry
  <2>2. req'.kind = req.kind /\ req.kind = "upsert"
    BY <1>3, <2>1, ReplicateFields DEF Upsert, NextRecord
  <2>3. QED
    BY <2>2 DEF FilterInv
<1>4. ASSUME NEW i \in Ids, NEW r \in Records,
             NEW S \in SUBSET Ids, NEW tear \in BOOLEAN, UpsertFlushFails(i, r, S, tear)
      PROVE FilterInv'
  <2>1. req'.kind = req.kind /\ req.kind = "upsert"
    BY <1>4, FlushFailsHeld DEF UpsertFlushFails, NextRecord
  <2>2. QED
    BY <2>1 DEF FilterInv
<1>5. ASSUME NEW i \in Ids, Delete(i) PROVE FilterInv'
  <2> DEFINE e == [id |-> i, cell |-> Gone]
  <2>1. e \in Entry /\ e.id = i /\ Replicate(e)
    BY <1>5 DEF Entry, Delete
  <2> HIDE DEF e
  <2>2. /\ req'.phase = req.phase /\ req'.kind = req.kind /\ req'.md = req.md
        /\ req'.todo = req.todo \ {i}
    BY <2>1, ReplicateFields
  <2>3. /\ Fetch(ctx'[Primary], i) = None
        /\ \A j \in Ids \ {i} : Fetch(ctx'[Primary], j) = Fetch(ctx[Primary], j)
    BY <1>5, DeleteStep
  <2>4. QED
    BY <2>2, <2>3 DEF FilterInv
<1>6. CASE Deliver
  <2> DEFINE n == Head(req.pending)
             e == Last(req.wrote)
  <2>0. n = Head(req.pending) /\ e = Last(req.wrote)
    OBVIOUS
  <2> HIDE DEF n, e
  <2>1. /\ req.pending # <<>>
        /\ \A m \in Nodes \ {n} : ctx'[m] = ctx[m]
        /\ req'.phase = req.phase /\ req'.kind = req.kind /\ req'.md = req.md
        /\ req'.todo = req.todo
    BY <1>6, <2>0, DeliverStep
  <2>2. ctx'[Primary] = ctx[Primary]
    BY <2>0, <2>1, PendingFacts, ReplicaFacts
  <2>3. QED
    BY <2>1, <2>2 DEF FilterInv
<1>7. CASE Finish
  BY <1>7, FinishStep DEF FilterInv
<1>8. ASSUME NEW n \in ReplicaSet, FailNode(n) \/ HealNode(n) PROVE FilterInv'
  BY <1>8 DEF FailNode, HealNode, FilterInv
<1>9. CASE CrashRestart
  BY <1>9, NoRequestTyped DEF CrashRestart, FilterInv, Idle
<1>10. ASSUME NEW i \in Ids, NEW r \in Records, NEW S \in SUBSET Ids,
              NEW tear \in BOOLEAN, CrashInFlush(i, r, S, tear)
       PROVE  FilterInv'
  BY <1>10, NoRequestTyped DEF CrashInFlush, FilterInv
<1>11. CASE UNCHANGED vars
  BY <1>11 DEF vars, FilterInv
<1>12. QED
  BY <1>1, <1>2, <1>3, <1>4, <1>5, <1>6, <1>7, <1>8, <1>9, <1>10, <1>11 DEF Next

\* A request is answered by Finish alone.
LEMMA AnsweredByFinish ==
    ASSUME TypeOK, HeldInv, [Next]_vars,
           req.phase = "open", req'.phase \in {"success", "failure"}
    PROVE  Finish
<1>1. ~(BeginUpsert \/ BeginDelete \/ \E md \in Mds : BeginFilter(md))
  BY DEF BeginUpsert, BeginDelete, BeginFilter, Begin, Idle
<1>2. ASSUME NEW i \in Ids, NEW r \in Records, Upsert(i, r) PROVE FALSE
  <2>1. [id |-> i, cell |-> r] \in Entry
    BY DEF Entry
  <2>2. QED
    BY <1>2, <2>1, ReplicateFields DEF Upsert
<1>3. ASSUME NEW i \in Ids, NEW r \in Records,
             NEW S \in SUBSET Ids, NEW tear \in BOOLEAN, UpsertFlushFails(i, r, S, tear)
      PROVE FALSE
  BY <1>3, FlushFailsHeld
<1>4. ASSUME NEW i \in Ids, Delete(i) PROVE FALSE
  <2>1. [id |-> i, cell |-> Gone] \in Entry
    BY DEF Entry
  <2>2. QED
    BY <1>4, <2>1, ReplicateFields DEF Delete
<1>5. ASSUME Deliver PROVE FALSE
  <2> DEFINE n == Head(req.pending)
             e == Last(req.wrote)
  <2>0. n = Head(req.pending) /\ e = Last(req.wrote)
    OBVIOUS
  <2> HIDE DEF n, e
  <2>1. req'.phase = req.phase
    BY <1>5, <2>0, DeliverStep
  <2>2. QED
    BY <2>1
<1>6. ASSUME NEW n \in ReplicaSet, FailNode(n) \/ HealNode(n) PROVE FALSE
  BY <1>6 DEF FailNode, HealNode, Idle
<1>7. ~CrashRestart
  BY NoRequestTyped DEF CrashRestart, Idle
<1>8. ASSUME NEW i \in Ids, NEW r \in Records, NEW S \in SUBSET Ids,
             NEW tear \in BOOLEAN, CrashInFlush(i, r, S, tear)
      PROVE  FALSE
  BY <1>8, NoRequestTyped DEF CrashInFlush
<1>9. ~UNCHANGED vars
  BY DEF vars
<1>10. QED
  BY <1>1, <1>2, <1>3, <1>4, <1>5, <1>6, <1>7, <1>8, <1>9 DEF Next

\* When a delete by filter is answered, nothing it matches can be fetched any
\* more: the scan sees every copy a fetch could return, and what is deleted
\* stays deleted while the request runs.
THEOREM FiltersAreComplete == Spec => FilterLeavesNoMatch
<1>1. Init => FilterInv
  BY NoRequestTyped DEF Init, FilterInv
<1>2. Spec => []FilterInv
  <2>1. TypeOK /\ HeldInv /\ FilterInv /\ [Next]_vars => FilterInv'
    BY NextFilter
  <2>2. QED
    BY <1>1, <2>1, ContextsHold, PTL DEF Spec
<1>3. TypeOK /\ HeldInv /\ FilterInv /\ [Next]_vars
      => [req.phase = "open" /\ req.kind = "filter" /\ req'.phase \in {"success", "failure"} /\ intact
          => \A i \in Ids : Fetch(ctx[Primary]', i) # None => Fetch(ctx[Primary]', i).md # req.md]_vars
  <2> SUFFICES ASSUME TypeOK, HeldInv, FilterInv, [Next]_vars,
                      req.phase = "open", req.kind = "filter",
                      req'.phase \in {"success", "failure"}, NEW i \in Ids,
                      Fetch(ctx'[Primary], i) # None
               PROVE  Fetch(ctx'[Primary], i).md # req.md
    BY DEF vars
  <2>1. Finish
    BY AnsweredByFinish
  <2>2. Fetch(ctx'[Primary], i) = Fetch(ctx[Primary], i) /\ req.todo = {}
    BY <2>1, FinishStep
  <2>3. QED
    BY <2>2 DEF FilterInv
<1>4. QED
  BY <1>2, <1>3, ContextsHold, PTL DEF Spec, FilterLeavesNoMatch

-----------------------------------------------------------------------------
(* Replicas *)

\* The last entry decides the cell of its id.
LEMMA LastWins ==
    ASSUME NEW f \in Logs, NEW s \in Seq(Entry), s # <<>>
    PROVE  Overlay(f, s)[Last(s).id] = Last(s).cell
<1>1. Len(s) \in Nat /\ Len(s) \in DOMAIN s /\ DOMAIN s = 1..Len(s)
  BY DEF Last
<1>2. Last(s) = s[Len(s)] /\ Last(s).id \in Ids
  BY <1>1, EntryCells DEF Last
<1> DEFINE i == Last(s).id
<1>3. Len(s) \in Positions(s, i) /\ Positions(s, i) \subseteq 1..Len(s)
  BY <1>1, <1>2 DEF Positions
<1>4. LastOf(s, i) \in 1..Len(s) /\ Len(s) <= LastOf(s, i)
  BY <1>3, LastExists
<1>5. LastOf(s, i) = Len(s)
  BY <1>1, <1>4
<1>6. QED
  BY <1>2, <1>3, <1>5, OverlayShape

\* The primary's last value of an id it wrote in the running request.
LEMMA PendingFinal ==
    ASSUME TypeOK, HeldInv, req.pending # <<>>
    PROVE  Final(ctx[Primary], Last(req.wrote).id) = Resolve(Last(req.wrote).cell, None)
<1> DEFINE c == ctx[Primary]
           e == Last(req.wrote)
<1>1. req.phase = "open" /\ req.wrote # <<>> /\ e \in Entry
  BY PendingFacts
<1>2. c \in Context /\ c.buf = req.wrote
  BY <1>1, OpenPrimary
<1>3. c.wal \in Logs /\ req.wrote \in Seq(Entry)
  BY <1>2, FieldTypes
<1>4. Log(c)[e.id] = e.cell
  BY <1>1, <1>2, <1>3, LastWins DEF Log
<1>5. e.cell # None
  BY <1>1, RecordsAssumption DEF Entry
<1>6. QED
  BY <1>4, <1>5 DEF Final, Resolve

\* Initially all nodes agree.
LEMMA InitAgree == Init => AgreeInv
<1> SUFFICES ASSUME Init PROVE AgreeInv
  OBVIOUS
<1>1. \A n \in Nodes : ctx[n] = EmptyContext
  BY DEF Init
<1>2. QED
  BY <1>1, EmptyIsWhole, ReplicaFacts DEF AgreeInv

\* A write of the primary is on its way to every replica that will agree on it.
LEMMA WroteAgree ==
    ASSUME TypeOK, AgreeInv, NEW e \in Entry, PrimaryWrote(e), Replicate(e),
           req.pending = <<>>, UNCHANGED <<missed, skipped>>
    PROVE  AgreeInv'
<1>1. req'.pending = Replicas /\ req'.wrote = Append(req.wrote, e)
  BY ReplicateFields
<1>2. Last(req'.wrote) = e
  BY <1>1, RequestTypes, AppendFacts DEF TypeOK
<1>3. \A n \in ReplicaSet : n \in ToSet(req'.pending)
  BY <1>1, ReplicaFacts
<1>4. \A n : n \notin ToSet(req.pending)
  BY DEF ToSet
<1>5. ASSUME NEW n \in ReplicaSet, NEW i \in Ids \ (missed[n] \cup skipped[n])
      PROVE  \/ n \in ToSet(req'.pending) /\ i = Last(req'.wrote).id
             \/ Recovered(ctx'[n])[i] = Final(ctx'[Primary], i)
  <2>1. CASE i = e.id
    BY <1>2, <1>3, <2>1
  <2>2. CASE i # e.id
    <3>1. Recovered(ctx[n])[i] = Final(ctx[Primary], i)
      BY <1>4 DEF AgreeInv, OnItsWay
    <3>2. QED
      BY <2>2, <3>1 DEF PrimaryWrote
  <2>3. QED
    BY <2>1, <2>2
<1>6. QED
  BY <1>5 DEF AgreeInv, OnItsWay

\* A record that is not replicated is noted as missed by every replica.
LEMMA FlushFailsAgree ==
    ASSUME TypeOK, HeldInv, AgreeInv, NEW i \in Ids, NEW r \in Records,
           NEW S \in SUBSET Ids, NEW tear \in BOOLEAN, UpsertFlushFails(i, r, S, tear)
    PROVE  AgreeInv'
<1> DEFINE e == [id |-> i, cell |-> r]
<1>1. e.id = i /\ PrimaryWrote(e)
  BY FlushFailsStep
<1> HIDE DEF e
<1>2. /\ missed' = [n \in ReplicaSet |-> missed[n] \cup {i}]
      /\ skipped' = skipped /\ req.pending = <<>>
  BY DEF UpsertFlushFails, NextRecord
<1>3. \A n : n \notin ToSet(req.pending)
  BY <1>2 DEF ToSet
<1>4. ASSUME NEW n \in ReplicaSet, NEW j \in Ids \ (missed'[n] \cup skipped'[n])
      PROVE  Recovered(ctx'[n])[j] = Final(ctx'[Primary], j)
  <2>1. j # i /\ j \in Ids \ (missed[n] \cup skipped[n])
    BY <1>2
  <2>2. Recovered(ctx[n])[j] = Final(ctx[Primary], j)
    BY <1>3, <2>1 DEF AgreeInv, OnItsWay
  <2>3. QED
    BY <1>1, <2>1, <2>2 DEF PrimaryWrote
<1>5. QED
  BY <1>4 DEF AgreeInv

\* A delivered record is on the replica as on the primary, a dropped one noted as missed.
LEMMA DeliverAgree ==
    ASSUME TypeOK, HeldInv, AgreeInv, Deliver
    PROVE  AgreeInv'
<1> DEFINE n == Head(req.pending)
           e == Last(req.wrote)
<1>0. n = Head(req.pending) /\ e = Last(req.wrote)
  OBVIOUS
<1> HIDE DEF n, e
<1>1. /\ req.pending # <<>>
      /\ \A m \in Nodes \ {n} : ctx'[m] = ctx[m]
      /\ req'.wrote = req.wrote
      /\ req'.pending = Tail(req.pending)
      /\ Delivered(n, e) \/ Dropped(n, e)
  BY <1>0, DeliverStep
<1>2. /\ n \in ReplicaSet /\ e \in Entry /\ e.id \in Ids
      /\ \A m \in ToSet(req.pending) : m = n \/ m \in ToSet(req'.pending)
  BY <1>0, <1>1, PendingFacts DEF Entry
<1>3. ctx'[Primary] = ctx[Primary]
  BY <1>1, <1>2, ReplicaFacts
<1>4. missed \in [ReplicaSet -> SUBSET Ids] /\ skipped \in [ReplicaSet -> SUBSET Ids]
  BY DEF TypeOK
<1>5. \A m \in ReplicaSet \ {n} : missed'[m] = missed[m] /\ skipped'[m] = skipped[m] /\ ctx'[m] = ctx[m]
  BY <1>1, <1>2, <1>4, ReplicaFacts DEF Delivered, Dropped
<1>6. ASSUME NEW m \in ReplicaSet, NEW i \in Ids \ (missed'[m] \cup skipped'[m]), ~OnItsWay(m, i)'
      PROVE  Recovered(ctx'[m])[i] = Final(ctx'[Primary], i)
  <2>1. CASE m # n
    <3>1. i \in Ids \ (missed[m] \cup skipped[m]) /\ ~OnItsWay(m, i)
      BY <1>1, <1>2, <1>5, <1>6, <2>1 DEF OnItsWay
    <3>2. QED
      BY <1>3, <1>5, <2>1, <3>1 DEF AgreeInv
  <2>2. CASE m = n /\ Delivered(n, e) /\ i = e.id
    <3>1. ~Skips(ctx[n], e)
      BY <1>2, <1>4, <2>2 DEF Delivered
    <3>2. Recovered(ctx'[n])[e.id] = Resolve(e.cell, None)
      BY <2>2, <3>1 DEF Delivered
    <3>3. Final(ctx[Primary], e.id) = Resolve(e.cell, None)
      BY <1>0, <1>1, PendingFinal
    <3>4. QED
      BY <1>3, <2>2, <3>2, <3>3
  <2>3. CASE m = n /\ Delivered(n, e) /\ i # e.id
    <3>1. i \in Ids \ (missed[m] \cup skipped[m]) /\ ~OnItsWay(m, i)
      BY <1>0, <1>2, <1>4, <2>3 DEF Delivered, OnItsWay
    <3>2. Recovered(ctx[m])[i] = Final(ctx[Primary], i)
      BY <3>1 DEF AgreeInv
    <3>3. Recovered(ctx'[m])[i] = Recovered(ctx[m])[i]
      BY <2>3 DEF Delivered
    <3>4. QED
      BY <1>3, <3>2, <3>3
  <2>4. CASE m = n /\ Dropped(n, e)
    <3>1. i # e.id /\ i \in Ids \ (missed[m] \cup skipped[m])
      BY <1>2, <1>4, <2>4 DEF Dropped
    <3>2. ~OnItsWay(m, i)
      BY <1>0, <3>1 DEF OnItsWay
    <3>3. Recovered(ctx[m])[i] = Final(ctx[Primary], i)
      BY <3>1, <3>2 DEF AgreeInv
    <3>4. QED
      BY <2>4, <3>3 DEF Dropped
  <2>5. QED
    BY <1>1, <2>1, <2>2, <2>3, <2>4
<1>7. QED
  BY <1>6 DEF AgreeInv

\* A restart keeps the final value of an id that was not being written.
LEMMA RestartFinal ==
    ASSUME TypeOK, HeldInv, NEW p \in Context, Sound(p), NEW tear \in BOOLEAN,
           Restart(p, tear), NEW j \in Ids,
           \A m \in DOMAIN p.buf : p.buf[m].id # j
    PROVE  Final(ctx'[Primary], j) = Final(p, j)
<1>1. /\ Log(ctx'[Primary]) = ctx'[Primary].wal
      /\ TableAt(ctx'[Primary], j) = TableAt(p, j)
      /\ \/ ctx'[Primary].wal[j] = p.wal[j]
         \/ \E m \in DOMAIN p.buf : p.buf[m].id = j /\ p.buf[m].cell = ctx'[Primary].wal[j]
  BY RestartStep
<1>2. p.wal \in Logs /\ p.buf \in Seq(Entry)
  BY FieldTypes
<1>3. Log(p)[j] = p.wal[j]
  BY <1>2, OverlayCases DEF Log
<1>4. QED
  BY <1>1, <1>3 DEF Final

\* After a crash the writes the primary may have lost count as missed.
LEMMA CrashAgree ==
    ASSUME TypeOK, HeldInv, AgreeInv, CrashRestart
    PROVE  AgreeInv'
<1> DEFINE p == ctx[Primary]
<1>1. p \in Context /\ Sound(p) /\ Restart(p, FALSE) /\ p.buf = IF Idle THEN <<>> ELSE req.wrote
  BY ReplicaFacts DEF TypeOK, HeldInv, CrashRestart
<1>2. \A n \in ReplicaSet : Recovered(ctx'[n]) = Recovered(ctx[n])
  BY <1>1, RestartStep
<1>3. /\ skipped' = skipped
      /\ missed' = [n \in ReplicaSet |-> IF Idle THEN missed[n] ELSE missed[n] \cup WroteIds]
  BY DEF CrashRestart, Restart
<1>4. ASSUME NEW n \in ReplicaSet, NEW i \in Ids \ (missed'[n] \cup skipped'[n])
      PROVE  Recovered(ctx'[n])[i] = Final(ctx'[Primary], i)
  <2>1. i \in Ids \ (missed[n] \cup skipped[n]) /\ (~Idle => i \notin WroteIds)
    BY <1>3
  <2>2. \A m \in DOMAIN p.buf : p.buf[m].id # i
    <3>1. CASE Idle
      <4>1. DOMAIN p.buf = {}
        BY <1>1, <3>1
      <4>2. QED
        BY <4>1
    <3>2. CASE ~Idle
      BY <1>1, <2>1, <3>2, WroteIdsTyped
    <3>3. QED
      BY <3>1, <3>2
  <2>3. ~OnItsWay(n, i)
    <3>1. CASE req.pending = <<>>
      BY <3>1 DEF OnItsWay, ToSet
    <3>2. CASE req.pending # <<>>
      BY <2>1, <3>2, WroteIdsTyped DEF HeldInv, Idle, OnItsWay
    <3>3. QED
      BY <3>1, <3>2
  <2>4. Recovered(ctx[n])[i] = Final(p, i)
    BY <2>1, <2>3 DEF AgreeInv
  <2>5. Final(ctx'[Primary], i) = Final(p, i)
    BY <1>1, <2>2, RestartFinal
  <2>6. QED
    BY <1>2, <2>4, <2>5
<1>5. QED
  BY <1>4 DEF AgreeInv

\* The same when the process dies inside an SSTable.
LEMMA CrashInFlushAgree ==
    ASSUME TypeOK, HeldInv, AgreeInv, NEW i \in Ids, NEW r \in Records, NEW S \in SUBSET Ids,
           NEW tear \in BOOLEAN, CrashInFlush(i, r, S, tear)
    PROVE  AgreeInv'
<1> DEFINE c == ctx[Primary]
           e == [id |-> i, cell |-> r]
           p == FlushCut(Buffered(c, i, r), S)
<1>1. c \in Context /\ Sound(c) /\ c.buf = req.wrote /\ req.pending = <<>>
  BY OpenPrimary DEF CrashInFlush, NextRecord
<1>2. /\ Restart(p, tear) /\ p = FlushCut(Buffered(c, i, r), S)
      /\ \A j \in S : Buffered(c, i, r).mem[j] # None
      /\ e \in Entry /\ e.id = i
  BY DEF CrashInFlush, CutOff, Entry
<1>3. /\ skipped' = skipped
      /\ missed' = [n \in ReplicaSet |-> missed[n] \cup WroteIds \cup {i}]
  BY DEF CrashInFlush, Restart
<1> HIDE DEF c, p
<1>4. /\ p \in Context /\ Sound(p)
      /\ p.wal = c.wal /\ p.buf = Append(c.buf, e)
      /\ \A j \in Ids \ {i} : Final(p, j) = Final(c, j)
  BY <1>1, <1>2, TornFlush
<1> HIDE DEF e
<1>5. \A n \in ReplicaSet : Recovered(ctx'[n]) = Recovered(ctx[n])
  BY <1>2, <1>4, RestartStep
<1>6. \A n : n \notin ToSet(req.pending)
  BY <1>1 DEF ToSet
<1>7. ASSUME NEW n \in ReplicaSet, NEW j \in Ids \ (missed'[n] \cup skipped'[n])
      PROVE  Recovered(ctx'[n])[j] = Final(ctx'[Primary], j)
  <2>1. j \in Ids \ (missed[n] \cup skipped[n]) /\ j \notin WroteIds /\ j # i
    BY <1>3
  <2>2. \A m \in DOMAIN req.wrote : req.wrote[m].id # j
    BY <2>1, WroteIdsTyped
  <2>3. \A m \in DOMAIN p.buf : p.buf[m].id # j
    <3>1. TAKE m \in DOMAIN p.buf
    <3>2. req.wrote \in Seq(Entry)
      BY RequestTypes DEF TypeOK
    <3>3. /\ m \in 1..Len(req.wrote) + 1
          /\ \A k \in 1..Len(req.wrote) : p.buf[k] = req.wrote[k]
          /\ p.buf[Len(req.wrote) + 1] = e
          /\ DOMAIN req.wrote = 1..Len(req.wrote)
      BY <1>1, <1>2, <1>4, <3>2, AppendFacts
    <3>4. m \in 1..Len(req.wrote) \/ m = Len(req.wrote) + 1
      BY <3>2, <3>3
    <3>5. QED
      BY <1>2, <2>1, <2>2, <3>3, <3>4
  <2>4. Final(ctx'[Primary], j) = Final(p, j)
    BY <1>2, <1>4, <2>3, RestartFinal
  <2>5. Recovered(ctx[n])[j] = Final(c, j)
    BY <1>6, <2>1 DEF AgreeInv, OnItsWay, c
  <2>6. QED
    BY <1>4, <1>5, <2>1, <2>4, <2>5
<1>8. QED
  BY <1>7 DEF AgreeInv

\* Every step keeps AgreeInv.
LEMMA NextAgree ==
    ASSUME TypeOK, HeldInv, AgreeInv, [Next]_vars PROVE AgreeInv'
<1>1. ASSUME NEW kind \in Kind, NEW md \in Mds \cup {None}, NEW todo \in SUBSET Ids,
             Begin(kind, md, todo)
      PROVE  AgreeInv'
  <2>1. Idle /\ UNCHANGED <<ctx, missed, skipped>>
    BY <1>1 DEF Begin
  <2>2. \A n : n \notin ToSet(req.pending)
    BY <2>1 DEF HeldInv, Idle, ToSet
  <2>3. QED
    BY <2>1, <2>2 DEF AgreeInv, OnItsWay
<1>2. CASE BeginUpsert \/ BeginDelete
  BY <1>1, <1>2 DEF BeginUpsert, BeginDelete, Kind
<1>3. ASSUME NEW md \in Mds, BeginFilter(md) PROVE AgreeInv'
  BY <1>1, <1>3, FilterIds DEF BeginFilter, Kind
<1>4. ASSUME NEW i \in Ids, NEW r \in Records, Upsert(i, r) PROVE AgreeInv'
  <2> DEFINE e == [id |-> i, cell |-> r]
  <2>1. e \in Entry /\ Replicate(e) /\ req.pending = <<>> /\ UNCHANGED <<missed, skipped>>
    BY <1>4 DEF Entry, Upsert, NextRecord
  <2>2. PrimaryWrote(e)
    BY <1>4, UpsertStep
  <2> HIDE DEF e
  <2>3. QED
    BY <2>1, <2>2, WroteAgree
<1>5. ASSUME NEW i \in Ids, NEW r \in Records,
             NEW S \in SUBSET Ids, NEW tear \in BOOLEAN, UpsertFlushFails(i, r, S, tear)
      PROVE AgreeInv'
  BY <1>5, FlushFailsAgree
<1>6. ASSUME NEW i \in Ids, Delete(i) PROVE AgreeInv'
  <2> DEFINE e == [id |-> i, cell |-> Gone]
  <2>1. e \in Entry /\ Replicate(e) /\ req.pending = <<>> /\ UNCHANGED <<missed, skipped>>
    BY <1>6 DEF Entry, Delete, NextRecord
  <2>2. PrimaryWrote(e)
    BY <1>6, DeleteStep
  <2> HIDE DEF e
  <2>3. QED
    BY <2>1, <2>2, WroteAgree
<1>7. CASE Deliver
  BY <1>7, DeliverAgree
<1>8. CASE Finish
  <2>1. /\ \A n \in ReplicaSet : ctx'[n] = ctx[n]
        /\ \A j \in Ids : Final(ctx'[Primary], j) = Final(ctx[Primary], j)
        /\ req.pending = <<>>
    BY <1>8, FinishStep
  <2>2. UNCHANGED <<missed, skipped>>
    BY <1>8 DEF Finish
  <2>3. \A n : n \notin ToSet(req.pending)
    BY <2>1 DEF ToSet
  <2>4. QED
    BY <2>1, <2>2, <2>3 DEF AgreeInv, OnItsWay
<1>9. ASSUME NEW n \in ReplicaSet, FailNode(n) \/ HealNode(n) PROVE AgreeInv'
  BY <1>9 DEF FailNode, HealNode, AgreeInv, OnItsWay
<1>10. CASE CrashRestart
  BY <1>10, CrashAgree
<1>11. ASSUME NEW i \in Ids, NEW r \in Records, NEW S \in SUBSET Ids,
              NEW tear \in BOOLEAN, CrashInFlush(i, r, S, tear)
       PROVE  AgreeInv'
  BY <1>11, CrashInFlushAgree
<1>12. CASE UNCHANGED vars
  BY <1>12 DEF vars, AgreeInv, OnItsWay
<1>13. QED
  BY <1>2, <1>3, <1>4, <1>5, <1>6, <1>7, <1>8, <1>9, <1>10, <1>11, <1>12 DEF Next

\* AgreeInv implies what the run checks of replicas.
LEMMA AgreeFollows == TypeOK /\ HeldInv /\ AgreeInv => ReplicaAgrees
<1> SUFFICES ASSUME TypeOK, HeldInv, AgreeInv, Idle, NEW n \in ReplicaSet,
                    NEW i \in Ids \ (missed[n] \cup skipped[n])
             PROVE  Recovered(ctx[n])[i] = Recovered(ctx[Primary])[i]
  BY DEF ReplicaAgrees
<1>1. ctx[Primary] \in Context /\ ctx[Primary].buf = <<>>
  BY ReplicaFacts DEF TypeOK, HeldInv
<1>2. Recovered(ctx[Primary])[i] = Final(ctx[Primary], i)
  BY <1>1, FlushedLogIsFinal
<1>3. \A m : m \notin ToSet(req.pending)
  BY DEF HeldInv, Idle, ToSet
<1>4. QED
  BY <1>2, <1>3 DEF AgreeInv, OnItsWay

\* AgreeInv holds always: a replica differs from the primary only where a write is on its way,
\* missed or skipped.
THEOREM AgreeHolds == Spec => [](TypeOK /\ HeldInv /\ AgreeInv)
<1>1. TypeOK /\ HeldInv /\ AgreeInv /\ [Next]_vars => AgreeInv'
  BY NextAgree
<1>2. QED
  BY <1>1, InitAgree, ContextsHold, PTL DEF Spec

\* A replica's files hold what the primary's do, for every id whose last write
\* it got and did not take for one it has: across failed deliveries, failed
\* flushes and crashes.
THEOREM ReplicasAgree == Spec => []ReplicaAgrees
BY AgreeHolds, AgreeFollows, PTL

-----------------------------------------------------------------------------
(* Acknowledgements *)

\* Appending an entry adds its id.
LEMMA AppendIds ==
    ASSUME NEW s \in Seq(Entry), NEW e \in Entry
    PROVE  {x.id : x \in ToSet(Append(s, e))} = {x.id : x \in ToSet(s)} \cup {e.id}
<1>1. ToSet(Append(s, e)) = ToSet(s) \cup {e}
  <2>1. ASSUME NEW x \in ToSet(Append(s, e)) PROVE x \in ToSet(s) \cup {e}
    <3>1. PICK k \in 1..Len(s) + 1 : x = Append(s, e)[k]
      BY AppendFacts DEF ToSet
    <3>2. k \in 1..Len(s) \/ k = Len(s) + 1
      OBVIOUS
    <3>3. QED
      BY <3>1, <3>2, AppendFacts DEF ToSet
  <2>2. ASSUME NEW x \in ToSet(s) PROVE x \in ToSet(Append(s, e))
    <3>1. PICK k \in 1..Len(s) : x = s[k]
      BY AppendFacts DEF ToSet
    <3>2. k \in 1..Len(s) + 1 /\ Append(s, e)[k] = x
      BY <3>1, AppendFacts
    <3>3. QED
      BY <3>2, AppendFacts DEF ToSet
  <2>3. e \in ToSet(Append(s, e))
    <3>1. Len(s) + 1 \in 1..Len(s) + 1
      OBVIOUS
    <3>2. QED
      BY <3>1, AppendFacts DEF ToSet
  <2>4. QED
    BY <2>1, <2>2, <2>3
<1>2. QED
  BY <1>1

\* More acknowledgements are still enough.
LEMMA CountMonotone ==
    ASSUME NEW S \in SUBSET ReplicaSet, NEW T \in SUBSET ReplicaSet, S \subseteq T,
           1 + Cardinality(S) >= Required
    PROVE  1 + Cardinality(T) >= Required
<1>1. IsFiniteSet(T) /\ Cardinality(S) \in Nat /\ Cardinality(T) \in Nat /\ Required \in Nat
  BY ReplicaCount
<1>2. Cardinality(S) <= Cardinality(T)
  BY <1>1, FS_Subset
<1>3. QED
  BY <1>1, <1>2

\* With nothing to deliver nothing is on its way.
LEMMA NonePending == ASSUME req.pending = <<>> PROVE \A n, i : ~OnItsWay(n, i)
BY DEF OnItsWay, ToSet

\* A request that is closed or has not written yet.
LEMMA FreshCount ==
    ASSUME req'.pending = <<>>, ~(req'.phase \in {"open", "success"}) \/ req'.wrote = <<>> \/ ~req'.ok
    PROVE  CountInv'
<1>1. CASE req'.wrote = <<>>
  <2>1. WroteIds' = {}
    BY <1>1 DEF WroteIds, ToSet
  <2>2. QED
    BY <1>1, <2>1 DEF CountInv
<1>2. CASE req'.wrote # <<>>
  <2>1. ~Current'
    BY <1>2 DEF Current
  <2>2. QED
    BY <2>1 DEF CountInv
<1>3. QED
  BY <1>1, <1>2

\* A record starts without acknowledgements, and is counted when all deliveries are done.
LEMMA WroteCount ==
    ASSUME TypeOK, CountInv, NEW e \in Entry, Replicate(e), req.pending = <<>>, req.phase = "open",
           UNCHANGED <<faults, health, missed>>
    PROVE  CountInv'
<1>1. /\ req'.phase = req.phase
      /\ req'.wrote = Append(req.wrote, e)
      /\ req'.pending = Replicas /\ req'.acks = {}
      /\ req'.degraded = req.degraded
      /\ req'.ok => req.ok
      /\ req'.ok /\ Replicas = <<>> => 1 + Cardinality({}) >= Required
  BY ReplicateFields
<1>2. req.wrote \in Seq(Entry)
  BY RequestTypes DEF TypeOK
<1>3. Last(req'.wrote) = e /\ WroteIds' = WroteIds \cup {e.id}
  <2>1. Last(req'.wrote) = e
    BY <1>1, <1>2, AppendFacts
  <2>2. WroteIds' = {x.id : x \in ToSet(Append(req.wrote, e))}
    BY <1>1 DEF WroteIds
  <2>3. QED
    BY <1>2, <2>1, <2>2, AppendIds DEF WroteIds
<1>4. \A i : Reached(i)' = Reached(i) /\ Reached(i) \in SUBSET ReplicaSet
  BY DEF Reached
<1>5. ASSUME Current', NEW i \in WroteIds'
      PROVE  /\ \/ req'.pending # <<>> /\ i = Last(req'.wrote).id
                \/ 1 + Cardinality(Reached(i)') >= Required
             /\ ~req'.degraded => \A n \in ReplicaSet : OnItsWay(n, i)' \/ i \notin missed'[n]
  <2>1. Current
    BY <1>1, <1>5 DEF Current
  <2>2. CASE i = e.id
    <3>1. \A n \in ReplicaSet : OnItsWay(n, i)'
      BY <1>1, <1>3, <2>2, ReplicaFacts DEF OnItsWay
    <3>2. CASE Replicas = <<>>
      <4>1. 1 + Cardinality({}) >= Required
        BY <1>1, <1>5, <3>2 DEF Current
      <4>2. {} \in SUBSET ReplicaSet /\ Reached(i) \in SUBSET ReplicaSet /\ {} \subseteq Reached(i)
        BY <1>4
      <4>3. 1 + Cardinality(Reached(i)) >= Required
        BY <4>1, <4>2, CountMonotone
      <4>4. QED
        BY <1>4, <3>1, <4>3
    <3>3. QED
      BY <1>1, <1>3, <2>2, <3>1, <3>2
  <2>3. CASE i # e.id
    <3>1. i \in WroteIds
      BY <1>3, <1>5, <2>3
    <3>2. /\ 1 + Cardinality(Reached(i)) >= Required
          /\ ~req.degraded => \A n \in ReplicaSet : i \notin missed[n]
      BY <2>1, <3>1, NonePending DEF CountInv
    <3>3. QED
      BY <1>1, <1>4, <3>2
  <2>4. QED
    BY <2>2, <2>3
<1>6. ASSUME Current', req'.pending = <<>> PROVE 1 + Cardinality(health') >= Required
  <2>1. 1 + Cardinality({}) >= Required
    BY <1>1, <1>6 DEF Current
  <2>2. {} \in SUBSET ReplicaSet /\ health \in SUBSET ReplicaSet /\ {} \subseteq health
    BY DEF TypeOK
  <2>3. 1 + Cardinality(health) >= Required
    BY <2>1, <2>2, CountMonotone
  <2>4. QED
    BY <2>3
<1>7. QED
  BY <1>1, <1>5, <1>6 DEF CountInv

\* A delivery counts a replica exactly if it acknowledged.
LEMMA DeliverCount ==
    ASSUME TypeOK, HeldInv, CountInv, Deliver
    PROVE  CountInv'
<1> DEFINE n == Head(req.pending)
           e == Last(req.wrote)
<1>0. n = Head(req.pending) /\ e = Last(req.wrote)
  OBVIOUS
<1> HIDE DEF n, e
<1>1. /\ req.pending # <<>>
      /\ req' \in Request
      /\ req'.phase = req.phase /\ req'.wrote = req.wrote
      /\ req'.pending = Tail(req.pending)
      /\ req'.ok => req.ok
      /\ req'.ok /\ req'.pending = <<>> => 1 + Cardinality(req'.acks) >= Required
      /\ Delivered(n, e) \/ Dropped(n, e)
      /\ faults' = faults
  BY <1>0, DeliverStep
<1>2. /\ n \in ReplicaSet /\ e \in Entry /\ e.id \in Ids
      /\ \A m \in ToSet(req.pending) : m = n \/ m \in ToSet(req'.pending)
  BY <1>0, <1>1, PendingFacts DEF Entry
<1>3. missed \in [ReplicaSet -> SUBSET Ids] /\ health \in SUBSET ReplicaSet
  BY DEF TypeOK
<1>4. /\ \A m \in ReplicaSet \ {n} : missed'[m] = missed[m]
      /\ \A i : i # e.id => (i \in missed'[n] <=> i \in missed[n])
      /\ Delivered(n, e) => e.id \notin missed'[n]
  BY <1>1, <1>2, <1>3 DEF Delivered, Dropped
<1>5. /\ req.acks \cap faults = {}
      /\ req.acks \subseteq health
      /\ req.acks \subseteq Reached(e.id)
  BY <1>0, <1>1 DEF CountInv
<1> DEFINE R(i) == {m \in ReplicaSet : i \notin missed'[m]}
<1>6. /\ req'.acks \cap faults' = {}
      /\ req'.acks \subseteq health'
      /\ req'.acks \subseteq R(e.id)
      /\ health' \in SUBSET ReplicaSet
  <2>1. CASE Delivered(n, e)
    <3>1. n \notin faults /\ health' = health \cup {n} /\ req'.acks = req.acks \cup {n}
      BY <2>1 DEF Delivered
    <3>2. \A m \in req.acks : m \in ReplicaSet /\ e.id \notin missed[m]
      BY <1>5 DEF Reached
    <3>3. n \in R(e.id) /\ \A m \in req.acks : m \in R(e.id)
      BY <1>2, <1>4, <2>1, <3>2
    <3> HIDE DEF R
    <3>4. QED
      BY <1>1, <1>2, <1>3, <1>5, <3>1, <3>3
  <2>2. CASE Dropped(n, e)
    <3>1. n \in faults /\ health' = health \ {n} /\ req'.acks = req.acks
      BY <2>2 DEF Dropped
    <3>2. n \notin req.acks
      BY <1>5, <3>1
    <3>3. \A m \in req.acks : m \in ReplicaSet /\ e.id \notin missed[m]
      BY <1>5 DEF Reached
    <3>4. \A m \in req.acks : m \in R(e.id)
      BY <1>4, <3>2, <3>3
    <3> HIDE DEF R
    <3>5. QED
      BY <1>1, <1>3, <1>5, <3>1, <3>2, <3>4
  <2>3. QED
    BY <1>1, <2>1, <2>2
<1>7. WroteIds' = WroteIds /\ (Current' => Current)
  BY <1>1 DEF WroteIds, Current
<1>8. \A i : R(i) \in SUBSET ReplicaSet /\ (i # e.id => R(i) = Reached(i))
  BY <1>4 DEF Reached
<1>9. req'.acks \in SUBSET ReplicaSet
  BY <1>1, RequestTypes
<1>10. ASSUME Current', NEW i \in WroteIds
       PROVE  \/ req'.pending # <<>> /\ i = Last(req'.wrote).id
              \/ 1 + Cardinality(R(i)) >= Required
  <2>1. CASE i = e.id /\ req'.pending # <<>>
    BY <1>0, <1>1, <2>1
  <2>2. CASE i = e.id /\ req'.pending = <<>>
    <3>1. 1 + Cardinality(req'.acks) >= Required
      BY <1>1, <1>10, <2>2 DEF Current
    <3> HIDE DEF R
    <3>2. 1 + Cardinality(R(e.id)) >= Required
      BY <1>6, <1>8, <1>9, <3>1, CountMonotone
    <3>3. QED
      BY <2>2, <3>2
  <2>3. CASE i # e.id
    <3>1. 1 + Cardinality(Reached(i)) >= Required
      BY <1>0, <1>7, <1>10, <2>3 DEF CountInv
    <3>2. QED
      BY <1>8, <2>3, <3>1
  <2>4. QED
    BY <2>1, <2>2, <2>3
<1>11. ASSUME Current', NEW i \in WroteIds, ~req'.degraded, NEW m \in ReplicaSet
       PROVE  OnItsWay(m, i)' \/ i \notin missed'[m]
  <2>1. Delivered(n, e) /\ ~req.degraded
    BY <1>1, <1>11 DEF Delivered, Dropped
  <2>2. OnItsWay(m, i) \/ i \notin missed[m]
    BY <1>7, <1>11, <2>1 DEF CountInv
  <2>3. CASE m = n
    BY <1>0, <1>4, <2>1, <2>2, <2>3 DEF OnItsWay
  <2>4. CASE m # n
    BY <1>1, <1>2, <1>4, <2>2, <2>4 DEF OnItsWay
  <2>5. QED
    BY <2>3, <2>4
<1>12. ASSUME Current', req'.pending = <<>> PROVE 1 + Cardinality(health') >= Required
  <2>1. 1 + Cardinality(req'.acks) >= Required
    BY <1>1, <1>12 DEF Current
  <2>2. QED
    BY <1>6, <1>9, <2>1, CountMonotone
<1>13. Last(req'.wrote).id = e.id
  BY <1>0, <1>1
<1>14. \A i : Reached(i)' = R(i)
  BY DEF Reached
<1>15. ASSUME Current', NEW i \in WroteIds'
       PROVE  /\ \/ req'.pending # <<>> /\ i = Last(req'.wrote).id
                 \/ 1 + Cardinality(Reached(i)') >= Required
              /\ ~req'.degraded => \A m \in ReplicaSet : OnItsWay(m, i)' \/ i \notin missed'[m]
  BY <1>7, <1>10, <1>11, <1>14, <1>15
<1>16. Reached(Last(req.wrote).id)' = R(e.id)
  BY <1>13 DEF Reached
<1> HIDE DEF R
<1>17. QED
  BY <1>6, <1>12, <1>15, <1>16 DEF CountInv

\* Every step keeps CountInv: the records of a success so far reached enough replicas.
LEMMA NextCount ==
    ASSUME TypeOK, HeldInv, CountInv, [Next]_vars PROVE CountInv'
<1>1. CASE BeginUpsert \/ BeginDelete
  <2>1. req'.pending = <<>> /\ req'.wrote = <<>>
    BY <1>1, BeginFields DEF BeginUpsert, BeginDelete, Kind
  <2>2. QED
    BY <2>1, FreshCount
<1>2. ASSUME NEW md \in Mds, BeginFilter(md) PROVE CountInv'
  <2>1. req'.pending = <<>> /\ req'.wrote = <<>>
    BY <1>2, BeginFields, FilterIds DEF BeginFilter, Kind
  <2>2. QED
    BY <2>1, FreshCount
<1>3. ASSUME NEW i \in Ids, NEW r \in Records, Upsert(i, r) PROVE CountInv'
  <2> DEFINE e == [id |-> i, cell |-> r]
  <2>1. /\ e \in Entry /\ Replicate(e) /\ req.pending = <<>> /\ req.phase = "open"
        /\ UNCHANGED <<faults, health, missed>>
    BY <1>3 DEF Entry, Upsert, NextRecord
  <2> HIDE DEF e
  <2>2. QED
    BY <2>1, WroteCount
<1>4. ASSUME NEW i \in Ids, NEW r \in Records,
             NEW S \in SUBSET Ids, NEW tear \in BOOLEAN, UpsertFlushFails(i, r, S, tear)
      PROVE CountInv'
  <2>1. req'.pending = <<>> /\ req'.ok = FALSE
    BY <1>4, FlushFailsHeld
  <2>2. QED
    BY <2>1, FreshCount
<1>5. ASSUME NEW i \in Ids, Delete(i) PROVE CountInv'
  <2> DEFINE e == [id |-> i, cell |-> Gone]
  <2>1. /\ e \in Entry /\ Replicate(e) /\ req.pending = <<>> /\ req.phase = "open"
        /\ UNCHANGED <<faults, health, missed>>
    BY <1>5 DEF Entry, Delete, NextRecord
  <2> HIDE DEF e
  <2>2. QED
    BY <2>1, WroteCount
<1>6. CASE Deliver
  BY <1>6, DeliverCount
<1>7. CASE Finish
  <2>1. /\ req'.wrote = req.wrote /\ req'.pending = <<>> /\ req.pending = <<>>
        /\ req'.ok = req.ok /\ req'.degraded = req.degraded /\ req.phase = "open"
    BY <1>7, FinishStep DEF Finish
  <2>2. WroteIds' = WroteIds /\ missed' = missed /\ health' = health
    BY <1>7, <2>1 DEF Finish, WroteIds
  <2>3. Current' => Current
    BY <2>1 DEF Current
  <2>4. \A i : Reached(i)' = Reached(i)
    BY <2>2 DEF Reached
  <2>5. \A m, i : OnItsWay(m, i)' <=> OnItsWay(m, i)
    BY <2>1 DEF OnItsWay
  <2>6. QED
    BY <2>1, <2>2, <2>3, <2>4, <2>5 DEF CountInv
<1>8. ASSUME NEW n \in ReplicaSet, FailNode(n) \/ HealNode(n) PROVE CountInv'
  <2>1. UNCHANGED <<req, health, missed>> /\ Idle
    BY <1>8 DEF FailNode, HealNode
  <2>2. req.pending = <<>>
    BY <2>1 DEF HeldInv, Idle
  <2>3. QED
    BY <2>1, <2>2 DEF CountInv, Current, WroteIds, Reached, OnItsWay
<1>9. CASE CrashRestart
  <2>1. CASE Idle
    <3>1. /\ req' = req /\ health' = ReplicaSet /\ req.pending = <<>>
          /\ missed' = [n \in ReplicaSet |-> missed[n]] /\ missed \in [ReplicaSet -> SUBSET Ids]
          /\ health \in SUBSET ReplicaSet /\ ReplicaSet \in SUBSET ReplicaSet
      BY <1>9, <2>1 DEF CrashRestart, Restart, HeldInv, Idle, TypeOK
    <3>2. missed' = missed
      BY <3>1
    <3>3. Current /\ req.wrote # <<>> => 1 + Cardinality(ReplicaSet) >= Required
      BY <3>1, CountMonotone DEF CountInv
    <3>4. QED
      BY <3>1, <3>2, <3>3 DEF CountInv, Current, WroteIds, Reached, OnItsWay
  <2>2. CASE ~Idle
    BY <1>9, <2>2, NoRequestTyped, FreshCount DEF CrashRestart
  <2>3. QED
    BY <2>1, <2>2
<1>10. ASSUME NEW i \in Ids, NEW r \in Records, NEW S \in SUBSET Ids,
              NEW tear \in BOOLEAN, CrashInFlush(i, r, S, tear)
       PROVE  CountInv'
  BY <1>10, NoRequestTyped, FreshCount DEF CrashInFlush
<1>11. CASE UNCHANGED vars
  BY <1>11 DEF vars, CountInv, Current, WroteIds, Reached, OnItsWay
<1>12. QED
  BY <1>1, <1>2, <1>3, <1>4, <1>5, <1>6, <1>7, <1>8, <1>9, <1>10, <1>11 DEF Next

\* Every step keeps AnswerInv: an answered success is in the primary's files.
LEMMA NextAnswer ==
    ASSUME TypeOK, HeldInv, AnswerInv, [Next]_vars PROVE AnswerInv'
<1>1. CASE BeginUpsert \/ BeginDelete
  BY <1>1, BeginFields DEF BeginUpsert, BeginDelete, Kind, AnswerInv
<1>2. ASSUME NEW md \in Mds, BeginFilter(md) PROVE AnswerInv'
  BY <1>2, BeginFields, FilterIds DEF BeginFilter, Kind, AnswerInv
<1>3. ASSUME NEW i \in Ids, NEW r \in Records, Upsert(i, r) PROVE AnswerInv'
  <2>1. [id |-> i, cell |-> r] \in Entry
    BY DEF Entry
  <2>2. req'.phase = "open"
    BY <1>3, <2>1, ReplicateFields DEF Upsert, NextRecord
  <2>3. QED
    BY <2>2 DEF AnswerInv
<1>4. ASSUME NEW i \in Ids, NEW r \in Records,
             NEW S \in SUBSET Ids, NEW tear \in BOOLEAN, UpsertFlushFails(i, r, S, tear)
      PROVE AnswerInv'
  BY <1>4, FlushFailsHeld DEF AnswerInv
<1>5. ASSUME NEW i \in Ids, Delete(i) PROVE AnswerInv'
  <2>1. [id |-> i, cell |-> Gone] \in Entry
    BY DEF Entry
  <2>2. req'.phase = "open"
    BY <1>5, <2>1, ReplicateFields DEF Delete, NextRecord
  <2>3. QED
    BY <2>2 DEF AnswerInv
<1>6. CASE Deliver
  <2> DEFINE n == Head(req.pending)
             e == Last(req.wrote)
  <2>0. n = Head(req.pending) /\ e = Last(req.wrote)
    OBVIOUS
  <2> HIDE DEF n, e
  <2>1. req'.phase = req.phase /\ req.phase = "open"
    BY <1>6, <2>0, DeliverStep DEF Deliver
  <2>2. QED
    BY <2>1 DEF AnswerInv
<1>7. CASE Finish
  <2>1. /\ ctx'[Primary].wal = Log(ctx[Primary])
        /\ req'.phase = "success" <=> req.ok /\ req.wrote # <<>>
        /\ req'.wrote = req.wrote /\ req'.ok = req.ok
    BY <1>7, FinishStep
  <2>2. ctx[Primary].buf = req.wrote
    BY <1>7, OpenPrimary DEF Finish
  <2>3. WroteIds' = WroteIds
    BY <2>1 DEF WroteIds
  <2>4. ASSUME NEW i \in WroteIds PROVE ctx'[Primary].wal[i] = req.wrote[LastOf(req.wrote, i)].cell
    <3>1. i \in Ids /\ Positions(req.wrote, i) # {}
      BY WroteIdsTyped DEF Positions
    <3>2. QED
      BY <2>1, <2>2, <3>1, OverlayShape DEF Log
  <2>5. QED
    BY <2>1, <2>3, <2>4 DEF AnswerInv
<1>8. ASSUME NEW n \in ReplicaSet, FailNode(n) \/ HealNode(n) PROVE AnswerInv'
  BY <1>8 DEF FailNode, HealNode, AnswerInv, WroteIds
<1>9. CASE CrashRestart
  <2>1. CASE Idle
    <3>1. req' = req /\ WroteIds' = WroteIds
      BY <1>9, <2>1 DEF CrashRestart, WroteIds
    <3>2. /\ ctx[Primary] \in Context /\ Sound(ctx[Primary]) /\ Restart(ctx[Primary], FALSE)
          /\ ctx[Primary].buf = <<>>
      BY <1>9, <2>1, ReplicaFacts DEF CrashRestart, HeldInv, TypeOK
    <3>3. ctx'[Primary].wal = ctx[Primary].wal
      BY <3>2, RestartStep
    <3>4. QED
      BY <3>1, <3>3 DEF AnswerInv
  <2>2. CASE ~Idle
    BY <1>9, <2>2, NoRequestTyped DEF CrashRestart, AnswerInv
  <2>3. QED
    BY <2>1, <2>2
<1>10. ASSUME NEW i \in Ids, NEW r \in Records, NEW S \in SUBSET Ids,
              NEW tear \in BOOLEAN, CrashInFlush(i, r, S, tear)
       PROVE  AnswerInv'
  BY <1>10, NoRequestTyped DEF CrashInFlush, AnswerInv
<1>11. CASE UNCHANGED vars
  BY <1>11 DEF vars, AnswerInv, WroteIds
<1>12. QED
  BY <1>1, <1>2, <1>3, <1>4, <1>5, <1>6, <1>7, <1>8, <1>9, <1>10, <1>11 DEF Next

AckInv == TypeOK /\ HeldInv /\ AgreeInv /\ CountInv /\ AnswerInv

\* AckInv holds always: an open request counts only replicas that have its records, and an
\* answer is as good as its count.
THEOREM AckHolds == Spec => []AckInv
<1>1. Init => CountInv /\ AnswerInv
  <2> SUFFICES ASSUME Init PROVE CountInv /\ AnswerInv
    OBVIOUS
  <2>1. req.phase = "none" /\ req.pending = <<>>
    BY NoRequestTyped DEF Init
  <2>2. QED
    BY <2>1 DEF CountInv, AnswerInv, Current
<1>2. TypeOK /\ HeldInv /\ CountInv /\ AnswerInv /\ [Next]_vars => CountInv' /\ AnswerInv'
  BY NextCount, NextAnswer
<1>3. QED
  BY <1>1, <1>2, AgreeHolds, PTL DEF Spec, AckInv

\* After a success the health view has enough replicas for the shard to be
\* reported ready.
THEOREM ReadyHolds == Spec => []ReadyAfterSuccess
<1>1. AckInv => ReadyAfterSuccess
  BY DEF AckInv, ReadyAfterSuccess, Ready, CountInv, Current, AnswerInv, HeldInv
<1>2. QED
  BY <1>1, AckHolds, PTL

\* The value a write leaves.
Value(e) == IF e.cell = Gone THEN None ELSE e.cell

\* AckInv implies what the run checks of an acknowledged request.
LEMMA AckedFollows == AckInv => AckedOnEnough
<1> SUFFICES ASSUME AckInv, req.phase = "success", ~torn, NEW i \in WroteIds
             PROVE  LET H == Holders(req.wrote[LastOf(req.wrote, i)]) \cup {n \in ReplicaSet : i \in skipped[n]}
                    IN Cardinality(H) >= Required /\ (~req.degraded => H = Nodes)
  BY DEF AckedOnEnough
<1> USE DEF AckInv
<1> DEFINE e == req.wrote[LastOf(req.wrote, i)]
           H == Holders(e) \cup {n \in ReplicaSet : i \in skipped[n]}
<1>1. i \in Ids /\ Positions(req.wrote, i) # {}
  BY WroteIdsTyped DEF Positions
<1>2. e \in Entry /\ e.id = i
  <2>1. req.wrote \in Seq(Entry)
    BY RequestTypes DEF TypeOK
  <2>2. LastOf(req.wrote, i) \in Positions(req.wrote, i)
    BY <1>1, <2>1, LastExists
  <2>3. QED
    BY <2>1, <2>2 DEF Positions
<1>3. ctx[Primary].wal[i] = e.cell /\ req.ok /\ req.pending = <<>>
  BY DEF AnswerInv, HeldInv
<1> HIDE DEF e
<1>4. Recovered(ctx[Primary])[i] = Value(e)
  <2>1. e.cell # None
    BY <1>2, RecordsAssumption DEF Entry
  <2>2. QED
    BY <1>1, <1>3, <2>1, RecoveredAt DEF Resolve, Value
<1>5. Holders(e) = {n \in Nodes : Recovered(ctx[n])[i] = Value(e)}
  BY <1>2 DEF Holders, Value
<1>6. Primary \in H /\ H \subseteq Nodes
  BY <1>4, <1>5, ReplicaFacts
<1>7. ASSUME NEW n \in Reached(i) PROVE n \in H
  <2>1. n \in ReplicaSet /\ n \in Nodes /\ i \notin missed[n]
    BY ReplicaFacts DEF Reached
  <2>2. CASE i \in skipped[n]
    BY <2>1, <2>2
  <2>3. CASE i \notin skipped[n]
    <3>1. ReplicaAgrees /\ Idle
      BY AgreeFollows DEF Idle
    <3>2. Recovered(ctx[n])[i] = Recovered(ctx[Primary])[i]
      BY <1>1, <2>1, <2>3, <3>1 DEF ReplicaAgrees
    <3>3. QED
      BY <1>4, <1>5, <2>1, <3>2
  <2>4. QED
    BY <2>2, <2>3
<1>8. /\ 1 + Cardinality(Reached(i)) >= Required
      /\ ~req.degraded => \A n \in ReplicaSet : i \notin missed[n]
  BY <1>3, NonePending DEF CountInv, Current
<1> HIDE DEF H
<1>9. Cardinality(H) >= Required
  <2>1. /\ IsFiniteSet(Reached(i)) /\ Cardinality(Reached(i)) \in Nat
        /\ Primary \notin Reached(i)
    BY ReplicaCount, ReplicaFacts DEF Reached
  <2>2. /\ IsFiniteSet(Reached(i) \cup {Primary})
        /\ Cardinality(Reached(i) \cup {Primary}) = Cardinality(Reached(i)) + 1
    BY <2>1, FS_AddElement
  <2>3. IsFiniteSet(H) /\ Cardinality(H) \in Nat
    BY <1>6, ReplicaFacts, FS_Subset, FS_CardinalityType
  <2>4. Cardinality(Reached(i) \cup {Primary}) <= Cardinality(H)
    BY <1>6, <1>7, <2>3, FS_Subset
  <2>5. Required \in Nat
    OBVIOUS
  <2>6. QED
    BY <1>8, <2>1, <2>2, <2>3, <2>4, <2>5
<1>10. ASSUME ~req.degraded PROVE H = Nodes
  BY <1>6, <1>7, <1>8, <1>10, ReplicaFacts DEF Reached
<1>11. QED
  BY <1>9, <1>10 DEF H, e

\* A request answered with success is, for every id it wrote, in the files of
\* as many nodes as required_acks asks for, and of all nodes unless it was
\* degraded, and it stays there across a restart, as long as the primary's
\* files can be read; a replica that took the record for one it has counts
\* although its files hold other metadata or a tombstone.
THEOREM AcksAreKept == Spec => []AckedOnEnough
BY AckHolds, AckedFollows, PTL

-----------------------------------------------------------------------------
(* The store clients are promised *)

\* The writes of a request as the abstract store names them.
LEMMA PlainFacts ==
    ASSUME NEW s \in Seq(Entry)
    PROVE  /\ DOMAIN Plain(s) = DOMAIN s
           /\ \A k \in DOMAIN s : Plain(s)[k] = [id |-> s[k].id, cell |-> Value(s[k])]
BY DEF Plain, Value

\* The fields of one such write.
LEMMA PlainFields ==
    ASSUME NEW s \in Seq(Entry), NEW k \in DOMAIN s
    PROVE  k \in DOMAIN Plain(s) /\ Plain(s)[k].id = s[k].id /\ Plain(s)[k].cell = Value(s[k])
<1>1. Plain(s)[k] = [id |-> s[k].id, cell |-> Value(s[k])]
  BY PlainFacts
<1>2. QED
  BY <1>1, PlainFacts

\* No writes are no writes of the store.
LEMMA PlainEmpty == Plain(<<>>) = <<>>
BY DEF Plain

\* A further write is a further write of the store.
LEMMA PlainAppend ==
    ASSUME NEW s \in Seq(Entry), NEW e \in Entry
    PROVE  Plain(Append(s, e)) = Append(Plain(s), [id |-> e.id, cell |-> Value(e)])
<1> DEFINE w == [id |-> e.id, cell |-> Value(e)]
           a == Append(s, e)
           p == Plain(s)
<1>1. /\ a \in Seq(Entry) /\ DOMAIN a = 1..Len(s) + 1 /\ DOMAIN s = 1..Len(s) /\ Len(s) \in Nat
      /\ \A k \in 1..Len(s) : a[k] = s[k]
      /\ a[Len(s) + 1] = e
  BY AppendFacts
<1> HIDE DEF w, a
<1>2. /\ DOMAIN p = 1..Len(s)
      /\ p = [k \in 1..Len(s) |-> [id |-> s[k].id, cell |-> Value(s[k])]]
  BY <1>1 DEF Plain, Value
<1> DEFINE V == Range(p) \cup {w}
<1>3. p \in Seq(V) /\ Len(p) = Len(s) /\ w \in V
  <2> HIDE DEF p
  <2>1. p \in [1..Len(s) -> V]
    BY <1>2 DEF Range
  <2> HIDE DEF V
  <2>2. p \in Seq(V) /\ Len(p) = Len(s)
    BY <1>1, <2>1
  <2>3. QED
    BY <2>2 DEF V
<1> HIDE DEF V
<1>4. /\ DOMAIN Append(p, w) = 1..Len(s) + 1
      /\ \A k \in 1..Len(s) : Append(p, w)[k] = p[k]
      /\ Append(p, w)[Len(s) + 1] = w
  <2> HIDE DEF p
  <2>1. QED
    BY <1>1, <1>3
<1>5. /\ DOMAIN Plain(a) = 1..Len(s) + 1
      /\ \A k \in 1..Len(s) + 1 : Plain(a)[k] = [id |-> a[k].id, cell |-> Value(a[k])]
  BY <1>1, PlainFacts
<1>6. \A k \in 1..Len(s) + 1 : k \in 1..Len(s) \/ k = Len(s) + 1
  BY <1>1
<1>7. \A k \in 1..Len(s) + 1 : Plain(a)[k] = Append(p, w)[k]
  <2>1. TAKE k \in 1..Len(s) + 1
  <2>2. CASE k \in 1..Len(s)
    <3>1. Plain(a)[k] = [id |-> s[k].id, cell |-> Value(s[k])]
      BY <1>1, <1>5, <2>2
    <3>2. p[k] = [id |-> s[k].id, cell |-> Value(s[k])]
      BY <1>2, <2>2
    <3>3. QED
      BY <1>4, <2>2, <3>1, <3>2
  <2>3. CASE k = Len(s) + 1
    BY <1>1, <1>4, <1>5, <2>3 DEF w
  <2>4. QED
    BY <1>6, <2>2, <2>3
<1>8. Plain(a) = [k \in DOMAIN Plain(a) |-> Plain(a)[k]]
  BY DEF Plain
<1>9. Append(p, w) = [k \in DOMAIN Append(p, w) |-> Append(p, w)[k]]
  <2> DEFINE A == Append(p, w)
  <2> HIDE DEF p
  <2>1. A \in Seq(V)
    BY <1>3
  <2> HIDE DEF A
  <2>2. A = [k \in DOMAIN A |-> A[k]]
    BY <2>1
  <2>3. QED
    BY <2>2 DEF A
<1>10. QED
  BY <1>4, <1>5, <1>7, <1>8, <1>9 DEF a, w

\* What a log entry means does not depend on the SSTables.
LEMMA EntryValue ==
    ASSUME NEW e \in Entry
    PROVE  /\ Value(e) \in Records \cup {None}
           /\ e.cell # None
           /\ \A s : Resolve(e.cell, s) = Value(e)
BY RecordsAssumption DEF Entry, Value, Resolve

\* What recovery derives is content of the store.
LEMMA RecoveredTyped ==
    ASSUME NEW c \in Context
    PROVE  Recovered(c) \in [Ids -> Records \cup {None}]
<1>1. ASSUME NEW i \in Ids PROVE Recovered(c)[i] \in Records \cup {None}
  BY CellTypes, RecoveredAt DEF Resolve
<1>2. Recovered(c) = [i \in Ids |-> Recovered(c)[i]]
  BY DEF Recovered
<1>3. QED
  BY <1>1, <1>2

\* Every recovered value is the earlier one or one that is being written.
LEMMA MixOf ==
    ASSUME NEW c \in Context, NEW d \in Context, NEW s \in Seq(Entry),
           \A j \in Ids : \/ Recovered(d)[j] = Recovered(c)[j]
                          \/ \E k \in DOMAIN s : s[k].id = j /\ Value(s[k]) = Recovered(d)[j]
    PROVE  Recovered(d) \in Client!Mix(Recovered(c), Plain(s))
<1>1. Recovered(d) \in [Ids -> Records \cup {None}]
  BY RecoveredTyped
<1>2. ASSUME NEW j \in Ids
      PROVE  \/ Recovered(d)[j] = Recovered(c)[j]
             \/ \E k \in DOMAIN Plain(s) : Plain(s)[k] = [id |-> j, cell |-> Recovered(d)[j]]
  <2>1. ASSUME Recovered(d)[j] # Recovered(c)[j]
        PROVE  \E k \in DOMAIN Plain(s) : Plain(s)[k] = [id |-> j, cell |-> Recovered(d)[j]]
    <3>1. PICK k \in DOMAIN s : s[k].id = j /\ Value(s[k]) = Recovered(d)[j]
      BY <2>1
    <3>2. k \in DOMAIN Plain(s) /\ Plain(s)[k] = [id |-> s[k].id, cell |-> Value(s[k])]
      BY PlainFacts
    <3>3. QED
      BY <3>1, <3>2
  <2>2. QED
    BY <2>1
<1>3. QED
  BY <1>1, <1>2 DEF Client!Mix

\* What the SSTables took from the MemTable was being written, where the log
\* on disk says nothing.
LEMMA TablesMix ==
    ASSUME NEW c \in Context, NEW p \in Context, p.wal = c.wal, NEW j \in Ids,
           TableAt(p, j) = TableAt(c, j) \/ (TableAt(p, j) # None /\ TableAt(p, j) = Log(p)[j])
    PROVE  \/ Recovered(p)[j] = Recovered(c)[j]
           \/ \E k \in DOMAIN p.buf : p.buf[k].id = j /\ Value(p.buf[k]) = Recovered(p)[j]
<1>1. /\ Recovered(p)[j] = Resolve(c.wal[j], TableAt(p, j))
      /\ Recovered(c)[j] = Resolve(c.wal[j], TableAt(c, j))
  BY RecoveredAt
<1>2. CASE c.wal[j] # None \/ TableAt(p, j) = TableAt(c, j)
  BY <1>1, <1>2 DEF Resolve
<1>3. CASE c.wal[j] = None /\ TableAt(p, j) # None /\ TableAt(p, j) = Log(p)[j]
  <2>1. p.wal \in Logs /\ p.buf \in Seq(Entry) /\ TableAt(p, j) \in Records \cup {None}
    BY FieldTypes, CellTypes
  <2>2. PICK k \in DOMAIN p.buf : p.buf[k].id = j /\ p.buf[k].cell = Log(p)[j]
    BY <1>3, <2>1, OverlayCases DEF Log
  <2>3. Value(p.buf[k]) = TableAt(p, j)
    BY <1>3, <2>1, <2>2, RecordsAssumption DEF Value
  <2>4. Recovered(p)[j] = TableAt(p, j)
    BY <1>1, <1>3 DEF Resolve
  <2>5. QED
    BY <2>2, <2>3, <2>4
<1>4. QED
  BY <1>2, <1>3

\* What can be recovered is not the unreadable store.
LEMMA Readable ==
    ASSUME NEW c \in Context
    PROVE  Recovered(c) # Unreadable
BY RecoveredTyped, IngestAssumption DEF Maybe

\* The store that the primary's files stand for.
Shown == IF torn THEN Unreadable ELSE Recovered(ctx[Primary])

\* What the store may hold after writes that are not answered, as long as it
\* can be read.
LEMMA ShownOutcome ==
    ASSUME TypeOK, TypeOK', torn' => torn, NEW s,
           torn \/ Recovered(ctx'[Primary]) \in Client!Mix(Recovered(ctx[Primary]), s),
           torn => torn'
    PROVE  Shown' \in Client!Outcomes(Shown, s)
<1>1. ctx[Primary] \in Context
  BY ReplicaFacts DEF TypeOK
<1>2. CASE torn
  BY <1>2 DEF Shown, Client!Outcomes
<1>3. CASE ~torn
  <2>1. Shown = Recovered(ctx[Primary]) /\ Shown # Unreadable /\ Shown' = Recovered(ctx'[Primary])
    BY <1>1, <1>3, Readable DEF Shown
  <2>2. QED
    BY <1>3, <2>1 DEF Client!Outcomes
<1>4. QED
  BY <1>2, <1>3

\* A write of the primary is a write of the open request in the store, which
\* may become unreadable.
LEMMA StoreWrites ==
    ASSUME TypeOK, HeldInv, TypeOK', NEW e \in Entry, PrimaryWrote(e), torn => torn',
           req.phase = "open", req'.phase = "open", req'.wrote = Append(req.wrote, e)
    PROVE  Client!StoreWrite
<1> DEFINE c == ctx[Primary]
           d == ctx'[Primary]
           w == [id |-> e.id, cell |-> Value(e)]
           W == Append(req.wrote, e)
<1>1. /\ c \in Context /\ d \in Context /\ req.wrote \in Seq(Entry)
      /\ d.wal = c.wal /\ d.buf = W /\ W \in Seq(Entry)
  BY ReplicaFacts, RequestTypes, AppendFacts DEF PrimaryWrote, TypeOK
<1>2. w \in Client!Write
  BY EntryValue DEF Client!Write, Entry
<1>3. Plain(W) = Append(Plain(req.wrote), w)
  BY <1>1, PlainAppend
<1>4. \A j \in Ids : TableAt(d, j) = TableAt(c, j) \/ (TableAt(d, j) # None /\ TableAt(d, j) = Log(d)[j])
  BY DEF PrimaryWrote
<1>5. req'.wrote = W
  OBVIOUS
<1> HIDE DEF c, d, w, W
<1>6. \A j \in Ids : \/ Recovered(d)[j] = Recovered(c)[j]
                     \/ \E k \in DOMAIN W : W[k].id = j /\ Value(W[k]) = Recovered(d)[j]
  BY <1>1, <1>4, TablesMix
<1>7. Recovered(d) \in Client!Mix(Recovered(c), Plain(W))
  BY <1>1, <1>6, MixOf
<1>8. /\ (IF Idle THEN <<>> ELSE Plain(req.wrote))' = Plain(W)
      /\ (IF Idle THEN <<>> ELSE Plain(req.wrote)) = Plain(req.wrote)
  BY <1>5 DEF Idle
<1>9. Shown' \in Client!Outcomes(Shown, Plain(W)) \cup {Unreadable}
  <2>1. CASE torn'
    BY <2>1 DEF Shown
  <2>2. CASE ~torn'
    BY <1>7, <2>2, ShownOutcome DEF c, d
  <2>3. QED
    BY <2>1, <2>2
<1>10. QED
  BY <1>2, <1>3, <1>8, <1>9 DEF Client!StoreWrite, Shown

\* The flush at the end makes exactly the request's writes durable.
LEMMA StoreAnswers ==
    ASSUME TypeOK, HeldInv, Finish
    PROVE  Client!StoreAnswer
<1> DEFINE c == ctx[Primary]
           d == ctx'[Primary]
           s == req.wrote
<1>1. c \in Context /\ c.buf = s
  BY OpenPrimary DEF Finish
<1>2. /\ \A j \in Ids : Recovered(d)[j] = Final(c, j)
      /\ req'.phase \in {"success", "failure"}
  BY FinishStep
<1>3. s \in Seq(Entry) /\ req.phase = "open"
  BY RequestTypes DEF TypeOK, Finish
<1>4. /\ (IF Idle THEN <<>> ELSE Plain(req.wrote))' = <<>>
      /\ (IF Idle THEN <<>> ELSE Plain(req.wrote)) = Plain(s)
  BY <1>2, <1>3 DEF Idle
<1>5. /\ torn' = torn
      /\ Shown' = IF torn THEN Unreadable ELSE Recovered(d)
      /\ Shown = IF torn THEN Unreadable ELSE Recovered(c)
  BY DEF Finish, Shown
<1> HIDE DEF c, d, s
<1> DEFINE Q(j) == {k \in DOMAIN Plain(s) : Plain(s)[k].id = j}
           L(j) == CHOOSE k \in Q(j) : \A m \in Q(j) : m <= k
<1>6. ASSUME NEW j \in Ids
      PROVE  Recovered(d)[j] = IF Q(j) = {} THEN Recovered(c)[j] ELSE Plain(s)[L(j)].cell
  <2>1. Q(j) = Positions(s, j)
    <3>1. DOMAIN Plain(s) = DOMAIN s
      BY <1>3, PlainFacts
    <3>2. \A k \in DOMAIN s : Plain(s)[k].id = s[k].id
      BY <1>3, PlainFields
    <3>3. QED
      BY <3>1, <3>2 DEF Positions
  <2>2. L(j) = LastOf(s, j)
    <3>1. LastOf(s, j) = CHOOSE k \in Positions(s, j) : \A m \in Positions(s, j) : m <= k
      BY DEF LastOf, Positions
    <3>2. QED
      BY <2>1, <3>1
  <2>3. Log(c)[j] = IF Positions(s, j) # {} THEN s[LastOf(s, j)].cell ELSE c.wal[j]
    BY <1>1, OverlayShape DEF Log
  <2> HIDE DEF Q, L
  <2>4. CASE Positions(s, j) = {}
    BY <1>2, <2>1, <2>3, <2>4, RecoveredAt DEF Final
  <2>5. CASE Positions(s, j) # {}
    <3> DEFINE k == LastOf(s, j)
    <3>1. k \in DOMAIN s /\ s[k] \in Entry
      BY <1>3, <2>5, LastExists DEF Positions
    <3>2. Plain(s)[k].cell = Value(s[k])
      BY <1>3, <3>1, PlainFields
    <3>3. Final(c, j) = Value(s[k])
      BY <2>3, <2>5, <3>1, EntryValue DEF Final
    <3>4. QED
      BY <1>2, <2>1, <2>2, <2>5, <3>2, <3>3
  <2>6. QED
    BY <2>4, <2>5
<1>7. Recovered(d) = [j \in Ids |-> Recovered(d)[j]]
  BY DEF Recovered
<1>8. Recovered(d) = [j \in Ids |-> IF Q(j) = {} THEN Recovered(c)[j] ELSE Plain(s)[L(j)].cell]
  <2> HIDE DEF Q, L
  <2>1. QED
    BY <1>6, <1>7
<1>9. Recovered(d) = Client!Settled(Recovered(c), Plain(s))
  BY <1>8 DEF Client!Settled
<1>10. Shown' = IF Shown = Unreadable THEN Unreadable ELSE Client!Settled(Shown, Plain(s))
  BY <1>1, <1>5, <1>9, Readable
<1>11. QED
  BY <1>4, <1>10 DEF Client!StoreAnswer, Shown

\* A restart brings back a mix of the files and of what was being written.
LEMMA RestartMix ==
    ASSUME TypeOK, HeldInv, NEW p \in Context, Sound(p), NEW tear \in BOOLEAN,
           Restart(p, tear), NEW j \in Ids
    PROVE  \/ Recovered(ctx'[Primary])[j] = Recovered(p)[j]
           \/ \E k \in DOMAIN p.buf : /\ p.buf[k].id = j
                                      /\ Value(p.buf[k]) = Recovered(ctx'[Primary])[j]
<1> DEFINE d == ctx'[Primary]
<1>1. /\ TableAt(d, j) = TableAt(p, j)
      /\ \/ d.wal[j] = p.wal[j]
         \/ \E m \in DOMAIN p.buf : p.buf[m].id = j /\ p.buf[m].cell = d.wal[j]
  BY RestartStep
<1> HIDE DEF d
<1>2. /\ Recovered(d)[j] = Resolve(d.wal[j], TableAt(d, j))
      /\ Recovered(p)[j] = Resolve(p.wal[j], TableAt(p, j))
  BY RecoveredAt
<1>3. CASE d.wal[j] = p.wal[j]
  BY <1>1, <1>2, <1>3 DEF d
<1>4. ASSUME NEW m \in DOMAIN p.buf, p.buf[m].id = j, p.buf[m].cell = d.wal[j]
      PROVE  Value(p.buf[m]) = Recovered(d)[j]
  <2>1. p.buf \in Seq(Entry)
    BY FieldTypes
  <2>2. p.buf[m] \in Entry
    BY <2>1, EntryCells
  <2>3. QED
    BY <1>2, <1>4, <2>2, EntryValue
<1>5. QED
  BY <1>1, <1>3, <1>4 DEF d

\* A crash makes some of the open writes durable, as the store allows.
LEMMA CrashMaps ==
    ASSUME TypeOK, HeldInv, TypeOK', CrashRestart
    PROVE  Client!StoreCrash \/ UNCHANGED Client!cvars
<1> DEFINE c == ctx[Primary]
           d == ctx'[Primary]
<1>1. c \in Context /\ d \in Context /\ Sound(c) /\ Restart(c, FALSE)
      /\ c.buf = IF Idle THEN <<>> ELSE req.wrote
  BY ReplicaFacts DEF TypeOK, HeldInv, CrashRestart
<1>2. \A j \in Ids : \/ Recovered(d)[j] = Recovered(c)[j]
                     \/ \E k \in DOMAIN c.buf : c.buf[k].id = j /\ Value(c.buf[k]) = Recovered(d)[j]
  BY <1>1, RestartMix
<1>3. torn' = torn
  BY DEF CrashRestart, Restart, TypeOK
<1> HIDE DEF c, d
<1>4. CASE Idle
  <2>1. DOMAIN c.buf = {}
    BY <1>1, <1>4
  <2>2. \A j \in Ids : Recovered(d)[j] = Recovered(c)[j]
    BY <1>2, <2>1
  <2>3. Recovered(d) = Recovered(c)
    BY <1>1, <2>2, RecoveredTyped
  <2>4. req' = req
    BY <1>4 DEF CrashRestart
  <2>5. (IF Idle THEN <<>> ELSE Plain(req.wrote))' = (IF Idle THEN <<>> ELSE Plain(req.wrote))
    BY <2>4 DEF Idle
  <2>6. QED
    BY <1>3, <2>3, <2>5 DEF Client!cvars, c, d
<1>5. CASE ~Idle
  <2>1. c.buf = req.wrote /\ req.wrote \in Seq(Entry)
    BY <1>1, <1>5, FieldTypes
  <2>2. Recovered(d) \in Client!Mix(Recovered(c), Plain(req.wrote))
    BY <1>1, <1>2, <2>1, MixOf
  <2>3. req'.phase = "none"
    BY <1>5, NoRequestTyped DEF CrashRestart
  <2>4. /\ (IF Idle THEN <<>> ELSE Plain(req.wrote))' = <<>>
        /\ (IF Idle THEN <<>> ELSE Plain(req.wrote)) = Plain(req.wrote)
    BY <1>5, <2>3 DEF Idle
  <2>5. Shown' \in Client!Outcomes(Shown, Plain(req.wrote))
    BY <1>3, <2>2, ShownOutcome DEF c, d
  <2>6. QED
    BY <2>4, <2>5 DEF Client!StoreCrash, Shown
<1>6. QED
  BY <1>4, <1>5

\* A crash inside an SSTable does too.
LEMMA CrashInFlushMaps ==
    ASSUME TypeOK, HeldInv, TypeOK', NEW i \in Ids, NEW r \in Records, NEW S \in SUBSET Ids,
           NEW tear \in BOOLEAN, CrashInFlush(i, r, S, tear)
    PROVE  Client!StoreCrash
<1> DEFINE c == ctx[Primary]
           d == ctx'[Primary]
           e == [id |-> i, cell |-> r]
           W == Append(req.wrote, e)
           w == [id |-> e.id, cell |-> Value(e)]
           p == FlushCut(Buffered(c, i, r), S)
<1>1. c \in Context /\ Sound(c) /\ c.buf = req.wrote /\ d \in Context
  BY OpenPrimary, ReplicaFacts DEF CrashInFlush, NextRecord, TypeOK
<1>2. /\ Restart(p, tear) /\ p = FlushCut(Buffered(c, i, r), S)
      /\ \A j \in S : Buffered(c, i, r).mem[j] # None
      /\ e \in Entry
  BY DEF CrashInFlush, CutOff, Entry
<1>3. req'.phase = "none" /\ req.phase = "open"
  BY NoRequestTyped DEF CrashInFlush, NextRecord
<1>4. torn => torn'
  BY DEF CrashInFlush, Restart
<1> HIDE DEF c, p
<1>5. /\ p \in Context /\ Sound(p)
      /\ p.wal = c.wal /\ p.buf = Append(c.buf, e)
      /\ \A j \in Ids : \/ TableAt(p, j) = TableAt(c, j)
                        \/ TableAt(p, j) # None /\ TableAt(p, j) = Log(p)[j]
  BY <1>1, <1>2, TornFlush
<1> HIDE DEF e
<1>6. req.wrote \in Seq(Entry) /\ W \in Seq(Entry) /\ p.buf = W
  BY <1>1, <1>2, <1>5, FieldTypes, AppendFacts
<1>7. w \in Client!Write
  BY <1>2, EntryValue DEF Client!Write, Entry
<1>8. Plain(W) = Append(Plain(req.wrote), w)
  BY <1>2, <1>6, PlainAppend
<1>9. \A j \in Ids : \/ Recovered(d)[j] = Recovered(p)[j]
                     \/ \E k \in DOMAIN p.buf : p.buf[k].id = j /\ Value(p.buf[k]) = Recovered(d)[j]
  BY <1>2, <1>5, RestartMix
<1> HIDE DEF d, W, w
<1>10. \A j \in Ids : \/ Recovered(p)[j] = Recovered(c)[j]
                      \/ \E k \in DOMAIN p.buf : p.buf[k].id = j /\ Value(p.buf[k]) = Recovered(p)[j]
  <2>1. TAKE j \in Ids
  <2>2. /\ p \in Context /\ p.wal = c.wal /\ c \in Context
        /\ TableAt(p, j) = TableAt(c, j) \/ (TableAt(p, j) # None /\ TableAt(p, j) = Log(p)[j])
    BY <1>1, <1>5
  <2>3. QED
    BY <2>2, TablesMix
<1>11. \A j \in Ids : \/ Recovered(d)[j] = Recovered(c)[j]
                      \/ \E k \in DOMAIN W : W[k].id = j /\ Value(W[k]) = Recovered(d)[j]
  BY <1>6, <1>9, <1>10
<1>12. Recovered(d) \in Client!Mix(Recovered(c), Plain(W))
  BY <1>1, <1>6, <1>11, MixOf
<1>13. /\ (IF Idle THEN <<>> ELSE Plain(req.wrote))' = <<>>
       /\ (IF Idle THEN <<>> ELSE Plain(req.wrote)) = Plain(req.wrote)
  BY <1>3 DEF Idle
<1>14. Shown' \in Client!Outcomes(Shown, Plain(W)) \cup {Unreadable}
  <2>1. CASE torn'
    BY <2>1 DEF Shown
  <2>2. CASE ~torn'
    BY <1>4, <1>12, <2>2, ShownOutcome DEF c, d
  <2>3. QED
    BY <2>1, <2>2
<1>15. QED
  BY <1>7, <1>8, <1>13, <1>14 DEF Client!StoreCrash, Shown

\* Every step is a step of the abstract store or leaves it unchanged.
LEMMA NextMaps ==
    ASSUME TypeOK, HeldInv, TypeOK', [Next]_vars
    PROVE  [Client!StoreNext]_(Client!cvars)
<1>1. ASSUME NEW kind, NEW md, NEW todo, Begin(kind, md, todo) PROVE UNCHANGED Client!cvars
  <2>1. Idle /\ ctx' = ctx /\ torn' = torn
    BY <1>1 DEF Begin
  <2>2. req'.wrote = <<>>
    BY <1>1 DEF Begin, NoRequest
  <2>3. (IF Idle THEN <<>> ELSE Plain(req.wrote))' = <<>>
    BY <2>2, PlainEmpty
  <2>4. QED
    BY <2>1, <2>3 DEF Client!cvars
<1>2. CASE BeginUpsert \/ BeginDelete
  BY <1>1, <1>2 DEF BeginUpsert, BeginDelete
<1>3. ASSUME NEW md \in Mds, BeginFilter(md) PROVE UNCHANGED Client!cvars
  BY <1>1, <1>3 DEF BeginFilter
<1>4. ASSUME NEW i \in Ids, NEW r \in Records, Upsert(i, r) PROVE Client!StoreWrite
  <2> DEFINE e == [id |-> i, cell |-> r]
  <2>1. e \in Entry /\ Replicate(e) /\ req.phase = "open" /\ torn' = torn
    BY <1>4 DEF Entry, Upsert, NextRecord
  <2>2. PrimaryWrote(e)
    BY <1>4, UpsertStep
  <2> HIDE DEF e
  <2>3. req'.phase = req.phase /\ req'.wrote = Append(req.wrote, e)
    BY <2>1, ReplicateFields
  <2>4. QED
    BY <2>1, <2>2, <2>3, StoreWrites
<1>5. ASSUME NEW i \in Ids, NEW r \in Records,
             NEW S \in SUBSET Ids, NEW tear \in BOOLEAN, UpsertFlushFails(i, r, S, tear)
      PROVE Client!StoreWrite
  <2> DEFINE e == [id |-> i, cell |-> r]
  <2>1. e \in Entry /\ req.phase = "open" /\ (torn => torn')
    BY <1>5 DEF Entry, UpsertFlushFails, NextRecord
  <2>2. PrimaryWrote(e) /\ req'.phase = "open" /\ req'.wrote = Append(req.wrote, e)
    BY <1>5, FlushFailsStep, FlushFailsHeld
  <2> HIDE DEF e
  <2>3. QED
    BY <2>1, <2>2, StoreWrites
<1>6. ASSUME NEW i \in Ids, Delete(i) PROVE Client!StoreWrite
  <2> DEFINE e == [id |-> i, cell |-> Gone]
  <2>1. e \in Entry /\ Replicate(e) /\ req.phase = "open" /\ torn' = torn
    BY <1>6 DEF Entry, Delete, NextRecord
  <2>2. PrimaryWrote(e)
    BY <1>6, DeleteStep
  <2> HIDE DEF e
  <2>3. req'.phase = req.phase /\ req'.wrote = Append(req.wrote, e)
    BY <2>1, ReplicateFields
  <2>4. QED
    BY <2>1, <2>2, <2>3, StoreWrites
<1>7. ASSUME Deliver PROVE UNCHANGED Client!cvars
  <2> DEFINE n == Head(req.pending)
             e == Last(req.wrote)
  <2>0. n = Head(req.pending) /\ e = Last(req.wrote)
    OBVIOUS
  <2> HIDE DEF n, e
  <2>1. /\ req.pending # <<>>
        /\ \A m \in Nodes \ {n} : ctx'[m] = ctx[m]
        /\ req'.phase = req.phase /\ req'.wrote = req.wrote /\ torn' = torn
    BY <1>7, <2>0, DeliverStep
  <2>2. ctx'[Primary] = ctx[Primary]
    BY <2>0, <2>1, PendingFacts, ReplicaFacts
  <2>3. QED
    BY <2>1, <2>2 DEF Client!cvars, Idle
<1>8. CASE Finish
  BY <1>8, StoreAnswers DEF Client!StoreNext
<1>9. ASSUME NEW n \in ReplicaSet, FailNode(n) \/ HealNode(n) PROVE UNCHANGED Client!cvars
  BY <1>9 DEF FailNode, HealNode, Client!cvars, Idle
<1>10. CASE CrashRestart
  BY <1>10, CrashMaps DEF Client!StoreNext
<1>11. ASSUME NEW i \in Ids, NEW r \in Records, NEW S \in SUBSET Ids,
              NEW tear \in BOOLEAN, CrashInFlush(i, r, S, tear)
       PROVE  Client!StoreCrash
  BY <1>11, CrashInFlushMaps
<1>12. CASE UNCHANGED vars
  BY <1>12 DEF vars, Client!cvars, Idle
<1>13. QED
  BY <1>2, <1>3, <1>4, <1>5, <1>6, <1>7, <1>8, <1>9, <1>10, <1>11, <1>12
     DEF Next, Client!StoreNext

\* The primary's files implement the store clients are promised: every write
\* of an answered request survives whatever crashes and failed flushes follow,
\* and of an unanswered one nothing but its own writes can appear, unless the
\* write of an SSTable is cut off inside a line: then no start reads the shard.
THEOREM Implements == Spec => ImplementsClientStore
<1>1. Init => Client!StoreInit
  <2> SUFFICES ASSUME Init PROVE Client!StoreInit
    OBVIOUS
  <2>1. ctx[Primary] = EmptyContext /\ Idle /\ ~torn
    BY ReplicaFacts, NoRequestTyped DEF Init, Idle
  <2>2. \A i \in Ids : Recovered(ctx[Primary])[i] = None
    BY <2>1, EmptyIsWhole
  <2>3. Recovered(ctx[Primary]) = [i \in Ids |-> Recovered(ctx[Primary])[i]]
    BY DEF Recovered
  <2>4. QED
    BY <2>1, <2>2, <2>3 DEF Client!StoreInit
<1>2. TypeOK /\ HeldInv /\ TypeOK' /\ [Next]_vars => [Client!StoreNext]_(Client!cvars)
  BY NextMaps
<1>3. QED
  BY <1>1, <1>2, ContextsHold, PTL DEF Spec, ImplementsClientStore, Client!StoreSpec
=============================================================================
