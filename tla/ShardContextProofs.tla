------------------------- MODULE ShardContextProofs -------------------------
(***************************************************************************)
(* What the operations of ShardContext preserve, for any ids, records and  *)
(* thresholds: the tombstones, the MemTable, the SSTables and the index    *)
(* agree with the log, and so a read agrees with a recovery.               *)
(***************************************************************************)
EXTENDS ShardContext, OrderLemmas, SequenceTheorems

USE RecordsAssumption

Logs == [Ids -> Records \cup {None, Gone}]

-----------------------------------------------------------------------------
(* Checksums *)

\* A record is alike to itself.
LEMMA AlikeRefl == \A a : Alike(a, a)
BY DEF Alike

\* Being alike is symmetric.
LEMMA AlikeSym == ASSUME NEW a, NEW b, Alike(a, b) PROVE Alike(b, a)
BY DEF Alike, SameVersion

\* Being alike is transitive.
LEMMA AlikeTrans == ASSUME NEW a, NEW b, NEW c, Alike(a, b), Alike(b, c) PROVE Alike(a, c)
BY DEF Alike, SameVersion

\* Nothing is alike to the absence of a record but that absence.
LEMMA AlikeNone == ASSUME NEW a, NEW b, Alike(a, b) PROVE a = None <=> b = None
BY DEF Alike

-----------------------------------------------------------------------------
(* The log: the last entry per id *)

Positions(s, i) == {k \in DOMAIN s : s[k].id = i}

\* An id that a log names has a last entry there.
LEMMA LastExists ==
    ASSUME NEW s \in Seq(Entry), NEW i, Positions(s, i) # {}
    PROVE  /\ LastOf(s, i) \in Positions(s, i)
           /\ \A j \in Positions(s, i) : j <= LastOf(s, i)
<1>1. Len(s) \in Nat /\ Positions(s, i) \in SUBSET (1..Len(s))
  BY DEF Positions
<1>2. \E k \in Positions(s, i) : \A j \in Positions(s, i) : j <= k
  BY <1>1, GreatestNatural
<1>3. LastOf(s, i) = CHOOSE k \in Positions(s, i) : \A j \in Positions(s, i) : j <= k
  BY DEF LastOf, Positions
<1>4. QED
  BY <1>2, <1>3

\* What a log says of an id: its last entry, or what was known before.
LEMMA OverlayShape ==
    ASSUME NEW f, NEW s, NEW i \in Ids
    PROVE  Overlay(f, s)[i] = IF Positions(s, i) # {} THEN s[LastOf(s, i)].cell ELSE f[i]
BY DEF Overlay, Positions

\* Replaying a log gives the content of a log.
LEMMA OverlayTyped ==
    ASSUME NEW f \in Logs, NEW s \in Seq(Entry)
    PROVE  Overlay(f, s) \in Logs
<1>1. ASSUME NEW i \in Ids PROVE Overlay(f, s)[i] \in Records \cup {None, Gone}
  <2>1. CASE Positions(s, i) # {}
    <3>1. LastOf(s, i) \in DOMAIN s
      BY <2>1, LastExists DEF Positions
    <3>2. s[LastOf(s, i)] \in Entry
      BY <3>1
    <3>3. QED
      BY <2>1, <3>2, OverlayShape DEF Entry
  <2>2. CASE Positions(s, i) = {}
    BY <2>2, OverlayShape DEF Logs
  <2>3. QED
    BY <2>1, <2>2
<1>2. Overlay(f, s) = [i \in Ids |-> Overlay(f, s)[i]]
  BY DEF Overlay
<1>3. QED
  BY <1>1, <1>2 DEF Logs

\* Replaying nothing changes nothing.
LEMMA OverlayEmpty ==
    ASSUME NEW f \in Logs
    PROVE  Overlay(f, <<>>) = f
<1>1. DOMAIN <<>> = {}
  OBVIOUS
<1>2. \A i \in Ids : Overlay(f, <<>>)[i] = f[i]
  BY <1>1 DEF Overlay
<1>3. QED
  BY <1>2 DEF Overlay, Logs

\* The last cell of an id is what was there or what some entry says of it.
LEMMA OverlayCases ==
    ASSUME NEW f \in Logs, NEW s \in Seq(Entry), NEW i \in Ids
    PROVE  \/ Overlay(f, s)[i] = f[i] /\ \A k \in DOMAIN s : s[k].id # i
           \/ \E k \in DOMAIN s : s[k].id = i /\ s[k].cell = Overlay(f, s)[i]
<1>1. CASE Positions(s, i) = {}
  BY <1>1, OverlayShape DEF Positions
<1>2. CASE Positions(s, i) # {}
  BY <1>2, OverlayShape, LastExists DEF Positions
<1>3. QED
  BY <1>1, <1>2

\* Appending an entry adds one position, to its own id.
LEMMA AppendPositions ==
    ASSUME NEW s \in Seq(Entry), NEW e \in Entry, NEW i \in Ids
    PROVE  /\ i # e.id => Positions(Append(s, e), i) = Positions(s, i)
           /\ i = e.id => Positions(Append(s, e), i) = Positions(s, i) \cup {Len(s) + 1}
<1>1. /\ DOMAIN Append(s, e) = 1..Len(s) + 1 /\ DOMAIN s = 1..Len(s) /\ Len(s) \in Nat
      /\ \A k \in 1..Len(s) : Append(s, e)[k] = s[k]
      /\ Append(s, e)[Len(s) + 1] = e
  OBVIOUS
<1>2. \A k : k \in 1..Len(s) + 1 <=> k \in 1..Len(s) \/ k = Len(s) + 1
  BY <1>1
<1>3. QED
  BY <1>1, <1>2 DEF Positions

\* The index of the last entry after an append.
LEMMA AppendLast ==
    ASSUME NEW s \in Seq(Entry), NEW e \in Entry, NEW i \in Ids
    PROVE  /\ i = e.id => LastOf(Append(s, e), i) = Len(s) + 1
           /\ i # e.id => LastOf(Append(s, e), i) = LastOf(s, i)
<1>1. CASE i = e.id
  <2>1. Positions(Append(s, e), i) = Positions(s, i) \cup {Len(s) + 1}
    BY <1>1, AppendPositions
  <2>2. Append(s, e) \in Seq(Entry)
    OBVIOUS
  <2>3. /\ LastOf(Append(s, e), i) \in Positions(s, i) \cup {Len(s) + 1}
        /\ Len(s) + 1 <= LastOf(Append(s, e), i)
    BY <2>1, <2>2, LastExists
  <2>4. Len(s) \in Nat /\ Positions(s, i) \subseteq 1..Len(s)
    BY DEF Positions
  <2>5. QED
    BY <1>1, <2>3, <2>4
<1>2. CASE i # e.id
  <2>1. Positions(Append(s, e), i) = Positions(s, i)
    BY <1>2, AppendPositions
  <2>2. QED
    BY <1>2, <2>1 DEF LastOf, Positions
<1>3. QED
  BY <1>1, <1>2

\* An entry replaces the cell of its id and no other.
LEMMA OverlayAppend ==
    ASSUME NEW f \in Logs, NEW s \in Seq(Entry), NEW e \in Entry
    PROVE  Overlay(f, Append(s, e)) = [Overlay(f, s) EXCEPT ![e.id] = e.cell]
<1>0. Append(s, e) \in Seq(Entry) /\ e.id \in Ids
  BY DEF Entry
<1>1. ASSUME NEW i \in Ids, i = e.id PROVE Overlay(f, Append(s, e))[i] = e.cell
  <2>1. Positions(Append(s, e), i) # {}
    BY <1>1, AppendPositions
  <2>2. Append(s, e)[LastOf(Append(s, e), i)] = e
    BY <1>1, AppendLast
  <2>3. QED
    BY <2>1, <2>2, OverlayShape
<1>2. ASSUME NEW i \in Ids, i # e.id PROVE Overlay(f, Append(s, e))[i] = Overlay(f, s)[i]
  <2>1. Positions(Append(s, e), i) = Positions(s, i)
    BY <1>2, AppendPositions
  <2>2. CASE Positions(s, i) = {}
    BY <2>1, <2>2, OverlayShape
  <2>3. CASE Positions(s, i) # {}
    <3>1. LastOf(Append(s, e), i) = LastOf(s, i)
      BY <1>2, AppendLast
    <3>2. LastOf(s, i) \in DOMAIN s
      BY <2>3, LastExists DEF Positions
    <3>3. Append(s, e)[LastOf(s, i)] = s[LastOf(s, i)]
      BY <3>2
    <3>4. Overlay(f, s)[i] = s[LastOf(s, i)].cell
      BY <2>3, OverlayShape
    <3>5. Overlay(f, Append(s, e))[i] = Append(s, e)[LastOf(Append(s, e), i)].cell
      BY <2>1, <2>3, OverlayShape
    <3>6. QED
      BY <3>1, <3>3, <3>4, <3>5
  <2>4. QED
    BY <2>2, <2>3
<1>3. Overlay(f, Append(s, e)) = [i \in Ids |-> Overlay(f, Append(s, e))[i]]
  BY DEF Overlay
<1>4. Overlay(f, s) = [i \in Ids |-> Overlay(f, s)[i]]
  BY DEF Overlay
<1>5. QED
  BY <1>0, <1>1, <1>2, <1>3, <1>4

-----------------------------------------------------------------------------
(* The operations, field by field *)

\* The log once its buffer is flushed.
Log(c) == Overlay(c.wal, c.buf)

\* A context's log, the buffered part included, is a log.
LEMMA LogTyped == ASSUME NEW c \in Context PROVE Log(c) \in Logs
BY OverlayTyped DEF Log, Context, Logs

\* The fields of a context.
LEMMA FieldTypes ==
    ASSUME NEW c \in Context
    PROVE  /\ c.wal \in Logs /\ c.buf \in Seq(Entry)
           /\ c.mem \in [Ids -> Maybe] /\ c.sst \in [Ids -> Maybe]
           /\ c.copies \in [Ids -> SUBSET Mds] /\ c.tomb \in SUBSET Ids
           /\ c.part \in [Ids -> Maybe] /\ c.partMds \in [Ids -> SUBSET Mds]
           /\ c.idx \in [Ids -> [cur : Maybe, old : BOOLEAN]]
BY DEF Context, Logs

\* A write up to the MemTable: an entry, a cell of the MemTable, the tombstones.
Wrote(c, e, m, T) == [Logged(c, e) EXCEPT !.tomb = T, !.mem[e.id] = m]

\* What appending an entry and storing its record in the MemTable changes.
LEMMA WriteFields ==
    ASSUME NEW c \in Context, NEW e \in Entry, NEW m \in Maybe, NEW T \in SUBSET Ids,
           NEW d, d = Wrote(c, e, m, T)
    PROVE  /\ d \in Context
           /\ d.wal = c.wal /\ d.sst = c.sst /\ d.copies = c.copies /\ d.idx = c.idx
           /\ d.part = c.part /\ d.partMds = c.partMds
           /\ d.buf = Append(c.buf, e)
           /\ d.mem = [c.mem EXCEPT ![e.id] = m]
           /\ d.tomb = T
           /\ Log(d) = [Log(c) EXCEPT ![e.id] = e.cell]
<1> DEFINE B == Append(c.buf, e)
           M == [c.mem EXCEPT ![e.id] = m]
           l == Logged(c, e)
<1>1. c.wal \in Logs /\ c.buf \in Seq(Entry) /\ c.mem \in [Ids -> Maybe]
  BY FieldTypes
<1>2. B \in Seq(Entry)
  BY <1>1
<1>3. M \in [Ids -> Maybe]
  BY <1>1
<1>4. l = [c EXCEPT !.buf = B]
  BY DEF Logged
<1> HIDE DEF B
<1>5. /\ l \in Context
      /\ l.wal = c.wal /\ l.sst = c.sst /\ l.copies = c.copies /\ l.idx = c.idx
      /\ l.part = c.part /\ l.partMds = c.partMds
      /\ l.buf = B /\ l.mem = c.mem
  BY <1>2, <1>4 DEF Context
<1> HIDE DEF l
<1>6. d = [l EXCEPT !.tomb = T, !.mem = M]
  <2>1. d = [l EXCEPT !.tomb = T, !.mem[e.id] = m]
    BY DEF l, Wrote
  <2>2. QED
    BY <1>5, <2>1 DEF Context
<1> HIDE DEF M
<1>7. /\ d \in Context
      /\ d.wal = l.wal /\ d.sst = l.sst /\ d.copies = l.copies /\ d.idx = l.idx
      /\ d.part = l.part /\ d.partMds = l.partMds
      /\ d.buf = l.buf /\ d.mem = M /\ d.tomb = T
  BY <1>3, <1>5, <1>6 DEF Context
<1>8. Log(d) = [Log(c) EXCEPT ![e.id] = e.cell]
  <2>1. d.wal = c.wal /\ d.buf = Append(c.buf, e)
    BY <1>5, <1>7 DEF B
  <2>2. Log(d) = Overlay(c.wal, Append(c.buf, e))
    BY <2>1 DEF Log
  <2>3. QED
    BY <1>1, <2>2, OverlayAppend DEF Log
<1>9. QED
  BY <1>5, <1>7, <1>8 DEF B, M

\* What WAL.append and segment.put of an upsert change.
LEMMA BufferedFields ==
    ASSUME NEW c \in Context, NEW i \in Ids, NEW r \in Records,
           NEW d, d = Buffered(c, i, r)
    PROVE  /\ d \in Context
           /\ d.wal = c.wal /\ d.sst = c.sst /\ d.copies = c.copies /\ d.idx = c.idx
           /\ d.part = c.part /\ d.partMds = c.partMds
           /\ d.buf = Append(c.buf, [id |-> i, cell |-> r])
           /\ d.mem = [c.mem EXCEPT ![i] = r]
           /\ d.tomb = c.tomb \ {i}
           /\ Log(d) = [Log(c) EXCEPT ![i] = r]
<1> DEFINE e == [id |-> i, cell |-> r]
           T == c.tomb \ {i}
<1>1. e \in Entry /\ e.id = i /\ e.cell = r /\ r \in Maybe
  BY DEF Entry, Maybe
<1>2. T \in SUBSET Ids /\ Logged(c, e).tomb = c.tomb
  BY DEF Logged, Context
<1>3. d = Wrote(c, e, r, T)
  BY <1>2 DEF Buffered, Wrote
<1> HIDE DEF e, T
<1>4. /\ d \in Context
      /\ d.wal = c.wal /\ d.sst = c.sst /\ d.copies = c.copies /\ d.idx = c.idx
      /\ d.part = c.part /\ d.partMds = c.partMds
      /\ d.buf = Append(c.buf, e)
      /\ d.mem = [c.mem EXCEPT ![e.id] = r]
      /\ d.tomb = T
      /\ Log(d) = [Log(c) EXCEPT ![e.id] = e.cell]
  BY <1>1, <1>2, <1>3, WriteFields
<1>5. QED
  BY <1>1, <1>4 DEF e, T

\* What a flush of the MemTable changes.
LEMMA FlushedFields ==
    ASSUME NEW c \in Context, NEW d, d = Flushed(c)
    PROVE  /\ d \in Context
           /\ d.wal = c.wal /\ d.buf = c.buf /\ d.tomb = c.tomb /\ d.idx = c.idx
           /\ d.mem = [i \in Ids |-> None]
           /\ d.partMds = c.partMds
           /\ \A i \in Ids :
                 IF c.mem[i] # None
                 THEN /\ d.sst[i] = c.mem[i] /\ d.copies[i] = c.copies[i] \cup {c.mem[i].md}
                      /\ d.part[i] = None
                 ELSE d.sst[i] = c.sst[i] /\ d.copies[i] = c.copies[i] /\ d.part[i] = c.part[i]
           /\ Log(d) = Log(c)
<1> DEFINE W == {i \in Ids : c.mem[i] # None}
           sst == [i \in Ids |-> IF i \in W THEN c.mem[i] ELSE c.sst[i]]
           cop == [i \in Ids |-> IF i \in W THEN c.copies[i] \cup {c.mem[i].md} ELSE c.copies[i]]
           prt == [i \in Ids |-> IF i \in W THEN None ELSE c.part[i]]
<1>1. /\ sst \in [Ids -> Maybe] /\ cop \in [Ids -> SUBSET Mds] /\ [i \in Ids |-> None] \in [Ids -> Maybe]
      /\ prt \in [Ids -> Maybe]
  BY DEF Context, Maybe
<1>2. d = [c EXCEPT !.mem = [i \in Ids |-> None], !.sst = sst, !.copies = cop, !.part = prt]
  BY DEF Flushed
<1> HIDE DEF sst, cop, prt
<1>3. /\ d \in Context
      /\ d.wal = c.wal /\ d.buf = c.buf /\ d.tomb = c.tomb /\ d.idx = c.idx
      /\ d.mem = [i \in Ids |-> None] /\ d.sst = sst /\ d.copies = cop /\ d.part = prt
      /\ d.partMds = c.partMds
  BY <1>1, <1>2 DEF Context
<1>4. QED
  BY <1>3 DEF sst, cop, prt, Log

\* What a flush that is cut off after the lines of S changes.
LEMMA FlushCutFields ==
    ASSUME NEW c \in Context, NEW S \in SUBSET Ids, \A i \in S : c.mem[i] # None,
           NEW d, d = FlushCut(c, S)
    PROVE  /\ d \in Context
           /\ d.wal = c.wal /\ d.buf = c.buf /\ d.tomb = c.tomb /\ d.idx = c.idx
           /\ d.mem = [i \in Ids |-> None]
           /\ d.sst = c.sst /\ d.copies = c.copies
           /\ \A i \in Ids :
                 IF i \in S
                 THEN d.part[i] = c.mem[i] /\ d.partMds[i] = c.partMds[i] \cup {c.mem[i].md}
                 ELSE d.part[i] = c.part[i] /\ d.partMds[i] = c.partMds[i]
           /\ Log(d) = Log(c)
<1> DEFINE prt == [i \in Ids |-> IF i \in S THEN c.mem[i] ELSE c.part[i]]
           mds == [i \in Ids |-> IF i \in S THEN c.partMds[i] \cup {c.mem[i].md} ELSE c.partMds[i]]
<1>1. prt \in [Ids -> Maybe] /\ mds \in [Ids -> SUBSET Mds] /\ [i \in Ids |-> None] \in [Ids -> Maybe]
  BY DEF Context, Maybe
<1>2. d = [c EXCEPT !.mem = [i \in Ids |-> None], !.part = prt, !.partMds = mds]
  BY DEF FlushCut
<1> HIDE DEF prt, mds
<1>3. /\ d \in Context
      /\ d.wal = c.wal /\ d.buf = c.buf /\ d.tomb = c.tomb /\ d.idx = c.idx
      /\ d.mem = [i \in Ids |-> None] /\ d.sst = c.sst /\ d.copies = c.copies
      /\ d.part = prt /\ d.partMds = mds
  BY <1>1, <1>2 DEF Context
<1>4. QED
  BY <1>3 DEF prt, mds, Log

\* What WAL.flush changes.
LEMMA SyncedFields ==
    ASSUME NEW c \in Context, NEW d, d = Synced(c)
    PROVE  /\ d \in Context
           /\ d.wal = Log(c) /\ d.buf = <<>>
           /\ d.mem = c.mem /\ d.sst = c.sst /\ d.copies = c.copies /\ d.tomb = c.tomb
           /\ d.part = c.part /\ d.partMds = c.partMds
           /\ d.idx = c.idx
           /\ Log(d) = Log(c)
<1>1. Log(c) \in Logs /\ <<>> \in Seq(Entry)
  BY LogTyped
<1>2. d = [c EXCEPT !.wal = Log(c), !.buf = <<>>]
  BY DEF Synced, Log
<1>3. /\ d \in Context
      /\ d.wal = Log(c) /\ d.buf = <<>>
      /\ d.mem = c.mem /\ d.sst = c.sst /\ d.copies = c.copies /\ d.tomb = c.tomb
      /\ d.part = c.part /\ d.partMds = c.partMds
      /\ d.idx = c.idx
  BY <1>1, <1>2 DEF Context, Logs
<1>4. Log(d) = Log(c)
  BY <1>1, <1>3, OverlayEmpty DEF Log
<1>5. QED
  BY <1>3, <1>4

\* A change of one id of the index.
Reindexed(c, i, x) == [c EXCEPT !.idx = [c.idx EXCEPT ![i] = x]]

\* Replacing one id's index entry changes nothing else.
LEMMA IndexFields ==
    ASSUME NEW c \in Context, NEW i \in Ids, NEW x \in [cur : Maybe, old : BOOLEAN],
           NEW d, d = Reindexed(c, i, x)
    PROVE  /\ d \in Context
           /\ d.wal = c.wal /\ d.buf = c.buf /\ d.mem = c.mem /\ d.sst = c.sst
           /\ d.copies = c.copies /\ d.tomb = c.tomb /\ Log(d) = Log(c)
           /\ d.part = c.part /\ d.partMds = c.partMds
           /\ d.idx[i] = x
           /\ \A j \in Ids \ {i} : d.idx[j] = c.idx[j]
<1> DEFINE X == [c.idx EXCEPT ![i] = x]
<1>1. c.idx \in [Ids -> [cur : Maybe, old : BOOLEAN]]
  BY FieldTypes
<1>2. /\ X \in [Ids -> [cur : Maybe, old : BOOLEAN]]
      /\ X[i] = x
      /\ \A j \in Ids \ {i} : X[j] = c.idx[j]
  BY <1>1
<1>3. d = [c EXCEPT !.idx = X]
  BY DEF Reindexed
<1> HIDE DEF X
<1>4. /\ d \in Context
      /\ d.wal = c.wal /\ d.buf = c.buf /\ d.mem = c.mem /\ d.sst = c.sst
      /\ d.copies = c.copies /\ d.tomb = c.tomb /\ d.idx = X
      /\ d.part = c.part /\ d.partMds = c.partMds
  BY <1>2, <1>3 DEF Context
<1>5. QED
  BY <1>2, <1>4 DEF Log

\* What index.add changes.
LEMMA IndexedFields ==
    ASSUME NEW c \in Context, NEW i \in Ids, NEW r \in Records, NEW d, d = Indexed(c, i, r)
    PROVE  /\ d \in Context
           /\ d.wal = c.wal /\ d.buf = c.buf /\ d.mem = c.mem /\ d.sst = c.sst
           /\ d.copies = c.copies /\ d.tomb = c.tomb /\ Log(d) = Log(c)
           /\ d.part = c.part /\ d.partMds = c.partMds
           /\ d.idx[i].cur = r
           /\ \A j \in Ids \ {i} : d.idx[j] = c.idx[j]
<1> DEFINE x == [cur |-> r, old |-> c.idx[i].old \/ c.idx[i].cur # None]
<1>1. x \in [cur : Maybe, old : BOOLEAN] /\ x.cur = r
  BY DEF Context, Maybe
<1>2. d = Reindexed(c, i, x)
  BY DEF Indexed, Reindexed, Context
<1> HIDE DEF x
<1>3. QED
  BY <1>1, <1>2, IndexFields

\* What a delete changes: log, MemTable, tombstones and the id's label.
LEMMA DeletedFields ==
    ASSUME NEW c \in Context, NEW i \in Ids, NEW d, d = Deleted(c, i)
    PROVE  /\ d \in Context
           /\ d.wal = c.wal /\ d.sst = c.sst /\ d.copies = c.copies
           /\ d.part = c.part /\ d.partMds = c.partMds
           /\ d.buf = Append(c.buf, [id |-> i, cell |-> Gone])
           /\ d.mem = [c.mem EXCEPT ![i] = None]
           /\ d.tomb = c.tomb \cup {i}
           /\ d.idx[i].cur = None /\ (~Native => ~d.idx[i].old)
           /\ \A j \in Ids \ {i} : d.idx[j] = c.idx[j]
           /\ Log(d) = [Log(c) EXCEPT ![i] = Gone]
<1> DEFINE e == [id |-> i, cell |-> Gone]
           T == c.tomb \cup {i}
           x == [cur |-> None, old |-> Native /\ c.idx[i].old]
           b == Wrote(c, e, None, T)
<1>1. e \in Entry /\ e.id = i /\ e.cell = Gone /\ None \in Maybe
  BY DEF Entry, Maybe
<1>2. T \in SUBSET Ids /\ Logged(c, e).tomb = c.tomb
  BY DEF Logged, Context
<1>3. x \in [cur : Maybe, old : BOOLEAN] /\ x.cur = None /\ (~Native => ~x.old)
  BY NativeAssumption DEF Context, Maybe
<1>4. d = Unindexed(b, i)
  BY <1>2 DEF Deleted, Wrote
<1> HIDE DEF e, T
<1>5. /\ b \in Context
      /\ b.wal = c.wal /\ b.sst = c.sst /\ b.copies = c.copies /\ b.idx = c.idx
      /\ b.part = c.part /\ b.partMds = c.partMds
      /\ b.buf = Append(c.buf, e)
      /\ b.mem = [c.mem EXCEPT ![e.id] = None]
      /\ b.tomb = T
      /\ Log(b) = [Log(c) EXCEPT ![e.id] = e.cell]
  BY <1>1, <1>2, WriteFields
<1> HIDE DEF b
<1>6. d = Reindexed(b, i, x)
  BY <1>4, <1>5 DEF Unindexed, Reindexed, Context
<1> HIDE DEF x
<1>7. /\ d \in Context
      /\ d.wal = b.wal /\ d.buf = b.buf /\ d.mem = b.mem /\ d.sst = b.sst
      /\ d.copies = b.copies /\ d.tomb = b.tomb /\ Log(d) = Log(b)
      /\ d.part = b.part /\ d.partMds = b.partMds
      /\ d.idx[i] = x
      /\ \A j \in Ids \ {i} : d.idx[j] = b.idx[j]
  BY <1>3, <1>5, <1>6, IndexFields
<1>8. QED
  BY <1>1, <1>3, <1>5, <1>7 DEF e, T

-----------------------------------------------------------------------------
(* What the operations preserve *)

\* The value of an id whose log says w and whose copy in the SSTable files is s.
Resolve(w, s) == IF w = None THEN s ELSE IF w = Gone THEN None ELSE w

\* What recovery brings back once the whole buffer is flushed.
Final(c, i) == Resolve(Log(c)[i], TableAt(c, i))

\* Tombstones and MemTable agree with the log, and a filter sees every copy.
SoundAt(c, i) ==
    /\ i \in c.tomb <=> Log(c)[i] = Gone
    /\ c.mem[i] # None => Log(c)[i] = c.mem[i]
    /\ c.sst[i] # None => c.sst[i].md \in c.copies[i]
    /\ c.part[i] # None => c.part[i].md \in c.partMds[i]
    /\ ~Native /\ c.idx[i].cur = None => ~c.idx[i].old

\* A logged record is in the MemTable or its vector is in an SSTable, and every
\* line on disk is in an SSTable that reads see.
StoredAt(c, i) ==
    /\ Log(c)[i] \in Records /\ c.mem[i] = None => Alike(c.sst[i], Log(c)[i])
    /\ c.part[i] = None

\* The newest vector in the index is the one a fetch returns.
IndexedAt(c, i) == Alike(c.idx[i].cur, Fetch(c, i))

Sound(c) == \A i \in Ids : SoundAt(c, i)
Whole(c) == \A i \in Ids : StoredAt(c, i) /\ IndexedAt(c, i)

\* What the fields of a context hold for one id.
LEMMA CellTypes ==
    ASSUME NEW c \in Context, NEW i \in Ids
    PROVE  /\ c.wal[i] \in Records \cup {None, Gone} /\ Log(c)[i] \in Records \cup {None, Gone}
           /\ c.mem[i] \in Records \cup {None} /\ c.sst[i] \in Records \cup {None}
           /\ c.copies[i] \in SUBSET Mds /\ c.partMds[i] \in SUBSET Mds
           /\ c.part[i] \in Records \cup {None} /\ TableAt(c, i) \in Records \cup {None}
           /\ c.idx[i] \in [cur : Maybe, old : BOOLEAN]
<1>1. Log(c) \in Logs
  BY LogTyped
<1>2. QED
  BY <1>1, FieldTypes DEF Logs, Maybe, TableAt

\* A read returns what a flush and a restart would bring back.
LEMMA FetchIsFinal ==
    ASSUME NEW c \in Context, NEW i \in Ids, SoundAt(c, i), StoredAt(c, i)
    PROVE  Alike(Fetch(c, i), Final(c, i))
<1>1. /\ Log(c)[i] \in Records \cup {None, Gone}
      /\ c.mem[i] \in Records \cup {None} /\ c.sst[i] \in Records \cup {None}
  BY CellTypes
<1>2. QED
  BY <1>1 DEF SoundAt, StoredAt, Fetch, SegGet, Final, Resolve, Alike, TableAt

\* Recovery decides each id from its last log entry and its newest SSTable copy.
LEMMA RecoveredAt ==
    ASSUME NEW c, NEW i \in Ids
    PROVE  Recovered(c)[i] = Resolve(c.wal[i], TableAt(c, i))
BY DEF Recovered, Resolve

\* A new context is consistent and empty.
LEMMA EmptyIsWhole ==
    /\ EmptyContext \in Context
    /\ Sound(EmptyContext) /\ Whole(EmptyContext)
    /\ EmptyContext.buf = <<>>
    /\ \A i \in Ids : Recovered(EmptyContext)[i] = None /\ Final(EmptyContext, i) = None
<1> DEFINE c == EmptyContext
           N == [i \in Ids |-> None]
           K == [i \in Ids |-> {}]
           X == [i \in Ids |-> [cur |-> None, old |-> FALSE]]
<1>1. N \in [Ids -> Maybe] /\ N \in [Ids -> Records \cup {None, Gone}] /\ K \in [Ids -> SUBSET Mds]
      /\ X \in [Ids -> [cur : Maybe, old : BOOLEAN]] /\ <<>> \in Seq(Entry)
  BY DEF Maybe
<1>2. c = [wal |-> N, buf |-> <<>>, mem |-> N, sst |-> N, copies |-> K, part |-> N,
           partMds |-> K, tomb |-> {}, idx |-> X]
  BY DEF EmptyContext
<1> HIDE DEF c
<1>3. /\ c.wal = N /\ c.buf = <<>> /\ c.mem = N /\ c.sst = N /\ c.tomb = {} /\ c.idx = X
      /\ c.part = N
  BY <1>2
<1>4. c \in Context
  <2> HIDE DEF N, K, X
  <2>1. QED
    BY <1>1, <1>2 DEF Context
<1>5. Log(c) = N
  BY <1>1, <1>3, OverlayEmpty DEF Log, Logs
<1>6. ASSUME NEW i \in Ids
      PROVE  /\ c.wal[i] = None /\ c.mem[i] = None /\ c.sst[i] = None /\ i \notin c.tomb
             /\ c.part[i] = None
             /\ c.idx[i].cur = None /\ c.idx[i].old = FALSE /\ Log(c)[i] = None
  BY <1>3, <1>5
<1>7. ASSUME NEW i \in Ids PROVE SoundAt(c, i) /\ StoredAt(c, i) /\ IndexedAt(c, i)
  BY <1>6 DEF SoundAt, StoredAt, IndexedAt, Fetch, SegGet, Alike
<1>8. ASSUME NEW i \in Ids PROVE Recovered(c)[i] = None /\ Final(c, i) = None
  BY <1>6, RecoveredAt DEF Final, Resolve, TableAt
<1>9. QED
  BY <1>3, <1>4, <1>7, <1>8 DEF Sound, Whole, c

\* An upsert up to the MemTable, flushed or not: what it leaves of every id.
LEMMA BufferedKeeps ==
    ASSUME NEW c \in Context, NEW i \in Ids, NEW r \in Records,
           NEW d, d = Buffered(c, i, r), Sound(c)
    PROVE  /\ Sound(d)
           /\ Whole(c) => \A j \in Ids : StoredAt(d, j)
           /\ Fetch(d, i) = r
           /\ \A j \in Ids \ {i} : Fetch(d, j) = Fetch(c, j)
<1>1. /\ d \in Context
      /\ d.wal = c.wal /\ d.sst = c.sst /\ d.copies = c.copies /\ d.idx = c.idx
      /\ d.part = c.part /\ d.partMds = c.partMds
      /\ d.buf = Append(c.buf, [id |-> i, cell |-> r])
      /\ d.mem = [c.mem EXCEPT ![i] = r]
      /\ d.tomb = c.tomb \ {i}
      /\ Log(d) = [Log(c) EXCEPT ![i] = r]
  BY BufferedFields
<1>2. c.mem \in [Ids -> Maybe] /\ Log(c) \in Logs
  BY FieldTypes, LogTyped
<1>3. /\ d.mem[i] = r /\ Log(d)[i] = r
      /\ \A j \in Ids \ {i} : d.mem[j] = c.mem[j] /\ Log(d)[j] = Log(c)[j]
  BY <1>1, <1>2 DEF Logs
<1>4. r # None /\ r # Gone
  OBVIOUS
<1>5. ASSUME NEW j \in Ids PROVE SoundAt(d, j)
  <2>1. SoundAt(c, j)
    BY DEF Sound
  <2>2. CASE j = i
    BY <1>1, <1>3, <1>4, <2>1, <2>2 DEF SoundAt
  <2>3. CASE j # i
    BY <1>1, <1>3, <2>1, <2>3 DEF SoundAt
  <2>4. QED
    BY <2>2, <2>3
<1>6. ASSUME Whole(c), NEW j \in Ids PROVE StoredAt(d, j)
  BY <1>1, <1>3, <1>4, <1>6 DEF StoredAt, Whole
<1>7. Fetch(d, i) = r
  BY <1>1, <1>3, <1>4 DEF Fetch, SegGet
<1>8. ASSUME NEW j \in Ids \ {i} PROVE Fetch(d, j) = Fetch(c, j)
  BY <1>1, <1>3 DEF Fetch, SegGet
<1>9. QED
  BY <1>5, <1>6, <1>7, <1>8 DEF Sound

\* An upsert decides what its own id will be recovered as, and no other.
LEMMA BufferedFinal ==
    ASSUME NEW c \in Context, NEW i \in Ids, NEW r \in Records, NEW d, d = Buffered(c, i, r)
    PROVE  /\ Final(d, i) = r
           /\ \A j \in Ids \ {i} : Final(d, j) = Final(c, j)
<1>1. /\ d \in Context
      /\ d.wal = c.wal /\ d.sst = c.sst /\ d.copies = c.copies /\ d.idx = c.idx
      /\ d.part = c.part /\ d.partMds = c.partMds
      /\ d.buf = Append(c.buf, [id |-> i, cell |-> r])
      /\ d.mem = [c.mem EXCEPT ![i] = r]
      /\ d.tomb = c.tomb \ {i}
      /\ Log(d) = [Log(c) EXCEPT ![i] = r]
  BY BufferedFields
<1>2. Log(c) \in Logs /\ r # None /\ r # Gone
  BY LogTyped
<1>3. /\ Log(d)[i] = r
      /\ \A j \in Ids \ {i} : Log(d)[j] = Log(c)[j]
  BY <1>1, <1>2 DEF Logs
<1>4. QED
  BY <1>1, <1>2, <1>3 DEF Final, Resolve, TableAt

\* An upsert up to the MemTable leaves the SSTables alone.
LEMMA BufferedTables ==
    ASSUME NEW c \in Context, NEW i \in Ids, NEW r \in Records, NEW d, d = Buffered(c, i, r)
    PROVE  /\ d \in Context
           /\ d.wal = c.wal /\ d.buf = Append(c.buf, [id |-> i, cell |-> r])
           /\ \A j \in Ids : TableAt(d, j) = TableAt(c, j)
<1>1. /\ d \in Context
      /\ d.wal = c.wal /\ d.sst = c.sst /\ d.copies = c.copies /\ d.idx = c.idx
      /\ d.part = c.part /\ d.partMds = c.partMds
      /\ d.buf = Append(c.buf, [id |-> i, cell |-> r])
      /\ d.mem = [c.mem EXCEPT ![i] = r]
      /\ d.tomb = c.tomb \ {i}
      /\ Log(d) = [Log(c) EXCEPT ![i] = r]
  BY BufferedFields
<1>2. QED
  BY <1>1 DEF TableAt

\* A flush moves MemTable records to the SSTables and leaves log and index alone.
LEMMA FlushedTables ==
    ASSUME NEW c \in Context, NEW d, d = Flushed(c)
    PROVE  /\ d \in Context
           /\ d.wal = c.wal /\ d.buf = c.buf /\ d.idx = c.idx /\ Log(d) = Log(c)
           /\ \A k \in Ids : \/ TableAt(d, k) = TableAt(c, k)
                             \/ c.mem[k] # None /\ TableAt(d, k) = c.mem[k]
<1>1. \A i \in Ids :
         IF c.mem[i] # None
         THEN /\ d.sst[i] = c.mem[i] /\ d.copies[i] = c.copies[i] \cup {c.mem[i].md}
              /\ d.part[i] = None
         ELSE d.sst[i] = c.sst[i] /\ d.copies[i] = c.copies[i] /\ d.part[i] = c.part[i]
  BY FlushedFields
<1>2. /\ d \in Context
      /\ d.wal = c.wal /\ d.buf = c.buf /\ d.idx = c.idx /\ Log(d) = Log(c)
  BY FlushedFields
<1>3. QED
  BY <1>1, <1>2 DEF TableAt

\* So does one that is cut off, as far as its lines go.
LEMMA FlushCutTables ==
    ASSUME NEW c \in Context, NEW S \in SUBSET Ids, \A i \in S : c.mem[i] # None,
           NEW d, d = FlushCut(c, S)
    PROVE  /\ d \in Context
           /\ d.wal = c.wal /\ d.buf = c.buf /\ d.idx = c.idx /\ Log(d) = Log(c)
           /\ \A k \in Ids : \/ TableAt(d, k) = TableAt(c, k)
                             \/ c.mem[k] # None /\ TableAt(d, k) = c.mem[k]
<1>1. /\ d \in Context
      /\ d.wal = c.wal /\ d.buf = c.buf /\ d.idx = c.idx /\ Log(d) = Log(c)
      /\ d.sst = c.sst
      /\ \A i \in Ids :
            IF i \in S
            THEN d.part[i] = c.mem[i] /\ d.partMds[i] = c.partMds[i] \cup {c.mem[i].md}
            ELSE d.part[i] = c.part[i] /\ d.partMds[i] = c.partMds[i]
  BY FlushCutFields
<1>2. QED
  BY <1>1 DEF TableAt

\* A table that takes a record from the MemTable does not change what will be recovered: the log
\* has that record as its last.
LEMMA TablesFinal ==
    ASSUME NEW c \in Context, NEW d, NEW j \in Ids, SoundAt(c, j), Log(d)[j] = Log(c)[j],
           \/ TableAt(d, j) = TableAt(c, j)
           \/ c.mem[j] # None /\ TableAt(d, j) = c.mem[j]
    PROVE  Final(d, j) = Final(c, j)
<1>1. CASE TableAt(d, j) = TableAt(c, j)
  BY <1>1 DEF Final
<1>2. CASE c.mem[j] # None
  <2>1. Log(c)[j] = c.mem[j] /\ c.mem[j] \in Records
    BY <1>2, CellTypes DEF SoundAt
  <2>2. QED
    BY <2>1 DEF Final, Resolve
<1>3. QED
  BY <1>1, <1>2

\* A flush of the MemTable changes neither what will be recovered nor what is read.
LEMMA FlushedKeeps ==
    ASSUME NEW c \in Context, NEW d, d = Flushed(c), Sound(c)
    PROVE  /\ Sound(d)
           /\ \A j \in Ids : /\ Final(d, j) = Final(c, j)
                             /\ StoredAt(c, j) => StoredAt(d, j)
                             /\ Fetch(d, j) = Fetch(c, j)
<1>1. /\ d.tomb = c.tomb /\ d.idx = c.idx
      /\ d.mem = [i \in Ids |-> None]
      /\ d.partMds = c.partMds
      /\ \A i \in Ids :
            IF c.mem[i] # None
            THEN /\ d.sst[i] = c.mem[i] /\ d.copies[i] = c.copies[i] \cup {c.mem[i].md}
                 /\ d.part[i] = None
            ELSE d.sst[i] = c.sst[i] /\ d.copies[i] = c.copies[i] /\ d.part[i] = c.part[i]
      /\ Log(d) = Log(c)
  BY FlushedFields
<1>2. ASSUME NEW j \in Ids PROVE d.mem[j] = None
  BY <1>1
<1>3. ASSUME NEW j \in Ids
      PROVE  SoundAt(d, j) /\ (StoredAt(c, j) => StoredAt(d, j)) /\ Fetch(d, j) = Fetch(c, j)
  <2>1. SoundAt(c, j) /\ c.mem[j] \in Records \cup {None}
    BY CellTypes DEF Sound
  <2>2. CASE c.mem[j] # None
    <3>1. /\ d.sst[j] = c.mem[j] /\ d.copies[j] = c.copies[j] \cup {c.mem[j].md}
          /\ d.part[j] = None
      BY <1>1, <2>2
    <3>2. Log(c)[j] = c.mem[j] /\ c.mem[j] # Gone
      BY <2>1, <2>2 DEF SoundAt
    <3>3. SoundAt(d, j)
      BY <1>1, <1>2, <2>1, <2>2, <3>1, <3>2 DEF SoundAt
    <3>4. QED
      BY <1>1, <1>2, <2>2, <3>1, <3>2, <3>3 DEF StoredAt, Alike, Fetch, SegGet
  <2>3. CASE c.mem[j] = None
    <3>1. d.sst[j] = c.sst[j] /\ d.copies[j] = c.copies[j] /\ d.part[j] = c.part[j]
      BY <1>1, <2>3
    <3>2. QED
      BY <1>1, <1>2, <2>1, <2>3, <3>1 DEF SoundAt, StoredAt, Fetch, SegGet
  <2>4. QED
    BY <2>2, <2>3
<1>4. ASSUME NEW j \in Ids PROVE Final(d, j) = Final(c, j)
  <2>1. Log(d) = Log(c) /\ SoundAt(c, j)
    BY <1>1 DEF Sound
  <2>2. TableAt(d, j) = TableAt(c, j) \/ (c.mem[j] # None /\ TableAt(d, j) = c.mem[j])
    BY FlushedTables
  <2>3. QED
    BY <2>1, <2>2, TablesFinal
<1>5. QED
  BY <1>3, <1>4 DEF Sound

\* One that is cut off does not change what will be recovered either.
LEMMA FlushCutKeeps ==
    ASSUME NEW c \in Context, NEW S \in SUBSET Ids, \A i \in S : c.mem[i] # None,
           NEW d, d = FlushCut(c, S), Sound(c)
    PROVE  /\ Sound(d)
           /\ \A j \in Ids : Final(d, j) = Final(c, j)
<1>1. /\ d.tomb = c.tomb /\ d.idx = c.idx
      /\ d.mem = [i \in Ids |-> None]
      /\ d.sst = c.sst /\ d.copies = c.copies
      /\ \A i \in Ids :
            IF i \in S
            THEN d.part[i] = c.mem[i] /\ d.partMds[i] = c.partMds[i] \cup {c.mem[i].md}
            ELSE d.part[i] = c.part[i] /\ d.partMds[i] = c.partMds[i]
      /\ Log(d) = Log(c)
  BY FlushCutFields
<1>2. ASSUME NEW j \in Ids PROVE d.mem[j] = None
  BY <1>1
<1>3. ASSUME NEW j \in Ids PROVE SoundAt(d, j)
  <2>1. SoundAt(c, j)
    BY DEF Sound
  <2>2. CASE j \in S
    <3>1. d.part[j] = c.mem[j] /\ d.partMds[j] = c.partMds[j] \cup {c.mem[j].md}
      BY <1>1, <2>2
    <3>2. QED
      BY <1>1, <1>2, <2>1, <3>1 DEF SoundAt
  <2>3. CASE j \notin S
    <3>1. d.part[j] = c.part[j] /\ d.partMds[j] = c.partMds[j]
      BY <1>1, <2>3
    <3>2. QED
      BY <1>1, <1>2, <2>1, <3>1 DEF SoundAt
  <2>4. QED
    BY <2>2, <2>3
<1>4. ASSUME NEW j \in Ids PROVE Final(d, j) = Final(c, j)
  <2>1. Log(d) = Log(c) /\ SoundAt(c, j)
    BY <1>1 DEF Sound
  <2>2. TableAt(d, j) = TableAt(c, j) \/ (c.mem[j] # None /\ TableAt(d, j) = c.mem[j])
    BY FlushCutTables
  <2>3. QED
    BY <2>1, <2>2, TablesFinal
<1>5. QED
  BY <1>3, <1>4 DEF Sound

\* index.add changes neither reads nor recovery, and makes its own id current.
LEMMA IndexedKeeps ==
    ASSUME NEW c \in Context, NEW i \in Ids, NEW r \in Records, NEW d, d = Indexed(c, i, r),
           Sound(c)
    PROVE  /\ Sound(d)
           /\ \A j \in Ids : /\ StoredAt(d, j) <=> StoredAt(c, j)
                             /\ Fetch(d, j) = Fetch(c, j)
                             /\ Final(d, j) = Final(c, j)
           /\ Fetch(c, i) = r => IndexedAt(d, i)
           /\ \A j \in Ids \ {i} : d.idx[j] = c.idx[j]
<1>1. /\ d \in Context
      /\ d.wal = c.wal /\ d.buf = c.buf /\ d.mem = c.mem /\ d.sst = c.sst
      /\ d.copies = c.copies /\ d.tomb = c.tomb /\ Log(d) = Log(c)
      /\ d.part = c.part /\ d.partMds = c.partMds
      /\ d.idx[i].cur = r
      /\ \A j \in Ids \ {i} : d.idx[j] = c.idx[j]
  BY IndexedFields
<1>2. r # None
  OBVIOUS
<1>3. ASSUME NEW j \in Ids PROVE SoundAt(d, j)
  <2>1. SoundAt(c, j)
    BY DEF Sound
  <2>2. CASE j = i
    BY <1>1, <1>2, <2>1, <2>2 DEF SoundAt
  <2>3. CASE j # i
    BY <1>1, <2>1, <2>3 DEF SoundAt
  <2>4. QED
    BY <2>2, <2>3
<1>4. ASSUME NEW j \in Ids
      PROVE  /\ StoredAt(d, j) <=> StoredAt(c, j)
             /\ Fetch(d, j) = Fetch(c, j)
             /\ Final(d, j) = Final(c, j)
  BY <1>1 DEF StoredAt, Fetch, SegGet, Final, TableAt
<1>5. Fetch(c, i) = r => IndexedAt(d, i)
  BY <1>1, <1>4 DEF IndexedAt, Alike
<1>6. QED
  BY <1>1, <1>3, <1>4, <1>5 DEF Sound

\* What an upsert writes to the log and to the SSTables.
LEMMA UpsertedLogs ==
    ASSUME NEW c \in Context, NEW i \in Ids, NEW r \in Records, NEW d, d = Upserted(c, i, r),
           Sound(c)
    PROVE  /\ d.wal = c.wal /\ d.buf = Append(c.buf, [id |-> i, cell |-> r])
           /\ Log(d) = [Log(c) EXCEPT ![i] = r]
           /\ \A j \in Ids : \/ TableAt(d, j) = TableAt(c, j)
                             \/ TableAt(d, j) = Log(d)[j] /\ TableAt(d, j) # None
<1> DEFINE p == Buffered(c, i, r)
           q == IF ShouldFlush(p) THEN Flushed(p) ELSE p
<1>1. /\ p \in Context
      /\ p.wal = c.wal /\ p.sst = c.sst /\ p.copies = c.copies /\ p.idx = c.idx
      /\ p.part = c.part /\ p.partMds = c.partMds
      /\ p.buf = Append(c.buf, [id |-> i, cell |-> r])
      /\ p.mem = [c.mem EXCEPT ![i] = r]
      /\ p.tomb = c.tomb \ {i}
      /\ Log(p) = [Log(c) EXCEPT ![i] = r]
  BY BufferedFields
<1>2. /\ Sound(p)
      /\ Whole(c) => \A j \in Ids : StoredAt(p, j)
      /\ Fetch(p, i) = r
      /\ \A j \in Ids \ {i} : Fetch(p, j) = Fetch(c, j)
  BY BufferedKeeps
<1>3. d = Indexed(q, i, r)
  BY DEF Upserted
<1> HIDE DEF p
<1>4. /\ q \in Context /\ q.wal = p.wal /\ q.buf = p.buf /\ q.idx = p.idx /\ Log(q) = Log(p)
      /\ \A j \in Ids : \/ TableAt(q, j) = TableAt(p, j)
                        \/ TableAt(q, j) = Log(p)[j] /\ TableAt(q, j) # None
  <2>1. CASE q = p
    BY <1>1, <2>1
  <2>2. CASE q = Flushed(p)
    <3> HIDE DEF q
    <3>0. p \in Context
      BY <1>1
    <3>1. /\ q \in Context
          /\ q.wal = p.wal /\ q.buf = p.buf /\ q.idx = p.idx /\ Log(q) = Log(p)
          /\ \A k \in Ids : \/ TableAt(q, k) = TableAt(p, k)
                            \/ p.mem[k] # None /\ TableAt(q, k) = p.mem[k]
      BY <2>2, <3>0, FlushedTables
    <3>2. \A j \in Ids : p.mem[j] # None => Log(p)[j] = p.mem[j]
      BY <1>2 DEF Sound, SoundAt
    <3>3. QED
      BY <3>1, <3>2
  <2>3. QED
    BY <2>1, <2>2
<1> HIDE DEF q
<1>5. /\ d \in Context
      /\ d.wal = q.wal /\ d.buf = q.buf /\ d.mem = q.mem /\ d.sst = q.sst
      /\ d.copies = q.copies /\ d.tomb = q.tomb /\ Log(d) = Log(q)
      /\ d.part = q.part /\ d.partMds = q.partMds
      /\ d.idx[i].cur = r
      /\ \A j \in Ids \ {i} : d.idx[j] = q.idx[j]
  BY <1>3, <1>4, IndexedFields
<1>6. QED
  BY <1>1, <1>4, <1>5 DEF TableAt

\* An upsert.
LEMMA UpsertedKeeps ==
    ASSUME NEW c \in Context, NEW i \in Ids, NEW r \in Records, NEW d, d = Upserted(c, i, r),
           Sound(c)
    PROVE  /\ d \in Context /\ Sound(d)
           /\ Whole(c) => Whole(d)
           /\ Fetch(d, i) = r /\ Final(d, i) = r
           /\ \A j \in Ids \ {i} : Fetch(d, j) = Fetch(c, j) /\ Final(d, j) = Final(c, j)
<1> DEFINE p == Buffered(c, i, r)
           q == IF ShouldFlush(p) THEN Flushed(p) ELSE p
<1>1. /\ p \in Context
      /\ p.wal = c.wal /\ p.sst = c.sst /\ p.copies = c.copies /\ p.idx = c.idx
      /\ p.part = c.part /\ p.partMds = c.partMds
      /\ p.buf = Append(c.buf, [id |-> i, cell |-> r])
      /\ p.mem = [c.mem EXCEPT ![i] = r]
      /\ p.tomb = c.tomb \ {i}
      /\ Log(p) = [Log(c) EXCEPT ![i] = r]
  BY BufferedFields
<1>2. /\ Sound(p)
      /\ Whole(c) => \A j \in Ids : StoredAt(p, j)
      /\ Fetch(p, i) = r
      /\ \A j \in Ids \ {i} : Fetch(p, j) = Fetch(c, j)
  BY BufferedKeeps
<1>3. d = Indexed(q, i, r)
  BY DEF Upserted
<1>6. /\ Final(p, i) = r
      /\ \A j \in Ids \ {i} : Final(p, j) = Final(c, j)
  BY BufferedFinal
<1> HIDE DEF p
<1>7. /\ q \in Context /\ q.wal = p.wal /\ q.buf = p.buf /\ q.idx = p.idx /\ Log(q) = Log(p)
      /\ \A j \in Ids : \/ TableAt(q, j) = TableAt(p, j)
                        \/ TableAt(q, j) = Log(p)[j] /\ TableAt(q, j) # None
  <2>1. CASE q = p
    BY <1>1, <2>1
  <2>2. CASE q = Flushed(p)
    <3> HIDE DEF q
    <3>0. p \in Context
      BY <1>1
    <3>1. /\ q \in Context
          /\ q.wal = p.wal /\ q.buf = p.buf /\ q.idx = p.idx /\ Log(q) = Log(p)
          /\ \A k \in Ids : \/ TableAt(q, k) = TableAt(p, k)
                            \/ p.mem[k] # None /\ TableAt(q, k) = p.mem[k]
      BY <2>2, <3>0, FlushedTables
    <3>2. \A j \in Ids : p.mem[j] # None => Log(p)[j] = p.mem[j]
      BY <1>2 DEF Sound, SoundAt
    <3>3. QED
      BY <3>1, <3>2
  <2>3. QED
    BY <2>1, <2>2
<1>8. /\ Sound(q)
      /\ \A j \in Ids : /\ Final(q, j) = Final(p, j)
                        /\ StoredAt(p, j) => StoredAt(q, j)
                        /\ Fetch(q, j) = Fetch(p, j)
  <2>1. CASE q = p
    BY <1>2, <2>1
  <2>2. CASE q = Flushed(p)
    <3> HIDE DEF q
    <3>1. QED
      BY <1>1, <1>2, <2>2, FlushedKeeps
  <2>3. QED
    BY <2>1, <2>2
<1> HIDE DEF q
<1>9. /\ d \in Context
      /\ d.wal = q.wal /\ d.buf = q.buf /\ d.mem = q.mem /\ d.sst = q.sst
      /\ d.copies = q.copies /\ d.tomb = q.tomb /\ Log(d) = Log(q)
      /\ d.part = q.part /\ d.partMds = q.partMds
      /\ d.idx[i].cur = r
      /\ \A j \in Ids \ {i} : d.idx[j] = q.idx[j]
  BY <1>3, <1>7, IndexedFields
<1>10. /\ Sound(d)
       /\ \A j \in Ids : /\ StoredAt(d, j) <=> StoredAt(q, j)
                         /\ Fetch(d, j) = Fetch(q, j)
                         /\ Final(d, j) = Final(q, j)
       /\ Fetch(q, i) = r => IndexedAt(d, i)
       /\ \A j \in Ids \ {i} : d.idx[j] = q.idx[j]
  BY <1>3, <1>7, <1>8, IndexedKeeps
<1>11. ASSUME Whole(c), NEW j \in Ids PROVE StoredAt(d, j) /\ IndexedAt(d, j)
  <2>1. StoredAt(d, j)
    BY <1>2, <1>8, <1>10, <1>11
  <2>2. CASE j = i
    BY <1>2, <1>8, <1>10, <2>1, <2>2
  <2>3. CASE j # i
    <3>1. d.idx[j] = c.idx[j] /\ Fetch(d, j) = Fetch(c, j)
      BY <1>1, <1>2, <1>7, <1>8, <1>9, <1>10, <2>3
    <3>2. QED
      BY <1>11, <2>1, <3>1 DEF Whole, IndexedAt
  <2>4. QED
    BY <2>2, <2>3
<1>12. QED
  BY <1>1, <1>2, <1>6, <1>7, <1>8, <1>9, <1>10, <1>11 DEF Whole

\* A delete.
LEMMA DeletedAll ==
    ASSUME NEW c \in Context, NEW i \in Ids, NEW d, d = Deleted(c, i), Sound(c)
    PROVE  /\ d \in Context /\ Sound(d)
           /\ Whole(c) => Whole(d)
           /\ d.wal = c.wal /\ d.buf = Append(c.buf, [id |-> i, cell |-> Gone])
           /\ \A j \in Ids : TableAt(d, j) = TableAt(c, j)
           /\ Log(d) = [Log(c) EXCEPT ![i] = Gone]
           /\ Fetch(d, i) = None /\ Final(d, i) = None
           /\ \A j \in Ids \ {i} : Fetch(d, j) = Fetch(c, j) /\ Final(d, j) = Final(c, j)
<1>1. /\ d \in Context
      /\ d.wal = c.wal /\ d.sst = c.sst /\ d.copies = c.copies
      /\ d.part = c.part /\ d.partMds = c.partMds
      /\ d.buf = Append(c.buf, [id |-> i, cell |-> Gone])
      /\ d.mem = [c.mem EXCEPT ![i] = None]
      /\ d.tomb = c.tomb \cup {i}
      /\ d.idx[i].cur = None /\ (~Native => ~d.idx[i].old)
      /\ \A j \in Ids \ {i} : d.idx[j] = c.idx[j]
      /\ Log(d) = [Log(c) EXCEPT ![i] = Gone]
  BY DeletedFields
<1>2. c.mem \in [Ids -> Maybe] /\ Log(c) \in Logs
  BY FieldTypes, LogTyped
<1>3. /\ d.mem[i] = None /\ Log(d)[i] = Gone
      /\ \A j \in Ids \ {i} : d.mem[j] = c.mem[j] /\ Log(d)[j] = Log(c)[j]
  BY <1>1, <1>2 DEF Logs
<1>4. Gone # None /\ Gone \notin Records
  OBVIOUS
<1>5. ASSUME NEW j \in Ids PROVE SoundAt(d, j) /\ (Whole(c) => StoredAt(d, j) /\ IndexedAt(d, j))
  <2>1. SoundAt(c, j)
    BY DEF Sound
  <2>2. CASE j = i
    BY <1>1, <1>3, <1>4, <2>1, <2>2 DEF SoundAt, Whole, StoredAt, IndexedAt, Fetch, Alike
  <2>3. CASE j # i
    BY <1>1, <1>3, <2>1, <2>3 DEF SoundAt, Whole, StoredAt, IndexedAt, Fetch, SegGet
  <2>4. QED
    BY <2>2, <2>3
<1>6. Fetch(d, i) = None /\ Final(d, i) = None
  BY <1>1, <1>3, <1>4 DEF Fetch, Final, Resolve
<1>7. ASSUME NEW j \in Ids \ {i} PROVE Fetch(d, j) = Fetch(c, j) /\ Final(d, j) = Final(c, j)
  BY <1>1, <1>3 DEF Fetch, SegGet, Final, TableAt
<1>8. \A j \in Ids : TableAt(d, j) = TableAt(c, j)
  BY <1>1 DEF TableAt
<1>9. QED
  BY <1>1, <1>5, <1>6, <1>7, <1>8 DEF Sound, Whole

\* A delete keeps a context sound, hides its id and no other.
LEMMA DeletedKeeps ==
    ASSUME NEW c \in Context, NEW i \in Ids, NEW d, d = Deleted(c, i), Sound(c)
    PROVE  /\ d \in Context /\ Sound(d)
           /\ Whole(c) => Whole(d)
           /\ Fetch(d, i) = None /\ Final(d, i) = None
           /\ \A j \in Ids \ {i} : Fetch(d, j) = Fetch(c, j) /\ Final(d, j) = Final(c, j)
<1>1. /\ d \in Context /\ Sound(d)
      /\ Whole(c) => Whole(d)
      /\ d.wal = c.wal /\ d.buf = Append(c.buf, [id |-> i, cell |-> Gone])
      /\ \A j \in Ids : TableAt(d, j) = TableAt(c, j)
      /\ Log(d) = [Log(c) EXCEPT ![i] = Gone]
      /\ Fetch(d, i) = None /\ Final(d, i) = None
      /\ \A j \in Ids \ {i} : Fetch(d, j) = Fetch(c, j) /\ Final(d, j) = Final(c, j)
  BY DeletedAll
<1>2. QED
  BY <1>1

\* A delete is logged as the last entry of its id.
LEMMA DeletedLogs ==
    ASSUME NEW c \in Context, NEW i \in Ids, NEW d, d = Deleted(c, i), Sound(c)
    PROVE  /\ d.wal = c.wal /\ d.buf = Append(c.buf, [id |-> i, cell |-> Gone])
           /\ \A j \in Ids : TableAt(d, j) = TableAt(c, j)
           /\ Log(d) = [Log(c) EXCEPT ![i] = Gone]
BY DeletedAll

\* A flush of the log: what is recovered is then what was final before.
LEMMA SyncedKeeps ==
    ASSUME NEW c \in Context, NEW d, d = Synced(c), Sound(c)
    PROVE  /\ d \in Context /\ Sound(d)
           /\ Whole(c) => Whole(d)
           /\ d.buf = <<>> /\ d.wal = Log(c) /\ Log(d) = Log(c)
           /\ \A j \in Ids : /\ Fetch(d, j) = Fetch(c, j)
                             /\ TableAt(d, j) = TableAt(c, j)
                             /\ Final(d, j) = Final(c, j)
                             /\ Recovered(d)[j] = Final(c, j)
<1>1. /\ d \in Context
      /\ d.wal = Log(c) /\ d.buf = <<>>
      /\ d.mem = c.mem /\ d.sst = c.sst /\ d.copies = c.copies /\ d.tomb = c.tomb
      /\ d.part = c.part /\ d.partMds = c.partMds
      /\ d.idx = c.idx
      /\ Log(d) = Log(c)
  BY SyncedFields
<1>2. ASSUME NEW j \in Ids
      PROVE  /\ SoundAt(d, j)
             /\ Whole(c) => StoredAt(d, j) /\ IndexedAt(d, j)
             /\ Fetch(d, j) = Fetch(c, j)
             /\ TableAt(d, j) = TableAt(c, j)
             /\ Final(d, j) = Final(c, j)
  BY <1>1 DEF Sound, SoundAt, Whole, StoredAt, IndexedAt, Fetch, SegGet, Final, TableAt
<1>3. ASSUME NEW j \in Ids PROVE Recovered(d)[j] = Final(c, j)
  BY <1>1, RecoveredAt DEF Final, TableAt
<1>4. QED
  BY <1>1, <1>2, <1>3 DEF Sound, Whole

\* An unflushed log is empty once it is flushed.
LEMMA FlushedLogIsFinal ==
    ASSUME NEW c \in Context, c.buf = <<>>, NEW j \in Ids
    PROVE  Recovered(c)[j] = Final(c, j)
<1>1. Log(c) = c.wal
  BY OverlayEmpty, FieldTypes DEF Log
<1>2. QED
  BY <1>1, RecoveredAt DEF Final

\* What SegmentStore.__init__ loads.
LEMMA LoadedFields ==
    ASSUME NEW c \in Context, NEW d, d = Loaded(c)
    PROVE  /\ d \in Context
           /\ d.wal = c.wal /\ d.buf = c.buf
           /\ \A i \in Ids : /\ d.sst[i] = TableAt(c, i) /\ d.part[i] = None
                             /\ d.copies[i] = c.copies[i] \cup c.partMds[i]
<1> DEFINE S == [i \in Ids |-> TableAt(c, i)]
           K == [i \in Ids |-> c.copies[i] \cup c.partMds[i]]
           N == [i \in Ids |-> None]
           E == [i \in Ids |-> {}]
<1>1. S \in [Ids -> Maybe]
  BY CellTypes DEF Maybe
<1>2. K \in [Ids -> SUBSET Mds] /\ N \in [Ids -> Maybe] /\ E \in [Ids -> SUBSET Mds]
  BY CellTypes DEF Maybe
<1>3. d = [c EXCEPT !.sst = S, !.copies = K, !.part = N, !.partMds = E]
  BY DEF Loaded
<1> HIDE DEF S, K, N, E
<1>4. /\ d \in Context
      /\ d.wal = c.wal /\ d.buf = c.buf
      /\ d.sst = S /\ d.copies = K /\ d.part = N
  BY <1>1, <1>2, <1>3 DEF Context
<1>5. QED
  BY <1>4 DEF S, K, N

\* What ShardContext.__init__ rebuilds from log and SSTables.
LEMMA OpenedFields ==
    ASSUME NEW c \in Context, NEW d, d = Opened(c)
    PROVE  /\ d \in Context
           /\ d.wal = c.wal /\ d.buf = <<>>
           /\ Log(d) = c.wal
           /\ \A i \in Ids :
                 /\ d.sst[i] = TableAt(c, i) /\ d.part[i] = None
                 /\ d.copies[i] = c.copies[i] \cup c.partMds[i]
                 /\ i \in d.tomb <=> c.wal[i] = Gone
                 /\ d.mem[i] = IF Recovered(c)[i] # None /\ ~Alike(Recovered(c)[i], TableAt(c, i))
                               THEN Recovered(c)[i] ELSE None
                 /\ d.idx[i].cur = Recovered(c)[i] /\ ~d.idx[i].old
<1> DEFINE rec == Recovered(c)
           M == [i \in Ids |-> IF rec[i] # None /\ ~Alike(rec[i], TableAt(c, i)) THEN rec[i] ELSE None]
           T == {i \in Ids : c.wal[i] = Gone}
           X == [i \in Ids |-> [cur |-> rec[i], old |-> FALSE]]
           l == Loaded(c)
<1>1. ASSUME NEW i \in Ids PROVE rec[i] \in Maybe
  BY CellTypes, RecoveredAt DEF Resolve, Maybe
<1> HIDE DEF rec
<1>2. M \in [Ids -> Maybe]
  BY <1>1 DEF Maybe
<1>3. T \in SUBSET Ids /\ <<>> \in Seq(Entry)
  OBVIOUS
<1>4. X \in [Ids -> [cur : Maybe, old : BOOLEAN]]
  BY <1>1
<1>5. d = [l EXCEPT !.buf = <<>>, !.mem = M, !.tomb = T, !.idx = X]
  BY DEF Opened, rec
<1>6. /\ l \in Context
      /\ l.wal = c.wal
      /\ \A i \in Ids : /\ l.sst[i] = TableAt(c, i) /\ l.part[i] = None
                        /\ l.copies[i] = c.copies[i] \cup c.partMds[i]
  BY LoadedFields
<1> HIDE DEF M, T, X, l
<1>7. /\ d \in Context
      /\ d.wal = l.wal /\ d.sst = l.sst /\ d.copies = l.copies /\ d.part = l.part
      /\ d.buf = <<>> /\ d.mem = M /\ d.tomb = T /\ d.idx = X
  BY <1>2, <1>3, <1>4, <1>5, <1>6 DEF Context
<1>8. Log(d) = c.wal
  BY <1>6, <1>7, OverlayEmpty, FieldTypes DEF Log
<1>9. ASSUME NEW i \in Ids
      PROVE  /\ i \in T <=> c.wal[i] = Gone
             /\ M[i] = IF rec[i] # None /\ ~Alike(rec[i], TableAt(c, i)) THEN rec[i] ELSE None
             /\ X[i].cur = rec[i] /\ ~X[i].old
  BY DEF M, T, X
<1>10. QED
  BY <1>6, <1>7, <1>8, <1>9 DEF rec

\* The newest copy of an id in the files is one a filter will see.
LEMMA TableScanned ==
    ASSUME NEW c, NEW i \in Ids, SoundAt(c, i)
    PROVE  TableAt(c, i) # None => TableAt(c, i).md \in c.copies[i] \cup c.partMds[i]
BY DEF SoundAt, TableAt

\* Recovery restores every agreement, whatever was lost with the process.
LEMMA OpenedKeeps ==
    ASSUME NEW c \in Context, NEW d, d = Opened(c),
           \A i \in Ids : TableAt(c, i) # None => TableAt(c, i).md \in c.copies[i] \cup c.partMds[i]
    PROVE  Sound(d) /\ Whole(d)
<1>1. /\ d \in Context
      /\ d.wal = c.wal /\ d.buf = <<>>
      /\ Log(d) = c.wal
      /\ \A i \in Ids :
            /\ d.sst[i] = TableAt(c, i) /\ d.part[i] = None
            /\ d.copies[i] = c.copies[i] \cup c.partMds[i]
            /\ i \in d.tomb <=> c.wal[i] = Gone
            /\ d.mem[i] = IF Recovered(c)[i] # None /\ ~Alike(Recovered(c)[i], TableAt(c, i))
                          THEN Recovered(c)[i] ELSE None
            /\ d.idx[i].cur = Recovered(c)[i] /\ ~d.idx[i].old
  BY OpenedFields
<1>2. ASSUME NEW i \in Ids PROVE SoundAt(d, i) /\ StoredAt(d, i) /\ IndexedAt(d, i)
  <2>1. /\ c.wal[i] \in Records \cup {None, Gone} /\ TableAt(c, i) \in Records \cup {None}
        /\ Recovered(c)[i] = Resolve(c.wal[i], TableAt(c, i))
    BY CellTypes, RecoveredAt
  <2> DEFINE w == c.wal[i]
             s == TableAt(c, i)
             r == Recovered(c)[i]
  <2>2. /\ i \in d.tomb <=> w = Gone
        /\ d.mem[i] = IF r # None /\ ~Alike(r, s) THEN r ELSE None
        /\ d.idx[i].cur = r /\ ~d.idx[i].old
        /\ Log(d)[i] = w /\ d.sst[i] = s /\ d.part[i] = None
        /\ s # None => s.md \in d.copies[i]
    BY <1>1
  <2>3. w \in Records \cup {None, Gone} /\ s \in Records \cup {None} /\ r = Resolve(w, s)
    BY <2>1
  <2> HIDE DEF w, s, r
  <2>4. Alike(s, s) /\ (Alike(r, s) => Alike(s, r)) /\ Alike(r, r) /\ Alike(None, None)
    BY AlikeRefl, AlikeSym
  <2>5. CASE w = None
    <3>1. r = s /\ d.mem[i] = None
      BY <2>2, <2>3, <2>4, <2>5 DEF Resolve
    <3>2. QED
      BY <2>2, <2>3, <2>4, <2>5, <3>1 DEF SoundAt, StoredAt, IndexedAt, Fetch, SegGet
  <2>6. CASE w = Gone
    <3>1. r = None /\ d.mem[i] = None /\ w # None /\ w \notin Records
      BY <2>2, <2>3, <2>6 DEF Resolve
    <3>2. QED
      BY <2>2, <2>4, <2>6, <3>1 DEF SoundAt, StoredAt, IndexedAt, Fetch
  <2>7. CASE w \in Records
    <3>1. r = w /\ r # None /\ w # Gone
      BY <2>3, <2>7 DEF Resolve
    <3>2. CASE Alike(r, s)
      BY <2>2, <2>4, <3>1, <3>2 DEF SoundAt, StoredAt, IndexedAt, Fetch, SegGet
    <3>3. CASE ~Alike(r, s)
      BY <2>2, <2>4, <3>1, <3>3 DEF SoundAt, StoredAt, IndexedAt, Fetch, SegGet
    <3>4. QED
      BY <3>2, <3>3
  <2>8. QED
    BY <2>3, <2>5, <2>6, <2>7
<1>3. QED
  BY <1>2 DEF Sound, Whole

\* A restart after the first k buffered entries were flushed.
LEMMA ReopenedKeeps ==
    ASSUME NEW c \in Context, NEW k \in 0..Len(c.buf), NEW d, d = Reopened(c, k), Sound(c)
    PROVE  /\ d \in Context /\ Sound(d) /\ Whole(d)
           /\ d.buf = <<>> /\ Log(d) = d.wal
           /\ \A j \in Ids : TableAt(d, j) = TableAt(c, j)
           /\ d.wal = Overlay(c.wal, SubSeq(c.buf, 1, k))
           /\ k = 0 => d.wal = c.wal
           /\ \A j \in Ids : \/ d.wal[j] = c.wal[j]
                             \/ \E m \in DOMAIN c.buf : c.buf[m].id = j /\ c.buf[m].cell = d.wal[j]
<1> DEFINE B == SubSeq(c.buf, 1, k)
           b == [c EXCEPT !.buf = B]
           s == Synced(b)
<1>1. /\ c.buf \in Seq(Entry) /\ c.wal \in Logs /\ Len(c.buf) \in Nat
      /\ DOMAIN c.buf = 1..Len(c.buf)
  BY FieldTypes
<1>2. /\ B \in Seq(Entry) /\ DOMAIN B = 1..k
      /\ \A m \in 1..k : m \in DOMAIN c.buf /\ B[m] = c.buf[m]
      /\ k = 0 => B = <<>>
  BY <1>1
<1> HIDE DEF B
<1>3. /\ b \in Context
      /\ b.wal = c.wal /\ b.sst = c.sst /\ b.copies = c.copies /\ b.buf = B
      /\ b.part = c.part /\ b.partMds = c.partMds
  BY <1>2 DEF Context
<1>4. d = Opened(s)
  BY DEF Reopened, B
<1> HIDE DEF b
<1>5. /\ s \in Context
      /\ s.wal = Log(b) /\ s.sst = b.sst /\ s.copies = b.copies
      /\ s.part = b.part /\ s.partMds = b.partMds
  BY <1>3, SyncedFields
<1>6. \A i \in Ids : /\ TableAt(s, i) = TableAt(c, i)
                     /\ TableAt(s, i) # None => TableAt(s, i).md \in s.copies[i] \cup s.partMds[i]
  <2>1. \A i \in Ids : TableAt(s, i) = TableAt(c, i)
    BY <1>3, <1>5 DEF TableAt
  <2>2. \A i \in Ids : TableAt(c, i) # None => TableAt(c, i).md \in c.copies[i] \cup c.partMds[i]
    BY TableScanned DEF Sound
  <2>3. s.copies = c.copies /\ s.partMds = c.partMds
    BY <1>3, <1>5
  <2>4. QED
    BY <2>1, <2>2, <2>3
<1> HIDE DEF s
<1>7. /\ d \in Context
      /\ d.wal = s.wal /\ d.buf = <<>>
      /\ \A i \in Ids : d.sst[i] = TableAt(s, i) /\ d.part[i] = None
  BY <1>4, <1>5, OpenedFields
<1>8. Sound(d) /\ Whole(d)
  BY <1>4, <1>5, <1>6, OpenedKeeps
<1>9. d.wal = Overlay(c.wal, B)
  BY <1>3, <1>5, <1>7 DEF Log
<1>10. k = 0 => d.wal = c.wal
  BY <1>1, <1>2, <1>9, OverlayEmpty
<1>11. ASSUME NEW j \in Ids
       PROVE  \/ d.wal[j] = c.wal[j]
              \/ \E m \in DOMAIN c.buf : c.buf[m].id = j /\ c.buf[m].cell = d.wal[j]
  <2>1. \/ Overlay(c.wal, B)[j] = c.wal[j]
        \/ \E m \in DOMAIN B : B[m].id = j /\ B[m].cell = Overlay(c.wal, B)[j]
    BY <1>1, <1>2, OverlayCases
  <2>2. QED
    BY <1>2, <1>9, <2>1
<1>12. Log(d) = d.wal
  BY <1>7, OverlayEmpty, FieldTypes DEF Log
<1>13. \A j \in Ids : TableAt(d, j) = TableAt(c, j)
  BY <1>6, <1>7 DEF TableAt
<1>14. QED
  BY <1>3, <1>5, <1>7, <1>8, <1>9, <1>10, <1>11, <1>12, <1>13 DEF B

\* A replicated delete, flushed on the replica.
LEMMA ReplicaDeletedKeeps ==
    ASSUME NEW c \in Context, NEW i \in Ids, NEW d, d = ReplicaDeleted(c, i),
           Sound(c), Whole(c), c.buf = <<>>
    PROVE  /\ d \in Context /\ Sound(d) /\ Whole(d) /\ d.buf = <<>>
           /\ Recovered(d)[i] = None
           /\ \A j \in Ids \ {i} : Recovered(d)[j] = Recovered(c)[j]
<1> DEFINE p == Deleted(c, i)
<1>0. p = Deleted(c, i)
  OBVIOUS
<1> HIDE DEF p
<1>1. /\ p \in Context /\ Sound(p)
      /\ Whole(c) => Whole(p)
      /\ Fetch(p, i) = None /\ Final(p, i) = None
      /\ \A j \in Ids \ {i} : Fetch(p, j) = Fetch(c, j) /\ Final(p, j) = Final(c, j)
  BY <1>0, DeletedKeeps
<1>2. d = Synced(p)
  BY <1>0 DEF ReplicaDeleted
<1>3. /\ d \in Context /\ Sound(d) /\ Whole(d) /\ d.buf = <<>>
      /\ \A j \in Ids : Recovered(d)[j] = Final(p, j)
  BY <1>1, <1>2, SyncedKeeps
<1>4. QED
  BY <1>1, <1>3, FlushedLogIsFinal

\* A replicated upsert: the replica then has the record, unless it took it for
\* one it had and does not have it.
LEMMA ReplicaUpsertedKeeps ==
    ASSUME NEW c \in Context, NEW i \in Ids, NEW r \in Records, NEW d, d = ReplicaUpserted(c, i, r),
           Sound(c), Whole(c), c.buf = <<>>
    PROVE  /\ d \in Context /\ Sound(d) /\ Whole(d) /\ d.buf = <<>>
           /\ ~(AlreadyApplied(c, i, r) /\ Recovered(c)[i] # r) => Recovered(d)[i] = r
           /\ \A j \in Ids \ {i} : Recovered(d)[j] = Recovered(c)[j]
<1>1. CASE AlreadyApplied(c, i, r)
  <2>1. d = c
    BY <1>1 DEF ReplicaUpserted
  <2>2. QED
    BY <1>1, <2>1
<1>2. CASE ~AlreadyApplied(c, i, r)
  <2> DEFINE p == Upserted(c, i, r)
  <2>0. p = Upserted(c, i, r)
    OBVIOUS
  <2> HIDE DEF p
  <2>1. /\ p \in Context /\ Sound(p)
        /\ Whole(c) => Whole(p)
        /\ Fetch(p, i) = r /\ Final(p, i) = r
        /\ \A j \in Ids \ {i} : Fetch(p, j) = Fetch(c, j) /\ Final(p, j) = Final(c, j)
    BY <2>0, UpsertedKeeps
  <2>2. d = Synced(p)
    BY <1>2, <2>0 DEF ReplicaUpserted
  <2>3. /\ d \in Context /\ Sound(d) /\ Whole(d) /\ d.buf = <<>>
        /\ \A j \in Ids : Recovered(d)[j] = Final(p, j)
    BY <2>1, <2>2, SyncedKeeps
  <2>4. QED
    BY <2>1, <2>3, FlushedLogIsFinal
<1>3. QED
  BY <1>1, <1>2

\* The context an upsert leaves when the write of its SSTable is cut off: the
\* log has the record all the same, and the files only what the log says.
LEMMA TornFlush ==
    ASSUME NEW c \in Context, Sound(c), NEW i \in Ids, NEW r \in Records, NEW S \in SUBSET Ids,
           \A j \in S : Buffered(c, i, r).mem[j] # None,
           NEW p, p = FlushCut(Buffered(c, i, r), S)
    PROVE  /\ p \in Context /\ Sound(p)
           /\ p.wal = c.wal /\ p.buf = Append(c.buf, [id |-> i, cell |-> r])
           /\ Final(p, i) = r
           /\ \A j \in Ids \ {i} : Final(p, j) = Final(c, j)
           /\ \A j \in Ids : \/ TableAt(p, j) = TableAt(c, j)
                             \/ TableAt(p, j) # None /\ TableAt(p, j) = Log(p)[j]
<1> DEFINE b == Buffered(c, i, r)
<1>0. b = Buffered(c, i, r)
  OBVIOUS
<1>1. p = FlushCut(b, S) /\ \A j \in S : b.mem[j] # None
  OBVIOUS
<1> HIDE DEF b
<1>2. /\ b \in Context
      /\ b.wal = c.wal /\ b.buf = Append(c.buf, [id |-> i, cell |-> r])
      /\ \A j \in Ids : TableAt(b, j) = TableAt(c, j)
  BY <1>0, BufferedTables
<1>3. Sound(b)
  BY <1>0, BufferedKeeps
<1>4. Final(b, i) = r /\ \A j \in Ids \ {i} : Final(b, j) = Final(c, j)
  BY <1>0, BufferedFinal
<1>5. Sound(p) /\ \A j \in Ids : Final(p, j) = Final(b, j)
  BY <1>1, <1>2, <1>3, FlushCutKeeps
<1>6. /\ p \in Context
      /\ p.wal = b.wal /\ p.buf = b.buf /\ Log(p) = Log(b)
      /\ \A j \in Ids : TableAt(p, j) = TableAt(b, j) \/ (b.mem[j] # None /\ TableAt(p, j) = b.mem[j])
  BY <1>1, <1>2, FlushCutTables
<1>7. \A j \in Ids : b.mem[j] # None => Log(b)[j] = b.mem[j]
  BY <1>3 DEF Sound, SoundAt
<1>8. \A j \in Ids : \/ TableAt(p, j) = TableAt(c, j)
                     \/ TableAt(p, j) # None /\ TableAt(p, j) = Log(p)[j]
  BY <1>2, <1>6, <1>7
<1>9. QED
  BY <1>2, <1>4, <1>5, <1>6, <1>8
=============================================================================
