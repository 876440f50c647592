------------------------------ MODULE WALProofs -----------------------------
(***************************************************************************)
(* Proofs about WAL, for any set of entries, any number of segments and    *)
(* any mix of crashes, rotations and closes: an entry is logged at most    *)
(* once, what was readable stays readable, and an acknowledged entry is    *)
(* read back unless it is one of the named exceptions.                     *)
(***************************************************************************)
EXTENDS WAL, SequenceTheorems, TLAPS

USE SegmentAssumption, TornAssumption

-----------------------------------------------------------------------------
(* Sequences without repetition *)

Cell == Entries \cup {Torn}

\* No entry is in s twice; torn remains may be.
Once(s) == \A i, j \in DOMAIN s : s[i] = s[j] /\ s[i] # Torn => i = j

\* The empty batch holds no entry.
LEMMA NoEntries ==
    /\ ToSet(<<>>) = {}
    /\ Once(<<>>)
    /\ <<>> \in Seq(Entries)
    /\ <<>> \in Seq(Cell)
<1>1. DOMAIN <<>> = {}
  OBVIOUS
<1>2. ToSet(<<>>) = {}
  BY <1>1 DEF ToSet
<1>3. Once(<<>>)
  BY <1>1 DEF Once
<1>4. <<>> \in Seq(Entries)
  OBVIOUS
<1>5. <<>> \in Seq(Cell)
  OBVIOUS
<1>6. QED
  BY <1>2, <1>3, <1>4, <1>5

\* Concatenation of batches is associative.
LEMMA ConcatThree ==
    ASSUME NEW r \in Seq(Cell), NEW s \in Seq(Cell), NEW t \in Seq(Cell)
    PROVE  (r \o s) \o t = r \o (s \o t)
BY ConcatAssociative

\* One entry is left exactly when the tail of the batch is empty.
LEMMA LastEntry ==
    ASSUME NEW s \in Seq(Entries), s # <<>>
    PROVE  (Len(s) = 1) <=> (Tail(s) = <<>>)
<1>1. Tail(s) \in Seq(Entries) /\ Len(Tail(s)) = Len(s) - 1 /\ Len(s) \in Nat
  OBVIOUS
<1>2. Tail(s) = <<>> <=> Len(Tail(s)) = 0
  BY <1>1, EmptySeq
<1>3. QED
  BY <1>1, <1>2

\* Appending adds one entry to the set of a sequence.
LEMMA AppendSet ==
    ASSUME NEW s \in Seq(Cell), NEW e \in Cell
    PROVE  ToSet(Append(s, e)) = ToSet(s) \cup {e}
<1>1. /\ DOMAIN Append(s, e) = 1..Len(s) + 1
      /\ \A i \in 1..Len(s) : Append(s, e)[i] = s[i]
      /\ Append(s, e)[Len(s) + 1] = e
  OBVIOUS
<1>2. DOMAIN s = 1..Len(s) /\ Len(s) \in Nat
  OBVIOUS
<1>3. ToSet(Append(s, e)) \subseteq ToSet(s) \cup {e}
  BY <1>1, <1>2 DEF ToSet
<1>4. ToSet(s) \cup {e} \subseteq ToSet(Append(s, e))
  BY <1>1, <1>2 DEF ToSet
<1>5. QED
  BY <1>3, <1>4

\* Appending a new entry repeats none.
LEMMA AppendOnce ==
    ASSUME NEW s \in Seq(Cell), NEW e \in Cell, Once(s), e \notin ToSet(s)
    PROVE  Once(Append(s, e))
<1>1. /\ DOMAIN Append(s, e) = 1..Len(s) + 1
      /\ \A i \in 1..Len(s) : Append(s, e)[i] = s[i]
      /\ Append(s, e)[Len(s) + 1] = e
  OBVIOUS
<1>2. DOMAIN s = 1..Len(s) /\ Len(s) \in Nat
  OBVIOUS
<1>3. QED
  BY <1>1, <1>2 DEF Once, ToSet

\* Taking the head of a batch without repetition removes exactly that entry.
LEMMA TailSet ==
    ASSUME NEW s \in Seq(Cell), s # <<>>, Once(s), Torn \notin ToSet(s)
    PROVE  /\ ToSet(s) = {Head(s)} \cup ToSet(Tail(s))
           /\ Head(s) \notin ToSet(Tail(s))
           /\ Once(Tail(s))
<1>1. /\ Len(s) \in Nat \ {0} /\ DOMAIN s = 1..Len(s) /\ Head(s) = s[1]
      /\ DOMAIN Tail(s) = 1..Len(s) - 1
      /\ \A i \in 1..Len(s) - 1 : Tail(s)[i] = s[i + 1]
  OBVIOUS
<1>2. ToSet(s) \subseteq {Head(s)} \cup ToSet(Tail(s))
  <2> SUFFICES ASSUME NEW i \in 1..Len(s), i # 1 PROVE s[i] \in ToSet(Tail(s))
    BY <1>1 DEF ToSet
  <2>1. i - 1 \in 1..Len(s) - 1 /\ Tail(s)[i - 1] = s[i]
    BY <1>1
  <2>2. QED
    BY <1>1, <2>1 DEF ToSet
<1>3. {Head(s)} \cup ToSet(Tail(s)) \subseteq ToSet(s)
  BY <1>1 DEF ToSet
<1>4. Head(s) \notin ToSet(Tail(s))
  BY <1>1 DEF ToSet, Once
<1>5. Once(Tail(s))
  BY <1>1 DEF ToSet, Once
<1>6. QED
  BY <1>2, <1>3, <1>4, <1>5

\* A prefix has some of the entries, and none twice.
LEMMA PrefixSet ==
    ASSUME NEW s \in Seq(Cell), NEW n \in 0..Len(s)
    PROVE  /\ SubSeq(s, 1, n) \in Seq(Cell)
           /\ ToSet(SubSeq(s, 1, n)) \subseteq ToSet(s)
           /\ Once(s) => Once(SubSeq(s, 1, n))
<1>1. /\ DOMAIN SubSeq(s, 1, n) = 1..n /\ DOMAIN s = 1..Len(s)
      /\ \A i \in 1..n : SubSeq(s, 1, n)[i] = s[i]
  OBVIOUS
<1>2. QED
  BY <1>1 DEF ToSet, Once

\* A concatenation holds what its parts hold.
LEMMA ConcatSet ==
    ASSUME NEW s \in Seq(Cell), NEW t \in Seq(Cell)
    PROVE  ToSet(s \o t) = ToSet(s) \cup ToSet(t)
<1>1. /\ DOMAIN (s \o t) = 1..Len(s) + Len(t) /\ DOMAIN s = 1..Len(s) /\ DOMAIN t = 1..Len(t)
      /\ \A i \in 1..Len(s) : (s \o t)[i] = s[i]
      /\ \A i \in 1..Len(t) : (s \o t)[Len(s) + i] = t[i]
      /\ Len(s) \in Nat /\ Len(t) \in Nat
  OBVIOUS
<1>2. ToSet(s \o t) \subseteq ToSet(s) \cup ToSet(t)
  <2> SUFFICES ASSUME NEW i \in 1..Len(s) + Len(t), i \notin 1..Len(s)
               PROVE  (s \o t)[i] \in ToSet(t)
    BY <1>1 DEF ToSet
  <2>1. i - Len(s) \in 1..Len(t) /\ Len(s) + (i - Len(s)) = i
    BY <1>1
  <2>2. (s \o t)[i] = t[i - Len(s)]
    BY <1>1, <2>1
  <2>3. QED
    BY <1>1, <2>1, <2>2 DEF ToSet
<1>3. ToSet(s) \cup ToSet(t) \subseteq ToSet(s \o t)
  <2>1. \A i \in 1..Len(t) : Len(s) + i \in 1..Len(s) + Len(t)
    BY <1>1
  <2>2. \A i \in 1..Len(t) : t[i] = (s \o t)[Len(s) + i] /\ Len(s) + i \in DOMAIN (s \o t)
    BY <1>1, <2>1
  <2>3. \A i \in 1..Len(s) : s[i] = (s \o t)[i] /\ i \in DOMAIN (s \o t)
    BY <1>1
  <2>4. QED
    BY <1>1, <2>2, <2>3 DEF ToSet
<1>4. QED
  BY <1>2, <1>3

-----------------------------------------------------------------------------
(* The segment files *)

FilesOK == files \in [Segments -> Seq(Cell)]

\* The slots of the segment files and the entries in them, as quantifiers.
LEMMA SlotShape ==
    /\ \A p : p \in Slots <=> \E s \in Segments : \E i \in DOMAIN files[s] : p = <<s, i>>
    /\ \A e : e \in Written <=>
                 e # Torn /\ \E s \in Segments : \E i \in DOMAIN files[s] : e = files[s][i]
<1>1. \A p : p \in Slots <=> \E s \in Segments : \E i \in DOMAIN files[s] : p = <<s, i>>
  BY DEF Slots
<1>2. \A e : e \in Written <=> e # Torn /\ \E p \in Slots : e = files[p[1]][p[2]]
  BY DEF Written, At
<1>3. ASSUME NEW e PROVE (\E p \in Slots : e = files[p[1]][p[2]]) <=>
                         \E s \in Segments : \E i \in DOMAIN files[s] : e = files[s][i]
  <2>1. ASSUME NEW p \in Slots, e = files[p[1]][p[2]]
        PROVE  \E s \in Segments : \E i \in DOMAIN files[s] : e = files[s][i]
    BY <1>1, <2>1
  <2>2. ASSUME NEW s \in Segments, NEW i \in DOMAIN files[s], e = files[s][i]
        PROVE  \E p \in Slots : e = files[p[1]][p[2]]
    <3>1. <<s, i>> \in Slots /\ <<s, i>>[1] = s /\ <<s, i>>[2] = i
      BY <1>1
    <3>2. QED
      BY <2>2, <3>1
  <2>3. QED
    BY <2>1, <2>2
<1>4. QED
  BY <1>1, <1>2, <1>3

\* The same of the next state.
LEMMA SlotShapeNext ==
    /\ \A p : p \in Slots' <=> \E s \in Segments : \E i \in DOMAIN files'[s] : p = <<s, i>>
    /\ \A e : e \in Written' <=>
                 e # Torn /\ \E s \in Segments : \E i \in DOMAIN files'[s] : e = files'[s][i]
<1>1. \A p : p \in Slots' <=> \E s \in Segments : \E i \in DOMAIN files'[s] : p = <<s, i>>
  BY DEF Slots
<1>2. \A e : e \in Written' <=> e # Torn /\ \E p \in Slots' : e = files'[p[1]][p[2]]
  BY DEF Written, At
<1>3. ASSUME NEW e PROVE (\E p \in Slots' : e = files'[p[1]][p[2]]) <=>
                         \E s \in Segments : \E i \in DOMAIN files'[s] : e = files'[s][i]
  <2>1. ASSUME NEW p \in Slots', e = files'[p[1]][p[2]]
        PROVE  \E s \in Segments : \E i \in DOMAIN files'[s] : e = files'[s][i]
    BY <1>1, <2>1
  <2>2. ASSUME NEW s \in Segments, NEW i \in DOMAIN files'[s], e = files'[s][i]
        PROVE  \E p \in Slots' : e = files'[p[1]][p[2]]
    <3>1. <<s, i>> \in Slots' /\ <<s, i>>[1] = s /\ <<s, i>>[2] = i
      BY <1>1
    <3>2. QED
      BY <2>2, <3>1
  <2>3. QED
    BY <2>1, <2>2
<1>4. QED
  BY <1>1, <1>2, <1>3

\* The open file takes x at its end.
Grows(x) == files' = [files EXCEPT ![file] = @ \o x]

\* Writing to the open segment keeps every slot and adds the written cells behind them.
LEMMA GrownFiles ==
    ASSUME FilesOK, file \in Segments, NEW x \in Seq(Cell), Grows(x)
    PROVE  /\ FilesOK'
           /\ \A s \in Segments : \A i \in DOMAIN files[s] :
                 i \in DOMAIN files'[s] /\ files'[s][i] = files[s][i]
           /\ \A s \in Segments : \A i \in DOMAIN files'[s] :
                 \/ i \in DOMAIN files[s]
                 \/ s = file /\ i - Len(files[file]) \in DOMAIN x
                       /\ files'[s][i] = x[i - Len(files[file])]
           /\ \A i \in DOMAIN x : /\ Len(files[file]) + i \in DOMAIN files'[file]
                                  /\ files'[file][Len(files[file]) + i] = x[i]
<1> DEFINE f == files[file]
<1>1. f \in Seq(Cell) /\ files'[file] = f \o x /\ \A s \in Segments \ {file} : files'[s] = files[s]
  BY DEF FilesOK, Grows
<1>2. /\ DOMAIN (f \o x) = 1..Len(f) + Len(x) /\ DOMAIN f = 1..Len(f) /\ DOMAIN x = 1..Len(x)
      /\ Len(f) \in Nat /\ Len(x) \in Nat
      /\ f \o x \in Seq(Cell)
      /\ \A i \in 1..Len(f) : (f \o x)[i] = f[i]
  BY <1>1
<1>3. \A i \in 1..Len(x) : (f \o x)[Len(f) + i] = x[i] /\ Len(f) + i \in 1..Len(f) + Len(x)
  BY <1>1, <1>2
<1>4. \A i \in 1..Len(f) + Len(x) :
         i \in 1..Len(f) \/ (i - Len(f) \in 1..Len(x) /\ (f \o x)[i] = x[i - Len(f)])
  <2> SUFFICES ASSUME NEW i \in 1..Len(f) + Len(x), i \notin 1..Len(f)
               PROVE  i - Len(f) \in 1..Len(x) /\ (f \o x)[i] = x[i - Len(f)]
    OBVIOUS
  <2>1. i - Len(f) \in 1..Len(x) /\ Len(f) + (i - Len(f)) = i
    BY <1>2
  <2>2. QED
    BY <1>3, <2>1
<1>5. FilesOK'
  <2>1. files' = [files EXCEPT ![file] = f \o x]
    BY DEF Grows
  <2>2. QED
    BY <1>2, <2>1 DEF FilesOK
<1> HIDE DEF f
<1>6. \A s \in Segments : \A i \in DOMAIN files[s] :
         i \in DOMAIN files'[s] /\ files'[s][i] = files[s][i]
  <2> TAKE s \in Segments
  <2>1. CASE s = file
    <3>1. \A i \in 1..Len(f) : i \in 1..Len(f) + Len(x)
      BY <1>2
    <3>2. \A i \in DOMAIN f : i \in DOMAIN (f \o x) /\ (f \o x)[i] = f[i]
      BY <1>2, <3>1
    <3>3. QED
      BY <1>1, <2>1, <3>2 DEF f
  <2>2. CASE s # file
    BY <1>1, <2>2
  <2>3. QED
    BY <2>1, <2>2
<1>7. \A s \in Segments : \A i \in DOMAIN files'[s] :
         i \in DOMAIN files[s] \/ (s = file /\ i - Len(f) \in DOMAIN x /\ files'[s][i] = x[i - Len(f)])
  BY <1>1, <1>2, <1>4 DEF f
<1>8. \A i \in DOMAIN x : Len(f) + i \in DOMAIN files'[file] /\ files'[file][Len(f) + i] = x[i]
  BY <1>1, <1>2, <1>3
<1>9. QED
  BY <1>5, <1>6, <1>7, <1>8 DEF f

\* The log has what it had and the entries of x.
LEMMA GrownLog ==
    ASSUME FilesOK, file \in Segments, NEW x \in Seq(Cell), Grows(x)
    PROVE  Written' = Written \cup (ToSet(x) \ {Torn})
<1>1. ASSUME NEW e \in Written PROVE e \in Written'
  BY GrownFiles, SlotShape, SlotShapeNext
<1>2. ASSUME NEW e \in ToSet(x), e # Torn PROVE e \in Written'
  <2>1. PICK i \in DOMAIN x : e = x[i]
    BY DEF ToSet
  <2>2. Len(files[file]) + i \in DOMAIN files'[file] /\ files'[file][Len(files[file]) + i] = e
    BY <2>1, GrownFiles
  <2>3. QED
    BY <1>2, <2>2, SlotShapeNext
<1>3. ASSUME NEW e \in Written' PROVE e \in Written \/ (e \in ToSet(x) /\ e # Torn)
  <2>0. PICK s \in Segments : \E i \in DOMAIN files'[s] : e = files'[s][i] /\ e # Torn
    BY SlotShapeNext
  <2>1. PICK i \in DOMAIN files'[s] : e = files'[s][i] /\ e # Torn
    BY <2>0
  <2>2. CASE i \in DOMAIN files[s]
    BY <2>1, <2>2, GrownFiles, SlotShape
  <2>3. CASE i - Len(files[file]) \in DOMAIN x /\ files'[s][i] = x[i - Len(files[file])]
    BY <2>1, <2>3 DEF ToSet
  <2>4. QED
    BY <2>2, <2>3, GrownFiles
<1>4. QED
  BY <1>1, <1>2, <1>3

\* What read_all found it still finds.
LEMMA GrownReadable ==
    ASSUME FilesOK, file \in Segments, NEW x \in Seq(Cell), Grows(x),
           NEW p \in Slots, At(p) # Torn, Readable(p)
    PROVE  p \in Slots' /\ At(p)' = At(p) /\ Readable(p)'
<1>0. PICK s \in Segments : \E i \in DOMAIN files[s] : p = <<s, i>>
  BY SlotShape
<1>1. PICK i \in DOMAIN files[s] : p = <<s, i>>
  BY <1>0
<1>2. i \in DOMAIN files'[s] /\ files'[s][i] = files[s][i]
  BY GrownFiles
<1>3. p \in Slots'
  BY <1>1, <1>2, SlotShapeNext
<1>4. At(p)' = At(p)
  BY <1>1, <1>2 DEF At
<1>5. \A k \in 1..i : k \in DOMAIN files[s]
  BY DEF FilesOK
<1>6. \A k \in 1..i : files'[s][k] = files[s][k]
  BY <1>5, GrownFiles
<1>7. Readable(p)'
  BY <1>1, <1>6 DEF Readable
<1>8. QED
  BY <1>3, <1>4, <1>7

\* Entries that are not in the log come to it once.
LEMMA GrownOnce ==
    ASSUME FilesOK, file \in Segments, NEW x \in Seq(Cell), Grows(x),
           LoggedOnce, Once(x), ToSet(x) \cap Written = {}
    PROVE  LoggedOnce'
<1> SUFFICES ASSUME NEW s \in Segments, NEW i \in DOMAIN files'[s],
                    NEW u \in Segments, NEW j \in DOMAIN files'[u],
                    files'[s][i] = files'[u][j], files'[s][i] # Torn
             PROVE  s = u /\ i = j
  <2>1. ASSUME NEW p \in Slots', NEW q \in Slots', At(p)' = At(q)', At(p)' # Torn PROVE p = q
    <3>1. PICK s \in Segments : \E i \in DOMAIN files'[s] : p = <<s, i>>
      BY SlotShapeNext
    <3>2. PICK i \in DOMAIN files'[s] : p = <<s, i>>
      BY <3>1
    <3>3. PICK u \in Segments : \E j \in DOMAIN files'[u] : q = <<u, j>>
      BY SlotShapeNext
    <3>4. PICK j \in DOMAIN files'[u] : q = <<u, j>>
      BY <3>3
    <3>5. files'[s][i] = files'[u][j] /\ files'[s][i] # Torn
      BY <2>1, <3>2, <3>4 DEF At
    <3>6. QED
      BY <3>2, <3>4, <3>5
  <2>2. QED
    BY <2>1 DEF LoggedOnce
<1> DEFINE n == Len(files[file])
<1>1. n \in Nat /\ \A k \in Segments : DOMAIN files[k] \subseteq Nat /\ DOMAIN files'[k] \subseteq Nat
  BY GrownFiles DEF FilesOK
<1> HIDE DEF n
<1>2. \/ i \in DOMAIN files[s] /\ files'[s][i] = files[s][i]
      \/ s = file /\ i - n \in DOMAIN x /\ files'[s][i] = x[i - n]
  BY GrownFiles DEF n
<1>3. \/ j \in DOMAIN files[u] /\ files'[u][j] = files[u][j]
      \/ u = file /\ j - n \in DOMAIN x /\ files'[u][j] = x[j - n]
  BY GrownFiles DEF n
<1>4. CASE i \in DOMAIN files[s] /\ j \in DOMAIN files[u]
  <2>1. files[s][i] = files[u][j] /\ files[s][i] # Torn
    BY <1>4, GrownFiles
  <2>2. <<s, i>> \in Slots /\ <<u, j>> \in Slots
    BY <1>4, SlotShape
  <2>3. <<s, i>> = <<u, j>>
    BY <2>1, <2>2 DEF LoggedOnce, At
  <2>4. QED
    BY <2>3
<1>5. CASE s = file /\ i - n \in DOMAIN x /\ u = file /\ j - n \in DOMAIN x
           /\ files'[s][i] = x[i - n] /\ files'[u][j] = x[j - n]
  <2>1. i - n = j - n
    BY <1>5 DEF Once
  <2>2. QED
    BY <1>1, <1>5, <2>1
<1>6. ASSUME NEW k \in Segments, NEW a \in DOMAIN files[k], NEW b \in DOMAIN x, files[k][a] = x[b],
             x[b] # Torn
      PROVE  FALSE
  BY <1>6, SlotShape DEF ToSet
<1>7. QED
  BY <1>2, <1>3, <1>4, <1>5, <1>6

-----------------------------------------------------------------------------
(* The inductive invariants *)

\* A thread has entries to write exactly while it writes; the buffer is empty
\* from the time a flush of the client takes it, as it alone appends.
PcInv ==
    /\ \A t \in Threads :
          /\ pc[t] \in {"idle", "flush", "dead"} => batch[t] = <<>>
          /\ pc[t] \in {"entry", "open", "write"} => batch[t] # <<>>
    /\ pc["client"] # "idle" => buffer = <<>>

Held(t) == ToSet(batch[t])

\* An entry is in one place: the buffer, a batch, the file object or the files.
OnceInv ==
    /\ LoggedOnce
    /\ Once(buffer) /\ Once(fbuf) /\ \A t \in Threads : Once(batch[t])
    /\ ToSet(buffer) \cap (ToSet(fbuf) \cup Written) = {}
    /\ ToSet(fbuf) \cap Written = {}
    /\ \A t \in Threads : Held(t) \cap (ToSet(buffer) \cup ToSet(fbuf) \cup Written) = {}
    /\ Held("client") \cap Held("flusher") = {}
    /\ ToSet(buffer) \cup ToSet(fbuf) \cup Written \subseteq appended
    /\ \A t \in Threads : Held(t) \subseteq appended

\* An acknowledged entry is written, on its way, or dropped.
Accounted == acked \subseteq Written \cup ToSet(batch["flusher"]) \cup ToSet(fbuf) \cup lost

\* No entry vanishes, and of an acknowledged one the client's thread is done.
SeenInv ==
    /\ request \subseteq appended
    /\ acked \subseteq appended
    /\ appended \subseteq ToSet(buffer) \cup Held("client") \cup Held("flusher")
                          \cup ToSet(fbuf) \cup Written \cup lost
    /\ Accounted

\* No segment has torn remains in front of s[i].
Clean(s, i) == \A k \in 1..i : s[k] # Torn

\* Entries on their way when a segment has a torn tail were appended after the
\* crash that left it, and only such entries are written behind one.
LateInv ==
    /\ TornTail => ToSet(buffer) \cup Held("client") \cup Held("flusher") \cup ToSet(fbuf)
                      \subseteq late
    /\ \A s \in Segments : \A i \in DOMAIN files[s] :
          files[s][i] # Torn /\ files[s][i] \notin late => Clean(files[s], i)

\* A crash leaves a prefix of the file's buffer, perhaps with a torn end.
LEMMA CrashGrows ==
    ASSUME TypeOK, CrashRestart
    PROVE  \E x \in Seq(Cell) : /\ Grows(x)
                                /\ ToSet(x) \subseteq ToSet(fbuf) \cup {Torn}
                                /\ Once(fbuf) => Once(x)
                                /\ \A i \in DOMAIN x : x[i] # Torn => Clean(x, i)
<1>1. fbuf \in Seq(Cell) /\ files[file] \in Seq(Cell) /\ Torn \in Cell
  BY SeqMonotonic DEF TypeOK, Cell
<1>2. PICK n \in 0..Len(fbuf), cut \in {<<>>, <<Torn>>} :
         files' = [files EXCEPT ![file] = @ \o SubSeq(fbuf, 1, n) \o cut]
  BY DEF CrashRestart
<1> DEFINE a == SubSeq(fbuf, 1, n)
<1>3. a \in Seq(Cell) /\ ToSet(a) \subseteq ToSet(fbuf) /\ (Once(fbuf) => Once(a))
  BY <1>1, PrefixSet
<1>c. \A i \in DOMAIN a : a[i] # Torn
  BY <1>3 DEF ToSet, TypeOK
<1> HIDE DEF a
<1>4. CASE cut = <<>>
  <2>1. (files[file] \o a) \o cut = files[file] \o a
    BY <1>1, <1>3, <1>4
  <2>2. files' = [files EXCEPT ![file] = files[file] \o a]
    BY <1>2, <2>1 DEF a
  <2>3. \A i \in DOMAIN a : Clean(a, i)
    BY <1>3, <1>c DEF Clean
  <2>4. QED
    BY <1>3, <2>2, <2>3 DEF Grows
<1>5. CASE cut = <<Torn>>
  <2>1. (files[file] \o a) \o cut = files[file] \o Append(a, Torn)
    <3>1. cut \in Seq(Cell) /\ a \o cut = Append(a, Torn)
      BY <1>1, <1>3, <1>5, AppendIsConcat
    <3>2. (files[file] \o a) \o cut = files[file] \o (a \o cut)
      BY <1>1, <1>3, <3>1, ConcatThree
    <3>3. QED
      BY <3>1, <3>2
  <2>2. files' = [files EXCEPT ![file] = files[file] \o Append(a, Torn)]
    BY <1>2, <2>1 DEF a
  <2>3. Append(a, Torn) \in Seq(Cell) /\ ToSet(Append(a, Torn)) = ToSet(a) \cup {Torn}
    BY <1>1, <1>3, AppendSet
  <2>4. Once(a) => Once(Append(a, Torn))
    BY <1>1, <1>3 DEF Once
  <2>5. \A i \in DOMAIN Append(a, Torn) : Append(a, Torn)[i] # Torn => Clean(Append(a, Torn), i)
    <3>1. /\ DOMAIN Append(a, Torn) = 1..Len(a) + 1 /\ DOMAIN a = 1..Len(a) /\ Len(a) \in Nat
          /\ \A i \in 1..Len(a) : Append(a, Torn)[i] = a[i]
          /\ Append(a, Torn)[Len(a) + 1] = Torn
      BY <1>1, <1>3
    <3>2. QED
      BY <1>c, <3>1 DEF Clean
  <2>6. QED
    BY <1>3, <2>2, <2>3, <2>4, <2>5 DEF Grows
<1>6. QED
  BY <1>4, <1>5

-----------------------------------------------------------------------------
(* Type correctness *)

\* Every step of the two threads keeps the types.
LEMMA TypeStep ==
    ASSUME TypeOK, PcInv, [Next]_vars
    PROVE  TypeOK'
<1>0. <<>> \in Seq(Entries) /\ Seq(Entries) \subseteq Seq(Cell) /\ FilesOK /\ file \in Segments
  BY NoEntries, SeqMonotonic DEF Cell, FilesOK, TypeOK
<1>1. ASSUME NEW x \in Seq(Cell), Grows(x) PROVE files' \in [Segments -> Seq(Entries \cup {Torn})]
  BY <1>0, <1>1, GrownFiles DEF FilesOK, Cell
<1>2. ASSUME NEW e \in Entries, AppendEntry(e) PROVE TypeOK'
  BY <1>2 DEF TypeOK, AppendEntry
<1>3. CASE Flush
  BY <1>3, <1>0 DEF TypeOK, Flush, TakeBuffer, Acknowledge, Location
<1>4. CASE GroupCommit
  BY <1>4, <1>0 DEF TypeOK, GroupCommit, TakeBuffer, Location
<1>5. ASSUME NEW t \in Threads, Rotate(t) PROVE TypeOK'
  <2>1. fbuf \in Seq(Cell) /\ Grows(fbuf)
    BY <1>0, <1>5 DEF TypeOK, Rotate, CloseFile, Grows
  <2>2. files' \in [Segments -> Seq(Entries \cup {Torn})]
    BY <1>1, <2>1
  <2>3. seg + 1 \in Segments
    BY <1>5 DEF Rotate, Segments, TypeOK
  <2>4. seg' \in Segments /\ path' \in [Threads -> Segments]
    BY <1>5, <2>3 DEF Rotate, TypeOK
  <2>5. QED
    BY <1>0, <1>5, <2>2, <2>4 DEF TypeOK, Rotate, CloseFile, Location
<1>6. ASSUME NEW t \in Threads, OpenSegment(t) PROVE TypeOK'
  <2>1. fbuf \in Seq(Cell) /\ Grows(fbuf)
    BY <1>0, <1>6 DEF TypeOK, OpenSegment, Grows
  <2>2. files' \in [Segments -> Seq(Entries \cup {Torn})]
    BY <1>1, <2>1
  <2>3. file' \in Segments
    BY <1>6 DEF OpenSegment, TypeOK, Segments
  <2>4. QED
    BY <1>0, <1>6, <2>2, <2>3 DEF TypeOK, OpenSegment, Location
<1>7. ASSUME NEW t \in Threads, Write(t) PROVE TypeOK'
  <2>1. batch[t] \in Seq(Entries) /\ batch[t] # <<>>
    BY <1>7 DEF TypeOK, Write, PcInv
  <2>2. Head(batch[t]) \in Entries /\ Tail(batch[t]) \in Seq(Entries)
    BY <2>1
  <2>3. fbuf' \in Seq(Entries) /\ batch' \in [Threads -> Seq(Entries)]
    BY <1>7, <2>2 DEF TypeOK, Write
  <2>4. QED
    BY <1>7, <2>3 DEF TypeOK, Write, Location
<1>8. ASSUME NEW t \in Threads, FlushFile(t) PROVE TypeOK'
  <2>1. fbuf \in Seq(Cell) /\ Grows(fbuf)
    BY <1>0, <1>8 DEF TypeOK, FlushFile, Grows
  <2>2. files' \in [Segments -> Seq(Entries \cup {Torn})]
    BY <1>1, <2>1
  <2>3. QED
    BY <1>0, <1>8, <2>2 DEF TypeOK, FlushFile, Location, Acknowledge
<1>9. ASSUME NEW t \in Threads, WriteRaises(t) PROVE TypeOK'
  <2>1. ToSet(batch[t]) \subseteq Entries
    BY DEF TypeOK, ToSet
  <2>2. QED
    BY <1>0, <1>9, <2>1 DEF TypeOK, WriteRaises, Location
<1>10. CASE Close
  <2>1. fbuf \in Seq(Cell) /\ Grows(fbuf)
    BY <1>0, <1>10 DEF TypeOK, Close, CloseFile, Grows
  <2>2. files' \in [Segments -> Seq(Entries \cup {Torn})]
    BY <1>1, <2>1
  <2>3. QED
    BY <1>0, <1>10, <2>2 DEF TypeOK, Close, CloseFile, Location, Threads
<1>11. CASE CrashRestart
  <2>1. \E x \in Seq(Cell) : Grows(x)
    BY <1>11, CrashGrows
  <2>2. files' \in [Segments -> Seq(Entries \cup {Torn})]
    BY <1>1, <2>1
  <2>3. batch' \in [Threads -> Seq(Entries)] /\ pc' \in [Threads -> Location]
    BY <1>0, <1>11 DEF CrashRestart, Location
  <2>4. path' \in [Threads -> Segments] /\ seg' \in Segments /\ file' \in Segments
    BY <1>11 DEF CrashRestart, Segments
  <2>5. lost' \in SUBSET Entries
    BY <1>11 DEF CrashRestart, TypeOK
  <2>6. QED
    BY <1>0, <1>11, <2>2, <2>3, <2>4, <2>5 DEF TypeOK, CrashRestart
<1>12. CASE UNCHANGED vars
  BY <1>12 DEF TypeOK, vars
<1>13. QED
  BY <1>2, <1>3, <1>4, <1>5, <1>6, <1>7, <1>8, <1>9, <1>10, <1>11, <1>12 DEF Next, FlushBatch

-----------------------------------------------------------------------------
(* Where the entries are *)

\* Every step keeps PcInv: a thread's batch and place in _flush_batch fit together.
LEMMA PcStep ==
    ASSUME TypeOK, PcInv, [Next]_vars
    PROVE  PcInv'
<1>1. ASSUME NEW e \in Entries, AppendEntry(e) PROVE PcInv'
  BY <1>1 DEF PcInv, AppendEntry
<1>2. ASSUME NEW t \in Threads, buffer # <<>>, TakeBuffer(t), t = "client" \/ pc["client"] = "idle"
      PROVE  PcInv'
  BY <1>2 DEF PcInv, TakeBuffer, TypeOK, Threads
<1>3. CASE Flush \/ GroupCommit
  <2>1. pc["client"] # "idle" => buffer = <<>>
    BY DEF PcInv
  <2>2. CASE UNCHANGED <<buffer, batch, pc>>
    BY <2>2 DEF PcInv
  <2>3. QED
    BY <1>2, <1>3, <2>1, <2>2 DEF Flush, GroupCommit, Threads
<1>4. ASSUME NEW t \in Threads, Write(t) PROVE PcInv'
  <2>1. batch[t] \in Seq(Entries) /\ batch[t] # <<>>
    BY <1>4 DEF TypeOK, Write, PcInv
  <2>2. (Len(batch[t]) = 1) <=> (Tail(batch[t]) = <<>>)
    BY <2>1, LastEntry
  <2>3. /\ batch'[t] = Tail(batch[t]) /\ pc'[t] = IF Len(batch[t]) = 1 THEN "flush" ELSE "entry"
        /\ \A u \in Threads \ {t} : batch'[u] = batch[u] /\ pc'[u] = pc[u]
        /\ UNCHANGED buffer
    BY <1>4 DEF Write, TypeOK
  <2>4. pc[t] # "idle"
    BY <1>4 DEF Write
  <2>5. QED
    BY <2>2, <2>3, <2>4 DEF PcInv, Threads
<1>5. ASSUME NEW t \in Threads, Rotate(t) \/ OpenSegment(t) PROVE PcInv'
  <2>1. /\ pc[t] \in {"entry", "open"} /\ pc'[t] \in {"open", "write"}
        /\ \A u \in Threads \ {t} : pc'[u] = pc[u]
        /\ UNCHANGED <<buffer, batch>>
    BY <1>5 DEF Rotate, OpenSegment, TypeOK
  <2>2. QED
    BY <2>1 DEF PcInv, Threads
<1>6. ASSUME NEW t \in Threads, FlushFile(t) \/ WriteRaises(t) PROVE PcInv'
  <2>1. /\ pc[t] # "idle" /\ pc'[t] \in {"idle", "dead"} /\ (t = "client" => pc'[t] = "idle")
        /\ \A u \in Threads \ {t} : batch'[u] = batch[u] /\ pc'[u] = pc[u]
        /\ batch'[t] = <<>> /\ UNCHANGED buffer
    BY <1>6 DEF FlushFile, WriteRaises, TypeOK, PcInv
  <2>2. QED
    BY <2>1 DEF PcInv, Threads
<1>7. CASE Close
  BY <1>7 DEF PcInv, Close, TypeOK, Threads
<1>8. CASE CrashRestart
  BY <1>8 DEF PcInv, CrashRestart, Threads
<1>9. CASE UNCHANGED vars
  BY <1>9 DEF PcInv, vars
<1>10. QED
  BY <1>1, <1>3, <1>4, <1>5, <1>6, <1>7, <1>8, <1>9 DEF Next, FlushBatch

\* The sequences of a typed state.
LEMMA Typed ==
    ASSUME TypeOK
    PROVE  /\ buffer \in Seq(Cell) /\ fbuf \in Seq(Cell)
           /\ \A t \in Threads : batch[t] \in Seq(Cell) /\ Torn \notin ToSet(batch[t])
           /\ Torn \notin ToSet(fbuf) /\ Torn \notin ToSet(buffer)
           /\ FilesOK /\ file \in Segments
<1>1. buffer \in Seq(Cell) /\ fbuf \in Seq(Cell) /\ \A t \in Threads : batch[t] \in Seq(Cell)
  BY SeqMonotonic DEF TypeOK, Cell
<1>2. \A s \in Seq(Entries) : Torn \notin ToSet(s)
  BY DEF ToSet
<1>3. QED
  BY <1>1, <1>2 DEF TypeOK, FilesOK, Cell

\* The file's buffer goes to the file and nothing else moves.
LEMMA SpillOnce ==
    ASSUME TypeOK, OnceInv, Grows(fbuf), fbuf' = <<>>, UNCHANGED <<buffer, batch, appended>>
    PROVE  OnceInv'
<1>1. Written' = Written \cup ToSet(fbuf)
  BY Typed, GrownLog
<1>2. LoggedOnce'
  BY Typed, GrownOnce DEF OnceInv
<1>3. ToSet(fbuf') = {} /\ Once(fbuf') /\ \A t \in Threads : Held(t)' = Held(t)
  BY NoEntries DEF Held
<1>4. ToSet(buffer') = ToSet(buffer) /\ Once(buffer') /\ \A t \in Threads : Once(batch'[t])
  BY DEF OnceInv
<1>5. Held("client") \cap Held("flusher") = {} /\ UNCHANGED appended
  BY DEF OnceInv
<1>6. QED
  BY <1>1, <1>2, <1>3, <1>4, <1>5 DEF OnceInv, Threads

\* Nothing is in the log that was not, and the rest of the state is given.
LEMMA OnceStep ==
    ASSUME TypeOK, PcInv, OnceInv, [Next]_vars
    PROVE  OnceInv'
<1>1. ASSUME UNCHANGED files PROVE Written' = Written /\ (LoggedOnce' <=> LoggedOnce)
  BY <1>1 DEF Written, Slots, At, LoggedOnce
<1>2. ASSUME NEW e \in Entries, AppendEntry(e) PROVE OnceInv'
  <2>1. /\ buffer' = Append(buffer, e) /\ e \notin appended /\ appended' = appended \cup {e}
        /\ UNCHANGED <<batch, fbuf, files>>
    BY <1>2 DEF AppendEntry
  <2>2. e \in Cell /\ e \notin ToSet(buffer)
    BY <2>1 DEF Cell, OnceInv
  <2>3. ToSet(buffer') = ToSet(buffer) \cup {e} /\ Once(buffer')
    BY <2>1, <2>2, Typed, AppendSet, AppendOnce DEF OnceInv
  <2>4. \A t \in Threads : Held(t)' = Held(t)
    BY <2>1 DEF Held
  <2>5. QED
    BY <1>1, <2>1, <2>3, <2>4 DEF OnceInv, Threads
<1>3. ASSUME NEW t \in Threads, batch[t] = <<>>, TakeBuffer(t), UNCHANGED <<fbuf, files, appended>>
      PROVE  OnceInv'
  <2>1. /\ batch'[t] = buffer /\ buffer' = <<>> /\ \A u \in Threads \ {t} : batch'[u] = batch[u]
    BY <1>3 DEF TakeBuffer, TypeOK
  <2>2. Held(t)' = ToSet(buffer) /\ \A u \in Threads \ {t} : Held(u)' = Held(u)
    BY <2>1 DEF Held
  <2>3. ToSet(buffer') = {} /\ Once(buffer') /\ \A u \in Threads : Once(batch'[u])
    BY <2>1, NoEntries DEF OnceInv
  <2>4. QED
    BY <1>1, <1>3, <2>2, <2>3 DEF OnceInv, Threads
<1>4. CASE UNCHANGED <<buffer, batch, fbuf, files, appended>>
  BY <1>1, <1>4 DEF OnceInv, Held
<1>5. CASE Flush \/ GroupCommit
  <2>1. ASSUME NEW t \in Threads, pc[t] = "idle", TakeBuffer(t), UNCHANGED <<fbuf, files, appended>>
        PROVE  OnceInv'
    BY <1>3, <2>1 DEF PcInv
  <2>2. QED
    BY <1>4, <1>5, <2>1 DEF Flush, GroupCommit, Threads
<1>6. ASSUME NEW t \in Threads, Write(t) PROVE OnceInv'
  <2>1. /\ fbuf' = Append(fbuf, Head(batch[t])) /\ batch'[t] = Tail(batch[t])
        /\ \A u \in Threads \ {t} : batch'[u] = batch[u]
        /\ UNCHANGED <<buffer, files, appended>>
    BY <1>6 DEF Write, TypeOK
  <2>2. batch[t] # <<>> /\ batch[t] \in Seq(Cell) /\ Torn \notin ToSet(batch[t])
    BY <1>6, Typed DEF Write, PcInv
  <2> DEFINE h == Head(batch[t])
  <2>3. /\ Held(t) = {h} \cup ToSet(batch'[t]) /\ h \notin ToSet(batch'[t]) /\ Once(batch'[t])
    BY <2>1, <2>2, TailSet DEF Held, OnceInv
  <2>4. h \in Cell /\ h \notin ToSet(fbuf)
    <3>1. h \in Cell
      BY <2>2
    <3>2. QED
      BY <2>3, <3>1 DEF OnceInv
  <2>5. ToSet(fbuf') = ToSet(fbuf) \cup {h} /\ Once(fbuf')
    BY <2>1, <2>4, Typed, AppendSet, AppendOnce DEF OnceInv
  <2> HIDE DEF h
  <2>6. Held(t)' = ToSet(batch'[t]) /\ \A u \in Threads \ {t} : Held(u)' = Held(u)
    BY <2>1 DEF Held
  <2>7. \A u \in Threads : Once(batch'[u])
    BY <2>1, <2>3 DEF OnceInv
  <2>8. QED
    BY <1>1, <2>1, <2>3, <2>5, <2>6, <2>7 DEF OnceInv, Threads
<1>7. ASSUME NEW t \in Threads, Rotate(t) \/ OpenSegment(t) \/ FlushFile(t) PROVE OnceInv'
  BY <1>7, SpillOnce DEF Rotate, CloseFile, OpenSegment, FlushFile, Grows
<1>8. CASE Close
  BY <1>8, SpillOnce DEF Close, CloseFile, Grows
<1>9. ASSUME NEW t \in Threads, WriteRaises(t) PROVE OnceInv'
  <2>1. /\ batch'[t] = <<>> /\ \A u \in Threads \ {t} : batch'[u] = batch[u]
        /\ UNCHANGED <<buffer, fbuf, files, appended>>
    BY <1>9 DEF WriteRaises, TypeOK
  <2>2. Held(t)' = {} /\ \A u \in Threads \ {t} : Held(u)' = Held(u)
    BY <2>1, NoEntries DEF Held
  <2>3. \A u \in Threads : Once(batch'[u])
    BY <2>1, NoEntries DEF OnceInv
  <2>4. QED
    BY <1>1, <2>1, <2>2, <2>3 DEF OnceInv, Threads
<1>10. CASE CrashRestart
  <2>1. PICK x \in Seq(Cell) : /\ Grows(x) /\ ToSet(x) \subseteq ToSet(fbuf) \cup {Torn}
                               /\ Once(fbuf) => Once(x)
    BY <1>10, CrashGrows
  <2>2. Torn \notin Written
    BY DEF Written
  <2>3. LoggedOnce' /\ Written' = Written \cup (ToSet(x) \ {Torn})
    BY <2>1, <2>2, Typed, GrownOnce, GrownLog DEF OnceInv
  <2>4. /\ buffer' = <<>> /\ fbuf' = <<>> /\ \A t \in Threads : batch'[t] = <<>>
        /\ UNCHANGED appended
    BY <1>10 DEF CrashRestart
  <2>5. /\ ToSet(buffer') = {} /\ ToSet(fbuf') = {} /\ \A t \in Threads : Held(t)' = {}
        /\ Once(buffer') /\ Once(fbuf') /\ \A t \in Threads : Once(batch'[t])
    BY <2>4, NoEntries DEF Held
  <2>6. Written' \subseteq appended
    BY <2>1, <2>3 DEF OnceInv
  <2>7. QED
    BY <2>3, <2>4, <2>5, <2>6 DEF OnceInv, Threads
<1>11. CASE UNCHANGED vars
  BY <1>4, <1>11 DEF vars
<1>12. QED
  BY <1>2, <1>5, <1>6, <1>7, <1>8, <1>9, <1>10, <1>11 DEF Next, FlushBatch

-----------------------------------------------------------------------------
(* No entry is forgotten *)

Everywhere == ToSet(buffer) \cup Held("client") \cup Held("flusher") \cup ToSet(fbuf)
              \cup Written \cup lost
Visible == Written \cup Held("flusher") \cup ToSet(fbuf) \cup lost

\* SeenInv in terms of Everywhere and Visible.
LEMMA SeenShape ==
    SeenInv <=> /\ request \subseteq appended /\ acked \subseteq appended
                /\ appended \subseteq Everywhere /\ acked \subseteq Visible
BY DEF SeenInv, Accounted, Everywhere, Visible, Held

\* The same of the next state.
LEMMA SeenShapeNext ==
    SeenInv' <=> /\ request' \subseteq appended' /\ acked' \subseteq appended'
                 /\ appended' \subseteq Everywhere' /\ acked' \subseteq Visible'
BY DEF SeenInv, Accounted, Everywhere, Visible, Held

\* With an empty buffer and nothing in the client's batch, all of it is visible.
LEMMA NothingHeld ==
    ASSUME SeenInv, buffer = <<>>, batch["client"] = <<>>
    PROVE  appended \subseteq Visible
<1>1. ToSet(buffer) = {} /\ Held("client") = {}
  BY NoEntries DEF Held
<1>2. QED
  BY <1>1, SeenShape DEF Everywhere, Visible

\* The file's buffer goes to the file.
LEMMA SpillSeen ==
    ASSUME TypeOK, Grows(fbuf), fbuf' = <<>>, UNCHANGED <<buffer, batch, lost>>
    PROVE  Visible' = Visible /\ Everywhere' = Everywhere
<1>1. Written' = Written \cup ToSet(fbuf)
  BY Typed, GrownLog
<1>2. ToSet(fbuf') = {} /\ Held("client")' = Held("client") /\ Held("flusher")' = Held("flusher")
  BY NoEntries DEF Held
<1>3. QED
  BY <1>1, <1>2 DEF Visible, Everywhere

\* Every step keeps SeenInv: an acknowledged entry is on its way, in a file, or known lost.
LEMMA SeenStep ==
    ASSUME TypeOK, PcInv, OnceInv, SeenInv, [Next]_vars
    PROVE  SeenInv'
<1>0. UNCHANGED files => Written' = Written
  BY DEF Written, Slots, At
<1>1. ASSUME NEW e \in Entries, AppendEntry(e) PROVE SeenInv'
  <2>1. /\ buffer' = Append(buffer, e) /\ appended' = appended \cup {e}
        /\ request' = request \cup {e} /\ UNCHANGED <<batch, fbuf, files, acked, lost>>
    BY <1>1 DEF AppendEntry
  <2>2. ToSet(buffer') = ToSet(buffer) \cup {e}
    BY <2>1, Typed, AppendSet DEF Cell
  <2>3. Held("client")' = Held("client") /\ Held("flusher")' = Held("flusher")
    BY <2>1 DEF Held
  <2>4. Visible' = Visible /\ Everywhere' = Everywhere \cup {e}
    BY <1>0, <2>1, <2>2, <2>3 DEF Visible, Everywhere
  <2>5. QED
    BY <2>1, <2>4, SeenShape, SeenShapeNext
<1>2. ASSUME NEW t \in Threads, pc[t] = "idle", TakeBuffer(t), UNCHANGED <<fbuf, files, lost>>
      PROVE  Visible \subseteq Visible' /\ Everywhere' = Everywhere
  <2>1. batch[t] = <<>> /\ Held(t) = {}
    BY <1>2, NoEntries DEF PcInv, Held
  <2>2. /\ batch'[t] = buffer /\ buffer' = <<>> /\ \A u \in Threads \ {t} : batch'[u] = batch[u]
    BY <1>2 DEF TakeBuffer, TypeOK
  <2>3. /\ Held(t)' = ToSet(buffer) /\ ToSet(buffer') = {}
        /\ \A u \in Threads \ {t} : Held(u)' = Held(u)
    BY <2>2, NoEntries DEF Held
  <2>4. QED
    BY <1>0, <1>2, <2>1, <2>3 DEF Visible, Everywhere, Threads
<1>3. CASE Flush
  <2>1. CASE buffer # <<>>
    <3>1. /\ pc["client"] = "idle" /\ TakeBuffer("client")
          /\ UNCHANGED <<fbuf, files, appended, lost, request, acked>>
      BY <1>3, <2>1 DEF Flush
    <3>2. Visible \subseteq Visible' /\ Everywhere' = Everywhere
      BY <1>2, <3>1 DEF Threads
    <3>3. QED
      BY <3>1, <3>2, SeenShape, SeenShapeNext
  <2>2. CASE buffer = <<>>
    <3>1. /\ pc["client"] = "idle" /\ acked' = acked \cup request /\ request' = {}
          /\ UNCHANGED <<fbuf, files, appended, lost, buffer, batch>>
      BY <1>3, <2>2 DEF Flush, Acknowledge
    <3>2. batch["client"] = <<>>
      BY <3>1 DEF PcInv, Threads
    <3>3. appended \subseteq Visible
      BY <2>2, <3>2, NothingHeld
    <3>4. Visible' = Visible /\ Everywhere' = Everywhere
      BY <1>0, <3>1 DEF Visible, Everywhere, Held
    <3>5. QED
      BY <3>1, <3>3, <3>4, SeenShape, SeenShapeNext
  <2>3. QED
    BY <2>1, <2>2
<1>4. CASE GroupCommit
  <2>1. UNCHANGED <<appended, request, acked>> /\ pc["flusher"] = "idle"
        /\ UNCHANGED <<fbuf, files, lost>>
    BY <1>4 DEF GroupCommit
  <2>2. CASE TakeBuffer("flusher")
    <3>1. Visible \subseteq Visible' /\ Everywhere' = Everywhere
      BY <1>2, <2>1, <2>2 DEF Threads
    <3>2. QED
      BY <2>1, <3>1, SeenShape, SeenShapeNext
  <2>3. CASE UNCHANGED <<buffer, batch, pc>>
    <3>1. Visible' = Visible /\ Everywhere' = Everywhere
      BY <1>0, <2>1, <2>3 DEF Visible, Everywhere, Held
    <3>2. QED
      BY <2>1, <3>1, SeenShape, SeenShapeNext
  <2>4. QED
    BY <1>4, <2>2, <2>3 DEF GroupCommit
<1>5. ASSUME NEW t \in Threads, Rotate(t) \/ OpenSegment(t) PROVE SeenInv'
  <2>1. /\ Grows(fbuf) /\ fbuf' = <<>> /\ UNCHANGED <<buffer, batch, lost>>
        /\ UNCHANGED <<request, acked, appended>>
    BY <1>5 DEF Rotate, CloseFile, OpenSegment, Grows
  <2>2. QED
    BY <2>1, SpillSeen, SeenShape, SeenShapeNext
<1>6. CASE Close
  <2>1. /\ Grows(fbuf) /\ fbuf' = <<>> /\ UNCHANGED <<buffer, batch, lost>>
        /\ UNCHANGED <<request, acked, appended>>
    BY <1>6 DEF Close, CloseFile, Grows
  <2>2. QED
    BY <2>1, SpillSeen, SeenShape, SeenShapeNext
<1>7. ASSUME NEW t \in Threads, FlushFile(t) PROVE SeenInv'
  <2>1. /\ Grows(fbuf) /\ fbuf' = <<>> /\ UNCHANGED <<buffer, batch, lost, appended>>
        /\ pc[t] = "flush"
        /\ IF t = "client" THEN acked' = acked \cup request /\ request' = {}
                           ELSE UNCHANGED <<request, acked>>
    BY <1>7 DEF FlushFile, Grows, Acknowledge
  <2>2. Visible' = Visible /\ Everywhere' = Everywhere
    BY <2>1, SpillSeen
  <2>3. t = "client" => appended \subseteq Visible
    BY <2>1, NothingHeld DEF PcInv, Threads
  <2>4. QED
    BY <2>1, <2>2, <2>3, SeenShape, SeenShapeNext
<1>8. ASSUME NEW t \in Threads, Write(t) PROVE SeenInv'
  <2>1. /\ fbuf' = Append(fbuf, Head(batch[t])) /\ batch'[t] = Tail(batch[t])
        /\ \A u \in Threads \ {t} : batch'[u] = batch[u]
        /\ UNCHANGED <<buffer, files, appended, request, acked, lost>>
    BY <1>8 DEF Write, TypeOK
  <2>2. batch[t] # <<>> /\ batch[t] \in Seq(Cell) /\ Torn \notin ToSet(batch[t])
    BY <1>8, Typed DEF Write, PcInv
  <2> DEFINE h == Head(batch[t])
  <2>3. Held(t) = {h} \cup ToSet(batch'[t]) /\ h \in Cell
    BY <2>1, <2>2, TailSet DEF Held, OnceInv
  <2>4. ToSet(fbuf') = ToSet(fbuf) \cup {h}
    BY <2>1, <2>3, Typed, AppendSet
  <2> HIDE DEF h
  <2>5. Held(t)' = ToSet(batch'[t]) /\ \A u \in Threads \ {t} : Held(u)' = Held(u)
    BY <2>1 DEF Held
  <2>6. Visible \subseteq Visible' /\ Everywhere' = Everywhere
    BY <1>0, <2>1, <2>3, <2>4, <2>5 DEF Visible, Everywhere, Threads
  <2>7. QED
    BY <2>1, <2>6, SeenShape, SeenShapeNext
<1>9. ASSUME NEW t \in Threads, WriteRaises(t) PROVE SeenInv'
  <2>1. /\ batch'[t] = <<>> /\ \A u \in Threads \ {t} : batch'[u] = batch[u]
        /\ UNCHANGED <<buffer, fbuf, files, appended, acked>>
        /\ request' \in {request, {}} /\ lost' = lost \cup Held(t)
    BY <1>9 DEF WriteRaises, TypeOK, Held
  <2>2. Held(t)' = {} /\ \A u \in Threads \ {t} : Held(u)' = Held(u)
    BY <2>1, NoEntries DEF Held
  <2>3. Visible \subseteq Visible' /\ Everywhere' = Everywhere
    BY <1>0, <2>1, <2>2 DEF Visible, Everywhere, Threads
  <2>4. QED
    BY <2>1, <2>3, SeenShape, SeenShapeNext
<1>10. CASE CrashRestart
  <2>1. /\ request' = {} /\ UNCHANGED <<acked, appended>>
        /\ lost' = lost \cup (appended \ Written')
    BY <1>10 DEF CrashRestart
  <2>2. appended' \subseteq Visible' /\ appended' \subseteq Everywhere'
    BY <2>1 DEF Visible, Everywhere
  <2>3. QED
    BY <2>1, <2>2, SeenShape, SeenShapeNext
<1>11. CASE UNCHANGED vars
  BY <1>0, <1>11 DEF vars, SeenInv, Accounted, Held
<1>12. QED
  BY <1>1, <1>3, <1>4, <1>5, <1>6, <1>7, <1>8, <1>9, <1>10, <1>11 DEF Next, FlushBatch

-----------------------------------------------------------------------------
(* Only late entries are behind a torn one *)

\* The torn tails, as quantifiers over the segments, in this state and the next.
LEMMA TornShape ==
    /\ TornTail <=> \E s \in Segments : \E i \in DOMAIN files[s] : files[s][i] = Torn
    /\ TornTail' <=> \E s \in Segments : \E i \in DOMAIN files'[s] : files'[s][i] = Torn
<1>1. TornTail <=> \E s \in Segments : \E i \in DOMAIN files[s] : files[s][i] = Torn
  <2>1. ASSUME NEW p \in Slots, At(p) = Torn
        PROVE  \E s \in Segments : \E i \in DOMAIN files[s] : files[s][i] = Torn
    BY <2>1, SlotShape DEF At
  <2>2. ASSUME NEW s \in Segments, NEW i \in DOMAIN files[s], files[s][i] = Torn PROVE TornTail
    <3>1. <<s, i>> \in Slots /\ At(<<s, i>>) = Torn
      BY <2>2, SlotShape DEF At
    <3>2. QED
      BY <3>1 DEF TornTail
  <2>3. QED
    BY <2>1, <2>2 DEF TornTail
<1>2. TornTail' <=> \E s \in Segments : \E i \in DOMAIN files'[s] : files'[s][i] = Torn
  <2>1. ASSUME NEW p \in Slots', At(p)' = Torn
        PROVE  \E s \in Segments : \E i \in DOMAIN files'[s] : files'[s][i] = Torn
    BY <2>1, SlotShapeNext DEF At
  <2>2. ASSUME NEW s \in Segments, NEW i \in DOMAIN files'[s], files'[s][i] = Torn PROVE TornTail'
    <3>1. <<s, i>> \in Slots' /\ At(<<s, i>>)' = Torn
      BY <2>2, SlotShapeNext DEF At
    <3>2. QED
      BY <3>1 DEF TornTail
  <2>3. QED
    BY <2>1, <2>2 DEF TornTail
<1>3. QED
  BY <1>1, <1>2

\* What is written to a file is late if a torn tail is there, and otherwise
\* clean unless it ends in torn remains itself.
LEMMA GrownLate ==
    ASSUME FilesOK, file \in Segments, NEW x \in Seq(Cell), Grows(x), LateInv,
           \A i \in DOMAIN x : x[i] # Torn => Clean(x, i),
           TornTail => ToSet(x) \ {Torn} \subseteq late, UNCHANGED late
    PROVE  /\ \A s \in Segments : \A i \in DOMAIN files'[s] :
                 files'[s][i] # Torn /\ files'[s][i] \notin late' => Clean(files'[s], i)
           /\ TornTail' => TornTail \/ Torn \in ToSet(x)
<1>1. ASSUME NEW s \in Segments, NEW i \in DOMAIN files'[s],
             files'[s][i] # Torn, files'[s][i] \notin late, NEW k \in 1..i, files'[s][k] = Torn
      PROVE  FALSE
  <2>1. k \in DOMAIN files'[s] /\ i \in Nat /\ k \in Nat
    BY GrownFiles DEF FilesOK
  <2>2. CASE i \in DOMAIN files[s]
    <3>1. k \in DOMAIN files[s]
      BY <2>2 DEF FilesOK
    <3>2. files[s][i] = files'[s][i] /\ files[s][k] = files'[s][k]
      BY <2>2, <3>1, GrownFiles
    <3>3. QED
      BY <1>1, <2>2, <3>2 DEF LateInv, Clean
  <2>3. CASE i \notin DOMAIN files[s]
    <3> DEFINE n == Len(files[file])
    <3>1. s = file /\ i - n \in DOMAIN x /\ files'[s][i] = x[i - n]
      BY <2>3, GrownFiles
    <3>2. ~TornTail
      BY <1>1, <3>1 DEF ToSet
    <3>3. k \notin DOMAIN files[s]
      <4>1. k \in DOMAIN files[s] => files[s][k] = Torn
        BY <1>1, GrownFiles
      <4>2. QED
        BY <3>2, <4>1, TornShape
    <3>4. k - n \in DOMAIN x /\ files'[s][k] = x[k - n]
      BY <2>1, <3>3, GrownFiles
    <3>5. n \in Nat /\ k - n \in 1..(i - n)
      BY <2>1, <3>1, <3>4 DEF FilesOK
    <3>6. QED
      BY <1>1, <3>1, <3>4, <3>5 DEF Clean
  <2>4. QED
    BY <2>2, <2>3
<1>2. ASSUME TornTail' PROVE TornTail \/ Torn \in ToSet(x)
  <2>0. PICK s \in Segments : \E i \in DOMAIN files'[s] : files'[s][i] = Torn
    BY <1>2, TornShape
  <2>1. PICK i \in DOMAIN files'[s] : files'[s][i] = Torn
    BY <2>0
  <2>2. CASE i \in DOMAIN files[s]
    BY <2>1, <2>2, GrownFiles, TornShape
  <2>3. CASE i - Len(files[file]) \in DOMAIN x /\ files'[s][i] = x[i - Len(files[file])]
    BY <2>1, <2>3 DEF ToSet
  <2>4. QED
    BY <2>2, <2>3, GrownFiles
<1>3. QED
  BY <1>1, <1>2 DEF Clean

\* The file's buffer goes to the file.
LEMMA SpillLate ==
    ASSUME TypeOK, LateInv, Grows(fbuf), fbuf' = <<>>, UNCHANGED <<buffer, batch, late>>
    PROVE  LateInv'
<1>1. \A i \in DOMAIN fbuf : fbuf[i] # Torn
  BY DEF TypeOK
<1>2. \A i \in DOMAIN fbuf : Clean(fbuf, i)
  BY <1>1 DEF Clean, TypeOK
<1>3. TornTail => ToSet(fbuf) \ {Torn} \subseteq late
  BY DEF LateInv
<1>4. /\ \A s \in Segments : \A i \in DOMAIN files'[s] :
            files'[s][i] # Torn /\ files'[s][i] \notin late' => Clean(files'[s], i)
      /\ TornTail' => TornTail
  BY <1>2, <1>3, Typed, GrownLate
<1>5. /\ ToSet(fbuf') = {} /\ ToSet(buffer') = ToSet(buffer)
      /\ Held("client")' = Held("client") /\ Held("flusher")' = Held("flusher")
  BY NoEntries DEF Held
<1>6. QED
  BY <1>4, <1>5 DEF LateInv, Clean

\* Every step keeps LateInv.
LEMMA LateStep ==
    ASSUME TypeOK, PcInv, OnceInv, LateInv, [Next]_vars
    PROVE  LateInv'
<1> DEFINE OnWay == ToSet(buffer) \cup Held("client") \cup Held("flusher") \cup ToSet(fbuf)
<1>0. ASSUME UNCHANGED files, TornTail => OnWay' \subseteq late', late \subseteq late' PROVE LateInv'
  <2>1. TornTail' <=> TornTail
    BY <1>0, TornShape
  <2>2. QED
    BY <1>0, <2>1 DEF LateInv, Clean
<1>1. ASSUME NEW e \in Entries, AppendEntry(e) PROVE LateInv'
  <2>1. /\ buffer' = Append(buffer, e) /\ UNCHANGED <<batch, fbuf, files>>
        /\ late' = IF TornTail THEN late \cup {e} ELSE late
    BY <1>1 DEF AppendEntry
  <2>2. ToSet(buffer') = ToSet(buffer) \cup {e}
    BY <2>1, Typed, AppendSet DEF Cell
  <2>3. Held("client")' = Held("client") /\ Held("flusher")' = Held("flusher")
    BY <2>1 DEF Held
  <2>4. QED
    BY <1>0, <2>1, <2>2, <2>3 DEF LateInv
<1>2. ASSUME UNCHANGED <<files, late>>, OnWay' \subseteq OnWay PROVE LateInv'
  BY <1>0, <1>2 DEF LateInv
<1>3. ASSUME NEW t \in Threads, TakeBuffer(t), UNCHANGED <<fbuf, files, late>> PROVE LateInv'
  <2>1. /\ batch'[t] = buffer /\ buffer' = <<>> /\ \A u \in Threads \ {t} : batch'[u] = batch[u]
    BY <1>3 DEF TakeBuffer, TypeOK
  <2>2. /\ Held(t)' = ToSet(buffer) /\ ToSet(buffer') = {}
        /\ \A u \in Threads \ {t} : Held(u)' = Held(u)
    BY <2>1, NoEntries DEF Held
  <2>3. QED
    BY <1>2, <1>3, <2>2 DEF Threads
<1>4. CASE UNCHANGED <<buffer, batch, fbuf, files, late>>
  BY <1>2, <1>4 DEF Held
<1>5. CASE Flush \/ GroupCommit
  BY <1>3, <1>4, <1>5 DEF Flush, GroupCommit, Threads
<1>6. ASSUME NEW t \in Threads, Rotate(t) \/ OpenSegment(t) \/ FlushFile(t) PROVE LateInv'
  BY <1>6, SpillLate DEF Rotate, CloseFile, OpenSegment, FlushFile, Grows
<1>7. CASE Close
  BY <1>7, SpillLate DEF Close, CloseFile, Grows
<1>8. ASSUME NEW t \in Threads, Write(t) PROVE LateInv'
  <2>1. /\ fbuf' = Append(fbuf, Head(batch[t])) /\ batch'[t] = Tail(batch[t])
        /\ \A u \in Threads \ {t} : batch'[u] = batch[u]
        /\ UNCHANGED <<buffer, files, late>>
    BY <1>8 DEF Write, TypeOK
  <2>2. batch[t] # <<>> /\ batch[t] \in Seq(Cell) /\ Torn \notin ToSet(batch[t])
    BY <1>8, Typed DEF Write, PcInv
  <2> DEFINE h == Head(batch[t])
  <2>3. Held(t) = {h} \cup ToSet(batch'[t]) /\ h \in Cell
    BY <2>1, <2>2, TailSet DEF Held, OnceInv
  <2>4. ToSet(fbuf') = ToSet(fbuf) \cup {h}
    BY <2>1, <2>3, Typed, AppendSet
  <2> HIDE DEF h
  <2>5. Held(t)' = ToSet(batch'[t]) /\ \A u \in Threads \ {t} : Held(u)' = Held(u)
    BY <2>1 DEF Held
  <2>6. QED
    BY <1>2, <2>1, <2>3, <2>4, <2>5 DEF Threads
<1>9. ASSUME NEW t \in Threads, WriteRaises(t) PROVE LateInv'
  <2>1. /\ batch'[t] = <<>> /\ \A u \in Threads \ {t} : batch'[u] = batch[u]
        /\ UNCHANGED <<buffer, fbuf, files, late>>
    BY <1>9 DEF WriteRaises, TypeOK
  <2>2. Held(t)' = {} /\ \A u \in Threads \ {t} : Held(u)' = Held(u)
    BY <2>1, NoEntries DEF Held
  <2>3. QED
    BY <1>2, <2>1, <2>2 DEF Threads
<1>10. CASE CrashRestart
  <2>1. PICK x \in Seq(Cell) : /\ Grows(x) /\ ToSet(x) \subseteq ToSet(fbuf) \cup {Torn}
                               /\ \A i \in DOMAIN x : x[i] # Torn => Clean(x, i)
    BY <1>10, CrashGrows
  <2>2. UNCHANGED late /\ (TornTail => ToSet(x) \ {Torn} \subseteq late)
    BY <1>10, <2>1 DEF LateInv, CrashRestart
  <2>3. \A s \in Segments : \A i \in DOMAIN files'[s] :
           files'[s][i] # Torn /\ files'[s][i] \notin late' => Clean(files'[s], i)
    BY <2>1, <2>2, Typed, GrownLate
  <2>4. buffer' = <<>> /\ fbuf' = <<>> /\ \A t \in Threads : batch'[t] = <<>>
    BY <1>10 DEF CrashRestart
  <2>5. ToSet(buffer') = {} /\ ToSet(fbuf') = {} /\ \A t \in Threads : Held(t)' = {}
    BY <2>4, NoEntries DEF Held
  <2>6. QED
    BY <2>3, <2>5 DEF LateInv, Clean, Threads
<1>11. CASE UNCHANGED vars
  BY <1>4, <1>11 DEF vars
<1>12. QED
  BY <1>1, <1>5, <1>6, <1>7, <1>8, <1>9, <1>10, <1>11 DEF Next, FlushBatch

\* A written entry that is not late is one that read_all returns.
LEMMA WrittenIsRead ==
    ASSUME LateInv
    PROVE  Written \subseteq ReadAll \cup late
<1> SUFFICES ASSUME NEW e \in Written, e \notin late PROVE e \in ReadAll
  OBVIOUS
<1>0. PICK s \in Segments : \E i \in DOMAIN files[s] : e # Torn /\ e = files[s][i]
  BY SlotShape
<1>1. PICK i \in DOMAIN files[s] : e # Torn /\ e = files[s][i]
  BY <1>0
<1>2. <<s, i>> \in Slots /\ At(<<s, i>>) = e
  BY <1>1, SlotShape DEF At
<1>3. Readable(<<s, i>>)
  BY <1>1 DEF LateInv, Clean, Readable
<1>4. QED
  BY <1>2, <1>3 DEF ReadAll

-----------------------------------------------------------------------------
(* The theorems *)

Inv == TypeOK /\ PcInv /\ OnceInv /\ SeenInv /\ LateInv

\* The initial states satisfy the joint invariant.
LEMMA InitInv == Init => Inv
<1> SUFFICES ASSUME Init PROVE Inv
  OBVIOUS
<1>1. TypeOK
  <2>1. <<>> \in Seq(Entries) /\ <<>> \in Seq(Cell)
    BY NoEntries
  <2>2. /\ batch \in [Threads -> Seq(Entries)] /\ pc \in [Threads -> Location]
        /\ files \in [Segments -> Seq(Entries \cup {Torn})]
    BY <2>1 DEF Init, Location, Cell
  <2>3. 0 \in Segments /\ path \in [Threads -> Segments]
    BY DEF Init, Segments
  <2>4. QED
    BY <2>1, <2>2, <2>3 DEF Init, TypeOK
<1>2. PcInv
  BY DEF Init, PcInv, Threads
<1>3. Slots = {} /\ Written = {}
  <2>1. \A s \in Segments : DOMAIN files[s] = {}
    <3>1. \A s \in Segments : files[s] = <<>> /\ DOMAIN <<>> = {}
      BY DEF Init
    <3>2. QED
      BY <3>1
  <2>2. QED
    BY <2>1 DEF Slots, Written
<1>4. ToSet(buffer) = {} /\ ToSet(fbuf) = {} /\ \A t \in Threads : Held(t) = {}
  BY NoEntries DEF Init, Held
<1>5. Once(buffer) /\ Once(fbuf) /\ \A t \in Threads : Once(batch[t])
  BY NoEntries DEF Init
<1>6. OnceInv
  BY <1>3, <1>4, <1>5 DEF OnceInv, LoggedOnce, Init, Threads
<1>7. SeenInv
  BY DEF Init, SeenInv, Accounted
<1>8. LateInv
  <2>1. \A s \in Segments : DOMAIN files[s] = {}
    <3>1. \A s \in Segments : files[s] = <<>> /\ DOMAIN <<>> = {}
      BY DEF Init
    <3>2. QED
      BY <3>1
  <2>2. QED
    BY <1>3, <2>1 DEF LateInv, TornTail
<1>9. QED
  BY <1>1, <1>2, <1>6, <1>7, <1>8 DEF Inv

\* The joint invariant of the log holds always.
LEMMA Invariant == Spec => []Inv
<1>1. Inv /\ [Next]_vars => Inv'
  BY TypeStep, PcStep, OnceStep, SeenStep, LateStep DEF Inv
<1>2. QED
  BY <1>1, InitInv, PTL DEF Spec

\* Buffer, batches, file object and files hold entries, and a thread that
\* writes has one to write (_flush_batch).
THEOREM TypeCorrect == Spec => []TypeOK
<1>1. Inv => TypeOK
  BY DEF Inv
<1>2. QED
  BY <1>1, Invariant, PTL

\* Whichever of the two threads takes an entry, and whatever fails, closes,
\* rotates or restarts meanwhile, it is in the log at most once.
THEOREM EntriesLoggedOnce == Spec => []LoggedOnce
<1>1. Inv => LoggedOnce
  BY DEF Inv, OnceInv
<1>2. QED
  BY <1>1, Invariant, PTL

\* read_all returns an acknowledged entry, unless the group-commit thread or the
\* open file still holds it, a crash or a closed file dropped it, or it was
\* appended when a segment already had a torn tail.
THEOREM AckedAccountedFor == Spec => []AckedNotForgotten
<1>1. Inv => AckedNotForgotten
  BY WrittenIsRead DEF Inv, SeenInv, Accounted, AckedNotForgotten
<1>2. QED
  BY <1>1, Invariant, PTL

\* The log is append-only: what read_all returned once it returns forever.
THEOREM LogOnlyGrows == Spec => ReadableStays
<1>1. TypeOK /\ [Next]_vars =>
        [\A p \in Slots : At(p) # Torn /\ Readable(p)
            => p \in Slots' /\ At(p)' = At(p) /\ Readable(p)']_vars
  <2> SUFFICES ASSUME TypeOK, [Next]_vars, NEW p \in Slots, At(p) # Torn, Readable(p)
               PROVE  p \in Slots' /\ At(p)' = At(p) /\ Readable(p)'
    OBVIOUS
  <2>1. CASE UNCHANGED files
    BY <2>1 DEF Slots, At, Readable
  <2>2. ASSUME NEW x \in Seq(Cell), Grows(x)
        PROVE  p \in Slots' /\ At(p)' = At(p) /\ Readable(p)'
    BY <2>2, Typed, GrownReadable
  <2>3. CASE Grows(fbuf)
    BY <2>2, <2>3, Typed
  <2>4. CASE CrashRestart
    BY <2>2, <2>4, CrashGrows
  <2>5. QED
    BY <2>1, <2>3, <2>4
       DEF Next, vars, AppendEntry, Flush, GroupCommit, FlushBatch, Rotate, OpenSegment, Write,
           FlushFile, WriteRaises, Close, CloseFile, Grows
<1>2. QED
  BY <1>1, TypeCorrect, PTL DEF Spec, ReadableStays
=============================================================================
