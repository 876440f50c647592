--------------------------- MODULE QueryPathProofs --------------------------
(***************************************************************************)
(* Proofs about QueryPath, for any number of clients and shards, any TTL,  *)
(* timeout and quota, and any Redis: how old an answer can be, which       *)
(* upserts it must show, and how many requests a window admits.            *)
(***************************************************************************)
EXTENDS QueryPath, FiniteSetTheorems, TLAPS

USE TimesAssumption, BoundsAssumption, NoneAssumption

-----------------------------------------------------------------------------
(* Type correctness *)

L1OK == l1 = None \/ l1 \in [at : Times, answer : Answer]
L2OK == l2 = None \/ l2 \in [expires : 0..MaxTime + TTL, answer : Answer]
CallsOK ==
    /\ query \in [Clients -> Query]
    /\ \A c \in Clients : query[c].pc = "answered" <=> query[c].answer # None

\* The answer of a query that timed out before any shard answered is an answer.
LEMMA NothingTyped == Nothing \in Seen
<1>1. Nothing \in [{} -> Contents]
  BY DEF Nothing
<1>2. QED
  BY <1>1 DEF Seen

\* A client between two queries is in a state of a query.
LEMMA IdleTyped == Idle \in Query
BY NothingTyped DEF Idle, Query, Times, Contents

\* What a search adds to the answer.
LEMMA FoundTyped ==
    ASSUME NEW seen \in Seen, NEW s \in Shards, ver \in [Shards -> Contents]
    PROVE  Found(seen, s) \in Seen
<1>1. PICK S \in SUBSET Shards : seen \in [S -> Contents]
  BY DEF Seen
<1>2. Found(seen, s) \in [S \cup {s} -> Contents]
  BY <1>1 DEF Found
<1>3. S \cup {s} \in SUBSET Shards
  OBVIOUS
<1>4. QED
  BY <1>2, <1>3 DEF Seen

\* The limiter counts requests per tick.
LEMMA KeptTyped ==
    ASSUME TypeOK
    PROVE  Kept \in [Times -> Nat]
BY DEF TypeOK, Kept

\* The limiter's window and the history of admissions stay counts per instant.
LEMMA AdmitTyped ==
    ASSUME TypeOK, Admit
    PROVE  bucket' \in [Times -> Nat] /\ accepted' \in [Times -> Nat]
<1>1. bucket' = [Kept EXCEPT ![now] = Kept[now] + 1]
  BY DEF Admit
<1>2. accepted' = [accepted EXCEPT ![now] = accepted[now] + 1]
  BY DEF Admit
<1>3. now \in Times /\ accepted \in [Times -> Nat]
  BY DEF TypeOK
<1>4. QED
  BY <1>1, <1>2, <1>3, KeptTyped

\* What the cache returns is an answer.
LEMMA CachedTyped ==
    ASSUME TypeOK, NEW up \in BOOLEAN, Hit(up)
    PROVE  Cached \in Answer
BY DEF TypeOK, Hit, InL1, InL2, Cached

\* A query up to its fan-out, cache hit included, keeps the types.
LEMMA BeginTyped ==
    ASSUME TypeOK, NEW c \in Clients, NEW vectors \in BOOLEAN, NEW up \in BOOLEAN,
           Begin(c, vectors, up)
    PROVE  TypeOK'
<1>1. L1OK'
  BY DEF TypeOK, Begin, GetQuery, InL1, InL2, L1OK
<1> DEFINE q == [Idle EXCEPT !.vectors = vectors, !.began = now, !.need = Due]
<1>2. Due \in [Shards -> Contents]
  BY DEF Due, TypeOK, Idle, Contents
<1>3. q \in Query /\ q.answer = None
  BY <1>2, IdleTyped DEF Query, TypeOK, Idle
<1>4. Empty \in Answer
  BY NothingTyped DEF Answer, TypeOK, Empty
<1>5. /\ query'[c] \in Query
      /\ query'[c].pc = "answered" <=> query'[c].answer # None
  <2>1. CASE Hit(up) /\ ~vectors
    BY <1>3, <2>1, CachedTyped DEF Begin, TypeOK, Query
  <2>2. CASE ~(Hit(up) /\ ~vectors) /\ readable = {}
    BY <1>3, <1>4, <2>2 DEF Begin, TypeOK, Query
  <2>3. CASE ~(Hit(up) /\ ~vectors) /\ readable # {}
    BY <1>3, <2>3 DEF Begin, TypeOK, Query
  <2>4. QED
    BY <2>1, <2>2, <2>3
<1>6. CallsOK'
  <2>1. query' = [query EXCEPT ![c] = query'[c]]
    BY DEF Begin, TypeOK
  <2>2. QED
    BY <1>5, <2>1 DEF TypeOK, CallsOK
<1>7. bucket' \in [Times -> Nat] /\ accepted' \in [Times -> Nat]
  BY AdmitTyped DEF Begin
<1>8. QED
  BY <1>1, <1>6, <1>7 DEF TypeOK, Begin, L1OK, CallsOK

\* Caching and handing over what the fan-out found keeps the types.
LEMMA AnsweredTyped ==
    ASSUME TypeOK, NEW c \in Clients, NEW seen \in Seen, NEW timedout \in BOOLEAN,
           NEW up \in BOOLEAN, Answered(c, seen, timedout, up)
    PROVE  TypeOK'
<1> DEFINE answer == [seen |-> seen, made |-> now, timedout |-> timedout]
<1>1. query[c] \in Query
  BY DEF TypeOK
<1>2. answer \in Answer
  BY DEF TypeOK, Answer
<1>3. L1OK' /\ L2OK'
  BY <1>2 DEF TypeOK, Answered, SetQuery, caches, L1OK, L2OK, Times
<1>4. query'[c] \in Query /\ query'[c].pc = "answered" /\ query'[c].answer = answer
  BY <1>1, <1>2, NothingTyped DEF TypeOK, Answered, Query
<1>5. CallsOK'
  BY <1>2, <1>4 DEF TypeOK, Answered, CallsOK
<1>6. QED
  BY <1>3, <1>5 DEF TypeOK, Answered, L1OK, L2OK, CallsOK

\* Every variable keeps the values it is meant to have.
THEOREM TypeCorrect == Spec => []TypeOK
<1>1. Init => TypeOK
  <2>1. Idle \in Query /\ Idle.answer = None /\ Idle.pc = "idle"
    BY IdleTyped DEF Idle
  <2>2. QED
    <3> SUFFICES ASSUME Init PROVE TypeOK
      OBVIOUS
    <3>1. ver \in [Shards -> Contents] /\ must \in [Shards -> Contents]
      BY DEF Init, Contents
    <3>2. now \in Times /\ bucket \in [Times -> Nat] /\ accepted \in [Times -> Nat]
      BY DEF Init, Times
    <3>3. CallsOK
      BY <2>1 DEF Init, CallsOK
    <3>4. QED
      BY <3>1, <3>2, <3>3 DEF Init, TypeOK, CallsOK
<1>2. TypeOK /\ [Next]_vars => TypeOK'
  <2> SUFFICES ASSUME TypeOK, [Next]_vars PROVE TypeOK'
    OBVIOUS
  <2>1. ASSUME NEW c \in Clients, NEW vectors \in BOOLEAN, NEW up \in BOOLEAN,
               Begin(c, vectors, up)
        PROVE  TypeOK'
    BY <2>1, BeginTyped
  <2>2. CASE Reject
    BY <2>2 DEF TypeOK, Reject, Kept
  <2>3. ASSUME NEW c \in Clients, NEW s \in Shards, SearchShard(c, s) PROVE TypeOK'
    <3>1. query[c] \in Query
      BY DEF TypeOK
    <3>2. Found(query[c].seen, s) \in Seen
      BY <3>1, FoundTyped DEF TypeOK, Query
    <3>3. query'[c] \in Query /\ query'[c].pc = query[c].pc /\ query'[c].answer = query[c].answer
      BY <2>3, <3>1, <3>2 DEF SearchShard, TypeOK, Query
    <3>4. CallsOK'
      BY <2>3, <3>3 DEF SearchShard, TypeOK, CallsOK
    <3>5. QED
      BY <2>3, <3>4 DEF SearchShard, TypeOK, CallsOK
  <2>4. ASSUME NEW c \in Clients, NEW up \in BOOLEAN, Finish(c, up) PROVE TypeOK'
    <3>1. query[c].seen \in Seen /\ Answered(c, query[c].seen, FALSE, up)
      BY <2>4 DEF Finish, TypeOK, Query
    <3>2. QED
      BY <3>1, AnsweredTyped
  <2>5. ASSUME NEW c \in Clients, NEW up \in BOOLEAN, TimesOut(c, up) PROVE TypeOK'
    BY <2>5, AnsweredTyped, NothingTyped DEF TimesOut
  <2>6. ASSUME NEW c \in Clients, Return(c) PROVE TypeOK'
    <3>1. Idle \in Query /\ Idle.answer = None /\ Idle.pc = "idle"
      BY IdleTyped DEF Idle
    <3>2. QED
      BY <2>6, <3>1 DEF Return, TypeOK
  <2>7. ASSUME NEW s \in Shards, NEW up \in BOOLEAN, Upsert(s, up) PROVE TypeOK'
    <3>1. bucket' \in [Times -> Nat] /\ accepted' \in [Times -> Nat]
      BY <2>7, AdmitTyped DEF Upsert
    <3>2. ver' \in [Shards -> Contents]
      BY <2>7 DEF Upsert, WriteTo, TypeOK, Contents
    <3>3. tainted' \in BOOLEAN
      BY <2>7 DEF Upsert
    <3>4. QED
      BY <2>7, <3>1, <3>2, <3>3 DEF Upsert, InvalidateNamespace, TypeOK
  <2>8. ASSUME NEW s \in Shards, QuietWrite(s) PROVE TypeOK'
    BY <2>8 DEF QuietWrite, WriteTo, TypeOK, Contents
  <2>9. CASE Tick
    BY <2>9 DEF Tick, TypeOK, Times
  <2>10. CASE UNCHANGED vars
    BY <2>10 DEF vars, TypeOK
  <2>11. QED
    BY <2>1, <2>2, <2>3, <2>4, <2>5, <2>6, <2>7, <2>8, <2>9, <2>10 DEF Next
<1>3. QED
  BY <1>1, <1>2, PTL DEF Spec

-----------------------------------------------------------------------------
(* The age of an answer *)

\* A search has begun; an answer entered L1 less than a TTL after it was put
\* together, and L2 gives it up by then.
AgeInv ==
    /\ \A c \in Clients : query[c].pc = "searching" => query[c].began <= now
    /\ l1 # None => l1.at < l1.answer.made + TTL
    /\ l2 # None => l2.expires <= l2.answer.made + TTL
    /\ AnswerAge

\* An answer from the cache is young enough, and so is what warms L1.
LEMMA CachedAge ==
    ASSUME TypeOK, AgeInv, NEW up \in BOOLEAN, Hit(up)
    PROVE  /\ now < Cached.made + 2 * TTL
           /\ ~InL1 => now < l2.answer.made + TTL
<1>0. now \in Nat /\ TTL \in Nat
  BY DEF TypeOK, Times
<1>1. CASE InL1
  <2>1. l1 # None /\ l1.at \in Nat /\ l1.answer.made \in Nat /\ Cached = l1.answer
    BY <1>1 DEF TypeOK, InL1, Cached, Answer, Times
  <2>2. now < l1.at + TTL /\ l1.at < l1.answer.made + TTL
    BY <1>1, <2>1 DEF InL1, AgeInv
  <2>3. QED
    BY <1>0, <1>1, <2>1, <2>2
<1>2. CASE ~InL1
  <2>1. l2 # None /\ l2.expires \in Nat /\ l2.answer.made \in Nat /\ Cached = l2.answer
    BY <1>2 DEF TypeOK, Hit, InL2, Cached, Answer, Times
  <2>2. now < l2.expires /\ l2.expires <= l2.answer.made + TTL
    BY <1>2, <2>1 DEF Hit, InL2, AgeInv
  <2>3. QED
    BY <1>0, <2>1, <2>2
<1>3. QED
  BY <1>1, <1>2

\* A hit, also one that warms L1 from Redis, keeps every age within its bound.
LEMMA BeginAge ==
    ASSUME TypeOK, AgeInv, NEW c \in Clients, NEW vectors \in BOOLEAN, NEW up \in BOOLEAN,
           Begin(c, vectors, up)
    PROVE  AgeInv'
<1>1. now \in Nat /\ TTL \in Nat \ {0}
  BY DEF TypeOK, Times
<1>2. l1' # None => l1'.at < l1'.answer.made + TTL
  <2>1. CASE InL1
    BY <2>1 DEF Begin, GetQuery, AgeInv
  <2>2. CASE ~InL1 /\ InL2(up)
    BY <2>2, CachedAge DEF Begin, GetQuery, Hit
  <2>3. CASE ~InL1 /\ ~InL2(up)
    BY <2>3 DEF Begin, GetQuery
  <2>4. QED
    BY <2>1, <2>2, <2>3
<1>3. /\ query'[c].pc = "searching" => query'[c].began = now
      /\ query'[c].pc = "answered" => query'[c].began < query'[c].answer.made + 2 * TTL
  <2>1. CASE Hit(up) /\ ~vectors
    <3>1. query'[c].pc = "answered" /\ query'[c].began = now /\ query'[c].answer = Cached
      BY <2>1 DEF Begin, TypeOK, Idle
    <3>2. QED
      BY <2>1, <3>1, CachedAge
  <2>2. CASE ~(Hit(up) /\ ~vectors) /\ readable = {}
    <3>1. query'[c].pc = "answered" /\ query'[c].began = now /\ query'[c].answer.made = now
      BY <2>2 DEF Begin, TypeOK, Idle, Empty
    <3>2. QED
      BY <1>1, <3>1
  <2>3. CASE ~(Hit(up) /\ ~vectors) /\ readable # {}
    BY <2>3 DEF Begin, TypeOK, Idle
  <2>4. QED
    BY <2>1, <2>2, <2>3
<1>4. \A d \in Clients \ {c} : query'[d] = query[d]
  BY DEF Begin, TypeOK
<1>5. now' = now /\ l2' = l2
  BY DEF Begin
<1>6. QED
  BY <1>1, <1>2, <1>3, <1>4, <1>5 DEF AgeInv, AnswerAge

\* An answer enters the tiers when it is put together.
LEMMA AnsweredAge ==
    ASSUME TypeOK, AgeInv, NEW c \in Clients, NEW seen, NEW timedout, NEW up \in BOOLEAN,
           query[c].pc = "searching", Answered(c, seen, timedout, up)
    PROVE  AgeInv'
<1>1. /\ now \in Nat /\ query[c].began \in Nat /\ TTL \in Nat \ {0}
      /\ query[c].began <= now
  BY DEF TypeOK, AgeInv, Times, Query
<1>2. /\ query'[c].pc = "answered"
      /\ query'[c].began = query[c].began
      /\ query'[c].answer.made = now
      /\ \A d \in Clients \ {c} : query'[d] = query[d]
  BY DEF Answered, TypeOK
<1>3. l1' = l1 \/ (l1'.at = now /\ l1'.answer.made = now)
  BY DEF Answered, SetQuery, caches
<1>4. l2' = l2 \/ (l2'.expires = now + TTL /\ l2'.answer.made = now)
  BY DEF Answered, SetQuery, caches
<1>5. now' = now
  BY DEF Answered
<1>6. AnswerAge'
  BY <1>1, <1>2 DEF AgeInv, AnswerAge
<1>7. QED
  BY <1>1, <1>2, <1>3, <1>4, <1>5, <1>6 DEF AgeInv

\* Whatever way an answer took through the two tiers, it was put together less
\* than two TTLs before the query that gets it began (TieredCache).
THEOREM AnswerAgeBounded == Spec => []AnswerAge
<1>1. Init => AgeInv
  BY DEF Init, AgeInv, AnswerAge, Idle
<1>2. TypeOK /\ TypeOK' /\ AgeInv /\ [Next]_vars => AgeInv'
  <2> SUFFICES ASSUME TypeOK, TypeOK', AgeInv, [Next]_vars PROVE AgeInv'
    OBVIOUS
  <2>1. ASSUME NEW c \in Clients, NEW vectors \in BOOLEAN, NEW up \in BOOLEAN,
               Begin(c, vectors, up)
        PROVE  AgeInv'
    BY <2>1, BeginAge
  <2>2. CASE Reject
    BY <2>2 DEF Reject, AgeInv, AnswerAge
  <2>3. ASSUME NEW c \in Clients, NEW s \in Shards, SearchShard(c, s) PROVE AgeInv'
    <3>1. /\ \A d \in Clients : /\ query'[d].pc = query[d].pc
                                /\ query'[d].began = query[d].began
                                /\ query'[d].answer = query[d].answer
          /\ UNCHANGED <<l1, l2, now>>
      BY <2>3 DEF SearchShard, TypeOK, Query
    <3>2. QED
      BY <3>1 DEF AgeInv, AnswerAge
  <2>4. ASSUME NEW c \in Clients, NEW up \in BOOLEAN, Finish(c, up) PROVE AgeInv'
    BY <2>4, AnsweredAge DEF Finish
  <2>5. ASSUME NEW c \in Clients, NEW up \in BOOLEAN, TimesOut(c, up) PROVE AgeInv'
    BY <2>5, AnsweredAge DEF TimesOut
  <2>6. ASSUME NEW c \in Clients, Return(c) PROVE AgeInv'
    BY <2>6 DEF Return, AgeInv, AnswerAge, TypeOK, Idle
  <2>7. ASSUME NEW s \in Shards, NEW up \in BOOLEAN, Upsert(s, up) PROVE AgeInv'
    BY <2>7 DEF Upsert, InvalidateNamespace, AgeInv, AnswerAge
  <2>8. ASSUME NEW s \in Shards, QuietWrite(s) PROVE AgeInv'
    BY <2>8 DEF QuietWrite, AgeInv, AnswerAge
  <2>9. CASE Tick
    <3>1. now \in Nat /\ \A c \in Clients : query[c].began \in Nat
      BY DEF TypeOK, Times, Query
    <3>2. now' = now + 1 /\ UNCHANGED <<query, l1, l2>>
      BY <2>9 DEF Tick
    <3>3. QED
      BY <3>1, <3>2 DEF AgeInv, AnswerAge
  <2>10. CASE UNCHANGED vars
    BY <2>10 DEF vars, AgeInv, AnswerAge
  <2>11. QED
    BY <2>1, <2>2, <2>3, <2>4, <2>5, <2>6, <2>7, <2>8, <2>9, <2>10 DEF Next
<1>3. AgeInv => AnswerAge
  BY DEF AgeInv
<1>4. QED
  BY <1>1, <1>2, <1>3, TypeCorrect, PTL DEF Spec

-----------------------------------------------------------------------------
(* The upserts an answer shows *)

\* What was seen of the shards in its domain is at least f.
Shows(seen, f) == \A s \in DOMAIN seen : seen[s] >= f[s]

\* An answer is from all readable shards, unless it is the empty one of a timeout.
Whole(answer) == ~answer.timedout => DOMAIN answer.seen = readable

\* Unless the last invalidating write was tainted, both tiers and every search
\* that will be cached show it; a search shows what was due when it began, and
\* has the readable shards behind it or before it.
SeenInv ==
    /\ \A s \in Shards : must[s] <= ver[s]
    /\ l1 # None => Whole(l1.answer)
    /\ l2 # None => Whole(l2.answer)
    /\ ~tainted =>
          /\ l1 # None => Shows(l1.answer.seen, must)
          /\ l2 # None => Shows(l2.answer.seen, must)
          /\ \A c \in Clients :
                query[c].pc = "searching" /\ ~query[c].vectors => Shows(query[c].seen, must)
    /\ \A c \in Clients :
          query[c].pc = "searching" =>
              /\ Shows(query[c].seen, query[c].need)
              /\ \A s \in Shards : query[c].need[s] <= ver[s]
              /\ DOMAIN query[c].seen \cup query[c].todo = readable
    /\ \A c \in Clients :
          query[c].pc = "answered" =>
              /\ Shows(query[c].answer.seen, query[c].need)
              /\ Whole(query[c].answer)

\* An answer that names no shard hides nothing that was due.
LEMMA ShowsNothing == DOMAIN Nothing = {} /\ \A f : Shows(Nothing, f)
BY DEF Shows, Nothing

\* Searching one more shard shows what its present contents show.
LEMMA ShowsFound ==
    ASSUME NEW seen \in Seen, NEW f \in [Shards -> Contents], NEW s \in Shards,
           ver \in [Shards -> Contents], Shows(seen, f), f[s] <= ver[s]
    PROVE  Shows(Found(seen, s), f)
<1>1. ver[s] >= f[s]
  BY DEF Contents
<1>2. QED
  BY <1>1 DEF Shows, Found

\* Everything shows the empty obligation, which is what is due after a
\* tainted write.
LEMMA ShowsZero ==
    ASSUME NEW seen \in Seen
    PROVE  Shows(seen, Idle.need)
<1>1. PICK S \in SUBSET Shards : seen \in [S -> Contents]
  BY DEF Seen
<1>2. \A s \in S : seen[s] \in Nat /\ Idle.need[s] = 0
  BY <1>1 DEF Contents, Idle
<1>3. QED
  BY <1>1, <1>2 DEF Shows

\* Both tiers show what is due, and only stored content is due.
LEMMA DueShown ==
    ASSUME TypeOK, SeenInv
    PROVE  /\ Due \in [Shards -> Contents]
           /\ \A s \in Shards : Due[s] <= ver[s]
           /\ l1 # None => Shows(l1.answer.seen, Due)
           /\ l2 # None => Shows(l2.answer.seen, Due)
<1>1. CASE tainted
  <2>1. Due = Idle.need
    BY <1>1 DEF Due
  <2>2. /\ l1 # None => l1.answer.seen \in Seen
        /\ l2 # None => l2.answer.seen \in Seen
    BY DEF TypeOK, Answer
  <2>3. /\ Due \in [Shards -> Contents]
        /\ \A s \in Shards : Due[s] = 0 /\ ver[s] \in Nat
    BY <2>1 DEF Idle, Contents, TypeOK
  <2>4. QED
    BY <2>1, <2>2, <2>3, ShowsZero
<1>2. CASE ~tainted
  BY <1>2 DEF Due, TypeOK, SeenInv
<1>3. QED
  BY <1>1, <1>2

\* A cache hit shows the client what is due.
LEMMA BeginSeen ==
    ASSUME TypeOK, SeenInv, NEW c \in Clients, NEW vectors \in BOOLEAN, NEW up \in BOOLEAN,
           Begin(c, vectors, up)
    PROVE  SeenInv'
<1>1. /\ UNCHANGED <<ver, readable, l2, must, tainted>>
      /\ \A d \in Clients \ {c} : query'[d] = query[d]
  BY DEF Begin, TypeOK
<1>2. l1' = None \/ l1' = l1 \/ (l2 # None /\ l1'.answer = l2.answer)
  BY DEF Begin, GetQuery, InL2
<1>3. /\ query'[c].need = Due
      /\ \/ query'[c].pc = "answered" /\ query'[c].answer = Cached /\ Hit(up)
         \/ query'[c].pc = "answered" /\ query'[c].answer = Empty /\ readable = {}
         \/ query'[c].pc = "searching" /\ query'[c].seen = Nothing /\ query'[c].todo = readable
  <2>1. CASE Hit(up) /\ ~vectors
    BY <2>1 DEF Begin, TypeOK, Idle
  <2>2. CASE ~(Hit(up) /\ ~vectors) /\ readable = {}
    BY <2>2 DEF Begin, TypeOK, Idle
  <2>3. CASE ~(Hit(up) /\ ~vectors) /\ readable # {}
    BY <2>3 DEF Begin, TypeOK, Idle
  <2>4. QED
    BY <2>1, <2>2, <2>3
<1>4. query'[c].pc = "answered" => Shows(query'[c].answer.seen, Due)
  BY <1>3, DueShown, ShowsNothing DEF Cached, Hit, InL1, InL2, Empty
<1>5. query'[c].pc = "answered" => Whole(query'[c].answer)
  <2>1. CASE query'[c].answer = Cached /\ Hit(up)
    BY <2>1 DEF SeenInv, Cached, Hit, InL1, InL2
  <2>2. CASE query'[c].answer = Empty /\ readable = {}
    BY <2>2, ShowsNothing DEF Whole, Empty
  <2>3. QED
    BY <1>3, <2>1, <2>2
<1>6. query'[c].pc = "searching" =>
          /\ Shows(query'[c].seen, Due)
          /\ Shows(query'[c].seen, must)
          /\ \A s \in Shards : Due[s] <= ver[s]
          /\ DOMAIN query'[c].seen \cup query'[c].todo = readable
  BY <1>3, DueShown, ShowsNothing
<1>7. QED
  BY <1>1, <1>2, <1>3, <1>4, <1>5, <1>6 DEF SeenInv, Whole

\* An answer cached after its fan-out shows what is due, unless the upsert met the fan-out.
LEMMA AnsweredSeen ==
    ASSUME TypeOK, SeenInv, NEW c \in Clients, NEW seen, NEW timedout, NEW up \in BOOLEAN,
           query[c].pc = "searching",
           \/ seen = Nothing /\ timedout = TRUE
           \/ seen = query[c].seen /\ timedout = FALSE /\ query[c].todo = {},
           Answered(c, seen, timedout, up)
    PROVE  SeenInv'
<1>1. /\ UNCHANGED <<ver, readable, must, tainted>>
      /\ \A d \in Clients \ {c} : query'[d] = query[d]
      /\ query'[c].pc = "answered"
      /\ query'[c].answer.seen = seen
      /\ query'[c].answer.timedout = timedout
      /\ query'[c].need = query[c].need
  BY DEF Answered, TypeOK, Query
<1>2. Shows(seen, query[c].need)
  BY ShowsNothing DEF SeenInv
<1>3. ~tainted /\ ~query[c].vectors => Shows(seen, must)
  BY ShowsNothing DEF SeenInv
<1>4. ~timedout => DOMAIN seen = readable
  BY DEF SeenInv
<1>5. l1' = l1 \/ (~query[c].vectors /\ l1'.answer.seen = seen /\ l1'.answer.timedout = timedout)
  BY DEF Answered, SetQuery, caches
<1>6. l2' = l2 \/ (~query[c].vectors /\ l2'.answer.seen = seen /\ l2'.answer.timedout = timedout)
  BY DEF Answered, SetQuery, caches
<1>7. QED
  BY <1>1, <1>2, <1>3, <1>4, <1>5, <1>6 DEF SeenInv, Whole

\* An upsert that met no search in its fan-out and a Redis that took the
\* invalidation leaves nothing that could hide it.
LEMMA UpsertSeenStep ==
    ASSUME TypeOK, SeenInv, NEW s \in Shards, NEW up \in BOOLEAN, Upsert(s, up)
    PROVE  SeenInv'
<1>1. ver' = [ver EXCEPT ![s] = @ + 1] /\ must' = ver' /\ query' = query /\ readable' = readable
  BY DEF Upsert, WriteTo
<1>2. \A t \in Shards : ver[t] \in Nat /\ ver'[t] \in Nat /\ ver[t] <= ver'[t]
  BY <1>1 DEF TypeOK, Contents
<1>3. \A c \in Clients : query[c].need \in [Shards -> Contents]
  BY DEF TypeOK, Query
<1>4. \A c \in Clients : query'[c].pc = "searching" =>
          \A t \in Shards : query'[c].need[t] <= ver'[t]
  BY <1>1, <1>2, <1>3 DEF SeenInv, Contents
<1>5. ~tainted' => l1' = None /\ l2' = None
                   /\ ~\E c \in Clients : query'[c].pc = "searching" /\ ~query'[c].vectors
  BY DEF Upsert, InvalidateNamespace, InFanOut
<1>6. (l1' = None) /\ (l2' = None \/ l2' = l2)
  BY DEF Upsert, InvalidateNamespace
<1>7. QED
  BY <1>1, <1>2, <1>4, <1>5, <1>6 DEF SeenInv, Whole

\* A query that begins after an upsert was answered is answered from all readable
\* shards and shows it, unless a search in its fan-out or a failing Redis kept an
\* older answer, or the answer is the empty one of a query that timed out
\* (upsert_vectors, invalidate_namespace, QueryEngine.query).
THEOREM UpsertsAreSeen == Spec => []UpsertSeen
<1>1. Init => SeenInv
  <2>1. Idle.pc = "idle"
    BY DEF Idle
  <2>2. QED
    BY <2>1 DEF Init, SeenInv
<1>2. TypeOK /\ SeenInv /\ [Next]_vars => SeenInv'
  <2> SUFFICES ASSUME TypeOK, SeenInv, [Next]_vars PROVE SeenInv'
    OBVIOUS
  <2>1. ASSUME NEW c \in Clients, NEW vectors \in BOOLEAN, NEW up \in BOOLEAN,
               Begin(c, vectors, up)
        PROVE  SeenInv'
    BY <2>1, BeginSeen
  <2>2. CASE Reject
    BY <2>2 DEF Reject, SeenInv, Whole
  <2>3. ASSUME NEW c \in Clients, NEW s \in Shards, SearchShard(c, s) PROVE SeenInv'
    <3>1. query[c] \in Query /\ query[c].pc = "searching"
      BY <2>3 DEF TypeOK, SearchShard
    <3>2. /\ \A d \in Clients \ {c} : query'[d] = query[d]
          /\ query'[c].pc = "searching"
          /\ query'[c].vectors = query[c].vectors
          /\ query'[c].need = query[c].need
          /\ query'[c].seen = Found(query[c].seen, s)
          /\ query'[c].todo = query[c].todo \ {s} /\ s \in query[c].todo
          /\ UNCHANGED <<ver, readable, l1, l2, must, tainted>>
      BY <2>3, <3>1 DEF SearchShard, TypeOK, Query
    <3>3. Shows(query'[c].seen, query[c].need)
      BY <3>1, <3>2, ShowsFound DEF SeenInv, TypeOK, Query
    <3>4. ~tainted /\ ~query[c].vectors => Shows(query'[c].seen, must)
      BY <3>1, <3>2, ShowsFound DEF SeenInv, TypeOK, Query
    <3>5. DOMAIN query'[c].seen = DOMAIN query[c].seen \cup {s}
      BY <3>2 DEF Found
    <3>6. DOMAIN query'[c].seen \cup query'[c].todo = readable
      BY <3>1, <3>2, <3>5 DEF SeenInv
    <3>7. QED
      BY <3>1, <3>2, <3>3, <3>4, <3>6 DEF SeenInv, Whole
  <2>4. ASSUME NEW c \in Clients, NEW up \in BOOLEAN, Finish(c, up) PROVE SeenInv'
    BY <2>4, AnsweredSeen DEF Finish
  <2>5. ASSUME NEW c \in Clients, NEW up \in BOOLEAN, TimesOut(c, up) PROVE SeenInv'
    BY <2>5, AnsweredSeen DEF TimesOut
  <2>6. ASSUME NEW c \in Clients, Return(c) PROVE SeenInv'
    BY <2>6 DEF Return, SeenInv, TypeOK, Idle, Whole
  <2>7. ASSUME NEW s \in Shards, NEW up \in BOOLEAN, Upsert(s, up) PROVE SeenInv'
    BY <2>7, UpsertSeenStep
  <2>8. ASSUME NEW s \in Shards, QuietWrite(s) PROVE SeenInv'
    <3>1. UNCHANGED <<readable, l1, l2, query, must, tainted>> /\ ver' = [ver EXCEPT ![s] = @ + 1]
      BY <2>8 DEF QuietWrite, WriteTo
    <3>2. \A t \in Shards : ver[t] \in Nat /\ ver'[t] \in Nat /\ ver[t] <= ver'[t] /\ must[t] \in Nat
      BY <3>1 DEF TypeOK, Contents
    <3>3. \A c \in Clients : \A t \in Shards : query[c].need[t] \in Nat
      BY DEF TypeOK, Query, Contents
    <3>4. /\ \A t \in Shards : must'[t] <= ver'[t]
          /\ \A c \in Clients : query[c].pc = "searching" =>
                \A t \in Shards : query[c].need[t] <= ver'[t]
      BY <3>1, <3>2, <3>3 DEF SeenInv
    <3>5. QED
      BY <3>1, <3>4 DEF SeenInv, Whole
  <2>9. CASE Tick
    BY <2>9 DEF Tick, SeenInv, Whole
  <2>10. CASE UNCHANGED vars
    BY <2>10 DEF vars, SeenInv, Whole
  <2>11. QED
    BY <2>1, <2>2, <2>3, <2>4, <2>5, <2>6, <2>7, <2>8, <2>9, <2>10 DEF Next
<1>3. SeenInv => UpsertSeen
  BY DEF SeenInv, UpsertSeen, Shows, Whole
<1>4. QED
  BY <1>1, <1>2, <1>3, TypeCorrect, PTL DEF Spec
-----------------------------------------------------------------------------
(* The rate limiter *)

\* A time stamp is an instant and a number up to the count at that instant.
LEMMA StampPairs ==
    ASSUME NEW f, NEW p
    PROVE  p \in Stamps(f) <=> \E t \in Times, i \in Nat : i \in 1..f[t] /\ p = <<t, i>>
BY DEF Stamps

\* Fewer stamps at every instant are fewer stamps.
LEMMA StampsKept ==
    ASSUME NEW f \in [Times -> Nat], NEW g \in [Times -> Nat],
           \A t \in Times : g[t] <= f[t],
           IsFiniteSet(Stamps(f))
    PROVE  IsFiniteSet(Stamps(g)) /\ Total(g) <= Total(f)
<1>1. ASSUME NEW p \in Stamps(g) PROVE p \in Stamps(f)
  <2>1. PICK t \in Times, i \in Nat : i \in 1..g[t] /\ p = <<t, i>>
    BY StampPairs
  <2>2. i \in 1..f[t]
    BY <2>1
  <2>3. QED
    BY <2>1, <2>2, StampPairs
<1>2. Stamps(g) \in SUBSET Stamps(f)
  BY <1>1
<1>3. QED
  BY <1>2, FS_Subset DEF Total

\* One request more is one stamp more.
LEMMA StampAdded ==
    ASSUME NEW f \in [Times -> Nat], NEW n \in Times, IsFiniteSet(Stamps(f))
    PROVE  LET g == [f EXCEPT ![n] = @ + 1]
           IN  IsFiniteSet(Stamps(g)) /\ Total(g) = Total(f) + 1
<1> DEFINE g == [f EXCEPT ![n] = @ + 1]
           new == <<n, f[n] + 1>>
<1>1. g[n] = f[n] + 1 /\ f[n] \in Nat /\ \A t \in Times \ {n} : g[t] = f[t]
  OBVIOUS
<1>2. 1..(f[n] + 1) = 1..f[n] \cup {f[n] + 1}
  BY <1>1
<1> HIDE DEF g
<1>3. ASSUME NEW p \in Stamps(g) PROVE p \in Stamps(f) \cup {new}
  <2>1. PICK t \in Times, i \in Nat : i \in 1..g[t] /\ p = <<t, i>>
    BY StampPairs
  <2>2. CASE t = n
    BY <1>1, <1>2, <2>1, <2>2, StampPairs
  <2>3. CASE t # n
    BY <1>1, <2>1, <2>3, StampPairs
  <2>4. QED
    BY <2>2, <2>3
<1>4. ASSUME NEW p \in Stamps(f) \cup {new} PROVE p \in Stamps(g)
  <2>1. CASE p = new
    <3>1. f[n] + 1 \in Nat /\ f[n] + 1 \in 1..g[n]
      BY <1>1
    <3>2. QED
      BY <2>1, <3>1, StampPairs
  <2>2. CASE p \in Stamps(f)
    <3>1. PICK t \in Times, i \in Nat : i \in 1..f[t] /\ p = <<t, i>>
      BY <2>2, StampPairs
    <3>2. i \in 1..g[t]
      BY <1>1, <1>2, <3>1
    <3>3. QED
      BY <3>1, <3>2, StampPairs
  <2>3. QED
    BY <2>1, <2>2
<1>5. new \notin Stamps(f)
  <2>1. f[n] + 1 \notin 1..f[n]
    BY <1>1
  <2>2. QED
    BY <2>1, StampPairs
<1>6. Stamps(g) = Stamps(f) \cup {new}
  BY <1>3, <1>4
<1>7. IsFiniteSet(Stamps(g)) /\ Total(g) = Total(f) + 1
  BY <1>5, <1>6, FS_AddElement DEF Total
<1>8. QED
  BY <1>7 DEF g

\* What the limiter would keep now is what was admitted in the last second,
\* and that is within the quota.
QuotaInv ==
    /\ accepted = Kept
    /\ IsFiniteSet(Stamps(accepted))
    /\ Total(accepted) <= Quota

\* An admitted request finds room in its window.
LEMMA AdmitQuota ==
    ASSUME TypeOK, QuotaInv, Admit, now' = now
    PROVE  QuotaInv'
<1>1. now \in Times /\ now \in Nat /\ Kept \in [Times -> Nat]
  BY KeptTyped DEF TypeOK, Times
<1>2. bucket' = [Kept EXCEPT ![now] = @ + 1] /\ accepted' = bucket'
  BY DEF Admit, QuotaInv
<1>3. Total(accepted) \in Nat
  BY FS_CardinalityType DEF Total, QuotaInv
<1>4. /\ IsFiniteSet(Stamps(accepted'))
      /\ Total(accepted') = Total(accepted) + 1
  BY <1>1, <1>2, StampAdded DEF QuotaInv
<1>5. Total(accepted) < Quota
  BY DEF Admit, QuotaInv
<1>6. accepted' = Kept'
  <2>1. \A t \in Times : ~(now < t + Second) => bucket'[t] = 0
    <3> SUFFICES ASSUME NEW t \in Times, ~(now < t + Second) PROVE bucket'[t] = 0
      OBVIOUS
    <3>1. t # now
      BY <1>1
    <3>2. QED
      BY <1>1, <1>2, <3>1 DEF Kept
  <2>2. Kept' = bucket'
    BY <1>1, <1>2, <2>1 DEF Kept
  <2>3. QED
    BY <1>2, <2>2
<1>7. QED
  BY <1>3, <1>4, <1>5, <1>6 DEF QuotaInv

\* In any second the limiter admits at most the quota, wherever the second
\* begins: rejected requests leave no stamp, and dropping old stamps late or
\* early changes nothing.
THEOREM QuotaHolds == Spec => []QuotaPerWindow
<1>1. Init => QuotaInv
  <2> SUFFICES ASSUME Init PROVE QuotaInv
    OBVIOUS
  <2>1. accepted = Kept
    BY DEF Init, Kept
  <2>2. ASSUME NEW p \in Stamps(accepted) PROVE FALSE
    BY <2>2, StampPairs DEF Init
  <2>3. Stamps(accepted) = {}
    BY <2>2
  <2>4. QED
    BY <2>1, <2>3, FS_EmptySet DEF QuotaInv, Total
<1>2. TypeOK /\ QuotaInv /\ [Next]_vars => QuotaInv'
  <2> SUFFICES ASSUME TypeOK, QuotaInv, [Next]_vars PROVE QuotaInv'
    OBVIOUS
  <2>1. CASE Admit /\ now' = now
    BY <2>1, AdmitQuota
  <2>2. CASE Reject
    <3>1. bucket' = Kept /\ accepted' = accepted /\ now' = now
      BY <2>2 DEF Reject
    <3>2. Kept' = Kept
      BY <3>1 DEF Kept
    <3>3. QED
      BY <3>1, <3>2 DEF QuotaInv
  <2>3. CASE Tick
    <3>1. /\ now \in Nat /\ now' = now + 1 /\ bucket' = bucket
          /\ accepted' = [t \in Times |-> IF now' < t + Second THEN accepted[t] ELSE 0]
      BY <2>3 DEF Tick, TypeOK, Times
    <3>2. accepted \in [Times -> Nat] /\ accepted' \in [Times -> Nat]
      BY <3>1 DEF TypeOK
    <3>3. \A t \in Times : accepted'[t] <= accepted[t]
      BY <3>1, <3>2
    <3>4. IsFiniteSet(Stamps(accepted')) /\ Total(accepted') <= Total(accepted)
      BY <3>2, <3>3, StampsKept DEF QuotaInv
    <3>5. accepted' = Kept'
      <4>1. \A t \in Times : now' < t + Second => now < t + Second
        BY <3>1 DEF Times
      <4>2. \A t \in Times : now' < t + Second => accepted[t] = bucket[t]
        BY <4>1 DEF QuotaInv, Kept
      <4>3. QED
        BY <3>1, <4>2 DEF Kept
    <3>6. Total(accepted) \in Nat /\ Total(accepted') \in Nat
      BY <3>4, FS_CardinalityType DEF Total, QuotaInv
    <3>7. QED
      BY <3>4, <3>5, <3>6 DEF QuotaInv
  <2>4. CASE UNCHANGED <<now, bucket, accepted>>
    BY <2>4 DEF QuotaInv, Kept
  <2>5. QED
    BY <2>1, <2>2, <2>3, <2>4
       DEF Next, Begin, SearchShard, Finish, TimesOut, Answered, Return, Upsert, QuietWrite,
           WriteTo, vars
<1>3. QuotaInv => QuotaPerWindow
  BY DEF QuotaInv, QuotaPerWindow
<1>4. QED
  BY <1>1, <1>2, <1>3, TypeCorrect, PTL DEF Spec
=============================================================================
