------------------------------ MODULE QueryPath -----------------------------
(***************************************************************************)
(* The read path of one server, for one namespace and one cached query:    *)
(* QueryEngine.query with its fan-out and timeout, the tiered cache (L1 in *)
(* memory, L2 in Redis), the handlers that write, and the rate limiter.    *)
(*                                                                         *)
(* Handlers run on one event loop.  The only place where a query gives way *)
(* to another handler is its fan-out: the search of a shard is a task of   *)
(* its own, and the answer is put together and cached later.  A shard's    *)
(* contents are the number of writes it has had.                           *)
(***************************************************************************)
EXTENDS Naturals, FiniteSets

CONSTANTS
    Clients,    \* concurrent queries
    Shards,
    None,
    TTL,        \* ttl_s of the cache
    Timeout,    \* timeout_ms of a query, in ticks
    Second,     \* the rate limiter's window, in ticks
    Quota,      \* requests per window and API key
    MaxWrites,  \* bound on the number of writes
    MaxTime     \* bound on the clock

ASSUME TimesAssumption == {TTL, Timeout, Second, Quota} \subseteq Nat \ {0}
ASSUME BoundsAssumption == MaxWrites \in Nat /\ MaxTime \in Nat

VARIABLES
    ver,        \* the contents of each shard
    readable,   \* the shards that route_for_query returns; some, for good
    l1,         \* _l1: the answer and when it was put there, or None
    l2,         \* Redis: the answer and when it expires, or None
    now,
    bucket,     \* _buckets: the kept time stamps, counted by tick
    query,      \* the query each client has sent
    accepted,   \* history: the requests admitted in the last second, counted by tick
    must,       \* history: the contents the last invalidating write left
    tainted     \* history: that write met a query in its fan-out, or Redis failed it

vars == <<ver, readable, l1, l2, now, bucket, query, accepted, must, tainted>>
caches == <<l1, l2>>

Times == 0..MaxTime
Contents == 0..MaxWrites
Seen == UNION {[S -> Contents] : S \in SUBSET Shards}
Answer == [
    seen : Seen,            \* the shards it is from, and what they had
    made : Times,           \* when it was put together
    timedout : BOOLEAN]     \* wait_for gave up: it is empty
Nothing == [s \in {} |-> 0]
Idle == [pc |-> "idle", vectors |-> FALSE, began |-> 0, todo |-> {}, seen |-> Nothing,
         answer |-> None, need |-> [s \in Shards |-> 0]]

Query == [
    pc : {"idle", "searching", "answered"},
    vectors : BOOLEAN,             \* include_vector
    began : Times,
    todo : SUBSET Shards,          \* shards whose search is not back
    seen : Seen,                   \* what the others had
    answer : Answer \cup {None},
    need : [Shards -> Contents]]   \* history: what the answer has to show

ASSUME NoneAssumption == None \notin Answer

TypeOK ==
    /\ ver \in [Shards -> Contents]
    /\ readable \subseteq Shards
    /\ l1 = None \/ l1 \in [at : Times, answer : Answer]
    /\ l2 = None \/ l2 \in [expires : 0..MaxTime + TTL, answer : Answer]
    /\ now \in Times
    /\ bucket \in [Times -> Nat]
    /\ accepted \in [Times -> Nat]
    /\ query \in [Clients -> Query]
    /\ \A c \in Clients : query[c].pc = "answered" <=> query[c].answer # None
    /\ must \in [Shards -> Contents]
    /\ tainted \in BOOLEAN

Init ==
    /\ ver = [s \in Shards |-> 0]
    /\ readable \in SUBSET Shards
    /\ l1 = None
    /\ l2 = None
    /\ now = 0
    /\ bucket = [t \in Times |-> 0]
    /\ query = [c \in Clients |-> Idle]
    /\ accepted = [t \in Times |-> 0]
    /\ must = ver
    /\ tainted = FALSE

-----------------------------------------------------------------------------
(* The rate limiter *)

Kept == [t \in Times |-> IF now < t + Second THEN bucket[t] ELSE 0]

\* The time stamps that f counts, and the length of their list.
Stamps(f) == UNION {{t} \X (1..f[t]) : t \in Times}
Total(f) == Cardinality(Stamps(f))

\* Mutant: the window begins anew with every second.
AdmitFixedWindow ==
    LET kept == [t \in Times |-> IF t \div Second = now \div Second THEN bucket[t] ELSE 0]
    IN  /\ Total(kept) < Quota
        /\ bucket' = [kept EXCEPT ![now] = @ + 1]
        /\ accepted' = [accepted EXCEPT ![now] = @ + 1]

\* rate_limiter lets the request through.
Admit ==
    /\ Total(Kept) < Quota
    /\ bucket' = [Kept EXCEPT ![now] = @ + 1]
    /\ accepted' = [accepted EXCEPT ![now] = @ + 1]

\* It answers 429; the old time stamps are gone all the same.
Reject ==
    /\ Total(Kept) >= Quota
    /\ bucket' = Kept
    /\ UNCHANGED <<ver, readable, l1, l2, now, query, accepted, must, tainted>>

-----------------------------------------------------------------------------
(* The tiered cache *)

\* up: Redis answers the call.  The code goes on without it when it does not.
InL1 == l1 # None /\ now < l1.at + TTL
InL2(up) == up /\ l2 # None /\ now < l2.expires

\* get_query: L1, or L2 which then warms L1 as if the answer were new; an
\* answer too old for L1 is dropped.
Hit(up) == InL1 \/ InL2(up)
Cached == IF InL1 THEN l1.answer ELSE l2.answer
GetQuery(up) ==
    l1' = IF InL1 THEN l1 ELSE IF InL2(up) THEN [at |-> now, answer |-> l2.answer] ELSE None

\* Mutant: Redis keeps the answer for good.
SetQueryForever(answer, up) ==
    /\ l1' = [at |-> now, answer |-> answer]
    /\ l2' = IF up THEN [expires |-> MaxTime + TTL, answer |-> answer] ELSE l2

SetQuery(answer, up) ==
    /\ l1' = [at |-> now, answer |-> answer]
    /\ l2' = IF up THEN [expires |-> now + TTL, answer |-> answer] ELSE l2

\* Mutant: Redis keeps its answers.
InvalidateL1(up) ==
    /\ l1' = None
    /\ UNCHANGED l2

\* invalidate_namespace
InvalidateNamespace(up) ==
    /\ l1' = None
    /\ l2' = IF up THEN None ELSE l2

-----------------------------------------------------------------------------
(* Queries *)

\* The answer without a readable shard.
Empty == [seen |-> Nothing, made |-> now, timedout |-> FALSE]

\* What a query that begins now has to show.
Due == IF tainted THEN Idle.need ELSE must

\* Up to the fan-out.  A query for vectors looks into the cache, and warms it,
\* but takes no answer from it; without a readable shard the answer is empty
\* and is not cached.
Begin(c, vectors, up) ==
    /\ query[c].pc = "idle"
    /\ Admit
    /\ GetQuery(up)
    /\ LET q == [Idle EXCEPT !.vectors = vectors, !.began = now, !.need = Due]
       IN  query' = [query EXCEPT ![c] =
              IF Hit(up) /\ ~vectors THEN [q EXCEPT !.pc = "answered", !.answer = Cached]
              ELSE IF readable = {}
              THEN [q EXCEPT !.pc = "answered", !.answer = Empty]
              ELSE [q EXCEPT !.pc = "searching", !.todo = readable]]
    /\ UNCHANGED <<ver, readable, l2, now, must, tainted>>

Found(seen, s) ==
    [t \in DOMAIN seen \cup {s} |-> IF t = s THEN ver[s] ELSE seen[t]]

\* search_shard, one task for each shard.
SearchShard(c, s) ==
    /\ query[c].pc = "searching"
    /\ s \in query[c].todo
    /\ query' = [query EXCEPT ![c].todo = @ \ {s}, ![c].seen = Found(@, s)]
    /\ UNCHANGED <<ver, readable, l1, l2, now, bucket, accepted, must, tainted>>

\* Mutant: the state of the call is left as it is.
AnsweredTwice(c, seen, timedout, up) ==
    LET answer == [seen |-> seen, made |-> now, timedout |-> timedout]
    IN  /\ query' = [query EXCEPT ![c].answer = answer]
        /\ IF query[c].vectors THEN UNCHANGED caches ELSE SetQuery(answer, up)
        /\ UNCHANGED <<ver, readable, now, bucket, accepted, must, tainted>>

Answered(c, seen, timedout, up) ==
    LET answer == [seen |-> seen, made |-> now, timedout |-> timedout]
    IN  /\ query' = [query EXCEPT ![c].pc = "answered", ![c].todo = {}, ![c].seen = Nothing,
                                  ![c].answer = answer]
        /\ IF query[c].vectors THEN UNCHANGED caches ELSE SetQuery(answer, up)
        /\ UNCHANGED <<ver, readable, now, bucket, accepted, must, tainted>>

\* All searches are back: merge, cache and answer.
Finish(c, up) ==
    /\ query[c].pc = "searching"
    /\ query[c].todo = {}
    /\ Answered(c, query[c].seen, FALSE, up)

\* wait_for gives up: what was found is dropped, and the empty answer is
\* cached like any other.
TimesOut(c, up) ==
    /\ query[c].pc = "searching"
    /\ now >= query[c].began + Timeout
    /\ Answered(c, Nothing, TRUE, up)

Return(c) ==
    /\ query[c].pc = "answered"
    /\ query' = [query EXCEPT ![c] = Idle]
    /\ UNCHANGED <<ver, readable, l1, l2, now, bucket, accepted, must, tainted>>

-----------------------------------------------------------------------------
(* Writes and the environment *)

InFanOut == \E c \in Clients : query[c].pc = "searching" /\ ~query[c].vectors

WriteTo(s) ==
    /\ s \in readable
    /\ ver[s] < MaxWrites
    /\ ver' = [ver EXCEPT ![s] = @ + 1]

\* upsert_vectors: the write and the invalidation, with no wait in between.
Upsert(s, up) ==
    /\ Admit
    /\ WriteTo(s)
    /\ InvalidateNamespace(up)
    /\ must' = ver'
    /\ tainted' = (InFanOut \/ (~up /\ l2 # None))
    /\ UNCHANGED <<readable, now, query>>

\* delete_vectors, patch_metadata and the gRPC service write without the
\* limiter and without an invalidation.
QuietWrite(s) ==
    /\ WriteTo(s)
    /\ UNCHANGED <<readable, l1, l2, now, bucket, query, accepted, must, tainted>>

\* Time passes wherever a query is: wait_for cannot interrupt search_shard, which
\* never awaits, and the answer is merged and ranked after the deadline.
Tick ==
    /\ now < MaxTime
    /\ now' = now + 1
    /\ accepted' = [t \in Times |-> IF now' < t + Second THEN accepted[t] ELSE 0]
    /\ UNCHANGED <<ver, readable, l1, l2, bucket, query, must, tainted>>

Next ==
    \/ \E c \in Clients, vectors, up \in BOOLEAN : Begin(c, vectors, up)
    \/ Reject
    \/ \E c \in Clients, s \in Shards : SearchShard(c, s)
    \/ \E c \in Clients, up \in BOOLEAN : Finish(c, up) \/ TimesOut(c, up)
    \/ \E c \in Clients : Return(c)
    \/ \E s \in Shards, up \in BOOLEAN : Upsert(s, up)
    \/ \E s \in Shards : QuietWrite(s)
    \/ Tick

Spec == Init /\ [][Next]_vars

-----------------------------------------------------------------------------
(* Properties *)

\* However the answer went through the two tiers, it was put together less than
\* twice the TTL before the query that gets it began: warming L1 from L2 counts
\* its age from zero once, and once only.
AnswerAge ==
    \A c \in Clients :
        query[c].pc = "answered" => query[c].began < query[c].answer.made + 2 * TTL

\* A query that begins after an upsert was answered is answered from every
\* readable shard, and shows that upsert, with three exceptions: the upsert met
\* another query between its search and its caching; Redis did not take the
\* invalidation; the answer is the empty one of a query that timed out, which
\* later queries get from the cache as well, for as long as AnswerAge allows.
UpsertSeen ==
    \A c \in Clients :
        query[c].pc = "answered" /\ ~query[c].answer.timedout =>
            \A s \in readable :
                /\ s \in DOMAIN query[c].answer.seen
                /\ query[c].answer.seen[s] >= query[c].need[s]

\* No window of one second holds more admitted requests than the quota.
QuotaPerWindow == Total(accepted) <= Quota
=============================================================================
