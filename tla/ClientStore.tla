----------------------------- MODULE ClientStore ----------------------------
(***************************************************************************)
(* What the ingest service promises its clients about one shard: a durable *)
(* store that holds every write of an answered request, and of a request   *)
(* that was not answered, when the process died, any part of its writes.   *)
(* A write may leave the store unreadable, for good; nothing else does.    *)
(***************************************************************************)
EXTENDS Naturals, Sequences

CONSTANTS
    Ids,      \* record ids
    Records,  \* what an id may hold
    None,     \* nothing
    Unreadable  \* the store when no restart can read it

VARIABLES
    store,    \* what a restart would bring back
    open      \* the writes of the unanswered request, in order

cvars == <<store, open>>

Write == [id : Ids, cell : Records \cup {None}]

\* Every id keeps its value or takes one that is being written.
Mix(f, s) ==
    {g \in [Ids -> Records \cup {None}] :
        \A i \in Ids : g[i] = f[i] \/ \E k \in DOMAIN s : s[k] = [id |-> i, cell |-> g[i]]}

\* Every id has the last value written to it.
Settled(f, s) ==
    [i \in Ids |->
        LET P == {k \in DOMAIN s : s[k].id = i}
        IN IF P = {} THEN f[i] ELSE s[CHOOSE k \in P : \A j \in P : j <= k].cell]

StoreInit ==
    /\ store = [i \in Ids |-> None]
    /\ open = <<>>

\* What is left after writes s that were not answered.
Outcomes(f, s) == IF f = Unreadable THEN {Unreadable} ELSE Mix(f, s)

\* A request writes; what it wrote so far may become durable early.
StoreWrite ==
    \E w \in Write :
        /\ open' = Append(open, w)
        /\ store' \in Outcomes(store, open') \cup {Unreadable}

\* The request is answered.
StoreAnswer ==
    /\ store' = IF store = Unreadable THEN Unreadable ELSE Settled(store, open)
    /\ open' = <<>>

\* The process dies and restarts, perhaps in the middle of a write.
StoreCrash ==
    /\ \/ store' \in Outcomes(store, open)
       \/ \E w \in Write : store' \in Outcomes(store, Append(open, w)) \cup {Unreadable}
    /\ open' = <<>>

StoreNext == StoreWrite \/ StoreAnswer \/ StoreCrash

StoreSpec == StoreInit /\ [][StoreNext]_cvars
=============================================================================
