------------------------------ MODULE RateLimit ------------------------------
(***************************************************************************)
(* RedisRateLimitGuard: a fixed-window counter per key (client address,    *)
(* method and route).  INCR and EXPIRE are two round trips to Redis, so    *)
(* requests interleave between them and one may be lost.  Requests that    *)
(* get here passed OperatorAuthGuard; public routes never reach Redis.     *)
(***************************************************************************)
EXTENDS Naturals, FiniteSets

CONSTANTS Keys,         \* rate-limit:{ip}:{method}:{path}
          Requests,     \* each is made once
          MaxRequests,  \* RATE_LIMIT_MAX_REQUESTS
          None,         \* null
          MayFail       \* TRUE: an API instance may die, or its Redis connection drop

ASSUME MaxAssumption == MaxRequests \in Nat \ {0}
ASSUME FlagAssumption == MayFail \in BOOLEAN
ASSUME NoneAssumption == None \notin Keys

VARIABLES
    count,    \* count[k]: the counter, 0 if the key does not exist
    ttl,      \* ttl[k]: the key expires
    pc,       \* where the guard of a request is
    key,      \* the key it counts under
    seen,     \* what INCR answered it
    window,   \* window[k]: the requests counted since the key was created
    orphaned  \* keys of which an EXPIRE was lost

guardVars == <<pc, key, seen>>
vars == <<count, ttl, guardVars, window, orphaned>>

Init ==
    /\ count = [k \in Keys |-> 0]
    /\ ttl = [k \in Keys |-> FALSE]
    /\ pc = [r \in Requests |-> "idle"]
    /\ key = [r \in Requests |-> None]
    /\ seen = [r \in Requests |-> 0]
    /\ window = [k \in Keys |-> {}]
    /\ orphaned = {}

Goto(r, where) == pc' = [pc EXCEPT ![r] = where]

\* Mutant of Counted: the counter is read and then written, and a concurrent
\* increment is lost.
CountedUnatomically(r, k) ==
    /\ seen' = [seen EXCEPT ![r] = count[k] + 1]
    /\ count' \in {count, [count EXCEPT ![k] = @ + 1]}

\* The answer to INCR is the value after the increment.
Counted(r, k) ==
    /\ seen' = [seen EXCEPT ![r] = count[k] + 1]
    /\ count' = [count EXCEPT ![k] = @ + 1]

\* Mutant of Created: INCR is taken to answer the value before it.
CreatedOffByOne(answer) == answer = 0

\* INCR created the key.
Created(answer) == answer = 1

\* Mutant of Incr: the key is not kept from one round trip to the next.
IncrWithoutKey(r, k) ==
    /\ pc[r] = "idle"
    /\ Counted(r, k)
    /\ window' = [window EXCEPT ![k] = @ \cup {r}]
    /\ Goto(r, IF Created(seen'[r]) THEN "expire" ELSE "decide")
    /\ UNCHANGED <<ttl, key, orphaned>>

\* Only the request that created the key sets its TTL.
Incr(r, k) ==
    /\ pc[r] = "idle"
    /\ Counted(r, k)
    /\ key' = [key EXCEPT ![r] = k]
    /\ window' = [window EXCEPT ![k] = @ \cup {r}]
    /\ Goto(r, IF Created(seen'[r]) THEN "expire" ELSE "decide")
    /\ UNCHANGED <<ttl, orphaned>>

\* Mutant of Expire: the command is not awaited and its failure not noticed.
ExpireUnawaited(r) ==
    /\ pc[r] = "expire"
    /\ ttl' \in {ttl, [ttl EXCEPT ![key[r]] = TRUE]}
    /\ Goto(r, "decide")
    /\ UNCHANGED <<count, key, seen, window, orphaned>>

Expire(r) ==
    /\ pc[r] = "expire"
    /\ ttl' = [ttl EXCEPT ![key[r]] = TRUE]
    /\ Goto(r, "decide")
    /\ UNCHANGED <<count, key, seen, window, orphaned>>

\* Mutant of Exceeded: the limit itself is refused only one request later.
ExceededByOne(n) == n > MaxRequests + 1

Exceeded(n) == n > MaxRequests

\* true, or 429.
Decide(r) ==
    /\ pc[r] = "decide"
    /\ Goto(r, IF Exceeded(seen[r]) THEN "rejected" ELSE "admitted")
    /\ UNCHANGED <<count, ttl, key, seen, window, orphaned>>

\* Redis drops the key; the next request opens a new window.
WindowEnds(k) ==
    /\ ttl[k]
    /\ count' = [count EXCEPT ![k] = 0]
    /\ ttl' = [ttl EXCEPT ![k] = FALSE]
    /\ window' = [window EXCEPT ![k] = {}]
    /\ UNCHANGED <<guardVars, orphaned>>

\* The instance dies between INCR and EXPIRE, or EXPIRE is refused (the request
\* ends in an error); the command may have reached Redis all the same.
ExpireLost(r) ==
    /\ MayFail
    /\ pc[r] = "expire"
    /\ \/ ttl' = [ttl EXCEPT ![key[r]] = TRUE] /\ UNCHANGED orphaned
       \/ orphaned' = orphaned \cup {key[r]} /\ UNCHANGED ttl
    /\ Goto(r, "failed")
    /\ UNCHANGED <<count, key, seen, window>>

\* The connection drops after INCR took effect and ioredis sends it again: the
\* request is counted twice, and if it created the key it never learns so.
IncrResent(r, k) ==
    /\ MayFail
    /\ pc[r] = "idle"
    /\ count' = [count EXCEPT ![k] = @ + 2]
    /\ seen' = [seen EXCEPT ![r] = count[k] + 2]
    /\ key' = [key EXCEPT ![r] = k]
    /\ window' = [window EXCEPT ![k] = @ \cup {r}]
    /\ orphaned' = IF Created(count[k] + 1) THEN orphaned \cup {k} ELSE orphaned
    /\ Goto(r, "decide")
    /\ UNCHANGED ttl

Finished ==
    /\ \A r \in Requests : pc[r] \in {"admitted", "rejected", "failed"}
    /\ UNCHANGED vars

Next ==
    \/ \E r \in Requests : \/ \E k \in Keys : Incr(r, k) \/ IncrResent(r, k)
                           \/ Expire(r) \/ Decide(r) \/ ExpireLost(r)
    \/ \E k \in Keys : WindowEnds(k)
    \/ Finished

Spec == Init /\ [][Next]_vars

\* A guard that is running goes on, and Redis expires keys that have a TTL.
FairSpec ==
    /\ Spec
    /\ \A r \in Requests : WF_vars(Expire(r) \/ Decide(r))
    /\ \A k \in Keys : WF_vars(WindowEnds(k))

-----------------------------------------------------------------------------
(* Properties *)

TypeOK ==
    /\ count \in [Keys -> Nat]
    /\ ttl \in [Keys -> BOOLEAN]
    /\ pc \in [Requests -> {"idle", "expire", "decide", "admitted", "rejected", "failed"}]
    /\ key \in [Requests -> Keys \cup {None}]
    /\ \A r \in Requests : pc[r] # "idle" => key[r] # None
    /\ seen \in [Requests -> Nat]
    /\ window \in [Keys -> SUBSET Requests]
    /\ orphaned \subseteq Keys

\* Of the requests counted in one window, at most MaxRequests are ever admitted,
\* however their round trips interleave and whatever is sent twice
\* (redis-rate-limit.guard.ts:49, 55).
WindowLimit ==
    \A k \in Keys : Cardinality({r \in window[k] : pc[r] = "admitted"}) <= MaxRequests

\* A counter without a TTL is about to get one, or its EXPIRE was lost: nobody
\* but the request that created the key has to care
\* (redis-rate-limit.guard.ts:51-53).
ExpiryComing ==
    \A k \in Keys : count[k] > 0 /\ ~ttl[k] =>
        k \in orphaned \/ \E r \in Requests : key[r] = k /\ pc[r] = "expire"

\* A window whose EXPIRE was not lost ends, so clients that were refused get in
\* again (redis-rate-limit.guard.ts:49-57).
WindowsEnd ==
    \A k \in Keys : count[k] > 0 ~> (count[k] = 0 \/ k \in orphaned)

\* Every window ends (docs/security.md:38 "Fixed-window counter").
EveryWindowEnds == \A k \in Keys : count[k] > 0 ~> count[k] = 0
=============================================================================
