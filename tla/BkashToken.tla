------------------------------ MODULE BkashToken ------------------------------
(***************************************************************************)
(* BkashHttpClient.getIdToken: one token, shared through Redis, for every  *)
(* call of the bKash API.  The cached token expires in Redis some time     *)
(* before it does at bKash, so that "a request never straddles the exact   *)
(* expiry instant".  Time passes in Ticks; a job that waits for an answer  *)
(* has a deadline the clock does not pass: axios times out after Timeout,  *)
(* and a Redis call is answered, or fails, within RedisDelay.              *)
(***************************************************************************)
EXTENDS Integers

CONSTANTS
    Workers,
    None,           \* no token
    Life,           \* how long bKash honours a token
    CacheTtl,       \* ID_TOKEN_CACHE_TTL_SECONDS
    Timeout,        \* axios timeout
    RedisDelay,
    Horizon         \* bound on the clock

ASSUME TimesAssumption ==
    /\ {Life, CacheTtl, Timeout, RedisDelay, Horizon} \subseteq Nat
    /\ None \notin Nat

(* The early refresh is early enough: a token is granted and stored, lives *)
(* in the cache, is read, and travels to bKash, all within its life.       *)
ASSUME EarlyEnough == CacheTtl + 2 * Timeout + 2 * RedisDelay < Life

VARIABLES
    now,
    cache,          \* bkash:id_token: when the token was granted and expires here
    job             \* per worker: what it waits for, until when, with which token

vars == <<now, cache, job>>

NoJob == [step |-> "idle", deadline |-> 0, born |-> None]

NoToken == [born |-> None, expires |-> 0]

Init ==
    /\ now = 0
    /\ cache = NoToken
    /\ job = [w \in Workers |-> NoJob]

At(w, s) == job[w].step = s

Become(w, j) == job' = [job EXCEPT ![w] = j]

Wait(w, s, delay, born) ==
    Become(w, [step |-> s, deadline |-> now + delay, born |-> born])

(* The deadline of the call under way stays. *)
GoOn(w, s, born) ==
    Become(w, [job[w] EXCEPT !.step = s, !.born = born])

Cached == cache.born # None /\ now < cache.expires

(* createPayment, executePayment and queryPayment: redis.get first.        *)
Call(w) ==
    /\ At(w, "idle")
    /\ Wait(w, "get", RedisDelay, None)
    /\ UNCHANGED <<now, cache>>

(* Redis answers with the token, with nothing, or not at all (get swallows *)
(* the error): the answer is under way.                                    *)
ReadCache(w) ==
    /\ At(w, "get")
    /\ \/ Cached /\ GoOn(w, "got", cache.born)
       \/ GoOn(w, "got", None)
    /\ UNCHANGED <<now, cache>>

UseCached(w) ==
    /\ At(w, "got")
    /\ IF job[w].born # None THEN Wait(w, "call", Timeout, job[w].born)
                             ELSE Wait(w, "grant", Timeout, None)
    /\ UNCHANGED <<now, cache>>

(* bKash grants a token; its answer is under way. *)
Grant(w) ==
    /\ At(w, "grant")
    /\ GoOn(w, "granted", now)
    /\ UNCHANGED <<now, cache>>

Granted(w) ==
    /\ At(w, "granted")
    /\ Wait(w, "set", RedisDelay, job[w].born)
    /\ UNCHANGED <<now, cache>>

FullLife(w) ==                                           \* mutant of Store
    /\ At(w, "set")
    /\ cache' = [born |-> job[w].born, expires |-> now + Life]
    /\ Wait(w, "call", Timeout, job[w].born)
    /\ UNCHANGED now

Store(w) ==
    /\ At(w, "set")
    /\ cache' = [born |-> job[w].born, expires |-> now + CacheTtl]
    /\ Wait(w, "call", Timeout, job[w].born)
    /\ UNCHANGED now

(* redis.set swallows its errors. *)
StoreLost(w) ==
    /\ At(w, "set")
    /\ Wait(w, "call", Timeout, job[w].born)
    /\ UNCHANGED <<now, cache>>

(* The request has reached bKash, or it or the grant failed or timed out.  *)
Done(w) ==
    /\ job[w].step \in {"grant", "granted", "call"}
    /\ Become(w, NoJob)
    /\ UNCHANGED <<now, cache>>

Tick ==
    /\ now < Horizon
    /\ \A w \in Workers : At(w, "idle") \/ now < job[w].deadline
    /\ now' = now + 1
    /\ UNCHANGED <<cache, job>>

Next ==
    \/ Tick
    \/ \E w \in Workers :
           \/ Call(w) \/ ReadCache(w) \/ UseCached(w) \/ Grant(w) \/ Granted(w)
           \/ Store(w) \/ StoreLost(w) \/ Done(w)

Spec == Init /\ [][Next]_vars

-------------------------------------------------------------------------------
(* The shape of every variable. *)
TypeOK ==
    /\ now \in Nat
    /\ cache \in [born : Nat \union {None}, expires : Nat]
    /\ job \in [Workers -> [step : {"idle", "get", "got", "grant", "granted",
                                    "set", "call"},
                            deadline : Nat, born : Nat \union {None}]]

(* bkash-http.client.ts: "a request never straddles the exact expiry       *)
(* instant".  Whenever bKash may look at the token of a call, the token is *)
(* one that it still honours, however old the cached token was.            *)
NeverExpiredAtBkash ==
    \A w \in Workers : At(w, "call") => job[w].born # None /\ now < job[w].born + Life

(* How far from its grant a token may be when the wait of a stage ends.    *)
Within(w, reach) == job[w].born # None /\ job[w].deadline <= job[w].born + reach

JobOK(w) ==
    /\ ~ At(w, "idle") => now <= job[w].deadline
    /\ At(w, "get") => job[w].deadline <= now + RedisDelay
    /\ At(w, "grant") => job[w].deadline <= now + Timeout
    /\ At(w, "granted") => Within(w, Timeout)
    /\ At(w, "set") => Within(w, Timeout + RedisDelay)
    /\ At(w, "got") /\ job[w].born # None =>
           Within(w, CacheTtl + Timeout + 2 * RedisDelay)
    /\ At(w, "call") => Within(w, CacheTtl + 2 * Timeout + 2 * RedisDelay)

(* The inductive invariant: every wait, and the cached token, ends within  *)
(* reach of the grant.                                                     *)
IInv ==
    /\ TypeOK
    /\ cache.born # None =>
           cache.expires <= cache.born + Timeout + RedisDelay + CacheTtl
    /\ \A w \in Workers : JobOK(w)
===============================================================================
