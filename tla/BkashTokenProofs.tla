---------------------------- MODULE BkashTokenProofs ----------------------------
(***************************************************************************)
(* The cached bKash token is never used after its life, for every number   *)
(* of workers and every choice of times that TimesAssumption and           *)
(* EarlyEnough allow.                                                      *)
(***************************************************************************)
EXTENDS BkashToken, TLAPS

(* getIdToken, from the cache lookup to the call that uses the token: each *)
(* wait ends within reach of the moment the token was granted.             *)
THEOREM TokenInvariance == Spec => []IInv
<1>. USE TimesAssumption, EarlyEnough
<1>1. Init => IInv
  BY DEF Init, IInv, TypeOK, NoJob, NoToken, JobOK, Within, At
<1>2. IInv /\ [Next]_vars => IInv'
  <2>. SUFFICES ASSUME IInv, [Next]_vars PROVE IInv'
    OBVIOUS
  <2>. USE DEF IInv, TypeOK, JobOK, Within, At
  <2>1. CASE Tick
    BY <2>1 DEF Tick
  <2>2. ASSUME NEW w \in Workers, Call(w) PROVE IInv'
    BY <2>2 DEF Call, Wait, Become
  <2>3. ASSUME NEW w \in Workers, ReadCache(w) PROVE IInv'
    <3>1. CASE Cached /\ GoOn(w, "got", cache.born)
      <4>1. job[w].deadline <= cache.born + CacheTtl + Timeout + 2 * RedisDelay
        BY <2>3, <3>1 DEF ReadCache, Cached
      <4>2. cache.born \in Nat
        BY <3>1 DEF Cached
      <4>3. job' = [job EXCEPT ![w] = [@ EXCEPT !.step = "got", !.born = cache.born]]
        BY <2>3, <3>1 DEF GoOn, Become
      <4>4. now <= job[w].deadline /\ UNCHANGED <<now, cache>>
        BY <2>3 DEF ReadCache
      <4>5. JobOK(w)'
        BY <4>1, <4>2, <4>3, <4>4
      <4>6. \A v \in Workers \ {w} : JobOK(v)'
        BY <4>3, <4>4
      <4>7. TypeOK'
        BY <4>2, <4>3, <4>4
      <4>. QED
        BY <4>4, <4>5, <4>6, <4>7
    <3>2. CASE GoOn(w, "got", None)
      <4>1. job' = [job EXCEPT ![w] = [@ EXCEPT !.step = "got", !.born = None]]
        BY <3>2 DEF GoOn, Become
      <4>2. now <= job[w].deadline /\ UNCHANGED <<now, cache>>
        BY <2>3 DEF ReadCache
      <4>3. JobOK(w)'
        BY <4>1, <4>2
      <4>4. \A v \in Workers \ {w} : JobOK(v)'
        BY <4>1, <4>2
      <4>5. TypeOK'
        BY <4>1, <4>2
      <4>. QED
        BY <4>2, <4>3, <4>4, <4>5
    <3>. QED
      BY <2>3, <3>1, <3>2 DEF ReadCache
  <2>4. ASSUME NEW w \in Workers, UseCached(w) PROVE IInv'
    BY <2>4 DEF UseCached, Wait, Become
  <2>5. ASSUME NEW w \in Workers, Grant(w) PROVE IInv'
    <3>1. job' = [job EXCEPT ![w] = [@ EXCEPT !.step = "granted", !.born = now]]
      BY <2>5 DEF Grant, GoOn, Become
    <3>2. /\ now <= job[w].deadline /\ job[w].deadline <= now + Timeout
          /\ UNCHANGED <<now, cache>>
      BY <2>5 DEF Grant
    <3>3. JobOK(w)'
      BY <3>1, <3>2
    <3>4. \A v \in Workers \ {w} : JobOK(v)'
      BY <3>1, <3>2
    <3>5. TypeOK'
      BY <3>1, <3>2
    <3>. QED
      BY <3>2, <3>3, <3>4, <3>5
  <2>6. ASSUME NEW w \in Workers, Granted(w) PROVE IInv'
    BY <2>6 DEF Granted, Wait, Become
  <2>7. ASSUME NEW w \in Workers, Store(w) PROVE IInv'
    BY <2>7 DEF Store, Wait, Become
  <2>8. ASSUME NEW w \in Workers, StoreLost(w) PROVE IInv'
    BY <2>8 DEF StoreLost, Wait, Become
  <2>9. ASSUME NEW w \in Workers, Done(w) PROVE IInv'
    BY <2>9 DEF Done, NoJob, Become
  <2>10. CASE UNCHANGED vars
    BY <2>10 DEF vars
  <2>. QED
    BY <2>1, <2>2, <2>3, <2>4, <2>5, <2>6, <2>7, <2>8, <2>9, <2>10 DEF Next
<1>. QED
  BY <1>1, <1>2, PTL DEF Spec

(* bkash-http.client.ts: "a request never straddles the exact expiry       *)
(* instant": a token that travels to bKash is one bKash still honours.     *)
THEOREM TokenHonoured == Spec => []NeverExpiredAtBkash
<1>1. IInv => NeverExpiredAtBkash
  BY TimesAssumption, EarlyEnough DEF IInv, TypeOK, NeverExpiredAtBkash, JobOK, Within, At
<1>. QED
  BY <1>1, TokenInvariance, PTL
===============================================================================
