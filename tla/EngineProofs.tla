----------------------------- MODULE EngineProofs -----------------------------
(***************************************************************************)
(* Proofs about Engine and TokenCache, for any number of workers and calls,*)
(* and for any times that satisfy TokenAssumption.                         *)
(***************************************************************************)
EXTENDS Engine, TLAPS

LEMMA TokenInitInv == TokenInit => TokenInv
<1>1. ASSUME TokenInit PROVE TokenTypeOK
  BY <1>1, TokenAssumption DEF TokenAssumption, TokenInit, TokenTypeOK, Nothing, Holding, NoToken
<1>2. ASSUME TokenInit PROVE CacheOK /\ \A c \in Callers : CallOK(c)
  BY <1>2 DEF TokenInit, CacheOK, CallOK, InCall
<1>3. QED
  BY <1>1, <1>2 DEF TokenInv

(* A step of one call keeps the invariant if it keeps the types and leaves *)
(* that call, and the cache, in a state that TokenInv allows.              *)
LEMMA CallMoves ==
    ASSUME TokenInv, NEW c \in Callers, TokenTypeOK',
           UNCHANGED <<now, expires>>,
           \A d \in Callers \ {c} : tpc'[d] = tpc[d] /\ mine'[d] = mine[d] /\ start'[d] = start[d],
           CacheOK', CallOK(c)'
    PROVE  TokenInv'
<1>1. ASSUME NEW d \in Callers \ {c} PROVE CallOK(d)'
  BY <1>1 DEF TokenInv, CallOK, Trusted, Lasts
<1>2. QED
  BY <1>1 DEF TokenInv

LEMMA PushInv == ASSUME TokenInv, NEW c \in Callers, Push(c) PROVE TokenInv'
<1>1. TokenTypeOK'
  BY DEF TokenInv, TokenTypeOK, Push, Step, InCall
<1>2. /\ tpc'[c] = "token" /\ start'[c] = now
      /\ \A d \in Callers \ {c} : tpc'[d] = tpc[d] /\ mine'[d] = mine[d] /\ start'[d] = start[d]
  BY DEF TokenInv, TokenTypeOK, Push, Step
<1>3. CallOK(c)'
  BY <1>2, TokenAssumption DEF TokenAssumption, TokenInv, TokenTypeOK, CallOK, Push
<1>4. CacheOK'
  BY DEF TokenInv, CacheOK, Trusted, Push
<1>5. QED
  BY <1>1, <1>2, <1>3, <1>4, CallMoves DEF Push

LEMMA CacheHitInv == ASSUME TokenInv, NEW c \in Callers, CacheHit(c) PROVE TokenInv'
<1>1. TokenTypeOK'
  BY DEF TokenInv, TokenTypeOK, CacheHit, Holding, Step, InCall
<1>2. /\ tpc'[c] = "push" /\ start'[c] = start[c] /\ mine'[c].token = token
      /\ \A d \in Callers \ {c} : tpc'[d] = tpc[d] /\ mine'[d] = mine[d] /\ start'[d] = start[d]
  BY DEF TokenInv, TokenTypeOK, CacheHit, Holding, Step
<1>3. start[c] <= now /\ now <= start[c] + OpTimeout
  BY DEF TokenInv, CallOK, CacheHit, InCall
<1>4. /\ token # NoToken /\ expires[token] \in Nat /\ expireAt \in Nat
      /\ now \in Nat /\ start[c] \in Nat
      /\ now < expireAt - Margin /\ expireAt + OpTimeout + Skew <= expires[token] + Margin
  BY DEF TokenInv, TokenTypeOK, CacheOK, Trusted, CacheHit, Fresh, NoToken
<1>5. start[c] + OpTimeout + Skew < expires[token]
  BY <1>3, <1>4, TokenAssumption DEF TokenAssumption
<1>6. CallOK(c)'
  BY <1>2, <1>3, <1>4, <1>5 DEF CallOK, Lasts, CacheHit
<1>7. CacheOK'
  BY DEF TokenInv, CacheOK, Trusted, CacheHit
<1>8. QED
  BY <1>1, <1>2, <1>6, <1>7, CallMoves DEF CacheHit

LEMMA CacheMissInv == ASSUME TokenInv, NEW c \in Callers, CacheMiss(c) PROVE TokenInv'
<1>1. TokenTypeOK'
  BY DEF TokenInv, TokenTypeOK, CacheMiss, Step, InCall
<1>2. /\ tpc'[c] = "refresh" /\ start'[c] = start[c] /\ tpc[c] = "token"
      /\ \A d \in Callers \ {c} : tpc'[d] = tpc[d] /\ mine'[d] = mine[d] /\ start'[d] = start[d]
  BY DEF TokenInv, TokenTypeOK, CacheMiss, Step
<1>3. CallOK(c)'
  BY <1>2 DEF TokenInv, CallOK, InCall, CacheMiss
<1>4. CacheOK'
  BY DEF TokenInv, CacheOK, Trusted, CacheMiss
<1>5. QED
  BY <1>1, <1>2, <1>3, <1>4, CallMoves DEF CacheMiss

LEMMA ReadAnswerInv == ASSUME TokenInv, NEW c \in Callers, ReadAnswer(c) PROVE TokenInv'
<1>1. PICK exp \in Expiry(c) : mine' = [mine EXCEPT ![c] = Holding(mine[c].token, exp)]
  BY DEF ReadAnswer
<1> DEFINE t == mine[c].token
<1>2. /\ t \in 1..Len(expires) /\ expires[t] \in Nat /\ now \in Nat /\ start[c] \in Nat
      /\ start[c] + Skew + Life <= expires[t] /\ start[c] + OpTimeout + Skew < expires[t]
      /\ start[c] <= now /\ now <= start[c] + OpTimeout
  BY DEF TokenInv, TokenTypeOK, CallOK, Lasts, InCall, ReadAnswer, NoToken
<1>3. exp = now + DefaultLife \/ exp = expires[t]
  BY DEF Expiry
<1> DEFINE e == expires[t]
           st == start[c]
<1>n. now \in Nat /\ e \in Nat /\ st \in Nat /\ st + Skew + Life <= e
      /\ st + OpTimeout + Skew < e /\ st <= now /\ now <= st + OpTimeout
  BY <1>2
<1>4. /\ exp \in Nat
      /\ exp + OpTimeout + Skew <= e + Margin
      /\ st + OpTimeout + Margin < exp
  <2> HIDE DEF e, st
  <2>1. CASE exp = now + DefaultLife
    BY <1>n, <2>1, TokenAssumption DEF TokenAssumption
  <2>2. CASE exp = e
    BY <1>n, <2>2, TokenAssumption DEF TokenAssumption
  <2>3. QED
    BY <1>3, <2>1, <2>2 DEF e
<1> HIDE DEF t
<1>5. mine' = [mine EXCEPT ![c] = [token |-> t, exp |-> exp]]
  BY <1>1 DEF t, Holding
<1>6. TokenTypeOK'
  <2>1. [token |-> t, exp |-> exp] \in [token : 0..Len(expires), exp : Nat]
    BY <1>2, <1>4
  <2>2. mine' \in [Callers -> [token : 0..Len(expires), exp : Nat]]
    BY <1>5, <2>1 DEF TokenInv, TokenTypeOK
  <2>3. QED
    BY <2>2 DEF TokenInv, TokenTypeOK, ReadAnswer, Step, InCall
<1>7. /\ tpc'[c] = "store" /\ start'[c] = start[c] /\ mine'[c] = [token |-> t, exp |-> exp]
      /\ \A d \in Callers \ {c} : tpc'[d] = tpc[d] /\ mine'[d] = mine[d] /\ start'[d] = start[d]
  BY <1>5 DEF TokenInv, TokenTypeOK, ReadAnswer, Step
<1>8. CallOK(c)'
  BY <1>2, <1>4, <1>7 DEF CallOK, Lasts, Trusted, ReadAnswer, NoToken
<1>9. CacheOK'
  BY DEF TokenInv, CacheOK, Trusted, ReadAnswer
<1>10. QED
  BY <1>6, <1>7, <1>8, <1>9, CallMoves DEF ReadAnswer

LEMMA StoreTokenInv == ASSUME TokenInv, NEW c \in Callers, StoreToken(c) PROVE TokenInv'
<1>1. TokenTypeOK'
  BY DEF TokenInv, TokenTypeOK, StoreToken, Holding, Step, InCall
<1>2. /\ tpc[c] = "store" /\ tpc'[c] = "push" /\ start'[c] = start[c]
      /\ mine'[c].token = mine[c].token
      /\ \A d \in Callers \ {c} : tpc'[d] = tpc[d] /\ mine'[d] = mine[d] /\ start'[d] = start[d]
  BY DEF TokenInv, TokenTypeOK, StoreToken, Holding, Step
<1>3. CallOK(c)'
  BY <1>2 DEF TokenInv, CallOK, Lasts, InCall, StoreToken
<1>4. CacheOK'
  BY <1>2 DEF TokenInv, CallOK, CacheOK, Trusted, StoreToken
<1>5. QED
  BY <1>1, <1>2, <1>3, <1>4, CallMoves DEF StoreToken

LEMMA IssueInv == ASSUME TokenInv, NEW c \in Callers, Issue(c) PROVE TokenInv'
<1> DEFINE n == Len(expires)
           e == now + Skew + Life
<1>1. /\ e \in Nat /\ n \in Nat
      /\ expires' \in Seq(Nat) /\ Len(expires') = n + 1
      /\ \A i \in 1..n : expires'[i] = expires[i]
      /\ expires'[n + 1] = e
  BY TokenAssumption DEF TokenAssumption, TokenInv, TokenTypeOK, Issue
<1>2. /\ mine' = [mine EXCEPT ![c] = [token |-> n + 1, exp |-> 0]]
      /\ UNCHANGED <<now, token, expireAt, start>>
      /\ n < MaxTokens /\ n + 1 <= MaxTokens
  BY <1>1, TokenAssumption DEF TokenAssumption, Issue, Holding
<1>3. /\ tpc' \in [Callers -> InCall \union {"idle", "gone"}]
      /\ tpc'[c] = "answered" /\ tpc[c] = "refresh"
      /\ \A d \in Callers \ {c} : tpc'[d] = tpc[d]
  BY DEF Issue, Step, InCall, TokenInv, TokenTypeOK
<1> HIDE DEF n, e
<1>4. /\ mine'[c] = [token |-> n + 1, exp |-> 0]
      /\ \A d \in Callers \ {c} : mine'[d] = mine[d]
  BY <1>2 DEF TokenInv, TokenTypeOK
<1>5. \A r \in [token : 0..n, exp : Nat] : r \in [token : 0..(n + 1), exp : Nat]
  BY <1>1
<1>6. mine' \in [Callers -> [token : 0..(n + 1), exp : Nat]]
  <2>1. mine \in [Callers -> [token : 0..n, exp : Nat]]
    BY DEF TokenInv, TokenTypeOK, n
  <2>2. [token |-> n + 1, exp |-> 0] \in [token : 0..(n + 1), exp : Nat]
    BY <1>1
  <2>3. QED
    BY <1>2, <1>5, <2>1, <2>2
<1>7. TokenTypeOK'
  <2>1. token \in 0..(n + 1)
    BY <1>1 DEF TokenInv, TokenTypeOK, n
  <2>2. QED
    BY <1>1, <1>2, <1>3, <1>6, <2>1 DEF TokenInv, TokenTypeOK
<1>8. /\ start[c] <= now /\ now <= start[c] + OpTimeout
      /\ start[c] + Skew + Life <= e /\ start[c] + OpTimeout + Skew < e
  BY <1>3, TokenAssumption DEF TokenAssumption, TokenInv, TokenTypeOK, CallOK, InCall, e
<1>9. CallOK(c)'
  BY <1>1, <1>2, <1>3, <1>4, <1>8 DEF CallOK, Lasts, NoToken
<1>10. ASSUME NEW d \in Callers \ {c} PROVE CallOK(d)'
  <2>1. tpc[d] \in {"answered", "store", "push"} => mine[d].token \in 1..n
    BY DEF TokenInv, TokenTypeOK, CallOK, NoToken, n
  <2>2. QED
    BY <1>1, <1>2, <1>3, <1>4, <2>1 DEF TokenInv, CallOK, Lasts, Trusted
<1>11. CacheOK'
  <2>1. token # NoToken => token \in 1..n
    BY DEF TokenInv, TokenTypeOK, NoToken, n
  <2>2. QED
    BY <1>1, <1>2, <2>1 DEF TokenInv, CacheOK, Trusted
<1>12. QED
  BY <1>7, <1>9, <1>10, <1>11 DEF TokenInv

LEMMA EndCallInv == ASSUME TokenInv, NEW c \in Callers, EndCall(c) PROVE TokenInv'
<1>1. TokenTypeOK'
  BY DEF TokenInv, TokenTypeOK, EndCall, Nothing, Holding, NoToken, Step, InCall
<1>2. /\ tpc'[c] = "idle"
      /\ \A d \in Callers \ {c} : tpc'[d] = tpc[d] /\ mine'[d] = mine[d] /\ start'[d] = start[d]
  BY DEF TokenInv, TokenTypeOK, EndCall, Step
<1>3. CallOK(c)'
  BY <1>2 DEF CallOK, InCall
<1>4. CacheOK'
  BY DEF TokenInv, CacheOK, Trusted, EndCall
<1>5. QED
  BY <1>1, <1>2, <1>3, <1>4, CallMoves DEF EndCall

LEMMA LeaveInv == ASSUME TokenInv, NEW c \in Callers, Leave(c) PROVE TokenInv'
<1>1. TokenTypeOK'
  BY DEF TokenInv, TokenTypeOK, Leave, Step, InCall
<1>2. /\ tpc'[c] = "gone"
      /\ \A d \in Callers \ {c} : tpc'[d] = tpc[d] /\ mine'[d] = mine[d] /\ start'[d] = start[d]
  BY DEF TokenInv, TokenTypeOK, Leave, Step
<1>3. CallOK(c)'
  BY <1>2 DEF CallOK, InCall
<1>4. CacheOK'
  BY DEF TokenInv, CacheOK, Trusted, Leave
<1>5. QED
  BY <1>1, <1>2, <1>3, <1>4, CallMoves DEF Leave

LEMMA TickInv == ASSUME TokenInv, Tick PROVE TokenInv'
<1>1. TokenTypeOK'
  BY DEF TokenInv, TokenTypeOK, Tick
<1>2. ASSUME NEW c \in Callers PROVE CallOK(c)'
  <2>1. start[c] \in Nat /\ now \in Nat /\ now' = now + 1
    BY DEF TokenInv, TokenTypeOK, Tick
  <2>2. tpc[c] \in InCall => start[c] <= now /\ now < start[c] + OpTimeout
    BY DEF TokenInv, CallOK, Tick
  <2>3. tpc[c] \in InCall => start[c] <= now' /\ now' <= start[c] + OpTimeout
    BY <2>1, <2>2, TokenAssumption DEF TokenAssumption
  <2>4. QED
    BY <2>3 DEF TokenInv, CallOK, Lasts, Trusted, Tick
<1>3. CacheOK'
  BY DEF TokenInv, CacheOK, Trusted, Tick
<1>4. QED
  BY <1>1, <1>2, <1>3 DEF TokenInv

LEMMA TokenNextInv ==
    ASSUME TokenInv, [TokenNext]_tokenVars
    PROVE  TokenInv'
<1>1. CASE UNCHANGED tokenVars
  BY <1>1 DEF tokenVars, TokenInv, TokenTypeOK, CacheOK, CallOK, Trusted, Lasts
<1>2. QED
  BY <1>1, PushInv, CacheHitInv, CacheMissInv, ReadAnswerInv, StoreTokenInv, IssueInv,
     EndCallInv, LeaveInv, TickInv
  DEF TokenNext, GetToken, PushFails, PushSucceeds

(* TokenInv says more of a push than TokenInTime: the token outlasts the   *)
(* deadline of the call.                                                   *)
LEMMA TokenInvInTime == TokenInv => TokenInTime
<1> SUFFICES ASSUME TokenInv, NEW c \in Callers, tpc[c] = "push"
             PROVE  now + Skew < expires[mine[c].token]
  BY DEF TokenInTime
<1>1. /\ now <= start[c] + OpTimeout /\ start[c] + OpTimeout + Skew < expires[mine[c].token]
      /\ now \in Nat /\ start[c] \in Nat /\ expires[mine[c].token] \in Nat
  BY DEF TokenInv, TokenTypeOK, CallOK, Lasts, InCall, NoToken
<1>2. QED
  BY <1>1, TokenAssumption DEF TokenAssumption

(* The engine uses the provider as its callers may.                        *)
LEMMA EngineStep == [Next]_vars => [TokenNext]_tokenVars
BY DEF Next, vars, TokenNext, GetToken, DeliverOrOffline, GetRoute, SendToComet, SendFails,
       EnqueueOffline, EnqueueFails, Notify, TakeTask, WorkerStops, WorkerStep, Auth,
       NotifyFails, PushNotify, Close, TimePasses, tokenVars

(***************************************************************************)
(* The engine, its vendor workers being the callers, takes no step that    *)
(* the Getui provider (getui.go) does not allow by itself: what holds of   *)
(* the provider for any callers holds in the engine.                       *)
(***************************************************************************)
THEOREM EngineUsesTokenCache == Spec => TokenSpec
<1>1. Init => TokenInit
  BY DEF Init
<1>2. QED
  BY <1>1, EngineStep, PTL DEF Spec, TokenSpec

LEMMA TokenAlways == TokenSpec => []TokenInv
<1>1. TokenInv /\ [TokenNext]_tokenVars => TokenInv'
  BY TokenNextInv
<1>2. QED
  BY TokenInitInv, <1>1, PTL DEF TokenSpec

(***************************************************************************)
(* getToken: no push is sent with a token that the service has ended, for  *)
(* any number of workers that refresh at once.                             *)
(***************************************************************************)
THEOREM PushesInTime == Spec => []TokenInTime
BY EngineUsesTokenCache, TokenAlways, TokenInvInTime, PTL

(***************************************************************************)
(* getToken: whichever refresh is stored last, the next call finds a token.*)
(***************************************************************************)
THEOREM EveryRefreshCures == Spec => RefreshCures
<1>1. ASSUME TokenInv, [TokenNext]_tokenVars, NEW c \in Callers,
             tpc[c] = "store", tpc'[c] = "push"
      PROVE  Fresh'
  <2>1. StoreToken(c)
    BY <1>1
    DEF TokenNext, GetToken, tokenVars, TokenInv, TokenTypeOK, Push, CacheHit, CacheMiss, Issue,
        ReadAnswer, PushFails, PushSucceeds, EndCall, Leave, Tick, Step, InCall, StoreToken
  <2>2. /\ token' = mine[c].token /\ expireAt' = mine[c].exp /\ now' = now
        /\ mine[c].token # NoToken
        /\ now <= start[c] + OpTimeout /\ start[c] + OpTimeout + Margin < mine[c].exp
        /\ now \in Nat /\ start[c] \in Nat /\ mine[c].exp \in Nat
    BY <1>1, <2>1 DEF TokenInv, TokenTypeOK, CallOK, InCall, StoreToken
  <2>3. QED
    BY <2>2, TokenAssumption DEF TokenAssumption, Fresh
<1>2. TokenInv /\ [TokenNext]_tokenVars =>
          [\A c \in Callers : tpc[c] = "store" /\ tpc'[c] = "push" => Fresh']_tokenVars
  BY <1>1
<1>3. QED
  BY EngineUsesTokenCache, TokenAlways, <1>2, PTL DEF RefreshCures, TokenSpec
-----------------------------------------------------------------------------
(* Calls and their notifications.                                          *)

Queued(d) == \E i \in 1..Len(vq) : vq[i] = d
InWork(d) == \E w \in Callers : task[w] = d

(* NotifiedOnce without the set of places.                                 *)
Nowhere(d) == ~Queued(d) /\ ~InWork(d) /\ d \notin told /\ d \notin dropped

OnePlace(d) ==
    /\ Queued(d) \/ InWork(d) \/ d \in told \/ d \in dropped
    /\ \A i, j \in 1..Len(vq) : vq[i] = d /\ vq[j] = d => i = j
    /\ \A v, w \in Callers : task[v] = d /\ task[w] = d => v = w
    /\ Queued(d) => ~InWork(d) /\ d \notin told /\ d \notin dropped
    /\ InWork(d) => d \notin told /\ d \notin dropped
    /\ d \in told => d \notin dropped

Placed(d) == IF dpc[d] \in {"offline", "error"} THEN OnePlace(d) ELSE Nowhere(d)

(* A call that is about to report no error of the store has stored.        *)
StoredOK == \A d \in Calls : dpc[d] \in {"notify", "offline"} => d \in stored

EngineInv == TypeOK /\ StoredOK /\ \A d \in Notifies : Placed(d)

LEMMA PlacesAre ==
    ASSUME NEW d, NEW p
    PROVE  p \in Places(d) <=> \/ \E i \in 1..Len(vq) : vq[i] = d /\ p = <<"queue", i>>
                               \/ \E w \in Callers : task[w] = d /\ p = <<"worker", w>>
                               \/ d \in told /\ p = <<"told", d>>
                               \/ d \in dropped /\ p = <<"dropped", d>>
BY DEF Places

LEMMA Alone == ASSUME NEW S, NEW p \in S, \A q \in S : q = p PROVE \E q \in S : S = {q}
OBVIOUS

LEMMA PlacedIsOnce ==
    ASSUME \A d \in Notifies : Placed(d)
    PROVE  NotifiedOnce
<1> SUFFICES ASSUME NEW d \in Notifies
             PROVE  IF dpc[d] \in {"offline", "error"} THEN \E p \in Places(d) : Places(d) = {p}
                    ELSE Places(d) = {}
  BY DEF NotifiedOnce
<1>1. ASSUME Nowhere(d) PROVE Places(d) = {}
  BY <1>1, PlacesAre DEF Nowhere, Queued, InWork
<1>2. ASSUME OnePlace(d) PROVE \E p \in Places(d) : Places(d) = {p}
  <2>1. CASE Queued(d)
    <3>1. PICK i \in 1..Len(vq) : vq[i] = d
      BY <2>1 DEF Queued
    <3>2. \A p \in Places(d) : p = <<"queue", i>>
      BY <1>2, <2>1, <3>1, PlacesAre DEF OnePlace, InWork
    <3>3. <<"queue", i>> \in Places(d)
      BY <3>1, PlacesAre
    <3>4. QED
      BY <3>2, <3>3, Alone
  <2>2. CASE InWork(d)
    <3>1. PICK w \in Callers : task[w] = d
      BY <2>2 DEF InWork
    <3>2. \A p \in Places(d) : p = <<"worker", w>>
      BY <1>2, <2>2, <3>1, PlacesAre DEF OnePlace, Queued
    <3>3. <<"worker", w>> \in Places(d)
      BY <3>1, PlacesAre
    <3>4. QED
      BY <3>2, <3>3, Alone
  <2>3. CASE d \in told
    <3>1. \A p \in Places(d) : p = <<"told", d>>
      BY <1>2, <2>3, PlacesAre DEF OnePlace, Queued, InWork
    <3>2. <<"told", d>> \in Places(d)
      BY <2>3, PlacesAre
    <3>3. QED
      BY <3>1, <3>2, Alone
  <2>4. CASE d \in dropped
    <3>1. \A p \in Places(d) : p = <<"dropped", d>>
      BY <1>2, <2>4, PlacesAre DEF OnePlace, Queued, InWork
    <3>2. <<"dropped", d>> \in Places(d)
      BY <2>4, PlacesAre
    <3>3. QED
      BY <3>1, <3>2, Alone
  <2>5. QED
    BY <1>2, <2>1, <2>2, <2>3, <2>4 DEF OnePlace
<1>3. QED
  BY <1>1, <1>2 DEF Placed

LEMMA EngineInit == Init => EngineInv
<1> SUFFICES ASSUME Init PROVE EngineInv
  OBVIOUS
<1>1. TokenTypeOK
  BY TokenInitInv DEF Init, TokenInv
<1>2. \A w \in Callers : task[w] = NoCall /\ tpc[w] = "idle"
  BY DEF Init, TokenInit
<1>3. TypeOK
  <2>1. vq \in Seq(Notifies) /\ Len(vq) <= QueueSize
    BY EngineAssumption DEF EngineAssumption, Init
  <2>2. \A w \in Callers : task[w] # NoCall <=> tpc[w] \in InCall
    BY <1>2 DEF InCall
  <2>3. QED
    BY <1>1, <2>1, <2>2 DEF Init, TypeOK, Results
<1>4. \A d \in Notifies : d \in Calls /\ d # NoCall /\ ~Queued(d) /\ ~InWork(d)
  BY <1>2, EngineAssumption DEF EngineAssumption, Init, Queued, InWork
<1>5. \A d \in Notifies : Placed(d)
  BY <1>4 DEF Init, Placed, Nowhere
<1>6. StoredOK
  BY DEF Init, StoredOK
<1>7. QED
  BY <1>3, <1>5, <1>6 DEF EngineInv

(* A step that moves no notification, and no call to its end.              *)
LEMMA PlacesKept ==
    ASSUME EngineInv, TypeOK', StoredOK', UNCHANGED <<vq, task, told, dropped>>,
           \A d \in Notifies : dpc'[d] = dpc[d] \/ {dpc[d], dpc'[d]} \cap {"offline", "error"} = {}
    PROVE  EngineInv'
<1>1. \A d : (Queued(d)' <=> Queued(d)) /\ (InWork(d)' <=> InWork(d))
  BY DEF Queued, InWork
<1>2. \A d : (OnePlace(d)' <=> OnePlace(d)) /\ (Nowhere(d)' <=> Nowhere(d))
  BY <1>1 DEF OnePlace, Nowhere
<1>3. QED
  BY <1>2 DEF EngineInv, Placed

(* DeliverOrOffline up to its notification.                                *)
LEMMA CallKeeps ==
    ASSUME EngineInv, NEW d \in Calls,
           GetRoute(d) \/ SendToComet(d) \/ SendFails(d) \/ EnqueueOffline(d) \/ EnqueueFails(d)
    PROVE  EngineInv'
<1>1. TypeOK' /\ StoredOK'
  <2>1. TokenTypeOK'
    BY DEF EngineInv, TypeOK, TokenTypeOK, GetRoute, SendToComet, SendFails, EnqueueOffline,
           EnqueueFails, tokenVars
  <2>2. UNCHANGED tpc
    BY DEF GetRoute, SendToComet, SendFails, EnqueueOffline, EnqueueFails, tokenVars
  <2>3. QED
    BY <2>1, <2>2 DEF EngineInv, TypeOK, StoredOK, Results, DGoTo, GetRoute, SendToComet,
                      SendFails, EnqueueOffline, EnqueueFails, workVars
<1>2. UNCHANGED <<vq, task, told, dropped>>
  BY DEF GetRoute, SendToComet, SendFails, EnqueueOffline, EnqueueFails, workVars
<1>3. \A e \in Calls : dpc'[e] = dpc[e] \/ {dpc[e], dpc'[e]} \cap {"offline", "error"} = {}
  BY DEF EngineInv, TypeOK, DGoTo, GetRoute, SendToComet, SendFails, EnqueueOffline, EnqueueFails
<1>4. QED
  BY <1>1, <1>2, <1>3, PlacesKept, EngineAssumption DEF EngineAssumption

(* Steps of a worker that keep its task, or its want of one.               *)
LEMMA WorkerKeeps ==
    ASSUME EngineInv, TokenTypeOK', UNCHANGED <<callVars, vq, workVars, dropped>>,
           stopped' \in BOOLEAN,
           \A w \in Callers : tpc[w] \in InCall <=> tpc'[w] \in InCall
    PROVE  EngineInv'
<1>1. TypeOK' /\ StoredOK'
  BY DEF EngineInv, TypeOK, StoredOK, callVars, workVars
<1>2. QED
  BY <1>1, PlacesKept DEF callVars, workVars
(* The call's notification is appended to the queue, or dropped, or there  *)
(* is none.                                                                *)
LEMMA NotifyKeeps ==
    ASSUME EngineInv, NEW d \in Calls, Notify(d)
    PROVE  EngineInv'
<1> DEFINE result == Result(d)
<1>1. /\ dpc[d] \in {"notify", "failed"} /\ dpc' = [dpc EXCEPT ![d] = result]
      /\ result \in {"offline", "error"} /\ (result = "offline" => d \in stored)
      /\ UNCHANGED <<tokenVars, stored, stopped, workVars>> /\ routeErr' = routeErr \ {d}
  BY DEF EngineInv, StoredOK, Notify, DGoTo, Result
<1>2. /\ TypeOK /\ \A e \in Notifies : e \in Calls /\ Placed(e)
  BY EngineAssumption DEF EngineAssumption, EngineInv
<1> HIDE DEF result
<1>3. /\ dpc'[d] \in {"offline", "error"} /\ \A e \in Calls : e # d => dpc'[e] = dpc[e]
  BY <1>1, <1>2 DEF TypeOK
<1>4. StoredOK'
  BY <1>1, <1>3 DEF EngineInv, StoredOK, TypeOK
<1>5. UNCHANGED <<tpc, task, told>> /\ TokenTypeOK'
  BY <1>1, <1>2 DEF tokenVars, workVars, TypeOK, TokenTypeOK
<1>6. /\ dpc' \in [Calls -> {"route", "send", "store", "notify", "failed"} \union Results]
      /\ routeErr' \subseteq Calls
  BY <1>1, <1>2 DEF TypeOK, Results
<1>7. d \in Notifies => Nowhere(d)
  BY <1>1, <1>2 DEF Placed
<1>8. CASE d \in Notifies /\ Len(vq) < QueueSize
  <2>1. vq' = Append(vq, d) /\ dropped' = dropped
    BY <1>8 DEF Notify
  <2>2. /\ vq \in Seq(Notifies) /\ vq' \in Seq(Notifies) /\ Len(vq') = Len(vq) + 1
        /\ Len(vq) \in Nat /\ \A i \in 1..Len(vq) : vq'[i] = vq[i] /\ vq[i] # d
        /\ vq'[Len(vq) + 1] = d
    BY <1>2, <1>7, <1>8, <2>1 DEF TypeOK, Nowhere, Queued
  <2>3. TypeOK'
    BY <1>1, <1>2, <1>5, <1>6, <1>8, <2>1, <2>2, EngineAssumption DEF TypeOK, EngineAssumption
  <2>4. \A i \in 1..Len(vq') : i \in 1..Len(vq) \/ i = Len(vq) + 1
    BY <2>2
  <2>5. OnePlace(d)'
    <3>1. \A i \in 1..Len(vq') : vq'[i] = d <=> i = Len(vq) + 1
      BY <2>2, <2>4
    <3>2. Queued(d)'
      BY <2>2 DEF Queued
    <3>3. ~InWork(d)' /\ d \notin told' /\ d \notin dropped'
      BY <1>5, <1>7, <1>8, <2>1 DEF Nowhere, InWork
    <3>4. QED
      BY <3>1, <3>2, <3>3 DEF OnePlace, InWork
  <2>6. ASSUME NEW e \in Notifies, e # d PROVE Placed(e)'
    <3>1. \A i \in 1..Len(vq') : vq'[i] = e <=> i \in 1..Len(vq) /\ vq[i] = e
      BY <2>2, <2>4, <2>6
    <3>2. \A i \in 1..Len(vq) : i \in 1..Len(vq')
      BY <2>2
    <3>3. (Queued(e)' <=> Queued(e)) /\ (InWork(e)' <=> InWork(e))
      BY <1>5, <3>1, <3>2 DEF Queued, InWork
    <3>4. (OnePlace(e) => OnePlace(e)') /\ (Nowhere(e) => Nowhere(e)')
      BY <1>5, <2>1, <3>1, <3>3 DEF OnePlace, Nowhere
    <3>5. QED
      BY <1>2, <1>3, <2>6, <3>4 DEF Placed
  <2>7. QED
    BY <1>3, <1>4, <2>3, <2>5, <2>6 DEF EngineInv, Placed
<1>9. CASE ~(d \in Notifies /\ Len(vq) < QueueSize)
  <2>1. vq' = vq /\ dropped' = dropped \union ({d} \intersect Notifies)
    BY <1>9 DEF Notify
  <2>2. TypeOK'
    BY <1>1, <1>2, <1>5, <1>6, <2>1 DEF TypeOK
  <2>3. \A e : (Queued(e)' <=> Queued(e)) /\ (InWork(e)' <=> InWork(e))
    BY <1>5, <2>1 DEF Queued, InWork
  <2>4. d \in Notifies => OnePlace(d)'
    BY <1>5, <1>7, <2>1, <2>3 DEF OnePlace, Nowhere, Queued, InWork
  <2>5. ASSUME NEW e \in Notifies, e # d PROVE Placed(e)'
    <3>1. (OnePlace(e) => OnePlace(e)') /\ (Nowhere(e) => Nowhere(e)')
      BY <1>5, <2>1, <2>3, <2>5 DEF OnePlace, Nowhere
    <3>2. QED
      BY <1>2, <1>3, <2>5, <3>1 DEF Placed
  <2>6. QED
    BY <1>3, <1>4, <2>2, <2>4, <2>5 DEF EngineInv, Placed
<1>10. QED
  BY <1>8, <1>9

(* A notification goes from the queue to a worker that has none.           *)
LEMMA TakeTaskKeeps ==
    ASSUME EngineInv, TokenTypeOK', NEW w \in Callers, TakeTask(w)
    PROVE  EngineInv'
<1>0. PICK h \in Notifies : h = Head(vq)
  BY DEF EngineInv, TypeOK, TakeTask
<1>1. /\ vq # <<>> /\ task' = [task EXCEPT ![w] = h] /\ vq' = Tail(vq)
      /\ tpc[w] = "idle" /\ tpc' = [tpc EXCEPT ![w] = "token"]
      /\ UNCHANGED <<callVars, stopped, told, dropped>>
  BY <1>0 DEF TakeTask, Push, Step
<1>2. /\ TypeOK /\ \A e \in Notifies : e \in Calls /\ e # NoCall /\ Placed(e)
  BY EngineAssumption DEF EngineAssumption, EngineInv
<1>3. /\ vq \in Seq(Notifies) /\ h \in Notifies /\ h = vq[1] /\ Len(vq) \in Nat /\ Len(vq) >= 1
      /\ vq' \in Seq(Notifies) /\ Len(vq') = Len(vq) - 1
      /\ \A i \in 1..Len(vq') : vq'[i] = vq[i + 1] /\ i + 1 \in 1..Len(vq) /\ i + 1 # 1
      /\ \A i \in 1..Len(vq) : i # 1 => i - 1 \in 1..Len(vq') /\ vq'[i - 1] = vq[i]
  BY <1>0, <1>1, <1>2 DEF TypeOK
<1>4. task[w] = NoCall
  BY <1>1, <1>2 DEF TypeOK, InCall
<1>5. \A v \in Callers : task'[v] = IF v = w THEN h ELSE task[v]
  BY <1>1, <1>2 DEF TypeOK
<1>6. TypeOK'
  <2>1. task' \in [Callers -> Notifies \union {NoCall}]
    BY <1>1, <1>2, <1>3 DEF TypeOK
  <2>2. \A v \in Callers : task'[v] # NoCall <=> tpc'[v] \in InCall
    <3>1. \A v \in Callers : tpc'[v] = IF v = w THEN "token" ELSE tpc[v]
      BY <1>1, <1>2 DEF TypeOK, TokenTypeOK
    <3>2. QED
      BY <1>2, <1>3, <1>5, <3>1 DEF TypeOK, InCall
  <2>3. Len(vq') <= QueueSize
    BY <1>2, <1>3, EngineAssumption DEF TypeOK, EngineAssumption
  <2>4. QED
    BY <1>1, <1>2, <1>3, <2>1, <2>2, <2>3 DEF TypeOK, callVars
<1>7. StoredOK'
  BY <1>1 DEF EngineInv, StoredOK, callVars
<1>8. OnePlace(h)
  <2>1. Queued(h)
    BY <1>3 DEF Queued
  <2>2. QED
    BY <1>2, <1>3, <2>1 DEF Placed, Nowhere
<1>9. OnePlace(h)'
  <2>1. ~Queued(h)'
    <3>1. \A i \in 1..Len(vq') : vq[i + 1] # h
      BY <1>3, <1>8 DEF OnePlace
    <3>2. QED
      BY <1>3, <3>1 DEF Queued
  <2>2. InWork(h)'
    BY <1>5 DEF InWork
  <2>3. \A v \in Callers : task'[v] = h => v = w
    BY <1>3, <1>5, <1>8 DEF OnePlace, Queued, InWork
  <2>4. h \notin told /\ h \notin dropped
    BY <1>3, <1>8 DEF OnePlace, Queued
  <2>5. QED
    BY <1>1, <2>1, <2>2, <2>3, <2>4 DEF OnePlace, Queued
<1>10. ASSUME NEW e \in Notifies, e # h PROVE Placed(e)'
  <2>1. \A i \in 1..Len(vq) : vq[i] = e => i # 1
    BY <1>3, <1>10
  <2>2. Queued(e)' <=> Queued(e)
    BY <1>3, <2>1 DEF Queued
  <2>3. /\ InWork(e)' <=> InWork(e)
        /\ \A v \in Callers : task'[v] = e <=> task[v] = e
    BY <1>2, <1>4, <1>5, <1>10 DEF InWork
  <2>4. ASSUME OnePlace(e), NEW i \in 1..Len(vq'), NEW j \in 1..Len(vq'), vq'[i] = e, vq'[j] = e
        PROVE  i = j
    <3>1. i + 1 = j + 1
      BY <1>3, <2>4 DEF OnePlace
    <3>2. QED
      BY <3>1
  <2>5. (OnePlace(e) => OnePlace(e)') /\ (Nowhere(e) => Nowhere(e)')
    BY <1>1, <2>2, <2>3, <2>4 DEF OnePlace, Nowhere
  <2>6. QED
    BY <1>1, <1>2, <2>5 DEF Placed, callVars
<1>11. dpc[h] \in {"offline", "error"}
  <2>1. Queued(h)
    BY <1>3 DEF Queued
  <2>2. QED
    BY <1>2, <1>3, <2>1 DEF Placed, Nowhere
<1>12. QED
  BY <1>1, <1>6, <1>7, <1>9, <1>10, <1>11 DEF EngineInv, Placed, callVars

(* A worker's notification has been tried.                                 *)
LEMMA TaskDoneKeeps ==
    ASSUME EngineInv, TokenTypeOK', NEW w \in Callers, tpc[w] \in InCall, EndCall(w), TaskDone(w)
    PROVE  EngineInv'
<1>0. PICK t \in Notifies : t = task[w]
  BY DEF EngineInv, TypeOK
<1>1. /\ t = task[w] /\ told' = told \union {t} /\ task' = [task EXCEPT ![w] = NoCall]
      /\ tpc' = [tpc EXCEPT ![w] = "idle"] /\ UNCHANGED <<callVars, vq, stopped, dropped>>
  BY <1>0 DEF EndCall, Step, TaskDone
<1>2. /\ TypeOK /\ \A e \in Notifies : e \in Calls /\ e # NoCall /\ Placed(e)
  BY EngineAssumption DEF EngineAssumption, EngineInv
<1>4. \A v \in Callers : task'[v] = IF v = w THEN NoCall ELSE task[v]
  BY <1>1, <1>2 DEF TypeOK
<1>5. TypeOK'
  <2>1. \A v \in Callers : tpc'[v] = IF v = w THEN "idle" ELSE tpc[v]
    BY <1>1, <1>2 DEF TypeOK, TokenTypeOK
  <2>2. \A v \in Callers : task'[v] # NoCall <=> tpc'[v] \in InCall
    BY <1>2, <1>4, <2>1 DEF TypeOK, InCall
  <2>3. QED
    BY <1>1, <1>2, <2>2 DEF TypeOK, callVars
<1>6. StoredOK'
  BY <1>1 DEF EngineInv, StoredOK, callVars
<1>7. OnePlace(t) /\ InWork(t) /\ dpc[t] \in {"offline", "error"}
  BY <1>1, <1>2 DEF Placed, Nowhere, InWork
<1>8. \A e : Queued(e)' <=> Queued(e)
  BY <1>1 DEF Queued
<1>9. OnePlace(t)'
  <2>1. ~InWork(t)'
    BY <1>1, <1>2, <1>4, <1>7 DEF OnePlace, InWork
  <2>2. ~Queued(t)' /\ t \in told' /\ t \notin dropped'
    BY <1>1, <1>7, <1>8 DEF OnePlace
  <2>3. QED
    BY <2>1, <2>2 DEF OnePlace, Queued, InWork
<1>10. ASSUME NEW e \in Notifies, e # t PROVE Placed(e)'
  <2>1. \A v \in Callers : task'[v] = e <=> task[v] = e
    BY <1>1, <1>2, <1>4, <1>10
  <2>2. InWork(e)' <=> InWork(e)
    BY <2>1 DEF InWork
  <2>3. (OnePlace(e) => OnePlace(e)') /\ (Nowhere(e) => Nowhere(e)')
    BY <1>1, <1>8, <1>10, <2>1, <2>2 DEF OnePlace, Nowhere
  <2>4. QED
    BY <1>1, <1>2, <2>3 DEF Placed, callVars
<1>11. QED
  BY <1>1, <1>5, <1>6, <1>7, <1>9, <1>10 DEF EngineInv, Placed, callVars

LEMMA EngineNext ==
    ASSUME EngineInv, TokenTypeOK', [Next]_vars
    PROVE  EngineInv'
<1> USE DEF EngineInv, TypeOK, TokenTypeOK, InCall, Step
<1>1. ASSUME NEW d \in Calls, DeliverOrOffline(d) PROVE EngineInv'
  BY <1>1, CallKeeps, NotifyKeeps DEF DeliverOrOffline
<1>2. ASSUME NEW w \in Callers, TakeTask(w) PROVE EngineInv'
  BY <1>2, TakeTaskKeeps
<1>3. ASSUME NEW w \in Callers, WorkerStops(w) PROVE EngineInv'
  BY <1>3, WorkerKeeps DEF WorkerStops, Leave
<1>4. ASSUME NEW w \in Callers, WorkerStep(w) PROVE EngineInv'
  BY <1>4, WorkerKeeps DEF WorkerStep, GetToken, CacheHit, CacheMiss, ReadAnswer, StoreToken
<1>5. ASSUME NEW w \in Callers, Auth(w) PROVE EngineInv'
  BY <1>5, WorkerKeeps DEF Auth, Issue
<1>6. ASSUME NEW w \in Callers, NotifyFails(w) \/ PushNotify(w) PROVE EngineInv'
  BY <1>6, TaskDoneKeeps DEF NotifyFails, PushNotify, PushFails, PushSucceeds
<1>7. CASE Close
  BY <1>7, WorkerKeeps DEF Close, tokenVars
<1>8. CASE TimePasses
  BY <1>8, WorkerKeeps DEF TimePasses, Tick
<1>9. CASE UNCHANGED vars
  BY <1>9, WorkerKeeps DEF vars, tokenVars
<1>10. QED
  BY <1>1, <1>2, <1>3, <1>4, <1>5, <1>6, <1>7, <1>8, <1>9 DEF Next

LEMMA EngineAlways == Spec => []EngineInv
<1>1. Spec => []TokenTypeOK
  <2>1. TokenInv => TokenTypeOK
    BY DEF TokenInv
  <2>2. QED
    BY <2>1, EngineUsesTokenCache, TokenAlways, PTL
<1>2. EngineInv /\ TokenTypeOK' /\ [Next]_vars => EngineInv'
  BY EngineNext
<1>3. QED
  BY <1>1, <1>2, EngineInit, PTL DEF Spec

(* The engine's state has its type: above all, the queue of notifications  *)
(* holds no more than its size, and a worker has a task while it is in a   *)
(* call of the vendor.                                                     *)
THEOREM EngineTypeCorrect == Spec => []TypeOK
<1>1. EngineInv => TypeOK
  BY DEF EngineInv
<1>2. QED
  BY <1>1, EngineAlways, PTL

(* DeliverOrOffline: what is reported as offline, with no error, is stored.*)
THEOREM ResultsAreHonest == Spec => []HonestResult
<1>1. EngineInv => HonestResult
  BY DEF EngineInv, StoredOK, HonestResult
<1>2. QED
  BY <1>1, EngineAlways, PTL

(* A notification is never duplicated, and never lost but at a full queue, *)
(* for any number of calls and workers.                                    *)
THEOREM EachNotificationOnce == Spec => []NotifiedOnce
<1>1. EngineInv => NotifiedOnce
  BY PlacedIsOnce DEF EngineInv
<1>2. QED
  BY <1>1, EngineAlways, PTL
=============================================================================
