---------------------------- MODULE BreakerProofs ----------------------------
(***************************************************************************)
(* Proofs about Breaker, for any options, keys, callers and failures.      *)
(***************************************************************************)
EXTENDS Breaker, TLAPS

LEMMA InitTypeOK == Init => TypeOK
BY DEF Init, TypeOK

LEMMA NextTypeOK ==
    ASSUME TypeOK, [Next]_vars
    PROVE  TypeOK'
<1> USE BreakerAssumption DEF BreakerAssumption, TypeOK
<1>1. CASE Tick
  BY <1>1 DEF Tick
<1>2. ASSUME NEW c \in Callers, NEW k \in Keys, Allow(c, k) PROVE TypeOK'
  BY <1>2 DEF Allow
<1>3. ASSUME NEW c \in Callers, NEW k \in Keys, Success(c, k) PROVE TypeOK'
  <2>1. /\ failCount' \in [Keys -> Nat] /\ firstFail' \in [Keys -> Nat]
        /\ openUntil' \in [Keys -> Nat] /\ now' \in Nat
    BY <1>3 DEF Success
  <2>2. <<>> \in Seq(Nat)
    OBVIOUS
  <2>3. fails' \in [Keys -> Seq(Nat)]
    BY <1>3, <2>2 DEF Success
  <2>4. sending' \in [Callers -> Keys \union {NoKey}]
    BY <1>3 DEF Success, NextChunk
  <2>5. QED
    BY <2>1, <2>3, <2>4
<1>4. ASSUME NEW c \in Callers, NEW k \in Keys, Failure(c, k) PROVE TypeOK'
  <2>1. /\ failCount' \in [Keys -> Nat] /\ firstFail' \in [Keys -> Nat]
        /\ openUntil' \in [Keys -> Nat]
    <3>1. 1 \in Nat /\ 0 \in Nat /\ failCount[k] + 1 \in Nat /\ now + OpenFor \in Nat
      OBVIOUS
    <3>2. CASE StartWindow(k)
      BY <3>1, <3>2 DEF StartWindow
    <3>3. CASE CountFailure(k)
      BY <3>1, <3>3 DEF CountFailure
    <3>4. QED
      BY <1>4, <3>2, <3>3 DEF Failure
  <2>2. fails' \in [Keys -> Seq(Nat)]
    <3>1. Append(fails[k], now) \in Seq(Nat)
      OBVIOUS
    <3>2. QED
      BY <1>4, <3>1 DEF Failure
  <2>3. sending' \in [Callers -> Keys \union {NoKey}] /\ now' \in Nat
    BY <1>4 DEF Failure, NextChunk
  <2>4. QED
    BY <2>1, <2>2, <2>3
<1>5. CASE UNCHANGED vars
  BY <1>5 DEF vars
<1>6. QED
  BY <1>1, <1>2, <1>3, <1>4, <1>5 DEF Next

(* Counts, for one key: its failures ft, the entry and the clock.          *)
CountsOf(ft, n, first, until, t) ==
    /\ \A i, j \in 1..Len(ft) : i <= j => ft[i] <= ft[j]
    /\ \A i \in 1..Len(ft) : ft[i] <= t
    /\ n <= Len(ft)
    /\ n > 0 => ft[Len(ft) - (n - 1)] = first
    /\ until # 0 =>
          /\ n >= Threshold
          /\ ft[Len(ft)] - first <= Window
          /\ until = ft[Len(ft)] + OpenFor
    /\ n = 0 => ft = <<>>
    /\ ft # <<>> /\ ft[Len(ft)] - ft[1] <= Window => n = Len(ft)
    /\ n >= Threshold /\ n > 1 => until = ft[Len(ft)] + OpenFor

LEMMA CountsByKey ==
    ASSUME TypeOK, Counts, NEW k \in Keys
    PROVE  CountsOf(fails[k], failCount[k], firstFail[k], openUntil[k], now)
<1>1. fails[k] \in Seq(Nat)
  BY DEF TypeOK
<1>2. DOMAIN fails[k] = 1..Len(fails[k])
  BY <1>1
<1>3. QED
  BY <1>2 DEF Counts, CountsOf, FailBefore, LastFail

LEMMA KeysMakeCounts ==
    ASSUME TypeOK',
           \A k \in Keys :
               CountsOf(fails'[k], failCount'[k], firstFail'[k], openUntil'[k], now')
    PROVE  Counts'
<1> SUFFICES ASSUME NEW k \in Keys
             PROVE  /\ \A i, j \in DOMAIN fails'[k] : i <= j => fails'[k][i] <= fails'[k][j]
                    /\ \A i \in DOMAIN fails'[k] : fails'[k][i] <= now'
                    /\ failCount'[k] <= Len(fails'[k])
                    /\ failCount'[k] > 0 =>
                          fails'[k][Len(fails'[k]) - (failCount'[k] - 1)] = firstFail'[k]
                    /\ openUntil'[k] # 0 =>
                          /\ failCount'[k] >= Threshold
                          /\ fails'[k][Len(fails'[k])] - firstFail'[k] <= Window
                          /\ openUntil'[k] = fails'[k][Len(fails'[k])] + OpenFor
                    /\ failCount'[k] = 0 => fails'[k] = <<>>
                    /\ fails'[k] # <<>> /\ fails'[k][Len(fails'[k])] - fails'[k][1] <= Window
                          => failCount'[k] = Len(fails'[k])
                    /\ failCount'[k] >= Threshold /\ failCount'[k] > 1
                          => openUntil'[k] = fails'[k][Len(fails'[k])] + OpenFor
  BY DEF Counts, FailBefore, LastFail
<1>1. fails'[k] \in Seq(Nat)
  BY DEF TypeOK
<1>2. DOMAIN fails'[k] = 1..Len(fails'[k])
  BY <1>1
<1>3. QED
  BY <1>2 DEF CountsOf

LEMMA CountsEmpty ==
    ASSUME NEW t
    PROVE  CountsOf(<<>>, 0, 0, 0, t)
<1>1. Len(<<>>) = 0 /\ 1..0 = {}
  OBVIOUS
<1>2. QED
  BY <1>1 DEF CountsOf

LEMMA CountsInit == Init => Counts
<1> SUFFICES ASSUME Init, NEW k \in Keys
             PROVE  /\ \A i, j \in DOMAIN fails[k] : i <= j => fails[k][i] <= fails[k][j]
                    /\ \A i \in DOMAIN fails[k] : fails[k][i] <= now
                    /\ failCount[k] <= Len(fails[k])
                    /\ ~(failCount[k] > 0) /\ openUntil[k] = 0 /\ fails[k] = <<>>
                    /\ ~(failCount[k] > 1)
  BY Zenon DEF Counts
<1>1. fails[k] = <<>> /\ failCount[k] = 0 /\ openUntil[k] = 0
  BY DEF Init
<1>2. DOMAIN fails[k] = {} /\ Len(fails[k]) = 0
  BY <1>1
<1>3. QED
  BY <1>1, <1>2

LEMMA CountsTick ==
    ASSUME NEW ft \in Seq(Nat), NEW n \in Nat, NEW first \in Nat, NEW until \in Nat, NEW t \in Nat,
           CountsOf(ft, n, first, until, t)
    PROVE  CountsOf(ft, n, first, until, t + 1)
<1>1. \A i \in 1..Len(ft) : ft[i] \in Nat
  OBVIOUS
<1>2. \A i \in 1..Len(ft) : ft[i] <= t + 1
  BY <1>1 DEF CountsOf
<1>3. QED
  BY <1>2 DEF CountsOf

(* What Append does to the failures of a key.                              *)
LEMMA OneMoreFailure ==
    ASSUME NEW ft \in Seq(Nat), NEW t \in Nat, NEW g, g = Append(ft, t),
           \A i, j \in 1..Len(ft) : i <= j => ft[i] <= ft[j],
           \A i \in 1..Len(ft) : ft[i] <= t
    PROVE  /\ Len(ft) \in Nat /\ Len(g) = Len(ft) + 1 /\ g[Len(g)] = t
           /\ \A i \in 1..Len(ft) : g[i] = ft[i]
           /\ \A i, j \in 1..Len(g) : i <= j => g[i] <= g[j]
           /\ \A i \in 1..Len(g) : g[i] <= t
<1>1. /\ Len(ft) \in Nat /\ Len(g) = Len(ft) + 1 /\ g[Len(ft) + 1] = t
      /\ \A i \in 1..Len(ft) : g[i] = ft[i] /\ ft[i] \in Nat
  OBVIOUS
<1>2. \A i \in 1..Len(g) : g[i] <= t
  <2> TAKE i \in 1..Len(g)
  <2>1. i \in 1..Len(ft) \/ i = Len(ft) + 1
    BY <1>1
  <2>2. QED
    BY <1>1, <2>1
<1>3. \A i, j \in 1..Len(g) : i <= j => g[i] <= g[j]
  <2> TAKE i, j \in 1..Len(g)
  <2> HAVE i <= j
  <2>1. (i \in 1..Len(ft) /\ j \in 1..Len(ft)) \/ j = Len(ft) + 1
    BY <1>1
  <2>2. QED
    BY <1>1, <1>2, <2>1
<1>4. QED
  BY <1>1, <1>2, <1>3

LEMMA CountsStart ==
    ASSUME NEW ft \in Seq(Nat), NEW n \in Nat, NEW first \in Nat, NEW until \in Nat, NEW t \in Nat,
           CountsOf(ft, n, first, until, t), n = 0 \/ t - first > Window
    PROVE  CountsOf(Append(ft, t), 1, t, 0, t)
<1> DEFINE g == Append(ft, t)
<1>1. /\ Len(ft) \in Nat /\ Len(g) = Len(ft) + 1 /\ g[Len(g)] = t
      /\ \A i \in 1..Len(ft) : g[i] = ft[i]
      /\ \A i, j \in 1..Len(g) : i <= j => g[i] <= g[j]
      /\ \A i \in 1..Len(g) : g[i] <= t
  BY OneMoreFailure DEF CountsOf
<1> HIDE DEF g
(* A window that is over began at the first failure or after it.           *)
<1>2. g[Len(g)] - g[1] <= Window => Len(g) = 1
  <2>1. CASE n = 0
    <3>1. ft = <<>>
      BY <2>1 DEF CountsOf
    <3>2. Len(ft) = 0
      BY <3>1
    <3>3. QED
      BY <1>1, <3>2
  <2>2. CASE n # 0 /\ t - first > Window
    <3>1. n <= Len(ft) /\ ft[Len(ft) - (n - 1)] = first
      BY <2>2 DEF CountsOf
    <3>2. Len(ft) - (n - 1) \in 1..Len(ft) /\ 1 \in 1..Len(ft) /\ 1 <= Len(ft) - (n - 1)
      BY <1>1, <2>2, <3>1
    <3>3. ft[1] <= first /\ g[1] = ft[1] /\ ft[1] \in Nat
      <4>1. ft[1] <= ft[Len(ft) - (n - 1)]
        BY <3>2 DEF CountsOf
      <4>2. ft[1] \in Nat
        BY <3>2
      <4>3. QED
        BY <1>1, <3>1, <3>2, <4>1, <4>2
    <3>4. t - g[1] > Window
      BY <2>2, <3>3, BreakerAssumption DEF BreakerAssumption
    <3>5. QED
      BY <1>1, <3>3, <3>4, BreakerAssumption DEF BreakerAssumption
  <2>3. QED
    BY <2>1, <2>2
<1>3. CountsOf(g, 1, t, 0, t)
  BY <1>1, <1>2 DEF CountsOf
<1>4. QED
  BY <1>3 DEF g

LEMMA CountsCount ==
    ASSUME NEW ft \in Seq(Nat), NEW n \in Nat, NEW first \in Nat, NEW until \in Nat, NEW t \in Nat,
           CountsOf(ft, n, first, until, t), n # 0, t - first <= Window
    PROVE  CountsOf(Append(ft, t), n + 1, first,
                    IF n + 1 >= Threshold THEN t + OpenFor ELSE until, t)
<1> DEFINE g == Append(ft, t)
<1>1. /\ Len(ft) \in Nat /\ Len(g) = Len(ft) + 1 /\ g[Len(g)] = t
      /\ \A i \in 1..Len(ft) : g[i] = ft[i]
      /\ \A i, j \in 1..Len(g) : i <= j => g[i] <= g[j]
      /\ \A i \in 1..Len(g) : g[i] <= t
  BY OneMoreFailure DEF CountsOf
<1> HIDE DEF g
<1>2. n <= Len(ft) /\ ft[Len(ft) - (n - 1)] = first
  BY DEF CountsOf
<1>3. Len(ft) - (n - 1) \in 1..Len(ft) /\ Len(g) - ((n + 1) - 1) = Len(ft) - (n - 1)
  BY <1>1, <1>2
<1>4. n + 1 <= Len(g) /\ g[Len(g) - ((n + 1) - 1)] = first
  <2>1. n + 1 <= Len(g)
    BY <1>1, <1>2
  <2>2. g[Len(ft) - (n - 1)] = ft[Len(ft) - (n - 1)]
    BY <1>1, <1>3
  <2>3. QED
    BY <1>2, <1>3, <2>1, <2>2
<1>5. n + 1 < Threshold => until = 0
  BY BreakerAssumption DEF BreakerAssumption, CountsOf
(* Failures of one window now were of one window before the last of them.  *)
<1>6. g[Len(g)] - g[1] <= Window => n + 1 = Len(g)
  <2>1. 1 \in 1..Len(ft) /\ Len(ft) \in 1..Len(ft) /\ ft # <<>>
    BY <1>1, <1>2
  <2>2. g[1] = ft[1] /\ ft[Len(ft)] <= t /\ ft[1] \in Nat /\ ft[Len(ft)] \in Nat
    BY <1>1, <2>1 DEF CountsOf
  <2>3. t - ft[1] <= Window => ft[Len(ft)] - ft[1] <= Window
    BY <2>2, BreakerAssumption DEF BreakerAssumption
  <2>4. t - ft[1] <= Window => n = Len(ft)
    BY <2>1, <2>3 DEF CountsOf
  <2>5. QED
    BY <1>1, <2>2, <2>4
<1>7. CountsOf(g, n + 1, first, IF n + 1 >= Threshold THEN t + OpenFor ELSE until, t)
  <2> DEFINE v == IF n + 1 >= Threshold THEN t + OpenFor ELSE until
  <2>1. /\ v # 0 => n + 1 >= Threshold
        /\ n + 1 >= Threshold => v = t + OpenFor
    BY <1>5, BreakerAssumption DEF BreakerAssumption
  <2> HIDE DEF v
  <2>2. CountsOf(g, n + 1, first, v, t)
    BY <1>1, <1>4, <1>6, <2>1, BreakerAssumption DEF BreakerAssumption, CountsOf
  <2>3. QED
    BY <2>2 DEF v
<1>8. QED
  BY <1>7 DEF g

LEMMA CountsStep ==
    ASSUME TypeOK, Counts, [Next]_vars
    PROVE  Counts'
<1>a. TypeOK'
  BY NextTypeOK
<1>b. /\ \A k \in Keys : /\ fails[k] \in Seq(Nat) /\ failCount[k] \in Nat
                         /\ firstFail[k] \in Nat /\ openUntil[k] \in Nat
      /\ now \in Nat
  BY DEF TypeOK
<1>c. \A k \in Keys : CountsOf(fails[k], failCount[k], firstFail[k], openUntil[k], now)
  BY CountsByKey
<1>1. CASE Tick
  <2>1. \A k \in Keys : CountsOf(fails[k], failCount[k], firstFail[k], openUntil[k], now + 1)
    BY <1>b, <1>c, CountsTick
  <2>2. \A k \in Keys : CountsOf(fails'[k], failCount'[k], firstFail'[k], openUntil'[k], now')
    BY <1>1, <2>1 DEF Tick
  <2>3. QED
    BY <1>a, <2>2, KeysMakeCounts
<1>2. ASSUME NEW c \in Callers, NEW k \in Keys, Success(c, k) PROVE Counts'
  <2>1. \A e \in Keys : e # k => /\ fails'[e] = fails[e] /\ failCount'[e] = failCount[e]
                                /\ firstFail'[e] = firstFail[e] /\ openUntil'[e] = openUntil[e]
    BY <1>2 DEF Success, TypeOK
  <2>2. fails'[k] = <<>> /\ failCount'[k] = 0 /\ firstFail'[k] = 0 /\ openUntil'[k] = 0
        /\ now' = now
    BY <1>2 DEF Success, TypeOK
  <2>3. \A e \in Keys : CountsOf(fails'[e], failCount'[e], firstFail'[e], openUntil'[e], now')
    BY <1>c, <2>1, <2>2, CountsEmpty
  <2>4. QED
    BY <1>a, <2>3, KeysMakeCounts
<1>3. ASSUME NEW c \in Callers, NEW k \in Keys, Failure(c, k) PROVE Counts'
  <2>1. \A e \in Keys : e # k => /\ fails'[e] = fails[e] /\ failCount'[e] = failCount[e]
                                /\ firstFail'[e] = firstFail[e] /\ openUntil'[e] = openUntil[e]
    BY <1>3 DEF Failure, StartWindow, CountFailure, TypeOK
  <2>2. fails'[k] = Append(fails[k], now) /\ now' = now
    BY <1>3 DEF Failure, TypeOK
  <2>3. CountsOf(fails'[k], failCount'[k], firstFail'[k], openUntil'[k], now')
    <3>1. CASE StartWindow(k)
      <4>1. failCount'[k] = 1 /\ firstFail'[k] = now /\ openUntil'[k] = 0
        BY <3>1 DEF StartWindow, TypeOK
      <4>2. failCount[k] = 0 \/ now - firstFail[k] > Window
        BY <3>1 DEF StartWindow, NewWindow
      <4>3. CountsOf(Append(fails[k], now), 1, now, 0, now)
        BY <1>b, <1>c, <4>2, CountsStart
      <4>4. QED
        BY <2>2, <4>1, <4>3
    <3>2. CASE CountFailure(k)
      <4>1. /\ failCount'[k] = failCount[k] + 1 /\ firstFail'[k] = firstFail[k]
            /\ openUntil'[k] = IF failCount[k] + 1 >= Threshold THEN now + OpenFor ELSE openUntil[k]
        BY <3>2 DEF CountFailure, TypeOK
      <4>2. failCount[k] # 0 /\ now - firstFail[k] <= Window
        BY <1>b, <3>2, BreakerAssumption DEF CountFailure, NewWindow, BreakerAssumption
      <4>3. CountsOf(Append(fails[k], now), failCount[k] + 1, firstFail[k],
                     IF failCount[k] + 1 >= Threshold THEN now + OpenFor ELSE openUntil[k], now)
        BY <1>b, <1>c, <4>2, CountsCount
      <4>4. QED
        BY <2>2, <4>1, <4>3
    <3>3. QED
      BY <1>3, <3>1, <3>2 DEF Failure
  <2>4. \A e \in Keys : CountsOf(fails'[e], failCount'[e], firstFail'[e], openUntil'[e], now')
    BY <1>c, <2>1, <2>2, <2>3
  <2>5. QED
    BY <1>a, <2>4, KeysMakeCounts
<1>4. CASE UNCHANGED <<now, failCount, firstFail, openUntil, fails>>
  BY <1>4 DEF Counts, FailBefore, LastFail
<1>5. QED
  BY <1>1, <1>2, <1>3, <1>4 DEF Next, Allow, vars

(* The entry of a key is open only after Threshold failures in a window.   *)
LEMMA CountsBound ==
    ASSUME NEW ft \in Seq(Nat), NEW n \in Nat, NEW first \in Nat, NEW until \in Nat, NEW t \in Nat,
           CountsOf(ft, n, first, until, t), until # 0
    PROVE  /\ Len(ft) >= Threshold /\ Len(ft) \in Nat \ {0} /\ ft[Len(ft)] \in Nat
           /\ ft[Len(ft)] - ft[Len(ft) - (Threshold - 1)] <= Window
           /\ until = ft[Len(ft)] + OpenFor
<1>1. /\ Threshold \in Nat \ {0} /\ Window \in Nat /\ Len(ft) \in Nat
      /\ \A i \in 1..Len(ft) : ft[i] \in Nat
  BY BreakerAssumption DEF BreakerAssumption
<1>2. /\ n <= Len(ft) /\ n >= Threshold /\ ft[Len(ft)] - first <= Window
      /\ until = ft[Len(ft)] + OpenFor
  BY DEF CountsOf
<1>3. ft[Len(ft) - (n - 1)] = first
  BY <1>1, <1>2 DEF CountsOf
<1>4. /\ Len(ft) - (n - 1) \in 1..Len(ft) /\ Len(ft) - (Threshold - 1) \in 1..Len(ft)
      /\ Len(ft) - (n - 1) <= Len(ft) - (Threshold - 1) /\ Len(ft) \in 1..Len(ft)
  BY <1>1, <1>2
<1>5. first <= ft[Len(ft) - (Threshold - 1)]
  BY <1>3, <1>4 DEF CountsOf
<1>6. ft[Len(ft)] \in Nat /\ ft[Len(ft) - (Threshold - 1)] \in Nat
  BY <1>1, <1>4
<1>7. ft[Len(ft)] - ft[Len(ft) - (Threshold - 1)] <= Window
  <2> DEFINE last == ft[Len(ft)]
             trip == ft[Len(ft) - (Threshold - 1)]
  <2>1. last - first <= Window /\ first <= trip /\ last \in Nat /\ trip \in Nat
    BY <1>2, <1>5, <1>6
  <2> HIDE DEF last, trip
  <2>2. last - trip <= Window
    BY <1>1, <2>1
  <2>3. QED
    BY <2>2 DEF last, trip
<1>8. Len(ft) >= Threshold /\ Len(ft) \in Nat \ {0}
  BY <1>1, <1>2
<1>9. QED
  BY <1>2, <1>6, <1>7, <1>8

LEMMA CountsImply ==
    ASSUME TypeOK, Counts
    PROVE  TrippedByFailures /\ RefusalBounded
<1>1. \A k \in Keys : openUntil[k] # 0 =>
          /\ Len(fails[k]) >= Threshold /\ Len(fails[k]) \in Nat \ {0} /\ LastFail(k) \in Nat
          /\ LastFail(k) - FailBefore(k, Threshold - 1) <= Window
          /\ openUntil[k] = LastFail(k) + OpenFor
  BY CountsByKey, CountsBound DEF TypeOK, LastFail, FailBefore
<1>2. TrippedByFailures
  BY <1>1 DEF TrippedByFailures
<1>3. ASSUME NEW k \in Keys, ~Allowed(k)
      PROVE  fails[k] # <<>> /\ now - LastFail(k) < OpenFor
  <2>1. openUntil[k] # 0 /\ now < openUntil[k] /\ now \in Nat /\ OpenFor \in Nat
    BY <1>3, BreakerAssumption DEF Allowed, TypeOK, BreakerAssumption
  <2>2. now - LastFail(k) < OpenFor
    BY <1>1, <2>1
  <2>3. Len(fails[k]) # 0
    BY <1>1, <2>1
  <2>4. QED
    BY <2>2, <2>3
<1>4. QED
  BY <1>2, <1>3 DEF RefusalBounded

(* Failure: an open breaker has had Threshold failures within Window.      *)
THEOREM BreakerTripsAsCounted == Spec => []TrippedByFailures
<1>1. Init => TypeOK /\ Counts
  BY InitTypeOK, CountsInit
<1>2. TypeOK /\ Counts /\ [Next]_vars => TypeOK' /\ Counts'
  BY NextTypeOK, CountsStep
<1>3. QED
  BY <1>1, <1>2, CountsImply, PTL DEF Spec

(* A comet with Threshold failures since its last success, all of them in  *)
(* one Window, is refused for OpenFor: the entry has counted every one.    *)
LEMMA CountsTrip ==
    ASSUME NEW ft \in Seq(Nat), NEW n \in Nat, NEW first \in Nat, NEW until \in Nat, NEW t \in Nat,
           CountsOf(ft, n, first, until, t),
           Len(ft) >= Threshold, Len(ft) > 1,
           ft[Len(ft)] - ft[1] <= Window, t - ft[Len(ft)] < OpenFor
    PROVE  until # 0 /\ t < until
<1>1. Len(ft) \in Nat /\ ft # <<>> /\ Len(ft) \in 1..Len(ft) /\ ft[Len(ft)] \in Nat
  OBVIOUS
<1>2. n = Len(ft)
  BY <1>1 DEF CountsOf
<1>3. until = ft[Len(ft)] + OpenFor
  BY <1>1, <1>2 DEF CountsOf
<1>4. QED
  BY <1>1, <1>3, BreakerAssumption DEF BreakerAssumption

LEMMA CountsImplyTrip ==
    ASSUME TypeOK, Counts
    PROVE  BurstTrips
<1> SUFFICES ASSUME NEW k \in Keys,
                    Len(fails[k]) >= Threshold, Len(fails[k]) > 1,
                    LastFail(k) - fails[k][1] <= Window, now - LastFail(k) < OpenFor
             PROVE  ~Allowed(k)
  BY DEF BurstTrips
<1>1. openUntil[k] # 0 /\ now < openUntil[k]
  BY CountsByKey, CountsTrip DEF TypeOK, LastFail
<1>2. QED
  BY <1>1 DEF Allowed

(* Failure: a comet whose failures since its last success are Threshold or *)
(* more, and of one window, is refused for OpenFor from the last of them.  *)
THEOREM BreakerTripsOnBurst == Spec => []BurstTrips
<1>1. Init => TypeOK /\ Counts
  BY InitTypeOK, CountsInit
<1>2. TypeOK /\ Counts /\ [Next]_vars => TypeOK' /\ Counts'
  BY NextTypeOK, CountsStep
<1>3. QED
  BY <1>1, <1>2, CountsImplyTrip, PTL DEF Spec

(* Allow: a comet is refused for less than OpenFor after its last failure. *)
THEOREM BreakerRefusalBounded == Spec => []RefusalBounded
<1>1. Init => TypeOK /\ Counts
  BY InitTypeOK, CountsInit
<1>2. TypeOK /\ Counts /\ [Next]_vars => TypeOK' /\ Counts'
  BY NextTypeOK, CountsStep
<1>3. QED
  BY <1>1, <1>2, CountsImply, PTL DEF Spec
=============================================================================
