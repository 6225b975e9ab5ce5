---------------------------- MODULE DeliveryProofs ----------------------------
(***************************************************************************)
(* Proofs about Delivery, for any number of messages, copies, recipients   *)
(* and comets, any batch size, and any number of Redis errors, stops and   *)
(* crashes.                                                                *)
(***************************************************************************)
EXTENDS Delivery, TLAPS

LEMMA RangeAppend ==
    ASSUME NEW S, NEW s \in Seq(S), NEW e \in S
    PROVE  Append(s, e) \in Seq(S) /\ Range(Append(s, e)) = Range(s) \union {e}
<1>1. /\ Append(s, e) \in Seq(S) /\ Len(Append(s, e)) = Len(s) + 1 /\ Len(s) \in Nat
      /\ \A i \in 1..Len(s) : Append(s, e)[i] = s[i]
      /\ Append(s, e)[Len(s) + 1] = e
  OBVIOUS
<1>2. /\ DOMAIN s = 1..Len(s) /\ DOMAIN Append(s, e) = 1..(Len(s) + 1)
  BY <1>1
<1>3. 1..(Len(s) + 1) = (1..Len(s)) \union {Len(s) + 1}
  BY <1>1
<1>4. QED
  BY <1>1, <1>2, <1>3 DEF Range

LEMMA RangeSplit ==
    ASSUME NEW S, NEW s \in Seq(S), NEW n \in 0..Len(s)
    PROVE  /\ SubSeq(s, n + 1, Len(s)) \in Seq(S)
           /\ Len(SubSeq(s, n + 1, Len(s))) = Len(s) - n
           /\ Range(s) = Range(SubSeq(s, 1, n)) \union Range(SubSeq(s, n + 1, Len(s)))
           /\ Range(SubSeq(s, 1, n)) \subseteq S
<1> DEFINE a == SubSeq(s, 1, n)
           b == SubSeq(s, n + 1, Len(s))
<1>1. /\ a \in Seq(S) /\ Len(a) = n /\ \A i \in 1..n : a[i] = s[i]
      /\ b \in Seq(S) /\ Len(b) = Len(s) - n /\ \A i \in 1..(Len(s) - n) : b[i] = s[n + i]
      /\ n \in Nat /\ Len(s) \in Nat /\ n <= Len(s)
  OBVIOUS
<1> HIDE DEF a, b
<1>2. DOMAIN a = 1..n /\ DOMAIN b = 1..(Len(s) - n) /\ DOMAIN s = 1..Len(s)
  BY <1>1
<1>3. ASSUME NEW x \in Range(s) PROVE x \in Range(a) \union Range(b)
  <2>1. PICK i \in 1..Len(s) : x = s[i]
    BY <1>2 DEF Range
  <2>2. CASE i <= n
    <3>1. i \in 1..n /\ a[i] = x
      BY <1>1, <2>1, <2>2
    <3>2. QED
      BY <1>2, <3>1 DEF Range
  <2>3. CASE i > n
    <3>1. i - n \in 1..(Len(s) - n) /\ n + (i - n) = i
      BY <1>1, <2>1, <2>3
    <3>2. b[i - n] = x
      BY <1>1, <2>1, <3>1
    <3>3. QED
      BY <1>2, <3>1, <3>2 DEF Range
  <2>4. QED
    BY <1>1, <2>1, <2>2, <2>3
<1>4. Range(a) \subseteq Range(s)
  BY <1>1, <1>2 DEF Range
<1>5. ASSUME NEW x \in Range(b) PROVE x \in Range(s)
  <2>1. PICK i \in 1..(Len(s) - n) : x = b[i]
    BY <1>2 DEF Range
  <2>2. n + i \in 1..Len(s) /\ s[n + i] = x
    BY <1>1, <2>1
  <2>3. QED
    BY <1>2, <2>2 DEF Range
<1>6. Range(a) \subseteq S
  BY <1>1, <1>2 DEF Range
<1>7. QED
  BY <1>1, <1>3, <1>4, <1>5, <1>6 DEF a, b

LEMMA EmptyIs == Range(<<>>) = {} /\ IsInjective(<<>>)
BY DEF Range, IsInjective

LEMMA InjectiveAppend ==
    ASSUME NEW S, NEW s \in Seq(S), NEW e \in S, IsInjective(s), e \notin Range(s)
    PROVE  IsInjective(Append(s, e))
<1> DEFINE t == Append(s, e)
<1>1. /\ DOMAIN t = 1..(Len(s) + 1) /\ DOMAIN s = 1..Len(s) /\ Len(s) \in Nat
      /\ \A i \in 1..Len(s) : t[i] = s[i]
      /\ t[Len(s) + 1] = e
  OBVIOUS
<1> HIDE DEF t
<1>2. \A i \in 1..Len(s) : s[i] # e
  BY <1>1 DEF Range
<1>3. SUFFICES ASSUME NEW i \in DOMAIN t, NEW j \in DOMAIN t, t[i] = t[j] PROVE i = j
  BY DEF t, IsInjective
<1>4. CASE i \in 1..Len(s) /\ j \in 1..Len(s)
  BY <1>1, <1>3, <1>4 DEF IsInjective
<1>5. CASE i = Len(s) + 1 \/ j = Len(s) + 1
  BY <1>1, <1>2, <1>3, <1>5
<1>6. QED
  BY <1>1, <1>4, <1>5

LEMMA InjectiveSplit ==
    ASSUME NEW S, NEW s \in Seq(S), NEW n \in 0..Len(s), IsInjective(s)
    PROVE  /\ IsInjective(SubSeq(s, n + 1, Len(s)))
           /\ Range(SubSeq(s, 1, n)) \intersect Range(SubSeq(s, n + 1, Len(s))) = {}
<1> DEFINE a == SubSeq(s, 1, n)
           b == SubSeq(s, n + 1, Len(s))
<1>1. /\ DOMAIN a = 1..n /\ \A i \in 1..n : a[i] = s[i]
      /\ DOMAIN b = 1..(Len(s) - n) /\ \A i \in 1..(Len(s) - n) : b[i] = s[n + i]
      /\ DOMAIN s = 1..Len(s) /\ n \in Nat /\ Len(s) \in Nat /\ n <= Len(s)
  OBVIOUS
<1> HIDE DEF a, b
<1>2. ASSUME NEW i \in DOMAIN b, NEW j \in DOMAIN b, b[i] = b[j] PROVE i = j
  <2>1. /\ n + i \in DOMAIN s /\ n + j \in DOMAIN s /\ s[n + i] = s[n + j]
        /\ i \in Nat /\ j \in Nat
    BY <1>1, <1>2
  <2>2. n + i = n + j
    BY <2>1 DEF IsInjective
  <2>3. QED
    BY <1>1, <2>1, <2>2
<1>3. ASSUME NEW x, x \in Range(a), x \in Range(b) PROVE FALSE
  <2>1. PICK i \in 1..n : x = a[i]
    BY <1>1, <1>3 DEF Range
  <2>2. PICK j \in 1..(Len(s) - n) : x = b[j]
    BY <1>1, <1>3 DEF Range
  <2>3. i \in DOMAIN s /\ n + j \in DOMAIN s /\ i # n + j
    BY <1>1
  <2>4. s[i] = x /\ s[n + j] = x
    BY <1>1, <2>1, <2>2
  <2>5. QED
    BY <2>3, <2>4 DEF IsInjective
<1>4. QED
  BY <1>2, <1>3 DEF a, b, IsInjective

LEMMA OneIs ==
    ASSUME NEW S, NEW s \in Seq(S), s # <<>>
    PROVE  Range(SubSeq(s, 1, 1)) = {s[1]} /\ s[1] \in S /\ 1 \in 0..Len(s)
<1>1. Len(s) \in Nat /\ Len(s) > 0 /\ s[1] \in S
  OBVIOUS
<1>2. SubSeq(s, 1, 1) \in Seq(S) /\ Len(SubSeq(s, 1, 1)) = 1 /\ SubSeq(s, 1, 1)[1] = s[1]
  BY <1>1
<1>3. DOMAIN SubSeq(s, 1, 1) = {1}
  BY <1>2
<1>4. QED
  BY <1>1, <1>2, <1>3 DEF Range

-----------------------------------------------------------------------------
(* A held item is in a buffer, with a flusher, or yet to come.             *)
LEMMA HeldIs ==
    \A x : x \in Held <=> \/ \E a \in Addrs : x \in Range(buf[a])
                          \/ \E f \in Flushers : x \in Range(fl[f].items)
                          \/ \E k \in Copies : x \in ToCome(k)
BY Zenon DEF Held, Buffered, Flushing, Coming

LEMMA HeldIsNext ==
    \A x : x \in Held' <=> \/ \E a \in Addrs : x \in Range(buf'[a])
                           \/ \E f \in Flushers : x \in Range(fl'[f].items)
                           \/ \E k \in Copies : x \in ToCome(k)'
BY Zenon DEF Held, Buffered, Flushing, Coming

(* What is in a buffer or with a flusher is in one of them.                *)
Apart ==
    /\ \A a \in Addrs : IsInjective(buf[a])
    /\ \A f \in Flushers : IsInjective(fl[f].items)
    /\ \A a, b \in Addrs : a # b => \A x \in Range(buf[a]) : x \notin Range(buf[b])
    /\ \A f, g \in Flushers : f # g =>
          \A x \in Range(fl[f].items) : x \notin Range(fl[g].items)
    /\ \A a \in Addrs, f \in Flushers :
          \A x \in Range(buf[a]) : x \notin Range(fl[f].items)

(* What is placed is behind its callback, and so apart from what is to     *)
(* come.                                                                   *)
Behind ==
    /\ \A a \in Addrs : \A x \in Range(buf[a]) : Past(x)
    /\ \A f \in Flushers : \A x \in Range(fl[f].items) : Past(x)

LEMMA PlacedIs ==
    Placed <=> /\ Behind
               /\ job # "up" => \A k \in Copies : cpc[k] \in {"ready", "done"}
<1>1. (\A it \in Buffered \union Flushing : Past(it)) <=> Behind
  BY Zenon DEF Behind, Buffered, Flushing
<1>2. QED
  BY <1>1 DEF Placed

LEMMA PastIsNotToCome ==
    ASSUME TypeOK, NEW x, NEW k \in Copies, Past(x) PROVE x \notin ToCome(k)
<1>1. SUFFICES ASSUME x \in ToCome(k) PROVE FALSE
  OBVIOUS
<1>2. next[k] \in Nat /\ Len(Recipients(k)) \in Nat
  BY DeliveryAssumption DEF DeliveryAssumption, TypeOK, Recipients
<1>3. PICK i \in next[k]..Len(Recipients(k)) : x = <<k, i>>
  BY <1>1 DEF ToCome
<1>4. i < next[k]
  BY <1>3 DEF Past
<1>5. QED
  BY <1>2, <1>3, <1>4

LEMMA OnceIs == ASSUME TypeOK, Placed PROVE HeldOnce <=> Apart
<1>1. ASSUME NEW x, x \in Coming, x \in Buffered \union Flushing PROVE FALSE
  <2>1. PICK k \in Copies : x \in ToCome(k)
    BY <1>1 DEF Coming
  <2>2. Past(x)
    BY <1>1 DEF Placed
  <2>3. QED
    BY <2>1, <2>2, PastIsNotToCome
<1>2. Coming \intersect (Buffered \union Flushing) = {}
  BY <1>1
<1>3. /\ (Buffered \intersect Flushing = {}) <=>
           \A a \in Addrs, f \in Flushers :
               \A x \in Range(buf[a]) : x \notin Range(fl[f].items)
  BY Zenon DEF Buffered, Flushing
<1>4. /\ (\A a, b \in Addrs : a # b => Range(buf[a]) \intersect Range(buf[b]) = {})
         <=> \A a, b \in Addrs : a # b => \A x \in Range(buf[a]) : x \notin Range(buf[b])
      /\ (\A f, g \in Flushers : f # g => Range(fl[f].items) \intersect Range(fl[g].items) = {})
         <=> \A f, g \in Flushers : f # g =>
               \A x \in Range(fl[f].items) : x \notin Range(fl[g].items)
  BY Zenon
<1>5. QED
  BY <1>2, <1>3, <1>4 DEF HeldOnce, Apart

FlushesOK == \A f \in Flushers : FlushOK(f)
Stopped == job # "up" => \A k \in Copies : cpc[k] \in {"ready", "done"}

(* The invariant, its parts as the steps below keep them.                  *)
LEMMA InvIs ==
    DeliveryInv <=> /\ TypeOK /\ FlushesOK /\ Covered /\ NothingDropped
                    /\ Behind /\ Stopped /\ Apart
BY OnceIs, PlacedIs DEF DeliveryInv, FlushesOK, Stopped

LEMMA InvIsNext ==
    DeliveryInv' <=> /\ TypeOK' /\ FlushesOK' /\ Covered' /\ NothingDropped'
                     /\ Behind' /\ Stopped' /\ Apart'
BY InvIs, PTL

(* A step that loses no item from view keeps what the broker may rely on,  *)
(* if the messages it takes on, or finds in Redis, are covered after it.   *)
LEMMA ViewKept ==
    ASSUME DeliveryInv, Traced \subseteq Traced',
           \A m \in dedupe' \ dedupe : Due(m) \subseteq Cover',
           \A k \in Copies : cpc'[k] = "dedupe" => next'[k] = 1,
           \A k \in Copies : cpc'[k] \in {"fan", "done"} =>
               \/ cpc[k] \in {"fan", "done"}
               \/ MsgOf[k] \in dedupe
               \/ Due(MsgOf[k]) \subseteq Cover'
    PROVE  Covered' /\ NothingDropped'
<1>1. Cover \subseteq Cover'
  <2>1. \A x : About(x)' = About(x)
    BY DEF About, Recipients
  <2>2. QED
    BY <2>1 DEF Cover
<1>2. \A m : Due(m)' = Due(m)
  BY DEF Due
<1>3. Covered'
  BY <1>1, <1>2 DEF DeliveryInv, Covered
<1>4. ASSUME NEW k \in Copies, cpc'[k] \in {"fan", "done"}
      PROVE  Due(MsgOf[k]) \subseteq Cover'
  BY <1>1, <1>4 DEF DeliveryInv, Covered, NothingDropped
<1>5. NothingDropped'
  BY <1>2, <1>4 DEF NothingDropped
<1>6. QED
  BY <1>3, <1>5

-----------------------------------------------------------------------------
(* The callback.                                                           *)

(* What a callback is yet to enqueue follows from its step and recipient.  *)
LEMMA ToComeIs ==
    ASSUME NEW k \in Copies, cpc'[k] = cpc[k], next'[k] = next[k]
    PROVE  ToCome(k)' = ToCome(k)
BY DEF ToCome, Recipients

(* The items a copy stands for.                                            *)
All(k) == {k} \X (1..Len(Recipients(k)))

LEMMA ToComeAll ==
    ASSUME NEW k \in Copies, cpc'[k] = "fan", next'[k] = 1
    PROVE  ToCome(k)' = All(k) /\ Due(MsgOf[k]) \subseteq Cover'
<1>1. ToCome(k)' = All(k)
  BY DEF ToCome, Recipients, All
<1>2. ASSUME NEW u \in Range(ToUIDs[MsgOf[k]]) PROVE <<MsgOf[k], u>> \in Cover'
  <2>1. DOMAIN ToUIDs[MsgOf[k]] = 1..Len(ToUIDs[MsgOf[k]])
    BY DeliveryAssumption DEF DeliveryAssumption
  <2>2. PICK i \in 1..Len(Recipients(k)) : u = Recipients(k)[i]
    BY <2>1 DEF Range, Recipients
  <2>3. <<k, i>> \in Held'
    BY <1>1, <2>2, HeldIsNext DEF All
  <2>4. <<k, i>> \in Traced' /\ About(<<k, i>>)' = <<MsgOf[k], u>>
    BY <2>2, <2>3 DEF Traced, About, Recipients
  <2>5. QED
    BY <2>4 DEF Cover
<1>3. QED
  BY <1>1, <1>2 DEF Due

LEMMA FlushersAre ==
    Copies \subseteq Flushers /\ "tick" \in Flushers /\ "stop" \in Flushers
BY DEF Flushers

LEMMA MishapOK == ASSUME TypeOK, Mishap PROVE mishaps' \in 0..MaxMishaps
BY DeliveryAssumption DEF DeliveryAssumption, TypeOK, Mishap

(* A step of the callback or of Redis that leaves the buffers alone: what  *)
(* is held is held, and the items it takes on besides.                     *)
LEMMA BrokerSteps ==
    ASSUME DeliveryInv, UNCHANGED <<buf, fpc, fl, outcome>>, TypeOK',
           \A k \in Copies : ToCome(k) \subseteq ToCome(k)',
           \A m \in dedupe' \ dedupe : Due(m) \subseteq Cover',
           \A k \in Copies : cpc'[k] = "dedupe" => next'[k] = 1,
           \A k \in Copies : cpc'[k] \in {"fan", "done"} =>
               \/ cpc[k] \in {"fan", "done"}
               \/ MsgOf[k] \in dedupe
               \/ Due(MsgOf[k]) \subseteq Cover',
           \A k \in Copies : cpc[k] \in {"fan", "done"} =>
               cpc'[k] \in {"fan", "done"} /\ next'[k] = next[k],
           job' # "up" => \A k \in Copies : cpc'[k] \in {"ready", "done"}
    PROVE  DeliveryInv'
<1>1. \A f \in Flushers : FlushOK(f)'
  BY DEF DeliveryInv, FlushOK
<1>2. Traced \subseteq Traced'
  BY HeldIs, HeldIsNext DEF Traced, Reached, outcome
<1>3. Apart'
  BY InvIs DEF Apart
<1>4. Behind'
  <2>1. \A a \in Addrs : \A x \in Range(buf[a]) : x[1] \in Copies
    BY DEF DeliveryInv, TypeOK, Range, Item
  <2>2. \A f \in Flushers : fl[f].items \in Seq(Item)
    BY DEF DeliveryInv, TypeOK, Work
  <2>3. \A f \in Flushers : \A x \in Range(fl[f].items) : x[1] \in Copies
    BY <2>2 DEF Range, Item
  <2>4. Behind
    BY InvIs
  <2>5. QED
    BY <2>1, <2>3, <2>4 DEF Behind, Past
<1>5. FlushesOK' /\ Stopped'
  BY <1>1 DEF FlushesOK, Stopped
<1>6. QED
  BY <1>2, <1>3, <1>4, <1>5, ViewKept, InvIsNext

(* While a callback runs, the process is up.                               *)
LEMMA RunsUp ==
    ASSUME DeliveryInv, NEW k \in Copies, cpc[k] \in {"dedupe", "fan"} PROVE job = "up"
BY InvIs DEF Stopped

LEMMA DeliverInv == ASSUME DeliveryInv, NEW k \in Copies, Deliver(k) PROVE DeliveryInv'
<1>1. TypeOK'
  BY DeliveryAssumption
  DEF DeliveryAssumption, DeliveryInv, TypeOK, Deliver, flushVars, outcome
<1>2. /\ cpc'[k] = "dedupe" /\ next'[k] = 1 /\ cpc[k] = "ready"
      /\ \A j \in Copies \ {k} : cpc'[j] = cpc[j] /\ next'[j] = next[j]
      /\ dedupe' = dedupe /\ job' = "up" /\ UNCHANGED <<buf, fpc, fl, outcome>>
  BY DEF DeliveryInv, TypeOK, Deliver, flushVars
<1>3. \A j \in Copies : ToCome(j) \subseteq ToCome(j)'
  BY <1>2, ToComeIs DEF ToCome
<1>4. QED
  BY <1>1, <1>2, <1>3, BrokerSteps DEF DeliveryInv, Covered

LEMMA DuplicateInv == ASSUME DeliveryInv, NEW k \in Copies, Duplicate(k) PROVE DeliveryInv'
<1>1. TypeOK'
  BY DEF DeliveryInv, TypeOK, Duplicate, flushVars, outcome
<1>2. /\ cpc'[k] = "done" /\ cpc[k] = "dedupe" /\ MsgOf[k] \in dedupe
      /\ \A j \in Copies \ {k} : cpc'[j] = cpc[j]
      /\ next' = next /\ dedupe' = dedupe /\ job' = "up" /\ UNCHANGED <<buf, fpc, fl, outcome>>
  BY RunsUp DEF DeliveryInv, TypeOK, Duplicate, flushVars
<1>3. \A j \in Copies : ToCome(j) \subseteq ToCome(j)'
  BY <1>2, ToComeIs DEF ToCome
<1>4. QED
  BY <1>1, <1>2, <1>3, BrokerSteps DEF DeliveryInv, Covered

(* The callback goes on with the message, and holds all its items.         *)
LEMMA TakenOn ==
    ASSUME DeliveryInv, NEW k \in Copies, cpc[k] = "dedupe",
           cpc' = [cpc EXCEPT ![k] = "fan"], next' = next,
           dedupe' \in {dedupe, dedupe \union {MsgOf[k]}},
           UNCHANGED <<job, buf, flushVars, outcome>>, mishaps' \in 0..MaxMishaps
    PROVE  DeliveryInv'
<1>1. TypeOK'
  BY DeliveryAssumption
  DEF DeliveryAssumption, DeliveryInv, TypeOK, flushVars, outcome
<1>2. /\ cpc'[k] = "fan" /\ next'[k] = 1
      /\ \A j \in Copies \ {k} : cpc'[j] = cpc[j] /\ next'[j] = next[j]
      /\ job' = "up" /\ UNCHANGED <<buf, fpc, fl, outcome>>
  BY RunsUp DEF DeliveryInv, TypeOK, Covered, flushVars
<1>3. \A j \in Copies : ToCome(j) \subseteq ToCome(j)'
  BY <1>2, ToComeIs DEF ToCome
<1>4. Due(MsgOf[k]) \subseteq Cover'
  BY <1>2, ToComeAll
<1>5. QED
  BY <1>1, <1>2, <1>3, <1>4, BrokerSteps DEF DeliveryInv, Covered

LEMMA FirstSeenInv == ASSUME DeliveryInv, NEW k \in Copies, FirstSeen(k) PROVE DeliveryInv'
BY TakenOn DEF FirstSeen, DeliveryInv, TypeOK, flushVars, outcome

LEMMA DedupeFailsInv == ASSUME DeliveryInv, NEW k \in Copies, DedupeFails(k) PROVE DeliveryInv'
<1>1. mishaps' \in 0..MaxMishaps
  BY MishapOK DEF DedupeFails, RedisError, DeliveryInv
<1>2. QED
  BY <1>1, TakenOn DEF DedupeFails, flushVars, outcome

LEMMA DedupeExpiresInv == ASSUME DeliveryInv, NEW m \in Msgs, DedupeExpires(m) PROVE DeliveryInv'
<1>1. TypeOK'
  BY DEF DeliveryInv, TypeOK, DedupeExpires, flushVars, outcome
<1>2. \A j \in Copies : ToCome(j) \subseteq ToCome(j)'
  BY ToComeIs DEF DedupeExpires
<1>3. /\ UNCHANGED <<job, cpc, next, buf, fpc, fl, outcome>> /\ dedupe' \subseteq dedupe
      /\ Stopped
  BY InvIs DEF DedupeExpires, flushVars
<1>4. QED
  BY <1>1, <1>2, <1>3, BrokerSteps DEF DeliveryInv, Covered, Stopped

LEMMA NothingToCome ==
    ASSUME TypeOK, NEW k \in Copies, next[k] > Len(Recipients(k)) PROVE ToCome(k) = {}
<1>1. next[k] \in Nat /\ Len(Recipients(k)) \in Nat
  BY DeliveryAssumption DEF DeliveryAssumption, TypeOK, Recipients
<1>2. next[k]..Len(Recipients(k)) = {}
  BY <1>1
<1>3. QED
  BY <1>2 DEF ToCome

LEMMA ConsumeSuccessInv ==
    ASSUME DeliveryInv, NEW k \in Copies, ConsumeSuccess(k) PROVE DeliveryInv'
<1>1. TypeOK'
  BY DEF DeliveryInv, TypeOK, ConsumeSuccess, flushVars, outcome
<1>2. /\ cpc'[k] = "done" /\ cpc[k] = "fan" /\ next[k] > Len(Recipients(k))
      /\ \A j \in Copies \ {k} : cpc'[j] = cpc[j]
      /\ next' = next /\ dedupe' = dedupe /\ job' = "up" /\ UNCHANGED <<buf, fpc, fl, outcome>>
  BY RunsUp DEF DeliveryInv, TypeOK, ConsumeSuccess, flushVars
<1>3. ToCome(k) = {}
  BY <1>2, NothingToCome DEF DeliveryInv
<1>4. \A j \in Copies : ToCome(j) \subseteq ToCome(j)'
  BY <1>2, <1>3, ToComeIs
<1>5. QED
  BY <1>1, <1>2, <1>4, BrokerSteps DEF DeliveryInv, Covered

(* One item leaves what is yet to come; no other one is it, or behind it.  *)
LEMMA EnqueueNext ==
    ASSUME DeliveryInv, NEW k \in Copies, MayEnqueue(k), cpc' = cpc,
           next' = [next EXCEPT ![k] = @ + 1]
    PROVE  /\ ItemAt(k) \in Item
           /\ next' \in [Copies -> Nat]
           /\ \A j \in Copies : next'[j] \in 1..(Len(ToUIDs[MsgOf[j]]) + 1)
           /\ ItemAt(k) \in ToCome(k)
           /\ \A j \in Copies : ToCome(j)' = ToCome(j) \ {ItemAt(k)}
           /\ \A j \in Copies : cpc'[j] = "dedupe" => next'[j] = 1
           /\ ~Past(ItemAt(k))
           /\ \A x \in Item : Past(x) \/ x = ItemAt(k) => Past(x)'
<1> DEFINE r == ToUIDs[MsgOf[k]]
<1>1. /\ Len(r) \in Nat /\ next[k] \in 1..Len(r) /\ next[k] \in Nat /\ cpc[k] = "fan"
  <2>1. Len(r) \in Nat
    BY DeliveryAssumption DEF DeliveryAssumption
  <2>2. next[k] \in 1..(Len(r) + 1) /\ next[k] <= Len(r) /\ cpc[k] = "fan"
    BY DEF DeliveryInv, TypeOK, MayEnqueue, Recipients
  <2>3. QED
    BY <2>1, <2>2
<1>2. next'[k] = next[k] + 1 /\ \A j \in Copies \ {k} : next'[j] = next[j]
  BY DEF DeliveryInv, TypeOK
<1>3. next' \in [Copies -> Nat] /\ \A j \in Copies : next'[j] \in 1..(Len(ToUIDs[MsgOf[j]]) + 1)
  BY <1>1, <1>2 DEF DeliveryInv, TypeOK
<1>4. ToCome(k)' = ToCome(k) \ {ItemAt(k)} /\ ItemAt(k) \in ToCome(k)
  <2>1. /\ (next[k] + 1)..Len(r) = (next[k]..Len(r)) \ {next[k]}
        /\ next[k] \in next[k]..Len(r)
    BY <1>1
  <2>2. QED
    BY <1>1, <1>2, <2>1 DEF ToCome, ItemAt, Recipients
<1>5. \A j \in Copies \ {k} : ToCome(j)' = ToCome(j) /\ ItemAt(k) \notin ToCome(j)
  BY <1>2, ToComeIs DEF ToCome, ItemAt
<1>6. ~Past(ItemAt(k))
  BY <1>1 DEF Past, ItemAt
<1>7. ASSUME NEW x \in Item, Past(x) \/ x = ItemAt(k) PROVE Past(x)'
  <2>1. x[1] \in Copies /\ x[2] \in Nat
    BY DEF Item
  <2>2. CASE x[1] = k
    BY <1>1, <1>2, <1>7, <2>1, <2>2 DEF Past, ItemAt
  <2>3. CASE x[1] # k
    BY <1>2, <1>7, <2>1, <2>3 DEF Past, ItemAt
  <2>4. QED
    BY <2>2, <2>3
<1>8. ItemAt(k) \in Item
  BY <1>1 DEF ItemAt, Item
<1>9. \A j \in Copies : cpc'[j] = "dedupe" => next'[j] = 1
  BY <1>1, <1>2 DEF DeliveryInv, Covered
<1>10. \A j \in Copies : ToCome(j)' = ToCome(j) \ {ItemAt(k)}
  BY <1>4, <1>5
<1>11. QED
  BY <1>3, <1>4, <1>6, <1>7, <1>8, <1>9, <1>10

LEMMA StoreOfflineOK ==
    ASSUME TypeOK, NEW it \in Item, StoreOffline(it)
    PROVE  /\ answered' \subseteq Item /\ offline' \subseteq Item /\ lost' \subseteq Item
           /\ mishaps' \in 0..MaxMishaps
           /\ Reached \subseteq Reached' /\ lost \subseteq lost'
           /\ it \in Reached' \union lost'
BY MishapOK DEF TypeOK, StoreOffline, RedisError, Reached

(* What a buffer or a flusher holds is an item, and behind its callback.   *)
LEMMA InMemory ==
    ASSUME DeliveryInv
    PROVE  /\ \A a \in Addrs : \A x \in Range(buf[a]) : x \in Item /\ Past(x)
           /\ \A f \in Flushers : \A x \in Range(fl[f].items) : x \in Item /\ Past(x)
<1>1. \A a \in Addrs : Range(buf[a]) \subseteq Item
  BY DEF DeliveryInv, TypeOK, Range
<1>2. \A f \in Flushers : fl[f].items \in Seq(Item)
  BY DEF DeliveryInv, TypeOK, Work
<1>3. \A f \in Flushers : Range(fl[f].items) \subseteq Item
  BY <1>2 DEF Range
<1>4. QED
  BY <1>1, <1>3, InvIs DEF Behind

LEMMA EnqueueOfflineInv ==
    ASSUME DeliveryInv, NEW k \in Copies, EnqueueOffline(k)
    PROVE  DeliveryInv' /\ ItemAt(k) \in Held /\ Held' = Held \ {ItemAt(k)}
<1>1. /\ MayEnqueue(k) /\ StoreOffline(ItemAt(k)) /\ next' = [next EXCEPT ![k] = @ + 1]
      /\ UNCHANGED <<job, cpc, dedupe, buf, fpc, fl>> /\ job = "up"
  BY RunsUp DEF EnqueueOffline, flushVars, MayEnqueue
<1>2. /\ ItemAt(k) \in Item
      /\ next' \in [Copies -> Nat]
      /\ \A j \in Copies : next'[j] \in 1..(Len(ToUIDs[MsgOf[j]]) + 1)
      /\ ItemAt(k) \in ToCome(k)
      /\ \A j \in Copies : ToCome(j)' = ToCome(j) \ {ItemAt(k)}
      /\ \A j \in Copies : cpc'[j] = "dedupe" => next'[j] = 1
      /\ ~Past(ItemAt(k))
      /\ \A x \in Item : Past(x) \/ x = ItemAt(k) => Past(x)'
  BY <1>1, EnqueueNext
<1>3. /\ answered' \subseteq Item /\ offline' \subseteq Item /\ lost' \subseteq Item
      /\ mishaps' \in 0..MaxMishaps
      /\ Reached \subseteq Reached' /\ lost \subseteq lost'
      /\ ItemAt(k) \in Reached' \union lost'
  BY <1>1, <1>2, StoreOfflineOK DEF DeliveryInv
<1>4. ItemAt(k) \in Held /\ Held' = Held \ {ItemAt(k)}
  <2>1. /\ \A a \in Addrs : ItemAt(k) \notin Range(buf[a])
        /\ \A f \in Flushers : ItemAt(k) \notin Range(fl[f].items)
    BY <1>2, InMemory
  <2>2. ASSUME NEW x PROVE x \in Held' <=> x \in Held /\ x # ItemAt(k)
    BY <1>1, <1>2, <2>1, HeldIs, HeldIsNext
  <2>3. QED
    BY <1>2, <2>2, HeldIs
<1>5. Traced \subseteq Traced'
  BY <1>3, <1>4 DEF Traced
<1>6. TypeOK' /\ FlushesOK'
  BY <1>1, <1>2, <1>3, InvIs DEF TypeOK, FlushesOK, FlushOK
<1>7. Behind'
  BY <1>1, <1>2, InMemory DEF Behind
<1>8. Apart' /\ Stopped'
  BY <1>1, InvIs DEF Apart, Stopped
<1>9. QED
  BY <1>1, <1>2, <1>4, <1>5, <1>6, <1>7, <1>8, ViewKept, InvIsNext

LEMMA EnqueueBufferInv ==
    ASSUME DeliveryInv, NEW k \in Copies, NEW a \in Addrs, EnqueueBuffer(k, a)
    PROVE  DeliveryInv' /\ Held' = Held
<1> DEFINE new == ItemAt(k)
<1>1. /\ MayEnqueue(k) /\ next' = [next EXCEPT ![k] = @ + 1]
      /\ buf' = [buf EXCEPT ![a] = Append(@, new)]
      /\ UNCHANGED <<job, cpc, dedupe, answered, offline, lost, mishaps>>
      /\ fpc[k] = "idle" /\ k \in Flushers /\ job = "up"
  BY RunsUp, FlushersAre DEF EnqueueBuffer, MayEnqueue, outcome
<1>2. /\ new \in Item
      /\ next' \in [Copies -> Nat]
      /\ \A j \in Copies : next'[j] \in 1..(Len(ToUIDs[MsgOf[j]]) + 1)
      /\ new \in ToCome(k)
      /\ \A j \in Copies : ToCome(j)' = ToCome(j) \ {new}
      /\ \A j \in Copies : cpc'[j] = "dedupe" => next'[j] = 1
      /\ ~Past(new)
      /\ \A x \in Item : Past(x) \/ x = new => Past(x)'
  BY <1>1, EnqueueNext
<1> HIDE DEF new
<1>3. new \notin Range(buf[a]) /\ buf[a] \in Seq(Item) /\ IsInjective(buf[a])
  BY <1>2, InMemory, InvIs DEF TypeOK, Apart
<1>4. /\ buf' \in [Addrs -> Seq(Item)]
      /\ Range(buf'[a]) = Range(buf[a]) \union {new} /\ IsInjective(buf'[a])
      /\ \A b \in Addrs \ {a} : buf'[b] = buf[b]
  BY <1>1, <1>2, <1>3, RangeAppend, InjectiveAppend DEF DeliveryInv, TypeOK
<1>5. /\ fpc' \in [Flushers -> {"idle", "take", "check", "send", "store"}]
      /\ fl' \in [Flushers -> Work]
      /\ \A f \in Flushers \ {k} : fpc'[f] = fpc[f] /\ fl'[f] = fl[f]
      /\ fl'[k].items = fl[k].items
      /\ fpc'[k] \in {"idle", "take"} /\ (fpc'[k] = "take" => fl'[k].addr = a)
  <2>1. fpc \in [Flushers -> {"idle", "take", "check", "send", "store"}] /\ fl \in [Flushers -> Work]
    BY DEF DeliveryInv, TypeOK
  <2>2. CASE Len(buf[a]) + 1 >= MaxBatch
    <3>1. [fl[k] EXCEPT !.addr = a] \in Work
      BY <1>1, <2>1 DEF Work
    <3>2. /\ fpc' = [fpc EXCEPT ![k] = "take"]
          /\ fl' = [fl EXCEPT ![k] = [fl[k] EXCEPT !.addr = a]]
      BY <2>2 DEF EnqueueBuffer
    <3>3. [fl[k] EXCEPT !.addr = a].items = fl[k].items /\ [fl[k] EXCEPT !.addr = a].addr = a
      BY <1>1, <2>1 DEF Work
    <3>4. QED
      BY <1>1, <2>1, <3>1, <3>2, <3>3
  <2>3. CASE ~(Len(buf[a]) + 1 >= MaxBatch)
    BY <1>1, <2>1, <2>3 DEF EnqueueBuffer, flushVars
  <2>4. QED
    BY <2>2, <2>3
<1>6. \A f \in Flushers : fl'[f].items = fl[f].items
  BY <1>5
<1>7. Held' = Held
  <2>1. ASSUME NEW x PROVE x \in Held' <=> x \in Held
    <3>1. (\E b \in Addrs : x \in Range(buf'[b])) <=> (\E b \in Addrs : x \in Range(buf[b])) \/ x = new
      BY <1>4
    <3>2. (\E f \in Flushers : x \in Range(fl'[f].items)) <=> \E f \in Flushers : x \in Range(fl[f].items)
      BY <1>6
    <3>3. (\E j \in Copies : x \in ToCome(j)') \/ x = new <=> \E j \in Copies : x \in ToCome(j)
      BY <1>2
    <3>4. QED
      BY <3>1, <3>2, <3>3, HeldIs, HeldIsNext
  <2>2. QED
    BY <2>1
<1>8. Traced \subseteq Traced'
  BY <1>1, <1>7 DEF Traced, Reached
<1>9. TypeOK' /\ FlushesOK' /\ Stopped'
  BY <1>1, <1>2, <1>4, <1>5, <1>6, InvIs DEF TypeOK, FlushesOK, FlushOK, Stopped
<1>10. Behind'
  BY <1>2, <1>4, <1>6, InMemory DEF Behind
<1>11. Apart'
  <2>1. /\ \A b \in Addrs : new \notin Range(buf[b])
        /\ \A f \in Flushers : new \notin Range(fl[f].items)
    BY <1>2, InMemory
  <2>2. \A b \in Addrs : \A x : x \in Range(buf'[b]) <=> x \in Range(buf[b]) \/ (b = a /\ x = new)
    BY <1>4
  <2>3. Apart
    BY InvIs
  <2>4. \A b \in Addrs : IsInjective(buf'[b])
    BY <1>4, <2>3 DEF Apart
  <2>5. \A b, c \in Addrs : b # c => \A x \in Range(buf'[b]) : x \notin Range(buf'[c])
    BY <2>1, <2>2, <2>3 DEF Apart
  <2>6. \A b \in Addrs, f \in Flushers : \A x \in Range(buf'[b]) : x \notin Range(fl'[f].items)
    BY <1>6, <2>1, <2>2, <2>3 DEF Apart
  <2>7. /\ \A f \in Flushers : IsInjective(fl'[f].items)
        /\ \A f, g \in Flushers : f # g =>
              \A x \in Range(fl'[f].items) : x \notin Range(fl'[g].items)
    BY <1>6, <2>3 DEF Apart
  <2>8. QED
    BY <2>4, <2>5, <2>6, <2>7 DEF Apart
<1>12. QED
  BY <1>1, <1>2, <1>7, <1>8, <1>9, <1>10, <1>11, ViewKept, InvIsNext

-----------------------------------------------------------------------------
(* The flushes.                                                            *)

Steps == {"idle", "take", "check", "send", "store"}
Fits(step, w) ==
    /\ step = "take" => w.addr \in Addrs
    /\ step \in {"idle", "take"} <=> w.items = <<>>
    /\ step = "store" => w.store > 0

(* A flusher goes on with the work w.  What it held, and what it found in  *)
(* the buffer it emptied, it has in w, or it is done with it.              *)
LEMMA FlusherMoves ==
    ASSUME DeliveryInv, NEW f \in Flushers, NEW step \in Steps, NEW w \in Work, NEW D,
           fpc' = [fpc EXCEPT ![f] = step], fl' = [fl EXCEPT ![f] = w], Fits(step, w),
           UNCHANGED <<job, cpc, next, dedupe>>,
           buf' \in [Addrs -> Seq(Item)], \A a \in Addrs : buf'[a] \in {buf[a], <<>>},
           IsInjective(w.items),
           \A x : x \in Range(w.items) \/ x \in D
                 <=> \/ x \in Range(fl[f].items)
                     \/ \E a \in Addrs : x \in Range(buf[a]) /\ buf'[a] = <<>>,
           \A x \in D : x \notin Range(w.items),
           answered' \subseteq Item, offline' \subseteq Item, lost' \subseteq Item,
           Reached \subseteq Reached', lost \subseteq lost', D \subseteq Reached' \union lost',
           mishaps' \in 0..MaxMishaps
    PROVE  DeliveryInv' /\ D \subseteq Held /\ Held' = Held \ D
<1>1. /\ fpc'[f] = step /\ fl'[f] = w
      /\ \A g \in Flushers \ {f} : fpc'[g] = fpc[g] /\ fl'[g] = fl[g]
      /\ fpc' \in [Flushers -> Steps] /\ fl' \in [Flushers -> Work]
  BY DEF DeliveryInv, TypeOK, Steps
<1>2. TypeOK' /\ FlushesOK' /\ Stopped'
  BY <1>1, InvIs DEF TypeOK, Steps, FlushesOK, FlushOK, Fits, Stopped
<1>3. \A k \in Copies : ToCome(k)' = ToCome(k)
  BY ToComeIs
<1>4. Apart /\ DeliveryInv
  BY InvIs
<1>5. \A a \in Addrs : \A x \in Range(buf'[a]) : x \in Range(buf[a]) /\ buf'[a] = buf[a]
  BY EmptyIs
<1>6. \A x \in Range(w.items) : \/ x \in Range(fl[f].items)
                               \/ \E a \in Addrs : x \in Range(buf[a]) /\ buf'[a] = <<>>
  OBVIOUS
<1>7. Behind'
  <2>1. \A x : Past(x)' = Past(x)
    BY DEF Past
  <2>2. \A x \in Range(w.items) : Past(x)
    BY <1>6, InMemory
  <2>3. QED
    BY <1>1, <1>5, <2>1, <2>2, InMemory DEF Behind
<1>8. Apart'
  <2>1. \A a \in Addrs : IsInjective(buf'[a])
    BY <1>4, EmptyIs DEF Apart
  <2>2. \A g \in Flushers : IsInjective(fl'[g].items)
    BY <1>1, <1>4 DEF Apart
  <2>3. \A a, b \in Addrs : a # b => \A x \in Range(buf'[a]) : x \notin Range(buf'[b])
    BY <1>4, <1>5 DEF Apart
  <2>4. \A g \in Flushers \ {f} : \A x \in Range(fl[g].items) : x \notin Range(w.items)
    BY <1>4, <1>6 DEF Apart
  <2>5. \A g, h \in Flushers : g # h =>
            \A x \in Range(fl'[g].items) : x \notin Range(fl'[h].items)
    <3>1. \A g, h \in Flushers \ {f} : g # h =>
              \A x \in Range(fl[g].items) : x \notin Range(fl[h].items)
      BY <1>4 DEF Apart
    <3>2. \A g \in Flushers \ {f} : fl'[g].items = fl[g].items
      BY <1>1
    <3>3. fl'[f].items = w.items
      BY <1>1
    <3>4. QED
      BY <2>4, <3>1, <3>2, <3>3
  <2>6. \A a \in Addrs : \A x \in Range(buf'[a]) : x \notin Range(w.items)
    <3>1. SUFFICES ASSUME NEW a \in Addrs, NEW x \in Range(buf'[a]), x \in Range(w.items)
                   PROVE  FALSE
      OBVIOUS
    <3>2. x \in Range(buf[a]) /\ buf'[a] # <<>>
      BY <1>5, EmptyIs
    <3>3. x \notin Range(fl[f].items)
      BY <1>4, <3>2 DEF Apart
    <3>4. PICK b \in Addrs : x \in Range(buf[b]) /\ buf'[b] = <<>>
      BY <1>6, <3>1, <3>3
    <3>5. QED
      BY <1>4, <3>2, <3>4 DEF Apart
  <2>7. \A a \in Addrs, g \in Flushers : \A x \in Range(buf'[a]) : x \notin Range(fl'[g].items)
    BY <1>1, <1>4, <1>5, <2>6 DEF Apart
  <2>8. QED
    BY <2>1, <2>2, <2>3, <2>5, <2>7 DEF Apart
<1>9. ASSUME NEW x \in D PROVE x \in Held /\ x \notin Held'
  <2>1. x \notin Range(w.items) /\ Past(x) /\ x \in Held
    BY InMemory, HeldIs
  <2>2. \A a \in Addrs : x \notin Range(buf'[a])
    <3>1. SUFFICES ASSUME NEW a \in Addrs, x \in Range(buf'[a]) PROVE FALSE
      OBVIOUS
    <3>2. x \in Range(buf[a]) /\ buf'[a] # <<>>
      BY <1>5, <3>1, EmptyIs
    <3>3. x \notin Range(fl[f].items)
      BY <1>4, <3>2 DEF Apart
    <3>4. PICK b \in Addrs : x \in Range(buf[b]) /\ buf'[b] = <<>>
      BY <3>3
    <3>5. QED
      BY <1>4, <3>2, <3>4 DEF Apart
  <2>3. \A g \in Flushers \ {f} : x \notin Range(fl[g].items)
    BY <1>4 DEF Apart
  <2>4. \A k \in Copies : x \notin ToCome(k)
    BY <2>1, PastIsNotToCome DEF DeliveryInv
  <2>5. QED
    BY <1>1, <1>3, <2>1, <2>2, <2>3, <2>4, HeldIsNext
<1>10. ASSUME NEW x \in Held, x \notin D PROVE x \in Held'
  <2>1. CASE \E a \in Addrs : x \in Range(buf[a])
    <3>1. PICK a \in Addrs : x \in Range(buf[a])
      BY <2>1
    <3>2. CASE buf'[a] = buf[a]
      BY <3>1, <3>2, HeldIsNext
    <3>3. CASE buf'[a] = <<>>
      BY <1>1, <1>10, <3>1, <3>3, HeldIsNext
    <3>4. QED
      BY <3>2, <3>3
  <2>2. CASE \E g \in Flushers : x \in Range(fl[g].items)
    BY <1>1, <1>10, <2>2, HeldIsNext
  <2>3. CASE \E k \in Copies : x \in ToCome(k)
    BY <1>3, <2>3, HeldIsNext
  <2>4. QED
    BY <2>1, <2>2, <2>3, HeldIs
<1>11. ASSUME NEW x \in Held' PROVE x \in Held
  BY <1>1, <1>3, <1>5, <1>6, <1>11, HeldIs, HeldIsNext
<1>12. D \subseteq Held /\ Held' = Held \ D
  BY <1>9, <1>10, <1>11
<1>13. Traced \subseteq Traced'
  BY <1>12 DEF Traced
<1>14. QED
  BY <1>2, <1>4, <1>7, <1>8, <1>12, <1>13, InvIs, ViewKept, InvIsNext DEF Covered

LEMMA WorkIs ==
    ASSUME DeliveryInv, NEW f \in Flushers
    PROVE  /\ fpc[f] \in Steps /\ fl[f] \in Work
           /\ fl[f].addr \in Addrs \union {NoAddr} /\ fl[f].items \in Seq(Item)
           /\ fl[f].retry \in 0..1 /\ fl[f].store \in Nat
           /\ IsInjective(fl[f].items)
           /\ answered \subseteq Item /\ offline \subseteq Item /\ lost \subseteq Item
           /\ buf \in [Addrs -> Seq(Item)] /\ mishaps \in 0..MaxMishaps
BY InvIs DEF TypeOK, Work, Steps, Apart

LEMMA NoWorkFits == NoWork \in Work /\ Fits("idle", NoWork) /\ NoWork.items = <<>>
BY DEF NoWork, Work, Fits

(* A step that moves no item: the flusher keeps those it has.              *)
LEMMA FlusherKeeps ==
    ASSUME DeliveryInv, NEW f \in Flushers, NEW step \in Steps, NEW w \in Work,
           fpc' = [fpc EXCEPT ![f] = step], fl' = [fl EXCEPT ![f] = w], Fits(step, w),
           w.items = fl[f].items,
           UNCHANGED <<job, cpc, next, dedupe, buf, answered, offline, lost, mishaps>>
    PROVE  DeliveryInv' /\ Held' = Held
<1> DEFINE D == {}
<1>1. \A x : x \in Range(w.items) \/ x \in D
            <=> \/ x \in Range(fl[f].items)
                \/ \E a \in Addrs : x \in Range(buf[a]) /\ buf'[a] = <<>>
  BY EmptyIs
<1>2. /\ Reached \subseteq Reached' /\ D \subseteq Reached' \union lost'
      /\ IsInjective(w.items) /\ \A a \in Addrs : buf'[a] \in {buf[a], <<>>}
      /\ answered' \subseteq Item /\ offline' \subseteq Item /\ lost' \subseteq Item
      /\ buf' \in [Addrs -> Seq(Item)] /\ mishaps' \in 0..MaxMishaps
      /\ UNCHANGED <<job, cpc, next, dedupe>> /\ lost \subseteq lost'
      /\ \A x \in D : x \notin Range(w.items)
  BY WorkIs DEF Reached
<1>3. DeliveryInv' /\ Held' = Held \ D
  <2> HIDE DEF D
  <2>1. QED
    BY <1>1, <1>2, FlusherMoves
<1>4. QED
  BY <1>3

LEMMA FlushAllInv ==
    ASSUME DeliveryInv, NEW f \in {"tick", "stop"}, NEW a \in Addrs, FlushAll(f, a)
    PROVE  DeliveryInv' /\ Held' = Held
<1>0. f \in Flushers
  BY FlushersAre
<1> DEFINE w == [fl[f] EXCEPT !.addr = a]
<1>1. w \in Work /\ w.addr = a /\ w.items = fl[f].items
  BY <1>0, WorkIs DEF Work
<1>2. fl[f].items = <<>>
  BY <1>0 DEF DeliveryInv, FlushOK, FlushAll
<1>3. Fits("take", w)
  BY <1>1, <1>2 DEF Fits
<1>4. fpc' = [fpc EXCEPT ![f] = "take"] /\ fl' = [fl EXCEPT ![f] = w]
  BY DEF FlushAll
<1> HIDE DEF w
<1>5. QED
  BY <1>0, <1>1, <1>3, <1>4, FlusherKeeps DEF FlushAll, brokerVars, outcome, Steps

LEMMA TakeBufferInv ==
    ASSUME DeliveryInv, NEW f \in Flushers, TakeBuffer(f)
    PROVE  DeliveryInv' /\ Held' = Held
<1> DEFINE a == fl[f].addr
<1>1. /\ a \in Addrs /\ buf[a] \in Seq(Item) /\ fl[f].items = <<>>
      /\ buf' = [buf EXCEPT ![a] = <<>>]
      /\ UNCHANGED <<job, cpc, next, dedupe, answered, offline, lost, mishaps>>
  BY DEF DeliveryInv, TypeOK, FlushOK, TakeBuffer, brokerVars, outcome
<1>2. /\ buf' \in [Addrs -> Seq(Item)]
      /\ \A b \in Addrs \ {a} : buf'[b] = buf[b]
      /\ buf'[a] = <<>>
  BY <1>1 DEF DeliveryInv, TypeOK
<1>3. ASSUME NEW step \in Steps, NEW w \in Work, Fits(step, w), w.items = buf[a],
             fpc' = [fpc EXCEPT ![f] = step], fl' = [fl EXCEPT ![f] = w]
      PROVE  DeliveryInv' /\ Held' = Held
  <2> DEFINE D == {}
  <2>1. \A x : x \in Range(w.items) \/ x \in D
              <=> \/ x \in Range(fl[f].items)
                  \/ \E b \in Addrs : x \in Range(buf[b]) /\ buf'[b] = <<>>
    BY <1>1, <1>2, <1>3, EmptyIs
  <2>2. /\ Reached \subseteq Reached' /\ D \subseteq Reached' \union lost'
        /\ answered' \subseteq Item /\ offline' \subseteq Item /\ lost' \subseteq Item
        /\ lost \subseteq lost' /\ mishaps' \in 0..MaxMishaps
        /\ \A b \in Addrs : buf'[b] \in {buf[b], <<>>}
        /\ \A x \in D : x \notin Range(w.items)
    BY <1>1, <1>2, WorkIs DEF Reached
  <2>3. IsInjective(w.items)
    BY <1>1, <1>3, InvIs DEF Apart
  <2>4. DeliveryInv' /\ Held' = Held \ D
    <3> HIDE DEF D, a
    <3>1. QED
      BY <1>1, <1>2, <1>3, <2>1, <2>2, <2>3, FlusherMoves
  <2>5. QED
    BY <2>4
<1>4. CASE buf[a] = <<>>
  <2>1. fpc' = [fpc EXCEPT ![f] = "idle"] /\ fl' = [fl EXCEPT ![f] = NoWork]
    BY <1>4 DEF TakeBuffer, Idle
  <2>2. QED
    BY <1>3, <1>4, <2>1, NoWorkFits DEF Steps
<1>5. CASE buf[a] # <<>>
  <2> DEFINE w == [fl[f] EXCEPT !.items = buf[a]]
  <2>1. w \in Work /\ w.items = buf[a]
    BY <1>1, WorkIs DEF Work
  <2>2. fpc' = [fpc EXCEPT ![f] = "check"] /\ fl' = [fl EXCEPT ![f] = w]
    BY <1>5 DEF TakeBuffer
  <2>3. Fits("check", w)
    BY <1>5, <2>1 DEF Fits
  <2> HIDE DEF w
  <2>4. QED
    BY <1>3, <2>1, <2>2, <2>3 DEF Steps
<1>6. QED
  BY <1>4, <1>5

LEMMA CheckBreakerInv ==
    ASSUME DeliveryInv, NEW f \in Flushers, CheckBreaker(f)
    PROVE  DeliveryInv' /\ Held' = Held
<1>1. /\ fl[f].items # <<>> /\ fl[f] \in Work /\ fl[f].items \in Seq(Item)
      /\ UNCHANGED <<job, cpc, next, dedupe, buf, answered, offline, lost, mishaps>>
  BY WorkIs DEF DeliveryInv, FlushOK, CheckBreaker, brokerVars, outcome
<1>2. CASE fpc' = [fpc EXCEPT ![f] = "send"] /\ UNCHANGED fl
  <2>1. fl' = [fl EXCEPT ![f] = fl[f]] /\ Fits("send", fl[f])
    BY <1>1, <1>2 DEF DeliveryInv, TypeOK, Fits
  <2>2. QED
    BY <1>1, <1>2, <2>1, FlusherKeeps DEF Steps
<1>3. CASE /\ fpc' = [fpc EXCEPT ![f] = "store"]
           /\ fl' = [fl EXCEPT ![f].store = Len(fl[f].items)]
  <2> DEFINE w == [fl[f] EXCEPT !.store = Len(fl[f].items)]
  <2>1. Len(fl[f].items) \in Nat /\ Len(fl[f].items) > 0
    BY <1>1
  <2>2. w \in Work /\ w.items = fl[f].items /\ w.store > 0
    BY <1>1, <2>1 DEF Work
  <2>3. Fits("store", w) /\ fl' = [fl EXCEPT ![f] = w]
    BY <1>1, <1>3, <2>2 DEF Fits
  <2> HIDE DEF w
  <2>4. QED
    BY <1>1, <1>3, <2>2, <2>3, FlusherKeeps DEF Steps
<1>4. QED
  BY <1>2, <1>3 DEF CheckBreaker

(* A chunk is not empty, and no longer than what is left.                  *)
LEMMA ChunkIs ==
    ASSUME DeliveryInv, NEW f \in Flushers, fl[f].items # <<>>
    PROVE  /\ ChunkSize(f) \in 1..Len(fl[f].items) /\ Len(fl[f].items) \in Nat
           /\ ChunkSize(f) \in Nat
<1>1. fl[f].items \in Seq(Item) /\ MaxBatch \in Nat /\ MaxBatch > 0
  BY WorkIs, DeliveryAssumption DEF DeliveryAssumption
<1>2. Len(fl[f].items) \in Nat /\ Len(fl[f].items) > 0
  BY <1>1
<1>3. QED
  BY <1>1, <1>2 DEF ChunkSize

LEMMA SendFailsInv ==
    ASSUME DeliveryInv, NEW f \in Flushers, SendFails(f) PROVE DeliveryInv' /\ Held' = Held
<1>1. /\ fl[f].items # <<>> /\ fl[f] \in Work /\ fpc[f] = "send"
      /\ UNCHANGED <<job, cpc, next, dedupe, buf, answered, offline, lost, mishaps>>
  BY WorkIs DEF DeliveryInv, FlushOK, SendFails, brokerVars, outcome
<1>2. ChunkSize(f) \in Nat /\ ChunkSize(f) > 0
  BY <1>1, ChunkIs
<1>3. CASE fl[f].retry = 1
  <2> DEFINE w == [fl[f] EXCEPT !.retry = 0]
  <2>1. w \in Work /\ w.items = fl[f].items
    BY <1>1 DEF Work
  <2>2. fl' = [fl EXCEPT ![f] = w] /\ fpc' = [fpc EXCEPT ![f] = "send"] /\ Fits("send", w)
    BY <1>1, <1>3, <2>1 DEF SendFails, DeliveryInv, TypeOK, Fits
  <2> HIDE DEF w
  <2>3. QED
    BY <1>1, <2>1, <2>2, FlusherKeeps DEF Steps
<1>4. CASE fl[f].retry # 1
  <2> DEFINE w == [fl[f] EXCEPT !.store = ChunkSize(f)]
  <2>1. w \in Work /\ w.items = fl[f].items /\ w.store = ChunkSize(f)
    BY <1>1, <1>2 DEF Work
  <2>2. fl' = [fl EXCEPT ![f] = w] /\ fpc' = [fpc EXCEPT ![f] = "store"]
    BY <1>4 DEF SendFails
  <2>3. Fits("store", w)
    BY <1>1, <1>2, <2>1 DEF Fits
  <2> HIDE DEF w
  <2>4. QED
    BY <1>1, <2>1, <2>2, <2>3, FlusherKeeps DEF Steps
<1>5. QED
  BY <1>3, <1>4

(* The first n items are done with, and the flusher goes on with the rest. *)
LEMMA FlusherLetsGo ==
    ASSUME DeliveryInv, NEW f \in Flushers, NEW step \in Steps, NEW w \in Work,
           NEW n \in 0..Len(fl[f].items), w.items = After(f, n),
           fpc' = [fpc EXCEPT ![f] = step], fl' = [fl EXCEPT ![f] = w], Fits(step, w),
           UNCHANGED <<job, cpc, next, dedupe, buf>>,
           answered' \subseteq Item, offline' \subseteq Item, lost' \subseteq Item,
           Reached \subseteq Reached', lost \subseteq lost',
           Range(SubSeq(fl[f].items, 1, n)) \subseteq Reached' \union lost',
           mishaps' \in 0..MaxMishaps
    PROVE  /\ DeliveryInv' /\ Range(SubSeq(fl[f].items, 1, n)) \subseteq Held
           /\ Held' = Held \ Range(SubSeq(fl[f].items, 1, n))
<1> DEFINE s == fl[f].items
           D == Range(SubSeq(s, 1, n))
<1>1. s \in Seq(Item) /\ IsInjective(s) /\ buf \in [Addrs -> Seq(Item)]
  BY WorkIs
<1>2. Range(s) = D \union Range(w.items)
  BY <1>1, RangeSplit DEF After
<1>3. IsInjective(w.items) /\ D \intersect Range(w.items) = {}
  BY <1>1, InjectiveSplit DEF After
<1> HIDE DEF D
<1>4. \A x : x \in Range(w.items) \/ x \in D
            <=> \/ x \in Range(s)
                \/ \E a \in Addrs : x \in Range(buf[a]) /\ buf'[a] = <<>>
  BY <1>2, EmptyIs
<1>5. \A a \in Addrs : buf'[a] \in {buf[a], <<>>}
  OBVIOUS
<1>6. D \subseteq Reached' \union lost'
  BY DEF D
<1>7. DeliveryInv' /\ D \subseteq Held /\ Held' = Held \ D
  BY <1>1, <1>3, <1>4, <1>5, <1>6, FlusherMoves
<1>8. QED
  BY <1>7 DEF D

LEMMA SendOkInv ==
    ASSUME DeliveryInv, NEW f \in Flushers, SendOk(f)
    PROVE  LET chunk == Range(SubSeq(fl[f].items, 1, ChunkSize(f)))
           IN  DeliveryInv' /\ chunk \subseteq Held /\ Held' = Held \ chunk
<1> DEFINE s == fl[f].items
           n == ChunkSize(f)
           rest == After(f, n)
<1>1. /\ s # <<>> /\ s \in Seq(Item) /\ fl[f] \in Work
      /\ UNCHANGED <<job, cpc, next, dedupe, buf, offline, lost, mishaps>>
      /\ answered' = answered \union Range(SubSeq(s, 1, n))
  BY WorkIs DEF DeliveryInv, FlushOK, SendOk, brokerVars
<1>2. n \in 1..Len(s) /\ Len(s) \in Nat /\ n \in Nat
  BY <1>1, ChunkIs
<1>3. n \in 0..Len(s)
  BY <1>2
<1>4. /\ rest \in Seq(Item) /\ Len(rest) = Len(s) - n
      /\ Range(SubSeq(s, 1, n)) \subseteq Item
  BY <1>1, <1>3, RangeSplit DEF After
<1> HIDE DEF rest, n
<1>5. /\ answered' \subseteq Item /\ offline' \subseteq Item /\ lost' \subseteq Item
      /\ Reached \subseteq Reached' /\ lost \subseteq lost' /\ mishaps' \in 0..MaxMishaps
      /\ Range(SubSeq(s, 1, n)) \subseteq Reached' \union lost'
  BY <1>1, <1>4, WorkIs DEF Reached
<1>6. ASSUME NEW step \in Steps, NEW w \in Work, Fits(step, w), w.items = rest,
             fpc' = [fpc EXCEPT ![f] = step], fl' = [fl EXCEPT ![f] = w]
      PROVE  /\ DeliveryInv' /\ Range(SubSeq(s, 1, n)) \subseteq Held
             /\ Held' = Held \ Range(SubSeq(s, 1, n))
  BY <1>1, <1>3, <1>5, <1>6, FlusherLetsGo DEF rest
<1>7. CASE Len(s) = n
  <2>1. rest = <<>>
    BY <1>2, <1>4, <1>7
  <2>2. fpc' = [fpc EXCEPT ![f] = "idle"] /\ fl' = [fl EXCEPT ![f] = NoWork]
    BY <1>7 DEF SendOk, Idle, n
  <2>3. QED
    BY <1>6, <2>1, <2>2, NoWorkFits DEF Steps, n
<1>8. CASE Len(s) # n
  <2> DEFINE w == Rest(f, n, 0)
  <2>1. w \in Work /\ w.items = rest
    BY <1>1, <1>4 DEF Work, Rest, rest
  <2>2. rest # <<>>
    BY <1>2, <1>4, <1>8
  <2>3. fl' = [fl EXCEPT ![f] = w] /\ fpc' = [fpc EXCEPT ![f] = "send"]
    BY <1>8 DEF SendOk, n, rest, DeliveryInv, TypeOK
  <2>4. Fits("send", w)
    BY <2>1, <2>2 DEF Fits
  <2> HIDE DEF w
  <2>5. QED
    BY <1>6, <2>1, <2>3, <2>4 DEF Steps, n
<1>9. QED
  BY <1>7, <1>8

LEMMA StoreInv ==
    ASSUME DeliveryInv, NEW f \in Flushers, Store(f)
    PROVE  LET it == fl[f].items[1]
           IN  DeliveryInv' /\ it \in Held /\ Held' = Held \ {it}
<1> DEFINE s == fl[f].items
           rest == After(f, 1)
<1>1. /\ s # <<>> /\ s \in Seq(Item) /\ fl[f] \in Work /\ fl[f].store \in Nat
      /\ fl[f].store > 0 /\ fpc[f] = "store"
      /\ UNCHANGED <<job, cpc, next, dedupe, buf>> /\ StoreOffline(s[1])
  BY WorkIs DEF DeliveryInv, FlushOK, Store, brokerVars
<1>2. 1 \in 0..Len(s) /\ Len(s) \in Nat /\ s[1] \in Item /\ Range(SubSeq(s, 1, 1)) = {s[1]}
  BY <1>1, OneIs
<1>3. rest \in Seq(Item) /\ Len(rest) = Len(s) - 1
  BY <1>1, <1>2, RangeSplit DEF After
<1>4. /\ answered' \subseteq Item /\ offline' \subseteq Item /\ lost' \subseteq Item
      /\ mishaps' \in 0..MaxMishaps
      /\ Reached \subseteq Reached' /\ lost \subseteq lost'
      /\ Range(SubSeq(s, 1, 1)) \subseteq Reached' \union lost'
  BY <1>1, <1>2, StoreOfflineOK DEF DeliveryInv
<1> HIDE DEF rest
<1>5. ASSUME NEW step \in Steps, NEW w \in Work, Fits(step, w), w.items = rest,
             fpc' = [fpc EXCEPT ![f] = step], fl' = [fl EXCEPT ![f] = w]
      PROVE  DeliveryInv' /\ s[1] \in Held /\ Held' = Held \ {s[1]}
  <2>1. /\ DeliveryInv' /\ Range(SubSeq(s, 1, 1)) \subseteq Held
        /\ Held' = Held \ Range(SubSeq(s, 1, 1))
    BY <1>1, <1>2, <1>4, <1>5, FlusherLetsGo DEF rest
  <2>2. QED
    BY <1>2, <2>1
<1>6. CASE Len(s) = 1
  <2>1. rest = <<>>
    BY <1>3, <1>6
  <2>2. fpc' = [fpc EXCEPT ![f] = "idle"] /\ fl' = [fl EXCEPT ![f] = NoWork]
    BY <1>6 DEF Store, Idle
  <2>3. QED
    BY <1>5, <2>1, <2>2, NoWorkFits DEF Steps
<1>7. CASE Len(s) # 1
  <2> DEFINE left == fl[f].store - 1
             w == Rest(f, 1, left)
             step == IF fl[f].store = 1 THEN "send" ELSE "store"
  <2>1. left \in Nat /\ (fl[f].store # 1 => left > 0)
    BY <1>1
  <2>2. w \in Work /\ w.items = rest /\ w.store = left
    BY <1>1, <1>3, <2>1 DEF Work, Rest, rest
  <2>3. rest # <<>>
    <3>1. Len(rest) # 0
      BY <1>2, <1>3, <1>7
    <3>2. QED
      BY <3>1
  <2>4. fl' = [fl EXCEPT ![f] = w] /\ fpc' = [fpc EXCEPT ![f] = step]
    BY <1>7 DEF Store, rest
  <2>5. step \in Steps /\ Fits(step, w)
    BY <2>1, <2>2, <2>3 DEF Fits, Steps
  <2> HIDE DEF w, step
  <2>6. QED
    BY <1>5, <2>2, <2>4, <2>5
<1>8. QED
  BY <1>6, <1>7

-----------------------------------------------------------------------------
(* The end of the process.                                                 *)

LEMMA HeldAreItems == ASSUME DeliveryInv PROVE Held \subseteq Item
<1>1. ASSUME NEW x, NEW k \in Copies, x \in ToCome(k) PROVE x \in Item
  <2>1. next[k] \in Nat /\ Len(Recipients(k)) \in Nat
    BY DeliveryAssumption DEF DeliveryAssumption, DeliveryInv, TypeOK, Recipients
  <2>2. PICK i \in next[k]..Len(Recipients(k)) : x = <<k, i>>
    BY <1>1 DEF ToCome
  <2>3. i \in Nat
    BY <2>1
  <2>4. QED
    BY <2>2, <2>3 DEF Item
<1>2. QED
  BY <1>1, InMemory, HeldIs

(* What is forgotten was held, and is lost with the process.               *)
LEMMA ForgetKeeps ==
    ASSUME DeliveryInv, Forget, mishaps' \in 0..MaxMishaps,
           cpc' \in [Copies -> {"ready", "done"}],
           \A k \in Copies : cpc'[k] = "done" => cpc[k] = "done"
    PROVE  DeliveryInv' /\ Held' = {}
<1>1. /\ UNCHANGED <<next, dedupe, answered, offline>> /\ job' = "down"
      /\ lost' = lost \union Held
      /\ buf' = [a \in Addrs |-> <<>>]
      /\ fpc' = [f \in Flushers |-> "idle"] /\ fl' = [f \in Flushers |-> NoWork]
  BY DEF Forget
<1>2. TypeOK' /\ Stopped' /\ FlushesOK'
  BY <1>1, HeldAreItems, NoWorkFits DEF DeliveryInv, TypeOK, Stopped, FlushesOK, FlushOK
<1>3. \A x : x \notin Held'
  <2>1. \A k \in Copies : ToCome(k)' = {}
    BY DEF ToCome
  <2>2. (\A a \in Addrs : Range(buf'[a]) = {}) /\ \A f \in Flushers : Range(fl'[f].items) = {}
    BY <1>1, NoWorkFits, EmptyIs
  <2>3. QED
    BY <2>1, <2>2, HeldIsNext
<1>4. Traced \subseteq Traced'
  BY <1>1 DEF Traced, Reached
<1>5. Behind' /\ Apart'
  BY <1>1, NoWorkFits, EmptyIs DEF Behind, Apart
<1>6. QED
  BY <1>1, <1>2, <1>3, <1>4, <1>5, ViewKept, InvIsNext

LEMMA CrashInv == ASSUME DeliveryInv, Crash PROVE DeliveryInv' /\ Held' = {}
<1>1. PICK again \in SUBSET {k \in Copies : cpc[k] = "done"} :
          cpc' = [k \in Copies |-> IF cpc[k] = "done" /\ k \notin again THEN "done" ELSE "ready"]
  BY DEF Crash
<1>2. Forget /\ mishaps' \in 0..MaxMishaps
  BY MishapOK DEF Crash, DeliveryInv
<1>3. QED
  BY <1>1, <1>2, ForgetKeeps

LEMMA ExitInv == ASSUME DeliveryInv, Exit PROVE DeliveryInv' /\ Held' = {}
<1>1. \A k \in Copies : cpc[k] \in {"ready", "done"}
  BY InvIs DEF Stopped, Exit
<1>2. cpc' = cpc /\ mishaps' \in 0..MaxMishaps /\ Forget /\ cpc \in [Copies -> {"ready", "done"}]
  BY <1>1 DEF DeliveryInv, TypeOK, Exit
<1>3. QED
  BY <1>2, ForgetKeeps

LEMMA JobInv == ASSUME DeliveryInv, Stop \/ Restart PROVE DeliveryInv'
<1>1. TypeOK'
  BY MishapOK DEF DeliveryInv, TypeOK, Stop, Restart, brokerVars, flushVars, outcome
<1>2. /\ UNCHANGED <<cpc, next, dedupe, buf, fpc, fl, outcome>>
      /\ Stopped'
  BY DEF Stop, Restart, brokerVars, flushVars, Stopped
<1>3. \A k \in Copies : ToCome(k) \subseteq ToCome(k)'
  BY <1>2, ToComeIs
<1>4. QED
  BY <1>1, <1>2, <1>3, BrokerSteps DEF DeliveryInv, Covered, Stopped

-----------------------------------------------------------------------------
LEMMA DeliveryInit == Init => DeliveryInv /\ Held = {}
<1> SUFFICES ASSUME Init PROVE DeliveryInv /\ Held = {}
  OBVIOUS
<1>1. \A k \in Copies : Len(ToUIDs[MsgOf[k]]) \in Nat
  BY DeliveryAssumption DEF DeliveryAssumption
<1>2. TypeOK
  BY <1>1, NoWorkFits, DeliveryAssumption DEF Init, TypeOK, DeliveryAssumption
<1>3. /\ FlushesOK /\ Covered /\ NothingDropped /\ Stopped
      /\ \A k \in Copies : ToCome(k) = {}
  BY NoWorkFits DEF Init, FlushesOK, FlushOK, Covered, NothingDropped, Stopped, ToCome
<1>4. /\ \A a \in Addrs : buf[a] = <<>> /\ Range(buf[a]) = {}
      /\ \A f \in Flushers : fl[f].items = <<>> /\ Range(fl[f].items) = {}
  BY EmptyIs, NoWorkFits DEF Init
<1>5. Behind /\ Apart
  BY <1>4, EmptyIs DEF Behind, Apart
<1>6. \A x : x \notin Held
  BY <1>3, <1>4, HeldIs
<1>7. QED
  BY <1>2, <1>3, <1>5, <1>6, InvIs

(* Nothing moves: a step that leaves the items where they are.             *)
LEMMA NothingMoves ==
    ASSUME UNCHANGED <<buf, fpc, fl>>, \A k \in Copies : ToCome(k)' = ToCome(k)
    PROVE  Held' = Held
<1>1. \A x : x \in Held' <=> x \in Held
  BY HeldIs, HeldIsNext
<1>2. QED
  BY <1>1

LEMMA DeliveryNext == DeliveryInv /\ [Next]_vars => DeliveryInv'
<1> SUFFICES ASSUME DeliveryInv, [Next]_vars PROVE DeliveryInv'
  OBVIOUS
<1>1. CASE UNCHANGED vars
  <2>1. UNCHANGED <<job, cpc, next, dedupe, buf, fpc, fl, outcome, mishaps>>
    BY <1>1 DEF vars, brokerVars, flushVars
  <2>2. TypeOK'
    BY <2>1 DEF DeliveryInv, TypeOK, outcome
  <2>3. QED
    BY <2>1, <2>2, ToComeIs, BrokerSteps, InvIs DEF Covered, Stopped
<1>2. ASSUME NEW k \in Copies, Callback(k) PROVE DeliveryInv'
  BY <1>2, DeliverInv, DuplicateInv, FirstSeenInv, DedupeFailsInv, ConsumeSuccessInv,
     EnqueueOfflineInv, EnqueueBufferInv
  DEF Callback
<1>3. ASSUME NEW f \in Flushers, Flush(f) PROVE DeliveryInv'
  BY <1>3, TakeBufferInv, CheckBreakerInv, SendOkInv, SendFailsInv, StoreInv DEF Flush
<1>4. QED
  BY <1>1, <1>2, <1>3, FlushAllInv, DedupeExpiresInv, CrashInv, ExitInv, JobInv DEF Next

LEMMA DeliveryAlways == Spec => []DeliveryInv
BY DeliveryInit, DeliveryNext, PTL DEF Spec

(***************************************************************************)
(* Callback, batcher and stop keep the types of their state, through any   *)
(* number of crashes.                                                      *)
(***************************************************************************)
THEOREM DeliveryTypeCorrect == Spec => []TypeOK
<1>1. DeliveryInv => TypeOK
  BY DEF DeliveryInv
<1>2. QED
  BY <1>1, DeliveryAlways, PTL

(***************************************************************************)
(* batcher: for each recipient of a message that was taken on, an item is  *)
(* held, answered for, stored offline, or lost with the process or with a  *)
(* failed write.                                                           *)
(***************************************************************************)
THEOREM DeliveryDropsNothing == Spec => []NothingDropped
<1>1. DeliveryInv => NothingDropped
  BY DEF DeliveryInv
<1>2. QED
  BY <1>1, DeliveryAlways, PTL

(***************************************************************************)
(* batcher.flush: whichever callback, tick or stop takes a buffer, an item *)
(* is in one place of the memory at a time.                                *)
(***************************************************************************)
THEOREM DeliveryHoldsOnce == Spec => []HeldOnce
<1>1. DeliveryInv => HeldOnce
  BY DEF DeliveryInv
<1>2. QED
  BY <1>1, DeliveryAlways, PTL

-----------------------------------------------------------------------------
(* Each step is a step of the ledger, or one that the ledger does not see. *)

LEMMA TakesOn ==
    ASSUME DeliveryInv, NEW k \in Copies, cpc[k] = "dedupe",
           cpc' = [cpc EXCEPT ![k] = "fan"], next' = next, UNCHANGED <<buf, fpc, fl>>
    PROVE  All(k) \intersect Held = {} /\ Held' = Held \union All(k)
<1>1. /\ cpc'[k] = "fan" /\ next'[k] = 1
      /\ \A j \in Copies \ {k} : cpc'[j] = cpc[j] /\ next'[j] = next[j]
  BY DEF DeliveryInv, TypeOK, Covered
<1>2. ToCome(k)' = All(k) /\ ToCome(k) = {} /\ \A j \in Copies \ {k} : ToCome(j)' = ToCome(j)
  BY <1>1, ToComeAll, ToComeIs DEF ToCome
<1>3. ASSUME NEW x \in All(k), x \in Held PROVE FALSE
  <2>1. x[1] = k
    BY DEF All
  <2>2. ~Past(x)
    BY <2>1 DEF Past
  <2>3. PICK j \in Copies : x \in ToCome(j)
    BY <1>3, <2>2, InMemory, HeldIs
  <2>4. j = k
    BY <2>1, <2>3 DEF ToCome
  <2>5. QED
    BY <1>2, <2>3, <2>4
<1>4. \A x : x \in Held' <=> x \in Held \/ x \in All(k)
  BY <1>2, HeldIs, HeldIsNext
<1>5. QED
  BY <1>3, <1>4

LEMMA CallbackLedger ==
    ASSUME DeliveryInv, NEW k \in Copies, Callback(k)
    PROVE  [Ledger!LedgerNext]_Ledger!ledgerVars
<1>1. CASE Deliver(k) \/ Duplicate(k)
  <2>1. /\ UNCHANGED <<buf, fpc, fl, outcome>> /\ \A j \in Copies \ {k} : ToCome(j)' = ToCome(j)
        /\ ToCome(k) = {} /\ ToCome(k)' = {}
    BY <1>1, ToComeIs DEF Deliver, Duplicate, flushVars, DeliveryInv, TypeOK, ToCome
  <2>2. QED
    BY <2>1, NothingMoves DEF Ledger!ledgerVars, outcome, Reached
<1>2. CASE ConsumeSuccess(k)
  <2>1. /\ UNCHANGED <<buf, fpc, fl, outcome>> /\ \A j \in Copies \ {k} : ToCome(j)' = ToCome(j)
        /\ ToCome(k) = {} /\ ToCome(k)' = {}
    BY <1>2, ToComeIs, NothingToCome DEF ConsumeSuccess, flushVars, DeliveryInv, TypeOK, ToCome
  <2>2. QED
    BY <2>1, NothingMoves DEF Ledger!ledgerVars, outcome, Reached
<1>3. CASE FirstSeen(k) \/ DedupeFails(k)
  <2>1. /\ cpc[k] = "dedupe" /\ cpc' = [cpc EXCEPT ![k] = "fan"] /\ next' = next
        /\ UNCHANGED <<buf, fpc, fl, outcome>>
    BY <1>3 DEF FirstSeen, DedupeFails, flushVars
  <2>2. All(k) \intersect Held = {} /\ Held' = Held \union All(k)
    BY <2>1, TakesOn
  <2>3. Ledger!TakeOn(k)
    BY <2>1, <2>2 DEF Ledger!TakeOn, All, Reached, outcome
  <2>4. QED
    BY <2>3 DEF Ledger!LedgerNext
<1>4. CASE EnqueueOffline(k)
  <2>1. ItemAt(k) \in Held /\ Held' = Held \ {ItemAt(k)} /\ StoreOffline(ItemAt(k))
    BY <1>4, EnqueueOfflineInv DEF EnqueueOffline
  <2>2. Ledger!Reach({ItemAt(k)}) \/ Ledger!Lose({ItemAt(k)})
    BY <2>1 DEF StoreOffline, Ledger!Reach, Ledger!Lose, Ledger!LetGo, Reached
  <2>3. QED
    BY <2>1, <2>2 DEF Ledger!LedgerNext
<1>5. CASE \E a \in Addrs : EnqueueBuffer(k, a)
  BY <1>5, EnqueueBufferInv DEF EnqueueBuffer, outcome, Reached, Ledger!ledgerVars
<1>6. QED
  BY <1>1, <1>2, <1>3, <1>4, <1>5 DEF Callback

LEMMA FlushLedger ==
    ASSUME DeliveryInv, NEW f \in Flushers, Flush(f)
    PROVE  [Ledger!LedgerNext]_Ledger!ledgerVars
<1>1. CASE TakeBuffer(f) \/ CheckBreaker(f) \/ SendFails(f)
  BY <1>1, TakeBufferInv, CheckBreakerInv, SendFailsInv
  DEF TakeBuffer, CheckBreaker, SendFails, outcome, Reached, Ledger!ledgerVars
<1>2. CASE SendOk(f)
  <2> DEFINE chunk == Range(SubSeq(fl[f].items, 1, ChunkSize(f)))
  <2>1. /\ chunk \subseteq Held /\ Held' = Held \ chunk
        /\ answered' = answered \union chunk /\ UNCHANGED <<offline, lost>>
    BY <1>2, SendOkInv DEF SendOk
  <2> HIDE DEF chunk
  <2>2. Ledger!Reach(chunk)
    BY <2>1 DEF Ledger!Reach, Ledger!LetGo, Reached
  <2>3. QED
    BY <2>1, <2>2 DEF Ledger!LedgerNext
<1>3. CASE Store(f)
  <2> DEFINE it == fl[f].items[1]
  <2>1. it \in Held /\ Held' = Held \ {it} /\ StoreOffline(it)
    BY <1>3, StoreInv DEF Store
  <2> HIDE DEF it
  <2>2. Ledger!Reach({it}) \/ Ledger!Lose({it})
    BY <2>1 DEF StoreOffline, Ledger!Reach, Ledger!Lose, Ledger!LetGo, Reached
  <2>3. QED
    BY <2>1, <2>2 DEF Ledger!LedgerNext
<1>4. QED
  BY <1>1, <1>2, <1>3 DEF Flush

LEMMA LedgerStep ==
    DeliveryInv /\ [Next]_vars => [Ledger!LedgerNext]_Ledger!ledgerVars
<1> SUFFICES ASSUME DeliveryInv, [Next]_vars PROVE [Ledger!LedgerNext]_Ledger!ledgerVars
  OBVIOUS
<1>1. CASE Crash \/ Exit
  <2>1. Held' = {} /\ lost' = lost \union Held /\ UNCHANGED <<answered, offline>>
    BY <1>1, CrashInv, ExitInv DEF Crash, Exit, Forget
  <2>2. Ledger!Lose(Held)
    BY <2>1 DEF Ledger!Lose, Ledger!LetGo, Reached
  <2>3. QED
    BY <2>2 DEF Ledger!LedgerNext
<1>2. CASE \/ UNCHANGED vars \/ Stop \/ Restart
           \/ \E m \in Msgs : DedupeExpires(m)
  <2>1. UNCHANGED <<cpc, next, buf, fpc, fl, outcome>>
    BY <1>2 DEF vars, Stop, Restart, DedupeExpires, brokerVars, flushVars
  <2>2. QED
    BY <2>1, ToComeIs, NothingMoves DEF Ledger!ledgerVars, outcome, Reached
<1>3. CASE \E f \in {"tick", "stop"}, a \in Addrs : FlushAll(f, a)
  BY <1>3, FlushAllInv DEF FlushAll, outcome, Reached, Ledger!ledgerVars
<1>4. QED
  BY <1>1, <1>2, <1>3, CallbackLedger, FlushLedger DEF Next

(***************************************************************************)
(* The callbacks, the ticker and stop together implement the ledger of     *)
(* items: the items of a copy are taken on at once, none of them appears   *)
(* from nowhere, and each is let go of as it is reached or lost.           *)
(***************************************************************************)
THEOREM DeliveryImplementsLedger == Spec => ImplementsLedger
<1>1. Init => Ledger!LedgerInit
  BY DeliveryInit DEF Init, Ledger!LedgerInit, Reached
<1>2. QED
  BY <1>1, DeliveryAlways, LedgerStep, PTL DEF Spec, ImplementsLedger, Ledger!LedgerSpec

-----------------------------------------------------------------------------
(* A flush gets nearer to its end with each of its steps.                  *)

Busy == {"check", "send", "store"}

LEMMA EffortIs ==
    ASSUME NEW f \in Flushers, fpc[f] \in Steps
    PROVE  /\ fpc[f] = "check" => Effort(f) = 3 * Len(fl[f].items) + 1
           /\ fpc[f] = "send" => Effort(f) = 3 * Len(fl[f].items) + (fl[f].retry - 1)
           /\ fpc[f] = "store" => Effort(f) = 3 * Len(fl[f].items) + -2
           /\ fpc[f] \in {"idle", "take"} => Effort(f) = 3 * Len(fl[f].items) + 0
BY DEF Effort, Steps

LEMMA EffortIsNext ==
    ASSUME NEW f \in Flushers, fpc'[f] \in Steps
    PROVE  /\ fpc'[f] = "check" => Effort(f)' = 3 * Len(fl'[f].items) + 1
           /\ fpc'[f] = "send" => Effort(f)' = 3 * Len(fl'[f].items) + (fl'[f].retry - 1)
           /\ fpc'[f] = "store" => Effort(f)' = 3 * Len(fl'[f].items) + -2
           /\ fpc'[f] \in {"idle", "take"} => Effort(f)' = 3 * Len(fl'[f].items) + 0
BY DEF Effort, Steps

LEMMA FlushGoesOn ==
    ASSUME DeliveryInv, NEW f \in Flushers, Flush(f), fpc[f] \in Busy
    PROVE  Effort(f)' < Effort(f)
<1> DEFINE s == fl[f].items
<1>1. /\ s \in Seq(Item) /\ s # <<>> /\ fl[f] \in Work /\ fl[f].retry \in 0..1
      /\ Len(s) \in Nat /\ Len(s) > 0 /\ fpc[f] \in Steps
      /\ fpc \in [Flushers -> Steps] /\ fl \in [Flushers -> Work]
  BY WorkIs DEF DeliveryInv, TypeOK, FlushOK, Busy, Steps
<1>2. Len(NoWork.items) = 0
  BY DEF NoWork
<1>3. CASE CheckBreaker(f)
  <2>1. fpc[f] = "check" /\ fpc'[f] \in {"send", "store"}
        /\ fl'[f].items = s /\ fl'[f].retry = fl[f].retry
    BY <1>1, <1>3 DEF CheckBreaker, Work
  <2>2. QED
    BY <1>1, <2>1, EffortIs, EffortIsNext DEF Steps
<1>4. CASE SendFails(f)
  <2>1. /\ fpc[f] = "send" /\ fl'[f].items = s
        /\ \/ fl[f].retry = 1 /\ fl'[f].retry = 0 /\ fpc'[f] = "send"
           \/ fpc'[f] = "store"
    BY <1>1, <1>4 DEF SendFails, Work
  <2>2. QED
    BY <1>1, <2>1, EffortIs, EffortIsNext DEF Steps
<1>5. CASE SendOk(f)
  <2> DEFINE n == ChunkSize(f)
  <2>1. n \in 1..Len(s) /\ n \in Nat
    BY <1>1, ChunkIs
  <2>2. Len(After(f, n)) = Len(s) - n
    BY <1>1, <2>1, RangeSplit DEF After
  <2>3. fpc[f] = "send"
    BY <1>5 DEF SendOk
  <2>4. \/ fpc'[f] = "idle" /\ Len(fl'[f].items) = 0
        \/ /\ fpc'[f] = "send" /\ fl'[f].retry = 1 /\ Len(fl'[f].items) = Len(s) - n
    BY <1>1, <1>2, <1>5, <2>2 DEF SendOk, Idle, Rest
  <2> HIDE DEF n
  <2>5. QED
    BY <1>1, <2>1, <2>3, <2>4, EffortIs, EffortIsNext DEF Steps
<1>6. CASE Store(f)
  <2>1. Len(After(f, 1)) = Len(s) - 1
    BY <1>1, RangeSplit DEF After
  <2>2. fpc[f] = "store"
    BY <1>6 DEF Store
  <2>3. \/ fpc'[f] = "idle" /\ Len(fl'[f].items) = 0
        \/ /\ fpc'[f] \in {"send", "store"} /\ fl'[f].retry = 1
           /\ Len(fl'[f].items) = Len(s) - 1
    BY <1>1, <1>2, <1>6, <2>1 DEF Store, Idle, Rest
  <2>4. QED
    BY <1>1, <2>2, <2>3, EffortIs, EffortIsNext DEF Steps
<1>7. QED
  BY <1>3, <1>4, <1>5, <1>6 DEF Flush, TakeBuffer, Busy

LEMMA FlushEndsStep ==
    DeliveryInv /\ [Next]_vars
        => [\A f \in Flushers :
               fpc[f] \in {"check", "send", "store"} /\ <<fpc[f], fl[f]>>' # <<fpc[f], fl[f]>>
                   => Effort(f)' < Effort(f)]_vars
<1> SUFFICES ASSUME DeliveryInv, Next, NEW f \in Flushers, fpc[f] \in Busy,
                    fpc'[f] # fpc[f] \/ fl'[f] # fl[f]
             PROVE  Effort(f)' < Effort(f)
  BY DEF Busy
<1>1. fpc \in [Flushers -> Steps] /\ fl \in [Flushers -> Work] /\ fpc[f] \in Steps
  BY DEF DeliveryInv, TypeOK, Steps
<1>2. CASE Crash \/ Exit
  <2>1. fpc'[f] = "idle" /\ fl'[f] = NoWork /\ Len(NoWork.items) = 0
    BY <1>2 DEF Crash, Exit, Forget, NoWork
  <2>2. fl[f].items \in Seq(Item) /\ fl[f].items # <<>> /\ fl[f].retry \in 0..1
    BY WorkIs DEF DeliveryInv, FlushOK, Busy
  <2>3. Len(fl[f].items) \in Nat /\ Len(fl[f].items) > 0
    BY <2>2
  <2>4. QED
    BY <1>1, <2>1, <2>2, <2>3, EffortIs, EffortIsNext DEF Busy, Steps
<1>3. CASE \E g \in Flushers : Flush(g)
  <2>1. PICK g \in Flushers : Flush(g)
    BY <1>3
  <2>2. \A h \in Flushers \ {g} : fpc'[h] = fpc[h] /\ fl'[h] = fl[h]
    BY <1>1, <2>1 DEF Flush, TakeBuffer, CheckBreaker, SendOk, SendFails, Store, Idle
  <2>3. QED
    BY <2>1, <2>2, FlushGoesOn
<1>4. CASE \E k \in Copies : Callback(k)
  <2>1. PICK k \in Copies : Callback(k)
    BY <1>4
  <2>2. CASE \E a \in Addrs : EnqueueBuffer(k, a)
    <3>1. fpc[k] = "idle"
      BY <2>2 DEF EnqueueBuffer, MayEnqueue
    <3>2. fpc'[f] = fpc[f] /\ fl'[f] = fl[f]
      BY <1>1, <2>2, <3>1, FlushersAre DEF EnqueueBuffer, flushVars, Busy
    <3>3. QED
      BY <3>2
  <2>3. QED
    BY <2>1, <2>2
    DEF Callback, Deliver, Duplicate, FirstSeen, DedupeFails, ConsumeSuccess, EnqueueOffline,
        flushVars
<1>5. CASE \E g \in {"tick", "stop"}, a \in Addrs : FlushAll(g, a)
  <2>1. PICK g \in {"tick", "stop"}, a \in Addrs : FlushAll(g, a)
    BY <1>5
  <2>2. fpc'[f] = fpc[f] /\ fl'[f] = fl[f]
    BY <1>1, <2>1, FlushersAre DEF FlushAll, Busy
  <2>3. QED
    BY <2>2
<1>6. QED
  BY <1>2, <1>3, <1>4, <1>5 DEF Next, DedupeExpires, Stop, Restart, flushVars

(***************************************************************************)
(* batcher.flush: a flush of n items comes to its end in at most 3n+1 of   *)
(* its steps, whatever the breaker, the comet and Redis answer.            *)
(***************************************************************************)
THEOREM DeliveryFlushEnds == Spec => FlushEnds
BY DeliveryAlways, FlushEndsStep, PTL DEF Spec, FlushEnds
=============================================================================
