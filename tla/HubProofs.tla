------------------------------ MODULE HubProofs ------------------------------
(***************************************************************************)
(* Proofs about Hub, for any users, connections, requests and capacity.    *)
(***************************************************************************)
EXTENDS Hub, FiniteSetTheorems, TLAPS

(* What NoZombie rests on: an entry of the hub is a connection of its uid  *)
(* whose handler has passed Set, and a write loop runs only after that.    *)
Registered ==
    /\ conns \in [Uids -> Conns \union {NoConn}]
    /\ owner \in [Conns -> Uids]
    /\ DOMAIN hpc = Conns /\ DOMAIN wpc = Conns
    /\ \A c \in Conns : hpc[c] \in {"off", "set", "len", "gauge", "route"} => wpc[c] = "off"
    /\ \A u \in Uids : conns[u] # NoConn =>
          /\ owner[conns[u]] = u
          /\ hpc[conns[u]] \notin {"off", "set"}
          /\ wpc[conns[u]] \notin {"len", "gauge", "gone"}

LEMMA RegisteredInit == Init => Registered
BY DEF Init, Registered

(* Steps that move neither the hub nor a handler nor a write loop.         *)
LEMMA RegisteredAlone ==
    ASSUME Registered, UNCHANGED <<conns, owner, hpc, wpc>>
    PROVE  Registered'
BY DEF Registered

(* A handler past Set that goes on, leaving its write loop alone.          *)
LEMMA RegisteredStep ==
    ASSUME Registered, NEW c \in Conns, NEW from, NEW to, Step(c, from, to),
           \/ from = "off" /\ to = "set"
           \/ from = "len" /\ to = "gauge"
           \/ from = "gauge" /\ to = "route"
           \/ from = "hello" /\ to = "up",
           UNCHANGED <<conns, owner, wpc>>
    PROVE  Registered'
BY DEF Registered, Step

(* A write loop that goes on, leaving the hub alone.                       *)
LEMMA RegisteredLoop ==
    ASSUME Registered, NEW c \in Conns, NEW from, NEW to, Loop(c, from, to),
           from # "off", to \in {"len", "gauge", "gone"} => from \in {"len", "gauge"},
           UNCHANGED <<conns, owner, hpc>>
    PROVE  Registered'
BY DEF Registered, Loop

LEMMA RegisteredNext ==
    ASSUME Registered, [Next]_vars
    PROVE  Registered'
<1>1. ASSUME NEW c \in Conns, Upgrade(c) PROVE Registered'
  BY <1>1, RegisteredStep DEF Upgrade
<1>2. ASSUME NEW c \in Conns, HubSet(c) PROVE Registered'
  <2>1. /\ hpc[c] = "set" /\ hpc' = [hpc EXCEPT ![c] = "len"]
        /\ conns' = [conns EXCEPT ![owner[c]] = c] /\ UNCHANGED <<owner, wpc>>
    BY <1>2 DEF HubSet, Step
  <2>2. owner[c] \in Uids /\ wpc[c] = "off"
    BY <2>1 DEF Registered
  <2>3. \A u \in Uids : conns'[u] # NoConn =>
            (u = owner[c] /\ conns'[u] = c) \/ (u # owner[c] /\ conns'[u] = conns[u] /\ conns[u] # c)
    BY <2>1, <2>2 DEF Registered
  <2>4. QED
    BY <2>1, <2>2, <2>3 DEF Registered
<1>3. ASSUME NEW c \in Conns, HandlerLen(c) \/ HandlerGauge(c) PROVE Registered'
  BY <1>3, RegisteredStep DEF HandlerLen, HandlerGauge, ReadLen, SetGauge
<1>4. ASSUME NEW c \in Conns, Start(c) PROVE Registered'
  BY <1>4 DEF Start, Step, Registered
<1>5. ASSUME NEW c \in Conns, Hello(c) PROVE Registered'
  BY <1>5, RegisteredStep DEF Hello
<1>6. ASSUME NEW c \in Conns, Take(c) \/ Written(c) \/ WriteFails(c) PROVE Registered'
  <2>1. CASE Take(c)
    BY <2>1, RegisteredLoop DEF Take
  <2>2. CASE Written(c)
    BY <2>2, RegisteredLoop DEF Written
  <2>3. CASE WriteFails(c)
    BY <2>3, RegisteredLoop DEF WriteFails
  <2>4. QED
    BY <1>6, <2>1, <2>2, <2>3
<1>7. ASSUME NEW c \in Conns, HubDel(c) PROVE Registered'
  <2>1. /\ wpc[c] = "del" /\ wpc' = [wpc EXCEPT ![c] = "len"]
        /\ conns' = [conns EXCEPT ![owner[c]] = NoConn] /\ UNCHANGED <<owner, hpc>>
    BY <1>7 DEF HubDel, Loop
  <2>2. \A u \in Uids : conns'[u] # NoConn => conns'[u] = conns[u] /\ conns[u] # c
    BY <2>1 DEF Registered
  <2>3. QED
    BY <2>1, <2>2 DEF Registered
<1>8. ASSUME NEW c \in Conns, LoopLen(c) \/ LoopGauge(c) PROVE Registered'
  <2>1. CASE LoopLen(c)
    BY <2>1, RegisteredLoop DEF LoopLen, ReadLen
  <2>2. CASE LoopGauge(c)
    BY <2>2, RegisteredLoop DEF LoopGauge, SetGauge
  <2>3. QED
    BY <1>8, <2>1, <2>2
<1>9. ASSUME NEW u \in Uids, RouteExpires(u) PROVE Registered'
  BY <1>9, RegisteredAlone DEF RouteExpires, connVars
<1>10. ASSUME NEW r \in Requests, PushStep(r) PROVE Registered'
  BY <1>10, RegisteredAlone
     DEF PushStep, Arrive, Found, Offline, Put, PutItem, Backpressure, connVars
<1>11. CASE UNCHANGED vars
  BY <1>11, RegisteredAlone DEF vars, connVars
<1>12. QED
  BY <1>1, <1>2, <1>3, <1>4, <1>5, <1>6, <1>7, <1>8, <1>9, <1>10, <1>11
     DEF Next, Handler, WriteLoop

(* Del and Get: once the onClose of a connection's write loop has called   *)
(* Del, no push finds the connection.  Between the end of the loop and Del *)
(* one may.                                                                *)
THEOREM HubHasNoZombie == Spec => []NoZombie
<1>1. Registered => NoZombie
  BY DEF Registered, NoZombie
<1>2. Registered /\ [Next]_vars => Registered'
  BY RegisteredNext
<1>3. QED
  BY <1>1, <1>2, RegisteredInit, PTL DEF Spec
-----------------------------------------------------------------------------
(* What BatchPrefix and TypeOK rest on.                                    *)

(* A request stands at one of its items, or past the last one.             *)
RequestOK(r) ==
    /\ idx[r] \in 1..(Len(Items[r]) + 1)
    /\ rpc[r] \in {"off", "get", "put"} => idx[r] <= Len(Items[r])
    /\ rpc[r] = "204" => idx[r] > Len(Items[r])
    /\ rpc[r] = "put" => target[r] \in Conns /\ owner[target[r]] = Uid(r)

(* What was queued for a client is an item that its request has passed.    *)
QueuedOK(c) ==
    \A k \in DOMAIN queued[c] : queued[c][k][2] < idx[queued[c][k][1]]

(* A write loop has been given what is on Out, and before it what it holds.*)
LoopOK(c) ==
    /\ Len(out[c]) <= Len(queued[c])
    /\ wpc[c] = "write" => Len(out[c]) < Len(queued[c])

BatchInv ==
    /\ TypeOK
    /\ \A r \in Requests : RequestOK(r)
    /\ \A c \in Conns : QueuedOK(c) /\ LoopOK(c)
    /\ BatchPrefix

(* Append adds its element and keeps the others.                           *)
LEMMA HasAppend ==
    ASSUME NEW S, NEW s \in Seq(S), NEW x \in S
    PROVE  /\ Append(s, x) \in Seq(S) /\ Len(Append(s, x)) = Len(s) + 1
           /\ \A y : Has(Append(s, x), y) <=> Has(s, y) \/ y = x
<1>1. /\ DOMAIN Append(s, x) = 1..(Len(s) + 1) /\ DOMAIN s = 1..Len(s) /\ Len(s) \in Nat
      /\ \A k \in 1..Len(s) : Append(s, x)[k] = s[k]
      /\ Append(s, x)[Len(s) + 1] = x
  OBVIOUS
<1>2. ASSUME NEW y, Has(Append(s, x), y) PROVE Has(s, y) \/ y = x
  <2>1. PICK k \in 1..(Len(s) + 1) : Append(s, x)[k] = y
    BY <1>1, <1>2 DEF Has
  <2>2. k \in 1..Len(s) \/ k = Len(s) + 1
    BY <1>1
  <2>3. QED
    BY <1>1, <2>1, <2>2 DEF Has
<1>3. ASSUME NEW y, Has(s, y) PROVE Has(Append(s, x), y)
  <2>1. PICK k \in 1..Len(s) : s[k] = y
    BY <1>1, <1>3 DEF Has
  <2>2. k \in 1..(Len(s) + 1)
    BY <1>1
  <2>3. QED
    BY <1>1, <2>1, <2>2 DEF Has
<1>4. Has(Append(s, x), x)
  <2>1. Len(s) + 1 \in 1..(Len(s) + 1)
    BY <1>1
  <2>2. QED
    BY <1>1, <2>1 DEF Has
<1>5. QED
  BY <1>2, <1>3, <1>4

LEMMA ItemsAre ==
    ASSUME NEW r \in Requests
    PROVE  /\ Items[r] \in Seq(Uids) /\ Len(Items[r]) \in Nat /\ Len(Items[r]) >= 1
           /\ \A i \in 1..Len(Items[r]) : Items[r][i] \in Uids
<1>1. Items[r] \in Seq(Uids) /\ Items[r] # <<>>
  BY HubAssumption DEF HubAssumption
<1>2. QED
  BY <1>1

LEMMA BatchInit == Init => BatchInv
<1> SUFFICES ASSUME Init PROVE BatchInv
  OBVIOUS
<1>1. TypeOK
  <2>1. Cap \in Nat
    BY HubAssumption DEF HubAssumption
  <2>2. \A c \in Conns : out[c] = <<>> /\ Len(out[c]) <= Cap
    BY <2>1 DEF Init
  <2>3. QED
    BY <2>2 DEF Init, TypeOK, Answers
<1>2. \A r \in Requests : RequestOK(r)
  BY ItemsAre DEF Init, RequestOK
<1>3. \A c \in Conns : QueuedOK(c) /\ LoopOK(c)
  BY DEF Init, QueuedOK, LoopOK
<1>4. \A c \in Conns : \A x : ~Has(queued[c], x)
  BY DEF Init, Has
<1>5. BatchPrefix
  BY <1>4, ItemsAre DEF Init, BatchPrefix
<1>6. QED
  BY <1>1, <1>2, <1>3, <1>5 DEF BatchInv

(* A step that neither queues nor takes an item on keeps the invariant.    *)
LEMMA NothingQueued ==
    ASSUME BatchInv, TypeOK', UNCHANGED <<idx, queued, owner>>,
           \A c \in Conns : LoopOK(c)',
           \A r \in Requests :
               \/ rpc'[r] = rpc[r] /\ target'[r] = target[r]
               \/ rpc[r] = "off" /\ rpc'[r] = "get"
               \/ rpc[r] = "get" /\ rpc'[r] = "put" /\ target'[r] \in Conns
                  /\ owner[target'[r]] = Uid(r)
               \/ rpc'[r] \in {"404", "429"}
    PROVE  BatchInv'
<1>1. \A r \in Requests : RequestOK(r)'
  BY DEF BatchInv, RequestOK, Uid
<1>2. \A c \in Conns : QueuedOK(c)'
  BY DEF BatchInv, QueuedOK
<1>3. BatchPrefix'
  BY DEF BatchInv, BatchPrefix, RequestOK, Has
<1>4. QED
  BY <1>1, <1>2, <1>3 DEF BatchInv

(* The number of connected users, as Len returns it.                       *)
LEMMA OnlineIsFinite == Cardinality(Online) \in Nat
<1>1. Online \subseteq Uids /\ IsFiniteSet(Uids)
  BY HubAssumption DEF HubAssumption, Online
<1>2. QED
  BY <1>1, FS_Subset, FS_CardinalityType

(* The steps of a handler.                                                 *)
LEMMA HandlerKeeps ==
    ASSUME BatchInv, NEW c \in Conns, Upgrade(c) \/ Handler(c)
    PROVE  BatchInv'
<1> USE DEF TypeOK, BatchInv
<1>1. CASE Upgrade(c)
  <2>1. TypeOK'
    BY <1>1 DEF Upgrade, Step, requestVars
  <2>2. \A k \in Conns : LoopOK(k)'
    BY <1>1 DEF Upgrade, LoopOK
  <2>3. QED
    BY <1>1, <2>1, <2>2, NothingQueued DEF Upgrade, requestVars
<1>2. CASE HubSet(c)
  <2>1. TypeOK'
    BY <1>2 DEF HubSet, Step, requestVars
  <2>2. \A k \in Conns : LoopOK(k)'
    BY <1>2 DEF HubSet, LoopOK
  <2>3. QED
    BY <1>2, <2>1, <2>2, NothingQueued DEF HubSet, requestVars
<1>3. CASE HandlerLen(c)
  <2>1. TypeOK'
    BY <1>3, OnlineIsFinite DEF HandlerLen, ReadLen, Step, requestVars
  <2>2. \A k \in Conns : LoopOK(k)'
    BY <1>3 DEF HandlerLen, ReadLen, LoopOK
  <2>3. QED
    BY <1>3, <2>1, <2>2, NothingQueued DEF HandlerLen, ReadLen, requestVars
<1>4. CASE HandlerGauge(c)
  <2>1. TypeOK'
    BY <1>4 DEF HandlerGauge, SetGauge, Step, requestVars
  <2>2. \A k \in Conns : LoopOK(k)'
    BY <1>4 DEF HandlerGauge, SetGauge, LoopOK
  <2>3. QED
    BY <1>4, <2>1, <2>2, NothingQueued DEF HandlerGauge, SetGauge, requestVars
<1>5. CASE Start(c)
  <2>1. TypeOK'
    BY <1>5 DEF Start, Step, requestVars
  <2>2. \A k \in Conns : LoopOK(k)'
    BY <1>5 DEF Start, LoopOK
  <2>3. QED
    BY <1>5, <2>1, <2>2, NothingQueued DEF Start, requestVars
<1>6. CASE Hello(c)
  <2>1. TypeOK'
    BY <1>6 DEF Hello, Step, requestVars
  <2>2. \A k \in Conns : LoopOK(k)'
    BY <1>6 DEF Hello, LoopOK
  <2>3. QED
    BY <1>6, <2>1, <2>2, NothingQueued DEF Hello, requestVars
<1>7. QED
  BY <1>1, <1>2, <1>3, <1>4, <1>5, <1>6 DEF Handler

(* The steps of a write loop.                                              *)
LEMMA WriteLoopKeeps ==
    ASSUME BatchInv, NEW c \in Conns, WriteLoop(c)
    PROVE  BatchInv'
<1> USE DEF TypeOK, BatchInv
<1>1. CASE Take(c)
  <2>1. /\ out[c] \in Seq(Item) /\ out[c] # <<>> /\ wpc[c] = "wait"
        /\ out' = [out EXCEPT ![c] = Tail(out[c])] /\ wpc' = [wpc EXCEPT ![c] = "write"]
        /\ UNCHANGED queued
    BY <1>1 DEF Take, Loop
  <2>2. Tail(out[c]) \in Seq(Item) /\ Len(Tail(out[c])) = Len(out[c]) - 1
    BY <2>1
  <2>3. Cap \in Nat /\ Len(out[c]) \in Nat /\ Len(queued[c]) \in Nat
    BY <2>1, HubAssumption DEF HubAssumption
  <2>4. TypeOK'
    BY <1>1, <2>1, <2>2, <2>3 DEF Take, Loop, requestVars
  <2>5. \A k \in Conns : LoopOK(k)'
    BY <2>1, <2>2, <2>3 DEF LoopOK
  <2>6. QED
    BY <1>1, <2>4, <2>5, NothingQueued DEF Take, requestVars
<1>2. CASE Written(c)
  <2>1. /\ wpc[c] = "write" /\ wpc' = [wpc EXCEPT ![c] = "wait"]
        /\ written' = [written EXCEPT ![c] = Append(written[c], InHand(c))]
        /\ UNCHANGED <<out, queued>>
    BY <1>2 DEF Written, Loop
  <2>2. queued[c] \in Seq(Item) /\ Len(out[c]) \in Nat /\ Len(out[c]) < Len(queued[c])
    BY <2>1 DEF LoopOK
  <2>3. InHand(c) \in Item
    BY <2>2 DEF InHand
  <2>4. Append(written[c], InHand(c)) \in Seq(Item)
    BY <2>3, HasAppend
  <2>5. TypeOK'
    BY <1>2, <2>1, <2>4 DEF Written, Loop, requestVars
  <2>6. \A k \in Conns : LoopOK(k)'
    BY <2>1 DEF LoopOK
  <2>7. QED
    BY <1>2, <2>5, <2>6, NothingQueued DEF Written, requestVars
<1>3. CASE WriteFails(c)
  <2>1. TypeOK'
    BY <1>3 DEF WriteFails, Loop, requestVars
  <2>2. \A k \in Conns : LoopOK(k)'
    BY <1>3 DEF WriteFails, Loop, LoopOK
  <2>3. QED
    BY <1>3, <2>1, <2>2, NothingQueued DEF WriteFails, requestVars
<1>4. CASE HubDel(c)
  <2>1. TypeOK'
    BY <1>4 DEF HubDel, Loop, requestVars
  <2>2. \A k \in Conns : LoopOK(k)'
    BY <1>4 DEF HubDel, Loop, LoopOK
  <2>3. QED
    BY <1>4, <2>1, <2>2, NothingQueued DEF HubDel, requestVars
<1>5. CASE LoopLen(c)
  <2>1. TypeOK'
    BY <1>5, OnlineIsFinite DEF LoopLen, ReadLen, Loop, requestVars
  <2>2. \A k \in Conns : LoopOK(k)'
    BY <1>5 DEF LoopLen, ReadLen, Loop, LoopOK
  <2>3. QED
    BY <1>5, <2>1, <2>2, NothingQueued DEF LoopLen, ReadLen, requestVars
<1>6. CASE LoopGauge(c)
  <2>1. TypeOK'
    BY <1>6 DEF LoopGauge, SetGauge, Loop, requestVars
  <2>2. \A k \in Conns : LoopOK(k)'
    BY <1>6 DEF LoopGauge, SetGauge, Loop, LoopOK
  <2>3. QED
    BY <1>6, <2>1, <2>2, NothingQueued DEF LoopGauge, SetGauge, requestVars
<1>7. QED
  BY <1>1, <1>2, <1>3, <1>4, <1>5, <1>6 DEF WriteLoop
(* The steps of a request that queue nothing.                              *)
LEMMA RequestKeeps ==
    ASSUME BatchInv, Registered, NEW r \in Requests,
           Arrive(r) \/ Found(r) \/ Offline(r) \/ Backpressure(r)
    PROVE  BatchInv'
<1> USE DEF TypeOK, BatchInv, connVars
<1>1. CASE Arrive(r)
  <2>1. TypeOK'
    BY <1>1 DEF Arrive, Answers
  <2>2. \A k \in Conns : LoopOK(k)'
    BY <1>1 DEF Arrive, LoopOK
  <2>3. QED
    BY <1>1, <2>1, <2>2, NothingQueued DEF Arrive
<1>2. CASE Found(r)
  <2>1. /\ rpc[r] = "get" /\ rpc' = [rpc EXCEPT ![r] = "put"] /\ conns[Uid(r)] # NoConn
        /\ target' = [target EXCEPT ![r] = conns[Uid(r)]]
    BY <1>2 DEF Found
  <2>2. Uid(r) \in Uids
    BY <2>1, ItemsAre DEF Uid, RequestOK
  <2>3. conns[Uid(r)] \in Conns /\ owner[conns[Uid(r)]] = Uid(r)
    BY <2>1, <2>2 DEF Registered
  <2>4. TypeOK'
    BY <1>2, <2>1, <2>3 DEF Found, Answers
  <2>5. \A k \in Conns : LoopOK(k)'
    BY <1>2 DEF Found, LoopOK
  <2>6. QED
    BY <1>2, <2>1, <2>3, <2>4, <2>5, NothingQueued DEF Found
<1>3. CASE Offline(r)
  <2>1. TypeOK'
    BY <1>3 DEF Offline, AnswerWith, Answers
  <2>2. \A k \in Conns : LoopOK(k)'
    BY <1>3 DEF Offline, LoopOK
  <2>3. QED
    BY <1>3, <2>1, <2>2, NothingQueued DEF Offline, AnswerWith
<1>4. CASE Backpressure(r)
  <2>1. TypeOK'
    BY <1>4 DEF Backpressure, AnswerWith, Answers
  <2>2. \A k \in Conns : LoopOK(k)'
    BY <1>4 DEF Backpressure, LoopOK
  <2>3. QED
    BY <1>4, <2>1, <2>2, NothingQueued DEF Backpressure, AnswerWith
<1>5. QED
  BY <1>1, <1>2, <1>3, <1>4

(* TrySend puts the item on the queue of a connection of its uid, and the  *)
(* request goes on to the next one.                                        *)
LEMMA PutKeeps ==
    ASSUME BatchInv, NEW r \in Requests, Put(r)
    PROVE  BatchInv'
<1> DEFINE c == target[r]
           x == <<r, idx[r]>>
<1>1. /\ rpc[r] = "put" /\ Len(out[c]) < Cap
      /\ out' = [out EXCEPT ![c] = Append(out[c], x)]
      /\ queued' = [queued EXCEPT ![c] = Append(queued[c], x)]
      /\ idx' = [idx EXCEPT ![r] = idx[r] + 1]
      /\ rpc' = [rpc EXCEPT ![r] = IF idx[r] = Len(Items[r]) THEN "204" ELSE "get"]
      /\ target' = [target EXCEPT ![r] = NoConn]
      /\ UNCHANGED <<conns, route, gauge, owner, hpc, wpc, len, written>>
  BY DEF Put, PutItem, NextItem, AnswerWith
<1>2. /\ TypeOK /\ BatchPrefix /\ \A q \in Requests : RequestOK(q)
      /\ \A k \in Conns : QueuedOK(k) /\ LoopOK(k)
  BY DEF BatchInv
<1>3. /\ c \in Conns /\ owner[c] = Items[r][idx[r]]
      /\ idx[r] \in 1..Len(Items[r]) /\ Len(Items[r]) \in Nat
  BY <1>1, <1>2, ItemsAre DEF RequestOK, Uid
<1>4. out[c] \in Seq(Item) /\ queued[c] \in Seq(Item) /\ x \in Item /\ Cap \in Nat
  BY <1>2, <1>3, HubAssumption DEF TypeOK, Item, HubAssumption
<1>5. /\ Append(out[c], x) \in Seq(Item) /\ Len(Append(out[c], x)) = Len(out[c]) + 1
      /\ Append(queued[c], x) \in Seq(Item)
      /\ Len(Append(queued[c], x)) = Len(queued[c]) + 1
      /\ \A y : Has(Append(queued[c], x), y) <=> Has(queued[c], y) \/ y = x
  BY <1>4, HasAppend
<1>6. Len(out[c]) \in Nat /\ Len(queued[c]) \in Nat
  BY <1>4
<1> HIDE DEF x, c
<1>7. TypeOK'
  <2>1. /\ out' \in [Conns -> Seq(Item)] /\ queued' \in [Conns -> Seq(Item)]
    BY <1>1, <1>2, <1>5 DEF TypeOK
  <2>2. \A k \in Conns : Len(out'[k]) <= Cap
    BY <1>1, <1>2, <1>4, <1>5, <1>6 DEF TypeOK
  <2>3. /\ idx' \in [Requests -> Nat] /\ target' \in [Requests -> Conns \union {NoConn}]
        /\ rpc' \in [Requests -> {"off", "get", "put"} \union Answers]
    BY <1>1, <1>2, <1>3 DEF TypeOK, Answers
  <2>4. QED
    BY <1>1, <1>2, <2>1, <2>2, <2>3 DEF TypeOK
<1>8. ASSUME NEW q \in Requests PROVE RequestOK(q)'
  <2>1. CASE q = r
    <3>1. /\ idx'[q] = idx[q] + 1
          /\ rpc'[q] = IF idx[q] = Len(Items[q]) THEN "204" ELSE "get"
      BY <1>1, <1>2, <2>1 DEF TypeOK
    <3>2. idx[q] \in 1..Len(Items[q]) /\ Len(Items[q]) \in Nat
      BY <1>3, <2>1
    <3>3. QED
      BY <3>1, <3>2 DEF RequestOK
  <2>2. CASE q # r
    <3>1. idx'[q] = idx[q] /\ rpc'[q] = rpc[q] /\ target'[q] = target[q] /\ owner' = owner
      BY <1>1, <1>2, <2>2 DEF TypeOK
    <3>2. QED
      BY <1>2, <3>1 DEF RequestOK, Uid
  <2>3. QED
    BY <2>1, <2>2
<1>9. /\ \A k \in Conns : LoopOK(k)'
  BY <1>1, <1>2, <1>5, <1>6 DEF LoopOK, TypeOK
<1>10. \A q \in Requests : idx[q] \in Nat /\ idx'[q] = IF q = r THEN idx[q] + 1 ELSE idx[q]
  BY <1>1, <1>2 DEF TypeOK
<1>11. \A k \in Conns : \A y : Has(queued'[k], y) <=> Has(queued[k], y) \/ (k = c /\ y = x)
  <2>1. ASSUME NEW k \in Conns PROVE queued'[k] = IF k = c THEN Append(queued[c], x) ELSE queued[k]
    BY <1>1, <1>2 DEF TypeOK
  <2>2. QED
    BY <1>5, <2>1
<1>12. \A k \in Conns : queued[k] \in Seq(Item) /\ queued'[k] \in Seq(Item)
  BY <1>2, <1>7 DEF TypeOK
<1>13. ASSUME NEW k \in Conns PROVE QueuedOK(k)'
  <2>1. ASSUME NEW y \in Item, Has(queued[k], y) PROVE y[2] < idx[y[1]]
    BY <1>2, <2>1 DEF QueuedOK, Has
  <2>2. ASSUME NEW y \in Item, Has(queued'[k], y) PROVE y[2] < idx'[y[1]]
    <3>1. y[1] \in Requests /\ y[2] \in Nat
      BY DEF Item
    <3>2. CASE Has(queued[k], y)
      BY <1>10, <2>1, <3>1, <3>2
    <3>3. CASE y = x
      BY <1>10, <3>3 DEF x
    <3>4. QED
      BY <1>11, <2>2, <3>2, <3>3
  <2>3. ASSUME NEW j \in DOMAIN queued'[k]
        PROVE  queued'[k][j] \in Item /\ Has(queued'[k], queued'[k][j])
    BY <1>12 DEF Has
  <2>4. QED
    BY <2>2, <2>3 DEF QueuedOK
<1>14. BatchPrefix'
  <2>1. ASSUME NEW q \in Requests, NEW i \in 1..Len(Items[q])
        PROVE  i < idx'[q] <=> \E k \in Conns : owner'[k] = Items[q][i] /\ Has(queued'[k], <<q, i>>)
    <3>1. i < idx[q] <=> \E k \in Conns : owner[k] = Items[q][i] /\ Has(queued[k], <<q, i>>)
      BY <1>2 DEF BatchPrefix
    <3>2. i \in Nat
      BY ItemsAre
    <3>3. i < idx'[q] <=> i < idx[q] \/ (q = r /\ i = idx[r])
      BY <1>10, <3>2
    <3>4. <<q, i>> = x <=> q = r /\ i = idx[r]
      BY DEF x
    <3>5. \A k \in Conns : Has(queued'[k], <<q, i>>) <=> Has(queued[k], <<q, i>>) \/ (k = c /\ <<q, i>> = x)
      BY <1>11
    <3>6. owner' = owner
      BY <1>1
    <3>7. CASE <<q, i>> = x
      BY <1>3, <3>1, <3>3, <3>4, <3>5, <3>6, <3>7
    <3>8. CASE <<q, i>> # x
      BY <3>1, <3>3, <3>4, <3>5, <3>6, <3>8
    <3>9. QED
      BY <3>7, <3>8
  <2>2. ASSUME NEW q \in Requests, rpc'[q] = "204" PROVE idx'[q] > Len(Items[q])
    BY <1>8, <2>2 DEF RequestOK
  <2>3. QED
    BY <2>1, <2>2 DEF BatchPrefix
<1>15. QED
  BY <1>7, <1>8, <1>9, <1>13, <1>14 DEF BatchInv

LEMMA BatchAlone ==
    ASSUME BatchInv, UNCHANGED <<conns, gauge, connVars, requestVars>>, route' \subseteq Uids
    PROVE  BatchInv'
<1>1. TypeOK'
  BY DEF BatchInv, TypeOK, connVars, requestVars
<1>2. \A k \in Conns : LoopOK(k)'
  BY DEF BatchInv, LoopOK, connVars
<1>3. QED
  BY <1>1, <1>2, NothingQueued DEF connVars, requestVars

LEMMA BatchNext ==
    ASSUME BatchInv, Registered, [Next]_vars
    PROVE  BatchInv'
<1>1. ASSUME NEW c \in Conns, Upgrade(c) \/ Handler(c) PROVE BatchInv'
  BY <1>1, HandlerKeeps
<1>2. ASSUME NEW c \in Conns, WriteLoop(c) PROVE BatchInv'
  BY <1>2, WriteLoopKeeps
<1>3. ASSUME NEW u \in Uids, RouteExpires(u) PROVE BatchInv'
  BY <1>3, BatchAlone DEF RouteExpires, BatchInv, TypeOK
<1>4. ASSUME NEW r \in Requests, PushStep(r) PROVE BatchInv'
  BY <1>4, RequestKeeps, PutKeeps DEF PushStep
<1>5. CASE UNCHANGED vars
  BY <1>5, BatchAlone DEF vars, BatchInv, TypeOK
<1>6. QED
  BY <1>1, <1>2, <1>3, <1>4, <1>5 DEF Next

(* Both invariants hold always: each step of BatchInv uses Registered.     *)
LEMMA BatchAlways == Spec => []BatchInv
<1>1. Init => Registered /\ BatchInv
  BY RegisteredInit, BatchInit
<1>2. Registered /\ BatchInv /\ [Next]_vars => Registered' /\ BatchInv'
  BY RegisteredNext, BatchNext
<1>3. QED
  BY <1>1, <1>2, PTL DEF Spec

(* The hub's state has its type: above all, no queue holds more than Cap.  *)
THEOREM HubTypeCorrect == Spec => []TypeOK
<1>1. BatchInv => TypeOK
  BY DEF BatchInv
<1>2. QED
  BY <1>1, BatchAlways, PTL

(* The answer to a batch tells what was queued, and for whom.              *)
THEOREM AnswersTellThePrefix == Spec => []BatchPrefix
<1>1. BatchInv => BatchPrefix
  BY DEF BatchInv
<1>2. QED
  BY <1>1, BatchAlways, PTL
-----------------------------------------------------------------------------
(* WrittenInOrder.                                                         *)

OrderInv == WrittenInOrder /\ NothingLeftOut

(* WrittenInOrder and NothingLeftOut, for the sequences of one connection. *)
OrderOf(w, o, q, pc) ==
    /\ Len(w) + Len(o) <= Len(q)
    /\ \A i \in 1..Len(w) : w[i] = q[i]
    /\ \A i \in 1..Len(o) : o[i] = q[Len(q) - Len(o) + i]
    /\ \A i, j \in 1..Len(q) : i < j /\ q[i][1] = q[j][1] => q[i][2] < q[j][2]
    /\ pc \in {"off", "wait"} => Len(q) = Len(w) + Len(o)
    /\ pc = "write" => Len(q) = Len(w) + 1 + Len(o)

(* No two connections have been given the same item.                       *)
GivenOnce ==
    \A c, d \in Conns : d # c => \A i \in 1..Len(queued[c]) : ~Has(queued[d], queued[c][i])

LEMMA OrderIs ==
    OrderInv <=> /\ GivenOnce
                 /\ \A c \in Conns : OrderOf(written[c], out[c], queued[c], wpc[c])
BY DEF OrderInv, WrittenInOrder, NothingLeftOut, GivenOnce, OrderOf

LEMMA OrderIsNext ==
    OrderInv' <=> /\ GivenOnce'
                  /\ \A c \in Conns : OrderOf(written'[c], out'[c], queued'[c], wpc'[c])
BY DEF OrderInv, WrittenInOrder, NothingLeftOut, GivenOnce, OrderOf

LEMMA OrderInit == Init => OrderInv
<1> SUFFICES ASSUME Init PROVE OrderInv
  OBVIOUS
<1>1. \A c \in Conns : queued[c] = <<>> /\ written[c] = <<>> /\ out[c] = <<>> /\ wpc[c] = "off"
  BY DEF Init
<1>2. Len(<<>>) = 0 /\ 1..0 = {}
  OBVIOUS
<1>3. \A c \in Conns : OrderOf(written[c], out[c], queued[c], wpc[c])
  <2>1. OrderOf(<<>>, <<>>, <<>>, "off")
    BY <1>2 DEF OrderOf
  <2>2. QED
    BY <1>1, <2>1
<1>4. GivenOnce
  BY <1>1, <1>2 DEF GivenOnce
<1>5. QED
  BY <1>3, <1>4, OrderIs

(* A step that moves no packet, and ends a write loop or starts it.        *)
LEMMA OrderAlone ==
    ASSUME OrderInv, UNCHANGED <<out, written, queued>>,
           \A c \in Conns : \/ wpc'[c] = wpc[c]
                            \/ wpc[c] = "off" /\ wpc'[c] = "wait"
                            \/ wpc'[c] \in {"del", "len", "gauge", "gone"}
    PROVE  OrderInv'
<1>1. GivenOnce'
  BY OrderIs DEF GivenOnce, Has
<1>2. ASSUME NEW c \in Conns PROVE OrderOf(written'[c], out'[c], queued'[c], wpc'[c])
  <2>1. OrderOf(written[c], out[c], queued[c], wpc[c])
    BY OrderIs
  <2>2. QED
    BY <2>1 DEF OrderOf
<1>3. QED
  BY <1>1, <1>2, OrderIsNext

(* Taking a packet from Out, writing it, and queueing one.                 *)
LEMMA OrderTake ==
    ASSUME NEW w \in Seq(Item), NEW o \in Seq(Item), NEW q \in Seq(Item),
           OrderOf(w, o, q, "wait"), o # <<>>
    PROVE  OrderOf(w, Tail(o), q, "write")
<1>1. /\ Len(w) \in Nat /\ Len(o) \in Nat /\ Len(q) \in Nat /\ Len(Tail(o)) = Len(o) - 1
      /\ \A i \in 1..Len(Tail(o)) : Tail(o)[i] = o[i + 1]
  OBVIOUS
<1> DEFINE t == Tail(o)
<1> HIDE DEF t
<1>2. Len(t) = Len(o) - 1 /\ \A i \in 1..Len(t) : t[i] = o[i + 1]
  BY <1>1 DEF t
<1>3. ASSUME NEW i \in 1..Len(t) PROVE t[i] = q[Len(q) - Len(t) + i]
  <2>1. i + 1 \in 1..Len(o) /\ Len(q) - Len(o) + (i + 1) = Len(q) - Len(t) + i
    BY <1>1, <1>2
  <2>2. o[i + 1] = q[Len(q) - Len(o) + (i + 1)]
    BY <2>1 DEF OrderOf
  <2>3. QED
    BY <1>2, <2>1, <2>2
<1>4. OrderOf(w, t, q, "write")
  BY <1>1, <1>2, <1>3 DEF OrderOf
<1>5. QED
  BY <1>4 DEF t

LEMMA OrderWrite ==
    ASSUME NEW w \in Seq(Item), NEW o \in Seq(Item), NEW q \in Seq(Item),
           OrderOf(w, o, q, "write")
    PROVE  OrderOf(Append(w, q[Len(q) - Len(o)]), o, q, "wait")
<1> DEFINE v == Append(w, q[Len(q) - Len(o)])
<1>1. /\ Len(w) \in Nat /\ Len(o) \in Nat /\ Len(q) \in Nat /\ Len(v) = Len(w) + 1
      /\ v[Len(w) + 1] = q[Len(q) - Len(o)]
      /\ \A i \in 1..Len(w) : v[i] = w[i]
  OBVIOUS
<1> HIDE DEF v
<1>2. Len(q) = Len(w) + 1 + Len(o)
  BY DEF OrderOf
<1>3. ASSUME NEW i \in 1..Len(v) PROVE v[i] = q[i]
  <2>1. i \in 1..Len(w) \/ (i = Len(w) + 1 /\ Len(q) - Len(o) = i)
    BY <1>1, <1>2
  <2>2. QED
    BY <1>1, <2>1 DEF OrderOf
<1>4. OrderOf(v, o, q, "wait")
  BY <1>1, <1>2, <1>3 DEF OrderOf
<1>5. QED
  BY <1>4 DEF v

LEMMA OrderPut ==
    ASSUME NEW w \in Seq(Item), NEW o \in Seq(Item), NEW q \in Seq(Item), NEW pc, NEW x \in Item,
           OrderOf(w, o, q, pc),
           \A i \in 1..Len(q) : q[i][1] = x[1] => q[i][2] < x[2]
    PROVE  OrderOf(w, Append(o, x), Append(q, x), pc)
<1> DEFINE p == Append(o, x)
           r == Append(q, x)
<1>1. /\ Len(w) \in Nat /\ Len(o) \in Nat /\ Len(q) \in Nat
      /\ Len(p) = Len(o) + 1 /\ p[Len(o) + 1] = x /\ \A i \in 1..Len(o) : p[i] = o[i]
      /\ Len(r) = Len(q) + 1 /\ r[Len(q) + 1] = x /\ \A i \in 1..Len(q) : r[i] = q[i]
  OBVIOUS
<1> HIDE DEF p, r
<1>2. Len(w) + Len(o) <= Len(q)
  BY DEF OrderOf
<1>3. ASSUME NEW i \in 1..Len(w) PROVE w[i] = r[i]
  <2>1. i \in 1..Len(q)
    BY <1>1, <1>2
  <2>2. w[i] = q[i]
    BY DEF OrderOf
  <2>3. QED
    BY <1>1, <2>1, <2>2
<1>4. ASSUME NEW i \in 1..Len(p) PROVE p[i] = r[Len(r) - Len(p) + i]
  <2>1. CASE i \in 1..Len(o)
    <3>1. Len(r) - Len(p) + i = Len(q) - Len(o) + i /\ Len(q) - Len(o) + i \in 1..Len(q)
      BY <1>1, <1>2, <2>1
    <3>2. o[i] = q[Len(q) - Len(o) + i]
      BY <2>1 DEF OrderOf
    <3>3. r[Len(q) - Len(o) + i] = q[Len(q) - Len(o) + i] /\ p[i] = o[i]
      BY <1>1, <2>1, <3>1
    <3>4. QED
      BY <3>1, <3>2, <3>3
  <2>2. CASE i = Len(o) + 1
    <3>1. Len(r) - Len(p) + i = Len(q) + 1
      BY <1>1, <2>2
    <3>2. QED
      BY <1>1, <2>2, <3>1
  <2>3. QED
    BY <1>1, <2>1, <2>2
<1>5. ASSUME NEW i \in 1..Len(r), NEW j \in 1..Len(r), i < j, r[i][1] = r[j][1]
      PROVE  r[i][2] < r[j][2]
  <2>1. i \in 1..Len(q) /\ r[i] = q[i]
    BY <1>1, <1>5
  <2>2. CASE j \in 1..Len(q)
    <3>1. r[j] = q[j]
      BY <1>1, <2>2
    <3>2. QED
      BY <1>5, <2>1, <2>2, <3>1 DEF OrderOf
  <2>3. CASE j = Len(q) + 1
    <3>1. r[j] = x
      BY <1>1, <2>3
    <3>2. QED
      BY <1>5, <2>1, <3>1
  <2>4. QED
    BY <1>1, <2>2, <2>3
<1>6. OrderOf(w, p, r, pc)
  <2>1. /\ Len(w) + Len(p) <= Len(r)
        /\ pc \in {"off", "wait"} => Len(r) = Len(w) + Len(p)
        /\ pc = "write" => Len(r) = Len(w) + 1 + Len(p)
    BY <1>1, <1>2 DEF OrderOf
  <2>2. QED
    BY <1>3, <1>4, <1>5, <2>1 DEF OrderOf
<1>7. QED
  BY <1>6 DEF p, r

LEMMA WriteLoopOrders ==
    ASSUME TypeOK, OrderInv, NEW c \in Conns, Take(c) \/ Written(c)
    PROVE  OrderInv'
<1>1. /\ UNCHANGED queued /\ wpc' = [wpc EXCEPT ![c] = IF Take(c) THEN "write" ELSE "wait"]
  BY DEF Take, Written, Loop
<1>2. \A k \in Conns : /\ written[k] \in Seq(Item) /\ out[k] \in Seq(Item) /\ queued[k] \in Seq(Item)
                       /\ OrderOf(written[k], out[k], queued[k], wpc[k])
  BY OrderIs DEF TypeOK
<1>3. GivenOnce'
  BY <1>1, OrderIs DEF GivenOnce, Has
<1>4. OrderOf(written'[c], out'[c], queued'[c], wpc'[c])
  <2>1. CASE Take(c)
    <3>1. /\ wpc[c] = "wait" /\ wpc'[c] = "write" /\ out[c] # <<>> /\ out'[c] = Tail(out[c])
          /\ written' = written
      BY <2>1 DEF Take, Loop, TypeOK
    <3>2. QED
      BY <1>1, <1>2, <3>1, OrderTake
  <2>2. CASE Written(c)
    <3>1. /\ wpc[c] = "write" /\ wpc'[c] = "wait" /\ out' = out
          /\ written'[c] = Append(written[c], queued[c][Len(queued[c]) - Len(out[c])])
      BY <2>2 DEF Written, Loop, InHand, TypeOK
    <3>2. QED
      BY <1>1, <1>2, <3>1, OrderWrite
  <2>3. QED
    BY <2>1, <2>2
<1>5. \A k \in Conns : k # c => /\ written'[k] = written[k] /\ out'[k] = out[k]
                               /\ wpc'[k] = wpc[k]
  BY DEF Take, Written, Loop, TypeOK
<1>6. \A k \in Conns : OrderOf(written'[k], out'[k], queued'[k], wpc'[k])
  BY <1>1, <1>2, <1>4, <1>5
<1>7. QED
  BY <1>3, <1>6, OrderIsNext

LEMMA PutOrders ==
    ASSUME BatchInv, OrderInv, NEW r \in Requests, Put(r)
    PROVE  OrderInv'
<1> DEFINE c == target[r]
           x == <<r, idx[r]>>
<1>1. /\ rpc[r] = "put"
      /\ out' = [out EXCEPT ![c] = Append(out[c], x)]
      /\ queued' = [queued EXCEPT ![c] = Append(queued[c], x)]
      /\ UNCHANGED <<wpc, written>>
  BY DEF Put, PutItem
<1>2. c \in Conns /\ x \in Item
  BY <1>1 DEF BatchInv, TypeOK, RequestOK, Item
<1>3. \A k \in Conns : /\ written[k] \in Seq(Item) /\ out[k] \in Seq(Item) /\ queued[k] \in Seq(Item)
                       /\ OrderOf(written[k], out[k], queued[k], wpc[k])
  BY OrderIs DEF BatchInv, TypeOK
<1>4. \A k \in Conns : \A i \in 1..Len(queued[k]) : queued[k][i][1] = r => queued[k][i][2] < idx[r]
  BY <1>3 DEF BatchInv, QueuedOK
<1>5. x[1] = r /\ x[2] = idx[r] /\ idx[r] \in Nat
  BY DEF BatchInv, TypeOK
<1>6. \A k \in Conns : ~Has(queued[k], x)
  BY <1>3, <1>4, <1>5 DEF Has
<1> HIDE DEF c, x
<1>7. OrderOf(written'[c], out'[c], queued'[c], wpc'[c])
  <2>1. /\ out'[c] = Append(out[c], x) /\ queued'[c] = Append(queued[c], x)
        /\ written'[c] = written[c] /\ wpc'[c] = wpc[c]
    BY <1>1, <1>2 DEF BatchInv, TypeOK
  <2>2. OrderOf(written[c], Append(out[c], x), Append(queued[c], x), wpc[c])
    BY <1>2, <1>3, <1>4, <1>5, OrderPut
  <2>3. QED
    BY <2>1, <2>2
<1>8. \A k \in Conns : k # c => out'[k] = out[k] /\ queued'[k] = queued[k]
  BY <1>1 DEF BatchInv, TypeOK
<1>9. \A k \in Conns : OrderOf(written'[k], out'[k], queued'[k], wpc'[k])
  BY <1>1, <1>3, <1>7, <1>8
<1>10. queued'[c] = Append(queued[c], x)
  BY <1>1, <1>2 DEF BatchInv, TypeOK
<1>11. \A y : Has(queued'[c], y) <=> Has(queued[c], y) \/ y = x
  BY <1>2, <1>3, <1>10, HasAppend
<1>12. ASSUME NEW j \in Conns, NEW k \in Conns, k # j, NEW y, Has(queued'[j], y)
       PROVE  ~Has(queued'[k], y)
  <2>1. \A y1 : Has(queued[j], y1) => ~Has(queued[k], y1)
    <3>1. \A i \in 1..Len(queued[j]) : ~Has(queued[k], queued[j][i])
      BY <1>12, OrderIs DEF GivenOnce
    <3>2. DOMAIN queued[j] = 1..Len(queued[j])
      BY <1>3
    <3>3. QED
      BY <3>1, <3>2 DEF Has
  <2>2. CASE j = c
    BY <1>6, <1>8, <1>11, <1>12, <2>1, <2>2
  <2>3. CASE k = c
    BY <1>6, <1>8, <1>11, <1>12, <2>1, <2>3
  <2>4. CASE j # c /\ k # c
    BY <1>8, <1>12, <2>1, <2>4
  <2>5. QED
    BY <2>2, <2>3, <2>4
<1>13. GivenOnce'
  <2>1. ASSUME NEW j \in Conns, NEW k \in Conns, k # j, NEW i \in 1..Len(queued'[j])
        PROVE  ~Has(queued'[k], queued'[j][i])
    <3>1. queued'[j] \in Seq(Item)
      BY PutKeeps DEF BatchInv, TypeOK
    <3>2. Has(queued'[j], queued'[j][i])
      BY <3>1 DEF Has
    <3>3. QED
      BY <1>12, <2>1, <3>2
  <2>2. QED
    BY <2>1 DEF GivenOnce, Has
<1>14. QED
  BY <1>9, <1>13, OrderIsNext

LEMMA OrderNext ==
    ASSUME Registered, BatchInv, OrderInv, [Next]_vars
    PROVE  OrderInv'
<1> USE DEF BatchInv
<1>1. ASSUME NEW c \in Conns, Upgrade(c) \/ Handler(c) PROVE OrderInv'
  <2>1. UNCHANGED <<out, written, queued>>
    BY <1>1 DEF Upgrade, Handler, HubSet, HandlerLen, HandlerGauge, ReadLen, SetGauge, Start, Hello
  <2>2. CASE Start(c)
    <3>1. /\ hpc[c] = "route" /\ wpc' = [wpc EXCEPT ![c] = "wait"]
      BY <2>2 DEF Start, Step
    <3>2. wpc[c] = "off"
      BY <3>1 DEF Registered
    <3>3. \A k \in Conns : wpc'[k] = wpc[k] \/ (wpc[k] = "off" /\ wpc'[k] = "wait")
      BY <3>1, <3>2 DEF TypeOK
    <3>4. QED
      BY <2>1, <3>3, OrderAlone
  <2>3. CASE ~Start(c)
    <3>1. UNCHANGED wpc
      BY <1>1, <2>3 DEF Upgrade, Handler, HubSet, HandlerLen, HandlerGauge, Hello
    <3>2. QED
      BY <2>1, <3>1, OrderAlone
  <2>4. QED
    BY <2>2, <2>3
<1>2. ASSUME NEW c \in Conns, Take(c) \/ Written(c) PROVE OrderInv'
  BY <1>2, WriteLoopOrders
<1>3. ASSUME NEW c \in Conns, WriteFails(c) \/ HubDel(c) \/ LoopLen(c) \/ LoopGauge(c)
      PROVE  OrderInv'
  <2>1. /\ UNCHANGED <<out, written, queued>>
        /\ \A k \in Conns : wpc'[k] = wpc[k] \/ wpc'[k] \in {"del", "len", "gauge", "gone"}
    BY <1>3 DEF WriteFails, HubDel, LoopLen, LoopGauge, Loop, ReadLen, SetGauge, TypeOK
  <2>2. QED
    BY <2>1, OrderAlone
<1>4. ASSUME NEW u \in Uids, RouteExpires(u) PROVE OrderInv'
  BY <1>4, OrderAlone DEF RouteExpires, connVars
<1>5. ASSUME NEW r \in Requests, Arrive(r) \/ Found(r) \/ Offline(r) \/ Backpressure(r)
      PROVE  OrderInv'
  BY <1>5, OrderAlone DEF Arrive, Found, Offline, Backpressure, connVars
<1>6. ASSUME NEW r \in Requests, Put(r) PROVE OrderInv'
  BY <1>6, PutOrders
<1>7. CASE UNCHANGED vars
  BY <1>7, OrderAlone DEF vars, connVars
<1>8. QED
  BY <1>1, <1>2, <1>3, <1>4, <1>5, <1>6, <1>7 DEF Next, WriteLoop, PushStep

(* A client is sent what was queued for it, in order and without a gap.    *)
THEOREM HubWritesInOrder == Spec => []WrittenInOrder
<1>1. Init => Registered /\ BatchInv /\ OrderInv
  BY RegisteredInit, BatchInit, OrderInit
<1>2. Registered /\ BatchInv /\ OrderInv /\ [Next]_vars => Registered' /\ BatchInv' /\ OrderInv'
  BY RegisteredNext, BatchNext, OrderNext
<1>3. OrderInv => WrittenInOrder
  BY DEF OrderInv
<1>4. QED
  BY <1>1, <1>2, <1>3, PTL DEF Spec
=============================================================================
