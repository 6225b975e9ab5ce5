------------------------------ MODULE Delivery ------------------------------
(***************************************************************************)
(* im-job: the RocketMQ callback (one goroutine for each copy of a message *)
(* that the broker delivers) puts an item for each recipient in a buffer   *)
(* in memory; the ticker, and any callback that fills a buffer, flush it   *)
(* to the comet in chunks, or to the offline queue.  The process may stop  *)
(* or crash and start again; the broker delivers anew what was not         *)
(* acknowledged.  The breaker and the routes are choices: see Breaker.     *)
(***************************************************************************)
EXTENDS Integers, FiniteSets, Sequences, Functions

CONSTANTS Msgs,       \* messages, by msg_id
          Copies,     \* copies of messages the broker has to deliver
          MsgOf,      \* the message of a copy
          ToUIDs,     \* the recipients each event lists
          Users,      \* user_id values
          Addrs, NoAddr,    \* comets; no route, an error, or a breaker open
          MaxBatch,
          RedisFails, \* whether Redis may report errors
          MaxMishaps  \* bound on Redis errors and ends of the process, together

ASSUME DeliveryAssumption ==
    /\ MsgOf \in [Copies -> Msgs]
    /\ ToUIDs \in [Msgs -> Seq(Users)]
    /\ NoAddr \notin Addrs
    /\ MaxBatch \in Nat \ {0}
    /\ RedisFails \in BOOLEAN /\ MaxMishaps \in Nat
    /\ {"tick", "stop"} \intersect Copies = {}

VARIABLES job,             \* the process: "up", "stopping", "down"
          cpc, next,       \* the callback of a copy: its step, its recipient
          dedupe,          \* messages whose key is in Redis
          buf,             \* batcher.buf
          fpc, fl,         \* a goroutine that may flush: its step, its work
          answered,        \* items the comet answered 2xx for
          offline,         \* items that were stored in the offline queue
          lost,            \* items gone with the process's memory, or with a
                           \* failed write (for the properties only)
          mishaps

brokerVars == <<cpc, next, dedupe>>
flushVars == <<fpc, fl>>
outcome == <<answered, offline, lost>>
vars == <<job, brokerVars, buf, flushVars, outcome, mishaps>>

(* The goroutines that run flush: callbacks, the ticker's, and stop.       *)
Flushers == Copies \union {"tick", "stop"}

(* An item is what one callback made for one of the recipients: the copy   *)
(* of the message, and the place of the recipient in its list.             *)
Item == Copies \X Nat

(* The work of a flush: the comet, the items left, the retries left, and   *)
(* how many of the items to store offline before the next chunk.           *)
Work == [addr : Addrs \union {NoAddr}, items : Seq(Item), retry : 0..1, store : Nat]
NoWork == [addr |-> NoAddr, items |-> <<>>, retry |-> 1, store |-> 0]

TypeOK ==
    /\ job \in {"up", "stopping", "down"}
    /\ cpc \in [Copies -> {"ready", "dedupe", "fan", "done"}]
    /\ next \in [Copies -> Nat]
    /\ \A k \in Copies : next[k] \in 1..(Len(ToUIDs[MsgOf[k]]) + 1)
    /\ dedupe \subseteq Msgs
    /\ buf \in [Addrs -> Seq(Item)]
    /\ fpc \in [Flushers -> {"idle", "take", "check", "send", "store"}]
    /\ fl \in [Flushers -> Work]
    /\ answered \subseteq Item /\ offline \subseteq Item /\ lost \subseteq Item
    /\ mishaps \in 0..MaxMishaps

Init ==
    /\ job = "up"
    /\ cpc = [k \in Copies |-> "ready"]
    /\ next = [k \in Copies |-> 1]
    /\ dedupe = {}
    /\ buf = [a \in Addrs |-> <<>>]
    /\ fpc = [f \in Flushers |-> "idle"]
    /\ fl = [f \in Flushers |-> NoWork]
    /\ answered = {} /\ offline = {} /\ lost = {}
    /\ mishaps = 0

Mishap == mishaps < MaxMishaps /\ mishaps' = mishaps + 1
RedisError == RedisFails /\ Mishap

(* EnqueueOffline: an error is ignored.                                    *)
StoreOffline(it) ==
    \/ offline' = offline \union {it} /\ UNCHANGED <<answered, lost, mishaps>>
    \/ lost' = lost \union {it} /\ RedisError /\ UNCHANGED <<answered, offline>>

-----------------------------------------------------------------------------
(* The callback of a copy.                                                 *)

Deliver(k) ==
    /\ job = "up" /\ cpc[k] = "ready"
    /\ cpc' = [cpc EXCEPT ![k] = "dedupe"]
    /\ next' = [next EXCEPT ![k] = 1]
    /\ UNCHANGED <<job, dedupe, buf, flushVars, outcome, mishaps>>

(* The message was seen: acknowledge and drop.                             *)
Duplicate(k) ==
    /\ cpc[k] = "dedupe" /\ MsgOf[k] \in dedupe
    /\ cpc' = [cpc EXCEPT ![k] = "done"]
    /\ UNCHANGED <<job, next, dedupe, buf, flushVars, outcome, mishaps>>

FirstSeen(k) ==
    /\ cpc[k] = "dedupe" /\ MsgOf[k] \notin dedupe
    /\ dedupe' = dedupe \union {MsgOf[k]}
    /\ cpc' = [cpc EXCEPT ![k] = "fan"]
    /\ UNCHANGED <<job, next, buf, flushVars, outcome, mishaps>>

(* SETNX reports an error, whether or not Redis ran it: proceed.           *)
DedupeFails(k) ==
    /\ cpc[k] = "dedupe"
    /\ dedupe' \in {dedupe, dedupe \union {MsgOf[k]}}
    /\ cpc' = [cpc EXCEPT ![k] = "fan"]
    /\ RedisError
    /\ UNCHANGED <<job, next, buf, flushVars, outcome>>

DedupeExpires(m) ==
    /\ m \in dedupe
    /\ dedupe' = dedupe \ {m}
    /\ UNCHANGED <<job, cpc, next, buf, flushVars, outcome, mishaps>>

Recipients(k) == ToUIDs[MsgOf[k]]
ItemAt(k) == <<k, next[k]>>

(* enqueue, for the next recipient; a callback that is flushing waits.     *)
MayEnqueue(k) == cpc[k] = "fan" /\ next[k] <= Len(Recipients(k)) /\ fpc[k] = "idle"

(* No route, or the breaker is open.                                       *)
EnqueueOffline(k) ==
    /\ MayEnqueue(k)
    /\ StoreOffline(ItemAt(k))
    /\ next' = [next EXCEPT ![k] = @ + 1]
    /\ UNCHANGED <<job, cpc, dedupe, buf, flushVars>>

(* A full buffer is flushed by the callback, after the lock is released.   *)
EnqueueBuffer(k, a) ==
    /\ MayEnqueue(k)
    /\ buf' = [buf EXCEPT ![a] = Append(@, ItemAt(k))]
    /\ next' = [next EXCEPT ![k] = @ + 1]
    /\ IF Len(buf[a]) + 1 >= MaxBatch
       THEN /\ fpc' = [fpc EXCEPT ![k] = "take"]
            /\ fl' = [fl EXCEPT ![k].addr = a]
       ELSE UNCHANGED flushVars
    /\ UNCHANGED <<job, cpc, dedupe, outcome, mishaps>>

ConsumeSuccess(k) ==
    /\ cpc[k] = "fan" /\ next[k] > Len(Recipients(k)) /\ fpc[k] = "idle"
    /\ cpc' = [cpc EXCEPT ![k] = "done"]
    /\ UNCHANGED <<job, next, dedupe, buf, flushVars, outcome, mishaps>>

-----------------------------------------------------------------------------
(* flush, by any flusher.                                                  *)

(* Not the code: only full buffers are flushed by the ticker.              *)
FaultOnlyFull(f, a) ==
    /\ job # "down" /\ f \in {"tick", "stop"} /\ fpc[f] = "idle"
    /\ Len(buf[a]) >= MaxBatch
    /\ fpc' = [fpc EXCEPT ![f] = "take"]
    /\ fl' = [fl EXCEPT ![f].addr = a]
    /\ UNCHANGED <<job, brokerVars, buf, outcome, mishaps>>

(* flushAll: a tick (one may still be pending when the ticker is stopped), *)
(* or stop.                                                                *)
FlushAll(f, a) ==
    /\ IF f = "tick" THEN job # "down" ELSE f = "stop" /\ job = "stopping"
    /\ fpc[f] = "idle" /\ buf[a] # <<>>
    /\ fpc' = [fpc EXCEPT ![f] = "take"]
    /\ fl' = [fl EXCEPT ![f].addr = a]
    /\ UNCHANGED <<job, brokerVars, buf, outcome, mishaps>>

Idle(f) == fpc' = [fpc EXCEPT ![f] = "idle"] /\ fl' = [fl EXCEPT ![f] = NoWork]

(* Not the code: the buffer is emptied when its items have been sent.      *)
FaultTakeLate(f) ==
    /\ fpc[f] = "take"
    /\ UNCHANGED buf
    /\ IF buf[fl[f].addr] = <<>> THEN Idle(f)
       ELSE /\ fpc' = [fpc EXCEPT ![f] = "check"]
            /\ fl' = [fl EXCEPT ![f].items = buf[fl[f].addr]]
    /\ UNCHANGED <<job, brokerVars, outcome, mishaps>>

(* Take the buffer; another flush may have taken it first.                 *)
TakeBuffer(f) ==
    /\ fpc[f] = "take"
    /\ buf' = [buf EXCEPT ![fl[f].addr] = <<>>]
    /\ IF buf[fl[f].addr] = <<>> THEN Idle(f)
       ELSE /\ fpc' = [fpc EXCEPT ![f] = "check"]
            /\ fl' = [fl EXCEPT ![f].items = buf[fl[f].addr]]
    /\ UNCHANGED <<job, brokerVars, outcome, mishaps>>

(* The breaker is asked once for all the chunks.                           *)
CheckBreaker(f) ==
    /\ fpc[f] = "check"
    /\ \/ fpc' = [fpc EXCEPT ![f] = "send"] /\ UNCHANGED fl
       \/ /\ fpc' = [fpc EXCEPT ![f] = "store"]
          /\ fl' = [fl EXCEPT ![f].store = Len(fl[f].items)]
    /\ UNCHANGED <<job, brokerVars, buf, outcome, mishaps>>

ChunkSize(f) == IF Len(fl[f].items) < MaxBatch THEN Len(fl[f].items) ELSE MaxBatch
After(f, n) == SubSeq(fl[f].items, n + 1, Len(fl[f].items))

(* What is left of the work when n items are done with.                    *)
Rest(f, n, store) ==
    [addr |-> fl[f].addr, items |-> After(f, n), retry |-> 1, store |-> store]

SendOk(f) ==
    /\ fpc[f] = "send"
    /\ answered' = answered \union Range(SubSeq(fl[f].items, 1, ChunkSize(f)))
    /\ IF Len(fl[f].items) = ChunkSize(f) THEN Idle(f)
       ELSE /\ fl' = [fl EXCEPT ![f] = Rest(f, ChunkSize(f), 0)]
            /\ UNCHANGED fpc
    /\ UNCHANGED <<job, brokerVars, buf, offline, lost, mishaps>>

(* Not the code: retries are counted down but never run out.               *)
FaultRetryForever(f) ==
    /\ fpc[f] = "send"
    /\ fl' = [fl EXCEPT ![f].retry = @ - 1]
    /\ UNCHANGED <<job, brokerVars, buf, fpc, outcome, mishaps>>

(* Not the code: a retry is given the number of retries it was called with.*)
FaultRetryAnew(f) ==
    /\ fpc[f] = "send"
    /\ fl' = [fl EXCEPT ![f].retry = 1 - @]
    /\ UNCHANGED <<job, brokerVars, buf, fpc, outcome, mishaps>>

(* Not the code: a chunk that failed is stored and sent once more.         *)
FaultStoreAndSend(f) ==
    /\ fpc[f] = "store"
    /\ StoreOffline(fl[f].items[1])
    /\ fl' = [fl EXCEPT ![f].store = @ - 1]
    /\ fpc' = [fpc EXCEPT ![f] = IF fl[f].store = 1 THEN "send" ELSE "store"]
    /\ UNCHANGED <<job, brokerVars, buf>>

(* An error or a timeout, after which a prefix of the chunk may be on its  *)
(* way (Hub, BatchPrefix): once more, then offline with the whole chunk.   *)
SendFails(f) ==
    /\ fpc[f] = "send"
    /\ IF fl[f].retry = 1
       THEN fl' = [fl EXCEPT ![f].retry = 0] /\ UNCHANGED fpc
       ELSE /\ fpc' = [fpc EXCEPT ![f] = "store"]
            /\ fl' = [fl EXCEPT ![f].store = ChunkSize(f)]
    /\ UNCHANGED <<job, brokerVars, buf, outcome, mishaps>>

(* Not the code: after a chunk that failed, the flush is over.             *)
FaultBreak(f) ==
    /\ fpc[f] = "store"
    /\ StoreOffline(fl[f].items[1])
    /\ IF fl[f].store = 1 THEN Idle(f)
       ELSE /\ fl' = [fl EXCEPT ![f].items = After(f, 1), ![f].store = @ - 1]
            /\ UNCHANGED fpc
    /\ UNCHANGED <<job, brokerVars, buf>>

Store(f) ==
    /\ fpc[f] = "store"
    /\ StoreOffline(fl[f].items[1])
    /\ IF Len(fl[f].items) = 1 THEN Idle(f)
       ELSE /\ fl' = [fl EXCEPT ![f] = Rest(f, 1, fl[f].store - 1)]
            /\ fpc' = [fpc EXCEPT ![f] = IF fl[f].store = 1 THEN "send" ELSE "store"]
    /\ UNCHANGED <<job, brokerVars, buf>>

-----------------------------------------------------------------------------
(* The end of the process.                                                 *)

(* Items in the memory of the process.                                     *)
ToCome(k) == IF cpc[k] = "fan" THEN {k} \X (next[k]..Len(Recipients(k))) ELSE {}
Buffered == UNION {Range(buf[a]) : a \in Addrs}
Flushing == UNION {Range(fl[f].items) : f \in Flushers}
Coming == UNION {ToCome(k) : k \in Copies}
Held == Buffered \union Flushing \union Coming

Forget ==
    /\ job' = "down"
    /\ lost' = lost \union Held
    /\ buf' = [a \in Addrs |-> <<>>]
    /\ fpc' = [f \in Flushers |-> "idle"]
    /\ fl' = [f \in Flushers |-> NoWork]
    /\ UNCHANGED <<next, dedupe, answered, offline>>

(* A signal: the consumer is shut down (taken here to wait for callbacks), *)
(* then stop flushes the buffers.                                          *)
Stop ==
    /\ job = "up"
    /\ \A k \in Copies : cpc[k] \in {"ready", "done"}
    /\ job' = "stopping"
    /\ Mishap
    /\ UNCHANGED <<brokerVars, buf, flushVars, outcome>>

(* main returns: nothing waits for a flush the ticker has started.         *)
Exit ==
    /\ job = "stopping"
    /\ fpc["stop"] = "idle" /\ \A a \in Addrs : buf[a] = <<>>
    /\ Forget
    /\ UNCHANGED <<cpc, mishaps>>

(* The broker delivers again what was not acknowledged, and what was if    *)
(* the offset had not been stored yet.                                     *)
Crash ==
    /\ job # "down"
    /\ Forget
    /\ \E again \in SUBSET {k \in Copies : cpc[k] = "done"} :
           cpc' = [k \in Copies |-> IF cpc[k] = "done" /\ k \notin again THEN "done" ELSE "ready"]
    /\ Mishap

Restart ==
    /\ job = "down"
    /\ job' = "up"
    /\ UNCHANGED <<brokerVars, buf, flushVars, outcome, mishaps>>

Callback(k) ==
    \/ Deliver(k) \/ Duplicate(k) \/ FirstSeen(k) \/ DedupeFails(k) \/ ConsumeSuccess(k)
    \/ EnqueueOffline(k) \/ \E a \in Addrs : EnqueueBuffer(k, a)
Flush(f) == TakeBuffer(f) \/ CheckBreaker(f) \/ SendOk(f) \/ SendFails(f) \/ Store(f)

Next ==
    \/ \E k \in Copies : Callback(k)
    \/ \E f \in Flushers : Flush(f)
    \/ \E f \in {"tick", "stop"}, a \in Addrs : FlushAll(f, a)
    \/ \E m \in Msgs : DedupeExpires(m)
    \/ Stop \/ Exit \/ Crash \/ Restart

Spec == Init /\ [][Next]_vars

(* Goroutines run, the ticker ticks, requests and Redis calls time out.    *)
FairSpec ==
    /\ Spec
    /\ \A k \in Copies : WF_vars(Callback(k))
    /\ \A f \in Flushers : WF_vars(Flush(f))
    /\ \A a \in Addrs : WF_vars(FlushAll("tick", a))

-----------------------------------------------------------------------------
Reached == answered \union offline
Traced == Reached \union Held \union lost

(* The message an item is about and the user it is for.                    *)
About(it) == <<MsgOf[it[1]], Recipients(it[1])[it[2]]>>
Cover == {About(it) : it \in Traced}
Due(m) == {<<m, u>> : u \in Range(ToUIDs[m])}

(* Whatever flushes race for a buffer, and however chunks fail: for each   *)
(* recipient of a message that a callback has taken on, there is an item   *)
(* that is held, was answered for by the comet, or is in the offline queue;*)
(* the process ending and failed writes of the offline queue are the only  *)
(* ways to lose it.                                                        *)
NothingDropped ==
    \A k \in Copies : cpc[k] \in {"fan", "done"} => Due(MsgOf[k]) \subseteq Cover

(* An item has one place in memory: whatever flushes race for a buffer, no *)
(* two of them hold it, it is not in a buffer beside, nor twice in one.    *)
HeldOnce ==
    /\ \A a \in Addrs : IsInjective(buf[a])
    /\ \A f \in Flushers : IsInjective(fl[f].items)
    /\ \A a, b \in Addrs : a # b => Range(buf[a]) \intersect Range(buf[b]) = {}
    /\ \A f, g \in Flushers : f # g => Range(fl[f].items) \intersect Range(fl[g].items) = {}
    /\ Buffered \intersect Flushing = {}
    /\ Coming \intersect (Buffered \union Flushing) = {}

(* What is left of a flush: two attempts at a chunk and the store of each  *)
(* item are three steps for an item at most.                               *)
Effort(f) ==
    3 * Len(fl[f].items) + CASE fpc[f] = "check" -> 1
                             [] fpc[f] = "send" -> fl[f].retry - 1
                             [] fpc[f] = "store" -> -2
                             [] OTHER -> 0

(* Every step of a flush brings it nearer to its end, whatever the breaker,*)
(* the comet and Redis answer: one of n items has at most 3n+1 of them.    *)
FlushEnds ==
    [][\A f \in Flushers :
           fpc[f] \in {"check", "send", "store"} /\ <<fpc[f], fl[f]>>' # <<fpc[f], fl[f]>>
               => Effort(f)' < Effort(f)]_vars

(* What the batcher promises, item by item.                                *)
Ledger == INSTANCE ItemLedger WITH
              ItemsOf <- [k \in Copies |-> {k} \X (1..Len(Recipients(k)))],
              held <- Held, reached <- Reached, gone <- lost

(* Callbacks and flushes keep the ledger: they take the items of a copy on *)
(* at once, invent none, and let go of an item as it is reached or lost.   *)
ImplementsLedger == Ledger!LedgerSpec

(* The inductive invariant of DeliveryProofs: what a flusher holds fits its*)
(* step, and a message whose key is set is covered, so that a duplicate may*)
(* be acknowledged.                                                        *)
FlushOK(f) ==
    /\ fpc[f] = "take" => fl[f].addr \in Addrs
    /\ fpc[f] \in {"idle", "take"} <=> fl[f].items = <<>>
    /\ fpc[f] = "store" => fl[f].store > 0

Covered ==
    /\ \A m \in dedupe : Due(m) \subseteq Cover
    /\ \A k \in Copies : cpc[k] = "dedupe" => next[k] = 1

(* An item in memory is one its callback has gone past.                    *)
Past(it) == cpc[it[1]] \in {"fan", "done"} /\ it[2] < next[it[1]]

Placed ==
    /\ \A it \in Buffered \union Flushing : Past(it)
    /\ job # "up" => \A k \in Copies : cpc[k] \in {"ready", "done"}

DeliveryInv ==
    /\ TypeOK /\ (\A f \in Flushers : FlushOK(f)) /\ Covered /\ NothingDropped
    /\ Placed /\ HeldOnce

(* No item stays in memory: a full buffer, a partial one, a chunk that     *)
(* fails and a breaker that is open all end with the comet, in the offline *)
(* queue, or with a failed write.                                          *)
Settles == []<>(Held = {})

Quiet == Held = {} /\ \A k \in Copies : cpc[k] = "done"

(* main.go: "do not drop; proceed (at-least-once)": once the broker has no *)
(* copy left and the process holds nothing, every recipient was reached.   *)
AtLeastOnce == Quiet => \A m \in Msgs : Due(m) \subseteq {About(it) : it \in Reached}
=============================================================================
