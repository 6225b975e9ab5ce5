---------------------------- MODULE OfflineQueue ----------------------------
(***************************************************************************)
(* The offline queue of one user and conversation: a Redis sorted set that *)
(* im-job adds to, one command at a time, while the user's devices pull    *)
(* from it in two reads and acknowledge (core-push-go, store and engine).  *)
(* Redis runs each command atomically; commands of different clients       *)
(* interleave, and any of them may fail.                                   *)
(***************************************************************************)
EXTENDS Integers, FiniteSets

CONSTANTS Packets,     \* packet_json texts
          SeqOf,       \* the seq each packet carries
          Clock,       \* values of time.Now().UnixMilli()
          Enqueuers,   \* concurrent calls of EnqueueOffline
          Devices,     \* clients that pull and acknowledge
          MaxKeep, Limit,
          MaxFaults    \* bound on failed commands and crashes of enqueuers

(* Packets of a conversation have different seqs: uk_conv_sync of the      *)
(* table they come from.  The clock is past every seq.                     *)
ASSUME QueueAssumption ==
    /\ IsFiniteSet(Packets) /\ IsFiniteSet(Enqueuers)
    /\ SeqOf \in [Packets -> Nat]
    /\ \A p, q \in Packets : SeqOf[p] = SeqOf[q] => p = q
    /\ Clock \subseteq Nat /\ \A t \in Clock, p \in Packets : SeqOf[p] < t
    /\ MaxKeep \in Nat \ {0} /\ Limit \in Nat \ {0} /\ MaxFaults \in Nat

VARIABLES score,    \* the sorted set; 0: not a member
          pc, card,            \* an enqueuer: its next command, what ZCARD said
          faults, behind,      \* failures so far; enqueues that left no trim
          rpc, page,           \* a device: its next read, and what the first
                               \* read returned
          cursor,              \* afterSeq of the device's next pull
          torn,                \* the set changed below the page since the
                               \* first read (this and the next: for the
                               \* properties only)
          known                \* packets a device was given, that arrived
                               \* behind its cursor, or that a torn pull
                               \* went past

queueVars == <<pc, card, faults, behind>>
deviceVars == <<rpc, page, cursor>>
vars == <<score, queueVars, deviceVars, torn, known>>

Stored == {p \in Packets : score[p] # 0}

TypeOK ==
    /\ score \in [Packets -> Nat]
    /\ pc \in [Enqueuers -> {"idle", "count", "trim"}]
    /\ card \in [Enqueuers -> Nat]
    /\ faults \in 0..MaxFaults /\ behind \in 0..faults
    /\ rpc \in [Devices -> {"idle", "last"}]
    /\ page \in [Devices -> SUBSET Packets]
    /\ torn \in [Devices -> BOOLEAN]
    /\ cursor \in [Devices -> Nat]
    /\ known \in [Devices -> SUBSET Packets]

Init ==
    /\ score = [p \in Packets |-> 0]
    /\ pc = [j \in Enqueuers |-> "idle"]
    /\ card = [j \in Enqueuers |-> 0]
    /\ faults = 0 /\ behind = 0
    /\ rpc = [d \in Devices |-> "idle"]
    /\ page = [d \in Devices |-> {}]
    /\ torn = [d \in Devices |-> FALSE]
    /\ cursor = [d \in Devices |-> 0]
    /\ known = [d \in Devices |-> {}]

-----------------------------------------------------------------------------
(* The sorted set.                                                         *)

Remove(gone) ==
    /\ score' = [p \in Packets |-> IF p \in gone THEN 0 ELSE score[p]]
    /\ torn' = [d \in Devices |-> torn[d] \/ gone \intersect page[d] # {}]

(* low is the n lowest members of set, or all of it.                       *)
Lowest(low, set, n) ==
    /\ \A p \in low, q \in set : score[q] < score[p] => q \in low
    /\ IF Cardinality(set) <= n THEN low = set ELSE Cardinality(low) = n

(* A packet without a seq is scored by the clock.                          *)
ScoreOf(p) == IF SeqOf[p] > 0 THEN {SeqOf[p]} ELSE Clock

Add(p) ==
    \E s \in ScoreOf(p) :
        /\ score' = [score EXCEPT ![p] = s]
        /\ known' = [d \in Devices |-> known[d] \union IF s <= cursor[d] THEN {p} ELSE {}]
        /\ torn' = [d \in Devices |-> \/ torn[d]
                                      \/ score[p] # s /\ \E q \in page[d] : s <= score[q] \/ q = p]

(* EnqueueOffline.                                                         *)

ZAdd(j, p) ==
    /\ pc[j] = "idle"
    /\ Add(p)
    /\ pc' = [pc EXCEPT ![j] = "count"]
    /\ UNCHANGED <<card, faults, behind, deviceVars>>

ZCard(j) ==
    /\ pc[j] = "count"
    /\ card' = [card EXCEPT ![j] = Cardinality(Stored)]
    /\ pc' = [pc EXCEPT ![j] = "trim"]
    /\ UNCHANGED <<score, faults, behind, deviceVars, torn, known>>

Return(j) ==
    /\ pc' = [pc EXCEPT ![j] = "idle"]
    /\ card' = [card EXCEPT ![j] = 0]

(* Not the code: ranks 0..trim-1 taken as a count of trim-1.               *)
FaultTrimOneLess(j) ==
    /\ pc[j] = "trim"
    /\ \E old \in SUBSET Stored :
           /\ IF card[j] - 1 > MaxKeep THEN Lowest(old, Stored, card[j] - 1 - MaxKeep) ELSE old = {}
           /\ Remove(old)
    /\ Return(j)
    /\ UNCHANGED <<faults, behind, deviceVars, known>>

(* Not the code: ranks 0..trim, one too many.                              *)
FaultTrimOneMore(j) ==
    /\ pc[j] = "trim"
    /\ \E old \in SUBSET Stored :
           /\ IF card[j] > MaxKeep THEN Lowest(old, Stored, card[j] + 1 - MaxKeep) ELSE old = {}
           /\ Remove(old)
    /\ Return(j)
    /\ UNCHANGED <<faults, behind, deviceVars, known>>

(* ZREMRANGEBYRANK by the count that was read, if it is too high; EXPIRE.  *)
Trim(j) ==
    /\ pc[j] = "trim"
    /\ \E old \in SUBSET Stored :
           /\ IF card[j] > MaxKeep THEN Lowest(old, Stored, card[j] - MaxKeep) ELSE old = {}
           /\ Remove(old)
    /\ Return(j)
    /\ UNCHANGED <<faults, behind, deviceVars, known>>

(* ZADD reports an error, whether or not Redis ran it.                     *)
AddFails(j, p) ==
    /\ pc[j] = "idle" /\ faults < MaxFaults
    /\ Add(p) \/ UNCHANGED <<score, known, torn>>
    /\ faults' = faults + 1 /\ behind' = behind + 1
    /\ UNCHANGED <<pc, card, deviceVars>>

(* ZCARD or ZREMRANGEBYRANK fails, or im-job stops.                        *)
NotTrimmed(j) ==
    /\ pc[j] # "idle" /\ faults < MaxFaults
    /\ Return(j)
    /\ faults' = faults + 1 /\ behind' = behind + 1
    /\ UNCHANGED <<score, deviceVars, torn, known>>

(* Seven days after the last EXPIRE.                                       *)
KeyExpires ==
    /\ Stored # {}
    /\ Remove(Stored)
    /\ UNCHANGED <<queueVars, deviceVars, known>>

-----------------------------------------------------------------------------
(* PullOffline and Ack.                                                    *)

After(d) == {p \in Stored : score[p] > cursor[d]}

PullPage(d) ==
    /\ rpc[d] = "idle"
    /\ \E low \in SUBSET After(d) : low # {} /\ Lowest(low, After(d), Limit) /\ page' = [page EXCEPT ![d] = low]
    /\ rpc' = [rpc EXCEPT ![d] = "last"]
    /\ UNCHANGED <<score, queueVars, cursor, torn, known>>

(* Not the code: the offset is not one less than the length.               *)
FaultOffset(d, p) == Cardinality({q \in After(d) : score[q] < score[p]}) = Cardinality(page[d])

(* The member at offset len(res)-1 of the second read.                     *)
AtOffset(d, p) == Cardinality({q \in After(d) : score[q] < score[p]}) = Cardinality(page[d]) - 1

PullReturns(d, last) ==
    /\ known' = [known EXCEPT ![d] = @ \union page[d] \union
                     IF torn[d] THEN {p \in After(d) : score[p] <= last} ELSE {}]
    /\ cursor' = [cursor EXCEPT ![d] = last]
    /\ rpc' = [rpc EXCEPT ![d] = "idle"]
    /\ page' = [page EXCEPT ![d] = {}]
    /\ torn' = [torn EXCEPT ![d] = FALSE]
    /\ UNCHANGED <<score, queueVars>>

PullLast(d) ==
    /\ rpc[d] = "last"
    /\ \E p \in After(d) : AtOffset(d, p) /\ PullReturns(d, score[p])

(* Not the code: a second read that finds nothing leaves last unset.       *)
FaultLastUnset(d) == rpc[d] = "last" /\ PullReturns(d, -1)

(* The second read fails, or finds nothing: last = afterSeq.               *)
PullNoLast(d) ==
    /\ rpc[d] = "last"
    /\ PullReturns(d, cursor[d])

Ack(d) ==
    /\ rpc[d] = "idle" /\ cursor[d] > 0
    /\ Remove({p \in Stored : score[p] <= cursor[d]})
    /\ UNCHANGED <<queueVars, deviceVars, known>>

Enqueue == \E j \in Enqueuers : \/ \E p \in Packets : ZAdd(j, p) \/ AddFails(j, p)
                                \/ ZCard(j) \/ Trim(j) \/ NotTrimmed(j)
Pull == \E d \in Devices : PullPage(d) \/ PullLast(d) \/ PullNoLast(d) \/ Ack(d)

Next == Enqueue \/ Pull \/ KeyExpires

Spec == Init /\ [][Next]_vars

-----------------------------------------------------------------------------
(* The enqueues that may still trim: all but those that counted too few.   *)
Owing == {j \in Enqueuers : pc[j] = "count" \/ (pc[j] = "trim" /\ card[j] > MaxKeep)}

(* However the commands of concurrent enqueues interleave, the queue       *)
(* outgrows offline_max_keep by no more than the enqueues that have yet to *)
(* trim and those that failed to.                                          *)
KeepsBounded == Cardinality(Stored) <= MaxKeep + Cardinality(Owing) + behind

(* A trim by a count that is no longer true: it leaves fewer than MaxKeep  *)
(* packets by no more than the set has shrunk since ZCARD, whoever removed *)
(* them, and what it leaves is newer than all that it takes.               *)
TrimKeepsNewest ==
    [][\A j \in Enqueuers : pc[j] = "trim" /\ pc'[j] = "idle" /\ Stored' # Stored =>
           /\ Cardinality(Stored') + card[j] >= MaxKeep + Cardinality(Stored)
           /\ \A p \in Stored \ Stored', q \in Stored' : score[p] < score[q]]_vars

(* A pull's cursor passes a stored packet that was not returned only when  *)
(* the packet arrived behind it, or when the set changed below the page    *)
(* between the two reads (a late add, a trim, another device's Ack).       *)
NothingPassedOver ==
    \A d \in Devices : \A p \in Stored :
        score[p] <= cursor[d] => p \in known[d]
=============================================================================
