------------------------- MODULE OfflineQueueProofs -------------------------
(***************************************************************************)
(* Proofs about OfflineQueue, for any packets, enqueuers, devices, limits  *)
(* and number of failures.                                                 *)
(***************************************************************************)
EXTENDS OfflineQueue, FiniteSetTheorems, TLAPS

LEMMA StoredFinite ==
    /\ IsFiniteSet(Stored) /\ Cardinality(Stored) \in Nat
    /\ IsFiniteSet(Owing) /\ Cardinality(Owing) \in Nat
<1>1. Stored \in SUBSET Packets /\ Owing \in SUBSET Enqueuers
  BY DEF Stored, Owing
<1>2. IsFiniteSet(Stored) /\ IsFiniteSet(Owing)
  BY <1>1, FS_Subset, QueueAssumption DEF QueueAssumption
<1>3. QED
  BY <1>2, FS_CardinalityType

LEMMA InitTypeOK == Init => TypeOK
BY QueueAssumption DEF Init, TypeOK, QueueAssumption

LEMMA NextTypeOK ==
    ASSUME TypeOK, [Next]_vars
    PROVE  TypeOK'
<1> USE QueueAssumption DEF TypeOK, QueueAssumption
<1>a. ASSUME NEW p \in Packets, Add(p)
      PROVE  /\ score' \in [Packets -> Nat]
             /\ known' \in [Devices -> SUBSET Packets] /\ torn' \in [Devices -> BOOLEAN]
  <2>1. PICK s \in ScoreOf(p) :
            /\ score' = [score EXCEPT ![p] = s]
            /\ known' = [d \in Devices |-> known[d] \union IF s <= cursor[d] THEN {p} ELSE {}]
            /\ torn' = [d \in Devices |-> \/ torn[d]
                                          \/ score[p] # s /\ \E q \in page[d] : s <= score[q] \/ q = p]
    BY <1>a DEF Add
  <2>2. s \in Nat
    BY DEF ScoreOf
  <2>3. score' \in [Packets -> Nat] /\ known' \in [Devices -> SUBSET Packets]
    BY <2>1, <2>2
  <2>4. torn' \in [Devices -> BOOLEAN]
    BY <2>1
  <2>5. QED
    BY <2>3, <2>4
<1>b. ASSUME NEW gone, Remove(gone)
      PROVE  score' \in [Packets -> Nat] /\ torn' \in [Devices -> BOOLEAN]
  <2>1. score' \in [Packets -> Nat]
    BY <1>b DEF Remove
  <2>2. torn' \in [Devices -> BOOLEAN]
    BY <1>b DEF Remove
  <2>3. QED
    BY <2>1, <2>2
<1>1. ASSUME NEW j \in Enqueuers, NEW p \in Packets, ZAdd(j, p) PROVE TypeOK'
  BY <1>1, <1>a DEF ZAdd, deviceVars
<1>2. ASSUME NEW j \in Enqueuers, ZCard(j) PROVE TypeOK'
  BY <1>2, StoredFinite DEF ZCard, deviceVars
<1>3. ASSUME NEW j \in Enqueuers, Trim(j) PROVE TypeOK'
  <2>1. score' \in [Packets -> Nat] /\ torn' \in [Devices -> BOOLEAN]
    BY <1>3, <1>b DEF Trim
  <2>2. QED
    BY <1>3, <2>1 DEF Trim, Return, deviceVars
<1>4. ASSUME NEW j \in Enqueuers, NEW p \in Packets, AddFails(j, p) PROVE TypeOK'
  <2>1. /\ score' \in [Packets -> Nat]
        /\ known' \in [Devices -> SUBSET Packets] /\ torn' \in [Devices -> BOOLEAN]
    BY <1>4, <1>a DEF AddFails
  <2>2. faults' \in 0..MaxFaults /\ behind' \in 0..faults'
    BY <1>4 DEF AddFails
  <2>3. QED
    BY <1>4, <2>1, <2>2 DEF AddFails, deviceVars
<1>5. ASSUME NEW j \in Enqueuers, NotTrimmed(j) PROVE TypeOK'
  <2>1. faults' \in 0..MaxFaults /\ behind' \in 0..faults'
    BY <1>5 DEF NotTrimmed
  <2>2. QED
    BY <1>5, <2>1 DEF NotTrimmed, Return, deviceVars
<1>6. CASE KeyExpires
  <2>1. score' \in [Packets -> Nat] /\ torn' \in [Devices -> BOOLEAN]
    BY <1>6, <1>b DEF KeyExpires
  <2>2. QED
    BY <1>6, <2>1 DEF KeyExpires, queueVars, deviceVars
<1>7. ASSUME NEW d \in Devices, PullPage(d) PROVE TypeOK'
  <2>1. page' \in [Devices -> SUBSET Packets]
    BY <1>7 DEF PullPage, After, Stored
  <2>2. QED
    BY <1>7, <2>1 DEF PullPage, queueVars
<1>8. ASSUME NEW d \in Devices, NEW last \in Nat, PullReturns(d, last) PROVE TypeOK'
  <2>1. known' \in [Devices -> SUBSET Packets]
    BY <1>8 DEF PullReturns, After, Stored
  <2>2. torn' \in [Devices -> BOOLEAN]
    BY <1>8 DEF PullReturns
  <2>3. QED
    BY <1>8, <2>1, <2>2 DEF PullReturns, queueVars
<1>9. ASSUME NEW d \in Devices, PullLast(d) PROVE TypeOK'
  <2>1. PICK p \in After(d) : PullReturns(d, score[p])
    BY <1>9 DEF PullLast
  <2>2. score[p] \in Nat
    BY DEF After, Stored
  <2>3. QED
    BY <1>8, <2>1, <2>2
<1>10. ASSUME NEW d \in Devices, PullNoLast(d) PROVE TypeOK'
  BY <1>8, <1>10 DEF PullNoLast
<1>11. ASSUME NEW d \in Devices, Ack(d) PROVE TypeOK'
  <2>1. score' \in [Packets -> Nat] /\ torn' \in [Devices -> BOOLEAN]
    BY <1>11, <1>b DEF Ack
  <2>2. QED
    BY <1>11, <2>1 DEF Ack, queueVars, deviceVars
<1>12. CASE UNCHANGED vars
  BY <1>12 DEF vars, queueVars, deviceVars
<1>13. QED
  BY <1>1, <1>2, <1>3, <1>4, <1>5, <1>6, <1>7, <1>9, <1>10, <1>11, <1>12
     DEF Next, Enqueue, Pull

(* The values of TypeOK are preserved by every interleaving of commands.   *)
THEOREM QueueTypeCorrect == Spec => []TypeOK
<1>1. TypeOK /\ [Next]_vars => TypeOK'
  BY NextTypeOK
<1>2. QED
  BY <1>1, InitTypeOK, PTL DEF Spec

-----------------------------------------------------------------------------
(* How the steps change the two sizes KeepsBounded compares.               *)

LEMMA AddGrows ==
    ASSUME TypeOK, NEW p \in Packets, Add(p)
    PROVE  Cardinality(Stored') <= Cardinality(Stored) + 1
<1>1. Stored' \in SUBSET (Stored \union {p})
  BY DEF Add, Stored, TypeOK
<1>2. /\ IsFiniteSet(Stored \union {p})
      /\ Cardinality(Stored \union {p}) =
            IF p \in Stored THEN Cardinality(Stored) ELSE Cardinality(Stored) + 1
  BY StoredFinite, FS_AddElement, Zenon
<1>3. Cardinality(Stored') <= Cardinality(Stored \union {p})
  BY <1>1, <1>2, FS_Subset
<1>4. Cardinality(Stored') \in Nat /\ Cardinality(Stored \union {p}) \in Nat
  BY <1>1, <1>2, FS_Subset, FS_CardinalityType
<1>5. QED
  BY <1>2, <1>3, <1>4, StoredFinite

LEMMA RemoveShrinks ==
    ASSUME TypeOK, NEW gone, Remove(gone)
    PROVE  /\ Stored' = Stored \ gone
           /\ Cardinality(Stored') \in Nat
           /\ Cardinality(Stored') <= Cardinality(Stored)
<1>1. Stored' = Stored \ gone
  BY DEF Remove, Stored, TypeOK
<1>2. Stored' \in SUBSET Stored
  BY <1>1
<1>3. QED
  BY <1>1, <1>2, StoredFinite, FS_Subset, FS_CardinalityType

(* An enqueuer that starts to owe a trim, or no longer does.               *)
LEMMA OwingGrows ==
    ASSUME NEW j, NEW S, IsFiniteSet(S), NEW T, T = S \union {j}, j \notin S
    PROVE  Cardinality(T) = Cardinality(S) + 1
BY FS_AddElement

LEMMA OwingShrinks ==
    ASSUME NEW j, NEW S, IsFiniteSet(S), NEW T, T = S \ {j}
    PROVE  /\ Cardinality(T) \in Nat
           /\ Cardinality(T) = IF j \in S THEN Cardinality(S) - 1 ELSE Cardinality(S)
BY FS_RemoveElement, FS_CardinalityType

(* A trim with a count above MaxKeep removes at least one packet.          *)
LEMMA TrimRemoves ==
    ASSUME TypeOK, NEW j \in Enqueuers, Trim(j), card[j] > MaxKeep, Stored # {}
    PROVE  Cardinality(Stored') <= Cardinality(Stored) - 1
<1>1. PICK old \in SUBSET Stored : Lowest(old, Stored, card[j] - MaxKeep) /\ Remove(old)
  BY DEF Trim
<1>2. card[j] - MaxKeep \in Nat \ {0}
  BY QueueAssumption DEF QueueAssumption, TypeOK
<1>3. old # {}
  <2>1. Cardinality({}) = 0
    BY FS_EmptySet
  <2>2. QED
    BY <1>1, <1>2, <2>1 DEF Lowest
<1>4. PICK p \in old : TRUE
  BY <1>3
<1>5. Stored' \in SUBSET (Stored \ {p}) /\ p \in Stored
  BY <1>1, <1>4, RemoveShrinks
<1>6. /\ IsFiniteSet(Stored \ {p})
      /\ Cardinality(Stored \ {p}) = Cardinality(Stored) - 1
  BY <1>5, StoredFinite, FS_RemoveElement
<1>7. QED
  BY <1>5, <1>6, FS_Subset

LEMMA KeepsBoundedStep ==
    ASSUME TypeOK, KeepsBounded, [Next]_vars
    PROVE  KeepsBounded'
<1>a. /\ Cardinality(Stored) <= MaxKeep + Cardinality(Owing) + behind
      /\ Cardinality(Stored) \in Nat /\ Cardinality(Owing) \in Nat /\ behind \in Nat
      /\ MaxKeep \in Nat \ {0}
  BY StoredFinite, QueueAssumption DEF KeepsBounded, TypeOK, QueueAssumption
<1>b. SUFFICES Cardinality(Stored') <= MaxKeep + Cardinality(Owing') + behind'
  BY DEF KeepsBounded
<1>c. Cardinality(Stored') \in Nat /\ Cardinality(Owing') \in Nat
  BY QueueAssumption, FS_Subset, FS_CardinalityType DEF QueueAssumption, Stored, Owing
<1>1. ASSUME NEW j \in Enqueuers, NEW p \in Packets, ZAdd(j, p)
      PROVE  Cardinality(Stored') <= MaxKeep + Cardinality(Owing') + behind'
  <2>1. Owing' = Owing \union {j} /\ j \notin Owing
    BY <1>1 DEF ZAdd, Owing, TypeOK
  <2>2. Cardinality(Owing') = Cardinality(Owing) + 1
    BY <2>1, OwingGrows, StoredFinite
  <2>3. Cardinality(Stored') <= Cardinality(Stored) + 1 /\ behind' = behind
    BY <1>1, AddGrows DEF ZAdd
  <2>4. QED
    BY <1>a, <1>c, <2>2, <2>3
<1>2. ASSUME NEW j \in Enqueuers, ZCard(j)
      PROVE  Cardinality(Stored') <= MaxKeep + Cardinality(Owing') + behind'
  <2>1. Stored' = Stored /\ behind' = behind
    BY <1>2 DEF ZCard, Stored
  <2>2. CASE Cardinality(Stored) > MaxKeep
    <3>1. Owing' = Owing
      BY <1>2, <2>2 DEF ZCard, Owing, TypeOK
    <3>2. QED
      BY <1>a, <2>1, <3>1
  <2>3. CASE ~(Cardinality(Stored) > MaxKeep)
    BY <1>a, <1>c, <2>1, <2>3
  <2>4. QED
    BY <2>2, <2>3
<1>3. ASSUME NEW j \in Enqueuers, Trim(j)
      PROVE  Cardinality(Stored') <= MaxKeep + Cardinality(Owing') + behind'
  <2>1. Owing' = Owing \ {j} /\ behind' = behind /\ pc[j] = "trim"
    BY <1>3 DEF Trim, Return, Owing, TypeOK
  <2>2. Cardinality(Owing') = IF j \in Owing THEN Cardinality(Owing) - 1 ELSE Cardinality(Owing)
    BY <2>1, OwingShrinks, StoredFinite
  <2>3. Cardinality(Stored') <= Cardinality(Stored)
    BY <1>3, RemoveShrinks DEF Trim
  <2>4. CASE j \notin Owing
    BY <1>a, <1>c, <2>1, <2>2, <2>3, <2>4
  <2>5. CASE j \in Owing /\ Stored # {}
    <3>1. Cardinality(Stored') <= Cardinality(Stored) - 1
      BY <1>3, <2>1, <2>5, TrimRemoves DEF Owing
    <3>2. QED
      BY <1>a, <1>c, <2>1, <2>2, <2>5, <3>1
  <2>6. CASE Stored = {}
    <3>1. Cardinality(Stored) = 0
      BY <2>6, FS_EmptySet
    <3>2. QED
      BY <1>a, <1>c, <2>1, <2>3, <3>1
  <2>7. QED
    BY <2>4, <2>5, <2>6
<1>4. ASSUME NEW j \in Enqueuers, NEW p \in Packets, AddFails(j, p)
      PROVE  Cardinality(Stored') <= MaxKeep + Cardinality(Owing') + behind'
  <2>1. Owing' = Owing /\ behind' = behind + 1
    BY <1>4 DEF AddFails, Owing
  <2>2. Add(p) \/ Stored' = Stored
    BY <1>4 DEF AddFails, Stored
  <2>3. Cardinality(Stored') <= Cardinality(Stored) + 1
    BY <1>a, <2>2, AddGrows
  <2>4. QED
    BY <1>a, <1>c, <2>1, <2>3
<1>5. ASSUME NEW j \in Enqueuers, NotTrimmed(j)
      PROVE  Cardinality(Stored') <= MaxKeep + Cardinality(Owing') + behind'
  <2>1. Owing' = Owing \ {j} /\ behind' = behind + 1 /\ Stored' = Stored
    BY <1>5 DEF NotTrimmed, Return, Owing, Stored, TypeOK
  <2>2. Cardinality(Owing') = IF j \in Owing THEN Cardinality(Owing) - 1 ELSE Cardinality(Owing)
    BY <2>1, OwingShrinks, StoredFinite
  <2>3. QED
    BY <1>a, <1>c, <2>1, <2>2
<1>6. ASSUME NEW gone, Remove(gone), UNCHANGED queueVars
      PROVE  Cardinality(Stored') <= MaxKeep + Cardinality(Owing') + behind'
  <2>1. Owing' = Owing /\ behind' = behind
    BY <1>6 DEF Owing, queueVars
  <2>2. QED
    BY <1>6, <1>a, <1>c, <2>1, RemoveShrinks
<1>7. ASSUME score' = score, UNCHANGED queueVars
      PROVE  Cardinality(Stored') <= MaxKeep + Cardinality(Owing') + behind'
  BY <1>7, <1>a DEF Stored, Owing, queueVars
<1>8. ASSUME NEW d \in Devices, PullPage(d) \/ PullLast(d) \/ PullNoLast(d)
      PROVE  score' = score /\ UNCHANGED queueVars
  BY <1>8 DEF PullPage, PullLast, PullNoLast, PullReturns
<1>9. ASSUME NEW d \in Devices, Ack(d)
      PROVE  Cardinality(Stored') <= MaxKeep + Cardinality(Owing') + behind'
  BY <1>9, <1>6 DEF Ack
<1>10. CASE KeyExpires
  BY <1>10, <1>6 DEF KeyExpires
<1>11. CASE UNCHANGED vars
  BY <1>11, <1>7 DEF vars
<1>12. QED
  BY <1>1, <1>2, <1>3, <1>4, <1>5, <1>7, <1>8, <1>9, <1>10, <1>11 DEF Next, Enqueue, Pull

(* The queue outgrows offline_max_keep by no more than the enqueues that   *)
(* have yet to trim and those that failed to.                              *)
THEOREM QueueKeepsBounded == Spec => []KeepsBounded
<1>1. Init => TypeOK /\ KeepsBounded
  <2> SUFFICES ASSUME Init PROVE KeepsBounded
    BY InitTypeOK
  <2>1. Stored = {} /\ Owing = {} /\ behind = 0
    BY DEF Init, Stored, Owing
  <2>2. QED
    BY <2>1, FS_EmptySet, QueueAssumption DEF KeepsBounded, QueueAssumption
<1>2. TypeOK /\ KeepsBounded /\ [Next]_vars => TypeOK' /\ KeepsBounded'
  BY NextTypeOK, KeepsBoundedStep
<1>3. QED
  BY <1>1, <1>2, PTL DEF Spec
-----------------------------------------------------------------------------
(* What NothingPassedOver rests on: the scores of stored packets are their *)
(* seqs, or of the clock, so that no two are alike; and the page of a pull *)
(* that is not torn is still the beginning of what lies after its cursor.  *)

ScoreOK == \A p \in Stored : score[p] \in ScoreOf(p)

PageOK(d) ==
    rpc[d] = "last" /\ ~torn[d] =>
        /\ page[d] \subseteq After(d)
        /\ \A p \in page[d], q \in After(d) : score[q] < score[p] => q \in page[d]

PullInv == TypeOK /\ ScoreOK /\ (\A d \in Devices : PageOK(d)) /\ NothingPassedOver

LEMMA ScoresDiffer ==
    ASSUME TypeOK, ScoreOK, NEW p \in Stored, NEW q \in Stored, score[p] = score[q]
    PROVE  p = q
<1>1. /\ p \in Packets /\ q \in Packets /\ SeqOf[p] \in Nat /\ SeqOf[q] \in Nat
      /\ score[p] \in ScoreOf(p) /\ score[q] \in ScoreOf(q)
  BY QueueAssumption DEF QueueAssumption, ScoreOK, Stored
<1>2. \A t \in Clock : t \in Nat /\ SeqOf[p] < t /\ SeqOf[q] < t
  BY <1>1, QueueAssumption DEF QueueAssumption
<1>3. SeqOf[p] = SeqOf[q]
  BY <1>1, <1>2 DEF ScoreOf
<1>4. QED
  BY <1>1, <1>3, QueueAssumption DEF QueueAssumption

(* The second read returns the last packet of a page that is not torn, and *)
(* everything up to it was on the page.                                    *)
LEMMA LastIsOfPage ==
    ASSUME PullInv, NEW d \in Devices, rpc[d] = "last", ~torn[d],
           NEW p \in After(d), AtOffset(d, p), NEW x \in After(d), score[x] <= score[p]
    PROVE  x \in page[d]
<1> DEFINE B == {q \in After(d) : score[q] < score[p]}
<1>1. /\ TypeOK /\ ScoreOK /\ page[d] \subseteq After(d)
      /\ \A y \in page[d], q \in After(d) : score[q] < score[y] => q \in page[d]
  BY DEF PullInv, PageOK
<1>2. /\ After(d) \subseteq Stored /\ IsFiniteSet(Stored)
      /\ \A q \in After(d) : score[q] \in Nat
  BY <1>1, StoredFinite DEF After, Stored, TypeOK
<1>3. /\ B \subseteq After(d) /\ IsFiniteSet(B) /\ IsFiniteSet(page[d])
      /\ Cardinality(B) \in Nat /\ Cardinality(page[d]) \in Nat
      /\ Cardinality(B) = Cardinality(page[d]) - 1
  <2>1. B \subseteq Stored /\ page[d] \subseteq Stored
    BY <1>1, <1>2
  <2>2. QED
    BY <1>2, <2>1, FS_Subset, FS_CardinalityType DEF AtOffset
<1>4. SUFFICES ASSUME x \notin page[d] PROVE FALSE
  OBVIOUS
<1>5. page[d] \subseteq B \ {x}
  <2> SUFFICES ASSUME NEW y \in page[d] PROVE y \in B /\ y # x
    OBVIOUS
  <2>1. y \in After(d) /\ y # x
    BY <1>1, <1>4
  <2>2. ~(score[x] < score[y])
    BY <1>1, <1>4
  <2>3. score[x] # score[y]
    BY <1>1, <1>2, <2>1, ScoresDiffer
  <2>4. score[y] < score[p]
    BY <1>2, <2>1, <2>2, <2>3
  <2>5. QED
    BY <2>1, <2>4
<1> HIDE DEF B
<1>6. /\ IsFiniteSet(B \ {x})
      /\ Cardinality(B \ {x}) <= Cardinality(B)
  BY <1>3, FS_Subset
<1>7. Cardinality(page[d]) <= Cardinality(B \ {x}) /\ Cardinality(B \ {x}) \in Nat
  BY <1>5, <1>6, FS_Subset, FS_CardinalityType
<1>8. QED
  BY <1>3, <1>6, <1>7

LEMMA AddKeeps ==
    ASSUME PullInv, TypeOK', NEW p \in Packets, Add(p), UNCHANGED deviceVars
    PROVE  PullInv'
<1>1. PICK s \in ScoreOf(p) :
          /\ score' = [score EXCEPT ![p] = s]
          /\ known' = [d \in Devices |-> known[d] \union IF s <= cursor[d] THEN {p} ELSE {}]
          /\ torn' = [d \in Devices |-> \/ torn[d]
                                        \/ score[p] # s /\ \E q \in page[d] : s <= score[q] \/ q = p]
  BY DEF Add
<1>2. /\ TypeOK /\ ScoreOK /\ NothingPassedOver /\ \A d \in Devices : PageOK(d)
      /\ UNCHANGED <<rpc, page, cursor>>
  BY DEF PullInv, deviceVars
<1>3. /\ \A q \in Packets : score'[q] = IF q = p THEN s ELSE score[q]
      /\ \A q \in Packets : score[q] \in Nat /\ score'[q] \in Nat
  BY <1>1, <1>2 DEF TypeOK
<1>4. ScoreOK'
  BY <1>1, <1>2, <1>3 DEF ScoreOK, Stored, ScoreOf
<1>5. NothingPassedOver'
  <2> SUFFICES ASSUME NEW d \in Devices, NEW q \in Packets, score'[q] # 0, score'[q] <= cursor[d]
               PROVE  q \in known'[d]
    BY <1>2 DEF NothingPassedOver, Stored
  <2>1. CASE q = p
    BY <1>1, <1>3, <2>1
  <2>2. CASE q # p
    <3>1. q \in Stored /\ score[q] <= cursor[d]
      BY <1>3, <2>2 DEF Stored
    <3>2. q \in known[d]
      BY <1>2, <3>1 DEF NothingPassedOver
    <3>3. QED
      BY <1>1, <3>2
  <2>3. QED
    BY <2>1, <2>2
<1>6. ASSUME NEW d \in Devices PROVE PageOK(d)'
  <2> SUFFICES ASSUME rpc[d] = "last", ~torn'[d]
               PROVE  /\ page[d] \subseteq After(d)'
                      /\ \A x \in page[d], q \in After(d)' : score'[q] < score'[x] => q \in page[d]
    BY <1>2 DEF PageOK
  <2>1. ~torn[d] /\ (score[p] = s \/ \A q \in page[d] : ~(s <= score[q]) /\ q # p)
    BY <1>1
  <2>2. /\ page[d] \subseteq After(d)
        /\ \A x \in page[d], q \in After(d) : score[q] < score[x] => q \in page[d]
    BY <1>2, <2>1 DEF PageOK
  <2>3. CASE score[p] = s
    <3>1. score' = score
      BY <1>1, <1>2, <2>3 DEF TypeOK
    <3>2. QED
      BY <1>2, <2>2, <3>1 DEF After, Stored
  <2>4. CASE \A q \in page[d] : ~(s <= score[q]) /\ q # p
    <3>1. page[d] \subseteq Packets /\ s \in Nat /\ cursor' = cursor
      BY <1>2, <1>3 DEF TypeOK
    <3>2. page[d] \subseteq After(d)'
      BY <1>3, <2>2, <2>4, <3>1 DEF After, Stored
    <3>3. ASSUME NEW x \in page[d], NEW q \in After(d)', score'[q] < score'[x] PROVE q \in page[d]
      <4>1. x \in Packets /\ q \in Packets /\ score'[x] = score[x] /\ s > score[x]
        BY <1>3, <2>4, <3>1 DEF After, Stored
      <4>2. q # p
        BY <1>3, <3>1, <3>3, <4>1
      <4>3. q \in After(d) /\ score[q] < score[x]
        BY <1>3, <3>1, <3>3, <4>1, <4>2 DEF After, Stored
      <4>4. QED
        BY <2>2, <4>3
    <3>4. QED
      BY <3>2, <3>3
  <2>5. QED
    BY <2>1, <2>3, <2>4
<1>7. QED
  BY <1>4, <1>5, <1>6 DEF PullInv

LEMMA RemoveKeeps ==
    ASSUME PullInv, TypeOK', NEW gone, Remove(gone), UNCHANGED <<deviceVars, known>>
    PROVE  PullInv'
<1>1. /\ TypeOK /\ ScoreOK /\ NothingPassedOver /\ \A d \in Devices : PageOK(d)
      /\ UNCHANGED <<rpc, page, cursor, known>>
  BY DEF PullInv, deviceVars
<1>2. /\ \A q \in Packets : score'[q] = IF q \in gone THEN 0 ELSE score[q]
      /\ \A d \in Devices : torn'[d] <=> torn[d] \/ gone \intersect page[d] # {}
  BY <1>1 DEF Remove, TypeOK
<1>3. \A q \in Stored' : q \in Stored /\ score'[q] = score[q] /\ q \notin gone
  BY <1>2 DEF Stored
<1>4. ScoreOK' /\ NothingPassedOver'
  BY <1>1, <1>3 DEF ScoreOK, NothingPassedOver, ScoreOf
<1>5. ASSUME NEW d \in Devices PROVE PageOK(d)'
  <2>1. After(d)' \subseteq After(d)
    BY <1>1, <1>3 DEF After
  <2>2. ~torn'[d] => ~torn[d] /\ \A q \in page[d] : q \notin gone
    BY <1>2
  <2>3. \A q \in After(d) : q \notin gone => q \in After(d)' /\ score'[q] = score[q]
    BY <1>1, <1>2 DEF After, Stored
  <2>4. QED
    BY <1>1, <1>3, <2>1, <2>2, <2>3 DEF PageOK, After
<1>6. QED
  BY <1>4, <1>5 DEF PullInv

(* Commands that touch neither the set nor a device.                       *)
LEMMA ApartKeeps ==
    ASSUME PullInv, TypeOK', UNCHANGED <<score, deviceVars, torn, known>>
    PROVE  PullInv'
BY DEF PullInv, deviceVars, ScoreOK, PageOK, NothingPassedOver, After, Stored, ScoreOf

LEMMA PageKeeps ==
    ASSUME PullInv, TypeOK', NEW d \in Devices, PullPage(d)
    PROVE  PullInv'
<1>1. PICK low \in SUBSET After(d) : Lowest(low, After(d), Limit) /\ page' = [page EXCEPT ![d] = low]
  BY DEF PullPage
<1>2. /\ rpc' = [rpc EXCEPT ![d] = "last"] /\ UNCHANGED <<score, cursor, torn, known>>
      /\ TypeOK /\ ScoreOK /\ NothingPassedOver /\ \A e \in Devices : PageOK(e)
  BY DEF PullPage, PullInv
<1>3. ScoreOK' /\ NothingPassedOver' /\ \A e : After(e)' = After(e)
  BY <1>2 DEF ScoreOK, NothingPassedOver, Stored, ScoreOf, After
<1>4. page'[d] = low /\ \A e \in Devices : e # d => page'[e] = page[e] /\ rpc'[e] = rpc[e]
  BY <1>1, <1>2 DEF TypeOK
<1>5. PageOK(d)'
  BY <1>1, <1>2, <1>3, <1>4 DEF PageOK, Lowest
<1>6. \A e \in Devices : e # d => PageOK(e)'
  BY <1>2, <1>3, <1>4 DEF PageOK
<1>7. QED
  BY <1>3, <1>5, <1>6 DEF PullInv

(* A pull returns: its cursor may go on to last if what lies between was on*)
(* the page.                                                               *)
LEMMA ReturnKeeps ==
    ASSUME PullInv, TypeOK', NEW d \in Devices, NEW last \in Nat, PullReturns(d, last),
           \A x \in After(d) : score[x] <= last => x \in page[d] \/ torn[d]
    PROVE  PullInv'
<1>1. /\ rpc' = [rpc EXCEPT ![d] = "idle"] /\ page' = [page EXCEPT ![d] = {}]
      /\ torn' = [torn EXCEPT ![d] = FALSE] /\ cursor' = [cursor EXCEPT ![d] = last]
      /\ known' = [known EXCEPT ![d] = @ \union page[d] \union
                       IF torn[d] THEN {p \in After(d) : score[p] <= last} ELSE {}]
      /\ score' = score
      /\ TypeOK /\ ScoreOK /\ NothingPassedOver /\ \A e \in Devices : PageOK(e)
  BY DEF PullReturns, PullInv
<1>2. /\ rpc'[d] = "idle" /\ cursor'[d] = last
      /\ known'[d] = known[d] \union page[d] \union
                     IF torn[d] THEN {p \in After(d) : score[p] <= last} ELSE {}
      /\ \A e \in Devices : e # d => /\ page'[e] = page[e] /\ rpc'[e] = rpc[e]
                                     /\ torn'[e] = torn[e] /\ cursor'[e] = cursor[e]
                                     /\ known'[e] = known[e]
  BY <1>1 DEF TypeOK
<1>3. ScoreOK' /\ Stored' = Stored
  BY <1>1 DEF ScoreOK, Stored, ScoreOf
<1>4. ASSUME NEW x \in Stored, score[x] <= last PROVE x \in known'[d]
  <2>1. CASE score[x] <= cursor[d]
    BY <1>1, <1>2, <2>1 DEF NothingPassedOver
  <2>2. CASE ~(score[x] <= cursor[d])
    <3>1. x \in After(d)
      BY <1>1, <2>2 DEF After, Stored, TypeOK
    <3>2. QED
      BY <1>2, <1>4, <3>1
  <2>3. QED
    BY <2>1, <2>2
<1>5. NothingPassedOver'
  BY <1>1, <1>2, <1>3, <1>4 DEF NothingPassedOver
<1>6. PageOK(d)'
  BY <1>2 DEF PageOK
<1>7. ASSUME NEW e \in Devices, e # d PROVE PageOK(e)'
  <2>1. After(e)' = After(e)
    BY <1>1, <1>2, <1>3, <1>7 DEF After
  <2>2. QED
    BY <1>1, <1>2, <1>7, <2>1 DEF PageOK
<1>8. QED
  BY <1>3, <1>5, <1>6, <1>7 DEF PullInv

LEMMA PullInvNext ==
    ASSUME PullInv, TypeOK', [Next]_vars
    PROVE  PullInv'
<1>1. ASSUME NEW j \in Enqueuers, NEW p \in Packets, ZAdd(j, p) \/ AddFails(j, p) PROVE PullInv'
  <2>1. UNCHANGED deviceVars /\ (Add(p) \/ UNCHANGED <<score, known, torn>>)
    BY <1>1 DEF ZAdd, AddFails
  <2>2. QED
    BY <2>1, AddKeeps, ApartKeeps
<1>2. ASSUME NEW j \in Enqueuers, ZCard(j) \/ NotTrimmed(j) PROVE PullInv'
  BY <1>2, ApartKeeps DEF ZCard, NotTrimmed
<1>3. ASSUME NEW j \in Enqueuers, Trim(j) PROVE PullInv'
  BY <1>3, RemoveKeeps DEF Trim
<1>4. CASE KeyExpires
  BY <1>4, RemoveKeeps DEF KeyExpires
<1>5. ASSUME NEW d \in Devices, Ack(d) PROVE PullInv'
  BY <1>5, RemoveKeeps DEF Ack
<1>6. ASSUME NEW d \in Devices, PullPage(d) PROVE PullInv'
  BY <1>6, PageKeeps
<1>7. ASSUME NEW d \in Devices, PullLast(d) PROVE PullInv'
  <2>1. PICK p \in After(d) : AtOffset(d, p) /\ PullReturns(d, score[p])
    BY <1>7 DEF PullLast
  <2>2. score[p] \in Nat /\ rpc[d] = "last"
    BY <1>7 DEF PullInv, TypeOK, After, Stored, PullLast
  <2>3. \A x \in After(d) : score[x] <= score[p] => x \in page[d] \/ torn[d]
    BY <2>1, <2>2, LastIsOfPage
  <2>4. QED
    BY <2>1, <2>2, <2>3, ReturnKeeps
<1>8. ASSUME NEW d \in Devices, PullNoLast(d) PROVE PullInv'
  <2>1. cursor[d] \in Nat /\ \A x \in After(d) : ~(score[x] <= cursor[d])
    BY DEF PullInv, TypeOK, After, Stored
  <2>2. QED
    BY <1>8, <2>1, ReturnKeeps DEF PullNoLast
<1>9. CASE UNCHANGED vars
  BY <1>9, ApartKeeps DEF vars
<1>10. QED
  BY <1>1, <1>2, <1>3, <1>4, <1>5, <1>6, <1>7, <1>8, <1>9 DEF Next, Enqueue, Pull

(* PullOffline passes over no stored packet unless it arrived behind the   *)
(* cursor or the set changed under the pull, for any number of enqueuers,  *)
(* devices and limits.                                                     *)
THEOREM PullsPassNothing == Spec => []NothingPassedOver
<1>1. Init => PullInv
  <2>1. ASSUME Init PROVE Stored = {} /\ \A d \in Devices : rpc[d] = "idle"
    BY <2>1 DEF Init, Stored
  <2>2. QED
    BY <2>1, InitTypeOK DEF PullInv, ScoreOK, PageOK, NothingPassedOver
<1>2. PullInv /\ TypeOK' /\ [Next]_vars => PullInv'
  BY PullInvNext
<1>3. PullInv => NothingPassedOver
  BY DEF PullInv
<1>4. QED
  BY <1>1, <1>2, <1>3, QueueTypeCorrect, PTL DEF Spec
-----------------------------------------------------------------------------
(* TrimKeepsNewest.                                                        *)

TrimKeepsNewestStep ==
    \A j \in Enqueuers : pc[j] = "trim" /\ pc'[j] = "idle" /\ Stored' # Stored =>
        /\ Cardinality(Stored') + card[j] >= MaxKeep + Cardinality(Stored)
        /\ \A p \in Stored \ Stored', q \in Stored' : score[p] < score[q]

(* Only a trim ends an enqueue and changes the set.                        *)
LEMMA OnlyTrimEnds ==
    ASSUME TypeOK, [Next]_vars, NEW j \in Enqueuers, pc[j] = "trim", pc'[j] = "idle",
           Stored' # Stored
    PROVE  Trim(j)
<1>1. ASSUME NEW i \in Enqueuers, NEW p \in Packets, ZAdd(i, p) \/ AddFails(i, p) PROVE FALSE
  BY <1>1 DEF ZAdd, AddFails, TypeOK
<1>2. ASSUME NEW i \in Enqueuers, ZCard(i) PROVE FALSE
  BY <1>2 DEF ZCard, TypeOK
<1>3. ASSUME NEW i \in Enqueuers, NotTrimmed(i) PROVE FALSE
  BY <1>3 DEF NotTrimmed, Stored
<1>4. ASSUME NEW i \in Enqueuers, Trim(i) PROVE i = j
  BY <1>4 DEF Trim, Return, TypeOK
<1>5. ASSUME NEW d \in Devices, PullPage(d) \/ PullLast(d) \/ PullNoLast(d) \/ Ack(d) PROVE FALSE
  BY <1>5 DEF PullPage, PullLast, PullNoLast, PullReturns, Ack, queueVars
<1>6. CASE KeyExpires
  BY <1>6 DEF KeyExpires, queueVars
<1>7. CASE UNCHANGED vars
  BY <1>7 DEF vars, queueVars
<1>8. QED
  BY <1>1, <1>2, <1>3, <1>4, <1>5, <1>6, <1>7 DEF Next, Enqueue, Pull

(* A trim takes no more packets than it counted above MaxKeep.             *)
LEMMA TrimTakes ==
    ASSUME TypeOK, ScoreOK, NEW j \in Enqueuers, Trim(j), Stored' # Stored
    PROVE  /\ Cardinality(Stored') + card[j] >= MaxKeep + Cardinality(Stored)
           /\ \A p \in Stored \ Stored', q \in Stored' : score[p] < score[q]
<1>1. PICK old \in SUBSET Stored :
          /\ IF card[j] > MaxKeep THEN Lowest(old, Stored, card[j] - MaxKeep) ELSE old = {}
          /\ Remove(old)
  BY DEF Trim
<1>2. Stored' = Stored \ old
  BY <1>1, RemoveShrinks
<1>3. card[j] > MaxKeep /\ Lowest(old, Stored, card[j] - MaxKeep)
  BY <1>1, <1>2
<1>4. card[j] \in Nat /\ MaxKeep \in Nat /\ Cardinality(Stored) \in Nat /\ IsFiniteSet(Stored)
  BY StoredFinite, QueueAssumption DEF QueueAssumption, TypeOK
<1>5. /\ IsFiniteSet(old) /\ Cardinality(old) \in Nat
      /\ Cardinality(old) <= card[j] - MaxKeep
  <2>1. IsFiniteSet(old) /\ Cardinality(old) \in Nat
    BY <1>4, FS_Subset, FS_CardinalityType
  <2>2. QED
    BY <1>3, <1>4, <2>1 DEF Lowest
<1>6. Cardinality(Stored') = Cardinality(Stored) - Cardinality(old)
  <2>1. Cardinality(Stored \ old) = Cardinality(Stored) - Cardinality(Stored \intersect old)
    BY <1>4, FS_Difference
  <2>2. Stored \intersect old = old
    BY <1>1
  <2>3. QED
    BY <1>2, <2>1, <2>2
<1>7. ASSUME NEW p \in Stored \ Stored', NEW q \in Stored' PROVE score[p] < score[q]
  <2>1. p \in old /\ p \in Stored /\ q \in Stored /\ q \notin old /\ p # q
    BY <1>2
  <2>2. ~(score[q] < score[p])
    BY <1>3, <2>1 DEF Lowest
  <2>3. score[p] # score[q]
    BY <2>1, ScoresDiffer
  <2>4. score[p] \in Nat /\ score[q] \in Nat
    BY <2>1 DEF TypeOK, Stored
  <2>5. QED
    BY <2>2, <2>3, <2>4
<1>8. QED
  BY <1>4, <1>5, <1>6, <1>7

(* However enqueues, pulls and Acks interleave, a trim keeps the newest    *)
(* packets, and too few of them only as the set shrank after its count.    *)
THEOREM TrimsKeepTheNewest == Spec => TrimKeepsNewest
<1>1. Init => PullInv
  <2>1. ASSUME Init PROVE Stored = {} /\ \A d \in Devices : rpc[d] = "idle"
    BY <2>1 DEF Init, Stored
  <2>2. QED
    BY <2>1, InitTypeOK DEF PullInv, ScoreOK, PageOK, NothingPassedOver
<1>2. PullInv /\ TypeOK' /\ [Next]_vars => PullInv'
  BY PullInvNext
<1>3. PullInv /\ [Next]_vars => TrimKeepsNewestStep
  BY OnlyTrimEnds, TrimTakes DEF PullInv, TrimKeepsNewestStep
<1>4. Spec => [][TrimKeepsNewestStep]_vars
  BY <1>1, <1>2, <1>3, QueueTypeCorrect, PTL DEF Spec
<1>5. QED
  BY <1>4 DEF TrimKeepsNewest, TrimKeepsNewestStep
=============================================================================
