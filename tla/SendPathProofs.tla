--------------------------- MODULE SendPathProofs ---------------------------
(***************************************************************************)
(* Proofs about SendPath, for any number of requests, workers, connections,*)
(* conversations, users and client ids.                                    *)
(***************************************************************************)
EXTENDS SendPath, TLAPS

USE DEF NoRow, InTx, Steps, ClientId

(* Next, one disjunct per line, for the case splits below.                 *)
LEMMA NextCases ==
    ASSUME Next
    PROVE  \/ \E h \in Handlers, u \in Users, c \in Convs, d \in ClientId : Receive(h, u, c, d)
           \/ \E h \in Handlers, k \in Conns : NextConvSeq(h, k)
           \/ \E h \in Handlers :
                \/ InsertTx(h) \/ RejectDuplicate(h) \/ EnqueueTx(h)
                \/ Commit(h) \/ CommitUnknown(h) \/ Abort(h)
                \/ SetIdem(h) \/ Publish(h) \/ PublishFails(h) \/ MarkSent(h)
                \/ Reply(h) \/ Die(h)
           \/ \E u \in Users, d \in Cids : ReplayIdem(u, d) \/ IdemExpire(u, d)
           \/ \E k \in Conns : RecycleConn(k)
           \/ \E w \in Workers : FetchDue(w) \/ WorkerDie(w)
           \/ \E w \in Workers, r \in im_outbox :
                \/ WorkerPublish(w, r) \/ WorkerPublishFails(w, r)
                \/ WorkerMarkSent(w, r) \/ WorkerMarkFailed(w, r) \/ WorkerMarkLost(w, r)
           \/ \E r \in im_outbox : BackoffEnds(r)
BY Zenon DEF Next, Send, Deliver

(* Only a commit writes the tables; only the steps of a handler move it.   *)
LEMMA CommitOnly ==
    ASSUME [Next]_vars
    PROVE  (\E h \in Handlers : CommitWrites(h)) \/ UNCHANGED <<im_conv_seq, im_msg, im_outbox>>
<1> USE DEF dbVars, rowVars, handlerVars, workerVars, replyVars
<1>1. CASE UNCHANGED vars
  BY <1>1 DEF vars
<1>2. CASE Next
  BY <1>2, NextCases DEF Receive, NextConvSeq, InsertTx, RejectDuplicate, EnqueueTx, Commit,
     CommitUnknown, Abort, SetIdem, Publish, PublishFails, MarkSent, Reply, Die, ReplayIdem,
     IdemExpire, RecycleConn, FetchDue, WorkerDie, WorkerPublish, WorkerPublishFails,
     WorkerMarkSent, WorkerMarkFailed, WorkerMarkLost, BackoffEnds
<1>3. QED
  BY <1>1, <1>2

LEMMA OtherSteps ==
    ASSUME \/ UNCHANGED vars
           \/ \E u \in Users, d \in Cids : ReplayIdem(u, d) \/ IdemExpire(u, d)
           \/ \E k \in Conns : RecycleConn(k)
           \/ \E w \in Workers : FetchDue(w) \/ WorkerDie(w)
           \/ \E w \in Workers, r \in im_outbox :
                \/ WorkerPublish(w, r) \/ WorkerPublishFails(w, r)
                \/ WorkerMarkSent(w, r) \/ WorkerMarkFailed(w, r) \/ WorkerMarkLost(w, r)
           \/ \E r \in im_outbox : BackoffEnds(r)
    PROVE  UNCHANGED <<im_conv_seq, im_msg, im_outbox, pc, tx, nextMsg, nextRow>>
BY DEF dbVars, rowVars, handlerVars, workerVars, replyVars, vars, ReplayIdem, IdemExpire,
       RecycleConn, FetchDue, WorkerDie, WorkerPublish, WorkerPublishFails,
       WorkerMarkSent, WorkerMarkFailed, WorkerMarkLost, BackoffEnds

LEMMA InitTypeOK == Init => TypeOK
BY SendAssumption DEF Init, TypeOK, SendAssumption

(* The request of a busy handler, and what is made of it.                  *)
LEMMA TxFields ==
    ASSUME TypeOK, NEW h \in Handlers, pc[h] # "idle"
    PROVE  /\ tx[h] \in Tx
           /\ tx[h].msg \in 1..MaxMsg /\ tx[h].user \in Users /\ tx[h].conv \in Convs
           /\ tx[h].cid \in ClientId /\ tx[h].sync \in Nat /\ tx[h].ctr \in Nat
           /\ tx[h].row \in Nat
           /\ EventOf(tx[h]) \in Event /\ MsgOf(tx[h]) \in Msg
<1>1. tx[h] \in Tx
  BY DEF TypeOK
<1>2. QED
  BY <1>1 DEF Tx, EventOf, MsgOf, Event, Msg

LEMMA TxOfFields ==
    ASSUME NEW q, q.msg \in 1..MaxMsg, q.user \in Users, q.conv \in Convs, q.cid \in ClientId,
           NEW sync \in Nat, NEW ctr \in Nat, NEW conn \in Conns \union {NoConn},
           NEW row \in Nat, NEW t, t = TxOf(q, sync, ctr, conn, row)
    PROVE  /\ t \in Tx
           /\ t.msg = q.msg /\ t.user = q.user /\ t.conv = q.conv /\ t.cid = q.cid
           /\ t.sync = sync /\ t.ctr = ctr /\ t.conn = conn /\ t.row = row
BY DEF Tx, TxOf

LEMMA NextSeqType ==
    ASSUME TypeOK, NEW h \in Handlers, pc[h] # "idle", NEW k \in Conns
    PROVE  NextCtr(tx[h].conv, k) \in Nat /\ NextSync(tx[h].conv, k) \in Nat
<1>1. /\ tx[h].conv \in Convs
      /\ im_conv_seq[tx[h].conv] \in Nat \union {-1}
      /\ lastInsertId[k] \in Nat
  BY TxFields DEF TypeOK
<1>2. QED
  BY <1>1 DEF NextCtr, NextSync

(* What the commit of h adds to the tables.                                *)
LEMMA CommitType ==
    ASSUME TypeOK, NEW h \in Handlers, CommitWrites(h)
    PROVE  /\ im_conv_seq' \in [Convs -> Nat \union {NoRow}]
           /\ im_outbox' \subseteq Row /\ due' \subseteq Nat
           /\ im_msg' \subseteq Msg
<1>1. pc[h] # "idle"
  BY DEF CommitWrites
<1>2. im_conv_seq' \in [Convs -> Nat \union {NoRow}]
  BY <1>1, TxFields DEF TypeOK, CommitWrites
<1>3. [id |-> tx[h].row, evt |-> EventOf(tx[h])] \in Row
  BY <1>1, TxFields DEF Row
<1>4. tx[h].row \in Nat /\ MsgOf(tx[h]) \in Msg
  BY <1>1, TxFields
<1>5. QED
  BY <1>2, <1>3, <1>4 DEF TypeOK, CommitWrites

LEMMA NextTypeOK ==
    ASSUME TypeOK, [Next]_vars
    PROVE  TypeOK'
<1> USE SendAssumption DEF SendAssumption, TypeOK, dbVars, rowVars, handlerVars, workerVars, replyVars,
        GoTo, EndRequest
<1>1. ASSUME NEW h \in Handlers, NEW u \in Users, NEW c \in Convs, NEW d \in ClientId,
             Receive(h, u, c, d)
      PROVE  TypeOK'
  <2> DEFINE q == [msg |-> nextMsg, user |-> u, conv |-> c, cid |-> d]
             t == TxOf(q, 0, 0, NoConn, 0)
  <2>1. t \in Tx
    BY <1>1 DEF Receive, TxOf, Tx
  <2>2. tx' = [tx EXCEPT ![h] = t]
    BY <1>1 DEF Receive
  <2> HIDE DEF t
  <2>3. QED
    BY <1>1, <2>1, <2>2 DEF Receive
<1>2. ASSUME NEW h \in Handlers, NEW k \in Conns, NextConvSeq(h, k)
      PROVE  TypeOK'
  <2> DEFINE c == tx[h].conv
             t == TxOf(tx[h], NextSync(c, k), NextCtr(c, k), k, 0)
  <2>1. NextCtr(c, k) \in Nat /\ NextSync(c, k) \in Nat
    BY <1>2, NextSeqType DEF NextConvSeq
  <2>2. t \in Tx
    BY <1>2, <2>1, TxFields DEF NextConvSeq, TxOf, Tx
  <2>3. /\ tx' = [tx EXCEPT ![h] = t]
        /\ lastInsertId' = [lastInsertId EXCEPT ![k] = NextSync(c, k)]
    BY <1>2 DEF NextConvSeq
  <2> HIDE DEF t
  <2>4. QED
    BY <1>2, <2>1, <2>2, <2>3 DEF NextConvSeq
<1>3. ASSUME NEW h \in Handlers, InsertTx(h) PROVE TypeOK'
  BY <1>3 DEF InsertTx
<1>4. ASSUME NEW h \in Handlers, RejectDuplicate(h) PROVE TypeOK'
  BY <1>4, TxFields DEF RejectDuplicate, ClientIdTaken, SameClientId
<1>5. ASSUME NEW h \in Handlers, EnqueueTx(h) PROVE TypeOK'
  <2> DEFINE t == TxOf(tx[h], tx[h].sync, tx[h].ctr, tx[h].conn, nextRow)
  <2>1. t \in Tx
    BY <1>5, TxFields DEF EnqueueTx, TxOf, Tx
  <2>2. tx' = [tx EXCEPT ![h] = t]
    BY <1>5 DEF EnqueueTx
  <2> HIDE DEF t
  <2>3. nextRow \in Nat /\ nextRow' \in Nat \ {0}
    BY <1>5 DEF EnqueueTx
  <2>4. lastInsertId' \in [Conns -> Nat]
    BY <1>5, <2>3 DEF EnqueueTx
  <2>5. /\ pc' \in [Handlers -> Steps]
        /\ tx' \in [Handlers -> Tx \union {NoTx}]
        /\ \A g \in Handlers : IF pc'[g] = "idle" THEN tx'[g] = NoTx ELSE tx'[g] \in Tx
    BY <1>5, <2>1, <2>2 DEF EnqueueTx
  <2>6. QED
    BY <1>5, <2>3, <2>4, <2>5 DEF EnqueueTx
<1>6. ASSUME NEW h \in Handlers, Commit(h) PROVE TypeOK'
  <2> DEFINE t == TxOf(tx[h], tx[h].sync, 0, NoConn, tx[h].row)
  <2>1. t \in Tx
    BY <1>6, TxFields DEF Commit, CommitWrites, TxOf, Tx
  <2>2. tx' = [tx EXCEPT ![h] = t]
    BY <1>6 DEF Commit
  <2> HIDE DEF t
  <2>3. /\ pc' \in [Handlers -> Steps]
        /\ tx' \in [Handlers -> Tx \union {NoTx}]
        /\ \A g \in Handlers : IF pc'[g] = "idle" THEN tx'[g] = NoTx ELSE tx'[g] \in Tx
    BY <1>6, <2>1, <2>2 DEF Commit
  <2>4. QED
    BY <1>6, <2>3, CommitType DEF Commit, CommitWrites
<1>7. ASSUME NEW h \in Handlers, CommitUnknown(h) PROVE TypeOK'
  <2>1. CommitWrites(h)
    BY <1>7 DEF CommitUnknown
  <2>2. QED
    BY <1>7, <2>1, CommitType DEF CommitUnknown, CommitWrites
<1>8. ASSUME NEW h \in Handlers, Abort(h) \/ Die(h) PROVE TypeOK'
  BY <1>8 DEF Abort, Die
<1>9. ASSUME NEW h \in Handlers, SetIdem(h) PROVE TypeOK'
  <2>1. idem' \in [Users -> [Cids -> 0..MaxMsg]]
    <3> DEFINE u == tx[h].user
               d == tx[h].cid
               m == tx[h].msg
    <3>1. u \in Users /\ m \in 0..MaxMsg
      BY <1>9, TxFields DEF SetIdem
    <3>2. [idem[u] EXCEPT ![d] = m] \in [Cids -> 0..MaxMsg]
      BY <3>1
    <3>3. QED
      BY <1>9, <3>1, <3>2 DEF SetIdem
  <2>2. QED
    BY <1>9, <2>1 DEF SetIdem
<1>10. ASSUME NEW h \in Handlers, Publish(h) \/ PublishFails(h) PROVE TypeOK'
  BY <1>10, TxFields DEF Publish, PublishFails
<1>11. ASSUME NEW h \in Handlers, MarkSent(h) PROVE TypeOK'
  BY <1>11, TxFields DEF MarkSent
<1>12. ASSUME NEW h \in Handlers, Reply(h) PROVE TypeOK'
  BY <1>12, TxFields DEF Reply
<1>13. ASSUME NEW u \in Users, NEW d \in Cids, ReplayIdem(u, d) \/ IdemExpire(u, d)
       PROVE  TypeOK'
  <2>1. idem[u][d] \in 0..MaxMsg
    OBVIOUS
  <2>2. CASE ReplayIdem(u, d)
    BY <2>1, <2>2 DEF ReplayIdem
  <2>3. CASE IdemExpire(u, d)
    BY <2>1, <2>3 DEF IdemExpire
  <2>4. QED
    BY <1>13, <2>2, <2>3
<1>14. ASSUME NEW k \in Conns, RecycleConn(k) PROVE TypeOK'
  BY <1>14 DEF RecycleConn
<1>15. ASSUME NEW w \in Workers, FetchDue(w) \/ WorkerDie(w) PROVE TypeOK'
  BY <1>15 DEF FetchDue, WorkerDie, DueRows, LowestOf
<1>16. ASSUME NEW w \in Workers, NEW r \in im_outbox,
              \/ WorkerPublish(w, r) \/ WorkerPublishFails(w, r)
              \/ WorkerMarkSent(w, r) \/ WorkerMarkFailed(w, r) \/ WorkerMarkLost(w, r)
       PROVE  TypeOK'
  BY <1>16 DEF Row, WorkerPublish, WorkerPublishFails, WorkerMarkSent, WorkerMarkFailed,
               WorkerMarkLost, NextRecord, IsHead
<1>17. ASSUME NEW r \in im_outbox, BackoffEnds(r) PROVE TypeOK'
  BY <1>17 DEF Row, BackoffEnds
<1>18. CASE UNCHANGED vars
  BY <1>18 DEF vars
<1>19. QED
  BY <1>1, <1>2, <1>3, <1>4, <1>5, <1>6, <1>7, <1>8, <1>9, <1>10, <1>11, <1>12, <1>13,
     <1>14, <1>15, <1>16, <1>17, <1>18, NextCases

(* Every reachable state is well typed.                                    *)
THEOREM TypeCorrect == Spec => []TypeOK
BY InitTypeOK, NextTypeOK, PTL DEF Spec
-----------------------------------------------------------------------------
(* Steps in which a handler goes from "from" to "to" and keeps its request,*)
(* and steps that end a request.                                           *)
LEMMA HandlerMoves ==
    ASSUME TypeOK, NEW h \in Handlers
    PROVE  /\ \A step : GoTo(h, step) =>
                  /\ pc'[h] = step
                  /\ \A g \in Handlers : g # h => pc'[g] = pc[g]
           /\ \A t : tx' = [tx EXCEPT ![h] = t] =>
                  /\ tx'[h] = t
                  /\ \A g \in Handlers : g # h => tx'[g] = tx[g]
           /\ EndRequest(h) =>
                  /\ pc'[h] = "idle"
                  /\ \A g \in Handlers : g # h => pc'[g] = pc[g] /\ tx'[g] = tx[g]
BY DEF TypeOK, GoTo, EndRequest

(* The transaction that NextConvSeq, EnqueueTx and Commit leave behind.    *)
LEMMA TxAfter ==
    ASSUME TypeOK, NEW h \in Handlers, pc[h] # "idle"
    PROVE  /\ \A k \in Conns : NextConvSeq(h, k) =>
                  /\ tx'[h].sync = NextSync(tx[h].conv, k) /\ tx'[h].ctr = NextCtr(tx[h].conv, k)
                  /\ tx'[h].msg = tx[h].msg /\ tx'[h].user = tx[h].user
                  /\ tx'[h].conv = tx[h].conv /\ tx'[h].cid = tx[h].cid
           /\ EnqueueTx(h) \/ Commit(h) =>
                  /\ MsgOf(tx'[h]) = MsgOf(tx[h]) /\ EventOf(tx'[h]) = EventOf(tx[h])
                  /\ tx'[h].msg = tx[h].msg /\ tx'[h].user = tx[h].user
                  /\ tx'[h].conv = tx[h].conv /\ tx'[h].cid = tx[h].cid
                  /\ tx'[h].sync = tx[h].sync
           /\ EnqueueTx(h) => tx'[h].ctr = tx[h].ctr /\ tx'[h].row = nextRow
           /\ Commit(h) => tx'[h].row = tx[h].row
<1>1. \A k \in Conns : NextConvSeq(h, k) =>
          tx'[h] = TxOf(tx[h], NextSync(tx[h].conv, k), NextCtr(tx[h].conv, k), k, 0)
  BY HandlerMoves DEF NextConvSeq
<1>2. EnqueueTx(h) => tx'[h] = TxOf(tx[h], tx[h].sync, tx[h].ctr, tx[h].conn, nextRow)
  BY HandlerMoves DEF EnqueueTx
<1>3. Commit(h) => tx'[h] = TxOf(tx[h], tx[h].sync, 0, NoConn, tx[h].row)
  BY HandlerMoves DEF Commit
<1>4. \A s, n, k, r : LET v == TxOf(tx[h], s, n, k, r)
                      IN  /\ v.msg = tx[h].msg /\ v.user = tx[h].user
                          /\ v.conv = tx[h].conv /\ v.cid = tx[h].cid
                          /\ v.sync = s /\ v.ctr = n /\ v.row = r
  BY DEF TxOf
<1>5. \A v : /\ v.msg = tx[h].msg /\ v.user = tx[h].user
             /\ v.conv = tx[h].conv /\ v.cid = tx[h].cid
             /\ v.sync = tx[h].sync
             => MsgOf(v) = MsgOf(tx[h]) /\ EventOf(v) = EventOf(tx[h])
  BY DEF MsgOf, EventOf
<1>6. QED
  BY <1>1, <1>2, <1>3, <1>4, <1>5

LEMMA NumberingInit == Init => Numbering
BY DEF Init, Numbering

(* The row lock keeps the pending counter of a transaction the successor of*)
(* the committed one.                                                      *)
LEMMA NumberingStep ==
    ASSUME TypeOK, Numbering, [Next]_vars
    PROVE  Numbering'
<1> USE DEF dbVars, rowVars, handlerVars, workerVars, replyVars
<1>1. ASSUME NEW h \in Handlers, NEW u \in Users, NEW c \in Convs, NEW d \in ClientId,
             Receive(h, u, c, d)
      PROVE  Numbering'
  BY <1>1, HandlerMoves DEF Receive, Numbering
<1>2. ASSUME NEW h \in Handlers, NEW k \in Conns, NextConvSeq(h, k)
      PROVE  Numbering'
  <2>1. pc[h] = "begin" /\ \A g \in Handlers : ~HoldsConv(g, tx[h].conv)
    BY <1>2 DEF NextConvSeq
  <2>2. /\ im_conv_seq' = im_conv_seq /\ im_msg' = im_msg /\ pc'[h] = "insert"
        /\ \A g \in Handlers : g # h => pc'[g] = pc[g] /\ tx'[g] = tx[g]
    BY <1>2, HandlerMoves DEF NextConvSeq
  <2>3. /\ tx'[h].conv = tx[h].conv
        /\ tx'[h].sync = NextSync(tx[h].conv, k) /\ tx'[h].ctr = NextCtr(tx[h].conv, k)
    BY <1>2, <2>1, TxAfter
  <2>4. im_conv_seq[tx[h].conv] \in Nat \union {-1} /\ lastInsertId[k] \in Nat
    BY <2>1, TxFields DEF TypeOK
  <2>5. QED
    BY <2>1, <2>2, <2>3, <2>4 DEF Numbering, HoldsConv, NextSync, NextCtr
<1>3. ASSUME NEW h \in Handlers, InsertTx(h)
      PROVE  Numbering'
  BY <1>3, HandlerMoves DEF InsertTx, Numbering
<1>4. ASSUME NEW h \in Handlers, EnqueueTx(h)
      PROVE  Numbering'
  <2>1. /\ im_conv_seq' = im_conv_seq /\ im_msg' = im_msg
        /\ pc[h] = "enqueue" /\ pc'[h] = "commit"
        /\ \A g \in Handlers : g # h => pc'[g] = pc[g] /\ tx'[g] = tx[g]
    BY <1>4, HandlerMoves DEF EnqueueTx
  <2>2. tx'[h].conv = tx[h].conv /\ tx'[h].sync = tx[h].sync /\ tx'[h].ctr = tx[h].ctr
    BY <1>4, <2>1, TxAfter
  <2>3. QED
    BY <2>1, <2>2 DEF Numbering
<1>5. ASSUME NEW h \in Handlers, Commit(h) \/ CommitUnknown(h)
      PROVE  Numbering'
  <2>1. pc[h] = "commit" /\ pc'[h] \notin InTx
        /\ \A g \in Handlers : g # h => pc'[g] = pc[g] /\ tx'[g] = tx[g]
    BY <1>5, HandlerMoves DEF Commit, CommitUnknown, CommitWrites
  <2>2. \A c \in Convs : c # tx[h].conv => im_conv_seq'[c] = im_conv_seq[c]
    BY <1>5 DEF Commit, CommitUnknown, CommitWrites, TypeOK
  <2>3. \A g \in Handlers : pc[g] \in InTx /\ g # h => tx[g].conv \in Convs /\ tx[g].conv # tx[h].conv
    BY <2>1, TxFields DEF Numbering
  <2>4. \A m \in im_msg' : im_conv_seq'[m.conv] # NoRow
    <3>1. im_msg' = im_msg \union {MsgOf(tx[h])} /\ MsgOf(tx[h]).conv = tx[h].conv
      BY <1>5 DEF Commit, CommitUnknown, CommitWrites, MsgOf
    <3>2. tx[h].conv \in Convs /\ tx[h].ctr \in Nat /\ im_conv_seq'[tx[h].conv] = tx[h].ctr
      BY <1>5, <2>1, TxFields DEF Commit, CommitUnknown, CommitWrites, TypeOK
    <3>3. \A m \in im_msg : m.conv \in Convs
      BY DEF TypeOK, Msg
    <3>4. QED
      BY <2>2, <3>1, <3>2, <3>3 DEF Numbering
  <2>5. QED
    BY <2>1, <2>2, <2>3, <2>4 DEF Numbering
<1>6. ASSUME NEW h \in Handlers,
             \/ RejectDuplicate(h) \/ Abort(h) \/ Reply(h) \/ Die(h)
      PROVE  Numbering'
  BY <1>6, HandlerMoves DEF RejectDuplicate, Abort, Reply, Die, Numbering
<1>7. ASSUME NEW h \in Handlers,
             \/ SetIdem(h) \/ Publish(h) \/ PublishFails(h) \/ MarkSent(h)
      PROVE  Numbering'
  BY <1>7, HandlerMoves DEF SetIdem, Publish, PublishFails, MarkSent, Numbering
<1>8. CASE UNCHANGED <<im_conv_seq, im_msg, pc, tx>>
  BY <1>8 DEF Numbering
<1>9. QED
  BY <1>1, <1>2, <1>3, <1>4, <1>5, <1>6, <1>7, <1>8, NextCases, OtherSteps

LEMMA NoGapsInit == Init => NoGaps
BY DEF Init, NoGaps

LEMMA NoGapsStep ==
    ASSUME TypeOK, Numbering, NoGaps, [Next]_vars
    PROVE  NoGaps'
<1>1. CASE UNCHANGED <<im_conv_seq, im_msg>>
  BY <1>1 DEF NoGaps
<1>2. ASSUME NEW h \in Handlers, CommitWrites(h)
      PROVE  NoGaps'
  <2> DEFINE c == tx[h].conv
             m == MsgOf(tx[h])
  <2>1. /\ pc[h] = "commit" /\ c \in Convs /\ tx[h].sync \in Nat /\ tx[h].ctr \in Nat
        /\ m.conv = c /\ m.sync = tx[h].sync
    BY <1>2, TxFields DEF CommitWrites, MsgOf
  <2>2. im_msg' = im_msg \union {m} /\ im_conv_seq' = [im_conv_seq EXCEPT ![c] = tx[h].ctr]
    BY <1>2 DEF CommitWrites
  <2> HIDE DEF m
  <2>3. ASSUME NEW e \in Convs, NEW n \in 1..im_conv_seq'[e]
        PROVE  \E x \in im_msg' : x.conv = e /\ x.sync = n
    <3>1. CASE e # c
      BY <3>1, <2>2 DEF NoGaps, TypeOK
    <3>2. CASE e = c
      <4>1. n \in 1..tx[h].ctr
        BY <3>2, <2>2, <2>1 DEF TypeOK
      <4>2. im_conv_seq[c] \in Nat \union {-1}
        BY <2>1 DEF TypeOK
      <4>3. n \in 1..im_conv_seq[c] \/ n = tx[h].sync
        BY <4>1, <4>2, <2>1 DEF Numbering
      <4>4. QED
        BY <4>3, <3>2, <2>1, <2>2 DEF NoGaps
    <3>3. QED
      BY <3>1, <3>2
  <2>4. QED
    BY <2>3 DEF NoGaps
<1>3. QED
  BY <1>1, <1>2, CommitOnly
(* A number that becomes visible is above all visible ones.                *)
SyncFollowsCommitStep ==
    \A m \in im_msg' \ im_msg :
        WellNumbered(m.conv) => \A o \in im_msg : o.conv = m.conv => o.sync < m.sync

LEMMA CommitOrder ==
    ASSUME TypeOK, Numbering, [Next]_vars
    PROVE  SyncFollowsCommitStep
<1>1. CASE UNCHANGED im_msg
  BY <1>1 DEF SyncFollowsCommitStep
<1>2. ASSUME NEW h \in Handlers, CommitWrites(h)
      PROVE  SyncFollowsCommitStep
  <2> DEFINE c == tx[h].conv
             m == MsgOf(tx[h])
  <2>1. /\ pc[h] = "commit" /\ c \in Convs /\ tx[h].sync \in Nat /\ tx[h].ctr \in Nat
        /\ m.conv = c /\ m.sync = tx[h].sync
    BY <1>2, TxFields DEF CommitWrites, MsgOf
  <2>2. im_msg' = im_msg \union {m}
    BY <1>2 DEF CommitWrites
  <2> HIDE DEF m
  <2>3. ASSUME WellNumbered(c), NEW o \in im_msg, o.conv = c
        PROVE  o.sync < m.sync
    <3>1. o.sync \in Nat /\ o.sync <= im_conv_seq[c]
      BY <2>3 DEF WellNumbered, TypeOK, Msg
    <3>2. im_conv_seq[c] \in Nat \union {-1}
      BY <2>1 DEF TypeOK
    <3>3. m.sync = im_conv_seq[c] + 1
      BY <2>1, <3>1, <3>2 DEF Numbering
    <3>4. QED
      BY <3>1, <3>2, <3>3
  <2>4. QED
    BY <2>1, <2>2, <2>3 DEF SyncFollowsCommitStep
<1>3. QED
  BY <1>1, <1>2, CommitOnly

(***************************************************************************)
(* A conversation's sequence has no holes, and its numbers become visible  *)
(* in their order.                                                         *)
(***************************************************************************)
THEOREM SequenceHasNoGaps == Spec => []NoGaps
<1>1. Init => TypeOK /\ Numbering /\ NoGaps
  BY InitTypeOK, NumberingInit, NoGapsInit
<1>2. TypeOK /\ Numbering /\ NoGaps /\ [Next]_vars => TypeOK' /\ Numbering' /\ NoGaps'
  BY NextTypeOK, NumberingStep, NoGapsStep
<1>3. QED
  BY <1>1, <1>2, PTL DEF Spec

THEOREM SequenceInCommitOrder == Spec => SyncFollowsCommit
<1>1. Init => TypeOK /\ Numbering
  BY InitTypeOK, NumberingInit
<1>2. TypeOK /\ Numbering /\ [Next]_vars => TypeOK' /\ Numbering'
  BY NextTypeOK, NumberingStep
<1>3. TypeOK /\ Numbering /\ [Next]_vars => [SyncFollowsCommitStep]_vars
  BY CommitOrder
<1>4. Spec => [][SyncFollowsCommitStep]_vars
  BY <1>1, <1>2, <1>3, PTL DEF Spec
<1>5. QED
  BY <1>4 DEF SyncFollowsCommit, SyncFollowsCommitStep

(* Once the counter has its row, a commit stores the counter's new value.  *)
StaysWellStep ==
    \A c \in Convs :
        WellNumbered(c) /\ (\E m \in im_msg : m.conv = c) => WellNumbered(c)'

LEMMA CommitStaysWell ==
    ASSUME TypeOK, Numbering, [Next]_vars
    PROVE  StaysWellStep
<1>1. CASE UNCHANGED <<im_conv_seq, im_msg>>
  BY <1>1 DEF StaysWellStep, WellNumbered
<1>2. ASSUME NEW h \in Handlers, CommitWrites(h)
      PROVE  StaysWellStep
  <2> SUFFICES ASSUME NEW c \in Convs, WellNumbered(c), NEW o \in im_msg, o.conv = c,
                      NEW m \in im_msg', m.conv = c
               PROVE  m.sync <= im_conv_seq'[c]
    BY DEF StaysWellStep, WellNumbered
  <2>1. /\ pc[h] = "commit" /\ tx[h].conv \in Convs /\ tx[h].sync \in Nat /\ tx[h].ctr \in Nat
        /\ MsgOf(tx[h]).conv = tx[h].conv /\ MsgOf(tx[h]).sync = tx[h].sync
    BY <1>2, TxFields DEF CommitWrites, MsgOf
  <2>2. /\ im_msg' = im_msg \union {MsgOf(tx[h])}
        /\ im_conv_seq' = [im_conv_seq EXCEPT ![tx[h].conv] = tx[h].ctr]
    BY <1>2 DEF CommitWrites
  <2>3. im_conv_seq[c] \in Nat
    BY DEF TypeOK, Numbering
  <2>4. CASE tx[h].conv # c
    <3>1. m \in im_msg /\ im_conv_seq'[c] = im_conv_seq[c]
      BY <2>1, <2>2, <2>4 DEF TypeOK
    <3>2. QED
      BY <3>1 DEF WellNumbered
  <2>5. CASE tx[h].conv = c
    <3>1. tx[h].sync = im_conv_seq[c] + 1 /\ im_conv_seq'[c] = im_conv_seq[c] + 1
      BY <2>1, <2>2, <2>3, <2>5 DEF Numbering, TypeOK
    <3>2. CASE m \in im_msg
      <4>1. m.sync <= im_conv_seq[c] /\ m.sync \in Nat
        BY <3>2 DEF WellNumbered, TypeOK, Msg
      <4>2. QED
        BY <2>3, <3>1, <4>1
    <3>3. CASE m = MsgOf(tx[h])
      BY <2>1, <2>3, <3>1, <3>3
    <3>4. QED
      BY <2>2, <3>2, <3>3
  <2>6. QED
    BY <2>4, <2>5
<1>3. QED
  BY <1>1, <1>2, CommitOnly

(* A conversation is misnumbered by its first message or never.            *)
THEOREM StaleIdHarmsFirstOnly == Spec => StaysWellNumbered
<1>1. Init => TypeOK /\ Numbering
  BY InitTypeOK, NumberingInit
<1>2. TypeOK /\ Numbering /\ [Next]_vars => TypeOK' /\ Numbering'
  BY NextTypeOK, NumberingStep
<1>3. TypeOK /\ Numbering /\ [Next]_vars => [StaysWellStep]_vars
  BY CommitStaysWell
<1>4. Spec => [][StaysWellStep]_vars
  BY <1>1, <1>2, <1>3, PTL DEF Spec
<1>5. QED
  BY <1>4 DEF StaysWellNumbered, StaysWellStep

-----------------------------------------------------------------------------
LEMMA CommittedInit == Init => Committed
BY DEF Init, Committed, Done

(* Only committed work is published.                                       *)
LEMMA CommittedStep ==
    ASSUME TypeOK, Committed, [Next]_vars
    PROVE  Committed'
<1> USE DEF dbVars, rowVars, handlerVars, workerVars, replyVars, Done
<1>1. ASSUME NEW h \in Handlers, NEW u \in Users, NEW c \in Convs, NEW d \in ClientId,
             Receive(h, u, c, d)
      PROVE  Committed'
  BY <1>1, HandlerMoves DEF Receive, Committed
<1>2. ASSUME NEW h \in Handlers, NEW k \in Conns, NextConvSeq(h, k)
      PROVE  Committed'
  BY <1>2, HandlerMoves DEF NextConvSeq, Committed
<1>3. ASSUME NEW h \in Handlers, InsertTx(h) \/ EnqueueTx(h)
      PROVE  Committed'
  BY <1>3, HandlerMoves DEF InsertTx, EnqueueTx, Committed
<1>4. ASSUME NEW h \in Handlers, Commit(h) \/ CommitUnknown(h)
      PROVE  Committed'
  <2> DEFINE m == MsgOf(tx[h])
             e == EventOf(tx[h])
             r == [id |-> tx[h].row, evt |-> e]
  <2>1. /\ im_msg' = im_msg \union {m} /\ im_outbox' = im_outbox \union {r}
        /\ wrows' = wrows /\ pc[h] = "commit"
        /\ \A g \in Handlers : g # h => pc'[g] = pc[g] /\ tx'[g] = tx[g]
    BY <1>4, HandlerMoves DEF Commit, CommitUnknown, CommitWrites
  <2>2. EventOf(m) = e /\ r.evt = e
    BY DEF EventOf, MsgOf
  <2>3. pc'[h] # "idle" => /\ Commit(h)
                           /\ MsgOf(tx'[h]) = m /\ EventOf(tx'[h]) = e /\ tx'[h].row = tx[h].row
    BY <1>4, <2>1, HandlerMoves, TxAfter DEF CommitUnknown
  <2>4. \A g \in Handlers : pc'[g] \in Done =>
            /\ MsgOf(tx'[g]) \in im_msg'
            /\ [id |-> tx'[g].row, evt |-> EventOf(tx'[g])] \in im_outbox'
    <3>1. CASE pc'[h] = "idle"
      BY <2>1, <3>1 DEF Committed
    <3>2. CASE pc'[h] # "idle"
      BY <2>1, <2>3, <3>2 DEF Committed
    <3>3. QED
      BY <3>1, <3>2
  <2> HIDE DEF m, e, r
  <2>5. \A q \in im_outbox' : \E x \in im_msg' : EventOf(x) = q.evt
    BY <2>1, <2>2 DEF Committed
  <2>6. \A w \in Workers : wrows'[w] \subseteq im_outbox'
    BY <2>1 DEF Committed
  <2>7. QED
    BY <2>4, <2>5, <2>6 DEF Committed
<1>5. ASSUME NEW h \in Handlers,
             \/ RejectDuplicate(h) \/ Abort(h) \/ Reply(h) \/ Die(h)
      PROVE  Committed'
  BY <1>5, HandlerMoves DEF RejectDuplicate, Abort, Reply, Die, Committed
<1>6. ASSUME NEW h \in Handlers,
             \/ SetIdem(h) \/ Publish(h) \/ PublishFails(h) \/ MarkSent(h)
      PROVE  Committed'
  BY <1>6, HandlerMoves DEF SetIdem, Publish, PublishFails, MarkSent, Committed
<1>7. ASSUME NEW w \in Workers, FetchDue(w) \/ WorkerDie(w)
      PROVE  Committed'
  <2>1. LowestOf(DueRows, Batch) \subseteq im_outbox
    BY DEF LowestOf, DueRows
  <2>2. wrows'[w] \subseteq im_outbox /\ \A v \in Workers : v # w => wrows'[v] = wrows[v]
    BY <1>7, <2>1 DEF FetchDue, WorkerDie, TypeOK
  <2>3. UNCHANGED <<im_msg, im_outbox, pc, tx>>
    BY <1>7 DEF FetchDue, WorkerDie
  <2>4. QED
    BY <2>2, <2>3 DEF Committed
<1>8. ASSUME NEW w \in Workers, NEW r \in im_outbox,
             \/ WorkerPublish(w, r) \/ WorkerPublishFails(w, r)
             \/ WorkerMarkSent(w, r) \/ WorkerMarkFailed(w, r) \/ WorkerMarkLost(w, r)
      PROVE  Committed'
  BY <1>8 DEF WorkerPublish, WorkerPublishFails, WorkerMarkSent, WorkerMarkFailed,
              WorkerMarkLost, NextRecord, Committed, TypeOK
<1>9. CASE UNCHANGED <<im_msg, im_outbox, pc, tx, wrows>>
  BY <1>9 DEF Committed
<1>10. QED
  BY <1>1, <1>2, <1>3, <1>4, <1>5, <1>6, <1>7, <1>8, <1>9, NextCases
     DEF ReplayIdem, IdemExpire, RecycleConn, BackoffEnds, vars

LEMMA EventIsStoredInit == Init => EventIsStored
BY DEF Init, EventIsStored

LEMMA EventIsStoredStep ==
    ASSUME TypeOK, Committed, EventIsStored, [Next]_vars
    PROVE  EventIsStored'
<1>1. im_msg \subseteq im_msg'
  BY CommitOnly DEF CommitWrites
<1>2. ASSUME NEW e \in mq', e \notin mq
      PROVE  \E m \in im_msg : EventOf(m) = e
  <2>1. \/ \E h \in Handlers : pc[h] = "publish" /\ e = EventOf(tx[h])
        \/ \E r \in im_outbox : e = r.evt
    BY <1>2, NextCases
       DEF dbVars, rowVars, handlerVars, workerVars, replyVars, vars, Receive, NextConvSeq,
           InsertTx, RejectDuplicate, EnqueueTx, Commit, CommitUnknown, CommitWrites, Abort,
           SetIdem, Publish, PublishFails, MarkSent, Reply, Die, ReplayIdem, IdemExpire,
           RecycleConn, FetchDue, WorkerDie, WorkerPublish, WorkerPublishFails,
           WorkerMarkSent, WorkerMarkFailed, WorkerMarkLost, BackoffEnds
  <2>2. ASSUME NEW h \in Handlers, pc[h] = "publish", e = EventOf(tx[h])
        PROVE  \E m \in im_msg : EventOf(m) = e
    <3>1. MsgOf(tx[h]) \in im_msg
      BY <2>2 DEF Committed, Done
    <3>2. EventOf(MsgOf(tx[h])) = e
      BY <2>2 DEF EventOf, MsgOf
    <3>3. QED
      BY <3>1, <3>2
  <2>3. QED
    BY <2>1, <2>2 DEF Committed
<1>3. QED
  BY <1>1, <1>2 DEF EventIsStored

(* Only committed messages are announced, under their own number.          *)
THEOREM OnlyStoredAnnounced == Spec => []EventIsStored
<1>1. Init => TypeOK /\ Committed /\ EventIsStored
  BY InitTypeOK, CommittedInit, EventIsStoredInit
<1>2. TypeOK /\ Committed /\ EventIsStored /\ [Next]_vars
          => TypeOK' /\ Committed' /\ EventIsStored'
  BY NextTypeOK, CommittedStep, EventIsStoredStep
<1>3. QED
  BY <1>1, <1>2, PTL DEF Spec
-----------------------------------------------------------------------------
LEMMA RowIdsInit == Init => RowIds
BY DEF Init, RowIds

(* AUTO_INCREMENT never hands out an id twice, whatever is rolled back.    *)
LEMMA RowIdsStep ==
    ASSUME TypeOK, RowIds, [Next]_vars
    PROVE  RowIds'
<1> USE DEF dbVars, rowVars, handlerVars, workerVars, replyVars
<1>1. ASSUME NEW h \in Handlers, NEW u \in Users, NEW c \in Convs, NEW d \in ClientId,
             Receive(h, u, c, d)
      PROVE  RowIds'
  BY <1>1, HandlerMoves DEF Receive, RowIds
<1>2. ASSUME NEW h \in Handlers, NEW k \in Conns, NextConvSeq(h, k)
      PROVE  RowIds'
  BY <1>2, HandlerMoves DEF NextConvSeq, RowIds
<1>3. ASSUME NEW h \in Handlers, EnqueueTx(h)
      PROVE  RowIds'
  <2>1. /\ pc[h] = "enqueue" /\ im_outbox' = im_outbox /\ nextRow' = nextRow + 1
        /\ \A g \in Handlers : g # h => pc'[g] = pc[g] /\ tx'[g] = tx[g]
    BY <1>3, HandlerMoves DEF EnqueueTx
  <2>2. tx'[h].row = nextRow
    BY <1>3, <2>1, TxAfter
  <2>3. nextRow \in Nat /\ \A r \in im_outbox : r.id \in Nat
    BY DEF TypeOK, Row
  <2>4. \A g \in Handlers : pc[g] = "commit" => tx[g].row \in Nat
    BY TxFields
  <2>5. QED
    BY <2>1, <2>2, <2>3, <2>4 DEF RowIds
<1>4. ASSUME NEW h \in Handlers, Commit(h) \/ CommitUnknown(h)
      PROVE  RowIds'
  <2> DEFINE r == [id |-> tx[h].row, evt |-> EventOf(tx[h])]
  <2>1. /\ im_outbox' = im_outbox \union {r} /\ nextRow' = nextRow
        /\ pc[h] = "commit" /\ pc'[h] # "commit"
        /\ \A g \in Handlers : g # h => pc'[g] = pc[g] /\ tx'[g] = tx[g]
    BY <1>4, HandlerMoves DEF Commit, CommitUnknown, CommitWrites
  <2>2. r.id = tx[h].row
    OBVIOUS
  <2> HIDE DEF r
  <2>3. QED
    BY <2>1, <2>2 DEF RowIds
<1>5. ASSUME NEW h \in Handlers,
             \/ InsertTx(h) \/ RejectDuplicate(h) \/ Abort(h) \/ Reply(h) \/ Die(h)
             \/ SetIdem(h) \/ Publish(h) \/ PublishFails(h) \/ MarkSent(h)
      PROVE  RowIds'
  BY <1>5, HandlerMoves DEF InsertTx, RejectDuplicate, Abort, Reply, Die, SetIdem, Publish,
     PublishFails, MarkSent, RowIds
<1>6. CASE UNCHANGED <<im_outbox, nextRow, pc, tx>>
  BY <1>6 DEF RowIds
<1>7. QED
  BY <1>1, <1>2, <1>3, <1>4, <1>5, <1>6, NextCases, OtherSteps

LEMMA MarksInit == Init => Marks
BY DEF Init, Marks

(* A row leaves the list only when its event is in the topic.              *)
LEMMA MarksStep ==
    ASSUME TypeOK, Committed, RowIds, Marks, [Next]_vars
    PROVE  Marks'
<1> USE DEF dbVars, rowVars, handlerVars, workerVars, replyVars
<1>1. ASSUME NEW h \in Handlers, NEW u \in Users, NEW c \in Convs, NEW d \in ClientId,
             Receive(h, u, c, d)
      PROVE  Marks'
  BY <1>1, HandlerMoves DEF Receive, Marks, IsHead
<1>2. ASSUME NEW h \in Handlers, NEW k \in Conns, NextConvSeq(h, k)
      PROVE  Marks'
  BY <1>2, HandlerMoves DEF NextConvSeq, Marks, IsHead
<1>3. ASSUME NEW h \in Handlers,
             \/ InsertTx(h) \/ RejectDuplicate(h) \/ EnqueueTx(h) \/ Abort(h)
             \/ Reply(h) \/ Die(h) \/ SetIdem(h)
      PROVE  Marks'
  BY <1>3, HandlerMoves DEF InsertTx, RejectDuplicate, EnqueueTx, Abort, Reply, Die, SetIdem,
     Marks, IsHead
<1>4. ASSUME NEW h \in Handlers, Publish(h) \/ PublishFails(h)
      PROVE  Marks'
  BY <1>4, HandlerMoves DEF Publish, PublishFails, Marks, IsHead
<1>5. ASSUME NEW h \in Handlers, Commit(h) \/ CommitUnknown(h)
      PROVE  Marks'
  <2> DEFINE m == MsgOf(tx[h])
             r == [id |-> tx[h].row, evt |-> EventOf(tx[h])]
  <2>1. /\ im_msg' = im_msg \union {m} /\ im_outbox' = im_outbox \union {r}
        /\ UNCHANGED <<sent, mq, wpc, wrows>>
        /\ pc[h] = "commit" /\ pc'[h] # "mark"
        /\ \A g \in Handlers : g # h => pc'[g] = pc[g] /\ tx'[g] = tx[g]
    BY <1>5, HandlerMoves DEF Commit, CommitUnknown, CommitWrites
  <2>2. r.id = tx[h].row /\ r.evt = EventOf(m)
    BY DEF EventOf, MsgOf
  <2>3. tx[h].row \notin sent
    BY <2>1 DEF RowIds, Marks
  <2> HIDE DEF r, m
  <2>4. QED
    BY <2>1, <2>2, <2>3 DEF Marks, IsHead
<1>6. ASSUME NEW h \in Handlers, MarkSent(h)
      PROVE  Marks'
  <2> DEFINE r == [id |-> tx[h].row, evt |-> EventOf(tx[h])]
  <2>1. r \in im_outbox /\ r.evt \in mq
    BY <1>6 DEF MarkSent, Committed, Marks, Done
  <2>2. r.id = tx[h].row
    OBVIOUS
  <2> HIDE DEF r
  <2>3. /\ sent' \subseteq sent \union {r.id} /\ UNCHANGED <<im_msg, im_outbox, mq, wpc, wrows, tx>>
        /\ pc'[h] # "mark" /\ \A g \in Handlers : g # h => pc'[g] = pc[g]
    BY <1>6, <2>2, HandlerMoves DEF MarkSent
  <2>4. QED
    BY <2>1, <2>3 DEF Marks, RowIds, IsHead
<1>7. ASSUME NEW w \in Workers, FetchDue(w) \/ WorkerDie(w)
      PROVE  Marks'
  BY <1>7 DEF FetchDue, WorkerDie, TypeOK, Marks, IsHead
<1>8. ASSUME NEW w \in Workers, NEW r \in im_outbox,
             WorkerPublish(w, r) \/ WorkerPublishFails(w, r)
      PROVE  Marks'
  <2>1. /\ UNCHANGED <<im_msg, im_outbox, sent, wrows, pc, tx>> /\ mq \subseteq mq'
        /\ \A v \in Workers : v # w => wpc'[v] = wpc[v]
        /\ IsHead(w, r)
    BY <1>8 DEF WorkerPublish, WorkerPublishFails, TypeOK
  <2>2. wpc'[w] = "sent" => r.evt \in mq'
    BY <1>8 DEF WorkerPublish, WorkerPublishFails, TypeOK
  <2>3. \A q \in wrows[w] : IsHead(w, q) => q = r
    <3>1. \A q \in wrows[w] : q \in im_outbox /\ q.id \in Nat
      BY DEF Committed, TypeOK, Row
    <3>2. QED
      BY <2>1, <3>1 DEF IsHead, RowIds
  <2>4. QED
    BY <2>1, <2>2, <2>3 DEF Marks, IsHead
<1>9. ASSUME NEW w \in Workers, NEW r \in im_outbox, WorkerMarkSent(w, r)
      PROVE  Marks'
  <2>1. r.evt \in mq
    BY <1>9 DEF WorkerMarkSent, IsHead, Marks
  <2>2. /\ sent' = sent \union {r.id} /\ UNCHANGED <<im_msg, im_outbox, mq, pc, tx>>
        /\ wpc'[w] # "sent"
        /\ \A v \in Workers : v # w => wpc'[v] = wpc[v] /\ wrows'[v] = wrows[v]
    BY <1>9 DEF WorkerMarkSent, NextRecord, TypeOK
  <2>3. QED
    BY <2>1, <2>2 DEF Marks, RowIds, IsHead
<1>10. ASSUME NEW w \in Workers, NEW r \in im_outbox,
              WorkerMarkFailed(w, r) \/ WorkerMarkLost(w, r)
       PROVE  Marks'
  <2>1. /\ UNCHANGED <<im_msg, im_outbox, mq, sent, pc, tx>>
        /\ wpc'[w] # "sent"
        /\ \A v \in Workers : v # w => wpc'[v] = wpc[v] /\ wrows'[v] = wrows[v]
    BY <1>10 DEF WorkerMarkFailed, WorkerMarkLost, NextRecord, TypeOK
  <2>2. QED
    BY <2>1 DEF Marks, IsHead
<1>11. CASE UNCHANGED <<im_msg, im_outbox, sent, mq, pc, tx, wpc, wrows>>
  BY <1>11 DEF Marks, IsHead
<1>12. QED
  BY <1>1, <1>2, <1>3, <1>4, <1>5, <1>6, <1>7, <1>8, <1>9, <1>10, <1>11, NextCases
     DEF ReplayIdem, IdemExpire, RecycleConn, BackoffEnds, vars

(* No interleaving of handlers and workers loses an event.                 *)
THEOREM NothingIsForgotten == Spec => []NothingForgotten
<1>1. Init => TypeOK /\ Committed /\ RowIds /\ Marks
  BY InitTypeOK, CommittedInit, RowIdsInit, MarksInit
<1>2. TypeOK /\ Committed /\ RowIds /\ Marks /\ [Next]_vars
          => TypeOK' /\ Committed' /\ RowIds' /\ Marks'
  BY NextTypeOK, CommittedStep, RowIdsStep, MarksStep
<1>3. Marks => NothingForgotten
  BY DEF Marks, NothingForgotten
<1>4. QED
  BY <1>1, <1>2, <1>3, PTL DEF Spec
-----------------------------------------------------------------------------
LEMMA MsgIdsInit == Init => MsgIds
BY DEF Init, MsgIds

(* Message ids are unique among stored messages and requests under way.    *)
LEMMA MsgIdsStep ==
    ASSUME TypeOK, MsgIds, [Next]_vars
    PROVE  MsgIds'
<1> USE DEF dbVars, rowVars, handlerVars, workerVars, replyVars
<1>a. /\ nextMsg \in Nat /\ \A m \in im_msg : m.msg \in Nat
      /\ \A h \in Handlers : pc[h] # "idle" => tx[h].msg \in Nat
  BY TxFields, SendAssumption DEF TypeOK, Msg, SendAssumption
<1>1. ASSUME NEW h \in Handlers, NEW u \in Users, NEW c \in Convs, NEW d \in ClientId,
             Receive(h, u, c, d)
      PROVE  MsgIds'
  <2>1. /\ im_msg' = im_msg /\ nextMsg' = nextMsg + 1 /\ pc'[h] = "begin" /\ pc[h] = "idle"
        /\ \A g \in Handlers : g # h => pc'[g] = pc[g] /\ tx'[g] = tx[g]
    BY <1>1, HandlerMoves DEF Receive
  <2>2. tx'[h].msg = nextMsg
    <3> DEFINE q == [msg |-> nextMsg, user |-> u, conv |-> c, cid |-> d]
    <3>1. tx'[h] = TxOf(q, 0, 0, NoConn, 0)
      BY <1>1, HandlerMoves DEF Receive
    <3>2. QED
      BY <3>1 DEF TxOf
  <2>3. QED
    BY <1>a, <2>1, <2>2 DEF MsgIds
<1>2. ASSUME NEW h \in Handlers, (\E k \in Conns : NextConvSeq(h, k)) \/ EnqueueTx(h)
      PROVE  MsgIds'
  <2>1. /\ UNCHANGED <<im_msg, nextMsg>> /\ pc[h] \in InTx \union {"begin"}
        /\ \A g \in Handlers : g # h => pc'[g] = pc[g] /\ tx'[g] = tx[g]
    BY <1>2, HandlerMoves DEF NextConvSeq, EnqueueTx
  <2>2. tx'[h].msg = tx[h].msg
    BY <1>2, <2>1, TxAfter
  <2>3. QED
    BY <2>1, <2>2 DEF MsgIds
<1>3. ASSUME NEW h \in Handlers, Commit(h) \/ CommitUnknown(h)
      PROVE  MsgIds'
  <2> DEFINE m == MsgOf(tx[h])
  <2>1. /\ im_msg' = im_msg \union {m} /\ nextMsg' = nextMsg
        /\ pc[h] = "commit" /\ pc'[h] \notin InTx \union {"begin"}
        /\ \A g \in Handlers : g # h => pc'[g] = pc[g] /\ tx'[g] = tx[g]
    BY <1>3, HandlerMoves DEF Commit, CommitUnknown, CommitWrites
  <2>2. m.msg = tx[h].msg
    BY DEF MsgOf
  <2>3. pc'[h] # "idle" => tx'[h].msg = tx[h].msg
    BY <1>3, <2>1, HandlerMoves, TxAfter DEF CommitUnknown
  <2> HIDE DEF m
  <2>4. QED
    BY <2>1, <2>2, <2>3 DEF MsgIds
<1>4. ASSUME NEW h \in Handlers,
             \/ InsertTx(h) \/ RejectDuplicate(h) \/ Abort(h) \/ Reply(h) \/ Die(h)
             \/ SetIdem(h) \/ Publish(h) \/ PublishFails(h) \/ MarkSent(h)
      PROVE  MsgIds'
  BY <1>4, HandlerMoves DEF InsertTx, RejectDuplicate, Abort, Reply, Die, SetIdem, Publish,
     PublishFails, MarkSent, MsgIds
<1>5. CASE UNCHANGED <<im_msg, nextMsg, pc, tx>>
  BY <1>5 DEF MsgIds
<1>6. QED
  BY <1>1, <1>2, <1>3, <1>4, <1>5, NextCases, OtherSteps

LEMMA ClientIdsInit == Init => ClientIds
BY DEF Init, ClientIds

(* A client id names one message of its user, stored or about to be; what  *)
(* Redis remembers for it is that message.                                 *)
LEMMA ClientIdsStep ==
    ASSUME TypeOK, Committed, ClientIds, [Next]_vars
    PROVE  ClientIds'
<1> USE DEF dbVars, rowVars, handlerVars, workerVars, replyVars, SameClientId, ClientIdTaken
<1>1. ASSUME NEW h \in Handlers, NEW u \in Users, NEW c \in Convs, NEW d \in ClientId,
             Receive(h, u, c, d)
      PROVE  ClientIds'
  BY <1>1, HandlerMoves DEF Receive, ClientIds
<1>2. ASSUME NEW h \in Handlers, NEW k \in Conns, NextConvSeq(h, k)
      PROVE  ClientIds'
  BY <1>2, HandlerMoves DEF NextConvSeq, ClientIds
<1>3. ASSUME NEW h \in Handlers, InsertTx(h)
      PROVE  ClientIds'
  BY <1>3, HandlerMoves DEF InsertTx, ClientIdPending, ClientIds
<1>4. ASSUME NEW h \in Handlers, EnqueueTx(h)
      PROVE  ClientIds'
  <2>1. /\ UNCHANGED <<im_msg, idem>> /\ pc[h] = "enqueue"
        /\ \A g \in Handlers : g # h => pc'[g] = pc[g] /\ tx'[g] = tx[g]
    BY <1>4, HandlerMoves DEF EnqueueTx
  <2>2. tx'[h].user = tx[h].user /\ tx'[h].cid = tx[h].cid
    BY <1>4, <2>1, TxAfter
  <2>3. QED
    BY <2>1, <2>2 DEF ClientIds
<1>5. ASSUME NEW h \in Handlers, Commit(h) \/ CommitUnknown(h)
      PROVE  ClientIds'
  <2> DEFINE m == MsgOf(tx[h])
  <2>1. /\ im_msg' = im_msg \union {m} /\ idem' = idem
        /\ pc[h] = "commit" /\ pc'[h] \notin {"enqueue", "commit"}
        /\ \A g \in Handlers : g # h => pc'[g] = pc[g] /\ tx'[g] = tx[g]
    BY <1>5, HandlerMoves DEF Commit, CommitUnknown, CommitWrites
  <2>2. m.user = tx[h].user /\ m.cid = tx[h].cid
    BY DEF MsgOf
  <2> HIDE DEF m
  <2>3. \A x, y \in im_msg' : x.cid # NoCid /\ x.user = y.user /\ x.cid = y.cid => x = y
    BY <2>1, <2>2 DEF ClientIds
  <2>4. \A g \in Handlers : pc'[g] \in {"enqueue", "commit"} =>
            /\ ~ClientIdTaken(tx[g])'
            /\ \A f \in Handlers : pc'[f] \in {"enqueue", "commit"}
                                   /\ SameClientId(tx[f], tx[g])' => f = g
    BY <2>1, <2>2 DEF ClientIds
  <2>5. \A u \in Users, d \in Cids : idem'[u][d] # 0 =>
            \E x \in im_msg' : x.msg = idem'[u][d] /\ x.user = u /\ x.cid = d
    BY <2>1 DEF ClientIds
  <2>6. QED
    BY <2>3, <2>4, <2>5 DEF ClientIds
<1>6. ASSUME NEW h \in Handlers,
             \/ RejectDuplicate(h) \/ Abort(h) \/ Reply(h) \/ Die(h)
             \/ Publish(h) \/ PublishFails(h) \/ MarkSent(h)
      PROVE  ClientIds'
  BY <1>6, HandlerMoves DEF RejectDuplicate, Abort, Reply, Die, Publish, PublishFails,
     MarkSent, ClientIds
<1>7. ASSUME NEW h \in Handlers, SetIdem(h)
      PROVE  ClientIds'
  <2> DEFINE v == tx[h].user
             e == tx[h].cid
             m == MsgOf(tx[h])
  <2>1. m \in im_msg /\ m.user = v /\ m.cid = e /\ m.msg = tx[h].msg
    BY <1>7 DEF SetIdem, Committed, Done, MsgOf
  <2>2. idem' \in {idem, [idem EXCEPT ![v] = [@ EXCEPT ![e] = tx[h].msg]]}
    BY <1>7 DEF SetIdem
  <2> HIDE DEF m
  <2>3. \A u \in Users, d \in Cids : idem'[u][d] # idem[u][d] =>
            u = v /\ d = e /\ idem'[u][d] = tx[h].msg
    BY <2>2 DEF TypeOK
  <2>4. \A u \in Users, d \in Cids : idem'[u][d] # 0 =>
            \E x \in im_msg : x.msg = idem'[u][d] /\ x.user = u /\ x.cid = d
    BY <2>1, <2>3 DEF ClientIds
  <2>5. UNCHANGED <<im_msg, tx>> /\ pc'[h] = "publish" /\ \A g \in Handlers : g # h => pc'[g] = pc[g]
    BY <1>7, HandlerMoves DEF SetIdem
  <2>6. QED
    BY <2>4, <2>5 DEF ClientIds
<1>8. ASSUME NEW u \in Users, NEW d \in Cids, IdemExpire(u, d)
      PROVE  ClientIds'
  <2>1. UNCHANGED <<im_msg, pc, tx>>
    BY <1>8 DEF IdemExpire
  <2>2. idem' = [idem EXCEPT ![u] = [@ EXCEPT ![d] = 0]]
    BY <1>8 DEF IdemExpire
  <2>3. \A v \in Users, e \in Cids : idem'[v][e] # 0 => idem'[v][e] = idem[v][e]
    BY <2>2 DEF TypeOK
  <2>4. QED
    BY <2>1, <2>3 DEF ClientIds
<1>9. CASE UNCHANGED <<im_msg, idem, pc, tx>>
  BY <1>9 DEF ClientIds
<1>10. QED
  BY <1>1, <1>2, <1>3, <1>4, <1>5, <1>6, <1>7, <1>8, <1>9, NextCases
     DEF ReplayIdem, RecycleConn, FetchDue, WorkerDie, WorkerPublish, WorkerPublishFails,
         WorkerMarkSent, WorkerMarkFailed, WorkerMarkLost, BackoffEnds, vars

(* The replies of handlers and of Redis name stored messages.              *)
AckStored == \A a \in acked : \E m \in im_msg : m.msg = a.msg /\ m.user = a.user /\ m.cid = a.cid

LEMMA NewReply ==
    ASSUME TypeOK, Committed, ClientIds, [Next]_vars, NEW a \in acked', a \notin acked
    PROVE  /\ a \in [user: Users, cid: ClientId, msg: 1..MaxMsg]
           /\ \E m \in im_msg : m.msg = a.msg /\ m.user = a.user /\ m.cid = a.cid
           /\ acked' = acked \union {a} /\ UNCHANGED <<im_msg, mq>>
<1> USE DEF dbVars, rowVars, handlerVars, workerVars, replyVars
<1>1. ASSUME NEW h \in Handlers, Reply(h)
      PROVE  /\ \E m \in im_msg : m.msg = a.msg /\ m.user = a.user /\ m.cid = a.cid
             /\ acked' = acked \union {a} /\ UNCHANGED <<im_msg, mq>>
  <2>1. a = [user |-> tx[h].user, cid |-> tx[h].cid, msg |-> tx[h].msg]
    BY <1>1 DEF Reply
  <2>2. MsgOf(tx[h]) \in im_msg
    BY <1>1 DEF Reply, Committed, Done
  <2>3. MsgOf(tx[h]).msg = a.msg /\ MsgOf(tx[h]).user = a.user /\ MsgOf(tx[h]).cid = a.cid
    BY <2>1 DEF MsgOf
  <2>4. QED
    BY <1>1, <2>1, <2>2, <2>3 DEF Reply
<1>2. ASSUME NEW u \in Users, NEW d \in Cids, ReplayIdem(u, d)
      PROVE  /\ \E m \in im_msg : m.msg = a.msg /\ m.user = a.user /\ m.cid = a.cid
             /\ acked' = acked \union {a} /\ UNCHANGED <<im_msg, mq>>
  BY <1>2 DEF ReplayIdem, ClientIds
<1>3. (\E h \in Handlers : Reply(h)) \/ (\E u \in Users, d \in Cids : ReplayIdem(u, d))
  BY NextCases DEF vars, Receive, NextConvSeq, InsertTx, RejectDuplicate, EnqueueTx, Commit,
     CommitUnknown, CommitWrites, Abort, SetIdem, Publish, PublishFails, MarkSent, Die,
     IdemExpire, RecycleConn, FetchDue, WorkerDie, WorkerPublish, WorkerPublishFails,
     WorkerMarkSent, WorkerMarkFailed, WorkerMarkLost, BackoffEnds
<1>4. a \in [user: Users, cid: ClientId, msg: 1..MaxMsg]
  BY NextTypeOK DEF TypeOK
<1>5. QED
  BY <1>1, <1>2, <1>3, <1>4

LEMMA AckStoredStep ==
    ASSUME TypeOK, Committed, ClientIds, AckStored, [Next]_vars
    PROVE  AckStored'
<1>1. im_msg \subseteq im_msg'
  BY CommitOnly DEF CommitWrites
<1>2. QED
  BY <1>1, NewReply DEF AckStored

(* Every positive reply to one client id names the same, stored message.   *)
THEOREM AcksAgree == Spec => []AckAgreement
<1>1. Init => TypeOK /\ Committed /\ ClientIds /\ AckStored
  BY InitTypeOK, CommittedInit, ClientIdsInit DEF Init, AckStored
<1>2. TypeOK /\ Committed /\ ClientIds /\ AckStored /\ [Next]_vars
          => TypeOK' /\ Committed' /\ ClientIds' /\ AckStored'
  BY NextTypeOK, CommittedStep, ClientIdsStep, AckStoredStep
<1>3. ClientIds /\ AckStored => AckAgreement
  BY DEF ClientIds, AckStored, AckAgreement
<1>4. QED
  BY <1>1, <1>2, <1>3, PTL DEF Spec
-----------------------------------------------------------------------------
(* The send path as a message log                                          *)

LEMMA LogInitial == Init => Log!LogInit
BY DEF Init, Log!LogInit

(* A new event is that of a stored message, and arrives alone.             *)
LEMMA NewEvent ==
    ASSUME TypeOK, Committed, [Next]_vars, mq' # mq
    PROVE  \E m \in im_msg : mq' = mq \union {EventOf(m)} /\ UNCHANGED <<im_msg, acked>>
<1>1. \/ \E h \in Handlers : pc[h] = "publish" /\ mq' = mq \union {EventOf(tx[h])}
      \/ \E r \in im_outbox : mq' = mq \union {r.evt}
  BY NextCases
     DEF dbVars, rowVars, handlerVars, workerVars, replyVars, vars, Receive, NextConvSeq,
         InsertTx, RejectDuplicate, EnqueueTx, Commit, CommitUnknown, CommitWrites, Abort,
         SetIdem, Publish, PublishFails, MarkSent, Reply, Die, ReplayIdem, IdemExpire,
         RecycleConn, FetchDue, WorkerDie, WorkerPublish, WorkerPublishFails,
         WorkerMarkSent, WorkerMarkFailed, WorkerMarkLost, BackoffEnds
<1>2. UNCHANGED <<im_msg, acked>>
  BY NextCases
     DEF dbVars, rowVars, handlerVars, workerVars, replyVars, vars, Receive, NextConvSeq,
         InsertTx, RejectDuplicate, EnqueueTx, Commit, CommitUnknown, CommitWrites, Abort,
         SetIdem, Publish, PublishFails, MarkSent, Reply, Die, ReplayIdem, IdemExpire,
         RecycleConn, FetchDue, WorkerDie, WorkerPublish, WorkerPublishFails,
         WorkerMarkSent, WorkerMarkFailed, WorkerMarkLost, BackoffEnds
<1>3. ASSUME NEW h \in Handlers, pc[h] = "publish"
      PROVE  MsgOf(tx[h]) \in im_msg /\ EventOf(MsgOf(tx[h])) = EventOf(tx[h])
  BY <1>3 DEF Committed, Done, EventOf, MsgOf
<1>4. QED
  BY <1>1, <1>2, <1>3 DEF Committed

LEMMA LogStep ==
    ASSUME TypeOK, Committed, MsgIds, ClientIds, [Next]_vars
    PROVE  [Log!LogNext]_(Log!logVars)
<1> DEFINE Proj(m) == [msg |-> m.msg, user |-> m.user, conv |-> m.conv, cid |-> m.cid]
           stored == {Proj(m) : m \in im_msg}
           emitted == {e.msg : e \in mq}
<1>1. CASE \E h \in Handlers : CommitWrites(h)
  <2>1. PICK h \in Handlers : CommitWrites(h)
    BY <1>1
  <2> DEFINE n == MsgOf(tx[h])
  <2>2. /\ pc[h] = "commit" /\ im_msg' = im_msg \union {n} /\ mq' = mq /\ acked' = acked
        /\ n \in Msg /\ n.msg = tx[h].msg /\ n.user = tx[h].user /\ n.cid = tx[h].cid
    BY <2>1, TxFields DEF CommitWrites, replyVars, MsgOf
  <2>3. /\ \A m \in im_msg : m.msg # n.msg
        /\ n.cid = NoCid \/ \A m \in im_msg : ~(m.user = n.user /\ m.cid = n.cid)
    BY <2>2 DEF MsgIds, ClientIds, ClientIdTaken, SameClientId
  <2> HIDE DEF n
  <2>4. Proj(n) \in Log!Message
    BY <2>2 DEF Log!Message, Msg
  <2>5. stored' = stored \union {Proj(n)}
    BY <2>2
  <2>6. Log!Store(Proj(n))
    BY <2>2, <2>3, <2>5 DEF Log!Store
  <2>7. PICK p \in Log!Message : p = Proj(n)
    BY <2>4
  <2>8. Log!Store(p)
    BY <2>6, <2>7 DEF Log!Store
  <2>9. QED
    BY <2>8 DEF Log!LogNext
<1>2. CASE mq' # mq
  <2>1. PICK m \in im_msg : mq' = mq \union {EventOf(m)} /\ UNCHANGED <<im_msg, acked>>
    BY <1>2, NewEvent
  <2>2. EventOf(m).msg = m.msg /\ m.msg \in 1..MaxMsg
    BY DEF EventOf, TypeOK, Msg
  <2>3. emitted' = emitted \union {m.msg}
    BY <2>1, <2>2
  <2>4. Proj(m) \in stored /\ Proj(m).msg = m.msg
    OBVIOUS
  <2>5. stored' = stored
    BY <2>1
  <2>6. CASE m.msg \in emitted
    <3>1. emitted' = emitted
      BY <2>3, <2>6
    <3>2. QED
      BY <2>1, <2>5, <3>1 DEF Log!logVars
  <2>7. CASE m.msg \notin emitted
    <3>1. Log!Emit(m.msg)
      BY <2>1, <2>3, <2>4, <2>5, <2>7 DEF Log!Emit
    <3>2. QED
      BY <2>2, <3>1 DEF Log!LogNext
  <2>8. QED
    BY <2>6, <2>7
<1>3. CASE acked' # acked
  <2>1. acked \subseteq acked'
    BY NextCases
       DEF dbVars, rowVars, handlerVars, workerVars, replyVars, vars, Receive, NextConvSeq,
           InsertTx, RejectDuplicate, EnqueueTx, Commit, CommitUnknown, CommitWrites, Abort,
           SetIdem, Publish, PublishFails, MarkSent, Reply, Die, ReplayIdem, IdemExpire,
           RecycleConn, FetchDue, WorkerDie, WorkerPublish, WorkerPublishFails,
           WorkerMarkSent, WorkerMarkFailed, WorkerMarkLost, BackoffEnds
  <2>2. PICK a \in acked' : a \notin acked
    BY <1>3, <2>1
  <2>3. /\ a \in [user: Users, cid: ClientId, msg: 1..MaxMsg]
        /\ \E m \in im_msg : m.msg = a.msg /\ m.user = a.user /\ m.cid = a.cid
        /\ acked' = acked \union {a} /\ UNCHANGED <<im_msg, mq>>
    BY <2>2, NewReply
  <2>4. PICK m \in im_msg : m.msg = a.msg /\ m.user = a.user /\ m.cid = a.cid
    BY <2>3
  <2>5. Proj(m) \in stored /\ Proj(m).msg = a.msg /\ Proj(m).user = a.user /\ Proj(m).cid = a.cid
    BY <2>4
  <2>6. stored' = stored /\ emitted' = emitted
    BY <2>3
  <2>7. Log!Answer(a)
    BY <2>3, <2>5, <2>6 DEF Log!Answer
  <2>8. QED
    BY <2>3, <2>7 DEF Log!LogNext, Log!Reply
<1>4. CASE im_msg' = im_msg /\ mq' = mq /\ acked' = acked
  BY <1>4 DEF Log!logVars
<1>5. QED
  BY <1>1, <1>2, <1>3, <1>4, CommitOnly

(* The send path implements the message log (its safety half).             *)
THEOREM SendPathImplementsLog == Spec => ImplementsLog
<1>1. Init => TypeOK /\ Committed /\ MsgIds /\ ClientIds /\ Log!LogInit
  BY InitTypeOK, CommittedInit, MsgIdsInit, ClientIdsInit, LogInitial
<1>2. TypeOK /\ Committed /\ MsgIds /\ ClientIds /\ [Next]_vars
          => TypeOK' /\ Committed' /\ MsgIds' /\ ClientIds'
  BY NextTypeOK, CommittedStep, MsgIdsStep, ClientIdsStep
<1>3. TypeOK /\ Committed /\ MsgIds /\ ClientIds /\ [Next]_vars => [Log!LogNext]_(Log!logVars)
  BY LogStep
<1>4. QED
  BY <1>1, <1>2, <1>3, PTL DEF Spec, ImplementsLog, Log!LogSafeSpec
=============================================================================
