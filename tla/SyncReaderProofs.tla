-------------------------- MODULE SyncReaderProofs --------------------------
(***************************************************************************)
(* The /sync cursor skips nothing, for any number of senders and messages. *)
(***************************************************************************)
EXTENDS SyncReader, SendPathProofs

USE DEF NoRow, InTx, Steps, ClientId

LEMMA ReaderTypeInit == ReaderInit => TypeOK /\ ReaderTypeOK
BY InitTypeOK DEF ReaderInit, ReaderTypeOK

LEMMA ReaderTypeStep ==
    ASSUME TypeOK, ReaderTypeOK, [ReaderNext]_allVars
    PROVE  TypeOK' /\ ReaderTypeOK'
<1>1. CASE [Next]_vars /\ UNCHANGED readerVars
  BY <1>1, NextTypeOK DEF readerVars, ReaderTypeOK
<1>2. ASSUME NEW c \in Convs, NEW n \in Limits, SyncPage(c, n)
      PROVE  TypeOK' /\ ReaderTypeOK'
  <2>1. UNCHANGED vars
    BY <1>2 DEF SyncPage
  <2>2. TypeOK'
    BY <2>1, NextTypeOK
  <2>3. PICK page \in SUBSET Newer(c) : \E last \in page :
            got' = [got EXCEPT ![c] = @ \union page] /\ cursor' = [cursor EXCEPT ![c] = last.sync]
    BY <1>2 DEF SyncPage
  <2>4. PICK last \in page :
            got' = [got EXCEPT ![c] = @ \union page] /\ cursor' = [cursor EXCEPT ![c] = last.sync]
    BY <2>3
  <2>5. page \subseteq Msg /\ last.sync \in Nat
    BY <2>4 DEF Newer, TypeOK, Msg
  <2>6. got[c] \union page \in SUBSET Msg
    BY <2>5 DEF ReaderTypeOK
  <2>7. QED
    BY <2>2, <2>4, <2>5, <2>6 DEF ReaderTypeOK
<1>3. QED
  BY <1>1, <1>2 DEF ReaderNext, allVars, readerVars

(***************************************************************************)
(* SyncFree: uk_conv_sync, and its check still holding at the commit of a  *)
(* transaction past its insert.  With the row lock of Numbering it makes a *)
(* commit of a well numbered conversation go above everything served.      *)
(***************************************************************************)
SyncFree ==
    /\ \A m, n \in im_msg : m.conv = n.conv /\ m.sync = n.sync => m = n
    /\ \A h \in Handlers : pc[h] \in {"enqueue", "commit"} => ~SyncTaken(tx[h])

LEMMA SyncFreeStep ==
    ASSUME TypeOK, Numbering, SyncFree, [Next]_vars
    PROVE  SyncFree'
<1> USE DEF dbVars, rowVars, handlerVars, workerVars, replyVars, SyncTaken
<1>1. ASSUME NEW h \in Handlers, NEW u \in Users, NEW c \in Convs, NEW d \in ClientId,
             Receive(h, u, c, d)
      PROVE  SyncFree'
  BY <1>1, HandlerMoves DEF Receive, SyncFree
<1>2. ASSUME NEW h \in Handlers, NEW k \in Conns, NextConvSeq(h, k)
      PROVE  SyncFree'
  BY <1>2, HandlerMoves DEF NextConvSeq, SyncFree
<1>3. ASSUME NEW h \in Handlers, InsertTx(h)
      PROVE  SyncFree'
  BY <1>3, HandlerMoves DEF InsertTx, SyncFree
<1>4. ASSUME NEW h \in Handlers, EnqueueTx(h)
      PROVE  SyncFree'
  <2>1. /\ im_msg' = im_msg /\ pc[h] = "enqueue"
        /\ \A g \in Handlers : g # h => pc'[g] = pc[g] /\ tx'[g] = tx[g]
    BY <1>4, HandlerMoves DEF EnqueueTx
  <2>2. tx'[h].conv = tx[h].conv /\ tx'[h].sync = tx[h].sync
    BY <1>4, <2>1, TxAfter
  <2>3. QED
    BY <2>1, <2>2 DEF SyncFree
<1>5. ASSUME NEW h \in Handlers, Commit(h) \/ CommitUnknown(h)
      PROVE  SyncFree'
  <2> DEFINE m == MsgOf(tx[h])
  <2>1. /\ im_msg' = im_msg \union {m} /\ pc[h] = "commit" /\ pc'[h] \notin {"enqueue", "commit"}
        /\ \A g \in Handlers : g # h => pc'[g] = pc[g] /\ tx'[g] = tx[g]
    BY <1>5, HandlerMoves DEF Commit, CommitUnknown, CommitWrites
  <2>2. m.conv = tx[h].conv /\ m.sync = tx[h].sync
    BY DEF MsgOf
  <2>3. \A g \in Handlers : pc[g] \in InTx /\ g # h => tx[g].conv # tx[h].conv
    BY <2>1 DEF Numbering
  <2> HIDE DEF m
  <2>4. QED
    BY <2>1, <2>2, <2>3 DEF SyncFree
<1>6. ASSUME NEW h \in Handlers,
             \/ RejectDuplicate(h) \/ Abort(h) \/ Reply(h) \/ Die(h)
             \/ SetIdem(h) \/ Publish(h) \/ PublishFails(h) \/ MarkSent(h)
      PROVE  SyncFree'
  BY <1>6, HandlerMoves DEF RejectDuplicate, Abort, Reply, Die, SetIdem, Publish,
     PublishFails, MarkSent, SyncFree
<1>7. CASE UNCHANGED <<im_msg, pc, tx>>
  BY <1>7 DEF SyncFree
<1>8. QED
  BY <1>1, <1>2, <1>3, <1>4, <1>5, <1>6, <1>7, NextCases, OtherSteps

(* The cursor is where a stored message is, or at the beginning.           *)
CursorStored ==
    \A c \in Convs : cursor[c] # 0 => \E m \in im_msg : m.conv = c /\ m.sync = cursor[c]

(* A commit that leaves its conversation well numbered found it so, and    *)
(* goes above the cursor.                                                  *)
LEMMA CommitAboveCursor ==
    ASSUME TypeOK, ReaderTypeOK, Numbering, SyncFree, CursorStored,
           NEW h \in Handlers, CommitWrites(h),
           NEW c \in Convs, c = tx[h].conv, WellNumbered(c)'
    PROVE  WellNumbered(c) /\ cursor[c] < tx[h].sync
<1> DEFINE m == MsgOf(tx[h])
<1>1. /\ pc[h] = "commit" /\ c \in Convs /\ tx[h].sync \in Nat /\ tx[h].ctr \in Nat
      /\ m.conv = c /\ m.sync = tx[h].sync
  BY TxFields DEF CommitWrites, MsgOf
<1>2. im_msg' = im_msg \union {m} /\ im_conv_seq'[c] = tx[h].ctr
  BY <1>1 DEF CommitWrites, TypeOK
<1>3. \A o \in im_msg' : o.conv = c => o.sync <= tx[h].ctr
  BY <1>2 DEF WellNumbered
<1>4. \A o \in im_msg : o.sync \in Nat
  BY DEF TypeOK, Msg
<1>5. \A o \in im_msg : o.conv = c => o.sync # tx[h].sync
  BY <1>1 DEF SyncFree, SyncTaken
<1>6. im_conv_seq[c] \in Nat \union {-1} /\ cursor[c] \in Nat
  BY <1>1 DEF TypeOK, ReaderTypeOK
<1> HIDE DEF m
<1>7. CASE im_conv_seq[c] = -1
  <2>1. \A o \in im_msg : o.conv # c
    BY <1>7 DEF Numbering
  <2>2. tx[h].sync # 0
    BY <1>1 DEF Numbering
  <2>3. QED
    BY <1>1, <1>6, <2>1, <2>2 DEF WellNumbered, CursorStored
<1>8. CASE im_conv_seq[c] # -1
  <2>1. tx[h].ctr = im_conv_seq[c] + 1 /\ tx[h].sync = im_conv_seq[c] + 1
    BY <1>1, <1>8 DEF Numbering
  <2>2. \A o \in im_msg : o.conv = c => o.sync <= im_conv_seq[c]
    BY <1>2, <1>3, <1>4, <1>5, <1>6, <1>8, <2>1
  <2>3. QED
    BY <1>1, <1>6, <1>8, <2>1, <2>2 DEF WellNumbered, CursorStored
<1>9. QED
  BY <1>7, <1>8

LEMMA CursorStep ==
    ASSUME TypeOK, ReaderTypeOK, CursorStored, [ReaderNext]_allVars
    PROVE  CursorStored'
<1>1. CASE [Next]_vars /\ UNCHANGED readerVars
  <2>1. im_msg \subseteq im_msg'
    BY <1>1, CommitOnly DEF CommitWrites
  <2>2. QED
    BY <1>1, <2>1 DEF readerVars, CursorStored
<1>2. ASSUME NEW c \in Convs, NEW n \in Limits, SyncPage(c, n)
      PROVE  CursorStored'
  <2>1. PICK last \in Newer(c) : cursor' = [cursor EXCEPT ![c] = last.sync]
    BY <1>2 DEF SyncPage
  <2>2. last \in im_msg /\ last.conv = c
    BY <2>1 DEF Newer
  <2>3. im_msg' = im_msg
    BY <1>2 DEF SyncPage, vars
  <2>4. \A e \in Convs : cursor'[e] = IF e = c THEN last.sync ELSE cursor[e]
    BY <2>1 DEF ReaderTypeOK
  <2>5. QED
    BY <2>2, <2>3, <2>4 DEF CursorStored
<1>3. QED
  BY <1>1, <1>2 DEF ReaderNext, allVars, readerVars

LEMMA NothingSkippedStep ==
    ASSUME TypeOK, ReaderTypeOK, Numbering, SyncFree, CursorStored, NothingSkipped,
           [ReaderNext]_allVars
    PROVE  NothingSkipped'
<1>1. CASE UNCHANGED <<im_conv_seq, im_msg, cursor, got>>
  BY <1>1 DEF NothingSkipped, WellNumbered
<1>2. ASSUME NEW h \in Handlers, CommitWrites(h), UNCHANGED readerVars
      PROVE  NothingSkipped'
  <2> DEFINE m == MsgOf(tx[h])
             e == tx[h].conv
  <2>1. im_msg' = im_msg \union {m} /\ m.conv = e /\ m.sync = tx[h].sync
    BY <1>2 DEF CommitWrites, MsgOf
  <2> HIDE DEF m
  <2>2. pc[h] = "commit" /\ e \in Convs /\ tx[h].sync \in Nat
    BY <1>2, TxFields DEF CommitWrites
  <2>3. ASSUME NEW c \in Convs, WellNumbered(c)', NEW o \in im_msg', o.conv = c,
               o.sync <= cursor'[c]
        PROVE  o \in got'[c]
    <3>1. cursor' = cursor /\ got' = got /\ cursor[c] \in Nat
      BY <1>2 DEF readerVars, ReaderTypeOK
    <3>2. CASE c = e
      <4>1. WellNumbered(c) /\ cursor[c] < m.sync
        BY <1>2, <2>1, <2>3, <3>2, CommitAboveCursor
      <4>2. o # m
        BY <2>1, <2>2, <2>3, <3>1, <4>1
      <4>3. QED
        BY <2>1, <2>3, <3>1, <4>1, <4>2 DEF NothingSkipped
    <3>3. CASE c # e
      <4>1. im_conv_seq'[c] = im_conv_seq[c]
        BY <1>2, <3>3 DEF CommitWrites, TypeOK
      <4>2. WellNumbered(c) /\ o \in im_msg
        BY <2>1, <2>3, <3>3, <4>1 DEF WellNumbered
      <4>3. QED
        BY <2>3, <3>1, <4>2 DEF NothingSkipped
    <3>4. QED
      BY <3>2, <3>3
  <2>4. QED
    BY <2>3 DEF NothingSkipped
<1>3. ASSUME NEW c \in Convs, NEW n \in Limits, SyncPage(c, n)
      PROVE  NothingSkipped'
  <2>1. UNCHANGED <<im_conv_seq, im_msg>>
    BY <1>3 DEF SyncPage, vars
  <2> DEFINE Served(page, last) ==
                 /\ IsPage(page, Newer(c), EffectiveLimit(n))
                 /\ got' = [got EXCEPT ![c] = @ \union page]
                 /\ cursor' = [cursor EXCEPT ![c] = last.sync]
  <2>a. PICK page \in SUBSET Newer(c) : \E last \in page : Served(page, last)
    BY <1>3 DEF SyncPage
  <2>2. PICK last \in page : Served(page, last)
    BY <2>a
  <2>3. last \in Msg /\ last.sync \in Nat /\ last.sync > cursor[c]
    BY <2>2 DEF Newer, TypeOK, Msg
  <2>4. \A e \in Convs : /\ cursor'[e] = IF e = c THEN last.sync ELSE cursor[e]
                         /\ got'[e] = IF e = c THEN got[c] \union page ELSE got[e]
    BY <2>2 DEF ReaderTypeOK
  <2>5. ASSUME NEW o \in im_msg, o.conv = c, o.sync <= last.sync, WellNumbered(c)
        PROVE  o \in got[c] \union page
    <3>1. o.sync \in Nat /\ cursor[c] \in Nat
      BY DEF TypeOK, ReaderTypeOK, Msg
    <3>2. CASE o.sync <= cursor[c]
      BY <2>5, <3>2 DEF NothingSkipped
    <3>3. CASE o.sync > cursor[c]
      <4>1. o \in Newer(c)
        BY <2>5, <3>3 DEF Newer
      <4>2. CASE o.sync < last.sync
        BY <2>2, <4>1, <4>2 DEF IsPage
      <4>3. CASE o.sync = last.sync
        <5>1. last \in im_msg /\ last.conv = c
          BY <2>2 DEF Newer
        <5>2. o = last
          BY <2>5, <4>3, <5>1 DEF SyncFree
        <5>3. QED
          BY <2>2, <5>2
      <4>4. QED
        BY <2>3, <2>5, <3>1, <4>2, <4>3
    <3>4. QED
      BY <3>1, <3>2, <3>3
  <2>6. QED
    BY <2>1, <2>4, <2>5 DEF NothingSkipped, WellNumbered
<1>4. QED
  BY <1>1, <1>2, <1>3, CommitOnly DEF ReaderNext, allVars, readerVars

(* An incremental reader of a well numbered conversation misses nothing.   *)
THEOREM ReaderSkipsNothing == ReaderSpec => []NothingSkipped
<1> DEFINE Inv == /\ TypeOK /\ ReaderTypeOK /\ Numbering
                  /\ SyncFree /\ CursorStored /\ NothingSkipped
<1>1. ReaderInit => Inv
  BY ReaderTypeInit, NumberingInit
     DEF ReaderInit, Init, SyncFree, CursorStored, NothingSkipped
<1>2. Inv /\ [ReaderNext]_allVars => Inv'
  <2> SUFFICES ASSUME Inv, [ReaderNext]_allVars PROVE Inv'
    OBVIOUS
  <2>1. [Next]_vars
    BY DEF ReaderNext, SyncPage, allVars
  <2>2. QED
    BY <2>1, ReaderTypeStep, NumberingStep, SyncFreeStep, CursorStep, NothingSkippedStep
<1>3. QED
  BY <1>1, <1>2, PTL DEF ReaderSpec

(* A reader changes nothing that the send path or the message log sees, so *)
(* that all that is proved of the send path holds beside readers too.      *)
THEOREM ReadersLeaveTheLog == ReaderSpec => Spec /\ ImplementsLog
<1>1. ReaderInit => Init
  BY DEF ReaderInit
<1>2. [ReaderNext]_allVars => [Next]_vars
  BY DEF ReaderNext, SyncPage, allVars
<1>3. ReaderSpec => Spec
  BY <1>1, <1>2, PTL DEF ReaderSpec, Spec
<1>4. QED
  BY <1>3, SendPathImplementsLog
=============================================================================
