------------------------------ MODULE SendPath ------------------------------
(***************************************************************************)
(* The send path of im-ai: the POST /send handlers, the transaction they   *)
(* run (NextConvSeq, InsertTx, EnqueueTx, Commit), the Redis idempotency   *)
(* key, the publication to RocketMQ and the outbox workers that publish    *)
(* what the handlers did not.                                              *)
(*                                                                         *)
(* MySQL is modelled as the code uses it: a transaction's writes are       *)
(* private to its handler until Commit; the row lock that the upsert of    *)
(* im_conv_seq takes is held until the transaction ends; a unique key is   *)
(* checked against the committed rows and waits for an uncommitted one;    *)
(* LAST_INSERT_ID() belongs to the connection, and a pooled connection     *)
(* keeps it from one transaction to the next.                              *)
(***************************************************************************)
EXTENDS Integers, FiniteSets

CONSTANTS Handlers,   \* concurrent POST /send requests
          Workers,    \* outbox workers (one for each im-ai process)
          Conns,      \* connections of the MySQL pool
          Convs,      \* conv_id values
          Users,      \* user_id values
          Cids,       \* client_msg_id values
          NoCid,      \* client_msg_id = ""
          NoConn,     \* the handler is in no transaction
          NoTx,       \* the handler serves no request
          Batch,      \* LIMIT of FetchDue
          MaxMsg      \* bound: message ids that may be generated

ASSUME SendAssumption ==
    /\ NoCid \notin Cids
    /\ NoConn \notin Conns
    /\ Batch \in Nat \ {0}
    /\ MaxMsg \in Nat

NoRow == -1           \* the conversation has no row in im_conv_seq

VARIABLES
    im_conv_seq,   \* committed counter of each conversation, or NoRow
    im_msg,        \* committed message rows
    im_outbox,     \* committed outbox rows: id and event (immutable part)
    sent,          \* ids of the outbox rows with status = 1
    due,           \* ids of the outbox rows with next_retry_at <= NOW()
    idem,          \* Redis: message id kept for (user, client id), or 0
    mq,            \* events the topic holds (a set: delivery is at least once)
    lastInsertId,  \* LAST_INSERT_ID() of each connection
    nextMsg,       \* next id of the sonyflake generator
    nextRow,       \* AUTO_INCREMENT of im_outbox
    pc,            \* where each handler stands
    tx,            \* the request and the pending writes of each handler
    wpc,           \* where each worker stands
    wrows,         \* rows the worker fetched and has not finished with
    acked,         \* replies with ok = true (for the properties only)
    rejected       \* requests refused as duplicates (properties only)

dbVars == <<im_conv_seq, im_msg, im_outbox>>
rowVars == <<sent, due>>
handlerVars == <<pc, tx>>
workerVars == <<wpc, wrows>>
replyVars == <<acked, rejected>>
vars == <<im_conv_seq, im_msg, im_outbox, sent, due, idem, mq, lastInsertId,
          nextMsg, nextRow, pc, tx, wpc, wrows, acked, rejected>>

ClientId == Cids \union {NoCid}
Event == [msg: 1..MaxMsg, conv: Convs, sync: Nat]
Row == [id: Nat, evt: Event]
Msg == [msg: 1..MaxMsg, user: Users, conv: Convs, cid: ClientId, sync: Nat]
Tx == [msg: 1..MaxMsg, user: Users, conv: Convs, cid: ClientId, sync: Nat,
       ctr: Nat, conn: Conns \union {NoConn}, row: Nat]

InTx == {"insert", "enqueue", "commit"}      \* a transaction is open
Steps == {"idle", "begin", "setidem", "publish", "mark", "reply"} \union InTx

TypeOK ==
    /\ im_conv_seq \in [Convs -> Nat \union {NoRow}]
    /\ im_msg \subseteq Msg
    /\ im_outbox \subseteq Row
    /\ sent \subseteq Nat /\ due \subseteq Nat
    /\ idem \in [Users -> [Cids -> 0..MaxMsg]]
    /\ mq \subseteq Event
    /\ lastInsertId \in [Conns -> Nat]
    /\ nextMsg \in 1..(MaxMsg + 1) /\ nextRow \in Nat \ {0}
    /\ pc \in [Handlers -> Steps]
    /\ tx \in [Handlers -> Tx \union {NoTx}]
    /\ \A h \in Handlers : IF pc[h] = "idle" THEN tx[h] = NoTx ELSE tx[h] \in Tx
    /\ wpc \in [Workers -> {"poll", "send", "sent", "failed"}]
    /\ wrows \in [Workers -> SUBSET Row]
    /\ acked \subseteq [user: Users, cid: ClientId, msg: 1..MaxMsg]
    /\ rejected \subseteq Users \X Cids

Init ==
    /\ im_conv_seq = [c \in Convs |-> NoRow]
    /\ im_msg = {} /\ im_outbox = {} /\ sent = {} /\ due = {}
    /\ idem = [u \in Users |-> [d \in Cids |-> 0]]
    /\ mq = {}
    /\ lastInsertId = [k \in Conns |-> 0]
    /\ nextMsg = 1 /\ nextRow = 1
    /\ pc = [h \in Handlers |-> "idle"]
    /\ tx = [h \in Handlers |-> NoTx]
    /\ wpc = [w \in Workers |-> "poll"]
    /\ wrows = [w \in Workers |-> {}]
    /\ acked = {} /\ rejected = {}

-----------------------------------------------------------------------------
(* Locks and keys of the database                                          *)

HoldsConv(h, c) == pc[h] \in InTx /\ tx[h].conv = c
ConnFree(k) == \A h \in Handlers : pc[h] \in InTx => tx[h].conn # k

SameClientId(m, t) == t.cid # NoCid /\ m.user = t.user /\ m.cid = t.cid

(* uk_conv_sync and uk_user_client against the committed rows.             *)
SyncTaken(t) == \E m \in im_msg : m.conv = t.conv /\ m.sync = t.sync

(* Not the code: a table without uk_user_client.                           *)
FaultNoClientKey(t) == FALSE

ClientIdTaken(t) == \E m \in im_msg : SameClientId(m, t)

(* Not the code: the key is looked up among committed rows only.           *)
FaultNoPendingKey(h) == FALSE

(* Another transaction has inserted the same client id and not yet ended.  *)
ClientIdPending(h) ==
    \E g \in Handlers \ {h} :
        pc[g] \in {"enqueue", "commit"} /\ SameClientId(tx[g], tx[h])

EventOf(t) == [msg |-> t.msg, conv |-> t.conv, sync |-> t.sync]
MsgOf(t) == [msg |-> t.msg, user |-> t.user, conv |-> t.conv,
             cid |-> t.cid, sync |-> t.sync]

(* A request with what its transaction has obtained so far.                *)
TxOf(q, sync, ctr, conn, row) ==
    [msg |-> q.msg, user |-> q.user, conv |-> q.conv, cid |-> q.cid,
     sync |-> sync, ctr |-> ctr, conn |-> conn, row |-> row]

GoTo(h, step) == pc' = [pc EXCEPT ![h] = step]

(* Not the code: the next request finds the state of the last one.         *)
FaultKeepRequest(h) == GoTo(h, "idle") /\ UNCHANGED tx

EndRequest(h) == GoTo(h, "idle") /\ tx' = [tx EXCEPT ![h] = NoTx]

-----------------------------------------------------------------------------
(* The /send handler                                                       *)

(* GetIdem finds the client id: the stored message id is answered at once. *)
ReplayIdem(u, d) ==
    /\ idem[u][d] # 0
    /\ acked' = acked \union {[user |-> u, cid |-> d, msg |-> idem[u][d]]}
    /\ UNCHANGED <<dbVars, rowVars, idem, mq, lastInsertId, nextMsg, nextRow,
                   handlerVars, workerVars, rejected>>

(* GetIdem finds nothing, or fails (the error is ignored), or there is no  *)
(* client id: a message id is generated and the transaction begins.        *)
Receive(h, u, c, d) ==
    /\ pc[h] = "idle"
    /\ nextMsg <= MaxMsg
    /\ tx' = [tx EXCEPT ![h] =
                  TxOf([msg |-> nextMsg, user |-> u, conv |-> c, cid |-> d], 0, 0, NoConn, 0)]
    /\ nextMsg' = nextMsg + 1
    /\ GoTo(h, "begin")
    /\ UNCHANGED <<dbVars, rowVars, idem, mq, lastInsertId, nextRow,
                   workerVars, replyVars>>

(* Not the code: the counter is incremented outside the transaction.       *)
FaultCounterAutocommit(h, k) ==
    LET c == tx[h].conv
        ctr == IF im_conv_seq[c] = NoRow THEN 1 ELSE im_conv_seq[c] + 1
    IN  /\ pc[h] = "begin"
        /\ ConnFree(k)
        /\ im_conv_seq' = [im_conv_seq EXCEPT ![c] = ctr]
        /\ tx' = [tx EXCEPT ![h] = TxOf(@, ctr, ctr, k, 0)]
        /\ GoTo(h, "insert")
        /\ UNCHANGED <<im_msg, im_outbox, rowVars, idem, mq, lastInsertId,
                       nextMsg, nextRow, workerVars, replyVars>>

(* Not the code: the upsert replaces the row, and the counter starts again.*)
FaultRestart(c, k) == IF lastInsertId[k] = 0 THEN 1 ELSE 0

(* The upsert of im_conv_seq waits for the row lock of the conversation.   *)
(* An existing row is incremented and LAST_INSERT_ID() returns the new     *)
(* value.  A new row starts at 0 and the upsert leaves LAST_INSERT_ID()    *)
(* alone: only if it reads 0 is the row incremented to 1; any other value  *)
(* the connection still has is returned as the sequence.                   *)
NextCtr(c, k) ==
    IF im_conv_seq[c] # NoRow THEN im_conv_seq[c] + 1
    ELSE IF lastInsertId[k] = 0 THEN 1 ELSE 0
NextSync(c, k) ==
    IF im_conv_seq[c] = NoRow /\ lastInsertId[k] # 0 THEN lastInsertId[k]
    ELSE NextCtr(c, k)

NextConvSeq(h, k) ==
    LET c == tx[h].conv
    IN  /\ pc[h] = "begin"
        /\ ConnFree(k)
        /\ \A g \in Handlers : ~HoldsConv(g, c)
        /\ tx' = [tx EXCEPT ![h] = TxOf(@, NextSync(c, k), NextCtr(c, k), k, 0)]
        /\ lastInsertId' = [lastInsertId EXCEPT ![k] = NextSync(c, k)]
        /\ GoTo(h, "insert")
        /\ UNCHANGED <<dbVars, rowVars, idem, mq, nextMsg, nextRow,
                       workerVars, replyVars>>

(* The message row is inserted; both unique keys must be free.             *)
InsertTx(h) ==
    /\ pc[h] = "insert"
    /\ ~SyncTaken(tx[h])
    /\ ~ClientIdTaken(tx[h])
    /\ ~ClientIdPending(h)
    /\ GoTo(h, "enqueue")
    /\ UNCHANGED <<dbVars, rowVars, idem, mq, lastInsertId, nextMsg, nextRow,
                   tx, workerVars, replyVars>>

(* uk_user_client: the client id is stored already.  Rollback, status 500. *)
RejectDuplicate(h) ==
    /\ pc[h] = "insert"
    /\ ~SyncTaken(tx[h])
    /\ ClientIdTaken(tx[h])
    /\ rejected' = rejected \union {<<tx[h].user, tx[h].cid>>}
    /\ EndRequest(h)
    /\ UNCHANGED <<dbVars, rowVars, idem, mq, lastInsertId, nextMsg, nextRow,
                   workerVars, acked>>

(* The outbox row joins the transaction; its id comes from AUTO_INCREMENT, *)
(* which a rollback does not give back, and becomes LAST_INSERT_ID().      *)
EnqueueTx(h) ==
    /\ pc[h] = "enqueue"
    /\ tx' = [tx EXCEPT ![h] = TxOf(@, @.sync, @.ctr, @.conn, nextRow)]
    /\ lastInsertId' = [lastInsertId EXCEPT ![tx[h].conn] = nextRow]
    /\ nextRow' = nextRow + 1
    /\ GoTo(h, "commit")
    /\ UNCHANGED <<dbVars, rowVars, idem, mq, nextMsg, workerVars, replyVars>>

(* Not the code: the payload is serialised before the sequence is known.   *)
FaultEarlyPayload(h) ==
    /\ pc[h] = "commit"
    /\ im_conv_seq' = [im_conv_seq EXCEPT ![tx[h].conv] = tx[h].ctr]
    /\ im_msg' = im_msg \union {MsgOf(tx[h])}
    /\ im_outbox' = im_outbox \union
                       {[id |-> tx[h].row, evt |-> [EventOf(tx[h]) EXCEPT !.sync = 0]]}
    /\ due' = due \union {tx[h].row}
    /\ UNCHANGED <<sent, idem, mq, lastInsertId, nextMsg, nextRow, workerVars, replyVars>>

(* Everything the transaction wrote becomes visible in one step.           *)
CommitWrites(h) ==
    /\ pc[h] = "commit"
    /\ im_conv_seq' = [im_conv_seq EXCEPT ![tx[h].conv] = tx[h].ctr]
    /\ im_msg' = im_msg \union {MsgOf(tx[h])}
    /\ im_outbox' = im_outbox \union {[id |-> tx[h].row, evt |-> EventOf(tx[h])]}
    /\ due' = due \union {tx[h].row}
    /\ UNCHANGED <<sent, idem, mq, lastInsertId, nextMsg, nextRow, workerVars, replyVars>>

Commit(h) ==
    /\ CommitWrites(h)
    /\ GoTo(h, IF tx[h].cid = NoCid THEN "publish" ELSE "setidem")
    /\ tx' = [tx EXCEPT ![h] = TxOf(@, @.sync, 0, NoConn, @.row)]

(* The commit took place and its acknowledgement is lost (time-out,        *)
(* connection lost, process killed): the client gets an error, or nothing. *)
CommitUnknown(h) == CommitWrites(h) /\ EndRequest(h)

(* Not the code: a rollback that does not cover the counter.               *)
FaultCounterKept(h) ==
    /\ pc[h] \in InTx
    /\ im_conv_seq' = [im_conv_seq EXCEPT ![tx[h].conv] = tx[h].ctr]
    /\ EndRequest(h)
    /\ UNCHANGED <<im_msg, im_outbox, rowVars, idem, mq, lastInsertId, nextMsg,
                   nextRow, workerVars, replyVars>>

(* A statement fails or times out, the row lock is not obtained in time,   *)
(* the request is cancelled or the process dies: the transaction is rolled *)
(* back.  LAST_INSERT_ID() of the connection stays what it was.            *)
Abort(h) ==
    /\ pc[h] \in {"begin"} \union InTx
    /\ EndRequest(h)
    /\ UNCHANGED <<dbVars, rowVars, idem, mq, lastInsertId, nextMsg, nextRow,
                   workerVars, replyVars>>

(* The error of SetIdem is ignored.                                        *)
SetIdem(h) ==
    /\ pc[h] = "setidem"
    /\ \/ idem' = [idem EXCEPT ![tx[h].user][tx[h].cid] = tx[h].msg]
       \/ UNCHANGED idem
    /\ GoTo(h, "publish")
    /\ UNCHANGED <<dbVars, rowVars, mq, lastInsertId, nextMsg, nextRow, tx,
                   workerVars, replyVars>>

Publish(h) ==
    /\ pc[h] = "publish"
    /\ mq' = mq \union {EventOf(tx[h])}
    /\ GoTo(h, "mark")
    /\ UNCHANGED <<dbVars, rowVars, idem, lastInsertId, nextMsg, nextRow, tx,
                   workerVars, replyVars>>

(* Not the code: MarkSent whatever Publish returned.                       *)
FaultMarkAnyway(h) ==
    /\ pc[h] = "publish"
    /\ GoTo(h, "mark")
    /\ UNCHANGED <<dbVars, rowVars, idem, mq, lastInsertId, nextMsg, nextRow, tx,
                   workerVars, replyVars>>

(* Publish returns an error; the broker may have the message all the same. *)
PublishFails(h) ==
    /\ pc[h] = "publish"
    /\ mq' \in {mq, mq \union {EventOf(tx[h])}}
    /\ GoTo(h, "reply")
    /\ UNCHANGED <<dbVars, rowVars, idem, lastInsertId, nextMsg, nextRow, tx,
                   workerVars, replyVars>>

(* The error of MarkSent is ignored.                                       *)
MarkSent(h) ==
    /\ pc[h] = "mark"
    /\ sent' \in {sent, sent \union {tx[h].row}}
    /\ GoTo(h, "reply")
    /\ UNCHANGED <<dbVars, due, idem, mq, lastInsertId, nextMsg, nextRow, tx,
                   workerVars, replyVars>>

Reply(h) ==
    /\ pc[h] = "reply"
    /\ acked' = acked \union {[user |-> tx[h].user, cid |-> tx[h].cid, msg |-> tx[h].msg]}
    /\ EndRequest(h)
    /\ UNCHANGED <<dbVars, rowVars, idem, mq, lastInsertId, nextMsg, nextRow,
                   workerVars, rejected>>

(* The process dies after the commit and before the reply.                 *)
Die(h) ==
    /\ pc[h] \in {"setidem", "publish", "mark", "reply"}
    /\ EndRequest(h)
    /\ UNCHANGED <<dbVars, rowVars, idem, mq, lastInsertId, nextMsg, nextRow,
                   workerVars, replyVars>>

-----------------------------------------------------------------------------
(* Redis and the connection pool                                           *)

IdemExpire(u, d) ==
    /\ idem[u][d] # 0
    /\ idem' = [idem EXCEPT ![u][d] = 0]
    /\ UNCHANGED <<dbVars, rowVars, mq, lastInsertId, nextMsg, nextRow,
                   handlerVars, workerVars, replyVars>>

(* The pool closes an idle connection and opens a new one for it.          *)
RecycleConn(k) ==
    /\ ConnFree(k)
    /\ lastInsertId[k] # 0
    /\ lastInsertId' = [lastInsertId EXCEPT ![k] = 0]
    /\ UNCHANGED <<dbVars, rowVars, idem, mq, nextMsg, nextRow,
                   handlerVars, workerVars, replyVars>>

-----------------------------------------------------------------------------
(* The outbox worker                                                       *)

DueRows == {r \in im_outbox : r.id \notin sent /\ r.id \in due}
LowestOf(rows, n) == {r \in rows : Cardinality({q \in rows : q.id < r.id}) < n}
IsHead(w, r) == r \in wrows[w] /\ \A q \in wrows[w] : r.id <= q.id

FetchDue(w) ==
    /\ wpc[w] = "poll"
    /\ DueRows # {}
    /\ wrows' = [wrows EXCEPT ![w] = LowestOf(DueRows, Batch)]
    /\ wpc' = [wpc EXCEPT ![w] = "send"]
    /\ UNCHANGED <<dbVars, rowVars, idem, mq, lastInsertId, nextMsg, nextRow,
                   handlerVars, replyVars>>

WorkerPublish(w, r) ==
    /\ wpc[w] = "send" /\ IsHead(w, r)
    /\ mq' = mq \union {r.evt}
    /\ wpc' = [wpc EXCEPT ![w] = "sent"]
    /\ UNCHANGED <<dbVars, rowVars, idem, lastInsertId, nextMsg, nextRow,
                   handlerVars, wrows, replyVars>>

WorkerPublishFails(w, r) ==
    /\ wpc[w] = "send" /\ IsHead(w, r)
    /\ mq' \in {mq, mq \union {r.evt}}
    /\ wpc' = [wpc EXCEPT ![w] = "failed"]
    /\ UNCHANGED <<dbVars, rowVars, idem, lastInsertId, nextMsg, nextRow,
                   handlerVars, wrows, replyVars>>

(* The worker goes on with the rest of its batch, or polls again.          *)
NextRecord(w, r) ==
    /\ wrows' = [wrows EXCEPT ![w] = @ \ {r}]
    /\ wpc' = [wpc EXCEPT ![w] = IF wrows[w] = {r} THEN "poll" ELSE "send"]

WorkerMarkSent(w, r) ==
    /\ wpc[w] = "sent" /\ IsHead(w, r)
    /\ sent' = sent \union {r.id}
    /\ NextRecord(w, r)
    /\ UNCHANGED <<dbVars, due, idem, mq, lastInsertId, nextMsg, nextRow,
                   handlerVars, replyVars>>

(* Not the code: a failed row is counted and stays due.                    *)
FaultNoBackoff(w, r) ==
    /\ wpc[w] = "failed" /\ IsHead(w, r)
    /\ NextRecord(w, r)
    /\ UNCHANGED <<dbVars, rowVars, idem, mq, lastInsertId, nextMsg, nextRow,
                   handlerVars, replyVars>>

(* MarkFailed postpones the row and leaves its status alone.               *)
WorkerMarkFailed(w, r) ==
    /\ wpc[w] = "failed" /\ IsHead(w, r)
    /\ due' = due \ {r.id}
    /\ NextRecord(w, r)
    /\ UNCHANGED <<dbVars, sent, idem, mq, lastInsertId, nextMsg, nextRow,
                   handlerVars, replyVars>>

(* The UPDATE of MarkSent or MarkFailed fails; the error is ignored.       *)
WorkerMarkLost(w, r) ==
    /\ wpc[w] \in {"sent", "failed"} /\ IsHead(w, r)
    /\ NextRecord(w, r)
    /\ UNCHANGED <<dbVars, rowVars, idem, mq, lastInsertId, nextMsg, nextRow,
                   handlerVars, replyVars>>

WorkerDie(w) ==
    /\ wpc[w] # "poll"
    /\ wrows' = [wrows EXCEPT ![w] = {}]
    /\ wpc' = [wpc EXCEPT ![w] = "poll"]
    /\ UNCHANGED <<dbVars, rowVars, idem, mq, lastInsertId, nextMsg, nextRow,
                   handlerVars, replyVars>>

(* Time passes: next_retry_at of a postponed row is reached.               *)
BackoffEnds(r) ==
    /\ r.id \notin due
    /\ due' = due \union {r.id}
    /\ UNCHANGED <<dbVars, sent, idem, mq, lastInsertId, nextMsg, nextRow,
                   handlerVars, workerVars, replyVars>>

-----------------------------------------------------------------------------
Send(h) ==
    \/ \E u \in Users, c \in Convs, d \in ClientId : Receive(h, u, c, d)
    \/ \E k \in Conns : NextConvSeq(h, k)
    \/ InsertTx(h) \/ RejectDuplicate(h) \/ EnqueueTx(h)
    \/ Commit(h) \/ CommitUnknown(h) \/ Abort(h)
    \/ SetIdem(h) \/ Publish(h) \/ PublishFails(h) \/ MarkSent(h)
    \/ Reply(h) \/ Die(h)

Deliver(w, r) ==
    \/ WorkerPublish(w, r) \/ WorkerPublishFails(w, r)
    \/ WorkerMarkSent(w, r) \/ WorkerMarkFailed(w, r) \/ WorkerMarkLost(w, r)

Next ==
    \/ \E h \in Handlers : Send(h)
    \/ \E u \in Users, d \in Cids : ReplayIdem(u, d) \/ IdemExpire(u, d)
    \/ \E k \in Conns : RecycleConn(k)
    \/ \E w \in Workers : FetchDue(w) \/ WorkerDie(w)
    \/ \E w \in Workers, r \in im_outbox : Deliver(w, r)
    \/ \E r \in im_outbox : BackoffEnds(r)

Spec == Init /\ [][Next]_vars

OfRow(A(_, _), n) == \E w \in Workers, r \in im_outbox : r.id = n /\ A(w, r)
Try(w, r) == WorkerPublish(w, r) \/ WorkerPublishFails(w, r)
Mark(w, r) == WorkerMarkSent(w, r) \/ WorkerMarkFailed(w, r)

(* A worker polls while row n is among the first Batch that are due.       *)
Turn(n) == \E w \in Workers : FetchDue(w) /\ \E r \in wrows'[w] : r.id = n

(* Fairness.  The worker's ticker goes off, and time passes, whatever the  *)
(* others do.  Workers do not die at a row for ever, nor is the database   *)
(* down for good: a row that has its turn again and again is tried some    *)
(* time, and one that is tried is marked some time.  A postponement        *)
(* outlasts the ticker, so that polls do not for ever miss the times at    *)
(* which a row is among the first.                                         *)
Fairness ==
    /\ \A w \in Workers :
           /\ WF_vars(FetchDue(w))
           /\ WF_vars(\E r \in im_outbox : Deliver(w, r))
    /\ \A n \in 1..MaxMsg :
           /\ SF_vars(OfRow(Try, n)) /\ SF_vars(OfRow(Mark, n))
           /\ SF_vars(Turn(n))
           /\ WF_vars(\E r \in im_outbox : r.id = n /\ BackoffEnds(r))

FairSpec == Spec /\ Fairness

(* The broker takes row n some time, if it is offered again and again.     *)
BrokerTakes(n) == SF_vars(OfRow(WorkerPublish, n))

-----------------------------------------------------------------------------
(* Properties                                                              *)

(* Every sequence number below a conversation's counter is the number of a *)
(* stored message: a rollback, a crash or a lost commit acknowledgement    *)
(* never leaves a hole that an incremental reader would wait for, although *)
(* AUTO_INCREMENT and the id generator do skip values.                     *)
NoGaps ==
    \A c \in Convs : \A n \in 1..im_conv_seq[c] :
        \E m \in im_msg : m.conv = c /\ m.sync = n

(* The counter of the conversation accounts for all its messages: false    *)
(* only of a conversation whose first sequence number was a stale          *)
(* LAST_INSERT_ID().                                                       *)
WellNumbered(c) == \A m \in im_msg : m.conv = c => m.sync <= im_conv_seq[c]

(* Two concurrent sends to one conversation become visible in the order of *)
(* their sequence numbers: the number taken by NextConvSeq is never        *)
(* overtaken by a higher one that commits first.                           *)
SyncFollowsCommit ==
    [][\A m \in im_msg' \ im_msg :
           WellNumbered(m.conv) =>
               \A o \in im_msg : o.conv = m.conv => o.sync < m.sync]_vars

(* A conversation is misnumbered by its first message or never: a stale    *)
(* LAST_INSERT_ID() does no harm once the counter has its row, whichever   *)
(* connections and aborted transactions the later messages come after.     *)
StaysWellNumbered ==
    [][\A c \in Convs :
           WellNumbered(c) /\ (\E m \in im_msg : m.conv = c) => WellNumbered(c)']_vars

(* schema.sql says of sync_id that it increases within the conversation.   *)
SyncIncreasing ==
    [][\A m \in im_msg' \ im_msg :
           \A o \in im_msg : o.conv = m.conv => o.sync < m.sync]_vars

(* Whatever path an event took to the topic (handler, worker, a retry of   *)
(* either, a publication that seemed to fail), it announces a committed    *)
(* message under the sequence number that /sync will show for it.          *)
EventIsStored ==
    \A e \in mq : \E m \in im_msg : EventOf(m) = e

(* A committed message has its outbox row, and the row is taken off the    *)
(* workers' list only once the topic holds the event: no interleaving of a *)
(* handler and of several workers on one row can lose it.                  *)
NothingForgotten ==
    \A m \in im_msg : \E r \in im_outbox :
        r.evt = EventOf(m) /\ (r.id \in sent => r.evt \in mq)

(* A positive reply names a committed message of that user and client id,  *)
(* and all replies to one client id name the same one, whether they come   *)
(* from the handler, from Redis, before or after the key expired.          *)
AckAgreement ==
    /\ \A a \in acked : \E m \in im_msg :
           m.msg = a.msg /\ m.user = a.user /\ m.cid = a.cid
    /\ \A a, b \in acked : a.user = b.user /\ a.cid = b.cid /\ a.cid # NoCid
                               => a.msg = b.msg

(* schema.sql calls client_msg_id the client's idempotency id: sending it  *)
(* again is answered like the first time, never refused.                   *)
RetryAnswered == rejected = {}

Log == INSTANCE MessageLog WITH
           Msgs <- 1..MaxMsg,
           stored <- {[msg |-> m.msg, user |-> m.user, conv |-> m.conv, cid |-> m.cid] :
                          m \in im_msg},
           emitted <- {e.msg : e \in mq},
           replied <- acked

(* The send path implements the message log: store once, announce only     *)
(* what is stored, answer only for what is stored.                         *)
ImplementsLog == Log!LogSafeSpec

(* ... and announces every stored message in the end that the broker takes,*)
(* although its handler may die before it published, and although the rows *)
(* before it in the outbox may fail for ever.                              *)
NothingStarves ==
    \A n \in 1..MaxMsg : BrokerTakes(n) =>
        []<>(\A r \in im_outbox : r.id = n => r.evt \in mq)
-----------------------------------------------------------------------------
(* The inductive invariant of SendPathProofs, one part for each argument.  *)

Done == {"setidem", "publish", "mark", "reply"}     \* after the commit

(* The row lock: at most one open transaction has written the counter of a *)
(* conversation, and it holds the successor of the committed value.        *)
Numbering ==
    /\ \A g, h \in Handlers :
           pc[g] \in InTx /\ pc[h] \in InTx /\ tx[g].conv = tx[h].conv => g = h
    /\ \A h \in Handlers : pc[h] \in InTx =>
           LET s == im_conv_seq[tx[h].conv]
           IN  /\ tx[h].sync # 0
               /\ IF s = NoRow THEN tx[h].ctr = 0 \/ (tx[h].ctr = 1 /\ tx[h].sync = 1)
                  ELSE tx[h].ctr = s + 1 /\ tx[h].sync = s + 1
    /\ \A m \in im_msg : im_conv_seq[m.conv] # NoRow

(* What handlers and workers are about to publish is committed.            *)
Committed ==
    /\ \A h \in Handlers : pc[h] \in Done =>
           /\ MsgOf(tx[h]) \in im_msg
           /\ [id |-> tx[h].row, evt |-> EventOf(tx[h])] \in im_outbox
    /\ \A r \in im_outbox : \E m \in im_msg : EventOf(m) = r.evt
    /\ \A w \in Workers : wrows[w] \subseteq im_outbox

(* Row ids are never used twice, so a mark reaches the row it is meant for.*)
RowIds ==
    /\ \A r, q \in im_outbox : r.id = q.id => r = q
    /\ \A r \in im_outbox : r.id < nextRow
    /\ \A h \in Handlers : pc[h] = "commit" =>
           /\ tx[h].row < nextRow
           /\ \A r \in im_outbox : r.id # tx[h].row
           /\ \A g \in Handlers : pc[g] = "commit" /\ tx[g].row = tx[h].row => g = h

(* A mark, made or about to be made, is backed by a publication.           *)
Marks ==
    /\ \A n \in sent : \E r \in im_outbox : r.id = n
    /\ \A r \in im_outbox : r.id \in sent => r.evt \in mq
    /\ \A h \in Handlers : pc[h] = "mark" => EventOf(tx[h]) \in mq
    /\ \A w \in Workers : \A r \in wrows[w] : wpc[w] = "sent" /\ IsHead(w, r) => r.evt \in mq
    /\ \A m \in im_msg : \E r \in im_outbox : r.evt = EventOf(m)

(* The unique keys: message ids and client ids of the stored messages and  *)
(* of the transactions that may still store one.                           *)
MsgIds ==
    /\ \A m \in im_msg : m.msg < nextMsg
    /\ \A h \in Handlers : pc[h] # "idle" => tx[h].msg < nextMsg
    /\ \A h \in Handlers : pc[h] \in InTx \union {"begin"} =>
           /\ \A m \in im_msg : m.msg # tx[h].msg
           /\ \A g \in Handlers : pc[g] # "idle" /\ tx[g].msg = tx[h].msg => g = h

ClientIds ==
    /\ \A m, n \in im_msg : m.cid # NoCid /\ m.user = n.user /\ m.cid = n.cid => m = n
    /\ \A h \in Handlers : pc[h] \in {"enqueue", "commit"} =>
           /\ ~ClientIdTaken(tx[h])
           /\ \A g \in Handlers : pc[g] \in {"enqueue", "commit"}
                                  /\ SameClientId(tx[g], tx[h]) => g = h
    /\ \A u \in Users, d \in Cids : idem[u][d] # 0 =>
           \E m \in im_msg : m.msg = idem[u][d] /\ m.user = u /\ m.cid = d
=============================================================================
