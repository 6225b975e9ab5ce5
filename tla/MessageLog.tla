----------------------------- MODULE MessageLog -----------------------------
(***************************************************************************)
(* What POST /send of im-ai promises, with no database, cache, broker or   *)
(* worker in sight: messages are stored, a stored message is announced to  *)
(* the delivery side (at least once, so announcing is idempotent), and a   *)
(* positive reply names a stored message of the caller.  A client id names *)
(* at most one message of its user.                                        *)
(***************************************************************************)
EXTENDS Integers

CONSTANTS Convs,    \* conversations (conv_id)
          Users,    \* senders (user_id)
          Cids,     \* client message ids (client_msg_id)
          NoCid,    \* the request carries no client message id
          Msgs      \* message ids

VARIABLES stored,    \* messages that are in the log
          emitted,   \* ids of the messages the delivery side was told of
          replied    \* positive replies given to clients

logVars == <<stored, emitted, replied>>

Message == [msg: Msgs, user: Users, conv: Convs, cid: Cids \union {NoCid}]
Reply == [user: Users, cid: Cids \union {NoCid}, msg: Msgs]

LogInit ==
    /\ stored = {}
    /\ emitted = {}
    /\ replied = {}

(* A message enters the log: its id is new, and so is its client id.       *)
Store(m) ==
    /\ \A s \in stored : s.msg # m.msg
    /\ m.cid = NoCid \/ \A s \in stored : <<s.user, s.cid>> # <<m.user, m.cid>>
    /\ stored' = stored \union {m}
    /\ UNCHANGED <<emitted, replied>>

(* A stored message is announced for the first time.                       *)
Emit(id) ==
    /\ \E s \in stored : s.msg = id
    /\ id \notin emitted
    /\ emitted' = emitted \union {id}
    /\ UNCHANGED <<stored, replied>>

(* A positive reply, given for a stored message.                           *)
Answer(a) ==
    /\ \E s \in stored : s.msg = a.msg /\ s.user = a.user /\ s.cid = a.cid
    /\ replied' = replied \union {a}
    /\ UNCHANGED <<stored, emitted>>

LogNext ==
    \/ \E m \in Message : Store(m)
    \/ \E id \in Msgs : Emit(id)
    \/ \E a \in Reply : Answer(a)

LogSafeSpec == LogInit /\ [][LogNext]_logVars
=============================================================================
