------------------------------ MODULE Accounts ------------------------------
(***************************************************************************)
(* Accounts and sessions of im-ai: the handlers under /v1/auth/, the       *)
(* session store they write (a Redis hash and its time to live, in two     *)
(* commands), the check that Wrap makes of every other request (two reads),*)
(* and the check im-push makes of a connection (one read).                 *)
(***************************************************************************)
EXTENDS Integers, FiniteSets, Sequences

CONSTANTS Calls,        \* concurrent requests
          Phones, Passwords,
          NoCall,       \* no request is served
          NoPhone,      \* a request that names no phone
          MaxUid,       \* bound: user ids that may be generated
          MaxTok        \* bound: tokens that may be generated

ASSUME AccountsAssumption ==
    /\ MaxUid \in Nat /\ MaxTok \in Nat
    /\ NoPhone \notin Phones
    /\ NoCall \notin [phone : Phones \union {NoPhone}, uid : 0..MaxUid, tok : 0..MaxTok]

Biz == {"register", "login", "reset"}

VARIABLES code,       \* keys im:sms:<biz>:<phone> in Redis
          im_user,    \* rows of im_user, for what is read or updated
          nextUid,    \* next id of the sonyflake generator
          issued,     \* the user id inside each token generated, in order
          session,    \* Redis hash of each token: its userId, 0 if none
          ttl,        \* tokens whose hash has a time to live
          pc, call,   \* a request: its next command, what it has read
          answered,   \* tokens a client was given (this and the next two:
          ended,      \*   for the properties only); that were logged out or
          admitted    \*   expired; requests and connections let through

redisVars == <<code, session, ttl>>
callVars == <<pc, call>>
ghostVars == <<answered, ended, admitted>>
vars == <<code, im_user, nextUid, issued, session, ttl, pc, call, answered, ended, admitted>>

Uid == 1..MaxUid
Tok == 1..MaxTok
User == [uid : Uid, phone : Phones, password : Passwords]
Call == [phone : Phones \union {NoPhone}, uid : 0..MaxUid, tok : 0..MaxTok]
Steps == {"idle", "insert", "lookup", "update", "hset", "expire", "reply", "hgetall"}

TypeOK ==
    /\ code \subseteq Biz \X Phones
    /\ im_user \subseteq User
    /\ nextUid \in 1..(MaxUid + 1)
    /\ issued \in Seq(Uid) /\ Len(issued) <= MaxTok
    /\ session \in [Tok -> 0..MaxUid]
    /\ ttl \subseteq {t \in Tok : session[t] # 0}
    /\ pc \in [Calls -> Steps]
    /\ call \in [Calls -> Call \union {NoCall}]
    /\ \A h \in Calls : pc[h] = "idle" <=> call[h] = NoCall
    /\ answered \subseteq Tok /\ ended \subseteq Tok
    /\ admitted \subseteq [tok : Tok, uid : 0..MaxUid]

Init ==
    /\ code = {} /\ im_user = {} /\ nextUid = 1 /\ issued = <<>>
    /\ session = [t \in Tok |-> 0] /\ ttl = {}
    /\ pc = [h \in Calls |-> "idle"]
    /\ call = [h \in Calls |-> NoCall]
    /\ answered = {} /\ ended = {} /\ admitted = {}

-----------------------------------------------------------------------------
(* SMS codes.  The code is the same for all: a key that exists, and a      *)
(* request that repeats it, make a valid one.  Nothing uses a code up.     *)

(* The error of SET is ignored.                                            *)
SendCode(b, p) ==
    /\ code' = code \union {<<b, p>>}
    /\ UNCHANGED <<im_user, nextUid, issued, session, ttl, callVars, ghostVars>>

CodeExpires(b, p) ==
    /\ <<b, p>> \in code
    /\ code' = code \ {<<b, p>>}
    /\ UNCHANGED <<im_user, nextUid, issued, session, ttl, callVars, ghostVars>>

Verified(h, b, p) == pc[h] = "idle" /\ <<b, p>> \in code

Begin(h, p, uid, tok, step) ==
    /\ pc' = [pc EXCEPT ![h] = step]
    /\ call' = [call EXCEPT ![h] = [phone |-> p, uid |-> uid, tok |-> tok]]

GoTo(h, from, to) == pc[h] = from /\ pc' = [pc EXCEPT ![h] = to]

EndCall(h) == pc' = [pc EXCEPT ![h] = "idle"] /\ call' = [call EXCEPT ![h] = NoCall]

-----------------------------------------------------------------------------
(* Registration.                                                           *)

Register(h, p) ==
    /\ Verified(h, "register", p)
    /\ nextUid <= MaxUid
    /\ nextUid' = nextUid + 1
    /\ Begin(h, p, nextUid, 0, "insert")
    /\ UNCHANGED <<redisVars, im_user, issued, ghostVars>>

NewUsers(h) == {[uid |-> call[h].uid, phone |-> call[h].phone, password |-> w] : w \in Passwords}

(* A token, of random text, is generated for user uid.                     *)
IssueToken(h, uid) ==
    /\ Len(issued) < MaxTok
    /\ issued' = Append(issued, uid)
    /\ call' = [call EXCEPT ![h] = [phone |-> @.phone, uid |-> uid, tok |-> Len(issued) + 1]]

(* The table is not in the repository: that a phone is unique in it is not *)
(* assumed.                                                                *)
InsertUser(h) ==
    /\ GoTo(h, "insert", "hset")
    /\ \E row \in NewUsers(h) : im_user' = im_user \union {row}
    /\ IssueToken(h, call[h].uid)
    /\ UNCHANGED <<redisVars, nextUid, ghostVars>>

(* Not the code: the error of INSERT is ignored.                           *)
FaultIgnoreInsert(h) ==
    /\ GoTo(h, "insert", "hset")
    /\ IssueToken(h, call[h].uid)
    /\ UNCHANGED <<redisVars, im_user, nextUid, ghostVars>>

(* INSERT reports an error, whether or not the row was stored.             *)
InsertFails(h) ==
    /\ pc[h] = "insert"
    /\ im_user' \in {im_user} \union {im_user \union {row} : row \in NewUsers(h)}
    /\ EndCall(h)
    /\ UNCHANGED <<redisVars, nextUid, issued, ghostVars>>

-----------------------------------------------------------------------------
(* Login, and the reset of a password.                                     *)

Login(h, p) ==
    /\ Verified(h, "login", p)
    /\ Begin(h, p, 0, 0, "lookup")
    /\ UNCHANGED <<redisVars, im_user, nextUid, issued, ghostVars>>

(* ... WHERE phone = ? LIMIT 1: any user of that phone.                    *)
Lookup(h) ==
    /\ GoTo(h, "lookup", "hset")
    /\ \E u \in im_user : u.phone = call[h].phone /\ IssueToken(h, u.uid)
    /\ UNCHANGED <<redisVars, im_user, nextUid, ghostVars>>

(* No such user, or the query fails.                                       *)
LookupFails(h) ==
    /\ pc[h] = "lookup"
    /\ EndCall(h)
    /\ UNCHANGED <<redisVars, im_user, nextUid, issued, ghostVars>>

Reset(h, p) ==
    /\ Verified(h, "reset", p)
    /\ Begin(h, p, 0, 0, "update")
    /\ UNCHANGED <<redisVars, im_user, nextUid, issued, ghostVars>>

(* UPDATE ... WHERE phone = ?, of every user of that phone, or an error.   *)
UpdatePassword(h, w) ==
    /\ pc[h] = "update"
    /\ im_user' \in {im_user,
                     {IF u.phone = call[h].phone THEN [u EXCEPT !.password = w] ELSE u : u \in im_user}}
    /\ EndCall(h)
    /\ UNCHANGED <<redisVars, nextUid, issued, ghostVars>>

-----------------------------------------------------------------------------
(* SessionStore.Put, and the reply with the token.                         *)

HSet(h) ==
    /\ GoTo(h, "hset", "expire")
    /\ session' = [session EXCEPT ![call[h].tok] = call[h].uid]
    /\ UNCHANGED <<code, im_user, nextUid, issued, ttl, call, ghostVars>>

(* HSET reports an error, whether or not Redis ran it.                     *)
HSetFails(h) ==
    /\ pc[h] = "hset"
    /\ session' \in {session, [session EXCEPT ![call[h].tok] = call[h].uid]}
    /\ EndCall(h)
    /\ UNCHANGED <<code, im_user, nextUid, issued, ttl, ghostVars>>

Expire(h) ==
    /\ GoTo(h, "expire", "reply")
    /\ ttl' = ttl \union {call[h].tok}
    /\ UNCHANGED <<code, im_user, nextUid, issued, session, call, ghostVars>>

(* Not the code: the error of EXPIRE is ignored.                           *)
FaultIgnoreExpire(h) ==
    /\ GoTo(h, "expire", "reply")
    /\ UNCHANGED <<redisVars, im_user, nextUid, issued, call, ghostVars>>

ExpireFails(h) ==
    /\ pc[h] = "expire"
    /\ ttl' \in {ttl, ttl \union {call[h].tok}}
    /\ EndCall(h)
    /\ UNCHANGED <<code, im_user, nextUid, issued, session, ghostVars>>

Reply(h) ==
    /\ pc[h] = "reply"
    /\ answered' = answered \union {call[h].tok}
    /\ EndCall(h)
    /\ UNCHANGED <<redisVars, im_user, nextUid, issued, ended, admitted>>

(* The process dies.                                                       *)
Die(h) ==
    /\ pc[h] # "idle"
    /\ EndCall(h)
    /\ UNCHANGED <<redisVars, im_user, nextUid, issued, ghostVars>>

-----------------------------------------------------------------------------
(* The end of a session, and the requests it lets through.                 *)

EndSession(t) ==
    /\ session' = [session EXCEPT ![t] = 0]
    /\ ttl' = ttl \ {t}
    /\ ended' = ended \union {t}
    /\ UNCHANGED <<code, im_user, nextUid, issued, callVars, answered, admitted>>

(* The error of DEL is ignored: a logout whose DEL failed is answered ok   *)
(* and changes nothing, a stutter here.                                    *)
Logout(t) == t \in answered /\ EndSession(t)

SessionExpires(t) == t \in ttl /\ EndSession(t)

Admit(t, uid) == admitted' = admitted \union {[tok |-> t, uid |-> uid]}

(* SessionStore.Get: EXISTS, then HGETALL.                                 *)
CheckExists(h, t) ==
    /\ pc[h] = "idle" /\ t \in answered
    /\ session[t] # 0
    /\ Begin(h, NoPhone, 0, t, "hgetall")
    /\ UNCHANGED <<redisVars, im_user, nextUid, issued, ghostVars>>

(* Not the code: after EXISTS, the user id is taken from the token.        *)
FaultReadToken(h) ==
    /\ pc[h] = "hgetall"
    /\ Admit(call[h].tok, issued[call[h].tok])
    /\ EndCall(h)
    /\ UNCHANGED <<redisVars, im_user, nextUid, issued, answered, ended>>

(* A hash without userId is refused.                                       *)
CheckHash(h) ==
    /\ pc[h] = "hgetall"
    /\ IF session[call[h].tok] = 0 THEN UNCHANGED admitted
       ELSE Admit(call[h].tok, session[call[h].tok])
    /\ EndCall(h)
    /\ UNCHANGED <<redisVars, im_user, nextUid, issued, answered, ended>>

(* im-push: EXISTS alone; the user id is the one inside the token.         *)
ValidateSession(t) ==
    /\ t \in answered
    /\ session[t] # 0
    /\ Admit(t, issued[t])
    /\ UNCHANGED <<redisVars, im_user, nextUid, issued, callVars, answered, ended>>

Put(h) == HSet(h) \/ HSetFails(h) \/ Expire(h) \/ ExpireFails(h) \/ Reply(h)
Auth(h) ==
    \/ \E p \in Phones : Register(h, p) \/ Login(h, p) \/ Reset(h, p)
    \/ InsertUser(h) \/ InsertFails(h) \/ Lookup(h) \/ LookupFails(h)
    \/ \E w \in Passwords : UpdatePassword(h, w)
    \/ Put(h) \/ Die(h)

Next ==
    \/ \E b \in Biz, p \in Phones : SendCode(b, p) \/ CodeExpires(b, p)
    \/ \E h \in Calls : Auth(h) \/ CheckHash(h) \/ \E t \in Tok : CheckExists(h, t)
    \/ \E t \in Tok : Logout(t) \/ SessionExpires(t) \/ ValidateSession(t)

Spec == Init /\ [][Next]_vars

-----------------------------------------------------------------------------
Stored(uid) == \E u \in im_user : u.uid = uid

(* A session names a stored user, the one its token was generated for,     *)
(* although the row, the token and the hash are written one after another  *)
(* and any of the writes may fail or be reported to have failed.           *)
SessionsOwned ==
    \A t \in Tok : session[t] # 0 =>
        t <= Len(issued) /\ session[t] = issued[t] /\ Stored(session[t])

Lasting(t) == IF t \in ended THEN session[t] = 0 ELSE session[t] # 0 /\ t \in ttl

(* A client that was given a token has a session that lasts until it is    *)
(* logged out or expires, and that can expire; once it ended, no write of  *)
(* a request still under way brings it back.                               *)
AnsweredLasts == \A t \in answered : Lasting(t)

(* Whoever is let through, by two reads in im-ai that a logout or an expiry*)
(* may come between, or by one in im-push, is a stored user with a token   *)
(* of its own: im-ai and im-push agree on whose token it is.               *)
AdmittedAsOwner ==
    \A a \in admitted : a.uid = issued[a.tok] /\ Stored(a.uid)

(* What clients, im-ai and im-push may rely on.                            *)
Known == {u.uid : u \in im_user}
Granted == {[tok |-> t, uid |-> issued[t]] : t \in answered}
Door == INSTANCE Sessions WITH
            Users <- Uid, Tokens <- Tok, known <- Known, granted <- Granted, over <- ended

(* However requests, failed writes, logouts and expiries overlap, a request*)
(* or a connection is let through only while the session of its token lasts*)
(* - at the second read, if there are two - and every token is given to one*)
(* client, for a user that is stored.                                      *)
ImplementsSessions == Door!SessionsSpec

-----------------------------------------------------------------------------
(* The inductive invariant of AccountsProofs.                              *)

Given == 1..Len(issued)

(* Nothing is known of a token before it is generated.                     *)
Tokens == answered \union ended \union ttl \subseteq Given /\ \A a \in admitted : a.tok \in Given

(* A request on its way from its token to its reply is the only one that   *)
(* writes that token's session, and nobody else knows the token.           *)
Putting(h) == pc[h] \in {"hset", "expire", "reply"}
Alone(h) == \A g \in Calls \ {h} : Putting(g) => call[g].tok # call[h].tok
Secret(h) ==
    LET t == call[h].tok
    IN  /\ t \in Given \ answered /\ call[h].uid = issued[t] /\ Stored(issued[t])
        /\ IF pc[h] = "reply" THEN Lasting(t) ELSE t \notin ended \union ttl
        /\ pc[h] = "expire" => session[t] # 0

CallOK(h) ==
    /\ pc[h] = "insert" => call[h].uid \in Uid /\ call[h].phone \in Phones
    /\ Putting(h) => Secret(h) /\ Alone(h)
    /\ pc[h] = "hgetall" => call[h].tok \in answered

AccountsInv ==
    /\ TypeOK /\ Tokens /\ \A h \in Calls : CallOK(h)
    /\ SessionsOwned /\ AnsweredLasts /\ AdmittedAsOwner
=============================================================================
