---------------------------- MODULE AccountsProofs ----------------------------
(***************************************************************************)
(* Proofs about Accounts, for any number of requests, phones, users and    *)
(* tokens.                                                                 *)
(***************************************************************************)
EXTENDS Accounts, TLAPS

LEMMA NoCallIsNone == NoCall \notin Call
BY AccountsAssumption DEF AccountsAssumption, Call

LEMMA CallIs ==
    ASSUME TypeOK, NEW h \in Calls, pc[h] # "idle"
    PROVE  call[h] \in Call /\ call[h].phone \in Phones \union {NoPhone}
           /\ call[h].uid \in 0..MaxUid /\ call[h].tok \in 0..MaxTok
BY DEF TypeOK, Call

LEMMA IssuedIs ==
    ASSUME TypeOK
    PROVE  /\ Len(issued) \in Nat /\ Len(issued) <= MaxTok /\ MaxTok \in Nat
           /\ \A t \in Given : issued[t] \in Uid /\ t \in Tok /\ t <= Len(issued)
           /\ \A t \in Tok : t <= Len(issued) => t \in Given
BY AccountsAssumption DEF AccountsAssumption, TypeOK, Given, Tok

(* A step of request h that touches the tokens of T only, which are no     *)
(* other request's, and leaves h and those tokens in order.                *)
LEMMA CallMoves ==
    ASSUME AccountsInv, NEW h \in Calls, NEW T \in SUBSET Tok,
           TypeOK',
           \A g \in Calls \ {h} : pc'[g] = pc[g] /\ call'[g] = call[g],
           Given \subseteq Given', \A t \in Given : issued'[t] = issued[t],
           \A u \in im_user : \E v \in im_user' : v.uid = u.uid,
           ended' = ended,
           \A t \in Tok \ T : /\ session'[t] = session[t]
                              /\ t \in ttl' <=> t \in ttl
                              /\ t \in answered' <=> t \in answered,
           \A g \in Calls \ {h} : Putting(g) => call[g].tok \notin T,
           answered \subseteq answered',
           T \subseteq Given',
           \A t \in T : session'[t] # 0 => session'[t] = issued'[t] /\ Stored(issued[t])',
           \A t \in T : t \in answered' => Lasting(t)',
           \A a \in admitted' \ admitted : a.tok \in Given' /\ a.uid = issued'[a.tok] /\ Stored(a.uid)',
           CallOK(h)'
    PROVE  AccountsInv'
<1>1. /\ Len(issued)' \in Nat /\ \A t \in Given' : t \in Tok /\ t <= Len(issued')
      /\ \A t \in Tok : t <= Len(issued') => t \in Given'
  BY AccountsAssumption DEF AccountsAssumption, TypeOK, Given, Tok
<1>2. /\ Len(issued) \in Nat /\ \A t \in Given : t \in Tok /\ t <= Len(issued)
      /\ \A t \in Tok : t <= Len(issued) => t \in Given
  BY IssuedIs DEF AccountsInv
<1>3. Tokens'
  <2>1. answered \union ended \union ttl \subseteq Given /\ \A a \in admitted : a.tok \in Given
    BY DEF AccountsInv, Tokens
  <2>2. ended' \subseteq Tok /\ ttl' \subseteq Tok /\ answered' \subseteq Tok
    BY DEF TypeOK
  <2>3. QED
    BY <2>1, <2>2 DEF Tokens
<1>4. SessionsOwned'
  <2> SUFFICES ASSUME NEW t \in Tok, session'[t] # 0
               PROVE  t <= Len(issued') /\ session'[t] = issued'[t] /\ Stored(session[t])'
    BY DEF SessionsOwned
  <2>1. CASE t \in T
    BY <1>1, <2>1 DEF Stored
  <2>2. CASE t \notin T
    <3>1. session'[t] = session[t]
      BY <2>2
    <3>2. t <= Len(issued) /\ session[t] = issued[t] /\ \E u \in im_user : u.uid = session[t]
      BY <3>1 DEF AccountsInv, SessionsOwned, Stored
    <3>3. t \in Given /\ t <= Len(issued') /\ issued'[t] = issued[t]
      BY <1>1, <1>2, <3>2
    <3>4. QED
      BY <3>1, <3>2, <3>3 DEF Stored
  <2>3. QED
    BY <2>1, <2>2
<1>5. \A t \in Tok \ T : Lasting(t) => Lasting(t)'
  BY DEF Lasting
<1>6. AnsweredLasts'
  BY <1>5 DEF TypeOK, AccountsInv, AnsweredLasts
<1>7. AdmittedAsOwner'
  BY DEF AccountsInv, AdmittedAsOwner, Tokens, Stored
<1>8. ASSUME NEW g \in Calls \ {h} PROVE CallOK(g)'
  <2>1. Putting(g)' <=> Putting(g)
    BY DEF Putting
  <2>2. ASSUME Putting(g) PROVE Secret(g)'
    <3> DEFINE t == call[g].tok
    <3>1. /\ t \in Given \ answered /\ call[g].uid = issued[t] /\ Stored(issued[t])
          /\ IF pc[g] = "reply" THEN Lasting(t) ELSE t \notin ended \union ttl
          /\ pc[g] = "expire" => session[t] # 0
      BY <2>2 DEF AccountsInv, CallOK, Secret
    <3>2. t \in Tok \ T
      BY <1>2, <2>2, <3>1
    <3>3. call'[g].tok = t /\ call'[g].uid = call[g].uid /\ pc'[g] = pc[g]
      OBVIOUS
    <3> HIDE DEF t
    <3>4. /\ t \in Given' \ answered' /\ issued'[t] = issued[t]
          /\ session'[t] = session[t] /\ (t \in ttl' <=> t \in ttl)
      BY <3>1, <3>2
    <3>5. \E u \in im_user' : u.uid = issued'[t]
      BY <3>1, <3>4 DEF Stored
    <3>6. QED
      BY <3>1, <3>3, <3>4, <3>5 DEF Secret, Stored, Lasting
  <2>3. ASSUME Putting(g) PROVE Alone(g)'
    BY <2>1, <2>3 DEF AccountsInv, CallOK, Alone, Putting
  <2>4. QED
    BY <2>1, <2>2, <2>3 DEF AccountsInv, CallOK
<1>9. QED
  BY <1>3, <1>4, <1>6, <1>7, <1>8 DEF AccountsInv

-----------------------------------------------------------------------------
(* What the parts of the actions do to the requests.                       *)

CallsOK ==
    /\ pc \in [Calls -> Steps] /\ call \in [Calls -> Call \union {NoCall}]
    /\ \A h \in Calls : pc[h] = "idle" <=> call[h] = NoCall

OthersStay(h) == \A g \in Calls \ {h} : pc'[g] = pc[g] /\ call'[g] = call[g]

LEMMA BeginOK ==
    ASSUME CallsOK, NEW h \in Calls, NEW p \in Phones \union {NoPhone}, NEW uid \in 0..MaxUid,
           NEW tok \in 0..MaxTok, NEW step \in Steps \ {"idle"}, Begin(h, p, uid, tok, step)
    PROVE  /\ CallsOK' /\ OthersStay(h)
           /\ pc'[h] = step /\ call'[h] = [phone |-> p, uid |-> uid, tok |-> tok]
BY NoCallIsNone DEF CallsOK, OthersStay, Begin, Call

LEMMA EndCallOK ==
    ASSUME CallsOK, NEW h \in Calls, EndCall(h)
    PROVE  CallsOK' /\ OthersStay(h) /\ pc'[h] = "idle" /\ CallOK(h)'
BY DEF CallsOK, OthersStay, EndCall, CallOK, Putting, Steps

LEMMA GoToOK ==
    ASSUME CallsOK, NEW h \in Calls, NEW from \in Steps \ {"idle"}, NEW to \in Steps \ {"idle"},
           GoTo(h, from, to), call' = call
    PROVE  CallsOK' /\ OthersStay(h) /\ pc'[h] = to
BY DEF CallsOK, OthersStay, GoTo

(* The users known stay known.                                             *)
UsersKept == \A u \in im_user : \E v \in im_user' : v.uid = u.uid

(* A step that reads or writes no token but keeps what a request knows.    *)
LEMMA NoTokenTouched ==
    ASSUME AccountsInv, NEW h \in Calls, OthersStay(h), CallsOK',
           code' \subseteq Biz \X Phones, im_user' \subseteq User, nextUid' \in 1..(MaxUid + 1),
           UsersKept, UNCHANGED <<issued, session, ttl, ghostVars>>, CallOK(h)'
    PROVE  AccountsInv'
<1>1. TypeOK'
  BY DEF AccountsInv, TypeOK, CallsOK, ghostVars
<1>2. /\ Given' = Given /\ issued' = issued /\ session' = session /\ ttl' = ttl
      /\ answered' = answered /\ ended' = ended /\ admitted' = admitted
  BY DEF Given, ghostVars
<1> DEFINE none == {}
<1>3. none \in SUBSET Tok /\ \A t : t \notin none
  OBVIOUS
<1> HIDE DEF none
<1>4. QED
  BY <1>1, <1>2, <1>3, CallMoves DEF OthersStay, UsersKept

LEMMA CallsFit == ASSUME AccountsInv PROVE CallsOK
BY DEF AccountsInv, TypeOK, CallsOK

-----------------------------------------------------------------------------
(* The actions.                                                            *)

LEMMA CodeInv ==
    ASSUME AccountsInv, NEW b \in Biz, NEW p \in Phones, SendCode(b, p) \/ CodeExpires(b, p)
    PROVE  AccountsInv'
<1>1. /\ UNCHANGED <<im_user, nextUid, issued, session, ttl, pc, call, answered, ended, admitted>>
      /\ code' \subseteq Biz \X Phones
  BY DEF AccountsInv, TypeOK, SendCode, CodeExpires, callVars, ghostVars
<1>2. TypeOK' /\ Tokens' /\ SessionsOwned' /\ AnsweredLasts' /\ AdmittedAsOwner'
  BY <1>1 DEF AccountsInv, TypeOK, Tokens, SessionsOwned, AnsweredLasts, AdmittedAsOwner,
              Lasting, Stored, Given
<1>3. \A h \in Calls : CallOK(h)'
  BY <1>1 DEF AccountsInv, CallOK, Putting, Secret, Alone, Lasting, Stored, Given
<1>4. QED
  BY <1>2, <1>3 DEF AccountsInv

LEMMA RegisterInv ==
    ASSUME AccountsInv, NEW h \in Calls, NEW p \in Phones, Register(h, p) PROVE AccountsInv'
<1>1. /\ nextUid \in Uid /\ nextUid \in 0..MaxUid /\ nextUid' \in 1..(MaxUid + 1)
      /\ 0 \in 0..MaxTok /\ "insert" \in Steps \ {"idle"}
  BY AccountsAssumption DEF AccountsAssumption, AccountsInv, TypeOK, Register, Uid, Steps
<1>2. Begin(h, p, nextUid, 0, "insert")
  BY DEF Register
<1>3. /\ CallsOK' /\ OthersStay(h) /\ pc'[h] = "insert"
      /\ call'[h] = [phone |-> p, uid |-> nextUid, tok |-> 0]
  BY <1>1, <1>2, CallsFit, BeginOK
<1>4. CallOK(h)'
  BY <1>1, <1>3 DEF CallOK, Putting
<1>5. QED
  BY <1>1, <1>3, <1>4, NoTokenTouched
  DEF Register, redisVars, UsersKept, AccountsInv, TypeOK

(* A request that starts with a phone, or a session check with a token.    *)
LEMMA StartInv ==
    ASSUME AccountsInv, NEW h \in Calls, NEW p \in Phones \union {NoPhone}, NEW tok \in 0..MaxTok,
           NEW step \in {"lookup", "update", "hgetall"}, Begin(h, p, 0, tok, step),
           step = "hgetall" => tok \in answered,
           UNCHANGED <<redisVars, im_user, nextUid, issued, ghostVars>>
    PROVE  AccountsInv'
<1>1. 0 \in 0..MaxUid /\ step \in Steps \ {"idle"}
  BY AccountsAssumption DEF AccountsAssumption, Steps
<1>2. /\ CallsOK' /\ OthersStay(h) /\ pc'[h] = step
      /\ call'[h] = [phone |-> p, uid |-> 0, tok |-> tok]
  BY <1>1, CallsFit, BeginOK
<1>3. CallOK(h)'
  BY <1>2 DEF CallOK, Putting, ghostVars
<1>4. QED
  BY <1>2, <1>3, NoTokenTouched DEF redisVars, UsersKept, AccountsInv, TypeOK

(* A request that ends with no more than a change of im_user.              *)
LEMMA QuitInv ==
    ASSUME AccountsInv, NEW h \in Calls, EndCall(h), im_user' \subseteq User, UsersKept,
           UNCHANGED <<redisVars, nextUid, issued, ghostVars>>
    PROVE  AccountsInv'
BY CallsFit, EndCallOK, NoTokenTouched DEF redisVars, AccountsInv, TypeOK

LEMMA InsertFailsInv ==
    ASSUME AccountsInv, NEW h \in Calls, InsertFails(h) PROVE AccountsInv'
<1>1. NewUsers(h) \subseteq User
  BY DEF AccountsInv, CallOK, InsertFails, NewUsers, User
<1>2. QED
  BY <1>1, QuitInv DEF InsertFails, UsersKept, AccountsInv, TypeOK

LEMMA UpdatePasswordInv ==
    ASSUME AccountsInv, NEW h \in Calls, NEW w \in Passwords, UpdatePassword(h, w)
    PROVE  AccountsInv'
<1> DEFINE new(u) == IF u.phone = call[h].phone THEN [u EXCEPT !.password = w] ELSE u
<1>1. \A u \in User : new(u) \in User /\ new(u).uid = u.uid
  BY DEF User
<1>2. im_user \subseteq User
  BY DEF AccountsInv, TypeOK
<1>3. im_user' = im_user \/ im_user' = {new(u) : u \in im_user}
  BY DEF UpdatePassword
<1> HIDE DEF new
<1>4. im_user' \subseteq User /\ UsersKept
  BY <1>1, <1>2, <1>3 DEF UsersKept
<1>5. QED
  BY <1>4, QuitInv DEF UpdatePassword

(* The new token is known to nobody else.                                  *)
LEMMA IssueInv ==
    ASSUME AccountsInv, NEW h \in Calls, NEW from \in {"insert", "lookup"}, NEW uid \in Uid,
           GoTo(h, from, "hset"), IssueToken(h, uid), im_user' \subseteq User, UsersKept,
           \E u \in im_user' : u.uid = uid,
           UNCHANGED <<redisVars, nextUid, ghostVars>>
    PROVE  AccountsInv'
<1> DEFINE n == Len(issued)
<1>1. /\ call[h] \in Call /\ call[h].phone \in Phones \union {NoPhone} /\ pc[h] = from
  BY CallIs DEF AccountsInv, GoTo
<1>2. /\ n \in Nat /\ MaxTok \in Nat /\ MaxUid \in Nat /\ n < MaxTok /\ issued \in Seq(Uid)
      /\ issued' = Append(issued, uid)
      /\ call' = [call EXCEPT ![h] = [phone |-> call[h].phone, uid |-> uid, tok |-> n + 1]]
      /\ UNCHANGED <<code, session, ttl, nextUid, answered, ended, admitted>>
  BY AccountsAssumption, IssuedIs
  DEF AccountsAssumption, AccountsInv, TypeOK, IssueToken, redisVars, ghostVars
<1>3. /\ issued' \in Seq(Uid) /\ Len(issued') = n + 1 /\ Len(issued') <= MaxTok
      /\ \A t \in 1..n : issued'[t] = issued[t]
      /\ issued'[n + 1] = uid
  BY <1>2
<1>4. Given = 1..n /\ Given' = 1..(n + 1) /\ n + 1 \in 0..MaxTok /\ uid \in 0..MaxUid
  BY <1>2, <1>3 DEF Given, Uid
<1> HIDE DEF n
<1>5. [phone |-> call[h].phone, uid |-> uid, tok |-> n + 1] \in Call
  BY <1>1, <1>4 DEF Call
<1>6. /\ CallsOK' /\ OthersStay(h) /\ pc'[h] = "hset"
      /\ call'[h].uid = uid /\ call'[h].tok = n + 1
  <2>1. pc' = [pc EXCEPT ![h] = "hset"] /\ pc[h] # "idle"
    BY <1>1 DEF GoTo
  <2>2. QED
    BY <1>2, <1>5, <2>1, CallsFit, NoCallIsNone DEF CallsOK, OthersStay, Steps
<1>7. TypeOK'
  BY <1>2, <1>3, <1>6 DEF AccountsInv, TypeOK, CallsOK
<1>8. n + 1 \notin answered \union ended \union ttl
  BY <1>2, <1>4 DEF AccountsInv, Tokens
<1>9. CallOK(h)'
  <2>1. Alone(h)'
    <3> SUFFICES ASSUME NEW g \in Calls \ {h}, Putting(g)' PROVE call'[g].tok # n + 1
      BY <1>6 DEF Alone
    <3>1. Putting(g) /\ call'[g] = call[g]
      BY <1>6 DEF OthersStay, Putting
    <3>2. call[g].tok \in Given
      BY <3>1 DEF AccountsInv, CallOK, Secret
    <3>3. QED
      BY <1>2, <1>4, <3>1, <3>2
  <2>2. Secret(h)'
    <3>1. n + 1 \in Given' \ answered' /\ n + 1 \notin ended' \union ttl'
      BY <1>2, <1>4, <1>8
    <3>2. QED
      BY <1>3, <1>6, <3>1 DEF Secret, Stored
  <2>3. QED
    BY <1>6, <2>1, <2>2 DEF CallOK
<1> DEFINE none == {}
<1>10. none \in SUBSET Tok /\ \A t : t \notin none
  OBVIOUS
<1> HIDE DEF none
<1>11. Given \subseteq Given' /\ \A t \in Given : issued'[t] = issued[t]
  BY <1>2, <1>3, <1>4
<1>12. QED
  BY <1>2, <1>6, <1>7, <1>9, <1>10, <1>11, CallMoves DEF OthersStay, UsersKept

LEMMA InsertUserInv ==
    ASSUME AccountsInv, NEW h \in Calls, InsertUser(h) PROVE AccountsInv'
<1>1. pc[h] = "insert" /\ call[h].uid \in Uid /\ call[h].phone \in Phones
  BY DEF AccountsInv, CallOK, InsertUser, GoTo
<1>2. PICK row \in NewUsers(h) : im_user' = im_user \union {row}
  BY DEF InsertUser
<1>3. row \in User /\ row.uid = call[h].uid
  BY <1>1 DEF NewUsers, User
<1>4. im_user' \subseteq User /\ UsersKept /\ \E u \in im_user' : u.uid = call[h].uid
  BY <1>2, <1>3 DEF AccountsInv, TypeOK, UsersKept
<1>5. QED
  BY <1>1, <1>4, IssueInv DEF InsertUser

LEMMA LookupInv == ASSUME AccountsInv, NEW h \in Calls, Lookup(h) PROVE AccountsInv'
<1>1. PICK u \in im_user : IssueToken(h, u.uid)
  BY DEF Lookup
<1>2. u.uid \in Uid /\ im_user' = im_user /\ im_user' \subseteq User
  BY DEF AccountsInv, TypeOK, User, Lookup
<1>3. UsersKept /\ \E v \in im_user' : v.uid = u.uid
  BY <1>2 DEF UsersKept
<1>4. QED
  BY <1>1, <1>2, <1>3, IssueInv DEF Lookup

(* A command of SessionStore.Put, or the reply: a step of a request that   *)
(* alone knows its token t.                                                *)
LEMMA PutInv ==
    ASSUME AccountsInv, NEW h \in Calls, NEW t, t = call[h].tok, Putting(h),
           CallsOK', OthersStay(h), UNCHANGED <<code, im_user, nextUid, issued, ended, admitted>>,
           session' \in {session, [session EXCEPT ![t] = call[h].uid]},
           ttl' \in {ttl, ttl \union {t}}, t \in ttl' => session'[t] # 0,
           answered' \in {answered, answered \union {t}}, t \in answered' => Lasting(t)',
           session'[t] # 0 => session'[t] = call[h].uid,
           Putting(h)' => call'[h] = call[h]
               /\ t \notin answered' /\ (pc'[h] = "expire" => session'[t] # 0)
               /\ IF pc'[h] = "reply" THEN Lasting(t)' ELSE t \notin ended \union ttl',
           pc'[h] \notin {"insert", "hgetall"}
    PROVE  AccountsInv'
<1>1. /\ t \in Given \ answered /\ t \in Tok /\ call[h].uid = issued[t] /\ Stored(issued[t])
      /\ issued[t] \in Uid /\ call[h].uid \in 0..MaxUid
      /\ \A g \in Calls \ {h} : Putting(g) => call[g].tok # t
  <2>1. t \in Given \ answered /\ call[h].uid = issued[t] /\ Stored(issued[t]) /\ Alone(h)
    BY DEF AccountsInv, CallOK, Secret
  <2>2. issued[t] \in Uid /\ t \in Tok
    BY <2>1, IssuedIs DEF AccountsInv
  <2>3. QED
    BY <2>1, <2>2, AccountsAssumption DEF AccountsAssumption, Alone, Uid
<1>2. Given' = Given /\ issued' = issued /\ im_user' = im_user /\ ended' = ended
  BY DEF Given
<1>3. /\ session' \in [Tok -> 0..MaxUid]
      /\ \A s \in Tok \ {t} : /\ session'[s] = session[s] /\ (s \in ttl' <=> s \in ttl)
                               /\ (s \in answered' <=> s \in answered)
  BY <1>1 DEF AccountsInv, TypeOK
<1>4. TypeOK'
  <2>1. ttl' \subseteq {s \in Tok : session'[s] # 0}
    BY <1>1, <1>3 DEF AccountsInv, TypeOK
  <2>2. QED
    BY <1>1, <1>3, <2>1 DEF AccountsInv, TypeOK, CallsOK
<1>5. CallOK(h)'
  <2>1. ASSUME Putting(h)' PROVE Secret(h)' /\ Alone(h)'
    <3>1. call'[h] = call[h] /\ t \notin answered' /\ (pc'[h] = "expire" => session'[t] # 0)
          /\ IF pc'[h] = "reply" THEN Lasting(t)' ELSE t \notin ended \union ttl'
      BY <2>1
    <3>2. Alone(h)'
      BY <1>1, <3>1 DEF OthersStay, Alone, Putting
    <3>3. Secret(h)'
      BY <1>1, <1>2, <3>1 DEF Secret, Stored, Lasting
    <3>4. QED
      BY <3>2, <3>3
  <2>2. QED
    BY <2>1 DEF CallOK
<1> DEFINE T == {t}
<1>6. T \in SUBSET Tok /\ T \subseteq Given' /\ \A s : s \in T <=> s = t
  BY <1>1, <1>2
<1> HIDE DEF T
<1>7. \A s \in T : session'[s] # 0 => session'[s] = issued'[s] /\ Stored(issued[s])'
  BY <1>1, <1>2, <1>6 DEF Stored
<1>8. \A s \in T : s \in answered' => Lasting(s)'
  BY <1>6 DEF Lasting
<1>9. \A s \in Tok \ T : /\ session'[s] = session[s] /\ (s \in ttl' <=> s \in ttl)
                         /\ (s \in answered' <=> s \in answered)
  BY <1>3, <1>6
<1>10. QED
  BY <1>1, <1>2, <1>4, <1>5, <1>6, <1>7, <1>8, <1>9, CallMoves DEF OthersStay

(* What a request knows of its token, before PutInv is applied to it.      *)
LEMMA PuttingIs ==
    ASSUME AccountsInv, NEW h \in Calls, NEW t, t = call[h].tok, Putting(h)
    PROVE  /\ t \in Tok /\ t \notin answered /\ call[h].uid \in Uid /\ call[h].uid # 0
           /\ session[t] # 0 => session[t] = call[h].uid
           /\ session \in [Tok -> 0..MaxUid]
           /\ pc[h] = "reply" => Lasting(t)
           /\ pc[h] # "reply" => t \notin ended \union ttl
           /\ pc[h] = "expire" => session[t] # 0
<1>1. /\ t \in Given \ answered /\ call[h].uid = issued[t]
      /\ IF pc[h] = "reply" THEN Lasting(t) ELSE t \notin ended \union ttl
      /\ pc[h] = "expire" => session[t] # 0
  BY DEF AccountsInv, CallOK, Secret
<1>2. t \in Tok /\ issued[t] \in Uid
  BY <1>1, IssuedIs DEF AccountsInv
<1>3. session[t] # 0 => session[t] = issued[t]
  BY <1>2 DEF AccountsInv, SessionsOwned
<1>4. call[h].uid # 0
  BY <1>1, <1>2 DEF Uid
<1>5. QED
  BY <1>1, <1>2, <1>3, <1>4 DEF AccountsInv, TypeOK

LEMMA HSetInv == ASSUME AccountsInv, NEW h \in Calls, HSet(h) PROVE AccountsInv'
<1>1. PICK s : s = call[h].tok
  OBVIOUS
<1>2. s = call[h].tok /\ Putting(h) /\ pc[h] = "hset"
  BY <1>1 DEF HSet, GoTo, Putting
<1>3. /\ s \in Tok /\ s \notin answered /\ call[h].uid \in Uid /\ call[h].uid # 0
      /\ session \in [Tok -> 0..MaxUid] /\ s \notin ended \union ttl
  BY <1>2, PuttingIs
<1>4. CallsOK' /\ OthersStay(h) /\ pc'[h] = "expire" /\ call' = call
  BY CallsFit, GoToOK DEF HSet, Steps
<1>5. /\ UNCHANGED <<code, im_user, nextUid, issued, ended, admitted, ttl, answered>>
      /\ session' = [session EXCEPT ![s] = call[h].uid]
  BY <1>2 DEF HSet, ghostVars
<1>6. session'[s] = call[h].uid
  BY <1>3, <1>5
<1>7. QED
  BY <1>2, <1>3, <1>4, <1>5, <1>6, PutInv

LEMMA ExpireInv == ASSUME AccountsInv, NEW h \in Calls, Expire(h) PROVE AccountsInv'
<1>1. PICK s : s = call[h].tok
  OBVIOUS
<1>2. s = call[h].tok /\ Putting(h) /\ pc[h] = "expire"
  BY <1>1 DEF Expire, GoTo, Putting
<1>3. /\ s \in Tok /\ s \notin answered /\ session[s] # 0 /\ session[s] = call[h].uid
      /\ s \notin ended \union ttl
  BY <1>2, PuttingIs
<1>4. CallsOK' /\ OthersStay(h) /\ pc'[h] = "reply" /\ call' = call
  BY CallsFit, GoToOK DEF Expire, Steps
<1>5. /\ UNCHANGED <<code, im_user, nextUid, issued, session, ended, admitted, answered>>
      /\ ttl' = ttl \union {s}
  BY <1>2 DEF Expire, ghostVars
<1>6. Lasting(s)'
  BY <1>3, <1>5 DEF Lasting
<1>7. QED
  BY <1>2, <1>3, <1>4, <1>5, <1>6, PutInv

(* A request that ends with its token: a write that fails, or the reply.   *)
LEMMA EndsInv ==
    ASSUME AccountsInv, NEW h \in Calls, HSetFails(h) \/ ExpireFails(h) \/ Reply(h)
    PROVE  AccountsInv'
<1>1. PICK s : s = call[h].tok
  OBVIOUS
<1>2. s = call[h].tok /\ Putting(h) /\ pc[h] \in {"hset", "expire", "reply"}
  BY <1>1 DEF HSetFails, ExpireFails, Reply, Putting
<1>3. CallsOK' /\ OthersStay(h) /\ pc'[h] = "idle" /\ ~Putting(h)'
  BY CallsFit, EndCallOK DEF HSetFails, ExpireFails, Reply, Putting
<1>4. /\ s \in Tok /\ s \notin answered /\ session \in [Tok -> 0..MaxUid]
      /\ call[h].uid \in Uid /\ call[h].uid # 0
      /\ session[s] # 0 => session[s] = call[h].uid
      /\ pc[h] = "reply" => Lasting(s)
      /\ pc[h] # "reply" => s \notin ended \union ttl
      /\ pc[h] = "expire" => session[s] # 0
  BY <1>2, PuttingIs
<1>5. CASE HSetFails(h)
  <2>1. /\ UNCHANGED <<code, im_user, nextUid, issued, ttl, ended, admitted, answered>>
        /\ session' \in {session, [session EXCEPT ![s] = call[h].uid]} /\ pc[h] = "hset"
    BY <1>2, <1>5 DEF HSetFails, ghostVars
  <2>2. (session'[s] # 0 => session'[s] = call[h].uid) /\ s \notin ttl'
    BY <1>4, <2>1
  <2>3. QED
    BY <1>2, <1>3, <1>4, <2>1, <2>2, PutInv
<1>6. CASE ExpireFails(h)
  <2>1. /\ UNCHANGED <<code, im_user, nextUid, issued, session, ended, admitted, answered>>
        /\ ttl' \in {ttl, ttl \union {s}} /\ pc[h] = "expire"
    BY <1>2, <1>6 DEF ExpireFails, ghostVars
  <2>2. QED
    BY <1>2, <1>3, <1>4, <2>1, PutInv
<1>7. CASE Reply(h)
  <2>1. /\ UNCHANGED <<code, im_user, nextUid, issued, session, ttl, ended, admitted>>
        /\ answered' = answered \union {s} /\ pc[h] = "reply"
    BY <1>2, <1>7 DEF Reply, redisVars
  <2>2. Lasting(s)'
    BY <1>4, <2>1 DEF Lasting
  <2>3. s \in ttl' => session'[s] # 0
    BY <2>1 DEF AccountsInv, TypeOK
  <2>4. QED
    BY <1>2, <1>3, <1>4, <2>1, <2>2, <2>3, PutInv
<1>8. QED
  BY <1>5, <1>6, <1>7

(* The end of a session that had a time to live, or was answered for.      *)
LEMMA EndSessionInv ==
    ASSUME AccountsInv, NEW t \in Tok, Logout(t) \/ SessionExpires(t) PROVE AccountsInv'
<1>1. /\ session' = [session EXCEPT ![t] = 0] /\ ttl' = ttl \ {t}
      /\ ended' = ended \union {t} /\ t \in answered \union ttl
      /\ UNCHANGED <<code, im_user, nextUid, issued, pc, call, answered, admitted>>
  BY DEF Logout, SessionExpires, EndSession, callVars
<1>2. /\ session' \in [Tok -> 0..MaxUid] /\ session'[t] = 0
      /\ \A s \in Tok \ {t} : session'[s] = session[s]
  BY <1>1, AccountsAssumption DEF AccountsAssumption, AccountsInv, TypeOK
<1>3. TypeOK'
  <2>1. ttl' \subseteq {s \in Tok : session'[s] # 0}
    BY <1>1, <1>2 DEF AccountsInv, TypeOK
  <2>2. QED
    BY <1>1, <1>2, <2>1 DEF AccountsInv, TypeOK
<1>4. Given' = Given /\ t \in Given
  BY <1>1 DEF AccountsInv, Tokens, Given
<1>5. Tokens'
  BY <1>1, <1>4 DEF AccountsInv, Tokens
<1>6. SessionsOwned'
  BY <1>1, <1>2 DEF AccountsInv, SessionsOwned, Stored
<1>7. \A s \in Tok : Lasting(s) => Lasting(s)'
  BY <1>1, <1>2 DEF Lasting
<1>8. Lasting(t)'
  BY <1>1, <1>2 DEF Lasting
<1>9. AnsweredLasts'
  BY <1>1, <1>7 DEF AccountsInv, AnsweredLasts, TypeOK
<1>10. AdmittedAsOwner'
  BY <1>1 DEF AccountsInv, AdmittedAsOwner, Stored
<1>11. ASSUME NEW g \in Calls PROVE CallOK(g)'
  <2>1. ASSUME Putting(g), NEW s, s = call[g].tok PROVE Secret(g)'
    <3>1. /\ s \in Given \ answered /\ call[g].uid = issued[s] /\ Stored(issued[s])
          /\ IF pc[g] = "reply" THEN Lasting(s) ELSE s \notin ended \union ttl
          /\ pc[g] = "expire" => session[s] # 0
      BY <2>1 DEF AccountsInv, CallOK, Secret
    <3>2. s \in Tok
      BY <3>1, IssuedIs DEF AccountsInv
    <3>3. IF pc[g] = "reply" THEN Lasting(s)' ELSE s # t
      BY <1>1, <1>7, <3>1, <3>2
    <3>4. QED
      BY <1>1, <1>2, <1>4, <2>1, <3>1, <3>2, <3>3 DEF Secret, Stored, Lasting
  <2>2. QED
    BY <1>1, <2>1 DEF AccountsInv, CallOK, Alone, Putting
<1>12. QED
  BY <1>3, <1>5, <1>6, <1>9, <1>10, <1>11 DEF AccountsInv

(* A request or a connection is let through for a session that is there.   *)
LEMMA CheckHashInv == ASSUME AccountsInv, NEW h \in Calls, CheckHash(h) PROVE AccountsInv'
<1>1. /\ UNCHANGED <<code, im_user, nextUid, issued, session, ttl, answered, ended>>
      /\ EndCall(h) /\ pc[h] = "hgetall"
  BY DEF CheckHash, redisVars
<1>2. PICK t : t = call[h].tok
  OBVIOUS
<1>3. t \in answered /\ t \in Given /\ t \in Tok
  <2>1. t \in answered
    BY <1>1, <1>2 DEF AccountsInv, CallOK
  <2>2. QED
    BY <2>1 DEF AccountsInv, TypeOK, Tokens
<1>4. /\ session[t] \in 0..MaxUid
      /\ session[t] # 0 => session[t] = issued[t] /\ Stored(session[t])
      /\ admitted' = admitted \/ (session[t] # 0 /\ admitted' = admitted \union {[tok |-> t, uid |-> session[t]]})
  BY <1>2, <1>3 DEF AccountsInv, TypeOK, SessionsOwned, CheckHash, Admit
<1>5. CallsOK' /\ OthersStay(h) /\ CallOK(h)'
  BY <1>1, CallsFit, EndCallOK
<1>6. TypeOK'
  BY <1>1, <1>3, <1>4, <1>5 DEF AccountsInv, TypeOK, CallsOK
<1>7. Given' = Given
  BY <1>1 DEF Given
<1>8. \A a \in admitted' \ admitted : a.tok \in Given' /\ a.uid = issued'[a.tok] /\ Stored(a.uid)'
  BY <1>1, <1>3, <1>4, <1>7 DEF Stored
<1> DEFINE none == {}
<1>9. none \in SUBSET Tok /\ \A s : s \notin none
  OBVIOUS
<1> HIDE DEF none
<1>10. QED
  BY <1>1, <1>5, <1>6, <1>7, <1>8, <1>9, CallMoves DEF OthersStay

LEMMA ValidateSessionInv ==
    ASSUME AccountsInv, NEW t \in Tok, ValidateSession(t) PROVE AccountsInv'
<1>1. /\ UNCHANGED <<code, im_user, nextUid, issued, session, ttl, pc, call, answered, ended>>
      /\ admitted' = admitted \union {[tok |-> t, uid |-> issued[t]]}
      /\ t \in answered /\ session[t] # 0
  BY DEF ValidateSession, Admit, redisVars, callVars
<1>2. t \in Given /\ session[t] \in 0..MaxUid /\ session[t] = issued[t] /\ Stored(issued[t])
  BY <1>1 DEF AccountsInv, TypeOK, Tokens, SessionsOwned
<1>3. TypeOK' /\ Tokens' /\ SessionsOwned' /\ AnsweredLasts'
  BY <1>1, <1>2 DEF AccountsInv, TypeOK, Tokens, SessionsOwned, AnsweredLasts, Lasting, Stored, Given
<1>4. AdmittedAsOwner'
  BY <1>1, <1>2 DEF AccountsInv, AdmittedAsOwner, Stored
<1>5. \A h \in Calls : CallOK(h)'
  BY <1>1 DEF AccountsInv, CallOK, Putting, Secret, Alone, Lasting, Stored, Given
<1>6. QED
  BY <1>3, <1>4, <1>5 DEF AccountsInv

LEMMA AuthInv == ASSUME AccountsInv, NEW h \in Calls, Auth(h) PROVE AccountsInv'
<1>1. 0 \in 0..MaxTok /\ im_user \subseteq User
  BY AccountsAssumption DEF AccountsAssumption, AccountsInv, TypeOK
<1>2. ASSUME NEW p \in Phones, Login(h, p) \/ Reset(h, p) PROVE AccountsInv'
  BY <1>1, <1>2, StartInv DEF Login, Reset
<1>3. CASE LookupFails(h) \/ Die(h)
  BY <1>1, <1>3, QuitInv DEF LookupFails, Die, UsersKept
<1>4. QED
  BY <1>2, <1>3, RegisterInv, InsertUserInv, InsertFailsInv, LookupInv, UpdatePasswordInv,
     HSetInv, ExpireInv, EndsInv
  DEF Auth, Put

LEMMA AccountsInit == Init => AccountsInv
<1> SUFFICES ASSUME Init PROVE AccountsInv
  OBVIOUS
<1>1. TypeOK
  BY AccountsAssumption DEF AccountsAssumption, Init, TypeOK, Steps
<1>2. QED
  BY <1>1 DEF Init, AccountsInv, Tokens, Given, CallOK, Putting, SessionsOwned, AnsweredLasts,
              AdmittedAsOwner

LEMMA AccountsNext == AccountsInv /\ [Next]_vars => AccountsInv'
<1> SUFFICES ASSUME AccountsInv, [Next]_vars PROVE AccountsInv'
  OBVIOUS
<1>1. CASE UNCHANGED vars
  <2>1. UNCHANGED <<code, im_user, nextUid, issued, session, ttl, pc, call, answered, ended, admitted>>
    BY <1>1 DEF vars
  <2>2. TypeOK' /\ Tokens' /\ SessionsOwned' /\ AnsweredLasts' /\ AdmittedAsOwner'
    BY <2>1 DEF AccountsInv, TypeOK, Tokens, SessionsOwned, AnsweredLasts, AdmittedAsOwner,
                Lasting, Stored, Given
  <2>3. \A h \in Calls : CallOK(h)'
    BY <2>1 DEF AccountsInv, CallOK, Putting, Secret, Alone, Lasting, Stored, Given
  <2>4. QED
    BY <2>2, <2>3 DEF AccountsInv
<1>2. ASSUME NEW h \in Calls, NEW t \in Tok, CheckExists(h, t) PROVE AccountsInv'
  <2>1. t \in 0..MaxTok /\ t \in answered
    BY <1>2, AccountsAssumption DEF AccountsAssumption, Tok, CheckExists
  <2>2. QED
    BY <1>2, <2>1, StartInv DEF CheckExists
<1>3. QED
  BY <1>1, <1>2, CodeInv, AuthInv, CheckHashInv, EndSessionInv, ValidateSessionInv DEF Next

LEMMA AccountsAlways == Spec => []AccountsInv
BY AccountsInit, AccountsNext, PTL DEF Spec

(***************************************************************************)
(* /v1/auth/...: the state of accounts and sessions keeps its types.       *)
(***************************************************************************)
THEOREM AccountsTypeCorrect == Spec => []TypeOK
<1>1. AccountsInv => TypeOK
  BY DEF AccountsInv
<1>2. QED
  BY <1>1, AccountsAlways, PTL

(***************************************************************************)
(* SessionStore.Put: a session names the stored user of its token, whatever*)
(* writes fail and however requests overlap.                               *)
(***************************************************************************)
THEOREM SessionsAreOwned == Spec => []SessionsOwned
<1>1. AccountsInv => SessionsOwned
  BY DEF AccountsInv
<1>2. QED
  BY <1>1, AccountsAlways, PTL

(***************************************************************************)
(* HSET and EXPIRE: a token a client was given has a session that can      *)
(* expire, until it ended, and none after it.                              *)
(***************************************************************************)
THEOREM SessionsLast == Spec => []AnsweredLasts
<1>1. AccountsInv => AnsweredLasts
  BY DEF AccountsInv
<1>2. QED
  BY <1>1, AccountsAlways, PTL

(***************************************************************************)
(* Wrap and ValidateSession: whoever is let through is the stored user that*)
(* the token was generated for.                                            *)
(***************************************************************************)
THEOREM OwnersAdmitted == Spec => []AdmittedAsOwner
<1>1. AccountsInv => AdmittedAsOwner
  BY DEF AccountsInv
<1>2. QED
  BY <1>1, AccountsAlways, PTL

-----------------------------------------------------------------------------
(* Each step is a step of Sessions, or one that it does not see.           *)

LEMMA GrantedKept ==
    ASSUME AccountsInv, answered' = answered,
           issued' = issued \/ \E uid \in Uid : issued' = Append(issued, uid)
    PROVE  Granted' = Granted
<1>1. issued \in Seq(Uid) /\ answered \subseteq 1..Len(issued)
  BY DEF AccountsInv, TypeOK, Tokens, Given
<1>2. \A t \in answered : issued'[t] = issued[t]
  BY <1>1
<1>3. QED
  BY <1>2 DEF Granted

LEMMA KnownKept == ASSUME UNCHANGED im_user PROVE Known' = Known
BY DEF Known

(* A step that adds a row for user uid, and changes nothing else that is   *)
(* seen.                                                                   *)
LEMMA Joins ==
    ASSUME AccountsInv, NEW h \in Calls, pc[h] = "insert",
           NEW row \in NewUsers(h), im_user' = im_user \union {row},
           Granted' = Granted, UNCHANGED <<ended, admitted>>
    PROVE  [Door!SessionsNext]_Door!sessionVars
<1>1. row.uid \in Uid
  BY DEF AccountsInv, CallOK, NewUsers
<1>2. Known' = Known \union {row.uid}
  BY DEF Known
<1>3. Door!Join(row.uid)
  BY <1>2 DEF Door!Join
<1>4. QED
  BY <1>1, <1>3 DEF Door!SessionsNext

LEMMA AuthDoor ==
    ASSUME AccountsInv, NEW h \in Calls, Auth(h)
    PROVE  [Door!SessionsNext]_Door!sessionVars
<1>1. CASE InsertUser(h)
  <2>1. /\ pc[h] = "insert" /\ UNCHANGED <<answered, ended, admitted>>
        /\ issued' = Append(issued, call[h].uid) /\ call[h].uid \in Uid
    BY <1>1 DEF InsertUser, GoTo, ghostVars, IssueToken, AccountsInv, CallOK
  <2>2. PICK row \in NewUsers(h) : im_user' = im_user \union {row}
    BY <1>1 DEF InsertUser
  <2>3. QED
    BY <2>1, <2>2, GrantedKept, Joins
<1>2. CASE InsertFails(h)
  <2>1. pc[h] = "insert" /\ UNCHANGED <<issued, answered, ended, admitted>> /\ Granted' = Granted
    BY <1>2, GrantedKept DEF InsertFails, ghostVars
  <2>2. CASE im_user' = im_user
    BY <2>1, <2>2, KnownKept DEF Door!sessionVars
  <2>3. CASE im_user' # im_user
    BY <1>2, <2>1, <2>3, Joins DEF InsertFails
  <2>4. QED
    BY <2>2, <2>3
<1>3. CASE Lookup(h)
  <2>1. UNCHANGED <<im_user, answered, ended, admitted>>
    BY <1>3 DEF Lookup, ghostVars
  <2>2. \E uid \in Uid : issued' = Append(issued, uid)
    BY <1>3 DEF Lookup, IssueToken, AccountsInv, TypeOK, User
  <2>3. QED
    BY <2>1, <2>2, GrantedKept, KnownKept DEF Door!sessionVars
<1>4. ASSUME NEW w \in Passwords, UpdatePassword(h, w)
      PROVE  [Door!SessionsNext]_Door!sessionVars
  <2> DEFINE new(u) == IF u.phone = call[h].phone THEN [u EXCEPT !.password = w] ELSE u
  <2>1. \A u \in im_user : new(u).uid = u.uid
    BY DEF AccountsInv, TypeOK, User
  <2>2. im_user' = im_user \/ im_user' = {new(u) : u \in im_user}
    BY <1>4 DEF UpdatePassword
  <2> HIDE DEF new
  <2>3. Known' = Known
    BY <2>1, <2>2 DEF Known
  <2>4. QED
    BY <1>4, <2>3, GrantedKept DEF UpdatePassword, ghostVars, Door!sessionVars
<1>5. CASE Reply(h)
  <2> DEFINE t == call[h].tok
             u == issued[t]
  <2>1. t \in Given /\ t \notin answered /\ Stored(u)
    BY <1>5 DEF AccountsInv, CallOK, Putting, Secret, Reply
  <2>2. /\ UNCHANGED <<im_user, issued, ended, admitted>> /\ answered' = answered \union {t}
    BY <1>5 DEF Reply, redisVars
  <2>3. u \in Uid /\ t \in Tok /\ u \in Known
    BY <2>1, IssuedIs DEF AccountsInv, Stored, Known
  <2> HIDE DEF t
  <2>4. Granted' = Granted \union {Door!Of(t, u)} /\ \A g \in Granted : g.tok # t
    BY <2>1, <2>2 DEF Granted, Door!Of
  <2>5. Door!Grant(t, u)
    BY <2>2, <2>3, <2>4, KnownKept DEF Door!Grant
  <2>6. QED
    BY <2>3, <2>5 DEF Door!SessionsNext
<1>6. CASE \/ \E p \in Phones : Register(h, p) \/ Login(h, p) \/ Reset(h, p)
           \/ LookupFails(h) \/ HSet(h) \/ HSetFails(h) \/ Expire(h) \/ ExpireFails(h) \/ Die(h)
  <2>1. UNCHANGED <<im_user, issued, answered, ended, admitted>>
    BY <1>6 DEF Register, Login, Reset, LookupFails, HSet, HSetFails, Expire, ExpireFails, Die,
                ghostVars
  <2>2. QED
    BY <2>1, GrantedKept, KnownKept DEF Door!sessionVars
<1>7. QED
  BY <1>1, <1>2, <1>3, <1>4, <1>5, <1>6 DEF Auth, Put

(* Who holds a session that lasts is let in.                               *)
LEMMA Admits ==
    ASSUME AccountsInv, NEW t \in answered, session[t] # 0,
           Admit(t, issued[t]), UNCHANGED <<im_user, issued, answered, ended>>
    PROVE  [Door!SessionsNext]_Door!sessionVars
<1>1. t \in Given /\ t \notin ended
  BY DEF AccountsInv, Tokens, AnsweredLasts, Lasting
<1>2. t \in Tok /\ issued[t] \in Uid
  BY <1>1, IssuedIs DEF AccountsInv
<1>3. Door!Of(t, issued[t]) \in Granted
  BY DEF Door!Of, Granted
<1>4. Door!Admit(t, issued[t])
  BY <1>1, <1>3, GrantedKept, KnownKept DEF Door!Admit, Door!Of, Admit
<1>5. QED
  BY <1>2, <1>4 DEF Door!SessionsNext

LEMMA DoorStep == AccountsInv /\ [Next]_vars => [Door!SessionsNext]_Door!sessionVars
<1> SUFFICES ASSUME AccountsInv, [Next]_vars PROVE [Door!SessionsNext]_Door!sessionVars
  OBVIOUS
<1>1. ASSUME NEW h \in Calls, CheckHash(h) PROVE [Door!SessionsNext]_Door!sessionVars
  <2> DEFINE t == call[h].tok
  <2>1. t \in answered /\ UNCHANGED <<im_user, issued, answered, ended>>
    BY <1>1 DEF AccountsInv, CallOK, CheckHash, redisVars
  <2>2. CASE session[t] = 0
    BY <1>1, <2>1, <2>2, GrantedKept, KnownKept DEF CheckHash, Door!sessionVars
  <2>3. CASE session[t] # 0
    <3>1. session[t] = issued[t]
      BY <2>1, <2>3 DEF AccountsInv, SessionsOwned, TypeOK
    <3>2. Admit(t, issued[t])
      BY <1>1, <2>3, <3>1 DEF CheckHash
    <3>3. QED
      BY <2>1, <2>3, <3>2, Admits
  <2>4. QED
    BY <2>2, <2>3
<1>2. ASSUME NEW t \in Tok, ValidateSession(t) PROVE [Door!SessionsNext]_Door!sessionVars
  BY <1>2, Admits DEF ValidateSession, redisVars, callVars
<1>3. ASSUME NEW t \in Tok, Logout(t) \/ SessionExpires(t)
      PROVE  [Door!SessionsNext]_Door!sessionVars
  <2>1. ended' = ended \union {t} /\ UNCHANGED <<im_user, issued, answered, admitted>>
    BY <1>3 DEF Logout, SessionExpires, EndSession
  <2>2. Door!End(t)
    BY <2>1, GrantedKept, KnownKept DEF Door!End
  <2>3. QED
    BY <2>2 DEF Door!SessionsNext
<1>4. CASE \/ UNCHANGED vars
           \/ \E b \in Biz, p \in Phones : SendCode(b, p) \/ CodeExpires(b, p)
           \/ \E h \in Calls, t \in Tok : CheckExists(h, t)
  <2>1. UNCHANGED <<im_user, issued, answered, ended, admitted>>
    BY <1>4 DEF vars, SendCode, CodeExpires, CheckExists, ghostVars
  <2>2. QED
    BY <2>1, GrantedKept, KnownKept DEF Door!sessionVars
<1>5. QED
  BY <1>1, <1>2, <1>3, <1>4, AuthDoor DEF Next

(***************************************************************************)
(* The account handlers, the session store and the two checks together     *)
(* implement Sessions: a token is given once, to a stored user, and nobody *)
(* is let through by it after its session is over.                         *)
(***************************************************************************)
THEOREM AccountsImplementSessions == Spec => ImplementsSessions
<1>1. Init => Door!SessionsInit
  BY DEF Init, Door!SessionsInit, Known, Granted
<1>2. QED
  BY <1>1, AccountsAlways, DoorStep, PTL DEF Spec, ImplementsSessions, Door!SessionsSpec
=============================================================================
