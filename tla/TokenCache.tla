------------------------------ MODULE TokenCache ------------------------------
(***************************************************************************)
(* The Getui provider of core-push-go: Push fetches an access token from   *)
(* the service, keeps it for the next pushes until shortly before it       *)
(* expires, and sends its notification with it.  The lock covers the       *)
(* reading and the writing of the cache, not the request between them, so  *)
(* that several callers may refresh the token at once.                     *)
(***************************************************************************)
EXTENDS Integers, Sequences

CONSTANTS Callers,      \* goroutines that call Push
          Margin,       \* getToken: 2 minutes
          OpTimeout,    \* deadline of the context of a call
          DefaultLife,  \* getToken: 23 hours, if the service states no time
          Life,         \* for how long the service honours a token
          Skew,         \* how far the service's clock is ahead of ours
          MaxTokens,    \* bound: tokens the service may issue
          MaxTime       \* bound: clock

ASSUME TokenAssumption ==
    /\ Margin \in Nat /\ OpTimeout \in Nat /\ DefaultLife \in Nat /\ Life \in Nat
    /\ Skew \in Nat /\ MaxTokens \in Nat /\ MaxTime \in Nat
    /\ OpTimeout + Skew <= Margin
    /\ DefaultLife + 2 * OpTimeout <= Life + Margin
    /\ Margin + OpTimeout < DefaultLife /\ Margin + OpTimeout < Life

NoToken == 0

VARIABLES now,             \* our clock
          token, expireAt, \* the provider's fields
          expires,         \* the service: when each token it issued ends, by
                           \* its own clock; a token is its place here
          tpc, start,      \* each call: its step, when it began
          mine             \* the token a call has got, and its expiry

tokenVars == <<now, token, expireAt, expires, tpc, start, mine>>

Token == 0..MaxTokens
Holding(t, exp) == [token |-> t, exp |-> exp]
Nothing == Holding(NoToken, 0)
InCall == {"token", "refresh", "answered", "store", "push"}

TokenTypeOK ==
    /\ now \in Nat
    /\ token \in 0..Len(expires) /\ expireAt \in Nat
    /\ expires \in Seq(Nat) /\ Len(expires) <= MaxTokens
    /\ tpc \in [Callers -> InCall \union {"idle", "gone"}]
    /\ start \in [Callers -> Nat]
    /\ mine \in [Callers -> [token : 0..Len(expires), exp : Nat]]

TokenInit ==
    /\ now = 0
    /\ token = NoToken /\ expireAt = 0
    /\ expires = <<>>
    /\ tpc = [c \in Callers |-> "idle"]
    /\ start = [c \in Callers |-> 0]
    /\ mine = [c \in Callers |-> Nothing]

Step(c, step) == tpc' = [tpc EXCEPT ![c] = step]

(* The context of every call in progress ends at its deadline, and with it *)
(* the call: no request is sent or waited for after it.                    *)
Tick ==
    /\ now < MaxTime
    /\ \A c \in Callers : tpc[c] \in InCall => now < start[c] + OpTimeout
    /\ now' = now + 1
    /\ UNCHANGED <<token, expireAt, expires, tpc, start, mine>>

Push(c) ==
    /\ tpc[c] = "idle"
    /\ Step(c, "token")
    /\ start' = [start EXCEPT ![c] = now]
    /\ UNCHANGED <<now, token, expireAt, expires, mine>>

(* Not the code: a token is used up to the end of its life.                *)
FaultNoMargin == token # NoToken /\ now < expireAt

Fresh == token # NoToken /\ now < expireAt - Margin

(* getToken finds a token that will last.                                  *)
CacheHit(c) ==
    /\ tpc[c] = "token" /\ Fresh
    /\ mine' = [mine EXCEPT ![c] = Holding(token, 0)]
    /\ Step(c, "push")
    /\ UNCHANGED <<now, token, expireAt, expires, start>>

CacheMiss(c) ==
    /\ tpc[c] = "token" /\ ~Fresh
    /\ Step(c, "refresh")
    /\ UNCHANGED <<now, token, expireAt, expires, start, mine>>

(* The service handles POST /auth: a new token.                            *)
Issue(c) ==
    /\ tpc[c] = "refresh"
    /\ Len(expires) < MaxTokens
    /\ expires' = Append(expires, now + Skew + Life)
    /\ mine' = [mine EXCEPT ![c] = Holding(Len(expires) + 1, 0)]
    /\ Step(c, "answered")
    /\ UNCHANGED <<now, token, expireAt, start>>

(* Not the code: no default when the answer states no expire_time.         *)
FaultNoDefault(c) == {now, expires[mine[c].token]}

(* The answer's expire_time, if it is there and a number; or the default.  *)
Expiry(c) == {now + DefaultLife, expires[mine[c].token]}

ReadAnswer(c) ==
    /\ tpc[c] = "answered"
    /\ \E exp \in Expiry(c) : mine' = [mine EXCEPT ![c] = Holding(mine[c].token, exp)]
    /\ Step(c, "store")
    /\ UNCHANGED <<now, token, expireAt, expires, start>>

StoreToken(c) ==
    /\ tpc[c] = "store"
    /\ token' = mine[c].token /\ expireAt' = mine[c].exp
    /\ mine' = [mine EXCEPT ![c] = Holding(mine[c].token, 0)]
    /\ Step(c, "push")
    /\ UNCHANGED <<now, expires, start>>

EndCall(c) ==
    /\ Step(c, "idle")
    /\ mine' = [mine EXCEPT ![c] = Nothing]
    /\ start' = [start EXCEPT ![c] = 0]
    /\ UNCHANGED <<now, token, expireAt, expires>>

(* Not the code: the requests have no deadline.                            *)
FaultNoTimeout(c) == tpc[c] = "answered" /\ EndCall(c)

(* The answer to a request is lost or late, a status other than 200, a     *)
(* code other than 0, no token in it: Push returns the error.              *)
PushFails(c) == tpc[c] \in {"refresh", "answered", "push"} /\ EndCall(c)

PushSucceeds(c) == tpc[c] = "push" /\ EndCall(c)

GetToken(c) == CacheHit(c) \/ CacheMiss(c) \/ ReadAnswer(c) \/ StoreToken(c)

(* The goroutine ends.                                                     *)
Leave(c) ==
    /\ tpc[c] = "idle"
    /\ Step(c, "gone")
    /\ UNCHANGED <<now, token, expireAt, expires, start, mine>>

TokenNext ==
    \/ \E c \in Callers : Push(c) \/ GetToken(c) \/ Issue(c) \/ PushFails(c)
                           \/ PushSucceeds(c) \/ Leave(c)
    \/ Tick

TokenSpec == TokenInit /\ [][TokenNext]_tokenVars

-----------------------------------------------------------------------------
(* A notification is sent while the service honours its token: neither a   *)
(* cached token near its end, nor a clock that is behind the service's,    *)
(* nor refreshes whose answers are stored in the other order make a push   *)
(* use a token after its expiry.                                           *)
TokenInTime ==
    \A c \in Callers : tpc[c] = "push" => now + Skew < expires[mine[c].token]

(* A refresh ends the need for one: whichever of several refreshes is      *)
(* stored last, and however long it took, the next call finds a token.     *)
RefreshCures ==
    [][\A c \in Callers : tpc[c] = "store" /\ tpc'[c] = "push" => Fresh']_tokenVars

-----------------------------------------------------------------------------
(* The inductive invariant of EngineProofs.                                *)

(* The expiry kept with a token is late by less than what Margin leaves.   *)
Trusted(t, exp) == exp + OpTimeout + Skew <= expires[t] + Margin

(* A call that got a token got one for all its time.                       *)
Lasts(c) == start[c] + OpTimeout + Skew < expires[mine[c].token]

CallOK(c) ==
    /\ tpc[c] \in InCall => start[c] <= now /\ now <= start[c] + OpTimeout
    /\ tpc[c] \in {"answered", "store", "push"} => mine[c].token # NoToken /\ Lasts(c)
    /\ tpc[c] = "answered" => start[c] + Skew + Life <= expires[mine[c].token]
    /\ tpc[c] = "store" => /\ Trusted(mine[c].token, mine[c].exp)
                           /\ start[c] + OpTimeout + Margin < mine[c].exp

CacheOK == token # NoToken => Trusted(token, expireAt)

TokenInv == TokenTypeOK /\ CacheOK /\ \A c \in Callers : CallOK(c)
=============================================================================
