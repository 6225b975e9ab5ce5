------------------------------ MODULE Sessions ------------------------------
(***************************************************************************)
(* What the accounts of im-ai promise to whoever relies on a token, with no*)
(* SMS code, Redis command or failed write in sight: a token is given once,*)
(* for a user that exists; it opens the door for that user alone, and no   *)
(* longer than until its session is over.                                  *)
(***************************************************************************)
CONSTANTS Users, Tokens

VARIABLES known,      \* users that exist
          granted,    \* the tokens given, each with its user
          over,       \* tokens that were logged out or have expired
          admitted    \* who was let through, with which token

sessionVars == <<known, granted, over, admitted>>

SessionsInit == known = {} /\ granted = {} /\ over = {} /\ admitted = {}

Of(t, u) == [tok |-> t, uid |-> u]

Join(u) ==
    /\ known' = known \union {u}
    /\ UNCHANGED <<granted, over, admitted>>

(* A session may expire before the client is told its token.               *)
Grant(t, u) ==
    /\ u \in known
    /\ \A g \in granted : g.tok # t
    /\ granted' = granted \union {Of(t, u)}
    /\ UNCHANGED <<known, over, admitted>>

End(t) ==
    /\ over' = over \union {t}
    /\ UNCHANGED <<known, granted, admitted>>

Admit(t, u) ==
    /\ Of(t, u) \in granted /\ t \notin over
    /\ admitted' = admitted \union {Of(t, u)}
    /\ UNCHANGED <<known, granted, over>>

SessionsNext ==
    \/ \E u \in Users : Join(u)
    \/ \E t \in Tokens : End(t) \/ \E u \in Users : Grant(t, u) \/ Admit(t, u)

SessionsSpec == SessionsInit /\ [][SessionsNext]_sessionVars
=============================================================================
