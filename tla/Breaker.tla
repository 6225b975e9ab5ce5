------------------------------- MODULE Breaker -------------------------------
(***************************************************************************)
(* The circuit breaker of im-job, one counter for each comet address, used *)
(* by concurrent flushes: a flush asks Allow once, then reports Success or *)
(* Failure for every chunk it sends, however late the answer comes.        *)
(***************************************************************************)
EXTENDS Integers, Sequences

CONSTANTS Keys,       \* comet addresses
          Callers,    \* concurrent flushes
          NoKey,      \* the flush is not sending
          Threshold, Window, OpenFor,    \* breaker.Options, in units of time
          MaxTime,    \* bound on the clock
          MaxFails    \* bound on the failures of a key between two successes

ASSUME BreakerAssumption ==
    /\ NoKey \notin Keys
    /\ Threshold \in Nat \ {0} /\ Window \in Nat \ {0} /\ OpenFor \in Nat \ {0}
    /\ MaxTime \in Nat /\ MaxFails \in Nat

VARIABLES now,         \* the clock
          failCount,   \* 0: the key has no entry in the map
          firstFail,
          openUntil,   \* 0: the zero time
          sending,     \* the key each flush is sending to
          fails        \* times of the failures since the last success
                       \* (for the properties only)

vars == <<now, failCount, firstFail, openUntil, sending, fails>>

TypeOK ==
    /\ now \in Nat
    /\ failCount \in [Keys -> Nat] /\ firstFail \in [Keys -> Nat] /\ openUntil \in [Keys -> Nat]
    /\ sending \in [Callers -> Keys \union {NoKey}]
    /\ fails \in [Keys -> Seq(Nat)]

Init ==
    /\ now = 0
    /\ failCount = [k \in Keys |-> 0]
    /\ firstFail = [k \in Keys |-> 0]
    /\ openUntil = [k \in Keys |-> 0]
    /\ sending = [c \in Callers |-> NoKey]
    /\ fails = [k \in Keys |-> <<>>]

Tick == now < MaxTime /\ now' = now + 1 /\ UNCHANGED <<failCount, firstFail, openUntil, sending, fails>>

Allowed(k) == ~(openUntil[k] # 0 /\ now < openUntil[k])

(* flush: the breaker lets the whole buffer through, whatever its chunks.  *)
Allow(c, k) ==
    /\ sending[c] = NoKey
    /\ Allowed(k)
    /\ sending' = [sending EXCEPT ![c] = k]
    /\ UNCHANGED <<now, failCount, firstFail, openUntil, fails>>

(* After a chunk the flush goes on with the next one, or is done.          *)
NextChunk(c) == sending' \in {sending, [sending EXCEPT ![c] = NoKey]}

Success(c, k) ==
    /\ sending[c] = k
    /\ failCount' = [failCount EXCEPT ![k] = 0]
    /\ firstFail' = [firstFail EXCEPT ![k] = 0]
    /\ openUntil' = [openUntil EXCEPT ![k] = 0]
    /\ fails' = [fails EXCEPT ![k] = <<>>]
    /\ NextChunk(c)
    /\ UNCHANGED now

(* Not the code: no look at the window.                                    *)
FaultNoWindow(k) == failCount[k] = 0

(* A first failure, or the first of a new window.                          *)
NewWindow(k) == failCount[k] = 0 \/ now - firstFail[k] > Window

(* Not the code: a stale window keeps the breaker open.                    *)
FaultKeepsOpen(k) ==
    /\ NewWindow(k)
    /\ failCount' = [failCount EXCEPT ![k] = 1]
    /\ firstFail' = [firstFail EXCEPT ![k] = now]
    /\ openUntil' = [openUntil EXCEPT ![k] = IF @ = 0 THEN 0 ELSE now + 2 * OpenFor]

StartWindow(k) ==
    /\ NewWindow(k)
    /\ failCount' = [failCount EXCEPT ![k] = 1]
    /\ firstFail' = [firstFail EXCEPT ![k] = now]
    /\ openUntil' = [openUntil EXCEPT ![k] = 0]

(* Not the code: one failure more than Threshold.                          *)
FaultOneMore(k) ==
    /\ ~NewWindow(k)
    /\ failCount' = [failCount EXCEPT ![k] = @ + 1]
    /\ openUntil' = [openUntil EXCEPT ![k] =
                        IF failCount[k] + 1 > Threshold THEN now + OpenFor ELSE @]
    /\ UNCHANGED firstFail

CountFailure(k) ==
    /\ ~NewWindow(k)
    /\ failCount' = [failCount EXCEPT ![k] = @ + 1]
    /\ openUntil' = [openUntil EXCEPT ![k] =
                        IF failCount[k] + 1 >= Threshold THEN now + OpenFor ELSE @]
    /\ UNCHANGED firstFail

Failure(c, k) ==
    /\ sending[c] = k
    /\ Len(fails[k]) < MaxFails
    /\ StartWindow(k) \/ CountFailure(k)
    /\ fails' = [fails EXCEPT ![k] = Append(@, now)]
    /\ NextChunk(c)
    /\ UNCHANGED now

Next ==
    \/ Tick
    \/ \E c \in Callers, k \in Keys : Allow(c, k) \/ Success(c, k) \/ Failure(c, k)

Spec == Init /\ [][Next]_vars

-----------------------------------------------------------------------------
LastFail(k) == fails[k][Len(fails[k])]

(* The n-th failure before the last one, counted from the last (0).        *)
FailBefore(k, n) == fails[k][Len(fails[k]) - n]

(* The breaker has tripped only after Threshold failures in a row, all of  *)
(* them within Window, whatever successes, slow answers and windows that   *)
(* expired in between.                                                     *)
TrippedByFailures ==
    \A k \in Keys : openUntil[k] # 0 =>
        /\ Len(fails[k]) >= Threshold
        /\ LastFail(k) - FailBefore(k, Threshold - 1) <= Window

(* A comet is refused for less than OpenFor after its last failure.        *)
RefusalBounded ==
    \A k \in Keys : ~Allowed(k) =>
        /\ fails[k] # <<>>
        /\ now - LastFail(k) < OpenFor

(* A comet that has failed, since its last success, Threshold times (and   *)
(* more than once: a first failure opens nothing) within Window is refused *)
(* for OpenFor from the last time, whichever flushes these failures are of.*)
BurstTrips ==
    \A k \in Keys :
        (/\ Len(fails[k]) >= Threshold /\ Len(fails[k]) > 1
         /\ LastFail(k) - fails[k][1] <= Window
         /\ now - LastFail(k) < OpenFor)
        => ~Allowed(k)

(* The inductive invariant of BreakerProofs: the entry of a key counts the *)
(* last failCount failures, the first of them at firstFail; while they are *)
(* of one window it has missed none.                                       *)
Counts ==
    \A k \in Keys :
        /\ \A i, j \in DOMAIN fails[k] : i <= j => fails[k][i] <= fails[k][j]
        /\ \A i \in DOMAIN fails[k] : fails[k][i] <= now
        /\ failCount[k] <= Len(fails[k])
        /\ failCount[k] > 0 => FailBefore(k, failCount[k] - 1) = firstFail[k]
        /\ openUntil[k] # 0 =>
              /\ failCount[k] >= Threshold
              /\ LastFail(k) - firstFail[k] <= Window
              /\ openUntil[k] = LastFail(k) + OpenFor
        /\ failCount[k] = 0 => fails[k] = <<>>
        /\ fails[k] # <<>> /\ LastFail(k) - fails[k][1] <= Window => failCount[k] = Len(fails[k])
        /\ failCount[k] >= Threshold /\ failCount[k] > 1 => openUntil[k] = LastFail(k) + OpenFor
=============================================================================
