----------------------------- MODULE ItemLedger -----------------------------
(***************************************************************************)
(* What the batcher of im-job promises, with no broker, buffer, ticker,    *)
(* breaker or chunk in sight.  The items of a copy of a message are taken  *)
(* on together.  From then on each is held, until it is reached (the comet *)
(* answered for it, or it is in the offline queue) or gone (with the       *)
(* process, or with a write that failed); and it is held no more then.     *)
(***************************************************************************)
CONSTANTS Copies,     \* copies of messages that the broker delivers
          ItemsOf     \* the items of each copy

VARIABLES held,       \* items taken on that have not met their end
          reached, gone

ledgerVars == <<held, reached, gone>>

LedgerInit == held = {} /\ reached = {} /\ gone = {}

(* A copy may be taken on again, but not while items of it are held.       *)
TakeOn(k) ==
    /\ ItemsOf[k] \intersect held = {}
    /\ held' = held \union ItemsOf[k]
    /\ UNCHANGED <<reached, gone>>

(* Several items at once, as of a chunk, find their end.                   *)
LetGo(items) == items \subseteq held /\ held' = held \ items

Reach(items) ==
    /\ LetGo(items)
    /\ reached' = reached \union items
    /\ UNCHANGED gone

Lose(items) ==
    /\ LetGo(items)
    /\ gone' = gone \union items
    /\ UNCHANGED reached

LedgerNext ==
    \/ \E k \in Copies : TakeOn(k)
    \/ \E items \in SUBSET held : Reach(items) \/ Lose(items)

LedgerSpec == LedgerInit /\ [][LedgerNext]_ledgerVars
=============================================================================
