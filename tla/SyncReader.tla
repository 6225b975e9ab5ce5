----------------------------- MODULE SyncReader -----------------------------
(***************************************************************************)
(* GET /sync of im-ai, read by one member of each conversation while the   *)
(* send path writes.  The client keeps, for each conversation, the highest *)
(* sync_id it was given and asks for what comes after it, page by page.    *)
(***************************************************************************)
EXTENDS SendPath

CONSTANTS DefaultLimit,  \* sync.default_limit
          MaxLimit,      \* sync.max_limit
          RepoLimit,     \* the cap inside ListByConvAfterSync
          Limits         \* values of the query parameter limit

ASSUME LimitAssumption ==
    /\ DefaultLimit \in Nat \ {0} /\ MaxLimit \in Nat \ {0} /\ RepoLimit \in Nat \ {0}
    /\ Limits \subseteq Int

VARIABLES cursor,    \* after_sync_id the client will send next
          got        \* messages the client has been given

readerVars == <<cursor, got>>
allVars == <<vars, cursor, got>>

ReaderTypeOK ==
    /\ cursor \in [Convs -> Nat]
    /\ got \in [Convs -> SUBSET Msg]

ReaderInit ==
    /\ Init
    /\ cursor = [c \in Convs |-> 0]
    /\ got = [c \in Convs |-> {}]

Least(a, b) == IF a < b THEN a ELSE b

(* Not the code: the default is for a limit that is zero or missing only.  *)
FaultZeroOnly(n) ==
    LET asked == IF n = 0 THEN DefaultLimit ELSE n
    IN  Least(Least(asked, MaxLimit), RepoLimit)

(* The handler's default and cap, then the cap of the repository, whose own*)
(* default is never needed.                                                *)
EffectiveLimit(n) ==
    LET asked == IF n <= 0 THEN DefaultLimit ELSE n
    IN  Least(Least(asked, MaxLimit), RepoLimit)

(* WHERE conv_id = ? AND sync_id > ?                                       *)
Newer(c) == {m \in im_msg : m.conv = c /\ m.sync > cursor[c]}

(* Not the code: LIMIT n without ORDER BY.                                 *)
FaultUnordered(page, rows, n) ==
    IF Cardinality(rows) <= n THEN page = rows ELSE Cardinality(page) = n

(* ... ORDER BY sync_id ASC LIMIT n                                        *)
IsPage(page, rows, n) ==
    /\ \A p \in page, q \in rows : q.sync < p.sync => q \in page
    /\ IF Cardinality(rows) <= n THEN page = rows ELSE Cardinality(page) = n

SyncPage(c, n) ==
    \E page \in SUBSET Newer(c) : \E last \in page :
        /\ IsPage(page, Newer(c), EffectiveLimit(n))
        /\ \A p \in page : p.sync <= last.sync
        /\ got' = [got EXCEPT ![c] = @ \union page]
        /\ cursor' = [cursor EXCEPT ![c] = last.sync]
        /\ UNCHANGED vars

ReaderNext ==
    \/ Next /\ UNCHANGED readerVars
    \/ \E c \in Convs, n \in Limits : SyncPage(c, n)

ReaderSpec == ReaderInit /\ [][ReaderNext]_allVars

(* The send path is as fair as it is without a reader.  A client need not  *)
(* poll.                                                                   *)
FairReaderSpec == ReaderSpec /\ Fairness

(* A client asks for conversation c again and again, always with limit n.  *)
Polls(c, n) == WF_allVars(SyncPage(c, n))

-----------------------------------------------------------------------------
(* The cursor never passes a message the client was not given, whatever    *)
(* commits between two pages: a message that commits late has a sync_id    *)
(* above every page served before.                                         *)
NothingSkipped ==
    \A c \in Convs : WellNumbered(c) =>
        \A m \in im_msg : m.conv = c /\ m.sync <= cursor[c] => m \in got[c]

UpToDate(c) == WellNumbered(c) => \A m \in im_msg : m.conv = c => m \in got[c]

(* A client that polls with one and the same limit has every message, again*)
(* and again (for good, once MaxMsg messages are stored): no limit, be it  *)
(* negative, zero or above the caps, makes its pages empty or leaves its   *)
(* cursor where it is.                                                     *)
CatchesUp == \A c \in Convs, n \in Limits : Polls(c, n) => []<>UpToDate(c)
=============================================================================
