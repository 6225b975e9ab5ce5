-------------------------------- MODULE Hub --------------------------------
(***************************************************************************)
(* One im-push process (a comet): the hub's map from uid to connection,    *)
(* the /ws handler that registers a connection, the write loop of each     *)
(* connection, and the push requests of im-job, all goroutines of their    *)
(* own.  A single push is a batch of one: the handlers answer alike.       *)
(***************************************************************************)
EXTENDS Integers, FiniteSets, Sequences

CONSTANTS Uids, Conns, Requests,
          Items,     \* Items[r]: the uids of the items of a push request
          NoConn,
          Cap        \* capacity of Conn.Out

ASSUME HubAssumption ==
    /\ NoConn \notin Conns
    /\ IsFiniteSet(Uids)
    /\ Items \in [Requests -> Seq(Uids) \ {<<>>}]
    /\ Cap \in Nat \ {0}

VARIABLES conns,       \* Hub.conns; NoConn: no entry
          route,       \* the uids whose Redis route names this comet
          gauge,       \* the metric OnlineConns
          owner,       \* the uid of a connection
          hpc,         \* the next step of its /ws handler
          out,         \* Conn.Out
          wpc, len,    \* the next step of its write loop; what a handler and
                       \* a write loop read from Len
          rpc, idx, target,   \* a push request: its next step, item and Conn
          written, queued     \* what a connection's client was sent; what was
                              \* put on Out (for the properties only)

connVars == <<owner, hpc, out, wpc, len, written, queued>>
requestVars == <<rpc, idx, target>>
vars == <<conns, route, gauge, connVars, requestVars>>

(* An item of a request.                                                   *)
Item == Requests \X Nat

(* HTTP statuses of a push.                                                *)
Answers == {"204", "404", "429"}

TypeOK ==
    /\ conns \in [Uids -> Conns \union {NoConn}]
    /\ route \subseteq Uids
    /\ gauge \in Nat
    /\ owner \in [Conns -> Uids]
    /\ hpc \in [Conns -> {"off", "set", "len", "gauge", "route", "hello", "up"}]
    /\ wpc \in [Conns -> {"off", "wait", "write", "del", "len", "gauge", "gone"}]
    /\ len \in [Conns -> [{"ws", "loop"} -> Nat]]
    /\ rpc \in [Requests -> {"off", "get", "put"} \union Answers]
    /\ idx \in [Requests -> Nat]
    /\ target \in [Requests -> Conns \union {NoConn}]
    /\ out \in [Conns -> Seq(Item)] /\ \A c \in Conns : Len(out[c]) <= Cap
    /\ written \in [Conns -> Seq(Item)] /\ queued \in [Conns -> Seq(Item)]

Init ==
    /\ conns = [u \in Uids |-> NoConn]
    /\ route = {}
    /\ gauge = 0
    /\ owner \in [Conns -> Uids]
    /\ hpc = [c \in Conns |-> "off"]
    /\ out = [c \in Conns |-> <<>>]
    /\ wpc = [c \in Conns |-> "off"]
    /\ len = [c \in Conns |-> [g \in {"ws", "loop"} |-> 0]]
    /\ rpc = [r \in Requests |-> "off"]
    /\ idx = [r \in Requests |-> 1]
    /\ target = [r \in Requests |-> NoConn]
    /\ written = [c \in Conns |-> <<>>]
    /\ queued = [c \in Conns |-> <<>>]

Online == {u \in Uids : conns[u] # NoConn}

(* OnlineConns.Set(Len()): the hub is read, then the gauge is set, in      *)
(* goroutine g of connection c.                                            *)
ReadLen(c, g) ==
    /\ len' = [len EXCEPT ![c][g] = Cardinality(Online)]
    /\ UNCHANGED <<conns, route, gauge, owner, out, written, queued, requestVars>>

SetGauge(c, g) ==
    /\ gauge' = len[c][g]
    /\ UNCHANGED <<conns, route, owner, out, len, written, queued, requestVars>>

-----------------------------------------------------------------------------
(* The /ws handler of connection c.                                        *)

Step(c, from, to) == hpc[c] = from /\ hpc' = [hpc EXCEPT ![c] = to]

(* Authenticated and upgraded.                                             *)
Upgrade(c) ==
    /\ Step(c, "off", "set")
    /\ UNCHANGED <<conns, route, gauge, owner, out, wpc, len, written, queued, requestVars>>

HubSet(c) ==
    /\ Step(c, "set", "len")
    /\ conns' = [conns EXCEPT ![owner[c]] = c]
    /\ UNCHANGED <<route, gauge, owner, out, wpc, len, written, queued, requestVars>>

HandlerLen(c) == Step(c, "len", "gauge") /\ ReadLen(c, "ws") /\ UNCHANGED wpc

HandlerGauge(c) == Step(c, "gauge", "route") /\ SetGauge(c, "ws") /\ UNCHANGED wpc

(* Not the code: the handler returns when SetRoute fails.                  *)
FaultNeedsRoute(c) ==
    /\ Step(c, "route", "hello")
    /\ \/ route' = route /\ UNCHANGED wpc
       \/ route' = route \union {owner[c]} /\ wpc' = [wpc EXCEPT ![c] = "wait"]
    /\ UNCHANGED <<conns, gauge, owner, out, len, written, queued, requestVars>>

(* SetRoute, whose error is ignored; go writeLoop.                         *)
Start(c) ==
    /\ Step(c, "route", "hello")
    /\ route' \in {route, route \union {owner[c]}}
    /\ wpc' = [wpc EXCEPT ![c] = "wait"]
    /\ UNCHANGED <<conns, gauge, owner, out, len, written, queued, requestVars>>

(* The greeting, beside the write loop; its error is ignored.              *)
Hello(c) ==
    /\ Step(c, "hello", "up")
    /\ UNCHANGED <<conns, route, gauge, owner, out, wpc, len, written, queued, requestVars>>

(* RouteTTL passes: nothing renews a route.                                *)
RouteExpires(u) ==
    /\ u \in route
    /\ route' = route \ {u}
    /\ UNCHANGED <<conns, gauge, connVars, requestVars>>

-----------------------------------------------------------------------------
(* writeLoop.                                                              *)

Loop(c, from, to) == wpc[c] = from /\ wpc' = [wpc EXCEPT ![c] = to]

(* The packet leaves Out; it is on its way until Written or WriteFails.    *)
Take(c) ==
    /\ Loop(c, "wait", "write")
    /\ out[c] # <<>>
    /\ out' = [out EXCEPT ![c] = Tail(@)]
    /\ UNCHANGED <<conns, route, gauge, owner, hpc, len, written, queued, requestVars>>

(* The item Take took: the one queued just before those still on Out.      *)
InHand(c) == queued[c][Len(queued[c]) - Len(out[c])]

Written(c) ==
    /\ Loop(c, "write", "wait")
    /\ written' = [written EXCEPT ![c] = Append(@, InHand(c))]
    /\ UNCHANGED <<conns, route, gauge, owner, hpc, out, len, queued, requestVars>>

(* Not the code: a packet that cannot be written is left out.              *)
FaultWriteNext(c) ==
    /\ Loop(c, "write", "wait")
    /\ UNCHANGED <<conns, route, gauge, owner, hpc, out, len, written, queued, requestVars>>

(* The client is gone or too slow: the socket is closed.                   *)
WriteFails(c) ==
    /\ Loop(c, "write", "del")
    /\ UNCHANGED <<conns, route, gauge, owner, hpc, out, len, written, queued, requestVars>>

(* Not the code: onClose is not called.                                    *)
FaultNoOnClose(c) ==
    /\ Loop(c, "del", "len")
    /\ UNCHANGED <<conns, route, gauge, owner, hpc, out, len, written, queued, requestVars>>

(* onClose: Del takes the uid, whatever connection it has now.             *)
HubDel(c) ==
    /\ Loop(c, "del", "len")
    /\ conns' = [conns EXCEPT ![owner[c]] = NoConn]
    /\ UNCHANGED <<route, gauge, owner, hpc, out, len, written, queued, requestVars>>

LoopLen(c) == Loop(c, "len", "gauge") /\ ReadLen(c, "loop") /\ UNCHANGED hpc

LoopGauge(c) == Loop(c, "gauge", "gone") /\ SetGauge(c, "loop") /\ UNCHANGED hpc

-----------------------------------------------------------------------------
(* POST /internal/push and /internal/push/batch.                           *)

Arrive(r) ==
    /\ rpc[r] = "off"
    /\ rpc' = [rpc EXCEPT ![r] = "get"]
    /\ UNCHANGED <<conns, route, gauge, connVars, idx, target>>

Uid(r) == Items[r][idx[r]]

AnswerWith(r, status) ==
    /\ rpc' = [rpc EXCEPT ![r] = status]
    /\ target' = [target EXCEPT ![r] = NoConn]

(* On to the next item, or done.                                           *)
NextItem(r) ==
    /\ idx' = [idx EXCEPT ![r] = @ + 1]
    /\ AnswerWith(r, IF idx[r] = Len(Items[r]) THEN "204" ELSE "get")

Found(r) ==
    /\ rpc[r] = "get"
    /\ conns[Uid(r)] # NoConn
    /\ rpc' = [rpc EXCEPT ![r] = "put"]
    /\ target' = [target EXCEPT ![r] = conns[Uid(r)]]
    /\ UNCHANGED <<conns, route, gauge, connVars, idx>>

(* Not the code: an offline item is left out and the batch goes on.        *)
FaultSkipOffline(r) ==
    /\ rpc[r] = "get"
    /\ conns[Uid(r)] = NoConn
    /\ NextItem(r)
    /\ UNCHANGED <<conns, route, gauge, connVars>>

Offline(r) ==
    /\ rpc[r] = "get"
    /\ conns[Uid(r)] = NoConn
    /\ AnswerWith(r, "404")
    /\ UNCHANGED <<conns, route, gauge, connVars, idx>>

PutItem(r, c) ==
    /\ out' = [out EXCEPT ![c] = Append(@, <<r, idx[r]>>)]
    /\ queued' = [queued EXCEPT ![c] = Append(@, <<r, idx[r]>>)]
    /\ NextItem(r)
    /\ UNCHANGED <<conns, route, gauge, owner, hpc, wpc, len, written>>

(* Not the code: an unbounded queue.                                       *)
FaultNoCap(r) == rpc[r] = "put" /\ PutItem(r, target[r])

Put(r) ==
    /\ rpc[r] = "put"
    /\ Len(out[target[r]]) < Cap
    /\ PutItem(r, target[r])

Backpressure(r) ==
    /\ rpc[r] = "put"
    /\ Len(out[target[r]]) = Cap
    /\ AnswerWith(r, "429")
    /\ UNCHANGED <<conns, route, gauge, connVars, idx>>

Handler(c) == HubSet(c) \/ HandlerLen(c) \/ HandlerGauge(c) \/ Start(c) \/ Hello(c)
WriteLoop(c) == Take(c) \/ Written(c) \/ WriteFails(c) \/ HubDel(c) \/ LoopLen(c) \/ LoopGauge(c)
PushStep(r) == Arrive(r) \/ Found(r) \/ Offline(r) \/ Put(r) \/ Backpressure(r)

Next ==
    \/ \E c \in Conns : Upgrade(c) \/ Handler(c) \/ WriteLoop(c)
    \/ \E u \in Uids : RouteExpires(u)
    \/ \E r \in Requests : PushStep(r)

Spec == Init /\ [][Next]_vars

(* The Go scheduler runs every goroutine that can run; SetRoute and the    *)
(* writes have deadlines.                                                  *)
FairSpec == Spec /\ \A c \in Conns : WF_vars(Handler(c)) /\ WF_vars(WriteLoop(c))

-----------------------------------------------------------------------------
Has(s, x) == \E k \in DOMAIN s : s[k] = x

(* A registered connection has a write loop, or will, or its loop has ended*)
(* and is about to call onClose.  In this window ("del", the socket closed)*)
(* a push still finds the connection, queues and is answered 204; once     *)
(* onClose has called Del, none finds it, whichever connections of the user*)
(* have come and gone meanwhile.                                           *)
NoZombie == \A u \in Uids : conns[u] # NoConn => wpc[conns[u]] \notin {"len", "gauge", "gone"}

(* The answer to a batch tells what was queued: on 204 every item, each    *)
(* for a connection of its own uid; on an error those before idx and none  *)
(* after, so that im-job, which then treats all of them as undelivered,    *)
(* duplicates exactly that prefix.                                         *)
BatchPrefix ==
    \A r \in Requests :
        /\ \A i \in 1..Len(Items[r]) :
               i < idx[r] <=> \E c \in Conns : owner[c] = Items[r][i] /\ Has(queued[c], <<r, i>>)
        /\ rpc[r] = "204" => idx[r] > Len(Items[r])

(* What the client of a connection has been sent is what was queued for it,*)
(* in that order and with nothing left out, whichever requests queued and  *)
(* whenever a write failed; what is on Out comes after that.  No item is   *)
(* queued twice, and those of one batch are queued in their order.         *)
WrittenInOrder ==
    \A c \in Conns :
        /\ Len(written[c]) + Len(out[c]) <= Len(queued[c])
        /\ \A i \in 1..Len(written[c]) : written[c][i] = queued[c][i]
        /\ \A i \in 1..Len(out[c]) : out[c][i] = queued[c][Len(queued[c]) - Len(out[c]) + i]
        /\ \A i, j \in 1..Len(queued[c]) :
               i < j /\ queued[c][i][1] = queued[c][j][1] => queued[c][i][2] < queued[c][j][2]
        /\ \A d \in Conns, i \in 1..Len(queued[c]) : d # c => ~Has(queued[d], queued[c][i])

(* The inductive part of WrittenInOrder: while the write loop runs, it has *)
(* written all but what it holds and what is on Out.                       *)
NothingLeftOut ==
    \A c \in Conns :
        /\ wpc[c] \in {"off", "wait"} => Len(queued[c]) = Len(written[c]) + Len(out[c])
        /\ wpc[c] = "write" => Len(queued[c]) = Len(written[c]) + 1 + Len(out[c])

(* A queued packet is written, unless a write of its connection fails.     *)
Drains ==
    \A c \in Conns, r \in Requests : \A i \in 1..Len(Items[r]) :
        []<>(Has(queued[c], <<r, i>>)
                 => Has(written[c], <<r, i>>) \/ wpc[c] \in {"del", "len", "gauge", "gone"})

(* IM-Platform-Architecture: im-push maintains uid -> conn: the connection *)
(* that a user registered last keeps its entry until its own write loop has*)
(* ended; only a later connection of the user takes its place.             *)
UpIsRegistered ==
    [][\A u \in Uids :
           conns[u] # NoConn /\ wpc[conns[u]] # "del" => conns'[u] # NoConn]_vars
=============================================================================
