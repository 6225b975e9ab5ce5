-------------------------------- MODULE Engine --------------------------------
(***************************************************************************)
(* The delivery engine of core-push-go with Getui as its vendor: calls of  *)
(* DeliverOrOffline send a packet to the user's comet or store it offline, *)
(* and leave the notification of the user to a bounded queue that vendor   *)
(* workers empty until Close.  The workers share the provider's token.     *)
(***************************************************************************)
EXTENDS TokenCache

CONSTANTS Calls,       \* calls of DeliverOrOffline
          Notifies,    \* those with a title or a body
          NoCall,
          QueueSize    \* Options.QueueSize

ASSUME EngineAssumption ==
    /\ Notifies \subseteq Calls /\ NoCall \notin Calls
    /\ QueueSize \in Nat \ {0}

VARIABLES dpc,          \* each call: its step, in the end its result
          routeErr,     \* calls whose GetRoute returned an error
          stored,       \* packets EnqueueOffline has stored
          vq, stopped,  \* the engine's queue; stopCh is closed
          task,         \* the notification a worker has in hand
          told, dropped \* notifications tried; dropped as the queue was full

callVars == <<dpc, routeErr, stored>>
workVars == <<task, told>>
vars == <<tokenVars, callVars, vq, stopped, workVars, dropped>>

Results == {"online", "offline", "error"}

TypeOK ==
    /\ TokenTypeOK
    /\ dpc \in [Calls -> {"route", "send", "store", "notify", "failed"} \union Results]
    /\ routeErr \subseteq Calls /\ stored \subseteq Calls
    /\ vq \in Seq(Notifies) /\ Len(vq) <= QueueSize
    /\ stopped \in BOOLEAN
    /\ task \in [Callers -> Notifies \union {NoCall}]
    /\ \A w \in Callers : task[w] # NoCall <=> tpc[w] \in InCall
    /\ told \subseteq Notifies /\ dropped \subseteq Notifies

Init ==
    /\ TokenInit
    /\ dpc = [d \in Calls |-> "route"]
    /\ routeErr = {} /\ stored = {}
    /\ vq = <<>> /\ stopped = FALSE
    /\ task = [w \in Callers |-> NoCall]
    /\ told = {} /\ dropped = {}

-----------------------------------------------------------------------------
(* DeliverOrOffline.                                                       *)

DGoTo(d, step) == dpc' = [dpc EXCEPT ![d] = step]

(* The user has a route; or none; or Redis reports an error.               *)
GetRoute(d) ==
    /\ dpc[d] = "route"
    /\ \/ DGoTo(d, "send") /\ UNCHANGED routeErr
       \/ DGoTo(d, "store") /\ routeErr' \in {routeErr, routeErr \union {d}}
    /\ UNCHANGED <<tokenVars, stored, vq, stopped, workVars, dropped>>

SendToComet(d) ==
    /\ dpc[d] = "send"
    /\ DGoTo(d, "online")
    /\ UNCHANGED <<tokenVars, routeErr, stored, vq, stopped, workVars, dropped>>

(* An error, a time-out after which the comet may have the packet: offline.*)
SendFails(d) ==
    /\ dpc[d] = "send"
    /\ DGoTo(d, "store")
    /\ UNCHANGED <<tokenVars, routeErr, stored, vq, stopped, workVars, dropped>>

EnqueueOffline(d) ==
    /\ dpc[d] = "store"
    /\ stored' = stored \union {d}
    /\ DGoTo(d, "notify")
    /\ UNCHANGED <<tokenVars, routeErr, vq, stopped, workVars, dropped>>

(* Redis reports an error or not in time, and may have stored the packet.  *)
EnqueueFails(d) ==
    /\ dpc[d] = "store"
    /\ stored' \in {stored, stored \union {d}}
    /\ DGoTo(d, "failed")
    /\ UNCHANGED <<tokenVars, routeErr, vq, stopped, workVars, dropped>>

(* Not the code: only the error of GetRoute is returned.                   *)
FaultNoStoreError(d) == IF d \in routeErr THEN "error" ELSE "offline"

Result(d) == IF d \in routeErr \/ dpc[d] = "failed" THEN "error" ELSE "offline"

(* Not the code: the call waits for room in the queue.                     *)
FaultBlocking(d) ==
    /\ dpc[d] \in {"notify", "failed"}
    /\ d \in Notifies => Len(vq) < QueueSize
    /\ vq' = IF d \in Notifies THEN Append(vq, d) ELSE vq
    /\ DGoTo(d, Result(d))
    /\ routeErr' = routeErr \ {d}
    /\ UNCHANGED <<tokenVars, stored, stopped, workVars, dropped>>

(* Not the code: a queue without a bound.                                  *)
FaultUnbounded(d) ==
    /\ dpc[d] \in {"notify", "failed"}
    /\ vq' = IF d \in Notifies THEN Append(vq, d) ELSE vq
    /\ DGoTo(d, Result(d))
    /\ UNCHANGED <<tokenVars, routeErr, stored, stopped, workVars, dropped>>

(* The notification is queued if there is room, and the call returns.      *)
Notify(d) ==
    /\ dpc[d] \in {"notify", "failed"}
    /\ IF d \in Notifies /\ Len(vq) < QueueSize
       THEN vq' = Append(vq, d) /\ UNCHANGED dropped
       ELSE dropped' = dropped \union ({d} \intersect Notifies) /\ UNCHANGED vq
    /\ DGoTo(d, Result(d))
    /\ routeErr' = routeErr \ {d}
    /\ UNCHANGED <<tokenVars, stored, stopped, workVars>>

DeliverOrOffline(d) ==
    \/ GetRoute(d) \/ SendToComet(d) \/ SendFails(d)
    \/ EnqueueOffline(d) \/ EnqueueFails(d) \/ Notify(d)

-----------------------------------------------------------------------------
(* vendorWorker and Close.                                                 *)

TakeTask(w) ==
    /\ vq # <<>>
    /\ task' = [task EXCEPT ![w] = Head(vq)]
    /\ vq' = Tail(vq)
    /\ Push(w)
    /\ UNCHANGED <<callVars, stopped, told, dropped>>

(* Not the code: the worker looks at stopCh again before it goes on.       *)
FaultStopWithTask(w) ==
    /\ stopped /\ tpc[w] \in {"idle", "token"}
    /\ Step(w, "gone")
    /\ task' = [task EXCEPT ![w] = NoCall]
    /\ UNCHANGED <<now, token, expireAt, expires, start, mine>>
    /\ UNCHANGED <<callVars, vq, stopped, told, dropped>>

WorkerStops(w) ==
    /\ stopped /\ Leave(w)
    /\ UNCHANGED <<callVars, vq, stopped, workVars, dropped>>

WorkerStep(w) == GetToken(w) /\ UNCHANGED <<callVars, vq, stopped, workVars, dropped>>
Auth(w) == Issue(w) /\ UNCHANGED <<callVars, vq, stopped, workVars, dropped>>

TaskDone(w) ==
    /\ told' = told \union {task[w]}
    /\ task' = [task EXCEPT ![w] = NoCall]
    /\ UNCHANGED <<callVars, vq, stopped, dropped>>

(* Not the code: the worker tries a task until it succeeds.                *)
FaultRetryForever(w) ==
    /\ tpc[w] \in {"refresh", "answered", "push"}
    /\ Step(w, "token")
    /\ mine' = [mine EXCEPT ![w] = Nothing]
    /\ start' = [start EXCEPT ![w] = now]
    /\ UNCHANGED <<now, token, expireAt, expires>>
    /\ UNCHANGED <<callVars, vq, stopped, workVars, dropped>>

(* The error of PushNotify is ignored.                                     *)
NotifyFails(w) == PushFails(w) /\ TaskDone(w)

PushNotify(w) == PushSucceeds(w) /\ TaskDone(w)

Close ==
    /\ stopped' = TRUE
    /\ UNCHANGED <<tokenVars, callVars, vq, workVars, dropped>>

TimePasses == Tick /\ UNCHANGED <<callVars, vq, stopped, workVars, dropped>>

Next ==
    \/ \E d \in Calls : DeliverOrOffline(d)
    \/ \E w \in Callers : TakeTask(w) \/ WorkerStops(w) \/ WorkerStep(w)
                          \/ Auth(w) \/ NotifyFails(w) \/ PushNotify(w)
    \/ Close \/ TimePasses

Spec == Init /\ [][Next]_vars

(* The calls go on: Redis and comet have a time-out.  So have the requests *)
(* of a worker, whether the service answers or not (NotifyFails).  A worker*)
(* that is idle takes a task or ends: which of the two is up to select.    *)
FairSpec ==
    /\ Spec
    /\ \A d \in Calls : WF_vars(DeliverOrOffline(d))
    /\ \A w \in Callers :
           /\ WF_vars(TakeTask(w) \/ WorkerStops(w))
           /\ WF_vars(WorkerStep(w)) /\ WF_vars(NotifyFails(w))

-----------------------------------------------------------------------------
(* A call that reports a packet as not delivered, and no error, has stored *)
(* it offline, whatever of route, comet, store and queue has failed.       *)
HonestResult ==
    \A d \in Calls : dpc[d] = "offline" => d \in stored

Returned(d) == dpc[d] \in Results

(* A notification is in one place: in the queue, with one worker, tried,   *)
(* or dropped; and it was dropped only as its call found the queue full.   *)
(* A packet that the comet took needs none.                                *)
Places(d) == {<<"queue", i>> : i \in {j \in 1..Len(vq) : vq[j] = d}}
             \union {<<"worker", w>> : w \in {v \in Callers : task[v] = d}}
             \union (IF d \in told THEN {<<"told", d>>} ELSE {})
             \union (IF d \in dropped THEN {<<"dropped", d>>} ELSE {})

NotifiedOnce ==
    \A d \in Notifies :
        IF dpc[d] \in {"offline", "error"} THEN \E p \in Places(d) : Places(d) = {p}
        ELSE Places(d) = {}

(* Every call returns, though the workers may all wait for the vendor, or  *)
(* be gone.                                                                *)
CallsReturn == \A d \in Calls : <>Returned(d)

(* What is queued is tried, though pushes fail and workers come and go,    *)
(* unless the engine is closed.                                            *)
QueuedIsTried == \A d \in Notifies : (\E i \in 1..Len(vq) : vq[i] = d) ~> (d \in told \/ stopped)

(* After Close every worker ends, though the vendor does not answer.       *)
WorkersEnd == stopped ~> \A w \in Callers : tpc[w] = "gone"
=============================================================================
