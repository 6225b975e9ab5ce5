# Formal model of yuim

TLA+ modules that model the core of yuim, TLC runs that check them on small instances, and TLAPS
proofs of what matters most for instances of any size. Everything is translated from the Go
sources under `src/` and from `src/services/im-ai/schema.sql`.

To check a module: `tlc -workers 2 -config X.cfg M` for a run of the table below,
`tlapm XProofs.tla` for the proofs. `PROJECT.json` maps every definition to the lines it stands for.

## 1. The system

| Component | State it keeps | Operations |
|---|---|---|
| **im-ai, POST /send** (`cmd/im-ai/main.go`, `repo/seq_repo.go`, `repo/chat_repo.go`, `outbox/repo.go`) | MySQL: counter of each conversation (`im_conv_seq`), messages, outbox rows; Redis: idempotency key; `LAST_INSERT_ID()` of each pooled connection | idempotency lookup, message id, transaction (sequence, message row, outbox row), idempotency key, publication, mark, reply |
| **im-ai, outbox worker** (`outbox/worker.go`) | status and `next_retry_at` of outbox rows | fetch a batch, publish, mark sent, mark failed |
| **im-ai, GET /sync** | none (the cursor is the client's) | one page of a conversation after a `sync_id` |
| **im-ai, accounts** (`/v1/auth/*`, `auth/session.go`, `auth/middleware.go`) | `im_user` rows, SMS codes and session hashes in Redis | send code, register, login, reset, logout, check a session |
| **im-job, consumer and batcher** (`cmd/im-job/main.go`) | dedupe keys in Redis; buffers in memory, one for each comet | consume, fan out, enqueue, tick, flush with retry and fallback, stop |
| **im-job, breaker** (`breaker/breaker.go`) | failure count, first failure and open-until time of each comet | Allow, Success, Failure |
| **im-push** (`cmd/im-push/main.go`, `hub/hub.go`) | hub (uid to connection), a bounded queue for each connection, route in Redis | connect, write loop and its end, single and batch push |
| **core-push-go, Redis store** (`store/redis/redis.go`) | offline queue (sorted set), dedupe and idempotency keys, routes | EnqueueOffline, PullOffline, Ack, SetRoute, DedupeMsg, Get/SetIdem |
| **core-push-go, delivery engine** (`delivery/engine.go`, `vendor/getui/getui.go`) | a bounded queue of notifications, `stopCh` | DeliverOrOffline, vendor workers, Close |
| **core-push-go, Getui provider** (`provider/getui/getui.go`) | cached token and its expiry | Push, getToken |
| core-push-go, push worker, RocketMQ provider | none | pop a message, push it (not modelled) |

How they interact: a client posts to im-ai, which stores the message and its outbox row in one
transaction and publishes an event to RocketMQ, or leaves that to the outbox workers. im-job consumes
the event, at least once, and puts an item for each recipient in the buffer of the comet that the
recipient's route names, or in the recipient's offline queue. A flush posts a buffer in chunks to
im-push, which puts each packet in the queue of a connection, or answers 404 or 429; im-job then
stores the chunk offline. Clients read `/sync` of im-ai, or pull and acknowledge the offline queue.
The delivery engine is the library's own way from an event to a user: it tries the comet, stores
offline, and leaves a notification to vendor workers, which share one Getui provider and its token.

What is hard: requests on pooled database connections that interleave within a transaction; commits
whose acknowledgement is lost; two or more publishers of one outbox row; commands to Redis that are
not atomic together (ZADD, ZCARD and ZREMRANGEBYRANK; the two reads of a pull; HSET and EXPIRE; EXISTS
and HGETALL); goroutines that flush one buffer at once; a dedupe key that outlives the memory it
guards; a hub entry that a later connection has replaced; answers that come late to a breaker; a token
that several workers refresh at once, outside the lock; a queue that is full, or closed, while workers wait.
`PROJECT.json` lists the hazards at their lines, with the properties that cover them or the reason why
none does.

What makes each part correct:

* **send**: sequence numbers have no gaps and commit in their order; a message is stored once for a
  client id; only stored messages are announced; every stored message is announced in the end;
  replies to one client id agree.
* **sync**: the cursor passes nothing the client was not given; a polling client gets everything, whatever
  limit it sends.
* **accounts**: a session belongs to a stored user, lasts until it ends, and lets through its owner only,
  and nobody after its end.
* **job**: an item a callback took on is in memory, in one place, or with the comet, or offline; it does not
  stay in memory, and a flush ends.
* **breaker**: trips for counted failures within a window only, and for every burst of them that nothing
  cuts; refuses for a bounded time.
* **push**: the hub hands out no connection whose `onClose` has called `Del` (in the window between the end of
  the write loop, which closes the socket, and `Del` a push still finds the connection, queues to it and is answered
  204); a batch is queued as a prefix; a client is sent what was queued for it, in order and without a gap.
* **offline queue**: bounded; a trim keeps the newest; a pull passes over nothing but what arrived or moved
  between its reads.
* **engine**: every call returns, and tells the truth of what is stored; a notification is tried once, or
  dropped at a full queue; workers end after Close.
* **provider**: no push uses a token after its end; one refresh is enough for the calls that follow.

## 2. Modules

| Module | Models | State and actions |
|---|---|---|
| `MessageLog` | the promise of POST /send, with no database or broker | `stored`, `emitted`, `replied`; Store, Emit, Answer |
| `SendPath` | POST /send and the outbox worker | one action for each statement or call of the handler (`NextConvSeq`, `InsertTx`, `EnqueueTx`, `Commit`, `SetIdem`, `Publish`, `MarkSent`, `Reply`) and its failures (`Abort`, `CommitUnknown`, `RejectDuplicate`, `PublishFails`, `Die`), the worker's (`FetchDue`, `WorkerPublish`, ...), and of Redis and the pool (`IdemExpire`, `RecycleConn`). `Log == INSTANCE MessageLog` is the refinement mapping |
| `SyncReader` | GET /sync, beside SendPath (EXTENDS it) | `cursor`, `got`; SyncPage. `EffectiveLimit` is what becomes of a limit, `Polls` a client that keeps one |
| `Sessions` | the promise of the accounts to whoever relies on a token, with no SMS code, Redis command or failed write | `known`, `granted`, `over`, `admitted`; Join, Grant, End, Admit |
| `Accounts` | accounts, sessions, session checks of im-ai and im-push | `im_user`, `code`, `session`, `ttl`; one action for each SQL statement or Redis command of a handler. `Door == INSTANCE Sessions` is the refinement mapping: a user is known when the row is stored, a token granted when the client is told |
| `ItemLedger` | the promise of the batcher, with no broker, buffer, ticker or chunk | `held`, `reached`, `gone`; TakeOn, Reach, Lose |
| `Delivery` | im-job's callback, batcher, stop, crash, restart | `buf`, `dedupe`, the callback and the flush of each goroutine; `answered`, `offline`, `lost` record outcomes. `Ledger == INSTANCE ItemLedger` is the refinement mapping: held is what is in a buffer, with a flusher, or yet to come from a callback |
| `Breaker` | the circuit breaker under concurrent flushes | `failCount`, `firstFail`, `openUntil`, a clock |
| `Hub` | im-push's hub, `/ws` handlers, write loops, pushes | `conns`, `out`, the step of each goroutine |
| `OfflineQueue` | EnqueueOffline, PullOffline and Ack, command by command | `score` (the sorted set), the next command of each enqueuer and device |
| `TokenCache` | Push and getToken of the Getui provider, by any number of goroutines | `token`, `expireAt`, a clock; what the service has issued (`expires`); each call's step and deadline; CacheHit, CacheMiss, Issue, ReadAnswer, StoreToken, PushSucceeds, PushFails |
| `Engine` | DeliverOrOffline, the vendor workers and Close; EXTENDS `TokenCache`, whose callers are the workers | `vq`, `stopped`, each call's step, each worker's task; `told`, `dropped` record what became of a notification |
| `MC*` | instances for TLC: functions and sequences that a `.cfg` cannot write, symmetry | |
| `*Proofs` | theorems and proofs, checked by TLAPS | |

Definitions named `Fault...` are not the code: each is a plausible bug, and replacing the definition
it stands before by it makes TLC report the property that `PROJECT.json` pairs it with.

How the outside is modelled:

* **MySQL**, as the code uses it: a transaction's writes appear at once, at `Commit`; the upsert of
  `im_conv_seq` takes the row lock, held until the transaction ends; a unique key is checked against
  committed rows and waits for pending ones; `AUTO_INCREMENT` is not rolled back; `LAST_INSERT_ID()`
  belongs to the connection and outlives the transaction. `schema.sql` defines `chat_msg`, the code
  inserts into `im_msg`: the unique keys of `chat_msg` are taken to be those of the table the code
  uses. `im_user` is not in the repository: no uniqueness of its phone is assumed.
* **Redis** runs each command atomically; a command may report an error whether or not it ran.
* **RocketMQ** holds a set of events: it delivers at least once, in any order. In `Delivery` it delivers
  copies, again after a crash, also those that were acknowledged shortly before. Its consumer's
  Shutdown is taken to wait for running callbacks.
* **Getui** issues a new token for each request and honours it for `Life`, by a clock that is ahead of ours by
  `Skew`; its answer states the expiry or none. `TokenAssumption` is what the code's constants (two minutes
  of margin, 23 hours, three seconds of time-out) and the service must satisfy: clocks differ by less than the
  margin less a time-out, and 23 hours are no longer than a token lives, but for the margin.
* **Comets** as im-job sees them: any chunk may be answered, fail or time out; routes and the answer of
  the breaker are choices in `Delivery`, so that it holds whatever `Breaker` and `Hub` do.

Left out of the modelled components: payload texts, logging, metrics except the hub's gauge,
configuration; retry counts and backoff times of the outbox (a flag `due` and `BackoffEnds` stand for
them); a payload that does not decode (the code stores only what it marshalled); the clock of
`Failure`, read just before the lock is taken, is read with it; what a websocket does when the greeting
of the handler and the write loop write to it at once; the audit rows of SMS messages.

## 3. Runs

| Run | Question | Instance |
|---|---|---|
| `SendSync` | Is every step of the send path one of the message log? Do replies to one client id agree? Are the numbers of a conversation without gaps, committed in order, and does a reader skip any? Is a conversation misnumbered by its first message or never? (`TypeOK`, `AckAgreement`, `ImplementsLog`, `NoGaps`, `SyncFollowsCommit`, `StaysWellNumbered`, `NothingSkipped`) | two requests, two connections, two conversations, two message ids, one client id, a reader of each conversation |
| `Polling` | Is every stored message that the broker takes announced in the end, though others fail for ever, and nothing announced that is not stored? Does a client that polls with one limit get everything? (`EventIsStored`, `NothingForgotten`, `NothingStarves`, `CatchesUp`) | one request, two workers, batches of one, two messages, limits -1, 0, 3 and 4, pages of one and two |
| `Accounts` | Are sessions owned, do they last until they end, and whom do they let through? Is every step one of `Sessions`? (`SessionsOwned`, `AnsweredLasts`, `ImplementsSessions`) | two requests, two phones, two users, two tokens |
| `Breaker` | Does it trip for counted failures only, for every burst of them, and refuse for a bounded time? (`TrippedByFailures`, `BurstTrips`, `RefusalBounded`) | two flushes, threshold 3, window 3, open for 2, clock up to 9 |
| `OfflineQueue` | By how much does the queue outgrow its bound, what may a trim by a stale count take, and what may a pull pass over? (`TypeOK`, `KeepsBounded`, `TrimKeepsNewest`, `NothingPassedOver`) | two enqueuers, two devices, three packets, queue of one, page of two, one failure |
| `Hub` | Does a push find a connection after its `Del`, what is queued of a batch, is it written, and in which order? (`TypeOK`, `NoZombie`, `BatchPrefix`, `WrittenInOrder`, `Drains`) | two connections of one or two users, a batch of three beside a single push, queue of one |
| `Delivery` | Is an item ever dropped, held twice or stuck, does a flush end, is every step one of `ItemLedger`? (`TypeOK`, `NothingDropped`, `HeldOnce`, `FlushEnds`, `ImplementsLedger`, `Settles`) | two messages with three items, batches of two, one Redis error, stop or crash |
| `Engine` | Does every call return and tell the truth, is a notification tried once, do workers end, is a token used in time? (`TypeOK`, `HonestResult`, `NotifiedOnce`, `CallsReturn`, `QueuedIsTried`, `WorkersEnd`, `TokenInTime`, `RefreshCures`) | two calls, two workers, queue of one, two tokens, clock up to 4 |

Four runs check what a document or comment says and TLC refutes (`findings` in `PROJECT.json`):

* `SendIncreasing`: schema.sql:11 says that `sync_id` increases within a conversation. For a new
  conversation `NextConvSeq` returns what `LAST_INSERT_ID()` a pooled connection still has, leaves the
  counter at 0, and the second message gets 1. A client that read the first message never gets those
  numbered below it. `NoGaps` speaks of numbers up to the counter; `NothingSkipped`, `SyncFollowsCommit`
  and `CatchesUp` are about conversations that are `WellNumbered`, those this did not happen to.
* `SendRetryAnswered`: schema.sql:21 calls `client_msg_id` the client's idempotency id. A retry of a
  stored message whose Redis key is missing fails on the unique key and gets a 500.
* `HubLatest`: IM-Platform-Architecture.md:91 says im-push keeps the local uid to conn. `UpIsRegistered` demands that
  an entry whose connection is up stays, or is taken over by a later connection of the user. The end of an old
  connection deletes the entry of a newer one that is up. `Del` only of the connection's own entry would
  satisfy it.
* `DeliveryCrash`: main.go:127 of im-job says at-least-once. The dedupe key is set, and the message
  acknowledged, while its items are in memory: a crash loses them.

### Bounds, and why they are enough

Each bound is a constant: `MaxMsg` (message ids, so requests), `MaxUid`, `MaxTok`, `MaxTime`,
`MaxFails`, `MaxFaults` (failed commands in `OfflineQueue`), `MaxMishaps` (Redis errors and ends of the
process in `Delivery`), `MaxTokens` (tokens Getui issues). Two messages give a conversation a first and a
second number, or one of each of two conversations, on a connection that carries a number over from the
other; either may abort before, between or after the steps of the other. With one client id they are a
retry, concurrent or later, in the same or in the other conversation. The worker is left out of
`SendSync` and is the subject of `Polling`, whose limits are negative, zero, above the cap of the repository (2
there) and above that and the handler's (3); its default is one, so that the first two give pages of one row. Longer conversations, and all of it together, are what the
theorems of section 4 add. Two workers with batches of one put a failing row before another. Three items
with batches of two give a flush of one item, of a full chunk, and of a chunk and a rest. A queue of one
with pages of two makes every enqueue trim and every page tearable. A clock of nine units sees a
window and an open period pass after a full count. Two calls against a queue of one make one notification
be dropped; two tokens let both workers refresh at once; a clock of four sees a token pass the point from
which it is no longer fresh, and the constants of `Engine` are at the edge of what `TokenAssumption` allows. Requests of `Hub` are single pushes or batches: a
single push is a batch of one. A batch that names a user twice, beside a single push to that user, queues more
than a queue holds from two sides, to a connection that may be replaced between the two.

`CHECK_DEADLOCK FALSE` is set where all requests may be served and nothing is left to do, or the clock ends; in `Accounts`
and `OfflineQueue` the system never stops, and deadlock is checked.

### Fairness

* `SendPath!Fairness`: the worker's ticker goes off and it goes on with its batch (weak fairness of
  `FetchDue` and of the worker's next step); a postponed row comes due (`BackoffEnds`); workers do not die at a
  row for ever, so that one that has its turn again and again is tried (`Try`, with whatever result), and the
  database is not down for good, so that one that is tried again and again is marked (`Mark`); polls do not for ever
  miss the times at which a row is among the first (`Turn`). The last is where the clock is abstracted:
  `calcBackoff` postpones a failed row by 2 to 60 s, and the ticker goes off every second by default, so that a
  poll finds the rows before it postponed. That holds as long as those that fail are fewer than what is
  tried within a backoff; see section 5. Without a postponement no poll would ever reach the row, and
  `NothingStarves` fails (`FaultNoBackoff`). Nothing is assumed of handlers: they may stop anywhere.
* The broker's answers are not part of `Fairness`. `NothingStarves` is about each row for itself: it is published if
  the broker takes it, offered again and again (`BrokerTakes`), whatever the broker does with the others.
* `FairReaderSpec` adds no fairness to that. `CatchesUp` is about a client that polls with one and the same
  limit (`Polls`, for each of `Limits`): no other limit can do its progress.
* `Hub!FairSpec`: handlers and write loops that can run, run; writes have deadlines. Clients and pushes
  owe nothing.
* `Delivery!FairSpec`: callbacks and flushes go on (each post and Redis call has a time-out), and the
  ticker ticks. Nothing is assumed of the comet's answers, of stops or of crashes.
* `Engine!FairSpec`: calls go on, since Redis and comet have time-outs; a worker in a call of the vendor goes
  on, since its context has a deadline, whether the service answers or not; an idle worker takes a task or
  ends when it can. Nothing is assumed of Getui's answers, of Close, or of which case `select` takes.
  `WorkersEnd` is about finitely many calls: while the queue is never empty, `select` may go on taking tasks
  after Close.

## 4. Theorems

All are for any number of handlers, connections, conversations and so on. The message, clock and
token bounds are constants too, so that the theorems hold for every value of them.

| Module | Theorems | Argument |
|---|---|---|
| `SendPathProofs` | `TypeCorrect`, `SequenceHasNoGaps`, `SequenceInCommitOrder`, `StaleIdHarmsFirstOnly`, `OnlyStoredAnnounced`, `NothingIsForgotten`, `AcksAgree`, `SendPathImplementsLog` | see below |
| `SyncReaderProofs` | `ReaderSkipsNothing`, `ReadersLeaveTheLog` | a step of the writers keeps it because a message commits above every number of its conversation (`SequenceInCommitOrder`); a page keeps it because it is the lowest part of what is newer. A reader writes nothing that the send path sees, so that the composition implements the send path and its message log |
| `BreakerProofs` | `BreakerTripsAsCounted`, `BreakerTripsOnBurst`, `BreakerRefusalBounded` | `Counts`: the entry of a comet counts its last `failCount` failures, the first of them at `firstFail`, and is open for `OpenFor` after the last; while the failures since the last success are of one window, it counts them all |
| `OfflineQueueProofs` | `QueueTypeCorrect`, `QueueKeepsBounded`, `TrimsKeepTheNewest`, `PullsPassNothing` | an enqueue that adds owes a trim; one that trims removes what it counted above the bound, those of the lowest ranks. Scores differ (`ScoreOK`), and an untorn page is still the beginning of what lies after the cursor (`PageOK`), so that the offset of the second read is the last of the page |
| `HubProofs` | `HubTypeCorrect`, `HubHasNoZombie`, `AnswersTellThePrefix`, `HubWritesInOrder` | `Registered`: a hub entry is a connection of that uid that was set and whose write loop has not passed `HubDel`; it may have ended. `BatchInv`: a request stands at one of its items and has a connection of that item's user; what was queued lies before. `NothingLeftOut`: while a write loop runs, it has written all but what it holds and what is on `Out`; a request's items are queued in their order because what is queued of it lies before `idx` (`BatchInv`) |
| `DeliveryProofs` | `DeliveryTypeCorrect`, `DeliveryDropsNothing`, `DeliveryHoldsOnce`, `DeliveryFlushEnds`, `DeliveryImplementsLedger` | `DeliveryInv`: the items of a message that was taken on, or whose dedupe key is set, are in a buffer, with a flusher, yet to come from a callback, or have an outcome; a flusher holds what it is yet to send or store (`FlushOK`). An item in memory is one its callback has gone past (`Placed`), so that a callback puts no item there twice (`HeldOnce`), and an item that is let go of is held no more: each step is one of `ItemLedger`. `FlushEnds` is about single steps: each lowers a measure of what is left to send and of the attempts on it |
| `AccountsProofs` | `AccountsTypeCorrect`, `SessionsAreOwned`, `SessionsLast`, `OwnersAdmitted`, `AccountsImplementSessions` | `AccountsInv`: tokens are given out once (`Given`, `Tokens`), a call that is about to store a session has a stored user and is alone with its token (`Putting`, `Alone`), which nobody knows before the reply (`Secret`). From these, a reply is a Grant of a token never granted before, and an admission an Admit: the second read found a session, so that the token has not ended |
| `EngineProofs` | `EngineTypeCorrect`, `ResultsAreHonest`, `EachNotificationOnce`, `EngineUsesTokenCache`, `PushesInTime`, `EveryRefreshCures` | the engine's steps are steps of `TokenCache`, whose theorems it inherits. `TokenInv`: an expiry kept with a token is late by less than the margin leaves (`Trusted`), and a call that got a token got it for all its time (`Lasts`). `EngineInv`: the places of a notification exclude each other, a worker has one only while it is in a call |

The invariants of `SendPath` are not inductive as they stand. The inductive invariant has a part for
each argument: `Numbering` (the row lock: one open transaction for each conversation, holding the
successor of the committed counter), `Committed` (what handlers and workers hold is committed),
`RowIds` (outbox ids are not reused, so that a mark reaches its row), `Marks` (a mark, made or about to
be made, is backed by a publication), `MsgIds` and `ClientIds` (the unique keys, over stored and pending
messages). `NothingIsForgotten`, for instance, needs `Marks` for the worker that stands between
publication and mark, and `RowIds` so that its mark does not hit another row. The refinement
`SendPathImplementsLog` shows that a commit is a Store because of `MsgIds` and `ClientIds`, a publication
an Emit because of `Committed`, a reply an Answer because of `ClientIds` and `Committed`.
`StaleIdHarmsFirstOnly` needs `Numbering`: a conversation with a message has its counter row, and then the
upsert sets `LAST_INSERT_ID()` itself, so that the open transaction holds the counter's successor.

The theorems rest on the named assumptions of the modules (`SendAssumption`, `LimitAssumption`,
`BreakerAssumption`, `QueueAssumption`, `HubAssumption`, `DeliveryAssumption`, `TokenAssumption`,
`EngineAssumption`) and on the library's theorems on finite sets. `HubAssumption` has it that the users of a
comet are finitely many, so that `Hub.Len` is a number.

Only model-checked: liveness (`NothingStarves`, `CatchesUp`, `Drains`, `Settles`, `CallsReturn`,
`QueuedIsTried`, `WorkersEnd`), which is out of the prover's reach. Every invariant and every other action
property that a run checks is a theorem. The converse does not hold: the type invariant of `Accounts` and
`AdmittedAsOwner`, which `ImplementsSessions` contains, are proved and in no run; `Breaker` and `TokenCache` have
their types in the invariants of their proofs.

## 5. Other things the code does

Met while modelling, and not the subject of a run:

* The breaker does not compare the first failure of a key, nor the first of a new window, with its
  threshold (breaker.go:77, 84): with a threshold of one the first failure does not open it. A failure
  that comes later than Window after the first one clears `openUntil`, so that a late answer of a flush
  let through before may close an open breaker early. Windows follow one another: a threshold's worth of failures
  within one Window that lie partly in one counting window and partly in the next does not trip (breaker.go:84),
  which is why `BurstTrips` is about the failures since the last success.
* `PullOffline` reads its page and the score of its last member in two commands. A packet that arrives
  or is removed in between shifts the second read: `NothingPassedOver` says that only then a packet is
  passed over, and such a packet is.
* Enqueues that trim at once, each by a count that is no longer true, may together remove more than is above
  the bound, in the extreme all: `TrimKeepsNewest` bounds what each leaves by what the set shrank since its ZCARD.
* `Ack` removes all packets up to a seq, also one of a lower seq that was stored after the page was read: the
  device never sees it. `NothingPassedOver` counts a packet that is stored no more as known.
* im-job ignores the error of `EnqueueOffline` (main.go:307): an item whose chunk failed and whose write to Redis
  fails too is gone. `NothingDropped` and `ItemLedger` name this way to lose one.
* A batch that timed out is sent again, and then stored offline as a whole, though the comet may have queued it, or
  a prefix of it: the client sees packets twice. Delivery is at least once; `BatchPrefix` is about one attempt.
* Rows of the outbox that fail for good keep the first places of `ORDER BY id`: once there are two hundred of them
  (the default batch of FetchDue), or so many that trying them (up to 3 s each) takes longer than their backoffs, they
  are due again before a later row has its turn, which may wait for ever. `NothingStarves` is about fewer.
* A logout ignores the error of its DEL (main.go:354-355 of im-ai): it is answered ok and the session lives on. In
  `Accounts` this is a step that changes nothing; its `over` tells only of sessions that were in fact ended.
* `EnqueueOffline` scores a packet whose seq is not positive by the clock, behind all numbered ones.
  No caller in the repository passes such a seq: `NextConvSeq` never returns 0.
* `Hub.Len` is read and the gauge set in two steps by several goroutines, so that the gauge may keep an
  older value.
* `stop` of the batcher flushes what is buffered and does not wait for a flush that the ticker has
  started; `main` returns while it holds items.
* Packets of a conversation may arrive out of order: a later message is published while an earlier one waits
  in the outbox, with no sharding key, and two flushes to one comet run at once. `sync_id` and the offline
  queue restore the order.
* A group message lists no recipients, and `expandGroupRecipients` is called by nothing: im-job drops it.
* Notifications that are queued when the engine is closed stay there: the workers end, and a call after Close
  still queues. `Close` looks at `stopCh` and closes it in two steps: two calls at once would panic.
* The engine counts a time-out of the comet as a failure and stores the packet offline, though the comet may
  have it: the client may see it twice.
* A token that Getui ends before its expiry is used until shortly before that expiry: a push that is refused
  does not clear the cache (getui.go:127). A push context of three seconds ends before the client's ten.
* The push worker gives `Push` the context of the process: only the client's ten seconds bound its requests.
  A message it has popped is gone when the push fails, or when the worker dies.
* By default im-ai stores sessions under `app:token:` (config.go:146, config.yml:40) and im-push looks them up
  under `token:app:` (config.go:86, and its config.yml names none): with these im-push admits nobody.
  `Accounts` has one store for both, which is so when both are configured alike.
* An SMS code is not used up, and a registration whose session could not be stored leaves its user: the
  next attempt inserts another user with the same phone, unless the table forbids it.

## 6. Not modelled

* The push worker's loop and the RocketMQ provider of core-push-go: one goroutine that pops, pushes and logs,
  with no state beside the message in hand; its use of the Getui provider is `TokenCache`.
* Group expansion, the functions of the comet sender and `message_repo.go`, which nothing calls.
* `calcBackoff`, `normalizeRoute` and conversation ids: pure functions of one call. The models need of them
  that a postponed row comes due, and that two users have one conversation id.
* Encryption, random strings, configuration, database set-up and metrics: library calls and I/O.

## 7. State of the project

All components with state and concurrency of their own are modelled, and every safety property that a
run checks has a proof. What could be added:

1. An abstract specification of the offline queue that `OfflineQueue` implements: what a device is owed.
2. The composition of `Delivery` with `Hub` and `Breaker`, whose answers are choices in `Delivery` now: this is
   larger than TLC can check with the sizes that matter, and would be a matter of proof.
3. The group path, if the code comes to call it.
