# A TLA+ model of the exchange back end

The repository is a crypto exchange written in Go as a set of services around a
Kafka bus and a PostgreSQL database. This directory holds TLA+ models of the
parts whose correctness depends on order, concurrency and failure, the TLC
configurations that check them on small instances, and machine-checked proofs of
the properties that hold for every instance.

## 1. The system

```
 client -> gateway -> order-service --exchange.orders--> matching-engine (one leader)
                        ^   |  TX1: funds, order, outbox          |        |
                        |   v                                     |        v
                        |  PostgreSQL                             |   Redis snapshot
                        |   ^  TX2: trades, orders, accounts      |        ^
                        +---+------- exchange.settlements <-------+        |
                            |                                     |        |
                            +--exchange.order_updates--+   exchange.trades/orderbook
                                                       v          v        |
                                                   market-data-service ----+
                                                         | WebSocket hub
```

| component | source (under `src/`) | state | operations | what makes it correct |
|---|---|---|---|---|
| matching engine | `internal/matching/engine` | per symbol: sorted bid and ask slices, a mutex | `Process`, `Cancel`, `RestoreOrder`, `Reset`, snapshots | price-time priority, never crossed, quantities conserved, each order at most once |
| matching consumer | `internal/matching/*.go` | the fencing token it signs with | handlers of placed and cancelled orders, publishing loops, restore of the book | whatever leaves the book is reported, signed with the term it was matched in |
| leader election | `internal/infrastructure/election`, `cmd/matching-engine/main.go` | the row of `partition_leader_locks`; per process: role, token, consumer, `consumerMu` | acquire, extend, release, the two callbacks, shutdown | at most one holder per token, old terms cannot write, step-down and shutdown end |
| order-service | `internal/order/service.go` | `accounts`, `orders`, `outbox_messages` | `PlaceOrder`, `BatchPlaceOrders`, `CancelOrder` | an order exists exactly when its funds are locked |
| settlement | `internal/order/event_subscribers.go` | `trades`, `orders`, `accounts` | settle trades, settle a cancellation | money conserved; every event takes effect once; locks end with their orders |
| outbox | `internal/infrastructure/outbox` and the hot path of `service.go` | `outbox_messages`, a channel of published ids | publish at once, publish by polling, delete in batches | nothing lost; order of the events of one key |
| Kafka client | `internal/infrastructure/kafka` | offsets, retry loops | publish, consume with retry, `Wait` | at least once, in order per partition |
| order book cache | `internal/repository/cache_repository.go` | one snapshot per symbol in Redis | last-writer-wins script | an old leader does not overwrite a new one |
| market-data-service, WebSocket hub | `cmd/market-data-service`, `internal/api/websocket_handler.go` | clients, bounded send channels | register, broadcast, drop slow clients | every channel closed once, nobody blocks the hub |
| gateway | `internal/middleware`, `cmd/gateway` | token buckets, idempotency records | admit, replay | one key, one effect |
| simulation-service | `internal/simulation` | running flag, goroutines | start, stop | stop ends every goroutine |
| handlers, reporting queries, metrics, connections | `internal/api`, `internal/repository`, ... | none of their own | | |

How the parts interact. One transaction (TX1) locks funds, inserts the order and
an outbox message; the message goes to `exchange.orders`. The elected
matching-engine takes one record at a time, matches, and publishes a settlement
request. The order-service applies it in a second transaction (TX2), which also
checks the fencing token the request carries. A cancellation is only a request:
the engine decides whether the order still rests, and a cancelled order comes
back on `exchange.settlements` like a trade. The engine also writes its book to
Redis, from which `PlaceOrder` estimates the cost of market buys.

What is hard here: a cancellation that races a fill; settlement records that are
delivered again, among them records without trades; a market buy whose lock was
computed from a stale snapshot; a record whose handler can never succeed; leases
that expire while their holder believes in them; answers of the database that
are lost; callbacks that wait for a consumer which waits for Kafka, with a mutex
held; a book that is dropped and rebuilt in the order of a time stamp that ties, or not rebuilt
because the query failed; amounts locked in full and unlocked in rounded pieces; events published twice or out of
order by two paths of the outbox, and matched twice by the engine; caches and stores
that are read before and written after something else has happened; a client whose
channel three goroutines may want to close. `PROJECT.json` lists each of these at its line.

## 2. Modules

| module | what it is |
|---|---|
| `Orders` | orders, trades and price comparisons of `engine/types.go` |
| `PriceTimeMatching` | abstract specification: resting orders are a set, an incoming order trades with whoever has price-time priority |
| `MatchingEngine` | the slices, the loops of `Process`, `Cancel`, `Reset` and `RestoreOrder`; implements `PriceTimeMatching` |
| `MatchingEngineProofs` | its theorems: the book, trades and quantities, the refinement |
| `LeaderElection` | the lock row, elector, callbacks, consumer, shutdown, crashes, and the fenced settlement |
| `LeaderElectionProofs` | its theorems |
| `OrderService` | `PlaceOrder`, `CancelOrder` and both settlement handlers over the database |
| `Exchange` | composes `OrderService` with the abstract engine through the two topics |
| `SumTheorems` | lemmas about sums over finite sets |
| `ExchangeProofs` | theorems about `Exchange`: orders, trades and events |
| `ExchangeFundsProofs` | theorems about `Exchange`: the money and the locks |
| `ReliableLog` | abstract specification: committed events reach the topic, no others do |
| `Outbox` | the hot path, the batched deletion and the polling worker, with failures and crashes; implements `ReliableLog` |
| `OutboxProofs` | its theorems |
| `EngineRecovery` | a change of leader with orders and settlements in flight: rows, topic, offset, book, both settlement handlers |
| `EngineRecoveryProofs` | its theorems |
| `OrderBookCache` | snapshots on their way to Redis through two services, and the script that compares tokens |
| `WebSocketHub` | `Run`, `Broadcast`, `HandleWS` and the two pumps of every client |
| `Idempotency` | the gateway between the lookup of a key and the store of the answer |
| `RateLimiter` | the token bucket in Redis, with requests under way |
| `AccountLocks` | the row locks of the order-service's transactions |
| `MCServices` | one run for the five parts around the core |
| `ServicesProofs` | the theorems about these five: `WebSocketHub`, `Idempotency`, `AccountLocks`, `RateLimiter`, `OrderBookCache` |
| `MCMatchingEngine`, `MCExchange`, `MCEngineRecovery` | values of the constants for TLC |

### MatchingEngine

`book["BUY"]` and `book["SELL"]` are the slices `ob.bids` and `ob.asks`.
`taker` is the order that `Process` is matching under the engine's mutex; each
iteration of `matchBuyOrder`/`matchSellOrder` is one step (`MatchBest`,
`CancelNewest`), and `Return` is the end of the loop together with the
`AddOrder` that may follow it. The two loops differ only in the side, so one set of
actions, parameterised by `taker.side`, stands for both. `Cancel`,
`Handover` (`EngineManager.Reset` at a change of leader) and `RestoreOrder` need
the mutex and wait for `taker = NoOrder`. `AddOrder` is append followed by a
stable sort on the price. `placed`, `filled`, `dropped`, `rebuilt` and `missed` are history variables.

The rebuild goes by `createdAt`, not by arrival. That column is a millisecond which the order-service reads before its transaction
(`service.go:133`), one for all orders of a batch (`:252`), and the goroutines that publish (`:191`, `:302`) do not keep to it: `Submit` takes
an order with any stamp, whatever the stamps of those before, and `OldestOf` picks any of the rows that tie. Priority is therefore two things
(`Served`): arrival, and `created_at` between two orders that were both there at the last rebuild (`rebuilt`). `HandoverFails` is the
change of leader in which `GetActiveOrders` returns an error: it is only logged (`main.go:127-129`), the book stays as `Reset` left it, and
the active orders are `stranded` until the next leader restores them beside whatever has come meanwhile. Such a book may be
crossed, so `NeverCrossed` exempts the orders that have been stranded (`missed`). `PriceTimeMatching` has the same two changes of
leader as steps on the set (`TakeOver`, `StartEmpty`); the restoring of one order after the other is invisible there.

Prices and quantities are naturals: the engine only compares, adds and subtracts
decimals, and those of a fixed scale behave as integers. Reading the book
(snapshots, estimates) changes nothing and is left out, and so is the choice of the
engine by symbol: symbols share no state.

### LeaderElection

`row` is the row of `partition_leader_locks`: its holder, its token, and whether
the lease is live. Time is not modelled: `LeaseExpires` may happen whenever the
lease is live, which covers slow, paused and unlucky holders alike. For every
instance, `elector` is the place of the elector goroutine (standby, granted,
starting, leader, lost, cleared, waiting, exited), `main` that of the main goroutine,
and `consumer` that of the consumer goroutine. `token` is the elector's token,
`svcToken` the one the event publisher reads, `built` the one in the event being
published. `term` is a history variable: the token of the term whose book the
consumer matches in. `AcquireLock` is two steps, so that its answer may be lost,
and the fenced transaction is two steps (`BeginFenced`, `Commit`) with the row
locked `FOR SHARE` between them (`sharing`), so that a take-over can try to get in
between. `MaxToken` and `MaxSent` bound the terms and the published requests.

### OrderService and Exchange

Each transaction is one action; it locks the rows it reads. `topic` and
`settlements` are the two Kafka topics. The settlement consumer may commit the
offset of the record it has handled or be given it again (`Acknowledge`).
`snapshots` is the set of sell sides the engine has published: its own write and
the later one of the market-data-service carry the same token, so the cache can go
back to an older snapshot, and either write may fail; `PlaceOrder` therefore finds any of them.
`asked` records the cancellations requested. `UnlockFunds` keeps its `WHERE locked >= amount`
without a look at the rows affected (`Unlocked`), and `CHECK (balance >= 0)` is a guard
of `Settle`, which is then never enabled again for this record until the balance changes.
`Exchange` uses the abstract engine, which is justified by the refinement
checked and proved for `MatchingEngine`, and adds the consumer
(`TakeOrder`, `Match`, `Finish`, `TakeCancel`).

Amounts of the quote currency are whole numbers of fine units; a price is a number of twentieths
of them, so that 105 % of an amount is a whole number too. Prices and quantities have 8 decimals, and their product 16, which
`DECIMAL(38,18)` keeps. `PlaceOrder` locks and `handleOrderCanceled` unlocks that product in full
(`service.go:418,424`), a settlement works with what `Round(8)` makes of it (`event_subscribers.go:359,461-463`): `Scale` fine
units are one of the eighth decimal, and `Round` goes to the nearest multiple, half of it upwards. Quantities are not changed by it. So a
buyer's lock may end with a rest, or an unlock that was rounded up may find too little locked and match no row. `refused` is a
history variable, the accounts that this has happened to. Abstractions: the outbox delivers once and
in order; there is one leader; users have an account in both currencies (they are
created at registration); an order is cancelled by request at most once; the `OrderUpdated`
notification is left out. `BatchPlaceOrders` locks
the sums of what `PlaceOrder` would lock: it is in `Outbox` as a source of events and in
`AccountLocks` with its locks, not here.

### Outbox

`rows` is `outbox_messages`; `stamp` is `created_at`, counted in transactions, so
that the rows of a batch placement tie. For each instance of the order-service,
`hot` holds the messages whose goroutine is about to publish, `published` is the
channel `publishedMsgChan` of capacity `ChanSize`, `batch` what
`batchMarkPublishedWorker` has collected, and `todo`, `done` and `failed` the rows
that the worker's transaction has locked. A failed publish may or may not have
reached the topic. Every failure the code handles is an action: a failed publish
on either path, a full channel, a failed deletion, a rollback, a crash with
everything in memory lost. The grace period of five seconds makes a meeting of
worker and hot path unlikely but is no lock, so rows may come of age at any time.
`topic` records first arrivals; what a duplicate does to the book belongs to
`EngineRecovery`. Each order is cancelled at most once, and funds are in
`OrderService`.

### EngineRecovery

`rows`, `created` (the `created_at` of each row), `outbox` and `trades` are the database; `orders` is `exchange.orders` with the
group's offset `committed`; `book` holds the two sides, `pos`, `out` and `handled` say where the
leader's handler is with its record: matching (`HandlePlaced`, `HandleCancel`), publishing the
settlement (`Publish`), committing the offset (`CommitOffset`, `CommitFails`). `leader` is
"leaving" from `SetFencingToken(0)` to the cancelled context: in between, a handler that has
matched may sign with 0, and the next records are skipped (`SkipRecord`). `TakeOver`
is `RestoreEngineSnapshot` followed by the consumer's start at the committed offset. It restores the active rows by `created`, those of one
stamp in any order (`RestoreBook`), or the query fails, which is only logged, and the leader serves an empty book (`RestoreFails`).
`Send` takes any event of the outbox: the goroutines that publish and the worker keep no order, so records come in any order, a cancellation before its
order too.
`Settle` and `SettleCancel` drop what a term that is over has signed and what is already settled.
`Duplicate` stands for the two paths of the outbox publishing one event each.

`restored` says that the newest leader has read the rows, and `clean` that every record was sent and handled once; both are history variables.

All orders have one price and different users, so a side is a queue and a taker walks it from the
front; `Taken` says how much it takes from each place. The walk is written with sums because a
place may hold a negative quantity: an order that is filled beyond its quantity becomes
PARTIALLY_FILLED in its row, the next leader restores it with what it has left,
which is less than nothing, and the engine's loop trades that. Such trades really are written, and
`TakesOnce` claims nothing once there are any. The model also shows what no property can claim: a market
taker whose settlement was dropped at a handover, and an order whose record
was skipped, stay NEW, and market orders are never restored.

Abstractions: several prices and self-trades are in `MatchingEngine`, funds in `OrderService`, two
instances at once and the lock in `LeaderElection`.

### OrderBookCache

A snapshot is the number of the change it shows, in its term. For each term's leader, `step` is where its
handler is in `OnOrderBookUpdate`: `Stamp` reads the token, `WriteCache` runs the script, `Publish` sends the
record; the market-data-service then runs the script a second time (`Cache`), pushes the record to the hub
whether or not the cache took it (`Push`), and commits. The leaders of several terms may be at work at once. A new
leader sends its restored book, unless that is empty: `Reset` leaves no engines, `RestoreEngineSnapshot` creates those of the restored orders, and
`SyncRecoveredOrderBooks` sends the books of the engines there are (`Synced`). `missed` and `unsent`
are history variables: what failed to be published or written, and the restored books of which nothing was sent.

### WebSocketHub

`clients` is the hub's map; `send`, `queue` are the channels with their capacities, and sends to them the
statements that may block. `Deliver` is the case of `Run` that moves one message to every member and throws
out those with a full channel; `Register` and `Unregister` are the other two cases, and each completes the send of
a goroutine that was waiting. `reader` and `writer` are the places of `readPump` and
`writePump`. `closes` and `sentOn` count what would be a panic. `log`, `joined` and `received` are
history variables. Messages are numbers; the payload and the JSON around it are left out.

### Idempotency, RateLimiter, AccountLocks

`Idempotency`: `stage` is the gateway's place with a request and `service` the
order-service's. Lookup (`Replay`, `Forward`) and store (`Finish`) are
steps of their own with the proxied call between them, because the code reserves nothing. The answer
may be lost (`BadGateway`) while the order is placed. `disturbed` lists, per key, what can
undo "one order per key": requests that overlap, a lost answer, a Redis that
does not answer, an entry that expires. Where none of these happened the property is claimed.

`RateLimiter`: one client. `Arrive` takes the time, `Allow` runs the script, so scripts may
run in another order than their times; the bucket's time then goes back, by `setback` in all. The
public and the private limiter are two limiters with one bucket, because the Redis key
holds only the address. Redis failures let the request through (`FailOpen`). A request gives up after
two seconds, and Redis is taken to run no script later than that for a call it has received.
Both modules describe the stores in Redis; the in-memory ones that replace them
when Redis is missing at the start are not modelled.

`AccountLocks`: a transaction is the sequence of rows it will lock, `todo`, and the set of those it
has, `held`. `PlaceOrder`, `BatchPlaceOrders`, `CancelOrder`, `Settle`, `SettleCancel` and `Recharge` begin one with
the rows and in the order of the source, which sorts order ids and account keys before it locks; a statement on
a row of another transaction waits. A row is a pair, `<<order, 0>>` or `<<user, currency>>`.

## 3. What TLC checks

| run | instance | shows |
|---|---|---|
| `matching` | 2 users, 2 prices, quantity up to 2, 3 orders, 2 stamps (2,804,885 states) | `PriceTimePriority`, `NeverCrossed`, `TradesAreFair`, `OpenOnce`, `QuantityConserved`; the slices implement `PriceTimeMatching`; `Process` returns |
| `election` | 2 instances, 2 terms, 1 request (111,692 states) | `OneLeaderPerTerm`, `TokenNamesTerm`, `FencedWritesCurrent`, `TokenNeverReused`, `StepDownCompletes`, `TakenOver` |
| `election_unfenced` | 2 instances | violation, finding 1 |
| `election_shutdown` | 1 instance | violation, finding 2 |
| `exchange` | 2 users, 2 prices, 10 requests, 3 orders, amounts rounded to multiples of 6 (307,163 states) | `MoneyConserved`, `LocksMatchOrders`, `FilledMatchesTrades`, `QuiescentAgreement`, `ClosedStaysClosed`, `CancelCompletes` |
| `stuck_funds` | as `exchange`, nothing to round | violation, finding 3 |
| `outbox` | 2 instances, 2 of 4 possible events, batches of 2, channel of 1 (36,559 states) | `NothingLost`, `HeldOnce`, `ImplementsLog` (with its liveness), `Drains` |
| `outbox_order` | 1 instance, 1 order | violation, finding 4 |
| `recovery` | 2 orders, 3 kinds of request, 2 terms, 1 cancellation, 1 repeated record or failed commit (2,047,786 states) | `TakesOnce`, `FilledMatchesTrades`, `CleanHandoversSafe` |
| `recovery_overfill` | 3 orders, 2 terms, no cancellations, no repeats | violation, finding 5 |
| `services` | five parts, one per behaviour (840,360 states) | `ClosedOnce`, `FeedHasNoGaps`, `ConnectionsReleased` of the hub; `CacheSettles`; `ReplayFaithful`, `OneOrderPerKey`; `AdmissionBound`; `NoDeadlock` |
| `zombie_snapshot` | 2 terms, 2 changes each | violation, finding 6 |

The bounds. With three orders an incoming order can meet two makers at two prices,
or two at the same price; with quantity 2 it can fill one and part of the other; with two users
either maker may be its own. That is enough for a partly filled maker to be
overtaken, for a walk that ends in the self-trade prevention after a
trade, and for a rebuild of a book in which priority within a price matters, with stamps that tie, keep to
the arrival or contradict it. Two instances and two
terms give an overlap of an old and a new leader, with the request of the first
still in flight, and with two requests one of each. In the exchange, three orders are a maker, the
taker that reaches it and one that interferes; the funds are such that a user can
afford the higher price but not the higher price after having locked 105 % of the lower one. With a `Scale` of 6 a unit
at the lower price is rounded down (20 to 18) and one at the higher price up (40 to 42), so locks that keep a rest and
unlocks that match no row both happen. In the outbox two events are enough for a batch of which one
publish fails, for a full channel, and for the two paths and two workers to meet on one row. The batch holds the whole
backlog there: that nothing is lost with larger batches or a `LIMIT` below the backlog is proved, that the backlog then drains
is not shown by a run (two instances with three events have 6,773,321 states, too many for the liveness check). In `recovery`, two orders of opposite
sides are enough for an order that is restored and delivered again, a settlement of the old term that
arrives before, after or twice, and a record sent twice; the overfilled order of finding 5 needs a third that
has filled it before, so that run has three and no repeats.
Both have one stamp, because rows of one stamp are restored in any order, which includes every order that different stamps could give.

`services` puts five parts into one run. They share no state, so interleaving them could show nothing new;
`subject` says which part a behaviour is about, and the others keep their initial values. Two clients with
channels of one message and a hub channel of two can be slow, miss a broadcast, and leave while they are
thrown out. Two terms with two changes each, and one restart of the consumer, put an old leader's
late write between, before and after those of the new one. Three requests on two keys can repeat a key after an
answer, before it, and after an expiry. Two requests under way, with a bucket of two tokens, a time to live of three
ticks and a timeout of two, run scripts out of order and meet an expired key. The third tick is not decoration: a key must outlive
every request that was under way by the time it takes to fill a bucket (`LimitersAssumption`), or late requests meet a new bucket,
full again, at an old time; with both times at two ticks and four requests under way `AdmissionBound` is violated. The code keeps far
from that: a bucket fills in one second (`cmd/gateway/main.go:86-88`), requests wait for two, keys live for ten or more. Two transactions on two orders of two users
are enough to wait for each other if the orders were wrong; circles of any length are covered by the proof.

Deadlock is not checked in `MatchingEngine`, `Exchange`, `Outbox`, `EngineRecovery` and `services`, whose
clients may stop and whose bounds end; it is checked in `election`, where a process can always be
restarted or crash. That transactions do not wait for each other is the invariant `NoDeadlock`.

Fairness. In `MatchingEngine` the goroutine inside `Process` or in the restore
loop runs on, and nobody has to submit. In `LeaderElection` the goroutines leave every state in
which they do not wait for Kafka or for a tick; a tick of a standby recurs, so `Acquire` is
strongly fair; a lease expires when its holder is down; a transaction in
progress commits. Nothing is assumed of Kafka (a publish may be refused for ever), nor that a healthy
leader keeps its lease. In `Exchange` both consumers run and an event that is
delivered is at some time acknowledged. `CancelCompletes` exempts what waits behind a market buy that its
user cannot pay: the balance check fails in every retry, the record blocks the
topic, and nothing behind it is settled until the user has more money (`Blocked`).
In `WebSocketHub`, `Run` never blocks, so whoever waits on one of its channels is served; a write ends by
its deadline; and when nobody pings a peer its pongs stop, so the reader's deadline passes. That takes a peer which
answers pings and sends no pongs of its own accord, each of which would put the deadline off. Nothing else is
assumed of the peer, and nothing of the callers of `Broadcast`. In `Outbox` the workers run, and from
some time on their batches are not disturbed any more: an outage ends. Without
this the backlog need not drain, also because `LIMIT` takes the oldest rows first, so that rows which
fail every time keep newer ones from being fetched.

## 4. What is proved

`tlapm` checks every theorem for all values of the constants that satisfy the
assumptions below; each is an `ASSUME` that TLC evaluates in the runs.

| assumption | says | because |
|---|---|---|
| `PricesAssumption`, `MaxQtyAssumption`, `TwentiethsAssumption` | prices and quantities are positive naturals, prices are divisible by 20 | decimals of a fixed scale, in which 5 % is a number |
| `NoOrderAssumption`, `NobodyAssumption`, `KeysAssumption` | the value for "none" is none of the others | |
| `UsersAssumption`, `FundsAssumption` | finitely many users with non-negative balances | rows of a table, with their CHECKs |
| `RequestsAssumption` (`OrderService`, `EngineRecovery`) | requests are well-formed | the handlers validate them |
| `LocksAssumption` | orders have owners | |
| `StampsAssumption`, `ScaleAssumption` | stamps are naturals, the unit of rounding is a positive one | milliseconds; a decimal place |
| `LimitersAssumption` | the buckets fill between the timeout of a request and the end of a key | section 3 |
| `BatchSizeAssumption`, `ChanSizeAssumption`, `CapacitiesAssumption` | capacities are naturals, a batch is not empty | configured numbers |
| `MaxOrdersAssumption`, `MaxEventsAssumption`, `ExpiriesAssumption`, `CacheAssumption`, `BoundsAssumption` | the bounds of the models are naturals, some of them positive | |

*MatchingEngineProofs.* The book's properties are not inductive by themselves:
that the stable sort keeps priority needs that the order it inserts is the
youngest, which needs that ids in the book were issued before the taker's; that a resting
order does not cross needs that the loop ended for the right reason; that a rebuilt book has priority
needs that what is still to be restored was created no earlier than what has been restored, and that all of it was there when the
rebuild began; that an id is in one place needs the places told apart, with the orders of a failed restore as one of them.
`EngineInv` collects these facts, `EngineInvariant` proves it, and
`TypeCorrect`, `PriorityKept`, `BookNeverCrossed` and `NoDuplicates` follow. The
lemmas about `AddOrder`, `RemoveIndex` and `FillBest` (which elements
they keep, that they stay sorted) carry most of the argument. `EngineImplementsMatching`
maps the slices to the set of their elements: each iteration of the loop is
a `Trading` or `Forfeit` step of the abstract engine because the head of a
sorted slice is the order with priority. A handover is a `TakeOver` of what is active, a failed one a `StartEmpty`, and the restoring of one order
a stutter, which needs only that the set of resting orders includes those still to be restored; that the head of a rebuilt slice has priority is `Served`.
`TradesFair` and `QuantityKept` rest on `EngineInv` too. The first needs `PricesBehind`: what remains on the other
side is no better than what has been traded, because each iteration takes the head of a sorted slice.
The second states the balance id by id (`Conserved`): the quantity placed under an id is what was filled, dropped, rests,
is in the taker's hand, waits to be restored or was left out by a failed restore. That needs that an id is in one of these places only, which `EngineInv` gives.

*SumTheorems.* The models add up trades, fills and balances with the fold of the community modules, `SumFunctionOnSet`, whose
value over a set is a `CHOOSE`. `SumTheorems` proves the facts that the other proofs cite: a sum is a number; it does not depend on the order;
it is additive over disjoint sets and over two functions; changing one value changes it by the difference. The provers have no
induction rule for an operator, so each of these takes a smallest set for which the fact fails, which exists
because the strict subsets of a finite set are well-founded, and removes one element.

*ExchangeProofs.* `ExchangeInv` follows every order from its row through the topic, the engine's hands and
the settlement events to the table again, and back. Its parts: an order is sent to the engine once
(`Placing`); what the engine has of an order agrees with its row (`InBook`); trades are between two users on opposite sides at the
maker's price (`Trades`); what the engine has left and what was traded, recorded or not, make up the order (`Quantities`);
the event of a taker is the first that mentions it, that of its cancellation the last, and after the event that completes an order there is none
(`Reports`); an event that is delivered again was applied as a whole (`Applied`); and the rows are what the recorded trades say, with an event on its
way for every order that is open without being in the engine (`Table`). `Reports` is the heart: the consumer decides from the row's status alone
whether it has seen an event, and that this is right depends on the order in which the engine writes events about one order. `ExchangeInvariant` proves
it for any users, requests and number of orders; `FilledIsTraded`, `QuiescentBooksAgree` and, as an action property, `ClosedRowsAreFinal` follow.

*ExchangeFundsProofs.* `FundsInv` is `MoneyConserved`, `LocksMatchOrders` and that no balance or lock is negative; it is
inductive given `ExchangeInv`. `LocksMatchOrders` is not an equation, because of the rounding: an account's lock differs from what its open orders
need by at most `RoundedOff`, half a unit of the eighth decimal for every recorded trade and every completed order, and in the base currency not at all.
An unlock that matches no row leaves more locked, so the upper bound ends for an account that this has happened to (`refused`), and the proof shows
that only rounding brings it about: with `Scale = 1` no unlock is refused and the equation holds. The work is in a settlement, whose transaction adds up what every trade moves:
what the buyers pay is what the sellers get, currency by currency, the refunds of a buyer who paid less than the limit come out of that order's lock, and
what an order has locked afterwards is what its new quantity needs, but for what each trade and the refund have been rounded by. That nothing becomes negative needs that the locks of several open
orders of one account add up. `MoneyIsConserved`, `LocksMatch` and `TypeCorrect` follow. Money is conserved exactly: buyer and seller move the same rounded value.

*LeaderElectionProofs.* `ElectionInv` says who may hold which token (an elector's
token never exceeds the row's, and equals it only for the holder named in the
row), which term a consumer works for, and what the requests in flight carry;
`ElectionInvariant` proves it for any set of instances and any number of terms.
`LeadersDiffer`, `EventsSignedInTerm`, `FencingWorks` and `TokensOnlyGrow`
follow, the last one as an action property.

*OutboxProofs.* That nothing is lost is not inductive by itself: a deletion
removes what somebody earlier found to be published. `OutboxInv` says what the
ids in the channel, in the batch and in `done` stand for, that locked rows are in the table
and locked once, and that whatever is about to be published was committed.
`NoEventLost` and `RowsHeldOnce` follow, and `OutboxImplementsLog`: every
step is a commit, a delivery, or a stutter of `ReliableLog`.

*EngineRecoveryProofs.* `RecoveryInv` says what the rows, the log, the book and the events, wherever they are, may say of one another:
a queue has orders of its own side and no entry of quantity 0, an event speaks of existing orders and of no order that meets itself,
a limit order that is filled exactly is not open. `RowsMatchTrades` needs no more, because a settlement changes rows and trades together. `OrdersTakeOnce` needs `Claimed`:
a taker with a recorded trade is no longer NEW, so a second event of the same taker is dropped, whoever sent it. That is a statement about the sign of a
sum, and it ends where an overfilled order was restored: then trades may be negative, and `TakesOnce` claims nothing (finding 5). The
walk over the queue (`Kept`, `Taken`) is proved about with the least place at which a fact fails. All of it holds for any orders and
requests, any number of terms, repeats and failed commits.

`HandoversAreSafe` compares the book with rows that lag behind it, so it needs to know what is in between. `HandoverInv`, inductive
beside `RecoveryInv`, says it of behaviours in which every record was sent and handled once and no leader left one behind (`clean`). An order *owes* its part in
each settlement on its way (`Wire`) that will be applied when its turn comes (`Due`); then what its row has filled, what it owes and what rests in the
book make up its quantity (`Resting`), and an open order that does not rest owes all the rest (`Complete`). A match moves quantity from the book to what is owed, the consumer moves
it from there to the row, and a new leader restores what the rows leave open while its term makes every settlement of the old one stale, so that
nothing is owed any more. That a settlement that is due stays due within its term needs the order of events: an order takes before it gives and is withdrawn last (`Sequence`), its makers are open until then (`Matched`), and nothing has happened to one
whose record still waits, in the outbox or in the topic (`Fresh`). Records may come in any order; that each comes once is `RecordsOnce`. A leader whose restore failed has an empty book, so what rests is right as far as
it goes and `Complete` is claimed only of a leader that has `restored`. At rest nothing is owed, so its book and the rows hold the same orders with the same
quantities, each once (`QueuesOnce`). Nothing is claimed of their order: the book goes by arrival and the rows by `created_at`. Nor does the theorem claim anything once
a record was repeated or given up; finding 5 shows that the claim ends there.

*ServicesProofs*, the five parts of `MCServices`:

- The hub. `MembersInv` ties membership, the reader's place and the number of closes together, which
  `ClosedOnce` needs because the hub, on a full channel, and the reader, on its way out, both want to close. `OrderInv` says that the
  log and the queue are the calls that were not dropped, in order; `FeedInv` says that what a client has received, then what its channel holds,
  is the stretch of the log from where it joined, up to the end while it is a member. `ChannelsClosedOnce` and `FeedsHaveNoGaps` follow.
- The cache. `CacheSettles` speaks of the end only. `TermsInv` says what a term's leader has stamped and with which token, `SnapshotsInv` that every snapshot on
  its way is of a book that there was, in the order of its term; `LatestInv` then follows the newest book of the newest leader: it is missed, or at one place of the
  feed, and once the consumer is past that place the cache shows it, because what is written later is older and has the smaller token of an older term.
  An empty restored book of which nothing was sent is set aside (`unsent`), until its first change is.
  `CacheShowsLatest` follows.
- The token bucket. `LimiterInv` says that what was admitted and what is in the bucket was paid for by the time of the bucket, that a key outlives the requests
  under way by the time of a refill, and that without a bucket there is credit for a full one. `AdmissionIsBounded` follows.
- The row locks. `LocksInvariant` adds to the types that a transaction needs only rows after those it
  has (`Ascending`). `NeverDeadlocked` then argues with the waiting transaction whose next row is the greatest: it
  waits for nobody else who waits, since that one would have to need a row beyond it.
- The idempotency keys. What the store answers is the acceptance of an order because the gateway stores only what the
  order-service has accepted, and a placed order stays placed; `AnswerInv` says so of every place where an answer can be, and
  `ReplaysAreFaithful` follows. That a key places one order is not inductive by itself: `KeyInv` adds that the requests of a key that
  nothing has disturbed do not overlap, that the order-service works only for a request that the gateway waits for, and that the
  store has the answer of one that placed an order and is over. `KeysPlaceOnce` follows.

The theorems about the hub, the keys and the locks are about their own specifications; `ServicesInvariant`, `ServicesTypes`,
`CacheShowsLatest` and `AdmissionIsBounded` are about `ServicesSpec`, in which a behaviour is one of a single part.

TLC agrees with the invariants on the instances of section 3 where it can evaluate them: `EngineInv` over the 2,804,885 states of `matching`, `HandoverInv` over the
2,047,786 of `recovery`, `CacheInv` over the 840,360 of `services`, and the named parts of the others that are properties of a run.

Every safety invariant and every action property of a passing run is proved. Only model-checked: the liveness properties, with
the liveness of `ReliableLog`, and the violations of the next section.
Liveness under fairness and `ENABLED` are outside what the prover can do. It cannot instantiate an
induction theorem for an operator either; the inductions over finite sets and lists above are arguments from a smallest counterexample instead. No
module uses `RECURSIVE`.

## 5. Where the code and its own statements differ

1. `election_unfenced`: `elector.go:24` says that the database rejects the writes of an old leader. A
   handler that outlives the step-down reads the token after it was zeroed, and a
   settlement with token 0 is not checked.
2. `election_shutdown`: `main.go:238` says that cancelling the global context
   stops the consumer. The consumer's context is not derived from it, and the
   shutdown of a leader waits for ever.
3. `stuck_funds`: a market buy that costs more than it locked is
   settled with its lock left behind; the audit script calls that stuck funds.
4. `outbox_order`: `events.go:56` says that the common topic and key make the consumer see an order
   before its cancellation. The two are published by goroutines of their own, and
   the worker skips what fails, so they may arrive the other way round; the
   request then finds no order and the order rests.
5. `recovery_overfill`: `event_subscribers.go:129` says of a handler that gives up when its context is
   cancelled that its offset is not committed and that the restore from the database makes this entirely safe. The
   order is restored and its record delivered again; what it fills counts twice, and it is filled beyond its quantity.
6. `zombie_snapshot`: `cache_repository.go:57` says that comparing tokens keeps late snapshots of an old
   leader from the screen. The snapshot is stamped with the token as it is then, which may be 0 already, and 0
   is never refused.

More behaviours are visible in the models, and the properties say how far they go:

- A change of leader may reorder the orders of one price. A book is rebuilt by `created_at`, which ties and differs from the arrival
  (`PriceTimePriority` claims no more than `Served`; `docs/DEEP_DIVE_ANALYSIS.md:260` calls the book first in, first out).
- A restore that fails is only logged (`main.go:127`): the leader serves an empty book, and the next one may restore a crossed one (`NeverCrossed`, `missed`).
- A limit buy may leave a rest of its lock behind when it is filled, or an unlock that is rounded up finds too little locked, matches no row and leaves
  all of it. It is finding 3 by another way, and `LocksMatchOrders` bounds the rest.
- When a new leader restores nothing for a symbol it sends nothing either, and the cache keeps the levels of its predecessor until the next change
  (`CacheSettles`, `unsent`), although `main.go:147` says that the front end sees the right market at once after a cold start.

Two others contradict no statement of the repository: `Process` tests for a self-trade before it tests the price, so an order that would cross nobody is dropped when the best
opposite order is its own user's (`MatchingEngine!CancelNewest`); and a market buy that its user cannot pay blocks the
settlement topic (`Exchange`, `Blocked`).

## 6. Not modelled

- HTTP handlers (`internal/api` apart from the hub) parse, validate and forward; they keep no state, and what they admit
  bounds the inputs of the models.
- Topic creation, connection set-up, metrics and logging are I/O.
- Reporting queries (K lines, recent trades, order lists) read.
- `simulation-service` is a load generator that calls the public API.
- The `TradeExecuted` and `OrderUpdated` notifications are for display; nothing reads them back. The
  handlers of `market-data-service` that pass them on only call `Broadcast`.
- The in-memory stores of the gateway, used when Redis is missing at the start, and their clean-up.
- The amounts of `BatchPlaceOrders`, and the money that `RechargeTestUser` creates for tests.

## 7. Status

All modules of the plan are written: `Orders`, `PriceTimeMatching`, `MatchingEngine`,
`LeaderElection`, `OrderService`, `Exchange`, `ReliableLog`, `Outbox`, `EngineRecovery`, `OrderBookCache`,
`WebSocketHub`, `Idempotency`, `RateLimiter`, `AccountLocks`; every one that a run checks has theorems, in eight modules.
Every safety invariant and action property that a passing run checks is proved.
What could be added: `EngineRecovery` with two prices; `BatchPlaceOrders` with its amounts in `OrderService`; a
refinement of the settlement topic of `LeaderElection` to a fenced log.
