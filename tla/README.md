# A verification development for hmdp

hmdp is a Spring Boot backend for local shops and coupons.  Requests are served by
several JVMs that share one MySQL and one Redis.  The part of it that is hardest to get
right is the flash sale: a voucher is published to Redis, a buyer is accepted by a Lua
script there, the order travels through a Redis stream, a consumer turns it into a MySQL
row while the buyer asks what became of it, and later the row is paid, cancelled or
redeemed while background jobs put the stock of cancelled orders back.  Around it are a
shop cache, likes, follows and an inbox, and the login, each with state in two stores.

Paths below are relative to `src/src/main/java/com/hmdp/` unless they start otherwise.

## Inventory

| Component | State | Operations | Talks to |
|---|---|---|---|
| Flash-sale gateway: `service/impl/VoucherOrderServiceImpl.java`, `seckill.lua`, `seckill/SeckillConsumeGate.java` | Redis: stock counter, set of buyers, id map, processing sets, accept records; per JVM: the gate | `seckillVoucher`; the script tests window, stock, duplicate, then decrements, records and XADDs in one step | stream, order ids, MySQL (window) |
| Order stream consumer: `seckill/SeckillOrderStreamConsumer.java` | the stream, its group (cursor, pending list); per JVM: a worker thread | `start`, `stop`, `loop`, `recoverOwnPending`, `claimIdleFromOthers`, XACK | handler, gate |
| Stream message handler: `seckill/SeckillStreamMessageHandler.java`, `createVoucherOrder` | MySQL: `tb_voucher_order`, `tb_seckill_voucher.stock`; Redisson lock per buyer | parse, delivery limit, lock, transaction, dead letter, hints | consumer, dead letters |
| Dead letters: `seckill/SeckillDeadLetterService.java` | MySQL: `seckill_dead_letter` | `isolate`, `replay` (XADD again) | stream |
| Window backfill: `src/scripts/backfill-seckill-window.sh` | the Redis stock counter and window | SELECT, then SET | gateway |
| Voucher publication: `service/impl/VoucherServiceImpl.java` | MySQL voucher rows; Redis stock, begin, end | `addSeckillVoucher`, three SETs after the commit | gateway |
| Order query: `queryOrderById`, `listMyOrders` | none of its own | read MySQL, dead letters and Redis in turn | all of the above |
| Trade: `trade/TradeOrderService.java` | status of an order, redeem audit, outbox rows | pay, cancel, redeem, cancel by timeout | MySQL |
| Timeout job and outbox worker: `trade/UnpaidOrderTimeoutJob.java`, `trade/StockReleaseOutboxWorker.java`, `stock_release.lua` | done-keys in Redis | scan, cancel one by one; poll, script, mark | trade, gateway (stock counter) |
| Order ids: `utils/RedisIdWorker.java` | a counter per day in Redis | `nextId` | gateway |
| Shop cache: `utils/CacheClient.java`, `service/impl/ShopServiceImpl.java` | Redis: value with logical expiry, empty marker, rebuild lock; a bounded pool | read, rebuild, invalidate after commit | MySQL |
| Shop types: `service/impl/ShopTypeServiceImpl.java` | a Redis list | read, fill | MySQL |
| Blog, likes, feed: `service/impl/BlogServiceImpl.java` | MySQL `liked`; Redis sorted sets of likes and feeds | like toggle, publish to followers, scroll | follow |
| Follow: `service/impl/FollowServiceImpl.java` | MySQL rows, Redis sets | follow, unfollow, common follows | |
| Login and session: `service/impl/UserServiceImpl.java`, `interceptor/` | captcha, failure counter, token hash; a `ThreadLocal` per thread | send code, login, logout, refresh | MySQL |
| Sign-in: `UserServiceImpl.sign`, `signCount` | a bitmap of signed days | sign, count | |
| Metrics and ops: `metrics/` | counters, gauges, a capped map of lags | count, sample | reads the others |
| Privileges: `interceptor/PrivilegeInterceptor.java` | none | role checks | |
| `utils/SimpleRedisLock.java` | none in use | not called anywhere | |
| Frontend: `src/frontend/` | the position in the feed | vendored Vue, Element, axios; pages | the controllers |
| Read-only queries, upload, configuration, benchmarks, start scripts | | | |

What is hard here:

* **Interleaving.**  Several JVMs consume one group.  An entry that its consumer is still
  working on is claimed by another after 30 s.  HTTP requests, the timeout job and the
  outbox workers of all JVMs race on one order row.
* **Crashes.**  A JVM can end between commit and XACK, between dead letter and XACK,
  between the release script and the mark.  A restart draws a new consumer name, so what
  the old one held can only be claimed.
* **Partial failure.**  Every call to Redis or MySQL can throw, also after it took effect.
* **Retries.**  An entry that cannot be settled stays pending.  Deliveries are counted and
  at five the order becomes a dead letter.
* **Three stores for one fact.**  The stock is in Redis and in MySQL.  An order is in the
  stream, in the hints, in a row, in a dead letter, or in several of them.

The properties that make each component correct: *gateway*, never more accepted buyers
than units, one order per buyer, no order on a closed path; *consumer and handler*, no
accepted order lost, at most one row and one decrement each, a buyer can always find the
order in some store, everything is settled in the end; *dead letters*, only what cannot
be settled, and a replay is harmless; *backfill*, at worst too many accepted, never too
many sold; *trade*, one outcome per order and answers that stay true; *outbox*, each
cancelled unit back exactly once, and in the end; *ids*, never twice; *shop cache*, an
update is seen by the logical expiry at the latest and an error never turns into "not
found"; *likes and follows*, row and set agree; *feed*, no post skipped or shown twice;
*login*, few guesses and one token per captcha, and an ended session stays gone.

The list `hazards` of `PROJECT.json` gives the lines where each of these bites.

## Modules

| Module | Part | Runs | Proofs |
|---|---|---|---|
| `Seckill`, `SeckillSale` | gateway script, stream, consumers, handler, dead letters, backfill; the abstract sale | `seckill_sale`, `seckill_live`, `seckill_persisted`, `seckill_hidden` | `SeckillProofs`, `SeckillSafetyProofs` |
| `VoucherLife` | abstract: the life of an order from acceptance to the unit's return | refined in `acceptance`, `seckill_sale`, `trade` | in the three modules' proofs |
| `SeckillQuery` | order query and list, composed with Seckill | `seckill_query` | `SeckillQueryProofs` |
| `Acceptance` | publication, rebuild script, order ids, window | `acceptance` | `AcceptanceProofs` |
| `Trade` | pay, cancel, redeem, timeout job, outbox | `trade`, `trade_live`, `trade_redeem` | `TradeProofs` |
| `ShopCache` | readers, rebuild pool, updates of one shop | `shop` | `ShopCacheProofs` |
| `Social` | likes, follows, fan-out, scrolling | `social` | `SocialProofs` |
| `Session` | captcha, login, token, interceptors, logout | `session` | `SessionProofs` |

The sale is cut where its parts meet.  `Acceptance` ends with the script on published keys
and shows what `Seckill` takes for granted there: ids that are never repeated, and a stock
counter that nobody sets under an open sale except by the backfill.  `SeckillQuery` extends
`Seckill` with readers that change nothing of it.  `Trade` begins where `SeckillSale` ends: buying
is reduced to its two counters.  A product of Seckill and Trade was left out on purpose:
each changes the Redis stock only by one atomic script.  They meet in one more place, which no
module has: the backfill reads `tb_seckill_voucher.stock`, which a cancel has raised already,
and sets the Redis counter from it, so the unit of a cancelled order whose outbox row is still
pending comes back to Redis twice.  `Seckill` has the same excess from orders in flight, and
shows what bounds it: MySQL's own counter.

What holds the three parts of the sale together is `VoucherLife.tla`: an order is taken while
a unit is left, under an id that stays, waits, gets its row while MySQL has a unit, is paid
and used, or cancelled and its unit returned, each move once and none backwards.  No module
of the code holds this whole life.  `Acceptance` implements its first part, `Seckill` the part
from acceptance to the row, `Trade` all of it without ids (`LifeRefined` in each), so the three
agree on what an order is where one hands it to the next.  `loose` is the one licence: once
an operator has rewritten the stock of an open sale, more orders may wait than there are
units, and still no more get a row.

`ShopCache`, `Social` and `Session` share no key with the rest.

No module that is proved about uses a RECURSIVE operator.  Deadlock is checked in every run.

## Seckill

`Seckill.tla` is the sale of one voucher.  One variable per stored fact; a stream entry is
named by its position, a pending record is `[owner, n, idle]` with `n` the delivery count
(saturating at the limit, because nothing tells higher counts apart) and `idle` for "not
delivered for 30 s".  A member of `Consumers` is one JVM lifetime.  A worker has a program
counter at every point where the code calls Redis or MySQL:

| `worker.pc` | code |
|---|---|
| `next` with `mode`/`todo` | `loop`, `recoverOwnPending` (`own`), `claimIdleFromOthers` and the record read last (`other`) |
| `xclaim` | between XPENDING and XCLAIM in `claimIdleFromOthers` |
| `tryLock`, `check`, `insert`, `unlock` | `applyWithLock` and the reads and writes of `createVoucherOrder` |
| `isolate`, `clear`, `ack` | dead letter, `clearProcessingHints`, XACK of `processRecord` |

HTTP is two steps, `Submit` (gate and window) and the atomic script `LuaAccept` or
`LuaReject`, because the gate may close in between.  `Exit` is a crash or the end of
`stop()`; it forgets the worker and the requests of the JVM, and nothing in Redis or MySQL.
A call that fails is the `Fault` branch of its action; where the caller cannot know whether
the call took effect (`Insert`, `Clear`), both outcomes are there.  Exceptions from
`applyWithLock` are split as the code splits them: transient (`retry`), anything else
(`error`, a dead letter).  Named bounds: `MaxFaults`, `MaxReplays`, `MaxBackfills`, and
`Spare`, which keeps the supply of JVM lifetimes from running out: some other one runs or
is still to start.

Order ids are handed out in order and only to accepted requests; an id drawn by a rejected
request appears nowhere.  `Replay` refuses every malformed body, where the code refuses only one
that lacks a key; one whose numbers do not parse would be appended and dead-lettered again,
as the malformed entry at the start of some runs is.

`SeckillSale.tla` is the promise: a buyer is accepted, then sold a unit or told the order
failed.  `SaleRefined` says that Seckill implements it, under the mapping accepted buyers /
buyers with a row / buyers with a dead letter that could be read.  `LifeRefined` maps the same
state to `VoucherLife`: the id map is `order`, a row makes a waiting order unpaid.

### Properties

| Property | What it rules out |
|---|---|
| `NoEntryLost` | an entry that is neither undelivered nor pending nor settled |
| `DbLedger` | a row without its decrement, a decrement without its row, two of either |
| `RowsAreAccepted` | a row that is not the order its buyer was answered |
| `UnsettledIsProcessing` | an accepted order that the query finds in no store |
| `NoPoisonByRetry` | a lone JVM that retries an order into the dead letters |
| `RedisLedger` | a Redis counter out of step with the accepted buyers, or above MySQL's |
| `LockExcludes` | two workers inside one buyer's section although nothing failed |
| `SaleRefined` | overselling, a second sale, a sale undone |
| `LifeRefined` | an id that changes or is given twice, a row for an order nobody was given, an order that goes back |
| `Drained` | an order that is pending or undelivered for ever |

### Runs

| Run | Instance | Why it is enough |
|---|---|---|
| `seckill_sale` | 2 buyers, 1 unit, 2 JVMs, 1 backfill, 1 fault anywhere, limit 3, own scan of 1, claim window of 2 | the last unit is contended; the script can read before and write after either sale, so that more is accepted than there is; two orders are in the pipeline at once, and an entry changes hands twice before it reaches the limit |
| `seckill_live` | 1 buyer, 2 units, 2 JVMs, 1 malformed entry before the group exists, 1 replay, 1 fault, limit 2, fairness | the JVM that read the order dies or fails and another one must find it; a sold order is replayed while a spare unit is there to be taken twice; with limit 2 a single redelivery by a scan would already poison |
| `seckill_query` | see SeckillQuery | |
| `seckill_persisted` (violation) | 1 buyer, 3 JVMs, limit 3 | see Findings |
| `seckill_hidden` (violation) | 2 buyers, window of 1 | see Findings |

The window sizes 50, 100 and 10 of the code are parameters; the runs use sizes from 1 to 3 so
that they are reached.  The delivery limit is 2 or 3 instead of 5 for the same reason.
Users and JVMs are symmetric in the safety runs.

### Fairness

`FairSpec` assumes, per JVM: it starts once (`WF Start`); a worker in the middle of a scan or
of a record goes on (`WF`, its calls are blocking calls with time limits); at the top of the
loop both the scan that comes every 15 s and the read happen again and again (`SF`, since
each is disabled while the other runs).  Time passes for a pending record and for a lock
that nobody is using.  Buying, failures, crashes and scripts need not happen.  A JVM can
stop at any moment as long as another one runs or is still to start; without that nobody
could promise anything.

### Proofs

Everything is proved for any number of buyers, JVMs, faults, replays and backfills, from
`SeckillAssumption` (types of the constants, finitely many buyers).

* `SeckillProofs`: `TypeCorrect`.  `TypeInv` adds to `TypeOK` that a worker past `next` holds
  a real entry, and that one inside the section holds a readable order; without it
  `stream[worker.cur]` means nothing.
* `SeckillSafetyProofs`: `Inv` = `TypeInv /\ DataInv /\ SettledInv` is inductive
  (`InvInductive`).  `DataInv`: every entry and row is genuine, i.e. it is the order given
  to its buyer, and ids are unique; without it a replayed or duplicated entry could name
  another buyer's order.  `SettledInv`: a worker at `clear` or `ack`, or at `unlock` with a
  good result, holds a settled entry; that is what makes XACK safe.  From `Inv` follow
  `NoEntryLostCorrect`, `RowsAreAcceptedCorrect` and `UnsettledIsProcessingCorrect`.
  `LockExcludesCorrect` needs `LockHeld`: while nothing failed, a worker inside a buyer's
  section is the holder of the lock.  `DbLedgerCorrect` needs that `rows` is finite
  (`LedgerInv`), since the ledger counts them.
  `RedisLedgerCorrect` follows by `RedisInv` (no snapshot is outstanding before the first
  backfill) and an injection of sold into accepted buyers.
* `SaleRefinedCorrect`, in the same module: `Init` maps to `Init`, and each step to a step of
  the sale or a stutter.  A `Commit` maps to `Sell`, whose guard on the stock comes from
  `DbLedger` and the fact that rows of different buyers are different.
* `LifeRefinedCorrect` maps each step to a move of one order.  `AcceptTakes`: the script gives
  an id that nobody has, and by `RedisInv` its stock guard leaves a unit for the order, unless
  a backfill came first.  `CommitMovesOn`: a commit moves the one order whose id the entry
  carries, since rows are genuine (`DataInv`).  Everything else leaves the mapping as it is.
* `NoPoisonByRetryCorrect`: `OwnersInv` says that pending records belong to JVMs that started
  and that what a JVM is about to claim is not its own; from it `CountInv`, that nothing was
  delivered twice before a second JVM started.

Only model-checked: `Drained`, since liveness is out of the prover's reach, and the two
refuted properties.

### Not modelled in Seckill

A voucher row that is missing; an entry whose body was trimmed; the answer given to a
duplicate request; loss of the Redis data, after which orders that only Redis knew are gone
and reads of the stream fail until a restart (the comment at `seckill.lua:61` admits the
former).  Modelled elsewhere: window, ids and publication in Acceptance, the life of accept
records in SeckillQuery, cancellation in Trade.

## SeckillQuery

`SeckillQuery.tla` extends `Seckill` by one query per buyer: `Ask` begins `queryOrderById` or
`listMyOrders`, `Look` reads the next of its three places, and `AcceptTtl` lets an accept record
run out after 24 h.  By id, the rows come first, then the dead letters, then the accept
record; the list takes the rows, then the processing set, then the dead letters.  A worker
may move the order between any two of these reads.

* `MissedIsSettled`: "no such order" is answered for an accepted order only when its fate is
  already recorded, so the buyer who asks again finds it.  The query can be overtaken: it
  reads no row, the worker commits and clears the record, and the last read finds nothing.
* `NeverTakenBack`: asked by id again and again, an order moves from PROCESSING to FAILED to
  SUCCESS and never back, although row and dead letter may both exist.

`seckill_query` has 1 buyer, 2 JVMs, 2 units, limit 3 and 1 replay: two entries of one order,
so both JVMs hold the same buyer at once and pass an entry on twice, and a dead letter becomes
a row under the eyes of a query.  It also carries `RedisLedger` and `LockExcludes`, for which
failures would only be exceptions.  `SeckillQueryProofs` proves both properties of the queries
for all constants.  `QueriesOnlyRead` is the composition theorem: `SpecQ` implements `Spec`, so
what is proved of the pipeline holds beside the queries; `SaleRefinedCorrectQ` uses it for the
abstract sale, which this run checks because a dead letter is replayed in it.  `PipelineKept` carries the invariants of Seckill over, since a query step
is a stutter of it; `AnswerInv` says what a query that has passed a place without finding
the order still knows, and `ToldInv` that what was told is still true or surpassed.

## Acceptance

`Acceptance.tla` is the sale up to the stream.  `saved` is the voucher row, `key` the three Redis
keys, `publisher` and `script` the position of `addSeckillVoucher` (after its commit) and of the
rebuild script in their three SETs, either of which can stop anywhere.  A request
compares the row's window with a clock, reads a clock again and draws from the counter of the
day (`RedisIdWorker`), and runs the script.  Clocks are arbitrary at every reading.  Times of
the window are kept as they are; the code converts them to epoch seconds by the zone of the
JVM, and no property depends on that.

* `UniqueIds`: no two requests get one id.  The clock is read before the counter is drawn, so
  midnight, or another JVM's clock, may lie between the two.
* `OversoldOnlyByOpenRun`: a sale published by half and rebuilt accepts no more buyers than
  units, because stock is written before the window that opens it.  The exception is real: a
  script that reads the stock of a sale that is open, or just being published, can set it
  back, and then Redis accepts more than there is.  MySQL's conditional decrement still
  sells no more (`SaleRefined`).
* `LifeRefined`: seen from here an order enters its life once, while stock is left, with an id
  that is nobody else's; a lost answer or a second request of the buyer gives no second one.

`acceptance`: 2 buyers, 2 requests, 1 unit, 3 clock values over 2 days, 2 ids a day, 1
fault, so that two requests meet on either side of midnight and both writers are under way
at once.  Proved for all constants: `Sequenced` and `Covered` (the window is set only after the
stock; unsold units plus buyers never exceed the stock) and the invariant that ids drawn
come from numbers at or below the day's counter.  `LifeRefinedCorrect` needs both: `UniqueIds`
for the id, `Covered` for the unit.  The assumptions: the counter stays below
`Radix` (2^32) in a day, and Redis keeps its key.

## Trade

`Trade.tla` starts where the abstract sale ends: `Accept` and `Persist` are buying reduced to
its two counters, everything else is the trade package at the grain of its database calls.
A buyer has at most one order, so orders are named by their buyers.

* A request is at `read`, `update` or `reread`, the three database calls of `payOrder`,
  `cancelOrder` and `redeemOrder`; `From` and `To` give the condition and the new status of
  each conditional update.  An idle request keeps its last answer, so that properties can
  speak of what clients were told.  The second read of `redeemOrder` is inside its
  transaction and sees the snapshot of the first (MySQL's default isolation).
* A scheduling thread runs either the timeout job (`close`) or the outbox worker (`apply`,
  `mark`), with a batch of bounded size, oldest first.  `CancelTx` is the transaction of
  `cancelUnpaidOrder`: status, MySQL stock and outbox row together.  `Lua` is
  `stock_release.lua`.  `Fault` lets a call fail before or after its effect, and `Halt` ends
  the thread's JVM.
* `due` says how many of the rows are older than 15 minutes.

| Property | What it rules out |
|---|---|
| `StockBalance` | a unit made or lost between sale, row, cancellation, outbox and Redis |
| `AnswersTrue` | an answer that a later or concurrent step contradicts |
| `NoneForgotten` | a cancelled order whose unit is not in Redis and whose outbox row nobody looks at any more |
| `LifeRefined` | an order paid after it was cancelled or cancelled after it was paid, a unit returned twice, a unit sold while it is held |
| `Closed` | an order left unpaid for ever |
| `Returned` | a cancelled unit that never comes back, an outbox row never marked |

| Run | Instance | Why it is enough |
|---|---|---|
| `trade` | 2 buyers, 1 unit, 2 requests, 2 threads, batches of 2, 2 faults | any two of payment, owner's cancel, timeout, redemption and the two workers meet on one order; the unit comes back and is sold to the other buyer, whose order goes the same way |
| `trade_live` | 2 buyers, 2 units, 1 request, 1 thread, batches of 1, 1 fault | two rows compete for a batch of one and a call fails |
| `trade_redeem` (violation) | 1 buyer, 2 requests | see Findings |

Fairness: time passes, a thread finishes the batch it has, and each of its two jobs is
started again and again (strong fairness: Spring runs both with a fixed delay on one
thread, so one is disabled while the other runs).  Clients need not do anything.

### Proofs of Trade

`TradeProofs` proves, for any number of orders, requests, JVMs and faults, from
`TradeAssumption` (types of the constants, finitely many buyers):

* `TypeCorrect`.  `TypeInv` adds that a request under way is about an order.  Every step is
  one of `Transacts`, `Marks`, `Releases`, `Nothing`, or buying (`StepEffect`); the later
  proofs split on these instead of on the actions.
* `StockBalanceCorrect`.  `InStep` says that a row belongs to an accepted buyer, an event to a
  cancelled order, and that released orders and the batch of a releasing thread are
  cancelled ones.  Without the last part a thread could release an order that still holds
  its unit.
* `AnswersTrueCorrect`.  `Bounded` gives, for a request at each point of its handler and for
  each answer, the statuses its order can have.  The statuses only move forward
  (`StatusMoves`), and each bound is closed under these moves (`HonestStays`); so the status
  that the first read saw still constrains the second one, and a refusal after a lost race
  is as final as one after the first read.  An order that is used is audited (`Audited`).
* `NoneForgottenCorrect`.  The property is not inductive: `OwedInv` adds that a thread at `mark`
  has had the script run for the event it marks (`ScriptRan`).  Threads take the oldest event
  of their batch, which is one event because outbox ids are unique (`Ranked`); and whatever
  another worker does meanwhile, no released event becomes unreleased.
* `LifeRefinedCorrect`.  `Staged` gives the stage of an order from its row; a conditional update
  is a move because its condition is the stage it leaves, and `Accept` is a `Take` because
  `StockBalance` turns a unit in Redis into one that no order holds.

`Closed` and `Returned` are liveness and only model-checked.

Left out: the checks of owner, role and shop, which only reject; the payment client, which
always succeeds; dead-lettered orders, which stay accepted without a row and so keep their
unit off sale.

## ShopCache

`ShopCache.tla` is the display cache of one shop.  The row is a version number, 0 for no row;
`cache` is nothing, the empty marker, or a version with its logical expiry; `lock` holds the
token of a reader, of a slot of the rebuild pool, or of nobody (`Orphan`: a rebuild that the
pool rejected, or a SETNX whose answer was lost).

| `reader.pc` | code (`utils/CacheClient.java`) |
|---|---|
| `hit`, `rehit` | `handleHit` with an expired value, from the first read or from the retry |
| `lock`, `recheck`, `load`, `fill`, `release` | `loadOnMiss` |
| `wait` | `waitAndRetryAfterMiss` |
| `only`, `lockedOnly` | `loadFromDbOnly`, without and with the lock |

A slot is `queued`, `write` or `release` (`rebuildAsync`).  `Update` commits and `Invalidate` is the
deletion after the commit.  Calls fail, leases run out under a late holder (`Outlive`), and a
JVM dies with any set of its requests, rebuilds and deletions (`Crash`).

* `SingleFlight`: one owner loads or rebuilds at a time; a holder that outlived its lock does
  not free that of its successor.
* `NeverOlder`: no older version is written over a newer one, although an update commits and
  deletes the key between a loader's read of MySQL and its write.  The code has no version
  check; it is the lock that orders the loads and thereby the writes.  `outlived` records that
  a lease ran out under its holder, whose late write can do just that (dropping the exception
  makes TLC find it); a ghost variable, which no action reads.
* `NeverMissing`: a shop with a row is never answered as missing, whatever fails.
* `Converged`: as long as somebody keeps reading, the cache ends up with the last update,
  though a deletion failed, an old rebuild wrote over it, the pool was full or a holder died.

`shop`: 2 readers, 1 slot, 3 versions, 2 faults.  With one slot the pool is full whenever it
works; three versions leave an update before and after a rebuild.  Fairness: threads and
the pool go on, pending deletions are made, TTLs run out.  Nobody has to read, and
`Converged` says only what follows when somebody does.  `ShopCacheProofs` proves `SingleFlight`
(`LockInv`: the lock, if it has not lapsed, belongs to whoever is in the section),
`NeverMissing` (`Present`: a shop once saved leaves no empty hand) and `NeverOlder` for all constants.
The last needs `AgeInv`: a version on its way to the cache is at most that of the row and, while
no lease was outlived, at least that of the cache.  A read of MySQL establishes it, an
update only raises the row, and a write keeps it for the others because by `LockInv` there
are none (`WritesAlone`).

Two observations.  When `tryLock` throws in `handleHit` or `loadOnMiss` the exception leaves the
reader as an error although MySQL is up; only the retry has a catch.  And the branch for
corrupt cached data cannot be reached, since every write is made by the same class.

## Social

`Social.tla` is one author's notes and the fans around them.  A request is one handler at the
grain of its calls: like and unlike (`BlogServiceImpl.likeBlog`, MySQL first, then the set),
follow and unfollow (`FollowServiceImpl`), `saveBlog` with its fan-out, one push at a time.

Scrolling is the page `info.html` and the handler it asks.  `client` is the page: `params`
(`max` and `os` for `minTime` and `offset`) and its list.  `get` is the requests under way, as
`axios.get` sends them: nothing waits for the one before.

| action | code |
|---|---|
| `Refresh` | `queryBlogsOfFollow(true)`: the parameters are reset at once, the list only by the answer |
| `Scroll` | `onScroll` at the bottom: the next page, with whatever parameters there are |
| `Answer` | `BlogServiceImpl.queryBlogOfFollow`: one ZREVRANGEBYSCORE, and the place it ends at |
| `Apply` | `.then`: the page replaces the list or is appended, and its place becomes the parameters |
| `Lose` | `.catch`: logged, and the parameters stay as they are |

No two clocks agree: each push is stamped with any time, and the page starts from any time.
A note newer than the clock of the browser is not in the list, and comes with a later refresh.

What a list owes its reader is `due`: all that the inbox held up to `minTime` when the list was
begun.  The code does not keep that promise in every case, and `amiss` says which of four
things befell a list.  These are what the code does, not what the model leaves out:

* `doubled`: `isReachBottom` is reset by any scroll away from the bottom, so a second request
  with the same parameters can be sent before the first is answered.  Both pages are appended,
  and the notes are shown twice.  Nothing is skipped.
* `mixed`: a page that crosses a refresh is appended to the new list, and its place replaces
  the new one; notes can be missed.  The same follows a refresh that fails or finds nothing:
  the list is the old one and the parameters are not.
* `tied`: a page that begins and ends in one millisecond.  The offset counts the times on the
  page at hand only, so the next page starts too high and notes are repeated.  Two such notes
  at the end of an inbox are enough.  A place that is too high skips nothing.  The mark is
  also set when a note comes in the millisecond of another after the list was begun.
* `moved`: a note that is pushed again, for a second follow row, gets a new time.

The properties say that nothing else goes wrong:

* `LikesDrift`: the counter strays from the set of likers by at most one for each request that
  met another of the same user, and for each failed call; users never disturb each other.
* `FollowedIsShared`: whoever has a follow row is in the set of common follows, nothing of
  theirs being under way and no call having failed, in whatever order requests cross.
* `NeverSkips`: a list goes on below nothing that is due, unless it is `moved` or `mixed`.  Late
  notes with older times, equal times and pages asked for twice do not change that.
* `NeverRepeats`: a list that is none of the four shows no note twice.  Equal times that were
  there when the list was begun are covered as long as no page begins and ends in one.

`social`: 2 fans, one of whom follows, likes and scrolls; 2 requests, 2 GETs, pages of 2, a
backlog of 3 (so that there is a second page), 2 operations, the times 1 and 6, 1 fault.  Two
GETs are enough for a page to cross another or a refresh.  Time 6 is that of the newest note of
the backlog and 1 is below them all, so a push ties with a note or comes late, and a browser is
ahead of its inbox or behind it.  Two operations let a like meet another, a follow an unfollow,
and two publications their fan-outs; since the fan likes the note at the start, the first
request can be the withdrawal.

`SocialProofs` proves all five properties for all constants: `LikesDrift` with `DriftInv`, the same
bound with the requests in flight counted in; `FollowedIsShared` with `ShareInv`; the two about
the list with `PageInv`.  A place (`max`, `os`) tells the items above it from those below.  The
invariant says what a place is good for, what is due is below (`GoesOn`) and what was shown is
above (`Exact`), and says it of the place of the list, of the place every request on its way asks
from (`SentOK`), and of the list that each answer on its way would leave (`GetOK`).  It has to
be so wide because the answers come in any order.  That a page shows exactly the items between
two places is a fact about ZREVRANGEBYSCORE with its offset, proved by counting the items
before one (`Rank`).

Two more observations.  Unfollowing gives SREM a `Long`, which the string serializer refuses with
a `ClassCastException`, so the member stays in the set; `FollowedIsShared` is the direction
that holds nevertheless.  Two rows for one follow, which crossing requests can make, push a
note twice.

## Session

`Session.tla` is the login of one phone number and its sessions: the keys of the captcha, its
rate limit and the failure counter, the account row, the token hashes, and for each thread
its request and the user in its `UserHolder`.

| `thread.pc` | code |
|---|---|
| `send` | `sendCode` after SET NX of the limit |
| `compare`, `incr`, `expire` | `login`: the captcha, the failure counter and its TTL |
| `consume`, `reset`, `select`, `create`, `put`, `live` | `login` with the right captcha, up to the token's TTL |
| `refresh`, `gate`, `delete` | `RefreshTokenInterceptor`, `LoginInterceptor`, `logout` |

A key with a TTL may expire at any moment.  Rejected requests change nothing and are no
steps.  A call that throws after its effect is the effect followed by a throw at the next
call.  Spring calls `afterCompletion` only for interceptors whose `preHandle` returned, so a
refresh that throws leaves its user in the `ThreadLocal` (`Throw`).

* `FailuresBounded`: the counter is read long before it is raised, but logins that pass it
  together raise it above the limit by less than their number.
* `CaptchaOnce`: a captcha buys a second token only for logins that both compared it before
  either deleted it (`met`), at most one for each thread, and none once a login was answered,
  though `sendCode` and other logins use the same key.
* `SessionsEnd`: a session that its user knows has a TTL, and one that was logged out of does
  not come back through a request that had read it.
* `ActsAsItself`: as long as no call failed, a request acts as the user of its own token or as
  nobody, though threads are reused.
* `LockoutLifts`: logins closed by failures open again, unless a call failed.

`session`: 2 threads, limit 1, 2 captchas, 3 tokens, 1 fault, fairness.  Two threads can compare
one captcha, pass the counter together, and refresh while the other logs out; two captchas
let a login meet the one that `sendCode` stored meanwhile.  With limit 1 the first failure
closes the login, and the second thread, which passed before, still exceeds it.  `MaxTokens` blocks only the last of
four logins.  Fairness: threads go on, since their calls have time limits, and Redis expires
the counter.  `SessionProofs` proves the four safety properties for all constants, by
`FailuresInv` (failures plus threads about to raise them), `OnceInv` (tokens answered for a
captcha plus logins under way with it) over `CaptchaInv`, `EndInv` and `HolderInv`.
`LockoutLifts` is liveness and only model-checked.

What the first two properties allow contradicts the documentation.  `src/docs/AUTH-BOUNDARIES.md:40`
calls a captcha good for one use, and the comment at `service/impl/UserServiceImpl.java:96` says that
it is consumed so that it cannot be reused.  GET, comparison and DEL are three steps, and
nobody asks what DEL removed: two logins that compare before either deletes are both answered
with a token.  And line 42 of the same document allows 5 failures in 10 minutes, which
logins in parallel exceed.  `CaptchaOnce` and `FailuresBounded` say how far each goes, which is
what the code keeps; no run states the two sentences themselves.

Both exceptions of the last two properties are real.  A renewal that throws leaves a user
behind for the next request of the thread, though `src/docs/PHASE1-LOGIN.md:9` says that the
holder must be empty after a request.  And when the EXPIRE after the first failure is lost,
the counter has no TTL; once it reaches the limit, nothing lowers it.

## Findings

* `PersistedIsSuccess` is violated.  The delivery limit is tested before MySQL is asked, so
  an order whose row is committed but not acknowledged becomes a dead letter once it was
  handed over often enough, where `src/docs/SECKILL.md:146` says success and ACK.  The query
  looks at rows first and still answers SUCCESS.
* `ForeignIsNotHidden` is violated.  The claim scan takes a window of the whole group and
  filters afterwards, so a window of own entries hides idle ones of others, contrary to the
  comment at `seckill/SeckillOrderStreamConsumer.java:216`.
* `RedeemIsIdempotent` is violated.  The loser of two concurrent redemptions re-reads its
  own snapshot and answers failure, where `src/docs/TRADE-FLOW.md:46` says success.

## Proved and only model-checked

Proved by TLAPS for every value of the constants, from the named ASSUME of each module: type
correctness, every safety invariant and action property of the passing runs, and the
refinements of the two abstract specifications.  `MaxFaults`, `MaxVersion` and the other bounds
are constants too, so the theorems hold without them.

Only model-checked: the liveness properties `Drained`, `Closed`, `Returned`, `Converged` and `LockoutLifts`,
since liveness under fairness is out of the prover's reach; and the refuted properties.

## Not modelled

* Sign-in: `sign` sets one bit and `signCount` reads one reply, so nothing interleaves.
* Shop types: a read, and a fill on a miss.  Two first readers can both push the list, which
  is listed as a hazard; nothing in the repository says what should hold instead.
* Metrics and ops snapshot: counters that no other part reads back.
* Privileges: pure checks of the request and the role.
* `SimpleRedisLock`: used by no class.
* Read-only queries, upload, configuration: input, output and wiring.
* Frontend: nearly all of its JavaScript is vendored (Vue with 10,947 lines, Element, axios).
  `common.js` adds the token and formats prices, `footer.js` is a menu.  The one page that keeps
  state across requests, the scroll of `info.html`, is in Social.
* Benchmarks, start and warm-up scripts: shell glue.

## Running

`tlc -config MCSeckill_sale.cfg MCSeckill`, likewise for the other configurations;
`tlapm SeckillSafetyProofs.tla`, likewise for the other proof modules.  `PROJECT.json` lists
the runs with their expected outcome, the mutants that show each property can fail, and for
every definition the lines it models.
