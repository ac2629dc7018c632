# Verification of the Gainium trading engine

TLA+ models of the parts of this repository whose correctness depends on the
order in which things happen, the TLC runs that check them on small instances,
and theorems about them that TLAPS checks for every value of the constants.
`bot/main.ts` stands for `src/src/bot/main.ts`, and so on; the spec numbers in
comments are those of `src/specs/`.

## The system

Gainium runs trading bots for many users. It is a set of Node.js services that
share mongo, redis and a message broker and talk to exchanges ("venues")
through a separate connector.

| Component | State it keeps | Operations | What must hold |
|---|---|---|---|
| keyed mutex `utils/mutex.ts` | the holders and the queue of each key | lock, release, clear, `IdMute` | exclusion up to the capacity, no lost wake-up, service in order, no leaked key |
| order lifecycle `bot/main.ts`, `sharedStream.ts`, `staleExecutionReport.ts` | map of orders, stored rows, placements in flight, running look-ups, report queue, routes | place, cancel, ask the venue, take in reports, stop | no order at the venue the bot does not know, no fill lost, nothing written off that lives, state only moves forward |
| order batcher `bot/openOrderBatcher.ts`, exchange client `exchange/exchange.ts` | the orders of a burst and where each stands | send, bail, settled, flush, deliver, dispose; openOrder, openOrdersBatch | no order is placed twice, every caller is answered, answers are worked on one at a time |
| funding lock `bot/fundingLock.ts`, `fundingReservation.ts` | a leased token in redis, reservations | run, renew, release; reserve, claim | one holder acts on an account; a hung holder frees it; reservations never exceed the balance |
| balance limiter `exchange/balanceLimiter.ts` | stored result, generation, lease in redis, reads in flight | read, settle, wait, invalidate | no answer older than an invalidation it follows |
| stream watchdog `streamWatchdog/` | incident record, set of active incidents | tick, catch-rate tick, apply | each incident escalates once, in order, and is cleared |
| retry backoff and guards `bot/retryBackoff.ts` and five guards | a widening window per key in redis | record, check, clear | windows widen and end; a failing store lets orders through |
| bot orchestrator and workers `bot/index.ts`, `bot/worker/botService.ts` | bots, workers, pending calls | create, call, delete, exchange update, worker exit | a bot exists once; a call is answered or times out; no bot is lost with its worker |
| DCA deals `bot/dcaHelper.ts`; combo, grid, hedge | the deals, their orders, the keys of the closing methods | open, fill, close, stop, the controller's limit | one close per deal, coins stay covered by orders, every call returns |
| fill failsafe `fillFailsafe/` | registry of watched orders | register, sweep, probe, confirm | a fill the stream lost is delivered once |
| cold archive `archive/` | rows in mongo, the cold store, or both | archive, reconcile, rehydrate | a row is in at least one place at every crash point |
| broker RPC `db/rabbit.ts` | pending requests by correlation id | send, answer, time out | a late answer reaches no one, an early one is not lost |
| indicators `indicators/` | subscriptions and their reference counts | subscribe, unsubscribe | a room lives while someone listens |
| large account controls, backtest, API server, database access, cron, CLI | little of their own | queue a backtest, serve a request, scheduled jobs | not modelled, see `PROJECT.json` |

How they meet: a signal, a price or a user's request reaches a bot through the
orchestrator; the bot places and cancels orders through the exchange client;
the user stream's reports come back through redis (`SharedStream`) and change
the same rows; deal code awaits in the middle of every one of these, and the
keyed mutex is what keeps two continuations of one deal apart. Everything hard
here is of that shape: state read before an `await` and used after it, answers
that come late or never, reports that overtake them, restarts between two writes.

## Plan

1. `IdMutex` (done): every other lock of the system is built from it.
2. `OrderLifecycle` (done for one order of a running bot; see "Not modelled").
3. `FundingLock` and `AccountFunding` (done for hedge legs).
4. `OrderClient` and `OpenOrderBatcher` (done): the concurrency of sending.
5. `DealCalls` and `DealLifecycle` (done for DCA deals): placing, closing and
   stopping over the keyed mutex.
6. `ColdStore`, `ColdArchiver`, `ColdRehydrator`, `ColdArchive` (done).
7. `StreamWatchdog`, `RetryBackoff`, `BalanceLimiter`, `SharedStream`: escalation,
   cooldown, shared reads.
8. The rest of the order lifecycle (sibling re-sends, teardown retries, restart
   and reconcile), orchestrator and workers, fill failsafe, broker RPC.

Runs per module: two or three actors, two keys or orders, one fault of each
kind; worlds that ask the same question share a run. Theorems still to come:
`NoLostFill` and `NoOrphan` for any size of order; `CoveredOnceOpen` and
`NeverOversold` for any deals with one safety order.

## The keyed mutex

`KeyedLock` is the abstract specification: callers that are outside, waiting,
inside or lost, at most `Capacity` of them inside a key. `IdMutex` translates
`utils/mutex.ts`: the map of entries `{queue, locked, current}`, `LockTaken`
and `LockQueued` for the two ways through `lock`, `ReleaseToWaiter` and
`ReleaseLast` for `release`, `Clear` for `clear(id)`, and `FixedPush` for
`getFixedArray`, which drops its newest waiter when it is full. A call is one
call of a method under `@IdMute`. `lock` and `release` have no `await`: each is
one step. The history variable `stale` holds the keys that were cleared under a
holder, for which exclusion is not claimed until the holder is gone. The lock
timer is left out: no construction site passes one.

| Run | Instance | What it shows |
|---|---|---|
| `mutex_clear` | capacity 2, keys cleared under their holders, queues of 0 (unbounded), 1, 2 | `TypeOK`, `MutualExclusion`, `NoLostWakeup`, `NoLeakedEntry` |
| `mutex_bounded` | plain (capacity 1), queues unbounded or of 2 | it implements `KeyedLock`, `NoOvertaking`, `WaiterServed` (or pushed out of a full queue), `FirstInLineServed` |

Four calls over two keys: enough for a holder, a full queue of two and a caller
that is pushed out of it, and for a key that is cleared while another is busy.

Fairness: weak fairness of `Release` only. A section that never ends is a bug
of its caller; that a woken waiter runs is part of the release itself, which
resolves the waiter's promise. No fairness of new calls or of `clear`.

Proved in `IdMutexProofs` for any finite set of calls, any keys, capacity and
queue bound: `TypeCorrect`, `ExclusionHolds`, `NoLostWakeupHolds`,
`NoLeakedEntryHolds`, `OrderKept` and `Implementation` (the safety part of the
refinement, where nobody clears). The inductive invariant is the conjunction of
the type invariant, `QueueIsWaiters` (the queue of an entry holds exactly the
calls that wait for it, each once), `EntryBooks` (an entry is locked exactly
when its count says so, and only a locked one has waiters) and `CountIsHolders`
(the count is the number of calls inside). Exclusion alone is not inductive: a
release hands its place on without touching the count, so one has to know that
the queue holds only calls that wait. Liveness stays with TLC.

## The order lifecycle

One order of one bot, by its client order id: orders share nothing but the fact
that the map is not empty (`others`). Rows are JavaScript objects and the races
are about who holds which object, so rows live in a heap and the map,
placement, cancels and ladder hold references.

| Module | Code | Content |
|---|---|---|
| `OrderBook` | `setOrder`, `deleteOrder`, `updateOrderOnDb`, `saveOrderToDb`, `deleteOrderFromDb`, `adoptExchangeOrderId`, `writeOffStatus`, `awaitPlacementInFlight`, `_handleUnknownOrder` | one operator per call, an expression over the row map, heap and stored row |
| `OrderPlacement` | `sendOrderToExchange`, `beginPlacement`, `cancelOrphanedPlacement` | write-ahead row, guards, send, accepted, refused, re-sent, lost |
| `OrderLadder` | `_runUnknownOrderLadder`, `resolveNeverPlacedOrder` | rounds, waits, searches, write-off, what the venue describes |
| `OrderCancel` | `cancelOrderOnExchange` | wait, search, send, confirmed, unknown, refused |
| `OrderReports` | `SharedStream.redisCb`, `accountCallback`, `processOrderQueue`, `convertExecutionReportToOrder` | routing, the queue sorted by time (a set, of which the earliest report is next), stale reports |
| `OrderVenue` | external | what an exchange and its stream may do |
| `OrderLifecycle` | `clearClassProperties` and all of the above | composition, fairness, properties |
| `OrderLifecycleProofs` | | theorems |

Every `await` that another actor can interleave with is a value of a `pc`; code
between two awaits is one action. Awaits of pure conversions and of caches are
merged with the step they belong to, and a database call takes effect with the
step that issues it (mongo keeps one connection's writes to a row in order).

What a run supposes of the venue is a *world*, a record chosen in `Init` from
the constant `Worlds` and kept in the frozen variable `terms`: whether orders
are addressed by exchange id (`byId`), whether a search by client id reads only
the open orders (`openOnly`), how many look-ups fail for transport (`lookups`),
how often a refused placement is sent again (`resends`), and a set of `faults`:
"lost" answers, "reordered" reports, a "lagging" venue that denies an order it
has just taken on, "understated" cancel answers, look-up answers that are
"overtaking"-prone (the order changes while the answer travels), and "stop".

| Run | Worlds | Shows |
|---|---|---|
| `order_safety` | by client id {lost, reordered}; by exchange id {lost, stop}; by exchange id with a re-send {reordered, understated} | `TypeOK`, `NoOrphan`, `NoLostFill`, `NoWriteOffInFlight`, `RefusedIsRetired`, `ExecutedGrows`, `FilledIsFinal` |
| `order_ends` | by exchange id with a re-send {lost, lagging} | `PlacementEnds`, `CancelEnds`; `KeptUnlessCancelled` |

Bounds: one order of size 2 (a part-fill and a fill; 1 in `order_ends`), one
cancel, five row objects, which is one per reference plus one being written, so
that allocation never fails; two rounds of the ladder instead of five (one that
says nothing and one that does; one in `order_ends`), one failing look-up. With
as many failures as rounds the ladder writes a live order off by design;
`KeptUnlessCancelled` therefore speaks of orders nobody cancels, and the safety
worlds keep `lookups` below `MaxAttempts`. `order_safety` has 2.8 million
states, the largest run.

An order whose amount rounds to zero quote is refused on its first send only: a
re-send carries the same amount, and is refused otherwise only if the symbol's
precision changes in between, which `PlaceZeroQuote` leaves out.

Fairness in `order_ends`: every continuation the event loop can run is run,
every request to the venue is answered (the HTTP client times out), reports are
delivered. Nothing forces the venue to trade, accept an order or a cancel to
begin.

What the bot knows of the executed quantity never shrinks, with one exception
the code makes on purpose: `executionReportRewindsOrder`
(`staleExecutionReport.ts:59`) drops a stale report that is final or new, and lets
an older part-fill through (`main.ts:7023`). `ExecutedGrows` names that step
(`OlderPartFill`) and forbids every other; `NoLostFill` does not speak of worlds
where reports come out of order, in which the older part-fill may be the last
report. Spec 090 (§1.1) promises that no older report is replayed over a newer
row; in `Pieces`, the worlds for an order of size 3, TLC shows that one is.

### Known limits of the code

`MCOrderLifecycle` keeps the worlds in which the code does not have these
properties; no run uses them, and `order_safety` leaves them out.

* `Lagging`: a placement that lost its answer joins a ladder a cancel started.
  That ladder does not know the order was just placed, so a venue that denies an
  order it has just taken on makes it write a live order off (`NoOrphan`).
* `Overtaking`: the ladder writes the status of a look-up answer over a row that
  became FILLED while the answer travelled (`FilledIsFinal`).
* `Repaired`, with two cancels and orders of size 1: a refused placement sleeps
  before its re-send; a cancel's ladder finds nothing at the venue and retires the
  row as CANCELED. The re-send puts that row back into the map and the venue accepts
  it. The placement takes it for an orphan: it merges the answer over the row
  (`main.ts:10626`), awaits `cancelOrphanedPlacement` (`main.ts:10705`) and records
  the merge afterwards (`PlaceRepair`, then `PlaceAccepted` with `Merged`).
  Meanwhile the order fills, and a second cancel, which waited for the placement,
  is answered with the filled order and records it; the placement then puts
  CANCELED over the FILLED row of the map (`FilledIsFinal`), while spec 114 (§1.1)
  says that a status only moves forward. With one cancel, as in `order_safety`,
  nobody is left to record the fill in between.
* `OpenOnly`: where a search by client id reads only the open orders, an order
  that filled at once and lost its answer is written off (`NoLostFill`).
* An accepted answer that is taken up after the order was acknowledged by the
  stream and cancelled sets a live row into the map again (`main.ts:10486`).
* A cancel of an order that was retired while it was being placed is refused by
  the venue and only logged (`main.ts:1757`).

### Not modelled of orders

Re-sends under a sibling id, delayed quant-rule retries, batches of placements
and cancels, retries of refused cancels (rate limits, teardown), market order
top-ups, liquidations, duplicate reports, fees, restart and reconcile. A lost
answer belongs to a request that landed or never will: a request that lands
after its client gave up is not modelled. When a re-sent placement that a cancel
retired loses its answer too, nothing repairs it; the third world of
`order_safety` has no lost answers for that reason.

## Funding on one account

A hedge leg that opens takes coins from an exchange account that other legs
open on too. What keeps them apart is a lock in redis, a lease that may be
lost, and the reservations in the stored deals, which outlive the lock.

| Module | Code | Content |
|---|---|---|
| `FundingLock` | `bot/fundingLock.ts`; `setNxPx`, `delIfValue` of `db/redis.ts` | the key with its holder's token (`holder`), where each call of `run` stands (`section`), and `lost`, the calls that know their lease is gone |
| `AccountFunding` | `fundHedgeLegEntry(Locked)`, `placeFundingTradeDetailed`, `resumeFundedEntry`, `startFundedDeal`, `syncFundingHold` and the funding part of `placeBaseOrder` in `bot/dcaHelper.ts`; `planHedgeLegDealFunding`; `reserved` | one action per await: read the balances, decide, hold or save the intent, send the trade, take its outcome, record, leave; then write the rows and place the orders |
| `FundingProofs`, `SolvencyProofs` | | theorems |

A call is named by its deal. `deals` are the stored documents (status, the
entry on paper, the hold, the intended trade), `work` is what a call holds in
memory and a crash erases, `trades` and `free` are the venue's. Refusals are
kept as in the code: one that a section decides on retires the deal inside the
lock (`Refuse`), one that is thrown, or a lock that is not had, outside of it
(`GiveUp`).

Time is left out: a clock may decide at any moment, which covers every value of
the lease, of its renewal and of the maximum of a section. What the durations
guarantee is kept as a guard: a key that is renewed does not expire, a key does
not expire between a positive ownership check and the write after it, and a
trade is over before the key of a process that died in it lapses.

| Run | Worlds | Shows |
|---|---|---|
| `funding_account` | crash and close; outage of redis; calls that hang | `TypeOK`, `Solvent`, `TradedOnce`, `LeaseKept`, `EveryDealDecided`, `LockFreed` |

`Solvent` adds up, over all deals, the trades under way, the backing of the
entries and what is held for orders that do not rest yet, and compares with
what the venue has: it relates five variables and takes two deals to violate.
It says nothing once a trade or an untraded record went on without the lease
(`strayed`): the code lets a trade that was sent run its course.

Bounds: two legs, each one of three shapes: base currency with the account's
share used first, base currency from the account alone, quote currency funded
as a whole; orders of one coin and safety orders of none or one; 2 base and 3
quote, so that any leg can be funded, and no two legs that need the same coins
can both be. The kinds of fault are not combined.

Fairness: the event loop runs every call that is not hung (weak), also after
the section (strong, because the model makes placing and planning of two legs
take turns there, see below); a trade is answered; a section that hangs is
noticed by its heartbeat; and a lease that nobody renews expires. No process is
obliged to crash, and none to stay up: `EveryDealDecided` excuses a deal whose
process dies again and again, and one whose call hangs.

### Where the code and its own documentation disagree

* `funding_overlap` (world "placing"): the balances are read before the
  reservations, and orders are placed outside the lock. A leg whose base order
  reaches the venue, and whose hold goes down, between the two reads is in
  neither of them; the next leg is funded with coins that are gone. All other
  runs make the two take turns (`Calm`).
### Not modelled of funding

Deals that a bot funds for itself (`fundShortSpotEntry`), added safety orders,
trades that fill in part or after their time is up, tolerance, fees and the
headroom for prices, the orders a combo bot adds, a held leg that is cancelled
between its decision and its base order (`dcaHelper.ts:22160`, sent without a
look at the deal), balances kept by the limiter (`main.ts:5919`), the reservation
cache of readers that do not lock, and crashes after the rows of
the orders are written (the restart of `OrderLifecycle`).

## Sending orders in bursts

The orders of a deal's ladder are prepared at the same time and may share venue
calls. `OrderClient` is the exchange client: `openOrder` sends, asks the venue
when the answer says nothing and re-sends only what the venue denies;
`openOrdersBatch` sends several in one call and falls back to `openOrder`, order
by order. `OpenOrderBatcher` is the burst: one action per `await` of
`openOrderBatcher.ts` and of the placement bodies around it, the two timers, and
`installOpenBatcher` / `removeOpenBatcher` of `bot/main.ts`, where two deals of
one bot share a single place for a batcher.

| Run | Worlds | Shows |
|---|---|---|
| `open_burst` | lost answers; declined batches and throwing calls; a body that hangs, with timers; a burst of a second deal on top of the first | `TypeOK`, `VenueAgrees`, `OneAtATime`, `BurstReturns` |

Bounds: a burst of three orders in chunks of two, so that one chunk travels as
a batch and one alone, and a burst of two; one re-send. 110 thousand states.

`VenueAgrees` relates what the engine was told to what the venue holds. It
rests on the supposition the code states at `exchange.ts:826` ("the send
genuinely did not land"): once the venue has denied an order, an earlier send of
it does not arrive any more; a delay before the re-send makes it likely. `OneAtATime` does not speak of bursts a timer cut loose or whose place
another deal took (`main.ts:9033`): their orders are sent one by one and answered
alongside each other, by design of the timers and by the shared place.

Fairness: calls answer or give up, timers fire, and a body goes on unless the
world says that it hangs. Not modelled: retries of a body after a refusal
(`count > 0`), which call `openOrder` again outside the burst.

## DCA deals

`DealCalls` is the machinery: a call is a stack of frames, a frame of an
`@IdMute` method asks for its key when it is pushed and returns it when it is
popped. The line of a key is the sequence of its holder and waiters, which is
what `IdMutex` was shown to provide for keys of capacity one. `DealLifecycle`
translates the methods, one action per `await`: `startDeal`, `placeOrders`,
`updateDeal`, `closeDeal`, `closeDealById`, `processDealClose`, `openNewDeal`,
`stop` and the check of the bot controller's limit. A deal has a status in memory
and one in the database, a base order, safety orders, a take profit and its size,
and counts of what was booked. Its coins are told three times, as in the code:
what the account holds (`coins`), what the deal's ledger says (`currentBalances`,
`ledger`), and what the rows of its filled orders say (`Size`, from which take
profits and closes are sized). The properties compare the three.

A safety order that fills is booked by `updateDeal`, which then waits for the key
of the deal to put a larger take profit in the place of the resting one. The take
profit may fill meanwhile, the deal may close and leave memory, or a close
request may sweep the order: each has its own sale of what remains
(`CloseDealMeasures` before the deal is closed, `CloseDealBooks` after it,
`LevelSells` for a fill that comes too late), and no coin may be sold by two.

| Run | Worlds | Shows |
|---|---|---|
| `deals_close` | limit met while another deal starts, or is open; close, cancel and stop of a deal that fills; a refused close; a flat position; signals at once and what they open; a close of a deal that starts and fills; stops that cancel starting deals, with a late signal; a safety order that fills while the deal's take profit fills, while it starts, is closed by request or stopped | `TypeOK`, `BookedOnce`, `NeverOversold`, `WithinMax`, `CoveredOnceOpen`, `StopEndsStarts`, `CallsReturn`, `LimitStops` |
| `deals_deadlock` | a cancel of a starting deal while the limit is met | `CallsReturn` fails |
| `deals_stranded` | the limit is met while a base order fills | `Covered` fails |

Bounds: three deals, one safety order and at most three requests of a kind in a
world: one deal that closes, one that starts or stays, one that may still be
opened. 118 thousand states.

Fairness: one weak fairness over the steps of all calls and reports: the event
loop never idles while a continuation is ready, and every call to the venue
answers. Requests and fills are under no obligation. `Turn` states what the event
loop guarantees besides: between the row of a filled safety order and the first
statement of its `updateDeal` lie only continuations that are ready at once, so
that, when the key is free, the fill is booked before a call that waits for the
venue or the database goes on.

`BookedOnce` speaks of bots nobody cancels a deal of, and on which nothing stops
the deals that start (`MayCancel`). `WithinMax` speaks of bots whose deals are past
their start, and of those that only take signals: a deal that is closed while it
starts leaves its place to another and may open all the same. `SafetyOrders` are
not named like another call and a world keeps to its own limit
(`SafetyOrdersAssumption`, `WorldsAssumption`, which TLC evaluates).

Where the code and its documentation disagree: `deals_deadlock` closes a cycle
between the key of a deal and the key of `processDealClose`, which spec 202 set
out to exclude and which is left for calls that reach the release from a deal's
own key. `deals_stranded`: a stop that leaves its deals cancels those that start
one by one, and takes an order that filled meanwhile for one that did not.
`CoveredOnceOpen` is what holds: no deal of the world starts, nobody cancels.

Known limits without a run. A cancel of a deal whose profit was booked books it
again (`dcaHelper.ts:7914`; `BookedOnce` does not speak of bots with a cancel).
A deal whose opening passed the check of `dcaHelper.ts:18441` before a stop began
stays open when the stop is over, against spec 202 §4.5. And three worlds of
`MCDealLifecycle` in which `NeverOversold` fails, against spec 112 §1.1.1 ("one
sale per filled order, so the deal ends holding nothing"):

- `TwoLevelsClose`: two safety orders fill while the user closes the deal. The
  update of the first waits for the key of the deal, which the close holds, and
  the update of the second for the update of the first. The close sells by the
  rows of both and the deal is closed; then the update of the second finds it
  closed and sells its coins again (`dcaHelper.ts:10460`).
- `TwoLevels`: the same when the enlarged take profit, sized by the rows of both,
  fills before the update of the first has returned.
- `ClosedTwice`: the take profit fills, then a safety order. The first is known when
  a close request sweeps, so the sweep finds the safety order only, and the request
  passes `closeSupersededByFill` while `closeDeal` still waits for its key or its
  first reads and has not set `pendingClose` (`dcaHelper.ts:3850`). The close order
  sells the rest, and so does the sweep of `closeDeal`.

These worlds need two names in `SafetyOrders` for the first two; they are kept
beside the passing ones to be run by hand.

Not modelled of deals: several take profits, stop losses and trailing, partial
fills, a sweep the venue refuses (spec 157), added and reduced funds, closes by
limit order, liquidation, combo and grid levels, the copies `saveDeal` makes of a
deal, restart (`checkOpenedDeals`), automatic reopening. The ladder is sent as one
step (the batcher's own module has the rest). Waiters of a key that is cleared
with its bot are lost, as in `IdMutex`. Repeated requests of one kind that the
code coalesces are one call.

## The cold archive

Old bots leave mongo for a cold store; a bot that is asked back is copied home.
Rows are numbers with a version, so that a stale copy is told from the last
content (`latest`, a history variable).

| Module | Code | Content |
|---|---|---|
| `ColdStore` | external store, `archive/coldClient.ts`, mongo | reads by page, inserts that replace, deletes, counts, deletes that were given up and arrive late |
| `ColdArchiver` | `archive/coldStoreArchiver.ts` | `copyVerifyDelete` page by page: read, insert, count, delete; then the flag |
| `ColdRehydrator` | `archive/coldStoreRehydrator.ts`, `setArchiveStatus` of `bot/index.ts` | look, enter, copy, verify, clear, collect, flip, with the set of running rehydrations |
| `ColdArchive` | `archive/coldStoreReconciler.ts`, the bot's own writes, start, stop and delete | the sweep, deletion of a bot, crashes, and the composition |
| `ColdArchiveProofs` | | theorems |

| Run | Worlds | Shows |
|---|---|---|
| `archive_moves` | failing and dying archivers and rehydrations; failing sweeps; cold copies a rehydration leaves; two requests at once; a late delete after one archive | `TypeOK`, `NothingLost`, `RoutedWhole`, `OrphansCollected` |
| `archive_swept` | a copy that is given up after a page, then the sweep | `NothingLost` fails |

Bounds: three orders, of which one is still to be written, one transaction,
pages of two (a full page, a short one, an empty one), two archives, two
mishaps: enough to fail once on the way out and once on the way home. 352
thousand states.

All worlds of `archive_moves` are `apart`: nobody writes, asks the bot back or
sweeps while the archiver is at work. The code does not ensure it. Nothing else
is kept apart: un-archive requests overlap one another, the sweep and a bot that
runs again. A request reads the flag once (`index.ts:8702`) and `rehydrateBot`
does not read it again, so a second request, or one that was busy with an earlier
bot of its list, may set out for a bot that a first one brought home and that has
been started and written since. In the third world, where copies and flags may fail
and processes die but the delete of the cold copies goes through, it does no
harm: by then the cold store has nothing to bring, or the first request is still
about to drop it and the bot is still archived (`Ahead` in the proofs).

`MCColdArchive` keeps the worlds in which the code does fail; `SafeWorld` of
`ColdArchive` leaves out just these, an `ASSUME` TLC evaluates says so, and no
run claims anything of them:

* `Together`: others work beside the archiver's job (`coldStoreArchiver.ts:239`):
  the bot's worker, an un-archive request, the sweep with flags it read before.
* `Misread`: a sweep that cannot read the flags takes every cold bot for an
  orphan (`coldStoreReconciler.ts:87`).
* `Delayed`: a delete without expiration arrives after the bot went cold again
  (`coldClient.ts:171`).
* `Unread`: a failed read of the flag skips the rehydration of a bot that is then
  opened (`index.ts:8708`).
* `Twice`: two requests saw the flag, and the first one's delete of the cold
  copies fails, which the code passes over as "harmless orphans"
  (`coldStoreRehydrator.ts:128`). The bot is started and updates a row; the second
  request finds the copies and upserts them over Mongo
  (`coldStoreRehydrator.ts:180`). `NothingLost` and `RoutedWhole` fail. A delete
  that arrives late leaves the copies for a while and does the same. This is a
  disagreement with the comment that no run of its own shows; with one request
  at a time the copies are harmless, as the first two worlds of the run show.

The removal of a deleted bot takes its rows from the cold store, then its orders
and its transactions from Mongo, then its document, each a call that may fail and
end the job before the next.

Fairness: the archiver's job, each request and the daily sweep go on: each of
their calls ends by its timeout (`COLD_STORE_RPC_TIMEOUT_MS`). Suppositions: an
insert that is acknowledged is durable and replaces the row of the same id; one
process archives (the sets of running jobs are per process); a bot is started
from closed only. Not modelled: `backfillArchivedBots` (no caller), the purge of
an account, reads of single rows, inserts that arrive late.

## Bots and workers: studied, not modelled

`bot/index.ts` hosts bots in worker threads and has no run yet. What reading it
shows, to be modelled next: a worker chosen for a new bot may be terminated by a
queued release of its last bot before the new bot is counted, and the bot is then
posted to a dead worker; creations in parallel overshoot a worker's limit; two
creations of a bot by different callers may host it twice; an exit between the
count and the entry in the list loses the bot; `botClosed` that crosses a
reopening removes the reopened bot; `callBotFunctionFromMeta` waits without a
timeout.

## What is proved and what is only checked

`IdMutexProofs`: the theorems of the section on the keyed mutex, from
`Keys`, `Procs` and `Limits` as the assumptions of `IdMutex` give them.

`FundingProofs`, for any number of legs, any shapes and balances and any
worlds: `TradedOnceHolds` and `LeaseKeptHolds`. `TradedOnce` is not inductive:
that a deal about to trade has not traded rests on what a restart finds in the
database. The invariant `IInv` is the conjunction of `Shape` (what each field
of a call's memory and of a deal may be) and `TradeInv`: a deal that may still
come to trade has not traded; one that has carries an entry, by which
`Restart` knows it; and a call that is to trade or record has a plan with an
entry. The step that matters is `Intend`, which stores the entry before
anything is sent. `LeaseKept` follows action by action from `Shape` alone.

`SolvencyProofs`, for any finite number of deals, any legs and balances:
`FundingTypeCorrect` in every world, and `SolventHolds` in the worlds without
"placing", in which `funding_overlap` shows that it fails. Both rest on `Course`:
what is stored of a deal at each step of its call (nothing before a plan is
stored, the plan from then on), and that a trade is only out while its call waits
for it or has died. `SolventInv` adds `Money`. That the account has what the deals
take (`Covered`) is not enough: a plan was made on balances and reservations that
were read a while before it is stored, so `Affords` says that the holder of the
key still has room for its plan beside what the others take. It is so because the
others can take nothing more in the meantime: a trade that is out is the holder's
(`Leased`), a deal whose rows are written has not placed yet (`RowsPlaced`), and
nobody places between the read of the balances and the decision (`Reading`).
`ReservedForOthers` is the lemma about the reservations: they are no less than
what the others take. A record that goes on without the key sets `strayed`, and
nothing is claimed from then on. A sum over deals is the cardinality of a set of
units (`Total`), because what a fold computes for every set cannot be proved here.

`OpenOrderBatcherProofs`, for any number of orders and bursts, any chunk size,
number of re-sends and worlds: `TypeCorrect`, `VenueAgreesHolds`,
`OneAtATimeHolds`. Neither property is inductive. `IInv` adds `Sent` (an order
whose send is still to come is not at the venue, and a verdict is final: this is
what makes a re-send and the fall-back of a batch safe), `Unsent` (orders of a
burst that has not called are nowhere), `Spans` (the chunk being sent, those
before it and those after it do not overlap) and `Orderly` (as long as no timer
cut the burst loose and its place was not taken, at most one body is past its
send, and it is the one the burst waits for).

`ColdArchiveProofs`, for any rows, page size, number of contents and of
requests: `TypeCorrect` in every world; `NothingLostHolds` and
`RoutedWholeHolds` in the worlds of `SafeWorld`, which every world of
`archive_moves` is (`WorldsAssumption` of `MCColdArchive`, which TLC evaluates).
A `SafeWorld` keeps others away from the archiver's job, has no failing read of
the flag or of the list of flags, no archive that breaks off where the sweep
runs, a late delete only after the last archive, and rehydrations that may leave
their cold copies only where one request asks at a time; each of these names a
limit above (the third is the run `archive_swept`), and without it TLC finds a
lost row. Nothing else is supposed of requests and of the bot: `Ahead` says what
a request that saw the flag may find, whoever moved on in between: the flag still
set, an empty cold store, or another request that is about to empty it. `NothingLost` compares the two stores
at one moment. What makes it inductive is what each call learned before it acts:
`RowsKept` (mongo never has an old row, and what it lacks the cold store has),
`Turns` (who runs beside whom), `Marked` and `Loaded` (what the flag says of the
stores, and when the cold copies may go), `Fetched` (what a request has brought
home when it is at a step), and for the archiver's page `Through`, `PageRead` and
`PageCopied`: the page has every row in its range, and the rows before it are
gone. That a page that was read by number and size misses no row in between rests
on lemmas about the smallest and the largest of a set.

`OrderLifecycleProofs`, for an order of any size, any number of row objects,
cancels and attempts:

- `TypeCorrect` and `RefusedIsRetiredHolds` in all worlds, those of the known
  limits included. `Shape` adds to the type that who goes on with a row holds a
  reference to it, and what the answer can be at each step of the placement.
  `RefusedInv` adds `Unplaced`: as long as the venue has not taken the order on,
  no report, look-up or cancel speaks of it and no row has an id of the venue's;
  and `NeverTaken`: a refused order is not on the venue's book, unless it is being
  sent again.
- `NoWriteOffInFlightHolds` in the worlds that are `Patient`: the ladder has
  attempts left after the last failing look-up, and no venue denies an order it
  took on. TLC finds a write-off in flight in a world that is not. While the first
  answer is out, `Flight` holds: the placement's own row is as it was written, a
  cancel waits for the placement or holds a row with the venue's id, and the
  ladder, if it runs, asks by that id, counting failed look-ups only. `Evidence`
  says that only a cancelled order is described as cancelled.
- `FilledIsFinalHolds`: `FilledIsFinal` as the run states it, for any number of
  cancels, in the worlds that are `Timely`: `Patient`, with no re-send, no search
  that reads open orders only and no order that changes while the answer to a
  look-up travels. `Timed` says why nobody then records a state the order has left.
  An answer to a look-up is true when the ladder takes it up (`LookedUp`). Once the
  placement is acknowledged the ladder has counted no more than failed look-ups
  (`LadderCounted`), so it neither runs out of attempts nor is denied the order. The
  placement's row, or the one of the map it merges its answer over, reads as retired
  without an id only if the order was cancelled (`Clean`), so what an answer was
  merged over before a repair is never a filled order's. `Tame` is what a step does
  that puts nothing into the map and leaves the rows' statuses alone; the proof is
  about the few steps that are not. TLC finds the property violated with re-sends
  (`Repaired`) and with answers that are overtaken (`Overtaking`); that searches see
  every order and that no venue lags is what the ladder's part of the proof needs.

`DealLifecycleProofs`, for any number of deals and safety orders and any worlds:

- `TypeCorrect`. `TypeOK` says that a deal leaves memory at most once, which rests
  on two invariants. `Shape`: whoever runs in a method that has a key is at the head
  of the key's line (`Locked`), which needs what a step does to stacks and lines in
  general (`StepShape`, `StepLocked`, `Moves`). `Once`: a deal that was released does
  not come back, as its entry is the one call that creates it (`Entrant`).
- `BookedOnceHolds`: `BookedOnce` for bots whose deals are past their start. `Settled` says that one `closeDeal` at a time is past
  its look at the deal's status (`Alone`), that the deal it closes is not booked
  (`Sound`), and that a booked deal is closed, which the next `closeDeal` of the line
  will see. `Alone` holds since `closeDeal` has a key of its own: with `ClosingUnlocked`
  TLC finds a profit booked twice. When the bot is dropped its lines are lost, so
  exclusion no longer holds; by then no deal is open (the last part of `Settled`).

`DealBookingProofs`, for the same deals and worlds, those with deals that start and
signals that open more included:

- `BookedOnceAlways`: `BookedOnce` as the run states it. `Settled` says nothing of a
  deal in start, which may fill, open and close by request at once. What holds of a
  bot that nobody stops or cancels (`Unstopped`) is `Orderly`. `Undisturbed` says in
  which call a method can run (`Ranked`, `Posted`: nothing stops or cancels, and a
  close without an order is that of a request). `Sane` says what a method knows of
  its deal from its own look (`Meant`: a close that is about to book finds nothing
  booked, an opening deal was never sold), that two methods whose looks would
  contradict each other are not under way for one deal (`Apart`, over the pairs
  `Clash`: a start that opens beside what runs for an open deal, a request that would
  cancel beside one that closes), and that only a closed deal is booked, once
  (`BooksRight`).
- `WithinMaxHolds`: `WithinMax` as the run states it. If no deal starts and no signal
  comes, the deals in memory are those of the beginning (`Brought`, `FirstDeals`). If
  only signals are asked for, `Few` holds: the open deals and the entries between
  their count and the creation of their deal (`Entering`) together are no more than
  the limit, and each such entry is one of `bot.pending`. `Few` carries what keeps
  the other methods from making a deal count again: a deal whose base order is not
  sent yet is in no other method's hands (`Entered`), and one that closed stays
  closed (`Gentle`).

Model-checked only: of orders, the properties over the whole history of the
executed quantity (`NoOrphan`, `NoLostFill`, `KeptUnlessCancelled`,
`ExecutedGrows`); of deals, what compares coins, ledger and rows
(`NeverOversold`, `CoveredOnceOpen`), which fail with two safety orders in a deal and
so are no theorems of every value of the constants, and `StopEndsStarts`; all liveness.
TLAPS cannot be asked about fairness and ENABLED, about recursive operators or
induction over data; those stay with TLC.
