# MicroCoin in TLA+

TLA+ models of the MicroCoin backend (Go): the limit order book, its price
heap, the ledger, the order service that ties them together, the idempotency of
the POST handlers, the quotes service, the rate limiter, and the server around
the pool of database connections. TLC checks them on small instances; TLAPS
proves every safety property that the runs check for every value of the
constants.

## 1. Inventory

One process serves HTTP. Every request runs in a goroutine of its own; they
share one in-memory book per symbol (guarded by mutexes), a Postgres database
behind a connection pool, and Redis.

| Component | State | Operations | Modelled in |
|---|---|---|---|
| Limit order book (`internal/limitbook/orderbook.go`) | per side: map price → level, heap of levels; each level a slice of orders | `AddOrder`, `RemoveOrder`, `MatchOrder` | `LimitBook` |
| Price heap (`internal/limitbook/heap.go`) | slice of levels | `Push` through `container/heap` | `PriceHeap`, `BestLevel` |
| Ledger (`internal/ledger`, `internal/database/account.go`) | rows of `accounts` and `ledger_entries` | `TopUpUser`, `HoldFunds`, `ReleaseHold`, `TransferFunds` | `Ledger` |
| Order service (`internal/orders`, `internal/database/order.go`) | rows of `orders`; the books | `CreateOrder`, `processTrade`, `loadOrdersIntoBooks` | `Orders` |
| Idempotency (`internal/idempotency`, POST handlers of `cmd/monolith/main.go`) | rows of `idempotency_keys` | check, perform, store, answer | `Idempotency` |
| Quotes (`internal/quotes`, websocket handler of `main.go`) | latest quote, slice of subscriber channels; Redis pub/sub | `Subscribe`, `Unsubscribe`, `updateQuote`, publish, the websocket loop | `Quotes`, `Feed` |
| Rate limiter (`internal/rate`) | token bucket per user in Redis | `Allow`, `GetRemainingTokens`, `Reset`, the middleware | `RateLimiter` |
| Connection pool (`internal/database/database.go`) and server (`main.go`) | at most 25 connections; the active requests | take and give connections, accept, graceful shutdown | `Server` |
| Authentication (`internal/auth`, `user.go`) | none; rows of `users` | hash, verify, issue and validate tokens | no: stateless cryptography and single-row statements |
| Outbox | a table nothing uses | none | no |

How they interact. A POST handler looks its idempotency key up, performs the
operation and stores the response. For an order the operation is `CreateOrder`:
hold funds (ledger), insert the row, `MatchOrder` (book), `processTrade` for
every trade (two ledger transfers), update the row, `AddOrder` (book). Each of
these commits, or locks and unlocks, by itself. When the process starts,
`loadOrdersIntoBooks` rebuilds the books from the active rows before the server
listens.

What is hard here:

* *Loops over moving data.* `MatchOrder` deletes from a slice while it ranges
  over it, and relies on a removal that never finds its order to get rid of an
  exhausted level (`orderbook.go:203-248`).
* *Check, then act, in separate transactions.* Balances are read outside the
  transaction that writes them; the idempotency key is looked up long before it
  is stored; an order is matched in one critical section and rested in another.
* *Steps that commit one by one.* Either leg of a trade, the row of an order and
  its hold may be there without the others, after a failure or a crash.
* *Two notions of what was filled.* The book counts every trade, the row only
  those whose transfers went through, and no maker's row is ever updated.
* *A range without a lock.* `updateQuote` walks over, and sends to, cells that
  `Unsubscribe` moves and channels that it closes.
* *Clocks and repeats.* The rate limiter trusts times that were read before its
  scripts run, from a clock that may be set; go-redis sends scripts again.
* *Connections within connections.* Queries beside a transaction take a second
  connection of a bounded pool, and nothing has a deadline.

What makes each component correct: the book loses, duplicates and overfills no
order and trades within limits at the best price; the heap's root is the
cheapest level; the ledger's balances agree with its entries and operations
end; an order's row claims no more than was paid and its funds are on hold
while it can be traded; a key gets one response and a retry performs nothing; a
client gets the quotes in order and misses none without a reason; no window of
time has more requests than the bucket allows; requests and shutdown end.

## 2. Modules

    BestLevel        what a book side needs of its heap: the root
    PriceHeap        the array heap, swap by swap         --implements--> BestLevel
    Market           what a book promises: resting orders, the cheapest first
    LimitBook        one book, the loops of MatchOrder    --implements--> Market
    Ledger           the four operations on the accounts of one currency
    Exchange         what the order service promises: a Market over restarts
    Orders           CreateOrder, crashes, start-up       --composes--> LimitBook
                                                          --implements--> Exchange
    Idempotency      the two POST handlers around any operation
    Feed             what a subscription to quotes promises: lossy but ordered
    Quotes           the quotes service and its clients   --implements--> Feed
    RateLimiter      the bucket of one user, its scripts and the middleware
    Server           which connections requests hold; the shutdown
    MC*              constants and instances for TLC
    *Proofs          theorems about the module of that name

### LimitBook

`MatchOrder` holds the book's mutex throughout, so `run` is the one call that
runs: its program counter, taker, range index `i` and the length `n` the range
began with. `EnterLevel`, `Return`, `LeaveLevel` are the outer loop; `SkipOrder`,
`FillPartly`, `FillMaker`, `FillPanics` are the turns of the inner loop. The
code has a branch for buy and one for sell orders which differ in the side and
the comparison only; the actions stand for both.

A level is `[price, orders, len]`: `orders` is the backing array as far as the
running range sees it, `len` the length of the slice. `append(s[:i], s[i+1:]...)`
moves cells down and leaves a stale copy in the last one (`Delete`); the range
still visits that cell. If the stale order is filled there, `s[i+1:]` is out of
range and the handler panics (`FillPanics`): fills stay, trades are lost,
the deferred unlock runs. `Trim` forgets cells that nobody can see any more.

`levels` is the map, `root` the level at the root of the heap. The heap never
pops and compares with less-than on both sides, so the root changes only when a
strictly cheaper level is pushed; `PriceHeap` shows that the array does that.
`RemoveOrder` has no caller with a real order id; `Removable` gives it some, to
check the function, and `Orders` gives it none.

A market order's price is not validated: it may be absent (then resting it
panics) or not positive (then it rests at that price).

### Market

`Market` is the same book without levels, heap, slices and loops: a call takes,
one whole trade at a time, some live order that no other live order undercuts
(`Trade`), and `LimitBook` implements it with `taker` standing for `run.taker`.
What the code does not promise is left open there, and is what a reader should
know: sellers, too, are matched with the *lowest* bid and may be let go while
higher ones rest (`End` binds buyers only); which of two orders at a price trades
is not said, as the deletion under the range may skip the older; and a call that
has traded may be lost with its last trade (`Lose`).

### PriceHeap and BestLevel

`Push` appends, every `Up` compares with the parent and swaps. The refinement
mapping (`Root`) reads the level that will be the root when the push is
complete; `TracksBest` says that the heap implements `BestLevel` under it.

### Ledger

A worker runs one operation through its reads, updates (row locks) and commit.
Reads go through another connection than the transaction and see committed
rows; `Commit` writes balances computed from what was read. `Abort` is a failed
statement, or, for every running operation, a crash. `DeadlockVictim` is
Postgres ending a cycle of waits. `lost` records accounts on which a commit
overwrote another one's update, so that the properties can speak of the others.
Amounts have any number of decimals and columns ten, so balances count units of
the tenth decimal and amounts quarters of it: `Kept` is the rounding of
`NUMERIC(30,10)`, halves away from zero. New balances are computed exactly and
then rounded, entries are rounded by themselves, and the two part where half a
unit is taken from a balance; `halves` counts these.
The journal insert is part of `Commit`; the foreign key that a top-up violates is
checked when the operation begins. Inserts of entries lock no account row
against updates.

### Orders

`pc[o]` is where `CreateOrder` is with order `o`; the book is an instance of
`LimitBook` whose actions the steps conjoin. Orders are numbered in the order
in which they lock the book. A ledger operation is one step. Two currencies
stand for the symbol's. `RestartWith` is the death of the process at any point
and the query of the active rows (which may fail, and is then only logged);
`Load` rests one row after another before the server listens.

`TransferFunds` takes from the available balance, refuses amounts that are not
positive, and on a transfer to the same account keeps the credit only
(`Transfer`), as `Ledger` shows in detail.

### Exchange

`Exchange` is `Market` with two more steps: an order is turned down before it is
matched (`Refuse`), and a restart opens the market again with the orders that are
still active (`Reopen`). `Orders` implements it with `taker` standing for
`run.taker`; inserting rows, settling trades and updating rows are stutters, except
where they drop an order. It says what a restart may and may not do to the market:
every tradable order comes back, unless the query fails and then none does; none is
matched a second time; none comes back more filled than it was. What it leaves open
is again what a reader should know: some of what was filled may be forgotten (the
makers' rows are never updated), an order that was in flight may be lost or found,
and one that was matched, and dropped or lost in a panic, comes back if its row is
active.

### Idempotency

A call goes through `Receive` (fingerprint), `Check`, `Perform`, `Store`,
`Answer`. `Fingerprints` are a call's content and an order of its two critical
headers, because the code hashes them in Go's map order. The unique constraint
makes a second `Store` fail. What `Perform` does is left open but for whether it
took effect, also when it answers with an error.

### Quotes and Feed

The generator's `Publish` hands a quote to Redis, which may lose it. One
goroutine runs `StoreQuote`, `ReadSubscribers`, then `NextSubscriber` and `Send`
for every cell, and `EndRange`. The slice header is copied under the lock, the
cells are not: `view` is what the range sees of the backing array and `shared`
says whether the list still lives in it. `Subscribe` appends into that array or,
at capacity, moves the list to a larger one (`Grown`). `Remove` shifts the cells
in place; until the next step of that handler the range may read a cell as it
was (`old`) or as it is, which stands for the data race on them. `Close` then
closes the channel, still under the mutex (`Unlocked`). A `Send` to a closed
channel panics in a goroutine without a recover, and the process is gone
(`alive`). A handler leaves when a write fails, of a quote of this symbol or of
the other one (`WriteFails`).

Under the refinement mapping a client is `in` from `Subscribe` to `Close`, and
its queue is its channel. `seen`, `due`, `dropped` and `overlapped` only record.

### RateLimiter

A request reads the wall clock (`ReadClock`) and its script runs later (`Check`),
or its answer is lost and the script may have run all the same (`CheckLost`);
go-redis sends it again with the same arguments until `MaxTries`. The header
comes from a second script (`Count`) at a second time. `SetClock` sets the
server's clock to any time; `Tick` moves both clocks. Time and tokens are
integers: a token is `Token` units and a tick refills `Refill` units, so the
division in `refill_per_sec` needs no fractions. The key expires by the clock of
Redis. `count` records the tokens taken per window of time, since the last
`Reset`; `early` is that a key expired before the times of the requests said so.

The assumption `Expiry * Refill >= Burst * Token` is what `main.go:70` gives: 60
tokens refilled in a minute, and `EXPIRE 60`.

### Server

A handler is a sequence of operations and an operation a sequence of takes and
gives of connections (`Steps`): `Tx` is a transaction, `Query` a statement on the
pool. What the statements do is in the other modules. `Fail` is any failed
statement with the deferred rollbacks behind it; a trade that fails is only
logged, so `CreateOrder` goes on. `MaxTrades` bounds the trades of an order.
`Signal`, `Exit` and `GiveUp` are the graceful shutdown; a websocket is a request
that the server's `Shutdown` does not know of.

## 3. Runs

All runs take their bounds from their `.cfg`.

| Run | Shows | Bounds |
|---|---|---|
| `book` | type correctness; no overfill, also when a range meets an order twice; buyers and sellers bought and sold the same, also across panics; live orders stay at exactly one place; which dead orders can rest; refinement of `Market` (every trade is within the limits and with a cheapest live order, and a buyer leaves none behind that it would accept); the first trade of a call has time priority; a call that the best level can fill returns | 4 orders out of 7 kinds: two makers at a level, a taker that fills one and part of the next, a later order that meets the leftovers, a level emptied and filled again |
| `heap` | the root is the lowest price, refinement of `BestLevel` | 3 prices, 6 levels: three layers of the tree, equal prices |
| `ledger` | type correctness (no negative balance); reconciliation with the journal where no update was lost, up to a unit for each half that was rounded; every operation ends | 2 accounts, 2 workers, 3 operations of all kinds, amounts of a half and of three quarters of a unit, one row for `uuid.Nil` assumed |
| `orders` | types; no row claims more than both legs paid; tradable orders have their funds on hold; live orders have active rows; refinement of `Exchange` (the market over restarts); requests end unless the book spins; the start-up ends unless a row without price stops it | 3 orders of 2 users (self trades included), any transaction may fail, 1 restart |
| `idempotency` | types; one response per key; no answer for another request; retries after a success perform nothing | 4 calls of one key, two contents, both header orders, 1 restart |
| `quotes` | types; the list is the clients being served; only an `Unsubscribe` during an update kills the process; without one a client misses nothing but what its full channel refused; refinement of `Feed`; quotes reach clients that read | 3 clients, channels of 1, 2 quotes: a cell moved before, at and behind the range, an append in place and one that moves the list, a full channel, a client that takes nothing |
| `limiter` | types; the rate in every window; a patient user is served; a refusal has a reason; the header's bounds | 3 requests (symmetric), burst 3, 2 units a token and 3 a tick, so that fractions of tokens matter; 4 times, expiry after 2, each script sent twice, 1 jump of the clock |
| `server` | types (no connection used twice); how many requests exhaust the pool; every request and every shutdown ends unless it is exhausted | 3 connections, 2 requests of all kinds and a websocket, 1 trade: enough for two requests to exhaust the pool while one is three deep |

Channels hold 10 quotes and the pool 25 connections in the code; the runs use
1 and 3, where full and exhausted come soon, and the theorems hold for all.

Four runs check what a document or a comment says and find it violated; each
is described under `findings` in `PROJECT.json`:

| Run | Claim | What happens |
|---|---|---|
| `bids_best_first` | `heap.go:24`: highest bid first | a seller is matched against the lowest bid |
| `match_returns` | `docs/01_monolith.md:30`: matching with partial fills | the call spins on an exhausted level, mutex held |
| `trades_atomic` | `docs/01_monolith.md:19`: atomic transactions | one leg is paid, the other refused |
| `performed_once` | `docs/01_monolith.md:230`: no duplicate charges | two calls of one key both perform |

Other disagreements show in the passing runs, as the exceptions their properties
have to make:

* a transfer to the same account, or an update lost between a read and a write,
  creates money (`docs/01_monolith.md:225`): `Reconciled` exempts `lost`;
* so does rounding: an amount with half a unit of the tenth decimal takes less
  than it gives: `Reconciled` allows a unit for each;
* a top-up violates a foreign key with the migrations as they are
  (`tests/integration/e2e_test.go:84`): `Ledger.cfg` has to assume the row;
* a restart brings makers back with what they had already traded
  (`docs/01_monolith.md:235`): `RestartWith` of `Orders`;
* a client that leaves during an update may end the process
  (`docs/01_monolith.md:218`), and so does a start without Redis
  (`main.go:58`): `DiesOnlyOfOverlap`;
* enough requests exhaust the pool for good (`README.md:171`): 13 orders that
  process trades may, by `ExhaustionNeedsCrowd` no fewer.

Deadlock checking is off: every instance stops when its bounded orders,
operations, calls or levels are used up, and a book that spins or a start-up
that panicked is a state of its own, which the liveness properties name.

Every property that holds is also checked to fail when a plausible error is put
into the code: the operators marked "Mutant of" next to the definition they
replace.

## 4. Fairness

* `LimitBook`, `Orders`: weak fairness of the steps inside `MatchOrder` and of
  each handler after it, and of the loading loop: goroutines that block on
  nothing the model leaves out are scheduled. No fairness of new requests.
* `Ledger`: weak fairness of a worker's own steps and of the deadlock detector;
  strong fairness of the updates, because Postgres queues the waiters of a row
  lock and grants it in turn. No fairness of failures.
* `Quotes`: weak fairness of the updating goroutine (one action of it is enabled
  at a time), of `Remove` and `Close`, which wait for no connection, and of
  `Receive` for `Readers` only: the others may never take what is written to
  them. No fairness of the generator, of Redis or of clients that come.
* `Server`: weak fairness of `Give` and `Exit`; strong fairness of `Take`, because
  `database/sql` hands a connection that is given back to one of those who wait,
  chosen at random. None of `Signal`,
  `Fail`, `Disconnect` or `GiveUp`: the 30 seconds must not be what ends a shutdown.
* `Idempotency`, `PriceHeap`, `RateLimiter`: safety only. Nothing in the rate
  limiter waits.

## 5. Proofs

All assumptions are the named `ASSUME` of the constants; TLC evaluates each of
them in the runs. `LimitBook` and `Orders` assume of the requests what
`validateOrderRequest` and the enums of the tables let through: a limit order has
a positive price, every order a positive quantity, and a market order any price
or none.

* `LimitBookProofs`: all safety properties of `LimitBook` and its refinement of
  `Market`; none is inductive.
  - The invariant `IInv` adds to `TypeOK`, `NeverOverfilled` and
    `TradesWithinLimits` what the cells behind a level's slice hold, stale ones
    included: orders of the level's side and price that rest on the book
    (`BookOK`), hence never the taker, so that charging taker and maker disturbs
    neither; that the map leads to levels of the right price (`MapOK`); and that
    the taker crosses the level it is in (`RunOK`).
  - `LiveOrdersInBook` and `AsksBestFirst` (a buyer never pays more than the
    lowest ask) need `BookInv`: the map leads to every
    level that has orders, no level has one twice, and all of them rest
    (`CellsOK`); an order with something left is where the map leads (`LiveOK`),
    which a deletion under the range keeps because it cuts out the order that was
    just filled or, behind the slice's end, panics; the root is the cheapest
    level (`RootOK`); and there are no more levels than orders that came to rest
    (`CountOK`), so that `Places` looks at all of them.
  - `FirstTradeHasPriority` needs `FreshOK`: until a call trades, the range sees
    the level as it was when it began, and all cells it has passed are dead.
  - `DeadOrdersExplained` needs the same of orders that have been matched and are
    not added yet (`DeadOK`).
  - `RefinesMarket`: a trade is one of `Market` because the root is the cheapest
    level and a live order is where the map leads (`LiveAboveRoot`), a call that
    returns has no acceptable level (`ReturnEnds`). A call can be lost with its
    *first* trade only if a stale cell is met before any deletion, so the mapping
    of `FillPanics` to `Lose` needs `SliceOK`: no level has cells behind its slice
    but the one a range is in, and that one only what the range has cut out; with
    `FreshOK`, there are none before the first trade. All other turns of the loops
    are stutters.
  - That trades are within limits (`TradesAtLimits`) and that a buyer never pays more
    than the lowest ask (`BuyersPayTheLowestAsk`) are theorems too; the runs check them
    as parts of `ImplementsMarket`.
  - `FillsBalance` is about sums over sets of orders. The module defines such a
    sum without recursion, as the value of the one function on the subsets that
    satisfies the recursive equation (`IsSums`), and shows that it exists, does
    not depend on the element taken, and moves with its terms. The induction over
    finite sets (`Induction`) is by the minimal elements of a well-founded
    relation; `FilledOnSum` says that `MapThenSumSet` of the model is that sum.
* `OrdersProofs`: all safety properties of `Orders`, and that those of the book
  hold of the books of all starts together (`BookAcrossRestarts`,
  `PriorityAcrossRestarts`). The lemmas about the book are those of
  `LimitBookProofs`, instantiated (`LBP`): a step of the service is a step of the
  book (`CallsAreSteps`, `TurnsAreSteps`), gives up an order that the book has not
  seen (`GivenUp`), or empties the book (`EmptyBook`). The invariant `OInv` adds:
  - where a handler is determines the stage of its order (`Agrees`), and an order
    that rests, or waits to be loaded, has an active row;
  - what a row or a handler counts as filled is at most what was settled both
    ways and at most what the book has filled, and a row exists only from its
    insert on (`Counts`);
  - the trades a handler has still to process come to no more than what the
    book has filled of its order and has not been counted yet (`Fits`): without it
    a row's filled quantity could exceed the order's. `Within` says so with the list of partial sums, because a sum over a
    sequence would be a recursive definition.

  `HoldsCover` rests on `HeldOK`: a held balance is exactly the sum over the
  orders whose `HoldFunds` succeeded, as nothing is ever released; tradable
  orders are among them.

  `RefinesExchange` goes by what a step does to the book (`BookMoves`). A step of
  the book is one of `Market`, by `RefinesMarket`'s lemmas, whose invariants about
  the running range (`SliceOK`, `FreshOK`) therefore have to survive a service that
  gives orders up and restarts (`NextSlices`). A request that fails before it is
  matched is `Refuse`. A restart is `Reopen` (`RestartReopens`): by `Agrees` every
  tradable order has an active row, and by `Counts` what the row says was filled is
  no more than what the book had filled.
* `PriceHeapProofs`: `TypeOK`, `RootIsLowest`, and the refinement `TracksBest`.
  `RootIsLowest` exempts the level that moves up and is inductive with the
  types; heap order is not needed.
* `LedgerProofs`: `TypeOK` (no negative balance) and `Reconciled`. The invariant
  adds that what an operation is about to write passed its check (`Checked`)
  and that what it read is still the row unless another commit overtook it
  (`Current`). `Rounding` is the arithmetic: adding an amount to a balance rounds
  as the entry does, taking one gives at most a unit more, and only at a half.
* `IdempotencyProofs`: `TypeOK`, `SameAnswer`, `AnswersOwnRequest` and
  `RetriesAreSafe`, from: a row never changes once it is there and names an
  operation performed for the content it was fingerprinted from (`RowsOK`);
  a success is the row's (`AnswersOK`); a call that came after a success finds
  the row (`AssuredOK`).
* `QuotesProofs`: `TypeOK`, `ListMatchesHandlers`, `DiesOnlyOfOverlap`,
  `NothingMissed`, the refinement `ImplementsFeed`, and that `Feed`'s `InOrder`
  holds of the service. The invariant adds that no cell the range may read holds a
  client that has not come yet, wherever `Unsubscribe` moves it (`CellsOK`); that
  while nobody leaves the range meets each served client at most once
  (`StillOK`); that messages are in order (`WireOK`); and, for `NothingMissed`,
  that a client is owed at most the quote the range still has to bring it
  (`DueOK`).
* `RateLimiterProofs`: all properties of `RateLimiter`. The invariant is about the
  credit `tokens - last_refill * Refill`, which no script raises whatever its
  time: what was taken in a window came out of the credit of a full bucket at its
  beginning (`SpentOK`), and the bucket is not below empty at the latest time that
  was stored (`CreditOK`), which is what a patient user finds and why a negative
  header means a time behind a stored one. `OnlyExcessRefused` needs the converse
  of `SpentOK`: as long as the scripts run in the order of their times, there is a
  time since which no more than the counted tokens are missing from a full bucket
  (`SinceFull`); the window that begins there is the one a refused request would
  have overdrawn.
* `ServerProofs`: `TypeOK` and `ExhaustionNeedsCrowd`. A request holds as many
  connections as its steps have taken and not given (`Depth`), which the shape of
  `Steps` bounds by two when it takes another; the connections of an exhausted
  pool then inject into the stuck requests times {1, 2}.

Only model-checked: the liveness properties, which need fairness and `ENABLED`
and are beyond the prover: `LiquidMatchReturns`, `OperationsEnd`, the `RequestsEnd`
of `Orders` and of `Server`, `StartsAgain`, `UpdatesArrive` and `ShutdownEnds`.
Each of them is shown on the bounds of section 3 only.

## 6. What the models leave out

* Values are small integers; the rounding of `NUMERIC(30,10)` is in `Ledger` and
  left out elsewhere.
* One symbol, one currency in `Ledger`, two in `Orders`. The books of the two
  symbols share no state but the accounts.
* Opening balances are what the database holds when the model begins. The code
  itself has no way to fund a BTC or ETH account, and, by the foreign key, none for
  USD with the migrations as they are, so the models take balances as given.
  For the same reason `Ledger.cfg` assumes a row for `uuid.Nil`.
* In `Orders` ledger operations do not interleave with each other; the quote is a
  constant, or its absence, which is one of the refusals of `HoldFunds`.
* Reads that change nothing (`GetOrder`, portfolio, quotes), validation errors
  before the first effect, and logging.
* Authentication: tokens are stateless, users are inserted and read by single
  statements; what is there to check is cryptography. Signup and login take a
  connection like the GET handlers (`read` in `Server`).
* The outbox: no code reads or writes it. `IdempotentHandler` has no caller.
  `ReleaseHold`, the limiter's `Reset` and a `RemoveOrder` of a real order have none
  either, but are modelled.
* `Quotes` has one symbol; the handler's second subscription shows as the writes
  that fail. The limiter's user is one, users share no key; the rate limiter's
  floating-point arithmetic is exact in the model.
* `Server` opens no connection that fails to open, and leaves out the idle limit:
  a connection that is closed frees its place.

## 7. Plan

Done, in this order: `LimitBook`, `PriceHeap`, `Ledger`, `Orders`,
`Idempotency`, `Quotes` with `Feed`, `RateLimiter`, `Server`, the proofs of all
their safety properties, and `Market` and `Exchange` with the proofs that
`LimitBook` and `Orders` implement them. What remains:

1. `Orders` over `Ledger`'s interleavings for one pair of users.
2. An abstract specification of settlement that `Orders` implements while nothing
   fails, with the refinement proved step by step.
