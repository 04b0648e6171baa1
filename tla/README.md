# HyperWolf: TLA+ models, checks and proofs

HyperWolf is a desktop node for the DERO blockchain. It embeds a fork of the
HyperGnomon indexer, which scans the daemon's chain into a local bbolt database
and serves it over HTTP and WebSocket, and adds a synchronisation manager, a
dashboard, a TELA application proxy and a tray icon. This directory holds TLA+
modules that model the parts of it where order, concurrency, failure and
shutdown decide whether the index is right, the TLC configurations that check
them, and TLAPS proofs of what matters most.

Paths below are relative to the repository; `HG` stands for
`internal/fork/hypergnomon`.

## 1. The system

| Part | State it keeps | Operations | Talks to |
|---|---|---|---|
| Scan pipeline, `HG/indexer/indexer.go`, `publish.go` | atomics `ChainHeight`, `LastIndexedHeight`, `SafeHeight`, `Closing`, `adaptiveBatchSize`; the cursor and batch of each stage; two channels of capacity 2 | `New`, `StartDaemonMode`, `monitorChainHeight`, `fetcherLoop`, `processorLoop`, `flusherLoop`, `IndexSingleSCID`, `Close` | RPC pool, store, event bus |
| Event bus, `HG/eventbus/bus.go` | central ring, subscriptions with their own channel and drop count | `Publish`, `Subscribe`, cancel, `Run`, `Close` | published to by the flusher and the API, read by WebSocket forwarders |
| Sync manager, `internal/indexer/sync.go` | current indexer, servers, cancel and done channels, two mutexes | `StartSync`, `runSyncSetup`, `StopSync`, `StopIndexer`, health watcher, progress ticker | owns the pipeline and the servers |
| Index store, `HG/storage/bbolt.go` | buckets of rows, additive counts, `lastindexedheight`, fsync switch | `FlushBatch`, `EnableSync`, queries | everything above |
| Truncation, compaction, `HG/storage/truncate.go`, `compact.go` | the same buckets; files | `TruncateToHeight`, `CompactBbolt` | reorg handling, start-up |
| Reorg detection, `HG/indexer/reorg.go` | `ReorgDetected` | `CheckReorgAt`, `findForkPoint` | fetcher, store, daemon |
| FastSync, refresher, `HG/indexer/fastsync.go`, `tela_refresher.go` | discovery cache, probe workers | `FastSync`, `RefreshClassVars` | RPC pool, store |
| RPC pool, `HG/rpc/pool.go` | channel of connections | `Get`, `Put`, `Close`, `WithConn` | daemon |
| WebSocket sessions, `HG/api/ws.go` | subscription map, done channel per connection | `subscribe`, `unsubscribe`, forwarders, teardown | event bus |
| HTTP API, content cache, `HG/api/http.go`, `tela_content.go` | LRU of TELA bodies and its durable copy, asset catalog | listings, handlers, invalidation | store, bus |
| Gnomon-compatible server, `internal/indexer/gnomon_ws.go` | its listener | listings | store |
| Dashboard hub, log service, `internal/router` | clients' queues, last log lines | `Send`, `Add`, `Subscribe`, unregister | browser |
| TELA proxy, `internal/tela/proxy.go` | served applications | start once, add, reset | daemon |
| Shell, `main.go`, `tray` | shutdown channel | start, stop, quit | sync manager |

The remaining files (classification of contracts, explorer and daemon clients,
encodings, desktop integration, web pages) are sequential transformations or
presentation; `PROJECT.json` lists each with the reason it is left out.

What is hard here: three goroutines advance three cursors by separate
arithmetic and must agree; a crash may fall between any two steps of a batch's
life; a flush can fail while the next batch is already on its way; one sentinel
value has to keep its place among the data; shutdown is a chain of closed
channels; API calls write the same database as the scan; and `StartSync` and
`StopSync` race with the goroutine that is still building what they stop.

What makes each part correct, in short: the pipeline's stored cursor never
passes an unscanned block unnoticed and no block is counted twice; what it
reports is stored; every block of the chain gets there. The bus keeps one order
and never loses an event uncounted. The sync manager never runs two sessions at
once, closes the store after its last user, and comes back from every call. The
store tells one story over all its buckets, whatever the batches, crashes and
cuts; discovery never takes half of the registry for all of it; a client that
pages sees everything that was there; a cached body is no older than its
invalidation; a connection, a subscription and a dashboard client are released
by somebody, whoever comes first.

## 2. Modules

| Module | Content |
|---|---|
| `ScanPipeline` | the pipeline, monitor, single-contract indexing, shutdown, crash and restart; its properties and the inductive invariant |
| `IndexProgress` | the abstract promise: rows and cursor grow together, one atomic commit at a time; a reported height trails; restarts resume from the cursor |
| `Discovery` | FastSync's first start: local cache, seed, registry, the probe of contract code and variables, and the caches it leaves |
| `IndexStore` | what a block puts into a batch, what `FlushBatch` makes of the buckets, the refresher's commit, truncation, reset, and the queries |
| `ReadAPI` | a client that pages through a listing while the index is written |
| `ContentCache` | the two caches of TELA bodies and their invalidator |
| `EventBus` | the event bus |
| `WsSession` | one WebSocket connection and its subscriptions |
| `SyncLifecycle` | sessions of the sync manager |
| `RpcPool` | the pool of connections to the daemon |
| `Reorg` | how a reorganisation of the daemon's chain is noticed, and the fork point |
| `Hub` | the dashboard's clients, and the sync events and log lines sent to them |
| `MCScanPipeline`, `MCDiscovery` | TLC roots: the pipeline; discovery |
| `MCIndexStore`, `MCStore` | the store's blocks; the store beside `ReadAPI` and `ContentCache` |
| `MCEventBus`, `MCEvents` | event kinds and filters; the bus beside `WsSession` |
| `MCSyncLifecycle`, `MCSession` | the lifecycle; the lifecycle beside `RpcPool`, `Reorg` and `Hub` |
| `ScanProofs` | proofs: the pipeline's types, its inductive invariants with and without `IndexSingleSCID`, its safety, and that it implements `IndexProgress` |
| `DiscoveryProofs` | proofs: discovery's inductive invariant and its safety |
| `EventsProofs` | proofs: the bus, and the subscriptions of a session |
| `RpcPoolProofs`, `ReorgProofs` | proofs of these two components |
| `SessionProofs` | proofs: the lifecycle, the hub, and the invariants of `MCSession` from those of its parts |
| `IndexStoreProofs` | proofs: the store with its queries |
| `StoreProofs` | proofs: the listings, the content cache, and the invariants of `MCStore` from those of its parts |

Three roots (`MCEvents`, `MCStore`, `MCSession`) put components side by side. The initial state picks one of the
parts, in the variable `part`, and only that part moves: TLC then explores the
sum of the parts' state spaces, not their product, and a property of one part
holds trivially while another moves. Each component is therefore checked under
every interleaving of its own processes, and none of the roots claims anything
about an interleaving of two parts. Where two components do depend on each
other, one is in the other's model in the form the code there sees: the store is
the cursor and the rows' heights in `ScanPipeline`, the bus is the channel of a
subscription in `WsSession`, the pipeline is the goroutine that ends once
`Closing` is set in `SyncLifecycle`, the batches in flight are the queue of
`Reorg`, the flusher and the refresher are the writers of `ReadAPI`.

### ScanPipeline and the code

A block is its height. Hash, transactions and contract rows of a block are one
datum, in the store when `commits[h] > 0`. The DERO daemon is its top height
`chain`, which only grows.

| Code | Model |
|---|---|
| `idx.ChainHeight`, `LastIndexedHeight`, `SafeHeight`, `Closing`, `adaptiveBatchSize` | `chainHeight`, `lastIndexed`, `safeHeight`, `closing`, `batchSize` |
| `lastindexedheight` in the store, the rows | `durable`, `commits` |
| locals of `fetcherLoop` | `fpc`, `nextHeight`, `caughtUp`, `fb` |
| `fetchChan`, `flushChan`, closed by deferred `close` | `fetchChan`/`fetchClosed`, `flushChan`/`flushClosed` |
| locals of `processorLoop` | `ppc`, `batch`, `blocksInBatch`, `syncSignaled`, `runningHeight` |
| locals of `flusherLoop` | `wpc`, `pb` |
| `syncedOnce` (fsync on, refresher started) | `synced` |
| events on the bus | `published` |

A step of the model ends where another goroutine can see or disturb the state:
at a channel operation, at a store transaction, between two stores to atomics.
One loop turn of the fetcher is therefore: look at `Closing` and the height
(`FetcherExit`, `FetcherAtTip`, `FetcherBatch`), fetch
(`FetcherSpecHit`/`Miss`, or within `FetcherBatch`), send (`FetcherSend`). An
RPC error sleeps and retries and is a stutter. A block that does not arrive
whole (nil result, unparsable, transactions not fetched) is recorded in the
history variable `lost`, and so is the span of a failed `FlushBatch`; blocks
jumped over by the quick scan are in `waived`. `Restart` is the death of the
process at any point: everything but `chain`, the store and the history goes
back to what `New` restores.

The mapping to `IndexProgress`: the stored cursor, the heights with committed
rows, and `Claimed`, which is the reported height, or after a quick scan's jump
the height it jumped from until something is committed above it.

Abstracted: contents of blocks; timing (the pace of a flush is a free choice of
fast, even or slow); `EnableSync` and the refresher beyond the moment they are
switched on; `PostScanVarsMode = "all"` (the application runs with `lazy`). A crash keeps every commit that returned: the window in which bbolt runs with
NoSync and the machine itself may lose a commit is outside the model. The receive
of the processor and of the flusher is one step with the look at `Closing` that
follows it (`indexer.go:634-639`, `779-784`).

### Discovery and the code

`FastSync` and `probeTELA` (`HG/indexer/fastsync.go`, `classify_seed_cache.go`,
`indexer.go`), as the application configures them: turbo mode, a start with no
stored progress. `sync` is the local state of `FastSync`, which fetches the
registry, launches the probe and goes on filling the registry batch while it
runs; `probe` holds the probe's feeder, its two bounded channels (`work`,
`varWork`), the contracts still to be fed, the one in hand and what it has
found. `cache` is
`tela_cache.bin`, `seeds` the directory of seed files, `db` the five buckets the
discovery writes. A contract has a registration height and a class; a set of
contracts is its own hash. One contract stands for one code batch.

The height (`GetInfo`, in `CheckCache` or `GetHeight`) and the registry (`GetSC`
at the daemon's latest block, in `FetchRegistry`) are two calls, and the chain may
grow between them. The candidates therefore include the registry of the chain height and
maybe contracts above it, which `classifySeedRegistryHash` leaves out of a seed's
hash (`RegistryAt`) and which a cache or a seed saved at the lower height lists
all the same. An error of either call ends `FastSync`, and the daemon scan
begins.

The probe sorts the slice of candidates in place while `FastSync` ranges over it
(`fastsync.go:476`, `231`): `SortSwap` is one exchange of two neighbours. A failing
RPC call or flush is `Fault`; after `Close` any of them may fail. `Restart` is a
new process with what is on disk: the cache, the seeds and the store are three
separate writes. It may also find the database directory removed by the user,
which is how a seed comes to be used.

Two histories name contracts that the code lets go. `unflushed` are those the
saved cache lists although the flush of their classes failed: a start that reads
their variables back notices, and one that trusts the cache excuses them.
`excused` are these, the contracts a decode error hid from a saved cache, and
those registered below a height to which the monitor raised the cache without a
probe. Two more follow the import of the registry, over restarts: `origin` is the
height at which the scan of this store takes over from what `FastSync` set rather
than scanned (the flush of the registry, or the tip where a fresh cache was
trusted), and `skipped` names the contracts up to there that the code leaves
out: those an exchange of the sort moved behind where the fill reads, and those
that were not in the store when the scan began at a fresh cache. A `FastSync` that ended in
an error, or whose flush failed, sets no progress, and `ProgressImported` says
nothing of the scan that then begins near the tip: the registry is never
imported (section 5).

### IndexStore and the code

A bucket is a function from its keys to its values. `Processed` is what the
processor makes of a block (`processSCTx`, `handleInstallSC`, `handleInvokeSC`,
`refreshClassMetaOnInvoke`, `processNormalTx`); the `Add...` operators are the
methods of `WriteBatch` with their merges and replacements; `Flushed` is
`FlushBatch` over all its buckets, `Cut` is `TruncateToHeight`, `ResetDB` is
`ResetIndex`. The queries are operators with their source's names. A contract's
code is named by the class the rules give it; its variables are a number, 0 for
none, from which the class metadata is read.

`ProcessBlock`, `SendBatch` and `FlushBatch` interleave, so that the processor's
reads of the store (is the class known?) see an older state than its batch.
`RefreshBegin` and `RefreshCommit` are separate, the flusher commits between
them. Truncation and reset happen offline: with nothing in flight, and the scan
resumes afterwards on a possibly different chain. `RefreshClassMeta`'s return on a
read error (`indexer.go:1309-1315`) is left out. Four histories excuse known
gaps of the code, each named where it is used: `drift` (contracts whose edges a
truncation may not have restored: touched by a normal transaction that was cut,
or by an invocation that an earlier reset kept),
`raced` (an invoke processed while its install was in an unflushed batch),
`wasReset` (`ResetIndex` keeps hashes and invocations), `extra` (variables the
refresher wrote).

### ReadAPI and the code

Nine listings: `ListSC` with and without a class, `ListSCByClass` and
`ListSCByHeight` of `HG/api/ws.go`, the Gnomon-compatible `listSC` and
`listSCByClass` of `gnomon_ws.go`, and the asset catalog, created and touched
listings of `http.go`. A page is one request with its own clamp of the limit, and
handlers that read classes and then owners do so in two steps, with commits in
between; the created and touched listings (`http.go:849-869`, `906-935`), which read
in several transactions too, are one step. Writes are an install, the registry import, a classification of
several contracts at one height (the probe and the refresher both do that), and
an invoke. `client` asks for the next page until one comes back short or empty.
`GetClassInstalls` sorts a Go map by height with an unstable sort, so contracts
of one height come in any order (`ClassOrders`). The catalog cache is filled by
two requests at a time, and expires.

### ContentCache and the code

`ring`, `items`, `size` and `byScid` are the fields of `telaContentCache`, `disk`
the bucket. A request looks in memory, in the bucket, loads from the index, saves
to the bucket, saves to memory: five steps, each its own action. A change of a
contract commits, then is published to a bounded channel; the invalidator clears
memory, then the bucket, and only logs an error of the second
(`tela_content.go:300-302`), after which the body is still there. `missed` names the
keys an invalidation did not get: a request was filling them, or the bucket
could not be emptied; the next invalidation of the contract clears the mark. A body is the version of the variables it was made
from, and its size differs between versions, up to more than the capacity. In
the application the server gets no bus (`sync.go:284`), so nothing is ever
invalidated there; the model is of the library with one.

### EventBus and the code

`Publish` is two steps, for another goroutine may close the ring between the
test of `closed` and the send. `cancel` is two steps (delete from the map, close
the channel). `Run` takes an event and visits the subscriptions one at a time;
`sync.Map.Range` is modelled by its contract: every key present from beginning
to end is visited once, a key that comes or goes meanwhile may be. `trySend` and
`close` exclude each other, as their RWMutex makes them. Events carry the place
they took on the ring as a history number that only the properties use. The
application as it stands passes a nil bus to the indexer; the bus is modelled as
the library component its tests and the API exercise.

### WsSession and the code

`serveConn`'s read loop is `reader`; a forwarder is `fwd[i]`; `subs` and
`subsNil` are the map and whether `cancelAllSubs` has set it to nil; `once`,
`closer` and `cancels` follow a running `cancelAllSubs` through the cancel
functions it took from the map. Subscribing is two steps (the bus's `Subscribe`,
then `addSub`), unsubscribing too. A write may start to fail, and a read, each
for good. A write to the nil map panics and ends the process: `Alive` turns
false. Requests that only query are left out.

### SyncLifecycle and the code

Each `StartSync` that gets past its wait opens a session with its own channels,
WaitGroup counter, indexer and servers. `call` is the holder of `lifecycleMu`
and its place in the code; sections under `sm.mu` are single steps. `snap` is
what `StopSync` copies before it acts. `runSyncSetup` is one step per thing it
installs, since a stop may come between any two. Once `Closing`
is set on its indexer the scan goroutine ends (`ScanEnds`), or hangs for good in
its own shutdown (`ScanHangs`), as the finding `scan_shutdown` shows it can; then
neither `done` nor the store is ever closed. The panic of a WaitGroup whose
`Add` meets a waiter that is waking up (`sync.go:206`) is not represented. `New` waits for bbolt's file lock without a limit. A server
that is started while another one holds the port fails.

### RpcPool and the code

`NewPool` dials all connections at once and waits for all. The pool is a
buffered channel: `Get` receives from it without a lock, `Put` and `Close` take
`mu`, and `Close` sets the flag, closes the channel and drains it in separate
steps. What is not there: nothing reconnects. After the daemon was restarted
every pooled call fails for ever, and the fairness of the pipeline's monitor (a
poll is retried until it succeeds) presumes live connections.

### Reorg and the code

A block is the branch it was mined on and the branch of its parent. `fetch` is
the fetcher's turn: ask for the heights, receive what the daemon answers (an RPC
error falls back to the single-block fetch), parse, `CheckReorgAt` for the first
parsed block only, send. `queue` stands for all that lies between the fetcher
and a commit. `CheckReorgAt` answers "ok" when nothing is stored below (a read
error does too). The history `unchecked` names the heights whose block could not be
compared with the stored hash, because it was not there yet, or was not the
first of its fetch. Nothing calls `findForkPoint`; what it would answer for each
reported height is looked at in every reachable state. Its failing lookups end
the walk without an answer and are not modelled. A daemon never returns to a branch
it left, and a commit from the queue does not fail.

### Hub and the code

A client is its connection, its queue and two pumps (`ServeWS`, `readPump`,
`writePump`); a pump that fails removes the client from the map and closes the
connection, in two steps. `Send` copies the set of clients under the lock, fills
queues without it, and takes it again to drop those whose queue was full, so two
`Send`s interleave. The log service feeds one of the senders through a bounded
channel that drops lines when full; its stored lines are left out.

## 3. Runs

| Run | Bounds | Shows |
|---|---|---|
| `scan_safety` | chain 2..4, fetches of 2, batches of 1 to 4 (adaptive), quick scan over 1 block, lost blocks, failed flushes, 1 crash | `TypeOK`, `IInv`, `GapFree`, `CountedOnce`, `ClaimsPersisted`, `SafeBehindIndexed`, `PublishedCommitted`, `SyncAfterData`, and `ImplementsProgress`: the pipeline implements `IndexProgress`, and no safe height goes back, over a crash either, but for one that came from a quick scan's jump |
| `discovery` | 2 applications, one registered later, and a token; channels of 1, variable batches of 2, a tip that grows between calls, 1 fault, 2 sessions | `DiscoveryInv` (its inductive invariant), `CachesComplete`, `SettledDurable`, `ProgressImported`, `Settles` |
| `scan_liveness` | chain 3..4, fetches and batches of 2, `IndexSingleSCID` at any time, 1 crash, a shutdown, no losses | `DrainEnds`; `ScanReachesTip` where no `IndexSingleSCID` is called |
| `bus`: bus | 1 publisher, 2 subscribers with a filter that takes one of two kinds, ring 1, inbox 1, 2 events | `OneOrder`, `LossAccounted`, `ClosedSilent`, `Drains`, `CloseReaches` |
| `bus`: session | 3 subscriptions of which 2 at a time, channel 1, 2 events | `NoOrphan`, `Released`; `Inductive`: the inductive invariants of both parts |
| `store`: store | chains of up to 3 of the 4 block shapes in `MCIndexStore`, queue 1, 1 refresh, 1 truncation or reset, crashes | `PrefixConsistent`, `QueriesAgree`, `ClassKept` |
| `store`: listing | 3 contracts of which 2 in the registry, page limits 1 and 2, limits asked 0, 1 and 3, 4 commits | `PagesCover` |
| `store`: content | 2 bodies of 1 contract, 2 interchangeable requests (symmetry), capacity 3 bytes, inbox 1, 2 changes, 1 crash | `CacheAccounted`, `StaleExcused`; `Inductive`: the inductive invariant of the part that moves |
| `sync`: sync | 3 sessions, 3 stops | `OneSession`, `StoreOutlivesWorkers`, `StopClosesStore`, `StopReturns` |
| `sync`: pool | 2 connections, 3 callers, 2 calls of `Close`, dials that fail | `PoolAccounted` |
| `sync`: chain | heights to 3, 2 forks, 1 crash, fetches of 2, queue 1, depth 1 | `ChainFollowed` |
| `sync`: hub | 2 clients, a sync sender and the log sender, queues and feed of 1, 2 messages | `SlowDropped`; `Inductive`: the inductive invariants of the four parts |
| `scan_single_skips`, `scan_flush_error`, `scan_shutdown`, `bus_close_panic`, `sync_hangs`, `sync_servers` | small | each finds a behaviour of the code that contradicts its own comments (section 5) |

Why the bounds are enough. A fetch of 2 blocks against batches of 1 to 4 gives
batches that are part of a fetch, equal to it and larger; both channels of
capacity 2 fill up with their sender blocked, batches of 3 blocks occur, and a
chain that grows while it is scanned passes through the tip more than once, so
the sentinel meets full, partial and empty batches. A crash at any point of
that, followed by a full second life, covers recovery; the theorems cover any
number of crashes and any constants. In the bus and in a session, a ring and a
channel of 1 are full after one event, so both drop paths are taken. In
discovery, channels of 1 and three contracts make the feeder wait; the
application registered later makes a delta probe after a full one. In the store,
three blocks give a cut at every height of a contract that is installed,
invoked, and touched by a second address; two batches in flight give the
processor a store that is behind. Three contracts and pages of one give a page
boundary with a contract on either side of a change. In `sync`, three
sessions give a session with a predecessor and a successor, and three stops
include a stop of nothing and two in a row; three callers of two connections
make one wait; two forks with fetches of two put a fork point inside, before and
after a fetch; two senders and a queue of one are the race between a full queue
and its cleanup.

Deadlock checking is off: a stopped indexer, a closed bus, a client that has
read everything and a manager out of calls are legitimate ends.

Fairness. `LiveSpec` of the pipeline assumes weak fairness of each goroutine (Go
schedules a runnable goroutine) and of the monitor's poll (the daemon eventually
answers; a failed poll or fetch is retried for ever by the code). It assumes
nothing of `ChainGrows`, `Stop`, `Restart`, of flush failures or of API calls.
Weak fairness of the fetcher as a whole also means that a speculative fetch
either hits or misses, not that it hits; `ScanReachesTip` relies on the monitor,
and is stated for behaviours without an `IndexSingleSCID` call, since such a call can move
the cursor (finding `scan_single_skips`). The
bus assumes fairness of `Run` and of calls that have begun (`CloseRing`,
`CancelClose`), nothing of publishers and consumers: a consumer that never reads
must not hold up the others. A session assumes it of the read loop's and the
forwarders' own steps and of a `cancelAllSubs` in progress while the process is
alive, nothing of the peer. Discovery assumes only that one of the probe's
goroutines moves while one can, which suffices because each of its steps uses up
some of its work; it assumes nothing of `FastSync`, faults, `Close` or restarts.
The lifecycle assumes it of a call in progress and of each goroutine, nothing of
new calls; of a scan that is told to close, only that it ends or hangs
(`ScanLeaves`). `StopReturns` says accordingly that a stop of an installed indexer
returns or a scan hangs, and `CallsReturn` is refuted without a hanging scan. The roots state the same conditions conjoined with `part`. Store,
listings, caches, pool, reorg detection
and hub are checked for safety only.

Every property of a passing run has a mutant in `PROJECT.json`: a definition
with a plausible bug (a dropped guard, a forgotten close, a swapped order)
under which TLC finds that property violated with the run's own bounds. The
mutants are defined next to the definition they change and marked as such.

## 4. Proofs

Every theorem holds for every value of the constants that satisfies the named
assumption of its module (sizes and heights are naturals, capacities positive,
switches Boolean; in the store also: finitely many contracts, senders and ring
members are addresses, a class the rules know is neither "UNKNOWN" nor the empty
code). Its proof is an invariant that TLC checks first, as part of a
run: `IInv` in `scan_safety`, `DiscoveryInv` in `discovery`, `Inductive` in
`bus`, `store` and `sync`. Each proof goes by action, and for each action by the conjunct it can disturb; what is
said of sequences, finite sets and functions again and again is a lemma of its
own. The theorems about a root of several parts add that the parts that do not
move keep what they have.

| Theorem | Module | States |
|---|---|---|
| `TypeCorrect` | `ScanProofs` | `Spec => []TypeOK` |
| `Invariant` | `ScanProofs` | `[]IInv`, if `SingleSCIDs = FALSE` |
| `CursorHasNoGaps`, `NoDoubleCount`, `ClaimsArePersisted`, `SafeHeightTrails` | `ScanProofs` | `GapFree`, `CountedOnce`, `ClaimsPersisted`, `SafeBehindIndexed`, under the same condition |
| `BlocksStayInLine` | `ScanProofs` | `InFlight`, with `IndexSingleSCID` calls |
| `EventsAreCommitted` | `ScanProofs` | `PublishedCommitted`, without it |
| `SentinelIsLast` | `ScanProofs` | the action property `SyncAfterData`, with it |
| `Implements` | `ScanProofs` | `ImplementsProgress`, the refinement of `IndexProgress`, with it |
| `DiscoveryIsSound` | `DiscoveryProofs` | `DiscoveryInv` |
| `CachesAreComplete`, `SettledIsDurable`, `ProgressIsImported` | `DiscoveryProofs` | `CachesComplete`, `SettledDurable`, `ProgressImported` |
| `BusInvariant`, `EventsInOrder`, `LossesAreCounted`, `ClosedStaysSilent` | `EventsProofs` | `BusInv`, `OneOrder`, `LossAccounted`, the action property `ClosedSilent` |
| `EventsInvariant`, `NoSubscriptionIsOrphaned` | `EventsProofs` | `Inductive` and `NoOrphan` of `MCEvents` |
| `LifeInvariant`, `SessionsDoNotOverlap`, `StoreClosesLast`, `StopFreesStore` | `SessionProofs` | `LifeInv`, `OneSession`, `StoreOutlivesWorkers`, `StopClosesStore` |
| `PoolInvariant`, `PoolAccounts`; `PoolIsAccounted` | `RpcPoolProofs`; `SessionProofs` | `PoolInv`, `PoolAccounted` of the pool, and beside the other parts |
| `ReorgInvariant`, `ForksAreFound`; `ReorgsAreFollowed` | `ReorgProofs`; `SessionProofs` | `ReorgInv`, `ChainFollowed` likewise |
| `SlowClientsAreDropped`, `SessionInvariant` | `SessionProofs` | `SlowDropped`, and `Inductive` of `MCSession` |
| `StaleBodiesAreExcused`, `CacheStructuresAgree` | `StoreProofs` | `StaleExcused`, `CacheAccounted` |
| `PagesAreComplete` | `StoreProofs` | `PagesCover` |
| `PrefixesAgree` | `IndexStoreProofs` | `PrefixConsistent` |
| `StoreTypes`, `NothingIsAhead` | `IndexStoreProofs` | `TypeOK` of `IndexStore`; `NothingAhead`, a conjunct of `PrefixConsistent` |
| `ClassRowsFollow`, `DerivedIndexesAgree` | `IndexStoreProofs` | `ClassRowsAgree`, a conjunct of `QueriesAgree`, and all of it |
| `ClassSurvives` | `IndexStoreProofs` | `ClassKept` |
| `PartsAgree` | `StoreProofs` | `Inductive` of `MCStore` |

Why each needs an inductive invariant, and what it says:

* Pipeline. None of the four safety properties says anything of the batches in
  flight, so none survives a step on its own. `FlushLine` and `FetchLine` chain
  the spans of the flusher's batch, `flushChan`, the batch under construction,
  `fetchChan` and the fetcher's cursor end to end: each begins where the one
  before ends. `Contents` says that each carries the blocks of its span, but for
  those given up on. `StoreLine` places the stored cursor and the reported height
  relative to `Front`, the last block the flusher has dealt with, and says that
  nothing above the cursor is committed; a commit therefore adds blocks nobody
  committed before, right above a prefix that is accounted for. `AtBoot` covers
  the time between a (re)start and the first scan. With concurrent
  `IndexSingleSCID` calls the four properties do not hold (finding
  `scan_single_skips`), so `SingleSCIDs = FALSE` is where they end, not a
  convenience. What does hold with them is `InFlight`, the two lines and `Contents`
  without `StoreLine`: such a call moves the stored cursor and never a block on its
  way. The step simulation of `Implements` maps a flush to `Commit`, a
  publication to `Report`, a restart to what the abstraction calls one, and all
  else to a stutter; it needs the invariant for a commit to be the next one.
* Discovery. A cache is complete if the probe that wrote it was, so the invariant
  says of each phase where a candidate can be: still to be fed, in the feeder's
  hand or on `work`, found, or hidden by a decode error (`Covered`), and an
  application found is waiting for its chunk, in a chunk on `varWork`, or in the
  class batch, which has variables for it (`Chunked`). `Stages` empties these
  places one by one, so that nothing is left when the caches are saved. A delta
  probe covers only what is above the height of the cache or seed it started
  from: below it, `CacheComplete` and `Cached` tie the cache to the class bucket,
  `SeedComplete` and `Seeded` a seed to the registry of its height. `SettledLine`
  splits `SettledDurable` by whether the session fetched a registry, because one
  that trusted a fresh cache has only the cache to go by, whose height the
  monitor may raise. `Imported` follows the fill through the slice: each exchange
  of the sort either stays on one side of the fill's position or adds the contract it
  moves behind it to `skipped`. `Fetched` is what the two calls leave: the registry of
  the chain height is among the candidates, and these are in the daemon's latest. A cache
  or seed may therefore list contracts above its height (`Cached`, `Seeded`), and a
  seed's hash is that of its height's registry all the same.
* Bus. What a subscriber has received, has in its inbox, and has been refused
  is a set of consecutive events of the ring up to `Popped`, minus what its filter
  rejects; the delivery in progress (`FanLine`) may still owe the last one. The
  ring itself is a segment of the log of accepted events (`RingLine`).
* Session. `NoOrphan` is inductive once one knows that `cancels` is empty before
  `cancelAllSubs` begins.
* Sync manager. `Counts` is the heart: the WaitGroup's counter is the number of
  goroutines at work, the ticker having taken over the setup's count, so that
  `done` is closed when the last has ended; `DoneLine` and `StoreLine` place the
  closing of `done` and of the store in the order of the calls, `Fresh` and
  `Stages` say what has not begun yet.
* Pool. The flag goes up under the mutex before the channel is closed
  (`CloseOrder`), and each open connection is in exactly one place (`OnePlace`).
* Reorg detection. `QueueLine` chains the batches between the store and the
  fetcher, `ComparedLine` says that each fetched or stored block was compared
  with the stored one below or is listed as not compared, `Linked` and what
  follows it tie stored and fetched blocks to branches of the daemon's chain.
  `findForkPoint` is the closed form of its loop: the highest height, within the
  depth, whose stored block is the daemon's.
* Hub. A connection not opened yet is on no list (`Served`).
* Content cache. The invalidator empties the bucket last, so a body in memory
  or in a request's hands has no excuse in an invalidation under way
  (`MemoryLine`, `RequestLine`), while one in the bucket has (`DiskLine`), and keeps an
  excuse where the bucket could not be emptied; and the
  index by contract must list all of a contract's entries (`IndexAgrees`), or an
  invalidation would pass one over. For `CacheAccounted` the invariant is `Counted`:
  the ring holds each key of `items` once (`HoldsOnce`) and `size` is their sum. The
  lemmas on sums say that a sum over a finite set does not depend on the order
  it is taken in and loses exactly the weight of what is taken out; those on
  rings, that an eviction and an invalidation take each key out once.
* Listings. A sorted listing is described by its order alone: `Ranks` says that
  in `InOrder` each member stands behind exactly those before it. A page is complete
  when every contract promised to the client, and not excused, is on an earlier
  page or stands at or behind the next offset. A commit can only push a place back
  (`PlacesGrow`), and where it pulls one forward an excuse names it; `ReplyKeeps` is the
  one lemma all nine handlers use. For the handlers that read rows and then
  owners, `ClassBegins` and `HeightBegins` carry the promise over the commits in
  between; for the catalogs, `SnapshotStays` says what a list built at an older height
  still has.
* Store. `Kept` says of the store what `Sent` says of each batch on its way: rows
  of the right types, none above its height, owners and installs in step with the
  chain, every invocation with its edge and its height. It is proved along the
  path of a block: `TxFits` for one transaction, `LoopRuns` and `ProcessedFits` for
  all of a block's, `FlushFits` for a commit, `CutFits` for a truncation, `RefreshFits`
  for the refresher. The queue's heights must ascend (`QueueFits`), or a commit
  could put `last` below rows that are there. `Scanned` adds that a contract is
  installed once on a chain, which is what makes its owner the sender of its
  install after a cut and a replay.
* Prefixes. `Built(c, n)` is the store a block-by-block scan of the first `n` blocks of
  `c` builds. A block joins the same rows to whatever batch it is added to
  (`BlockJoins`), and joining is associative (`JoinedAgain`), so how batches were cut
  does not matter: each batch on its way bridges the height where the one before
  ends and its own (`Bridges`), and a commit moves the store from one built prefix to
  the next. A truncation leaves what the shorter scan builds (`BuiltTrims`,
  `CutMatches`), but for what the property names. `PrefixInv` says this of store, batch
  and queue, and needs `Lines`, the order of their heights. It assumes
  (`BlockAssumption`) that a normal transaction's payloads are a sequence whose rings
  hold addresses. The counts of transactions (`CountTx`) are compared only as long as
  nothing was truncated or reset.
* Classes. The lemmas `RowsFlushed` and `RowsCut` say of `Flushed` and `Cut` that they
  keep the listing and the metadata in step, for any batch and any set of
  contracts that go; no fact about the batch is needed, because the row of a
  contract names it. That the class is the right one needs more (`ClassLine`): no
  two batches on their way have metadata of one contract (an invoke that would
  break this is what `raced` records), and a contract whose install is not known
  is of no class, so that a later install is the first to name one.

Every loop of the model over data (the transactions of a block, the evictions of a
cache, a sum, a sort) is treated the same way: had the statement a
counterexample, it would have a smallest one, and one step refutes it
(`LeastNumber`, `SmallestSet`).

Only model-checked, and why:

* Liveness (`ScanReachesTip`, `DrainEnds`, `StopReturns`, `Drains`, `CloseReaches`,
  `Released`, `Settles`): TLAPS does not prove liveness under fairness.
  Every safety property of the passing runs is proved.

## 5. Where the code and its comments disagree

* `scan_flush_error`: a failed `FlushBatch` is logged and dropped, the next batch
  moves the stored cursor past it (`indexer.go:822`); the comment at 622-625
  promises the opposite.
* `scan_single_skips`: `IndexSingleSCID` stores the chain tip as the resume cursor
  (`indexer.go:1535`, `bbolt.go:1166`), so a restart skips what lies between; the
  same write, made from a stale height, can also lower the cursor.
* `scan_shutdown`: the processor leaves its loop on `Closing` without draining
  `fetchChan`; a fetcher blocked on a full channel never returns, nor do
  `scanLoop` and `StopSync`.
* `bus_close_panic`: `Publish` and `Close` race to a send on a closed channel.
* `sync_hangs`: a `StopSync` that copies the manager's fields before the setup has
  installed the indexer, or a `StartSync` on a running session, waits for ever
  with `lifecycleMu` held.
* `sync_servers`: a `StopSync` that falls between the installation of the indexer
  and of the servers leaves them serving a closed store.

Also seen while modelling, and not given a run of its own. Where one of them
limits a property, the property names it as an excuse.

* Sync manager: the health watcher is added to the WaitGroup after its waiter was
  started (`sync.go:206`, against the comment at 192-194). `FastSync`'s error is
  only logged; the daemon scan then starts at the tip and stores progress, so
  the registry is never imported later.
* Bus and sessions: a subscription made after the bus was torn down is never
  closed (`bus.go:219`). A forwarder's write error sets the map of
  subscriptions to nil and does not close the connection (the comment at
  `ws.go:636` says it does); a later subscribe writes to the nil map. Events may
  precede the response to their subscribe and follow that to an unsubscribe.
* Discovery: the probe's sort moves the slice `FastSync` ranges over, so a
  candidate can be skipped (comments at `fastsync.go:222-227` and 364-368 call the
  two independent). The cache is saved before the registry is flushed: after a
  crash in between, the next start trusts the cache and never imports the owners.
  A stored height from before the probe ended makes the next start skip
  `FastSync`. `TELAProbeSettled` is set although the variables' flush failed.
  The refresher's workers return on `Closing` while its feeder may be sending
  (against the comment at `fastsync.go:623-627`).
* Store: `TruncateToHeight` leaves the transaction counts, and the edges of
  contracts touched only by normal transactions, to the replay; `ResetIndex`
  keeps hashes and invocations, which a later `TruncateToHeight` counts into the
  edges it rebuilds. An invoke processed before its install is
  flushed keeps no class of its install. `handleInstallSC` marks a contract
  invalid on a transient RPC error, `handleInvokeSC` drops an invoke it cannot
  fetch.
* Listings: pages of a class are not stable, since contracts of one height are
  sorted unstably from a map (the comment at `ws.go:709-711` says they are), and a
  refresh moves rows to a later height. An older catalog can be stored over a
  newer one. An empty class lists everything in `ws.go` and nothing in
  `gnomon_ws.go`; a limit of 0 is unbounded in one and 100 in the other.
* Content cache: a request that loaded a body before the invalidation stores
  it after; an event lost on a full channel, or in a crash between commit and
  publish, leaves a stale body in the bucket.
* Reorg detection: the comment at `reorg.go:25-27` says that after an unchecked
  block "the NEXT batch will have a stored predecessor and the check will be
  meaningful"; when the unchecked block was the first of a new branch, the next
  one's predecessor is on that branch and nothing is ever reported. Nor does a
  report "re-fire on every tip poll": the fetcher moves on after one.
* Hub: between a full queue and the cleanup that drops the client another
  `Send` may find room, so a slow client can get a later message after a gap,
  just before its connection closes.

## 6. Plan

Done: the pipeline, the bus, the lifecycle, and their companions of section 2.

Proved: section 4, every safety property of the passing runs.

What is left:

* Compaction and atomic file replacement: a crash between any two file
  operations.
* The refresher's feeder and the single flight for contract code (`sccode.go`).
* The TELA proxy's one-shot start.

### Not modelled

* Compaction (`HG/storage/compact.go`) and atomic file replacement: planned, not
  called by the scan.
* FastSync without turbo mode and `SegmentSync`: the application does not use
  them. The post-scan fetch of all variables: it runs with `lazy`.
* The text of contracts and the patterns matched on it, encodings and pools of
  objects: pure functions on data the properties do not tell apart.
* Queries of the APIs that read one row, compression, signatures, the explorer,
  the daemon client and the router: request and response, with no state of
  their own.
* The contents of dashboard events, the stored log lines, the tray and desktop
  integration, the web pages: presentation.
* The gnomes compatibility library and the storage benchmarks: the application
  does not use them.
* A power failure while bbolt runs with NoSync, beyond the loss of the process.
