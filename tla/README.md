# OpenRelay in TLA+

OpenRelay is a relayer for the 0x protocol: some twenty small Go services that
pass orders and blockchain events to each other over Redis and keep an SQL index
of the orders that can be filled. This directory models the parts of it whose
correctness depends on the order of events: who reads and writes what, in which
order, where a process may die, and what is left behind when it does.

- TLC checks every `MC*.tla` module, and `DelayRelay.tla` itself, with the `.cfg`
  files named after the component, e.g. `tlc -config BlockMonitor.cfg MCBlockMonitor`.
- TLAPS checks the eight `*Proofs.tla` modules, e.g. `tlapm BlockMonitorProofs.tla`.
  Each is about the module it is named after; `OrderPipelineProofs.tla` is about
  OrderIndex, alone and at the end of OrderPipeline.
- `PROJECT.json` lists the components, the runs, the source lines each
  definition stands for, the hazards of the code, the disagreements with its
  comments and documents that the runs show, and the theorems.

## The system

An order enters over HTTP (ingest or the API) and passes through a chain of
services, each of which consumes a Redis queue and publishes to the next: exchange
splitter, cancel-up-to filter, fill updater, fund validation, pool filter, indexer. A block
monitor publishes block headers; monitors for fills, spends, allowances and
cancellations consume them, query the node and publish records, which further
services write to the SQL index. All services share one library, `channels/`.

| Component | State | Operations | Interacts through |
|---|---|---|---|
| Queue (`channels/queue_consumer.go`, `delivery.go`, `publisher.go`, `util.go`) | three Redis lists per queue; per process a fetched delivery, `deliveryChan`, semaphore slots | Publish, consume, Ack, Reject, Return, ReturnAllUnacked, PurgeRejected, StopConsuming | Redis; every other service |
| Relay (`relay.go`, `cmd/simplerelay`) | one goroutine per delivery | Filter, Publish to each destination, Ack | queue to queues |
| Delay relay (`delay_relay.go`, `cmd/delayrelay`) | sentinels in its queue, `delayChan`, `sync.Once` | Flush, Filter | queue, signal topic |
| Topic (`topic_consumer.go`) | a subscription | Publish, consume | Redis pub/sub, lossy |
| Block monitor (`monitor/blocks`) | ring buffer; last number, in Redis | Process, publish, Record | Ethereum node; one queue out |
| Fill, spend, allowance, approval, cancel-up-to, affiliate, multisig monitors | none of their own (the fill monitor: a bloom filter) | Consume a block, query logs, publish records; Return and exit on an RPC error | block queue; record queues |
| Order index (`db/`) | `orders` and `cancellations` tables | Index, RecordFill, RecordSpend, RecordCancellation | order queue, record queues, SQL |
| Fill updater (`funds/filled_*`, `fillbloom`) | bloom filter, stored in S3 | look an order up, publish it | order queue, fill topic, node |
| Fund validation (`funds/order_validate.go`, `funds/balance`) | balance cache, emptied at every block | four concurrent lookups per order | order queue, block topic, node |
| Cancel-up-to filter (`funds/cancellation_*`) | none | read the epoch, mark the order | order queue, SQL |
| Pool filter (`cmd/poolfilter`, `pool`) | cache of pools | ask the pool's filter contract | order queue, SQL, node |
| Ingest and HTTP API (`ingest`, `api`) | a cache of exchanges, one variable shared by all requests | take an order, quote a fee | HTTP, order queue, Redis, SQL |
| Accounts, affiliates, base fee (`accounts`, `affiliates`, `config`) | keys in Redis | Get, Set | Redis; ingest, API, affiliate monitor, command line tools |
| Terms of use (`terms`, `db/terms.go`) | three SQL tables, a cache of hash masks | show the terms, save a signature, update the terms | HTTP, SQL, the CDN in front |
| Block hash (`blockhash`) | latest hash, in a goroutine | Get, update | block topic, search API |
| Search API (`search`) | none | read-only queries | SQL |

What is hard to get right:

- **Interleavings.** Every service handles several messages or requests at a time
  and may run several times; no Redis MULTI is used anywhere and one SQL
  transaction (of UpdateTerms). Maps and variables are shared without a lock.
- **Crashes.** A service that meets an RPC error exits and is restarted; a panic
  in a worker goroutine ends the process. Redis lists, the recorded block number
  and SQL rows survive, everything in memory is gone.
- **Errors taken for success.** `redisErrIsNil` tells timeouts from other errors,
  and most callers ignore what it says.
- **Reorganisations.** The chain changes between any two RPCs.
- **Numbers.** Amounts are 256-bit words, and remainders may be negative.

What makes the components correct, in the order of importance the models follow:
no block is skipped; no message is lost, wherever a process ends; a delayed
message stays delayed until its flush and is released by it; an order that is
filled, cancelled or unfunded does not stay open in the index; an order passes the
fund validation on amounts the maker really had; every event of a block the
monitors ack has its record; only sound orders reach the queue of new orders, and
every request is answered; a saved signature is of the terms its signer was shown.

## Modules

Every action is one atomic step of the code: one RPC, one Redis command, one SQL
statement or one channel operation, with everything the code does up to the next.
Definitions named `...` with a comment *Mutant of X* are deliberately wrong
variants of `X`, which show that the properties can fail; nothing uses them.

### BlockMonitor

`Process` of `monitor/blocks/blocks.go` with its ring buffer and recorder. The
blocks and their parents are a constant tree, the node's canonical head a
variable that may move to any longer chain at any time (`NewHead`). `pc` is where
`Process` is: `poll` (`Poll`), `walk` (`WalkBack`, `AddNext`, `AlreadyExists`),
`publish`, `record`, and `down` or `fatal` between two processes. `header`,
`counter`, `ring` and `rhead` are the code's variables. `Crash` is any end of the
process. `fresh`, `resumed`, `cut` and `lost` are history: the starting blocks
taken from the latest header and from the recorder, the blocks at which the walk
back gave up, and those whose message a Redis error lost.

A node answers `HeaderByHash` for stale forks; when it does not, the code
dereferences a nil header (blocks.go:129), which is a `Crash`.

### RedisQueue

One queue, any number of processes that consume it, and the relay or another
consumer as their workers. `loop`, `fetched`, `chan`, `held` and `work` follow a
delivery through `consume()`, `deliveryChan`, `Consume` and the worker goroutine.
A worker ends in one of the ways in `Ends`: `relay` (filter, publish, Ack),
`reject` (the indexers), `return` (the monitors and the pool filter, which exit
afterwards). Reject and Return are two Redis commands, hence two actions each.
Redis errors are either timeouts (the command may have been done, the caller
learns of it) or others (the caller carries on): `FetchError`,
`RelayPublishError`, `AckError`, `ReturnError`. `SweepStart`/`SweepMove` and
`PurgeStart`/`PurgeTrim` are ReturnAllUnacked and PurgeRejected.

Left out: the ack statistics of `StartConsuming`; batches of PurgeRejected, whose
lists are shorter than one batch here.

### DelayRelay

The delay relay on a queue that is FIFO (`InOrder` of RedisQueue, proved as
`RelayedInOrder`): `pipe`, whose
first `pre` entries are in the process's memory and in the unacked list. The
worker takes them one at a time (semaphore of 1); at a sentinel it acks and waits
on `delayChan`. A call of Flush reads `relay.once` (`gen`), enters or waits for
its `Do`, publishes a sentinel, meets the worker on `delayChan` and renews
`relay.once`. `mark` is how many messages had been sent when the last sentinel
was published by a Flush. That DelayConsumer forwards its signal is left out.

### OrderIndex

The two tables and four services that write them. `row[o]` has the columns the
services compute: filled, remaining maker amount and fee, status, cancelled.
`Populated` is `Order.Populate` and the status rule of `Save`; `Update` its
UPDATE. RecordFill is two statements with the row it has read kept in between
(`filling`); Save is an UPDATE and, if it touched nothing, an INSERT (`indexing`);
RecordCancellation is FirstOrCreate's SELECT, its INSERT or UPDATE, and the UPDATE
of the orders. A statement that fails and a process that ends leave a message half
done (`IndexFails`, `FillFails`, `CancelFails`). An UPDATE that fails is followed by the
INSERT, which meets the primary key if there is a row; and Save refuses what a failed
SELECT left empty: both end in a Reject that wrote nothing, which is a message that
never came, since the number of messages is a bound. So is a failure of RecordSpend's one
statement. Amounts are reduced modulo `Word` (2^256). `total` is history: what
the last indexing and the fills since add up to.

`Index`, `RecordFill` and `RecordCancellation` have their message as a parameter, so
that OrderPipeline can give them what its queues hold; `IndexUpdate`, `FillSelect`
and `CancelSelect` call them with any message.

One maker, one maker token and one sender; ingest rejects orders with a zero
amount (ingest.go:206, 218), so taker amounts are positive. Price, fee rate and
pool are left out, and so are messages that cannot be parsed or verified, which
are rejected without a write.

### FundCheck

`ValidateOrder` and the cache of balances and allowances behind it. A call of
ValidateOrder starts four lookups, each a goroutine that goes through
`CheckCache`, `Ask` and `Store` (the mutex, the RPC and the mutex again) and then
waits to send its answer; the call receives the answers one after the other
(`Receive`), returns at once for a token without contract code
(`ReceiveNoCode`) and panics on any other error (`ReceivePanic`), which ends the
process with all its calls. `Consume` replaces the cache when a block message
arrives. The node's amounts change with every block (`NewBlock`), between any two
steps. `past`, `since` and `late` are history: what the node has reported at all,
what it has reported since the cache was last emptied, and which lookups were
under way at that moment.

An order is the amounts and the four cache keys of its checks; a balance and an
allowance are keys like any other. `RemainingAmount` keeps what `big.Int.Bytes`
does to a negative remainder: the order then requires its absolute value. Left
out: the two RPCs of an ERC721 allowance (one read here), the inverted filter, and
messages that cannot be parsed or verified, which are refused without a lookup.

### ChainMonitor

The seven services that turn the logs of a block into records: `mon` says which one
the process is, and `QueryOf` and `RecordOf` what it asks the node and what it makes
of a log; everything else they share. `Begin` tests the block's bloom filter,
`Filter` asks for the logs at the block's number, of whatever chain the node has by
then, `HandleLog` publishes the record of one log, `Ack` ends. `FilterFails` and
`HandleLogFails` Return the block and end the process; `Crash` ends it anywhere.
`RecordRefused` is a record that Redis does not take: the monitors look at no result of
Publish, so that the loop goes on and the block is acked (`lost` has the log). What
a process had prefetched stays in the unacked list (`orphans`), as RedisQueue shows.
The fill monitor also keeps its bloom filter: `Initialized` (from the file, or from
the events of an earlier exchange contract, which is what the code asks for), `Save`,
`SaveFails`, and a crash in the middle of a write. `taken`, `acked`, `lost` and `unsaved`
are history. A log is named by its place, its block and its index there: `FilterLogs`
gives a set of places, which the loop takes in order (`NextLog`), and a record is
published with the place of its log, so that a second copy can be told from an equal
event. `EventLayout` says how many topics and bytes the contracts' events have, which
decides what the services skip: a token's Transfer may index all of its arguments, two
or none (`Plain`, as CryptoKitties'). No query finds the last kind, so that the branch
for it (spend.go:69) is never taken. `Reverts` are the transfers of assets whose allowance
call reverts: ERC721 tokens with ERC20's signature (`Hybrid`), for which the code has its
fallback, or any other asset. Data words are values; the balance in a spend record is left
out.

### OrderPipeline

Composes OrderIndex (by EXTENDS: its variables are the tables, its operations the
last steps) with the services before it, wired as docker-compose.yml does. A copy of
an order is in one queue at a time (`msg[c].at`); `Split`, `CancellationFilter`,
`LookCancelled`, `LookFilled`, `Publish`, `FundCheck`, `PoolFilter` and `IndexOrder`
move it. On the other side `Mine` and `MineEpoch` are the exchange contract, whose
events reach the index through the fill monitor (`MonitorFill`), the simple relay
(`Relay`) and the indexers (`RecordTake`, `RecordSave`, `EpochTake`...), and the fill
updater's bloom filter through a lossy topic (`TopicDeliver`, `TopicLose`) and the
filter's file (`Save`, `UpdaterRestart`). `missed` is history: the orders with an event
that was lost or came at one of the bad times that the comment of `ClosedLeavesBook` lists.

Every service of the pipeline may lose what it has in hand: a monitor by ending in the
middle of a block or by a record Redis refuses (`MonitorLoses`, and `EpochLost` for the
cancel-up-to monitor); the relay by ending between its destinations, or at one of them,
whose result it ignores while the other still gets the record (`RelayFails`); the services
on an order's way (`CopyLost`, `CancellationFilterFails`, `UpdaterRestart`,
`PoolFilterEnds`); and the indexers by a statement that fails, which is a Reject, or by
ending with a message in hand (`RecordLost`, `RecordFails`, `EpochLost`, `EpochFails`,
`InsertFails`). A process that ends with several workers busy is several such faults.
Nothing brings back what is in a rejected or unacked list, so that all of these are losses.

The fund check's verdict is left open (FundCheck models it). No pool that is read
from the database has a filter address (types/network_map.go:30 decodes into a
copy), so the pool filter passes every order it can look a pool up for.

### Intake and Admission

The four handlers that take orders or quote fees. A request is a goroutine (`pc`) with
up to three lookup goroutines (`network`, `affiliate`, `account`), each with an
unbuffered channel; `OrderStages`, `PostOrderStages`, `FeesStages` and
`PostConfigStages` are the orders in which the handlers receive, answer and publish.
`Decode` is everything up to the start of the lookups: which flaws a handler refuses
is a set (`OrderChecks`...), and an order is the set of its flaws with the fields the
lookups need. What is shared is modelled: the content type in the closure of
`ingest.Handler` (`Header`, `Read`), the exchange cache (`ReadCache`, `QueryExchange`,
`MapRace`) and Redis, which the command line tools change (`SetBaseFee`,
`SetDiscount`). Errors of Redis and SQL are the actions named `...Fails`. `PublishFails`
is a command that was done or not: `PostOrder` answers 500 to a timeout and 201 to any
other error, which `redisErrIsNil` takes for success; `ingest.Handler` has answered 202.

Details kept because they decide who is refused: `ingest.Handler` reads at most 1024
bytes once, so that a body in two parts is cut; `FeeHandler` looks at the fee
recipient where it means the exchange and panics on `null`; the order handlers panic on
asset data or a signature that is too short to look at (`Panics`: asset_data.go:16, 24,
30, signature.go:31), with the exchange's lookup under way; `PostOrderConfig` decodes
into its error variable, so that it always sees the zero addresses and every request is
refused as one for an unknown exchange; the default pool may have no row.

`Admission` is what the handlers promise, over three variables: the order of each
request, what its client was told, and what is on the queue. `Intake!A` instantiates
it with the mapping that hides lookups, stages, quotes and the kinds of refusal. It does
not promise that an accepted order is queued, since Redis may refuse it behind the
client's back; `QueuedUnlessBlacklisted` says that nothing else loses one but the
blacklist.

### Terms

The tables of terms, hash masks and signatures; GETs in `TermsHandler` (`GetTerms`,
`CachedMask`, `NoMask`, `CreateMask`), the CDN's copy, clients that sign what they were
shown up to five minutes later (`Sign`, `Post`), and UpdateTerms, whose read
(`ReadOld`) is outside its transaction (`Commit`, `Rollback`). A read that fails
(`ReadOldFails`) is taken for one that found nothing. `disturbed` is history: updates have
overlapped, or such a read has failed. Time is counted in units
of five minutes. One language; signatures are good, and a nonce fits its mask.

## Runs

Passing runs; deadlock is not checked because every instance stops when its
bounds are used up.

| Run (`.cfg`) | Shows | Bounds |
|---|---|---|
| BlockMonitor | `TypeOK`, `NoGap`, `WalkFindsAncestor`, `RecordedWasPublished`, `ChainEmitted` | three forks, ring buffer of 2, so that walks are cut short; two faults: a crash, and one while recovering from it; one ignored error |
| RedisQueue | `TypeOK`, `InFlightBacked`, `AtLeastOnce` | two processes, two messages with the same payload (so that an LREM may take another's copy), two destinations, one end, one Redis error, one sweep or purge |
| RedisQueueOrder | `InOrder`, `EventuallyHandled` | one process, four messages of three payloads |
| DelayRelay | `TypeOK`, `PilesUpUntilFlush`, `OnePausePerFlush`, `FlushReleases` | two callers, three flushes, two messages, a restart at any step, one sentinel that is not published |
| OrderIndexConcurrent | `TypeOK`, `FilledNotOpen`, `RemainingAgrees` | two workers of each service, two messages each, one spend; an order of 200 with fills of 99 and 101, which miss, reach and overrun the threshold of 198 |
| FundCheck | `TypeOK`, `CacheFresh`, `VerdictJustified`, `Decided`, `LookupsEnd` | two concurrent calls, of an order with a moving balance and a half-filled one whose token has no contract code; one block, one error or crash |
| ChainMonitor | `TypeOK`, `AckedPublished`, `DuplicatesExplained`, `BloomRemembers`, `BlocksHandled` | each of the seven services; a chain of one block replaced by one of two, with events of every kind, two tokens of one ERC721 contract, events without indexed arguments, allowance calls that revert for the right and for the wrong token, approvals of both proxies and a bloom filter with a false positive; two blocks prefetched, three faults (an error, a refused record, and a crash while recovering) |
| OrderPipeline | `PTypeOK`, `ClosedLeavesBook`, `CancelledOnChain` | an order submitted twice, one copy at a time; up to four of two fills or a cancellation and three epochs, the last of which is the one that cancels the order, with two workers, so that a smaller epoch may be written last; one fault anywhere |
| Intake | `TypeOK`, `DecodedAsSent`, `QuoteHonoured`, `QueuedUnlessBlacklisted`, `Admits`, `Answered` | two requests, each one of ten (all handlers, both encodings, a flaw, short asset data, an unknown exchange, an expired and an unknown pool, a blacklisted maker, a body in two parts, `null`), one error or change |
| Terms | `TypeOK`, `ServedMaskGood`, `OneCurrent`, `SignedAsShown` | two GETs, two updates, one signer, an hour, two versions and two masks, one error |

The instances are small because each hazard needs few actors: two concurrent
operations, a crash between two steps, one reorganisation longer and one shorter
than the ring buffer, one copy of an order overtaken by one event. Workers, processes,
requests to the terms and updates are interchangeable, and the safety runs with
several of them use that symmetry; liveness runs use none.

Runs in which the code and what is said about it disagree; each is a violated
property and a finding in `PROJECT.json`:

| Run (`.cfg`) | Violated | What happens |
|---|---|---|
| RedisQueueOrphans | `OrphansReturned` | nothing returns the messages of an ended process |
| OrderIndexLostFill | `FillsCounted` | two fills read the same row |

What the passing properties except, because the code does it:

- `ChainEmitted`: the walk back gives up (`cut`); a restart resumes on a fork that was
  never emitted (the recorder keeps a number and no hash, and the comment at
  blocks.go:82-84 takes the block at that number for published); and the monitor exits
  with "already exists", which a chain that returns to an earlier fork reaches
  although every hash is right. It speaks of the blocks after the last start at the
  latest header: a monitor that ends before its first Record skips those in between.
- `AtLeastOnce` allows one lost copy per Redis error: `redisErrIsNil` takes an error
  that is no timeout for success, and the relay ignores what Publish answers. The
  properties of the block monitor name the blocks lost in this way (`lost`).
- `PilesUpUntilFlush` speaks of one life of the process: a restart releases what had
  piled up, because the filter acks the sentinel before it waits.
- `FlushReleases` speaks of calls that find no other in their `sync.Once`: a call that
  waits for another's returns without releasing what was sent after that one
  published its sentinel.
- `CacheFresh` names the entries of late lookups: GetBalance asks the node outside
  the mutex, so an amount from before a block may be stored after the cache was
  emptied for it, and is used until the next block.
- `LookupsEnd` names the calls that return early for a token without contract
  code: the goroutines of their other lookups wait for a receiver for ever.
- `AckedPublished` names in `Skipped` the events whose record the code drops or gets
  wrong: transfers and approvals without indexed arguments, which no query finds; of the
  transfers of one contract's tokens by one account in a block all but the first
  (spend.go:90), although they may be different ERC721 tokens; transfers taken for another
  asset, because the allowance call reverts although the token is not `Hybrid`, or does not
  although it is (spend.go:101); approvals of the RoboDex proxy in a block with approvals of
  the token proxy (allowance.go:78); and every revoked operator (approval.go:50). Events
  whose record Redis refused are in `lost`. TLC finds a violation without any one of these.
- `BloomRemembers` says nothing while the filter cannot be read: a file that was cut
  short when it was first written ends the fill monitor at every start.
- `ClosedLeavesBook` names in `missed` how an order that is closed on the chain stays
  Open: a fill between the fill updater's lookup and the INSERT, a lookup that failed
  or trusted a filter that had not heard, a row changed while RecordFill had it in hand, a
  smaller epoch written last, the first two epochs of a maker met in the table, and a
  record or an epoch lost by a monitor, by the relay on its way to the queue, or by an
  indexer. None of them is repaired later, and TLC finds a violation without any one of
  them.
- `QueuedUnlessBlacklisted` and `QuoteHonoured` speak of the requests that no fault has met
  and during which no operator has changed anything (`stable`).
- `DecodedAsSent` names the requests that overlapped in `ingest.Handler`.
- `OneCurrent` allows several current versions once two updates have overlapped or one
  could not read the old terms (db/terms.go:222, 231), against the comment at
  db/terms.go:13-14, which wants one.

### Fairness

- BlockMonitor: weak fairness of `Step`, the process's own steps. It is one
  goroutine that waits for nothing but the node and Redis, and docker-compose.yml
  restarts it. `NewHead` and the faults are not fair: the chain may stop growing
  and nothing needs to fail.
- RedisQueue: weak fairness for each goroutine separately (the fetch loop with
  the restart, the dispatcher, each worker), as the Go scheduler gives it. Nobody
  is obliged to publish, to fail, to sweep or to purge.
- DelayRelay: weak fairness of the fetch loop, the worker and each call of Flush
  that has begun. Calls of Flush are not fair.
- FundCheck: weak fairness of all steps of the calls and lookups together: as long
  as a goroutine of the process can go on, one of them does. This is less than the
  Go scheduler gives and enough, since each goroutine takes a bounded number of
  steps. An RPC returns in the end, with an answer or an error. Blocks, block
  messages and new orders are not fair: the topic is lossy.
- ChainMonitor: weak fairness of the fetch loop, of Consume and of the restart, which
  docker-compose.yml does (`restart: on-failure`). New blocks and faults are not fair.
- Intake: for each request weak fairness of its goroutine and its lookups together.
  Requests need not arrive, and errors and changes need not happen.
- OrderPipeline and Terms: none; only safety is stated.

## Proofs

The theorems hold for every value of the constants that the named assumptions allow:

- bounds, amounts and block numbers are naturals, sizes are positive, a block's number
  is its parent's plus one, and a block has the same number on every chain;
- inputs are records of the right shape, and orders carry order flaws only;
- there are finitely many processes of a queue (any number of workers in each);
- the values that stand for an absent row or file are no rows and no filters;
- a contract's events have the topics and the data its ABI declares (`EventLayout`).
  A token is any contract, so of tokens this assumes no more than that `Transfer` and
  `Approval` have three arguments of a word each, of which none, two or three are indexed
  (two in the `Transfer` of a `Hybrid` token), and `ApprovalForAll` two indexed ones.

| Theorem | States | From |
|---|---|---|
| `BlockMonitorProofs!TypeCorrect` | `Spec => []TypeOK` | `Invariance` |
| `BlockMonitorProofs!EmitsNoGap` | `Spec => []NoGap` | `Invariance` |
| `BlockMonitorProofs!RecorderBehindQueue` | `Spec => []RecordedWasPublished` | `Invariance` |
| `BlockMonitorProofs!WalkBackIsLongEnough` | `Spec => []WalkFindsAncestor` | `WalkInvariance` |
| `DelayRelayProofs!TypeCorrect` | `Spec => []TypeOK` | |
| `DelayRelayProofs!NothingBeforeFlush` | `Spec => []PilesUpUntilFlush` | `OneLife` |
| `DelayRelayProofs!PausesMatchFlushes` | `Spec => []OnePausePerFlush` | `PauseInv` |
| `FundCheckProofs!TypeCorrect` | `Spec => []TypeOK` | `Invariance` |
| `FundCheckProofs!CacheStaysFresh` | `Spec => []CacheFresh` | `Invariance` |
| `FundCheckProofs!VerdictsJustified` | `Spec => []VerdictJustified` | `Invariance` |
| `IntakeProofs!TypeCorrect` | `Spec => []TypeOK` | `TypeInit`, `TypeStep` |
| `IntakeProofs!ImplementsAdmission` | `Spec => Admits`, that is `A!Spec` | `InvInit`, `InvStep`, `RefInit`, `RefStep` |
| `IntakeProofs!QuotesHonoured` | `Spec => []QuoteHonoured` | `FeeInductive` |
| `IntakeProofs!QueuedOrDropped` | `Spec => []QueuedUnlessBlacklisted` | `FeeInductive` |
| `IntakeProofs!HeadersKept` | `Spec => []DecodedAsSent` | `HeaderInit`, `HeaderStep` |
| `RedisQueueProofs!QueueTypes` | `Spec => []TypeOK` | `IInv` |
| `RedisQueueProofs!DeliveriesBacked` | `Spec => []InFlightBacked` | `IInv` |
| `RedisQueueProofs!DeliveredAtLeastOnce` | `Spec => []AtLeastOnce` | `IInv` |
| `RedisQueueProofs!RelayedInOrder` | `OneWorker => (Spec => [](Undisturbed => InOrder))` | `IInv`, `OrderInv` |
| `OrderPipelineProofs!IndexTypes` | `Spec => []TypeOK` (of OrderIndex) | `IndexInductive` |
| `OrderPipelineProofs!FilledOrdersClosed` | `Spec => []FilledNotOpen` | `IndexInductive` |
| `OrderPipelineProofs!RemainingFitsFills` | `Spec => []RemainingAgrees` | `IndexInductive` |
| `OrderPipelineProofs!PipelineTypes` | `PSpec => []PTypeOK` | `PInv` |
| `OrderPipelineProofs!HiddenOnlyIfCancelled` | `PSpec => []CancelledOnChain` | `PInv` |
| `OrderPipelineProofs!PipelineRows` | `PSpec => [](FilledNotOpen /\ RemainingAgrees)` | `PInv` |
| `OrderPipelineProofs!ClosedOrdersLeaveBook` | `HalfWord => (PSpec => []ClosedLeavesBook)` | `PInv`, `ClosingInv` |
| `ChainMonitorProofs!MonitorTypes` | `Spec => []TypeOK` | `Inv` |
| `ChainMonitorProofs!AckedMeansPublished` | `Spec => []AckedPublished` | `Inv` |
| `ChainMonitorProofs!DuplicatesHaveCause` | `Spec => []DuplicatesExplained` | `Inv` |
| `ChainMonitorProofs!FilterRemembers` | `Spec => []BloomRemembers` | `Inv` |
| `TermsProofs!TermsTypes` | `Spec => []TypeOK` | `TermsInductive` |
| `TermsProofs!ServedMasksGood` | `Spec => []ServedMaskGood` | `TermsInductive` |
| `TermsProofs!TermsStayCurrent` | `Spec => []OneCurrent` | `TermsInductive` |
| `TermsProofs!SignaturesAsShown` | `Spec => []SignedAsShown` | `TermsInductive` |

*Block monitor.* `NoGap` is not inductive: when a block is emitted, its parent is
known because it was found in the ring buffer, so the invariant has to say that
what is in the ring buffer is known (`RingKnown`), except for the block about to be
emitted, which is attached to a known one (`PendingAttached`). What `Record` writes
is the number of the block emitted, or lost, one step before (`PendingEmitted`),
which is why `RecordedWasPublished` holds; it is part of the invariant itself.
`WalkFindsAncestor` compares a distance with a number of slots: the walk went down one
number a step from just above the last block (`WalkNumber`), and the block i slots back
in the ring buffer is at most i numbers below the last one (`RingBound`), although
reorganisations write smaller numbers over it. So a block that the exhausted walk passed
by is at a number the buffer no longer holds. `Chain` is a recursive function, about
which nothing can be proved by induction here; its recursion equation is derived from the
least set closed under parents (`LeastEquation`, `ChainEquation`), and that an ancestor
is below its descendants from a least counterexample (`AncestorsBelow`).

*Delay relay.* `PilesUpUntilFlush` speaks of relayed messages only. The invariant
says that every unflushed message is behind a sentinel the worker has not been
released from (`Guarded`), and behind two while a Flush is between publishing its
sentinel and releasing the worker (`GuardedTwice`); the second is what makes the
release safe. It is preserved because `sync.Once` lets one call in at a time
(`OneInside`). It holds until the process first ends or a sentinel is not published,
which is all the property promises: TLC refutes `Piled` after either.
`OnePausePerFlush` goes on over restarts, so it has an invariant of its own
(`PauseInv`): the sentinels in the queue and at the worker are counted, every step
changes their number by as much as it changes what is due (`Balanced`), and only the
start of a process adds one without a Flush.

*Fund validation.* A verdict is made of answers, an answer of an amount in a
goroutine's memory, and that amount of the cache or the node. The invariant follows
this back: what a waiting call has received so far (`SoFar`), what a lookup is about
to store or to send (`LooksJustified`), what the cache holds (`CacheKnown`) and what
the node says now (`NodeKnown`) is each justified by an amount the node has
reported, and the node's reports are never forgotten (`JustifiedStays`). `CacheFresh`
needs the same of a lookup about to store: its amount is of the time since the cache
was emptied, or the lookup is late. That a call is numbered when it begins
(`NotBegun`) keeps the lookups of one call from another's order.

*Intake.* Admission lets an order be accepted or queued only if it is sound, and the
handlers decide that stage by stage. `RequestInv` says for each stage which checks the
order has passed, that what a lookup has sent is true of the tables, and whether the
request has been answered or queued, which differs between `ingest.Handler` (answers,
then publishes) and `PostOrder`. `RefStep` then shows that `Arrive` with an order is
`Submit`, `Finish` and `Answer` are `Refuse` or `Accept`, `Publish` is `Enqueue`,
`PublishFails` is `Fail`, `Enqueue` or a stutter, and everything else stutters. It
assumes nothing about how many requests race. Fees are another matter, since Redis
changes under the requests: `StableInv` says what a request that nothing disturbed has
computed so far in terms of the tables as they are NOW, and a change of the tables takes
every request under way out of `stable`. Two requests compute the same fee because each
computes the one function `Owed` of the same tables. `HeaderInv` says whose content type
is in the shared variable: until another request enters, that of the one in the handler.
`QueuedUnlessBlacklisted` is part of `StableInv`: of a request that is still stable, the invariant
says where in its handler's stages it is, and what it was answered by then.

*Queue.* `AtLeastOnce` fails to be inductive at the moment of an Ack: the copy in the
unacked list is deleted, so there must already be one at each destination, and it must
not be the copy that accounts for another delivery of an equal payload. `StrictlyKept`
counts instead of naming: for every message and destination, the copies sent plus the
workers that are done with that destination and hold a copy they are about to delete
(`SettledWorkers`) are no more than the copies there are, up to the errors. Each action
moves one unit from one side to the other. `InFlightBacked` supplies that the LREM finds a
copy; after ReturnAllUnacked it may find none, and then deletes nothing. `InOrder` is about
one process with one worker that relays (`OneWorker`), up to the first end of the process,
Redis error or call of a tool (`Undisturbed`): any of these, a second process or a second
worker lets messages overtake each other. `OrderInv` says where each message sent is:
counted from the oldest, there are those done with, the worker's, the one before the
semaphore, those in deliveryChan, the one consume() holds and those in the ready list,
in this order and with none missing (`Queued`); and each destination has what passes of
the first ones, the worker's own included once it is past that destination (`Handed`).
`Relays` says this by positions instead of SelectSeq, whose operator argument the provers
cannot handle.

*Order index.* Neither property of the rows survives a single UPDATE unless the values it
writes were computed together, and they were computed some steps earlier: the invariant
also says of the row each indexer is about to insert that it is sound (`IndexingInv`) and
that the row a fill indexer has read is still there (`FillingInv`). That the threshold
and the remaining amount are right is then one lemma about what Save computes
(`SavedSound`), in the division and the word arithmetic of the code. The pipeline's
actions call the index's operations, so PipelineRows needs no second proof of them. For
`CancelledOnChain` the invariant follows a cancellation from the chain through events,
records, epochs, copies and half-done transactions to the row (`FeedInv`, `CopyInv`,
`TrueInv`); nothing on that way says cancelled before the chain does, and the chain never
takes it back.

`ClosedLeavesBook` is the converse, and holds of quiet states only; `ClosingInv` says of
every state what makes it true in the end. For each order that is not in `missed`: if an
epoch above its salt is on the chain, one is still on its way to the rows, or the row is
not Open and no copy that passed the filter is left that could open it (`EpochOK`); the
same of the record of its cancellation (`CancelOK`); and of what is filled, the part that
is not in the records still queued is in the row and in every copy that was looked up, or
a worker that read the row as it is will add it (`FillOK`). Each loss puts the orders it
concerns in `missed` in the same step, and leaves what the invariant says of the others as it
was. The amounts are not summed,
which would be an induction over the queues: `Spans` says that a queue leads from one
amount to another, and a send or a receive moves one end (`SpansAppend`, `SpansTail`).
Nor are the workers summed over: if two workers have read the same row, or one has read a
row that has changed, the order will be in `missed` when the later one saves
(`Covered`). The theorem is under `HalfWord`, that no taker amount exceeds half of the
word, and needs it: an order that is indexed with a fill already counted gets the fill's
record added again, which is harmless, up to twice the taker amount, only if the sum does
not wrap (`abi.U256`, db/indexer.go:53). With larger amounts it may wrap to a small one
and leave a filled order Open: TLC finds that for a taker amount of 3 in words of 4.
Nothing in the code forbids such an amount.

*Chain monitors.* What `AckedPublished` says of an acked block is decided when its logs
are queried and used several steps later, perhaps after another head. `DueFound` shows,
service by service, that every event the service is there for and that is not Skipped
passes the test of the bloom filter and is among the logs its query finds, if the node
answers for the block itself. `PublishInv` carries this through the loop: each log that has
something due is published with its own record, refused, skipped, or still to come; for the
spend monitor, whatever is in `seen` is the key of an earlier transfer of the block, so that
a transfer it drops is one that Skipped names. `DupInv` counts a log still
to come as a copy. `BloomInv` says the same of orders and the filter as `PublishInv` of
records, and that an order of an acked block is in the stored filter or known to be
missing there, which is what survives a process.

*Terms.* The mask of a page had more than half an hour left when the page was made, and
the CDN keeps a page for 25 minutes. As long as no updates have overlapped and no read of
the old terms has failed, at most one update is under way, and it holds the row that is
current (`CurrentInv`).

Only model-checked: liveness (`ChainEmitted`, `EventuallyHandled`, `FlushReleases`,
`Decided`, `LookupsEnd`, `BlocksHandled`, `Answered`), which is out of the prover's
reach. Every invariant of the passing runs, and the refinement of Admission, is proved.

## Not modelled, and the plan

Not worth modelling: the search API, the read-only handlers of the HTTP API, health
checks and URL parsing; the block hash, which feeds a header of the search API; order
encoding and signatures (cryptography; Intake has their verdicts as flaws); contract
bindings (generated); schema migration, secrets and the command line tools that keep
no state; test mocks. Of modelled components left out: the ack statistics of the
queue, the contract call behind a pool's filter (no pool reaches it), the price and
fee rate columns of the index, and orders that cannot be parsed once they are in the
pipeline (ingest wrote them).

What could come next: OrderPipeline with the spend recorder, so that `Unfunded` is part
of it; and an abstract queue (a bag of messages, each delivered at least once) that
RedisQueue implements, which `AtLeastOnce` states as an invariant so far.
