# Formal model of exchange-wallet-service

`exchange-wallet-service` is the wallet of an exchange. It scans a blockchain
block by block through the `chains-union-rpc` node, records the transactions of
its customers (the *businesses*) in PostgreSQL, sends the withdrawals and
internal transfers they have signed, and notifies them over HTTP. All of it is
one Go process of cooperating goroutines that share a database and, in places,
memory. This directory holds TLA+ modules for it, TLC configurations that check
them on small instances, and theorems proved with TLAPS.

## 1. The system

### Inventory

| Component | State | Operations | Modelled in |
|---|---|---|---|
| Chain node, `rpcclient/client.go` | the canonical chain, the pool, nonces, fees (outside the process) | `GetBlockHeader`, `GetBlockInfo`, `GetTransactionByHash`, `SendTx`, `GetAccount`, `GetFee`, `BuildUnSignTransaction`, ... | `ChainNode`, `Outbound`, `Services` |
| BatchBlock, `rpcclient/batch_block.go` | `lastTraversedHeader` | `NextHeaders` | `Synchronizer` |
| Synchronizer, `worker/synchronizer.go` | `headers`, `blockBatch`, `isFallback`, `fallbackBlockHeader`, the channel | `NewSynchronizer`, `tick`, `processBatch` | `Synchronizer`; how a transfer is classified: `Registration` |
| Fallback task, `worker/fallback.go` | its frame; it works on the synchronizer's fields | `Start` loop, `onFallback`, `findFallbackEntry` | `Fallback` (blocks), `Ledger` (rows and balances) |
| Finder, `worker/finder.go` | the batch in hand | `handleBatch`, `handleConfirmations` | `FinderLoop`, `Ledger`, `Outbound` (orders) |
| Withdraw, Internal, `worker/withdraw.go`, `worker/internal.go` | list of rows read, structs sent | ticker loop | `Outbound`; their start and stop: `Lifecycle` |
| Notifier, `worker/notifier.go`, `httpclient/` | businesses read at start, lists read per tick | `Start` loop, `AfterNotify` | `Outbound` (orders), `Ledger` (deposits), `Registration` (whom it serves) |
| Wallet services, `services/` | none of their own | `BusinessRegister`, `ExportAddressByPublicKeys`, `BuildUnSignTransaction`, `BuildSignedTransaction`, `SetTokenAddress`, interceptor, server | `Services`, `Registration` (the first two), `Outbound` (nonces) |
| Worker entry, `worker/entry.go`, `common/tasks` | tasks, `stopped` | `NewAllWorker`, `Start`, `Stop`, panic recovery | `Lifecycle`; crash and restart: `BlockScan` |
| `blocks`, `reorg_blocks` | headers stored, headers rolled back | store, delete by number, newest row | `Synchronizer`, `Fallback` |
| `deposits_*`, `transactions_*` | incoming transfers and their confirmations | store, confirm, mark, roll back | `Ledger`, `Accounts` |
| `withdraws_*`, `internals_*` | orders and their status | store, sign, list unsent, update by hash and by id | `Outbound`, `Services` |
| `balances_*`, `database/balances.go` | balance and lock per address and token | `UpdateOrCreate`, `UpdateFallBackBalance`, `UpdateBalanceListByTwoAddress` | `Balances`, `Ledger` |
| `business`, `addresses_*`, `tokens_*`, `database/dynamic` | who is served, by which tables | register, create tables, export, look up | `Registration`, `Services` |
| Retry, `common/retry` | attempt count | `Do` | `Lifecycle`, `Services` (`NewDB`) |
| Clock, `common/clock` | `now`, pending actions, timers, tickers, the loop's context | `AdvanceTime`, `After`, `NewTimer`, `Stop`, `Reset`, `AdvancingClock`, `LoopFn` | `Clock`, `Advancing`, `Loop` |
| Process lifecycle, `common/cliapp`, `common/opio`, `cmd` | contexts, signals | run, interrupt, stop | `Lifecycle` (workers), `Services` (RPC server) |

Configuration, flags, column serialisers, the wire code generated from the
protobuf files, the mock notification server, scripts and images have no state
of the wallet and are not modelled.

### How the parts interact

* The synchronizer pushes batches to the Finder through an *unbuffered channel*.
* The Fallback task holds a *pointer to the synchronizer* and reads and writes
  its fields without a lock; the synchronizer raises a flag and stores a header,
  the Fallback task takes both down.
* Everything else meets in *the database*: the services store orders, the
  workers poll them, the Finder updates them by hash, the Notifier polls and
  updates them by hash. Transactions are at PostgreSQL's default isolation, and
  most read a row, work for a while and write it back.
* The node and the business are remote calls that can fail before or after they
  took effect.

### What is hard

* *Interleavings* of six goroutines and the gRPC handlers over rows and shared
  fields, with no lock and with values read long before they are written back.
* *Reorganisations*: the chain can change between any two calls to the node.
* *Crashes*: the process keeps only what the database holds, and effects on the
  chain, in the database and at the business are not atomic.
* *Retries* of database transactions after a lost acknowledgement, of `SendTx`
  and of notifications.
* *Goroutines that end*: some errors end a goroutine while the process runs on.
* *Stopping*: contexts, channels and locks of a dozen goroutines have to come to
  rest, in an order, whatever each of them is waiting for.

### What makes each component correct

* Scan: what is stored is the confirmed chain, without gap or repetition; its
  transactions reach the Finder in order and once.
* Fallback: rows leave `blocks` only for `reorg_blocks` and only when the chain
  has given them up; a flag once raised comes down; the scan goes on.
* Orders: paid at most once; reported when paid, and only then; what the node
  would accept is sent in the end.
* Books: a transfer is entered once; the balances are the sum of what is
  entered; what a business is told of is final; a rollback takes back what it
  rolls back and no more.
* Registration: a transfer is recorded as what it was when it was mined; nobody
  is answered with success for something that is not stored.
* Services: what is signed for a row is what the business was given to sign, by a
  call that named the row; an order that was answered signed has a transaction to
  send; every call is answered or cut by a stop.
* Clock and loops: nothing that is due is left overdue, a timer that was stopped
  does not fire; `Close` and `AdvanceTime` return.
* Lifecycle: a signal or a panic ends the process, nothing else does; a stopped
  worker is quiet; if the process exits without an error, every worker has returned
  without one and lost nothing but what a panic, a logged error or a swallowed one
  takes silently.

## 2. The modules

`PROJECT.json` maps every definition to the lines it stands for.

Scanning:

* **`ChainNode`** – the canonical chain as the node shows it. A block is its
  number and the branch it was mined on; the pair stands for the hash. `Mine`
  extends the chain and `Reorg` replaces up to `MaxDepth` of its last blocks.
* **`Synchronizer`** – `BaseSynchronizer` and `BatchBlock`. One step per RPC or
  database call and per unlocked write: `TickFetch`, `FetchHeader`,
  `FetchLastHeader` and `FetchReorg` are `NextHeaders`; `MarkFallback` and
  `MarkFallbackHeader` the two writes of `tick`; `ScanBlock`, `StoreBlocks` and
  `SendBatch` are `processBatch`; the error replies have steps of their own.
  `fetch.current` tells whether the `BatchBlock` a `NextHeaders` runs on is still
  the synchronizer's. What a block carries is abstracted to whether it has
  transactions of a business.
* **`Fallback`** – the Fallback task, extending `Synchronizer` because it works
  on its fields. `rows` are the rows to back up and delete, `newest` the row the
  new `BatchBlock` starts from.
* **`FinderLoop`** – the Finder's goroutine: receive, record, or end: with a batch
  in hand, or at a tick of `handleConfirmations` that cannot read the list of
  businesses (`ConfirmationsFail`). A batch is recorded by one transaction, as it is
  for one business.
* **`BlockScan`** – composes them: the channel (`PushBatch` joins sender and
  receiver), crash, recovered panic, restart. Its properties are below.
* **`BlockFeed`** – the abstract specification of the pipeline: a reader of an
  append-only log that takes every block once, in order, and can lose only what
  is in flight. `BlockScan` implements it (`ReadsConfirmedChain`).
* **`Lists`** – what `BlockFeed` and `Ledger` need of sequences: the items at some
  places (`Picked`), the items in a set (`Chosen`).

Orders:

* **`Outbound`** – the orders of one business from `BuildUnSignTransaction` to
  the notification: the services, the two workers (one loop over two tables, of
  which `Withdraw` swallows a failed transaction and `Internal` dies of it), the
  Finder's updates by hash, the Notifier, the node's pool and nonces. A handler's
  read of the nonce and its write of the row are one step, because a nonce that
  goes stale in between has the effect of one that goes stale after the write.
  The transaction mined here is one that is confirmed; the Finder sees each once
  and in order, as `BlockFeed` promises, and a crash may take one batch from it.
* **`Payments`** – the abstract specification of `Outbound`: an order is paid at
  most once and reported only when paid (`ImplementsPayments`).

Books:

* **`Balances`** – a balance table as a function from accounts to numbers: what
  `UpdateOrCreate` does for each kind of transfer, and `UpdateFallBackBalance` to
  undo one. A statement the `UINT256` column refuses fails the transaction.
* **`Ledger`** – the deposits, transactions and balances of all businesses under
  the Finder (`HandleBatch`, `ConfirmRead`, `ConfirmSave`: rows are read and saved
  whole, as in the code; `ConfirmTickFails`: it ends when it cannot read the
  businesses), the Fallback task (the marks of one row per height, the
  reversals) and the Notifier. The scan is
  that of `BlockScan`, taken block by block.
* **`Accounts`** – the abstract specification of the books: transfers are only
  ever added to a statement, each once; the accounts hold what it adds up to; only
  what is on it is reported (`ImplementsAccounts`).

Businesses and their calls:

* **`Registration`** – `BusinessRegister` with its seven tables, each of which may
  fail unnoticed; `ExportAddressByPublicKeys`; `processBatch` reading the list of
  businesses and then one table after the other; the Notifier's list.
* **`Services`** – the process of the RPC server from `NewDB` to its stop, the
  interceptor that recovers a panic, and the handlers `BuildUnSignTransaction`,
  `BuildSignedTransaction` and `SetTokenAddress` with one step per call that leaves
  the process. Several calls run at once. Amounts are numbers, `Junk` is text that
  is no number. Addresses in requests are texts: the transaction given out to be
  signed carries them as they are, a row keeps what `AddressOf` (`HexToAddress`)
  reads, and the transaction that is signed is made from the row. The id of the
  chain is in no row: each of the two transactions has that of its own request.
  A server whose `Serve` returns an error is `detached`: up, without a port.

Time and life of the process:

* **`Clock`** – `DeterministicClock`: `AdvanceTime` with its lock, going through the
  pending actions one at a time, while `Stop` and `Reset` take the locks of timers
  and tickers.
* **`Advancing`** – `AdvancingClock`: a goroutine that moves a `Clock` along with
  the system's ticker, which drops ticks nobody takes.
* **`Loop`** – `LoopFn` on that clock, with `Close` and with other users of the
  clock. `Deadlocked` is the state the code can really reach: `Reset` holds the
  ticker's lock and waits for the clock's, `AdvanceTime` the other way round.
* **`Lifecycle`** – `LifecycleCmd`, the signal listener, `WorkerEntry.Start` and
  `Stop`, each worker's loop with its context, and `retry.Do`, whose pause no
  context interrupts. Workers differ by what they do with an error: report it, log
  it, or never see it.

For TLC and TLAPS:

* **`MCBlockScan`, `MCOutbound`, `MCLedger`, `MCRegistration`, `MCServices`,
  `MCLoop`, `MCLifecycle`** – constants for TLC.
* **`BlockScan_proofs`, `Ledger_proofs`, `Outbound_proofs`, `Registration_proofs`,
  `Services_proofs`, `Clock_proofs`, `Lifecycle_proofs`** – theorems; and
  **`Lists_proofs`** – lemmas on sequences that two of them share.

The modules meet where the code does: `Fallback` and `FinderLoop` in `BlockScan`,
`Clock` in `Advancing` in `Loop`, `Balances` in `Ledger`. Others share a promise
instead of a state: `Outbound` and `Ledger` take from the scan what `BlockScan`
and `BlockFeed` say of it, which keeps each of them within TLC's reach.

Some definitions stand before their original as a *mutated form* of it, marked
"Mutant:". No specification uses them; each shows a plausible bug that one of
the properties finds.

## 3. The runs

| Run | Property | Shows | States |
|---|---|---|---|
| `settled` | `CanonicalStore`, `NeverFallback`, `ReadsConfirmedChain`, `CaughtUp`, `TakenIsRecorded` | When reorganisations are no deeper than the confirmations, the pipeline reads the confirmed chain in order and once, through crashes, errors and the Finder's death, and catches up in the end | 17 158 |
| `deep` | `RecordedIsKnown`, `RecordedOncePerStore`, `FallbackServed` | What still holds when reorganisations are deeper and everything but the Finder may fail: no recorded transfer loses its block, or is recorded twice without a fallback; a flag raised comes down | 697 579 |
| `outbound` | `PaidOnce`, `NotifiedIsPosted`, `DoneStaysDone`, `SignedIsSent`, `DoneIsReported`, `ImplementsPayments` | Orders are paid at most once and reported only when paid; what can be sent is sent and what is done is reported | 190 694 |
| `paid_not_done` | `PaidIsDone` (violated) | A withdrawal found before its hash is stored is never marked done; the same end follows when the worker crashes, or its transaction fails, after `SendTx` | – |
| `ledger` | `TypeOK`, `BalancesMatchFlow`, `ReportedIsFinal`, `ImplementsAccounts`, `DepositIsReported` | Within the confirmations the books are what `Accounts` promises, although transactions move between blocks and everything may fail; a deposit is reported in the end | 71 329 |
| `rollback` | `DepositsMatchFlow`, `RollbackKeepsBooks` | With deeper reorganisations, a rollback of one transfer, when nothing was recorded in its blocks after the rows to revert were read, takes it back exactly, whatever the Finder and the Notifier are at; also when the deposit was confirmed or reported (see `rollback_limits.cfg`). The tables of deposits and transactions agree throughout | 338 106 |
| `partial_rollback` | `RollbackIsComplete` (violated) | A rollback marks one row of a height and leaves the block's other transfers | – |
| `registration` | `BatchIsServed`, `AnsweredIsStored`, `ClassifiedAsMined`, `KnownIsNotified` | Businesses register and export addresses next to the scan: the Finder never meets one without tables, a transfer is recorded as what it was when mined, and the businesses known at start are notified | 319 343 |
| `success_without_tables` | `SuccessHasTables` (violated) | A registration whose tables could not be created is answered with success | – |
| `clock` | `NothingOverdue`, `StopIsFinal`, `CloseReturns`, `AdvanceReturns` | Nothing is left overdue while the clock rests, a timer reported stopped never fires; `Close` and `AdvanceTime` return unless a `Reset` has met `AdvanceTime` | 685 286 |
| `lifecycle` | `LossIsReported`, `StoppedIsQuiet`, `StoppedForAReason`, `InterruptEnds`, `PanicEnds` | The process ends when told to or when a worker has panicked, and stops its workers for good; when it ends without an error, no worker has failed, and work is lost only to a panic, a logged error or a swallowed one | 208 925 |
| `services` | `SignedAsOrdered`, `AnsweredIsStored`, `SignedIsHeld`, `SignedByItsCall`, `CutByStopOnly`, `CallsEnd` | Three calls under way: what is signed is what was given to sign, with its addresses as `HexToAddress` reads them and on the chain the second request names; a success has its row, an order answered signed keeps a transaction to send, every call is answered or cut by a stop | 641 265 |

The violated properties state what a document or comment of the repository says;
`PROJECT.json` quotes it under `findings`.

### Further counterexamples

These configurations check properties that the code does not have;
`tlc -config <file> <module>` shows the behaviour. Of a configuration with two
properties it shows one, and the other when `-continue` is given, or when the
configuration names that one only.

| Configuration | Module | Property | The behaviour |
|---|---|---|---|
| `lost_transactions.cfg` | `MCBlockScan` | `RecordedFromItsBlock` | `GetBlockInfo` is asked by number: transactions are recorded under the header of another block |
| `lost_transactions.cfg` | `MCBlockScan` | `PushedBeforeStored` | The block is stored before its transactions are pushed; a crash in between loses them |
| `lost_header.cfg` | `MCBlockScan` | `FlagKeepsHeader` | The unlocked clearing of flag and header loses the header of a new reorganisation, whose dereference then brings the process down |
| `valid_deleted.cfg` | `MCBlockScan` | `DeletedIsOrphan` | A fallback deletes a row that is part of the chain |
| `stuck.cfg` | `MCBlockScan` | `CaughtUp` | After one deep reorganisation the synchronizer may retry a batch that the table refuses for ever |
| `second_reorg.cfg` | `MCBlockScan` | `BackupFits` | `reorg_blocks` has room for one reorganisation per height |
| `signed_differs.cfg` | `MCOutbound` | `SignedAsRequested` | The nonce is fetched again at signing: signature and transaction no longer fit |
| `broadcasted_unsent.cfg` | `MCOutbound` | `BroadcastedIsSent` | An error code of `SendTx` passes for success |
| `foreign_rollback.cfg` | `MCLedger` | `RollbackKeepsBooks` | The list of rows to revert is that of all businesses and is applied to the balances of each: a rollback takes the deposit of one business off the balance of another |
| `rollback_limits.cfg` | `MCLedger` | `ConfirmedIsKept` | `UpdateFallBackBalance` asks for no status: a deposit past the confirmations, even a reported one, is taken back, although the comment of `handleFallBackDeposit` (`balances.go:513-516`, with a todo) leaves it alone and `src/DEVSTEPS.md:713-715` has the exchange bear the loss |
| `rollback_limits.cfg` | `MCLedger` | `RollbackAddsUp` | The Finder records a transfer of the rolled-back blocks after the rows to revert were read: it is marked as rolled back and its amount stays on the balance |
| `signed_otherwise.cfg` | `MCServices` | `SignedOnItsChain` | The chain id of the second request, not that of the first, is signed (`handler.go:194`, `:308`) |
| `signed_otherwise.cfg` | `MCServices` | `PaysWhomItNames` | A recipient that is no well-formed address passes `validateRequest`, is given out to be signed as it is, and signed as what `HexToAddress` reads (`handler.go:448-449`, `:485-486`) |
| `port_lost.cfg` | `MCServices` | `PortLostEnds` | An error of `gs.Serve` is logged and its goroutine returns: the process stays up without a port (`service.go:61-63`) |
| `panic_unreported.cfg` | `MCLifecycle` | `NothingLost` | A recovered panic is no error of its task (`tasks.go:17-33`): the process ends without one, and what the worker was about to record is lost |
| `synchronizer_running.cfg` | `MCLifecycle` | `SynchronizerStopped` | `BaseSynchronizer.Stop` tests for nil the wrong way round and leaves its loop running |

### Bounds

* `settled`: heights 2 to 6, two reorganisations of one block, two failures,
  `BlocksStep` 2 and one confirmation. A batch therefore has one or two blocks,
  business blocks fall on either place of a batch, a reorganisation reaches exactly
  to the last confirmed block, and two failures are enough for a failure during the
  recovery from another.
* `deep`: heights 3 to 5, two reorganisations of up to three blocks with one
  confirmation, one failure of any kind but those that end the Finder, whose death
  `settled` has. Two deep reorganisations are what a
  second fallback at the same height takes, and a reorganisation during one.
* `outbound`: a withdrawal and an internal transfer of one address, each built
  signed up to twice, one failure of any kind. Two orders of one address are what
  a competition for a nonce takes; the two kinds have the two workers.
* `ledger`: two businesses, heights 3 to 5, two reorganisations of one block with
  one confirmation, one failure. The blocks hold two deposits of two businesses, a
  deposit that moves from one block to the next and is left out by one branch, a
  collection that is in both, and withdrawals, of which one may leave an account
  below zero.
* `rollback`: one business, one transfer per block, heights 3 to 6, three
  reorganisations of up to two blocks, one failure: rollbacks of one and of two
  heights, and a rollback of what was recorded after another. `partial_rollback`
  needs several transfers in a block: two businesses, heights 3 to 5, two
  reorganisations, no failure.
* `registration`: two businesses, two addresses of theirs and one outside, one
  block, two exports (one may repeat or overlap the other), two failures: a
  registration can fail in two places, and its retry can fail again.
* `clock`: one channel, one timer and the ticker of the loop; durations 0 and 1, a
  period of 2, three units of time, one `Reset`. The ticker fires once while the
  timer and the channel may be due before, with or after it; a second tick may find
  the loop still at work.
* `lifecycle`: three workers, one of each kind, two attempts of `retry.Do`, two
  pieces of work each, one panic.
* `services`: three calls, each for an order (accepted, refused by the handler, or
  by the table), for its signature, or for a token; two ids of chains, an address
  that is read as another one (`padded`), two answers of the node for fees, a
  largest amount of 1, two attempts of `NewDB`, one failure, of the port as well. The
  bound of `UINT256` is the constant `MaxUint256`; what is checked is on either side
  of it.
* `InitHeight`, `MaxHeight`, `MaxReorgs`, `MaxDepth`, `MaxSignings`, `MaxBlocks`,
  `MaxExports`, `MaxTime`, `MaxResets`, `MaxWork` and `MaxFaults` only bound the
  environment: the code has no such limits.

`CHECK_DEADLOCK FALSE` stands in every configuration because the chain stops
growing at `MaxHeight`, the orders and exports at their number, the clock at
`MaxTime`, and a process may have ended: the system then really has nothing left
to do. The deadlock of the clock is a state of its own (`Deadlocked`).

### Fairness

Nothing is asked of the chain, of the business, or of failures. What is asked:

* `BlockScan`, `Outbound`, `Ledger`: weak fairness of each loop of the process.
  The synchronizer's `LoopFn`, the Fallback task, the workers and the Notifier run
  on tickers, the Finder blocks on its channel, and a supervisor restarts the
  process. `CaughtUp` and `TakenIsRecorded` except the Finder's death because the
  code does: nothing restarts that goroutine.
* `Registration`: weak fairness of the scan and of the Notifier for each business
  it knows; nobody has to register.
* `Loop`: weak fairness of each goroutine (the advancing clock's, the loop's, the
  callers of `Reset` and `Close`, once they are in the call), and strong fairness
  of the loop's look at its context: Go's `select` picks among the ready cases at
  random, so a context that stays done is not passed over for ever although
  another case is ready from time to time.
* `Lifecycle`: weak fairness of the main goroutine, of the listener once a signal
  has come, and of each worker; strong fairness of a worker's look at its context,
  for the same reason.
* `Services`: weak fairness of the process and of each handler.

## 4. The proofs

Every theorem holds for all values of the constants under the named assumptions
(`ChainAssumption`, `NoneAssumption`, `SyncAssumption`, `BalancesAssumption`,
`LedgerAssumption`, `OutboundAssumption`, `RegistrationAssumption`, `ServicesAssumption`, `ClockAssumption`,
`LoopAssumption`, `LifecycleAssumption`). They give the constants their types, and
say that a model value for "nothing" is none of the values it stands beside. Each
invariant was checked by TLC on the instance of its run before it was proved.

* `BlockScan_proofs!TypeCorrect`: `Spec => []TypeOK`. The invariant `TypeInv` adds
  what the code relies on for its indices: a fetch in progress lies between the
  first block and the tip, and a batch being scanned is no longer than its
  headers. It needs that the chain never gets shorter.
* `BlockScan_proofs!StoreIsCanonical` and `!FallbackIsNeverNeeded`:
  under `Settled` (reorganisations no deeper than the confirmations, a starting
  height out of their reach, no error codes), `Spec => []CanonicalStore` and
  `Spec => []NeverFallback`. `CanonicalStore` alone is not inductive: what is
  stored next depends on the headers in hand, those on the headers fetched, and
  the scan resumes from the newest row. `SettledInv` says of each of them that it
  continues the canonical chain where the one before ends (`Position`,
  `InHandOk`, `FetchOk`, `StoreOk`) and that the Fallback task rests (`Quiet`).
  It uses that a confirmed block is out of reach of any reorganisation.
* `BlockScan_proofs!RecordedAreKnown` and `!RecordedOnce`, of the scan under any
  reorganisation and failure: `Spec => []RecordedIsKnown` and
  `Spec => []RecordedOncePerStore`. Transfers travel from the stored batch to the
  Finder's hand to the tables; `Travel` says of all three places what the
  properties say of the last, and of each two of them that they share no block
  that was not backed up. It rests on three facts: the headers in hand follow each
  other (`Runs`: the link check of `NextHeaders`, with the numbers that hashes
  carry), the batch is drawn from them, each block once (`BatchDrawn`), and the
  rows a fallback has read are still the rows of their numbers when it deletes by
  number (`Rows`: only it deletes, and numbers are unique). The insertion that
  refuses a header already stored does the rest.
* `BlockScan_proofs!PipelineIsFeed`: under `Settled`, and if no commit loses its
  reply, `Spec => ReadsConfirmedChain`, step by step. A block mined confirms one
  block or none, and a reorganisation leaves the confirmed chain as it is
  (`FeedChain`). `StoreBlocks` is the one step that takes: by `SettledInv` and the
  refused duplicates the headers in hand begin right after the newest row, so they
  are the next stretch of the confirmed chain, and by `Held` the batch names those
  of them that carry transactions (`FeedStore`). The push only hands over
  (`FeedPush`), the Finder records or drops what it has in hand (`FeedHand`) and the
  end of the process drops all that is in flight (`FeedExit`). The condition on
  replies is needed: a batch whose insertion committed unnoticed is stored and never
  sent, and no step of `BlockFeed` takes blocks without their transactions.
* `Lists_proofs` has what `Picked` returns (which items, in which order, each once,
  of a list and its continuation, of the next item), for this refinement and for
  that of `Accounts`.
* `Outbound_proofs!OrdersAreTyped`, `!OrdersArePaidOnce`, `!NotifiedWasPosted`
  and `!OrdersImplementPayments`: `Spec => []TypeOK`, `[]PaidOnce`,
  `[]NotifiedIsPosted` and `Spec => ImplementsPayments`, for any number of orders,
  addresses, repeated signings and failures. None of the four is inductive alone,
  not even the types: that a worker sends a transaction at all needs that what it
  read as signed has one, and that a letter holds hashes needs that a row is done
  only with a hash. The invariant `IInv` says further that all transactions built
  for an order carry the signature of one payload (`Signatures`), that the node
  mines a nonce of an address once and none that does not fit the signature
  (`Chain`), what the workers' lists hold while the rows change under them
  (`Frames`), and that a row is done, and posted, only when the chain has its
  transaction (`Found`, `Notices`). The proof names what a step may do to a row, a
  struct, a payload, the node and the Notifier (`RowStep`, `CopyStep`,
  `PayloadStep`, `NodeStep`, `NotifyStep`), shows that every action does only
  that, and then needs no case per action any more. It rests on one payload per
  order: `BuildUnSign` creates the row whose payload it is.
  `!DoneIsForGood` (`Spec => DoneStaysDone`) adds, of a withdrawal built signed
  once, that it is sent and stored once (`SignedOnce`), so that no stale struct is
  left to write over it.
* `Registration_proofs!TablesAreThere`, `!AnswersAreStored` and
  `!ClassifiesAsMined`: `Spec => []BatchIsServed`, `[]AnsweredIsStored` and
  `[]ClassifiedAsMined`. `IInv` follows what is read table by table: a type found
  was in the table (`ReadFromTable`), the type an address had when a block was mined
  is the one its table still holds (`Mined`), and each business already looked at has been
  classified by what its table holds for good (`Classified`).
* `Services_proofs!SignsAsOrdered`, `!SignedIsHeldForGood`, `!SuccessIsStored`,
  `!SignedByItsCallOnly` and `!CutOnlyByStop`, for any number of calls, any texts for
  addresses and any `AddressOf` that leaves addresses alone:
  `Spec => []SignedAsOrdered`, `[]SignedIsHeld`, `[]AnsweredIsStored`,
  `SignedByItsCall` and `CutByStopOnly`. `IInv` has one part per call (`CallInv`:
  what its frame holds at each statement), and that only a process that is up has
  calls in flight (`ServerInv`).
* `Clock_proofs!StopKeepsItsWord` and `!NothingIsOverdue`, for any number of
  channels, timers and tickers: `Spec => []StopIsFinal` and `[]NothingOverdue`.
  `ClockInv` says where a live alarm is while `AdvanceTime` goes through the
  pending ones (`LiveKept`), that each is there once (`Queued`), and what an answer
  of `Stop` implies about the past and the future of its timer (`Answered`).
* `Lifecycle_proofs!LossesAreReported`, `!StoppedStays` and `!StoppedByCause`, for any
  number of workers: `Spec => []LossIsReported`, `StoppedIsQuiet` and
  `StoppedForAReason`. The first names the losses that end without an error: those
  of a panic, of a worker that logs its errors, and of one that swallows those of the
  database; that a panic is among them is what `panic_unreported.cfg` shows. The
  invariant relates the place of the main goroutine to that of each worker
  (`Order`), a context that is done to what closed it (`Cause`), and an error to
  what was lost by it (`Reported`).
* `Ledger_proofs!TypeCorrect` and `!DepositsFollowFlow`, for any chain, contents of
  blocks, failures, restarts and rollbacks: `Spec => []TypeOK`, of which the hard
  part is that no statement leaves a balance below zero and that the list a
  rollback has read still points to rows when it is applied, and
  `Spec => []DepositsMatchFlow`.
* `Ledger_proofs!ReportsAreFinal`, `!BalancesAddUp` and `!KeepsAccounts`: under
  `ShortReorgs` (reorganisations no deeper than the confirmations and short of the
  starting height), `Spec => []ReportedIsFinal`, `Spec => []BalancesMatchFlow`
  and `Spec => ImplementsAccounts`. `SettledInv` follows a transfer along its way:
  what is stored is stable (`SettledScan`), rows are of transfers their block mines
  (`SettledRows`), a batch that waits or is in hand is above all that is recorded,
  but for the businesses it is done with (`SettledReady`, `SettledInHand`), what is
  confirmed, in a letter or posted has its confirmations (`SettledReports`), and
  balances are what the statements add up to (`SettledSums`). That a transfer is
  entered once then rests on a transaction being mined at one height only
  (`MinedOnce`), although it moves between branches and attempts are repeated.
  The mapping to `Accounts` is of lists and sums computed from the tables; the
  lemmas of `Lists_proofs` and those on the sums carry it. What a recursive function over a list
  computes is proved from a solution built number by number (`NatIsAll`, `UpTo`,
  `Solvable`), as induction theorems with an operator for a parameter are out of
  the provers' reach.
* `Ledger_proofs!ShallowRollbacksKeepBooks` and `!SoleTransfersAreRolledBack`: under
  `ShallowReorgs` (a reorganisation reaches one block more than the confirmations,
  so the newest one the scan may have stored, as in the runs `rollback` and
  `partial_rollback`), `Spec => RollbackKeepsBooks` for one business, and
  `Spec => RollbackIsComplete` for any number of them when no block has two transfers
  of one business (`OneTransferEach`). `RollbackInv` says what a rollback meets: the
  flagged header follows the newest block, which has lost its place for good
  (`FlagIsFinal`), a rollback starts at that block (`EntryIsNewest`), what the Finder
  took is stored below a canonical parent unless it was rolled back (`TakenHasParent`),
  and only heights that were backed up have marked rows (`MarkedIsBackedUp`). TLC
  refutes `TakenHasParent` when a reorganisation reaches a block further. `SoleInv`
  adds that a height not yet rolled back has one row of a business.
  The Finder may be anywhere meanwhile, as long as nothing has been recorded in the
  blocks since their rows were read, and deposits past the confirmations are no
  exception.
  Each condition is the boundary of a defect: `rollback_limits.cfg` refutes the first
  property without that on the rows; with two businesses
  `foreign_rollback.cfg` refutes the first property, and with two transfers of a
  business in a block the run `partial_rollback` refutes the second.
* Only model-checked: liveness, which is out of the prover's reach. Each other
  property of a passing run is stated by a theorem, and its run meets the conditions
  the theorem names.

## 5. Not modelled

* A batch with transactions of several businesses is recorded by one transaction
  per business; `FinderLoop` has one (`Ledger` has them all).
* `BlocksStep = 0` makes the scan repeat itself and is excluded by
  `SyncAssumption`.
* `UpdateBalanceListByTwoAddress` looks addresses up in a spelling the table does
  not have, finds nothing and changes nothing, as its own todo says; the workers'
  calls to it are therefore left out.
* `HandleFallBackWithdraw` and `HandleFallBackInternals`: orders keep block number
  1 (a todo of `finder.go`), so no rollback finds one.
* `HexToAddress` itself: of a text that is no address it crops, pads or decodes a
  part. `AddressOf` stands for it, any function in the proofs, and one that reads one
  such text as the address of another in the run.
* Nonces are in `Outbound` alone; `Services` leaves them out.
* A process that is stopped waits for its goroutines in `Lifecycle` and `Services`;
  in `BlockScan`, `Outbound` and `Ledger` the end of the process is atomic, which
  leaves the same database behind as a crash at the last step taken. A second
  signal is ignored by the code once the first was taken, and by the model.
* `runMigrations` (the statements of a file, once), the durations of the retry
  strategies, `retry.Do2`, `WaitForNewPendingTask`, `SimpleClock` and `SystemClock`:
  no caller, only tests, or nothing that changes.
* Serialisers, configuration and flags, the common helpers, the mock server and
  the generated wire code: encodings and values without a state of the wallet. The
  constants of the modules stand for the configuration.

## 6. What is left

* `Outbound` and `Ledger` each take from the scan what `BlockFeed` promises; a
  composition of all three over one chain would check that assumption directly, at
  a number of states that needs a stronger abstraction of the scan.
