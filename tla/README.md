# hopr-strategy: a verification development

`hopr-strategy` is the part of a HOPR node that decides, without an operator,
when to open, fund, close and finalize payment channels, when to redeem tickets,
and when to move funds for PIX (the incentive exchange of a session's Entry and
Exit). It owns no chain: it reads one through traits, submits transactions to it,
and hears of their effect through confirmations and events, either of which may
be late or never come. What makes it hard is not any single decision but that
every decision is taken on state read some awaits ago, by a loop that shares its
guards with tasks on other threads.

This directory holds TLA+ models of its strategies - channel lifecycle with its
selectors, PIX, and the three small ones - and of the two deposit pools that PIX
pays through, the TLC configurations that check them, and TLAPS proofs: of the channel
lifecycle and the lease protocol it is built on, of both halves of PIX and the store of
recovered keys, of the small strategies, and of the deposit pools. Source paths below are
relative to the crate (`src/src/` in `PROJECT.json`).

To run: `tlc -config MCActionLeases.cfg ActionLeases` and likewise for the runs
in the table below; `tlapm ActionLeasesProofs.tla` and likewise for the other
modules whose name ends in `Proofs` and for `SumLemmas`.

## 1. Inventory

### Channel lifecycle (`channel_lifecycle/`)

One run loop (`strategy.rs`) alternates between ticks and chain events; the two
never overlap. Transactions are tasks of their own.

| part | state | operations |
|---|---|---|
| action leases (`mod.rs`) | per kind of action (open, fund, close, finalize) a map from peer or channel to a lease: holder and deadline | `acquire`, `release_owned` (task), `release` (event), `sweep`, `is_held`, `held_count` |
| pipeline (`pipeline.rs`) | reopen cooldowns, last observation of each channel, last resolved economics, disconnect streaks, account cache | one tick: read the Safe, then the channels, then prices and peers; fund pass; ask the selector; close pass; consolidation; finalize pass; open pass |
| consolidation (`consolidation.rs`) | none | how many under-funded channels to close so that the pooled stake lifts the others to one winning ticket |
| event handlers (`events.rs`) | the same maps | balance decreased (funds at once), balance increased, opened, closure initiated, closed (cooldown) |
| selectors (`selector/`) | none | rank peers to open and channels to close, in tiers and cells of latency and subnet |
| stake sizing (`config.rs`) | none | from capacities in bytes and ticket economics to stakes in whole tickets |

Interaction: a pass *dispatches* through `spawn_leased`, which takes a slot,
checks the shared budget and spawns the task; the task releases the slot when
the transaction resolves; an event on the channel releases it earlier; a
deadline ends it in any case.

Hard: a lease that ends under its task; releases by events nobody here caused;
a tick whose parts read the chain at different moments; several passes sharing
one budget and one cap; events dropped by a full broadcast; restarts with
channels half closed.

Correct means: the budget and caps hold; no slot is stranded; a duplicate
transaction has a known cause; a tick does not promise more than the Safe holds;
the population floor and the cooldown hold, or fail for reasons that can be
listed; closures complete and needy channels are served.

### PIX (`pix/`)

One event loop (`strategy.rs`) with two debounced buffers, whose contents are
flushed by tasks, any number at a time.

| part | state | operations |
|---|---|---|
| Entry deposits | processed-id cache, in-flight destination cache (time-to-live, capacity), deposit buffer | `NewDepositAddress`: check, reserve, buffer; flush: pay through the pool, record, free, refund |
| spend ledger | a queue of reservations, a counter, the refunded set | `spent` (expiry), `commit` (with folding), `release` |
| Exit recovery | in-flight sweep cache, withdrawal buffer, durable recovery store | `PrivateKeyRecovered`: persist, guard, buffer; flush: sweep, free, remove; replay of the store at start |
| recovery store (`recovery_store.rs`) | a salt, a verifier of the password and encrypted rows, in one file | `open` in two transactions, `insert`, `remove`, `iter` |
| requests and tracking | none | `DepositDataRequest`, `DepositAddressReceived`: one spawned task each |
| pools (`pools/plain.rs`, `pools/curvy/`) | plain: none of its own; Curvy: cursors, owned notes and scan secrets in a database, a watcher task | deposit, withdraw, notify, generate deposit data |

Hard: two cache calls where one atomic one is needed; guards that expire while a
pool still retries; batches that fail in part, with failures that carry no id;
a crash between a transfer and the bookkeeping of it; a replay that runs beside
the loop.

Correct means: the spend limit holds for every window; a refund never covers a
deposit that moved; a persisted key stays until its funds have moved and is
always tried again; two transfers for one allocation overlap only for a known
cause.

### Small strategies

Each is a loop of its own over ticks and events; `strategy.rs` runs several side
by side.

| part | state | operations |
|---|---|---|
| auto redeeming (`auto_redeeming.rs`) | a cache of abort handles (capacity, time-to-live) | tick, winning ticket, channel closing: start a redemption task unless one is cached; listener of the cache; drop |
| auto funding (`auto_funding.rs`) | a set of channels in flight, without deadlines | tick, balance decreased (funds), balance increased (clears) |
| closure finalizer (`channel_finalizer.rs`) | none | every tick finalizes the closures due for less than `max_closure_overdue` |

Hard: a handle inserted after its task was spawned, and invalidated by whoever
ends; a guard that only an event clears; a task that reports failure of a
transaction that is merely slow; a window that passes while the node is down.

Correct means: two redemptions, or two fundings, of one channel overlap only for
a known cause; tickets are redeemed and guards end; a closure is forgotten only
for a known cause.

### Deposit pools (`pix/pools/`)

| part | state | operations |
|---|---|---|
| plain pool (`plain.rs`) | none | deposit: read the address, check the Safe, transfer, retry; sweep: read, top up gas, transfer, retry |
| Curvy pool (`curvy/mod.rs`) | none beside its parts | calls of the adapter, retried while the chain or the index lags; what may be told the caller |
| SDK bridge (`curvy/sdk.rs`, `relayer.rs`) | notes to spend, proofs pending, a journal of attempts, a record of allocations, all durable; one chain lock | reconcile the journal, prove, post or broadcast, await, look up, replace; shield; withdraw |
| Safe module (`curvy/module.rs`) | none | sign and send one module call; on a contested nonce wait it out and look whether it landed |
| watcher (`curvy/lifecycle.rs`, `state.rs`, `indexer.rs`) | two cursors, notes found and committed, durable; waiters and the replay flag in memory | register, cancel, a pass over announcements and then commitments |

Hard: a relayer that forgets, refuses, or answers too late; two proofs over one
note of which at most one may land, on a chain that reorganises; restarts between
any two writes; nonces shared with the node's own transactions; an index that
moves between the reads of one pass.

Correct means: the books agree with whatever may still land; an allocation is paid
once; what a caller is told is true; a float is shielded once; no waiter is left
behind by a cursor.

## 2. Modules

| module | models | with |
|---|---|---|
| `ActionLeases` | the lease sets, the steps of `spawn_leased`, tasks, events, time | - |
| `ActionLeasesProofs` | theorems about it | `ActionLeases`, TLAPS |
| `ChannelLifecycle` | a tick of the pipeline with all passes, event handlers, transactions, the chain | the lease protocol in the abstract form its theorems justify |
| `LifecycleProofs` | theorems about it | `ChannelLifecycle`, `SumLemmas` |
| `SumLemmas` | induction over numbers, sums over finite sets: lemmas only | TLAPS |
| `MCLifecycle` | the symmetry set for TLC | `ChannelLifecycle` |
| `SpendLedger` | the ledger as operators on a record | - |
| `PixDeposit` | the Entry half of PIX | `SpendLedger` |
| `PixDepositProofs` | theorems about it | `PixDeposit`, `SumLemmas` |
| `MCPixDeposit` | the events TLC enumerates | `PixDeposit` |
| `PixRecovery` | the Exit half, crash and replay | - |
| `PixEventLoop` | the loop both halves share: debounce timers, buffers, detached flushes | - |
| `RecoveryStore` | the encrypted store behind that half: salt, verifier, rows, passwords | - |
| `PixRecoveryProofs` | theorems about the Exit half and its store | `PixRecovery`, `RecoveryStore`, TLAPS |
| `MCPixRecovery` | one subject per behaviour | `PixRecovery`, `PixEventLoop`, `RecoveryStore` |
| `ChannelSelection`, `StakeSizing` | the selectors and the sizing, as functions of one tick's snapshot | - |
| `AutoRedeeming`, `AutoFunding`, `ClosureFinalizer` | the small strategies | - |
| `Strategies` | these five side by side, one subject per behaviour | the five |
| `StrategiesProofs` | theorems about them, each alone and side by side | `Strategies`, `SumLemmas`, TLAPS |
| `MCStrategies` | the snapshots TLC enumerates, and how far a behaviour goes | `Strategies` |
| `CurvyChain` | the aggregator contract and the carriers of proofs | - |
| `CurvyAggregation` | pool calls and the SDK bridge's journal | `CurvyChain`; implements `Payout` |
| `Payout` | what a pool promises about its allocations | - |
| `AggregationProofs` | theorems about the two, and that one implements the other | `CurvyAggregation`, `SumLemmas`, TLAPS |
| `CurvyDiscovery` | watcher, tracker, cursors over an index | - |
| `CurvyShielding` | direct shield and Safe module over one key's nonces | - |
| `CurvySweep` | withdrawals of notes by the Exit, up to the removal of the key | an instance of `CurvyChain` |
| `PlainPool` | deposits, sweeps, gas top-ups over plain transfers | - |
| `DepositPools` | the five pool modules side by side, one subject per behaviour | the five |
| `PoolProofs` | theorems about discovery, the shield, the sweeps and the plain pool, and about all pools side by side | `AggregationProofs`, `DepositPools`, TLAPS |
| `MCCurvy` | how far a behaviour goes, symmetry | `DepositPools` |

**ActionLeases.** `leases` is the map of each kind, with time left in place of a
deadline; an expired entry stays until it is overwritten or swept, as in the
code. `spawn_leased` is two steps, `Acquire` and `CheckBudget`, because other
threads may release between them; the run loop is the only one that dispatches,
so there is one `dispatch`. `tasks` are the spawned transactions; `Report` is a
task's end, with or without success. `left` and `freed` of a task are history:
what is left of the lease it was given, and whether an event ended it.

**ChannelLifecycle.** A tick is cut where the code awaits and another thread can
change what is read next: `StartTick` (Safe), `ReadChannels` (snapshot and
cooldown reconciliation), `Resolve` (economics, fund pass, open candidates),
`Act` (after the selector: close, consolidate, finalize, open). Between the cuts
the passes run over a `Run` (what is dispatched, what may still be spent, the count
against the cap) in the order of the source: `Step` is what each pass does with one
candidate, `Pass` the recursive function that takes the candidates in turn until the
pass stops. `HandleEvent` is one handler per event. The chain is `Lands`:
`close_channel` starts a closure or ends one that is due, whichever its caller
had in mind. `GivesBack` returns the slot, by a report or, as a confirmation may never
resolve, by the deadline of the lease. A closure starts the cooldown (`Cooling`) from its event
and, where no event has, from the next snapshot. A channel at or below
`close_when_drained_below` (`CloseBelow`) is not refunded if that threshold is positive; at zero,
whether a channel drained to nothing is worth refunding depends on its peer (`Unrefunded`).

What is abstracted there, and why it is sound:
- A slot is held exactly by a task that has its lease (`NothingStranded`), so a
  lease is a flag of the transaction, and its expiry, `Lapses`, a fault.
- Whom the selector ranks, which peers are connected or active, what the proactive
  drain estimate says and what the startup phase shields are arbitrary choices:
  what holds, holds for every selector.
- Event-driven funding reads the Safe and dispatches in one step. The channel
  list, streamed by the code, is one read. The local re-read of one channel in
  `try_open_channel` does not fail.
- A notice period and a cooldown are long against a tick and against the wait of
  an event: both run (`Ages`, `Clock`) only with no tick under way and no event
  waiting.
- The initial states have channels absent, open or long overdue for closure: what
  a restart finds.
- A transaction that has landed and has lost its lease is forgotten: its report
  changes nothing.

**SpendLedger, PixDeposit.** A deposit is named by its reservation number. The
handler is `Check` (duplicate, ceiling, window) and `Admit` or `Skip` (guard,
payload, reservation), cut between its two cache lookups, since a flush on
another thread may act there. A flush keeps the list of what it has left to do:
a lone deposit is recorded before its guard is freed, a batch the other way
round, as in the code. The pool answers any way its trait allows, each item
paid, failed without moving funds, failed ambiguously or missing, and a batch
may echo an id again or a foreign one. Cache entries hold their time left.

**PixRecovery.** The same for sweeps, with the store as the only variable a
`Crash` leaves, the replay task cut at the same two lookups, and funds that may
land late and move without the pool reporting it. Entries the store cannot
decrypt, and removals that fail, are choices.

**RecoveryStore.** What that set is made of. A key is a password with a salt, a
ciphertext the key and the id it is bound to. `open` is two steps, one per
transaction, and the process may end after either; each start comes with any
password. The file is new, or older than verifiers: then it has a salt and rows under keys
of that time, each under any password (`inherited`), and its first open adopts the password
it comes with (`recovery_store.rs:310-311`). While the store is closed the file may lose a
row, or have one overwritten by another. `kept`, `damaged` and `inherited` are history.

**PixEventLoop.** A buffer is a count, a deadline the time left to it. An event is
handled and the deadlines are set in one step, as nothing else runs on the loop; an
event may come when a deadline has passed, since the `select!` prefers events. What
a flush does is left to the two modules above, where one may happen at any time.

**ChannelSelection, StakeSizing.** Pure algorithms: the initial state poses a
problem, one action per function answers it. Scores and weights are whole
percentages and candidates are numbered in the order they are offered, which
stands for the stability of the sorts. `CloseStep` is one turn of the close loop with its
simulated counts, `FillOpens` one tier of the open pass. In `StakeSizing` a
probability is a fraction, so that only the truncation of the code is rounding;
what a probabilistic sizing mode adds to the mean drain is a parameter.

**AutoRedeeming.** Spawning a run and inserting its handle are two steps of the
loop, and a run that ends invalidates the entry of its channel, whoever's that is.
An expired entry is not found but keeps its run until some maintenance drops it.
Run names are reused. `untracked` is history: runs pushed out at capacity. A channel is
open, closing, or over: closed for longer than the half minute that
`with_redeemable_channels(30 s)` reaches back, and then no tick lists it (`Redeemable`).

**AutoFunding.** A funding has a fate on chain and a report of its task, and the
two may disagree: a task may report an error about a transaction that lands.
The tick and the handler of a decrease are each cut at their read of the Safe.
The channels a tick visits show the stake of the tick's start or of now, as a
stream may. A confirmation is awaited without a timeout (`auto_funding.rs:269`), so a task
may never report.

**ClosureFinalizer.** A clock, the window as in the code, a configured interval, and a
node that goes down and comes back. A tick reads the channels that are due, or fails to and
is over (`FinalizerTick`); then it submits them one after the other (`TryClose`), each for as long as it
takes, since nothing times the await out (`channel_finalizer.rs:175-177`), while clock and
timer run on. The timer is set after the first scan. A submitted close may land or fail.
`tried` and `hindered` are history: channels a tick has tried to close, and channels that were
due while the node was down, while a read failed, or while slow closes held the next tick up.

**CurvyChain, CurvyAggregation.** A proof is a number with its inputs, allocations
and change; a proof someone accepted is `held` and may land while its inputs are
unspent. `journal` is the attempts over one set of inputs, in the order of the
code; every await on the relayer, the chain or the prover is a step, every
durable write (`save_update`) part of one. `call` is where the pool's own retry
loop stands, `work` where the adapter call under the chain lock does. In
operator mode the SDK sends the transaction itself and the same journal is
reconciled by its own rules. `booked` is history.

**Payout.** Allocations are unpaid or paid, and recorded or not. The refinement
maps `paid` to the number of proofs on chain that name an allocation and
`completed` to the record: what remains of the journal is nothing.

**CurvyDiscovery.** The index announces notes, commits them, and finalises
commitments; two kinds of source differ in what they show (`FetchPending`,
`Candidates`). A pass is cut at each read of the index. `overtaken` is history:
notes whose commitment was correlated before a pass could see them announced.

**CurvyShielding.** One key, its nonces mined in order, one transaction waiting
at each; the node's connector uses the same key. The status of a note and the
count of transactions are both read through the blocks Blokli has seen.
`overlooked` is history.

**CurvySweep.** Two tasks, the flush and the replay, may sweep one allocation. A note
is a name, and one without an amount may be in the store from an earlier version.
Proofs travel through an instance of `CurvyChain` of their own: a relayer answers
a second request over the same notes with the first. Whatever fails may be lag, so
that the pool tries again with the notes it has read, or the end of the sweep.
`sighted`, `revived` and `unread` are history: notes ever stored, notes whose withdrawal
was reorganised away, notes the sweep that dropped the key had not read.

**PlainPool.** Transfers land, revert or are dropped at any time after they were
sent; a confirmation may be missed; every retry begins with the balance of the
address again.

**The composed models.** The subjects of `Strategies`, those of `DepositPools` and those of
`MCPixRecovery` share no state: each behaviour picks one (`subject`) and leaves the others at their
beginning, which is the same as one model for each. The runs of the first two add only in which
way the others begin, and bounds.

## 3. Runs

| run | checks | states |
|---|---|---|
| `action_leases` | `BudgetRespected`, `NoStrandedSlot`, `OverlapOnlyAfterTurnover`, `LateReportSparesSuccessor`, `NoHoldIsForever` | 27 thousand |
| `lifecycle` | `CapsHold`, `TickWithinBudget`, `FloorExplained` | 2.2 million |
| `lifecycle_progress` | `CooldownHonoured`, `PendingFinalized`, `NeedyServed` | 230 thousand |
| `lifecycle_floor` | `FloorKept` is violated | - |
| `lifecycle_over_close` | `NeverOverCloses` is violated | - |
| `pix_deposit` | `EntriesBalance`, `WindowRespected`, `RefundedNeverMoved`, `OverlapOnlyAfterLapse` | 3.6 million |
| `pix_deposit_twice` | `FundedOnce` is violated | - |
| `pix_recovery` | `KeyKeptUntilSwept`, `SweepsOverlapOnlyIfBroken`, `ReplayNeverDropsKey`, `LockoutEnds`; `FlushComes`; `OpenReadsBack` | 243 thousand |
| `pix_recovery_race` | `OneSweepAtATime` is violated | - |
| `strategies` | `RunsOverlapOnlyAfterLapse`, `AbortsExplained`, `TicketsRedeemed`; `DoubleFundingExplained`, `GuardEnds`; `ForgottenExplained`; `OpensInOrder`, `CellsKeepFloor`; `StakeCarriesCapacity` | 239 thousand |
| `selector_floor` | `SoleOccupantKept` is violated | - |
| `curvy` | `BooksFollowChain`, `VerdictsTrue`, `AllocationsPaidOnce`; `WaitersKeepNotes`; `ShieldedOnce`; `SweepsKeepNotes`; `PaymentsExplained` | 1.1 million |

Type invariants are checked with the leases (`TypeOK`) and with the composed runs
(`StrategiesTypeOK`, `PoolsTypeOK`: those of their subjects together). `LoopTypeOK` holds on the
instance of its run too and is kept as documentation of the state. All the others are proved:
`RecoveryTyped`, `DepositTyped` and `LifecycleTyped` for the larger components, `StrategiesTyped` and
`PoolsTyped` for the composed ones, and that of the store as a part of its invariant.

**Bounds.** `action_leases`: two kinds on one key and a budget of one make the
kinds compete; three acquisitions (`MaxHolder`) give a holder, a successor and a
successor of that. `lifecycle`: two channels, a floor of one and a target of two
let every pass find something to do or be refused; a Safe with less than it
needs makes ticks stranded; `MaxStrays` is one transaction without a lease,
`MaxEvents` a broadcast of one, so that the second event is dropped, and
`MaxFaults` one failure, lapse, lost event or foreign closure. Peers are
symmetric there, and that run has no liveness property. `lifecycle_progress` has one
peer, since its properties are about one channel, but real cooldowns, drains, a drain
threshold of one under a lower threshold of two, and a budget of one; the other lifecycle runs
have a drain threshold of zero. `pix_deposit`: three deposits of three events - two for one
allocation - over a ledger of two entries, so that the third folds, a guard
cache of one, so that the second evicts, and a window of two ticks. `pix_recovery`:
a good and a bad key, whose deposit nobody can sweep and so never lands (`MCBadFunds`), two
sweeps by the loop besides those of the replay, one crash;
for the loop every pair of periods up to two steps, zero included, two items in each
buffer and one flush task of each; for the store two ids, two passwords and three
starts, so that one may be cut short, one mistyped and one right, in any order, over a new
file or an older one with any rows under any of the passwords.
`strategies`: a cache of one entry over two channels, so that one is pushed out, and
three runs, so that a successor and a run pushed out meet, with the one ticket won on the
first of two channels that are alike till then, and one closure where ticks visit every
channel anyway (`MCIncoming`); two fundings, one by
others, a Safe that pays for two; every interval shorter and longer than the
window of the finalizer, with a clock that outlives it; for the selectors
every subset of seven candidates that differ in what the code tells apart, under
floors of zero to two and two settings of the weights; economics with certain,
fractional, zero and out-of-range probabilities and prices that truncate.
`curvy`: two callers and two calls, a batch of one and of two in chunks of one,
journals of two attempts, three proofs, one crash or one reorganisation. Both
callers are active only in behaviours without any of these, or a forgotten request, and with
two proofs, and a third proof under a fault is of the first call (`MCTwoCallers`): what callers
share is the lock, what a crash tests is
the journal. Two notes with any owners, of which the first announced may be called 1, over
pages of one, two registrations for allocations that have notes (`MCWatched`) and one fault; two notes to shield over four nonces, three calls and one eviction;
two addresses, three transfers, a retry, and a Safe that can pay two; for sweeps two
notes in chunks of one and a blank one, three proofs, and one restart, reorganisation or
forgotten request, with one sweeper at a time where there is any of these or the blank note
(`MCSweepers`): two notes and a lost answer need three proofs.
Callers and addresses are symmetric, and that run has no liveness property.
`strategies`, `selector_floor`, `pix_recovery` and `curvy` do not check deadlock: a bounded
world runs out of things to do, and the loop of `PixEventLoop` returns.

**Fairness.** Leases: `Tick` (time passes) and `CheckBudget` (a call in progress
returns); tasks and events promise nothing, which is the point of the deadline.
Lifecycle: the loop ticks and every read has a deadline (`chain_read_timeout`), so
the four tick steps are weakly fair as one; the loop merges ticks and events, so
handling is strongly fair; `Clock` and `Ages` are strongly fair because their
guards ask for an idle moment that recurs; a transaction is mined or fails, and
its slot comes back - not because its task reports, which nothing promises, but because its
lease has a deadline (`mod.rs:190-195`). Faults, redemptions and foreign closures are not fair.
Recovery: spawned tasks run and the pool's retry budget is finite, and time
passes; nothing promises that an event arrives, funds land or a sweep succeeds.
`PixDeposit` states no liveness and has no fairness.
Event loop: time passes, the loop serves a deadline that has passed and its end, and
flush tasks end. That events cease is no assumption of fairness; `FlushComes` names it.
Strategies: the loop takes ticks and events (weakly fair; events strongly, since
ticks compete for the loop), time-to-live passes and redemption runs end. No transaction is
fair, and neither is the report of a funding: its task awaits a confirmation that may never
resolve, and `GuardEnds` says what becomes of the guard then. That a ticket whose redemption
is tried again and again is redeemed one day (strong) is an assumption about the chain, which the
code cannot give. Wins, losses of events, closures and the dropping of expired entries are not fair.
The pools state no liveness: a relayer that never answers is a legal one.

## 4. What the runs show

- **Leases.** The budget holds at every moment save for the slot a dispatch is
  about to give back; every live lease has an owner who will return it; a late
  report never touches a successor; two tasks of one slot run together only
  after the first lost its lease; no hold is for ever.
- **A tick.** Fund, consolidation, redirected opens and opens together never
  commit more than the Safe could spend when the tick read it. Regular and
  consolidation closes share one cap.
- **The floor** (`lifecycle_floor`). `open_count` is of the snapshot, the closes
  in flight are of now. A close that confirms and reports between the two is in
  neither, and the pass closes another channel below `min_open_channels`.
  `FloorExplained` is the complete list of causes: that one, a channel whose open
  the snapshot shows and whose slot is still counted, a finalize that outlives
  its channel and closes its successor, and a close running without its lease.
- **Over-closing** (`lifecycle_over_close`). The Safe is read before the channels.
  A finalize landing in between has its stake in neither sum, and consolidation
  closes a channel it had the stake to keep.
- **Cooldown.** No peer is opened again within the cooldown of the closure itself.
  A closure whose event is handled while the channel is closed, the ordinary path, starts
  it anew, whatever is left of an earlier one. So does a closure whose event is lost, late or
  handled when the channel is open again, with two exceptions: one that the snapshot finds while
  an older cooldown still runs gets none of its own, and a channel opened and closed between two
  snapshots is not noticed at all. `shown` is the peers whose last closure the property covers:
  those a snapshot has had the chance to see, and those whose event was handled.
- **Progress.** With finitely many faults every closure completes, and a channel
  at its lower threshold is served unless the Safe cannot pay for one ticket. A channel at or below
  `close_when_drained_below` is not promised anything: a positive threshold means to retire it
  and never to refund it (`pipeline.rs:934-939`), even where it lies at or above the lower
  threshold, and consolidation does not rescue it either (`pipeline.rs:612-616`).
- **Ledger.** Each live entry holds exactly what the reservations it answers for
  have not refunded, through expiry, folding and repeated refunds; deposits that
  may have moved never exceed the limit within any window; a refunded deposit never
  moved, however a batch fails.
- **Double funding** (`pix_deposit_twice`) and **double sweeps**
  (`pix_recovery_race`). Each guard is a lookup and an insert. For deposits, a flush
  that records and frees between the loop's two lookups lets a repeated event
  pass both; for sweeps, the replay and the loop both look before either claims.
  Apart from these races two transfers overlap only when a guard lapsed or was
  evicted (`OverlapOnlyAfterLapse`, `SweepsOverlapOnlyIfBroken`).
- **Recovery.** A persisted key is in the store until its funds have moved, through
  crashes, failed removals and concurrent sweeps. The replay claims the guard of
  an unusable entry and never frees it; the guard's time-to-live ends that lockout.

- **The store.** However starts are cut short and whichever passwords they come with, a
  store that opens reads back every secret written since it has a verifier, each under its own
  id, and the password the secrets were written under still opens it. A file from before the
  verifier has no such promise at its first open, which adopts any password: a mistyped one opens
  the store, every key written under another is skipped from then on, and the right
  password is refused ever after. What was written with the password adopted is read
  back (`Promised`, `Forsaken`). A row that became unreadable
  stays so: `insert` finds it taken, and an event that comes again does not repair it.

- **The event loop.** What is buffered is flushed unless PIX events never cease: each one,
  whatever it is about, sets both deadlines anew (`strategy.rs:1786-1792`), and there is no
  upper limit.

- **Redeeming.** Two runs of one channel overlap only when one outlived its entry:
  pushed out at capacity, or expired and not dropped yet. A run that finishes
  before its handle is inserted leaves an entry without a run; tickets are
  redeemed all the same, once it expires, where ticks visit channels and as long as the channel
  is open, closing or closed for less than half a minute: one closed for longer is listed by no tick
  (`auto_redeeming.rs:304-308`), and the tickets it still has are left. A run pushed out that then ends
  invalidates, and so aborts, its successor, although the comment at
  `auto_redeeming.rs:165-166` takes that abort for a no-op: `AbortsExplained` names it.
- **Funding.** Two fundings of one channel are both on their way only when the
  first was reported failed and was merely slow, or when another rise of the stake
  cleared a guard that was not its own; once somebody else, or an earlier funding, has raised the
  stake in a behaviour, all later pairs of the channel are excused (`rises` is cumulative).
  A guard ends unless its event was lost, or its transaction neither lands nor is reported on:
  a confirmation is awaited without a timeout and the guard has no deadline
  (`auto_funding.rs:269`), so nothing but a rise of the stake clears it then.
- **Finalizer.** A closure is forgotten without one attempt only when, while it was due, the
  node was down, a tick failed to read the channels, or slow closes held the next tick up; or when
  the interval exceeds the window. Each of the four does happen alone.
- **Selection** (`selector_floor`). A drained channel scheduled for close still
  counts as an occupant of its cell, so the last other one is closed too. But for
  such a cell the floor holds, and no peer is preferred to a better one except to fill a
  cell, and no ticket sink to a capable peer.
- **Sizing.** A stake is a whole number of tickets, enough of them to carry the
  capacity and not one more, whatever the face value loses to truncation.
- **Aggregation.** Whatever is on chain is booked or still journalled, and what
  competes with a booked proof can no longer land: losing answers, replacing
  proofs, crashing and reorganising pay no allocation twice (`AllocationsPaidOnce`, the
  refinement). A refusal taken to have moved no funds is one, with an exception:
  the reconciliation inside `shield()` (`sdk.rs:1235`) is not tagged, against the
  comment at `sdk.rs:2231-2234`, so that a refusal met there may follow a
  submission (`VerdictsTrue` leaves `from = "fund"` out).
- **Discovery.** With the watcher at rest, and no replay due, every note of a
  watched allocation behind the cursors was correlated. The exception is a stream that
  announces and finalises a note between the last read of announcements and the read of
  the head; the module doc of `lifecycle.rs` says that cannot be.
- **Shielding.** A note is executed once, unless an earlier copy takes effect
  between the reads of status (`sdk.rs:1099`) and nonce (`module.rs:321`):
  the fresh nonce then hides the conflict that would have shown it. The doc at
  `sdk.rs:484-489` does not mention it.
- **Sweeps.** A note leaves the store only when it is spent or has no amount, and when the
  key is dropped every note is, however answers are lost and chunks fail. What is left out:
  notes found after the sweep that dropped the key had read the store - a store that
  holds nothing but a blank note is swept with success and the key dropped, which the
  doc at `mod.rs:1575-1578` means to prevent - and withdrawals reorganised away, which
  are believed as soon as they are on chain. A sweep that loses an answer may never
  report success, and the replay then keeps the key of an empty allocation. Intents left
  "for the next start to resolve" (`sdk.rs:2200`) are read by nobody, and one that the relayer
  does not know is cleared as "definitively never arrived" (`sdk.rs:2195`), although
  `relayer.rs:608-609` says that it may have been forgotten: the nullifiers, and not the
  journal, keep such a withdrawal from being made twice.
- **Plain pool.** A deposit is paid twice only when a retry read the address
  while an earlier transfer was pending or after its money was swept;
  `deposit_once` says of a lost confirmation that it is "not sent twice".

Every checked property is paired, in `PROJECT.json`, with a small slip of the
modelled code that breaks it (the operators marked "slip" in the modules).

## 5. What is proved

Every theorem holds for all values of the constants that the named assumptions of its
modules allow: any finite sets of keys, peers, allocations or notes, any times to live
and bounds. Where a bound of a model (`MaxProofs`, `MaxCrashes`) is a constant, it is
any natural number. No safety property below is inductive alone; each proof names the
invariant that is, and TLC checked that invariant before it was proved.

| module | theorem | property |
|---|---|---|
| `ActionLeasesProofs` | `TypeCorrect` | `TypeOK` |
| | `BudgetHolds` | `BudgetRespected` |
| | `NothingStranded` | `NoStrandedSlot` |
| | `OverlapExplained` | `OverlapOnlyAfterTurnover` |
| | `LateReportsSafe` | `LateReportSparesSuccessor` |
| `LifecycleProofs` | `LifecycleTyped` | `TypeOK` |
| | `CapsRespected` | `CapsHold` |
| | `TicksWithinBudget` | `TickWithinBudget` |
| | `CooldownsHonoured` | `CooldownHonoured` |
| | `FloorsExplained` | `FloorExplained` |
| `PixRecoveryProofs` | `RecoveryTyped` | `TypeOK` |
| | `KeysKept` | `KeyKeptUntilSwept` |
| | `ReplayKeepsKeys` | `ReplayNeverDropsKey` |
| | `OverlapsExplained` | `SweepsOverlapOnlyIfBroken` |
| | `StoreReadsBack` | `OpenReadsBack` |
| `PixDepositProofs` | `RefundsNeverOfMoved` | `RefundedNeverMoved` |
| | `OverlapsOfLapsed` | `OverlapOnlyAfterLapse` |
| | `BooksBalance` | `EntriesBalance` |
| | `LimitKept` | `WindowRespected` |
| | `DepositTyped` | `TypeOK` |
| `StrategiesProofs` | `OverlapsLapsed` | `RunsOverlapOnlyAfterLapse` |
| | `AbortReasons` | `AbortsExplained` |
| | `DoubleFundings` | `DoubleFundingExplained` |
| | `ForgottenClosures` | `ForgottenExplained` |
| | `StakesCarryCapacity` | `StakeCarriesCapacity` |
| | `RanksInOrder` | `OpensInOrder` |
| | `FloorsOfCells` | `CellsKeepFloor` |
| | `SelectionTyped` | `SelectTypeOK` |
| | `StrategiesTyped` | `StrategiesTypeOK` |
| `PoolProofs` | `NotesShieldedOnce` | `ShieldedOnce` |
| | `PaymentsAccounted` | `PaymentsExplained` |
| | `WaitersServed` | `WaitersKeepNotes` |
| | `SweepsKeepFunds` | `SweepsKeepNotes` |
| | `WatchTyped` | `WatchTypeOK` |
| | `PoolsTyped` | `PoolsTypeOK` |
| `AggregationProofs` | `BooksFollow` | `BooksFollowChain` |
| | `VerdictsHold` | `VerdictsTrue` |
| | `PaysOnce` | `AllocationsPaidOnce`, the refinement of `Payout` |
| | `BridgeTyped` | `AggTypeOK` |

**Leases** (`IInv`). Holders are issued in order and no task or lease has one that is not
(`HoldersIssued`), two tasks of a slot never share a holder (`TasksDistinct`), a
lease in the map, live or lapsed, has its dispatch or its task behind it
(`EveryLeaseOwned`), the dispatch under way holds the slot it took and every
earlier task of that slot has lost it (`DispatchSucceeds`), and a task that has
neither overrun nor been freed still stands behind its lease (`TaskStanding`).
Then an `Acquire` that finds a slot free can only have found one whose former task
had lost it; and a `Report` whose holder is not the lease's changes nothing. `BudgetInv`
bounds the slots held besides the one of the dispatch under way: an `Acquire`
leaves that set as it is or smaller, and a `CheckBudget` that keeps its slot has
just counted it.

**Lifecycle** (`Sound`, `Cools`). A pass takes its candidates one after the other, so what
it adds up to is induction over them. The library's induction theorems take an operator and
cannot be used here; the induction is done on sets of numbers instead: a set that has 0 and
the successor of each of its members up to n has them all (`Upto`, from the library's
well-foundedness of <). With it every finite set has a partial-sum function and a member can be
split off its sum (both in `SumLemmas`, and `AmountsAdd` for what transactions cost), and a pass is a trace of runs (`PassTrace`). Each candidate is passed
by, stops the pass or gets one submission (`StepTakes`); so a pass adds suitable
transactions (`PassAdds`), takes each from the budget (`PassBudget`) and counts it
against its cap (`PassCounts`), and the second half of a tick is five such passes in a row
(`ActDoes`). The invariant `Sound` is the types, in which no two transactions of a slot share a
number - two fundings of one peer, one of them lapsed, are two in a sum - and what a tick
carries from one part to the next: nothing is deferred or promised before the candidates are
settled (`TickFresh`), what was committed and what is left make up what the Safe showed
(`Budgeted`), and a deferred channel holds less than one face value, so that its top-up
is a positive amount (`DeferredPoor`). The caps need that no pass closes or finalizes beyond the
count it began with. For the cooldown, `Cools` follows a peer that a snapshot has shown: while
its channel runs nothing is counted and no closure noticed; once closed, noticed closures count
at least as long as the closure is recent; a tick that may open it found the count at zero. The
floor: channels shown open and without a close are as many as the close pass counted, unless
one of the four listed things came between the snapshot and the pass. The assumptions are
`LifecycleAssumption` only: any finite set of peers, any caps, stakes, cooldown and faults.

**The store** (`StoreInv`). `OpenReadsBack` says nothing of the file while `open` is between
its transactions. The invariant does: past the first there is a salt, a verifier carries
the salt of the file, an open store is open under the verifier's password (`KeysAgree`),
and a row neither removed nor damaged is encrypted under the verifier's key, or, in a file
older than it, under the key the row was inherited with, while every
row, moved or not, holds the secret it was bound to (`RowsAgree`). The theorem supposes
one password at least.

**Recovery** (`KeepInv`, `OverlapInv`). A key leaves the store behind an answer only, and
an answer of success is of funds that moved (`MovesMeanSwept`, `RemovalEarned`). Two sweeps
of one key exclude each other because a sweep is in one place, the buffer, one flush or the
replay (`PlacesApart`), what has no answer is with the pool or yet to be
(`PendingPlaced`), and a key that is not broken has its guard up for one such sweep
(`GuardExclusive`).

**Deposits** (`RefundInv`, `GuardInv`). A batch's failures do not say whose they are, so what
is refunded is decided from what is left over. The invariant follows each deposit through
the flush: it is in one place (`PlacedOnce`), only what is yet to be paid is without an
answer (`AwaitsPool`), and what a flush will still refund did not move (`RefundsEarned`).
For the overlaps, a deposit not past its `free` stands behind a guard unless that fell
(`GuardStands`), which no other deposit has (`GuardsApart`).

The ledger (`LimitInv`). Its entries answer for stretches of reservations, one after the other
up to the next one (`Chained`), and each entry stays at least as long as the reservations it
answers for count, knows which of them were refunded, and holds the total of the others
(`Books`). Expiry drops the oldest entries, folding makes one stretch of two, a
reservation begins a stretch of its own, and a refund takes one amount out of the one
entry that answers for it, or finds it expired. What the ledger says is committed is
then the total of the reservations booked and not refunded, and with the amount a
reservation asks for it stays within the limit (`LimitIs`). A deposit that moved, or may
have, is never refunded (`RefundInv`), so within its window it is among these, and a part of
a sum is no more than the sum.

**Small strategies.** A redemption run is behind an entry of its own channel unless it was
pushed out; a funding has its guard for as long as nothing raises the stake of its channel;
a closure that is due, that no tick has taken up and nothing has hindered has been waiting no
longer than the timer (`WaitsForTick`), which is where interval and window meet. That proof shows the boundary: with a
grace period of zero the window of the code is shorter by one unit (`WindowLength`). That a
stake stays within `MaxLevel` is no matter of types: every raise is a funding that landed or
somebody else's (`Counted`), of which there are as many as both bounds together.

**Sizing.** The face value divides the stake exactly, so how much its truncation loses does
not matter to the count of tickets; the count is a rounding up of whole packets' drain by
the untruncated price of a ticket, from which price and hops cancel (`CapacityHolds`). It
takes `SizingAssumption` and clamping only: a probability above one, or as good as none,
is covered.

**Selectors.** A ranking is a bijection between places and candidates in the order of the key
(`RankingSorts`): as many candidates are ahead of one as it has places before it. The opens are four
such rankings cut to size, those forced for their cell first, and a tier is only begun when the
one before it is used up (`FillOpensDoes`); so what a tier adds is in order from where it began
(`OrderedFrom`), and what was in order stays so. A close loop keeps the floor with each channel
it schedules (`CloseStepKeeps`), by induction over the ranking: the count it simulates for a cell
is what the cell has, less those scheduled that are not drained. Nothing is supposed of the
snapshot beyond `SelectionAssumption`: candidates are numbered and measurements are integers, or missing.

**Shield and plain pool.** `ShieldedOnce` rests on what the call knows: with a nonce in hand
no other nonce executes its note or waits to, and it asks for a fresh one when none does
(`CallKnows`), except when an execution was overlooked. `PaymentsExplained` rests on
`Holdings`: an address paid at most once holds what its transfers say, so that a
balance that reads as nothing excludes a payment. It assumes `AddressAssumption`, that
the Safe, the node and the sink are no deposit addresses.

**Discovery** (`DiscInv`). The property looks at the watcher at rest; the invariant says what
a pass at each place has behind it. While announcements are judged the queue is the
stretch of the index after the pass's cursor, later the page is the stretch of
commitments after the other (`PendingStage`, `CommitStage`); unless somebody registered
since the pass began, every announcement behind the first is judged and every
commitment behind the second correlated (`PassKnows`); and a pass that will not ask for
genesis again when it fails never stands before the durable cursors (`CommitBehind`). A
commitment is read after the announcements it needs, so its note was judged, or the index
ran ahead. Of the pending view of a snapshot nothing is needed: there the candidates
beside the page decide. For the types (`WatchHolds`) that view has to be a list of announcements,
which it is because the uncommitted ones are numbered by their rank (`PendingViewAnnounced`).

**Sweeps** (`SweepInv`). What a call at each of its places knows of its proofs (`CallSpends`,
`CallFollows`), that a carried proof not on chain has its intent journalled or
was forgotten (`StillIntended`), and that one sweeper is under the lock (`OneAtATime`).

**Aggregation** (`AggInv`). The largest of them, in three parts. The ledger: a note that a
proof makes is spent only once the proof is booked (`ProofsMade`); nothing on chain spends a
note twice (`ChainSound`); the attempts of a journal spend the same notes of the funding and
pay the same allocations, none recorded (`JournalSound`); what is on chain is booked or
journalled, two booked proofs share nothing, and whatever else is held competes with a
booked proof that is final (`BooksSound`). Then what each place of the adapter call knows of
the journal and of its chunk (`WorkSound`): that a post which was never tried before has
nothing held, that what is awaited is an attempt, that a chunk's journal pays the chunk.
Then the verdicts of calls that ended, which stand because nothing recorded is taken back
and a proof that can no longer land never lands (`Kept`). For the refinement every
step either leaves `paid` and the record alone or is a step of `Payout`: a landing pays,
because what is booked or journalled pays nothing that the chain pays already
(`PaidOnce`); booking completes; a reorganisation reverts. `AggregationAssumption` says that
the deposits of a batch are distinct, which the guard on a destination gives.

**Amounts of the bridge** (`MoneyInv`). Change is a difference, and natural only if no proof pays
more than it spends. `Purse` says so of every proof ever made, and that the notes the bridge
may spend are together worth no more than one float: a chunk is proved only when the largest notes
cover it (`Allocate`), booking exchanges inputs for change worth less (`EarningKeepsPurse`,
`SpendingKeepsPurse`), and a float only comes in when there is nothing left to spend. Values are sums over
notes (`ValueIsTotal`, over `SumLemmas`). `Bounded` keeps the journal from growing past
`MAX_RELAY_AGGREGATION_ATTEMPTS`: whoever appends to it has passed `Exhausted`. With `LockHeld`, that a
call works exactly while it holds the lock, these are the types.

**Side by side.** The invariants of subjects that share no state are kept together: a step of
`StrategiesNext` or `PoolsNext` is a step or a stutter of each (`EachItsStep`).

Reasoning about the models changed some of them, each change checked against the source and
the runs: a refund gives back one reservation in a step, as the code does; `todo` of an
adapter call is a set with the order of its batch, and the largest notes are counted
rather than chosen; a pass of the lifecycle is a recursive function over its candidates and no
fold with an operator for a parameter, and the fund pass orders its candidates after it has put
some off; the selectors rank with a function for a key, take the close loop as a recursive function, and say of a
snapshot what they rely on (`SelectionAssumption`); the pending view of a snapshot is an enumeration by
rank and not a filter.

## 6. What is only model-checked

- Liveness (`NoHoldIsForever`, `PendingFinalized`, `NeedyServed`, `LockoutEnds`,
  `FlushComes`, `TicketsRedeemed`, `GuardEnds`) is out of the prover's reach.
- `LoopTypeOK` of the event loop, which no theorem is about: its one property is of liveness.

## 7. Not modelled, and the plan

Not modelled, and why:

- Settings validation, metrics and published state, ciphers, test support: no property
  here is about them.
- `MultiStrategy`: it starts its sub-strategies and logs failures; it has no state that
  they read.
- Deposit data requests and deposit trackers: one spawned call or a polling loop each,
  without state of their own.
- Curvy: proofs, calldata, HTTP and fees (fees only make the change of replacements
  differ); journals written by earlier versions; a change of submission mode,
  chain or aggregator under a live journal; portal shielding; a withdrawal of
  less than all notes, which the strategy never asks for; a reset of the chain state, which nothing but a test calls; trial decryption; the token; the commit transaction of an
  operator, which here succeeds or ends the call. Reorganisations are modelled
  under the aggregations and the withdrawals only: discovery reads final blocks, shielding one key's.
- `CurvyShielding` assumes one view of the chain behind status and nonce, as
  both come from the same Blokli.
- A withdrawal request of Curvy that reaches the relayer only after a lookup by its intent was
  answered "unknown" (`sdk.rs:2193-2199`): in `CurvySweep` a request has arrived, or has not,
  when it is posted. An intent cleared as never arrived may thus arrive later in the code; the
  nullifiers bound what it can do, as section 4 says of forgotten ones.
- The plain pool's trackers and payload checks, and the read of a balance that fails in a
  sweep (`plain.rs:909-913`), which ends or retries the sweep before it has done anything.
- Incoming channels that are opened again after their closure: to `AutoRedeeming` the next
  channel is another one.

What would come next: `PlainPool` in place of the arbitrary pool of `PixDeposit`, and a
mutual-exclusion contract that `ActionLeases` implements when no lease is overrun.
