# A TLA+ model of the Obsidian Terminal trading core

Obsidian Terminal is a Windows desktop terminal that runs up to five trading
bots (TREND and SPOT on the spot wallet, FUTURES, CROSS and FUTREND on the
futures wallet) as separate processes on **one** exchange account. Each bot has
several threads (scan, monitor, reconcile, markout), its own JSON position state
and a share of one SQLite database. Money is at stake where these meet: two bots
must not manage the same position, an order whose answer was lost must be found
again, a close must be booked once, a stop must neither abandon a position nor
sell one that the user wanted to keep, and a crash between two writes must neither
lose a position nor block the account for good. The models here are about that
core.

Paths below are relative to the repository (`src/` of the map).

## 1. Inventory

| Component | State | Operations | What is hard | What makes it correct |
|---|---|---|---|---|
| Claim and reservation registry (`core/database.py`) | `bot_open_positions`, `portfolio_reservations` | claim, mirror, remove, adopt, reserve, consume, release, start-up maintenance | processes interleave between transactions; clean-ups arrive late; start-up of one process meets running others | one owner per wallet and coin; a managed position keeps its claim; reservations agree with the journal; the ceiling holds |
| Order journal (`core/database.py`) | `order_intents` | create, transition, record fallback, lease, record evidence, finalize | written by two threads from rows they read earlier | cumulative fills, no reopening, truth of the decision |
| Entry executor and recovery (`trading/entry_executor.py`) | procedure of one entry; the row a pass read | market or maker-first order, refresh, cancel, verify, fallback; recovery by client id | lost answers, crash anywhere, fills racing a cancellation | no double exposure, every order traceable, clear cases decided |
| Position state (`bot_utils/trade_state.py`) | rows in memory, revisions, JSON file, retry queue | add, update, remove, save, mirror, retry, guard an order, restart | snapshots saved out of order, staged removal, failed mirrors, conflicts under an order in flight | file, row and claim never contradict each other for good |
| Scan threads (`core/futures_bot_scan.py`, `core/spot_bot_scan.py`) | stage of an entry | claim, checkpoint, submit, promote, clean up | exceptions between any two of these | see the registry |
| Reconciliation (`core/futures_bot_reconcile.py`, `core/spot_bot_reconcile.py`) | recovery barrier | adopt orphans, finish recovery, book what others closed | works beside the scan and monitor threads on older reads | adoption takes nothing from a managed position; nothing is booked twice |
| Exits and accounting (`core/*_exits.py`, `bot_utils/*_exits.py`, `bot_utils/futures_order.py`) | close intent, fragments, pending bookings, trades | close, recover, book, retry | partial fills of several orders, closes by others, a crash between booking and note | every lot is booked once; no order is lost |
| Close locks (`core/symbol_locks.py`) | in-process lock, OS lock, database lease | acquire, renew, release | renewal racing release, expired leases | mutual exclusion of closers |
| Shutdown control (`bot_utils/shutdown_control.py`) | control file, parked claim | publish, consume, restore | interruption between claim, read and restore; a newer request behind an older one | received once, by the run addressed, the newest obeyed |
| Shutdown protocol of a bot (`core/futures_bot.py`, `core/spot_bot.py`, `bot_utils/runtime_threads.py`) | close requests, gate, latches, runners | drain, emergency close, preserve, finalize | signal handlers nested in the main thread; runners that outlive their deadline; late entries | one closer; no close after a promise to keep; an end only when settled |
| Launcher (`launcher/core/process_manager.py`, `launcher/core/bot_controller.py`) | child, run id, stop request, reader | start, stop, escalate, clean up | start, stop and reader of different runs meet; failed starts | a child is never lost, doubled or killed while it closes |
| Update barrier, supervisor (`update_barrier.py`, `launcher/supervisor.py`) | marker, lifecycle lock, restart budget | publish, guard a start, restart | start racing an update | no process starts during an update |
| Circuit breaker, API budget (`bot_utils/circuit_breaker.py`, `bot_utils/api_budget.py`) | windows, counters | record, trigger, admit | limits shared between processes | no admission above the budget |
| Market data, risk arithmetic, news, research and tools, user interface, installation | - | - | mostly input, output and computation | not candidates for TLC |

Interaction: a scan thread claims a coin in the registry (with a reservation),
writes the provisional row to its position state, which mirrors it into the
claim, and hands the order to the executor. The executor journals before it
sends. The reconcile thread of the futures bots recovers unfinished intents
through the journal and adopts positions that only the exchange knows. Monitor
and reconcile threads close positions under `close_lock`, book them and remove
their rows. Every process that opens the database runs the start-up maintenance,
whatever the other processes are doing. The launcher starts the bots and stops
them through a control file and signals; the bot's main thread turns a request into
an emergency close, or into the promise to keep its positions.

The hazards these interactions raise are listed in `PROJECT.json` at the line
where each bites.

## 2. Modules

| Module | Models | Lines it stands for |
|---|---|---|
| `SymbolOwnership` | abstract promise of the registry: every coin of a wallet has at most one owner | - |
| `EntryRegistry` | claims, reservations, the journal as the registry sees it, rows, the stage of an entry | `core/database.py`, `bot_utils/trade_state.py`, `core/*_scan.py`, `core/*_reconcile.py` |
| `MCEntryRegistry` | its small instances | - |
| `EntryRegistryProofs` | its theorems | - |
| `OrderExecution`, `OrderExecutionProofs` | one entry intent: journal, executor, recovery, venue | `trading/entry_executor.py`, `core/database.py` |
| `CloseMutex` | abstract promise of a close lock: closers of a coin are alone | - |
| `CloseLock`, `CloseLockProofs` | the four barriers of `close_lock` for one coin of one wallet, and the renewal threads | `core/symbol_locks.py`, `core/database.py` |
| `MCCloseLock` | its small instance | - |
| `RequestMailbox` | abstract promise of the control file: a request is received at most once, never after a newer one | - |
| `ShutdownControl`, `ShutdownProofs` | the control file of one run | `bot_utils/shutdown_control.py` |
| `BotProcess`, `BotProcessProofs` | one bot under the launcher: children, readers, stop operations | `launcher/core/process_manager.py`, `launcher/core/bot_controller.py` |
| `EmergencyClose`, `EmergencyProofs` | the shutdown of a bot from the inside | `core/futures_bot.py`, `bot_utils/runtime_threads.py` |
| `PositionState`, `PositionProofs` | rows, file and mirror of one symbol | `bot_utils/trade_state.py`, `core/database.py` |
| `FillLedger` | abstract promise of the books of an entry or of a position: never ahead of the venue, nothing taken back, complete when closed | - |
| `FullExit`, `FullExitProofs` | the full exit of one futures position and its booking | `core/futures_bot_exits.py`, `core/futures_bot_reconcile.py`, `bot_utils/futures_order.py` |

How they fit together. `EntryRegistry` sees the position state of every bot as four
kinds of row; `PositionState` opens one of them: its snapshots, its file and its
mirror (`MirrorRow` there is a settled `Mirror`, `StageRemoval`, `DropRow` and
`RemoveDropped` are `Remove`, `DropRow` and `Release` here, without their saves).
`OrderExecution` details the journal's actions of `EntryRegistry`, which are more
permissive. Entry and exit keep the same kind of books: `FillLedger` is implemented by
the journal row of an entry and by the trades of a position. `FullExit` runs its
operations one at a time, which `CloseLock` is there for. `BotProcess` keeps a mailbox
per run, which is what `ShutdownControl` implements, and a child that is closing or
preserving, which is what `EmergencyClose` decides.

### EntryRegistry

State: `claim[b][s]` (state, generation, removal marker, older than 30 min),
`reservation[i]`, `lapsed[i]` (`expires_at` has passed), `journal[i]`
(none, open, held = fill evidence, filled, zero), `row[b][s]` (none, held,
leaving = marker set, gone = popped and its claim not yet removed), `stage[i]`,
where the scan thread is, and `adoption[b][s]`: where reconciliation is with an
orphaned position, and the entry id its claim showed when the pass began. One action is one `BEGIN IMMEDIATE` transaction or one
durable write of the position state. An intent of `Unsettled` may have been left by
an older database: decided in the journal, its reservation not settled (`Init`).
`Orphans` are the positions without a row that reconciliation may meet; `Enforcing` are
the bots whose `PORTFOLIO_RISK_MODE` is `enforce`, which every bot reads for itself.

| Action | Code |
|---|---|
| `ClaimForEntry` | `_try_claim` with `CLAIMING` and a reservation |
| `Checkpoint`, `JournalIntent`, `PromoteRow`, `SettleConsumed` | the entry, from provisional row to promoted position |
| `AbortEntry`, `ReleaseReservation`, `EndEntry` | its clean-up, in two transactions, and its end by an exception |
| `RecordFill`, `FinalizeFilled`, `FinalizeZero`, `FinalizeQualified` | journal transitions by executor and recovery |
| `MirrorRow` | `upsert_open_position`, after a write, a retry or a resync |
| `StageRemoval`, `DropRow`, `RemoveDropped`, `RestoreDropped` | the steps of `TradeState.remove` |
| `RemovePending` | marker without row, at start-up |
| `FindOrphan`, `ClaimOrphan`, `AdoptRow`, `LeaveOrphan` | adoption by reconciliation: the metadata of the claims is read once per pass, the claim taken, the row written |
| `FailAdoption`, `ReleaseOrphan` | the row cannot be written: the check that there is none, and later the base-wide release of the claim, in two steps with no lock between them |
| `Crash` | a bot dies; its rows are durable, its threads are not |
| `PurgeJunk`, `ReconcileReservations` | `_purge_junk_claims`, `_reconcile_portfolio_reservations`, by any process at any time |
| `ReservationLapses`, `ClaimAges` | time |

A spot bot that could not save an adopted row may keep it in memory and releases the
claim all the same (`core/spot_bot_reconcile.py:1912-1955`), which `FailAdoption` also
allows.

`Next` orders nothing between these but what their guards ask. The journal's
actions are more permissive than `OrderExecution`, so what is shown here holds
for every order procedure.

### OrderExecution

State: the journal row, `pc` of the executor, a `todo` list of decided journal
writes per thread (each applied in its own transaction, `Apply` and
`RecordFallback`, refused by the journal, `Refused`, or failing,
`TransactionFails`), the `snapshot` a recovery pass read, its `evidence` and
`quorum`, and the two `order`s on the venue. `Admissible` is the journal's check
of a transition; the plans (`Observed`, `ZeroFillPlan`, `FallbackPlan`,
`FullPlan`, `PartialPlan`) are what the code decides to write from what it saw.
Whether the entry is a market or a maker order (`MarketAnswer`, `MakerAnswer`), and
whether a fallback follows (`MarketFallback`), is a choice, not a constant.
The venue is external: an order may arrive late, be lost, fill lot by lot or be
canceled at any time.

### CloseLock

State: `pc[t]` of each closing thread, `inproc` (who holds a lock object of its
process; the object is identified by process and key), `stale` (whose object is no
longer the registered one), the kernel lock's holder `osHolder`, the `lease` row
(its holder is a process, and it may have expired), and of each process the
renewal generations: `gen[t]` is where the renewal thread started by `t` is,
`stopped` who was told to stop, `published[p]` the unresolved generation.

| Action | Code |
|---|---|
| `Request`, `LockAcquired`, `LockTimeout`, `Unlock`, `Collect` | the in-process lock, its reference count and `gc_idle_locks` |
| `Admit`, `AcquireOs`, `OsRefused`, `Handoff` | two looks at the generations around the kernel lock |
| `LeaseAcquired`, `LeaseRefused`, `Publish`, `Start` | the lease and its renewal; `FailOpen` closers go on without it (`WithoutLease`) |
| `Leave`, `Join`, `ReleaseLease`, `DropOs`, `Refuse` | the `finally` part |
| `Wake`, `Renew`, `Lapse`, `Reacquire`, `Hold`, `LateRelease` | the renewal thread, one transaction a step |
| `OsFails`, `LeaseFails`, `StartFails`, `ReleaseFails`, `RenewFails`, `ReacquireFails`, `LateReleaseFails` | the same operations failing, at any time |
| `Expire`, `Sweep`, `ReleaseDead`, `Crash` | time, clean-up by others, death of a process |

`Join` does not wait for the renewal thread (the code waits for at most 2.5 s), so
its last transactions mix freely with the successors of its closer.

### ShutdownControl

State: `sent`, the number of the newest request; `target`, the request in the
control file; `pending`, the claim parked in memory; per consuming thread where it
is (`pc`), what it saw in the file (`seen`), whose claim file it owns (`hand`) and
whether its claim epoch is still the newest (`fresh`); `taken`, what the bot was
given; `stranded`, claims nobody knows of.

| Action | Code |
|---|---|
| `Publish` | `publish_shutdown_request`, one `os.replace` |
| `Look`, `Claim`, `ClaimParked`, `ClaimNothing` | the section of `consume_shutdown_request` under `_PENDING_CLAIMS_LOCK`; the launcher may publish between look and rename |
| `ClaimRefused`, `ClaimInterrupted` | a rename that fails, and one that took effect and raised all the same |
| `Deliver`, `Discard` | the claim is read and removed; invalid requests are removed and not returned |
| `ReadInterrupted`, `RestoreSuperseded`, `RestoreLinked`, `RestoreParked` | a claim that could not be read goes back by a create-only link, unless it is superseded, or is parked |
| `TroubleEnds` | failures and interruptions end |

### BotProcess

Runs of a bot are numbered. State: `run`, `proc`, `failedProc` and `stop` of the
process manager; `child[r]`, `mail[r]` (the unread control file) and `reader[r]` of
every run; `readerState`; and `op`, the one stop operation with its locals.

| Action | Code |
|---|---|
| `Start`, `StartRefused`, `StartFails` | `start` under the lifecycle lock, with the rollback of a child that was created (`RolledBack`, `RetainedNot`, `Retained`) |
| `AskStop`, `StopFindsNone`, `StopRejected`, `StopBegins` | the bot controller's request and the reservation of the stop |
| `Request`, `RequestMoot`, `RequestFails`, `Signal`, `SignalFails`, `NoSignal`, `PreserveUnavailable` | control file and console signal |
| `WaitEnds`, `WaitExpires`, `Escalate`, `Terminate`, `TerminateFails`, `Finish` | the wait and the escalation with its fresh status check |
| `Verify`, `CleanupEnds` | `exclusive_stop_operation`: the launcher's own clean-up |
| `ReaderEnters`, `ReaderNeverStarts`, `ReaderEnds`, `ReaderClears`, `ReaderGivesUp` | the stdout reader of a run, up to the bookkeeping of the exit |
| `ChildTakes`, `ChildCloses`, `ChildExits` | the child (see `EmergencyClose`); it may exit at any time |

### EmergencyClose

Actors are the main thread's program (level 1), one level per signal handler nested
in it, and the runner threads, named by their generation. A signal may arrive
between any two steps of the main thread, and nothing below its handler moves until
it returns (`Active`). State: `pc` and the locals of each actor, the request
(`requested`, `reqGen`), the gate `_shutdown_handler_lock` and the lock
`_shutdown_lock`, the latches `inProgress`, `closed` and `preserved`, and of each
generation the request it covers, whether it is done, the positions it is closing
(`legs`) and its pass.

| Action | Code |
|---|---|
| `LoopTurns`, `ConsumesNothing`, `ConsumesClose`, `ConsumesPreserve` | the main loop and the control file |
| `Signal` | the handler: publish a close request, then drain |
| `TakeGate` .. `Recheck`, `LockForCheck`, `DrainAgain` | `_drain_shutdown_close_requests`, with the re-check after the gate is released |
| `AlreadyDecided`, `AttemptAtWork`, `BeginAttempt`, `NothingOpen`, `Flat`, `SomethingOpen`, `SpawnRunner`, `SpawnFails`, `Join`, `JoinFails` | `_emergency_close_once`; `Join` may end before its runner |
| `PassSucceeds`, `PassFails`, `FinishRunner`, `AfterFailure` | the runner: passes over the positions it read |
| `GateForPreserve`, `LatchPreserve`, `PreserveRefused`, `Ungate` | the preserve latch |
| `GateForFinal`, `Finalize` | the finalizer of `runtime_threads.py` and its decision to go on or to tear down |
| `EntryLands`, `WorkersEnd` | a worker opens one more position, and ends after the shutdown event |

### PositionState

State: the row in memory (`trades`) with its identity, generation and two data
stamps, `rev` and `persisted`; the retry queue of the symbol (`retry`, `retryGen`,
`deferred`); `rlock`, the holder of `_registry_lock`; `op[t]`, the operation of each
thread with the snapshot it took; the `file` and its revision; the `claim`; and
two history variables, `acked`, the newest revision a caller was told is saved, and
`confirmed`, the row whose write was answered with True. A section under `_lock`, a
save under `_persist_lock` and a registry transaction are one step each.

| Action | Code |
|---|---|
| `Add`, `Update`, `Touch`, `Flush` | the writes, up to the snapshot |
| `SaveDone`, `SaveFailed` | `_persist_snapshot`: the revision check, and a failure before or after the file was replaced |
| `Publish`, `Mirror`, `MirrorFails`, `MarkPending`, `Settle` | the mirror of a write, its second look at the row, its marker and its answer |
| `Remove`, `RemoveAbsent`, `DropRow`, `Release`, `ReleaseFails`, `Restore`, `ReleaseIfAbsent` | staged removal, and the release of a claim that has no row |
| `Retry`, `RetryMirrors`, `RetryConflicts`, `RetryUnknown`, `CommitRepair`, `CommitDeferred`, `CommitConflict` | the retry pass: read, transaction, commit on the row that is still the same |
| `Guard`, `Reserve`, `PutOff`, `EndOrder` | the order guard, which puts conflicts off |
| `Crash`, `StartEmpty`, `StartClean`, `StartHealed`, `StartConflict`, `StartPending` | restart from the file |
| `ClaimForEntry`, `OtherClaims`, `OtherReleases` | the registry, by this bot's scan thread and by other bots |

### FullExit

State: the lots open on the venue (`pos`) and the full-close orders (`order`,
external); the row in memory and in the file (`mem`, `disk`): what it accounts
for, the verified fills of full closes (`fragment`), the durable intent, verified
flatness, the booking that is due, parts closed by others that wait for theirs, and
parts noted without a price; `blocked`; the `ledger` of booked trades by their
identity, and the `margin` that the trade of the whole close states; `pc` and `seen` of
the one operation under way.

| Action | Code |
|---|---|
| `MonitorStarts`, `RewriteParts`, `SaveParts`, `ClearParts` | a pass of the monitor replays pending partial bookings first |
| `CheckBooked`, `CheckDue`, `CheckNothing`, `CheckExit`, `CheckGuarded` | what it does about the row it finds |
| `EnsureIntent`, `NoOrderLeft`, `Send` | write-ahead of the intent, and the order for the residual |
| `Answered`, `AnsweredFlat`, `DeferFlat` | the answer, or the refusal that shows the position flat |
| `Found`, `ClearIntent`, `CoverConflict`, `CoverVerified` | recovery of the order through its intent, and its fills as a fragment |
| `Write`, `Save`, `SaveRefused`, `Cleanup`, `Rewrite` | the booking: noted in the row, in the ledger, and the row removed; a trade of the same identity that states something else refuses it |
| `ReconcileGone`, `RecordOffline`, `OfflineRefused` | reconciliation of a position that is gone on the venue |
| `ReconcileLess`, `ShrinkPriced`, `ShrinkUnpriced`, `SavePart`, `ClearPart` | reconciliation of a position that became smaller |
| `Failure`, `SaveRetry`, `Crash` | each write, lookup and call failing; a later save of the row; the death of the bot |
| `Arrive`, `Fill`, `Finish`, `OthersClose` | the venue and whoever else closes |

## 3. Runs

| Run | Question | Instance | Configuration |
|---|---|---|---|
| `registry` | ownership, settlement, kept claims, late clean-ups, the ceiling, liveness of maintenance; refinement of `SymbolOwnership` | bots FUTURES (two entries of one coin, one perhaps left unsettled by an older database) and CROSS (one entry of it), and TREND with two coins under a ceiling of one | `EntryRegistry.cfg` |
| `orphan_release` | a finding, see section 6 | one bot, one coin, one entry | `EntryOrphanRelease.cfg` |
| `order` | exposure, traceability, truth and liveness of an entry; refinement of `FillLedger` | three lots, every mode, recovery beside the executor | `Order.cfg` |
| `order_fallback_race` | a finding, see section 6 | two lots | `OrderFallbackRace.cfg` |
| `close_lock` | refinement of `CloseMutex`, hand-over of the lease, liveness | three threads of one bot, two on one key and one on the other key of the coin | `CloseLock.cfg` |
| `shutdown` | refinement of `RequestMailbox`; the newest request is obeyed | one polling thread, five requests, one of them foreign | `Shutdown.cfg` |
| `bot_process` | ownership of the child, escalation, stop requests | three runs, every kind of failure | `BotProcess.cfg` |
| `emergency` | one closer, preserved positions, settled end | one signal, two close requests, one thread fault, one position, two passes | `EmergencyClose.cfg` |
| `position_state` | file, row and claim against each other | two threads, two generations, three operations, one failure, one restart, one foreign claim | `PositionState.cfg` |
| `full_exit` | verified fills, order recovery, settlement; refinement of `FillLedger` | two lots, two orders | `FullExit.cfg` |
| `full_exit_deferred` | a finding, see section 6 | two lots, one order | `FullExitDeferred.cfg` |
| `full_exit_stranded` | a finding, see section 6 | two lots, one order | `FullExitStranded.cfg` |

**Bounds.** A conflict of ownership needs two bots and one coin; a conflict of
generations needs two entries on one coin; the ceiling needs two entries that do
not fit together. Each entry is tried once (`stage` never returns to idle), so
the number of entries bounds a behaviour and no counter needs a cap; clean-up,
adoption, crash, mirror and maintenance can happen any number of times. Three
lots make "some, more, all" three different fills of an entry. `quorum` stops at 2,
the number the code asks for.

The renewal threads that outlive a closer meet its successors in the same process,
which needs three closers there (one late, one inside, one waiting), two of them
sharing a lock object. Several processes are covered by the theorems, which hold for
any number. Threads close again and again, processes crash any number of times; all
of `CloseLock` is finite without a cap.

Five requests are one in the file, one parked, one in the thread's hand, one taken
and one yet to come. Three runs of a bot are the one a late reader belongs to, the
one being stopped and the one that must not start. One signal suffices to interrupt
every step of the main thread, with a close request of the launcher beside it; two
passes make the last one different from the one before. Two generations, two
threads and three operations are a write, a removal or retry beside it, and the
successor of the row; an instance with four operations was explored too (6
million states), and one with three threads, seven operations, four failures and
two restarts by simulation. In `FullExit` two lots give a partial fill, two orders
a fragment that the next close adds to; three lots were explored for the safety
properties (6.2 million states).

The states of `registry` are limited by the constraint `Apart` of `MCEntryRegistry`. The
two wallets share no coin, claim or ceiling, so only one of them is in use at a time;
and the first entry of a wallet meets one of three things at a time:
adoption by either bot, a second entry of its own bot, the entry of the other bot.
Every property is about at most two of these actors. The constraint cuts off no fair
action (maintenance and time start no entry and no adoption), so a behaviour inside it
has to go on as the fairness says, and the liveness properties mean what they say.

`CHECK_DEADLOCK FALSE` is set where the system stops: every entry over and its claim
released, the intent finalized and the bot crashed, the bot ended, the position
booked and gone, or every bound used up. `CloseLock` never stops, and is checked for
deadlock; so is `ShutdownControl`, which polls for ever.

**Fairness.** `EntryRegistry`: processes keep being started and each runs
`PurgeJunk` and `ReconcileReservations`, and time passes (`ReservationLapses`,
`ClaimAges`). Nothing is assumed of the bots. `OrderExecution`: a decided write
is applied or refused, the reconcile thread keeps running its passes (a crashed
bot is started again; the code runs recovery at start and periodically), time
passes and outages of the venue's read interface and the database end. Nothing
is assumed of the executor or of the orders: it may stop anywhere, they may stay
open for ever. `CloseLock`: bots ask again while a position is open, the body of a
close ends, threads run, and a lease that nobody renews expires; the property
itself excepts behaviours in which processes die or operations fail without end.
`ShutdownControl`: the main loop polls, and failures end; strong fairness of
`Finish`, because polls are seconds apart and do not keep the lock from a thread that
restores. `BotProcess`: the stop operation and the readers take their steps;
nothing is assumed of the child or the user. `EmergencyClose`: workers see the
shutdown event, the main thread with its handlers runs (every wait has a deadline),
and, by strong fairness, some runner goes on, because the finalizer sleeps between
its attempts at the gate. `PositionState`: every thread goes on, and some thread
reads and so retries. `FullExit`: monitor and reconcile threads both loop (strong
fairness, since either may find the lock taken by the other again and again), an
operation goes on, and an order that was sent arrives.

**Properties.** Each module has one type invariant, proved rather than run.

- `OwnershipSpec`, with `ExclusiveOwnership`: no two bots of a wallet hold a coin, and
  ownership is only acquired while free and only given up by its owner's cells.
- `ManagedClaimKept`: a mirrored or journaled position keeps its claim through
  everything the others do, but for the proof that its order bought nothing and for
  `ReleaseOrphan`, the base-wide release after a failed adoption. That exception is the
  finding of `orphan_release`, whose `OrphanReleaseGeneric` has no exception.
- `StaleRemovalHarmless`: the release of one entry leaves a newer one alone.
- `ReservationSettled`: journal and reservation agree after finalization.
- `AdmissionCeiling`: where every bot of a wallet enforces, its exposure never rises
  above the ceiling. Its exception is real:
  a spot row that was not mirrored can lose its placeholder to the purge while
  its reservation is consumed, is no longer counted, and comes back later.
- `AbandonedAdmissionSettles`, `LegacyReservationSettles`: nothing blocks admissions
  for ever but a base that is in use.
- `NoDoubleExposure`, `Traceable`, `EvidenceMonotone`: whatever is still to fill, an
  entry buys at most its target; every order is found through the journal; no
  recorded fill, client id of a fallback or decision is lost again.
- `EntryLedgerSpec`: the journal row is the `FillLedger` of the entry. `traded` is what
  both orders bought, `recorded` the row's fills, `closed` the decision (`Decision`).
  So no fill is invented or counted twice (`EvidenceSound`), and after the decision
  nothing trades any more and nothing is recorded any more. An entry may buy less
  than its target (`Short`).
- `FinalizedTruth`: a decided intent says what the venue filled, and nothing of it is
  open. A zero fill with a journaled fallback is excepted: that is the finding of
  `order_fallback_race`, whose `ZeroFillProven` has no exception.
- `ResolvableFinalizes`: the clear cases are decided in the end.
- `MutexSpec`: closers of a coin are alone, whatever becomes of the lease, also
  under two keys and with `fail_open`.
- `LateReleaseHarmless`: an earlier renewal thread, which releases by the holder id
  it shares with its successors, never takes the lease of one that is inside.
- `HandoffSuffices`: the two looks at the generations leave nothing to the third.
- `LeaseAccounted`: no step but a failure leaves a row that nobody will release.
- `AlwaysCloses`: after any leak, expiry or death some closer gets in again.
- `MailboxSpec`: the control file is a mailbox, whatever is interrupted.
- `LatestObeyed`: the newest request is returned in the end, unless it is stranded
  by a rename that took effect and raised on a file published behind the look.
- `Owned`: the launcher's `proc` is the one living child, through failed starts, late
  readers and restarts.
- `CleanupAlone`: the launcher closes positions itself only when no child can.
- `KillJustified`: a preserve stop kills nothing, a close stop no child that is
  closing, and one that was not waited for only if nothing can reach it.
- `CloseNotDowngraded`: a close request is never turned back into preserve.
- `WatchedStopSettles`: a stop request does not outlive the exit its reader saw.
- `SoloCloser`, `PreservedSpared`, `EndsSettled`: one runner closes at a time, none
  after the promise to keep, and the bot ends only flat or with that promise, with no
  worker or runner left.
- `RequestObeyed`, `PreserveEnds`: no request is forgotten, no preserve hangs. Both
  except the self-deadlock of `NeverStuck`, see section 5.
- `NewestKept`: the file never falls behind an acknowledged revision.
- `RestartTruth`: a write mirrors only what a restart would find.
- `MirrorHonest`: a row whose write was confirmed is mirrored as it is, or is marked.
- `ClaimKept`: a claim is given up only behind the file.
- `OrderUndisturbed`: no row turns into a conflict under an order in flight.
- `PendingSettles`: a failed mirror is repaired or shown as a conflict.
- `FragmentsReal`: fills count for the close only if its orders made them, and once.
- `ExitLedgerSpec`: the trades are the `FillLedger` of the position. `traded` are the lots
  closed on the venue, by whomever, `recorded` those in the trades, `closed` that the
  row is gone. So no lot is booked twice or before it is closed, all are booked when
  the row goes (`BookedRight`), and a row that went does not come back.
- `OrderTraceable`: an order that may still trade is found again through the file.
- `Settles`: a position that is gone on the venue is booked and given up, unless its
  fills do not add up to it (`Unresolved`), it is `Stranded`, or operations fail without
  end. `Stranded` is the finding of `full_exit_deferred`, whose `KeptForRetry` does
  not excuse it.

Each property of a passing run has a mutant in `PROJECT.json`, a plausible bug in
the code it is about; the mutated definitions stand before the originals and are
marked as faulty variants.

## 4. Proofs

The theorems hold for every value of the constants that satisfies the named
assumptions of the module. Their proofs all have the same form: an inductive
invariant, a lemma that `Init` implies it, one lemma or step per action, and the
conclusion by PTL.

| Module | Theorem | Property |
|---|---|---|
| `EntryRegistryProofs` | `TypeCorrect` | `TypeOK` |
| | `OwnershipExclusive` | `ExclusiveOwnership` |
| | `ReservationsSettled` | `ReservationSettled` |
| | `RegistryImplementsOwnership` | `OwnershipSpec` |
| | `ManagedClaimsKept` | `ManagedClaimKept` |
| | `StaleRemovalsHarmless` | `StaleRemovalHarmless` |
| | `CeilingKept` | `AdmissionCeiling` |
| `OrderExecutionProofs` | `TypeCorrect` | `TypeOK` |
| | `NeverDoubleExposed` | `NoDoubleExposure` |
| | `AlwaysTraceable` | `Traceable` |
| | `EvidenceAlwaysSound` | `EvidenceSound` |
| | `EvidenceNeverShrinks` | `EvidenceMonotone` |
| | `FinalizedIsTrue` | `FinalizedTruth` |
| | `JournalKeepsTheBooks` | `EntryLedgerSpec` |
| `CloseLockProofs` | `Typed` | `TypeOK` |
| | `Exclusion` | `MutexSpec` |
| | `KeysExclusive` | `KeyExclusive` |
| | `HandoffSufficient` | `HandoffSuffices` |
| | `LeasesAccounted` | `LeaseAccounted` |
| | `LateReleaseIsHarmless` | `LateReleaseHarmless` |
| `ShutdownProofs` | `TypeCorrect` | `TypeOK` |
| | `OnceAndMine` | `OnceAndOnlyMine` |
| | `NewestIsKept` | `NewestKept` |
| | `AcquiringForward` | `AcquiresForward` |
| | `ImplementsMailbox` | `MailboxSpec`, for one polling thread |
| `BotProcessProofs` | `TypeCorrect` | `TypeOK` |
| | `ChildOwned` | `Owned` |
| | `CleaningUpAlone` | `CleanupAlone` |
| | `KillsJustified` | `KillJustified` |
| | `CloseStays` | `CloseNotDowngraded` |
| `EmergencyProofs` | `TypeCorrect` | `TypeOK` |
| | `ClosesAlone` | `SoloCloser` |
| | `PreserveKept` | `PreservedSpared` |
| | `SettledEnd` | `EndsSettled` |
| `PositionProofs` | `TypeCorrect` | `TypeOK` |
| | `NewestIsKept` | `NewestKept` |
| | `RestartIsTrue` | `RestartTruth` |
| | `MirrorIsHonest` | `MirrorHonest` |
| | `OrderIsUndisturbed` | `OrderUndisturbed` |
| | `ClaimIsKept` | `ClaimKept` |
| `FullExitProofs` | `TypeCorrect` | `TypeOK` |
| | `Traceability` | `OrderTraceable` |
| | `CloseOnce` | `CloseBookedOnce` |
| | `FragmentsBacked` | `FragmentsReal` |
| | `BooksRight` | `BookedRight` |
| | `TradesKeepTheBooks` | `ExitLedgerSpec` |

**Registry** (any bots, coins, entries, wallets, ceiling and unsettled reservations:
`NoEntryAssumption`, `IntentAssumption`, `GuardAssumption`). A family of lemmas says
what writing one cell (`CellWrites`), removing a generation (`RemovalTypes`,
`RemovedCell`) or writing one intent does. For ownership every step is classified
(`StepClaims`): it makes no new claim, or it grants one cell and had found the coin
free of other bots; exclusiveness is inductive from that.
`ReservationSettled` is inductive once `TypeOK` is known: the journal's
finalizations write both sides, and no removal or maintenance leaves "CONSUMED" for a
filled or "RELEASED" for a zero intent. The refinement maps the claims of a wallet
and coin to their owner, which is unique by `ExclusiveOwnership`: a grant is
`Acquire`, a removal or purge is `Release` of the cells that became free,
everything else stutters. The two action properties `ManagedClaimKept` and
`StaleRemovalHarmless` follow from one lemma per group of steps (entry, journal,
mirror, adoption, maintenance). Of the adoption only `ReleaseOrphan` deletes a claim
(`AdoptionSpares`), and `ManagedClaimsKept` says of it what the property says: it is the
one step, beside the proof of a zero fill, that can take the claim of a managed
position.

`AdmissionCeiling` compares two sums. The model states a sum as the cardinality of a
set, the units of every entry that counts (`Units`), because what a fold over a set
returns takes an induction the provers cannot instantiate, while the library has the
facts about cardinalities. There may be infinitely many entries, but only finitely many
were ever reserved (`ReservedFinite`, from `IsFiniteSet(Unsettled)` in
`IntentAssumption`: a database holds finitely many old rows). A step that is no
admission makes no reservation count that did not (`StepNotRaised`), unless it gives a
claim back, and an admission changes the claim of no other entry (`AdmissionAlone`) and
was measured against the ceiling with itself included.

**Order execution** (any positive target: `TargetAssumption`). None of the properties
is inductive: a thread writes later what it saw earlier. `Inv` adds (a) `PlansSound`,
every write still on a thread's list states a fill that the venue has or that the
journal already states, which stays true because fills only grow
(`SoundWritesStay`); (b) `SnapshotSound`, the same for the row a recovery pass works
on; (c) `Balanced`, the journal's total is at most the maker fill plus the fallback
evidence recorded in it, so that merging new evidence replaces the old; (d)
`Procedure`, the executor reaches a submission only after its write-ahead record, and
the fallback only with the maker order shown canceled and its fill known; (e)
`OrderSound`, what the venue promises of one order. Steps come in three kinds with one
lemma each: a thread decides (`DecisionKeepsInv`), an order moves on
(`OrderKeepsInv`), a transaction commits (`JournalKeepsInv`).

`FinalizedTruth` needs a second invariant on top, `Decided`, of three parts.
`ClosedTruth` moves the claim one status forward: what is said of a finalized row holds
of a canceled one already, and a filled one has the whole target, so that nothing more
can trade. `PlansConclusive` says with which fill a thread may cancel: the executor with
the fill of a maker order that has ended, as long as there is no fallback; recovery only
without a fill, for a maker order it saw canceled and empty or, once a fallback is
journaled, for the excepted zero fill. `Absent` says what two negative lookups in a row
show: a ripe intent is not about to be sent, so that an order not seen then was never
there or is lost. The step `Ripen` of the specification carries the timing assumption
named in section 5, so the theorem rests on it.

`JournalKeepsTheBooks` refines `FillLedger`. By `VenueOrJournal` no step moves both the
venue and the journal; by `EvidenceMonotone` and `EvidenceSound` a write is `Record`, or
`Close` if it decides; by `FinalizedTruth` nothing trades or is recorded after that.

**Close lock** (any threads, processes and keys: `ThreadAssumption`,
`HolderAssumption`, `FailAssumption`). `Inv` says that whoever has passed the kernel
lock holds it (`OsOwned`), that a living generation is the published one of its process
(`GenPublished`, `StartPublished`), and how generations and the stop flag relate
(`LateIsStopped`, `InsideNotStopped`). `HandoffSuffices` is one of its conjuncts: a
generation is only published under the kernel lock, so none can appear after the
second look. At any time the closers inside are at most the holder of the kernel lock,
and the lock passes only by being free (`OsStep`), so entering meets an empty
`CloseMutex`. A lease in use is neither free nor expired (`LeasedRow`), so only a
release by its own process could take it: the closer itself is inside, and a late
generation of the process would be the published one, the closer's own, which is not
stopped. The in-process lock needs the separate `LockInv`: no registered object is
dropped while it is referenced.

**Shutdown control** (any number of requests and of consuming threads, although the
bots have one). `Apart`: a request is at one place. `Ordered`: what is in the file, what
is parked and what a thread with a fresh epoch holds is newer than everything acquired
before, in that order; this is what the claim epochs are for, and a restore that is
not fresh is dropped. `StillFresh`: only acquisitions make a claim stale, so the
newest request is never dropped. With one consuming thread a delivery is therefore
`Take` of the mailbox and a publication `Send`.

**Bot process** (any number of runs, any failures). `Current`: the living child is that
of the current run, and of the reader still at work, so a start that finds no reader
at work and no child cannot produce a second. `CloseRecorded`: a close request that
may still be read is on record, so a later preserve finds it. `OpSound`: what a stop
operation knows of its child at each of its steps; killing needs a status taken after
the wait.

**Emergency close** (any bounds). `Holders`: who is inside the drain holds the gate.
`Attempts`: an attempt in progress is the current generation with its runner
unfinished, and the promise to keep excludes it. `Ends`: what the finalizer found when
it let the main thread end (no worker, no attempt, flat or preserved) can no longer
change.

**Position state** (any threads, generations and bounds). `Numbered` orders the
revisions acknowledged, saved, in the file and in memory. `Locked` says where
`_registry_lock` is held. `Twins`: rows with one identity agree in what the claim
repeats. `Writing` is the heart of `RestartTruth`: as long as the row of a write is
still the one in memory, no snapshot of another generation that could still be saved is
newer than its own. `Leaving` is the dual for removals: behind the staged snapshot
every later one has no unmarked row. `Popped` keeps a restored row from bringing a
conflict under an order. Steps that take snapshots, save, rewrite or renew the row
have one lemma each (`QuietKeeps`, `SavingKeeps`, `RewriteKeeps`, `RenewKeeps`).

**Full exit** (any lots and orders). `Tracked`: an order that may still trade is named
by both copies of the row, because the intent is written before the order is sent and
cleared in memory only after the order has ended or a complete lookup missed it.
`WrittenAhead`: the identity of the booking is in both copies before the trade is in
the ledger, and no copy can have another identity once it is; `Together`: the row goes
from both at once. So a second booking of the close has the first one's identity,
which the ledger refuses. `RowStep` reduces an action to what it makes of a copy of
the row.

`FragmentsReal` and `BookedRight` compare sums of fills and of booked lots, which are
cardinalities of sets of lots as in the registry (`FilledMore` and `CountAdd` say what one
fill and one booking add). For the fragments, `Backed`: what a copy of the row
counts was filled by orders of the bot, and what it counted when its intent was written
by other orders than the one intended. So looking up one order again and again
replaces its share instead of adding to it. For the bookings, `Accounted`: in every copy
of a row the partial closes it still owes or has booked, those noted without a price,
and its amount make up the position as it was opened (`Sound`), and the booking of the
close is for exactly the rest. Partial bookings are kept apart by the amount they ended
at. `Booking` says what an operation between two of its writes knows: what it clears
is in the ledger. `TradesKeepTheBooks` follows: no step both trades and books
(`VenueOrBooks`), and a row that is gone stays gone (`GoneForGood`).

Only model-checked: the ten liveness properties (`AbandonedAdmissionSettles`,
`LegacyReservationSettles`, `ResolvableFinalizes`, `AlwaysCloses`, `LatestObeyed`,
`WatchedStopSettles`, `RequestObeyed`, `PreserveEnds`, `PendingSettles`, `Settles`), because
fairness and ENABLED are out of the prover's reach, and the four counterexamples of
section 6. Every other property of a passing run is a theorem.

## 5. Not modelled, and abstractions

Not modelled at all:

- Strategies, sizing, market data, news, the risk arithmetic, the user interface,
  research and tools: computations, input or output, represented by nondeterministic
  choice. They are most of the repository's lines.
- The update barrier and the supervisor: markers, file locks and file replacement of
  the operating system are most of them, and the restart budget is one counter of one
  process. The hazard at `update_barrier.py:261` therefore has no property.
- Circuit breaker and API budget: counters over sliding windows of wall-clock time. A
  call they refuse is a failing call in the models.
- Event bus, status files, closing of resources, atomic file replacement as such.

Registry and order execution:

- Notional is counted in units, fills in lots; prices, fees and tolerances are left
  out. A blacklisted coin refuses a claim, which is an action not taken.
- Claims without an entry id that older versions wrote (`legacy_generation`) are
  left out of the zero-fill path; rows without an entry id come from adoption.
- A second, late removal of a row that is gone already is not modelled. For a row
  without an entry id it works base-wide and could meet a newer claim.
- `EntryRegistry` writes row and file in one step; their difference is the subject of
  `PositionState`.
- Executor: the legacy branch after a denied API budget, and responses that carry
  no order id, are left out; malformed responses are exceptions (`CallFails`).
  The order is read once per refresh or lookup.
- `FinalizeAbsent` does not ask whether the position snapshot shows the base flat
  (more permissive than the code).
- **Named assumption** `Ripen`: 60 s after its creation an intent's order is no
  longer about to be sent or on the way and the venue's history shows it. The
  minimum age and the two quorums of the code rest on it: an executor that stalls
  longer than that before it sends would break it.
- The safe states that need an operator are excluded by name in `Resolvable`: a
  terminal partial fill, a fallback leg that did not fill, a clean-up that stopped
  at CANCELED.

Close lock: callers without a bot name (they use the in-process lock only) and a
kernel lock whose release fails are left out. A generation's `done` and its retirement
are one step, and so are the release of the lock object and its reference. A lease may
expire at any time, which covers every interval and time to live. Rows of dead
incarnations are one value, `Dead`; the kernel lock is external. A caller that is
refused asks again; that it may flatten without booking instead is not part of the
lock.

Shutdown control: directory syncs and the collection of old transition files are left
out; a claim that a failed rename left behind is `stranded` for good. The unlinking of
the file around a run belongs to `BotProcess`, which starts each run with an empty one.

Bot process: bots support the graceful channel (`supports_graceful`, always set by the
launcher's user interface). The runtime stop marker, the log queue and health checks
are left out, and a stop is asked only of a running bot. When both request file and
signal of a close stop fail, the child is terminated at once
(`process_manager.py:1293-1312`), which `KillJustified` allows. Worth knowing: a
reader that fails while its child lives leaves a stop request nobody clears when the
child exits; `start` then refuses (`process_manager.py:550`) until another stop
operation cleans up. `WatchedStopSettles` excepts it by name.

Emergency close: what happens under the re-entrant publication lock is one step;
`BaseException` paths, a failing `state.count()` and the repetition at interpreter exit
are left out; positions are a count; the spot bots have the same protocol in
`core/spot_bot.py`. Two observations that the model states rather than hides:

- `NeverStuck` does not hold, and is therefore an excuse in the two liveness
  properties: `_shutdown_lock` is not re-entrant, the drain takes it after it gave
  the gate up (`core/futures_bot.py:3210-3225`), and a signal handler nested there can
  become the next owner of the gate, as the comment at 3201-3202 wants, and blocks at
  3117 on the lock its own thread holds. The window is a few instructions.
- A close that a signal completes between the main thread's consumption of a preserve
  request and its latch leaves both `closed` and `preserved` set. The finalizer takes
  that for inconsistent and keeps waiting, so `PreserveEnds` excepts `closed`. After
  the shutdown event the main loop no longer reads its control file.

Position state: the data of a row are stamps (`amount` for what the claim repeats,
`val` for the rest). A transaction that fails has no effect; a save may fail after
it replaced the file. Callers add only where no row is, an entry is claimed only
without a row, and the repairs of a start are one step. Validation and normalization,
rows without an entry id, refusals of rows with pending accounting and the merge of
generations are left out. `RestartTruth` is about writes: a retry may publish a row
that is not saved yet.

Full exit: when and why to exit, partial take-profits, simulation, prices, fees and
funding, the two-strike counter before a position counts as gone, retry backoff and
the spot bots' exits are left out; changes below five percent, which reconciliation
overlooks, do not occur. A booking stands for the lots whose profit it books. Two
behaviours a reader should know:

- The intent of an order that a complete lookup does not find is cleared without a
  minimum age, so an order still on its way can be declared absent. `missed` records
  it, and `OrderTraceable` excepts it.
- Two kinds of rows are flat and never booked by the bot. `Unresolved`: the fills do
  not add up to the position, and each pass refuses them again
  (`core/futures_bot_reconcile.py:3502-3521`) until someone intervenes. `Stranded`: a
  partial booking is pending, and monitor and reconciliation each leave the row to the
  other, whether or not the parts add up (section 6).

A booking that was noted in the row is replayed with the row's current margin, by
reconciliation together with the partials that have no price, by the monitor without
them. `margin` models this: `save_trade_db` refuses a replay that states another margin
than the trade that is there (`core/database.py:3788-3797`), and the row then waits for
a replay of the other kind. What is booked, the lots, is the same in both.

## 6. Findings

`order_fallback_race`: with `MAKER_FIRST_MODE=enforce` and
`MAKER_FIRST_MARKET_FALLBACK=true` (not the defaults) recovery in the reconcile
thread may read an intent while its maker order is being canceled, see the order
canceled with nothing filled, and write RECOVERY_REQUIRED, CANCELED and FINALIZED
with the claim released (`trading/entry_executor.py:2067-2116`), while the executor
journals FALLBACK_SUBMITTING and sends the market fallback in between. The journal
refuses none of these transitions, because it does not ask whether a fallback is
journaled. The fallback fills on an intent that is finalized as a zero fill, with
its reservation released. The journal's own condition is "claim release requires
canceled terminal zero-fill intent" (`core/database.py:9355`), and
`manual/Architecture.md:70` wants no stale state to overwrite a newer lifecycle.
`FinalizedTruth` of the run `order` shows that everything else the journal decides is
true, recovery beside the executor included.

`orphan_release`: when reconciliation cannot write the row of a position it adopts, it
asks whether the coin has a row by now (`core/futures_bot_reconcile.py:3303`) and, if
not, removes the bot's claim for the whole coin (3313, 2748-2750: `remove_open_position`
without an entry id). Between the two there is no lock, and whether the claim is generic
was decided from metadata that was read once at the start of the pass (2684-2685). A
scan thread of the same bot that has claimed the coin since then may checkpoint its row
and journal its order in between; the release takes its claim, although the comment
says "Release only an unproven generic orphan claim." (3312). Other bots may then enter
the coin. Its reservation stays ACTIVE without a claim, which refuses later admissions
under a ceiling until the row is mirrored again.

`full_exit_deferred`: a position is verified flat while a partial booking of what others
closed is pending. The monitor returns for a flat row
(`core/futures_bot_exits.py:2614`) before it retries pending partials (2705), and
reconciliation, which books flat positions, keeps a row with pending partials and logs
"partial accounting is pending" and "state kept for retry"
(`core/futures_bot_reconcile.py:2598-2604`). So nobody retries, also when the parts add
up, until the user closes the position from the launcher
(`launcher/core/positions.py:2406-2452`). The other bots have the same order of
checks.

`full_exit_stranded`: a full close that ended partly filled keeps its fills as a
fragment and the row's amount as it was. Reconciliation then finds less on the venue
than in the row, does not look at the fragment
(`core/futures_bot_reconcile.py:2509-2541`), books the bot's own fills as a partial
close by others and shrinks the amount. When at least half was filled, amount minus
fragment is zero: every retry ends with "no unaccounted residual remains for a new
full-close order" (`core/futures_bot_exits.py:4435-4441`) and the open rest is never
closed, although "A verified fragment from a previous full-close attempt commits the
position to flattening" (`core/futures_bot_exits.py:3131`). The ledger stays right in
this behaviour, too: `ExitLedgerSpec` of `full_exit` includes it.

## 7. What could follow

1. A `PartialExit` beside `FullExit`: partial take-profits share the row's pending
   bookings but have intents of their own. The spot exits have a protocol of a
   similar shape.
2. The refinement of the row and claim steps of `EntryRegistry` by `PositionState`; it
   needs the two to agree on what a crash loses, since `EntryRegistry` has no file.
3. The launcher's clean-up of positions after a stop (`launcher/core/positions.py`),
   which removes claims and rows base-wide.
4. The update barrier, once its file operations have a model.

The remaining code (interface, research, tools, market data) has no shared state worth
a model. It is also why the mapped lines are a small share of the repository.

## 8. Running

    tlc -workers 2 -config EntryRegistry.cfg MCEntryRegistry.tla
    tlc -workers 2 -config Order.cfg OrderExecution.tla
    tlc -workers 2 -config CloseLock.cfg MCCloseLock.tla
    tlc -workers 2 -config Shutdown.cfg ShutdownControl.tla
    tlc -workers 2 -config BotProcess.cfg BotProcess.tla
    tlc -workers 2 -config EmergencyClose.cfg EmergencyClose.tla
    tlc -workers 2 -config PositionState.cfg PositionState.tla
    tlc -workers 2 -config FullExit.cfg FullExit.tla
    tlc -workers 2 -config EntryOrphanRelease.cfg MCEntryRegistry.tla  # violated
    tlc -workers 2 -config OrderFallbackRace.cfg OrderExecution.tla    # violated
    tlc -workers 2 -config FullExitDeferred.cfg FullExit.tla           # violated
    tlc -workers 2 -config FullExitStranded.cfg FullExit.tla           # violated
    for m in EntryRegistry OrderExecution CloseLock Shutdown BotProcess \
             Emergency Position FullExit; do tlapm ${m}Proofs.tla; done

`registry`, `order`, `emergency` and `position_state` take one to a few minutes, the
others less than one.
