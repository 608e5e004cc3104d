# MT5 Connector: TLA+ specifications

MT5 Connector keeps accounts of MetaTrader 5 brokers in step with a database. A
parent process (FastAPI, one asyncio loop) owns a pool of worker processes, one
per terminal installation; an account is pinned to a terminal, a sync of the
account is a task queued on that terminal's own queue, its worker logs the
terminal in, reads the history and sends it back through a pipe, and the parent
writes it. Terminals hang, die, lose their proxy or forget their login, and most
of the code is about that: restart ladders, strikes and quarantines, re-cloned
installations, rotated proxies, free re-runs.

The modules here model the parts where steps of several coroutines or processes
interleave. They are read against the code: an action is the code between two
awaits of one coroutine (or between two accesses to shared memory of one worker
process), so that the model interleaves exactly where the program can.

File and line references are to the repository (`src/` left out); `README:n` is
the repository's README.


## 1. Inventory

| component | state it keeps | operations | correct when |
|---|---|---|---|
| **PoolManager** `pool/manager.py` | `_pending` (account → future), `_closing`, `_sequence`; per terminal a priority queue, `hard_queued`, a dispatcher, the running task | `submit`, `_dispatch_loop`, `_execute`/`_run_item`, `_should_retry`, `_complete`, `_quarantine` and its drain, `_reap_loop`, `_maybe_reclone`, `_maybe_refresh_master`, `start`, `stop` | an accepted task is never lost, doubled or moved, is answered once and, while the service runs, in the end, keeps to its budget of attempts; nothing runs on a quarantined terminal; hard before scheduled |
| **WorkerHandle** `pool/worker_handle.py` | `state`, `ready`, `process`, `connection`, `queue` | `spawn`, `restart`, `terminate`, `roundtrip`, `claim`, `mark_*` | one process per terminal, and it is the one on the handle; the worker comes back |
| **HealthBoard** `pool/health.py` | per terminal state, strikes, hard strikes, servers, first strike, last reclone; warm-up | `record`, `quarantine`, `due_for_reclone`, `mark_recloning`, `mark_recloned`, `placeable`, `keepable` | quarantined exactly when the evidence since the last good start says so; each gets its turn to be recloned |
| **StartGate** `mt5api/terminal.py:48-82` | a lock and a clock in memory shared by the workers | `acquire`, `release` | staggers cold starts; never shuts |
| **ProxyRegistry** `services/proxy_service.py` | table `mt5terminalproxy`, the proxy each handle was given | `load`, `rotate` | one proxy per terminal, kept while it lives; the table and the worker agree |
| **SyncService** `services/sync_service.py` | `_submit_lock` | `request`, scheduler tick, `persist` | the scheduler never has two syncs of one account in the pool; verdicts reach the row they are about |
| **AccountService / AccountRepository** | table `mt5account` | register, PATCH, DELETE, `due_for_sync`, `mark_synced`/`mark_error`/... | `error_connection` means what the documentation says |
| **Terminal affinity** `services/terminal_affinity.py` | the pin of an account | `ensure_assigned`, `pick_terminal` | a usable pin is kept |
| **MT5Terminal** `mt5api/terminal.py` | attach/launch state, zombie count, login memory, start report | `connect`, `_start`, `_login`, `failure`, `shutdown`, `reset` | never serves another account's history; signs in through its own proxy; says of the terminal only what it saw |
| **Worker process** `pool/worker.py` | the terminal, the executor of the watchdog | `worker_main`, `_run_task` | always answers or dies |
| **Reclone and master** `pool/reclone.py` | folders of terminals and of the master, on disk | `reclone_terminal`, `promote_master` | there is always a complete master without credentials; a clone holds none; what a terminal learnt is not lost |
| **Fetch / settle** `mt5api/fetch.py`, `raw.py` | clock cache | `wait_for_history`, `fetch_*`, `fetch_clock` | what a partial download brings is made good later; a clock is not used after its time |
| **Broker clock** `mt5api/clock.py` | – | scan, steps, DST decision | a holiday is not taken for a switch; a label is converted with the offset of its week |
| **Enrichment** `mt5api/enrichment.py` | – | selection of positions, `enrich_mae_mfe` | every measurable position is measured in the end |
| **Builders, ledger** `mt5api/builders/` | – | deals → positions, transactions, balances | a position is built from its own deals, with the balance after its last |
| **Row repositories** | positions, transactions | upserts, `replace_all` | nothing once written is lost; measured columns survive a re-sync |
| **Query service, data routes, schemas** | – | reads | – |
| **Lifespan** `orchestrator/app.py` | one thread executor of 2n+8 | start and stop order | – |
| **Config, logging, alerts, procs, deployment scripts** | – | – | – |

**How they interact.** Routes and the scheduler call `SyncService.request`, which
holds one lock while it pins the account (`ensure_assigned`) and calls
`PoolManager.submit`. The dispatcher of the terminal waits for the handle's event
`ready`, takes the first entry and creates the task; the task claims the worker,
sends the sync and awaits the answer in a thread. On the way back it feeds
`HealthBoard.record`, may rotate the proxy (`ProxyRegistry.rotate`), climb the
restart ladder (`WorkerHandle.restart`), go back to its queue, or be completed:
`on_result` (which is `SyncService.persist`, a database session of its own) is
awaited before the future is resolved. The reaper, a single coroutine, restarts
failed workers in batches, re-proxies idle ones, re-clones a quarantined terminal
and refreshes the master. Inside the worker processes `MT5Terminal` passes
`StartGate` before a cold start.

**What is hard.** Nothing holds a lock across a handle: the task's and the
reaper's coroutines both restart it. State is read before an await and used after
it (rows of the database, proxy assignments, the list of failed workers, the state
of a worker a task has been created for). A round trip may time out and answer
late. `stop()` may come at any await. Worker processes are killed wherever they
stand. Thresholds combine counters, sets and ages that are reset together. The
file `PROJECT.json` lists these places, each at its line, as `hazards`.


## 2. Plan

Modules are parameterised by constants whose assumptions are named `ASSUME`s, one
action per operation or per stretch between awaits, invariants in named
conjuncts, and no `RECURSIVE` operator where something is proved.

Done, in this order (section 3):

1. `TerminalLifecycle` and `SyncTasks`: the abstract specifications of a
   terminal's state and of what the pool promises of a sync.
2. `Pool` and `PoolProofs`: the core.
3. `HealthBoard` and `HealthBoardProofs`: the thresholds behind `Pool`'s verdicts.
4. `WorkerHandle` and `WorkerHandleProofs`: the ladders at every await, with real processes.
5. `StartGate`, 6. `ProxyRegistry`, and `SharedProofs` of both: what workers share.
7. `AccountSync` (one row, many sessions) with `AccountSyncProofs`, and `Scheduler` (many accounts).
8. `Terminal` and `TerminalProofs`: what happens inside a worker process.
9. `Reclone` and `RecloneProofs`: the disk, where every step may be the last.
10. `HistoryRows` and `Clock`: what a sync brings and how it is written. `SyncProofs` is
    about `Scheduler`, `HistoryRows` and `Clock`.

Next, most important first:

| what | for |
|---|---|
| `WorkerHandle` shown to implement, without overlaps, what `Pool` assumes of a worker | the seam between the two |
| the threads of the executor, counted over ladders and round trips | the limit of 2n+8 (`app.py:78`) |


## 3. The modules

### TerminalLifecycle
The states of `TerminalState` and the only ways between them: a strike worsens a
terminal by at most one degree, a good start lifts a suspicion and never a
quarantine, only a reclone ends a quarantine. `HealthBoard`
checks and proves `Lifecycle!Spec` (`FollowsLifecycle`) through `INSTANCE
TerminalLifecycle`, whose variable `health` is its own; `Pool` takes its verdicts
from the same module, and that all its steps together keep it is proved.

### SyncTasks
What the pool promises of a sync: accepted or dropped at once, handed to the
database once, answered after that, dropped without a result only by the shutdown.
`Pool` implements it under the mapping `Phase(t)`, which reads how far a task has
come from its future and from what was reported of it: `KeepsPromise` is
`Promise!Spec`, checked and proved, and `EveryTaskEnds` is `Promise!Ends`, checked
for the service that is not stopped. A sync cut off by the timeout of `stop()`'s drain
stays where it had come to, accepted or stored, for ever.

### Pool
`PoolManager` with the part of `WorkerHandle` it reads. Per terminal: `queue` (a
set of `[priority, number, task]`, the `PriorityQueue`), `hardQueued`, `dispatcher`
and `held` (where `_dispatch_loop` stands and its local `item`), `runner`, `job`
and `outcome` (where `_execute` stands, on which task, with which result),
`state`, `ready`, `proxied`, the two ladders, `health`; for the pool: `future` of
every task, `pending`, `reaper` (what `_reap_loop` is awaiting, and what is left of
its list), `stopping` (the stages of `stop()`).

| code | actions |
|---|---|
| `submit` 198-243 | `Submit` |
| `_dispatch_loop` 283-308 | `DispatchReady`, `DispatchGet`, `DispatchHeld`, `DispatchNext` |
| `_run_item` 372-413 | `Begin`, `AnswerClosing`, `AnswerOpen`, `Rotated`, `RotateRaises`, `TaskSpawn...`, `TaskGiveUp` |
| `_should_retry` 592-614 | `ShouldRetry`, `SpentBy` |
| `_complete`, `_resolve`, `_quarantine` | `Conclude`, `Report`, `Resolve`, `Quarantine`, `Drain` |
| `_reap_loop` and its duties 310-357, 458-530 | `ReapFailed`, `RestartBatch`, `RestartDone`, `Reap...`, `Reproxy`, `Reproxied`, `Reclone`, `RecloneRaises`, `Rebuilt`, `HoldSource`, `ReleaseSource` |
| `stop` 165-196 | `BeginStop`, `CancelDispatcher`, `CancelReaper`, `StopWorkers`, `DrainTimeout`, `FinishStop` |

Details that matter: `Event.wait` and `Queue.get` do not suspend when they need
not, so an entry and the creation of its task are one step; between the creation
and `claim()` the worker still looks idle; the task is shielded from the
dispatcher's cancellation; a retry goes back with its own priority and a new
number; the scheduler's own sync (`FromScheduler`) is submitted only when the account has
nothing pending (that is `SyncService.request`; `Scheduler` looks at it closely), while a
client's is submitted whatever is pending, also one of kind scheduled (`wait=false`,
`routes/sync.py:46`), and then is not in the registry. When the drain of `stop()` has lasted
its thirty seconds, `wait_for` cancels what still runs (`DrainTimeout`): `CancelledError`
passes every handler, the run is over and its future stays `abandoned`. The verdict of
a result on its terminal is any step `TerminalLifecycle` allows; `HealthBoard` has
the thresholds. Left out: alerts, the digest, the updater sweep, counters for the
status page, seconds.

### HealthBoard
`record` with every branch (`GoodStart`, `NotCounted`, `Struck`, `Condemned`),
`due_for_reclone` and `mark_recloning` (`StartReclone`), the two ends of a reclone,
and time as ages: the code only compares ages with `_SOFT_QUARANTINE_SPAN` and
`reclone_min_interval_minutes`, so they are capped there. `evidence` is a history
variable: what failed since the last good start, counted independently of the
counters the code keeps.

### WorkerHandle
One handle with real processes. `current` is `process` and `connection`, which
are always assigned together; `ladder[c]` is where the task or the reaper stands
in `restart()` and which process it is waiting for or undoing. `terminate` takes
the process off the handle before it awaits its end; `_start_failed` terminates
whatever is on the handle *by then*. `_quarantine` marks the worker failed and
leaves process and pipe on the handle (`Condemn`); `_maybe_reclone` terminates it,
copies the folder and restarts (`Reclone`, `Cleared`, `Cloned`, `CloneFails`), and
`health` says how far that has come. `_maybe_refresh_master` holds the worker and marks
it idle at the end, whatever a task has made of it (`Promote`, `Promoted`). A task may look
for another proxy first (`LoseProxy`, `Rotated`), and an exception in it marks the worker
failed with its process alive (`Raise`, that is `_execute` 361-370). `Cancel` is the timeout
of `stop()`'s drain. A process may crash at any step and leaves
when nobody holds the other end of its pipe. Two history variables: `behind`, whoever
marked the worker failed last left its process behind (a quarantine, an exception);
`overlap`, the reaper, on the handle, and a task have met there.

### StartGate
Every access of `acquire` and `release` to the lock and to the clock is an action
of one worker process. A waiter's acquire of the lock ends `Poll` ticks after it began,
each waiter's at its own phase (`due`), and only then it looks at the clock: so a wait may
pass `Hold` by less than one poll. `KilledAt` names where a process may be killed.

### ProxyRegistry
The table, the handles, and rotations that have read the table and await the
provider (`asking`). A rotation has three steps: it reads the table (`Ask`), chooses and
commits (`Rotate`), and its caller, one await later, gives the worker what came back
(`Return`; `written` are the terminals between the two); or it raises (`Raise`).
`load` is given by what its result satisfies (`Kept`,
`Filled`), since it leaves the order of the provider's list open.

### AccountSync
One login: its row, and the sessions that have loaded it. SQLAlchemy writes the
columns that differ from what was loaded, in one `UPDATE`; `Write` merges exactly
these into the row as it is by then, and does nothing to a row that is gone.
`request` submits the password of the row its caller loaded before, or of the row
`ensure_assigned` read again. The pool is reduced to the syncs it holds (`tasks`)
and the answers it may give. `fails` and `first` are history: what the
documentation counts. `raced`: a verdict was written that had not seen a change of
password, status or failures. The syncs that clients ask for later (`routes/sync.py:45`)
are left out here: what they leave on the row is what a scheduled one leaves.

### Scheduler
Several accounts: of each row only what `due_for_sync` asks (`never`, the order of
`synced` and how many of them are `old`, `enabled`, `failures`, `withheld`) and its
`pin`. A tick loads a batch of rows with their pins and asks for one after the other
(`Dedupe`, `Enter`, `Assign`, `Submit`: the stretches of `request` between awaits,
under `lock`); a client asks for syncs of the same accounts; `RequestFails` is a
query that raises and takes the rest of the batch with it. `Succeeds`, `Fails` and
`Lapses` are what `persist` leaves. `ensure_assigned` keeps the pin the caller
loaded while it is usable, else takes the placeable terminal with the fewest active
accounts (`Places`: any of the usable ones may be the healthy ones).

### HistoryRows
A history is the sequence of an account's deals, each named by the position or the
payment it belongs to. A sync reads what is measured (`Request`), the balance
(`FetchAccount`), then any part of the deals the terminal may have downloaded
(`Fetch`), and measures a part of the closed positions: `Selected` and `Walk` are
the limit and the loop of `enrich_mae_mfe` with the symbols it abandons, `broken`
and `upto` the candles that fail and the budget. `Persist` is the transaction of
`_persist`: a row of a position holds the deals it was built from (`own`), whether
the ledger's balance after them is right (`ledger`) and the deals its excursion was
measured over (`basis`). Two syncs of the account may be under way at once: a client's
is not deduplicated, and after a re-pin they run on two terminals. `failedInARow` is the
row's `consecutive_failures`: at `ErrorThreshold` the account is in `error_connection`
(`InError`), the scheduler leaves it out (`AskedFor`, `account_repo.py:14`) until a client's
sync succeeds or a PATCH resets it (`Renew`). `torn` is history.

### Clock
Times are half hours, weeks are alike, and a broker is a `timeline`: its offset per
week, with one switch, and weekends that begin early (a holiday) or leave no reading
(a Friday off). `Weekends` is what a scan of hourly bars shows of it, `Steps` the
schedule `_steps` makes of that, one weekend at a time (`Step`), `Measure` the whole of
`measure_server_clock` with the tick's pin, `Reuse`, `ReuseMiss` and `MeasureNow` the
three ways of `fetch_clock`, `Store` what `mark_synced` keeps. The tick may be missing, of
the moment, or an hour old. `ClockAssumption` takes the broker's offset from the 12 hours
behind UTC to the 13 before it, so that no reading, of a switched clock or an early end,
is beyond the 14 hours (`_MAX_OFFSET_MINUTES`) from which the code drops it. `MCSyncData` checks `HistoryRows` and `Clock` in one run: they share no state, so
a behaviour follows one of them while the other stands still.


### Terminal
`MT5Terminal` and the loop of `worker_main` around it. The worker's own state is
`bound` (which process `self._mt5` talks to), `memory` (`_current_login`),
`attachFailures`, `replaced` and `report`; `at` is where `_run_task` stands and
`child` the process `Popen` returned. `proc` is the one process that runs from the
folder, with the proxy it was started with and the login it is signed in to;
`marker` is the marker file, which survives the worker. A report is the set of its
marks (`Mark`); an empty one and none are the same here, as they are to the board.

| code | actions |
|---|---|
| `connect` 122-144 | `Connect` (with `shutdown()` when the launched process is gone) |
| `_login` 244-250 | `Login` |
| `_prepare` 186-229 | `Prepare`, `ProbeFails`, `LaunchRefused`, `Launch`, `Settle` |
| `_start`, `_note_initialize_failure` 146-184 | `StartUnmanaged`, `Initialized`, `InitializeFails` |
| `fetch_history` | `Fetch` |
| `failure` 255-276, `reset` 297-301, the handlers of `_run_task` | `Fail`, `GiveUp`, `Raises`: what was lost, what is forgotten and killed, and the result sent |
| `worker_main`, the parent's `spawn` | `Respawn`, at any point of a task |

The world: the terminal `Exits`, `Hangs`, `DropsSession`, and when none runs another
one `Appears` (LiveUpdate, a person) or the package starts one itself
(`PackageStarts`). External assumptions: the package talks to the process
`initialize()` found and to no other; a folder runs one process at a time; process
ids are not reused while something names them; nobody else signs the terminal in to
another account. A read of the history is one step; `Trouble` between its calls
shows as the failing end of that step. `calm` turns new trouble off for good and
`wasted` counts the failures since, for `TroubleIsOver`; `started`, `exchanged` and
a process's `failed` are history for the other properties.

The gate's part of `connect` is `StartGate`; the seconds are left out.

### Reclone
The folders of one terminal and of the master as `reclone_terminal` and
`promote_master` leave them after every call on the disk; `doing` names the call
they have come to. `End` is an exception or the end of the service before a call,
`CopyBreaks` and `StageBreaks` one within a copy. Deletions are steps of their own
and may leave a part of the folder (`Rest`: `ignore_errors=True`). A folder is reduced to
what the next one takes from it (`Folder`): a copy drops what `_ignored_in` skips,
that is an `accounts.dat` in Config, and no other. That nothing runs in the folder
is the guard of `BeginReclone` (44-48) and of `Work`. `learnt` is what the
terminal's `servers.dat` has come to hold, a set of brokers; `Carried` compares only the
files' sizes (`Size`, any measure), as the code does, so the clone keeps a master's file that
is as large and knows other brokers. `cut` and `lossy` say whether a reclone
has ended early and whether another began over it.


## 4. What the runs check

Each property takes several steps, mostly of several actors, to violate. `TypeOK` is
a module's type invariant; for `Pool`, `HealthBoard`, `WorkerHandle`, `Terminal` and `Reclone` it
is proved (section 5) and not part of a run.

| run | instance | shows |
|---|---|---|
| `PoolRetries` | one terminal, a proxy registry, one account with its initial sync and a scheduled one a client submits whatever is pending, a ladder of one rung, all the outcomes a worker can report, the reaper and `stop()` with the timeout of its drain | `OnePlace`: a task is in exactly one place of its terminal until answered, then in none, but for a run the drain's timeout cuts off. `RetryBudget`: round trips of a task never exceed its limit plus one free re-run and one free rotation, however they mix. `HardCount`: the hand-kept `hard_queued`. `NothingOnUnusable`. `HardJumpsTheLine`. `KeepsPromise`: the pool implements `SyncTasks` |
| `PoolLive` | one managed terminal, one account with its initial sync and the scheduler's, a ladder of two rungs; success, rejection, crash, dead proxy with its rotation; without `stop()` | `RegistryIsLive`: the registry always holds the scheduler's own sync in progress and nothing that is over. `EveryTaskEnds` |
| `HealthStrikes` | two terminals, two servers, five kinds of report | `StateMatchesStrikes`, `QuarantineIsEarned` (against `evidence`), `FollowsLifecycle`, and `RecloneComes`: no terminal starves another of its reclone |
| `TerminalTasks` | two logins the broker accepts and one it rejects, two proxies or none, four process ids | `OwnHistory`: a task that succeeds has read its own account. `OwnRoute`: a managed worker signs in and reads through its own proxy, unless the terminal was exchanged after the task's last look. `StrikesComeFromStarts`: what the board makes of a result is earned by this task. `ZombieIsEarned`. `TroubleIsOver`: once nothing new goes wrong, at most three tasks in a row are wasted |
| `RecloneFolders` | one build, servers that know any of two brokers, size their number | `MasterSurvives`, `CloneIsClean`, `ServersSurvive`, through cuts at every step |
| `WorkerLadders` | three processes at a time, two rungs, rotations and exceptions, quarantines and reclones, refreshes of the master, `stop()` | `AloneIsClean`, `HandleIsNotCondemned`, `ComesBack` |
| `GateWaits` | three workers, a hold of three ticks and polls of two, holders killed in their start | `NobodyWaitsLonger`, `HolderKeepsLock`, `GateMovesOn` |
| `ProxyPinned` | three terminals, two proxies, overlapping rotations | `OwnProxyAlone`, `HeldIsAssigned`, `Pinned` |
| `AccountRow` | one slot, two passwords of which one is accepted, PATCH and DELETE | `ErrorIsEarned` |
| `Scheduler` | two accounts in batches of one, a client, PATCHes, a terminal that comes and goes | `OneScheduled`: the scheduler never has two syncs of one account in the pool, whatever clients submit (a client's `wait=false` sync is of kind scheduled too and is not deduplicated). `EveryTurnComes`: an account that is due gets its turn, whatever those before it do |
| `SyncData` | three positions and a payment, parts of the history, a position whose candles fail for ever, a limit of two, an error threshold of two; eight weeks with a switch and holidays anywhere in a scan of six | `NothingIsLost`: no row and no figure is lost to a partial or withheld history. `CatchesUp`: the rows say again what the broker says, and `EveryoneMeasured`, both for an account that does not stay in `error_connection`. `MeasuredWhole`: a figure is over all deals of its position, unless it was read in part. `NoFalseSwitch`, `AgreedWeeksAreTrue`, `ThisWeekIsTrue`: which labels are converted rightly |

One run shows a place where code and documentation disagree; TLC finds the
counterexample. `AccountRejected` (`OnlyTheRejected`; README:341 "no row is kept"):
the late rejection of the initial sync deletes an account whose password was
changed in the meantime.

Behaviours the models contain and no property forbids, noted for whoever changes
this code: a ladder that sleeps between rungs leaves the worker marked failed
(`worker_handle.py:95`), so the reaper restarts it as well, and each spawns over the
other's process, two processes for one terminal where README:25 has one (`overlap`,
the exception in `AloneIsClean`); the refresh of the master marks its source idle at its
end whatever a task's ladder is doing to it (`manager.py:527`, `overlap` as well); an
exception out of a task, as from a rotation, leaves the process of the worker it marks
failed (`manager.py:369`, `behind`); the timeout of `stop()`'s drain cancels what still
runs, and the futures of those tasks are never resolved (`manager.py:183`, where README:434
has a task always end; `abandoned`, the exception in `OnePlace`); two rotations that read the assignments before they
await the provider pick the same proxy, where README:95 has one for each (`overlap`,
the exception in `OwnProxyAlone`); a reclone that follows a cut one first deletes the
copy put aside, and with it what the terminal had learnt (`lossy`), and one cut right
after its rename leaves no folder, so that every later one fails; a terminal
exchanged between a task's look and its sign-in is signed in to without the proxy
(`exchanged`); a task past its check of `_closing` still reports after `stop()` began
(README:457), and its ladder may spawn a worker nobody terminates; a rotation commits before its worker is given the
proxy, so the table and the worker differ for a moment (`written`, the exception in
`HeldIsAssigned`); a client's scheduled sync of an account whose sync is in progress is
queued beside it and not in the registry; a waiter of the gate may wait up to one poll
longer than the hold (README:765; `Poll` in `NobodyWaitsLonger`); the clone keeps a
`servers.dat` of the master that is as large as the terminal's own and lacks brokers it had
learnt (`reclone.py:95`, README:502; the `Size` in `ServersSurvive`); a task created
before the reaper took its worker for the master runs while the terminal is copied
(README:513); a dispatcher holds the entry it took while its worker went down, so
one scheduled sync may start before a waiting hard one (the exception in
`HardJumpsTheLine`); two waiters of the gate that look before either stamps start
together, and a process killed between clearing the clock and releasing the lock
(`KilledAt = {"cleared"}`) shuts the gate (README:765); a failure committed
between PATCH's load and its commit survives the new password (README:368; this is
what `raced` stands for); a sync asked for with a row loaded before a re-pin is
queued on the terminal the account has left (README:70); a quarantine leaves the
worker's process running (README:493 has it stopped), and a worker that was listed as
failed before it is restarted although the reaper "skips it" (README:496); the balance
is read before the deals (`fetch.py:151-153`), so a deal in between shifts every
`BalanceInit` until a later sync (`ledger`); a position is measured with its first
closing deal and never again (README:851; `torn`, the exception in `MeasuredWhole`);
as many newest positions without candles as the limit, or three failing ones of a
symbol, keep all behind them from being measured (README:870; `RoomAssumption`); two
syncs of one account on two terminals may be written in either order, and a partial
history takes rows back until the next whole one; an account whose result can never
be written stays at the front of every batch (the last fairness condition of
`Scheduler`).

Of the clock: labels of the one or two weeks between a switch and the current week
are an hour off until two weekends confirm it, because the tick corrects the current
week only (README:672); weeks before the first confirmed weekend of the scan are
converted with that weekend's offset, so a switch that passes the edge of the window
makes labels of about a year ago wrong (README:689); a Friday off takes its
reading with it, and a switch just after it is keyed a week early (README:681); a
quote that is an hour old pins the whole current week wrong; any change up to an hour
is believed where README:657 says exactly an hour, and a tick is rounded to the hour
where a broker may be half an hour off.

**Bounds and why they are enough.**
*Pool*: the two tasks of an instance are of one account and terminal, one of each
priority and of each retry limit (0 of an initial sync, `MaxTaskRetries = 1` of the
other), so that they meet in the registry, the queue, the drain and the order of
service. Tasks of two accounts meet in nothing more, and terminals share only the reaper
and `stop()`: with one terminal a batch is never longer than one and a list gone stale
names that terminal; what more terminals would add is covered by the theorems, which
hold for any, and for liveness is not checked. The queue needs no bound: tasks are finite
and each has one entry. *HealthBoard*:
thresholds 2, 3, 2, 4 and 2 servers keep the order of the code's 2, 3, 2, 5 and 2;
`MaxStrikes` lies at the highest threshold; `MaxPass` bounds the ticks between two
passes of the reaper and stands for "it asks again before an interval is over".
*WorkerHandle*: three processes are one on the handle and one for each ladder; a
ladder that finds none free waits for one to leave. *Terminal*: a third login shows that neither the rejected one nor the other accepted
one is confused with the task's; two proxies and none are enough for a marker to be
right, wrong and missing; of four process ids one is always free, since the binding
and `Popen`'s child are never there together; `MaxWasted`
lies above what `TroubleIsOver` allows. *Reclone*: two brokers let a clone's `servers.dat` be smaller than the one put aside, as
large with the same or with another broker, or larger; one build, since no property asks
which; one folder aside
and one master replaced is what the code keeps. *StartGate*: three workers are one holder and two
competing waiters; with polls of two ticks two waiters are in or out of phase.
*ProxyRegistry*: three terminals let a rotation collide with one
that is not involved; two proxies leave one of them without. *AccountSync*: one session of
each kind at a time (two registrations of one login do not overlap, so the 409 of a
row that came in between is not reached); `MaxRows = 1` creates the login once (a row
that is deleted stays so: `CHECK_DEADLOCK FALSE`), `Threshold` 2 separates a first
failure from a repeated one, `Slots` bounds the syncs in the pool at a time.
*Scheduler*: two accounts and a batch of one are the smallest case in which one
account takes the place of another; the one terminal leaves and comes back, so pins
are changed, but which terminal they go to tells no property apart. *HistoryRows*:
`u` is closed, `q1` in part and `q2` not yet; the history grows by a seventh deal, of
any of them; `ErrorThreshold` 2 separates a first failure from the one that stops the
scheduler; a terminal has downloaded nothing, all but the oldest deal, or all;
`EnrichLimit` 2 leaves one of three out. *Clock*: a scan of six weekends holds a switch
with its confirmations, holidays alone and two in a row, and a Friday off, anywhere;
the last two weeks are lived through, over the weekend and, where none is special,
over a switch. Offsets of an even and an odd number of half hours. `CHECK_DEADLOCK FALSE` is
also set for `WorkerHandle`, where a stopped pool ends, and for `Scheduler` and
`MCSyncData`, where nothing need be due and the timeline ends.

**Fairness.** `PoolLive`: a coroutine whose await is over runs (weak fairness); a
dispatcher's wake-up is not lost to a later `clear()`, because `Event.set` and
`Queue.put` resolve the waiter's own future (strong fairness); round trips end by
`task_timeout_seconds` and spawns by `start_timeout_seconds`; the reaper comes to
its restarts every minute; and one assumption on the host, that a worker started
again and again comes up at last. `WorkerLadders` assumes the same of its
processes; a rotation and the copy to the master come to their ends. `HealthStrikes`: the reaper comes round, a reclone ends one way or the
other, time passes; reclones may fail for ever. `GateWaits`: a process goes on
until it waits or starts; a start need never end and nothing is assumed of it.
`Scheduler`: the tick comes, requests go on, queries do not fail for ever, the terminal
is there at last, the pool answers every sync (which `PoolLive` shows), and not for ever
with nothing written. `SyncData`: the scheduler goes on asking while the account is not in
`error_connection` (`AskedFor` is the guard, so weak fairness asks nothing more), syncs end
by the task timeout, and again and again one brings the whole history, with nothing but what fails
for ever failing, and is written.


## 5. What is proved

TLAPS proves the following for every value of the constants allowed by the
modules' assumptions.

**PoolProofs.** `PoolKeepsPromise` (`Spec => KeepsPromise`), `TypeCorrect`, `TasksStayInOnePlace` (`Spec => []OnePlace`),
`RegistryStaysLive` (`Spec => []RegistryIsLive`) and `ReportsAreOnce`
(`Spec => []ReportedOnce`), from the assumptions on tasks and settings: any number
of terminals, tasks, outcomes, retries, rungs and batches. The inductive invariant
is

    PoolInv == TypeOK /\ Control /\ Placed /\ OnlyStopAbandons /\ DispatchersOver
               /\ RegistryIsLive /\ ReportedOnce

`Control` is the strengthening: a run has a task exactly while it is under way, a
dispatcher holds an entry exactly where it waits with one, and while a run is
under way the dispatcher awaits it or was cancelled. Without it `OnePlace` is not
inductive: a dispatcher free to take an entry while a run is under way would
overwrite `job`, and the task in it would be nowhere. `DispatchersOver` says that none is
left to take an entry once the drain of `stop()` has begun, so that its timeout abandons
runs and nothing else. `RegistryIsLive` needs
`OnePlace` (what a drain or `stop()` answers is what waits), `ReportedOnce` needs
both. There is one lemma per conjunct (`TypeStep`, `ControlStep`, `PlacesStep`,
`RegistryStep`, `ReportedStep`), with one step per action in each, and lemmas for
the helpers the actions share (enqueue, dequeue, begin to report, conclude). The
implementation proof (`PhaseStep`) rests on the same invariant: a step that reports a
task finds it unreported because the task is where `OnePlace` says, and one that
resolves it finds it reported.

On top of `PoolInv`, limits of the pool, each with a strengthening of its own.
`AttemptsAreBounded` (`Spec => []RetryBudget`): `Budget` says of every task that its
round trips are its attempts plus the free ones, and that a task still to be sent
has an attempt left; a task under way (`Underway`) has spent it already.
`UnusableStaysEmpty` (`Spec => []NothingOnUnusable`): `ReaperIsSafe` says that every
terminal the reaper has left to reclone is out of every pick and that a ladder of the
reaper only stands where its duty is; without it a reclone's end could condemn a
terminal that is serving.
`HardTasksAreCounted` (`Spec => []HardCount`): `Finite` says that queues are finite,
which a cardinality needs; the invariant is then the count itself, and the lemmas
`HardAdd` and `HardRemove` say what an entry adds to it.
`HardTasksComeFirst` (`Spec => HardJumpsTheLine`): `Ranked` says that every entry has
the priority of its task, so the first of a queue is a scheduled one only where no
hard one waits (`FirstIsHard`); only a dispatcher creates a run, of its first entry or
of what it holds (`WhoIsCreated`).
`HealthFollowsLifecycle` (`Spec => Lifecycle!Spec`): `RebuildsRecloning` says that what
the reaper rebuilds is recloning, so that the end of a restart ends a reclone and
nothing else. It needs `NothingOnUnusable`: an answer on a terminal under reclone could
otherwise move its health under the reaper's hands.

**WorkerHandleProofs.** `HandleTypeCorrect` and `NeverCondemned`
(`Spec => []HandleIsNotCondemned`) hold with every overlap of the two ladders; their
invariant adds to the two properties `RungsLeft` (a ladder that waits for the end of
a process has a rung to climb after it). `AloneIsAlwaysClean` (`Spec =>
[]AloneIsClean`) rests on `CleanInv`, which says while nothing overlaps what each
rung knows of the processes (`RungIsClean`: whoever spawns has killed the one before),
that one ladder stands at a time (`OneLadder`) and that the handle's process is the one
alive (`HandleIsTrue`). What a quarantine or an exception leaves is its exception
(`behind`).

**SharedProofs**, of `StartGate`. `LockStaysWithItsStart` (`GateSpec => []HolderKeepsLock`),
wherever processes are killed; `HoldsLock` says that whoever stands behind the lock holds it.
`WaitsEnd` (`[]NobodyWaitsLonger`, the hold plus less than one poll, for any of the two) assumes `KilledInStarts`: no process is killed
between taking the lock and recording its start, or between clearing the record and
giving the lock back. A process killed there leaves a lock without a recorded start,
which nobody may overtake: the assumption names the two places and the code does
nothing about them. `WaitsAreShort` is the strengthening: nobody has waited longer
than the recorded start is old, and whoever waits looks at it no later than one poll after the limit.
Of `ProxyRegistry`, for any terminals and proxies: `WorkersHoldTheirAssignment`
(`Spec => []HeldIsAssigned`), `AloneProxiesAreOwn` (`Spec => []OwnProxyAlone`) and
`ProxiesArePinned` (`Spec => Pinned`). `AskedForHeld` says that a rotation for a task
replaces the proxy its worker still has, and one of the reaper is for a worker without
any; `OneKnowsTheTable` that, as long as no two rotations have met, the one under way
has read the table as it is. Without it a rotation could write back an assignment that
was changed while it awaited the provider, which is what happens when two do meet.

**HealthBoardProofs.** `BoardTypeCorrect`, `StateFollowsStrikes`
(`Spec => []StateMatchesStrikes`) and `BoardFollowsLifecycle` (the health board
implements `TerminalLifecycle`), for all thresholds with `SuspectStrikes` below the
two quarantine thresholds; `TypeOK /\ StateMatchesStrikes` is inductive. The
implementation proof rests on the invariant: a strike that condemns finds the
terminal suspect, hence one degree away. The quantity that matters is the order of
the thresholds, not their values. `QuarantinesAreEarned` (`Spec => QuarantineIsEarned`)
rests on `CountersAreEvidence`: the counters hold exactly the failed starts since the
last good one, so that a strike is neither forgotten nor carried over a good start or
a reclone.

**TerminalProofs.** `TerminalTypeCorrect`, `HistoryIsOwn` and `RouteIsOwn`, for any
logins, proxies, process ids and thresholds. The inductive invariant adds to
`TypeOK` four conjuncts: `MemoryIsTrue` (where the worker remembers a login, the
process it is bound to is signed in to that account or to none), `MarkerIsTrue`
(while the marker names the running process, its proxy is the one it runs with, and
that is the worker's wherever it is bound or about to be),
`StartsUnbound` (a start begins with no binding) and `AttachesBelow` (a start that
attached is below the threshold, hence the counter stays in its range). `OwnHistory`
needs the first: a task that may skip its login finds the session its memory names.
`OwnRoute` needs the second: an attach looks at the marker, not at the process.

`StrikesAreOwn` (`Spec => []StrikesComeFromStarts`) needs `MarksAreOwn`: the report a
result is made of was begun by the start of the task in hand. `ZombiesAreEarned`
(`Spec => ZombieIsEarned`) needs `FailuresAreSeen`: the worker's counter never exceeds the
failures of the very process the marker names, although the process may be replaced
between two attaches. `TroubleEnds` (`Spec => []TroubleIsOver`) needs `Binding` (who a
worker is bound to, and that a binding begins with a counter at zero) and
`WasteIsBounded`, which says for every place a task stands at how many tasks in a row
may have been lost: to a terminal that does not answer, one per failed attach and one
more; to a session that went, `FailuresBeforeKill`; none while a bound terminal has just
begun to hang.

**RecloneProofs.** `RecloneTypeCorrect`, `MasterAlwaysSurvives`, `CloneIsAlwaysClean`
and `ServersAlwaysSurvive`, for any builds, any brokers and any measure of size. `Staged` says what the checked
stage is (complete and clean where it is about to be swapped in), `ServersAt` where
the servers are at each step of a reclone; both are needed because the properties
speak of the folders and not of the step the work has come to.

**SyncProofs.** `SchedulerAsksOnce` (`SchedulerSpec => []OneScheduled`), for any accounts,
terminals and batch. The sync lock is what makes it true, so the invariant says what it
protects: `RequestsAreSerial` (who stands between the look at the registry and the submit
holds the lock), `AsksForUnregistered` (the scheduler, there, asks for an account no sync
is registered for) and `ScheduledIsRegistered` (a sync of the scheduler is the registered
one and its only one). `NoRowIsLost` (`Spec => NothingIsLost`) and `FiguresAreWhole`
(`Spec => []MeasuredWhole`), of `HistoryRows`, for any positions, payments, histories and
limits. `MeasuredWhole` is not inductive: a position measured over all its deals of today
could get one tomorrow. `MeasuredAtTheEnd` says that a figure is over all the deals the
position will ever have, and `DealsAreBounded` that none gets more than it comes to;
`HistoryAssumption` asks as much of the initial history.

Of `Clock`, for scans of any length over any timeline that `ClockInit` allows:
`NoFalseSwitches` (`ClockSpec => []NoFalseSwitch`), `AgreedWeeksAreTold`
(`[]AgreedWeeksAreTrue`) and `ThisWeekIsTold` (`[]ThisWeekIsTrue`). What a recursive
function computes for every length is shown by induction, and that by the least number
principle (`LeastNumber`, from the library's well-founded `<`): a set of numbers takes
the place of the predicate (`Induction`), a table of steps that of the function to iterate
(`Recursion`: the function exists, so its definition unfolds, in `ReadFollows` and
`StepsFollow`). On these rest `ReadIsWhole` (a scan reads exactly the weeks that are not
off), `StepsAreRead` (a step has an offset that was confirmed and begins after an earlier
weekend), `StepsGrow` (what comes after a weekend neither changes nor predates what was
made before) and `ConfirmedIsLast`. The argument of `NoFalseSwitches` is
`ConfirmedIsTrue`: three weekends read in a row lie within four weeks (`NearWeeks`, as at
most one is off), of which three are never all early, so one of them reads right and the
three agree. `AgreedWeeksAreTold` adds that the step in force when the week began is the
last one made by its end (`AgreedIsShown`). The invariant is

    ClockInvariant == BrokerClock /\ MarketOK /\ CacheOK /\ StoredOK

where `TrueClock` of the cache and of what is stored says all
that a clock tells right; `ThisWeekIsTrue` needs besides that a clock of the open market
that is still fresh was measured this week, which `MarketOpens` ensures by the age of what
was measured before the weekend. TLC found it to hold in `SyncData` before it was proved.

**AccountSyncProofs.** `AccountTypeCorrect` and `ErrorsAreEarned`
(`Spec => []ErrorIsEarned`), for any threshold and any number of rows. `SessionsHold` says what
each session may hold between its load and its write, `Verdict` that the failures column
is the number of failed syncs in a row and the status their verdict, unless a write met a change
it had not read, and `RowIsNewest` that the row that is there is the last registered:
without it a registration that retakes a row could forget the failures of another.

**Only model-checked.** Liveness and everything under fairness (the prover has no
`ENABLED`). What the fold `Walk` of `HistoryRows` selects is not proved about either; the
theorems of `HistoryRows` hold whatever it selects.


## 6. What is not modelled, and why

The threads of the executor that serves the blocking reads (`app.py:78`): no module
counts them, so nothing here says that 2n+8 are enough.

Arithmetic without state: the figures of a position (`apply_rr`, `_apply_mae_mfe`,
the segments of candles, prices, sums, orders, balance snapshots) and the conversion of
the package's records (`raw.py`). A model would restate them line by line.

Not planned: the query service and the data routes (reads), schemas and value
types (no operations that change state), configuration, logging and alerts,
Windows process tables (effects outside the program), the deployment scripts (run
by hand). The terminal's own API is external: what it may answer is enumerated.
