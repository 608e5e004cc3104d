-------------------------------- MODULE Pool --------------------------------
(***************************************************************************)
(* PoolManager (pool/manager.py) with the state part of WorkerHandle       *)
(* (pool/worker_handle.py): submission and the per-account registry, one   *)
(* priority queue and one dispatcher per terminal, the run of one task     *)
(* with its retries, the quarantine drain, the restart ladder, the reaper  *)
(* and stop().                                                             *)
(*                                                                         *)
(* An action is the code between two awaits of one coroutine, so the       *)
(* coroutines interleave exactly where asyncio lets them.  The content of  *)
(* a sync is abstracted to its outcome, the seconds to the order of steps, *)
(* the strike thresholds to TerminalLifecycle (HealthBoard has them).      *)
(***************************************************************************)
EXTENDS Integers, FiniteSets

CONSTANTS Terminals,        \* settings.terminals
          Accounts,
          Tasks,            \* SyncTask: [id, account, kind, terminal]
          NoTask,
          FromScheduler,    \* the tasks run_scheduler asks for, with dedupe
          Outcomes,         \* what a round trip may bring back
          MaxTaskRetries,   \* settings.max_task_retries
          RestartAttempts,  \* _RESTART_ATTEMPTS
          SpawnBatch,       \* _SPAWN_BATCH
          Managed           \* a proxy registry is configured

SyncKind == {"initial", "hard", "scheduled"}

(***************************************************************************)
(* SyncResult as the pool reads it.  "broken" is the round trip that       *)
(* raised (timeout, closed pipe); "auth" is AUTHORIZATION_FAILED, "ipc" a  *)
(* code under IPC_ERROR_CEILING, "other" every other failure.              *)
(***************************************************************************)
Outcome == [code : {"ok", "auth", "ipc", "other", "broken"},
            lost : BOOLEAN, proxyDead : BOOLEAN, replaced : BOOLEAN]

ASSUME TasksAssumption ==
  /\ NoTask \notin Tasks
  /\ \A t \in Tasks : /\ t.account \in Accounts
                      /\ t.kind \in SyncKind
                      /\ t.terminal \in Terminals
  /\ FromScheduler \subseteq Tasks
  /\ \A t \in FromScheduler : t.kind = "scheduled"

ASSUME SettingsAssumption ==
  /\ MaxTaskRetries \in Nat
  /\ RestartAttempts \in Nat \ {0}
  /\ SpawnBatch \in Nat \ {0}
  /\ Managed \in BOOLEAN
  /\ Outcomes \subseteq Outcome

VARIABLES
  \* the tasks
  future,       \* asyncio.Future of each submission
  spent,        \* _QueuedTask.attempts, .replacements, .proxy_rotations
  sent,         \* history: round trips begun for the task
  reported,     \* history: on_result calls begun for the task
  \* PoolManager
  pending,      \* _pending: account -> the future the scheduler's next sync shares
  queue,        \* WorkerHandle.queue: entries (priority, number, task)
  number,       \* _sequence
  hardQueued,   \* WorkerHandle.hard_queued
  dispatcher,   \* where _dispatch_loop stands
  held,         \* its local variable item
  runner,       \* where _execute of the terminal's task stands
  job,          \* the task it is on
  outcome,      \* the result it holds
  stopping,     \* progress of stop(); _closing is TRUE from "cancel" on
  \* the workers
  state,        \* WorkerState
  ready,        \* WorkerHandle.ready
  proxied,      \* WorkerHandle.proxy is not None
  taskLadder,   \* the restart() awaited by the task, per terminal
  reapLadder,   \* the restart() awaited by the reaper, per terminal
  reaper,       \* what _reap_loop is awaiting: [duty, todo]
  \* HealthBoard
  health

taskVars   == <<future, spent, sent, reported>>
queueVars  == <<pending, queue, number, hardQueued>>
dispatchVars == <<dispatcher, held>>
runVars    == <<runner, job, outcome>>
workerVars == <<state, ready>>
reapVars   == <<reapLadder, reaper>>
vars == <<taskVars, queueVars, dispatchVars, runVars, workerVars, proxied,
          taskLadder, reapVars, health, stopping>>

Lifecycle == INSTANCE TerminalLifecycle WITH Terminals <- Terminals, health <- health

Closing == stopping # "no"

Usable(w) == health[w] \in Lifecycle!UsableState

-----------------------------------------------------------------------------
(* Helpers: queue entries, answers, worker marks and ladders *)

Priority(t) == IF t.kind = "scheduled" THEN 1 ELSE 0

Hard(t) == Priority(t) = 0

Before(e, f) == \/ e.priority < f.priority
                \/ e.priority = f.priority /\ e.number <= f.number

\* Mutant: the queue is served in the order of arrival.
FirstCome(w) == {e \in queue[w] : \A f \in queue[w] : e.number <= f.number}

First(w) == {e \in queue[w] : \A f \in queue[w] : Before(e, f)}

Entry(t) == [priority |-> Priority(t), number |-> number, task |-> t]

Enqueue(t) ==
  /\ queue' = [queue EXCEPT ![t.terminal] = @ \cup {Entry(t)}]
  /\ number' = number + 1
  /\ hardQueued' = [hardQueued EXCEPT ![t.terminal] = IF Hard(t) THEN @ + 1 ELSE @]

\* Mutant: the account is popped whichever of its futures is over.
ForgetAccount(S) ==
  [a \in Accounts |-> IF \E t \in S \ {NoTask} : t.account = a THEN NoTask ELSE pending[a]]

\* The registry is popped only by the future it still holds.
Forget(S) == [a \in Accounts |-> IF pending[a] \in S THEN NoTask ELSE pending[a]]

Answered(S, answer) == [t \in Tasks |-> IF t \in S /\ future[t] = "waiting" THEN answer ELSE future[t]]

Resolve(S, answer) == /\ future' = Answered(S, answer)
                      /\ pending' = Forget(S)

MarkIdle(w) == /\ state' = [state EXCEPT ![w] = "idle"]
               /\ ready' = [ready EXCEPT ![w] = TRUE]

\* Mutant: the worker is left starting for ever.
LeaveStarting(w) == /\ state' = [state EXCEPT ![w] = "starting"]
                    /\ ready' = [ready EXCEPT ![w] = FALSE]

MarkFailed(w) == /\ state' = [state EXCEPT ![w] = "failed"]
                 /\ ready' = [ready EXCEPT ![w] = FALSE]

Ladder == [phase : {"off", "terminate", "spawn", "sleep"}, left : 0..RestartAttempts]

NoLadder == [phase |-> "off", left |-> 0]

FirstRung == [phase |-> "terminate", left |-> RestartAttempts]

Restarting(S) == /\ state' = [w \in Terminals |-> IF w \in S THEN "restarting" ELSE state[w]]
                 /\ ready' = [w \in Terminals |-> ready[w] /\ w \notin S]

\* restart(): terminate, then spawn; a failed spawn leaves the worker marked
\* failed while the ladder sleeps before the next rung.
CanSpawn(l) == l.phase \in {"terminate", "sleep"} /\ l.left > 0

Spawning(l) == [phase |-> "spawn", left |-> l.left - 1]

CanGiveUp(l) == l.phase = "sleep" /\ l.left = 0

NoOutcome == [code |-> "ok", lost |-> FALSE, proxyDead |-> FALSE, replaced |-> FALSE]

Spent == [attempts : Int, replacements : Int, rotations : Int]

NoSpend == [attempts |-> 0, replacements |-> 0, rotations |-> 0]

-----------------------------------------------------------------------------
Init ==
  /\ future = [t \in Tasks |-> "new"]
  /\ spent = [t \in Tasks |-> NoSpend]
  /\ sent = [t \in Tasks |-> 0]
  /\ reported = [t \in Tasks |-> 0]
  /\ pending = [a \in Accounts |-> NoTask]
  /\ queue = [w \in Terminals |-> {}]
  /\ number = 0
  /\ hardQueued = [w \in Terminals |-> 0]
  /\ dispatcher = [w \in Terminals |-> "ready"]
  /\ held = [w \in Terminals |-> NoTask]
  /\ runner = [w \in Terminals |-> "none"]
  /\ job = [w \in Terminals |-> NoTask]
  /\ outcome = [w \in Terminals |-> NoOutcome]
  /\ state \in [Terminals -> {"idle", "failed"}]      \* start(): spawned or not
  /\ ready = [w \in Terminals |-> state[w] = "idle"]
  /\ proxied \in [Terminals -> IF Managed THEN BOOLEAN ELSE {FALSE}]
  /\ taskLadder = [w \in Terminals |-> NoLadder]
  /\ reapLadder = [w \in Terminals |-> NoLadder]
  /\ reaper = [duty |-> "sleep", todo |-> {}]
  /\ Lifecycle!Init
  /\ stopping = "no"

-----------------------------------------------------------------------------
(* submit().  SyncService.request drops the scheduler's own sync while the   *)
(* account has a pending future; a client's is submitted whatever is pending.*)

Submit(t) ==
  /\ future[t] = "new"
  /\ t \in FromScheduler => pending[t.account] = NoTask
  /\ UNCHANGED <<spent, sent, reported, dispatchVars, runVars, workerVars, proxied,
                 taskLadder, reapVars, health, stopping>>
  /\ \/ /\ Closing
        /\ future' = [future EXCEPT ![t] = "shutdown"]
        /\ UNCHANGED queueVars
     \/ /\ ~Closing /\ ~Usable(t.terminal)
        /\ future' = [future EXCEPT ![t] = "refused"]
        /\ UNCHANGED queueVars
     \/ /\ ~Closing /\ Usable(t.terminal)
        /\ future' = [future EXCEPT ![t] = "waiting"]
        /\ pending' = [pending EXCEPT ![t.account] = IF @ = NoTask THEN t ELSE @]
        /\ Enqueue(t)

-----------------------------------------------------------------------------
(* _dispatch_loop.  Event.wait and Queue.get do not suspend when they need  *)
(* not, so a dispatcher that gets an entry of a ready worker creates the    *)
(* task in the same step.                                                   *)

CreateTask(w, t) ==
  /\ runner' = [runner EXCEPT ![w] = "created"]
  /\ job' = [job EXCEPT ![w] = t]
  /\ dispatcher' = [dispatcher EXCEPT ![w] = "shield"]
  /\ held' = [held EXCEPT ![w] = NoTask]
  /\ hardQueued' = [hardQueued EXCEPT ![w] = IF Hard(t) THEN @ - 1 ELSE @]

DispatchReady(w) ==
  /\ dispatcher[w] = "ready" /\ ready[w]
  /\ dispatcher' = [dispatcher EXCEPT ![w] = "get"]
  /\ UNCHANGED <<taskVars, queueVars, held, runVars, workerVars, proxied,
                 taskLadder, reapVars, health, stopping>>

DispatchGet(w) ==
  /\ dispatcher[w] = "get"
  /\ \E e \in First(w) :
       /\ queue' = [queue EXCEPT ![w] = @ \ {e}]
       /\ \/ /\ ready[w]
             /\ CreateTask(w, e.task)
          \/ /\ ~ready[w]
             /\ held' = [held EXCEPT ![w] = e.task]
             /\ dispatcher' = [dispatcher EXCEPT ![w] = "hold"]
             /\ UNCHANGED <<runner, job, hardQueued>>
  /\ UNCHANGED <<taskVars, pending, number, outcome, workerVars, proxied,
                 taskLadder, reapVars, health, stopping>>

DispatchHeld(w) ==
  /\ dispatcher[w] = "hold" /\ ready[w]
  /\ CreateTask(w, held[w])
  /\ UNCHANGED <<taskVars, pending, queue, number, outcome, workerVars, proxied,
                 taskLadder, reapVars, health, stopping>>

\* The shielded task is over: the next iteration, unless the pool is closing.
DispatchNext(w) ==
  /\ dispatcher[w] = "shield" /\ runner[w] = "none"
  /\ dispatcher' = [dispatcher EXCEPT ![w] = IF Closing THEN "over" ELSE "ready"]
  /\ UNCHANGED <<taskVars, queueVars, held, runVars, workerVars, proxied,
                 taskLadder, reapVars, health, stopping>>

-----------------------------------------------------------------------------
(* _should_retry: what a failed attempt costs, and whether there is another *)

NeverRetried(r) == \/ r.code \in {"ok", "auth"}
                   \/ r.code = "ipc" /\ ~r.lost /\ ~r.proxyDead

\* Mutant: the free re-run is not spent.
EveryReplacement(t, r) == r.replaced

FreeReplacement(t, r) == r.replaced /\ spent[t].replacements = 0

FreeRotation(t, r) == r.proxyDead /\ spent[t].rotations = 0

RetryLimit(t) == IF t.kind = "initial" THEN 0 ELSE MaxTaskRetries

ShouldRetry(t, r) ==
  /\ ~NeverRetried(r)
  /\ FreeReplacement(t, r) \/ FreeRotation(t, r) \/ spent[t].attempts <= RetryLimit(t)

SpentBy(t, r) ==
  LET s == spent[t] IN
  IF FreeReplacement(t, r)
  THEN [attempts |-> s.attempts - 1, replacements |-> s.replacements + 1, rotations |-> s.rotations]
  ELSE IF FreeRotation(t, r)
       THEN [attempts |-> s.attempts - 1, replacements |-> s.replacements, rotations |-> s.rotations + 1]
       ELSE s

-----------------------------------------------------------------------------
(* _execute and _run_item *)

RunEnds(w) == /\ runner' = [runner EXCEPT ![w] = "none"]
              /\ job' = [job EXCEPT ![w] = NoTask]
              /\ outcome' = [outcome EXCEPT ![w] = NoOutcome]

\* _complete awaits on_result before it resolves the future.
BeginReport(w, t, where) ==
  /\ runner' = [runner EXCEPT ![w] = where]
  /\ job' = [job EXCEPT ![w] = t]
  /\ outcome' = [outcome EXCEPT ![w] = NoOutcome]
  /\ reported' = [reported EXCEPT ![t] = @ + 1]

\* Mutant: the result of every attempt is handed on, not only of the last.
ConcludeEachAttempt(w, t, r) ==
  /\ \/ /\ ShouldRetry(t, r)
        /\ spent' = [spent EXCEPT ![t] = SpentBy(t, r)]
        /\ Enqueue(t)
        /\ RunEnds(w)
        /\ reported' = [reported EXCEPT ![t] = @ + 1]
     \/ /\ ~ShouldRetry(t, r)
        /\ BeginReport(w, t, "report")
        /\ UNCHANGED <<spent, queue, number, hardQueued>>
  /\ UNCHANGED <<future, sent, pending>>

\* The end of _run_item: the task goes back to its own queue, or is completed.
Conclude(w, t, r) ==
  /\ \/ /\ ShouldRetry(t, r)
        /\ spent' = [spent EXCEPT ![t] = SpentBy(t, r)]
        /\ Enqueue(t)
        /\ RunEnds(w)
        /\ UNCHANGED reported
     \/ /\ ~ShouldRetry(t, r)
        /\ BeginReport(w, t, "report")
        /\ UNCHANGED <<spent, queue, number, hardQueued>>
  /\ UNCHANGED <<future, sent, pending>>

Attempted(s) == [s EXCEPT !.attempts = @ + 1]

\* claim() and the send of the task.
Begin(w) ==
  /\ runner[w] = "created"
  /\ runner' = [runner EXCEPT ![w] = "roundtrip"]
  /\ state' = [state EXCEPT ![w] = "busy"]
  /\ spent' = [spent EXCEPT ![job[w]] = Attempted(@)]
  /\ sent' = [sent EXCEPT ![job[w]] = @ + 1]
  /\ UNCHANGED <<future, reported, queueVars, dispatchVars, job, outcome, ready, proxied,
                 taskLadder, reapVars, health, stopping>>

\* A round trip that ends after stop() began touches nothing.
AnswerClosing(w) ==
  /\ runner[w] = "roundtrip" /\ Closing
  /\ Resolve({job[w]}, "shutdown")
  /\ RunEnds(w)
  /\ UNCHANGED <<spent, sent, reported, queue, number, hardQueued, dispatchVars, workerVars,
                 proxied, taskLadder, reapVars, health, stopping>>

\* HealthBoard.record, as far as the lifecycle allows; a result without a
\* StartReport says nothing of the terminal.
Verdict(w, r) ==
  CASE r.code = "ok"     -> {Lifecycle!AfterSuccess(health[w])}
    [] r.code = "broken" -> {health[w]}
    [] OTHER             -> {health[w], Lifecycle!AfterSuccess(health[w])}
                              \cup Lifecycle!AfterStrike(health[w])

Rotates(r) == r.proxyDead /\ Managed

Unhealthy(r) == r.code = "broken" \/ r.lost

\* _quarantine begins: the worker is stopped and the struck task answered.
Quarantine(w) ==
  /\ MarkFailed(w)
  /\ BeginReport(w, job[w], "drain")
  /\ UNCHANGED <<future, spent, sent, queueVars, taskLadder>>

AwaitRotation(w, r) ==
  /\ runner' = [runner EXCEPT ![w] = "rotate"]
  /\ outcome' = [outcome EXCEPT ![w] = r]
  /\ UNCHANGED <<taskVars, queueVars, job, workerVars, taskLadder>>

AwaitRestart(w, r) ==
  /\ runner' = [runner EXCEPT ![w] = "ladder"]
  /\ outcome' = [outcome EXCEPT ![w] = r]
  /\ taskLadder' = [taskLadder EXCEPT ![w] = FirstRung]
  /\ Restarting({w})
  /\ UNCHANGED <<taskVars, queueVars, job>>

KeepWorker(w, r) ==
  /\ MarkIdle(w)
  /\ Conclude(w, job[w], r)
  /\ UNCHANGED taskLadder

AnswerOpen(w) ==
  /\ runner[w] = "roundtrip" /\ ~Closing
  /\ \E r \in Outcomes : \E after \in Verdict(w, r) :
       /\ health' = [health EXCEPT ![w] = after]
       /\ \/ after = "quarantined" /\ Quarantine(w)
          \/ after # "quarantined" /\ Rotates(r) /\ AwaitRotation(w, r)
          \/ after # "quarantined" /\ ~Rotates(r) /\ Unhealthy(r) /\ AwaitRestart(w, r)
          \/ after # "quarantined" /\ ~Rotates(r) /\ ~Unhealthy(r) /\ KeepWorker(w, r)
  /\ UNCHANGED <<dispatchVars, proxied, reapVars, stopping>>

\* The registry answered: with another proxy, or with none.
Rotated(w) ==
  /\ runner[w] = "rotate"
  /\ \E found \in BOOLEAN : proxied' = [proxied EXCEPT ![w] = found]
  /\ runner' = [runner EXCEPT ![w] = "ladder"]
  /\ taskLadder' = [taskLadder EXCEPT ![w] = FirstRung]
  /\ Restarting({w})
  /\ UNCHANGED <<taskVars, queueVars, dispatchVars, job, outcome, reapVars, health, stopping>>

\* rotate() raised: _execute marks the worker failed and completes the task.
RotateRaises(w) ==
  /\ runner[w] = "rotate"
  /\ MarkFailed(w)
  /\ BeginReport(w, job[w], "report")
  /\ UNCHANGED <<future, spent, sent, queueVars, dispatchVars, proxied, taskLadder, reapVars,
                 health, stopping>>

TaskSpawn(w) ==
  /\ runner[w] = "ladder" /\ CanSpawn(taskLadder[w])
  /\ taskLadder' = [taskLadder EXCEPT ![w] = Spawning(@)]
  /\ state' = [state EXCEPT ![w] = "starting"]
  /\ UNCHANGED <<taskVars, queueVars, dispatchVars, runVars, ready, proxied, reapVars, health, stopping>>

TaskSpawnUp(w) ==
  /\ runner[w] = "ladder" /\ taskLadder[w].phase = "spawn"
  /\ MarkIdle(w)
  /\ taskLadder' = [taskLadder EXCEPT ![w] = NoLadder]
  /\ Conclude(w, job[w], outcome[w])
  /\ UNCHANGED <<dispatchVars, proxied, reapVars, health, stopping>>

\* _start_failed: failed, not restarting, for as long as the ladder sleeps.
TaskSpawnDown(w) ==
  /\ runner[w] = "ladder" /\ taskLadder[w].phase = "spawn"
  /\ MarkFailed(w)
  /\ taskLadder' = [taskLadder EXCEPT ![w].phase = "sleep"]
  /\ UNCHANGED <<taskVars, queueVars, dispatchVars, runVars, proxied, reapVars, health, stopping>>

TaskGiveUp(w) ==
  /\ runner[w] = "ladder" /\ CanGiveUp(taskLadder[w])
  /\ MarkFailed(w)
  /\ taskLadder' = [taskLadder EXCEPT ![w] = NoLadder]
  /\ Conclude(w, job[w], outcome[w])
  /\ UNCHANGED <<dispatchVars, proxied, reapVars, health, stopping>>

Report(w) ==
  /\ runner[w] = "report"
  /\ Resolve({job[w]}, "answered")
  /\ RunEnds(w)
  /\ UNCHANGED <<spent, sent, reported, queue, number, hardQueued, dispatchVars, workerVars,
                 proxied, taskLadder, reapVars, health, stopping>>

\* Mutant: the drain leaves hard_queued as it was.
DrainKeepsCount(w) ==
  /\ runner[w] = "drain"
  /\ Resolve({job[w]}, "quarantined")
  /\ \/ \E e \in First(w) : /\ queue' = [queue EXCEPT ![w] = @ \ {e}]
                            /\ BeginReport(w, e.task, "drain")
     \/ /\ queue[w] = {}
        /\ RunEnds(w)
        /\ UNCHANGED <<queue, reported>>
  /\ UNCHANGED <<spent, sent, number, hardQueued, dispatchVars, workerVars, proxied, taskLadder,
                 reapVars, health, stopping>>

\* Mutant: only the task that struck is answered, its queue is not.
DrainOnlyOwn(w) ==
  /\ runner[w] = "drain"
  /\ Resolve({job[w]}, "quarantined")
  /\ RunEnds(w)
  /\ UNCHANGED <<spent, sent, reported, queue, number, hardQueued, dispatchVars, workerVars,
                 proxied, taskLadder, reapVars, health, stopping>>

\* One turn of _quarantine: a future resolved, the next entry handed to on_result.
Drain(w) ==
  /\ runner[w] = "drain"
  /\ Resolve({job[w]}, "quarantined")
  /\ \/ \E e \in First(w) : /\ queue' = [queue EXCEPT ![w] = @ \ {e}]
                            /\ BeginReport(w, e.task, "drain")
                            /\ UNCHANGED hardQueued
     \/ /\ queue[w] = {}
        /\ hardQueued' = [hardQueued EXCEPT ![w] = 0]
        /\ RunEnds(w)
        /\ UNCHANGED <<queue, reported>>
  /\ UNCHANGED <<spent, sent, number, dispatchVars, workerVars, proxied, taskLadder, reapVars,
                 health, stopping>>

-----------------------------------------------------------------------------
(* _reap_loop.  Its duties run one after another; which of them are due in  *)
(* a minute (the recheck hour, the reclone interval, the master's build) is *)
(* left open, so the duties come in any order.                              *)

Duty(name, S) == [duty |-> name, todo |-> S]

Asleep == Duty("sleep", {})

Climbing == {w \in Terminals : reapLadder[w] # NoLadder}

Climb(S) == /\ reapLadder' = [w \in Terminals |-> IF w \in S THEN FirstRung ELSE reapLadder[w]]
            /\ Restarting(S)

\* _reproxy_idle picks an idle worker that runs without a proxy...
Reproxy(w) ==
  /\ reaper = Asleep /\ Managed /\ ~Closing
  /\ ~proxied[w] /\ state[w] = "idle" /\ health[w] = "healthy"
  /\ reaper' = Duty("reproxy", {w})
  /\ UNCHANGED <<taskVars, queueVars, dispatchVars, runVars, workerVars, proxied,
                 taskLadder, reapLadder, health, stopping>>

\* ... and looks at it again once the registry has answered.
Reproxied(w) ==
  /\ reaper = Duty("reproxy", {w})
  /\ \/ /\ state[w] = "idle"
        /\ proxied' = [proxied EXCEPT ![w] = TRUE]
        /\ Climb({w})
        /\ reaper' = Duty("reproxyRestart", {w})
     \/ /\ reaper' = Asleep          \* no proxy found, or the worker is taken
        /\ UNCHANGED <<proxied, reapLadder, workerVars>>
  /\ UNCHANGED <<taskVars, queueVars, dispatchVars, runVars, taskLadder, health, stopping>>

\* _maybe_reclone: mark_recloning, terminate the worker, rebuild the folder.
Reclone(w) ==
  /\ reaper = Asleep /\ ~Closing
  /\ Lifecycle!StartReclone(w)
  /\ reaper' = Duty("reclone", {w})
  /\ UNCHANGED <<taskVars, queueVars, dispatchVars, runVars, workerVars, proxied,
                 taskLadder, reapLadder, stopping>>

RecloneRaises(w) ==
  /\ reaper = Duty("reclone", {w})
  /\ health' = [health EXCEPT ![w] = "quarantined"]
  /\ reaper' = Asleep
  /\ UNCHANGED <<taskVars, queueVars, dispatchVars, runVars, workerVars, proxied,
                 taskLadder, reapLadder, stopping>>

Rebuilt(w) ==
  /\ reaper = Duty("reclone", {w})
  /\ Climb({w})
  /\ reaper' = Duty("recloneRestart", {w})
  /\ UNCHANGED <<taskVars, queueVars, dispatchVars, runVars, proxied, taskLadder, health, stopping>>

\* _maybe_refresh_master holds an idle worker while its terminal is copied; it
\* last asked whether the pool is closing before it compared the builds.
HoldSource(w) ==
  /\ reaper = Asleep
  /\ state[w] = "idle" /\ health[w] = "healthy"
  /\ Restarting({w})
  /\ reaper' = Duty("refresh", {w})
  /\ UNCHANGED <<taskVars, queueVars, dispatchVars, runVars, proxied, taskLadder, reapLadder,
                 health, stopping>>

ReleaseSource(w) ==
  /\ reaper = Duty("refresh", {w})
  /\ MarkIdle(w)
  /\ reaper' = Asleep
  /\ UNCHANGED <<taskVars, queueVars, dispatchVars, runVars, proxied, taskLadder, reapLadder,
                 health, stopping>>

Failed == {w \in Terminals : state[w] = "failed" /\ Usable(w)}

\* The failed workers are listed once, then restarted batch by batch.
ReapFailed ==
  /\ reaper = Asleep /\ Failed # {}
  /\ reaper' = Duty("restart", Failed)
  /\ UNCHANGED <<taskVars, queueVars, dispatchVars, runVars, workerVars, proxied,
                 taskLadder, reapLadder, health, stopping>>

RestartBatch ==
  /\ reaper.duty = "restart" /\ reaper.todo # {} /\ Climbing = {}
  /\ \E B \in SUBSET reaper.todo :
       /\ B # {} /\ Cardinality(B) <= SpawnBatch
       /\ B = reaper.todo \/ Cardinality(B) = SpawnBatch
       /\ Climb(B)
       /\ reaper' = Duty("restart", reaper.todo \ B)
  /\ UNCHANGED <<taskVars, queueVars, dispatchVars, runVars, proxied, taskLadder, health, stopping>>

RestartDone ==
  /\ reaper.duty = "restart" /\ Climbing = {}
  /\ reaper.todo = {} \/ Closing
  /\ reaper' = Asleep
  /\ UNCHANGED <<taskVars, queueVars, dispatchVars, runVars, workerVars, proxied,
                 taskLadder, reapLadder, health, stopping>>

ReapSpawn(w) ==
  /\ CanSpawn(reapLadder[w])
  /\ reapLadder' = [reapLadder EXCEPT ![w] = Spawning(@)]
  /\ state' = [state EXCEPT ![w] = "starting"]
  /\ UNCHANGED <<taskVars, queueVars, dispatchVars, runVars, ready, proxied, taskLadder, reaper,
                 health, stopping>>

\* The one-terminal duties end with their ladder; a batch waits for the others.
EndDuty == reaper' = IF reaper.duty = "restart" THEN reaper ELSE Asleep

ReapSpawnUp(w) ==
  /\ reapLadder[w].phase = "spawn"
  /\ MarkIdle(w)
  /\ reapLadder' = [reapLadder EXCEPT ![w] = NoLadder]
  /\ health' = IF reaper.duty = "recloneRestart" THEN [health EXCEPT ![w] = "healthy"] ELSE health
  /\ EndDuty
  /\ UNCHANGED <<taskVars, queueVars, dispatchVars, runVars, proxied, taskLadder, stopping>>

ReapSpawnDown(w) ==
  /\ reapLadder[w].phase = "spawn"
  /\ MarkFailed(w)
  /\ reapLadder' = [reapLadder EXCEPT ![w].phase = "sleep"]
  /\ UNCHANGED <<taskVars, queueVars, dispatchVars, runVars, proxied, taskLadder, reaper,
                 health, stopping>>

ReapGiveUp(w) ==
  /\ CanGiveUp(reapLadder[w])
  /\ IF reaper.duty = "reproxyRestart" THEN MarkFailed(w) ELSE UNCHANGED workerVars
  /\ reapLadder' = [reapLadder EXCEPT ![w] = NoLadder]
  /\ health' = IF reaper.duty = "recloneRestart" THEN [health EXCEPT ![w] = "quarantined"] ELSE health
  /\ EndDuty
  /\ UNCHANGED <<taskVars, queueVars, dispatchVars, runVars, proxied, taskLadder, stopping>>

-----------------------------------------------------------------------------
(* stop(): _closing is set at once; the dispatchers are cancelled, then the *)
(* reaper; the workers are terminated; running tasks get thirty seconds;    *)
(* what is still queued is answered.  A run cut off by the thirty seconds   *)
(* is not.                                                                  *)

BeginStop ==
  /\ stopping = "no"
  /\ stopping' = "cancel"
  /\ UNCHANGED <<taskVars, queueVars, dispatchVars, runVars, workerVars, proxied,
                 taskLadder, reapVars, health>>

\* Mutant: the cancelled dispatcher drops the task it holds.
CancelSilently(w) ==
  /\ stopping = "cancel" /\ dispatcher[w] # "over"
  /\ dispatcher' = [dispatcher EXCEPT ![w] = "over"]
  /\ held' = [held EXCEPT ![w] = NoTask]
  /\ UNCHANGED <<taskVars, queueVars, runVars, workerVars, proxied,
                 taskLadder, reapVars, health, stopping>>

\* The task a dispatcher awaits is shielded from this; the one it holds is not.
CancelDispatcher(w) ==
  /\ stopping = "cancel" /\ dispatcher[w] # "over"
  /\ dispatcher' = [dispatcher EXCEPT ![w] = "over"]
  /\ held' = [held EXCEPT ![w] = NoTask]
  /\ Resolve({held[w]}, "shutdown")
  /\ UNCHANGED <<spent, sent, reported, queue, number, hardQueued, runVars, workerVars, proxied,
                 taskLadder, reapVars, health, stopping>>

CancelReaper ==
  /\ stopping = "cancel" /\ \A w \in Terminals : dispatcher[w] = "over"
  /\ stopping' = "terminate"
  /\ reaper' = Duty("over", {})
  /\ reapLadder' = [w \in Terminals |-> NoLadder]
  /\ IF reaper.duty = "refresh"                        \* its finally clause
     THEN \E w \in reaper.todo : MarkIdle(w)
     ELSE UNCHANGED workerVars
  /\ UNCHANGED <<taskVars, queueVars, dispatchVars, runVars, proxied, taskLadder, health>>

StopWorkers ==
  /\ stopping = "terminate"
  /\ stopping' = "drain"
  /\ state' = [w \in Terminals |-> "stopped"]
  /\ UNCHANGED <<taskVars, queueVars, dispatchVars, runVars, ready, proxied,
                 taskLadder, reapVars, health>>

Queued(w) == {e.task : e \in queue[w]}

Running == {job[w] : w \in Terminals} \ {NoTask}

\* _SHUTDOWN_DRAIN_SECONDS are over: wait_for cancels what still runs, and the
\* CancelledError passes every handler, so nobody resolves those futures.
DrainTimeout ==
  /\ stopping = "drain" /\ Running # {}
  /\ future' = [t \in Tasks |-> IF t \in Running THEN "abandoned" ELSE future[t]]
  /\ runner' = [w \in Terminals |-> "none"]
  /\ job' = [w \in Terminals |-> NoTask]
  /\ outcome' = [w \in Terminals |-> NoOutcome]
  /\ taskLadder' = [w \in Terminals |-> NoLadder]
  /\ UNCHANGED <<spent, sent, reported, queueVars, dispatchVars, workerVars, proxied,
                 reapVars, health, stopping>>

FinishStop ==
  /\ stopping = "drain" /\ Running = {}
  /\ stopping' = "stopped"
  /\ Resolve(UNION {Queued(w) : w \in Terminals}, "shutdown")
  /\ queue' = [w \in Terminals |-> {}]
  /\ UNCHANGED <<spent, sent, reported, number, hardQueued, dispatchVars, runVars, workerVars,
                 proxied, taskLadder, reapVars, health>>

-----------------------------------------------------------------------------
Dispatch(w) == DispatchReady(w) \/ DispatchGet(w) \/ DispatchHeld(w) \/ DispatchNext(w)

Run(w) == \/ Begin(w) \/ AnswerClosing(w) \/ AnswerOpen(w) \/ Rotated(w) \/ RotateRaises(w)
          \/ TaskSpawn(w) \/ TaskSpawnUp(w) \/ TaskSpawnDown(w) \/ TaskGiveUp(w)
          \/ Report(w) \/ Drain(w)

Reap(w) == \/ Reproxy(w) \/ Reproxied(w) \/ Reclone(w) \/ RecloneRaises(w) \/ Rebuilt(w)
           \/ HoldSource(w) \/ ReleaseSource(w)
           \/ ReapSpawn(w) \/ ReapSpawnUp(w) \/ ReapSpawnDown(w) \/ ReapGiveUp(w)

ReapBatch == ReapFailed \/ RestartBatch \/ RestartDone

Serve == \/ \E t \in Tasks : Submit(t)
         \/ \E w \in Terminals : Dispatch(w) \/ Run(w) \/ Reap(w)
         \/ ReapBatch

Stop == \/ BeginStop \/ CancelReaper \/ StopWorkers \/ DrainTimeout \/ FinishStop
        \/ \E w \in Terminals : CancelDispatcher(w)

Next == Serve \/ Stop

Spec == Init /\ [][Next]_vars

-----------------------------------------------------------------------------
(* Fairness, for the service that is not stopped.  A coroutine whose await  *)
(* is over runs (WF); Event.set and Queue.put resolve the waiter's own      *)
(* future, so a wake-up is not lost to a later clear (SF on the dispatcher).*)
(* A round trip ends by task_timeout_seconds, a spawn by                    *)
(* start_timeout_seconds.  The reaper comes to its restarts every minute    *)
(* (SF on ReapFailed), and a worker restarted again and again starts at     *)
(* last: the one assumption on the host.                                    *)

RunFairness(w) ==
  /\ WF_vars(Begin(w)) /\ WF_vars(AnswerOpen(w)) /\ WF_vars(Rotated(w) \/ RotateRaises(w))
  /\ WF_vars(TaskSpawn(w)) /\ WF_vars(TaskSpawnUp(w) \/ TaskSpawnDown(w)) /\ WF_vars(TaskGiveUp(w))
  /\ WF_vars(Report(w)) /\ WF_vars(Drain(w))

DispatchFairness(w) == SF_vars(DispatchReady(w)) /\ SF_vars(DispatchGet(w))
                       /\ SF_vars(DispatchHeld(w)) /\ WF_vars(DispatchNext(w))

ReapFairness(w) ==
  /\ WF_vars(Reproxied(w)) /\ WF_vars(RecloneRaises(w) \/ Rebuilt(w)) /\ WF_vars(ReleaseSource(w))
  /\ WF_vars(ReapSpawn(w)) /\ WF_vars(ReapSpawnUp(w) \/ ReapSpawnDown(w)) /\ WF_vars(ReapGiveUp(w))
  /\ SF_vars(ReapSpawnUp(w))

Fairness == /\ \A w \in Terminals : RunFairness(w) /\ DispatchFairness(w) /\ ReapFairness(w)
            /\ SF_vars(ReapFailed) /\ WF_vars(RestartBatch) /\ WF_vars(RestartDone)

ServiceSpec == Init /\ [][Serve]_vars /\ Fairness

-----------------------------------------------------------------------------
(* Properties *)

Answer == {"answered", "quarantined", "shutdown", "refused"}

\* Every variable keeps the range the code gives it.
TypeOK ==
  /\ future \in [Tasks -> {"new", "waiting", "abandoned"} \cup Answer]
  /\ spent \in [Tasks -> Spent]
  /\ sent \in [Tasks -> Nat] /\ reported \in [Tasks -> Nat]
  /\ pending \in [Accounts -> Tasks \cup {NoTask}]
  /\ queue \in [Terminals -> SUBSET [priority : {0, 1}, number : Nat, task : Tasks]]
  /\ number \in Nat
  /\ hardQueued \in [Terminals -> Int]
  /\ dispatcher \in [Terminals -> {"ready", "get", "hold", "shield", "over"}]
  /\ held \in [Terminals -> Tasks \cup {NoTask}]
  /\ runner \in [Terminals -> {"none", "created", "roundtrip", "rotate", "ladder", "report", "drain"}]
  /\ job \in [Terminals -> Tasks \cup {NoTask}]
  /\ outcome \in [Terminals -> Outcome]
  /\ state \in [Terminals -> {"starting", "idle", "busy", "restarting", "failed", "stopped"}]
  /\ ready \in [Terminals -> BOOLEAN]
  /\ proxied \in [Terminals -> BOOLEAN]
  /\ taskLadder \in [Terminals -> Ladder] /\ reapLadder \in [Terminals -> Ladder]
  /\ reaper \in [duty : {"sleep", "reproxy", "reproxyRestart", "reclone", "recloneRestart",
                         "refresh", "restart", "over"}, todo : SUBSET Terminals]
  /\ health \in [Terminals -> Lifecycle!TerminalState]
  /\ stopping \in {"no", "cancel", "terminate", "drain", "stopped"}

Placed ==
  /\ \A w \in Terminals : \A t \in Queued(w) \cup {held[w], job[w]} : t # NoTask => t.terminal = w
  /\ \A w \in Terminals : \A e, f \in queue[w] : e.task = f.task => e = f
  /\ \A t \in Tasks : LET w == t.terminal IN
       /\ future[t] = "waiting" <=> t \in Queued(w) \/ held[w] = t \/ job[w] = t
       /\ t \in Queued(w) => held[w] # t /\ job[w] # t
       /\ held[w] = t => job[w] # t

OnlyStopAbandons == \A t \in Tasks : future[t] = "abandoned" => stopping \in {"drain", "stopped"}

\* "A task always ends, and never moves" (README:434): an accepted task is in
\* exactly one place of its own terminal (an entry of the queue, the item its
\* dispatcher holds, the run in progress) until its future is resolved, and in
\* none afterwards, through retries, drains, crashes and stop().  Only a run cut
\* off at the end of stop()'s drain leaves its place with nobody answered.
OnePlace == Placed /\ OnlyStopAbandons

Unresolved(t) == future[t] \in {"waiting", "abandoned"}

\* _pending never shares a future that is over or another account's, and it
\* always holds the scheduler's own sync in progress, whatever clients submit
\* for the account meanwhile: the scheduler never queues a second one.
RegistryIsLive ==
  /\ \A a \in Accounts : pending[a] # NoTask => pending[a].account = a /\ Unresolved(pending[a])
  /\ \A t \in FromScheduler : future[t] = "waiting" => pending[t.account] = t

\* A result is handed to the database before its waiter sees it, and once; a
\* task answered "shutting down" or refused never reaches it.  A run cut off by
\* the drain's timeout may have handed its result on and answer nobody.
ReportedOnce ==
  \A t \in Tasks :
    /\ future[t] \in {"answered", "quarantined"} => reported[t] = 1
    /\ future[t] \in {"new", "shutdown", "refused"} => reported[t] = 0
    /\ future[t] = "waiting" =>
         reported[t] = IF job[t.terminal] = t /\ runner[t.terminal] \in {"report", "drain"} THEN 1 ELSE 0
    /\ future[t] = "abandoned" => reported[t] \in {0, 1}

\* A task is sent at most once per attempt it may spend, plus one free attempt
\* after a replaced terminal and one after a dead proxy, however the two mix.
RetryBudget ==
  \A t \in Tasks :
    /\ sent[t] <= RetryLimit(t) + 1 + spent[t].replacements + spent[t].rotations
    /\ spent[t].replacements <= 1 /\ spent[t].rotations <= 1

\* hard_queued, which /pool/status adds up, counts the hard tasks that wait.
HardCount ==
  \A w \in Terminals : stopping = "no" /\ runner[w] # "drain" =>
    hardQueued[w] = Cardinality({e \in queue[w] : Hard(e.task)})
                    + (IF held[w] # NoTask THEN 1 - Priority(held[w]) ELSE 0)

\* A terminal out of every pick has nothing left to run: whatever the reaper
\* does to it meanwhile, no task starts on it and none waits in it, but for the
\* queue of a quarantine that stop() cut off, which stop() answers next.
NothingOnUnusable ==
  \A w \in Terminals : ~Usable(w) =>
    /\ held[w] = NoTask
    /\ runner[w] \in {"none", "drain"}
    /\ runner[w] = "none" => queue[w] = {} \/ stopping = "drain"

\* "A hard sync jumps the line of its own terminal" (README:42): while one waits
\* in the queue no scheduled task starts, except the one the dispatcher had
\* already taken out when its worker went down.
HardJumpsTheLine ==
  [][\A w \in Terminals :
       runner[w] = "none" /\ runner'[w] = "created" /\ ~Hard(job'[w])
         => job'[w] = held[w] \/ \A t \in Queued(w) : ~Hard(t)]_vars

\* What a caller of submit() sees of a task.
Phase(t) ==
  CASE Unresolved(t) /\ reported[t] = 0 -> "accepted"
    [] Unresolved(t) /\ reported[t] = 1 -> "stored"
    [] future[t] \in {"answered", "quarantined"} -> "answered"
    [] future[t] \in {"refused", "shutdown"}     -> "dropped"
    [] OTHER                                     -> future[t]

Promise == INSTANCE SyncTasks WITH Tasks <- Tasks, phase <- [t \in Tasks |-> Phase(t)]

\* Through retries, restarts, quarantines and the shutdown the pool does what
\* SyncTasks says: a result reaches the database once and before its waiters, and
\* no answer is ever taken back or given without one but by the shutdown.
KeepsPromise == Promise!Spec

\* "A task always ends" (README:434): while the service is not stopped, every
\* accepted task is answered in the end.
EveryTaskEnds == Promise!Ends
=============================================================================
