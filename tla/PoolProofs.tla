----------------------------- MODULE PoolProofs -----------------------------
(***************************************************************************)
(* Theorems about Pool, for any terminals, accounts, tasks and outcomes,   *)
(* any number of retries and rungs, with and without a proxy registry:     *)
(* where a task is and who answers it, then what the pool keeps within     *)
(* limits (attempts, the count of the hard tasks, the terminals in use).   *)
(***************************************************************************)
EXTENDS Pool, FiniteSetTheorems, TLAPS

USE TasksAssumption, SettingsAssumption

-----------------------------------------------------------------------------
(* Typing *)

LEMMA AfterSuccessType ==
  ASSUME NEW s \in Lifecycle!TerminalState
  PROVE  Lifecycle!AfterSuccess(s) \in Lifecycle!TerminalState
BY DEF Lifecycle!AfterSuccess, Lifecycle!TerminalState

LEMMA AfterStrikeType ==
  ASSUME NEW s \in Lifecycle!TerminalState
  PROVE  Lifecycle!AfterStrike(s) \subseteq Lifecycle!TerminalState
BY DEF Lifecycle!AfterStrike, Lifecycle!TerminalState

LEMMA VerdictType ==
  ASSUME TypeOK, NEW w \in Terminals, NEW r
  PROVE  Verdict(w, r) \subseteq Lifecycle!TerminalState
<1>1. health[w] \in Lifecycle!TerminalState
  BY DEF TypeOK
<1> QED
  BY <1>1, AfterSuccessType, AfterStrikeType DEF Verdict

\* Resolve, Enqueue, RunEnds and BeginReport keep the ranges of what they assign.
LEMMA ResolveType ==
  ASSUME TypeOK, NEW S, NEW answer \in Answer, Resolve(S, answer)
  PROVE  /\ future' \in [Tasks -> {"new", "waiting", "abandoned"} \cup Answer]
         /\ pending' \in [Accounts -> Tasks \cup {NoTask}]
BY DEF TypeOK, Resolve, Answered, Forget

LEMMA EnqueueType ==
  ASSUME TypeOK, NEW t \in Tasks, Enqueue(t)
  PROVE  /\ queue' \in [Terminals -> SUBSET [priority : {0, 1}, number : Nat, task : Tasks]]
         /\ number' \in Nat
         /\ hardQueued' \in [Terminals -> Int]
<1>1. Entry(t) \in [priority : {0, 1}, number : Nat, task : Tasks]
  BY DEF TypeOK, Entry, Priority
<1>2. queue' \in [Terminals -> SUBSET [priority : {0, 1}, number : Nat, task : Tasks]]
  BY <1>1 DEF TypeOK, Enqueue
<1>3. number' \in Nat
  BY DEF TypeOK, Enqueue
<1>4. hardQueued' \in [Terminals -> Int]
  BY DEF TypeOK, Enqueue
<1> QED
  BY <1>2, <1>3, <1>4

RunType ==
  /\ runner \in [Terminals -> {"none", "created", "roundtrip", "rotate", "ladder", "report", "drain"}]
  /\ job \in [Terminals -> Tasks \cup {NoTask}]
  /\ outcome \in [Terminals -> Outcome]

LEMMA NoOutcomeType == NoOutcome \in Outcome
BY DEF NoOutcome, Outcome

LEMMA RunEndsType ==
  ASSUME TypeOK, NEW w \in Terminals, RunEnds(w)
  PROVE  RunType'
BY NoOutcomeType DEF TypeOK, RunEnds, RunType

LEMMA BeginReportType ==
  ASSUME TypeOK, NEW w \in Terminals, NEW t \in Tasks, NEW p \in {"report", "drain"},
         BeginReport(w, t, p)
  PROVE  RunType' /\ reported' \in [Tasks -> Nat]
BY NoOutcomeType DEF TypeOK, BeginReport, RunType

LEMMA MarkType ==
  ASSUME TypeOK, NEW w \in Terminals, MarkIdle(w) \/ MarkFailed(w)
  PROVE  /\ state' \in [Terminals -> {"starting", "idle", "busy", "restarting", "failed", "stopped"}]
         /\ ready' \in [Terminals -> BOOLEAN]
<1>1. CASE MarkIdle(w)
  BY <1>1 DEF TypeOK, MarkIdle
<1>2. CASE MarkFailed(w)
  BY <1>2 DEF TypeOK, MarkFailed
<1> QED
  BY <1>1, <1>2

LEMMA RestartingType ==
  ASSUME TypeOK, NEW S, Restarting(S)
  PROVE  /\ state' \in [Terminals -> {"starting", "idle", "busy", "restarting", "failed", "stopped"}]
         /\ ready' \in [Terminals -> BOOLEAN]
BY DEF TypeOK, Restarting

LEMMA LadderType ==
  /\ NoLadder \in Ladder
  /\ FirstRung \in Ladder
  /\ \A l \in Ladder : CanSpawn(l) => Spawning(l) \in Ladder
  /\ \A l \in Ladder : [l EXCEPT !.phase = "sleep"] \in Ladder
BY DEF Ladder, NoLadder, FirstRung, CanSpawn, Spawning

-----------------------------------------------------------------------------
(* The inductive invariant.  Control ties the dispatcher of a terminal to   *)
(* the run it started: this is what makes taking an entry off the queue and *)
(* into held or job lose nothing that was there before.                     *)

Control ==
  \A w \in Terminals :
    /\ job[w] = NoTask <=> runner[w] = "none"
    /\ held[w] = NoTask <=> dispatcher[w] # "hold"
    /\ runner[w] # "none" => dispatcher[w] \in {"shield", "over"}

\* stop() waits for its dispatchers before it touches a worker.
DispatchersOver == stopping \in {"terminate", "drain", "stopped"} => \A w \in Terminals : dispatcher[w] = "over"

PoolInv == /\ TypeOK /\ Control /\ Placed /\ OnlyStopAbandons /\ DispatchersOver
           /\ RegistryIsLive /\ ReportedOnce

LEMMA JobIsATask ==
  ASSUME TypeOK, Control, NEW w \in Terminals, runner[w] # "none"
  PROVE  job[w] \in Tasks
BY DEF TypeOK, Control

LEMMA SpentByType ==
  ASSUME NEW t, NEW r, spent[t] \in Spent
  PROVE  SpentBy(t, r) \in Spent
BY DEF SpentBy, Spent

LEMMA ConcludeType ==
  ASSUME TypeOK, NEW w \in Terminals, NEW t \in Tasks, NEW r \in Outcome, Conclude(w, t, r)
  PROVE  /\ future' \in [Tasks -> {"new", "waiting", "abandoned"} \cup Answer]
         /\ spent' \in [Tasks -> Spent]
         /\ sent' \in [Tasks -> Nat] /\ reported' \in [Tasks -> Nat]
         /\ pending' \in [Accounts -> Tasks \cup {NoTask}]
         /\ queue' \in [Terminals -> SUBSET [priority : {0, 1}, number : Nat, task : Tasks]]
         /\ number' \in Nat
         /\ hardQueued' \in [Terminals -> Int]
         /\ RunType'
<1>1. UNCHANGED <<future, sent, pending>>
  BY DEF Conclude
<1>2. CASE /\ spent' = [spent EXCEPT ![t] = SpentBy(t, r)]
           /\ Enqueue(t) /\ RunEnds(w) /\ UNCHANGED reported
  <2>1. SpentBy(t, r) \in Spent
    <3>1. spent[t] \in Spent
      BY DEF TypeOK
    <3> QED
      BY <3>1, SpentByType
  <2>2. spent' \in [Tasks -> Spent]
    BY <1>2, <2>1 DEF TypeOK
  <2> QED
    BY <1>1, <1>2, <2>2, EnqueueType, RunEndsType DEF TypeOK
<1>3. CASE BeginReport(w, t, "report") /\ UNCHANGED <<spent, queue, number, hardQueued>>
  BY <1>1, <1>3, BeginReportType DEF TypeOK
<1> QED
  BY <1>2, <1>3 DEF Conclude

\* Every action keeps the typing, given the control invariant.
LEMMA TypeStep == TypeOK /\ Control /\ [Next]_vars => TypeOK'
<1> SUFFICES ASSUME TypeOK, Control, [Next]_vars PROVE TypeOK'
  OBVIOUS
<1> USE DEF vars, taskVars, queueVars, dispatchVars, runVars, workerVars, reapVars
<1>1. ASSUME NEW t \in Tasks, Submit(t) PROVE TypeOK'
  <2>1. CASE Enqueue(t) /\ future' = [future EXCEPT ![t] = "waiting"]
             /\ pending' = [pending EXCEPT ![t.account] = IF @ = NoTask THEN t ELSE @]
    BY <1>1, <2>1, EnqueueType DEF Submit, TypeOK
  <2>2. CASE UNCHANGED queueVars /\ \E a \in {"shutdown", "refused"} : future' = [future EXCEPT ![t] = a]
    BY <1>1, <2>2 DEF Submit, TypeOK, Answer
  <2> QED
    BY <1>1, <2>1, <2>2 DEF Submit
<1>2. ASSUME NEW w \in Terminals, DispatchReady(w) PROVE TypeOK'
  BY <1>2 DEF DispatchReady, TypeOK
<1>3. ASSUME NEW w \in Terminals, DispatchNext(w) PROVE TypeOK'
  BY <1>3 DEF DispatchNext, TypeOK
<1>4. ASSUME NEW w \in Terminals, DispatchGet(w) PROVE TypeOK'
  <2> PICK e \in First(w) :
           /\ queue' = [queue EXCEPT ![w] = @ \ {e}]
           /\ \/ CreateTask(w, e.task)
              \/ /\ held' = [held EXCEPT ![w] = e.task]
                 /\ dispatcher' = [dispatcher EXCEPT ![w] = "hold"]
                 /\ UNCHANGED <<runner, job, hardQueued>>
    BY <1>4 DEF DispatchGet
  <2>1. e \in queue[w] /\ e.task \in Tasks
    BY DEF First, TypeOK
  <2>2. queue' \in [Terminals -> SUBSET [priority : {0, 1}, number : Nat, task : Tasks]]
    BY DEF TypeOK
  <2> QED
    <3>1. UNCHANGED <<taskVars, pending, number, outcome, workerVars, proxied,
                      taskLadder, reapVars, health, stopping>>
      BY <1>4 DEF DispatchGet
    <3>2. CASE CreateTask(w, e.task)
      BY <2>1, <2>2, <3>1, <3>2 DEF CreateTask, TypeOK
    <3>3. CASE /\ held' = [held EXCEPT ![w] = e.task]
               /\ dispatcher' = [dispatcher EXCEPT ![w] = "hold"]
               /\ UNCHANGED <<runner, job, hardQueued>>
      BY <2>1, <2>2, <3>1, <3>3 DEF TypeOK
    <3> QED
      BY <3>2, <3>3
<1>5. ASSUME NEW w \in Terminals, DispatchHeld(w) PROVE TypeOK'
  BY <1>5 DEF DispatchHeld, CreateTask, TypeOK
<1>6. ASSUME NEW w \in Terminals, Begin(w) PROVE TypeOK'
  <2> DEFINE t == job[w]
  <2>1. runner[w] # "none"
    BY <1>6 DEF Begin
  <2>2. t \in Tasks
    BY <2>1, JobIsATask
  <2>3. spent[t] \in Spent /\ sent[t] \in Nat
    BY <2>2 DEF TypeOK
  <2>4. spent' = [spent EXCEPT ![t] = Attempted(@)] /\ sent' = [sent EXCEPT ![t] = @ + 1]
    BY <1>6 DEF Begin
  <2> HIDE DEF t
  <2>5. Attempted(spent[t]) \in Spent
    BY <2>3 DEF Attempted, Spent
  <2>6. spent' \in [Tasks -> Spent]
    BY <2>2, <2>5, <2>4 DEF TypeOK
  <2>7. sent' \in [Tasks -> Nat]
    BY <2>2, <2>3, <2>4 DEF TypeOK
  <2>8. /\ runner' \in [Terminals -> {"none", "created", "roundtrip", "rotate", "ladder", "report", "drain"}]
        /\ state' \in [Terminals -> {"starting", "idle", "busy", "restarting", "failed", "stopped"}]
    BY <1>6 DEF Begin, TypeOK
  <2>9. UNCHANGED <<future, reported, queueVars, dispatchVars, job, outcome, ready, proxied,
                    taskLadder, reapVars, health, stopping>>
    BY <1>6 DEF Begin
  <2> QED
    BY <2>6, <2>7, <2>8, <2>9 DEF TypeOK
<1>7. ASSUME NEW w \in Terminals, AnswerClosing(w) PROVE TypeOK'
  BY <1>7, ResolveType, RunEndsType DEF AnswerClosing, TypeOK, RunType, Answer
<1>8. ASSUME NEW w \in Terminals, AnswerOpen(w) PROVE TypeOK'
  <2> PICK r \in Outcomes : \E after \in Verdict(w, r) :
           /\ health' = [health EXCEPT ![w] = after]
           /\ Quarantine(w) \/ AwaitRotation(w, r) \/ AwaitRestart(w, r) \/ KeepWorker(w, r)
    BY <1>8 DEF AnswerOpen
  <2>1. job[w] \in Tasks /\ r \in Outcome
    BY <1>8, JobIsATask DEF AnswerOpen
  <2>2. health' \in [Terminals -> Lifecycle!TerminalState]
    BY VerdictType DEF TypeOK
  <2>3. UNCHANGED <<dispatchVars, proxied, reapVars, stopping>>
    BY <1>8 DEF AnswerOpen
  <2>4. CASE Quarantine(w)
    BY <2>1, <2>2, <2>3, <2>4, BeginReportType, MarkType DEF Quarantine, TypeOK, RunType
  <2>5. CASE AwaitRotation(w, r)
    BY <2>1, <2>2, <2>3, <2>5 DEF AwaitRotation, TypeOK
  <2>6. CASE AwaitRestart(w, r)
    BY <2>1, <2>2, <2>3, <2>6, RestartingType, LadderType DEF AwaitRestart, TypeOK
  <2>7. CASE KeepWorker(w, r)
    BY <2>1, <2>2, <2>3, <2>7, MarkType, ConcludeType DEF KeepWorker, TypeOK, RunType
  <2> QED
    BY <2>4, <2>5, <2>6, <2>7
<1>9. ASSUME NEW w \in Terminals, Rotated(w) PROVE TypeOK'
  BY <1>9, RestartingType, LadderType DEF Rotated, TypeOK
<1>10. ASSUME NEW w \in Terminals, RotateRaises(w) PROVE TypeOK'
  BY <1>10, JobIsATask, MarkType, BeginReportType DEF RotateRaises, TypeOK, RunType
<1>11. ASSUME NEW w \in Terminals, TaskSpawn(w) PROVE TypeOK'
  BY <1>11, LadderType DEF TaskSpawn, TypeOK
<1>12. ASSUME NEW w \in Terminals, TaskSpawnUp(w) PROVE TypeOK'
  <2>1. job[w] \in Tasks /\ outcome[w] \in Outcome
    BY <1>12, JobIsATask DEF TaskSpawnUp, TypeOK
  <2> QED
    BY <1>12, <2>1, MarkType, ConcludeType, LadderType DEF TaskSpawnUp, TypeOK, RunType
<1>13. ASSUME NEW w \in Terminals, TaskGiveUp(w) PROVE TypeOK'
  <2>1. job[w] \in Tasks /\ outcome[w] \in Outcome
    BY <1>13, JobIsATask DEF TaskGiveUp, TypeOK
  <2> QED
    BY <1>13, <2>1, MarkType, ConcludeType, LadderType DEF TaskGiveUp, TypeOK, RunType
<1>14. ASSUME NEW w \in Terminals, TaskSpawnDown(w) PROVE TypeOK'
  BY <1>14, MarkType, LadderType DEF TaskSpawnDown, TypeOK
<1>15. ASSUME NEW w \in Terminals, Report(w) PROVE TypeOK'
  BY <1>15, ResolveType, RunEndsType DEF Report, TypeOK, RunType, Answer
<1>16. ASSUME NEW w \in Terminals, Drain(w) PROVE TypeOK'
  <2>1. /\ future' \in [Tasks -> {"new", "waiting", "abandoned"} \cup Answer]
        /\ pending' \in [Accounts -> Tasks \cup {NoTask}]
    BY <1>16, ResolveType DEF Drain, Answer
  <2>2. CASE \E e \in First(w) : /\ queue' = [queue EXCEPT ![w] = @ \ {e}]
                                 /\ BeginReport(w, e.task, "drain")
                                 /\ UNCHANGED hardQueued
    <3> PICK e \in First(w) : /\ queue' = [queue EXCEPT ![w] = @ \ {e}]
                              /\ BeginReport(w, e.task, "drain")
                              /\ UNCHANGED hardQueued
      BY <2>2
    <3>1. e.task \in Tasks
      BY DEF First, TypeOK
    <3>2. queue' \in [Terminals -> SUBSET [priority : {0, 1}, number : Nat, task : Tasks]]
      BY DEF TypeOK
    <3> QED
      BY <1>16, <2>1, <3>1, <3>2, BeginReportType DEF Drain, TypeOK, RunType
  <2>3. CASE /\ hardQueued' = [hardQueued EXCEPT ![w] = 0]
             /\ RunEnds(w) /\ UNCHANGED <<queue, reported>>
    BY <1>16, <2>1, <2>3, RunEndsType DEF Drain, TypeOK, RunType
  <2> QED
    BY <1>16, <2>2, <2>3 DEF Drain
<1>17. ASSUME NEW w \in Terminals, Reproxy(w) PROVE TypeOK'
  BY <1>17 DEF Reproxy, Duty, TypeOK
<1>18. ASSUME NEW w \in Terminals, Reproxied(w) PROVE TypeOK'
  <2>1. CASE reaper' = Asleep /\ UNCHANGED <<proxied, reapLadder, workerVars>>
    BY <1>18, <2>1 DEF Reproxied, Asleep, Duty, TypeOK
  <2>2. CASE /\ proxied' = [proxied EXCEPT ![w] = TRUE]
             /\ Climb({w}) /\ reaper' = Duty("reproxyRestart", {w})
    BY <1>18, <2>2, RestartingType, LadderType DEF Reproxied, Climb, Duty, TypeOK
  <2> QED
    BY <1>18, <2>1, <2>2 DEF Reproxied
<1>19. ASSUME NEW w \in Terminals, Reclone(w) PROVE TypeOK'
  BY <1>19 DEF Reclone, Lifecycle!StartReclone, Lifecycle!TerminalState, Duty, TypeOK
<1>20. ASSUME NEW w \in Terminals, RecloneRaises(w) PROVE TypeOK'
  BY <1>20 DEF RecloneRaises, Lifecycle!TerminalState, Asleep, Duty, TypeOK
<1>21. ASSUME NEW w \in Terminals, Rebuilt(w) PROVE TypeOK'
  BY <1>21, RestartingType, LadderType DEF Rebuilt, Climb, Duty, TypeOK
<1>22. ASSUME NEW w \in Terminals, HoldSource(w) PROVE TypeOK'
  BY <1>22, RestartingType DEF HoldSource, Duty, TypeOK
<1>23. ASSUME NEW w \in Terminals, ReleaseSource(w) PROVE TypeOK'
  BY <1>23, MarkType DEF ReleaseSource, Asleep, Duty, TypeOK
<1>24. ASSUME NEW w \in Terminals, ReapSpawn(w) PROVE TypeOK'
  BY <1>24, LadderType DEF ReapSpawn, TypeOK
<1>25. ASSUME NEW w \in Terminals, ReapSpawnUp(w) PROVE TypeOK'
  BY <1>25, MarkType, LadderType DEF ReapSpawnUp, EndDuty, Asleep, Duty, Lifecycle!TerminalState, TypeOK
<1>26. ASSUME NEW w \in Terminals, ReapSpawnDown(w) PROVE TypeOK'
  BY <1>26, MarkType, LadderType DEF ReapSpawnDown, TypeOK
<1>27. ASSUME NEW w \in Terminals, ReapGiveUp(w) PROVE TypeOK'
  BY <1>27, MarkType, LadderType DEF ReapGiveUp, EndDuty, Asleep, Duty, Lifecycle!TerminalState, TypeOK
<1>28. ASSUME ReapFailed PROVE TypeOK'
  BY <1>28 DEF ReapFailed, Failed, Duty, TypeOK
<1>29. ASSUME RestartBatch PROVE TypeOK'
  <2> PICK B \in SUBSET reaper.todo : Climb(B) /\ reaper' = Duty("restart", reaper.todo \ B)
    BY <1>29 DEF RestartBatch
  <2> QED
    BY <1>29, RestartingType, LadderType DEF RestartBatch, Climb, Duty, TypeOK
<1>30. ASSUME RestartDone PROVE TypeOK'
  BY <1>30 DEF RestartDone, Asleep, Duty, TypeOK
<1>31. ASSUME BeginStop PROVE TypeOK'
  BY <1>31 DEF BeginStop, TypeOK
<1>32. ASSUME NEW w \in Terminals, CancelDispatcher(w) PROVE TypeOK'
  BY <1>32, ResolveType DEF CancelDispatcher, TypeOK, Answer
<1>33. ASSUME CancelReaper PROVE TypeOK'
  <2>1. CASE UNCHANGED workerVars
    BY <1>33, <2>1, LadderType DEF CancelReaper, Duty, TypeOK
  <2>2. CASE \E w \in reaper.todo : MarkIdle(w)
    <3> PICK w \in reaper.todo : MarkIdle(w)
      BY <2>2
    <3>1. w \in Terminals
      BY DEF TypeOK
    <3> QED
      BY <1>33, <3>1, MarkType, LadderType DEF CancelReaper, Duty, TypeOK
  <2> QED
    BY <1>33, <2>1, <2>2 DEF CancelReaper
<1>34. ASSUME StopWorkers PROVE TypeOK'
  BY <1>34 DEF StopWorkers, TypeOK
<1>35. ASSUME FinishStop PROVE TypeOK'
  BY <1>35, ResolveType DEF FinishStop, TypeOK, Answer
<1>36. ASSUME UNCHANGED vars PROVE TypeOK'
  BY <1>36 DEF TypeOK
<1>37. ASSUME DrainTimeout PROVE TypeOK'
  <2>1. /\ future' \in [Tasks -> {"new", "waiting", "abandoned"} \cup Answer]
        /\ outcome' \in [Terminals -> Outcome] /\ taskLadder' \in [Terminals -> Ladder]
    BY <1>37, NoOutcomeType, LadderType DEF DrainTimeout, TypeOK
  <2> QED
    BY <1>37, <2>1 DEF DrainTimeout, TypeOK
<1> QED
  BY <1>1, <1>2, <1>3, <1>4, <1>5, <1>6, <1>7, <1>8, <1>9, <1>10, <1>11, <1>12, <1>13, <1>14, <1>15, <1>16, <1>17, <1>18, <1>19, <1>20, <1>21, <1>22, <1>23, <1>24, <1>25, <1>26, <1>27, <1>28, <1>29, <1>30, <1>31, <1>32, <1>33, <1>34, <1>35, <1>36, <1>37
     DEF Next, Serve, Stop, Dispatch, Run, Reap, ReapBatch

\* The actions of the runner that conclude a task, or begin to report it.
LEMMA ConcludeControl ==
  ASSUME TypeOK, Control, NEW w \in Terminals, NEW r, runner[w] # "none",
         Conclude(w, job[w], r), UNCHANGED dispatchVars
  PROVE  Control'
<1>1. job[w] \in Tasks
  BY JobIsATask
<1>2. CASE RunEnds(w)
  BY <1>1, <1>2 DEF TypeOK, Control, RunEnds, dispatchVars
<1>3. CASE BeginReport(w, job[w], "report")
  BY <1>1, <1>3 DEF TypeOK, Control, BeginReport, dispatchVars
<1> QED
  BY <1>2, <1>3 DEF Conclude

\* Every action keeps dispatcher, held, runner and job in step.
LEMMA ControlStep == TypeOK /\ Control /\ [Next]_vars => Control'
<1> SUFFICES ASSUME TypeOK, Control, [Next]_vars PROVE Control'
  OBVIOUS
<1> USE DEF vars, taskVars, queueVars, dispatchVars, runVars, workerVars, reapVars
<1>1. ASSUME UNCHANGED <<dispatcher, held, runner, job>> PROVE Control'
  BY <1>1 DEF Control
<1>2. ASSUME NEW w \in Terminals, DispatchReady(w) \/ DispatchNext(w) PROVE Control'
  BY <1>2 DEF DispatchReady, DispatchNext, TypeOK, Control
<1>3. ASSUME NEW w \in Terminals, DispatchGet(w) PROVE Control'
  <2> PICK e \in First(w) :
           \/ CreateTask(w, e.task)
           \/ /\ held' = [held EXCEPT ![w] = e.task]
              /\ dispatcher' = [dispatcher EXCEPT ![w] = "hold"]
              /\ UNCHANGED <<runner, job, hardQueued>>
    BY <1>3 DEF DispatchGet
  <2>1. e.task \in Tasks /\ dispatcher[w] = "get"
    BY <1>3 DEF DispatchGet, First, TypeOK
  <2>2. CASE CreateTask(w, e.task)
    BY <2>1, <2>2 DEF CreateTask, TypeOK, Control
  <2>3. CASE /\ held' = [held EXCEPT ![w] = e.task]
             /\ dispatcher' = [dispatcher EXCEPT ![w] = "hold"]
             /\ UNCHANGED <<runner, job, hardQueued>>
    BY <2>1, <2>3 DEF TypeOK, Control
  <2> QED
    BY <2>2, <2>3
<1>4. ASSUME NEW w \in Terminals, DispatchHeld(w) PROVE Control'
  BY <1>4 DEF DispatchHeld, CreateTask, TypeOK, Control
<1>5. ASSUME NEW w \in Terminals, Begin(w) PROVE Control'
  BY <1>5 DEF Begin, TypeOK, Control
<1>6. ASSUME NEW w \in Terminals, AnswerClosing(w) \/ Report(w) PROVE Control'
  BY <1>6 DEF AnswerClosing, Report, RunEnds, TypeOK, Control
<1>7. ASSUME NEW w \in Terminals, AnswerOpen(w) PROVE Control'
  <2>1. /\ runner[w] = "roundtrip" /\ UNCHANGED dispatchVars
        /\ \E r \in Outcomes : Quarantine(w) \/ AwaitRotation(w, r) \/ AwaitRestart(w, r) \/ KeepWorker(w, r)
    BY <1>7 DEF AnswerOpen
  <2>2. CASE Quarantine(w)
    BY <2>1, <2>2 DEF Quarantine, BeginReport, TypeOK, Control
  <2>3. ASSUME NEW r \in Outcomes, AwaitRotation(w, r) \/ AwaitRestart(w, r) PROVE Control'
    BY <2>1, <2>3 DEF AwaitRotation, AwaitRestart, TypeOK, Control
  <2>4. ASSUME NEW r \in Outcomes, KeepWorker(w, r) PROVE Control'
    BY <2>1, <2>4, ConcludeControl DEF KeepWorker
  <2> QED
    BY <2>1, <2>2, <2>3, <2>4
<1>8. ASSUME NEW w \in Terminals, Rotated(w) PROVE Control'
  BY <1>8 DEF Rotated, TypeOK, Control
<1>9. ASSUME NEW w \in Terminals, RotateRaises(w) PROVE Control'
  BY <1>9 DEF RotateRaises, BeginReport, TypeOK, Control
<1>10. ASSUME NEW w \in Terminals, TaskSpawnUp(w) \/ TaskGiveUp(w) PROVE Control'
  BY <1>10, ConcludeControl DEF TaskSpawnUp, TaskGiveUp
<1>11. ASSUME NEW w \in Terminals, Drain(w) PROVE Control'
  <2>1. CASE RunEnds(w)
    BY <1>11, <2>1 DEF Drain, RunEnds, TypeOK, Control
  <2>2. ASSUME NEW e \in First(w), BeginReport(w, e.task, "drain") PROVE Control'
    <3>1. e.task \in Tasks
      BY DEF First, TypeOK
    <3> QED
      BY <1>11, <2>2, <3>1 DEF Drain, BeginReport, TypeOK, Control
  <2> QED
    BY <1>11, <2>1, <2>2 DEF Drain
<1>12. ASSUME NEW w \in Terminals, CancelDispatcher(w) PROVE Control'
  BY <1>12 DEF CancelDispatcher, TypeOK, Control
<1>13. ASSUME NEW t \in Tasks, Submit(t) PROVE Control'
  BY <1>1, <1>13 DEF Submit
<1>14. ASSUME NEW w \in Terminals, TaskSpawn(w) \/ TaskSpawnDown(w) \/ Reap(w) PROVE Control'
  BY <1>1, <1>14 DEF TaskSpawn, TaskSpawnDown, Reap, Reproxy, Reproxied, Reclone, RecloneRaises,
    Rebuilt, HoldSource, ReleaseSource, ReapSpawn, ReapSpawnUp, ReapSpawnDown, ReapGiveUp
<1>15. ASSUME ReapBatch \/ BeginStop \/ CancelReaper \/ StopWorkers \/ FinishStop PROVE Control'
  BY <1>1, <1>15 DEF ReapBatch, ReapFailed, RestartBatch, RestartDone, BeginStop, CancelReaper,
    StopWorkers, FinishStop
<1>16. ASSUME DrainTimeout PROVE Control'
  BY <1>16 DEF DrainTimeout, Control
<1> QED
  BY <1>1, <1>2, <1>3, <1>4, <1>5, <1>6, <1>7, <1>8, <1>9, <1>10, <1>11, <1>12, <1>13, <1>14, <1>15, <1>16
     DEF Next, Serve, Stop, Dispatch, Run

-----------------------------------------------------------------------------
(* Placed *)

LEMMA PlacesFrame ==
  ASSUME Placed, UNCHANGED <<future, queue, held, job>>
  PROVE  Placed'
BY DEF Placed, Queued

\* A task that is in the queue of no terminal goes into its own.
LEMMA EnqueuePlaces ==
  ASSUME TypeOK, Placed, NEW t \in Tasks, Enqueue(t), t \notin Queued(t.terminal)
  PROVE  /\ \A w \in Terminals : Queued(w)' = IF w = t.terminal THEN Queued(w) \cup {t} ELSE Queued(w)
         /\ \A w \in Terminals : \A e, f \in queue'[w] : e.task = f.task => e = f
<1>1. \A w \in Terminals : queue'[w] = IF w = t.terminal THEN queue[w] \cup {Entry(t)} ELSE queue[w]
  BY DEF Enqueue, TypeOK
<1>2. Entry(t).task = t
  BY DEF Entry
<1>3. ASSUME NEW w \in Terminals
      PROVE  Queued(w)' = IF w = t.terminal THEN Queued(w) \cup {t} ELSE Queued(w)
  <2>1. CASE w = t.terminal
    <3>1. Queued(w)' = {e.task : e \in queue[w] \cup {Entry(t)}}
      BY <1>1, <2>1 DEF Queued
    <3>2. {e.task : e \in queue[w] \cup {Entry(t)}} = {e.task : e \in queue[w]} \cup {Entry(t).task}
      OBVIOUS
    <3> QED
      BY <1>2, <2>1, <3>1, <3>2 DEF Queued
  <2>2. CASE w # t.terminal
    BY <1>1, <2>2 DEF Queued
  <2> QED
    BY <2>1, <2>2
<1>4. ASSUME NEW w \in Terminals, NEW e \in queue'[w], NEW f \in queue'[w], e.task = f.task
      PROVE  e = f
  <2>1. CASE e \in queue[w] /\ f \in queue[w]
    BY <1>4, <2>1 DEF Placed
  <2>2. CASE e \notin queue[w] \/ f \notin queue[w]
    <3>1. w = t.terminal
      BY <1>1, <2>2
    <3>2. ASSUME NEW g \in queue[w] PROVE g.task # t
      <4>1. g.task \in Queued(w)
        BY DEF Queued
      <4> QED
        BY <3>1, <4>1
    <3>3. e \in queue[w] \cup {Entry(t)} /\ f \in queue[w] \cup {Entry(t)}
      BY <1>1, <3>1
    <3>4. e = Entry(t) \/ f = Entry(t)
      BY <2>2, <3>3
    <3>5. e.task = t /\ f.task = t
      BY <1>2, <1>4, <3>4
    <3> QED
      BY <3>2, <3>3, <3>5
  <2> QED
    BY <2>1, <2>2
<1> QED
  BY <1>3, <1>4

\* An entry that leaves the queue takes its task with it.
LEMMA DequeuePlaces ==
  ASSUME TypeOK, Placed, NEW w \in Terminals, NEW e \in queue[w],
         queue' = [queue EXCEPT ![w] = @ \ {e}]
  PROVE  /\ \A v \in Terminals : Queued(v)' = IF v = w THEN Queued(v) \ {e.task} ELSE Queued(v)
         /\ \A v \in Terminals : \A f, g \in queue'[v] : f.task = g.task => f = g
         /\ e.task \in Tasks /\ e.task \in Queued(w) /\ e.task.terminal = w
<1>1. \A v \in Terminals : queue'[v] = IF v = w THEN queue[v] \ {e} ELSE queue[v]
  BY DEF TypeOK
<1>2. \A f, g \in queue[w] : f.task = g.task => f = g
  BY DEF Placed
<1>3. e.task \in Tasks /\ e.task \in Queued(w)
  BY DEF TypeOK, Queued
<1>4. e.task.terminal = w
  BY <1>3 DEF Placed
<1>5. Queued(w)' = Queued(w) \ {e.task}
  <2>1. Queued(w)' = {f.task : f \in queue[w] \ {e}}
    BY <1>1 DEF Queued
  <2>2. \A f \in queue[w] : f.task = e.task <=> f = e
    BY <1>2
  <2> QED
    BY <2>1, <2>2 DEF Queued
<1>6. \A v \in Terminals : v # w => Queued(v)' = Queued(v)
  BY <1>1 DEF Queued
<1>7. \A v \in Terminals : \A f, g \in queue'[v] : f.task = g.task => f = g
  BY <1>1 DEF Placed
<1> QED
  BY <1>3, <1>4, <1>5, <1>6, <1>7

LEMMA RunEndsPlaces ==
  ASSUME TypeOK, Control, Placed, NEW w \in Terminals, runner[w] # "none",
         RunEnds(w), UNCHANGED held
  PROVE  \/ \E answer \in Answer : Resolve({job[w]}, answer) /\ UNCHANGED queue
         \/ Enqueue(job[w]) /\ UNCHANGED future
         => Placed'
<1> DEFINE t == job[w]
<1>1. t \in Tasks /\ t.terminal = w
  BY JobIsATask DEF Placed
<1>2. job' = [job EXCEPT ![w] = NoTask]
  BY DEF RunEnds
<1>3. t \notin Queued(w) /\ held[w] # t /\ future[t] = "waiting"
  <2>1. /\ future[t] = "waiting" <=> t \in Queued(w) \/ held[w] = t \/ job[w] = t
        /\ t \in Queued(w) => held[w] # t /\ job[w] # t
        /\ held[w] = t => job[w] # t
    BY <1>1 DEF Placed
  <2> QED
    BY <2>1
<1>4. ASSUME NEW answer \in Answer, Resolve({t}, answer), UNCHANGED queue PROVE Placed'
  <2>1. future' = [u \in Tasks |-> IF u = t THEN answer ELSE future[u]]
    BY <1>3, <1>4 DEF Resolve, Answered, TypeOK
  <2>2. \A v \in Terminals : Queued(v)' = Queued(v)
    BY <1>4 DEF Queued
  <2> QED
    BY <1>1, <1>2, <1>3, <1>4, <2>1, <2>2 DEF Placed, TypeOK, Answer
<1>5. ASSUME Enqueue(t), UNCHANGED future PROVE Placed'
  <2>1. /\ \A v \in Terminals : Queued(v)' = IF v = w THEN Queued(v) \cup {t} ELSE Queued(v)
        /\ \A v \in Terminals : \A e, f \in queue'[v] : e.task = f.task => e = f
    BY <1>1, <1>3, <1>5, EnqueuePlaces
  <2>2. \A v \in Terminals : job'[v] = IF v = w THEN NoTask ELSE job[v]
    BY <1>2 DEF TypeOK
  <2>3. \A v \in Terminals : \A u \in Queued(v)' \cup {held'[v], job'[v]} : u # NoTask => u.terminal = v
    BY <1>1, <1>3, <2>1, <2>2 DEF Placed
  <2>4. ASSUME NEW u \in Tasks
        PROVE  LET v == u.terminal IN
                 /\ future'[u] = "waiting" <=> u \in Queued(v)' \/ held'[v] = u \/ job'[v] = u
                 /\ u \in Queued(v)' => held'[v] # u /\ job'[v] # u
                 /\ held'[v] = u => job'[v] # u
    BY <1>1, <1>3, <1>5, <2>1, <2>2 DEF Placed
  <2> QED
    BY <2>1, <2>3, <2>4 DEF Placed
<1> QED
  BY <1>4, <1>5

LEMMA ConcludePlaces ==
  ASSUME TypeOK, Control, Placed, NEW w \in Terminals, NEW r, runner[w] # "none",
         Conclude(w, job[w], r), UNCHANGED held
  PROVE  Placed'
<1>1. CASE Enqueue(job[w]) /\ RunEnds(w)
  BY <1>1, RunEndsPlaces DEF Conclude
<1>2. CASE BeginReport(w, job[w], "report") /\ UNCHANGED queue
  BY <1>2, PlacesFrame DEF Conclude, BeginReport, TypeOK
<1> QED
  BY <1>1, <1>2 DEF Conclude

\* Every action moves a task from one place to one place, or out of the pool
\* together with its answer.
LEMMA PlacesStep == TypeOK /\ Control /\ Placed /\ [Next]_vars => Placed'
<1> SUFFICES ASSUME TypeOK, Control, Placed, [Next]_vars PROVE Placed'
  OBVIOUS
<1> USE DEF vars, taskVars, queueVars, dispatchVars, runVars, workerVars, reapVars
<1>1. ASSUME UNCHANGED <<future, queue, held, job>> PROVE Placed'
  BY <1>1, PlacesFrame
<1>2. ASSUME NEW t \in Tasks, Submit(t) PROVE Placed'
  <2>1. future[t] = "new" /\ UNCHANGED <<held, job>>
    BY <1>2 DEF Submit
  <2>2. t \notin Queued(t.terminal) /\ held[t.terminal] # t /\ job[t.terminal] # t
    BY <2>1 DEF Placed
  <2>3. CASE UNCHANGED queue /\ \E a \in Answer : future' = [future EXCEPT ![t] = a]
    <3>1. \A v \in Terminals : Queued(v)' = Queued(v)
      BY <2>3 DEF Queued
    <3> QED
      BY <2>1, <2>2, <2>3, <3>1 DEF Placed, TypeOK, Answer
  <2>4. CASE Enqueue(t) /\ future' = [future EXCEPT ![t] = "waiting"]
    <3>1. /\ \A v \in Terminals : Queued(v)' = IF v = t.terminal THEN Queued(v) \cup {t} ELSE Queued(v)
          /\ \A v \in Terminals : \A e, f \in queue'[v] : e.task = f.task => e = f
      BY <2>2, <2>4, EnqueuePlaces
    <3>2. \A v \in Terminals : \A u \in Queued(v)' \cup {held'[v], job'[v]} : u # NoTask => u.terminal = v
      BY <2>1, <3>1 DEF Placed
    <3>3. ASSUME NEW u \in Tasks
          PROVE  LET v == u.terminal IN
                   /\ future'[u] = "waiting" <=> u \in Queued(v)' \/ held'[v] = u \/ job'[v] = u
                   /\ u \in Queued(v)' => held'[v] # u /\ job'[v] # u
                   /\ held'[v] = u => job'[v] # u
      <4>1. future'[u] = IF u = t THEN "waiting" ELSE future[u]
        BY <2>4 DEF TypeOK
      <4>2. /\ Queued(u.terminal)' = IF u.terminal = t.terminal THEN Queued(u.terminal) \cup {t}
                                                              ELSE Queued(u.terminal)
            /\ held'[u.terminal] = held[u.terminal] /\ job'[u.terminal] = job[u.terminal]
        BY <2>1, <3>1
      <4> QED
        BY <2>2, <4>1, <4>2 DEF Placed
    <3> QED
      BY <3>1, <3>2, <3>3 DEF Placed
  <2>5. \/ future' = [future EXCEPT ![t] = "shutdown"] /\ UNCHANGED queue
        \/ future' = [future EXCEPT ![t] = "refused"] /\ UNCHANGED queue
        \/ Enqueue(t) /\ future' = [future EXCEPT ![t] = "waiting"]
    BY <1>2 DEF Submit
  <2>6. "shutdown" \in Answer /\ "refused" \in Answer
    BY DEF Answer
  <2> QED
    BY <2>3, <2>4, <2>5, <2>6
<1>3. ASSUME NEW w \in Terminals, DispatchGet(w) PROVE Placed'
  <2> PICK e \in First(w) :
         /\ queue' = [queue EXCEPT ![w] = @ \ {e}]
         /\ \/ CreateTask(w, e.task)
            \/ held' = [held EXCEPT ![w] = e.task] /\ UNCHANGED job
    BY <1>3 DEF DispatchGet
  <2>1. e \in queue[w]
    BY DEF First
  <2>2. /\ \A v \in Terminals : Queued(v)' = IF v = w THEN Queued(v) \ {e.task} ELSE Queued(v)
        /\ \A v \in Terminals : \A f, g \in queue'[v] : f.task = g.task => f = g
        /\ e.task \in Tasks /\ e.task \in Queued(w) /\ e.task.terminal = w
    BY <2>1, DequeuePlaces
  <2>3. job[w] = NoTask /\ held[w] = NoTask /\ UNCHANGED future
    BY <1>3 DEF DispatchGet, Control
  <2>4. CASE CreateTask(w, e.task)
    <3>1. \A v \in Terminals : /\ held'[v] = held[v]
                               /\ job'[v] = IF v = w THEN e.task ELSE job[v]
      BY <2>3, <2>4 DEF CreateTask, TypeOK
    <3> QED
      BY <2>2, <2>3, <3>1 DEF Placed
  <2>5. CASE held' = [held EXCEPT ![w] = e.task] /\ UNCHANGED job
    <3>1. \A v \in Terminals : /\ job'[v] = job[v]
                               /\ held'[v] = IF v = w THEN e.task ELSE held[v]
      BY <2>5 DEF TypeOK
    <3> QED
      BY <2>2, <2>3, <3>1 DEF Placed
  <2> QED
    BY <2>4, <2>5
<1>4. ASSUME NEW w \in Terminals, DispatchHeld(w) PROVE Placed'
  <2>1. job[w] = NoTask /\ held[w] # NoTask /\ UNCHANGED <<future, queue>>
    BY <1>4 DEF DispatchHeld, Control
  <2>2. \A v \in Terminals : /\ held'[v] = IF v = w THEN NoTask ELSE held[v]
                             /\ job'[v] = IF v = w THEN held[w] ELSE job[v]
    BY <1>4 DEF DispatchHeld, CreateTask, TypeOK
  <2>3. \A v \in Terminals : Queued(v)' = Queued(v)
    BY <2>1 DEF Queued
  <2> QED
    BY <2>1, <2>2, <2>3 DEF Placed, TypeOK
<1>5. ASSUME NEW w \in Terminals, AnswerClosing(w) \/ Report(w) PROVE Placed'
  BY <1>5, RunEndsPlaces DEF AnswerClosing, Report, Answer
<1>6. ASSUME NEW w \in Terminals, AnswerOpen(w) PROVE Placed'
  <2>1. runner[w] # "none" /\ UNCHANGED held
    BY <1>6 DEF AnswerOpen
  <2>2. \/ UNCHANGED <<future, queue, job>>
        \/ Quarantine(w)
        \/ \E r : Conclude(w, job[w], r)
    BY <1>6 DEF AnswerOpen, AwaitRotation, AwaitRestart, KeepWorker
  <2>3. CASE Quarantine(w)
    BY <2>1, <2>3, <1>1 DEF Quarantine, BeginReport, TypeOK
  <2> QED
    BY <2>1, <2>2, <2>3, <1>1, ConcludePlaces
<1>7. ASSUME NEW w \in Terminals, RotateRaises(w) PROVE Placed'
  BY <1>1, <1>7 DEF RotateRaises, BeginReport, TypeOK
<1>8. ASSUME NEW w \in Terminals, TaskSpawnUp(w) \/ TaskGiveUp(w) PROVE Placed'
  BY <1>8, ConcludePlaces DEF TaskSpawnUp, TaskGiveUp
<1>9. ASSUME NEW w \in Terminals, Drain(w) PROVE Placed'
  <2>1. runner[w] # "none" /\ UNCHANGED held /\ Resolve({job[w]}, "quarantined")
    BY <1>9 DEF Drain
  <2>2. CASE RunEnds(w) /\ UNCHANGED queue
    BY <2>1, <2>2, RunEndsPlaces DEF Answer
  <2>3. ASSUME NEW e \in First(w), queue' = [queue EXCEPT ![w] = @ \ {e}],
               BeginReport(w, e.task, "drain")
        PROVE  Placed'
    <3>1. e \in queue[w]
      BY DEF First
    <3>2. /\ \A v \in Terminals : Queued(v)' = IF v = w THEN Queued(v) \ {e.task} ELSE Queued(v)
          /\ \A v \in Terminals : \A f, g \in queue'[v] : f.task = g.task => f = g
          /\ e.task \in Tasks /\ e.task \in Queued(w) /\ e.task.terminal = w
      BY <2>3, <3>1, DequeuePlaces
    <3>3. \A v \in Terminals : /\ job'[v] = IF v = w THEN e.task ELSE job[v]
                               /\ held'[v] = held[v]
      BY <2>1, <2>3 DEF BeginReport, TypeOK
    <3>4. job[w] \in Tasks /\ job[w].terminal = w /\ job[w] # e.task
      BY <2>1, <3>2, JobIsATask DEF Placed
    <3>5. future[job[w]] = "waiting"
      BY <3>4 DEF Placed
    <3>6. future' = [u \in Tasks |-> IF u = job[w] THEN "quarantined" ELSE future[u]]
      BY <2>1, <3>5 DEF Resolve, Answered, TypeOK
    <3> QED
      BY <3>2, <3>3, <3>4, <3>5, <3>6 DEF Placed
  <2> QED
    BY <1>9, <2>2, <2>3 DEF Drain
<1>10. ASSUME NEW w \in Terminals, CancelDispatcher(w) PROVE Placed'
  <2>1. UNCHANGED <<queue, job>> /\ Resolve({held[w]}, "shutdown")
    BY <1>10 DEF CancelDispatcher
  <2>2. \A v \in Terminals : held'[v] = IF v = w THEN NoTask ELSE held[v]
    BY <1>10 DEF CancelDispatcher, TypeOK
  <2>3. \A v \in Terminals : Queued(v)' = Queued(v)
    BY <2>1 DEF Queued
  <2>4. \A u \in Tasks : future'[u] = IF u = held[w] /\ future[u] = "waiting" THEN "shutdown" ELSE future[u]
    BY <2>1 DEF Resolve, Answered
  <2> QED
    BY <2>1, <2>2, <2>3, <2>4 DEF Placed, TypeOK
<1>11. ASSUME FinishStop PROVE Placed'
  <2>1. \A v \in Terminals : Queued(v)' = {} /\ queue'[v] = {}
    BY <1>11 DEF FinishStop, Queued
  <2>2. \A u \in Tasks : future'[u] = IF (\E v \in Terminals : u \in Queued(v)) /\ future[u] = "waiting"
                                      THEN "shutdown" ELSE future[u]
    BY <1>11 DEF FinishStop, Resolve, Answered
  <2>3. UNCHANGED <<held, job>>
    BY <1>11 DEF FinishStop
  <2>4. \A u \in Tasks : \A v \in Terminals : u \in Queued(v) => v = u.terminal
    BY DEF Placed
  <2> QED
    BY <2>1, <2>2, <2>3, <2>4 DEF Placed
<1>12. ASSUME NEW w \in Terminals,
              \/ DispatchReady(w) \/ DispatchNext(w) \/ Begin(w) \/ Rotated(w)
              \/ TaskSpawn(w) \/ TaskSpawnDown(w) \/ Reap(w)
       PROVE  Placed'
  BY <1>1, <1>12 DEF DispatchReady, DispatchNext, Begin, Rotated, TaskSpawn, TaskSpawnDown,
    Reap, Reproxy, Reproxied, Reclone, RecloneRaises, Rebuilt, HoldSource, ReleaseSource,
    ReapSpawn, ReapSpawnUp, ReapSpawnDown, ReapGiveUp
<1>13. ASSUME ReapBatch \/ BeginStop \/ CancelReaper \/ StopWorkers PROVE Placed'
  BY <1>1, <1>13 DEF ReapBatch, ReapFailed, RestartBatch, RestartDone, BeginStop, CancelReaper,
    StopWorkers
<1>14. ASSUME DrainTimeout PROVE Placed'
  <2>1. /\ UNCHANGED <<queue, held>> /\ \A v \in Terminals : job'[v] = NoTask
        /\ \A u \in Tasks : future'[u] = IF u \in Running THEN "abandoned" ELSE future[u]
    BY <1>14 DEF DrainTimeout
  <2>2. \A u \in Tasks : u \in Running <=> job[u.terminal] = u
    BY DEF Running, Placed
  <2>3. \A v \in Terminals : Queued(v)' = Queued(v)
    BY <2>1 DEF Queued
  <2>4. ASSUME NEW u \in Tasks
        PROVE  LET v == u.terminal IN
                 /\ future'[u] = "waiting" <=> u \in Queued(v)' \/ held'[v] = u \/ job'[v] = u
                 /\ u \in Queued(v)' => held'[v] # u /\ job'[v] # u
                 /\ held'[v] = u => job'[v] # u
    BY <2>1, <2>2, <2>3 DEF Placed
  <2> QED
    BY <2>1, <2>3, <2>4 DEF Placed
<1> QED
  BY <1>1, <1>2, <1>3, <1>4, <1>5, <1>6, <1>7, <1>8, <1>9, <1>10, <1>11, <1>12, <1>13, <1>14
     DEF Next, Serve, Stop, Dispatch, Run

-----------------------------------------------------------------------------
(* RegistryIsLive: a future leaves the registry in the step that resolves it *)

LEMMA ResolveRegistry ==
  ASSUME TypeOK, RegistryIsLive, NEW S, NEW answer \in Answer, Resolve(S, answer)
  PROVE  RegistryIsLive'
<1>1. /\ \A t \in Tasks : future'[t] = IF t \in S /\ future[t] = "waiting" THEN answer ELSE future[t]
      /\ \A a \in Accounts : pending'[a] = IF pending[a] \in S THEN NoTask ELSE pending[a]
      /\ answer \notin {"waiting", "abandoned"}
  BY DEF Resolve, Answered, Forget, Answer
<1>2. \A a \in Accounts : pending[a] \in Tasks \cup {NoTask}
  BY DEF TypeOK
<1>3. ASSUME NEW a \in Accounts, pending'[a] # NoTask
      PROVE  pending'[a].account = a /\ future'[pending'[a]] \in {"waiting", "abandoned"}
  BY <1>1, <1>2, <1>3 DEF RegistryIsLive, Unresolved
<1>4. ASSUME NEW t \in FromScheduler, future'[t] = "waiting"
      PROVE  pending'[t.account] = t
  <2>1. t \notin S /\ future[t] = "waiting"
    BY <1>1, <1>4
  <2> QED
    BY <1>1, <1>4, <2>1 DEF RegistryIsLive
<1> QED
  BY <1>3, <1>4 DEF RegistryIsLive, Unresolved

\* Nobody enters the registry but a submission, and the scheduler's only when
\* the account has no other future in it.
LEMMA RegistryStep == TypeOK /\ RegistryIsLive /\ [Next]_vars => RegistryIsLive'
<1> SUFFICES ASSUME TypeOK, RegistryIsLive, [Next]_vars PROVE RegistryIsLive'
  OBVIOUS
<1> USE DEF vars, taskVars, queueVars, dispatchVars, runVars, workerVars, reapVars
<1>1. ASSUME UNCHANGED <<future, pending>> PROVE RegistryIsLive'
  BY <1>1 DEF RegistryIsLive, Unresolved
<1>2. ASSUME NEW t \in Tasks, Submit(t) PROVE RegistryIsLive'
  <2>1. future[t] = "new" /\ (t \in FromScheduler => pending[t.account] = NoTask)
    BY <1>2 DEF Submit
  <2>2. \A a \in Accounts : pending[a] # t
    BY <2>1 DEF RegistryIsLive, Unresolved
  <2>3. ASSUME NEW a \in Answer, future' = [future EXCEPT ![t] = a], UNCHANGED pending
        PROVE  RegistryIsLive'
    <3>1. \A u \in Tasks : future'[u] = IF u = t THEN a ELSE future[u]
      BY <2>3 DEF TypeOK
    <3>2. a \notin {"waiting", "abandoned"} /\ \A b \in Accounts : pending[b] \in Tasks \cup {NoTask}
      BY DEF Answer, TypeOK
    <3> QED
      BY <2>1, <2>2, <2>3, <3>1, <3>2 DEF RegistryIsLive, Unresolved
  <2>4. ASSUME future' = [future EXCEPT ![t] = "waiting"],
               pending' = [pending EXCEPT ![t.account] = IF @ = NoTask THEN t ELSE @]
        PROVE  RegistryIsLive'
    <3>1. /\ \A u \in Tasks : future'[u] = IF u = t THEN "waiting" ELSE future[u]
          /\ \A b \in Accounts : pending'[b] = IF b = t.account /\ pending[b] = NoTask THEN t ELSE pending[b]
          /\ \A b \in Accounts : pending[b] \in Tasks \cup {NoTask}
      BY <2>4 DEF TypeOK
    <3>2. ASSUME NEW u \in FromScheduler, future'[u] = "waiting"
          PROVE  pending'[u.account] = u
      BY <2>1, <3>1, <3>2 DEF RegistryIsLive
    <3>3. ASSUME NEW b \in Accounts, pending'[b] # NoTask
          PROVE  pending'[b].account = b /\ future'[pending'[b]] \in {"waiting", "abandoned"}
      BY <3>1, <3>3 DEF RegistryIsLive, Unresolved
    <3> QED
      BY <3>2, <3>3 DEF RegistryIsLive, Unresolved
  <2>5. \/ future' = [future EXCEPT ![t] = "shutdown"] /\ UNCHANGED pending
        \/ future' = [future EXCEPT ![t] = "refused"] /\ UNCHANGED pending
        \/ /\ future' = [future EXCEPT ![t] = "waiting"]
           /\ pending' = [pending EXCEPT ![t.account] = IF @ = NoTask THEN t ELSE @]
    BY <1>2 DEF Submit
  <2> QED
    BY <2>3, <2>4, <2>5 DEF Answer
<1>3. ASSUME NEW w \in Terminals,
             \/ AnswerClosing(w) \/ Report(w) \/ Drain(w) \/ CancelDispatcher(w)
      PROVE  RegistryIsLive'
  BY <1>3, ResolveRegistry DEF AnswerClosing, Report, Drain, CancelDispatcher, Answer
<1>4. ASSUME FinishStop PROVE RegistryIsLive'
  BY <1>4, ResolveRegistry DEF FinishStop, Answer
<1>5. ASSUME NEW w \in Terminals, NEW r, Conclude(w, job[w], r) PROVE RegistryIsLive'
  BY <1>1, <1>5 DEF Conclude
<1>6. ASSUME NEW w \in Terminals, AnswerOpen(w) \/ TaskSpawnUp(w) \/ TaskGiveUp(w) PROVE RegistryIsLive'
  BY <1>1, <1>5, <1>6
     DEF AnswerOpen, TaskSpawnUp, TaskGiveUp, Quarantine, AwaitRotation, AwaitRestart, KeepWorker
<1>7. ASSUME NEW w \in Terminals,
             \/ DispatchReady(w) \/ DispatchNext(w) \/ DispatchGet(w) \/ DispatchHeld(w)
             \/ Begin(w) \/ Rotated(w) \/ RotateRaises(w) \/ TaskSpawn(w) \/ TaskSpawnDown(w) \/ Reap(w)
      PROVE  RegistryIsLive'
  BY <1>1, <1>7 DEF DispatchReady, DispatchNext, DispatchGet, DispatchHeld, Begin, Rotated,
    RotateRaises, TaskSpawn, TaskSpawnDown, Reap, Reproxy, Reproxied, Reclone, RecloneRaises,
    Rebuilt, HoldSource, ReleaseSource, ReapSpawn, ReapSpawnUp, ReapSpawnDown, ReapGiveUp
<1>8. ASSUME ReapBatch \/ BeginStop \/ CancelReaper \/ StopWorkers PROVE RegistryIsLive'
  BY <1>1, <1>8 DEF ReapBatch, ReapFailed, RestartBatch, RestartDone, BeginStop, CancelReaper,
    StopWorkers
<1>9. ASSUME DrainTimeout PROVE RegistryIsLive'
  <2>1. /\ UNCHANGED pending
        /\ \A t \in Tasks : future'[t] = IF t \in Running THEN "abandoned" ELSE future[t]
    BY <1>9 DEF DrainTimeout
  <2>2. \A a \in Accounts : pending[a] \in Tasks \cup {NoTask}
    BY DEF TypeOK
  <2> QED
    BY <2>1, <2>2 DEF RegistryIsLive, Unresolved
<1> QED
  BY <1>1, <1>2, <1>3, <1>4, <1>6, <1>7, <1>8, <1>9 DEF Next, Serve, Stop, Dispatch, Run

-----------------------------------------------------------------------------
(* ReportedOnce: on_result is awaited by the run that then resolves the     *)
(* future, and a task is on at most one run.                                *)

Reporting(w) == runner[w] \in {"report", "drain"}

LEMMA ReportedFrame ==
  ASSUME ReportedOnce, UNCHANGED <<future, reported>>,
         \A t \in Tasks : (job'[t.terminal] = t /\ Reporting(t.terminal)')
                            <=> (job[t.terminal] = t /\ Reporting(t.terminal))
  PROVE  ReportedOnce'
BY DEF ReportedOnce, Reporting

\* A run that ends without a report, or with the resolution its report is owed.
LEMMA RunEndsReported ==
  ASSUME TypeOK, Control, Placed, ReportedOnce, NEW w \in Terminals, runner[w] # "none",
         RunEnds(w), UNCHANGED reported,
         \/ ~Reporting(w) /\ UNCHANGED future
         \/ ~Reporting(w) /\ Resolve({job[w]}, "shutdown")
         \/ Reporting(w) /\ \E answer \in {"answered", "quarantined"} : Resolve({job[w]}, answer)
  PROVE  ReportedOnce'
<1>1. job[w] \in Tasks /\ job[w].terminal = w /\ future[job[w]] = "waiting"
  BY JobIsATask DEF Placed
<1>2. \A v \in Terminals : /\ job'[v] = IF v = w THEN NoTask ELSE job[v]
                           /\ runner'[v] = IF v = w THEN "none" ELSE runner[v]
  BY DEF RunEnds, TypeOK
<1>3. ASSUME ~Reporting(w), UNCHANGED future PROVE ReportedOnce'
  BY <1>2, <1>3, ReportedFrame DEF Reporting
<1>4. ASSUME NEW answer \in Answer, Resolve({job[w]}, answer),
             IF Reporting(w) THEN answer \in {"answered", "quarantined"} ELSE answer = "shutdown"
      PROVE  ReportedOnce'
  <2>1. \A t \in Tasks : future'[t] = IF t = job[w] THEN answer ELSE future[t]
    BY <1>1, <1>4 DEF Resolve, Answered
  <2>2. reported[job[w]] = IF Reporting(w) THEN 1 ELSE 0
    BY <1>1 DEF ReportedOnce, Reporting
  <2>3. ASSUME NEW t \in Tasks, t # job[w]
        PROVE  /\ future'[t] = "abandoned" => reported'[t] \in {0, 1}
               /\ future'[t] \in {"answered", "quarantined"} => reported'[t] = 1
               /\ future'[t] \in {"new", "shutdown", "refused"} => reported'[t] = 0
               /\ future'[t] = "waiting" =>
                    reported'[t] = IF job'[t.terminal] = t /\ runner'[t.terminal] \in {"report", "drain"}
                                   THEN 1 ELSE 0
    <3>1. t.terminal \in Terminals /\ t # NoTask
      OBVIOUS
    <3>2. (job'[t.terminal] = t /\ runner'[t.terminal] \in {"report", "drain"})
            <=> (job[t.terminal] = t /\ runner[t.terminal] \in {"report", "drain"})
      BY <1>2, <2>3, <3>1
    <3> QED
      BY <2>1, <2>3, <3>2 DEF ReportedOnce
  <2>4. /\ future'[job[w]] \in {"answered", "quarantined"} => reported'[job[w]] = 1
        /\ future'[job[w]] \in {"new", "shutdown", "refused"} => reported'[job[w]] = 0
        /\ future'[job[w]] \notin {"waiting", "abandoned"}
    BY <1>1, <1>4, <2>1, <2>2 DEF Answer
  <2> QED
    BY <2>3, <2>4 DEF ReportedOnce
<1> QED
  BY <1>3, <1>4 DEF Answer

\* A report begins for the task of the run, once.
LEMMA BeginReportReported ==
  ASSUME TypeOK, Control, Placed, ReportedOnce, NEW w \in Terminals, runner[w] # "none",
         ~Reporting(w), NEW p \in {"report", "drain"}, BeginReport(w, job[w], p), UNCHANGED future
  PROVE  ReportedOnce'
<1>1. job[w] \in Tasks /\ job[w].terminal = w /\ future[job[w]] = "waiting"
  BY JobIsATask DEF Placed
<1>2. /\ \A v \in Terminals : /\ job'[v] = job[v]
                              /\ runner'[v] = IF v = w THEN p ELSE runner[v]
      /\ \A t \in Tasks : reported'[t] = IF t = job[w] THEN reported[t] + 1 ELSE reported[t]
  BY <1>1 DEF BeginReport, TypeOK
<1>3. reported[job[w]] = 0
  BY <1>1 DEF ReportedOnce, Reporting
<1>4. \A t \in Tasks : t # job[w] => ((job'[t.terminal] = t /\ runner'[t.terminal] \in {"report", "drain"})
                                       <=> (job[t.terminal] = t /\ runner[t.terminal] \in {"report", "drain"}))
  BY <1>2
<1>5. ASSUME NEW t \in Tasks, t # job[w]
      PROVE  /\ future'[t] = "abandoned" => reported'[t] \in {0, 1}
             /\ future'[t] \in {"answered", "quarantined"} => reported'[t] = 1
             /\ future'[t] \in {"new", "shutdown", "refused"} => reported'[t] = 0
             /\ future'[t] = "waiting" =>
                  reported'[t] = IF job'[t.terminal] = t /\ runner'[t.terminal] \in {"report", "drain"}
                                 THEN 1 ELSE 0
  BY <1>2, <1>4, <1>5 DEF ReportedOnce
<1>6. reported'[job[w]] = 1 /\ future'[job[w]] = "waiting" /\ job'[w] = job[w] /\ runner'[w] = p
  BY <1>1, <1>2, <1>3
<1> QED
  BY <1>1, <1>5, <1>6 DEF ReportedOnce

LEMMA ConcludeReported ==
  ASSUME TypeOK, Control, Placed, ReportedOnce, NEW w \in Terminals, NEW r, runner[w] # "none",
         ~Reporting(w), Conclude(w, job[w], r)
  PROVE  ReportedOnce'
<1>1. CASE RunEnds(w) /\ UNCHANGED <<future, reported>>
  BY <1>1, RunEndsReported
<1>2. CASE BeginReport(w, job[w], "report") /\ UNCHANGED future
  BY <1>2, BeginReportReported
<1> QED
  BY <1>1, <1>2 DEF Conclude

\* A task whose future is resolved without a report was on no run.
LEMMA ShutdownReported ==
  ASSUME ReportedOnce, Placed, NEW S, Resolve(S, "shutdown"),
         UNCHANGED <<reported, job, runner>>,
         \A t \in Tasks : t \in S => job[t.terminal] # t
  PROVE  ReportedOnce'
<1>1. \A t \in Tasks : future'[t] = IF t \in S /\ future[t] = "waiting" THEN "shutdown" ELSE future[t]
  BY DEF Resolve, Answered
<1> QED
  BY <1>1 DEF ReportedOnce

LEMMA ReportedStep == TypeOK /\ Control /\ Placed /\ ReportedOnce /\ [Next]_vars => ReportedOnce'
<1> SUFFICES ASSUME TypeOK, Control, Placed, ReportedOnce, [Next]_vars PROVE ReportedOnce'
  OBVIOUS
<1> USE DEF vars, taskVars, queueVars, dispatchVars, runVars, workerVars, reapVars
<1>1. ASSUME UNCHANGED <<future, reported, job, runner>> PROVE ReportedOnce'
  BY <1>1 DEF ReportedOnce
<1>2. ASSUME NEW t \in Tasks, Submit(t) PROVE ReportedOnce'
  <2>1. future[t] = "new" /\ UNCHANGED <<reported, job, runner>>
    BY <1>2 DEF Submit
  <2>2. job[t.terminal] # t /\ reported[t] = 0
    BY <2>1 DEF Placed, ReportedOnce
  <2>3. \E a \in {"waiting", "shutdown", "refused"} : future' = [future EXCEPT ![t] = a]
    BY <1>2 DEF Submit
  <2>4. PICK a \in {"waiting", "shutdown", "refused"} :
          \A u \in Tasks : future'[u] = IF u = t THEN a ELSE future[u]
    BY <2>3 DEF TypeOK
  <2> QED
    BY <2>1, <2>2, <2>4 DEF ReportedOnce
<1>3. ASSUME NEW w \in Terminals, NEW t \in Tasks, CreateTask(w, t), job[w] = NoTask, runner[w] = "none",
             UNCHANGED <<future, reported>>
      PROVE  ReportedOnce'
  <2>1. \A v \in Terminals : /\ job'[v] = IF v = w THEN t ELSE job[v]
                             /\ runner'[v] = IF v = w THEN "created" ELSE runner[v]
    BY <1>3 DEF CreateTask, TypeOK
  <2> QED
    BY <1>3, <2>1, ReportedFrame DEF Reporting
<1>4. ASSUME NEW w \in Terminals, DispatchGet(w) PROVE ReportedOnce'
  <2>1. job[w] = NoTask /\ runner[w] = "none" /\ UNCHANGED <<future, reported>>
    BY <1>4 DEF DispatchGet, Control
  <2>2. \/ \E e \in queue[w] : CreateTask(w, e.task) /\ e.task \in Tasks
        \/ UNCHANGED <<job, runner>>
    BY <1>4 DEF DispatchGet, First, TypeOK
  <2> QED
    BY <1>1, <1>3, <2>1, <2>2
<1>5. ASSUME NEW w \in Terminals, DispatchHeld(w) PROVE ReportedOnce'
  <2>1. job[w] = NoTask /\ runner[w] = "none" /\ held[w] \in Tasks /\ UNCHANGED <<future, reported>>
    BY <1>5 DEF DispatchHeld, Control, TypeOK
  <2> QED
    BY <1>3, <1>5, <2>1 DEF DispatchHeld
<1>6. ASSUME NEW w \in Terminals, runner[w] \in {"created", "roundtrip", "rotate", "ladder"},
             UNCHANGED <<future, reported, job>>,
             \E p \in {"roundtrip", "rotate", "ladder"} : runner' = [runner EXCEPT ![w] = p]
      PROVE  ReportedOnce'
  <2>1. \A v \in Terminals : Reporting(v)' <=> Reporting(v)
    BY <1>6 DEF Reporting, TypeOK
  <2> QED
    BY <1>6, <2>1, ReportedFrame
<1>7. ASSUME NEW w \in Terminals, Begin(w) \/ Rotated(w) PROVE ReportedOnce'
  BY <1>6, <1>7 DEF Begin, Rotated
<1>8. ASSUME NEW w \in Terminals, AnswerClosing(w) PROVE ReportedOnce'
  BY <1>8, RunEndsReported DEF AnswerClosing, Reporting
<1>9. ASSUME NEW w \in Terminals, AnswerOpen(w) PROVE ReportedOnce'
  <2>1. runner[w] = "roundtrip"
    BY <1>9 DEF AnswerOpen
  <2>2. \/ Quarantine(w)
        \/ \E r : AwaitRotation(w, r) \/ AwaitRestart(w, r)
        \/ \E r : Conclude(w, job[w], r)
    BY <1>9 DEF AnswerOpen, KeepWorker
  <2>3. CASE Quarantine(w)
    BY <2>1, <2>3, BeginReportReported DEF Quarantine, Reporting
  <2>4. CASE \E r : AwaitRotation(w, r) \/ AwaitRestart(w, r)
    BY <1>6, <2>1, <2>4 DEF AwaitRotation, AwaitRestart
  <2>5. CASE \E r : Conclude(w, job[w], r)
    BY <2>1, <2>5, ConcludeReported DEF Reporting
  <2> QED
    BY <2>2, <2>3, <2>4, <2>5
<1>10. ASSUME NEW w \in Terminals, RotateRaises(w) PROVE ReportedOnce'
  BY <1>10, BeginReportReported DEF RotateRaises, Reporting
<1>11. ASSUME NEW w \in Terminals, TaskSpawnUp(w) \/ TaskGiveUp(w) PROVE ReportedOnce'
  BY <1>11, ConcludeReported DEF TaskSpawnUp, TaskGiveUp, Reporting
<1>12. ASSUME NEW w \in Terminals, Report(w) PROVE ReportedOnce'
  BY <1>12, RunEndsReported DEF Report, Reporting
<1>13. ASSUME NEW w \in Terminals, Drain(w) PROVE ReportedOnce'
  <2>1. runner[w] = "drain" /\ Resolve({job[w]}, "quarantined")
    BY <1>13 DEF Drain
  <2>2. job[w] \in Tasks /\ job[w].terminal = w /\ future[job[w]] = "waiting"
    BY <2>1, JobIsATask DEF Placed
  <2>3. CASE RunEnds(w) /\ UNCHANGED reported
    BY <2>1, <2>3, RunEndsReported DEF Reporting
  <2>4. ASSUME NEW e \in queue[w], BeginReport(w, e.task, "drain") PROVE ReportedOnce'
    <3>1. e.task \in Tasks /\ e.task \in Queued(w)
      BY DEF TypeOK, Queued
    <3>2. e.task.terminal = w /\ e.task # job[w] /\ future[e.task] = "waiting"
      BY <2>2, <3>1 DEF Placed
    <3>3. reported[e.task] = 0 /\ reported[job[w]] = 1
      BY <2>1, <2>2, <3>1, <3>2 DEF ReportedOnce
    <3>4. /\ \A v \in Terminals : /\ job'[v] = IF v = w THEN e.task ELSE job[v]
                                  /\ runner'[v] = runner[v]
          /\ \A t \in Tasks : reported'[t] = IF t = e.task THEN reported[t] + 1 ELSE reported[t]
          /\ \A t \in Tasks : future'[t] = IF t = job[w] THEN "quarantined" ELSE future[t]
      BY <2>1, <2>2, <2>4, <3>1 DEF BeginReport, TypeOK, Resolve, Answered
    <3>5. ASSUME NEW t \in Tasks, t # job[w], t # e.task
          PROVE  /\ future'[t] = future[t] /\ reported'[t] = reported[t] /\ t.terminal \in Terminals
                 /\ job'[t.terminal] = t <=> job[t.terminal] = t
                 /\ runner'[t.terminal] = runner[t.terminal]
      BY <3>4, <3>5
    <3>6. /\ future'[e.task] = "waiting" /\ reported'[e.task] = 1
          /\ job'[w] = e.task /\ runner'[w] = "drain"
      BY <2>1, <3>1, <3>2, <3>3, <3>4
    <3>7. future'[job[w]] = "quarantined" /\ reported'[job[w]] = 1
      BY <2>2, <3>2, <3>3, <3>4
    <3> QED
      BY <3>2, <3>5, <3>6, <3>7 DEF ReportedOnce
  <2> QED
    BY <1>13, <2>3, <2>4 DEF Drain, First
<1>14. ASSUME NEW w \in Terminals, CancelDispatcher(w) PROVE ReportedOnce'
  BY <1>14, ShutdownReported DEF CancelDispatcher, Placed
<1>15. ASSUME FinishStop PROVE ReportedOnce'
  <2>1. \A t \in Tasks : t \in UNION {Queued(w) : w \in Terminals} => job[t.terminal] # t
    BY DEF Placed
  <2> QED
    BY <1>15, <2>1, ShutdownReported DEF FinishStop
<1>16. ASSUME NEW w \in Terminals,
              \/ DispatchReady(w) \/ DispatchNext(w) \/ TaskSpawn(w) \/ TaskSpawnDown(w) \/ Reap(w)
       PROVE  ReportedOnce'
  BY <1>1, <1>16 DEF DispatchReady, DispatchNext, TaskSpawn, TaskSpawnDown, Reap, Reproxy,
    Reproxied, Reclone, RecloneRaises, Rebuilt, HoldSource, ReleaseSource, ReapSpawn, ReapSpawnUp,
    ReapSpawnDown, ReapGiveUp
<1>17. ASSUME ReapBatch \/ BeginStop \/ CancelReaper \/ StopWorkers PROVE ReportedOnce'
  BY <1>1, <1>17 DEF ReapBatch, ReapFailed, RestartBatch, RestartDone, BeginStop, CancelReaper,
    StopWorkers
<1>18. ASSUME DrainTimeout PROVE ReportedOnce'
  <2>1. /\ UNCHANGED reported /\ \A v \in Terminals : job'[v] = NoTask
        /\ \A t \in Tasks : future'[t] = IF t \in Running THEN "abandoned" ELSE future[t]
    BY <1>18 DEF DrainTimeout
  <2>2. \A t \in Tasks : t \in Running <=> job[t.terminal] = t
    BY DEF Running, Placed
  <2>3. ASSUME NEW t \in Tasks, t \in Running PROVE reported[t] \in {0, 1}
    BY <2>2, <2>3 DEF ReportedOnce, Placed
  <2>4. ASSUME NEW t \in Tasks, t \notin Running, future[t] = "waiting" PROVE reported[t] = 0
    BY <2>2, <2>4 DEF ReportedOnce
  <2>5. \A t \in Tasks : job'[t.terminal] # t
    BY <2>1
  <2> QED
    BY <2>1, <2>3, <2>4, <2>5 DEF ReportedOnce
<1> QED
  BY <1>1, <1>2, <1>4, <1>5, <1>7, <1>8, <1>9, <1>10, <1>11, <1>12, <1>13, <1>14, <1>15, <1>16,
     <1>17, <1>18 DEF Next, Serve, Stop, Dispatch, Run

-----------------------------------------------------------------------------
(* The promise of SyncTasks.  A step resolves futures or adds to reported,   *)
(* not both for one task; with ReportedOnce before and after it, that is a   *)
(* step of SyncTasks.                                                        *)

Settles(t) ==
  \/ future[t] = "new" /\ future'[t] \in {"waiting", "shutdown", "refused"}
  \/ future[t] = "waiting" /\ future'[t] \in {"answered", "quarantined", "shutdown"}

CutOff(t) == DrainTimeout /\ future[t] = "waiting" /\ future'[t] = "abandoned"

Moves(t) ==
  \/ future'[t] = future[t] /\ reported'[t] \in {reported[t], reported[t] + 1}
  \/ (Settles(t) \/ CutOff(t)) /\ reported'[t] = reported[t]

\* A future is resolved once, whatever else the step does.
LEMMA ResolveMoves ==
  ASSUME NEW S, NEW answer \in {"answered", "quarantined", "shutdown"}, Resolve(S, answer),
         NEW t \in Tasks, reported'[t] = reported[t]
  PROVE  Moves(t)
BY DEF Resolve, Answered, Settles, Moves

LEMMA BeginReportMoves ==
  ASSUME TypeOK, NEW w, NEW u \in Tasks, NEW p, BeginReport(w, u, p), UNCHANGED future, NEW t \in Tasks
  PROVE  Moves(t)
BY DEF TypeOK, BeginReport, Moves

LEMMA ConcludeMoves ==
  ASSUME TypeOK, NEW w, NEW u \in Tasks, NEW r, Conclude(w, u, r), NEW t \in Tasks
  PROVE  Moves(t)
<1>1. CASE UNCHANGED <<future, reported>>
  BY <1>1 DEF Moves
<1>2. CASE BeginReport(w, u, "report") /\ UNCHANGED future
  BY <1>2, BeginReportMoves
<1> QED
  BY <1>1, <1>2 DEF Conclude

\* The drain resolves one task and reports another.
LEMMA DrainMoves ==
  ASSUME TypeOK, Control, Placed, NEW w \in Terminals, Drain(w), NEW t \in Tasks
  PROVE  Moves(t)
<1>1. runner[w] = "drain" /\ Resolve({job[w]}, "quarantined")
  BY DEF Drain
<1>2. CASE UNCHANGED reported
  BY <1>1, <1>2, ResolveMoves
<1>3. ASSUME NEW e \in queue[w], BeginReport(w, e.task, "drain") PROVE Moves(t)
  <2>1. job[w] \in Tasks /\ job[w].terminal = w
    BY <1>1, JobIsATask DEF Placed
  <2>2. e.task \in Tasks /\ e.task \in Queued(w)
    BY DEF TypeOK, Queued
  <2>3. e.task.terminal = w /\ e.task # job[w]
    BY <2>1, <2>2 DEF Placed
  <2>4. reported'[t] = IF t = e.task THEN reported[t] + 1 ELSE reported[t]
    BY <1>3, <2>2 DEF BeginReport, TypeOK
  <2>5. CASE t = e.task
    <3>1. future'[t] = future[t]
      BY <1>1, <2>3, <2>5 DEF Resolve, Answered
    <3> QED
      BY <2>4, <2>5, <3>1 DEF Moves
  <2>6. CASE t # e.task
    BY <1>1, <2>4, <2>6, ResolveMoves
  <2> QED
    BY <2>5, <2>6
<1> QED
  BY <1>2, <1>3 DEF Drain, First

\* The service itself does not stop the pool.
LEMMA ServeKeepsStopping ==
  ASSUME NEW w \in Terminals, Dispatch(w) \/ Run(w) \/ Reap(w)
  PROVE  UNCHANGED stopping
<1>1. CASE Dispatch(w)
  BY <1>1 DEF Dispatch, DispatchReady, DispatchGet, DispatchHeld, DispatchNext
<1>2. CASE Run(w)
  BY <1>2 DEF Run, Begin, AnswerClosing, AnswerOpen, Rotated, RotateRaises, TaskSpawn, TaskSpawnUp,
    TaskSpawnDown, TaskGiveUp, Report, Drain
<1>3. CASE Reap(w)
  BY <1>3 DEF Reap, Reproxy, Reproxied, Reclone, RecloneRaises, Rebuilt, HoldSource, ReleaseSource,
    ReapSpawn, ReapSpawnUp, ReapSpawnDown, ReapGiveUp
<1> QED
  BY <1>1, <1>2, <1>3

LEMMA FutureStep ==
  ASSUME TypeOK, Control, Placed, [Next]_vars, NEW t \in Tasks
  PROVE  Moves(t)
<1> USE DEF vars, taskVars, queueVars, dispatchVars, runVars, workerVars, reapVars
<1>1. ASSUME UNCHANGED <<future, reported>> PROVE Moves(t)
  BY <1>1 DEF Moves
<1>2. ASSUME NEW u \in Tasks, Submit(u) PROVE Moves(t)
  <2>1. future[u] = "new" /\ UNCHANGED reported
    BY <1>2 DEF Submit
  <2>2. PICK a \in {"waiting", "shutdown", "refused"} : future' = [future EXCEPT ![u] = a]
    BY <1>2 DEF Submit
  <2>3. future'[t] = IF t = u THEN a ELSE future[t]
    BY <2>2 DEF TypeOK
  <2> QED
    BY <2>1, <2>3 DEF Moves, Settles
<1>3. ASSUME NEW w \in Terminals, Dispatch(w) PROVE Moves(t)
  BY <1>1, <1>3 DEF Dispatch, DispatchReady, DispatchGet, DispatchHeld, DispatchNext
<1>4. ASSUME NEW w \in Terminals, Begin(w) \/ Rotated(w) \/ TaskSpawn(w) \/ TaskSpawnDown(w)
      PROVE  Moves(t)
  BY <1>1, <1>4 DEF Begin, Rotated, TaskSpawn, TaskSpawnDown
<1>5. ASSUME NEW w \in Terminals, AnswerClosing(w) \/ Report(w) PROVE Moves(t)
  BY <1>5, ResolveMoves DEF AnswerClosing, Report
<1>6. ASSUME NEW w \in Terminals, AnswerOpen(w) PROVE Moves(t)
  <2>1. job[w] \in Tasks
    BY <1>6, JobIsATask DEF AnswerOpen
  <2>2. \/ BeginReport(w, job[w], "drain") /\ UNCHANGED future
        \/ UNCHANGED <<future, reported>>
        \/ \E r : Conclude(w, job[w], r)
    BY <1>6 DEF AnswerOpen, Quarantine, AwaitRotation, AwaitRestart, KeepWorker
  <2> QED
    BY <1>1, <2>1, <2>2, BeginReportMoves, ConcludeMoves
<1>7. ASSUME NEW w \in Terminals, RotateRaises(w) \/ TaskSpawnUp(w) \/ TaskGiveUp(w) PROVE Moves(t)
  <2>1. job[w] \in Tasks
    BY <1>7, JobIsATask DEF RotateRaises, TaskSpawnUp, TaskGiveUp
  <2> QED
    BY <1>7, <2>1, BeginReportMoves, ConcludeMoves DEF RotateRaises, TaskSpawnUp, TaskGiveUp
<1>8. ASSUME NEW w \in Terminals, Drain(w) PROVE Moves(t)
  BY <1>8, DrainMoves
<1>9. ASSUME NEW w \in Terminals, Reap(w) PROVE Moves(t)
  BY <1>1, <1>9 DEF Reap, Reproxy, Reproxied, Reclone, RecloneRaises, Rebuilt, HoldSource,
    ReleaseSource, ReapSpawn, ReapSpawnUp, ReapSpawnDown, ReapGiveUp
<1>10. ASSUME ReapBatch \/ BeginStop \/ CancelReaper \/ StopWorkers PROVE Moves(t)
  BY <1>1, <1>10 DEF ReapBatch, ReapFailed, RestartBatch, RestartDone, BeginStop, CancelReaper,
    StopWorkers
<1>11. ASSUME FinishStop \/ \E w \in Terminals : CancelDispatcher(w) PROVE Moves(t)
  BY <1>11, ResolveMoves DEF FinishStop, CancelDispatcher
<1>12. ASSUME DrainTimeout PROVE Moves(t)
  <2>1. /\ UNCHANGED reported
        /\ future'[t] = IF t \in Running THEN "abandoned" ELSE future[t]
    BY <1>12 DEF DrainTimeout
  <2>2. t \in Running => future[t] = "waiting"
    BY DEF Running, Placed
  <2> QED
    BY <1>12, <2>1, <2>2 DEF Moves, CutOff
<1> QED
  BY <1>1, <1>2, <1>3, <1>4, <1>5, <1>6, <1>7, <1>8, <1>9, <1>10, <1>11, <1>12
     DEF Next, Serve, Stop, Run

\* Once stop() has terminated the workers it only goes on to its end, and nobody
\* but the timeout of its drain leaves a future alone.
LEMMA StopStep ==
  [Next]_vars => /\ stopping \in {"drain", "stopped"} => stopping' \in {"drain", "stopped"}
                 /\ stopping = "drain" => stopping' = "drain" \/ FinishStop
<1> SUFFICES ASSUME [Next]_vars, stopping \in {"drain", "stopped"}
             PROVE  stopping' = stopping \/ (FinishStop /\ stopping' = "stopped")
  OBVIOUS
<1> USE DEF vars, dispatchVars, reapVars, workerVars
<1>1. ASSUME NEW t \in Tasks, Submit(t) PROVE UNCHANGED stopping
  BY <1>1 DEF Submit
<1>2. ASSUME NEW w \in Terminals, Dispatch(w) \/ Run(w) \/ Reap(w) PROVE UNCHANGED stopping
  BY <1>2, ServeKeepsStopping
<1>3. ASSUME ReapBatch \/ DrainTimeout \/ UNCHANGED vars PROVE UNCHANGED stopping
  BY <1>3 DEF ReapBatch, ReapFailed, RestartBatch, RestartDone, DrainTimeout
<1>4. ~BeginStop /\ ~CancelReaper /\ ~StopWorkers
  BY DEF BeginStop, CancelReaper, StopWorkers
<1>5. ASSUME NEW w \in Terminals PROVE ~CancelDispatcher(w)
  BY DEF CancelDispatcher
<1>6. FinishStop => stopping' = "stopped"
  BY DEF FinishStop
<1> QED
  BY <1>1, <1>2, <1>3, <1>4, <1>5, <1>6 DEF Next, Serve, Stop

LEMMA AbandonStep ==
  TypeOK /\ Control /\ Placed /\ OnlyStopAbandons /\ [Next]_vars => OnlyStopAbandons'
<1> SUFFICES ASSUME TypeOK, Control, Placed, OnlyStopAbandons, [Next]_vars,
                    NEW t \in Tasks, future'[t] = "abandoned"
             PROVE  stopping' \in {"drain", "stopped"}
  BY DEF OnlyStopAbandons
<1>1. future[t] = "abandoned" \/ DrainTimeout
  BY FutureStep DEF Moves, Settles, CutOff
<1> QED
  BY <1>1, StopStep DEF OnlyStopAbandons, DrainTimeout

LEMMA OverStep == DispatchersOver /\ [Next]_vars => DispatchersOver'
<1> SUFFICES ASSUME DispatchersOver, [Next]_vars PROVE DispatchersOver'
  OBVIOUS
<1> USE DEF vars, dispatchVars, reapVars, workerVars
<1>1. ASSUME stopping' \in {stopping, "cancel"}, UNCHANGED dispatcher PROVE DispatchersOver'
  BY <1>1 DEF DispatchersOver
<1>2. ASSUME NEW t \in Tasks, Submit(t) PROVE DispatchersOver'
  BY <1>1, <1>2 DEF Submit
<1>3. ASSUME NEW w \in Terminals, Dispatch(w) PROVE DispatchersOver'
  <2>1. dispatcher[w] # "over" /\ UNCHANGED stopping
    BY <1>3 DEF Dispatch, DispatchReady, DispatchGet, DispatchHeld, DispatchNext
  <2> QED
    BY <2>1 DEF DispatchersOver
<1>4. ASSUME NEW w \in Terminals, Run(w) PROVE DispatchersOver'
  BY <1>1, <1>4 DEF Run, Begin, AnswerClosing, AnswerOpen, Rotated, RotateRaises, TaskSpawn, TaskSpawnUp,
    TaskSpawnDown, TaskGiveUp, Report, Drain
<1>5. ASSUME NEW w \in Terminals, Reap(w) PROVE DispatchersOver'
  BY <1>1, <1>5 DEF Reap, Reproxy, Reproxied, Reclone, RecloneRaises, Rebuilt, HoldSource, ReleaseSource,
    ReapSpawn, ReapSpawnUp, ReapSpawnDown, ReapGiveUp
<1>6. ASSUME ReapBatch \/ BeginStop \/ DrainTimeout \/ UNCHANGED vars PROVE DispatchersOver'
  BY <1>1, <1>6 DEF ReapBatch, ReapFailed, RestartBatch, RestartDone, BeginStop, DrainTimeout
<1>7. ASSUME StopWorkers \/ FinishStop PROVE DispatchersOver'
  BY <1>7 DEF StopWorkers, FinishStop, DispatchersOver
<1>8. ASSUME CancelReaper PROVE DispatchersOver'
  BY <1>8 DEF CancelReaper, DispatchersOver
<1>9. ASSUME NEW w \in Terminals, CancelDispatcher(w) PROVE DispatchersOver'
  BY <1>9 DEF CancelDispatcher, DispatchersOver
<1> QED
  BY <1>2, <1>3, <1>4, <1>5, <1>6, <1>7, <1>8, <1>9 DEF Next, Serve, Stop

LEMMA PhaseType == ASSUME TypeOK, ReportedOnce, NEW t \in Tasks PROVE Phase(t) \in Promise!Phase
BY DEF TypeOK, Answer, ReportedOnce, Phase, Unresolved, Promise!Phase

LEMMA PhaseStep ==
  ASSUME TypeOK, TypeOK', ReportedOnce, ReportedOnce', NEW t \in Tasks, Moves(t)
  PROVE  Phase(t)' = Phase(t) \/ <<Phase(t), Phase(t)'>> \in Promise!Ways
<1>1. reported[t] \in Nat /\ reported'[t] \in Nat /\ future[t] \in {"new", "waiting", "abandoned"} \cup Answer
  BY DEF TypeOK
<1>2. CASE future'[t] = future[t] /\ reported'[t] = reported[t]
  BY <1>2 DEF Phase, Unresolved
<1>3. CASE future'[t] = future[t] /\ reported'[t] = reported[t] + 1
  <2>1. Unresolved(t) /\ reported[t] = 0 /\ reported'[t] = 1
    BY <1>1, <1>3 DEF ReportedOnce, Answer, Unresolved
  <2> QED
    BY <1>3, <2>1 DEF Phase, Unresolved, Promise!Ways
<1>4. CASE Settles(t) /\ reported'[t] = reported[t]
  <2>1. CASE future[t] = "new"
    <3>1. reported[t] = 0
      BY <2>1 DEF ReportedOnce
    <3> QED
      BY <1>4, <2>1, <3>1 DEF Settles, Phase, Unresolved, Promise!Ways
  <2>2. CASE future[t] = "waiting" /\ future'[t] \in {"answered", "quarantined"}
    <3>1. reported[t] = 1
      BY <1>4, <2>2 DEF ReportedOnce
    <3> QED
      BY <2>2, <3>1 DEF Phase, Unresolved, Promise!Ways
  <2>3. CASE future[t] = "waiting" /\ future'[t] = "shutdown"
    <3>1. reported[t] = 0
      BY <1>4, <2>3 DEF ReportedOnce
    <3> QED
      BY <2>3, <3>1 DEF Phase, Unresolved, Promise!Ways
  <2> QED
    BY <1>4, <2>1, <2>2, <2>3 DEF Settles
<1>5. CASE CutOff(t) /\ reported'[t] = reported[t]
  <2>1. reported[t] \in {0, 1}
    BY <1>5 DEF CutOff, ReportedOnce
  <2> QED
    BY <1>5, <2>1 DEF CutOff, Phase, Unresolved
<1> QED
  BY <1>2, <1>3, <1>4, <1>5 DEF Moves

-----------------------------------------------------------------------------
(* The theorems *)

LEMMA PoolInit == Init => PoolInv
<1> SUFFICES ASSUME Init PROVE PoolInv
  OBVIOUS
<1>1. TypeOK
  <2>1. spent \in [Tasks -> Spent] /\ outcome \in [Terminals -> Outcome]
    BY NoOutcomeType DEF Init, NoSpend, Spent
  <2>2. proxied \in [Terminals -> BOOLEAN] /\ ready \in [Terminals -> BOOLEAN]
    BY DEF Init
  <2>3. taskLadder \in [Terminals -> Ladder] /\ reapLadder \in [Terminals -> Ladder]
    BY LadderType DEF Init
  <2>4. health \in [Terminals -> Lifecycle!TerminalState]
    BY DEF Init, Lifecycle!Init, Lifecycle!TerminalState
  <2>5. state \in [Terminals -> {"starting", "idle", "busy", "restarting", "failed", "stopped"}]
    BY DEF Init
  <2>6. queue \in [Terminals -> SUBSET [priority : {0, 1}, number : Nat, task : Tasks]]
    BY DEF Init
  <2>7. reaper \in [duty : {"sleep", "reproxy", "reproxyRestart", "reclone", "recloneRestart",
                           "refresh", "restart", "over"}, todo : SUBSET Terminals]
    BY DEF Init
  <2> QED
    BY <2>1, <2>2, <2>3, <2>4, <2>5, <2>6, <2>7 DEF Init, TypeOK
<1>2. Control
  BY DEF Init, Control
<1>3. \A w \in Terminals : Queued(w) = {}
  BY DEF Init, Queued
<1>4. Placed
  BY <1>3 DEF Init, Placed
<1>5. RegistryIsLive /\ ReportedOnce /\ OnlyStopAbandons /\ DispatchersOver
  BY DEF Init, RegistryIsLive, ReportedOnce, OnlyStopAbandons, DispatchersOver
<1> QED
  BY <1>1, <1>2, <1>4, <1>5 DEF PoolInv

LEMMA PoolStep == PoolInv /\ [Next]_vars => PoolInv'
BY TypeStep, ControlStep, PlacesStep, AbandonStep, OverStep, RegistryStep, ReportedStep DEF PoolInv

LEMMA PoolInvariant == Spec => []PoolInv
BY PoolInit, PoolStep, PTL DEF Spec

\* Every variable of the pool keeps the range the code gives it.
THEOREM TypeCorrect == Spec => []TypeOK
<1>1. PoolInv => TypeOK
  BY DEF PoolInv
<1> QED
  BY <1>1, PoolInvariant, PTL

\* An accepted task is in exactly one place of its own terminal until its
\* future is resolved: _enqueue, the dispatcher's item, _execute, the drain,
\* the cancelled dispatcher and stop() hand it on and never lose or copy it, but
\* for the runs that the timeout of stop()'s drain cancels.
THEOREM TasksStayInOnePlace == Spec => []OnePlace
<1>1. PoolInv => OnePlace
  BY DEF PoolInv, OnePlace
<1> QED
  BY <1>1, PoolInvariant, PTL

\* The registry of pending futures holds live futures of its accounts only, and
\* the scheduler's sync in progress is always found in it, whatever clients submit.
THEOREM RegistryStaysLive == Spec => []RegistryIsLive
<1>1. PoolInv => RegistryIsLive
  BY DEF PoolInv
<1> QED
  BY <1>1, PoolInvariant, PTL

\* on_result is called once for every task that is answered, before its future
\* is resolved, and never for one that is refused or answered by stop().
THEOREM ReportsAreOnce == Spec => []ReportedOnce
<1>1. PoolInv => ReportedOnce
  BY DEF PoolInv
<1> QED
  BY <1>1, PoolInvariant, PTL

\* The pool implements SyncTasks: a result reaches the database once and before
\* its waiters, and no answer is taken back or given without one but by stop().
THEOREM PoolKeepsPromise == Spec => KeepsPromise
<1> DEFINE phases == [t \in Tasks |-> Phase(t)]
<1>1. Init => Promise!Init
  BY DEF Init, Promise!Init, Phase, Unresolved
<1>2. PoolInv /\ PoolInv' /\ [Next]_vars => [Promise!Next]_phases
  <2> SUFFICES ASSUME PoolInv, PoolInv', [Next]_vars PROVE Promise!Next
    OBVIOUS
  <2>1. \A t \in Tasks : Phase(t)' \in Promise!Phase
    <3>1. \A t \in Tasks : Phase(t) \in Promise!Phase
      BY PhaseType DEF PoolInv
    <3> QED
      BY DEF PoolInv, TypeOK, Answer, ReportedOnce, Phase, Unresolved, Promise!Phase
  <2>2. \A t \in Tasks : Phase(t)' = Phase(t) \/ <<Phase(t), Phase(t)'>> \in Promise!Ways
    BY FutureStep, PhaseStep DEF PoolInv
  <2> QED
    BY <2>1, <2>2 DEF Promise!Next
<1> QED
  BY <1>1, <1>2, PoolInvariant, PTL DEF Spec, KeepsPromise, Promise!Spec

-----------------------------------------------------------------------------
(* RetryBudget *)

Unanswered(t) == future[t] \in {"new", "waiting"}

\* An attempt at the task was sent and is not judged yet.
Underway(t) == job[t.terminal] = t /\ runner[t.terminal] \notin {"none", "created"}

\* Every round trip is an attempt or a free one, and a task that is to be sent
\* has an attempt left.
BudgetOf(t) ==
  /\ spent[t].attempts \in Int /\ spent[t].replacements \in {0, 1} /\ spent[t].rotations \in {0, 1}
  /\ sent[t] = spent[t].attempts + spent[t].replacements + spent[t].rotations
  /\ spent[t].attempts <= RetryLimit(t) + 1
  /\ Unanswered(t) /\ ~Underway(t) => spent[t].attempts <= RetryLimit(t)

Budget == \A t \in Tasks : BudgetOf(t)

LEMMA RetryLimitType == \A t \in Tasks : RetryLimit(t) \in Nat
BY SettingsAssumption DEF RetryLimit

\* A step that spends nothing and answers what it takes off a run.
LEMMA BudgetFrame ==
  ASSUME Budget, UNCHANGED <<spent, sent>>,
         \A t \in Tasks : Unanswered(t)' => Unanswered(t) /\ (Underway(t) => Underway(t)')
  PROVE  Budget'
BY DEF Budget, BudgetOf

\* A run that ends with an answer.
LEMMA RunEndsBudget ==
  ASSUME PoolInv, Budget, NEW w \in Terminals, runner[w] # "none", RunEnds(w),
         NEW answer \in {"answered", "quarantined", "shutdown"}, Resolve({job[w]}, answer),
         UNCHANGED <<spent, sent>>
  PROVE  Budget'
<1> USE TasksAssumption DEF PoolInv
<1>1. job[w] \in Tasks /\ future[job[w]] = "waiting" /\ job[w].terminal = w
  BY JobIsATask DEF Placed
<1>2. \A v \in Terminals : /\ job'[v] = IF v = w THEN NoTask ELSE job[v]
                           /\ runner'[v] = IF v = w THEN "none" ELSE runner[v]
  BY DEF RunEnds, TypeOK
<1>3. \A t \in Tasks : future'[t] = IF t = job[w] THEN answer ELSE future[t]
  BY <1>1 DEF Resolve, Answered
<1>4. ASSUME NEW t \in Tasks, Unanswered(t)'
      PROVE  Unanswered(t) /\ (Underway(t) => Underway(t)')
  BY <1>2, <1>3, <1>4 DEF Unanswered, Underway
<1> QED BY <1>4, BudgetFrame

\* A report begins for the task whose attempt was judged.
LEMMA BeginReportBudget ==
  ASSUME PoolInv, Budget, NEW w \in Terminals, runner[w] \notin {"none", "created"},
         NEW p \in {"report", "drain"}, BeginReport(w, job[w], p), UNCHANGED <<future, spent, sent>>
  PROVE  Budget'
<1>1. \A v \in Terminals : job'[v] = job[v] /\ runner'[v] = IF v = w THEN p ELSE runner[v]
  BY DEF BeginReport, PoolInv, TypeOK
<1>2. \A t \in Tasks : Unanswered(t)' => Unanswered(t) /\ (Underway(t) => Underway(t)')
  BY <1>1, TasksAssumption DEF Unanswered, Underway
<1> QED BY <1>2, BudgetFrame

\* What a judged attempt costs leaves one for the next.
LEMMA SpentByBudget ==
  ASSUME NEW t \in Tasks, NEW r, BudgetOf(t), spent[t] \in Spent, ShouldRetry(t, r)
  PROVE  LET s == SpentBy(t, r) IN
           /\ s.attempts \in Int /\ s.replacements \in {0, 1} /\ s.rotations \in {0, 1}
           /\ s.attempts + s.replacements + s.rotations
                = spent[t].attempts + spent[t].replacements + spent[t].rotations
           /\ s.attempts <= RetryLimit(t)
<1>1. RetryLimit(t) \in Nat /\ spent[t].attempts \in Int
  BY RetryLimitType DEF BudgetOf
<1>2. CASE FreeReplacement(t, r)
  <2>1. SpentBy(t, r) = [attempts |-> spent[t].attempts - 1, replacements |-> spent[t].replacements + 1,
                         rotations |-> spent[t].rotations]
    BY <1>2 DEF SpentBy
  <2>2. spent[t].replacements = 0
    BY <1>2 DEF FreeReplacement
  <2> QED BY <1>1, <2>1, <2>2 DEF BudgetOf
<1>3. CASE ~FreeReplacement(t, r) /\ FreeRotation(t, r)
  <2>1. SpentBy(t, r) = [attempts |-> spent[t].attempts - 1, replacements |-> spent[t].replacements,
                         rotations |-> spent[t].rotations + 1]
    BY <1>3 DEF SpentBy
  <2>2. spent[t].rotations = 0
    BY <1>3 DEF FreeRotation
  <2> QED BY <1>1, <2>1, <2>2 DEF BudgetOf
<1>4. CASE ~FreeReplacement(t, r) /\ ~FreeRotation(t, r)
  <2>1. SpentBy(t, r) = spent[t]
    BY <1>4 DEF SpentBy
  <2>2. spent[t].attempts <= RetryLimit(t)
    BY <1>4 DEF ShouldRetry
  <2> QED BY <1>1, <2>1, <2>2 DEF BudgetOf
<1> QED BY <1>2, <1>3, <1>4

\* A task is queued again with an attempt left, or its last one is reported.
LEMMA ConcludeBudget ==
  ASSUME PoolInv, Budget, NEW w \in Terminals, NEW r, runner[w] \notin {"none", "created"},
         Conclude(w, job[w], r)
  PROVE  Budget'
<1> USE TasksAssumption DEF PoolInv
<1>1. job[w] \in Tasks /\ job[w].terminal = w
  BY JobIsATask DEF Placed
<1>2. CASE BeginReport(w, job[w], "report") /\ UNCHANGED <<future, spent, sent>>
  BY <1>2, BeginReportBudget
<1>3. CASE /\ ShouldRetry(job[w], r) /\ RunEnds(w) /\ UNCHANGED <<future, sent>>
           /\ spent' = [spent EXCEPT ![job[w]] = SpentBy(job[w], r)]
  <2>1. \A v \in Terminals : /\ job'[v] = IF v = w THEN NoTask ELSE job[v]
                             /\ runner'[v] = IF v = w THEN "none" ELSE runner[v]
    BY <1>3 DEF RunEnds, TypeOK
  <2>2. \A t \in Tasks : spent'[t] = IF t = job[w] THEN SpentBy(t, r) ELSE spent[t]
    BY <1>3 DEF TypeOK
  <2>3. BudgetOf(job[w]) /\ spent[job[w]] \in Spent
    BY <1>1 DEF Budget, TypeOK
  <2>4. LET s == SpentBy(job[w], r) IN
          /\ s.attempts \in Int /\ s.replacements \in {0, 1} /\ s.rotations \in {0, 1}
          /\ s.attempts + s.replacements + s.rotations
               = spent[job[w]].attempts + spent[job[w]].replacements + spent[job[w]].rotations
          /\ s.attempts <= RetryLimit(job[w])
    BY <1>1, <1>3, <2>3, SpentByBudget
  <2>5. ASSUME NEW t \in Tasks, t = job[w]
        PROVE  BudgetOf(t)'
    <3>1. spent'[job[w]] = SpentBy(job[w], r)
      BY <1>1, <2>2
    <3>2. job[w] \in Tasks /\ RetryLimit(job[w]) \in Nat /\ sent'[job[w]] = sent[job[w]]
      BY <1>1, <1>3, RetryLimitType
    <3>3. sent[job[w]] = spent[job[w]].attempts + spent[job[w]].replacements + spent[job[w]].rotations
      BY <2>3 DEF BudgetOf
    <3> HIDE DEF PoolInv
    <3>4. /\ spent'[t].attempts \in Int
          /\ spent'[t].replacements \in {0, 1} /\ spent'[t].rotations \in {0, 1}
          /\ spent'[t].attempts <= RetryLimit(t) /\ spent'[t].attempts <= RetryLimit(t) + 1
          /\ sent'[t] = spent'[t].attempts + spent'[t].replacements + spent'[t].rotations
      BY <2>4, <2>5, <3>1, <3>2, <3>3
    <3> QED BY <3>4 DEF BudgetOf, RetryLimit
  <2>6. ASSUME NEW t \in Tasks, t # job[w]
        PROVE  BudgetOf(t)'
    <3>1. spent'[t] = spent[t] /\ sent'[t] = sent[t] /\ future'[t] = future[t]
      BY <1>3, <2>2, <2>6
    <3>2. Underway(t) => Underway(t)'
      BY <1>1, <2>1, <2>6 DEF Underway
    <3>3. BudgetOf(t)
      BY DEF Budget
    <3> QED BY <3>1, <3>2, <3>3 DEF BudgetOf, Unanswered, RetryLimit
  <2> QED BY <2>5, <2>6 DEF Budget
<1> QED BY <1>2, <1>3 DEF Conclude

\* A task is sent.
LEMMA BeginBudget ==
  ASSUME PoolInv, Budget, NEW w \in Terminals, Begin(w)
  PROVE  Budget'
<1> USE TasksAssumption DEF PoolInv
<1>1. job[w] \in Tasks /\ job[w].terminal = w /\ runner[w] = "created" /\ future[job[w]] = "waiting"
  BY JobIsATask DEF Begin, Placed
<1>2. /\ runner' = [runner EXCEPT ![w] = "roundtrip"] /\ UNCHANGED <<future, job>>
      /\ spent' = [spent EXCEPT ![job[w]] = Attempted(@)] /\ sent' = [sent EXCEPT ![job[w]] = @ + 1]
  BY DEF Begin
<1>3. \A v \in Terminals : runner'[v] = IF v = w THEN "roundtrip" ELSE runner[v]
  BY <1>2 DEF TypeOK
<1>4. \A t \in Tasks : /\ spent'[t] = IF t = job[w] THEN Attempted(spent[t]) ELSE spent[t]
                       /\ sent'[t] = IF t = job[w] THEN sent[t] + 1 ELSE sent[t]
  BY <1>2 DEF TypeOK
<1>5. spent[job[w]] \in Spent /\ sent[job[w]] \in Nat /\ BudgetOf(job[w])
  BY <1>1 DEF TypeOK, Budget
<1>6. /\ Attempted(spent[job[w]]).attempts = spent[job[w]].attempts + 1
      /\ Attempted(spent[job[w]]).replacements = spent[job[w]].replacements
      /\ Attempted(spent[job[w]]).rotations = spent[job[w]].rotations
  BY <1>5 DEF Attempted, Spent
<1>7. spent[job[w]].attempts <= RetryLimit(job[w])
  BY <1>1, <1>5 DEF BudgetOf, Unanswered, Underway
<1>8. BudgetOf(job[w])'
  <2>1. Underway(job[w])'
    BY <1>1, <1>2, <1>3 DEF Underway
  <2>2. RetryLimit(job[w]) \in Nat
    BY <1>1, RetryLimitType
  <2> QED BY <1>1, <1>2, <1>4, <1>5, <1>6, <1>7, <2>1, <2>2 DEF BudgetOf, RetryLimit
<1>9. ASSUME NEW t \in Tasks, t # job[w]
      PROVE  BudgetOf(t)'
  <2>1. spent'[t] = spent[t] /\ sent'[t] = sent[t] /\ future'[t] = future[t]
    BY <1>2, <1>4, <1>9
  <2>2. Underway(t) => Underway(t)'
    BY <1>2, <1>3 DEF Underway
  <2> QED BY <2>1, <2>2 DEF Budget, BudgetOf, Unanswered, RetryLimit
<1> QED BY <1>2, <1>8, <1>9 DEF Budget

\* Every action keeps the budget.
LEMMA BudgetStep == PoolInv /\ Budget /\ [Next]_vars => Budget'
<1> SUFFICES ASSUME PoolInv, Budget, [Next]_vars PROVE Budget'
  OBVIOUS
<1> USE TasksAssumption DEF vars, taskVars, queueVars, dispatchVars, runVars, workerVars, reapVars
<1>1. ASSUME UNCHANGED <<future, spent, sent, job, runner>> PROVE Budget'
  BY <1>1, BudgetFrame DEF Unanswered, Underway
<1>2. ASSUME NEW t \in Tasks, Submit(t) PROVE Budget'
  <2>1. future[t] = "new" /\ UNCHANGED <<spent, sent, job, runner>>
    BY <1>2 DEF Submit
  <2>2. \E a \in {"waiting", "shutdown", "refused"} : future' = [future EXCEPT ![t] = a]
    BY <1>2 DEF Submit
  <2>3. \A u \in Tasks : u # t => future'[u] = future[u]
    BY <2>2 DEF PoolInv, TypeOK
  <2> QED BY <2>1, <2>3, BudgetFrame DEF Unanswered, Underway
<1>3. ASSUME NEW w \in Terminals, NEW t \in Tasks, CreateTask(w, t), job[w] = NoTask,
             UNCHANGED <<future, spent, sent>>
      PROVE  Budget'
  <2>1. \A v \in Terminals : v # w => job'[v] = job[v] /\ runner'[v] = runner[v]
    BY <1>3 DEF CreateTask, PoolInv, TypeOK
  <2> QED BY <1>3, <2>1, BudgetFrame DEF Unanswered, Underway
<1>4. ASSUME NEW w \in Terminals, DispatchGet(w) \/ DispatchHeld(w) PROVE Budget'
  <2>1. job[w] = NoTask /\ UNCHANGED <<future, spent, sent>>
    BY <1>4 DEF DispatchGet, DispatchHeld, PoolInv, Control
  <2>2. \/ \E t \in Tasks : CreateTask(w, t)
        \/ UNCHANGED <<job, runner>>
    BY <1>4 DEF DispatchGet, DispatchHeld, First, PoolInv, TypeOK, Control
  <2> QED BY <1>1, <1>3, <2>1, <2>2
<1>5. ASSUME NEW w \in Terminals, Begin(w) PROVE Budget'
  BY <1>5, BeginBudget
<1>6. ASSUME NEW w \in Terminals, AnswerClosing(w) \/ Report(w) PROVE Budget'
  BY <1>6, RunEndsBudget DEF AnswerClosing, Report
<1>7. ASSUME NEW w \in Terminals, NEW p \in {"rotate", "ladder"}, runner' = [runner EXCEPT ![w] = p],
             UNCHANGED <<future, spent, sent, job>>
      PROVE  Budget'
  <2>1. \A v \in Terminals : runner'[v] = IF v = w THEN p ELSE runner[v]
    BY <1>7 DEF PoolInv, TypeOK
  <2> QED BY <1>7, <2>1, BudgetFrame DEF Unanswered, Underway
<1>8. ASSUME NEW w \in Terminals, AnswerOpen(w) PROVE Budget'
  <2>1. runner[w] = "roundtrip"
    BY <1>8 DEF AnswerOpen
  <2>2. \/ Quarantine(w)
        \/ \E r : AwaitRotation(w, r) \/ AwaitRestart(w, r)
        \/ \E r : Conclude(w, job[w], r)
    BY <1>8 DEF AnswerOpen, KeepWorker
  <2>3. CASE Quarantine(w)
    BY <2>1, <2>3, BeginReportBudget DEF Quarantine
  <2>4. CASE \E r : AwaitRotation(w, r) \/ AwaitRestart(w, r)
    BY <1>7, <2>4 DEF AwaitRotation, AwaitRestart
  <2>5. CASE \E r : Conclude(w, job[w], r)
    BY <2>1, <2>5, ConcludeBudget
  <2> QED BY <2>2, <2>3, <2>4, <2>5
<1>9. ASSUME NEW w \in Terminals, Rotated(w) PROVE Budget'
  BY <1>7, <1>9 DEF Rotated
<1>10. ASSUME NEW w \in Terminals, RotateRaises(w) PROVE Budget'
  BY <1>10, BeginReportBudget DEF RotateRaises
<1>11. ASSUME NEW w \in Terminals, TaskSpawnUp(w) \/ TaskGiveUp(w) PROVE Budget'
  BY <1>11, ConcludeBudget DEF TaskSpawnUp, TaskGiveUp
<1>12. ASSUME NEW w \in Terminals, Drain(w) PROVE Budget'
  <2>1. runner[w] = "drain" /\ Resolve({job[w]}, "quarantined") /\ UNCHANGED <<spent, sent>>
    BY <1>12 DEF Drain
  <2>2. CASE RunEnds(w)
    BY <2>1, <2>2, RunEndsBudget
  <2>3. ASSUME NEW e \in queue[w], BeginReport(w, e.task, "drain") PROVE Budget'
    <3>1. job[w] \in Tasks /\ future[job[w]] = "waiting" /\ job[w].terminal = w
      BY <2>1, JobIsATask DEF PoolInv, Placed
    <3>2. \A t \in Tasks : future'[t] = IF t = job[w] THEN "quarantined" ELSE future[t]
      BY <2>1, <3>1 DEF Resolve, Answered
    <3>3. \A v \in Terminals : v # w => job'[v] = job[v] /\ runner'[v] = runner[v]
      BY <2>3 DEF BeginReport, PoolInv, TypeOK
    <3>4. ASSUME NEW t \in Tasks, Unanswered(t)'
          PROVE  Unanswered(t) /\ (Underway(t) => Underway(t)')
      BY <3>1, <3>2, <3>3, <3>4 DEF Unanswered, Underway
    <3> QED BY <2>1, <3>4, BudgetFrame
  <2> QED BY <1>12, <2>2, <2>3 DEF Drain, First
<1>13. ASSUME FinishStop \/ \E w \in Terminals : CancelDispatcher(w) PROVE Budget'
  <2>1. UNCHANGED <<spent, sent, job, runner>> /\ \E S : Resolve(S, "shutdown")
    BY <1>13 DEF FinishStop, CancelDispatcher
  <2>2. \A t \in Tasks : Unanswered(t)' => Unanswered(t)
    BY <2>1 DEF Resolve, Answered, Unanswered
  <2> QED BY <2>1, <2>2, BudgetFrame DEF Underway
<1>14. ASSUME NEW w \in Terminals,
              \/ DispatchReady(w) \/ DispatchNext(w) \/ TaskSpawn(w) \/ TaskSpawnDown(w) \/ Reap(w)
       PROVE  Budget'
  BY <1>1, <1>14 DEF DispatchReady, DispatchNext, TaskSpawn, TaskSpawnDown, Reap, Reproxy,
    Reproxied, Reclone, RecloneRaises, Rebuilt, HoldSource, ReleaseSource, ReapSpawn, ReapSpawnUp,
    ReapSpawnDown, ReapGiveUp
<1>15. ASSUME ReapBatch \/ BeginStop \/ CancelReaper \/ StopWorkers PROVE Budget'
  BY <1>1, <1>15 DEF ReapBatch, ReapFailed, RestartBatch, RestartDone, BeginStop, CancelReaper,
    StopWorkers
<1>16. ASSUME DrainTimeout PROVE Budget'
  <2>1. /\ UNCHANGED <<spent, sent>>
        /\ \A t \in Tasks : future'[t] = IF t \in Running THEN "abandoned" ELSE future[t]
    BY <1>16 DEF DrainTimeout
  <2>2. \A t \in Tasks : Unanswered(t)' => Unanswered(t) /\ t \notin Running
    BY <2>1 DEF Unanswered
  <2>3. \A t \in Tasks : t \notin Running => ~Underway(t)
    BY DEF Running, Underway
  <2> QED BY <2>1, <2>2, <2>3, BudgetFrame
<1> QED
  BY <1>1, <1>2, <1>4, <1>5, <1>6, <1>8, <1>9, <1>10, <1>11, <1>12, <1>13, <1>14, <1>15, <1>16
     DEF Next, Serve, Stop, Dispatch, Run

\* A task is sent once per attempt it may spend, once more after a replaced
\* terminal and once after a dead proxy, for any tasks, outcomes and retries,
\* however _should_retry's free attempts mix with the paid ones.
THEOREM AttemptsAreBounded == Spec => []RetryBudget
<1>1. Init => Budget
  BY RetryLimitType DEF Init, Budget, BudgetOf, NoSpend
<1>2. PoolInv /\ Budget => RetryBudget
  BY RetryLimitType DEF PoolInv, TypeOK, Budget, BudgetOf, RetryBudget
<1> QED
  BY <1>1, <1>2, PoolInvariant, BudgetStep, PTL DEF Spec

-----------------------------------------------------------------------------
(* NothingOnUnusable.  A terminal leaves every pick when its own run        *)
(* quarantines it; afterwards only the reaper changes its state.            *)

Reclones == {"reclone", "recloneRestart"}

\* What the reaper reclones is out of every pick, and outside the restarts of
\* failed workers it climbs the ladder of one terminal, the one of its duty.
ReaperIsSafe ==
  /\ reaper.duty \in Reclones => \A w \in reaper.todo : ~Usable(w)
  /\ reaper.duty # "restart" =>
       \A w \in Terminals : reapLadder[w] # NoLadder =>
         reaper.duty \in {"reproxyRestart", "recloneRestart"} /\ reaper.todo = {w}

LEMMA LadderPhases ==
  /\ NoLadder.phase = "off" /\ FirstRung # NoLadder
  /\ \A l \in Ladder : CanSpawn(l) \/ l.phase = "spawn" \/ CanGiveUp(l) => l # NoLadder
BY DEF NoLadder, FirstRung, CanSpawn, CanGiveUp, Ladder

LEMMA DutyParts == \A name, S : Duty(name, S).duty = name /\ Duty(name, S).todo = S
BY DEF Duty

\* A step that puts no terminal out of the picks and nothing on one that is out.
LEMMA UnusableFrame ==
  ASSUME PoolInv, NothingOnUnusable, NEW w \in Terminals,
         \A v \in Terminals : v # w => UNCHANGED <<held[v], runner[v], queue[v], health[v]>>,
         Usable(w), Usable(w)', UNCHANGED stopping
  PROVE  NothingOnUnusable'
BY DEF NothingOnUnusable, Usable

\* Nothing the reaper looks at.
LEMMA ReaperFrame ==
  ASSUME ReaperIsSafe, UNCHANGED <<reaper, reapLadder>>,
         \A w \in Terminals : ~Usable(w) => ~Usable(w)', PoolInv
  PROVE  ReaperIsSafe'
<1>1. reaper.todo \subseteq Terminals
  BY DEF PoolInv, TypeOK
<1> QED BY <1>1 DEF ReaperIsSafe

\* What a run or a dispatcher does is done on a terminal in the picks, but the drain.
LEMMA BusyIsUsable ==
  ASSUME PoolInv, NothingOnUnusable, NEW w \in Terminals,
         \/ runner[w] \notin {"none", "drain"}
         \/ held[w] # NoTask
         \/ dispatcher[w] = "get" /\ queue[w] # {}
  PROVE  Usable(w)
BY DEF PoolInv, Control, DispatchersOver, NothingOnUnusable

LEMMA UsableVerdict ==
  ASSUME NEW w \in Terminals, Usable(w), NEW r, NEW after \in Verdict(w, r)
  PROVE  after = "quarantined" \/ after \in Lifecycle!UsableState
BY DEF Usable, Verdict, Lifecycle!UsableState, Lifecycle!AfterSuccess, Lifecycle!AfterStrike

\* The runs and dispatchers.
LEMMA RunIsUsable ==
  ASSUME PoolInv, NothingOnUnusable, ReaperIsSafe, NEW w \in Terminals, Dispatch(w) \/ Run(w)
  PROVE  NothingOnUnusable' /\ ReaperIsSafe'
<1> USE TasksAssumption DEF vars, taskVars, queueVars, dispatchVars, runVars, workerVars, reapVars
<1>0. UNCHANGED stopping
  BY ServeKeepsStopping
<1>1. ASSUME UNCHANGED <<held, runner, queue, health, reaper, reapLadder>>
      PROVE  NothingOnUnusable' /\ ReaperIsSafe'
  BY <1>0, <1>1, ReaperFrame DEF NothingOnUnusable, Usable
<1>2. ASSUME Usable(w), UNCHANGED <<health, reaper, reapLadder>>,
             \A v \in Terminals : v # w => UNCHANGED <<held[v], runner[v], queue[v]>>
      PROVE  NothingOnUnusable' /\ ReaperIsSafe'
  BY <1>0, <1>2, UnusableFrame, ReaperFrame DEF Usable
<1>3. CASE DispatchReady(w) \/ DispatchNext(w)
  BY <1>1, <1>3 DEF DispatchReady, DispatchNext
<1>4. CASE DispatchGet(w)
  <2>1. dispatcher[w] = "get" /\ queue[w] # {} /\ UNCHANGED <<health, reaper, reapLadder>>
    BY <1>4 DEF DispatchGet, First
  <2>2. \A v \in Terminals : v # w => UNCHANGED <<held[v], runner[v], queue[v]>>
    BY <1>4 DEF DispatchGet, CreateTask, PoolInv, TypeOK
  <2> QED BY <1>2, <2>1, <2>2, BusyIsUsable
<1>5. CASE DispatchHeld(w)
  <2>1. held[w] # NoTask /\ UNCHANGED <<health, reaper, reapLadder>>
    BY <1>5 DEF DispatchHeld, PoolInv, Control
  <2>2. \A v \in Terminals : v # w => UNCHANGED <<held[v], runner[v], queue[v]>>
    BY <1>5 DEF DispatchHeld, CreateTask, PoolInv, TypeOK
  <2> QED BY <1>2, <2>1, <2>2, BusyIsUsable
<1>6. ASSUME NEW r, runner[w] # "none", Conclude(w, job[w], r)
      PROVE  \A v \in Terminals : v # w => UNCHANGED <<runner[v], queue[v]>>
  <2>1. job[w] \in Tasks /\ job[w].terminal = w
    BY <1>6, JobIsATask DEF PoolInv, Placed
  <2> QED BY <1>6, <2>1 DEF Conclude, Enqueue, RunEnds, BeginReport, PoolInv, TypeOK
<1>7. CASE \/ Begin(w) \/ AnswerClosing(w) \/ Rotated(w) \/ RotateRaises(w)
           \/ TaskSpawn(w) \/ TaskSpawnDown(w) \/ Report(w)
  <2>1. runner[w] \notin {"none", "drain"} /\ UNCHANGED <<health, reaper, reapLadder>>
    BY <1>7 DEF Begin, AnswerClosing, Rotated, RotateRaises, TaskSpawn, TaskSpawnDown, Report
  <2>2. \A v \in Terminals : v # w => UNCHANGED <<held[v], runner[v], queue[v]>>
    BY <1>7 DEF Begin, AnswerClosing, Rotated, RotateRaises, TaskSpawn, TaskSpawnDown, Report,
                RunEnds, BeginReport, PoolInv, TypeOK
  <2> QED BY <1>2, <2>1, <2>2, BusyIsUsable
<1>8. CASE TaskSpawnUp(w) \/ TaskGiveUp(w)
  <2>1. runner[w] = "ladder" /\ UNCHANGED <<held, health, reaper, reapLadder>>
    BY <1>8 DEF TaskSpawnUp, TaskGiveUp
  <2>2. Conclude(w, job[w], outcome[w])
    BY <1>8 DEF TaskSpawnUp, TaskGiveUp
  <2>3. \A v \in Terminals : v # w => UNCHANGED <<held[v], runner[v], queue[v]>>
    BY <1>6, <2>1, <2>2
  <2> QED BY <1>2, <2>1, <2>3, BusyIsUsable
<1>9. CASE AnswerOpen(w)
  <2>1. Usable(w) /\ runner[w] = "roundtrip" /\ UNCHANGED <<held, reaper, reapLadder>>
    BY <1>9, BusyIsUsable DEF AnswerOpen
  <2>0. PICK r \in Outcomes : \E after \in Verdict(w, r) :
          /\ health' = [health EXCEPT ![w] = after]
          /\ \/ after = "quarantined" /\ Quarantine(w)
             \/ after # "quarantined" /\ (AwaitRotation(w, r) \/ AwaitRestart(w, r) \/ KeepWorker(w, r))
    BY <1>9 DEF AnswerOpen
  <2>2. PICK after \in Verdict(w, r) :
          /\ health' = [health EXCEPT ![w] = after]
          /\ \/ after = "quarantined" /\ Quarantine(w)
             \/ after # "quarantined" /\ (AwaitRotation(w, r) \/ AwaitRestart(w, r) \/ KeepWorker(w, r))
    BY <2>0
  <2>3. \A v \in Terminals : health'[v] = IF v = w THEN after ELSE health[v]
    BY <2>2 DEF PoolInv, TypeOK
  <2>4. \A v \in Terminals : v # w => UNCHANGED <<runner[v], queue[v]>>
    BY <1>6, <2>1, <2>2 DEF Quarantine, BeginReport, AwaitRotation, AwaitRestart, KeepWorker, PoolInv, TypeOK
  <2>5. ReaperIsSafe'
    BY <2>1, <2>3, ReaperFrame DEF Usable
  <2>6. CASE after = "quarantined"
    <3>1. runner'[w] = "drain" /\ held'[w] = NoTask
      BY <2>1, <2>2, <2>6 DEF Quarantine, BeginReport, PoolInv, TypeOK, Control
    <3> QED BY <1>0, <2>1, <2>3, <2>4, <2>5, <3>1 DEF NothingOnUnusable, Usable
  <2>7. CASE after # "quarantined"
    <3>1. Usable(w)'
      BY <2>1, <2>3, <2>7, UsableVerdict DEF Usable
    <3> QED BY <1>0, <2>1, <2>3, <2>4, <2>5, <3>1, UnusableFrame
  <2> QED BY <2>6, <2>7
<1>10. CASE Drain(w)
  <2>1. runner[w] = "drain" /\ UNCHANGED <<held, health, reaper, reapLadder>>
    BY <1>10 DEF Drain
  <2>2. /\ \A v \in Terminals : v # w => UNCHANGED <<runner[v], queue[v]>>
        /\ runner'[w] = "drain" \/ (runner'[w] = "none" /\ queue'[w] = {})
    BY <1>10 DEF Drain, BeginReport, RunEnds, PoolInv, TypeOK
  <2>3. held[w] = NoTask
    BY <2>1 DEF PoolInv, Control
  <2> QED BY <1>0, <2>1, <2>2, <2>3, ReaperFrame DEF NothingOnUnusable, Usable
<1> QED BY <1>3, <1>4, <1>5, <1>7, <1>8, <1>9, <1>10 DEF Dispatch, Run

\* The reaper's steps.
LEMMA ReapIsSafe ==
  ASSUME PoolInv, NothingOnUnusable, ReaperIsSafe, NEW w \in Terminals, Reap(w)
  PROVE  NothingOnUnusable' /\ ReaperIsSafe'
<1> USE DutyParts DEF vars, taskVars, queueVars, dispatchVars, runVars, workerVars, reapVars
<1>1. UNCHANGED <<held, runner, queue, stopping>>
  BY DEF Reap, Reproxy, Reproxied, Reclone, RecloneRaises, Rebuilt, HoldSource, ReleaseSource,
         ReapSpawn, ReapSpawnUp, ReapSpawnDown, ReapGiveUp
<1>2. ASSUME \A v \in Terminals : Usable(v) => Usable(v)'
      PROVE  NothingOnUnusable'
  BY <1>1, <1>2 DEF NothingOnUnusable
<1>3. /\ reapLadder \in [Terminals -> Ladder] /\ health \in [Terminals -> Lifecycle!TerminalState]
      /\ reaper.todo \subseteq Terminals
  BY DEF PoolInv, TypeOK
<1>4. reaper = Asleep => \A v \in Terminals : reapLadder[v] = NoLadder
  BY DEF ReaperIsSafe, Asleep
<1>5. CASE Reproxy(w) \/ HoldSource(w) \/ ReleaseSource(w)
  <2>1. UNCHANGED <<health, reapLadder>> /\ \A v \in Terminals : reapLadder[v] = NoLadder
    BY <1>4, <1>5 DEF Reproxy, HoldSource, ReleaseSource, ReaperIsSafe
  <2>2. reaper'.duty \notin Reclones
    BY <1>5 DEF Reproxy, HoldSource, ReleaseSource, Asleep, Reclones
  <2> QED BY <1>2, <2>1, <2>2 DEF ReaperIsSafe, Usable
<1>6. CASE Reproxied(w)
  <2>1. UNCHANGED health /\ reaper.duty = "reproxy" /\ \A v \in Terminals : reapLadder[v] = NoLadder
    BY <1>6 DEF Reproxied, ReaperIsSafe
  <2>2. \/ reaper' = Asleep /\ reapLadder' = reapLadder
        \/ /\ reaper' = Duty("reproxyRestart", {w})
           /\ \A v \in Terminals : v # w => reapLadder'[v] = reapLadder[v]
    BY <1>6 DEF Reproxied, Climb
  <2>3. ReaperIsSafe'
    BY <2>1, <2>2 DEF ReaperIsSafe, Asleep, Reclones
  <2> QED BY <1>2, <2>1, <2>3 DEF Usable
<1>7. CASE Reclone(w)
  <2>1. /\ health[w] = "quarantined" /\ health' = [health EXCEPT ![w] = "recloning"]
        /\ reapLadder' = reapLadder /\ reaper' = Duty("reclone", {w})
        /\ \A v \in Terminals : reapLadder[v] = NoLadder
    BY <1>4, <1>7 DEF Reclone, Lifecycle!StartReclone
  <2>2. \A v \in Terminals : health'[v] = IF v = w THEN "recloning" ELSE health[v]
    BY <1>3, <2>1
  <2> QED BY <1>2, <2>1, <2>2 DEF ReaperIsSafe, Usable, Lifecycle!UsableState
<1>8. CASE RecloneRaises(w)
  <2>1. /\ ~Usable(w) /\ reaper' = Asleep /\ reapLadder' = reapLadder
        /\ health' = [health EXCEPT ![w] = "quarantined"]
        /\ \A v \in Terminals : reapLadder[v] = NoLadder
    BY <1>8 DEF RecloneRaises, ReaperIsSafe, Reclones
  <2>2. \A v \in Terminals : health'[v] = IF v = w THEN "quarantined" ELSE health[v]
    BY <1>3, <2>1
  <2> QED BY <1>2, <2>1, <2>2 DEF ReaperIsSafe, Usable, Reclones, Asleep
<1>9. CASE Rebuilt(w)
  <2>1. /\ ~Usable(w) /\ health' = health /\ reaper' = Duty("recloneRestart", {w})
        /\ \A v \in Terminals : reapLadder[v] = NoLadder
        /\ \A v \in Terminals : v # w => reapLadder'[v] = reapLadder[v]
    BY <1>9 DEF Rebuilt, Climb, ReaperIsSafe, Reclones
  <2> QED BY <1>2, <2>1 DEF ReaperIsSafe, Usable
<1>10. CASE ReapSpawn(w) \/ ReapSpawnDown(w)
  <2>1. reapLadder[w] # NoLadder /\ UNCHANGED <<reaper, health>>
    BY <1>3, <1>10, LadderPhases DEF ReapSpawn, ReapSpawnDown
  <2>2. \A v \in Terminals : v # w => reapLadder'[v] = reapLadder[v]
    BY <1>3, <1>10 DEF ReapSpawn, ReapSpawnDown
  <2> QED BY <1>2, <2>1, <2>2 DEF ReaperIsSafe, Usable
<1>11. CASE ReapSpawnUp(w) \/ ReapGiveUp(w)
  <2>1. reapLadder[w] # NoLadder /\ reapLadder' = [reapLadder EXCEPT ![w] = NoLadder]
    BY <1>3, <1>11, LadderPhases DEF ReapSpawnUp, ReapGiveUp
  <2>2. \A v \in Terminals : reapLadder'[v] = IF v = w THEN NoLadder ELSE reapLadder[v]
    BY <1>3, <2>1
  <2>3. CASE reaper.duty = "restart"
    <3>1. UNCHANGED <<health, reaper>>
      BY <1>11, <2>3 DEF ReapSpawnUp, ReapGiveUp, EndDuty
    <3> QED BY <1>2, <2>3, <3>1 DEF ReaperIsSafe, Usable, Reclones
  <2>4. CASE reaper.duty # "restart"
    <3>1. /\ reaper' = Asleep /\ reaper.todo = {w}
          /\ \A v \in Terminals : reapLadder'[v] = NoLadder
      BY <1>11, <2>1, <2>2, <2>4 DEF ReapSpawnUp, ReapGiveUp, EndDuty, ReaperIsSafe
    <3>2. ReaperIsSafe'
      BY <3>1 DEF ReaperIsSafe, Asleep, Reclones
    <3>3. CASE reaper.duty = "recloneRestart"
      <4>1. ~Usable(w)
        BY <3>1, <3>3 DEF ReaperIsSafe, Reclones
      <4>2. \A v \in Terminals : v # w => health'[v] = health[v]
        BY <1>3, <1>11 DEF ReapSpawnUp, ReapGiveUp
      <4> QED BY <1>2, <3>2, <4>1, <4>2 DEF Usable
    <3>4. CASE reaper.duty # "recloneRestart"
      <4>1. health' = health
        BY <1>11, <3>4 DEF ReapSpawnUp, ReapGiveUp
      <4> QED BY <1>2, <3>2, <4>1 DEF Usable
    <3> QED BY <3>3, <3>4
  <2> QED BY <2>3, <2>4
<1> QED BY <1>5, <1>6, <1>7, <1>8, <1>9, <1>10, <1>11 DEF Reap

\* Every action keeps tasks off the terminals that are out of the picks.
LEMMA UnusableStep ==
  PoolInv /\ NothingOnUnusable /\ ReaperIsSafe /\ [Next]_vars => NothingOnUnusable' /\ ReaperIsSafe'
<1> SUFFICES ASSUME PoolInv, NothingOnUnusable, ReaperIsSafe, [Next]_vars
             PROVE  NothingOnUnusable' /\ ReaperIsSafe'
  OBVIOUS
<1> USE TasksAssumption, DutyParts DEF vars, taskVars, queueVars, dispatchVars, runVars, workerVars, reapVars
<1>1. ASSUME UNCHANGED <<held, runner, queue, health, reaper, reapLadder>>,
             UNCHANGED stopping \/ stopping # "drain"
      PROVE  NothingOnUnusable' /\ ReaperIsSafe'
  BY <1>1, ReaperFrame DEF NothingOnUnusable, Usable
<1>2. ASSUME NEW t \in Tasks, Submit(t) PROVE NothingOnUnusable' /\ ReaperIsSafe'
  <2>1. CASE Usable(t.terminal) /\ Enqueue(t)
    <3>1. \A v \in Terminals : v # t.terminal => queue'[v] = queue[v]
      BY <2>1 DEF Enqueue, PoolInv, TypeOK
    <3>2. UNCHANGED <<held, runner, health, reaper, reapLadder, stopping>>
      BY <1>2 DEF Submit
    <3> QED BY <2>1, <3>1, <3>2, UnusableFrame, ReaperFrame DEF Usable
  <2>2. CASE UNCHANGED queueVars
    BY <1>1, <1>2, <2>2 DEF Submit
  <2> QED BY <1>2, <2>1, <2>2 DEF Submit
<1>3. ASSUME NEW w \in Terminals, Dispatch(w) \/ Run(w) PROVE NothingOnUnusable' /\ ReaperIsSafe'
  BY <1>3, RunIsUsable
<1>4. ASSUME NEW w \in Terminals, Reap(w) PROVE NothingOnUnusable' /\ ReaperIsSafe'
  BY <1>4, ReapIsSafe
<1>5. ASSUME UNCHANGED <<held, runner, queue, health>>, UNCHANGED stopping \/ stopping # "drain"
      PROVE  NothingOnUnusable'
  BY <1>5 DEF NothingOnUnusable, Usable
<1>6. CASE ReapFailed \/ RestartBatch
  <2>1. reaper'.duty = "restart" /\ UNCHANGED <<held, runner, queue, health, stopping>>
    BY <1>6 DEF ReapFailed, RestartBatch
  <2> QED BY <1>5, <2>1 DEF ReaperIsSafe, Reclones
<1>7. CASE RestartDone
  <2>1. reaper' = Asleep /\ Climbing = {} /\ UNCHANGED <<held, runner, queue, health, reapLadder, stopping>>
    BY <1>7 DEF RestartDone
  <2> QED BY <1>5, <2>1 DEF ReaperIsSafe, Reclones, Asleep, Climbing
<1>8. CASE CancelReaper
  <2>1. /\ reaper' = Duty("over", {}) /\ \A v \in Terminals : reapLadder'[v] = NoLadder
        /\ UNCHANGED <<held, runner, queue, health>> /\ stopping # "drain"
    BY <1>8 DEF CancelReaper
  <2> QED BY <1>5, <2>1 DEF ReaperIsSafe, Reclones
<1>9. CASE BeginStop \/ StopWorkers
  BY <1>1, <1>9 DEF BeginStop, StopWorkers
<1>10. CASE FinishStop
  <2>1. \A v \in Terminals : queue'[v] = {}
    BY <1>10 DEF FinishStop
  <2>2. UNCHANGED <<held, runner, health, reaper, reapLadder>>
    BY <1>10 DEF FinishStop
  <2> QED BY <2>1, <2>2, ReaperFrame DEF NothingOnUnusable, Usable
<1>11. ASSUME NEW w \in Terminals, CancelDispatcher(w) PROVE NothingOnUnusable' /\ ReaperIsSafe'
  <2>1. \A v \in Terminals : held'[v] \in {held[v], NoTask}
    BY <1>11 DEF CancelDispatcher, PoolInv, TypeOK
  <2>2. UNCHANGED <<queue, runner, health, reaper, reapLadder>>
    BY <1>11 DEF CancelDispatcher
  <2>3. stopping # "drain"
    BY <1>11 DEF CancelDispatcher
  <2> QED BY <2>1, <2>2, <2>3, ReaperFrame DEF NothingOnUnusable, Usable
<1>12. CASE DrainTimeout
  <2>1. \A v \in Terminals : runner'[v] = "none"
    BY <1>12 DEF DrainTimeout
  <2>2. UNCHANGED <<held, health, reaper, reapLadder>> /\ stopping' = "drain"
    BY <1>12 DEF DrainTimeout
  <2> QED BY <2>1, <2>2, ReaperFrame DEF NothingOnUnusable, Usable
<1> QED
  BY <1>1, <1>2, <1>3, <1>4, <1>6, <1>7, <1>8, <1>9, <1>10, <1>11, <1>12 DEF Next, Serve, Stop, ReapBatch

\* No task waits or runs on a terminal out of every pick, for any terminals,
\* outcomes and duties of the reaper: _quarantine drains it, submit() refuses it,
\* and a reclone puts nobody else's terminal out.
THEOREM UnusableStaysEmpty == Spec => []NothingOnUnusable
<1>1. Init => NothingOnUnusable /\ ReaperIsSafe
  BY DutyParts DEF Init, NothingOnUnusable, ReaperIsSafe, Reclones, Usable, Lifecycle!Init, Lifecycle!UsableState
<1> QED
  BY <1>1, PoolInvariant, UnusableStep, PTL DEF Spec

-----------------------------------------------------------------------------
(* HardCount *)

\* The hard tasks among the entries of a queue.
HardIn(S) == Cardinality({e \in S : Hard(e.task)})

HardHeld(w) == IF held[w] # NoTask THEN 1 - Priority(held[w]) ELSE 0

Counted(w) == hardQueued[w] = HardIn(queue[w]) + HardHeld(w)

Finite == \A w \in Terminals : IsFiniteSet(queue[w])

LEMMA HardIsOne == \A t : IF Hard(t) THEN Priority(t) = 0 ELSE Priority(t) = 1
BY DEF Hard, Priority

\* One more entry counts as one or none.
LEMMA HardAdd ==
  ASSUME NEW S, IsFiniteSet(S), NEW x, x \notin S
  PROVE  /\ IsFiniteSet(S \cup {x}) /\ HardIn(S) \in Nat
         /\ HardIn(S \cup {x}) = HardIn(S) + (1 - Priority(x.task))
<1> DEFINE H == {e \in S : Hard(e.task)}
           G == {e \in S \cup {x} : Hard(e.task)}
<1>1. IsFiniteSet(S \cup {x})
  BY FS_AddElement
<1>2. IsFiniteSet(H) /\ Cardinality(H) \in Nat
  <2>1. H \subseteq S
    OBVIOUS
  <2> QED BY <2>1, FS_Subset, FS_CardinalityType
<1>3. CASE Hard(x.task)
  <2>1. G = H \cup {x} /\ x \notin H
    BY <1>3
  <2>2. Cardinality(G) = Cardinality(H) + 1
    BY <1>2, <2>1, FS_AddElement
  <2> QED BY <1>1, <1>2, <1>3, <2>2, HardIsOne DEF HardIn
<1>4. CASE ~Hard(x.task)
  <2>1. G = H
    BY <1>4
  <2>2. Priority(x.task) = 1
    BY <1>4, HardIsOne
  <2>3. HardIn(S) \in Nat /\ HardIn(S \cup {x}) = HardIn(S)
    BY <1>2, <2>1 DEF HardIn
  <2> QED BY <1>1, <2>2, <2>3
<1> QED BY <1>3, <1>4

\* And one less.
LEMMA HardRemove ==
  ASSUME NEW S, IsFiniteSet(S), NEW x \in S
  PROVE  /\ IsFiniteSet(S \ {x}) /\ HardIn(S \ {x}) \in Nat
         /\ HardIn(S) = HardIn(S \ {x}) + (1 - Priority(x.task))
<1>1. IsFiniteSet(S \ {x})
  BY FS_RemoveElement
<1>2. x \notin S \ {x} /\ (S \ {x}) \cup {x} = S
  OBVIOUS
<1> QED BY <1>1, <1>2, HardAdd

\* A step that touches no queue, no count and no held task.
LEMMA CountFrame ==
  ASSUME HardCount, Finite, UNCHANGED <<queue, hardQueued, held>>,
         stopping' = "no" => stopping = "no",
         \A w \in Terminals : runner'[w] # "drain" => runner[w] # "drain"
  PROVE  HardCount' /\ Finite'
BY DEF HardCount, Finite

\* HardCount, of one terminal.
LEMMA CountOf ==
  /\ HardCount <=> \A w \in Terminals : stopping = "no" /\ runner[w] # "drain" => Counted(w)
BY DEF HardCount, Counted, HardIn, HardHeld

\* A task goes into its queue.
LEMMA EnqueueCount ==
  ASSUME PoolInv, HardCount, Finite, NEW t \in Tasks, Enqueue(t), t \notin Queued(t.terminal),
         UNCHANGED <<held, stopping>>,
         \A w \in Terminals : runner'[w] # "drain" => runner[w] # "drain"
  PROVE  HardCount' /\ Finite'
<1> USE TasksAssumption
<1>1. /\ \A w \in Terminals : queue'[w] = IF w = t.terminal THEN queue[w] \cup {Entry(t)} ELSE queue[w]
      /\ \A w \in Terminals : w # t.terminal => hardQueued'[w] = hardQueued[w]
      /\ hardQueued'[t.terminal] = hardQueued[t.terminal] + (1 - Priority(t))
  <2>1. hardQueued[t.terminal] \in Int
    BY DEF PoolInv, TypeOK
  <2>2. hardQueued'[t.terminal] = IF Hard(t) THEN hardQueued[t.terminal] + 1 ELSE hardQueued[t.terminal]
    BY DEF Enqueue, PoolInv, TypeOK
  <2>3. hardQueued'[t.terminal] = hardQueued[t.terminal] + (1 - Priority(t))
    <3>1. CASE Hard(t)
      BY <2>1, <2>2, <3>1 DEF Hard
    <3>2. CASE ~Hard(t)
      BY <2>1, <2>2, <3>2 DEF Hard, Priority
    <3> QED BY <3>1, <3>2
  <2> QED BY <2>3 DEF Enqueue, PoolInv, TypeOK
<1>2. Entry(t) \notin queue[t.terminal] /\ Entry(t).task = t
  BY DEF Queued, Entry
<1>3. /\ IsFiniteSet(queue'[t.terminal]) /\ HardIn(queue[t.terminal]) \in Nat
      /\ HardIn(queue'[t.terminal]) = HardIn(queue[t.terminal]) + (1 - Priority(t))
  <2>1. IsFiniteSet(queue[t.terminal])
    BY DEF Finite
  <2>2. /\ IsFiniteSet(queue[t.terminal] \cup {Entry(t)}) /\ HardIn(queue[t.terminal]) \in Nat
        /\ HardIn(queue[t.terminal] \cup {Entry(t)}) = HardIn(queue[t.terminal]) + (1 - Priority(t))
    BY <1>2, <2>1, HardAdd
  <2>3. queue'[t.terminal] = queue[t.terminal] \cup {Entry(t)}
    BY <1>1
  <2> QED BY <2>2, <2>3
<1>4. Finite'
  BY <1>1, <1>3 DEF Finite
<1>5. ASSUME NEW w \in Terminals, stopping = "no", runner'[w] # "drain"
      PROVE  hardQueued'[w] = HardIn(queue'[w]) + HardHeld(w)
  <2>1. Counted(w)
    BY <1>5, CountOf
  <2>2. CASE w # t.terminal
    BY <1>1, <2>1, <2>2 DEF Counted
  <2>3. CASE w = t.terminal
    <3>1. HardHeld(w) \in Int /\ Priority(t) \in Int
      BY DEF HardHeld, Priority
    <3> QED BY <1>1, <1>3, <2>1, <2>3, <3>1 DEF Counted
  <2> QED BY <2>2, <2>3
<1> QED BY <1>4, <1>5 DEF HardCount, HardIn, HardHeld

\* A task leaves its queue for its run, or for the dispatcher's hand.
LEMMA GetCount ==
  ASSUME PoolInv, HardCount, Finite, NEW w \in Terminals, DispatchGet(w)
  PROVE  HardCount' /\ Finite'
<1>1. PICK e \in queue[w] :
        /\ queue' = [queue EXCEPT ![w] = @ \ {e}]
        /\ \/ CreateTask(w, e.task)
           \/ /\ held' = [held EXCEPT ![w] = e.task]
              /\ UNCHANGED <<runner, hardQueued>>
  BY DEF DispatchGet, First
<1>2. /\ \A v \in Terminals : queue'[v] = IF v = w THEN queue[v] \ {e} ELSE queue[v]
      /\ e.task \in Tasks /\ held[w] = NoTask /\ runner[w] = "none" /\ stopping' = stopping
  <2>1. dispatcher[w] = "get" /\ stopping' = stopping
    BY DEF DispatchGet
  <2>2. held[w] = NoTask /\ runner[w] = "none"
    BY <2>1 DEF PoolInv, Control
  <2>3. e.task \in Tasks
    BY DEF PoolInv, TypeOK
  <2> QED BY <1>1, <2>1, <2>2, <2>3 DEF PoolInv, TypeOK
<1>3. /\ IsFiniteSet(queue'[w]) /\ HardIn(queue'[w]) \in Nat
      /\ HardIn(queue[w]) = HardIn(queue'[w]) + (1 - Priority(e.task))
  <2>1. IsFiniteSet(queue[w]) /\ queue'[w] = queue[w] \ {e}
    BY <1>2 DEF Finite
  <2> QED BY <2>1, HardRemove
<1>4. Finite'
  BY <1>2, <1>3 DEF Finite
<1>5. Priority(e.task) \in Int /\ hardQueued[w] \in Int /\ e.task # NoTask
  BY <1>2, TasksAssumption DEF Priority, PoolInv, TypeOK
<1>6. \A v \in Terminals : v # w => UNCHANGED <<held[v], hardQueued[v], runner[v]>>
  BY <1>1 DEF CreateTask, PoolInv, TypeOK
<1>7. stopping = "no" => hardQueued[w] = HardIn(queue[w])
  <2>1. HardHeld(w) = 0
    BY <1>2 DEF HardHeld
  <2>2. HardIn(queue[w]) \in Int
    BY <1>3, <1>5
  <2> QED BY <1>2, <2>1, <2>2, CountOf DEF Counted
<1>8. \/ hardQueued'[w] + (1 - Priority(e.task)) = hardQueued[w] /\ held'[w] = NoTask
      \/ hardQueued'[w] = hardQueued[w] /\ held'[w] = e.task
  <2>1. CASE CreateTask(w, e.task)
    <3>1. hardQueued'[w] = (IF Hard(e.task) THEN hardQueued[w] - 1 ELSE hardQueued[w]) /\ held'[w] = NoTask
      BY <2>1 DEF CreateTask, PoolInv, TypeOK
    <3>2. CASE Hard(e.task)
      BY <1>5, <3>1, <3>2 DEF Hard
    <3>3. CASE ~Hard(e.task)
      BY <1>5, <3>1, <3>3 DEF Hard, Priority
    <3> QED BY <3>2, <3>3
  <2>2. CASE held' = [held EXCEPT ![w] = e.task] /\ UNCHANGED <<runner, hardQueued>>
    BY <2>2 DEF PoolInv, TypeOK
  <2> QED BY <1>1, <2>1, <2>2
<1>9. hardQueued'[w] \in Int
  BY <1>1, <1>5 DEF CreateTask, PoolInv, TypeOK
<1>10. ASSUME NEW v \in Terminals, stopping = "no", runner'[v] # "drain"
       PROVE  hardQueued'[v] = HardIn(queue'[v]) + (IF held'[v] # NoTask THEN 1 - Priority(held'[v]) ELSE 0)
  <2>1. CASE v = w
    <3>1. hardQueued[w] = HardIn(queue'[w]) + (1 - Priority(e.task))
      BY <1>3, <1>7, <1>10
    <3>2. CASE hardQueued'[w] + (1 - Priority(e.task)) = hardQueued[w] /\ held'[w] = NoTask
      <4>1. hardQueued'[w] = HardIn(queue'[w])
        BY <1>3, <1>5, <1>9, <3>1, <3>2
      <4> QED BY <1>3, <2>1, <3>2, <4>1
    <3>3. CASE hardQueued'[w] = hardQueued[w] /\ held'[w] = e.task
      BY <1>5, <2>1, <3>1, <3>3
    <3> QED BY <1>8, <3>2, <3>3
  <2>2. CASE v # w
    <3>1. runner[v] # "drain" /\ queue'[v] = queue[v]
      BY <1>2, <1>6, <1>10, <2>2
    <3>2. Counted(v)
      BY <1>10, <3>1, CountOf
    <3> QED BY <1>6, <2>2, <3>1, <3>2 DEF Counted, HardHeld
  <2> QED BY <2>1, <2>2
<1> QED BY <1>2, <1>4, <1>10 DEF HardCount, HardIn

\* The dispatcher's hand empties into the run.
LEMMA HeldCount ==
  ASSUME PoolInv, HardCount, Finite, NEW w \in Terminals, DispatchHeld(w)
  PROVE  HardCount' /\ Finite'
<1>1. /\ CreateTask(w, held[w]) /\ UNCHANGED <<queue, stopping>>
      /\ held[w] # NoTask /\ runner[w] = "none" /\ hardQueued[w] \in Int
  BY DEF DispatchHeld, PoolInv, TypeOK, Control
<1>2. /\ \A v \in Terminals : v # w => UNCHANGED <<held[v], hardQueued[v], runner[v]>>
      /\ held'[w] = NoTask
      /\ hardQueued'[w] = hardQueued[w] - (1 - Priority(held[w]))
  BY <1>1, HardIsOne DEF CreateTask, PoolInv, TypeOK
<1>3. Finite'
  BY <1>1 DEF Finite
<1>4. HardIn(queue[w]) \in Int
  <2>1. IsFiniteSet({e \in queue[w] : Hard(e.task)})
    BY FS_Subset DEF Finite
  <2> QED BY <2>1, FS_CardinalityType DEF HardIn
<1>5. ASSUME NEW v \in Terminals, stopping = "no", runner'[v] # "drain"
      PROVE  hardQueued'[v] = HardIn(queue[v]) + (IF held'[v] # NoTask THEN 1 - Priority(held'[v]) ELSE 0)
  <2>1. CASE v = w
    <3>1. hardQueued[w] = HardIn(queue[w]) + (1 - Priority(held[w]))
      BY <1>1, <1>5, CountOf DEF Counted, HardHeld
    <3>2. Priority(held[w]) \in Int
      BY DEF Priority
    <3> QED BY <1>2, <1>4, <2>1, <3>1, <3>2
  <2>2. CASE v # w
    BY <1>2, <1>5, <2>2, CountOf DEF Counted, HardHeld
  <2> QED BY <2>1, <2>2
<1> QED BY <1>1, <1>3, <1>5 DEF HardCount, HardIn

\* One turn of a drain, and its end.
LEMMA DrainCount ==
  ASSUME PoolInv, HardCount, Finite, NEW w \in Terminals, Drain(w)
  PROVE  HardCount' /\ Finite'
<1>1. runner[w] = "drain" /\ held[w] = NoTask /\ UNCHANGED <<held, stopping>>
  <2>1. runner[w] = "drain" /\ UNCHANGED <<held, stopping>>
    BY DEF Drain, dispatchVars
  <2> QED BY <2>1 DEF PoolInv, Control
<1>2. PICK S \in SUBSET queue[w] :
        /\ \A v \in Terminals : queue'[v] = IF v = w THEN S ELSE queue[v]
        /\ runner'[w] = "drain" \/ (S = {} /\ hardQueued'[w] = 0)
        /\ \A v \in Terminals : v # w => UNCHANGED <<hardQueued[v], runner[v]>>
  <2>1. CASE \E e \in First(w) : /\ queue' = [queue EXCEPT ![w] = @ \ {e}]
                                 /\ BeginReport(w, e.task, "drain")
                                 /\ UNCHANGED hardQueued
    <3>1. PICK e \in First(w) : /\ queue' = [queue EXCEPT ![w] = @ \ {e}]
                                /\ BeginReport(w, e.task, "drain")
                                /\ UNCHANGED hardQueued
      BY <2>1
    <3>2. queue[w] \ {e} \in SUBSET queue[w]
      OBVIOUS
    <3>3. /\ \A v \in Terminals : queue'[v] = IF v = w THEN queue[w] \ {e} ELSE queue[v]
          /\ runner'[w] = "drain"
          /\ \A v \in Terminals : v # w => UNCHANGED <<hardQueued[v], runner[v]>>
      BY <3>1 DEF BeginReport, PoolInv, TypeOK
    <3> QED BY <3>2, <3>3
  <2>2. CASE /\ queue[w] = {} /\ hardQueued' = [hardQueued EXCEPT ![w] = 0]
             /\ RunEnds(w) /\ UNCHANGED queue
    <3>1. /\ \A v \in Terminals : queue'[v] = IF v = w THEN {} ELSE queue[v]
          /\ hardQueued'[w] = 0
          /\ \A v \in Terminals : v # w => UNCHANGED <<hardQueued[v], runner[v]>>
      BY <2>2 DEF RunEnds, PoolInv, TypeOK
    <3> QED BY <3>1
  <2> QED BY <2>1, <2>2 DEF Drain
<1>3. Finite'
  BY <1>2, FS_Subset DEF Finite
<1>4. ASSUME NEW v \in Terminals, stopping = "no", runner'[v] # "drain"
      PROVE  hardQueued'[v] = HardIn(queue'[v]) + HardHeld(v)
  <2>1. CASE v = w
    <3>1. hardQueued'[w] = 0 /\ {e \in queue'[w] : Hard(e.task)} = {}
      BY <1>2, <1>4, <2>1
    <3>2. HardIn(queue'[w]) = 0 /\ HardHeld(w) = 0
      BY <1>1, <3>1, FS_EmptySet DEF HardIn, HardHeld
    <3> QED BY <2>1, <3>1, <3>2
  <2>2. CASE v # w
    BY <1>2, <1>4, <2>2, CountOf DEF Counted
  <2> QED BY <2>1, <2>2
<1> QED BY <1>1, <1>3, <1>4 DEF HardCount, HardIn, HardHeld

\* A run ends, or has its report or its drain begin.
LEMMA ConcludeCount ==
  ASSUME PoolInv, HardCount, Finite, NEW w \in Terminals, NEW r, runner[w] \notin {"none", "drain"},
         Conclude(w, job[w], r), UNCHANGED <<held, stopping>>
  PROVE  HardCount' /\ Finite'
<1>1. job[w] \in Tasks /\ job[w].terminal = w /\ job[w] \notin Queued(w)
  <2>1. job[w] \in Tasks
    BY JobIsATask DEF PoolInv
  <2>2. job[w] # NoTask
    BY <2>1, TasksAssumption
  <2>3. job[w].terminal = w
    BY <2>2 DEF PoolInv, Placed
  <2>4. job[w] \in Queued(job[w].terminal) => job[job[w].terminal] # job[w]
    BY <2>1 DEF PoolInv, Placed
  <2> QED BY <2>1, <2>3, <2>4
<1>2. \A v \in Terminals : runner'[v] # "drain" => runner[v] # "drain"
  BY DEF Conclude, RunEnds, BeginReport, PoolInv, TypeOK
<1>3. CASE Enqueue(job[w])
  BY <1>1, <1>2, <1>3, EnqueueCount
<1>4. CASE UNCHANGED <<queue, hardQueued>>
  BY <1>2, <1>4, CountFrame
<1> QED BY <1>3, <1>4 DEF Conclude

\* Every action keeps the count.
LEMMA CountStep == PoolInv /\ HardCount /\ Finite /\ [Next]_vars => HardCount' /\ Finite'
<1> SUFFICES ASSUME PoolInv, HardCount, Finite, [Next]_vars PROVE HardCount' /\ Finite'
  OBVIOUS
<1> USE TasksAssumption DEF vars, taskVars, queueVars, dispatchVars, runVars, workerVars, reapVars
<1>1. ASSUME UNCHANGED <<queue, hardQueued, held, runner>>, stopping' = "no" => stopping = "no"
      PROVE  HardCount' /\ Finite'
  BY <1>1, CountFrame
<1>2. ASSUME NEW t \in Tasks, Submit(t) PROVE HardCount' /\ Finite'
  <2>1. t \notin Queued(t.terminal) /\ UNCHANGED <<held, runner, stopping>>
    BY <1>2 DEF Submit, PoolInv, Placed
  <2>2. CASE Enqueue(t)
    BY <2>1, <2>2, EnqueueCount
  <2>3. CASE UNCHANGED queueVars
    BY <1>1, <2>1, <2>3
  <2> QED BY <1>2, <2>2, <2>3 DEF Submit
<1>3. ASSUME NEW w \in Terminals, DispatchGet(w) \/ DispatchHeld(w) \/ Drain(w)
      PROVE  HardCount' /\ Finite'
  BY <1>3, GetCount, HeldCount, DrainCount
<1>4. ASSUME NEW w \in Terminals, UNCHANGED <<queue, hardQueued, held, stopping>>,
             \E p \in {"none", "roundtrip", "rotate", "ladder", "report", "drain"} :
               runner' = [runner EXCEPT ![w] = p],
             runner[w] # "drain"
      PROVE  HardCount' /\ Finite'
  <2>1. \A v \in Terminals : runner'[v] # "drain" => runner[v] # "drain"
    BY <1>4 DEF PoolInv, TypeOK
  <2> QED BY <1>4, <2>1, CountFrame
<1>5. ASSUME NEW w \in Terminals,
             Begin(w) \/ AnswerClosing(w) \/ Rotated(w) \/ RotateRaises(w) \/ Report(w)
      PROVE  HardCount' /\ Finite'
  BY <1>4, <1>5 DEF Begin, AnswerClosing, Rotated, RotateRaises, Report, RunEnds, BeginReport
<1>6. ASSUME NEW w \in Terminals, AnswerOpen(w) PROVE HardCount' /\ Finite'
  <2>1. runner[w] = "roundtrip" /\ UNCHANGED <<held, stopping>>
    BY <1>6 DEF AnswerOpen
  <2>2. \/ Quarantine(w)
        \/ \E r : AwaitRotation(w, r) \/ AwaitRestart(w, r)
        \/ \E r : Conclude(w, job[w], r)
    BY <1>6 DEF AnswerOpen, KeepWorker
  <2>3. CASE Quarantine(w) \/ \E r : AwaitRotation(w, r) \/ AwaitRestart(w, r)
    BY <1>4, <2>1, <2>3 DEF Quarantine, BeginReport, AwaitRotation, AwaitRestart
  <2>4. CASE \E r : Conclude(w, job[w], r)
    BY <2>1, <2>4, ConcludeCount
  <2> QED BY <2>2, <2>3, <2>4
<1>7. ASSUME NEW w \in Terminals, TaskSpawnUp(w) \/ TaskGiveUp(w) PROVE HardCount' /\ Finite'
  <2>1. runner[w] = "ladder" /\ UNCHANGED <<held, stopping>> /\ Conclude(w, job[w], outcome[w])
    BY <1>7 DEF TaskSpawnUp, TaskGiveUp
  <2> QED BY <2>1, ConcludeCount
<1>8. ASSUME NEW w \in Terminals,
             \/ DispatchReady(w) \/ DispatchNext(w) \/ TaskSpawn(w) \/ TaskSpawnDown(w) \/ Reap(w)
      PROVE  HardCount' /\ Finite'
  BY <1>1, <1>8 DEF DispatchReady, DispatchNext, TaskSpawn, TaskSpawnDown, Reap, Reproxy,
    Reproxied, Reclone, RecloneRaises, Rebuilt, HoldSource, ReleaseSource, ReapSpawn, ReapSpawnUp,
    ReapSpawnDown, ReapGiveUp
<1>9. ASSUME ReapBatch \/ BeginStop \/ CancelReaper \/ StopWorkers PROVE HardCount' /\ Finite'
  BY <1>1, <1>9 DEF ReapBatch, ReapFailed, RestartBatch, RestartDone, BeginStop, CancelReaper,
    StopWorkers
<1>10. ASSUME FinishStop PROVE HardCount' /\ Finite'
  <2>1. stopping' # "no" /\ \A w \in Terminals : queue'[w] = {}
    BY <1>10 DEF FinishStop
  <2> QED BY <2>1, FS_EmptySet DEF HardCount, Finite
<1>11. ASSUME NEW w \in Terminals, CancelDispatcher(w) PROVE HardCount' /\ Finite'
  <2>1. stopping' # "no" /\ queue' = queue
    BY <1>11 DEF CancelDispatcher
  <2> QED BY <2>1 DEF HardCount, Finite
<1>12. ASSUME DrainTimeout PROVE HardCount' /\ Finite'
  <2>1. stopping' # "no" /\ queue' = queue
    BY <1>12 DEF DrainTimeout
  <2> QED BY <2>1 DEF HardCount, Finite
<1> QED
  BY <1>1, <1>2, <1>3, <1>5, <1>6, <1>7, <1>8, <1>9, <1>10, <1>11, <1>12 DEF Next, Serve, Stop, Dispatch, Run

\* hard_queued counts the hard tasks that wait, in the queue or in the
\* dispatcher's hand, for any tasks and terminals, through retries and drains, as
\* long as the pool is not stopped.
THEOREM HardTasksAreCounted == Spec => []HardCount
<1>1. Init => HardCount /\ Finite
  <2> SUFFICES ASSUME Init PROVE HardCount /\ Finite
    OBVIOUS
  <2>1. \A w \in Terminals : {e \in queue[w] : Hard(e.task)} = {}
    BY DEF Init
  <2> QED BY <2>1, FS_EmptySet DEF Init, HardCount, Finite
<1> QED
  BY <1>1, PoolInvariant, CountStep, PTL DEF Spec

-----------------------------------------------------------------------------
(* HardJumpsTheLine *)

\* An entry is ranked by what its task is.
Ranked == \A w \in Terminals : \A e \in queue[w] : e.priority = Priority(e.task)

\* No step but one of the dispatcher's creates a task, and it is the first of the
\* queue or the one the dispatcher held.
LEMMA WhoIsCreated ==
  ASSUME TypeOK, [Next]_vars, NEW w \in Terminals, runner[w] # "created", runner'[w] = "created"
  PROVE  job'[w] = held[w] \/ \E e \in First(w) : job'[w] = e.task
<1> USE DEF vars, taskVars, queueVars, dispatchVars, runVars, workerVars, reapVars
<1>1. ASSUME NEW v \in Terminals, DispatchGet(v) \/ DispatchHeld(v)
      PROVE  job'[w] = held[w] \/ \E e \in First(w) : job'[w] = e.task
  <2>1. PICK t : job' = [job EXCEPT ![v] = t] /\ (t = held[v] \/ \E e \in First(v) : t = e.task) /\ v = w
    <3>1. CASE DispatchHeld(v)
      BY <3>1 DEF DispatchHeld, CreateTask, TypeOK
    <3>2. CASE DispatchGet(v)
      <4>1. PICK e \in First(v) : CreateTask(v, e.task) \/ UNCHANGED runner
        BY <3>2 DEF DispatchGet
      <4>2. CreateTask(v, e.task) /\ v = w
        BY <4>1 DEF CreateTask, TypeOK
      <4> QED BY <4>2 DEF CreateTask
    <3> QED BY <1>1, <3>1, <3>2
  <2> QED BY <2>1 DEF TypeOK
<1>2. ASSUME NEW v \in Terminals, NEW p \in {"none", "roundtrip", "rotate", "ladder", "report", "drain"},
             runner' = [runner EXCEPT ![v] = p]
      PROVE  FALSE
  BY <1>2 DEF TypeOK
<1>3. ASSUME NEW v \in Terminals, Run(v) PROVE FALSE
  <2>1. ASSUME NEW t, NEW r, Conclude(v, t, r) PROVE FALSE
    BY <1>2, <2>1 DEF Conclude, RunEnds, BeginReport
  <2>2. ~(Begin(v) \/ AnswerClosing(v) \/ Rotated(v) \/ RotateRaises(v) \/ Report(v) \/ Drain(v))
    BY <1>2 DEF Begin, AnswerClosing, Rotated, RotateRaises, Report, Drain, RunEnds, BeginReport
  <2>3. ~(TaskSpawn(v) \/ TaskSpawnDown(v))
    BY DEF TaskSpawn, TaskSpawnDown
  <2>4. ~(TaskSpawnUp(v) \/ TaskGiveUp(v))
    BY <2>1 DEF TaskSpawnUp, TaskGiveUp
  <2>5. ~AnswerOpen(v)
    BY <1>2, <2>1 DEF AnswerOpen, Quarantine, AwaitRotation, AwaitRestart, KeepWorker, BeginReport
  <2> QED BY <1>3, <2>2, <2>3, <2>4, <2>5 DEF Run
<1>4. ASSUME NEW v \in Terminals, DispatchReady(v) \/ DispatchNext(v) \/ Reap(v) \/ CancelDispatcher(v)
      PROVE  UNCHANGED runner
  BY <1>4 DEF DispatchReady, DispatchNext, CancelDispatcher, Reap, Reproxy, Reproxied, Reclone, RecloneRaises,
     Rebuilt, HoldSource, ReleaseSource, ReapSpawn, ReapSpawnUp, ReapSpawnDown, ReapGiveUp
<1>5. ASSUME (\E t \in Tasks : Submit(t)) \/ ReapBatch \/ BeginStop \/ CancelReaper \/ StopWorkers \/ FinishStop
             \/ UNCHANGED vars
      PROVE  UNCHANGED runner
  BY <1>5 DEF Submit, ReapBatch, ReapFailed, RestartBatch, RestartDone, BeginStop, CancelReaper, StopWorkers, FinishStop
<1>6. DrainTimeout => runner'[w] = "none"
  BY DEF DrainTimeout
<1> QED
  BY <1>1, <1>3, <1>4, <1>5, <1>6 DEF Next, Serve, Stop, Dispatch

\* Nothing gets into a queue but by put(), which ranks it.
LEMMA WhoIsQueued ==
  ASSUME PoolInv, [Next]_vars, NEW w \in Terminals, NEW e \in queue'[w]
  PROVE  e \in queue[w] \/ \E t \in Tasks : e = Entry(t)
<1> USE DEF vars, taskVars, queueVars, dispatchVars, runVars, workerVars, reapVars
<1>0. TypeOK
  BY DEF PoolInv
<1>1. ASSUME NEW t \in Tasks, Enqueue(t) PROVE e \in queue[w] \/ \E u \in Tasks : e = Entry(u)
  BY <1>0, <1>1 DEF Enqueue, TypeOK
<1>2. ASSUME NEW v \in Terminals, NEW f, queue' = [queue EXCEPT ![v] = @ \ {f}] PROVE e \in queue[w]
  BY <1>0, <1>2 DEF TypeOK
<1>3. ASSUME NEW t \in Tasks, Submit(t) PROVE e \in queue[w] \/ \E u \in Tasks : e = Entry(u)
  BY <1>1, <1>3 DEF Submit
<1>4. ASSUME NEW v \in Terminals, DispatchGet(v) \/ Drain(v) PROVE e \in queue[w]
  BY <1>2, <1>4 DEF DispatchGet, Drain
<1>5. ASSUME NEW v \in Terminals, NEW r, Conclude(v, job[v], r), job[v] \in Tasks
      PROVE  e \in queue[w] \/ \E u \in Tasks : e = Entry(u)
  BY <1>1, <1>5 DEF Conclude
<1>6. ASSUME NEW v \in Terminals, AnswerOpen(v) \/ TaskSpawnUp(v) \/ TaskGiveUp(v)
      PROVE  e \in queue[w] \/ \E u \in Tasks : e = Entry(u)
  <2>1. runner[v] # "none"
    BY <1>6 DEF AnswerOpen, TaskSpawnUp, TaskGiveUp
  <2>2. job[v] \in Tasks
    BY <2>1, JobIsATask DEF PoolInv
  <2>3. UNCHANGED queue \/ \E r : Conclude(v, job[v], r)
    BY <1>6 DEF AnswerOpen, TaskSpawnUp, TaskGiveUp, Quarantine, AwaitRotation, AwaitRestart, KeepWorker
  <2> QED BY <1>5, <2>2, <2>3
<1>7. ASSUME NEW v \in Terminals,
             \/ DispatchReady(v) \/ DispatchHeld(v) \/ DispatchNext(v) \/ Begin(v) \/ AnswerClosing(v) \/ Rotated(v)
             \/ RotateRaises(v) \/ Report(v) \/ TaskSpawn(v) \/ TaskSpawnDown(v) \/ Reap(v) \/ CancelDispatcher(v)
      PROVE  UNCHANGED queue
  BY <1>7 DEF DispatchReady, DispatchHeld, DispatchNext, Begin, AnswerClosing, Rotated, RotateRaises, Report,
     TaskSpawn, TaskSpawnDown, CancelDispatcher, Reap, Reproxy, Reproxied, Reclone, RecloneRaises, Rebuilt,
     HoldSource, ReleaseSource, ReapSpawn, ReapSpawnUp, ReapSpawnDown, ReapGiveUp
<1>8. ASSUME ReapBatch \/ BeginStop \/ CancelReaper \/ StopWorkers \/ DrainTimeout \/ UNCHANGED vars
      PROVE  UNCHANGED queue
  BY <1>8 DEF ReapBatch, ReapFailed, RestartBatch, RestartDone, BeginStop, CancelReaper, StopWorkers, DrainTimeout
<1>9. ~FinishStop
  BY DEF FinishStop
<1> QED
  BY <1>3, <1>4, <1>6, <1>7, <1>8, <1>9 DEF Next, Serve, Stop, Dispatch, Run

\* The ranks stay right.
LEMMA RankStep == PoolInv /\ Ranked /\ [Next]_vars => Ranked'
<1> SUFFICES ASSUME PoolInv, Ranked, [Next]_vars, NEW w \in Terminals, NEW e \in queue'[w]
             PROVE  e.priority = Priority(e.task)
  BY DEF Ranked
<1>1. \A t \in Tasks : Entry(t).priority = Priority(Entry(t).task)
  BY DEF Entry
<1> QED BY <1>1, WhoIsQueued DEF Ranked

\* The first of a queue is a scheduled task only when no other is there.
LEMMA FirstIsHard ==
  ASSUME Ranked, NEW w \in Terminals, NEW e \in First(w), ~Hard(e.task), NEW t \in Queued(w)
  PROVE  ~Hard(t)
<1>1. PICK f \in queue[w] : t = f.task
  BY DEF Queued
<1>2. e.priority = 1 /\ f.priority = Priority(t) /\ Before(e, f)
  BY <1>1 DEF Ranked, First, Hard, Priority
<1>3. f.priority # 0
  BY <1>2 DEF Before
<1> QED BY <1>2, <1>3 DEF Hard

\* While a hard task waits no scheduled one starts, on any terminals and for any tasks,
\* except the one the dispatcher had in its hand.
THEOREM HardTasksComeFirst == Spec => HardJumpsTheLine
<1>1. Init => Ranked
  BY DEF Init, Ranked
<1>2. PoolInv /\ Ranked /\ [Next]_vars =>
        [\A w \in Terminals :
           runner[w] = "none" /\ runner'[w] = "created" /\ ~Hard(job'[w])
             => job'[w] = held[w] \/ \A t \in Queued(w) : ~Hard(t)]_vars
  BY WhoIsCreated, FirstIsHard DEF PoolInv
<1> QED
  BY <1>1, <1>2, PoolInvariant, RankStep, PTL DEF Spec, HardJumpsTheLine
-----------------------------------------------------------------------------
(* Pool implements TerminalLifecycle *)

\* The terminal the reaper rebuilds is still recloning.
RebuildsRecloning == reaper.duty \in Reclones => \A w \in reaper.todo : health[w] = "recloning"

\* A health that moves at one terminal as the lifecycle allows.
LifecycleStep(w) ==
  Lifecycle!Success(w) \/ Lifecycle!Strike(w) \/ Lifecycle!StartReclone(w) \/ Lifecycle!EndReclone(w)

\* What an answer may make of a health is a success, a strike or nothing.
LEMMA VerdictFollows ==
  ASSUME TypeOK, NEW w \in Terminals, NEW r, NEW after \in Verdict(w, r),
         health' = [health EXCEPT ![w] = after]
  PROVE  LifecycleStep(w) \/ UNCHANGED health
<1>1. health = [health EXCEPT ![w] = health[w]]
  BY DEF TypeOK
<1>2. \/ after = health[w] \/ after = Lifecycle!AfterSuccess(health[w])
      \/ after \in Lifecycle!AfterStrike(health[w])
  BY DEF Verdict
<1> QED BY <1>1, <1>2 DEF LifecycleStep, Lifecycle!Success, Lifecycle!Strike

\* Only an answer and the reclone duty move a health.
LEMMA HealthStep ==
  ASSUME PoolInv, NothingOnUnusable, ReaperIsSafe, RebuildsRecloning, [Next]_vars
  PROVE  [Lifecycle!Next]_health /\ RebuildsRecloning'
<1> USE DutyParts DEF vars, taskVars, queueVars, dispatchVars, runVars, workerVars, reapVars
<1>0. /\ health \in [Terminals -> Lifecycle!TerminalState] /\ reapLadder \in [Terminals -> Ladder]
      /\ reaper.todo \subseteq Terminals
  BY DEF PoolInv, TypeOK
<1>1. ASSUME NEW w \in Terminals, LifecycleStep(w) PROVE Lifecycle!Next
  BY <1>1 DEF LifecycleStep, Lifecycle!Next
<1>2. ASSUME UNCHANGED health, UNCHANGED reaper \/ reaper'.duty \notin Reclones
      PROVE  [Lifecycle!Next]_health /\ RebuildsRecloning'
  BY <1>2 DEF RebuildsRecloning
<1>3. ASSUME NEW w \in Terminals, Rebuilt(w) PROVE [Lifecycle!Next]_health /\ RebuildsRecloning'
  BY <1>3 DEF Rebuilt, RebuildsRecloning, Reclones
<1>4. ASSUME NEW w \in Terminals, Reclone(w) PROVE [Lifecycle!Next]_health /\ RebuildsRecloning'
  <2>1. Lifecycle!StartReclone(w) /\ reaper' = Duty("reclone", {w})
    BY <1>4 DEF Reclone
  <2>2. health'[w] = "recloning"
    BY <1>0, <2>1 DEF Lifecycle!StartReclone
  <2> QED BY <1>1, <2>1, <2>2 DEF RebuildsRecloning, LifecycleStep
<1>5. ASSUME NEW w \in Terminals, RecloneRaises(w) PROVE [Lifecycle!Next]_health /\ RebuildsRecloning'
  <2>1. /\ health[w] = "recloning" /\ health' = [health EXCEPT ![w] = "quarantined"]
        /\ reaper' = Asleep
    BY <1>5 DEF RecloneRaises, RebuildsRecloning, Reclones
  <2>2. LifecycleStep(w)
    BY <2>1 DEF LifecycleStep, Lifecycle!EndReclone
  <2>3. reaper'.duty \notin Reclones
    BY <2>1 DEF Asleep, Reclones
  <2> QED BY <1>1, <2>2, <2>3 DEF RebuildsRecloning
<1>6. ASSUME NEW w \in Terminals, ReapSpawnUp(w) \/ ReapGiveUp(w)
      PROVE  [Lifecycle!Next]_health /\ RebuildsRecloning'
  <2>1. reapLadder[w] # NoLadder
    BY <1>0, <1>6, LadderPhases DEF ReapSpawnUp, ReapGiveUp
  <2>2. CASE reaper.duty = "recloneRestart"
    <3>1. health[w] = "recloning"
      BY <2>1, <2>2 DEF ReaperIsSafe, RebuildsRecloning, Reclones
    <3>2. \E s \in {"healthy", "quarantined"} : health' = [health EXCEPT ![w] = s]
      BY <1>6, <2>2 DEF ReapSpawnUp, ReapGiveUp
    <3>3. LifecycleStep(w)
      BY <3>1, <3>2 DEF LifecycleStep, Lifecycle!EndReclone
    <3>4. reaper' = Asleep
      BY <1>6, <2>2 DEF ReapSpawnUp, ReapGiveUp, EndDuty
    <3> QED BY <1>1, <3>3, <3>4 DEF RebuildsRecloning, Asleep, Reclones
  <2>3. CASE reaper.duty # "recloneRestart"
    <3>1. UNCHANGED health /\ reaper' \in {reaper, Asleep}
      BY <1>6, <2>3 DEF ReapSpawnUp, ReapGiveUp, EndDuty
    <3> QED BY <1>2, <3>1 DEF Asleep, Reclones
  <2> QED BY <2>2, <2>3
<1>7. ASSUME NEW w \in Terminals,
             Reproxy(w) \/ Reproxied(w) \/ HoldSource(w) \/ ReleaseSource(w) \/ ReapSpawn(w) \/ ReapSpawnDown(w)
      PROVE  [Lifecycle!Next]_health /\ RebuildsRecloning'
  <2>1. UNCHANGED health /\ (UNCHANGED reaper \/ reaper'.duty \notin Reclones)
    BY <1>7 DEF Reproxy, Reproxied, HoldSource, ReleaseSource, ReapSpawn, ReapSpawnDown, Asleep, Reclones
  <2> QED BY <1>2, <2>1
<1>8. ASSUME NEW w \in Terminals, AnswerOpen(w) PROVE [Lifecycle!Next]_health /\ RebuildsRecloning'
  <2>1. PICK r \in Outcomes : \E after \in Verdict(w, r) : health' = [health EXCEPT ![w] = after]
    BY <1>8 DEF AnswerOpen
  <2>2. PICK after \in Verdict(w, r) : health' = [health EXCEPT ![w] = after]
    BY <2>1
  <2>3. [Lifecycle!Next]_health
    BY <1>1, <2>2, VerdictFollows DEF PoolInv
  <2>4. runner[w] = "roundtrip" /\ UNCHANGED reaper
    BY <1>8 DEF AnswerOpen
  <2>5. Usable(w)
    BY <2>4, BusyIsUsable
  <2>6. \A v \in Terminals : health[v] = "recloning" => health'[v] = "recloning"
    BY <1>0, <2>2, <2>5 DEF Usable, Lifecycle!UsableState
  <2> QED BY <1>0, <2>3, <2>4, <2>6 DEF RebuildsRecloning
<1>9. ASSUME NEW w \in Terminals, Dispatch(w) \/ Run(w) \/ CancelDispatcher(w), ~AnswerOpen(w)
      PROVE  [Lifecycle!Next]_health /\ RebuildsRecloning'
  <2>1. UNCHANGED <<health, reaper>>
    BY <1>9 DEF Dispatch, DispatchReady, DispatchGet, DispatchHeld, DispatchNext, Run, Begin, AnswerClosing,
       Rotated, RotateRaises, TaskSpawn, TaskSpawnUp, TaskSpawnDown, TaskGiveUp, Report, Drain, CancelDispatcher
  <2> QED BY <1>2, <2>1
<1>10. ASSUME (\E t \in Tasks : Submit(t)) \/ ReapBatch \/ BeginStop \/ CancelReaper \/ StopWorkers \/ FinishStop
              \/ DrainTimeout \/ UNCHANGED vars
       PROVE  [Lifecycle!Next]_health /\ RebuildsRecloning'
  <2>1. UNCHANGED health
    BY <1>10 DEF Submit, ReapBatch, ReapFailed, RestartBatch, RestartDone, BeginStop, CancelReaper, StopWorkers,
       FinishStop, DrainTimeout
  <2>2. (\E t \in Tasks : Submit(t)) \/ BeginStop \/ StopWorkers \/ FinishStop \/ DrainTimeout \/ UNCHANGED vars
          => UNCHANGED reaper
    BY DEF Submit, BeginStop, StopWorkers, FinishStop, DrainTimeout
  <2>3. ReapBatch \/ CancelReaper => reaper'.duty \notin Reclones
    <3>1. ReapFailed \/ RestartBatch => \E S : reaper' = Duty("restart", S)
      BY DEF ReapFailed, RestartBatch
    <3>2. RestartDone \/ CancelReaper => \E name \in {"sleep", "over"} : reaper' = Duty(name, {})
      BY DEF RestartDone, CancelReaper, Asleep
    <3> QED BY <3>1, <3>2 DEF ReapBatch, Reclones
  <2> QED BY <1>2, <1>10, <2>1, <2>2, <2>3
<1> QED
  BY <1>3, <1>4, <1>5, <1>6, <1>7, <1>8, <1>9, <1>10 DEF Next, Serve, Stop, Reap

\* A terminal of the pool gets worse one degree at a time and comes back only by a start
\* or by a reclone that began at a quarantine: the pool keeps TerminalLifecycle.
THEOREM HealthFollowsLifecycle == Spec => Lifecycle!Spec
<1>1. Init => NothingOnUnusable /\ ReaperIsSafe /\ RebuildsRecloning /\ Lifecycle!Init
  BY DutyParts DEF Init, NothingOnUnusable, ReaperIsSafe, RebuildsRecloning, Reclones, Usable, Lifecycle!Init,
     Lifecycle!UsableState
<1>2. PoolInv /\ NothingOnUnusable /\ ReaperIsSafe /\ RebuildsRecloning /\ [Next]_vars
        => [Lifecycle!Next]_health /\ RebuildsRecloning'
  BY HealthStep
<1> QED
  BY <1>1, <1>2, PoolInvariant, UnusableStep, PTL DEF Spec, Lifecycle!Spec
=============================================================================
