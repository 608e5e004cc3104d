---------------------------- MODULE WorkerHandle ----------------------------
(***************************************************************************)
(* WorkerHandle (pool/worker_handle.py): the worker process of one terminal *)
(* and its pipe, spawned, restarted and terminated by the two coroutines    *)
(* that may climb the restart ladder of one handle, the task that lost its  *)
(* worker and the reaper, also when a quarantined terminal is recloned, and *)
(* by PoolManager.stop(); the reaper also holds it while the folder of its  *)
(* terminal is copied over the master.  The process itself (pool/worker.py) *)
(* says hello, may die, and leaves when its pipe closes.                    *)
(*                                                                         *)
(* self.process and self.connection are always assigned together: current.  *)
(***************************************************************************)
EXTENDS Integers, FiniteSets

CONSTANTS Pids,             \* bound: the processes alive or remembered at a time
          NoPid,
          RestartAttempts   \* _RESTART_ATTEMPTS

ASSUME HandleAssumption ==
  /\ NoPid \notin Pids
  /\ RestartAttempts \in Nat \ {0}

Climber == {"task", "reaper"}

VARIABLES
  state,     \* WorkerHandle.state
  ready,     \* WorkerHandle.ready
  current,   \* WorkerHandle.process and .connection
  alive,     \* the worker processes of this terminal that run
  hello,     \* those that have sent their worker_id
  ladder,    \* per climber: where it stands in restart(), and its locals
  task,      \* where _run_item of this terminal's task stands
  pipe,      \* the connection its roundtrip() captured
  listed,    \* the worker is in the reaper's list failed, not yet restarted
  health,    \* TerminalState of the terminal; usable is healthy or suspect
  stopping,  \* progress of PoolManager.stop()
  victim,    \* what stop() is terminating
  behind,    \* history: who marked the worker failed left its process behind
  overlap    \* history: the reaper, on the handle, and a task have met

processes == <<current, alive, hello>>
runner == <<task, pipe>>
stopper == <<stopping, victim>>
met == <<behind, overlap>>
vars == <<state, ready, processes, ladder, runner, listed, health, stopper, met>>

\* Awaiting the end of pid ("terminate", "undo", "clear"), its hello ("recv"),
\* the copy of the folder ("clone", "promote"), or time.
Rung(at, pid, left) == [at |-> at, pid |-> pid, left |-> left]

Rest == Rung("off", NoPid, 0)

Off(c) == ladder[c].at = "off"

Other(c) == IF c = "task" THEN "reaper" ELSE "task"

Init ==
  /\ \/ \E p \in Pids : /\ current = p /\ alive = {p} /\ hello = {p}
                        /\ state = "idle" /\ ready = TRUE
     \/ /\ current = NoPid /\ alive = {} /\ hello = {}
        /\ state = "failed" /\ ready = FALSE
  /\ ladder = [c \in Climber |-> Rest]
  /\ task = "none" /\ pipe = NoPid
  /\ listed = FALSE /\ health = "usable"
  /\ stopping = "no" /\ victim = NoPid
  /\ behind = FALSE /\ overlap = FALSE

-----------------------------------------------------------------------------
(* mark_idle, mark_failed, terminate, spawn *)

MarkIdle == state' = "idle" /\ ready' = TRUE

\* Mutant: the worker is left starting.
LeaveStarting == state' = "starting" /\ ready' = FALSE

MarkFailed == state' = "failed" /\ ready' = FALSE

\* The pids some coroutine or attribute still remembers.
Remembered == {current, pipe, victim} \cup {ladder[c].pid : c \in Climber}

Kill(S) == alive' = alive \ S /\ hello' = hello \ S

\* The process starts and becomes the handle's, whatever was there before.
Launch(c, left, dead, isReady) ==
  \E p \in Pids \ (alive \cup Remembered) :
    /\ alive' = (alive \ dead) \cup {p}
    /\ hello' = hello \ dead
    /\ current' = p
    /\ state' = "starting" /\ ready' = isReady
    /\ ladder' = [ladder EXCEPT ![c] = Rung("recv", p, left)]

\* _start_failed: terminate what the handle holds by now, then mark it failed.
StartFailed(c, left, dead, isReady) ==
  /\ Kill(dead)
  /\ IF current = NoPid
     THEN /\ MarkFailed
          /\ ladder' = [ladder EXCEPT ![c] = Rung("sleep", NoPid, left)]
          /\ UNCHANGED current
     ELSE /\ ladder' = [ladder EXCEPT ![c] = Rung("undo", current, left)]
          /\ current' = NoPid
          /\ ready' = isReady /\ UNCHANGED state

\* The next rung of the ladder: the process starts, or will not.
Spawn(c, left, dead, isReady) == \/ Launch(c, left - 1, dead, isReady)
                                 \/ StartFailed(c, left - 1, dead, isReady)

Meets(c) == ~Off(Other(c)) \/ (c = "reaper" /\ task # "none")

\* Mutant: terminate() leaves the process on the handle while it waits for it.
KeepOnHandle(c) ==
  /\ overlap' = (overlap \/ Meets(c)) /\ behind' = FALSE
  /\ IF current = NoPid
     THEN Spawn(c, RestartAttempts, {}, FALSE)
     ELSE /\ state' = "restarting" /\ ready' = FALSE
          /\ ladder' = [ladder EXCEPT ![c] = Rung("terminate", current, RestartAttempts)]
          /\ UNCHANGED processes

\* restart() up to its first await: terminate() takes the process off the
\* handle before it waits for it; without one nothing is awaited until the spawn.
Restart(c) ==
  /\ overlap' = (overlap \/ Meets(c)) /\ behind' = FALSE
  /\ IF current = NoPid
     THEN Spawn(c, RestartAttempts, {}, FALSE)
     ELSE /\ state' = "restarting" /\ ready' = FALSE
          /\ ladder' = [ladder EXCEPT ![c] = Rung("terminate", current, RestartAttempts)]
          /\ current' = NoPid
          /\ UNCHANGED <<alive, hello>>

Terminated(c) ==
  /\ ladder[c].at = "terminate"
  /\ Spawn(c, ladder[c].left, {ladder[c].pid}, ready)
  /\ UNCHANGED <<runner, listed, health, stopper, met>>

\* What the end of a ladder says of the terminal it was cloned for.
Recloned(c, end) == IF c = "reaper" /\ health = "recloning" THEN end ELSE health

\* recv() brought the worker_id: spawn() and restart() return True.
Up(c) ==
  /\ ladder[c].at = "recv" /\ ladder[c].pid \in hello
  /\ MarkIdle
  /\ ladder' = [ladder EXCEPT ![c] = Rest]
  /\ task' = IF c = "task" THEN "none" ELSE task
  /\ health' = Recloned(c, "usable")
  /\ UNCHANGED <<processes, pipe, listed, stopper, met>>

\* recv() timed out, met the end of the pipe or a pipe closed under it.
Down(c) ==
  /\ ladder[c].at = "recv"
  /\ StartFailed(c, ladder[c].left, {}, ready)
  /\ UNCHANGED <<runner, listed, health, stopper, met>>

Undone(c) ==
  /\ ladder[c].at = "undo"
  /\ Kill({ladder[c].pid})
  /\ MarkFailed
  /\ ladder' = [ladder EXCEPT ![c] = Rung("sleep", NoPid, ladder[c].left)]
  /\ UNCHANGED <<current, runner, listed, health, stopper, met>>

NextRung(c) ==
  /\ ladder[c].at = "sleep" /\ ladder[c].left > 0
  /\ Spawn(c, ladder[c].left, {}, ready)
  /\ UNCHANGED <<runner, listed, health, stopper, met>>

\* restart() returns False: the task marks the worker failed, the reaper leaves it.
GiveUp(c) ==
  /\ ladder[c].at = "sleep" /\ ladder[c].left = 0
  /\ ladder' = [ladder EXCEPT ![c] = Rest]
  /\ IF c = "task" THEN MarkFailed /\ task' = "none" ELSE UNCHANGED <<state, ready, task>>
  /\ health' = Recloned(c, "quarantined")
  /\ UNCHANGED <<processes, pipe, listed, stopper, met>>

-----------------------------------------------------------------------------
(* The process: worker_main sends its id, may die, leaves at end of file *)

Hello(p) ==
  /\ p \in alive \ hello
  /\ hello' = hello \cup {p}
  /\ UNCHANGED <<state, ready, current, alive, ladder, runner, listed, health, stopper, met>>

Crash(p) ==
  /\ p \in alive
  /\ Kill({p})
  /\ UNCHANGED <<state, ready, current, ladder, runner, listed, health, stopper, met>>

\* Nobody holds the parent's end of its pipe any more.
Leave(p) ==
  /\ p \in alive \ Remembered
  /\ Kill({p})
  /\ UNCHANGED <<state, ready, current, ladder, runner, listed, health, stopper, met>>

-----------------------------------------------------------------------------
(* The task, the reaper and stop(), as far as they touch the handle *)

\* The dispatcher creates the task; claim() and roundtrip() come when it runs.
Create ==
  /\ task = "none" /\ ready /\ health = "usable" /\ stopping = "no"
  /\ task' = "created"
  /\ UNCHANGED <<state, ready, processes, ladder, pipe, listed, health, stopper, met>>

Claim ==
  /\ task = "created"
  /\ task' = "trip" /\ pipe' = current
  /\ state' = "busy"
  /\ overlap' = (overlap \/ ~Off("reaper"))
  /\ UNCHANGED <<ready, processes, ladder, listed, health, stopper, behind>>

Answer ==
  /\ task = "trip" /\ pipe \in alive
  /\ task' = "none" /\ pipe' = NoPid
  /\ IF stopping = "no" THEN MarkIdle ELSE UNCHANGED <<state, ready>>
  /\ UNCHANGED <<processes, ladder, listed, health, stopper, met>>

\* A timeout, a closed pipe, no pipe at all, or a terminal that is lost.
Break ==
  /\ task = "trip"
  /\ pipe' = NoPid
  /\ IF stopping = "no"
     THEN task' = "restart" /\ Restart("task")
     ELSE task' = "none" /\ UNCHANGED <<state, ready, processes, ladder, met>>
  /\ UNCHANGED <<listed, health, stopper>>

\* The proxy is dead: rotate() looks for another before the worker is restarted.
LoseProxy ==
  /\ task = "trip" /\ stopping = "no"
  /\ task' = "rotate" /\ pipe' = NoPid
  /\ UNCHANGED <<state, ready, processes, ladder, listed, health, stopper, met>>

Rotated ==
  /\ task = "rotate"
  /\ task' = "restart"
  /\ Restart("task")
  /\ UNCHANGED <<pipe, listed, health, stopper>>

\* _execute: rotate() or the answer raised; the worker is marked failed as it is.
Raise ==
  /\ task \in {"trip", "rotate"}
  /\ task' = "none" /\ pipe' = NoPid
  /\ MarkFailed
  /\ behind' = TRUE
  /\ UNCHANGED <<processes, ladder, listed, health, stopper, overlap>>

\* _quarantine: the worker is marked failed, its process and pipe stay.
Condemn ==
  /\ task = "trip" /\ stopping = "no"
  /\ task' = "none" /\ pipe' = NoPid
  /\ MarkFailed
  /\ behind' = TRUE
  /\ health' = "quarantined"
  /\ UNCHANGED <<processes, ladder, listed, stopper, overlap>>

ReaperLists ==
  /\ stopping = "no" /\ Off("reaper") /\ ~listed /\ state = "failed" /\ health = "usable"
  /\ listed' = TRUE
  /\ UNCHANGED <<state, ready, processes, ladder, runner, health, stopper, met>>

\* Its batch comes, however long the batches before it took.
ReaperRestarts ==
  /\ stopping = "no" /\ Off("reaper") /\ listed
  /\ listed' = FALSE
  /\ Restart("reaper")
  /\ UNCHANGED <<runner, health, stopper>>

\* _reproxy_idle
Reproxy ==
  /\ stopping = "no" /\ Off("reaper") /\ ~listed /\ state = "idle" /\ health = "usable"
  /\ Restart("reaper")
  /\ UNCHANGED <<runner, listed, health, stopper>>

\* Mutant: the folder is replaced under the worker that is still there.
RecloneOver ==
  /\ stopping = "no" /\ Off("reaper") /\ ~listed /\ health = "quarantined"
  /\ health' = "recloning"
  /\ ladder' = [ladder EXCEPT !["reaper"] = Rung("clone", NoPid, 0)]
  /\ UNCHANGED <<state, ready, processes, runner, listed, stopper, met>>

\* _maybe_reclone: what the quarantine left is terminated before the folder goes.
Reclone ==
  /\ stopping = "no" /\ Off("reaper") /\ ~listed /\ health = "quarantined"
  /\ health' = "recloning"
  /\ ladder' = [ladder EXCEPT !["reaper"] = Rung(IF current = NoPid THEN "clone" ELSE "clear", current, 0)]
  /\ current' = NoPid
  /\ UNCHANGED <<state, ready, alive, hello, runner, listed, stopper, met>>

Cleared ==
  /\ ladder["reaper"].at = "clear"
  /\ Kill({ladder["reaper"].pid})
  /\ ladder' = [ladder EXCEPT !["reaper"] = Rung("clone", NoPid, 0)]
  /\ behind' = FALSE
  /\ UNCHANGED <<state, ready, current, runner, listed, health, stopper, overlap>>

Cloned ==
  /\ ladder["reaper"].at = "clone"
  /\ Restart("reaper")
  /\ UNCHANGED <<runner, listed, health, stopper>>

CloneFails ==
  /\ ladder["reaper"].at = "clone"
  /\ ladder' = [ladder EXCEPT !["reaper"] = Rest]
  /\ health' = "quarantined"
  /\ UNCHANGED <<state, ready, processes, runner, listed, stopper, met>>

\* _maybe_refresh_master: the worker is held, its process stays.
Promote ==
  /\ stopping = "no" /\ Off("reaper") /\ ~listed /\ state = "idle" /\ health = "usable"
  /\ state' = "restarting" /\ ready' = FALSE
  /\ ladder' = [ladder EXCEPT !["reaper"] = Rung("promote", NoPid, 0)]
  /\ overlap' = (overlap \/ Meets("reaper"))
  /\ UNCHANGED <<processes, runner, listed, health, stopper, behind>>

\* finally: whatever a task has made of the worker meanwhile.
Promoted ==
  /\ ladder["reaper"].at = "promote"
  /\ ladder' = [ladder EXCEPT !["reaper"] = Rest]
  /\ MarkIdle
  /\ UNCHANGED <<processes, runner, listed, health, stopper, met>>

\* The reaper is cancelled wherever it stands; then the handle is terminated.
BeginStop ==
  /\ stopping = "no"
  /\ stopping' = "terminate"
  /\ IF ladder["reaper"].at = "promote" THEN MarkIdle ELSE UNCHANGED <<state, ready>>
  /\ ladder' = [ladder EXCEPT !["reaper"] = Rest]
  /\ listed' = FALSE
  /\ victim' = current
  /\ current' = NoPid
  /\ UNCHANGED <<alive, hello, runner, health, met>>

Stopped ==
  /\ stopping = "terminate"
  /\ stopping' = "stopped"
  /\ Kill({victim})
  /\ victim' = NoPid
  /\ state' = "stopped"
  /\ UNCHANGED <<ready, current, ladder, runner, listed, health, met>>

\* The drain has run out: a task that is left is cancelled where it awaits.
Cancel ==
  /\ stopping = "stopped" /\ task # "none"
  /\ task' = "none" /\ pipe' = NoPid
  /\ ladder' = [ladder EXCEPT !["task"] = Rest]
  /\ UNCHANGED <<state, ready, processes, listed, health, stopper, met>>

-----------------------------------------------------------------------------
Climb(c) == Terminated(c) \/ Up(c) \/ Down(c) \/ Undone(c) \/ NextRung(c) \/ GiveUp(c)

Serve == \/ \E c \in Climber : Climb(c)
         \/ \E p \in Pids : Hello(p) \/ Crash(p) \/ Leave(p)
         \/ Create \/ Claim \/ Answer \/ Break \/ LoseProxy \/ Rotated \/ Raise \/ Condemn
         \/ ReaperLists \/ ReaperRestarts \/ Reproxy
         \/ Reclone \/ Cleared \/ Cloned \/ CloneFails \/ Promote \/ Promoted

Next == Serve \/ BeginStop \/ Stopped \/ Cancel

Spec == Init /\ [][Next]_vars

Launches(c) == /\ Terminated(c) \/ NextRung(c) \/ (c = "reaper" /\ (ReaperRestarts \/ Cloned)) \/ (c = "task" /\ Rotated)
               /\ state' = "starting"

\* Coroutines whose await is over run; the reaper comes round; a process started
\* again and again comes up at last, says hello and is heard, and a folder cloned
\* again and again is copied at last.
Fairness ==
  /\ \A c \in Climber : WF_vars(Climb(c)) /\ SF_vars(Launches(c)) /\ SF_vars(Up(c))
  /\ \A c \in Climber : SF_vars(ladder[c].at = "recv" /\ Hello(ladder[c].pid))
  /\ WF_vars(\E p \in Pids : Leave(p))
  /\ WF_vars(Claim \/ Break \/ Rotated) /\ WF_vars(ReaperRestarts) /\ WF_vars(Cleared) /\ WF_vars(Promoted)
  /\ SF_vars(ReaperLists \/ Reclone)

FairSpec == Spec /\ Fairness

-----------------------------------------------------------------------------
(* Properties *)

\* Every variable keeps the range the code gives it.
TypeOK ==
  /\ state \in {"starting", "idle", "busy", "restarting", "failed", "stopped"}
  /\ ready \in BOOLEAN
  /\ current \in Pids \cup {NoPid} /\ pipe \in Pids \cup {NoPid} /\ victim \in Pids \cup {NoPid}
  /\ alive \subseteq Pids /\ hello \subseteq alive
  /\ ladder \in [Climber -> [at : {"off", "terminate", "recv", "undo", "sleep", "clear", "clone", "promote"},
                             pid : Pids \cup {NoPid}, left : 0..RestartAttempts]]
  /\ task \in {"none", "created", "trip", "rotate", "restart"}
  /\ listed \in BOOLEAN /\ behind \in BOOLEAN /\ overlap \in BOOLEAN
  /\ health \in {"usable", "quarantined", "recloning"}
  /\ stopping \in {"no", "terminate", "stopped"}

InService == ready /\ health = "usable"

\* While the reaper and a task have not met on the handle it is what it claims to
\* be: never two processes, one of them on the handle when the worker is ready or
\* held for the master, none when it is failed unless a quarantine or an exception
\* left it there, and none while the folder of its terminal is replaced.
AloneIsClean ==
  ~overlap /\ stopping = "no" =>
    /\ Cardinality(alive) <= 1
    /\ InService \/ ladder["reaper"].at = "promote" => current # NoPid
    /\ state = "failed" /\ ~behind => current = NoPid /\ alive = {}
    /\ ladder["reaper"].at = "clone" => alive = {}

\* A process nobody can talk to or terminate any more is never one that will
\* stay: it is not on the handle and no coroutine remembers it, so its pipe is
\* closed; what is on the handle is not marked to die.
HandleIsNotCondemned ==
  current # NoPid => /\ current # victim
                     /\ \A c \in Climber : ladder[c].at \in {"terminate", "undo", "clear"} => ladder[c].pid # current

\* A worker out of service comes back unless the pool is stopped, whatever the
\* ladders do to each other, and out of a quarantine through its reclone.
ComesBack == ~InService ~> InService \/ stopping # "no"
=============================================================================
