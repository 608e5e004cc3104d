-------------------------- MODULE WorkerHandleProofs --------------------------
(* Proofs about WorkerHandle. *)
EXTENDS WorkerHandle, FiniteSetTheorems, TLAPS

\* A ladder that waits for the end of a process has a rung left to climb.
RungsLeft == \A c \in Climber : ladder[c].at = "terminate" => ladder[c].left > 0

\* What is idle is ready: mark_idle sets both.
IdleIsReady == state = "idle" => ready

\* The inductive invariant of the two results that hold with overlaps.
Invariant == TypeOK /\ RungsLeft /\ HandleIsNotCondemned /\ IdleIsReady

Rungs == {"off", "terminate", "recv", "undo", "sleep", "clear", "clone", "promote"}

AnyRung == [at : Rungs, pid : Pids \cup {NoPid}, left : 0..RestartAttempts]

\* The part of the type invariant that a ladder's steps change.
HandleType ==
  /\ state \in {"starting", "idle", "busy", "restarting", "failed", "stopped"}
  /\ ready \in BOOLEAN
  /\ current \in Pids \cup {NoPid}
  /\ alive \subseteq Pids /\ hello \subseteq alive
  /\ ladder \in [Climber -> AnyRung]

LadderKeeps == HandleType /\ RungsLeft /\ HandleIsNotCondemned /\ IdleIsReady

\* One ladder steps to a rung, the other stays.
LEMMA RungSteps ==
  ASSUME HandleType, RungsLeft, NEW c \in Climber,
         NEW at \in Rungs,
         NEW pid \in Pids \cup {NoPid}, NEW left \in 0..RestartAttempts,
         at = "terminate" => left > 0,
         ladder' = [ladder EXCEPT ![c] = Rung(at, pid, left)]
  PROVE  /\ ladder' \in [Climber -> AnyRung]
         /\ RungsLeft'
         /\ ladder'[c].at = at /\ ladder'[c].pid = pid
         /\ \A d \in Climber : d # c => ladder'[d] = ladder[d]
<1>1. Rung(at, pid, left) \in AnyRung
  BY DEF Rung, AnyRung
<1>2. /\ ladder'[c] = Rung(at, pid, left)
      /\ \A d \in Climber : d # c => ladder'[d] = ladder[d]
  BY DEF HandleType
<1>3. /\ Rung(at, pid, left).at = at /\ Rung(at, pid, left).pid = pid /\ Rung(at, pid, left).left = left
  BY DEF Rung
<1>4. RungsLeft'
  BY <1>2, <1>3 DEF RungsLeft
<1>5. ladder' \in [Climber -> AnyRung]
  BY <1>1 DEF HandleType
<1> QED BY <1>2, <1>3, <1>4, <1>5

\* A rung at rest.
LEMMA RestIsRung == 0 \in 0..RestartAttempts /\ Rest = Rung("off", NoPid, 0)
  BY HandleAssumption DEF Rest

\* What the handle holds after a failed start is not marked to die.
LEMMA StartFailedKeeps ==
  ASSUME LadderKeeps, victim \in Pids \cup {NoPid}, victim' = victim, NEW c \in Climber,
         NEW left \in 0..RestartAttempts, NEW dead, NEW isReady \in BOOLEAN, current # NoPid => isReady = ready, StartFailed(c, left, dead, isReady)
  PROVE  LadderKeeps'
<1> USE DEF LadderKeeps, Rungs, IdleIsReady
<1>1. alive' \subseteq Pids /\ hello' \subseteq alive'
  BY DEF StartFailed, Kill, HandleType
<1>2. CASE current = NoPid
  <2>1. /\ current' = NoPid /\ state' = "failed" /\ ready' = FALSE
        /\ ladder' = [ladder EXCEPT ![c] = Rung("sleep", NoPid, left)]
    BY <1>2 DEF StartFailed, MarkFailed
  <2> QED BY <1>1, <2>1, RungSteps DEF HandleType, HandleIsNotCondemned
<1>3. CASE current # NoPid
  <2>1. /\ current' = NoPid /\ state' = state /\ ready' = isReady
        /\ ladder' = [ladder EXCEPT ![c] = Rung("undo", current, left)]
    BY <1>3 DEF StartFailed
  <2>2. current \in Pids \cup {NoPid}
    BY DEF HandleType
  <2> QED BY <1>1, <1>3, <2>1, <2>2, RungSteps DEF HandleType, HandleIsNotCondemned
<1> QED BY <1>2, <1>3

\* A new process is none that anybody remembers.
LEMMA SpawnKeeps ==
  ASSUME LadderKeeps, victim \in Pids \cup {NoPid}, victim' = victim, NEW c \in Climber,
         NEW left \in 1..RestartAttempts, NEW dead, NEW isReady \in BOOLEAN, current # NoPid => isReady = ready, Spawn(c, left, dead, isReady)
  PROVE  LadderKeeps'
<1> USE DEF LadderKeeps, Rungs, IdleIsReady
<1>1. left - 1 \in 0..RestartAttempts
  BY HandleAssumption
<1>2. CASE StartFailed(c, left - 1, dead, isReady)
  BY <1>1, <1>2, StartFailedKeeps
<1>3. ASSUME NEW p \in Pids \ (alive \cup Remembered),
             alive' = (alive \ dead) \cup {p}, hello' = hello \ dead, current' = p,
             state' = "starting", ready' = isReady,
             ladder' = [ladder EXCEPT ![c] = Rung("recv", p, left - 1)]
      PROVE  LadderKeeps'
  <2>1. /\ RungsLeft'
        /\ ladder' \in [Climber -> AnyRung]
        /\ ladder'[c].at = "recv" /\ \A d \in Climber : d # c => ladder'[d] = ladder[d]
    BY <1>1, <1>3, RungSteps
  <2>2. p # victim /\ \A d \in Climber : p # ladder[d].pid
    BY <1>3 DEF Remembered
  <2>3. HandleIsNotCondemned'
    BY <1>3, <2>1, <2>2 DEF HandleIsNotCondemned
  <2>4. HandleType'
    BY <1>3, <2>1 DEF HandleType
  <2> QED BY <1>3, <2>1, <2>3, <2>4
<1> QED BY <1>2, <1>3 DEF Spawn, Launch

\* A restart takes the process off the handle before it waits for its end.
LEMMA RestartKeeps ==
  ASSUME LadderKeeps, victim \in Pids \cup {NoPid}, victim' = victim, NEW c \in Climber, Restart(c)
  PROVE  LadderKeeps'
<1> USE DEF LadderKeeps, Rungs, IdleIsReady
<1>1. RestartAttempts \in 1..RestartAttempts /\ RestartAttempts \in 0..RestartAttempts /\ RestartAttempts > 0
  BY HandleAssumption
<1>2. CASE current = NoPid
  BY <1>1, <1>2, SpawnKeeps DEF Restart
<1>3. CASE current # NoPid
  <2>1. /\ current' = NoPid /\ state' = "restarting" /\ ready' = FALSE
        /\ ladder' = [ladder EXCEPT ![c] = Rung("terminate", current, RestartAttempts)]
        /\ UNCHANGED <<alive, hello>>
    BY <1>3 DEF Restart
  <2>2. current \in Pids \cup {NoPid}
    BY DEF HandleType
  <2> QED BY <1>1, <2>1, <2>2, RungSteps DEF HandleType, HandleIsNotCondemned
<1> QED BY <1>2, <1>3

\* A ladder that comes to rest, or to a rung that remembers nothing.
LEMMA RungForgets ==
  ASSUME LadderKeeps, victim' = victim, NEW c \in Climber,
         NEW at \in {"off", "sleep", "clone", "promote"}, NEW left \in 0..RestartAttempts,
         ladder' = [ladder EXCEPT ![c] = Rung(at, NoPid, left)],
         current' = current
  PROVE  /\ ladder' \in [Climber -> AnyRung]
         /\ RungsLeft' /\ HandleIsNotCondemned'
<1>1. /\ ladder' \in [Climber -> AnyRung]
      /\ RungsLeft'
      /\ ladder'[c].at = at /\ \A d \in Climber : d # c => ladder'[d] = ladder[d]
  BY RungSteps DEF LadderKeeps, Rungs
<1>2. HandleIsNotCondemned'
  BY <1>1 DEF LadderKeeps, HandleIsNotCondemned
<1> QED BY <1>1, <1>2

\* The invariant's parts, as the steps of a ladder see them.
LEMMA InvariantParts == Invariant => LadderKeeps /\ victim \in Pids \cup {NoPid}
  BY DEF Invariant, LadderKeeps, HandleType, TypeOK, AnyRung, Rungs, IdleIsReady

\* Every step of a ladder keeps the invariant.
LEMMA ClimbKeeps ==
  ASSUME Invariant, NEW c \in Climber, Climb(c)
  PROVE  Invariant'
<1>1. LadderKeeps /\ victim \in Pids \cup {NoPid}
  BY InvariantParts
<1>2. ladder[c].left \in 0..RestartAttempts /\ ready \in BOOLEAN
  BY <1>1 DEF LadderKeeps, HandleType, AnyRung
<1>3. SUFFICES /\ LadderKeeps' /\ UNCHANGED <<pipe, victim, listed, stopping, behind, overlap>>
               /\ task' \in {"none", "created", "trip", "rotate", "restart"}
               /\ health' \in {"usable", "quarantined", "recloning"}
  BY DEF Invariant, LadderKeeps, HandleType, TypeOK, AnyRung, Rungs, IdleIsReady
<1>4. task \in {"none", "created", "trip", "rotate", "restart"} /\ health \in {"usable", "quarantined", "recloning"}
  BY DEF Invariant, TypeOK
<1>5. CASE Terminated(c)
  <2>1. ladder[c].left \in 1..RestartAttempts
    BY <1>1, <1>2, <1>5, HandleAssumption DEF Terminated, LadderKeeps, RungsLeft
  <2> QED BY <1>1, <1>2, <1>4, <1>5, <2>1, SpawnKeeps DEF Terminated, runner, stopper, met
<1>6. CASE Up(c)
  <2>1. ladder' = [ladder EXCEPT ![c] = Rung("off", NoPid, 0)] /\ current' = current
    BY <1>6, RestIsRung DEF Up, processes
  <2>2. LadderKeeps'
    BY <1>1, <1>6, <2>1, RungForgets, RestIsRung DEF Up, MarkIdle, processes, stopper, met, LadderKeeps, HandleType, IdleIsReady
  <2> QED BY <1>4, <1>6, <2>2 DEF Up, Recloned, stopper, met
<1>7. CASE Down(c)
  BY <1>1, <1>2, <1>4, <1>7, StartFailedKeeps DEF Down, runner, stopper, met
<1>8. CASE Undone(c)
  <2>1. LadderKeeps'
    BY <1>1, <1>2, <1>8, RungForgets DEF Undone, Kill, MarkFailed, stopper, met, LadderKeeps, HandleType, IdleIsReady
  <2> QED BY <1>4, <1>8, <2>1 DEF Undone, runner, stopper, met
<1>9. CASE NextRung(c)
  <2>1. ladder[c].left \in 1..RestartAttempts
    BY <1>2, <1>9, HandleAssumption DEF NextRung
  <2> QED BY <1>1, <1>2, <1>4, <1>9, <2>1, SpawnKeeps DEF NextRung, runner, stopper, met
<1>10. CASE GiveUp(c)
  <2>1. ladder' = [ladder EXCEPT ![c] = Rung("off", NoPid, 0)] /\ current' = current
    BY <1>10, RestIsRung DEF GiveUp, processes
  <2>2. LadderKeeps'
    BY <1>1, <1>10, <2>1, RungForgets, RestIsRung DEF GiveUp, MarkFailed, processes, stopper, met, LadderKeeps, HandleType, IdleIsReady
  <2> QED BY <1>4, <1>10, <2>2 DEF GiveUp, Recloned, stopper, met
<1> QED BY <1>5, <1>6, <1>7, <1>8, <1>9, <1>10 DEF Climb

\* Every step keeps the invariant, whatever ladders meet.
LEMMA StepKeeps ==
  ASSUME Invariant, [Next]_vars
  PROVE  Invariant'
<1>1. LadderKeeps /\ victim \in Pids \cup {NoPid}
  BY InvariantParts
<1>2. SUFFICES /\ LadderKeeps' /\ pipe' \in Pids \cup {NoPid} /\ victim' \in Pids \cup {NoPid}
               /\ task' \in {"none", "created", "trip", "rotate", "restart"}
               /\ listed' \in BOOLEAN /\ behind' \in BOOLEAN /\ overlap' \in BOOLEAN
               /\ health' \in {"usable", "quarantined", "recloning"}
               /\ stopping' \in {"no", "terminate", "stopped"}
  BY DEF Invariant, LadderKeeps, HandleType, TypeOK, AnyRung, Rungs, IdleIsReady
<1>3. /\ pipe \in Pids \cup {NoPid}
      /\ task \in {"none", "created", "trip", "rotate", "restart"}
      /\ listed \in BOOLEAN /\ behind \in BOOLEAN /\ overlap \in BOOLEAN
      /\ health \in {"usable", "quarantined", "recloning"}
      /\ stopping \in {"no", "terminate", "stopped"}
      /\ current \in Pids \cup {NoPid}
  BY DEF Invariant, TypeOK
<1>4. ASSUME NEW c \in Climber, Restart(c)
      PROVE  overlap' \in BOOLEAN /\ behind' \in BOOLEAN
  BY <1>4 DEF Restart
<1>5. "reaper" \in Climber /\ "task" \in Climber
  BY DEF Climber
<1> USE <1>1, <1>3
<1>6. ASSUME NEW c \in Climber, Climb(c)
      PROVE  Invariant'
  BY <1>6, ClimbKeeps
<1>7. ASSUME NEW p \in Pids, Hello(p) \/ Crash(p) \/ Leave(p)
      PROVE  LadderKeeps' /\ UNCHANGED <<runner, listed, health, stopper, met>>
  BY <1>7 DEF Hello, Crash, Leave, Kill, LadderKeeps, HandleType, RungsLeft, HandleIsNotCondemned, IdleIsReady, runner, stopper, met
<1>8. CASE Create \/ Claim \/ Answer \/ LoseProxy \/ Raise \/ Condemn \/ ReaperLists
  <2>1. LadderKeeps'
    BY <1>8 DEF Create, Claim, Answer, LoseProxy, Raise, Condemn, ReaperLists, MarkIdle, MarkFailed, processes, stopper, met, runner,
                LadderKeeps, HandleType, RungsLeft, HandleIsNotCondemned, IdleIsReady
  <2> QED BY <1>8, <2>1 DEF Create, Claim, Answer, LoseProxy, Raise, Condemn, ReaperLists, processes, stopper, met, runner, Off
<1>9. CASE Break
  <2>1. CASE stopping = "no"
    <3>1. LadderKeeps'
      BY <1>5, <1>9, <2>1, RestartKeeps DEF Break, stopper, met
    <3>2. overlap' \in BOOLEAN /\ behind' \in BOOLEAN
      BY <1>4, <1>5, <1>9, <2>1 DEF Break
    <3> QED BY <1>9, <2>1, <3>1, <3>2 DEF Break, stopper, met
  <2>2. CASE stopping # "no"
    BY <1>9, <2>2 DEF Break, stopper, met, processes, LadderKeeps, HandleType, RungsLeft, HandleIsNotCondemned, IdleIsReady
  <2> QED BY <2>1, <2>2
<1>20. CASE Rotated
  <2>1. LadderKeeps'
    BY <1>5, <1>20, RestartKeeps DEF Rotated, stopper
  <2>2. overlap' \in BOOLEAN /\ behind' \in BOOLEAN
    BY <1>4, <1>5, <1>20 DEF Rotated
  <2> QED BY <1>20, <2>1, <2>2 DEF Rotated, stopper
<1>21. CASE Promote
  <2>1. /\ ladder' = [ladder EXCEPT !["reaper"] = Rung("promote", NoPid, 0)]
        /\ state' = "restarting" /\ ready' = FALSE /\ UNCHANGED <<current, alive, hello, victim>>
    BY <1>21 DEF Promote, processes, stopper
  <2>2. LadderKeeps'
    BY <1>5, <2>1, RungForgets, RestIsRung DEF LadderKeeps, HandleType, IdleIsReady
  <2> QED BY <1>21, <2>2 DEF Promote, runner, stopper
<1>22. CASE Promoted
  <2>1. /\ ladder' = [ladder EXCEPT !["reaper"] = Rung("off", NoPid, 0)]
        /\ state' = "idle" /\ ready' = TRUE /\ UNCHANGED <<current, alive, hello, victim>>
    BY <1>22, RestIsRung DEF Promoted, MarkIdle, processes, stopper
  <2>2. LadderKeeps'
    BY <1>5, <2>1, RungForgets, RestIsRung DEF LadderKeeps, HandleType, IdleIsReady
  <2> QED BY <1>22, <2>2 DEF Promoted, runner, stopper, met
<1>23. CASE Cancel
  <2>1. /\ ladder' = [ladder EXCEPT !["task"] = Rung("off", NoPid, 0)]
        /\ UNCHANGED <<state, ready, current, alive, hello, victim>>
    BY <1>23, RestIsRung DEF Cancel, processes, stopper
  <2>2. LadderKeeps'
    BY <1>5, <2>1, RungForgets, RestIsRung DEF LadderKeeps, HandleType, IdleIsReady
  <2> QED BY <1>23, <2>2 DEF Cancel, stopper, met
<1>10. CASE ReaperRestarts \/ Reproxy \/ Cloned
  <2>1. Restart("reaper") /\ victim' = victim
    BY <1>10 DEF ReaperRestarts, Reproxy, Cloned, stopper, met
  <2>2. LadderKeeps' /\ overlap' \in BOOLEAN /\ behind' \in BOOLEAN
    BY <1>4, <1>5, <2>1, RestartKeeps
  <2> QED BY <1>10, <2>2 DEF ReaperRestarts, Reproxy, Cloned, runner, stopper, met
<1>11. CASE Reclone
  <2>1. /\ ladder' = [ladder EXCEPT !["reaper"] = Rung(IF current = NoPid THEN "clone" ELSE "clear", current, 0)]
        /\ current' = NoPid /\ UNCHANGED <<state, ready, alive, hello, runner, listed, stopper, met>>
        /\ health' = "recloning"
    BY <1>11 DEF Reclone
  <2>2. LadderKeeps'
    BY <1>5, <2>1, RungSteps, RestIsRung DEF LadderKeeps, HandleType, HandleIsNotCondemned, IdleIsReady, Rungs
  <2> QED BY <2>1, <2>2 DEF runner, stopper, met
<1>12. CASE Cleared
  <2>1. LadderKeeps'
    BY <1>5, <1>12, RungForgets, RestIsRung DEF Cleared, Kill, stopper, met, LadderKeeps, HandleType, IdleIsReady
  <2> QED BY <1>12, <2>1 DEF Cleared, runner, stopper, met
<1>13. CASE CloneFails
  <2>1. LadderKeeps'
    BY <1>5, <1>13, RungForgets, RestIsRung DEF CloneFails, processes, stopper, met, LadderKeeps, HandleType, IdleIsReady
  <2> QED BY <1>13, <2>1 DEF CloneFails, runner, stopper, met
<1>14. CASE BeginStop
  <2>1. /\ ladder' = [ladder EXCEPT !["reaper"] = Rung("off", NoPid, 0)]
        /\ current' = NoPid /\ UNCHANGED <<alive, hello>>
        /\ (state' = "idle" /\ ready' = TRUE) \/ UNCHANGED <<state, ready>>
    BY <1>14, RestIsRung DEF BeginStop, MarkIdle
  <2>2. LadderKeeps'
    BY <1>5, <2>1, RungSteps, RestIsRung DEF LadderKeeps, HandleType, HandleIsNotCondemned, IdleIsReady, Rungs
  <2> QED BY <1>14, <2>2 DEF BeginStop, runner, met
<1>15. CASE Stopped
  <2>1. LadderKeeps'
    BY <1>15, HandleAssumption DEF Stopped, Kill, LadderKeeps, HandleType, RungsLeft, HandleIsNotCondemned, IdleIsReady
  <2> QED BY <1>15, <2>1 DEF Stopped, runner, met
<1>16. UNCHANGED vars => LadderKeeps'
  BY DEF vars, processes, runner, stopper, met, LadderKeeps, HandleType, RungsLeft, HandleIsNotCondemned, IdleIsReady
<1>17. CASE \E c \in Climber : Climb(c)
  BY <1>6, <1>17 DEF Invariant, LadderKeeps, HandleType, TypeOK, AnyRung, Rungs, IdleIsReady
<1>18. CASE \E p \in Pids : Hello(p) \/ Crash(p) \/ Leave(p)
  BY <1>7, <1>18 DEF runner, stopper, met
<1>19. CASE UNCHANGED vars
  BY <1>16, <1>19 DEF vars, runner, stopper, met
<1> QED
  BY <1>8, <1>9, <1>10, <1>11, <1>12, <1>13, <1>14, <1>15, <1>17, <1>18, <1>19, <1>20, <1>21, <1>22, <1>23
  DEF Next, Serve

\* The handle begins with a process that said hello or with none.
LEMMA Starts == Init => Invariant
<1> SUFFICES ASSUME Init PROVE Invariant
  OBVIOUS
<1>1. Rest \in AnyRung /\ Rest.at = "off"
  BY RestIsRung DEF Rung, AnyRung, Rungs
<1>2. \A c \in Climber : ladder[c] = Rest
  BY DEF Init
<1>3. LadderKeeps
  BY <1>1, <1>2, HandleAssumption DEF Init, LadderKeeps, HandleType, RungsLeft, HandleIsNotCondemned, IdleIsReady
<1> QED BY <1>3 DEF Init, Invariant, LadderKeeps, HandleType, TypeOK, AnyRung, Rungs

\* Every variable of the handle keeps its range, whatever ladders meet.
THEOREM HandleTypeCorrect == Spec => []TypeOK
<1>1. Invariant => TypeOK
  BY DEF Invariant
<1> QED BY <1>1, Starts, StepKeeps, PTL DEF Spec

\* What is on the handle is never a process somebody has set out to terminate, for
\* any process ids and rungs, whatever the ladders, the task and stop() do to it.
THEOREM NeverCondemned == Spec => []HandleIsNotCondemned
<1>1. Invariant => HandleIsNotCondemned
  BY DEF Invariant
<1> QED BY <1>1, Starts, StepKeeps, PTL DEF Spec

-----------------------------------------------------------------------------
(* Without an overlap *)

\* What runs, and what the handle holds, where a ladder stands.
RungIsClean(c) ==
  /\ ladder[c].at \in {"terminate", "undo", "clear"} => current = NoPid /\ alive \subseteq {ladder[c].pid}
  /\ ladder[c].at = "promote" => current # NoPid /\ alive \subseteq {current}
  /\ ladder[c].at = "recv" => current = ladder[c].pid /\ current # NoPid /\ alive \subseteq {current}
  /\ ladder[c].at \in {"sleep", "clone"} => current = NoPid /\ alive = {}
  /\ ladder[c].at \in {"terminate", "recv", "undo", "sleep", "promote"} => ~ready
  /\ ladder[c].at \in {"clear", "clone"} => health # "usable"

\* One ladder at a time, the reaper's while there is no task.
OneLadder ==
  /\ Off("task") <=> task # "restart"
  /\ task # "none" => Off("reaper") /\ health = "usable"

\* What is ready has a process, what has failed has none.
HandleIsTrue ==
  /\ (\A c \in Climber : Off(c)) => alive \subseteq {current}
  /\ InService => current # NoPid
  /\ task \in {"created", "trip", "rotate"} => current # NoPid
  /\ state = "failed" /\ ~behind => current = NoPid /\ alive = {}

Alone == ~overlap /\ stopping = "no"

CleanInv == Alone => (\A c \in Climber : RungIsClean(c)) /\ OneLadder /\ HandleIsTrue

\* After a step that leaves a ladder on, as long as that is clean.
LEMMA OnLadder ==
  ASSUME NEW c \in Climber, RungIsClean(c)', ~Off(c)', Off(Other(c))',
         c = "task" => task' = "restart" /\ health' = "usable",
         c = "reaper" => task' = "none",
         ~InService',
         state' = "failed" /\ ~behind' => current' = NoPid /\ alive' = {}
  PROVE  CleanInv'
<1>1. \A d \in Climber : d = c \/ d = Other(c)
  BY DEF Climber, Other
<1>2. \A d \in Climber : RungIsClean(d)'
  BY <1>1 DEF RungIsClean, Off
<1>3. OneLadder'
  BY DEF OneLadder, Other, Climber, Off
<1>4. HandleIsTrue'
  BY DEF HandleIsTrue, Climber, InService
<1> QED BY <1>2, <1>3, <1>4 DEF CleanInv

\* After a step that leaves no ladder on.
LEMMA AtRest ==
  ASSUME \A c \in Climber : Off(c)', task' # "restart",
         task' # "none" => health' = "usable" /\ current' # NoPid,
         alive' \subseteq {current'},
         InService' => current' # NoPid,
         state' = "failed" /\ ~behind' => current' = NoPid /\ alive' = {}
  PROVE  CleanInv'
<1>1. \A d \in Climber : RungIsClean(d)'
  BY DEF RungIsClean, Off
<1>2. OneLadder'
  BY DEF OneLadder, Climber
<1>3. HandleIsTrue'
  BY DEF HandleIsTrue, InService
<1> QED BY <1>1, <1>2, <1>3 DEF CleanInv

\* A process is started, or not, where none was left.
LEMMA SpawnIsClean ==
  ASSUME LadderKeeps, NEW c \in Climber, NEW left \in 1..RestartAttempts, NEW dead,
         Spawn(c, left, dead, FALSE), current = NoPid, alive \subseteq dead
  PROVE  /\ RungIsClean(c)' /\ ~Off(c)' /\ ~ready'
         /\ \A d \in Climber : d # c => ladder'[d] = ladder[d]
         /\ state' = "failed" => current' = NoPid /\ alive' = {}
<1>1. left - 1 \in 0..RestartAttempts
  BY HandleAssumption
<1> USE DEF LadderKeeps, Rungs, IdleIsReady
<1>2. CASE StartFailed(c, left - 1, dead, FALSE)
  <2>1. /\ current' = NoPid /\ ready' = FALSE /\ alive' = {}
        /\ ladder' = [ladder EXCEPT ![c] = Rung("sleep", NoPid, left - 1)]
    BY <1>2 DEF StartFailed, MarkFailed, Kill
  <2>2. ladder'[c].at = "sleep" /\ \A d \in Climber : d # c => ladder'[d] = ladder[d]
    BY <1>1, <2>1, RungSteps
  <2> QED BY <2>1, <2>2 DEF RungIsClean, Off
<1>3. ASSUME NEW p \in Pids \ (alive \cup Remembered),
             alive' = (alive \ dead) \cup {p}, current' = p,
             state' = "starting", ready' = FALSE,
             ladder' = [ladder EXCEPT ![c] = Rung("recv", p, left - 1)]
      PROVE  /\ RungIsClean(c)' /\ ~Off(c)' /\ ~ready'
             /\ \A d \in Climber : d # c => ladder'[d] = ladder[d]
             /\ state' # "failed"
  <2>1. /\ ladder'[c].at = "recv" /\ ladder'[c].pid = p
        /\ \A d \in Climber : d # c => ladder'[d] = ladder[d]
    BY <1>1, <1>3, RungSteps
  <2>2. current' # NoPid /\ alive' = {p}
    BY <1>3, HandleAssumption
  <2> QED BY <1>3, <2>1, <2>2 DEF RungIsClean, Off
<1> QED BY <1>2, <1>3 DEF Spawn, Launch

\* A restart of a handle with what runs on it, if anything.
LEMMA RestartIsClean ==
  ASSUME LadderKeeps, NEW c \in Climber, Restart(c), alive \subseteq {current}, NoPid \notin alive
  PROVE  /\ RungIsClean(c)' /\ ~Off(c)' /\ ~ready'
         /\ \A d \in Climber : d # c => ladder'[d] = ladder[d]
         /\ state' = "failed" => current' = NoPid /\ alive' = {}
<1>1. RestartAttempts \in 1..RestartAttempts /\ RestartAttempts \in 0..RestartAttempts /\ RestartAttempts > 0
  BY HandleAssumption
<1>2. CASE current = NoPid
  BY <1>1, <1>2, SpawnIsClean DEF Restart
<1>3. CASE current # NoPid
  <2>1. /\ current' = NoPid /\ state' = "restarting" /\ ready' = FALSE /\ alive' = alive
        /\ ladder' = [ladder EXCEPT ![c] = Rung("terminate", current, RestartAttempts)]
    BY <1>3 DEF Restart
  <2>2. /\ ladder'[c].at = "terminate" /\ ladder'[c].pid = current
        /\ \A d \in Climber : d # c => ladder'[d] = ladder[d]
    BY <1>1, <2>1, RungSteps DEF LadderKeeps, HandleType, Rungs
  <2> QED BY <2>1, <2>2 DEF RungIsClean, Off
<1> QED BY <1>2, <1>3

\* A ladder alone on the handle keeps it clean.
LEMMA ClimbIsClean ==
  ASSUME Invariant, CleanInv, Alone, NEW c \in Climber, Climb(c)
  PROVE  CleanInv'
<1>1. LadderKeeps /\ RungIsClean(c) /\ OneLadder /\ HandleIsTrue
  BY InvariantParts DEF CleanInv
<1>2. /\ ladder[c].left \in 0..RestartAttempts /\ ready \in BOOLEAN
      /\ ladder[c].at \in Rungs /\ ladder[c].pid \in Pids \cup {NoPid}
      /\ alive \subseteq Pids /\ current \in Pids \cup {NoPid}
  BY <1>1 DEF LadderKeeps, HandleType, AnyRung
<1>3. Other(c) \in Climber /\ Other(c) # c
  BY DEF Climber, Other
<1>4. ~Off(c)
  BY <1>2 DEF Climb, Terminated, Up, Down, Undone, NextRung, GiveUp, Off
<1>5. /\ Off(Other(c))
      /\ c = "task" => task = "restart" /\ health = "usable"
      /\ c = "reaper" => task = "none"
  BY <1>1, <1>4 DEF OneLadder, Other, Climber
<1>6. ASSUME RungIsClean(c)', ~Off(c)', ~ready', UNCHANGED <<task, health>>,
             \A d \in Climber : d # c => ladder'[d] = ladder[d],
             state' = "failed" /\ ~behind' => current' = NoPid /\ alive' = {}
      PROVE  CleanInv'
  <2>1. Off(Other(c))'
    BY <1>3, <1>5, <1>6 DEF Off
  <2>2. ~InService'
    BY <1>6 DEF InService
  <2> QED BY <1>5, <1>6, <2>1, <2>2, OnLadder
<1>7. CASE Terminated(c)
  <2>1. ladder[c].left \in 1..RestartAttempts
    BY <1>1, <1>2, <1>7, HandleAssumption DEF Terminated, LadderKeeps, RungsLeft
  <2>2. ready = FALSE /\ current = NoPid /\ alive \subseteq {ladder[c].pid}
    BY <1>1, <1>2, <1>7 DEF Terminated, RungIsClean
  <2> QED BY <1>1, <1>6, <1>7, <2>1, <2>2, SpawnIsClean DEF Terminated, runner
<1>8. CASE NextRung(c)
  <2>1. ladder[c].left \in 1..RestartAttempts
    BY <1>2, <1>8, HandleAssumption DEF NextRung
  <2>2. ready = FALSE /\ current = NoPid /\ alive \subseteq {}
    BY <1>1, <1>2, <1>8 DEF NextRung, RungIsClean
  <2> QED BY <1>1, <1>6, <1>8, <2>1, <2>2, SpawnIsClean DEF NextRung, runner
<1>9. CASE Down(c)
  <2>1. ready = FALSE /\ current # NoPid /\ alive \subseteq {current}
    BY <1>1, <1>2, <1>9 DEF Down, RungIsClean
  <2>2. /\ ladder' = [ladder EXCEPT ![c] = Rung("undo", current, ladder[c].left)]
        /\ current' = NoPid /\ ready' = FALSE /\ alive' = alive /\ state' = state
        /\ UNCHANGED <<task, health>>
    BY <1>9, <2>1 DEF Down, StartFailed, Kill, runner
  <2>3. /\ ladder'[c].at = "undo" /\ ladder'[c].pid = current
        /\ \A d \in Climber : d # c => ladder'[d] = ladder[d]
    BY <1>1, <1>2, <2>2, RungSteps DEF LadderKeeps, Rungs
  <2>4. RungIsClean(c)' /\ ~Off(c)'
    BY <2>1, <2>2, <2>3 DEF RungIsClean, Off
  <2>5. (state = "failed" => behind) /\ behind' = behind
    BY <1>1, <1>9, <2>1 DEF Down, HandleIsTrue, met
  <2> QED BY <1>6, <2>2, <2>3, <2>4, <2>5
<1>10. CASE Undone(c)
  <2>1. current = NoPid /\ alive \subseteq {ladder[c].pid}
    BY <1>1, <1>10 DEF Undone, RungIsClean
  <2>2. /\ ladder' = [ladder EXCEPT ![c] = Rung("sleep", NoPid, ladder[c].left)]
        /\ current' = NoPid /\ ready' = FALSE /\ alive' = {}
        /\ UNCHANGED <<task, health>>
    BY <1>10, <2>1 DEF Undone, Kill, MarkFailed, runner
  <2>3. /\ ladder'[c].at = "sleep"
        /\ \A d \in Climber : d # c => ladder'[d] = ladder[d]
    BY <1>1, <1>2, <2>2, RungSteps DEF LadderKeeps, Rungs
  <2>4. RungIsClean(c)' /\ ~Off(c)'
    BY <2>2, <2>3 DEF RungIsClean, Off
  <2> QED BY <1>6, <2>2, <2>3, <2>4
<1>11. ASSUME ladder' = [ladder EXCEPT ![c] = Rest]
       PROVE  \A d \in Climber : Off(d)'
  <2>1. ladder'[c].at = "off" /\ \A d \in Climber : d # c => ladder'[d] = ladder[d]
    BY <1>1, <1>11, RungSteps, RestIsRung DEF LadderKeeps, Rungs
  <2> QED BY <1>3, <1>5, <2>1 DEF Off, Other, Climber
<1>12. CASE Up(c)
  <2>1. current # NoPid /\ alive \subseteq {current}
    BY <1>1, <1>12 DEF Up, RungIsClean
  <2>2. /\ current' = current /\ alive' = alive /\ state' = "idle" /\ task' = "none"
        /\ ladder' = [ladder EXCEPT ![c] = Rest]
    BY <1>5, <1>12 DEF Up, MarkIdle, processes, Climber
  <2> QED BY <1>11, <2>1, <2>2, AtRest
<1>13. CASE GiveUp(c)
  <2>1. current = NoPid /\ alive = {} /\ ~ready
    BY <1>1, <1>13 DEF GiveUp, RungIsClean
  <2>2. /\ current' = current /\ alive' = alive /\ task' = "none" /\ ~ready'
        /\ ladder' = [ladder EXCEPT ![c] = Rest]
    BY <1>5, <1>13, <2>1 DEF GiveUp, MarkFailed, processes, Climber
  <2> QED BY <1>11, <2>1, <2>2, AtRest DEF InService
<1> QED BY <1>7, <1>8, <1>9, <1>10, <1>12, <1>13 DEF Climb

\* No step takes an overlap, or the beginning of the stop, back.
LEMMA AloneBefore == [Next]_vars /\ Alone' => Alone
<1> SUFFICES ASSUME [Next]_vars, Alone' PROVE Alone
  OBVIOUS
<1> USE DEF Alone
<1>1. ASSUME NEW c \in Climber, Climb(c) PROVE Alone
  BY <1>1 DEF Climb, Terminated, Up, Down, Undone, NextRung, GiveUp, stopper, met
<1>2. ASSUME NEW p \in Pids, Hello(p) \/ Crash(p) \/ Leave(p) PROVE Alone
  BY <1>2 DEF Hello, Crash, Leave, stopper, met
<1>3. CASE Claim
  BY <1>3 DEF Claim, stopper, met
<1>7. CASE Create \/ Answer \/ LoseProxy \/ Raise \/ Condemn \/ ReaperLists
  BY <1>7 DEF Create, Answer, LoseProxy, Raise, Condemn, ReaperLists, stopper, met
<1>8. CASE Reclone \/ Cleared \/ CloneFails \/ Promoted
  BY <1>8 DEF Reclone, Cleared, CloneFails, Promoted, stopper, met
<1>9. CASE Promote
  BY <1>9 DEF Promote, stopper
<1>4. CASE Break \/ Rotated \/ ReaperRestarts \/ Reproxy \/ Cloned
  BY <1>4 DEF Break, Rotated, ReaperRestarts, Reproxy, Cloned, Restart, stopper, met
<1>5. CASE BeginStop \/ Stopped \/ Cancel
  BY <1>5 DEF BeginStop, Stopped, Cancel, stopper, met
<1>6. CASE UNCHANGED vars
  BY <1>6 DEF vars, stopper, met
<1> QED BY <1>1, <1>2, <1>3, <1>4, <1>5, <1>6, <1>7, <1>8, <1>9 DEF Next, Serve

\* The task's or the reaper's ladder begins while the other is off and, where it
\* is the reaper's, while there is no task.
LEMMA RestartStep ==
  ASSUME Invariant, CleanInv, Alone, Alone', NEW c \in Climber, Restart(c),
         alive \subseteq {current}, Off("task"), Off("reaper"),
         c = "task" => task' = "restart" /\ health' = "usable",
         c = "reaper" => task' = task
  PROVE  CleanInv'
<1>1. LadderKeeps /\ NoPid \notin alive
  BY InvariantParts, HandleAssumption DEF LadderKeeps, HandleType
<1>2. c = "reaper" => task = "none"
  BY DEF Restart, Meets, Alone
<1>3. /\ RungIsClean(c)' /\ ~Off(c)' /\ ~ready'
      /\ \A d \in Climber : d # c => ladder'[d] = ladder[d]
      /\ state' = "failed" => current' = NoPid /\ alive' = {}
  BY <1>1, RestartIsClean
<1>4. Off(Other(c))' /\ ~InService'
  BY <1>3 DEF Off, Other, Climber, InService
<1> QED BY <1>2, <1>3, <1>4, OnLadder

\* Every step keeps the handle clean as long as nothing overlaps.
LEMMA CleanStep ==
  ASSUME Invariant, CleanInv, [Next]_vars
  PROVE  CleanInv'
<1> SUFFICES ASSUME Alone' PROVE CleanInv'
  BY DEF CleanInv, Alone
<1>1. Alone
  BY AloneBefore
<1>2. (\A c \in Climber : RungIsClean(c)) /\ OneLadder /\ HandleIsTrue /\ LadderKeeps
  BY <1>1, InvariantParts DEF CleanInv
<1>3. "reaper" \in Climber /\ "task" \in Climber
  BY DEF Climber
<1>4. ASSUME task # "none" \/ Off("reaper"), task # "restart"
      PROVE  \A c \in Climber : Off(c)
  BY <1>2, <1>4 DEF OneLadder, Climber
<1>5. CASE \E c \in Climber : Climb(c)
  BY <1>1, <1>5, ClimbIsClean
<1>6. CASE \E p \in Pids : Hello(p) \/ Crash(p) \/ Leave(p)
  <2>1. /\ UNCHANGED <<state, ready, current, ladder, runner, health, behind>>
        /\ alive' \subseteq alive
    BY <1>6 DEF Hello, Crash, Leave, Kill, met
  <2>2. \A c \in Climber : RungIsClean(c)'
    BY <1>2, <2>1 DEF RungIsClean
  <2>3. OneLadder' /\ HandleIsTrue'
    BY <1>2, <2>1 DEF OneLadder, HandleIsTrue, Off, InService, runner
  <2> QED BY <2>2, <2>3 DEF CleanInv
<1>7. CASE Create
  <2>1. task = "none" /\ ready /\ health = "usable" /\ current # NoPid
    BY <1>2, <1>7 DEF Create, HandleIsTrue, InService
  <2>2. /\ task' = "created"
        /\ UNCHANGED <<state, ready, current, alive, ladder, health, behind>>
    BY <1>7 DEF Create, processes, met
  <2>3. \A c \in Climber : Off(c)
    <3> SUFFICES ASSUME NEW c \in Climber, ~Off(c) PROVE FALSE
      OBVIOUS
    <3>1. ladder[c].at \in Rungs /\ RungIsClean(c)
      BY <1>2 DEF LadderKeeps, HandleType, AnyRung
    <3> QED BY <2>1, <3>1 DEF RungIsClean, Rungs, Off
  <2>4. alive \subseteq {current} /\ (state = "failed" => behind)
    BY <1>2, <2>1, <2>3 DEF HandleIsTrue
  <2> QED BY <2>1, <2>2, <2>3, <2>4, AtRest DEF Off
<1>8. CASE Claim
  <2>1. /\ health = "usable" /\ current # NoPid /\ alive \subseteq {current}
        /\ \A c \in Climber : Off(c)
    BY <1>2, <1>4, <1>8 DEF Claim, HandleIsTrue, OneLadder
  <2>2. /\ task' = "trip" /\ state' = "busy"
        /\ UNCHANGED <<ready, current, alive, ladder, health>>
    BY <1>8 DEF Claim, processes
  <2> QED BY <2>1, <2>2, AtRest DEF Off
<1>20. CASE LoseProxy
  <2>1. /\ health = "usable" /\ current # NoPid /\ alive \subseteq {current}
        /\ \A c \in Climber : Off(c)
    BY <1>2, <1>4, <1>20 DEF LoseProxy, HandleIsTrue, OneLadder
  <2>2. /\ task' = "rotate"
        /\ UNCHANGED <<state, ready, current, alive, ladder, health, behind>>
    BY <1>20 DEF LoseProxy, processes, met
  <2>3. state = "failed" => behind
    BY <1>2, <2>1 DEF HandleIsTrue
  <2> QED BY <2>1, <2>2, <2>3, AtRest DEF Off
<1>21. CASE Rotated
  <2>1. /\ health = "usable" /\ alive \subseteq {current}
        /\ \A c \in Climber : Off(c)
    BY <1>2, <1>4, <1>21 DEF Rotated, HandleIsTrue, OneLadder
  <2>2. Restart("task") /\ task' = "restart" /\ health' = health
    BY <1>21 DEF Rotated
  <2> QED BY <1>1, <1>3, <2>1, <2>2, RestartStep
<1>22. CASE Raise
  <2>1. /\ current # NoPid /\ alive \subseteq {current}
        /\ \A c \in Climber : Off(c)
    BY <1>2, <1>4, <1>22 DEF Raise, HandleIsTrue
  <2>2. /\ task' = "none" /\ behind' = TRUE /\ ready' = FALSE
        /\ UNCHANGED <<current, alive, ladder>>
    BY <1>22 DEF Raise, MarkFailed, processes
  <2> QED BY <2>1, <2>2, AtRest DEF Off, InService
<1>23. CASE Promote
  <2>1. task = "none" /\ Off("reaper") /\ ready /\ health = "usable"
    BY <1>2, <1>23 DEF Promote, Meets, Alone, LadderKeeps, IdleIsReady
  <2>2. Off("task") /\ current # NoPid /\ alive \subseteq {current}
    BY <1>2, <1>4, <1>3, <2>1 DEF HandleIsTrue, InService
  <2>3. /\ ladder' = [ladder EXCEPT !["reaper"] = Rung("promote", NoPid, 0)]
        /\ state' = "restarting" /\ ready' = FALSE /\ UNCHANGED <<current, alive, task, health>>
    BY <1>23 DEF Promote, processes, runner
  <2>4. ladder'["reaper"].at = "promote" /\ ladder'["task"] = ladder["task"]
    <3>1. /\ ladder'["reaper"].at = "promote"
          /\ \A d \in Climber : d # "reaper" => ladder'[d] = ladder[d]
      BY <1>2, <1>3, <2>3, RungSteps, RestIsRung DEF LadderKeeps, Rungs
    <3> QED BY <1>3, <3>1
  <2>5. RungIsClean("reaper")' /\ ~Off("reaper")' /\ Off("task")'
    BY <2>2, <2>3, <2>4 DEF RungIsClean, Off
  <2>6. ~InService' /\ state' # "failed"
    BY <2>3 DEF InService
  <2> QED BY <1>3, <2>1, <2>3, <2>5, <2>6, OnLadder DEF Other
<1>24. CASE Promoted
  <2>1. current # NoPid /\ alive \subseteq {current} /\ ~Off("reaper")
    BY <1>2, <1>3, <1>24 DEF Promoted, RungIsClean, Off
  <2>2. task = "none" /\ Off("task")
    BY <1>2, <2>1 DEF OneLadder
  <2>3. /\ ladder' = [ladder EXCEPT !["reaper"] = Rung("off", NoPid, 0)]
        /\ state' = "idle" /\ UNCHANGED <<current, alive, task>>
    BY <1>24, RestIsRung DEF Promoted, MarkIdle, processes, runner
  <2>4. ladder'["reaper"].at = "off" /\ ladder'["task"] = ladder["task"]
    <3>1. /\ ladder'["reaper"].at = "off"
          /\ \A d \in Climber : d # "reaper" => ladder'[d] = ladder[d]
      BY <1>2, <1>3, <2>3, RungSteps, RestIsRung DEF LadderKeeps, Rungs
    <3> QED BY <1>3, <3>1
  <2>5. \A c \in Climber : Off(c)'
    BY <2>2, <2>4 DEF Off, Climber
  <2> QED BY <2>1, <2>2, <2>3, <2>5, AtRest
<1>9. CASE Answer
  <2>1. /\ health = "usable" /\ current # NoPid /\ alive \subseteq {current}
        /\ \A c \in Climber : Off(c)
    BY <1>2, <1>4, <1>9 DEF Answer, HandleIsTrue, OneLadder
  <2>2. /\ task' = "none" /\ state' = "idle"
        /\ UNCHANGED <<current, alive, ladder, health>>
    BY <1>1, <1>9 DEF Answer, MarkIdle, processes, Alone
  <2> QED BY <2>1, <2>2, AtRest DEF Off
<1>10. CASE Condemn
  <2>1. alive \subseteq {current} /\ \A c \in Climber : Off(c)
    BY <1>2, <1>4, <1>10 DEF Condemn, HandleIsTrue
  <2>2. /\ task' = "none" /\ health' = "quarantined" /\ behind' = TRUE
        /\ UNCHANGED <<current, alive, ladder>>
    BY <1>10 DEF Condemn, processes
  <2> QED BY <2>1, <2>2, AtRest DEF Off, InService
<1>11. CASE ReaperLists \/ UNCHANGED vars
  <2>1. UNCHANGED <<state, ready, current, alive, ladder, task, health, behind>>
    BY <1>11 DEF ReaperLists, processes, runner, met, vars
  <2>2. \A c \in Climber : RungIsClean(c)'
    BY <1>2, <2>1 DEF RungIsClean
  <2>3. OneLadder' /\ HandleIsTrue'
    BY <1>2, <2>1 DEF OneLadder, HandleIsTrue, Off, InService
  <2> QED BY <2>2, <2>3 DEF CleanInv
<1>12. CASE Break
  <2>1. /\ health = "usable" /\ alive \subseteq {current}
        /\ \A c \in Climber : Off(c)
    BY <1>2, <1>4, <1>12 DEF Break, HandleIsTrue, OneLadder
  <2>2. Restart("task") /\ task' = "restart" /\ health' = health
    BY <1>1, <1>12 DEF Break, Alone
  <2> QED BY <1>1, <1>3, <2>1, <2>2, RestartStep
<1>13. CASE ReaperRestarts \/ Reproxy
  <2>1. Restart("reaper") /\ Off("reaper") /\ task' = task
    BY <1>13 DEF ReaperRestarts, Reproxy, runner
  <2>2. Off("task")
    BY <2>1 DEF Restart, Meets, Other, Alone
  <2>3. alive \subseteq {current}
    BY <1>2, <2>1, <2>2 DEF HandleIsTrue, Climber
  <2> QED BY <1>1, <1>3, <2>1, <2>2, <2>3, RestartStep
<1>14. CASE Reclone
  <2>1. health # "usable" /\ Off("reaper")
    BY <1>14 DEF Reclone
  <2>2. task = "none" /\ alive \subseteq {current} /\ Off("task")
    BY <1>2, <2>1 DEF OneLadder, HandleIsTrue, Climber
  <2>3. /\ ladder' = [ladder EXCEPT !["reaper"] = Rung(IF current = NoPid THEN "clone" ELSE "clear", current, 0)]
        /\ current' = NoPid /\ health' = "recloning" /\ UNCHANGED <<state, alive, task, behind>>
    BY <1>14 DEF Reclone, runner, met
  <2>4. /\ ladder'["reaper"].at = IF current = NoPid THEN "clone" ELSE "clear"
        /\ ladder'["reaper"].pid = current
        /\ ladder'["task"] = ladder["task"]
    <3>1. current \in Pids \cup {NoPid} /\ HandleType /\ RungsLeft
      BY <1>2 DEF LadderKeeps, HandleType
    <3>2. CASE current = NoPid
      <4>1. /\ ladder'["reaper"].at = "clone" /\ ladder'["reaper"].pid = current
            /\ \A d \in Climber : d # "reaper" => ladder'[d] = ladder[d]
        BY <1>3, <2>3, <3>1, <3>2, RungSteps, RestIsRung DEF Rungs
      <4> QED BY <1>3, <3>2, <4>1
    <3>3. CASE current # NoPid
      <4>1. /\ ladder'["reaper"].at = "clear" /\ ladder'["reaper"].pid = current
            /\ \A d \in Climber : d # "reaper" => ladder'[d] = ladder[d]
        BY <1>3, <2>3, <3>1, <3>3, RungSteps, RestIsRung DEF Rungs
      <4> QED BY <1>3, <3>3, <4>1
    <3> QED BY <3>2, <3>3
  <2>5. NoPid \notin alive
    BY <1>2, HandleAssumption DEF LadderKeeps, HandleType
  <2>6. RungIsClean("reaper")' /\ ~Off("reaper")' /\ Off("task")'
    BY <2>2, <2>3, <2>4, <2>5 DEF RungIsClean, Off
  <2>7. ~InService' /\ (state' = "failed" /\ ~behind' => current' = NoPid /\ alive' = {})
    BY <1>2, <2>3 DEF InService, HandleIsTrue
  <2> QED BY <1>3, <2>2, <2>3, <2>6, <2>7, OnLadder DEF Other
<1>15. CASE Cleared
  <2>1. current = NoPid /\ alive \subseteq {ladder["reaper"].pid} /\ health # "usable"
    BY <1>2, <1>3, <1>15 DEF Cleared, RungIsClean
  <2>2. task = "none" /\ Off("task")
    BY <1>2, <2>1 DEF OneLadder
  <2>3. /\ ladder' = [ladder EXCEPT !["reaper"] = Rung("clone", NoPid, 0)]
        /\ current' = NoPid /\ alive' = {} /\ UNCHANGED <<health, task>>
    BY <1>15, <2>1 DEF Cleared, Kill, runner
  <2>4. ladder'["reaper"].at = "clone" /\ ladder'["task"] = ladder["task"]
    <3>1. /\ ladder'["reaper"].at = "clone"
          /\ \A d \in Climber : d # "reaper" => ladder'[d] = ladder[d]
      BY <1>2, <1>3, <2>3, RungSteps, RestIsRung DEF LadderKeeps, Rungs
    <3> QED BY <1>3, <3>1
  <2>5. RungIsClean("reaper")' /\ ~Off("reaper")' /\ Off("task")'
    BY <2>1, <2>2, <2>3, <2>4 DEF RungIsClean, Off
  <2>6. ~InService'
    BY <2>1, <2>3 DEF InService
  <2> QED BY <1>3, <2>1, <2>2, <2>3, <2>5, <2>6, OnLadder DEF Other
<1>16. CASE Cloned
  <2>1. Restart("reaper") /\ task' = task /\ current = NoPid /\ alive = {} /\ health # "usable"
    BY <1>2, <1>3, <1>16 DEF Cloned, RungIsClean, runner
  <2>2. task = "none" /\ Off("task")
    BY <1>2, <2>1 DEF OneLadder
  <2>3. /\ RungIsClean("reaper")' /\ ~Off("reaper")' /\ ~ready'
        /\ ladder'["task"] = ladder["task"]
        /\ state' = "failed" => current' = NoPid /\ alive' = {}
    BY <1>2, <1>3, <2>1, RestartIsClean
  <2>4. Off(Other("reaper"))' /\ ~InService'
    BY <2>2, <2>3 DEF Off, Other, InService
  <2> QED BY <1>3, <2>1, <2>2, <2>3, <2>4, OnLadder
<1>17. CASE CloneFails
  <2>1. current = NoPid /\ alive = {} /\ health # "usable"
    BY <1>2, <1>3, <1>17 DEF CloneFails, RungIsClean
  <2>2. task = "none" /\ Off("task")
    BY <1>2, <2>1 DEF OneLadder
  <2>3. /\ ladder' = [ladder EXCEPT !["reaper"] = Rung("off", NoPid, 0)]
        /\ health' = "quarantined" /\ UNCHANGED <<current, alive, task>>
    BY <1>17, RestIsRung DEF CloneFails, processes, runner
  <2>4. ladder'["reaper"].at = "off" /\ ladder'["task"] = ladder["task"]
    <3>1. /\ ladder'["reaper"].at = "off"
          /\ \A d \in Climber : d # "reaper" => ladder'[d] = ladder[d]
      BY <1>2, <1>3, <2>3, RungSteps, RestIsRung DEF LadderKeeps, Rungs
    <3> QED BY <1>3, <3>1
  <2>5. \A c \in Climber : Off(c)'
    BY <2>2, <2>4 DEF Off, Climber
  <2> QED BY <2>1, <2>2, <2>3, <2>5, AtRest DEF InService
<1>18. CASE BeginStop \/ Stopped \/ Cancel
  BY <1>18 DEF BeginStop, Stopped, Cancel, stopper, Alone
<1> QED
  BY <1>5, <1>6, <1>7, <1>8, <1>9, <1>10, <1>11, <1>12, <1>13, <1>14, <1>15, <1>16, <1>17, <1>18, <1>20, <1>21, <1>22, <1>23, <1>24
  DEF Next, Serve

\* At the beginning no ladder is on.
LEMMA CleanStarts == Init => CleanInv
<1> SUFFICES ASSUME Init PROVE CleanInv
  OBVIOUS
<1>1. \A c \in Climber : Off(c)
  BY RestIsRung DEF Init, Rung, Off
<1>2. \A c \in Climber : RungIsClean(c)
  BY <1>1 DEF RungIsClean, Off
<1>3. OneLadder /\ HandleIsTrue
  BY <1>1, HandleAssumption DEF Init, OneLadder, HandleIsTrue, InService, Climber
<1> QED BY <1>2, <1>3 DEF CleanInv

\* At most one process, where they are all in one place.
LEMMA OneProcess ==
  ASSUME NEW p, alive \subseteq {p}
  PROVE  Cardinality(alive) <= 1
<1>1. IsFiniteSet({p}) /\ Cardinality({p}) = 1
  BY FS_Singleton
<1>2. Cardinality(alive) <= Cardinality({p})
  BY <1>1, FS_Subset
<1> QED BY <1>1, <1>2

\* As long as the reaper and a task do not meet the handle is what it claims to be,
\* for any process ids and rungs: never two processes, one behind a worker that is
\* ready or held for the master, none behind a failed one but what a quarantine or
\* an exception left, none under a folder that is replaced.
THEOREM AloneIsAlwaysClean == Spec => []AloneIsClean
<1>1. Invariant /\ CleanInv /\ [Next]_vars => Invariant' /\ CleanInv'
  BY StepKeeps, CleanStep
<1>2. Invariant /\ CleanInv => AloneIsClean
  <2> SUFFICES ASSUME Invariant, CleanInv, Alone
               PROVE  /\ Cardinality(alive) <= 1
                      /\ InService \/ ladder["reaper"].at = "promote" => current # NoPid
                      /\ state = "failed" /\ ~behind => current = NoPid /\ alive = {}
                      /\ ladder["reaper"].at = "clone" => alive = {}
    BY DEF AloneIsClean, Alone
  <2>1. (\A c \in Climber : RungIsClean(c)) /\ HandleIsTrue /\ LadderKeeps
    BY InvariantParts DEF CleanInv
  <2>2. ASSUME NEW c \in Climber, ~Off(c)
        PROVE  \E p : alive \subseteq {p}
    <3>1. ladder[c].at \in Rungs /\ RungIsClean(c)
      BY <2>1 DEF LadderKeeps, HandleType, AnyRung
    <3>2. (\E p : alive \subseteq {p}) \/ alive = {}
      BY <2>2, <3>1 DEF RungIsClean, Rungs, Off
    <3> QED BY <3>2
  <2>3. \E p : alive \subseteq {p}
    BY <2>1, <2>2 DEF HandleIsTrue
  <2>4. Cardinality(alive) <= 1
    BY <2>3, OneProcess
  <2>5. ladder["reaper"].at = "clone" => alive = {}
    BY <2>1 DEF RungIsClean, Climber
  <2>6. ladder["reaper"].at = "promote" => current # NoPid
    BY <2>1 DEF RungIsClean, Climber
  <2> QED BY <2>1, <2>4, <2>5, <2>6 DEF HandleIsTrue
<1> QED BY <1>1, <1>2, Starts, CleanStarts, PTL DEF Spec
=============================================================================
