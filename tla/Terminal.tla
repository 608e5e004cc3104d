------------------------------ MODULE Terminal ------------------------------
(***************************************************************************)
(* MT5Terminal (mt5api/terminal.py) in its worker process, which runs one  *)
(* task after the other on it (_run_task, pool/worker.py).  The terminal   *)
(* is a process of its own that outlives the worker: somebody may close    *)
(* it, LiveUpdate may start another one in its place, it may stop          *)
(* answering or drop its session at any moment.  At most one runs from one *)
(* folder.  The marker file says which process was launched with which     *)
(* proxy (mt5api/proxy.py).                                                *)
(*                                                                         *)
(* External: the MetaTrader5 package.  It talks to the process initialize() *)
(* found, and answers with an IPC code when that one is gone or deaf.       *)
(***************************************************************************)
EXTENDS Integers, FiniteSets

CONSTANTS Pids,                \* bound: process ids, reused when nothing names them
          NoPid,
          Logins,              \* (login, password, server)
          Accepted,            \* those the broker lets in
          NoLogin,
          Endpoints,           \* the proxies a worker may be given
          FailuresBeforeKill,  \* _ATTACH_FAILURES_BEFORE_KILL
          MaxWasted            \* bound: where the count of wasted tasks stops

ASSUME TerminalAssumption ==
  /\ NoPid \notin Pids
  /\ Accepted \subseteq Logins /\ NoLogin \notin Logins
  /\ "direct" \notin Endpoints
  /\ FailuresBeforeKill \in Nat \ {0}
  /\ MaxWasted \in Nat

VARIABLES
  managed,         \* whether the pool has proxies: the worker launches the terminal
  wanted,          \* marker_for(self.proxy)
  proc,            \* the process running from this folder
  marker,          \* the marker file
  bound,           \* the process self._mt5 talks to, NoPid when it is None
  memory,          \* self._current_login
  attachFailures,  \* self._attach_failures
  replaced,        \* self._replaced
  report,          \* self.report: the marks that are set
  at,              \* where _run_task stands
  task,            \* the login of the task in hand, or of the last one
  child,           \* the process Popen returned
  result,          \* the last SyncResult sent
  calm,            \* nothing goes wrong from now on
  started,         \* history: this task has started or attached to the terminal
  exchanged,       \* history: another process came since this task last looked
  wasted           \* history: tasks the broker would accept that failed in the calm

worker == <<bound, memory, attachFailures, replaced, report, at, task, child>>
setting == <<managed, wanted>>
vars == <<setting, proc, marker, worker, result, calm, started, exchanged, wasted>>

Direct == "direct"
Proxies == Endpoints \cup {Direct}

Mark == {"attached", "zombie", "died", "replaced", "ipcFailed", "initialized"}

Process(p, proxy) == [pid |-> p, proxy |-> proxy, session |-> NoLogin, answers |-> TRUE, failed |-> 0]

NoProcess == Process(NoPid, Direct)

NoMarker == [proxy |-> Direct, pid |-> NoPid]

AnyProcess == [pid : Pids \cup {NoPid}, proxy : Proxies, session : Logins \cup {NoLogin},
               answers : BOOLEAN, failed : 0..FailuresBeforeKill]

AnyMarker == [proxy : Proxies, pid : Pids \cup {NoPid}]

AnyResult == [code : {"none", "ok", "auth", "ipc", "other"}, lost : BOOLEAN,
              proxyDead : BOOLEAN, marks : SUBSET Mark]

Result(code, lost, dead, marks) ==
  [code |-> code, lost |-> lost, proxyDead |-> dead, marks |-> marks]

NoResult == Result("none", FALSE, FALSE, {})

Running == proc.pid # NoPid

\* _bound_alive
BoundAlive == Running /\ marker.pid = proc.pid

\* The process the package talks to is there and answers.
Answering == Running /\ proc.pid = bound /\ proc.answers

Fresh == Pids \ {proc.pid, marker.pid, bound, child}

\* terminate_all: what may be left of the terminal ten seconds later.
Killed(p) == {NoProcess} \cup (IF calm THEN {} ELSE {p})

Init ==
  /\ managed \in BOOLEAN
  /\ wanted \in IF managed THEN Proxies ELSE {Direct}
  /\ proc = NoProcess /\ marker = NoMarker
  /\ bound = NoPid /\ memory = NoLogin
  /\ attachFailures = 0 /\ replaced = FALSE /\ report = {}
  /\ at = "idle" /\ task = NoLogin /\ child = NoPid
  /\ result = NoResult
  /\ calm = FALSE /\ started = FALSE /\ exchanged = FALSE /\ wasted = 0

-----------------------------------------------------------------------------
(* A task ends: failure(), and the except and the last lines of _run_task *)

Count(ok) ==
  wasted' = IF ~calm \/ ok \/ task \notin Accepted THEN 0
            ELSE IF wasted < MaxWasted THEN wasted + 1 ELSE wasted

Conclude(code, lost, dead, marks) ==
  /\ result' = Result(code, lost, dead, marks)
  /\ at' = "idle"
  /\ child' = NoPid
  /\ Count(code = "ok")
  /\ UNCHANGED <<setting, marker, replaced, task, calm, started, exchanged>>

\* Mutant: the report stays for the next result.
KeepReport == UNCHANGED report

\* take_report()
TakeReport == report' = {}

\* Mutant: a failed task does not forget the login.
Remember(lost) == memory' = IF lost THEN NoLogin ELSE memory

\* By shutdown() in reset(), or by forget_login().
Forget(lost) == memory' = NoLogin

\* reset() after a terminal that is lost, forget_login() otherwise.
LetGo(lost, dead, p) ==
  /\ Forget(lost)
  /\ bound' = IF lost THEN NoPid ELSE bound
  /\ proc' \in IF lost /\ dead THEN Killed(p) ELSE {p}

\* managed and the launched process is gone.
Gone(code) == code = "ipc" /\ managed /\ ~BoundAlive

\* terminal_info() is None.
Deaf(code) == code = "ipc" /\ ~Gone(code) /\ bound # NoPid /\ ~Answering

Probes(code) == IF code = "ipc" /\ wanted # Direct /\ ~calm THEN BOOLEAN ELSE {FALSE}

Lost(code, dead) == Gone(code) \/ Deaf(code) \/ dead

\* A call of the package failed; p is the process after it.
Fail(code, marks, p) ==
  \E dead \in Probes(code) :
    /\ LetGo(Lost(code, dead), dead, p)
    /\ Conclude(code, Lost(code, dead), dead, marks \cup (IF Gone(code) THEN {"replaced"} ELSE {}))
    /\ TakeReport

\* _prepare gave up: a TerminalError without a code.
GiveUp(dead, marks, p) ==
  /\ LetGo(FALSE, dead, p)
  /\ Conclude("other", FALSE, dead, marks)
  /\ TakeReport
  /\ UNCHANGED attachFailures

-----------------------------------------------------------------------------
(* connect() *)

\* Mutant: connect() does not look whether the process is still there.
TrustedBlindly == bound # NoPid

\* The binding may be used: the launched process is still there.
Trusted == bound # NoPid /\ (managed => BoundAlive)

\* Mutant: any login will do.
RememberedAny(l) == memory # NoLogin

Remembered(l) == memory = l

Connect(l) ==
  /\ at = "idle"
  /\ task' = l
  /\ at' = IF ~Trusted THEN "start" ELSE IF Remembered(l) THEN "fetch" ELSE "login"
  /\ IF Trusted \/ bound = NoPid
     THEN UNCHANGED <<bound, memory, replaced>>
     ELSE bound' = NoPid /\ memory' = NoLogin /\ replaced' = TRUE
  /\ result' = NoResult /\ started' = FALSE /\ exchanged' = FALSE
  /\ UNCHANGED <<setting, proc, marker, attachFailures, report, child, calm, wasted>>

Login ==
  /\ at = "login"
  /\ \/ /\ Answering /\ task \in Accepted
        /\ proc' = [proc EXCEPT !.session = task]
        /\ memory' = task
        /\ at' = "fetch"
        /\ UNCHANGED <<setting, marker, bound, attachFailures, replaced, report, task, child,
                       result, calm, started, exchanged, wasted>>
     \/ /\ Answering /\ (task \notin Accepted \/ ~calm)
        /\ \E s \in {proc.session, NoLogin}, code \in {"auth", "other"} :
             Fail(code, report, [proc EXCEPT !.session = s])
        /\ UNCHANGED attachFailures
     \/ /\ ~Answering \/ ~calm
        /\ Fail("ipc", report, proc)
        /\ UNCHANGED attachFailures

-----------------------------------------------------------------------------
(* _prepare() *)

Zombie == attachFailures >= FailuresBeforeKill

\* _attach_blocker finds none.
Attachable ==
  /\ marker # NoMarker /\ marker.proxy = wanted
  /\ marker.pid = proc.pid
  /\ ~Zombie

\* The mark of the kill; proxy_mismatch and pid_mismatch come before zombie.
KillMark ==
  IF marker # NoMarker /\ marker.proxy = wanted /\ marker.pid = proc.pid THEN {"zombie"} ELSE {}

Prepare ==
  /\ at = "start" /\ managed
  /\ replaced' = FALSE /\ started' = TRUE /\ exchanged' = FALSE
  /\ LET fresh == IF replaced THEN {"replaced"} ELSE {} IN
     \/ /\ Running /\ Attachable
        /\ report' = fresh \cup {"attached"}
        /\ at' = "initialize"
        /\ UNCHANGED <<proc, attachFailures>>
     \/ /\ Running /\ ~Attachable
        /\ report' = fresh \cup KillMark
        /\ proc' \in Killed(proc)
        /\ attachFailures' = 0
        /\ at' = "launch"
     \/ /\ ~Running
        /\ report' = fresh
        /\ attachFailures' = 0
        /\ at' = "launch"
        /\ UNCHANGED proc
  /\ UNCHANGED <<setting, marker, bound, memory, task, child, result, calm, wasted>>

ProbeFails ==
  /\ at = "launch" /\ wanted # Direct /\ ~calm
  /\ GiveUp(TRUE, report, proc)

LaunchRefused ==
  /\ at = "launch" /\ ~calm
  /\ GiveUp(FALSE, report \cup {"died"}, proc)

\* Popen; a process that is still there takes over and the new one ends.
Launch ==
  /\ at = "launch"
  /\ \E p \in Fresh :
       /\ child' = p
       /\ proc' = IF Running THEN proc ELSE Process(p, wanted)
  /\ at' = "settle"
  /\ UNCHANGED <<setting, marker, bound, memory, attachFailures, replaced, report, task, result,
                 calm, started, exchanged, wasted>>

\* Three seconds after the launch.
Settle ==
  /\ at = "settle"
  /\ \/ /\ proc.pid = child
        /\ marker' = [proxy |-> wanted, pid |-> child]
        /\ at' = "initialize"
        /\ child' = NoPid
        /\ exchanged' = FALSE
        /\ UNCHANGED <<setting, proc, bound, memory, attachFailures, replaced, report, task, result,
                       calm, started, wasted>>
     \/ /\ Running /\ proc.pid # child
        /\ \E p \in Killed(proc) : GiveUp(FALSE, report \cup {"replaced"}, p)
     \/ /\ ~Running
        /\ GiveUp(FALSE, report \cup {"died"}, proc)

-----------------------------------------------------------------------------
(* _start() *)

StartUnmanaged ==
  /\ at = "start" /\ ~managed
  /\ at' = "initialize"
  /\ started' = TRUE
  /\ UNCHANGED <<setting, proc, marker, bound, memory, attachFailures, replaced, report, task, child,
                 result, calm, exchanged, wasted>>

\* initialize() starts the terminal itself when none runs.
PackageStarts ==
  /\ at = "initialize" /\ ~Running
  /\ \E p \in Fresh : proc' = Process(p, Direct)
  /\ exchanged' = TRUE
  /\ UNCHANGED <<setting, marker, worker, result, calm, started, wasted>>

\* Mutant: a start that worked does not forget the failed ones.
KeepFailures == UNCHANGED attachFailures

ForgetFailures == attachFailures' = 0

Initialized ==
  /\ at = "initialize"
  /\ Running /\ proc.answers /\ task \in Accepted
  /\ proc' = [proc EXCEPT !.session = task, !.failed = 0]
  /\ report' = IF managed THEN report \cup {"initialized"} ELSE report
  /\ bound' = proc.pid
  /\ memory' = task
  /\ ForgetFailures
  /\ at' = "fetch"
  /\ UNCHANGED <<setting, marker, replaced, task, child, result, calm, started, exchanged, wasted>>

\* What _note_initialize_failure adds to the report.
FailureMarks(code) ==
  IF managed THEN (IF code = "ipc" THEN {"ipcFailed"} ELSE {}) \cup (IF Running THEN {} ELSE {"died"})
  ELSE {}

InitializeFails(code) ==
  /\ at = "initialize"
  /\ CASE code = "ipc" -> ~calm \/ (Running /\ ~proc.answers)
       [] OTHER -> Running /\ proc.answers /\ (~calm \/ task \notin Accepted)
  /\ \E s \in IF code = "ipc" THEN {proc.session} ELSE {proc.session, NoLogin} :
       Fail(code, report \cup FailureMarks(code),
            [proc EXCEPT !.session = s,
                         !.failed = IF code = "ipc" /\ Running /\ @ < FailuresBeforeKill THEN @ + 1 ELSE @])
  /\ attachFailures' = IF code = "ipc" /\ "attached" \in report THEN attachFailures + 1
                       ELSE attachFailures

-----------------------------------------------------------------------------
(* fetch_history() and what follows it *)

Fetch ==
  /\ at = "fetch"
  /\ UNCHANGED attachFailures
  /\ \/ /\ Answering /\ proc.session # NoLogin
        /\ Conclude("ok", FALSE, FALSE, report)
        /\ TakeReport
        /\ UNCHANGED <<proc, bound, memory>>
     \/ /\ Answering /\ proc.session = NoLogin
        /\ Fail("other", report, proc)
     \/ /\ ~Answering \/ ~calm
        /\ Fail("ipc", report, proc)

\* Anything else that is raised after connect().
Raises ==
  /\ at = "fetch" /\ ~calm
  /\ LetGo(FALSE, FALSE, proc)
  /\ Conclude("other", FALSE, FALSE, report)
  /\ TakeReport
  /\ UNCHANGED attachFailures

-----------------------------------------------------------------------------
(* The worker dies, is terminated or leaves, and another takes its place *)

\* In the calm only a lost terminal costs the worker its process.
Respawn(w) ==
  /\ calm => at = "idle" /\ result.lost /\ w = wanted
  /\ managed \/ w = wanted
  /\ wanted' = w
  /\ bound' = NoPid /\ memory' = NoLogin /\ attachFailures' = 0 /\ replaced' = FALSE /\ report' = {}
  /\ at' = "idle" /\ child' = NoPid /\ result' = NoResult
  /\ UNCHANGED <<managed, proc, marker, task, calm, started, exchanged, wasted>>

-----------------------------------------------------------------------------
(* The terminal by itself *)

Trouble == ~calm /\ UNCHANGED <<setting, marker, worker, result, calm, started, wasted>>

Exits == Running /\ proc' = NoProcess /\ UNCHANGED exchanged

\* LiveUpdate or a person starts one, without the worker's config.
Appears ==
  /\ ~Running
  /\ \E p \in Fresh : proc' = Process(p, Direct)
  /\ exchanged' = TRUE

Hangs == Running /\ proc.answers /\ proc' = [proc EXCEPT !.answers = FALSE] /\ UNCHANGED exchanged

DropsSession ==
  /\ proc.session # NoLogin
  /\ proc' = [proc EXCEPT !.session = NoLogin]
  /\ UNCHANGED exchanged

Calm ==
  /\ ~calm /\ calm' = TRUE
  /\ UNCHANGED <<setting, proc, marker, worker, result, started, exchanged, wasted>>

-----------------------------------------------------------------------------
Next ==
  \/ \E l \in Logins : Connect(l)
  \/ Login
  \/ Prepare
  \/ ProbeFails
  \/ LaunchRefused
  \/ Launch
  \/ Settle
  \/ StartUnmanaged
  \/ PackageStarts
  \/ Initialized
  \/ \E code \in {"auth", "ipc", "other"} : InitializeFails(code)
  \/ Fetch
  \/ Raises
  \/ \E w \in Proxies : Respawn(w)
  \/ Trouble /\ Exits
  \/ Trouble /\ Appears
  \/ Trouble /\ Hangs
  \/ Trouble /\ DropsSession
  \/ Calm

Spec == Init /\ [][Next]_vars

-----------------------------------------------------------------------------
(* Properties *)

\* Every variable keeps its range; a login is only remembered of a terminal the
\* worker is bound to, and a task is bound wherever it may call the package.
TypeOK ==
  /\ managed \in BOOLEAN
  /\ wanted \in Proxies /\ (~managed => wanted = Direct)
  /\ proc \in AnyProcess /\ marker \in AnyMarker
  /\ bound \in Pids \cup {NoPid}
  /\ memory \in Logins \cup {NoLogin} /\ (memory # NoLogin => bound # NoPid)
  /\ attachFailures \in 0..FailuresBeforeKill
  /\ replaced \in BOOLEAN
  /\ report \subseteq Mark /\ (~managed => report = {})
  /\ at \in {"idle", "start", "launch", "settle", "initialize", "login", "fetch"}
  /\ at \in {"login", "fetch"} => bound # NoPid
  /\ task \in Logins \cup {NoLogin}
  /\ child \in Pids \cup {NoPid} /\ (child # NoPid <=> at = "settle")
  /\ result \in AnyResult
  /\ calm \in BOOLEAN /\ started \in BOOLEAN /\ exchanged \in BOOLEAN
  /\ wasted \in 0..MaxWasted

Serves == at = "fetch" /\ at' = "idle" /\ result'.code = "ok"

SignsIn == proc'.session = task /\ proc.session # task /\ task # NoLogin

\* The history a task answers with is that of its own account, whatever logins
\* failed, sessions dropped and terminals came and went before: the memory that
\* spares a login (connect, terminal.py:128) never vouches for another account.
OwnHistory == [][Serves => proc.session = task]_vars

\* A managed worker signs in and reads only through its own proxy (README:95),
\* unless another terminal came in between after this task had looked.
OwnRoute == [][(Serves \/ SignsIn) /\ managed /\ ~exchanged => proc.proxy = wanted]_vars

\* What a result says of the terminal's start comes from a start of that task:
\* a login or a read on a terminal that was up says nothing (README:473).
StrikesComeFromStarts == result # NoResult /\ ~started => result.marks \subseteq {"replaced"}

\* A terminal is killed as a zombie only after its process failed initialize()
\* twice with no success in between (README:482).
ZombieIsEarned ==
  [][at = "start" /\ "zombie" \in report' => proc.failed >= FailuresBeforeKill]_vars

\* A managed worker digs itself out: once nothing new goes wrong, the login it
\* should not trust, the terminal that does not answer and the one that would not
\* go cost at most the two attaches and one task more, in a row.
TroubleIsOver == managed => wasted <= FailuresBeforeKill + 1
=============================================================================
