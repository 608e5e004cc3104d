--------------------------- MODULE TerminalProofs ---------------------------
(* Proofs about Terminal. *)
EXTENDS Terminal, TLAPS

\* An attach is only tried below the limit, and what is launched was not attached to.
AttachesBelow ==
  /\ at = "initialize" /\ "attached" \in report => attachFailures < FailuresBeforeKill
  /\ at \in {"launch", "settle"} => "attached" \notin report

\* A terminal is started by a worker that is not bound to one.
StartsUnbound == at \in {"start", "launch", "settle", "initialize"} => bound = NoPid

\* The memory is of the terminal the worker is bound to: whoever is logged in
\* there, if anybody, is who it names, and a task reads under its own name.
MemoryIsTrue ==
  /\ at # "idle" => task \in Logins
  /\ at = "fetch" => memory = task
  /\ memory # NoLogin /\ proc.pid = bound /\ proc.session # NoLogin => proc.session = memory

\* The marker names the proxy of the process it names; what the worker launched,
\* and what it is bound to as long as the marker names that, has the worker's.
MarkerIsTrue ==
  /\ proc.pid # NoPid /\ marker.pid = proc.pid => proc.proxy = marker.proxy
  /\ at = "settle" /\ proc.pid = child => proc.proxy = wanted
  /\ managed /\ (at = "initialize" \/ bound # NoPid) => marker.proxy = wanted
  /\ managed /\ at \in {"initialize", "login", "fetch"} /\ ~exchanged /\ Running => proc.proxy = wanted

\* The inductive invariant.
Invariant == TypeOK /\ AttachesBelow /\ StartsUnbound /\ MemoryIsTrue /\ MarkerIsTrue

\* No process, and a new one without a session, are processes.
LEMMA ProcessType ==
  /\ NoProcess \in AnyProcess /\ NoProcess.pid = NoPid /\ NoProcess.session = NoLogin
  /\ \A p \in Pids, x \in Proxies :
       /\ Process(p, x) \in AnyProcess
       /\ Process(p, x).pid = p /\ Process(p, x).proxy = x /\ Process(p, x).session = NoLogin
<1>1. 0 \in 0..FailuresBeforeKill
  BY TerminalAssumption
<1>2. ASSUME NEW p \in Pids \cup {NoPid}, NEW x \in Proxies
      PROVE  /\ Process(p, x) \in AnyProcess
             /\ Process(p, x).pid = p /\ Process(p, x).proxy = x /\ Process(p, x).session = NoLogin
  BY <1>1 DEF Process, AnyProcess
<1>3. Direct \in Proxies
  BY DEF Proxies
<1> QED BY <1>2, <1>3 DEF NoProcess

\* A task that ends, whichever way, keeps the invariant.
LEMMA EndKeeps ==
  ASSUME Invariant,
         at' = "idle", child' = NoPid, report' = {},
         \/ memory' = NoLogin /\ bound' \in {bound, NoPid}
         \/ memory' = memory /\ bound' = bound /\ proc' = proc,
         \/ proc' = NoProcess
         \/ proc' \in AnyProcess /\ proc'.pid = proc.pid /\ proc'.proxy = proc.proxy,
         attachFailures' \in 0..FailuresBeforeKill,
         result' \in AnyResult,
         wasted' \in 0..MaxWasted,
         UNCHANGED <<setting, marker, replaced, task, calm, started, exchanged>>
  PROVE  Invariant'
<1> USE DEF Invariant
<1>1. proc' \in AnyProcess
  BY ProcessType
<1>2. TypeOK'
  BY <1>1 DEF TypeOK, setting
<1>3. AttachesBelow' /\ StartsUnbound'
  BY DEF AttachesBelow, StartsUnbound
<1>4. MemoryIsTrue'
  BY ProcessType DEF MemoryIsTrue
<1>5. MarkerIsTrue'
  BY ProcessType, <1>1 DEF MarkerIsTrue, setting, TypeOK
<1> QED BY <1>2, <1>3, <1>4, <1>5

\* What a task's end does to the result and the count.
LEMMA ConcludeType ==
  ASSUME Invariant, NEW code \in {"ok", "auth", "ipc", "other"}, NEW lost \in BOOLEAN, NEW dead \in BOOLEAN,
         NEW marks \in SUBSET Mark, Conclude(code, lost, dead, marks)
  PROVE  result' \in AnyResult /\ wasted' \in 0..MaxWasted
<1>1. result' \in AnyResult
  BY DEF Conclude, Result, AnyResult
<1>2. wasted \in 0..MaxWasted
  BY DEF Invariant, TypeOK
<1>3. wasted' \in 0..MaxWasted
  BY <1>2, TerminalAssumption DEF Conclude, Count
<1> QED BY <1>1, <1>3

\* A call that fails.
LEMMA FailKeeps ==
  ASSUME Invariant, NEW code \in {"auth", "ipc", "other"}, NEW marks \in SUBSET Mark,
         NEW p \in AnyProcess, p.pid = proc.pid, p.proxy = proc.proxy,
         attachFailures' \in 0..FailuresBeforeKill,
         Fail(code, marks, p)
  PROVE  Invariant'
<1>1. PICK dead \in Probes(code) :
        /\ LetGo(Lost(code, dead), dead, p)
        /\ Conclude(code, Lost(code, dead), dead, marks \cup (IF Gone(code) THEN {"replaced"} ELSE {}))
        /\ TakeReport
  BY DEF Fail
<1>2. dead \in BOOLEAN /\ Lost(code, dead) \in BOOLEAN
  BY DEF Probes, Lost, Gone, Deaf
<1>3. marks \cup (IF Gone(code) THEN {"replaced"} ELSE {}) \in SUBSET Mark
  BY DEF Mark
<1>4. result' \in AnyResult /\ wasted' \in 0..MaxWasted
  BY <1>1, <1>2, <1>3, ConcludeType
<1>5. proc' = NoProcess \/ proc' = p
  BY <1>1 DEF LetGo, Killed
<1>6. memory' = NoLogin /\ bound' \in {bound, NoPid}
  BY <1>1 DEF LetGo, Forget
<1>7. /\ at' = "idle" /\ child' = NoPid /\ report' = {}
      /\ UNCHANGED <<setting, marker, replaced, task, calm, started, exchanged>>
  BY <1>1 DEF Conclude, TakeReport
<1> QED BY <1>4, <1>5, <1>6, <1>7, EndKeeps

\* A launch that fails.
LEMMA GiveUpKeeps ==
  ASSUME Invariant, NEW dead \in BOOLEAN, NEW marks \in SUBSET Mark,
         NEW p \in {proc, NoProcess}, GiveUp(dead, marks, p)
  PROVE  Invariant'
<1>1. result' \in AnyResult /\ wasted' \in 0..MaxWasted
  BY ConcludeType DEF GiveUp
<1>2. proc' = NoProcess \/ proc' = proc
  BY DEF GiveUp, LetGo
<1>3. memory' = NoLogin /\ bound' \in {bound, NoPid}
  BY DEF GiveUp, LetGo, Forget
<1>4. /\ at' = "idle" /\ child' = NoPid /\ report' = {}
      /\ UNCHANGED <<setting, marker, replaced, task, calm, started, exchanged>>
  BY DEF GiveUp, Conclude, TakeReport
<1>5. attachFailures' \in 0..FailuresBeforeKill /\ proc \in AnyProcess
  BY DEF GiveUp, Invariant, TypeOK
<1> QED BY <1>1, <1>2, <1>3, <1>4, <1>5, EndKeeps

\* The invariant holds when the worker begins.
LEMMA Starts == Init => Invariant
<1> SUFFICES ASSUME Init PROVE Invariant
  OBVIOUS
<1>1. proc \in AnyProcess /\ proc.pid = NoPid /\ proc.session = NoLogin
  BY ProcessType DEF Init
<1>2. marker \in AnyMarker /\ marker.pid = NoPid
  BY DEF Init, NoMarker, AnyMarker, Proxies
<1>3. wanted \in Proxies /\ (~managed => wanted = Direct)
  BY DEF Init, Proxies
<1>4. result \in AnyResult
  BY DEF Init, NoResult, Result, AnyResult
<1>5. attachFailures \in 0..FailuresBeforeKill /\ wasted \in 0..MaxWasted
  BY TerminalAssumption DEF Init
<1>6. TypeOK
  BY <1>1, <1>2, <1>3, <1>4, <1>5 DEF Init, TypeOK, Mark
<1>7. AttachesBelow /\ StartsUnbound /\ MemoryIsTrue /\ MarkerIsTrue
  BY <1>1, <1>2 DEF Init, AttachesBelow, StartsUnbound, MemoryIsTrue, MarkerIsTrue, Running
<1> QED BY <1>6, <1>7 DEF Invariant

\* A task is taken.
LEMMA ConnectKeeps == ASSUME Invariant, NEW l \in Logins, Connect(l) PROVE Invariant'
<1> USE DEF Invariant, Connect
<1>1. TypeOK'
  <2>1. NoResult \in AnyResult
    BY DEF NoResult, Result, AnyResult
  <2> QED BY <2>1 DEF TypeOK, setting, Trusted
<1>2. AttachesBelow' /\ StartsUnbound'
  BY DEF TypeOK, AttachesBelow, StartsUnbound, Trusted
<1>3. MemoryIsTrue'
  BY TerminalAssumption DEF TypeOK, MemoryIsTrue, Trusted, Remembered
<1>4. MarkerIsTrue'
  BY TerminalAssumption DEF TypeOK, MarkerIsTrue, Trusted, BoundAlive, Running, setting
<1> QED BY <1>1, <1>2, <1>3, <1>4

\* A login on a terminal that is up.
LEMMA LoginKeeps == ASSUME Invariant, Login PROVE Invariant'
<1> USE DEF Invariant
<1>0. /\ at = "login" /\ task \in Logins /\ bound # NoPid /\ report \in SUBSET Mark
      /\ proc \in AnyProcess /\ attachFailures \in 0..FailuresBeforeKill
  BY DEF Login, TypeOK, MemoryIsTrue
<1>1. CASE /\ Answering /\ task \in Accepted
           /\ proc' = [proc EXCEPT !.session = task]
           /\ memory' = task
           /\ at' = "fetch"
           /\ UNCHANGED <<setting, marker, bound, attachFailures, replaced, report, task, child,
                          result, calm, started, exchanged, wasted>>
  <2>1. /\ proc' \in AnyProcess /\ proc'.pid = proc.pid /\ proc'.proxy = proc.proxy
        /\ proc'.session = task
    BY <1>0, <1>1 DEF AnyProcess
  <2>2. TypeOK'
    BY <1>0, <1>1, <2>1 DEF TypeOK, setting
  <2>3. AttachesBelow' /\ StartsUnbound' /\ MemoryIsTrue'
    BY <1>0, <1>1, <2>1 DEF AttachesBelow, StartsUnbound, MemoryIsTrue
  <2>4. MarkerIsTrue'
    BY <1>0, <1>1, <2>1 DEF MarkerIsTrue, Running, setting
  <2> QED BY <2>2, <2>3, <2>4
<1>2. ASSUME NEW s \in {proc.session, NoLogin}
      PROVE  LET p == [proc EXCEPT !.session = s] IN
             p \in AnyProcess /\ p.pid = proc.pid /\ p.proxy = proc.proxy
  BY <1>0 DEF AnyProcess
<1>3. ASSUME NEW s \in {proc.session, NoLogin}, NEW code \in {"auth", "other"},
             Fail(code, report, [proc EXCEPT !.session = s]), UNCHANGED attachFailures
      PROVE  Invariant'
  <2> HIDE DEF Invariant
  <2> QED BY <1>0, <1>2, <1>3, FailKeeps
<1>4. CASE Fail("ipc", report, proc) /\ UNCHANGED attachFailures
  <2> HIDE DEF Invariant
  <2> QED BY <1>0, <1>4, FailKeeps
<1> QED BY <1>1, <1>3, <1>4 DEF Login

\* The terminal that runs is attached to or killed.
LEMMA PrepareKeeps == ASSUME Invariant, Prepare PROVE Invariant'
<1> USE DEF Invariant, Prepare
<1>1. proc' \in AnyProcess /\ (proc' = proc \/ proc' = NoProcess)
  BY ProcessType DEF TypeOK, Killed
<1>2. report' \in SUBSET Mark
  BY DEF Mark, KillMark
<1>3. attachFailures' \in 0..FailuresBeforeKill
  BY TerminalAssumption DEF TypeOK
<1>4. TypeOK'
  BY <1>1, <1>2, <1>3 DEF TypeOK, setting
<1>5. StartsUnbound' /\ MemoryIsTrue'
  BY <1>1, ProcessType DEF StartsUnbound, MemoryIsTrue, TypeOK
<1>6. AttachesBelow'
  <2>1. attachFailures \in Nat /\ FailuresBeforeKill \in Nat
    BY TerminalAssumption DEF TypeOK
  <2>2. CASE Running /\ Attachable
    BY <2>1, <2>2 DEF AttachesBelow, Attachable, Zombie
  <2>3. CASE ~(Running /\ Attachable)
    BY <2>3 DEF AttachesBelow, KillMark
  <2> QED BY <2>2, <2>3
<1>7. MarkerIsTrue'
  BY <1>1, ProcessType DEF MarkerIsTrue, Attachable, Running, StartsUnbound, setting, TypeOK
<1> QED BY <1>4, <1>5, <1>6, <1>7

\* A terminal is launched, or not.
LEMMA LaunchKeeps == ASSUME Invariant, ProbeFails \/ LaunchRefused \/ Launch PROVE Invariant'
<1>1. CASE ProbeFails
  <2>1. report \in SUBSET Mark
    BY DEF Invariant, TypeOK
  <2> QED BY <1>1, <2>1, GiveUpKeeps DEF ProbeFails
<1>2. CASE LaunchRefused
  <2>1. report \cup {"died"} \in SUBSET Mark
    BY DEF Invariant, TypeOK, Mark
  <2> QED BY <1>2, <2>1, GiveUpKeeps DEF LaunchRefused
<1>3. CASE Launch
  <2> USE DEF Invariant
  <2>1. PICK p \in Fresh : child' = p /\ proc' = IF Running THEN proc ELSE Process(p, wanted)
    BY <1>3 DEF Launch
  <2>2. p \in Pids /\ p # marker.pid /\ p # proc.pid /\ p # NoPid /\ p # bound
    BY TerminalAssumption DEF Fresh
  <2>3. /\ proc' \in AnyProcess
        /\ proc' = proc \/ (proc'.pid = p /\ proc'.proxy = wanted /\ proc'.session = NoLogin)
    BY <2>1, <2>2, ProcessType DEF TypeOK
  <2>4. TypeOK'
    BY <1>3, <2>1, <2>2, <2>3 DEF Launch, TypeOK, setting
  <2>5. AttachesBelow' /\ StartsUnbound' /\ MemoryIsTrue'
    BY <1>3, <2>3 DEF Launch, AttachesBelow, StartsUnbound, MemoryIsTrue
  <2>6. MarkerIsTrue'
    BY <1>3, <2>1, <2>2, <2>3 DEF Launch, MarkerIsTrue, StartsUnbound, setting, Running
  <2> QED BY <2>4, <2>5, <2>6
<1> QED BY <1>1, <1>2, <1>3

\* What is found after a launch.
LEMMA SettleKeeps == ASSUME Invariant, Settle PROVE Invariant'
<1>0. report \in SUBSET Mark /\ report \cup {"died"} \in SUBSET Mark /\ report \cup {"replaced"} \in SUBSET Mark
  BY DEF Invariant, TypeOK, Mark
<1>1. CASE Running /\ \E p \in Killed(proc) : GiveUp(FALSE, report \cup {"replaced"}, p)
  <2>1. Killed(proc) \subseteq {proc, NoProcess}
    BY DEF Killed
  <2> QED BY <1>0, <1>1, <2>1, GiveUpKeeps
<1>2. CASE GiveUp(FALSE, report \cup {"died"}, proc)
  BY <1>0, <1>2, GiveUpKeeps
<1>3. CASE /\ proc.pid = child
           /\ marker' = [proxy |-> wanted, pid |-> child]
           /\ at' = "initialize"
           /\ child' = NoPid
           /\ exchanged' = FALSE
           /\ UNCHANGED <<setting, proc, bound, memory, attachFailures, replaced, report, task, result,
                          calm, started, wasted>>
  <2> USE DEF Invariant
  <2>1. at = "settle"
    BY DEF Settle
  <2>2. marker' \in AnyMarker /\ marker'.pid = child /\ marker'.proxy = wanted
    BY <1>3 DEF AnyMarker, TypeOK
  <2>3. TypeOK'
    BY <1>3, <2>1, <2>2 DEF TypeOK, setting
  <2>4. AttachesBelow' /\ StartsUnbound' /\ MemoryIsTrue'
    BY <1>3, <2>1 DEF AttachesBelow, StartsUnbound, MemoryIsTrue
  <2>5. MarkerIsTrue'
    BY <1>3, <2>1, <2>2 DEF MarkerIsTrue, setting
  <2> QED BY <2>3, <2>4, <2>5
<1> QED BY <1>1, <1>2, <1>3 DEF Settle

\* An unmanaged start, and initialize() with its two ends.
LEMMA StartKeeps == ASSUME Invariant, StartUnmanaged \/ PackageStarts \/ Initialized PROVE Invariant'
<1> USE DEF Invariant
<1>1. CASE StartUnmanaged
  <2>1. TypeOK'
    BY <1>1 DEF StartUnmanaged, TypeOK, setting
  <2>2. AttachesBelow' /\ StartsUnbound' /\ MemoryIsTrue'
    BY <1>1 DEF StartUnmanaged, AttachesBelow, StartsUnbound, MemoryIsTrue, TypeOK
  <2>3. MarkerIsTrue'
    BY <1>1 DEF StartUnmanaged, MarkerIsTrue, Running, setting
  <2> QED BY <2>1, <2>2, <2>3
<1>2. CASE PackageStarts
  <2>1. PICK p \in Fresh : proc' = Process(p, Direct)
    BY <1>2 DEF PackageStarts
  <2>2. p \in Pids /\ p # marker.pid /\ p # NoPid /\ p # bound /\ p # child
    BY TerminalAssumption DEF Fresh
  <2>3. proc' \in AnyProcess /\ proc'.pid = p /\ proc'.session = NoLogin
    BY <2>1, <2>2, ProcessType DEF Proxies
  <2>4. TypeOK'
    BY <1>2, <2>3 DEF PackageStarts, TypeOK, setting, worker
  <2>5. AttachesBelow' /\ StartsUnbound' /\ MemoryIsTrue'
    BY <1>2, <2>3 DEF PackageStarts, AttachesBelow, StartsUnbound, MemoryIsTrue, worker
  <2>6. MarkerIsTrue'
    BY <1>2, <2>2, <2>3 DEF PackageStarts, MarkerIsTrue, setting, worker
  <2> QED BY <2>4, <2>5, <2>6
<1>3. CASE Initialized
  <2>1. /\ at = "initialize" /\ task \in Logins /\ proc \in AnyProcess /\ proc.pid \in Pids
        /\ 0 \in 0..FailuresBeforeKill
    BY <1>3, TerminalAssumption DEF Initialized, TypeOK, MemoryIsTrue, Running, AnyProcess
  <2>2. /\ proc' \in AnyProcess /\ proc'.pid = proc.pid /\ proc'.proxy = proc.proxy
        /\ proc'.session = task
    BY <1>3, <2>1 DEF Initialized, AnyProcess
  <2>3. TypeOK'
    BY <1>3, <2>1, <2>2, TerminalAssumption DEF Initialized, TypeOK, setting, ForgetFailures, Mark
  <2>4. AttachesBelow' /\ StartsUnbound' /\ MemoryIsTrue'
    BY <1>3, <2>2, <2>1 DEF Initialized, AttachesBelow, StartsUnbound, MemoryIsTrue
  <2>5. MarkerIsTrue'
    BY <1>3, <2>1, <2>2 DEF Initialized, MarkerIsTrue, setting, Running
  <2> QED BY <2>3, <2>4, <2>5
<1> QED BY <1>1, <1>2, <1>3

\* initialize() that fails.
LEMMA InitializeFailsKeeps ==
  ASSUME Invariant, NEW code \in {"auth", "ipc", "other"}, InitializeFails(code)
  PROVE  Invariant'
<1>1. /\ at = "initialize" /\ proc \in AnyProcess /\ report \in SUBSET Mark
      /\ attachFailures \in 0..FailuresBeforeKill
      /\ "attached" \in report => attachFailures < FailuresBeforeKill
  BY DEF Invariant, TypeOK, AttachesBelow, InitializeFails
<1>2. attachFailures' \in 0..FailuresBeforeKill
  BY <1>1, TerminalAssumption DEF InitializeFails
<1>3. PICK s \in {proc.session, NoLogin} :
        Fail(code, report \cup FailureMarks(code),
             [proc EXCEPT !.session = s,
                          !.failed = IF code = "ipc" /\ Running /\ @ < FailuresBeforeKill THEN @ + 1 ELSE @])
  BY DEF InitializeFails
<1> DEFINE n == IF code = "ipc" /\ Running /\ proc.failed < FailuresBeforeKill THEN proc.failed + 1
                ELSE proc.failed
           p == [proc EXCEPT !.session = s, !.failed = n]
<1>4. n \in 0..FailuresBeforeKill
  BY <1>1, TerminalAssumption DEF AnyProcess
<1>5. p \in AnyProcess /\ p.pid = proc.pid /\ p.proxy = proc.proxy
  <2> HIDE DEF n
  <2> QED BY <1>1, <1>4 DEF AnyProcess
<1>6. report \cup FailureMarks(code) \in SUBSET Mark
  BY <1>1 DEF FailureMarks, Mark
<1>7. p = [proc EXCEPT !.session = s,
                       !.failed = IF code = "ipc" /\ Running /\ @ < FailuresBeforeKill THEN @ + 1 ELSE @]
  BY <1>1 DEF AnyProcess
<1>8. Fail(code, report \cup FailureMarks(code), p)
  BY <1>3, <1>7
<1> HIDE DEF p
<1> QED BY <1>2, <1>5, <1>6, <1>8, FailKeeps

\* The history is read, or anything else fails.
LEMMA FetchKeeps == ASSUME Invariant, Fetch \/ Raises PROVE Invariant'
<1>0. /\ proc \in AnyProcess /\ report \in SUBSET Mark /\ attachFailures \in 0..FailuresBeforeKill
  BY DEF Invariant, TypeOK
<1>1. CASE /\ UNCHANGED <<attachFailures, proc, bound, memory>>
           /\ Conclude("ok", FALSE, FALSE, report) /\ TakeReport
  <2>1. result' \in AnyResult /\ wasted' \in 0..MaxWasted
    BY <1>0, <1>1, ConcludeType
  <2> QED BY <1>0, <1>1, <2>1, EndKeeps DEF Conclude, TakeReport
<1>2. CASE UNCHANGED attachFailures /\ (Fail("other", report, proc) \/ Fail("ipc", report, proc))
  BY <1>0, <1>2, FailKeeps
<1>3. CASE Raises
  <2>1. result' \in AnyResult /\ wasted' \in 0..MaxWasted
    BY <1>0, <1>3, ConcludeType DEF Raises
  <2> QED BY <1>0, <1>3, <2>1, EndKeeps DEF Raises, LetGo, Forget, Conclude, TakeReport
<1> QED BY <1>1, <1>2, <1>3 DEF Fetch

\* The worker process is replaced.
LEMMA RespawnKeeps == ASSUME Invariant, NEW w \in Proxies, Respawn(w) PROVE Invariant'
<1> USE DEF Invariant, Respawn
<1>1. TypeOK'
  <2>1. NoResult \in AnyResult /\ 0 \in 0..FailuresBeforeKill
    BY TerminalAssumption DEF NoResult, Result, AnyResult
  <2> QED BY <2>1 DEF TypeOK
<1>2. AttachesBelow' /\ StartsUnbound' /\ MemoryIsTrue' /\ MarkerIsTrue'
  BY DEF AttachesBelow, StartsUnbound, MemoryIsTrue, MarkerIsTrue
<1> QED BY <1>1, <1>2

\* The terminal does something by itself.
LEMMA TroubleKeeps ==
  ASSUME Invariant, Trouble, Exits \/ Appears \/ Hangs \/ DropsSession
  PROVE  Invariant'
<1> USE DEF Invariant, Trouble, worker
<1>1. CASE Appears
  <2>1. PICK p \in Fresh : proc' = Process(p, Direct)
    BY <1>1 DEF Appears
  <2>2. p \in Pids /\ p # marker.pid /\ p # NoPid /\ p # bound /\ p # child
    BY TerminalAssumption DEF Fresh
  <2>3. proc' \in AnyProcess /\ proc'.pid = p /\ proc'.session = NoLogin
    BY <2>1, <2>2, ProcessType DEF Proxies
  <2>4. TypeOK'
    BY <1>1, <2>3 DEF Appears, TypeOK, setting
  <2>5. AttachesBelow' /\ StartsUnbound' /\ MemoryIsTrue'
    BY <1>1, <2>3 DEF Appears, AttachesBelow, StartsUnbound, MemoryIsTrue
  <2>6. MarkerIsTrue'
    BY <1>1, <2>2, <2>3 DEF Appears, MarkerIsTrue, setting
  <2> QED BY <2>4, <2>5, <2>6
<1>2. CASE Exits \/ Hangs \/ DropsSession
  <2>1. /\ proc' \in AnyProcess
        /\ proc' = NoProcess \/ (proc'.pid = proc.pid /\ proc'.proxy = proc.proxy
                                  /\ proc'.session \in {proc.session, NoLogin})
        /\ UNCHANGED exchanged
    <3>0. proc \in AnyProcess
      BY DEF TypeOK
    <3>1. CASE Exits
      BY <3>1, ProcessType DEF Exits
    <3>2. CASE Hangs
      BY <3>0, <3>2 DEF Hangs, AnyProcess
    <3>3. CASE DropsSession
      BY <3>0, <3>3 DEF DropsSession, AnyProcess
    <3> QED BY <1>2, <3>1, <3>2, <3>3
  <2>2. TypeOK'
    BY <2>1 DEF TypeOK, setting
  <2>3. AttachesBelow' /\ StartsUnbound' /\ MemoryIsTrue'
    BY <2>1, ProcessType DEF AttachesBelow, StartsUnbound, MemoryIsTrue
  <2>4. MarkerIsTrue'
    BY <2>1, ProcessType DEF MarkerIsTrue, setting, Running, TypeOK
  <2> QED BY <2>2, <2>3, <2>4
<1> QED BY <1>1, <1>2

\* Nothing moves.
LEMMA CalmKeeps == ASSUME Invariant, Calm \/ UNCHANGED vars PROVE Invariant'
<1>1. /\ calm' \in BOOLEAN
      /\ UNCHANGED <<setting, proc, marker, worker, result, started, exchanged, wasted>>
  BY DEF Calm, vars, Invariant, TypeOK
<1> QED BY <1>1 DEF Invariant, TypeOK, AttachesBelow, StartsUnbound, MemoryIsTrue, MarkerIsTrue, Running,
        setting, worker

\* Every step keeps the invariant.
LEMMA StepKeeps == Invariant /\ [Next]_vars => Invariant'
<1> SUFFICES ASSUME Invariant, [Next]_vars PROVE Invariant'
  OBVIOUS
<1>1. CASE \E l \in Logins : Connect(l)
  BY <1>1, ConnectKeeps
<1>2. CASE \E code \in {"auth", "ipc", "other"} : InitializeFails(code)
  BY <1>2, InitializeFailsKeeps
<1>3. CASE \E w \in Proxies : Respawn(w)
  BY <1>3, RespawnKeeps
<1> QED BY <1>1, <1>2, <1>3, LoginKeeps, PrepareKeeps, LaunchKeeps, SettleKeeps, StartKeeps, FetchKeeps,
        TroubleKeeps, CalmKeeps DEF Next

\* Every behaviour keeps the invariant.
THEOREM Inductive == Spec => []Invariant
BY Starts, StepKeeps, PTL DEF Spec

\* Every variable of the worker and its terminal keeps its range, for any number of
\* attaches before a kill.
THEOREM TerminalTypeCorrect == Spec => []TypeOK
<1>1. Invariant => TypeOK
  BY DEF Invariant
<1> QED BY <1>1, Inductive, PTL

\* Only a terminal that answers and is logged in serves a history.
LEMMA ServesFromSession ==
  ASSUME Invariant, [Next]_vars, Serves
  PROVE  at = "fetch" /\ proc.pid = bound /\ Running /\ proc.session # NoLogin
<1> USE DEF Serves
<1>1. ASSUME NEW code \in {"auth", "ipc", "other"}, NEW marks, NEW p, Fail(code, marks, p)
      PROVE  FALSE
  BY <1>1 DEF Fail, Conclude, Result
<1>2. CASE Fetch
  BY <1>1, <1>2 DEF Fetch, Answering
<1>3. CASE Raises
  BY <1>3 DEF Raises, Conclude, Result
<1>4. CASE \E w \in Proxies : Respawn(w)
  BY <1>4 DEF Respawn, NoResult, Result
<1>5. CASE Trouble
  BY <1>5 DEF Trouble, worker
<1>6. CASE Calm \/ UNCHANGED vars
  BY <1>6 DEF Calm, vars, worker
<1>7. CASE \E l \in Logins : Connect(l)
  BY <1>7 DEF Connect
<1>8. CASE \E code \in {"auth", "ipc", "other"} : InitializeFails(code)
  BY <1>8 DEF InitializeFails
<1>9. CASE Login \/ Prepare \/ ProbeFails \/ LaunchRefused \/ Launch \/ Settle \/ StartUnmanaged
           \/ PackageStarts \/ Initialized
  BY <1>9 DEF Login, Prepare, ProbeFails, LaunchRefused, Launch, Settle, StartUnmanaged, PackageStarts,
     Initialized
<1> QED BY <1>2, <1>3, <1>4, <1>5, <1>6, <1>7, <1>8, <1>9 DEF Next

\* An account is only signed in by login() and by initialize().
LEMMA SignsInByCall ==
  ASSUME Invariant, [Next]_vars, SignsIn
  PROVE  at \in {"login", "initialize"} /\ Running
<1> USE DEF SignsIn
<1>0. /\ proc \in AnyProcess /\ task \in Logins \cup {NoLogin}
      /\ Process(NoPid, Direct).session = NoLogin
      /\ \A p, x : Process(p, x).session = NoLogin
  BY DEF Invariant, TypeOK, Process
<1>1. CASE proc' = proc \/ proc'.session = NoLogin
  BY <1>0, <1>1
<1>2. ASSUME NEW lost, NEW dead, NEW p, LetGo(lost, dead, p), p.session \in {proc.session, NoLogin}
      PROVE  FALSE
  BY <1>0, <1>2 DEF LetGo, Killed, NoProcess
<1>3. CASE Login
  BY <1>2, <1>3, <1>0 DEF Login, Answering, Fail, AnyProcess
<1>4. CASE Initialized
  BY <1>4 DEF Initialized
<1>5. ASSUME NEW code \in {"auth", "ipc", "other"}, InitializeFails(code)
      PROVE  FALSE
  <2>1. PICK s \in {proc.session, NoLogin} :
          Fail(code, report \cup FailureMarks(code),
               [proc EXCEPT !.session = s,
                            !.failed = IF code = "ipc" /\ Running /\ @ < FailuresBeforeKill THEN @ + 1 ELSE @])
    BY <1>5 DEF InitializeFails
  <2> DEFINE n == IF code = "ipc" /\ Running /\ proc.failed < FailuresBeforeKill THEN proc.failed + 1
                  ELSE proc.failed
             p == [proc EXCEPT !.session = s, !.failed = n]
  <2>2. p.session = s
    <3> HIDE DEF n
    <3> QED BY <1>0 DEF AnyProcess
  <2>3. Fail(code, report \cup FailureMarks(code), p)
    BY <2>1, <1>0 DEF AnyProcess
  <2> HIDE DEF p
  <2> QED BY <2>2, <2>3, <1>2 DEF Fail
<1>6. CASE Fetch \/ Raises
  BY <1>0, <1>1, <1>2, <1>6 DEF Fetch, Raises, Fail
<1>7. CASE ProbeFails \/ LaunchRefused \/ Settle
  BY <1>0, <1>1, <1>2, <1>7 DEF ProbeFails, LaunchRefused, Settle, GiveUp, Killed, NoProcess
<1>8. CASE Prepare \/ Launch \/ StartUnmanaged \/ PackageStarts
  BY <1>0, <1>1, <1>8 DEF Prepare, Launch, StartUnmanaged, PackageStarts, Killed, NoProcess
<1>9. CASE (\E l \in Logins : Connect(l)) \/ (\E w \in Proxies : Respawn(w)) \/ Calm \/ UNCHANGED vars
  BY <1>1, <1>9 DEF Connect, Respawn, Calm, vars
<1>10. CASE Exits \/ Appears \/ Hangs \/ DropsSession
  BY <1>0, <1>1, <1>10 DEF Exits, Appears, Hangs, DropsSession, NoProcess, AnyProcess
<1> QED BY <1>3, <1>4, <1>5, <1>6, <1>7, <1>8, <1>9, <1>10 DEF Next, Running, Initialized, Login, Answering

\* A task answers with the history of its own account, for any accounts, whatever
\* failed, dropped, was replaced or hung before.
THEOREM HistoryIsOwn == Spec => OwnHistory
<1>1. Invariant /\ [Next]_vars => (Serves => proc.session = task)
  BY ServesFromSession, TerminalAssumption DEF Invariant, MemoryIsTrue
<1> QED BY <1>1, Inductive, PTL DEF Spec, OwnHistory

\* A managed worker signs in and reads through its own proxy only, unless another
\* terminal came in after the task had looked.
THEOREM RouteIsOwn == Spec => OwnRoute
<1>1. Invariant /\ [Next]_vars => ((Serves \/ SignsIn) /\ managed /\ ~exchanged => proc.proxy = wanted)
  BY ServesFromSession, SignsInByCall DEF Invariant, MarkerIsTrue
<1> QED BY <1>1, Inductive, PTL DEF Spec, OwnRoute

-----------------------------------------------------------------------------
(* Where strikes and kills come from *)

\* What the report says was found by the start of the task in hand.
MarksAreOwn ==
  /\ at \in {"idle", "start"} \/ ~started => report = {}
  /\ at \in {"launch", "settle", "initialize"} => started
  /\ StrikesComeFromStarts

\* The attach failures were failures of the process the marker names, if it runs.
FailuresAreSeen ==
  /\ at \in {"launch", "settle"} => attachFailures = 0
  /\ BoundAlive => attachFailures <= proc.failed

\* What a failed call leaves.
LEMMA FailFacts ==
  ASSUME NEW code \in {"auth", "ipc", "other"}, NEW marks, NEW p, Fail(code, marks, p)
  PROVE  /\ at' = "idle" /\ child' = NoPid /\ report' = {} /\ memory' = NoLogin
         /\ result'.marks \in {marks, marks \cup {"replaced"}}
         /\ result'.lost \in BOOLEAN
         /\ bound' = IF result'.lost THEN NoPid ELSE bound
         /\ proc' \in {p, NoProcess}
         /\ calm => proc' = p /\ (result'.lost <=> Gone(code) \/ Deaf(code))
         /\ Count(FALSE)
         /\ UNCHANGED <<setting, marker, replaced, task, calm, started, exchanged>>
<1>1. PICK dead \in Probes(code) :
        /\ LetGo(Lost(code, dead), dead, p)
        /\ Conclude(code, Lost(code, dead), dead, marks \cup (IF Gone(code) THEN {"replaced"} ELSE {}))
        /\ TakeReport
  BY DEF Fail
<1>2. dead \in BOOLEAN /\ (calm => dead = FALSE) /\ Lost(code, dead) \in BOOLEAN
  BY DEF Probes, Lost, Gone, Deaf
<1>3. /\ result'.lost = Lost(code, dead)
      /\ result'.marks = marks \cup (IF Gone(code) THEN {"replaced"} ELSE {})
  BY <1>1 DEF Conclude, Result
<1>4. Count(FALSE)
  BY <1>1 DEF Conclude
<1>5. proc' \in {p, NoProcess} /\ (calm => proc' = p)
  BY <1>1, <1>2 DEF LetGo, Killed
<1>6. calm => (result'.lost <=> Gone(code) \/ Deaf(code))
  BY <1>2, <1>3 DEF Lost
<1> QED BY <1>1, <1>2, <1>3, <1>4, <1>5, <1>6 DEF LetGo, Forget, Conclude, TakeReport

\* What is left when a launch was given up.
LEMMA GiveUpFacts ==
  ASSUME NEW dead \in BOOLEAN, NEW marks, NEW p, GiveUp(dead, marks, p)
  PROVE  /\ at' = "idle" /\ child' = NoPid /\ report' = {} /\ memory' = NoLogin
         /\ result'.marks = marks /\ result'.lost = FALSE
         /\ bound' = bound /\ proc' = p /\ attachFailures' = attachFailures
         /\ Count(FALSE)
         /\ UNCHANGED <<setting, marker, replaced, task, calm, started, exchanged>>
<1>1. result'.marks = marks /\ result'.lost = FALSE
  BY DEF GiveUp, Conclude, Result
<1>2. Count(FALSE)
  BY DEF GiveUp, Conclude
<1> QED BY <1>1, <1>2 DEF GiveUp, LetGo, Forget, Conclude, TakeReport

\* A task ends with the marks of its report.
LEMMA EndHasOwnMarks ==
  ASSUME MarksAreOwn, at # "idle", at' = "idle", report' = {}, UNCHANGED started, NEW marks,
         marks \subseteq report \/ started,
         result'.marks \in {marks, marks \cup {"replaced"}}
  PROVE  MarksAreOwn'
BY DEF MarksAreOwn, StrikesComeFromStarts

LEMMA MarksStep == Invariant /\ MarksAreOwn /\ [Next]_vars => MarksAreOwn'
<1> SUFFICES ASSUME Invariant, MarksAreOwn, [Next]_vars PROVE MarksAreOwn'
  OBVIOUS
<1>1. ASSUME NEW code \in {"auth", "ipc", "other"}, NEW marks, NEW p, Fail(code, marks, p), at # "idle",
             marks = report \/ started
      PROVE  MarksAreOwn'
  BY <1>1, FailFacts, EndHasOwnMarks
<1>2. CASE Login
  <2>1. at = "login" /\ ((UNCHANGED <<started, report, result>> /\ at' = "fetch")
        \/ \E code \in {"auth", "ipc", "other"} : \E p : Fail(code, report, p))
    BY <1>2 DEF Login
  <2> QED BY <1>1, <2>1 DEF MarksAreOwn, StrikesComeFromStarts
<1>3. ASSUME NEW code \in {"auth", "ipc", "other"}, InitializeFails(code) PROVE MarksAreOwn'
  <2>1. at = "initialize" /\ \E marks, p : Fail(code, marks, p)
    BY <1>3 DEF InitializeFails
  <2> QED BY <1>1, <2>1 DEF MarksAreOwn
<1>4. CASE ProbeFails \/ LaunchRefused
  <2>1. at = "launch" /\ \E dead \in BOOLEAN : \E marks, p : GiveUp(dead, marks, p)
    BY <1>4 DEF ProbeFails, LaunchRefused
  <2> QED BY <2>1, GiveUpFacts, EndHasOwnMarks DEF MarksAreOwn
<1>5. CASE Settle
  <2>1. at = "settle" /\ ((at' = "initialize" /\ UNCHANGED <<started, report, result>>)
        \/ \E marks, p : GiveUp(FALSE, marks, p))
    BY <1>5 DEF Settle
  <2> QED BY <2>1, GiveUpFacts, EndHasOwnMarks DEF MarksAreOwn, StrikesComeFromStarts
<1>6. CASE Fetch \/ Raises
  <2>1. at = "fetch"
    BY <1>6 DEF Fetch, Raises
  <2>2. ASSUME NEW code, Conclude(code, FALSE, FALSE, report), TakeReport
        PROVE  MarksAreOwn'
    <3>1. result'.marks = report
      BY <2>2 DEF Conclude, Result
    <3> QED BY <2>1, <2>2, <3>1, EndHasOwnMarks DEF Conclude, TakeReport
  <2> QED BY <1>1, <1>6, <2>1, <2>2 DEF Fetch, Raises
<1>7. CASE Prepare
  BY <1>7 DEF Prepare, MarksAreOwn, StrikesComeFromStarts
<1>8. CASE (\E l \in Logins : Connect(l)) \/ (\E w \in Proxies : Respawn(w))
  BY <1>8 DEF Connect, Respawn, MarksAreOwn, StrikesComeFromStarts
<1>9. CASE Launch \/ StartUnmanaged \/ PackageStarts \/ Initialized \/ Trouble \/ Calm \/ UNCHANGED vars
  BY <1>9 DEF Launch, StartUnmanaged, PackageStarts, Initialized, Trouble, Calm, vars, worker, MarksAreOwn,
    StrikesComeFromStarts, Invariant, TypeOK
<1> QED BY <1>2, <1>3, <1>4, <1>5, <1>6, <1>7, <1>8, <1>9 DEF Next

\* A login or a read on a terminal that was up never counts against its start,
\* for any thresholds and whatever failed before.
THEOREM StrikesAreOwn == Spec => []StrikesComeFromStarts
<1>1. Init => MarksAreOwn
  BY DEF Init, MarksAreOwn, StrikesComeFromStarts
<1>2. MarksAreOwn => StrikesComeFromStarts
  BY DEF MarksAreOwn
<1> QED BY <1>1, <1>2, Inductive, MarksStep, PTL DEF Spec

\* A step that neither fails an attach nor improves the record of the process.
LEMMA SeenKept ==
  ASSUME Invariant, Invariant', FailuresAreSeen,
         at' \notin {"launch", "settle"} \/ at \in {"launch", "settle"},
         attachFailures' = attachFailures, marker' = marker,
         \/ proc'.pid \in {NoPid} \cup (Pids \ {marker.pid})
         \/ proc'.pid = proc.pid /\ proc'.failed >= proc.failed
  PROVE  FailuresAreSeen'
<1>1. /\ attachFailures \in Int /\ proc.failed \in Int /\ proc'.failed \in Int
      /\ NoPid \notin Pids
  BY TerminalAssumption DEF Invariant, TypeOK, AnyProcess
<1> QED BY <1>1 DEF FailuresAreSeen, BoundAlive, Running

\* A start that begins with no failed attach.
LEMMA SeenCleared == ASSUME Invariant', attachFailures' = 0 PROVE FailuresAreSeen'
<1>1. proc'.failed \in Nat
  BY DEF Invariant, TypeOK, AnyProcess
<1> QED BY <1>1 DEF FailuresAreSeen

\* A call that failed and was no attach.
LEMMA FailSeen ==
  ASSUME Invariant, Invariant', FailuresAreSeen, attachFailures' = attachFailures,
         NEW code \in {"auth", "ipc", "other"}, NEW marks, NEW p, Fail(code, marks, p),
         p.pid = proc.pid, p.failed >= proc.failed
  PROVE  FailuresAreSeen'
<1>1. at' = "idle" /\ marker' = marker /\ proc' \in {p, NoProcess}
  BY FailFacts
<1>2. NoProcess.pid = NoPid
  BY ProcessType
<1>3. proc'.pid = NoPid \/ (proc'.pid = proc.pid /\ proc'.failed >= proc.failed)
  BY <1>1, <1>2
<1> QED BY <1>1, <1>3, SeenKept

LEMMA SeenStep == Invariant /\ FailuresAreSeen /\ [Next]_vars => FailuresAreSeen'
<1> SUFFICES ASSUME Invariant, FailuresAreSeen, [Next]_vars PROVE FailuresAreSeen'
  OBVIOUS
<1>0. /\ Invariant' /\ NoProcess.pid = NoPid
      /\ proc \in AnyProcess /\ proc.failed \in Int /\ attachFailures \in Int
      /\ FailuresBeforeKill \in Int /\ proc.failed <= FailuresBeforeKill
  BY StepKeeps, ProcessType, TerminalAssumption DEF Invariant, TypeOK, AnyProcess
<1>1. ASSUME NEW code \in {"auth", "ipc", "other"}, NEW marks, Fail(code, marks, proc), UNCHANGED attachFailures
      PROVE  FailuresAreSeen'
  <2>1. proc.pid = proc.pid /\ proc.failed >= proc.failed
    BY <1>0
  <2> QED BY <1>0, <1>1, <2>1, FailSeen
<1>2. CASE Login
  <2>1. ASSUME NEW s, NEW code \in {"auth", "other"}, NEW marks,
               Fail(code, marks, [proc EXCEPT !.session = s]), UNCHANGED attachFailures
        PROVE  FailuresAreSeen'
    <3> DEFINE p == [proc EXCEPT !.session = s]
    <3>1. p.pid = proc.pid /\ p.failed >= proc.failed
      BY <1>0 DEF AnyProcess
    <3>2. Fail(code, marks, p)
      BY <2>1
    <3> HIDE DEF p
    <3> QED BY <1>0, <2>1, <3>1, <3>2, FailSeen
  <2>2. CASE proc' = [proc EXCEPT !.session = task] /\ at' = "fetch" /\ UNCHANGED <<marker, attachFailures>>
    <3>1. proc'.pid = proc.pid /\ proc'.failed = proc.failed
      BY <1>0, <2>2 DEF AnyProcess
    <3> QED BY <1>0, <2>2, <3>1, SeenKept
  <2> QED BY <1>1, <1>2, <2>1, <2>2 DEF Login
<1>3. ASSUME NEW code \in {"auth", "ipc", "other"}, InitializeFails(code) PROVE FailuresAreSeen'
  <2> DEFINE n == IF code = "ipc" /\ Running /\ proc.failed < FailuresBeforeKill THEN proc.failed + 1
                  ELSE proc.failed
  <2>1. PICK s \in {proc.session, NoLogin} :
          Fail(code, report \cup FailureMarks(code), [proc EXCEPT !.session = s, !.failed = n])
    BY <1>0, <1>3 DEF InitializeFails, AnyProcess
  <2>2. /\ [proc EXCEPT !.session = s, !.failed = n].pid = proc.pid
        /\ [proc EXCEPT !.session = s, !.failed = n].failed = n
    <3> HIDE DEF n
    <3> QED BY <1>0 DEF AnyProcess
  <2>3. /\ at' = "idle" /\ marker' = marker
        /\ proc'.pid = NoPid \/ (proc'.pid = proc.pid /\ proc'.failed = n)
    BY <1>0, <2>1, <2>2, FailFacts
  <2>4. CASE attachFailures' = attachFailures
    BY <1>0, <2>3, <2>4, SeenKept
  <2>5. CASE code = "ipc" /\ "attached" \in report /\ attachFailures' = attachFailures + 1
    <3>1. attachFailures < FailuresBeforeKill
      BY <1>3, <2>5 DEF InitializeFails, Invariant, AttachesBelow
    <3>2. at' = "idle" /\ (BoundAlive' => BoundAlive /\ proc'.failed = n)
      BY <1>0, <2>3 DEF BoundAlive, Running
    <3>3. BoundAlive => attachFailures <= proc.failed /\ Running
      BY DEF FailuresAreSeen, BoundAlive
    <3>4. BoundAlive' => attachFailures' <= proc'.failed
      BY <1>0, <2>5, <3>1, <3>2, <3>3
    <3> QED BY <3>2, <3>4 DEF FailuresAreSeen
  <2> QED BY <1>3, <2>4, <2>5 DEF InitializeFails
<1>4. CASE ProbeFails \/ LaunchRefused \/ Settle
  <2>1. at \in {"launch", "settle"}
    BY <1>4 DEF ProbeFails, LaunchRefused, Settle
  <2>2. attachFailures' = attachFailures
    BY <1>4 DEF ProbeFails, LaunchRefused, Settle, GiveUp
  <2> QED BY <1>0, <2>1, <2>2, SeenCleared DEF FailuresAreSeen
<1>5. CASE Launch
  BY <1>0, <1>5, SeenCleared DEF Launch, FailuresAreSeen
<1>6. CASE Fetch \/ Raises
  <2>1. ASSUME UNCHANGED proc, NEW code, Conclude(code, FALSE, FALSE, report), UNCHANGED attachFailures
        PROVE  FailuresAreSeen'
    BY <1>0, <2>1, SeenKept DEF Conclude
  <2> QED BY <1>1, <1>6, <2>1 DEF Fetch, Raises, LetGo
<1>7. CASE Prepare
  <2>1. CASE attachFailures' = 0
    BY <1>0, <2>1, SeenCleared
  <2>2. CASE at' = "initialize" /\ UNCHANGED <<proc, attachFailures, marker>>
    BY <1>0, <2>2, SeenKept
  <2> QED BY <1>7, <2>1, <2>2 DEF Prepare
<1>8. CASE PackageStarts \/ (Trouble /\ Appears)
  <2>1. PICK p \in Fresh : proc' = Process(p, Direct)
    BY <1>8 DEF PackageStarts, Appears
  <2>2. proc'.pid \in Pids \ {marker.pid}
    BY <2>1, ProcessType DEF Fresh, Proxies
  <2>3. UNCHANGED <<at, attachFailures, marker>>
    BY <1>8 DEF PackageStarts, Trouble, worker
  <2> QED BY <1>0, <2>2, <2>3, SeenKept
<1>9. CASE Initialized \/ (\E w \in Proxies : Respawn(w))
  BY <1>0, <1>9, SeenCleared DEF Initialized, ForgetFailures, Respawn
<1>10. CASE Trouble /\ (Exits \/ Hangs \/ DropsSession)
  <2>1. proc'.pid = NoPid \/ (proc'.pid = proc.pid /\ proc'.failed = proc.failed)
    BY <1>0, <1>10 DEF Exits, Hangs, DropsSession, AnyProcess
  <2>2. UNCHANGED <<at, attachFailures, marker>>
    BY <1>10 DEF Trouble, worker
  <2> QED BY <1>0, <2>1, <2>2, SeenKept
<1>11. CASE (\E l \in Logins : Connect(l)) \/ StartUnmanaged \/ Calm \/ UNCHANGED vars
  <2>1. UNCHANGED <<proc, marker, attachFailures>>
    BY <1>11 DEF Connect, StartUnmanaged, Calm, vars, worker
  <2>2. at' \notin {"launch", "settle"} \/ at \in {"launch", "settle"}
    BY <1>11 DEF Connect, StartUnmanaged, Calm, vars, worker
  <2> QED BY <1>0, <2>1, <2>2, SeenKept
<1> QED BY <1>2, <1>3, <1>4, <1>5, <1>6, <1>7, <1>8, <1>9, <1>10, <1>11 DEF Next

\* A mark "zombie" is only set by a kill, of the process whose attaches failed.
LEMMA ZombieStep ==
  ASSUME Invariant, MarksAreOwn, FailuresAreSeen, [Next]_vars, at = "start", "zombie" \in report'
  PROVE  proc.failed >= FailuresBeforeKill
<1>1. report = {}
  BY DEF MarksAreOwn
<1>2. Prepare
  BY <1>1 DEF Next, Connect, Login, ProbeFails, LaunchRefused, Launch, Settle, StartUnmanaged, PackageStarts,
     Initialized, InitializeFails, Fetch, Raises, Respawn, Trouble, Calm, vars, worker
<1>3. /\ Running /\ ~Attachable
      /\ marker # NoMarker /\ marker.proxy = wanted /\ marker.pid = proc.pid
  BY <1>2 DEF Prepare, KillMark
<1>4. attachFailures >= FailuresBeforeKill
  BY <1>3 DEF Attachable, Zombie
<1>5. attachFailures <= proc.failed
  BY <1>3 DEF FailuresAreSeen, BoundAlive
<1>6. attachFailures \in Int /\ proc.failed \in Int /\ FailuresBeforeKill \in Int
  BY TerminalAssumption DEF Invariant, TypeOK, AnyProcess
<1> QED BY <1>4, <1>5, <1>6

\* No process is killed as a zombie before it failed initialize() as often as the
\* limit says, with no success in between, for any limit.
THEOREM ZombiesAreEarned == Spec => ZombieIsEarned
<1>1. Init => MarksAreOwn /\ FailuresAreSeen
  BY ProcessType DEF Init, MarksAreOwn, StrikesComeFromStarts, FailuresAreSeen, BoundAlive, Running
<1>2. Invariant /\ MarksAreOwn /\ FailuresAreSeen /\ [Next]_vars
        => (at = "start" /\ "zombie" \in report' => proc.failed >= FailuresBeforeKill)
  BY ZombieStep
<1> QED BY <1>1, <1>2, Inductive, MarksStep, SeenStep, PTL DEF Spec, ZombieIsEarned

-----------------------------------------------------------------------------
(* What a worker wastes before it has dug itself out *)

\* Who the worker is bound to: a lost terminal to nobody, and a binding begins with
\* a start that worked, so with no failed attach, of the process the marker names.
Binding ==
  /\ at # "idle" => ~result.lost
  /\ result.lost => bound = NoPid
  /\ bound # NoPid => attachFailures = 0
  /\ bound # NoPid /\ BoundAlive => bound = proc.pid

\* The launched process is there and does not answer.
Stuck == BoundAlive /\ ~proc.answers

\* What may have been wasted when a task is taken.
IdleWaste ==
  /\ bound = NoPid /\ Stuck => wasted <= attachFailures + 1
  /\ bound = NoPid /\ Stuck /\ result.lost => wasted <= 1
  /\ bound # NoPid /\ Stuck => wasted = 0
  /\ bound # NoPid /\ BoundAlive /\ memory # NoLogin /\ proc.session = NoLogin
       => wasted <= FailuresBeforeKill

\* What may have been wasted while a task stands where it can still fail.
TaskWaste ==
  /\ at = "start" /\ Stuck => wasted <= attachFailures + 1
  /\ at = "launch" /\ Running => wasted <= FailuresBeforeKill
  /\ at = "settle" /\ proc.pid # child => wasted <= FailuresBeforeKill
  /\ at = "settle" /\ proc.pid = child /\ ~proc.answers => wasted = 0
  /\ at = "initialize" /\ Stuck => wasted <= attachFailures + 1
  /\ at = "initialize" /\ Stuck /\ "attached" \notin report => wasted <= attachFailures
  /\ at = "initialize" /\ Running /\ ~BoundAlive /\ ~proc.answers => wasted <= FailuresBeforeKill
  /\ at \in {"login", "fetch"} /\ Stuck => wasted = 0
  /\ at \in {"login", "fetch"} /\ ~Answering => wasted <= FailuresBeforeKill
  /\ at = "fetch" /\ proc.session = NoLogin => wasted <= FailuresBeforeKill

\* The strengthening of TroubleIsOver.
WasteIsBounded ==
  /\ wasted <= FailuresBeforeKill + 1
  /\ ~calm => wasted = 0
  /\ at = "idle" => IdleWaste
  /\ at # "idle" /\ task \in Accepted => TaskWaste

\* Neither the process changes its number nor the marker, or there is no process,
\* or it is one the marker does not name; the binding stays or is dropped.
LEMMA BindingKept ==
  ASSUME Binding,
         at' # "idle" => ~result'.lost,
         result'.lost => bound' = NoPid,
         bound' \in {bound, NoPid},
         bound' = NoPid \/ attachFailures' \in {attachFailures, 0},
         bound' = NoPid \/ marker' = marker,
         proc'.pid \in {proc.pid, NoPid} \cup (Pids \ {marker.pid})
  PROVE  Binding'
BY DEF Binding, BoundAlive, Running

LEMMA BindingStep == Invariant /\ Binding /\ [Next]_vars => Binding'
<1> SUFFICES ASSUME Invariant, Binding, [Next]_vars PROVE Binding'
  OBVIOUS
<1>0. /\ NoProcess.pid = NoPid /\ NoResult.lost = FALSE
      /\ proc \in AnyProcess
      /\ at \in {"start", "launch", "settle", "initialize"} => bound = NoPid
      /\ (at # "idle" => ~result.lost) /\ (result.lost => bound = NoPid)
  BY ProcessType DEF Invariant, TypeOK, StartsUnbound, Binding, NoResult, Result
<1>1. ASSUME NEW code \in {"auth", "ipc", "other"}, NEW marks, NEW p, Fail(code, marks, p), p.pid = proc.pid,
             bound = NoPid \/ attachFailures' = attachFailures
      PROVE  Binding'
  <2>1. /\ at' = "idle" /\ marker' = marker /\ (result'.lost => bound' = NoPid) /\ bound' \in {bound, NoPid}
        /\ proc'.pid \in {proc.pid, NoPid}
    BY <1>0, <1>1, FailFacts
  <2> QED BY <1>1, <2>1, BindingKept
<1>2. CASE Login
  <2>1. /\ at = "login" /\ attachFailures' = attachFailures
        /\ \A s : [proc EXCEPT !.session = s].pid = proc.pid
    BY <1>0, <1>2 DEF Login, AnyProcess
  <2>2. CASE proc' = [proc EXCEPT !.session = task] /\ UNCHANGED <<marker, bound, result>>
    <3>1. proc'.pid = proc.pid
      BY <2>1, <2>2
    <3> QED BY <1>0, <2>1, <2>2, <3>1, BindingKept
  <2>3. ASSUME NEW s, NEW code \in {"auth", "other"}, NEW marks, Fail(code, marks, [proc EXCEPT !.session = s])
        PROVE  Binding'
    <3> DEFINE p == [proc EXCEPT !.session = s]
    <3>1. p.pid = proc.pid
      BY <2>1
    <3>2. Fail(code, marks, p)
      BY <2>3
    <3> HIDE DEF p
    <3> QED BY <1>1, <2>1, <3>1, <3>2
  <2>4. ASSUME NEW marks, Fail("ipc", marks, proc)
        PROVE  Binding'
    BY <1>1, <2>1, <2>4
  <2> QED BY <1>2, <2>2, <2>3, <2>4 DEF Login
<1>3. ASSUME NEW code \in {"auth", "ipc", "other"}, InitializeFails(code) PROVE Binding'
  <2>1. at = "initialize" /\ \E s, n : Fail(code, report \cup FailureMarks(code),
                                            [proc EXCEPT !.session = s, !.failed = n])
    BY <1>0, <1>3 DEF InitializeFails, AnyProcess
  <2>2. PICK s, n : Fail(code, report \cup FailureMarks(code), [proc EXCEPT !.session = s, !.failed = n])
    BY <2>1
  <2> DEFINE p == [proc EXCEPT !.session = s, !.failed = n]
  <2>3. p.pid = proc.pid
    BY <1>0 DEF AnyProcess
  <2>4. Fail(code, report \cup FailureMarks(code), p)
    BY <2>2
  <2> HIDE DEF p
  <2> QED BY <1>0, <1>1, <2>1, <2>3, <2>4
<1>4. CASE ProbeFails \/ LaunchRefused \/ Settle
  <2>1. /\ at \in {"launch", "settle"} /\ bound = NoPid
        /\ \/ UNCHANGED <<bound, result>>
           \/ \E dead \in BOOLEAN : \E marks, p : GiveUp(dead, marks, p)
    BY <1>0, <1>4 DEF ProbeFails, LaunchRefused, Settle
  <2> QED BY <1>0, <2>1, GiveUpFacts DEF Binding
<1>5. CASE Fetch \/ Raises
  <2>1. at = "fetch" /\ attachFailures' = attachFailures
    BY <1>5 DEF Fetch, Raises
  <2>2. ASSUME NEW code, Conclude(code, FALSE, FALSE, report), UNCHANGED <<proc, bound>>
        PROVE  Binding'
    <3>1. at' = "idle" /\ result'.lost = FALSE /\ marker' = marker
      BY <2>2 DEF Conclude, Result
    <3> QED BY <2>1, <2>2, <3>1, BindingKept
  <2> QED BY <1>1, <1>5, <2>1, <2>2 DEF Fetch, Raises, LetGo
<1>6. CASE Prepare \/ Launch \/ StartUnmanaged
  <2>1. bound' = NoPid /\ UNCHANGED result /\ at # "idle"
    BY <1>0, <1>6 DEF Prepare, Launch, StartUnmanaged
  <2> QED BY <1>0, <2>1 DEF Binding
<1>7. CASE PackageStarts \/ (Trouble /\ (Exits \/ Appears \/ Hangs \/ DropsSession))
  <2>1. UNCHANGED <<at, bound, result, attachFailures, marker>>
    BY <1>7 DEF PackageStarts, Trouble, worker
  <2>2. proc'.pid \in {proc.pid, NoPid} \cup (Pids \ {marker.pid})
    <3>1. CASE \E p \in Fresh : proc' = Process(p, Direct)
      BY <3>1, ProcessType DEF Fresh, Proxies
    <3>2. CASE Exits
      BY <1>0, <3>2 DEF Exits
    <3>3. CASE Hangs \/ DropsSession
      BY <1>0, <3>3 DEF Hangs, DropsSession, AnyProcess
    <3>4. CASE PackageStarts \/ Appears
      BY <3>1, <3>4 DEF PackageStarts, Appears
    <3> QED BY <1>7, <3>2, <3>3, <3>4
  <2> QED BY <1>0, <2>1, <2>2, BindingKept
<1>8. CASE Initialized
  <2>1. /\ UNCHANGED result /\ bound' = proc.pid /\ attachFailures' = 0
        /\ proc'.pid = proc.pid /\ at # "idle"
    BY <1>0, <1>8 DEF Initialized, ForgetFailures, AnyProcess
  <2> QED BY <1>0, <2>1 DEF Binding
<1>9. CASE (\E l \in Logins : Connect(l)) \/ (\E w \in Proxies : Respawn(w))
  BY <1>0, <1>9 DEF Connect, Respawn, Binding, BoundAlive, Running
<1>10. CASE Calm \/ UNCHANGED vars
  BY <1>10 DEF Calm, vars, worker, Binding, BoundAlive, Running
<1> QED BY <1>2, <1>3, <1>4, <1>5, <1>6, <1>7, <1>8, <1>9, <1>10 DEF Next

\* With nothing wasted every bound holds.
LEMMA NothingWasted == ASSUME Invariant', wasted' = 0 PROVE WasteIsBounded'
<1>0. attachFailures' \in 0..FailuresBeforeKill
  BY DEF Invariant, TypeOK
<1>1. attachFailures' \in Nat /\ \A n \in Nat : 0 <= n /\ 0 <= n + 1
  BY <1>0, TerminalAssumption
<1>2. /\ wasted' <= attachFailures' /\ wasted' <= attachFailures' + 1 /\ wasted' <= 1
      /\ wasted' <= FailuresBeforeKill /\ wasted' <= FailuresBeforeKill + 1
  <2>1. FailuresBeforeKill \in Nat /\ 0 <= 1
    BY TerminalAssumption
  <2> QED BY <1>1, <2>1, Zenon
<1>3. IdleWaste'
  BY <1>2, Zenon DEF IdleWaste
<1>4. TaskWaste'
  BY <1>2, Zenon DEF TaskWaste
<1> QED BY <1>2, <1>3, <1>4, Zenon DEF WasteIsBounded

\* A failed task wastes one more at most, and one the broker refuses none.
LEMMA OneWasted ==
  ASSUME Invariant, Count(FALSE)
  PROVE  wasted' = 0 \/ (task \in Accepted /\ wasted' \in Int /\ wasted' <= wasted + 1)
<1>1. wasted \in Int /\ MaxWasted \in Int
  BY TerminalAssumption DEF Invariant, TypeOK
<1> QED BY <1>1 DEF Count

\* Before the calm nothing is counted.
LEMMA NoneBeforeCalm == ASSUME wasted = 0, ~calm, [Next]_vars PROVE wasted' = 0
<1>1. ASSUME NEW ok, Count(ok) PROVE wasted' = 0
  BY <1>1 DEF Count
<1>2. ASSUME NEW code, NEW marks, NEW p, Fail(code, marks, p) PROVE wasted' = 0
  BY <1>1, <1>2 DEF Fail, Conclude
<1>3. ASSUME NEW dead, NEW marks, NEW p, GiveUp(dead, marks, p) PROVE wasted' = 0
  BY <1>1, <1>3 DEF GiveUp, Conclude
<1>4. CASE Login \/ (\E code \in {"auth", "ipc", "other"} : InitializeFails(code))
  BY <1>2, <1>4 DEF Login, InitializeFails
<1>5. CASE ProbeFails \/ LaunchRefused \/ Settle
  BY <1>3, <1>5 DEF ProbeFails, LaunchRefused, Settle
<1>6. CASE Fetch \/ Raises
  BY <1>1, <1>2, <1>6 DEF Fetch, Raises, Conclude
<1>7. CASE (\E l \in Logins : Connect(l)) \/ Prepare \/ Launch \/ StartUnmanaged \/ PackageStarts \/ Initialized
           \/ (\E w \in Proxies : Respawn(w)) \/ Trouble \/ Calm \/ UNCHANGED vars
  BY <1>7 DEF Connect, Prepare, Launch, StartUnmanaged, PackageStarts, Initialized, Respawn, Trouble, Calm, vars
<1> QED BY <1>4, <1>5, <1>6, <1>7 DEF Next

\* A task is taken: what the idle worker may have wasted is what its start may have.
LEMMA ConnectWastes ==
  ASSUME Invariant, Invariant', Binding, WasteIsBounded, managed, calm, NEW l \in Logins, Connect(l)
  PROVE  WasteIsBounded'
<1>1. /\ at = "idle" /\ at' \in {"start", "login", "fetch"}
      /\ UNCHANGED <<proc, marker, attachFailures, wasted, calm>>
      /\ at' = "start" <=> ~Trusted
      /\ Trusted => bound' = bound
      /\ at' = "fetch" => memory = l
  BY DEF Connect, Remembered
<1>2. FailuresBeforeKill \in Nat /\ attachFailures \in Nat /\ wasted \in Int /\ NoLogin \notin Logins
  BY TerminalAssumption DEF Invariant, TypeOK
<1>3. ASSUME at' = "start", Stuck PROVE wasted <= attachFailures + 1
  <2>1. bound = NoPid
    BY <1>1, <1>3 DEF Trusted, Stuck
  <2> QED BY <1>1, <1>2, <1>3, <2>1 DEF WasteIsBounded, IdleWaste
<1>4. ASSUME Trusted, Stuck PROVE wasted = 0
  BY <1>1, <1>4 DEF WasteIsBounded, IdleWaste, Trusted
<1>5. ASSUME Trusted, ~Answering PROVE Stuck
  BY <1>5 DEF Trusted, Binding, Answering, Stuck, BoundAlive
<1>6. ASSUME at' = "fetch", proc.session = NoLogin PROVE wasted <= FailuresBeforeKill
  BY <1>1, <1>2, <1>6 DEF WasteIsBounded, IdleWaste, Trusted
<1>7. (Stuck' <=> Stuck) /\ (Trusted => (Answering' <=> Answering))
  BY <1>1 DEF Stuck, BoundAlive, Answering, Running
<1>8. TaskWaste'
  BY <1>1, <1>2, <1>3, <1>4, <1>5, <1>6, <1>7 DEF TaskWaste
<1> QED BY <1>1, <1>8 DEF WasteIsBounded

\* A call to a terminal that is gone or deaf: it is lost, and if the launched
\* process is still there nothing was wasted before.
LEMMA DeafWastes ==
  ASSUME Invariant, Invariant', WasteIsBounded, managed, calm,
         at \in {"login", "fetch"}, ~Answering, NEW marks, Fail("ipc", marks, proc)
  PROVE  WasteIsBounded'
<1>1. /\ at' = "idle" /\ proc' = proc /\ UNCHANGED <<marker, calm, task>> /\ Count(FALSE)
      /\ result'.lost <=> Gone("ipc") \/ Deaf("ipc")
      /\ bound' = IF result'.lost THEN NoPid ELSE bound
  BY FailFacts
<1>2. result'.lost /\ bound' = NoPid
  BY <1>1 DEF Gone, Deaf, Invariant, TypeOK
<1>3. FailuresBeforeKill \in Nat /\ wasted \in Int
  BY TerminalAssumption DEF Invariant, TypeOK
<1>4. CASE task \in Accepted /\ wasted' \in Int /\ wasted' <= wasted + 1
  <2>1. wasted <= FailuresBeforeKill /\ (Stuck => wasted = 0)
    BY <1>4 DEF WasteIsBounded, TaskWaste
  <2>2. Stuck' <=> Stuck
    BY <1>1 DEF Stuck, BoundAlive, Running
  <2>3. attachFailures' \in Nat /\ (Stuck' => wasted' <= 1)
    BY <1>3, <1>4, <2>1, <2>2 DEF Invariant, TypeOK
  <2>4. IdleWaste'
    <3>1. \A n \in Nat : wasted' <= 1 => wasted' <= n + 1
      BY <1>4
    <3>2. Stuck' => wasted' <= attachFailures' + 1
      BY <2>3, <3>1, Zenon
    <3> QED BY <1>2, <2>3, <3>2, Zenon DEF IdleWaste
  <2> QED BY <1>1, <1>3, <1>4, <2>1, <2>4 DEF WasteIsBounded
<1> QED BY <1>1, <1>4, OneWasted, NothingWasted

LEMMA LoginWastes ==
  ASSUME Invariant, Invariant', WasteIsBounded, managed, calm, Login
  PROVE  WasteIsBounded'
<1>1. CASE ~Answering /\ Fail("ipc", report, proc)
  BY <1>1, DeafWastes DEF Login
<1>2. ASSUME NEW s, NEW code \in {"auth", "other"}, task \notin Accepted,
             Fail(code, report, [proc EXCEPT !.session = s])
      PROVE  WasteIsBounded'
  <2>1. Count(FALSE)
    BY <1>2, FailFacts
  <2> QED BY <1>2, <2>1, OneWasted, NothingWasted
<1>3. CASE /\ Answering /\ task \in Accepted
           /\ proc' = [proc EXCEPT !.session = task]
           /\ at' = "fetch"
           /\ UNCHANGED <<marker, bound, calm, wasted>>
  <2>1. proc'.session = task /\ proc'.pid = proc.pid /\ proc'.answers /\ task # NoLogin
    BY <1>3, TerminalAssumption DEF Answering, Invariant, TypeOK, AnyProcess
  <2>2. Answering' /\ ~Stuck'
    BY <1>3, <2>1 DEF Answering, Running, Stuck
  <2>3. TaskWaste'
    BY <1>3, <2>1, <2>2 DEF TaskWaste
  <2> QED BY <1>3, <2>3 DEF WasteIsBounded
<1> QED BY <1>1, <1>2, <1>3 DEF Login

\* A terminal that answers is killed or attached to, or there is none.
LEMMA PrepareWastes ==
  ASSUME Invariant, Invariant', WasteIsBounded, managed, calm, Prepare
  PROVE  WasteIsBounded'
<1>1. at = "start" /\ UNCHANGED <<marker, task, calm, wasted>>
  BY DEF Prepare
<1>2. CASE /\ Running /\ Attachable /\ UNCHANGED <<proc, attachFailures>>
           /\ at' = "initialize" /\ "attached" \in report'
  <2>1. BoundAlive' /\ (Stuck' <=> Stuck)
    BY <1>1, <1>2 DEF Attachable, BoundAlive, Running, Stuck
  <2>2. task \in Accepted => TaskWaste'
    BY <1>1, <1>2, <2>1 DEF WasteIsBounded, TaskWaste
  <2> QED BY <1>1, <1>2, <2>2 DEF WasteIsBounded
<1>3. CASE at' = "launch" /\ proc'.pid = NoPid
  BY <1>1, <1>3 DEF WasteIsBounded, TaskWaste, Running
<1> QED BY <1>2, <1>3, ProcessType DEF Prepare, Killed, Running

\* What ran before the launch is still there, or the launched process answers.
LEMMA LaunchWastes ==
  ASSUME Invariant, Invariant', WasteIsBounded, calm, Launch
  PROVE  WasteIsBounded'
<1>1. /\ at = "launch" /\ at' = "settle" /\ UNCHANGED <<marker, task, calm, wasted>>
      /\ \E p \in Fresh : child' = p /\ proc' = IF Running THEN proc ELSE Process(p, wanted)
  BY DEF Launch
<1>2. CASE Running
  <2>1. proc' = proc /\ proc.pid # child'
    BY <1>1, <1>2 DEF Fresh
  <2>2. task \in Accepted => TaskWaste'
    BY <1>1, <1>2, <2>1 DEF WasteIsBounded, TaskWaste
  <2> QED BY <1>1, <2>2 DEF WasteIsBounded
<1>3. CASE ~Running
  <2>1. proc'.pid = child' /\ proc'.answers
    BY <1>1, <1>3 DEF Process
  <2>2. TaskWaste'
    BY <1>1, <2>1 DEF TaskWaste
  <2> QED BY <1>1, <2>2 DEF WasteIsBounded
<1> QED BY <1>2, <1>3

\* A launch that was in vain wastes the task, and leaves no process.
LEMMA SettleWastes ==
  ASSUME Invariant, Invariant', WasteIsBounded, managed, calm, Settle
  PROVE  WasteIsBounded'
<1>0. /\ at = "settle" /\ child # NoPid /\ FailuresBeforeKill \in Nat
      /\ wasted \in Int /\ attachFailures \in Nat
  BY TerminalAssumption DEF Invariant, TypeOK, Settle
<1>1. CASE /\ proc.pid = child /\ at' = "initialize"
           /\ UNCHANGED <<proc, attachFailures, task, calm, wasted>>
  <2>1. task \in Accepted /\ ~proc.answers => wasted = 0
    BY <1>0, <1>1 DEF WasteIsBounded, TaskWaste
  <2>2. task \in Accepted => TaskWaste'
    BY <1>0, <1>1, <2>1 DEF TaskWaste, Stuck
  <2> QED BY <1>1, <2>2 DEF WasteIsBounded
<1>2. ASSUME proc.pid # child, NEW marks, NEW p, p.pid = NoPid, GiveUp(FALSE, marks, p)
      PROVE  WasteIsBounded'
  <2>1. /\ at' = "idle" /\ proc' = p /\ UNCHANGED <<calm, task>> /\ Count(FALSE)
    BY <1>2, GiveUpFacts
  <2>2. CASE task \in Accepted /\ wasted' \in Int /\ wasted' <= wasted + 1
    <3>1. wasted' <= FailuresBeforeKill + 1
      BY <1>0, <1>2, <2>2 DEF WasteIsBounded, TaskWaste
    <3>2. ~BoundAlive'
      BY <1>2, <2>1 DEF BoundAlive, Running
    <3> QED BY <2>1, <3>1, <3>2 DEF WasteIsBounded, IdleWaste, Stuck
  <2> QED BY <2>1, <2>2, OneWasted, NothingWasted
<1>3. CASE Running /\ proc.pid # child /\ \E p \in Killed(proc) : GiveUp(FALSE, report \cup {"replaced"}, p)
  BY <1>2, <1>3, ProcessType DEF Killed
<1>4. CASE ~Running /\ GiveUp(FALSE, report \cup {"died"}, proc)
  BY <1>0, <1>2, <1>4 DEF Running
<1> QED BY <1>1, <1>3, <1>4 DEF Settle

\* A process that answers is initialized.
LEMMA InitializedWastes ==
  ASSUME Invariant, Invariant', WasteIsBounded, calm, PackageStarts \/ Initialized
  PROVE  WasteIsBounded'
<1>1. CASE PackageStarts
  <2>1. proc'.answers /\ at = "initialize" /\ UNCHANGED <<at, task, calm, wasted>>
    BY <1>1 DEF PackageStarts, Process, worker
  <2>2. TaskWaste'
    BY <2>1 DEF TaskWaste, Stuck
  <2> QED BY <2>1, <2>2 DEF WasteIsBounded
<1>2. CASE Initialized
  <2>1. /\ at' = "fetch" /\ UNCHANGED <<task, calm, wasted>> /\ bound' = proc.pid
        /\ proc'.session = task /\ proc'.pid = proc.pid /\ proc'.answers /\ Running /\ task # NoLogin
    BY <1>2, TerminalAssumption DEF Initialized, Invariant, TypeOK, AnyProcess
  <2>2. Answering' /\ ~Stuck'
    BY <2>1 DEF Answering, Running, Stuck
  <2>3. TaskWaste'
    BY <2>1, <2>2 DEF TaskWaste
  <2> QED BY <2>1, <2>3 DEF WasteIsBounded
<1> QED BY <1>1, <1>2

\* Each failed attach wastes the task that made it, and is counted.
LEMMA InitializeFailsWastes ==
  ASSUME Invariant, Invariant', WasteIsBounded, managed, calm,
         NEW code \in {"auth", "ipc", "other"}, InitializeFails(code)
  PROVE  WasteIsBounded'
<1> DEFINE n == IF code = "ipc" /\ Running /\ proc.failed < FailuresBeforeKill THEN proc.failed + 1
                ELSE proc.failed
<1>0. /\ at = "initialize" /\ proc \in AnyProcess /\ bound = NoPid
      /\ FailuresBeforeKill \in Nat /\ wasted \in Int
      /\ attachFailures \in Nat /\ attachFailures' \in 0..FailuresBeforeKill
  BY TerminalAssumption DEF Invariant, TypeOK, InitializeFails, StartsUnbound
<1>1. PICK s : Fail(code, report \cup FailureMarks(code), [proc EXCEPT !.session = s, !.failed = n])
  BY <1>0 DEF InitializeFails, AnyProcess
<1> DEFINE p == [proc EXCEPT !.session = s, !.failed = n]
<1>2. p.pid = proc.pid /\ p.answers = proc.answers
  <2> HIDE DEF n
  <2> QED BY <1>0 DEF AnyProcess
<1>3. Fail(code, report \cup FailureMarks(code), p)
  BY <1>1
<1> HIDE DEF p
<1>4. /\ at' = "idle" /\ proc' = p /\ UNCHANGED <<marker, calm, task>> /\ Count(FALSE)
      /\ result'.lost => Gone(code)
      /\ bound' = NoPid
  BY <1>0, <1>3, FailFacts DEF Deaf
<1>5. CASE task \in Accepted /\ wasted' \in Int /\ wasted' <= wasted + 1
  <2>1. /\ code = "ipc" /\ Running /\ ~proc.answers
        /\ attachFailures' = IF "attached" \in report THEN attachFailures + 1 ELSE attachFailures
    BY <1>5 DEF InitializeFails
  <2>2. CASE BoundAlive
    <3>1. /\ wasted <= attachFailures + 1
          /\ "attached" \notin report => wasted <= attachFailures
      BY <1>0, <1>5, <2>1, <2>2 DEF WasteIsBounded, TaskWaste, Stuck
    <3>2. wasted <= attachFailures'
      BY <1>0, <2>1, <3>1
    <3>3. wasted' <= attachFailures' + 1
      <4>1. \A m \in Int : wasted <= m => wasted' <= m + 1
        BY <1>0, <1>5
      <4>2. attachFailures' \in Int
        BY <1>0
      <4> QED BY <3>2, <4>1, <4>2, Zenon
    <3>4. wasted' <= FailuresBeforeKill + 1
      BY <1>0, <1>5, <3>2
    <3>5. ~result'.lost
      BY <1>4, <2>2 DEF Gone
    <3>6. IdleWaste'
      BY <1>4, <3>3, <3>5, Zenon DEF IdleWaste
    <3> QED BY <1>4, <3>4, <3>6 DEF WasteIsBounded
  <2>3. CASE ~BoundAlive
    <3>1. wasted' <= FailuresBeforeKill + 1
      BY <1>0, <1>5, <2>1, <2>3 DEF WasteIsBounded, TaskWaste
    <3>2. ~BoundAlive'
      BY <1>2, <1>4, <2>3 DEF BoundAlive, Running
    <3> QED BY <1>4, <3>1, <3>2 DEF WasteIsBounded, IdleWaste, Stuck
  <2> QED BY <2>2, <2>3
<1> QED BY <1>4, <1>5, OneWasted, NothingWasted

\* A read without a session wastes the task, and the next one signs in.
LEMMA FetchWastes ==
  ASSUME Invariant, Invariant', Binding', WasteIsBounded, managed, calm, Fetch
  PROVE  WasteIsBounded'
<1>1. CASE Conclude("ok", FALSE, FALSE, report)
  BY <1>1, NothingWasted DEF Conclude, Count
<1>2. CASE Answering /\ proc.session = NoLogin /\ Fail("other", report, proc)
  <2>1. /\ at' = "idle" /\ proc' = proc /\ UNCHANGED <<calm, task>> /\ Count(FALSE) /\ memory' = NoLogin
    BY <1>2, FailFacts
  <2>2. CASE task \in Accepted /\ wasted' \in Int /\ wasted' <= wasted + 1
    <3>1. wasted <= FailuresBeforeKill /\ wasted \in Int /\ FailuresBeforeKill \in Int
      BY <1>2, <2>2, TerminalAssumption DEF WasteIsBounded, TaskWaste, Fetch, Invariant, TypeOK
    <3>2. ~Stuck'
      BY <1>2, <2>1 DEF Answering, Stuck
    <3> QED BY <2>1, <2>2, <3>1, <3>2 DEF WasteIsBounded, IdleWaste
  <2> QED BY <2>1, <2>2, OneWasted, NothingWasted
<1>3. CASE ~Answering /\ Fail("ipc", report, proc)
  BY <1>3, DeafWastes DEF Fetch
<1> QED BY <1>1, <1>2, <1>3 DEF Fetch

\* A worker that lost its terminal leaves, and the next one starts anew.
LEMMA RespawnWastes ==
  ASSUME Invariant, Invariant', Binding, WasteIsBounded, calm, NEW w \in Proxies, Respawn(w)
  PROVE  WasteIsBounded'
<1>1. /\ at = "idle" /\ at' = "idle" /\ result.lost /\ bound = NoPid /\ bound' = NoPid
      /\ attachFailures' = 0 /\ UNCHANGED <<proc, marker, calm, wasted>>
  BY DEF Respawn, Binding
<1>2. Stuck' <=> Stuck
  BY <1>1 DEF Stuck, BoundAlive, Running
<1>3. result'.lost = FALSE
  BY DEF Respawn, NoResult, Result
<1>4. Stuck => wasted <= 1
  BY <1>1 DEF WasteIsBounded, IdleWaste
<1> QED BY <1>1, <1>2, <1>3, <1>4 DEF WasteIsBounded, IdleWaste

\* Nothing happens.
LEMMA WasteStays == ASSUME WasteIsBounded, UNCHANGED vars PROVE WasteIsBounded'
BY DEF WasteIsBounded, IdleWaste, TaskWaste, Stuck, BoundAlive, Answering, Running, vars, worker

LEMMA WasteStep ==
  Invariant /\ Binding /\ (managed => WasteIsBounded) /\ [Next]_vars => (managed => WasteIsBounded)'
<1> SUFFICES ASSUME Invariant, Binding, managed => WasteIsBounded, [Next]_vars, managed' PROVE WasteIsBounded'
  OBVIOUS
<1>1. managed
  <2>1. managed' = managed
    <3>1. ASSUME NEW code, NEW lost, NEW dead, NEW marks, Conclude(code, lost, dead, marks)
          PROVE  managed' = managed
      BY <3>1 DEF Conclude, setting
    <3>2. ASSUME NEW code, NEW marks, NEW p, Fail(code, marks, p) PROVE managed' = managed
      BY <3>1, <3>2 DEF Fail
    <3>3. ASSUME NEW dead, NEW marks, NEW p, GiveUp(dead, marks, p) PROVE managed' = managed
      BY <3>1, <3>3 DEF GiveUp
    <3> QED BY <3>1, <3>2, <3>3 DEF Next, Connect, Login, Prepare, ProbeFails, LaunchRefused, Launch, Settle,
          StartUnmanaged, PackageStarts, Initialized, InitializeFails, Fetch, Raises, Respawn, Trouble, Calm,
          vars, setting
  <2> QED BY <2>1
<1>2. WasteIsBounded /\ Invariant' /\ Binding'
  BY <1>1, StepKeeps, BindingStep
<1>3. CASE ~calm
  <2>1. wasted' = 0
    BY <1>2, <1>3, NoneBeforeCalm DEF WasteIsBounded
  <2> QED BY <1>2, <2>1, NothingWasted
<1>4. CASE calm
  <2>1. CASE \E l \in Logins : Connect(l)
    BY <1>1, <1>2, <1>4, <2>1, ConnectWastes
  <2>2. CASE Login
    BY <1>1, <1>2, <1>4, <2>2, LoginWastes
  <2>3. CASE Prepare
    BY <1>1, <1>2, <1>4, <2>3, PrepareWastes
  <2>4. CASE Launch
    BY <1>2, <1>4, <2>4, LaunchWastes
  <2>5. CASE Settle
    BY <1>1, <1>2, <1>4, <2>5, SettleWastes
  <2>6. CASE PackageStarts \/ Initialized
    BY <1>2, <1>4, <2>6, InitializedWastes
  <2>7. CASE \E code \in {"auth", "ipc", "other"} : InitializeFails(code)
    BY <1>1, <1>2, <1>4, <2>7, InitializeFailsWastes
  <2>8. CASE Fetch
    BY <1>1, <1>2, <1>4, <2>8, FetchWastes
  <2>9. CASE \E w \in Proxies : Respawn(w)
    BY <1>2, <1>4, <2>9, RespawnWastes
  <2>10. CASE UNCHANGED vars
    BY <1>2, <2>10, WasteStays
  <2> QED BY <1>1, <1>4, <2>1, <2>2, <2>3, <2>4, <2>5, <2>6, <2>7, <2>8, <2>9, <2>10
          DEF Next, ProbeFails, LaunchRefused, StartUnmanaged, Raises, Trouble, Calm
<1> QED BY <1>3, <1>4

\* Once nothing new goes wrong, a managed worker fails at most as many tasks in a
\* row as it may fail attaches, and one, for any limit.
THEOREM TroubleEnds == Spec => []TroubleIsOver
<1>1. Init => Binding /\ (managed => WasteIsBounded)
  BY ProcessType, TerminalAssumption DEF Init, Binding, BoundAlive, Running, NoResult, Result,
     WasteIsBounded, IdleWaste, TaskWaste, Stuck
<1>2. (managed => WasteIsBounded) => TroubleIsOver
  BY DEF WasteIsBounded, TroubleIsOver
<1> QED BY <1>1, <1>2, Inductive, BindingStep, WasteStep, PTL DEF Spec
=============================================================================
