----------------------------- MODULE SharedProofs -----------------------------
(* Proofs about what the workers share: the gate of their cold starts        *)
(* (StartGate) and the registry of their proxies (ProxyRegistry).            *)
EXTENDS StartGate, ProxyRegistry, TLAPS

-----------------------------------------------------------------------------
(* The gate *)

\* Every variable these proofs look at keeps its range.
GateTypeOK ==
  /\ at \in [Workers -> Place]
  /\ lock \in Workers \cup {Nobody}
  /\ since \in {NoStart} \cup 0..(Hold + 1)
  /\ acquired \in [Workers -> BOOLEAN]
  /\ due \in [Workers -> 0..Poll]
  /\ waited \in [Workers -> 0..(Hold + Poll - 1)]

\* Who stands behind the lock holds it; who starts without it has overtaken it.
HoldsLock ==
  \A w \in Workers : at[w] \in {"locked", "cleared"} \/ (at[w] = "start" /\ acquired[w]) => lock = w

\* No process is killed where the lock is held and no start is recorded.
KilledInStarts == KilledAt \cap {"locked", "cleared"} = {}

\* The lock is held without a recorded start for as long as no time passes, nobody
\* has waited longer than the recorded start is old, and who waits looks at it no
\* later than one poll after the limit.
WaitsAreShort ==
  /\ since = NoStart => \A w \in Workers : lock = w => at[w] \in {"locked", "cleared"}
  /\ since # NoStart => \A w \in Workers : waited[w] <= since \/ since > Hold
  /\ \A w \in Workers : at[w] = "wait" => due[w] >= 1
  /\ since # NoStart => \A w \in Workers : at[w] = "wait" => waited[w] + due[w] < Hold + Poll

GateInvariant == GateTypeOK /\ HoldsLock /\ WaitsAreShort

\* One process moves, the others stay.
LEMMA GoMoves ==
  ASSUME NEW w \in Workers, NEW place \in Place, at \in [Workers -> Place], Go(w, place)
  PROVE  \A v \in Workers : at'[v] = IF v = w THEN place ELSE at[v]
  BY DEF Go

LEMMA WaitMoves ==
  ASSUME NEW w \in Workers, at \in [Workers -> Place], due \in [Workers -> 0..Poll], Wait(w)
  PROVE  /\ \A v \in Workers : at'[v] = IF v = w THEN "wait" ELSE at[v]
         /\ \A v \in Workers : due'[v] = IF v = w THEN Poll ELSE due[v]
         /\ due' \in [Workers -> 0..Poll]
  BY GateAssumption DEF Wait, Go

-----------------------------------------------------------------------------
\* The lock is its holder's wherever a process is killed.
LEMMA HoldsLockStep ==
  ASSUME lock \in Workers \cup {Nobody}, at \in [Workers -> Place], acquired \in [Workers -> BOOLEAN],
         HoldsLock, [GateNext]_gateVars
  PROVE  HoldsLock' /\ lock' \in Workers \cup {Nobody} /\ at' \in [Workers -> Place]
         /\ acquired' \in [Workers -> BOOLEAN]
<1> USE GateAssumption DEF HoldsLock, Place
<1>1. CASE Tick
  BY <1>1 DEF Tick
<1>2. ASSUME NEW w \in Workers, Step(w)
      PROVE  HoldsLock' /\ lock' \in Workers \cup {Nobody} /\ at' \in [Workers -> Place]
             /\ acquired' \in [Workers -> BOOLEAN]
  <2>1. CASE Arrive(w)
    BY <2>1 DEF Arrive, Wait, Go
  <2>2. CASE Lock(w)
    BY <2>2 DEF Lock, Go
  <2>3. CASE Stamp(w)
    BY <2>3 DEF Stamp, Begin, Go
  <2>4. CASE Look(w)
    BY <2>4 DEF Look, Wait, Go
  <2>5. CASE Overtake(w)
    BY <2>5 DEF Overtake, Begin, Go
  <2>6. CASE Clear(w)
    BY <2>6 DEF Clear, Go
  <2>7. CASE Unlock(w)
    BY <2>7 DEF Unlock, Go
  <2>8. CASE Kill(w)
    BY <2>8 DEF Kill, Go
  <2>9. CASE Respawn(w)
    BY <2>9 DEF Respawn, Go
  <2> QED BY <1>2, <2>1, <2>2, <2>3, <2>4, <2>5, <2>6, <2>7, <2>8, <2>9 DEF Step
<1>3. CASE UNCHANGED gateVars
  BY <1>3 DEF gateVars
<1> QED BY <1>1, <1>2, <1>3 DEF GateNext

\* A start that overtook the gate never gives back the lock of the start it
\* overtook, for any processes and limit, and wherever a process may be killed.
THEOREM LockStaysWithItsStart == GateSpec => []HolderKeepsLock
<1> DEFINE Held == /\ lock \in Workers \cup {Nobody} /\ at \in [Workers -> Place]
                   /\ acquired \in [Workers -> BOOLEAN]
                   /\ HoldsLock
<1>1. GateInit => Held
  BY DEF GateInit, HoldsLock, Place
<1>2. Held /\ [GateNext]_gateVars => Held'
  BY HoldsLockStep
<1>3. Held => HolderKeepsLock
  BY DEF HoldsLock, HolderKeepsLock
<1> QED BY <1>1, <1>2, <1>3, PTL DEF GateSpec

-----------------------------------------------------------------------------
\* A second passes for those who wait only under a recorded start.
LEMMA SecondKeeps ==
  ASSUME GateInvariant, Tick
  PROVE  GateInvariant'
<1> USE GateAssumption DEF GateInvariant
<1>1. HoldsLock' /\ lock' = lock /\ at' \in [Workers -> Place] /\ acquired' = acquired
  BY HoldsLockStep DEF GateTypeOK, GateNext, Tick
<1>2. ASSUME NEW w \in Workers, at[w] = "wait"
      PROVE  /\ since \in 0..(Hold + 1) /\ due[w] \in 1..Poll /\ waited[w] \in 0..(Hold + Poll - 1)
             /\ waited[w] + due[w] < Hold + Poll
             /\ waited[w] <= since \/ since > Hold
  BY <1>2 DEF Tick, GateTypeOK, WaitsAreShort, NoStart
<1>3. /\ since' \in {NoStart} \cup 0..(Hold + 1)
      /\ since = NoStart <=> since' = NoStart
      /\ since # NoStart => /\ since' \in 0..(Hold + 1)
                            /\ since' = since + 1 \/ (since > Hold /\ since' = since)
  BY DEF Tick, GateTypeOK, Older, NoStart
<1>4. \A w \in Workers : waited'[w] = IF at[w] = "wait" THEN Older(waited[w], Hold + Poll) ELSE 0
  BY DEF Tick
<1>5. \A w \in Workers : due'[w] = IF at[w] = "wait" THEN due[w] - 1 ELSE 0
  BY DEF Tick
<1>6. \A w \in Workers : at'[w] = IF at[w] = "wait" /\ due[w] = 1 THEN "timeout" ELSE at[w]
  BY DEF Tick
<1>7. ASSUME NEW w \in Workers
      PROVE  /\ waited'[w] \in 0..(Hold + Poll - 1)
             /\ due'[w] \in 0..Poll
             /\ since' # NoStart => waited'[w] <= since' \/ since' > Hold
             /\ at'[w] = "wait" => due'[w] >= 1 /\ waited'[w] + due'[w] < Hold + Poll
  <2>1. CASE at[w] = "wait"
    <3>1. waited'[w] = waited[w] + 1 /\ due'[w] = due[w] - 1
      BY <2>1, <1>2, <1>4, <1>5 DEF Older
    <3>2. since' # NoStart => waited'[w] <= since' \/ since' > Hold
      BY <3>1, <2>1, <1>2, <1>3
    <3>3. at'[w] = "wait" => due[w] # 1
      BY <2>1, <1>6
    <3> QED BY <3>1, <3>2, <3>3, <2>1, <1>2
  <2>2. CASE at[w] # "wait"
    <3>1. waited'[w] = 0 /\ due'[w] = 0 /\ at'[w] # "wait"
      BY <2>2, <1>4, <1>5, <1>6
    <3> QED BY <3>1, <1>3 DEF NoStart
  <2> QED BY <2>1, <2>2
<1>8. since = NoStart => \A w \in Workers : lock # w
  BY DEF Tick, WaitsAreShort, GateTypeOK
<1>9. waited' \in [Workers -> 0..(Hold + Poll - 1)] /\ due' \in [Workers -> 0..Poll]
  <2>1. waited' = [w \in Workers |-> waited'[w]] /\ due' = [w \in Workers |-> due'[w]]
    BY DEF Tick
  <2>2. /\ \A w \in Workers : waited'[w] \in 0..(Hold + Poll - 1)
        /\ \A w \in Workers : due'[w] \in 0..Poll
    BY <1>7
  <2> QED BY <2>1, <2>2
<1>10. WaitsAreShort'
  BY <1>1, <1>3, <1>7, <1>8 DEF WaitsAreShort
<1>11. GateTypeOK'
  BY <1>1, <1>3, <1>9 DEF GateTypeOK
<1> QED BY <1>1, <1>10, <1>11

\* What a process does at once keeps the waits as short as they were.
LEMMA ProcessKeeps ==
  ASSUME GateInvariant, KilledInStarts, NEW w \in Workers, Step(w)
  PROVE  GateInvariant'
<1> USE GateAssumption
<1>1. /\ HoldsLock' /\ lock' \in Workers \cup {Nobody} /\ at' \in [Workers -> Place]
      /\ acquired' \in [Workers -> BOOLEAN]
  BY HoldsLockStep DEF GateNext, GateInvariant, GateTypeOK
<1>2. SUFFICES /\ since' \in {NoStart} \cup 0..(Hold + 1)
               /\ waited' \in [Workers -> 0..(Hold + Poll - 1)]
               /\ due' \in [Workers -> 0..Poll]
               /\ WaitsAreShort'
  BY <1>1 DEF GateInvariant, GateTypeOK
<1> USE DEF NoStart
<1>3. /\ since \in {NoStart} \cup 0..(Hold + 1)
      /\ waited \in [Workers -> 0..(Hold + Poll - 1)]
      /\ due \in [Workers -> 0..Poll]
      /\ at \in [Workers -> Place] /\ lock \in Workers \cup {Nobody}
      /\ HoldsLock
      /\ WaitsAreShort
  BY DEF GateInvariant, GateTypeOK
<1>4. CASE Arrive(w)
  <2>1. /\ \A v \in Workers : at'[v] = IF v = w THEN "wait" ELSE at[v]
        /\ \A v \in Workers : due'[v] = IF v = w THEN Poll ELSE due[v]
        /\ due' \in [Workers -> 0..Poll]
    BY <1>3, <1>4, WaitMoves DEF Arrive
  <2>2. \A v \in Workers : waited'[v] = IF v = w THEN 0 ELSE waited[v]
    BY <1>3, <1>4 DEF Arrive
  <2>3. waited' \in [Workers -> 0..(Hold + Poll - 1)]
    BY <1>3, <1>4 DEF Arrive
  <2>4. WaitsAreShort'
    BY <1>3, <1>4, <2>1, <2>2 DEF Arrive, WaitsAreShort
  <2> QED BY <1>3, <1>4, <2>1, <2>3, <2>4 DEF Arrive
<1>5. CASE Lock(w)
  <2>1. \A v \in Workers : at'[v] = IF v = w THEN "locked" ELSE at[v]
    BY <1>3, <1>5, GoMoves DEF Lock, Place
  <2>2. lock' = w /\ UNCHANGED <<since, due, waited>>
    BY <1>5 DEF Lock, history
  <2> QED BY <1>3, <2>1, <2>2 DEF WaitsAreShort
<1>6. ASSUME NEW b \in BOOLEAN, Begin(w, b)
      PROVE  /\ since' \in {NoStart} \cup 0..(Hold + 1)
             /\ waited' \in [Workers -> 0..(Hold + Poll - 1)]
             /\ due' \in [Workers -> 0..Poll]
             /\ WaitsAreShort'
  <2>1. \A v \in Workers : at'[v] = IF v = w THEN "start" ELSE at[v]
    BY <1>3, <1>6, GoMoves DEF Begin, Place
  <2>2. since' = 0 /\ due' = due /\ \A v \in Workers : waited'[v] = 0
    BY <1>6 DEF Begin
  <2>3. waited' \in [Workers -> 0..(Hold + Poll - 1)]
    BY <1>6 DEF Begin
  <2>4. WaitsAreShort'
    BY <1>3, <2>1, <2>2 DEF WaitsAreShort
  <2> QED BY <1>3, <2>2, <2>3, <2>4
<1>7. CASE Look(w)
  <2>0. at[w] = "timeout" /\ UNCHANGED <<lock, since, waited>>
    BY <1>7 DEF Look, history
  <2>1. CASE since >= Hold
    <3>1. due' = due /\ \A v \in Workers : at'[v] = IF v = w THEN "late" ELSE at[v]
      BY <1>3, <1>7, <2>1, GoMoves DEF Look, Place
    <3> QED BY <1>3, <2>0, <3>1 DEF WaitsAreShort
  <2>2. CASE ~(since >= Hold)
    <3>1. /\ \A v \in Workers : at'[v] = IF v = w THEN "wait" ELSE at[v]
          /\ \A v \in Workers : due'[v] = IF v = w THEN Poll ELSE due[v]
          /\ due' \in [Workers -> 0..Poll]
      BY <1>3, <1>7, <2>2, WaitMoves DEF Look
    <3> QED BY <1>3, <2>0, <2>2, <3>1 DEF WaitsAreShort
  <2> QED BY <2>1, <2>2
<1>8. CASE Clear(w)
  <2>1. CASE acquired[w]
    <3>1. lock = w
      BY <1>3, <1>8, <2>1 DEF Clear, HoldsLock
    <3>2. \A v \in Workers : at'[v] = IF v = w THEN "cleared" ELSE at[v]
      BY <1>3, <1>8, <2>1, GoMoves DEF Clear, Place
    <3> QED BY <1>3, <1>8, <2>1, <3>1, <3>2 DEF Clear, history, WaitsAreShort
  <2>2. CASE ~acquired[w]
    <3>1. \A v \in Workers : at'[v] = IF v = w THEN "away" ELSE at[v]
      BY <1>3, <1>8, <2>2, GoMoves DEF Clear, Place
    <3> QED BY <1>3, <1>8, <2>2, <3>1 DEF Clear, history, WaitsAreShort
  <2> QED BY <2>1, <2>2
<1>9. CASE Unlock(w)
  <2>1. \A v \in Workers : at'[v] = IF v = w THEN "away" ELSE at[v]
    BY <1>3, <1>9, GoMoves DEF Unlock, Place
  <2> QED BY <1>3, <1>9, <2>1 DEF Unlock, history, WaitsAreShort
<1>10. CASE Kill(w)
  <2>1. \A v \in Workers : at'[v] = IF v = w THEN "dead" ELSE at[v]
    BY <1>3, <1>10, GoMoves DEF Kill, Place
  <2>2. at[w] \notin {"locked", "cleared"}
    BY <1>10 DEF Kill, KilledInStarts
  <2> QED BY <1>3, <1>10, <2>1, <2>2 DEF Kill, history, WaitsAreShort
<1>11. CASE Respawn(w)
  <2>1. \A v \in Workers : at'[v] = IF v = w THEN "away" ELSE at[v]
    BY <1>3, <1>11, GoMoves DEF Respawn, Place
  <2> QED BY <1>3, <1>11, <2>1 DEF Respawn, history, WaitsAreShort
<1> QED BY <1>4, <1>5, <1>6, <1>7, <1>8, <1>9, <1>10, <1>11 DEF Step, Stamp, Overtake

\* Nobody waits longer than the limit and one poll after the latest start began,
\* for any processes, limit and poll, as long as no process is killed between taking the lock
\* and recording its start, or between clearing the record and the lock.
THEOREM WaitsEnd ==
  ASSUME KilledInStarts
  PROVE  GateSpec => []NobodyWaitsLonger
<1>1. GateInit => GateInvariant
  BY GateAssumption DEF GateInit, GateInvariant, GateTypeOK, HoldsLock, WaitsAreShort, Place
<1>2. GateInvariant /\ [GateNext]_gateVars => GateInvariant'
  <2> SUFFICES ASSUME GateInvariant, [GateNext]_gateVars PROVE GateInvariant'
    OBVIOUS
  <2>1. CASE UNCHANGED gateVars
    BY <2>1 DEF gateVars, GateInvariant, GateTypeOK, HoldsLock, WaitsAreShort
  <2> QED BY <2>1, SecondKeeps, ProcessKeeps DEF GateNext
<1>3. GateInvariant => NobodyWaitsLonger
  BY GateAssumption DEF GateInvariant, GateTypeOK, NobodyWaitsLonger
<1> QED BY <1>1, <1>2, <1>3, PTL DEF GateSpec

-----------------------------------------------------------------------------
(* The registry *)

\* Every variable keeps its range.
TypeOK ==
  /\ table \in [Terminals -> MaybeProxy]
  /\ held \in [Terminals -> MaybeProxy]
  /\ asking \in [Terminals -> [by : {"nobody", "task", "reaper"}, dead : MaybeProxy,
                               assigned : [Terminals -> MaybeProxy]]]
  /\ written \subseteq Terminals
  /\ idle \subseteq Terminals
  /\ listed \subseteq Proxies
  /\ overlap \in BOOLEAN

\* A rotation for a task replaces the proxy its worker has, and the worker waits
\* for it; one of the reaper is for a worker without any.
AskedForHeld ==
  \A t \in Terminals :
    /\ asking[t].by = "task" => asking[t].dead = held[t]
    /\ asking[t].by = "reaper" => held[t] = NoProxy
    /\ asking[t].by = "nobody" => asking[t] = NotAsking
    /\ t \in written => asking[t] # NotAsking

\* As long as no two rotations have met, the one that is to choose has read the
\* table as it is.
OneKnowsTheTable ==
  ~overlap =>
    /\ Distinct(table, Terminals)
    /\ \A t \in Terminals : Deciding(t) =>
         /\ asking[t].assigned = table
         /\ \A s \in Terminals \ {t} : ~Deciding(s)

\* The inductive invariant.
Invariant == TypeOK /\ HeldIsAssigned /\ AskedForHeld /\ OneKnowsTheTable

\* Nobody asks before the first rotation.
LEMMA NotAskingType ==
  /\ NotAsking \in [by : {"nobody", "task", "reaper"}, dead : MaybeProxy, assigned : [Terminals -> MaybeProxy]]
  /\ NotAsking.by = "nobody"
BY DEF NotAsking, MaybeProxy

\* The registry begins with an empty table.
LEMMA Starts == Init => Invariant
<1> SUFFICES ASSUME Init PROVE Invariant
  OBVIOUS
<1>1. TypeOK
  BY NotAskingType DEF Init, TypeOK, MaybeProxy
<1>2. HeldIsAssigned /\ AskedForHeld
  BY NotAskingType DEF Init, HeldIsAssigned, AskedForHeld
<1>3. OneKnowsTheTable
  BY DEF Init, OneKnowsTheTable, Distinct, Deciding
<1> QED BY <1>1, <1>2, <1>3 DEF Invariant

\* The service starts with the workers holding what the table says.
LEMMA RestartKeeps ==
  ASSUME Invariant, Restart, table' \in [Terminals -> MaybeProxy], held' = table',
         \/ Distinct(table', Terminals) /\ overlap' = FALSE
         \/ UNCHANGED <<table, overlap>>
  PROVE  Invariant'
<1>1. written' = {} /\ \A t \in Terminals : asking'[t] = NotAsking
  BY DEF Restart
<1>2. TypeOK'
  BY <1>1, NotAskingType DEF Restart, Invariant, TypeOK
<1>3. HeldIsAssigned'
  BY DEF HeldIsAssigned
<1>4. AskedForHeld'
  BY <1>1, NotAskingType DEF AskedForHeld
<1>5. OneKnowsTheTable'
  BY <1>1 DEF Invariant, OneKnowsTheTable, Deciding
<1> QED BY <1>2, <1>3, <1>4, <1>5 DEF Invariant

\* A rotation reads the table.
LEMMA AskKeeps ==
  ASSUME Invariant, NEW t \in Terminals, AskForTask(t) \/ AskForReaper(t)
  PROVE  Invariant'
<1>1. PICK by \in {"task", "reaper"}, dead \in MaybeProxy :
        /\ Ask(t, by, dead)
        /\ by = "task" => dead = held[t]
        /\ by = "reaper" => held[t] = NoProxy
  BY DEF AskForTask, AskForReaper, Invariant, TypeOK, MaybeProxy
<1>2. UNCHANGED <<table, held, written, idle, listed>>
  BY <1>1 DEF Ask
<1> DEFINE new == [by |-> by, dead |-> dead, assigned |-> table]
<1>3. /\ asking[t] = NotAsking
      /\ asking' = [asking EXCEPT ![t] = new]
      /\ ~overlap' => ~overlap /\ \A s \in Terminals : ~Deciding(s)
  BY <1>1 DEF Ask, Invariant, TypeOK
<1>4. /\ new \in [by : {"nobody", "task", "reaper"}, dead : MaybeProxy, assigned : [Terminals -> MaybeProxy]]
      /\ new.by = by /\ new.dead = dead /\ new.assigned = table
  BY DEF Invariant, TypeOK
<1> HIDE DEF new
<1>5. \A s \in Terminals : asking'[s] = IF s = t THEN new ELSE asking[s]
  BY <1>3 DEF Invariant, TypeOK
<1>6. overlap' \in BOOLEAN
  BY <1>1 DEF Ask, Invariant, TypeOK
<1>7. TypeOK'
  BY <1>2, <1>3, <1>4, <1>6 DEF Invariant, TypeOK
<1>8. HeldIsAssigned'
  BY <1>2 DEF Invariant, HeldIsAssigned
<1>9. AskedForHeld'
  <2>1. new # NotAsking
    BY <1>1, <1>4, NotAskingType
  <2> QED BY <1>1, <1>2, <1>3, <1>4, <1>5, <2>1 DEF Invariant, AskedForHeld
<1>10. OneKnowsTheTable'
  <2>1. \A s \in Terminals \ {t} : Deciding(s)' <=> Deciding(s)
    BY <1>2, <1>5 DEF Deciding
  <2> QED BY <1>2, <1>3, <1>4, <1>5, <2>1 DEF Invariant, OneKnowsTheTable
<1> QED BY <1>7, <1>8, <1>9, <1>10 DEF Invariant

\* What a rotation chooses is nobody's in the table it has read.
LEMMA ChosenIsFree ==
  ASSUME NEW t \in Terminals, NEW proxy \in Choices(t) \cup {NoProxy}, proxy # NoProxy,
         NEW s \in Terminals \ {t}
  PROVE  proxy # asking[t].assigned[s]
BY DEF Choices, Taken

\* A rotation writes the table.
LEMMA RotateKeeps == ASSUME Invariant, NEW t \in Terminals, Rotate(t) PROVE Invariant'
<1>1. PICK proxy \in Choices(t) \cup {NoProxy} : Assign([table EXCEPT ![t] = proxy])
  BY DEF Rotate
<1>2. proxy \in MaybeProxy
  BY DEF Choices, MaybeProxy, Invariant, TypeOK
<1>3. \A s \in Terminals : table'[s] = IF s = t THEN proxy ELSE table[s]
  BY <1>1 DEF Assign, Invariant, TypeOK
<1>4. written' = written \cup {t} /\ UNCHANGED <<held, asking>>
  BY DEF Rotate
<1>5. TypeOK'
  BY <1>1, <1>2 DEF Assign, Rotate, Invariant, TypeOK
<1>6. HeldIsAssigned'
  BY <1>3, <1>4 DEF Invariant, HeldIsAssigned
<1>7. AskedForHeld'
  BY <1>4 DEF Rotate, Deciding, Invariant, AskedForHeld
<1>8. OneKnowsTheTable'
  <2> SUFFICES ASSUME ~overlap
               PROVE  /\ Distinct(table', Terminals)
                      /\ \A s \in Terminals : ~Deciding(s)'
    BY DEF OneKnowsTheTable, Rotate
  <2>1. asking[t].assigned = table /\ \A s \in Terminals \ {t} : ~Deciding(s)
    BY DEF Invariant, OneKnowsTheTable, Rotate
  <2>2. \A s \in Terminals \ {t} : proxy # NoProxy => proxy # table[s]
    BY <2>1, ChosenIsFree
  <2>3. Distinct(table, Terminals)
    BY DEF Invariant, OneKnowsTheTable
  <2>4. Distinct(table', Terminals)
    BY <1>3, <2>2, <2>3 DEF Distinct
  <2>5. \A s \in Terminals : ~Deciding(s)'
    BY <1>4, <2>1 DEF Deciding
  <2> QED BY <2>4, <2>5
<1> QED BY <1>5, <1>6, <1>7, <1>8 DEF Invariant

\* Its caller gives the worker what the rotation wrote, or meets what it raised.
LEMMA OverKeeps ==
  ASSUME Invariant, NEW t \in Terminals, Return(t) \/ Raise(t)
  PROVE  Invariant'
<1>1. /\ \A s \in Terminals : asking'[s] = IF s = t THEN NotAsking ELSE asking[s]
      /\ written' = written \ {t} /\ table' = table /\ overlap' = overlap
  BY DEF Return, Raise, Over, Invariant, TypeOK
<1>2. /\ \A s \in Terminals \ {t} : held'[s] = held[s]
      /\ \/ held'[t] = table[t]
         \/ held'[t] = held[t] /\ (asking[t].by = "reaper" \/ t \notin written)
  <2>1. CASE Return(t)
    BY <2>1 DEF Return, Give, Invariant, TypeOK
  <2>2. CASE Raise(t)
    BY <2>2 DEF Raise, Deciding
  <2> QED BY <2>1, <2>2
<1>3. TypeOK'
  <2>1. held' \in [Terminals -> MaybeProxy]
    BY DEF Return, Raise, Give, Invariant, TypeOK
  <2>2. asking' \in [Terminals -> [by : {"nobody", "task", "reaper"}, dead : MaybeProxy,
                                   assigned : [Terminals -> MaybeProxy]]]
    BY NotAskingType DEF Return, Raise, Over, Invariant, TypeOK
  <2>3. idle' \subseteq Terminals /\ listed' = listed
    BY DEF Return, Raise, Invariant, TypeOK
  <2> QED BY <1>1, <2>1, <2>2, <2>3 DEF Invariant, TypeOK
<1>4. HeldIsAssigned'
  BY <1>1, <1>2 DEF Invariant, HeldIsAssigned, AskedForHeld
<1>5. AskedForHeld'
  BY <1>1, <1>2, NotAskingType DEF Invariant, AskedForHeld
<1>6. OneKnowsTheTable'
  <2>1. ~Deciding(t)'
    BY <1>1 DEF Deciding
  <2>2. \A s \in Terminals \ {t} : Deciding(s)' <=> Deciding(s)
    BY <1>1 DEF Deciding
  <2> QED BY <1>1, <2>1, <2>2 DEF Invariant, OneKnowsTheTable
<1> QED BY <1>3, <1>4, <1>5, <1>6 DEF Invariant

\* Every step keeps the invariant.
LEMMA StepKeeps == Invariant /\ [Next]_vars => Invariant'
<1> SUFFICES ASSUME Invariant, [Next]_vars PROVE Invariant'
  OBVIOUS
<1>1. CASE Load
  BY <1>1, RestartKeeps DEF Load, Filled, Assign
<1>2. CASE LoadWithoutList
  BY <1>2, RestartKeeps DEF LoadWithoutList, Invariant, TypeOK
<1>3. ASSUME NEW t \in Terminals,
             AskForTask(t) \/ AskForReaper(t) \/ Rotate(t) \/ Return(t) \/ Raise(t)
      PROVE  Invariant'
  BY <1>3, AskKeeps, RotateKeeps, OverKeeps
<1>4. CASE /\ UNCHANGED <<table, held, asking, written, overlap>>
           /\ idle' \subseteq Terminals /\ listed' \subseteq Proxies
  BY <1>4 DEF Invariant, TypeOK, HeldIsAssigned, AskedForHeld, OneKnowsTheTable, Deciding
<1>5. CASE Relist \/ UNCHANGED vars \/ \E t \in Terminals : TakeTask(t) \/ EndTask(t)
  BY <1>4, <1>5 DEF Relist, vars, TakeTask, EndTask, Invariant, TypeOK
<1> QED BY <1>1, <1>2, <1>3, <1>5 DEF Next

\* Every behaviour keeps the invariant.
THEOREM Inductive == Spec => []Invariant
BY Starts, StepKeeps, PTL DEF Spec

\* A worker that has a proxy, and no rotation of its own that has committed and
\* not returned, has the one the table says, for any terminals and proxies,
\* whatever other rotations are under way.
THEOREM WorkersHoldTheirAssignment == Spec => []HeldIsAssigned
<1>1. Invariant => HeldIsAssigned
  BY DEF Invariant
<1> QED BY <1>1, Inductive, PTL

\* As long as no two rotations meet, no two terminals are assigned one proxy.
THEOREM AloneProxiesAreOwn == Spec => []OwnProxyAlone
<1>1. Invariant => OwnProxyAlone
  BY DEF Invariant, OneKnowsTheTable, OwnProxyAlone
<1> QED BY <1>1, Inductive, PTL

\* A terminal leaves a proxy only because a task found it dead, the provider no
\* longer lists it, or another terminal has it; also when rotations meet.
THEOREM ProxiesArePinned == Spec => Pinned
<1> DEFINE Leaves(t) == held[t] # NoProxy /\ held'[t] # held[t] =>
                          \/ asking[t].dead = held[t]
                          \/ held[t] \notin listed
                          \/ \E s \in Terminals \ {t} : table[s] = table[t]
<1>1. ASSUME Invariant, [Next]_vars, NEW t \in Terminals PROVE Leaves(t)
  <2> SUFFICES ASSUME held[t] # NoProxy, held'[t] # held[t]
               PROVE  \/ asking[t].dead = held[t]
                      \/ held[t] \notin listed
                      \/ \E s \in Terminals \ {t} : table[s] = table[t]
    OBVIOUS
  <2>0. CASE t \in written
    <3>1. asking[t].by = "task"
      BY <1>1, <2>0 DEF Invariant, AskedForHeld, TypeOK
    <3> QED BY <1>1, <3>1 DEF Invariant, AskedForHeld
  <2>1. CASE t \notin written
    <3>0. held[t] = table[t]
      BY <1>1, <2>1 DEF Invariant, HeldIsAssigned
    <3>1. CASE Load
      <4>1. PICK new \in [Terminals -> MaybeProxy], keep \in SUBSET Terminals :
              /\ Kept(keep) /\ held' = new
              /\ \A s \in keep : new[s] = table[s]
        BY <3>1 DEF Load
      <4>2. t \notin keep
        BY <3>0, <4>1
      <4> QED BY <3>0, <4>1, <4>2 DEF Kept
    <3>2. ~LoadWithoutList
      BY <3>0 DEF LoadWithoutList
    <3>3. ASSUME NEW s \in Terminals, Return(s) PROVE s = t
      BY <1>1, <3>3 DEF Return, Give, Invariant, TypeOK
    <3>4. held' # held
      OBVIOUS
    <3> QED BY <1>1, <2>1, <3>1, <3>2, <3>3, <3>4 DEF Next, Relist, AskForTask, AskForReaper, Ask,
              Rotate, Raise, Return, TakeTask, EndTask, vars
  <2> QED BY <2>0, <2>1
<1>2. Invariant /\ [Next]_vars => \A t \in Terminals : Leaves(t)
  BY <1>1
<1> QED BY <1>2, Inductive, PTL DEF Spec, Pinned
=============================================================================
