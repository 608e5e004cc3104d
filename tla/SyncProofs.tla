----------------------------- MODULE SyncProofs -----------------------------
(* Proofs about the syncs of many accounts (Scheduler), about what two syncs *)
(* of one account leave in its rows (HistoryRows), and about the clock its   *)
(* times are told by (Clock).                                                *)
EXTENDS Scheduler, HistoryRows, Clock, SequenceTheorems, FiniteSetTheorems, WellFoundedInduction, TLAPS

-----------------------------------------------------------------------------
(* The scheduler *)

\* A request that stands where it can: with an account and the pin it loaded.
StandsAt(r, places) == r.at \in places /\ r = [at |-> r.at, account |-> r.account, pin |-> r.pin]

\* A sequence of loaded rows.
IsBatch(s) ==
  /\ s \in Seq({s[i] : i \in DOMAIN s})
  /\ \A i \in DOMAIN s : StandsAt(s[i], {"loaded"})

\* What these proofs look at keeps its range.
QueueTypeOK ==
  /\ DOMAIN asker = Asker /\ asker = [k \in Asker |-> asker[k]]
  /\ \A k \in Asker : StandsAt(asker[k], {"off", "loaded", "assign", "submit"})
  /\ lock \in Asker \cup {Nobody}
  /\ tasks \in [Accounts -> [Asker -> Nat]]
  /\ pending \in [Accounts -> Asker \cup {Nobody}]

\* Who is between its look at the registry and its submit holds the lock.
RequestsAreSerial == \A k \in Asker : asker[k].at \in {"assign", "submit"} <=> lock = k

\* The scheduler asks only for an account no sync is registered for.
AsksForUnregistered ==
  LET a == asker["scheduler"].account IN lock = "scheduler" /\ a \in Accounts => pending[a] = Nobody

\* A sync of the scheduler is the registered one, and the only one of its own.
ScheduledIsRegistered ==
  \A a \in Accounts : tasks[a]["scheduler"] = 0 \/ (tasks[a]["scheduler"] = 1 /\ pending[a] = "scheduler")

\* The inductive invariant.
QueueInvariant == QueueTypeOK /\ IsBatch(batch) /\ RequestsAreSerial /\ AsksForUnregistered /\ ScheduledIsRegistered

\* A row that is loaded, and no request.
LEMMA LoadedStands ==
  /\ \A a : StandsAt(Loaded(a), {"loaded"})
  /\ StandsAt(Off, {"off"})
BY DEF StandsAt, Loaded, Off

\* The first of some loaded rows is taken, and the others are a batch.
LEMMA TakeFirst ==
  ASSUME NEW s, IsBatch(s), s # <<>>
  PROVE  StandsAt(Head(s), {"loaded"}) /\ IsBatch(Tail(s))
<1> DEFINE S == {s[i] : i \in DOMAIN s}
           rest == Tail(s)
           T == {rest[i] : i \in DOMAIN rest}
<1>0. s \in Seq(S)
  BY DEF IsBatch
<1> HIDE DEF S
<1>1. Head(s) = s[1] /\ 1 \in DOMAIN s /\ DOMAIN s = 1..Len(s) /\ Len(s) \in Nat
  BY <1>0
<1>2. /\ rest \in Seq(S) /\ Len(rest) = Len(s) - 1
      /\ \A i \in 1..Len(rest) : rest[i] = s[i + 1]
  BY <1>0, HeadTailProperties
<1> HIDE DEF rest
<1>3. DOMAIN rest = 1..Len(rest) /\ Len(rest) \in Nat
  BY <1>2
<1>4. \A i \in DOMAIN rest : rest[i] = s[i + 1] /\ i + 1 \in DOMAIN s
  BY <1>1, <1>2, <1>3
<1>5. rest \in Seq(T)
  <2>1. \A i \in 1..Len(rest) : rest[i] \in T
    BY <1>3
  <2> HIDE DEF T
  <2> QED BY <1>2, <1>3, <2>1
<1>6. IsBatch(rest)
  BY <1>4, <1>5 DEF IsBatch
<1> QED BY <1>1, <1>6 DEF rest, IsBatch

\* What a tick loads is one.
LEMMA LoadedBatch ==
  ASSUME NEW n \in Nat \ {0}, NEW due
  PROVE  LET loaded == [i \in 1..n |-> Loaded(due[i])] IN IsBatch(loaded) /\ loaded # <<>>
<1> DEFINE loaded == [i \in 1..n |-> Loaded(due[i])]
           S == {loaded[i] : i \in DOMAIN loaded}
<1>1. \A i \in 1..n : loaded[i] \in S /\ loaded[i] = Loaded(due[i])
  OBVIOUS
<1>2. DOMAIN loaded = 1..n /\ loaded = [i \in 1..n |-> loaded[i]]
  OBVIOUS
<1> HIDE DEF loaded
<1>3. loaded \in Seq(S)
  <2> HIDE DEF S
  <2> QED BY <1>1, <1>2
<1>4. loaded # <<>>
  BY <1>2
<1>5. IsBatch(loaded)
  BY <1>1, <1>2, <1>3, LoadedStands DEF IsBatch
<1> QED BY <1>4, <1>5 DEF loaded

\* A request moves: it is loaded or over when its turn ends.
LEMMA DoneMoves ==
  ASSUME QueueInvariant, NEW k \in Asker, Done(k)
  PROVE  /\ DOMAIN asker' = Asker /\ asker' = [j \in Asker |-> asker'[j]]
         /\ \A j \in Asker \ {k} : asker'[j] = asker[j]
         /\ StandsAt(asker'[k], {"off", "loaded"})
         /\ IsBatch(batch')
<1> USE DEF QueueInvariant, QueueTypeOK
<1>1. CASE k = "scheduler" /\ batch # <<>>
  <2>1. asker' = [asker EXCEPT ![k] = Head(batch)] /\ batch' = Tail(batch)
    BY <1>1 DEF Done
  <2>2. StandsAt(Head(batch), {"loaded"}) /\ IsBatch(Tail(batch))
    BY <1>1, TakeFirst
  <2>3. asker'[k] = Head(batch)
    BY <2>1
  <2>4. StandsAt(asker'[k], {"off", "loaded"})
    BY <2>2, <2>3 DEF StandsAt
  <2> QED BY <2>1, <2>2, <2>4
<1>2. CASE ~(k = "scheduler" /\ batch # <<>>)
  <2>1. asker' = [asker EXCEPT ![k] = Off] /\ batch' = batch
    BY <1>2 DEF Done
  <2>2. asker'[k] = Off
    BY <2>1
  <2>3. StandsAt(asker'[k], {"off", "loaded"})
    BY <2>2, LoadedStands DEF StandsAt
  <2> QED BY <2>1, <2>3
<1> QED BY <1>1, <1>2

\* A request moves while the pool stays as it is.
LEMMA MoveKeeps ==
  ASSUME QueueInvariant, NEW k \in Asker,
         DOMAIN asker' = Asker, asker' = [j \in Asker |-> asker'[j]],
         \A j \in Asker \ {k} : asker'[j] = asker[j] /\ (lock' = j <=> lock = j),
         StandsAt(asker'[k], {"off", "loaded", "assign", "submit"}),
         asker'[k].at \in {"assign", "submit"} <=> lock' = k,
         lock' \in Asker \cup {Nobody}, IsBatch(batch'), UNCHANGED <<tasks, pending>>,
         lock' = "scheduler" /\ k = "scheduler" /\ asker'[k].account \in Accounts => pending[asker'[k].account] = Nobody
  PROVE  QueueInvariant'
<1> USE DEF QueueInvariant
<1>1. QueueTypeOK'
  BY DEF QueueTypeOK
<1>2. RequestsAreSerial'
  BY DEF RequestsAreSerial
<1>3. AsksForUnregistered'
  BY DEF AsksForUnregistered, Asker
<1>4. ScheduledIsRegistered'
  BY DEF ScheduledIsRegistered
<1> QED BY <1>1, <1>2, <1>3, <1>4

\* Rows are loaded, by a tick and by a client.
LEMMA LoadKeeps == ASSUME QueueInvariant, Tick \/ \E a \in Asked : Ask(a) PROVE QueueInvariant'
<1>1. PICK k, r :
        /\ k \in Asker /\ asker[k] = Off /\ StandsAt(r, {"loaded"})
        /\ asker' = [asker EXCEPT ![k] = r]
        /\ IsBatch(batch') /\ UNCHANGED <<lock, tasks, pending>>
  <2>1. CASE Tick
    <3>0. PICK n \in 1..DueBatch : \E due :
            LET loaded == [i \in 1..n |-> Loaded(due[i])] IN
            asker' = [asker EXCEPT !["scheduler"] = Head(loaded)] /\ batch' = Tail(loaded)
      BY <2>1 DEF Tick
    <3>1. PICK due :
            LET loaded == [i \in 1..n |-> Loaded(due[i])] IN
            asker' = [asker EXCEPT !["scheduler"] = Head(loaded)] /\ batch' = Tail(loaded)
      BY <3>0
    <3> DEFINE loaded == [i \in 1..n |-> Loaded(due[i])]
    <3>2. IsBatch(loaded) /\ loaded # <<>>
      BY LoadedBatch, SchedulerAssumption
    <3>3. asker' = [asker EXCEPT !["scheduler"] = Head(loaded)] /\ batch' = Tail(loaded)
      BY <3>1
    <3> HIDE DEF loaded
    <3>4. StandsAt(Head(loaded), {"loaded"}) /\ IsBatch(batch')
      BY <3>2, <3>3, TakeFirst
    <3> QED BY <2>1, <3>3, <3>4 DEF Tick, poolVars, Asker
  <2>2. ASSUME NEW a \in Asked, Ask(a)
        PROVE  /\ asker["client"] = Off /\ asker' = [asker EXCEPT !["client"] = Loaded(a)]
               /\ IsBatch(batch') /\ UNCHANGED <<lock, tasks, pending>>
    BY <2>2 DEF Ask, poolVars, QueueInvariant
  <2> QED BY <2>1, <2>2, LoadedStands DEF Asker
<1>2. asker'[k] = r /\ \A j \in Asker \ {k} : asker'[j] = asker[j]
  BY <1>1 DEF QueueInvariant, QueueTypeOK
<1>3. asker[k].at = "off" /\ lock # k
  BY <1>1 DEF Off, QueueInvariant, RequestsAreSerial
<1>4. r.at = "loaded" /\ StandsAt(r, {"off", "loaded", "assign", "submit"})
  BY <1>1 DEF StandsAt
<1>5. DOMAIN asker' = Asker /\ asker' = [j \in Asker |-> asker'[j]] /\ lock \in Asker \cup {Nobody}
  BY <1>1 DEF QueueInvariant, QueueTypeOK
<1>6. asker'[k].at \notin {"assign", "submit"} /\ lock' = lock /\ StandsAt(asker'[k], {"off", "loaded", "assign", "submit"})
  BY <1>1, <1>2, <1>4
<1> QED BY <1>1, <1>2, <1>3, <1>5, <1>6, MoveKeeps

\* A request that is there already ends; one that fails ends with its tick.
LEMMA DropKeeps ==
  ASSUME QueueInvariant, NEW k \in Asker, Dedupe(k) \/ RequestFails(k)
  PROVE  QueueInvariant'
<1> USE DEF QueueInvariant, QueueTypeOK
<1>1. CASE Dedupe(k)
  <2>1. /\ DOMAIN asker' = Asker /\ asker' = [j \in Asker |-> asker'[j]]
        /\ \A j \in Asker \ {k} : asker'[j] = asker[j]
        /\ StandsAt(asker'[k], {"off", "loaded"})
        /\ IsBatch(batch')
    BY <1>1, DoneMoves DEF Dedupe
  <2>2. lock' = lock /\ lock = Nobody /\ lock # k /\ UNCHANGED <<tasks, pending>>
    BY <1>1, SchedulerAssumption DEF Dedupe, poolVars
  <2>3. asker'[k].at \notin {"assign", "submit"} /\ StandsAt(asker'[k], {"off", "loaded", "assign", "submit"})
    BY <2>1 DEF StandsAt
  <2> HIDE DEF QueueInvariant, QueueTypeOK
  <2> QED BY <2>1, <2>2, <2>3, MoveKeeps
<1>2. CASE RequestFails(k)
  <2>1. asker' = [asker EXCEPT ![k] = Off] /\ UNCHANGED <<tasks, pending>>
    BY <1>2 DEF RequestFails, poolVars
  <2>2. /\ DOMAIN asker' = Asker /\ asker' = [j \in Asker |-> asker'[j]]
        /\ \A j \in Asker \ {k} : asker'[j] = asker[j]
        /\ asker'[k] = Off
    BY <2>1
  <2>3. Off.at = "off" /\ StandsAt(asker'[k], {"off", "loaded", "assign", "submit"})
    BY <2>2, LoadedStands DEF StandsAt
  <2>4. /\ lock' \in Asker \cup {Nobody} /\ lock' # k
        /\ \A j \in Asker \ {k} : lock' = j <=> lock = j
    BY <1>2, SchedulerAssumption DEF RequestFails
  <2>5. IsBatch(batch')
    <3>1. IsBatch(<<>>)
      BY DEF IsBatch
    <3> QED BY <1>2, <3>1 DEF RequestFails
  <2> HIDE DEF QueueInvariant, QueueTypeOK
  <2> QED BY <2>1, <2>2, <2>3, <2>4, <2>5, MoveKeeps
<1> QED BY <1>1, <1>2

\* A request takes the lock and is given a terminal.
LEMMA PlaceKeeps ==
  ASSUME QueueInvariant, NEW k \in Asker, Enter(k) \/ Assign(k)
  PROVE  QueueInvariant'
<1>0. /\ DOMAIN asker = Asker /\ asker = [j \in Asker |-> asker[j]]
      /\ StandsAt(asker[k], {"off", "loaded", "assign", "submit"})
      /\ lock \in Asker \cup {Nobody} /\ IsBatch(batch) /\ Nobody \notin Asker
  BY SchedulerAssumption DEF QueueInvariant, QueueTypeOK
<1>a. PICK place \in {"assign", "submit"} : \E t :
        /\ asker' = [asker EXCEPT ![k] = [at |-> place, account |-> asker[k].account, pin |-> t]]
        /\ lock' = k /\ lock \in {k, Nobody}
        /\ UNCHANGED <<batch, tasks, pending>>
  <2>1. asker[k] = [at |-> asker[k].at, account |-> asker[k].account, pin |-> asker[k].pin]
    BY <1>0 DEF StandsAt
  <2>2. CASE Enter(k)
    <3>1. PICK place \in {"assign", "submit"} : asker' = [asker EXCEPT ![k] = [@ EXCEPT !.at = place]]
      BY <2>2 DEF Enter
    <3>2. [asker[k] EXCEPT !.at = place] = [at |-> place, account |-> asker[k].account, pin |-> asker[k].pin]
      BY <2>1
    <3>3. asker' = [asker EXCEPT ![k] = [at |-> place, account |-> asker[k].account, pin |-> asker[k].pin]]
      BY <3>1, <3>2
    <3> QED BY <2>2, <3>3 DEF Enter, poolVars
  <2>3. CASE Assign(k)
    <3>1. PICK t : asker' = [asker EXCEPT ![k] = [at |-> "submit", account |-> asker[k].account, pin |-> t]]
      BY <2>3 DEF Assign
    <3>2. lock = k
      BY <2>3 DEF Assign, QueueInvariant, RequestsAreSerial
    <3> QED BY <2>3, <3>1, <3>2 DEF Assign, poolVars
  <2> QED BY <2>2, <2>3
<1>1. PICK t :
        /\ asker' = [asker EXCEPT ![k] = [at |-> place, account |-> asker[k].account, pin |-> t]]
        /\ lock' = k /\ lock \in {k, Nobody}
        /\ UNCHANGED <<batch, tasks, pending>>
  BY <1>a
<1> DEFINE r == [at |-> place, account |-> asker[k].account, pin |-> t]
<1>2. StandsAt(r, {"off", "loaded", "assign", "submit"}) /\ r.at = place /\ r.account = asker[k].account
  BY DEF StandsAt
<1>3. asker' = [asker EXCEPT ![k] = r]
  BY <1>1
<1> HIDE DEF r
<1>4. /\ DOMAIN asker' = Asker /\ asker' = [j \in Asker |-> asker'[j]]
      /\ \A j \in Asker \ {k} : asker'[j] = asker[j]
      /\ asker'[k] = r
  BY <1>0, <1>3
<1>5. k = "scheduler" /\ r.account \in Accounts => pending[r.account] = Nobody
  <2>1. CASE Enter(k)
    BY <1>2, <2>1 DEF Enter, Deduped
  <2>2. CASE Assign(k)
    BY <1>2, <2>2 DEF Assign, QueueInvariant, RequestsAreSerial, AsksForUnregistered
  <2> QED BY <2>1, <2>2
<1> QED BY <1>0, <1>1, <1>2, <1>4, <1>5, MoveKeeps

\* The pool takes the sync of a request, or refuses its terminal.
LEMMA SubmitKeeps == ASSUME QueueInvariant, NEW k \in Asker, Submit(k) PROVE QueueInvariant'
<1> DEFINE a == asker[k].account
<1>0. lock = k /\ lock' = Nobody /\ lock' # k /\ lock' \in Asker \cup {Nobody} /\ \A j \in Asker : lock' # j
  BY SchedulerAssumption DEF Submit, QueueInvariant, RequestsAreSerial
<1>1. /\ DOMAIN asker' = Asker /\ asker' = [j \in Asker |-> asker'[j]]
      /\ \A j \in Asker \ {k} : asker'[j] = asker[j]
      /\ StandsAt(asker'[k], {"off", "loaded"})
      /\ IsBatch(batch')
  BY DoneMoves DEF Submit
<1>2. asker'[k].at \notin {"assign", "submit"} /\ StandsAt(asker'[k], {"off", "loaded", "assign", "submit"})
  BY <1>1 DEF StandsAt
<1>3. CASE UNCHANGED poolVars
  BY <1>0, <1>1, <1>2, <1>3, MoveKeeps DEF poolVars
<1>4. CASE /\ tasks' = [tasks EXCEPT ![a][k] = @ + 1]
           /\ pending' = [pending EXCEPT ![a] = IF @ = Nobody THEN k ELSE @]
  <2>1. /\ tasks \in [Accounts -> [Asker -> Nat]] /\ pending \in [Accounts -> Asker \cup {Nobody}]
        /\ "scheduler" \in Asker
    BY DEF QueueInvariant, QueueTypeOK, Asker
  <2>2. /\ tasks' \in [Accounts -> [Asker -> Nat]]
        /\ pending' \in [Accounts -> Asker \cup {Nobody}]
    <3>1. tasks' = [b \in Accounts |-> IF b = a THEN [tasks[b] EXCEPT ![k] = tasks[b][k] + 1] ELSE tasks[b]]
      BY <1>4, <2>1
    <3>2. ASSUME NEW b \in Accounts
          PROVE  [tasks[b] EXCEPT ![k] = tasks[b][k] + 1] \in [Asker -> Nat] /\ tasks[b] \in [Asker -> Nat]
      <4>1. tasks[b] \in [Asker -> Nat] /\ tasks[b][k] + 1 \in Nat
        BY <2>1
      <4> QED BY <4>1
    <3>3. tasks' \in [Accounts -> [Asker -> Nat]]
      BY <3>1, <3>2
    <3>4. pending' \in [Accounts -> Asker \cup {Nobody}]
      BY <1>4, <2>1
    <3> QED BY <3>3, <3>4
  <2>3. QueueTypeOK'
    BY <1>0, <1>1, <1>2, <2>2 DEF QueueInvariant, QueueTypeOK
  <2>4. RequestsAreSerial'
    BY <1>0, <1>1, <1>2 DEF QueueInvariant, RequestsAreSerial
  <2>5. AsksForUnregistered'
    BY <1>0 DEF AsksForUnregistered, Asker
  <2>6. ASSUME NEW b \in Accounts
        PROVE  tasks'[b]["scheduler"] = 0 \/ (tasks'[b]["scheduler"] = 1 /\ pending'[b] = "scheduler")
    <3>0. tasks[b]["scheduler"] = 0 \/ (tasks[b]["scheduler"] = 1 /\ pending[b] = "scheduler")
      BY DEF QueueInvariant, ScheduledIsRegistered
    <3>1. CASE b # a
      BY <1>4, <2>1, <3>0, <3>1
    <3>2. CASE b = a /\ k # "scheduler"
      <4>1. tasks'[b]["scheduler"] = tasks[b]["scheduler"] /\ (pending[b] # Nobody => pending'[b] = pending[b])
        BY <1>4, <2>1, <3>2
      <4> QED BY <3>0, <4>1, SchedulerAssumption DEF Asker
    <3>3. CASE b = a /\ k = "scheduler"
      <4>1. pending[b] = Nobody
        BY <1>0, <3>3 DEF QueueInvariant, AsksForUnregistered
      <4>2. tasks[b]["scheduler"] = 0
        BY <3>0, <4>1, SchedulerAssumption DEF Asker
      <4>3. tasks'[b]["scheduler"] = 1 /\ pending'[b] = "scheduler"
        BY <1>4, <2>1, <3>3, <4>1, <4>2
      <4> QED BY <4>3
    <3> QED BY <3>1, <3>2, <3>3
  <2>7. ScheduledIsRegistered'
    BY <2>6 DEF ScheduledIsRegistered
  <2> QED BY <1>1, <2>3, <2>4, <2>5, <2>7 DEF QueueInvariant
<1> QED BY <1>3, <1>4 DEF Submit

\* A sync is answered and leaves the pool.
LEMMA ResolveKeeps ==
  ASSUME QueueInvariant, NEW a \in Accounts, NEW k \in Asker, Resolve(a, k)
  PROVE  QueueInvariant'
<1>0. /\ tasks \in [Accounts -> [Asker -> Nat]] /\ pending \in [Accounts -> Asker \cup {Nobody}]
      /\ "scheduler" \in Asker /\ Nobody \notin Asker
      /\ tasks[a][k] \in Nat /\ tasks[a][k] > 0
  BY SchedulerAssumption DEF QueueInvariant, QueueTypeOK, Asker, Resolve
<1>1. /\ tasks' = [tasks EXCEPT ![a][k] = @ - 1]
      /\ pending' = [pending EXCEPT ![a] = IF @ = k THEN Nobody ELSE @]
      /\ UNCHANGED <<asker, lock, batch>>
  BY DEF Resolve, requestVars
<1>2. tasks' \in [Accounts -> [Asker -> Nat]] /\ pending' \in [Accounts -> Asker \cup {Nobody}]
  BY <1>0, <1>1
<1>3. QueueTypeOK' /\ RequestsAreSerial' /\ IsBatch(batch')
  BY <1>1, <1>2 DEF QueueInvariant, QueueTypeOK, RequestsAreSerial
<1>4. \A b \in Accounts : pending[b] = Nobody => pending'[b] = Nobody
  BY <1>0, <1>1
<1>5. AsksForUnregistered'
  BY <1>1, <1>4 DEF QueueInvariant, AsksForUnregistered
<1>6. ASSUME NEW b \in Accounts
      PROVE  tasks'[b]["scheduler"] = 0 \/ (tasks'[b]["scheduler"] = 1 /\ pending'[b] = "scheduler")
  <2>0. tasks[b]["scheduler"] = 0 \/ (tasks[b]["scheduler"] = 1 /\ pending[b] = "scheduler")
    BY DEF QueueInvariant, ScheduledIsRegistered
  <2>1. CASE b = a /\ k = "scheduler"
    <3>1. tasks'[b]["scheduler"] = tasks[b]["scheduler"] - 1
      BY <1>0, <1>1, <2>1
    <3> QED BY <1>0, <2>0, <2>1, <3>1
  <2>2. CASE b = a /\ k # "scheduler"
    <3>1. tasks'[b]["scheduler"] = tasks[b]["scheduler"] /\ (pending[b] = "scheduler" => pending'[b] = "scheduler")
      BY <1>0, <1>1, <2>2
    <3> QED BY <2>0, <3>1
  <2>3. CASE b # a
    BY <1>0, <1>1, <2>0, <2>3
  <2> QED BY <2>1, <2>2, <2>3
<1>7. ScheduledIsRegistered'
  BY <1>6 DEF ScheduledIsRegistered
<1> QED BY <1>3, <1>5, <1>7 DEF QueueInvariant

\* The scheduler begins with nothing asked for.
LEMMA QueueStarts == SchedulerInit => QueueInvariant
<1> SUFFICES ASSUME SchedulerInit PROVE QueueInvariant
  OBVIOUS
<1>1. Off.at = "off" /\ StandsAt(Off, {"off", "loaded", "assign", "submit"}) /\ IsBatch(<<>>)
  BY DEF Off, StandsAt, IsBatch
<1>2. QueueTypeOK
  BY <1>1, SchedulerAssumption DEF SchedulerInit, QueueTypeOK
<1>3. RequestsAreSerial /\ AsksForUnregistered /\ ScheduledIsRegistered
  BY <1>1, SchedulerAssumption DEF SchedulerInit, RequestsAreSerial, AsksForUnregistered, ScheduledIsRegistered, Asker
<1> QED BY <1>1, <1>2, <1>3 DEF QueueInvariant, SchedulerInit

\* Every step keeps the invariant.
LEMMA QueueStep == QueueInvariant /\ [SchedulerNext]_schedulerVars => QueueInvariant'
<1> SUFFICES ASSUME QueueInvariant, [SchedulerNext]_schedulerVars PROVE QueueInvariant'
  OBVIOUS
<1>1. CASE Tick \/ \E a \in Asked : Ask(a)
  BY <1>1, LoadKeeps
<1>2. ASSUME NEW k \in Asker, Proceed(k) \/ RequestFails(k) PROVE QueueInvariant'
  BY <1>2, DropKeeps, PlaceKeeps, SubmitKeeps DEF Proceed
<1>3. ASSUME NEW a \in Accounts, NEW k \in Asker, Answer(a, k) PROVE QueueInvariant'
  BY <1>3, ResolveKeeps DEF Answer, Succeeds, Fails, Lapses
<1>4. CASE UNCHANGED <<requestVars, poolVars>>
  BY <1>4 DEF QueueInvariant, QueueTypeOK, RequestsAreSerial, AsksForUnregistered, ScheduledIsRegistered,
     requestVars, poolVars
<1>5. CASE (\E a \in Patched : Patch(a)) \/ (\E a \in Accounts : PauseEnds(a)) \/ Ages \/ Flips
           \/ UNCHANGED schedulerVars
  BY <1>4, <1>5 DEF Patch, PauseEnds, Ages, Flips, schedulerVars
<1> QED BY <1>1, <1>2, <1>3, <1>5 DEF SchedulerNext

\* The scheduler never has two syncs of one account in the pool, for any accounts,
\* terminals and batches, whatever clients ask for meanwhile.
THEOREM SchedulerAsksOnce == SchedulerSpec => []OneScheduled
<1>1. QueueInvariant => OneScheduled
  BY DEF QueueInvariant, ScheduledIsRegistered, OneScheduled
<1> QED BY <1>1, QueueStarts, QueueStep, PTL DEF SchedulerSpec

-----------------------------------------------------------------------------
(* The rows *)

Rows == [own : SUBSET (1..MaxDeals), ledger : BOOLEAN, basis : SUBSET (1..MaxDeals)]

\* What was read of the history is of the history, and the rows are rows.
RowsTypeOK ==
  /\ history \in Seq(Positions \cup Payments) /\ Len(history) <= MaxDeals
  /\ DOMAIN sync = Kind /\ \A k \in Kind : DOMAIN sync[k] = DOMAIN None
  /\ \A k \in Kind : sync[k].at = "answer" => sync[k].part \subseteq 1..Len(history)
  /\ rows \in [Positions -> {NoRow} \cup Rows]

\* Nothing gets more deals than it comes to.
DealsAreBounded == \A x \in Positions \cup Payments : Cardinality(Of(x, All)) <= Deals[x]

\* A figure is over all the deals the position will ever have, unless a payload was torn.
MeasuredAtTheEnd ==
  \A p \in Positions : rows[p] # NoRow /\ rows[p].basis # {} =>
    p \in torn \/ (rows[p].basis = Of(p, All) /\ Cardinality(Of(p, All)) = Deals[p])

\* The inductive invariant.
RowsInvariant == RowsTypeOK /\ DealsAreBounded /\ MeasuredAtTheEnd

\* The deals of one thing are finitely many.
LEMMA FewDeals ==
  ASSUME NEW h, NEW C, h \in Seq(C), NEW x
  PROVE  IsFiniteSet({i \in DOMAIN h : h[i] = x}) /\ Cardinality({i \in DOMAIN h : h[i] = x}) \in Nat
<1>1. DOMAIN h = 1..Len(h) /\ Len(h) \in Nat
  OBVIOUS
<1>2. IsFiniteSet(1..Len(h))
  BY <1>1, FS_Interval
<1>3. {i \in DOMAIN h : h[i] = x} \subseteq 1..Len(h)
  BY <1>1
<1>4. IsFiniteSet({i \in DOMAIN h : h[i] = x})
  BY <1>2, <1>3, FS_Subset
<1> QED BY <1>4, FS_CardinalityType

\* A new deal is one more for what it belongs to and changes nothing for the rest.
LEMMA DealAdded ==
  ASSUME NEW h, NEW C, h \in Seq(C), NEW x \in C, NEW y \in C
  PROVE  LET g == Append(h, x)
             of == {i \in DOMAIN h : h[i] = y}
             new == {i \in DOMAIN g : g[i] = y}
         IN /\ y # x => new = of
            /\ y = x => Cardinality(new) = Cardinality(of) + 1
<1> DEFINE g == Append(h, x)
           of == {i \in DOMAIN h : h[i] = y}
           new == {i \in DOMAIN g : g[i] = y}
           n == Len(h) + 1
<1>1. /\ DOMAIN h = 1..Len(h) /\ Len(h) \in Nat /\ DOMAIN g = 1..n
      /\ g[n] = x /\ \A i \in 1..Len(h) : g[i] = h[i]
  OBVIOUS
<1>2. DOMAIN g = DOMAIN h \cup {n} /\ n \notin DOMAIN h
  BY <1>1
<1>3. y # x => new = of
  BY <1>1, <1>2
<1>4. y = x => new = of \cup {n} /\ n \notin of
  BY <1>1, <1>2
<1>5. IsFiniteSet(of)
  BY FewDeals
<1> QED BY <1>3, <1>4, <1>5, FS_AddElement

\* A deal comes: only for what is not complete, so no complete position changes.
LEMMA TradeKeeps == RowsInvariant /\ Trade => RowsInvariant'
<1> SUFFICES ASSUME RowsInvariant, Trade PROVE RowsInvariant'
  OBVIOUS
<1> DEFINE C == Positions \cup Payments
<1>1. PICK x \in C :
        /\ Cardinality(Of(x, All)) < Deals[x] /\ Len(history) < MaxDeals
        /\ history' = Append(history, x) /\ UNCHANGED <<sync, tables, failedInARow, torn>>
  BY DEF Trade
<1>2. history \in Seq(C) /\ Deals \in [C -> Nat \ {0}] /\ MaxDeals \in Nat
  BY HistoryAssumption DEF RowsInvariant, RowsTypeOK
<1>3. history' \in Seq(C) /\ Len(history') = Len(history) + 1 /\ Len(history) \in Nat
  BY <1>1, <1>2
<1>4. UNCHANGED <<sync, rows, torn>>
  BY <1>1 DEF tables
<1>5. RowsTypeOK'
  <2>1. Len(history') <= MaxDeals
    BY <1>1, <1>2, <1>3
  <2>2. \A k \in Kind : sync'[k].at = "answer" => sync'[k].part \subseteq 1..Len(history')
    BY <1>3, <1>4 DEF RowsInvariant, RowsTypeOK
  <2> QED BY <1>3, <1>4, <2>1, <2>2 DEF RowsInvariant, RowsTypeOK
<1>6. ASSUME NEW y \in C
      PROVE  /\ y # x => Of(y, All)' = Of(y, All)
             /\ y = x => Cardinality(Of(y, All)') = Cardinality(Of(y, All)) + 1
             /\ Cardinality(Of(y, All)) \in Nat
  <2> DEFINE g == Append(history, x)
             of == {i \in DOMAIN history : history[i] = y}
             new == {i \in DOMAIN g : g[i] = y}
  <2>1. of = Of(y, All) /\ new = Of(y, All)'
    BY <1>1 DEF Of, All
  <2>2. (y # x => new = of) /\ (y = x => Cardinality(new) = Cardinality(of) + 1)
    BY <1>2, DealAdded
  <2>3. Cardinality(of) \in Nat
    BY <1>2, FewDeals
  <2> HIDE DEF of, new
  <2> QED BY <2>1, <2>2, <2>3
<1>7. DealsAreBounded'
  <2> SUFFICES ASSUME NEW y \in C PROVE Cardinality(Of(y, All)') <= Deals[y]
    BY DEF DealsAreBounded
  <2>1. CASE y # x
    BY <1>6, <2>1 DEF RowsInvariant, DealsAreBounded
  <2>2. CASE y = x
    <3>1. \A n \in Nat, d \in Nat : n < d => n + 1 <= d
      OBVIOUS
    <3> QED BY <1>1, <1>2, <1>6, <2>2, <3>1
  <2> QED BY <2>1, <2>2
<1>8. MeasuredAtTheEnd'
  <2> SUFFICES ASSUME NEW p \in Positions, rows[p] # NoRow, rows[p].basis # {}, p \notin torn
               PROVE  rows[p].basis = Of(p, All)' /\ Cardinality(Of(p, All)') = Deals[p]
    BY <1>4 DEF MeasuredAtTheEnd
  <2>1. rows[p].basis = Of(p, All) /\ Cardinality(Of(p, All)) = Deals[p]
    BY DEF RowsInvariant, MeasuredAtTheEnd
  <2>2. p # x
    BY <1>1, <1>2, <2>1
  <2> QED BY <1>6, <2>1, <2>2
<1> QED BY <1>5, <1>7, <1>8 DEF RowsInvariant

\* A sync moves on: what it read, if it has, is of the history, and nothing is written.
LEMMA SyncMoves ==
  ASSUME RowsInvariant, NEW k \in Kind, UNCHANGED <<history, tables, torn>>,
         DOMAIN sync' = Kind, \A j \in Kind \ {k} : sync'[j] = sync[j], DOMAIN sync'[k] = DOMAIN None,
         sync'[k].at = "answer" => sync'[k].part \subseteq 1..Len(history)
  PROVE  RowsInvariant'
<1>1. RowsTypeOK'
  BY DEF RowsInvariant, RowsTypeOK, tables
<1>2. UNCHANGED <<history, rows, torn>>
  BY DEF tables
<1>3. DealsAreBounded'
  BY <1>2 DEF RowsInvariant, DealsAreBounded, Of, All
<1>4. MeasuredAtTheEnd'
  BY <1>2 DEF RowsInvariant, MeasuredAtTheEnd, Of, All
<1> QED BY <1>1, <1>3, <1>4 DEF RowsInvariant

\* A sync is asked for, waits, reads or fails.
LEMMA SyncKeeps ==
  ASSUME RowsInvariant, NEW k \in Kind, Request(k) \/ FetchAccount(k) \/ Read(k) \/ Fail(k)
  PROVE  RowsInvariant'
<1>0. DOMAIN sync = Kind /\ DOMAIN sync[k] = DOMAIN None /\ Len(history) \in Nat /\ Len(history) <= MaxDeals /\ MaxDeals \in Nat
  BY HistoryAssumption DEF RowsInvariant, RowsTypeOK
<1>1. CASE Request(k)
  <2>1. sync'[k].at # "answer" /\ DOMAIN sync'[k] = DOMAIN None
    BY <1>0, <1>1 DEF Request, None
  <2> QED BY <1>0, <1>1, <2>1, SyncMoves DEF Request
<1>2. CASE FetchAccount(k)
  <2>1. sync'[k].at # "answer" /\ DOMAIN sync'[k] = DOMAIN None
    BY <1>0, <1>2 DEF FetchAccount
  <2> QED BY <1>0, <1>2, <2>1, SyncMoves DEF FetchAccount
<1>3. CASE Read(k)
  <2>1. PICK S \in Parts(Len(history)) : \E broken \in SUBSET Positions, upto \in 0..EnrichLimit : Fetch(k, S, broken, upto)
    BY <1>3 DEF Read
  <2>2. S \subseteq 1..Len(history)
    BY <1>0, HistoryAssumption
  <2>3. /\ UNCHANGED <<history, tables, torn>>
        /\ DOMAIN sync' = Kind /\ (\A j \in Kind \ {k} : sync'[j] = sync[j])
        /\ DOMAIN sync'[k] = DOMAIN None /\ sync'[k].part = S
    BY <1>0, <2>1 DEF Fetch, None
  <2> QED BY <2>2, <2>3, SyncMoves
<1>4. CASE Fail(k)
  <2>1. sync'[k].at # "answer" /\ DOMAIN sync'[k] = DOMAIN None
    BY <1>0, <1>4 DEF Fail, None
  <2> QED BY <1>0, <1>4, <2>1, SyncMoves DEF Fail
<1> QED BY <1>1, <1>2, <1>3, <1>4

\* What the payload has of a position.
LEMMA OfPart ==
  ASSUME RowsInvariant, NEW S \in SUBSET (1..Len(history)), NEW p \in Positions
  PROVE  /\ Of(p, S) \subseteq Of(p, All) /\ Of(p, S) \subseteq 1..MaxDeals
         /\ IsFiniteSet(Of(p, All)) /\ Cardinality(Of(p, All)) \in Nat
         /\ p \in Closed(S) => Of(p, S) # {}
<1>1. history \in Seq(Positions \cup Payments) /\ Len(history) \in Nat /\ Len(history) <= MaxDeals /\ MaxDeals \in Nat
  BY HistoryAssumption DEF RowsInvariant, RowsTypeOK
<1>2. DOMAIN history = 1..Len(history) /\ 1..Len(history) \subseteq 1..MaxDeals
  BY <1>1
<1>3. Of(p, S) \subseteq Of(p, All) /\ Of(p, S) \subseteq 1..MaxDeals
  BY <1>2 DEF Of, All
<1>4. IsFiniteSet(Of(p, All)) /\ Cardinality(Of(p, All)) \in Nat
  BY <1>1, FewDeals DEF Of, All
<1> QED BY <1>3, <1>4 DEF Closed

\* A row that is written is a row, and a measured one keeps or gets a figure.
LEMMA Upserted ==
  ASSUME RowsInvariant, NEW s, s.part \in SUBSET (1..Len(history)), NEW p \in Closed(s.part)
  PROVE  /\ Upsert(s, p) \in Rows /\ Upsert(s, p) # NoRow
         /\ rows[p] # NoRow /\ rows[p].basis # {} => Upsert(s, p).basis # {}
         /\ Upsert(s, p).basis \in {{}, Of(p, s.part)} \/ (rows[p] # NoRow /\ Upsert(s, p).basis = rows[p].basis)
<1> DEFINE r == Upsert(s, p)
<1>0. p \in Positions
  BY DEF Closed
<1>1. Of(p, s.part) \subseteq 1..MaxDeals /\ Of(p, s.part) # {}
  BY <1>0, OfPart
<1>2. rows[p] # NoRow => rows[p].basis \subseteq 1..MaxDeals
  BY <1>0 DEF RowsInvariant, RowsTypeOK, Rows
<1>3. Ledger(s, p) \in BOOLEAN
  BY DEF Ledger
<1>4. /\ r = [own |-> r.own, ledger |-> r.ledger, basis |-> r.basis]
      /\ r.own = Of(p, s.part) /\ r.ledger = Ledger(s, p)
      /\ r.basis = IF p \in s.measured THEN Of(p, s.part) ELSE IF rows[p] = NoRow THEN {} ELSE rows[p].basis
  BY DEF Upsert
<1> HIDE DEF r
<1>5. r.basis \subseteq 1..MaxDeals
  BY <1>1, <1>2, <1>4
<1>6. r \in Rows
  BY <1>1, <1>3, <1>4, <1>5 DEF Rows
<1>7. r # NoRow
  BY <1>6, HistoryAssumption DEF Rows
<1>8. rows[p] # NoRow /\ rows[p].basis # {} => r.basis # {}
  BY <1>1, <1>4
<1>9. r.basis \in {{}, Of(p, s.part)} \/ (rows[p] # NoRow /\ r.basis = rows[p].basis)
  BY <1>4
<1> QED BY <1>6, <1>7, <1>8, <1>9 DEF r

\* A payload is written: a position it has whole is measured over all its deals,
\* and any other that it measures is torn.
LEMMA PersistKeeps ==
  ASSUME RowsInvariant, NEW k \in Kind, Persist(k)
  PROVE  /\ RowsInvariant'
         /\ \A p \in Positions : rows[p] # NoRow =>
              rows'[p] # NoRow /\ (rows[p].basis # {} => rows'[p].basis # {})
<1> DEFINE s == sync[k]
<1>0. /\ s.part \in SUBSET (1..Len(history)) /\ UNCHANGED history /\ rows \in [Positions -> {NoRow} \cup Rows]
      /\ DOMAIN sync' = Kind /\ sync' = [sync EXCEPT ![k] = None]
  BY DEF Persist, RowsInvariant, RowsTypeOK
<1>1. CASE s.withheld
  <2>1. UNCHANGED <<rows, torn>> /\ sync'[k].at # "answer"
    BY <1>0, <1>1 DEF Persist, RowsInvariant, RowsTypeOK, None
  <2>2. RowsTypeOK'
    BY <1>0, <2>1 DEF RowsInvariant, RowsTypeOK
  <2>3. DealsAreBounded' /\ MeasuredAtTheEnd'
    BY <1>0, <2>1 DEF RowsInvariant, DealsAreBounded, MeasuredAtTheEnd, Of, All
  <2> QED BY <2>1, <2>2, <2>3 DEF RowsInvariant
<1>2. CASE ~s.withheld
  <2>1. /\ rows' = [p \in Positions |-> IF p \in Closed(s.part) THEN Upsert(s, p) ELSE rows[p]]
        /\ torn' = torn \cup Torn(s.part)
    BY <1>2 DEF Persist
  <2>2. ASSUME NEW p \in Positions
        PROVE  /\ rows'[p] \in {NoRow} \cup Rows
               /\ rows[p] # NoRow => rows'[p] # NoRow /\ (rows[p].basis # {} => rows'[p].basis # {})
    <3>1. CASE p \in Closed(s.part)
      BY <1>0, <2>1, <3>1, Upserted
    <3>2. CASE p \notin Closed(s.part)
      BY <1>0, <2>1, <3>2
    <3> QED BY <3>1, <3>2
  <2>3. RowsTypeOK'
    <3>1. rows' \in [Positions -> {NoRow} \cup Rows]
      BY <2>1, <2>2
    <3>2. \A j \in Kind : DOMAIN sync'[j] = DOMAIN None /\ (sync'[j].at = "answer" => sync'[j].part \subseteq 1..Len(history))
      BY <1>0 DEF RowsInvariant, RowsTypeOK, None
    <3> QED BY <1>0, <3>1, <3>2 DEF RowsInvariant, RowsTypeOK
  <2>4. DealsAreBounded'
    BY <1>0 DEF RowsInvariant, DealsAreBounded, Of, All
  <2>5. ASSUME NEW p \in Positions, rows'[p] # NoRow, rows'[p].basis # {}, p \notin torn'
        PROVE  rows'[p].basis = Of(p, All) /\ Cardinality(Of(p, All)) = Deals[p]
    <3>1. p \notin torn /\ p \notin Torn(s.part)
      BY <2>1, <2>5
    <3>2. CASE rows[p] # NoRow /\ rows'[p].basis = rows[p].basis
      BY <2>5, <3>1, <3>2 DEF RowsInvariant, MeasuredAtTheEnd
    <3>3. CASE p \in Closed(s.part) /\ rows'[p].basis = Of(p, s.part)
      <4>1. /\ Of(p, s.part) \subseteq Of(p, All)
            /\ IsFiniteSet(Of(p, All)) /\ Cardinality(Of(p, All)) \in Nat
        BY <1>0, OfPart
      <4>2. /\ Cardinality(Of(p, s.part)) <= Cardinality(Of(p, All))
            /\ Cardinality(Of(p, s.part)) \in Nat
            /\ Cardinality(Of(p, All)) = Cardinality(Of(p, s.part)) => Of(p, All) = Of(p, s.part)
        BY <4>1, FS_Subset, FS_CardinalityType
      <4>3. ~(Cardinality(Of(p, s.part)) < Deals[p])
        BY <3>1, <3>3 DEF Torn, Closed
      <4>4. Cardinality(Of(p, All)) <= Deals[p] /\ Deals[p] \in Nat
        BY HistoryAssumption DEF RowsInvariant, DealsAreBounded
      <4>5. Cardinality(Of(p, All)) = Cardinality(Of(p, s.part)) /\ Cardinality(Of(p, All)) = Deals[p]
        BY <4>1, <4>2, <4>3, <4>4
      <4> QED BY <3>3, <4>2, <4>5
    <3>4. p \in Closed(s.part) => rows'[p].basis = Of(p, s.part) \/ (rows[p] # NoRow /\ rows'[p].basis = rows[p].basis)
      BY <1>0, <2>1, <2>5, Upserted
    <3>5. p \notin Closed(s.part) => rows'[p] = rows[p]
      BY <2>1
    <3> QED BY <2>5, <3>2, <3>3, <3>4, <3>5
  <2>6. MeasuredAtTheEnd'
    BY <1>0, <2>5 DEF MeasuredAtTheEnd, Of, All
  <2> QED BY <2>2, <2>3, <2>4, <2>6 DEF RowsInvariant
<1> QED BY <1>1, <1>2

\* The broker's first deals are within their counts, and there are no rows.
LEMMA RowsStart == Init => RowsInvariant
<1> SUFFICES ASSUME Init PROVE RowsInvariant
  OBVIOUS
<1>1. RowsTypeOK
  BY HistoryAssumption DEF Init, RowsTypeOK, None
<1>2. DealsAreBounded
  BY HistoryAssumption DEF Init, DealsAreBounded, Of, All
<1>3. MeasuredAtTheEnd
  BY DEF Init, MeasuredAtTheEnd
<1> QED BY <1>1, <1>2, <1>3 DEF RowsInvariant

\* Every step keeps the invariant, and takes no row and no figure away.
LEMMA RowsStep ==
  ASSUME RowsInvariant, [Next]_vars
  PROVE  /\ RowsInvariant'
         /\ \A p \in Positions : rows[p] # NoRow =>
              rows'[p] # NoRow /\ (rows[p].basis # {} => rows'[p].basis # {})
<1>1. CASE Trade
  BY <1>1, TradeKeeps DEF Trade, tables
<1>2. ASSUME NEW k \in Kind, Request(k) \/ FetchAccount(k) \/ Read(k) \/ Fail(k)
      PROVE  RowsInvariant' /\ UNCHANGED rows
  <2>1. UNCHANGED rows
    BY <1>2 DEF Request, FetchAccount, Read, Fetch, Fail, tables
  <2> QED BY <1>2, <2>1, SyncKeeps
<1>3. ASSUME NEW k \in Kind, Persist(k)
      PROVE  /\ RowsInvariant'
             /\ \A p \in Positions : rows[p] # NoRow =>
                  rows'[p] # NoRow /\ (rows[p].basis # {} => rows'[p].basis # {})
  BY <1>3, PersistKeeps
<1>4. CASE UNCHANGED vars \/ Renew
  BY <1>4 DEF Renew, vars, tables, RowsInvariant, RowsTypeOK, DealsAreBounded, MeasuredAtTheEnd, Of, All
<1> QED BY <1>1, <1>2, <1>3, <1>4 DEF Next

\* Two syncs of an account, partial, withheld and crossed in any order, take no row
\* and no figure away, for any deals the broker has and any part that comes of them.
THEOREM NoRowIsLost == Spec => NothingIsLost
<1>1. RowsInvariant /\ [Next]_vars => RowsInvariant'
  BY RowsStep
<1>2. RowsInvariant /\ [Next]_vars =>
        [\A p \in Positions : rows[p] # NoRow =>
           rows'[p] # NoRow /\ (rows[p].basis # {} => rows'[p].basis # {})]_vars
  BY RowsStep
<1> QED BY <1>1, <1>2, RowsStart, PTL DEF Spec, NothingIsLost

\* A figure that no torn payload made is over all the deals of its position, though
\* the position goes on and nobody measures it again.
THEOREM FiguresAreWhole == Spec => []MeasuredWhole
<1>1. RowsInvariant => MeasuredWhole
  BY DEF RowsInvariant, MeasuredAtTheEnd, MeasuredWhole, Measured
<1>2. RowsInvariant /\ [Next]_vars => RowsInvariant'
  BY RowsStep
<1> QED BY <1>1, <1>2, RowsStart, PTL DEF Spec

-----------------------------------------------------------------------------
(* Induction over the weeks of a scan, as the least number principle *)

LEMMA LeastNumber ==
  ASSUME NEW S, S \subseteq Nat, S # {}
  PROVE  \E n \in S : \A m \in S : n <= m
<1> DEFINE R == OpToRel(<, Nat)
<1>1. IsWellFoundedOn(R, Nat)
  BY NatLessThanWellFounded
<1>2. \A m, n \in Nat : m < n => <<m, n>> \in R
  BY DEF OpToRel
<1> HIDE DEF R
<1>3. PICK n \in S : \A m \in S : ~ (<<m, n>> \in R)
  BY <1>1, WFMin
<1>4. \A m \in S : ~ (m < n)
  BY <1>2, <1>3
<1>5. \A m, k \in Nat : ~ (m < k) => k <= m
  OBVIOUS
<1>6. \A m \in S : n <= m
  BY <1>4, <1>5
<1> QED BY <1>6

\* What holds at m, and at each next number where it holds, holds up to n.
LEMMA Induction ==
  ASSUME NEW m \in Nat, NEW n \in Nat, NEW S, m \in S, \A i \in m..n : i < n /\ i \in S => i + 1 \in S
  PROVE  \A i \in m..n : i \in S
<1> DEFINE Bad == {i \in m..n : i \notin S}
<1> SUFFICES ASSUME Bad # {} PROVE FALSE
  OBVIOUS
<1>1. Bad \subseteq Nat
  OBVIOUS
<1> HIDE DEF Bad
<1>2. PICK i \in Bad : \A j \in Bad : i <= j
  BY <1>1, LeastNumber
<1>3. i \in m..n /\ i \notin S /\ i # m
  BY <1>2 DEF Bad
<1>4. i - 1 \in m..n /\ i - 1 < n /\ (i - 1) + 1 = i /\ ~ (i <= i - 1)
  BY <1>3
<1>5. i - 1 \in S
  BY <1>2, <1>4 DEF Bad
<1> QED BY <1>3, <1>4, <1>5

\* D says how each value follows from the one before; g goes that way from c.
StaysIn(V, n, D) == \A i \in 1..n : \A v \in V : D[i][v] \in V

Goes(g, V, c, n, D) == g \in [0..n -> V] /\ g[0] = c /\ \A i \in 1..n : g[i] = D[i][g[i - 1]]

\* A function that each number has from the one before exists.
LEMMA Recursion ==
  ASSUME NEW V, NEW c \in V, NEW n \in Nat, NEW D, StaysIn(V, n, D)
  PROVE  \E g : Goes(g, V, c, n, D)
<1> DEFINE S == {k \in 0..n : \E g : Goes(g, V, c, k, D)}
<1>1. 0 \in S
  <2> DEFINE g == [i \in 0..0 |-> c]
  <2>1. Goes(g, V, c, 0, D)
    BY DEF Goes
  <2> HIDE DEF g
  <2> QED BY <2>1
<1>2. ASSUME NEW j \in 0..n, j < n, j \in S PROVE j + 1 \in S
  <2> DEFINE k == j + 1
  <2>0. k \in 1..n /\ k - 1 = j
    BY <1>2
  <2> HIDE DEF k
  <2>1. PICK g : Goes(g, V, c, k - 1, D)
    BY <1>2, <2>0
  <2>8. g \in [0..(k - 1) -> V] /\ g[0] = c /\ \A i \in 1..(k - 1) : g[i] = D[i][g[i - 1]]
    BY <2>1 DEF Goes
  <2> DEFINE h == [i \in 0..k |-> IF i = k THEN D[k][g[k - 1]] ELSE g[i]]
  <2>2. g[k - 1] \in V /\ D[k][g[k - 1]] \in V
    BY <2>0, <2>8 DEF StaysIn
  <2>3. h \in [0..k -> V]
    BY <2>0, <2>2, <2>8
  <2>4. h[0] = c
    BY <2>0, <2>8
  <2>5. \A i \in 1..k : h[i - 1] = g[i - 1]
    BY <2>0
  <2>6. ASSUME NEW i \in 1..k PROVE h[i] = D[i][g[i - 1]]
    <3>1. CASE i = k
      BY <2>0, <3>1
    <3>2. CASE i # k
      <4>1. i \in 1..(k - 1) /\ i \in 0..k
        BY <2>0, <3>2
      <4>2. g[i] = D[i][g[i - 1]]
        BY <2>8, <4>1
      <4> QED BY <3>2, <4>1, <4>2
    <3> QED BY <3>1, <3>2
  <2>7. Goes(h, V, c, k, D)
    BY <2>3, <2>4, <2>5, <2>6 DEF Goes
  <2> HIDE DEF h
  <2> QED BY <2>0, <2>7 DEF k
<1>3. n \in S
  <2> HIDE DEF S
  <2>1. \A i \in 0..n : i \in S
    BY <1>1, <1>2, Induction
  <2> QED BY <2>1
<1> QED BY <1>3

-----------------------------------------------------------------------------
(* What the recursions of Clock compute *)

Reading == [opens : Int, offset : Int]

\* The steps after the first weekends follow from one another.
LEMMA StepsFollow ==
  ASSUME NEW from \in Int, NEW W \in Seq(Reading)
  PROVE  /\ StepsMade(from, W)[0] = <<>>
         /\ \A i \in 1..Len(W) : StepsMade(from, W)[i] = Step(from, W, StepsMade(from, W)[i - 1], i)
<1> DEFINE V == Seq([at : Int \cup {W[0].opens}, offset : Int])
           D == [i \in 1..Len(W) |-> [v \in V |-> Step(from, W, v, i)]]
           Made(g) == g = [i \in 0..Len(W) |-> IF i = 0 THEN <<>> ELSE Step(from, W, g[i - 1], i)]
<1>1. Len(W) \in Nat /\ <<>> \in V
  OBVIOUS
<1>2. ASSUME NEW v \in V, NEW i \in 1..Len(W) PROVE Step(from, W, v, i) \in V
  <2>1. W[i].offset \in Int /\ W[i - 1].opens \in Int \cup {W[0].opens}
    <3>1. W[i] \in Reading /\ (i = 1 \/ W[i - 1] \in Reading)
      OBVIOUS
    <3> QED BY <3>1 DEF Reading
  <2>2. [at |-> from, offset |-> W[i].offset] \in [at : Int \cup {W[0].opens}, offset : Int]
    BY <2>1
  <2>3. [at |-> W[i - 1].opens, offset |-> W[i].offset] \in [at : Int \cup {W[0].opens}, offset : Int]
    BY <2>1
  <2>4. \A T, e : v \in Seq(T) /\ e \in T => Append(v, e) \in Seq(T) /\ <<e>> \in Seq(T)
    OBVIOUS
  <2> QED BY <2>2, <2>3, <2>4 DEF Step
<1>3. \A v \in V, i \in 1..Len(W) : D[i][v] = Step(from, W, v, i)
  OBVIOUS
<1> HIDE DEF V, D
<1>9. StaysIn(V, Len(W), D)
  BY <1>2, <1>3 DEF StaysIn
<1>4. PICK g \in [0..Len(W) -> V] : g[0] = <<>> /\ \A i \in 1..Len(W) : g[i] = D[i][g[i - 1]]
  <2> DEFINE none == <<>>
  <2>1. none \in V /\ Len(W) \in Nat
    BY <1>1
  <2> HIDE DEF none
  <2>2. \E g : Goes(g, V, none, Len(W), D)
    BY <1>9, <2>1, Recursion
  <2> QED BY <2>2 DEF Goes, none
<1>5. \A i \in 1..Len(W) : g[i] = Step(from, W, g[i - 1], i)
  BY <1>3, <1>4
<1>6. Made(g)
  BY <1>4, <1>5
<1>7. StepsMade(from, W) = CHOOSE made : Made(made)
  BY DEF StepsMade
<1>8. Made(StepsMade(from, W))
  <2> HIDE DEF Made
  <2> QED BY <1>6, <1>7
<1> QED BY <1>1, <1>8

\* So do the weeks a scan reads.
LEMMA ReadFollows ==
  ASSUME NEW from \in Int, NEW n \in Nat
  PROVE  \E read : /\ WeeksRead(from, n) = read[n]
                   /\ read[0] = <<>>
                   /\ \A i \in 1..n : read[i] = ReadEnd(read[i - 1], from + i - 1)
<1> DEFINE V == Seq(Int)
           D == [i \in 1..n |-> [v \in V |-> ReadEnd(v, from + i - 1)]]
           Made(g) == g = [i \in 0..n |-> IF i = 0 THEN <<>> ELSE ReadEnd(g[i - 1], from + i - 1)]
           read == CHOOSE g : Made(g)
<1>1. <<>> \in V /\ \A v \in V, i \in 1..n : ReadEnd(v, from + i - 1) \in V
  BY DEF ReadEnd
<1>2. \A v \in V, i \in 1..n : D[i][v] = ReadEnd(v, from + i - 1)
  OBVIOUS
<1> HIDE DEF V, D
<1>3. StaysIn(V, n, D)
  BY <1>1, <1>2 DEF StaysIn
<1>4. PICK g \in [0..n -> V] : g[0] = <<>> /\ \A i \in 1..n : g[i] = D[i][g[i - 1]]
  <2> DEFINE none == <<>>
  <2>1. none \in V
    BY <1>1
  <2> HIDE DEF none
  <2>2. \E g : Goes(g, V, none, n, D)
    BY <1>3, <2>1, Recursion
  <2> QED BY <2>2 DEF Goes, none
<1>5. \A i \in 1..n : g[i] = ReadEnd(g[i - 1], from + i - 1)
  BY <1>2, <1>4
<1>6. Made(g)
  BY <1>4, <1>5
<1>7. Made(read)
  <2> HIDE DEF Made
  <2> QED BY <1>6
<1>8. WeeksRead(from, n) = read[n]
  BY DEF WeeksRead
<1> HIDE DEF read
<1>9. read[0] = <<>> /\ \A i \in 1..n : read[i] = ReadEnd(read[i - 1], from + i - 1)
  BY <1>7
<1> QED BY <1>8, <1>9

-----------------------------------------------------------------------------
(* What a broker does *)

BrokerClock ==
  /\ DOMAIN timeline = 1..Weeks
  /\ \A j \in 1..Weeks : timeline[j] \in [offset : Int, end : {"full", "early", "off"}]
  /\ \A j \in 1..Weeks : Offset(j) <= MaxOffset
  /\ \A j, k \in 1..Weeks : Offset(j) - Offset(k) \in (-Hour)..Hour
  /\ \A j, k \in 1..Weeks : timeline[j].end = "off" /\ timeline[k].end = "off" => j = k
  /\ \A i, j, k \in 1..Weeks : i < j /\ j < k /\ k <= i + 3 =>
       ~ (timeline[i].end = "early" /\ timeline[j].end = "early" /\ timeline[k].end = "early")

LEMMA TwoOfThree ==
  ASSUME NEW E, NEW n \in Nat, E \subseteq 1..n, \A j \in 1..n : Cardinality(E \cap (j..(j + 3))) <= 2,
         NEW i \in E, NEW j \in E, NEW k \in E, i < j, j < k, k <= i + 3
  PROVE  FALSE
<1>1. i \in Int /\ j \in Int /\ k \in Int /\ i \in 1..n
  OBVIOUS
<1>2. {i, j, k} \subseteq E \cap (i..(i + 3))
  BY <1>1
<1>3. IsFiniteSet(i..(i + 3))
  BY <1>1, FS_Interval
<1>4. IsFiniteSet(E \cap (i..(i + 3)))
  BY <1>3, FS_Subset
<1>5. Cardinality({i, j, k}) <= Cardinality(E \cap (i..(i + 3)))
  BY <1>2, <1>4, FS_Subset
<1>6. Cardinality({i, j, k}) = 3
  <2>1. Cardinality({i}) = 1 /\ IsFiniteSet({i})
    BY FS_Singleton
  <2>2. {i, j} = {i} \cup {j} /\ {i, j, k} = {i, j} \cup {k} /\ j \notin {i} /\ k \notin {i, j}
    BY <1>1
  <2>3. Cardinality({i, j}) = 2 /\ IsFiniteSet({i, j})
    BY <2>1, <2>2, FS_AddElement
  <2> QED BY <2>2, <2>3, FS_AddElement
<1>7. Cardinality(E \cap (i..(i + 3))) \in Nat /\ Cardinality(E \cap (i..(i + 3))) <= 2
  BY <1>1, <1>4, FS_CardinalityType
<1> QED BY <1>5, <1>6, <1>7

LEMMA BrokerBegins == ClockInit => BrokerClock
<1> SUFFICES ASSUME ClockInit PROVE BrokerClock
  OBVIOUS
<1>1. PICK base \in Offsets, switch \in 2..(Weeks + 1), by \in {-Hour, Hour},
           early \in SUBSET (1..(Begins - 1)), off \in 0..(Begins - 1) :
        /\ \A j \in 1..(Begins - 1) : Cardinality(early \cap (j..(j + 3))) <= 2
        /\ off \notin early
        /\ timeline = [j \in 1..Weeks |->
             [offset |-> IF j < switch THEN base ELSE base + by,
              end |-> IF j = off THEN "off" ELSE IF j \in early THEN "early" ELSE "full"]]
  BY DEF ClockInit
<1>2. base \in Int /\ by \in Int /\ base <= MaxOffset - Hour /\ by \in {-2, 2} /\ Begins - 1 \in Nat
  BY ClockAssumption DEF Hour, MaxOffset
<1>3. \A j \in 1..Weeks : Offset(j) \in {base, base + by}
  BY <1>1 DEF Offset
<1>4. \A j \in 1..Weeks :
        /\ timeline[j] \in [offset : Int, end : {"full", "early", "off"}]
        /\ timeline[j].end = "off" => j = off
        /\ timeline[j].end = "early" => j \in early
  BY <1>1, <1>2
<1>5. \A j \in 1..Weeks : Offset(j) <= MaxOffset
  BY <1>2, <1>3 DEF Hour, MaxOffset
<1>6. \A j, k \in 1..Weeks : Offset(j) - Offset(k) \in (-Hour)..Hour
  BY <1>2, <1>3 DEF Hour
<1>7. \A i, j, k \in 1..Weeks : i < j /\ j < k /\ k <= i + 3 =>
       ~ (timeline[i].end = "early" /\ timeline[j].end = "early" /\ timeline[k].end = "early")
  BY <1>1, <1>2, <1>4, TwoOfThree
<1>8. DOMAIN timeline = 1..Weeks
  BY <1>1
<1> QED BY <1>4, <1>5, <1>6, <1>7, <1>8 DEF BrokerClock

-----------------------------------------------------------------------------
(* The weeks a scan reads *)

\* r holds in order the weeks of the i from one on that are not off.
IsRead(r, from, i) ==
  /\ r \in Seq(Int)
  /\ \A a \in DOMAIN r : r[a] \in from..(from + i - 1) /\ timeline[r[a]].end # "off"
  /\ \A a, b \in DOMAIN r : a < b => r[a] < r[b]
  /\ \A j \in from..(from + i - 1) : timeline[j].end # "off" => \E a \in DOMAIN r : r[a] = j

LEMMA ReadStep ==
  ASSUME NEW from \in Int, NEW i \in Nat, NEW r, IsRead(r, from, i)
  PROVE  IsRead(ReadEnd(r, from + i), from, i + 1)
<1>1. CASE timeline[from + i].end = "off"
  <2>1. \A j \in from..(from + (i + 1) - 1) : j \in from..(from + i - 1) \/ j = from + i
    OBVIOUS
  <2>2. from..(from + i - 1) \subseteq from..(from + (i + 1) - 1)
    OBVIOUS
  <2> QED BY <1>1, <2>1, <2>2 DEF IsRead, ReadEnd
<1>2. CASE timeline[from + i].end # "off"
  <2> DEFINE s == Append(r, from + i)
  <2>1. s \in Seq(Int) /\ Len(r) \in Nat /\ DOMAIN r = 1..Len(r) /\ DOMAIN s = 1..(Len(r) + 1)
    BY DEF IsRead
  <2>2. \A a \in DOMAIN s : (a \in DOMAIN r /\ s[a] = r[a]) \/ (a = Len(r) + 1 /\ s[a] = from + i)
    BY <2>1 DEF IsRead
  <2>3. \A a \in DOMAIN r : a \in DOMAIN s /\ s[a] = r[a]
    BY <2>1 DEF IsRead
  <2>4. s[Len(r) + 1] = from + i /\ Len(r) + 1 \in DOMAIN s
    BY <2>1 DEF IsRead
  <2>5. ReadEnd(r, from + i) = s
    BY <1>2 DEF ReadEnd
  <2> HIDE DEF s
  <2>6. \A a \in DOMAIN s : s[a] \in from..(from + (i + 1) - 1) /\ timeline[s[a]].end # "off"
    BY <1>2, <2>2 DEF IsRead
  <2>7. \A a, b \in DOMAIN s : a < b => s[a] < s[b]
    <3> SUFFICES ASSUME NEW a \in DOMAIN s, NEW b \in DOMAIN s, a < b PROVE s[a] < s[b]
      OBVIOUS
    <3>1. a \in DOMAIN r /\ s[a] = r[a]
      BY <2>1, <2>2
    <3>2. r[a] \in from..(from + i - 1)
      BY <3>1 DEF IsRead
    <3>3. CASE b \in DOMAIN r /\ s[b] = r[b]
      BY <3>1, <3>3 DEF IsRead
    <3>4. CASE s[b] = from + i
      BY <3>1, <3>2, <3>4
    <3> QED BY <2>2, <3>3, <3>4
  <2>8. ASSUME NEW j \in from..(from + (i + 1) - 1), timeline[j].end # "off" PROVE \E a \in DOMAIN s : s[a] = j
    <3>1. CASE j = from + i
      BY <2>4, <3>1
    <3>2. CASE j # from + i
      <4>1. j \in from..(from + i - 1)
        BY <3>2
      <4> QED BY <2>3, <2>8, <4>1 DEF IsRead
    <3> QED BY <3>1, <3>2
  <2> QED BY <2>1, <2>5, <2>6, <2>7, <2>8 DEF IsRead
<1> QED BY <1>1, <1>2

LEMMA ReadIsWhole ==
  ASSUME NEW from \in Int, NEW n \in Nat
  PROVE  IsRead(WeeksRead(from, n), from, n)
<1>1. PICK read : /\ WeeksRead(from, n) = read[n]
                  /\ read[0] = <<>>
                  /\ \A i \in 1..n : read[i] = ReadEnd(read[i - 1], from + i - 1)
  BY ReadFollows
<1> DEFINE S == {i \in 0..n : IsRead(read[i], from, i)}
<1>2. 0 \in S
  <2>1. from..(from + 0 - 1) = {} /\ <<>> \in Seq(Int) /\ DOMAIN <<>> = {}
    OBVIOUS
  <2>2. IsRead(<<>>, from, 0)
    BY <2>1 DEF IsRead
  <2> QED BY <1>1, <2>2
<1>3. ASSUME NEW i \in 0..n, i < n, i \in S PROVE i + 1 \in S
  <2>1. i + 1 \in 1..n /\ (i + 1) - 1 = i /\ from + (i + 1) - 1 = from + i /\ i \in Nat
    BY <1>3
  <2>2. read[i + 1] = ReadEnd(read[i], from + i)
    BY <1>1, <2>1
  <2>3. IsRead(read[i + 1], from, i + 1)
    BY <1>3, <2>1, <2>2, ReadStep
  <2> QED BY <2>1, <2>3
<1> HIDE DEF S
<1>4. \A i \in 0..n : i \in S
  BY <1>2, <1>3, Induction
<1>5. n \in S
  BY <1>4
<1> QED BY <1>1, <1>5 DEF S

-----------------------------------------------------------------------------
(* What the steps are made of *)

StepType == [at : Int, offset : Int]

LEMMA StepAppended ==
  ASSUME NEW s \in Seq(StepType), NEW e \in StepType
  PROVE  LET p == Append(s, e) IN
         /\ p \in Seq(StepType) /\ p # <<>> /\ Len(p) = Len(s) + 1 /\ p[Len(s) + 1] = e /\ DOMAIN p = 1..(Len(s) + 1)
         /\ \A a \in 1..Len(s) : p[a] = s[a]
OBVIOUS

\* Each of the steps after i weekends has an offset that one of them shows and the next
\* confirm, and begins with the scan or with the week after an earlier weekend.
AreRead(steps, from, W, i) ==
  /\ steps \in Seq(StepType)
  /\ \A a \in DOMAIN steps : \E k \in 1..i : Confirmed(W, k) /\ steps[a].offset = W[k].offset
  /\ \A a \in DOMAIN steps : steps[a].at = from \/ \E k \in 1..(i - 1) : steps[a].at = W[k].opens

LEMMA StepIsRead ==
  ASSUME NEW from \in Int, NEW W \in Seq(Reading), NEW i \in 1..Len(W), NEW steps, AreRead(steps, from, W, i - 1)
  PROVE  AreRead(Step(from, W, steps, i), from, W, i)
<1>1. W[i].offset \in Int /\ \A k \in 1..Len(W) : W[k].opens \in Int
  <2>1. \A k \in 1..Len(W) : W[k] \in Reading
    OBVIOUS
  <2> QED BY <2>1 DEF Reading
<1>2. 1..(i - 1) \subseteq 1..i /\ 1..((i - 1) - 1) \subseteq 1..(i - 1) /\ i \in 1..i
  OBVIOUS
<1>3. steps \in Seq(StepType) /\ DOMAIN steps = 1..Len(steps) /\ Len(steps) \in Nat
  BY DEF AreRead
<1>4. AreRead(steps, from, W, i)
  BY <1>2, <1>3 DEF AreRead
<1>5. CASE Step(from, W, steps, i) = steps
  BY <1>4, <1>5
<1>6. ASSUME NEW e \in StepType, Confirmed(W, i), e.offset = W[i].offset,
             e.at = from \/ \E k \in 1..(i - 1) : e.at = W[k].opens
      PROVE  AreRead(<<e>>, from, W, i) /\ AreRead(Append(steps, e), from, W, i)
  <2>1. <<e>> \in Seq(StepType) /\ \A a \in DOMAIN <<e>> : <<e>>[a] = e
    BY <1>6
  <2>2. Append(steps, e) \in Seq(StepType)
    BY <1>3, <1>6
  <2>3. \A a \in DOMAIN Append(steps, e) : (a \in DOMAIN steps /\ Append(steps, e)[a] = steps[a]) \/ Append(steps, e)[a] = e
    BY <1>3
  <2>4. AreRead(<<e>>, from, W, i)
    BY <1>2, <1>6, <2>1 DEF AreRead
  <2>5. AreRead(Append(steps, e), from, W, i)
    <3> DEFINE s == Append(steps, e)
    <3>1. s \in Seq(StepType) /\ \A a \in DOMAIN s : (a \in DOMAIN steps /\ s[a] = steps[a]) \/ s[a] = e
      BY <2>2, <2>3
    <3> HIDE DEF s
    <3>2. \A a \in DOMAIN s : \E k \in 1..i : Confirmed(W, k) /\ s[a].offset = W[k].offset
      BY <1>2, <1>4, <1>6, <3>1 DEF AreRead
    <3>3. \A a \in DOMAIN s : s[a].at = from \/ \E k \in 1..(i - 1) : s[a].at = W[k].opens
      BY <1>4, <1>6, <3>1 DEF AreRead
    <3>4. AreRead(s, from, W, i)
      BY <3>1, <3>2, <3>3 DEF AreRead
    <3> QED BY <3>4 DEF s
  <2> QED BY <2>4, <2>5
<1>7. CASE Confirmed(W, i) /\ steps = <<>>
  <2>1. [at |-> from, offset |-> W[i].offset] \in StepType
    BY <1>1 DEF StepType
  <2>2. AreRead(<<[at |-> from, offset |-> W[i].offset]>>, from, W, i)
    BY <1>6, <1>7, <2>1
  <2> QED BY <1>7, <2>2 DEF Step
<1>8. CASE Confirmed(W, i) /\ steps # <<>>
  <2>1. 1 \in DOMAIN steps
    BY <1>3, <1>8
  <2>2. i - 1 \in 1..(i - 1)
    <3>1. PICK k \in 1..(i - 1) : TRUE
      BY <2>1 DEF AreRead
    <3> QED BY <3>1
  <2> DEFINE e == [at |-> W[i - 1].opens, offset |-> W[i].offset]
  <2>3. e \in StepType /\ e.offset = W[i].offset /\ e.at = W[i - 1].opens
    BY <1>1, <2>2 DEF StepType
  <2>4. Step(from, W, steps, i) = steps \/ Step(from, W, steps, i) = Append(steps, e)
    BY <1>8 DEF Step
  <2> HIDE DEF e
  <2>5. AreRead(Append(steps, e), from, W, i)
    BY <1>6, <1>8, <2>2, <2>3
  <2> QED BY <1>4, <2>4, <2>5
<1>9. CASE ~ Confirmed(W, i)
  <2>1. Step(from, W, steps, i) = steps
    BY <1>9 DEF Step
  <2> QED BY <1>4, <2>1
<1> QED BY <1>7, <1>8, <1>9

LEMMA StepsAreRead ==
  ASSUME NEW from \in Int, NEW W \in Seq(Reading)
  PROVE  \A i \in 0..Len(W) : AreRead(StepsMade(from, W)[i], from, W, i)
<1> DEFINE S == {i \in 0..Len(W) : AreRead(StepsMade(from, W)[i], from, W, i)}
<1>1. Len(W) \in Nat /\ 0 \in 0..Len(W)
  OBVIOUS
<1>2. 0 \in S
  <2>1. AreRead(<<>>, from, W, 0)
    BY DEF AreRead
  <2> QED BY <1>1, <2>1, StepsFollow
<1>3. ASSUME NEW i \in 0..Len(W), i < Len(W), i \in S PROVE i + 1 \in S
  <2>1. i + 1 \in 1..Len(W) /\ (i + 1) - 1 = i /\ i + 1 \in 0..Len(W)
    BY <1>1, <1>3
  <2>2. StepsMade(from, W)[i + 1] = Step(from, W, StepsMade(from, W)[i], i + 1)
    BY <2>1, StepsFollow
  <2>3. AreRead(StepsMade(from, W)[i], from, W, (i + 1) - 1)
    BY <1>3, <2>1
  <2>4. AreRead(StepsMade(from, W)[i + 1], from, W, i + 1)
    BY <2>1, <2>2, <2>3, StepIsRead
  <2> QED BY <2>1, <2>4
<1> HIDE DEF S
<1>4. \A i \in 0..Len(W) : i \in S
  BY <1>1, <1>2, <1>3, Induction
<1> QED BY <1>4 DEF S

\* s is grown from s0: what was added begins with the week after weekend i0 or a later one.
Grown(s0, s, W, i0) ==
  /\ s \in Seq(StepType) /\ s # <<>> /\ Len(s0) <= Len(s)
  /\ \A a \in 1..Len(s0) : s[a] = s0[a]
  /\ \A a \in (Len(s0) + 1)..Len(s) : \E k \in i0..Len(W) : s[a].at = W[k].opens

LEMMA StepGrows ==
  ASSUME NEW from \in Int, NEW W \in Seq(Reading), NEW i0 \in 1..Len(W), NEW i \in (i0 + 1)..Len(W),
         NEW s0 \in Seq(StepType), NEW s, Grown(s0, s, W, i0)
  PROVE  Grown(s0, Step(from, W, s, i), W, i0)
<1> DEFINE e == [at |-> W[i - 1].opens, offset |-> W[i].offset]
<1>1. Step(from, W, s, i) = s \/ Step(from, W, s, i) = Append(s, e)
  BY DEF Step, Grown
<1>2. i - 1 \in i0..Len(W) /\ i \in 1..Len(W) /\ i - 1 \in 1..Len(W) /\ Len(s0) \in Nat
  OBVIOUS
<1>3. e \in StepType /\ e.at = W[i - 1].opens
  <2>1. W[i - 1] \in Reading /\ W[i] \in Reading
    BY <1>2
  <2> QED BY <2>1 DEF StepType, Reading
<1> HIDE DEF e
<1> DEFINE t == Append(s, e)
<1>4. t \in Seq(StepType) /\ t # <<>> /\ Len(t) = Len(s) + 1 /\ t[Len(s) + 1] = e /\ Len(s) \in Nat
      /\ \A a \in 1..Len(s) : t[a] = s[a]
  BY <1>3 DEF Grown
<1> HIDE DEF t
<1>5. Len(s0) <= Len(t) /\ \A a \in 1..Len(s0) : t[a] = s0[a]
  BY <1>2, <1>4 DEF Grown
<1>6. ASSUME NEW a \in (Len(s0) + 1)..Len(t) PROVE \E k \in i0..Len(W) : t[a].at = W[k].opens
  <2>1. CASE a = Len(s) + 1
    BY <1>2, <1>3, <1>4, <2>1
  <2>2. CASE a # Len(s) + 1
    <3>1. a \in (Len(s0) + 1)..Len(s) /\ a \in 1..Len(s)
      BY <1>2, <1>4, <2>2
    <3> QED BY <1>4, <3>1 DEF Grown
  <2> QED BY <2>1, <2>2
<1>7. Grown(s0, t, W, i0)
  BY <1>4, <1>5, <1>6 DEF Grown
<1> QED BY <1>1, <1>7 DEF t

LEMMA StepsGrow ==
  ASSUME NEW from \in Int, NEW W \in Seq(Reading), NEW i0 \in 1..Len(W), StepsMade(from, W)[i0] # <<>>
  PROVE  Grown(StepsMade(from, W)[i0], Steps(from, W), W, i0)
<1> DEFINE s0 == StepsMade(from, W)[i0]
           S == {i \in i0..Len(W) : Grown(s0, StepsMade(from, W)[i], W, i0)}
<1>1. Len(W) \in Nat /\ i0 \in Nat /\ i0 \in 0..Len(W) /\ Len(W) \in i0..Len(W)
  OBVIOUS
<1>2. s0 \in Seq(StepType)
  BY <1>1, StepsAreRead DEF AreRead
<1>3. i0 \in S
  <2>1. i0 \in i0..Len(W)
    BY <1>1
  <2>2. Grown(s0, s0, W, i0)
    BY <1>2 DEF Grown
  <2> QED BY <2>1, <2>2
<1>4. ASSUME NEW i \in i0..Len(W), i < Len(W), i \in S PROVE i + 1 \in S
  <2>1. i + 1 \in (i0 + 1)..Len(W) /\ i + 1 \in 1..Len(W) /\ (i + 1) - 1 = i /\ i + 1 \in i0..Len(W)
    BY <1>1, <1>4
  <2>2. StepsMade(from, W)[i + 1] = Step(from, W, StepsMade(from, W)[i], i + 1)
    BY <2>1, StepsFollow
  <2>3. Grown(s0, StepsMade(from, W)[i], W, i0)
    BY <1>4
  <2> HIDE DEF s0
  <2>4. Grown(s0, Step(from, W, StepsMade(from, W)[i], i + 1), W, i0)
    BY <1>2, <2>1, <2>3, StepGrows
  <2> QED BY <2>1, <2>2, <2>4
<1> HIDE DEF S
<1>5. \A i \in i0..Len(W) : i \in S
  BY <1>1, <1>3, <1>4, Induction
<1>6. Len(W) \in S
  BY <1>1, <1>5
<1> QED BY <1>6 DEF S, Steps

\* The last step after a confirmed weekend has its offset, when no confirmed one is far from it.
LEMMA ConfirmedIsLast ==
  ASSUME NEW from \in Int, NEW W \in Seq(Reading), NEW i0 \in 1..Len(W), Confirmed(W, i0),
         \A k \in 1..Len(W) : Confirmed(W, k) => W[k].offset - W[i0].offset \in (-MaxSwitch)..MaxSwitch
  PROVE  LET s == StepsMade(from, W)[i0] IN
         s \in Seq(StepType) /\ s # <<>> /\ s[Len(s)].offset = W[i0].offset
<1> DEFINE p == StepsMade(from, W)[i0 - 1]
           s == StepsMade(from, W)[i0]
           o == W[i0].offset
<1>0. i0 - 1 \in 0..Len(W) /\ i0 \in 0..Len(W)
  OBVIOUS
<1>1. s = Step(from, W, p, i0)
  BY StepsFollow
<1>2. AreRead(p, from, W, i0 - 1) /\ AreRead(s, from, W, i0)
  BY <1>0, StepsAreRead
<1>3. o \in Int /\ \A k \in 1..Len(W) : W[k].offset \in Int
  <2>1. \A k \in 1..Len(W) : W[k] \in Reading
    OBVIOUS
  <2> QED BY <2>1 DEF Reading
<1> HIDE DEF p, s
<1>4. p \in Seq(StepType) /\ s \in Seq(StepType)
  BY <1>2 DEF AreRead
<1>5. CASE p = <<>>
  <2>1. s = <<[at |-> from, offset |-> o]>>
    BY <1>1, <1>5 DEF Step
  <2> HIDE DEF o
  <2>2. s # <<>> /\ Len(s) = 1 /\ s[1] = [at |-> from, offset |-> o]
    BY <2>1
  <2>3. s[Len(s)].offset = o
    BY <2>2
  <2> QED BY <1>4, <2>2, <2>3 DEF o, s
<1>6. CASE p # <<>>
  <2>1. Len(p) \in DOMAIN p
    BY <1>4, <1>6
  <2>2. PICK k \in 1..(i0 - 1) : Confirmed(W, k) /\ p[Len(p)].offset = W[k].offset
    BY <1>2, <2>1 DEF AreRead
  <2>3. k \in 1..Len(W)
    OBVIOUS
  <2>4. W[k].offset - o \in (-2)..2
    BY <2>2, <2>3 DEF MaxSwitch
  <2>5. o - W[k].offset \in (-2)..2
    BY <1>3, <2>3, <2>4
  <2>6. Differs(o, p[Len(p)].offset) \/ p[Len(p)].offset = o
    BY <2>2, <2>5 DEF Differs, MaxSwitch
  <2>7. CASE Differs(o, p[Len(p)].offset)
    <3> DEFINE e == [at |-> W[i0 - 1].opens, offset |-> o]
    <3>1. s = Append(p, e) /\ e.offset = o
      BY <1>1, <1>6, <2>7 DEF Step
    <3> HIDE DEF e
    <3>2. s # <<>> /\ Len(s) = Len(p) + 1 /\ s[Len(p) + 1] = e
      BY <1>4, <3>1
    <3>3. s[Len(s)].offset = o
      BY <3>1, <3>2
    <3> QED BY <1>4, <3>2, <3>3 DEF s
  <2>8. CASE ~ Differs(o, p[Len(p)].offset)
    <3>1. s = p
      BY <1>1, <1>6, <2>8 DEF Step
    <3> QED BY <1>4, <1>6, <2>6, <2>8, <3>1 DEF s
  <2> QED BY <2>7, <2>8
<1> QED BY <1>5, <1>6

-----------------------------------------------------------------------------
(* What a label is told *)

LEMMA ToldByLast ==
  ASSUME NEW steps \in Seq(StepType), NEW label \in Int, NEW m \in 1..Len(steps), steps[m].at <= label,
         \A a \in (m + 1)..Len(steps) : label < steps[a].at
  PROVE  OffsetAt(steps, label) = steps[m].offset
<1> DEFINE begun == {i \in DOMAIN steps : steps[i].at <= label}
<1>1. Len(steps) \in Nat /\ DOMAIN steps = 1..Len(steps)
  OBVIOUS
<1>2. \A a \in DOMAIN steps : steps[a].at \in Int
  <2>1. \A a \in DOMAIN steps : steps[a] \in StepType
    BY <1>1
  <2> QED BY <2>1 DEF StepType
<1>3. m \in begun
  BY <1>1
<1>4. \A a \in begun : m >= a
  <2> SUFFICES ASSUME NEW a \in begun, a > m PROVE FALSE
    BY <1>1
  <2>1. a \in (m + 1)..Len(steps) /\ a \in DOMAIN steps
    BY <1>1
  <2>2. label < steps[a].at /\ steps[a].at <= label
    BY <2>1
  <2> QED BY <1>2, <2>1, <2>2
<1>5. begun \subseteq Int
  BY <1>1
<1>6. OffsetAt(steps, label) = IF begun = {} THEN Unknown ELSE steps[Max(begun)].offset
  BY DEF OffsetAt
<1> HIDE DEF begun
<1>7. Max(begun) = m
  <2>1. \A x \in begun : (\A y \in begun : x >= y) => x = m
    BY <1>3, <1>4, <1>5
  <2> QED BY <1>3, <1>4, <2>1 DEF Max
<1> QED BY <1>3, <1>6, <1>7

LEMMA ToldByStep ==
  ASSUME NEW steps \in Seq(StepType), NEW label \in Int
  PROVE  \/ OffsetAt(steps, label) = Unknown
         \/ \E a \in DOMAIN steps : steps[a].at <= label /\ OffsetAt(steps, label) = steps[a].offset
<1> DEFINE begun == {i \in DOMAIN steps : steps[i].at <= label}
           left == {Len(steps) - i : i \in begun}
<1>1. Len(steps) \in Nat /\ DOMAIN steps = 1..Len(steps)
  OBVIOUS
<1>2. OffsetAt(steps, label) = IF begun = {} THEN Unknown ELSE steps[Max(begun)].offset
  BY DEF OffsetAt
<1>3. begun \subseteq 1..Len(steps) /\ \A a \in begun : a \in DOMAIN steps /\ steps[a].at <= label
  BY <1>1
<1> HIDE DEF begun
<1>4. ASSUME begun # {} PROVE Max(begun) \in begun
  <2>1. left \subseteq Nat /\ left # {}
    <3>1. \A a \in begun : Len(steps) - a \in Nat
      BY <1>1, <1>3
    <3> QED BY <1>4, <3>1
  <2> HIDE DEF left
  <2>2. PICK n \in left : \A k \in left : n <= k
    BY <2>1, LeastNumber
  <2>3. PICK m \in begun : n = Len(steps) - m
    BY <2>2 DEF left
  <2>4. \A a \in begun : Len(steps) - m <= Len(steps) - a
    BY <2>2, <2>3 DEF left
  <2>5. \A a \in begun : m >= a
    BY <1>1, <1>3, <2>4
  <2> QED BY <2>5 DEF Max
<1> QED BY <1>2, <1>3, <1>4

-----------------------------------------------------------------------------
(* What a scan shows *)

\* A scan of the weeks from..to reads the weekends W, after the weeks r.
ScanIs(from, to, r, W) ==
  /\ IsRead(r, from, to - from)
  /\ W \in Seq(Reading) /\ Len(W) = Len(r)
  /\ \A i \in 1..Len(r) : W[i] = Weekend(r[i])

LEMMA OffsetIsInt == BrokerClock => \A j \in 1..Weeks : Offset(j) \in Int
BY DEF BrokerClock, Offset

LEMMA ScanReads ==
  ASSUME BrokerClock, NEW to \in 1..Weeks, NEW from \in 1..to
  PROVE  \E r : ScanIs(from, to, r, Weekends(from, to))
<1> DEFINE r == WeeksRead(from, to - from)
<1>1. to - from \in Nat /\ from \in Int /\ Weeks \in Nat
  BY ClockAssumption
<1>2. IsRead(r, from, to - from)
  BY <1>1, ReadIsWhole
<1>3. Weekends(from, to) = [i \in DOMAIN r |-> Weekend(r[i])]
  BY DEF Weekends
<1> HIDE DEF r
<1>4. r \in Seq(Int) /\ DOMAIN r = 1..Len(r) /\ Len(r) \in Nat
  BY <1>2 DEF IsRead
<1>5. \A i \in DOMAIN r : Weekend(r[i]) \in Reading
  <2> SUFFICES ASSUME NEW i \in DOMAIN r PROVE Weekend(r[i]) \in Reading
    OBVIOUS
  <2>1. r[i] \in 1..Weeks /\ r[i] + 1 \in 1..Weeks
    BY <1>1, <1>2 DEF IsRead
  <2>2. Offset(r[i]) \in Int /\ Offset(r[i] + 1) \in Int
    BY <2>1, OffsetIsInt
  <2> QED BY <2>1, <2>2 DEF Weekend, Reading, Opens, Hour
<1> DEFINE W == Weekends(from, to)
<1>6. W \in Seq(Reading) /\ Len(W) = Len(r) /\ \A i \in 1..Len(r) : W[i] = Weekend(r[i])
  BY <1>3, <1>4, <1>5
<1> QED BY <1>2, <1>6 DEF ScanIs

\* Of four weeks in a row at most one is off, so three weekends read are within four weeks.
LEMMA NearWeeks ==
  ASSUME BrokerClock, NEW to \in 1..Weeks, NEW from \in 1..to, NEW r, IsRead(r, from, to - from),
         NEW i \in DOMAIN r, i + 2 \in DOMAIN r
  PROVE  /\ r[i] < r[i + 1] /\ r[i + 1] < r[i + 2] /\ r[i + 2] <= r[i] + 3
         /\ i \in Nat /\ i + 1 \in DOMAIN r /\ \A k \in i..(i + 2) : r[k] \in from..(to - 1)
<1>1. r \in Seq(Int) /\ DOMAIN r = 1..Len(r) /\ Len(r) \in Nat /\ Weeks \in Nat
  BY ClockAssumption DEF IsRead
<1>2. i \in Nat /\ i + 1 \in DOMAIN r /\ i < i + 1 /\ i + 1 < i + 2
  BY <1>1
<1>3. r[i] < r[i + 1] /\ r[i + 1] < r[i + 2]
  BY <1>2 DEF IsRead
<1>4. \A k \in DOMAIN r : r[k] \in from..(to - 1)
  <2>1. from + (to - from) - 1 = to - 1
    OBVIOUS
  <2> QED BY <2>1 DEF IsRead
<1>5. \A k \in i..(i + 2) : k \in DOMAIN r
  BY <1>1, <1>2
<1>6. ASSUME NEW j \in Int, r[i] < j, j < r[i + 2] PROVE timeline[j].end = "off" \/ j = r[i + 1]
  <2>1. j \in from..(from + (to - from) - 1)
    BY <1>2, <1>4, <1>6
  <2> SUFFICES ASSUME timeline[j].end # "off" PROVE j = r[i + 1]
    OBVIOUS
  <2>2. PICK a \in DOMAIN r : r[a] = j
    BY <2>1 DEF IsRead
  <2>3. ~ (a <= i)
    <3>1. a < i => r[a] < r[i]
      BY DEF IsRead
    <3> QED BY <1>1, <1>2, <1>4, <1>6, <2>2, <3>1
  <2>4. ~ (a >= i + 2)
    <3>1. i + 2 < a => r[i + 2] < r[a]
      BY DEF IsRead
    <3> QED BY <1>1, <1>2, <1>4, <1>6, <2>2, <3>1
  <2>5. a = i + 1
    BY <1>1, <1>2, <2>3, <2>4
  <2> QED BY <2>2, <2>5
<1>7. r[i + 2] <= r[i] + 3
  <2> DEFINE v == r[i]
  <2> SUFFICES ASSUME ~ (r[i + 2] <= v + 3) PROVE FALSE
    OBVIOUS
  <2>1. v \in Int /\ r[i + 1] \in Int /\ r[i + 2] \in Int /\ v \in from..(to - 1) /\ r[i + 2] \in from..(to - 1)
    BY <1>2, <1>4
  <2>2. \A j \in {v + 1, v + 2, v + 3} : j \in Int /\ v < j /\ j < r[i + 2] /\ j \in 1..Weeks
    <3> DEFINE w == r[i + 2]
    <3>1. w \in Int /\ ~ (w <= v + 3) /\ w \in from..(to - 1)
      BY <2>1
    <3>2. v \in Int /\ v \in from..(to - 1)
      BY <2>1
    <3> HIDE DEF v, w
    <3>3. \A j \in {v + 1, v + 2, v + 3} : j \in Int /\ v < j /\ j < w /\ j \in 1..Weeks
      BY <1>1, <3>1, <3>2
    <3> QED BY <3>3 DEF w
  <2>3. \A j \in {v + 1, v + 2, v + 3} : timeline[j].end = "off" \/ j = r[i + 1]
    BY <1>6, <2>2
  <2>4. \A j, k \in {v + 1, v + 2, v + 3} : timeline[j].end = "off" /\ timeline[k].end = "off" => j = k
    BY <2>2 DEF BrokerClock
  <2> HIDE DEF v
  <2>5. v + 1 # v + 2 /\ v + 2 # v + 3 /\ v + 1 # v + 3
    BY <2>1
  <2> QED BY <2>3, <2>4, <2>5
<1> QED BY <1>2, <1>3, <1>4, <1>5, <1>7

\* No switch is confirmed that no week of the scan had: one of the three ends is not early.
LEMMA ConfirmedIsTrue ==
  ASSUME BrokerClock, NEW to \in 1..Weeks, NEW from \in 1..to, NEW r, NEW W, ScanIs(from, to, r, W),
         NEW i \in 1..Len(W), Confirmed(W, i)
  PROVE  \E j \in from..(to - 1) : W[i].offset = Offset(j)
<1>1. r \in Seq(Int) /\ DOMAIN r = 1..Len(r) /\ Len(r) \in Nat /\ Len(W) = Len(r)
      /\ IsRead(r, from, to - from) /\ Weeks \in Nat
  BY ClockAssumption DEF ScanIs, IsRead
<1>2. i \in DOMAIN r /\ i + 2 \in DOMAIN r
  BY <1>1 DEF Confirmed, Confirmations
<1>3. /\ r[i] < r[i + 1] /\ r[i + 1] < r[i + 2] /\ r[i + 2] <= r[i] + 3
      /\ i \in Nat /\ i + 1 \in DOMAIN r /\ \A k \in i..(i + 2) : r[k] \in from..(to - 1)
  BY <1>1, <1>2, NearWeeks
<1>4. W[i + 1].offset = W[i].offset /\ W[i + 2].offset = W[i].offset
  BY DEF Confirmed, Confirmations
<1>5. \A k \in i..(i + 2) : k \in 1..Len(r) /\ r[k] \in 1..Weeks
  <2>1. \A k \in i..(i + 2) : k \in 1..Len(r)
    BY <1>1, <1>2, <1>3
  <2>2. from..(to - 1) \subseteq 1..Weeks
    BY <1>1
  <2> QED BY <1>3, <2>1, <2>2
<1>6. ~ (timeline[r[i]].end = "early" /\ timeline[r[i + 1]].end = "early" /\ timeline[r[i + 2]].end = "early")
  <2>1. i \in i..(i + 2) /\ i + 1 \in i..(i + 2) /\ i + 2 \in i..(i + 2)
    BY <1>3
  <2>2. r[i] \in 1..Weeks /\ r[i + 1] \in 1..Weeks /\ r[i + 2] \in 1..Weeks
    BY <1>5, <2>1
  <2>3. \A a, b, c \in 1..Weeks : a < b /\ b < c /\ c <= a + 3 =>
          ~ (timeline[a].end = "early" /\ timeline[b].end = "early" /\ timeline[c].end = "early")
    BY DEF BrokerClock
  <2> HIDE DEF BrokerClock
  <2> QED BY <1>3, <2>2, <2>3
<1>7. PICK k \in i..(i + 2) : timeline[r[k]].end # "early"
  <2>1. i \in i..(i + 2) /\ i + 1 \in i..(i + 2) /\ i + 2 \in i..(i + 2)
    BY <1>3
  <2> QED BY <1>6, <2>1
<1>8. W[k].offset = W[i].offset
  <2>1. k = i \/ k = i + 1 \/ k = i + 2
    BY <1>3
  <2> QED BY <1>4, <2>1
<1>9. W[k].offset = Offset(r[k])
  <2>1. W[k] = Weekend(r[k])
    BY <1>5 DEF ScanIs
  <2>2. Offset(r[k]) \in Int
    BY <1>5, OffsetIsInt
  <2>3. Weekend(r[k]).offset = Offset(r[k]) - 0
    BY <1>7 DEF Weekend
  <2> QED BY <2>1, <2>2, <2>3
<1> QED BY <1>3, <1>8, <1>9

\* What is read before a week begins no later than it, what is read after it, later.
LEMMA OpensAreApart ==
  ASSUME BrokerClock, NEW j \in 1..Weeks, NEW k \in 1..Weeks, k + 1 <= Weeks
  PROVE  /\ Weekend(k).opens \in Int
         /\ k < j  => Weekend(k).opens <= Opens(j) + Offset(j)
         /\ k >= j => Closes(j) + Offset(j) < Weekend(k).opens
<1>1. Weeks \in Nat /\ k + 1 \in 1..Weeks
  BY ClockAssumption
<1>2. Offset(j) \in Int /\ Offset(k + 1) \in Int
  BY <1>1, OffsetIsInt
<1>3. Offset(k + 1) - Offset(j) \in (-2)..2
  BY <1>1 DEF BrokerClock, Hour
<1>4. Weekend(k).opens = 336 * (k + 1) + Offset(k + 1)
  BY DEF Weekend, Opens
<1>5. k < j => k + 1 = j \/ k + 1 <= j - 1
  OBVIOUS
<1>6. CASE k < j
  <2>1. CASE k + 1 = j
    BY <1>1, <1>2, <1>4, <1>6, <2>1 DEF Opens
  <2>2. CASE k + 1 <= j - 1
    BY <1>1, <1>2, <1>3, <1>4, <1>6, <2>2 DEF Opens
  <2> QED BY <1>5, <1>6, <2>1, <2>2
<1>7. CASE k >= j
  BY <1>1, <1>2, <1>3, <1>4, <1>7 DEF Opens, Closes
<1> QED BY <1>6, <1>7

\* A week read and the next one read follow each other.
LEMMA NextWeek ==
  ASSUME NEW from \in Int, NEW n \in Int, NEW r, IsRead(r, from, n), NEW a \in DOMAIN r, NEW b \in DOMAIN r, r[b] = r[a] + 1
  PROVE  b = a + 1
<1>1. r \in Seq(Int) /\ DOMAIN r = 1..Len(r) /\ Len(r) \in Nat
  BY DEF IsRead
<1>2. \A x, y \in DOMAIN r : x < y => r[x] < r[y]
  BY DEF IsRead
<1>3. r[a] \in Int /\ a \in Int /\ b \in Int
  BY <1>1
<1>4. a < b
  <2>1. ~ (b < a) /\ a # b
    BY <1>2, <1>3
  <2> QED BY <1>3, <2>1
<1>5. ~ (a + 1 < b)
  <2> SUFFICES ASSUME a + 1 < b PROVE FALSE
    OBVIOUS
  <2>1. a + 1 \in DOMAIN r /\ a < a + 1
    BY <1>1, <1>3, <1>4
  <2>2. r[a] < r[a + 1] /\ r[a + 1] < r[b] /\ r[a + 1] \in Int
    BY <1>1, <1>2, <2>1
  <2> QED BY <1>3, <2>2
<1> QED BY <1>3, <1>4, <1>5

\* Week j ends the weekend of a scan that the next two confirm, and shows its offset.
ReadsRight(r, W, j) == \E i \in 1..Len(W) : Confirmed(W, i) /\ r[i] = j /\ W[i].offset = Offset(j)

\* The end of the week and the next two are full, and the same.
Agrees(j) == \A k \in j..(j + 2) : timeline[k].end = "full" /\ Offset(k) = Offset(j)

LEMMA AgreedIsConfirmed ==
  ASSUME BrokerClock, NEW to \in 1..Weeks, NEW from \in 1..to, NEW r, NEW W, ScanIs(from, to, r, W),
         NEW j \in from..(to - 3), Agrees(j)
  PROVE  ReadsRight(r, W, j)
<1>1. IsRead(r, from, to - from) /\ DOMAIN r = 1..Len(r) /\ Len(r) \in Nat /\ Len(W) = Len(r) /\ Weeks \in Nat
  BY ClockAssumption DEF ScanIs, IsRead
<1>2. \A k \in j..(j + 2) : k \in from..(from + (to - from) - 1) /\ k \in 1..Weeks
  BY <1>1
<1>3. \A k \in j..(j + 2) : \E a \in DOMAIN r : r[a] = k
  BY <1>1, <1>2 DEF IsRead, Agrees
<1>4. j \in j..(j + 2) /\ j + 1 \in j..(j + 2) /\ j + 2 \in j..(j + 2) /\ j \in Int
  OBVIOUS
<1>5. PICK a \in DOMAIN r : r[a] = j
  BY <1>3, <1>4
<1>6. PICK b \in DOMAIN r : r[b] = j + 1
  BY <1>3, <1>4
<1>7. PICK c \in DOMAIN r : r[c] = j + 2
  BY <1>3, <1>4
<1>8. b = a + 1 /\ c = a + 2
  <2>1. b = a + 1
    BY <1>1, <1>5, <1>6, NextWeek
  <2>2. r[c] = r[b] + 1
    BY <1>4, <1>6, <1>7
  <2>3. c = b + 1
    BY <1>1, <2>2, NextWeek
  <2> QED BY <1>1, <2>1, <2>3
<1>9. a \in 1..Len(W) /\ a + 1 \in 1..Len(W) /\ a + 2 \in 1..Len(W)
  BY <1>1, <1>5, <1>6, <1>7, <1>8
<1>10. ASSUME NEW x \in 1..Len(W), r[x] \in j..(j + 2) PROVE W[x].offset = Offset(j)
  <2>1. W[x] = Weekend(r[x])
    BY <1>1, <1>10 DEF ScanIs
  <2>2. timeline[r[x]].end = "full" /\ Offset(r[x]) = Offset(j) /\ Offset(r[x]) \in Int
    BY <1>2, <1>10, OffsetIsInt DEF Agrees
  <2>3. Weekend(r[x]).offset = Offset(r[x]) - 0
    BY <2>2 DEF Weekend
  <2> QED BY <2>1, <2>2, <2>3
<1>11. W[a].offset = Offset(j) /\ W[a + 1].offset = Offset(j) /\ W[a + 2].offset = Offset(j)
  BY <1>4, <1>5, <1>6, <1>7, <1>8, <1>9, <1>10
<1>12. Confirmed(W, a)
  <2>1. a + 2 <= Len(W)
    BY <1>1, <1>9
  <2>2. \A k \in 1..2 : W[a + k].offset = W[a].offset
    <3>1. \A k \in 1..2 : k = 1 \/ k = 2
      OBVIOUS
    <3> QED BY <1>11, <3>1
  <2> QED BY <2>1, <2>2 DEF Confirmed, Confirmations
<1> QED BY <1>5, <1>9, <1>11, <1>12 DEF ReadsRight

\* The step that week j is told by: it has begun with the week, and no later one has when the week ends.
Shows(s, j) ==
  \E m \in 1..Len(s) :
    /\ s[m].at <= Opens(j) + Offset(j) /\ s[m].offset = Offset(j)
    /\ \A a \in (m + 1)..Len(s) : Closes(j) + Offset(j) < s[a].at

LEMMA AgreedIsShown ==
  ASSUME BrokerClock, NEW to \in 1..Weeks, NEW from \in 1..to, NEW r, NEW W, ScanIs(from, to, r, W),
         NEW F \in Int, F = Opens(from) + Offset(from), NEW j \in from..(to - 3), Agrees(j)
  PROVE  Shows(Steps(F, W), j)
<1>1. W \in Seq(Reading) /\ Len(W) = Len(r) /\ Len(W) \in Nat /\ Weeks \in Nat /\ IsRead(r, from, to - from)
      /\ DOMAIN r = 1..Len(r)
  BY ClockAssumption DEF ScanIs, IsRead
<1>2. PICK i \in 1..Len(W) : Confirmed(W, i) /\ r[i] = j /\ W[i].offset = Offset(j)
  <2>1. ReadsRight(r, W, j)
    BY AgreedIsConfirmed
  <2> QED BY <2>1 DEF ReadsRight
<1>3. j \in 1..Weeks
  BY <1>1
<1>4. \A k \in 1..Len(W) : Confirmed(W, k) => W[k].offset - W[i].offset \in (-MaxSwitch)..MaxSwitch
  <2> SUFFICES ASSUME NEW k \in 1..Len(W), Confirmed(W, k) PROVE W[k].offset - W[i].offset \in (-MaxSwitch)..MaxSwitch
    OBVIOUS
  <2>1. PICK w \in from..(to - 1) : W[k].offset = Offset(w)
    BY ConfirmedIsTrue
  <2>2. w \in 1..Weeks
    BY <1>1
  <2> QED BY <1>2, <1>3, <2>1, <2>2 DEF BrokerClock, MaxSwitch, Hour
<1> DEFINE s0 == StepsMade(F, W)[i]
           s == Steps(F, W)
           m == Len(s0)
<1>5. s0 \in Seq(StepType) /\ s0 # <<>> /\ s0[m].offset = Offset(j)
  BY <1>1, <1>2, <1>4, ConfirmedIsLast
<1>6. Grown(s0, s, W, i)
  BY <1>1, <1>5, StepsGrow
<1>7. AreRead(s0, F, W, i)
  <2>1. i \in 0..Len(W)
    BY <1>1
  <2> QED BY <1>1, <2>1, StepsAreRead
<1> HIDE DEF s0, s
<1>8. ASSUME NEW k \in 1..Len(W)
      PROVE  /\ k < i  => W[k].opens <= Opens(j) + Offset(j)
             /\ k >= i => Closes(j) + Offset(j) < W[k].opens
  <2>1. r[k] \in from..(from + (to - from) - 1) /\ (k < i => r[k] < r[i]) /\ (i < k => r[i] < r[k])
    BY <1>1 DEF IsRead
  <2>2. r[k] \in 1..Weeks /\ r[k] + 1 <= Weeks
    BY <1>1, <2>1
  <2>3. W[k] = Weekend(r[k])
    BY <1>1 DEF ScanIs
  <2>4. k >= i => r[k] >= j
    BY <1>2, <2>1, <2>2
  <2> QED BY <1>2, <1>3, <2>1, <2>2, <2>3, <2>4, OpensAreApart
<1>9. m \in 1..Len(s) /\ m \in DOMAIN s0 /\ m \in 1..m /\ s[m] = s0[m] /\ m \in Nat
  BY <1>5, <1>6 DEF Grown
<1>10. F <= Opens(j) + Offset(j)
  <2>1. Offset(from) \in Int /\ Offset(j) \in Int /\ from \in 1..Weeks
    BY <1>1, <1>3, OffsetIsInt
  <2>2. Offset(from) - Offset(j) \in (-2)..2
    BY <1>3, <2>1 DEF BrokerClock, Hour
  <2>3. CASE from = j
    BY <2>1, <2>3
  <2>4. CASE from # j
    BY <2>1, <2>2, <2>4 DEF Opens
  <2> QED BY <2>3, <2>4
<1>11. s0[m].at <= Opens(j) + Offset(j)
  <2>1. CASE s0[m].at = F
    BY <1>10, <2>1
  <2>2. ASSUME NEW k \in 1..(i - 1), s0[m].at = W[k].opens PROVE s0[m].at <= Opens(j) + Offset(j)
    <3>1. k \in 1..Len(W) /\ k < i
      BY <1>1
    <3> QED BY <1>8, <2>2, <3>1
  <2> QED BY <1>7, <1>9, <2>1, <2>2 DEF AreRead
<1>12. ASSUME NEW a \in (m + 1)..Len(s) PROVE Closes(j) + Offset(j) < s[a].at
  <2>1. PICK k \in i..Len(W) : s[a].at = W[k].opens
    BY <1>6 DEF Grown
  <2>2. k \in 1..Len(W) /\ k >= i
    BY <1>1
  <2> QED BY <1>8, <2>1, <2>2
<1>13. s[m].at <= Opens(j) + Offset(j) /\ s[m].offset = Offset(j)
  BY <1>5, <1>9, <1>11
<1>14. Shows(s, j)
  BY <1>9, <1>12, <1>13 DEF Shows
<1> QED BY <1>14 DEF s

-----------------------------------------------------------------------------
(* The inductive invariant *)

\* A clock tells a label of its scan an offset that a week of the scan had, and that of the
\* week where three agree; a clock of the open market with its tick tells the week itself.
TrueClock(c) ==
  /\ c.week \in 0..Weeks
  /\ c.scanned => \A j \in 1..(c.week - 1) : c.week - Window <= j => \A label \in Labels(j) :
       /\ \/ OffsetAt(c.steps, label) = Unknown
          \/ \E k \in 1..(c.week - 1) : c.week - Window <= k /\ OffsetAt(c.steps, label) = Offset(k)
       /\ j <= c.week - 3 /\ Agrees(j) => OffsetAt(c.steps, label) = Offset(j)
  /\ c.phase = "open" /\ c.tick = "current" /\ Offset(c.week) % Hour = 0 =>
       \A label \in Labels(c.week) : OffsetAt(c.steps, label) = Offset(c.week)

MarketOK == week \in 1..Weeks /\ phase \in {"open", "shut", "moved"} /\ (phase = "moved" => week < Weeks)

\* What was measured in an open week is not fresh in the next.
CacheOK == TrueClock(cache) /\ (fresh /\ cache.phase = "open" => cache.week = week)

\* The account keeps a clock with the week it was measured in, if the market was open, or knows it is stale.
StoredOK == TrueClock(stored.clock) /\ (~ stored.stale /\ stored.clock.phase = "open" => stored.clock.week = stored.week)

ClockInvariant == BrokerClock /\ MarketOK /\ CacheOK /\ StoredOK

\* What the steps of a scan of the weeks from..to are right about.
TrueScan(s, from, to) ==
  /\ s \in Seq(StepType)
  /\ \A a \in DOMAIN s : \E j \in from..(to - 1) : s[a].offset = Offset(j)
  /\ \A a \in DOMAIN s : s[a].at <= Opens(to) + Offset(to)
  /\ s # <<>> => \A j \in from..(to - 3) : Agrees(j) => Shows(s, j)

LEMMA StepsAreTrue ==
  ASSUME BrokerClock, NEW to \in 1..Weeks, NEW from \in 1..to, NEW r, NEW W, ScanIs(from, to, r, W),
         NEW F \in Int, F = Opens(from) + Offset(from)
  PROVE  TrueScan(Steps(F, W), from, to)
<1> DEFINE s == Steps(F, W)
<1>1. W \in Seq(Reading) /\ Len(W) = Len(r) /\ Len(W) \in Nat /\ Weeks \in Nat /\ IsRead(r, from, to - from)
      /\ DOMAIN r = 1..Len(r)
  BY ClockAssumption DEF ScanIs, IsRead
<1>2. AreRead(s, F, W, Len(W))
  <2>1. Len(W) \in 0..Len(W)
    BY <1>1
  <2> QED BY <1>1, <2>1, StepsAreRead DEF Steps
<1>3. \A j \in from..(to - 3) : Agrees(j) => Shows(s, j)
  BY AgreedIsShown
<1> HIDE DEF s
<1>4. \A a \in DOMAIN s : \E j \in from..(to - 1) : s[a].offset = Offset(j)
  <2> SUFFICES ASSUME NEW a \in DOMAIN s PROVE \E j \in from..(to - 1) : s[a].offset = Offset(j)
    OBVIOUS
  <2>1. PICK k \in 1..Len(W) : Confirmed(W, k) /\ s[a].offset = W[k].offset
    BY <1>2 DEF AreRead
  <2>2. \E j \in from..(to - 1) : W[k].offset = Offset(j)
    BY <2>1, ConfirmedIsTrue
  <2> QED BY <2>1, <2>2
<1>5. F <= Opens(to) + Offset(to)
  <2>1. Offset(from) \in Int /\ Offset(to) \in Int /\ from \in 1..Weeks
    BY <1>1, OffsetIsInt
  <2>2. Offset(from) - Offset(to) \in (-2)..2
    BY <2>1 DEF BrokerClock, Hour
  <2>3. CASE from = to
    BY <2>1, <2>3
  <2>4. CASE from # to
    BY <2>1, <2>2, <2>4 DEF Opens
  <2> QED BY <2>3, <2>4
<1>6. ASSUME NEW k \in 1..(Len(W) - 1) PROVE W[k].opens <= Opens(to) + Offset(to)
  <2>1. k \in 1..Len(W) /\ k \in DOMAIN r
    BY <1>1
  <2>2. r[k] \in from..(from + (to - from) - 1)
    BY <1>1, <2>1 DEF IsRead
  <2>3. r[k] \in 1..Weeks /\ r[k] + 1 <= Weeks /\ r[k] < to
    BY <1>1, <2>2
  <2>4. W[k] = Weekend(r[k])
    BY <1>1, <2>1 DEF ScanIs
  <2> QED BY <2>3, <2>4, OpensAreApart
<1>7. \A a \in DOMAIN s : s[a].at <= Opens(to) + Offset(to)
  <2> SUFFICES ASSUME NEW a \in DOMAIN s PROVE s[a].at <= Opens(to) + Offset(to)
    OBVIOUS
  <2>1. s[a].at = F \/ \E k \in 1..(Len(W) - 1) : s[a].at = W[k].opens
    BY <1>2 DEF AreRead
  <2> QED BY <1>5, <1>6, <2>1
<1>8. s \in Seq(StepType)
  BY <1>2 DEF AreRead
<1>9. TrueScan(s, from, to)
  BY <1>3, <1>4, <1>7, <1>8 DEF TrueScan
<1> QED BY <1>9 DEF s

\* The first week of a scan that ends with week.
First == IF week > Window THEN week - Window ELSE 1

LEMMA ScanIsTrue ==
  ASSUME BrokerClock, week \in 1..Weeks
  PROVE  TrueScan(Scan, First, week) /\ TrueScan(<<>>, First, week)
<1> DEFINE W == Weekends(First, week)
           F == Opens(First) + Offset(First)
<1>1. First \in 1..week /\ First \in 1..Weeks
  BY ClockAssumption DEF First
<1>2. TrueScan(<<>>, First, week)
  BY DEF TrueScan
<1>3. F \in Int
  BY <1>1, OffsetIsInt DEF Opens
<1>4. Scan = IF Len(W) < MinWeekends THEN <<>> ELSE Steps(F, W)
  BY DEF Scan, First
<1>5. \E r : ScanIs(First, week, r, W)
  BY <1>1, ScanReads
<1> HIDE DEF W
<1>6. TrueScan(Steps(F, W), First, week)
  <2>1. PICK r : ScanIs(First, week, r, W)
    BY <1>5
  <2> DEFINE G == F
  <2>2. G \in Int /\ G = Opens(First) + Offset(First)
    BY <1>3
  <2> HIDE DEF G
  <2>3. TrueScan(Steps(G, W), First, week)
    BY <1>1, <2>1, <2>2, StepsAreTrue
  <2> QED BY <2>3 DEF G
<1> QED BY <1>2, <1>4, <1>6

-----------------------------------------------------------------------------
(* The tick, and what is measured *)

LEMMA LiveIsNear ==
  ASSUME BrokerClock, week \in 1..Weeks, phase = "moved" => week < Weeks, NEW tick
  PROVE  /\ Live(tick) \in Int /\ Live(tick) - Offset(week) \in (-5)..5
         /\ phase = "open" /\ tick = "current" /\ Offset(week) % Hour = 0 => Live(tick) = Offset(week)
<1> DEFINE lag == IF tick = "old" THEN Hour ELSE 0
           minutes == Current - lag
<1>1. Offset(week) \in Int
  BY OffsetIsInt
<1>2. Current \in Int /\ Current - Offset(week) \in (-2)..2 /\ (phase = "open" => Current = Offset(week))
  <2>1. CASE phase = "moved"
    <3>1. week + 1 \in 1..Weeks
      BY <2>1, ClockAssumption
    <3>2. Offset(week + 1) \in Int /\ Offset(week + 1) - Offset(week) \in (-2)..2
      BY <3>1, OffsetIsInt DEF BrokerClock, Hour
    <3> QED BY <2>1, <3>2 DEF Current
  <2>2. CASE phase # "moved"
    <3>1. Current = Offset(week)
      BY <2>2 DEF Current
    <3> QED BY <1>1, <3>1
  <2> QED BY <2>1, <2>2
<1>3. lag \in {0, 2} /\ (tick = "current" => lag = 0)
  BY DEF Hour
<1>4. Live(tick) = IF minutes % 2 = 0 THEN minutes
                   ELSE IF (minutes - 1) % 4 = 0 THEN minutes - 1 ELSE minutes + 1
  BY DEF Live
<1> HIDE DEF lag
<1>5. minutes \in Int /\ minutes - Offset(week) \in (-4)..2
  BY <1>1, <1>2, <1>3
<1>6. phase = "open" /\ tick = "current" => minutes = Offset(week)
  BY <1>1, <1>2, <1>3
<1> HIDE DEF minutes
<1>7. Live(tick) \in {minutes, minutes - 1, minutes + 1}
  BY <1>4
<1>8. Live(tick) \in Int /\ Live(tick) - Offset(week) \in (-5)..5
  BY <1>1, <1>5, <1>7
<1>9. minutes % 2 = 0 => Live(tick) = minutes
  BY <1>4
<1> QED BY <1>6, <1>8, <1>9 DEF Hour

LEMMA MeasureIsTrue ==
  ASSUME BrokerClock, week \in 1..Weeks, phase = "moved" => week < Weeks, NEW scans \in BOOLEAN, NEW tick
  PROVE  TrueClock(Measure(scans, tick))
<1> DEFINE s == IF scans THEN Scan ELSE <<>>
           now == Pin(tick)
           t == IF tick = "none" \/ (s # <<>> /\ s[Len(s)].offset = Live(tick)) THEN s ELSE Append(s, now)
           c == Measure(scans, tick)
<1>1. c.steps = t /\ c.scanned = (s # <<>>) /\ c.week = week /\ c.phase = phase /\ c.tick = tick
  BY DEF Measure
<1>2. TrueScan(s, First, week)
  BY ScanIsTrue
<1>3. now = [at |-> Opens(week) + Live(tick), offset |-> Live(tick)]
  BY DEF Pin
<1>4. /\ Live(tick) \in Int /\ Live(tick) - Offset(week) \in (-5)..5
      /\ phase = "open" /\ tick = "current" /\ Offset(week) % Hour = 0 => Live(tick) = Offset(week)
  BY LiveIsNear
<1>5. Weeks \in Nat /\ Window \in Nat /\ week \in Int /\ week \in 0..Weeks /\ \A j \in 1..Weeks : Offset(j) \in Int
  BY ClockAssumption, OffsetIsInt
<1>6. now \in StepType /\ now.at = Opens(week) + Live(tick) /\ now.offset = Live(tick)
  BY <1>3, <1>4, <1>5 DEF StepType, Opens
<1> HIDE DEF c, s, now
<1>7. s \in Seq(StepType) /\ Len(s) \in Nat /\ DOMAIN s = 1..Len(s)
  BY <1>2 DEF TrueScan
<1> DEFINE p == Append(s, now)
<1>8. /\ p \in Seq(StepType) /\ p # <<>> /\ Len(p) = Len(s) + 1 /\ p[Len(s) + 1] = now /\ DOMAIN p = 1..(Len(s) + 1)
      /\ \A a \in 1..Len(s) : p[a] = s[a]
  BY <1>6, <1>7, StepAppended
<1>9. t = s \/ t = p
  OBVIOUS
<1> HIDE DEF p
<1>10. ASSUME NEW j \in 1..(week - 1) PROVE j \in 1..Weeks /\ Closes(j) + Offset(j) < now.at
  <2>1. j \in 1..Weeks /\ j + 1 <= week
    BY <1>5
  <2>2. Offset(week) - Offset(j) \in (-2)..2 /\ Offset(j) \in Int /\ Offset(week) \in Int
    BY <1>5, <2>1 DEF BrokerClock, Hour
  <2>3. Live(tick) >= Offset(j) - 7
    BY <1>4, <2>2
  <2> QED BY <1>4, <1>5, <1>6, <2>1, <2>2, <2>3 DEF Opens, Closes
<1>11. ASSUME NEW j \in 1..Weeks, NEW label \in Labels(j)
       PROVE  label \in Int /\ Opens(j) + Offset(j) <= label /\ label <= Closes(j) + Offset(j)
  BY <1>5, <1>11 DEF Labels, Opens, Closes
<1>12. ASSUME NEW j \in 1..(week - 1), s # <<>>, week - Window <= j, NEW label \in Labels(j)
       PROVE  \/ OffsetAt(t, label) = Unknown
              \/ \E k \in 1..(week - 1) : week - Window <= k /\ OffsetAt(t, label) = Offset(k)
  <2>1. label \in Int /\ label < now.at
    <3>1. label \in Int /\ label <= Closes(j) + Offset(j) /\ Offset(j) \in Int
      BY <1>5, <1>10, <1>11
    <3>2. Closes(j) + Offset(j) < now.at /\ now.at \in Int /\ Closes(j) \in Int
      BY <1>6, <1>10 DEF StepType, Closes, Opens
    <3> QED BY <3>1, <3>2
  <2>2. t \in Seq(StepType)
    BY <1>7, <1>8, <1>9
  <2> HIDE DEF t
  <2>3. CASE OffsetAt(t, label) = Unknown
    BY <2>3
  <2>4. ASSUME NEW a \in DOMAIN t, t[a].at <= label, OffsetAt(t, label) = t[a].offset
        PROVE  \E k \in 1..(week - 1) : week - Window <= k /\ OffsetAt(t, label) = Offset(k)
    <3>1. a \in DOMAIN s /\ t[a] = s[a]
      <4>1. CASE t = s
        BY <2>4, <4>1
      <4>2. CASE t = p
        <5>1. t[a] # now
          <6>1. ~ (now.at <= label)
            BY <1>6, <2>1 DEF StepType
          <6> QED BY <2>4, <6>1
        <5>2. a # Len(s) + 1
          BY <1>8, <4>2, <5>1
        <5>3. a \in 1..Len(s)
          BY <1>7, <1>8, <2>4, <4>2, <5>2
        <5> QED BY <1>7, <1>8, <4>2, <5>3
      <4> QED BY <1>9, <4>1, <4>2 DEF t
    <3>2. PICK k \in First..(week - 1) : s[a].offset = Offset(k)
      BY <1>2, <3>1 DEF TrueScan
    <3>3. k \in 1..(week - 1) /\ week - Window <= k
      BY <1>5, <3>2 DEF First
    <3> QED BY <2>4, <3>1, <3>2, <3>3
  <2> QED BY <2>1, <2>2, <2>3, <2>4, ToldByStep
<1>13. ASSUME NEW j \in 1..(week - 1), s # <<>>, week - Window <= j, j <= week - 3, Agrees(j), NEW label \in Labels(j)
       PROVE  OffsetAt(t, label) = Offset(j)
  <2>1. j \in First..(week - 3)
    BY <1>5, <1>13 DEF First
  <2>2. PICK m \in 1..Len(s) :
          /\ s[m].at <= Opens(j) + Offset(j) /\ s[m].offset = Offset(j)
          /\ \A a \in (m + 1)..Len(s) : Closes(j) + Offset(j) < s[a].at
    BY <1>2, <1>13, <2>1 DEF TrueScan, Shows
  <2>3. label \in Int /\ Opens(j) + Offset(j) <= label /\ label <= Closes(j) + Offset(j)
        /\ Offset(j) \in Int /\ Opens(j) \in Int /\ Closes(j) \in Int
    BY <1>5, <1>10, <1>11, <1>13 DEF Opens, Closes
  <2>4. \A a \in DOMAIN s : s[a].at \in Int
    <3>1. \A a \in DOMAIN s : s[a] \in StepType
      BY <1>7
    <3> QED BY <3>1 DEF StepType
  <2>5. s[m].at <= label /\ \A a \in (m + 1)..Len(s) : label < s[a].at
    <3>1. m \in DOMAIN s /\ \A a \in (m + 1)..Len(s) : a \in DOMAIN s
      BY <1>7
    <3>2. s[m].at \in Int /\ \A a \in (m + 1)..Len(s) : s[a].at \in Int
      BY <2>4, <3>1
    <3> QED BY <2>2, <2>3, <3>2
  <2>6. label < now.at
    <3>1. Closes(j) + Offset(j) < now.at /\ now.at \in Int
      BY <1>6, <1>10 DEF StepType
    <3> QED BY <2>3, <3>1
  <2>7. CASE t = s
    BY <1>7, <2>2, <2>3, <2>5, <2>7, ToldByLast
  <2>8. CASE t = p
    <3>1. m \in 1..Len(p) /\ p[m] = s[m]
      BY <1>7, <1>8
    <3>2. \A a \in (m + 1)..Len(p) : label < p[a].at
      <4>1. \A a \in (m + 1)..Len(p) : (a \in (m + 1)..Len(s) /\ a \in 1..Len(s)) \/ a = Len(s) + 1
        BY <1>7, <1>8
      <4> QED BY <1>8, <2>5, <2>6, <4>1
    <3>3. p[m].at <= label
      BY <2>5, <3>1
    <3>4. OffsetAt(p, label) = p[m].offset
      BY <1>8, <2>3, <3>1, <3>2, <3>3, ToldByLast
    <3> QED BY <2>2, <2>8, <3>1, <3>4
  <2> QED BY <1>9, <2>7, <2>8
<1>14. ASSUME phase = "open", tick = "current", Offset(week) % Hour = 0, NEW label \in Labels(week)
       PROVE  OffsetAt(t, label) = Offset(week)
  <2>1. Live(tick) = Offset(week) /\ week \in 1..Weeks
    BY <1>4, <1>14
  <2>2. label \in Int /\ Opens(week) + Offset(week) <= label /\ Opens(week) \in Int /\ Offset(week) \in Int
    BY <1>5, <1>11, <1>14, <2>1 DEF Opens
  <2>3. CASE t = s /\ s # <<>> /\ s[Len(s)].offset = Offset(week)
    <3> DEFINE m == Len(s)
    <3>1. m \in 1..Len(s) /\ m \in DOMAIN s /\ (m + 1)..Len(s) = {}
      <4>1. m \in Nat /\ m # 0
        <5> HIDE DEF t
        <5>1. s # <<>>
          BY <2>3
        <5> QED BY <1>7, <5>1
      <4>2. m \in 1..m /\ (m + 1)..m = {}
        <5> HIDE DEF m
        <5> QED BY <4>1
      <4> QED BY <1>7, <4>2
    <3>2. s[m].at <= Opens(week) + Offset(week) /\ s[m] \in StepType
      BY <1>2, <1>7, <3>1 DEF TrueScan
    <3>3. s[m].at <= label
      BY <2>2, <3>2 DEF StepType
    <3>4. OffsetAt(s, label) = s[m].offset
      <4> HIDE DEF m
      <4> QED BY <1>7, <2>2, <3>1, <3>3, ToldByLast
    <3> QED BY <2>3, <3>4
  <2>4. CASE t = p
    <3> DEFINE m == Len(s) + 1
    <3>1. m \in 1..Len(p) /\ (m + 1)..Len(p) = {} /\ p[m] = now
      BY <1>7, <1>8
    <3>2. p[m].at <= label /\ p[m].offset = Offset(week)
      BY <1>6, <2>1, <2>2, <3>1
    <3>3. OffsetAt(p, label) = p[m].offset
      <4> HIDE DEF m
      <4> QED BY <1>8, <2>2, <3>1, <3>2, ToldByLast
    <3> QED BY <2>4, <3>2, <3>3
  <2>5. t = p \/ (t = s /\ s # <<>> /\ s[Len(s)].offset = Offset(week))
    BY <1>14, <2>1 DEF p
  <2> QED BY <2>3, <2>4, <2>5
<1> HIDE DEF t
<1>15. TrueClock(c)
  BY <1>1, <1>5, <1>12, <1>13, <1>14 DEF TrueClock
<1> QED BY <1>15 DEF c

-----------------------------------------------------------------------------
(* The clock's specification *)

LEMMA NoClockIsTrue == TrueClock(NoClock)
BY ClockAssumption DEF TrueClock, NoClock

LEMMA ClockBegins == ClockInit => ClockInvariant
<1> SUFFICES ASSUME ClockInit PROVE ClockInvariant
  OBVIOUS
<1>1. week = Begins /\ phase = "open" /\ cache = NoClock /\ fresh = FALSE /\ stored.clock = NoClock
  BY DEF ClockInit
<1>2. week \in 1..Weeks
  BY <1>1, ClockAssumption
<1>3. NoClock.phase = "none"
  BY DEF NoClock
<1> QED BY <1>1, <1>2, <1>3, BrokerBegins, NoClockIsTrue DEF ClockInvariant, MarketOK, CacheOK, StoredOK

\* What is true of a clock stays so, as what the broker did does not change.
LEMMA CacheStaysTrue == ASSUME NEW c, TrueClock(c), timeline' = timeline, cache' = c PROVE TrueClock(cache)'
BY DEF TrueClock, Agrees, Labels, Offset

LEMMA StoredStaysTrue == ASSUME NEW c, TrueClock(c), timeline' = timeline, stored'.clock = c PROVE TrueClock(stored.clock)'
BY DEF TrueClock, Agrees, Labels, Offset

LEMMA TimelineStays == [ClockNext]_clockVars => timeline' = timeline
BY DEF ClockNext, Sync, Reuse, ReuseMiss, MeasureNow, Expire, MissOver, MarketCloses, ClockMoves, MarketOpens, clockVars

\* A clock is stored with the week it was measured in, if the market was open, or is stale.
LEMMA StoreKeeps ==
  ASSUME StoredOK, timeline' = timeline, NEW clock, NEW stale \in BOOLEAN, TrueClock(clock), Store(clock, stale),
         ~ stale /\ clock.phase = "open" => clock.week = week
  PROVE  StoredOK'
<1>1. CASE clock = NoClock
  <2>1. stored' = stored
    BY <1>1 DEF Store
  <2>2. TrueClock(stored.clock)'
    BY <2>1, StoredStaysTrue DEF StoredOK
  <2> QED BY <2>1, <2>2 DEF StoredOK
<1>2. CASE clock # NoClock
  <2>1. stored' = [clock |-> clock, week |-> week, phase |-> phase, stale |-> stale]
    BY <1>2 DEF Store
  <2>2. stored'.clock = clock /\ stored'.week = week /\ stored'.stale = stale
    BY <2>1
  <2>3. TrueClock(stored.clock)'
    BY <2>2, StoredStaysTrue
  <2> QED BY <2>2, <2>3 DEF StoredOK
<1> QED BY <1>1, <1>2

LEMMA ClockStep == ClockInvariant /\ [ClockNext]_clockVars => ClockInvariant'
<1> SUFFICES ASSUME BrokerClock, MarketOK, CacheOK, StoredOK, [ClockNext]_clockVars
             PROVE  BrokerClock' /\ MarketOK' /\ CacheOK' /\ StoredOK'
  BY DEF ClockInvariant
<1>1. timeline' = timeline
  BY TimelineStays
<1>2. BrokerClock'
  BY <1>1 DEF BrokerClock, Offset
<1>3. TrueClock(cache) /\ TrueClock(stored.clock)
  BY DEF CacheOK, StoredOK
<1>4. cache' = cache => TrueClock(cache)'
  BY <1>1, <1>3, CacheStaysTrue
<1>5. stored' = stored => StoredOK'
  <2> SUFFICES ASSUME stored' = stored PROVE StoredOK'
    OBVIOUS
  <2>1. TrueClock(stored.clock)'
    BY <1>1, <1>3, StoredStaysTrue
  <2> QED BY <2>1 DEF StoredOK
<1>6. CASE Reuse
  <2>1. market' = market /\ cache' = cache /\ fresh' = fresh /\ fresh /\ Store(cache, FALSE)
    BY <1>6 DEF Reuse, Reused
  <2>2. cache.phase = "open" => cache.week = week
    BY <2>1 DEF CacheOK
  <2>3. StoredOK'
    BY <1>1, <1>3, <2>1, <2>2, StoreKeeps
  <2> QED BY <1>2, <1>4, <2>1, <2>3 DEF MarketOK, CacheOK, market
<1>7. CASE ReuseMiss
  <2>1. market' = market /\ cache' = cache /\ fresh' = fresh /\ Store(cache, TRUE)
    BY <1>7 DEF ReuseMiss
  <2>2. StoredOK'
    BY <1>1, <1>3, <2>1, StoreKeeps
  <2> QED BY <1>2, <1>4, <2>1, <2>2 DEF MarketOK, CacheOK, market
<1>8. CASE MeasureNow
  <2>1. PICK scans \in BOOLEAN, tick \in Ticks :
          LET clock == Measure(scans, tick) IN
          IF clock.steps # <<>>
          THEN /\ cache' = clock /\ fresh' = TRUE /\ missed' = FALSE
               /\ Store(clock, FALSE)
          ELSE /\ missed' = TRUE
               /\ Store(cache, TRUE)
               /\ UNCHANGED <<cache, fresh>>
    BY <1>8 DEF MeasureNow
  <2> DEFINE clock == Measure(scans, tick)
  <2>2. TrueClock(clock)
    BY MeasureIsTrue DEF MarketOK
  <2>3. clock.week = week
    BY DEF Measure
  <2>4. market' = market
    BY <1>8 DEF MeasureNow
  <2>5. \/ cache' = clock /\ Store(clock, FALSE)
        \/ cache' = cache /\ fresh' = fresh /\ Store(cache, TRUE)
    BY <2>1
  <2> HIDE DEF clock
  <2>6. CASE cache' = clock /\ Store(clock, FALSE)
    <3>1. StoredOK'
      BY <1>1, <2>2, <2>3, <2>6, StoreKeeps
    <3>2. TrueClock(cache)'
      BY <1>1, <2>2, <2>6, CacheStaysTrue
    <3> QED BY <1>2, <2>3, <2>4, <2>6, <3>1, <3>2 DEF MarketOK, CacheOK, market
  <2>7. CASE cache' = cache /\ fresh' = fresh /\ Store(cache, TRUE)
    <3>1. StoredOK'
      BY <1>1, <1>3, <2>7, StoreKeeps
    <3> QED BY <1>2, <1>4, <2>4, <2>7, <3>1 DEF MarketOK, CacheOK, market
  <2> QED BY <2>5, <2>6, <2>7
<1>9. CASE Expire \/ MissOver
  <2>1. market' = market /\ cache' = cache /\ stored' = stored /\ (fresh' => fresh)
    BY <1>9 DEF Expire, MissOver
  <2> QED BY <1>2, <1>4, <1>5, <2>1 DEF MarketOK, CacheOK, market
<1>10. CASE MarketCloses \/ ClockMoves
  <2>1. week' = week /\ cache' = cache /\ stored' = stored /\ fresh' = fresh
        /\ (phase' = "shut" \/ (phase' = "moved" /\ week < Weeks))
    BY <1>10 DEF MarketCloses, ClockMoves
  <2> QED BY <1>2, <1>4, <1>5, <2>1 DEF MarketOK, CacheOK
<1>11. CASE MarketOpens
  <2>1. phase = "moved" /\ phase' = "open" /\ week' = week + 1 /\ cache' = cache /\ stored' = stored
        /\ fresh' = (fresh /\ cache.phase # "open")
    BY <1>11 DEF MarketOpens
  <2>2. week + 1 \in 1..Weeks
    BY <2>1, ClockAssumption DEF MarketOK
  <2> QED BY <1>2, <1>4, <1>5, <2>1, <2>2 DEF MarketOK, CacheOK
<1>12. CASE UNCHANGED clockVars
  <2>1. market' = market /\ cache' = cache /\ fresh' = fresh /\ stored' = stored
    BY <1>12 DEF clockVars
  <2> QED BY <1>2, <1>4, <1>5, <2>1 DEF MarketOK, CacheOK, market
<1> QED BY <1>6, <1>7, <1>8, <1>9, <1>10, <1>11, <1>12 DEF ClockNext, Sync

\* What a sync stores is true: the invariant that a clock tells each label an offset of
\* its scan, and that of the week where three weekends agree.
THEOREM ClockIsTrue == ClockSpec => []ClockInvariant
BY ClockBegins, ClockStep, PTL DEF ClockSpec

LEMMA NoneIsUnknown ==
  ASSUME BrokerClock, NEW j \in 1..Weeks
  PROVE  Offset(j) # Unknown
<1>1. Offset(j) \in Int /\ Offset(j) <= MaxOffset
  BY OffsetIsInt DEF BrokerClock
<1> QED BY <1>1 DEF Unknown, MaxOffset

\* Where the broker's clock has not moved in all the scan no label is told wrong: no early
\* weekend is taken for a switch, for the three ends that make a step are not all early.
THEOREM NoFalseSwitches == ClockSpec => []NoFalseSwitch
<1>1. ClockInvariant => NoFalseSwitch
  <2> DEFINE c == stored.clock
             scan == {j \in 1..c.week : j >= c.week - Window}
  <2> SUFFICES ASSUME ClockInvariant, c.scanned, \A j, k \in scan : Offset(j) = Offset(k),
                      NEW j \in scan \ {c.week}, NEW label \in Labels(j), OffsetAt(c.steps, label) # Unknown
               PROVE  OffsetAt(c.steps, label) = Offset(j)
    BY DEF NoFalseSwitch, Right, Told
  <2>1. TrueClock(c) /\ c.week \in Nat
    BY ClockAssumption DEF ClockInvariant, StoredOK, TrueClock
  <2> HIDE DEF c
  <2>2. j \in 1..(c.week - 1) /\ c.week - Window <= j
    BY <2>1, ClockAssumption
  <2>3. PICK k \in 1..(c.week - 1) : c.week - Window <= k /\ OffsetAt(c.steps, label) = Offset(k)
    BY <2>1, <2>2 DEF TrueClock
  <2>4. k \in scan /\ j \in scan
    BY <2>1, <2>2, <2>3, ClockAssumption
  <2> QED BY <2>3, <2>4
<1> QED BY <1>1, ClockIsTrue, PTL

\* Where the end of a week and the next two read the same and rightly, its labels are told
\* its offset: no earlier step reaches them, and no later one begins before the week is over.
THEOREM AgreedWeeksAreTold == ClockSpec => []AgreedWeeksAreTrue
<1>1. ClockInvariant => AgreedWeeksAreTrue
  <2> DEFINE c == stored.clock
  <2> SUFFICES ASSUME ClockInvariant, c.scanned, NEW j \in 1..(c.week - 3), c.week - Window <= j,
                      \A k \in j..(j + 2) : timeline[k].end = "full" /\ Offset(k) = Offset(j)
               PROVE  Told(j) = {Offset(j)}
    BY DEF AgreedWeeksAreTrue
  <2>1. TrueClock(c) /\ c.week \in 0..Weeks /\ Weeks \in Nat /\ Window \in Nat /\ BrokerClock
    BY ClockAssumption DEF ClockInvariant, StoredOK, TrueClock
  <2>2. Told(j) = {OffsetAt(c.steps, label) : label \in Labels(j)} \ {Unknown}
    BY DEF Told
  <2> HIDE DEF c
  <2>3. j \in 1..(c.week - 1) /\ c.week - Window <= j /\ j <= c.week - 3 /\ j \in 1..Weeks
    BY <2>1
  <2>4. \A label \in Labels(j) : OffsetAt(c.steps, label) = Offset(j)
    BY <2>1, <2>3 DEF TrueClock, Agrees
  <2>5. Opens(j) + Offset(j) \in Labels(j)
    BY DEF Labels
  <2>6. Offset(j) # Unknown
    BY <2>1, <2>3, NoneIsUnknown
  <2> QED BY <2>2, <2>4, <2>5, <2>6
<1> QED BY <1>1, ClockIsTrue, PTL

\* A sync of the open market tells its week right, through caches, misses and weekends: a
\* clock measured in an open week is not reused in the next.
THEOREM ThisWeekIsTold == ClockSpec => []ThisWeekIsTrue
<1>1. ClockInvariant => ThisWeekIsTrue
  <2> DEFINE c == stored.clock
  <2> SUFFICES ASSUME ClockInvariant, stored.week = week, Offset(week) % Hour = 0,
                      ~ stored.stale, c.phase = "open", c.tick = "current"
               PROVE  Told(week) = {Offset(week)}
    BY DEF ThisWeekIsTrue
  <2>1. TrueClock(c) /\ c.week = week /\ week \in 1..Weeks /\ BrokerClock
    BY DEF ClockInvariant, MarketOK, StoredOK
  <2>2. Told(week) = {OffsetAt(c.steps, label) : label \in Labels(week)} \ {Unknown}
    BY DEF Told
  <2> HIDE DEF c
  <2>3. \A label \in Labels(week) : OffsetAt(c.steps, label) = Offset(week)
    BY <2>1 DEF TrueClock
  <2>4. Opens(week) + Offset(week) \in Labels(week)
    BY DEF Labels
  <2>5. Offset(week) # Unknown
    BY <2>1, NoneIsUnknown
  <2> QED BY <2>2, <2>3, <2>4, <2>5
<1> QED BY <1>1, ClockIsTrue, PTL
=============================================================================
