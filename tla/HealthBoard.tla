----------------------------- MODULE HealthBoard -----------------------------
(***************************************************************************)
(* HealthBoard (pool/health.py) and the passes of the reaper that consult  *)
(* it for a reclone (PoolManager._maybe_reclone).  What a worker reports of *)
(* a start (StartReport, mt5api/report.py) becomes a strike, a success or   *)
(* nothing; strikes make a terminal suspect and then quarantined; a         *)
(* quarantined terminal waits for its turn to be recloned.                  *)
(*                                                                         *)
(* Time is counted in ticks and kept as ages, capped where the code stops   *)
(* telling them apart.  A terminal is its place in settings.terminals.      *)
(***************************************************************************)
EXTENDS Integers, FiniteSets

CONSTANTS Terminals,
          Servers,
          Reports,               \* what a result may say of its terminal
          SuspectStrikes,        \* _SUSPECT_STRIKES
          QuarantineStrikes,     \* _QUARANTINE_STRIKES
          QuarantineHardStrikes, \* _QUARANTINE_HARD_STRIKES
          SoftStrikes,           \* _SOFT_QUARANTINE_STRIKES
          SoftServers,           \* _SOFT_QUARANTINE_SERVERS
          SoftSpan,              \* _SOFT_QUARANTINE_SPAN, in ticks
          Interval,              \* reclone_min_interval_minutes, in ticks
          MaxPass,               \* bound: ticks between two passes of the reaper
          MaxStrikes             \* bound: strikes of one terminal in a row

\* The result's ok, and the fields of its StartReport that record() reads.
Report == [ok : BOOLEAN, initialized : BOOLEAN, died : BOOLEAN, zombie : BOOLEAN, ipcFailed : BOOLEAN]

ASSUME BoardAssumption ==
  /\ Terminals \subseteq Nat
  /\ Reports \subseteq Report
  /\ SuspectStrikes \in Nat \ {0}
  /\ QuarantineStrikes \in Nat /\ QuarantineHardStrikes \in Nat
  /\ SoftStrikes \in Nat /\ SoftServers \in Nat
  /\ SuspectStrikes < QuarantineStrikes
  /\ SuspectStrikes < SoftStrikes
  /\ SoftSpan \in Nat /\ Interval \in Nat /\ MaxPass \in Nat /\ MaxStrikes \in Nat

VARIABLES
  health,         \* TerminalHealth.state
  strikes,        \* .strikes
  hardStrikes,    \* .hard_strikes
  failedServers,  \* .failed_servers
  strikeAge,      \* ticks since .first_strike_at, 0 without a strike
  cloneAge,       \* ticks since .last_reclone_at, Interval when there is none
  warm,           \* HealthBoard.warming_up
  pass,           \* ticks since the reaper last asked due_for_reclone
  evidence        \* history: the failed starts since the last good one

counters == <<strikes, hardStrikes, failedServers, strikeAge>>
vars == <<health, counters, cloneAge, warm, pass, evidence>>

Lifecycle == INSTANCE TerminalLifecycle WITH Terminals <- Terminals, health <- health

Usable(w) == health[w] \in Lifecycle!UsableState

-----------------------------------------------------------------------------
(* StartReport *)

Hard(r) == r.died \/ r.zombie

Soft(r) == r.ipcFailed /\ ~Hard(r) /\ ~r.initialized

Success(r) == r.ok \/ r.initialized

\* A failed start that counts: soft ones are forgiven while the pool warms up.
Strikes(r) == ~Success(r) /\ (Hard(r) \/ (Soft(r) /\ ~warm))

NoEvidence == [strikes |-> 0, hard |-> 0, servers |-> {}, age |-> 0]

Init ==
  /\ Lifecycle!Init
  /\ strikes = [w \in Terminals |-> 0]
  /\ hardStrikes = [w \in Terminals |-> 0]
  /\ failedServers = [w \in Terminals |-> {}]
  /\ strikeAge = [w \in Terminals |-> 0]
  /\ cloneAge = [w \in Terminals |-> Interval]
  /\ warm = TRUE
  /\ pass = 0
  /\ evidence = [w \in Terminals |-> NoEvidence]

-----------------------------------------------------------------------------
(* record() *)

\* Mutant: a good start does not forget the servers and the first strike.
ResetCounts(w) ==
  /\ strikes' = [strikes EXCEPT ![w] = 0]
  /\ hardStrikes' = [hardStrikes EXCEPT ![w] = 0]
  /\ UNCHANGED <<failedServers, strikeAge>>

ResetStrikes(w) ==
  /\ strikes' = [strikes EXCEPT ![w] = 0]
  /\ hardStrikes' = [hardStrikes EXCEPT ![w] = 0]
  /\ failedServers' = [failedServers EXCEPT ![w] = {}]
  /\ strikeAge' = [strikeAge EXCEPT ![w] = 0]

\* Mutant: two hard strikes condemn, however few there are.
CondemnedAtOnce(w) ==
  \/ hardStrikes[w] >= QuarantineHardStrikes
  \/ /\ strikes[w] >= SoftStrikes
     /\ Cardinality(failedServers[w]) >= SoftServers
     /\ strikeAge[w] >= SoftSpan

\* _quarantine_reason is not None.
Condemned(w) ==
  \/ strikes[w] >= QuarantineStrikes /\ hardStrikes[w] >= QuarantineHardStrikes
  \/ /\ strikes[w] >= SoftStrikes
     /\ Cardinality(failedServers[w]) >= SoftServers
     /\ strikeAge[w] >= SoftSpan

\* Mutant: the strikes are forgotten and the suspicion is not.
KeepSuspicion(w, r) ==
  /\ Success(r)
  /\ ResetStrikes(w)
  /\ evidence' = [evidence EXCEPT ![w] = NoEvidence]
  /\ UNCHANGED health

GoodStart(w, r) ==
  /\ Success(r)
  /\ ResetStrikes(w)
  /\ health' = [health EXCEPT ![w] = IF @ = "suspect" THEN "healthy" ELSE @]
  /\ evidence' = [evidence EXCEPT ![w] = NoEvidence]

\* Neither a start nor a failed one, a forgiven one, or a terminal already out.
NotCounted(w, r) ==
  /\ ~Success(r)
  /\ ~Strikes(r) \/ ~Usable(w)
  /\ UNCHANGED <<health, counters, evidence>>

Struck(w, server, r) ==
  /\ Strikes(r) /\ Usable(w) /\ strikes[w] < MaxStrikes
  /\ strikes' = [strikes EXCEPT ![w] = @ + 1]
  /\ hardStrikes' = [hardStrikes EXCEPT ![w] = IF Hard(r) THEN @ + 1 ELSE @]
  /\ failedServers' = [failedServers EXCEPT ![w] = @ \cup {server}]
  /\ UNCHANGED strikeAge
  /\ health' = [health EXCEPT ![w] = IF Condemned(w)' THEN "quarantined"
                                     ELSE IF strikes'[w] >= SuspectStrikes THEN "suspect" ELSE @]
  /\ evidence' = [evidence EXCEPT
       ![w] = [strikes |-> @.strikes + 1, hard |-> IF Hard(r) THEN @.hard + 1 ELSE @.hard,
               servers |-> @.servers \cup {server}, age |-> @.age]]

Record(w, server, r) ==
  /\ GoodStart(w, r) \/ NotCounted(w, r) \/ Struck(w, server, r)
  /\ UNCHANGED <<cloneAge, warm, pass>>

-----------------------------------------------------------------------------
(* The reaper: due_for_reclone, mark_recloning and how the reclone ends *)

Cloning == {w \in Terminals : health[w] = "recloning"}

Due == {w \in Terminals : health[w] = "quarantined" /\ cloneAge[w] >= Interval}

\* Mutant: last_reclone_at is set only when a reclone succeeds.
RecloneUndated(w) ==
  /\ Cloning = {} /\ w \in Due /\ \A v \in Due : w <= v
  /\ health' = [health EXCEPT ![w] = "recloning"]
  /\ pass' = 0
  /\ UNCHANGED <<counters, cloneAge, warm, evidence>>

\* The first terminal that is due is taken; the reaper does one at a time.
StartReclone(w) ==
  /\ Cloning = {} /\ w \in Due /\ \A v \in Due : w <= v
  /\ health' = [health EXCEPT ![w] = "recloning"]
  /\ cloneAge' = [cloneAge EXCEPT ![w] = 0]
  /\ pass' = 0
  /\ UNCHANGED <<counters, warm, evidence>>

NothingDue ==
  /\ Cloning = {} /\ Due = {}
  /\ pass' = 0
  /\ UNCHANGED <<health, counters, cloneAge, warm, evidence>>

Recloned(w) ==
  /\ w \in Cloning
  /\ health' = [health EXCEPT ![w] = "healthy"]
  /\ ResetStrikes(w)
  /\ evidence' = [evidence EXCEPT ![w] = NoEvidence]
  /\ UNCHANGED <<cloneAge, warm, pass>>

RecloneFailed(w) ==
  /\ w \in Cloning
  /\ health' = [health EXCEPT ![w] = "quarantined"]
  /\ UNCHANGED <<counters, cloneAge, warm, pass, evidence>>

-----------------------------------------------------------------------------
(* Time *)

WarmedUp == /\ warm
            /\ warm' = FALSE
            /\ UNCHANGED <<health, counters, cloneAge, pass, evidence>>

Older(age, limit) == IF age < limit THEN age + 1 ELSE age

\* The reaper sleeps a minute and a reclone takes a few: it asks again in time.
Tick ==
  /\ pass < MaxPass
  /\ pass' = pass + 1
  /\ strikeAge' = [w \in Terminals |-> IF strikes[w] > 0 THEN Older(strikeAge[w], SoftSpan) ELSE strikeAge[w]]
  /\ cloneAge' = [w \in Terminals |-> Older(cloneAge[w], Interval)]
  /\ evidence' = [w \in Terminals |->
       IF evidence[w].strikes > 0 THEN [evidence[w] EXCEPT !.age = Older(@, SoftSpan)] ELSE evidence[w]]
  /\ UNCHANGED <<health, strikes, hardStrikes, failedServers, warm>>

-----------------------------------------------------------------------------
Next ==
  \/ \E w \in Terminals, server \in Servers, r \in Reports : Record(w, server, r)
  \/ \E w \in Terminals : StartReclone(w) \/ Recloned(w) \/ RecloneFailed(w)
  \/ NothingDue \/ WarmedUp \/ Tick

Spec == Init /\ [][Next]_vars

\* The reaper comes round, a reclone ends, and time passes.
Fairness ==
  /\ WF_vars(Tick) /\ WF_vars(NothingDue)
  /\ \A w \in Terminals : WF_vars(StartReclone(w)) /\ WF_vars(Recloned(w) \/ RecloneFailed(w))

FairSpec == Spec /\ Fairness

-----------------------------------------------------------------------------
(* Properties *)

\* Every variable keeps the range the code gives it.
TypeOK ==
  /\ health \in [Terminals -> Lifecycle!TerminalState]
  /\ strikes \in [Terminals -> Nat] /\ hardStrikes \in [Terminals -> Nat]
  /\ failedServers \in [Terminals -> SUBSET Servers]
  /\ strikeAge \in [Terminals -> 0..SoftSpan] /\ cloneAge \in [Terminals -> 0..Interval]
  /\ warm \in BOOLEAN /\ pass \in 0..MaxPass

\* A usable terminal is suspect exactly while its strikes say so, and none whose
\* starts died often enough is still usable, whatever forgave or reset a strike.
StateMatchesStrikes ==
  \A w \in Terminals :
    /\ Usable(w) => (health[w] = "suspect" <=> strikes[w] >= SuspectStrikes)
    /\ Usable(w) => ~(strikes[w] >= QuarantineStrikes /\ hardStrikes[w] >= QuarantineHardStrikes)
    /\ hardStrikes[w] <= strikes[w]

\* A strike worsens a terminal by one degree, a good start lifts a suspicion,
\* and only a reclone ends a quarantine.
FollowsLifecycle == Lifecycle!Spec

\* "Three strikes with two of them hard, or five soft ones spread over at least
\* two servers and fifteen minutes" (README): a terminal is quarantined only on
\* failed starts made since its last good one.
QuarantineIsEarned ==
  [][\A w \in Terminals : Usable(w) /\ health'[w] = "quarantined" =>
       LET e == evidence'[w] IN
         \/ e.strikes >= QuarantineStrikes /\ e.hard >= QuarantineHardStrikes
         \/ e.strikes >= SoftStrikes /\ Cardinality(e.servers) >= SoftServers /\ e.age >= SoftSpan]_vars

\* Every quarantined terminal gets its turn, however often the reclone of
\* another one fails.
RecloneComes == \A w \in Terminals : health[w] = "quarantined" ~> health[w] = "recloning"
=============================================================================
