-------------------------- MODULE HealthBoardProofs --------------------------
(***************************************************************************)
(* HealthBoard keeps the promise of TerminalLifecycle for any terminals,   *)
(* servers and reports and any thresholds of which suspicion is the lowest. *)
(***************************************************************************)
EXTENDS HealthBoard, TLAPS

USE BoardAssumption

\* A usable terminal is suspect exactly from SuspectStrikes strikes on: so the
\* strike that condemns finds it suspect, one degree from quarantine.
BoardInv == TypeOK /\ StateMatchesStrikes

\* At the start nobody has a strike.
LEMMA BoardInit == Init => BoardInv
<1> SUFFICES ASSUME Init PROVE BoardInv
  OBVIOUS
<1>1. TypeOK
  BY DEF Init, TypeOK, Lifecycle!Init, Lifecycle!TerminalState
<1>2. StateMatchesStrikes
  BY DEF Init, StateMatchesStrikes, Lifecycle!Init
<1> QED
  BY <1>1, <1>2 DEF BoardInv

\* What ResetStrikes leaves.
LEMMA ResetFacts ==
  ASSUME TypeOK, NEW w \in Terminals, ResetStrikes(w)
  PROVE  /\ strikes' = [v \in Terminals |-> IF v = w THEN 0 ELSE strikes[v]]
         /\ hardStrikes' = [v \in Terminals |-> IF v = w THEN 0 ELSE hardStrikes[v]]
         /\ failedServers' \in [Terminals -> SUBSET Servers]
         /\ strikeAge' \in [Terminals -> 0..SoftSpan]
<1>1. strikeAge \in [Terminals -> 0..SoftSpan] /\ failedServers \in [Terminals -> SUBSET Servers]
  BY DEF TypeOK
<1>2. 0 \in 0..SoftSpan
  OBVIOUS
<1>3. strikeAge' \in [Terminals -> 0..SoftSpan]
  BY <1>1, <1>2 DEF ResetStrikes
<1>4. failedServers' \in [Terminals -> SUBSET Servers]
  BY <1>1 DEF ResetStrikes
<1> QED
  BY <1>3, <1>4 DEF ResetStrikes, TypeOK

\* A good start.
LEMMA GoodStartStep ==
  ASSUME BoardInv, NEW w \in Terminals, NEW r, GoodStart(w, r), UNCHANGED <<cloneAge, warm, pass>>
  PROVE  BoardInv' /\ Lifecycle!Success(w)
<1>1. TypeOK /\ StateMatchesStrikes
  BY DEF BoardInv
<1>2. health' = [v \in Terminals |-> IF v = w /\ health[w] = "suspect" THEN "healthy" ELSE health[v]]
  BY <1>1 DEF GoodStart, TypeOK
<1>3. TypeOK'
  BY <1>1, <1>2, ResetFacts DEF GoodStart, TypeOK, Lifecycle!TerminalState
<1>4. StateMatchesStrikes'
  BY <1>1, <1>2, ResetFacts
     DEF GoodStart, StateMatchesStrikes, Usable, Lifecycle!UsableState, TypeOK, Lifecycle!TerminalState
<1>5. Lifecycle!Success(w)
  BY DEF GoodStart, Lifecycle!Success, Lifecycle!AfterSuccess
<1> QED
  BY <1>3, <1>4, <1>5 DEF BoardInv

\* A strike: condemnation needs more strikes than suspicion does.
LEMMA StruckStep ==
  ASSUME BoardInv, NEW w \in Terminals, NEW server \in Servers, NEW r, Struck(w, server, r),
         UNCHANGED <<cloneAge, warm, pass>>
  PROVE  BoardInv' /\ Lifecycle!Strike(w)
<1>1. TypeOK /\ StateMatchesStrikes
  BY DEF BoardInv
<1>2. /\ strikes' = [v \in Terminals |-> IF v = w THEN strikes[w] + 1 ELSE strikes[v]]
      /\ hardStrikes' = [v \in Terminals |->
           IF v = w THEN IF Hard(r) THEN hardStrikes[w] + 1 ELSE hardStrikes[w] ELSE hardStrikes[v]]
      /\ failedServers' \in [Terminals -> SUBSET Servers]
      /\ strikeAge' \in [Terminals -> 0..SoftSpan]
  BY <1>1 DEF Struck, TypeOK
<1> DEFINE after == IF Condemned(w)' THEN "quarantined"
                    ELSE IF strikes'[w] >= SuspectStrikes THEN "suspect" ELSE health[w]
<1>3. health' = [v \in Terminals |-> IF v = w THEN after ELSE health[v]]
  BY <1>1 DEF Struck, TypeOK
<1>4. Condemned(w)' => strikes'[w] > SuspectStrikes
  BY <1>1, <1>2 DEF Condemned, TypeOK
<1>5. health[w] \in {"healthy", "suspect"} /\ (health[w] = "suspect" <=> strikes[w] >= SuspectStrikes)
  BY <1>1 DEF Struck, Usable, Lifecycle!UsableState, StateMatchesStrikes
<1>6. after \in Lifecycle!AfterStrike(health[w])
  BY <1>1, <1>2, <1>4, <1>5 DEF Lifecycle!AfterStrike, TypeOK
<1>7. Lifecycle!Strike(w)
  <2>1. health' = [health EXCEPT ![w] = after]
    BY DEF Struck
  <2> QED
    BY <1>6, <2>1 DEF Lifecycle!Strike
<1>8. TypeOK'
  <2>1. after \in Lifecycle!TerminalState
    BY <1>5 DEF Lifecycle!TerminalState
  <2>2. health' \in [Terminals -> Lifecycle!TerminalState]
    BY <1>1, <1>3, <2>1 DEF TypeOK
  <2>3. strikes' \in [Terminals -> Nat] /\ hardStrikes' \in [Terminals -> Nat]
    BY <1>1, <1>2 DEF TypeOK
  <2> QED
    BY <1>1, <1>2, <2>2, <2>3 DEF TypeOK
<1>9. after \in {"healthy", "suspect"} => (after = "suspect" <=> strikes'[w] >= SuspectStrikes)
  BY <1>1, <1>2, <1>5 DEF TypeOK
<1>10. StateMatchesStrikes'
  <2>1. ASSUME NEW v \in Terminals PROVE hardStrikes'[v] <= strikes'[v]
    BY <1>1, <1>2 DEF StateMatchesStrikes, TypeOK
  <2>2. ASSUME NEW v \in Terminals, Usable(v)'
        PROVE  health'[v] = "suspect" <=> strikes'[v] >= SuspectStrikes
    <3>1. CASE v = w
      BY <1>3, <1>9, <2>2, <3>1 DEF Usable, Lifecycle!UsableState
    <3>2. CASE v # w
      BY <1>1, <1>2, <1>3, <2>2, <3>2 DEF StateMatchesStrikes, Usable
    <3> QED
      BY <3>1, <3>2
  <2>3. ASSUME NEW v \in Terminals, Usable(v)'
        PROVE  ~(strikes'[v] >= QuarantineStrikes /\ hardStrikes'[v] >= QuarantineHardStrikes)
    <3>1. CASE v = w
      <4>1. ~Condemned(w)'
        BY <1>3, <2>3, <3>1 DEF Usable, Lifecycle!UsableState
      <4> QED
        BY <3>1, <4>1 DEF Condemned
    <3>2. CASE v # w
      BY <1>1, <1>2, <1>3, <2>3, <3>2 DEF StateMatchesStrikes, Usable
    <3> QED
      BY <3>1, <3>2
  <2> QED
    BY <2>1, <2>2, <2>3 DEF StateMatchesStrikes
<1> QED
  BY <1>7, <1>8, <1>10 DEF BoardInv

\* Every step keeps the invariant and is a step of TerminalLifecycle, or none.
LEMMA BoardStep == BoardInv /\ [Next]_vars => BoardInv' /\ [Lifecycle!Next]_health
<1> SUFFICES ASSUME BoardInv, [Next]_vars PROVE BoardInv' /\ [Lifecycle!Next]_health
  OBVIOUS
<1> USE DEF vars, counters
<1>1. TypeOK /\ StateMatchesStrikes
  BY DEF BoardInv
<1>2. ASSUME NEW w \in Terminals, NEW server \in Servers, NEW r \in Reports, Record(w, server, r)
      PROVE  BoardInv' /\ [Lifecycle!Next]_health
  <2>1. CASE GoodStart(w, r)
    BY <1>2, <2>1, GoodStartStep DEF Record, Lifecycle!Next
  <2>2. CASE Struck(w, server, r)
    BY <1>2, <2>2, StruckStep DEF Record, Lifecycle!Next
  <2>3. CASE NotCounted(w, r)
    BY <1>1, <1>2, <2>3 DEF Record, NotCounted, BoardInv, TypeOK, StateMatchesStrikes, Usable
  <2> QED
    BY <1>2, <2>1, <2>2, <2>3 DEF Record
<1>3. ASSUME NEW w \in Terminals, StartReclone(w) PROVE BoardInv' /\ [Lifecycle!Next]_health
  <2>1. health[w] = "quarantined"
    BY <1>3 DEF StartReclone, Due
  <2>2. Lifecycle!StartReclone(w)
    BY <1>3, <2>1 DEF StartReclone, Lifecycle!StartReclone
  <2>3. TypeOK'
    BY <1>1, <1>3 DEF StartReclone, TypeOK, Lifecycle!TerminalState
  <2>4. StateMatchesStrikes'
    BY <1>1, <1>3 DEF StartReclone, StateMatchesStrikes, Usable, Lifecycle!UsableState, TypeOK
  <2> QED
    BY <2>2, <2>3, <2>4 DEF BoardInv, Lifecycle!Next
<1>4. ASSUME NEW w \in Terminals, Recloned(w) PROVE BoardInv' /\ [Lifecycle!Next]_health
  <2>1. health[w] = "recloning" /\ ResetStrikes(w)
    BY <1>4 DEF Recloned, Cloning
  <2>2. Lifecycle!EndReclone(w)
    BY <1>4, <2>1 DEF Recloned, Lifecycle!EndReclone
  <2>3. TypeOK'
    BY <1>1, <1>4, <2>1, ResetFacts DEF Recloned, TypeOK, Lifecycle!TerminalState
  <2>4. StateMatchesStrikes'
    BY <1>1, <1>4, <2>1, ResetFacts
       DEF Recloned, StateMatchesStrikes, Usable, Lifecycle!UsableState, TypeOK
  <2> QED
    BY <2>2, <2>3, <2>4 DEF BoardInv, Lifecycle!Next
<1>5. ASSUME NEW w \in Terminals, RecloneFailed(w) PROVE BoardInv' /\ [Lifecycle!Next]_health
  <2>1. health[w] = "recloning"
    BY <1>5 DEF RecloneFailed, Cloning
  <2>2. Lifecycle!EndReclone(w)
    BY <1>5, <2>1 DEF RecloneFailed, Lifecycle!EndReclone
  <2>3. TypeOK'
    BY <1>1, <1>5 DEF RecloneFailed, TypeOK, Lifecycle!TerminalState
  <2>4. StateMatchesStrikes'
    BY <1>1, <1>5 DEF RecloneFailed, StateMatchesStrikes, Usable, Lifecycle!UsableState, TypeOK
  <2> QED
    BY <2>2, <2>3, <2>4 DEF BoardInv, Lifecycle!Next
<1>6. CASE Tick
  <2>1. strikeAge' \in [Terminals -> 0..SoftSpan] /\ cloneAge' \in [Terminals -> 0..Interval]
    BY <1>1, <1>6 DEF Tick, Older, TypeOK
  <2>2. pass' \in 0..MaxPass
    BY <1>1, <1>6 DEF Tick, TypeOK
  <2>3. UNCHANGED <<health, strikes, hardStrikes, failedServers, warm>>
    BY <1>6 DEF Tick
  <2>4. TypeOK'
    BY <1>1, <2>1, <2>2, <2>3 DEF TypeOK
  <2>5. StateMatchesStrikes'
    BY <1>1, <2>3 DEF StateMatchesStrikes, Usable
  <2> QED
    BY <2>3, <2>4, <2>5 DEF BoardInv
<1>7. CASE NothingDue \/ WarmedUp
  <2>1. /\ UNCHANGED <<health, strikes, hardStrikes, failedServers, strikeAge, cloneAge>>
        /\ pass' \in 0..MaxPass
    BY <1>1, <1>7 DEF NothingDue, WarmedUp, TypeOK
  <2>2. warm' \in BOOLEAN
    BY <1>1, <1>7 DEF NothingDue, WarmedUp, TypeOK
  <2>3. TypeOK'
    BY <1>1, <2>1, <2>2 DEF TypeOK
  <2>4. StateMatchesStrikes'
    BY <1>1, <2>1 DEF StateMatchesStrikes, Usable
  <2> QED
    BY <2>1, <2>3, <2>4 DEF BoardInv
<1>8. CASE UNCHANGED vars
  BY <1>1, <1>8 DEF BoardInv, TypeOK, StateMatchesStrikes, Usable
<1> QED
  BY <1>2, <1>3, <1>4, <1>5, <1>6, <1>7, <1>8 DEF Next

\* Every variable of the board keeps the range the code gives it.
THEOREM BoardTypeCorrect == Spec => []TypeOK
<1>1. BoardInv => TypeOK
  BY DEF BoardInv
<1> QED
  BY <1>1, BoardInit, BoardStep, PTL DEF Spec

\* A usable terminal is suspect exactly while it has SuspectStrikes strikes, so
\* record() never leaves a state that its own counters contradict.
THEOREM StateFollowsStrikes == Spec => []StateMatchesStrikes
<1>1. BoardInv => StateMatchesStrikes
  BY DEF BoardInv
<1> QED
  BY <1>1, BoardInit, BoardStep, PTL DEF Spec

\* The health board implements TerminalLifecycle: record() worsens a terminal by
\* one degree, and nothing but a reclone brings a quarantined one back.
THEOREM BoardFollowsLifecycle == Spec => FollowsLifecycle
<1>1. Init => Lifecycle!Init
  BY DEF Init
<1> QED
  BY <1>1, BoardInit, BoardStep, PTL DEF Spec, FollowsLifecycle, Lifecycle!Spec

-----------------------------------------------------------------------------
(* The evidence of a quarantine *)

\* What the counters of a terminal say.
Count(w) == [strikes |-> strikes[w], hard |-> hardStrikes[w], servers |-> failedServers[w], age |-> strikeAge[w]]

\* The counters hold the failed starts since the last good one, no more and no
\* less: nothing else forgives a strike, and nothing carries one over a good start.
CountersAreEvidence ==
  /\ DOMAIN evidence = Terminals
  /\ \A w \in Terminals : evidence[w] = Count(w)

\* A step changes the counters and the evidence of one terminal alike.
LEMMA EvidenceOfOne ==
  ASSUME CountersAreEvidence, NEW w \in Terminals, NEW e, evidence' = [evidence EXCEPT ![w] = e],
         Count(w)' = e, \A v \in Terminals \ {w} : Count(v)' = Count(v)
  PROVE  CountersAreEvidence'
<1>1. DOMAIN evidence' = Terminals /\ evidence'[w] = e /\ \A v \in Terminals \ {w} : evidence'[v] = evidence[v]
  BY DEF CountersAreEvidence
<1>2. ASSUME NEW v \in Terminals PROVE evidence'[v] = Count(v)'
  <2>1. CASE v = w
    BY <1>1, <2>1
  <2>2. CASE v # w
    BY <1>1, <2>2 DEF CountersAreEvidence
  <2> QED BY <2>1, <2>2
<1> QED BY <1>1, <1>2 DEF CountersAreEvidence

\* A good start, or a reclone, forgets both.
LEMMA ForgetBoth ==
  ASSUME TypeOK, CountersAreEvidence, NEW w \in Terminals, ResetStrikes(w),
         evidence' = [evidence EXCEPT ![w] = NoEvidence]
  PROVE  CountersAreEvidence'
<1>1. Count(w)' = NoEvidence
  BY DEF TypeOK, ResetStrikes, Count, NoEvidence
<1>2. \A v \in Terminals \ {w} : Count(v)' = Count(v)
  BY DEF TypeOK, ResetStrikes, Count
<1> QED BY <1>1, <1>2, EvidenceOfOne

\* A strike is counted in both.
LEMMA CountBoth ==
  ASSUME TypeOK, CountersAreEvidence, NEW w \in Terminals, NEW server, NEW r, Struck(w, server, r)
  PROVE  CountersAreEvidence'
<1> DEFINE old == evidence[w]
           new == [strikes |-> old.strikes + 1, hard |-> IF Hard(r) THEN old.hard + 1 ELSE old.hard,
                   servers |-> old.servers \cup {server}, age |-> old.age]
<1>1. evidence' = [evidence EXCEPT ![w] = new]
  BY DEF Struck
<1>2. old = Count(w)
  BY DEF CountersAreEvidence
<1>3. new = [strikes |-> strikes[w] + 1, hard |-> IF Hard(r) THEN hardStrikes[w] + 1 ELSE hardStrikes[w],
             servers |-> failedServers[w] \cup {server}, age |-> strikeAge[w]]
  BY <1>2 DEF Count
<1> HIDE DEF new
<1>4. /\ strikes'[w] = strikes[w] + 1
      /\ hardStrikes'[w] = (IF Hard(r) THEN hardStrikes[w] + 1 ELSE hardStrikes[w])
      /\ failedServers'[w] = failedServers[w] \cup {server}
      /\ strikeAge'[w] = strikeAge[w]
  BY DEF Struck, TypeOK
<1>5. Count(w)' = new
  BY <1>3, <1>4 DEF Count
<1>6. \A v \in Terminals \ {w} : Count(v)' = Count(v)
  BY DEF Struck, TypeOK, Count
<1> QED BY <1>1, <1>5, <1>6, EvidenceOfOne

\* Both age alike, and only from the first strike on.
LEMMA AgeBoth == TypeOK /\ CountersAreEvidence /\ Tick => CountersAreEvidence'
<1> SUFFICES ASSUME TypeOK, CountersAreEvidence, Tick PROVE CountersAreEvidence'
  OBVIOUS
<1>1. DOMAIN evidence' = Terminals
  BY DEF Tick
<1>2. ASSUME NEW w \in Terminals PROVE evidence'[w] = Count(w)'
  <2>1. evidence[w] = Count(w) /\ evidence[w].strikes = strikes[w] /\ evidence[w].age = strikeAge[w]
    BY DEF CountersAreEvidence, Count
  <2>2. /\ strikes'[w] = strikes[w] /\ hardStrikes'[w] = hardStrikes[w] /\ failedServers'[w] = failedServers[w]
        /\ strikeAge'[w] = IF strikes[w] > 0 THEN Older(strikeAge[w], SoftSpan) ELSE strikeAge[w]
    BY DEF Tick
  <2>3. evidence'[w] = IF strikes[w] > 0 THEN [evidence[w] EXCEPT !.age = Older(strikeAge[w], SoftSpan)] ELSE evidence[w]
    BY <2>1 DEF Tick
  <2>4. [Count(w) EXCEPT !.age = Older(strikeAge[w], SoftSpan)]
          = [strikes |-> strikes[w], hard |-> hardStrikes[w], servers |-> failedServers[w], age |-> Older(strikeAge[w], SoftSpan)]
    BY DEF Count
  <2>5. CASE strikes[w] > 0
    BY <2>1, <2>2, <2>3, <2>4, <2>5 DEF Count
  <2>6. CASE ~(strikes[w] > 0)
    BY <2>1, <2>2, <2>3, <2>6 DEF Count
  <2> QED BY <2>5, <2>6
<1> QED BY <1>1, <1>2 DEF CountersAreEvidence

\* Every step keeps the counters and the evidence the same.
LEMMA EvidenceStep == TypeOK /\ CountersAreEvidence /\ [Next]_vars => CountersAreEvidence'
<1> SUFFICES ASSUME TypeOK, CountersAreEvidence, [Next]_vars PROVE CountersAreEvidence'
  OBVIOUS
<1>1. ASSUME UNCHANGED <<counters, evidence>> PROVE CountersAreEvidence'
  BY <1>1 DEF CountersAreEvidence, Count, counters
<1>2. ASSUME NEW w \in Terminals, NEW server \in Servers, NEW r \in Reports, Record(w, server, r)
      PROVE  CountersAreEvidence'
  BY <1>1, <1>2, ForgetBoth, CountBoth DEF Record, GoodStart, NotCounted
<1>3. ASSUME NEW w \in Terminals, StartReclone(w) \/ Recloned(w) \/ RecloneFailed(w) PROVE CountersAreEvidence'
  BY <1>1, <1>3, ForgetBoth DEF StartReclone, Recloned, RecloneFailed
<1>4. CASE NothingDue \/ WarmedUp \/ UNCHANGED vars
  BY <1>1, <1>4 DEF NothingDue, WarmedUp, vars
<1> QED BY <1>2, <1>3, <1>4, AgeBoth DEF Next

\* A terminal that leaves the usable ones was condemned, on counters that are its evidence.
LEMMA CondemnedByEvidence ==
  ASSUME BoardInv, CountersAreEvidence, [Next]_vars, CountersAreEvidence', NEW w \in Terminals,
         Usable(w), health'[w] = "quarantined"
  PROVE  LET e == evidence'[w] IN
           \/ e.strikes >= QuarantineStrikes /\ e.hard >= QuarantineHardStrikes
           \/ e.strikes >= SoftStrikes /\ Cardinality(e.servers) >= SoftServers /\ e.age >= SoftSpan
<1>0. TypeOK /\ health[w] \in {"healthy", "suspect"}
  BY DEF BoardInv, Usable, Lifecycle!UsableState
<1>1. Condemned(w)'
  <2>1. ASSUME NEW v \in Terminals, NEW server \in Servers, NEW r \in Reports, Record(v, server, r)
        PROVE  Condemned(w)'
    <3>1. CASE GoodStart(v, r)
      BY <1>0, <3>1 DEF GoodStart, TypeOK
    <3>2. CASE NotCounted(v, r)
      BY <1>0, <3>2 DEF NotCounted
    <3>3. CASE Struck(v, server, r)
      BY <1>0, <3>3 DEF Struck, TypeOK
    <3> QED BY <2>1, <3>1, <3>2, <3>3 DEF Record
  <2>2. ASSUME NEW v \in Terminals, StartReclone(v) \/ Recloned(v) \/ RecloneFailed(v) PROVE FALSE
    <3>1. health[v] \in {"quarantined", "recloning"} /\ v # w
      BY <1>0, <2>2 DEF StartReclone, Due, Recloned, RecloneFailed, Cloning
    <3> QED BY <1>0, <2>2, <3>1 DEF StartReclone, Recloned, RecloneFailed, TypeOK
  <2>3. ~(NothingDue \/ WarmedUp \/ Tick \/ UNCHANGED vars)
    BY <1>0 DEF NothingDue, WarmedUp, Tick, vars
  <2> QED BY <2>1, <2>2, <2>3 DEF Next
<1>2. /\ evidence'[w].strikes = strikes'[w] /\ evidence'[w].hard = hardStrikes'[w]
      /\ evidence'[w].servers = failedServers'[w] /\ evidence'[w].age = strikeAge'[w]
  BY DEF CountersAreEvidence, Count
<1> QED BY <1>1, <1>2 DEF Condemned

\* A terminal is quarantined only on failed starts made since its last good one, for any
\* thresholds, whatever reports, reclones and the end of the warm-up come between them.
THEOREM QuarantinesAreEarned == Spec => QuarantineIsEarned
<1>1. Init => CountersAreEvidence
  BY DEF Init, CountersAreEvidence, Count, NoEvidence
<1>2. BoardInv /\ CountersAreEvidence /\ [Next]_vars => CountersAreEvidence'
  BY EvidenceStep DEF BoardInv
<1>3. BoardInv /\ CountersAreEvidence /\ [Next]_vars /\ CountersAreEvidence' =>
        [\A w \in Terminals : Usable(w) /\ health'[w] = "quarantined" =>
           LET e == evidence'[w] IN
             \/ e.strikes >= QuarantineStrikes /\ e.hard >= QuarantineHardStrikes
             \/ e.strikes >= SoftStrikes /\ Cardinality(e.servers) >= SoftServers /\ e.age >= SoftSpan]_vars
  BY CondemnedByEvidence
<1> QED BY <1>1, <1>2, <1>3, BoardInit, BoardStep, PTL DEF Spec, QuarantineIsEarned
=============================================================================
