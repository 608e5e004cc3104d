-------------------------------- MODULE Clock --------------------------------
(***************************************************************************)
(* What offset from UTC a broker's clock had when: the weekends a scan of   *)
(* hourly bars reads it at, the steps it makes of them, the tick that pins  *)
(* the current week (clock.py); the cache of the worker (fetch_clock) and   *)
(* the clock the account keeps and every *Utc is computed with.             *)
(*                                                                         *)
(* Times and offsets are in half hours, the unit a reading is rounded to.   *)
(* The market's weeks are all alike; what a broker does and which weekends  *)
(* begin early is the timeline, chosen at first; the last weeks are lived.  *)
(***************************************************************************)
EXTENDS Integers, Sequences, FiniteSets, FiniteSetsExt

CONSTANTS Weeks,      \* bound: the weeks of the timeline
          Begins,     \* the week the account is first synced in
          Offsets,    \* the broker's offset at first
          Window      \* how many weeks back the bars of a scan reach

MinWeekends   == 3    \* _MIN_WEEKENDS
Confirmations == 2    \* _CONFIRMATIONS
MaxSwitch     == 2    \* _MAX_SWITCH_MINUTES
MaxOffset     == 28   \* _MAX_OFFSET_MINUTES
Hour          == 2

\* No reading, of a switched clock and an early end too, is beyond the largest offset.
ASSUME ClockAssumption ==
  /\ Weeks \in Nat /\ Begins \in 1..Weeks /\ Window \in Nat
  /\ Offsets \subseteq (2 * Hour - MaxOffset)..(MaxOffset - Hour)

VARIABLES
  timeline,  \* per week: the broker's offset, and how the weekend after it begins
  week, phase,
  cache,     \* _clock_cache of the account's server: the clock and where it comes from
  fresh,     \* its time to live is not over
  missed,    \* that of _clock_misses is not over
  stored     \* MT5Account.server_clock, and history: when and from what

market == <<week, phase>>
clockVars == <<timeline, market, cache, fresh, missed, stored>>

NoClock == [steps |-> <<>>, scanned |-> FALSE, week |-> 0, phase |-> "none", tick |-> "none"]

-----------------------------------------------------------------------------
(* The market and the broker *)

Opens(j) == 336 * j
Closes(j) == Opens(j) + 240

Offset(j) == timeline[j].offset

\* The labels the broker gives a week's first and last moment.
Labels(j) == {Opens(j) + Offset(j), Closes(j) + Offset(j)}

\* A reading can only come in low; a Friday that is off leaves no reading.
\* Early ones come alone or as two ("Christmas and New Year"), never three in four weeks.
ClockInit ==
  /\ \E base \in Offsets, switch \in 2..(Weeks + 1), by \in {-Hour, Hour},
        early \in SUBSET (1..(Begins - 1)), off \in 0..(Begins - 1) :
       /\ \A j \in 1..(Begins - 1) : Cardinality(early \cap (j..(j + 3))) <= 2
       /\ off \notin early
       /\ timeline = [j \in 1..Weeks |->
            [offset |-> IF j < switch THEN base ELSE base + by,
             end |-> IF j = off THEN "off" ELSE IF j \in early THEN "early" ELSE "full"]]
  /\ week = Begins /\ phase = "open"
  /\ cache = NoClock /\ fresh = FALSE /\ missed = FALSE
  /\ stored = [clock |-> NoClock, week |-> 0, phase |-> "none", stale |-> FALSE]

-----------------------------------------------------------------------------
(* _weekends, _steps, offset_at *)

Weekend(j) == [opens  |-> Opens(j + 1) + Offset(j + 1),
               offset |-> Offset(j) - IF timeline[j].end = "early" THEN Hour ELSE 0]

\* The end of a week shows as a gap when a bar follows it.
ReadEnd(weeks, j) == IF timeline[j].end = "off" THEN weeks ELSE Append(weeks, j)

\* The weeks whose end shows, of the n from one on.
WeeksRead(from, n) ==
  LET read[i \in 0..n] == IF i = 0 THEN <<>> ELSE ReadEnd(read[i - 1], from + i - 1)
  IN read[n]

\* The weekends between the bars of the weeks from..to.
Weekends(from, to) ==
  LET read == WeeksRead(from, to - from) IN [i \in DOMAIN read |-> Weekend(read[i])]

\* Mutant: one weekend is enough to confirm another.
ConfirmedOnce(weekends, i) ==
  i < Len(weekends) /\ weekends[i + 1].offset = weekends[i].offset

Confirmed(weekends, i) ==
  /\ i + Confirmations <= Len(weekends)
  /\ \A j \in 1..Confirmations : weekends[i + j].offset = weekends[i].offset

Differs(a, b) == a # b /\ a - b \in (-MaxSwitch)..MaxSwitch

\* Mutant: a step begins with the weekend that shows it.
StepLate(from, weekends, steps, i) ==
  IF ~Confirmed(weekends, i) THEN steps
  ELSE IF steps = <<>> THEN <<[at |-> from, offset |-> weekends[i].offset]>>
  ELSE IF Differs(weekends[i].offset, steps[Len(steps)].offset)
       THEN Append(steps, [at |-> weekends[i].opens, offset |-> weekends[i].offset])
       ELSE steps

\* A step begins with the week whose end first shows it.
Step(from, weekends, steps, i) ==
  IF ~Confirmed(weekends, i) THEN steps
  ELSE IF steps = <<>> THEN <<[at |-> from, offset |-> weekends[i].offset]>>
  ELSE IF Differs(weekends[i].offset, steps[Len(steps)].offset)
       THEN Append(steps, [at |-> weekends[i - 1].opens, offset |-> weekends[i].offset])
       ELSE steps

\* The steps after each of the weekends.
StepsMade(from, weekends) ==
  LET made[i \in 0..Len(weekends)] ==
        IF i = 0 THEN <<>> ELSE Step(from, weekends, made[i - 1], i)
  IN made

Steps(from, weekends) == StepsMade(from, weekends)[Len(weekends)]

Unknown == MaxOffset + 1

\* The last of the steps that has begun.
OffsetAt(steps, label) ==
  LET begun == {i \in DOMAIN steps : steps[i].at <= label} IN
  IF begun = {} THEN Unknown ELSE steps[Max(begun)].offset

-----------------------------------------------------------------------------
(* measure_server_clock *)

Scan ==
  LET from == IF week > Window THEN week - Window ELSE 1
      weekends == Weekends(from, week)
  IN IF Len(weekends) < MinWeekends THEN <<>> ELSE Steps(Opens(from) + Offset(from), weekends)

\* The broker's clock now: it may have moved on the weekend already.
Current == IF phase = "moved" THEN Offset(week + 1) ELSE Offset(week)

\* Nothing is quoted when the market is shut but what is traded always; a symbol
\* that rests within the week has an old quote.
Ticks == {"none", "current"} \cup IF phase = "open" THEN {"old"} ELSE {}

\* Rounded to the hour, ties to the even one.
Live(tick) ==
  LET minutes == Current - IF tick = "old" THEN Hour ELSE 0 IN
  IF minutes % 2 = 0 THEN minutes
  ELSE IF (minutes - 1) % 4 = 0 THEN minutes - 1 ELSE minutes + 1

\* _current_weekfrom_epoch: when the market is shut, of the week that is over.
Pin(tick) == [at |-> Opens(week) + Live(tick), offset |-> Live(tick)]

\* No scan when no symbol has bars enough in time.
Measure(scans, tick) ==
  LET steps == IF scans THEN Scan ELSE <<>> IN
  [steps |-> IF tick = "none" \/ (steps # <<>> /\ steps[Len(steps)].offset = Live(tick))
             THEN steps ELSE Append(steps, Pin(tick)),
   scanned |-> steps # <<>>, week |-> week, phase |-> phase, tick |-> tick]

-----------------------------------------------------------------------------
(* fetch_clock, and mark_synced, which keeps the old clock when there is none *)

Store(clock, stale) ==
  stored' = IF clock = NoClock THEN stored ELSE [clock |-> clock, week |-> week, phase |-> phase, stale |-> stale]

\* Mutant: a clock is reused for ever.
ReusedForEver == cache # NoClock

Reused == cache # NoClock /\ fresh

Reuse ==
  /\ Reused
  /\ Store(cache, FALSE)
  /\ UNCHANGED <<timeline, market, cache, fresh, missed>>

\* After a miss nothing is measured for hours, and an old clock goes on.
ReuseMiss ==
  /\ ~Reused /\ missed
  /\ Store(cache, TRUE)
  /\ UNCHANGED <<timeline, market, cache, fresh, missed>>

MeasureNow ==
  /\ ~Reused /\ ~missed
  /\ \E scans \in BOOLEAN, tick \in Ticks :
       LET clock == Measure(scans, tick) IN
       IF clock.steps # <<>>
       THEN /\ cache' = clock /\ fresh' = TRUE /\ missed' = FALSE
            /\ Store(clock, FALSE)
       ELSE /\ missed' = TRUE
            /\ Store(cache, TRUE)
            /\ UNCHANGED <<cache, fresh>>
  /\ UNCHANGED <<timeline, market>>

Sync == Reuse \/ ReuseMiss \/ MeasureNow

-----------------------------------------------------------------------------
(* Time: what was measured before the weekend is too old after it *)

Expire == /\ fresh /\ fresh' = FALSE
          /\ UNCHANGED <<timeline, market, cache, missed, stored>>

MissOver == /\ missed /\ missed' = FALSE
            /\ UNCHANGED <<timeline, market, cache, fresh, stored>>

\* Bound: time goes on where no weekend is special.
MarketCloses == /\ \A j \in 1..Weeks : timeline[j].end = "full"
                /\ phase = "open" /\ phase' = "shut"
                /\ UNCHANGED <<timeline, week, cache, fresh, missed, stored>>

ClockMoves == /\ phase = "shut" /\ week < Weeks
              /\ phase' = "moved"
              /\ UNCHANGED <<timeline, week, cache, fresh, missed, stored>>

MarketOpens == /\ phase = "moved"
               /\ phase' = "open" /\ week' = week + 1
               /\ fresh' = (fresh /\ cache.phase # "open")
               /\ UNCHANGED <<timeline, cache, missed, stored>>

ClockNext == Sync \/ Expire \/ MissOver \/ MarketCloses \/ ClockMoves \/ MarketOpens

ClockSpec == ClockInit /\ [][ClockNext]_clockVars

-----------------------------------------------------------------------------
(* Properties *)

Told(j) == {OffsetAt(stored.clock.steps, label) : label \in Labels(j)} \ {Unknown}

Right(j) == Told(j) \subseteq {Offset(j)}

\* "Two rules separate a switch from a holiday" (README:652): whatever weekends begin
\* early or are missing, alone or two in a row, none is taken for a switch: where the
\* broker's clock has not moved in all the scan, no label is told wrong.
NoFalseSwitch ==
  LET scan == {j \in 1..stored.clock.week : j >= stored.clock.week - Window} IN
  stored.clock.scanned /\ (\A j, k \in scan : Offset(j) = Offset(k))
    => \A j \in scan \ {stored.clock.week} : Right(j)

\* "A timestamp is then converted with the offset that was in force when it was
\* stamped" (README:644): when the end of a week and the next two read the same and
\* rightly, its labels are known and exact, whatever the rest of the scan is like.
AgreedWeeksAreTrue ==
  stored.clock.scanned =>
    \A j \in 1..(stored.clock.week - 3) :
      /\ stored.clock.week - Window <= j
      /\ \A k \in j..(j + 2) : timeline[k].end = "full" /\ Offset(k) = Offset(j)
      => Told(j) = {Offset(j)}

\* "The live tick owns now" (README:586), through caches, misses and the weekend: a
\* sync of the open market tells its week right, unless the clock could not be
\* measured, or only since the close, or without a quote of the moment.
ThisWeekIsTrue ==
  stored.phase = "open" /\ stored.week = week /\ Offset(week) % Hour = 0 =>
    \/ Told(week) = {Offset(week)}
    \/ stored.stale \/ stored.clock.phase # "open" \/ stored.clock.tick # "current"
=============================================================================
