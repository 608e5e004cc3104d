------------------------------ MODULE StartGate ------------------------------
(***************************************************************************)
(* StartGate (mt5api/terminal.py): the lock that staggers the cold starts of *)
(* the worker processes, and the time since which it is held, both shared   *)
(* memory.  Every access is an action: the processes interleave between the *)
(* lock and the clock, and one may be killed (by the pool or the host)      *)
(* wherever it stands, without giving anything back.                        *)
(*                                                                         *)
(* A waiter waits for the lock Poll ticks, the second of its timeout, from   *)
(* when it came or last looked, and only then looks at the clock: each has   *)
(* its own phase.  Nothing else here takes time but a start.                *)
(***************************************************************************)
EXTENDS Integers

CONSTANTS Workers,
          Nobody,
          Hold,      \* _START_LOCK_HOLD_SECONDS, in ticks
          Poll,      \* the timeout of one acquire of the lock, in ticks
          KilledAt   \* where a process may be killed

Place == {"away", "wait", "locked", "timeout", "late", "start", "cleared", "dead"}

\* _since is 0.0
NoStart == -1

ASSUME GateAssumption ==
  /\ Nobody \notin Workers
  /\ Hold \in Nat \ {0}
  /\ Poll \in Nat \ {0}
  /\ KilledAt \subseteq Place

VARIABLES
  at,         \* where each process is in acquire(), the start or release()
  lock,       \* _lock: the process whose acquire took it
  since,      \* _since, as its age up to Hold + 1
  acquired,   \* what acquire() returned
  due,        \* the ticks until the timeout of each one's acquire of the lock
  lastStart,  \* history: the age of the latest start, up to Hold
  waited      \* history: the ticks each waits since it came and since the latest start

gateVars == <<at, lock, since, acquired, due, lastStart, waited>>
history == <<lastStart, waited>>

GateInit ==
  /\ at = [w \in Workers |-> "away"]
  /\ lock = Nobody
  /\ since = NoStart
  /\ acquired = [w \in Workers |-> FALSE]
  /\ due = [w \in Workers |-> 0]
  /\ lastStart = Hold
  /\ waited = [w \in Workers |-> 0]

Go(w, place) == at' = [at EXCEPT ![w] = place]

Wait(w) == Go(w, "wait") /\ due' = [due EXCEPT ![w] = Poll]

-----------------------------------------------------------------------------
(* acquire() *)

Arrive(w) == /\ at[w] = "away"
             /\ Wait(w)
             /\ waited' = [waited EXCEPT ![w] = 0]
             /\ UNCHANGED <<lock, since, acquired, lastStart>>

Lock(w) == /\ at[w] = "wait" /\ lock = Nobody
           /\ lock' = w
           /\ Go(w, "locked")
           /\ UNCHANGED <<since, acquired, due, history>>

Begin(w, hasLock) == /\ since' = 0
                     /\ Go(w, "start")
                     /\ acquired' = [acquired EXCEPT ![w] = hasLock]
                     /\ lastStart' = 0
                     /\ waited' = [v \in Workers |-> 0]
                     /\ UNCHANGED <<lock, due>>

Stamp(w) == at[w] = "locked" /\ Begin(w, TRUE)

\* Mutant: the waiter trusts the holder to give the lock back.
LookAndWait(w) == /\ at[w] = "timeout"
                  /\ Wait(w)
                  /\ UNCHANGED <<lock, since, acquired, history>>

\* Mutant: the limit is taken for a strict one.
LookLate(w) == /\ at[w] = "timeout"
               /\ IF since > Hold THEN Go(w, "late") /\ UNCHANGED due ELSE Wait(w)
               /\ UNCHANGED <<lock, since, acquired, history>>

\* The lock did not come within the poll: how old is the current start?
Look(w) == /\ at[w] = "timeout"
           /\ IF since >= Hold THEN Go(w, "late") /\ UNCHANGED due ELSE Wait(w)
           /\ UNCHANGED <<lock, since, acquired, history>>

Overtake(w) == at[w] = "late" /\ Begin(w, FALSE)

-----------------------------------------------------------------------------
(* release(), and the end of a process *)

\* Mutant: whoever started gives the lock back.
ClearAnyway(w) ==
  /\ at[w] = "start"
  /\ since' = NoStart
  /\ Go(w, "cleared")
  /\ UNCHANGED <<lock, acquired, due, history>>

Clear(w) ==
  /\ at[w] = "start"
  /\ IF acquired[w] THEN since' = NoStart /\ Go(w, "cleared")
                    ELSE UNCHANGED since /\ Go(w, "away")
  /\ UNCHANGED <<lock, acquired, due, history>>

Unlock(w) == /\ at[w] = "cleared"
             /\ lock' = Nobody
             /\ Go(w, "away")
             /\ UNCHANGED <<since, acquired, due, history>>

Kill(w) == /\ at[w] \in KilledAt
           /\ Go(w, "dead")
           /\ UNCHANGED <<lock, since, acquired, due, history>>

Respawn(w) == /\ at[w] = "dead"
              /\ Go(w, "away")
              /\ UNCHANGED <<lock, since, acquired, due, history>>

-----------------------------------------------------------------------------
(* Time *)

Older(age, limit) == IF age >= 0 /\ age < limit THEN age + 1 ELSE age

\* Everybody does what is due at once before the next tick ends.
Tick ==
  /\ \A w \in Workers : at[w] \in {"away", "wait", "start", "dead"}
  /\ lock = Nobody => \A w \in Workers : at[w] # "wait"
  /\ at' = [w \in Workers |-> IF at[w] = "wait" /\ due[w] = 1 THEN "timeout" ELSE at[w]]
  /\ due' = [w \in Workers |-> IF at[w] = "wait" THEN due[w] - 1 ELSE 0]
  /\ since' = Older(since, Hold + 1)
  /\ lastStart' = Older(lastStart, Hold)
  /\ waited' = [w \in Workers |-> IF at[w] = "wait" THEN Older(waited[w], Hold + Poll) ELSE 0]
  /\ UNCHANGED <<lock, acquired>>

Step(w) == \/ Arrive(w) \/ Lock(w) \/ Stamp(w) \/ Look(w) \/ Overtake(w)
           \/ Clear(w) \/ Unlock(w) \/ Kill(w) \/ Respawn(w)

GateNext == Tick \/ \E w \in Workers : Step(w)

GateSpec == GateInit /\ [][GateNext]_gateVars

\* A process goes on until it waits or starts, and time passes.
GateFairness ==
  /\ WF_gateVars(Tick)
  /\ \A w \in Workers : /\ WF_gateVars(Lock(w)) /\ WF_gateVars(Stamp(w)) /\ WF_gateVars(Look(w))
                        /\ WF_gateVars(Overtake(w)) /\ WF_gateVars(Unlock(w))

FairGateSpec == GateSpec /\ GateFairness

-----------------------------------------------------------------------------
(* Properties *)

\* "Nobody waits on it for more than 20 s after the current start began"
\* (README:765), but for the poll the limit finds a waiter in: it looks at the
\* clock only when its second is over.  So also when the process that holds the
\* lock is killed in the middle of its start and never gives it back.
NobodyWaitsLonger == \A w \in Workers : waited[w] < Hold + Poll

\* A start that overtook the gate never gives back the lock of the start it
\* overtook: that one still holds it.
HolderKeepsLock == \A w \in Workers : at[w] = "start" /\ acquired[w] => lock = w

\* The gate never shuts for good, though starts may last for ever and processes
\* die in them: while anybody waits, another start begins again and again.
GateMovesOn == []<>(lastStart = 0 \/ \A w \in Workers : at[w] \in {"away", "start", "dead"})
=============================================================================
