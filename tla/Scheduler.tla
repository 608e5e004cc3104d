------------------------------ MODULE Scheduler ------------------------------
(***************************************************************************)
(* The scheduler (SyncService.run_scheduler) over the table of accounts:    *)
(* which of them due_for_sync brings, one request after the other under the *)
(* submit lock, where ensure_assigned sends each (terminal_affinity.py),    *)
(* and what the answers leave of an account's turn.  Clients ask for syncs   *)
(* of the same accounts meanwhile; the pool is its answers.                 *)
(***************************************************************************)
EXTENDS Integers, Sequences, SequencesExt, FiniteSets

CONSTANTS Accounts, Terminals,
          Unsteady,    \* the terminals that may leave the pool and come back
          DueBatch,    \* _DUE_BATCH
          Threshold,   \* settings.account_error_threshold
          Asked,       \* the accounts clients ask for
          Patched,     \* those that are patched
          NoAccount, Nobody

Asker == {"scheduler", "client"}

ASSUME SchedulerAssumption ==
  /\ Unsteady \subseteq Terminals /\ Terminals # {}
  /\ DueBatch \in Nat \ {0} /\ Threshold \in Nat \ {0}
  /\ Asked \subseteq Accounts /\ Patched \subseteq Accounts
  /\ NoAccount \notin Accounts /\ Nobody \notin Asker

VARIABLES
  never,     \* the accounts without last_synced_at
  synced,    \* the others, by last_synced_at, the oldest first
  old,       \* how many of these are older than the interval
  enabled,
  failures,  \* consecutive_failures, up to the threshold: then the status is error_connection
  withheld,  \* history_withheld_until is to come
  pin,       \* terminal_path
  usable,    \* keepable_terminals; placeable_terminals are some of them
  lock,      \* _submit_lock
  asker,     \* per asker: where its request stands, and the account and pin it loaded
  batch,     \* the accounts the scheduler's tick loaded and has still to ask for
  tasks,     \* the syncs in the pool: how many of an account each asker has
  pending    \* PoolManager._pending: whose sync of the account it holds

accountVars == <<never, synced, old, enabled, failures, withheld, pin>>
requestVars == <<lock, asker, batch>>
poolVars == <<tasks, pending>>
schedulerVars == <<accountVars, usable, requestVars, poolVars>>

Off == [at |-> "off", account |-> NoAccount, pin |-> Nobody]

SchedulerInit ==
  /\ never = Accounts /\ synced = <<>> /\ old = 0
  /\ enabled = Accounts
  /\ failures = [a \in Accounts |-> 0]
  /\ withheld = [a \in Accounts |-> FALSE]
  /\ pin \in [Accounts -> Terminals]
  /\ usable = Terminals
  /\ lock = Nobody
  /\ asker = [k \in Asker |-> Off]
  /\ batch = <<>>
  /\ tasks = [a \in Accounts |-> [k \in Asker |-> 0]]
  /\ pending = [a \in Accounts |-> Nobody]

-----------------------------------------------------------------------------
(* due_for_sync *)

Active(a) == a \in enabled /\ failures[a] < Threshold

Due(a) == Active(a) /\ ~withheld[a]

\* Mutant: the last synced come first.
NewestFirst(nulls) == nulls \o Reverse(SelectSeq(SubSeq(synced, 1, old), Due))

\* Those that never were come first, in any order.
DueOrder(nulls) == nulls \o SelectSeq(SubSeq(synced, 1, old), Due)

\* What request() uses of the row its caller loaded.
Loaded(a) == [at |-> "loaded", account |-> a, pin |-> pin[a]]

Tick ==
  /\ asker["scheduler"] = Off /\ batch = <<>>
  /\ \E nulls \in SetToSeqs({a \in never : Due(a)}), n \in 1..DueBatch :
       LET due == DueOrder(nulls)
           loaded == [i \in 1..n |-> Loaded(due[i])]
       IN
       /\ n = Min({DueBatch, Len(due)})
       /\ asker' = [asker EXCEPT !["scheduler"] = Head(loaded)]
       /\ batch' = Tail(loaded)
  /\ UNCHANGED <<accountVars, usable, lock, poolVars>>

\* request() returns: the scheduler goes on with its batch.
Done(k) ==
  IF k = "scheduler" /\ batch # <<>>
  THEN asker' = [asker EXCEPT ![k] = Head(batch)] /\ batch' = Tail(batch)
  ELSE asker' = [asker EXCEPT ![k] = Off] /\ UNCHANGED batch

Ask(a) ==
  /\ asker["client"] = Off
  /\ asker' = [asker EXCEPT !["client"] = Loaded(a)]
  /\ UNCHANGED <<accountVars, usable, lock, batch, poolVars>>

-----------------------------------------------------------------------------
(* SyncService.request *)

Deduped(k) == k = "scheduler" /\ pending[asker[k].account] # Nobody

Dedupe(k) ==
  /\ asker[k].at = "loaded" /\ lock = Nobody /\ Deduped(k)
  /\ Done(k)
  /\ UNCHANGED <<accountVars, usable, lock, poolVars>>

\* Mutant: requests do not wait for each other.
EnterUnlocked(k) ==
  /\ asker[k].at = "loaded" /\ ~Deduped(k)
  /\ asker' = [asker EXCEPT ![k].at = IF asker[k].pin \in usable THEN "submit" ELSE "assign"]
  /\ UNCHANGED <<accountVars, usable, lock, batch, poolVars>>

\* ensure_assigned keeps a pin that is usable, the one its caller loaded.
Enter(k) ==
  /\ asker[k].at = "loaded" /\ lock = Nobody /\ ~Deduped(k)
  /\ lock' = k
  /\ asker' = [asker EXCEPT ![k].at = IF asker[k].pin \in usable THEN "submit" ELSE "assign"]
  /\ UNCHANGED <<accountVars, usable, batch, poolVars>>

\* HealthBoard.placeable: the healthy ones, else the usable ones, else all.
Places == IF usable = {} THEN {Terminals} ELSE SUBSET usable \ {{}}

\* pick_terminal over counts_by_terminal: the fewest active accounts.
Count(t) == Cardinality({a \in Accounts : Active(a) /\ pin[a] = t})

Assign(k) ==
  /\ asker[k].at = "assign"
  /\ \E place \in Places, t \in Terminals :
       /\ t \in place /\ \A s \in place : Count(t) <= Count(s)
       /\ pin' = [pin EXCEPT ![asker[k].account] = t]
       /\ asker' = [asker EXCEPT ![k] = [at |-> "submit", account |-> asker[k].account, pin |-> t]]
  /\ UNCHANGED <<never, synced, old, enabled, failures, withheld, usable, lock, batch, poolVars>>

\* PoolManager.submit, which refuses a terminal that has just left.
Submit(k) ==
  LET a == asker[k].account IN
  /\ asker[k].at = "submit"
  /\ lock' = IF lock = k THEN Nobody ELSE lock
  /\ Done(k)
  /\ IF asker[k].pin \in usable
     THEN /\ tasks[a][k] < (IF k = "client" THEN 1 ELSE 2)   \* bound
          /\ tasks' = [tasks EXCEPT ![a][k] = @ + 1]
          /\ pending' = [pending EXCEPT ![a] = IF @ = Nobody THEN k ELSE @]
     ELSE UNCHANGED poolVars
  /\ UNCHANGED <<accountVars, usable>>

\* A query fails: the scheduler leaves the rest of its batch to the next tick.
RequestFails(k) ==
  /\ asker[k].at # "off"
  /\ asker[k].at = "loaded" => lock = Nobody
  /\ lock' = IF lock = k THEN Nobody ELSE lock
  /\ asker' = [asker EXCEPT ![k] = Off]
  /\ batch' = IF k = "scheduler" THEN <<>> ELSE batch
  /\ UNCHANGED <<accountVars, usable, poolVars>>

-----------------------------------------------------------------------------
(* Answers: what persist leaves of the account's columns *)

Resolve(a, k) ==
  /\ tasks[a][k] > 0
  /\ tasks' = [tasks EXCEPT ![a][k] = @ - 1]
  /\ pending' = [pending EXCEPT ![a] = IF @ = k THEN Nobody ELSE @]
  /\ UNCHANGED <<requestVars, usable, pin>>

Position(a) == CHOOSE i \in DOMAIN synced : synced[i] = a

Stamped(a) ==
  /\ never' = never \ {a}
  /\ IF a \in never
     THEN synced' = Append(synced, a) /\ UNCHANGED old
     ELSE /\ synced' = Append(Remove(synced, a), a)
          /\ old' = IF Position(a) <= old THEN old - 1 ELSE old

\* mark_synced, mark_withheld
Succeeds(a, k, paused) ==
  /\ Resolve(a, k)
  /\ Stamped(a)
  /\ failures' = [failures EXCEPT ![a] = 0]
  /\ withheld' = [withheld EXCEPT ![a] = paused]
  /\ UNCHANGED enabled

\* mark_error
Fails(a, k) ==
  /\ Resolve(a, k)
  /\ failures' = [failures EXCEPT ![a] = IF @ < Threshold THEN @ + 1 ELSE @]
  /\ UNCHANGED <<never, synced, old, enabled, withheld>>

\* The terminal was quarantined, or the database refused: nothing is written.
Lapses(a, k) ==
  /\ Resolve(a, k)
  /\ UNCHANGED <<never, synced, old, enabled, failures, withheld>>

-----------------------------------------------------------------------------
(* PATCH, time and the health board *)

\* A PATCH of enabled; one with a new password is in AccountSync.
Patch(a) ==
  /\ enabled' = IF a \in enabled THEN enabled \ {a} ELSE enabled \cup {a}
  /\ UNCHANGED <<never, synced, old, failures, withheld, pin, usable, requestVars, poolVars>>

Ages == /\ old < Len(synced) /\ old' = old + 1
        /\ UNCHANGED <<never, synced, enabled, failures, withheld, pin, usable, requestVars, poolVars>>

PauseEnds(a) == /\ withheld[a] /\ withheld' = [withheld EXCEPT ![a] = FALSE]
                /\ UNCHANGED <<never, synced, old, enabled, failures, pin, usable, requestVars, poolVars>>

Flips == /\ \E t \in Unsteady : usable' = IF t \in usable THEN usable \ {t} ELSE usable \cup {t}
         /\ UNCHANGED <<accountVars, requestVars, poolVars>>

Proceed(k) == Dedupe(k) \/ Enter(k) \/ Assign(k) \/ Submit(k)

Answer(a, k) == (\E paused \in BOOLEAN : Succeeds(a, k, paused)) \/ Fails(a, k) \/ Lapses(a, k)

SchedulerNext ==
  \/ Tick \/ (\E a \in Asked : Ask(a))
  \/ \E k \in Asker : Proceed(k) \/ RequestFails(k)
  \/ \E a \in Accounts, k \in Asker : Answer(a, k)
  \/ (\E a \in Patched : Patch(a)) \/ (\E a \in Accounts : PauseEnds(a)) \/ Ages \/ Flips

SchedulerSpec == SchedulerInit /\ [][SchedulerNext]_schedulerVars

\* The scheduler ticks and requests go on; queries do not fail for ever, and the
\* terminals are all there at last; the pool answers every sync, and not for ever
\* with nothing written.
SchedulerFairness ==
  /\ WF_schedulerVars(Tick)
  /\ SF_schedulerVars(Dedupe("scheduler") \/ Enter("scheduler"))
  /\ SF_schedulerVars(Assign("scheduler") \/ Submit("scheduler"))
  /\ WF_schedulerVars(Assign("client") \/ Submit("client"))
  /\ <>[](usable = Terminals)
  /\ \A a \in Accounts : WF_schedulerVars(Answer(a, "scheduler"))
  /\ \A a \in Asked : WF_schedulerVars(Answer(a, "client"))
  /\ \A a \in Accounts :
       SF_schedulerVars(\E k \in Asker : Fails(a, k) \/ \E paused \in BOOLEAN : Succeeds(a, k, paused))

FairSchedulerSpec == SchedulerSpec /\ SchedulerFairness

-----------------------------------------------------------------------------
(* Properties *)

\* The scheduler never has two syncs of one account in the pool, whatever
\* clients ask for between its look at the registry and its submit.
OneScheduled == \A a \in Accounts : tasks[a]["scheduler"] <= 1

WaitsForTurn(a) == Due(a) /\ (a \in never \/ \E i \in 1..old : synced[i] = a)

\* A batch has room for some only, the longest unsynced first: an account that
\* is due does not wait for ever behind others that fail, are withheld, or sit in
\* the queue; its turn comes.
EveryTurnComes ==
  \A a \in Accounts : WaitsForTurn(a) ~> ~WaitsForTurn(a) \/ tasks[a]["scheduler"] + tasks[a]["client"] > 0
=============================================================================
