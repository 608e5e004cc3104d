----------------------------- MODULE AccountSync -----------------------------
(***************************************************************************)
(* One login through the services: its row in mt5account, the sessions that *)
(* read it, await and write it back, and its syncs in the pool.             *)
(* AccountService, SyncService, AccountRepository and the account routes;   *)
(* the pool is its answers (module Pool), and the order, the lock and the   *)
(* terminals of the requests are in module Scheduler.                       *)
(*                                                                         *)
(* A session works on the row it loaded and writes the columns it changed,  *)
(* in one UPDATE that fails when the row is gone (SQLAlchemy, PostgreSQL    *)
(* at READ COMMITTED).  Loading and committing are the actions: between     *)
(* them every other session may commit.                                    *)
(***************************************************************************)
EXTENDS Integers, FiniteSets

CONSTANTS Terminals,
          Passwords,
          Accepted,     \* those the broker accepts
          NoPassword,   \* PATCH without a password
          Slots,        \* bound: syncs of this login in the pool at a time
          NoSlot,
          MaxRows,      \* bound: how often the login is registered anew
          Threshold,    \* settings.account_error_threshold; failures count up to it
          ClientOps,    \* what a client asks for besides registering
          NoRow, NoTask

\* One session of each at a time: two registrations of a login do not overlap.
Actor == {"client", "register", "scheduler"}

ASSUME ServiceAssumption ==
  /\ Terminals # {} /\ Terminals \cap Actor = {}
  /\ Accepted \subseteq Passwords /\ NoPassword \notin Passwords
  /\ Threshold \in Nat \ {0} /\ MaxRows \in Nat
  /\ ClientOps \subseteq {"patch", "delete"}
  /\ NoSlot \notin Slots

VARIABLES
  row,       \* the MT5Account of the login
  rows,      \* how many account_ids it has had
  session,   \* per actor, and per terminal whose result is being persisted
  tasks,     \* the syncs in the pool
  raced,     \* history: a write was judged on columns that had changed meanwhile
  fails,     \* history: failed syncs since the last good one or the last new password
  first      \* history: one of them was the initial sync

evidence == <<raced, fails, first>>
vars == <<row, rows, session, tasks, evidence>>

Ids == 1..MaxRows

Off == [at |-> "off", op |-> "none", seen |-> NoRow, slot |-> NoSlot]

Init ==
  /\ row = NoRow /\ rows = 0
  /\ session = [a \in Actor \cup Terminals |-> Off]
  /\ tasks = [s \in Slots |-> NoTask]
  /\ raced = FALSE /\ fails = 0 /\ first = FALSE

-----------------------------------------------------------------------------
(* Sessions: load the row, write the columns that changed *)

Present(id) == row # NoRow /\ row.id = id

RequestOps == {"due", "first", "second"}

\* What SyncService.request uses of the row its caller loaded.
Keys(r) == [id |-> r.id, password |-> r.password]

Open(a, op) ==
  session' = [session EXCEPT ![a] =
    [Off EXCEPT !.at = "loaded", !.op = op, !.seen = IF op \in RequestOps THEN Keys(row) ELSE row]]

Close(a) == session' = [session EXCEPT ![a] = Off]

\* stamped: the columns whose new value is a time or a count that none had before.
Write(seen, new, stamped) ==
  row' = IF Present(seen.id)
         THEN [f \in DOMAIN row |-> IF f \in stamped \/ new[f] # seen[f] THEN new[f] ELSE row[f]]
         ELSE row

Remove(id) == row' = IF Present(id) THEN NoRow ELSE row

\* The columns a verdict on the account is made of.
Outdated(seen) == Present(seen.id) /\ \E f \in {"password", "status", "failures"} : seen[f] # row[f]

NoEvidence == fails' = 0 /\ first' = FALSE

-----------------------------------------------------------------------------
(* AccountRepository *)

Reset(r) == [r EXCEPT !.status = "active", !.failures = 0, !.paused = "no"]

Due(r) == r # NoRow /\ r.enabled /\ r.status = "active" /\ r.synced # "fresh" /\ r.paused # "now"

\* Mutant: a good sync does not forget the failures before it.
SyncedKeepsFailures(r) == [r EXCEPT !.status = "active", !.paused = "no", !.synced = "fresh"]

MarkSynced(r) == [Reset(r) EXCEPT !.synced = "fresh"]

MarkWithheld(r) == [Reset(r) EXCEPT !.synced = "fresh", !.paused = "now"]

MarkError(r, initial) ==
  LET failures == IF r.failures < Threshold THEN r.failures + 1 ELSE Threshold IN
  [r EXCEPT !.failures = failures,
            !.status = IF initial \/ failures >= Threshold THEN "error_connection" ELSE @]

-----------------------------------------------------------------------------
(* SyncService.request, from the row its caller loaded *)

Kind(op) == IF op = "due" THEN "scheduled" ELSE "initial"

\* Where a registration goes on when its sync was answered.
AfterAnswer(id, op, quarantined) ==
  IF quarantined /\ op = "first" THEN [Off EXCEPT !.at = "ask", !.op = "second", !.seen = id] ELSE Off

Requesting(a) == session[a].at = "loaded" /\ session[a].op \in RequestOps

\* ensure_assigned reads the row again when it gives it another terminal.
Assigned(seen) == IF Present(seen.id) THEN {seen, Keys(row)} ELSE {seen}

\* PoolManager.submit takes the sync.
Submit(a) ==
  LET s == session[a] IN
  /\ Requesting(a)
  /\ \E slot \in Slots, w \in Terminals, keys \in Assigned(s.seen) :
       /\ tasks[slot] = NoTask
       /\ tasks' = [tasks EXCEPT ![slot] =
            [id |-> keys.id, kind |-> Kind(s.op), password |-> keys.password, terminal |-> w]]
       /\ session' = [session EXCEPT ![a] =
            IF a = "register" THEN [Off EXCEPT !.at = "wait", !.op = s.op, !.seen = keys.id, !.slot = slot] ELSE Off]
  /\ UNCHANGED <<row, rows, evidence>>

\* It refuses a terminal that was quarantined.
Refused(a) ==
  /\ Requesting(a)
  /\ session' = [session EXCEPT ![a] = AfterAnswer(@.seen.id, @.op, TRUE)]
  /\ UNCHANGED <<row, rows, tasks, evidence>>

\* The scheduler's sync is there already, or the row is gone when ensure_assigned writes it.
Dropped(a) ==
  /\ Requesting(a)
  /\ a = "scheduler" \/ ~Present(session[a].seen.id)
  /\ Close(a)
  /\ UNCHANGED <<row, rows, tasks, evidence>>

-----------------------------------------------------------------------------
(* The scheduler and the clients *)

SchedulerTick ==
  /\ session["scheduler"] = Off /\ Due(row)
  /\ Open("scheduler", "due")
  /\ UNCHANGED <<row, rows, tasks, evidence>>

Ask == /\ session["client"] = Off /\ row # NoRow
       /\ \E op \in ClientOps : Open("client", op)
       /\ UNCHANGED <<row, rows, tasks, evidence>>

\* Mutant: a PATCH without a password is taken for another password.
PatchedNull(r, password, enabled) ==
  LET new == IF password # r.password THEN [Reset(r) EXCEPT !.password = password] ELSE r IN
  [new EXCEPT !.enabled = enabled]

Patched(r, password, enabled) ==
  LET new == IF password \notin {NoPassword, r.password} THEN [Reset(r) EXCEPT !.password = password] ELSE r IN
  [new EXCEPT !.enabled = enabled]

Patch ==
  LET s == session["client"] IN
  /\ s.at = "loaded" /\ s.op = "patch"
  /\ \E password \in Passwords \cup {NoPassword}, enabled \in BOOLEAN :
       /\ Write(s.seen, Patched(s.seen, password, enabled), {})
       /\ IF row # NoRow /\ row'.password # row.password THEN NoEvidence ELSE UNCHANGED <<fails, first>>
  /\ raced' = (raced \/ Outdated(s.seen))
  /\ Close("client")
  /\ UNCHANGED <<rows, tasks>>

Delete ==
  LET s == session["client"] IN
  /\ s.at = "loaded" /\ s.op = "delete"
  /\ Remove(s.seen.id)
  /\ Close("client")
  /\ UNCHANGED <<rows, tasks, evidence>>

-----------------------------------------------------------------------------
(* POST /accounts: create or retake the row, ask for its initial sync, and  *)
(* once more when the terminal was quarantined meanwhile                    *)

Retakable(r) == r.synced = "never" /\ r.status = "error_connection"

\* Any other row is a 409 that changes nothing.
Post == /\ session["register"] = Off
        /\ row # NoRow => Retakable(row)
        /\ Open("register", "post")
        /\ UNCHANGED <<row, rows, tasks, evidence>>

Posting == session["register"].at = "loaded" /\ session["register"].op = "post"

NewRow(id, password) ==
  [id |-> id, password |-> password, status |-> "active", enabled |-> TRUE, failures |-> 0,
   synced |-> "never", paused |-> "no"]

ThenAsk(id) == session' = [session EXCEPT !["register"] = [Off EXCEPT !.at = "ask", !.op = "first", !.seen = id]]

Create ==
  /\ Posting /\ session["register"].seen = NoRow
  /\ row = NoRow
  /\ rows < MaxRows   \* bound
  /\ \E password \in Passwords : row' = NewRow(rows + 1, password)
  /\ rows' = rows + 1
  /\ ThenAsk(rows')
  /\ raced' = FALSE /\ NoEvidence
  /\ UNCHANGED <<tasks>>

Retake ==
  LET seen == session["register"].seen IN
  /\ Posting /\ seen # NoRow
  /\ \E password \in Passwords :
       LET new == [Reset(seen) EXCEPT !.password = password, !.enabled = TRUE] IN
       /\ Write(seen, new, {})
       /\ IF Present(seen.id) THEN ThenAsk(seen.id) ELSE Close("register")
  /\ raced' = (raced \/ Outdated(seen)) /\ NoEvidence
  /\ UNCHANGED <<rows, tasks>>

AskInitial ==
  LET s == session["register"] IN
  /\ s.at = "ask"
  /\ IF Present(s.seen) THEN Open("register", s.op) ELSE Close("register")
  /\ UNCHANGED <<row, rows, tasks, evidence>>

\* hard_sync_wait_timeout_seconds: 502, and the sync stays where it is.
WaitTimesOut ==
  /\ session["register"].at = "wait"
  /\ Close("register")
  /\ UNCHANGED <<row, rows, tasks, evidence>>

-----------------------------------------------------------------------------
(* persist: a terminal answers one of its syncs at a time *)

Outcome(t) == {"other", "quarantined"} \cup IF t.password \in Accepted THEN {"ok", "withheld"} ELSE {"auth"}

Answer(w) ==
  /\ session[w] = Off
  /\ \E slot \in Slots :
       /\ tasks[slot] # NoTask /\ tasks[slot].terminal = w
       /\ \E outcome \in Outcome(tasks[slot]) :
            session' = [session EXCEPT ![w] =
              [Off EXCEPT !.at = "loaded", !.op = outcome, !.seen = row, !.slot = slot]]
  /\ UNCHANGED <<row, rows, tasks, evidence>>

\* The persisted sync leaves the pool, and a registration that waits for it goes on.
Resolve(w) ==
  LET slot == session[w].slot  id == tasks[slot].id  s == session["register"] IN
  /\ tasks' = [tasks EXCEPT ![slot] = NoTask]
  /\ session' = [session EXCEPT ![w] = Off,
       !["register"] = IF s.at = "wait" /\ s.slot = slot
                       THEN AfterAnswer(id, s.op, session[w].op = "quarantined") ELSE @]

Judged(seen, password) == raced' = (raced \/ Outdated(seen) \/ (Present(seen.id) /\ password # row.password))

\* The initial sync of a login the broker rejects leaves nothing.
Rejects(t, outcome) == t.kind = "initial" /\ outcome \in {"auth", "withheld"}

\* The account is missing, or the terminal was quarantined.
PersistNothing(seen, t, outcome) ==
  /\ outcome = "quarantined" \/ seen = NoRow \/ (seen # NoRow /\ seen.id # t.id)
  /\ UNCHANGED <<row, evidence>>

PersistRejection(seen, t, outcome) ==
  /\ Rejects(t, outcome)
  /\ Remove(t.id)
  /\ UNCHANGED evidence

PersistFailure(seen, t, outcome) ==
  /\ outcome \in {"auth", "other"} /\ ~Rejects(t, outcome)
  /\ Write(seen, MarkError(seen, t.kind = "initial"), {"failures"})
  /\ Judged(seen, t.password)
  /\ IF Present(seen.id)
     THEN /\ fails' = IF fails < Threshold THEN fails + 1 ELSE fails
          /\ first' = (first \/ t.kind = "initial")
     ELSE UNCHANGED <<fails, first>>

PersistSuccess(seen, t, outcome) ==
  /\ outcome \in {"ok", "withheld"} /\ ~Rejects(t, outcome)
  /\ IF outcome = "ok" THEN Write(seen, MarkSynced(seen), {"synced"})
                       ELSE Write(seen, MarkWithheld(seen), {"synced", "paused"})
  /\ Judged(seen, t.password)
  /\ IF Present(seen.id) THEN NoEvidence ELSE UNCHANGED <<fails, first>>

Persist(w) ==
  LET s == session[w] IN
  /\ s.at = "loaded"
  /\ LET t == tasks[s.slot] IN
     \/ PersistNothing(s.seen, t, s.op)
     \/ /\ s.op # "quarantined" /\ s.seen # NoRow /\ s.seen.id = t.id
        /\ \/ PersistRejection(s.seen, t, s.op)
           \/ PersistFailure(s.seen, t, s.op)
           \/ PersistSuccess(s.seen, t, s.op)
  /\ Resolve(w)
  /\ UNCHANGED rows

-----------------------------------------------------------------------------
(* Time *)

Ages == /\ row # NoRow /\ row.synced = "fresh"
        /\ row' = [row EXCEPT !.synced = "stale"]
        /\ UNCHANGED <<rows, session, tasks, evidence>>

PauseEnds == /\ row # NoRow /\ row.paused = "now"
             /\ row' = [row EXCEPT !.paused = "over"]
             /\ UNCHANGED <<rows, session, tasks, evidence>>

Requests == \E a \in Actor : Submit(a) \/ Refused(a) \/ Dropped(a)

Next == \/ SchedulerTick \/ Ask \/ Patch \/ Delete \/ Requests
        \/ Post \/ Create \/ Retake \/ AskInitial \/ WaitTimesOut
        \/ \E w \in Terminals : Answer(w) \/ Persist(w)
        \/ Ages \/ PauseEnds

Spec == Init /\ [][Next]_vars

-----------------------------------------------------------------------------
(* Properties *)

Row == [id : Ids, password : Passwords, status : {"active", "error_connection"}, enabled : BOOLEAN,
        failures : 0..Threshold, synced : {"never", "fresh", "stale"}, paused : {"no", "now", "over"}]

\* The row keeps the ranges the code gives its columns, whatever sessions merge in it.
TypeOK ==
  /\ row = NoRow \/ row \in Row
  /\ rows \in 0..MaxRows
  /\ raced \in BOOLEAN /\ first \in BOOLEAN /\ fails \in 0..Threshold

\* "An account flips to error_connection when three consecutive syncs fail or its
\* very first sync fails" (README:351) and only a success or a new password
\* brings it back, as long as no verdict met a change it had not read.
ErrorIsEarned ==
  row # NoRow /\ ~raced => (row.status = "error_connection" <=> first \/ fails >= Threshold)

\* "Rejected the credentials: no row is kept" (README:341): what the service
\* deletes by itself is a row with the password that was rejected.
OnlyTheRejected ==
  [][\A w \in Terminals :
       session[w].at = "loaded" /\ session'[w] = Off /\ row # NoRow /\ row' = NoRow
         => row.password = tasks[session[w].slot].password]_vars
=============================================================================
