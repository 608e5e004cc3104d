-------------------------- MODULE AccountSyncProofs --------------------------
(***************************************************************************)
(* The row of a login keeps its ranges and its verdict, for any passwords, *)
(* terminals, syncs in the pool, registrations and threshold, whatever     *)
(* sessions write over one another.                                        *)
(***************************************************************************)
EXTENDS AccountSync, TLAPS

\* What a session of a may hold from its load until its write.
MayHold(a, s) ==
  /\ a = "client" /\ s.at = "loaded" => s.seen \in Row
  /\ a = "register" /\ s.at = "ask" => s.op \in {"first", "second"}
  /\ a = "register" /\ s.at = "loaded" /\ s.op = "post" => s.seen = NoRow \/ (s.seen \in Row /\ s.seen.id = rows)
  /\ a \in Terminals /\ s.at = "loaded" => s.seen \in Row \cup {NoRow}

SessionsHold ==
  /\ DOMAIN session = Actor \cup Terminals
  /\ \A a \in Actor \cup Terminals : MayHold(a, session[a])

\* The row that is there is the last that was registered: so a registration that
\* retakes a row never forgets the failures of another one.
RowIsNewest == row # NoRow => row.id = rows

\* The columns of the verdict say what happened, unless a write met a change it had not read.
Verdict ==
  row # NoRow /\ ~raced =>
    row.failures = fails /\ (row.status = "error_connection" <=> first \/ fails >= Threshold)

\* The inductive invariant.
ServiceInvariant == TypeOK /\ SessionsHold /\ RowIsNewest /\ Verdict

-----------------------------------------------------------------------------
(* The row *)

LEMMA RowFields ==
  /\ \A r \in Row : /\ DOMAIN r = {"id", "password", "status", "enabled", "failures", "synced", "paused"}
                    /\ r.id \in Ids /\ r.password \in Passwords /\ r.status \in {"active", "error_connection"}
                    /\ r.enabled \in BOOLEAN /\ r.failures \in 0..Threshold
                    /\ r.synced \in {"never", "fresh", "stale"} /\ r.paused \in {"no", "now", "over"}
BY DEF Row

\* The verdicts of the repository, on a row of the table.
LEMMA ResetRow ==
  ASSUME NEW r \in Row
  PROVE  /\ Reset(r) \in Row
         /\ Reset(r).id = r.id /\ Reset(r).password = r.password
         /\ Reset(r).status = "active" /\ Reset(r).failures = 0
<1>1. 0 \in 0..Threshold
  BY ServiceAssumption
<1> DEFINE new == Reset(r)
<1>2. /\ DOMAIN new = DOMAIN r
      /\ new.id = r.id /\ new.password = r.password /\ new.enabled = r.enabled /\ new.synced = r.synced
      /\ new.status = "active" /\ new.failures = 0 /\ new.paused = "no"
  BY DEF Reset, Row
<1>3. Reset(r) \in Row
  BY <1>1 DEF Reset, Row
<1> QED BY <1>2, <1>3

LEMMA MarkSyncedRow ==
  ASSUME NEW r \in Row
  PROVE  /\ MarkSynced(r) \in Row /\ MarkWithheld(r) \in Row
         /\ MarkSynced(r).id = r.id /\ MarkSynced(r).status = "active" /\ MarkSynced(r).failures = 0
         /\ MarkWithheld(r).id = r.id /\ MarkWithheld(r).status = "active" /\ MarkWithheld(r).failures = 0
<1>1. Reset(r) \in Row /\ Reset(r).id = r.id /\ Reset(r).status = "active" /\ Reset(r).failures = 0
  BY ResetRow
<1> QED BY <1>1 DEF MarkSynced, MarkWithheld, Row

LEMMA MarkErrorRow ==
  ASSUME NEW r \in Row, NEW initial \in BOOLEAN
  PROVE  LET new == MarkError(r, initial) IN
         /\ new \in Row /\ new.id = r.id /\ new.password = r.password
         /\ new.failures = IF r.failures < Threshold THEN r.failures + 1 ELSE Threshold
         /\ new.status = "error_connection" <=>
              initial \/ new.failures >= Threshold \/ r.status = "error_connection"
<1> DEFINE failures == IF r.failures < Threshold THEN r.failures + 1 ELSE Threshold
           status == IF initial \/ failures >= Threshold THEN "error_connection" ELSE r.status
<1>1. failures \in 0..Threshold
  BY ServiceAssumption, RowFields
<1>2. MarkError(r, initial) = [r EXCEPT !.failures = failures, !.status = status]
  BY DEF MarkError
<1>3. status \in {"active", "error_connection"}
  BY RowFields
<1>4. status = "error_connection" <=> initial \/ failures >= Threshold \/ r.status = "error_connection"
  OBVIOUS
<1> HIDE DEF failures, status
<1> DEFINE new == MarkError(r, initial)
<1>5. new \in Row /\ new.id = r.id /\ new.password = r.password /\ new.failures = failures /\ new.status = status
  BY <1>1, <1>2, <1>3 DEF Row
<1> HIDE DEF new
<1> QED BY <1>4, <1>5 DEF failures, new

\* A PATCH that brings another password resets the account, any other keeps its verdict.
LEMMA PatchedRow ==
  ASSUME NEW r \in Row, NEW password \in Passwords \cup {NoPassword}, NEW enabled \in BOOLEAN
  PROVE  LET new == Patched(r, password, enabled) IN
         /\ new \in Row /\ new.id = r.id
         /\ \/ new.password # r.password /\ new.status = "active" /\ new.failures = 0
            \/ new.password = r.password /\ new.status = r.status /\ new.failures = r.failures
<1>1. Reset(r) \in Row /\ Reset(r).id = r.id /\ Reset(r).status = "active" /\ Reset(r).failures = 0
  BY ResetRow
<1>2. CASE password \notin {NoPassword, r.password}
  <2>1. password \in Passwords /\ password # r.password
    BY <1>2
  <2>2. Patched(r, password, enabled) = [[Reset(r) EXCEPT !.password = password] EXCEPT !.enabled = enabled]
    BY <1>2 DEF Patched
  <2> QED BY <1>1, <2>1, <2>2 DEF Row
<1>3. CASE password \in {NoPassword, r.password}
  <2>1. Patched(r, password, enabled) = [r EXCEPT !.enabled = enabled]
    BY <1>3 DEF Patched
  <2> QED BY <2>1 DEF Row
<1> QED BY <1>2, <1>3

\* One UPDATE of the columns that changed: the row stays a row, with its id, and a
\* column of the verdict that the session had read as it is gets its new value.
LEMMA WriteRow ==
  ASSUME row = NoRow \/ row \in Row, NEW seen \in Row, NEW new \in Row, new.id = seen.id, NEW stamped, "id" \notin stamped,
         Write(seen, new, stamped)
  PROVE  /\ ~Present(seen.id) => row' = row
         /\ Present(seen.id) =>
              /\ row' \in Row /\ row'.id = row.id
              /\ \A f \in {"password", "status", "failures"} : seen[f] = row[f] \/ f \in stamped => row'[f] = new[f]
<1>1. ~Present(seen.id) => row' = row
  BY DEF Write
<1>2. ASSUME Present(seen.id)
      PROVE  /\ row' \in Row /\ row'.id = row.id
             /\ \A f \in {"password", "status", "failures"} : seen[f] = row[f] \/ f \in stamped => row'[f] = new[f]
  <2>1. row \in Row /\ row.id = seen.id
    BY <1>2 DEF Present
  <2>2. row' = [f \in DOMAIN row |-> IF f \in stamped \/ new[f] # seen[f] THEN new[f] ELSE row[f]]
    BY <1>2 DEF Write
  <2>3. DOMAIN row = {"id", "password", "status", "enabled", "failures", "synced", "paused"}
    BY <2>1, RowFields
  <2>4. row'.id = row.id
    BY <2>1, <2>2, <2>3
  <2>5. \A f \in {"password", "status", "failures"} : seen[f] = row[f] \/ f \in stamped => row'[f] = new[f]
    BY <2>2, <2>3
  <2>6. \A f \in DOMAIN row : row'[f] = new[f] \/ row'[f] = row[f]
    BY <2>2
  <2>7. /\ row'.password \in Passwords /\ row'.status \in {"active", "error_connection"}
        /\ row'.enabled \in BOOLEAN /\ row'.failures \in 0..Threshold
        /\ row'.synced \in {"never", "fresh", "stale"} /\ row'.paused \in {"no", "now", "over"}
        /\ row'.id \in Ids
    BY <2>1, <2>3, <2>4, <2>6, RowFields
  <2>8. DOMAIN row' = {"id", "password", "status", "enabled", "failures", "synced", "paused"}
    BY <2>2, <2>3
  <2>9. row' = [id |-> row'.id, password |-> row'.password, status |-> row'.status, enabled |-> row'.enabled,
                failures |-> row'.failures, synced |-> row'.synced, paused |-> row'.paused]
    BY <2>2, <2>3, <2>8
  <2>10. row' \in Row
    BY <2>7, <2>9 DEF Row
  <2> QED BY <2>4, <2>5, <2>10
<1> QED BY <1>1, <1>2

-----------------------------------------------------------------------------
(* The sessions *)

LEMMA OffHolds == \A a : MayHold(a, Off)
BY DEF MayHold, Off

\* One session moves.
LEMMA SessionMoves ==
  ASSUME SessionsHold, rows' = rows, NEW a \in Actor \cup Terminals, NEW s, MayHold(a, s),
         session' = [session EXCEPT ![a] = s]
  PROVE  SessionsHold'
<1>1. DOMAIN session' = Actor \cup Terminals
  BY DEF SessionsHold
<1>2. ASSUME NEW b \in Actor \cup Terminals PROVE MayHold(b, session'[b])
  <2>1. session'[b] = IF b = a THEN s ELSE session[b]
    BY DEF SessionsHold
  <2> QED BY <2>1 DEF SessionsHold
<1>3. \A b \in Actor \cup Terminals : MayHold(b, session[b])'
  BY <1>2 DEF MayHold
<1> QED BY <1>1, <1>3 DEF SessionsHold

LEMMA SessionCloses ==
  ASSUME SessionsHold, rows' = rows, NEW a \in Actor \cup Terminals, Close(a)
  PROVE  SessionsHold'
BY OffHolds, SessionMoves DEF Close

\* A load hands over the row as it is.
LEMMA SessionOpens ==
  ASSUME SessionsHold, RowIsNewest, row = NoRow \/ row \in Row, rows' = rows, NEW a \in Actor, NEW op, Open(a, op),
         a = "client" => row # NoRow /\ op \notin RequestOps
  PROVE  SessionsHold'
<1> DEFINE s == [Off EXCEPT !.at = "loaded", !.op = op, !.seen = IF op \in RequestOps THEN Keys(row) ELSE row]
<1>1. /\ s.at = "loaded" /\ s.op = op
      /\ op \notin RequestOps => s.seen = row
  BY DEF Off
<1>2. session' = [session EXCEPT ![a] = s]
  BY DEF Open
<1> HIDE DEF s
<1>3. MayHold(a, s)
  <2>1. a \notin Terminals
    BY ServiceAssumption
  <2>2. op = "post" => op \notin RequestOps
    BY DEF RequestOps
  <2> QED BY <1>1, <2>1, <2>2 DEF MayHold, RowIsNewest
<1> QED BY <1>2, <1>3, SessionMoves

\* The next place of a registration.
LEMMA AskingHolds ==
  /\ \A id, op, quarantined : MayHold("register", AfterAnswer(id, op, quarantined))
  /\ \A id : MayHold("register", [Off EXCEPT !.at = "ask", !.op = "first", !.seen = id])
<1>1. "register" \notin Terminals /\ "register" # "client"
  BY ServiceAssumption DEF Actor
<1>2. ASSUME NEW id, NEW op \in {"first", "second"}
      PROVE  MayHold("register", [Off EXCEPT !.at = "ask", !.op = op, !.seen = id])
  BY <1>1 DEF MayHold, Off
<1> QED BY <1>2, OffHolds DEF AfterAnswer

-----------------------------------------------------------------------------
(* The steps *)

\* A step of the sessions and the pool alone.
LEMMA RowStays ==
  ASSUME ServiceInvariant, SessionsHold', UNCHANGED <<row, rows, evidence>>
  PROVE  ServiceInvariant'
BY DEF ServiceInvariant, TypeOK, RowIsNewest, Verdict, evidence

\* A request of a session.
LEMMA RequestsKeep ==
  ASSUME ServiceInvariant, NEW a \in Actor, Submit(a) \/ Refused(a) \/ Dropped(a)
  PROVE  ServiceInvariant'
<1>0. SessionsHold /\ UNCHANGED <<row, rows, evidence>> /\ a \notin Terminals
  BY ServiceAssumption DEF ServiceInvariant, Submit, Refused, Dropped
<1>1. CASE Dropped(a)
  BY <1>0, <1>1, SessionCloses, RowStays DEF Dropped
<1>2. CASE Refused(a)
  <2>1. PICK id, op : session' = [session EXCEPT ![a] = AfterAnswer(id, op, TRUE)]
    BY <1>2 DEF Refused
  <2>2. MayHold(a, AfterAnswer(id, op, TRUE))
    BY <1>0, AskingHolds, OffHolds DEF AfterAnswer, MayHold, Off
  <2> QED BY <1>0, <2>1, <2>2, SessionMoves, RowStays
<1>3. CASE Submit(a)
  <2>1. PICK s : session' = [session EXCEPT ![a] = s] /\ (s = Off \/ s.at = "wait")
    <3>1. PICK slot \in Slots, keys \in Assigned(session[a].seen) :
            session' = [session EXCEPT ![a] =
              IF a = "register" THEN [Off EXCEPT !.at = "wait", !.op = session[a].op, !.seen = keys.id, !.slot = slot] ELSE Off]
      BY <1>3 DEF Submit
    <3> DEFINE t == IF a = "register" THEN [Off EXCEPT !.at = "wait", !.op = session[a].op, !.seen = keys.id, !.slot = slot] ELSE Off
    <3>2. t = Off \/ t.at = "wait"
      BY DEF Off
    <3>3. session' = [session EXCEPT ![a] = t]
      BY <3>1
    <3> HIDE DEF t
    <3> QED BY <3>2, <3>3
  <2>2. MayHold(a, s)
    BY <2>1, OffHolds DEF MayHold
  <2> QED BY <1>0, <2>1, <2>2, SessionMoves, RowStays
<1> QED BY <1>1, <1>2, <1>3

\* A load, or a wait that is over.
LEMMA OpensKeep ==
  ASSUME ServiceInvariant,
         SchedulerTick \/ Ask \/ Post \/ AskInitial \/ WaitTimesOut \/ \E w \in Terminals : Answer(w)
  PROVE  ServiceInvariant'
<1>0. /\ SessionsHold /\ RowIsNewest /\ (row = NoRow \/ row \in Row)
      /\ "client" \in Actor /\ "scheduler" \in Actor /\ "register" \in Actor
  BY DEF ServiceInvariant, TypeOK, Actor
<1>1. UNCHANGED <<row, rows, evidence>>
  BY DEF SchedulerTick, Ask, Post, AskInitial, WaitTimesOut, Answer
<1>2. CASE SchedulerTick
  BY <1>0, <1>1, <1>2, SessionOpens, RowStays DEF SchedulerTick
<1>3. CASE Ask
  <2>1. PICK op \in ClientOps : Open("client", op)
    BY <1>3 DEF Ask
  <2>2. op \notin RequestOps
    BY ServiceAssumption DEF RequestOps
  <2> QED BY <1>0, <1>1, <1>3, <2>1, <2>2, SessionOpens, RowStays DEF Ask
<1>4. CASE Post
  BY <1>0, <1>1, <1>4, SessionOpens, RowStays DEF Post
<1>5. CASE AskInitial
  BY <1>0, <1>1, <1>5, SessionOpens, SessionCloses, RowStays DEF AskInitial
<1>6. CASE WaitTimesOut
  BY <1>0, <1>1, <1>6, SessionCloses, RowStays DEF WaitTimesOut
<1>7. ASSUME NEW w \in Terminals, Answer(w) PROVE ServiceInvariant'
  <2>1. PICK s : session' = [session EXCEPT ![w] = s] /\ s.seen = row
    <3>1. PICK slot, outcome :
            session' = [session EXCEPT ![w] = [Off EXCEPT !.at = "loaded", !.op = outcome, !.seen = row, !.slot = slot]]
      BY <1>7 DEF Answer
    <3> DEFINE t == [Off EXCEPT !.at = "loaded", !.op = outcome, !.seen = row, !.slot = slot]
    <3>2. t.seen = row
      BY DEF Off
    <3>3. session' = [session EXCEPT ![w] = t]
      BY <3>1
    <3> HIDE DEF t
    <3> QED BY <3>2, <3>3
  <2>2. MayHold(w, s)
    BY <1>0, <2>1, ServiceAssumption DEF MayHold, Actor
  <2> QED BY <1>0, <1>1, <2>1, <2>2, SessionMoves, RowStays
<1> QED BY <1>2, <1>3, <1>4, <1>5, <1>6, <1>7

\* A write of a session that loaded the row it writes: what it makes of the columns it
\* read is what it makes of the row, unless the write counts as raced.
LEMMA WriteJudged ==
  ASSUME ServiceInvariant, NEW seen \in Row, NEW new \in Row, new.id = seen.id, NEW stamped, "id" \notin stamped,
         Write(seen, new, stamped)
  PROVE  /\ row' = NoRow \/ row' \in Row
         /\ rows' = rows => RowIsNewest'
         /\ ~Present(seen.id) => row' = row
         /\ Present(seen.id) /\ ~Outdated(seen) =>
              /\ row # NoRow
              /\ seen.password = row.password /\ seen.status = row.status /\ seen.failures = row.failures
              /\ row'.password = new.password /\ row'.status = new.status /\ row'.failures = new.failures
<1>0. row = NoRow \/ row \in Row
  BY DEF ServiceInvariant, TypeOK
<1>1. /\ ~Present(seen.id) => row' = row
      /\ Present(seen.id) =>
              /\ row' \in Row /\ row'.id = row.id
              /\ \A f \in {"password", "status", "failures"} : seen[f] = row[f] \/ f \in stamped => row'[f] = new[f]
  BY <1>0, WriteRow
<1>2. ASSUME Present(seen.id), ~Outdated(seen)
      PROVE  \A f \in {"password", "status", "failures"} : seen[f] = row[f] /\ row'[f] = new[f]
  BY <1>1, <1>2 DEF Outdated
<1>3. rows' = rows => RowIsNewest'
  BY <1>1 DEF ServiceInvariant, RowIsNewest, Present
<1>4. Present(seen.id) => row # NoRow
  BY DEF Present
<1> QED BY <1>0, <1>1, <1>2, <1>3, <1>4

\* The row goes, or not.
LEMMA RemoveRow ==
  ASSUME ServiceInvariant, NEW id, Remove(id), UNCHANGED <<rows, evidence>>, SessionsHold'
  PROVE  ServiceInvariant'
<1>1. row' = NoRow \/ row' = row
  BY DEF Remove
<1> QED BY <1>1 DEF ServiceInvariant, TypeOK, RowIsNewest, Verdict, evidence

\* The counts of the evidence.
LEMMA Evidence ==
  ASSUME ServiceInvariant
  PROVE  /\ NoEvidence => fails' = 0 /\ first' = FALSE /\ fails' \in 0..Threshold /\ first' \in BOOLEAN /\ ~(fails' >= Threshold)
         /\ UNCHANGED <<fails, first>> => fails' \in 0..Threshold /\ first' \in BOOLEAN
<1>1. /\ 0 \in 0..Threshold /\ ~(0 >= Threshold)
  BY ServiceAssumption
<1> QED BY <1>1 DEF NoEvidence, ServiceInvariant, TypeOK

\* A client's PATCH.
LEMMA PatchKeeps == ServiceInvariant /\ Patch => ServiceInvariant'
<1> SUFFICES ASSUME ServiceInvariant, Patch PROVE ServiceInvariant'
  OBVIOUS
<1> DEFINE seen == session["client"].seen
<1>0. /\ "client" \in Actor /\ seen \in Row /\ SessionsHold
      /\ rows' = rows /\ raced' = (raced \/ Outdated(seen)) /\ raced \in BOOLEAN
  BY DEF Patch, Actor, ServiceInvariant, TypeOK, SessionsHold, MayHold
<1>1. SessionsHold'
  BY <1>0, SessionCloses DEF Patch
<1>2. PICK password \in Passwords \cup {NoPassword}, enabled \in BOOLEAN :
        /\ Write(seen, Patched(seen, password, enabled), {})
        /\ IF row # NoRow /\ row'.password # row.password THEN NoEvidence ELSE UNCHANGED <<fails, first>>
  BY DEF Patch
<1> DEFINE new == Patched(seen, password, enabled)
<1>3. /\ new \in Row /\ new.id = seen.id
      /\ \/ new.password # seen.password /\ new.status = "active" /\ new.failures = 0
         \/ new.password = seen.password /\ new.status = seen.status /\ new.failures = seen.failures
  BY <1>0, PatchedRow
<1> HIDE DEF new, seen
<1>4. /\ row' = NoRow \/ row' \in Row
      /\ RowIsNewest'
      /\ ~Present(seen.id) => row' = row
      /\ Present(seen.id) /\ ~Outdated(seen) =>
              /\ row # NoRow
              /\ seen.password = row.password /\ seen.status = row.status /\ seen.failures = row.failures
              /\ row'.password = new.password /\ row'.status = new.status /\ row'.failures = new.failures
  BY <1>0, <1>2, <1>3, WriteJudged DEF new, seen
<1>5. raced' \in BOOLEAN
  BY <1>0
<1>6. fails' \in 0..Threshold /\ first' \in BOOLEAN
  BY <1>2, Evidence
<1>7. TypeOK'
  BY <1>0, <1>4, <1>5, <1>6 DEF ServiceInvariant, TypeOK
<1>8. ASSUME row' # NoRow, ~raced'
      PROVE  row'.failures = fails' /\ (row'.status = "error_connection" <=> first' \/ fails' >= Threshold)
  <2>1. ~raced /\ ~Outdated(seen)
    BY <1>0, <1>8
  <2>2. row # NoRow => row.failures = fails /\ (row.status = "error_connection" <=> first \/ fails >= Threshold)
    BY <2>1 DEF ServiceInvariant, Verdict
  <2>3. CASE ~Present(seen.id)
    BY <1>2, <1>4, <1>8, <2>2, <2>3
  <2>4. CASE Present(seen.id) /\ new.password = seen.password /\ new.status = seen.status /\ new.failures = seen.failures
    <3>1. UNCHANGED <<fails, first>> /\ row'.failures = row.failures /\ row'.status = row.status
      BY <1>2, <1>4, <2>1, <2>4
    <3> QED BY <1>4, <2>1, <2>2, <2>4, <3>1
  <2>5. CASE Present(seen.id) /\ new.password # seen.password /\ new.status = "active" /\ new.failures = 0
    <3>1. NoEvidence /\ row'.failures = 0 /\ row'.status = "active"
      BY <1>2, <1>4, <2>1, <2>5
    <3> QED BY <3>1, Evidence
  <2> QED BY <1>3, <2>3, <2>4, <2>5
<1>9. Verdict'
  BY <1>8 DEF Verdict
<1> QED BY <1>1, <1>4, <1>7, <1>9 DEF ServiceInvariant

\* A registration of a new row: everybody else's row is older.
LEMMA CreateKeeps == ServiceInvariant /\ Create => ServiceInvariant'
<1> SUFFICES ASSUME ServiceInvariant, Create PROVE ServiceInvariant'
  OBVIOUS
<1>0. /\ rows \in 0..MaxRows /\ rows < MaxRows /\ rows' = rows + 1 /\ raced' = FALSE /\ NoEvidence /\ MaxRows \in Nat
      /\ "register" \in Actor /\ SessionsHold
  BY ServiceAssumption DEF Create, Actor, ServiceInvariant, TypeOK
<1>1. rows + 1 \in Ids /\ rows' \in 0..MaxRows
  BY <1>0 DEF Ids
<1>2. 0 \in 0..Threshold
  BY ServiceAssumption
<1>3. /\ row' \in Row /\ row'.id = rows' /\ row'.failures = 0 /\ row'.status = "active"
  <2>1. PICK password \in Passwords : row' = NewRow(rows + 1, password)
    BY DEF Create
  <2> QED BY <1>0, <1>1, <1>2, <2>1 DEF NewRow, Row
<1>4. SessionsHold'
  <2> DEFINE s == [Off EXCEPT !.at = "ask", !.op = "first", !.seen = rows']
  <2>1. session' = [session EXCEPT !["register"] = s]
    BY DEF Create, ThenAsk
  <2>2. s.at = "ask" /\ s.op = "first"
    BY DEF Off
  <2> HIDE DEF s
  <2>3. DOMAIN session' = Actor \cup Terminals
    BY <1>0, <2>1 DEF SessionsHold
  <2>4. ASSUME NEW a \in Actor \cup Terminals PROVE MayHold(a, session[a])'
    <3>1. CASE a = "register"
      <4>1. session'[a] = s /\ a \notin Terminals
        BY <1>0, <2>1, <3>1, ServiceAssumption DEF SessionsHold
      <4> QED BY <2>2, <3>1, <4>1 DEF MayHold
    <3>2. CASE a # "register"
      <4>1. session'[a] = session[a]
        BY <1>0, <2>1, <3>2 DEF SessionsHold
      <4> QED BY <1>0, <3>2, <4>1 DEF SessionsHold, MayHold
    <3> QED BY <3>1, <3>2
  <2> QED BY <2>3, <2>4 DEF SessionsHold
<1>5. TypeOK'
  BY <1>0, <1>1, <1>3, Evidence DEF TypeOK
<1>6. RowIsNewest' /\ Verdict'
  BY <1>0, <1>3, Evidence DEF RowIsNewest, Verdict
<1> QED BY <1>4, <1>5, <1>6 DEF ServiceInvariant

\* A reset of what the session had read, by a good sync or a registration that retakes the row.
LEMMA ResetKeeps ==
  ASSUME ServiceInvariant, SessionsHold', rows' = rows, NEW seen \in Row, NEW new \in Row, NEW stamped, "id" \notin stamped,
         new.id = seen.id, new.status = "active", new.failures = 0, Write(seen, new, stamped),
         raced' \in BOOLEAN, ~raced' => ~raced /\ ~Outdated(seen),
         Present(seen.id) => NoEvidence,
         ~Present(seen.id) => row = NoRow \/ UNCHANGED <<fails, first>>,
         NoEvidence \/ UNCHANGED <<fails, first>>
  PROVE  ServiceInvariant'
<1>1. /\ row' = NoRow \/ row' \in Row
      /\ RowIsNewest'
      /\ ~Present(seen.id) => row' = row
      /\ Present(seen.id) /\ ~Outdated(seen) => row'.status = "active" /\ row'.failures = 0
  BY WriteJudged
<1>2. TypeOK'
  BY <1>1, Evidence DEF ServiceInvariant, TypeOK
<1>3. ASSUME row' # NoRow, ~raced'
      PROVE  row'.failures = fails' /\ (row'.status = "error_connection" <=> first' \/ fails' >= Threshold)
  <2>1. CASE Present(seen.id)
    BY <1>1, <1>3, <2>1, Evidence
  <2>2. CASE ~Present(seen.id)
    BY <1>1, <1>3, <2>2 DEF ServiceInvariant, Verdict
  <2> QED BY <2>1, <2>2
<1>4. Verdict'
  BY <1>3 DEF Verdict
<1> QED BY <1>1, <1>2, <1>4 DEF ServiceInvariant

\* A registration retakes the row of a failed one: no other row can be there.
LEMMA RetakeKeeps == ServiceInvariant /\ Retake => ServiceInvariant'
<1> SUFFICES ASSUME ServiceInvariant, Retake PROVE ServiceInvariant'
  OBVIOUS
<1> DEFINE seen == session["register"].seen
<1>0. /\ "register" \in Actor /\ seen \in Row /\ seen.id = rows /\ SessionsHold /\ rows' = rows
      /\ raced' = (raced \/ Outdated(seen)) /\ raced \in BOOLEAN /\ NoEvidence
  BY DEF Retake, Posting, Actor, ServiceInvariant, TypeOK, SessionsHold, MayHold
<1>1. PICK password \in Passwords :
        /\ Write(seen, [Reset(seen) EXCEPT !.password = password, !.enabled = TRUE], {})
        /\ IF Present(seen.id) THEN ThenAsk(seen.id) ELSE Close("register")
  BY DEF Retake
<1> DEFINE new == [Reset(seen) EXCEPT !.password = password, !.enabled = TRUE]
<1>2. new \in Row /\ new.id = seen.id /\ new.status = "active" /\ new.failures = 0
  <2>1. Reset(seen) \in Row /\ Reset(seen).id = seen.id /\ Reset(seen).status = "active" /\ Reset(seen).failures = 0
    BY <1>0, ResetRow
  <2> QED BY <2>1 DEF Row
<1> HIDE DEF new, seen
<1>3. SessionsHold'
  BY <1>0, <1>1, AskingHolds, SessionMoves, SessionCloses DEF ThenAsk
<1>4. ~Present(seen.id) => row = NoRow
  BY <1>0 DEF Present, ServiceInvariant, RowIsNewest
<1>5. Write(seen, new, {}) /\ "id" \notin {}
  BY <1>1 DEF new, seen
<1>6. raced' \in BOOLEAN /\ (~raced' => ~raced /\ ~Outdated(seen))
  BY <1>0
<1> QED BY <1>0, <1>2, <1>3, <1>4, <1>5, <1>6, ResetKeeps

\* The sync that was persisted leaves the pool.
LEMMA ResolveHolds ==
  ASSUME SessionsHold, rows' = rows, NEW w \in Terminals, Resolve(w)
  PROVE  SessionsHold'
<1> DEFINE slot == session[w].slot
           s == session["register"]
           next == IF s.at = "wait" /\ s.slot = slot
                   THEN AfterAnswer(tasks[slot].id, s.op, session[w].op = "quarantined") ELSE s
<1>0. "register" \in Actor /\ "register" \notin Terminals /\ w # "register"
  BY ServiceAssumption DEF Actor
<1>1. /\ DOMAIN session' = Actor \cup Terminals
      /\ session'["register"] = next /\ session'[w] = Off
      /\ \A a \in (Actor \cup Terminals) \ {w, "register"} : session'[a] = session[a]
  BY <1>0 DEF Resolve, SessionsHold
<1>2. MayHold("register", next)
  BY <1>0, AskingHolds DEF SessionsHold
<1> HIDE DEF next
<1>3. ASSUME NEW a \in Actor \cup Terminals PROVE MayHold(a, session'[a])
  <2>1. CASE a = "register"
    BY <1>1, <1>2, <2>1
  <2>2. CASE a = w
    BY <1>1, <2>2, OffHolds
  <2>3. CASE a \notin {w, "register"}
    BY <1>1, <2>3 DEF SessionsHold
  <2> QED BY <2>1, <2>2, <2>3
<1>4. \A a \in Actor \cup Terminals : MayHold(a, session[a])'
  BY <1>3 DEF MayHold
<1> QED BY <1>1, <1>4 DEF SessionsHold

\* A failed sync is one failure more, of the row and of the evidence.
LEMMA FailureKeeps ==
  ASSUME ServiceInvariant, SessionsHold', rows' = rows, NEW seen \in Row, NEW t, NEW outcome, PersistFailure(seen, t, outcome)
  PROVE  ServiceInvariant'
<1> DEFINE initial == t.kind = "initial"
           new == MarkError(seen, initial)
<1>0. initial \in BOOLEAN
  OBVIOUS
<1>1. /\ new \in Row /\ new.id = seen.id /\ new.password = seen.password
      /\ new.failures = IF seen.failures < Threshold THEN seen.failures + 1 ELSE Threshold
      /\ new.status = "error_connection" <=> initial \/ new.failures >= Threshold \/ seen.status = "error_connection"
  BY MarkErrorRow
<1>2. /\ Write(seen, new, {"failures"}) /\ "id" \notin {"failures"}
      /\ raced' = (raced \/ Outdated(seen) \/ (Present(seen.id) /\ t.password # row.password))
      /\ Present(seen.id) => /\ fails' = IF fails < Threshold THEN fails + 1 ELSE fails
                             /\ first' = (first \/ initial)
      /\ ~Present(seen.id) => UNCHANGED <<fails, first>>
  BY DEF PersistFailure, Judged
<1> HIDE DEF new, initial
<1>3. /\ row' = NoRow \/ row' \in Row
      /\ RowIsNewest'
      /\ ~Present(seen.id) => row' = row
      /\ Present(seen.id) /\ ~Outdated(seen) =>
              /\ row # NoRow
              /\ seen.password = row.password /\ seen.status = row.status /\ seen.failures = row.failures
              /\ row'.password = new.password /\ row'.status = new.status /\ row'.failures = new.failures
  BY <1>1, <1>2, WriteJudged
<1>4. raced \in BOOLEAN /\ first \in BOOLEAN /\ fails \in 0..Threshold /\ Threshold \in Nat
  BY ServiceAssumption DEF ServiceInvariant, TypeOK
<1>5. raced' \in BOOLEAN /\ first' \in BOOLEAN
  BY <1>0, <1>2, <1>4 DEF initial
<1>6. fails' \in 0..Threshold
  <2>1. CASE Present(seen.id)
    BY <1>2, <1>4, <2>1
  <2>2. CASE ~Present(seen.id)
    BY <1>2, <1>4, <2>2
  <2> QED BY <2>1, <2>2
<1>7. TypeOK'
  BY <1>3, <1>5, <1>6 DEF ServiceInvariant, TypeOK
<1>8. ASSUME row' # NoRow, ~raced'
      PROVE  row'.failures = fails' /\ (row'.status = "error_connection" <=> first' \/ fails' >= Threshold)
  <2>1. ~raced /\ ~Outdated(seen)
    BY <1>2, <1>8
  <2>2. row # NoRow => row.failures = fails /\ (row.status = "error_connection" <=> first \/ fails >= Threshold)
    BY <2>1 DEF ServiceInvariant, Verdict
  <2>3. CASE ~Present(seen.id)
    BY <1>2, <1>3, <1>8, <2>2, <2>3
  <2>4. CASE Present(seen.id)
    <3>1. /\ row.failures = fails /\ seen.failures = fails
          /\ seen.status = "error_connection" <=> first \/ fails >= Threshold
          /\ row'.status = new.status /\ row'.failures = new.failures
      BY <1>3, <2>1, <2>2, <2>4
    <3>2. new.failures = fails'
      BY <1>1, <1>2, <1>4, <2>4, <3>1
    <3>3. fails >= Threshold => fails' >= Threshold
      BY <1>2, <1>4, <2>4
    <3>4. new.status = "error_connection" <=> first' \/ fails' >= Threshold
      BY <1>1, <1>2, <2>4, <3>1, <3>2, <3>3
    <3> QED BY <3>1, <3>2, <3>4
  <2> QED BY <2>3, <2>4
<1>9. Verdict'
  BY <1>8 DEF Verdict
<1> QED BY <1>3, <1>7, <1>9 DEF ServiceInvariant

\* The answer of a sync is persisted.
LEMMA PersistKeeps == ASSUME ServiceInvariant, NEW w \in Terminals, Persist(w) PROVE ServiceInvariant'
<1> DEFINE s == session[w]
           t == tasks[s.slot]
<1>0. /\ rows' = rows /\ Resolve(w) /\ s.seen \in Row \cup {NoRow}
  BY ServiceAssumption DEF Persist, ServiceInvariant, SessionsHold, MayHold
<1>1. SessionsHold'
  BY <1>0, ResolveHolds DEF ServiceInvariant
<1>2. CASE PersistNothing(s.seen, t, s.op)
  BY <1>0, <1>1, <1>2, RowStays DEF PersistNothing
<1>3. CASE PersistRejection(s.seen, t, s.op)
  BY <1>0, <1>1, <1>3, RemoveRow DEF PersistRejection
<1>4. CASE s.seen # NoRow /\ PersistFailure(s.seen, t, s.op)
  BY <1>0, <1>1, <1>4, FailureKeeps
<1>5. CASE s.seen # NoRow /\ PersistSuccess(s.seen, t, s.op)
  <2>1. s.seen \in Row
    BY <1>0, <1>5
  <2>2. /\ raced' = (raced \/ Outdated(s.seen) \/ (Present(s.seen.id) /\ t.password # row.password))
        /\ IF Present(s.seen.id) THEN NoEvidence ELSE UNCHANGED <<fails, first>>
        /\ raced \in BOOLEAN
    BY <1>5 DEF PersistSuccess, Judged, ServiceInvariant, TypeOK
  <2>3. raced' \in BOOLEAN /\ (~raced' => ~raced /\ ~Outdated(s.seen))
    BY <2>2
  <2>4. ASSUME NEW new \in Row, NEW stamped, "id" \notin stamped, new.id = s.seen.id, new.status = "active", new.failures = 0,
               Write(s.seen, new, stamped)
        PROVE  ServiceInvariant'
    BY <1>0, <1>1, <2>1, <2>2, <2>3, <2>4, ResetKeeps
  <2>5. /\ MarkSynced(s.seen) \in Row /\ MarkWithheld(s.seen) \in Row
        /\ MarkSynced(s.seen).id = s.seen.id /\ MarkSynced(s.seen).status = "active" /\ MarkSynced(s.seen).failures = 0
        /\ MarkWithheld(s.seen).id = s.seen.id /\ MarkWithheld(s.seen).status = "active" /\ MarkWithheld(s.seen).failures = 0
    BY <2>1, MarkSyncedRow
  <2>6. \/ Write(s.seen, MarkSynced(s.seen), {"synced"})
        \/ Write(s.seen, MarkWithheld(s.seen), {"synced", "paused"})
    BY <1>5 DEF PersistSuccess
  <2> QED BY <2>4, <2>5, <2>6
<1> QED BY <1>2, <1>3, <1>4, <1>5 DEF Persist

\* Time passes over the row.
LEMMA TimeKeeps == ServiceInvariant /\ (Ages \/ PauseEnds) => ServiceInvariant'
<1> SUFFICES ASSUME ServiceInvariant, Ages \/ PauseEnds PROVE ServiceInvariant'
  OBVIOUS
<1>1. row \in Row /\ row # NoRow /\ UNCHANGED <<rows, session, evidence>>
  BY DEF Ages, PauseEnds, ServiceInvariant, TypeOK
<1>2. row' \in Row /\ row'.id = row.id /\ row'.status = row.status /\ row'.failures = row.failures
  BY <1>1 DEF Ages, PauseEnds, Row
<1>3. SessionsHold'
  BY <1>1 DEF ServiceInvariant, SessionsHold, MayHold
<1> QED BY <1>1, <1>2, <1>3 DEF ServiceInvariant, TypeOK, RowIsNewest, Verdict, evidence

\* Nobody has the login yet.
LEMMA ServiceStarts == Init => ServiceInvariant
<1> SUFFICES ASSUME Init PROVE ServiceInvariant
  OBVIOUS
<1>1. 0 \in 0..Threshold /\ 0 \in 0..MaxRows
  BY ServiceAssumption
<1>2. TypeOK
  BY <1>1 DEF Init, TypeOK
<1>3. SessionsHold
  BY OffHolds DEF Init, SessionsHold
<1> QED BY <1>2, <1>3 DEF Init, ServiceInvariant, RowIsNewest, Verdict

\* Every step keeps the invariant.
LEMMA ServiceStep == ServiceInvariant /\ [Next]_vars => ServiceInvariant'
<1> SUFFICES ASSUME ServiceInvariant, [Next]_vars PROVE ServiceInvariant'
  OBVIOUS
<1>1. CASE Delete
  <2>1. /\ "client" \in Actor /\ SessionsHold /\ Close("client") /\ UNCHANGED <<rows, evidence>>
        /\ Remove(session["client"].seen.id)
    BY <1>1 DEF Delete, Actor, ServiceInvariant
  <2>2. SessionsHold'
    BY <2>1, SessionCloses
  <2> QED BY <2>1, <2>2, RemoveRow
<1>2. CASE UNCHANGED vars
  <2>1. UNCHANGED <<row, rows, session, evidence>>
    BY <1>2 DEF vars
  <2>2. SessionsHold'
    BY <2>1 DEF ServiceInvariant, SessionsHold, MayHold
  <2> QED BY <2>1, <2>2, RowStays
<1> QED
  BY <1>1, <1>2, OpensKeep, PatchKeeps, RequestsKeep, CreateKeeps, RetakeKeeps, PersistKeeps, TimeKeeps
     DEF Next, Requests

\* The row keeps the ranges of its columns whatever sessions merge in it, for any
\* passwords, terminals, syncs and registrations.
THEOREM AccountTypeCorrect == Spec => []TypeOK
<1>1. ServiceInvariant => TypeOK
  BY DEF ServiceInvariant
<1> QED BY <1>1, ServiceStarts, ServiceStep, PTL DEF Spec

\* An account is in error exactly when its failed syncs earned it, for any threshold,
\* unless some verdict met a change it had not read.
THEOREM ErrorsAreEarned == Spec => []ErrorIsEarned
<1>1. ServiceInvariant => ErrorIsEarned
  BY DEF ServiceInvariant, Verdict, ErrorIsEarned
<1> QED BY <1>1, ServiceStarts, ServiceStep, PTL DEF Spec
=============================================================================
