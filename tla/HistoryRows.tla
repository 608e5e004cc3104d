----------------------------- MODULE HistoryRows -----------------------------
(***************************************************************************)
(* The history of one account on its way from the broker to the rows: the   *)
(* terminal downloads it while fetch_history waits for it to settle, the    *)
(* payload is built from what had come by then, a part of the positions is  *)
(* measured (enrich_mae_mfe), and persist writes it over what earlier syncs *)
(* left.  A scheduled and a hard sync of the account may be under way at    *)
(* once, on two terminals when the account was moved between them.          *)
(***************************************************************************)
EXTENDS Integers, Sequences, SequencesExt

CONSTANTS Positions, Payments,  \* what a deal belongs to
          Start,                \* the deals the broker has at first
          Deals,                \* how many deals each comes to; a position's first opens it
          MaxDeals,             \* bound: deals of the account
          Parts(_),             \* of n deals, the sets a terminal may have downloaded
          Pair,                 \* the symbol of each position
          Failing, Empty,       \* positions whose candles fail, or do not fit, for ever
          EnrichLimit,          \* enrich_limit
          SymbolFailureLimit,   \* _SYMBOL_FAILURE_LIMIT
          ErrorThreshold,       \* settings.account_error_threshold
          NoRow

Measurable == Positions \ (Failing \cup Empty)

ASSUME HistoryAssumption ==
  /\ MaxDeals \in Nat /\ Start \in Seq(Positions \cup Payments) /\ Len(Start) <= MaxDeals
  /\ Deals \in [Positions \cup Payments -> Nat \ {0}]
  /\ \A x \in Positions \cup Payments : Cardinality({i \in DOMAIN Start : Start[i] = x}) <= Deals[x]
  /\ \A n \in 0..MaxDeals : Parts(n) \subseteq SUBSET (1..n)
  /\ EnrichLimit \in Nat \ {0} /\ SymbolFailureLimit \in Nat \ {0} /\ ErrorThreshold \in Nat \ {0}
  /\ NoRow \notin [own : SUBSET (1..MaxDeals), ledger : BOOLEAN, basis : SUBSET (1..MaxDeals)]

\* README:866: the deferred ones are measured by later syncs.  That needs room
\* for them beside those that stay unmeasured.
ASSUME RoomAssumption ==
  /\ Cardinality(Failing \cup Empty) < EnrichLimit
  /\ \A p \in Failing : Cardinality({q \in Failing : Pair[q] = Pair[p]}) < SymbolFailureLimit

VARIABLES
  history,   \* the broker's deals of the account, oldest first
  sync,      \* per kind: how far a sync has come, and what it read
  rows,      \* table mt5position
  opens,     \* table mt5openposition
  payments,  \* table mt5transaction
  failedInARow, \* consecutive_failures, up to the threshold
  torn       \* history: positions that some payload held without all their deals

tables == <<rows, opens, payments>>
vars == <<history, sync, tables, failedInARow, torn>>

Kind == {"scheduled", "hard"}

None == [at |-> "none", skip |-> {}, balance |-> 0, part |-> {}, open |-> {}, withheld |-> FALSE, measured |-> {}]

Init ==
  /\ history = Start
  /\ sync = [k \in Kind |-> None]
  /\ rows = [p \in Positions |-> NoRow]
  /\ opens = {} /\ payments = {}
  /\ failedInARow = 0
  /\ torn = {}

-----------------------------------------------------------------------------
(* The broker and the deals of a position *)

Of(x, S) == {i \in S : history[i] = x}

All == DOMAIN history

IsOpening(i) == \A j \in 1..(i - 1) : history[j] # history[i]

\* Mutant: an opened position counts as closed.
ClosedOnceOpened(S) == {p \in Positions : Of(p, S) # {}}

\* build_fx_positions keeps the positions with a closing deal.
Closed(S) == {p \in Positions : \E i \in Of(p, S) : ~IsOpening(i)}

\* History: a closing deal is there and another deal is not.
Torn(S) == {p \in Positions : (\E i \in Of(p, S) : ~IsOpening(i)) /\ Cardinality(Of(p, S)) < Deals[p]}

\* build_transactions
Paid(S) == {x \in Payments : Of(x, S) # {}}

Open == {p \in Positions : Of(p, All) # {} /\ Cardinality(Of(p, All)) < Deals[p]}

Latest(p, S) == Max(Of(p, S))

Trade ==
  \E x \in Positions \cup Payments :
    /\ Cardinality(Of(x, All)) < Deals[x]
    /\ Len(history) < MaxDeals   \* bound
    /\ history' = Append(history, x)
    /\ UNCHANGED <<sync, tables, failedInARow, torn>>

-----------------------------------------------------------------------------
(* SyncService.request reads what is measured; fetch_history *)

Measured == {p \in Positions : rows[p] # NoRow /\ rows[p].basis # {}}

\* The status is error_connection: due_for_sync leaves the account out.
InError == failedInARow = ErrorThreshold

\* The scheduler asks for an active account only, a client for any.
AskedFor(k) == sync[k].at = "none" /\ (k = "scheduled" => ~InError)

\* Mutant: every row counts as measured.
RequestSkipsRows(k) ==
  /\ AskedFor(k)
  /\ sync' = [sync EXCEPT ![k] = [None EXCEPT !.at = "queued", !.skip = {p \in Positions : rows[p] # NoRow}]]
  /\ UNCHANGED <<history, tables, failedInARow, torn>>

Request(k) ==
  /\ AskedFor(k)
  /\ sync' = [sync EXCEPT ![k] = [None EXCEPT !.at = "queued", !.skip = Measured]]
  /\ UNCHANGED <<history, tables, failedInARow, torn>>

\* The balance is read first; then wait_for_history, up to its deadline.
FetchAccount(k) ==
  /\ sync[k].at = "queued"
  /\ sync' = [sync EXCEPT ![k] = [@ EXCEPT !.at = "settle", !.balance = Len(history)]]
  /\ UNCHANGED <<history, tables, failedInARow, torn>>

-----------------------------------------------------------------------------
(* enrich_mae_mfe *)

\* The newest of the closed positions without a figure.
Selected(S, skip) ==
  LET last == {Latest(p, S) : p \in Closed(S) \ skip}
      newest == SelectSeq([i \in 1..Len(history) |-> Len(history) + 1 - i], LAMBDA i : i \in last)
  IN [j \in 1..Min({EnrichLimit, Len(newest)}) |-> history[newest[j]]]

\* One position after the other; a symbol that failed too often in a row is abandoned.
Walk(ps, broken) ==
  LET step(acc, p) ==
        IF acc.failures[Pair[p]] >= SymbolFailureLimit THEN acc
        ELSE IF p \in broken THEN [acc EXCEPT !.failures[Pair[p]] = @ + 1]
        ELSE [failures |-> [acc.failures EXCEPT ![Pair[p]] = 0],
              done |-> IF p \in Empty THEN acc.done ELSE acc.done \cup {p}]
  IN FoldLeft(step, [failures |-> [c \in Range(Pair) |-> 0], done |-> {}], ps).done

-----------------------------------------------------------------------------
(* The worker reads what has come of the history and measures; from here on  *)
(* it looks at nothing that changes meanwhile                                *)

\* history_withheld: deals there must have been, from what else the broker says.
Withheld(S, odd) == S = {} /\ (Open # {} \/ (odd /\ history # <<>>))

\* Candles may fail at any position, the budget be over after any but the first.
Fetch(k, S, broken, upto) ==
  LET ps == Selected(S, sync[k].skip) IN
  /\ sync[k].at = "settle"
  /\ broken \subseteq Range(ps) /\ Failing \cap Range(ps) \subseteq broken
  /\ upto \in 1..Len(ps) \/ (upto = 0 /\ ps = <<>>)
  /\ \E odd \in BOOLEAN :   \* the balance is not round, or not the equity
       sync' = [sync EXCEPT ![k] = [@ EXCEPT
         !.at = "answer", !.part = S, !.open = Open,
         !.withheld = Withheld(S, odd), !.measured = Walk(SubSeq(ps, 1, upto), broken)]]
  /\ UNCHANGED <<history, tables, failedInARow, torn>>

\* A timeout, a lost terminal (also in the middle of the candles): no payload,
\* and mark_error.  A quarantine or a persist that raises leaves all as it is.
Fail(k) ==
  /\ sync[k].at # "none"
  /\ sync' = [sync EXCEPT ![k] = None]
  /\ failedInARow' \in {failedInARow, IF InError THEN failedInARow ELSE failedInARow + 1}
  /\ UNCHANGED <<history, tables, torn>>

\* A PATCH with credentials makes the account active again.
Renew == failedInARow' = 0 /\ UNCHANGED <<history, sync, tables, torn>>

-----------------------------------------------------------------------------
(* SyncService._persist: the row repositories, in one transaction *)

\* The balance after a position's last deal is the account's balance less what
\* the payload has of the deals since.
Ledger(s, p) ==
  LET last == Latest(p, s.part) IN
  last <= s.balance /\ {i \in s.part : i > last} = (last + 1)..s.balance

\* Mutant: a position that was not measured loses its figures.
UpsertOver(s, p) == [own |-> Of(p, s.part), ledger |-> Ledger(s, p),
                     basis |-> IF p \in s.measured THEN Of(p, s.part) ELSE {}]

\* Mutant: a row that is there is left alone.
UpsertNew(s, p) ==
  IF rows[p] # NoRow THEN rows[p]
  ELSE [own |-> Of(p, s.part), ledger |-> Ledger(s, p), basis |-> IF p \in s.measured THEN Of(p, s.part) ELSE {}]

\* basis: the deals mae and mfe were measured over; a payload without them keeps the old ones.
Upsert(s, p) ==
  [own |-> Of(p, s.part), ledger |-> Ledger(s, p),
   basis |-> IF p \in s.measured THEN Of(p, s.part) ELSE IF rows[p] = NoRow THEN {} ELSE rows[p].basis]

Persist(k) ==
  LET s == sync[k] IN
  /\ s.at = "answer"
  /\ opens' = s.open
  /\ IF s.withheld THEN UNCHANGED <<rows, payments, torn>>
     ELSE /\ rows' = [p \in Positions |-> IF p \in Closed(s.part) THEN Upsert(s, p) ELSE rows[p]]
          /\ payments' = payments \cup Paid(s.part)
          /\ torn' = torn \cup Torn(s.part)
  /\ sync' = [sync EXCEPT ![k] = None]
  /\ failedInARow' = 0
  /\ UNCHANGED history

-----------------------------------------------------------------------------
Read(k) == \E S \in Parts(Len(history)), broken \in SUBSET Positions, upto \in 0..EnrichLimit :
             Fetch(k, S, broken, upto)

Next == Trade \/ Renew \/ \E k \in Kind : Request(k) \/ FetchAccount(k) \/ Read(k) \/ Fail(k) \/ Persist(k)

Spec == Init /\ [][Next]_vars

\* The scheduler asks for as long as the account is enabled and active, and a sync
\* ends by the task timeout; again and again the whole history has come in time,
\* with nothing but what fails for ever failing, and what such a sync brought is
\* written.
FetchWhole(k) ==
  LET ps == Selected(All, sync[k].skip) IN
  sync[k].balance = Len(history) /\ Fetch(k, All, Failing \cap Range(ps), Len(ps))

PersistWhole(k) ==
  /\ sync[k].at = "answer" /\ sync[k].part = All /\ sync[k].balance = Len(history)
  /\ sync[k].measured = Walk(Selected(All, sync[k].skip), Failing)
  /\ Persist(k)

Fairness ==
  LET k == "scheduled" IN
  /\ WF_vars(Request(k)) /\ WF_vars(Fail(k))
  /\ SF_vars(FetchAccount(k)) /\ SF_vars(FetchWhole(k)) /\ SF_vars(PersistWhole(k))

FairSpec == Spec /\ Fairness

-----------------------------------------------------------------------------
(* Properties *)

\* "PositionRepository treats an absent value as not recalculated" (README:858)
\* and a partial or withheld history takes no row away: what once was written of a
\* position, and that it was measured, stays, whatever two syncs bring in which order.
NothingIsLost ==
  [][\A p \in Positions : rows[p] # NoRow =>
       rows'[p] # NoRow /\ (rows[p].basis # {} => rows'[p].basis # {})]_vars

\* "A closed position's excursion never changes once measured" (README:851), so
\* it is never measured again: the figures are over all the deals of the position
\* unless a sync wrote it before its last deal or without some of them.
MeasuredWhole ==
  \A p \in Measured : rows[p].basis = Of(p, All) \/ p \in torn

\* Whatever partial histories, crossed syncs and a balance read too early have
\* left, the rows say again what the broker says, unless the account has failed
\* so often in a row that the scheduler leaves it alone.
UpToDate ==
  /\ opens = Open
  /\ payments = Paid(All)
  /\ \A p \in Closed(All) : rows[p] # NoRow /\ rows[p].own = Of(p, All) /\ rows[p].ledger

CatchesUp == []<>(UpToDate \/ InError)

\* "leaves the rest to the syncs that follow" (README:870): every closed position
\* with candles is measured in the end, for an account that is asked for.
EveryoneMeasured == []<>(Measurable \cap Closed(All) \subseteq Measured \/ InError)
=============================================================================
