----------------------------- MODULE MCSyncData -----------------------------
(* What a sync brings, its history and its clock: an instance of both.  They *)
(* share no state, so each behaviour follows one of them.                   *)
EXTENDS HistoryRows, Clock

CONSTANTS q1, q2, u, d   \* positions, one whose candles always fail, and a deposit

\* u is closed, q1 in part and q2 not yet; one of the two has one more deal.
Begun == <<q1, d, q1, u, u, q2>>

DealCounts == [x \in Positions \cup Payments |-> IF x = q1 THEN 3 ELSE IF x = d THEN 1 ELSE 2]

\* A terminal that has downloaded nothing, all but the oldest deal, everything.
SomeParts(n) == {{}, 2..n, 1..n}

OneSymbol == [p \in Positions |-> "s"]

VARIABLE followed

allVars == <<vars, clockVars, followed>>

\* Where the history is followed, the clock stands still.
SyncDataInit ==
  /\ followed \in {"history", "clock"}
  /\ Init /\ ClockInit
  /\ followed = "history" => timeline = [j \in 1..Weeks |-> [offset |-> 4, end |-> "full"]]

SyncDataNext ==
  /\ \/ followed = "history" /\ Next /\ UNCHANGED clockVars
     \/ followed = "clock" /\ ClockNext /\ UNCHANGED vars
  /\ UNCHANGED followed

SyncDataSpec == SyncDataInit /\ [][SyncDataNext]_allVars /\ Fairness
=============================================================================
