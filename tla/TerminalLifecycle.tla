-------------------------- MODULE TerminalLifecycle --------------------------
(***************************************************************************)
(* What the pool promises about the state of a terminal (TerminalState in  *)
(* pool/health.py): the only ways a terminal gets worse, and the only ways *)
(* back.  HealthBoard is shown to implement this module; the health of     *)
(* terminals in Pool moves by its definitions.                             *)
(***************************************************************************)
CONSTANT Terminals

VARIABLE health      \* TerminalState of each terminal

TerminalState == {"healthy", "suspect", "quarantined", "recloning"}

UsableState == {"healthy", "suspect"}

\* A start that reached initialize() lifts a suspicion, never a quarantine.
AfterSuccess(s) == IF s = "suspect" THEN "healthy" ELSE s

\* A strike worsens a usable terminal by at most one degree.
AfterStrike(s) == CASE s = "healthy" -> {"healthy", "suspect"}
                    [] s = "suspect" -> {"suspect", "quarantined"}
                    [] OTHER         -> {s}

Init == health = [w \in Terminals |-> "healthy"]

Success(w) == health' = [health EXCEPT ![w] = AfterSuccess(@)]

Strike(w) == \E s \in AfterStrike(health[w]) : health' = [health EXCEPT ![w] = s]

StartReclone(w) == /\ health[w] = "quarantined"
                   /\ health' = [health EXCEPT ![w] = "recloning"]

EndReclone(w) == /\ health[w] = "recloning"
                 /\ \E s \in {"healthy", "quarantined"} : health' = [health EXCEPT ![w] = s]

Next == \E w \in Terminals : Success(w) \/ Strike(w) \/ StartReclone(w) \/ EndReclone(w)

Spec == Init /\ [][Next]_health
=============================================================================
