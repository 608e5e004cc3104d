------------------------------- MODULE MCPool -------------------------------
(* Instances of Pool for TLC. *)
EXTENDS Pool

CONSTANTS w1, a1

Task(id, a, k, w) == [id |-> id, account |-> a, kind |-> k, terminal |-> w]

\* One terminal and one account: a sync of each priority and limit, the first
\* one after a registration and one at normal priority.
InitialAndScheduled == {Task(1, a1, "initial", w1), Task(2, a1, "scheduled", w1)}

\* The second may be the scheduler's, or a client's that does not wait.
Second == {t \in Tasks : t.id = 2}

NobodysTask == {}

Result(code, lost, dead, replaced) ==
  [code |-> code, lost |-> lost, proxyDead |-> dead, replaced |-> replaced]

\* What a worker can report: a success or a rejection never loses the
\* terminal, a dead proxy under an IPC code always does.
WorkerOutcomes ==
  {r \in Outcome :
     /\ r.code \in {"ok", "auth"} => ~r.lost /\ ~r.proxyDead
     /\ r.code = "other" => ~r.lost
     /\ r.code = "ipc" /\ r.proxyDead => r.lost
     /\ r.code = "broken" => ~r.lost /\ ~r.proxyDead /\ ~r.replaced}

\* One of each way on: a success, a rejection, a crash, a dead proxy that took
\* the terminal with it.
ProgressOutcomes == {Result("ok", FALSE, FALSE, FALSE), Result("auth", FALSE, FALSE, FALSE),
                     Result("broken", FALSE, FALSE, FALSE), Result("ipc", TRUE, TRUE, FALSE)}
=============================================================================
