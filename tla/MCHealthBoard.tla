---------------------------- MODULE MCHealthBoard ----------------------------
(* Instances of HealthBoard for TLC. *)
EXTENDS HealthBoard

Start(ok, initialized, died, zombie, ipcFailed) ==
  [ok |-> ok, initialized |-> initialized, died |-> died, zombie |-> zombie, ipcFailed |-> ipcFailed]

\* Every combination a worker can report: a killed zombie may be followed by a
\* launch that works, dies or does not answer.
StartReports ==
  {r \in Report : r.initialized => ~r.died /\ ~r.ipcFailed}

\* A good start, a dead one, one that never answers.
ThreeReports ==
  {Start(TRUE, TRUE, FALSE, FALSE, FALSE), Start(FALSE, FALSE, TRUE, FALSE, FALSE),
   Start(FALSE, FALSE, FALSE, FALSE, TRUE)}

\* With a launch after a killed zombie that came up, and one that never answered.
FiveReports ==
  ThreeReports \cup {Start(FALSE, TRUE, FALSE, TRUE, FALSE), Start(FALSE, FALSE, FALSE, TRUE, TRUE)}
=============================================================================
