------------------------------ MODULE SyncTasks ------------------------------
(***************************************************************************)
(* What the pool promises of the syncs it is given (PoolManager.submit and  *)
(* the future it returns): a sync is accepted or dropped at once; the       *)
(* result of an accepted one is handed to the database, once, before its    *)
(* waiters see it; only the shutdown drops it without a result.  Pool is    *)
(* shown to implement this module.                                          *)
(***************************************************************************)
CONSTANT Tasks

VARIABLE phase      \* how far each sync has come

Phase == {"new", "accepted", "stored", "answered", "dropped"}

\* The ways of one sync: submitted, handed to on_result, resolved.
Ways == {<<"new", "accepted">>, <<"new", "dropped">>, <<"accepted", "stored">>,
         <<"accepted", "dropped">>, <<"stored", "answered">>}

Init == phase = [t \in Tasks |-> "new"]

\* A quarantine and the shutdown answer several syncs in one step.
Next == /\ phase' \in [Tasks -> Phase]
        /\ \A t \in Tasks : phase'[t] = phase[t] \/ <<phase[t], phase'[t]>> \in Ways

Spec == Init /\ [][Next]_phase

\* "A task always ends" (README:434).
Ends == \A t \in Tasks : phase[t] \in {"accepted", "stored"} ~> phase[t] \in {"answered", "dropped"}
=============================================================================
