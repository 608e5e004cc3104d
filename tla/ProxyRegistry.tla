---------------------------- MODULE ProxyRegistry ----------------------------
(***************************************************************************)
(* ProxyRegistry (services/proxy_service.py) and its two callers in         *)
(* pool/manager.py: which proxy each terminal is pinned to in the table     *)
(* mt5terminalproxy, and which its worker was given.                        *)
(*                                                                         *)
(* rotate() reads the table, awaits the provider's list, then chooses and   *)
(* commits, and its caller gives the worker what it returns in a later step: *)
(* rotations of two terminals interleave at both awaits.  A proxy is its    *)
(* endpoint; the order of the provider's list is left open.                 *)
(***************************************************************************)
EXTENDS FiniteSets

CONSTANTS Terminals, Proxies, NoProxy

ASSUME RegistryAssumption == NoProxy \notin Proxies

VARIABLES
  table,     \* mt5terminalproxy: the proxy each terminal is assigned
  held,      \* WorkerHandle.proxy
  asking,    \* per terminal: a rotation under way, and its locals
  written,   \* the terminals whose rotation has committed and not yet returned
  idle,      \* the terminals whose worker is idle
  listed,    \* the proxies the provider would list, if it answered
  overlap    \* history: a rotation has read the table, since load() last had the
             \* list, while another had read and not written it

vars == <<table, held, asking, written, idle, listed, overlap>>

MaybeProxy == Proxies \cup {NoProxy}

NotAsking == [by |-> "nobody", dead |-> NoProxy, assigned |-> [t \in Terminals |-> NoProxy]]

Init ==
  /\ table = [t \in Terminals |-> NoProxy] /\ held = table
  /\ asking = [t \in Terminals |-> NotAsking]
  /\ written = {}
  /\ idle = Terminals
  /\ listed = Proxies
  /\ overlap = FALSE

\* repo.set(path, proxy) for each path, and commit().
Assign(new) == table' = new

Distinct(assignment, S) ==
  \A s, t \in S : s # t /\ assignment[s] # NoProxy => assignment[s] # assignment[t]

-----------------------------------------------------------------------------
(* load(), when the service starts; whatever ran before is gone *)

Restart == /\ asking' = [t \in Terminals |-> NotAsking]
           /\ written' = {}
           /\ idle' = Terminals
           /\ UNCHANGED listed

\* The terminals that keep a proxy: still listed, and no two of them share it.
Kept(keep) == /\ \A t \in keep : table[t] \in listed
              /\ Distinct(table, keep)
              /\ \A t \in Terminals \ keep : table[t] \in listed => \E s \in keep : table[s] = table[t]

\* A terminal stays without a proxy only when none is left for it.
Filled(new) == /\ Distinct(new, Terminals)
               /\ \A t \in Terminals : new[t] \in listed \cup {NoProxy}
               /\ (\E t \in Terminals : new[t] = NoProxy) => listed \subseteq {new[t] : t \in Terminals}

\* Mutant: every terminal in turn takes a free proxy, its own or another.
LoadInOrder == \E new \in [Terminals -> MaybeProxy] :
                 /\ Filled(new)
                 /\ Assign(new) /\ held' = new /\ overlap' = FALSE
                 /\ Restart

Load ==
  \E new \in [Terminals -> MaybeProxy], keep \in SUBSET Terminals :
    /\ Kept(keep)
    /\ \A t \in keep : new[t] = table[t]
    /\ Filled(new)
    /\ Assign(new) /\ held' = new /\ overlap' = FALSE
    /\ Restart

\* WebshareUnavailable: the workers get what the table has.
LoadWithoutList == held' = table /\ UNCHANGED <<table, overlap>> /\ Restart

-----------------------------------------------------------------------------
(* rotate(), up to its await, to its commit, and to its caller *)

Deciding(t) == asking[t] # NotAsking /\ t \notin written

Ask(t, by, dead) ==
  /\ asking[t] = NotAsking
  /\ asking' = [asking EXCEPT ![t] = [by |-> by, dead |-> dead, assigned |-> table]]
  /\ overlap' = (overlap \/ \E s \in Terminals : Deciding(s))
  /\ UNCHANGED <<table, held, written, idle, listed>>

\* _run_item: the task's proxy is dead.
AskForTask(t) == t \notin idle /\ held[t] # NoProxy /\ Ask(t, "task", held[t])

\* _reproxy_idle: one terminal after the other.
AskForReaper(t) == /\ t \in idle /\ held[t] = NoProxy
                   /\ \A s \in Terminals : asking[s].by # "reaper"
                   /\ Ask(t, "reaper", NoProxy)

\* Mutant: the endpoints of the other terminals are not taken.
TakenOnlyDead(t) == {asking[t].dead}

Taken(t) == {asking[t].assigned[s] : s \in Terminals \ {t}} \cup {asking[t].dead}

\* What rotate() may return: a proxy nobody has, or none.
Choices(t) == LET free == listed \ Taken(t) IN IF free = {} THEN {NoProxy} ELSE free

\* Mutant: the worker keeps its dead proxy when there is no other.
KeepDead(t, proxy) ==
  IF proxy = NoProxy THEN UNCHANGED held ELSE held' = [held EXCEPT ![t] = proxy]

\* The task takes what it is given; the reaper only a proxy, for a worker still idle.
Give(t, proxy) ==
  IF asking[t].by = "reaper" /\ (proxy = NoProxy \/ t \notin idle)
  THEN UNCHANGED held
  ELSE held' = [held EXCEPT ![t] = proxy]

\* The provider answered, or is unavailable: then the terminal goes unproxied.
Rotate(t) ==
  /\ Deciding(t)
  /\ \E proxy \in Choices(t) \cup {NoProxy} : Assign([table EXCEPT ![t] = proxy])
  /\ written' = written \cup {t}
  /\ UNCHANGED <<held, asking, idle, listed, overlap>>

Over(t) == asking' = [asking EXCEPT ![t] = NotAsking] /\ written' = written \ {t}

\* What rotate() returns is what it wrote: no other rotation writes its row.
Return(t) ==
  /\ t \in written
  /\ Give(t, table[t])
  /\ Over(t)
  /\ idle' = IF asking[t].by = "task" THEN idle \cup {t} ELSE idle
  /\ UNCHANGED <<table, listed, overlap>>

\* rotate() raises before its commit: its task's worker has failed, the reaper goes on.
Raise(t) == Deciding(t) /\ Over(t) /\ UNCHANGED <<table, held, idle, listed, overlap>>

-----------------------------------------------------------------------------
(* The worker and the provider *)

TakeTask(t) == t \in idle /\ idle' = idle \ {t} /\ UNCHANGED <<table, held, asking, written, listed, overlap>>

EndTask(t) == /\ t \notin idle /\ asking[t].by # "task"
              /\ idle' = idle \cup {t}
              /\ UNCHANGED <<table, held, asking, written, listed, overlap>>

\* The plan's proxies are replaced.
Relist == \E S \in SUBSET Proxies : listed' = S /\ UNCHANGED <<table, held, asking, written, idle, overlap>>

Next == \/ Load \/ LoadWithoutList \/ Relist
        \/ \E t \in Terminals : \/ AskForTask(t) \/ AskForReaper(t) \/ Rotate(t) \/ Return(t) \/ Raise(t)
                                \/ TakeTask(t) \/ EndTask(t)

Spec == Init /\ [][Next]_vars

-----------------------------------------------------------------------------
(* Properties *)

\* "Every terminal connects through its own proxy" (README:95): a rotation that
\* reads the table while no other is between reading and writing it never gives
\* a terminal the proxy of another: not after proxies died, were replaced, or the
\* service came back without the provider's list.
OwnProxyAlone == ~overlap => Distinct(table, Terminals)

\* A worker that has a proxy has the one the table says, other rotations under
\* way included, but for the time between its own rotation's commit and return:
\* once that is over, the status and the database never name two.
HeldIsAssigned ==
  \A t \in Terminals \ written : held[t] # NoProxy => held[t] = table[t]

\* "Pinned to it" (README:95): a terminal leaves a proxy only because a task
\* found it dead, the provider no longer lists it, or another terminal has it.
Pinned ==
  [][\A t \in Terminals :
       held[t] # NoProxy /\ held'[t] # held[t] =>
         \/ asking[t].dead = held[t]
         \/ held[t] \notin listed
         \/ \E s \in Terminals \ {t} : table[s] = table[t]]_vars
=============================================================================
