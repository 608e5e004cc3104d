------------------------------- MODULE Reclone -------------------------------
(***************************************************************************)
(* The folders of a terminal and of the master (pool/reclone.py), as        *)
(* PoolManager._maybe_reclone and _maybe_refresh_master change them, one at *)
(* a time under _reclone_lock.  Every call on the disk is a step, before    *)
(* and in which the work may end: an OSError, or the end of the service.    *)
(*                                                                         *)
(* A folder is what the next one takes from it: the build of its            *)
(* executables, the brokers in its servers.dat (none: no such file), where  *)
(* it holds an accounts.dat, and whether it is complete.                    *)
(***************************************************************************)
EXTENDS Naturals, FiniteSets

CONSTANTS Builds,      \* build_of: the md5 of terminal64.exe
          NoFolder,
          Brokers,
          Size(_)      \* st_size of a servers.dat with these brokers

\* Config, where the copy skips accounts.dat, and any other directory.
Place == {"config", "elsewhere"}

Folder == [build : Builds, servers : SUBSET Brokers, accounts : SUBSET Place, whole : BOOLEAN]

ASSUME RecloneAssumption ==
  /\ Builds # {}
  /\ NoFolder \notin Folder

VARIABLES
  terminal,   \* tN
  broken,     \* tN.broken-<stamp>
  master,     \* the master
  stage,      \* master.staging
  previous,   \* master.replaced-<stamp>
  doing,      \* the call reclone_terminal or promote_master has come to
  learnt,     \* history: the brokers the terminal's servers.dat has come to hold
  cut,        \* history: a reclone ended between the move and its own end
  lossy       \* history: a reclone began over one that was cut

disk == <<terminal, broken, master, stage, previous>>
history == <<learnt, cut, lossy>>
vars == <<disk, doing, history>>

MaybeFolder == Folder \cup {NoFolder}

Exists(f) == f # NoFolder

\* copytree with _ignored_in.
Copy(f) == [f EXCEPT !.accounts = @ \ {"config"}]

Some(f) == {[f EXCEPT !.whole = FALSE, !.servers = S] : S \in {{}, f.servers}}

\* What a copy that did not come to its end has left.
Part(f) == Some(Copy(f))

\* rmtree with ignore_errors: the folder is gone, or some of it is left.
Rest(f) == {NoFolder} \cup (IF Exists(f) THEN Some(f) ELSE {})

Init ==
  /\ terminal \in [build : Builds, servers : {{}}, accounts : {{}}, whole : {TRUE}]
  /\ master \in [build : Builds, servers : {{}}, accounts : {{}}, whole : {TRUE}]
  /\ broken = NoFolder /\ stage = NoFolder /\ previous = NoFolder
  /\ doing = "none"
  /\ learnt = {} /\ cut = FALSE /\ lossy = FALSE

-----------------------------------------------------------------------------
(* reclone_terminal, once nothing runs in the folder any more *)

\* Without a master it raises before it touches anything.
BeginReclone ==
  /\ doing = "none" /\ Exists(master)
  /\ doing' = "clear"
  /\ UNCHANGED <<disk, history>>

ClearBroken ==
  /\ doing = "clear"
  /\ broken' \in Rest(broken)
  /\ lossy' = (lossy \/ cut)
  /\ doing' = "move"
  /\ UNCHANGED <<terminal, master, stage, previous, learnt, cut>>

\* os.rename raises when there is no folder: End.
MoveAside ==
  /\ doing = "move" /\ Exists(terminal)
  /\ broken' = terminal /\ terminal' = NoFolder
  /\ doing' = "copy"
  /\ UNCHANGED <<master, stage, previous, history>>

CopyMaster ==
  /\ doing = "copy"
  /\ terminal' = Copy(master)
  /\ doing' = "install"
  /\ UNCHANGED <<broken, master, stage, previous, history>>

CopyBreaks ==
  /\ doing = "copy"
  /\ terminal' \in Part(master)
  /\ cut' = TRUE
  /\ doing' = "none"
  /\ UNCHANGED <<broken, master, stage, previous, learnt, lossy>>

\* _install_quorum_build: the quorum's executables, or none to lay over.
InstallBuild ==
  /\ doing = "install"
  /\ \E b \in Builds : terminal' = [terminal EXCEPT !.build = b]
  /\ doing' = "carry"
  /\ UNCHANGED <<broken, master, stage, previous, history>>

\* Mutant: the smaller servers.dat is kept.
LeastServers(old, new) == IF Size(new) >= Size(old) THEN old ELSE new

\* _carry_servers_dat keeps the clone's unless it is the smaller file, whatever is in it.
Carried(old, new) == IF old = {} \/ (new # {} /\ Size(new) >= Size(old)) THEN new ELSE old

CarryServers ==
  /\ doing = "carry"
  /\ terminal' = [terminal EXCEPT !.servers = Carried(broken.servers, @)]
  /\ doing' = "mark"
  /\ UNCHANGED <<broken, master, stage, previous, history>>

\* remove_marker, and the report of success.
Finish ==
  /\ doing = "mark"
  /\ doing' = "none"
  /\ learnt' = terminal.servers /\ cut' = FALSE /\ lossy' = FALSE
  /\ UNCHANGED disk

-----------------------------------------------------------------------------
(* promote_master *)

ClearStage ==
  /\ doing = "none"
  /\ stage' \in Rest(stage)
  /\ doing' = "stage"
  /\ UNCHANGED <<terminal, broken, master, previous, history>>

\* The folder of an idle healthy terminal, logged in and with whatever it holds.
Source == [build : Builds, servers : SUBSET Brokers, accounts : SUBSET Place, whole : {TRUE}]

\* copytree raises over what is left of an older stage: End.
Stage ==
  /\ doing = "stage" /\ ~Exists(stage)
  /\ \E f \in Source : stage' = Copy(f)
  /\ doing' = "check"
  /\ UNCHANGED <<terminal, broken, master, previous, history>>

StageBreaks ==
  /\ doing = "stage" /\ ~Exists(stage)
  /\ \E f \in Source : stage' \in Part(f)
  /\ doing' = "none"
  /\ UNCHANGED <<terminal, broken, master, previous, history>>

\* Mutant: an accounts.dat outside Config is overlooked.
PassesConfig(f) == "config" \notin f.accounts

\* No accounts.dat anywhere below the staged master.
Passes(f) == f.accounts = {}

Check ==
  /\ doing = "check"
  /\ IF Passes(stage)
     THEN doing' = (IF Exists(master) THEN "previous" ELSE "swap") /\ UNCHANGED stage
     ELSE doing' = "none" /\ stage' \in Rest(stage)
  /\ UNCHANGED <<terminal, broken, master, previous, history>>

ClearPrevious ==
  /\ doing = "previous"
  /\ previous' \in Rest(previous)
  /\ doing' = "retire"
  /\ UNCHANGED <<terminal, broken, master, stage, history>>

\* Mutant: the old master is removed instead of moved.
RemoveMaster ==
  /\ doing = "retire"
  /\ master' = NoFolder
  /\ doing' = "swap"
  /\ UNCHANGED <<terminal, broken, previous, stage, history>>

RetireMaster ==
  /\ doing = "retire"
  /\ previous' = master /\ master' = NoFolder
  /\ doing' = "swap"
  /\ UNCHANGED <<terminal, broken, stage, history>>

SwapIn ==
  /\ doing = "swap"
  /\ master' = stage /\ stage' = NoFolder
  /\ doing' = "none"
  /\ UNCHANGED <<terminal, broken, previous, history>>

-----------------------------------------------------------------------------
\* A call raises, or the service ends, before the next step.
End ==
  /\ doing # "none"
  /\ doing' = "none"
  /\ cut' = (cut \/ doing \in {"copy", "install", "carry", "mark"})
  /\ UNCHANGED <<disk, learnt, lossy>>

\* The terminal works in its folder: it logs in, and it learns a server.
Work ==
  /\ doing \notin {"clear", "move", "copy", "install", "carry", "mark"}
  /\ Exists(terminal)
  /\ \E new \in SUBSET Brokers :
       /\ terminal' = [terminal EXCEPT !.servers = @ \cup new, !.accounts = @ \cup {"config"}]
       /\ learnt' = learnt \cup new
  /\ UNCHANGED <<broken, master, stage, previous, doing, cut, lossy>>

Next ==
  \/ BeginReclone
  \/ ClearBroken
  \/ MoveAside
  \/ CopyMaster
  \/ CopyBreaks
  \/ InstallBuild
  \/ CarryServers
  \/ Finish
  \/ ClearStage
  \/ Stage
  \/ StageBreaks
  \/ Check
  \/ ClearPrevious
  \/ RetireMaster
  \/ SwapIn
  \/ End
  \/ Work

Spec == Init /\ [][Next]_vars

-----------------------------------------------------------------------------
(* Properties *)

\* Every variable keeps its range, and each call finds the folders it works on.
TypeOK ==
  /\ terminal \in MaybeFolder /\ broken \in MaybeFolder
  /\ master \in MaybeFolder /\ stage \in MaybeFolder /\ previous \in MaybeFolder
  /\ doing \in {"none", "clear", "move", "copy", "install", "carry", "mark",
                "stage", "check", "previous", "retire", "swap"}
  /\ learnt \in SUBSET Brokers /\ cut \in BOOLEAN /\ lossy \in BOOLEAN
  /\ doing \in {"clear", "move", "copy", "install", "carry", "mark", "previous", "retire"} => Exists(master)
  /\ doing \in {"install", "carry", "mark"} => Exists(terminal)
  /\ doing \in {"copy", "install", "carry", "mark"} => Exists(broken)
  /\ doing \in {"check", "previous", "retire", "swap"} => Exists(stage)

Clean(f) == f.accounts = {}

\* No cut leaves the host without a master to clone from: there is a complete one
\* without credentials, or the complete one it is about to replace.
MasterSurvives == LET current == IF Exists(master) THEN master ELSE previous
                  IN  Exists(current) /\ current.whole /\ Clean(current)

\* No account's credentials travel to another terminal: what comes out of a reclone
\* is complete and holds none (README:501, README:969).
CloneIsClean == doing \in {"install", "carry", "mark"} => terminal.whole /\ Clean(terminal)

Known(f) == IF Exists(f) THEN f.servers ELSE {}

\* What the terminal had learnt of servers is in its folder or in the copy put
\* aside for as long as it is rebuilt, and in the folder after that unless the
\* master's file, whatever it holds, is as large as the one it had; but for a
\* reclone that began over one that had been cut: the second removes the copy the
\* first had not yet read.
ServersSurvive ==
  ~lossy => /\ learnt \subseteq Known(terminal) \cup Known(broken)
            /\ doing = "mark" => \/ learnt \subseteq terminal.servers
                                \/ Size(terminal.servers) >= Size(broken.servers)
=============================================================================
