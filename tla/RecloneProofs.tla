---------------------------- MODULE RecloneProofs ----------------------------
(* Proofs about Reclone. *)
EXTENDS Reclone, TLAPS

Rebuilding == {"copy", "install", "carry", "mark"}

InTerminal == Exists(terminal) /\ learnt \subseteq terminal.servers

InBroken == Exists(broken) /\ learnt \subseteq broken.servers

InEither == learnt \subseteq Known(terminal) \cup Known(broken)

\* The rebuilt terminal knows what it did, or has the master's larger file.
NotSmaller == \/ learnt \subseteq terminal.servers
              \/ Size(terminal.servers) >= Size(broken.servers)

\* What the steps of a promotion rely on.
Staged ==
  /\ doing \in {"check", "previous", "retire", "swap"} => stage.whole
  /\ doing \in {"previous", "retire", "swap"} => Clean(stage)

\* Where the servers are: with the terminal until the move, then in the copy put
\* aside, and after a cut between the two until the next reclone clears that copy.
ServersAt ==
  ~lossy => /\ doing = "move" => ~cut
            /\ doing \notin Rebuilding /\ ~cut => InTerminal
            /\ doing \notin Rebuilding => InEither
            /\ doing \in Rebuilding => InBroken
            /\ doing = "mark" => NotSmaller

\* The inductive invariant.
Invariant == TypeOK /\ MasterSurvives /\ CloneIsClean /\ Staged /\ ServersAt

\* A copy is a folder that differs from its original in Config's accounts.dat only.
LEMMA CopyIsFolder ==
  ASSUME NEW f \in Folder
  PROVE  /\ Copy(f) \in Folder
         /\ Copy(f).build = f.build /\ Copy(f).servers = f.servers /\ Copy(f).whole = f.whole
         /\ Copy(f).accounts = f.accounts \ {"config"}
  BY DEF Copy, Folder

\* What is left of a folder is a folder.
LEMMA SomeIsFolder ==
  ASSUME NEW f \in Folder, NEW g \in Some(f)
  PROVE  g \in Folder
<1>1. PICK S \in {{}, f.servers} : g = [f EXCEPT !.whole = FALSE, !.servers = S]
  BY DEF Some
<1>2. S \in SUBSET Brokers
  BY DEF Folder
<1> QED BY <1>1, <1>2 DEF Folder

\* So is what a copy that breaks off leaves.
LEMMA PartIsFolder ==
  ASSUME NEW f \in Folder, NEW g \in Part(f)
  PROVE  g \in Folder
  BY CopyIsFolder, SomeIsFolder DEF Part

\* And what a removal leaves, if anything.
LEMMA RestIsFolder ==
  ASSUME NEW f \in MaybeFolder, NEW g \in Rest(f)
  PROVE  g \in MaybeFolder
<1>1. CASE Exists(f)
  <2>1. g = NoFolder \/ g \in Some(f)
    BY <1>1 DEF Rest
  <2> QED BY <1>1, <2>1, SomeIsFolder DEF MaybeFolder, Exists
<1>2. CASE ~Exists(f)
  BY <1>2 DEF Rest, MaybeFolder
<1> QED BY <1>1, <1>2

\* The invariant holds when the service begins.
LEMMA Starts == Init => Invariant
<1> SUFFICES ASSUME Init PROVE Invariant
  OBVIOUS
<1> DEFINE New == [build : Builds, servers : {{}}, accounts : {{}}, whole : {TRUE}]
<1>0. \A f \in New : f \in Folder /\ f.servers = {} /\ f.accounts = {} /\ f.whole
  BY DEF Folder
<1>1. /\ terminal \in Folder /\ terminal.servers = {}
      /\ master \in Folder /\ master.accounts = {} /\ master.whole
  BY <1>0 DEF Init
<1>2. TypeOK
  <2>1. terminal \in MaybeFolder /\ master \in MaybeFolder /\ NoFolder \in MaybeFolder
    BY <1>1 DEF MaybeFolder
  <2> QED BY <2>1 DEF Init, TypeOK
<1>3. MasterSurvives /\ CloneIsClean /\ Staged
  BY <1>1, RecloneAssumption DEF Init, MasterSurvives, CloneIsClean, Staged, Clean, Exists
<1>4. ServersAt
  BY <1>1, RecloneAssumption DEF Init, ServersAt, InTerminal, InBroken, InEither, Known, NotSmaller, Rebuilding, Exists
<1> QED BY <1>2, <1>3, <1>4 DEF Invariant

\* Every step of a reclone keeps the invariant.
LEMMA RecloneKeeps ==
  Invariant /\ (BeginReclone \/ ClearBroken \/ MoveAside \/ CopyMaster \/ CopyBreaks
                \/ InstallBuild \/ CarryServers \/ Finish)
  => Invariant'
<1> SUFFICES ASSUME Invariant,
                    BeginReclone \/ ClearBroken \/ MoveAside \/ CopyMaster \/ CopyBreaks
                    \/ InstallBuild \/ CarryServers \/ Finish
             PROVE  Invariant'
  OBVIOUS
<1> USE DEF Invariant
<1>1. CASE BeginReclone
  BY <1>1 DEF BeginReclone, disk, history, TypeOK, MaybeFolder, MasterSurvives, CloneIsClean, Staged,
     Clean, Exists, ServersAt, InTerminal, InBroken, InEither, Known, NotSmaller, Rebuilding
<1>2. CASE ClearBroken
  <2>1. broken' \in MaybeFolder
    BY <1>2, RestIsFolder DEF ClearBroken, TypeOK
  <2>2. TypeOK' /\ MasterSurvives' /\ CloneIsClean' /\ Staged'
    BY <1>2, <2>1 DEF ClearBroken, TypeOK, MasterSurvives, CloneIsClean, Staged, Clean, Exists
  <2>3. ServersAt'
    BY <1>2 DEF ClearBroken, Exists, ServersAt, InTerminal, InBroken, InEither, Known, NotSmaller, Rebuilding
  <2> QED BY <2>2, <2>3
<1>3. CASE MoveAside
  BY <1>3 DEF MoveAside, history, TypeOK, MaybeFolder, MasterSurvives, CloneIsClean, Staged,
     Clean, Exists, ServersAt, InTerminal, InBroken, InEither, Known, NotSmaller, Rebuilding
<1>4. CASE CopyMaster
  <2>1. master \in Folder
    BY <1>4 DEF CopyMaster, TypeOK, MaybeFolder, Exists
  <2>2. /\ terminal' \in Folder /\ terminal'.accounts = master.accounts \ {"config"}
        /\ terminal'.whole = master.whole
    BY <1>4, <2>1, CopyIsFolder DEF CopyMaster
  <2>3. TypeOK'
    BY <1>4, <2>2, RecloneAssumption DEF CopyMaster, TypeOK, MaybeFolder, Exists, history
  <2>4. CloneIsClean'
    BY <1>4, <2>1, <2>2 DEF CopyMaster, CloneIsClean, MasterSurvives, Clean, Exists, TypeOK
  <2>5. MasterSurvives' /\ Staged' /\ ServersAt'
    BY <1>4 DEF CopyMaster, MasterSurvives, Staged, Clean, Exists, ServersAt, InTerminal, InBroken,
       InEither, Known, NotSmaller, Rebuilding, history
  <2> QED BY <2>3, <2>4, <2>5
<1>5. CASE CopyBreaks
  <2>1. master \in Folder
    BY <1>5 DEF CopyBreaks, TypeOK, MaybeFolder, Exists
  <2>2. terminal' \in Folder
    BY <1>5, <2>1, PartIsFolder DEF CopyBreaks
  <2>3. TypeOK'
    BY <1>5, <2>2, RecloneAssumption DEF CopyBreaks, TypeOK, MaybeFolder, Exists
  <2>4. MasterSurvives' /\ Staged' /\ CloneIsClean' /\ ServersAt'
    BY <1>5 DEF CopyBreaks, MasterSurvives, Staged, CloneIsClean, Clean, Exists, ServersAt, InTerminal,
       InBroken, InEither, Known, NotSmaller, Rebuilding
  <2> QED BY <2>3, <2>4
<1>6. CASE InstallBuild
  <2>1. terminal \in Folder
    BY <1>6 DEF InstallBuild, TypeOK, MaybeFolder, Exists
  <2>2. /\ terminal' \in Folder /\ terminal'.accounts = terminal.accounts
        /\ terminal'.whole = terminal.whole
    BY <1>6, <2>1 DEF InstallBuild, Folder
  <2>3. TypeOK'
    BY <1>6, <2>2, RecloneAssumption DEF InstallBuild, TypeOK, MaybeFolder, Exists, history
  <2>4. MasterSurvives' /\ Staged' /\ CloneIsClean' /\ ServersAt'
    BY <1>6, <2>2 DEF InstallBuild, MasterSurvives, Staged, CloneIsClean, Clean, Exists, ServersAt,
       InTerminal, InBroken, InEither, Known, NotSmaller, Rebuilding, history
  <2> QED BY <2>3, <2>4
<1>7. CASE CarryServers
  <2>1. terminal \in Folder /\ broken \in Folder
    BY <1>7 DEF CarryServers, TypeOK, MaybeFolder, Exists
  <2> DEFINE kept == Carried(broken.servers, terminal.servers)
  <2>2. /\ kept \in SUBSET Brokers
        /\ kept = broken.servers \/ broken.servers = {} \/ Size(kept) >= Size(broken.servers)
    BY <2>1 DEF Carried, Folder
  <2>3. terminal' = [build |-> terminal.build, servers |-> kept,
                     accounts |-> terminal.accounts, whole |-> terminal.whole]
    BY <1>7, <2>1 DEF CarryServers, Folder
  <2> HIDE DEF kept
  <2>4. /\ terminal' \in Folder /\ terminal'.accounts = terminal.accounts
        /\ terminal'.whole = terminal.whole /\ terminal'.servers = kept
    BY <2>1, <2>2, <2>3 DEF Folder
  <2>5. TypeOK'
    BY <1>7, <2>4, RecloneAssumption DEF CarryServers, TypeOK, MaybeFolder, Exists, history
  <2>6. MasterSurvives' /\ Staged' /\ CloneIsClean'
    BY <1>7, <2>4 DEF CarryServers, MasterSurvives, Staged, CloneIsClean, Clean, Exists, history
  <2>7. InBroken => NotSmaller'
    <3>1. broken' = broken /\ learnt' = learnt
      BY <1>7 DEF CarryServers, history
    <3>2. CASE Size(kept) >= Size(broken.servers)
      BY <2>4, <3>1, <3>2 DEF NotSmaller
    <3>3. CASE kept = broken.servers \/ broken.servers = {}
      BY <2>4, <3>1, <3>3 DEF InBroken, NotSmaller
    <3> QED BY <2>2, <3>2, <3>3
  <2>8. ServersAt'
    BY <1>7, <2>7 DEF CarryServers, ServersAt, InBroken, Rebuilding, Exists, history
  <2> QED BY <2>5, <2>6, <2>8
<1>8. CASE Finish
  <2>1. terminal \in Folder
    BY <1>8 DEF Finish, TypeOK, MaybeFolder, Exists
  <2>2. TypeOK' /\ MasterSurvives' /\ Staged' /\ CloneIsClean'
    BY <1>8, <2>1 DEF Finish, TypeOK, Folder, MasterSurvives, Staged, CloneIsClean, Clean, Exists, disk,
       MaybeFolder
  <2>3. ServersAt'
    BY <1>8, <2>1, RecloneAssumption DEF Finish, ServersAt, InTerminal, InBroken, InEither, Known, NotSmaller, Rebuilding, Exists, disk, Folder
  <2> QED BY <2>2, <2>3
<1> QED BY <1>1, <1>2, <1>3, <1>4, <1>5, <1>6, <1>7, <1>8

\* Every step of a promotion keeps it.
LEMMA PromoteKeeps ==
  Invariant /\ (ClearStage \/ Stage \/ StageBreaks \/ Check \/ ClearPrevious \/ RetireMaster \/ SwapIn)
  => Invariant'
<1> SUFFICES ASSUME Invariant,
                    ClearStage \/ Stage \/ StageBreaks \/ Check \/ ClearPrevious \/ RetireMaster \/ SwapIn
             PROVE  Invariant'
  OBVIOUS
<1> USE DEF Invariant
<1>1. Source \subseteq Folder
  BY DEF Source, Folder
<1>2. /\ TypeOK' /\ Staged'
      /\ UNCHANGED <<terminal, broken, history>>
      /\ doing \notin Rebuilding \cup {"clear", "move"}
      /\ doing' \notin Rebuilding \cup {"clear", "move"}
  <2>1. CASE ClearStage
    BY <2>1, RestIsFolder DEF ClearStage, TypeOK, Staged, Clean, MaybeFolder, Exists, history, Rebuilding
  <2>2. CASE Stage
    <3>1. PICK f \in Source : stage' = Copy(f)
      BY <2>2 DEF Stage
    <3>2. stage' \in Folder /\ stage'.whole
      BY <3>1, <1>1, CopyIsFolder DEF Source
    <3> QED
      BY <2>2, <3>2, RecloneAssumption DEF Stage, TypeOK, Staged, Clean, MaybeFolder, Exists, history,
         Rebuilding
  <2>3. CASE StageBreaks
    <3>1. stage' \in Folder
      BY <2>3, <1>1, PartIsFolder DEF StageBreaks
    <3> QED
      BY <2>3, <3>1 DEF StageBreaks, TypeOK, Staged, Clean, MaybeFolder, Exists, history, Rebuilding
  <2>4. CASE Check
    BY <2>4, RestIsFolder DEF Check, Passes, TypeOK, Staged, Clean, MaybeFolder, Exists, history, Rebuilding
  <2>5. CASE ClearPrevious
    BY <2>5, RestIsFolder DEF ClearPrevious, TypeOK, Staged, Clean, MaybeFolder, Exists, history, Rebuilding
  <2>6. CASE RetireMaster
    BY <2>6 DEF RetireMaster, TypeOK, Staged, Clean, MaybeFolder, Exists, history, Rebuilding
  <2>7. CASE SwapIn
    BY <2>7 DEF SwapIn, TypeOK, Staged, Clean, MaybeFolder, Exists, history, Rebuilding
  <2> QED BY <2>1, <2>2, <2>3, <2>4, <2>5, <2>6, <2>7
<1>3. MasterSurvives'
  <2>1. CASE ClearStage \/ Stage \/ StageBreaks \/ Check
    BY <2>1 DEF ClearStage, Stage, StageBreaks, Check, MasterSurvives, Clean, Exists
  <2>2. CASE ClearPrevious
    BY <2>2 DEF ClearPrevious, TypeOK, MasterSurvives, Clean, Exists
  <2>3. CASE RetireMaster
    BY <2>3 DEF RetireMaster, TypeOK, MasterSurvives, Clean, Exists
  <2>4. CASE SwapIn
    BY <2>4 DEF SwapIn, TypeOK, Staged, MasterSurvives, Clean, Exists
  <2> QED BY <2>1, <2>2, <2>3, <2>4
<1>4. CloneIsClean'
  BY <1>2 DEF CloneIsClean, Rebuilding
<1>5. ServersAt'
  BY <1>2 DEF ServersAt, InTerminal, InBroken, InEither, Known, NotSmaller, Rebuilding, Exists, history
<1> QED BY <1>2, <1>3, <1>4, <1>5

\* So does a cut.
LEMMA CutKeeps == Invariant /\ End => Invariant'
<1> SUFFICES ASSUME Invariant, End PROVE Invariant'
  OBVIOUS
<1> USE DEF Invariant
<1>1. TypeOK'
  BY DEF End, disk, TypeOK, Exists
<1>2. MasterSurvives' /\ CloneIsClean' /\ Staged'
  BY DEF End, disk, MasterSurvives, CloneIsClean, Staged, Clean, Exists
<1>3. /\ InTerminal' <=> InTerminal
      /\ InBroken' <=> InBroken
      /\ InEither' <=> InEither
      /\ InBroken => InEither
  BY DEF End, disk, InTerminal, InBroken, InEither, Known, Exists
<1>4. ServersAt'
  BY <1>3 DEF End, TypeOK, ServersAt, Rebuilding
<1> QED BY <1>1, <1>2, <1>4

\* And the terminal's own work.
LEMMA WorkKeeps == Invariant /\ Work => Invariant'
<1> SUFFICES ASSUME Invariant, Work PROVE Invariant'
  OBVIOUS
<1> USE DEF Invariant
<1>1. terminal \in Folder
  BY DEF Work, TypeOK, MaybeFolder, Exists
<1>2. PICK new \in SUBSET Brokers :
        /\ terminal' = [terminal EXCEPT !.servers = @ \cup new, !.accounts = @ \cup {"config"}]
        /\ learnt' = learnt \cup new
  BY DEF Work
<1>3. terminal.accounts \cup {"config"} \subseteq Place /\ terminal.servers \cup new \subseteq Brokers
  BY <1>1 DEF Folder, Place
<1>4. terminal' = [build |-> terminal.build, servers |-> terminal.servers \cup new,
                   accounts |-> terminal.accounts \cup {"config"}, whole |-> terminal.whole]
  BY <1>1, <1>2 DEF Folder
<1>5. terminal' \in Folder /\ terminal'.servers = terminal.servers \cup new
  BY <1>1, <1>3, <1>4 DEF Folder
<1>6. TypeOK'
  BY <1>2, <1>5, RecloneAssumption DEF Work, TypeOK, MaybeFolder, Exists
<1>7. MasterSurvives' /\ CloneIsClean' /\ Staged'
  BY DEF Work, MasterSurvives, CloneIsClean, Staged, Clean, Exists
<1>8. Exists(terminal)' /\ Exists(terminal)
  BY <1>5, RecloneAssumption DEF Exists, Work
<1>9. InTerminal => InTerminal'
  BY <1>2, <1>5, <1>8 DEF InTerminal
<1>10. InEither => InEither'
  BY <1>2, <1>5, <1>8 DEF InEither, Known, Exists, Work
<1>11. ServersAt'
  BY <1>9, <1>10 DEF Work, ServersAt, Rebuilding
<1> QED BY <1>6, <1>7, <1>11
\* Every behaviour keeps the invariant.
THEOREM Inductive == Spec => []Invariant
<1>1. Init => Invariant
  BY Starts
<1>2. Invariant /\ [Next]_vars => Invariant'
  <2> SUFFICES ASSUME Invariant, [Next]_vars PROVE Invariant'
    OBVIOUS
  <2>1. CASE Next
    BY <2>1, RecloneKeeps, PromoteKeeps, CutKeeps, WorkKeeps DEF Next
  <2>2. CASE UNCHANGED vars
    BY <2>2 DEF vars, disk, history, Invariant, TypeOK, MasterSurvives, CloneIsClean, Staged, Clean,
       Exists, MaybeFolder, ServersAt, InTerminal, InBroken, InEither, Known, NotSmaller, Rebuilding
  <2> QED BY <2>1, <2>2
<1> QED BY <1>1, <1>2, PTL DEF Spec

\* Whatever call fails and whenever the service ends, there is a complete master
\* without credentials, or the complete one that it is about to replace.
THEOREM MasterAlwaysSurvives == Spec => []MasterSurvives
<1>1. Invariant => MasterSurvives
  BY DEF Invariant
<1> QED BY <1>1, Inductive, PTL

\* A rebuilt terminal holds no credentials of the one it was copied from.
THEOREM CloneIsAlwaysClean == Spec => []CloneIsClean
<1>1. Invariant => CloneIsClean
  BY DEF Invariant
<1> QED BY <1>1, Inductive, PTL

\* What a terminal has learnt of servers outlives a reclone that is cut, until
\* another begins over it, and the reclone itself unless the master's file is as
\* large as its own: for any brokers and whatever the sizes of their files.
THEOREM ServersAlwaysSurvive == Spec => []ServersSurvive
<1>1. Invariant => ServersSurvive
  <2> SUFFICES ASSUME Invariant, ~lossy PROVE ServersSurvive
    BY DEF ServersSurvive
  <2>1. InTerminal \/ InBroken \/ InEither
    BY DEF Invariant, ServersAt
  <2>2. InEither
    BY <2>1 DEF InTerminal, InBroken, InEither, Known
  <2>3. doing = "mark" => NotSmaller
    BY DEF Invariant, ServersAt
  <2> QED BY <2>2, <2>3 DEF ServersSurvive, InEither, NotSmaller
<1> QED BY <1>1, Inductive, PTL

\* Every variable of the reclone keeps its range.
THEOREM RecloneTypeCorrect == Spec => []TypeOK
<1>1. Invariant => TypeOK
  BY DEF Invariant
<1> QED BY <1>1, Inductive, PTL
=============================================================================
