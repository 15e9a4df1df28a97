------------------------------- MODULE MCPanel -------------------------------
(***************************************************************************)
(* The parts of the panel that share no state, one at a time: in each      *)
(* behaviour the part in focus moves and the others stand at a fixed       *)
(* start, so that one run checks them all and none multiplies another.     *)
(* The bootstrap is in focus alone, with several runs and troubles, and    *)
(* again beside the health matrix, with the last of them.                  *)
(***************************************************************************)
EXTENDS HealthMatrix, AvScans, AvSchedule, CrowdSecRules, CrowdSecLists, NetworkProfile,
        LoginLockout, TrafficCounters, TLC

VARIABLE focus

Part == {"stack", "health", "scans", "update", "schedule", "rules", "lists", "network",
         "login", "traffic"}

PanelVars == <<stackVars, healthVars, scanVars, scheduleVars, rulesVars, listsVars,
               networkVars, loginVars, trafficVars, focus>>

\* Where the parts begin that are not in focus.
StandStill ==
  /\ focus # "stack" => foreign = {} /\ config.pw = 0
  /\ focus \notin {"scans", "update"} => enabled
  /\ focus # "schedule" => schedule = [on |-> TRUE, at |-> 0, days |-> {}]
  /\ focus # "network" => platform = [os |-> "Linux", nla |-> "public"]

PanelInit ==
  /\ focus \in Part
  /\ StackInit /\ HealthInit /\ ScanInit /\ ScheduleInit /\ RulesInit /\ ListsInit
  /\ NetworkInit /\ LoginInit /\ TrafficInit
  /\ StandStill

\* Where the bootstrap is alone, each trouble takes the place of a run.
Wide == runs' + (MaxTrouble - trouble') <= MaxRuns

\* Beside the health there is one run of the bootstrap and one trouble.
Narrow == runs' <= 1 /\ trouble' >= MaxTrouble - 1

PanelNext ==
  /\ focus' = focus
  /\ \/ focus = "stack" /\ StackNext /\ Wide /\ UNCHANGED healthVars
     \/ focus = "health" /\ HealthNext /\ Narrow
     \/ focus \notin {"stack", "health"} /\ UNCHANGED <<stackVars, healthVars>>
  /\ \/ focus = "scans" /\ ScanStep
     \/ focus = "update" /\ UpdateStep
     \/ focus \notin {"scans", "update"} /\ UNCHANGED scanVars
  /\ IF focus = "schedule" THEN ScheduleNext ELSE UNCHANGED scheduleVars
  /\ IF focus = "rules" THEN RulesNext ELSE UNCHANGED rulesVars
  /\ IF focus = "lists" THEN ListsNext ELSE UNCHANGED listsVars
  /\ IF focus = "network" THEN NetworkNext ELSE UNCHANGED networkVars
  /\ IF focus = "login" THEN LoginNext ELSE UNCHANGED loginVars
  /\ IF focus = "traffic" THEN TrafficNext ELSE UNCHANGED trafficVars

PanelSpec == PanelInit /\ [][PanelNext]_PanelVars

\* Each variable of the part that moves keeps its type.
PanelTypeOK ==
  CASE focus \in {"stack", "health"} -> HealthTypeOK
    [] focus \in {"scans", "update"} -> ScanTypeOK
    [] focus = "schedule" -> ScheduleTypeOK
    [] focus = "rules" -> RulesTypeOK
    [] focus = "lists" -> ListsTypeOK
    [] focus = "network" -> NetworkTypeOK
    [] focus = "login" -> LoginTypeOK
    [] focus = "traffic" -> TrafficTypeOK

\* Two Wi-Fis behind gateways of one address.  The name of the first may be
\* unreadable, so that it has two keys on macOS; that of the second always is.
PanelLinks == {[wifi |-> p, wired |-> NoPlace] : p \in Place}
PanelNames == [id \in IdKind |-> [p \in Place |->
                 IF id = "ssid" THEN {"home"} \cap {p} ELSE {"router"}]]

Requests == Permutations(Runner)
=============================================================================
