---------------------------- MODULE CrowdSecRules ----------------------------
(***************************************************************************)
(* The scenarios of CrowdSec as the console changes them                   *)
(* (security_connectors/crowdsec.py, the scenario routes under ids/crowdsec):      *)
(* thresholds written with sed, versions upgraded with cscli, each in one  *)
(* elevated script that then restarts the container, followed by a second  *)
(* elevated command that reads the files back.                             *)
(*                                                                         *)
(* The files are read by CrowdSec only when it starts, so what the files   *)
(* say and what CrowdSec enforces are two things.  Scripts of two          *)
(* requests run side by side, and each prompt may be declined or fail.     *)
(***************************************************************************)
EXTENDS Naturals

CONSTANTS
  Editor,        \* the requests
  Thresholds,    \* the thresholds 1 .. Thresholds (capacity with leakspeed) one may ask for
  MaxVersion     \* bound on the versions the hub publishes

ASSUME RulesAssumption == Thresholds \in Nat \ {0} /\ MaxVersion \in Nat \ {0}

VARIABLES
  rules,         \* /etc/crowdsec/scenarios: the threshold and version of a scenario
  engine,        \* the same of the running CrowdSec
  hub,           \* version published by the hub, and the one in the local index
  edit,          \* edit[r]: the request r
  interrupted    \* history: a script ended after its write without a restart since

rulesVars == <<rules, engine, hub, edit, interrupted>>

Threshold == 1 .. Thresholds
HubVersion == 1 .. MaxVersion
Rules == [threshold : Threshold, version : HubVersion]
EditPc == {"script", "restart", "read"}
EditEnd == {"none", "ok", "invalid", "elevation_cancelled", "elevation_failed",
            "scenario_not_found", "scenario_has_no_threshold", "readback_mismatch"}
RuleOp == {"write", "apply", "check", "view"}
Edit == [op : RuleOp, pc : EditPc \cup EditEnd, want : Threshold]
NoEdit == [op |-> "view", pc |-> "none", want |-> 1]

RulesInit ==
  /\ rules = [threshold |-> 1, version |-> 1] /\ engine = rules
  /\ hub = [published |-> 1, index |-> 1]
  /\ edit = [r \in Editor |-> NoEdit] /\ interrupted = FALSE

MoveEdit(r, pc) == edit' = [edit EXCEPT ![r].pc = pc]

\* The prompt is declined, or the command fails or times out before it has
\* changed anything.
Declined == {"elevation_cancelled", "elevation_failed"}

(***************************************************************************)
(* The requests.                                                           *)
(***************************************************************************)

\* The two values are validated before any prompt (_validate_capacity,
\* _validate_leakspeed).
RequestEdit(r) ==
  /\ edit[r].pc \notin EditPc
  /\ \E op \in RuleOp, want \in Threshold, pc \in {"script", "invalid"} :
       /\ pc = "invalid" => op = "write"
       /\ edit' = [edit EXCEPT ![r] = [op |-> op, pc |-> pc, want |-> want]]
  /\ UNCHANGED <<rules, engine, hub, interrupted>>

\* The sed program changes the one document of the scenario; a name no file
\* has, and a trigger scenario, end the script with their marker.
WriteThreshold(r) ==
  /\ edit[r].pc = "script" /\ edit[r].op = "write"
  /\ \/ rules' = [rules EXCEPT !.threshold = edit[r].want] /\ MoveEdit(r, "restart")
     \/ /\ \E pc \in Declined \cup {"scenario_not_found", "scenario_has_no_threshold"} : MoveEdit(r, pc)
        /\ UNCHANGED rules
  /\ UNCHANGED <<engine, hub, interrupted>>

\* The restart is skipped.
UpgradeWithoutRestart(r) ==
  /\ edit[r].pc = "script" /\ edit[r].op = "apply"
  /\ rules' = [rules EXCEPT !.version = hub.index]
  /\ MoveEdit(r, "read")
  /\ UNCHANGED <<engine, hub, interrupted>>

\* cscli hub upgrade: to what the local index has; the threshold written by
\* hand may be gone with the old file.
UpgradeScenarios(r) ==
  /\ edit[r].pc = "script" /\ edit[r].op = "apply"
  /\ \/ /\ rules' \in {[rules EXCEPT !.version = hub.index],
                       [threshold |-> 1, version |-> hub.index]}
        /\ MoveEdit(r, "restart")
     \/ (\E pc \in Declined : MoveEdit(r, pc)) /\ UNCHANGED rules
  /\ UNCHANGED <<engine, hub, interrupted>>

\* docker compose restart, which both scripts do whatever their text says.
RestartCrowdSec(r) ==
  /\ edit[r].pc = "restart"
  /\ engine' = rules /\ interrupted' = FALSE
  /\ MoveEdit(r, "read")
  /\ UNCHANGED <<rules, hub>>

\* set -e: a restart that fails, or a script killed for its time, is an
\* elevation_failed after the files have changed.
RestartFails(r) ==
  /\ edit[r].pc = "restart"
  /\ interrupted' = TRUE
  /\ MoveEdit(r, "elevation_failed")
  /\ UNCHANGED <<rules, engine, hub>>

Applied(r) == /\ edit[r].op = "write" => rules.threshold = edit[r].want
              /\ edit[r].op = "apply" => rules.version >= hub.index

\* The readback, a prompt of its own: the thresholds of the files, or the list
\* of the outdated items.
ReadBack(r) ==
  /\ edit[r].pc = "read"
  /\ \/ MoveEdit(r, IF Applied(r) THEN "ok" ELSE "readback_mismatch")
     \/ \E pc \in Declined : MoveEdit(r, pc)
  /\ UNCHANGED <<rules, engine, hub, interrupted>>

\* check_scenario_updates refreshes the index and installs nothing;
\* read_scenario_thresholds changes nothing.
CheckUpdates(r) ==
  /\ edit[r].pc = "script" /\ edit[r].op \in {"check", "view"}
  /\ \/ /\ MoveEdit(r, "ok")
        /\ hub' = IF edit[r].op = "check" THEN [hub EXCEPT !.index = hub.published] ELSE hub
     \/ (\E pc \in Declined : MoveEdit(r, pc)) /\ UNCHANGED hub
  /\ UNCHANGED <<rules, engine, interrupted>>

(***************************************************************************)
(* The rest of the world: the hub publishes, the container is restarted by *)
(* the bootstrap, a remediation or Docker.                                 *)
(***************************************************************************)

HubPublishes ==
  /\ hub.published < MaxVersion
  /\ hub' = [hub EXCEPT !.published = @ + 1]
  /\ UNCHANGED <<rules, engine, edit, interrupted>>

CrowdSecRestarts ==
  /\ engine' = rules /\ interrupted' = FALSE
  /\ UNCHANGED <<rules, hub, edit>>

RulesNext ==
  \/ \E r \in Editor : \/ RequestEdit(r) \/ WriteThreshold(r) \/ UpgradeScenarios(r)
                       \/ RestartCrowdSec(r) \/ RestartFails(r) \/ ReadBack(r) \/ CheckUpdates(r)
  \/ HubPublishes \/ CrowdSecRestarts

RulesSpec == RulesInit /\ [][RulesNext]_rulesVars

-----------------------------------------------------------------------------
RulesTypeOK ==
  /\ rules \in Rules /\ engine \in Rules
  /\ hub \in [published : HubVersion, index : HubVersion]
  /\ edit \in [Editor -> Edit] /\ interrupted \in BOOLEAN

\* CrowdSec enforces what its files say, but for the time between a write and
\* the restart of its script, and after a script that never came to it.
EngineIsCurrent ==
  engine = rules \/ interrupted \/ \E r \in Editor : edit[r].pc = "restart"

\* A write or an upgrade answered with "ok" is in force in the running
\* CrowdSec and not only in its files, though the readback sees the files
\* alone, unless another script is between its write and its restart or was
\* stopped there ("a restart exiting zero is not proof the change applied").
Accepts(r) == edit[r].pc = "read" /\ edit'[r].pc = "ok"
OkIsEnforced ==
  [][\A r \in Editor : Accepts(r) =>
       \/ /\ edit[r].op = "write" => engine.threshold = edit[r].want
          /\ edit[r].op = "apply" => engine.version >= hub.index
       \/ interrupted \/ \E q \in Editor : edit[q].pc = "restart"]_rulesVars
=============================================================================
