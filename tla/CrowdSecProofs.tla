--------------------------- MODULE CrowdSecProofs ---------------------------
(***************************************************************************)
(* The rules and the lists of CrowdSec, for any requests, thresholds,      *)
(* versions and addresses.                                                 *)
(***************************************************************************)
EXTENDS CrowdSecRules, CrowdSecLists, TLAPS

(***************************************************************************)
(* Rules.                                                                  *)
(***************************************************************************)

LEMMA RulesTypeInit == RulesInit => RulesTypeOK
<1>1. 1 \in Threshold /\ 1 \in HubVersion
  BY RulesAssumption DEF Threshold, HubVersion
<1>2. NoEdit \in Edit
  BY <1>1 DEF NoEdit, Edit, RuleOp, EditPc, EditEnd
<1>3. /\ [threshold |-> 1, version |-> 1] \in Rules
      /\ [published |-> 1, index |-> 1] \in [published : HubVersion, index : HubVersion]
  BY <1>1 DEF Rules
<1> QED
  BY <1>2, <1>3 DEF RulesInit, RulesTypeOK

\* Moving a request along keeps it a request.
LEMMA MoveEditType ==
  ASSUME RulesTypeOK, NEW r \in Editor, NEW pc \in EditPc \cup EditEnd, MoveEdit(r, pc)
  PROVE  edit' \in [Editor -> Edit]
  BY DEF RulesTypeOK, MoveEdit, Edit

LEMMA RulesTypeStep == RulesTypeOK /\ [RulesNext]_rulesVars => RulesTypeOK'
<1> SUFFICES ASSUME RulesTypeOK, [RulesNext]_rulesVars PROVE RulesTypeOK'
  OBVIOUS
<1>0. /\ {"script", "restart", "read", "ok", "readback_mismatch", "scenario_not_found",
          "scenario_has_no_threshold"} \cup Declined \subseteq EditPc \cup EditEnd
      /\ 1 \in Threshold
  BY RulesAssumption DEF EditPc, EditEnd, Declined, Threshold
<1>1. ASSUME NEW r \in Editor, RequestEdit(r) PROVE RulesTypeOK'
  BY <1>1 DEF RequestEdit, RulesTypeOK, Edit, EditPc, EditEnd
<1>2. ASSUME NEW r \in Editor, WriteThreshold(r) PROVE RulesTypeOK'
  <2>1. edit' \in [Editor -> Edit]
    BY <1>0, <1>2, MoveEditType DEF WriteThreshold
  <2>2. rules' \in Rules
    BY <1>2 DEF WriteThreshold, RulesTypeOK, Rules, Edit
  <2> QED
    BY <1>2, <2>1, <2>2 DEF WriteThreshold, RulesTypeOK
<1>3. ASSUME NEW r \in Editor, UpgradeScenarios(r) PROVE RulesTypeOK'
  <2>1. edit' \in [Editor -> Edit]
    BY <1>0, <1>3, MoveEditType DEF UpgradeScenarios
  <2>2. rules' \in Rules
    BY <1>0, <1>3 DEF UpgradeScenarios, RulesTypeOK, Rules
  <2> QED
    BY <1>3, <2>1, <2>2 DEF UpgradeScenarios, RulesTypeOK
<1>4. ASSUME NEW r \in Editor, RestartCrowdSec(r) \/ RestartFails(r) PROVE RulesTypeOK'
  <2>1. edit' \in [Editor -> Edit]
    BY <1>0, <1>4, MoveEditType DEF RestartCrowdSec, RestartFails, Declined
  <2> QED
    BY <1>4, <2>1 DEF RestartCrowdSec, RestartFails, RulesTypeOK
<1>5. ASSUME NEW r \in Editor, ReadBack(r) PROVE RulesTypeOK'
  <2>1. edit' \in [Editor -> Edit]
    BY <1>0, <1>5, MoveEditType DEF ReadBack
  <2> QED
    BY <1>5, <2>1 DEF ReadBack, RulesTypeOK
<1>6. ASSUME NEW r \in Editor, CheckUpdates(r) PROVE RulesTypeOK'
  <2>1. edit' \in [Editor -> Edit]
    BY <1>0, <1>6, MoveEditType DEF CheckUpdates
  <2>2. hub' \in [published : HubVersion, index : HubVersion]
    BY <1>6 DEF CheckUpdates, RulesTypeOK
  <2> QED
    BY <1>6, <2>1, <2>2 DEF CheckUpdates, RulesTypeOK
<1>7. CASE HubPublishes
  BY <1>7, RulesAssumption DEF HubPublishes, RulesTypeOK, HubVersion
<1>8. CASE CrowdSecRestarts
  BY <1>8 DEF CrowdSecRestarts, RulesTypeOK
<1>9. CASE UNCHANGED rulesVars
  BY <1>9 DEF rulesVars, RulesTypeOK
<1> QED
  BY <1>1, <1>2, <1>3, <1>4, <1>5, <1>6, <1>7, <1>8, <1>9 DEF RulesNext

\* The engine has what the files say but between a write and its restart.
LEMMA EngineStep ==
  RulesTypeOK /\ EngineIsCurrent /\ [RulesNext]_rulesVars => EngineIsCurrent'
<1> SUFFICES ASSUME RulesTypeOK, EngineIsCurrent, [RulesNext]_rulesVars PROVE EngineIsCurrent'
  OBVIOUS
<1>0. ASSUME NEW r \in Editor, NEW pc, MoveEdit(r, pc)
      PROVE  edit'[r].pc = pc /\ \A q \in Editor \ {r} : edit'[q] = edit[q]
  BY <1>0 DEF MoveEdit, RulesTypeOK, Edit
<1>1. ASSUME NEW r \in Editor, RequestEdit(r) PROVE EngineIsCurrent'
  <2>1. \A q \in Editor : edit[q].pc = "restart" => edit'[q].pc = "restart"
    BY <1>1 DEF RequestEdit, RulesTypeOK, EditPc
  <2> QED
    BY <1>1, <2>1 DEF RequestEdit, EngineIsCurrent
<1>2. ASSUME NEW r \in Editor, WriteThreshold(r) \/ UpgradeScenarios(r) PROVE EngineIsCurrent'
  <2>1. CASE MoveEdit(r, "restart")
    BY <1>0, <2>1 DEF EngineIsCurrent
  <2>2. CASE \E pc \in Declined \cup {"scenario_not_found", "scenario_has_no_threshold"} :
               MoveEdit(r, pc) /\ UNCHANGED rules
    BY <1>0, <1>2, <2>2 DEF WriteThreshold, UpgradeScenarios, EngineIsCurrent
  <2> QED
    BY <1>2, <2>1, <2>2 DEF WriteThreshold, UpgradeScenarios
<1>3. ASSUME NEW r \in Editor, RestartCrowdSec(r) \/ RestartFails(r) PROVE EngineIsCurrent'
  BY <1>3 DEF RestartCrowdSec, RestartFails, EngineIsCurrent
<1>4. ASSUME NEW r \in Editor, ReadBack(r) \/ CheckUpdates(r) PROVE EngineIsCurrent'
  <2>1. edit[r].pc # "restart" /\ \E pc : MoveEdit(r, pc)
    BY <1>4 DEF ReadBack, CheckUpdates
  <2> QED
    BY <1>0, <1>4, <2>1 DEF ReadBack, CheckUpdates, EngineIsCurrent
<1>5. CASE HubPublishes \/ CrowdSecRestarts \/ UNCHANGED rulesVars
  BY <1>5 DEF HubPublishes, CrowdSecRestarts, rulesVars, EngineIsCurrent
<1> QED
  BY <1>1, <1>2, <1>3, <1>4, <1>5 DEF RulesNext

\* Only its own readback answers a request that is being read back.
LEMMA OnlyReadBackAnswers ==
  ASSUME RulesTypeOK, RulesNext, NEW r \in Editor, Accepts(r)
  PROVE  Applied(r)
<1>0. ASSUME NEW q \in Editor, NEW pc, MoveEdit(q, pc)
      PROVE  edit'[q].pc = pc /\ (q # r => edit'[r] = edit[r])
  BY <1>0 DEF MoveEdit, RulesTypeOK, Edit
<1>1. ASSUME NEW q \in Editor, RequestEdit(q) PROVE FALSE
  BY <1>1 DEF RequestEdit, RulesTypeOK, Accepts, EditPc
<1>2. ASSUME NEW q \in Editor, NEW pc, MoveEdit(q, pc), q # r \/ pc # "ok" PROVE FALSE
  BY <1>0, <1>2 DEF Accepts
<1>3. ASSUME NEW q \in Editor, WriteThreshold(q) \/ UpgradeScenarios(q) \/ RestartCrowdSec(q)
                               \/ RestartFails(q)
      PROVE  FALSE
  BY <1>2, <1>3 DEF WriteThreshold, UpgradeScenarios, RestartCrowdSec, RestartFails, Declined
<1>4. ASSUME NEW q \in Editor, CheckUpdates(q) PROVE FALSE
  <2>1. edit[q].pc # "read" /\ \E pc : MoveEdit(q, pc)
    BY <1>4 DEF CheckUpdates
  <2> QED
    BY <1>2, <2>1 DEF Accepts
<1>5. ASSUME NEW q \in Editor, ReadBack(q) PROVE Applied(r)
  BY <1>2, <1>5 DEF ReadBack, Declined
<1>6. ASSUME HubPublishes \/ CrowdSecRestarts PROVE FALSE
  BY <1>6 DEF HubPublishes, CrowdSecRestarts, Accepts
<1> QED
  BY <1>1, <1>3, <1>4, <1>5, <1>6 DEF RulesNext

\* The types of the rules, for any requests and bounds.
THEOREM RulesTypes == RulesSpec => []RulesTypeOK
<1> QED
  BY RulesTypeInit, RulesTypeStep, PTL DEF RulesSpec

\* CrowdSec enforces what its files say, but between a write and its restart
\* and after a script that never came to the restart.
THEOREM EngineFollowsFiles == RulesSpec => []EngineIsCurrent
<1>1. RulesInit => EngineIsCurrent
  BY DEF RulesInit, EngineIsCurrent
<1> QED
  BY <1>1, RulesTypeInit, RulesTypeStep, EngineStep, PTL DEF RulesSpec

\* An "ok" of write_scenario_threshold or apply_scenario_updates is in force,
\* whatever scripts of other requests ran in between.
THEOREM OkMeansEnforced == RulesSpec => OkIsEnforced
<1> DEFINE Kept == \A r \in Editor : Accepts(r) =>
       \/ /\ edit[r].op = "write" => engine.threshold = edit[r].want
          /\ edit[r].op = "apply" => engine.version >= hub.index
       \/ interrupted \/ \E q \in Editor : edit[q].pc = "restart"
<1>1. RulesTypeOK /\ EngineIsCurrent /\ [RulesNext]_rulesVars => [Kept]_rulesVars
  <2> SUFFICES ASSUME RulesTypeOK, EngineIsCurrent, RulesNext, NEW r \in Editor, Accepts(r)
               PROVE  \/ /\ edit[r].op = "write" => engine.threshold = edit[r].want
                         /\ edit[r].op = "apply" => engine.version >= hub.index
                      \/ interrupted \/ \E q \in Editor : edit[q].pc = "restart"
    OBVIOUS
  <2>1. Applied(r)
    BY OnlyReadBackAnswers
  <2> QED
    BY <2>1 DEF Applied, EngineIsCurrent
<1> QED
  BY <1>1, RulesTypes, EngineFollowsFiles, PTL DEF RulesSpec, OkIsEnforced

(***************************************************************************)
(* Lists.                                                                  *)
(***************************************************************************)

LEMMA ListsTypeInit == ListsInit => ListsTypeOK
<1> SUFFICES ASSUME ListsInit PROVE ListsTypeOK
  OBVIOUS
<1>1. Address \in Network
  BY DEF Network
<1>2. NoRequest \in Request
  BY <1>1 DEF NoRequest, Request, ListOp, ListPc, ListEnd
<1>3. decisions \subseteq Decision
  BY <1>1 DEF ListsInit, Decision
<1>4. page \in [status : {"ok", "unreachable"}, rows : SUBSET Row, allowlist : SUBSET Network]
  BY DEF ListsInit
<1>5. counters \in [alert : Nat, decision : Nat] /\ lapi \in BOOLEAN
  BY DEF ListsInit
<1>6. lists \in [manual : SUBSET Network, other : SUBSET Network]
  BY DEF ListsInit
<1> QED
  BY <1>2, <1>3, <1>4, <1>5, <1>6 DEF ListsInit, ListsTypeOK

\* A request that goes on keeps its content, one that ends is cleared.
LEMMA EndingType ==
  ASSUME NEW q \in Request, NEW pc \in ListPc \cup ListEnd
  PROVE  /\ Ending(q, pc) \in Request /\ Ending(q, pc).pc = pc
         /\ \/ /\ Ending(q, pc).op = q.op /\ Ending(q, pc).value = q.value
               /\ Ending(q, pc).id = q.id
            \/ Ending(q, pc).op = "ban"
<1>1. Address \in Network
  BY DEF Network
<1> QED
  BY <1>1 DEF Ending, Request, NoRequest, ListOp

LEMMA ReplyType ==
  ASSUME ListsTypeOK, NEW r \in Operator, NEW pc \in ListPc \cup ListEnd, Reply(r, pc)
  PROVE  /\ request' \in [Operator -> Request] /\ request'[r].pc = pc
         /\ \A q \in Operator \ {r} : request'[q] = request[q]
         /\ \/ request'[r].op = "ban"
            \/ request'[r] = [request[r] EXCEPT !.pc = pc]
<1>1. Ending(request[r], pc) \in Request /\ Ending(request[r], pc).pc = pc
  BY EndingType DEF ListsTypeOK
<1>2. Ending(request[r], pc).op = "ban" \/ Ending(request[r], pc) = [request[r] EXCEPT !.pc = pc]
  BY DEF Ending, NoRequest
<1> QED
  BY <1>1, <1>2 DEF Reply, ListsTypeOK

\* The answers a reply may give.
LEMMA Answers ==
  /\ {"ok", "unreachable", "unauthorized", "invalid_ip", "rejected", "not_found",
      "not_deleted", "elevation_cancelled", "elevation_failed", "invalid_value",
      "allowlist_write_failed", "allowlist_readback_unavailable", "allowlist_readback_mismatch"} \subseteq ListPc \cup ListEnd
  /\ {"login", "call", "script", "read"} \subseteq ListPc \cup ListEnd
  BY DEF ListPc, ListEnd

\* What an alert does to the decisions.
LEMMA AlertStep ==
  ASSUME ListsTypeOK, NEW v \in Network, NEW local \in BOOLEAN, Alert(v, local)
  PROVE  /\ decisions' \subseteq Decision /\ counters' \in [alert : Nat, decision : Nat]
         /\ \/ decisions' = decisions /\ counters'.decision = counters.decision
            \/ \E d \in Decision : /\ decisions' = decisions \cup {d} /\ d.value = v /\ d.local = local
                                   /\ d.id = counters.decision + 1
                                   /\ counters'.decision = counters.decision + 1
<1> DEFINE new == [id |-> counters.decision + 1, alert |-> counters.alert + 1, value |-> v,
                   local |-> local]
<1>1. counters.decision \in Nat /\ counters.alert \in Nat
  BY DEF ListsTypeOK
<1>2. new \in Decision
  BY <1>1 DEF Decision
<1>3. CASE counters' = [counters EXCEPT !.alert = @ + 1] /\ UNCHANGED decisions
  BY <1>1, <1>3 DEF ListsTypeOK
<1>4. CASE /\ counters' = [alert |-> counters.alert + 1, decision |-> counters.decision + 1]
           /\ decisions' = decisions \cup {new}
  <2>1. counters' \in [alert : Nat, decision : Nat]
    BY <1>1, <1>4
  <2> QED
    BY <1>2, <1>4, <2>1 DEF ListsTypeOK
<1> QED
  BY <1>3, <1>4 DEF Alert

LEMMA ListsTypeStep == ListsTypeOK /\ [ListsNext]_listsVars => ListsTypeOK'
<1> SUFFICES ASSUME ListsTypeOK, [ListsNext]_listsVars PROVE ListsTypeOK'
  OBVIOUS
<1>1. CASE FetchConsole
  <2>1. {RowOf(d) : d \in {e \in decisions : ~_is_community_decision(e)}} \subseteq Row
    BY DEF ListsTypeOK, RowOf, Row, Decision
  <2>2. page' \in [status : {"ok", "unreachable"}, rows : SUBSET Row, allowlist : SUBSET Network]
    BY <1>1, <2>1 DEF FetchConsole, ListsTypeOK, _flatten_allowlist_items
  <2> QED
    BY <1>1, <2>2 DEF FetchConsole, ListsTypeOK
<1>2. ASSUME NEW r \in Operator, AskBan(r) PROVE ListsTypeOK'
  <2>1. PICK a \in Address, pc \in {"login", "invalid_ip"} :
          request' = [request EXCEPT ![r] = Ending([op |-> "ban", pc |-> "login", value |-> {a},
                                                    id |-> 0], pc)]
    BY <1>2 DEF AskBan
  <2>2. [op |-> "ban", pc |-> "login", value |-> {a}, id |-> 0] \in Request
    BY DEF Request, Network, ListOp, ListPc
  <2>3. Ending([op |-> "ban", pc |-> "login", value |-> {a}, id |-> 0], pc) \in Request
    BY <2>2, EndingType, Answers
  <2> QED
    BY <1>2, <2>1, <2>3 DEF AskBan, ListsTypeOK
<1>3. ASSUME NEW r \in Operator, AskUnban(r) PROVE ListsTypeOK'
  <2>1. request' \in [Operator -> Request]
    BY <1>3 DEF AskUnban, ListsTypeOK, Row, Request, ListOp, ListPc
  <2> QED
    BY <1>3, <2>1 DEF AskUnban, ListsTypeOK
<1>4. ASSUME NEW r \in Operator, _login_machine(r) PROVE ListsTypeOK'
  <2>1. request' \in [Operator -> Request]
    BY <1>4, ReplyType, Answers DEF _login_machine
  <2> QED
    BY <1>4, <2>1 DEF _login_machine, ListsTypeOK
<1>5. ASSUME NEW r \in Operator, create_ban(r) PROVE ListsTypeOK'
  <2>1. request' \in [Operator -> Request]
    BY <1>5, ReplyType, Answers DEF create_ban, BanReply, Refused
  <2>2. decisions' \subseteq Decision /\ counters' \in [alert : Nat, decision : Nat]
    <3>1. request[r].value \in Network
      BY DEF ListsTypeOK, Request
    <3> QED
      BY <1>5, <3>1, AlertStep DEF create_ban, ListsTypeOK
  <2> QED
    BY <1>5, <2>1, <2>2 DEF create_ban, ListsTypeOK
<1>6. ASSUME NEW r \in Operator, delete_decision(r) PROVE ListsTypeOK'
  <2>1. request' \in [Operator -> Request]
    BY <1>6, ReplyType, Answers DEF delete_decision, Refused
  <2>2. decisions' \subseteq Decision
    BY <1>6 DEF delete_decision, ListsTypeOK
  <2> QED
    BY <1>6, <2>1, <2>2 DEF delete_decision, ListsTypeOK
<1>7. ASSUME NEW r \in Operator, AskAllowlist(r) PROVE ListsTypeOK'
  <2>1. PICK op \in {"add", "remove"}, v \in Network, pc \in {"script", "invalid_value"} :
          request' = [request EXCEPT ![r] = Ending([op |-> op, pc |-> "script", value |-> v,
                                                    id |-> 0], pc)]
    BY <1>7 DEF AskAllowlist
  <2>2. [op |-> op, pc |-> "script", value |-> v, id |-> 0] \in Request
    BY DEF Request, ListOp, ListPc
  <2>3. Ending([op |-> op, pc |-> "script", value |-> v, id |-> 0], pc) \in Request
    BY <2>2, EndingType, Answers
  <2> QED
    BY <1>7, <2>1, <2>3 DEF AskAllowlist, ListsTypeOK
<1>8. ASSUME NEW r \in Operator, AllowlistScript(r) PROVE ListsTypeOK'
  <2>1. request' \in [Operator -> Request]
    BY <1>8, ReplyType, Answers DEF AllowlistScript
  <2>2. request[r].value \in Network
    BY DEF ListsTypeOK, Request
  <2>3. lists' \in [manual : SUBSET Network, other : SUBSET Network]
    BY <1>8, <2>2 DEF AllowlistScript, ListsTypeOK
  <2> QED
    BY <1>8, <2>1, <2>3 DEF AllowlistScript, ListsTypeOK
<1>9. ASSUME NEW r \in Operator, ReadAllowlists(r) PROVE ListsTypeOK'
  <2>1. request' \in [Operator -> Request]
    BY <1>9, ReplyType, Answers DEF ReadAllowlists, ReadbackReply, Refused
  <2> QED
    BY <1>9, <2>1 DEF ReadAllowlists, ListsTypeOK
<1>10. CASE CrowdSecDecides
  <2>1. PICK a \in Address, local \in BOOLEAN : Alert({a}, local)
    BY <1>10 DEF CrowdSecDecides
  <2>2. {a} \in Network
    BY DEF Network
  <2> QED
    BY <1>10, <2>1, <2>2, AlertStep DEF CrowdSecDecides, ListsTypeOK
<1>11. CASE DecisionExpires \/ LapiTurns \/ UNCHANGED listsVars
  BY <1>11 DEF DecisionExpires, LapiTurns, listsVars, ListsTypeOK
<1>12. CASE OtherListChanges
  <2>1. lists' \in [manual : SUBSET Network, other : SUBSET Network]
    BY <1>12 DEF OtherListChanges, ListsTypeOK
  <2> QED
    BY <1>12, <2>1 DEF OtherListChanges, ListsTypeOK
<1> QED
  BY <1>1, <1>2, <1>3, <1>4, <1>5, <1>6, <1>7, <1>8, <1>9, <1>10, <1>11, <1>12 DEF ListsNext

(***************************************************************************)
(* The identities: no id is given twice, so what was read under an id      *)
(* stays the decision it was, or goes.                                     *)
(***************************************************************************)

Identifies(n, v) == n <= counters.decision /\ \A d \in decisions : d.id = n => d.value = v /\ d.local

IdsIssued ==
  /\ \A d, e \in decisions : d.id = e.id => d = e
  /\ \A d \in decisions : d.id <= counters.decision
  /\ \A row \in page.rows : Identifies(row.id, row.value)
  /\ \A r \in Operator : request[r].op = "unban" => Identifies(request[r].id, request[r].value)

\* Decisions go, or one more comes under the next id.
Moved ==
  \/ decisions' \subseteq decisions /\ counters'.decision = counters.decision
  \/ \E d \in Decision : /\ decisions' = decisions \cup {d} /\ d.id = counters.decision + 1
                         /\ counters'.decision = counters.decision + 1

LEMMA StepMoves == ListsTypeOK /\ [ListsNext]_listsVars => Moved
<1> SUFFICES ASSUME ListsTypeOK, [ListsNext]_listsVars PROVE Moved
  OBVIOUS
<1>1. ASSUME NEW v \in Network, NEW local \in BOOLEAN, Alert(v, local) PROVE Moved
  BY <1>1, AlertStep DEF Moved
<1>2. ASSUME NEW r \in Operator, create_ban(r) PROVE Moved
  <2>1. request[r].value \in Network
    BY DEF ListsTypeOK, Request
  <2> QED
    BY <1>1, <1>2, <2>1 DEF create_ban, Moved
<1>3. CASE CrowdSecDecides
  <2>1. PICK a \in Address, local \in BOOLEAN : Alert({a}, local)
    BY <1>3 DEF CrowdSecDecides
  <2>2. {a} \in Network
    BY DEF Network
  <2> QED
    BY <1>1, <2>1, <2>2
<1>4. ASSUME NEW r \in Operator, delete_decision(r) PROVE Moved
  BY <1>4 DEF delete_decision, Moved
<1>5. ASSUME NEW r \in Operator,
             AskBan(r) \/ AskUnban(r) \/ _login_machine(r) \/ AskAllowlist(r) \/ AllowlistScript(r)
             \/ ReadAllowlists(r)
      PROVE  Moved
  BY <1>5 DEF AskBan, AskUnban, _login_machine, AskAllowlist, AllowlistScript, ReadAllowlists, Moved
<1>6. CASE FetchConsole \/ DecisionExpires \/ OtherListChanges \/ LapiTurns \/ UNCHANGED listsVars
  BY <1>6 DEF FetchConsole, DecisionExpires, OtherListChanges, LapiTurns, listsVars, Moved
<1> QED
  BY <1>2, <1>3, <1>4, <1>5, <1>6 DEF ListsNext

LEMMA MovedKeepsNames ==
  ASSUME ListsTypeOK, Moved, NEW n \in Nat, NEW v, Identifies(n, v)
  PROVE  Identifies(n, v)'
<1>1. counters.decision \in Nat
  BY DEF ListsTypeOK
<1> QED
  BY <1>1 DEF Moved, Identifies

LEMMA MovedKeepsIds ==
  ASSUME ListsTypeOK, IdsIssued, Moved
  PROVE  /\ \A d, e \in decisions' : d.id = e.id => d = e
         /\ \A d \in decisions' : d.id <= counters'.decision
<1>1. counters.decision \in Nat /\ \A d \in decisions : d.id \in Nat
  BY DEF ListsTypeOK, Decision
<1> QED
  BY <1>1 DEF Moved, IdsIssued

\* A page shows what is there, or stays as it is.
LEMMA PageNames ==
  ASSUME ListsTypeOK, ListsTypeOK', IdsIssued, [ListsNext]_listsVars, NEW row \in page'.rows
  PROVE  Identifies(row.id, row.value)'
<1>1. CASE FetchConsole
  <2>1. PICK d \in decisions : ~_is_community_decision(d) /\ row = RowOf(d)
    BY <1>1 DEF FetchConsole
  <2>2. row.id = d.id /\ row.value = d.value /\ d.local
    BY <2>1 DEF RowOf, _is_community_decision
  <2> QED
    BY <1>1, <2>2 DEF FetchConsole, IdsIssued, Identifies
<1>2. CASE page' = page
  <2>1. row.id \in Nat
    BY <1>2 DEF ListsTypeOK, Row
  <2> QED
    BY <1>2, <2>1, StepMoves, MovedKeepsNames DEF IdsIssued
<1>3. FetchConsole \/ page' = page
  BY DEF ListsNext, AskBan, AskUnban, _login_machine, create_ban, delete_decision, AskAllowlist,
         AllowlistScript, ReadAllowlists, CrowdSecDecides, DecisionExpires, OtherListChanges,
         LapiTurns, listsVars
<1> QED
  BY <1>1, <1>2, <1>3

\* A request to lift a decision comes from a row of the page and keeps its id.
LEMMA RequestSource ==
  ASSUME ListsTypeOK, [ListsNext]_listsVars, NEW r \in Operator, request'[r].op = "unban"
  PROVE  \/ \E row \in page.rows : request'[r].id = row.id /\ request'[r].value = row.value
         \/ /\ request[r].op = "unban" /\ request'[r].id = request[r].id
            /\ request'[r].value = request[r].value
<1> DEFINE Same == /\ request[r].op = "unban" /\ request'[r].id = request[r].id
                   /\ request'[r].value = request[r].value
<1>1. ASSUME NEW q \in Operator, NEW pc \in ListPc \cup ListEnd, Reply(q, pc) PROVE Same
  <2>1. request'[q].op = "ban" \/ request'[q] = [request[q] EXCEPT !.pc = pc]
    BY <1>1, ReplyType
  <2>2. q # r => request'[r] = request[r]
    BY <1>1, ReplyType
  <2>3. request[q] \in Request
    BY DEF ListsTypeOK
  <2> QED
    BY <2>1, <2>2, <2>3 DEF Request
<1>2. ASSUME NEW q \in Operator,
             _login_machine(q) \/ create_ban(q) \/ delete_decision(q) \/ AllowlistScript(q)
             \/ ReadAllowlists(q)
      PROVE  Same
  <2>1. \E pc \in ListPc \cup ListEnd : Reply(q, pc)
    BY <1>2, Answers DEF _login_machine, create_ban, BanReply, delete_decision, AllowlistScript,
                         ReadAllowlists, ReadbackReply, Refused
  <2> QED
    BY <1>1, <2>1
<1>3. ASSUME NEW q \in Operator, AskUnban(q)
      PROVE  Same \/ \E row \in page.rows : request'[r].id = row.id /\ request'[r].value = row.value
  BY <1>3 DEF AskUnban, ListsTypeOK
<1>4. ASSUME NEW q \in Operator, AskBan(q) \/ AskAllowlist(q) PROVE Same
  <2>1. \E new \in Request : request' = [request EXCEPT ![q] = new] /\ new.op # "unban"
    <3>1. CASE AskBan(q)
      <4>1. PICK a \in Address, pc \in {"login", "invalid_ip"} :
              request' = [request EXCEPT ![q] = Ending([op |-> "ban", pc |-> "login",
                                                        value |-> {a}, id |-> 0], pc)]
        BY <3>1 DEF AskBan
      <4> DEFINE asked == [op |-> "ban", pc |-> "login", value |-> {a}, id |-> 0]
      <4>2. asked \in Request /\ asked.op = "ban"
        BY DEF Request, Network, ListOp, ListPc
      <4>3. pc \in ListPc \cup ListEnd
        BY Answers
      <4> HIDE DEF asked
      <4>4. Ending(asked, pc) \in Request /\ Ending(asked, pc).op = "ban"
        BY <4>2, <4>3, EndingType
      <4>5. request' = [request EXCEPT ![q] = Ending(asked, pc)]
        BY <4>1 DEF asked
      <4> QED
        BY <4>4, <4>5
    <3>2. CASE AskAllowlist(q)
      <4>1. PICK op \in {"add", "remove"}, v \in Network, pc \in {"script", "invalid_value"} :
              request' = [request EXCEPT ![q] = Ending([op |-> op, pc |-> "script", value |-> v,
                                                        id |-> 0], pc)]
        BY <3>2 DEF AskAllowlist
      <4> DEFINE asked == [op |-> op, pc |-> "script", value |-> v, id |-> 0]
      <4>2. asked \in Request
        BY DEF Request, ListOp, ListPc
      <4>3. pc \in ListPc \cup ListEnd
        BY Answers
      <4>4. Ending(asked, pc) \in Request
            /\ (Ending(asked, pc).op = asked.op \/ Ending(asked, pc).op = "ban")
        <5> HIDE DEF asked
        <5> QED
          BY <4>2, <4>3, EndingType
      <4>5. Ending(asked, pc).op # "unban"
        BY <4>4
      <4> QED
        BY <4>1, <4>4, <4>5
    <3> QED
      BY <1>4, <3>1, <3>2
  <2> QED
    BY <2>1 DEF ListsTypeOK
<1>5. CASE FetchConsole \/ CrowdSecDecides \/ DecisionExpires \/ OtherListChanges \/ LapiTurns
           \/ UNCHANGED listsVars
  BY <1>5 DEF FetchConsole, CrowdSecDecides, DecisionExpires, OtherListChanges, LapiTurns, listsVars
<1> QED
  BY <1>2, <1>3, <1>4, <1>5 DEF ListsNext

LEMMA IdsStep ==
  ListsTypeOK /\ ListsTypeOK' /\ IdsIssued /\ [ListsNext]_listsVars => IdsIssued'
<1> SUFFICES ASSUME ListsTypeOK, ListsTypeOK', IdsIssued, [ListsNext]_listsVars PROVE IdsIssued'
  OBVIOUS
<1>1. Moved
  BY StepMoves
<1>2. ASSUME NEW r \in Operator, request'[r].op = "unban"
      PROVE  Identifies(request[r].id, request[r].value)'
  <2>1. CASE \E row \in page.rows : request'[r].id = row.id /\ request'[r].value = row.value
    <3>1. PICK row \in page.rows : request'[r].id = row.id /\ request'[r].value = row.value
      BY <2>1
    <3>2. row.id \in Nat /\ Identifies(row.id, row.value)
      BY DEF ListsTypeOK, Row, IdsIssued
    <3>3. Identifies(row.id, row.value)'
      <4>1. PICK n \in Nat, v \in {row.value} : n = row.id /\ v = row.value
        BY <3>2
      <4>2. Identifies(n, v)'
        BY <1>1, <3>2, <4>1, MovedKeepsNames
      <4> QED
        BY <3>1, <4>1, <4>2 DEF Identifies
    <3> QED
      BY <3>1, <3>3 DEF Identifies
  <2>2. CASE /\ request[r].op = "unban" /\ request'[r].id = request[r].id
             /\ request'[r].value = request[r].value
    <3>1. request[r].id \in Nat /\ Identifies(request[r].id, request[r].value)
      BY <2>2 DEF ListsTypeOK, Request, IdsIssued
    <3>2. PICK n \in Nat, v \in {request[r].value} : n = request[r].id /\ v = request[r].value
      BY <3>1
    <3>3. Identifies(n, v)'
      BY <1>1, <3>1, <3>2, MovedKeepsNames
    <3> QED
      BY <2>2, <3>2, <3>3 DEF Identifies
  <2> QED
    BY <1>2, <2>1, <2>2, RequestSource
<1> QED
  BY <1>1, <1>2, MovedKeepsIds, PageNames DEF IdsIssued

(***************************************************************************)
(* The theorems about the decisions and the allowlists.                    *)
(***************************************************************************)

\* The requests, the pages and what CrowdSec holds keep their shapes.
THEOREM ListsTypes == ListsSpec => []ListsTypeOK
<1>1. ListsInit => ListsTypeOK
  BY ListsTypeInit
<1>2. ListsTypeOK /\ [ListsNext]_listsVars => ListsTypeOK'
  BY ListsTypeStep
<1> QED
  BY <1>1, <1>2, PTL DEF ListsSpec

LEMMA IdsInit == ListsInit => IdsIssued
  BY DEF ListsInit, IdsIssued, Identifies, NoRequest

LEMMA IdsAlways == ListsSpec => []IdsIssued
<1>1. ListsInit => IdsIssued
  BY IdsInit
<1>2. ListsTypeOK /\ ListsTypeOK' /\ IdsIssued /\ [ListsNext]_listsVars => IdsIssued'
  BY IdsStep
<1>3. ListsSpec => []ListsTypeOK
  BY ListsTypes
<1> QED
  BY <1>1, <1>2, <1>3, PTL DEF ListsSpec

\* An id names one decision for ever: a row of an old page, and a request
\* that came from it, name the decision that was shown or none
\* (fetch_ids_console_data, unban_decision).
THEOREM RowsNameDecisions == ListsSpec => []IdsAreOnce
<1>1. IdsIssued => IdsAreOnce
  BY DEF IdsIssued, IdsAreOnce, Identifies
<1> QED
  BY <1>1, IdsAlways, PTL

\* Only a change of an allowlist runs a script and reads back.
ScriptsChangeLists ==
  \A r \in Operator : request[r].pc \in {"script", "read"} => request[r].op \in {"add", "remove"}

LEMMA ScriptsInit == ListsInit => ScriptsChangeLists
  BY DEF ListsInit, ScriptsChangeLists, NoRequest

LEMMA ReplyScripts ==
  ASSUME ListsTypeOK, ScriptsChangeLists, NEW r \in Operator, NEW pc \in ListPc \cup ListEnd,
         Reply(r, pc), pc \in {"script", "read"} => request[r].pc = "script"
  PROVE  ScriptsChangeLists'
<1>1. pc \in {"script", "read"} => request'[r].op = request[r].op
  BY DEF Reply, Ending, ListPc, ListsTypeOK, Request
<1>2. request'[r].pc = pc /\ \A q \in Operator \ {r} : request'[q] = request[q]
  BY ReplyType
<1>3. ASSUME NEW q \in Operator, request'[q].pc \in {"script", "read"}
      PROVE  request'[q].op \in {"add", "remove"}
  <2>1. CASE q = r
    <3>1. request[r].op \in {"add", "remove"} /\ request'[r].op = request[r].op
      BY <1>1, <1>2, <1>3, <2>1 DEF ScriptsChangeLists
    <3> QED
      BY <2>1, <3>1
  <2>2. CASE q # r
    BY <1>2, <1>3, <2>2 DEF ScriptsChangeLists
  <2> QED
    BY <2>1, <2>2
<1> QED
  BY <1>3 DEF ScriptsChangeLists

LEMMA ScriptsStep == ListsTypeOK /\ ScriptsChangeLists /\ [ListsNext]_listsVars => ScriptsChangeLists'
<1> SUFFICES ASSUME ListsTypeOK, ScriptsChangeLists, [ListsNext]_listsVars PROVE ScriptsChangeLists'
  OBVIOUS
<1>1. ASSUME NEW r \in Operator, AskBan(r) PROVE ScriptsChangeLists'
  <2>1. PICK a \in Address, pc \in {"login", "invalid_ip"} :
          request' = [request EXCEPT ![r] = Ending([op |-> "ban", pc |-> "login", value |-> {a},
                                                    id |-> 0], pc)]
    BY <1>1 DEF AskBan
  <2> QED
    BY <2>1 DEF Ending, NoRequest, ListPc, ListsTypeOK, ScriptsChangeLists
<1>2. ASSUME NEW r \in Operator, AskUnban(r) PROVE ScriptsChangeLists'
  BY <1>2 DEF AskUnban, ListsTypeOK, ScriptsChangeLists
<1>3. ASSUME NEW r \in Operator, AskAllowlist(r) PROVE ScriptsChangeLists'
  <2>1. PICK op \in {"add", "remove"}, v \in Network, pc \in {"script", "invalid_value"} :
          request' = [request EXCEPT ![r] = Ending([op |-> op, pc |-> "script", value |-> v,
                                                    id |-> 0], pc)]
    BY <1>3 DEF AskAllowlist
  <2> QED
    BY <2>1 DEF Ending, NoRequest, ListPc, ListsTypeOK, ScriptsChangeLists
<1>4. ASSUME NEW r \in Operator,
             _login_machine(r) \/ create_ban(r) \/ delete_decision(r) \/ AllowlistScript(r)
             \/ ReadAllowlists(r)
      PROVE  ScriptsChangeLists'
  <2>1. \E pc \in ListPc \cup ListEnd :
          Reply(r, pc) /\ (pc \in {"script", "read"} => request[r].pc = "script")
    BY <1>4, Answers DEF _login_machine, create_ban, BanReply, delete_decision, AllowlistScript,
                         ReadAllowlists, ReadbackReply, Refused
  <2> QED
    BY <2>1, ReplyScripts
<1>5. CASE FetchConsole \/ CrowdSecDecides \/ DecisionExpires \/ OtherListChanges \/ LapiTurns
           \/ UNCHANGED listsVars
  BY <1>5 DEF FetchConsole, CrowdSecDecides, DecisionExpires, OtherListChanges, LapiTurns, listsVars,
              ScriptsChangeLists
<1> QED
  BY <1>1, <1>2, <1>3, <1>4, <1>5 DEF ListsNext

LEMMA ScriptsAlways == ListsSpec => []ScriptsChangeLists
<1>1. ListsTypeOK /\ ScriptsChangeLists /\ [ListsNext]_listsVars => ScriptsChangeLists'
  BY ScriptsStep
<1> QED
  BY <1>1, ScriptsInit, ListsTypes, PTL DEF ListsSpec

\* No other step answers "ok".
LEMMA WhoAnswers ==
  ASSUME ListsTypeOK, [ListsNext]_listsVars, NEW r \in Operator, Answered(r)
  PROVE  create_ban(r) \/ delete_decision(r) \/ ReadAllowlists(r)
<1>1. request[r].pc \in ListPc /\ request'[r].pc = "ok" /\ "ok" \notin ListPc
  BY DEF Answered, Idle, ListPc
<1>2. ASSUME NEW q \in Operator, q # r, NEW new, request' = [request EXCEPT ![q] = new] PROVE FALSE
  BY <1>1, <1>2 DEF ListsTypeOK
<1>3. ASSUME NEW q \in Operator,
             AskBan(q) \/ AskUnban(q) \/ _login_machine(q) \/ create_ban(q) \/ delete_decision(q)
             \/ AskAllowlist(q) \/ AllowlistScript(q) \/ ReadAllowlists(q)
      PROVE  q = r
  <2>1. \E new : request' = [request EXCEPT ![q] = new]
    BY <1>3 DEF AskBan, AskUnban, _login_machine, create_ban, delete_decision, AskAllowlist,
                AllowlistScript, ReadAllowlists, Reply, Refused
  <2> QED
    BY <1>2, <2>1
<1>4. ~AskBan(r) /\ ~AskUnban(r) /\ ~AskAllowlist(r)
  BY <1>1 DEF AskBan, AskUnban, AskAllowlist, Idle
<1>5. ~_login_machine(r)
  <2>1. ~Reply(r, "call") /\ ~Reply(r, "unauthorized") /\ ~Reply(r, "unreachable")
    BY <1>1, ReplyType, Answers
  <2> QED
    BY <2>1 DEF _login_machine
<1>6. ~AllowlistScript(r)
  <2>1. /\ ~Reply(r, "read") /\ ~Reply(r, "elevation_cancelled") /\ ~Reply(r, "elevation_failed")
        /\ ~Reply(r, "allowlist_write_failed")
    BY <1>1, ReplyType, Answers
  <2> QED
    BY <2>1 DEF AllowlistScript
<1>7. request' # request
  BY <1>1
<1> QED
  BY <1>3, <1>4, <1>5, <1>6, <1>7
     DEF ListsNext, listsVars, FetchConsole, CrowdSecDecides, DecisionExpires, OtherListChanges, LapiTurns

LEMMA AnsweredBan ==
  ASSUME ListsTypeOK, NEW r \in Operator, create_ban(r), request'[r].pc = "ok"
  PROVE  request[r].op = "ban" /\ \E d \in decisions' : d.value = request[r].value /\ d.local
<1>1. request[r].op = "ban"
  BY DEF create_ban, Calls
<1>2. ~Reply(r, "unreachable") /\ ~Reply(r, "unauthorized")
  BY ReplyType, Answers
<1>3. Alert(request[r].value, TRUE) /\ Reply(r, BanReply(decisions' # decisions))
  BY <1>2 DEF create_ban, Refused
<1>4. decisions' # decisions
  <2> SUFFICES ASSUME decisions' = decisions PROVE FALSE
    OBVIOUS
  <2>1. Reply(r, "rejected")
    BY <1>3 DEF BanReply
  <2> QED
    BY <2>1, ReplyType, Answers
<1>5. request[r].value \in Network
  BY DEF ListsTypeOK, Request
<1>6. PICK d \in Decision : decisions' = decisions \cup {d} /\ d.value = request[r].value /\ d.local
  BY <1>3, <1>4, <1>5, AlertStep
<1> QED
  BY <1>1, <1>6

LEMMA AnsweredUnban ==
  ASSUME ListsTypeOK, IdsIssued, NEW r \in Operator, delete_decision(r), request'[r].pc = "ok"
  PROVE  /\ request[r].op = "unban"
         /\ \E d \in decisions : /\ d.value = request[r].value /\ d.local
                                /\ decisions' = decisions \ {d}
<1> DEFINE gone == {d \in decisions : d.id = request[r].id}
<1>1. request[r].op = "unban"
  BY DEF delete_decision, Calls
<1>2. /\ ~Reply(r, "unreachable") /\ ~Reply(r, "unauthorized") /\ ~Reply(r, "not_found")
      /\ ~Reply(r, "not_deleted")
  BY ReplyType, Answers
<1>3. decisions' = decisions \ gone /\ gone # {}
  BY <1>2 DEF delete_decision, Refused
<1>4. PICK d \in decisions : d.id = request[r].id
  BY <1>3
<1>5. gone = {d}
  BY <1>4 DEF IdsIssued
<1>6. d.value = request[r].value /\ d.local
  BY <1>1, <1>4 DEF IdsIssued, Identifies
<1> QED
  BY <1>1, <1>3, <1>5, <1>6

LEMMA AnsweredList ==
  ASSUME ListsTypeOK, NEW r \in Operator, ReadAllowlists(r), request'[r].pc = "ok"
  PROVE  (request[r].value \in (lists.manual \cup lists.other)') = (request[r].op = "add")
<1>1. ~Reply(r, "allowlist_readback_unavailable") /\ ~Reply(r, "allowlist_readback_mismatch")
  BY ReplyType, Answers
<1>2. Reply(r, ReadbackReply(r))
  BY <1>1 DEF ReadAllowlists
<1>3. _find_allowlist_item(request[r].value) = (request[r].op = "add")
  BY <1>1, <1>2 DEF ReadbackReply
<1>4. lists' = lists
  BY DEF ReadAllowlists
<1> QED
  BY <1>3, <1>4 DEF _find_allowlist_item, _flatten_allowlist_items

\* An operator who is told "ok" is told the truth: the address is banned, the
\* decision on the row is the one lifted, the value is in an allowlist or in
\* none (crowdsec_ban_ip, crowdsec_unban_ip, add_to_allowlist,
\* remove_from_allowlist), whatever other requests, cscli and CrowdSec do in
\* between.
THEOREM OkIsTrue == ListsSpec => AnswersAreTrue
<1> DEFINE True(r) ==
       CASE request[r].op = "ban" -> \E d \in decisions' : d.value = request[r].value /\ d.local
         [] request[r].op = "unban" ->
              \E d \in decisions : d.value = request[r].value /\ d.local /\ decisions' = decisions \ {d}
         [] request[r].op = "add" -> request[r].value \in (lists.manual \cup lists.other)'
         [] request[r].op = "remove" -> request[r].value \notin (lists.manual \cup lists.other)'
<1>1. ASSUME ListsTypeOK, IdsIssued, ScriptsChangeLists, [ListsNext]_listsVars, NEW r \in Operator,
             Answered(r)
      PROVE  True(r)
  <2>1. request'[r].pc = "ok"
    BY <1>1 DEF Answered
  <2>2. CASE create_ban(r)
    BY <1>1, <2>1, <2>2, AnsweredBan
  <2>3. CASE delete_decision(r)
    BY <1>1, <2>1, <2>3, AnsweredUnban
  <2>4. CASE ReadAllowlists(r)
    <3>1. request[r].op \in {"add", "remove"}
      BY <1>1, <2>4 DEF ReadAllowlists, ScriptsChangeLists
    <3>2. (request[r].value \in (lists.manual \cup lists.other)') <=> request[r].op = "add"
      BY <1>1, <2>1, <2>4, AnsweredList
    <3> QED
      BY <3>1, <3>2
  <2> QED
    BY <1>1, <2>2, <2>3, <2>4, WhoAnswers
<1>2. /\ ListsTypeOK /\ IdsIssued /\ ScriptsChangeLists /\ [ListsNext]_listsVars
      => [\A r \in Operator : Answered(r) => True(r)]_listsVars
  BY <1>1
<1> QED
  BY <1>2, ListsTypes, IdsAlways, ScriptsAlways, PTL DEF ListsSpec, AnswersAreTrue
=============================================================================
