---------------------------- MODULE CrowdSecLists ----------------------------
(***************************************************************************)
(* The decisions and allowlists of CrowdSec as the console reads and       *)
(* changes them (security_connectors/crowdsec.py, the ban, unban and       *)
(* allowlist routes).                                                      *)
(*                                                                         *)
(* A ban or an unban is a login and a call to the LAPI; an allowlist       *)
(* change is an elevated command in the container and a readback through   *)
(* the LAPI.  Between the two, other requests, cscli in a terminal and     *)
(* CrowdSec itself go on, and the page an unban comes from may be old.     *)
(*                                                                         *)
(* A network (an IP address or a CIDR block) is the set of its addresses,  *)
(* which is how ipaddress compares two of them.                            *)
(***************************************************************************)
EXTENDS Naturals, FiniteSets

CONSTANTS
  Operator,      \* the requests
  Address,       \* the IP addresses
  MaxAlerts      \* bound on the alerts ever made

ASSUME ListsAssumption == MaxAlerts \in Nat

VARIABLES
  decisions,     \* active decisions of CrowdSec
  counters,      \* the last alert id and the last decision id: two sequences
  lists,         \* entries of the allowlist hranix_manual and of all others
  lapi,          \* TRUE iff the container runs and the LAPI answers
  page,          \* the ids console as last fetched
  request        \* request[r]

listsVars == <<decisions, counters, lists, lapi, page, request>>

Network == {{a} : a \in Address} \cup {Address}
Decision == [id : Nat, alert : Nat, value : Network, local : BOOLEAN]
Row == [id : Nat, value : Network]
ListOp == {"ban", "unban", "add", "remove"}
ListPc == {"login", "call", "script", "read"}
ListEnd == {"none", "ok", "unreachable", "unauthorized", "invalid_ip", "rejected", "not_found",
            "not_deleted", "elevation_cancelled", "elevation_failed", "invalid_value", "allowlist_write_failed",
            "allowlist_readback_unavailable", "allowlist_readback_mismatch"}
Request == [op : ListOp, pc : ListPc \cup ListEnd, value : Network, id : Nat]
NoRequest == [op |-> "ban", pc |-> "none", value |-> Address, id |-> 0]

\* CrowdSec starts with a range of the community blocklist.
ListsInit ==
  /\ decisions = {[id |-> 1, alert |-> 0, value |-> Address, local |-> FALSE]}
  /\ counters = [alert |-> 0, decision |-> 1]
  /\ lists = [manual |-> {}, other |-> {}] /\ lapi = TRUE
  /\ page = [status |-> "unreachable", rows |-> {}, allowlist |-> {}]
  /\ request = [r \in Operator |-> NoRequest]

Ending(q, pc) == IF pc \in ListPc THEN [q EXCEPT !.pc = pc] ELSE [NoRequest EXCEPT !.pc = pc]
Reply(r, pc) == request' = [request EXCEPT ![r] = Ending(request[r], pc)]

(***************************************************************************)
(* The reads: fetch_ids_console_data and fetch_allowlists.                 *)
(***************************************************************************)

_is_community_decision(d) == ~d.local

RowOfAlert(d) == [id |-> d.alert, value |-> d.value]

\* A row carries the id of its decision, which is what an unban deletes.
RowOf(d) == [id |-> d.id, value |-> d.value]

_flatten_allowlist_items == lists.manual \cup lists.other

FetchConsole ==
  /\ page' = IF lapi
             THEN [status |-> "ok",
                   rows |-> {RowOf(d) : d \in {e \in decisions : ~_is_community_decision(e)}},
                   allowlist |-> _flatten_allowlist_items]
             ELSE [status |-> "unreachable", rows |-> {}, allowlist |-> {}]
  /\ UNCHANGED <<decisions, counters, lists, lapi, request>>

(***************************************************************************)
(* ban_ip and unban_decision                                               *)
(***************************************************************************)

Idle(r) == request[r].pc \notin ListPc

\* The address is validated by this program: the LAPI takes anything.
AskBan(r) ==
  /\ Idle(r)
  /\ \E a \in Address, pc \in {"login", "invalid_ip"} :
       request' = [request EXCEPT ![r] = Ending([op |-> "ban", pc |-> "login", value |-> {a},
                                                 id |-> 0], pc)]
  /\ UNCHANGED <<decisions, counters, lists, lapi, page>>

AskUnban(r) ==
  /\ Idle(r)
  /\ \E row \in page.rows :
       request' = [request EXCEPT ![r] = [op |-> "unban", pc |-> "login", value |-> row.value,
                                          id |-> row.id]]
  /\ UNCHANGED <<decisions, counters, lists, lapi, page>>

_login_machine(r) ==
  /\ request[r].pc = "login"
  /\ \/ lapi /\ (Reply(r, "call") \/ Reply(r, "unauthorized"))
     \/ Reply(r, "unreachable")
  /\ UNCHANGED <<decisions, counters, lists, lapi, page>>

Calls(r, op) == request[r].pc = "call" /\ request[r].op = op
Refused(r) == Reply(r, "unreachable") \/ (lapi /\ Reply(r, "unauthorized"))

\* CrowdSec makes an alert and, unless an allowlist covers the address, a decision.
Alert(value, local) ==
  /\ counters.alert < MaxAlerts
  /\ IF \E v \in _flatten_allowlist_items : value \subseteq v
     THEN counters' = [counters EXCEPT !.alert = @ + 1] /\ UNCHANGED decisions
     ELSE /\ counters' = [alert |-> counters.alert + 1, decision |-> counters.decision + 1]
          /\ decisions' = decisions \cup {[id |-> counters.decision + 1,
                                           alert |-> counters.alert + 1,
                                           value |-> value, local |-> local]}

\* A 201 with no id is a refusal: the answer does not say which of its checks
\* CrowdSec applied, only whether a decision came of it.
BanReply(made) == IF made THEN "ok" ELSE "rejected"

\* An answer that is lost is "unreachable", whatever was done.
create_ban(r) ==
  /\ Calls(r, "ban")
  /\ \/ /\ lapi /\ Alert(request[r].value, TRUE)
        /\ (Reply(r, BanReply(decisions' # decisions)) \/ Reply(r, "unreachable"))
     \/ Refused(r) /\ UNCHANGED <<decisions, counters>>
  /\ UNCHANGED <<lists, lapi, page>>

\* An id that is gone is a 500 the client tells from the others by its text, or
\* a 200 that counts nothing deleted.
delete_decision(r) ==
  /\ Calls(r, "unban")
  /\ LET gone == {d \in decisions : d.id = request[r].id} IN
     \/ /\ lapi /\ decisions' = decisions \ gone
        /\ \E pc \in (IF gone # {} THEN {"ok"} ELSE {"not_found", "not_deleted"}) \cup {"unreachable"} :
             Reply(r, pc)
     \/ Refused(r) /\ UNCHANGED decisions
  /\ UNCHANGED <<counters, lists, lapi, page>>

(***************************************************************************)
(* add_to_allowlist and remove_from_allowlist                              *)
(***************************************************************************)

\* A removal comes from a row of the page, of whatever list.
AskAllowlist(r) ==
  /\ Idle(r)
  /\ \E op \in {"add", "remove"}, v \in Network, pc \in {"script", "invalid_value"} :
       /\ op = "remove" => v \in page.allowlist
       /\ request' = [request EXCEPT ![r] = Ending([op |-> op, pc |-> "script", value |-> v,
                                                    id |-> 0], pc)]
  /\ UNCHANGED <<decisions, counters, lists, lapi, page>>

\* The elevated docker exec.  Of a command that fails with a marker only the
\* readback says whether the entry is there; one that times out, or whose list
\* could not be made, is not read back.
AllowlistScript(r) ==
  /\ request[r].pc = "script"
  /\ \/ /\ lapi /\ (Reply(r, "read") \/ Reply(r, "elevation_failed"))
        /\ \/ UNCHANGED lists
           \/ lists' = [lists EXCEPT !.manual = IF request[r].op = "add" THEN @ \cup {request[r].value}
                                                ELSE @ \ {request[r].value}]
     \/ /\ Reply(r, "elevation_cancelled") \/ Reply(r, "elevation_failed")
           \/ (request[r].op = "add" /\ Reply(r, "allowlist_write_failed"))
        /\ UNCHANGED lists
  /\ UNCHANGED <<decisions, counters, lapi, page>>

\* The value is looked for in all the lists, by network and not by spelling.
_find_allowlist_item(value) == value \in _flatten_allowlist_items
ReadbackReply(r) ==
  IF _find_allowlist_item(request[r].value) = (request[r].op = "add") THEN "ok"
  ELSE "allowlist_readback_mismatch"

ReadAllowlists(r) ==
  /\ request[r].pc = "read"
  /\ IF lapi THEN Reply(r, ReadbackReply(r)) \/ Reply(r, "allowlist_readback_unavailable")
     ELSE Reply(r, "allowlist_readback_unavailable")
  /\ UNCHANGED <<decisions, counters, lists, lapi, page>>

(***************************************************************************)
(* CrowdSec by itself and through cscli.                                   *)
(***************************************************************************)

CrowdSecDecides ==
  /\ \E a \in Address, local \in BOOLEAN : Alert({a}, local)
  /\ UNCHANGED <<lists, lapi, page, request>>

DecisionExpires ==
  /\ \E d \in decisions : decisions' = decisions \ {d}
  /\ UNCHANGED <<counters, lists, lapi, page, request>>

OtherListChanges ==
  /\ \E v \in Network : lists' = [lists EXCEPT !.other = (@ \ {v}) \cup ({v} \ @)]
  /\ UNCHANGED <<decisions, counters, lapi, page, request>>

LapiTurns ==
  /\ lapi' = ~lapi
  /\ UNCHANGED <<decisions, counters, lists, page, request>>

ListsNext ==
  \/ FetchConsole
  \/ \E r \in Operator :
       \/ AskBan(r) \/ AskUnban(r) \/ _login_machine(r) \/ create_ban(r) \/ delete_decision(r)
       \/ AskAllowlist(r) \/ AllowlistScript(r) \/ ReadAllowlists(r)
  \/ CrowdSecDecides \/ DecisionExpires \/ OtherListChanges \/ LapiTurns

ListsSpec == ListsInit /\ [][ListsNext]_listsVars

-----------------------------------------------------------------------------
ListsTypeOK ==
  /\ decisions \subseteq Decision /\ counters \in [alert : Nat, decision : Nat]
  /\ lists \in [manual : SUBSET Network, other : SUBSET Network] /\ lapi \in BOOLEAN
  /\ page \in [status : {"ok", "unreachable"}, rows : SUBSET Row,
               allowlist : SUBSET Network]
  /\ request \in [Operator -> Request]

\* A decision is known by its id, which is never given to another: the row of
\* an old page can only name the decision it showed, or none.
IdsAreOnce ==
  /\ \A d, e \in decisions : d.id = e.id => d = e
  /\ \A row \in page.rows : \A d \in decisions : d.id = row.id => d.value = row.value
  /\ \A r \in Operator : request[r].op = "unban" =>
       \A d \in decisions : d.id = request[r].id => d.value = request[r].value

\* What an operator is told was done is so in CrowdSec at that moment: the
\* address is banned, the one decision lifted is of the address on the row
\* that was clicked, the value is in an allowlist, the value is in none
\* (crowdsec_ban_ip, crowdsec_unban_ip, add_to_allowlist, remove_from_allowlist).
Answered(r) == ~Idle(r) /\ request'[r].pc = "ok"
AnswersAreTrue ==
  [][\A r \in Operator : Answered(r) =>
       CASE request[r].op = "ban" -> \E d \in decisions' : d.value = request[r].value /\ d.local
         [] request[r].op = "unban" ->
              \E d \in decisions : d.value = request[r].value /\ d.local /\ decisions' = decisions \ {d}
         [] request[r].op = "add" -> request[r].value \in (lists.manual \cup lists.other)'
         [] request[r].op = "remove" -> request[r].value \notin (lists.manual \cup lists.other)']_listsVars
=============================================================================
