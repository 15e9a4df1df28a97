--------------------------- MODULE FirewallBlocks ---------------------------
(***************************************************************************)
(* Ports and addresses the operator blocks: the handlers of                *)
(* routers/security_console.py, block_port, unblock_port, block_ip and     *)
(* unblock_ip of os_firewall.py, and the elevated command of elevated.py.  *)
(*                                                                         *)
(* Ports and IPs have a table and a rule set each and share one shape, so  *)
(* the module models one of the two; a port has a single spelling.  A      *)
(* handler reads the table, awaits a human at an OS prompt, and only then  *)
(* writes the table: everything else may happen at that await.             *)
(***************************************************************************)
EXTENDS Integers

CONSTANTS
  Request,    \* identities of the HTTP requests in progress
  Address,    \* spellings of the ports, or of the IPs
  Canon,      \* Canon[a]: str(ipaddress.ip_address(a)); the identity on ports
  Spelled,    \* the spellings by which clients ask to unblock
  Platform,   \* operating systems: "Darwin", "Linux", "Windows"
  Patient,    \* on a Mac, the operator ends one request before the next
  MaxFaults   \* bound on timeouts, failed writes, crashes and reboots

ASSUME CanonAssumption ==
  /\ Canon \in [Address -> Address]
  /\ \A a \in Address : Canon[Canon[a]] = Canon[a]
ASSUME SpelledAssumption == Spelled \subseteq Address
ASSUME PlatformAssumption == Platform \subseteq {"Darwin", "Linux", "Windows"}
ASSUME BoundsAssumption == MaxFaults \in Nat /\ Patient \in BOOLEAN

VARIABLES
  platform,   \* platform.system()
  rows,       \* the table blocked_ports, or blocked_ips
  rules,      \* what the operating system enforces of ours
  req,        \* req[r]: where the handler of request r is
  faults      \* failures still allowed

vars == <<platform, rows, rules, req, faults>>

Canonical == {Canon[a] : a \in Address}

ReqState == [pc      : {"idle", "prompt", "record", "late"},
             op      : {"none", "block", "unblock"},
             subject : Address \cup {"none"},
             desired : SUBSET Address,  \* the set read, with the change made
             crossed : BOOLEAN]         \* an abandoned command ran after its own

Idle == [pc |-> "idle", op |-> "none", subject |-> "none", desired |-> {},
         crossed |-> FALSE]

InProgress(r) == req[r].pc \in {"prompt", "record"}

Subject(r) == Canon[req[r].subject]

Fault == faults > 0 /\ faults' = faults - 1

Init ==
  /\ platform \in Platform
  /\ rows = {} /\ rules = {}
  /\ req = [r \in Request |-> Idle]
  /\ faults = MaxFaults

(***************************************************************************)
(* The handlers.                                                           *)
(***************************************************************************)

\* The panel disables both buttons of a row while its request is in progress.
MayBegin(a) ==
  \A q \in Request : InProgress(q) =>
    Subject(q) # Canon[a] /\ ~(Patient /\ platform = "Darwin")

\* The list handed to the prompt: the rows read now, with the change made.
JustTheChange(op, a) == IF op = "block" THEN {a} ELSE {}  \* mutated: no rows
Desired(op, a) == IF op = "block" THEN rows \cup {a} ELSE rows \ {a}

Ask(r, op, a) ==
  /\ req[r].pc = "idle" /\ MayBegin(a)
  /\ req' = [req EXCEPT ![r] = [pc |-> "prompt", op |-> op, subject |-> a,
                                desired |-> Desired(op, a), crossed |-> FALSE]]
  /\ UNCHANGED <<platform, rows, rules, faults>>

AskBlock(r) == \E a \in Address : Ask(r, "block", a)
AskUnblock(r) == \E a \in Spelled : Ask(r, "unblock", a)

\* pf replaces the whole anchor by the list.  iptables adds a rule once, and
\* removes it if there; Windows may add it twice, but removes all of a name.
Enforced(r) ==
  IF platform = "Darwin" THEN {Canon[a] : a \in req[r].desired}
  ELSE IF req[r].op = "block" THEN rules \cup {Subject(r)}
  ELSE rules \ {Subject(r)}

\* The human consents and the elevated command succeeds.
Consent(r) ==
  /\ req[r].pc = "prompt"
  /\ rules' = Enforced(r)
  /\ req' = [req EXCEPT ![r].pc = "record"]
  /\ UNCHANGED <<platform, rows, faults>>

\* The human declines, or the elevated command never runs: an OSFirewallError.
Decline(r) ==
  /\ req[r].pc = "prompt"
  /\ req' = [req EXCEPT ![r] = Idle]
  /\ UNCHANGED <<platform, rows, rules, faults>>

\* After 120 seconds the handler gives up, and answers elevation_failed; it
\* kills its own child only, and not the command behind the prompt.
Believed == "record"                  \* mutated: taken for a success
GivenUp == "late"

TimeOut(r) ==
  /\ req[r].pc = "prompt" /\ Fault
  /\ req' = [req EXCEPT ![r].pc = GivenUp]
  /\ UNCHANGED <<platform, rows, rules>>

\* The command that was given up runs after all, or dies with its prompt.
LateCommand(r) ==
  /\ req[r].pc = "late"
  /\ \/ /\ rules' = Enforced(r)
        /\ req' = [q \in Request |->
                     IF q = r THEN Idle
                     ELSE IF req[q].pc = "record" THEN [req[q] EXCEPT !.crossed = TRUE]
                     ELSE req[q]]
     \/ /\ req' = [req EXCEPT ![r] = Idle]
        /\ UNCHANGED rules
  /\ UNCHANGED <<platform, rows, faults>>

\* The row is named by the result of the command, which is canonical.
AsAsked(r) == req[r].subject          \* mutated: by the path of the request
Recorded(r) == Subject(r)

\* record_blocked_* upserts the row, delete_blocked_* removes it if there.
Record(r) ==
  /\ req[r].pc = "record"
  /\ rows' = IF req[r].op = "block" THEN rows \cup {Recorded(r)} ELSE rows \ {Recorded(r)}
  /\ req' = [req EXCEPT ![r] = Idle]
  /\ UNCHANGED <<platform, rules, faults>>

\* Writes are not swallowed: the request fails, and the rule stays.
WriteFails(r) ==
  /\ req[r].pc = "record" /\ Fault
  /\ req' = [req EXCEPT ![r] = Idle]
  /\ UNCHANGED <<platform, rows, rules>>

(***************************************************************************)
(* The environment.                                                        *)
(***************************************************************************)

\* The server ends; a prompt it had opened does not.
Crash ==
  /\ Fault
  /\ req' = [r \in Request |-> IF req[r].pc = "record" THEN Idle
                               ELSE IF req[r].pc = "prompt" THEN [req[r] EXCEPT !.pc = "late"]
                               ELSE req[r]]
  /\ UNCHANGED <<platform, rows, rules>>

\* Only the Windows firewall keeps rules over a reboot, and no start of the
\* server applies the table again.
Reboot ==
  /\ Fault
  /\ rules' = IF platform = "Windows" THEN rules ELSE {}
  /\ req' = [r \in Request |-> Idle]
  /\ UNCHANGED <<platform, rows>>

Handler(r) == AskBlock(r) \/ AskUnblock(r) \/ Consent(r) \/ Decline(r) \/ Record(r)

Failure(r) == TimeOut(r) \/ LateCommand(r) \/ WriteFails(r)

Next == (\E r \in Request : Handler(r) \/ Failure(r)) \/ Crash \/ Reboot

Spec == Init /\ [][Next]_vars

(***************************************************************************)
(* Properties.                                                             *)
(***************************************************************************)

\* The type invariant; the table names everything by its canonical spelling.
TypeOK ==
  /\ platform \in Platform
  /\ rows \in SUBSET Canonical
  /\ rules \in SUBSET Canonical
  /\ req \in [Request -> ReqState]
  /\ \A r \in Request : req[r].pc # "idle" => req[r].subject \in Address /\ req[r].op # "none"
  /\ faults \in 0..MaxFaults

\* While nothing has failed, the table and the operating system agree on
\* every address no request is busy with, however requests for different
\* addresses overlap: the panel lists as blocked what is, and nothing else.
Agreement ==
  faults = MaxFaults =>
    \A a \in Canonical :
      (\A r \in Request : InProgress(r) => Subject(r) # a) => (a \in rows <=> a \in rules)

\* Whatever failed before, a request that reports success leaves its address
\* in the state asked for in both places, and on a Mac the two sets equal,
\* unless an abandoned command ran between its own and its write.
SuccessRepairs ==
  [][\A r \in Request :
       req[r].pc = "record" /\ ~req[r].crossed /\ req'[r].pc = "idle" /\ faults' = faults
         => /\ Subject(r) \in rows' <=> Subject(r) \in rules'
            /\ platform = "Darwin" /\ Patient => rows' = rules']_vars
=============================================================================
