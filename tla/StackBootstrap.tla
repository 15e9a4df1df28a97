--------------------------- MODULE StackBootstrap ---------------------------
(***************************************************************************)
(* The bootstrap of the protection stack (services/stack/bootstrap.py):    *)
(* runs of run_stack_bootstrap over config.env, <data>/stack.env, the      *)
(* generated compose file and the three containers of Docker.              *)
(*                                                                         *)
(* The wizard and the health page may each have a run under way: these     *)
(* share one event loop and interrupt each other only while they await a   *)
(* docker command.  On Windows the watchdog of the tray starts one more,   *)
(* on a thread and a loop of its own, which may come between any two of    *)
(* their reads and writes.  A file is read or written in one step, and so  *)
(* are config.env and stack.env when a run reads both in a row.            *)
(***************************************************************************)
EXTENDS Naturals, FiniteSets

CONSTANTS
  Runner,       \* the requests that may run the bootstrap
  Ports,        \* host ports 1 .. Ports offered for the Wazuh API, 1 the default
  Windows,      \* TRUE iff the panel is started by the Windows tray, with its watchdog
  MaxRuns,      \* bound on the runs started
  MaxTrouble    \* bound on failures, stops and ports taken

ASSUME PortsAssumption == Ports \in Nat \ {0}
ASSUME StackBoundAssumption == MaxRuns \in Nat /\ MaxTrouble \in Nat /\ Windows \in BOOLEAN

VARIABLES
  config,    \* config.env, the settings of the panel
  secrets,   \* stack.env, what compose gives the containers
  compose,   \* host port of the Wazuh API in docker-compose.yml, 0 if none
  filebeat,  \* TRUE iff the volume with filebeat.yml is populated
  box,       \* box[c]: whether the container c is absent, stopped or running
  wazuh,     \* password and host port the Wazuh container was created with
  bouncer,   \* the key of our bouncer that CrowdSec knows, 0 if none
  machine,   \* the password of our machine that CrowdSec knows
  foreign,   \* candidate ports some other program holds
  boot,      \* boot[r]: the run of request r
  starting,  \* containers that docker compose has still to start, with what it read
  watchdog,  \* TRUE iff the run of the tray is still to come
  minted,    \* number of keys and passwords made so far: each is new
  runs,      \* runs started
  trouble,   \* troubles still allowed
  overlapped, \* history: two runs were under way at once
  clashed,    \* history: two runs had read stack.env and not yet written it
  peeked      \* history: a port was chosen while the containers were coming up

histories == <<overlapped, clashed, peeked>>
stackVars == <<config, secrets, compose, filebeat, box, wazuh, bouncer, machine, foreign,
               boot, starting, watchdog, minted, runs, trouble, histories>>

Container == {"crowdsec", "clamav", "wazuh"}      \* EXPECTED_CONTAINERS
WazuhPort == 1 .. Ports                           \* WAZUH_API_PORT_CANDIDATES

\* The value 0 is an empty or missing one: "not configured".
ConfigEnv == [key : Nat, pw : Nat, mpw : Nat, port : 0 .. Ports]
StackEnv == [pw : Nat, mpw : Nat, port : 0 .. Ports]
Step == {"docker", "port", "secrets", "write", "compose", "filebeat", "busy", "up",
         "upping", "list", "delete", "add", "machine", "merge", "fill"}
Mid == {"secrets", "write", "compose", "fill"}    \* not at an await
Ended == {"idle", "ok", "failed"}
Run == [by : {"loop", "tray"}, pc : Step \cup Ended, cfg : ConfigEnv, old : 0 .. Ports,
        port : 0 .. Ports, pw : Nat, mpw : Nat, key : Nat]
Order == [by : SUBSET Runner, c : Container, pw : Nat, port : 0 .. Ports]

NoConfig == [key |-> 0, pw |-> 0, mpw |-> 0, port |-> 0]
NoSecrets == [pw |-> 0, mpw |-> 0, port |-> 0]
NoRun == [by |-> "loop", pc |-> "idle", cfg |-> NoConfig, old |-> 0, port |-> 0, pw |-> 0,
          mpw |-> 0, key |-> 0]

docker == <<box, wazuh, bouncer, machine, filebeat>>
files == <<config, secrets, compose>>
process == <<starting, watchdog>>

\* A machine without the stack, where the user may have chosen the password
\* of the Wazuh API in config.env.
StackInit ==
  /\ \E user \in {0, 1} : config = [NoConfig EXCEPT !.pw = user] /\ minted = user
  /\ secrets = NoSecrets /\ compose = 0 /\ filebeat = FALSE
  /\ box = [c \in Container |-> "absent"] /\ wazuh = [pw |-> 0, port |-> 0]
  /\ bouncer = 0 /\ machine = 0
  /\ foreign \in SUBSET WazuhPort
  /\ boot = [r \in Runner |-> NoRun] /\ starting = {} /\ watchdog = Windows
  /\ runs = 0 /\ trouble = MaxTrouble /\ overlapped = FALSE /\ clashed = FALSE /\ peeked = FALSE

Trouble == trouble > 0 /\ trouble' = trouble - 1

Underway(r) == boot[r].pc \in Step

\* _finish with a status: the run is over, whatever steps remained are skipped.
Finish(r, pc) == boot' = [boot EXCEPT ![r] = [NoRun EXCEPT !.pc = pc]]

(***************************************************************************)
(* _host_ports_busy and _running_stack_containers                          *)
(***************************************************************************)

\* A container that runs holds its ports on 127.0.0.1.
HostPortBusy(p) == p \in foreign \/ (box["wazuh"] = "running" /\ wazuh.port = p)
StackPortBusy == \E c \in Container : box[c] = "running"
AllRunning == \A c \in Container : box[c] = "running"

\* Past the last candidate when none is free.
FirstFreePastEnd ==
  CHOOSE p \in 1 .. Ports + 1 : ~HostPortBusy(p) /\ \A q \in 1 .. p - 1 : HostPortBusy(q)

\* The first free candidate, the default when there is none.
FirstFree ==
  IF \E p \in WazuhPort : ~HostPortBusy(p)
  THEN CHOOSE p \in WazuhPort : ~HostPortBusy(p) /\ \A q \in 1 .. p - 1 : HostPortBusy(q)
  ELSE 1

(***************************************************************************)
(* Start, step docker, _resolve_wazuh_api_port.                            *)
(***************************************************************************)

\* Of the runs on the server's loop one at a time is past an await.
Turn(r, by) == by = "tray" \/ \A q \in Runner \ {r} : boot[q].by = "loop" => boot[q].pc \notin Mid

\* The watchdog runs it once; what it found stopped may run by then, since the
\* user has had a message to close.
RunBootstrap(r, by) ==
  /\ ~Underway(r) /\ Turn(r, by) /\ runs < MaxRuns
  /\ runs' = runs + 1
  /\ by = "tray" => watchdog
  /\ watchdog' = (watchdog /\ by = "loop")
  /\ boot' = [boot EXCEPT ![r] = [NoRun EXCEPT !.by = by, !.pc = "docker"]]
  /\ overlapped' = (overlapped \/ \E q \in Runner : Underway(q))
  /\ UNCHANGED <<files, docker, foreign, starting, minted, trouble, clashed, peeked>>

\* docker ps is asked only for a port of an earlier run that is now taken.
PortKnown == config.port # 0 \/ secrets.port = 0 \/ ~HostPortBusy(secrets.port)
KnownPort ==
  CASE config.port # 0 -> config.port
    [] config.port = 0 /\ secrets.port # 0 -> secrets.port
    [] OTHER -> FirstFree

ToSecrets(r, port) == boot' = [boot EXCEPT ![r].pc = "secrets", ![r].old = 0, ![r].port = port]

\* config.env is read here, and its values are used to the end of the run.
StepDocker(r) ==
  /\ boot[r].pc = "docker"
  /\ boot' = [boot EXCEPT ![r].cfg = config, ![r].pc = IF PortKnown THEN "secrets" ELSE "port",
                          ![r].port = IF PortKnown THEN KnownPort ELSE 0,
                          ![r].old = IF PortKnown THEN 0 ELSE secrets.port]
  /\ UNCHANGED <<files, docker, foreign, process, minted, runs, trouble, histories>>

\* The port is kept if docker ps says that our whole stack runs, and so holds
\* it; of a stack that is still coming up it does not say so.
ResolvePort(r) ==
  /\ boot[r].pc = "port"
  /\ \/ AllRunning /\ ToSecrets(r, boot[r].old) /\ UNCHANGED <<trouble, peeked>>
     \/ /\ ~AllRunning /\ ToSecrets(r, FirstFree)
        /\ peeked' = (peeked \/ box["wazuh"] = "running") /\ UNCHANGED trouble
     \/ Trouble /\ ToSecrets(r, FirstFree) /\ UNCHANGED peeked
  /\ UNCHANGED <<files, docker, foreign, process, minted, runs, overlapped, clashed>>

(***************************************************************************)
(* Steps secrets and compose_files.                                        *)
(***************************************************************************)

\* _write_stack_env: what the user has set comes first, then what stack.env
\* holds, then a new password.
ValueOf(user, existing, new) == IF user # 0 THEN user ELSE IF existing # 0 THEN existing ELSE new

\* Mutated: what stack.env holds is not reused.
ReadNothing(r) ==
  /\ boot[r].pc = "secrets"
  /\ LET cfg == boot[r].cfg IN
     boot' = [boot EXCEPT ![r].pc = "write", ![r].pw = ValueOf(cfg.pw, 0, minted + 1),
                          ![r].mpw = ValueOf(cfg.mpw, 0, minted + 2)]
  /\ minted' = minted + 2
  /\ UNCHANGED <<files, docker, foreign, process, runs, trouble, histories>>

ReadSecrets(r) ==
  /\ boot[r].pc = "secrets"
  /\ LET cfg == boot[r].cfg IN
     boot' = [boot EXCEPT ![r].pc = "write", ![r].pw = ValueOf(cfg.pw, secrets.pw, minted + 1),
                          ![r].mpw = ValueOf(cfg.mpw, secrets.mpw, minted + 2)]
  /\ minted' = minted + 2
  /\ clashed' = (clashed \/ \E q \in Runner \ {r} : boot[q].pc = "write")
  /\ UNCHANGED <<files, docker, foreign, process, runs, trouble, overlapped, peeked>>

WriteSecrets(r) ==
  /\ boot[r].pc = "write"
  /\ secrets' = [pw |-> boot[r].pw, mpw |-> boot[r].mpw, port |-> boot[r].port]
  /\ boot' = [boot EXCEPT ![r].pc = "compose"]
  /\ UNCHANGED <<config, compose, docker, foreign, process, minted, runs, trouble, histories>>

WriteCompose(r) ==
  /\ boot[r].pc = "compose"
  /\ compose' = boot[r].port
  /\ boot' = [boot EXCEPT ![r].pc = "filebeat"]
  /\ UNCHANGED <<config, secrets, docker, foreign, process, minted, runs, trouble, histories>>

(***************************************************************************)
(* Steps network, filebeat_config and compose_up.                          *)
(***************************************************************************)

\* The network is created, which leaves no trace here, and the volume is
\* populated; the ports are probed right after.
PortsBusy(r) == StackPortBusy \/ HostPortBusy(boot[r].port)
StepFilebeat(r) ==
  /\ boot[r].pc = "filebeat"
  /\ filebeat' = TRUE
  /\ boot' = [boot EXCEPT ![r].pc = IF PortsBusy(r) THEN "busy" ELSE "up"]
  /\ UNCHANGED <<files, box, wazuh, bouncer, machine, foreign, process, minted, runs, trouble,
                 histories>>

\* A key in config.env is used again, else CrowdSec is asked for its bouncers.
ToCredentials(r) ==
  boot' = [boot EXCEPT ![r].pc = IF boot[r].cfg.key # 0 THEN "machine" ELSE "list",
                       ![r].key = boot[r].cfg.key]

\* Ports taken by all three containers: already running; else port_busy.
StepAlreadyRunning(r) ==
  /\ boot[r].pc = "busy"
  /\ \/ AllRunning /\ ToCredentials(r)
     \/ ~AllRunning /\ Finish(r, "failed")
  /\ UNCHANGED <<files, docker, foreign, process, minted, runs, trouble, histories>>

\* docker compose up -d reads the files as they are now.
OrdersOf(r) == {o \in starting : o.by = {r}}
ComposeStart(r) ==
  /\ boot[r].pc = "up"
  /\ starting' = starting \cup
       {[by |-> {r}, c |-> c, pw |-> IF c = "wazuh" THEN secrets.pw ELSE 0,
         port |-> IF c = "wazuh" THEN compose ELSE 0] : c \in Container}
  /\ boot' = [boot EXCEPT ![r].pc = "upping"]
  /\ UNCHANGED <<files, docker, foreign, watchdog, minted, runs, trouble, histories>>

\* The containers come up one by one; wazuh is created anew when what it was
\* created with differs.
PortRefused(o) == o.c = "wazuh" /\ o.port \in foreign
ContainerUp(o) ==
  /\ ~PortRefused(o)
  /\ starting' = starting \ {o}
  /\ box' = [box EXCEPT ![o.c] = "running"]
  /\ wazuh' = IF o.c = "wazuh" THEN [pw |-> o.pw, port |-> o.port] ELSE wazuh
  /\ UNCHANGED <<files, filebeat, bouncer, machine, foreign, boot, watchdog, minted, runs,
                 trouble, histories>>

ComposeDone(r) ==
  /\ boot[r].pc = "upping" /\ OrdersOf(r) = {}
  /\ ToCredentials(r)
  /\ UNCHANGED <<files, docker, foreign, process, minted, runs, trouble, histories>>

\* Refused because of the port, or an error or the timeout; what docker has
\* been told to start may come up all the same.
Orphaned(orders) == (starting \ orders) \cup {[o EXCEPT !.by = {}] : o \in orders}
ComposeUpFails(r) ==
  /\ boot[r].pc = "upping"
  /\ IF \E o \in OrdersOf(r) : PortRefused(o) THEN UNCHANGED trouble ELSE Trouble
  /\ starting' = Orphaned(OrdersOf(r))
  /\ Finish(r, "failed")
  /\ UNCHANGED <<files, docker, foreign, watchdog, minted, runs, histories>>

(***************************************************************************)
(* Step crowdsec_credentials, each cscli an await, and step config_env.    *)
(***************************************************************************)

CanExec == box["crowdsec"] = "running"

ListBouncers(r) ==
  /\ boot[r].pc = "list" /\ CanExec
  /\ boot' = [boot EXCEPT ![r].pc = IF bouncer # 0 THEN "delete" ELSE "add"]
  /\ UNCHANGED <<files, docker, foreign, process, minted, runs, trouble, histories>>

DeleteBouncer(r) ==
  /\ boot[r].pc = "delete" /\ CanExec
  /\ bouncer' = 0
  /\ IF bouncer # 0 THEN boot' = [boot EXCEPT ![r].pc = "add"] ELSE Finish(r, "failed")
  /\ UNCHANGED <<files, filebeat, box, wazuh, machine, foreign, process, minted, runs, trouble,
                 histories>>

\* Mutated: the key is made here, and CrowdSec makes one of its own.
OwnKey(r) ==
  /\ boot[r].pc = "add" /\ CanExec /\ bouncer = 0
  /\ bouncer' = minted + 1 /\ minted' = minted + 2
  /\ boot' = [boot EXCEPT ![r].pc = "machine", ![r].key = minted + 2]
  /\ UNCHANGED <<files, filebeat, box, wazuh, machine, foreign, process, runs, trouble, histories>>

\* CrowdSec refuses a name it has and makes a key for a new one.
AddBouncer(r) ==
  /\ boot[r].pc = "add" /\ CanExec
  /\ \/ /\ bouncer = 0
        /\ bouncer' = minted + 1 /\ minted' = minted + 1
        /\ boot' = [boot EXCEPT ![r].pc = "machine", ![r].key = minted + 1]
     \/ /\ bouncer # 0 /\ Finish(r, "failed")
        /\ UNCHANGED <<bouncer, minted>>
  /\ UNCHANGED <<files, filebeat, box, wazuh, machine, foreign, process, runs, trouble, histories>>

AddMachine(r) ==
  /\ boot[r].pc = "machine" /\ CanExec
  /\ machine' = boot[r].mpw
  /\ boot' = [boot EXCEPT ![r].pc = "merge"]
  /\ UNCHANGED <<files, filebeat, box, wazuh, bouncer, foreign, process, minted, runs, trouble,
                 histories>>

Complete(cfg) == \A k \in DOMAIN cfg : cfg[k] # 0

\* Mutated: the port that is filled in is the default one.
MergeDefault(cfg, new) ==
  [k \in DOMAIN cfg |-> IF cfg[k] # 0 THEN cfg[k] ELSE IF k = "port" THEN 1 ELSE new[k]]

\* _merge_env_file: a value that is in config.env stays, and the file is
\* written as a whole if one is missing.
Merge(cfg, new) == [k \in DOMAIN cfg |-> IF cfg[k] # 0 THEN cfg[k] ELSE new[k]]

ReadConfig(r) ==
  /\ boot[r].pc = "merge"
  /\ IF Complete(config) THEN Finish(r, "ok")
     ELSE boot' = [boot EXCEPT ![r].pc = "fill", ![r].cfg = config]
  /\ UNCHANGED <<files, docker, foreign, process, minted, runs, trouble, histories>>

FillConfig(r) ==
  /\ boot[r].pc = "fill"
  /\ config' = Merge(boot[r].cfg, [key |-> boot[r].key, pw |-> boot[r].pw, mpw |-> boot[r].mpw,
                                   port |-> boot[r].port])
  /\ Finish(r, "ok")
  /\ UNCHANGED <<secrets, compose, docker, foreign, process, minted, runs, trouble, histories>>

\* A command fails or times out, a file cannot be written; of a cscli that was
\* cut off CrowdSec may have done its part.
StepFails(r) ==
  /\ Underway(r) /\ boot[r].pc \notin {"port", "secrets", "up", "upping"}
  /\ IF boot[r].pc \in {"list", "delete", "add", "machine"} /\ ~CanExec
     THEN UNCHANGED trouble ELSE Trouble
  /\ \/ UNCHANGED <<bouncer, machine, minted>>
     \/ /\ boot[r].pc = "delete" /\ CanExec /\ bouncer' = 0
        /\ UNCHANGED <<machine, minted>>
     \/ /\ boot[r].pc = "add" /\ CanExec /\ bouncer = 0
        /\ bouncer' = minted + 1 /\ minted' = minted + 1
        /\ UNCHANGED machine
     \/ /\ boot[r].pc = "machine" /\ CanExec /\ machine' = boot[r].mpw
        /\ UNCHANGED <<bouncer, minted>>
  /\ Finish(r, "failed")
  /\ UNCHANGED <<files, filebeat, box, wazuh, foreign, process, runs, histories>>

(***************************************************************************)
(* Around the runs: the process ends, containers stop and start, another   *)
(* program takes a port.                                                   *)
(***************************************************************************)

ServerEnds ==
  /\ Trouble
  /\ boot' = [r \in Runner |-> NoRun] /\ starting' = Orphaned(starting) /\ watchdog' = Windows
  /\ UNCHANGED <<files, docker, foreign, minted, runs, histories>>

ContainerStops(c) ==
  /\ box[c] = "running" /\ Trouble
  /\ box' = [box EXCEPT ![c] = "stopped"]
  /\ UNCHANGED <<files, filebeat, wazuh, bouncer, machine, foreign, boot, process, minted, runs,
                 histories>>

\* docker restart starts a container that exists, as it was created.
ContainerStarts(c) ==
  /\ box[c] = "stopped" /\ (c = "wazuh" => wazuh.port \notin foreign)
  /\ box' = [box EXCEPT ![c] = "running"]
  /\ UNCHANGED <<files, filebeat, wazuh, bouncer, machine, foreign, boot, process, minted, runs,
                 trouble, histories>>

PortTaken(p) ==
  /\ ~HostPortBusy(p) /\ Trouble
  /\ foreign' = foreign \cup {p}
  /\ UNCHANGED <<files, docker, boot, process, minted, runs, histories>>

BootstrapStep(r) ==
  /\ Turn(r, boot[r].by)
  /\ \/ StepDocker(r) \/ ResolvePort(r) \/ ReadSecrets(r) \/ WriteSecrets(r) \/ WriteCompose(r)
     \/ StepFilebeat(r) \/ StepAlreadyRunning(r)
     \/ ComposeStart(r) \/ ComposeDone(r) \/ ComposeUpFails(r)
     \/ ListBouncers(r) \/ DeleteBouncer(r) \/ AddBouncer(r) \/ AddMachine(r)
     \/ ReadConfig(r) \/ FillConfig(r) \/ StepFails(r)

StackStep ==
  \/ \E r \in Runner : RunBootstrap(r, "loop") \/ BootstrapStep(r)
  \/ \E o \in starting : ContainerUp(o)
  \/ \E c \in Container : ContainerStops(c) \/ ContainerStarts(c)
  \/ \E p \in WazuhPort : PortTaken(p)

StackNext == StackStep \/ ServerEnds \/ \E r \in Runner : RunBootstrap(r, "tray")

StackSpec == StackInit /\ [][StackNext]_stackVars

StackTypeOK ==
  /\ config \in ConfigEnv /\ secrets \in StackEnv /\ compose \in 0 .. Ports
  /\ filebeat \in BOOLEAN
  /\ box \in [Container -> {"absent", "stopped", "running"}]
  /\ wazuh \in [pw : Nat, port : 0 .. Ports] /\ bouncer \in Nat /\ machine \in Nat
  /\ foreign \subseteq WazuhPort
  /\ boot \in [Runner -> Run] /\ starting \subseteq Order /\ watchdog \in BOOLEAN
  /\ minted \in Nat /\ runs \in 0 .. MaxRuns /\ trouble \in 0 .. MaxTrouble
  /\ overlapped \in BOOLEAN /\ clashed \in BOOLEAN /\ peeked \in BOOLEAN

\* The passwords stack.env has given out are the ones config.env, the Wazuh
\* container and CrowdSec hold, whatever runs overlap, fail or are cut off, as
\* long as no two were between the reading and the writing of stack.env at once,
\* which only the thread of the Windows tray can bring about (_write_stack_env,
\* _merge_env_file).
PasswordsAgree ==
  ~clashed =>
    /\ wazuh.pw # 0 => wazuh.pw = secrets.pw
    /\ machine # 0 => machine = secrets.mpw
    /\ config.pw # 0 /\ secrets.pw # 0 => config.pw = secrets.pw
    /\ config.mpw # 0 => config.mpw = secrets.mpw

\* As long as no two runs were under way at once, the key in config.env is
\* one CrowdSec knows, although a run may be cut off between the deletion of
\* the bouncer, its new key and the merge (_step_crowdsec_credentials).
KeyWorks == ~overlapped /\ config.key # 0 => config.key = bouncer

\* "WAZUH_API_URL - the actual host port of this instance" (_step_config_env):
\* after a run that ended ok, the port in config.env is the one the Wazuh
\* container listens on.
UrlIsActual ==
  ~overlapped /\ (\E r \in Runner : boot[r].pc = "ok") => config.port = wazuh.port

\* As long as nothing fails, stops or takes a port, it is so even of runs that
\* overlap and were cut short by a port: when one has ended ok, Wazuh runs and
\* listens on the port in config.env, unless a run chose its port while Wazuh
\* ran and the rest of the stack was still coming up (_resolve_wazuh_api_port,
\* _step_compose_up, _merge_env_file).
UrlWorks ==
  trouble = MaxTrouble /\ ~peeked /\ (config.port # 0 \/ \E r \in Runner : boot[r].pc = "ok")
    => box["wazuh"] = "running" /\ config.port = wazuh.port

\* Each of the two passwords is given once and for all (see GivenPassword): no
\* run replaces one that stack.env or config.env has, whatever it read of them
\* before it waited, and what Wazuh and CrowdSec are set up with follows, up to
\* the moment when two runs cross.
WazuhPassword == INSTANCE GivenPassword WITH
  given <- secrets.pw, kept <- config.pw, used <- wazuh.pw, excused <- clashed

MachinePassword == INSTANCE GivenPassword WITH
  given <- secrets.mpw, kept <- config.mpw, used <- machine, excused <- clashed

GivenOnce == WazuhPassword!Spec /\ MachinePassword!Spec
=============================================================================
