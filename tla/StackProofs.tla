---------------------------- MODULE StackProofs ----------------------------
(***************************************************************************)
(* Theorems about the bootstrap of the stack (StackBootstrap) and about    *)
(* the health matrix beside it (HealthMatrix).                             *)
(*                                                                         *)
(* The passwords agree because a password that is in stack.env is never    *)
(* replaced: a run that has read the file writes what it has read, and     *)
(* holds it from then on, as long as no other run is between its reading   *)
(* and its writing at the same time (HeldByRun).  For the same reason each *)
(* is given once: every step is one of GivenPassword, for both of them.    *)
(*                                                                         *)
(* The port of the Wazuh API is right as long as there is no trouble       *)
(* because all runs, overlapping or not, then choose the same one (Peace). *)
(*                                                                         *)
(* A step of the health matrix is one of the bootstrap or leaves alone     *)
(* what these invariants look at (HealthMovesStack), so they hold beside   *)
(* it.                                                                     *)
(***************************************************************************)
EXTENDS HealthMatrix, WellFoundedInduction, TLAPS

LEMMA PortsRange == 0 \in 0 .. Ports /\ 1 \in WazuhPort /\ WazuhPort \subseteq 0 .. Ports /\ Ports \in Nat
  BY PortsAssumption DEF WazuhPort

IsRun(run, by, pc, cfg, old, port, pw, mpw, key) ==
  /\ run \in Run
  /\ run.by = by /\ run.pc = pc /\ run.cfg = cfg /\ run.old = old /\ run.port = port
  /\ run.pw = pw /\ run.mpw = mpw /\ run.key = key

\* The run of r is another after the step, the others are the same.
Becomes(r, by, pc, cfg, old, port, pw, mpw, key) ==
  /\ boot' \in [Runner -> Run]
  /\ IsRun(boot'[r], by, pc, cfg, old, port, pw, mpw, key)
  /\ \A q \in Runner \ {r} : boot'[q] = boot[q]

\* It goes on to another step with all that it holds.
GoesTo(r, pc) ==
  Becomes(r, boot[r].by, pc, boot[r].cfg, boot[r].old, boot[r].port, boot[r].pw, boot[r].mpw,
          boot[r].key)

\* It is over.
Ends(r, pc) == Becomes(r, "loop", pc, NoConfig, 0, 0, 0, 0, 0)

LEMMA Places ==
  /\ {"docker", "port", "secrets", "write", "compose", "filebeat", "busy", "up", "upping", "list",
      "delete", "add", "machine", "merge", "fill", "idle", "ok", "failed"} \subseteq Step \cup Ended
  /\ {"crowdsec", "clamav", "wazuh"} \subseteq Container
  BY DEF Step, Ended, Container

LEMMA NoRunType ==
  /\ NoConfig \in ConfigEnv /\ NoRun \in Run /\ NoRun.pc = "idle"
  /\ NoConfig.key = 0 /\ NoConfig.pw = 0 /\ NoConfig.mpw = 0 /\ NoConfig.port = 0
<1>1. NoConfig \in ConfigEnv
  BY PortsRange DEF NoConfig, ConfigEnv
<1>2. NoRun \in Run
  BY <1>1, PortsRange, Places DEF NoRun, Run
<1> QED
  BY <1>1, <1>2 DEF NoRun, NoConfig

LEMMA RunType ==
  ASSUME StackTypeOK, NEW r \in Runner
  PROVE  /\ boot \in [Runner -> Run] /\ boot[r] \in Run
         /\ boot[r].by \in {"loop", "tray"} /\ boot[r].pc \in Step \cup Ended
         /\ boot[r].cfg \in ConfigEnv /\ boot[r].old \in 0 .. Ports /\ boot[r].port \in 0 .. Ports
         /\ boot[r].pw \in Nat /\ boot[r].mpw \in Nat /\ boot[r].key \in Nat
         /\ boot[r].cfg.key \in Nat /\ boot[r].cfg.pw \in Nat /\ boot[r].cfg.mpw \in Nat
         /\ boot[r].cfg.port \in 0 .. Ports
<1>1. boot \in [Runner -> Run] /\ boot[r] \in Run
  BY DEF StackTypeOK
<1>2. /\ boot[r].by \in {"loop", "tray"} /\ boot[r].pc \in Step \cup Ended
      /\ boot[r].cfg \in ConfigEnv /\ boot[r].old \in 0 .. Ports /\ boot[r].port \in 0 .. Ports
      /\ boot[r].pw \in Nat /\ boot[r].mpw \in Nat /\ boot[r].key \in Nat
  BY <1>1 DEF Run
<1> QED
  BY <1>1, <1>2 DEF ConfigEnv

LEMMA Become ==
  ASSUME StackTypeOK, NEW r \in Runner, NEW by, NEW pc, NEW cfg, NEW old, NEW port, NEW pw, NEW mpw,
         NEW key, NEW new, boot' = [boot EXCEPT ![r] = new],
         IsRun(new, by, pc, cfg, old, port, pw, mpw, key)
  PROVE  Becomes(r, by, pc, cfg, old, port, pw, mpw, key)
<1>1. boot \in [Runner -> Run] /\ new \in Run
  BY DEF StackTypeOK, IsRun
<1>2. boot' \in [Runner -> Run] /\ boot'[r] = new /\ \A q \in Runner \ {r} : boot'[q] = boot[q]
  BY <1>1
<1> QED
  BY <1>2 DEF Becomes

LEMMA Going ==
  ASSUME StackTypeOK, NEW r \in Runner, NEW pc \in Step \cup Ended,
         boot' = [boot EXCEPT ![r].pc = pc]
  PROVE  GoesTo(r, pc)
<1> DEFINE new == [boot[r] EXCEPT !.pc = pc]
<1>1. IsRun(new, boot[r].by, pc, boot[r].cfg, boot[r].old, boot[r].port, boot[r].pw, boot[r].mpw, boot[r].key)
  BY RunType, Places DEF IsRun, Run
<1>2. boot' = [boot EXCEPT ![r] = new]
  OBVIOUS
<1> HIDE DEF new
<1> QED
  BY <1>1, <1>2, RunType, Become DEF GoesTo

LEMMA EndStep ==
  ASSUME StackTypeOK, NEW r \in Runner, NEW pc \in Step \cup Ended, Finish(r, pc)
  PROVE  Ends(r, pc)
<1> DEFINE new == [NoRun EXCEPT !.pc = pc]
<1>1. IsRun(new, "loop", pc, NoConfig, 0, 0, 0, 0, 0)
  BY NoRunType, PortsRange, Places DEF NoRun, IsRun, Run
<1>2. boot' = [boot EXCEPT ![r] = new]
  BY DEF Finish
<1> HIDE DEF new
<1> QED
  BY <1>1, <1>2, NoRunType, PortsRange, Become DEF Ends

(***************************************************************************)
(* Types.                                                                  *)
(***************************************************************************)

LEMMA StackTypeInit == StackInit => StackTypeOK
<1> SUFFICES ASSUME StackInit PROVE StackTypeOK
  OBVIOUS
<1>1. config \in ConfigEnv /\ minted \in Nat
  BY NoRunType DEF StackInit, NoConfig, ConfigEnv
<1>2. secrets \in StackEnv /\ compose \in 0 .. Ports /\ wazuh \in [pw : Nat, port : 0 .. Ports]
  BY PortsRange DEF StackInit, NoSecrets, StackEnv
<1>3. boot \in [Runner -> Run]
  BY NoRunType DEF StackInit
<1>4. runs \in 0 .. MaxRuns /\ trouble \in 0 .. MaxTrouble /\ watchdog \in BOOLEAN
  BY StackBoundAssumption DEF StackInit
<1>5. box \in [Container -> {"absent", "stopped", "running"}]
  BY DEF StackInit
<1> QED
  BY <1>1, <1>2, <1>3, <1>4, <1>5 DEF StackInit, StackTypeOK

LEMMA TroubleType == StackTypeOK /\ Trouble => trouble' \in 0 .. MaxTrouble
  BY StackBoundAssumption DEF StackTypeOK, Trouble

\* There is a first free port when there is a free one.
LEMMA FirstFreeIs ==
  /\ FirstFree \in WazuhPort
  /\ \/ ~HostPortBusy(FirstFree) /\ \A q \in 1 .. FirstFree - 1 : HostPortBusy(q)
     \/ FirstFree = 1 /\ \A q \in WazuhPort : HostPortBusy(q)
<1>1. CASE \E p \in WazuhPort : ~HostPortBusy(p)
  <2> DEFINE free == {p \in WazuhPort : ~HostPortBusy(p)}
  <2>1. free \in SUBSET Nat /\ free # {}
    BY <1>1, PortsAssumption DEF WazuhPort
  <2> DEFINE less == {ss \in Nat \X Nat : ss[1] < ss[2]}
  <2>2. IsWellFoundedOn(less, Nat)
    BY NatLessThanWellFounded DEF OpToRel
  <2>3. PICK p \in free : \A q \in free : <<q, p>> \notin less
    <3> HIDE DEF free, less
    <3> QED
      BY <2>1, <2>2, WFMin
  <2>4. ASSUME NEW q \in free PROVE p <= q
    <3>1. p \in Nat /\ q \in Nat
      BY <2>1
    <3>2. <<q, p>> \notin {ss \in Nat \X Nat : ss[1] < ss[2]}
      BY <2>3
    <3>3. ~(q < p)
      BY <3>1, <3>2
    <3> QED
      BY <3>1, <3>3
  <2>5. p \in WazuhPort /\ ~HostPortBusy(p) /\ \A q \in 1 .. p - 1 : HostPortBusy(q)
    BY <2>4, PortsAssumption DEF WazuhPort
  <2> HIDE DEF free
  <2> QED
    BY <1>1, <2>5 DEF FirstFree
<1>2. CASE ~\E p \in WazuhPort : ~HostPortBusy(p)
  BY <1>2, PortsRange DEF FirstFree
<1> QED
  BY <1>1, <1>2

LEMMA KnownPortType ==
  ASSUME StackTypeOK
  PROVE  KnownPort \in 0 .. Ports /\ FirstFree \in 0 .. Ports
<1>1. FirstFree \in 0 .. Ports
  BY FirstFreeIs, PortsRange
<1>2. config.port \in 0 .. Ports /\ secrets.port \in 0 .. Ports
  BY DEF StackTypeOK, ConfigEnv, StackEnv
<1> QED
  BY <1>1, <1>2 DEF KnownPort

\* What the steps that learn something make of the run.
LEMMA BeginStep ==
  ASSUME StackTypeOK, NEW r \in Runner, NEW by \in {"loop", "tray"}, RunBootstrap(r, by)
  PROVE  Becomes(r, by, "docker", NoConfig, 0, 0, 0, 0, 0)
<1> DEFINE new == [NoRun EXCEPT !.by = by, !.pc = "docker"]
<1>1. IsRun(new, by, "docker", NoConfig, 0, 0, 0, 0, 0)
  BY NoRunType, PortsRange, Places DEF NoRun, IsRun, Run
<1>2. boot' = [boot EXCEPT ![r] = new]
  BY DEF RunBootstrap
<1> HIDE DEF new
<1> QED
  BY <1>1, <1>2, NoRunType, PortsRange, Places, Become

LEMMA DockerStep ==
  ASSUME StackTypeOK, NEW r \in Runner, StepDocker(r)
  PROVE  \/ /\ PortKnown
            /\ Becomes(r, boot[r].by, "secrets", config, 0, KnownPort, boot[r].pw, boot[r].mpw,
                       boot[r].key)
         \/ /\ ~PortKnown
            /\ Becomes(r, boot[r].by, "port", config, secrets.port, 0, boot[r].pw, boot[r].mpw,
                       boot[r].key)
<1>0. config \in ConfigEnv /\ secrets.port \in 0 .. Ports
  BY DEF StackTypeOK, StackEnv
<1>1. CASE PortKnown
  <2> DEFINE new == [boot[r] EXCEPT !.cfg = config, !.pc = "secrets", !.port = KnownPort, !.old = 0]
  <2>1. IsRun(new, boot[r].by, "secrets", config, 0, KnownPort, boot[r].pw, boot[r].mpw, boot[r].key)
    BY <1>0, RunType, KnownPortType, PortsRange, Places DEF IsRun, Run
  <2>2. boot' = [boot EXCEPT ![r] = new]
    BY <1>1 DEF StepDocker
  <2> HIDE DEF new
  <2> QED
    BY <1>0, <1>1, <2>1, <2>2, RunType, KnownPortType, PortsRange, Places, Become
<1>2. CASE ~PortKnown
  <2> DEFINE new == [boot[r] EXCEPT !.cfg = config, !.pc = "port", !.port = 0, !.old = secrets.port]
  <2>1. IsRun(new, boot[r].by, "port", config, secrets.port, 0, boot[r].pw, boot[r].mpw, boot[r].key)
    BY <1>0, RunType, KnownPortType, PortsRange, Places DEF IsRun, Run
  <2>2. boot' = [boot EXCEPT ![r] = new]
    BY <1>2 DEF StepDocker
  <2> HIDE DEF new
  <2> QED
    BY <1>0, <1>2, <2>1, <2>2, RunType, PortsRange, Places, Become
<1> QED
  BY <1>1, <1>2

LEMMA PortStep ==
  ASSUME StackTypeOK, NEW r \in Runner, NEW port \in 0 .. Ports, ToSecrets(r, port)
  PROVE  Becomes(r, boot[r].by, "secrets", boot[r].cfg, 0, port, boot[r].pw, boot[r].mpw, boot[r].key)
<1> DEFINE new == [boot[r] EXCEPT !.pc = "secrets", !.old = 0, !.port = port]
<1>1. IsRun(new, boot[r].by, "secrets", boot[r].cfg, 0, port, boot[r].pw, boot[r].mpw, boot[r].key)
  BY RunType, PortsRange, Places DEF IsRun, Run
<1>2. boot' = [boot EXCEPT ![r] = new]
  BY DEF ToSecrets
<1> HIDE DEF new
<1> QED
  BY <1>1, <1>2, RunType, PortsRange, Places, Become

LEMMA ReadStep ==
  ASSUME StackTypeOK, NEW r \in Runner, ReadSecrets(r)
  PROVE  LET pw == ValueOf(boot[r].cfg.pw, secrets.pw, minted + 1)
             mpw == ValueOf(boot[r].cfg.mpw, secrets.mpw, minted + 2)
         IN /\ pw \in Nat \ {0} /\ mpw \in Nat \ {0}
            /\ Becomes(r, boot[r].by, "write", boot[r].cfg, boot[r].old, boot[r].port, pw, mpw,
                       boot[r].key)
<1> DEFINE pw == ValueOf(boot[r].cfg.pw, secrets.pw, minted + 1)
           mpw == ValueOf(boot[r].cfg.mpw, secrets.mpw, minted + 2)
           new == [boot[r] EXCEPT !.pc = "write", !.pw = pw, !.mpw = mpw]
<1>0. boot[r].cfg.pw \in Nat /\ boot[r].cfg.mpw \in Nat
  BY RunType
<1>1. /\ secrets.pw \in Nat /\ secrets.mpw \in Nat
      /\ minted + 1 \in Nat \ {0} /\ minted + 2 \in Nat \ {0}
  BY DEF StackTypeOK, StackEnv
<1>2. pw \in Nat \ {0} /\ mpw \in Nat \ {0}
  BY <1>0, <1>1 DEF ValueOf
<1>3. boot' = [boot EXCEPT ![r] = new]
  BY DEF ReadSecrets
<1>4. pw \in Nat /\ mpw \in Nat
  BY <1>2
<1> HIDE DEF pw, mpw
<1>5. IsRun(new, boot[r].by, "write", boot[r].cfg, boot[r].old, boot[r].port, pw, mpw, boot[r].key)
  BY <1>4, RunType, Places DEF IsRun, Run
<1> HIDE DEF new
<1>6. Becomes(r, boot[r].by, "write", boot[r].cfg, boot[r].old, boot[r].port, pw, mpw, boot[r].key)
  BY <1>3, <1>4, <1>5, RunType, Places, Become
<1> QED
  BY <1>2, <1>6 DEF pw, mpw

\* The key of a run comes from config.env or is new.
LEMMA KeyTaken ==
  ASSUME StackTypeOK, NEW r \in Runner, NEW pc \in Step, NEW key \in Nat,
         boot' = [boot EXCEPT ![r].pc = pc, ![r].key = key]
  PROVE  Becomes(r, boot[r].by, pc, boot[r].cfg, boot[r].old, boot[r].port, boot[r].pw,
                 boot[r].mpw, key)
<1> DEFINE new == [boot[r] EXCEPT !.pc = pc, !.key = key]
<1>1. IsRun(new, boot[r].by, pc, boot[r].cfg, boot[r].old, boot[r].port, boot[r].pw, boot[r].mpw, key)
  BY RunType, Places DEF IsRun, Run
<1>2. boot' = [boot EXCEPT ![r] = new]
  OBVIOUS
<1> HIDE DEF new
<1> QED
  BY <1>1, <1>2, RunType, Places, Become

LEMMA CredentialsStep ==
  ASSUME StackTypeOK, NEW r \in Runner, ToCredentials(r)
  PROVE  \E pc \in {"machine", "list"} :
           /\ pc = "list" <=> boot[r].cfg.key = 0
           /\ Becomes(r, boot[r].by, pc, boot[r].cfg, boot[r].old, boot[r].port, boot[r].pw,
                      boot[r].mpw, boot[r].cfg.key)
<1> DEFINE pc == IF boot[r].cfg.key # 0 THEN "machine" ELSE "list"
<1>1. pc \in {"machine", "list"} /\ pc \in Step /\ (pc = "list" <=> boot[r].cfg.key = 0)
  BY DEF Step
<1>2. boot' = [boot EXCEPT ![r].pc = pc, ![r].key = boot[r].cfg.key]
  BY DEF ToCredentials
<1> HIDE DEF pc
<1> QED
  BY <1>1, <1>2, RunType, KeyTaken

LEMMA SeenStep ==
  ASSUME StackTypeOK, NEW r \in Runner, boot' = [boot EXCEPT ![r].pc = "fill", ![r].cfg = config]
  PROVE  Becomes(r, boot[r].by, "fill", config, boot[r].old, boot[r].port, boot[r].pw,
                 boot[r].mpw, boot[r].key)
<1> DEFINE new == [boot[r] EXCEPT !.pc = "fill", !.cfg = config]
<1>0. config \in ConfigEnv
  BY DEF StackTypeOK
<1>1. IsRun(new, boot[r].by, "fill", config, boot[r].old, boot[r].port, boot[r].pw, boot[r].mpw, boot[r].key)
  BY <1>0, RunType, Places DEF IsRun, Run
<1>2. boot' = [boot EXCEPT ![r] = new]
  OBVIOUS
<1> HIDE DEF new
<1> QED
  BY <1>1, <1>2, RunType, Places, Become

LEMMA MergeType ==
  ASSUME NEW cfg \in ConfigEnv, NEW new \in ConfigEnv
  PROVE  /\ Merge(cfg, new) \in ConfigEnv
         /\ Merge(cfg, new).key = (IF cfg.key # 0 THEN cfg.key ELSE new.key)
         /\ Merge(cfg, new).pw = (IF cfg.pw # 0 THEN cfg.pw ELSE new.pw)
         /\ Merge(cfg, new).mpw = (IF cfg.mpw # 0 THEN cfg.mpw ELSE new.mpw)
         /\ Merge(cfg, new).port = (IF cfg.port # 0 THEN cfg.port ELSE new.port)
<1>1. DOMAIN cfg = {"key", "pw", "mpw", "port"}
  BY DEF ConfigEnv
<1>2. /\ cfg.key \in Nat /\ cfg.pw \in Nat /\ cfg.mpw \in Nat /\ cfg.port \in 0 .. Ports
      /\ new.key \in Nat /\ new.pw \in Nat /\ new.mpw \in Nat /\ new.port \in 0 .. Ports
  BY DEF ConfigEnv
<1>3. Merge(cfg, new) = [key |-> IF cfg.key # 0 THEN cfg.key ELSE new.key,
                         pw |-> IF cfg.pw # 0 THEN cfg.pw ELSE new.pw,
                         mpw |-> IF cfg.mpw # 0 THEN cfg.mpw ELSE new.mpw,
                         port |-> IF cfg.port # 0 THEN cfg.port ELSE new.port]
  BY <1>1 DEF Merge
<1>4. Merge(cfg, new) \in ConfigEnv
  BY <1>2, <1>3 DEF ConfigEnv
<1> QED
  BY <1>3, <1>4

\* What a run at its end makes of config.env.
LEMMA FillStep ==
  ASSUME StackTypeOK, NEW r \in Runner, FillConfig(r)
  PROVE  LET seen == boot[r].cfg IN
         /\ config' \in ConfigEnv
         /\ config'.key = (IF seen.key # 0 THEN seen.key ELSE boot[r].key)
         /\ config'.pw = (IF seen.pw # 0 THEN seen.pw ELSE boot[r].pw)
         /\ config'.mpw = (IF seen.mpw # 0 THEN seen.mpw ELSE boot[r].mpw)
         /\ config'.port = (IF seen.port # 0 THEN seen.port ELSE boot[r].port)
         /\ Ends(r, "ok")
<1> DEFINE new == [key |-> boot[r].key, pw |-> boot[r].pw, mpw |-> boot[r].mpw, port |-> boot[r].port]
<1>1. new \in ConfigEnv /\ boot[r].cfg \in ConfigEnv
  BY RunType DEF ConfigEnv
<1>2. config' = Merge(boot[r].cfg, new)
  BY DEF FillConfig
<1>3. new.key = boot[r].key /\ new.pw = boot[r].pw /\ new.mpw = boot[r].mpw /\ new.port = boot[r].port
  OBVIOUS
<1>4. Ends(r, "ok")
  BY EndStep, Places DEF FillConfig
<1> HIDE DEF new
<1> QED
  BY <1>1, <1>2, <1>3, <1>4, MergeType

\* Orders of docker compose: new ones, and those whose run is gone.
LEMMA OrdersType ==
  ASSUME StackTypeOK, NEW r \in Runner
  PROVE  /\ ComposeStart(r) => starting' \subseteq Order
         /\ Orphaned(OrdersOf(r)) \subseteq Order
<1>0. starting \subseteq Order /\ secrets.pw \in Nat /\ compose \in 0 .. Ports
  BY DEF StackTypeOK, StackEnv
<1>1. ASSUME ComposeStart(r) PROVE starting' \subseteq Order
  <2>1. ASSUME NEW c \in Container
        PROVE  [by |-> {r}, c |-> c, pw |-> IF c = "wazuh" THEN secrets.pw ELSE 0,
                port |-> IF c = "wazuh" THEN compose ELSE 0] \in Order
    BY <1>0, <2>1, PortsRange DEF Order
  <2> QED
    BY <1>0, <1>1, <2>1 DEF ComposeStart
<1>2. ASSUME NEW o \in starting PROVE [o EXCEPT !.by = {}] \in Order
  BY <1>0, <1>2 DEF Order
<1> QED
  BY <1>0, <1>1, <1>2 DEF Orphaned, OrdersOf

LEMMA BootstrapTypeStep ==
  ASSUME StackTypeOK, NEW r \in Runner, BootstrapStep(r)
  PROVE  StackTypeOK'
<1>0. minted \in Nat /\ minted + 1 \in Nat /\ minted + 2 \in Nat
  BY DEF StackTypeOK
<1>1. CASE StepDocker(r)
  BY <1>1, DockerStep DEF StepDocker, Becomes, StackTypeOK, files, docker, process, histories
<1>2. CASE ResolvePort(r)
  <2>1. boot' \in [Runner -> Run]
    BY <1>2, PortStep, RunType, KnownPortType DEF ResolvePort, Becomes
  <2>2. trouble' \in 0 .. MaxTrouble /\ peeked' \in BOOLEAN
    BY <1>2, TroubleType DEF ResolvePort, StackTypeOK
  <2> QED
    BY <1>2, <2>1, <2>2 DEF ResolvePort, StackTypeOK, files, docker, process
<1>3. CASE ReadSecrets(r)
  <2>1. boot' \in [Runner -> Run]
    BY <1>3, ReadStep DEF Becomes
  <2>2. minted' \in Nat /\ clashed' \in BOOLEAN
    BY <1>0, <1>3 DEF ReadSecrets, StackTypeOK
  <2> QED
    BY <1>3, <2>1, <2>2 DEF ReadSecrets, StackTypeOK, files, docker, process
<1>4. CASE WriteSecrets(r)
  <2>1. boot' \in [Runner -> Run]
    BY <1>4, Going, Places DEF WriteSecrets, GoesTo, Becomes
  <2>2. secrets' \in StackEnv
    BY <1>4, RunType DEF WriteSecrets, StackEnv
  <2> QED
    BY <1>4, <2>1, <2>2 DEF WriteSecrets, StackTypeOK, docker, process, histories
<1>5. CASE WriteCompose(r)
  <2>1. boot' \in [Runner -> Run]
    BY <1>5, Going, Places DEF WriteCompose, GoesTo, Becomes
  <2>2. compose' \in 0 .. Ports
    BY <1>5, RunType DEF WriteCompose
  <2> QED
    BY <1>5, <2>1, <2>2 DEF WriteCompose, StackTypeOK, docker, process, histories
<1>6. CASE StepFilebeat(r)
  <2>1. boot' \in [Runner -> Run]
    BY <1>6, Going, Places DEF StepFilebeat, GoesTo, Becomes
  <2> QED
    BY <1>6, <2>1 DEF StepFilebeat, StackTypeOK, files, process, histories
<1>7. CASE StepAlreadyRunning(r)
  <2>1. boot' \in [Runner -> Run]
    BY <1>7, CredentialsStep, EndStep, Places DEF StepAlreadyRunning, Becomes, Ends
  <2> QED
    BY <1>7, <2>1 DEF StepAlreadyRunning, StackTypeOK, files, docker, process, histories
<1>8. CASE ComposeStart(r)
  <2>1. boot' \in [Runner -> Run] /\ starting' \subseteq Order
    BY <1>8, Going, Places, OrdersType DEF ComposeStart, GoesTo, Becomes
  <2> QED
    BY <1>8, <2>1 DEF ComposeStart, StackTypeOK, files, docker, histories
<1>9. CASE ComposeDone(r)
  <2>1. boot' \in [Runner -> Run]
    BY <1>9, CredentialsStep DEF ComposeDone, Becomes
  <2> QED
    BY <1>9, <2>1 DEF ComposeDone, StackTypeOK, files, docker, process, histories
<1>10. CASE ComposeUpFails(r)
  <2>1. boot' \in [Runner -> Run] /\ starting' \subseteq Order
    BY <1>10, EndStep, Places, OrdersType DEF ComposeUpFails, Ends, Becomes
  <2>2. trouble' \in 0 .. MaxTrouble
    BY <1>10, TroubleType DEF ComposeUpFails, StackTypeOK
  <2> QED
    BY <1>10, <2>1, <2>2 DEF ComposeUpFails, StackTypeOK, files, docker, histories
<1>11. CASE ListBouncers(r)
  <2>1. boot' \in [Runner -> Run]
    BY <1>11, Going, Places DEF ListBouncers, GoesTo, Becomes
  <2> QED
    BY <1>11, <2>1 DEF ListBouncers, StackTypeOK, files, docker, process, histories
<1>12. CASE DeleteBouncer(r)
  <2>1. boot' \in [Runner -> Run]
    BY <1>12, Going, EndStep, Places DEF DeleteBouncer, GoesTo, Ends, Becomes
  <2> QED
    BY <1>12, <2>1 DEF DeleteBouncer, StackTypeOK, files, process, histories
<1>13. CASE AddBouncer(r)
  <2>1. boot' \in [Runner -> Run]
    BY <1>0, <1>13, KeyTaken, EndStep, Places DEF AddBouncer, Ends, Becomes, Step
  <2>2. bouncer' \in Nat /\ minted' \in Nat
    BY <1>0, <1>13 DEF AddBouncer, StackTypeOK
  <2> QED
    BY <1>13, <2>1, <2>2 DEF AddBouncer, StackTypeOK, files, process, histories
<1>14. CASE AddMachine(r)
  <2>1. boot' \in [Runner -> Run] /\ machine' \in Nat
    BY <1>14, Going, Places, RunType DEF AddMachine, GoesTo, Becomes
  <2> QED
    BY <1>14, <2>1 DEF AddMachine, StackTypeOK, files, process, histories
<1>15. CASE ReadConfig(r)
  <2>1. boot' \in [Runner -> Run]
    BY <1>15, SeenStep, EndStep, Places DEF ReadConfig, Ends, Becomes
  <2> QED
    BY <1>15, <2>1 DEF ReadConfig, StackTypeOK, files, docker, process, histories
<1>16. CASE FillConfig(r)
  <2>1. boot' \in [Runner -> Run] /\ config' \in ConfigEnv
    BY <1>16, FillStep DEF Ends, Becomes
  <2> QED
    BY <1>16, <2>1 DEF FillConfig, StackTypeOK, docker, process, histories
<1>17. CASE StepFails(r)
  <2>1. boot' \in [Runner -> Run]
    BY <1>17, EndStep, Places DEF StepFails, Ends, Becomes
  <2>2. bouncer' \in Nat /\ machine' \in Nat /\ minted' \in Nat
    BY <1>0, <1>17, RunType DEF StepFails, StackTypeOK
  <2>3. trouble' \in 0 .. MaxTrouble
    BY <1>17, TroubleType DEF StepFails, StackTypeOK
  <2> QED
    BY <1>17, <2>1, <2>2, <2>3 DEF StepFails, StackTypeOK, files, process, histories
<1> QED
  BY <1>1, <1>2, <1>3, <1>4, <1>5, <1>6, <1>7, <1>8, <1>9, <1>10, <1>11, <1>12, <1>13, <1>14,
     <1>15, <1>16, <1>17 DEF BootstrapStep

LEMMA StackTypeStep == StackTypeOK /\ [StackNext]_stackVars => StackTypeOK'
<1> SUFFICES ASSUME StackTypeOK, [StackNext]_stackVars PROVE StackTypeOK'
  OBVIOUS
<1>1. ASSUME NEW r \in Runner, BootstrapStep(r) PROVE StackTypeOK'
  BY <1>1, BootstrapTypeStep
<1>2. ASSUME NEW r \in Runner, NEW by \in {"loop", "tray"}, RunBootstrap(r, by) PROVE StackTypeOK'
  <2>1. boot' \in [Runner -> Run]
    BY <1>2, BeginStep DEF Becomes
  <2>2. runs' \in 0 .. MaxRuns /\ overlapped' \in BOOLEAN /\ watchdog' \in BOOLEAN
    BY <1>2, StackBoundAssumption DEF RunBootstrap, StackTypeOK
  <2> QED
    BY <1>2, <2>1, <2>2 DEF RunBootstrap, StackTypeOK, files, docker
<1>3. ASSUME NEW c \in Container, ContainerStops(c) PROVE StackTypeOK'
  BY <1>3, TroubleType DEF ContainerStops, StackTypeOK, files, process, histories
<1>4. ASSUME NEW c \in Container, ContainerStarts(c) PROVE StackTypeOK'
  BY <1>4 DEF ContainerStarts, StackTypeOK, files, process, histories
<1>5. ASSUME NEW o \in starting, ContainerUp(o) PROVE StackTypeOK'
  <2>1. o.c \in Container /\ o.pw \in Nat /\ o.port \in 0 .. Ports
    BY <1>5 DEF StackTypeOK, Order
  <2>2. /\ wazuh' \in [pw : Nat, port : 0 .. Ports] /\ starting' \subseteq Order
        /\ box' \in [Container -> {"absent", "stopped", "running"}]
    BY <1>5, <2>1 DEF ContainerUp, StackTypeOK
  <2> QED
    BY <1>5, <2>2 DEF ContainerUp, StackTypeOK, files, histories
<1>6. ASSUME NEW p \in WazuhPort, PortTaken(p) PROVE StackTypeOK'
  BY <1>6, TroubleType DEF PortTaken, StackTypeOK, files, docker, process, histories
<1>7. CASE ServerEnds
  <2>1. starting' \subseteq Order
    <3>1. \A o \in starting : [o EXCEPT !.by = {}] \in Order
      BY DEF StackTypeOK, Order
    <3> QED
      BY <1>7, <3>1 DEF ServerEnds, Orphaned, StackTypeOK
  <2> QED
    BY <1>7, <2>1, TroubleType, NoRunType, StackBoundAssumption
       DEF ServerEnds, StackTypeOK, files, docker, histories
<1>8. CASE UNCHANGED stackVars
  BY <1>8 DEF stackVars, StackTypeOK, histories, files, docker
<1> QED
  BY <1>1, <1>2, <1>3, <1>4, <1>5, <1>6, <1>7, <1>8 DEF StackNext, StackStep

\* The files, the containers and the runs keep their shapes.
THEOREM StackTypes == StackSpec => []StackTypeOK
<1>1. StackInit => StackTypeOK
  BY StackTypeInit
<1>2. StackTypeOK /\ [StackNext]_stackVars => StackTypeOK'
  BY StackTypeStep
<1> QED
  BY <1>1, <1>2, PTL DEF StackSpec

(***************************************************************************)
(* What a step of a bootstrap is to the passwords and the key: seven kinds *)
(* of steps instead of eighteen actions.                                   *)
(***************************************************************************)

\* The steps of a run that has written stack.env.
After == {"compose", "filebeat", "busy", "up", "upping", "list", "delete", "add", "machine",
          "merge", "fill"}

\* A container is only ever told a password that is in stack.env.
OrdersFollow(r) ==
  \A o \in starting' :
    \/ \E p \in starting : o.c = p.c /\ o.pw = p.pw
    \/ boot[r].pc = "up" /\ (o.c = "wazuh" => o.pw = secrets.pw)

Begins(r) ==
  /\ boot'[r].pc = "docker" /\ boot'[r].cfg = NoConfig
  /\ overlapped' = (overlapped \/ \E q \in Runner : Underway(q))
  /\ UNCHANGED <<secrets, config, bouncer, machine, wazuh, starting, clashed>>

Reads(r) ==
  /\ \/ boot[r].pc = "docker" /\ boot'[r].pc \in {"port", "secrets"} /\ boot'[r].cfg = config
     \/ boot[r].pc = "port" /\ boot'[r].pc = "secrets" /\ boot'[r].cfg = boot[r].cfg
  /\ UNCHANGED <<secrets, config, bouncer, machine, wazuh, starting, overlapped, clashed>>

Takes(r) ==
  /\ boot[r].pc = "secrets" /\ boot'[r].pc = "write" /\ boot'[r].cfg = boot[r].cfg
  /\ boot'[r].pw = ValueOf(boot[r].cfg.pw, secrets.pw, minted + 1)
  /\ boot'[r].mpw = ValueOf(boot[r].cfg.mpw, secrets.mpw, minted + 2)
  /\ boot'[r].pw # 0 /\ boot'[r].mpw # 0
  /\ clashed' = (clashed \/ \E q \in Runner \ {r} : boot[q].pc = "write")
  /\ UNCHANGED <<secrets, config, bouncer, machine, wazuh, starting, overlapped>>

Writes(r) ==
  /\ boot[r].pc = "write" /\ boot'[r].pc = "compose" /\ boot'[r].cfg = boot[r].cfg
  /\ boot'[r].pw = boot[r].pw /\ boot'[r].mpw = boot[r].mpw
  /\ secrets'.pw = boot[r].pw /\ secrets'.mpw = boot[r].mpw
  /\ UNCHANGED <<config, bouncer, machine, wazuh, starting, overlapped, clashed>>

\* The key of the run and the bouncer of CrowdSec.
KeyStep(r) ==
  \/ boot'[r].pc \in {"filebeat", "busy", "up", "upping"} /\ bouncer' = bouncer
  \/ boot'[r].pc = "list" /\ boot[r].cfg.key = 0 /\ bouncer' = bouncer
  \/ boot[r].pc \in {"list", "delete"} /\ boot'[r].pc \in {"delete", "add"}
  \/ /\ boot'[r].pc = "machine"
     /\ \/ boot[r].pc = "add" /\ boot'[r].key = bouncer'
        \/ boot[r].cfg.key # 0 /\ boot'[r].key = boot[r].cfg.key /\ bouncer' = bouncer
  \/ /\ boot[r].pc \in {"machine", "merge"} /\ boot'[r].pc \in {"merge", "fill"}
     /\ boot'[r].key = boot[r].key /\ bouncer' = bouncer

MachineFollows(r) == machine' = machine \/ (boot[r].pc = "machine" /\ machine' = boot[r].mpw)

Proceeds(r) ==
  /\ boot[r].pc \in After /\ boot'[r].pc \in After
  /\ boot'[r].cfg \in {boot[r].cfg, config}
  /\ boot'[r].pw = boot[r].pw /\ boot'[r].mpw = boot[r].mpw
  /\ MachineFollows(r) /\ OrdersFollow(r) /\ KeyStep(r)
  /\ UNCHANGED <<secrets, config, wazuh, overlapped, clashed>>

Leaves(r) ==
  /\ Underway(r) /\ boot'[r].pc \in {"failed", "ok"} /\ boot'[r].cfg = NoConfig
  /\ MachineFollows(r) /\ OrdersFollow(r)
  /\ bouncer' = bouncer \/ boot[r].pc \in {"delete", "add"}
  /\ UNCHANGED <<secrets, config, wazuh, overlapped, clashed>>

Completes(r) ==
  /\ boot[r].pc = "fill" /\ boot'[r].pc = "ok" /\ boot'[r].cfg = NoConfig
  /\ config'.key = (IF boot[r].cfg.key # 0 THEN boot[r].cfg.key ELSE boot[r].key)
  /\ config'.pw = (IF boot[r].cfg.pw # 0 THEN boot[r].cfg.pw ELSE boot[r].pw)
  /\ config'.mpw = (IF boot[r].cfg.mpw # 0 THEN boot[r].cfg.mpw ELSE boot[r].mpw)
  /\ UNCHANGED <<secrets, bouncer, machine, wazuh, starting, overlapped, clashed>>

KindOfStep(r) ==
  /\ \A q \in Runner \ {r} : boot'[q] = boot[q]
  /\ \/ Begins(r) \/ Reads(r) \/ Takes(r) \/ Writes(r) \/ Proceeds(r) \/ Leaves(r)
     \/ Completes(r)

LEMMA OrdersStay == starting' = starting => \A r \in Runner : OrdersFollow(r)
  BY DEF OrdersFollow

LEMMA OrdersOrphaned ==
  ASSUME StackTypeOK, NEW orders \in SUBSET starting, starting' = Orphaned(orders)
  PROVE  \A r \in Runner : OrdersFollow(r)
<1>1. \A o \in starting : [o EXCEPT !.by = {}].c = o.c /\ [o EXCEPT !.by = {}].pw = o.pw
  BY DEF StackTypeOK, Order
<1> QED
  BY <1>1 DEF Orphaned, OrdersFollow

LEMMA KindOfCredentials ==
  ASSUME StackTypeOK, NEW r \in Runner, ToCredentials(r), boot[r].pc \in {"busy", "upping"},
         UNCHANGED <<secrets, config, machine, wazuh, bouncer, starting, overlapped, clashed>>
  PROVE  KindOfStep(r)
<1>1. PICK pc \in {"machine", "list"} :
        /\ pc = "list" <=> boot[r].cfg.key = 0
        /\ Becomes(r, boot[r].by, pc, boot[r].cfg, boot[r].old, boot[r].port, boot[r].pw,
                   boot[r].mpw, boot[r].cfg.key)
  BY CredentialsStep
<1>2. /\ boot'[r].pc = pc /\ boot'[r].cfg = boot[r].cfg /\ boot'[r].pw = boot[r].pw
      /\ boot'[r].mpw = boot[r].mpw /\ boot'[r].key = boot[r].cfg.key
      /\ \A q \in Runner \ {r} : boot'[q] = boot[q]
  BY <1>1 DEF Becomes, IsRun
<1>3. KeyStep(r)
  BY <1>1, <1>2 DEF KeyStep
<1>4. Proceeds(r)
  BY <1>1, <1>2, <1>3, OrdersStay DEF Proceeds, After, MachineFollows
<1> QED
  BY <1>2, <1>4 DEF KindOfStep

\* A run that goes on, when all but the key of CrowdSec stands.
LEMMA KindOfGoing ==
  ASSUME StackTypeOK, NEW r \in Runner, NEW pc \in After, boot' = [boot EXCEPT ![r].pc = pc],
         boot[r].pc \in After,
         \/ pc \in {"filebeat", "busy", "up", "upping"} /\ bouncer' = bouncer
         \/ boot[r].pc \in {"list", "delete"} /\ pc \in {"delete", "add"}
         \/ boot[r].pc = "machine" /\ pc = "merge" /\ bouncer' = bouncer,
         MachineFollows(r), OrdersFollow(r), UNCHANGED <<secrets, config, wazuh, overlapped, clashed>>
  PROVE  KindOfStep(r)
<1>1. pc \in Step \cup Ended
  BY DEF After, Step
<1>2. GoesTo(r, pc)
  BY <1>1, Going
<1>3. KeyStep(r)
  BY <1>2 DEF KeyStep, GoesTo, Becomes, IsRun
<1> QED
  BY <1>2, <1>3 DEF KindOfStep, Proceeds, GoesTo, Becomes, IsRun

LEMMA KindOfEnding ==
  ASSUME StackTypeOK, NEW r \in Runner, NEW pc \in {"failed", "ok"}, Finish(r, pc), Underway(r),
         MachineFollows(r), OrdersFollow(r), bouncer' = bouncer \/ boot[r].pc \in {"delete", "add"},
         UNCHANGED <<secrets, config, wazuh, overlapped, clashed>>
  PROVE  KindOfStep(r)
<1>1. Ends(r, pc)
  BY EndStep, Places
<1> QED
  BY <1>1 DEF KindOfStep, Leaves, Ends, Becomes, IsRun

LEMMA Kinds ==
  ASSUME StackTypeOK, NEW r \in Runner,
         BootstrapStep(r) \/ \E by \in {"loop", "tray"} : RunBootstrap(r, by)
  PROVE  KindOfStep(r)
<1>0. /\ After \subseteq Step
      /\ {"filebeat", "busy", "up", "upping", "list", "delete", "add", "machine", "merge"} \subseteq After
  BY DEF After, Step
<1>1. ASSUME NEW by \in {"loop", "tray"}, RunBootstrap(r, by) PROVE KindOfStep(r)
  BY <1>1, BeginStep DEF RunBootstrap, KindOfStep, Begins, Becomes, IsRun, files, docker
<1>2. CASE StepDocker(r)
  BY <1>2, DockerStep
     DEF StepDocker, KindOfStep, Reads, Becomes, IsRun, files, docker, process, histories
<1>3. CASE ResolvePort(r)
  <2>1. boot[r].pc = "port" /\ \E port \in 0 .. Ports : ToSecrets(r, port)
    BY <1>3, RunType, KnownPortType DEF ResolvePort
  <2>2. /\ boot'[r].pc = "secrets" /\ boot'[r].cfg = boot[r].cfg
        /\ \A q \in Runner \ {r} : boot'[q] = boot[q]
    BY <2>1, PortStep DEF Becomes, IsRun
  <2> QED
    BY <1>3, <2>1, <2>2 DEF ResolvePort, KindOfStep, Reads, files, docker, process
<1>4. CASE ReadSecrets(r)
  BY <1>4, ReadStep DEF ReadSecrets, KindOfStep, Takes, Becomes, IsRun, files, docker, process
<1>5. CASE WriteSecrets(r)
  <2>1. GoesTo(r, "compose")
    BY <1>5, Going, Places DEF WriteSecrets
  <2> QED
    BY <1>5, <2>1
       DEF WriteSecrets, KindOfStep, Writes, GoesTo, Becomes, IsRun, docker, process, histories
<1>6. CASE WriteCompose(r)
  BY <1>0, <1>6, KindOfGoing, OrdersStay
     DEF WriteCompose, MachineFollows, After, docker, process, histories
<1>7. CASE StepFilebeat(r)
  <2>1. PICK pc \in {"busy", "up"} : boot' = [boot EXCEPT ![r].pc = pc]
    BY <1>7 DEF StepFilebeat
  <2> QED
    BY <1>0, <1>7, <2>1, KindOfGoing, OrdersStay
       DEF StepFilebeat, MachineFollows, files, process, histories
<1>8. CASE StepAlreadyRunning(r)
  <2>1. CASE ToCredentials(r)
    BY <1>8, <2>1, KindOfCredentials DEF StepAlreadyRunning, files, docker, process, histories
  <2>2. CASE Finish(r, "failed")
    BY <1>0, <1>8, <2>2, KindOfEnding, OrdersStay
       DEF StepAlreadyRunning, Underway, MachineFollows, files, docker, process, histories
  <2> QED
    BY <1>8, <2>1, <2>2 DEF StepAlreadyRunning
<1>9. CASE ComposeStart(r)
  <2>1. OrdersFollow(r)
    BY <1>9 DEF ComposeStart, OrdersFollow
  <2> QED
    BY <1>0, <1>9, <2>1, KindOfGoing DEF ComposeStart, MachineFollows, files, docker, histories
<1>10. CASE ComposeDone(r)
  BY <1>10, KindOfCredentials DEF ComposeDone, files, docker, process, histories
<1>11. CASE ComposeUpFails(r)
  <2>1. OrdersFollow(r)
    BY <1>11, OrdersOrphaned DEF ComposeUpFails, OrdersOf
  <2> QED
    BY <1>0, <1>11, <2>1, KindOfEnding
       DEF ComposeUpFails, Underway, MachineFollows, files, docker, histories
<1>12. CASE ListBouncers(r)
  <2>1. PICK pc \in {"delete", "add"} : boot' = [boot EXCEPT ![r].pc = pc]
    BY <1>12 DEF ListBouncers
  <2> QED
    BY <1>0, <1>12, <2>1, KindOfGoing, OrdersStay
       DEF ListBouncers, MachineFollows, files, docker, process, histories
<1>13. CASE DeleteBouncer(r)
  <2>1. CASE boot' = [boot EXCEPT ![r].pc = "add"]
    BY <1>0, <1>13, <2>1, KindOfGoing, OrdersStay
       DEF DeleteBouncer, MachineFollows, files, process, histories
  <2>2. CASE Finish(r, "failed")
    BY <1>0, <1>13, <2>2, KindOfEnding, OrdersStay
       DEF DeleteBouncer, Underway, MachineFollows, files, process, histories
  <2> QED
    BY <1>13, <2>1, <2>2 DEF DeleteBouncer
<1>14. CASE AddBouncer(r)
  <2>1. CASE /\ bouncer' = minted + 1
             /\ boot' = [boot EXCEPT ![r].pc = "machine", ![r].key = minted + 1]
    <3>1. minted + 1 \in Nat /\ "machine" \in Step
      BY DEF StackTypeOK, Step
    <3>2. Becomes(r, boot[r].by, "machine", boot[r].cfg, boot[r].old, boot[r].port, boot[r].pw,
                  boot[r].mpw, minted + 1)
      BY <2>1, <3>1, KeyTaken
    <3> QED
      BY <1>0, <1>14, <2>1, <3>2, OrdersStay
         DEF AddBouncer, KindOfStep, Proceeds, KeyStep, MachineFollows, Becomes, IsRun, files, process,
             histories
  <2>2. CASE Finish(r, "failed")
    BY <1>0, <1>14, <2>2, KindOfEnding, OrdersStay
       DEF AddBouncer, Underway, MachineFollows, files, process, histories
  <2> QED
    BY <1>14, <2>1, <2>2 DEF AddBouncer
<1>15. CASE AddMachine(r)
  BY <1>0, <1>15, KindOfGoing, OrdersStay DEF AddMachine, MachineFollows, files, process, histories
<1>16. CASE ReadConfig(r)
  <2>1. CASE Finish(r, "ok")
    BY <1>0, <1>16, <2>1, KindOfEnding, OrdersStay
       DEF ReadConfig, Underway, MachineFollows, files, docker, process, histories
  <2>2. CASE boot' = [boot EXCEPT ![r].pc = "fill", ![r].cfg = config]
    BY <1>16, <2>2, SeenStep, OrdersStay
       DEF ReadConfig, KindOfStep, Proceeds, KeyStep, MachineFollows, Becomes, IsRun, After, files, docker,
           process, histories
  <2> QED
    BY <1>16, <2>1, <2>2 DEF ReadConfig
<1>17. CASE FillConfig(r)
  BY <1>17, FillStep
     DEF FillConfig, KindOfStep, Completes, Ends, Becomes, IsRun, docker, process, histories
<1>18. CASE StepFails(r)
  BY <1>18, KindOfEnding, OrdersStay DEF StepFails, MachineFollows, files, process, histories
<1> QED
  BY <1>1, <1>2, <1>3, <1>4, <1>5, <1>6, <1>7, <1>8, <1>9, <1>10, <1>11, <1>12, <1>13, <1>14,
     <1>15, <1>16, <1>17, <1>18 DEF BootstrapStep

(***************************************************************************)
(* The passwords.                                                          *)
(***************************************************************************)

\* A password that a run has seen in config.env is there, and one that has
\* come there since is in stack.env.
SeenByRun(r) ==
  /\ boot[r].cfg.pw # 0 => boot[r].cfg.pw = config.pw
  /\ boot[r].cfg.mpw # 0 => boot[r].cfg.mpw = config.mpw
  /\ boot[r].pc \in {"port", "secrets"} /\ boot[r].cfg.pw = 0 /\ config.pw # 0 => secrets.pw # 0

\* What a run holds, having read stack.env, is what the file holds.
HeldByRun(r) ==
  /\ boot[r].pc = "write" =>
       /\ boot[r].pw # 0 /\ boot[r].mpw # 0
       /\ secrets.pw # 0 => boot[r].pw = secrets.pw
       /\ secrets.mpw # 0 => boot[r].mpw = secrets.mpw
       /\ config.pw # 0 => boot[r].pw = config.pw
       /\ config.mpw # 0 => boot[r].mpw = config.mpw
  /\ boot[r].pc \in After =>
       /\ secrets.pw # 0 /\ secrets.mpw # 0
       /\ boot[r].pw = secrets.pw /\ boot[r].mpw = secrets.mpw

Held ==
  /\ \A r \in Runner : SeenByRun(r) /\ HeldByRun(r)
  /\ \A p, q \in Runner : boot[p].pc = "write" /\ boot[q].pc = "write" => p = q
  /\ \A o \in starting : o.c = "wazuh" => o.pw = secrets.pw /\ secrets.pw # 0

PasswordInv == PasswordsAgree /\ (~clashed => Held)

LEMMA PasswordInit == StackInit => PasswordInv
<1> SUFFICES ASSUME StackInit PROVE PasswordInv
  OBVIOUS
<1>1. \A r \in Runner : boot[r].pc = "idle" /\ boot[r].cfg = NoConfig
  BY NoRunType DEF StackInit, NoRun
<1>2. PasswordsAgree
  BY NoRunType DEF StackInit, NoSecrets, PasswordsAgree
<1>3. Held
  BY <1>1, NoRunType DEF StackInit, Held, SeenByRun, HeldByRun, After
<1> QED
  BY <1>2, <1>3 DEF PasswordInv

\* A file keeps the passwords it has, and config.env takes them from stack.env.
FilesKeep ==
  /\ secrets.pw # 0 => secrets'.pw = secrets.pw
  /\ secrets.mpw # 0 => secrets'.mpw = secrets.mpw
  /\ config'.pw = config.pw \/ (config.pw = 0 /\ secrets.pw # 0 /\ config'.pw = secrets.pw)
  /\ config'.mpw = config.mpw \/ (config.mpw = 0 /\ secrets.mpw # 0 /\ config'.mpw = secrets.mpw)

\* What the other runs have seen and hold stays true.
LEMMA OthersHold ==
  ASSUME Held, NEW r \in Runner, \A q \in Runner \ {r} : boot'[q] = boot[q], FilesKeep,
         \/ secrets'.pw = secrets.pw /\ secrets'.mpw = secrets.mpw
         \/ \A q \in Runner \ {r} : boot[q].pc # "write"
  PROVE  \A q \in Runner \ {r} : SeenByRun(q)' /\ HeldByRun(q)'
<1> SUFFICES ASSUME NEW q \in Runner \ {r} PROVE SeenByRun(q)' /\ HeldByRun(q)'
  OBVIOUS
<1>1. boot'[q] = boot[q] /\ SeenByRun(q) /\ HeldByRun(q)
  BY DEF Held
<1>2. SeenByRun(q)'
  BY <1>1 DEF SeenByRun, FilesKeep
<1>3. HeldByRun(q)'
  BY <1>1 DEF HeldByRun, FilesKeep
<1> QED
  BY <1>2, <1>3

LEMMA OrdersHold ==
  ASSUME Held, NEW r \in Runner, OrdersFollow(r), UNCHANGED secrets
  PROVE  \A o \in starting' : o.c = "wazuh" => o.pw = secrets'.pw /\ secrets'.pw # 0
<1>1. boot[r].pc = "up" => secrets.pw # 0
  BY DEF Held, HeldByRun, After
<1> QED
  BY <1>1 DEF OrdersFollow, Held

LEMMA BeginsHeld ==
  ASSUME PasswordInv, ~clashed, NEW r \in Runner, \A q \in Runner \ {r} : boot'[q] = boot[q],
         Begins(r)
  PROVE  PasswordInv'
<1>1. Held /\ FilesKeep
  BY DEF PasswordInv, Begins, FilesKeep
<1>2. SeenByRun(r)' /\ HeldByRun(r)'
  BY NoRunType DEF Begins, SeenByRun, HeldByRun, After
<1>3. \A q \in Runner : SeenByRun(q)' /\ HeldByRun(q)'
  BY <1>1, <1>2, OthersHold DEF Begins
<1>4. \A p, q \in Runner : boot'[p].pc = "write" /\ boot'[q].pc = "write" => p = q
  BY <1>1 DEF Begins, Held
<1>5. \A o \in starting' : o.c = "wazuh" => o.pw = secrets'.pw /\ secrets'.pw # 0
  BY <1>1 DEF Begins, Held
<1>6. PasswordsAgree'
  BY DEF PasswordInv, PasswordsAgree, Begins
<1> QED
  BY <1>3, <1>4, <1>5, <1>6 DEF PasswordInv, Held

LEMMA ReadsHeld ==
  ASSUME PasswordInv, ~clashed, NEW r \in Runner, \A q \in Runner \ {r} : boot'[q] = boot[q],
         Reads(r)
  PROVE  PasswordInv'
<1>1. Held /\ FilesKeep /\ PasswordsAgree /\ SeenByRun(r)
  BY DEF PasswordInv, Reads, FilesKeep, Held
<1>2. SeenByRun(r)' /\ HeldByRun(r)'
  BY <1>1 DEF Reads, SeenByRun, HeldByRun, After
<1>3. \A q \in Runner : SeenByRun(q)' /\ HeldByRun(q)'
  BY <1>1, <1>2, OthersHold DEF Reads
<1>4. \A p, q \in Runner : boot'[p].pc = "write" /\ boot'[q].pc = "write" => p = q
  BY <1>1 DEF Reads, Held
<1>5. \A o \in starting' : o.c = "wazuh" => o.pw = secrets'.pw /\ secrets'.pw # 0
  BY <1>1 DEF Reads, Held
<1>6. PasswordsAgree'
  BY <1>1 DEF PasswordsAgree, Reads
<1> QED
  BY <1>3, <1>4, <1>5, <1>6 DEF PasswordInv, Held

\* What is taken is what there is: of a password in either file it is that one.
LEMMA TakenIs ==
  ASSUME PasswordsAgree, ~clashed, NEW r \in Runner, SeenByRun(r), Takes(r)
  PROVE  /\ secrets.pw # 0 => boot'[r].pw = secrets.pw
         /\ secrets.mpw # 0 => boot'[r].mpw = secrets.mpw
         /\ config.pw # 0 => boot'[r].pw = config.pw
         /\ config.mpw # 0 => boot'[r].mpw = config.mpw
<1>1. /\ boot[r].cfg.pw # 0 => boot[r].cfg.pw = config.pw
      /\ boot[r].cfg.mpw # 0 => boot[r].cfg.mpw = config.mpw
      /\ boot[r].cfg.pw = 0 /\ config.pw # 0 => secrets.pw # 0
  BY DEF SeenByRun, Takes
<1>2. /\ config.pw # 0 /\ secrets.pw # 0 => config.pw = secrets.pw
      /\ config.mpw # 0 => config.mpw = secrets.mpw
  BY DEF PasswordsAgree
<1> QED
  BY <1>1, <1>2 DEF Takes, ValueOf

LEMMA TakesHeld ==
  ASSUME PasswordInv, ~clashed, ~clashed', NEW r \in Runner,
         \A q \in Runner \ {r} : boot'[q] = boot[q], Takes(r)
  PROVE  PasswordInv'
<1>1. Held /\ FilesKeep /\ PasswordsAgree /\ SeenByRun(r)
  BY DEF PasswordInv, Takes, FilesKeep, Held
<1>2. SeenByRun(r)' /\ HeldByRun(r)'
  BY <1>1, TakenIs DEF Takes, SeenByRun, HeldByRun, After
<1>3. \A q \in Runner : SeenByRun(q)' /\ HeldByRun(q)'
  BY <1>1, <1>2, OthersHold DEF Takes
<1>4. \A p, q \in Runner : boot'[p].pc = "write" /\ boot'[q].pc = "write" => p = q
  BY <1>1 DEF Takes
<1>5. \A o \in starting' : o.c = "wazuh" => o.pw = secrets'.pw /\ secrets'.pw # 0
  BY <1>1 DEF Takes, Held
<1>6. PasswordsAgree'
  BY <1>1 DEF PasswordsAgree, Takes
<1> QED
  BY <1>3, <1>4, <1>5, <1>6 DEF PasswordInv, Held

LEMMA WritesHeld ==
  ASSUME PasswordInv, ~clashed, NEW r \in Runner, \A q \in Runner \ {r} : boot'[q] = boot[q],
         Writes(r)
  PROVE  PasswordInv'
<1>1. Held /\ PasswordsAgree /\ SeenByRun(r) /\ HeldByRun(r)
  BY DEF PasswordInv, Held
<1>2. /\ boot[r].pw # 0 /\ boot[r].mpw # 0
      /\ secrets.pw # 0 => boot[r].pw = secrets.pw
      /\ secrets.mpw # 0 => boot[r].mpw = secrets.mpw
      /\ config.pw # 0 => boot[r].pw = config.pw
      /\ config.mpw # 0 => boot[r].mpw = config.mpw
  BY <1>1 DEF HeldByRun, Writes
<1>3. FilesKeep /\ \A q \in Runner \ {r} : boot[q].pc # "write"
  BY <1>1, <1>2 DEF FilesKeep, Writes, Held
<1>4. SeenByRun(r)' /\ HeldByRun(r)'
  BY <1>1, <1>2 DEF Writes, SeenByRun, HeldByRun, After
<1>5. \A q \in Runner : SeenByRun(q)' /\ HeldByRun(q)'
  BY <1>1, <1>3, <1>4, OthersHold
<1>6. \A p, q \in Runner : boot'[p].pc = "write" /\ boot'[q].pc = "write" => p = q
  BY <1>3, <1>1 DEF Writes, Held
<1>7. \A o \in starting' : o.c = "wazuh" => o.pw = secrets'.pw /\ secrets'.pw # 0
  BY <1>1, <1>2 DEF Writes, Held
<1>8. PasswordsAgree'
  BY <1>1, <1>2 DEF PasswordsAgree, Writes
<1> QED
  BY <1>5, <1>6, <1>7, <1>8 DEF PasswordInv, Held

LEMMA ProceedsHeld ==
  ASSUME PasswordInv, ~clashed, NEW r \in Runner, \A q \in Runner \ {r} : boot'[q] = boot[q],
         Proceeds(r)
  PROVE  PasswordInv'
<1>1. Held /\ FilesKeep /\ PasswordsAgree /\ SeenByRun(r) /\ HeldByRun(r)
  BY DEF PasswordInv, Proceeds, FilesKeep, Held
<1>2. boot[r].pw = secrets.pw /\ boot[r].mpw = secrets.mpw
  BY <1>1 DEF HeldByRun, Proceeds
<1>3. SeenByRun(r)' /\ HeldByRun(r)'
  BY <1>1 DEF Proceeds, SeenByRun, HeldByRun, After
<1>4. \A q \in Runner : SeenByRun(q)' /\ HeldByRun(q)'
  BY <1>1, <1>3, OthersHold DEF Proceeds
<1>5. \A p, q \in Runner : boot'[p].pc = "write" /\ boot'[q].pc = "write" => p = q
  BY <1>1 DEF Proceeds, After, Held
<1>6. \A o \in starting' : o.c = "wazuh" => o.pw = secrets'.pw /\ secrets'.pw # 0
  BY <1>1, OrdersHold DEF Proceeds
<1>7. PasswordsAgree'
  BY <1>1, <1>2 DEF PasswordsAgree, Proceeds, MachineFollows
<1> QED
  BY <1>4, <1>5, <1>6, <1>7 DEF PasswordInv, Held

LEMMA LeavesHeld ==
  ASSUME PasswordInv, ~clashed, NEW r \in Runner, \A q \in Runner \ {r} : boot'[q] = boot[q],
         Leaves(r)
  PROVE  PasswordInv'
<1>1. Held /\ FilesKeep /\ PasswordsAgree /\ HeldByRun(r)
  BY DEF PasswordInv, Leaves, FilesKeep, Held
<1>2. boot[r].pc = "machine" => boot[r].mpw = secrets.mpw
  BY <1>1 DEF HeldByRun, After
<1>3. SeenByRun(r)' /\ HeldByRun(r)'
  BY NoRunType DEF Leaves, SeenByRun, HeldByRun, After
<1>4. \A q \in Runner : SeenByRun(q)' /\ HeldByRun(q)'
  BY <1>1, <1>3, OthersHold DEF Leaves
<1>5. \A p, q \in Runner : boot'[p].pc = "write" /\ boot'[q].pc = "write" => p = q
  BY <1>1 DEF Leaves, Held
<1>6. \A o \in starting' : o.c = "wazuh" => o.pw = secrets'.pw /\ secrets'.pw # 0
  BY <1>1, OrdersHold DEF Leaves
<1>7. PasswordsAgree'
  BY <1>1, <1>2 DEF PasswordsAgree, Leaves, MachineFollows
<1> QED
  BY <1>4, <1>5, <1>6, <1>7 DEF PasswordInv, Held

LEMMA CompletesHeld ==
  ASSUME PasswordInv, ~clashed, NEW r \in Runner, \A q \in Runner \ {r} : boot'[q] = boot[q],
         Completes(r)
  PROVE  PasswordInv' /\ FilesKeep
<1>1. Held /\ PasswordsAgree /\ SeenByRun(r) /\ HeldByRun(r)
  BY DEF PasswordInv, Held
<1>2. /\ boot[r].pw = secrets.pw /\ boot[r].mpw = secrets.mpw
      /\ secrets.pw # 0 /\ secrets.mpw # 0
  BY <1>1 DEF HeldByRun, Completes, After
<1>3. FilesKeep
  BY <1>1, <1>2 DEF FilesKeep, Completes, SeenByRun, PasswordsAgree
<1>4. SeenByRun(r)' /\ HeldByRun(r)'
  BY NoRunType DEF Completes, SeenByRun, HeldByRun, After
<1>5. \A q \in Runner : SeenByRun(q)' /\ HeldByRun(q)'
  BY <1>1, <1>3, <1>4, OthersHold DEF Completes
<1>6. \A p, q \in Runner : boot'[p].pc = "write" /\ boot'[q].pc = "write" => p = q
  BY <1>1 DEF Completes, Held
<1>7. \A o \in starting' : o.c = "wazuh" => o.pw = secrets'.pw /\ secrets'.pw # 0
  BY <1>1 DEF Completes, Held
<1>8. PasswordsAgree'
  BY <1>1, <1>2, <1>3 DEF PasswordsAgree, FilesKeep, Completes
<1> QED
  BY <1>3, <1>5, <1>6, <1>7, <1>8 DEF PasswordInv, Held

\* Where no run moves and no file is written.
LEMMA StandsHeld ==
  ASSUME PasswordInv, ~clashed, UNCHANGED <<config, secrets, machine>>,
         \A r \in Runner : boot'[r] = boot[r] \/ (boot'[r].pc = "idle" /\ boot'[r].cfg = NoConfig),
         wazuh'.pw = wazuh.pw \/ wazuh'.pw = secrets.pw,
         \A o \in starting' : \E p \in starting : o.c = p.c /\ o.pw = p.pw
  PROVE  PasswordInv'
<1>1. Held /\ PasswordsAgree
  BY DEF PasswordInv
<1>2. ASSUME NEW r \in Runner PROVE SeenByRun(r)' /\ HeldByRun(r)'
  <2>1. CASE boot'[r] = boot[r]
    BY <1>1, <2>1 DEF Held, SeenByRun, HeldByRun
  <2>2. CASE boot'[r].pc = "idle" /\ boot'[r].cfg = NoConfig
    BY <2>2, NoRunType DEF SeenByRun, HeldByRun, After
  <2> QED
    BY <2>1, <2>2
<1>3. \A p, q \in Runner : boot'[p].pc = "write" /\ boot'[q].pc = "write" => p = q
  BY <1>1 DEF Held
<1>4. \A o \in starting' : o.c = "wazuh" => o.pw = secrets'.pw /\ secrets'.pw # 0
  BY <1>1 DEF Held
<1>5. PasswordsAgree'
  BY <1>1 DEF PasswordsAgree
<1> QED
  BY <1>2, <1>3, <1>4, <1>5 DEF PasswordInv, Held

\* The steps of the machine around the runs.
Around ==
  \/ \E o \in starting : ContainerUp(o)
  \/ \E c \in Container : ContainerStops(c) \/ ContainerStarts(c)
  \/ \E p \in WazuhPort : PortTaken(p)
  \/ ServerEnds

LEMMA AroundStands ==
  ASSUME StackTypeOK, Held, Around
  PROVE  /\ UNCHANGED <<config, secrets, machine, clashed>>
         /\ \A r \in Runner : boot'[r] = boot[r] \/ (boot'[r].pc = "idle" /\ boot'[r].cfg = NoConfig)
         /\ wazuh'.pw = wazuh.pw \/ wazuh'.pw = secrets.pw
         /\ \A o \in starting' : \E p \in starting : o.c = p.c /\ o.pw = p.pw
<1>1. CASE \E o \in starting : ContainerUp(o)
  <2>1. PICK o \in starting : ContainerUp(o)
    BY <1>1
  <2>2. o.c = "wazuh" => o.pw = secrets.pw
    BY DEF Held
  <2>3. wazuh'.pw = wazuh.pw \/ wazuh'.pw = secrets.pw
    BY <2>1, <2>2 DEF ContainerUp
  <2> QED
    BY <2>1, <2>3 DEF ContainerUp, files, histories
<1>2. CASE \E c \in Container : ContainerStops(c) \/ ContainerStarts(c)
  BY <1>2 DEF ContainerStops, ContainerStarts, files, process, histories
<1>3. CASE \E p \in WazuhPort : PortTaken(p)
  BY <1>3 DEF PortTaken, files, docker, process, histories
<1>4. CASE ServerEnds
  <2>1. \A o \in starting : [o EXCEPT !.by = {}].c = o.c /\ [o EXCEPT !.by = {}].pw = o.pw
    BY DEF StackTypeOK, Order
  <2>2. \A o \in starting' : \E p \in starting : o.c = p.c /\ o.pw = p.pw
    BY <1>4, <2>1 DEF ServerEnds, Orphaned
  <2>3. \A r \in Runner : boot'[r].pc = "idle" /\ boot'[r].cfg = NoConfig
    BY <1>4, NoRunType DEF ServerEnds, NoRun
  <2> QED
    BY <1>4, <2>2, <2>3 DEF ServerEnds, files, docker, histories
<1> QED
  BY <1>1, <1>2, <1>3, <1>4 DEF Around

\* A step of the stack is one of a run, one around the runs, or none.
LEMMA StackSteps ==
  ASSUME StackTypeOK, [StackNext]_stackVars
  PROVE  (\E r \in Runner : KindOfStep(r)) \/ Around \/ UNCHANGED stackVars
  BY Kinds DEF StackNext, StackStep, Around

\* Runs that have crossed stay crossed.
LEMMA ClashedStays ==
  ASSUME StackTypeOK, [StackNext]_stackVars
  PROVE  clashed => clashed'
<1>1. ASSUME NEW r \in Runner, KindOfStep(r) PROVE clashed => clashed'
  BY <1>1 DEF KindOfStep, Begins, Reads, Takes, Writes, Proceeds, Leaves, Completes
<1>2. Around => clashed' = clashed
  BY DEF Around, ContainerUp, ContainerStops, ContainerStarts, PortTaken, ServerEnds, histories
<1>3. UNCHANGED stackVars => clashed' = clashed
  BY DEF stackVars, histories
<1> QED
  BY <1>1, <1>2, <1>3, StackSteps

LEMMA PasswordStep == StackTypeOK /\ PasswordInv /\ [StackNext]_stackVars => PasswordInv'
<1> SUFFICES ASSUME StackTypeOK, PasswordInv, [StackNext]_stackVars PROVE PasswordInv'
  OBVIOUS
<1>1. CASE clashed'
  BY <1>1 DEF PasswordInv, PasswordsAgree
<1>2. CASE ~clashed'
  <2>1. ~clashed
    BY <1>2, ClashedStays
  <2>2. ASSUME NEW r \in Runner, KindOfStep(r) PROVE PasswordInv'
    BY <1>2, <2>1, <2>2, BeginsHeld, ReadsHeld, TakesHeld, WritesHeld, ProceedsHeld, LeavesHeld,
       CompletesHeld DEF KindOfStep
  <2>3. CASE Around
    BY <2>1, <2>3, AroundStands, StandsHeld DEF PasswordInv
  <2>4. CASE UNCHANGED stackVars
    BY <2>1, <2>4, StandsHeld DEF stackVars
  <2> QED
    BY <2>2, <2>3, <2>4, StackSteps
<1> QED
  BY <1>1, <1>2

\* The passwords agree whatever the bound on the runs and on the failures, and
\* however many ask for a bootstrap at once, unless two runs were between the
\* reading and the writing of stack.env at once (_write_stack_env,
\* _merge_env_file).
THEOREM OnePassword == StackSpec => []PasswordsAgree
<1>1. StackInit => PasswordInv
  BY PasswordInit
<1>2. StackTypeOK /\ PasswordInv /\ [StackNext]_stackVars => PasswordInv'
  BY PasswordStep
<1>3. PasswordInv => PasswordsAgree
  BY DEF PasswordInv
<1> QED
  BY <1>1, <1>2, <1>3, StackTypes, PTL DEF StackSpec

(***************************************************************************)
(* The key of CrowdSec.                                                    *)
(***************************************************************************)

SoleRun == \A p, q \in Runner : Underway(p) /\ Underway(q) => p = q

\* A run has read the key that config.env holds, and goes on with the one that
\* CrowdSec has given.
KeyOfRun(r) ==
  /\ Underway(r) /\ boot[r].pc # "docker" => boot[r].cfg.key = config.key
  /\ boot[r].pc \in {"list", "delete", "add"} => config.key = 0
  /\ boot[r].pc \in {"machine", "merge", "fill"} => boot[r].key = bouncer

KeyInv == KeyWorks /\ (~overlapped => SoleRun /\ \A r \in Runner : KeyOfRun(r))

LEMMA KeyInit == StackInit => KeyInv
<1> SUFFICES ASSUME StackInit PROVE KeyInv
  OBVIOUS
<1>1. \A r \in Runner : boot[r].pc = "idle"
  BY NoRunType DEF StackInit
<1>2. KeyWorks
  BY NoRunType DEF StackInit, KeyWorks
<1>3. SoleRun /\ \A r \in Runner : KeyOfRun(r)
  BY <1>1 DEF SoleRun, KeyOfRun, Underway, Step
<1> QED
  BY <1>2, <1>3 DEF KeyInv

LEMMA KeyOfKind ==
  ASSUME KeyInv, ~overlapped', NEW r \in Runner, KindOfStep(r)
  PROVE  KeyInv'
<1>1. ~overlapped /\ \A q \in Runner \ {r} : boot'[q] = boot[q]
  <2>1. Begins(r) => (overlapped => overlapped')
    BY DEF Begins
  <2>2. ~Begins(r) => overlapped' = overlapped
    BY DEF KindOfStep, Reads, Takes, Writes, Proceeds, Leaves, Completes
  <2> QED
    BY <2>1, <2>2 DEF KindOfStep
<1>2. /\ SoleRun /\ KeyOfRun(r)
      /\ config.key # 0 => config.key = bouncer
  BY <1>1 DEF KeyInv, KeyWorks
<1>3. After \cup {"docker", "port", "secrets", "write"} \subseteq Step
  BY DEF After, Step
<1>4. {"failed", "ok"} \cap Step = {}
  BY DEF Step
<1>5. ASSUME NEW q \in Runner \ {r} PROVE ~Underway(q)'
  <2>1. CASE Begins(r)
    BY <1>1, <2>1 DEF Begins, Underway
  <2>2. CASE ~Begins(r)
    <3>1. Underway(r)
      BY <1>3, <2>2
         DEF KindOfStep, Reads, Takes, Writes, Proceeds, Leaves, Completes, Underway, After
    <3> QED
      BY <1>1, <1>2, <3>1 DEF SoleRun, Underway
  <2> QED
    BY <2>1, <2>2
<1>6. (config.key # 0 => config.key = bouncer)' /\ KeyOfRun(r)'
  <2>1. CASE Begins(r)
    BY <1>2, <2>1 DEF Begins, KeyOfRun
  <2>2. CASE Reads(r)
    BY <1>2, <1>3, <2>2 DEF Reads, KeyOfRun, Underway
  <2>3. CASE Takes(r) \/ Writes(r)
    BY <1>2, <1>3, <2>3 DEF Takes, Writes, KeyOfRun, Underway
  <2>4. CASE Proceeds(r)
    <3>1. boot[r].cfg.key = config.key /\ boot'[r].cfg.key = config.key /\ config' = config
      BY <1>2, <1>3, <2>4 DEF Proceeds, KeyOfRun, Underway, After
    <3> QED
      BY <1>2, <2>4, <3>1 DEF Proceeds, KeyStep, KeyOfRun
  <2>5. CASE Leaves(r)
    BY <1>2, <1>4, <2>5 DEF Leaves, KeyOfRun, Underway
  <2>6. CASE Completes(r)
    <3>1. boot[r].cfg.key = config.key /\ boot[r].key = bouncer
      BY <1>2, <1>3, <2>6 DEF Completes, KeyOfRun, Underway, After
    <3> QED
      BY <1>2, <1>4, <2>6, <3>1 DEF Completes, KeyOfRun, Underway
  <2> QED
    BY <2>1, <2>2, <2>3, <2>4, <2>5, <2>6 DEF KindOfStep
<1>7. \A q \in Runner \ {r} : KeyOfRun(q)'
  BY <1>5 DEF KeyOfRun, Underway, Step
<1> QED
  BY <1>5, <1>6, <1>7 DEF KeyInv, KeyWorks, SoleRun

LEMMA KeyInvStep == StackTypeOK /\ KeyInv /\ [StackNext]_stackVars => KeyInv'
<1> SUFFICES ASSUME StackTypeOK, KeyInv, [StackNext]_stackVars PROVE KeyInv'
  OBVIOUS
<1>1. ASSUME NEW r \in Runner, KindOfStep(r) PROVE KeyInv'
  BY <1>1, KeyOfKind DEF KeyInv, KeyWorks
<1>2. ASSUME Around, ~ServerEnds PROVE KeyInv'
  <2>1. UNCHANGED <<config, bouncer, boot, overlapped>>
    BY <1>2 DEF Around, ContainerUp, ContainerStops, ContainerStarts, PortTaken, files, docker,
                histories
  <2> QED
    BY <2>1 DEF KeyInv, KeyWorks, SoleRun, KeyOfRun, Underway
<1>3. CASE ServerEnds
  <2>1. \A r \in Runner : boot'[r].pc = "idle"
    BY <1>3, NoRunType DEF ServerEnds
  <2>2. UNCHANGED <<config, bouncer, overlapped>>
    BY <1>3 DEF ServerEnds, files, docker, histories
  <2> QED
    BY <2>1, <2>2 DEF KeyInv, KeyWorks, SoleRun, KeyOfRun, Underway, Step
<1>4. CASE UNCHANGED stackVars
  BY <1>4 DEF stackVars, histories, KeyInv, KeyWorks, SoleRun, KeyOfRun, Underway
<1> QED
  BY <1>1, <1>2, <1>3, <1>4, StackSteps

\* The key in config.env is one that CrowdSec knows, for every number of runs
\* that do not overlap (_step_crowdsec_credentials).
THEOREM KeyIsKnown == StackSpec => []KeyWorks
<1>1. StackInit => KeyInv
  BY KeyInit
<1>2. StackTypeOK /\ KeyInv /\ [StackNext]_stackVars => KeyInv'
  BY KeyInvStep
<1>3. KeyInv => KeyWorks
  BY DEF KeyInv
<1> QED
  BY <1>1, <1>2, <1>3, StackTypes, PTL DEF StackSpec
(***************************************************************************)
(* The health matrix.                                                      *)
(***************************************************************************)

\* The guard is what makes the collections a sequence: the one under way has
\* the last number, so nothing stored or recorded is younger than it.
InOrder ==
  /\ \A q \in Poller : poll[q].pc \in {"collect", "probe"} => guard = {q} /\ poll[q].round = rounds
  /\ recorded <= rounds /\ floor <= rounds
  /\ cache.has => recorded <= cache.round /\ cache.round <= rounds

\* A collection begun before the last restart is known as overtaking it.
Restarted ==
  /\ SeesTheRestart
  /\ \A q \in Poller : poll[q].pc \in {"collect", "probe"} => poll[q].round > floor \/ overtaken

MatrixInv == HealthTypeOK /\ InOrder /\ Restarted

\* A request is replaced by another.
Polls(q, new) == poll' = [poll EXCEPT ![q] = new]

LEMMA PollsType ==
  ASSUME poll \in [Poller -> Poll], NEW q \in Poller, NEW new \in Poll, Polls(q, new)
  PROVE  /\ poll' \in [Poller -> Poll] /\ poll'[q] = new
         /\ \A p \in Poller \ {q} : poll'[p] = poll[p]
  BY DEF Polls

LEMMA NoPollType ==
  /\ NoPoll \in Poll /\ NoPoll.pc = "idle" /\ NoMatrix \in Matrix /\ ~NoMatrix.has
  /\ \A pc \in {"database", "wait"}, force \in BOOLEAN, all \in BOOLEAN, status \in Status :
       [NoPoll EXCEPT !.pc = pc, !.force = force, !.all = all, !.status = status] \in Poll
<1>1. NoPoll \in Poll
  BY NoRunType DEF NoPoll, Poll, Status
<1>2. NoMatrix \in Matrix
  BY DEF NoMatrix, Matrix, Status
<1>3. ASSUME NEW pc \in {"database", "wait"}, NEW force \in BOOLEAN, NEW all \in BOOLEAN,
             NEW status \in Status
      PROVE  [NoPoll EXCEPT !.pc = pc, !.force = force, !.all = all, !.status = status] \in Poll
  BY <1>1 DEF Poll
<1> QED
  BY <1>1, <1>2, <1>3 DEF NoPoll, NoMatrix

\* Two requests that begin, and one that ends.
LEMMA BegunType ==
  /\ [NoPoll EXCEPT !.pc = "wait"] \in Poll
  /\ [NoPoll EXCEPT !.pc = "wait", !.force = TRUE] \in Poll
  /\ \A status \in Status : [NoPoll EXCEPT !.pc = "database", !.all = TRUE, !.status = status] \in Poll
<1>1. NoPoll \in Poll
  BY NoPollType
<1>2. [NoPoll EXCEPT !.pc = "wait"] \in Poll
  BY <1>1 DEF Poll
<1>3. [NoPoll EXCEPT !.pc = "wait", !.force = TRUE] \in Poll
  BY <1>1 DEF Poll
<1>4. ASSUME NEW status \in Status
      PROVE  [NoPoll EXCEPT !.pc = "database", !.all = TRUE, !.status = status] \in Poll
  BY <1>1 DEF Poll
<1> QED
  BY <1>2, <1>3, <1>4

LEMMA ServeType ==
  ASSUME HealthTypeOK, NEW q \in Poller, NEW aggregate \in Status, NEW round \in Nat,
         Serve(q, aggregate, round)
  PROVE  /\ poll' \in [Poller -> Poll] /\ poll'[q].pc = "idle"
         /\ \A p \in Poller \ {q} : poll'[p] = poll[p]
         /\ last' \in [Check -> Status \cup {"none"}]
         /\ recorded' = recorded \/ recorded' = round
<1>1. Polls(q, NoPoll)
  BY DEF Serve, Polls
<1>2. last' \in [Check -> Status \cup {"none"}] /\ (recorded' = recorded \/ recorded' = round)
  BY DEF Serve, HealthTypeOK
<1> QED
  BY <1>1, <1>2, PollsType, NoPollType DEF HealthTypeOK

LEMMA StackKept == StackTypeOK /\ UNCHANGED stackVars => StackTypeOK'
  BY StackTypeStep

LEMMA StatusType == \A cfg : Collected(cfg) \subseteq Status
<1>1. \A S : worst_matrix_status(S) \in Status
  BY DEF worst_matrix_status, Status
<1> QED
  BY <1>1 DEF Collected

\* What a step does to the requests under way: p goes on as the collection it
\* is, or is none after the step.
CollectsAs(p) ==
  poll'[p].pc \in {"collect", "probe"} => /\ poll[p].pc \in {"collect", "probe"}
                                         /\ poll'[p].round = poll[p].round

\* The steps that neither begin nor store a collection.
LEMMA QuietStep ==
  ASSUME MatrixInv, \A p \in Poller : CollectsAs(p),
         UNCHANGED <<guard, rounds, floor, overtaken>>,
         cache' = NoMatrix \/ cache' = cache \/ cache' = [cache EXCEPT !.fresh = FALSE],
         recorded' = recorded \/ (Fresh /\ cache' = cache /\ recorded' = cache.round)
  PROVE  InOrder' /\ Restarted' /\ recorded' >= recorded
<1>1. /\ recorded \in Nat /\ rounds \in Nat /\ floor \in Nat /\ cache \in Matrix
      /\ cache.round \in Nat
  BY DEF MatrixInv, HealthTypeOK, Matrix
<1>2. cache'.has => cache.has /\ cache'.round = cache.round
  BY <1>1, NoPollType DEF Matrix
<1>3. recorded' >= recorded /\ recorded' <= rounds /\ (cache'.has => recorded' <= cache.round)
  BY <1>1, <1>2 DEF MatrixInv, InOrder, Fresh
<1>4. InOrder'
  BY <1>2, <1>3 DEF MatrixInv, InOrder, CollectsAs
<1>5. Restarted'
  BY <1>2 DEF MatrixInv, Restarted, SeesTheRestart, CollectsAs
<1> QED
  BY <1>3, <1>4, <1>5

LEMMA PollerStep ==
  ASSUME MatrixInv, NEW q \in Poller,
         \/ GetMatrix(q) \/ ping_components(q) \/ run_all(q) \/ RecordDatabase(q)
         \/ AskCache(q) \/ EnterGuard(q) \/ Inspect(q) \/ Store(q)
  PROVE  MatrixInv' /\ recorded' >= recorded
<1>0. /\ poll \in [Poller -> Poll] /\ poll[q] \in Poll /\ recorded \in Nat /\ rounds \in Nat
      /\ floor \in Nat /\ cache \in Matrix /\ cache.aggregate \in Status /\ cache.round \in Nat
      /\ StackTypeOK
  BY DEF MatrixInv, HealthTypeOK, Matrix
<1>9. ASSUME polls' = polls + 1, polls < MaxPolls PROVE polls' \in 0 .. MaxPolls
  BY <1>9, PollsAssumption DEF MatrixInv, HealthTypeOK
<1>1. CASE GetMatrix(q)
  <2>1. /\ poll' \in [Poller -> Poll] /\ \A p \in Poller : CollectsAs(p)
    <3>1. CASE UNCHANGED poll
      BY <1>0, <3>1 DEF CollectsAs
    <3>2. CASE Polls(q, [NoPoll EXCEPT !.pc = "wait"])
      BY <1>0, <3>2, BegunType, PollsType DEF CollectsAs, NoPoll
    <3> QED
      BY <1>1, <3>1, <3>2 DEF GetMatrix, Polls
  <2>2. InOrder' /\ Restarted' /\ recorded' >= recorded
    BY <1>1, <2>1, QuietStep DEF GetMatrix, restarts
  <2>3. HealthTypeOK'
    BY <1>0, <1>1, <1>9, <2>1, StackKept DEF GetMatrix, NewPoll, MatrixInv, HealthTypeOK, restarts
  <2> QED
    BY <2>2, <2>3 DEF MatrixInv
<1>2. CASE ping_components(q)
  <2>1. Polls(q, [NoPoll EXCEPT !.pc = "wait", !.force = TRUE])
    BY <1>2 DEF ping_components, Polls
  <2>2. /\ poll' \in [Poller -> Poll] /\ \A p \in Poller : CollectsAs(p)
    BY <1>0, <2>1, BegunType, PollsType DEF CollectsAs, NoPoll
  <2>3. InOrder' /\ Restarted' /\ recorded' >= recorded
    BY <1>2, <2>2, QuietStep DEF ping_components, restarts
  <2>4. HealthTypeOK'
    BY <1>0, <1>2, <1>9, <2>2, StackKept, NoPollType
       DEF ping_components, NewPoll, MatrixInv, HealthTypeOK, restarts
  <2> QED
    BY <2>3, <2>4 DEF MatrixInv
<1>3. CASE run_all(q)
  <2>1. PICK status \in Status :
          Polls(q, [NoPoll EXCEPT !.pc = "database", !.all = TRUE, !.status = status])
    BY <1>3 DEF run_all, Polls, Status
  <2> DEFINE new == [NoPoll EXCEPT !.pc = "database", !.all = TRUE, !.status = status]
  <2>5. new \in Poll /\ new.pc = "database"
    BY BegunType DEF NoPoll
  <2>6. Polls(q, new)
    BY <2>1
  <2>7. /\ poll' \in [Poller -> Poll] /\ poll'[q].pc = "database"
        /\ \A p \in Poller \ {q} : poll'[p] = poll[p]
    <3> HIDE DEF new
    <3> QED
      BY <1>0, <2>5, <2>6, PollsType
  <2>2. /\ poll' \in [Poller -> Poll] /\ \A p \in Poller : CollectsAs(p)
    BY <2>7 DEF CollectsAs
  <2>3. InOrder' /\ Restarted' /\ recorded' >= recorded
    BY <1>3, <2>2, QuietStep DEF run_all, restarts
  <2>4. HealthTypeOK'
    BY <1>0, <1>3, <1>9, <2>2, StackKept DEF run_all, NewPoll, MatrixInv, HealthTypeOK, restarts
  <2> QED
    BY <2>3, <2>4 DEF MatrixInv
<1>4. CASE RecordDatabase(q)
  <2>1. [poll[q] EXCEPT !.pc = "ask"] \in Poll /\ [poll[q] EXCEPT !.pc = "ask"].pc = "ask"
    BY <1>0 DEF Poll
  <2>2. Polls(q, [poll[q] EXCEPT !.pc = "ask"])
    BY <1>4 DEF RecordDatabase, Polls
  <2>3. /\ poll' \in [Poller -> Poll] /\ \A p \in Poller : CollectsAs(p)
    BY <1>0, <2>1, <2>2, PollsType DEF CollectsAs
  <2>4. InOrder' /\ Restarted' /\ recorded' >= recorded
    BY <1>4, <2>3, QuietStep DEF RecordDatabase, restarts
  <2>5. last' \in [Check -> Status \cup {"none"}]
    BY <1>0, <1>4 DEF RecordDatabase, MatrixInv, HealthTypeOK, Poll
  <2>6. HealthTypeOK'
    BY <1>0, <1>4, <2>3, <2>5, StackKept DEF RecordDatabase, MatrixInv, HealthTypeOK, restarts
  <2> QED
    BY <2>4, <2>6 DEF MatrixInv
<1>5. CASE AskCache(q)
  <2>1. /\ poll' \in [Poller -> Poll] /\ (\A p \in Poller : CollectsAs(p))
        /\ last' \in [Check -> Status \cup {"none"}]
        /\ recorded' = recorded \/ (Fresh /\ recorded' = cache.round)
    <3>1. CASE Fresh /\ Serve(q, cache.aggregate, cache.round)
      BY <1>0, <3>1, ServeType DEF MatrixInv, CollectsAs
    <3>2. CASE poll' = [poll EXCEPT ![q].pc = "wait"] /\ UNCHANGED <<last, recorded>>
      <4>1. [poll[q] EXCEPT !.pc = "wait"] \in Poll /\ [poll[q] EXCEPT !.pc = "wait"].pc = "wait"
        BY <1>0 DEF Poll
      <4>2. Polls(q, [poll[q] EXCEPT !.pc = "wait"])
        BY <3>2 DEF Polls
      <4> QED
        BY <1>0, <3>2, <4>1, <4>2, PollsType DEF CollectsAs, MatrixInv, HealthTypeOK
    <3> QED
      BY <1>5, <3>1, <3>2 DEF AskCache
  <2>2. InOrder' /\ Restarted' /\ recorded' >= recorded
    BY <1>5, <2>1, QuietStep DEF AskCache, restarts
  <2>3. HealthTypeOK'
    BY <1>0, <1>5, <2>1, StackKept DEF AskCache, MatrixInv, HealthTypeOK, restarts
  <2> QED
    BY <2>2, <2>3 DEF MatrixInv
<1>6. CASE EnterGuard(q)
  <2>1. CASE Fresh /\ Serve(q, cache.aggregate, cache.round) /\ UNCHANGED <<guard, rounds>>
    <3>1. /\ poll' \in [Poller -> Poll] /\ (\A p \in Poller : CollectsAs(p))
          /\ last' \in [Check -> Status \cup {"none"}]
          /\ recorded' = recorded \/ (Fresh /\ recorded' = cache.round)
      BY <1>0, <2>1, ServeType DEF MatrixInv, CollectsAs
    <3>2. InOrder' /\ Restarted' /\ recorded' >= recorded
      BY <1>6, <2>1, <3>1, QuietStep DEF EnterGuard, restarts
    <3>3. HealthTypeOK'
      BY <1>0, <1>6, <2>1, <3>1, StackKept DEF EnterGuard, MatrixInv, HealthTypeOK, restarts
    <3> QED
      BY <3>2, <3>3 DEF MatrixInv
  <2>2. CASE Acquire(q) /\ UNCHANGED <<last, recorded>>
    <3> DEFINE new == [poll[q] EXCEPT !.pc = "collect", !.round = rounds + 1, !.cfg = config]
    <3>1. config \in ConfigEnv /\ rounds + 1 \in Nat
      BY <1>0 DEF StackTypeOK
    <3>2. new \in Poll /\ new.pc = "collect" /\ new.round = rounds + 1
      BY <1>0, <3>1 DEF Poll
    <3>3. Polls(q, new)
      BY <2>2 DEF Acquire, Polls
    <3>4. poll' \in [Poller -> Poll] /\ poll'[q] = new /\ \A p \in Poller \ {q} : poll'[p] = poll[p]
      <4> HIDE DEF new
      <4> QED
        BY <1>0, <3>2, <3>3, PollsType
    <3>5. guard = {} /\ guard' = {q} /\ rounds' = rounds + 1
      BY <2>2 DEF Acquire, GuardFree
    <3>6. \A p \in Poller \ {q} : poll'[p].pc \notin {"collect", "probe"}
      BY <3>4, <3>5 DEF MatrixInv, InOrder
    <3>7. UNCHANGED <<stackVars, cache, database, floor, overtaken, polls, last, recorded>>
      BY <1>6, <2>2 DEF EnterGuard, restarts
    <3>8. InOrder'
      <4>1. \A p \in Poller : poll'[p].pc \in {"collect", "probe"} =>
              guard' = {p} /\ poll'[p].round = rounds'
        BY <3>2, <3>4, <3>5, <3>6
      <4>2. recorded' <= rounds' /\ floor' <= rounds'
        BY <1>0, <3>5, <3>7 DEF MatrixInv, InOrder
      <4>3. cache'.has => recorded' <= cache'.round /\ cache'.round <= rounds'
        BY <1>0, <3>5, <3>7 DEF MatrixInv, InOrder
      <4> QED
        BY <4>1, <4>2, <4>3 DEF InOrder
    <3>9. Restarted'
      <4>1. rounds + 1 > floor
        BY <1>0 DEF MatrixInv, InOrder
      <4> QED
        BY <3>2, <3>4, <3>6, <3>7, <4>1 DEF MatrixInv, Restarted, SeesTheRestart
    <3>10. HealthTypeOK'
      BY <1>0, <3>1, <3>4, <3>5, <3>7, StackKept DEF MatrixInv, HealthTypeOK
    <3> QED
      BY <1>0, <3>7, <3>8, <3>9, <3>10 DEF MatrixInv
  <2> QED
    BY <1>6, <2>1, <2>2 DEF EnterGuard
<1>7. CASE Inspect(q)
  <2>1. PICK aggregate \in Status :
          poll' = [poll EXCEPT ![q].pc = "probe", ![q].cfg = NoConfig, ![q].aggregate = aggregate]
    BY <1>7, StatusType DEF Inspect
  <2> DEFINE new == [poll[q] EXCEPT !.pc = "probe", !.cfg = NoConfig, !.aggregate = aggregate]
  <2>2. new \in Poll /\ new.round = poll[q].round
    BY <1>0, NoRunType DEF Poll
  <2>3. Polls(q, new) /\ poll[q].pc = "collect"
    BY <1>7, <2>1 DEF Inspect, Polls
  <2>4. poll' \in [Poller -> Poll] /\ poll'[q] = new /\ \A p \in Poller \ {q} : poll'[p] = poll[p]
    <3> HIDE DEF new
    <3> QED
      BY <1>0, <2>2, <2>3, PollsType
  <2>5. \A p \in Poller : CollectsAs(p)
    BY <2>2, <2>3, <2>4 DEF CollectsAs
  <2>6. InOrder' /\ Restarted' /\ recorded' >= recorded
    BY <1>7, <2>5, QuietStep DEF Inspect, restarts
  <2>7. HealthTypeOK'
    BY <1>0, <1>7, <2>4, StackKept DEF Inspect, MatrixInv, HealthTypeOK, restarts
  <2> QED
    BY <2>6, <2>7 DEF MatrixInv
<1>8. CASE Store(q)
  <2>1. /\ poll[q].aggregate \in Status /\ poll[q].round \in Nat /\ poll[q].pc = "probe"
        /\ guard = {q} /\ poll[q].round = rounds
        /\ poll[q].round > floor \/ overtaken
    BY <1>0, <1>8 DEF Store, Poll, MatrixInv, InOrder, Restarted
  <2>2. /\ poll' \in [Poller -> Poll] /\ poll'[q].pc = "idle"
        /\ \A p \in Poller \ {q} : poll'[p] = poll[p]
        /\ last' \in [Check -> Status \cup {"none"}]
        /\ recorded' = recorded \/ recorded' = rounds
    BY <1>8, <2>1, ServeType DEF Store, MatrixInv
  <2>3. \A p \in Poller : poll'[p].pc \notin {"collect", "probe"}
    BY <2>1, <2>2 DEF MatrixInv, InOrder
  <2>4. cache' \in Matrix /\ cache'.round = rounds
    BY <1>8, <2>1 DEF Store, Matrix
  <2>5. UNCHANGED <<stackVars, database, rounds, floor, overtaken, polls>> /\ guard' = {}
    BY <1>8 DEF Store, restarts
  <2>6. InOrder' /\ recorded' >= recorded
    BY <1>0, <2>2, <2>3, <2>4, <2>5 DEF MatrixInv, InOrder
  <2>7. Restarted'
    BY <2>1, <2>3, <2>4, <2>5 DEF Restarted, SeesTheRestart
  <2>8. HealthTypeOK'
    BY <1>0, <2>2, <2>4, <2>5, StackKept DEF MatrixInv, HealthTypeOK
  <2> QED
    BY <2>6, <2>7, <2>8 DEF MatrixInv
<1> QED
  BY <1>1, <1>2, <1>3, <1>4, <1>5, <1>6, <1>7, <1>8

\* The rest of the program.
LEMMA HealthStep ==
  ASSUME MatrixInv, [HealthNext]_<<stackVars, healthVars>>
  PROVE  MatrixInv' /\ (recorded' >= recorded \/ HealthEnds)
<1>0. /\ StackTypeOK /\ recorded \in Nat /\ rounds \in Nat /\ floor \in Nat /\ cache \in Matrix
      /\ poll \in [Poller -> Poll]
  BY DEF MatrixInv, HealthTypeOK
<1>1. CASE StackStep /\ UNCHANGED healthVars
  <2>1. StackTypeOK'
    BY <1>0, <1>1, StackTypeStep DEF StackNext
  <2> QED
    BY <1>0, <1>1, <2>1
       DEF healthVars, MatrixInv, HealthTypeOK, InOrder, Restarted, SeesTheRestart
<1>2. ASSUME NEW q \in Poller,
             \/ GetMatrix(q) \/ ping_components(q) \/ run_all(q) \/ RecordDatabase(q)
             \/ AskCache(q) \/ EnterGuard(q) \/ Inspect(q) \/ Store(q)
      PROVE  MatrixInv' /\ recorded' >= recorded
  BY <1>2, PollerStep
<1>3. CASE Age
  <2>1. cache' = [cache EXCEPT !.fresh = FALSE] /\ cache' \in Matrix
    BY <1>0, <1>3 DEF Age, Matrix
  <2>2. InOrder' /\ Restarted' /\ recorded' >= recorded
    BY <1>3, <2>1, QuietStep DEF Age, CollectsAs, restarts
  <2>3. HealthTypeOK'
    BY <1>0, <1>3, <2>1, StackKept DEF Age, MatrixInv, HealthTypeOK, restarts
  <2> QED
    BY <2>2, <2>3 DEF MatrixInv
<1>4. CASE DatabaseTurns
  <2>1. StackTypeOK'
    BY <1>0, <1>4, TroubleType DEF DatabaseTurns, StackTypeOK, files, docker, process, histories
  <2>2. InOrder' /\ Restarted' /\ recorded' >= recorded
    BY <1>4, QuietStep DEF DatabaseTurns, CollectsAs, restarts
  <2>3. HealthTypeOK'
    BY <1>4, <2>1 DEF DatabaseTurns, MatrixInv, HealthTypeOK, restarts
  <2> QED
    BY <2>2, <2>3 DEF MatrixInv
<1>5. CASE HealthEnds
  <2>1. StackTypeOK'
    BY <1>0, <1>5, StackTypeStep DEF HealthEnds, StackNext
  <2>2. \A q \in Poller : poll'[q] = NoPoll /\ poll'[q].pc = "idle"
    BY <1>5, NoPollType DEF HealthEnds
  <2>3. /\ poll' \in [Poller -> Poll] /\ cache' \in Matrix /\ ~cache'.has /\ guard' = {}
        /\ recorded' = 0 /\ UNCHANGED <<database, rounds, floor, overtaken, polls>>
        /\ last' \in [Check -> Status \cup {"none"}]
    BY <1>5, NoPollType DEF HealthEnds, restarts
  <2>4. HealthTypeOK'
    BY <2>1, <2>3 DEF MatrixInv, HealthTypeOK
  <2>5. InOrder' /\ Restarted'
    BY <1>0, <2>2, <2>3 DEF MatrixInv, InOrder, Restarted, SeesTheRestart
  <2> QED
    BY <1>5, <2>4, <2>5 DEF MatrixInv
<1>6. ASSUME NEW c \in Container, restart_container(c) PROVE MatrixInv' /\ recorded' >= recorded
  <2>1. StackTypeOK'
    BY <1>0, <1>6, StackTypeStep DEF restart_container, StackNext, StackStep
  <2>2. /\ cache' \in Matrix /\ ~cache'.has /\ floor' = rounds /\ overtaken' = Collecting
        /\ UNCHANGED <<guard, poll, database, last, rounds, recorded, polls>>
    BY <1>6, NoPollType DEF restart_container, invalidate_system_health_cache
  <2>3. overtaken' \in BOOLEAN
    BY <2>2 DEF Collecting
  <2>4. HealthTypeOK'
    BY <1>0, <2>1, <2>2, <2>3 DEF MatrixInv, HealthTypeOK
  <2>5. InOrder'
    BY <1>0, <2>2 DEF MatrixInv, InOrder
  <2>6. Restarted'
    BY <2>2 DEF Restarted, SeesTheRestart, Collecting
  <2> QED
    BY <1>0, <2>2, <2>4, <2>5, <2>6 DEF MatrixInv
<1>7. ASSUME NEW r \in Runner, NEW by \in {"loop", "tray"}, compose_up_stack(r, by)
      PROVE  MatrixInv' /\ recorded' >= recorded
  <2>1. StackTypeOK'
    BY <1>0, <1>7, StackTypeStep DEF compose_up_stack, StackNext, StackStep
  <2>2. cache' = NoMatrix
    BY <1>7 DEF compose_up_stack, invalidate_system_health_cache
  <2>3. InOrder' /\ Restarted' /\ recorded' >= recorded
    BY <1>7, <2>2, QuietStep DEF compose_up_stack, CollectsAs, restarts
  <2>4. HealthTypeOK'
    BY <1>0, <1>7, <2>1, <2>2, NoPollType DEF compose_up_stack, MatrixInv, HealthTypeOK, restarts
  <2> QED
    BY <2>3, <2>4 DEF MatrixInv
<1>8. CASE UNCHANGED <<stackVars, healthVars>>
  BY <1>0, <1>8, StackKept
     DEF healthVars, MatrixInv, HealthTypeOK, InOrder, Restarted, SeesTheRestart
<1> QED
  BY <1>1, <1>2, <1>3, <1>4, <1>5, <1>6, <1>7, <1>8 DEF HealthNext

LEMMA MatrixInit == StackInit /\ HealthInit => MatrixInv
<1> SUFFICES ASSUME StackInit, HealthInit PROVE MatrixInv
  OBVIOUS
<1>1. poll \in [Poller -> Poll] /\ \A q \in Poller : poll[q].pc = "idle"
  BY NoPollType DEF HealthInit
<1>2. cache \in Matrix /\ ~cache.has
  BY NoPollType DEF HealthInit
<1>3. polls \in 0 .. MaxPolls
  BY PollsAssumption DEF HealthInit
<1>4. HealthTypeOK
  BY <1>1, <1>2, <1>3, StackTypeInit DEF HealthInit, HealthTypeOK
<1>5. InOrder /\ Restarted
  BY <1>1, <1>2 DEF HealthInit, InOrder, Restarted, SeesTheRestart
<1> QED
  BY <1>4, <1>5 DEF MatrixInv

LEMMA MatrixAlways == HealthSpec => []MatrixInv
<1>1. StackInit /\ HealthInit => MatrixInv
  BY MatrixInit
<1>2. MatrixInv /\ [HealthNext]_<<stackVars, healthVars>> => MatrixInv'
  BY HealthStep
<1> QED
  BY <1>1, <1>2, PTL DEF HealthSpec

\* The matrix, the guard and the requests keep their shapes beside the stack.
THEOREM HealthTypes == HealthSpec => []HealthTypeOK
<1>1. MatrixInv => HealthTypeOK
  BY DEF MatrixInv
<1> QED
  BY <1>1, MatrixAlways, PTL

\* After a restart the cache holds nothing that was asked of docker before it,
\* unless a collection was under way (restart_container,
\* invalidate_system_health_cache).
THEOREM RestartIsSeen == HealthSpec => []SeesTheRestart
<1>1. MatrixInv => SeesTheRestart
  BY DEF MatrixInv, Restarted
<1> QED
  BY <1>1, MatrixAlways, PTL

\* The registry never goes back to an older matrix, however the requests
\* overlap (collect_system_health, run_all).
THEOREM MatricesAdvance == HealthSpec => NoOlderMatrix
<1>1. MatrixInv /\ MatrixInv' /\ [HealthNext]_<<stackVars, healthVars>>
      => [recorded' # recorded => recorded' > recorded \/ HealthEnds]_<<stackVars, healthVars>>
  <2> SUFFICES ASSUME MatrixInv, MatrixInv', [HealthNext]_<<stackVars, healthVars>>,
                      recorded' # recorded
               PROVE  recorded' > recorded \/ HealthEnds
    OBVIOUS
  <2>1. recorded' >= recorded \/ HealthEnds
    BY HealthStep
  <2>2. recorded \in Nat /\ recorded' \in Nat
    BY DEF MatrixInv, HealthTypeOK
  <2> QED
    BY <2>1, <2>2
<1> QED
  BY <1>1, MatrixAlways, PTL DEF HealthSpec, NoOlderMatrix

(***************************************************************************)
(* The passwords and the key beside the health matrix.                     *)
(***************************************************************************)

\* Whatever the health does, to the stack it is a step of the stack: a
\* remediation is a container that starts or a run that begins.  Only the
\* database is not the stack's, and it turns at the cost of a trouble.
LEMMA HealthMovesStack ==
  ASSUME [HealthNext]_<<stackVars, healthVars>>
  PROVE  \/ [StackNext]_stackVars
         \/ Trouble /\ UNCHANGED <<files, docker, foreign, boot, process, minted, runs, histories>>
<1>1. ASSUME NEW q \in Poller,
             \/ GetMatrix(q) \/ ping_components(q) \/ run_all(q) \/ RecordDatabase(q)
             \/ AskCache(q) \/ EnterGuard(q) \/ Inspect(q) \/ Store(q)
      PROVE  UNCHANGED stackVars
  BY <1>1 DEF GetMatrix, ping_components, run_all, RecordDatabase, AskCache, EnterGuard, Inspect,
              Store
<1>2. Age => UNCHANGED stackVars
  BY DEF Age
<1>3. DatabaseTurns
      => Trouble /\ UNCHANGED <<files, docker, foreign, boot, process, minted, runs, histories>>
  BY DEF DatabaseTurns
<1>4. HealthEnds => StackNext
  BY DEF HealthEnds, StackNext
<1>5. ASSUME NEW c \in Container, restart_container(c) PROVE StackNext
  BY <1>5 DEF restart_container, StackNext, StackStep
<1>6. ASSUME NEW r \in Runner, NEW by \in {"loop", "tray"}, compose_up_stack(r, by) PROVE StackNext
  BY <1>6 DEF compose_up_stack, StackNext, StackStep
<1> QED
  BY <1>1, <1>2, <1>3, <1>4, <1>5, <1>6 DEF HealthNext, StackNext

\* The database turns: to the passwords and the key nothing happens.
LEMMA DatabaseHeld ==
  ASSUME PasswordInv, KeyInv,
         UNCHANGED <<files, docker, foreign, boot, process, minted, runs, histories>>
  PROVE  PasswordInv' /\ KeyInv'
<1>1. UNCHANGED <<config, secrets, wazuh, bouncer, machine, boot, starting, overlapped, clashed>>
  BY DEF files, docker, process, histories
<1>2. PasswordInv'
  BY <1>1 DEF PasswordInv, PasswordsAgree, Held, SeenByRun, HeldByRun
<1>3. KeyInv'
  BY <1>1 DEF KeyInv, KeyWorks, SoleRun, KeyOfRun, Underway
<1> QED
  BY <1>2, <1>3

LEMMA HeldBeside == HealthSpec => [](PasswordInv /\ KeyInv)
<1>1. StackInit => PasswordInv /\ KeyInv
  BY PasswordInit, KeyInit
<1>2. MatrixInv => StackTypeOK
  BY DEF MatrixInv, HealthTypeOK
<1>3. StackTypeOK /\ PasswordInv /\ KeyInv /\ [HealthNext]_<<stackVars, healthVars>>
      => PasswordInv' /\ KeyInv'
  BY HealthMovesStack, PasswordStep, KeyInvStep, DatabaseHeld
<1> QED
  BY <1>1, <1>2, <1>3, MatrixAlways, PTL DEF HealthSpec

\* The passwords agree also when the panel restarts containers and runs the
\* bootstrap as a remediation, unless two runs crossed (restart_container,
\* compose_up_stack).
THEOREM OnePasswordBeside == HealthSpec => []PasswordsAgree
<1>1. PasswordInv /\ KeyInv => PasswordsAgree
  BY DEF PasswordInv
<1> QED
  BY <1>1, HeldBeside, PTL

\* So does the key in config.env stay one that CrowdSec knows.
THEOREM KeyIsKnownBeside == HealthSpec => []KeyWorks
<1>1. PasswordInv /\ KeyInv => KeyWorks
  BY DEF KeyInv
<1> QED
  BY <1>1, HeldBeside, PTL

(***************************************************************************)
(* Each password is given once: the bootstrap, alone and beside the        *)
(* health, implements GivenPassword for both.                              *)
(***************************************************************************)

PasswordSteps ==
  [WazuhPassword!Next]_(WazuhPassword!vars) /\ [MachinePassword!Next]_(MachinePassword!vars)

\* Once two runs have crossed nothing is promised.
LEMMA CrossedSteps ==
  ASSUME clashed'
  PROVE  PasswordSteps
  BY DEF PasswordSteps, WazuhPassword!Next, MachinePassword!Next

\* What is written is what was there, or it is the first password.
LEMMA WritesGive ==
  ASSUME StackTypeOK', PasswordInv, ~clashed, ~clashed', clashed' = clashed, NEW r \in Runner,
         Writes(r)
  PROVE  PasswordSteps
<1>1. HeldByRun(r)
  BY DEF PasswordInv, Held
<1>2. /\ boot[r].pw # 0 /\ boot[r].mpw # 0
      /\ secrets.pw # 0 => boot[r].pw = secrets.pw
      /\ secrets.mpw # 0 => boot[r].mpw = secrets.mpw
      /\ config.pw # 0 => boot[r].pw = config.pw
      /\ config.mpw # 0 => boot[r].mpw = config.mpw
  BY <1>1 DEF HeldByRun, Writes
<1>3. secrets'.pw \in Nat /\ secrets'.mpw \in Nat
  BY DEF StackTypeOK, StackEnv
<1>4. UNCHANGED <<config, wazuh, machine>> /\ secrets'.pw = boot[r].pw /\ secrets'.mpw = boot[r].mpw
  BY DEF Writes
<1>5. [WazuhPassword!Next]_(WazuhPassword!vars)
  <2>1. CASE secrets.pw = 0
    BY <1>2, <1>3, <1>4, <2>1 DEF WazuhPassword!Next, WazuhPassword!Give
  <2>2. CASE secrets.pw # 0
    BY <1>2, <1>4, <2>2 DEF WazuhPassword!vars
  <2> QED
    BY <2>1, <2>2
<1>6. [MachinePassword!Next]_(MachinePassword!vars)
  <2>1. CASE secrets.mpw = 0
    BY <1>2, <1>3, <1>4, <2>1 DEF MachinePassword!Next, MachinePassword!Give
  <2>2. CASE secrets.mpw # 0
    BY <1>2, <1>4, <2>2 DEF MachinePassword!vars
  <2> QED
    BY <2>1, <2>2
<1> QED
  BY <1>5, <1>6 DEF PasswordSteps

\* Where stack.env stays, whoever takes a password over takes it from there.
LEMMA OthersTakeOver ==
  ASSUME PasswordInv, ~clashed, ~clashed', clashed' = clashed, UNCHANGED secrets, FilesKeep,
         wazuh'.pw = wazuh.pw \/ wazuh'.pw = secrets.pw,
         machine' = machine \/ machine' = secrets.mpw
  PROVE  PasswordSteps
<1>1. /\ secrets.pw = 0 => wazuh.pw = 0
      /\ secrets.mpw = 0 => machine = 0
  BY DEF PasswordInv, PasswordsAgree
<1>2. [WazuhPassword!Next]_(WazuhPassword!vars)
  <2>1. CASE secrets.pw = 0
    BY <1>1, <2>1 DEF FilesKeep, WazuhPassword!vars
  <2>2. CASE secrets.pw # 0
    BY <2>2 DEF FilesKeep, WazuhPassword!Next, WazuhPassword!TakeOver
  <2> QED
    BY <2>1, <2>2
<1>3. [MachinePassword!Next]_(MachinePassword!vars)
  <2>1. CASE secrets.mpw = 0
    BY <1>1, <2>1 DEF FilesKeep, MachinePassword!vars
  <2>2. CASE secrets.mpw # 0
    BY <2>2 DEF FilesKeep, MachinePassword!Next, MachinePassword!TakeOver
  <2> QED
    BY <2>1, <2>2
<1> QED
  BY <1>2, <1>3 DEF PasswordSteps

LEMMA PasswordsAreGiven ==
  ASSUME StackTypeOK, StackTypeOK', PasswordInv, [StackNext]_stackVars
  PROVE  PasswordSteps
<1>1. CASE clashed'
  BY <1>1, CrossedSteps
<1>2. CASE ~clashed'
  <2>1. ~clashed
    BY <1>2, ClashedStays
  <2>2. clashed' = clashed
    BY <1>2, <2>1 DEF StackTypeOK
  <2>3. Held
    BY <2>1 DEF PasswordInv
  <2>4. UNCHANGED config /\ UNCHANGED secrets => FilesKeep
    BY DEF FilesKeep
  <2>5. ASSUME NEW r \in Runner, KindOfStep(r) PROVE PasswordSteps
    <3>1. CASE Begins(r) \/ Reads(r) \/ Takes(r)
      BY <1>2, <2>1, <2>2, <2>4, <3>1, OthersTakeOver DEF Begins, Reads, Takes
    <3>2. CASE Writes(r)
      BY <1>2, <2>1, <2>2, <3>2, WritesGive
    <3>3. CASE Proceeds(r) \/ Leaves(r)
      <4>1. boot[r].pc = "machine" => boot[r].mpw = secrets.mpw
        BY <2>3 DEF Held, HeldByRun, After
      <4>2. machine' = machine \/ machine' = secrets.mpw
        BY <3>3, <4>1 DEF Proceeds, Leaves, MachineFollows
      <4> QED
        BY <1>2, <2>1, <2>2, <2>4, <3>3, <4>2, OthersTakeOver DEF Proceeds, Leaves
    <3>4. CASE Completes(r)
      <4>1. FilesKeep
        BY <2>1, <2>5, <3>4, CompletesHeld DEF KindOfStep
      <4> QED
        BY <1>2, <2>1, <2>2, <3>4, <4>1, OthersTakeOver DEF Completes
    <3> QED
      BY <2>5, <3>1, <3>2, <3>3, <3>4 DEF KindOfStep
  <2>6. CASE Around
    BY <1>2, <2>1, <2>2, <2>3, <2>4, <2>6, AroundStands, OthersTakeOver
  <2>7. CASE UNCHANGED stackVars
    BY <1>2, <2>1, <2>2, <2>4, <2>7, OthersTakeOver DEF stackVars
  <2> QED
    BY <2>5, <2>6, <2>7, StackSteps
<1> QED
  BY <1>1, <1>2

LEMMA NonePasswords == StackInit => WazuhPassword!Init /\ MachinePassword!Init
  BY DEF StackInit, NoConfig, NoSecrets, WazuhPassword!Init, MachinePassword!Init

\* A password, once in stack.env or config.env, is never replaced by a run,
\* whatever the run had read before it waited for docker, and the services
\* are set up with no other, up to the moment when two runs are between the
\* reading and the writing of stack.env (_write_stack_env, _merge_env_file).
THEOREM PasswordsGivenOnce == StackSpec => GivenOnce
<1>1. StackInit => PasswordInv
  BY PasswordInit
<1>2. StackTypeOK /\ StackTypeOK' /\ PasswordInv /\ [StackNext]_stackVars
      => PasswordInv' /\ PasswordSteps
  BY PasswordStep, PasswordsAreGiven
<1>3. PasswordSteps => /\ [WazuhPassword!Next]_(WazuhPassword!vars)
                       /\ [MachinePassword!Next]_(MachinePassword!vars)
  BY DEF PasswordSteps
<1> QED
  BY <1>1, <1>2, <1>3, NonePasswords, StackTypes, PTL
     DEF StackSpec, GivenOnce, WazuhPassword!Spec, MachinePassword!Spec

\* The database turns: the passwords stand.
LEMMA PasswordsStand ==
  ASSUME UNCHANGED <<files, docker, foreign, boot, process, minted, runs, histories>>
  PROVE  PasswordSteps
<1>1. UNCHANGED <<config, secrets, wazuh, machine, clashed>>
  BY DEF files, docker, histories
<1> QED
  BY <1>1 DEF PasswordSteps, WazuhPassword!vars, MachinePassword!vars

\* The same beside the health matrix and its remediations.
THEOREM PasswordsGivenOnceBeside == HealthSpec => GivenOnce
<1>1. MatrixInv => StackTypeOK
  BY DEF MatrixInv, HealthTypeOK
<1>2. StackTypeOK /\ StackTypeOK' /\ PasswordInv /\ [HealthNext]_<<stackVars, healthVars>>
      => PasswordSteps
  BY HealthMovesStack, PasswordsAreGiven, PasswordsStand
<1>3. PasswordSteps => /\ [WazuhPassword!Next]_(WazuhPassword!vars)
                       /\ [MachinePassword!Next]_(MachinePassword!vars)
  BY DEF PasswordSteps
<1> QED
  BY <1>1, <1>2, <1>3, NonePasswords, MatrixAlways, HeldBeside, PTL
     DEF HealthSpec, GivenOnce, WazuhPassword!Spec, MachinePassword!Spec

(***************************************************************************)
(* Until there is trouble, all runs choose one port, the first that no     *)
(* other program holds, or the default if all are held: as long as Wazuh   *)
(* does not run the probe finds no other, and when it runs, so does the    *)
(* whole stack, and docker ps says so, unless a run looked too early.      *)
(***************************************************************************)

IsHome(p) ==
  /\ p \in WazuhPort /\ \A q \in 1 .. p - 1 : q \in foreign
  /\ p \in foreign => p = 1 /\ WazuhPort \subseteq foreign

Homely(p) == p # 0 => IsHome(p)

\* The steps of a run for which the containers run.
Served == {"list", "delete", "add", "machine", "merge", "fill"}

WazuhRuns == box["wazuh"] = "running"
WazuhComes(r) == WazuhRuns \/ \E o \in starting : o.by = {r} /\ o.c = "wazuh"

\* What a run in progress holds, by the step it is at.
AtHome(r) ==
  /\ boot[r].pc = "port" => IsHome(boot[r].old)
  /\ boot[r].pc \in {"secrets", "write"} \cup After => IsHome(boot[r].port)
  /\ boot[r].pc \in After => secrets.port # 0
  /\ boot[r].pc \in After \ {"compose"} => compose # 0
  /\ boot[r].pc = "upping" => WazuhComes(r)
  /\ boot[r].pc \in Served => WazuhRuns
  /\ boot[r].pc = "fill" => Homely(boot[r].cfg.port)
  /\ boot[r].pc = "ok" => config.port # 0

\* Each place that holds a port came by it from the one before.
PortsAtHome ==
  /\ Homely(secrets.port) /\ Homely(compose) /\ Homely(config.port) /\ Homely(wazuh.port)
  /\ \A o \in starting : o.c = "wazuh" => IsHome(o.port) /\ compose # 0
  /\ compose # 0 => secrets.port # 0
  /\ wazuh.port # 0 => compose # 0
  /\ WazuhRuns <=> wazuh.port # 0
  /\ config.port # 0 => WazuhRuns
  /\ \A c \in Container : box[c] # "stopped"

Peace == PortsAtHome /\ \A r \in Runner : AtHome(r)

PeaceInv == trouble = MaxTrouble /\ ~peeked => Peace

LEMMA OneHome ==
  ASSUME NEW p, NEW q, IsHome(p), IsHome(q)
  PROVE  p = q
<1>1. p \in Nat /\ q \in Nat /\ 1 <= p /\ 1 <= q /\ p <= Ports /\ q <= Ports
  BY PortsAssumption DEF IsHome, WazuhPort
<1>2. ASSUME p < q PROVE FALSE
  <2>1. p \in foreign
    BY <1>1, <1>2 DEF IsHome
  <2>2. q \in foreign
    BY <2>1 DEF IsHome
  <2> QED
    BY <1>1, <1>2, <2>2 DEF IsHome
<1>3. ASSUME q < p PROVE FALSE
  <2>1. q \in foreign
    BY <1>1, <1>3 DEF IsHome
  <2>2. p \in foreign
    BY <2>1 DEF IsHome
  <2> QED
    BY <1>1, <1>3, <2>2 DEF IsHome
<1> QED
  BY <1>1, <1>2, <1>3

LEMMA HomeIsPort == \A p : IsHome(p) => p # 0 /\ p \in 0 .. Ports
  BY PortsAssumption DEF IsHome, WazuhPort

LEMMA FreeIsHome ==
  ASSUME ~WazuhRuns
  PROVE  IsHome(FirstFree)
  BY FirstFreeIs DEF IsHome, HostPortBusy, WazuhRuns

LEMMA HomeStays ==
  ASSUME UNCHANGED foreign
  PROVE  /\ \A p : IsHome(p) => IsHome(p)'
         /\ \A p : Homely(p) => Homely(p)'
  BY DEF IsHome, Homely

\* Nothing goes back for the other runs.
Onward(r) ==
  /\ UNCHANGED foreign
  /\ secrets.port # 0 => secrets'.port # 0
  /\ compose # 0 => compose' # 0
  /\ config.port # 0 => config'.port # 0
  /\ WazuhRuns => WazuhRuns'
  /\ \A q \in Runner \ {r} : WazuhComes(q) => WazuhComes(q)'

LEMMA OthersAtHome ==
  ASSUME Peace, NEW r \in Runner, \A q \in Runner \ {r} : boot'[q] = boot[q], Onward(r), AtHome(r)'
  PROVE  \A q \in Runner : AtHome(q)'
<1> SUFFICES ASSUME NEW q \in Runner \ {r} PROVE AtHome(q)'
  OBVIOUS
<1>1. AtHome(q) /\ boot'[q] = boot[q]
  BY DEF Peace
<1> QED
  BY <1>1, HomeStays DEF AtHome, Onward

\* Where only the run moves.
LEMMA PeaceMoves ==
  ASSUME Peace, NEW r \in Runner, \A q \in Runner \ {r} : boot'[q] = boot[q],
         UNCHANGED <<files, box, wazuh, foreign, starting>>, AtHome(r)'
  PROVE  Peace'
<1>1. UNCHANGED <<config, secrets, compose, box, wazuh, foreign, starting>>
  BY DEF files
<1>2. Onward(r)
  BY <1>1 DEF Onward, WazuhRuns, WazuhComes
<1>3. \A q \in Runner : AtHome(q)'
  BY <1>2, OthersAtHome
<1>4. PortsAtHome'
  BY <1>1, HomeStays DEF Peace, PortsAtHome, WazuhRuns
<1> QED
  BY <1>3, <1>4 DEF Peace

\* A run goes on with the port it has.
LEMMA PeaceGoes ==
  ASSUME StackTypeOK, Peace, NEW r \in Runner, NEW pc \in After \ {"fill", "upping"}, NEW cfg, NEW key,
         Becomes(r, boot[r].by, pc, cfg, boot[r].old, boot[r].port, boot[r].pw, boot[r].mpw, key),
         boot[r].pc \in After \ {"compose"}, pc \in Served => WazuhRuns,
         UNCHANGED <<files, box, wazuh, foreign, starting>>
  PROVE  Peace'
<1>1. boot'[r].pc = pc /\ boot'[r].port = boot[r].port /\ \A q \in Runner \ {r} : boot'[q] = boot[q]
  BY DEF Becomes, IsRun
<1>2. IsHome(boot[r].port) /\ secrets.port # 0 /\ compose # 0
  BY DEF Peace, AtHome
<1>3. UNCHANGED <<secrets, compose, box, foreign>>
  BY DEF files
<1>4. AtHome(r)'
  BY <1>1, <1>2, <1>3, HomeStays DEF AtHome, WazuhRuns, After, Served
<1> QED
  BY <1>1, <1>4, PeaceMoves

\* A run is over.
LEMMA PeaceEnds ==
  ASSUME StackTypeOK, Peace, NEW r \in Runner, NEW pc \in {"failed", "ok"}, Finish(r, pc),
         pc = "ok" => config.port # 0,
         UNCHANGED <<files, box, wazuh, foreign, starting>>
  PROVE  Peace'
<1>1. boot'[r].pc = pc /\ \A q \in Runner \ {r} : boot'[q] = boot[q]
  BY EndStep, Places DEF Ends, Becomes, IsRun
<1>2. AtHome(r)'
  BY <1>1 DEF AtHome, After, Served, files
<1> QED
  BY <1>1, <1>2, PeaceMoves

\* A run takes a port: it is home.
LEMMA PeaceTakes ==
  ASSUME StackTypeOK, Peace, NEW r \in Runner, NEW pc \in {"secrets", "write"}, boot'[r].pc = pc,
         \A q \in Runner \ {r} : boot'[q] = boot[q], IsHome(boot'[r].port),
         UNCHANGED <<files, box, wazuh, foreign, starting>>
  PROVE  Peace'
<1>1. IsHome(boot[r].port)'
  BY DEF IsHome
<1>2. AtHome(r)'
  BY <1>1 DEF AtHome, After, Served
<1> QED
  BY <1>2, PeaceMoves

LEMMA PeaceDocker ==
  ASSUME StackTypeOK, Peace, NEW r \in Runner, StepDocker(r)
  PROVE  Peace'
<1>0. UNCHANGED <<files, box, wazuh, foreign, starting>> /\ PortsAtHome
  BY DEF StepDocker, docker, process, Peace
<1>1. CASE PortKnown
  <2>1. IsHome(KnownPort)
    <3>1. CASE config.port # 0 \/ secrets.port # 0
      BY <1>0, <3>1 DEF KnownPort, PortsAtHome, Homely
    <3>2. CASE config.port = 0 /\ secrets.port = 0
      BY <1>0, <3>2, FreeIsHome DEF KnownPort, PortsAtHome
    <3> QED
      BY <3>1, <3>2
  <2>2. /\ boot'[r].pc = "secrets" /\ boot'[r].port = KnownPort
        /\ \A q \in Runner \ {r} : boot'[q] = boot[q]
    BY <1>1, DockerStep DEF Becomes, IsRun
  <2> QED
    BY <1>0, <2>1, <2>2, PeaceTakes
<1>2. CASE ~PortKnown
  <2>1. /\ boot'[r].pc = "port" /\ boot'[r].old = secrets.port
        /\ \A q \in Runner \ {r} : boot'[q] = boot[q]
    BY <1>2, DockerStep DEF Becomes, IsRun
  <2>2. IsHome(boot'[r].old)
    BY <1>0, <1>2, <2>1 DEF PortKnown, PortsAtHome, Homely
  <2>3. IsHome(boot[r].old)'
    BY <1>0, <2>2 DEF IsHome
  <2>4. AtHome(r)'
    BY <2>1, <2>3 DEF AtHome, After, Served
  <2> QED
    BY <1>0, <2>1, <2>4, PeaceMoves
<1> QED
  BY <1>1, <1>2

LEMMA PeacePort ==
  ASSUME StackTypeOK, Peace, NEW r \in Runner, ResolvePort(r), ~Trouble, ~peeked'
  PROVE  Peace'
<1>1. UNCHANGED <<files, box, wazuh, foreign, starting>> /\ boot[r].pc = "port"
  BY DEF ResolvePort, docker, process
<1>2. PICK port \in 0 .. Ports : ToSecrets(r, port) /\ IsHome(port)
  <2>1. CASE ToSecrets(r, boot[r].old)
    BY <1>1, <2>1, RunType DEF Peace, AtHome
  <2>2. CASE ToSecrets(r, FirstFree) /\ ~WazuhRuns
    BY <2>2, FreeIsHome, KnownPortType
  <2> QED
    BY <2>1, <2>2 DEF ResolvePort, WazuhRuns
<1>3. /\ boot'[r].pc = "secrets" /\ boot'[r].port = port
      /\ \A q \in Runner \ {r} : boot'[q] = boot[q]
  BY <1>2, PortStep DEF Becomes, IsRun
<1> QED
  BY <1>1, <1>2, <1>3, PeaceTakes

LEMMA PeaceReads ==
  ASSUME StackTypeOK, Peace, NEW r \in Runner, ReadSecrets(r)
  PROVE  Peace'
<1>1. /\ boot'[r].pc = "write" /\ boot'[r].port = boot[r].port
      /\ \A q \in Runner \ {r} : boot'[q] = boot[q]
  BY ReadStep DEF Becomes, IsRun
<1>2. IsHome(boot[r].port)
  BY DEF Peace, AtHome, ReadSecrets
<1> QED
  BY <1>1, <1>2, PeaceTakes DEF ReadSecrets, docker, process

LEMMA PeaceWrites ==
  ASSUME StackTypeOK, Peace, NEW r \in Runner, WriteSecrets(r) \/ WriteCompose(r)
  PROVE  Peace'
<1>1. UNCHANGED <<config, box, wazuh, foreign, starting>>
  BY DEF WriteSecrets, WriteCompose, docker, process
<1>2. PICK pc \in {"compose", "filebeat"} : GoesTo(r, pc) /\ (pc = "compose" <=> WriteSecrets(r))
  BY Going, Places DEF WriteSecrets, WriteCompose
<1>3. boot'[r].pc = pc /\ boot'[r].port = boot[r].port /\ \A q \in Runner \ {r} : boot'[q] = boot[q]
  BY <1>2 DEF GoesTo, Becomes, IsRun
<1>4. IsHome(boot[r].port) /\ boot[r].port # 0
  BY HomeIsPort DEF Peace, AtHome, After, WriteSecrets, WriteCompose
<1>5. /\ pc = "compose" => secrets'.port = boot[r].port /\ compose' = compose
      /\ pc = "filebeat" => secrets' = secrets /\ compose' = boot[r].port /\ secrets.port # 0
  BY <1>2 DEF WriteSecrets, WriteCompose, Peace, AtHome, After
<1>6. AtHome(r)'
  BY <1>1, <1>3, <1>4, <1>5, HomeStays DEF AtHome, After, Served
<1>7. Onward(r)
  BY <1>1, <1>4, <1>5 DEF Onward, WazuhRuns, WazuhComes
<1>8. PortsAtHome'
  BY <1>1, <1>4, <1>5, HomeStays DEF Peace, PortsAtHome, Homely, WazuhRuns
<1> QED
  BY <1>3, <1>6, <1>7, <1>8, OthersAtHome DEF Peace

LEMMA PeaceStarts ==
  ASSUME StackTypeOK, Peace, NEW r \in Runner, ComposeStart(r)
  PROVE  Peace'
<1>1. UNCHANGED <<files, box, wazuh, foreign>>
  BY DEF ComposeStart, docker
<1>2. GoesTo(r, "upping") /\ boot[r].pc = "up"
  BY Going, Places DEF ComposeStart
<1>3. boot'[r].pc = "upping" /\ boot'[r].port = boot[r].port /\ \A q \in Runner \ {r} : boot'[q] = boot[q]
  BY <1>2 DEF GoesTo, Becomes, IsRun
<1>4. IsHome(boot[r].port) /\ secrets.port # 0 /\ compose # 0 /\ Homely(compose)
  BY <1>2 DEF Peace, AtHome, After, PortsAtHome
<1>5. \A o \in starting' : o \in starting \/ (o.c = "wazuh" => o.port = compose)
  BY DEF ComposeStart
<1>6. \E o \in starting' : o.by = {r} /\ o.c = "wazuh"
  <2> DEFINE order(c) == [by |-> {r}, c |-> c, pw |-> IF c = "wazuh" THEN secrets.pw ELSE 0,
                          port |-> IF c = "wazuh" THEN compose ELSE 0]
  <2>1. order("wazuh") \in starting'
    BY Places DEF ComposeStart
  <2>2. order("wazuh").by = {r} /\ order("wazuh").c = "wazuh"
    OBVIOUS
  <2> QED
    BY <2>1, <2>2
<1>7. starting \subseteq starting'
  BY DEF ComposeStart
<1>8. AtHome(r)'
  BY <1>1, <1>3, <1>4, <1>6, HomeStays DEF AtHome, After, Served, WazuhComes, files
<1>9. Onward(r)
  BY <1>1, <1>7 DEF Onward, WazuhRuns, WazuhComes, files
<1>10. PortsAtHome'
  BY <1>1, <1>4, <1>5, HomeStays DEF Peace, PortsAtHome, Homely, WazuhRuns, files
<1> QED
  BY <1>3, <1>8, <1>9, <1>10, OthersAtHome DEF Peace

LEMMA PeaceRefused ==
  ASSUME StackTypeOK, Peace, NEW r \in Runner, ComposeUpFails(r), ~Trouble
  PROVE  Peace'
<1>1. UNCHANGED <<files, box, wazuh, foreign>> /\ starting' = Orphaned(OrdersOf(r))
  BY DEF ComposeUpFails, docker
<1>2. boot'[r].pc = "failed" /\ \A q \in Runner \ {r} : boot'[q] = boot[q]
  BY EndStep, Places DEF ComposeUpFails, Ends, Becomes, IsRun
<1>3. \A o \in starting : [o EXCEPT !.by = {}].c = o.c /\ [o EXCEPT !.by = {}].port = o.port
  BY DEF StackTypeOK, Order
<1>4. \A o \in starting' : \E p \in starting : o.c = p.c /\ o.port = p.port
  BY <1>1, <1>3 DEF Orphaned, OrdersOf
<1>5. \A o \in starting : o.by # {r} => o \in starting'
  BY <1>1 DEF Orphaned, OrdersOf
<1>6. AtHome(r)'
  BY <1>2 DEF AtHome, After, Served
<1>7. Onward(r)
  BY <1>1, <1>5 DEF Onward, WazuhRuns, WazuhComes, files
<1>8. PortsAtHome'
  BY <1>1, <1>4, HomeStays DEF Peace, PortsAtHome, WazuhRuns, files
<1> QED
  BY <1>2, <1>6, <1>7, <1>8, OthersAtHome DEF Peace

\* A container comes up: wazuh does so at home.
LEMMA PeaceUp ==
  ASSUME StackTypeOK, Peace, NEW o \in starting, ContainerUp(o)
  PROVE  Peace'
<1>1. UNCHANGED <<files, foreign, boot>> /\ starting' = starting \ {o} /\ o.c \in Container
  BY DEF ContainerUp, StackTypeOK, Order
<1>2. \A c \in Container : box'[c] # "stopped" /\ (WazuhRuns' <=> WazuhRuns \/ o.c = "wazuh")
  BY <1>1, Places DEF ContainerUp, StackTypeOK, Peace, PortsAtHome, WazuhRuns
<1>3. \A q \in Runner : WazuhComes(q) => WazuhComes(q)'
  BY <1>1, <1>2, Places DEF WazuhComes
<1>4. \A q \in Runner : AtHome(q)'
  BY <1>1, <1>2, <1>3, Places, HomeStays DEF Peace, AtHome, files
<1>5. PortsAtHome'
  <2>1. CASE o.c = "wazuh"
    <3>1. wazuh'.port = o.port /\ IsHome(o.port) /\ o.port # 0 /\ compose # 0
      BY <2>1, HomeIsPort DEF ContainerUp, Peace, PortsAtHome
    <3> QED
      BY <1>1, <1>2, <2>1, <3>1, Places, HomeStays DEF Peace, PortsAtHome, Homely, files
  <2>2. CASE o.c # "wazuh"
    <3>1. wazuh' = wazuh
      BY <2>2 DEF ContainerUp
    <3> QED
      BY <1>1, <1>2, <2>2, <3>1, Places, HomeStays DEF Peace, PortsAtHome, files
  <2> QED
    BY <2>1, <2>2
<1> QED
  BY <1>4, <1>5 DEF Peace

LEMMA PeaceMerges ==
  ASSUME StackTypeOK, Peace, NEW r \in Runner, ReadConfig(r) \/ FillConfig(r)
  PROVE  Peace'
<1>1. CASE ReadConfig(r)
  <2>1. UNCHANGED <<files, box, wazuh, foreign, starting>> /\ boot[r].pc = "merge"
    BY <1>1 DEF ReadConfig, docker, process
  <2>2. CASE Complete(config) /\ Finish(r, "ok")
    <3>1. config.port # 0
      BY <2>2 DEF Complete, StackTypeOK, ConfigEnv
    <3> QED
      BY <2>1, <2>2, <3>1, PeaceEnds
  <2>3. CASE boot' = [boot EXCEPT ![r].pc = "fill", ![r].cfg = config]
    <3>1. /\ boot'[r].pc = "fill" /\ boot'[r].port = boot[r].port /\ boot'[r].cfg = config
          /\ \A q \in Runner \ {r} : boot'[q] = boot[q]
      BY <2>3, SeenStep DEF Becomes, IsRun
    <3>2. /\ IsHome(boot[r].port) /\ secrets.port # 0 /\ compose # 0 /\ WazuhRuns
          /\ Homely(config.port)
      BY <2>1 DEF Peace, AtHome, After, Served, PortsAtHome
    <3>3. AtHome(r)'
      BY <2>1, <3>1, <3>2, HomeStays DEF AtHome, After, Served, WazuhRuns, files
    <3> QED
      BY <2>1, <3>1, <3>3, PeaceMoves
  <2> QED
    BY <1>1, <2>2, <2>3 DEF ReadConfig
<1>2. CASE FillConfig(r)
  <2>1. UNCHANGED <<secrets, compose, box, wazuh, foreign, starting>> /\ boot[r].pc = "fill"
    BY <1>2 DEF FillConfig, docker, process
  <2>2. IsHome(boot[r].port) /\ Homely(boot[r].cfg.port) /\ WazuhRuns
    BY <2>1 DEF Peace, AtHome, After, Served
  <2>3. IsHome(config'.port) /\ config'.port # 0
    BY <1>2, <2>2, FillStep, HomeIsPort DEF Homely
  <2>4. boot'[r].pc = "ok" /\ \A q \in Runner \ {r} : boot'[q] = boot[q]
    BY <1>2, FillStep DEF Ends, Becomes, IsRun
  <2>5. AtHome(r)'
    BY <2>3, <2>4 DEF AtHome, After, Served
  <2>6. Onward(r)
    BY <2>1, <2>3 DEF Onward, WazuhRuns, WazuhComes
  <2>7. IsHome(config.port)'
    BY <2>1, <2>3 DEF IsHome
  <2>8. PortsAtHome'
    BY <2>1, <2>2, <2>7, HomeStays DEF Peace, PortsAtHome, Homely, WazuhRuns
  <2> QED
    BY <2>4, <2>5, <2>6, <2>8, OthersAtHome DEF Peace
<1> QED
  BY <1>1, <1>2

\* The credentials come once the containers run.
LEMMA PeaceCredentials ==
  ASSUME StackTypeOK, Peace, NEW r \in Runner, ToCredentials(r), boot[r].pc \in {"busy", "upping"},
         WazuhRuns, UNCHANGED <<files, box, wazuh, foreign, starting>>
  PROVE  Peace'
<1>1. PICK pc \in {"machine", "list"} :
        Becomes(r, boot[r].by, pc, boot[r].cfg, boot[r].old, boot[r].port, boot[r].pw,
                boot[r].mpw, boot[r].cfg.key)
  BY CredentialsStep
<1> QED
  BY <1>1, PeaceGoes DEF After

LEMMA PeaceOfRun ==
  ASSUME StackTypeOK, Peace, NEW r \in Runner, ~Trouble, ~peeked',
         BootstrapStep(r) \/ \E by \in {"loop", "tray"} : RunBootstrap(r, by)
  PROVE  Peace'
<1>0. \A pc \in {"busy", "up", "delete", "add", "machine", "merge"} :
        boot' = [boot EXCEPT ![r].pc = pc]
          => Becomes(r, boot[r].by, pc, boot[r].cfg, boot[r].old, boot[r].port, boot[r].pw,
                     boot[r].mpw, boot[r].key)
  BY Going, Places DEF GoesTo
<1>1. ASSUME NEW by \in {"loop", "tray"}, RunBootstrap(r, by) PROVE Peace'
  <2>1. boot'[r].pc = "docker" /\ \A q \in Runner \ {r} : boot'[q] = boot[q]
    BY <1>1, BeginStep DEF Becomes, IsRun
  <2>2. AtHome(r)'
    BY <2>1 DEF AtHome, After, Served
  <2> QED
    BY <1>1, <2>1, <2>2, PeaceMoves DEF RunBootstrap, docker
<1>2. CASE StepDocker(r) \/ ResolvePort(r) \/ ReadSecrets(r)
  BY <1>2, PeaceDocker, PeacePort, PeaceReads
<1>3. CASE WriteSecrets(r) \/ WriteCompose(r) \/ ComposeStart(r) \/ ComposeUpFails(r)
  BY <1>3, PeaceWrites, PeaceStarts, PeaceRefused
<1>4. CASE ReadConfig(r) \/ FillConfig(r)
  BY <1>4, PeaceMerges
<1>5. CASE StepFilebeat(r)
  <2>1. PICK pc \in {"busy", "up"} : boot' = [boot EXCEPT ![r].pc = pc]
    BY <1>5 DEF StepFilebeat
  <2> QED
    BY <1>0, <1>5, <2>1, PeaceGoes DEF StepFilebeat, After, Served, process
<1>6. CASE StepAlreadyRunning(r)
  <2>1. UNCHANGED <<files, box, wazuh, foreign, starting>> /\ boot[r].pc = "busy"
    BY <1>6 DEF StepAlreadyRunning, docker, process
  <2>2. AllRunning => WazuhRuns
    BY Places DEF AllRunning, WazuhRuns
  <2> QED
    BY <1>6, <2>1, <2>2, PeaceCredentials, PeaceEnds DEF StepAlreadyRunning
<1>7. CASE ComposeDone(r)
  <2>1. UNCHANGED <<files, box, wazuh, foreign, starting>> /\ boot[r].pc = "upping"
    BY <1>7 DEF ComposeDone, docker, process
  <2>2. WazuhRuns
    BY <1>7, <2>1 DEF ComposeDone, OrdersOf, Peace, AtHome, WazuhComes
  <2> QED
    BY <1>7, <2>1, <2>2, PeaceCredentials DEF ComposeDone
<1>8. boot[r].pc \in Served => WazuhRuns
  BY DEF Peace, AtHome
<1>9. CASE ListBouncers(r)
  <2>1. PICK pc \in {"delete", "add"} : boot' = [boot EXCEPT ![r].pc = pc]
    BY <1>9 DEF ListBouncers
  <2> QED
    BY <1>0, <1>8, <1>9, <2>1, PeaceGoes DEF ListBouncers, After, Served, docker, process
<1>10. CASE DeleteBouncer(r)
  <2>1. UNCHANGED <<files, box, wazuh, foreign, starting>> /\ boot[r].pc = "delete"
    BY <1>10 DEF DeleteBouncer, process
  <2>2. boot' = [boot EXCEPT ![r].pc = "add"] \/ Finish(r, "failed")
    BY <1>10 DEF DeleteBouncer
  <2> QED
    BY <1>0, <1>8, <2>1, <2>2, PeaceGoes, PeaceEnds DEF After, Served
<1>11. CASE AddBouncer(r)
  <2>1. UNCHANGED <<files, box, wazuh, foreign, starting>> /\ boot[r].pc = "add"
    BY <1>11 DEF AddBouncer, process
  <2>2. CASE boot' = [boot EXCEPT ![r].pc = "machine", ![r].key = minted + 1]
    <3>1. minted + 1 \in Nat /\ "machine" \in Step
      BY DEF StackTypeOK, Step
    <3>2. Becomes(r, boot[r].by, "machine", boot[r].cfg, boot[r].old, boot[r].port, boot[r].pw,
                  boot[r].mpw, minted + 1)
      BY <2>2, <3>1, KeyTaken
    <3> QED
      BY <1>8, <2>1, <3>2, PeaceGoes DEF After, Served
  <2> QED
    BY <1>11, <2>1, <2>2, PeaceEnds DEF AddBouncer
<1>12. CASE AddMachine(r)
  BY <1>0, <1>8, <1>12, PeaceGoes DEF AddMachine, After, Served, process
<1>13. CASE StepFails(r)
  BY <1>13, PeaceEnds DEF StepFails, process
<1> QED
  BY <1>1, <1>2, <1>3, <1>4, <1>5, <1>6, <1>7, <1>9, <1>10, <1>11, <1>12, <1>13 DEF BootstrapStep

LEMMA PeaceInit == StackInit => PeaceInv
<1> SUFFICES ASSUME StackInit PROVE Peace
  BY DEF PeaceInv
<1>1. \A r \in Runner : boot[r].pc = "idle"
  BY NoRunType DEF StackInit
<1>2. config.port = 0
  BY NoRunType DEF StackInit, NoConfig
<1>3. PortsAtHome
  BY <1>2, Places DEF StackInit, NoSecrets, PortsAtHome, Homely, WazuhRuns
<1> QED
  BY <1>1, <1>3 DEF Peace, AtHome, After, Served

LEMMA PeaceStep == StackTypeOK /\ StackTypeOK' /\ PeaceInv /\ [StackNext]_stackVars => PeaceInv'
<1> SUFFICES ASSUME StackTypeOK, StackTypeOK', PeaceInv, [StackNext]_stackVars,
                    trouble' = MaxTrouble, ~peeked'
             PROVE  Peace'
  BY DEF PeaceInv
<1>1. ~Trouble
  BY StackBoundAssumption DEF StackTypeOK, Trouble
<1>2. ASSUME UNCHANGED <<trouble, peeked>> PROVE Peace
  BY <1>2 DEF PeaceInv
<1>3. ASSUME NEW r \in Runner,
             BootstrapStep(r) \/ \E by \in {"loop", "tray"} : RunBootstrap(r, by)
      PROVE  Peace'
  <2>1. trouble' = trouble
    BY <1>1, <1>3
       DEF BootstrapStep, RunBootstrap, StepDocker, ResolvePort, ReadSecrets, WriteSecrets,
           WriteCompose, StepFilebeat, StepAlreadyRunning, ComposeStart, ComposeDone,
           ComposeUpFails, ListBouncers, DeleteBouncer, AddBouncer, AddMachine, ReadConfig,
           FillConfig, StepFails
  <2>2. peeked => peeked'
    <3>1. CASE ResolvePort(r)
      BY <1>1, <3>1 DEF ResolvePort
    <3>2. CASE ~ResolvePort(r)
      <4>1. peeked' = peeked
        BY <1>3, <3>2
           DEF BootstrapStep, RunBootstrap, StepDocker, ReadSecrets, WriteSecrets,
               WriteCompose, StepFilebeat, StepAlreadyRunning, ComposeStart, ComposeDone,
               ComposeUpFails, ListBouncers, DeleteBouncer, AddBouncer, AddMachine, ReadConfig,
               FillConfig, StepFails, histories
      <4> QED
        BY <4>1
    <3> QED
      BY <3>1, <3>2
  <2>3. Peace
    BY <2>1, <2>2 DEF PeaceInv
  <2> QED
    BY <1>1, <1>3, <2>3, PeaceOfRun
<1>4. ASSUME NEW o \in starting, ContainerUp(o) PROVE Peace'
  BY <1>2, <1>4, PeaceUp DEF ContainerUp, histories
<1>5. ASSUME NEW c \in Container, ContainerStarts(c) PROVE FALSE
  BY <1>2, <1>5 DEF ContainerStarts, histories, Peace, PortsAtHome
<1>6. CASE UNCHANGED stackVars
  <2>1. UNCHANGED <<config, secrets, compose, box, wazuh, foreign, starting, boot, trouble, peeked>>
    BY <1>6 DEF stackVars, histories
  <2>2. Peace
    BY <1>2, <2>1
  <2> QED
    BY <2>1, <2>2, HomeStays DEF Peace, PortsAtHome, AtHome, WazuhRuns, WazuhComes
<1> QED
  BY <1>1, <1>3, <1>4, <1>5, <1>6 DEF StackNext, StackStep, ServerEnds, ContainerStops, PortTaken

LEMMA PeaceIsActual == PeaceInv => UrlWorks
<1> SUFFICES ASSUME Peace, config.port # 0 \/ \E r \in Runner : boot[r].pc = "ok"
             PROVE  box["wazuh"] = "running" /\ config.port = wazuh.port
  BY DEF PeaceInv, UrlWorks
<1>1. config.port # 0
  BY DEF Peace, AtHome
<1>2. box["wazuh"] = "running" /\ IsHome(config.port) /\ IsHome(wazuh.port)
  BY <1>1 DEF Peace, PortsAtHome, Homely, WazuhRuns
<1> QED
  BY <1>2, OneHome

\* Until something goes wrong, the address in config.env is one Wazuh listens
\* on, for any number of candidate ports, of which other programs may hold any,
\* and of runs, which may overlap, unless one chose its port while the stack
\* was coming up (_resolve_wazuh_api_port, _step_compose_up).
THEOREM UrlIsRight == StackSpec => []UrlWorks
  BY PeaceInit, PeaceStep, PeaceIsActual, StackTypes, PTL DEF StackSpec

\* So it is when the panel starts containers and runs of the bootstrap.
THEOREM UrlIsRightBeside == HealthSpec => []UrlWorks
<1>1. StackTypeOK /\ StackTypeOK' /\ PeaceInv /\ [HealthNext]_<<stackVars, healthVars>> => PeaceInv'
  <2> SUFFICES ASSUME StackTypeOK, StackTypeOK', PeaceInv, [HealthNext]_<<stackVars, healthVars>>
               PROVE  PeaceInv'
    OBVIOUS
  <2>1. CASE [StackNext]_stackVars
    BY <2>1, PeaceStep
  <2>2. CASE Trouble
    BY <2>2, StackBoundAssumption DEF StackTypeOK, Trouble, PeaceInv
  <2> QED
    BY <2>1, <2>2, HealthMovesStack
<1>2. MatrixInv => StackTypeOK
  BY DEF MatrixInv, HealthTypeOK
<1> QED
  BY <1>1, <1>2, PeaceInit, PeaceIsActual, MatrixAlways, PTL DEF HealthSpec
=============================================================================
