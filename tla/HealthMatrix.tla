---------------------------- MODULE HealthMatrix ----------------------------
(***************************************************************************)
(* The health of the machine beside the bootstrap (services/health): the   *)
(* matrix of components with its cache and its guard, the registry behind  *)
(* /health/detailed, and the remediation actions of the panel.             *)
(*                                                                         *)
(* A request is interrupted while it waits for the guard, while it waits   *)
(* for docker and the probes, and while the database answers.              *)
(***************************************************************************)
EXTENDS StackBootstrap

CONSTANTS
  Poller,      \* the requests that ask for the health
  MaxPolls     \* bound on the requests made

ASSUME PollsAssumption == MaxPolls \in Nat

VARIABLES
  cache,      \* the matrix of the module variable _cache
  guard,      \* the pollers that hold the lock of the event loop: one or none
  poll,       \* poll[q]: where the request q is and what it has seen
  database,   \* TRUE iff the database answers
  last,       \* last[n]: what the registry recorded for the check n
  rounds,     \* number of collections begun
  recorded,   \* the collection of which the registry has recorded system_stack
  floor,      \* history: collections begun before the last successful restart
  overtaken,  \* history: one of them had not ended by then
  polls       \* requests made

healthVars == <<cache, guard, poll, database, last, rounds, recorded, floor, overtaken, polls>>
restarts == <<floor, overtaken>>

Check == {"database", "system_stack"}
Status == {"ok", "degraded", "down"}

\* A matrix is its aggregate and the number of the collection it comes from.
Matrix == [has : BOOLEAN, fresh : BOOLEAN, aggregate : Status, round : Nat]
NoMatrix == [has |-> FALSE, fresh |-> FALSE, aggregate |-> "ok", round |-> 0]
Poll == [pc : {"idle", "database", "ask", "wait", "collect", "probe"}, force : BOOLEAN,
         all : BOOLEAN, status : Status, aggregate : Status, round : Nat, cfg : ConfigEnv]
NoPoll == [pc |-> "idle", force |-> FALSE, all |-> FALSE, status |-> "ok",
           aggregate |-> "ok", round |-> 0, cfg |-> NoConfig]

HealthInit ==
  /\ cache = NoMatrix /\ guard = {} /\ poll = [q \in Poller |-> NoPoll]
  /\ database = TRUE
  /\ last = [n \in Check |-> "none"]
  /\ rounds = 0 /\ recorded = 0 /\ floor = 0 /\ overtaken = FALSE /\ polls = 0

(***************************************************************************)
(* What the matrix may say of the machine: of each component the statuses  *)
(* that a check can find (_check_container, the endpoints gated by         *)
(* config.env, worst_matrix_status).                                       *)
(***************************************************************************)

\* Of a container that runs docker says starting, healthy or unhealthy.
CheckContainer(c) ==
  CASE box[c] = "absent" -> {"not_configured"}
    [] box[c] = "stopped" -> {"unreachable"}
    [] box[c] = "running" -> {"ok", "degraded", "unreachable"}

\* wazuh_api, crowdsec_lapi and clamd: configured once config.env has their
\* address and their secret, which the bootstrap gives all at once, and alive
\* when something of ours answers there.
CheckEndpoint(cfg, c) ==
  CASE c = "wazuh" /\ (cfg.port = 0 \/ cfg.pw = 0) -> {"not_configured"}
    [] c = "crowdsec" /\ cfg.key = 0 -> {"not_configured"}
    [] c = "clamav" /\ cfg.port = 0 -> {"not_configured"}
    [] OTHER -> IF box[c] = "running" /\ (c = "wazuh" => wazuh.port = cfg.port)
                THEN {"ok", "unreachable"} ELSE {"unreachable"}

\* The engine, the tools and the disk.
CheckRest == {"ok", "degraded", "not_configured", "unreachable"}

worst_matrix_status(statuses) ==
  IF "unreachable" \in statuses THEN "down"
  ELSE IF "not_configured" \in statuses \/ "degraded" \in statuses THEN "degraded" ELSE "ok"

\* A collection finds one status of each component.
Collected(cfg) ==
  LET each == {CheckContainer(c) : c \in Container} \cup {CheckEndpoint(cfg, c) : c \in Container}
                \cup {CheckRest, IF database THEN {"ok"} ELSE {"degraded"}}
      found == {S \in SUBSET UNION each : \A C \in each : S \cap C # {}}
  IN {worst_matrix_status(S) : S \in found}

(***************************************************************************)
(* collect_system_health(force)                                            *)
(***************************************************************************)

\* The matrix of a collection is handed out; run_all records its aggregate
\* at once, and publishes HEALTH_CHANGED if it replaces another status.
Serve(q, aggregate, round) ==
  /\ poll' = [poll EXCEPT ![q] = NoPoll]
  /\ IF poll[q].all
     THEN last' = [last EXCEPT !["system_stack"] = aggregate] /\ recorded' = round
     ELSE UNCHANGED <<last, recorded>>

Fresh == cache.has /\ cache.fresh

GuardIgnored == TRUE
GuardFree == guard = {}
Acquire(q) ==
  /\ GuardFree
  /\ guard' = {q} /\ rounds' = rounds + 1
  /\ poll' = [poll EXCEPT ![q].pc = "collect", ![q].round = rounds + 1,
                                 ![q].cfg = config]

NewPoll(q) == poll[q].pc = "idle" /\ polls < MaxPolls /\ polls' = polls + 1

\* GET /health/system, and the action ping_components, which drops the cache.
GetMatrix(q) ==
  /\ NewPoll(q)
  /\ IF Fresh THEN UNCHANGED poll
     ELSE poll' = [poll EXCEPT ![q] = [NoPoll EXCEPT !.pc = "wait"]]
  /\ UNCHANGED <<stackVars, cache, guard, database, last, rounds, recorded, restarts>>

ping_components(q) ==
  /\ NewPoll(q)
  /\ cache' = NoMatrix
  /\ poll' = [poll EXCEPT ![q] = [NoPoll EXCEPT !.pc = "wait", !.force = TRUE]]
  /\ UNCHANGED <<stackVars, guard, database, last, rounds, recorded, restarts>>

\* GET /health/detailed: the query of the database check is answered first.
run_all(q) ==
  /\ NewPoll(q)
  /\ poll' = [poll EXCEPT ![q] = [NoPoll EXCEPT !.pc = "database", !.all = TRUE,
                                    !.status = IF database THEN "ok" ELSE "degraded"]]
  /\ UNCHANGED <<stackVars, cache, guard, database, last, rounds, recorded, restarts>>

RecordDatabase(q) ==
  /\ poll[q].pc = "database"
  /\ last' = [last EXCEPT !["database"] = poll[q].status]
  /\ poll' = [poll EXCEPT ![q].pc = "ask"]
  /\ UNCHANGED <<stackVars, cache, guard, database, rounds, recorded, restarts, polls>>

AskCache(q) ==
  /\ poll[q].pc = "ask"
  /\ \/ Fresh /\ Serve(q, cache.aggregate, cache.round)
     \/ /\ ~Fresh /\ poll' = [poll EXCEPT ![q].pc = "wait"]
        /\ UNCHANGED <<last, recorded>>
  /\ UNCHANGED <<stackVars, cache, guard, database, rounds, restarts, polls>>

\* With the guard in hand the cache is looked at once more; a collection
\* begins with config.env.
EnterGuard(q) ==
  /\ poll[q].pc = "wait"
  /\ \/ /\ GuardFree /\ ~poll[q].force /\ Fresh
        /\ Serve(q, cache.aggregate, cache.round) /\ UNCHANGED <<guard, rounds>>
     \/ /\ poll[q].force \/ ~Fresh
        /\ Acquire(q) /\ UNCHANGED <<last, recorded>>
  /\ UNCHANGED <<stackVars, cache, database, restarts, polls>>

\* docker inspect has answered; the probes are still out.
Inspect(q) ==
  /\ poll[q].pc = "collect"
  /\ \E aggregate \in Collected(poll[q].cfg) :
       poll' = [poll EXCEPT ![q].pc = "probe", ![q].cfg = NoConfig,
                                 ![q].aggregate = aggregate]
  /\ UNCHANGED <<stackVars, cache, guard, database, last, rounds, recorded, restarts, polls>>

Store(q) ==
  /\ poll[q].pc = "probe"
  /\ cache' = [has |-> TRUE, fresh |-> TRUE, aggregate |-> poll[q].aggregate,
             round |-> poll[q].round]
  /\ guard' = {}
  /\ Serve(q, poll[q].aggregate, poll[q].round)
  /\ UNCHANGED <<stackVars, database, rounds, restarts, polls>>

\* Thirty seconds pass.
Age ==
  /\ Fresh /\ cache' = [cache EXCEPT !.fresh = FALSE]
  /\ UNCHANGED <<stackVars, guard, poll, database, last, rounds, recorded, restarts, polls>>

(***************************************************************************)
(* Remediation, the database, and the end of the process.                  *)
(***************************************************************************)

Collecting == \E q \in Poller : poll[q].pc \in {"collect", "probe"}

CacheKept == UNCHANGED cache
invalidate_system_health_cache == cache' = NoMatrix

restart_container(c) ==
  /\ ContainerStarts(c)
  /\ invalidate_system_health_cache
  /\ floor' = rounds /\ overtaken' = Collecting
  /\ UNCHANGED <<guard, poll, database, last, rounds, recorded, polls>>

\* On the health page, and by the watchdog of the Windows tray.
compose_up_stack(r, by) ==
  /\ RunBootstrap(r, by)
  /\ invalidate_system_health_cache
  /\ UNCHANGED <<guard, poll, database, last, rounds, recorded, restarts, polls>>

DatabaseTurns ==
  /\ Trouble /\ database' = ~database
  /\ UNCHANGED <<files, docker, foreign, boot, process, minted, runs, histories>>
  /\ UNCHANGED <<cache, guard, poll, last, rounds, recorded, restarts, polls>>

HealthEnds ==
  /\ ServerEnds
  /\ cache' = NoMatrix /\ guard' = {} /\ poll' = [q \in Poller |-> NoPoll]
  /\ last' = [n \in Check |-> "none"] /\ recorded' = 0
  /\ UNCHANGED <<database, rounds, restarts, polls>>

HealthNext ==
  \/ StackStep /\ UNCHANGED healthVars
  \/ \E q \in Poller :
       \/ GetMatrix(q) \/ ping_components(q) \/ run_all(q) \/ RecordDatabase(q)
       \/ AskCache(q) \/ EnterGuard(q) \/ Inspect(q) \/ Store(q)
  \/ Age \/ DatabaseTurns \/ HealthEnds
  \/ \E c \in Container : restart_container(c)
  \/ \E r \in Runner, by \in {"loop", "tray"} : compose_up_stack(r, by)

HealthSpec == StackInit /\ HealthInit /\ [][HealthNext]_<<stackVars, healthVars>>

HealthTypeOK ==
  /\ StackTypeOK
  /\ cache \in Matrix /\ guard \subseteq Poller
  /\ poll \in [Poller -> Poll]
  /\ database \in BOOLEAN
  /\ last \in [Check -> Status \cup {"none"}]
  /\ rounds \in Nat /\ recorded \in Nat /\ floor \in Nat /\ overtaken \in BOOLEAN /\ polls \in 0 .. MaxPolls

\* After restart_container "the next GET /health/system sees the world after
\* the action": whatever is in the cache was asked of docker after the last
\* successful restart, unless a collection was under way at that moment.
SeesTheRestart == cache.has => cache.round > floor \/ overtaken

\* However requests overlap, force and wait, the registry never goes back to
\* an older matrix than the one it has recorded: the guard keeps a slow
\* collection from ending after a younger one (collect_system_health, run_all).
NoOlderMatrix ==
  [][recorded' # recorded => recorded' > recorded \/ HealthEnds]_<<stackVars, healthVars>>
=============================================================================
