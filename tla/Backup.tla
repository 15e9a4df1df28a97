------------------------------- MODULE Backup -------------------------------
(***************************************************************************)
(* The backup component and the start of the application around it:        *)
(* services/backup (service, wiring, restic_client, integrity, scheduler), *)
(* the entry points (launcher.py, docker-entrypoint.sh) and the lifespan   *)
(* of app_factory.py.                                                      *)
(*                                                                         *)
(* The database is one SQLite file.  Of its content the model keeps what   *)
(* the properties tell apart: whether SQLite can read it, a version of the *)
(* user's data, and the rows of backup_jobs.  A run is one execution of    *)
(* run_backup or run_restore; a step of a run goes from one await to the   *)
(* next, except that restic, a subprocess, ends whenever it likes.         *)
(***************************************************************************)
EXTENDS Integers, Sequences

CONSTANTS
  PanelRun,     \* identities of the runs of the panel and of the scheduler
  Startup,      \* the run the startup integrity check may begin
  Entry,        \* ways the program is started: "launcher" and "bare"
  MaxWrites,    \* bound on the versions of the user's data
  MaxFaults     \* bound on failures: of restic, of the disk, of the process

ASSUME StartupAssumption == Startup \notin PanelRun
ASSUME EntryAssumption == Entry \subseteq {"launcher", "bare"}
ASSUME BoundsAssumption == MaxWrites \in Nat /\ MaxFaults \in Nat

VARIABLES
  db,       \* the database file
  repo,     \* the restic repository: snapshots, oldest first
  server,   \* the stage of the process's life
  run,      \* run[r]: where the execution r of run_backup or run_restore is
  written,  \* the newest version of the user's data there has been
  faults,   \* failures still allowed
  config    \* how the program is started, and whether bootstrap creds are set

vars == <<db, repo, server, run, written, faults, config>>

Run == PanelRun \cup {Startup}

Row == [by : Run, status : {"running", "success", "failed"}]

File == [kind : {"missing", "empty", "corrupt", "ok"},
         ver : Nat, jobs : Seq(Row)]

Blank(k) == [kind |-> k, ver |-> 0, jobs |-> <<>>]
Missing == Blank("missing")
Empty   == Blank("empty")           \* 0 bytes: PRAGMA integrity_check says ok
Corrupt == Blank("corrupt")
Fresh   == Blank("ok")              \* migrated, no user, no row

Snapshot == [file : File, by : Run]

Live == {"record", "start", "snap", "list", "stage", "copy", "copying", "finish"}

RunState == [op    : {"none", "manual", "scheduled", "restore"},
             pc    : Live \cup {"idle", "orphan", "over"},
             job   : Nat,       \* job_id; 0 stands for None
             src   : Nat,       \* index of the snapshot to restore; 0: newest
             seen  : File,      \* the file as restic began to read it
             good  : BOOLEAN,   \* status_value = "success"
             stale : BOOLEAN,   \* a restore replaced the file since job was read
             misjudged : BOOLEAN]  \* begun over a file that is not damaged

AtRest(pc) == [op |-> "none", pc |-> pc, job |-> 0, src |-> 0,
               seen |-> Missing, good |-> FALSE, stale |-> FALSE,
               misjudged |-> FALSE]

Begun(op, src) == [AtRest("record") EXCEPT !.op = op, !.src = src]

IsLive(r) == run[r].pc \in Live

\* shutil.copyfile runs on the event loop: no other handler runs meanwhile.
LoopFree == \A r \in Run : run[r].pc # "copying"

\* Opening a connection to a missing SQLite file creates it with 0 bytes.
Touched(f) == IF f.kind = "missing" THEN Empty ELSE f

Goto(r, pc) == run' = [run EXCEPT ![r].pc = pc]

\* A failure of restic, a full disk, a locked file, or a killed process.
Fault == faults > 0 /\ faults' = faults - 1

Over(r) == [AtRest("over") EXCEPT !.op = run[r].op]

\* The process ends: its runs are gone, but a restic it had spawned goes on.
Ended == [r \in Run |->
            IF run[r].pc = "snap" THEN [run[r] EXCEPT !.pc = "orphan"]
            ELSE IF ~IsLive(r) THEN run[r]
            ELSE IF r = Startup THEN AtRest("idle") ELSE Over(r)]

Init ==
  /\ db \in {Fresh, [Fresh EXCEPT !.ver = 1]}
  /\ repo = <<>>
  /\ server = "down"
  /\ run = [r \in Run |-> AtRest("idle")]
  /\ written = db.ver
  /\ faults = MaxFaults
  /\ config \in [entry : Entry, creds : BOOLEAN]

(***************************************************************************)
(* The start of the program.                                               *)
(***************************************************************************)

\* The launcher and the Docker entry point migrate before the application
\* exists; a bare uvicorn goes straight to the lifespan.
AlwaysMigrates == "migrating"        \* mutated: the lifespan migrates too
FirstStage == IF config.entry = "launcher" THEN "migrating" ELSE "checking"

Boot ==
  /\ server = "down"
  /\ server' = FirstStage
  /\ UNCHANGED <<db, repo, run, written, faults, config>>

\* alembic upgrade head creates the schema in a missing or empty file, has
\* nothing to do on a current one, and on a corrupt one either stumbles on
\* the damage, which aborts the start, or never reads the damaged pages.
Migrate ==
  /\ server = "migrating"
  /\ \/ /\ db.kind \in {"missing", "empty"}
        /\ db' = Fresh /\ server' = "checking"
     \/ /\ db.kind \in {"ok", "corrupt"}
        /\ server' = "checking" /\ UNCHANGED db
     \/ /\ db.kind = "corrupt"
        /\ server' = "down" /\ UNCHANGED db
  /\ UNCHANGED <<repo, run, written, faults, config>>

\* What the startup check takes for a reason to restore.
AnySnapshot == db.kind = "corrupt" \/ repo # <<>>  \* mutated: over a sound file too
Damaged == db.kind = "corrupt" \/ (db.kind = "missing" /\ repo # <<>>)

\* run_startup_integrity_check, up to its call of run_restore.  check_integrity
\* also says no of a sound file it cannot open: one that is locked.
StartupCheck ==
  /\ server = "checking"
  /\ \/ /\ db.kind \in {"ok", "empty"}
        /\ server' = "seeding" /\ UNCHANGED <<run, faults>>
     \/ /\ db.kind = "missing" /\ repo = <<>>
        /\ server' = "seeding" /\ UNCHANGED <<run, faults>>
     \/ /\ db.kind = "missing"          \* list_snapshots raises ResticError
        /\ Fault
        /\ server' = "seeding" /\ UNCHANGED run
     \/ /\ Damaged
        /\ server' = "restoring"
        /\ run' = [run EXCEPT ![Startup] = Begun("restore", 0)]
        /\ UNCHANGED faults
     \/ /\ db.kind \in {"ok", "empty"}
        /\ Fault
        /\ server' = "restoring"
        /\ run' = [run EXCEPT ![Startup] = [Begun("restore", 0) EXCEPT !.misjudged = TRUE]]
  /\ UNCHANGED <<db, repo, written, config>>

\* ensure_bootstrap_admin: without credentials it does nothing; with them it
\* counts the users, which raises, and ends the start, when there is no table.
Seed ==
  /\ server = "seeding" /\ LoopFree
  /\ \/ /\ ~config.creds \/ (db.kind = "ok" /\ db.ver > 0)
        /\ server' = "up" /\ UNCHANGED <<db, written, run>>
     \/ /\ config.creds /\ db.kind = "ok" /\ db.ver = 0
        /\ server' = "up"
        /\ written' = written + 1
        /\ db' = [db EXCEPT !.ver = written + 1]
        /\ UNCHANGED run
     \/ /\ config.creds /\ db.kind # "ok"
        /\ server' = "down"
        /\ db' = Touched(db)
        /\ run' = Ended
        /\ UNCHANGED written
  /\ UNCHANGED <<repo, faults, config>>

(***************************************************************************)
(* Who begins a run.  The panel's calls need a user in the database.       *)
(***************************************************************************)

Authenticated == server = "up" /\ LoopFree /\ db.kind = "ok" /\ db.ver > 0

ManualBackup(r) ==
  /\ Authenticated /\ run[r].pc = "idle"
  /\ run' = [run EXCEPT ![r] = Begun("manual", 0)]
  /\ UNCHANGED <<db, repo, server, written, faults, config>>

\* Of a snapshot named by its id, or of "latest", which is index 0.
ManualRestore(r) ==
  /\ Authenticated /\ run[r].pc = "idle"
  /\ \E i \in 0..Len(repo) : run' = [run EXCEPT ![r] = Begun("restore", i)]
  /\ UNCHANGED <<db, repo, server, written, faults, config>>

\* BackupScheduler._loop awaits one run before it sleeps until the next.  It
\* is started before ensure_bootstrap_admin has run.
ScheduledBackup(r) ==
  /\ server \in {"seeding", "up"} /\ LoopFree
  /\ run[r].pc = "idle"
  /\ \A q \in PanelRun : IsLive(q) => run[q].op # "scheduled"
  /\ run' = [run EXCEPT ![r] = Begun("scheduled", 0)]
  /\ UNCHANGED <<db, repo, server, written, faults, config>>

(***************************************************************************)
(* The steps of a run.                                                     *)
(***************************************************************************)

\* SQLite gives a new row the id after the greatest one.
RowsBefore == Len(db.jobs)           \* mutated: the id before the insert
NextId == Len(db.jobs) + 1

\* _record_job inserts the "running" row, and holds its id if it could.
RecordJob(r) ==
  /\ run[r].pc = "record" /\ LoopFree
  /\ LET next == IF run[r].op # "restore" THEN "start"
                 ELSE IF run[r].src = 0 THEN "list" ELSE "stage"
     IN \/ /\ db.kind = "ok"
           /\ db' = [db EXCEPT !.jobs = Append(@, [by |-> r, status |-> "running"])]
           /\ run' = [run EXCEPT ![r].pc = next, ![r].job = NextId]
        \/ /\ db.kind # "ok"
           /\ db' = Touched(db)
           /\ Goto(r, next)
        \/ /\ run[r].misjudged            \* still locked: the insert raises
           /\ Goto(r, next) /\ UNCHANGED db
  /\ UNCHANGED <<repo, server, written, faults, config>>

\* A restic command of the run fails, or its output cannot be parsed.
ResticFails(r) ==
  /\ run[r].pc \in {"start", "snap", "list", "stage"} /\ LoopFree
  /\ Fault
  /\ Goto(r, "finish")
  /\ UNCHANGED <<db, repo, server, written, config>>

\* init_repo, then restic backup begins to read the file.
StartSnapshot(r) ==
  /\ run[r].pc = "start" /\ LoopFree
  /\ run' = [run EXCEPT ![r].pc = "snap", ![r].seen = db]
  /\ UNCHANGED <<db, repo, server, written, faults, config>>

\* restic has read the file without a lock: if the file changed meanwhile it
\* may hold either content, or pages of both.
EndSnapshot(r) ==
  /\ run[r].pc \in {"snap", "orphan"}
  /\ \E f \in {run[r].seen, db} \cup (IF db = run[r].seen THEN {} ELSE {Corrupt}) :
       /\ f.kind # "missing"
       /\ repo' = Append(repo, [file |-> f, by |-> r])
  /\ run' = [run EXCEPT ![r] = IF @.pc = "orphan" THEN Over(r)
                               ELSE [@ EXCEPT !.pc = "finish", !.good = TRUE,
                                              !.seen = Missing]]
  /\ UNCHANGED <<db, server, written, faults, config>>

Newest == Len(repo)

\* run_restore without a snapshot_id takes the last snapshot of the list.
ListSnapshots(r) ==
  /\ run[r].pc = "list" /\ LoopFree
  /\ \/ /\ repo = <<>> /\ Goto(r, "finish")
     \/ /\ repo # <<>>
        /\ run' = [run EXCEPT ![r].pc = "stage", ![r].src = Newest]
  /\ UNCHANGED <<db, repo, server, written, faults, config>>

\* restic restore into the private staging directory.
Stage(r) ==
  /\ run[r].pc = "stage" /\ LoopFree
  /\ Goto(r, "copy")
  /\ UNCHANGED <<db, repo, server, written, faults, config>>

\* copyfile truncates the live file, then fills it.
CopyBegin(r) ==
  /\ run[r].pc = "copy" /\ LoopFree
  /\ db' \in {Empty, Corrupt}
  /\ run' = [q \in Run |->
               IF q = r THEN [run[q] EXCEPT !.pc = "copying", !.stale = TRUE]
               ELSE IF IsLive(q) THEN [run[q] EXCEPT !.stale = TRUE]
               ELSE run[q]]
  /\ UNCHANGED <<repo, server, written, faults, config>>

CopyEnd(r) ==
  /\ run[r].pc = "copying"
  /\ db' = repo[run[r].src].file
  /\ run' = [run EXCEPT ![r].pc = "finish", ![r].good = TRUE]
  /\ UNCHANGED <<repo, server, written, faults, config>>

\* copyfile raises: it cannot open the live file, which then stays as it is,
\* or the disk is full, and the file stays as far as it got.
CopyFails(r) ==
  /\ run[r].pc = "copying" \/ (run[r].pc = "copy" /\ LoopFree)
  /\ Fault
  /\ Goto(r, "finish")
  /\ UNCHANGED <<db, repo, server, written, config>>

\* mutated: a word that is not of the status vocabulary
OtherStatus(r) == IF run[r].good THEN "success" ELSE "error"
FinalStatus(r) == IF run[r].good THEN "success" ELSE "failed"

\* _finish_job: by id, or a full row, or nothing when the file is unusable.
FinishJob(r) ==
  /\ run[r].pc = "finish" /\ LoopFree
  /\ \/ /\ db.kind = "ok" /\ run[r].job \in DOMAIN db.jobs
        /\ db' = [db EXCEPT !.jobs[run[r].job].status = FinalStatus(r)]
     \/ /\ db.kind = "ok" /\ run[r].job \notin DOMAIN db.jobs
        /\ db' = [db EXCEPT !.jobs = Append(@, [by |-> r, status |-> FinalStatus(r)])]
     \/ /\ db.kind # "ok"
        /\ db' = Touched(db)
     \/ /\ run[r].misjudged /\ UNCHANGED db  \* still locked: the commit raises
  /\ IF r = Startup
       THEN /\ server' = "seeding"
            /\ run' = [run EXCEPT ![r] = AtRest("idle")]
       ELSE /\ UNCHANGED server
            /\ run' = [run EXCEPT ![r] = Over(r)]
  /\ UNCHANGED <<repo, written, faults, config>>

(***************************************************************************)
(* The environment.                                                        *)
(***************************************************************************)

\* Any commit of the rest of the panel.
UserWrite ==
  /\ Authenticated /\ written < MaxWrites
  /\ written' = written + 1
  /\ db' = [db EXCEPT !.ver = written + 1]
  /\ UNCHANGED <<repo, server, run, faults, config>>

\* An orderly stop while no run is in progress.
Stop ==
  /\ server = "up" /\ \A r \in Run : ~IsLive(r)
  /\ server' = "down"
  /\ UNCHANGED <<db, repo, run, written, faults, config>>

Crash ==
  /\ server # "down" /\ Fault
  /\ server' = "down"
  /\ run' = Ended
  /\ UNCHANGED <<db, repo, written, config>>

\* While the program is down the file is deleted or damaged.
LoseFile ==
  /\ server = "down" /\ db.kind # "missing" /\ Fault
  /\ db' \in {Missing, Corrupt}
  /\ UNCHANGED <<repo, server, run, written, config>>

\* A restic left behind by a dead process dies too.
OrphanDies(r) ==
  /\ run[r].pc = "orphan"
  /\ run' = [run EXCEPT ![r] = Over(r)]
  /\ UNCHANGED <<db, repo, server, written, faults, config>>

Starting == Boot \/ Migrate \/ StartupCheck \/ Seed

Step(r) ==
  \/ RecordJob(r) \/ StartSnapshot(r) \/ EndSnapshot(r)
  \/ ListSnapshots(r) \/ Stage(r) \/ CopyBegin(r) \/ CopyEnd(r)
  \/ FinishJob(r)

Request(r) == ManualBackup(r) \/ ManualRestore(r) \/ ScheduledBackup(r)

Failure(r) == ResticFails(r) \/ CopyFails(r) \/ OrphanDies(r)

Environment == UserWrite \/ Stop \/ Crash \/ LoseFile

Next ==
  \/ Starting
  \/ \E r \in PanelRun : Request(r)
  \/ \E r \in Run : Step(r) \/ Failure(r)
  \/ Environment

Spec == Init /\ [][Next]_vars

\* Something starts the program again after it ended, the start goes on, and
\* a restic command ends: nothing is assumed of users, timers or failures.
Fairness == WF_vars(Starting) /\ \A r \in Run : WF_vars(Step(r))

FairSpec == Spec /\ Fairness

(***************************************************************************)
(* Properties.                                                             *)
(***************************************************************************)

\* The type invariant: the values every variable may take.
TypeOK ==
  /\ db \in File
  /\ repo \in Seq(Snapshot)
  /\ server \in {"down", "migrating", "checking", "restoring", "seeding", "up"}
  /\ run \in [Run -> RunState]
  /\ written \in Nat
  /\ faults \in 0..MaxFaults
  /\ config \in [entry : {"launcher", "bare"}, creds : BOOLEAN]

\* While no restore has replaced the file since _record_job read the id, the
\* id a run holds still names the row that run inserted, whatever the other
\* runs did between: _finish_job updates its own row and no other.
JobIdIsOwn ==
  \A r \in Run :
    IsLive(r) /\ run[r].job # 0 /\ ~run[r].stale =>
      /\ db.kind = "ok"
      /\ run[r].job \in DOMAIN db.jobs
      /\ db.jobs[run[r].job].by = r

\* Whatever order restores, backups and restarts come in, a row that says a
\* backup succeeded was inserted by a run whose snapshot is in the repository.
SuccessRowHasSnapshot ==
  \A i \in DOMAIN db.jobs :
    LET job == db.jobs[i]
    IN job.status = "success" /\ job.by \in PanelRun /\ run[job.by].op # "restore"
         => \E j \in DOMAIN repo : repo[j].by = job.by

\* As long as no restore has replaced the file under it, a run that ends
\* changes no row but its own, however many others began and ended meanwhile,
\* and a backup says success there only of a snapshot in the repository.
EndsHonestly ==
  [][\A r \in Run : FinishJob(r) /\ ~run[r].stale =>
       \A i \in DOMAIN db'.jobs :
         \/ i \in DOMAIN db.jobs /\ db'.jobs[i] = db.jobs[i]
         \/ /\ db'.jobs[i].by = r /\ (i \in DOMAIN db.jobs => db.jobs[i].by = r)
            /\ db'.jobs[i].status = "success" /\ run[r].op # "restore"
                 => \E j \in DOMAIN repo : repo[j].by = r]_vars

\* The startup restore, several awaits after the integrity check decided on
\* it, truncates a database that can be read only if the check itself could
\* not open that database and took it for a damaged one.
StartupSparesSound ==
  [][run'[Startup].pc = "copying"
       => \/ run[Startup].pc = "copying"
          \/ db.kind # "ok"
          \/ run[Startup].misjudged]_vars

NewestIsSound == repo # <<>> /\ repo[Len(repo)].file.kind = "ok"


\* Finitely many failures only delay the recovery of a lost file: in a panel
\* that creates its first admin from the settings every start reads the
\* database, the starts go on, and one of them restores it.
LostFileIsRestored ==
  (/\ config.creds /\ server = "down" /\ db.kind = "missing"
   /\ NewestIsSound /\ \A r \in Run : run[r].pc # "orphan")
    ~> (db.kind = "ok" \/ ~NewestIsSound)

\* A lost panel is restored and not replaced: no start creates a first admin
\* in a fresh database while a snapshot holds one with users in it.
NoFreshPanelOverSnapshots ==
  [][server = "seeding" /\ server' = "up" /\ db' # db
       => \A i \in DOMAIN repo : repo[i].file.ver = 0]_vars

(***************************************************************************)
(* What the component promises of the user's data: see ContentStore.       *)
(***************************************************************************)
Content(f) == IF f.kind = "ok" THEN f.ver ELSE -1

Store == INSTANCE ContentStore WITH
  content <- Content(db),
  archive <- {Content(repo[i].file) : i \in DOMAIN repo},
  latest  <- written,
  exposed <- server = "down" \/ ~LoopFree,
  resets  <- config.entry = "launcher"

ImplementsContentStore == Store!Spec
=============================================================================
