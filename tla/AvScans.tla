------------------------------- MODULE AvScans -------------------------------
(***************************************************************************)
(* Scans with clamd and the update of its databases                        *)
(* (security_connectors/clamav.py and the AV routes of                     *)
(* routers/security_console.py).                                           *)
(*                                                                         *)
(* A quick or custom scan is one request; a full one is a background task. *)
(* Each awaits clamd for one file at a time, and between two files any     *)
(* other scan, the failure of clamd or the end of the process may come.    *)
(* The registry of jobs dies with the process, the scan_history rows stay. *)
(***************************************************************************)
EXTENDS Naturals, FiniteSets

CONSTANTS
  Scan,          \* the scans ever asked for
  MaxFiles,      \* bound on the candidates of a scan (max_files per directory)
  MaxFailures,   \* _SCAN_PATHS_MAX_CONSECUTIVE_FAILURES
  MaxReads       \* _DB_UPDATE_RELOAD_POLL_ATTEMPTS

ASSUME ScanAssumption == /\ MaxFiles \in Nat /\ MaxFailures \in Nat \ {0}
                         /\ MaxReads \in Nat \ {0}

VARIABLES
  clamd,       \* TRUE iff clamd answers
  enabled,     \* clamav_enabled
  job,         \* job[s]: its entry in ClamAvScanJobRegistry
  scan,        \* scan[s]: where its code stands
  history,     \* the rows of scan_history
  stamp,       \* the clock: each finished_at is new
  truth,       \* history variable: what clamd and the disk did to the files of s
  rowLost,     \* history variable: a write of a row failed
  base,        \* version of the databases on the disk of clamd and of those it uses
  update       \* update_clamav_databases

scanVars == <<clamd, enabled, job, scan, history, stamp, truth, rowLost, base, update>>

Kind == {"quick", "full", "custom"}
ScanPc == {"none", "ping", "file", "row", "over"}
Count == 0 .. MaxFiles

NoJob == [kind |-> "quick", status |-> "none", scanned |-> 0, infected |-> 0, finished |-> 0]
NoScan == [pc |-> "none", kind |-> "quick", left |-> 0, scanned |-> 0, infected |-> 0, fails |-> 0]
NoTruth == [total |-> 0, skipped |-> 0, answered |-> 0, threats |-> 0, given |-> FALSE]
NoUpdate == [pc |-> "idle", before |-> 0, seen |-> 0, reads |-> 0]

ScanInit ==
  /\ clamd = TRUE /\ enabled \in BOOLEAN
  /\ job = [s \in Scan |-> NoJob] /\ scan = [s \in Scan |-> NoScan]
  /\ history = {} /\ stamp = 0 /\ rowLost = FALSE
  /\ truth = [s \in Scan |-> NoTruth]
  /\ base = [disk |-> 1, used |-> 1] /\ update = NoUpdate

databases == <<base, update>>
world == <<clamd, enabled>>

(***************************************************************************)
(* The registry.                                                           *)
(***************************************************************************)

CreateJob(s, kind) == job' = [job EXCEPT ![s] = [NoJob EXCEPT !.kind = kind, !.status = "running"]]

\* mark_completed and mark_failed; a scan that fails may leave its count.
MarkCompleted(s, scanned, infected) ==
  /\ stamp' = stamp + 1
  /\ job' = [job EXCEPT ![s] = [@ EXCEPT !.status = "completed", !.scanned = scanned,
                                         !.infected = infected, !.finished = stamp + 1]]

MarkFailed(s, scanned, infected) ==
  /\ stamp' = stamp + 1
  /\ job' = [job EXCEPT ![s] = [@ EXCEPT !.status = "failed", !.scanned = scanned,
                                         !.infected = infected, !.finished = stamp + 1]]

CompletedOfAnyKind(kind) == {s \in Scan : job[s].status = "completed"}
Completed(kind) == {s \in Scan : job[s].status = "completed" /\ job[s].kind = kind}
MostRecentCompleted(kind) ==
  CHOOSE s \in Completed(kind) : \A q \in Completed(kind) : job[q].finished <= job[s].finished

\* The tiles "last check" and "no threats" of the console (fetch_av_clamav_data).
Tile == IF ~enabled \/ ~clamd \/ Completed("full") = {} THEN [at |-> 0, clean |-> TRUE]
        ELSE LET s == MostRecentCompleted("full")
             IN [at |-> job[s].finished, clean |-> job[s].infected = 0]

(***************************************************************************)
(* Starting a scan.                                                        *)
(***************************************************************************)

\* The request for a quick or custom scan has its job before anything is known.
StartScan(s, kind) ==
  /\ scan[s].pc = "none" /\ kind # "full"
  /\ CreateJob(s, kind)
  /\ scan' = [scan EXCEPT ![s].pc = "ping", ![s].kind = kind]
  /\ UNCHANGED <<world, history, stamp, truth, rowLost, databases>>

\* start_full_scan makes no job until clamd has answered.
StartFullScan(s) ==
  /\ scan[s].pc = "none" /\ enabled
  /\ scan' = [scan EXCEPT ![s].pc = "ping", ![s].kind = "full"]
  /\ UNCHANGED <<world, job, history, stamp, truth, rowLost, databases>>

\* The list of candidates is made at once, and any number of them may be there.
Candidates(s) ==
  \E n \in Count :
    /\ scan' = [scan EXCEPT ![s].pc = "file", ![s].left = n]
    /\ truth' = [truth EXCEPT ![s].total = n]

\* ping() and, for a custom scan, the path, which may be gone.
PingScan(s) ==
  /\ scan[s].pc = "ping"
  /\ \/ /\ clamd /\ enabled /\ Candidates(s)
        /\ IF scan[s].kind = "full" THEN CreateJob(s, "full") ELSE UNCHANGED job
        /\ UNCHANGED stamp
     \/ /\ ~clamd \/ ~enabled \/ scan[s].kind = "custom"
        /\ scan' = [scan EXCEPT ![s].pc = "over"]
        /\ IF scan[s].kind = "full" THEN UNCHANGED <<job, stamp>> ELSE MarkFailed(s, 0, 0)
        /\ UNCHANGED truth
  /\ UNCHANGED <<world, history, rowLost, databases>>

(***************************************************************************)
(* One file: _scan_paths and the loop of _run_full_scan_job.               *)
(***************************************************************************)

Scanning(s) == scan[s].pc = "file" /\ scan[s].left > 0

\* read_bytes fails: the file is passed over, and no failure of clamd is counted.
SkipFile(s) ==
  /\ Scanning(s)
  /\ scan' = [scan EXCEPT ![s].left = @ - 1]
  /\ truth' = [truth EXCEPT ![s].skipped = @ + 1]
  /\ UNCHANGED <<world, job, history, stamp, rowLost, databases>>

\* A verdict of clamd: clean, a threat, or the error verdict of a file that is
\* too large.  Only a full scan shows its progress in the job.
ScanFile(s) ==
  /\ Scanning(s) /\ clamd
  /\ \E threat \in {0, 1} :
       LET now == [scan[s] EXCEPT !.left = @ - 1, !.scanned = @ + 1, !.infected = @ + threat,
                                  !.fails = 0] IN
       /\ scan' = [scan EXCEPT ![s] = now]
       /\ truth' = [truth EXCEPT ![s].answered = @ + 1, ![s].threats = @ + threat]
       /\ job' = IF scan[s].kind = "full"
                 THEN [job EXCEPT ![s].scanned = now.scanned, ![s].infected = now.infected]
                 ELSE job
  /\ UNCHANGED <<world, history, stamp, rowLost, databases>>

\* A ClamdError ends a full scan, but of the others only the third in a row.
GivesUp(s) == scan[s].kind = "full" \/ scan[s].fails + 1 >= MaxFailures
FailFile(s) ==
  /\ Scanning(s)
  /\ truth' = [truth EXCEPT ![s].skipped = @ + 1, ![s].given = GivesUp(s)]
  /\ \/ /\ GivesUp(s)
        /\ scan' = [scan EXCEPT ![s].pc = "over"]
        /\ MarkFailed(s, job[s].scanned, job[s].infected)
     \/ /\ ~GivesUp(s)
        /\ scan' = [scan EXCEPT ![s].left = @ - 1, ![s].fails = @ + 1]
        /\ UNCHANGED <<job, stamp>>
  /\ UNCHANGED <<world, history, rowLost, databases>>

\* The first failure breaks the loop, and the scan counts as completed.
EndScanEarly(s) ==
  /\ scan[s].pc = "file" /\ (scan[s].left = 0 \/ scan[s].fails > 0)
  /\ MarkCompleted(s, scan[s].scanned, scan[s].infected)
  /\ scan' = [scan EXCEPT ![s].pc = "row"]
  /\ UNCHANGED <<world, history, truth, rowLost, databases>>

EndScan(s) ==
  /\ scan[s].pc = "file" /\ scan[s].left = 0
  /\ MarkCompleted(s, scan[s].scanned, scan[s].infected)
  /\ scan' = [scan EXCEPT ![s].pc = "row"]
  /\ UNCHANGED <<world, history, truth, rowLost, databases>>

\* record_scan_history never raises; its rows are shown the last finished first.
RecordScanHistory(s) ==
  /\ scan[s].pc = "row"
  /\ scan' = [scan EXCEPT ![s].pc = "over"]
  /\ \/ /\ history' = history \cup {[scan |-> s, kind |-> scan[s].kind, scanned |-> scan[s].scanned,
                                    infected |-> scan[s].infected, finished |-> job[s].finished]}
        /\ UNCHANGED rowLost
     \/ rowLost' = TRUE /\ UNCHANGED history
  /\ UNCHANGED <<world, job, stamp, truth, databases>>

(***************************************************************************)
(* update_clamav_databases: freshclam as administrator, RELOAD, and reads  *)
(* of VERSION until it changes.  clamd puts a new database to use some     *)
(* time after RELOAD, or on its own self-check.  0 is "no answer".         *)
(***************************************************************************)

Version == IF clamd /\ enabled THEN base.used ELSE 0

Freshclam ==
  /\ update.pc = "idle" /\ base.disk = 1
  /\ \E new \in {0, 1} : base' = [base EXCEPT !.disk = @ + new]
  /\ update' = [update EXCEPT !.pc = "before"]
  /\ UNCHANGED <<world, job, scan, history, stamp, truth, rowLost>>

\* The version before RELOAD; RELOAD itself may fail, which is only logged.
Reload ==
  /\ update.pc = "before"
  /\ update' = [update EXCEPT !.pc = "read", !.before = Version]
  /\ UNCHANGED <<world, job, scan, history, stamp, truth, rowLost, base>>

ReadVersion ==
  /\ update.pc = "read"
  /\ update' = [update EXCEPT !.seen = Version, !.reads = @ + 1,
                  !.pc = IF Version # update.before \/ update.reads + 1 = MaxReads
                         THEN "done" ELSE "read"]
  /\ UNCHANGED <<world, job, scan, history, stamp, truth, rowLost, base>>

(***************************************************************************)
(* The rest of the world.                                                  *)
(***************************************************************************)

ClamdLoads ==
  /\ clamd /\ base.used < base.disk
  /\ base' = [base EXCEPT !.used = base.disk]
  /\ UNCHANGED <<world, job, scan, history, stamp, truth, rowLost, update>>

\* clamd goes away or comes back, then with the databases of its disk.
ClamdTurns ==
  /\ clamd' = ~clamd
  /\ base' = IF clamd THEN base ELSE [base EXCEPT !.used = base.disk]
  /\ UNCHANGED <<enabled, job, scan, history, stamp, truth, rowLost, update>>

\* The panel ends: the registry and all that runs are gone.
PanelEnds ==
  /\ \E s \in Scan : scan[s].pc # "none"
  /\ job' = [s \in Scan |-> NoJob]
  /\ scan' = [s \in Scan |-> IF scan[s].pc = "none" THEN NoScan ELSE [NoScan EXCEPT !.pc = "over"]]
  /\ update' = NoUpdate
  /\ UNCHANGED <<world, history, stamp, truth, rowLost, base>>

ScanStep ==
  \/ \E s \in Scan : \/ \E kind \in Kind : StartScan(s, kind)
                     \/ StartFullScan(s) \/ PingScan(s) \/ SkipFile(s) \/ ScanFile(s)
                     \/ FailFile(s) \/ EndScan(s) \/ RecordScanHistory(s)
  \/ ClamdTurns \/ PanelEnds

UpdateStep == Freshclam \/ Reload \/ ReadVersion \/ ClamdLoads \/ ClamdTurns

ScanNext == ScanStep \/ UpdateStep

ScanSpec == ScanInit /\ [][ScanNext]_scanVars

-----------------------------------------------------------------------------
ScanTypeOK ==
  /\ clamd \in BOOLEAN /\ enabled \in BOOLEAN /\ rowLost \in BOOLEAN /\ stamp \in Nat
  /\ job \in [Scan -> [kind : Kind, status : {"none", "running", "completed", "failed"},
                       scanned : Nat, infected : Nat, finished : Nat]]
  /\ scan \in [Scan -> [pc : ScanPc, kind : Kind, left : Nat, scanned : Nat, infected : Nat,
                        fails : Nat]]
  /\ history \subseteq [scan : Scan, kind : Kind, scanned : Nat, infected : Nat, finished : Nat]
  /\ truth \in [Scan -> [total : Nat, skipped : Nat, answered : Nat, threats : Nat,
                         given : BOOLEAN]]
  /\ base \in [disk : Nat, used : Nat]
  /\ update \in [pc : {"idle", "before", "read", "done"}, before : Nat, seen : Nat, reads : Nat]

\* A row of scan_history is of a scan that went through all its files without
\* giving up, with the number clamd answered for and every threat it named;
\* a scan has at most one ("genuinely COMPLETES", record_scan_history).
HistoryIsHonest ==
  /\ \A row \in history :
       LET t == truth[row.scan] IN
       /\ t.answered + t.skipped = t.total /\ ~t.given
       /\ row.scanned = t.answered /\ row.infected = t.threats
  /\ \A row, other \in history : row.scan = other.scan => row = other

\* What the console says of the last full scan is what its newest row says, in
\* whatever order overlapping scans end and fail, unless that row could not be
\* written or is being written.
FullRows == {row \in history : row.kind = "full"}
TileMatchesHistory ==
  (Tile.at # 0 /\ ~rowLost /\ \A s \in Scan : scan[s].pc # "row") =>
    \E row \in FullRows : /\ \A other \in FullRows : other.finished <= row.finished
                          /\ row.finished = Tile.at /\ (row.infected = 0) = Tile.clean
=============================================================================
