----------------------------- MODULE PanelProofs -----------------------------
(***************************************************************************)
(* Theorems about the lock of an account (LoginLockout), about scans       *)
(* (AvScans) and about their schedule (AvSchedule), and, at the end, about *)
(* the panel as MCPanel composes it.                                       *)
(*                                                                         *)
(* That nothing hollow is published rests on a fact the row does not say:  *)
(* as long as no two logins overlapped, an account with a lock, in force   *)
(* or expired, has its full count of failures.  Only then does every later *)
(* failure set a new lock, and so deserve to be published.                 *)
(*                                                                         *)
(* A row of scan_history is honest because what the code of a scan counts  *)
(* is, at each file, what became of the files before it (Counts).  The     *)
(* tile and the newest row agree because each completed job has its row    *)
(* behind it (JobOf), each full row has a completed job that is no older,  *)
(* unless none is left in memory (FullRowsFollow), and a job that          *)
(* completes is the newest of all (Stamped).                               *)
(*                                                                         *)
(* The schedule is kept because the slot marked last is the latest one     *)
(* that fired (Marked), and because between the slot of a day and the poll *)
(* that marks it no other poll goes by (Polled), so that this poll comes   *)
(* too early to find the slot missed.  That a slot fires no second time    *)
(* needs no bound on the polls (OnceInv).                                  *)
(*                                                                         *)
(* The panel takes, in each part, a step of that part or none, so its      *)
(* behaviours are behaviours of each (PanelHealth, PanelParts), and what   *)
(* is proved of the parts, here and in the modules this one extends, holds *)
(* of it.                                                                  *)
(***************************************************************************)
EXTENDS MCPanel, StackProofs, CrowdSecProofs, NetworkProofs

(***************************************************************************)
(* Logins.                                                                 *)
(***************************************************************************)


\* The count of the row, and of every row read, is behind the logins made.
CountsTries ==
  /\ account.attempts <= tries
  /\ \A r \in Login : login[r].pc = "commit" => login[r].read.attempts < tries

LoginInv == LoginTypeOK /\ CountsTries

\* A lock, in force or expired, comes with the count that set it.
LockedIsCounted == ~crossed => (account.lock # "none" => account.attempts >= MaxFailed)

LEMMA LoginInitInv == LoginInit => LoginInv
<1> SUFFICES ASSUME LoginInit PROVE LoginInv
  OBVIOUS
<1>1. 0 \in Attempts /\ 0 \in 0 .. MaxTries
  BY LoginAssumption DEF Attempts
<1>2. account \in Columns
  BY <1>1 DEF LoginInit, Columns, Lock
<1>3. NoLogin \in [pc : LoginPc, read : Columns, right : BOOLEAN]
  BY <1>1 DEF NoLogin, LoginPc, Columns, Lock
<1>4. login \in [Login -> [pc : LoginPc, read : Columns, right : BOOLEAN]]
  BY <1>3 DEF LoginInit
<1>5. CountsTries
  BY DEF LoginInit, CountsTries, NoLogin
<1> QED
  BY <1>1, <1>2, <1>4, <1>5 DEF LoginInit, LoginInv, LoginTypeOK

\* What a login registers is a row, one failure ahead of the one it read.
LEMMA RegisteredType ==
  ASSUME LoginInv, NEW r \in Login, login[r].pc = "commit"
  PROVE  /\ login[r].read \in Columns
         /\ Registered(r).attempts \in Attempts /\ Registered(r).attempts <= tries
         /\ Registered(r).lock \in Lock
<1>1. /\ login[r].read.attempts \in Attempts /\ login[r].read.lock \in Lock
      /\ login[r].read \in Columns /\ login[r].right \in BOOLEAN
  BY DEF LoginInv, LoginTypeOK, Columns
<1>2. tries \in 0 .. MaxTries /\ login[r].read.attempts < tries
  BY DEF LoginInv, LoginTypeOK, CountsTries
<1>3. login[r].read.attempts + 1 \in Attempts /\ login[r].read.attempts + 1 <= tries /\ 0 \in Attempts
  BY <1>1, <1>2, LoginAssumption DEF Attempts
<1>4. CASE login[r].right
  BY <1>1, <1>2, <1>3, <1>4, LoginAssumption DEF Registered, register_successful_login, Lock
<1>5. CASE ~login[r].right
  BY <1>1, <1>3, <1>5 DEF Registered, register_failed_login, Lock
<1> QED
  BY <1>1, <1>4, <1>5

LEMMA LoginStep == LoginInv /\ [LoginNext]_loginVars => LoginInv'
<1> SUFFICES ASSUME LoginInv, [LoginNext]_loginVars PROVE LoginInv'
  OBVIOUS
<1> USE DEF LoginInv
<1>1. ASSUME NEW r \in Login, ReadAccount(r) PROVE LoginInv'
  <2>1. tries' \in 0 .. MaxTries /\ tries' = tries + 1
    BY <1>1, LoginAssumption DEF ReadAccount, LoginTypeOK
  <2>2. PICK right \in BOOLEAN :
          login' = IF is_account_locked THEN login
                   ELSE [login EXCEPT ![r] = [pc |-> "commit", read |-> account, right |-> right]]
    BY <1>1 DEF ReadAccount
  <2>3. [pc |-> "commit", read |-> account, right |-> right]
          \in [pc : LoginPc, read : Columns, right : BOOLEAN]
    BY DEF LoginTypeOK, LoginPc
  <2>4. login' \in [Login -> [pc : LoginPc, read : Columns, right : BOOLEAN]]
    BY <2>2, <2>3 DEF LoginTypeOK
  <2>5. account.attempts \in Nat /\ \A q \in Login : login[q].read.attempts \in Nat
    BY DEF LoginTypeOK, Columns, Attempts
  <2>6. CountsTries'
    BY <1>1, <2>1, <2>2, <2>5 DEF ReadAccount, CountsTries, LoginTypeOK
  <2> QED
    BY <1>1, <2>1, <2>4, <2>6 DEF ReadAccount, LoginTypeOK
<1>2. ASSUME NEW r \in Login, CommitLogin(r) PROVE LoginInv'
  <2>1. /\ Registered(r).attempts \in Attempts /\ Registered(r).attempts <= tries
        /\ Registered(r).lock \in Lock
    BY <1>2, RegisteredType DEF CommitLogin
  <2>2. account' = [attempts |-> account'.attempts, lock |-> account'.lock]
        /\ account'.attempts \in {account.attempts, Registered(r).attempts}
        /\ account'.lock \in {account.lock, Registered(r).lock}
    BY <1>2 DEF CommitLogin
  <2>3. account' \in Columns /\ account'.attempts <= tries
    BY <2>1, <2>2 DEF LoginTypeOK, Columns, CountsTries
  <2>4. NoLogin \in [pc : LoginPc, read : Columns, right : BOOLEAN]
    <3>1. 0 \in Attempts
      BY LoginAssumption DEF Attempts
    <3> QED
      BY <3>1 DEF NoLogin, LoginPc, Columns, Lock
  <2>5. login' \in [Login -> [pc : LoginPc, read : Columns, right : BOOLEAN]]
    BY <1>2, <2>4 DEF CommitLogin, LoginTypeOK, LoginPc
  <2>6. announced' \in BOOLEAN /\ hollow' \in BOOLEAN /\ crossed' \in BOOLEAN
    BY <1>2 DEF CommitLogin, LoginTypeOK
  <2>7. \A q \in Login : login'[q].pc = "commit" => login'[q] = login[q]
    BY <1>2 DEF CommitLogin, LoginTypeOK, NoLogin
  <2>8. CountsTries'
    BY <1>2, <2>3, <2>7 DEF CommitLogin, CountsTries
  <2> QED
    BY <1>2, <2>3, <2>5, <2>6, <2>8 DEF CommitLogin, LoginTypeOK
<1>3. ASSUME NEW r \in Login, PublishLock(r) PROVE LoginInv'
  <2>1. NoLogin \in [pc : LoginPc, read : Columns, right : BOOLEAN] /\ NoLogin.pc = "idle"
    <3>1. 0 \in Attempts
      BY LoginAssumption DEF Attempts
    <3> QED
      BY <3>1 DEF NoLogin, LoginPc, Columns, Lock
  <2>2. login' \in [Login -> [pc : LoginPc, read : Columns, right : BOOLEAN]]
    BY <1>3, <2>1 DEF PublishLock, LoginTypeOK
  <2>3. CountsTries'
    BY <1>3, <2>1 DEF PublishLock, LoginTypeOK, CountsTries
  <2> QED
    BY <1>3, <2>2, <2>3 DEF PublishLock, LoginTypeOK
<1>4. CASE LockExpires
  BY <1>4 DEF LockExpires, LoginTypeOK, Columns, Lock, CountsTries
<1>5. CASE LoginEnds
  <2>1. NoLogin \in [pc : LoginPc, read : Columns, right : BOOLEAN] /\ NoLogin.pc = "idle"
    <3>1. 0 \in Attempts
      BY LoginAssumption DEF Attempts
    <3> QED
      BY <3>1 DEF NoLogin, LoginPc, Columns, Lock
  <2>2. login' \in [Login -> [pc : LoginPc, read : Columns, right : BOOLEAN]]
    BY <1>5, <2>1 DEF LoginEnds
  <2>3. CountsTries'
    BY <1>5, <2>1 DEF LoginEnds, CountsTries
  <2>4. silenced' \in BOOLEAN
    BY <1>5 DEF LoginEnds, LoginTypeOK
  <2> QED
    BY <1>5, <2>2, <2>3, <2>4 DEF LoginEnds, LoginTypeOK
<1>6. CASE UNCHANGED loginVars
  BY <1>6 DEF loginVars, LoginTypeOK, CountsTries
<1> QED
  BY <1>1, <1>2, <1>3, <1>4, <1>5, <1>6 DEF LoginNext

\* The row of the account counts the failures of real attempts, and the
\* requests keep their shape.
THEOREM LoginTypes == LoginSpec => []LoginTypeOK
<1>1. LoginInit => LoginInv
  BY LoginInitInv
<1>2. LoginInv /\ [LoginNext]_loginVars => LoginInv'
  BY LoginStep
<1>3. LoginInv => LoginTypeOK
  BY DEF LoginInv
<1> QED
  BY <1>1, <1>2, <1>3, PTL DEF LoginSpec

LEMMA LoginAlways == LoginSpec => []LoginInv
<1>1. LoginInit => LoginInv
  BY LoginInitInv
<1>2. LoginInv /\ [LoginNext]_loginVars => LoginInv'
  BY LoginStep
<1> QED
  BY <1>1, <1>2, PTL DEF LoginSpec

\* The two shapes of a commit that nobody crossed.
LEMMA UncrossedCommit ==
  ASSUME LoginInv, NEW r \in Login, CommitLogin(r), ~crossed'
  PROVE  /\ ~crossed
         /\ \/ account'.attempts = 0 /\ account'.lock = "none" /\ ~just_locked(r)
            \/ /\ ~login[r].right /\ account'.attempts = account.attempts + 1
               /\ \/ account'.attempts >= MaxFailed /\ Registered(r).lock = "locked"
                  \/ /\ account'.attempts < MaxFailed /\ account'.lock = account.lock
                     /\ Registered(r).lock = account.lock
<1>1. ~crossed /\ login[r].read = account
  BY DEF CommitLogin
<1>2. account.attempts \in Nat /\ MaxFailed \in Nat
  BY LoginAssumption DEF LoginInv, LoginTypeOK, Columns, Attempts
<1>3. CASE login[r].right
  BY <1>1, <1>2, <1>3 DEF CommitLogin, Registered, register_successful_login, just_locked
<1>4. CASE ~login[r].right
  <2>1. Registered(r) = [attempts |-> account.attempts + 1,
                         lock |-> IF account.attempts + 1 >= MaxFailed THEN "locked" ELSE account.lock]
    BY <1>1, <1>4 DEF Registered, register_failed_login
  <2>2. account.attempts + 1 # account.attempts
    BY <1>2
  <2>3. account'.attempts = account.attempts + 1
    BY <1>1, <2>1, <2>2 DEF CommitLogin
  <2>4. account'.lock = Registered(r).lock
    BY <1>1, <2>1 DEF CommitLogin
  <2> QED
    BY <1>1, <1>2, <1>4, <2>1, <2>3, <2>4
<1> QED
  BY <1>3, <1>4

\* LockIsAnnounced with what its second half rests on.
Announcing == LockIsAnnounced /\ LockedIsCounted

LEMMA AnnouncingStep == LoginInv /\ Announcing /\ [LoginNext]_loginVars => Announcing'
<1> SUFFICES ASSUME LoginInv, Announcing, [LoginNext]_loginVars PROVE Announcing'
  OBVIOUS
<1> DEFINE Publishing == \E r \in Login : login[r].pc = "publish"
<1>1. ASSUME NEW r \in Login, ReadAccount(r) PROVE Announcing'
  <2>1. Publishing => Publishing'
    BY <1>1 DEF ReadAccount, LoginInv, LoginTypeOK
  <2> QED
    BY <1>1, <2>1 DEF ReadAccount, Announcing, LockIsAnnounced, LockedIsCounted
<1>2. ASSUME NEW r \in Login, CommitLogin(r) PROVE Announcing'
  <2>1. just_locked(r) => Publishing'
    BY <1>2 DEF CommitLogin, LoginInv, LoginTypeOK
  <2>2. Publishing => Publishing'
    BY <1>2 DEF CommitLogin, LoginInv, LoginTypeOK
  <2>3. Registered(r).lock = "locked" => just_locked(r)
    BY DEF just_locked, Registered, register_successful_login
  <2>4. account'.lock = "locked" => announced' \/ silenced' \/ Publishing'
    <3>1. CASE Registered(r).lock = "locked"
      BY <2>1, <2>3, <3>1
    <3>2. CASE Registered(r).lock # "locked" /\ account'.lock = "locked"
      <4>1. account.lock = "locked" /\ announced' = announced /\ silenced' = silenced
        BY <1>2, <3>2 DEF CommitLogin, LoginInv, LoginTypeOK
      <4> QED
        BY <2>2, <4>1 DEF Announcing, LockIsAnnounced
    <3> QED
      BY <3>1, <3>2
  <2>5. ASSUME ~crossed' PROVE ~hollow' /\ (account'.lock # "none" => account'.attempts >= MaxFailed)
    <3>1. account.attempts \in Nat /\ MaxFailed \in Nat /\ ~hollow
      BY <1>2, <2>5, UncrossedCommit, LoginAssumption
         DEF LoginInv, LoginTypeOK, Columns, Attempts, Announcing, LockIsAnnounced
    <3>2. account.lock # "none" => account.attempts >= MaxFailed
      BY <1>2, <2>5, UncrossedCommit DEF Announcing, LockedIsCounted
    <3>3. CASE account'.attempts = 0 /\ account'.lock = "none" /\ ~just_locked(r)
      BY <1>2, <3>1, <3>3 DEF CommitLogin
    <3>4. CASE account'.attempts >= MaxFailed /\ Registered(r).lock = "locked"
      BY <1>2, <3>1, <3>4 DEF CommitLogin
    <3>5. CASE /\ account'.attempts = account.attempts + 1 /\ account'.attempts < MaxFailed
               /\ account'.lock = account.lock /\ Registered(r).lock = account.lock
      <4>1. account.lock = "none"
        BY <3>1, <3>2, <3>5
      <4>2. ~just_locked(r)
        BY <3>5, <4>1 DEF just_locked
      <4> QED
        BY <1>2, <3>1, <3>5, <4>1, <4>2 DEF CommitLogin
    <3> QED
      BY <1>2, <2>5, <3>3, <3>4, <3>5, UncrossedCommit
  <2> QED
    BY <2>4, <2>5 DEF Announcing, LockIsAnnounced, LockedIsCounted
<1>3. ASSUME NEW r \in Login, PublishLock(r) PROVE Announcing'
  BY <1>3 DEF PublishLock, Announcing, LockIsAnnounced, LockedIsCounted
<1>4. CASE LockExpires
  BY <1>4 DEF LockExpires, Announcing, LockIsAnnounced, LockedIsCounted, LoginInv, LoginTypeOK, Columns
<1>5. CASE LoginEnds
  BY <1>5 DEF LoginEnds, Announcing, LockIsAnnounced, LockedIsCounted
<1>6. CASE UNCHANGED loginVars
  BY <1>6 DEF loginVars, Announcing, LockIsAnnounced, LockedIsCounted
<1> QED
  BY <1>1, <1>2, <1>3, <1>4, <1>5, <1>6 DEF LoginNext

\* A lock in force has been published, or its request is about to, unless the
\* process ended in between; and logins that never overlapped publish nothing
\* but locks (login, register_failed_login), for any limit and any number of
\* logins.
THEOREM LocksAreAnnounced == LoginSpec => []LockIsAnnounced
<1>1. LoginInit => Announcing
  BY DEF LoginInit, Announcing, LockIsAnnounced, LockedIsCounted
<1>2. LoginInv /\ Announcing /\ [LoginNext]_loginVars => Announcing'
  BY AnnouncingStep
<1>3. Announcing => LockIsAnnounced
  BY DEF Announcing
<1> QED
  BY <1>1, <1>2, <1>3, LoginAlways, PTL DEF LoginSpec


(***************************************************************************)
(* Scans.                                                                  *)
(***************************************************************************)

JobStatus == {"none", "running", "completed", "failed"}
JobType == [kind : Kind, status : JobStatus, scanned : Nat, infected : Nat, finished : Nat]
ScanType == [pc : ScanPc, kind : Kind, left : Nat, scanned : Nat, infected : Nat, fails : Nat]
TruthType == [total : Nat, skipped : Nat, answered : Nat, threats : Nat, given : BOOLEAN]
RowType == [scan : Scan, kind : Kind, scanned : Nat, infected : Nat, finished : Nat]

\* What the code of a scan counts is what became of its files.
Counts(s) ==
  /\ scan[s].pc \in {"none", "ping"} =>
       truth[s] = NoTruth /\ scan[s].scanned = 0 /\ scan[s].infected = 0
  /\ scan[s].pc \in {"file", "row"} =>
       ~truth[s].given /\ scan[s].scanned = truth[s].answered /\ scan[s].infected = truth[s].threats
  /\ scan[s].pc = "file" => truth[s].answered + truth[s].skipped + scan[s].left = truth[s].total
  /\ scan[s].pc = "row" => truth[s].answered + truth[s].skipped = truth[s].total

\* The row of a scan is the last thing it writes.
NoRowYet(s) == scan[s].pc # "over" => \A row \in history : row.scan # s

CountInv == ScanTypeOK /\ (\A s \in Scan : Counts(s) /\ NoRowYet(s)) /\ HistoryIsHonest

\* The job of a scan that is completed, beside its code and its row.
JobOf(s) ==
  /\ scan[s].pc = "ping" /\ scan[s].kind # "full" => job[s].kind = scan[s].kind
  /\ scan[s].pc \in {"file", "row"} => job[s].kind = scan[s].kind
  /\ scan[s].pc = "row" => job[s].status = "completed" /\ job[s].infected = scan[s].infected
  /\ job[s].status = "completed" =>
       /\ scan[s].pc \in {"row", "over"} /\ job[s].finished > 0
       /\ \/ scan[s].pc = "row" \/ rowLost
          \/ \E row \in history : /\ row.kind = job[s].kind /\ row.finished = job[s].finished
                                  /\ row.infected = job[s].infected

Stamped == (\A s \in Scan : job[s].finished <= stamp) /\ (\A row \in history : row.finished <= stamp)

\* No full row is younger than the youngest of the full jobs completed, if any.
FullRowsFollow ==
  \A row \in FullRows : Completed("full") = {} \/ \E s \in Completed("full") : row.finished <= job[s].finished

TileInv == (\A s \in Scan : JobOf(s)) /\ Stamped /\ FullRowsFollow

\* The types of a scan, its job, its truth and its row, by name.
LEMMA ScanTypeNames ==
  ScanTypeOK <=> /\ clamd \in BOOLEAN /\ enabled \in BOOLEAN /\ rowLost \in BOOLEAN /\ stamp \in Nat
                 /\ job \in [Scan -> JobType] /\ scan \in [Scan -> ScanType]
                 /\ history \subseteq RowType /\ truth \in [Scan -> TruthType]
                 /\ base \in [disk : Nat, used : Nat]
                 /\ update \in [pc : {"idle", "before", "read", "done"}, before : Nat, seen : Nat,
                                reads : Nat]
BY DEF ScanTypeOK, JobType, JobStatus, ScanType, RowType, TruthType

\* A step of one scan: its record, its job and its truth are new, and a row
\* may be added.
OneScan(s, new, t, j) ==
  /\ scan' = [scan EXCEPT ![s] = new] /\ truth' = [truth EXCEPT ![s] = t]
  /\ job' = [job EXCEPT ![s] = j]
  /\ new \in ScanType /\ t \in TruthType /\ j \in JobType

Quiet == UNCHANGED <<clamd, enabled, base, update>>

\* The kinds of steps of a scan, with what they leave.
Asked(s) ==
  \E j \in JobType, kind \in Kind :
    /\ scan[s].pc = "none"
    /\ OneScan(s, [scan[s] EXCEPT !.pc = "ping", !.kind = kind], truth[s], j)
    /\ j.status # "completed" /\ j.finished <= stamp /\ (kind # "full" => j.kind = kind)
    /\ UNCHANGED <<history, stamp, rowLost>>

Pinged(s) ==
  \E j \in JobType, n \in Nat :
    /\ scan[s].pc = "ping"
    /\ OneScan(s, [scan[s] EXCEPT !.pc = "file", !.left = n], [truth[s] EXCEPT !.total = n], j)
    /\ j.status # "completed" /\ j.finished <= stamp /\ j.kind = scan[s].kind
    /\ UNCHANGED <<history, stamp, rowLost>>

\* One file less is left, and it was answered for or passed over.
Consumes(s, new, t) ==
  /\ new.scanned - scan[s].scanned = t.answered - truth[s].answered
  /\ new.infected - scan[s].infected = t.threats - truth[s].threats
  /\ t.answered + t.skipped + new.left = truth[s].answered + truth[s].skipped + scan[s].left
  /\ t.total = truth[s].total /\ (t.given => truth[s].given)

Scanned(s) ==
  \E j \in JobType, new \in ScanType, t \in TruthType :
    /\ scan[s].pc = "file" /\ OneScan(s, new, t, j) /\ Consumes(s, new, t)
    /\ new.pc = "file" /\ new.kind = scan[s].kind
    /\ j.status = job[s].status /\ j.kind = job[s].kind /\ j.finished = job[s].finished
    /\ UNCHANGED <<history, stamp, rowLost>>

GivenUp(s) ==
  \E j \in JobType, t \in TruthType :
    /\ scan[s].pc \in {"ping", "file"} /\ OneScan(s, [scan[s] EXCEPT !.pc = "over"], t, j)
    /\ j.status # "completed"
    /\ \/ stamp' = stamp + 1 /\ j.finished = stamp + 1
       \/ stamp' = stamp /\ j = job[s]
    /\ UNCHANGED <<history, rowLost>>

CompletesScan(s) ==
  \E j \in JobType :
    /\ scan[s].pc = "file" /\ scan[s].left = 0
    /\ OneScan(s, [scan[s] EXCEPT !.pc = "row"], truth[s], j)
    /\ j.kind = job[s].kind /\ j.status = "completed" /\ j.infected = scan[s].infected
    /\ stamp' = stamp + 1 /\ j.finished = stamp + 1
    /\ UNCHANGED <<history, rowLost>>

Records(s) ==
  /\ scan[s].pc = "row"
  /\ OneScan(s, [scan[s] EXCEPT !.pc = "over"], truth[s], job[s])
  /\ UNCHANGED stamp
  /\ \/ UNCHANGED rowLost
        /\ history' = history \cup {[scan |-> s, kind |-> scan[s].kind, scanned |-> scan[s].scanned,
                                     infected |-> scan[s].infected, finished |-> job[s].finished]}
     \/ rowLost' = TRUE /\ UNCHANGED history

StepOf(s) == Asked(s) \/ Pinged(s) \/ Scanned(s) \/ GivenUp(s) \/ CompletesScan(s) \/ Records(s)

Elsewhere == UNCHANGED <<job, scan, history, stamp, truth, rowLost>>

\* Every action of a scan is a step of one of these kinds.
LEMMA ScanKinds ==
  ASSUME ScanTypeOK, \A s \in Scan : JobOf(s), Stamped, NEW s \in Scan,
         \/ \E kind \in Kind : StartScan(s, kind)
         \/ StartFullScan(s) \/ PingScan(s) \/ SkipFile(s) \/ ScanFile(s)
         \/ FailFile(s) \/ EndScan(s) \/ RecordScanHistory(s)
  PROVE  StepOf(s) /\ Quiet
<1>0. /\ job \in [Scan -> JobType] /\ scan \in [Scan -> ScanType] /\ truth \in [Scan -> TruthType]
      /\ scan[s] \in ScanType /\ job[s] \in JobType /\ truth[s] \in TruthType /\ stamp \in Nat
      /\ job[s].finished <= stamp /\ JobOf(s)
  BY ScanTypeNames DEF Stamped
<1>s. scan[s] \in ScanType
  BY <1>0
<1>t. truth[s] \in TruthType
  BY <1>0
<1>j. job[s] \in JobType
  BY <1>0
<1>a. /\ scan[s].pc \in ScanPc /\ scan[s].kind \in Kind /\ scan[s].left \in Nat
      /\ scan[s].scanned \in Nat /\ scan[s].infected \in Nat /\ scan[s].fails \in Nat
  BY <1>0 DEF ScanType
<1>b. /\ truth[s].total \in Nat /\ truth[s].skipped \in Nat /\ truth[s].answered \in Nat
      /\ truth[s].threats \in Nat /\ truth[s].given \in BOOLEAN
  BY <1>0 DEF TruthType
<1>c. /\ job[s].status \in JobStatus /\ job[s].scanned \in Nat /\ job[s].infected \in Nat
      /\ job[s].finished \in Nat
  BY <1>0 DEF JobType
<1>d. /\ {"ping", "file", "row", "over"} \subseteq ScanPc /\ "full" \in Kind
      /\ {"running", "completed", "failed"} \subseteq JobStatus /\ {0, 1} \subseteq Nat
  BY DEF ScanPc, Kind, JobStatus
<1>o. [scan[s] EXCEPT !.pc = "over"] \in ScanType /\ [scan[s] EXCEPT !.pc = "row"] \in ScanType
  BY <1>s, <1>d DEF ScanType
<1>1. scan = [scan EXCEPT ![s] = scan[s]] /\ truth = [truth EXCEPT ![s] = truth[s]]
      /\ job = [job EXCEPT ![s] = job[s]]
  BY <1>0
<1>2. scan[s].pc \in {"none", "ping", "file"} => job[s].status # "completed"
  BY <1>0 DEF JobOf
<1>3. ASSUME NEW kind \in Kind
      PROVE  /\ [NoJob EXCEPT !.kind = kind, !.status = "running"] \in JobType
             /\ [NoJob EXCEPT !.kind = kind, !.status = "running"].kind = kind
             /\ [NoJob EXCEPT !.kind = kind, !.status = "running"].finished = 0
             /\ [NoJob EXCEPT !.kind = kind, !.status = "running"].status = "running"
  BY DEF NoJob, JobType, JobStatus
<1>4. ASSUME NEW kind \in Kind, StartScan(s, kind)
      PROVE  StepOf(s) /\ Quiet
  <2> DEFINE new == [scan[s] EXCEPT !.pc = "ping", !.kind = kind]
             j == [NoJob EXCEPT !.kind = kind, !.status = "running"]
  <2>1. scan' = [scan EXCEPT ![s] = new] /\ job' = [job EXCEPT ![s] = j]
    BY <1>0, <1>4 DEF StartScan, CreateJob
  <2>2. new \in ScanType
    BY <1>s, <1>d DEF ScanType
  <2>3. j \in JobType /\ j.status = "running" /\ j.finished = 0 /\ j.kind = kind
    BY <1>3
  <2> HIDE DEF j
  <2>4. OneScan(s, new, truth[s], j)
    BY <1>0, <1>1, <1>4, <2>1, <2>2, <2>3 DEF OneScan, StartScan
  <2>5. Asked(s)
    <3>1. scan[s].pc = "none" /\ UNCHANGED <<history, stamp, rowLost>>
      BY <1>4 DEF StartScan
    <3>2. j.status # "completed" /\ j.finished <= stamp
      BY <1>0, <2>3
    <3> QED
      BY <1>4, <2>3, <2>4, <3>1, <3>2 DEF Asked
  <2> QED
    BY <1>4, <2>5 DEF StepOf, StartScan, Quiet, world, databases
<1>5. CASE StartFullScan(s)
  <2>1. scan' = [scan EXCEPT ![s] = [scan[s] EXCEPT !.pc = "ping", !.kind = "full"]]
    BY <1>0, <1>5 DEF StartFullScan
  <2>2. [scan[s] EXCEPT !.pc = "ping", !.kind = "full"] \in ScanType
    BY <1>s, <1>d DEF ScanType
  <2>3. OneScan(s, [scan[s] EXCEPT !.pc = "ping", !.kind = "full"], truth[s], job[s])
    BY <1>0, <1>1, <1>5, <2>1, <2>2 DEF OneScan, StartFullScan
  <2>4. Asked(s)
    <3>1. scan[s].pc = "none" /\ UNCHANGED <<history, stamp, rowLost>>
      BY <1>5 DEF StartFullScan
    <3>2. job[s].status # "completed"
      BY <1>2, <3>1
    <3> QED
      BY <1>0, <1>d, <2>3, <3>1, <3>2 DEF Asked
  <2> QED
    BY <1>5, <2>4 DEF StepOf, StartFullScan, Quiet, world, databases
<1>6. ASSUME NEW scanned \in Nat, NEW infected \in Nat, MarkFailed(s, scanned, infected)
      PROVE  \E j \in JobType : /\ job' = [job EXCEPT ![s] = j] /\ j.status = "failed"
                                /\ stamp' = stamp + 1 /\ j.finished = stamp + 1
  <2> DEFINE j == [job[s] EXCEPT !.status = "failed", !.scanned = scanned, !.infected = infected,
                                 !.finished = stamp + 1]
  <2>1. j \in JobType /\ j.status = "failed" /\ j.finished = stamp + 1
    <3>1. stamp + 1 \in Nat /\ "failed" \in JobStatus
      BY <1>0, <1>d
    <3> QED
      BY <1>j, <3>1 DEF JobType
  <2>2. stamp' = stamp + 1 /\ job' = [job EXCEPT ![s] = j]
    BY <1>0, <1>6 DEF MarkFailed
  <2> HIDE DEF j
  <2> QED
    BY <2>1, <2>2
<1>7. CASE PingScan(s)
  <2>1. CASE clamd /\ enabled /\ Candidates(s) /\ UNCHANGED stamp
             /\ IF scan[s].kind = "full" THEN CreateJob(s, "full") ELSE UNCHANGED job
    <3>1. PICK n \in Count : /\ scan' = [scan EXCEPT ![s].pc = "file", ![s].left = n]
                             /\ truth' = [truth EXCEPT ![s].total = n]
      BY <2>1 DEF Candidates
    <3> DEFINE new == [scan[s] EXCEPT !.pc = "file", !.left = n]
               t == [truth[s] EXCEPT !.total = n]
    <3>2. n \in Nat
      BY ScanAssumption DEF Count
    <3>a. new \in ScanType
      BY <1>s, <1>d, <3>2 DEF ScanType
    <3>b. t \in TruthType
      BY <1>t, <3>2 DEF TruthType
    <3>4. scan' = [scan EXCEPT ![s] = new] /\ truth' = [truth EXCEPT ![s] = t]
      BY <1>0, <3>1
    <3>5. PICK j \in JobType : /\ job' = [job EXCEPT ![s] = j] /\ j.status # "completed"
                               /\ j.finished <= stamp /\ j.kind = scan[s].kind
      <4>1. CASE scan[s].kind = "full"
        <5> DEFINE j == [NoJob EXCEPT !.kind = "full", !.status = "running"]
        <5>1. j \in JobType /\ j.status = "running" /\ j.finished = 0 /\ j.kind = "full"
          BY <1>3, <1>d
        <5>2. job' = [job EXCEPT ![s] = j]
          BY <2>1, <4>1 DEF CreateJob
        <5> HIDE DEF j
        <5>3. 0 <= stamp /\ "running" # "completed"
          BY <1>0
        <5> QED
          BY <4>1, <5>1, <5>2, <5>3
      <4>2. CASE scan[s].kind # "full"
        BY <1>0, <1>1, <1>2, <1>7, <2>1, <4>2 DEF JobOf, PingScan
      <4> QED
        BY <4>1, <4>2
    <3>6. OneScan(s, new, t, j)
      BY <3>a, <3>b, <3>4, <3>5 DEF OneScan
    <3>7. Pinged(s)
      BY <1>7, <2>1, <3>2, <3>5, <3>6 DEF Pinged, PingScan
    <3> QED
      BY <1>7, <3>7 DEF StepOf, PingScan, Quiet, world, databases
  <2>2. CASE scan' = [scan EXCEPT ![s].pc = "over"] /\ UNCHANGED truth
             /\ IF scan[s].kind = "full" THEN UNCHANGED <<job, stamp>> ELSE MarkFailed(s, 0, 0)
    <3>1. /\ [scan[s] EXCEPT !.pc = "over"] \in ScanType
          /\ scan' = [scan EXCEPT ![s] = [scan[s] EXCEPT !.pc = "over"]]
      BY <1>o, <1>0, <2>2
    <3>2. PICK j \in JobType : /\ job' = [job EXCEPT ![s] = j] /\ j.status # "completed"
                               /\ \/ stamp' = stamp + 1 /\ j.finished = stamp + 1
                                  \/ stamp' = stamp /\ j = job[s]
      BY <1>0, <1>1, <1>2, <1>6, <1>7, <1>d, <2>2 DEF PingScan
    <3>3. OneScan(s, [scan[s] EXCEPT !.pc = "over"], truth[s], j)
      BY <1>0, <1>1, <2>2, <3>1, <3>2 DEF OneScan
    <3>4. GivenUp(s)
      BY <1>0, <1>7, <3>2, <3>3 DEF GivenUp, PingScan
    <3> QED
      BY <1>7, <3>4 DEF StepOf, PingScan, Quiet, world, databases
  <2> QED
    BY <1>7, <2>1, <2>2 DEF PingScan
<1>8. CASE SkipFile(s)
  <2> DEFINE new == [scan[s] EXCEPT !.left = scan[s].left - 1]
             t == [truth[s] EXCEPT !.skipped = truth[s].skipped + 1]
  <2>1. scan[s].pc = "file" /\ scan[s].left - 1 \in Nat
    BY <1>8, <1>a DEF SkipFile, Scanning
  <2>2. scan' = [scan EXCEPT ![s] = new] /\ truth' = [truth EXCEPT ![s] = t]
    BY <1>0, <1>8 DEF SkipFile
  <2>3. /\ new \in ScanType /\ new.pc = scan[s].pc /\ new.kind = scan[s].kind
        /\ new.scanned = scan[s].scanned /\ new.infected = scan[s].infected
        /\ new.left = scan[s].left - 1
    BY <1>s, <2>1 DEF ScanType
  <2>4. /\ t \in TruthType /\ t.answered = truth[s].answered /\ t.threats = truth[s].threats
        /\ t.skipped = truth[s].skipped + 1 /\ t.total = truth[s].total /\ t.given = truth[s].given
    <3>1. truth[s].skipped + 1 \in Nat
      BY <1>b
    <3> QED
      BY <1>t, <3>1 DEF TruthType
  <2> HIDE DEF new, t
  <2>5. OneScan(s, new, t, job[s])
    BY <1>0, <1>1, <1>8, <2>2, <2>3, <2>4 DEF OneScan, SkipFile
  <2>6. Scanned(s)
    <3>1. Consumes(s, new, t)
      BY <1>a, <1>b, <2>3, <2>4 DEF Consumes
    <3>2. UNCHANGED <<history, stamp, rowLost>>
      BY <1>8 DEF SkipFile
    <3> QED
      BY <1>j, <2>1, <2>3, <2>4, <2>5, <3>1, <3>2 DEF Scanned
  <2> QED
    BY <1>8, <2>6 DEF StepOf, SkipFile, Quiet, world, databases
<1>9. CASE ScanFile(s)
  <2>1. PICK threat \in {0, 1} :
          LET next == [scan[s] EXCEPT !.left = @ - 1, !.scanned = @ + 1, !.infected = @ + threat,
                                     !.fails = 0] IN
          /\ scan' = [scan EXCEPT ![s] = next]
          /\ truth' = [truth EXCEPT ![s].answered = @ + 1, ![s].threats = @ + threat]
          /\ job' = IF scan[s].kind = "full"
                    THEN [job EXCEPT ![s].scanned = next.scanned, ![s].infected = next.infected]
                    ELSE job
    BY <1>9 DEF ScanFile
  <2> DEFINE new == [scan[s] EXCEPT !.left = scan[s].left - 1, !.scanned = scan[s].scanned + 1,
                                    !.infected = scan[s].infected + threat, !.fails = 0]
             t == [truth[s] EXCEPT !.answered = truth[s].answered + 1,
                                   !.threats = truth[s].threats + threat]
  <2>2. /\ scan[s].pc = "file" /\ scan[s].left - 1 \in Nat /\ scan[s].scanned + 1 \in Nat
        /\ scan[s].infected + threat \in Nat /\ threat \in Nat
    BY <1>9, <1>a DEF ScanFile, Scanning
  <2>3. /\ new \in ScanType /\ new.pc = scan[s].pc /\ new.kind = scan[s].kind
        /\ new.scanned = scan[s].scanned + 1 /\ new.infected = scan[s].infected + threat
        /\ new.left = scan[s].left - 1
    BY <1>s, <2>2 DEF ScanType
  <2>4. /\ t \in TruthType /\ t.answered = truth[s].answered + 1 /\ t.threats = truth[s].threats + threat
        /\ t.skipped = truth[s].skipped /\ t.total = truth[s].total /\ t.given = truth[s].given
    <3>1. truth[s].answered + 1 \in Nat /\ truth[s].threats + threat \in Nat
      BY <1>b, <2>2
    <3> QED
      BY <1>t, <3>1 DEF TruthType
  <2>5. scan' = [scan EXCEPT ![s] = new]
    BY <2>1
  <2>6. truth' = [truth EXCEPT ![s] = t]
    <3>1. truth \in [Scan -> TruthType]
      BY <1>0
    <3>2. [truth EXCEPT ![s].answered = @ + 1, ![s].threats = @ + threat] = [truth EXCEPT ![s] = t]
      BY <3>1 DEF TruthType
    <3> QED
      BY <2>1, <3>2
  <2>7. job' = IF scan[s].kind = "full"
               THEN [job EXCEPT ![s].scanned = new.scanned, ![s].infected = new.infected] ELSE job
    BY <2>1
  <2> HIDE DEF new, t
  <2>8. PICK j \in JobType : /\ job' = [job EXCEPT ![s] = j] /\ j.status = job[s].status
                             /\ j.kind = job[s].kind /\ j.finished = job[s].finished
    <3>1. CASE scan[s].kind = "full"
      <4> DEFINE j == [job[s] EXCEPT !.scanned = new.scanned, !.infected = new.infected]
      <4>1. job' = [job EXCEPT ![s] = j]
        <5>1. job \in [Scan -> JobType]
          BY <1>0
        <5>2. [job EXCEPT ![s].scanned = new.scanned, ![s].infected = new.infected]
                = [job EXCEPT ![s] = j]
          BY <5>1 DEF JobType
        <5> QED
          BY <2>7, <3>1, <5>2
      <4>2. /\ j \in JobType /\ j.status = job[s].status /\ j.kind = job[s].kind
            /\ j.finished = job[s].finished
        <5>1. new.scanned \in Nat /\ new.infected \in Nat
          BY <2>2, <2>3
        <5> QED
          BY <1>j, <5>1 DEF JobType
      <4> HIDE DEF j
      <4> QED
        BY <4>1, <4>2
    <3>2. CASE scan[s].kind # "full"
      BY <1>0, <1>1, <2>7, <3>2
    <3> QED
      BY <3>1, <3>2
  <2>9. OneScan(s, new, t, j)
    BY <2>3, <2>4, <2>5, <2>6, <2>8 DEF OneScan
  <2>10. Scanned(s)
    <3>1. Consumes(s, new, t)
      BY <1>a, <1>b, <2>2, <2>3, <2>4 DEF Consumes
    <3>2. UNCHANGED <<history, stamp, rowLost>>
      BY <1>9 DEF ScanFile
    <3> QED
      BY <2>2, <2>3, <2>4, <2>8, <2>9, <3>1, <3>2 DEF Scanned
  <2> QED
    BY <1>9, <2>10 DEF StepOf, ScanFile, Quiet, world, databases
<1>10. CASE FailFile(s)
  <2> DEFINE t == [truth[s] EXCEPT !.skipped = truth[s].skipped + 1, !.given = GivesUp(s)]
  <2>1. GivesUp(s) \in BOOLEAN /\ scan[s].pc = "file" /\ scan[s].left - 1 \in Nat
    BY <1>10, <1>a DEF GivesUp, FailFile, Scanning
  <2>2. /\ t \in TruthType /\ t.answered = truth[s].answered /\ t.threats = truth[s].threats
        /\ t.skipped = truth[s].skipped + 1 /\ t.total = truth[s].total /\ t.given = GivesUp(s)
    <3>1. truth[s].skipped + 1 \in Nat
      BY <1>b
    <3> DEFINE g == GivesUp(s)
    <3>2. g \in BOOLEAN
      BY <2>1
    <3> HIDE DEF g
    <3>3. LET u == [truth[s] EXCEPT !.skipped = truth[s].skipped + 1, !.given = g] IN
          /\ u \in TruthType /\ u.answered = truth[s].answered /\ u.threats = truth[s].threats
          /\ u.skipped = truth[s].skipped + 1 /\ u.total = truth[s].total /\ u.given = g
      BY <1>t, <3>1, <3>2 DEF TruthType
    <3> QED
      BY <3>3 DEF g
  <2>3. truth' = [truth EXCEPT ![s] = t]
    <3>1. truth \in [Scan -> TruthType]
      BY <1>0
    <3> DEFINE g == GivesUp(s)
    <3>2. truth' = [truth EXCEPT ![s].skipped = @ + 1, ![s].given = g]
      BY <1>10 DEF FailFile
    <3> HIDE DEF g
    <3>3. truth' = [truth EXCEPT ![s] = [truth[s] EXCEPT !.skipped = truth[s].skipped + 1, !.given = g]]
      BY <3>1, <3>2 DEF TruthType
    <3> QED
      BY <3>3 DEF g
  <2> HIDE DEF t
  <2>4. CASE GivesUp(s)
    <3>1. /\ [scan[s] EXCEPT !.pc = "over"] \in ScanType
          /\ scan' = [scan EXCEPT ![s] = [scan[s] EXCEPT !.pc = "over"]]
      BY <1>0, <1>10, <1>o, <2>4 DEF FailFile
    <3>2. PICK j \in JobType : /\ job' = [job EXCEPT ![s] = j] /\ j.status # "completed"
                               /\ stamp' = stamp + 1 /\ j.finished = stamp + 1
      BY <1>6, <1>10, <1>c, <2>4 DEF FailFile
    <3>3. OneScan(s, [scan[s] EXCEPT !.pc = "over"], t, j)
      BY <2>2, <2>3, <3>1, <3>2 DEF OneScan
    <3>4. GivenUp(s)
      BY <1>10, <2>1, <2>2, <3>2, <3>3 DEF GivenUp, FailFile
    <3> QED
      BY <1>10, <3>4 DEF StepOf, FailFile, Quiet, world, databases
  <2>5. CASE ~GivesUp(s)
    <3> DEFINE new == [scan[s] EXCEPT !.left = scan[s].left - 1, !.fails = scan[s].fails + 1]
    <3>1. /\ new \in ScanType /\ new.pc = scan[s].pc /\ new.kind = scan[s].kind
          /\ new.scanned = scan[s].scanned /\ new.infected = scan[s].infected
          /\ new.left = scan[s].left - 1
      <4>1. scan[s].fails + 1 \in Nat
        BY <1>a
      <4> QED
        BY <1>s, <2>1, <4>1 DEF ScanType
    <3>2. scan' = [scan EXCEPT ![s].left = @ - 1, ![s].fails = @ + 1] /\ UNCHANGED <<job, stamp>>
      BY <1>10, <2>5 DEF FailFile
    <3>3. scan' = [scan EXCEPT ![s] = new]
      <4>1. scan \in [Scan -> ScanType]
        BY <1>0
      <4> QED
        BY <3>2, <4>1 DEF ScanType
    <3> HIDE DEF new
    <3>4. OneScan(s, new, t, job[s])
      BY <1>0, <1>1, <2>2, <2>3, <3>1, <3>2, <3>3 DEF OneScan
    <3>5. t.given = FALSE
      <4>1. GivesUp(s) = FALSE
        BY <2>1, <2>5
      <4> QED
        BY <2>2, <4>1
    <3>6. Consumes(s, new, t)
      BY <1>a, <1>b, <2>2, <3>1, <3>5 DEF Consumes
    <3>7. UNCHANGED <<history, stamp, rowLost>>
      BY <1>10, <3>2 DEF FailFile
    <3>8. Scanned(s)
      BY <1>j, <2>1, <2>2, <3>1, <3>4, <3>6, <3>7 DEF Scanned
    <3> QED
      BY <1>10, <3>8 DEF StepOf, FailFile, Quiet, world, databases
  <2> QED
    BY <2>4, <2>5
<1>11. CASE EndScan(s)
  <2> DEFINE j == [job[s] EXCEPT !.status = "completed", !.scanned = scan[s].scanned,
                                 !.infected = scan[s].infected, !.finished = stamp + 1]
  <2>1. /\ [scan[s] EXCEPT !.pc = "row"] \in ScanType
        /\ scan' = [scan EXCEPT ![s] = [scan[s] EXCEPT !.pc = "row"]]
    BY <1>0, <1>11, <1>o DEF EndScan
  <2>2. /\ j \in JobType /\ j.status = "completed" /\ j.kind = job[s].kind
        /\ j.infected = scan[s].infected /\ j.finished = stamp + 1
    <3>1. stamp + 1 \in Nat /\ "completed" \in JobStatus
      BY <1>0, <1>d
    <3>2. scan[s].scanned \in Nat /\ scan[s].infected \in Nat
      BY <1>a
    <3> QED
      BY <1>j, <3>1, <3>2 DEF JobType
  <2>3. stamp' = stamp + 1 /\ job' = [job EXCEPT ![s] = j]
    BY <1>0, <1>11 DEF EndScan, MarkCompleted
  <2> HIDE DEF j
  <2>4. OneScan(s, [scan[s] EXCEPT !.pc = "row"], truth[s], j)
    BY <1>0, <1>1, <1>11, <2>1, <2>2, <2>3 DEF OneScan, EndScan
  <2>5. CompletesScan(s)
    BY <1>11, <2>2, <2>3, <2>4 DEF CompletesScan, EndScan
  <2> QED
    BY <1>11, <2>5 DEF StepOf, EndScan, Quiet, world, databases
<1>12. CASE RecordScanHistory(s)
  <2>1. /\ [scan[s] EXCEPT !.pc = "over"] \in ScanType
        /\ scan' = [scan EXCEPT ![s] = [scan[s] EXCEPT !.pc = "over"]]
    BY <1>0, <1>12, <1>o DEF RecordScanHistory
  <2>2. OneScan(s, [scan[s] EXCEPT !.pc = "over"], truth[s], job[s])
    BY <1>0, <1>1, <1>12, <2>1 DEF OneScan, RecordScanHistory
  <2> QED
    BY <1>12, <2>2 DEF StepOf, Records, RecordScanHistory, Quiet, world, databases
<1> QED
  BY <1>4, <1>5, <1>7, <1>8, <1>9, <1>10, <1>11, <1>12

ScanInv == CountInv /\ TileInv

\* The values after a step of s.
LEMMA OneScanValues ==
  ASSUME ScanTypeOK, NEW s \in Scan, NEW new, NEW t, NEW j, OneScan(s, new, t, j)
  PROVE  /\ scan'[s] = new /\ truth'[s] = t /\ job'[s] = j
         /\ \A q \in Scan : q # s => /\ scan'[q] = scan[q] /\ truth'[q] = truth[q]
                                     /\ job'[q] = job[q]
         /\ scan' \in [Scan -> ScanType] /\ truth' \in [Scan -> TruthType]
         /\ job' \in [Scan -> JobType]
  BY ScanTypeNames DEF OneScan

\* What a step of s leaves to all the others.
LEMMA OthersStep ==
  ASSUME ScanTypeOK, NEW s \in Scan, StepOf(s)
  PROVE  /\ \A q \in Scan : q # s => /\ scan'[q] = scan[q] /\ truth'[q] = truth[q]
                                     /\ job'[q] = job[q]
         /\ scan' \in [Scan -> ScanType] /\ truth' \in [Scan -> TruthType]
         /\ job' \in [Scan -> JobType]
         /\ scan[s].pc # "over" /\ stamp' \in Nat /\ stamp <= stamp'
         /\ rowLost' \in BOOLEAN /\ (rowLost => rowLost')
         /\ \/ history' = history
            \/ /\ truth'[s] = truth[s] /\ job'[s] = job[s] /\ scan[s].pc = "row"
               /\ history' = history \cup {[scan |-> s, kind |-> scan[s].kind,
                     scanned |-> scan[s].scanned, infected |-> scan[s].infected,
                     finished |-> job[s].finished]}
<1>0. stamp \in Nat /\ rowLost \in BOOLEAN
  BY DEF ScanTypeOK
<1>1. CASE Asked(s)
  BY <1>0, <1>1, OneScanValues DEF Asked
<1>2. CASE Pinged(s)
  <2>1. PICK j \in JobType, n \in Nat :
        /\ OneScan(s, [scan[s] EXCEPT !.pc = "file", !.left = n], [truth[s] EXCEPT !.total = n], j)
        /\ scan[s].pc = "ping" /\ j.status # "completed" /\ j.finished <= stamp
        /\ j.kind = scan[s].kind /\ UNCHANGED <<history, stamp, rowLost>>
    BY <1>2 DEF Pinged
  <2> DEFINE new == [scan[s] EXCEPT !.pc = "file", !.left = n]
             t == [truth[s] EXCEPT !.total = n]
  <2>2. OneScan(s, new, t, j)
    BY <2>1
  <2> HIDE DEF new, t
  <2> QED
    BY <1>0, <2>1, <2>2, OneScanValues
<1>3. CASE Scanned(s)
  BY <1>0, <1>3, OneScanValues DEF Scanned
<1>4. CASE GivenUp(s)
  BY <1>0, <1>4, OneScanValues DEF GivenUp
<1>5. CASE CompletesScan(s)
  BY <1>0, <1>5, OneScanValues DEF CompletesScan
<1>6. CASE Records(s)
  <2> DEFINE new == [scan[s] EXCEPT !.pc = "over"]
             rows == history \cup {[scan |-> s, kind |-> scan[s].kind, scanned |-> scan[s].scanned,
                                    infected |-> scan[s].infected, finished |-> job[s].finished]}
  <2>1. /\ OneScan(s, new, truth[s], job[s]) /\ scan[s].pc = "row" /\ stamp' = stamp
        /\ \/ rowLost' = rowLost /\ history' = rows
           \/ rowLost' = TRUE /\ history' = history
    BY <1>6 DEF Records
  <2> HIDE DEF new
  <2>2. /\ truth'[s] = truth[s] /\ job'[s] = job[s]
        /\ \A q \in Scan : q # s => /\ scan'[q] = scan[q] /\ truth'[q] = truth[q]
                                    /\ job'[q] = job[q]
        /\ scan' \in [Scan -> ScanType] /\ truth' \in [Scan -> TruthType]
        /\ job' \in [Scan -> JobType]
    BY <2>1, OneScanValues
  <2> HIDE DEF rows
  <2>3. history' = history \/ history' = rows
    BY <2>1
  <2>4. rowLost' \in BOOLEAN /\ (rowLost => rowLost')
    <3>1. rowLost' = rowLost \/ rowLost' = TRUE
      BY <2>1
    <3> QED
      BY <1>0, <3>1, Zenon
  <2>5. scan[s].pc # "over" /\ stamp' \in Nat /\ stamp <= stamp'
    BY <1>0, <2>1
  <2> QED
    BY <2>1, <2>2, <2>3, <2>4, <2>5 DEF rows
<1> QED
  BY <1>1, <1>2, <1>3, <1>4, <1>5, <1>6 DEF StepOf

\* The row a scan writes has its type.
LEMMA RowTypes ==
  ASSUME ScanTypeOK, NEW s \in Scan
  PROVE  [scan |-> s, kind |-> scan[s].kind, scanned |-> scan[s].scanned,
          infected |-> scan[s].infected, finished |-> job[s].finished] \in RowType
<1>1. scan[s] \in ScanType /\ job[s] \in JobType
  BY ScanTypeNames
<1>2. /\ scan[s].kind \in Kind /\ scan[s].scanned \in Nat /\ scan[s].infected \in Nat
      /\ job[s].finished \in Nat
  BY <1>1 DEF ScanType, JobType
<1> QED
  BY <1>2 DEF RowType

\* A step of a scan keeps the types.
LEMMA TypesOfStep ==
  ASSUME ScanTypeOK, NEW s \in Scan, StepOf(s), Quiet
  PROVE  ScanTypeOK'
<1>1. history' \subseteq RowType
  BY OthersStep, RowTypes, ScanTypeNames
<1>2. /\ clamd' \in BOOLEAN /\ enabled' \in BOOLEAN /\ rowLost' \in BOOLEAN /\ stamp' \in Nat
      /\ job' \in [Scan -> JobType] /\ scan' \in [Scan -> ScanType]
      /\ truth' \in [Scan -> TruthType] /\ base' \in [disk : Nat, used : Nat]
      /\ update' \in [pc : {"idle", "before", "read", "done"}, before : Nat, seen : Nat,
                      reads : Nat]
  BY OthersStep, ScanTypeNames DEF Quiet
<1> QED
  BY <1>1, <1>2 DEF ScanTypeOK, JobType, JobStatus, ScanType, RowType, TruthType

\* It keeps what is said of counts, of the scan that moves and of the others.
LEMMA CountsOfStep ==
  ASSUME ScanInv, NEW s \in Scan, StepOf(s)
  PROVE  \A q \in Scan : Counts(q)' /\ NoRowYet(q)'
<1>0. ScanTypeOK /\ Counts(s) /\ NoRowYet(s) /\ \A q \in Scan : Counts(q) /\ NoRowYet(q)
  BY DEF ScanInv, CountInv
<1>s. scan[s] \in ScanType /\ truth[s] \in TruthType
  BY <1>0, ScanTypeNames
<1>a. scan[s].scanned \in Nat /\ scan[s].infected \in Nat /\ scan[s].left \in Nat
  BY <1>s DEF ScanType
<1>b. /\ truth[s].total \in Nat /\ truth[s].skipped \in Nat /\ truth[s].answered \in Nat
      /\ truth[s].threats \in Nat
  BY <1>s DEF TruthType
<1>1. ASSUME NEW q \in Scan, q # s
      PROVE  Counts(q)' /\ NoRowYet(q)'
  <2>1. scan'[q] = scan[q] /\ truth'[q] = truth[q]
    BY <1>0, <1>1, OthersStep
  <2>2. \A row \in history' : row.scan = q => row \in history
    BY <1>0, <1>1, OthersStep
  <2> QED
    BY <1>0, <2>1, <2>2 DEF Counts, NoRowYet
<1>2. NoRowYet(s)'
  <2>1. CASE history' = history
    BY <1>0, <2>1, OthersStep DEF NoRowYet
  <2>2. CASE history' # history
    <3>1. Records(s)
      BY <2>2 DEF StepOf, Asked, Pinged, Scanned, GivenUp, CompletesScan
    <3>2. scan'[s] = [scan[s] EXCEPT !.pc = "over"]
      BY <1>0, <3>1, OneScanValues DEF Records
    <3>3. scan'[s].pc = "over"
      BY <1>s, <3>2 DEF ScanType
    <3> QED
      BY <3>3 DEF NoRowYet
  <2> QED
    BY <2>1, <2>2
<1>3. Counts(s)'
  <2>1. CASE Asked(s)
    <3>a. PICK j \in JobType, kind \in Kind :
          /\ OneScan(s, [scan[s] EXCEPT !.pc = "ping", !.kind = kind], truth[s], j)
          /\ scan[s].pc = "none" /\ j.status # "completed" /\ j.finished <= stamp
          /\ (kind # "full" => j.kind = kind) /\ UNCHANGED <<history, stamp, rowLost>>
      BY <2>1 DEF Asked
    <3> DEFINE new == [scan[s] EXCEPT !.pc = "ping", !.kind = kind]
    <3>b. OneScan(s, new, truth[s], j)
      BY <3>a
    <3> HIDE DEF new
    <3>c. scan'[s] = new /\ truth'[s] = truth[s]
      BY <1>0, <3>b, OneScanValues
    <3>1. /\ scan'[s] = [scan[s] EXCEPT !.pc = "ping", !.kind = kind]
          /\ truth'[s] = truth[s] /\ scan[s].pc = "none"
      BY <3>a, <3>c DEF new
    <3>2. /\ scan'[s].pc = "ping" /\ scan'[s].scanned = scan[s].scanned
          /\ scan'[s].infected = scan[s].infected
      BY <1>s, <3>1 DEF ScanType
    <3> QED
      BY <1>0, <3>1, <3>2 DEF Counts
  <2>2. CASE Pinged(s)
    <3>a. PICK j \in JobType, n \in Nat :
          /\ OneScan(s, [scan[s] EXCEPT !.pc = "file", !.left = n], [truth[s] EXCEPT !.total = n], j)
          /\ scan[s].pc = "ping" /\ j.status # "completed" /\ j.finished <= stamp
          /\ j.kind = scan[s].kind /\ UNCHANGED <<history, stamp, rowLost>>
      BY <2>2 DEF Pinged
    <3> DEFINE new == [scan[s] EXCEPT !.pc = "file", !.left = n]
               t == [truth[s] EXCEPT !.total = n]
    <3>b. OneScan(s, new, t, j)
      BY <3>a
    <3> HIDE DEF new, t
    <3>c. scan'[s] = new /\ truth'[s] = t /\ job'[s] = j
      BY <1>0, <3>b, OneScanValues
    <3>1. /\ scan'[s] = [scan[s] EXCEPT !.pc = "file", !.left = n]
          /\ truth'[s] = [truth[s] EXCEPT !.total = n] /\ scan[s].pc = "ping"
      BY <3>a, <3>c DEF new, t
    <3>2. /\ scan'[s].pc = "file" /\ scan'[s].scanned = scan[s].scanned
          /\ scan'[s].infected = scan[s].infected /\ scan'[s].left = n
      BY <1>s, <3>1 DEF ScanType
    <3>3. truth[s] = NoTruth /\ scan[s].scanned = 0 /\ scan[s].infected = 0
      BY <1>0, <3>1 DEF Counts
    <3>4. /\ truth'[s].total = n /\ truth'[s].skipped = 0 /\ truth'[s].answered = 0
          /\ truth'[s].threats = 0 /\ truth'[s].given = FALSE
      BY <3>1, <3>3 DEF NoTruth
    <3> QED
      BY <3>2, <3>3, <3>4 DEF Counts
  <2>3. CASE Scanned(s)
    <3>1. PICK new \in ScanType, t \in TruthType :
            /\ scan'[s] = new /\ truth'[s] = t /\ Consumes(s, new, t)
            /\ scan[s].pc = "file" /\ new.pc = "file"
      BY <1>0, <2>3, OneScanValues DEF Scanned
    <3>2. /\ new.scanned \in Nat /\ new.infected \in Nat /\ new.left \in Nat
      BY DEF ScanType
    <3>3. /\ t.total \in Nat /\ t.skipped \in Nat /\ t.answered \in Nat /\ t.threats \in Nat
      BY DEF TruthType
    <3>4. /\ ~truth[s].given /\ scan[s].scanned = truth[s].answered
          /\ scan[s].infected = truth[s].threats
          /\ truth[s].answered + truth[s].skipped + scan[s].left = truth[s].total
      BY <1>0, <3>1 DEF Counts
    <3>5. /\ new.scanned = t.answered /\ new.infected = t.threats
          /\ t.answered + t.skipped + new.left = t.total /\ ~t.given
      BY <1>a, <1>b, <3>1, <3>2, <3>3, <3>4 DEF Consumes
    <3> QED
      BY <3>1, <3>5 DEF Counts
  <2>4. CASE GivenUp(s) \/ Records(s)
    <3>1. scan'[s] = [scan[s] EXCEPT !.pc = "over"]
      BY <1>0, <2>4, OneScanValues DEF GivenUp, Records
    <3>2. scan'[s].pc = "over"
      BY <1>s, <3>1 DEF ScanType
    <3> QED
      BY <3>2 DEF Counts
  <2>5. CASE CompletesScan(s)
    <3>1. /\ scan'[s] = [scan[s] EXCEPT !.pc = "row"] /\ truth'[s] = truth[s]
          /\ scan[s].pc = "file" /\ scan[s].left = 0
      BY <1>0, <2>5, OneScanValues DEF CompletesScan
    <3>2. /\ scan'[s].pc = "row" /\ scan'[s].scanned = scan[s].scanned
          /\ scan'[s].infected = scan[s].infected
      BY <1>s, <3>1 DEF ScanType
    <3> QED
      BY <1>0, <1>b, <3>1, <3>2 DEF Counts
  <2> QED
    BY <2>1, <2>2, <2>3, <2>4, <2>5 DEF StepOf
<1> QED
  BY <1>1, <1>2, <1>3

\* It leaves the rows honest: the one it adds, and those there were.
LEMMA HistoryOfStep ==
  ASSUME ScanInv, NEW s \in Scan, StepOf(s)
  PROVE  HistoryIsHonest'
<1>0. /\ ScanTypeOK /\ Counts(s) /\ NoRowYet(s) /\ HistoryIsHonest /\ history \subseteq RowType
  BY ScanTypeNames DEF ScanInv, CountInv
<1>1. \A row \in history : row.scan \in Scan /\ row.scan # s /\ truth'[row.scan] = truth[row.scan]
  <2>1. \A row \in history : row.scan \in Scan
    BY <1>0 DEF RowType
  <2>2. \A row \in history : row.scan # s
    BY <1>0, OthersStep DEF NoRowYet
  <2> QED
    BY <1>0, <2>1, <2>2, OthersStep
<1>2. CASE history' = history
  BY <1>0, <1>1, <1>2 DEF HistoryIsHonest
<1>3. CASE history' # history
  <2> DEFINE new == [scan |-> s, kind |-> scan[s].kind, scanned |-> scan[s].scanned,
                     infected |-> scan[s].infected, finished |-> job[s].finished]
  <2>1. history' = history \cup {new} /\ truth'[s] = truth[s] /\ scan[s].pc = "row"
    BY <1>0, <1>3, OthersStep
  <2>2. new.scan = s /\ new.scanned = scan[s].scanned /\ new.infected = scan[s].infected
    OBVIOUS
  <2> HIDE DEF new
  <2>3. /\ truth[s].answered + truth[s].skipped = truth[s].total /\ ~truth[s].given
        /\ new.scanned = truth[s].answered /\ new.infected = truth[s].threats
    BY <1>0, <2>1, <2>2 DEF Counts
  <2> QED
    BY <1>0, <1>1, <2>1, <2>2, <2>3 DEF HistoryIsHonest
<1> QED
  BY <1>2, <1>3

\* It keeps jobs beside their scans and rows, and no stamp is ahead of the clock.
LEMMA JobOfStep ==
  ASSUME ScanInv, NEW s \in Scan, StepOf(s)
  PROVE  (\A q \in Scan : JobOf(q)') /\ Stamped'
<1>0. /\ ScanTypeOK /\ JobOf(s) /\ Stamped /\ \A q \in Scan : JobOf(q)
  BY DEF ScanInv, CountInv, TileInv
<1>s. scan[s] \in ScanType /\ job[s] \in JobType /\ stamp \in Nat
  BY <1>0, ScanTypeNames
<1>1. ASSUME NEW q \in Scan, q # s
      PROVE  JobOf(q)'
  <2>1. scan'[q] = scan[q] /\ job'[q] = job[q] /\ (rowLost => rowLost') /\ history \subseteq history'
    BY <1>0, <1>1, OthersStep
  <2> QED
    BY <1>0, <2>1 DEF JobOf
<1>2. JobOf(s)'
  <2>1. CASE Asked(s)
    <3>a. PICK j \in JobType, kind \in Kind :
          /\ OneScan(s, [scan[s] EXCEPT !.pc = "ping", !.kind = kind], truth[s], j)
          /\ scan[s].pc = "none" /\ j.status # "completed" /\ j.finished <= stamp
          /\ (kind # "full" => j.kind = kind) /\ UNCHANGED <<history, stamp, rowLost>>
      BY <2>1 DEF Asked
    <3> DEFINE new == [scan[s] EXCEPT !.pc = "ping", !.kind = kind]
    <3>b. OneScan(s, new, truth[s], j)
      BY <3>a
    <3> HIDE DEF new
    <3>c. scan'[s] = new /\ job'[s] = j
      BY <1>0, <3>b, OneScanValues
    <3>1. /\ scan'[s] = [scan[s] EXCEPT !.pc = "ping", !.kind = kind] /\ job'[s] = j
          /\ j.status # "completed" /\ (kind # "full" => j.kind = kind)
      BY <3>a, <3>c DEF new
    <3>2. scan'[s].pc = "ping" /\ scan'[s].kind = kind
      BY <1>s, <3>1 DEF ScanType
    <3> QED
      BY <3>1, <3>2 DEF JobOf
  <2>2. CASE Pinged(s)
    <3>a. PICK j \in JobType, n \in Nat :
          /\ OneScan(s, [scan[s] EXCEPT !.pc = "file", !.left = n], [truth[s] EXCEPT !.total = n], j)
          /\ scan[s].pc = "ping" /\ j.status # "completed" /\ j.finished <= stamp
          /\ j.kind = scan[s].kind /\ UNCHANGED <<history, stamp, rowLost>>
      BY <2>2 DEF Pinged
    <3> DEFINE new == [scan[s] EXCEPT !.pc = "file", !.left = n]
               t == [truth[s] EXCEPT !.total = n]
    <3>b. OneScan(s, new, t, j)
      BY <3>a
    <3> HIDE DEF new, t
    <3>c. scan'[s] = new /\ truth'[s] = t /\ job'[s] = j
      BY <1>0, <3>b, OneScanValues
    <3>1. /\ scan'[s] = [scan[s] EXCEPT !.pc = "file", !.left = n] /\ job'[s] = j
          /\ j.status # "completed" /\ j.kind = scan[s].kind
      BY <3>a, <3>c DEF new
    <3>2. scan'[s].pc = "file" /\ scan'[s].kind = scan[s].kind
      BY <1>s, <3>1 DEF ScanType
    <3> QED
      BY <3>1, <3>2 DEF JobOf
  <2>3. CASE Scanned(s)
    <3>1. PICK new \in ScanType, j \in JobType :
            /\ scan'[s] = new /\ job'[s] = j /\ scan[s].pc = "file" /\ new.pc = "file"
            /\ new.kind = scan[s].kind /\ j.status = job[s].status /\ j.kind = job[s].kind
      BY <1>0, <2>3, OneScanValues DEF Scanned
    <3> QED
      BY <1>0, <3>1 DEF JobOf
  <2>4. CASE GivenUp(s)
    <3>1. scan'[s] = [scan[s] EXCEPT !.pc = "over"] /\ job'[s].status # "completed"
      BY <1>0, <2>4, OneScanValues DEF GivenUp
    <3>2. scan'[s].pc = "over"
      BY <1>s, <3>1 DEF ScanType
    <3> QED
      BY <3>1, <3>2 DEF JobOf
  <2>5. CASE CompletesScan(s)
    <3>1. PICK j \in JobType :
            /\ scan'[s] = [scan[s] EXCEPT !.pc = "row"] /\ job'[s] = j /\ scan[s].pc = "file"
            /\ j.kind = job[s].kind /\ j.status = "completed" /\ j.infected = scan[s].infected
            /\ j.finished = stamp + 1
      BY <1>0, <2>5, OneScanValues DEF CompletesScan
    <3>2. /\ scan'[s].pc = "row" /\ scan'[s].kind = scan[s].kind
          /\ scan'[s].infected = scan[s].infected
      BY <1>s, <3>1 DEF ScanType
    <3>3. stamp + 1 > 0 /\ job[s].kind = scan[s].kind
      BY <1>0, <1>s, <3>1 DEF JobOf
    <3> QED
      BY <3>1, <3>2, <3>3 DEF JobOf
  <2>6. CASE Records(s)
    <3> DEFINE new == [scan |-> s, kind |-> scan[s].kind, scanned |-> scan[s].scanned,
                       infected |-> scan[s].infected, finished |-> job[s].finished]
    <3>1. /\ scan'[s] = [scan[s] EXCEPT !.pc = "over"] /\ job'[s] = job[s] /\ scan[s].pc = "row"
          /\ rowLost' \/ history' = history \cup {new}
      BY <1>0, <2>6, OneScanValues DEF Records
    <3>2. scan'[s].pc = "over"
      BY <1>s, <3>1 DEF ScanType
    <3>3. /\ new.kind = scan[s].kind /\ new.infected = scan[s].infected
          /\ new.finished = job[s].finished
      OBVIOUS
    <3> HIDE DEF new
    <3>4. /\ job[s].kind = scan[s].kind /\ job[s].status = "completed"
          /\ job[s].infected = scan[s].infected /\ job[s].finished > 0
      BY <1>0, <3>1 DEF JobOf
    <3>5. rowLost' \/ \E row \in history' : /\ row.kind = job[s].kind
             /\ row.finished = job[s].finished /\ row.infected = job[s].infected
      BY <3>1, <3>3, <3>4
    <3> QED
      BY <3>1, <3>2, <3>4, <3>5 DEF JobOf
  <2> QED
    BY <2>1, <2>2, <2>3, <2>4, <2>5, <2>6 DEF StepOf
<1>3. Stamped'
  <2>1. job'[s].finished <= stamp'
    <3>0. job[s].finished \in Nat /\ job[s].finished <= stamp
      BY <1>0, <1>s DEF JobType, Stamped
    <3>1. CASE Asked(s)
      BY <1>0, <3>1, OneScanValues DEF Asked
    <3>6. CASE Pinged(s)
      <4>1. PICK j \in JobType, n \in Nat :
            /\ OneScan(s, [scan[s] EXCEPT !.pc = "file", !.left = n], [truth[s] EXCEPT !.total = n], j)
            /\ scan[s].pc = "ping" /\ j.status # "completed" /\ j.finished <= stamp
            /\ j.kind = scan[s].kind /\ UNCHANGED <<history, stamp, rowLost>>
        BY <3>6 DEF Pinged
      <4> DEFINE new == [scan[s] EXCEPT !.pc = "file", !.left = n]
                 t == [truth[s] EXCEPT !.total = n]
      <4>2. OneScan(s, new, t, j)
        BY <4>1
      <4> HIDE DEF new, t
      <4> QED
        BY <1>0, <4>1, <4>2, OneScanValues
    <3>2. CASE Scanned(s)
      BY <1>0, <3>0, <3>2, OneScanValues DEF Scanned
    <3>3. CASE GivenUp(s)
      BY <1>0, <1>s, <3>0, <3>3, OneScanValues DEF GivenUp
    <3>4. CASE CompletesScan(s)
      BY <1>0, <1>s, <3>4, OneScanValues DEF CompletesScan
    <3>5. CASE Records(s)
      BY <1>0, <3>0, <3>5, OneScanValues DEF Records
    <3> QED
      BY <3>1, <3>2, <3>3, <3>4, <3>5, <3>6 DEF StepOf
  <2>2. \A q \in Scan : job'[q].finished <= stamp'
    <3>1. stamp <= stamp' /\ stamp' \in Nat
      BY <1>0, OthersStep
    <3>2. \A q \in Scan : q # s => job'[q] = job[q]
      BY <1>0, OthersStep
    <3>3. \A q \in Scan : job[q].finished \in Nat /\ job[q].finished <= stamp
      BY <1>0, ScanTypeNames DEF JobType, Stamped
    <3> QED
      BY <1>s, <2>1, <3>1, <3>2, <3>3
  <2>3. \A row \in history' : row.finished <= stamp'
    <3>1. stamp <= stamp' /\ stamp' \in Nat
      BY <1>0, OthersStep
    <3>2. \A row \in history : row.finished \in Nat /\ row.finished <= stamp
      BY <1>0, ScanTypeNames DEF RowType, Stamped
    <3>3. \A row \in history' : row \in history \/ row.finished = job[s].finished
      BY <1>0, OthersStep
    <3>4. job[s].finished \in Nat /\ job[s].finished <= stamp
      BY <1>0, <1>s DEF JobType, Stamped
    <3> QED
      BY <1>s, <3>1, <3>2, <3>3, <3>4
  <2> QED
    BY <2>2, <2>3 DEF Stamped
<1> QED
  BY <1>1, <1>2, <1>3

\* It leaves a full job no older than any full row.
LEMMA FollowStep ==
  ASSUME ScanInv, NEW s \in Scan, StepOf(s)
  PROVE  FullRowsFollow'
<1>0. /\ ScanTypeOK /\ JobOf(s) /\ Stamped /\ FullRowsFollow
  BY DEF ScanInv, CountInv, TileInv
<1>s. scan[s] \in ScanType /\ job[s] \in JobType /\ stamp \in Nat
  BY <1>0, ScanTypeNames
<1>1. ASSUME NEW q \in Scan, job[q].status = "completed"
      PROVE  job'[q] = job[q]
  <2>1. CASE q # s
    BY <1>0, <2>1, OthersStep
  <2>2. CASE q = s
    <3>1. scan[s].pc = "row"
      BY <1>0, <1>1, <2>2, OthersStep DEF JobOf
    <3>2. Records(s)
      BY <3>1 DEF StepOf, Asked, Pinged, Scanned, GivenUp, CompletesScan
    <3> QED
      BY <1>0, <2>2, <3>2, OneScanValues DEF Records
  <2> QED
    BY <2>1, <2>2
<1>2. ASSUME NEW q \in Scan, job'[q].status = "completed", job[q].status # "completed"
      PROVE  job'[q].finished = stamp + 1
  <2>1. q = s
    BY <1>0, <1>2, OthersStep
  <2>2. CASE Asked(s)
    BY <1>0, <1>2, <2>1, <2>2, OneScanValues DEF Asked
  <2>3. CASE Pinged(s)
    <3>1. PICK j \in JobType, n \in Nat :
            /\ OneScan(s, [scan[s] EXCEPT !.pc = "file", !.left = n],
                       [truth[s] EXCEPT !.total = n], j)
            /\ j.status # "completed"
      BY <2>3 DEF Pinged
    <3> DEFINE new == [scan[s] EXCEPT !.pc = "file", !.left = n]
               t == [truth[s] EXCEPT !.total = n]
    <3>2. OneScan(s, new, t, j)
      BY <3>1
    <3> HIDE DEF new, t
    <3> QED
      BY <1>0, <1>2, <2>1, <3>1, <3>2, OneScanValues
  <2>4. CASE Scanned(s)
    BY <1>0, <1>2, <2>1, <2>4, OneScanValues DEF Scanned
  <2>5. CASE GivenUp(s)
    BY <1>0, <1>2, <2>1, <2>5, OneScanValues DEF GivenUp
  <2>6. CASE CompletesScan(s)
    BY <1>0, <1>2, <2>1, <2>6, OneScanValues DEF CompletesScan
  <2>7. CASE Records(s)
    BY <1>0, <1>2, <2>1, <2>7, OneScanValues DEF Records
  <2> QED
    BY <2>2, <2>3, <2>4, <2>5, <2>6, <2>7 DEF StepOf
<1>3. ASSUME NEW row \in history', row.kind = "full", NEW c \in Scan,
             job'[c].status = "completed", job'[c].kind = "full"
      PROVE  \E q \in Scan : /\ job'[q].status = "completed" /\ job'[q].kind = "full"
                             /\ row.finished <= job'[q].finished
  <2>1. CASE row \in history
    <3>0. row.finished \in Nat /\ row.finished <= stamp
      BY <1>0, <2>1, ScanTypeNames DEF Stamped, RowType
    <3>1. CASE job[c].status = "completed"
      <4>1. c \in Completed("full")
        BY <1>1, <1>3, <3>1 DEF Completed
      <4>2. PICK q \in Completed("full") : row.finished <= job[q].finished
        BY <1>0, <1>3, <2>1, <4>1 DEF FullRowsFollow, FullRows
      <4>3. q \in Scan /\ job[q].status = "completed" /\ job[q].kind = "full"
        BY <4>2 DEF Completed
      <4> QED
        BY <1>1, <4>2, <4>3
    <3>2. CASE job[c].status # "completed"
      BY <1>2, <1>3, <1>s, <3>0, <3>2
    <3> QED
      BY <3>1, <3>2
  <2>2. CASE row \notin history
    <3>1. /\ scan[s].pc = "row" /\ job'[s] = job[s]
          /\ row.finished = job[s].finished /\ row.kind = scan[s].kind
      BY <1>0, <2>2, OthersStep
    <3>2. job[s].status = "completed" /\ job[s].kind = "full"
      BY <1>0, <1>3, <3>1 DEF JobOf
    <3>3. job[s].finished <= job[s].finished
      BY <1>s DEF JobType
    <3> QED
      BY <3>1, <3>2, <3>3
  <2> QED
    BY <2>1, <2>2
<1> QED
  BY <1>3 DEF FullRowsFollow, FullRows, Completed

\* The steps of the rest of the world.
WorldStep == ClamdTurns \/ Freshclam \/ Reload \/ ReadVersion \/ ClamdLoads

\* They keep the types and touch no scan.
LEMMA WorldTypes ==
  ASSUME ScanTypeOK, WorldStep
  PROVE  ScanTypeOK' /\ Elsewhere
<1>1. clamd \in BOOLEAN /\ enabled \in BOOLEAN
  BY DEF ScanTypeOK
<1>2. base \in [disk : Nat, used : Nat] /\ base.disk \in Nat /\ base.used \in Nat
  BY DEF ScanTypeOK
<1>3. /\ update \in [pc : {"idle", "before", "read", "done"}, before : Nat, seen : Nat, reads : Nat]
      /\ update.reads \in Nat
  BY DEF ScanTypeOK
<1>4. Version \in Nat
  BY <1>2 DEF Version
<1>5. Elsewhere
  BY DEF WorldStep, ClamdTurns, Freshclam, Reload, ReadVersion, ClamdLoads, Elsewhere
<1>6. clamd' \in BOOLEAN /\ enabled' = enabled
  BY <1>1 DEF WorldStep, ClamdTurns, Freshclam, Reload, ReadVersion, ClamdLoads, world
<1>7. base' \in [disk : Nat, used : Nat]
  BY <1>2 DEF WorldStep, ClamdTurns, Freshclam, Reload, ReadVersion, ClamdLoads
<1>8. update' \in [pc : {"idle", "before", "read", "done"}, before : Nat, seen : Nat, reads : Nat]
  <2>1. CASE Reload
    BY <1>3, <1>4, <2>1 DEF Reload
  <2>2. CASE ReadVersion
    <3> DEFINE pc == IF Version # update.before \/ update.reads + 1 = MaxReads THEN "done" ELSE "read"
               v == Version
    <3>1. pc \in {"idle", "before", "read", "done"} /\ v \in Nat /\ update.reads + 1 \in Nat
      BY <1>3, <1>4
    <3>2. update' = [update EXCEPT !.seen = v, !.reads = update.reads + 1, !.pc = pc]
      BY <2>2 DEF ReadVersion
    <3> HIDE DEF pc, v
    <3> QED
      BY <1>3, <3>1, <3>2
  <2>3. CASE Freshclam
    BY <1>3, <2>3 DEF Freshclam
  <2>4. CASE ClamdTurns \/ ClamdLoads
    BY <1>3, <2>4 DEF ClamdTurns, ClamdLoads
  <2> QED
    BY <2>1, <2>2, <2>3, <2>4 DEF WorldStep
<1> QED
  BY <1>1, <1>5, <1>6, <1>7, <1>8 DEF ScanTypeOK, Elsewhere

\* What touches no scan keeps what is said of them.
LEMMA ElsewhereKeeps ==
  ASSUME ScanInv, Elsewhere, ScanTypeOK'
  PROVE  ScanInv'
<1>1. (\A s \in Scan : Counts(s)' /\ NoRowYet(s)' /\ JobOf(s)') /\ HistoryIsHonest' /\ Stamped'
  BY DEF ScanInv, CountInv, TileInv, Elsewhere, Counts, NoRowYet, JobOf, HistoryIsHonest, Stamped
<1>2. FullRowsFollow'
  <2>1. FullRows' = FullRows /\ Completed("full")' = Completed("full") /\ job' = job
    BY DEF Elsewhere, FullRows, Completed
  <2> QED
    BY <2>1 DEF ScanInv, TileInv, FullRowsFollow
<1> QED
  BY <1>1, <1>2 DEF ScanInv, CountInv, TileInv

\* The end of the process leaves no job, and rows that are as honest as before.
LEMMA PanelEndsKeeps ==
  ASSUME ScanInv, PanelEnds
  PROVE  ScanInv'
<1>0. ScanTypeOK /\ \A s \in Scan : Counts(s) /\ NoRowYet(s)
  BY DEF ScanInv, CountInv
<1>1. /\ job' = [s \in Scan |-> NoJob]
      /\ scan' = [s \in Scan |-> IF scan[s].pc = "none" THEN NoScan ELSE [NoScan EXCEPT !.pc = "over"]]
      /\ update' = NoUpdate
      /\ UNCHANGED <<clamd, enabled, history, stamp, truth, rowLost, base>>
  BY DEF PanelEnds, world
<1>2. NoJob \in JobType /\ NoJob.status = "none" /\ NoJob.finished = 0
  BY DEF NoJob, JobType, JobStatus, Kind
<1>3. /\ NoScan \in ScanType /\ NoScan.pc = "none" /\ NoScan.scanned = 0 /\ NoScan.infected = 0
      /\ NoScan.kind = "quick"
  BY DEF NoScan, ScanType, ScanPc, Kind
<1>4. [NoScan EXCEPT !.pc = "over"] \in ScanType /\ [NoScan EXCEPT !.pc = "over"].pc = "over"
  BY DEF NoScan, ScanType, ScanPc, Kind
<1>5. update' \in [pc : {"idle", "before", "read", "done"}, before : Nat, seen : Nat, reads : Nat]
  BY <1>1 DEF NoUpdate
<1>6. ScanTypeOK'
  <2>1. job' \in [Scan -> JobType] /\ scan' \in [Scan -> ScanType]
    BY <1>1, <1>2, <1>3, <1>4
  <2> QED
    BY <1>0, <1>1, <1>5, <2>1 DEF ScanTypeOK, JobType, JobStatus, ScanType
<1>7. ASSUME NEW s \in Scan
      PROVE  Counts(s)' /\ NoRowYet(s)' /\ JobOf(s)'
  <2>1. job'[s].status = "none"
    BY <1>1, <1>2
  <2>2. CASE scan[s].pc = "none"
    <3>1. scan'[s] = NoScan
      BY <1>1, <2>2
    <3>2. truth[s] = NoTruth /\ \A row \in history : row.scan # s
      BY <1>0, <2>2 DEF Counts, NoRowYet
    <3> QED
      BY <1>1, <1>3, <2>1, <3>1, <3>2 DEF Counts, NoRowYet, JobOf
  <2>3. CASE scan[s].pc # "none"
    <3>1. scan'[s].pc = "over"
      BY <1>1, <1>4, <2>3
    <3> QED
      BY <2>1, <3>1 DEF Counts, NoRowYet, JobOf
  <2> QED
    BY <2>2, <2>3
<1>8. HistoryIsHonest' /\ Stamped'
  <2>1. HistoryIsHonest'
    BY <1>1 DEF ScanInv, CountInv, HistoryIsHonest
  <2>2. \A s \in Scan : job'[s].finished <= stamp'
    BY <1>0, <1>1, <1>2 DEF ScanTypeOK
  <2> QED
    BY <1>1, <2>1, <2>2 DEF ScanInv, TileInv, Stamped
<1>9. FullRowsFollow'
  <2>1. Completed("full")' = {}
    BY <1>1, <1>2 DEF Completed
  <2> QED
    BY <2>1 DEF FullRowsFollow
<1> QED
  BY <1>6, <1>7, <1>8, <1>9 DEF ScanInv, CountInv, TileInv

\* All steps together.
LEMMA ScanInvStep ==
  ASSUME ScanInv, [ScanNext]_scanVars
  PROVE  ScanInv'
<1>0. ScanTypeOK /\ (\A s \in Scan : JobOf(s)) /\ Stamped
  BY DEF ScanInv, CountInv, TileInv
<1>1. ASSUME NEW s \in Scan,
             \/ \E kind \in Kind : StartScan(s, kind)
             \/ StartFullScan(s) \/ PingScan(s) \/ SkipFile(s) \/ ScanFile(s)
             \/ FailFile(s) \/ EndScan(s) \/ RecordScanHistory(s)
      PROVE  ScanInv'
  <2>1. StepOf(s) /\ Quiet
    BY <1>0, <1>1, ScanKinds
  <2>2. ScanTypeOK' /\ (\A q \in Scan : Counts(q)' /\ NoRowYet(q)') /\ HistoryIsHonest'
    BY <1>0, <2>1, TypesOfStep, CountsOfStep, HistoryOfStep
  <2>3. (\A q \in Scan : JobOf(q)') /\ Stamped' /\ FullRowsFollow'
    BY <2>1, JobOfStep, FollowStep
  <2> QED
    BY <2>2, <2>3 DEF ScanInv, CountInv, TileInv
<1>2. CASE WorldStep
  BY <1>0, <1>2, WorldTypes, ElsewhereKeeps
<1>3. CASE PanelEnds
  BY <1>3, PanelEndsKeeps
<1>4. CASE UNCHANGED scanVars
  BY <1>0, <1>4, ElsewhereKeeps DEF scanVars, Elsewhere, ScanTypeOK
<1> QED
  BY <1>1, <1>2, <1>3, <1>4 DEF ScanNext, ScanStep, UpdateStep, WorldStep

\* At the start there is neither job nor row.
LEMMA ScanInvInit ==
  ASSUME ScanInit
  PROVE  ScanInv
<1>1. NoJob \in JobType /\ NoJob.status = "none" /\ NoJob.finished = 0
  BY DEF NoJob, JobType, JobStatus, Kind
<1>2. /\ NoScan \in ScanType /\ NoScan.pc = "none" /\ NoScan.scanned = 0 /\ NoScan.infected = 0
  BY DEF NoScan, ScanType, ScanPc, Kind
<1>3. NoTruth \in TruthType
  BY DEF NoTruth, TruthType
<1>4. /\ job \in [Scan -> JobType] /\ scan \in [Scan -> ScanType] /\ truth \in [Scan -> TruthType]
      /\ history = {} /\ stamp = 0 /\ rowLost = FALSE
      /\ \A s \in Scan : job[s] = NoJob /\ scan[s] = NoScan /\ truth[s] = NoTruth
  BY <1>1, <1>2, <1>3 DEF ScanInit
<1>5. base \in [disk : Nat, used : Nat]
      /\ update \in [pc : {"idle", "before", "read", "done"}, before : Nat, seen : Nat, reads : Nat]
  BY DEF ScanInit, NoUpdate
<1>6. ScanTypeOK
  <2>1. clamd \in BOOLEAN /\ enabled \in BOOLEAN /\ rowLost \in BOOLEAN
    BY DEF ScanInit
  <2>2. stamp \in Nat /\ history \subseteq RowType
    BY <1>4
  <2> QED
    BY <1>4, <1>5, <2>1, <2>2, ScanTypeNames
<1>7. \A s \in Scan : Counts(s) /\ NoRowYet(s) /\ JobOf(s)
  BY <1>1, <1>2, <1>4 DEF Counts, NoRowYet, JobOf
<1>8. HistoryIsHonest /\ Stamped
  BY <1>1, <1>4 DEF HistoryIsHonest, Stamped
<1>9. FullRowsFollow
  BY <1>4 DEF FullRowsFollow, FullRows
<1> QED
  BY <1>6, <1>7, <1>8, <1>9 DEF ScanInv, CountInv, TileInv

\* One of the scans completed is the last.
LEMMA LastCompleted ==
  ASSUME ScanTypeOK, Stamped, NEW kind, Completed(kind) # {}
  PROVE  /\ MostRecentCompleted(kind) \in Completed(kind)
         /\ \A q \in Completed(kind) : job[q].finished <= job[MostRecentCompleted(kind)].finished
<1>1. \A q \in Completed(kind) : job[q].finished \in Nat /\ job[q].finished <= stamp
  BY ScanTypeNames DEF Completed, JobType, Stamped
<1>2. stamp \in Nat
  BY DEF ScanTypeOK
<1> DEFINE ages == {stamp - job[q].finished : q \in Completed(kind)}
           less == {ss \in Nat \X Nat : ss[1] < ss[2]}
<1>3. ages \in SUBSET Nat /\ ages # {}
  BY <1>1, <1>2
<1>4. IsWellFoundedOn(less, Nat)
  BY NatLessThanWellFounded DEF OpToRel
<1>5. PICK a \in ages : \A b \in ages : <<b, a>> \notin less
  <2> HIDE DEF ages, less
  <2> QED
    BY <1>3, <1>4, WFMin
<1>6. PICK s \in Completed(kind) : a = stamp - job[s].finished
  BY <1>5
<1>7. ASSUME NEW q \in Completed(kind)
      PROVE  job[q].finished <= job[s].finished
  <2>1. stamp - job[q].finished \in ages /\ stamp - job[q].finished \in Nat /\ a \in Nat
    BY <1>1, <1>2, <1>3, <1>5
  <2>2. ~(stamp - job[q].finished < a)
    BY <1>5, <2>1
  <2> QED
    BY <1>1, <1>2, <1>6, <2>1, <2>2
<1> HIDE DEF ages, less
<1> QED
  BY <1>6, <1>7 DEF MostRecentCompleted

\* What the tile says of the last full job, the newest full row says too.
LEMMA TileFollows ==
  ASSUME ScanInv
  PROVE  TileMatchesHistory
<1>0. /\ ScanTypeOK /\ Stamped /\ FullRowsFollow /\ \A s \in Scan : JobOf(s)
  BY DEF ScanInv, CountInv, TileInv
<1>1. SUFFICES ASSUME Tile.at # 0, ~rowLost, \A s \in Scan : scan[s].pc # "row"
               PROVE  \E row \in FullRows : /\ \A other \in FullRows : other.finished <= row.finished
                                            /\ row.finished = Tile.at
                                            /\ (row.infected = 0) = Tile.clean
  BY DEF TileMatchesHistory
<1> DEFINE s == MostRecentCompleted("full")
<1>2. Completed("full") # {} /\ Tile = [at |-> job[s].finished, clean |-> job[s].infected = 0]
  BY <1>1 DEF Tile
<1>3. /\ s \in Scan /\ job[s].status = "completed" /\ job[s].kind = "full"
      /\ \A q \in Completed("full") : job[q].finished <= job[s].finished
  BY <1>0, <1>2, LastCompleted DEF Completed
<1> HIDE DEF s
<1>4. PICK row \in history : /\ row.kind = "full" /\ row.finished = job[s].finished
                             /\ row.infected = job[s].infected
  BY <1>0, <1>1, <1>3 DEF JobOf
<1>5. ASSUME NEW other \in FullRows
      PROVE  other.finished <= row.finished
  <2>1. PICK q \in Completed("full") : other.finished <= job[q].finished
    BY <1>0, <1>2 DEF FullRowsFollow
  <2>2. other.finished \in Nat /\ job[q].finished \in Nat /\ job[s].finished \in Nat
    BY <1>0, <1>3, ScanTypeNames DEF FullRows, RowType, Completed, JobType
  <2>3. job[q].finished <= job[s].finished
    BY <1>3
  <2> QED
    BY <1>4, <2>1, <2>2, <2>3
<1>6. row \in FullRows
  BY <1>4 DEF FullRows
<1>7. Tile.at = job[s].finished /\ Tile.clean = (job[s].infected = 0)
  BY <1>2
<1> QED
  BY <1>4, <1>5, <1>6, <1>7

\* The invariant of the scans.
LEMMA ScanInvariant == ScanSpec => []ScanInv
  BY ScanInvInit, ScanInvStep, PTL DEF ScanSpec

\* The jobs, the scans and the rows keep their types, for any number of scans
\* and files.
THEOREM ScanTypes == ScanSpec => []ScanTypeOK
<1>1. ScanInv => ScanTypeOK
  BY DEF ScanInv, CountInv
<1> QED
  BY <1>1, ScanInvariant, PTL

\* A row of scan_history tells what clamd answered, whatever scans overlap and
\* wherever the process ends.
THEOREM RowsAreHonest == ScanSpec => []HistoryIsHonest
<1>1. ScanInv => HistoryIsHonest
  BY DEF ScanInv, CountInv
<1> QED
  BY <1>1, ScanInvariant, PTL

\* The console's tile of the last full scan is the newest full row, in whatever
\* order scans end.
THEOREM TileIsNewestRow == ScanSpec => []TileMatchesHistory
  BY TileFollows, ScanInvariant, PTL


(***************************************************************************)
(* The schedule.                                                           *)
(***************************************************************************)

\* What happened before now, by slots of the present schedule since calm.
Past ==
  /\ calm <= now /\ lastFired <= now
  /\ \A t \in Instant :
       fired[t] > 0 => t <= now /\ (t > calm => \E d \in Day : Scheduled(d) /\ t = Slot(d))

\* The slot marked last is the latest of those fired, and was fired.
Marked ==
  /\ lastFired > calm => /\ \E d \in Day : lastFired = Slot(d)
                         /\ fired[lastFired] = 1
  /\ \A t \in Instant : t > calm /\ fired[t] > 0 => fired[t] = 1 /\ lastFired >= t

\* Since the slot of the day no poll has gone by without marking it.
Polled ==
  \A d \in Day :
    Scheduled(d) /\ Slot(d) > calm /\ Slot(d) <= now /\ now < (d + 1) * DayLength =>
      lastFired = Slot(d) \/ now - Slot(d) <= waited

SlotInv == ScheduleTypeOK /\ Past /\ Marked /\ Polled

\* A later day begins after the end of an earlier one.
LEMMA DaysApart ==
  ASSUME NEW d \in Nat, NEW e \in Nat, d < e
  PROVE  (d + 1) * DayLength <= e * DayLength
BY ScheduleAssumption

\* The slot of a day lies in it.
LEMMA SlotOfDay ==
  ASSUME ScheduleTypeOK, NEW d \in Day
  PROVE  /\ d \in Nat /\ Slot(d) \in Instant /\ Slot(d) \in Nat
         /\ d * DayLength \in Nat /\ (d + 1) * DayLength = d * DayLength + DayLength
         /\ d * DayLength <= Slot(d) /\ Slot(d) < (d + 1) * DayLength
<1>1. schedule.at \in 0 .. DayLength - 1 /\ DayLength \in Nat \ {0} /\ Days \in Nat \ {0}
  BY ScheduleAssumption DEF ScheduleTypeOK, Schedule
<1>2. d \in Nat /\ d + 1 <= Days
  BY <1>1 DEF Day
<1>3. d * DayLength \in Nat /\ (d + 1) * DayLength = d * DayLength + DayLength
  BY <1>1, <1>2
<1>4. (d + 1) * DayLength <= End /\ End \in Nat
  BY <1>1, <1>2, <1>3 DEF End
<1> QED
  BY <1>1, <1>2, <1>3, <1>4 DEF Slot, Instant

\* Slots follow each other as their days do.
LEMMA SlotOrder ==
  ASSUME ScheduleTypeOK, NEW d \in Day, NEW e \in Day
  PROVE  (d < e <=> Slot(d) < Slot(e)) /\ (d = e <=> Slot(d) = Slot(e))
<1>1. \A a, b \in Day : a < b => Slot(a) < Slot(b)
  <2> SUFFICES ASSUME NEW a \in Day, NEW b \in Day, a < b
               PROVE  Slot(a) < Slot(b)
    OBVIOUS
  <2>1. a \in Nat /\ b \in Nat /\ Slot(a) < (a + 1) * DayLength /\ b * DayLength <= Slot(b)
    BY SlotOfDay
  <2>2. (a + 1) * DayLength <= b * DayLength
    BY <2>1, DaysApart
  <2>3. Slot(a) \in Nat /\ Slot(b) \in Nat /\ (a + 1) * DayLength \in Nat /\ b * DayLength \in Nat
    BY SlotOfDay, ScheduleAssumption
  <2> QED
    BY <2>1, <2>2, <2>3
<1>2. d \in Nat /\ e \in Nat /\ Slot(d) \in Nat /\ Slot(e) \in Nat
  BY SlotOfDay
<1> QED
  BY <1>1, <1>2

\* The present day is one of the days and has not ended.
LEMMA TodayIsNow ==
  ASSUME ScheduleTypeOK
  PROVE  Today \in Day /\ now \in Nat /\ now < (Today + 1) * DayLength
<1>1. now \in Nat /\ now < End /\ DayLength \in Nat \ {0} /\ Days \in Nat \ {0}
  BY ScheduleAssumption DEF ScheduleTypeOK, Instant, End
<1>2. Today \in Nat /\ Today * DayLength <= now /\ now < (Today + 1) * DayLength
  BY <1>1 DEF Today
<1>3. Today < Days
  <2>1. SUFFICES ASSUME Days <= Today PROVE FALSE
    BY <1>1, <1>2
  <2>2. Days * DayLength <= Today * DayLength
    <3>1. CASE Days = Today
      BY <1>1, <1>2, <3>1
    <3>2. CASE Days < Today
      <4>1. (Days + 1) * DayLength <= Today * DayLength
        BY <1>1, <1>2, <3>2, DaysApart
      <4> QED
        BY <1>1, <1>2, <4>1
    <3> QED
      BY <1>1, <1>2, <2>1, <3>1, <3>2
  <2> QED
    BY <1>1, <1>2, <2>2 DEF End
<1> QED
  BY <1>1, <1>2, <1>3 DEF Day

\* The day of a slot that is past is today or earlier, and today if it is not over.
LEMMA DayOfSlot ==
  ASSUME ScheduleTypeOK, NEW d \in Day, Slot(d) <= now
  PROVE  Slot(d) <= Slot(Today) /\ (now < (d + 1) * DayLength => d = Today)
<1>1. /\ Today \in Day /\ now \in Nat /\ now < (Today + 1) * DayLength
      /\ d \in Nat /\ Today \in Nat /\ Slot(d) \in Nat /\ d * DayLength <= Slot(d)
      /\ d * DayLength \in Nat /\ (Today + 1) * DayLength \in Nat /\ Slot(Today) \in Nat
  <2>1. Today \in Day /\ now \in Nat /\ now < (Today + 1) * DayLength
    BY TodayIsNow
  <2>2. /\ Today \in Nat /\ Slot(Today) \in Nat /\ Today * DayLength \in Nat
        /\ (Today + 1) * DayLength = Today * DayLength + DayLength
    BY <2>1, SlotOfDay
  <2>3. d \in Nat /\ Slot(d) \in Nat /\ d * DayLength \in Nat /\ d * DayLength <= Slot(d)
    BY SlotOfDay
  <2>4. (Today + 1) * DayLength \in Nat
    BY <2>2, ScheduleAssumption
  <2> QED
    BY <2>1, <2>2, <2>3, <2>4
<1>2. d <= Today
  <2>1. SUFFICES ASSUME Today < d PROVE FALSE
    BY <1>1
  <2>2. (Today + 1) * DayLength <= d * DayLength
    BY <1>1, <2>1, DaysApart
  <2> QED
    BY <1>1, <2>2
<1>3. Slot(d) <= Slot(Today)
  BY <1>1, <1>2, SlotOrder
<1>4. ASSUME now < (d + 1) * DayLength, d < Today
      PROVE  FALSE
  <2>1. (d + 1) * DayLength <= Today * DayLength
    BY <1>1, <1>4, DaysApart
  <2>2. Today * DayLength <= now
    BY <1>1, ScheduleAssumption DEF Today
  <2>3. (d + 1) * DayLength \in Nat /\ Today * DayLength \in Nat
    BY <1>1, ScheduleAssumption
  <2> QED
    BY <1>1, <1>4, <2>1, <2>2, <2>3
<1> QED
  BY <1>1, <1>2, <1>3, <1>4

\* The clock and the counters as numbers.
LEMMA ScheduleNumbers ==
  ASSUME ScheduleTypeOK
  PROVE  /\ now \in Nat /\ waited \in Nat /\ waited <= Interval + Jitter /\ calm \in Int
         /\ lastFired \in Int /\ calm >= -1 /\ lastFired >= -1 /\ End \in Nat /\ now < End
         /\ Interval \in Nat \ {0} /\ Jitter \in Nat /\ disturbed \in Nat /\ MaxDisturbed \in Nat
         /\ \A t \in Instant : fired[t] \in Nat /\ t \in Nat
BY ScheduleAssumption DEF ScheduleTypeOK, Instant, End

\* At the start nothing has fired, and no poll is due.
LEMMA SlotInit == ScheduleInit => SlotInv
<1> SUFFICES ASSUME ScheduleInit PROVE SlotInv
  OBVIOUS
<1>1. /\ now = 0 /\ waited = 0 /\ lastFired = -1 /\ calm = -1 /\ disturbed = 0
      /\ schedule \in [on : {TRUE}, at : Hours, days : SUBSET Day]
      /\ fired = [t \in Instant |-> 0]
  BY DEF ScheduleInit
<1>2. End \in Nat /\ End >= 1
  BY ScheduleAssumption DEF End
<1>3. 0 \in Instant /\ -1 \in -1 .. End - 1 /\ 0 \in 0 .. Interval + Jitter /\ 0 \in 0 .. MaxDisturbed
  BY <1>2, ScheduleAssumption DEF Instant
<1>4. schedule \in Schedule
  BY <1>1 DEF Schedule
<1>5. ScheduleTypeOK
  BY <1>1, <1>3, <1>4 DEF ScheduleTypeOK
<1>6. Past /\ Marked
  BY <1>1 DEF Past, Marked
<1>7. Polled
  BY <1>1, <1>5, SlotOfDay DEF Polled
<1> QED
  BY <1>5, <1>6, <1>7 DEF SlotInv

\* A poll that is in time marks the slot that is due and fires it once.
LEMMA TickKeeps ==
  ASSUME Jitter <= Interval, SlotInv, Tick
  PROVE  SlotInv'
<1> DEFINE slot == Slot(Today)
<1>0. ScheduleTypeOK /\ Past /\ Marked /\ Polled
  BY DEF SlotInv
<1>1. /\ waited' = 0 /\ now' = now /\ schedule' = schedule /\ calm' = calm /\ disturbed' = disturbed
      /\ lastFired' = IF Due THEN slot ELSE lastFired
      /\ fired' = IF Due /\ ~Missed THEN [fired EXCEPT ![slot] = @ + 1] ELSE fired
  BY DEF Tick
<1>2. /\ Today \in Day /\ slot \in Instant /\ slot \in Nat
      /\ now < (Today + 1) * DayLength
  BY <1>0, TodayIsNow, SlotOfDay
<1>3. /\ \A d \in Day : Slot(d)' = Slot(d) /\ Scheduled(d)' = Scheduled(d)
  BY <1>1 DEF Slot, Scheduled
<1>t. /\ now \in Nat /\ waited \in Nat /\ waited <= Interval + Jitter /\ calm \in Int
      /\ lastFired \in Int /\ End \in Nat /\ now < End /\ Interval \in Nat /\ Jitter \in Nat
      /\ \A t \in Instant : fired[t] \in Nat /\ t \in Nat
  BY <1>0, ScheduleNumbers
<1> HIDE DEF slot
<1>4. CASE ~Due
  <2>1. lastFired' = lastFired /\ fired' = fired
    BY <1>1, <1>4
  <2>2. ScheduleTypeOK'
    <3>1. waited' \in 0 .. Interval + Jitter
      BY <1>1, <1>t
    <3> QED
      BY <1>0, <1>1, <2>1, <3>1 DEF ScheduleTypeOK
  <2>3. Past' /\ Marked'
    BY <1>0, <1>1, <1>3, <2>1 DEF Past, Marked
  <2>4. ASSUME NEW d \in Day, Scheduled(d), Slot(d) <= now, now < (d + 1) * DayLength
        PROVE  lastFired = Slot(d)
    <3>1. d = Today
      BY <1>0, <2>4, DayOfSlot
    <3> QED
      BY <1>4, <2>4, <3>1 DEF Due, Scheduled
  <2>5. Polled'
    BY <1>1, <1>3, <2>1, <2>4 DEF Polled
  <2> QED
    BY <2>2, <2>3, <2>5 DEF SlotInv
<1>5. CASE Due
  <2>1. lastFired' = slot /\ slot <= now /\ lastFired # slot /\ Scheduled(Today)
    BY <1>1, <1>5 DEF Due, Scheduled, slot
  <2>2. ScheduleTypeOK'
    <3>1. fired' \in [Instant -> Nat]
      BY <1>0, <1>1, <1>2, <1>t DEF ScheduleTypeOK
    <3>2. lastFired' \in -1 .. End - 1
      BY <1>2, <1>t, <2>1
    <3>3. waited' \in 0 .. Interval + Jitter
      BY <1>1, <1>t
    <3>4. /\ now' \in Instant /\ schedule' \in Schedule /\ calm' \in -1 .. End - 1
          /\ disturbed' \in 0 .. MaxDisturbed
      BY <1>0, <1>1 DEF ScheduleTypeOK
    <3> QED
      BY <3>1, <3>2, <3>3, <3>4 DEF ScheduleTypeOK
  <2>3. \A t \in Instant : t # slot => fired'[t] = fired[t]
    BY <1>0, <1>1, <1>2 DEF ScheduleTypeOK
  <2>4. lastFired > calm => lastFired < slot
    <3>1. SUFFICES ASSUME lastFired > calm PROVE lastFired < slot
      OBVIOUS
    <3>2. PICK d \in Day : lastFired = Slot(d)
      BY <1>0, <3>1 DEF Marked
    <3>3. Slot(d) <= slot
      BY <1>0, <3>2, DayOfSlot DEF Past, slot
    <3> QED
      BY <1>2, <1>t, <2>1, <3>2, <3>3
  <2>5. CASE slot > calm
    <3>1. now - slot <= waited
      BY <1>0, <1>2, <2>1, <2>5 DEF Polled, slot
    <3>2. ~Missed
      BY <1>2, <1>t, <3>1 DEF Missed, slot
    <3>3. fired[slot] = 0
      BY <1>0, <1>2, <1>t, <2>4, <2>5 DEF Marked
    <3>4. fired'[slot] = 1
      BY <1>0, <1>1, <1>2, <1>5, <3>2, <3>3 DEF ScheduleTypeOK
    <3>5. Past'
      <4>1. calm' <= now' /\ lastFired' <= now'
        BY <1>0, <1>1, <2>1 DEF Past
      <4>2. \A t \in Instant : fired'[t] > 0 => t <= now /\ (t > calm => \E d \in Day : Scheduled(d) /\ t = Slot(d))
        BY <1>0, <1>2, <2>1, <2>3 DEF Past, slot
      <4> QED
        BY <1>1, <1>3, <4>1, <4>2 DEF Past
    <3>6. Marked'
      <4>1. \A t \in Instant : t > calm /\ fired'[t] > 0 => fired'[t] = 1 /\ slot >= t
        BY <1>0, <1>2, <1>t, <2>3, <2>4, <3>4 DEF Marked
      <4>2. \E d \in Day : slot = Slot(d)
        BY <1>2 DEF slot
      <4> QED
        BY <1>1, <1>3, <2>1, <3>4, <4>1, <4>2 DEF Marked
    <3>7. Polled'
      <4>1. \A d \in Day : Slot(d) <= now /\ now < (d + 1) * DayLength => Slot(d) = slot
        BY <1>0, DayOfSlot DEF slot
      <4> QED
        BY <1>1, <1>3, <2>1, <4>1 DEF Polled
    <3> QED
      BY <2>2, <3>5, <3>6, <3>7 DEF SlotInv
  <2>6. CASE ~(slot > calm)
    <3>1. \A t \in Instant : t > calm => fired'[t] = fired[t] /\ fired[t] = 0
      BY <1>0, <1>2, <1>t, <2>3, <2>4, <2>6 DEF Marked
    <3>2. Past'
      <4>1. calm' <= now' /\ lastFired' <= now'
        BY <1>0, <1>1, <2>1 DEF Past
      <4>2. \A t \in Instant : fired'[t] > 0 => t <= now /\ ~(t > calm)
        BY <1>0, <1>2, <1>t, <2>1, <2>3, <2>6, <3>1 DEF Past
      <4> QED
        BY <1>1, <4>1, <4>2 DEF Past
    <3>3. Marked'
      BY <1>1, <1>2, <1>t, <2>1, <2>6, <3>1 DEF Marked
    <3>4. Polled'
      <4>1. \A d \in Day : Slot(d) <= now /\ now < (d + 1) * DayLength => Slot(d) = slot
        BY <1>0, DayOfSlot DEF slot
      <4> QED
        BY <1>1, <1>3, <2>1, <4>1 DEF Polled
    <3> QED
      BY <2>2, <3>2, <3>3, <3>4 DEF SlotInv
  <2> QED
    BY <2>5, <2>6
<1> QED
  BY <1>4, <1>5

\* A slot that comes is younger than the last poll.
LEMMA PassKeeps ==
  ASSUME SlotInv, Pass
  PROVE  SlotInv'
<1>0. ScheduleTypeOK /\ Past /\ Marked /\ Polled
  BY DEF SlotInv
<1>1. /\ now + 1 < End /\ waited < Interval + Jitter /\ now' = now + 1 /\ waited' = waited + 1
      /\ UNCHANGED <<schedule, lastFired, fired, calm, disturbed>>
  BY DEF Pass
<1>2. \A d \in Day : Slot(d)' = Slot(d) /\ Scheduled(d)' = Scheduled(d)
  BY <1>1 DEF Slot, Scheduled
<1>t. /\ now \in Nat /\ waited \in Nat /\ calm \in Int /\ lastFired \in Int /\ End \in Nat
      /\ Interval \in Nat /\ Jitter \in Nat
      /\ \A t \in Instant : fired[t] \in Nat /\ t \in Nat
  BY <1>0, ScheduleNumbers
<1>3. ScheduleTypeOK'
  BY <1>0, <1>1, <1>t DEF ScheduleTypeOK, Instant
<1>4. Past'
  BY <1>0, <1>1, <1>2, <1>t DEF Past
<1>5. Marked'
  BY <1>0, <1>1, <1>2 DEF Marked
<1>6. ASSUME NEW d \in Day, Scheduled(d), Slot(d) > calm, Slot(d) <= now + 1,
             now + 1 < (d + 1) * DayLength
      PROVE  lastFired = Slot(d) \/ now + 1 - Slot(d) <= waited + 1
  <2>1. Slot(d) \in Nat /\ (d + 1) * DayLength \in Nat
    BY <1>0, SlotOfDay, ScheduleAssumption
  <2> QED
    BY <1>0, <1>6, <1>t, <2>1 DEF Polled
<1>7. Polled'
  <2>1. ASSUME NEW d \in Day, Scheduled(d)', Slot(d)' > calm', Slot(d)' <= now',
               now' < (d + 1) * DayLength
        PROVE  lastFired' = Slot(d)' \/ now' - Slot(d)' <= waited'
    <3>1. Scheduled(d) /\ Slot(d) > calm /\ Slot(d) <= now + 1 /\ now + 1 < (d + 1) * DayLength
      BY <1>1, <1>2, <2>1
    <3>2. lastFired = Slot(d) \/ now + 1 - Slot(d) <= waited + 1
      BY <1>6, <3>1
    <3>3. Slot(d)' = Slot(d) /\ lastFired' = lastFired /\ now' = now + 1 /\ waited' = waited + 1
      BY <1>1, <1>2
    <3>4. Slot(d) \in Nat
      BY <1>0, SlotOfDay
    <3> QED
      BY <1>t, <3>2, <3>3, <3>4
  <2> QED
    BY <2>1 DEF Polled
<1> QED
  BY <1>3, <1>4, <1>5, <1>7 DEF SlotInv

\* A disturbance leaves nothing to be said of the time before it.
LEMMA DisturbanceForgets ==
  ASSUME ScheduleTypeOK, Past, Disturbance
  PROVE  /\ ScheduleTypeOK' /\ calm' = now' /\ now' \in Nat /\ lastFired' <= now'
         /\ Past' /\ \A t \in Instant : fired'[t] > 0 => ~(t > calm')
<1>0. ScheduleTypeOK /\ Past
  OBVIOUS
<1>t. /\ now \in Nat /\ calm \in Int /\ lastFired \in Int /\ End \in Nat /\ now < End
      /\ lastFired >= -1 /\ Interval \in Nat /\ Jitter \in Nat
      /\ disturbed \in Nat /\ MaxDisturbed \in Nat
      /\ \A t \in Instant : fired[t] \in Nat /\ t \in Nat
  BY <1>0, ScheduleNumbers
<1>1. /\ calm' = now' /\ now' \in Nat /\ now <= now' /\ now' < End /\ fired' = fired
      /\ lastFired' \in Int /\ -1 <= lastFired' /\ lastFired' <= now
      /\ schedule' \in Schedule /\ waited' \in 0 .. Interval + Jitter
      /\ disturbed' \in 0 .. MaxDisturbed
  <2>1. CASE Suspend
    BY <1>0, <1>t, <2>1 DEF Suspend, Disturb, Past, ScheduleTypeOK
  <2>2. CASE RestartLoop
    BY <1>0, <1>t, <2>2 DEF RestartLoop, Disturb, Past, ScheduleTypeOK
  <2>3. CASE update_av_settings
    BY <1>0, <1>t, <2>3 DEF update_av_settings, Disturb, Past, ScheduleTypeOK
  <2>4. CASE PollFails
    BY <1>0, <1>t, <2>4 DEF PollFails, Disturb, Past, ScheduleTypeOK
  <2>5. CASE ScanFails
    <3>1. Slot(Today) \in Nat /\ Slot(Today) <= now
      BY <2>5, TodayIsNow, SlotOfDay DEF ScanFails, Due
    <3> QED
      BY <1>0, <1>t, <2>5, <3>1 DEF ScanFails, Disturb, Past, ScheduleTypeOK
  <2> QED
    BY <2>1, <2>2, <2>3, <2>4, <2>5 DEF Disturbance
<1>2. ScheduleTypeOK'
  BY <1>0, <1>1, <1>t DEF ScheduleTypeOK, Instant
<1>3. \A t \in Instant : fired'[t] > 0 => t <= now' /\ ~(t > calm')
  BY <1>0, <1>1, <1>t DEF Past
<1>4. Past'
  BY <1>1, <1>3, <1>t DEF Past
<1> QED
  BY <1>1, <1>2, <1>3, <1>4, <1>t

LEMMA DisturbanceKeeps ==
  ASSUME SlotInv, Disturbance
  PROVE  SlotInv'
<1>0. ScheduleTypeOK /\ Past
  BY DEF SlotInv
<1>1. /\ ScheduleTypeOK' /\ calm' = now' /\ now' \in Nat /\ lastFired' <= now' /\ Past'
      /\ \A t \in Instant : fired'[t] > 0 => ~(t > calm')
  BY <1>0, DisturbanceForgets
<1>2. lastFired' \in Int /\ schedule' \in Schedule
  BY <1>1 DEF ScheduleTypeOK
<1>3. Marked'
  BY <1>1, <1>2 DEF Marked
<1>4. Polled'
  <2>1. \A d \in Day : Slot(d)' \in Nat
    <3>1. \A d \in Day : Slot(d)' = d * DayLength + schedule'.at
      BY DEF Slot
    <3>2. schedule'.at \in 0 .. DayLength - 1
      BY <1>2, ScheduleAssumption DEF Schedule
    <3>3. \A d \in Day : d * DayLength \in Nat
      BY <1>0, SlotOfDay
    <3> QED
      BY <3>1, <3>2, <3>3, ScheduleAssumption
  <2> QED
    BY <1>1, <2>1 DEF Polled
<1> QED
  BY <1>1, <1>3, <1>4 DEF SlotInv

\* All steps together.
LEMMA SlotStep ==
  ASSUME Jitter <= Interval, SlotInv, [ScheduleNext]_scheduleVars
  PROVE  SlotInv'
<1>1. CASE Tick
  BY <1>1, TickKeeps
<1>2. CASE Pass
  BY <1>2, PassKeeps
<1>3. CASE Disturbance
  BY <1>3, DisturbanceKeeps
<1>4. CASE UNCHANGED scheduleVars
  BY <1>4 DEF scheduleVars, SlotInv, ScheduleTypeOK, Past, Marked, Polled, Slot, Scheduled
<1> QED
  BY <1>1, <1>2, <1>3, <1>4 DEF ScheduleNext

\* What the invariant says of a day left alone.
LEMMA SlotMeans == SlotInv => FiresOncePerDay
<1>1. SUFFICES ASSUME SlotInv, NEW d \in Day, calm < Slot(d), now < (d + 1) * DayLength
               PROVE  /\ fired[Slot(d)] <= 1
                      /\ (Scheduled(d) /\ now > Slot(d) + FirstPoll) => fired[Slot(d)] = 1
                      /\ (~Scheduled(d) \/ now < Slot(d)) => fired[Slot(d)] = 0
  BY DEF FiresOncePerDay
<1>0. ScheduleTypeOK /\ Past /\ Marked /\ Polled
  BY <1>1 DEF SlotInv
<1>t. /\ now \in Nat /\ waited \in Nat /\ waited <= Interval + Jitter /\ calm \in Int
      /\ lastFired \in Int /\ Interval \in Nat /\ Jitter \in Nat
      /\ Slot(d) \in Nat /\ Slot(d) \in Instant /\ fired[Slot(d)] \in Nat
  BY <1>0, ScheduleNumbers, SlotOfDay
<1>2. fired[Slot(d)] <= 1
  BY <1>0, <1>1, <1>t DEF Marked
<1>3. ASSUME Scheduled(d), now > Slot(d) + FirstPoll
      PROVE  fired[Slot(d)] = 1
  <2>1. Slot(d) <= now /\ ~(now - Slot(d) <= waited)
    BY <1>3, <1>t DEF FirstPoll
  <2>2. lastFired = Slot(d)
    BY <1>0, <1>1, <1>3, <2>1 DEF Polled
  <2> QED
    BY <1>0, <1>1, <2>2 DEF Marked
<1>4. ASSUME ~Scheduled(d) \/ now < Slot(d), fired[Slot(d)] > 0
      PROVE  FALSE
  <2>1. Slot(d) <= now /\ \E e \in Day : Scheduled(e) /\ Slot(d) = Slot(e)
    BY <1>0, <1>1, <1>4, <1>t DEF Past
  <2>2. PICK e \in Day : Scheduled(e) /\ Slot(d) = Slot(e)
    BY <2>1
  <2>3. d = e
    BY <1>0, <2>2, SlotOrder
  <2> QED
    BY <1>4, <1>t, <2>1, <2>2, <2>3
<1> QED
  BY <1>2, <1>3, <1>4, <1>t

\* If no poll is late by more than an interval, a day whose slot comes while the
\* loop is left alone has its scan, and only one, for any length of the day.
THEOREM OneScanADay ==
  ASSUME Jitter <= Interval
  PROVE  ScheduleSpec => []FiresOncePerDay
<1>1. SlotInv /\ [ScheduleNext]_scheduleVars => SlotInv'
  BY SlotStep
<1>2. SlotInv => FiresOncePerDay
  BY SlotMeans
<1> QED
  BY <1>1, <1>2, SlotInit, PTL DEF ScheduleSpec

(***************************************************************************)
(* The schedule, however late its polls are.                               *)
(***************************************************************************)

\* Marked, where the slot marked last may have been given up as missed.
MarkedOnce ==
  /\ lastFired > calm => \E d \in Day : lastFired = Slot(d)
  /\ \A t \in Instant : t > calm /\ fired[t] > 0 => fired[t] = 1 /\ lastFired >= t

OnceInv == ScheduleTypeOK /\ Past /\ MarkedOnce

LEMMA OnceTick ==
  ASSUME OnceInv, Tick
  PROVE  OnceInv'
<1> DEFINE slot == Slot(Today)
<1>0. ScheduleTypeOK /\ Past /\ MarkedOnce
  BY DEF OnceInv
<1>1. /\ waited' = 0 /\ now' = now /\ schedule' = schedule /\ calm' = calm /\ disturbed' = disturbed
      /\ lastFired' = IF Due THEN slot ELSE lastFired
      /\ fired' = IF Due /\ ~Missed THEN [fired EXCEPT ![slot] = fired[slot] + 1] ELSE fired
  BY DEF Tick
<1>2. Today \in Day /\ slot \in Instant /\ slot \in Nat
  BY <1>0, TodayIsNow, SlotOfDay
<1>3. \A d \in Day : Slot(d)' = Slot(d) /\ Scheduled(d)' = Scheduled(d)
  BY <1>1 DEF Slot, Scheduled
<1>t. /\ now \in Nat /\ calm \in Int /\ lastFired \in Int /\ End \in Nat /\ now < End
      /\ Interval \in Nat /\ Jitter \in Nat /\ \A t \in Instant : fired[t] \in Nat /\ t \in Nat
  BY <1>0, ScheduleNumbers
<1>4. Due => slot <= now /\ lastFired # slot /\ Scheduled(Today)
  BY DEF Due, Scheduled
<1> HIDE DEF slot
<1>5. Due /\ lastFired > calm => lastFired < slot
  <2>1. SUFFICES ASSUME Due, lastFired > calm PROVE lastFired < slot
    OBVIOUS
  <2>2. PICK d \in Day : lastFired = Slot(d)
    BY <1>0, <2>1 DEF MarkedOnce
  <2>3. Slot(d) <= slot
    BY <1>0, <2>2, DayOfSlot DEF Past, slot
  <2> QED
    BY <1>2, <1>t, <1>4, <2>1, <2>2, <2>3
<1>6. \A t \in Instant : t # slot => fired'[t] = fired[t]
  BY <1>0, <1>1, <1>2 DEF ScheduleTypeOK
<1>7. Due /\ slot > calm => fired[slot] = 0 /\ fired'[slot] \in {0, 1}
  <2>1. SUFFICES ASSUME Due, slot > calm PROVE fired[slot] = 0 /\ fired'[slot] \in {0, 1}
    OBVIOUS
  <2>2. fired[slot] = 0
    BY <1>0, <1>2, <1>t, <1>5, <2>1 DEF MarkedOnce
  <2> QED
    BY <1>0, <1>1, <1>2, <2>2 DEF ScheduleTypeOK
<1>8. ScheduleTypeOK'
  <2>1. fired' \in [Instant -> Nat]
    BY <1>0, <1>1, <1>2, <1>t DEF ScheduleTypeOK
  <2>2. lastFired' \in -1 .. End - 1
    BY <1>0, <1>1, <1>2, <1>t, <1>4 DEF ScheduleTypeOK
  <2>3. waited' \in 0 .. Interval + Jitter
    BY <1>1, <1>t
  <2>4. /\ now' \in Instant /\ schedule' \in Schedule /\ calm' \in -1 .. End - 1
        /\ disturbed' \in 0 .. MaxDisturbed
    BY <1>0, <1>1 DEF ScheduleTypeOK
  <2> QED
    BY <2>1, <2>2, <2>3, <2>4 DEF ScheduleTypeOK
<1>9. Past'
  <2>1. calm' <= now' /\ lastFired' <= now'
    BY <1>0, <1>1, <1>4 DEF Past
  <2>2. \A t \in Instant : fired'[t] > 0 =>
          t <= now /\ (t > calm => \E d \in Day : Scheduled(d) /\ t = Slot(d))
    <3>1. CASE Due
      BY <1>0, <1>2, <1>4, <1>6, <3>1 DEF Past, slot
    <3>2. CASE ~Due
      BY <1>0, <1>1, <3>2 DEF Past
    <3> QED
      BY <3>1, <3>2
  <2> QED
    BY <1>1, <1>3, <2>1, <2>2 DEF Past
<1>10. MarkedOnce'
  <2>1. CASE ~Due
    <3>1. lastFired' = lastFired /\ fired' = fired
      BY <1>1, <2>1
    <3> QED
      BY <1>0, <1>1, <1>3, <3>1 DEF MarkedOnce
  <2>2. CASE Due
    <3>1. lastFired' = slot
      BY <1>1, <2>2
    <3>2. ASSUME NEW t \in Instant, t > calm, fired'[t] > 0
          PROVE  fired'[t] = 1 /\ slot >= t
      <4>1. CASE t = slot
        BY <1>2, <1>7, <2>2, <3>2, <4>1
      <4>2. CASE t # slot
        BY <1>0, <1>2, <1>5, <1>6, <1>t, <2>2, <3>2, <4>2 DEF MarkedOnce
      <4> QED
        BY <4>1, <4>2
    <3>3. \E d \in Day : slot = Slot(d)
      BY <1>2 DEF slot
    <3> QED
      BY <1>1, <1>3, <3>1, <3>2, <3>3 DEF MarkedOnce
  <2> QED
    BY <2>1, <2>2
<1> QED
  BY <1>8, <1>9, <1>10 DEF OnceInv

LEMMA OncePass ==
  ASSUME OnceInv, Pass
  PROVE  OnceInv'
<1>0. ScheduleTypeOK /\ Past /\ MarkedOnce
  BY DEF OnceInv
<1>1. /\ now + 1 < End /\ waited < Interval + Jitter /\ now' = now + 1 /\ waited' = waited + 1
      /\ UNCHANGED <<schedule, lastFired, fired, calm, disturbed>>
  BY DEF Pass
<1>2. \A d \in Day : Slot(d)' = Slot(d) /\ Scheduled(d)' = Scheduled(d)
  BY <1>1 DEF Slot, Scheduled
<1>t. /\ now \in Nat /\ waited \in Nat /\ calm \in Int /\ lastFired \in Int /\ End \in Nat
      /\ Interval \in Nat /\ Jitter \in Nat
      /\ \A t \in Instant : fired[t] \in Nat /\ t \in Nat
  BY <1>0, ScheduleNumbers
<1>3. ScheduleTypeOK'
  BY <1>0, <1>1, <1>t DEF ScheduleTypeOK, Instant
<1>4. Past'
  BY <1>0, <1>1, <1>2, <1>t DEF Past
<1>5. MarkedOnce'
  BY <1>0, <1>1, <1>2 DEF MarkedOnce
<1> QED
  BY <1>3, <1>4, <1>5 DEF OnceInv

LEMMA OnceDisturbed ==
  ASSUME OnceInv, Disturbance
  PROVE  OnceInv'
<1>1. /\ ScheduleTypeOK' /\ calm' = now' /\ now' \in Nat /\ lastFired' <= now' /\ Past'
      /\ \A t \in Instant : fired'[t] > 0 => ~(t > calm')
  BY DisturbanceForgets DEF OnceInv
<1>2. lastFired' \in Int
  BY <1>1 DEF ScheduleTypeOK
<1>3. MarkedOnce'
  BY <1>1, <1>2 DEF MarkedOnce
<1> QED
  BY <1>1, <1>3 DEF OnceInv

LEMMA OnceStep == OnceInv /\ [ScheduleNext]_scheduleVars => OnceInv'
<1> SUFFICES ASSUME OnceInv, [ScheduleNext]_scheduleVars PROVE OnceInv'
  OBVIOUS
<1>1. CASE Tick
  BY <1>1, OnceTick
<1>2. CASE Pass
  BY <1>2, OncePass
<1>3. CASE Disturbance
  BY <1>3, OnceDisturbed
<1>4. CASE UNCHANGED scheduleVars
  BY <1>4 DEF scheduleVars, OnceInv, ScheduleTypeOK, Past, MarkedOnce, Slot, Scheduled
<1> QED
  BY <1>1, <1>2, <1>3, <1>4 DEF ScheduleNext

LEMMA OnceInvariant == ScheduleSpec => []OnceInv
<1>1. ScheduleInit => OnceInv
  BY SlotInit DEF SlotInv, OnceInv, Marked, MarkedOnce
<1> QED
  BY <1>1, OnceStep, PTL DEF ScheduleSpec

\* The variables of the schedule keep their types, however late the polls are
\* (ScheduleTypeOK).
THEOREM ScheduleTypes == ScheduleSpec => []ScheduleTypeOK
<1>1. OnceInv => ScheduleTypeOK
  BY DEF OnceInv
<1> QED
  BY <1>1, OnceInvariant, PTL

\* However late its polls are, the loop starts no second scan for a slot that
\* came after the last disturbance, and none for a day that has no slot or
\* whose slot is still to come (_tick).
NeverTwice ==
  \A d \in Day :
    calm < Slot(d) =>
      fired[Slot(d)] <= 1 /\ (~Scheduled(d) \/ now < Slot(d) => fired[Slot(d)] = 0)

\* The half of FiresOncePerDay that no delay of a poll can break.
THEOREM NoSecondScan == ScheduleSpec => []NeverTwice
<1>1. OnceInv => NeverTwice
  <2> SUFFICES ASSUME OnceInv, NEW d \in Day, calm < Slot(d)
               PROVE  /\ fired[Slot(d)] <= 1
                      /\ (~Scheduled(d) \/ now < Slot(d) => fired[Slot(d)] = 0)
    BY DEF NeverTwice
  <2>0. ScheduleTypeOK /\ Past /\ MarkedOnce
    BY DEF OnceInv
  <2>1. /\ now \in Nat /\ calm \in Int
        /\ Slot(d) \in Nat /\ Slot(d) \in Instant /\ fired[Slot(d)] \in Nat
    BY <2>0, ScheduleNumbers, SlotOfDay
  <2>2. fired[Slot(d)] <= 1
    BY <2>0, <2>1 DEF MarkedOnce
  <2>3. ASSUME ~Scheduled(d) \/ now < Slot(d), fired[Slot(d)] > 0
        PROVE  FALSE
    <3>1. Slot(d) <= now /\ \E e \in Day : Scheduled(e) /\ Slot(d) = Slot(e)
      BY <2>0, <2>1, <2>3 DEF Past
    <3>2. PICK e \in Day : Scheduled(e) /\ Slot(d) = Slot(e)
      BY <3>1
    <3>3. d = e
      BY <2>0, <3>2, SlotOrder
    <3> QED
      BY <2>1, <2>3, <3>1, <3>2, <3>3
  <2> QED
    BY <2>1, <2>2, <2>3
<1> QED
  BY <1>1, OnceInvariant, PTL

(***************************************************************************)
(* The panel: in each of its behaviours every part behaves as its own      *)
(* specification says, so what is proved of the parts holds of the panel.  *)
(***************************************************************************)

\* While the bootstrap is in focus the health stands as it began, so that the
\* end of the process is the same to both.
HealthStands == focus = "stack" => HealthInit

LEMMA PanelMovesHealth ==
  ASSUME HealthStands, [PanelNext]_PanelVars
  PROVE  [HealthNext]_<<stackVars, healthVars>> /\ HealthStands'
<1>1. CASE UNCHANGED PanelVars
  BY <1>1 DEF PanelVars, HealthStands, HealthInit, healthVars
<1>2. CASE focus = "stack" /\ StackNext /\ UNCHANGED healthVars
  <2>1. HealthInit /\ HealthInit'
    BY <1>2 DEF HealthStands, HealthInit, healthVars
  <2>2. StackStep => HealthNext
    BY <1>2 DEF HealthNext
  <2>3. ASSUME ServerEnds PROVE HealthNext
    <3>1. /\ cache' = NoMatrix /\ guard' = {} /\ poll' = [q \in Poller |-> NoPoll]
          /\ last' = [n \in Check |-> "none"] /\ recorded' = 0
      BY <2>1 DEF HealthInit
    <3>2. UNCHANGED <<database, rounds, restarts, polls>>
      BY <1>2 DEF healthVars, restarts
    <3> QED
      BY <2>3, <3>1, <3>2 DEF HealthEnds, HealthNext
  <2>4. ASSUME NEW r \in Runner, RunBootstrap(r, "tray") PROVE HealthNext
    <3>1. cache' = NoMatrix
      BY <2>1 DEF HealthInit
    <3>2. UNCHANGED <<guard, poll, database, last, rounds, recorded, restarts, polls>>
      BY <1>2 DEF healthVars, restarts
    <3>3. compose_up_stack(r, "tray")
      BY <2>4, <3>1, <3>2 DEF compose_up_stack, invalidate_system_health_cache
    <3> QED
      BY <3>3 DEF HealthNext
  <2>5. HealthNext
    BY <1>2, <2>2, <2>3, <2>4 DEF StackNext
  <2>6. HealthStands'
    BY <2>1 DEF HealthStands
  <2> QED
    BY <2>5, <2>6
<1>3. CASE focus # "stack" /\ focus' = focus /\ [HealthNext]_<<stackVars, healthVars>>
  BY <1>3 DEF HealthStands
<1> QED
  BY <1>1, <1>2, <1>3 DEF PanelNext

LEMMA PanelHealth == PanelSpec => HealthSpec
<1>1. PanelInit => StackInit /\ HealthInit /\ HealthStands
  BY DEF PanelInit, HealthStands
<1>2. HealthStands /\ [PanelNext]_PanelVars => HealthStands' /\ [HealthNext]_<<stackVars, healthVars>>
  BY PanelMovesHealth
<1> QED
  BY <1>1, <1>2, PTL DEF PanelSpec, HealthSpec

\* The parts that share nothing with another.
LEMMA PanelMoves ==
  ASSUME [PanelNext]_PanelVars
  PROVE  /\ [ScanNext]_scanVars /\ [ScheduleNext]_scheduleVars
         /\ [RulesNext]_rulesVars /\ [ListsNext]_listsVars /\ [NetworkNext]_networkVars
         /\ [LoginNext]_loginVars /\ [TrafficNext]_trafficVars
  BY DEF PanelNext, PanelVars, ScanNext

LEMMA PanelParts ==
  PanelSpec => /\ ScanSpec /\ ScheduleSpec /\ RulesSpec /\ ListsSpec
               /\ NetworkSpec /\ LoginSpec /\ TrafficSpec
<1>1. PanelInit => /\ ScanInit /\ ScheduleInit /\ RulesInit /\ ListsInit
                   /\ NetworkInit /\ LoginInit /\ TrafficInit
  BY DEF PanelInit
<1>2. [PanelNext]_PanelVars =>
        /\ [ScanNext]_scanVars /\ [ScheduleNext]_scheduleVars
        /\ [RulesNext]_rulesVars /\ [ListsNext]_listsVars /\ [NetworkNext]_networkVars
        /\ [LoginNext]_loginVars /\ [TrafficNext]_trafficVars
  BY PanelMoves
<1> QED
  BY <1>1, <1>2, PTL
     DEF PanelSpec, ScanSpec, ScheduleSpec, RulesSpec, ListsSpec, NetworkSpec, LoginSpec, TrafficSpec

\* Every part of the panel keeps its types, the ones out of focus too.
THEOREM PanelTypes == PanelSpec => []PanelTypeOK
<1>1. PanelInit => focus \in Part
  BY DEF PanelInit
<1>2. focus \in Part /\ [PanelNext]_PanelVars => (focus \in Part)'
  BY DEF PanelNext, PanelVars
<1>3. PanelSpec => [](focus \in Part)
  BY <1>1, <1>2, PTL DEF PanelSpec
<1>4. /\ focus \in Part
      /\ HealthTypeOK /\ ScanTypeOK /\ ScheduleTypeOK /\ RulesTypeOK /\ ListsTypeOK
      /\ NetworkTypeOK /\ LoginTypeOK /\ TrafficTypeOK
      => PanelTypeOK
  BY DEF Part, PanelTypeOK
<1> QED
  BY <1>3, <1>4, PanelHealth, PanelParts, HealthTypes, ScanTypes, ScheduleTypes, RulesTypes,
     ListsTypes, NetworkTypes, LoginTypes, TrafficTypes, PTL

\* What is proved of the parts holds of the panel that the run Panel checks.
THEOREM PanelIsSafe ==
  PanelSpec => /\ [](PasswordsAgree /\ KeyWorks /\ UrlWorks /\ SeesTheRestart)
               /\ [](HistoryIsHonest /\ TileMatchesHistory)
               /\ [](NotedIsNudged /\ CategoryIsOperators)
               /\ [](LockIsAnnounced /\ TrafficIsReal /\ NeverTwice)
               /\ GivenOnce /\ NoOlderMatrix /\ OkIsEnforced /\ AnswersAreTrue
  BY PanelHealth, PanelParts, OnePasswordBeside, KeyIsKnownBeside, UrlIsRightBeside,
     PasswordsGivenOnceBeside, RestartIsSeen, RowsAreHonest, TileIsNewestRow, KnownIsNudged,
     CategoryLasts, LocksAreAnnounced, NoTrafficInvented, NoSecondScan, MatricesAdvance,
     OkMeansEnforced, OkIsTrue, PTL

\* And so does the one whose proof needs a bound on the delay of a poll.
THEOREM PanelScansDaily ==
  ASSUME Jitter <= Interval
  PROVE  PanelSpec => []FiresOncePerDay
  BY PanelParts, OneScanADay, PTL
=============================================================================
