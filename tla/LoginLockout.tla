---------------------------- MODULE LoginLockout ----------------------------
(***************************************************************************)
(* The login of the panel and the lock of an account after too many        *)
(* failures (routers/auth.py, services/auth.py).                           *)
(*                                                                         *)
(* A login reads the row, checks the password without giving way, commits  *)
(* and publishes: other logins may commit between its read and its COMMIT, *)
(* which writes only the columns that differ from what it read.            *)
(***************************************************************************)
EXTENDS Naturals

CONSTANTS
  Login,         \* the requests
  MaxFailed,     \* MAX_FAILED_LOGIN_ATTEMPTS
  MaxTries       \* bound on the logins made

ASSUME LoginAssumption == MaxFailed \in Nat \ {0} /\ MaxTries \in Nat

VARIABLES
  account,       \* failed_login_attempts and locked_until of the row
  login,         \* login[r]
  tries,         \* logins made
  announced,     \* history: the lock in force was published
  silenced,      \* history: the process ended between a COMMIT and its publication
  crossed,       \* history: a COMMIT came of a row that others had changed
  hollow         \* history: an attempt that set no lock is published as one

loginVars == <<account, login, tries, announced, silenced, crossed, hollow>>

Lock == {"none", "locked", "expired"}
Attempts == 0 .. MaxTries
Columns == [attempts : Attempts, lock : Lock]
LoginPc == {"idle", "commit", "publish"}
NoLogin == [pc |-> "idle", read |-> [attempts |-> 0, lock |-> "none"], right |-> FALSE]

LoginInit ==
  /\ account = [attempts |-> 0, lock |-> "none"]
  /\ login = [r \in Login |-> NoLogin] /\ tries = 0
  /\ announced = FALSE /\ silenced = FALSE /\ crossed = FALSE /\ hollow = FALSE

is_account_locked == account.lock = "locked"

\* register_failed_login and register_successful_login on the row as read.
register_failed_login(row) ==
  [attempts |-> row.attempts + 1,
   lock |-> IF row.attempts + 1 >= MaxFailed THEN "locked" ELSE row.lock]
register_successful_login(row) == [attempts |-> 0, lock |-> "none"]

Registered(r) ==
  IF login[r].right THEN register_successful_login(login[r].read)
  ELSE register_failed_login(login[r].read)

\* A locked account is refused before the password is looked at.
ReadAccount(r) ==
  /\ login[r].pc = "idle" /\ tries < MaxTries
  /\ tries' = tries + 1
  /\ \E right \in BOOLEAN :
       login' = IF is_account_locked THEN login
                ELSE [login EXCEPT ![r] = [pc |-> "commit", read |-> account, right |-> right]]
  /\ UNCHANGED <<account, announced, silenced, crossed, hollow>>

\* Only the attempt that reaches the limit.
just_reached(r) == ~login[r].right /\ login[r].read.attempts + 1 = MaxFailed

\* just_locked, read off the row in memory: a lock of before counts too.
just_locked(r) == ~login[r].right /\ Registered(r).lock # "none"

\* A new locked_until always differs from the one read.
CommitLogin(r) ==
  /\ login[r].pc = "commit"
  /\ LET row == login[r].read new == Registered(r) IN
     account' = [attempts |-> IF new.attempts = row.attempts THEN account.attempts ELSE new.attempts,
                 lock |-> IF new.lock = row.lock THEN account.lock ELSE new.lock]
  /\ login' = [login EXCEPT ![r] = IF just_locked(r) THEN [@ EXCEPT !.pc = "publish"] ELSE NoLogin]
  /\ announced' = (announced /\ Registered(r).lock # "locked" /\ account'.lock = "locked")
  /\ hollow' = (hollow \/ (just_locked(r) /\ Registered(r).lock # "locked"))
  /\ crossed' = (crossed \/ login[r].read # account)
  /\ UNCHANGED <<tries, silenced>>

PublishLock(r) ==
  /\ login[r].pc = "publish"
  /\ login' = [login EXCEPT ![r] = NoLogin]
  /\ announced' = TRUE
  /\ UNCHANGED <<account, tries, silenced, crossed, hollow>>

\* Fifteen minutes pass; the number of failures stays.
LockExpires ==
  /\ account.lock = "locked"
  /\ account' = [account EXCEPT !.lock = "expired"]
  /\ announced' = FALSE
  /\ UNCHANGED <<login, tries, silenced, crossed, hollow>>

\* The process ends; the lock stays in the database.
LoginEnds ==
  /\ \E r \in Login : login[r].pc # "idle"
  /\ silenced' = (silenced \/ \E r \in Login : login[r].pc = "publish")
  /\ login' = [r \in Login |-> NoLogin]
  /\ UNCHANGED <<account, tries, announced, crossed, hollow>>

LoginNext ==
  \/ \E r \in Login : ReadAccount(r) \/ CommitLogin(r) \/ PublishLock(r)
  \/ LockExpires \/ LoginEnds

LoginSpec == LoginInit /\ [][LoginNext]_loginVars

-----------------------------------------------------------------------------
LoginTypeOK ==
  /\ account \in Columns /\ tries \in 0 .. MaxTries
  /\ login \in [Login -> [pc : LoginPc, read : Columns, right : BOOLEAN]]
  /\ announced \in BOOLEAN /\ silenced \in BOOLEAN /\ crossed \in BOOLEAN /\ hollow \in BOOLEAN

\* A lock in force was published, or its request is about to do so, unless the
\* process ended in between; and as long as no two logins overlapped on the
\* row, nothing is published that is not a lock ("exactly the attempt that
\* causes the lock", login), although the count outlives the lock.
LockIsAnnounced ==
  /\ account.lock = "locked" =>
       announced \/ silenced \/ \E r \in Login : login[r].pc = "publish"
  /\ ~crossed => ~hollow
=============================================================================
