--------------------------- MODULE Notifications ---------------------------
(***************************************************************************)
(* The event bus and the notification service (event_bus.py, notifications *)
(* /{service,registry,quiet_hours,escalation}.py, routers/notifications.py): *)
(* one task per published event, the periodic escalation sweep and the     *)
(* panel's handlers, over the table `notifications`, in a process that may *)
(* end and be started again.                                               *)
(*                                                                         *)
(* Tasks interleave at their awaits: a commit, or the sending of a mail.   *)
(* What a task has read or built before one it uses after it.              *)
(***************************************************************************)
EXTENDS Integers

CONSTANTS
  Event,           \* the events published
  Topic,           \* their topics
  TopicOf,         \* the topic of each
  CriticalTopic,   \* topics register_default_topics makes critical
  MailTopic,       \* topics for which it enables the e-mail channel
  Seeded,          \* TRUE iff .env names trusted contacts
  DayLength,       \* the times of a day: 0 .. DayLength - 1
  QuietEnabled,    \* the settings of the quiet hours
  QuietStart,
  QuietEnd,
  MaxFaults        \* bound on failed commits and mails and on crashes

ASSUME TopicAssumption ==
  TopicOf \in [Event -> Topic] /\ CriticalTopic \subseteq Topic /\ MailTopic \subseteq Topic
ASSUME SeedAssumption == Seeded \in BOOLEAN
ASSUME QuietAssumption ==
  /\ DayLength \in Nat /\ QuietEnabled \in BOOLEAN
  /\ QuietStart \in 0 .. DayLength - 1 /\ QuietEnd \in 0 .. DayLength - 1
ASSUME BoundAssumption == MaxFaults \in Nat

VARIABLES
  row,        \* row[n]: the Notification made of event n
  pub,        \* pub[n]: where the publish of event n is
  logged,     \* the rows of the table `events`
  mailed,     \* events for which the mail server has taken a mail
  matrix,     \* the registry: channels and criticality of every topic
  contacts,   \* TRUE iff there are trusted contacts
  sweep,      \* rows an escalation sweep has read and not yet committed
  looping,    \* TRUE iff the loop of the EscalationScheduler runs
  calls,      \* calls[n]: times channel 6 was called for event n
  acking,     \* rows an acknowledge has read and not yet committed
  up,         \* TRUE iff the process runs
  faults      \* failures still allowed

vars == <<row, pub, logged, mailed, matrix, contacts, sweep, looping, calls,
          acking, up, faults>>

\* Times are abstracted to whether they are set, and the age of a row to
\* whether it has reached escalation_minutes.
Row == [stored : BOOLEAN, critical : BOOLEAN, suppressed : BOOLEAN, email : BOOLEAN,
        sent : BOOLEAN, read : BOOLEAN, acked : BOOLEAN, escalated : BOOLEAN,
        overdue : BOOLEAN]

Blank == [stored |-> FALSE, critical |-> FALSE, suppressed |-> FALSE, email |-> FALSE,
          sent |-> FALSE, read |-> FALSE, acked |-> FALSE, escalated |-> FALSE,
          overdue |-> FALSE]

register_default_topics ==
  [t \in Topic |-> [email |-> t \in MailTopic, critical |-> t \in CriticalTopic]]

Init ==
  /\ row = [n \in Event |-> Blank]
  /\ pub = [n \in Event |-> "none"]
  /\ logged = {} /\ mailed = {}
  /\ matrix = register_default_topics /\ contacts = Seeded
  /\ sweep = {} /\ looping = TRUE /\ calls = [n \in Event |-> 0]
  /\ acking = {}
  /\ up = TRUE /\ faults = MaxFaults

Fault == faults > 0 /\ faults' = faults - 1

Goto(n, pc) == pub' = [pub EXCEPT ![n] = pc]

escalation == <<sweep, looping, calls>>
memory == <<matrix, contacts>>

(***************************************************************************)
(* EventBus.publish: the logger of the events table, then the notification *)
(* service, each call isolated.                                            *)
(***************************************************************************)

Publish(n) ==
  /\ pub[n] = "none"
  /\ Goto(n, "log")
  /\ UNCHANGED <<row, logged, mailed, memory, escalation, acking, up, faults>>

(***************************************************************************)
(* The quiet hours: a window of the day that may wrap midnight.            *)
(***************************************************************************)

TimeOfDay == 0 .. DayLength - 1

ToTheEnd(now, start, end) ==            \* mutated: the last time is in the window
  \/ start < end /\ start <= now /\ now <= end
  \/ start > end /\ (now >= start \/ now <= end)
is_within_window(now, start, end) ==
  \/ start < end /\ start <= now /\ now < end
  \/ start > end /\ (now >= start \/ now < end)

is_quiet_hours_now(now) == QuietEnabled /\ is_within_window(now, QuietStart, QuietEnd)

\* handle_event up to its first await.
Notification(n, quiet) ==
  LET topic == matrix[TopicOf[n]]
      suppressed == ~topic.critical /\ quiet
  IN  [Blank EXCEPT !.critical = topic.critical,
                    !.suppressed = suppressed,
                    !.email = ~suppressed /\ topic.email]

HandleEvent(n) ==
  /\ \E now \in TimeOfDay :
       row' = [row EXCEPT ![n] = Notification(n, is_quiet_hours_now(now))]
  /\ Goto(n, "insert")

LogEvent(n) ==
  /\ pub[n] = "log"
  /\ logged' = logged \cup {n}
  /\ HandleEvent(n)
  /\ UNCHANGED <<mailed, memory, escalation, acking, up, faults>>

Unisolated(n) == Goto(n, "failed") /\ UNCHANGED row   \* mutated: no try around a handler
NextHandler(n) == HandleEvent(n)

LogFails(n) ==
  /\ pub[n] = "log" /\ Fault
  /\ NextHandler(n)
  /\ UNCHANGED <<logged, mailed, memory, escalation, acking, up>>

EnabledNow(n) == matrix[TopicOf[n]].email   \* mutated: channels read again after the commit
ByMail(n) == row[n].email

Insert(n) ==
  /\ pub[n] = "insert"
  /\ row' = [row EXCEPT ![n].stored = TRUE]
  /\ Goto(n, IF ByMail(n) THEN "mail" ELSE "done")
  /\ UNCHANGED <<logged, mailed, memory, escalation, acking, up, faults>>

\* The commit raises, or the refresh that follows it does.
InsertFails(n) ==
  /\ pub[n] = "insert" /\ Fault
  /\ \E committed \in BOOLEAN : row' = [row EXCEPT ![n].stored = committed]
  /\ Goto(n, "failed")
  /\ UNCHANGED <<logged, mailed, memory, escalation, acking, up>>

\* _deliver_email.  SMTP not being configured is as having no contacts.
NoRecipients(n) ==
  /\ pub[n] = "mail" /\ ~contacts
  /\ Goto(n, "done")
  /\ UNCHANGED <<row, logged, mailed, memory, escalation, acking, up, faults>>

SendEmail(n) ==
  /\ pub[n] = "mail" /\ contacts
  /\ mailed' = mailed \cup {n}
  /\ Goto(n, "flag")
  /\ UNCHANGED <<row, logged, memory, escalation, acking, up, faults>>

Postponed == "retry"                    \* mutated: left to a retry there is none of
FlagAnyway == "flag"                    \* mutated: no return after the exception
GivenUp == "done"

\* The server may have taken the mail before the connection fails.
SendFails(n) ==
  /\ pub[n] = "mail" /\ contacts /\ Fault
  /\ mailed' \in {mailed, mailed \cup {n}}
  /\ Goto(n, GivenUp)
  /\ UNCHANGED <<row, logged, memory, escalation, acking, up>>

FlagSent(n) ==
  /\ pub[n] = "flag"
  /\ row' = [row EXCEPT ![n].sent = TRUE]
  /\ Goto(n, "done")
  /\ UNCHANGED <<logged, mailed, memory, escalation, acking, up, faults>>

FlagFails(n) ==
  /\ pub[n] = "flag" /\ Fault
  /\ Goto(n, "failed")
  /\ UNCHANGED <<row, logged, mailed, memory, escalation, acking, up>>

(***************************************************************************)
(* run_escalation_sweep.                                                   *)
(***************************************************************************)

\* created_at is stamped before the row is inserted.  Nobody asks for the age
\* of a row that is not critical.
GrowOld(n) ==
  /\ row[n].stored \/ pub[n] = "insert"
  /\ row[n].critical /\ ~row[n].overdue
  /\ row' = [row EXCEPT ![n].overdue = TRUE]
  /\ UNCHANGED <<pub, logged, mailed, memory, escalation, acking, up, faults>>

Unescalated(r) ==                       \* mutated: acknowledged_at is not asked for
  r.stored /\ r.critical /\ ~r.escalated /\ r.overdue
Unacknowledged(r) ==                    \* mutated: escalated_at is not asked for
  r.stored /\ r.critical /\ ~r.acked /\ r.overdue
Outstanding(r) ==
  r.stored /\ r.critical /\ ~r.acked /\ ~r.escalated /\ r.overdue

\* The select, and the calls of channel 6; nothing overdue, no commit.
Sweep ==
  /\ looping /\ sweep = {}
  /\ sweep' = {n \in Event : Outstanding(row[n])} /\ sweep' # {}
  /\ calls' = [n \in Event |-> calls[n] + (IF n \in sweep' THEN 1 ELSE 0)]
  /\ UNCHANGED <<row, pub, logged, mailed, memory, looping, acking, up, faults>>

\* An UPDATE of the one column, whatever the row holds by now.
SweepCommits ==
  /\ sweep # {} /\ sweep' = {}
  /\ row' = [n \in Event |-> IF n \in sweep THEN [row[n] EXCEPT !.escalated = TRUE] ELSE row[n]]
  /\ UNCHANGED <<pub, logged, mailed, memory, looping, calls, acking, up, faults>>

EndsLoop == FALSE                       \* mutated: no try around run_once
Survives == looping

SweepFails ==
  /\ sweep # {} /\ Fault
  /\ sweep' = {} /\ looping' = Survives
  /\ UNCHANGED <<row, pub, logged, mailed, memory, calls, acking, up>>

(***************************************************************************)
(* The handlers of the panel.                                              *)
(***************************************************************************)

\* A row that is inserted between the select and the commit stays unread.
MarkRead ==
  /\ \E selected \in SUBSET {n \in Event : row[n].stored /\ ~row[n].suppressed} :
       row' = [n \in Event |-> [row[n] EXCEPT !.read = @ \/ n \in selected]]
  /\ UNCHANGED <<pub, logged, mailed, memory, escalation, acking, up, faults>>

Acknowledge(n) ==
  /\ row[n].stored /\ ~row[n].acked
  /\ acking' = acking \cup {n}
  /\ UNCHANGED <<row, pub, logged, mailed, memory, escalation, up, faults>>

AcknowledgeEnds(n) ==
  /\ n \in acking /\ acking' = acking \ {n}
  /\ \/ row' = [row EXCEPT ![n].acked = TRUE] /\ UNCHANGED faults
     \/ Fault /\ UNCHANGED row
  /\ UNCHANGED <<pub, logged, mailed, memory, escalation, up>>

Reset(entry, email) ==                  \* mutated: registered anew
  [email |-> email, critical |-> FALSE]
SetChannels(entry, email) == [email |-> email, critical |-> entry.critical]

UpdateMatrix(t) ==
  /\ \E email \in BOOLEAN : matrix' = [matrix EXCEPT ![t] = SetChannels(@, email)]
  /\ UNCHANGED <<row, pub, logged, mailed, contacts, escalation, acking, up, faults>>

UpdateTrustedContacts ==
  /\ contacts' \in BOOLEAN
  /\ UNCHANGED <<row, pub, logged, mailed, matrix, escalation, acking, up, faults>>

(***************************************************************************)
(* The process.                                                            *)
(***************************************************************************)

Ended == {"none", "done", "failed", "lost"}

\* An orderly stop cancels the same tasks.
Crash ==
  /\ Fault /\ up' = FALSE
  /\ pub' = [n \in Event |-> IF pub[n] \in Ended THEN pub[n] ELSE "lost"]
  /\ sweep' = {} /\ acking' = {} /\ looping' = FALSE
  /\ UNCHANGED <<row, logged, mailed, memory, calls>>

Start ==
  /\ ~up /\ up' = TRUE
  /\ matrix' = register_default_topics /\ contacts' = Seeded /\ looping' = TRUE
  /\ UNCHANGED <<row, pub, logged, mailed, sweep, calls, acking, faults>>

Handler(n) ==
  \/ LogEvent(n) \/ Insert(n) \/ NoRecipients(n) \/ SendEmail(n) \/ FlagSent(n)
HandlerFails(n) == LogFails(n) \/ InsertFails(n) \/ SendFails(n) \/ FlagFails(n)

Sweeper == Sweep \/ SweepCommits

Panel ==
  \/ MarkRead \/ UpdateTrustedContacts
  \/ \E n \in Event : Acknowledge(n) \/ AcknowledgeEnds(n)
  \/ \E t \in Topic : UpdateMatrix(t)

Running ==
  \/ \E n \in Event : Publish(n) \/ Handler(n) \/ HandlerFails(n)
  \/ Sweeper \/ SweepFails \/ Panel \/ Crash

Next == (up /\ Running) \/ Start \/ \E n \in Event : GrowOld(n)

\* Tasks that are ready get their turn, time passes, the loop sleeps for a
\* finite time, and the container is restarted.
Fairness ==
  /\ WF_vars(up /\ Sweeper) /\ WF_vars(Start)
  /\ \A n \in Event : WF_vars(up /\ Handler(n)) /\ WF_vars(GrowOld(n))

Spec == Init /\ [][Next]_vars /\ Fairness

(***************************************************************************)
(* Properties.                                                             *)
(***************************************************************************)

\* The type invariant: the values every variable may take.
TypeOK ==
  /\ row \in [Event -> Row]
  /\ pub \in [Event -> Ended \cup {"log", "insert", "mail", "flag"}]
  /\ logged \in SUBSET Event /\ mailed \in SUBSET Event
  /\ matrix \in [Topic -> [email : BOOLEAN, critical : BOOLEAN]] /\ contacts \in BOOLEAN
  /\ sweep \in SUBSET Event /\ looping \in BOOLEAN /\ calls \in [Event -> Nat]
  /\ acking \in SUBSET Event
  /\ up \in BOOLEAN /\ faults \in 0..MaxFaults

\* Subscribers are isolated from each other: when a publish has come to its
\* end and at most one thing has failed, the event is in a table.
OneRecordAtLeast ==
  \A n \in Event :
    pub[n] \in {"done", "failed"} /\ MaxFaults - faults <= 1
      => n \in logged \/ row[n].stored

\* Any window lasts from its start until its end, the end excluded, on
\* whichever side of midnight they are, and is empty when they are equal: time
\* going by reaches a time of the window before it reaches the end.
Since(start, now) == IF now >= start THEN now - start ELSE now + DayLength - start

WindowLasts ==
  \A start, end, now \in TimeOfDay :
    is_within_window(now, start, end) <=> Since(start, now) < Since(start, end)

\* Whatever the registry holds when its task comes to it, an event is hushed
\* in the window of the settings, unless the row built for it is critical, and
\* at no other time; a hushed row names no channel.
HushedInWindow ==
  /\ WindowLasts
  /\ \A n \in Event, now \in TimeOfDay :
       LET built == Notification(n, is_quiet_hours_now(now)) IN
       pub[n] = "log" =>
         /\ built.suppressed <=>
              ~built.critical /\ QuietEnabled
                /\ Since(QuietStart, now) < Since(QuietStart, QuietEnd)
         /\ built.suppressed => ~built.email

\* Quiet hours never swallow a critical topic, whatever edits of the matrix
\* and restarts the event falls between.
NeverHushed ==
  \A n \in Event :
    row[n].stored /\ TopicOf[n] \in CriticalTopic => row[n].critical /\ ~row[n].suppressed

\* The row tells the truth about mail, however the matrix and the contacts
\* change and the sending fails under way: a mail goes out only if its row
\* names the channel, and the flag is set only if one went out.
MailMatchesRow ==
  \A n \in Event :
    /\ row[n].sent => n \in mailed
    /\ n \in mailed => row[n].stored /\ row[n].email

\* Channel 6 is called for critical rows only, and again for one of them only
\* after a failure: sweeps do not repeat themselves.
RepeatsArePaid ==
  \A n \in Event :
    /\ calls[n] <= 1 + (MaxFaults - faults)
    /\ calls[n] > 0 => row[n].critical

\* An acknowledgement stops the sweep: one that no sweep had already overtaken
\* is never followed by an escalation.
AckStopsSweep ==
  [][\A n \in Event :
       row[n].acked /\ n \notin sweep /\ ~row[n].escalated
         => n \notin sweep' /\ ~row'[n].escalated]_vars

\* A critical event is in the end acknowledged or escalated, though sweeps fail
\* and the process is restarted, unless its row could not be written.
CriticalIsAttended ==
  \A n \in Event :
    TopicOf[n] \in CriticalTopic /\ pub[n] = "log"
      ~> \/ row[n].acked \/ row[n].escalated
         \/ (pub[n] \in {"failed", "lost"} /\ ~row[n].stored)
=============================================================================
