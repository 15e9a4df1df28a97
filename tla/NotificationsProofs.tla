------------------------ MODULE NotificationsProofs ------------------------
(***************************************************************************)
(* The safety of the notifications, for any events, topics and bounds.     *)
(***************************************************************************)
EXTENDS Notifications, TLAPS

(***************************************************************************)
(* Types.                                                                  *)
(***************************************************************************)

LEMMA BlankType == Blank \in Row
  BY DEF Blank, Row

\* Setting a column of a row leaves a row.
LEMMA ColumnType ==
  ASSUME NEW r \in Row, NEW b \in BOOLEAN
  PROVE  /\ [r EXCEPT !.stored = b] \in Row /\ [r EXCEPT !.sent = b] \in Row
         /\ [r EXCEPT !.read = b] \in Row /\ [r EXCEPT !.acked = b] \in Row
         /\ [r EXCEPT !.escalated = b] \in Row /\ [r EXCEPT !.overdue = b] \in Row
  BY DEF Row

LEMMA TypesInit == Init => TypeOK
  BY BlankType, TopicAssumption, SeedAssumption, BoundAssumption
  DEF Init, TypeOK, register_default_topics, Ended

LEMMA FaultType == TypeOK /\ Fault => faults' \in 0..MaxFaults
  BY BoundAssumption DEF TypeOK, Fault

LEMMA HourIsQuiet == \A now : is_quiet_hours_now(now) \in BOOLEAN
  BY QuietAssumption DEF is_quiet_hours_now, is_within_window

\* Whatever the hour, the row built for an event is one.
LEMMA DraftType ==
  ASSUME TypeOK, NEW n \in Event, HandleEvent(n)
  PROVE  row' \in [Event -> Row] /\ pub' = [pub EXCEPT ![n] = "insert"]
<1>1. PICK quiet \in BOOLEAN : row' = [row EXCEPT ![n] = Notification(n, quiet)]
  BY HourIsQuiet DEF HandleEvent
<1>2. matrix[TopicOf[n]] \in [email : BOOLEAN, critical : BOOLEAN]
  BY TopicAssumption DEF TypeOK
<1>3. Notification(n, quiet) \in Row
  BY <1>2 DEF Notification, Blank, Row
<1> QED
  BY <1>1, <1>3 DEF TypeOK, HandleEvent, Goto

LEMMA TypesStep == TypeOK /\ [Next]_vars => TypeOK'
<1> SUFFICES ASSUME TypeOK, [Next]_vars PROVE TypeOK'
  OBVIOUS
<1> USE DEF memory, escalation, Ended
<1>1. ASSUME NEW n \in Event, Publish(n) PROVE TypeOK'
  BY <1>1 DEF TypeOK, Publish, Goto
<1>2. ASSUME NEW n \in Event, LogEvent(n) PROVE TypeOK'
  BY <1>2, DraftType DEF TypeOK, LogEvent
<1>3. ASSUME NEW n \in Event, LogFails(n) PROVE TypeOK'
  BY <1>3, DraftType, FaultType DEF TypeOK, LogFails, NextHandler
<1>4. ASSUME NEW n \in Event, Insert(n) PROVE TypeOK'
  <2>1. [row[n] EXCEPT !.stored = TRUE] \in Row
    BY ColumnType DEF TypeOK
  <2>2. row' \in [Event -> Row]
    BY <1>4, <2>1 DEF TypeOK, Insert
  <2> QED
    BY <1>4, <2>2 DEF TypeOK, Insert, Goto
<1>5. ASSUME NEW n \in Event, InsertFails(n) PROVE TypeOK'
  <2>1. \A b \in BOOLEAN : [row[n] EXCEPT !.stored = b] \in Row
    BY ColumnType DEF TypeOK
  <2>2. row' \in [Event -> Row]
    BY <1>5, <2>1 DEF TypeOK, InsertFails
  <2> QED
    BY <1>5, <2>2, FaultType DEF TypeOK, InsertFails, Goto
<1>6. ASSUME NEW n \in Event, NoRecipients(n) \/ SendEmail(n) PROVE TypeOK'
  BY <1>6 DEF TypeOK, NoRecipients, SendEmail, Goto
<1>7. ASSUME NEW n \in Event, SendFails(n) PROVE TypeOK'
  BY <1>7, FaultType DEF TypeOK, SendFails, Goto, GivenUp
<1>8. ASSUME NEW n \in Event, FlagSent(n) PROVE TypeOK'
  <2>1. [row[n] EXCEPT !.sent = TRUE] \in Row
    BY ColumnType DEF TypeOK
  <2>2. row' \in [Event -> Row]
    BY <1>8, <2>1 DEF TypeOK, FlagSent
  <2> QED
    BY <1>8, <2>2 DEF TypeOK, FlagSent, Goto
<1>9. ASSUME NEW n \in Event, FlagFails(n) PROVE TypeOK'
  BY <1>9, FaultType DEF TypeOK, FlagFails, Goto
<1>10. ASSUME NEW n \in Event, GrowOld(n) PROVE TypeOK'
  <2>1. [row[n] EXCEPT !.overdue = TRUE] \in Row
    BY ColumnType DEF TypeOK
  <2> QED
    BY <1>10, <2>1 DEF TypeOK, GrowOld
<1>11. CASE Sweep
  BY <1>11 DEF TypeOK, Sweep
<1>12. CASE SweepCommits
  <2>1. \A n \in Event : [row[n] EXCEPT !.escalated = TRUE] \in Row
    BY ColumnType DEF TypeOK
  <2> QED
    BY <1>12, <2>1 DEF TypeOK, SweepCommits
<1>13. CASE SweepFails
  BY <1>13, FaultType DEF TypeOK, SweepFails, Survives
<1>14. CASE MarkRead
  <2>1. PICK selected : row' = [n \in Event |-> [row[n] EXCEPT !.read = @ \/ n \in selected]]
    BY <1>14 DEF MarkRead
  <2>2. ASSUME NEW n \in Event PROVE [row[n] EXCEPT !.read = @ \/ n \in selected] \in Row
    <3>1. row[n] \in Row
      BY DEF TypeOK
    <3>2. (row[n].read \/ n \in selected) \in BOOLEAN
      OBVIOUS
    <3> QED
      BY <3>1, <3>2, ColumnType
  <2>3. row' \in [Event -> Row]
    BY <2>1, <2>2
  <2> QED
    BY <1>14, <2>3 DEF TypeOK, MarkRead
<1>15. ASSUME NEW n \in Event, Acknowledge(n) PROVE TypeOK'
  BY <1>15 DEF TypeOK, Acknowledge
<1>16. ASSUME NEW n \in Event, AcknowledgeEnds(n) PROVE TypeOK'
  <2>1. [row[n] EXCEPT !.acked = TRUE] \in Row
    BY ColumnType DEF TypeOK
  <2> QED
    BY <1>16, <2>1, FaultType DEF TypeOK, AcknowledgeEnds
<1>17. ASSUME NEW t \in Topic, UpdateMatrix(t) PROVE TypeOK'
  BY <1>17 DEF TypeOK, UpdateMatrix, SetChannels
<1>18. CASE UpdateTrustedContacts
  BY <1>18 DEF TypeOK, UpdateTrustedContacts
<1>19. CASE Crash
  BY <1>19, FaultType DEF TypeOK, Crash
<1>20. CASE Start
  BY <1>20, SeedAssumption DEF TypeOK, Start, register_default_topics
<1>21. CASE UNCHANGED vars
  BY <1>21 DEF TypeOK, vars
<1> QED
  BY <1>1, <1>2, <1>3, <1>4, <1>5, <1>6, <1>7, <1>8, <1>9, <1>10, <1>11, <1>12, <1>13,
     <1>14, <1>15, <1>16, <1>17, <1>18, <1>19, <1>20, <1>21
  DEF Next, Running, Handler, HandlerFails, Sweeper, Panel

\* No reachable state, for any events, topics and bound on the failures, is
\* outside the types of TypeOK.
THEOREM NotificationTypes == Spec => []TypeOK
  BY TypesInit, TypesStep, PTL DEF Spec

(***************************************************************************)
(* The invariant, for each event: the registry keeps what is critical; the *)
(* table, the mail server and the sweep agree with where the publish is.   *)
(***************************************************************************)

MatrixKeeps == \A t \in Topic : matrix[t].critical = (t \in CriticalTopic)

\* The row is committed at the end of the insertion, not before.
Placed(n) ==
  /\ pub[n] \in {"none", "log", "insert"} => ~row[n].stored
  /\ pub[n] \in {"mail", "flag", "done"} => row[n].stored

Loud(n) ==
  /\ row[n].stored \/ pub[n] = "insert"
  /\ TopicOf[n] \in CriticalTopic
  => row[n].critical /\ ~row[n].suppressed

Mailing(n) ==
  /\ pub[n] \in {"mail", "flag"} => row[n].email
  /\ pub[n] = "flag" => n \in mailed
  /\ row[n].sent => n \in mailed
  /\ n \in mailed => row[n].stored /\ row[n].email

\* A call not paid by a failure is of the sweep in progress, or recorded.
Called(n) ==
  /\ n \in sweep \/ row[n].escalated \/ calls[n] > 0 => row[n].stored /\ row[n].critical
  /\ calls[n] <= (MaxFaults - faults) + (IF n \in sweep \/ row[n].escalated THEN 1 ELSE 0)

Recorded(n) ==
  /\ pub[n] = "insert" => n \in logged \/ faults + 1 <= MaxFaults
  /\ pub[n] = "failed" => n \in logged \/ row[n].stored \/ faults + 2 <= MaxFaults

Good(n) == Placed(n) /\ Loud(n) /\ Mailing(n) /\ Called(n) /\ Recorded(n)

IInv == TypeOK /\ MatrixKeeps /\ \A n \in Event : Good(n)

LEMMA InvInit == Init => IInv
<1> SUFFICES ASSUME Init PROVE IInv
  OBVIOUS
<1>1. TypeOK
  BY TypesInit
<1>2. MatrixKeeps
  BY DEF Init, MatrixKeeps, register_default_topics
<1>3. ASSUME NEW n \in Event PROVE Good(n)
  BY BoundAssumption
  DEF Init, Blank, Good, Placed, Loud, Mailing, Called, Recorded
<1> QED
  BY <1>1, <1>2, <1>3 DEF IInv

LEMMA RegistryStep == MatrixKeeps /\ TypeOK /\ [Next]_vars => MatrixKeeps'
<1> SUFFICES ASSUME MatrixKeeps, TypeOK, [Next]_vars PROVE MatrixKeeps'
  OBVIOUS
<1>1. ASSUME NEW t \in Topic, UpdateMatrix(t) PROVE MatrixKeeps'
  BY <1>1 DEF MatrixKeeps, TypeOK, UpdateMatrix, SetChannels
<1>2. CASE Start
  BY <1>2 DEF MatrixKeeps, Start, register_default_topics
<1>3. CASE UNCHANGED matrix
  BY <1>3 DEF MatrixKeeps
<1>4. (\E t \in Topic : UpdateMatrix(t)) \/ Start \/ UNCHANGED matrix
  BY DEF Next, vars, Running, Handler, HandlerFails, Sweeper, Panel, memory, Publish,
     LogEvent, LogFails, Insert, InsertFails, NoRecipients, SendEmail, SendFails, FlagSent,
     FlagFails, GrowOld, Sweep, SweepCommits, SweepFails, MarkRead, Acknowledge,
     AcknowledgeEnds, UpdateTrustedContacts, Crash
<1> QED
  BY <1>1, <1>2, <1>3, <1>4

\* A failure elsewhere only loosens what is said of an event.
LEMMA Elsewhere ==
  ASSUME TypeOK, NEW n \in Event, Good(n),
         row'[n] = row[n], pub'[n] = pub[n] \/ pub'[n] = "lost",
         n \in logged' <=> n \in logged, n \in mailed' <=> n \in mailed,
         n \in sweep' => n \in sweep, calls'[n] = calls[n],
         \/ faults' = faults /\ sweep' = sweep
         \/ faults' \in Int /\ faults' = faults - 1
  PROVE  Good(n)'
<1>1. faults \in Int /\ MaxFaults \in Int /\ calls[n] \in Int
  BY BoundAssumption DEF TypeOK
<1>2. Placed(n)'
  BY DEF Good, Placed
<1>3. Loud(n)'
  BY DEF Good, Loud
<1>4. Mailing(n)'
  BY DEF Good, Mailing
<1>5. Called(n)'
  BY <1>1 DEF Good, Called
<1>6. Recorded(n)'
  BY <1>1 DEF Good, Recorded
<1> QED
  BY <1>2, <1>3, <1>4, <1>5, <1>6 DEF Good

\* What the types say of the cells of one event, in the form the provers use.
LEMMA CellTypes ==
  ASSUME TypeOK
  PROVE  /\ row \in [Event -> Row] /\ DOMAIN pub = Event /\ DOMAIN calls = Event
         /\ \A n \in Event : calls[n] \in Nat /\ row[n] \in Row
         /\ faults \in Int /\ faults <= MaxFaults /\ MaxFaults \in Int
  BY BoundAssumption DEF TypeOK

LEMMA GoodStep == IInv /\ [Next]_vars => \A m \in Event : Good(m)'
<1> SUFFICES ASSUME IInv, [Next]_vars PROVE \A m \in Event : Good(m)'
  OBVIOUS
<1>0. TypeOK
  BY DEF IInv
<1>c. /\ row \in [Event -> Row] /\ DOMAIN pub = Event /\ DOMAIN calls = Event
      /\ \A n \in Event : calls[n] \in Nat /\ row[n] \in Row
      /\ faults \in Int /\ faults <= MaxFaults /\ MaxFaults \in Int
  BY <1>0, CellTypes
<1> USE DEF memory, escalation
<1>1. ASSUME NEW n \in Event, Publish(n) PROVE \A m \in Event : Good(m)'
  <2>1. Good(n)'
    BY <1>1, <1>c DEF Publish, Goto, IInv, Good, Placed, Loud, Mailing, Called, Recorded
  <2>2. ASSUME NEW m \in Event, m # n PROVE Good(m)'
    BY <1>1, <1>0, <1>c, <2>2, Elsewhere DEF Publish, Goto, IInv
  <2> QED
    BY <2>1, <2>2
<1>2. ASSUME NEW n \in Event, LogEvent(n) PROVE \A m \in Event : Good(m)'
  <2>1. PICK quiet \in BOOLEAN : row' = [row EXCEPT ![n] = Notification(n, quiet)]
    BY <1>2, HourIsQuiet DEF LogEvent, HandleEvent
  <2>2. row'[n] = Notification(n, quiet) /\ pub[n] = "log" /\ pub'[n] = "insert"
    BY <1>2, <1>c, <2>1 DEF LogEvent, HandleEvent, Goto
  <2>3. TopicOf[n] \in Topic /\ (matrix[TopicOf[n]].critical = (TopicOf[n] \in CriticalTopic))
    BY TopicAssumption DEF IInv, MatrixKeeps
  <2>4. /\ ~row'[n].stored /\ ~row'[n].sent /\ ~row'[n].escalated
        /\ TopicOf[n] \in CriticalTopic => row'[n].critical /\ ~row'[n].suppressed
    BY <2>2, <2>3 DEF Notification, Blank
  <2>5. Good(n)
    BY DEF IInv
  <2>6. n \notin mailed /\ n \notin sweep /\ ~(calls[n] > 0)
    BY <2>2, <2>5 DEF Good, Placed, Mailing, Called
  <2>7. Good(n)'
    BY <1>2, <1>c, <2>2, <2>4, <2>6 DEF LogEvent, Good, Placed, Loud, Mailing, Called, Recorded
  <2>8. ASSUME NEW m \in Event, m # n PROVE Good(m)'
    BY <1>2, <1>0, <1>c, <2>1, <2>8, Elsewhere DEF LogEvent, HandleEvent, Goto, IInv
  <2> QED
    BY <2>7, <2>8
<1>3. ASSUME NEW n \in Event, LogFails(n) PROVE \A m \in Event : Good(m)'
  <2>1. PICK quiet \in BOOLEAN : row' = [row EXCEPT ![n] = Notification(n, quiet)]
    BY <1>3, HourIsQuiet DEF LogFails, NextHandler, Fault, HandleEvent
  <2>2. row'[n] = Notification(n, quiet) /\ pub[n] = "log" /\ pub'[n] = "insert"
    BY <1>3, <1>c, <2>1 DEF LogFails, NextHandler, Fault, HandleEvent, Goto
  <2>3. TopicOf[n] \in Topic /\ (matrix[TopicOf[n]].critical = (TopicOf[n] \in CriticalTopic))
    BY TopicAssumption DEF IInv, MatrixKeeps
  <2>4. /\ ~row'[n].stored /\ ~row'[n].sent /\ ~row'[n].escalated
        /\ TopicOf[n] \in CriticalTopic => row'[n].critical /\ ~row'[n].suppressed
    BY <2>2, <2>3 DEF Notification, Blank
  <2>5. Good(n)
    BY DEF IInv
  <2>6. n \notin mailed /\ n \notin sweep /\ ~(calls[n] > 0)
    BY <2>2, <2>5 DEF Good, Placed, Mailing, Called
  <2>7. Good(n)'
    BY <1>3, <1>c, <2>2, <2>4, <2>6 DEF LogFails, NextHandler, Fault, Good, Placed, Loud, Mailing, Called, Recorded
  <2>8. ASSUME NEW m \in Event, m # n PROVE Good(m)'
    BY <1>3, <1>0, <1>c, <2>1, <2>8, Elsewhere DEF LogFails, NextHandler, Fault, HandleEvent, Goto, IInv
  <2> QED
    BY <2>7, <2>8
<1>4. ASSUME NEW n \in Event, Insert(n) PROVE \A m \in Event : Good(m)'
  <2>1. Good(n)'
    BY <1>4, <1>c DEF Insert, Goto, ByMail, IInv, Good, Placed, Loud, Mailing, Called, Recorded
  <2>2. ASSUME NEW m \in Event, m # n PROVE Good(m)'
    BY <1>4, <1>0, <1>c, <2>2, Elsewhere DEF Insert, Goto, ByMail, IInv
  <2> QED
    BY <2>1, <2>2
<1>5. ASSUME NEW n \in Event, InsertFails(n) PROVE \A m \in Event : Good(m)'
  <2>1. Good(n)'
    BY <1>5, <1>c DEF InsertFails, Goto, Fault, IInv, Good, Placed, Loud, Mailing, Called, Recorded
  <2>2. ASSUME NEW m \in Event, m # n PROVE Good(m)'
    BY <1>5, <1>0, <1>c, <2>2, Elsewhere DEF InsertFails, Goto, Fault, IInv
  <2> QED
    BY <2>1, <2>2
<1>6. ASSUME NEW n \in Event, NoRecipients(n) PROVE \A m \in Event : Good(m)'
  <2>1. Good(n)'
    BY <1>6, <1>c DEF NoRecipients, Goto, IInv, Good, Placed, Loud, Mailing, Called, Recorded
  <2>2. ASSUME NEW m \in Event, m # n PROVE Good(m)'
    BY <1>6, <1>0, <1>c, <2>2, Elsewhere DEF NoRecipients, Goto, IInv
  <2> QED
    BY <2>1, <2>2
<1>7. ASSUME NEW n \in Event, SendEmail(n) PROVE \A m \in Event : Good(m)'
  <2>1. Good(n)'
    BY <1>7, <1>c DEF SendEmail, Goto, IInv, Good, Placed, Loud, Mailing, Called, Recorded
  <2>2. ASSUME NEW m \in Event, m # n PROVE Good(m)'
    BY <1>7, <1>0, <1>c, <2>2, Elsewhere DEF SendEmail, Goto, IInv
  <2> QED
    BY <2>1, <2>2
<1>8. ASSUME NEW n \in Event, SendFails(n) PROVE \A m \in Event : Good(m)'
  <2>1. Good(n)'
    BY <1>8, <1>c DEF SendFails, Goto, GivenUp, Fault, IInv, Good, Placed, Loud, Mailing, Called, Recorded
  <2>2. ASSUME NEW m \in Event, m # n PROVE Good(m)'
    BY <1>8, <1>0, <1>c, <2>2, Elsewhere DEF SendFails, Goto, GivenUp, Fault, IInv
  <2> QED
    BY <2>1, <2>2
<1>9. ASSUME NEW n \in Event, FlagSent(n) PROVE \A m \in Event : Good(m)'
  <2>1. Good(n)'
    BY <1>9, <1>c DEF FlagSent, Goto, IInv, Good, Placed, Loud, Mailing, Called, Recorded
  <2>2. ASSUME NEW m \in Event, m # n PROVE Good(m)'
    BY <1>9, <1>0, <1>c, <2>2, Elsewhere DEF FlagSent, Goto, IInv
  <2> QED
    BY <2>1, <2>2
<1>10. ASSUME NEW n \in Event, FlagFails(n) PROVE \A m \in Event : Good(m)'
  <2>1. Good(n)'
    BY <1>10, <1>c DEF FlagFails, Goto, Fault, IInv, Good, Placed, Loud, Mailing, Called, Recorded
  <2>2. ASSUME NEW m \in Event, m # n PROVE Good(m)'
    BY <1>10, <1>0, <1>c, <2>2, Elsewhere DEF FlagFails, Goto, Fault, IInv
  <2> QED
    BY <2>1, <2>2
<1>11. ASSUME NEW n \in Event, GrowOld(n) PROVE \A m \in Event : Good(m)'
  <2>1. Good(n)'
    BY <1>11, <1>c DEF GrowOld, IInv, Good, Placed, Loud, Mailing, Called, Recorded
  <2>2. ASSUME NEW m \in Event, m # n PROVE Good(m)'
    BY <1>11, <1>0, <1>c, <2>2, Elsewhere DEF GrowOld, IInv
  <2> QED
    BY <2>1, <2>2
<1>12. ASSUME NEW n \in Event, Acknowledge(n) PROVE \A m \in Event : Good(m)'
  <2>1. Good(n)'
    BY <1>12, <1>c DEF Acknowledge, IInv, Good, Placed, Loud, Mailing, Called, Recorded
  <2>2. ASSUME NEW m \in Event, m # n PROVE Good(m)'
    BY <1>12, <1>0, <1>c, <2>2, Elsewhere DEF Acknowledge, IInv
  <2> QED
    BY <2>1, <2>2
<1>13. ASSUME NEW n \in Event, AcknowledgeEnds(n) PROVE \A m \in Event : Good(m)'
  <2>1. Good(n)'
    <3>1. CASE row' = [row EXCEPT ![n].acked = TRUE] /\ UNCHANGED faults
      BY <1>13, <1>c, <3>1
      DEF AcknowledgeEnds, IInv, Good, Placed, Loud, Mailing, Called, Recorded
    <3>2. CASE Fault /\ UNCHANGED row
      BY <1>13, <1>0, <1>c, <3>2, Elsewhere DEF AcknowledgeEnds, Fault, IInv
    <3> QED
      BY <1>13, <3>1, <3>2 DEF AcknowledgeEnds
  <2>2. ASSUME NEW m \in Event, m # n PROVE Good(m)'
    BY <1>13, <1>0, <1>c, <2>2, Elsewhere DEF AcknowledgeEnds, Fault, IInv
  <2> QED
    BY <2>1, <2>2
<1>14. CASE Sweep
  <2> SUFFICES ASSUME NEW m \in Event PROVE Good(m)'
    OBVIOUS
  <2>1. Good(m)
    BY DEF IInv
  <2> QED
    BY <1>14, <1>c, <2>1 DEF Sweep, Outstanding, Good, Placed, Loud, Mailing, Called, Recorded
<1>15. CASE SweepCommits
  <2> SUFFICES ASSUME NEW m \in Event PROVE Good(m)'
    OBVIOUS
  <2>1. Good(m)
    BY DEF IInv
  <2> QED
    BY <1>15, <1>c, <2>1 DEF SweepCommits, Good, Placed, Loud, Mailing, Called, Recorded
<1>16. CASE SweepFails
  <2> SUFFICES ASSUME NEW m \in Event PROVE Good(m)'
    OBVIOUS
  <2>1. Good(m)
    BY DEF IInv
  <2> QED
    BY <1>16, <1>c, <2>1 DEF SweepFails, Fault, Good, Placed, Loud, Mailing, Called, Recorded
<1>17. CASE MarkRead
  <2> SUFFICES ASSUME NEW m \in Event PROVE Good(m)'
    OBVIOUS
  <2>1. Good(m)
    BY DEF IInv
  <2>2. PICK selected :
          row' = [n \in Event |-> [row[n] EXCEPT !.read = @ \/ n \in selected]]
    BY <1>17 DEF MarkRead
  <2>3. row'[m] = [row[m] EXCEPT !.read = @ \/ m \in selected]
    BY <2>2
  <2>4. /\ row'[m].stored = row[m].stored /\ row'[m].critical = row[m].critical
        /\ row'[m].suppressed = row[m].suppressed /\ row'[m].email = row[m].email
        /\ row'[m].sent = row[m].sent /\ row'[m].escalated = row[m].escalated
    BY <1>c, <2>3 DEF Row
  <2> QED
    BY <1>17, <2>1, <2>4 DEF MarkRead, Good, Placed, Loud, Mailing, Called, Recorded
<1>18. CASE Crash
  BY <1>18, <1>0, <1>c, Elsewhere DEF Crash, Fault, IInv
<1>19. CASE Start \/ UpdateTrustedContacts \/ (\E t \in Topic : UpdateMatrix(t))
  BY <1>19, <1>0, <1>c, Elsewhere DEF Start, UpdateTrustedContacts, UpdateMatrix, IInv
<1>20. CASE UNCHANGED vars
  BY <1>20, <1>0, <1>c, Elsewhere DEF vars, IInv
<1> QED
  BY <1>1, <1>2, <1>3, <1>4, <1>5, <1>6, <1>7, <1>8, <1>9, <1>10, <1>11, <1>12,
     <1>13, <1>14, <1>15, <1>16, <1>17, <1>18, <1>19, <1>20
  DEF Next, Running, Handler, HandlerFails, Sweeper, Panel

LEMMA InvStep == IInv /\ [Next]_vars => IInv'
  BY TypesStep, RegistryStep, GoodStep DEF IInv

LEMMA Invariant == Spec => []IInv
  BY InvInit, InvStep, PTL DEF Spec

\* One failing subscriber never costs an event both its records.
THEOREM SubscribersAreIsolated == Spec => []OneRecordAtLeast
<1>1. ASSUME IInv, NEW n \in Event, pub[n] \in {"done", "failed"}, MaxFaults - faults <= 1
      PROVE  n \in logged \/ row[n].stored
  <2>1. Good(n) /\ faults \in Int /\ MaxFaults \in Int
    BY <1>1, CellTypes DEF IInv
  <2> QED
    BY <1>1, <2>1 DEF Good, Placed, Recorded
<1>2. IInv => OneRecordAtLeast
  BY <1>1 DEF OneRecordAtLeast
<1> QED
  BY <1>2, Invariant, PTL

\* Quiet hours suppress no event of a critical topic, whatever the registry
\* and the process go through.
THEOREM CriticalIsHeard == Spec => []NeverHushed
<1>1. IInv => NeverHushed
  BY DEF IInv, Good, Loud, NeverHushed
<1> QED
  BY <1>1, Invariant, PTL

\* Counting from the start of a window, its times come before its end.
LEMMA WindowIsRight == WindowLasts
<1> SUFFICES ASSUME NEW start \in TimeOfDay, NEW end \in TimeOfDay, NEW now \in TimeOfDay
    PROVE  is_within_window(now, start, end) <=> Since(start, now) < Since(start, end)
  BY DEF WindowLasts
<1>1. /\ start \in 0 .. DayLength - 1 /\ end \in 0 .. DayLength - 1
      /\ now \in 0 .. DayLength - 1 /\ DayLength \in Nat
  BY QuietAssumption DEF TimeOfDay
<1>2. CASE start = end
  BY <1>1, <1>2 DEF is_within_window, Since
<1>3. CASE start < end
  BY <1>1, <1>3 DEF is_within_window, Since
<1>4. CASE start > end
  BY <1>1, <1>4 DEF is_within_window, Since
<1> QED
  BY <1>1, <1>2, <1>3, <1>4

\* Any event that is not critical is hushed in the window of the settings and
\* at no other time, for days of any length and windows that wrap midnight, do
\* not, or are empty.
THEOREM QuietHoursHush == Spec => []HushedInWindow
<1>1. ASSUME TypeOK, NEW n \in Event, NEW now \in TimeOfDay
      PROVE  LET built == Notification(n, is_quiet_hours_now(now)) IN
             /\ built.suppressed <=>
                  ~built.critical /\ QuietEnabled
                    /\ Since(QuietStart, now) < Since(QuietStart, QuietEnd)
             /\ built.suppressed => ~built.email
  <2>1. is_quiet_hours_now(now)
          <=> QuietEnabled /\ Since(QuietStart, now) < Since(QuietStart, QuietEnd)
    BY QuietAssumption, WindowIsRight DEF WindowLasts, is_quiet_hours_now, TimeOfDay
  <2>2. matrix[TopicOf[n]] \in [email : BOOLEAN, critical : BOOLEAN]
    BY <1>1, TopicAssumption DEF TypeOK
  <2>3. LET built == Notification(n, is_quiet_hours_now(now)) IN
        /\ built.critical = matrix[TopicOf[n]].critical
        /\ built.suppressed <=> ~matrix[TopicOf[n]].critical /\ is_quiet_hours_now(now)
        /\ built.suppressed => ~built.email
    BY <2>2, HourIsQuiet DEF Notification, Blank
  <2> QED
    BY <2>1, <2>3
<1>2. TypeOK => HushedInWindow
  BY <1>1, WindowIsRight DEF HushedInWindow
<1> QED
  BY <1>2, NotificationTypes, PTL

\* A mail goes out only for a committed row that names the channel, and the
\* flag of a row is set only after one went out.
THEOREM MailIsRecorded == Spec => []MailMatchesRow
<1>1. IInv => MailMatchesRow
  BY DEF IInv, Good, Mailing, MailMatchesRow
<1> QED
  BY <1>1, Invariant, PTL

\* Every call of channel 6 for an event but one has been paid by a failure.
THEOREM SweepsDoNotRepeat == Spec => []RepeatsArePaid
<1>1. ASSUME IInv, NEW n \in Event
      PROVE  calls[n] <= 1 + (MaxFaults - faults) /\ (calls[n] > 0 => row[n].critical)
  <2>1. /\ Good(n) /\ calls[n] \in Nat
        /\ faults \in Int /\ MaxFaults \in Int
    BY <1>1, CellTypes DEF IInv
  <2> QED
    BY <1>1, <2>1 DEF Good, Called
<1>2. IInv => RepeatsArePaid
  BY <1>1 DEF RepeatsArePaid
<1> QED
  BY <1>2, Invariant, PTL

\* No event acknowledged before a sweep reads its row is ever escalated.
THEOREM AcknowledgedIsFinal == Spec => AckStopsSweep
<1>1. ASSUME TypeOK, [Next]_vars, NEW n \in Event,
             row[n].acked, n \notin sweep, ~row[n].escalated
      PROVE  n \notin sweep' /\ ~row'[n].escalated
  <2>1. row[n] \in Row /\ row \in [Event -> Row]
    BY <1>1 DEF TypeOK
  <2>2. CASE Sweep
    BY <1>1, <2>1, <2>2 DEF Sweep, Outstanding
  <2>3. CASE SweepCommits
    BY <1>1, <2>1, <2>3 DEF SweepCommits
  <2>4. ASSUME NEW m \in Event, HandleEvent(m), UNCHANGED sweep
        PROVE  n \notin sweep' /\ ~row'[n].escalated
    BY <1>1, <2>1, <2>4 DEF HandleEvent, Notification, Blank
  <2>5. CASE MarkRead
    <3>1. PICK selected :
            row' = [m \in Event |-> [row[m] EXCEPT !.read = @ \/ m \in selected]]
      BY <2>5 DEF MarkRead
    <3>2. row'[n] = [row[n] EXCEPT !.read = @ \/ n \in selected]
      BY <3>1
    <3>3. row'[n].escalated = row[n].escalated
      BY <2>1, <3>2 DEF Row
    <3> QED
      BY <1>1, <2>5, <3>3 DEF MarkRead, escalation
  <2>6. ASSUME NEW m \in Event,
               Insert(m) \/ InsertFails(m) \/ FlagSent(m) \/ GrowOld(m) \/ AcknowledgeEnds(m)
        PROVE  n \notin sweep' /\ ~row'[n].escalated
    <3>1. CASE Insert(m) \/ FlagSent(m) \/ GrowOld(m)
      BY <1>1, <2>1, <3>1 DEF Insert, FlagSent, GrowOld, escalation, Row
    <3>2. CASE InsertFails(m)
      BY <1>1, <2>1, <3>2 DEF InsertFails, escalation, Row
    <3>3. CASE AcknowledgeEnds(m)
      BY <1>1, <2>1, <3>3 DEF AcknowledgeEnds, escalation, Row
    <3> QED
      BY <2>6, <3>1, <3>2, <3>3
  <2>7. CASE UNCHANGED row /\ (sweep' = sweep \/ sweep' = {})
    BY <1>1, <2>7
  <2>8. \/ Sweep \/ SweepCommits \/ MarkRead
        \/ (\E m \in Event : HandleEvent(m) /\ UNCHANGED sweep)
        \/ (\E m \in Event :
              Insert(m) \/ InsertFails(m) \/ FlagSent(m) \/ GrowOld(m) \/ AcknowledgeEnds(m))
        \/ (UNCHANGED row /\ (sweep' = sweep \/ sweep' = {}))
    BY <1>1 DEF Next, vars, Running, Handler, HandlerFails, Sweeper, Panel, escalation,
       Publish, LogEvent, LogFails, NextHandler, NoRecipients, SendEmail, SendFails, FlagFails,
       SweepFails, Acknowledge, UpdateMatrix, UpdateTrustedContacts, Crash, Start
  <2> QED
    BY <2>2, <2>3, <2>4, <2>5, <2>6, <2>7, <2>8
<1>2. TypeOK /\ [Next]_vars
        => [\A n \in Event : row[n].acked /\ n \notin sweep /\ ~row[n].escalated
              => n \notin sweep' /\ ~row'[n].escalated]_vars
  BY <1>1
<1> QED
  BY <1>2, NotificationTypes, PTL DEF Spec, AckStopsSweep
=============================================================================
