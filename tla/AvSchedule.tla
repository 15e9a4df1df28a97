----------------------------- MODULE AvSchedule -----------------------------
(***************************************************************************)
(* The schedule of the full scan (services/av/scheduler.py, settings.py,   *)
(* wiring.py): a loop that polls the wall clock once a minute and starts   *)
(* the scan at the hour of the day the settings row names.                 *)
(*                                                                         *)
(* Time is counted in half-minutes.  A poll comes one interval after the   *)
(* end of the one before, or somewhat later; the machine may be suspended, *)
(* the panel restarted and the settings edited at any moment.              *)
(***************************************************************************)
EXTENDS Integers

CONSTANTS
  DayLength,      \* half-minutes of a (short) day
  Days,           \* days modelled: each is another day of the week
  Interval,       \* the poll interval, poll_interval_seconds
  Jitter,         \* how late a poll may come
  Hours,          \* the times of day the user may choose
  MaxDisturbed    \* bound on suspensions, restarts, edits and polls that fail

ASSUME ScheduleAssumption ==
  /\ DayLength \in Nat \ {0} /\ Days \in Nat \ {0} /\ Interval \in Nat \ {0} /\ Jitter \in Nat
  /\ Hours \subseteq 0 .. DayLength - 1 /\ MaxDisturbed \in Nat

VARIABLES
  now,         \* the wall clock
  schedule,    \* the row of AvSettings
  waited,      \* half-minutes since the last poll
  lastFired,   \* _last_fired_slot, -1 if none
  fired,       \* history: fired[t]: the scans that began for the slot t
  calm,        \* history: nothing disturbed the loop since this time
  disturbed    \* suspensions, restarts, edits and failed polls so far

scheduleVars == <<now, schedule, waited, lastFired, fired, calm, disturbed>>

Day == 0 .. Days - 1
End == Days * DayLength
Instant == 0 .. End - 1
Today == now \div DayLength
Schedule == [on : BOOLEAN, at : Hours, days : SUBSET Day]

ScheduleInit ==
  /\ now = 0 /\ waited = 0 /\ lastFired = -1 /\ calm = -1 /\ disturbed = 0
  /\ schedule \in [on : {TRUE}, at : Hours, days : SUBSET Day]
  /\ fired = [t \in Instant |-> 0]

\* The slot of day d: its date at the hour and minute of the settings.
Slot(d) == d * DayLength + schedule.at

(***************************************************************************)
(* _tick                                                                   *)
(***************************************************************************)

DueAgain == schedule.on /\ Today \in schedule.days /\ Slot(Today) <= now

Due == /\ schedule.on /\ Today \in schedule.days
       /\ Slot(Today) <= now /\ lastFired # Slot(Today)

\* More than two polls late: the slot is missed, and marked so that no later
\* poll of the day asks again.
Missed == now - Slot(Today) > 2 * Interval

\* The slot is marked before the scan starts.
Tick ==
  /\ waited >= Interval
  /\ waited' = 0
  /\ lastFired' = IF Due THEN Slot(Today) ELSE lastFired
  /\ fired' = IF Due /\ ~Missed THEN [fired EXCEPT ![Slot(Today)] = @ + 1] ELSE fired
  /\ UNCHANGED <<now, schedule, calm, disturbed>>

(***************************************************************************)
(* Time and what disturbs the loop.                                        *)
(***************************************************************************)

Pass ==
  /\ now + 1 < End /\ waited < Interval + Jitter
  /\ now' = now + 1 /\ waited' = waited + 1
  /\ UNCHANGED <<schedule, lastFired, fired, calm, disturbed>>

Disturb == disturbed < MaxDisturbed /\ disturbed' = disturbed + 1

\* The clock runs on while the loop does not.
Suspend ==
  /\ Disturb
  /\ \E later \in now + 1 .. End - 1 : now' = later /\ calm' = later
  /\ UNCHANGED <<schedule, waited, lastFired, fired>>

\* _last_fired_slot is only in memory, and a new loop sleeps first.
RestartLoop ==
  /\ Disturb
  /\ lastFired' = -1 /\ waited' = 0 /\ calm' = now
  /\ UNCHANGED <<now, schedule, fired>>

update_av_settings ==
  /\ Disturb
  /\ schedule' \in Schedule /\ schedule' # schedule /\ calm' = now
  /\ UNCHANGED <<now, waited, lastFired, fired>>

\* The settings cannot be read: the loop logs it and sleeps again, and if a slot
\* was due it waits for the next poll, which may find it missed.
PollFails ==
  /\ Disturb
  /\ waited >= Interval /\ waited' = 0 /\ calm' = now
  /\ UNCHANGED <<now, schedule, lastFired, fired>>

\* clamd is off or does not answer: no scan begins, and the slot is marked.
ScanFails ==
  /\ Disturb
  /\ waited >= Interval /\ waited' = 0 /\ calm' = now
  /\ Due /\ ~Missed /\ lastFired' = Slot(Today)
  /\ UNCHANGED <<now, schedule, fired>>

Disturbance == Suspend \/ RestartLoop \/ update_av_settings \/ PollFails \/ ScanFails

ScheduleNext == Tick \/ Pass \/ Disturbance

ScheduleSpec == ScheduleInit /\ [][ScheduleNext]_scheduleVars

-----------------------------------------------------------------------------
ScheduleTypeOK ==
  /\ now \in Instant /\ waited \in 0 .. Interval + Jitter /\ lastFired \in -1 .. End - 1
  /\ schedule \in Schedule /\ fired \in [Instant -> Nat] /\ calm \in -1 .. End - 1
  /\ disturbed \in 0 .. MaxDisturbed

\* A day whose slot came while nothing disturbed the loop has its one scan as
\* soon as the first poll after the slot is over, if that poll is still on the
\* day and neither it nor the start of the scan failed, and one alone; a day left
\* out of the schedule or whose slot is still to come has none.
Scheduled(d) == schedule.on /\ d \in schedule.days
FirstPoll == Interval + Jitter
FiresOncePerDay ==
  \A d \in Day :
    (calm < Slot(d) /\ now < (d + 1) * DayLength) =>
      /\ fired[Slot(d)] <= 1
      /\ (Scheduled(d) /\ now > Slot(d) + FirstPoll) => fired[Slot(d)] = 1
      /\ (~Scheduled(d) \/ now < Slot(d)) => fired[Slot(d)] = 0
=============================================================================
