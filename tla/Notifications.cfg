SPECIFICATION Spec
CONSTANTS
  Event <- MCEvent
  Topic <- MCTopic
  TopicOf <- MCTopicOf
  CriticalTopic <- MCCriticalTopic
  MailTopic <- MCTopic
  Seeded = TRUE
  DayLength = 8
  QuietEnabled = TRUE
  QuietStart = 7
  QuietEnd = 3
  MaxFaults = 1
INVARIANTS
  TypeOK
  OneRecordAtLeast
  HushedInWindow
  NeverHushed
  MailMatchesRow
  RepeatsArePaid
PROPERTIES
  AckStopsSweep
  CriticalIsAttended
