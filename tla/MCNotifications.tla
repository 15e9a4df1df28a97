-------------------------- MODULE MCNotifications --------------------------
(***************************************************************************)
(* Notifications for TLC: two security alerts and a backup report, with    *)
(* the default matrix of these topics.                                     *)
(***************************************************************************)
EXTENDS Notifications

MCEvent == {"lock", "backup"}
MCTopic == {"security.alert", "backup.status"}
MCTopicOf == [n \in MCEvent |-> IF n = "backup" THEN "backup.status" ELSE "security.alert"]
MCCriticalTopic == {"security.alert"}
=============================================================================
