---------------------------- MODULE GivenPassword ----------------------------
(***************************************************************************)
(* What the bootstrap promises of a password, with files, containers, runs *)
(* and docker abstracted away: it is given once, as the user has chosen it *)
(* or newly made, and whoever takes it over takes the one that was given.  *)
(* The value 0 stands for none.                                            *)
(***************************************************************************)
EXTENDS Naturals

VARIABLES
  given,  \* the password given to the containers
  kept,   \* the one among the settings of the panel, perhaps the user's own
  used,   \* the one a service was set up with
  excused \* TRUE from the moment on of which nothing is promised any more

vars == <<given, kept, used, excused>>

Init == given = 0 /\ kept \in Nat /\ used = 0 /\ excused = FALSE

Give ==
  /\ given = 0
  /\ given' \in Nat \ {0} /\ (kept # 0 => given' = kept)
  /\ UNCHANGED <<kept, used>>

\* The settings take it over only where they have none.
TakeOver ==
  /\ given # 0 /\ UNCHANGED given
  /\ kept' \in {kept, given} /\ (kept # 0 => kept' = kept)
  /\ used' \in {used, given}

\* Nothing is promised of the step that excuses, nor of any after it.
Next == excused' \/ (~excused /\ ~excused' /\ (Give \/ TakeOver))

Spec == Init /\ [][Next]_vars
=============================================================================
