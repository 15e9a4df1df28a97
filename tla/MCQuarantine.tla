---------------------------- MODULE MCQuarantine ----------------------------
(***************************************************************************)
(* Quarantine for TLC.  Requests are interchangeable, and so are contents; *)
(* the two paths are not, as one is on the file system of the quarantine.  *)
(***************************************************************************)
EXTENDS Quarantine, TLC

Symmetry == Permutations(Request) \cup Permutations(Content)
=============================================================================
