------------------------------- MODULE MCStack -------------------------------
(* The bootstrap of the protection stack by itself. *)
EXTENDS StackBootstrap
=============================================================================
