-------------------------- MODULE MCFirewallBlocks --------------------------
(***************************************************************************)
(* FirewallBlocks for TLC: two addresses, one of them with two spellings.  *)
(***************************************************************************)
EXTENDS FirewallBlocks, TLC

CONSTANTS plain, long, short   \* long and short spell one address

MCAddress == {plain, long, short}
MCCanon == plain :> plain @@ long :> short @@ short :> short
MCCanonical == {plain, short}

Symmetry == Permutations(Request)
=============================================================================
