--------------------------- MODULE MCPhonePlayers ---------------------------
(***************************************************************************)
(* PhonePlayers on small instances.                                        *)
(***************************************************************************)
EXTENDS PhonePlayers, TLC

Symmetry == Permutations(Art)
=============================================================================
