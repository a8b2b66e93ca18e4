--------------------------- MODULE MCSystemVolume ---------------------------
(***************************************************************************)
(* SystemVolume on small instances.                                        *)
(***************************************************************************)
EXTENDS SystemVolume, TLC

Symmetry == Permutations(Thread)
=============================================================================
