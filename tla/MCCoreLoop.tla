---------------------------- MODULE MCCoreLoop ----------------------------
(***************************************************************************)
(* CoreLoop on small instances.                                            *)
(***************************************************************************)
EXTENDS CoreLoop, TLC

Symmetry == Permutations(Conn) \cup Permutations(Cert)
=============================================================================
