---------------------------- MODULE MCSftpMounts ----------------------------
(***************************************************************************)
(* SftpMounts on small instances.                                          *)
(***************************************************************************)
EXTENDS SftpMounts, TLC

Symmetry == Permutations(Task) \cup Permutations(Name)
=============================================================================
