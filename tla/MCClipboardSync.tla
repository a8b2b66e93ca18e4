--------------------------- MODULE MCClipboardSync ---------------------------
(***************************************************************************)
(* ClipboardSync on small instances.                                       *)
(***************************************************************************)
EXTENDS ClipboardSync, TLC

Symmetry == Permutations(Text \ (Secret \cup {Old}))
=============================================================================
