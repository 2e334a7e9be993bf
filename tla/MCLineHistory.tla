--------------------------- MODULE MCLineHistory ---------------------------
(* Instances of LineHistory for TLC.  One block more than there are slots  *)
(* is enough: sdup() runs before free() in addhistory().                   *)
EXTENDS LineHistory, TLC

Blocks == Permutations(Ptr)
=============================================================================
