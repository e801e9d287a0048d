--------------------------- MODULE MCManagedFiles ---------------------------
(* One path of a host, for TLC: the operations of an agent are alike.       *)
EXTENDS ManagedFiles, TLC

AlikeSlots == Permutations(Slots)
=============================================================================
