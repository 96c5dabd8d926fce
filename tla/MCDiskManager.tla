---------------------------- MODULE MCDiskManager ----------------------------
(***************************************************************************)
(* Model-checking instances of DiskManager.                                *)
(***************************************************************************)
EXTENDS DiskManager, TLC

MinusOne == -1   \* NoIndex, a value that arithmetic can be tried on

Symmetry == Permutations(Threads)
=============================================================================
