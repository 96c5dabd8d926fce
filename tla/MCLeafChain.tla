------------------------------ MODULE MCLeafChain ------------------------------
(***************************************************************************)
(* Three small pages under one parent, a page index whose high word is     *)
(* zero.                                                                   *)
(***************************************************************************)
EXTENDS LeafChain

CONSTANTS Spare, ParentLow, ZeroWord

MCPages == Spare \cup {Root}
MCParents == {<<ParentLow, ZeroWord>>}
Symmetry == Permutations(Spare)
=============================================================================
