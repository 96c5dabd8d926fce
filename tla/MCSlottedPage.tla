----------------------------- MODULE MCSlottedPage -----------------------------
(***************************************************************************)
(* A small page.  Every byte of a record tells which record it is of and   *)
(* where in it, so that no two different byte ranges read alike.           *)
(***************************************************************************)
EXTENDS SlottedPage

CONSTANTS Names, MaxSize

MCBytes == Names \X (1 .. MaxSize)
MCRecords == {[k \in 1 .. n |-> <<name, k>>] : name \in Names, n \in 0 .. MaxSize}
MCParents == {<<INVALID_PAGE_INDEX, INVALID_PAGE_INDEX>>}
Symmetry == Permutations(Names)
=============================================================================
