------------------------------ MODULE RecordList ------------------------------
(***************************************************************************)
(* What a slotted page promises to the B-tree nodes that use it: an        *)
(* ordered list of records, indexed from 0, that changes only as asked.    *)
(* An insertion or a larger update may be refused, and then changes        *)
(* nothing.  Where the records are stored, and that they move, is unseen.  *)
(***************************************************************************)
EXTENDS Naturals, Sequences, SequencesExt

CONSTANT Records    \* the records, each the sequence of its bytes

VARIABLES
    records,        \* the list
    result          \* what the last call did or returned

vars == <<records, result>>

Init == records = <<>> /\ result = "Ok"

Initialize == records' = <<>> /\ result' = "Ok"

Insert(i, r) ==
    /\ i <= Len(records)
    /\ records' = InsertAt(records, i + 1, r)
    /\ result' = "Inserted"

Update(i, r) ==
    /\ i < Len(records)
    /\ records' = ReplaceAt(records, i + 1, r)
    /\ result' = "Updated"

Delete(i) ==
    /\ i < Len(records)
    /\ records' = RemoveAt(records, i + 1)
    /\ result' = "Deleted"

(* A call that was refused, an index that does not exist, or compact(). *)
Unchanged(res) == UNCHANGED records /\ result' = res

Next ==
    \/ Initialize
    \/ \E i \in 0 .. Len(records), r \in Records : Insert(i, r) \/ Update(i, r)
    \/ \E i \in 0 .. Len(records) : Delete(i)
    \/ \E res \in {"Ok", "PageFull", "InvalidSlotIndex"} : Unchanged(res)

Spec == Init /\ [][Next]_vars
=============================================================================
