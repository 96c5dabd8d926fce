-------------------------------- MODULE KeyMap --------------------------------
(***************************************************************************)
(* What a chain of B-tree leaves promises to the tree above it: a set of   *)
(* records with different keys that changes only as asked.  An insertion   *)
(* or an update may be refused for lack of space, and then changes         *)
(* nothing.  Only a split that returns an error may lose records.          *)
(***************************************************************************)
CONSTANT Record           \* records, each with its key

VARIABLES
    stored,               \* the stored records
    result                \* what the last call returned

vars == <<stored, result>>

Init == stored = {} /\ result = "Ok"

(* The stored records with the key of r. *)
Same(r) == {s \in stored : s.key = r.key}

Insert(r) == result' = "Inserted" /\ Same(r) = {} /\ stored' = stored \cup {r}
Update(r) == result' = "Updated" /\ Same(r) # {} /\ stored' = (stored \ Same(r)) \cup {r}
Delete(r) == result' = "Deleted" /\ Same(r) # {} /\ stored' = stored \ Same(r)

(* Records may move between pages. *)
Reorganize == result' = "Ok" /\ UNCHANGED stored
Refuse == result' = "Refused" /\ UNCHANGED stored

SplitFailed == result' = "SplitFailed" /\ stored' \subseteq stored \cup Record

Next ==
    \/ \E r \in Record : Insert(r) \/ Update(r) \/ Delete(r)
    \/ Reorganize
    \/ Refuse
    \/ SplitFailed

Spec == Init /\ [][Next]_vars
=============================================================================
