---------------------------------- MODULE Ops ----------------------------------
(***************************************************************************)
(* The binary search over the records of a page, crates/storage/src/btree/ *)
(* ops.rs.                                                                 *)
(***************************************************************************)
EXTENDS Integers

(* Mutant: the search skips the record before the middle. *)
HighBelowSkips(mid) == mid - 1

(* The end of the search for a key that is less than the one in the middle. *)
HighBelow(mid) == mid

Middle(at) == at.low + (at.high - at.low) \div 2

(* One turn of the loop.  relation is how the key compares with that of    *)
(* the record in each slot; where none of the three comparisons holds, the *)
(* loop repeats itself and does not end.                                   *)
Turn(relation, at) ==
    LET mid == Middle(at)
    IN  IF at.found \/ at.low >= at.high THEN at
        ELSE CASE relation[mid] = "equal"   -> [at EXCEPT !.found = TRUE, !.low = mid]
               [] relation[mid] = "greater" -> [at EXCEPT !.low = mid + 1]
               [] relation[mid] = "less"    -> [at EXCEPT !.high = HighBelow(mid)]
               [] OTHER -> at

(* The search after any number of turns. *)
Turns(item_count, relation) ==
    LET after[n \in Nat] ==
            IF n = 0 THEN [low |-> 0, high |-> item_count, found |-> FALSE]
            ELSE Turn(relation, after[n - 1])
    IN  after

(* The slot of the key, or the slot where it would be inserted.  Every     *)
(* turn that does not repeat itself leaves fewer records to look at; one   *)
(* that does repeats itself at the record in the middle.                   *)
find_key(item_count, relation) ==
    LET end == Turns(item_count, relation)[item_count]
    IN  [found |-> end.found, slot |-> end.low, mid |-> Middle(end),
         ends |-> end.found \/ end.low >= end.high]
=============================================================================
