------------------------------- MODULE Evictor -------------------------------
(***************************************************************************)
(* What the trait Evictor (crates/storage/src/evictor.rs) promises to the  *)
(* buffer pool, whatever replacement policy implements it: the set of the  *)
(* frames eligible for eviction, from which a victim is drawn.  The calls  *)
(* of one evictor are serialised by its mutex, so each is one step.        *)
(***************************************************************************)

CONSTANTS
    Frames,      \* the frame IDs
    None,        \* victim() found no frame
    Unit         \* add() and remove() return nothing

VARIABLES
    eligible,    \* the frames that may be evicted
    result       \* what the last call returned

Init == eligible = {} /\ result = Unit

(* A frame that has just been unpinned becomes eligible. *)
Add(f) == eligible' = eligible \cup {f} /\ result' = Unit

(* A frame that has just been pinned is no longer eligible. *)
Remove(f) == eligible' = eligible \ {f} /\ result' = Unit

(* An eligible frame is handed out and is no longer eligible ... *)
Victim(f) ==
    /\ f \in eligible
    /\ eligible' = eligible \ {f}
    /\ result' = f

(* ... and there is no victim only when no frame is eligible. *)
NoVictim ==
    /\ eligible = {}
    /\ result' = None
    /\ UNCHANGED eligible

Next ==
    \/ \E f \in Frames : Add(f) \/ Remove(f) \/ Victim(f)
    \/ NoVictim

Spec == Init /\ [][Next]_<<eligible, result>>
=============================================================================
