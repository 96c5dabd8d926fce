----------------------------- MODULE ClockEvictor -----------------------------
(***************************************************************************)
(* The clock (second chance) replacement policy of                         *)
(* crates/storage/src/evictor.rs.  Every method runs under the mutex of    *)
(* the state, so every method is one action.                               *)
(*                                                                         *)
(* The sweep of victim() is stated in closed form: the hand stops at the   *)
(* first step k at which the frame under it is eligible and has no second  *)
(* chance left, where every eligible frame has lost its second chance      *)
(* after one full turn.  Loop is the loop as the source writes it, and     *)
(* SweepIsLoop compares the two.                                           *)
(***************************************************************************)
EXTENDS Integers, FiniteSets

CONSTANTS
    pool_size,   \* number of frames
    None,        \* victim() found no frame
    Unit         \* add() and remove() return nothing

ASSUME PoolSizeAssumption == pool_size \in Nat

Frames == 0 .. (pool_size - 1)

ASSUME ResultAssumption == None \notin Frames /\ Unit \notin Frames /\ None # Unit

VARIABLES
    clock_hand_pos,   \* the frame under the hand
    second_chances,   \* the reference bit of each frame
    is_in_evictor,    \* is the frame eligible for eviction?
    size,             \* the number of eligible frames, as the code counts it
    result,           \* what the last call returned
    passed_over       \* history: victims taken while the frame stayed eligible

vars == <<clock_hand_pos, second_chances, is_in_evictor, size, result, passed_over>>

TypeOK ==
    /\ clock_hand_pos \in 0 .. pool_size
    /\ pool_size > 0 => clock_hand_pos \in Frames
    /\ second_chances \in [Frames -> BOOLEAN]
    /\ is_in_evictor \in [Frames -> BOOLEAN]
    /\ size \in Nat
    /\ result \in Frames \cup {None, Unit}
    /\ passed_over \in [Frames -> Nat]

Eligible == {f \in Frames : is_in_evictor[f]}

Init ==
    /\ clock_hand_pos = 0
    /\ second_chances = [f \in Frames |-> FALSE]
    /\ is_in_evictor = [f \in Frames |-> FALSE]
    /\ size = 0
    /\ result = Unit
    /\ passed_over = [f \in Frames |-> 0]

add(f) ==
    /\ is_in_evictor' = [is_in_evictor EXCEPT ![f] = TRUE]
    /\ size' = IF is_in_evictor[f] THEN size ELSE size + 1
    /\ second_chances' = [second_chances EXCEPT ![f] = TRUE]
    /\ result' = Unit
    /\ passed_over' = [passed_over EXCEPT ![f] = 0]
    /\ UNCHANGED clock_hand_pos

(* Mutant: the guard of evictor.rs:73 is missing. *)
remove_uncounted(f) ==
    /\ is_in_evictor' = [is_in_evictor EXCEPT ![f] = FALSE]
    /\ size' = size - 1
    /\ result' = Unit
    /\ passed_over' = [passed_over EXCEPT ![f] = 0]
    /\ UNCHANGED <<clock_hand_pos, second_chances>>

remove(f) ==
    /\ is_in_evictor' = [is_in_evictor EXCEPT ![f] = FALSE]
    /\ size' = IF is_in_evictor[f] THEN size - 1 ELSE size
    /\ result' = Unit
    /\ passed_over' = [passed_over EXCEPT ![f] = 0]
    /\ UNCHANGED <<clock_hand_pos, second_chances>>

-----------------------------------------------------------------------------
(* The hand advances one frame at a time and wraps at pool_size; a call    *)
(* moves it by fewer than two turns from a position below pool_size.       *)
Wrap(i) ==
    IF i < pool_size THEN i
    ELSE IF i < 2 * pool_size THEN i - pool_size
    ELSE i - 2 * pool_size

(* Mutants: the hand stays at the victim, or starts over. *)
HandStays(f) == f
HandReset(f) == 0

HandPast(f) == Wrap(f + 1)

UnderHand(k) == Wrap(clock_hand_pos + k)

(* Mutant: the sweep skips one frame instead of making a turn. *)
StopsAfterOneSkip(k) ==
    /\ is_in_evictor[UnderHand(k)]
    /\ second_chances[UnderHand(k)] => k >= 1

(* Does the sweep evict the frame it finds at its step k? *)
StopsAt(k) ==
    /\ is_in_evictor[UnderHand(k)]
    /\ second_chances[UnderHand(k)] => k >= pool_size

(* Mutant: the loop makes one turn. *)
OneTurn == 0 .. (pool_size - 1)

Steps == 0 .. (2 * pool_size - 1)

(* The sweep takes the frame it reaches at step k, and has cleared the     *)
(* reference bit of every eligible frame that it passed on its way.        *)
victim_at(k) ==
    LET f == UnderHand(k)
        passed == {UnderHand(j) : j \in 0 .. (k - 1)}
    IN  /\ StopsAt(k)
        /\ \A j \in 0 .. (k - 1) : ~StopsAt(j)
        /\ is_in_evictor' = [is_in_evictor EXCEPT ![f] = FALSE]
        /\ size' = size - 1
        /\ clock_hand_pos' = HandPast(f)
        /\ second_chances' = [g \in Frames |->
               second_chances[g] /\ ~(is_in_evictor[g] /\ g \in passed)]
        /\ result' = f
        /\ passed_over' = [g \in Frames |->
               IF is_in_evictor[g] /\ g # f THEN passed_over[g] + 1 ELSE 0]

(* Two turns found nothing: the hand is back where it was. *)
no_victim ==
    /\ \A k \in Steps : ~StopsAt(k)
    /\ result' = None
    /\ UNCHANGED <<clock_hand_pos, second_chances, is_in_evictor, size, passed_over>>

victim == \/ \E k \in Steps : victim_at(k)
          \/ no_victim

(* One iteration of evictor.rs:89-107, and the loop after n of them.       *)
Iteration(s) ==
    LET next == (s.i + 1) % pool_size
    IN  IF s.found # None THEN s
        ELSE IF is_in_evictor[s.i] /\ ~s.chances[s.i]
             THEN [s EXCEPT !.i = next, !.found = s.i]
             ELSE [s EXCEPT !.i = next,
                            !.chances[s.i] = @ /\ ~is_in_evictor[s.i]]

Loop[n \in 0 .. (2 * pool_size)] ==
    IF n = 0
    THEN [i |-> clock_hand_pos, chances |-> second_chances, found |-> None]
    ELSE Iteration(Loop[n - 1])

Next == \/ \E f \in Frames : add(f) \/ remove(f)
        \/ victim

Spec == Init /\ [][Next]_vars

-----------------------------------------------------------------------------
(* The counter behind Evictor::size(), maintained by increments and        *)
(* decrements in three methods, is the number of eligible frames, and so   *)
(* never underflows.                                                       *)
SizeExact == size = Cardinality(Eligible)

(* A frame that stays eligible and is not used again is evicted before the *)
(* pool_size-th victim() call: frames that come back into the evictor get  *)
(* a second chance, but never overtake it for more than one turn.          *)
NoStarvation == \A f \in Frames : passed_over[f] < pool_size

(* A frame that was unpinned since the hand last passed it is evicted only *)
(* when every eligible frame was: the second chance is worth something.    *)
SecondChanceHonoured ==
    [][ \A f \in Frames :
            (result' = f /\ is_in_evictor[f] /\ ~is_in_evictor'[f] /\ second_chances[f])
                => \A g \in Eligible : second_chances[g] ]_vars

(* The closed form of the sweep is the loop of the source: the same frame, *)
(* the same reference bits and the same position of the hand.              *)
SweepIsLoop ==
    [][ victim => LET s == Loop[2 * pool_size]
                  IN  /\ result' = s.found
                      /\ second_chances' = s.chances
                      /\ clock_hand_pos' = s.i ]_vars

(* The clock implements the evictor that the buffer pool relies on: every  *)
(* victim is eligible, and there is none only when no frame is eligible,   *)
(* so that two turns of the hand are enough.                               *)
Abstract == INSTANCE Evictor WITH eligible <- Eligible
ImplementsEvictor == Abstract!Spec
=============================================================================
