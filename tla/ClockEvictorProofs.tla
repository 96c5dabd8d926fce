-------------------------- MODULE ClockEvictorProofs --------------------------
(***************************************************************************)
(* The clock for any pool size: its counter is exact, and it implements    *)
(* the evictor that the buffer pool is built on.  The latter rests on the  *)
(* arithmetic of the hand: in the second of two turns it comes by every    *)
(* frame, when no eligible frame has a second chance left.  The closed     *)
(* form of the sweep is the loop of the source.                            *)
(***************************************************************************)
EXTENDS ClockEvictor, SequenceLemmas, FiniteSetTheorems, TLAPS

(* The type invariant with the counter: size is a natural number because   *)
(* it is decremented only when a frame leaves the set that it counts.      *)
ClockInv == TypeOK /\ SizeExact

(* The hand is always over some frame. *)
LEMMA UnderHandType ==
    ASSUME TypeOK, NEW k \in Steps
    PROVE  UnderHand(k) \in Frames
  BY PoolSizeAssumption DEF TypeOK, UnderHand, Wrap, Frames, Steps

(* The second turn of the sweep comes by every frame. *)
LEMMA SecondTurn ==
    ASSUME TypeOK, NEW f \in Frames
    PROVE  \E k \in Steps : k >= pool_size /\ UnderHand(k) = f
<1> DEFINE up == f - clock_hand_pos + pool_size
           round == f - clock_hand_pos + 2 * pool_size
<1>1. clock_hand_pos \in Frames
  BY PoolSizeAssumption DEF TypeOK, Frames
<1>2. CASE clock_hand_pos <= f
  <2>1. up \in Steps /\ up >= pool_size /\ UnderHand(up) = f
    BY PoolSizeAssumption, <1>1, <1>2 DEF Steps, UnderHand, Wrap, Frames
  <2> QED
    BY <2>1
<1>3. CASE f < clock_hand_pos
  <2>1. round \in Steps /\ round >= pool_size /\ UnderHand(round) = f
    BY PoolSizeAssumption, <1>1, <1>3 DEF Steps, UnderHand, Wrap, Frames
  <2> QED
    BY <2>1
<1> QED
  BY <1>1, <1>2, <1>3 DEF Frames

(* Two turns find a victim if there is an eligible frame. *)
LEMMA SweepComplete ==
    ASSUME TypeOK, no_victim
    PROVE  Eligible = {}
<1> SUFFICES ASSUME NEW f \in Eligible PROVE FALSE
  OBVIOUS
<1>1. PICK k \in Steps : k >= pool_size /\ UnderHand(k) = f
  BY SecondTurn DEF Eligible
<1>2. StopsAt(k)
  BY <1>1 DEF StopsAt, Eligible
<1> QED
  BY <1>2 DEF no_victim

(* The eligible frames are finitely many. *)
LEMMA EligibleFinite ==
    /\ IsFiniteSet(Eligible)
    /\ Cardinality(Eligible) \in Nat
    /\ \A f : /\ Cardinality(Eligible \cup {f}) =
                    IF f \in Eligible THEN Cardinality(Eligible) ELSE Cardinality(Eligible) + 1
              /\ Cardinality(Eligible \ {f}) =
                    IF f \in Eligible THEN Cardinality(Eligible) - 1 ELSE Cardinality(Eligible)
<1>1. IsFiniteSet(Frames)
  BY PoolSizeAssumption, FS_Interval DEF Frames
<1>2. IsFiniteSet(Eligible)
  BY <1>1, FS_Subset DEF Eligible
<1> QED
  BY <1>2, FS_CardinalityType, FS_AddElement, FS_RemoveElement

(* Each method of the evictor keeps the types and the counter, and does to *)
(* the eligible frames what the trait says.                                *)
LEMMA AddStep ==
    ASSUME ClockInv, NEW f \in Frames, add(f)
    PROVE  ClockInv' /\ Abstract!Add(f)
<1>1. Eligible' = Eligible \cup {f}
  BY DEF ClockInv, TypeOK, add, Eligible
<1>2. SizeExact'
  BY <1>1, EligibleFinite DEF ClockInv, SizeExact, add, Eligible
<1>3. TypeOK'
  BY DEF ClockInv, TypeOK, add
<1> QED
  BY <1>1, <1>2, <1>3 DEF ClockInv, Abstract!Add, add

(* remove() decrements the counter only for a frame that was eligible. *)
LEMMA RemoveStep ==
    ASSUME ClockInv, NEW f \in Frames, remove(f)
    PROVE  ClockInv' /\ Abstract!Remove(f)
<1>1. Eligible' = Eligible \ {f}
  BY DEF ClockInv, TypeOK, remove, Eligible
<1>2. SizeExact' /\ size' \in Nat
  <2>1. Cardinality(Eligible') = size'
    BY <1>1, EligibleFinite DEF ClockInv, SizeExact, remove, Eligible
  <2>2. IsFiniteSet(Eligible')
    BY <1>1, EligibleFinite, FS_RemoveElement
  <2> QED
    BY <2>1, <2>2, FS_CardinalityType DEF SizeExact
<1>3. TypeOK'
  BY <1>2 DEF ClockInv, TypeOK, remove
<1> QED
  BY <1>1, <1>2, <1>3 DEF ClockInv, Abstract!Remove, remove

(* A victim was eligible, and the counter follows. *)
LEMMA VictimStep ==
    ASSUME ClockInv, NEW k \in Steps, victim_at(k)
    PROVE  ClockInv' /\ UnderHand(k) \in Frames /\ Abstract!Victim(UnderHand(k))
<1> DEFINE f == UnderHand(k)
<1>1. f \in Frames /\ f \in Eligible
  BY UnderHandType DEF ClockInv, victim_at, StopsAt, Eligible
<1>2. Eligible' = Eligible \ {f}
  BY <1>1 DEF ClockInv, TypeOK, victim_at, Eligible
<1>3. SizeExact' /\ size' \in Nat
  <2>1. Cardinality(Eligible') = size'
    BY <1>1, <1>2, EligibleFinite DEF ClockInv, SizeExact, victim_at
  <2>2. IsFiniteSet(Eligible')
    BY <1>2, EligibleFinite, FS_RemoveElement
  <2> QED
    BY <2>1, <2>2, FS_CardinalityType DEF SizeExact
<1>4. HandPast(f) \in Frames
  BY <1>1, PoolSizeAssumption DEF HandPast, Wrap, Frames
<1>5. TypeOK'
  <2>1. clock_hand_pos' \in Frames /\ result' \in Frames
    BY <1>1, <1>4 DEF victim_at
  <2>2. is_in_evictor' \in [Frames -> BOOLEAN]
    BY <1>1 DEF ClockInv, TypeOK, victim_at
  <2>3. second_chances' \in [Frames -> BOOLEAN]
    BY Zenon DEF victim_at
  <2>4. passed_over' \in [Frames -> Nat]
    BY DEF ClockInv, TypeOK, victim_at
  <2> QED
    BY <1>3, <2>1, <2>2, <2>3, <2>4, PoolSizeAssumption DEF TypeOK, Frames
<1> QED
  BY <1>1, <1>2, <1>3, <1>5 DEF ClockInv, Abstract!Victim, victim_at

(* None is returned only when no frame is eligible, and nothing changes. *)
LEMMA NoVictimStep ==
    ASSUME ClockInv, no_victim
    PROVE  ClockInv' /\ Abstract!NoVictim
<1>1. Eligible = {} /\ Eligible' = Eligible
  BY SweepComplete DEF ClockInv, no_victim, Eligible
<1>2. ClockInv'
  BY <1>1 DEF ClockInv, TypeOK, SizeExact, no_victim
<1> QED
  BY <1>1, <1>2 DEF Abstract!NoVictim, no_victim

(* Every step keeps the invariant and is a step of the abstract evictor. *)
LEMMA ClockStep ==
    ASSUME ClockInv, [Next]_vars
    PROVE  ClockInv' /\ [Abstract!Next]_<<Eligible, result>>
<1>1. ASSUME NEW f \in Frames, add(f) \/ remove(f)
      PROVE  ClockInv' /\ Abstract!Next
  BY <1>1, AddStep, RemoveStep DEF Abstract!Next
<1>2. CASE victim
  <2>1. ASSUME NEW k \in Steps, victim_at(k)
        PROVE  ClockInv' /\ Abstract!Next
    BY <2>1, VictimStep DEF Abstract!Next
  <2>2. CASE no_victim
    BY <2>2, NoVictimStep DEF Abstract!Next
  <2> QED
    BY <1>2, <2>1, <2>2 DEF victim
<1>3. CASE UNCHANGED vars
  BY <1>3 DEF ClockInv, TypeOK, SizeExact, Eligible, vars
<1> QED
  BY <1>1, <1>2, <1>3 DEF Next

(* A new evictor has no eligible frame. *)
LEMMA ClockInit == Init => ClockInv /\ Abstract!Init
<1> SUFFICES ASSUME Init PROVE ClockInv /\ Abstract!Init
  OBVIOUS
<1>1. Eligible = {}
  BY DEF Init, Eligible
<1>2. TypeOK
  BY PoolSizeAssumption DEF Init, TypeOK, Frames
<1> QED
  BY <1>1, <1>2, FS_EmptySet DEF Init, ClockInv, SizeExact, Abstract!Init

(* The counter that add, remove and victim maintain by increments and      *)
(* decrements is the number of eligible frames and never underflows, for   *)
(* every pool size.                                                        *)
THEOREM SizeAlwaysExact == Spec => [](TypeOK /\ SizeExact)
<1>1. ClockInv /\ [Next]_vars => ClockInv'
  BY ClockStep
<1>2. Init => ClockInv
  BY ClockInit
<1> QED
  BY <1>1, <1>2, PTL DEF Spec, ClockInv

(* The clock implements the trait Evictor, for every pool size: a victim   *)
(* was eligible, and victim() returns None only if no frame is eligible.   *)
THEOREM ClockRefinesEvictor == Spec => ImplementsEvictor
<1>1. ClockInv /\ [Next]_vars => [Abstract!Next]_<<Eligible, result>>
  BY ClockStep
<1>2. Init => Abstract!Init
  BY ClockInit
<1>3. Spec => []ClockInv
  BY SizeAlwaysExact, PTL DEF ClockInv
<1> QED
  BY <1>1, <1>2, <1>3, PTL DEF Spec, ImplementsEvictor, Abstract!Spec

-----------------------------------------------------------------------------
(* Starvation *)

(* The steps of the hand until it comes by a frame. *)
Ahead(f) == IF clock_hand_pos <= f THEN f - clock_hand_pos ELSE f - clock_hand_pos + pool_size

(* The frames that can still be evicted before f, if f stays eligible and  *)
(* unused.  While f has its second chance the hand comes by it once more   *)
(* before it is evicted: until then, a frame that the hand meets first is  *)
(* a rival in any state, since it is met twice, and a frame behind f only  *)
(* if it has no second chance now, since one that gets it is met once.     *)
Rivals(f) ==
    {g \in Frames \ {f} :
        \/ second_chances[f] /\ Ahead(g) < Ahead(f)
        \/ /\ is_in_evictor[g] /\ ~second_chances[g]
           /\ second_chances[f] \/ Ahead(g) < Ahead(f)}

(* Every victim that was taken while f was passed over used up a rival.    *)
StarvationInv ==
    \A f \in Frames :
        IF is_in_evictor[f] THEN passed_over[f] + Cardinality(Rivals(f)) < pool_size
        ELSE passed_over[f] = 0

(* There are fewer other frames than the pool has. *)
LEMMA OthersFinite ==
    ASSUME NEW f \in Frames, NEW R \in SUBSET (Frames \ {f})
    PROVE  /\ IsFiniteSet(R)
           /\ Cardinality(R) \in Nat
           /\ Cardinality(R) < pool_size
<1>1. IsFiniteSet(Frames) /\ Cardinality(Frames) = pool_size
  BY PoolSizeAssumption, FS_Interval DEF Frames
<1>2. IsFiniteSet(Frames \ {f}) /\ Cardinality(Frames \ {f}) = pool_size - 1
  BY <1>1, FS_RemoveElement
<1>3. IsFiniteSet(R) /\ Cardinality(R) <= pool_size - 1
  BY <1>2, FS_Subset
<1> QED
  BY <1>3, FS_CardinalityType, PoolSizeAssumption

(* The hand is over f after Ahead(f) steps, and again one turn later. *)
LEMMA HandMeets ==
    ASSUME TypeOK, NEW f \in Frames
    PROVE  /\ Ahead(f) \in 0 .. (pool_size - 1)
           /\ Ahead(f) \in Steps /\ Ahead(f) + pool_size \in Steps
           /\ UnderHand(Ahead(f)) = f
           /\ UnderHand(Ahead(f) + pool_size) = f
<1>1. clock_hand_pos \in Frames /\ pool_size \in Nat /\ f \in 0 .. (pool_size - 1)
  BY PoolSizeAssumption DEF TypeOK, Frames
<1> QED
  BY <1>1 DEF Frames, Steps, Ahead, UnderHand, Wrap

(* Conversely, the step at which the sweep stops tells where its victim is. *)
LEMMA SweepPosition ==
    ASSUME TypeOK, NEW k \in Steps
    PROVE  Ahead(UnderHand(k)) = IF k < pool_size THEN k ELSE k - pool_size
<1>1. clock_hand_pos \in Frames /\ pool_size \in Nat
  BY UnderHandType, PoolSizeAssumption DEF TypeOK, Frames, Steps
<1> QED
  BY <1>1 DEF Frames, Steps, Ahead, UnderHand, Wrap

(* The hand moves on to the frame behind the victim v; frames that it has  *)
(* not passed are nearer by as many steps, the others a turn away.         *)
LEMMA AheadAfter ==
    ASSUME TypeOK, NEW v \in Frames, clock_hand_pos' = HandPast(v), NEW g \in Frames
    PROVE  Ahead(g)' = IF Ahead(g) > Ahead(v) THEN Ahead(g) - Ahead(v) - 1
                       ELSE Ahead(g) - Ahead(v) - 1 + pool_size
<1>1. /\ clock_hand_pos \in Frames /\ pool_size \in Nat
      /\ v \in 0 .. (pool_size - 1) /\ g \in 0 .. (pool_size - 1)
  BY PoolSizeAssumption DEF TypeOK, Frames
<1> QED
  BY <1>1 DEF Frames, Ahead, HandPast, Wrap

(* Different frames are at different distances. *)
LEMMA AheadInjective ==
    ASSUME TypeOK, NEW f \in Frames, NEW g \in Frames, f # g
    PROVE  Ahead(f) # Ahead(g)
  BY HandMeets

(* A victim was a rival of every other eligible frame, and is none         *)
(* afterwards; nobody becomes a rival.                                     *)
LEMMA VictimUsesRival ==
    ASSUME TypeOK, NEW k \in Steps, victim_at(k),
           NEW f \in Frames, is_in_evictor[f], f # UnderHand(k)
    PROVE  UnderHand(k) \in Rivals(f) /\ Rivals(f)' \subseteq Rivals(f) \ {UnderHand(k)}
<1> DEFINE v == UnderHand(k)
           passed == {UnderHand(j) : j \in 0 .. (k - 1)}
<1>1. /\ v \in Frames /\ is_in_evictor[v] /\ pool_size \in Nat /\ k \in Nat
      /\ second_chances[v] => k >= pool_size
  BY UnderHandType, PoolSizeAssumption DEF victim_at, StopsAt, Steps
<1>2. /\ is_in_evictor' = [is_in_evictor EXCEPT ![v] = FALSE]
      /\ clock_hand_pos' = HandPast(v)
      /\ second_chances' = [g \in Frames |->
             second_chances[g] /\ ~(is_in_evictor[g] /\ g \in passed)]
  BY DEF victim_at
<1>3. \A g \in Frames : /\ Ahead(g) \in 0 .. (pool_size - 1)
                        /\ g # v => Ahead(g) # Ahead(v)
                        /\ g # f => Ahead(g) # Ahead(f)
  BY <1>1, HandMeets, AheadInjective
<1>4. \A g \in Frames : Ahead(g)' = IF Ahead(g) > Ahead(v) THEN Ahead(g) - Ahead(v) - 1
                                    ELSE Ahead(g) - Ahead(v) - 1 + pool_size
  BY <1>1, <1>2, AheadAfter
<1>5. \A g \in Frames : is_in_evictor[g] /\ Ahead(g) < k => second_chances[g]
  BY <1>1, <1>3, HandMeets DEF victim_at, StopsAt
<1>6. \A g \in Frames : is_in_evictor[g] /\ Ahead(g) + pool_size < k => FALSE
  BY <1>1, <1>3, HandMeets DEF victim_at, StopsAt
<1>7. \A g \in Frames : g \in passed <=> Ahead(g) < k
  <2>1. ASSUME NEW g \in Frames, Ahead(g) < k PROVE g \in passed
    BY <2>1, <1>1, <1>3, HandMeets
  <2>2. ASSUME NEW j \in 0 .. (k - 1) PROVE Ahead(UnderHand(j)) <= j
    <3>1. j \in Steps
      BY <1>1 DEF Steps
    <3> QED
      BY <3>1, SweepPosition, <1>1
  <2> QED
    BY <1>1, <1>3, <2>1, <2>2
<1>8. \A g \in Frames : second_chances'[g] <=> second_chances[g] /\ ~(is_in_evictor[g] /\ Ahead(g) < k)
  BY <1>2, <1>7, Zenon
<1>9. \A g \in Frames : is_in_evictor'[g] <=> is_in_evictor[g] /\ g # v
  BY <1>2, <1>1 DEF TypeOK
<1>10. Ahead(v) = IF k < pool_size THEN k ELSE k - pool_size
  BY SweepPosition
<1>11. f # v /\ is_in_evictor[f]
  OBVIOUS
<1> HIDE DEF v, passed
<1>12. v \in Rivals(f)
  BY <1>11, <1>1, <1>3, <1>5, <1>6, <1>10 DEF Rivals
<1>13. ASSUME NEW g \in Rivals(f)' PROVE g \in Rivals(f) \ {v}
  <2>1. g \in Frames /\ g # f
    BY <1>13 DEF Rivals
  <2>2. \/ second_chances'[f] /\ Ahead(g)' < Ahead(f)'
        \/ /\ is_in_evictor'[g] /\ ~second_chances'[g]
           /\ second_chances'[f] \/ Ahead(g)' < Ahead(f)'
    BY <1>13 DEF Rivals
  <2>3. g # v
    BY <2>1, <2>2, <1>1, <1>3, <1>4, <1>9
  <2>4. CASE k < pool_size
    BY <2>1, <2>2, <2>3, <2>4, <1>11, <1>1, <1>3, <1>4, <1>5, <1>8, <1>9, <1>10 DEF Rivals
  <2>5. CASE k >= pool_size
    BY <2>1, <2>2, <2>3, <2>5, <1>11, <1>1, <1>3, <1>4, <1>5, <1>6, <1>8, <1>9, <1>10 DEF Rivals
  <2> QED
    BY <2>3, <2>4, <2>5, <1>1
<1> QED
  BY <1>12, <1>13 DEF v

(* Fewer rivals, or one that was used up, keep the sum below the bound. *)
LEMMA RivalsCount ==
    ASSUME NEW R, NEW S, IsFiniteSet(S), R \subseteq S
    PROVE  /\ Cardinality(R) \in Nat /\ Cardinality(S) \in Nat
           /\ Cardinality(R) <= Cardinality(S)
           /\ \A v \in S : v \notin R => Cardinality(R) < Cardinality(S)
<1>1. IsFiniteSet(R) /\ Cardinality(R) <= Cardinality(S) /\ (Cardinality(S) = Cardinality(R) => S = R)
  BY FS_Subset
<1>2. Cardinality(R) \in Nat /\ Cardinality(S) \in Nat
  BY <1>1, FS_CardinalityType
<1> QED
  BY <1>1, <1>2

(* Every step keeps the balance of victims and rivals. *)
LEMMA StarvationStep ==
    ASSUME TypeOK, TypeOK', StarvationInv, [Next]_vars
    PROVE  StarvationInv'
<1> USE PoolSizeAssumption
<1> SUFFICES ASSUME NEW f \in Frames
             PROVE  IF is_in_evictor'[f]
                    THEN passed_over'[f] + Cardinality(Rivals(f)') < pool_size
                    ELSE passed_over'[f] = 0
  BY DEF StarvationInv
<1>1. /\ IsFiniteSet(Rivals(f)) /\ Cardinality(Rivals(f)) \in Nat
      /\ passed_over[f] \in Nat /\ passed_over'[f] \in Nat
      /\ IF is_in_evictor[f] THEN passed_over[f] + Cardinality(Rivals(f)) < pool_size
         ELSE passed_over[f] = 0
  <2>1. Rivals(f) \in SUBSET (Frames \ {f})
    BY DEF Rivals
  <2> QED
    BY <2>1, OthersFinite DEF TypeOK, StarvationInv
<1>2. Cardinality(Rivals(f)') \in Nat /\ Cardinality(Rivals(f)') < pool_size
  BY OthersFinite DEF Rivals
<1>3. ASSUME NEW g \in Frames, add(g), g # f
      PROVE  Rivals(f)' \subseteq Rivals(f) /\ passed_over'[f] = passed_over[f]
             /\ is_in_evictor'[f] = is_in_evictor[f]
  BY <1>3 DEF TypeOK, add, Rivals, Ahead
<1>4. ASSUME NEW g \in Frames, remove(g), g # f
      PROVE  Rivals(f)' \subseteq Rivals(f) /\ passed_over'[f] = passed_over[f]
             /\ is_in_evictor'[f] = is_in_evictor[f]
  BY <1>4 DEF TypeOK, remove, Rivals, Ahead
<1>5. CASE add(f) \/ remove(f)
  BY <1>2, <1>5 DEF TypeOK, add, remove
<1>6. ASSUME NEW k \in Steps, victim_at(k), is_in_evictor[f], f # UnderHand(k)
      PROVE  Rivals(f)' \subseteq Rivals(f) \ {UnderHand(k)} /\ UnderHand(k) \in Rivals(f)
  BY <1>6, VictimUsesRival
<1>7. CASE victim
  <2>1. ASSUME NEW k \in Steps, victim_at(k)
        PROVE  IF is_in_evictor'[f]
               THEN passed_over'[f] + Cardinality(Rivals(f)') < pool_size
               ELSE passed_over'[f] = 0
    <3>1. UnderHand(k) \in Frames
      BY UnderHandType
    <3>2. CASE is_in_evictor[f] /\ f # UnderHand(k)
      <4>1. passed_over'[f] = passed_over[f] + 1 /\ is_in_evictor'[f]
        BY <2>1, <3>1, <3>2 DEF TypeOK, victim_at
      <4>2. Cardinality(Rivals(f)') < Cardinality(Rivals(f))
        BY <1>1, <1>6, <2>1, <3>2, RivalsCount
      <4> QED
        BY <1>1, <1>2, <3>2, <4>1, <4>2
    <3>3. CASE ~(is_in_evictor[f] /\ f # UnderHand(k))
      BY <2>1, <3>1, <3>3 DEF TypeOK, victim_at
    <3> QED
      BY <3>2, <3>3
  <2>2. CASE no_victim
    BY <1>1, <2>2 DEF no_victim, Rivals, Ahead
  <2> QED
    BY <1>7, <2>1, <2>2 DEF victim
<1>8. CASE UNCHANGED vars
  BY <1>1, <1>8 DEF vars, Rivals, Ahead
<1>9. ASSUME Rivals(f)' \subseteq Rivals(f), passed_over'[f] = passed_over[f],
             is_in_evictor'[f] = is_in_evictor[f]
      PROVE  IF is_in_evictor'[f]
             THEN passed_over'[f] + Cardinality(Rivals(f)') < pool_size
             ELSE passed_over'[f] = 0
  BY <1>1, <1>2, <1>9, RivalsCount
<1> QED
  BY <1>3, <1>4, <1>5, <1>7, <1>8, <1>9 DEF Next

(* A frame that stays eligible and is not used again is evicted before the *)
(* pool_size-th call of victim(), for every pool size and whatever frames  *)
(* come and go meanwhile.                                                  *)
THEOREM NeverStarved == Spec => []NoStarvation
<1>1. Init => TypeOK /\ StarvationInv
  BY ClockInit DEF Init, ClockInv, StarvationInv
<1>2. TypeOK /\ TypeOK' /\ StarvationInv /\ [Next]_vars => StarvationInv'
  BY StarvationStep
<1>3. TypeOK /\ StarvationInv => NoStarvation
  <2> SUFFICES ASSUME TypeOK, StarvationInv, NEW f \in Frames PROVE passed_over[f] < pool_size
    BY DEF NoStarvation
  <2>1. Cardinality(Rivals(f)) \in Nat /\ passed_over[f] \in Nat /\ pool_size \in Nat /\ pool_size > 0
    <3>1. Rivals(f) \in SUBSET (Frames \ {f})
      BY DEF Rivals
    <3>2. Cardinality(Rivals(f)) \in Nat
      BY <3>1, OthersFinite
    <3> QED
      BY <3>2, PoolSizeAssumption DEF TypeOK, Frames
  <2> QED
    BY <2>1 DEF StarvationInv
<1>4. Spec => []TypeOK
  BY SizeAlwaysExact, PTL
<1> QED
  BY <1>1, <1>2, <1>3, <1>4, PTL DEF Spec

(* A frame with a second chance is evicted only when every eligible frame  *)
(* had one: the sweep made a whole turn without finding another victim.    *)
THEOREM SecondChancesHonoured == Spec => SecondChanceHonoured
<1>1. ASSUME TypeOK, [Next]_vars
      PROVE  [\A f \in Frames :
                 (result' = f /\ is_in_evictor[f] /\ ~is_in_evictor'[f] /\ second_chances[f])
                     => \A g \in Eligible : second_chances[g]]_vars
  <2> SUFFICES ASSUME Next, NEW f \in Frames, result' = f, is_in_evictor[f],
                      ~is_in_evictor'[f], second_chances[f], NEW g \in Frames, is_in_evictor[g]
               PROVE  second_chances[g]
    BY <1>1 DEF Eligible
  <2>1. PICK k \in Steps : victim_at(k)
    BY ResultAssumption DEF Next, add, remove, victim, no_victim
  <2>2. UnderHand(k) = f /\ k >= pool_size
    BY <2>1 DEF victim_at, StopsAt
  <2>3. Ahead(g) \in 0 .. (k - 1) /\ Ahead(g) < pool_size /\ UnderHand(Ahead(g)) = g
    BY <1>1, <2>2, HandMeets, PoolSizeAssumption DEF Steps
  <2>4. ~StopsAt(Ahead(g))
    BY <2>1, <2>3 DEF victim_at
  <2> QED
    BY <2>3, <2>4, PoolSizeAssumption DEF StopsAt
<1>2. Spec => []TypeOK
  BY SizeAlwaysExact, PTL
<1> QED
  BY <1>1, <1>2, PTL DEF Spec, SecondChanceHonoured

-----------------------------------------------------------------------------
(* The loop of the source *)

(* The reference bits after n iterations that found no victim. *)
Cleared(n) ==
    [g \in Frames |-> second_chances[g]
                         /\ ~(is_in_evictor[g] /\ g \in {UnderHand(j) : j \in 0 .. (n - 1)})]

(* The sweep ends at its step k. *)
EndsAt(k) == StopsAt(k) /\ \A j \in 0 .. (k - 1) : ~StopsAt(j)

(* The state of the loop after n iterations, in closed form. *)
Searching(n) == [i |-> UnderHand(n), chances |-> Cleared(n), found |-> None]
Stopped(k) == [i |-> HandPast(UnderHand(k)), chances |-> Cleared(k), found |-> UnderHand(k)]
LoopAt(n) ==
    IF \E k \in 0 .. (n - 1) : EndsAt(k) THEN Stopped(CHOOSE k \in 0 .. (n - 1) : EndsAt(k))
    ELSE Searching(n)

(* The hand wraps as the code's remainder does. *)
LEMMA HandWraps ==
    ASSUME TypeOK, NEW n \in Steps
    PROVE  /\ (UnderHand(n) + 1) % pool_size = HandPast(UnderHand(n))
           /\ HandPast(UnderHand(n)) = UnderHand(n + 1)
<1>1. /\ pool_size \in Nat /\ pool_size > 0 /\ n \in 0 .. (2 * pool_size - 1)
      /\ clock_hand_pos \in 0 .. (pool_size - 1)
  BY PoolSizeAssumption DEF TypeOK, Frames, Steps
<1>2. PICK f : f = UnderHand(n)
  OBVIOUS
<1>3. f \in 0 .. (pool_size - 1)
  BY <1>2, UnderHandType DEF Frames
<1>4. (f + 1) % pool_size = IF f + 1 < pool_size THEN f + 1 ELSE 0
  <2>1. CASE f + 1 < pool_size
    BY <1>1, <1>3, <2>1
  <2>2. CASE f + 1 = pool_size
    BY <1>1, <1>3, <2>2
  <2> QED
    BY <1>1, <1>3, <2>1, <2>2
<1>5. HandPast(f) = IF f + 1 < pool_size THEN f + 1 ELSE 0
  BY <1>1, <1>3 DEF HandPast, Wrap
<1>6. HandPast(f) = UnderHand(n + 1)
  BY <1>1, <1>2, <1>5 DEF UnderHand, Wrap
<1> QED
  BY <1>2, <1>4, <1>5, <1>6

(* The hand has been over the frame under it from the second turn on. *)
LEMMA MetBefore ==
    ASSUME TypeOK, NEW n \in Steps
    PROVE  UnderHand(n) \in {UnderHand(j) : j \in 0 .. (n - 1)} <=> n >= pool_size
<1>1. /\ pool_size \in Nat /\ pool_size > 0 /\ n \in Nat /\ n < 2 * pool_size
  BY PoolSizeAssumption DEF Steps
<1>2. ASSUME n >= pool_size
      PROVE  n - pool_size \in 0 .. (n - 1) /\ UnderHand(n - pool_size) = UnderHand(n)
  BY <1>1, <1>2 DEF TypeOK, Frames, UnderHand, Wrap
<1>3. ASSUME NEW j \in 0 .. (n - 1), UnderHand(j) = UnderHand(n)
      PROVE  n >= pool_size
  <2>1. j \in Steps
    BY <1>1 DEF Steps
  <2> QED
    BY <1>1, <1>3, <2>1, SweepPosition
<1> QED
  BY <1>2, <1>3

(* The code's test is the condition of the closed form, and what it does   *)
(* to the reference bits otherwise is what the closed form says.           *)
LEMMA ClearedStep ==
    ASSUME TypeOK, NEW n \in Steps
    PROVE  /\ is_in_evictor[UnderHand(n)] /\ ~Cleared(n)[UnderHand(n)] <=> StopsAt(n)
           /\ [Cleared(n) EXCEPT ![UnderHand(n)] = @ /\ ~is_in_evictor[UnderHand(n)]] = Cleared(n + 1)
<1>1. UnderHand(n) \in Frames /\ n \in Nat /\ pool_size \in Nat
  BY UnderHandType, PoolSizeAssumption DEF Steps
<1>2. Cleared(n)[UnderHand(n)] <=> second_chances[UnderHand(n)]
          /\ ~(is_in_evictor[UnderHand(n)] /\ n >= pool_size)
  <2>1. Cleared(n)[UnderHand(n)] <=> second_chances[UnderHand(n)]
          /\ ~(is_in_evictor[UnderHand(n)]
               /\ UnderHand(n) \in {UnderHand(j) : j \in 0 .. (n - 1)})
    BY <1>1, Zenon DEF Cleared
  <2> QED
    BY <2>1, MetBefore
<1>3. is_in_evictor[UnderHand(n)] /\ ~Cleared(n)[UnderHand(n)] <=> StopsAt(n)
  BY <1>1, <1>2 DEF StopsAt
<1>4. {UnderHand(j) : j \in 0 .. ((n + 1) - 1)}
          = {UnderHand(j) : j \in 0 .. (n - 1)} \cup {UnderHand(n)}
  <2>1. 0 .. ((n + 1) - 1) = (0 .. (n - 1)) \cup {n}
    BY <1>1
  <2> QED
    BY <2>1, Zenon
<1>5. PICK was, f : was = {UnderHand(j) : j \in 0 .. (n - 1)} /\ f = UnderHand(n)
  OBVIOUS
<1>6. Cleared(n + 1) = [g \in Frames |-> second_chances[g]
                            /\ ~(is_in_evictor[g] /\ g \in was \cup {f})]
  BY <1>4, <1>5, Zenon DEF Cleared
<1>7. Cleared(n) = [g \in Frames |-> second_chances[g] /\ ~(is_in_evictor[g] /\ g \in was)]
  BY <1>5, Zenon DEF Cleared
<1>8. [Cleared(n) EXCEPT ![f] = @ /\ ~is_in_evictor[f]]
          = [g \in Frames |-> IF g = f THEN Cleared(n)[f] /\ ~is_in_evictor[f] ELSE Cleared(n)[g]]
  BY <1>7, Zenon
<1>9. ASSUME NEW g \in Frames
      PROVE  (IF g = f THEN Cleared(n)[f] /\ ~is_in_evictor[f] ELSE Cleared(n)[g])
                 = (second_chances[g] /\ ~(is_in_evictor[g] /\ g \in was \cup {f}))
  <2>1. \A x \in Frames : Cleared(n)[x] = (second_chances[x] /\ ~(is_in_evictor[x] /\ x \in was))
    BY <1>7, Zenon
  <2>2. CASE g = f
    BY <2>1, <2>2, Zenon
  <2>3. CASE g # f
    BY <2>1, <2>3, Zenon
  <2> QED
    BY <2>2, <2>3, Zenon
<1>10. [Cleared(n) EXCEPT ![f] = @ /\ ~is_in_evictor[f]] = Cleared(n + 1)
  BY <1>6, <1>8, <1>9, Zenon
<1> QED
  BY <1>3, <1>5, <1>10, Zenon

(* There is one step at which the sweep can end. *)
LEMMA EndsOnce ==
    ASSUME NEW n \in Nat, NEW m \in Nat, EndsAt(n), EndsAt(m)
    PROVE  n = m
<1>1. CASE n < m
  <2>1. n \in 0 .. (m - 1)
    BY <1>1
  <2> QED
    BY <2>1 DEF EndsAt
<1>2. CASE m < n
  <2>1. m \in 0 .. (n - 1)
    BY <1>2
  <2> QED
    BY <2>1 DEF EndsAt
<1> QED
  BY <1>1, <1>2

(* Once the sweep has ended the loop stays as it is. *)
LEMMA LoopEnds ==
    ASSUME NEW n \in Nat, NEW k \in 0 .. (n - 1), EndsAt(k)
    PROVE  LoopAt(n) = Stopped(k)
<1>1. PICK m : m = CHOOSE i \in 0 .. (n - 1) : EndsAt(i)
  OBVIOUS
<1>2. m \in 0 .. (n - 1) /\ EndsAt(m)
  BY <1>1, Zenon
<1>3. m = k
  BY <1>2, EndsOnce
<1> QED
  BY <1>1, <1>3, Zenon DEF LoopAt

(* If one of the first n steps stops, the sweep ends at one of them. *)
LEMMA SomeEnd ==
    ASSUME NEW n \in Nat, NEW j \in 0 .. (n - 1), StopsAt(j)
    PROVE  \E k \in 0 .. (n - 1) : EndsAt(k)
<1> DEFINE stops == {i \in 0 .. (n - 1) : StopsAt(i)}
<1>1. stops \in SUBSET Nat /\ stops # {}
  OBVIOUS
<1>2. PICK k \in stops : \A y \in stops : k <= y
  <2> HIDE DEF stops
  <2> QED
    BY <1>1, LeastNatural
<1>3. ASSUME NEW i \in 0 .. (k - 1) PROVE ~StopsAt(i)
  BY <1>2
<1> QED
  BY <1>2, <1>3 DEF EndsAt

(* An iteration of the code takes the closed form to the next one. *)
LEMMA LoopAtStep ==
    ASSUME TypeOK, NEW n \in Steps
    PROVE  LoopAt(n + 1) = Iteration(LoopAt(n))
<1>1. n \in Nat /\ n + 1 \in Nat /\ UnderHand(n) \in Frames
  BY UnderHandType, PoolSizeAssumption DEF Steps
<1>2. CASE \E k \in 0 .. (n - 1) : EndsAt(k)
  <2>1. PICK k \in 0 .. (n - 1) : EndsAt(k)
    BY <1>2
  <2>2. k \in 0 .. ((n + 1) - 1) /\ k \in Steps
    BY <1>1, PoolSizeAssumption DEF Steps
  <2>3. LoopAt(n) = Stopped(k) /\ LoopAt(n + 1) = Stopped(k)
    BY <1>1, <2>1, <2>2, LoopEnds
  <2>4. UnderHand(k) # None
    BY <2>2, UnderHandType, ResultAssumption
  <2> QED
    BY <2>3, <2>4 DEF Iteration, Stopped
<1>3. CASE ~\E k \in 0 .. (n - 1) : EndsAt(k)
  <2>1. LoopAt(n) = Searching(n)
    BY <1>3, Zenon DEF LoopAt
  <2>2. \A j \in 0 .. (n - 1) : ~StopsAt(j)
    BY <1>1, <1>3, SomeEnd
  <2>3. (UnderHand(n) + 1) % pool_size = HandPast(UnderHand(n))
        /\ HandPast(UnderHand(n)) = UnderHand(n + 1)
    BY HandWraps
  <2>4. CASE StopsAt(n)
    <3>1. EndsAt(n) /\ n \in 0 .. ((n + 1) - 1)
      BY <1>1, <2>2, <2>4 DEF EndsAt
    <3>2. LoopAt(n + 1) = Stopped(n)
      BY <1>1, <3>1, LoopEnds
    <3>3. is_in_evictor[UnderHand(n)] /\ ~Cleared(n)[UnderHand(n)]
      BY <2>4, ClearedStep
    <3>4. PICK f, bits : f = UnderHand(n) /\ bits = Cleared(n)
      OBVIOUS
    <3>5. Iteration([i |-> f, chances |-> bits, found |-> None])
              = [i |-> (f + 1) % pool_size, chances |-> bits, found |-> f]
      BY <3>3, <3>4 DEF Iteration
    <3> QED
      BY <2>1, <2>3, <3>2, <3>4, <3>5 DEF Searching, Stopped
  <2>5. CASE ~StopsAt(n)
    <3>1. ~\E k \in 0 .. ((n + 1) - 1) : EndsAt(k)
      <4> SUFFICES ASSUME NEW k \in 0 .. ((n + 1) - 1), EndsAt(k) PROVE FALSE
        OBVIOUS
      <4>1. k = n \/ k \in 0 .. (n - 1)
        BY <1>1
      <4> QED
        BY <4>1, <1>3, <2>5 DEF EndsAt
    <3>2. LoopAt(n + 1) = Searching(n + 1)
      BY <3>1, Zenon DEF LoopAt
    <3>3. ~(is_in_evictor[UnderHand(n)] /\ ~Cleared(n)[UnderHand(n)])
      BY <2>5, ClearedStep
    <3>4. [Cleared(n) EXCEPT ![UnderHand(n)] = @ /\ ~is_in_evictor[UnderHand(n)]] = Cleared(n + 1)
      BY ClearedStep
    <3>5. PICK f, bits, now : f = UnderHand(n) /\ bits = Cleared(n) /\ now = Cleared(n + 1)
      OBVIOUS
    <3>6. Iteration([i |-> f, chances |-> bits, found |-> None])
              = [i |-> (f + 1) % pool_size,
                 chances |-> [bits EXCEPT ![f] = @ /\ ~is_in_evictor[f]], found |-> None]
      BY <3>3, <3>5 DEF Iteration
    <3> QED
      BY <2>1, <2>3, <3>2, <3>4, <3>5, <3>6 DEF Searching
  <2> QED
    BY <2>4, <2>5
<1> QED
  BY <1>2, <1>3

(* The recursive function exists, and is the closed form. *)
LEMMA LoopIsClosed ==
    ASSUME TypeOK
    PROVE  \A n \in 0 .. (2 * pool_size) : Loop[n] = LoopAt(n)
<1> DEFINE base == [i |-> clock_hand_pos, chances |-> second_chances, found |-> None]
           equation(f) == f = [n \in 0 .. (2 * pool_size) |->
                                  IF n = 0 THEN base ELSE Iteration(f[n - 1])]
           closed == [n \in 0 .. (2 * pool_size) |-> LoopAt(n)]
<1>1. pool_size \in Nat
  BY PoolSizeAssumption
<1>2. LoopAt(0) = base
  <2>1. LoopAt(0) = Searching(0)
    BY DEF LoopAt
  <2>2. UnderHand(0) = clock_hand_pos
    BY <1>1 DEF TypeOK, Frames, UnderHand, Wrap
  <2>3. Cleared(0) = second_chances
    <3>1. {UnderHand(j) : j \in 0 .. (0 - 1)} = {}
      OBVIOUS
    <3>2. Cleared(0) = [g \in Frames |-> second_chances[g] /\ ~(is_in_evictor[g] /\ g \in {})]
      BY <3>1, Zenon DEF Cleared
    <3>3. second_chances \in [Frames -> BOOLEAN]
      BY DEF TypeOK
    <3>4. \A g \in Frames : second_chances[g] = (second_chances[g] /\ ~(is_in_evictor[g] /\ g \in {}))
      BY <3>3, Zenon
    <3> QED
      BY <3>2, <3>3, <3>4, Zenon
  <2> QED
    BY <2>1, <2>2, <2>3 DEF Searching
<1>3. \A n \in 1 .. (2 * pool_size) : LoopAt(n) = Iteration(LoopAt(n - 1))
  <2> SUFFICES ASSUME NEW n \in 1 .. (2 * pool_size)
               PROVE  LoopAt(n) = Iteration(LoopAt(n - 1))
    OBVIOUS
  <2>1. n - 1 \in Steps /\ (n - 1) + 1 = n
    BY <1>1 DEF Steps
  <2>2. LoopAt((n - 1) + 1) = Iteration(LoopAt(n - 1))
    BY <2>1, LoopAtStep
  <2> QED
    BY <2>1, <2>2
<1>4. equation(closed)
  <2>1. ASSUME NEW n \in 0 .. (2 * pool_size)
        PROVE  LoopAt(n) = IF n = 0 THEN base ELSE Iteration(closed[n - 1])
    <3>1. CASE n = 0
      BY <1>2, <3>1
    <3>2. CASE n # 0
      <4>1. n \in 1 .. (2 * pool_size) /\ n - 1 \in 0 .. (2 * pool_size)
        BY <1>1, <3>2
      <4>2. closed[n - 1] = LoopAt(n - 1)
        BY <4>1
      <4> QED
        BY <1>3, <3>2, <4>1, <4>2
    <3> QED
      BY <3>1, <3>2
  <2> QED
    BY <2>1, Zenon
<1> HIDE DEF closed
<1>5. equation(Loop)
  BY <1>4 DEF Loop
<1> DEFINE bad == {n \in 0 .. (2 * pool_size) : Loop[n] # LoopAt(n)}
<1> SUFFICES ASSUME bad # {} PROVE FALSE
  OBVIOUS
<1>6. PICK n \in bad : \A y \in bad : n <= y
  <2>1. bad \in SUBSET Nat
    OBVIOUS
  <2> HIDE DEF bad
  <2> QED
    BY <2>1, LeastNatural
<1>7. PICK loop : loop = Loop
  OBVIOUS
<1>8. loop = [m \in 0 .. (2 * pool_size) |-> IF m = 0 THEN base ELSE Iteration(loop[m - 1])]
  BY <1>5, <1>7
<1>9. n # 0
  <2>1. 0 \in 0 .. (2 * pool_size)
    BY <1>1
  <2>2. loop[0] = base
    BY <1>8, <2>1
  <2> QED
    BY <1>2, <1>6, <1>7, <2>2
<1>10. n \in 1 .. (2 * pool_size) /\ n \in 0 .. (2 * pool_size) /\ n - 1 \in 0 .. (2 * pool_size)
  BY <1>1, <1>6, <1>9
<1>11. n - 1 \notin bad
  BY <1>6, <1>10
<1>12. loop[n - 1] = LoopAt(n - 1)
  BY <1>7, <1>10, <1>11
<1>13. loop[n] = Iteration(loop[n - 1])
  BY <1>8, <1>9, <1>10
<1>14. LoopAt(n) = Iteration(LoopAt(n - 1))
  BY <1>3, <1>10
<1> QED
  BY <1>6, <1>7, <1>12, <1>13, <1>14

(* The closed form of the sweep is the loop of the source, for every pool  *)
(* size: victim() takes the frame at which the loop stops, leaves the      *)
(* reference bits and the hand as the loop does, and finds none after two  *)
(* turns only if the loop does not.                                        *)
THEOREM SweepsAreLoops == Spec => SweepIsLoop
<1>1. ASSUME TypeOK, victim
      PROVE  /\ result' = Loop[2 * pool_size].found
             /\ second_chances' = Loop[2 * pool_size].chances
             /\ clock_hand_pos' = Loop[2 * pool_size].i
  <2>1. pool_size \in Nat /\ 2 * pool_size \in Nat /\ 2 * pool_size \in 0 .. (2 * pool_size)
    BY PoolSizeAssumption
  <2>2. Loop[2 * pool_size] = LoopAt(2 * pool_size)
    BY <1>1, <2>1, LoopIsClosed
  <2>3. ASSUME NEW k \in Steps, victim_at(k)
        PROVE  /\ result' = Loop[2 * pool_size].found
               /\ second_chances' = Loop[2 * pool_size].chances
               /\ clock_hand_pos' = Loop[2 * pool_size].i
    <3>1. k \in 0 .. (2 * pool_size - 1) /\ EndsAt(k)
      BY <2>3 DEF Steps, victim_at, EndsAt
    <3>2. LoopAt(2 * pool_size) = Stopped(k)
      BY <2>1, <3>1, LoopEnds
    <3>3. /\ result' = UnderHand(k)
          /\ second_chances' = Cleared(k)
          /\ clock_hand_pos' = HandPast(UnderHand(k))
      BY <2>3, Zenon DEF victim_at, Cleared
    <3> QED
      BY <2>2, <3>2, <3>3 DEF Stopped
  <2>4. CASE no_victim
    <3>1. Eligible = {}
      BY <1>1, <2>4, SweepComplete
    <3>2. ~\E k \in 0 .. (2 * pool_size - 1) : EndsAt(k)
      BY <2>4 DEF no_victim, EndsAt, Steps
    <3>3. LoopAt(2 * pool_size) = Searching(2 * pool_size)
      BY <3>2, Zenon DEF LoopAt
    <3>4. UnderHand(2 * pool_size) = clock_hand_pos
      BY <1>1, <2>1 DEF TypeOK, Frames, UnderHand, Wrap
    <3>5. Cleared(2 * pool_size) = second_chances
      <4>1. \A g \in Frames : ~is_in_evictor[g]
        BY <3>1 DEF Eligible
      <4>2. second_chances \in [Frames -> BOOLEAN]
        BY <1>1 DEF TypeOK
      <4>3. PICK met : met = {UnderHand(j) : j \in 0 .. (2 * pool_size - 1)}
        OBVIOUS
      <4>4. \A g \in Frames : second_chances[g] = (second_chances[g] /\ ~(is_in_evictor[g] /\ g \in met))
        BY <4>1, <4>2, Zenon
      <4>5. Cleared(2 * pool_size)
                = [g \in Frames |-> second_chances[g] /\ ~(is_in_evictor[g] /\ g \in met)]
        BY <4>3, Zenon DEF Cleared
      <4> QED
        BY <4>2, <4>4, <4>5, Zenon
    <3> QED
      BY <2>2, <2>4, <3>3, <3>4, <3>5 DEF no_victim, Searching
  <2> QED
    BY <1>1, <2>3, <2>4 DEF victim
<1>2. TypeOK /\ [Next]_vars
        => [victim => LET s == Loop[2 * pool_size]
                      IN  /\ result' = s.found
                          /\ second_chances' = s.chances
                          /\ clock_hand_pos' = s.i]_vars
  BY <1>1
<1>3. Spec => []TypeOK
  BY SizeAlwaysExact, PTL
<1> QED
  BY <1>2, <1>3, PTL DEF Spec, SweepIsLoop
=============================================================================
