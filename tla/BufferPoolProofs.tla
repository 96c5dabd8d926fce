--------------------------- MODULE BufferPoolProofs ---------------------------
(***************************************************************************)
(* Safety of the buffer pool for any sets of threads, frames and pages.    *)
(*                                                                         *)
(* PoolInv is inductive without assumptions on the scheduler or the disk:  *)
(* types, pins that cover their holders, a consistent page table, no frame *)
(* lost.  The pins are needed for the types (a pin count is a natural      *)
(* number only because the thread that decrements it is counted), and the  *)
(* privacy of fresh pages for the table (create_page enters its page       *)
(* without looking it up).                                                 *)
(*                                                                         *)
(* UninterruptedInv adds what holds when unpinning is not preempted: no    *)
(* pinned frame is evictable, so no page leaves the frame of a holder.     *)
(***************************************************************************)
EXTENDS BufferPool, TLAPS, FiniteSetTheorems

(* What the locals of a call are while it is in progress.                  *)
LocalsOK ==
    \A t \in Threads :
        /\ pc[t] \in PinningPhases \cup {"adding", "unlatch"} => frame[t] \in Frames
        /\ pc[t] \notin {"idle", "panicked"} => page[t] \in Pages

(* A thread that holds a pin has a frame whose pin count is not zero, so   *)
(* that decrement_pin_count does not underflow.                            *)
LEMMA HolderPinned ==
    ASSUME TypeOK, LocalsOK, PinsCoverHolders,
           NEW t \in Threads, pc[t] \in PinningPhases
    PROVE  frame[t] \in Frames /\ pin_count[frame[t]] \in Nat /\ pin_count[frame[t]] > 0
<1> DEFINE f == frame[t]
<1>1. f \in Frames
  BY DEF LocalsOK
<1>2. IsFiniteSet(Holders(f)) /\ t \in Holders(f)
  BY ThreadsAssumption, FS_Subset DEF Holders
<1>3. Cardinality(Holders(f)) \in Nat /\ Cardinality(Holders(f)) # 0
  BY <1>2, FS_CardinalityType, FS_EmptySet
<1> QED
  BY <1>1, <1>3 DEF TypeOK, PinsCoverHolders

(* The variables that Claim changes have their types. *)
ClaimTypes ==
    /\ page_table \in [Pages -> Frames \cup {NoFrame}]
    /\ free_frames \in SUBSET Frames
    /\ page_id \in [Frames -> Pages \cup {NoPage}]
    /\ pin_count \in [Frames -> Nat]
    /\ evictable \in SUBSET Frames
    /\ flushes \in [Pages -> Threads \cup {NoThread}]
    /\ flush_page \in [Threads -> Pages \cup {NoPage}]
    /\ flush_data \in [Threads -> Data \cup {Absent}]
    /\ frame \in [Threads -> Frames \cup {NoFrame}]

(* Taking a frame for a page (evict_page and what follows it) keeps the    *)
(* types.                                                                  *)
LEMMA ClaimStep ==
    ASSUME TypeOK, NEW t \in Threads, NEW p \in Pages, NEW f \in Frames, Claim(t, p, f)
    PROVE  ClaimTypes'
<1>1. page_table' \in [Pages -> Frames \cup {NoFrame}]
  BY DEF TypeOK, Claim, Remap
<1>2. flushes' \in [Pages -> Threads \cup {NoThread}]
  BY DEF TypeOK, Claim, FlushesAfterClaim
<1>3. pin_count' \in [Frames -> Nat]
  BY DEF TypeOK, Claim, PinCountAfterClaim
<1>4. /\ flush_page' \in [Threads -> Pages \cup {NoPage}]
      /\ flush_data' \in [Threads -> Data \cup {Absent}]
  BY DEF TypeOK, Claim
<1>5. /\ free_frames' \in SUBSET Frames
      /\ page_id' \in [Frames -> Pages \cup {NoPage}]
      /\ evictable' \in SUBSET Frames
      /\ frame' \in [Threads -> Frames \cup {NoFrame}]
  BY DEF TypeOK, Claim
<1> QED
  BY <1>1, <1>2, <1>3, <1>4, <1>5 DEF ClaimTypes

(* Every step keeps the types; the drop of a guard needs its pin to be     *)
(* counted.                                                                *)
LEMMA TypeStep ==
    ASSUME TypeOK, LocalsOK, PinsCoverHolders, [Next]_vars
    PROVE  TypeOK'
<1> USE PagesAssumption, FramesAssumption, ThreadsAssumption, ValuesAssumption,
        BoundsAssumption
    DEF Data, Phases, PinningPhases, FetchPhases, Goto, Start, Return, Fault,
        table, pins, latch, channels, call, pending, panics
<1>1. ASSUME NEW t \in Threads, NEW p \in Pages, NEW m \in {"read", "write"}, FetchHit(t, p, m)
      PROVE  TypeOK'
  BY <1>1 DEF TypeOK, LocalsOK, FetchHit, EvictableAfterPin
<1>2. ASSUME NEW t \in Threads, NEW p \in Pages, NEW m \in {"read", "write"}, NEW f \in Frames,
             FetchMiss(t, p, m, f)
      PROVE  TypeOK'
  <2>1. ClaimTypes'
    BY <1>2, ClaimStep DEF FetchMiss, LocalsOK
  <2>2. (pc \in [Threads -> Phases])'
    BY <1>2 DEF TypeOK, FetchMiss
  <2>3. ops' \in 0 .. MaxOps
    BY <1>2 DEF TypeOK, FetchMiss
  <2> QED
    BY <1>2, <2>1, <2>2, <2>3 DEF TypeOK, ClaimTypes, FetchMiss
<1>3. ASSUME NEW t \in Threads, NEW p \in Pages, FetchFull(t, p)
      PROVE  TypeOK'
  BY <1>3 DEF TypeOK, LocalsOK, FetchFull
<1>4. ASSUME NEW t \in Threads, NEW p \in Pages, AllocatePage(t, p)
      PROVE  TypeOK'
  BY <1>4 DEF TypeOK, LocalsOK, AllocatePage
<1>5. ASSUME NEW t \in Threads, AllocatePageFails(t)
      PROVE  TypeOK'
  BY <1>5 DEF TypeOK, LocalsOK, AllocatePageFails
<1>6. ASSUME NEW t \in Threads, FetchPanics(t)
      PROVE  TypeOK'
  BY <1>6 DEF TypeOK, LocalsOK, FetchPanics
<1>7. ASSUME NEW t \in Threads, NEW v \in Values, Write(t, v)
      PROVE  TypeOK'
  BY <1>7 DEF TypeOK, LocalsOK, Write
<1>8. ASSUME NEW t \in Threads, CheckFetch(t)
      PROVE  TypeOK'
  BY <1>8 DEF TypeOK, LocalsOK, CheckFetch
<1>9. ASSUME NEW t \in Threads, FetchArrived(t)
      PROVE  TypeOK'
  BY <1>9 DEF TypeOK, LocalsOK, FetchArrived
<1>10. ASSUME NEW t \in Threads, FetchClosed(t)
      PROVE  TypeOK'
  <2>1. frame[t] \in Frames /\ pin_count[frame[t]] \in Nat /\ pin_count[frame[t]] > 0
    BY <1>10, HolderPinned DEF FetchClosed
  <2> QED
    BY <1>10, <2>1 DEF TypeOK, FetchClosed, Unpin, LastPin
<1>11. ASSUME NEW t \in Threads, CheckFlush(t)
      PROVE  TypeOK'
  BY <1>11 DEF TypeOK, LocalsOK, CheckFlush
<1>12. ASSUME NEW t \in Threads, FlushArrived(t)
      PROVE  TypeOK'
  BY <1>12 DEF TypeOK, LocalsOK, FlushArrived
<1>13. ASSUME NEW t \in Threads, FlushClosed(t)
      PROVE  TypeOK'
  BY <1>13 DEF TypeOK, LocalsOK, FlushClosed
<1>14. ASSUME NEW t \in Threads, ReadPage(t)
      PROVE  TypeOK'
  BY <1>14 DEF TypeOK, LocalsOK, ReadPage
<1>15. ASSUME NEW t \in Threads, ReadPageFails(t)
      PROVE  TypeOK'
  BY <1>15 DEF TypeOK, LocalsOK, ReadPageFails
<1>16. ASSUME NEW t \in Threads, Load(t)
      PROVE  TypeOK'
  BY <1>16 DEF TypeOK, LocalsOK, Load, FetchesAfterLoad, Deliver, Unlatched
<1>17. ASSUME NEW t \in Threads, Flush(t)
      PROVE  TypeOK'
  BY <1>17 DEF TypeOK, LocalsOK, Flush
<1>18. ASSUME NEW t \in Threads, FlushFails(t)
      PROVE  TypeOK'
  BY <1>18 DEF TypeOK, LocalsOK, FlushFails
<1>19. ASSUME NEW t \in Threads, Notify(t)
      PROVE  TypeOK'
  <2>1. /\ flushes' \in [Pages -> Threads \cup {NoThread}]
        /\ writer' \in [Frames -> Threads \cup {NoThread}]
    BY <1>19 DEF TypeOK, Notify
  <2>2. sub' \in [Threads -> Threads \cup {NoThread}]
    BY <1>19 DEF TypeOK, Notify, Deliver
  <2>3a. flush_page' \in [Threads -> Pages \cup {NoPage}]
    BY <1>19 DEF TypeOK, Notify
  <2>3b. flush_data' \in [Threads -> Data \cup {Absent}]
    BY <1>19 DEF TypeOK, Notify
  <2>3c. read_buffer' \in [Threads -> Data]
    BY <1>19 DEF TypeOK, Notify
  <2>4. /\ page' \in [Threads -> Pages \cup {NoPage}]
        /\ frame' \in [Threads -> Frames \cup {NoFrame}]
        /\ mode' = mode
    BY <1>19 DEF TypeOK, Notify
  <2>5. pc' \in [Threads -> Phases]
    BY <1>19 DEF TypeOK, Notify
  <2>6. UNCHANGED <<table, pins, is_dirty, data, readers, fetches, panics, disk, ops, faults,
                    latest>>
    BY <1>19 DEF Notify
  <2> QED
    BY <2>1, <2>2, <2>3a, <2>3b, <2>3c, <2>4, <2>5, <2>6 DEF TypeOK
<1>20. ASSUME NEW t \in Threads, NEW f \in Frames, Place(t, f)
      PROVE  TypeOK'
  <2>1. ClaimTypes'
    BY <1>20, ClaimStep DEF Place, LocalsOK
  <2> QED
    BY <1>20, <2>1 DEF TypeOK, ClaimTypes, Place
<1>21. ASSUME NEW t \in Threads, PlacePanics(t)
      PROVE  TypeOK'
  BY <1>21 DEF TypeOK, LocalsOK, PlacePanics
<1>22. ASSUME NEW t \in Threads, CreateFlush(t)
      PROVE  TypeOK'
  BY <1>22 DEF TypeOK, LocalsOK, CreateFlush
<1>23. ASSUME NEW t \in Threads, CreateFlushFails(t)
      PROVE  TypeOK'
  BY <1>23 DEF TypeOK, LocalsOK, CreateFlushFails
<1>24. ASSUME NEW t \in Threads, CreateNotify(t)
      PROVE  TypeOK'
  BY <1>24 DEF TypeOK, LocalsOK, CreateNotify, Deliver
<1>25. ASSUME NEW t \in Threads, Latch(t)
      PROVE  TypeOK'
  BY <1>25 DEF TypeOK, LocalsOK, Latch
<1>26. ASSUME NEW t \in Threads, Drop(t)
      PROVE  TypeOK'
  <2>1. frame[t] \in Frames /\ pin_count[frame[t]] \in Nat /\ pin_count[frame[t]] > 0
    BY <1>26, HolderPinned DEF Drop
  <2> QED
    BY <1>26, <2>1 DEF TypeOK, Drop, Unpin, LastPin
<1>27. ASSUME NEW t \in Threads, AddToEvictor(t)
      PROVE  TypeOK'
  BY <1>27 DEF TypeOK, LocalsOK, AddToEvictor
<1>28. ASSUME NEW t \in Threads, Unlatch(t)
      PROVE  TypeOK'
  BY <1>28 DEF TypeOK, LocalsOK, Unlatch
<1>29. ASSUME NEW t \in Threads, Panic(t)
      PROVE  TypeOK'
  BY <1>29 DEF TypeOK, LocalsOK, Panic, LockingPhases, Unlatched
<1>30. CASE UNCHANGED vars
  BY <1>30 DEF TypeOK, vars
<1> QED
    BY <1>1, <1>2, <1>3, <1>4, <1>5, <1>6, <1>7, <1>8, <1>9, <1>10, <1>11, <1>12, <1>13,
     <1>14, <1>15, <1>16, <1>17, <1>18, <1>19, <1>20, <1>21, <1>22, <1>23, <1>24, <1>25,
     <1>26, <1>27, <1>28, <1>29, <1>30 DEF Next, Client, Proceed, Quiescent
(* Every step keeps the locals of the calls meaningful.                    *)
LEMMA LocalsStep ==
    ASSUME TypeOK, LocalsOK, [Next]_vars
    PROVE  LocalsOK'
<1> USE FramesAssumption, PagesAssumption DEF TypeOK, LocalsOK
<1> USE DEF Phases, PinningPhases, FetchPhases, Goto, Start, Return, Fault,
            table, pins, latch, channels, call, pending, panics
<1>1. ASSUME NEW t \in Threads, NEW p \in Pages, NEW m \in {"read", "write"}, FetchHit(t, p, m)
      PROVE  LocalsOK'
  BY <1>1 DEF FetchHit
<1>2. ASSUME NEW t \in Threads, NEW p \in Pages, NEW m \in {"read", "write"}, NEW f \in Frames,
             FetchMiss(t, p, m, f)
      PROVE  LocalsOK'
  BY <1>2 DEF FetchMiss, Claim
<1>3. ASSUME NEW t \in Threads, NEW p \in Pages, FetchFull(t, p)
      PROVE  LocalsOK'
  BY <1>3 DEF FetchFull
<1>4. ASSUME NEW t \in Threads, NEW p \in Pages, AllocatePage(t, p)
      PROVE  LocalsOK'
  BY <1>4 DEF AllocatePage
<1>5. ASSUME NEW t \in Threads, AllocatePageFails(t)
      PROVE  LocalsOK'
  BY <1>5 DEF AllocatePageFails
<1>6. ASSUME NEW t \in Threads, FetchPanics(t)
      PROVE  LocalsOK'
  BY <1>6 DEF FetchPanics
<1>7. ASSUME NEW t \in Threads, NEW v \in Values, Write(t, v)
      PROVE  LocalsOK'
  BY <1>7 DEF Write
<1>8. ASSUME NEW t \in Threads, CheckFetch(t)
      PROVE  LocalsOK'
  BY <1>8 DEF CheckFetch
<1>9. ASSUME NEW t \in Threads, FetchArrived(t)
      PROVE  LocalsOK'
  BY <1>9 DEF FetchArrived
<1>10. ASSUME NEW t \in Threads, FetchClosed(t)
      PROVE  LocalsOK'
  BY <1>10 DEF FetchClosed, Unpin
<1>11. ASSUME NEW t \in Threads, CheckFlush(t)
      PROVE  LocalsOK'
  BY <1>11 DEF CheckFlush
<1>12. ASSUME NEW t \in Threads, FlushArrived(t)
      PROVE  LocalsOK'
  BY <1>12 DEF FlushArrived
<1>13. ASSUME NEW t \in Threads, FlushClosed(t)
      PROVE  LocalsOK'
  BY <1>13 DEF FlushClosed
<1>14. ASSUME NEW t \in Threads, ReadPage(t)
      PROVE  LocalsOK'
  BY <1>14 DEF ReadPage
<1>15. ASSUME NEW t \in Threads, ReadPageFails(t)
      PROVE  LocalsOK'
  BY <1>15 DEF ReadPageFails
<1>16. ASSUME NEW t \in Threads, Load(t)
      PROVE  LocalsOK'
  BY <1>16 DEF Load
<1>17. ASSUME NEW t \in Threads, Flush(t)
      PROVE  LocalsOK'
  BY <1>17 DEF Flush
<1>18. ASSUME NEW t \in Threads, FlushFails(t)
      PROVE  LocalsOK'
  BY <1>18 DEF FlushFails
<1>19. ASSUME NEW t \in Threads, Notify(t)
      PROVE  LocalsOK'
  BY <1>19 DEF Notify
<1>20. ASSUME NEW t \in Threads, NEW f \in Frames, Place(t, f)
      PROVE  LocalsOK'
  BY <1>20 DEF Place, Claim
<1>21. ASSUME NEW t \in Threads, PlacePanics(t)
      PROVE  LocalsOK'
  BY <1>21 DEF PlacePanics
<1>22. ASSUME NEW t \in Threads, CreateFlush(t)
      PROVE  LocalsOK'
  BY <1>22 DEF CreateFlush
<1>23. ASSUME NEW t \in Threads, CreateFlushFails(t)
      PROVE  LocalsOK'
  BY <1>23 DEF CreateFlushFails
<1>24. ASSUME NEW t \in Threads, CreateNotify(t)
      PROVE  LocalsOK'
  BY <1>24 DEF CreateNotify
<1>25. ASSUME NEW t \in Threads, Latch(t)
      PROVE  LocalsOK'
  BY <1>25 DEF Latch
<1>26. ASSUME NEW t \in Threads, Drop(t)
      PROVE  LocalsOK'
  BY <1>26 DEF Drop, Unpin
<1>27. ASSUME NEW t \in Threads, AddToEvictor(t)
      PROVE  LocalsOK'
  BY <1>27 DEF AddToEvictor
<1>28. ASSUME NEW t \in Threads, Unlatch(t)
      PROVE  LocalsOK'
  BY <1>28 DEF Unlatch
<1>29. ASSUME NEW t \in Threads, Panic(t)
      PROVE  LocalsOK'
  BY <1>29 DEF Panic, LockingPhases
<1>30. CASE UNCHANGED vars
  BY <1>30 DEF vars
<1> QED
    BY <1>1, <1>2, <1>3, <1>4, <1>5, <1>6, <1>7, <1>8, <1>9, <1>10, <1>11, <1>12, <1>13,
     <1>14, <1>15, <1>16, <1>17, <1>18, <1>19, <1>20, <1>21, <1>22, <1>23, <1>24, <1>25,
     <1>26, <1>27, <1>28, <1>29, <1>30 DEF Next, Client, Proceed, Quiescent

(* A step that leaves the page table and the pins alone: no thread starts  *)
(* or stops holding a frame by it, except by returning.                    *)
Quiet ==
    /\ UNCHANGED <<table, pins>>
    /\ \A u \in Threads :
        /\ pc'[u] \in PinningPhases =>
               pc[u] \in PinningPhases /\ page'[u] = page[u] /\ frame'[u] = frame[u]
        /\ pc'[u] = "adding" <=> pc[u] = "adding"
        /\ pc'[u] = "adding" => frame'[u] = frame[u]

(* Every step is one of six actions that change the table or the pins, or  *)
(* is quiet.                                                               *)
LEMMA QuietOrNot ==
    ASSUME TypeOK, [Next]_vars
    PROVE  \/ Quiet
           \/ \E t \in Threads :
                \/ \E p \in Pages, m \in {"read", "write"} : FetchHit(t, p, m)
                \/ \E p \in Pages, m \in {"read", "write"}, f \in Frames : FetchMiss(t, p, m, f)
                \/ \E f \in Frames : Place(t, f)
                \/ FetchClosed(t)
                \/ Drop(t)
                \/ AddToEvictor(t)
<1> USE DEF TypeOK, Quiet
<1> USE DEF Phases, PinningPhases, FetchPhases, Goto, Start, Return, Fault,
            table, pins, latch, channels, call, pending, panics
<1>1. ASSUME NEW t \in Threads, NEW p \in Pages, FetchFull(t, p)
      PROVE  Quiet
  BY <1>1 DEF FetchFull
<1>2. ASSUME NEW t \in Threads, NEW p \in Pages, AllocatePage(t, p)
      PROVE  Quiet
  BY <1>2 DEF AllocatePage
<1>3. ASSUME NEW t \in Threads, AllocatePageFails(t)
      PROVE  Quiet
  BY <1>3 DEF AllocatePageFails
<1>4. ASSUME NEW t \in Threads, FetchPanics(t)
      PROVE  Quiet
  BY <1>4 DEF FetchPanics
<1>5. ASSUME NEW t \in Threads, NEW v \in Values, Write(t, v)
      PROVE  Quiet
  BY <1>5 DEF Write
<1>6. ASSUME NEW t \in Threads, CheckFetch(t)
      PROVE  Quiet
  BY <1>6 DEF CheckFetch
<1>7. ASSUME NEW t \in Threads, FetchArrived(t)
      PROVE  Quiet
  BY <1>7 DEF FetchArrived
<1>8. ASSUME NEW t \in Threads, CheckFlush(t)
      PROVE  Quiet
  BY <1>8 DEF CheckFlush
<1>9. ASSUME NEW t \in Threads, FlushArrived(t)
      PROVE  Quiet
  BY <1>9 DEF FlushArrived
<1>10. ASSUME NEW t \in Threads, FlushClosed(t)
      PROVE  Quiet
  BY <1>10 DEF FlushClosed
<1>11. ASSUME NEW t \in Threads, ReadPage(t)
      PROVE  Quiet
  BY <1>11 DEF ReadPage
<1>12. ASSUME NEW t \in Threads, ReadPageFails(t)
      PROVE  Quiet
  BY <1>12 DEF ReadPageFails
<1>13. ASSUME NEW t \in Threads, Load(t)
      PROVE  Quiet
  BY <1>13 DEF Load
<1>14. ASSUME NEW t \in Threads, Flush(t)
      PROVE  Quiet
  BY <1>14 DEF Flush
<1>15. ASSUME NEW t \in Threads, FlushFails(t)
      PROVE  Quiet
  BY <1>15 DEF FlushFails
<1>16. ASSUME NEW t \in Threads, Notify(t)
      PROVE  Quiet
  BY <1>16 DEF Notify
<1>17. ASSUME NEW t \in Threads, PlacePanics(t)
      PROVE  Quiet
  BY <1>17 DEF PlacePanics
<1>18. ASSUME NEW t \in Threads, CreateFlush(t)
      PROVE  Quiet
  BY <1>18 DEF CreateFlush
<1>19. ASSUME NEW t \in Threads, CreateFlushFails(t)
      PROVE  Quiet
  BY <1>19 DEF CreateFlushFails
<1>20. ASSUME NEW t \in Threads, CreateNotify(t)
      PROVE  Quiet
  BY <1>20 DEF CreateNotify
<1>21. ASSUME NEW t \in Threads, Latch(t)
      PROVE  Quiet
  BY <1>21 DEF Latch
<1>22. ASSUME NEW t \in Threads, Unlatch(t)
      PROVE  Quiet
  BY <1>22 DEF Unlatch
<1>23. ASSUME NEW t \in Threads, Panic(t)
      PROVE  Quiet
  BY <1>23 DEF Panic, LockingPhases
<1>24. CASE UNCHANGED vars
  BY <1>24 DEF vars
<1> QED
  BY <1>1, <1>2, <1>3, <1>4, <1>5, <1>6, <1>7, <1>8, <1>9, <1>10, <1>11, <1>12, <1>13,
     <1>14, <1>15, <1>16, <1>17, <1>18, <1>19, <1>20, <1>21, <1>22, <1>23, <1>24 DEF
     Next, Client, Proceed, Quiescent

(* The arithmetic of pins: a step that changes the holders of a frame by   *)
(* at most one thread, and its pin count by as much, keeps the holders     *)
(* covered.                                                                *)
LEMMA PinsCount ==
    ASSUME TypeOK, TypeOK', PinsCoverHolders,
           \A f \in Frames :
              \/ /\ Holders(f)' \subseteq Holders(f)
                 /\ pin_count'[f] = pin_count[f]
              \/ /\ \E t \in Threads : Holders(f)' \subseteq Holders(f) \cup {t}
                 /\ pin_count'[f] = pin_count[f] + 1
              \/ /\ \E t \in Holders(f) : Holders(f)' \subseteq Holders(f) \ {t}
                 /\ pin_count'[f] = pin_count[f] - 1
    PROVE  PinsCoverHolders'
<1> SUFFICES ASSUME NEW f \in Frames
             PROVE  Cardinality(Holders(f)') <= pin_count'[f]
  BY DEF PinsCoverHolders, Holders
<1>1. /\ IsFiniteSet(Holders(f))
      /\ Cardinality(Holders(f)) \in Nat
      /\ Cardinality(Holders(f)) <= pin_count[f]
      /\ pin_count[f] \in Nat
  BY ThreadsAssumption, FS_Subset, FS_CardinalityType DEF Holders, PinsCoverHolders, TypeOK
<1>2. CASE Holders(f)' \subseteq Holders(f) /\ pin_count'[f] = pin_count[f]
  <2>1. Cardinality(Holders(f)') \in Nat /\ Cardinality(Holders(f)') <= Cardinality(Holders(f))
    BY <1>1, <1>2, FS_Subset, FS_CardinalityType
  <2> QED
    BY <1>1, <1>2, <2>1
<1>3. ASSUME NEW t \in Threads, Holders(f)' \subseteq Holders(f) \cup {t},
             pin_count'[f] = pin_count[f] + 1
      PROVE  Cardinality(Holders(f)') <= pin_count'[f]
  <2>1. /\ IsFiniteSet(Holders(f) \cup {t})
        /\ Cardinality(Holders(f) \cup {t}) \in Nat
        /\ Cardinality(Holders(f) \cup {t}) <= Cardinality(Holders(f)) + 1
    <3>1. /\ IsFiniteSet(Holders(f) \cup {t})
          /\ \/ Cardinality(Holders(f) \cup {t}) = Cardinality(Holders(f))
             \/ Cardinality(Holders(f) \cup {t}) = Cardinality(Holders(f)) + 1
      BY <1>1, FS_AddElement
    <3> QED
      BY <1>1, <3>1
  <2>2. /\ Cardinality(Holders(f)') \in Nat
        /\ Cardinality(Holders(f)') <= Cardinality(Holders(f) \cup {t})
    BY <1>3, <2>1, FS_Subset, FS_CardinalityType
  <2> QED
    BY <1>1, <1>3, <2>1, <2>2
<1>4. ASSUME NEW t \in Holders(f), Holders(f)' \subseteq Holders(f) \ {t},
             pin_count'[f] = pin_count[f] - 1
      PROVE  Cardinality(Holders(f)') <= pin_count'[f]
  <2>1. /\ IsFiniteSet(Holders(f) \ {t})
        /\ Cardinality(Holders(f) \ {t}) \in Nat
        /\ Cardinality(Holders(f) \ {t}) = Cardinality(Holders(f)) - 1
    BY <1>1, FS_RemoveElement, FS_CardinalityType
  <2>2. /\ Cardinality(Holders(f)') \in Nat
        /\ Cardinality(Holders(f)') <= Cardinality(Holders(f) \ {t})
    BY <1>4, <2>1, FS_Subset, FS_CardinalityType
  <2> QED
    BY <1>1, <1>4, <2>1, <2>2
<1> QED
  BY <1>2, <1>3, <1>4

(* Every step of every thread keeps the holders of every frame covered.    *)
LEMMA PinsStep ==
    ASSUME TypeOK, TypeOK', LocalsOK, PinsCoverHolders, [Next]_vars
    PROVE  PinsCoverHolders'
<1> USE FramesAssumption DEF TypeOK, LocalsOK, Holders
<1> USE DEF Phases, PinningPhases, FetchPhases, Goto, Start, Return, Fault,
            table, pins, latch, channels, call, pending, panics
<1>1. ASSUME NEW t \in Threads, NEW p \in Pages, NEW m \in {"read", "write"},
             FetchHit(t, p, m)
      PROVE  PinsCoverHolders'
  BY <1>1, PinsCount DEF FetchHit
<1>2. ASSUME NEW t \in Threads, NEW p \in Pages, NEW m \in {"read", "write"}, NEW f \in Frames,
             FetchMiss(t, p, m, f)
      PROVE  PinsCoverHolders'
  BY <1>2, PinsCount DEF FetchMiss, Claim, PinCountAfterClaim
<1>3. ASSUME NEW t \in Threads, NEW f \in Frames, Place(t, f)
      PROVE  PinsCoverHolders'
  BY <1>3, PinsCount DEF Place, Claim, PinCountAfterClaim
<1>4. ASSUME NEW t \in Threads, FetchClosed(t)
      PROVE  PinsCoverHolders'
  BY <1>4, PinsCount DEF FetchClosed, Unpin
<1>5. ASSUME NEW t \in Threads, Drop(t)
      PROVE  PinsCoverHolders'
  BY <1>5, PinsCount DEF Drop, Unpin
<1>6. ASSUME NEW t \in Threads, AddToEvictor(t)
      PROVE  PinsCoverHolders'
  BY <1>6, PinsCount DEF AddToEvictor
<1>7. CASE Quiet
  BY <1>7, PinsCount DEF Quiet
<1> QED
  BY <1>1, <1>2, <1>3, <1>4, <1>5, <1>6, <1>7, QuietOrNot

(* A page that is being created is known to its creator alone: until it is *)
(* placed nobody else fetches it, and it has no frame.  A page that was    *)
(* never allocated is neither cached nor written, and a flush never        *)
(* unallocates one.                                                        *)
FreshPages ==
    /\ \A p \in Pages : disk[p] = Absent => page_table[p] = NoFrame /\ latest[p] = Absent
    /\ \A t \in Threads : pc[t] \notin {"idle", "panicked"} => disk[page[t]] # Absent
    /\ \A t \in Threads :
        pc[t] = "place" => page_table[page[t]] = NoFrame /\ latest[page[t]] = Absent
    /\ \A t, u \in Threads :
        pc[t] = "place" /\ t # u /\ pc[u] \notin {"idle", "panicked"} => page[u] # page[t]
    /\ \A t \in Threads :
        flush_page[t] # NoPage \/ pc[t] \in {"flush", "create_flush"} => flush_data[t] # Absent

(* A frame of the free list was never used.                                *)
FreeUnused == \A f \in free_frames : page_id[f] = NoPage /\ pin_count[f] = 0

(* No thread is between the two halves of unpinning a frame.               *)
NoAdding == \A t \in Threads : pc[t] # "adding"

(* Every step keeps fresh pages private.                                   *)
LEMMA FreshStep ==
    ASSUME TypeOK, LocalsOK, FreshPages, [Next]_vars
    PROVE  FreshPages'
<1> USE PagesAssumption, FramesAssumption, ValuesAssumption DEF TypeOK, LocalsOK,
        FreshPages, Data
<1> USE DEF Phases, PinningPhases, FetchPhases, Goto, Start, Return, Fault,
            table, pins, latch, channels, call, pending, panics
<1>1. ASSUME NEW t \in Threads, NEW p \in Pages, NEW m \in {"read", "write"}, FetchHit(t, p, m)
      PROVE  FreshPages'
  BY <1>1 DEF FetchHit
<1>2. ASSUME NEW t \in Threads, NEW p \in Pages, NEW m \in {"read", "write"}, NEW f \in Frames,
             FetchMiss(t, p, m, f)
      PROVE  FreshPages'
  <2>1. /\ disk' = disk /\ latest' = latest
        /\ page_table' = Remap(p, f)
        /\ page' = [page EXCEPT ![t] = p]
        /\ pc' = [pc EXCEPT ![t] = "check_flush"]
        /\ latest[p] # Absent
        /\ disk[p] # Absent
    BY <1>2 DEF FetchMiss, Claim
  <2>2. (\A q \in Pages : disk[q] = Absent => page_table[q] = NoFrame /\ latest[q] = Absent)'
    BY <2>1 DEF Remap
  <2>3. (\A u \in Threads : pc[u] \notin {"idle", "panicked"} => disk[page[u]] # Absent)'
    BY <2>1
  <2>4. (\A u \in Threads :
           pc[u] = "place" => page_table[page[u]] = NoFrame /\ latest[page[u]] = Absent)'
    BY <2>1 DEF Remap
  <2>5. (\A u, w \in Threads :
           pc[u] = "place" /\ u # w /\ pc[w] \notin {"idle", "panicked"} => page[w] # page[u])'
    BY <2>1
  <2>6. (\A u \in Threads :
           flush_page[u] # NoPage \/ pc[u] \in {"flush", "create_flush"}
           => flush_data[u] # Absent)'
    BY <1>2 DEF FetchMiss, Claim
  <2> QED
    BY <2>2, <2>3, <2>4, <2>5, <2>6
<1>3. ASSUME NEW t \in Threads, NEW p \in Pages, FetchFull(t, p)
      PROVE  FreshPages'
  BY <1>3 DEF FetchFull
<1>4. ASSUME NEW t \in Threads, NEW p \in Pages, AllocatePage(t, p)
      PROVE  FreshPages'
  BY <1>4 DEF AllocatePage
<1>5. ASSUME NEW t \in Threads, AllocatePageFails(t)
      PROVE  FreshPages'
  BY <1>5 DEF AllocatePageFails
<1>6. ASSUME NEW t \in Threads, FetchPanics(t)
      PROVE  FreshPages'
  BY <1>6 DEF FetchPanics
<1>7. ASSUME NEW t \in Threads, NEW v \in Values, Write(t, v)
      PROVE  FreshPages'
  BY <1>7 DEF Write
<1>8. ASSUME NEW t \in Threads, CheckFetch(t)
      PROVE  FreshPages'
  BY <1>8 DEF CheckFetch
<1>9. ASSUME NEW t \in Threads, FetchArrived(t)
      PROVE  FreshPages'
  BY <1>9 DEF FetchArrived
<1>10. ASSUME NEW t \in Threads, FetchClosed(t)
      PROVE  FreshPages'
  BY <1>10 DEF FetchClosed, Unpin
<1>11. ASSUME NEW t \in Threads, CheckFlush(t)
      PROVE  FreshPages'
  BY <1>11 DEF CheckFlush
<1>12. ASSUME NEW t \in Threads, FlushArrived(t)
      PROVE  FreshPages'
  BY <1>12 DEF FlushArrived
<1>13. ASSUME NEW t \in Threads, FlushClosed(t)
      PROVE  FreshPages'
  BY <1>13 DEF FlushClosed
<1>14. ASSUME NEW t \in Threads, ReadPage(t)
      PROVE  FreshPages'
  BY <1>14 DEF ReadPage
<1>15. ASSUME NEW t \in Threads, ReadPageFails(t)
      PROVE  FreshPages'
  BY <1>15 DEF ReadPageFails
<1>16. ASSUME NEW t \in Threads, Load(t)
      PROVE  FreshPages'
  BY <1>16 DEF Load
<1>17. ASSUME NEW t \in Threads, Flush(t)
      PROVE  FreshPages'
  BY <1>17 DEF Flush
<1>18. ASSUME NEW t \in Threads, FlushFails(t)
      PROVE  FreshPages'
  BY <1>18 DEF FlushFails
<1>19. ASSUME NEW t \in Threads, Notify(t)
      PROVE  FreshPages'
  <2>1. UNCHANGED <<disk, page_table, latest>>
    BY <1>19 DEF Notify
  <2>2. \A u \in Threads :
          pc'[u] \notin {"idle", "panicked"} =>
              page'[u] = page[u] /\ pc[u] \notin {"idle", "panicked"}
    BY <1>19 DEF Notify
  <2>3. \A u \in Threads : pc'[u] = "place" => pc[u] = "place"
    BY <1>19 DEF Notify
  <2>4. \A u \in Threads :
          flush_page'[u] # NoPage \/ pc'[u] \in {"flush", "create_flush"}
              => flush_data'[u] # Absent
    BY <1>19 DEF Notify
  <2> QED
    BY <2>1, <2>2, <2>3, <2>4
<1>20. ASSUME NEW t \in Threads, NEW f \in Frames, Place(t, f)
      PROVE  FreshPages'
  BY <1>20 DEF Place, Claim, Remap, MustFlush, Available
<1>21. ASSUME NEW t \in Threads, PlacePanics(t)
      PROVE  FreshPages'
  BY <1>21 DEF PlacePanics
<1>22. ASSUME NEW t \in Threads, CreateFlush(t)
      PROVE  FreshPages'
  BY <1>22 DEF CreateFlush
<1>23. ASSUME NEW t \in Threads, CreateFlushFails(t)
      PROVE  FreshPages'
  BY <1>23 DEF CreateFlushFails
<1>24. ASSUME NEW t \in Threads, CreateNotify(t)
      PROVE  FreshPages'
  BY <1>24 DEF CreateNotify
<1>25. ASSUME NEW t \in Threads, Latch(t)
      PROVE  FreshPages'
  BY <1>25 DEF Latch
<1>26. ASSUME NEW t \in Threads, Drop(t)
      PROVE  FreshPages'
  BY <1>26 DEF Drop, Unpin
<1>27. ASSUME NEW t \in Threads, AddToEvictor(t)
      PROVE  FreshPages'
  BY <1>27 DEF AddToEvictor
<1>28. ASSUME NEW t \in Threads, Unlatch(t)
      PROVE  FreshPages'
  BY <1>28 DEF Unlatch
<1>29. ASSUME NEW t \in Threads, Panic(t)
      PROVE  FreshPages'
  BY <1>29 DEF Panic, LockingPhases
<1>30. CASE UNCHANGED vars
  BY <1>30 DEF vars
<1> HIDE DEF TypeOK, LocalsOK, FreshPages
<1> QED
    BY <1>1, <1>2, <1>3, <1>4, <1>5, <1>6, <1>7, <1>8, <1>9, <1>10, <1>11, <1>12, <1>13,
     <1>14, <1>15, <1>16, <1>17, <1>18, <1>19, <1>20, <1>21, <1>22, <1>23, <1>24, <1>25,
     <1>26, <1>27, <1>28, <1>29, <1>30 DEF Next, Client, Proceed, Quiescent

(* Every step keeps the page table and the frames inverse to each other:   *)
(* taking a frame does, since its new page is in no other frame.           *)
LEMMA TableStep ==
    ASSUME TypeOK, LocalsOK, FreshPages, TableConsistent, [Next]_vars
    PROVE  TableConsistent'
<1> USE PagesAssumption, FramesAssumption DEF TypeOK, LocalsOK, TableConsistent
<1> USE DEF Phases, PinningPhases, FetchPhases, Goto, Start, Return, Fault,
            table, pins, latch, channels, call, pending, panics
<1>1. ASSUME NEW t \in Threads, NEW p \in Pages, NEW m \in {"read", "write"},
             FetchHit(t, p, m)
      PROVE  TableConsistent'
  BY <1>1 DEF FetchHit
<1>2. ASSUME NEW t \in Threads, NEW p \in Pages, NEW m \in {"read", "write"}, NEW f \in Frames,
             FetchMiss(t, p, m, f)
      PROVE  TableConsistent'
  BY <1>2 DEF FetchMiss, Claim, Remap
<1>3. ASSUME NEW t \in Threads, NEW f \in Frames, Place(t, f)
      PROVE  TableConsistent'
  BY <1>3 DEF Place, Claim, Remap, FreshPages
<1>4. ASSUME NEW t \in Threads, FetchClosed(t)
      PROVE  TableConsistent'
  BY <1>4 DEF FetchClosed, Unpin
<1>5. ASSUME NEW t \in Threads, Drop(t)
      PROVE  TableConsistent'
  BY <1>5 DEF Drop, Unpin
<1>6. ASSUME NEW t \in Threads, AddToEvictor(t)
      PROVE  TableConsistent'
  BY <1>6 DEF AddToEvictor
<1>7. CASE Quiet
  BY <1>7 DEF Quiet
<1> QED
  BY <1>1, <1>2, <1>3, <1>4, <1>5, <1>6, <1>7, QuietOrNot

(* Every step leaves the free frames unused: a hit pins a frame that holds *)
(* a page.                                                                 *)
LEMMA FreeStep ==
    ASSUME TypeOK, LocalsOK, PinsCoverHolders, TableConsistent, FreeUnused, [Next]_vars
    PROVE  FreeUnused'
<1> USE PagesAssumption, FramesAssumption DEF TypeOK, TableConsistent, FreeUnused
<1> USE DEF Phases, PinningPhases, FetchPhases, Goto, Start, Return, Fault,
            table, pins, latch, channels, call, pending, panics
<1>1. ASSUME NEW t \in Threads, NEW p \in Pages, NEW m \in {"read", "write"},
             FetchHit(t, p, m)
      PROVE  FreeUnused'
  BY <1>1 DEF FetchHit
<1>2. ASSUME NEW t \in Threads, NEW p \in Pages, NEW m \in {"read", "write"}, NEW f \in Frames,
             FetchMiss(t, p, m, f)
      PROVE  FreeUnused'
  BY <1>2 DEF FetchMiss, Claim, PinCountAfterClaim
<1>3. ASSUME NEW t \in Threads, NEW f \in Frames, Place(t, f)
      PROVE  FreeUnused'
  BY <1>3 DEF Place, Claim, PinCountAfterClaim
<1>4. ASSUME NEW t \in Threads, FetchClosed(t)
      PROVE  FreeUnused'
  BY <1>4, HolderPinned DEF FetchClosed, Unpin
<1>5. ASSUME NEW t \in Threads, Drop(t)
      PROVE  FreeUnused'
  BY <1>5, HolderPinned DEF Drop, Unpin
<1>6. ASSUME NEW t \in Threads, AddToEvictor(t)
      PROVE  FreeUnused'
  BY <1>6 DEF AddToEvictor
<1>7. CASE Quiet
  BY <1>7 DEF Quiet
<1> QED
  BY <1>1, <1>2, <1>3, <1>4, <1>5, <1>6, <1>7, QuietOrNot

(* Every step keeps every frame usable: the thread that gives the last pin *)
(* back makes the frame evictable, or is about to.                         *)
LEMMA LostStep ==
    ASSUME TypeOK, LocalsOK, PinsCoverHolders, NoFrameLost, [Next]_vars
    PROVE  NoFrameLost'
<1> USE FramesAssumption, BoundsAssumption DEF TypeOK, LocalsOK, NoFrameLost
<1> USE DEF Phases, PinningPhases, FetchPhases, Goto, Start, Return, Fault,
            table, pins, latch, channels, call, pending, panics
<1>1. ASSUME NEW t \in Threads, NEW p \in Pages, NEW m \in {"read", "write"},
             FetchHit(t, p, m)
      PROVE  NoFrameLost'
  BY <1>1 DEF FetchHit, EvictableAfterPin
<1>2. ASSUME NEW t \in Threads, NEW p \in Pages, NEW m \in {"read", "write"}, NEW f \in Frames,
             FetchMiss(t, p, m, f)
      PROVE  NoFrameLost'
  BY <1>2 DEF FetchMiss, Claim, PinCountAfterClaim
<1>3. ASSUME NEW t \in Threads, NEW f \in Frames, Place(t, f)
      PROVE  NoFrameLost'
  BY <1>3 DEF Place, Claim, PinCountAfterClaim
<1>4. ASSUME NEW t \in Threads, FetchClosed(t)
      PROVE  NoFrameLost'
  <2>1. frame[t] \in Frames /\ pin_count[frame[t]] \in Nat /\ pin_count[frame[t]] > 0
    BY <1>4, HolderPinned DEF FetchClosed
  <2>2. CASE pin_count[frame[t]] = 1
    BY <1>4, <2>1, <2>2 DEF FetchClosed, Unpin, LastPin
  <2>3. CASE pin_count[frame[t]] # 1
    BY <1>4, <2>1, <2>3 DEF FetchClosed, Unpin, LastPin
  <2> QED
    BY <2>2, <2>3
<1>5. ASSUME NEW t \in Threads, Drop(t)
      PROVE  NoFrameLost'
  <2>1. frame[t] \in Frames /\ pin_count[frame[t]] \in Nat /\ pin_count[frame[t]] > 0
    BY <1>5, HolderPinned DEF Drop
  <2>2. CASE pin_count[frame[t]] = 1
    BY <1>5, <2>1, <2>2 DEF Drop, Unpin, LastPin
  <2>3. CASE pin_count[frame[t]] # 1
    BY <1>5, <2>1, <2>3 DEF Drop, Unpin, LastPin
  <2> QED
    BY <2>2, <2>3
<1>6. ASSUME NEW t \in Threads, AddToEvictor(t)
      PROVE  NoFrameLost'
  BY <1>6 DEF AddToEvictor
<1>7. CASE Quiet
  BY <1>7 DEF Quiet
<1> QED
  BY <1>1, <1>2, <1>3, <1>4, <1>5, <1>6, <1>7, QuietOrNot

(* Without preemption, both halves of unpinning are one step.              *)
LEMMA AddingStep ==
    ASSUME ~Preemptive, TypeOK, NoAdding, [Next]_vars
    PROVE  NoAdding'
<1> USE DEF TypeOK, NoAdding
<1> USE DEF Phases, PinningPhases, FetchPhases, Goto, Start, Return, Fault,
            table, pins, latch, channels, call, pending, panics
<1>1. ASSUME NEW t \in Threads, NEW p \in Pages, NEW m \in {"read", "write"},
             FetchHit(t, p, m)
      PROVE  NoAdding'
  BY <1>1 DEF FetchHit
<1>2. ASSUME NEW t \in Threads, NEW p \in Pages, NEW m \in {"read", "write"}, NEW f \in Frames,
             FetchMiss(t, p, m, f)
      PROVE  NoAdding'
  BY <1>2 DEF FetchMiss, Claim
<1>3. ASSUME NEW t \in Threads, NEW f \in Frames, Place(t, f)
      PROVE  NoAdding'
  BY <1>3 DEF Place, Claim
<1>4. ASSUME NEW t \in Threads, FetchClosed(t)
      PROVE  NoAdding'
  BY <1>4 DEF FetchClosed, Unpin
<1>5. ASSUME NEW t \in Threads, Drop(t)
      PROVE  NoAdding'
  BY <1>5 DEF Drop, Unpin
<1>6. ASSUME NEW t \in Threads, AddToEvictor(t)
      PROVE  NoAdding'
  BY <1>6 DEF AddToEvictor
<1>7. CASE Quiet
  BY <1>7 DEF Quiet
<1> QED
  BY <1>1, <1>2, <1>3, <1>4, <1>5, <1>6, <1>7, QuietOrNot

(* Without preemption, no step makes a pinned frame evictable.             *)
LEMMA EvictableStep ==
    ASSUME ~Preemptive, TypeOK, LocalsOK, PinsCoverHolders, NoAdding, PinnedNotEvictable,
           [Next]_vars
    PROVE  PinnedNotEvictable'
<1> USE FramesAssumption DEF TypeOK, LocalsOK, NoAdding, PinnedNotEvictable
<1> USE DEF Phases, PinningPhases, FetchPhases, Goto, Start, Return, Fault,
            table, pins, latch, channels, call, pending, panics
<1>1. ASSUME NEW t \in Threads, NEW p \in Pages, NEW m \in {"read", "write"},
             FetchHit(t, p, m)
      PROVE  PinnedNotEvictable'
  BY <1>1 DEF FetchHit, EvictableAfterPin
<1>2. ASSUME NEW t \in Threads, NEW p \in Pages, NEW m \in {"read", "write"}, NEW f \in Frames,
             FetchMiss(t, p, m, f)
      PROVE  PinnedNotEvictable'
  BY <1>2 DEF FetchMiss, Claim, PinCountAfterClaim
<1>3. ASSUME NEW t \in Threads, NEW f \in Frames, Place(t, f)
      PROVE  PinnedNotEvictable'
  BY <1>3 DEF Place, Claim, PinCountAfterClaim
<1>4. ASSUME NEW t \in Threads, FetchClosed(t)
      PROVE  PinnedNotEvictable'
  BY <1>4, HolderPinned DEF FetchClosed, Unpin, LastPin
<1>5. ASSUME NEW t \in Threads, Drop(t)
      PROVE  PinnedNotEvictable'
  BY <1>5, HolderPinned DEF Drop, Unpin, LastPin
<1>6. ASSUME NEW t \in Threads, AddToEvictor(t)
      PROVE  PinnedNotEvictable'
  BY <1>6 DEF AddToEvictor
<1>7. CASE Quiet
  BY <1>7 DEF Quiet
<1> QED
  BY <1>1, <1>2, <1>3, <1>4, <1>5, <1>6, <1>7, QuietOrNot

(* Without preemption, a frame that can be taken for another page is not   *)
(* held by anybody.                                                        *)
LEMMA AvailableUnheld ==
    ASSUME TypeOK, LocalsOK, PinsCoverHolders, FreeUnused, PinnedNotEvictable,
           NEW f \in Available, NEW u \in Threads, pc[u] \in PinningPhases
    PROVE  frame[u] # f
  BY HolderPinned DEF TypeOK, Available, FreeUnused, PinnedNotEvictable

(* Hence no step takes a frame from a thread that holds it.                *)
LEMMA ResidentStep ==
    ASSUME TypeOK, LocalsOK, PinsCoverHolders, FreshPages, TableConsistent, FreeUnused,
           PinnedNotEvictable, PinnedResident, [Next]_vars
    PROVE  PinnedResident'
<1> USE PagesAssumption, FramesAssumption DEF TypeOK, LocalsOK, PinnedResident
<1> USE DEF Phases, PinningPhases, FetchPhases, Goto, Start, Return, Fault,
            table, pins, latch, channels, call, pending, panics
<1>1. ASSUME NEW t \in Threads, NEW p \in Pages, NEW m \in {"read", "write"},
             FetchHit(t, p, m)
      PROVE  PinnedResident'
  BY <1>1 DEF FetchHit, TableConsistent
<1>2. ASSUME NEW t \in Threads, NEW p \in Pages, NEW m \in {"read", "write"}, NEW f \in Frames,
             FetchMiss(t, p, m, f)
      PROVE  PinnedResident'
  BY <1>2, AvailableUnheld DEF FetchMiss, Claim
<1>3. ASSUME NEW t \in Threads, NEW f \in Frames, Place(t, f)
      PROVE  PinnedResident'
  BY <1>3, AvailableUnheld DEF Place, Claim
<1>4. ASSUME NEW t \in Threads, FetchClosed(t)
      PROVE  PinnedResident'
  BY <1>4 DEF FetchClosed, Unpin
<1>5. ASSUME NEW t \in Threads, Drop(t)
      PROVE  PinnedResident'
  BY <1>5 DEF Drop, Unpin
<1>6. ASSUME NEW t \in Threads, AddToEvictor(t)
      PROVE  PinnedResident'
  BY <1>6 DEF AddToEvictor
<1>7. CASE Quiet
  BY <1>7 DEF Quiet
<1> QED
  BY <1>1, <1>2, <1>3, <1>4, <1>5, <1>6, <1>7, QuietOrNot

(* The inductive invariant, whatever the scheduler and the disk do.        *)
PoolInv ==
    /\ TypeOK
    /\ LocalsOK
    /\ PinsCoverHolders
    /\ FreshPages
    /\ TableConsistent
    /\ FreeUnused
    /\ NoFrameLost

(* The inductive invariant holds in every state of every execution of the  *)
(* pool, for any number of threads, frames and pages, under preemption and *)
(* disk faults.                                                            *)
THEOREM PoolSafe == Spec => []PoolInv
<1>1. Init => PoolInv
  <2> SUFFICES ASSUME Init PROVE PoolInv
    OBVIOUS
  <2>1. TypeOK
    <3>1. /\ disk \in [Pages -> Data \cup {Absent}]
          /\ latest \in [Pages -> Values \cup {Absent, Unwritten}]
      BY ValuesAssumption DEF Init, Data
    <3>2. ops \in 0 .. MaxOps /\ faults \in 0 .. MaxFaults
      BY BoundsAssumption DEF Init
    <3> QED
      BY <3>1, <3>2 DEF Init, TypeOK, Data, Phases
  <2>2. PinsCoverHolders
    <3> SUFFICES ASSUME NEW f \in Frames PROVE Cardinality(Holders(f)) <= pin_count[f]
      BY DEF PinsCoverHolders
    <3>1. Holders(f) = {}
      BY DEF Init, Holders, PinningPhases, FetchPhases
    <3> QED
      BY <3>1, FS_EmptySet DEF Init
  <2>3. LocalsOK /\ FreshPages /\ FreeUnused /\ NoFrameLost
    BY PagesAssumption, ValuesAssumption
    DEF Init, LocalsOK, FreshPages, FreeUnused, NoFrameLost, PinningPhases, FetchPhases
  <2>4. TableConsistent
    BY PagesAssumption, FramesAssumption DEF Init, TableConsistent
  <2> QED
    BY <2>1, <2>2, <2>3, <2>4 DEF PoolInv
<1>2. PoolInv /\ [Next]_vars => PoolInv'
  BY TypeStep, LocalsStep, PinsStep, FreshStep, TableStep, FreeStep, LostStep DEF PoolInv
<1> QED
  BY <1>1, <1>2, PTL DEF Spec

(* The variables of the pool have their types; in particular no pin count  *)
(* (an unsigned number in frame.rs) ever underflows.                       *)
THEOREM TypeCorrect == Spec => []TypeOK
  BY PoolSafe, PTL DEF PoolInv

(* page_table and the page IDs of the frames stay inverse to each other    *)
(* through every hit, eviction, creation and failure.                      *)
THEOREM TableAlwaysConsistent == Spec => []TableConsistent
  BY PoolSafe, PTL DEF PoolInv

(* The pin count of a frame covers every guard of it and every call that   *)
(* works on it.                                                            *)
THEOREM PinsAlwaysCoverHolders == Spec => []PinsCoverHolders
  BY PoolSafe, PTL DEF PoolInv

(* No frame is lost to the pool: one that nobody has pinned is free or     *)
(* evictable, or a thread is about to hand it to the evictor.              *)
THEOREM NoFrameEverLost == Spec => []NoFrameLost
  BY PoolSafe, PTL DEF PoolInv

(* What holds on top of that when unpinning is not interrupted.            *)
UninterruptedInv == NoAdding /\ PinnedNotEvictable /\ PinnedResident

(* If a thread is not preempted between the two halves of unpin_frame or   *)
(* of a guard's drop, the strengthened invariant holds.                    *)
THEOREM UninterruptedSafe ==
    ASSUME ~Preemptive
    PROVE  Spec => []UninterruptedInv
<1>1. Init => UninterruptedInv
  BY DEF Init, UninterruptedInv, NoAdding, PinnedNotEvictable, PinnedResident, PinningPhases,
    FetchPhases
<1>2. PoolInv /\ UninterruptedInv /\ [Next]_vars => UninterruptedInv'
  BY AddingStep, EvictableStep, ResidentStep DEF PoolInv, UninterruptedInv
<1> QED
  BY <1>1, <1>2, PoolSafe, PTL DEF Spec

(* The contract of pin_frame and unpin_frame holds if unpinning is not     *)
(* interrupted: a pinned frame is not eligible for eviction.               *)
THEOREM PinnedNeverEvictable ==
    ASSUME ~Preemptive
    PROVE  Spec => []PinnedNotEvictable
  BY UninterruptedSafe, PTL DEF UninterruptedInv

(* Hence a page that is being fetched or that has a guard stays in the     *)
(* frame its holder was given: it is never evicted under it.               *)
THEOREM PinnedStaysResident ==
    ASSUME ~Preemptive
    PROVE  Spec => []PinnedResident
  BY UninterruptedSafe, PTL DEF UninterruptedInv
=============================================================================
