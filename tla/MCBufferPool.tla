----------------------------- MODULE MCBufferPool -----------------------------
(***************************************************************************)
(* Model-checking instances of BufferPool.  Threads and frames are         *)
(* interchangeable; symmetry is used where no temporal property is checked.*)
(***************************************************************************)
EXTENDS BufferPool, TLC

CONSTANTS t1, t2, t3, t4, f1, f2, p1, p2, p3, v1, v2

TwoThreads == {t1, t2}
ThreeThreads == {t1, t2, t3}
FourThreads == {t1, t2, t3, t4}
OneFrame == {f1}
TwoFrames == {f1, f2}
TwoPages == {p1, p2}
ThreePages == {p1, p2, p3}
TwoValues == {v1, v2}

Symmetry == Permutations(Threads) \cup Permutations(Frames) \cup Permutations(Existing)

-----------------------------------------------------------------------------
(* A state the unpin race leads to, in which a page was evicted while it   *)
(* was being loaded.  It is reached by: t1 writes v2 to p1 in f1 and drops *)
(* its guard; t1 reads p2 in f2, drops its guard and is preempted before   *)
(* it tells the evictor; t3 reads p2, drops its guard and is preempted     *)
(* too; t2 pins p2 for writing and waits for the latch; t3 tells the       *)
(* evictor, returns and fetches p3, which evicts p1; t4 fetches p1, which  *)
(* evicts p2 from the frame that t2 has pinned; t1 tells the evictor,      *)
(* returns, fetches p1 and waits for t4; t2 gets the latch, writes v1 and  *)
(* drops its guard; t3 loads p3 and writes the old p1 to disk; t4 waits    *)
(* for this flush; t2 fetches p2 again, which evicts p1 from f2.           *)
RaceState ==
    /\ page_table = [p \in Pages |-> IF p = p3 THEN f1 ELSE IF p = p2 THEN f2 ELSE NoFrame]
    /\ free_frames = {}
    /\ page_id = [f \in Frames |-> IF f = f1 THEN p3 ELSE p2]
    /\ pin_count = [f \in Frames |-> IF f = f1 THEN 1 ELSE 3]
    /\ evictable = {}
    /\ is_dirty = [f \in Frames |-> FALSE]
    /\ data = [f \in Frames |-> v1]
    /\ writer = [f \in Frames |-> IF f = f1 THEN t3 ELSE NoThread]
    /\ readers = [f \in Frames |-> {}]
    /\ fetches = [p \in Pages |-> IF p = p1 THEN t4 ELSE IF p = p2 THEN t2 ELSE NoThread]
    /\ flushes = [p \in Pages |-> IF p = p1 THEN t2 ELSE NoThread]
    /\ sub = [t \in Threads |-> IF t = t1 THEN t4 ELSE IF t = t4 THEN t3 ELSE NoThread]
    /\ page = [t \in Threads |-> IF t = t2 THEN p2 ELSE IF t = t3 THEN p3 ELSE p1]
    /\ frame = [t \in Threads |-> IF t = t3 THEN f1 ELSE f2]
    /\ mode = [t \in Threads |-> IF t = t2 THEN "write" ELSE "read"]
    /\ flush_page = [t \in Threads |-> IF t \in {t2, t3} THEN p1 ELSE NoPage]
    /\ flush_data = [t \in Threads |-> IF t = t2 THEN v1 ELSE IF t = t3 THEN v2 ELSE Absent]
    /\ read_buffer = [t \in Threads |-> IF t = t3 THEN v1 ELSE Zero]
    /\ poisoned = FALSE
    /\ latch_poisoned = {}
    /\ disk = [p \in Pages |-> IF p = p1 THEN v2 ELSE v1]
    /\ pc = [t \in Threads |-> CASE t = t1 -> "wait_fetch"
                                 [] t = t2 -> "check_flush"
                                 [] t = t3 -> "notify"
                                 [] t = t4 -> "wait_flush"]
    /\ faults = 0
    /\ latest = [p \in Pages |-> IF p = p1 THEN v2 ELSE v1]

(* The race happens in the middle of a run: calls are still to come. *)
RaceInit == RaceState /\ ops = MaxOps - 2

PreemptedSpec == (Init \/ RaceInit) /\ [][Next]_vars
=============================================================================
