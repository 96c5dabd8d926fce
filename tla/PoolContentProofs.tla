--------------------------- MODULE PoolContentProofs ---------------------------
(***************************************************************************)
(* The content of the pages, for any threads, frames and pages, as long as *)
(* unpinning is not interrupted.                                           *)
(*                                                                         *)
(* ChannelInv relates the map of in-flight processing to the page table    *)
(* and to the threads: a page that is being read stays in its frame, a     *)
(* page that is being written to disk is in no frame that was loaded.  It  *)
(* holds through failed calls, which leave their channels in the map.      *)
(* ContentInv says where the content of a page is: in its frame if the     *)
(* frame is dirty, with the call that evicted it, or on disk.  LatchInv is *)
(* the exclusion of writers.  Together they give the properties of the     *)
(* content and the refinement of PageStore.                                *)
(***************************************************************************)
EXTENDS BufferPoolProofs

-----------------------------------------------------------------------------
(* The map of in-flight processing *)

(* The phases in which the page of a call is in its frame. *)
LoadedPhases == {"flush", "notify", "notify_failed", "create_flush", "create_notify",
                 "latch", "using"}
FlushPhases == {"flush", "notify", "notify_failed", "create_flush", "create_notify"}

(* A fetch channel belongs to the thread that reads the page, and keeps    *)
(* the frame pinned, also after a failed read has left it behind.          *)
FetchChannels ==
    /\ \A t \in Threads : pc[t] \in FetchPhases => fetches[page[t]] = t
    /\ \A p \in Pages : fetches[p] # NoThread =>
        page_table[p] # NoFrame /\ pin_count[page_table[p]] > 0

(* A caller that has waited for a fetch finds it done, and one that waits  *)
(* waits for the channel in the map.                                       *)
FetchWaits ==
    \A t \in Threads :
        /\ pc[t] \in LoadedPhases => fetches[page[t]] = NoThread
        /\ pc[t] = "wait_fetch" => sub[t] = fetches[page[t]]

(* A flush channel belongs to the thread that evicted the page; a page     *)
(* that has one is in no frame, or in one that is not loaded yet.          *)
FlushChannels ==
    /\ \A t \in Threads : flush_page[t] # NoPage => flushes[flush_page[t]] = t
    /\ \A t \in Threads : flush_page[t] # NoPage =>
        pc[t] \in FetchPhases \cup FlushPhases \cup {"panicked"}
    /\ \A t \in Threads : pc[t] \in FlushPhases => flush_page[t] # NoPage
    /\ \A p \in Pages : flushes[p] # NoThread =>
        /\ disk[p] # Absent
        /\ page_table[p] # NoFrame => fetches[p] # NoThread
    /\ \A t \in Threads : pc[t] = "place" => flushes[page[t]] = NoThread

(* A caller that reads a page has waited for its flush. *)
FlushWaits ==
    \A t \in Threads :
        /\ pc[t] \in {"read", "load"} => flushes[page[t]] = NoThread
        /\ pc[t] = "wait_flush" => sub[t] = flushes[page[t]]

(* A frame that was ever used holds a page. *)
UsedFrames == \A f \in Frames : f \notin free_frames => page_id[f] # NoPage

ChannelInv == UsedFrames /\ FetchChannels /\ FetchWaits /\ FlushChannels /\ FlushWaits

(* Without faults and panics, a channel belongs to a call in progress. *)
NothingLeft ==
    /\ poisoned \/ latch_poisoned = {}
    /\ ~poisoned /\ faults = 0 =>
        \A p \in Pages, t \in Threads :
            /\ fetches[p] = t => page[t] = p /\ pc[t] \in FetchPhases
            /\ flushes[p] = t => flush_page[t] = p

-----------------------------------------------------------------------------
(* Where the content is *)

(* The frame that holds a page has been loaded with it. *)
Loaded(f) == page_id[f] # NoPage /\ fetches[page_id[f]] = NoThread

(* A frame that is being loaded is clean; a loaded one that is dirty holds *)
(* the last write, and a clean one what is on disk (a page that was        *)
(* created and not written yet is neither).                                *)
FramesHold ==
    \A f \in Frames :
        /\ page_id[f] # NoPage /\ ~Loaded(f) => ~is_dirty[f]
        /\ Loaded(f) /\ latest[page_id[f]] \in Values =>
            data[f] = IF is_dirty[f] THEN latest[page_id[f]] ELSE disk[page_id[f]]

(* A call that has evicted a page carries the last write to it, until it   *)
(* is on disk; a call that has read a page has what is on disk.            *)
CallsCarry ==
    \A t \in Threads :
        /\ flush_page[t] # NoPage /\ latest[flush_page[t]] \in Values =>
            flush_data[t] = latest[flush_page[t]]
        /\ pc[t] \in {"notify", "create_notify"} => disk[flush_page[t]] = flush_data[t]
        /\ pc[t] = "load" => read_buffer[t] = disk[page[t]]

ContentInv == FramesHold /\ CallsCarry

(* A write guard and a reload exclude everybody, a read guard writers; a   *)
(* page that nobody was given yet has its creator's write guard next.      *)
LatchInv ==
    /\ \A f \in Frames : writer[f] # NoThread => readers[f] = {}
    /\ \A t \in Threads :
        /\ pc[t] = "using" /\ mode[t] = "write" => writer[frame[t]] = t
        /\ pc[t] = "using" /\ mode[t] = "read" => t \in readers[frame[t]]
        /\ pc[t] \in {"flush", "notify", "notify_failed"} => writer[frame[t]] = t
        /\ pc[t] \notin {"idle", "panicked"} /\ latest[page[t]] = Absent => mode[t] = "write"
        /\ pc[t] = "using" => latest[page[t]] # Absent

-----------------------------------------------------------------------------
(* The channels *)

(* Without preemption, no channel is closed while somebody waits for it,   *)
(* and no thread is between the two halves of unpinning.                   *)
LEMMA NeverClosed ==
    ASSUME FetchWaits, FlushWaits, NoAdding, NEW t \in Threads
    PROVE  ~FetchClosed(t) /\ ~FlushClosed(t) /\ ~AddToEvictor(t)
  BY DEF FetchWaits, FlushWaits, NoAdding, FetchClosed, FlushClosed, AddToEvictor

(* A frame that is taken for another page is nobody's; its page is loaded  *)
(* and not being written to disk.                                          *)
LEMMA ClaimedIdle ==
    ASSUME PoolInv, UninterruptedInv, ChannelInv, NEW f \in Frames, f \in Available
    PROVE  /\ pin_count[f] = 0
           /\ \A u \in Threads : pc[u] \in PinningPhases => frame[u] # f /\ page[u] # page_id[f]
           /\ page_id[f] # NoPage => /\ fetches[page_id[f]] = NoThread
                                     /\ flushes[page_id[f]] = NoThread
                                     /\ page_table[page_id[f]] = f
<1>1. pin_count[f] = 0
  BY DEF PoolInv, UninterruptedInv, TypeOK, Available, FreeUnused, PinnedNotEvictable
<1>2. \A u \in Threads : pc[u] \in PinningPhases => frame[u] # f
  BY AvailableUnheld DEF PoolInv, UninterruptedInv
<1>3. \A u \in Threads : pc[u] \in PinningPhases => page[u] # page_id[f]
  BY <1>2 DEF PoolInv, UninterruptedInv, PinnedResident, TableConsistent, LocalsOK, PinningPhases,
                FetchPhases
<1>4. ASSUME page_id[f] # NoPage
      PROVE  /\ fetches[page_id[f]] = NoThread
             /\ flushes[page_id[f]] = NoThread
             /\ page_table[page_id[f]] = f
  <2>1. page_id[f] \in Pages /\ page_table[page_id[f]] = f
    BY <1>4 DEF PoolInv, TypeOK, TableConsistent
  <2>2. fetches[page_id[f]] = NoThread
    BY <1>1, <2>1 DEF ChannelInv, FetchChannels
  <2> QED
    BY <2>1, <2>2, FramesAssumption DEF ChannelInv, FlushChannels
<1> QED
  BY <1>1, <1>2, <1>3, <1>4

(* What taking a frame does, and what it leaves alone.                     *)
LEMMA ClaimDoes ==
    ASSUME PoolInv, UninterruptedInv, ChannelInv, NEW t \in Threads, NEW p \in Pages,
           NEW f \in Frames, Claim(t, p, f), page_table[p] = NoFrame
    PROVE  /\ \A g \in Frames : /\ page_id'[g] = IF g = f THEN p ELSE page_id[g]
                                /\ pin_count'[g] = IF g = f THEN 1 ELSE pin_count[g]
           /\ \A q \in Pages : page_table'[q] = IF q = p THEN f
                                                ELSE IF page_table[q] = f THEN NoFrame
                                                ELSE page_table[q]
           /\ page_id[f] # p
           /\ f \in free_frames => page_id[f] = NoPage
           /\ MustFlush(f) => page_id[f] \in Pages
           /\ flush_page'[t] = IF MustFlush(f) THEN page_id[f] ELSE NoPage
           /\ flush_data'[t] = IF MustFlush(f) THEN data[f] ELSE Absent
           /\ \A q \in Pages : flushes'[q] = IF MustFlush(f) /\ q = page_id[f] THEN t ELSE flushes[q]
           /\ \A u \in Threads : u # t =>
                /\ flush_page'[u] = flush_page[u]
                /\ flush_data'[u] = flush_data[u]
                /\ frame'[u] = frame[u]
           /\ frame'[t] = f
<1> USE PagesAssumption, FramesAssumption DEF PoolInv, TypeOK, TableConsistent, Claim
<1>1. pin_count[f] = 0
  BY ClaimedIdle
<1>2. /\ f \in free_frames => page_id[f] = NoPage
      /\ MustFlush(f) => page_id[f] \in Pages
      /\ page_id[f] # p
  BY DEF ChannelInv, UsedFrames, MustFlush, FreeUnused
<1>3. \A g \in Frames : /\ page_id'[g] = IF g = f THEN p ELSE page_id[g]
                        /\ pin_count'[g] = IF g = f THEN 1 ELSE pin_count[g]
  BY <1>1 DEF PinCountAfterClaim
<1>4. \A q \in Pages : page_table'[q] = IF q = p THEN f
                                        ELSE IF page_table[q] = f THEN NoFrame
                                        ELSE page_table[q]
  BY DEF Remap
<1>5. \A q \in Pages : flushes'[q] = IF MustFlush(f) /\ q = page_id[f] THEN t ELSE flushes[q]
  BY <1>2 DEF FlushesAfterClaim
<1> QED
  BY <1>2, <1>3, <1>4, <1>5

(* Every step keeps the channels right.                                    *)
LEMMA ChannelStep ==
    ASSUME ~Preemptive, PoolInv, UninterruptedInv, ChannelInv, [Next]_vars
    PROVE  ChannelInv'
<1> USE PagesAssumption, FramesAssumption, ThreadsAssumption
    DEF PoolInv, UninterruptedInv, ChannelInv, TypeOK, LocalsOK, FreshPages, TableConsistent,
        PinnedResident, UsedFrames, FetchChannels, FetchWaits, FlushChannels, FlushWaits
<1> USE DEF Phases, PinningPhases, FetchPhases, LoadedPhases, FlushPhases, Goto, Start, Return,
            Fault, table, pins, latch, channels, call, pending, panics
<1>1. ASSUME NEW t \in Threads, NEW p \in Pages, NEW m \in {"read", "write"}, FetchHit(t, p, m)
      PROVE  ChannelInv'
  BY <1>1 DEF FetchHit, EvictableAfterPin
<1>2. ASSUME NEW t \in Threads, NEW p \in Pages, NEW m \in {"read", "write"}, NEW f \in Frames,
             FetchMiss(t, p, m, f)
      PROVE  ChannelInv'
  <2>1. f \in Available /\ Claim(t, p, f) /\ p \in Pages /\ page_table[p] = NoFrame
    BY <1>2 DEF FetchMiss, Claim
  <2>2. /\ \A g \in Frames : /\ page_id'[g] = IF g = f THEN p ELSE page_id[g]
                             /\ pin_count'[g] = IF g = f THEN 1 ELSE pin_count[g]
        /\ \A q \in Pages : page_table'[q] = IF q = p THEN f
                                             ELSE IF page_table[q] = f THEN NoFrame
                                             ELSE page_table[q]
        /\ page_id[f] # p
        /\ MustFlush(f) => page_id[f] \in Pages
        /\ flush_page'[t] = IF MustFlush(f) THEN page_id[f] ELSE NoPage
        /\ \A q \in Pages : flushes'[q] = IF MustFlush(f) /\ q = page_id[f] THEN t ELSE flushes[q]
        /\ \A u \in Threads : u # t => flush_page'[u] = flush_page[u]
    BY <2>1, ClaimDoes
  <2>3. /\ \A u \in Threads : pc[u] \in PinningPhases => page[u] # page_id[f]
        /\ page_id[f] # NoPage => /\ fetches[page_id[f]] = NoThread
                                  /\ flushes[page_id[f]] = NoThread
                                  /\ page_table[page_id[f]] = f
    BY <2>1, ClaimedIdle
  <2>4. \A u \in Threads : pc[u] \in PinningPhases => page[u] # p
    BY <2>1
  <2>5. /\ pc[t] = "idle" /\ pc' = [pc EXCEPT ![t] = "check_flush"]
        /\ page' = [page EXCEPT ![t] = p]
        /\ fetches' = [fetches EXCEPT ![p] = t]
        /\ free_frames' = free_frames \ {f}
        /\ sub' = sub /\ disk' = disk /\ latest[p] # Absent
    BY <1>2 DEF FetchMiss, Claim
  <2>6. UsedFrames'
    BY <2>2, <2>5
  <2>7. FetchChannels'
    <3>1. \A u \in Threads : pc'[u] \in FetchPhases => fetches'[page'[u]] = u
      BY <2>5, <2>4
    <3>2. \A q \in Pages : fetches'[q] # NoThread =>
            page_table'[q] # NoFrame /\ pin_count'[page_table'[q]] > 0
      BY <2>2, <2>3, <2>5
    <3> QED
      BY <3>1, <3>2
  <2>8. FetchWaits'
    BY <2>5, <2>4
  <2>9. FlushChannels'
    <3>1. \A u \in Threads : flush_page'[u] # NoPage =>
            /\ flushes'[flush_page'[u]] = u
            /\ pc'[u] \in FetchPhases \cup FlushPhases \cup {"panicked"}
      BY <2>2, <2>3, <2>5
    <3>2. \A u \in Threads : pc'[u] \in FlushPhases => flush_page'[u] # NoPage
      BY <2>2, <2>5
    <3>3. \A q \in Pages : flushes'[q] # NoThread =>
            /\ disk'[q] # Absent
            /\ page_table'[q] # NoFrame => fetches'[q] # NoThread
      BY <2>1, <2>2, <2>3, <2>5
    <3>4. \A u \in Threads : pc'[u] = "place" => flushes'[page'[u]] = NoThread
      BY <2>1, <2>2, <2>3, <2>5
    <3> QED
      BY <3>1, <3>2, <3>3, <3>4
  <2>10. FlushWaits'
    BY <2>2, <2>3, <2>5
  <2> QED
    BY <2>6, <2>7, <2>8, <2>9, <2>10
<1>3. ASSUME NEW t \in Threads, NEW p \in Pages, FetchFull(t, p)
      PROVE  ChannelInv'
  BY <1>3 DEF FetchFull
<1>4. ASSUME NEW t \in Threads, NEW p \in Pages, AllocatePage(t, p)
      PROVE  ChannelInv'
  BY <1>4 DEF AllocatePage
<1>5. ASSUME NEW t \in Threads, AllocatePageFails(t)
      PROVE  ChannelInv'
  BY <1>5 DEF AllocatePageFails
<1>6. ASSUME NEW t \in Threads, FetchPanics(t)
      PROVE  ChannelInv'
  BY <1>6 DEF FetchPanics
<1>7. ASSUME NEW t \in Threads, NEW v \in Values, Write(t, v)
      PROVE  ChannelInv'
  BY <1>7 DEF Write
<1>8. ASSUME NEW t \in Threads, CheckFetch(t)
      PROVE  ChannelInv'
  BY <1>8 DEF CheckFetch
<1>9. ASSUME NEW t \in Threads, FetchArrived(t)
      PROVE  ChannelInv'
  BY <1>9 DEF FetchArrived
<1>10. ASSUME NEW t \in Threads, FetchClosed(t)
      PROVE  ChannelInv'
  BY <1>10, NeverClosed
<1>11. ASSUME NEW t \in Threads, CheckFlush(t)
      PROVE  ChannelInv'
  BY <1>11 DEF CheckFlush
<1>12. ASSUME NEW t \in Threads, FlushArrived(t)
      PROVE  ChannelInv'
  BY <1>12 DEF FlushArrived
<1>13. ASSUME NEW t \in Threads, FlushClosed(t)
      PROVE  ChannelInv'
  BY <1>13, NeverClosed
<1>14. ASSUME NEW t \in Threads, ReadPage(t)
      PROVE  ChannelInv'
  BY <1>14 DEF ReadPage
<1>15. ASSUME NEW t \in Threads, ReadPageFails(t)
      PROVE  ChannelInv'
  BY <1>15 DEF ReadPageFails
<1>16. ASSUME NEW t \in Threads, Load(t)
      PROVE  ChannelInv'
  <2>1. /\ pc[t] = "load" /\ page[t] \in Pages /\ fetches[page[t]] = t
        /\ fetches' = [fetches EXCEPT ![page[t]] = NoThread]
        /\ sub' = [w \in Threads |-> IF pc[w] = "wait_fetch" /\ page[w] = page[t] /\ sub[w] = t
                                     THEN NoThread ELSE sub[w]]
        /\ pc' = [pc EXCEPT ![t] = IF flush_page[t] # NoPage THEN "flush" ELSE "latch"]
        /\ UNCHANGED <<table, pins, flushes, flush_page, page, disk>>
    BY <1>16, SMTT(20) DEF Load, FetchesAfterLoad, Deliver
  <2>2. UsedFrames' /\ FetchChannels'
    BY <2>1
  <2>3. FetchWaits'
    BY <2>1
  <2>4. FlushChannels'
    BY <2>1
  <2>5. FlushWaits'
    BY <2>1
  <2> QED
    BY <2>2, <2>3, <2>4, <2>5
<1>17. ASSUME NEW t \in Threads, Flush(t)
      PROVE  ChannelInv'
  BY <1>17 DEF Flush
<1>18. ASSUME NEW t \in Threads, FlushFails(t)
      PROVE  ChannelInv'
  BY <1>18 DEF FlushFails
<1>19. ASSUME NEW t \in Threads, Notify(t)
      PROVE  ChannelInv'
  <2>1. /\ pc[t] \in {"notify", "notify_failed"} /\ flush_page[t] \in Pages
        /\ flushes[flush_page[t]] = t
        /\ flushes' = [flushes EXCEPT ![flush_page[t]] = NoThread]
        /\ sub' = [w \in Threads |->
                     IF pc[w] = "wait_flush" /\ page[w] = flush_page[t] /\ sub[w] = t
                     THEN NoThread ELSE sub[w]]
        /\ flush_page' = [flush_page EXCEPT ![t] = NoPage]
        /\ UNCHANGED <<table, pins, fetches, disk>>
    BY <1>19 DEF Notify, Deliver
  <2>2. /\ pc'[t] \in {"idle", "latch"}
        /\ pc'[t] = "latch" => page'[t] = page[t]
        /\ \A u \in Threads : u # t => pc'[u] = pc[u] /\ page'[u] = page[u]
    BY <1>19 DEF Notify
  <2>3. UsedFrames' /\ FetchChannels'
    BY <2>1, <2>2
  <2>4. FetchWaits'
    BY <2>1, <2>2, SMTT(20)
  <2>5. FlushChannels'
    BY <2>1, <2>2
  <2>6. FlushWaits'
    BY <2>1, <2>2
  <2> QED
    BY <2>3, <2>4, <2>5, <2>6
<1>20. ASSUME NEW t \in Threads, NEW f \in Frames, Place(t, f)
      PROVE  ChannelInv'
  <2>1. f \in Available /\ Claim(t, page[t], f) /\ page[t] \in Pages /\ page_table[page[t]] = NoFrame
    BY <1>20 DEF Place, Claim
  <2>2. /\ \A g \in Frames : /\ page_id'[g] = IF g = f THEN page[t] ELSE page_id[g]
                             /\ pin_count'[g] = IF g = f THEN 1 ELSE pin_count[g]
        /\ \A q \in Pages : page_table'[q] = IF q = page[t] THEN f
                                             ELSE IF page_table[q] = f THEN NoFrame
                                             ELSE page_table[q]
        /\ page_id[f] # page[t]
        /\ MustFlush(f) => page_id[f] \in Pages
        /\ flush_page'[t] = IF MustFlush(f) THEN page_id[f] ELSE NoPage
        /\ \A q \in Pages : flushes'[q] = IF MustFlush(f) /\ q = page_id[f] THEN t ELSE flushes[q]
        /\ \A u \in Threads : u # t => flush_page'[u] = flush_page[u]
    BY <2>1, ClaimDoes
  <2>3. /\ \A u \in Threads : pc[u] \in PinningPhases => page[u] # page_id[f]
        /\ page_id[f] # NoPage => /\ fetches[page_id[f]] = NoThread
                                  /\ flushes[page_id[f]] = NoThread
                                  /\ page_table[page_id[f]] = f
    BY <2>1, ClaimedIdle
  <2>4. \A u \in Threads : pc[u] \in PinningPhases => page[u] # page[t]
    BY <2>1
  <2>5. /\ pc[t] = "place"
        /\ pc' = [pc EXCEPT ![t] = IF MustFlush(f) THEN "create_flush" ELSE "latch"]
        /\ free_frames' = free_frames \ {f}
        /\ page' = page /\ fetches' = fetches /\ sub' = sub /\ disk' = disk
    BY <1>20 DEF Place, Claim
  <2>6. UsedFrames'
    BY <2>1, <2>2, <2>5
  <2>7. FetchChannels'
    BY <2>1, <2>2, <2>3, <2>5
  <2>8. FetchWaits'
    BY <2>1, <2>5
  <2>9. FlushChannels'
    <3>1. \A u \in Threads : flush_page'[u] # NoPage =>
            /\ flushes'[flush_page'[u]] = u
            /\ pc'[u] \in FetchPhases \cup FlushPhases \cup {"panicked"}
      BY <2>2, <2>3, <2>5
    <3>2. \A u \in Threads : pc'[u] \in FlushPhases => flush_page'[u] # NoPage
      BY <2>2, <2>5
    <3>3. \A q \in Pages : flushes'[q] # NoThread =>
            /\ disk'[q] # Absent
            /\ page_table'[q] # NoFrame => fetches'[q] # NoThread
      BY <2>1, <2>2, <2>3, <2>5
    <3>4. \A u \in Threads : pc'[u] = "place" => flushes'[page'[u]] = NoThread
      BY <2>1, <2>2, <2>3, <2>5, SMTT(20)
    <3> QED
      BY <3>1, <3>2, <3>3, <3>4
  <2>10. FlushWaits'
    BY <2>1, <2>2, <2>3, <2>5
  <2> QED
    BY <2>6, <2>7, <2>8, <2>9, <2>10
<1>21. ASSUME NEW t \in Threads, PlacePanics(t)
      PROVE  ChannelInv'
  BY <1>21 DEF PlacePanics
<1>22. ASSUME NEW t \in Threads, CreateFlush(t)
      PROVE  ChannelInv'
  BY <1>22 DEF CreateFlush
<1>23. ASSUME NEW t \in Threads, CreateFlushFails(t)
      PROVE  ChannelInv'
  BY <1>23 DEF CreateFlushFails
<1>24. ASSUME NEW t \in Threads, CreateNotify(t)
      PROVE  ChannelInv'
  BY <1>24 DEF CreateNotify, Deliver
<1>25. ASSUME NEW t \in Threads, Latch(t)
      PROVE  ChannelInv'
  BY <1>25 DEF Latch
<1>26. ASSUME NEW t \in Threads, Drop(t)
      PROVE  ChannelInv'
  <2>1. /\ pc[t] = "using" /\ frame[t] \in Frames /\ page_id[frame[t]] = page[t]
        /\ page_table[page[t]] = frame[t] /\ fetches[page[t]] = NoThread
        /\ pc' = [pc EXCEPT ![t] = "unlatch"]
        /\ \A g \in Frames : g # frame[t] => pin_count'[g] = pin_count[g]
        /\ UNCHANGED <<table, channels, page, flush_page, disk>>
    BY <1>26 DEF Drop, Unpin
  <2>2. FetchChannels'
    BY <2>1
  <2>3. UsedFrames' /\ FetchWaits' /\ FlushChannels' /\ FlushWaits'
    BY <2>1
  <2> QED
    BY <2>2, <2>3
<1>27. ASSUME NEW t \in Threads, AddToEvictor(t)
      PROVE  ChannelInv'
  BY <1>27, NeverClosed
<1>28. ASSUME NEW t \in Threads, Unlatch(t)
      PROVE  ChannelInv'
  BY <1>28 DEF Unlatch
<1>29. ASSUME NEW t \in Threads, Panic(t)
      PROVE  ChannelInv'
  BY <1>29 DEF Panic, LockingPhases
<1>30. CASE UNCHANGED vars
  BY <1>30 DEF vars
<1> HIDE DEF PoolInv, UninterruptedInv, ChannelInv
<1> QED
  BY <1>1, <1>2, <1>3, <1>4, <1>5, <1>6, <1>7, <1>8, <1>9, <1>10, <1>11, <1>12, <1>13,
     <1>14, <1>15, <1>16, <1>17, <1>18, <1>19, <1>20, <1>21, <1>22, <1>23, <1>24, <1>25,
     <1>26, <1>27, <1>28, <1>29, <1>30 DEF Next, Client, Proceed, Quiescent

-----------------------------------------------------------------------------
(* Latches *)

(* Every step keeps the latches exclusive.                                 *)
LEMMA LatchStep ==
    ASSUME ~Preemptive, PoolInv, UninterruptedInv, ChannelInv, LatchInv, [Next]_vars
    PROVE  LatchInv'
<1> USE PagesAssumption, FramesAssumption, ThreadsAssumption, ValuesAssumption
    DEF PoolInv, UninterruptedInv, ChannelInv, TypeOK, LocalsOK, FreshPages, LatchInv
<1> USE DEF Phases, PinningPhases, FetchPhases, LoadedPhases, FlushPhases, Goto, Start, Return,
            Fault, table, pins, latch, channels, call, pending, panics
<1>1. ASSUME NEW t \in Threads, NEW p \in Pages, NEW m \in {"read", "write"}, FetchHit(t, p, m)
      PROVE  LatchInv'
  BY <1>1 DEF FetchHit, EvictableAfterPin
<1>2. ASSUME NEW t \in Threads, NEW p \in Pages, NEW m \in {"read", "write"}, NEW f \in Frames,
             FetchMiss(t, p, m, f)
      PROVE  LatchInv'
  BY <1>2 DEF FetchMiss, Claim, Remap, FlushesAfterClaim, MustFlush, PinCountAfterClaim
<1>3. ASSUME NEW t \in Threads, NEW p \in Pages, FetchFull(t, p)
      PROVE  LatchInv'
  BY <1>3 DEF FetchFull
<1>4. ASSUME NEW t \in Threads, NEW p \in Pages, AllocatePage(t, p)
      PROVE  LatchInv'
  BY <1>4 DEF AllocatePage
<1>5. ASSUME NEW t \in Threads, AllocatePageFails(t)
      PROVE  LatchInv'
  BY <1>5 DEF AllocatePageFails
<1>6. ASSUME NEW t \in Threads, FetchPanics(t)
      PROVE  LatchInv'
  BY <1>6 DEF FetchPanics
<1>7. ASSUME NEW t \in Threads, NEW v \in Values, Write(t, v)
      PROVE  LatchInv'
  BY <1>7 DEF Write
<1>8. ASSUME NEW t \in Threads, CheckFetch(t)
      PROVE  LatchInv'
  BY <1>8 DEF CheckFetch
<1>9. ASSUME NEW t \in Threads, FetchArrived(t)
      PROVE  LatchInv'
  BY <1>9 DEF FetchArrived
<1>10. ASSUME NEW t \in Threads, FetchClosed(t)
      PROVE  LatchInv'
  BY <1>10, NeverClosed
<1>11. ASSUME NEW t \in Threads, CheckFlush(t)
      PROVE  LatchInv'
  BY <1>11 DEF CheckFlush
<1>12. ASSUME NEW t \in Threads, FlushArrived(t)
      PROVE  LatchInv'
  BY <1>12 DEF FlushArrived
<1>13. ASSUME NEW t \in Threads, FlushClosed(t)
      PROVE  LatchInv'
  BY <1>13, NeverClosed
<1>14. ASSUME NEW t \in Threads, ReadPage(t)
      PROVE  LatchInv'
  BY <1>14 DEF ReadPage
<1>15. ASSUME NEW t \in Threads, ReadPageFails(t)
      PROVE  LatchInv'
  BY <1>15 DEF ReadPageFails
<1>16. ASSUME NEW t \in Threads, Load(t)
      PROVE  LatchInv'
  BY <1>16 DEF Load, FetchesAfterLoad, Deliver, Unlatched
<1>17. ASSUME NEW t \in Threads, Flush(t)
      PROVE  LatchInv'
  BY <1>17 DEF Flush
<1>18. ASSUME NEW t \in Threads, FlushFails(t)
      PROVE  LatchInv'
  BY <1>18 DEF FlushFails
<1>19. ASSUME NEW t \in Threads, Notify(t)
      PROVE  LatchInv'
  BY <1>19 DEF Notify, Deliver
<1>20. ASSUME NEW t \in Threads, NEW f \in Frames, Place(t, f)
      PROVE  LatchInv'
  BY <1>20 DEF Place, Claim, Remap, FlushesAfterClaim, MustFlush, PinCountAfterClaim
<1>21. ASSUME NEW t \in Threads, PlacePanics(t)
      PROVE  LatchInv'
  BY <1>21 DEF PlacePanics
<1>22. ASSUME NEW t \in Threads, CreateFlush(t)
      PROVE  LatchInv'
  BY <1>22 DEF CreateFlush
<1>23. ASSUME NEW t \in Threads, CreateFlushFails(t)
      PROVE  LatchInv'
  BY <1>23 DEF CreateFlushFails
<1>24. ASSUME NEW t \in Threads, CreateNotify(t)
      PROVE  LatchInv'
  BY <1>24 DEF CreateNotify, Deliver
<1>25. ASSUME NEW t \in Threads, Latch(t)
      PROVE  LatchInv'
  BY <1>25 DEF Latch
<1>26. ASSUME NEW t \in Threads, Drop(t)
      PROVE  LatchInv'
  BY <1>26 DEF Drop, Unpin, LastPin
<1>27. ASSUME NEW t \in Threads, AddToEvictor(t)
      PROVE  LatchInv'
  BY <1>27, NeverClosed
<1>28. ASSUME NEW t \in Threads, Unlatch(t)
      PROVE  LatchInv'
  BY <1>28 DEF Unlatch
<1>29. ASSUME NEW t \in Threads, Panic(t)
      PROVE  LatchInv'
  BY <1>29 DEF Panic, LockingPhases
<1>30. CASE UNCHANGED vars
  BY <1>30 DEF vars
<1> HIDE DEF PoolInv, UninterruptedInv, ChannelInv, LatchInv
<1> QED
  BY <1>1, <1>2, <1>3, <1>4, <1>5, <1>6, <1>7, <1>8, <1>9, <1>10, <1>11, <1>12, <1>13,
     <1>14, <1>15, <1>16, <1>17, <1>18, <1>19, <1>20, <1>21, <1>22, <1>23, <1>24, <1>25,
     <1>26, <1>27, <1>28, <1>29, <1>30 DEF Next, Client, Proceed, Quiescent

(* Every step of a pool without faults and panics leaves no channel behind. *)
LEMMA LeftStep ==
    ASSUME ~Preemptive, PoolInv, UninterruptedInv, ChannelInv, NothingLeft, [Next]_vars
    PROVE  NothingLeft'
<1> USE PagesAssumption, FramesAssumption, ThreadsAssumption, BoundsAssumption
    DEF PoolInv, UninterruptedInv, ChannelInv, TypeOK, LocalsOK, FetchChannels, FetchWaits,
        FlushChannels, FlushWaits, NothingLeft
<1> USE DEF Phases, PinningPhases, FetchPhases, LoadedPhases, FlushPhases, Goto, Start, Return,
            Fault, table, pins, latch, channels, call, pending, panics
<1>1. ASSUME NEW t \in Threads, NEW p \in Pages, NEW m \in {"read", "write"}, FetchHit(t, p, m)
      PROVE  NothingLeft'
  BY <1>1 DEF FetchHit, EvictableAfterPin
<1>2. ASSUME NEW t \in Threads, NEW p \in Pages, NEW m \in {"read", "write"}, NEW f \in Frames,
             FetchMiss(t, p, m, f)
      PROVE  NothingLeft'
  BY <1>2 DEF FetchMiss, Claim, Remap, FlushesAfterClaim, MustFlush, PinCountAfterClaim
<1>3. ASSUME NEW t \in Threads, NEW p \in Pages, FetchFull(t, p)
      PROVE  NothingLeft'
  BY <1>3 DEF FetchFull
<1>4. ASSUME NEW t \in Threads, NEW p \in Pages, AllocatePage(t, p)
      PROVE  NothingLeft'
  BY <1>4 DEF AllocatePage
<1>5. ASSUME NEW t \in Threads, AllocatePageFails(t)
      PROVE  NothingLeft'
  BY <1>5 DEF AllocatePageFails
<1>6. ASSUME NEW t \in Threads, FetchPanics(t)
      PROVE  NothingLeft'
  BY <1>6 DEF FetchPanics
<1>7. ASSUME NEW t \in Threads, NEW v \in Values, Write(t, v)
      PROVE  NothingLeft'
  BY <1>7 DEF Write
<1>8. ASSUME NEW t \in Threads, CheckFetch(t)
      PROVE  NothingLeft'
  BY <1>8 DEF CheckFetch
<1>9. ASSUME NEW t \in Threads, FetchArrived(t)
      PROVE  NothingLeft'
  BY <1>9 DEF FetchArrived
<1>10. ASSUME NEW t \in Threads, FetchClosed(t)
      PROVE  NothingLeft'
  BY <1>10, NeverClosed
<1>11. ASSUME NEW t \in Threads, CheckFlush(t)
      PROVE  NothingLeft'
  BY <1>11 DEF CheckFlush
<1>12. ASSUME NEW t \in Threads, FlushArrived(t)
      PROVE  NothingLeft'
  BY <1>12 DEF FlushArrived
<1>13. ASSUME NEW t \in Threads, FlushClosed(t)
      PROVE  NothingLeft'
  BY <1>13, NeverClosed
<1>14. ASSUME NEW t \in Threads, ReadPage(t)
      PROVE  NothingLeft'
  BY <1>14 DEF ReadPage
<1>15. ASSUME NEW t \in Threads, ReadPageFails(t)
      PROVE  NothingLeft'
  BY <1>15 DEF ReadPageFails
<1>16. ASSUME NEW t \in Threads, Load(t)
      PROVE  NothingLeft'
  BY <1>16 DEF Load, FetchesAfterLoad, Deliver, Unlatched
<1>17. ASSUME NEW t \in Threads, Flush(t)
      PROVE  NothingLeft'
  BY <1>17 DEF Flush
<1>18. ASSUME NEW t \in Threads, FlushFails(t)
      PROVE  NothingLeft'
  BY <1>18 DEF FlushFails
<1>19. ASSUME NEW t \in Threads, Notify(t)
      PROVE  NothingLeft'
  BY <1>19 DEF Notify, Deliver
<1>20. ASSUME NEW t \in Threads, NEW f \in Frames, Place(t, f)
      PROVE  NothingLeft'
  BY <1>20 DEF Place, Claim, Remap, FlushesAfterClaim, MustFlush, PinCountAfterClaim
<1>21. ASSUME NEW t \in Threads, PlacePanics(t)
      PROVE  NothingLeft'
  BY <1>21 DEF PlacePanics
<1>22. ASSUME NEW t \in Threads, CreateFlush(t)
      PROVE  NothingLeft'
  BY <1>22 DEF CreateFlush
<1>23. ASSUME NEW t \in Threads, CreateFlushFails(t)
      PROVE  NothingLeft'
  BY <1>23 DEF CreateFlushFails
<1>24. ASSUME NEW t \in Threads, CreateNotify(t)
      PROVE  NothingLeft'
  BY <1>24 DEF CreateNotify, Deliver
<1>25. ASSUME NEW t \in Threads, Latch(t)
      PROVE  NothingLeft'
  BY <1>25 DEF Latch
<1>26. ASSUME NEW t \in Threads, Drop(t)
      PROVE  NothingLeft'
  BY <1>26 DEF Drop, Unpin, LastPin
<1>27. ASSUME NEW t \in Threads, AddToEvictor(t)
      PROVE  NothingLeft'
  BY <1>27, NeverClosed
<1>28. ASSUME NEW t \in Threads, Unlatch(t)
      PROVE  NothingLeft'
  BY <1>28 DEF Unlatch
<1>29. ASSUME NEW t \in Threads, Panic(t)
      PROVE  NothingLeft'
  BY <1>29 DEF Panic, LockingPhases
<1>30. CASE UNCHANGED vars
  BY <1>30 DEF vars
<1> HIDE DEF PoolInv, UninterruptedInv, ChannelInv, NothingLeft
<1> QED
  BY <1>1, <1>2, <1>3, <1>4, <1>5, <1>6, <1>7, <1>8, <1>9, <1>10, <1>11, <1>12, <1>13,
     <1>14, <1>15, <1>16, <1>17, <1>18, <1>19, <1>20, <1>21, <1>22, <1>23, <1>24, <1>25,
     <1>26, <1>27, <1>28, <1>29, <1>30 DEF Next, Client, Proceed, Quiescent

-----------------------------------------------------------------------------
(* Content *)

(* Every step keeps the content of every page where it belongs.            *)
LEMMA ContentStep ==
    ASSUME ~Preemptive, PoolInv, UninterruptedInv, ChannelInv, ContentInv, [Next]_vars
    PROVE  ContentInv'
<1> USE PagesAssumption, FramesAssumption, ThreadsAssumption, ValuesAssumption
    DEF PoolInv, UninterruptedInv, ChannelInv, TypeOK, LocalsOK, FreshPages, TableConsistent,
        PinnedResident, FetchChannels, FetchWaits, FlushChannels, FlushWaits, ContentInv,
        FramesHold, CallsCarry, Loaded, Data
<1> USE DEF Phases, PinningPhases, FetchPhases, LoadedPhases, FlushPhases, Goto, Start, Return,
            Fault, table, pins, latch, channels, call, pending, panics
<1>1. ASSUME NEW t \in Threads, NEW p \in Pages, NEW m \in {"read", "write"}, FetchHit(t, p, m)
      PROVE  ContentInv'
  BY <1>1 DEF FetchHit, EvictableAfterPin
<1>2. ASSUME NEW t \in Threads, NEW p \in Pages, NEW m \in {"read", "write"}, NEW f \in Frames,
             FetchMiss(t, p, m, f)
      PROVE  ContentInv'
  BY <1>2 DEF FetchMiss, Claim, Remap, FlushesAfterClaim, MustFlush, PinCountAfterClaim
<1>3. ASSUME NEW t \in Threads, NEW p \in Pages, FetchFull(t, p)
      PROVE  ContentInv'
  BY <1>3 DEF FetchFull
<1>4. ASSUME NEW t \in Threads, NEW p \in Pages, AllocatePage(t, p)
      PROVE  ContentInv'
  BY <1>4 DEF AllocatePage
<1>5. ASSUME NEW t \in Threads, AllocatePageFails(t)
      PROVE  ContentInv'
  BY <1>5 DEF AllocatePageFails
<1>6. ASSUME NEW t \in Threads, FetchPanics(t)
      PROVE  ContentInv'
  BY <1>6 DEF FetchPanics
<1>7. ASSUME NEW t \in Threads, NEW v \in Values, Write(t, v)
      PROVE  ContentInv'
  BY <1>7 DEF Write
<1>8. ASSUME NEW t \in Threads, CheckFetch(t)
      PROVE  ContentInv'
  BY <1>8 DEF CheckFetch
<1>9. ASSUME NEW t \in Threads, FetchArrived(t)
      PROVE  ContentInv'
  BY <1>9 DEF FetchArrived
<1>10. ASSUME NEW t \in Threads, FetchClosed(t)
      PROVE  ContentInv'
  BY <1>10, NeverClosed
<1>11. ASSUME NEW t \in Threads, CheckFlush(t)
      PROVE  ContentInv'
  BY <1>11 DEF CheckFlush
<1>12. ASSUME NEW t \in Threads, FlushArrived(t)
      PROVE  ContentInv'
  BY <1>12 DEF FlushArrived
<1>13. ASSUME NEW t \in Threads, FlushClosed(t)
      PROVE  ContentInv'
  BY <1>13, NeverClosed
<1>14. ASSUME NEW t \in Threads, ReadPage(t)
      PROVE  ContentInv'
  BY <1>14 DEF ReadPage
<1>15. ASSUME NEW t \in Threads, ReadPageFails(t)
      PROVE  ContentInv'
  BY <1>15 DEF ReadPageFails
<1>16. ASSUME NEW t \in Threads, Load(t)
      PROVE  ContentInv'
  BY <1>16 DEF Load, FetchesAfterLoad, Deliver, Unlatched
<1>17. ASSUME NEW t \in Threads, Flush(t)
      PROVE  ContentInv'
  BY <1>17 DEF Flush
<1>18. ASSUME NEW t \in Threads, FlushFails(t)
      PROVE  ContentInv'
  BY <1>18 DEF FlushFails
<1>19. ASSUME NEW t \in Threads, Notify(t)
      PROVE  ContentInv'
  BY <1>19 DEF Notify, Deliver
<1>20. ASSUME NEW t \in Threads, NEW f \in Frames, Place(t, f)
      PROVE  ContentInv'
  BY <1>20 DEF Place, Claim, Remap, FlushesAfterClaim, MustFlush, PinCountAfterClaim
<1>21. ASSUME NEW t \in Threads, PlacePanics(t)
      PROVE  ContentInv'
  BY <1>21 DEF PlacePanics
<1>22. ASSUME NEW t \in Threads, CreateFlush(t)
      PROVE  ContentInv'
  BY <1>22 DEF CreateFlush
<1>23. ASSUME NEW t \in Threads, CreateFlushFails(t)
      PROVE  ContentInv'
  BY <1>23 DEF CreateFlushFails
<1>24. ASSUME NEW t \in Threads, CreateNotify(t)
      PROVE  ContentInv'
  BY <1>24 DEF CreateNotify, Deliver
<1>25. ASSUME NEW t \in Threads, Latch(t)
      PROVE  ContentInv'
  BY <1>25 DEF Latch
<1>26. ASSUME NEW t \in Threads, Drop(t)
      PROVE  ContentInv'
  BY <1>26 DEF Drop, Unpin, LastPin
<1>27. ASSUME NEW t \in Threads, AddToEvictor(t)
      PROVE  ContentInv'
  BY <1>27, NeverClosed
<1>28. ASSUME NEW t \in Threads, Unlatch(t)
      PROVE  ContentInv'
  BY <1>28 DEF Unlatch
<1>29. ASSUME NEW t \in Threads, Panic(t)
      PROVE  ContentInv'
  BY <1>29 DEF Panic, LockingPhases
<1>30. CASE UNCHANGED vars
  BY <1>30 DEF vars
<1> HIDE DEF PoolInv, UninterruptedInv, ChannelInv, ContentInv
<1> QED
  BY <1>1, <1>2, <1>3, <1>4, <1>5, <1>6, <1>7, <1>8, <1>9, <1>10, <1>11, <1>12, <1>13,
     <1>14, <1>15, <1>16, <1>17, <1>18, <1>19, <1>20, <1>21, <1>22, <1>23, <1>24, <1>25,
     <1>26, <1>27, <1>28, <1>29, <1>30 DEF Next, Client, Proceed, Quiescent

(* Taking a frame keeps what can be recovered: the page that it evicts     *)
(* goes from the dirty frame to the call.                                  *)
LEMMA ClaimKeepsRecoverable ==
    ASSUME PoolInv, UninterruptedInv, ChannelInv, NEW t \in Threads, NEW p \in Pages,
           NEW f \in Frames, Claim(t, p, f), page_table[p] = NoFrame,
           pc[t] \in {"idle", "place"},
           \E ph \in {"check_flush", "create_flush", "latch"} : pc' = [pc EXCEPT ![t] = ph],
           \A g \in Frames : g # f => is_dirty'[g] = is_dirty[g],
           ~is_dirty'[f] \/ latest[p] \notin Values,
           UNCHANGED <<data, disk, latest>>, NEW r \in Pages
    PROVE  Recoverable(r)' <=> Recoverable(r)
<1>1. /\ \A g \in Frames : page_id'[g] = IF g = f THEN p ELSE page_id[g]
      /\ page_id[f] # p
      /\ f \in free_frames => page_id[f] = NoPage
      /\ MustFlush(f) => page_id[f] \in Pages
      /\ flush_page'[t] = IF MustFlush(f) THEN page_id[f] ELSE NoPage
      /\ flush_data'[t] = IF MustFlush(f) THEN data[f] ELSE Absent
      /\ \A q \in Pages : flushes'[q] = IF MustFlush(f) /\ q = page_id[f] THEN t ELSE flushes[q]
      /\ \A u \in Threads : u # t => flush_page'[u] = flush_page[u] /\ flush_data'[u] = flush_data[u]
  BY ClaimDoes
<1>2. page_id[f] # NoPage => flushes[page_id[f]] = NoThread
  BY ClaimedIdle DEF Claim
<1>3. flush_page[t] = NoPage
  BY DEF ChannelInv, FlushChannels, FetchPhases, FlushPhases
<1>4. /\ pc \in [Threads -> Phases]
      /\ pc'[t] \notin {"notify_failed", "panicked"}
      /\ \A u \in Threads : u # t => pc'[u] = pc[u]
  BY DEF PoolInv, TypeOK
<1>5. CASE latest[r] \notin Values \/ disk[r] = latest[r]
  BY <1>5 DEF Recoverable
<1>6. ASSUME latest[r] \in Values, Recoverable(r), disk[r] # latest[r]
      PROVE  Recoverable(r)'
  <2>1. ASSUME NEW g \in Frames, page_id[g] = r, is_dirty[g], data[g] = latest[r]
        PROVE  Recoverable(r)'
    <3>1. CASE g = f
      <4>1. MustFlush(f) /\ r # NoPage
        BY <1>1, <2>1, <3>1, PagesAssumption DEF MustFlush
      <4>2. flushes'[r] = t /\ flush_page'[t] = r /\ flush_data'[t] = latest[r]
        BY <1>1, <2>1, <3>1, <4>1
      <4> QED
        BY <1>4, <4>2 DEF Recoverable
    <3>2. CASE g # f
      BY <1>1, <2>1, <3>2 DEF Recoverable
    <3> QED
      BY <3>1, <3>2
  <2>2. ASSUME NEW u \in Threads, flushes[r] = u, flush_page[u] = r, flush_data[u] = latest[r],
               pc[u] \notin {"notify_failed", "panicked"}
        PROVE  Recoverable(r)'
    <3>1. u # t /\ r # page_id[f]
      BY <1>2, <1>3, <2>2, PagesAssumption, ThreadsAssumption
    <3>2. flushes'[r] = u /\ flush_page'[u] = r /\ flush_data'[u] = latest[r]
      BY <1>1, <2>2, <3>1
    <3> QED
      BY <1>4, <2>2, <3>1, <3>2 DEF Recoverable
  <2> QED
    BY <1>6, <2>1, <2>2 DEF Recoverable
<1>7. ASSUME latest[r] \in Values, Recoverable(r)', disk[r] # latest[r]
      PROVE  Recoverable(r)
  <2>1. ASSUME NEW g \in Frames, page_id'[g] = r, is_dirty'[g], data[g] = latest[r]
        PROVE  Recoverable(r)
    <3>1. g # f
      BY <1>1, <1>7, <2>1
    <3> QED
      BY <1>1, <2>1, <3>1 DEF Recoverable
  <2>2. ASSUME NEW u \in Threads, flushes'[r] = u, flush_page'[u] = r, flush_data'[u] = latest[r],
               pc'[u] \notin {"notify_failed", "panicked"}
        PROVE  Recoverable(r)
    <3>1. CASE u = t
      <4>1. MustFlush(f) /\ r = page_id[f] /\ data[f] = latest[r]
        BY <1>1, <2>2, <3>1, PagesAssumption
      <4> QED
        BY <4>1 DEF Recoverable, MustFlush
    <3>2. CASE u # t
      <4>1. flushes[r] = u /\ flush_page[u] = r /\ flush_data[u] = latest[r]
        BY <1>1, <2>2, <3>2
      <4> QED
        BY <1>4, <2>2, <3>2, <4>1 DEF Recoverable
    <3> QED
      BY <3>1, <3>2
  <2> QED
    BY <1>7, <2>1, <2>2 DEF Recoverable
<1> QED
  BY <1>5, <1>6, <1>7

(* The content of a page is the same after a step. *)
Kept(r) ==
    /\ latest'[r] = latest[r]
    /\ latest[r] \in Values =>
        /\ Recoverable(r)' <=> Recoverable(r)
        /\ Recoverable(r) \/ disk'[r] = disk[r]

ContentKept == \A r \in Pages : Kept(r)

(* The steps that fail or panic, and may lose the page that they carry. *)
Failing(t) == ReadPageFails(t) \/ FlushFails(t) \/ CreateFlushFails(t) \/ Panic(t)

(* Every step keeps the content of every page, unless it writes or fails.  *)
LEMMA KeptStep ==
    ASSUME ~Preemptive, PoolInv, UninterruptedInv, ChannelInv, ContentInv, [Next]_vars
    PROVE  \/ ContentKept
           \/ \E t \in Threads : Failing(t) \/ Latch(t) \/ \E v \in Values : Write(t, v)
<1> USE PagesAssumption, FramesAssumption, ThreadsAssumption, ValuesAssumption
    DEF PoolInv, UninterruptedInv, ChannelInv, TypeOK, LocalsOK, FreshPages, TableConsistent,
        PinnedResident, FetchChannels, FetchWaits, FlushChannels, FlushWaits, ContentInv,
        FramesHold, CallsCarry, Loaded, Data, Recoverable, Kept, ContentKept
<1> USE DEF Phases, PinningPhases, FetchPhases, LoadedPhases, FlushPhases, Goto, Start, Return,
            Fault, table, pins, latch, channels, call, pending, panics
<1>1. ASSUME NEW t \in Threads, NEW p \in Pages, NEW m \in {"read", "write"}, FetchHit(t, p, m)
      PROVE  ContentKept
  BY <1>1 DEF FetchHit, EvictableAfterPin
<1>2. ASSUME NEW t \in Threads, NEW p \in Pages, NEW m \in {"read", "write"}, NEW f \in Frames,
             FetchMiss(t, p, m, f)
      PROVE  ContentKept
  <2>1. /\ Claim(t, p, f) /\ page_table[p] = NoFrame /\ pc[t] = "idle"
        /\ pc' = [pc EXCEPT ![t] = "check_flush"]
        /\ is_dirty' = [is_dirty EXCEPT ![f] = FALSE]
        /\ UNCHANGED <<data, disk, latest>>
    BY <1>2 DEF FetchMiss
  <2>2. /\ ~is_dirty'[f] /\ \A g \in Frames : g # f => is_dirty'[g] = is_dirty[g]
        /\ \E ph \in {"check_flush", "create_flush", "latch"} : pc' = [pc EXCEPT ![t] = ph]
    BY <2>1
  <2> HIDE DEF PoolInv, UninterruptedInv, ChannelInv, ContentInv, Recoverable
  <2>3. \A r \in Pages : Recoverable(r)' <=> Recoverable(r)
    BY <2>1, <2>2, ClaimKeepsRecoverable
  <2> QED
    BY <2>1, <2>3
<1>3. ASSUME NEW t \in Threads, NEW p \in Pages, FetchFull(t, p)
      PROVE  ContentKept
  BY <1>3 DEF FetchFull
<1>4. ASSUME NEW t \in Threads, NEW p \in Pages, AllocatePage(t, p)
      PROVE  ContentKept
  BY <1>4 DEF AllocatePage
<1>5. ASSUME NEW t \in Threads, AllocatePageFails(t)
      PROVE  ContentKept
  BY <1>5 DEF AllocatePageFails
<1>6. ASSUME NEW t \in Threads, FetchPanics(t)
      PROVE  ContentKept
  BY <1>6 DEF FetchPanics
<1>7. ASSUME NEW t \in Threads, CheckFetch(t)
      PROVE  ContentKept
  BY <1>7 DEF CheckFetch
<1>8. ASSUME NEW t \in Threads, FetchArrived(t)
      PROVE  ContentKept
  BY <1>8 DEF FetchArrived
<1>9. ASSUME NEW t \in Threads, FetchClosed(t)
      PROVE  ContentKept
  BY <1>9, NeverClosed
<1>10. ASSUME NEW t \in Threads, CheckFlush(t)
      PROVE  ContentKept
  BY <1>10 DEF CheckFlush
<1>11. ASSUME NEW t \in Threads, FlushArrived(t)
      PROVE  ContentKept
  BY <1>11 DEF FlushArrived
<1>12. ASSUME NEW t \in Threads, FlushClosed(t)
      PROVE  ContentKept
  BY <1>12, NeverClosed
<1>13. ASSUME NEW t \in Threads, ReadPage(t)
      PROVE  ContentKept
  BY <1>13 DEF ReadPage
<1>14. ASSUME NEW t \in Threads, Load(t)
      PROVE  ContentKept
  BY <1>14 DEF Load, FetchesAfterLoad, Deliver, Unlatched
<1>15. ASSUME NEW t \in Threads, Flush(t)
      PROVE  ContentKept
  BY <1>15 DEF Flush
<1>16. ASSUME NEW t \in Threads, Notify(t)
      PROVE  ContentKept
  BY <1>16 DEF Notify, Deliver
<1>17. ASSUME NEW t \in Threads, NEW f \in Frames, Place(t, f)
      PROVE  ContentKept
  <2>1. /\ Claim(t, page[t], f) /\ pc[t] = "place"
        /\ page[t] \in Pages /\ page_table[page[t]] = NoFrame /\ latest[page[t]] = Absent
        /\ pc' = [pc EXCEPT ![t] = IF MustFlush(f) THEN "create_flush" ELSE "latch"]
        /\ UNCHANGED <<is_dirty, data, disk, latest>>
    BY <1>17 DEF Place
  <2>2. /\ latest[page[t]] \notin Values
        /\ \E ph \in {"check_flush", "create_flush", "latch"} : pc' = [pc EXCEPT ![t] = ph]
    BY <2>1
  <2> HIDE DEF PoolInv, UninterruptedInv, ChannelInv, ContentInv, Recoverable
  <2>3. \A r \in Pages : Recoverable(r)' <=> Recoverable(r)
    BY <2>1, <2>2, ClaimKeepsRecoverable
  <2> QED
    BY <2>1, <2>3
<1>18. ASSUME NEW t \in Threads, PlacePanics(t)
      PROVE  ContentKept
  BY <1>18 DEF PlacePanics
<1>19. ASSUME NEW t \in Threads, CreateFlush(t)
      PROVE  ContentKept
  BY <1>19 DEF CreateFlush
<1>20. ASSUME NEW t \in Threads, CreateNotify(t)
      PROVE  ContentKept
  BY <1>20 DEF CreateNotify, Deliver
<1>21. ASSUME NEW t \in Threads, Drop(t)
      PROVE  ContentKept
  BY <1>21 DEF Drop, Unpin, LastPin
<1>22. ASSUME NEW t \in Threads, AddToEvictor(t)
      PROVE  ContentKept
  BY <1>22, NeverClosed
<1>23. ASSUME NEW t \in Threads, Unlatch(t)
      PROVE  ContentKept
  BY <1>23 DEF Unlatch
<1>24. CASE UNCHANGED vars
  BY <1>24 DEF vars
<1> HIDE DEF PoolInv, UninterruptedInv, ChannelInv, ContentInv, ContentKept, Recoverable
<1> QED
  BY <1>1, <1>2, <1>3, <1>4, <1>5, <1>6, <1>7, <1>8, <1>9, <1>10, <1>11, <1>12, <1>13,
     <1>14, <1>15, <1>16, <1>17, <1>18, <1>19, <1>20, <1>21, <1>22, <1>23, <1>24 DEF
     Next, Client, Proceed, Quiescent, Failing

(* A failing call loses no page but the one that it carries. *)
LEMMA LossStep ==
    ASSUME PoolInv, ChannelInv, NEW t \in Threads, Failing(t),
           NEW r \in Pages, r # flush_page[t]
    PROVE  Kept(r)
<1> USE PagesAssumption, ThreadsAssumption
    DEF PoolInv, TypeOK, ChannelInv, FlushChannels, Recoverable, Kept
<1> USE DEF Phases, PinningPhases, FetchPhases, LoadedPhases, FlushPhases, Goto, Start, Return,
            Fault, table, pins, latch, channels, call, pending, panics
<1>1. CASE ReadPageFails(t)
  BY <1>1 DEF ReadPageFails
<1>2. CASE FlushFails(t)
  BY <1>2 DEF FlushFails
<1>3. CASE CreateFlushFails(t)
  BY <1>3 DEF CreateFlushFails
<1>4. CASE Panic(t)
  BY <1>4 DEF Panic, LockingPhases
<1> QED
  BY <1>1, <1>2, <1>3, <1>4 DEF Failing

(* No step makes a write unrecoverable, unless a disk operation fails in   *)
(* it or a thread has panicked.                                            *)
LEMMA RecoverableStep ==
    ASSUME ~Preemptive, PoolInv, UninterruptedInv, ChannelInv, ContentInv, NothingLeft,
           [Next]_vars, NEW r \in Pages, Recoverable(r), ~Recoverable(r)'
    PROVE  faults' > faults \/ poisoned'
<1>1. CASE ContentKept
  BY <1>1 DEF ContentKept, Kept, Recoverable
<1>2. ASSUME NEW t \in Threads, Failing(t)
      PROVE  faults' > faults \/ poisoned'
  <2>1. CASE ReadPageFails(t) \/ FlushFails(t) \/ CreateFlushFails(t)
    BY <2>1, BoundsAssumption DEF ReadPageFails, FlushFails, CreateFlushFails, Fault, PoolInv, TypeOK
  <2>2. CASE Panic(t)
    BY <2>2 DEF Panic, NothingLeft
  <2> QED
    BY <1>2, <2>1, <2>2 DEF Failing
<1>3. ASSUME NEW t \in Threads, Latch(t)
      PROVE  Recoverable(r)'
  BY <1>3, ValuesAssumption
  DEF Latch, Goto, table, channels, pending, Recoverable, PoolInv, TypeOK
<1>4. ASSUME NEW t \in Threads, NEW v \in Values, Write(t, v)
      PROVE  Recoverable(r)'
  <2>1. page[t] \in Pages /\ frame[t] \in Frames /\ page_id[frame[t]] = page[t]
    BY <1>4 DEF Write, PoolInv, LocalsOK, UninterruptedInv, PinnedResident, PinningPhases
  <2>2. CASE r = page[t]
    BY <1>4, <2>1, <2>2 DEF Write, table, Recoverable, PoolInv, TypeOK
  <2>3. CASE r # page[t]
    BY <1>4, <2>1, <2>3 DEF Write, table, channels, pending, Recoverable, PoolInv, TypeOK
  <2> QED
    BY <2>2, <2>3
<1> QED
  BY <1>1, <1>2, <1>3, <1>4, KeptStep

-----------------------------------------------------------------------------
(* Pins *)

(* The holders of a frame that will give their pin back. *)
Keepers(f) == {t \in Threads : frame[t] = f /\ pc[t] \in PinningPhases \ {"notify_failed"}}

(* A pin that is nobody's was left behind by a call that failed, or will   *)
(* be by one whose flush has failed.                                       *)
PinsExplained ==
    ~poisoned => \A f \in Frames : pin_count[f] - Cardinality(Keepers(f)) <= faults

(* The arithmetic of leaks: a keeper goes with its pin, or with a fault.   *)
LEMMA LeaksCount ==
    ASSUME TypeOK, TypeOK', PinsExplained, ~poisoned,
           \A f \in Frames :
              \/ /\ Keepers(f) \subseteq Keepers(f)'
                 /\ pin_count'[f] = pin_count[f]
                 /\ faults' >= faults
              \/ /\ \E t \in Threads \ Keepers(f) : Keepers(f) \cup {t} \subseteq Keepers(f)'
                 /\ pin_count'[f] = pin_count[f] + 1
                 /\ faults' >= faults
              \/ /\ \E t \in Keepers(f) : Keepers(f) \ {t} \subseteq Keepers(f)'
                 /\ \/ pin_count'[f] = pin_count[f] - 1 /\ faults' >= faults
                    \/ pin_count'[f] = pin_count[f] /\ faults' = faults + 1
    PROVE  PinsExplained'
<1> SUFFICES ASSUME NEW f \in Frames
             PROVE  pin_count'[f] - Cardinality(Keepers(f)') <= faults'
  BY DEF PinsExplained, Keepers
<1>1. IsFiniteSet(Keepers(f)) /\ IsFiniteSet(Keepers(f)')
  BY ThreadsAssumption, FS_Subset DEF Keepers
<1>2. PICK c \in Nat, d \in Nat : c = Cardinality(Keepers(f)) /\ d = Cardinality(Keepers(f)')
  BY <1>1, FS_CardinalityType
<1>3. /\ pin_count[f] \in Nat /\ pin_count'[f] \in Nat
      /\ faults \in Nat /\ faults' \in Nat
      /\ pin_count[f] - c <= faults
  BY <1>2, BoundsAssumption DEF TypeOK, PinsExplained
<1>4. CASE Keepers(f) \subseteq Keepers(f)' /\ pin_count'[f] = pin_count[f] /\ faults' >= faults
  <2>1. c <= d
    BY <1>1, <1>2, <1>4, FS_Subset
  <2> QED
    BY <1>2, <1>3, <1>4, <2>1
<1>5. ASSUME NEW t \in Threads \ Keepers(f), Keepers(f) \cup {t} \subseteq Keepers(f)',
             pin_count'[f] = pin_count[f] + 1, faults' >= faults
      PROVE  pin_count'[f] - d <= faults'
  <2>1. IsFiniteSet(Keepers(f) \cup {t}) /\ Cardinality(Keepers(f) \cup {t}) = c + 1
    BY <1>1, <1>2, <1>5, FS_AddElement
  <2>2. c + 1 <= d
    BY <1>1, <1>2, <1>5, <2>1, FS_Subset
  <2> QED
    BY <1>3, <1>5, <2>2
<1>6. ASSUME NEW t \in Keepers(f), Keepers(f) \ {t} \subseteq Keepers(f)',
             \/ pin_count'[f] = pin_count[f] - 1 /\ faults' >= faults
             \/ pin_count'[f] = pin_count[f] /\ faults' = faults + 1
      PROVE  pin_count'[f] - d <= faults'
  <2>1. IsFiniteSet(Keepers(f) \ {t}) /\ Cardinality(Keepers(f) \ {t}) = c - 1
    BY <1>1, <1>2, <1>6, FS_RemoveElement
  <2>2. c - 1 <= d
    BY <1>1, <1>2, <1>6, <2>1, FS_Subset
  <2> QED
    BY <1>3, <1>6, <2>2
<1> QED
  BY <1>2, <1>4, <1>5, <1>6

(* A pool that is poisoned stays poisoned.                                 *)
LEMMA LeftPoisoned ==
    ASSUME [Next]_vars, poisoned
    PROVE  poisoned'
<1> USE DEF panics
<1>1. ASSUME NEW t \in Threads, Client(t)
      PROVE  poisoned'
  BY <1>1 DEF Client, FetchHit, FetchMiss, FetchFull, AllocatePage, AllocatePageFails,
              FetchPanics, Write
<1>2. ASSUME NEW t \in Threads,
             \/ CheckFetch(t) \/ FetchArrived(t) \/ FetchClosed(t)
             \/ CheckFlush(t) \/ FlushArrived(t) \/ FlushClosed(t)
             \/ ReadPage(t) \/ ReadPageFails(t) \/ Load(t)
             \/ Flush(t) \/ FlushFails(t) \/ Notify(t)
      PROVE  poisoned'
  BY <1>2 DEF CheckFetch, FetchArrived, FetchClosed, CheckFlush, FlushArrived, FlushClosed,
              ReadPage, ReadPageFails, Load, Flush, FlushFails, Notify
<1>3. ASSUME NEW t \in Threads,
             \/ \E f \in Frames : Place(t, f)
             \/ PlacePanics(t)
             \/ CreateFlush(t) \/ CreateFlushFails(t) \/ CreateNotify(t)
             \/ Latch(t) \/ Drop(t) \/ AddToEvictor(t) \/ Unlatch(t) \/ Panic(t)
      PROVE  poisoned'
  BY <1>3 DEF Place, PlacePanics, CreateFlush, CreateFlushFails, CreateNotify, Latch, Drop,
              AddToEvictor, Unlatch, Panic
<1> QED
  BY <1>1, <1>2, <1>3 DEF Next, Proceed, Quiescent, vars

(* Every step keeps the pins explained.                                    *)
LEMMA LeakStep ==
    ASSUME ~Preemptive, PoolInv, TypeOK', UninterruptedInv, ChannelInv, NothingLeft,
           PinsExplained, [Next]_vars
    PROVE  PinsExplained'
<1> SUFFICES ASSUME ~poisoned, ~poisoned'
             PROVE  PinsExplained'
  BY LeftPoisoned DEF PinsExplained
<1> USE FramesAssumption, BoundsAssumption DEF PoolInv, UninterruptedInv, ChannelInv, TypeOK,
        LocalsOK, NothingLeft, Keepers
<1> USE DEF Phases, PinningPhases, FetchPhases, Goto, Start, Return, Fault,
            table, pins, latch, channels, call, pending, panics
<1>1. ASSUME NEW t \in Threads, NEW p \in Pages, NEW m \in {"read", "write"}, FetchHit(t, p, m)
      PROVE  PinsExplained'
  BY <1>1, LeaksCount DEF FetchHit, EvictableAfterPin
<1>2. ASSUME NEW t \in Threads, NEW p \in Pages, NEW m \in {"read", "write"}, NEW f \in Frames,
             FetchMiss(t, p, m, f)
      PROVE  PinsExplained'
  BY <1>2, LeaksCount DEF FetchMiss, Claim, Remap, FlushesAfterClaim, MustFlush, PinCountAfterClaim
<1>3. ASSUME NEW t \in Threads, NEW p \in Pages, FetchFull(t, p)
      PROVE  PinsExplained'
  BY <1>3, LeaksCount DEF FetchFull
<1>4. ASSUME NEW t \in Threads, NEW p \in Pages, AllocatePage(t, p)
      PROVE  PinsExplained'
  BY <1>4, LeaksCount DEF AllocatePage
<1>5. ASSUME NEW t \in Threads, AllocatePageFails(t)
      PROVE  PinsExplained'
  BY <1>5, LeaksCount DEF AllocatePageFails
<1>6. ASSUME NEW t \in Threads, FetchPanics(t)
      PROVE  PinsExplained'
  BY <1>6, LeaksCount DEF FetchPanics
<1>7. ASSUME NEW t \in Threads, NEW v \in Values, Write(t, v)
      PROVE  PinsExplained'
  BY <1>7, LeaksCount DEF Write
<1>8. ASSUME NEW t \in Threads, CheckFetch(t)
      PROVE  PinsExplained'
  BY <1>8, LeaksCount DEF CheckFetch
<1>9. ASSUME NEW t \in Threads, FetchArrived(t)
      PROVE  PinsExplained'
  BY <1>9, LeaksCount DEF FetchArrived
<1>10. ASSUME NEW t \in Threads, FetchClosed(t)
      PROVE  PinsExplained'
  BY <1>10, NeverClosed
<1>11. ASSUME NEW t \in Threads, CheckFlush(t)
      PROVE  PinsExplained'
  BY <1>11, LeaksCount DEF CheckFlush
<1>12. ASSUME NEW t \in Threads, FlushArrived(t)
      PROVE  PinsExplained'
  BY <1>12, LeaksCount DEF FlushArrived
<1>13. ASSUME NEW t \in Threads, FlushClosed(t)
      PROVE  PinsExplained'
  BY <1>13, NeverClosed
<1>14. ASSUME NEW t \in Threads, ReadPage(t)
      PROVE  PinsExplained'
  BY <1>14, LeaksCount DEF ReadPage
<1>15. ASSUME NEW t \in Threads, ReadPageFails(t)
      PROVE  PinsExplained'
  BY <1>15, LeaksCount DEF ReadPageFails
<1>16. ASSUME NEW t \in Threads, Load(t)
      PROVE  PinsExplained'
  BY <1>16, LeaksCount DEF Load, FetchesAfterLoad, Deliver, Unlatched
<1>17. ASSUME NEW t \in Threads, Flush(t)
      PROVE  PinsExplained'
  BY <1>17, LeaksCount DEF Flush
<1>18. ASSUME NEW t \in Threads, FlushFails(t)
      PROVE  PinsExplained'
  BY <1>18, LeaksCount DEF FlushFails
<1>19. ASSUME NEW t \in Threads, Notify(t)
      PROVE  PinsExplained'
  BY <1>19, LeaksCount DEF Notify, Deliver
<1>20. ASSUME NEW t \in Threads, NEW f \in Frames, Place(t, f)
      PROVE  PinsExplained'
  BY <1>20, LeaksCount DEF Place, Claim, Remap, FlushesAfterClaim, MustFlush, PinCountAfterClaim
<1>21. ASSUME NEW t \in Threads, PlacePanics(t)
      PROVE  PinsExplained'
  BY <1>21, LeaksCount DEF PlacePanics
<1>22. ASSUME NEW t \in Threads, CreateFlush(t)
      PROVE  PinsExplained'
  BY <1>22, LeaksCount DEF CreateFlush
<1>23. ASSUME NEW t \in Threads, CreateFlushFails(t)
      PROVE  PinsExplained'
  BY <1>23, LeaksCount DEF CreateFlushFails
<1>24. ASSUME NEW t \in Threads, CreateNotify(t)
      PROVE  PinsExplained'
  BY <1>24, LeaksCount DEF CreateNotify, Deliver
<1>25. ASSUME NEW t \in Threads, Latch(t)
      PROVE  PinsExplained'
  BY <1>25, LeaksCount DEF Latch
<1>26. ASSUME NEW t \in Threads, Drop(t)
      PROVE  PinsExplained'
  BY <1>26, LeaksCount DEF Drop, Unpin, LastPin
<1>27. ASSUME NEW t \in Threads, AddToEvictor(t)
      PROVE  PinsExplained'
  BY <1>27, NeverClosed
<1>28. ASSUME NEW t \in Threads, Unlatch(t)
      PROVE  PinsExplained'
  BY <1>28, LeaksCount DEF Unlatch
<1>29. ASSUME NEW t \in Threads, Panic(t)
      PROVE  PinsExplained'
  BY <1>29, LeaksCount DEF Panic, LockingPhases
<1>30. CASE UNCHANGED vars
  BY <1>30, LeaksCount DEF vars
<1> HIDE DEF PoolInv, UninterruptedInv, ChannelInv, NothingLeft
<1> QED
  BY <1>1, <1>2, <1>3, <1>4, <1>5, <1>6, <1>7, <1>8, <1>9, <1>10, <1>11, <1>12, <1>13,
     <1>14, <1>15, <1>16, <1>17, <1>18, <1>19, <1>20, <1>21, <1>22, <1>23, <1>24, <1>25,
     <1>26, <1>27, <1>28, <1>29, <1>30 DEF Next, Client, Proceed, Quiescent

-----------------------------------------------------------------------------
(* Theorems *)

(* All that holds of channels, latches, content and pins. *)
ContentSafe == ChannelInv /\ NothingLeft /\ LatchInv /\ ContentInv /\ PinsExplained

(* The strengthened invariant holds in every state of every execution in   *)
(* which unpinning is not interrupted, through every failed call and every *)
(* panic (buffer_pool_manager.rs: fetch_and_pin_frame, create_page).       *)
THEOREM ContentInvariant ==
    ASSUME ~Preemptive
    PROVE  Spec => []ContentSafe
<1>1. Init => ContentSafe
  <2> SUFFICES ASSUME Init PROVE ContentSafe
    OBVIOUS
  <2> USE PagesAssumption, FramesAssumption, ThreadsAssumption, ValuesAssumption DEF Init
  <2>1. UsedFrames /\ FetchChannels /\ FetchWaits /\ FlushChannels /\ FlushWaits
    BY DEF UsedFrames, FetchChannels, FetchWaits, FlushChannels, FlushWaits, FetchPhases,
           LoadedPhases, FlushPhases
  <2>2. NothingLeft /\ LatchInv /\ FramesHold /\ CallsCarry
    BY DEF NothingLeft, LatchInv, FramesHold, CallsCarry, Loaded, FetchPhases
  <2>3. PinsExplained
    <3> SUFFICES ASSUME NEW f \in Frames PROVE pin_count[f] - Cardinality(Keepers(f)) <= faults
      BY DEF PinsExplained
    <3>1. Keepers(f) = {}
      BY DEF Keepers, PinningPhases, FetchPhases
    <3> QED
      BY <3>1, FS_EmptySet
  <2> QED
    BY <2>1, <2>2, <2>3 DEF ContentSafe, ChannelInv, ContentInv
<1>2. PoolInv /\ PoolInv' /\ UninterruptedInv /\ ContentSafe /\ [Next]_vars => ContentSafe'
  <2> SUFFICES ASSUME PoolInv, PoolInv', UninterruptedInv, ContentSafe, [Next]_vars
               PROVE  ContentSafe'
    OBVIOUS
  <2>1. ChannelInv' /\ NothingLeft'
    BY ChannelStep, LeftStep DEF ContentSafe
  <2>2. LatchInv' /\ ContentInv'
    BY LatchStep, ContentStep DEF ContentSafe
  <2>3. PinsExplained'
    BY LeakStep DEF ContentSafe, PoolInv
  <2> QED
    BY <2>1, <2>2, <2>3 DEF ContentSafe
<1> QED
  BY <1>1, <1>2, PoolSafe, UninterruptedSafe, PTL DEF Spec

(* The map of in-flight processing is exact: a channel has one thread that *)
(* will announce its end, and without faults every channel has one.        *)
THEOREM ChannelsExact ==
    ASSUME ~Preemptive
    PROVE  Spec => []InFlightExact
<1>1. ContentSafe => InFlightExact
  BY PagesAssumption, ThreadsAssumption
  DEF ContentSafe, ChannelInv, FetchChannels, FlushChannels, NothingLeft, InFlightExact
<1> QED
  BY <1>1, ContentInvariant, PTL

(* A guard, and the frame that a guard is about to be given of, shows the  *)
(* last write to its page, unless that was lost.                           *)
LEMMA GuardShows ==
    ASSUME PoolInv, UninterruptedInv, ContentSafe, NEW t \in Threads,
           pc[t] \in {"latch", "using"}, latest[page[t]] \in Values
    PROVE  data[frame[t]] = IF Recoverable(page[t]) THEN latest[page[t]] ELSE disk[page[t]]
<1>1. /\ page[t] \in Pages /\ frame[t] \in Frames
      /\ page_id[frame[t]] = page[t] /\ page_table[page[t]] = frame[t]
      /\ fetches[page[t]] = NoThread
  BY DEF PoolInv, LocalsOK, UninterruptedInv, PinnedResident, TableConsistent, PinningPhases,
         ContentSafe, ChannelInv, FetchWaits, LoadedPhases
<1>2. flushes[page[t]] = NoThread
  BY <1>1, FramesAssumption DEF ContentSafe, ChannelInv, FlushChannels
<1>3. Loaded(frame[t])
  BY <1>1, PagesAssumption DEF Loaded
<1>4. data[frame[t]] = IF is_dirty[frame[t]] THEN latest[page[t]] ELSE disk[page[t]]
  BY <1>1, <1>3 DEF ContentSafe, ContentInv, FramesHold
<1>5. \A g \in Frames : page_id[g] = page[t] => g = frame[t]
  BY <1>1 DEF PoolInv, TableConsistent
<1>6. CASE is_dirty[frame[t]]
  BY <1>1, <1>4, <1>6 DEF Recoverable
<1>7. CASE ~is_dirty[frame[t]]
  <2>1. Recoverable(page[t]) <=> disk[page[t]] = latest[page[t]]
    BY <1>1, <1>2, <1>5, <1>7, ThreadsAssumption DEF Recoverable
  <2> QED
    BY <1>4, <1>7, <2>1
<1> QED
  BY <1>6, <1>7

(* A guard shows what was last written to its page, through evictions,     *)
(* flushes and reloads by any number of threads, unless the write was lost *)
(* to a fault.                                                             *)
THEOREM GuardsCoherent ==
    ASSUME ~Preemptive
    PROVE  Spec => []CoherentGuards
<1>1. PoolInv /\ UninterruptedInv /\ ContentSafe => CoherentGuards
  BY GuardShows DEF CoherentGuards
<1> QED
  BY <1>1, PoolSafe, UninterruptedSafe, ContentInvariant, PTL

(* A write is lost at one moment only, when an I/O operation of the call   *)
(* that carries it fails or a thread panics.                               *)
THEOREM UpdatesKept ==
    ASSUME ~Preemptive
    PROVE  Spec => NoLostUpdate
<1>1. PoolInv /\ UninterruptedInv /\ ContentSafe /\ [Next]_vars =>
        [\A p \in Pages :
            Recoverable(p) /\ ~Recoverable(p)' => faults' > faults \/ poisoned']_vars
  BY RecoverableStep DEF ContentSafe
<1> QED
  BY <1>1, PoolSafe, UninterruptedSafe, ContentInvariant, PTL DEF Spec, NoLostUpdate

(* Every pin belongs to a call in progress or to a guard, but for one that *)
(* each failed disk operation may leave behind.                            *)
THEOREM PinsNotLeaked ==
    ASSUME ~Preemptive
    PROVE  Spec => []NoPinLeak
<1>1. TypeOK /\ PinsExplained => NoPinLeak
  <2> SUFFICES ASSUME TypeOK, PinsExplained, ~poisoned, NEW f \in Frames
               PROVE  pin_count[f] - Cardinality(Holders(f)) <= faults
    BY DEF NoPinLeak
  <2>1. Keepers(f) \subseteq Holders(f) /\ IsFiniteSet(Holders(f)) /\ IsFiniteSet(Keepers(f))
    BY ThreadsAssumption, FS_Subset DEF Keepers, Holders
  <2>2. PICK c \in Nat, d \in Nat : c = Cardinality(Keepers(f)) /\ d = Cardinality(Holders(f))
    BY <2>1, FS_CardinalityType
  <2>3. c <= d
    BY <2>1, <2>2, FS_Subset
  <2>4. pin_count[f] \in Nat /\ faults \in Nat /\ pin_count[f] - c <= faults
    BY <2>2, BoundsAssumption DEF TypeOK, PinsExplained
  <2> QED
    BY <2>2, <2>3, <2>4
<1> QED
  BY <1>1, TypeCorrect, ContentInvariant, PTL DEF ContentSafe

-----------------------------------------------------------------------------
(* The store of pages.  Only three steps of the pool are seen by clients   *)
(* that hold or get a guard: Latch, Write and Drop.  Every other step      *)
(* leaves the guards and what they show alone (GuardsKept) and the content *)
(* of every page too (Kept), but for the page that a failing call carries, *)
(* which nobody has a guard of: that is the step Lose of the store.        *)

(* All the invariants of the pool. *)
Inv == PoolInv /\ UninterruptedInv /\ ContentSafe

(* The guards, and what they show, are the same after a step. *)
GuardsKept ==
    \A u \in Threads :
        /\ pc'[u] = "using" <=> pc[u] = "using"
        /\ pc[u] = "using" => /\ page'[u] = page[u] /\ mode'[u] = mode[u]
                              /\ data'[frame'[u]] = data[frame[u]]

(* Every step but those of clients with a guard keeps the guards. *)
LEMMA GuardsStep ==
    ASSUME ~Preemptive, PoolInv, UninterruptedInv, ChannelInv, [Next]_vars
    PROVE  \/ GuardsKept
           \/ \E t \in Threads : Latch(t) \/ Drop(t) \/ \E v \in Values : Write(t, v)
<1> USE PagesAssumption, FramesAssumption, ThreadsAssumption
    DEF PoolInv, UninterruptedInv, ChannelInv, TypeOK, LocalsOK, PinnedResident, FetchChannels,
        FetchWaits, FlushWaits, GuardsKept
<1> USE DEF Phases, PinningPhases, FetchPhases, LoadedPhases, FlushPhases, Goto, Start, Return,
            Fault, table, pins, latch, channels, call, pending, panics
<1>1. ASSUME NEW t \in Threads, NEW p \in Pages, NEW m \in {"read", "write"}, FetchHit(t, p, m)
      PROVE  GuardsKept
  BY <1>1 DEF FetchHit, EvictableAfterPin
<1>2. ASSUME NEW t \in Threads, NEW p \in Pages, NEW m \in {"read", "write"}, NEW f \in Frames,
             FetchMiss(t, p, m, f)
      PROVE  GuardsKept
  BY <1>2 DEF FetchMiss, Claim, Remap, FlushesAfterClaim, MustFlush, PinCountAfterClaim
<1>3. ASSUME NEW t \in Threads, NEW p \in Pages, FetchFull(t, p)
      PROVE  GuardsKept
  BY <1>3 DEF FetchFull
<1>4. ASSUME NEW t \in Threads, NEW p \in Pages, AllocatePage(t, p)
      PROVE  GuardsKept
  BY <1>4 DEF AllocatePage
<1>5. ASSUME NEW t \in Threads, AllocatePageFails(t)
      PROVE  GuardsKept
  BY <1>5 DEF AllocatePageFails
<1>6. ASSUME NEW t \in Threads, FetchPanics(t)
      PROVE  GuardsKept
  BY <1>6 DEF FetchPanics
<1>7. ASSUME NEW t \in Threads, CheckFetch(t)
      PROVE  GuardsKept
  BY <1>7 DEF CheckFetch
<1>8. ASSUME NEW t \in Threads, FetchArrived(t)
      PROVE  GuardsKept
  BY <1>8 DEF FetchArrived
<1>9. ASSUME NEW t \in Threads, FetchClosed(t)
      PROVE  GuardsKept
  BY <1>9, NeverClosed
<1>10. ASSUME NEW t \in Threads, CheckFlush(t)
      PROVE  GuardsKept
  BY <1>10 DEF CheckFlush
<1>11. ASSUME NEW t \in Threads, FlushArrived(t)
      PROVE  GuardsKept
  BY <1>11 DEF FlushArrived
<1>12. ASSUME NEW t \in Threads, FlushClosed(t)
      PROVE  GuardsKept
  BY <1>12, NeverClosed
<1>13. ASSUME NEW t \in Threads, ReadPage(t)
      PROVE  GuardsKept
  BY <1>13 DEF ReadPage
<1>14. ASSUME NEW t \in Threads, ReadPageFails(t)
      PROVE  GuardsKept
  BY <1>14 DEF ReadPageFails
<1>15. ASSUME NEW t \in Threads, Load(t)
      PROVE  GuardsKept
  BY <1>15 DEF Load, FetchesAfterLoad, Deliver, Unlatched
<1>16. ASSUME NEW t \in Threads, Flush(t)
      PROVE  GuardsKept
  BY <1>16 DEF Flush
<1>17. ASSUME NEW t \in Threads, FlushFails(t)
      PROVE  GuardsKept
  BY <1>17 DEF FlushFails
<1>18. ASSUME NEW t \in Threads, Notify(t)
      PROVE  GuardsKept
  BY <1>18 DEF Notify, Deliver
<1>19. ASSUME NEW t \in Threads, NEW f \in Frames, Place(t, f)
      PROVE  GuardsKept
  BY <1>19 DEF Place, Claim, Remap, FlushesAfterClaim, MustFlush, PinCountAfterClaim
<1>20. ASSUME NEW t \in Threads, PlacePanics(t)
      PROVE  GuardsKept
  BY <1>20 DEF PlacePanics
<1>21. ASSUME NEW t \in Threads, CreateFlush(t)
      PROVE  GuardsKept
  BY <1>21 DEF CreateFlush
<1>22. ASSUME NEW t \in Threads, CreateFlushFails(t)
      PROVE  GuardsKept
  BY <1>22 DEF CreateFlushFails
<1>23. ASSUME NEW t \in Threads, CreateNotify(t)
      PROVE  GuardsKept
  BY <1>23 DEF CreateNotify, Deliver
<1>24. ASSUME NEW t \in Threads, AddToEvictor(t)
      PROVE  GuardsKept
  BY <1>24, NeverClosed
<1>25. ASSUME NEW t \in Threads, Unlatch(t)
      PROVE  GuardsKept
  BY <1>25 DEF Unlatch
<1>26. ASSUME NEW t \in Threads, Panic(t)
      PROVE  GuardsKept
  BY <1>26 DEF Panic, LockingPhases
<1>27. CASE UNCHANGED vars
  BY <1>27 DEF vars
<1> HIDE DEF PoolInv, UninterruptedInv, ChannelInv, GuardsKept
<1> QED
  BY <1>1, <1>2, <1>3, <1>4, <1>5, <1>6, <1>7, <1>8, <1>9, <1>10, <1>11, <1>12, <1>13,
     <1>14, <1>15, <1>16, <1>17, <1>18, <1>19, <1>20, <1>21, <1>22, <1>23, <1>24, <1>25,
     <1>26, <1>27 DEF Next, Client, Proceed, Quiescent

-----------------------------------------------------------------------------
(* The variables of the store, as the refinement mapping defines them *)

contents == [p \in Pages |-> Content(p)]
guards == [t \in Threads |-> IF pc[t] = "using" THEN page[t] ELSE NoPage]
writes == [t \in Threads |-> pc[t] = "using" /\ mode[t] = "write"]
views == [t \in Threads |-> IF pc[t] = "using" THEN data[frame[t]] ELSE Absent]

(* A page that is kept has the same content. *)
LEMMA KeptContent ==
    ASSUME NEW r \in Pages, Kept(r)
    PROVE  Content(r)' = Content(r)
<1>1. CASE latest[r] \in Values
  BY <1>1 DEF Kept, Content
<1>2. CASE latest[r] \notin Values
  BY <1>2 DEF Kept, Content, Recoverable
<1> QED
  BY <1>1, <1>2

(* Steps that keep guards and contents are not seen. *)
LEMMA StoreStutters ==
    ASSUME GuardsKept, ContentKept
    PROVE  UNCHANGED <<contents, guards, writes, views>>
<1>1. contents' = contents
  BY KeptContent DEF contents, ContentKept
<1>2. guards' = guards /\ writes' = writes /\ views' = views
  BY DEF guards, writes, views, GuardsKept
<1> QED
  BY <1>1, <1>2

(* Holders of guards of the same page have the same frame; a page that has *)
(* a guard is not being written to disk.                                   *)
LEMMA GuardedPages ==
    ASSUME Inv, NEW t \in Threads, pc[t] \in {"latch", "using"}
    PROVE  /\ page[t] \in Pages /\ frame[t] \in Frames
           /\ page_id[frame[t]] = page[t]
           /\ page_table[page[t]] = frame[t]
           /\ flushes[page[t]] = NoThread
<1>1. /\ page[t] \in Pages /\ frame[t] \in Frames
      /\ page_id[frame[t]] = page[t] /\ page_table[page[t]] = frame[t]
      /\ fetches[page[t]] = NoThread
  BY DEF Inv, PoolInv, LocalsOK, UninterruptedInv, PinnedResident, TableConsistent,
         PinningPhases, ContentSafe, ChannelInv, FetchWaits, LoadedPhases
<1> QED
  BY <1>1, FramesAssumption DEF Inv, ContentSafe, ChannelInv, FlushChannels

(* The failure of a call is a loss in the store, of a page without guards. *)
LEMMA StoreLoses ==
    ASSUME Inv, NEW t \in Threads, Failing(t), GuardsKept
    PROVE  (\E p \in Pages : Store!Lose(p)) \/ UNCHANGED <<contents, guards, writes, views>>
<1>1. PICK q : q = flush_page[t]
  OBVIOUS
<1>2. \A r \in Pages : r # q => Content(r)' = Content(r)
  BY <1>1, LossStep, KeptContent DEF Inv, ContentSafe
<1>3. guards' = guards /\ writes' = writes /\ views' = views
  BY DEF guards, writes, views, GuardsKept
<1>4. CASE q \notin Pages \/ Content(q)' = Content(q)
  BY <1>2, <1>3, <1>4 DEF contents
<1>5. CASE q \in Pages /\ Content(q)' # Content(q)
  <2>1. latest' = latest
    BY DEF Failing, ReadPageFails, FlushFails, CreateFlushFails, Panic
  <2>2. latest[q] \in Values
    BY <1>5, <2>1 DEF Content, Recoverable
  <2>3. Content(q) # Absent /\ Content(q)' \in Values \cup {Unwritten}
    BY <2>1, <2>2, ValuesAssumption DEF Content
  <2>4. flushes[q] = t
    BY <1>1, <1>5, PagesAssumption DEF Inv, ContentSafe, ChannelInv, FlushChannels
  <2>5. \A u \in Threads : guards[u] # q
    BY <1>5, <2>4, GuardedPages, ThreadsAssumption, PagesAssumption DEF guards
  <2>6. contents' = [contents EXCEPT ![q] = Content(q)']
    BY <1>2, <1>5 DEF contents
  <2>7. contents[q] # Absent
    BY <1>5, <2>3 DEF contents
  <2>8. Store!Lose(q)
    BY <1>3, <2>3, <2>5, <2>6, <2>7 DEF Store!Lose, contents, guards, writes, views
  <2> QED
    BY <1>5, <2>8
<1> QED
  BY <1>4, <1>5

(* Taking a latch is the grant of a guard: of a page that is created, or   *)
(* of one that exists.                                                     *)
LEMMA StoreGrants ==
    ASSUME Inv, NEW t \in Threads, Latch(t)
    PROVE  \E p \in Pages : Store!Create(t, p) \/ \E w \in BOOLEAN : Store!Fetch(t, p, w)
<1> DEFINE p == page[t]
           f == frame[t]
           w == mode[t] = "write"
           c == IF latest[p] = Absent THEN Unwritten ELSE Content(p)
<1> USE DEF Latch, Goto, table, pins, channels, call, pending, panics
<1>1. /\ p \in Pages /\ f \in Frames /\ pc[t] = "latch" /\ mode[t] \in {"read", "write"}
      /\ page_table[p] = f
  BY GuardedPages DEF Inv, PoolInv, TypeOK
<1>2. /\ pc' = [pc EXCEPT ![t] = "using"]
      /\ latest' = [latest EXCEPT ![p] = IF @ = Absent THEN Unwritten ELSE @]
      /\ UNCHANGED <<page, frame, mode, data, disk, page_id, is_dirty, flushes, flush_page,
                     flush_data>>
  OBVIOUS
<1>3. \A r \in Pages : r # p \/ latest[p] # Absent => Kept(r)
  BY <1>1, <1>2 DEF Kept, Recoverable, Inv, PoolInv, TypeOK
<1>4. latest[p] = Absent => Content(p) = Absent /\ Content(p)' = Unwritten
  BY <1>1, <1>2, ValuesAssumption DEF Content, Recoverable, Inv, PoolInv, TypeOK
<1>5. contents' = [contents EXCEPT ![p] = c]
  BY <1>1, <1>3, <1>4, KeptContent DEF contents
<1>6. /\ guards' = [guards EXCEPT ![t] = p]
      /\ writes' = [writes EXCEPT ![t] = w]
      /\ views' = [views EXCEPT ![t] = data[f]]
  <2>1. guards' = [guards EXCEPT ![t] = p]
    BY <1>1, <1>2 DEF guards, Inv, PoolInv, TypeOK
  <2>2. writes' = [writes EXCEPT ![t] = w]
    BY <1>1, <1>2 DEF writes, Inv, PoolInv, TypeOK
  <2>3. views' = [views EXCEPT ![t] = data[f]]
    BY <1>1, <1>2 DEF views, Inv, PoolInv, TypeOK
  <2> QED
    BY <2>1, <2>2, <2>3
<1>7. guards[t] = NoPage
  BY <1>1 DEF guards
<1>8. \A u \in Threads : guards[u] = p => ~w /\ ~writes[u]
  <2> SUFFICES ASSUME NEW u \in Threads, guards[u] = p
               PROVE  ~w /\ ~writes[u]
    OBVIOUS
  <2>1. pc[u] = "using" /\ page[u] = p
    BY <1>1, PagesAssumption DEF guards
  <2>2. frame[u] = f
    BY <1>1, <2>1, GuardedPages
  <2>3. mode[u] # "write"
    BY <2>1, <2>2, ThreadsAssumption DEF Inv, ContentSafe, LatchInv
  <2>4. ~w
    BY <2>1, <2>2, <2>3 DEF Inv, PoolInv, TypeOK, ContentSafe, LatchInv
  <2> QED
    BY <2>3, <2>4 DEF writes
<1>9. data[f] \in Values \cup {Zero}
  BY <1>1 DEF Inv, PoolInv, TypeOK, Data
<1>10. CASE latest[p] = Absent
  <2>1. mode[t] = "write"
    BY <1>1, <1>10 DEF Inv, ContentSafe, LatchInv
  <2>2. contents[p] = Absent
    BY <1>1, <1>4, <1>10 DEF contents
  <2>3. Store!Grant(t, p, TRUE, Unwritten)
    BY <1>6, <1>7, <1>8, <1>9, <2>1 DEF Store!Grant, Store!Shows, guards, writes, views
  <2>4. Store!Create(t, p)
    BY <1>5, <1>10, <2>2, <2>3 DEF Store!Create, contents
  <2> QED
    BY <1>1, <2>4
<1>11. CASE latest[p] # Absent
  <2>1. contents' = contents
    BY <1>3, <1>11, KeptContent DEF contents
  <2>2. contents[p] # Absent
    BY <1>1, <1>11, ValuesAssumption DEF contents, Content
  <2>3. data[f] \in Store!Shows(contents[p])
    <3>1. CASE latest[p] \in Values
      <4>1. data[f] = IF Recoverable(p) THEN latest[p] ELSE disk[p]
        BY <1>1, <3>1, GuardShows DEF Inv
      <4> QED
        BY <1>1, <1>9, <3>1, <4>1, ValuesAssumption DEF Store!Shows, contents, Content
    <3>2. CASE latest[p] \notin Values
      <4>1. latest[p] = Unwritten /\ Content(p) = Unwritten
        BY <1>1, <1>11, <3>2 DEF Content, Recoverable, Inv, PoolInv, TypeOK
      <4> QED
        BY <1>1, <1>9, <4>1 DEF Store!Shows, contents
    <3> QED
      BY <3>1, <3>2
  <2>4. Store!Grant(t, p, w, contents[p])
    BY <1>6, <1>7, <1>8, <2>3 DEF Store!Grant, contents, guards, writes, views
  <2>5. Store!Fetch(t, p, w)
    BY <2>1, <2>2, <2>4 DEF Store!Fetch, contents
  <2> QED
    BY <1>1, <2>5
<1> QED
  BY <1>10, <1>11

(* A write through a guard is a write to the store. *)
LEMMA StoreWrites ==
    ASSUME Inv, NEW t \in Threads, NEW v \in Values, Write(t, v)
    PROVE  Store!Write(t, v)
<1> DEFINE p == page[t]
           f == frame[t]
<1> USE DEF Write, table, pins, latch, channels, call, pending, panics
<1>1. /\ p \in Pages /\ f \in Frames /\ pc[t] = "using" /\ mode[t] = "write"
      /\ page_id[f] = p /\ page_table[p] = f
  BY GuardedPages
<1>2. /\ data' = [data EXCEPT ![f] = v]
      /\ is_dirty' = [is_dirty EXCEPT ![f] = TRUE]
      /\ latest' = [latest EXCEPT ![p] = v]
      /\ UNCHANGED <<pc, page, frame, mode, disk, page_id, flushes, flush_page, flush_data>>
  OBVIOUS
<1>3. \A r \in Pages : r # p => Kept(r)
  BY <1>1, <1>2 DEF Kept, Recoverable, Inv, PoolInv, TypeOK
<1>4. Content(p)' = v
  BY <1>1, <1>2 DEF Content, Recoverable, Inv, PoolInv, TypeOK
<1>5. contents' = [contents EXCEPT ![p] = v]
  BY <1>1, <1>3, <1>4, KeptContent DEF contents
<1>6. \A u \in Threads : u # t /\ pc[u] = "using" => frame[u] # f
  <2> SUFFICES ASSUME NEW u \in Threads, u # t, pc[u] = "using", frame[u] = f
               PROVE  FALSE
    OBVIOUS
  <2>1. writer[f] = t /\ readers[f] = {}
    BY <1>1, ThreadsAssumption DEF Inv, ContentSafe, LatchInv
  <2>2. mode[u] \in {"read", "write"}
    BY DEF Inv, PoolInv, TypeOK
  <2> QED
    BY <2>1, <2>2 DEF Inv, ContentSafe, LatchInv
<1>7. guards' = guards /\ writes' = writes /\ views' = [views EXCEPT ![t] = v]
  <2>1. guards' = guards /\ writes' = writes
    BY <1>2 DEF guards, writes
  <2>2. \A u \in Threads : pc[u] = "using" => frame[u] \in Frames
    BY GuardedPages
  <2>3. \A u \in Threads : u # t /\ pc[u] = "using" => data'[frame[u]] = data[frame[u]]
    BY <1>2, <1>6, <2>2 DEF Inv, PoolInv, TypeOK
  <2>4. data'[f] = v
    BY <1>1, <1>2 DEF Inv, PoolInv, TypeOK
  <2>5. views' = [views EXCEPT ![t] = v]
    BY <1>1, <1>2, <2>3, <2>4, ZenonT(30) DEF views
  <2> QED
    BY <2>1, <2>5
<1>8. guards[t] = p /\ writes[t] /\ p # NoPage
  BY <1>1, PagesAssumption DEF guards, writes
<1> QED
  BY <1>5, <1>7, <1>8 DEF Store!Write, contents, guards, writes, views

(* The drop of a guard is seen when its pin is given back. *)
LEMMA StoreDrops ==
    ASSUME Inv, NEW t \in Threads, Drop(t), ContentKept
    PROVE  Store!Drop(t)
<1>1. /\ pc[t] = "using" /\ page[t] \in Pages
      /\ \E ph \in {"adding", "unlatch"} : pc' = [pc EXCEPT ![t] = ph]
      /\ UNCHANGED <<page, frame, mode, data>>
  BY GuardedPages DEF Drop, Unpin, Goto, call
<1>2. contents' = contents
  BY KeptContent DEF contents, ContentKept
<1>3. /\ guards' = [guards EXCEPT ![t] = NoPage]
      /\ writes' = [writes EXCEPT ![t] = FALSE]
      /\ views' = [views EXCEPT ![t] = Absent]
  BY <1>1, ZenonT(30) DEF guards, writes, views, Inv, PoolInv, TypeOK
<1>4. guards[t] # NoPage
  BY <1>1, PagesAssumption DEF guards
<1> QED
  BY <1>2, <1>3, <1>4 DEF Store!Drop, contents, guards, writes, views

(* The initial pool is the initial store. *)
LEMMA StoreInit == Init => Store!Init
<1> SUFFICES ASSUME Init PROVE Store!Init
  OBVIOUS
<1>1. contents = [p \in Pages |-> IF p \in Existing THEN Initial ELSE Absent]
  BY ValuesAssumption DEF Init, contents, Content, Recoverable
<1>2. /\ guards = [t \in Threads |-> NoPage]
      /\ writes = [t \in Threads |-> FALSE]
      /\ views = [t \in Threads |-> Absent]
  BY DEF Init, guards, writes, views
<1> QED
  BY <1>1, <1>2 DEF Store!Init, contents, guards, writes, views

(* Every step of the pool is a step of the store, or is not seen. *)
LEMMA StoreStep ==
    ASSUME ~Preemptive, Inv, [Next]_vars
    PROVE  [Store!Next]_(Store!store)
<1>1. /\ PoolInv /\ UninterruptedInv /\ ChannelInv /\ ContentInv
  BY DEF Inv, ContentSafe
<1>2. \/ GuardsKept
      \/ \E t \in Threads : Latch(t) \/ Drop(t) \/ \E v \in Values : Write(t, v)
  BY <1>1, GuardsStep
<1>3. \/ ContentKept
      \/ \E t \in Threads : Failing(t) \/ Latch(t) \/ \E v \in Values : Write(t, v)
  BY <1>1, KeptStep
<1>4. ASSUME NEW t \in Threads, Latch(t)
      PROVE  Store!Next
  BY <1>4, StoreGrants DEF Store!Next
<1>5. ASSUME NEW t \in Threads, NEW v \in Values, Write(t, v)
      PROVE  Store!Next
  BY <1>5, StoreWrites DEF Store!Next
<1>6. ASSUME NEW t \in Threads, Drop(t), ContentKept
      PROVE  Store!Next
  BY <1>6, StoreDrops DEF Store!Next
<1>7. ASSUME NEW t \in Threads, Drop(t), NEW u \in Threads, Failing(u)
      PROVE  FALSE
  BY <1>7 DEF Drop, Unpin, Goto, Failing, ReadPageFails, FlushFails, CreateFlushFails, Panic,
              Return, Fault, LockingPhases, Inv, PoolInv, TypeOK
<1>8. ASSUME GuardsKept, NEW u \in Threads, Failing(u)
      PROVE  Store!Next \/ UNCHANGED <<contents, guards, writes, views>>
  BY <1>8, StoreLoses DEF Store!Next
<1>9. ASSUME GuardsKept, ContentKept
      PROVE  UNCHANGED <<contents, guards, writes, views>>
  BY <1>9, StoreStutters
<1>10. Store!Next \/ UNCHANGED <<contents, guards, writes, views>>
  BY <1>2, <1>3, <1>4, <1>5, <1>6, <1>7, <1>8, <1>9
<1> QED
  BY <1>10 DEF Store!store, contents, guards, writes, views

(* The buffer pool implements the store of pages: to its clients it is one *)
(* content and one lock per page, whatever is evicted, flushed and         *)
(* reloaded in between; a failing disk can only lose the last write to a   *)
(* page that nobody has a guard of.                                        *)
THEOREM PoolImplementsStore ==
    ASSUME ~Preemptive
    PROVE  Spec => ImplementsPageStore
<1>1. Spec => []Inv
  BY PoolSafe, UninterruptedSafe, ContentInvariant, PTL DEF Inv
<1>2. Inv /\ [Next]_vars => [Store!Next]_(Store!store)
  BY StoreStep
<1> QED
  BY <1>1, <1>2, StoreInit, PTL DEF Spec, ImplementsPageStore, Store!Spec
=============================================================================
