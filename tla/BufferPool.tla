------------------------------ MODULE BufferPool ------------------------------
(***************************************************************************)
(* The buffer pool manager (crates/storage/src/buffer_pool_manager.rs)     *)
(* with its frames (frame.rs), page guards (page_guard.rs) and the map of  *)
(* in-flight I/O (page_processing_map.rs), shared by several threads.      *)
(*                                                                         *)
(* The granularity is the code's: a section that runs under the page_table *)
(* or the page_io_processing mutex is one step, an await is a point where  *)
(* every other thread may run, and a page latch (the RwLock of a frame) is *)
(* taken in a step of its own.  Unpinning takes two steps of an operating  *)
(* system thread: the pin count is decremented outside of any mutex, and   *)
(* the evictor is told afterwards.  The constant Preemptive says whether   *)
(* another thread can run in between.                                      *)
(*                                                                         *)
(* External to this module: the evictor is any implementation of the trait *)
(* Evictor (see Evictor), so a victim is any eligible frame; the disk      *)
(* manager is a map from pages to contents whose calls complete or fail    *)
(* (see DiskManager).                                                      *)
(***************************************************************************)
EXTENDS Integers, FiniteSets

CONSTANTS
    Threads,      \* callers of the pool, each using one page guard at a time
    Frames,       \* frame IDs
    Pages,        \* page IDs the disk manager can hand out
    Existing,     \* the pages that are on disk before the pool is created
    Values,       \* page contents written by clients
    Initial,      \* the content of the existing pages
    Zero,         \* a zeroed page
    Absent,       \* no content: a page that was never allocated
    Unwritten,    \* an allocated page that no client has written
    NoThread, NoFrame, NoPage,
    MaxOps,       \* bound: operations started by all clients
    MaxFaults,    \* bound: disk operations that fail
    Preemptive    \* can a thread be preempted between the two halves of unpinning?

ASSUME PagesAssumption == Existing \subseteq Pages /\ NoPage \notin Pages
ASSUME FramesAssumption == NoFrame \notin Frames
ASSUME ThreadsAssumption == IsFiniteSet(Threads) /\ NoThread \notin Threads
ASSUME ValuesAssumption ==
    /\ Initial \in Values
    /\ Zero \notin Values
    /\ Absent \notin Values \cup {Zero}
    /\ Unwritten \notin Values \cup {Zero, Absent}
ASSUME BoundsAssumption == MaxOps \in Nat /\ MaxFaults \in Nat /\ Preemptive \in BOOLEAN

VARIABLES
    (* BufferPoolManager *)
    page_table,      \* the frame of every cached page
    free_frames,     \* frames never used yet
    fetches,         \* the thread whose channel announces the end of a page's read
    flushes,         \* the thread whose channel announces the end of a page's write
    poisoned,        \* a thread panicked holding page_table and page_io_processing
    (* Frame *)
    page_id, pin_count, is_dirty,
    data,            \* the bytes behind the frame's latch
    writer, readers, \* who holds the latch
    latch_poisoned,  \* frames whose latch was held by a thread that panicked
    (* Evictor, DiskManager *)
    evictable,       \* frames eligible for eviction
    disk,            \* content of every page on disk
    (* the threads: locals of the calls in progress *)
    pc, page, frame, mode,
    flush_page, flush_data,   \* the copy of an evicted dirty page
    read_buffer,
    sub,             \* the channel waited for, named by the thread that made it
    (* environment and history *)
    ops, faults,
    latest           \* what clients last wrote to each page

table == <<page_table, free_frames, page_id>>
pins == <<pin_count, evictable>>
latch == <<writer, readers>>
channels == <<fetches, flushes, sub>>
call == <<page, frame, mode>>
pending == <<flush_page, flush_data>>
panics == <<poisoned, latch_poisoned>>
vars == <<table, pins, is_dirty, data, latch, channels, call, pending, read_buffer,
          panics, disk, pc, ops, faults, latest>>

Data == Values \cup {Zero}

(* The phases of a thread.  Fetch: a hit goes through check_fetch and      *)
(* perhaps wait_fetch, a miss through check_flush, perhaps wait_flush,     *)
(* read, load and, if a dirty page was evicted, flush and notify.  Create: *)
(* place and perhaps create_flush and create_notify.  All end in latch and *)
(* using; dropping the guard goes through adding and unlatch.              *)
FetchPhases == {"check_flush", "wait_flush", "read", "load"}
PinningPhases == FetchPhases \cup
    {"check_fetch", "wait_fetch", "flush", "notify", "notify_failed",
     "create_flush", "create_notify", "latch", "using"}
Phases == PinningPhases \cup {"idle", "place", "adding", "unlatch", "panicked"}

TypeOK ==
    /\ page_table \in [Pages -> Frames \cup {NoFrame}]
    /\ free_frames \in SUBSET Frames
    /\ page_id \in [Frames -> Pages \cup {NoPage}]
    /\ pin_count \in [Frames -> Nat]
    /\ evictable \in SUBSET Frames
    /\ is_dirty \in [Frames -> BOOLEAN]
    /\ data \in [Frames -> Data]
    /\ writer \in [Frames -> Threads \cup {NoThread}]
    /\ readers \in [Frames -> SUBSET Threads]
    /\ fetches \in [Pages -> Threads \cup {NoThread}]
    /\ flushes \in [Pages -> Threads \cup {NoThread}]
    /\ sub \in [Threads -> Threads \cup {NoThread}]
    /\ page \in [Threads -> Pages \cup {NoPage}]
    /\ frame \in [Threads -> Frames \cup {NoFrame}]
    /\ mode \in [Threads -> {"read", "write"}]
    /\ flush_page \in [Threads -> Pages \cup {NoPage}]
    /\ flush_data \in [Threads -> Data \cup {Absent}]
    /\ read_buffer \in [Threads -> Data]
    /\ poisoned \in BOOLEAN
    /\ latch_poisoned \in SUBSET Frames
    /\ disk \in [Pages -> Data \cup {Absent}]
    /\ pc \in [Threads -> Phases]
    /\ ops \in 0 .. MaxOps
    /\ faults \in 0 .. MaxFaults
    /\ latest \in [Pages -> Values \cup {Absent, Unwritten}]

Init ==
    /\ page_table = [p \in Pages |-> NoFrame]
    /\ free_frames = Frames
    /\ page_id = [f \in Frames |-> NoPage]
    /\ pin_count = [f \in Frames |-> 0]
    /\ evictable = {}
    /\ is_dirty = [f \in Frames |-> FALSE]
    /\ data = [f \in Frames |-> Zero]
    /\ writer = [f \in Frames |-> NoThread]
    /\ readers = [f \in Frames |-> {}]
    /\ fetches = [p \in Pages |-> NoThread]
    /\ flushes = [p \in Pages |-> NoThread]
    /\ sub = [t \in Threads |-> NoThread]
    /\ page = [t \in Threads |-> NoPage]
    /\ frame = [t \in Threads |-> NoFrame]
    /\ mode = [t \in Threads |-> "read"]
    /\ flush_page = [t \in Threads |-> NoPage]
    /\ flush_data = [t \in Threads |-> Absent]
    /\ read_buffer = [t \in Threads |-> Zero]
    /\ poisoned = FALSE
    /\ latch_poisoned = {}
    /\ disk = [p \in Pages |-> IF p \in Existing THEN Initial ELSE Absent]
    /\ pc = [t \in Threads |-> "idle"]
    /\ ops = 0
    /\ faults = 0
    /\ latest = [p \in Pages |-> IF p \in Existing THEN Initial ELSE Absent]

-----------------------------------------------------------------------------
(* Helpers *)

Goto(t, phase) == pc' = [pc EXCEPT ![t] = phase]

(* A client calls the pool. *)
Start(t) ==
    /\ pc[t] = "idle"
    /\ ops < MaxOps
    /\ ops' = ops + 1

(* A call returns, or its guard is gone: its locals go out of scope. *)
Return(t) ==
    /\ Goto(t, "idle")
    /\ page' = [page EXCEPT ![t] = NoPage]
    /\ frame' = [frame EXCEPT ![t] = NoFrame]
    /\ flush_page' = [flush_page EXCEPT ![t] = NoPage]
    /\ flush_data' = [flush_data EXCEPT ![t] = Absent]
    /\ read_buffer' = [read_buffer EXCEPT ![t] = Zero]
    /\ UNCHANGED mode

(* A disk operation fails. *)
Fault ==
    /\ faults < MaxFaults
    /\ faults' = faults + 1

Unlatched(f) == writer[f] = NoThread /\ readers[f] = {}

(* Mutant: pin_frame does not tell the evictor. *)
EvictorNotTold(f) == evictable

(* pin_frame: the evictor forgets a frame whose pin count leaves zero. *)
EvictableAfterPin(f) == IF pin_count[f] = 0 THEN evictable \ {f} ELSE evictable

(* A frame for a page that is not cached: a free one, else a victim. *)
Available == IF free_frames # {} THEN free_frames ELSE evictable

(* Mutant: the dirty flag is cleared before it is examined. *)
NeverFlush(f) == FALSE

(* Is the frame about to be reused holding a modified page? *)
MustFlush(f) == f \notin free_frames /\ is_dirty[f]

(* Mutant: evict_page does not remove the victim's page. *)
RemapKeepsVictim(p, f) == [page_table EXCEPT ![p] = f]

(* The victim's page leaves the table as the new page enters it. *)
Remap(p, f) ==
    [q \in Pages |-> IF q = p THEN f
                     ELSE IF q = page_id[f] THEN NoFrame ELSE page_table[q]]

(* Mutant: the flush is not announced. *)
FlushNotAnnounced(t, f) == flushes

(* The eviction announces the flush of the victim's page. *)
FlushesAfterClaim(t, f) ==
    IF MustFlush(f) THEN [flushes EXCEPT ![page_id[f]] = t] ELSE flushes

(* Mutants: the frame is not pinned, or evict_page pins it as well. *)
ClaimDoesNotPin(f) == pin_count
ClaimPinsTwice(f) == [pin_count EXCEPT ![f] = @ + 2]

PinCountAfterClaim(f) == [pin_count EXCEPT ![f] = @ + 1]

(* Thread t takes frame f for page p, under the page_table mutex: the part *)
(* that create_page and fetch_and_pin_frame share, evict_page included.    *)
(* Copying a dirty victim waits for its latch.                             *)
Claim(t, p, f) ==
    /\ f \in Available
    /\ MustFlush(f) => writer[f] = NoThread
    /\ page_table' = Remap(p, f)
    /\ free_frames' = free_frames \ {f}
    /\ page_id' = [page_id EXCEPT ![f] = p]
    /\ pin_count' = PinCountAfterClaim(f)
    /\ evictable' = evictable \ {f}
    /\ flushes' = FlushesAfterClaim(t, f)
    /\ flush_page' = [flush_page EXCEPT ![t] = IF MustFlush(f) THEN page_id[f] ELSE NoPage]
    /\ flush_data' = [flush_data EXCEPT ![t] = IF MustFlush(f) THEN data[f] ELSE Absent]
    /\ frame' = [frame EXCEPT ![t] = f]

(* Mutant: the sender is looked up and stays in the map. *)
FetchStaysInMap(p) == fetches

FetchesAfterLoad(p) == [fetches EXCEPT ![p] = NoThread]

(* The subscribers of channel c that wait in the phase for page p get its  *)
(* message.                                                                *)
Deliver(phase, p, c) ==
    sub' = [w \in Threads |->
               IF pc[w] = phase /\ page[w] = p /\ sub[w] = c THEN NoThread ELSE sub[w]]

(* Mutant: the previous count is compared as if it were the new one. *)
LastPinOffByOne(f) == pin_count[f] = 0

(* fetch_sub returns the previous count: this is the last pin. *)
LastPin(f) == pin_count[f] = 1

(* The decrement of a pin count, by a guard's drop or unpin_frame.  The    *)
(* caller that brings it to zero has to tell the evictor, at once unless   *)
(* it is preempted.                                                        *)
Unpin(t) ==
    LET f == frame[t]
        last == LastPin(f)
    IN  /\ pin_count' = [pin_count EXCEPT ![f] = @ - 1]
        /\ evictable' = IF last /\ ~Preemptive THEN evictable \cup {f} ELSE evictable
        /\ Goto(t, IF last /\ Preemptive THEN "adding" ELSE "unlatch")

-----------------------------------------------------------------------------
(* fetch_and_pin_frame: the page is cached *)

FetchHit(t, p, m) ==
    /\ Start(t)
    /\ ~poisoned
    /\ latest[p] # Absent
    /\ page_table[p] # NoFrame
    /\ pin_count' = [pin_count EXCEPT ![page_table[p]] = @ + 1]
    /\ evictable' = EvictableAfterPin(page_table[p])
    /\ page' = [page EXCEPT ![t] = p]
    /\ frame' = [frame EXCEPT ![t] = page_table[p]]
    /\ mode' = [mode EXCEPT ![t] = m]
    /\ Goto(t, "check_fetch")
    /\ UNCHANGED <<table, is_dirty, data, latch, channels, pending, read_buffer, panics,
                   disk, faults, latest>>

(* Mutant: a hit does not wait for a fetch in flight. *)
CheckFetchNoWait(t) ==
    /\ pc[t] = "check_fetch"
    /\ ~poisoned
    /\ Goto(t, "latch")
    /\ UNCHANGED <<table, pins, is_dirty, data, latch, channels, call, pending, read_buffer,
                   panics, disk, ops, faults, latest>>

(* wait_for_page_fetch looks the page up and subscribes. *)
CheckFetch(t) ==
    /\ pc[t] = "check_fetch"
    /\ ~poisoned
    /\ sub' = [sub EXCEPT ![t] = fetches[page[t]]]
    /\ Goto(t, IF fetches[page[t]] = NoThread THEN "latch" ELSE "wait_fetch")
    /\ UNCHANGED <<table, pins, is_dirty, data, latch, fetches, flushes, call, pending,
                   read_buffer, panics, disk, ops, faults, latest>>

FetchArrived(t) ==
    /\ pc[t] = "wait_fetch"
    /\ sub[t] = NoThread
    /\ Goto(t, "latch")
    /\ UNCHANGED <<table, pins, is_dirty, data, latch, channels, call, pending, read_buffer,
                   panics, disk, ops, faults, latest>>

(* The channel is closed when neither the map nor the call of the thread   *)
(* that created it holds a sender: the waiter gives its pin back.          *)
FetchClosed(t) ==
    LET c == sub[t] IN
    /\ pc[t] = "wait_fetch"
    /\ c # NoThread
    /\ fetches[page[t]] # c
    /\ ~(page[c] = page[t] /\ pc[c] \in FetchPhases \cup {"flush", "notify", "notify_failed"})
    /\ Unpin(t)
    /\ sub' = [sub EXCEPT ![t] = NoThread]
    /\ UNCHANGED <<table, is_dirty, data, latch, fetches, flushes, call, pending, read_buffer,
                   panics, disk, ops, faults, latest>>

-----------------------------------------------------------------------------
(* fetch_and_pin_frame: the page is not cached *)

FetchMiss(t, p, m, f) ==
    /\ Start(t)
    /\ ~poisoned
    /\ latest[p] # Absent
    /\ page_table[p] = NoFrame
    /\ Claim(t, p, f)
    /\ is_dirty' = [is_dirty EXCEPT ![f] = FALSE]
    /\ fetches' = [fetches EXCEPT ![p] = t]
    /\ page' = [page EXCEPT ![t] = p]
    /\ mode' = [mode EXCEPT ![t] = m]
    /\ Goto(t, "check_flush")
    /\ UNCHANGED <<data, latch, sub, read_buffer, panics, disk, faults, latest>>

(* Every frame is pinned: BufferFull. *)
FetchFull(t, p) ==
    /\ Start(t)
    /\ ~poisoned
    /\ latest[p] # Absent
    /\ page_table[p] = NoFrame
    /\ Available = {}
    /\ UNCHANGED <<table, pins, is_dirty, data, latch, channels, call, pending, read_buffer,
                   panics, disk, pc, faults, latest>>

(* Mutant: a miss does not wait for the flush of its page. *)
CheckFlushNoWait(t) ==
    /\ pc[t] = "check_flush"
    /\ ~poisoned
    /\ Goto(t, "read")
    /\ UNCHANGED <<table, pins, is_dirty, data, latch, channels, call, pending, read_buffer,
                   panics, disk, ops, faults, latest>>

(* wait_for_page_flush looks the page up and subscribes. *)
CheckFlush(t) ==
    /\ pc[t] = "check_flush"
    /\ ~poisoned
    /\ sub' = [sub EXCEPT ![t] = flushes[page[t]]]
    /\ Goto(t, IF flushes[page[t]] = NoThread THEN "read" ELSE "wait_flush")
    /\ UNCHANGED <<table, pins, is_dirty, data, latch, fetches, flushes, call, pending,
                   read_buffer, panics, disk, ops, faults, latest>>

FlushArrived(t) ==
    /\ pc[t] = "wait_flush"
    /\ sub[t] = NoThread
    /\ Goto(t, "read")
    /\ UNCHANGED <<table, pins, is_dirty, data, latch, channels, call, pending, read_buffer,
                   panics, disk, ops, faults, latest>>

(* Only the map keeps a sender of a flush channel.  The error leaves the   *)
(* call by `?`: the frame stays pinned and the channels stay in the map.   *)
FlushClosed(t) ==
    /\ pc[t] = "wait_flush"
    /\ sub[t] # NoThread
    /\ flushes[page[t]] # sub[t]
    /\ Return(t)
    /\ sub' = [sub EXCEPT ![t] = NoThread]
    /\ UNCHANGED <<table, pins, is_dirty, data, latch, fetches, flushes, panics, disk, ops,
                   faults, latest>>

(* A read beyond the end of the file leaves the zeroed buffer as it is. *)
ReadPage(t) ==
    /\ pc[t] = "read"
    /\ read_buffer' = [read_buffer EXCEPT ![t] =
                          IF disk[page[t]] = Absent THEN Zero ELSE disk[page[t]]]
    /\ Goto(t, "load")
    /\ UNCHANGED <<table, pins, is_dirty, data, latch, channels, call, pending, panics, disk,
                   ops, faults, latest>>

(* A failed read leaves the call by `?`: the frame stays pinned, mapped    *)
(* and announced as being fetched, and an evicted page is not flushed.     *)
ReadPageFails(t) ==
    /\ pc[t] = "read"
    /\ Fault
    /\ Return(t)
    /\ UNCHANGED <<table, pins, is_dirty, data, latch, channels, panics, disk, ops, latest>>

(* The page is copied into the frame and announced.  The write guard lives *)
(* until the function returns, across the write of an evicted page.        *)
Load(t) ==
    LET f == frame[t]  p == page[t]  flushing == flush_page[t] # NoPage IN
    /\ pc[t] = "load"
    /\ ~poisoned
    /\ f \notin latch_poisoned
    /\ Unlatched(f)
    /\ data' = [data EXCEPT ![f] = read_buffer[t]]
    /\ fetches' = FetchesAfterLoad(p)
    /\ Deliver("wait_fetch", p, fetches[p])
    /\ writer' = IF flushing THEN [writer EXCEPT ![f] = t] ELSE writer
    /\ Goto(t, IF flushing THEN "flush" ELSE "latch")
    /\ UNCHANGED <<table, pins, is_dirty, readers, flushes, call, pending, read_buffer, panics,
                   disk, ops, faults, latest>>

Flush(t) ==
    /\ pc[t] = "flush"
    /\ disk' = [disk EXCEPT ![flush_page[t]] = flush_data[t]]
    /\ Goto(t, "notify")
    /\ UNCHANGED <<table, pins, is_dirty, data, latch, channels, call, pending, read_buffer,
                   panics, ops, faults, latest>>

FlushFails(t) ==
    /\ pc[t] = "flush"
    /\ Fault
    /\ Goto(t, "notify_failed")
    /\ UNCHANGED <<table, pins, is_dirty, data, latch, channels, call, pending, read_buffer,
                   panics, disk, ops, latest>>

(* The end of the flush, successful or not, is announced as Ok; then the   *)
(* function returns, with the frame still pinned if the flush failed.      *)
Notify(t) ==
    LET q == flush_page[t] IN
    /\ pc[t] \in {"notify", "notify_failed"}
    /\ ~poisoned
    /\ flushes' = [flushes EXCEPT ![q] = NoThread]
    /\ Deliver("wait_flush", q, flushes[q])
    /\ writer' = [writer EXCEPT ![frame[t]] = NoThread]
    /\ IF pc[t] = "notify_failed"
       THEN Return(t)
       ELSE /\ Goto(t, "latch")
            /\ flush_page' = [flush_page EXCEPT ![t] = NoPage]
            /\ flush_data' = [flush_data EXCEPT ![t] = Absent]
            /\ UNCHANGED <<call, read_buffer>>
    /\ UNCHANGED <<table, pins, is_dirty, data, readers, fetches, panics, disk, ops, faults,
                   latest>>

-----------------------------------------------------------------------------
(* create_page *)

(* DiskManager::allocate_page writes a zeroed page and returns its ID. *)
AllocatePage(t, p) ==
    /\ Start(t)
    /\ disk[p] = Absent
    /\ disk' = [disk EXCEPT ![p] = Zero]
    /\ page' = [page EXCEPT ![t] = p]
    /\ mode' = [mode EXCEPT ![t] = "write"]
    /\ Goto(t, "place")
    /\ UNCHANGED <<table, pins, is_dirty, data, latch, channels, frame, pending, read_buffer,
                   panics, faults, latest>>

AllocatePageFails(t) ==
    /\ Start(t)
    /\ Fault
    /\ UNCHANGED <<table, pins, is_dirty, data, latch, channels, call, pending, read_buffer,
                   panics, disk, pc, latest>>

(* Neither the bytes nor the dirty flag of the frame are reset. *)
Place(t, f) ==
    /\ pc[t] = "place"
    /\ ~poisoned
    /\ Claim(t, page[t], f)
    /\ Goto(t, IF MustFlush(f) THEN "create_flush" ELSE "latch")
    /\ UNCHANGED <<is_dirty, data, latch, fetches, sub, page, mode, read_buffer, panics, disk,
                   ops, faults, latest>>

(* Every frame is pinned: evict_page(..).unwrap() panics under two locks. *)
PlacePanics(t) ==
    /\ pc[t] = "place"
    /\ ~poisoned
    /\ Available = {}
    /\ poisoned' = TRUE
    /\ Goto(t, "panicked")
    /\ UNCHANGED <<table, pins, is_dirty, data, latch, channels, call, pending, read_buffer,
                   latch_poisoned, disk, ops, faults, latest>>

CreateFlush(t) ==
    /\ pc[t] = "create_flush"
    /\ disk' = [disk EXCEPT ![flush_page[t]] = flush_data[t]]
    /\ Goto(t, "create_notify")
    /\ UNCHANGED <<table, pins, is_dirty, data, latch, channels, call, pending, read_buffer,
                   panics, ops, faults, latest>>

(* The early return keeps the pin and the channel of the flush. *)
CreateFlushFails(t) ==
    /\ pc[t] = "create_flush"
    /\ Fault
    /\ Return(t)
    /\ UNCHANGED <<table, pins, is_dirty, data, latch, channels, panics, disk, ops, latest>>

CreateNotify(t) ==
    LET q == flush_page[t] IN
    /\ pc[t] = "create_notify"
    /\ ~poisoned
    /\ flushes' = [flushes EXCEPT ![q] = NoThread]
    /\ Deliver("wait_flush", q, flushes[q])
    /\ flush_page' = [flush_page EXCEPT ![t] = NoPage]
    /\ flush_data' = [flush_data EXCEPT ![t] = Absent]
    /\ Goto(t, "latch")
    /\ UNCHANGED <<table, pins, is_dirty, data, latch, fetches, call, read_buffer, panics, disk,
                   ops, faults, latest>>

-----------------------------------------------------------------------------
(* Page guards *)

(* read_data() or write_data(), and the guard is handed to the client. *)
Latch(t) ==
    LET f == frame[t]  p == page[t] IN
    /\ pc[t] = "latch"
    /\ f \notin latch_poisoned
    /\ writer[f] = NoThread
    /\ mode[t] = "write" => readers[f] = {}
    /\ writer' = IF mode[t] = "write" THEN [writer EXCEPT ![f] = t] ELSE writer
    /\ readers' = IF mode[t] = "read" THEN [readers EXCEPT ![f] = @ \cup {t}] ELSE readers
    /\ latest' = [latest EXCEPT ![p] = IF @ = Absent THEN Unwritten ELSE @]
    /\ Goto(t, "using")
    /\ UNCHANGED <<table, pins, is_dirty, data, channels, call, pending, read_buffer, panics,
                   disk, ops, faults>>

(* The client modifies the page and calls mark_dirty. *)
Write(t, v) ==
    /\ pc[t] = "using"
    /\ mode[t] = "write"
    /\ data' = [data EXCEPT ![frame[t]] = v]
    /\ is_dirty' = [is_dirty EXCEPT ![frame[t]] = TRUE]
    /\ latest' = [latest EXCEPT ![page[t]] = v]
    /\ UNCHANGED <<table, pins, latch, channels, call, pending, read_buffer, panics, disk, pc,
                   ops, faults>>

Drop(t) ==
    /\ pc[t] = "using"
    /\ Unpin(t)
    /\ UNCHANGED <<table, is_dirty, data, latch, channels, call, pending, read_buffer, panics,
                   disk, ops, faults, latest>>

AddToEvictor(t) ==
    /\ pc[t] = "adding"
    /\ evictable' = evictable \cup {frame[t]}
    /\ Goto(t, "unlatch")
    /\ UNCHANGED <<table, pin_count, is_dirty, data, latch, channels, call, pending,
                   read_buffer, panics, disk, ops, faults, latest>>

(* The lock guard is a field: it is released after Drop::drop has run. *)
Unlatch(t) ==
    LET f == frame[t] IN
    /\ pc[t] = "unlatch"
    /\ writer' = [writer EXCEPT ![f] = IF @ = t THEN NoThread ELSE @]
    /\ readers' = [readers EXCEPT ![f] = @ \ {t}]
    /\ Return(t)
    /\ UNCHANGED <<table, pins, is_dirty, data, channels, panics, disk, ops, faults, latest>>

-----------------------------------------------------------------------------
(* lock().unwrap() on a poisoned mutex or latch panics.  Load and Notify   *)
(* lock the map while they hold the frame's write guard.                   *)
LockingPhases == {"check_fetch", "check_flush", "load", "notify", "notify_failed",
                  "place", "create_notify"}

Panic(t) ==
    LET f == frame[t] IN
    /\ \/ poisoned /\ pc[t] \in LockingPhases
       \/ pc[t] = "latch" /\ f \in latch_poisoned
    /\ pc[t] = "load" => Unlatched(f)
    /\ latch_poisoned' = IF pc[t] \in {"load", "notify", "notify_failed"}
                         THEN latch_poisoned \cup {f} ELSE latch_poisoned
    /\ writer' = [g \in Frames |-> IF writer[g] = t THEN NoThread ELSE writer[g]]
    /\ Goto(t, "panicked")
    /\ UNCHANGED <<table, pins, is_dirty, data, readers, channels, call, pending, read_buffer,
                   poisoned, disk, ops, faults, latest>>

(* A client calls a pool whose mutexes are poisoned. *)
FetchPanics(t) ==
    /\ Start(t)
    /\ poisoned
    /\ Goto(t, "panicked")
    /\ UNCHANGED <<table, pins, is_dirty, data, latch, channels, call, pending, read_buffer,
                   panics, disk, faults, latest>>

-----------------------------------------------------------------------------
(* Clients call the pool and use their guards ... *)
Client(t) ==
    \/ \E p \in Pages, m \in {"read", "write"} : FetchHit(t, p, m)
    \/ \E p \in Pages, m \in {"read", "write"}, f \in Frames : FetchMiss(t, p, m, f)
    \/ \E p \in Pages : FetchFull(t, p)
    \/ \E p \in Pages : AllocatePage(t, p)
    \/ AllocatePageFails(t)
    \/ FetchPanics(t)
    \/ \E v \in Values : Write(t, v)

(* ... and a call that was made proceeds; clients drop their guards. *)
Proceed(t) ==
    \/ CheckFetch(t)
    \/ FetchArrived(t)
    \/ FetchClosed(t)
    \/ CheckFlush(t)
    \/ FlushArrived(t)
    \/ FlushClosed(t)
    \/ ReadPage(t)
    \/ ReadPageFails(t)
    \/ Load(t)
    \/ Flush(t)
    \/ FlushFails(t)
    \/ Notify(t)
    \/ \E f \in Frames : Place(t, f)
    \/ PlacePanics(t)
    \/ CreateFlush(t)
    \/ CreateFlushFails(t)
    \/ CreateNotify(t)
    \/ Latch(t)
    \/ Drop(t)
    \/ AddToEvictor(t)
    \/ Unlatch(t)
    \/ Panic(t)

(* Nobody is in a call. *)
Quiescent ==
    /\ \A t \in Threads : pc[t] \in {"idle", "panicked"}
    /\ UNCHANGED vars

Next ==
    \/ \E t \in Threads : Client(t) \/ Proceed(t)
    \/ Quiescent

(* A thread runs when it can: the operating system schedules it, the disk  *)
(* answers, and a client that holds a guard drops it some day.             *)
Fairness == \A t \in Threads : WF_vars(Proceed(t))

Spec == Init /\ [][Next]_vars /\ Fairness
-----------------------------------------------------------------------------
(* Safety, whatever the threads, the scheduler and the disk do *)

(* page_table and the page_id of the frames are updated by different calls *)
(* (evict_page, create_page, fetch_and_pin_frame) and stay inverse to each *)
(* other: a cached page has one frame and a frame is found by its page.    *)
TableConsistent ==
    \A p \in Pages, f \in Frames : page_table[p] = f <=> page_id[f] = p

(* The threads that have pinned a frame and not given the pin back. *)
Holders(f) == {t \in Threads : frame[t] = f /\ pc[t] \in PinningPhases}

(* Every caller inside the pool and every guard is covered by the pin      *)
(* count, so decrement_pin_count never underflows and no guard's frame has *)
(* pin count zero.                                                         *)
PinsCoverHolders == \A f \in Frames : Cardinality(Holders(f)) <= pin_count[f]

(* No frame is lost: one that is neither free nor pinned is eligible for   *)
(* eviction, or a thread is about to make it so.                           *)
NoFrameLost ==
    \A f \in Frames :
        \/ f \in free_frames \cup evictable
        \/ pin_count[f] > 0
        \/ \E t \in Threads : pc[t] = "adding" /\ frame[t] = f

-----------------------------------------------------------------------------
(* Safety, as long as unpinning is not interrupted *)

(* "If the frame is pinned, then the evictor does not consider it elegible *)
(* for eviction" (the contract of pin_frame and unpin_frame).              *)
PinnedNotEvictable == \A f \in Frames : pin_count[f] > 0 => f \notin evictable

(* A page that is being fetched or that a client holds a guard of stays in *)
(* the frame that its holder was given: it is never evicted under it.      *)
PinnedResident ==
    \A t \in Threads : pc[t] \in PinningPhases => page_id[frame[t]] = page[t]

-----------------------------------------------------------------------------
(* Safety of the content, as long as unpinning is not interrupted *)

(* The last write to a page can be read back: it is in its frame and       *)
(* marked dirty, or on its way to the disk in a call that has announced    *)
(* the flush and can still carry it out, or on disk.                       *)
Recoverable(p) ==
    latest[p] \in Values =>
        \/ disk[p] = latest[p]
        \/ \E f \in Frames : page_id[f] = p /\ is_dirty[f] /\ data[f] = latest[p]
        \/ \E t \in Threads : /\ flushes[p] = t
                              /\ flush_page[t] = p
                              /\ flush_data[t] = latest[p]
                              /\ pc[t] \notin {"notify_failed", "panicked"}

(* A write is lost at one moment only, when an I/O operation of the call   *)
(* that carries it fails (or a thread panics): never later, by a reader,   *)
(* an eviction or another flush, and never while the disk works.           *)
NoLostUpdate ==
    [][\A p \in Pages :
        Recoverable(p) /\ ~Recoverable(p)' => faults' > faults \/ poisoned']_vars

(* A guard shows what was last written to its page, through evictions,     *)
(* flushes and reloads by any thread, unless the write was lost to a       *)
(* fault.                                                                  *)
CoherentGuards ==
    \A t \in Threads :
        (pc[t] = "using" /\ latest[page[t]] \in Values /\ Recoverable(page[t]))
            => data[frame[t]] = latest[page[t]]

(* The map of in-flight processing: a page has a fetch channel while the   *)
(* one thread that reads it is at it, and a flush channel while the one    *)
(* thread that evicted it has to write it, and at no other time unless an  *)
(* early return has left its channel behind.                               *)
InFlightExact == ~poisoned =>
    \A p \in Pages, t \in Threads :
        /\ page[t] = p /\ pc[t] \in FetchPhases => fetches[p] = t
        /\ flush_page[t] = p => flushes[p] = t
        /\ faults = 0 /\ fetches[p] = t => page[t] = p /\ pc[t] \in FetchPhases
        /\ faults = 0 /\ flushes[p] = t => flush_page[t] = p

(* Every pin belongs to a call in progress or to a guard, but for one that *)
(* the early return of a failed call leaves behind.                        *)
NoPinLeak ==
    ~poisoned => \A f \in Frames : pin_count[f] - Cardinality(Holders(f)) <= faults

-----------------------------------------------------------------------------
(* Liveness: a call returns and its guard can be dropped; no caller waits  *)
(* forever for a channel or a latch.                                       *)
CallsReturn == \A t \in Threads : pc[t] # "idle" ~> pc[t] = "idle"

(* The pool implements the store of pages: a guard exists while its client *)
(* is using it and shows the bytes of the frame.  A page whose last write  *)
(* was lost has the content that is on disk.                               *)
Content(p) ==
    IF Recoverable(p) THEN latest[p]
    ELSE IF disk[p] \in Values THEN disk[p] ELSE Unwritten
Store == INSTANCE PageStore WITH
    content <- [p \in Pages |-> Content(p)],
    guarded <- [t \in Threads |-> IF pc[t] = "using" THEN page[t] ELSE NoPage],
    writing <- [t \in Threads |-> pc[t] = "using" /\ mode[t] = "write"],
    view <- [t \in Threads |-> IF pc[t] = "using" THEN data[frame[t]] ELSE Absent]
ImplementsPageStore == Store!Spec

-----------------------------------------------------------------------------
(* What comments and tests say, and the code does not do *)

(* "tracks any in-flight page processing": an entry of the map belongs to  *)
(* a call that is still in progress.                                       *)
ChannelsInFlight ==
    \A p \in Pages, t \in Threads : fetches[p] = t \/ flushes[p] = t => pc[t] # "idle"
=============================================================================
