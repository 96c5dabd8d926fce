------------------------------ MODULE SlottedPage ------------------------------
(***************************************************************************)
(* A slotted page (crates/storage/src/slotted_page_view.rs): an array of   *)
(* slots that grows up from the header, and a heap of record bytes that    *)
(* grows down from the end of the page.                                    *)
(*                                                                         *)
(* Offsets are counted from the end of the header.  The bytes of the slot  *)
(* array are the sequence slots, its length the item count of the header;  *)
(* the bytes of the heap are cells, so that a record that is moved,        *)
(* overlapped or cut is read back wrong.  The page has been initialized.   *)
(***************************************************************************)
EXTENDS Integers, Sequences, FiniteSets, SequencesExt, RecordSizes

CONSTANTS
    CAPACITY,      \* PAGE_SIZE - PAGE_HEADER_SIZE
    SLOT_SIZE,
    Records,       \* the records clients store, each the sequence of its bytes
    Bytes,         \* the bytes they are made of
    Zero,          \* the byte 0
    PageTypes,
    Parents,       \* parent page indexes: <<low word, high word>> of a u64
    INVALID_PAGE_INDEX

ASSUME PageAssumption == CAPACITY \in Nat /\ SLOT_SIZE \in Nat \ {0}
ASSUME RecordAssumption == Records \subseteq Seq(Bytes)

VARIABLES
    slots,         \* the slot array: offset and size of each record
    heap_end,      \* the lowest offset of the data heap
    cells,         \* the byte at each offset
    header,        \* page type and page pointers
    result         \* what the last call did or returned

vars == <<slots, heap_end, cells, header, result>>

Slot == [offset : 0 .. CAPACITY, size : 0 .. CAPACITY]

TypeOK ==
    /\ slots \in Seq(Slot)
    /\ heap_end \in 0 .. CAPACITY
    /\ cells \in [0 .. (CAPACITY - 1) -> Bytes \cup {Zero}]
    /\ header.page_type \in PageTypes
    /\ result \in {"Ok", "Inserted", "Updated", "Deleted", "PageFull", "InvalidSlotIndex"}

(* The word at offset 12 is shared: it is the rightmost child or the       *)
(* previous sibling, and the high half of the parent index.                *)
FreshHeader(type, parent) ==
    [page_type |-> type, parent_low |-> parent[1],
     shared |-> INVALID_PAGE_INDEX, next |-> INVALID_PAGE_INDEX]

Init ==
    /\ slots = <<>>
    /\ heap_end = CAPACITY
    /\ cells = [c \in 0 .. (CAPACITY - 1) |-> Zero]
    /\ \E type \in PageTypes, parent \in Parents : header = FreshHeader(type, parent)
    /\ result = "Ok"

-----------------------------------------------------------------------------
Span(offset, size) == offset .. (offset + size - 1)

(* Bytes taken by a number of slots. *)
SlotBytes(n) == n * SLOT_SIZE

get_free_space_contiguous == CAPACITY - SlotBytes(Len(slots)) - (CAPACITY - heap_end)

get_free_space ==
    get_free_space_contiguous + ((CAPACITY - heap_end) - RecordBytes(slots))

get_record(i) ==
    [k \in 1 .. slots[i + 1].size |-> cells[slots[i + 1].offset + k - 1]]

(* The cells after copying a record to an offset. *)
Written(offset, r) ==
    [c \in DOMAIN cells |->
        IF c \in Span(offset, Len(r)) THEN r[c - offset + 1] ELSE cells[c]]

-----------------------------------------------------------------------------
initialize(type, parent) ==
    /\ slots' = <<>>
    /\ heap_end' = CAPACITY
    /\ cells' = [c \in 0 .. (CAPACITY - 1) |-> Zero]
    /\ header' = FreshHeader(type, parent)
    /\ result' = "Ok"

(* Mutants: the new slot is forgotten, or nothing is checked. *)
FitsWithoutSlot(r) == Len(r) <= get_free_space_contiguous
AlwaysFits(r) == TRUE

FitsNew(r) == Len(r) + SLOT_SIZE <= get_free_space_contiguous

(* Mutant: the slots behind the new one are not shifted. *)
InsertedUnshifted(i, slot) ==
    IF i < Len(slots) THEN ReplaceAt(slots, i + 1, slot) ELSE Append(slots, slot)

Inserted(i, slot) == InsertAt(slots, i + 1, slot)

try_insert_record(i, r) ==
    LET offset == heap_end - Len(r) IN
    /\ FitsNew(r)
    /\ i <= Len(slots)
    /\ cells' = Written(offset, r)
    /\ heap_end' = offset
    /\ slots' = Inserted(i, [offset |-> offset, size |-> Len(r)])
    /\ result' = "Inserted"
    /\ UNCHANGED header

(* The space is checked before the index. *)
InsertRefused(i, r) ==
    /\ ~(FitsNew(r) /\ i <= Len(slots))
    /\ result' = IF FitsNew(r) THEN "InvalidSlotIndex" ELSE "PageFull"
    /\ UNCHANGED <<slots, heap_end, cells, header>>

InPlace(i, r) == Len(r) <= slots[i + 1].size

UpdateInPlace(i, r) ==
    /\ i < Len(slots)
    /\ InPlace(i, r)
    /\ cells' = Written(slots[i + 1].offset, r)
    /\ slots' = [slots EXCEPT ![i + 1].size = Len(r)]
    /\ result' = "Updated"
    /\ UNCHANGED <<heap_end, header>>

(* A larger record moves to the end of the heap and leaves a hole. *)
UpdateRelocated(i, r) ==
    LET offset == heap_end - Len(r) IN
    /\ i < Len(slots)
    /\ ~InPlace(i, r)
    /\ Len(r) <= get_free_space_contiguous
    /\ cells' = Written(offset, r)
    /\ slots' = [slots EXCEPT ![i + 1] = [offset |-> offset, size |-> Len(r)]]
    /\ heap_end' = offset
    /\ result' = "Updated"
    /\ UNCHANGED header

UpdateRefused(i, r) ==
    /\ \/ i >= Len(slots) /\ result' = "InvalidSlotIndex"
       \/ /\ i < Len(slots)
          /\ ~InPlace(i, r)
          /\ Len(r) > get_free_space_contiguous
          /\ result' = "PageFull"
    /\ UNCHANGED <<slots, heap_end, cells, header>>

(* The bytes of the record stay in the heap; an index that does not exist  *)
(* is ignored.                                                             *)
delete_record(i) ==
    /\ slots' = IF i < Len(slots) THEN RemoveAt(slots, i + 1) ELSE slots
    /\ result' = IF i < Len(slots) THEN "Deleted" ELSE "Ok"
    /\ UNCHANGED <<heap_end, cells, header>>

(* Mutant: the records are moved and the end of the heap is not. *)
CompactedEndForgotten == heap_end

(* Where compact() puts a record: in slot order, from the end of the page. *)
CompactedOffset(i) == CAPACITY - RecordBytes(SubSeq(slots, 1, i + 1))
CompactedEnd == CAPACITY - RecordBytes(slots)

(* Nothing is done unless there is a hole; the free block is zeroed. *)
compact ==
    /\ get_free_space # get_free_space_contiguous
    /\ slots' = [k \in DOMAIN slots |->
                    [offset |-> CompactedOffset(k - 1), size |-> slots[k].size]]
    /\ cells' = [c \in DOMAIN cells |->
           IF c \in Span(SlotBytes(Len(slots)), get_free_space) THEN Zero
           ELSE IF \E k \in DOMAIN slots : c \in Span(CompactedOffset(k - 1), slots[k].size)
           THEN LET k == CHOOSE k \in DOMAIN slots :
                            c \in Span(CompactedOffset(k - 1), slots[k].size)
                IN  cells[slots[k].offset + c - CompactedOffset(k - 1)]
           ELSE cells[c]]
    /\ heap_end' = CompactedEnd
    /\ result' = "Ok"
    /\ UNCHANGED header

(* Indexes up to one past the end; all larger ones are refused alike. *)
Next ==
    \/ \E type \in PageTypes, parent \in Parents : initialize(type, parent)
    \/ \E i \in 0 .. (Len(slots) + 1), r \in Records :
        \/ try_insert_record(i, r)
        \/ InsertRefused(i, r)
        \/ UpdateInPlace(i, r)
        \/ UpdateRelocated(i, r)
        \/ UpdateRefused(i, r)
    \/ \E i \in 0 .. Len(slots) : delete_record(i)
    \/ compact

Spec == Init /\ [][Next]_vars

-----------------------------------------------------------------------------
(* Live records lie in the heap, no two of them share a byte, and the slot *)
(* array ends below the heap: none of the subtractions of unsigned sizes   *)
(* in the free space methods underflows, and no write hits another record. *)
HeapWellFormed ==
    /\ SlotBytes(Len(slots)) <= heap_end
    /\ \A k \in DOMAIN slots :
        heap_end <= slots[k].offset /\ slots[k].offset + slots[k].size <= CAPACITY
    /\ \A j, k \in DOMAIN slots :
        j # k => Span(slots[j].offset, slots[j].size)
                     \cap Span(slots[k].offset, slots[k].size) = {}

(* compact() turns every hole that deletions, shrinking updates and        *)
(* relocations left into contiguous space: afterwards only the slots and   *)
(* the live records are used, so that PageFull means full.                 *)
CompactReclaims ==
    [][ compact => get_free_space_contiguous' =
                       CAPACITY - SlotBytes(Len(slots)) - RecordBytes(slots) ]_vars

(* Through insertions, moves, deletions and compactions, get_record() of   *)
(* every index returns the bytes last stored there, and the other records  *)
(* keep their order and their bytes.                                       *)
List == INSTANCE RecordList WITH
    records <- [k \in DOMAIN slots |-> get_record(k - 1)]
ImplementsRecordList == List!Spec
=============================================================================
