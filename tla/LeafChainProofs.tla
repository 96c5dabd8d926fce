---------------------------- MODULE LeafChainProofs ----------------------------
(***************************************************************************)
(* The chain of leaves, for any pages, keys, record sizes and capacities.  *)
(***************************************************************************)
EXTENDS LeafChain, SequenceLemmas

-----------------------------------------------------------------------------
(* The inductive invariant *)

(* A page: its records and header, with room for all of them. *)
PageBytes == [records : Seq(Record), heap : Nat, header : Header]

Room(pg) ==
    /\ RecordBytes(pg.records) <= pg.heap
    /\ pg.heap + SlotBytes(get_item_count(pg)) <= CAPACITY

Sorted(records) == \A i, j \in DOMAIN records : i < j => records[i].key < records[j].key

PagesOK ==
    /\ DOMAIN page = Pages
    /\ \A p \in Pages : page[p] \in PageBytes /\ Room(page[p]) /\ Sorted(page[p].records)

(* A leaf has the parent it was given. *)
ParentsOK ==
    /\ parent \in [Pages -> Parents \cup {None}]
    /\ \A p \in Pages : page[p].header.type = "LeafNode" => page[p].header.low = parent[p][1]

(* The caller's tree: leaves with separators that do not descend. *)
Entry == [separator : Keys \cup {0}, leaf : Pages]
TreeOK ==
    /\ tree \in Seq(Entry)
    /\ Len(tree) >= 1
    /\ tree[1] = [separator |-> 0, leaf |-> Root]
    /\ \A i, j \in DOMAIN tree : i < j => /\ tree[i].leaf # tree[j].leaf
                                          /\ tree[i].separator <= tree[j].separator
    /\ \A p \in Leaves : page[p].header.type = "LeafNode"

(* The pages that are not in the tree are blank. *)
SparesBlank ==
    \A p \in Pages \ Leaves :
        /\ page[p].records = <<>> /\ page[p].heap = 0
        /\ page[p].header.shared = INVALID_PAGE_INDEX
        /\ page[p].header.next = INVALID_PAGE_INDEX

(* The next pointers are the order of the tree. *)
NextLeaf(i) == IF i = Len(tree) THEN INVALID_PAGE_INDEX ELSE tree[i + 1].leaf
ChainOK == \A i \in DOMAIN tree : page[tree[i].leaf].header.next = NextLeaf(i)

(* The previous pointers lead back along them, or nowhere. *)
PrevLeaf(i) == IF i = 1 THEN INVALID_PAGE_INDEX ELSE tree[i - 1].leaf
BackOK ==
    \A i \in DOMAIN tree :
        page[tree[i].leaf].header.shared \in {INVALID_PAGE_INDEX, PrevLeaf(i)}

(* The keys of a leaf are between its separator and the next ones. *)
Placed(i, key) ==
    tree[i].separator <= key /\ \A j \in DOMAIN tree : i < j => key < tree[j].separator
KeysPlaced ==
    \A i \in DOMAIN tree : \A k \in DOMAIN page[tree[i].leaf].records :
        Placed(i, page[tree[i].leaf].records[k].key)

ChainInv ==
    /\ PagesOK /\ ParentsOK /\ TreeOK
    /\ result \in {"Ok", "Inserted", "Updated", "Deleted", "Refused", "SplitFailed"}
    /\ Intact => SparesBlank /\ ChainOK /\ BackOK /\ KeysPlaced

-----------------------------------------------------------------------------
(* Pages and their room *)

(* The fields of a record. *)
LEMMA RecordFields ==
    ASSUME NEW r \in Record
    PROVE  /\ r.key \in Keys /\ r.key \in Nat /\ r.key > 0
           /\ r.size \in Nat /\ r.size > 0 /\ r.size + SLOT_SIZE <= CAPACITY
<1>1. r.key \in Keys /\ r.size \in Sizes
  BY DEF Record
<1>2. r.key \in Nat /\ r.key # 0 /\ r.size \in Nat /\ r.size # 0 /\ r.size + SLOT_SIZE <= CAPACITY
  BY <1>1, KeyAssumption, SizeAssumption
<1> QED
  BY <1>1, <1>2

(* Sizes alone, as the lemmas on bytes need them. *)
LEMMA RecordSize == \A r \in Record : r.size \in Nat
  BY RecordFields

(* A page is determined by its fields. *)
LEMMA PageShape ==
    ASSUME NEW pg \in PageBytes
    PROVE  /\ pg = [records |-> pg.records, heap |-> pg.heap, header |-> pg.header]
           /\ pg.records \in Seq(Record) /\ pg.heap \in Nat /\ pg.header \in Header
  BY DEF PageBytes

(* The fields of a page. *)
LEMMA PageFields ==
    ASSUME NEW pg \in PageBytes
    PROVE  /\ pg.records \in Seq(Record) /\ pg.heap \in Nat /\ pg.header \in Header
           /\ Len(pg.records) \in Nat /\ RecordBytes(pg.records) \in Nat
           /\ DOMAIN pg.records = 1 .. Len(pg.records)
           /\ \A k \in 1 .. Len(pg.records) : pg.records[k] \in Record
<1>1. PICK records : records = pg.records
  OBVIOUS
<1>2. records \in Seq(Record) /\ pg.heap \in Nat /\ pg.header \in Header
  BY <1>1, PageShape
<1>3. RecordBytes(records) \in Nat
  BY <1>2, RecordSize, SizesFinite
<1>4. /\ Len(records) \in Nat /\ DOMAIN records = 1 .. Len(records)
      /\ \A k \in 1 .. Len(records) : records[k] \in Record
  BY <1>2
<1> QED
  BY <1>1, <1>2, <1>3, <1>4

(* Slots of two lists. *)
LEMMA SlotsAdd ==
    ASSUME NEW m \in Nat, NEW n \in Nat
    PROVE  /\ SlotBytes(m) \in Nat /\ SlotBytes(n) \in Nat
           /\ SlotBytes(m + n) = SlotBytes(m) + SlotBytes(n)
  BY SizeAssumption DEF SlotBytes

(* One more slot. *)
LEMMA SlotsOne ==
    ASSUME NEW m \in Nat
    PROVE  SlotBytes(m) \in Nat /\ SlotBytes(m + 1) = SlotBytes(m) + SLOT_SIZE
  BY SizeAssumption DEF SlotBytes

(* What has room, by its numbers. *)
LEMMA RoomOf ==
    ASSUME NEW records, NEW heap, NEW header
    PROVE  Room([records |-> records, heap |-> heap, header |-> header])
               <=> RecordBytes(records) <= heap /\ heap + SlotBytes(Len(records)) <= CAPACITY
  BY DEF Room, get_item_count

(* The heap has room for the records, and the page for heap and slots. *)
LEMMA RoomNumbers ==
    ASSUME NEW pg, Room(pg)
    PROVE  RecordBytes(pg.records) <= pg.heap /\ pg.heap + SlotBytes(Len(pg.records)) <= CAPACITY
  BY DEF Room, get_item_count

(* A record that was found to fit leaves the page within its room. *)
LEMMA InsertedPage ==
    ASSUME NEW pg \in PageBytes, Room(pg), NEW i \in 0 .. Len(pg.records), NEW r \in Record,
           Fits(pg, r)
    PROVE  /\ Inserted(pg, i, r) \in PageBytes /\ Room(Inserted(pg, i, r))
           /\ Inserted(pg, i, r).header = pg.header
           /\ Inserted(pg, i, r).records = InsertAt(pg.records, i + 1, r)
<1>1. PICK old, heap, header : old = pg.records /\ heap = pg.heap /\ header = pg.header
  OBVIOUS
<1>2. old \in Seq(Record) /\ heap \in Nat /\ header \in Header /\ i \in 0 .. Len(old)
  BY <1>1, PageShape
<1>3. pg = [records |-> old, heap |-> heap, header |-> header]
  BY <1>1, PageShape
<1>4. PICK new : new = InsertAt(old, i + 1, r)
  OBVIOUS
<1>5. new \in Seq(Record) /\ Len(new) = Len(old) + 1
  BY <1>2, <1>4, InsertAtType
<1>6. RecordBytes(new) = RecordBytes(old) + r.size
  BY <1>2, <1>4, SizesInsert, RecordSize
<1>7. Inserted(pg, i, r) = [records |-> new, heap |-> heap + r.size, header |-> header]
  <2>1. Inserted(pg, i, r) = [pg EXCEPT !.records = new, !.heap = heap + r.size]
    BY <1>1, <1>4 DEF Inserted
  <2> QED
    BY <1>3, <2>1
<1>8. r.size \in Nat /\ CAPACITY \in Nat /\ SLOT_SIZE \in Nat /\ RecordBytes(old) \in Nat /\ Len(old) \in Nat
  BY <1>2, RecordSize, SizeAssumption, SizesFinite
<1>9. [records |-> new, heap |-> heap + r.size, header |-> header] \in PageBytes
  BY <1>2, <1>5, <1>8 DEF PageBytes
<1>10. RecordBytes(old) <= heap /\ r.size + SLOT_SIZE <= CAPACITY - SlotBytes(Len(old)) - heap
  BY <1>1 DEF Room, Fits, get_free_space_contiguous, get_item_count
<1>11. SlotBytes(Len(old)) \in Nat /\ SlotBytes(Len(new)) = SlotBytes(Len(old)) + SLOT_SIZE
  BY <1>5, <1>8, SlotsOne
<1>12. /\ RecordBytes(new) <= heap + r.size
       /\ heap + r.size + SlotBytes(Len(new)) <= CAPACITY
  BY <1>2, <1>6, <1>8, <1>10, <1>11, SMTT(20)
<1>13. Room([records |-> new, heap |-> heap + r.size, header |-> header])
  BY <1>12, RoomOf
<1> QED
  BY <1>1, <1>4, <1>7, <1>9, <1>13

(* A record is replaced in place, or by one at the end of the heap. *)
LEMMA UpdatedPage ==
    ASSUME NEW pg \in PageBytes, Room(pg), NEW i \in 0 .. (Len(pg.records) - 1), NEW r \in Record,
           r.size <= pg.records[i + 1].size \/ ~(r.size > get_free_space_contiguous(pg)),
           NEW new, new = Updated(pg, i, r)
    PROVE  /\ new \in PageBytes /\ Room(new) /\ new.header = pg.header
           /\ new.records = [pg.records EXCEPT ![i + 1] = r]
<1>1. PICK old, heap, header : old = pg.records /\ heap = pg.heap /\ header = pg.header
  OBVIOUS
<1>2. old \in Seq(Record) /\ heap \in Nat /\ header \in Header /\ i \in 0 .. (Len(old) - 1)
  BY <1>1, PageShape
<1>3. pg = [records |-> old, heap |-> heap, header |-> header]
  BY <1>1, PageShape
<1>4. PICK records : records = [old EXCEPT ![i + 1] = r]
  OBVIOUS
<1>5. /\ records \in Seq(Record) /\ Len(records) = Len(old)
      /\ RecordBytes(records) + old[i + 1].size = RecordBytes(old) + r.size
  <2>1. /\ [old EXCEPT ![i + 1] = r] \in Seq(Record)
        /\ Len([old EXCEPT ![i + 1] = r]) = Len(old)
        /\ RecordBytes([old EXCEPT ![i + 1] = r]) + old[i + 1].size = RecordBytes(old) + r.size
    BY <1>2, SizesReplace, RecordSize
  <2> QED
    BY <1>4, <2>1
<1>6. PICK to : to = IF r.size <= old[i + 1].size THEN heap ELSE heap + r.size
  OBVIOUS
<1>7. new = [records |-> records, heap |-> to, header |-> header]
  <2>1. new = [pg EXCEPT !.records = records, !.heap = to]
    BY <1>1, <1>4, <1>6 DEF Updated, ReplaceAt
  <2> QED
    BY <1>3, <2>1
<1>8. r.size \in Nat /\ to \in Nat
  BY <1>2, <1>6, RecordSize
<1>9. [records |-> records, heap |-> to, header |-> header] \in PageBytes
  BY <1>2, <1>5, <1>8 DEF PageBytes
<1>10. r.size \in Nat /\ CAPACITY \in Nat /\ RecordBytes(old) \in Nat /\ Len(old) \in Nat /\ RecordBytes(records) \in Nat
  BY <1>2, <1>5, RecordSize, SizeAssumption, SizesFinite
<1>11. old[i + 1].size \in Nat
  <2>1. i + 1 \in 1 .. Len(old) /\ old[i + 1] \in Record
    BY <1>2
  <2> QED
    BY <2>1, RecordSize
<1>12. SlotBytes(Len(old)) \in Nat
  BY <1>10, SlotsOne
<1>13. RecordBytes(old) <= heap /\ heap + SlotBytes(Len(old)) <= CAPACITY
  BY <1>1, RoomNumbers
<1>14. \/ to = heap /\ r.size <= old[i + 1].size
       \/ to = heap + r.size /\ r.size <= CAPACITY - SlotBytes(Len(old)) - heap
  <2>1. r.size <= old[i + 1].size \/ ~(r.size > CAPACITY - SlotBytes(Len(old)) - heap)
    BY <1>1 DEF get_free_space_contiguous, get_item_count
  <2>2. PICK size, free, before : size = r.size /\ free = CAPACITY - SlotBytes(Len(old)) - heap
                                  /\ before = old[i + 1].size
    OBVIOUS
  <2>3. size \in Int /\ free \in Int /\ before \in Int
    BY <1>2, <1>10, <1>11, <1>12, <2>2
  <2>4. (to = heap /\ size <= before) \/ (to = heap + size /\ size <= free)
    <3>1. size <= before \/ ~(size > free)
      BY <2>1, <2>2
    <3>2. to = IF size <= before THEN heap ELSE heap + size
      BY <1>6, <2>2
    <3> QED
      BY <2>3, <3>1, <3>2
  <2> QED
    BY <2>2, <2>4
<1>15. RecordBytes(records) <= to /\ to + SlotBytes(Len(old)) <= CAPACITY
  <2>1. PICK bytes, slots, before, size, after :
          /\ bytes = RecordBytes(old) /\ slots = SlotBytes(Len(old)) /\ before = old[i + 1].size
          /\ size = r.size /\ after = RecordBytes(records)
    OBVIOUS
  <2>2. bytes \in Nat /\ slots \in Nat /\ before \in Nat /\ size \in Nat /\ after \in Nat
    BY <1>10, <1>11, <1>12, <2>1
  <2>3. after + before = bytes + size /\ bytes <= heap /\ heap + slots <= CAPACITY
    BY <1>5, <1>13, <2>1
  <2>4. CASE to = heap /\ r.size <= old[i + 1].size
    <3>1. to = heap /\ size <= before
      BY <2>1, <2>4
    <3>2. after <= to /\ to + slots <= CAPACITY
      BY <1>2, <1>10, <2>2, <2>3, <3>1
    <3> QED
      BY <2>1, <3>2
  <2>5. CASE to = heap + r.size /\ r.size <= CAPACITY - SlotBytes(Len(old)) - heap
    <3>1. to = heap + size /\ size <= CAPACITY - slots - heap
      BY <2>1, <2>5
    <3>2. after <= to /\ to + slots <= CAPACITY
      BY <1>2, <1>10, <2>2, <2>3, <3>1
    <3> QED
      BY <2>1, <3>2
  <2> QED
    BY <1>14, <2>4, <2>5
<1>16. Room([records |-> records, heap |-> to, header |-> header])
  BY <1>5, <1>15, RoomOf
<1> QED
  BY <1>1, <1>4, <1>7, <1>9, <1>16

(* Deleting leaves a hole and frees a slot. *)
LEMMA RemovedPage ==
    ASSUME NEW pg \in PageBytes, Room(pg), NEW i \in 0 .. (Len(pg.records) - 1),
           NEW new, new = [pg EXCEPT !.records = RemoveAt(@, i + 1)]
    PROVE  /\ new \in PageBytes /\ Room(new) /\ new.header = pg.header
           /\ new.records = RemoveAt(pg.records, i + 1)
<1>1. PICK old, heap, header : old = pg.records /\ heap = pg.heap /\ header = pg.header
  OBVIOUS
<1>2. old \in Seq(Record) /\ heap \in Nat /\ header \in Header /\ i \in 0 .. (Len(old) - 1)
  BY <1>1, PageShape
<1>3. pg = [records |-> old, heap |-> heap, header |-> header]
  BY <1>1, PageShape
<1>4. PICK records : records = RemoveAt(old, i + 1)
  OBVIOUS
<1>5. records \in Seq(Record) /\ Len(records) = Len(old) - 1
  BY <1>2, <1>4, RemoveAtType
<1>6. RecordBytes(records) + old[i + 1].size = RecordBytes(old)
  BY <1>2, <1>4, SizesRemove, RecordSize
<1>7. new = [records |-> records, heap |-> heap, header |-> header]
  BY <1>3, <1>4
<1>8. [records |-> records, heap |-> heap, header |-> header] \in PageBytes
  BY <1>2, <1>5 DEF PageBytes
<1>9. /\ CAPACITY \in Nat /\ SLOT_SIZE \in Nat /\ RecordBytes(old) \in Nat
      /\ RecordBytes(records) \in Nat /\ Len(old) \in Nat /\ Len(records) \in Nat
  BY <1>2, <1>5, RecordSize, SizeAssumption, SizesFinite
<1>10. old[i + 1].size \in Nat
  <2>1. i + 1 \in 1 .. Len(old) /\ old[i + 1] \in Record
    BY <1>2
  <2> QED
    BY <2>1, RecordSize
<1>11. RecordBytes(old) <= heap /\ heap + SlotBytes(Len(old)) <= CAPACITY
  BY <1>1, RoomNumbers
<1>12. SlotBytes(Len(records)) \in Nat /\ SlotBytes(Len(old)) = SlotBytes(Len(records)) + SLOT_SIZE
  <2>1. Len(old) = Len(records) + 1
    BY <1>5, <1>9
  <2> QED
    BY <2>1, <1>9, SlotsOne
<1>13. RecordBytes(records) <= heap /\ heap + SlotBytes(Len(records)) <= CAPACITY
  <2>1. PICK x, y, z, w, v : /\ x = RecordBytes(records) /\ y = RecordBytes(old) /\ z = old[i + 1].size
                             /\ w = SlotBytes(Len(records)) /\ v = SlotBytes(Len(old))
    OBVIOUS
  <2>2. /\ x \in Nat /\ y \in Nat /\ z \in Nat /\ w \in Nat /\ SLOT_SIZE \in Nat /\ CAPACITY \in Nat
        /\ x + z = y /\ y <= heap /\ v = w + SLOT_SIZE /\ heap + v <= CAPACITY
    BY <1>6, <1>9, <1>10, <1>11, <1>12, <2>1
  <2>3. x <= heap /\ heap + w <= CAPACITY
    BY <1>2, <2>2
  <2> QED
    BY <2>1, <2>3
<1>14. Room([records |-> records, heap |-> heap, header |-> header])
  BY <1>13, RoomOf
<1> QED
  BY <1>1, <1>4, <1>7, <1>8, <1>14

(* Compaction leaves no hole. *)
LEMMA CompactedPage ==
    ASSUME NEW pg \in PageBytes, Room(pg),
           NEW new, new = [pg EXCEPT !.heap = RecordBytes(pg.records)]
    PROVE  /\ new \in PageBytes /\ Room(new) /\ new.header = pg.header
           /\ new.records = pg.records
<1>1. PICK old, heap, header : old = pg.records /\ heap = pg.heap /\ header = pg.header
  OBVIOUS
<1>2. old \in Seq(Record) /\ heap \in Nat /\ header \in Header
  BY <1>1, PageShape
<1>3. pg = [records |-> old, heap |-> heap, header |-> header]
  BY <1>1, PageShape
<1>4. new = [records |-> old, heap |-> RecordBytes(old), header |-> header]
  BY <1>1, <1>3
<1>5. RecordBytes(old) \in Nat /\ CAPACITY \in Nat /\ SlotBytes(Len(old)) \in Nat
  BY <1>2, RecordSize, SizesFinite, SizeAssumption, SlotsOne
<1>6. RecordBytes(old) <= heap /\ heap + SlotBytes(Len(old)) <= CAPACITY
  BY <1>1, RoomNumbers
<1>7. RecordBytes(old) <= RecordBytes(old) /\ RecordBytes(old) + SlotBytes(Len(old)) <= CAPACITY
  BY <1>2, <1>5, <1>6
<1>8. Room([records |-> old, heap |-> RecordBytes(old), header |-> header])
  BY <1>7, RoomOf
<1>9. new \in PageBytes
  BY <1>2, <1>4, <1>5 DEF PageBytes
<1> QED
  BY <1>1, <1>4, <1>8, <1>9

-----------------------------------------------------------------------------
(* Appending to a page *)

(* The fields of a page to which records were appended. *)
LEMMA AppendedShape ==
    ASSUME NEW pg \in PageBytes, NEW records \in Seq(Record)
    PROVE  /\ Appended(pg, records) =
                  [records |-> pg.records \o records, heap |-> pg.heap + RecordBytes(records),
                   header |-> pg.header]
           /\ Appended(pg, records) \in PageBytes
           /\ pg.records \o records \in Seq(Record)
           /\ Len(pg.records \o records) = Len(pg.records) + Len(records)
           /\ RecordBytes(pg.records \o records) = RecordBytes(pg.records) + RecordBytes(records)
<1>1. PICK old, heap, header : old = pg.records /\ heap = pg.heap /\ header = pg.header
  OBVIOUS
<1>2. old \in Seq(Record) /\ heap \in Nat /\ header \in Header
  BY <1>1, PageShape
<1>3. pg = [records |-> old, heap |-> heap, header |-> header]
  BY <1>1, PageShape
<1>4. PICK both, bytes : both = old \o records /\ bytes = RecordBytes(records)
  OBVIOUS
<1>5. both \in Seq(Record) /\ Len(both) = Len(old) + Len(records)
  BY <1>2, <1>4, ConcatProperties
<1>6. RecordBytes(both) = RecordBytes(old) + bytes
  BY <1>2, <1>4, SizesConcat, RecordSize
<1>7. bytes \in Nat
  BY <1>4, RecordSize, SizesFinite
<1>8. Appended(pg, records) = [records |-> both, heap |-> heap + bytes, header |-> header]
  <2>1. Appended(pg, records) = [pg EXCEPT !.records = both, !.heap = heap + bytes]
    BY <1>1, <1>4 DEF Appended
  <2> QED
    BY <1>3, <2>1
<1>9. [records |-> both, heap |-> heap + bytes, header |-> header] \in PageBytes
  BY <1>2, <1>5, <1>7 DEF PageBytes
<1> QED
  BY <1>1, <1>4, <1>5, <1>6, <1>8, <1>9

(* A prefix of a list. *)
LEMMA CutType ==
    ASSUME NEW S, NEW s \in Seq(S), NEW i \in 0 .. Len(s)
    PROVE  /\ SubSeq(s, 1, i) \in Seq(S) /\ Len(SubSeq(s, 1, i)) = i
           /\ \A k \in 1 .. i : SubSeq(s, 1, i)[k] = s[k]
  BY SubSeqProperties

(* The record in slot i is taken when the bytes up to it fit. *)
LEMMA AppendTakes ==
    ASSUME NEW pg \in PageBytes, NEW records \in Seq(Record), NEW i \in 1 .. Len(records)
    PROVE  append(Appended(pg, SubSeq(records, 1, i - 1)), records[i]).ok
               <=> pg.heap + RecordBytes(SubSeq(records, 1, i)) + SlotBytes(Len(pg.records) + i)
                       <= CAPACITY
<1>1. PICK before : before = SubSeq(records, 1, i - 1)
  OBVIOUS
<1>2. i - 1 \in 0 .. Len(records) /\ before \in Seq(Record) /\ Len(before) = i - 1
  <2>1. i - 1 \in 0 .. Len(records)
    OBVIOUS
  <2> QED
    BY <2>1, <1>1, CutType
<1>3. PICK part : part = Appended(pg, before)
  OBVIOUS
<1>4. /\ part.records = pg.records \o before /\ part.heap = pg.heap + RecordBytes(before)
      /\ Len(part.records) = Len(pg.records) + (i - 1)
  <2>1. PICK both, bytes : both = pg.records \o before /\ bytes = RecordBytes(before)
    OBVIOUS
  <2>2. /\ part = [records |-> both, heap |-> pg.heap + bytes, header |-> pg.header]
        /\ Len(both) = Len(pg.records) + Len(before)
    BY <1>2, <1>3, <2>1, AppendedShape
  <2>3. part.records = both /\ part.heap = pg.heap + bytes
    BY <2>2
  <2> QED
    BY <1>2, <2>1, <2>2, <2>3
<1>5. PICK r : r = records[i]
  OBVIOUS
<1>6. append(part, r).ok <=> r.size + SLOT_SIZE <= CAPACITY - SlotBytes(Len(part.records)) - part.heap
  BY DEF append, Fits, get_free_space_contiguous, get_item_count
<1>7. r \in Record /\ r.size \in Nat
  BY <1>5, RecordSize
<1>8. RecordBytes(SubSeq(records, 1, i)) = RecordBytes(before) + r.size /\ RecordBytes(before) \in Nat
  BY <1>1, <1>5, SizesStep, RecordSize
<1>9. Len(pg.records) \in Nat /\ pg.heap \in Nat
  BY PageFields
<1>10. PICK n : n = Len(pg.records) + (i - 1)
  OBVIOUS
<1>11. n \in Nat /\ n + 1 = Len(pg.records) + i
  BY <1>2, <1>9, <1>10
<1>12. SlotBytes(n) \in Nat /\ SlotBytes(Len(pg.records) + i) = SlotBytes(n) + SLOT_SIZE
  BY <1>11, SlotsOne
<1>13. PICK heap, bytes, size, slots : /\ heap = pg.heap /\ bytes = RecordBytes(before) /\ size = r.size
                                       /\ slots = SlotBytes(n)
  OBVIOUS
<1>14. append(part, r).ok <=> size + SLOT_SIZE <= CAPACITY - slots - (heap + bytes)
  BY <1>4, <1>6, <1>10, <1>13
<1>15. heap \in Nat /\ bytes \in Nat /\ size \in Nat /\ slots \in Nat /\ CAPACITY \in Nat /\ SLOT_SIZE \in Nat
  BY <1>7, <1>8, <1>9, <1>12, <1>13, SizeAssumption
<1>16. size + SLOT_SIZE <= CAPACITY - slots - (heap + bytes)
          <=> heap + (bytes + size) + (slots + SLOT_SIZE) <= CAPACITY
  BY <1>15
<1> QED
  BY <1>1, <1>3, <1>5, <1>8, <1>12, <1>13, <1>14, <1>16

(* A page after AppendAll(): some of the records, all of them if it is ok. *)
LEMMA AppendAllPage ==
    ASSUME NEW pg \in PageBytes, Room(pg), NEW records \in Seq(Record),
           NEW all, all = AppendAll(pg, records)
    PROVE  \E count \in 0 .. Len(records) :
               /\ all.page \in PageBytes /\ Room(all.page) /\ all.page.header = pg.header
               /\ all.page.records = pg.records \o SubSeq(records, 1, count)
               /\ all.ok => all.page.records = pg.records \o records
<1> DEFINE takes(i) == append(Appended(pg, SubSeq(records, 1, i - 1)), records[i]).ok
           refused == {i \in DOMAIN records : ~takes(i)}
           count == IF refused = {} THEN Len(records) ELSE Min(refused) - 1
<1>1. Len(records) \in Nat /\ DOMAIN records = 1 .. Len(records)
  OBVIOUS
<1>2. all.ok = (refused = {}) /\ all.page = Appended(pg, SubSeq(records, 1, count))
  BY DEF AppendAll
<1>3. refused \subseteq 1 .. Len(records) /\ refused \in SUBSET Nat
  BY <1>1
<1>4. \A i \in 1 .. Len(records) : i \notin refused => takes(i)
  BY <1>1
<1> HIDE DEF refused, takes
<1>5. count \in 0 .. Len(records) /\ (count # 0 => count \notin refused)
  <2>1. CASE refused = {}
    BY <1>1, <2>1
  <2>2. CASE refused # {}
    <3>1. Min(refused) \in refused /\ \A y \in refused : Min(refused) <= y
      BY <1>3, <2>2, MinProperties
    <3>2. count = Min(refused) - 1 /\ Min(refused) \in 1 .. Len(records)
      BY <2>2, <3>1, <1>3
    <3>3. count \notin refused
      <4>1. ~(Min(refused) <= Min(refused) - 1)
        BY <3>2
      <4> QED
        BY <3>1, <3>2, <4>1
    <3> QED
      BY <1>1, <3>2, <3>3
  <2> QED
    BY <2>1, <2>2
<1>6. PICK n : n = count
  OBVIOUS
<1> HIDE DEF count
<1>7. n \in 0 .. Len(records) /\ (n # 0 => n \in 1 .. Len(records) /\ takes(n))
  BY <1>1, <1>4, <1>5, <1>6
<1>8. PICK part : part = SubSeq(records, 1, n)
  OBVIOUS
<1>9. part \in Seq(Record) /\ Len(part) = n
  BY <1>7, <1>8, CutType
<1>10. pg.heap + RecordBytes(part) + SlotBytes(Len(pg.records) + n) <= CAPACITY
  <2>1. CASE n = 0
    <3>1. part = <<>>
      BY <1>9, <2>1
    <3>2. RecordBytes(part) = 0 /\ Len(pg.records) + n = Len(pg.records)
      BY <3>1, <2>1, SizesEmpty, PageFields
    <3>3. pg.heap + 0 = pg.heap
      BY PageFields
    <3> QED
      BY <3>2, <3>3, RoomNumbers
  <2>2. CASE n # 0
    BY <1>7, <1>8, <2>2, AppendTakes DEF takes
  <2> QED
    BY <2>1, <2>2
<1>11. /\ all.page = [records |-> pg.records \o part, heap |-> pg.heap + RecordBytes(part),
                     header |-> pg.header]
       /\ all.page \in PageBytes
       /\ Len(pg.records \o part) = Len(pg.records) + n
       /\ RecordBytes(pg.records \o part) = RecordBytes(pg.records) + RecordBytes(part)
  BY <1>2, <1>6, <1>8, <1>9, AppendedShape
<1>12. RecordBytes(pg.records \o part) <= pg.heap + RecordBytes(part)
  <2>1. /\ RecordBytes(pg.records) \in Nat /\ pg.heap \in Nat /\ RecordBytes(part) \in Nat
        /\ RecordBytes(pg.records) <= pg.heap
    BY <1>9, PageFields, RoomNumbers, SizesFinite, RecordSize
  <2> QED
    BY <1>11, <2>1
<1>13. Room(all.page)
  BY <1>10, <1>11, <1>12, RoomOf
<1>14. all.ok => part = records
  <2> SUFFICES ASSUME all.ok PROVE part = records
    OBVIOUS
  <2>1. n = Len(records)
    BY <1>2, <1>6 DEF count
  <2> QED
    BY <1>8, <1>9, <2>1, CutType
<1>15. all.page.records = pg.records \o part /\ all.page.header = pg.header
  BY <1>11
<1> QED
  BY <1>7, <1>8, <1>11, <1>13, <1>14, <1>15

(* All records are taken when their bytes and slots fit. *)
LEMMA AppendAllFits ==
    ASSUME NEW pg \in PageBytes, NEW records \in Seq(Record),
           pg.heap + RecordBytes(records) + SlotBytes(Len(pg.records) + Len(records)) <= CAPACITY
    PROVE  AppendAll(pg, records).ok
<1> DEFINE takes(i) == append(Appended(pg, SubSeq(records, 1, i - 1)), records[i]).ok
           refused == {i \in DOMAIN records : ~takes(i)}
<1> SUFFICES ASSUME NEW i \in 1 .. Len(records) PROVE takes(i)
  <2>1. AppendAll(pg, records).ok = (refused = {})
    BY DEF AppendAll
  <2>2. DOMAIN records = 1 .. Len(records)
    OBVIOUS
  <2> HIDE DEF takes
  <2> QED
    BY <2>1, <2>2
<1>1. PICK rest : rest = Len(records) - i
  OBVIOUS
<1>2. rest \in Nat /\ Len(pg.records) + i \in Nat /\ i \in 0 .. Len(records)
      /\ Len(pg.records) + Len(records) = (Len(pg.records) + i) + rest
  BY <1>1, PageFields
<1>3. PICK n : n = Len(pg.records) + i
  OBVIOUS
<1>4. SlotBytes(n) \in Nat /\ SlotBytes(rest) \in Nat /\ SlotBytes(n + rest) = SlotBytes(n) + SlotBytes(rest)
  BY <1>2, <1>3, SlotsAdd
<1>5. PICK upto, after : /\ upto = RecordBytes(SubSeq(records, 1, i))
                         /\ after = RecordBytes(SubSeq(records, i + 1, Len(records)))
  OBVIOUS
<1>6. upto \in Nat /\ after \in Nat /\ RecordBytes(records) = upto + after
  BY <1>2, <1>5, SizesCut, RecordSize
<1>7. PICK heap, slots, more : heap = pg.heap /\ slots = SlotBytes(n) /\ more = SlotBytes(rest)
  OBVIOUS
<1>8. heap \in Nat /\ slots \in Nat /\ more \in Nat /\ CAPACITY \in Nat
  BY <1>4, <1>7, PageFields, SizeAssumption
<1>9. heap + (upto + after) + (slots + more) <= CAPACITY
  BY <1>2, <1>3, <1>4, <1>6, <1>7
<1>10. heap + upto + slots <= CAPACITY
  BY <1>6, <1>8, <1>9
<1> QED
  BY <1>3, <1>5, <1>7, <1>10, AppendTakes

-----------------------------------------------------------------------------
(* Sorted records *)

(* A record at the slot that the search returned keeps the page sorted. *)
LEMMA SortedInsert ==
    ASSUME NEW s \in Seq(Record), Sorted(s), NEW r \in Record, NEW i \in 0 .. Len(s),
           \A k \in 1 .. i : s[k].key < r.key,
           \A k \in (i + 1) .. Len(s) : r.key < s[k].key,
           NEW t, t = InsertAt(s, i + 1, r)
    PROVE  /\ t \in Seq(Record) /\ Len(t) = Len(s) + 1 /\ Sorted(t)
           /\ \A k \in 1 .. Len(t) : t[k] = r \/ \E m \in 1 .. Len(s) : t[k] = s[m]
<1>1. t \in Seq(Record) /\ Len(t) = Len(s) + 1 /\ Len(s) \in Nat
  BY InsertAtType
<1>2. t = [k \in 1 .. (Len(s) + 1) |-> IF k <= i THEN s[k] ELSE IF k = i + 1 THEN r ELSE s[k - 1]]
  BY InsertAtFunction
<1>3. ASSUME NEW k \in 1 .. (Len(s) + 1)
      PROVE  /\ k <= i => t[k] = s[k]
             /\ k = i + 1 => t[k] = r
             /\ k > i + 1 => t[k] = s[k - 1]
  BY <1>1, <1>2
<1>4. Sorted(t)
  <2> SUFFICES ASSUME NEW k \in 1 .. (Len(s) + 1), NEW m \in 1 .. (Len(s) + 1), k < m
               PROVE  t[k].key < t[m].key
    BY <1>1 DEF Sorted
  <2>1. \A a, b \in 1 .. Len(s) : a < b => s[a].key < s[b].key
    BY DEF Sorted
  <2>2. CASE m <= i
    BY <1>3, <2>1, <2>2, <1>1
  <2>3. CASE m = i + 1
    BY <1>3, <2>3, <1>1, SMTT(20)
  <2>4. CASE m > i + 1 /\ k <= i
    <3>1. k \in 1 .. Len(s) /\ m - 1 \in 1 .. Len(s) /\ k < m - 1
      BY <2>4, <1>1
    <3> QED
      BY <1>3, <2>1, <2>4, <3>1
  <2>5. CASE m > i + 1 /\ k = i + 1
    <3>1. m - 1 \in (i + 1) .. Len(s)
      BY <2>5, <1>1
    <3> QED
      BY <1>3, <2>5, <3>1
  <2>6. CASE m > i + 1 /\ k > i + 1
    <3>1. k - 1 \in 1 .. Len(s) /\ m - 1 \in 1 .. Len(s) /\ k - 1 < m - 1
      BY <2>6, <1>1
    <3> QED
      BY <1>3, <2>1, <2>6, <3>1
  <2> QED
    BY <1>1, <2>2, <2>3, <2>4, <2>5, <2>6
<1>5. ASSUME NEW k \in 1 .. (Len(s) + 1)
      PROVE  t[k] = r \/ \E m \in 1 .. Len(s) : t[k] = s[m]
  <2>1. CASE k <= i
    BY <1>1, <1>3, <2>1
  <2>2. CASE k = i + 1
    BY <1>3, <2>2
  <2>3. CASE k > i + 1
    <3>1. k - 1 \in 1 .. Len(s)
      BY <1>1, <2>3
    <3> QED
      BY <1>3, <2>3, <3>1
  <2> QED
    BY <1>1, <2>1, <2>2, <2>3
<1> QED
  BY <1>1, <1>4, <1>5

(* A deletion keeps the page sorted. *)
LEMMA SortedRemove ==
    ASSUME NEW s \in Seq(Record), Sorted(s), NEW i \in 0 .. (Len(s) - 1),
           NEW t, t = RemoveAt(s, i + 1)
    PROVE  /\ t \in Seq(Record) /\ Len(t) = Len(s) - 1 /\ Sorted(t)
           /\ \A k \in 1 .. Len(t) : \E m \in 1 .. Len(s) : t[k] = s[m]
<1>1. t \in Seq(Record) /\ Len(t) = Len(s) - 1 /\ Len(s) \in Nat
  BY RemoveAtType
<1>2. t = [k \in 1 .. (Len(s) - 1) |-> IF k <= i THEN s[k] ELSE s[k + 1]]
  BY RemoveAtFunction
<1>3. ASSUME NEW k \in 1 .. (Len(s) - 1)
      PROVE  \E m \in 1 .. Len(s) : t[k] = s[m] /\ m = IF k <= i THEN k ELSE k + 1
  <2>1. k \in 1 .. Len(s) /\ k + 1 \in 1 .. Len(s)
    BY <1>1
  <2> QED
    BY <1>2, <2>1
<1>4. Sorted(t)
  <2> SUFFICES ASSUME NEW k \in 1 .. (Len(s) - 1), NEW m \in 1 .. (Len(s) - 1), k < m
               PROVE  t[k].key < t[m].key
    BY <1>1 DEF Sorted
  <2>1. PICK a \in 1 .. Len(s) : t[k] = s[a] /\ a = IF k <= i THEN k ELSE k + 1
    BY <1>3
  <2>2. PICK b \in 1 .. Len(s) : t[m] = s[b] /\ b = IF m <= i THEN m ELSE m + 1
    BY <1>3
  <2>3. a < b
    BY <2>1, <2>2
  <2> QED
    BY <2>1, <2>2, <2>3 DEF Sorted
<1> QED
  BY <1>1, <1>3, <1>4

(* The search in a sorted page gives the number of smaller keys. *)
(* What a search returns: c is the number of smaller keys. *)
Searched(slot, c, records, key) ==
    /\ slot.slot = c
    /\ slot.found <=> c < Len(records) /\ records[c + 1].key = key
    /\ \A k \in 1 .. c : records[k].key < key
    /\ \A k \in (c + 1) .. Len(records) : key <= records[k].key

(* The search on a sorted page, in terms of its records. *)
LEMMA SearchPage ==
    ASSUME NEW pg \in PageBytes, Sorted(pg.records), NEW key \in Nat
    PROVE  \E c \in 0 .. Len(pg.records) : Searched(search_page(pg, key), c, pg.records, key)
<1>1. PICK records, n : records = pg.records /\ n = Len(records)
  OBVIOUS
<1>2. n \in Nat /\ \A k \in 1 .. n : records[k].key \in Nat
  <2>1. Len(records) \in Nat /\ \A k \in 1 .. Len(records) : records[k] \in Record
    BY <1>1, PageFields
  <2> QED
    BY <1>1, <2>1, RecordFields
<1>3. \A k, m \in 1 .. n : k < m => records[k].key < records[m].key
  <2>1. DOMAIN records = 1 .. n
    BY <1>1, PageFields
  <2> QED
    BY <1>1, <2>1 DEF Sorted
<1> DEFINE upper == {k \in 0 .. n : k = n \/ key <= records[k + 1].key}
<1>4. PICK c \in upper : \A y \in upper : c <= y
  <2>1. upper \in SUBSET Nat /\ n \in upper
    BY <1>2
  <2> HIDE DEF upper
  <2> QED
    BY <2>1, LeastNatural
<1>5. c \in 0 .. n /\ (c < n => key <= records[c + 1].key)
  BY <1>4
<1>6. ASSUME NEW k \in 1 .. c PROVE records[k].key < key
  <2>1. k - 1 \in 0 .. n /\ k - 1 # n /\ (k - 1) + 1 = k /\ k \in 1 .. n /\ ~(c <= k - 1)
    BY <1>2, <1>5
  <2>2. k - 1 \notin upper
    BY <1>4, <2>1
  <2>3. ~(key <= records[(k - 1) + 1].key)
    BY <2>1, <2>2
  <2> QED
    BY <1>2, <2>1, <2>3
<1>7. ASSUME NEW k \in (c + 1) .. n PROVE key <= records[k].key /\ (k # c + 1 => key < records[k].key)
  <2>1. c < n /\ c + 1 \in 1 .. n /\ k \in 1 .. n
    BY <1>2, <1>5
  <2>2. k # c + 1 => records[c + 1].key < records[k].key
    BY <1>3, <2>1
  <2> QED
    BY <1>2, <1>5, <2>1, <2>2
<1> DEFINE relation == [slot \in 0 .. (n - 1) |->
               IF key = records[slot + 1].key THEN "equal"
               ELSE IF key > records[slot + 1].key THEN "greater" ELSE "less"]
<1>8. search_page(pg, key) = find_key(n, relation)
  BY <1>1 DEF search_page, get_item_count
<1>9. Belongs(c, n, relation)
  <2>1. ASSUME NEW i \in 0 .. (c - 1) PROVE relation[i] = "greater"
    <3>1. i + 1 \in 1 .. c /\ i + 1 \in 1 .. n /\ i \in 0 .. (n - 1)
      BY <1>2, <1>5
    <3>2. records[i + 1].key < key /\ records[i + 1].key \in Nat
      BY <1>2, <1>6, <3>1
    <3> QED
      BY <3>1, <3>2
  <2>2. ASSUME NEW i \in (c + 1) .. (n - 1) PROVE relation[i] = "less"
    <3>1. i + 1 \in (c + 1) .. n /\ i + 1 # c + 1 /\ i + 1 \in 1 .. n /\ i \in 0 .. (n - 1)
      BY <1>2, <1>5
    <3>2. key < records[i + 1].key /\ records[i + 1].key \in Nat
      BY <1>2, <1>7, <3>1
    <3> QED
      BY <3>1, <3>2
  <2>3. ASSUME c < n PROVE relation[c] \in {"equal", "less"}
    <3>1. c \in 0 .. (n - 1) /\ c + 1 \in 1 .. n
      BY <1>2, <1>5, <2>3
    <3>2. key <= records[c + 1].key /\ records[c + 1].key \in Nat
      BY <1>2, <1>5, <2>3, <3>1
    <3> QED
      BY <3>1, <3>2
  <2> QED
    BY <2>1, <2>2, <2>3 DEF Belongs
<1>10. c < n => (relation[c] = "equal" <=> records[c + 1].key = key)
  <2> SUFFICES ASSUME c < n PROVE relation[c] = "equal" <=> records[c + 1].key = key
    OBVIOUS
  <2>1. c \in 0 .. (n - 1)
    BY <1>2, <1>5
  <2> QED
    BY <2>1
<1> HIDE DEF relation
<1>11. find_key(n, relation).slot = c /\ (find_key(n, relation).found <=> c < n /\ relation[c] = "equal")
  BY <1>2, <1>5, <1>9, BinarySearchCorrect
<1>12. search_page(pg, key).slot = c /\ (search_page(pg, key).found <=> c < n /\ relation[c] = "equal")
  BY <1>8, <1>11
<1>13. Searched(search_page(pg, key), c, records, key)
  BY <1>1, <1>6, <1>7, <1>10, <1>12 DEF Searched
<1> QED
  BY <1>1, <1>5, <1>13

-----------------------------------------------------------------------------
(* Routing *)

(* The leaves of the tree, by their places in it. *)
LEMMA TreeFields ==
    ASSUME TreeOK
    PROVE  /\ Len(tree) \in Nat /\ Len(tree) >= 1 /\ DOMAIN tree = 1 .. Len(tree)
           /\ \A i \in 1 .. Len(tree) : /\ tree[i].leaf \in Pages
                                        /\ tree[i].separator \in Nat
                                        /\ tree[i].leaf \in Leaves
           /\ tree[1].separator = 0 /\ tree[1].leaf = Root
           /\ \A p : p \in Leaves <=> \E i \in 1 .. Len(tree) : tree[i].leaf = p
<1>1. tree \in Seq(Entry) /\ Len(tree) >= 1 /\ tree[1] = [separator |-> 0, leaf |-> Root]
  BY DEF TreeOK
<1>2. Len(tree) \in Nat /\ DOMAIN tree = 1 .. Len(tree) /\ \A i \in 1 .. Len(tree) : tree[i] \in Entry
  BY <1>1
<1>3. ASSUME NEW e \in Entry PROVE e.leaf \in Pages /\ e.separator \in Nat
  <2>1. e.leaf \in Pages /\ (e.separator \in Keys \/ e.separator = 0)
    BY DEF Entry
  <2>2. \A k \in Keys : k \in Nat
    BY KeyAssumption
  <2> QED
    BY <2>1, <2>2
<1>4. \A p : p \in Leaves <=> \E i \in 1 .. Len(tree) : tree[i].leaf = p
  BY <1>2 DEF Leaves
<1> QED
  BY <1>1, <1>2, <1>3, <1>4

(* A key is routed to a leaf between whose separators it lies. *)
LEMMA RoutePlace ==
    ASSUME TreeOK, NEW key \in Keys
    PROVE  Place(key) \in 1 .. Len(tree) /\ Placed(Place(key), key)
<1> DEFINE below == {i \in DOMAIN tree : tree[i].separator <= key}
<1>1. key \in Nat
  BY KeyAssumption
<1>2. Len(tree) \in Nat /\ below \in SUBSET (0 .. Len(tree)) /\ 1 \in below /\ below \subseteq 1 .. Len(tree)
  BY <1>1, TreeFields
<1>3. Place(key) = Max(below)
  BY DEF Place
<1>4. \A i \in 1 .. Len(tree) : i \in below <=> tree[i].separator <= key
  BY TreeFields
<1> HIDE DEF below
<1>5. Max(below) \in below /\ \A y \in below : y <= Max(below)
  BY <1>2, MaxProperties
<1>6. ASSUME NEW j \in 1 .. Len(tree), Max(below) < j PROVE key < tree[j].separator
  <2>1. ~(j <= Max(below))
    <3>1. PICK last : last = Max(below)
      OBVIOUS
    <3>2. last \in 1 .. Len(tree) /\ last < j
      BY <1>2, <1>5, <1>6, <3>1
    <3>3. ~(j <= last)
      BY <1>2, <3>2
    <3> QED
      BY <3>1, <3>3
  <2>2. ~(tree[j].separator <= key)
    BY <1>4, <1>5, <2>1
  <2> QED
    BY <1>1, <2>2, TreeFields
<1> QED
  BY <1>2, <1>3, <1>4, <1>5, <1>6, TreeFields DEF Placed

-----------------------------------------------------------------------------
(* Steps that change the records of one leaf *)

Fine == {"Ok", "Inserted", "Updated", "Deleted", "Refused"}

(* A call that writes one page leaves the others alone. *)
LEMMA WriteOne ==
    ASSUME NEW p \in Pages, NEW new, NEW res, Write(Only(p, new), res)
    PROVE  /\ DOMAIN page' = Pages /\ page'[p] = new
           /\ \A q \in Pages : q # p => page'[q] = page[q]
           /\ result' = res /\ parent' = parent
<1>1. PICK f : f = Only(p, new)
  OBVIOUS
<1>2. DOMAIN f = {p} /\ f[p] = new
  BY <1>1 DEF Only
<1>3. /\ page' = [q \in Pages |-> IF q \in DOMAIN f THEN f[q] ELSE page[q]]
      /\ result' = res /\ parent' = parent
  BY <1>1 DEF Write
<1> QED
  BY <1>2, <1>3

(* A call that rewrites one leaf, sorted and within its separators, keeps  *)
(* the invariant.                                                          *)
LEMMA RecordsOnly ==
    ASSUME ChainInv, Intact, NEW i \in 1 .. Len(tree), NEW new \in PageBytes, Room(new),
           Sorted(new.records), new.header = page[tree[i].leaf].header,
           \A k \in 1 .. Len(new.records) : Placed(i, new.records[k].key),
           NEW res \in Fine, Write(Only(tree[i].leaf, new), res), UNCHANGED tree
    PROVE  ChainInv'
<1> USE DEF ChainInv
<1>1. PICK p : p = tree[i].leaf
  OBVIOUS
<1>2. p \in Pages /\ p \in Leaves
  BY <1>1, TreeFields
<1>3. /\ DOMAIN page' = Pages /\ page'[p] = new
      /\ \A q \in Pages : q # p => page'[q] = page[q]
      /\ result' = res /\ parent' = parent
  BY <1>1, <1>2, WriteOne
<1>4. \A q \in Pages : page'[q].header = page[q].header
  BY <1>1, <1>3
<1>5. Leaves' = Leaves
  BY DEF Leaves
<1>6. PagesOK'
  <2> SUFFICES ASSUME NEW q \in Pages
               PROVE  page'[q] \in PageBytes /\ Room(page'[q]) /\ Sorted(page'[q].records)
    BY <1>3 DEF PagesOK
  <2>1. CASE q = p
    BY <1>3, <2>1
  <2>2. CASE q # p
    BY <1>3, <2>2 DEF PagesOK
  <2> QED
    BY <2>1, <2>2
<1>7. ParentsOK'
  BY <1>3, <1>4 DEF ParentsOK
<1>8. TreeOK'
  <2>1. \A q \in Leaves : q \in Pages
    BY TreeFields
  <2> QED
    BY <1>4, <1>5, <2>1 DEF TreeOK
<1>9. SparesBlank'
  BY <1>2, <1>3, <1>5 DEF SparesBlank
<1>10. ChainOK'
  <2>1. \A j \in DOMAIN tree : tree[j].leaf \in Pages /\ NextLeaf(j)' = NextLeaf(j)
    BY TreeFields DEF NextLeaf
  <2> QED
    BY <1>4, <2>1 DEF ChainOK
<1>11. BackOK'
  <2>1. \A j \in DOMAIN tree : tree[j].leaf \in Pages /\ PrevLeaf(j)' = PrevLeaf(j)
    BY TreeFields DEF PrevLeaf
  <2> QED
    BY <1>4, <2>1 DEF BackOK
<1>12. KeysPlaced'
  <2>1. \A j, key : Placed(j, key)' = Placed(j, key)
    BY DEF Placed
  <2> SUFFICES ASSUME NEW j \in 1 .. Len(tree), NEW k \in DOMAIN page'[tree[j].leaf].records
               PROVE  Placed(j, page'[tree[j].leaf].records[k].key)
    BY <2>1, TreeFields DEF KeysPlaced
  <2>2. CASE j = i
    <3>1. page'[tree[j].leaf] = new
      BY <1>1, <1>3, <2>2
    <3>2. k \in 1 .. Len(new.records)
      BY <3>1, PageFields
    <3> QED
      BY <2>2, <3>1, <3>2
  <2>3. CASE j # i
    <3>1. tree[j].leaf # p /\ tree[j].leaf \in Pages
      BY <1>1, <2>3, TreeFields DEF TreeOK
    <3>2. page'[tree[j].leaf] = page[tree[j].leaf]
      BY <1>3, <3>1
    <3> QED
      BY <3>2, TreeFields DEF KeysPlaced
  <2> QED
    BY <2>2, <2>3
<1>13. result' \in Fine
  BY <1>3
<1> QED
  BY <1>6, <1>7, <1>8, <1>9, <1>10, <1>11, <1>12, <1>13 DEF Fine

(* An error that is returned before a write keeps the invariant. *)
LEMMA RefuseKeeps ==
    ASSUME ChainInv, Intact, NEW error, Refuse(error)
    PROVE  ChainInv'
<1>1. UNCHANGED <<page, tree, parent>> /\ result' = "Refused"
  BY DEF Refuse
<1>2. UNCHANGED <<PagesOK, ParentsOK>>
  BY <1>1 DEF PagesOK, ParentsOK
<1>3. UNCHANGED <<TreeOK, SparesBlank>>
  BY <1>1 DEF TreeOK, SparesBlank, Leaves
<1>4. UNCHANGED <<ChainOK, BackOK, KeysPlaced>>
  BY <1>1 DEF ChainOK, NextLeaf, BackOK, PrevLeaf, KeysPlaced, Placed
<1> QED
  BY <1>1, <1>2, <1>3, <1>4 DEF ChainInv

(* The leaf that a key is routed to. *)
LEMMA Routed ==
    ASSUME ChainInv, Intact, NEW key \in Keys
    PROVE  \E i \in 1 .. Len(tree) :
               /\ Place(key) = i /\ Route(key) = tree[i].leaf /\ tree[i].leaf \in Pages
               /\ page[tree[i].leaf] \in PageBytes /\ Room(page[tree[i].leaf])
               /\ Sorted(page[tree[i].leaf].records)
               /\ Placed(i, key)
               /\ \A k \in 1 .. Len(page[tree[i].leaf].records) :
                     Placed(i, page[tree[i].leaf].records[k].key)
<1>1. PICK i : i = Place(key)
  OBVIOUS
<1>2. i \in 1 .. Len(tree) /\ Placed(i, key)
  BY <1>1, RoutePlace DEF ChainInv
<1>3. PICK p : p = tree[i].leaf
  OBVIOUS
<1>4. p \in Pages /\ DOMAIN tree = 1 .. Len(tree)
  BY <1>2, <1>3, TreeFields DEF ChainInv
<1>5. page[p] \in PageBytes /\ Room(page[p]) /\ Sorted(page[p].records)
  BY <1>4 DEF ChainInv, PagesOK
<1>6. \A k \in 1 .. Len(page[p].records) : Placed(i, page[p].records[k].key)
  <2>1. DOMAIN page[p].records = 1 .. Len(page[p].records)
    BY <1>5, PageFields
  <2> QED
    BY <1>2, <1>3, <1>4, <2>1 DEF ChainInv, KeysPlaced
<1> QED
  BY <1>1, <1>2, <1>3, <1>4, <1>5, <1>6 DEF Route

(* A record is inserted where it belongs. *)
LEMMA InsertKeeps ==
    ASSUME ChainInv, Intact, NEW r \in Record, NEW p, p = Route(r.key), NEW pg, pg = page[p],
           NEW c \in 0 .. Len(pg.records), Fits(pg, r),
           \A k \in 1 .. c : pg.records[k].key < r.key,
           \A k \in (c + 1) .. Len(pg.records) : r.key < pg.records[k].key,
           Write(Only(p, Inserted(pg, c, r)), "Inserted"), UNCHANGED tree
    PROVE  ChainInv'
<1>1. r.key \in Keys
  BY RecordFields
<1>2. PICK i \in 1 .. Len(tree) :
          /\ p = tree[i].leaf /\ pg \in PageBytes /\ Room(pg) /\ Sorted(pg.records) /\ Placed(i, r.key)
          /\ \A k \in 1 .. Len(pg.records) : Placed(i, pg.records[k].key)
  BY <1>1, Routed
<1>3. PICK new : new = Inserted(pg, c, r)
  OBVIOUS
<1>4. /\ new \in PageBytes /\ Room(new) /\ new.header = pg.header
      /\ new.records = InsertAt(pg.records, c + 1, r)
  BY <1>2, <1>3, InsertedPage
<1>5. PICK old, records : old = pg.records /\ records = new.records
  OBVIOUS
<1>6. old \in Seq(Record) /\ Sorted(old) /\ c \in 0 .. Len(old)
  BY <1>2, <1>5, PageFields
<1>7. records = InsertAt(old, c + 1, r)
  BY <1>4, <1>5
<1>8. /\ Sorted(records)
      /\ \A k \in 1 .. Len(records) : records[k] = r \/ \E m \in 1 .. Len(old) : records[k] = old[m]
  <2>1. /\ \A k \in 1 .. c : old[k].key < r.key
        /\ \A k \in (c + 1) .. Len(old) : r.key < old[k].key
    BY <1>5
  <2> QED
    BY <1>6, <1>7, <2>1, SortedInsert, SMTT(20)
<1>9. \A k \in 1 .. Len(records) : Placed(i, records[k].key)
  BY <1>2, <1>5, <1>8
<1>10. "Inserted" \in Fine
  BY DEF Fine
<1>11. /\ Sorted(new.records) /\ new.header = page[tree[i].leaf].header
       /\ \A k \in 1 .. Len(new.records) : Placed(i, new.records[k].key)
  BY <1>2, <1>4, <1>5, <1>8, <1>9
<1>12. Write(Only(tree[i].leaf, new), "Inserted")
  BY <1>2, <1>3
<1> QED
  BY <1>4, <1>10, <1>11, <1>12, RecordsOnly

(* The search told the slot. *)
LEMMA InsertAtSlotKeeps ==
    ASSUME ChainInv, Intact, NEW r \in Record, NEW p, p = Route(r.key), NEW pg, pg = page[p],
           NEW slot, slot = search_page(pg, r.key), ~slot.found, Fits(pg, r),
           Write(Only(p, Inserted(pg, slot.slot, r)), "Inserted"), UNCHANGED tree
    PROVE  ChainInv'
<1>1. r.key \in Keys /\ r.key \in Nat
  BY RecordFields
<1>2. pg \in PageBytes /\ Sorted(pg.records)
  BY <1>1, Routed
<1>3. PICK c \in 0 .. Len(pg.records) :
          /\ slot.slot = c
          /\ slot.found <=> c < Len(pg.records) /\ pg.records[c + 1].key = r.key
          /\ \A k \in 1 .. c : pg.records[k].key < r.key
          /\ \A k \in (c + 1) .. Len(pg.records) : r.key <= pg.records[k].key
  <2>1. \E c \in 0 .. Len(pg.records) : Searched(slot, c, pg.records, r.key)
    BY <1>1, <1>2, SearchPage
  <2> QED
    BY <2>1 DEF Searched
<1>4. ASSUME NEW k \in (c + 1) .. Len(pg.records) PROVE r.key < pg.records[k].key
  <2>1. /\ Len(pg.records) \in Nat /\ DOMAIN pg.records = 1 .. Len(pg.records)
        /\ \A m \in 1 .. Len(pg.records) : pg.records[m] \in Record
    BY <1>2, PageFields
  <2>2. c < Len(pg.records) /\ k \in 1 .. Len(pg.records) /\ c + 1 \in 1 .. Len(pg.records)
        /\ c + 1 \in (c + 1) .. Len(pg.records)
    BY <1>3, <2>1
  <2>3. pg.records[c + 1].key # r.key /\ r.key <= pg.records[c + 1].key
    BY <1>3, <2>2
  <2>4. pg.records[c + 1].key \in Nat /\ pg.records[k].key \in Nat
    BY <2>1, <2>2, RecordFields
  <2>5. k # c + 1 => pg.records[c + 1].key < pg.records[k].key
    BY <1>2, <2>1, <2>2, SMTT(20) DEF Sorted
  <2> QED
    BY <1>1, <2>3, <2>4, <2>5
<1> QED
  BY <1>3, <1>4, InsertKeeps

(* The calls on the records of one leaf, one by one. *)
LEMMA insert_recordKeeps ==
    ASSUME ChainInv, Intact, NEW r \in Record, insert_record(r)
    PROVE  ChainInv'
<1>1. PICK p, pg, slot : p = Route(r.key) /\ pg = page[p] /\ slot = search_page(pg, r.key)
  OBVIOUS
<1>2. \/ Refuse("DuplicateKey") \/ Refuse("PageFull")
      \/ /\ ~slot.found /\ Fits(pg, r)
         /\ Write(Only(p, Inserted(pg, slot.slot, r)), "Inserted") /\ UNCHANGED tree
  BY <1>1 DEF insert_record
<1>3. CASE Refuse("DuplicateKey") \/ Refuse("PageFull")
  BY <1>3, RefuseKeeps
<1>4. CASE /\ ~slot.found /\ Fits(pg, r)
           /\ Write(Only(p, Inserted(pg, slot.slot, r)), "Inserted") /\ UNCHANGED tree
  BY <1>1, <1>4, InsertAtSlotKeeps
<1> QED
  BY <1>2, <1>3, <1>4

LEMMA insert_raw_recordKeeps ==
    ASSUME ChainInv, Intact, NEW r \in Record, insert_raw_record(r)
    PROVE  ChainInv'
<1>1. PICK p, pg, slot : p = Route(r.key) /\ pg = page[p] /\ slot = search_page(pg, r.key)
  OBVIOUS
<1>2. /\ ~slot.found /\ Fits(pg, r)
      /\ Write(Only(p, Inserted(pg, slot.slot, r)), "Inserted") /\ UNCHANGED tree
  BY <1>1 DEF insert_raw_record
<1> QED
  BY <1>1, <1>2, InsertAtSlotKeeps

LEMMA append_lastKeeps ==
    ASSUME ChainInv, Intact, NEW r \in Record, append_last(r)
    PROVE  ChainInv'
<1>1. PICK p, pg : p = Route(r.key) /\ pg = page[p]
  OBVIOUS
<1>2. /\ \A i \in DOMAIN pg.records : pg.records[i].key < r.key
      /\ append(pg, r).ok /\ Write(Only(p, append(pg, r).page), "Inserted") /\ UNCHANGED tree
  BY <1>1 DEF append_last
<1>3. r.key \in Keys
  BY RecordFields
<1>4. pg \in PageBytes
  BY <1>1, <1>3, Routed
<1>5. Len(pg.records) \in Nat /\ DOMAIN pg.records = 1 .. Len(pg.records)
  BY <1>4, PageFields
<1>6. PICK c : c = Len(pg.records)
  OBVIOUS
<1>7. Fits(pg, r) /\ append(pg, r).page = Inserted(pg, c, r)
  BY <1>2, <1>6 DEF append, get_item_count
<1>8. c \in 0 .. Len(pg.records) /\ (\A k \in 1 .. c : pg.records[k].key < r.key)
      /\ (\A k \in (c + 1) .. Len(pg.records) : r.key < pg.records[k].key)
  BY <1>2, <1>5, <1>6
<1> QED
  BY <1>1, <1>2, <1>7, <1>8, InsertKeeps

(* The search found the slot of a key. *)
LEMMA FoundSlot ==
    ASSUME ChainInv, Intact, NEW key \in Keys, NEW p, p = Route(key), NEW pg, pg = page[p],
           NEW slot, slot = search_page(pg, key), slot.found
    PROVE  \E c \in 0 .. (Len(pg.records) - 1) : slot.slot = c /\ pg.records[c + 1].key = key
<1>1. pg \in PageBytes /\ Sorted(pg.records) /\ key \in Nat
  BY Routed, KeyAssumption
<1>2. PICK c \in 0 .. Len(pg.records) :
          /\ slot.slot = c
          /\ slot.found <=> c < Len(pg.records) /\ pg.records[c + 1].key = key
          /\ \A k \in 1 .. c : pg.records[k].key < key
          /\ \A k \in (c + 1) .. Len(pg.records) : key <= pg.records[k].key
  <2>1. \E c \in 0 .. Len(pg.records) : Searched(slot, c, pg.records, key)
    BY <1>1, SearchPage
  <2> QED
    BY <2>1 DEF Searched
<1>3. Len(pg.records) \in Nat
  BY <1>1, PageFields
<1>4. c \in 0 .. (Len(pg.records) - 1)
  BY <1>2, <1>3
<1> QED
  BY <1>2, <1>4

LEMMA update_recordKeeps ==
    ASSUME ChainInv, Intact, NEW r \in Record, update_record(r)
    PROVE  ChainInv'
<1>1. PICK p, pg, slot : p = Route(r.key) /\ pg = page[p] /\ slot = search_page(pg, r.key)
  OBVIOUS
<1>2. PICK new : new = Updated(pg, slot.slot, r)
  OBVIOUS
<1>3. \/ Refuse("KeyNotFound") \/ Refuse("PageFull")
      \/ /\ slot.found
         /\ r.size <= pg.records[slot.slot + 1].size \/ ~(r.size > get_free_space_contiguous(pg))
         /\ Write(Only(p, new), "Updated") /\ UNCHANGED tree
  BY <1>1, <1>2 DEF update_record
<1>4. CASE Refuse("KeyNotFound") \/ Refuse("PageFull")
  BY <1>4, RefuseKeeps
<1>5. CASE /\ slot.found
           /\ r.size <= pg.records[slot.slot + 1].size \/ ~(r.size > get_free_space_contiguous(pg))
           /\ Write(Only(p, new), "Updated") /\ UNCHANGED tree
  <2>1. r.key \in Keys
    BY RecordFields
  <2>2. PICK i \in 1 .. Len(tree) :
            /\ p = tree[i].leaf /\ pg \in PageBytes /\ Room(pg) /\ Sorted(pg.records)
            /\ \A k \in 1 .. Len(pg.records) : Placed(i, pg.records[k].key)
    BY <1>1, <2>1, Routed
  <2>3. PICK c \in 0 .. (Len(pg.records) - 1) : slot.slot = c /\ pg.records[c + 1].key = r.key
    BY <1>1, <1>5, <2>1, FoundSlot
  <2>4. /\ new \in PageBytes /\ Room(new) /\ new.header = pg.header
        /\ new.records = [pg.records EXCEPT ![c + 1] = r]
    <3>1. r.size <= pg.records[c + 1].size \/ ~(r.size > get_free_space_contiguous(pg))
      BY <1>5, <2>3
    <3> QED
      BY <1>2, <2>2, <2>3, <3>1, UpdatedPage
  <2>5. /\ Sorted(new.records)
        /\ \A k \in 1 .. Len(new.records) : Placed(i, new.records[k].key)
    <3>1. PICK old, m : old = pg.records /\ m = c + 1
      OBVIOUS
    <3>2. old \in Seq(Record) /\ Sorted(old) /\ m \in 1 .. Len(old) /\ r.key = old[m].key
      BY <2>2, <2>3, <3>1, PageFields
    <3>3. PICK t : t = [old EXCEPT ![m] = r]
      OBVIOUS
    <3>4. /\ t \in Seq(Record) /\ Len(t) = Len(old) /\ Sorted(t)
          /\ \A k \in 1 .. Len(t) : t[k].key = old[k].key
      <4>1. t \in Seq(Record) /\ Len(t) = Len(old)
        BY <3>2, <3>3
      <4>2. \A k \in 1 .. Len(old) : t[k].key = old[k].key
        BY <3>2, <3>3
      <4>3. Sorted(t)
        BY <3>2, <4>1, <4>2, SMTT(20) DEF Sorted
      <4> QED
        BY <4>1, <4>2, <4>3
    <3>5. new.records = t
      BY <2>4, <3>1, <3>3
    <3> QED
      BY <2>2, <3>1, <3>4, <3>5
  <2>6. Write(Only(tree[i].leaf, new), "Updated") /\ new.header = page[tree[i].leaf].header
    BY <1>1, <1>5, <2>2, <2>4
  <2>7. "Updated" \in Fine
    BY DEF Fine
  <2> QED
    BY <1>5, <2>4, <2>5, <2>6, <2>7, RecordsOnly
<1> QED
  BY <1>3, <1>4, <1>5

LEMMA delete_recordKeeps ==
    ASSUME ChainInv, Intact, NEW key \in Keys, delete_record(key)
    PROVE  ChainInv'
<1>1. PICK p, pg, slot : p = Route(key) /\ pg = page[p] /\ slot = search_page(pg, key)
  OBVIOUS
<1>2. PICK new : new = [pg EXCEPT !.records = RemoveAt(@, slot.slot + 1)]
  OBVIOUS
<1>3. \/ Refuse("KeyNotFound")
      \/ slot.found /\ Write(Only(p, new), "Deleted") /\ UNCHANGED tree
  BY <1>1, <1>2 DEF delete_record
<1>4. CASE Refuse("KeyNotFound")
  BY <1>4, RefuseKeeps
<1>5. CASE slot.found /\ Write(Only(p, new), "Deleted") /\ UNCHANGED tree
  <2>1. PICK i \in 1 .. Len(tree) :
            /\ p = tree[i].leaf /\ pg \in PageBytes /\ Room(pg) /\ Sorted(pg.records)
            /\ \A k \in 1 .. Len(pg.records) : Placed(i, pg.records[k].key)
    BY <1>1, Routed
  <2>2. PICK c \in 0 .. (Len(pg.records) - 1) : slot.slot = c
    BY <1>1, <1>5, FoundSlot
  <2>3. /\ new \in PageBytes /\ Room(new) /\ new.header = pg.header
        /\ new.records = RemoveAt(pg.records, c + 1)
    BY <1>2, <2>1, <2>2, RemovedPage
  <2>4. /\ Sorted(new.records)
        /\ \A k \in 1 .. Len(new.records) : Placed(i, new.records[k].key)
    <3>1. PICK old, t : old = pg.records /\ t = new.records
      OBVIOUS
    <3>2. old \in Seq(Record) /\ Sorted(old) /\ c \in 0 .. (Len(old) - 1) /\ t = RemoveAt(old, c + 1)
      BY <2>1, <2>2, <2>3, <3>1, PageFields
    <3>3. Sorted(t) /\ \A k \in 1 .. Len(t) : \E m \in 1 .. Len(old) : t[k] = old[m]
      BY <3>2, SortedRemove
    <3> QED
      BY <2>1, <3>1, <3>3
  <2>5. Write(Only(tree[i].leaf, new), "Deleted") /\ new.header = page[tree[i].leaf].header
    BY <1>1, <1>5, <2>1, <2>3
  <2>6. "Deleted" \in Fine
    BY DEF Fine
  <2> QED
    BY <1>5, <2>3, <2>4, <2>5, <2>6, RecordsOnly
<1> QED
  BY <1>3, <1>4, <1>5

LEMMA compactKeeps ==
    ASSUME ChainInv, Intact, NEW p \in Pages, compact(p)
    PROVE  ChainInv'
<1>1. PICK new : new = [page[p] EXCEPT !.heap = RecordBytes(page[p].records)]
  OBVIOUS
<1>2. p \in Leaves /\ Write(Only(p, new), "Ok") /\ UNCHANGED tree
  BY <1>1 DEF compact
<1>3. PICK i \in 1 .. Len(tree) : tree[i].leaf = p
  BY <1>2, TreeFields DEF ChainInv
<1>4. page[p] \in PageBytes /\ Room(page[p]) /\ Sorted(page[p].records)
  BY DEF ChainInv, PagesOK
<1>5. /\ new \in PageBytes /\ Room(new) /\ new.header = page[p].header
      /\ new.records = page[p].records
  BY <1>1, <1>4, CompactedPage
<1>6. \A k \in 1 .. Len(new.records) : Placed(i, new.records[k].key)
  <2>1. DOMAIN page[p].records = 1 .. Len(page[p].records) /\ DOMAIN tree = 1 .. Len(tree)
    BY <1>4, PageFields, TreeFields DEF ChainInv
  <2> QED
    BY <1>3, <1>5, <2>1 DEF ChainInv, KeysPlaced
<1>7. Sorted(new.records) /\ new.header = page[tree[i].leaf].header /\ "Ok" \in Fine
  BY <1>3, <1>4, <1>5 DEF Fine
<1>8. Write(Only(tree[i].leaf, new), "Ok")
  BY <1>2, <1>3
<1> QED
  BY <1>2, <1>5, <1>6, <1>7, <1>8, RecordsOnly

-----------------------------------------------------------------------------
(* New pages *)

(* The low half of a parent index is a word. *)
LEMMA ParentWord ==
    ASSUME NEW x \in Parents \cup {None}
    PROVE  x[1] \in Word
  BY DEF Word, None

(* A page that was initialized is empty and within its room. *)
LEMMA InitializedPage ==
    ASSUME NEW type \in PageType, NEW x, x[1] \in Word, NEW new, new = initialize(type, x)
    PROVE  /\ new \in PageBytes /\ Room(new) /\ Sorted(new.records)
           /\ new.records = <<>> /\ new.heap = 0
           /\ new.header.type = type /\ new.header.low = x[1]
           /\ new.header.shared = INVALID_PAGE_INDEX /\ new.header.next = INVALID_PAGE_INDEX
<1>1. PICK header : header = [type |-> type, low |-> x[1], shared |-> INVALID_PAGE_INDEX,
                              next |-> INVALID_PAGE_INDEX]
  OBVIOUS
<1>2. new = [records |-> <<>>, heap |-> 0, header |-> header]
  BY <1>1 DEF initialize
<1>3. INVALID_PAGE_INDEX \in Word
  BY DEF Word
<1>4. header \in Header
  BY <1>1, <1>3 DEF Header
<1>5. new \in PageBytes
  BY <1>2, <1>4 DEF PageBytes
<1>6. RecordBytes(<<>>) <= 0 /\ 0 + SlotBytes(Len(<<>>)) <= CAPACITY
  <2>1. Len(<<>>) = 0 /\ SlotBytes(0) = 0
    BY SizeAssumption DEF SlotBytes
  <2> QED
    BY <2>1, SizesEmpty, SizeAssumption
<1>7. Room(new)
  BY <1>2, <1>6, RoomOf
<1>8. Sorted(<<>>)
  BY DEF Sorted
<1>9. new.records = <<>> /\ new.heap = 0 /\ new.header = header
  BY <1>2
<1> QED
  BY <1>1, <1>5, <1>7, <1>8, <1>9

(* The invariant holds at the start. *)
LEMMA InitKeeps ==
    ASSUME Init
    PROVE  ChainInv
<1>1. PICK x \in Parents :
          /\ page = [p \in Pages |->
                        IF p = Root THEN initialize("LeafNode", x) ELSE initialize("Invalid", None)]
          /\ parent = [p \in Pages |-> IF p = Root THEN x ELSE None]
  BY DEF Init
<1>2. tree = <<[separator |-> 0, leaf |-> Root]>> /\ result = "Ok"
  BY DEF Init
<1>3. PICK leaf, blank : leaf = initialize("LeafNode", x) /\ blank = initialize("Invalid", None)
  OBVIOUS
<1>4. "LeafNode" \in PageType /\ "Invalid" \in PageType /\ "Invalid" # "LeafNode"
  BY DEF PageType
<1>5. /\ leaf \in PageBytes /\ Room(leaf) /\ Sorted(leaf.records) /\ leaf.records = <<>>
      /\ leaf.header.type = "LeafNode" /\ leaf.header.low = x[1]
      /\ leaf.header.shared = INVALID_PAGE_INDEX /\ leaf.header.next = INVALID_PAGE_INDEX
  BY <1>3, <1>4, InitializedPage, ParentWord
<1>6. /\ blank \in PageBytes /\ Room(blank) /\ Sorted(blank.records)
      /\ blank.records = <<>> /\ blank.heap = 0 /\ blank.header.type = "Invalid"
      /\ blank.header.shared = INVALID_PAGE_INDEX /\ blank.header.next = INVALID_PAGE_INDEX
  BY <1>3, <1>4, InitializedPage, ParentWord
<1>7. /\ DOMAIN page = Pages /\ page[Root] = leaf /\ \A q \in Pages : q # Root => page[q] = blank
      /\ Root \in Pages
  BY <1>1, <1>3, PageAssumption
<1>8. PICK e : e = [separator |-> 0, leaf |-> Root]
  OBVIOUS
<1>9. tree = <<e>> /\ e \in Entry /\ e.leaf = Root /\ e.separator = 0
  BY <1>2, <1>7, <1>8 DEF Entry
<1>10. tree \in Seq(Entry) /\ Len(tree) = 1 /\ tree[1] = e /\ DOMAIN tree = {1}
  BY <1>9
<1>11. Leaves = {Root}
  BY <1>9, <1>10 DEF Leaves
<1>12. PagesOK
  BY <1>5, <1>6, <1>7 DEF PagesOK
<1>13. ParentsOK
  BY <1>1, <1>4, <1>5, <1>6, <1>7 DEF ParentsOK
<1>14. TreeOK
  BY <1>5, <1>7, <1>8, <1>10, <1>11 DEF TreeOK
<1>15. SparesBlank
  BY <1>6, <1>7, <1>11 DEF SparesBlank
<1>16. ChainOK
  BY <1>5, <1>7, <1>9, <1>10 DEF ChainOK, NextLeaf
<1>17. BackOK
  BY <1>5, <1>7, <1>9, <1>10 DEF BackOK
<1>18. KeysPlaced
  <2>1. DOMAIN leaf.records = {}
    BY <1>5
  <2> QED
    BY <1>7, <1>9, <1>10, <2>1 DEF KeysPlaced
<1> QED
  BY <1>2, <1>12, <1>13, <1>14, <1>15, <1>16, <1>17, <1>18 DEF ChainInv

(* A page that is formatted ahead is not a leaf of the tree yet. *)
LEMMA PrepareKeeps ==
    ASSUME ChainInv, Intact, NEW p \in Pages, Prepare(p)
    PROVE  ChainInv'
<1>1. PICK x, new : x = parent[Root] /\ new = initialize("LeafNode", x)
  OBVIOUS
<1>2. /\ \A q \in Pages : page[q].header.type = "LeafNode" => q \in Leaves /\ q # p
      /\ page' = [page EXCEPT ![p] = new] /\ parent' = [parent EXCEPT ![p] = x]
      /\ result' = "Ok" /\ tree' = tree
  BY <1>1 DEF Prepare
<1>3. x \in Parents \cup {None}
  BY <1>1, PageAssumption DEF ChainInv, ParentsOK
<1>4. "LeafNode" \in PageType
  BY DEF PageType
<1>5. /\ new \in PageBytes /\ Room(new) /\ Sorted(new.records)
      /\ new.records = <<>> /\ new.heap = 0
      /\ new.header.type = "LeafNode" /\ new.header.low = x[1]
      /\ new.header.shared = INVALID_PAGE_INDEX /\ new.header.next = INVALID_PAGE_INDEX
  BY <1>1, <1>3, <1>4, InitializedPage, ParentWord
<1>6. p \notin Leaves
  BY <1>2 DEF ChainInv, TreeOK
<1>7. /\ DOMAIN page' = Pages /\ page'[p] = new
      /\ \A q \in Pages : q # p => page'[q] = page[q]
  BY <1>2 DEF ChainInv, PagesOK
<1>8. /\ parent' \in [Pages -> Parents \cup {None}] /\ parent'[p] = x
      /\ \A q \in Pages : q # p => parent'[q] = parent[q]
  BY <1>2, <1>3 DEF ChainInv, ParentsOK
<1>9. Leaves' = Leaves
  BY <1>2 DEF Leaves
<1>10. \A j \in DOMAIN tree : tree[j].leaf \in Pages /\ page'[tree[j].leaf] = page[tree[j].leaf]
  BY <1>6, <1>7, TreeFields DEF ChainInv
<1>11. PagesOK'
  BY <1>5, <1>7 DEF ChainInv, PagesOK
<1>12. ParentsOK'
  BY <1>5, <1>7, <1>8 DEF ChainInv, ParentsOK
<1>13. TreeOK'
  <2>1. \A q \in Leaves : q \in Pages /\ page'[q] = page[q]
    BY <1>6, <1>7, TreeFields DEF ChainInv
  <2> QED
    BY <1>2, <1>9, <2>1 DEF ChainInv, TreeOK
<1>14. SparesBlank'
  BY <1>5, <1>7, <1>9 DEF ChainInv, SparesBlank
<1>15. ChainOK' /\ BackOK' /\ KeysPlaced'
  <2>1. ChainOK'
    BY <1>2, <1>10 DEF ChainInv, ChainOK, NextLeaf
  <2>2. BackOK'
    BY <1>2, <1>10 DEF ChainInv, BackOK, PrevLeaf
  <2>3. KeysPlaced'
    BY <1>2, <1>10 DEF ChainInv, KeysPlaced, Placed
  <2> QED
    BY <2>1, <2>2, <2>3
<1> QED
  BY <1>2, <1>11, <1>12, <1>13, <1>14, <1>15 DEF ChainInv

-----------------------------------------------------------------------------
(* Sibling pointers *)

(* Writing the next pointer. *)
LEMMA SetNext ==
    ASSUME NEW pg \in PageBytes, NEW q \in Word, NEW new, new = set_next_leaf_index(pg, q)
    PROVE  /\ new \in PageBytes /\ (Room(pg) => Room(new))
           /\ new.records = pg.records /\ new.heap = pg.heap
           /\ new.header.type = pg.header.type /\ new.header.low = pg.header.low
           /\ new.header.shared = pg.header.shared /\ new.header.next = q
<1>1. PICK records, heap, header : records = pg.records /\ heap = pg.heap /\ header = pg.header
  OBVIOUS
<1>2. records \in Seq(Record) /\ heap \in Nat /\ header \in Header
  BY <1>1, PageShape
<1>3. pg = [records |-> records, heap |-> heap, header |-> header]
  BY <1>1, PageShape
<1>4. PICK to : to = [header EXCEPT !.next = q]
  OBVIOUS
<1>5. /\ to \in Header /\ to.type = header.type /\ to.low = header.low
      /\ to.shared = header.shared /\ to.next = q
  BY <1>2, <1>4 DEF Header
<1>6. new = [records |-> records, heap |-> heap, header |-> to]
  <2>1. new = [pg EXCEPT !.header = to]
    BY <1>1, <1>4 DEF set_next_leaf_index
  <2> QED
    BY <1>3, <2>1
<1>7. new \in PageBytes
  BY <1>2, <1>5, <1>6 DEF PageBytes
<1>8. new.records = records /\ new.heap = heap /\ new.header = to
  BY <1>6
<1>9. Room(pg) => Room(new)
  BY <1>1, <1>8 DEF Room, get_item_count
<1> QED
  BY <1>1, <1>5, <1>7, <1>8, <1>9

(* Writing the previous pointer, and half of the parent with it. *)
LEMMA SetPrev ==
    ASSUME NEW pg \in PageBytes, NEW q \in Word, NEW new, new = set_prev_leaf_index(pg, q)
    PROVE  /\ new \in PageBytes /\ (Room(pg) => Room(new))
           /\ new.records = pg.records /\ new.heap = pg.heap
           /\ new.header.type = pg.header.type /\ new.header.low = pg.header.low
           /\ new.header.shared = q /\ new.header.next = pg.header.next
<1>1. PICK records, heap, header : records = pg.records /\ heap = pg.heap /\ header = pg.header
  OBVIOUS
<1>2. records \in Seq(Record) /\ heap \in Nat /\ header \in Header
  BY <1>1, PageShape
<1>3. pg = [records |-> records, heap |-> heap, header |-> header]
  BY <1>1, PageShape
<1>4. PICK to : to = [header EXCEPT !.shared = q]
  OBVIOUS
<1>5. /\ to \in Header /\ to.type = header.type /\ to.low = header.low
      /\ to.shared = q /\ to.next = header.next
  BY <1>2, <1>4 DEF Header
<1>6. new = [records |-> records, heap |-> heap, header |-> to]
  <2>1. new = [pg EXCEPT !.header = to]
    BY <1>1, <1>4 DEF set_prev_leaf_index
  <2> QED
    BY <1>3, <2>1
<1>7. new \in PageBytes
  BY <1>2, <1>5, <1>6 DEF PageBytes
<1>8. new.records = records /\ new.heap = heap /\ new.header = to
  BY <1>6
<1>9. Room(pg) => Room(new)
  BY <1>1, <1>8 DEF Room, get_item_count
<1> QED
  BY <1>1, <1>5, <1>7, <1>8, <1>9

(* Page indexes are words, and none is the invalid one. *)
LEMMA PageWords ==
    /\ \A p \in Pages : p \in Word /\ p # INVALID_PAGE_INDEX
    /\ INVALID_PAGE_INDEX \in Word
  BY PageAssumption DEF Word

(* A leaf and its right sibling are next to each other in the tree. *)
LEMMA Siblings ==
    ASSUME ChainInv, Intact, NEW p \in Leaves, NEW right, right = page[p].header.next,
           right # INVALID_PAGE_INDEX, NEW next, next = page[right].header.next
    PROVE  \E i \in 1 .. (Len(tree) - 1) :
               /\ p = tree[i].leaf /\ right = tree[i + 1].leaf
               /\ i + 1 = Len(tree) => next = INVALID_PAGE_INDEX
               /\ i + 1 # Len(tree) => next = tree[i + 2].leaf
<1>1. /\ Len(tree) \in Nat /\ DOMAIN tree = 1 .. Len(tree)
      /\ \A k \in 1 .. Len(tree) : page[tree[k].leaf].header.next = NextLeaf(k)
  BY TreeFields DEF ChainInv, ChainOK
<1>2. PICK i \in 1 .. Len(tree) : tree[i].leaf = p
  BY TreeFields DEF ChainInv
<1>3. right = NextLeaf(i)
  BY <1>1, <1>2
<1>4. i # Len(tree) /\ right = tree[i + 1].leaf
  BY <1>3 DEF NextLeaf
<1>5. i \in 1 .. (Len(tree) - 1) /\ i + 1 \in 1 .. Len(tree) /\ (i + 1) + 1 = i + 2
  <2>1. PICK n : n = Len(tree)
    OBVIOUS
  <2>2. n \in Nat /\ i \in 1 .. n /\ i # n
    BY Zenon, <1>1, <1>2, <1>4, <2>1
  <2>3. i \in 1 .. (n - 1) /\ i + 1 \in 1 .. n /\ (i + 1) + 1 = i + 2
    BY <2>2, SMTT(20)
  <2> QED
    BY <2>1, <2>3
<1>6. next = NextLeaf(i + 1)
  BY <1>1, <1>4, <1>5
<1> QED
  BY <1>2, <1>4, <1>5, <1>6 DEF NextLeaf

(* The space check of merge() counts all that is appended. *)
LEMMA MergeTakesAll ==
    ASSUME NEW left \in PageBytes, NEW right \in PageBytes, MergeFits(left, right)
    PROVE  AppendAll(left, right.records).ok
<1>1. PICK n, m, nbytes, nheap, mheap, nslots, mslots, bytes :
          /\ n = Len(left.records) /\ m = Len(right.records) /\ nheap = left.heap /\ mheap = right.heap
          /\ nslots = SlotBytes(n) /\ mslots = SlotBytes(m)
          /\ bytes = RecordBytes(right.records) /\ nbytes = RecordBytes(left.records)
  OBVIOUS
<1>2. /\ n \in Nat /\ m \in Nat /\ nheap \in Nat /\ mheap \in Nat /\ bytes \in Nat
      /\ right.records \in Seq(Record)
  BY <1>1, PageFields
<1>3. nslots \in Nat /\ mslots \in Nat /\ SlotBytes(n + m) = nslots + mslots
  BY <1>1, <1>2, SlotsAdd
<1>4. CAPACITY - ((CAPACITY - mslots - mheap) + (mheap - bytes)) <= CAPACITY - nslots - nheap
  BY <1>1 DEF MergeFits, TotalUsed, get_free_space, get_free_space_contiguous, get_item_count
<1>5. nheap + bytes + (nslots + mslots) <= CAPACITY
  BY <1>2, <1>3, <1>4, SizeAssumption
<1> QED
  BY <1>1, <1>2, <1>3, <1>5, AppendAllFits

-----------------------------------------------------------------------------
(* A merge *)

(* What a merge does to the leaf at i, its right sibling and the one after. *)
Merged(i, p, right, next) ==
    /\ p = tree[i].leaf /\ right = tree[i + 1].leaf
    /\ i + 1 = Len(tree) => next = INVALID_PAGE_INDEX
    /\ i + 1 # Len(tree) => next = tree[i + 2].leaf
    /\ DOMAIN page' = Pages
    /\ page'[p] \in PageBytes /\ Room(page'[p])
    /\ page'[p].records = page[p].records \o page[right].records
    /\ page'[p].header.type = page[p].header.type /\ page'[p].header.low = page[p].header.low
    /\ page'[p].header.shared = page[p].header.shared /\ page'[p].header.next = next
    /\ page'[right] \in PageBytes /\ Room(page'[right])
    /\ page'[right].records = <<>> /\ page'[right].heap = 0
    /\ page'[right].header.type = "Invalid"
    /\ page'[right].header.shared = INVALID_PAGE_INDEX
    /\ page'[right].header.next = INVALID_PAGE_INDEX
    /\ \A q \in Pages \ {p, right} :
        /\ page'[q] \in PageBytes /\ Room(page'[q])
        /\ page'[q].records = page[q].records /\ page'[q].heap = page[q].heap
        /\ page'[q].header.type = page[q].header.type /\ page'[q].header.low = page[q].header.low
        /\ page'[q].header.shared = IF q = next THEN p ELSE page[q].header.shared
        /\ page'[q].header.next = page[q].header.next
    /\ tree' = RemoveAt(tree, i + 1)
    /\ result' = "Ok" /\ parent' = parent

(* A call that writes several pages leaves the others alone. *)
LEMMA WriteMany ==
    ASSUME NEW new, NEW res, Write(new, res)
    PROVE  /\ DOMAIN page' = Pages
           /\ \A q \in Pages : q \in DOMAIN new => page'[q] = new[q]
           /\ \A q \in Pages : q \notin DOMAIN new => page'[q] = page[q]
           /\ result' = res /\ parent' = parent
  BY DEF Write

(* What a merge does: refuse, or merge whole. *)
LEMMA MergeEffect ==
    ASSUME ChainInv, Intact, NEW p \in Pages, merge(p)
    PROVE  \/ Refuse("InsufficientSpaceForMerge")
           \/ \E i \in 1 .. (Len(tree) - 1) : \E right \in Pages : \E next : Merged(i, p, right, next)
<1> DEFINE right == page[p].header.next
           next == page[right].header.next
           all == AppendAll(page[p], page[right].records)
           new == [q \in {p, right} \cup ({next} \ {INVALID_PAGE_INDEX}) |->
                       CASE q = p     -> set_next_leaf_index(all.page, next)
                         [] q = right -> initialize("Invalid", None)
                         [] OTHER     -> set_prev_leaf_index(page[q], p)]
<1>1. right = page[p].header.next
  OBVIOUS
<1>2. next = page[right].header.next /\ all = AppendAll(page[p], page[right].records)
  OBVIOUS
<1>3. /\ p \in Leaves /\ right # INVALID_PAGE_INDEX
      /\ IF ~MergeFits(page[p], page[right]) THEN Refuse("InsufficientSpaceForMerge")
         ELSE IF ~all.ok THEN Write(Only(p, all.page), "InsertRecordFailed") /\ UNCHANGED tree
         ELSE /\ Write(new, "Ok")
              /\ tree' = RemoveAt(tree, CHOOSE i \in DOMAIN tree : tree[i].leaf = right)
  BY ZenonT(40) DEF merge, get_next_leaf_index
<1> HIDE DEF right, next, all
<1>4. PICK i \in 1 .. (Len(tree) - 1) :
          /\ p = tree[i].leaf /\ right = tree[i + 1].leaf
          /\ i + 1 = Len(tree) => next = INVALID_PAGE_INDEX
          /\ i + 1 # Len(tree) => next = tree[i + 2].leaf
  BY <1>1, <1>2, <1>3, Siblings
<1>5. PICK n : n = Len(tree)
  OBVIOUS
<1>6. n \in Nat /\ i \in 1 .. (n - 1) /\ i \in 1 .. n /\ i + 1 \in 1 .. n /\ (i + 1 # n => i + 2 \in 1 .. n)
  BY <1>4, <1>5, TreeFields DEF ChainInv
<1>7. \A k, m \in 1 .. n : k # m => tree[k].leaf # tree[m].leaf
  <2>1. DOMAIN tree = 1 .. n /\ \A k, m \in 1 .. n : k < m => tree[k].leaf # tree[m].leaf
    BY <1>5, TreeFields DEF ChainInv, TreeOK
  <2>2. \A k, m \in 1 .. n : k # m => k < m \/ m < k
    BY <1>6
  <2> QED
    BY <2>1, <2>2
<1>8. right \in Pages /\ right # p /\ next # p /\ next # right
      /\ (next # INVALID_PAGE_INDEX => next \in Pages)
  <2>1. \A k \in 1 .. n : tree[k].leaf \in Pages
    BY <1>5, TreeFields DEF ChainInv
  <2>2. i # i + 1 /\ i # i + 2 /\ i + 1 # i + 2
    BY <1>6
  <2>3. CASE i + 1 = n
    BY <1>4, <1>5, <1>6, <1>7, <2>1, <2>2, <2>3, PageAssumption
  <2>4. CASE i + 1 # n
    BY <1>4, <1>5, <1>6, <1>7, <2>1, <2>2, <2>4
  <2> QED
    BY <2>3, <2>4
<1>9. \A q \in Pages : page[q] \in PageBytes /\ Room(page[q])
  BY DEF ChainInv, PagesOK
<1>10. CASE ~MergeFits(page[p], page[right])
  BY <1>3, <1>10
<1>11. CASE MergeFits(page[p], page[right])
  <2>1. all.ok
    BY <1>2, <1>8, <1>9, <1>11, MergeTakesAll
  <2>2. Write(new, "Ok") /\ tree' = RemoveAt(tree, CHOOSE k \in DOMAIN tree : tree[k].leaf = right)
    BY <1>3, <1>11, <2>1
  <2>3. (CHOOSE k \in DOMAIN tree : tree[k].leaf = right) = i + 1
    <3>1. DOMAIN tree = 1 .. n
      BY <1>5, TreeFields DEF ChainInv
    <3>2. \A k \in 1 .. n : tree[k].leaf = right <=> k = i + 1
      BY <1>4, <1>6, <1>7
    <3> QED
      BY <1>6, <3>1, <3>2
  <2>4. tree' = RemoveAt(tree, i + 1)
    BY <2>2, <2>3
  <2>5. /\ all.page \in PageBytes /\ Room(all.page) /\ all.page.header = page[p].header
        /\ all.page.records = page[p].records \o page[right].records
    <3>1. page[right].records \in Seq(Record)
      BY <1>8, <1>9, PageFields
    <3>2. PICK pg, records : pg = page[p] /\ records = page[right].records
      OBVIOUS
    <3>3. pg \in PageBytes /\ Room(pg) /\ records \in Seq(Record) /\ all = AppendAll(pg, records)
      BY <1>2, <1>9, <3>1, <3>2
    <3>4. /\ all.page \in PageBytes /\ Room(all.page) /\ all.page.header = pg.header
          /\ all.ok => all.page.records = pg.records \o records
      BY <3>3, AppendAllPage
    <3> QED
      BY <2>1, <3>2, <3>4
  <2>6. PICK left, blank : left = set_next_leaf_index(all.page, next) /\ blank = initialize("Invalid", None)
    OBVIOUS
  <2>7. /\ DOMAIN new = {p, right} \cup ({next} \ {INVALID_PAGE_INDEX})
        /\ new[p] = left /\ new[right] = blank
        /\ next # INVALID_PAGE_INDEX => new[next] = set_prev_leaf_index(page[next], p)
    BY <1>8, <2>6
  <2> HIDE DEF new
  <2>8. /\ DOMAIN page' = Pages /\ result' = "Ok" /\ parent' = parent
        /\ page'[p] = left /\ page'[right] = blank
        /\ next # INVALID_PAGE_INDEX => page'[next] = set_prev_leaf_index(page[next], p)
        /\ \A q \in Pages \ {p, right, next} : page'[q] = page[q]
    <3>1. /\ DOMAIN page' = Pages /\ result' = "Ok" /\ parent' = parent
          /\ \A q \in Pages : q \in DOMAIN new => page'[q] = new[q]
          /\ \A q \in Pages : q \notin DOMAIN new => page'[q] = page[q]
      BY <2>2, WriteMany
    <3> QED
      BY <1>8, <2>7, <3>1
  <2>9. next \in Word /\ p \in Word /\ "Invalid" \in PageType /\ None[1] \in Word
    BY <1>8, PageWords DEF PageType, None
  <2>10. /\ left \in PageBytes /\ Room(left) /\ left.records = all.page.records
         /\ left.header.type = all.page.header.type /\ left.header.low = all.page.header.low
         /\ left.header.shared = all.page.header.shared /\ left.header.next = next
    <3>1. PICK whole : whole = all.page
      OBVIOUS
    <3>2. whole \in PageBytes /\ Room(whole) /\ left = set_next_leaf_index(whole, next)
      BY <2>5, <2>6, <3>1
    <3>3. /\ left \in PageBytes /\ Room(left) /\ left.records = whole.records
          /\ left.header.type = whole.header.type /\ left.header.low = whole.header.low
          /\ left.header.shared = whole.header.shared /\ left.header.next = next
      BY <2>9, <3>2, SetNext, SMTT(20)
    <3> QED
      BY <3>1, <3>3
  <2>11. /\ blank \in PageBytes /\ Room(blank) /\ blank.records = <<>> /\ blank.heap = 0
         /\ blank.header.type = "Invalid" /\ blank.header.shared = INVALID_PAGE_INDEX
         /\ blank.header.next = INVALID_PAGE_INDEX
    BY <2>6, <2>9, InitializedPage
  <2>12. ASSUME NEW q \in Pages \ {p, right}
         PROVE  /\ page'[q] \in PageBytes /\ Room(page'[q])
                /\ page'[q].records = page[q].records /\ page'[q].heap = page[q].heap
                /\ page'[q].header.type = page[q].header.type /\ page'[q].header.low = page[q].header.low
                /\ page'[q].header.shared = IF q = next THEN p ELSE page[q].header.shared
                /\ page'[q].header.next = page[q].header.next
    <3>1. CASE q = next
      <4>1. page'[q] = set_prev_leaf_index(page[q], p) /\ page[q] \in PageBytes /\ Room(page[q])
        BY <1>8, <1>9, <2>8, <3>1, PageWords
      <4>2. PICK old, to : old = page[q] /\ to = page'[q]
        OBVIOUS
      <4>3. old \in PageBytes /\ Room(old) /\ to = set_prev_leaf_index(old, p)
        BY <4>1, <4>2
      <4>4. /\ to \in PageBytes /\ Room(to) /\ to.records = old.records /\ to.heap = old.heap
            /\ to.header.type = old.header.type /\ to.header.low = old.header.low
            /\ to.header.shared = p /\ to.header.next = old.header.next
        <5>1. p \in Word
          BY <2>9
        <5> QED
          BY <4>3, <5>1, SetPrev
      <4> QED
        BY <3>1, <4>2, <4>4
    <3>2. CASE q # next
      BY <1>9, <2>8, <3>2
    <3> QED
      BY <3>1, <3>2
  <2>13. Merged(i, p, right, next)
    BY Zenon, <1>4, <2>4, <2>5, <2>8, <2>10, <2>11, <2>12 DEF Merged
  <2> QED
    BY <1>4, <1>8, <2>13
<1> QED
  BY <1>10, <1>11

(* The keys of s are less than those of t; the records of u are from both. *)
Before(s, t) == \A k \in 1 .. Len(s) : \A m \in 1 .. Len(t) : s[k].key < t[m].key
Drawn(u, s, t) ==
    \A k \in 1 .. Len(u) : (\E m \in 1 .. Len(s) : u[k] = s[m]) \/ (\E m \in 1 .. Len(t) : u[k] = t[m])

(* Two sorted lists, one before the other, make a sorted list. *)
LEMMA SortedConcat ==
    ASSUME NEW s \in Seq(Record), NEW t \in Seq(Record), Sorted(s), Sorted(t), Before(s, t)
    PROVE  Sorted(s \o t) /\ Drawn(s \o t, s, t)
<1> DEFINE u == s \o t
<1>1. /\ u \in Seq(Record) /\ Len(u) = Len(s) + Len(t)
      /\ \A k \in 1 .. (Len(s) + Len(t)) : u[k] = IF k <= Len(s) THEN s[k] ELSE t[k - Len(s)]
  BY ConcatProperties
<1> HIDE DEF u
<1>2. PICK n, m : n = Len(s) /\ m = Len(t)
  OBVIOUS
<1>3. n \in Nat /\ m \in Nat /\ DOMAIN s = 1 .. n /\ DOMAIN t = 1 .. m /\ DOMAIN u = 1 .. (n + m)
      /\ Len(u) = n + m
  BY <1>1, <1>2
<1>4. ASSUME NEW k \in 1 .. (n + m)
      PROVE  /\ k <= n => k \in 1 .. n /\ u[k] = s[k]
             /\ k > n => k - n \in 1 .. m /\ u[k] = t[k - n]
  BY <1>1, <1>2, <1>3
<1>5. Sorted(u)
  <2> SUFFICES ASSUME NEW k \in 1 .. (n + m), NEW j \in 1 .. (n + m), k < j
               PROVE  u[k].key < u[j].key
    BY <1>3 DEF Sorted
  <2>1. CASE j <= n
    <3>1. k <= n
      BY <1>3, <2>1
    <3> QED
      BY <1>3, <1>4, <2>1, <3>1 DEF Sorted
  <2>2. CASE j > n /\ k <= n
    BY <1>2, <1>4, <2>2 DEF Before
  <2>3. CASE k > n
    <3>1. j > n /\ k - n < j - n
      BY <1>3, <2>3
    <3> QED
      BY <1>3, <1>4, <2>3, <3>1 DEF Sorted
  <2> QED
    BY <1>3, <2>1, <2>2, <2>3
<1>6. \A k \in 1 .. (n + m) : k <= n \/ k > n
  BY <1>3
<1>7. Drawn(u, s, t)
  BY <1>2, <1>3, <1>4, <1>6 DEF Drawn
<1> QED
  BY <1>5, <1>7 DEF u

(* A merge keeps the invariant. *)
LEMMA MergedKeeps ==
    ASSUME ChainInv, Intact, NEW p \in Pages, NEW i \in 1 .. (Len(tree) - 1), NEW right \in Pages,
           NEW next, Merged(i, p, right, next)
    PROVE  ChainInv' /\ \A q : q \in Leaves' <=> q \in Leaves /\ q # right
<1>1. PICK n : n = Len(tree)
  OBVIOUS
<1>2. n \in Nat /\ i \in 1 .. (n - 1) /\ i \in 1 .. n /\ i + 1 \in 1 .. n
  BY <1>1, TreeFields DEF ChainInv
<1>3. /\ DOMAIN tree = 1 .. n /\ tree \in Seq(Entry)
      /\ \A k \in 1 .. n : tree[k].leaf \in Pages /\ tree[k].separator \in Nat
      /\ \A k, m \in 1 .. n : k < m => tree[k].leaf # tree[m].leaf /\ tree[k].separator <= tree[m].separator
      /\ \A q : q \in Leaves <=> \E k \in 1 .. n : tree[k].leaf = q
  BY Zenon, <1>1, TreeFields DEF ChainInv, TreeOK
<1>4. \A k, m \in 1 .. n : k # m => tree[k].leaf # tree[m].leaf
  <2>1. \A k, m \in 1 .. n : k # m => k < m \/ m < k
    BY <1>2
  <2> QED
    BY <1>3, <2>1
<1>5. p = tree[i].leaf /\ right = tree[i + 1].leaf /\ p # right
  <2>1. p = tree[i].leaf /\ right = tree[i + 1].leaf
    BY Zenon DEF Merged
  <2>2. i # i + 1
    BY <1>2
  <2> QED
    BY <1>2, <1>4, <2>1, <2>2
<1>6. /\ tree' \in Seq(Entry) /\ Len(tree') = n - 1 /\ DOMAIN tree' = 1 .. (n - 1)
      /\ \A k \in 1 .. (n - 1) : tree'[k] = IF k <= i THEN tree[k] ELSE tree[k + 1]
  <2>1. PICK s : s = tree
    OBVIOUS
  <2>2. s \in Seq(Entry) /\ i \in 0 .. (Len(s) - 1) /\ tree' = RemoveAt(s, i + 1) /\ Len(s) = n
    <3>1. tree' = RemoveAt(tree, i + 1)
      BY Zenon DEF Merged
    <3> QED
      BY <1>1, <1>2, <1>3, <2>1, <3>1
  <2>3. tree' \in Seq(Entry) /\ Len(tree') = Len(s) - 1
    BY <2>2, RemoveAtType
  <2>4. tree' = [k \in 1 .. (Len(s) - 1) |-> IF k <= i THEN s[k] ELSE s[k + 1]]
    BY <2>2, RemoveAtFunction
  <2> QED
    BY <2>1, <2>2, <2>3, <2>4
<1>7. PICK from : from = [k \in 1 .. (n - 1) |-> IF k <= i THEN k ELSE k + 1]
  OBVIOUS
<1>8. /\ \A k \in 1 .. (n - 1) : from[k] \in 1 .. n /\ from[k] # i + 1 /\ tree'[k] = tree[from[k]]
      /\ \A k, m \in 1 .. (n - 1) : k < m => from[k] < from[m]
      /\ \A m \in 1 .. n : m # i + 1 => \E k \in 1 .. (n - 1) : from[k] = m
  <2>1. ASSUME NEW k \in 1 .. (n - 1)
        PROVE  from[k] \in 1 .. n /\ from[k] # i + 1 /\ tree'[k] = tree[from[k]]
    BY <1>2, <1>6, <1>7
  <2>2. ASSUME NEW k \in 1 .. (n - 1), NEW m \in 1 .. (n - 1), k < m PROVE from[k] < from[m]
    BY <1>2, <1>7, <2>2
  <2>3. ASSUME NEW m \in 1 .. n, m # i + 1 PROVE \E k \in 1 .. (n - 1) : from[k] = m
    <3>1. CASE m <= i
      <4>1. m \in 1 .. (n - 1) /\ from[m] = m
        BY <1>2, <1>7, <3>1
      <4> QED
        BY <4>1
    <3>2. CASE m > i
      <4>1. m - 1 \in 1 .. (n - 1) /\ from[m - 1] = m
        BY <1>2, <1>7, <2>3, <3>2
      <4> QED
        BY <4>1
    <3> QED
      BY <1>2, <3>1, <3>2
  <2> QED
    BY <2>1, <2>2, <2>3
<1>9. \A q : q \in Leaves' <=> q \in Leaves /\ q # right
  <2>1. \A q : q \in Leaves' <=> \E k \in 1 .. (n - 1) : tree'[k].leaf = q
    BY <1>6 DEF Leaves
  <2>2. ASSUME NEW q, q \in Leaves' PROVE q \in Leaves /\ q # right
    <3>1. PICK k \in 1 .. (n - 1) : tree'[k].leaf = q
      BY <2>1, <2>2
    <3>2. from[k] \in 1 .. n /\ from[k] # i + 1 /\ tree[from[k]].leaf = q
      BY <1>8, <3>1
    <3> QED
      BY <1>2, <1>3, <1>4, <1>5, <3>2
  <2>3. ASSUME NEW q, q \in Leaves, q # right PROVE q \in Leaves'
    <3>1. PICK m \in 1 .. n : tree[m].leaf = q
      BY <1>3, <2>3
    <3>2. m # i + 1
      BY <1>5, <2>3, <3>1
    <3>3. PICK k \in 1 .. (n - 1) : from[k] = m
      BY <1>8, <3>1, <3>2
    <3> QED
      BY <1>8, <2>1, <3>1, <3>3
  <2> QED
    BY <2>2, <2>3
<1>10. p \in Leaves /\ right \in Leaves
  BY <1>2, <1>3, <1>5
<1>11. \A k \in 1 .. Len(page[p].records) : Placed(i, page[p].records[k].key)
  <2>1. page[p] \in PageBytes
    BY DEF ChainInv, PagesOK
  <2>2. DOMAIN page[p].records = 1 .. Len(page[p].records)
    BY <2>1, PageFields
  <2> QED
    BY <1>2, <1>3, <1>5, <2>2 DEF ChainInv, KeysPlaced
<1>12. \A k \in 1 .. Len(page[right].records) : Placed(i + 1, page[right].records[k].key)
  <2>1. page[right] \in PageBytes
    BY DEF ChainInv, PagesOK
  <2>2. DOMAIN page[right].records = 1 .. Len(page[right].records)
    BY <2>1, PageFields
  <2> QED
    BY <1>2, <1>3, <1>5, <2>2 DEF ChainInv, KeysPlaced
<1>13. /\ \A k \in 1 .. (n - 1) : \A key \in Nat : Placed(from[k], key) => Placed(k, key)'
       /\ \A key \in Nat : Placed(i + 1, key) => Placed(i, key)'
  <2>1. ASSUME NEW k \in 1 .. (n - 1), NEW key \in Nat, Placed(from[k], key) PROVE Placed(k, key)'
    <3>1. \A j \in 1 .. (n - 1) : k < j => key < tree'[j].separator
      BY <1>3, <1>8, <2>1 DEF Placed
    <3>2. tree'[k].separator <= key
      BY <1>8, <2>1 DEF Placed
    <3> QED
      BY <1>6, <3>1, <3>2 DEF Placed
  <2>2. ASSUME NEW key \in Nat, Placed(i + 1, key) PROVE Placed(i, key)'
    <3>1. from[i] = i /\ tree'[i] = tree[i] /\ i < i + 1
      BY <1>2, <1>7, <1>8
    <3>2. tree[i].separator <= tree[i + 1].separator /\ tree[i + 1].separator <= key
      BY <1>2, <1>3, <2>2, <3>1 DEF Placed
    <3>3. tree'[i].separator <= key
      BY <1>2, <1>3, <3>1, <3>2
    <3>4. ASSUME NEW j \in 1 .. (n - 1), i < j PROVE key < tree'[j].separator
      <4>1. from[j] \in 1 .. n /\ i + 1 < from[j] /\ tree'[j] = tree[from[j]]
        BY <1>2, <1>7, <1>8, <3>4
      <4> QED
        BY <1>3, <2>2, <4>1 DEF Placed
    <3> QED
      BY <1>6, <3>3, <3>4 DEF Placed
  <2> QED
    BY <2>1, <2>2
<1>14. /\ Sorted(page'[p].records)
       /\ \A k \in 1 .. Len(page'[p].records) : Placed(i, page[p].records[k].key)'
  <2>1. PICK s, t, u : s = page[p].records /\ t = page[right].records /\ u = page'[p].records
    OBVIOUS
  <2>2. s \in Seq(Record) /\ t \in Seq(Record) /\ Sorted(s) /\ Sorted(t) /\ u = s \o t
    <3>1. page'[p].records = page[p].records \o page[right].records
      BY Zenon DEF Merged
    <3>2. page[p] \in PageBytes /\ page[right] \in PageBytes
      BY DEF ChainInv, PagesOK
    <3> QED
      BY <2>1, <3>1, <3>2, PageFields DEF ChainInv, PagesOK
  <2>3. \A k \in 1 .. Len(s) : Placed(i, s[k].key) /\ s[k].key \in Nat
    <3>1. \A k \in 1 .. Len(s) : s[k] \in Record
      BY <2>2
    <3> QED
      BY <1>11, <2>1, <3>1, RecordFields
  <2>4. \A k \in 1 .. Len(t) : Placed(i + 1, t[k].key) /\ t[k].key \in Nat
    <3>1. \A k \in 1 .. Len(t) : t[k] \in Record
      BY <2>2
    <3> QED
      BY <1>12, <2>1, <3>1, RecordFields
  <2>5. Before(s, t)
    <3> SUFFICES ASSUME NEW k \in 1 .. Len(s), NEW m \in 1 .. Len(t) PROVE s[k].key < t[m].key
      BY DEF Before
    <3>1. s[k].key < tree[i + 1].separator
      <4>1. i < i + 1
        BY <1>2
      <4> QED
        BY <1>2, <1>3, <2>3, <4>1 DEF Placed
    <3>2. tree[i + 1].separator <= t[m].key
      BY <2>4 DEF Placed
    <3> QED
      BY <1>2, <1>3, <2>3, <2>4, <3>1, <3>2
  <2>6. Sorted(u) /\ Drawn(u, s, t)
    BY <2>2, <2>5, SortedConcat
  <2>7. \A m \in 1 .. Len(s) : Placed(i, s[m].key)'
    <3>1. i \in 1 .. (n - 1) /\ from[i] = i
      BY <1>2, <1>7
    <3> QED
      BY <1>13, <2>3, <3>1
  <2>8. \A m \in 1 .. Len(t) : Placed(i, t[m].key)'
    BY <1>13, <2>4
  <2>9. \A k \in 1 .. Len(u) : Placed(i, u[k].key)'
    BY <2>6, <2>7, <2>8 DEF Drawn
  <2> QED
    BY <2>1, <2>6, <2>9
<1>15. \A q \in Pages : q # p /\ q # right =>
          /\ page'[q] \in PageBytes /\ Room(page'[q])
          /\ page'[q].records = page[q].records /\ page'[q].heap = page[q].heap
          /\ page'[q].header.type = page[q].header.type /\ page'[q].header.low = page[q].header.low
          /\ page'[q].header.shared = IF q = next THEN p ELSE page[q].header.shared
          /\ page'[q].header.next = page[q].header.next
  BY Zenon DEF Merged
<1>16. /\ page'[p] \in PageBytes /\ Room(page'[p])
       /\ page'[p].header.type = page[p].header.type /\ page'[p].header.low = page[p].header.low
       /\ page'[p].header.shared = page[p].header.shared /\ page'[p].header.next = next
  BY Zenon DEF Merged
<1>17. /\ page'[right] \in PageBytes /\ Room(page'[right])
       /\ page'[right].records = <<>> /\ page'[right].heap = 0
       /\ page'[right].header.type = "Invalid"
       /\ page'[right].header.shared = INVALID_PAGE_INDEX
       /\ page'[right].header.next = INVALID_PAGE_INDEX
  BY Zenon DEF Merged
<1>18. DOMAIN page' = Pages /\ parent' = parent /\ result' = "Ok"
  BY Zenon DEF Merged
<1>19. PagesOK'
  <2> SUFFICES ASSUME NEW q \in Pages
               PROVE  page'[q] \in PageBytes /\ Room(page'[q]) /\ Sorted(page'[q].records)
    BY <1>18 DEF PagesOK
  <2>1. CASE q = p
    BY <1>14, <1>16, <2>1
  <2>2. CASE q = right
    <3>1. Sorted(<<>>)
      BY DEF Sorted
    <3> QED
      BY <1>17, <2>2, <3>1
  <2>3. CASE q # p /\ q # right
    BY <1>15, <2>3 DEF ChainInv, PagesOK
  <2> QED
    BY <2>1, <2>2, <2>3
<1>20. ParentsOK'
  <2> SUFFICES ASSUME NEW q \in Pages, page'[q].header.type = "LeafNode"
               PROVE  page'[q].header.low = parent[q][1]
    BY <1>18 DEF ChainInv, ParentsOK
  <2>1. q # right
    BY <1>17
  <2>2. page'[q].header.type = page[q].header.type /\ page'[q].header.low = page[q].header.low
    BY <1>15, <1>16, <2>1
  <2> QED
    BY <2>2 DEF ChainInv, ParentsOK
<1>21. TreeOK'
  <2>1. tree'[1] = [separator |-> 0, leaf |-> Root] /\ Len(tree') >= 1
    <3>1. 1 \in 1 .. (n - 1) /\ 1 <= i /\ n - 1 >= 1
      BY <1>2
    <3>2. tree'[1] = tree[1]
      BY <1>6, <3>1
    <3> QED
      BY <1>6, <3>1, <3>2 DEF ChainInv, TreeOK
  <2>2. ASSUME NEW k \in 1 .. (n - 1), NEW m \in 1 .. (n - 1), k < m
        PROVE  tree'[k].leaf # tree'[m].leaf /\ tree'[k].separator <= tree'[m].separator
    <3>1. from[k] \in 1 .. n /\ from[m] \in 1 .. n /\ from[k] < from[m]
      BY <1>8, <2>2
    <3>2. tree'[k] = tree[from[k]] /\ tree'[m] = tree[from[m]]
      BY <1>8
    <3> QED
      BY <1>3, <3>1, <3>2
  <2>3. \A q \in Leaves' : page'[q].header.type = "LeafNode"
    <3> SUFFICES ASSUME NEW q \in Leaves' PROVE page'[q].header.type = "LeafNode"
      OBVIOUS
    <3>1. q \in Leaves /\ q # right /\ q \in Pages
      BY <1>3, <1>9
    <3>2. page[q].header.type = "LeafNode"
      BY <3>1 DEF ChainInv, TreeOK
    <3> QED
      BY <1>15, <1>16, <3>1, <3>2
  <2> QED
    BY <1>6, <2>1, <2>2, <2>3 DEF TreeOK
<1>22. /\ i + 1 = n => next = INVALID_PAGE_INDEX
       /\ i + 1 # n => i + 2 \in 1 .. n /\ next = tree[i + 2].leaf
  <2>1. i + 1 = n => next = INVALID_PAGE_INDEX
    BY Zenon, <1>1 DEF Merged
  <2>2. i + 1 # n => next = tree[i + 2].leaf
    BY Zenon, <1>1 DEF Merged
  <2>3. i + 1 # n => i + 2 \in 1 .. n
    BY <1>2
  <2> QED
    BY <2>1, <2>2, <2>3
<1>23. SparesBlank'
  <2> SUFFICES ASSUME NEW q \in Pages, q \notin Leaves'
               PROVE  /\ page'[q].records = <<>> /\ page'[q].heap = 0
                      /\ page'[q].header.shared = INVALID_PAGE_INDEX
                      /\ page'[q].header.next = INVALID_PAGE_INDEX
    BY DEF SparesBlank
  <2>1. CASE q = right
    BY <1>17, <2>1
  <2>2. CASE q # right
    <3>1. q \notin Leaves /\ q # p
      BY <1>9, <1>10, <2>2
    <3>2. q # next
      BY <1>3, <1>22, <3>1, PageAssumption
    <3> QED
      BY <1>15, <2>2, <3>1, <3>2 DEF ChainInv, SparesBlank
  <2> QED
    BY <2>1, <2>2
<1>24. ChainOK'
  <2> SUFFICES ASSUME NEW k \in 1 .. (n - 1)
               PROVE  page'[tree'[k].leaf].header.next
                          = IF k = n - 1 THEN INVALID_PAGE_INDEX ELSE tree'[k + 1].leaf
    BY <1>6 DEF ChainOK, NextLeaf
  <2>1. \A m \in 1 .. n : page[tree[m].leaf].header.next
                             = IF m = n THEN INVALID_PAGE_INDEX ELSE tree[m + 1].leaf
    BY <1>1, <1>3 DEF ChainInv, ChainOK, NextLeaf
  <2>2. CASE k < i
    <3>1. /\ k \in 1 .. n /\ k # i /\ k # i + 1 /\ k # n /\ k # n - 1 /\ k + 1 \in 1 .. (n - 1)
          /\ k <= i /\ k + 1 <= i
      BY <1>2, <2>2
    <3>2. tree'[k] = tree[k] /\ tree'[k + 1] = tree[k + 1]
      BY <1>6, <3>1
    <3>3. page'[tree[k].leaf].header.next = page[tree[k].leaf].header.next
      BY <1>2, <1>3, <1>4, <1>5, <1>15, <3>1
    <3> QED
      BY <2>1, <3>1, <3>2, <3>3
  <2>3. CASE k = i
    <3>1. tree'[k] = tree[i] /\ page'[tree'[k].leaf].header.next = next
      BY <1>2, <1>5, <1>6, <1>16, <2>3
    <3>2. CASE i + 1 = n
      BY <1>2, <1>22, <2>3, <3>1, <3>2
    <3>3. CASE i + 1 # n
      <4>1. k # n - 1 /\ k + 1 \in 1 .. (n - 1) /\ ~(k + 1 <= i) /\ (k + 1) + 1 = i + 2
        BY <1>2, <2>3, <3>3
      <4>2. tree'[k + 1] = tree[i + 2]
        BY <1>6, <4>1
      <4> QED
        BY <1>22, <3>1, <3>3, <4>1, <4>2
    <3> QED
      BY <3>2, <3>3
  <2>4. CASE k > i
    <3>1. k + 1 \in 1 .. n /\ k + 1 # i /\ k + 1 # i + 1 /\ ~(k <= i) /\ (k = n - 1 <=> k + 1 = n)
      BY <1>2, <2>4
    <3>2. tree'[k] = tree[k + 1]
      BY <1>6, <3>1
    <3>3. page'[tree[k + 1].leaf].header.next = page[tree[k + 1].leaf].header.next
      BY <1>2, <1>3, <1>4, <1>5, <1>15, <3>1
    <3>4. k # n - 1 => tree'[k + 1] = tree[(k + 1) + 1]
      <4>1. k # n - 1 => k + 1 \in 1 .. (n - 1) /\ ~(k + 1 <= i)
        BY <1>2, <2>4
      <4> QED
        BY <1>6, <4>1
    <3> QED
      BY <2>1, <3>1, <3>2, <3>3, <3>4
  <2> QED
    BY <1>2, <2>2, <2>3, <2>4
<1>25. BackOK'
  <2> SUFFICES ASSUME NEW k \in 1 .. (n - 1)
               PROVE  page'[tree'[k].leaf].header.shared
                        \in {INVALID_PAGE_INDEX, IF k = 1 THEN INVALID_PAGE_INDEX ELSE tree'[k - 1].leaf}
    BY <1>6 DEF BackOK, PrevLeaf
  <2>1. \A m \in 1 .. n : page[tree[m].leaf].header.shared
                \in {INVALID_PAGE_INDEX, IF m = 1 THEN INVALID_PAGE_INDEX ELSE tree[m - 1].leaf}
    BY <1>1, <1>3 DEF ChainInv, BackOK, PrevLeaf
  <2>2. CASE k <= i
    <3>1. /\ k \in 1 .. n /\ k # i + 1 /\ k # i + 2
          /\ k # 1 => k - 1 \in 1 .. (n - 1) /\ k - 1 <= i
      BY <1>2, <2>2
    <3>2. tree'[k] = tree[k] /\ (k # 1 => tree'[k - 1] = tree[k - 1])
      BY <1>6, <2>2, <3>1
    <3>3. tree[k].leaf # right /\ tree[k].leaf # next /\ tree[k].leaf \in Pages
      BY <1>2, <1>3, <1>4, <1>5, <1>22, <3>1, PageAssumption
    <3>4. page'[tree[k].leaf].header.shared = page[tree[k].leaf].header.shared
      BY <1>15, <1>16, <3>3
    <3> QED
      BY <2>1, <3>1, <3>2, <3>4
  <2>3. CASE k = i + 1
    <3>1. i + 1 # n /\ ~(k <= i) /\ k + 1 = i + 2 /\ k - 1 = i /\ k # 1 /\ i \in 1 .. (n - 1) /\ i <= i
          /\ i + 2 # i /\ i + 2 # i + 1
      BY <1>2, <2>3
    <3>2. tree'[k] = tree[i + 2] /\ tree'[k - 1] = tree[i]
      BY <1>6, <3>1
    <3>3. tree'[k].leaf = next /\ next \in Pages /\ next # p /\ next # right
      BY <1>2, <1>3, <1>4, <1>5, <1>22, <3>1, <3>2
    <3>4. page'[next].header.shared = p
      BY <1>15, <3>3
    <3> QED
      BY <1>5, <3>1, <3>2, <3>3, <3>4
  <2>4. CASE k > i + 1
    <3>1. /\ k + 1 \in 1 .. n /\ ~(k <= i) /\ k - 1 \in 1 .. (n - 1) /\ ~(k - 1 <= i) /\ k # 1 /\ k + 1 # 1
          /\ (k - 1) + 1 = k /\ (k + 1) - 1 = k /\ k + 1 # i /\ k + 1 # i + 1 /\ k + 1 # i + 2
      BY <1>2, <2>4
    <3>2. tree'[k] = tree[k + 1] /\ tree'[k - 1] = tree[k]
      BY <1>6, <3>1
    <3>3. /\ tree[k + 1].leaf # p /\ tree[k + 1].leaf # right /\ tree[k + 1].leaf # next
          /\ tree[k + 1].leaf \in Pages
      BY <1>2, <1>3, <1>4, <1>5, <1>22, <3>1, PageAssumption
    <3>4. page'[tree[k + 1].leaf].header.shared = page[tree[k + 1].leaf].header.shared
      BY <1>15, <3>3
    <3>5. page[tree[k + 1].leaf].header.shared \in {INVALID_PAGE_INDEX, tree[k].leaf}
      BY <2>1, <3>1
    <3> QED
      BY <3>1, <3>2, <3>4, <3>5
  <2> QED
    BY <1>2, <2>2, <2>3, <2>4
<1>26. KeysPlaced'
  <2> SUFFICES ASSUME NEW k \in 1 .. (n - 1), NEW m \in DOMAIN page'[tree'[k].leaf].records
               PROVE  Placed(k, page[tree[k].leaf].records[m].key)'
    BY <1>6 DEF KeysPlaced
  <2>1. CASE k = i
    <3>1. tree'[k].leaf = p
      BY <1>2, <1>5, <1>6, <2>1
    <3>2. m \in 1 .. Len(page'[p].records)
      BY <1>16, <3>1, PageFields
    <3> QED
      BY <1>14, <2>1, <3>1, <3>2
  <2>2. CASE k # i
    <3>1. PICK q, j : q = tree[from[k]].leaf /\ j = from[k]
      OBVIOUS
    <3>2. j \in 1 .. n /\ j # i + 1 /\ tree'[k].leaf = q /\ q \in Pages
      BY <1>3, <1>8, <3>1
    <3>3. j # i
      BY <1>2, <1>7, <2>2, <3>1
    <3>4. q # p /\ q # right
      BY <1>2, <1>4, <1>5, <3>1, <3>2, <3>3
    <3>5. page'[q].records = page[q].records
      BY <1>15, <3>2, <3>4
    <3>6. PICK key : key = page[q].records[m].key
      OBVIOUS
    <3>7. m \in DOMAIN page[q].records /\ key = page'[tree'[k].leaf].records[m].key
      BY <3>2, <3>5, <3>6
    <3>8. Placed(j, key)
      <4>1. \A a \in 1 .. n : \A b \in DOMAIN page[tree[a].leaf].records :
                Placed(a, page[tree[a].leaf].records[b].key)
        BY <1>3 DEF ChainInv, KeysPlaced
      <4>2. tree[j].leaf = q
        BY <3>1
      <4> QED
        BY <3>2, <3>6, <3>7, <4>1, <4>2
    <3>9. key \in Nat
      <4>1. page[q] \in PageBytes
        BY <3>2 DEF ChainInv, PagesOK
      <4>2. page[q].records[m] \in Record
        BY <3>7, <4>1, PageFields
      <4> QED
        BY <3>6, <4>2, RecordFields
    <3>10. Placed(k, key)'
      BY <1>13, <3>1, <3>8, <3>9
    <3> QED
      BY <3>7, <3>10
  <2> QED
    BY <2>1, <2>2
<1> QED
  BY <1>9, <1>18, <1>19, <1>20, <1>21, <1>23, <1>24, <1>25, <1>26 DEF ChainInv

(* The same, for the action. *)
LEMMA mergeKeeps ==
    ASSUME ChainInv, Intact, NEW p \in Pages, merge(p)
    PROVE  ChainInv'
  BY MergeEffect, MergedKeeps, RefuseKeeps

-----------------------------------------------------------------------------
(* A split *)

(* The new record goes where the search would have put it. *)
LEMMA SortedRecordsForm ==
    ASSUME NEW s \in Seq(Record), NEW r \in Record, NEW c \in 0 .. Len(s),
           \A k \in 1 .. c : s[k].key < r.key,
           \A k \in (c + 1) .. Len(s) : r.key < s[k].key
    PROVE  /\ SortedRecords(s, r) = InsertAt(s, c + 1, r)
           /\ TotalSize(s, r) = RecordBytes(s) \/ TotalSize(s, r) = RecordBytes(s) + r.size
<1>1. PICK n : n = Len(s)
  OBVIOUS
<1>2. n \in Nat /\ c \in 0 .. n /\ DOMAIN s = 1 .. n /\ \A k \in 1 .. n : s[k] \in Record
  BY <1>1
<1>3. r.key \in Nat /\ \A k \in 1 .. n : s[k].key \in Nat
  BY <1>2, RecordFields
<1>4. \A k \in 1 .. n : k \in Later(s, r) <=> c + 1 <= k
  <2> SUFFICES ASSUME NEW k \in 1 .. n PROVE r.key < s[k].key <=> c + 1 <= k
    BY <1>2 DEF Later
  <2>1. CASE k <= c
    BY <1>2, <1>3, <2>1
  <2>2. CASE k > c
    BY <1>1, <1>2, <2>2
  <2> QED
    BY <1>2, <2>1, <2>2
<1>5. Later(s, r) \subseteq 1 .. n
  BY <1>2 DEF Later
<1>6. CASE Later(s, r) = {}
  <2>1. c = n
    BY <1>2, <1>4, <1>6
  <2>2. PICK t : t = InsertAt(s, c + 1, r)
    OBVIOUS
  <2>3. t = [k \in 1 .. (n + 1) |-> IF k <= c THEN s[k] ELSE IF k = c + 1 THEN r ELSE s[k - 1]]
    BY <1>1, <2>2, InsertAtFunction
  <2>4. PICK a : a = Append(s, r)
    OBVIOUS
  <2>5. /\ a \in Seq(Record) /\ Len(a) = n + 1 /\ a[n + 1] = r
        /\ \A k \in 1 .. n : a[k] = s[k]
    BY <1>1, <2>4, AppendProperties
  <2>6. ASSUME NEW k \in 1 .. (n + 1)
        PROVE  a[k] = IF k <= c THEN s[k] ELSE IF k = c + 1 THEN r ELSE s[k - 1]
    BY <1>2, <2>1, <2>5
  <2>7. a = [k \in 1 .. (n + 1) |-> a[k]]
    BY <2>5
  <2>8. a = t
    BY <2>3, <2>6, <2>7
  <2>9. SortedRecords(s, r) = Append(s, r) /\ TotalSize(s, r) = RecordBytes(s) + 0
    BY <1>6 DEF SortedRecords, TotalSize
  <2>10. RecordBytes(s) \in Nat
    BY RecordSize, SizesFinite
  <2>11. RecordBytes(s) + 0 = RecordBytes(s)
    BY <2>10
  <2> QED
    BY <2>2, <2>4, <2>8, <2>9, <2>11
<1>7. CASE Later(s, r) # {}
  <2>1. Min(Later(s, r)) \in Later(s, r) /\ \A y \in Later(s, r) : Min(Later(s, r)) <= y
    <3>1. Later(s, r) \in SUBSET Nat
      BY <1>2, <1>5
    <3> QED
      BY <1>7, <3>1, MinProperties
  <2>2. PICK m : m = Min(Later(s, r))
    OBVIOUS
  <2>3. m \in 1 .. n /\ c + 1 <= m
    BY <1>4, <1>5, <2>1, <2>2
  <2>4. c + 1 \in 1 .. n /\ c + 1 \in Later(s, r)
    BY <1>2, <1>4, <2>3
  <2>5. m = c + 1
    BY <1>2, <2>1, <2>2, <2>3, <2>4
  <2>6. SortedRecords(s, r) = InsertAt(s, m, r) /\ TotalSize(s, r) = RecordBytes(s) + r.size
    BY <1>7, <2>2 DEF SortedRecords, TotalSize
  <2> QED
    BY <2>5, <2>6
<1> QED
  BY <1>6, <1>7

(* A split takes place at a record: the upper half is never empty. *)
LEMMA SplitIndex ==
    ASSUME NEW s \in Seq(Record), NEW total \in Nat, total < 2 * RecordBytes(s),
           NEW i, i = find_split_index_by_size(s, total)
    PROVE  /\ i \in 0 .. (Len(s) - 1)
           /\ RecordBytes(SubSeq(s, 1, i + 1)) > total \div 2
           /\ i # 0 => ~(RecordBytes(SubSeq(s, 1, i)) > total \div 2)
<1> DEFINE over == {k \in DOMAIN s : RecordBytes(SubSeq(s, 1, k)) > total \div 2}
<1>1. i = IF over = {} THEN Len(s) ELSE Min(over) - 1
  BY DEF find_split_index_by_size
<1>2. PICK n : n = Len(s)
  OBVIOUS
<1>3. n \in Nat /\ DOMAIN s = 1 .. n /\ over \subseteq 1 .. n
  BY <1>2
<1>4. \A k \in 1 .. n : k \in over <=> RecordBytes(SubSeq(s, 1, k)) > total \div 2
  BY <1>3
<1> HIDE DEF over
<1>5. n \in over
  <2>1. n # 0
    <3> SUFFICES ASSUME n = 0 PROVE FALSE
      OBVIOUS
    <3>1. s = <<>>
      BY <1>2
    <3> QED
      BY <3>1, SizesEmpty
  <2>2. SubSeq(s, 1, n) = s
    BY <1>2, <1>3, CutType
  <2>3. PICK bytes : bytes = RecordBytes(s)
    OBVIOUS
  <2>4. bytes \in Nat
    BY <2>3, SizesFinite, RecordSize
  <2>5. bytes > total \div 2
    BY <2>3, <2>4
  <2>6. n \in 1 .. n
    BY <1>3, <2>1
  <2> QED
    BY <1>4, <2>2, <2>3, <2>5, <2>6
<1>6. PICK m : m = Min(over)
  OBVIOUS
<1>7. m \in over /\ \A y \in over : m <= y
  <2>1. over \in SUBSET Nat /\ over # {}
    BY <1>3, <1>5
  <2> QED
    BY <1>6, <2>1, MinProperties
<1>8. i = m - 1 /\ m \in 1 .. n /\ i \in 0 .. (n - 1) /\ i + 1 = m
  BY <1>1, <1>3, <1>5, <1>6, <1>7
<1>9. i # 0 => i \in 1 .. n /\ i \notin over
  BY <1>3, <1>7, <1>8
<1> QED
  BY <1>2, <1>4, <1>7, <1>8, <1>9

(* Both parts of a sorted list are sorted, and one is before the other. *)
LEMMA SortedCut ==
    ASSUME NEW s \in Seq(Record), Sorted(s), NEW i \in 0 .. Len(s), NEW lower, NEW upper,
           lower = SubSeq(s, 1, i), upper = SubSeq(s, i + 1, Len(s))
    PROVE  /\ lower \in Seq(Record) /\ upper \in Seq(Record)
           /\ Len(lower) = i /\ Len(upper) = Len(s) - i
           /\ Sorted(lower) /\ Sorted(upper) /\ Before(lower, upper)
           /\ \A k \in 1 .. i : lower[k] = s[k]
           /\ \A k \in 1 .. (Len(s) - i) : upper[k] = s[i + k]
<1>1. PICK n : n = Len(s)
  OBVIOUS
<1>2. n \in Nat /\ i \in 0 .. n /\ DOMAIN s = 1 .. n
  BY <1>1
<1>3. lower \in Seq(Record) /\ Len(lower) = i /\ \A k \in 1 .. i : lower[k] = s[k]
  BY SubSeqProperties
<1>4. upper \in Seq(Record) /\ Len(upper) = n - i /\ \A k \in 1 .. (n - i) : upper[k] = s[i + k]
  BY <1>1, SubSeqProperties
<1>5. \A k, m \in 1 .. n : k < m => s[k].key < s[m].key
  BY <1>2 DEF Sorted
<1>6. Sorted(lower)
  <2> SUFFICES ASSUME NEW k \in 1 .. i, NEW m \in 1 .. i, k < m PROVE lower[k].key < lower[m].key
    BY <1>3 DEF Sorted
  <2>1. k \in 1 .. n /\ m \in 1 .. n
    BY <1>2
  <2> QED
    BY <1>3, <1>5, <2>1
<1>7. Sorted(upper)
  <2> SUFFICES ASSUME NEW k \in 1 .. (n - i), NEW m \in 1 .. (n - i), k < m
               PROVE  upper[k].key < upper[m].key
    BY <1>4 DEF Sorted
  <2>1. i + k \in 1 .. n /\ i + m \in 1 .. n /\ i + k < i + m
    BY <1>2
  <2> QED
    BY <1>4, <1>5, <2>1
<1>8. Before(lower, upper)
  <2> SUFFICES ASSUME NEW k \in 1 .. i, NEW m \in 1 .. (n - i) PROVE lower[k].key < upper[m].key
    BY <1>3, <1>4 DEF Before
  <2>1. k \in 1 .. n /\ i + m \in 1 .. n /\ k < i + m
    BY <1>2
  <2> QED
    BY <1>3, <1>4, <1>5, <2>1
<1> QED
  BY <1>1, <1>3, <1>4, <1>6, <1>7, <1>8

(* The low half of the parent is read back as it was. *)
LEMMA CapturedLow ==
    ASSUME NEW header \in Header
    PROVE  CapturedParent(header)[1] = header.low /\ header.low \in Word
<1>1. PICK low, shared : low = header.low /\ shared = header.shared
  OBVIOUS
<1>2. CapturedParent(header) = <<low, shared>>
  BY <1>1 DEF CapturedParent
<1>3. low \in Word
  BY <1>1 DEF Header
<1> QED
  BY <1>1, <1>2, <1>3

(* Appending to a blank page, as both halves are. *)
LEMMA BlankAppended ==
    ASSUME NEW pg \in PageBytes, Room(pg), pg.records = <<>>, NEW records \in Seq(Record),
           Sorted(records), NEW all, all = AppendAll(pg, records)
    PROVE  /\ all.page \in PageBytes /\ Room(all.page) /\ Sorted(all.page.records)
           /\ all.page.header = pg.header
           /\ all.ok => all.page.records = records
<1>1. PICK count \in 0 .. Len(records) :
          /\ all.page \in PageBytes /\ Room(all.page) /\ all.page.header = pg.header
          /\ all.page.records = pg.records \o SubSeq(records, 1, count)
          /\ all.ok => all.page.records = pg.records \o records
  BY AppendAllPage
<1>2. PICK part, rest : part = SubSeq(records, 1, count) /\ rest = SubSeq(records, count + 1, Len(records))
  OBVIOUS
<1>3. part \in Seq(Record) /\ Sorted(part)
  BY <1>1, <1>2, SortedCut, Zenon
<1>4. <<>> \o part = part /\ <<>> \o records = records
  BY <1>3
<1>5. all.page.records = part
  BY <1>1, <1>2, <1>4
<1>6. all.ok => all.page.records = records
  BY <1>1, <1>4
<1> QED
  BY <1>1, <1>3, <1>5, <1>6

(* Slot c is where the key belongs. *)
Between(c, s, key) ==
    (\A k \in 1 .. c : s[k].key < key) /\ (\A k \in (c + 1) .. Len(s) : key < s[k].key)

(* The pages that Halves() makes of sorted records, split after the i-th. *)
Halved(i, sorted, left, right, halves) ==
    /\ halves.separator = sorted[i + 1].key
    /\ halves.left \in PageBytes /\ Room(halves.left) /\ Sorted(halves.left.records)
    /\ halves.left.header.type = "LeafNode"
    /\ halves.left.header.low = left.header.low
    /\ halves.left.header.shared = INVALID_PAGE_INDEX
    /\ halves.right \in PageBytes /\ Room(halves.right) /\ Sorted(halves.right.records)
    /\ halves.right.header = right.header
    /\ halves.ok => /\ halves.left.records = SubSeq(sorted, 1, i)
                    /\ halves.right.records = SubSeq(sorted, i + 1, Len(sorted))

(* What the two pages of a split hold, and the separator. *)
LEMMA HalvesFacts ==
    ASSUME NEW left \in PageBytes, Room(left), Sorted(left.records),
           NEW right \in PageBytes, Room(right), right.records = <<>>,
           NEW r \in Record, NEW c \in 0 .. Len(left.records), Between(c, left.records, r.key),
           NEW sorted, sorted = InsertAt(left.records, c + 1, r),
           NEW halves, halves = Halves(left, right, r)
    PROVE  \E i \in 0 .. (Len(sorted) - 1) : Halved(i, sorted, left, right, halves)
<1>1. PICK old : old = left.records
  OBVIOUS
<1>2. old \in Seq(Record) /\ Sorted(old) /\ c \in 0 .. Len(old) /\ sorted = InsertAt(old, c + 1, r)
  BY <1>1, PageFields
<1>3. /\ \A k \in 1 .. c : old[k].key < r.key
      /\ \A k \in (c + 1) .. Len(old) : r.key < old[k].key
  BY <1>1 DEF Between
<1>4. SortedRecords(old, r) = sorted
      /\ (TotalSize(old, r) = RecordBytes(old) \/ TotalSize(old, r) = RecordBytes(old) + r.size)
  BY <1>2, <1>3, SortedRecordsForm
<1>5. sorted \in Seq(Record) /\ Sorted(sorted) /\ Len(sorted) = Len(old) + 1
  BY <1>2, <1>3, SortedInsert
<1>6. PICK total : total = TotalSize(old, r)
  OBVIOUS
<1>7. total \in Nat /\ total < 2 * RecordBytes(sorted)
  <2>1. RecordBytes(sorted) = RecordBytes(old) + r.size
    BY <1>2, SizesInsert, RecordSize
  <2>2. PICK bytes, size : bytes = RecordBytes(old) /\ size = r.size
    OBVIOUS
  <2>3. bytes \in Nat /\ size \in Nat /\ size > 0
    BY <1>2, <2>2, RecordFields, SizesFinite, RecordSize
  <2>4. total = bytes \/ total = bytes + size
    BY <1>4, <1>6, <2>2
  <2>5. total \in Nat /\ total < 2 * (bytes + size)
    BY <2>3, <2>4
  <2> QED
    BY <2>1, <2>2, <2>5
<1>8. PICK i : i = find_split_index_by_size(sorted, total)
  OBVIOUS
<1>9. i \in 0 .. (Len(sorted) - 1)
  BY <1>5, <1>7, <1>8, SplitIndex
<1>10. PICK below, above : below = SubSeq(sorted, 1, i) /\ above = SubSeq(sorted, i + 1, Len(sorted))
  OBVIOUS
<1>11. below \in Seq(Record) /\ above \in Seq(Record) /\ Sorted(below) /\ Sorted(above)
  <2>1. i \in 0 .. Len(sorted)
    BY <1>5, <1>9
  <2> QED
    BY <1>5, <1>10, <2>1, SortedCut
<1>12. PICK blank : blank = initialize("LeafNode", CapturedParent(left.header))
  OBVIOUS
<1>13. /\ blank \in PageBytes /\ Room(blank) /\ blank.records = <<>>
       /\ blank.header.type = "LeafNode" /\ blank.header.low = left.header.low
       /\ blank.header.shared = INVALID_PAGE_INDEX
  <2>1. PICK x : x = CapturedParent(left.header)
    OBVIOUS
  <2>2. x[1] = left.header.low /\ x[1] \in Word /\ "LeafNode" \in PageType
    BY <2>1, PageFields, CapturedLow DEF PageType
  <2> QED
    BY <1>12, <2>1, <2>2, InitializedPage
<1>14. PICK lower, upper : lower = AppendAll(blank, below) /\ upper = AppendAll(right, above)
  OBVIOUS
<1>15. /\ lower.page \in PageBytes /\ Room(lower.page) /\ Sorted(lower.page.records)
       /\ lower.page.header = blank.header
       /\ lower.ok => lower.page.records = below
  BY <1>11, <1>13, <1>14, BlankAppended
<1>16. /\ upper.page \in PageBytes /\ Room(upper.page) /\ Sorted(upper.page.records)
       /\ upper.page.header = right.header
       /\ upper.ok => upper.page.records = above
  BY <1>11, <1>14, BlankAppended
<1>17. halves = [ok |-> lower.ok /\ upper.ok, left |-> lower.page,
                 right |-> IF lower.ok THEN upper.page ELSE right,
                 separator |-> sorted[i + 1].key]
  BY <1>1, <1>4, <1>6, <1>8, <1>10, <1>12, <1>14 DEF Halves
<1>18. /\ halves.ok = (lower.ok /\ upper.ok) /\ halves.left = lower.page
       /\ halves.separator = sorted[i + 1].key
       /\ halves.right = IF lower.ok THEN upper.page ELSE right
  BY <1>17
<1>19. halves.right \in PageBytes /\ Room(halves.right) /\ Sorted(halves.right.records)
       /\ halves.right.header = right.header
  <2>1. Sorted(right.records)
    BY DEF Sorted
  <2> QED
    BY <1>16, <1>18, <2>1
<1>20. halves.ok => halves.left.records = below /\ halves.right.records = above
  BY <1>15, <1>16, <1>18
<1>21. Halved(i, sorted, left, right, halves)
  BY <1>10, <1>13, <1>15, <1>18, <1>19, <1>20 DEF Halved
<1> QED
  BY <1>9, <1>21

(* What a split does to the leaf at i, the new page and the one after: the *)
(* records of the leaf and the new one, sorted, are lower and then upper.  *)
Divided(i, p, right, next, lower, upper) ==
    /\ p = tree[i].leaf /\ right \notin Leaves
    /\ i = Len(tree) => next = INVALID_PAGE_INDEX
    /\ i # Len(tree) => next = tree[i + 1].leaf
    /\ DOMAIN page' = Pages
    /\ page'[p] \in PageBytes /\ Room(page'[p]) /\ page'[p].records = lower
    /\ page'[p].header.type = "LeafNode" /\ page'[p].header.low = page[p].header.low
    /\ page'[p].header.shared = INVALID_PAGE_INDEX /\ page'[p].header.next = right
    /\ page'[right] \in PageBytes /\ Room(page'[right]) /\ page'[right].records = upper
    /\ page'[right].header.type = "LeafNode" /\ page'[right].header.low = page[right].header.low
    /\ page[right].header.type = "LeafNode"
    /\ page'[right].header.shared = p /\ page'[right].header.next = next
    /\ \A q \in Pages \ {p, right} :
        /\ page'[q] \in PageBytes /\ Room(page'[q])
        /\ page'[q].records = page[q].records /\ page'[q].heap = page[q].heap
        /\ page'[q].header.type = page[q].header.type /\ page'[q].header.low = page[q].header.low
        /\ page'[q].header.shared = IF q = next THEN right ELSE page[q].header.shared
        /\ page'[q].header.next = page[q].header.next
    /\ tree' = InsertAt(tree, i + 1, [separator |-> upper[1].key, leaf |-> right])
    /\ result' = "Inserted" /\ parent' = parent

(* A split that failed: the pages are sound, but records are lost. *)
Broken(p, right) ==
    /\ DOMAIN page' = Pages
    /\ \A q \in {p, right} :
        /\ page'[q] \in PageBytes /\ Room(page'[q]) /\ Sorted(page'[q].records)
        /\ page'[q].header.type = page[q].header.type /\ page'[q].header.low = page[q].header.low
    /\ \A q \in Pages \ {p, right} : page'[q] = page[q]
    /\ UNCHANGED tree /\ result' = "SplitFailed" /\ parent' = parent

(* The lists that a split makes of the records of the leaf at i and r. *)
Cut(i, old, r, lower, upper) ==
    \E c \in 0 .. Len(old) : \E k \in 0 .. Len(old) : \E sorted \in Seq(Record) :
        /\ sorted = InsertAt(old, c + 1, r) /\ Len(sorted) = Len(old) + 1 /\ Sorted(sorted)
        /\ \A m \in 1 .. Len(sorted) : Placed(i, sorted[m].key)
        /\ lower = SubSeq(sorted, 1, k) /\ upper = SubSeq(sorted, k + 1, Len(sorted))

(* Where a key that is not on a page belongs. *)
LEMMA UnfoundSlot ==
    ASSUME NEW pg \in PageBytes, Sorted(pg.records), NEW key \in Nat,
           ~search_page(pg, key).found
    PROVE  \E c \in 0 .. Len(pg.records) :
               search_page(pg, key).slot = c /\ Between(c, pg.records, key)
<1>1. PICK c \in 0 .. Len(pg.records) :
          /\ search_page(pg, key).slot = c
          /\ search_page(pg, key).found <=> c < Len(pg.records) /\ pg.records[c + 1].key = key
          /\ \A k \in 1 .. c : pg.records[k].key < key
          /\ \A k \in (c + 1) .. Len(pg.records) : key <= pg.records[k].key
  <2>1. \E c \in 0 .. Len(pg.records) : Searched(search_page(pg, key), c, pg.records, key)
    BY SearchPage
  <2> QED
    BY <2>1 DEF Searched
<1>2. ASSUME NEW k \in (c + 1) .. Len(pg.records) PROVE key < pg.records[k].key
  <2>1. /\ Len(pg.records) \in Nat /\ DOMAIN pg.records = 1 .. Len(pg.records)
        /\ \A m \in 1 .. Len(pg.records) : pg.records[m] \in Record
    BY PageFields
  <2>2. c < Len(pg.records) /\ k \in 1 .. Len(pg.records) /\ c + 1 \in 1 .. Len(pg.records)
        /\ c + 1 \in (c + 1) .. Len(pg.records)
    BY <1>1, <2>1
  <2>3. pg.records[c + 1].key # key /\ key <= pg.records[c + 1].key
    BY <1>1, <2>2
  <2>4. pg.records[c + 1].key \in Nat /\ pg.records[k].key \in Nat
    BY <2>1, <2>2, RecordFields
  <2>5. k # c + 1 => pg.records[c + 1].key < pg.records[k].key
    BY <2>1, <2>2 DEF Sorted
  <2> QED
    BY <2>3, <2>4, <2>5
<1> QED
  BY <1>1, <1>2 DEF Between

(* What a split does: refuse, break the chain, or divide a leaf. *)
LEMMA SplitEffect ==
    ASSUME ChainInv, Intact, NEW r \in Record, NEW right \in Pages, split_and_insert(r, right)
    PROVE  \/ Refuse("NewRightSiblingNotEmpty")
           \/ \E p \in Pages : page[p].header.type = "LeafNode" /\ Broken(p, right)
           \/ \E i \in 1 .. Len(tree) : \E p \in Pages : \E next, lower, upper :
                /\ Place(r.key) = i /\ Cut(i, page[p].records, r, lower, upper)
                /\ Divided(i, p, right, next, lower, upper)
<1>1. PICK p : p = Route(r.key)
  OBVIOUS
<1>2. PICK left, blank : left = page[p] /\ blank = page[right]
  OBVIOUS
<1>3. PICK halves : halves = Halves(left, blank, r)
  OBVIOUS
<1>4. PICK next : next = left.header.next
  OBVIOUS
<1>5. /\ ~search_page(left, r.key).found /\ right # p /\ blank.header.type = "LeafNode"
      /\ right \notin Leaves \/ Len(blank.records) # 0
      /\ IF Len(blank.records) # 0 THEN Refuse("NewRightSiblingNotEmpty")
         ELSE IF ~halves.ok
         THEN /\ Write([q \in {p, right} |-> IF q = p THEN halves.left ELSE halves.right], "SplitFailed")
              /\ UNCHANGED tree
         ELSE /\ Write(Linked(halves, p, right, next), "Inserted")
              /\ tree' = InsertAt(tree, Place(r.key) + 1,
                                  [separator |-> halves.separator, leaf |-> right])
  BY <1>1, <1>2, <1>3, <1>4 DEF split_and_insert, get_item_count, get_next_leaf_index
<1>6. CASE Len(blank.records) # 0
  BY <1>5, <1>6
<1>7. CASE Len(blank.records) = 0
  <2>1. r.key \in Keys /\ r.key \in Nat
    BY RecordFields
  <2>2. PICK i \in 1 .. Len(tree) :
            /\ Place(r.key) = i /\ p = tree[i].leaf /\ p \in Pages
            /\ left \in PageBytes /\ Room(left) /\ Sorted(left.records) /\ Placed(i, r.key)
            /\ \A k \in 1 .. Len(left.records) : Placed(i, left.records[k].key)
    BY <1>1, <1>2, <2>1, Routed
  <2>3. blank \in PageBytes /\ Room(blank) /\ right \notin Leaves
    BY <1>2, <1>5, <1>7 DEF ChainInv, PagesOK
  <2>4. blank.records = <<>>
    BY <1>7, <2>3, PageFields
  <2>5. PICK c \in 0 .. Len(left.records) : Between(c, left.records, r.key)
    BY <1>5, <2>1, <2>2, UnfoundSlot
  <2>6. PICK sorted : sorted = InsertAt(left.records, c + 1, r)
    OBVIOUS
  <2>7. PICK k \in 0 .. (Len(sorted) - 1) : Halved(k, sorted, left, blank, halves)
    BY <1>3, <2>2, <2>3, <2>4, <2>5, <2>6, HalvesFacts
  <2>8. page[p].header.type = "LeafNode"
    <3>1. p \in Leaves
      BY <2>2, TreeFields DEF ChainInv
    <3> QED
      BY <3>1 DEF ChainInv, TreeOK
  <2>9. CASE ~halves.ok
    <3>1. PICK new : new = [q \in {p, right} |-> IF q = p THEN halves.left ELSE halves.right]
      OBVIOUS
    <3>2. Write(new, "SplitFailed") /\ UNCHANGED tree
      BY <1>5, <1>7, <2>9, <3>1
    <3>3. DOMAIN new = {p, right} /\ new[p] = halves.left /\ new[right] = halves.right
      BY <1>5, <3>1
    <3>4. /\ DOMAIN page' = Pages /\ result' = "SplitFailed" /\ parent' = parent
          /\ page'[p] = halves.left /\ page'[right] = halves.right
          /\ \A q \in Pages \ {p, right} : page'[q] = page[q]
      <4>1. /\ DOMAIN page' = Pages /\ result' = "SplitFailed" /\ parent' = parent
            /\ \A q \in Pages : q \in DOMAIN new => page'[q] = new[q]
            /\ \A q \in Pages : q \notin DOMAIN new => page'[q] = page[q]
        BY <3>2, WriteMany
      <4> QED
        BY <2>2, <3>3, <4>1
    <3>5. Broken(p, right)
      BY <1>2, <1>5, <2>7, <2>8, <3>2, <3>4 DEF Broken, Halved
    <3> QED
      BY <2>2, <2>8, <3>5
  <2>10. CASE halves.ok
    <3>1. PICK lower, upper : lower = SubSeq(sorted, 1, k) /\ upper = SubSeq(sorted, k + 1, Len(sorted))
      OBVIOUS
    <3>2. /\ sorted \in Seq(Record) /\ Len(sorted) = Len(left.records) + 1 /\ Sorted(sorted)
          /\ \A m \in 1 .. Len(sorted) : Placed(i, sorted[m].key)
      <4>1. PICK old : old = left.records
        OBVIOUS
      <4>2. old \in Seq(Record) /\ Sorted(old) /\ c \in 0 .. Len(old) /\ sorted = InsertAt(old, c + 1, r)
        BY <2>2, <2>5, <2>6, <4>1, PageFields
      <4>3. /\ \A m \in 1 .. c : old[m].key < r.key
            /\ \A m \in (c + 1) .. Len(old) : r.key < old[m].key
        BY <2>5, <4>1 DEF Between
      <4>4. /\ sorted \in Seq(Record) /\ Len(sorted) = Len(old) + 1 /\ Sorted(sorted)
            /\ \A m \in 1 .. Len(sorted) : sorted[m] = r \/ \E a \in 1 .. Len(old) : sorted[m] = old[a]
        BY <4>2, <4>3, SortedInsert
      <4>5. \A m \in 1 .. Len(sorted) : Placed(i, sorted[m].key)
        BY <2>2, <4>1, <4>4
      <4> QED
        BY <4>1, <4>4, <4>5
    <3>3. Len(left.records) \in Nat /\ k \in 0 .. Len(left.records) /\ k \in 0 .. Len(sorted)
          /\ 1 \in 1 .. (Len(sorted) - k)
      BY <2>2, <2>7, <3>2, PageFields
    <3>4. Cut(i, page[p].records, r, lower, upper)
      BY <1>2, <2>5, <2>6, <3>1, <3>2, <3>3 DEF Cut
    <3>5. upper[1].key = halves.separator
      <4>1. upper[1] = sorted[k + 1]
        BY <3>1, <3>2, <3>3, SortedCut
      <4> QED
        BY <2>7, <4>1 DEF Halved
    <3>6. /\ i = Len(tree) => next = INVALID_PAGE_INDEX
          /\ i # Len(tree) => next = tree[i + 1].leaf
      <4>1. next = NextLeaf(i)
        BY <1>2, <1>4, <2>2, TreeFields DEF ChainInv, ChainOK
      <4> QED
        BY <4>1 DEF NextLeaf
    <3>7. /\ next # p /\ next # right /\ (next # INVALID_PAGE_INDEX => next \in Pages)
      <4>1. PICK n : n = Len(tree)
        OBVIOUS
      <4>2. n \in Nat /\ i \in 1 .. n /\ (i # n => i + 1 \in 1 .. n) /\ i < i + 1
        BY <2>2, <4>1, TreeFields DEF ChainInv
      <4>3. \A m \in 1 .. n : tree[m].leaf \in Pages /\ tree[m].leaf \in Leaves
        BY <4>1, TreeFields DEF ChainInv
      <4>4. \A a, b \in 1 .. n : a < b => tree[a].leaf # tree[b].leaf
        BY <4>1, TreeFields, SMTT(20) DEF ChainInv, TreeOK
      <4>5. CASE i = n
        BY <2>2, <3>6, <4>1, <4>5, PageAssumption
      <4>6. CASE i # n
        BY <2>2, <2>3, <3>6, <4>1, <4>2, <4>3, <4>4, <4>6
      <4> QED
        BY <4>5, <4>6
    <3>8. p \in Word /\ right \in Word /\ next \in Word
      BY <2>2, <3>7, PageWords
    <3>9. PICK a, b0, b : /\ a = set_next_leaf_index(halves.left, right)
                          /\ b0 = set_next_leaf_index(halves.right, next)
                          /\ b = set_prev_leaf_index(b0, p)
      OBVIOUS
    <3>10. /\ halves.left \in PageBytes /\ Room(halves.left) /\ halves.left.records = lower
           /\ halves.left.header.type = "LeafNode" /\ halves.left.header.low = left.header.low
           /\ halves.left.header.shared = INVALID_PAGE_INDEX
           /\ halves.right \in PageBytes /\ Room(halves.right) /\ halves.right.records = upper
           /\ halves.right.header = blank.header
      BY <2>7, <2>10, <3>1 DEF Halved
    <3>11. /\ a \in PageBytes /\ Room(a) /\ a.records = lower
           /\ a.header.type = "LeafNode" /\ a.header.low = left.header.low
           /\ a.header.shared = INVALID_PAGE_INDEX /\ a.header.next = right
      <4>1. PICK x : x = halves.left
        OBVIOUS
      <4>2. x \in PageBytes /\ Room(x) /\ a = set_next_leaf_index(x, right)
        BY <3>9, <3>10, <4>1
      <4>3. /\ a \in PageBytes /\ Room(a) /\ a.records = x.records
            /\ a.header.type = x.header.type /\ a.header.low = x.header.low
            /\ a.header.shared = x.header.shared /\ a.header.next = right
        BY <3>8, <4>2, SetNext
      <4> QED
        BY <3>10, <4>1, <4>3
    <3>12. /\ b \in PageBytes /\ Room(b) /\ b.records = upper
           /\ b.header.type = "LeafNode" /\ b.header.low = blank.header.low
           /\ b.header.shared = p /\ b.header.next = next
      <4>1. PICK x : x = halves.right
        OBVIOUS
      <4>2. x \in PageBytes /\ Room(x) /\ b0 = set_next_leaf_index(x, next)
        BY <3>9, <3>10, <4>1
      <4>3. /\ b0 \in PageBytes /\ Room(b0) /\ b0.records = x.records
            /\ b0.header.type = x.header.type /\ b0.header.low = x.header.low
            /\ b0.header.next = next
        BY <3>8, <4>2, SetNext
      <4>4. /\ b \in PageBytes /\ Room(b) /\ b.records = b0.records
            /\ b.header.type = b0.header.type /\ b.header.low = b0.header.low
            /\ b.header.shared = p /\ b.header.next = b0.header.next
        BY <3>8, <3>9, <4>3, SetPrev
      <4> QED
        BY <1>5, <3>10, <4>1, <4>3, <4>4
    <3>13. PICK new : new = Linked(halves, p, right, next)
      OBVIOUS
    <3>14. /\ DOMAIN new = {p, right} \cup ({next} \ {INVALID_PAGE_INDEX})
           /\ new[p] = a /\ new[right] = b
           /\ next # INVALID_PAGE_INDEX => new[next] = set_prev_leaf_index(page[next], right)
      BY <1>5, <3>7, <3>9, <3>13 DEF Linked
    <3>15. Write(new, "Inserted")
           /\ tree' = InsertAt(tree, i + 1, [separator |-> upper[1].key, leaf |-> right])
      BY <1>5, <1>7, <2>2, <2>10, <3>5, <3>13
    <3>16. /\ DOMAIN page' = Pages /\ result' = "Inserted" /\ parent' = parent
           /\ page'[p] = a /\ page'[right] = b
           /\ next # INVALID_PAGE_INDEX => page'[next] = set_prev_leaf_index(page[next], right)
           /\ \A q \in Pages \ {p, right, next} : page'[q] = page[q]
      <4>1. /\ DOMAIN page' = Pages /\ result' = "Inserted" /\ parent' = parent
            /\ \A q \in Pages : q \in DOMAIN new => page'[q] = new[q]
            /\ \A q \in Pages : q \notin DOMAIN new => page'[q] = page[q]
        BY <3>15, WriteMany
      <4> QED
        BY <2>2, <3>7, <3>14, <4>1
    <3>17. ASSUME NEW q \in Pages \ {p, right}
           PROVE  /\ page'[q] \in PageBytes /\ Room(page'[q])
                  /\ page'[q].records = page[q].records /\ page'[q].heap = page[q].heap
                  /\ page'[q].header.type = page[q].header.type /\ page'[q].header.low = page[q].header.low
                  /\ page'[q].header.shared = IF q = next THEN right ELSE page[q].header.shared
                  /\ page'[q].header.next = page[q].header.next
      <4>1. page[q] \in PageBytes /\ Room(page[q])
        BY DEF ChainInv, PagesOK
      <4>2. CASE q = next
        <5>1. PICK old, to : old = page[q] /\ to = page'[q]
          OBVIOUS
        <5>2. old \in PageBytes /\ Room(old) /\ to = set_prev_leaf_index(old, right)
          BY <3>7, <3>16, <4>1, <4>2, <5>1, PageWords
        <5>3. right \in Word
          BY <3>8
        <5>4. /\ to \in PageBytes /\ Room(to) /\ to.records = old.records /\ to.heap = old.heap
              /\ to.header.type = old.header.type /\ to.header.low = old.header.low
              /\ to.header.shared = right /\ to.header.next = old.header.next
          BY <5>2, <5>3, SetPrev
        <5> QED
          BY <4>2, <5>1, <5>4
      <4>3. CASE q # next
        BY <3>16, <4>1, <4>3
      <4> QED
        BY <4>2, <4>3
    <3>18. Divided(i, p, right, next, lower, upper)
      BY <1>2, <1>5, <2>2, <2>3, <3>6, <3>11, <3>12, <3>15, <3>16, <3>17 DEF Divided
    <3> QED
      BY <2>2, <3>4, <3>18
  <2> QED
    BY <2>9, <2>10
<1> QED
  BY <1>2, <1>6, <1>7, PageFields DEF ChainInv, PagesOK

(* A split that failed keeps what does not depend on the chain. *)
LEMMA BrokenKeeps ==
    ASSUME ChainInv, NEW p \in Pages, NEW right \in Pages, Broken(p, right)
    PROVE  ChainInv'
<1>1. /\ DOMAIN page' = Pages /\ tree' = tree /\ result' = "SplitFailed" /\ parent' = parent
      /\ \A q \in Pages : q # p /\ q # right => page'[q] = page[q]
  BY DEF Broken
<1>2. \A q \in Pages : q = p \/ q = right =>
          /\ page'[q] \in PageBytes /\ Room(page'[q]) /\ Sorted(page'[q].records)
          /\ page'[q].header.type = page[q].header.type /\ page'[q].header.low = page[q].header.low
  BY DEF Broken
<1>3. PagesOK'
  BY <1>1, <1>2 DEF ChainInv, PagesOK
<1>4. \A q \in Pages : page'[q].header.type = page[q].header.type /\ page'[q].header.low = page[q].header.low
  BY <1>1, <1>2
<1>5. ParentsOK'
  BY <1>1, <1>4 DEF ChainInv, ParentsOK
<1>6. TreeOK'
  <2>1. Leaves' = Leaves /\ \A q \in Leaves : q \in Pages
    BY <1>1, TreeFields DEF Leaves, ChainInv
  <2> QED
    BY <1>1, <1>4, <2>1 DEF ChainInv, TreeOK
<1> QED
  BY <1>1, <1>3, <1>5, <1>6 DEF ChainInv, Intact

(* The halves are sorted, one before the other, within the separators. *)
LEMMA CutFacts ==
    ASSUME NEW i, NEW old \in Seq(Record), NEW r, NEW lower, NEW upper, Cut(i, old, r, lower, upper)
    PROVE  /\ lower \in Seq(Record) /\ Sorted(lower) /\ upper \in Seq(Record) /\ Sorted(upper)
           /\ Before(lower, upper) /\ Len(upper) \in Nat /\ 1 \in 1 .. Len(upper)
           /\ \A m \in 1 .. Len(lower) : Placed(i, lower[m].key)
           /\ \A m \in 1 .. Len(upper) : Placed(i, upper[m].key)
<1>1. PICK k \in 0 .. Len(old), sorted \in Seq(Record) :
        /\ Len(sorted) = Len(old) + 1 /\ Sorted(sorted)
        /\ \A m \in 1 .. Len(sorted) : Placed(i, sorted[m].key)
        /\ lower = SubSeq(sorted, 1, k) /\ upper = SubSeq(sorted, k + 1, Len(sorted))
  BY DEF Cut
<1>2. PICK n : n = Len(sorted)
  OBVIOUS
<1>3. n \in Nat /\ k \in 0 .. n /\ n - k \in Nat /\ n - k >= 1
  BY <1>1, <1>2
<1>4. /\ lower \in Seq(Record) /\ upper \in Seq(Record)
      /\ Len(lower) = k /\ Len(upper) = n - k
      /\ Sorted(lower) /\ Sorted(upper) /\ Before(lower, upper)
      /\ \A m \in 1 .. k : lower[m] = sorted[m]
      /\ \A m \in 1 .. (n - k) : upper[m] = sorted[k + m]
  <2>1. /\ sorted \in Seq(Record) /\ Sorted(sorted) /\ k \in 0 .. Len(sorted)
        /\ lower = SubSeq(sorted, 1, k) /\ upper = SubSeq(sorted, k + 1, Len(sorted))
    BY <1>1, <1>2, <1>3
  <2>2. Sorted(lower) /\ Sorted(upper) /\ Before(lower, upper)
    BY ZenonT(40), <2>1, SortedCut
  <2>3. lower \in Seq(Record) /\ Len(lower) = k /\ \A m \in 1 .. k : lower[m] = sorted[m]
    BY <2>1, SubSeqProperties
  <2>4. /\ upper \in Seq(Record) /\ Len(upper) = Len(sorted) - k
        /\ \A m \in 1 .. (Len(sorted) - k) : upper[m] = sorted[k + m]
    BY <2>1, SubSeqProperties
  <2> QED
    BY <1>2, <2>2, <2>3, <2>4
<1>5. \A m \in 1 .. n : Placed(i, sorted[m].key)
  BY <1>1, <1>2
<1>6. ASSUME NEW m \in 1 .. Len(lower) PROVE Placed(i, lower[m].key)
  <2>1. m \in 1 .. k /\ m \in 1 .. n
    BY <1>3, <1>4
  <2> QED
    BY <1>4, <1>5, <2>1
<1>7. ASSUME NEW m \in 1 .. Len(upper) PROVE Placed(i, upper[m].key)
  <2>1. m \in 1 .. (n - k) /\ k + m \in 1 .. n
    BY <1>3, <1>4
  <2> QED
    BY <1>4, <1>5, <2>1
<1>8. Len(upper) \in Nat /\ 1 \in 1 .. Len(upper)
  BY <1>3, <1>4
<1> QED
  BY <1>4, <1>6, <1>7, <1>8

(* A split keeps the invariant. *)
LEMMA DividedKeeps ==
    ASSUME ChainInv, Intact, NEW r \in Record, NEW p \in Pages, NEW right \in Pages,
           NEW i \in 1 .. Len(tree), NEW next, NEW lower, NEW upper,
           Cut(i, page[p].records, r, lower, upper), Divided(i, p, right, next, lower, upper)
    PROVE  ChainInv' /\ \A q : q \in Leaves' <=> q \in Leaves \/ q = right
<1>1. PICK n : n = Len(tree)
  OBVIOUS
<1>2. n \in Nat /\ n >= 1 /\ i \in 1 .. n
  BY <1>1, TreeFields DEF ChainInv
<1>3. /\ DOMAIN tree = 1 .. n /\ tree \in Seq(Entry)
      /\ \A k \in 1 .. n : tree[k].leaf \in Pages /\ tree[k].separator \in Nat
      /\ \A k, m \in 1 .. n : k < m => tree[k].leaf # tree[m].leaf /\ tree[k].separator <= tree[m].separator
      /\ \A q : q \in Leaves <=> \E k \in 1 .. n : tree[k].leaf = q
  BY <1>1, TreeFields DEF ChainInv, TreeOK
<1>4. \A k, m \in 1 .. n : k # m => tree[k].leaf # tree[m].leaf
  <2>1. \A k, m \in 1 .. n : k # m => k < m \/ m < k
    BY <1>2
  <2> QED
    BY <1>3, <2>1
<1>5. /\ p = tree[i].leaf /\ right \notin Leaves
      /\ i = n => next = INVALID_PAGE_INDEX
      /\ i # n => next = tree[i + 1].leaf
  BY <1>1 DEF Divided
<1>6. p \in Leaves /\ right # p /\ \A k \in 1 .. n : tree[k].leaf # right
  BY <1>2, <1>3, <1>5
<1>7. page[p] \in PageBytes /\ page[p].records \in Seq(Record)
  BY PageFields DEF ChainInv, PagesOK
<1>8. /\ lower \in Seq(Record) /\ Sorted(lower) /\ upper \in Seq(Record) /\ Sorted(upper)
      /\ Before(lower, upper) /\ Len(upper) \in Nat /\ 1 \in 1 .. Len(upper)
      /\ \A m \in 1 .. Len(lower) : Placed(i, lower[m].key)
      /\ \A m \in 1 .. Len(upper) : Placed(i, upper[m].key)
  BY <1>7, CutFacts
<1>9. PICK sep, e : sep = upper[1].key /\ e = [separator |-> sep, leaf |-> right]
  OBVIOUS
<1>10. sep \in Keys /\ sep \in Nat /\ e \in Entry /\ e.separator = sep /\ e.leaf = right /\ Placed(i, sep)
  <2>1. upper[1] \in Record
    BY <1>8
  <2>2. sep \in Keys /\ sep \in Nat /\ Placed(i, sep)
    BY <1>8, <1>9, <2>1, RecordFields
  <2> QED
    BY <1>9, <2>2 DEF Entry
<1>11. /\ tree' \in Seq(Entry) /\ Len(tree') = n + 1 /\ DOMAIN tree' = 1 .. (n + 1)
       /\ \A k \in 1 .. (n + 1) : tree'[k] = IF k <= i THEN tree[k] ELSE IF k = i + 1 THEN e ELSE tree[k - 1]
  <2>1. PICK s : s = tree
    OBVIOUS
  <2>2. s \in Seq(Entry) /\ i \in 0 .. Len(s) /\ tree' = InsertAt(s, i + 1, e) /\ Len(s) = n
    <3>1. tree' = InsertAt(tree, i + 1, [separator |-> upper[1].key, leaf |-> right])
      BY DEF Divided
    <3> QED
      BY <1>1, <1>2, <1>3, <1>9, <2>1, <3>1
  <2>3. tree' \in Seq(Entry) /\ Len(tree') = Len(s) + 1
    BY <1>10, <2>2, InsertAtType
  <2>4. tree' = [k \in 1 .. (Len(s) + 1) |-> IF k <= i THEN s[k] ELSE IF k = i + 1 THEN e ELSE s[k - 1]]
    BY <1>10, <2>2, InsertAtFunction
  <2> QED
    BY <2>1, <2>2, <2>3, <2>4
<1>12. PICK from : from = [k \in 1 .. (n + 1) |-> IF k <= i THEN k ELSE k - 1]
  OBVIOUS
<1>13. /\ \A k \in 1 .. (n + 1) : from[k] \in 1 .. n /\ (k # i + 1 => tree'[k] = tree[from[k]])
       /\ from[i + 1] = i /\ tree'[i + 1] = e /\ i + 1 \in 1 .. (n + 1)
       /\ \A k, m \in 1 .. (n + 1) : k < m /\ k # i + 1 /\ m # i + 1 => from[k] < from[m]
       /\ \A m \in 1 .. n : \E k \in 1 .. (n + 1) : from[k] = m /\ k # i + 1
  <2>1. ASSUME NEW k \in 1 .. (n + 1)
        PROVE  from[k] \in 1 .. n /\ (k # i + 1 => tree'[k] = tree[from[k]])
    BY <1>2, <1>11, <1>12
  <2>2. i + 1 \in 1 .. (n + 1) /\ ~(i + 1 <= i) /\ (i + 1) - 1 = i
    BY <1>2
  <2>3. from[i + 1] = i /\ tree'[i + 1] = e
    BY <1>11, <1>12, <2>2
  <2>4. ASSUME NEW k \in 1 .. (n + 1), NEW m \in 1 .. (n + 1), k < m, k # i + 1, m # i + 1
        PROVE  from[k] < from[m]
    BY <1>2, <1>12, <2>4
  <2>5. ASSUME NEW m \in 1 .. n PROVE \E k \in 1 .. (n + 1) : from[k] = m /\ k # i + 1
    <3>1. CASE m <= i
      <4>1. m \in 1 .. (n + 1) /\ from[m] = m /\ m # i + 1
        BY <1>2, <1>12, <3>1
      <4> QED
        BY <4>1
    <3>2. CASE m > i
      <4>1. m + 1 \in 1 .. (n + 1) /\ from[m + 1] = m /\ m + 1 # i + 1
        BY <1>2, <1>12, <3>2
      <4> QED
        BY <4>1
    <3> QED
      BY <1>2, <3>1, <3>2
  <2> QED
    BY <2>1, <2>2, <2>3, <2>4, <2>5
<1>14. \A q : q \in Leaves' <=> q \in Leaves \/ q = right
  <2>1. \A q : q \in Leaves' <=> \E k \in 1 .. (n + 1) : tree'[k].leaf = q
    BY <1>11 DEF Leaves
  <2>2. ASSUME NEW q, q \in Leaves' PROVE q \in Leaves \/ q = right
    <3>1. PICK k \in 1 .. (n + 1) : tree'[k].leaf = q
      BY <2>1, <2>2
    <3>2. CASE k = i + 1
      BY <1>10, <1>13, <3>1, <3>2
    <3>3. CASE k # i + 1
      BY <1>3, <1>13, <3>1, <3>3
    <3> QED
      BY <3>2, <3>3
  <2>3. ASSUME NEW q, q \in Leaves PROVE q \in Leaves'
    <3>1. PICK m \in 1 .. n : tree[m].leaf = q
      BY <1>3, <2>3
    <3>2. PICK k \in 1 .. (n + 1) : from[k] = m /\ k # i + 1
      BY <1>13, <3>1
    <3>3. tree'[k].leaf = q
      BY <1>13, <3>1, <3>2
    <3> QED
      BY <2>1, <3>2, <3>3
  <2>4. right \in Leaves'
    BY <1>10, <1>13, <2>1
  <2> QED
    BY <2>2, <2>3, <2>4
<1>15. \A q \in Pages : q # p /\ q # right =>
          /\ page'[q] \in PageBytes /\ Room(page'[q])
          /\ page'[q].records = page[q].records /\ page'[q].heap = page[q].heap
          /\ page'[q].header.type = page[q].header.type /\ page'[q].header.low = page[q].header.low
          /\ page'[q].header.shared = IF q = next THEN right ELSE page[q].header.shared
          /\ page'[q].header.next = page[q].header.next
  BY DEF Divided
<1>16. /\ page'[p] \in PageBytes /\ Room(page'[p]) /\ page'[p].records = lower
       /\ page'[p].header.type = "LeafNode" /\ page'[p].header.low = page[p].header.low
       /\ page'[p].header.shared = INVALID_PAGE_INDEX /\ page'[p].header.next = right
  BY DEF Divided
<1>17. /\ page'[right] \in PageBytes /\ Room(page'[right]) /\ page'[right].records = upper
       /\ page'[right].header.type = "LeafNode" /\ page'[right].header.low = page[right].header.low
       /\ page[right].header.type = "LeafNode"
       /\ page'[right].header.shared = p /\ page'[right].header.next = next
  BY DEF Divided
<1>18. DOMAIN page' = Pages /\ parent' = parent /\ result' = "Inserted"
  BY DEF Divided
<1>19. PagesOK'
  <2> SUFFICES ASSUME NEW q \in Pages
               PROVE  page'[q] \in PageBytes /\ Room(page'[q]) /\ Sorted(page'[q].records)
    BY <1>18 DEF PagesOK
  <2>1. CASE q = p
    BY <1>8, <1>16, <2>1
  <2>2. CASE q = right
    BY <1>8, <1>17, <2>2
  <2>3. CASE q # p /\ q # right
    BY <1>15, <2>3 DEF ChainInv, PagesOK
  <2> QED
    BY <2>1, <2>2, <2>3
<1>20. ParentsOK'
  <2> SUFFICES ASSUME NEW q \in Pages, page'[q].header.type = "LeafNode"
               PROVE  page'[q].header.low = parent[q][1]
    BY <1>18 DEF ChainInv, ParentsOK
  <2>1. page[p].header.type = "LeafNode"
    BY <1>6 DEF ChainInv, TreeOK
  <2>2. page'[q].header.low = page[q].header.low /\ page[q].header.type = "LeafNode"
    BY <1>15, <1>16, <1>17, <2>1
  <2> QED
    BY <2>2 DEF ChainInv, ParentsOK
<1>21. /\ tree[i].separator <= sep
       /\ \A k \in 1 .. n : i < k => sep < tree[k].separator
  BY <1>3, <1>10 DEF Placed
<1>22. ASSUME NEW k \in 1 .. (n + 1), k # i + 1, NEW key \in Nat, Placed(from[k], key),
              k = i => key < sep
       PROVE  Placed(k, key)'
  <2>1. tree'[k].separator <= key
    BY <1>13, <1>22 DEF Placed
  <2>2. ASSUME NEW j \in 1 .. (n + 1), k < j PROVE key < tree'[j].separator
    <3>1. CASE j # i + 1
      <4>1. from[k] < from[j] /\ from[j] \in 1 .. n /\ tree'[j] = tree[from[j]]
        BY <1>13, <1>22, <2>2, <3>1
      <4> QED
        BY <1>3, <1>22, <4>1 DEF Placed
    <3>2. CASE j = i + 1 /\ k # i
      <4>1. from[k] = k /\ k < i
        BY <1>2, <1>12, <1>22, <2>2, <3>2
      <4>2. key < tree[i].separator
        BY <1>2, <1>3, <1>22, <4>1 DEF Placed
      <4> QED
        BY <1>2, <1>3, <1>10, <1>13, <1>21, <3>2, <4>2
    <3>3. CASE j = i + 1 /\ k = i
      BY <1>10, <1>13, <1>22, <3>3
    <3> QED
      BY <3>1, <3>2, <3>3
  <2> QED
    BY <1>11, <2>1, <2>2 DEF Placed
<1>23. ASSUME NEW key \in Nat, Placed(i, key), sep <= key PROVE Placed(i + 1, key)'
  <2>1. tree'[i + 1].separator <= key
    BY <1>10, <1>13, <1>23
  <2>2. ASSUME NEW j \in 1 .. (n + 1), i + 1 < j PROVE key < tree'[j].separator
    <3>1. from[j] \in 1 .. n /\ i < from[j] /\ tree'[j] = tree[from[j]]
      BY <1>2, <1>12, <1>13, <2>2
    <3> QED
      BY <1>3, <1>23, <3>1 DEF Placed
  <2> QED
    BY <1>11, <2>1, <2>2 DEF Placed
<1>24. TreeOK'
  <2>1. tree'[1] = [separator |-> 0, leaf |-> Root] /\ Len(tree') >= 1
    <3>1. 1 \in 1 .. (n + 1) /\ 1 <= i /\ n + 1 >= 1
      BY <1>2
    <3>2. tree'[1] = tree[1]
      BY <1>11, <3>1
    <3> QED
      BY <1>11, <3>1, <3>2 DEF ChainInv, TreeOK
  <2>2. ASSUME NEW k \in 1 .. (n + 1), NEW m \in 1 .. (n + 1), k < m
        PROVE  tree'[k].leaf # tree'[m].leaf /\ tree'[k].separator <= tree'[m].separator
    <3>1. CASE k # i + 1 /\ m # i + 1
      <4>1. from[k] \in 1 .. n /\ from[m] \in 1 .. n /\ from[k] < from[m]
        BY <1>13, <2>2, <3>1
      <4>2. tree'[k] = tree[from[k]] /\ tree'[m] = tree[from[m]]
        BY <1>13, <3>1
      <4> QED
        BY <1>3, <4>1, <4>2
    <3>2. CASE k = i + 1
      <4>1. from[m] \in 1 .. n /\ i < from[m] /\ tree'[m] = tree[from[m]]
        BY <1>2, <1>12, <1>13, <2>2, <3>2
      <4>2. sep < tree[from[m]].separator /\ tree[from[m]].separator \in Nat
        BY <1>3, <1>21, <4>1
      <4> QED
        BY <1>6, <1>10, <1>13, <3>2, <4>1, <4>2
    <3>3. CASE m = i + 1
      <4>1. k \in 1 .. n /\ k <= i /\ tree'[k] = tree[k]
        BY <1>2, <1>11, <2>2, <3>3
      <4>2. tree[k].separator <= tree[i].separator
        BY <1>2, <1>3, <4>1
      <4>3. tree[k].separator <= sep
        BY <1>2, <1>3, <1>10, <1>21, <4>1, <4>2
      <4> QED
        BY <1>6, <1>10, <1>13, <3>3, <4>1, <4>3
    <3> QED
      BY <3>1, <3>2, <3>3
  <2>3. \A q \in Leaves' : page'[q].header.type = "LeafNode"
    <3> SUFFICES ASSUME NEW q \in Leaves' PROVE page'[q].header.type = "LeafNode"
      OBVIOUS
    <3>1. CASE q = right \/ q = p
      BY <1>16, <1>17, <3>1
    <3>2. CASE q # right /\ q # p
      <4>1. q \in Leaves /\ q \in Pages
        BY <1>3, <1>14, <3>2
      <4>2. page[q].header.type = "LeafNode"
        BY <4>1 DEF ChainInv, TreeOK
      <4> QED
        BY <1>15, <3>2, <4>1, <4>2
    <3> QED
      BY <3>1, <3>2
  <2> QED
    BY <1>11, <2>1, <2>2, <2>3 DEF TreeOK
<1>25. i # n => i + 1 \in 1 .. n /\ next = tree[i + 1].leaf /\ next \in Pages /\ next # p /\ next # right
  <2>1. i # n => i + 1 \in 1 .. n /\ i + 1 # i
    BY <1>2
  <2> QED
    BY <1>2, <1>3, <1>4, <1>5, <1>6, <2>1
<1>26. SparesBlank'
  <2> SUFFICES ASSUME NEW q \in Pages, q \notin Leaves'
               PROVE  /\ page'[q].records = <<>> /\ page'[q].heap = 0
                      /\ page'[q].header.shared = INVALID_PAGE_INDEX
                      /\ page'[q].header.next = INVALID_PAGE_INDEX
    BY DEF SparesBlank
  <2>1. q \notin Leaves /\ q # right /\ q # p
    BY <1>6, <1>14
  <2>2. q # next
    BY <1>3, <1>5, <1>25, <2>1, PageAssumption
  <2> QED
    BY <1>15, <2>1, <2>2 DEF ChainInv, SparesBlank
<1>27. ChainOK'
  <2> SUFFICES ASSUME NEW k \in 1 .. (n + 1)
               PROVE  page'[tree'[k].leaf].header.next
                          = IF k = n + 1 THEN INVALID_PAGE_INDEX ELSE tree'[k + 1].leaf
    BY <1>11 DEF ChainOK, NextLeaf
  <2>1. \A m \in 1 .. n : page[tree[m].leaf].header.next
                             = IF m = n THEN INVALID_PAGE_INDEX ELSE tree[m + 1].leaf
    BY <1>1, <1>3 DEF ChainInv, ChainOK, NextLeaf
  <2>2. CASE k < i
    <3>1. /\ k \in 1 .. n /\ k # i /\ k # n /\ k # n + 1 /\ k + 1 \in 1 .. (n + 1)
          /\ k <= i /\ k + 1 <= i
      BY <1>2, <2>2
    <3>2. tree'[k] = tree[k] /\ tree'[k + 1] = tree[k + 1]
      BY <1>11, <3>1
    <3>3. page'[tree[k].leaf].header.next = page[tree[k].leaf].header.next
      BY <1>2, <1>3, <1>4, <1>5, <1>6, <1>15, <3>1
    <3> QED
      BY <2>1, <3>1, <3>2, <3>3
  <2>3. CASE k = i
    <3>1. k <= i /\ k # n + 1
      BY <1>2, <2>3
    <3>2. tree'[k] = tree[i] /\ tree'[k + 1] = e
      BY <1>11, <1>13, <2>3, <3>1
    <3> QED
      BY <1>5, <1>10, <1>16, <3>1, <3>2
  <2>4. CASE k = i + 1
    <3>1. page'[tree'[k].leaf].header.next = next
      BY <1>10, <1>13, <1>17, <2>4
    <3>2. CASE i = n
      BY <1>5, <2>4, <3>1, <3>2
    <3>3. CASE i # n
      <4>1. k # n + 1 /\ k + 1 \in 1 .. (n + 1) /\ ~(k + 1 <= i) /\ k + 1 # i + 1 /\ (k + 1) - 1 = i + 1
        BY <1>2, <2>4, <3>3
      <4>2. tree'[k + 1] = tree[i + 1]
        BY <1>11, <4>1
      <4> QED
        BY <1>25, <3>1, <3>3, <4>1, <4>2
    <3> QED
      BY <3>2, <3>3
  <2>5. CASE k > i + 1
    <3>1. /\ k - 1 \in 1 .. n /\ k - 1 # i /\ ~(k <= i) /\ k # i + 1 /\ (k = n + 1 <=> k - 1 = n)
          /\ (k - 1) + 1 = k
      BY <1>2, <2>5
    <3>2. tree'[k] = tree[k - 1]
      BY <1>11, <3>1
    <3>3. page'[tree[k - 1].leaf].header.next = page[tree[k - 1].leaf].header.next
      BY <1>2, <1>3, <1>4, <1>5, <1>6, <1>15, <3>1, SMTT(20)
    <3>4. k # n + 1 => tree'[k + 1] = tree[k]
      <4>1. k # n + 1 => k + 1 \in 1 .. (n + 1) /\ ~(k + 1 <= i) /\ k + 1 # i + 1 /\ (k + 1) - 1 = k
        BY <1>2, <2>5
      <4> QED
        BY <1>11, <4>1
    <3> QED
      BY <2>1, <3>1, <3>2, <3>3, <3>4
  <2> QED
    BY <1>2, <2>2, <2>3, <2>4, <2>5
<1>28. BackOK'
  <2> SUFFICES ASSUME NEW k \in 1 .. (n + 1)
               PROVE  page'[tree'[k].leaf].header.shared
                        \in {INVALID_PAGE_INDEX, IF k = 1 THEN INVALID_PAGE_INDEX ELSE tree'[k - 1].leaf}
    BY <1>11 DEF BackOK, PrevLeaf
  <2>1. \A m \in 1 .. n : page[tree[m].leaf].header.shared
                \in {INVALID_PAGE_INDEX, IF m = 1 THEN INVALID_PAGE_INDEX ELSE tree[m - 1].leaf}
    BY <1>1, <1>3 DEF ChainInv, BackOK, PrevLeaf
  <2>2. CASE k < i
    <3>1. /\ k \in 1 .. n /\ k # i /\ k <= i /\ k # i + 1
          /\ k # 1 => k - 1 \in 1 .. (n + 1) /\ k - 1 <= i
      BY <1>2, <2>2
    <3>2. tree'[k] = tree[k] /\ (k # 1 => tree'[k - 1] = tree[k - 1])
      BY <1>11, <3>1
    <3>3. tree[k].leaf # right /\ tree[k].leaf # p /\ tree[k].leaf # next /\ tree[k].leaf \in Pages
      BY <1>2, <1>3, <1>4, <1>5, <1>6, <1>25, <3>1, PageAssumption
    <3>4. page'[tree[k].leaf].header.shared = page[tree[k].leaf].header.shared
      BY <1>15, <3>3
    <3> QED
      BY <2>1, <3>1, <3>2, <3>4
  <2>3. CASE k = i
    <3>1. k <= i
      BY <1>2, <2>3
    <3>2. tree'[k].leaf = p
      BY <1>5, <1>11, <2>3, <3>1
    <3> QED
      BY <1>16, <3>2
  <2>4. CASE k = i + 1
    <3>1. k # 1 /\ k - 1 = i /\ i \in 1 .. (n + 1) /\ i <= i
      BY <1>2, <2>4
    <3>2. tree'[k].leaf = right /\ tree'[k - 1].leaf = p
      BY <1>5, <1>10, <1>11, <1>13, <2>4, <3>1
    <3> QED
      BY <1>17, <3>1, <3>2
  <2>5. CASE k = i + 2
    <3>1. /\ i # n /\ ~(k <= i) /\ k # i + 1 /\ k - 1 = i + 1 /\ k # 1
      BY <1>2, <2>5
    <3>2. tree'[k].leaf = next /\ tree'[k - 1].leaf = right
      BY <1>10, <1>11, <1>13, <1>25, <3>1
    <3>3. page'[next].header.shared = right
      BY <1>15, <1>25, <3>1
    <3> QED
      BY <3>1, <3>2, <3>3
  <2>6. CASE k > i + 2
    <3>1. /\ k - 1 \in 1 .. n /\ ~(k <= i) /\ k # i + 1 /\ k - 1 \in 1 .. (n + 1) /\ ~(k - 1 <= i)
          /\ k - 1 # i + 1 /\ k - 1 # i /\ k # 1 /\ k - 1 # 1
      BY <1>2, <2>6
    <3>2. tree'[k] = tree[k - 1] /\ tree'[k - 1] = tree[(k - 1) - 1]
      BY <1>11, <3>1
    <3>3. /\ tree[k - 1].leaf # p /\ tree[k - 1].leaf # right /\ tree[k - 1].leaf # next
          /\ tree[k - 1].leaf \in Pages
      BY <1>2, <1>3, <1>4, <1>5, <1>6, <1>25, <3>1, PageAssumption
    <3>4. page'[tree[k - 1].leaf].header.shared = page[tree[k - 1].leaf].header.shared
      BY <1>15, <3>3
    <3>5. page[tree[k - 1].leaf].header.shared \in {INVALID_PAGE_INDEX, tree[(k - 1) - 1].leaf}
      BY <2>1, <3>1
    <3> QED
      BY <3>1, <3>2, <3>4, <3>5
  <2> QED
    BY <1>2, <2>2, <2>3, <2>4, <2>5, <2>6
<1>29. ASSUME NEW m \in 1 .. Len(lower) PROVE Placed(i, lower[m].key)'
  <2>1. lower[m] \in Record
    BY <1>8
  <2>2. PICK key : key = lower[m].key
    OBVIOUS
  <2>3. key \in Nat /\ Placed(i, key) /\ key < sep
    BY <1>8, <1>9, <2>1, <2>2, RecordFields DEF Before
  <2>4. i \in 1 .. (n + 1) /\ i # i + 1 /\ from[i] = i
    BY <1>2, <1>12
  <2>5. Placed(i, key)'
    BY <1>22, <2>3, <2>4
  <2> QED
    BY <2>2, <2>5
<1>30. ASSUME NEW m \in 1 .. Len(upper) PROVE Placed(i + 1, upper[m].key)'
  <2>1. upper[m] \in Record
    BY <1>8
  <2>2. PICK key : key = upper[m].key
    OBVIOUS
  <2>3. key \in Nat /\ Placed(i, key)
    BY <1>8, <2>1, <2>2, RecordFields
  <2>4. sep <= key
    <3>1. m # 1 => sep < key
      <4>1. DOMAIN upper = 1 .. Len(upper) /\ (m # 1 => 1 < m)
        BY <1>8
      <4> QED
        BY <1>8, <1>9, <2>2, <4>1 DEF Sorted
    <3> QED
      BY <1>9, <1>10, <2>2, <2>3, <3>1
  <2>5. Placed(i + 1, key)'
    BY <1>23, <2>3, <2>4
  <2> QED
    BY <2>2, <2>5
<1>31. KeysPlaced'
  <2> SUFFICES ASSUME NEW k \in 1 .. (n + 1), NEW m \in DOMAIN page'[tree'[k].leaf].records
               PROVE  Placed(k, page[tree[k].leaf].records[m].key)'
    BY <1>11 DEF KeysPlaced
  <2>1. CASE k = i
    <3>1. k <= i /\ DOMAIN lower = 1 .. Len(lower)
      BY <1>2, <1>8, <2>1
    <3>2. tree'[k].leaf = p
      BY <1>5, <1>11, <2>1, <3>1
    <3> QED
      BY <1>16, <1>29, <2>1, <3>1, <3>2
  <2>2. CASE k = i + 1
    <3>1. DOMAIN upper = 1 .. Len(upper) /\ tree'[k].leaf = right
      BY <1>8, <1>10, <1>13, <2>2
    <3> QED
      BY <1>17, <1>30, <2>2, <3>1
  <2>3. CASE k # i /\ k # i + 1
    <3>1. PICK q, j : q = tree[from[k]].leaf /\ j = from[k]
      OBVIOUS
    <3>2. j \in 1 .. n /\ tree'[k].leaf = q /\ q \in Pages
      BY <1>3, <1>13, <2>3, <3>1
    <3>3. j # i
      BY <1>2, <1>12, <2>3, <3>1
    <3>4. q # p /\ q # right
      BY <1>2, <1>4, <1>5, <1>6, <3>1, <3>2, <3>3
    <3>5. page'[q].records = page[q].records
      BY <1>15, <3>2, <3>4
    <3>6. PICK key : key = page[q].records[m].key
      OBVIOUS
    <3>7. m \in DOMAIN page[q].records /\ key = page'[tree'[k].leaf].records[m].key
      BY <3>2, <3>5, <3>6
    <3>8. Placed(j, key)
      <4>1. \A a \in 1 .. n : \A b \in DOMAIN page[tree[a].leaf].records :
                Placed(a, page[tree[a].leaf].records[b].key)
        BY <1>3 DEF ChainInv, KeysPlaced
      <4>2. tree[j].leaf = q
        BY <3>1
      <4> QED
        BY <3>2, <3>6, <3>7, <4>1, <4>2
    <3>9. key \in Nat
      <4>1. page[q] \in PageBytes
        BY <3>2 DEF ChainInv, PagesOK
      <4>2. page[q].records[m] \in Record
        BY <3>7, <4>1, PageFields
      <4> QED
        BY <3>6, <4>2, RecordFields
    <3>10. Placed(k, key)'
      BY <1>22, <2>3, <3>1, <3>8, <3>9
    <3> QED
      BY <3>7, <3>10
  <2> QED
    BY <2>1, <2>2, <2>3
<1> QED
  BY <1>14, <1>18, <1>19, <1>20, <1>24, <1>26, <1>27, <1>28, <1>31 DEF ChainInv

(* The same, for the action. *)
LEMMA split_and_insertKeeps ==
    ASSUME ChainInv, Intact, NEW r \in Record, NEW right \in Pages, split_and_insert(r, right)
    PROVE  ChainInv'
  BY SplitEffect, BrokenKeeps, DividedKeeps, RefuseKeeps

-----------------------------------------------------------------------------
(* The invariant of the chain *)

(* Every step keeps the invariant. *)
LEMMA NextKeeps ==
    ASSUME ChainInv, [Next]_vars
    PROVE  ChainInv'
<1>1. CASE UNCHANGED vars
  <2>1. page' = page /\ tree' = tree /\ parent' = parent /\ result' = result
    BY <1>1 DEF vars
  <2>2. UNCHANGED <<PagesOK, ParentsOK, Intact>>
    BY <2>1 DEF PagesOK, ParentsOK, Intact
  <2>3. UNCHANGED <<TreeOK, SparesBlank>>
    BY <2>1 DEF TreeOK, SparesBlank, Leaves
  <2>4. UNCHANGED <<ChainOK, BackOK, KeysPlaced>>
    BY <2>1 DEF ChainOK, NextLeaf, BackOK, PrevLeaf, KeysPlaced, Placed
  <2> QED
    BY <2>1, <2>2, <2>3, <2>4 DEF ChainInv
<1>2. CASE Next
  <2>1. Intact
    BY <1>2 DEF Next
  <2>2. CASE \E p \in Pages : Prepare(p)
    BY <2>1, <2>2, PrepareKeeps
  <2>3. CASE \E r \in Record : insert_record(r)
    BY <2>1, <2>3, insert_recordKeeps
  <2>4. CASE \E r \in Record : insert_raw_record(r)
    BY <2>1, <2>4, insert_raw_recordKeeps
  <2>5. CASE \E r \in Record : append_last(r)
    BY <2>1, <2>5, append_lastKeeps
  <2>6. CASE \E r \in Record : update_record(r)
    BY <2>1, <2>6, update_recordKeeps
  <2>7. CASE \E r \in Record : \E right \in Pages : split_and_insert(r, right)
    BY <2>1, <2>7, split_and_insertKeeps
  <2>8. CASE \E key \in Keys : delete_record(key)
    BY <2>1, <2>8, delete_recordKeeps
  <2>9. CASE \E p \in Pages : compact(p)
    BY <2>1, <2>9, compactKeeps
  <2>10. CASE \E p \in Pages : merge(p)
    BY <2>1, <2>10, mergeKeeps
  <2> QED
    BY <1>2, <2>2, <2>3, <2>4, <2>5, <2>6, <2>7, <2>8, <2>9, <2>10 DEF Next
<1> QED
  BY <1>1, <1>2

(* Every page stays within its room and sorted, and, until a split fails, *)
(* the pointers of the leaves are the order of the tree above them and     *)
(* every key is between the separators of its leaf.                        *)
THEOREM ChainInvariant == Spec => []ChainInv
<1>1. Init => ChainInv
  BY InitKeeps
<1>2. ChainInv /\ [Next]_vars => ChainInv'
  BY NextKeeps
<1> QED
  BY <1>1, <1>2, PTL DEF Spec

(* The heap of a page never reaches into its slots. *)
THEOREM ChainTypeCorrect == Spec => []TypeOK
<1>1. ChainInv => TypeOK
  <2> SUFFICES ASSUME ChainInv PROVE TypeOK
    OBVIOUS
  <2>1. ASSUME NEW p \in Pages
        PROVE  page[p].records \in Seq(Record) /\ page[p].heap \in 0 .. CAPACITY /\ page[p].header \in Header
    <3>1. PICK pg : pg = page[p]
      OBVIOUS
    <3>2. pg \in PageBytes /\ Room(pg)
      BY <3>1 DEF ChainInv, PagesOK
    <3>3. pg.records \in Seq(Record) /\ pg.heap \in Nat /\ pg.header \in Header /\ Len(pg.records) \in Nat
      BY <3>2, PageFields
    <3>4. SlotBytes(Len(pg.records)) \in Nat /\ pg.heap + SlotBytes(Len(pg.records)) <= CAPACITY
      BY <3>2, <3>3, SlotsOne, RoomNumbers
    <3>5. pg.heap \in 0 .. CAPACITY
      BY <3>3, <3>4, SizeAssumption
    <3> QED
      BY <3>1, <3>3, <3>5
  <2>2. tree \in Seq([separator : Keys \cup {0}, leaf : Pages])
    BY DEF ChainInv, TreeOK, Entry
  <2> QED
    BY <2>1, <2>2 DEF TypeOK, ChainInv
<1> QED
  BY <1>1, ChainInvariant, PTL

(* The high half of the parent index is overwritten by the previous        *)
(* sibling; the low half, which is read back in a split, is kept.          *)
THEOREM ParentsSurvive == Spec => []ParentSurvives
<1>1. ChainInv => ParentSurvives
  BY TreeFields DEF ChainInv, ParentSurvives, ParentsOK, TreeOK
<1> QED
  BY <1>1, ChainInvariant, PTL

(* The space check of merge() is enough for every record of the sibling. *)
THEOREM MergesWhole == Spec => []MergeWhole
<1>1. ChainInv => MergeWhole
  BY DEF ChainInv, MergeWhole
<1> QED
  BY <1>1, ChainInvariant, PTL

(* A previous pointer leads to the leaf that points here, or nowhere. *)
THEOREM BackPointersFresh == Spec => []BackPointers
<1>1. ChainInv => BackPointers
  <2> SUFFICES ASSUME ChainInv, Intact, NEW p \in Leaves, page[p].header.shared # INVALID_PAGE_INDEX
               PROVE  /\ page[p].header.shared \in Leaves
                      /\ page[page[p].header.shared].header.next = p
    BY DEF BackPointers, get_prev_leaf_index, get_next_leaf_index
  <2>1. /\ Len(tree) \in Nat /\ DOMAIN tree = 1 .. Len(tree)
        /\ \A i \in 1 .. Len(tree) : tree[i].leaf \in Leaves
    BY TreeFields DEF ChainInv
  <2>2. PICK i \in 1 .. Len(tree) : tree[i].leaf = p
    BY TreeFields DEF ChainInv
  <2>3. page[p].header.shared \in {INVALID_PAGE_INDEX, PrevLeaf(i)}
    BY <2>1, <2>2 DEF ChainInv, BackOK
  <2>4. i # 1 /\ page[p].header.shared = tree[i - 1].leaf
    BY <2>3 DEF PrevLeaf
  <2>5. i - 1 \in 1 .. Len(tree) /\ i - 1 # Len(tree) /\ (i - 1) + 1 = i
    BY <2>1, <2>2, <2>4
  <2>6. page[tree[i - 1].leaf].header.next = NextLeaf(i - 1)
    BY <2>1, <2>5 DEF ChainInv, ChainOK
  <2>7. NextLeaf(i - 1) = p
    BY <2>2, <2>5 DEF NextLeaf
  <2> QED
    BY <2>1, <2>4, <2>5, <2>6, <2>7
<1> QED
  BY <1>1, ChainInvariant, PTL

(* A scan along the next pointers meets every leaf, and ascending keys. *)
THEOREM ScansInOrder == Spec => []ScanInOrder
<1>1. ChainInv => ScanInOrder
  <2> SUFFICES ASSUME ChainInv, Intact PROVE ScanInOrder
    BY DEF ScanInOrder
  <2>1. PICK n : n = Len(tree)
    OBVIOUS
  <2>2. /\ n \in Nat /\ n >= 1 /\ DOMAIN tree = 1 .. n /\ tree[1].leaf = Root
        /\ \A i \in 1 .. n : tree[i].leaf \in Pages /\ tree[i].separator \in Nat
        /\ \A p : p \in Leaves <=> \E i \in 1 .. n : tree[i].leaf = p
    BY <2>1, TreeFields DEF ChainInv
  <2> DEFINE scan == [i \in DOMAIN tree |-> tree[i].leaf]
             keys(i) == {page[scan[i]].records[j].key : j \in DOMAIN page[scan[i]].records}
  <2>3. scan[1] = Root /\ DOMAIN scan = 1 .. n /\ Len(scan) = n /\ \A i \in 1 .. n : scan[i] = tree[i].leaf
    BY <2>2
  <2>4. \A i \in 1 .. n : \A key \in keys(i) : key \in Nat /\ Placed(i, key)
    <3> SUFFICES ASSUME NEW i \in 1 .. n, NEW j \in DOMAIN page[tree[i].leaf].records
                 PROVE  /\ page[tree[i].leaf].records[j].key \in Nat
                        /\ Placed(i, page[tree[i].leaf].records[j].key)
      BY <2>3
    <3>1. page[tree[i].leaf] \in PageBytes
      BY <2>2 DEF ChainInv, PagesOK
    <3>2. page[tree[i].leaf].records[j] \in Record
      BY <3>1, PageFields
    <3> QED
      BY <2>2, <3>2, RecordFields DEF ChainInv, KeysPlaced
  <2>5. \A i \in 1 .. n : page[scan[i]].header.next = IF i = n THEN INVALID_PAGE_INDEX ELSE scan[i + 1]
    <3>1. \A i \in 1 .. n : page[tree[i].leaf].header.next
                               = IF i = n THEN INVALID_PAGE_INDEX ELSE tree[i + 1].leaf
      BY <2>1, <2>2 DEF ChainInv, ChainOK, NextLeaf
    <3>2. \A i \in 1 .. n : i # n => i + 1 \in 1 .. n
      BY <2>2
    <3> QED
      BY <2>3, <3>1, <3>2
  <2> HIDE DEF scan, keys
  <2>6. ASSUME NEW p \in Leaves, NEW i \in 2 .. Len(page[p].records)
        PROVE  page[p].records[i - 1].key < page[p].records[i].key
    <3>1. page[p] \in PageBytes /\ Sorted(page[p].records)
      BY <2>2 DEF ChainInv, PagesOK
    <3>2. Len(page[p].records) \in Nat /\ DOMAIN page[p].records = 1 .. Len(page[p].records)
      BY <3>1, PageFields
    <3>3. i - 1 \in 1 .. Len(page[p].records) /\ i \in 1 .. Len(page[p].records) /\ i - 1 < i
      BY <3>2
    <3> QED
      BY <3>1, <3>2, <3>3 DEF Sorted
  <2>7. ASSUME NEW i \in 1 .. n, NEW j \in 1 .. n, i < j, NEW k \in keys(i), NEW m \in keys(j)
        PROVE  k < m
    <3>1. k < tree[j].separator /\ tree[j].separator <= m
      BY <2>2, <2>4, <2>7 DEF Placed
    <3> QED
      BY <2>2, <2>4, <3>1
  <2>8. /\ scan[1] = Root
        /\ \A i \in DOMAIN scan :
             get_next_leaf_index(scan[i]) = IF i = Len(scan) THEN INVALID_PAGE_INDEX ELSE scan[i + 1]
        /\ \A p \in Leaves : \A i \in 2 .. get_item_count(page[p]) :
             page[p].records[i - 1].key < page[p].records[i].key
        /\ \A i, j \in DOMAIN scan : i < j => \A k \in keys(i), m \in keys(j) : k < m
    BY <2>3, <2>5, <2>6, <2>7 DEF get_next_leaf_index, get_item_count
  <2> QED
    BY <2>8 DEF ScanInOrder, scan, keys
<1> QED
  BY <1>1, ChainInvariant, PTL

(* The key is on the leaf it is routed to, or nowhere. *)
LEMMA SearchFindsKeys == ChainInv => SearchFinds
<1> SUFFICES ASSUME ChainInv, Intact, NEW key \in Keys, NEW pg, pg = page[Route(key)],
                    NEW slot, slot = search_page(pg, key)
             PROVE  /\ slot.found <=> \E p \in Leaves : \E i \in DOMAIN page[p].records :
                                         page[p].records[i].key = key
                    /\ slot.slot = Cardinality({i \in DOMAIN pg.records : pg.records[i].key < key})
  BY DEF SearchFinds
<1>1. key \in Nat
  BY KeyAssumption
<1>2. PICK i \in 1 .. Len(tree) :
          /\ Route(key) = tree[i].leaf /\ tree[i].leaf \in Pages /\ Placed(i, key)
          /\ pg \in PageBytes /\ Sorted(pg.records)
  BY Routed
<1>3. PICK c \in 0 .. Len(pg.records) :
          /\ slot.slot = c
          /\ slot.found <=> c < Len(pg.records) /\ pg.records[c + 1].key = key
          /\ \A k \in 1 .. c : pg.records[k].key < key
          /\ \A k \in (c + 1) .. Len(pg.records) : key <= pg.records[k].key
  <2>1. \E c \in 0 .. Len(pg.records) : Searched(slot, c, pg.records, key)
    BY <1>1, <1>2, SearchPage
  <2> QED
    BY <2>1 DEF Searched
<1>4. PICK s, n : s = pg.records /\ n = Len(s)
  OBVIOUS
<1>5. /\ n \in Nat /\ DOMAIN s = 1 .. n /\ c \in 0 .. n
      /\ \A k \in 1 .. n : s[k] \in Record
  BY <1>2, <1>3, <1>4, PageFields
<1>6. \A k \in 1 .. n : s[k].key \in Nat
  BY <1>5, RecordFields
<1>7. \A k \in 1 .. n : s[k].key < key <=> k \in 1 .. c
  <2>1. \A k \in 1 .. n : k \in 1 .. c \/ k \in (c + 1) .. n
    BY <1>5
  <2> QED
    BY <1>1, <1>3, <1>4, <1>6, <2>1
<1>8. slot.slot = Cardinality({k \in DOMAIN pg.records : pg.records[k].key < key})
  <2>1. {k \in DOMAIN pg.records : pg.records[k].key < key} = 1 .. c
    <3>1. \A k \in 1 .. c : k \in 1 .. n
      BY <1>5
    <3> QED
      BY <1>4, <1>5, <1>7, <3>1
  <2>2. c \in Int /\ 1 \in Int /\ c = IF 1 > c THEN 0 ELSE c - 1 + 1
    BY <1>5
  <2>3. Cardinality(1 .. c) = c
    BY <2>2, FS_Interval
  <2> QED
    BY <1>3, <2>1, <2>3
<1>9. ASSUME slot.found
      PROVE  \E p \in Leaves : \E m \in DOMAIN page[p].records : page[p].records[m].key = key
  <2>1. c + 1 \in DOMAIN pg.records /\ pg.records[c + 1].key = key
    BY <1>3, <1>4, <1>5, <1>9
  <2>2. tree[i].leaf \in Leaves /\ page[tree[i].leaf] = pg
    BY <1>2, TreeFields DEF ChainInv
  <2> QED
    BY <2>1, <2>2
<1>10. ASSUME NEW p \in Leaves, NEW m \in DOMAIN page[p].records, page[p].records[m].key = key
       PROVE  slot.found
  <2>1. PICK j \in 1 .. Len(tree) : tree[j].leaf = p
    BY TreeFields DEF ChainInv
  <2>2. Placed(j, key)
    BY <1>10, <2>1, TreeFields DEF ChainInv, KeysPlaced
  <2>3. /\ Len(tree) \in Nat /\ DOMAIN tree = 1 .. Len(tree)
        /\ tree[i].separator \in Nat /\ tree[j].separator \in Nat
    BY <2>1, TreeFields DEF ChainInv
  <2>4. tree[i].separator <= key /\ (i < j => key < tree[j].separator)
    BY <1>2, <2>3 DEF Placed
  <2>5. tree[j].separator <= key /\ (j < i => key < tree[i].separator)
    BY <2>2, <2>3 DEF Placed
  <2>6. i = j
    <3>1. ~(i < j) /\ ~(j < i)
      BY <1>1, <2>3, <2>4, <2>5
    <3> QED
      BY <1>2, <2>1, <2>3, <3>1
  <2>7. m \in 1 .. n /\ s[m].key = key
    BY <1>2, <1>4, <1>5, <1>10, <2>1, <2>6
  <2>8. m \notin 1 .. c
    BY <1>1, <1>7, <2>7
  <2>9. c < n /\ c + 1 \in 1 .. n /\ c + 1 \in (c + 1) .. n /\ (m = c + 1 \/ c + 1 < m)
    BY <1>5, <2>7, <2>8
  <2>10. key <= s[c + 1].key
    BY <1>3, <1>4, <2>9
  <2>11. c + 1 < m => s[c + 1].key < key
    BY <1>2, <1>4, <1>5, <2>7, <2>9 DEF Sorted
  <2>12. m = c + 1
    BY <1>1, <1>6, <2>9, <2>10, <2>11
  <2> QED
    BY <1>3, <1>4, <2>7, <2>9, <2>12
<1> QED
  BY <1>8, <1>9, <1>10

(* The tree leads to the leaf with a key, and the search to its slot. *)
THEOREM SearchesFind == Spec => []SearchFinds
  BY SearchFindsKeys, ChainInvariant, PTL

-----------------------------------------------------------------------------
(* Splits of records of one size *)

(* Multiplication and order. *)
LEMMA TimesOrder ==
    ASSUME NEW a \in Nat, NEW b \in Nat, NEW c \in Nat
    PROVE  /\ a * c \in Nat
           /\ a <= b => a * c <= b * c
           /\ c > 0 /\ a * c <= b * c => a <= b
<1>1. ASSUME NEW x \in Nat, NEW y \in Nat, x <= y PROVE x * c <= y * c
  <2>1. PICK d \in Nat : y = x + d
    BY <1>1
  <2>2. (x + d) * c = x * c + d * c /\ x * c \in Nat /\ d * c \in Nat
    OBVIOUS
  <2> QED
    BY <2>1, <2>2
<1>2. ASSUME c > 0, a * c <= b * c, b < a PROVE FALSE
  <2>1. (b + 1) * c <= a * c
    BY <1>1, <1>2
  <2>2. (b + 1) * c = b * c + c /\ b * c \in Nat /\ a * c \in Nat
    OBVIOUS
  <2> QED
    BY <1>2, <2>1, <2>2
<1> QED
  BY <1>1, <1>2

(* The bytes of records of one size, with their slots. *)
Uniform(count, z) == count * (z + SLOT_SIZE)

(* Records of one size with their slots take a multiple of it. *)
LEMMA UniformBytes ==
    ASSUME NEW s \in Seq(Record), NEW z \in Nat, \A k \in 1 .. Len(s) : s[k].size = z
    PROVE  /\ RecordBytes(s) = Len(s) * z
           /\ RecordBytes(s) + SlotBytes(Len(s)) = Uniform(Len(s), z)
<1>1. PICK m : m = Len(s)
  OBVIOUS
<1>2. RecordBytes(s) = m * z /\ m \in Nat
  BY <1>1, SizesUniform
<1>3. m * z + m * SLOT_SIZE = m * (z + SLOT_SIZE)
  BY <1>2, SizeAssumption
<1> QED
  BY <1>1, <1>2, <1>3 DEF Uniform, SlotBytes

(* More of them take more. *)
LEMMA UniformOrder ==
    ASSUME NEW a \in Nat, NEW b \in Nat, a <= b, NEW z \in Nat, Uniform(b, z) <= CAPACITY
    PROVE  Uniform(a, z) <= CAPACITY
<1>1. z + SLOT_SIZE \in Nat /\ CAPACITY \in Nat
  BY SizeAssumption
<1>2. PICK w \in Nat : w = z + SLOT_SIZE
  BY <1>1
<1>3. a * w <= b * w /\ a * w \in Nat /\ b * w \in Nat
  BY <1>2, TimesOrder
<1>4. Uniform(a, z) = a * w /\ Uniform(b, z) = b * w
  BY <1>2 DEF Uniform
<1> QED
  BY <1>1, <1>3, <1>4

(* The halves of n + 1 records, split after the i-th, where n of them fit  *)
(* on a page and so do two.                                                *)
LEMMA UniformCounts ==
    ASSUME NEW n \in Nat, NEW i \in 0 .. n, NEW z \in Nat, z > 0, NEW total,
           total = n * z \/ total = (n + 1) * z,
           (i + 1) * z > total \div 2, i # 0 => ~(i * z > total \div 2),
           Uniform(n, z) <= CAPACITY, Uniform(2, z) <= CAPACITY
    PROVE  Uniform(i, z) <= CAPACITY /\ Uniform((n + 1) - i, z) <= CAPACITY
<1>1. /\ n * z \in Nat /\ (n + 1) * z = n * z + z /\ i * z \in Nat /\ (i + 1) * z = i * z + z
      /\ (2 * i) * z = 2 * (i * z) /\ (2 * (i + 1)) * z = 2 * ((i + 1) * z)
  OBVIOUS
<1>2. total \in Nat /\ total <= (n + 1) * z /\ n * z <= total
  BY <1>1
<1>3. i # 0 => (2 * i) * z <= (n + 1) * z
  BY <1>1, <1>2
<1>4. i # 0 => 2 * i <= n + 1
  BY <1>3, TimesOrder
<1>5. n * z < (2 * (i + 1)) * z
  BY <1>1, <1>2
<1>6. ~(2 * (i + 1) <= n)
  <2>1. 2 * (i + 1) <= n => (2 * (i + 1)) * z <= n * z
    BY TimesOrder
  <2>2. (2 * (i + 1)) * z \in Nat /\ n * z \in Nat
    BY <1>1
  <2> QED
    BY <1>5, <2>1, <2>2
<1>7. i <= n /\ i \in Nat /\ (n + 1) - i \in Nat /\ ((n + 1) - i <= n \/ (n + 1) - i <= 2)
  BY <1>4, <1>6
<1> QED
  BY <1>7, UniformOrder

(* Both halves of a split of such records fit. *)
LEMMA UniformHalves ==
    ASSUME NEW left \in PageBytes, Room(left), Sorted(left.records),
           NEW r \in Record, NEW c \in 0 .. Len(left.records), Between(c, left.records, r.key),
           \A k \in 1 .. Len(left.records) : left.records[k].size = r.size,
           2 * (r.size + SLOT_SIZE) <= CAPACITY,
           NEW right, right = initialize("LeafNode", None)
    PROVE  Halves(left, right, r).ok
<1>1. PICK old, n, z : old = left.records /\ n = Len(old) /\ z = r.size
  OBVIOUS
<1>2. old \in Seq(Record) /\ Sorted(old) /\ c \in 0 .. Len(old) /\ n \in Nat /\ z \in Nat /\ z > 0
  BY <1>1, PageFields, RecordFields
<1>3. /\ \A k \in 1 .. c : old[k].key < r.key
      /\ \A k \in (c + 1) .. Len(old) : r.key < old[k].key
      /\ \A k \in 1 .. Len(old) : old[k].size = z
  BY <1>1 DEF Between
<1>4. PICK sorted, total : sorted = InsertAt(old, c + 1, r) /\ total = TotalSize(old, r)
  OBVIOUS
<1>5. SortedRecords(old, r) = sorted /\ (total = RecordBytes(old) \/ total = RecordBytes(old) + z)
  BY <1>1, <1>2, <1>3, <1>4, SortedRecordsForm
<1>6. sorted \in Seq(Record) /\ Len(sorted) = n + 1
  BY <1>1, <1>2, <1>4, InsertAtType
<1>7. \A k \in 1 .. (n + 1) : sorted[k].size = z
  <2>1. sorted = [k \in 1 .. (n + 1) |-> IF k <= c THEN old[k] ELSE IF k = c + 1 THEN r ELSE old[k - 1]]
    BY <1>1, <1>2, <1>4, InsertAtFunction
  <2> SUFFICES ASSUME NEW k \in 1 .. (n + 1) PROVE sorted[k].size = z
    OBVIOUS
  <2>2. CASE k <= c
    BY <1>1, <1>2, <1>3, <2>1, <2>2
  <2>3. CASE k = c + 1
    BY <1>1, <1>2, <2>1, <2>3
  <2>4. CASE k > c + 1
    <3>1. k - 1 \in 1 .. Len(old) /\ ~(k <= c) /\ k # c + 1
      BY <1>1, <1>2, <2>4
    <3> QED
      BY <1>3, <2>1, <3>1
  <2> QED
    BY <1>2, <2>2, <2>3, <2>4
<1>8. /\ RecordBytes(old) = n * z /\ RecordBytes(sorted) = (n + 1) * z
      /\ RecordBytes(old) + SlotBytes(n) = Uniform(n, z)
  BY <1>1, <1>2, <1>3, <1>6, <1>7, UniformBytes
<1>9. n * z \in Nat /\ (n + 1) * z = n * z + z
  BY <1>2
<1>10. total \in Nat /\ total < 2 * RecordBytes(sorted) /\ (total = n * z \/ total = (n + 1) * z)
  <2>1. total = n * z \/ total = n * z + z
    BY <1>5, <1>8
  <2>2. total \in Nat /\ total < 2 * (n * z + z)
    BY <1>2, <1>9, <2>1
  <2> QED
    BY <1>8, <1>9, <2>1, <2>2
<1>11. PICK i : i = find_split_index_by_size(sorted, total)
  OBVIOUS
<1>12. /\ i \in 0 .. (Len(sorted) - 1)
       /\ RecordBytes(SubSeq(sorted, 1, i + 1)) > total \div 2
       /\ i # 0 => ~(RecordBytes(SubSeq(sorted, 1, i)) > total \div 2)
  BY <1>6, <1>10, <1>11, SplitIndex
<1>13. i \in 0 .. n /\ i \in 0 .. Len(sorted) /\ i + 1 \in 0 .. Len(sorted)
  BY <1>2, <1>6, <1>12
<1>14. ASSUME NEW k \in 0 .. (n + 1), NEW t, t = SubSeq(sorted, 1, k)
       PROVE  /\ t \in Seq(Record) /\ Len(t) = k
              /\ RecordBytes(t) = k * z /\ RecordBytes(t) + SlotBytes(k) = Uniform(k, z)
  <2>1. t \in Seq(Record) /\ Len(t) = k /\ \A m \in 1 .. k : t[m] = sorted[m]
    BY <1>6, <1>14, SubSeqProperties
  <2>2. \A m \in 1 .. k : m \in 1 .. (n + 1)
    BY <1>2
  <2>3. \A m \in 1 .. Len(t) : t[m].size = z
    BY <1>7, <2>1, <2>2
  <2> QED
    BY <1>2, <2>1, <2>3, UniformBytes
<1>15. (i + 1) * z > total \div 2 /\ (i # 0 => ~(i * z > total \div 2))
  <2>1. i \in 0 .. (n + 1) /\ i + 1 \in 0 .. (n + 1)
    BY <1>6, <1>13
  <2>2. PICK j \in 0 .. (n + 1) : j = i + 1
    BY <2>1
  <2>3. RecordBytes(SubSeq(sorted, 1, j)) = j * z
    BY <1>14
  <2>4. RecordBytes(SubSeq(sorted, 1, i)) = i * z
    BY <1>14, <2>1
  <2> QED
    BY <1>12, <2>2, <2>3, <2>4
<1>16. Uniform(n, z) <= CAPACITY /\ Uniform(2, z) <= CAPACITY
  <2>1. RecordBytes(old) <= left.heap /\ left.heap + SlotBytes(n) <= CAPACITY
    BY <1>1, RoomNumbers
  <2>2. left.heap \in Nat /\ SlotBytes(n) \in Nat /\ RecordBytes(old) \in Nat
    BY <1>2, <1>8, <1>9, PageFields, SlotsOne
  <2>3. RecordBytes(old) + SlotBytes(n) <= CAPACITY
    BY <2>1, <2>2, SizeAssumption
  <2> QED
    BY <1>1, <1>8, <2>3 DEF Uniform
<1>17. Uniform(i, z) <= CAPACITY /\ Uniform((n + 1) - i, z) <= CAPACITY
  BY <1>2, <1>10, <1>13, <1>15, <1>16, UniformCounts
<1>18. PICK below, above : below = SubSeq(sorted, 1, i) /\ above = SubSeq(sorted, i + 1, Len(sorted))
  OBVIOUS
<1>19. /\ below \in Seq(Record) /\ Len(below) = i
       /\ RecordBytes(below) + SlotBytes(i) = Uniform(i, z)
  <2>1. i \in 0 .. (n + 1)
    BY <1>6, <1>13
  <2> QED
    BY <1>14, <1>18, <2>1
<1>20. /\ above \in Seq(Record) /\ Len(above) = (n + 1) - i
       /\ RecordBytes(above) + SlotBytes((n + 1) - i) = Uniform((n + 1) - i, z)
  <2>1. /\ above \in Seq(Record) /\ Len(above) = (n + 1) - i
        /\ \A m \in 1 .. ((n + 1) - i) : above[m] = sorted[i + m]
    BY <1>6, <1>13, <1>18, SubSeqProperties
  <2>2. \A m \in 1 .. ((n + 1) - i) : i + m \in 1 .. (n + 1)
    BY <1>2, <1>13
  <2>3. \A m \in 1 .. Len(above) : above[m].size = z
    BY <1>7, <2>1, <2>2
  <2> QED
    BY <1>2, <2>1, <2>3, UniformBytes
<1>21. PICK blank : blank = initialize("LeafNode", CapturedParent(left.header))
  OBVIOUS
<1>22. blank \in PageBytes /\ blank.records = <<>> /\ blank.heap = 0
  <2>1. PICK x : x = CapturedParent(left.header)
    OBVIOUS
  <2>2. x[1] \in Word /\ "LeafNode" \in PageType
    BY <2>1, PageFields, CapturedLow DEF PageType
  <2> QED
    BY <1>21, <2>1, <2>2, InitializedPage
<1>23. right \in PageBytes /\ right.records = <<>> /\ right.heap = 0
  <2>1. None[1] \in Word /\ "LeafNode" \in PageType
    BY ParentWord DEF PageType
  <2> QED
    BY <2>1, InitializedPage
<1>24. ASSUME NEW pg \in PageBytes, pg.records = <<>>, pg.heap = 0, NEW t \in Seq(Record),
              RecordBytes(t) + SlotBytes(Len(t)) <= CAPACITY
       PROVE  AppendAll(pg, t).ok
  <2>1. Len(pg.records) = 0 /\ Len(t) \in Nat /\ 0 + Len(t) = Len(t) /\ RecordBytes(t) \in Nat
    BY <1>24, SizesFinite, RecordSize
  <2>2. pg.heap + RecordBytes(t) + SlotBytes(Len(pg.records) + Len(t)) <= CAPACITY
    BY <1>24, <2>1
  <2> QED
    BY <2>2, AppendAllFits
<1>25. AppendAll(blank, below).ok
  BY <1>17, <1>19, <1>22, <1>24
<1>26. AppendAll(right, above).ok
  BY <1>17, <1>20, <1>23, <1>24
<1> QED
  BY <1>1, <1>4, <1>5, <1>11, <1>18, <1>21, <1>25, <1>26 DEF Halves

(* A leaf of records of one size is always split into halves that fit. *)
THEOREM UniformSplits == Spec => []UniformSplitsSucceed
<1>1. ChainInv => UniformSplitsSucceed
  <2> SUFFICES ASSUME ChainInv, Intact, NEW r \in Record, NEW left, left = page[Route(r.key)],
                      2 * (r.size + SLOT_SIZE) <= CAPACITY,
                      \A i \in DOMAIN left.records : left.records[i].size = r.size,
                      ~search_page(left, r.key).found
               PROVE  Halves(left, initialize("LeafNode", None), r).ok
    BY DEF UniformSplitsSucceed
  <2>1. r.key \in Keys /\ r.key \in Nat
    BY RecordFields
  <2>2. left \in PageBytes /\ Room(left) /\ Sorted(left.records)
    BY <2>1, Routed
  <2>3. PICK c \in 0 .. Len(left.records) : Between(c, left.records, r.key)
    BY <2>1, <2>2, UnfoundSlot
  <2>4. \A k \in 1 .. Len(left.records) : left.records[k].size = r.size
    BY <2>2, PageFields
  <2> QED
    BY <2>2, <2>3, <2>4, UniformHalves
<1> QED
  BY <1>1, ChainInvariant, PTL

-----------------------------------------------------------------------------
(* The chain is a map from keys to records *)

In(s, x) == \E k \in DOMAIN s : s[k] = x

(* A member of a list of records is a record. *)
LEMMA InSeq ==
    ASSUME NEW s \in Seq(Record), NEW x
    PROVE  /\ In(s, x) <=> \E k \in 1 .. Len(s) : s[k] = x
           /\ In(s, x) => x \in Record
  BY DEF In

(* Members of a list after an insertion. *)
LEMMA InInserted ==
    ASSUME NEW s \in Seq(Record), NEW c \in 0 .. Len(s), NEW r \in Record,
           NEW t, t = InsertAt(s, c + 1, r), NEW x
    PROVE  In(t, x) <=> In(s, x) \/ x = r
<1>1. PICK n : n = Len(s)
  OBVIOUS
<1>2. n \in Nat /\ c \in 0 .. n
  BY <1>1
<1>3. /\ t \in Seq(Record) /\ Len(t) = n + 1
      /\ \A k \in 1 .. (n + 1) : t[k] = IF k <= c THEN s[k] ELSE IF k = c + 1 THEN r ELSE s[k - 1]
  <2>1. t = [k \in 1 .. (Len(s) + 1) |-> IF k <= c THEN s[k] ELSE IF k = c + 1 THEN r ELSE s[k - 1]]
    BY InsertAtFunction
  <2>2. t \in Seq(Record) /\ Len(t) = Len(s) + 1
    BY InsertAtType
  <2> QED
    BY <1>1, <2>1, <2>2
<1>4. ASSUME NEW k \in 1 .. (n + 1), t[k] = x PROVE In(s, x) \/ x = r
  <2>1. CASE k <= c
    <3>1. k \in 1 .. n /\ s[k] = x
      BY <1>2, <1>3, <1>4, <2>1
    <3> QED
      BY <1>1, <3>1, InSeq
  <2>2. CASE k = c + 1
    <3>1. ~(k <= c)
      BY <1>2, <2>2
    <3> QED
      BY <1>3, <1>4, <2>2, <3>1
  <2>3. CASE k > c + 1
    <3>1. k - 1 \in 1 .. n /\ ~(k <= c) /\ k # c + 1
      BY <1>2, <2>3
    <3>2. s[k - 1] = x
      BY <1>3, <1>4, <3>1
    <3> QED
      BY <1>1, <3>1, <3>2, InSeq
  <2> QED
    BY <1>2, <2>1, <2>2, <2>3
<1>5. ASSUME NEW k \in 1 .. n, s[k] = x PROVE \E m \in 1 .. (n + 1) : t[m] = x
  <2>1. CASE k <= c
    <3>1. k \in 1 .. (n + 1) /\ t[k] = x
      BY <1>2, <1>3, <1>5, <2>1
    <3> QED
      BY <3>1
  <2>2. CASE k > c
    <3>1. k + 1 \in 1 .. (n + 1) /\ ~(k + 1 <= c) /\ k + 1 # c + 1 /\ (k + 1) - 1 = k
      BY <1>2, <2>2
    <3>2. t[k + 1] = x
      BY <1>3, <1>5, <3>1
    <3> QED
      BY <3>1, <3>2
  <2> QED
    BY <1>2, <2>1, <2>2
<1>6. c + 1 \in 1 .. (n + 1) /\ t[c + 1] = r
  <2>1. c + 1 \in 1 .. (n + 1) /\ ~(c + 1 <= c)
    BY <1>2
  <2> QED
    BY <1>3, <2>1
<1>7. In(t, x) <=> \E k \in 1 .. (n + 1) : t[k] = x
  BY <1>3, InSeq
<1>8. In(s, x) <=> \E k \in 1 .. n : s[k] = x
  BY <1>1, InSeq
<1> QED
  BY <1>4, <1>5, <1>6, <1>7, <1>8

(* The keys of a sorted list differ. *)
LEMMA SortedKeys ==
    ASSUME NEW s \in Seq(Record), Sorted(s), NEW k \in 1 .. Len(s), NEW m \in 1 .. Len(s),
           s[k].key = s[m].key
    PROVE  k = m
<1>1. s[k].key \in Nat /\ s[m].key \in Nat
  <2>1. s[k] \in Record /\ s[m] \in Record
    OBVIOUS
  <2> QED
    BY <2>1, RecordFields
<1>2. ~(k < m) /\ ~(m < k)
  BY <1>1 DEF Sorted
<1> QED
  BY <1>2

(* Members after a deletion: all but the one with the key. *)
LEMMA InRemoved ==
    ASSUME NEW s \in Seq(Record), Sorted(s), NEW c \in 0 .. (Len(s) - 1),
           NEW t, t = RemoveAt(s, c + 1), NEW x
    PROVE  In(t, x) <=> In(s, x) /\ x.key # s[c + 1].key
<1>1. PICK n : n = Len(s)
  OBVIOUS
<1>2. n \in Nat /\ c \in 0 .. (n - 1) /\ c + 1 \in 1 .. n
  BY <1>1
<1>3. /\ t \in Seq(Record) /\ Len(t) = n - 1
      /\ \A k \in 1 .. (n - 1) : t[k] = IF k <= c THEN s[k] ELSE s[k + 1]
  <2>1. t = [k \in 1 .. (Len(s) - 1) |-> IF k <= c THEN s[k] ELSE s[k + 1]]
    BY RemoveAtFunction
  <2>2. t \in Seq(Record) /\ Len(t) = Len(s) - 1
    BY RemoveAtType
  <2> QED
    BY <1>1, <2>1, <2>2
<1>4. \A k, m \in 1 .. n : s[k].key = s[m].key => k = m
  BY <1>1, SortedKeys
<1>5. ASSUME NEW k \in 1 .. (n - 1), t[k] = x PROVE In(s, x) /\ x.key # s[c + 1].key
  <2>1. PICK m : m = IF k <= c THEN k ELSE k + 1
    OBVIOUS
  <2>2. m \in 1 .. n /\ m # c + 1
    BY <1>2, <2>1
  <2>3. s[m] = x
    BY <1>3, <1>5, <2>1
  <2> QED
    BY <1>1, <1>2, <1>4, <2>2, <2>3, InSeq
<1>6. ASSUME NEW k \in 1 .. n, s[k] = x, x.key # s[c + 1].key PROVE \E m \in 1 .. (n - 1) : t[m] = x
  <2>1. k # c + 1
    BY <1>6
  <2>2. CASE k <= c
    <3>1. k \in 1 .. (n - 1) /\ t[k] = x
      BY <1>2, <1>3, <1>6, <2>2
    <3> QED
      BY <3>1
  <2>3. CASE k > c
    <3>1. k - 1 \in 1 .. (n - 1) /\ ~(k - 1 <= c) /\ (k - 1) + 1 = k
      BY <1>2, <2>1, <2>3
    <3>2. t[k - 1] = x
      BY <1>3, <1>6, <3>1
    <3> QED
      BY <3>1, <3>2
  <2> QED
    BY <1>2, <2>2, <2>3
<1>7. In(t, x) <=> \E k \in 1 .. (n - 1) : t[k] = x
  BY <1>3, InSeq, SMTT(20)
<1>8. In(s, x) <=> \E k \in 1 .. n : s[k] = x
  BY <1>1, InSeq
<1> QED
  BY <1>5, <1>6, <1>7, <1>8

(* Members after an update: the new one has taken the place of the old. *)
LEMMA InReplaced ==
    ASSUME NEW s \in Seq(Record), Sorted(s), NEW m \in 1 .. Len(s), NEW r \in Record,
           r.key = s[m].key, NEW t, t = [s EXCEPT ![m] = r], NEW x
    PROVE  In(t, x) <=> (In(s, x) /\ x.key # r.key) \/ x = r
<1>1. PICK n : n = Len(s)
  OBVIOUS
<1>2. n \in Nat /\ m \in 1 .. n /\ DOMAIN s = 1 .. n
  BY <1>1
<1>3. t \in Seq(Record) /\ Len(t) = n /\ t[m] = r /\ \A k \in 1 .. n : k # m => t[k] = s[k]
  BY <1>1, <1>2
<1>4. \A k \in 1 .. n : s[k].key = s[m].key => k = m
  BY <1>1, SortedKeys
<1>5. In(t, x) <=> \E k \in 1 .. n : t[k] = x
  BY <1>3, InSeq
<1>6. In(s, x) <=> \E k \in 1 .. n : s[k] = x
  BY <1>1, InSeq
<1> QED
  BY <1>2, <1>3, <1>4, <1>5, <1>6

(* Members of two lists together. *)
LEMMA InConcat ==
    ASSUME NEW s \in Seq(Record), NEW t \in Seq(Record), NEW u, u = s \o t, NEW x
    PROVE  In(u, x) <=> In(s, x) \/ In(t, x)
<1>1. PICK a, b : a = Len(s) /\ b = Len(t)
  OBVIOUS
<1>2. /\ a \in Nat /\ b \in Nat /\ u \in Seq(Record) /\ Len(u) = a + b
      /\ \A k \in 1 .. (a + b) : u[k] = IF k <= a THEN s[k] ELSE t[k - a]
  BY <1>1
<1>3. ASSUME NEW k \in 1 .. (a + b), u[k] = x PROVE In(s, x) \/ In(t, x)
  <2>1. CASE k <= a
    <3>1. k \in 1 .. a /\ s[k] = x
      BY <1>2, <1>3, <2>1
    <3> QED
      BY <1>1, <3>1, InSeq
  <2>2. CASE ~(k <= a)
    <3>1. k - a \in 1 .. b /\ t[k - a] = x
      BY <1>2, <1>3, <2>2
    <3> QED
      BY <1>1, <3>1, InSeq
  <2> QED
    BY <2>1, <2>2
<1>4. ASSUME NEW k \in 1 .. a, s[k] = x PROVE \E m \in 1 .. (a + b) : u[m] = x
  <2>1. k \in 1 .. (a + b) /\ k <= a
    BY <1>2
  <2> QED
    BY <1>2, <1>4, <2>1
<1>5. ASSUME NEW k \in 1 .. b, t[k] = x PROVE \E m \in 1 .. (a + b) : u[m] = x
  <2>1. a + k \in 1 .. (a + b) /\ ~(a + k <= a) /\ (a + k) - a = k
    BY <1>2
  <2>2. u[a + k] = x
    BY <1>2, <1>5, <2>1
  <2> QED
    BY <2>1, <2>2
<1>6. In(u, x) <=> \E k \in 1 .. (a + b) : u[k] = x
  <2>1. In(u, x) <=> \E k \in 1 .. Len(u) : u[k] = x
    BY Zenon, <1>2, InSeq
  <2> QED
    BY Zenon, <1>2, <2>1
<1>7. (In(s, x) <=> \E k \in 1 .. a : s[k] = x) /\ (In(t, x) <=> \E k \in 1 .. b : t[k] = x)
  BY <1>1, InSeq
<1> QED
  BY <1>3, <1>4, <1>5, <1>6, <1>7

(* Members of a list that is cut in two. *)
LEMMA InCut ==
    ASSUME NEW s \in Seq(Record), NEW k \in 0 .. Len(s), NEW lower, NEW upper,
           lower = SubSeq(s, 1, k), upper = SubSeq(s, k + 1, Len(s)), NEW x
    PROVE  In(s, x) <=> In(lower, x) \/ In(upper, x)
<1>1. PICK a, b : a = lower /\ b = upper
  OBVIOUS
<1>2. s = a \o b
  BY <1>1, CutJoined
<1>3. a \in Seq(Record) /\ b \in Seq(Record)
  <2>1. lower \in Seq(Record)
    BY SubSeqProperties
  <2>2. upper \in Seq(Record)
    BY SubSeqProperties
  <2> QED
    BY <1>1, <2>1, <2>2
<1>4. \A v, w \in Seq(Record) : s = v \o w => (In(s, x) <=> In(v, x) \/ In(w, x))
  BY InConcat
<1>5. In(s, x) <=> In(a, x) \/ In(b, x)
  BY <1>2, <1>3, <1>4, Zenon
<1> QED
  BY <1>1, <1>5

(* The stored records are those on the leaves, before and after a step. *)
LEMMA StoredMembers ==
    /\ \A x : x \in Stored <=> \E p \in Leaves : In(page[p].records, x)
    /\ \A x : x \in Stored' <=> \E p \in Leaves' : In(page'[p].records, x)
  BY DEF Stored, Range, In

(* A key is on no other leaf than the one it is routed to. *)
LEMMA KeyHome ==
    ASSUME ChainInv, Intact, NEW p \in Leaves, NEW x, In(page[p].records, x)
    PROVE  p \in Pages /\ x \in Record /\ p = Route(x.key)
<1>1. PICK j \in 1 .. Len(tree) : tree[j].leaf = p
  BY TreeFields DEF ChainInv
<1>2. p \in Pages /\ DOMAIN tree = 1 .. Len(tree)
  BY <1>1, TreeFields DEF ChainInv
<1>3. page[p].records \in Seq(Record)
  BY <1>2, PageFields DEF ChainInv, PagesOK
<1>4. x \in Record
  <2>1. PICK s : s = page[p].records
    OBVIOUS
  <2> QED
    BY <1>3, <2>1, InSeq
<1>5. PICK m \in DOMAIN page[p].records : page[p].records[m] = x
  BY DEF In
<1>6. Placed(j, x.key)
  BY <1>1, <1>2, <1>5 DEF ChainInv, KeysPlaced
<1>7. x.key \in Keys /\ x.key \in Nat
  BY <1>4, RecordFields
<1>8. PICK i \in 1 .. Len(tree) : Route(x.key) = tree[i].leaf /\ Placed(i, x.key)
  BY <1>7, Routed
<1>9. Len(tree) \in Nat /\ tree[i].separator \in Nat /\ tree[j].separator \in Nat
  BY <1>1, <1>8, TreeFields DEF ChainInv
<1>10. tree[i].separator <= x.key /\ (i < j => x.key < tree[j].separator)
  BY <1>2, <1>8 DEF Placed
<1>11. tree[j].separator <= x.key /\ (j < i => x.key < tree[i].separator)
  BY <1>2, <1>6 DEF Placed
<1>12. i = j
  <2>1. ~(i < j) /\ ~(j < i)
    BY <1>7, <1>9, <1>10, <1>11
  <2> QED
    BY <1>1, <1>8, <1>9, <2>1
<1> QED
  BY <1>1, <1>2, <1>4, <1>8, <1>12

(* What is stored when the leaf of a key is rewritten. *)
LEMMA OneLeafMaps ==
    ASSUME ChainInv, Intact, NEW key \in Keys, NEW p, p = Route(key), NEW new, NEW res,
           Write(Only(p, new), res), UNCHANGED tree
    PROVE  /\ result' = res /\ p \in Leaves /\ p \in Pages
           /\ \A x : In(page[p].records, x) => x \in Stored
           /\ \A x : x \in Stored /\ ~In(page[p].records, x) => x.key # key
           /\ \A x : x \in Stored' <=> In(new.records, x) \/ (x \in Stored /\ ~In(page[p].records, x))
<1>1. PICK i \in 1 .. Len(tree) : p = tree[i].leaf /\ p \in Pages
  BY Routed
<1>2. p \in Leaves /\ p \in Pages /\ \A q \in Leaves : q \in Pages
  BY <1>1, TreeFields DEF ChainInv
<1>3. /\ page'[p] = new /\ result' = res
      /\ \A q \in Pages : q # p => page'[q] = page[q]
  BY <1>2, WriteOne
<1>4. Leaves' = Leaves
  BY DEF Leaves
<1>5. ASSUME NEW x PROVE x \in Stored <=> \E q \in Leaves : In(page[q].records, x)
  BY StoredMembers
<1>6. ASSUME NEW x PROVE x \in Stored' <=> \E q \in Leaves : In(page'[q].records, x)
  BY <1>4, StoredMembers
<1>7. ASSUME NEW x, NEW q \in Leaves, In(page[q].records, x) PROVE q = Route(x.key)
  BY <1>7, KeyHome
<1>8. ASSUME NEW x, x \in Stored, ~In(page[p].records, x) PROVE x.key # key
  BY <1>5, <1>7, <1>8
<1>9. ASSUME NEW x, x \in Stored' PROVE In(new.records, x) \/ (x \in Stored /\ ~In(page[p].records, x))
  <2>1. PICK q \in Leaves : In(page'[q].records, x)
    BY <1>6, <1>9
  <2>2. CASE q = p
    BY <1>3, <2>1, <2>2
  <2>3. CASE q # p
    <3>1. In(page[q].records, x)
      BY <1>2, <1>3, <2>1, <2>3
    <3>2. ~In(page[p].records, x)
      BY <1>2, <1>7, <2>3, <3>1
    <3> QED
      BY <1>5, <3>1, <3>2
  <2> QED
    BY <2>2, <2>3
<1>10. ASSUME NEW x, In(new.records, x) PROVE x \in Stored'
  BY <1>2, <1>3, <1>6, <1>10
<1>11. ASSUME NEW x, x \in Stored, ~In(page[p].records, x) PROVE x \in Stored'
  <2>1. PICK q \in Leaves : In(page[q].records, x)
    BY <1>5, <1>11
  <2>2. q # p /\ q \in Pages
    BY <1>2, <1>11, <2>1
  <2>3. In(page'[q].records, x)
    BY <1>3, <2>1, <2>2
  <2> QED
    BY <1>6, <2>3
<1> QED
  BY <1>2, <1>3, <1>5, <1>8, <1>9, <1>10, <1>11

(* A call that adds one record is an insertion of the map. *)
LEMMA InsertMaps ==
    ASSUME ChainInv, Intact, NEW r \in Record, NEW p, p = Route(r.key), NEW pg, pg = page[p],
           NEW c \in 0 .. Len(pg.records), Fits(pg, r),
           \A k \in 1 .. Len(pg.records) : pg.records[k].key # r.key,
           Write(Only(p, Inserted(pg, c, r)), "Inserted"), UNCHANGED tree
    PROVE  Map!Next
<1>1. r.key \in Keys
  BY RecordFields
<1>2. pg \in PageBytes /\ Room(pg)
  BY <1>1, Routed
<1>3. PICK new, old : new = Inserted(pg, c, r) /\ old = pg.records
  OBVIOUS
<1>4. old \in Seq(Record) /\ c \in 0 .. Len(old) /\ new.records = InsertAt(old, c + 1, r)
  BY <1>2, <1>3, PageFields, InsertedPage
<1>5. ASSUME NEW x PROVE In(new.records, x) <=> In(old, x) \/ x = r
  BY <1>4, InInserted
<1>6. /\ result' = "Inserted"
      /\ \A x : In(old, x) => x \in Stored
      /\ \A x : x \in Stored /\ ~In(old, x) => x.key # r.key
      /\ \A x : x \in Stored' <=> In(new.records, x) \/ (x \in Stored /\ ~In(old, x))
  BY <1>1, <1>3, OneLeafMaps
<1>7. \A x : In(old, x) => x.key # r.key
  BY <1>3, <1>4, InSeq
<1>8. Stored' = Stored \cup {r}
  BY <1>5, <1>6
<1>9. {s \in Stored : s.key = r.key} = {}
  BY <1>6, <1>7
<1>10. Map!Insert(r)
  BY <1>6, <1>8, <1>9 DEF Map!Insert, Map!Same
<1> QED
  BY <1>10 DEF Map!Next

(* A refusal is one of the map. *)
LEMMA RefuseMaps ==
    ASSUME NEW error, Refuse(error)
    PROVE  Map!Next
<1>1. page' = page /\ tree' = tree /\ result' = "Refused"
  BY DEF Refuse
<1>2. Stored' = Stored
  BY <1>1 DEF Stored, Leaves
<1> QED
  BY <1>1, <1>2 DEF Map!Next, Map!Refuse

(* The same, at the slot that the search returned. *)
LEMMA InsertAtSlotMaps ==
    ASSUME ChainInv, Intact, NEW r \in Record, NEW p, p = Route(r.key), NEW pg, pg = page[p],
           NEW slot, slot = search_page(pg, r.key), ~slot.found, Fits(pg, r),
           Write(Only(p, Inserted(pg, slot.slot, r)), "Inserted"), UNCHANGED tree
    PROVE  Map!Next
<1>1. r.key \in Keys /\ r.key \in Nat
  BY RecordFields
<1>2. pg \in PageBytes /\ Sorted(pg.records)
  BY <1>1, Routed
<1>3. PICK c \in 0 .. Len(pg.records) : slot.slot = c /\ Between(c, pg.records, r.key)
  BY <1>1, <1>2, UnfoundSlot
<1>4. ASSUME NEW k \in 1 .. Len(pg.records) PROVE pg.records[k].key # r.key
  <2>1. Len(pg.records) \in Nat /\ pg.records[k] \in Record
    BY <1>2, PageFields
  <2>2. pg.records[k].key \in Nat
    BY <2>1, RecordFields
  <2>3. k \in 1 .. c \/ k \in (c + 1) .. Len(pg.records)
    BY <1>3, <2>1
  <2>4. pg.records[k].key < r.key \/ r.key < pg.records[k].key
    BY <1>3, <2>3 DEF Between
  <2> QED
    BY <1>1, <2>2, <2>4
<1>5. Write(Only(p, Inserted(pg, c, r)), "Inserted")
  BY <1>3
<1> QED
  BY <1>3, <1>4, <1>5, InsertMaps

(* The calls on the records of one leaf, one by one. *)
LEMMA insert_recordMaps ==
    ASSUME ChainInv, Intact, NEW r \in Record, insert_record(r)
    PROVE  Map!Next
<1>1. PICK p, pg, slot : p = Route(r.key) /\ pg = page[p] /\ slot = search_page(pg, r.key)
  OBVIOUS
<1>2. \/ Refuse("DuplicateKey") \/ Refuse("PageFull")
      \/ /\ ~slot.found /\ Fits(pg, r)
         /\ Write(Only(p, Inserted(pg, slot.slot, r)), "Inserted") /\ UNCHANGED tree
  BY <1>1 DEF insert_record
<1>3. CASE Refuse("DuplicateKey") \/ Refuse("PageFull")
  BY <1>3, RefuseMaps
<1>4. CASE /\ ~slot.found /\ Fits(pg, r)
           /\ Write(Only(p, Inserted(pg, slot.slot, r)), "Inserted") /\ UNCHANGED tree
  BY <1>1, <1>4, InsertAtSlotMaps
<1> QED
  BY <1>2, <1>3, <1>4

LEMMA insert_raw_recordMaps ==
    ASSUME ChainInv, Intact, NEW r \in Record, insert_raw_record(r)
    PROVE  Map!Next
<1>1. PICK p, pg, slot : p = Route(r.key) /\ pg = page[p] /\ slot = search_page(pg, r.key)
  OBVIOUS
<1>2. /\ ~slot.found /\ Fits(pg, r)
      /\ Write(Only(p, Inserted(pg, slot.slot, r)), "Inserted") /\ UNCHANGED tree
  BY <1>1 DEF insert_raw_record
<1> QED
  BY <1>1, <1>2, InsertAtSlotMaps

LEMMA append_lastMaps ==
    ASSUME ChainInv, Intact, NEW r \in Record, append_last(r)
    PROVE  Map!Next
<1>1. PICK p, pg : p = Route(r.key) /\ pg = page[p]
  OBVIOUS
<1>2. /\ \A i \in DOMAIN pg.records : pg.records[i].key < r.key
      /\ append(pg, r).ok /\ Write(Only(p, append(pg, r).page), "Inserted") /\ UNCHANGED tree
  BY <1>1 DEF append_last
<1>3. r.key \in Keys /\ r.key \in Nat
  BY RecordFields
<1>4. pg \in PageBytes
  BY <1>1, <1>3, Routed
<1>5. Len(pg.records) \in Nat /\ DOMAIN pg.records = 1 .. Len(pg.records)
  BY <1>4, PageFields
<1>6. PICK c : c = Len(pg.records)
  OBVIOUS
<1>7. Fits(pg, r) /\ append(pg, r).page = Inserted(pg, c, r)
  BY <1>2, <1>6 DEF append, get_item_count
<1>8. c \in 0 .. Len(pg.records) /\ \A k \in 1 .. Len(pg.records) : pg.records[k].key # r.key
  <2>1. \A k \in 1 .. Len(pg.records) : pg.records[k].key # r.key
    BY <1>2, <1>3, <1>5
  <2> QED
    BY <1>5, <1>6, <2>1
<1>9. Write(Only(p, Inserted(pg, c, r)), "Inserted") /\ UNCHANGED tree
  BY <1>2, <1>7
<1> QED
  BY <1>1, <1>7, <1>8, <1>9, InsertMaps

LEMMA update_recordMaps ==
    ASSUME ChainInv, Intact, NEW r \in Record, update_record(r)
    PROVE  Map!Next
<1>1. PICK p, pg, slot : p = Route(r.key) /\ pg = page[p] /\ slot = search_page(pg, r.key)
  OBVIOUS
<1>2. PICK new : new = Updated(pg, slot.slot, r)
  OBVIOUS
<1>3. \/ Refuse("KeyNotFound") \/ Refuse("PageFull")
      \/ /\ slot.found
         /\ r.size <= pg.records[slot.slot + 1].size \/ ~(r.size > get_free_space_contiguous(pg))
         /\ Write(Only(p, new), "Updated") /\ UNCHANGED tree
  BY <1>1, <1>2 DEF update_record
<1>4. CASE Refuse("KeyNotFound") \/ Refuse("PageFull")
  BY <1>4, RefuseMaps
<1>5. CASE /\ slot.found
           /\ r.size <= pg.records[slot.slot + 1].size \/ ~(r.size > get_free_space_contiguous(pg))
           /\ Write(Only(p, new), "Updated") /\ UNCHANGED tree
  <2>1. r.key \in Keys
    BY RecordFields
  <2>2. pg \in PageBytes /\ Room(pg) /\ Sorted(pg.records)
    BY <1>1, <2>1, Routed
  <2>3. PICK c \in 0 .. (Len(pg.records) - 1) : slot.slot = c /\ pg.records[c + 1].key = r.key
    BY <1>1, <1>5, <2>1, FoundSlot
  <2>4. new.records = [pg.records EXCEPT ![c + 1] = r]
    <3>1. r.size <= pg.records[c + 1].size \/ ~(r.size > get_free_space_contiguous(pg))
      BY <1>5, <2>3
    <3> QED
      BY <1>2, <2>2, <2>3, <3>1, UpdatedPage
  <2>5. PICK old, m, t : old = pg.records /\ m = c + 1 /\ t = new.records
    OBVIOUS
  <2>6. old \in Seq(Record) /\ Sorted(old) /\ m \in 1 .. Len(old) /\ r.key = old[m].key
    BY <2>2, <2>3, <2>5, PageFields
  <2>7. t = [old EXCEPT ![m] = r]
    BY <2>4, <2>5
  <2>8. ASSUME NEW x PROVE In(t, x) <=> (In(old, x) /\ x.key # r.key) \/ x = r
    BY <2>6, <2>7, InReplaced
  <2>9. /\ result' = "Updated"
        /\ \A x : In(old, x) => x \in Stored
        /\ \A x : x \in Stored /\ ~In(old, x) => x.key # r.key
        /\ \A x : x \in Stored' <=> In(t, x) \/ (x \in Stored /\ ~In(old, x))
    BY <1>1, <1>5, <2>1, <2>5, OneLeafMaps
  <2>10. Stored' = (Stored \ {s \in Stored : s.key = r.key}) \cup {r}
    BY <2>8, <2>9
  <2>11. old[m] \in Stored /\ old[m].key = r.key
    <3>1. In(old, old[m])
      BY <2>6, InSeq
    <3> QED
      BY <2>6, <2>9, <3>1
  <2>12. Map!Update(r)
    BY <2>9, <2>10, <2>11 DEF Map!Update, Map!Same
  <2> QED
    BY <2>12 DEF Map!Next
<1> QED
  BY <1>3, <1>4, <1>5

LEMMA delete_recordMaps ==
    ASSUME ChainInv, Intact, NEW key \in Keys, delete_record(key)
    PROVE  Map!Next
<1>1. PICK p, pg, slot : p = Route(key) /\ pg = page[p] /\ slot = search_page(pg, key)
  OBVIOUS
<1>2. PICK new : new = [pg EXCEPT !.records = RemoveAt(@, slot.slot + 1)]
  OBVIOUS
<1>3. \/ Refuse("KeyNotFound")
      \/ slot.found /\ Write(Only(p, new), "Deleted") /\ UNCHANGED tree
  BY <1>1, <1>2 DEF delete_record
<1>4. CASE Refuse("KeyNotFound")
  BY <1>4, RefuseMaps
<1>5. CASE slot.found /\ Write(Only(p, new), "Deleted") /\ UNCHANGED tree
  <2>1. pg \in PageBytes /\ Room(pg) /\ Sorted(pg.records)
    BY <1>1, Routed
  <2>2. PICK c \in 0 .. (Len(pg.records) - 1) : slot.slot = c /\ pg.records[c + 1].key = key
    BY <1>1, <1>5, FoundSlot
  <2>3. new.records = RemoveAt(pg.records, c + 1)
    BY <1>2, <2>1, <2>2, RemovedPage
  <2>4. PICK old, t, r : old = pg.records /\ t = new.records /\ r = old[c + 1]
    OBVIOUS
  <2>5. /\ old \in Seq(Record) /\ Sorted(old) /\ c \in 0 .. (Len(old) - 1) /\ c + 1 \in 1 .. Len(old)
        /\ r \in Record /\ r.key = key
    BY <2>1, <2>2, <2>4, PageFields
  <2>6. t = RemoveAt(old, c + 1)
    BY <2>3, <2>4
  <2>7. ASSUME NEW x PROVE In(t, x) <=> In(old, x) /\ x.key # r.key
    BY <2>4, <2>5, <2>6, InRemoved
  <2>8. /\ result' = "Deleted"
        /\ \A x : In(old, x) => x \in Stored
        /\ \A x : x \in Stored /\ ~In(old, x) => x.key # key
        /\ \A x : x \in Stored' <=> In(t, x) \/ (x \in Stored /\ ~In(old, x))
    BY <1>1, <1>5, <2>4, OneLeafMaps
  <2>9. Stored' = Stored \ {s \in Stored : s.key = r.key}
    BY <2>5, <2>7, <2>8
  <2>10. r \in Stored
    <3>1. In(old, r)
      BY <2>4, <2>5, InSeq
    <3> QED
      BY <2>8, <3>1
  <2>11. Map!Delete(r)
    BY <2>8, <2>9, <2>10 DEF Map!Delete, Map!Same
  <2> QED
    BY <2>5, <2>11 DEF Map!Next
<1> QED
  BY <1>3, <1>4, <1>5

(* Pages that keep their records keep the map. *)
LEMMA SameRecords ==
    ASSUME Leaves' = Leaves, \A q \in Leaves : page'[q].records = page[q].records
    PROVE  Stored' = Stored
<1>1. \A x : x \in Stored <=> \E q \in Leaves : In(page[q].records, x)
  BY StoredMembers
<1>2. \A x : x \in Stored' <=> \E q \in Leaves : In(page'[q].records, x)
  BY StoredMembers
<1>3. \A x : x \in Stored' <=> x \in Stored
  BY <1>1, <1>2
<1> QED
  BY <1>3

(* A page that is formatted ahead stores nothing. *)
LEMMA PrepareMaps ==
    ASSUME ChainInv, NEW p \in Pages, Prepare(p)
    PROVE  Map!Next
<1>1. /\ \A q \in Pages : page[q].header.type = "LeafNode" => q \in Leaves /\ q # p
      /\ page' = [page EXCEPT ![p] = initialize("LeafNode", parent[Root])]
      /\ result' = "Ok" /\ tree' = tree
  BY DEF Prepare
<1>2. Leaves' = Leaves
  BY <1>1 DEF Leaves
<1>3. ASSUME NEW q \in Leaves PROVE q \in Pages /\ q # p
  <2>1. q \in Pages /\ page[q].header.type = "LeafNode"
    BY TreeFields DEF ChainInv, TreeOK
  <2> QED
    BY <1>1, <2>1
<1>4. \A q \in Leaves : page'[q].records = page[q].records
  BY <1>1, <1>3 DEF ChainInv, PagesOK
<1>5. Stored' = Stored
  BY <1>2, <1>4, SameRecords
<1> QED
  BY <1>1, <1>5 DEF Map!Next, Map!Reorganize

(* Compaction moves no record. *)
LEMMA compactMaps ==
    ASSUME ChainInv, NEW p \in Pages, compact(p)
    PROVE  Map!Next
<1>1. PICK new : new = [page[p] EXCEPT !.heap = RecordBytes(page[p].records)]
  OBVIOUS
<1>2. Write(Only(p, new), "Ok") /\ tree' = tree
  BY <1>1 DEF compact
<1>3. page[p] \in PageBytes /\ Room(page[p])
  BY DEF ChainInv, PagesOK
<1>4. new.records = page[p].records
  BY <1>1, <1>3, CompactedPage
<1>5. page'[p] = new /\ result' = "Ok" /\ \A q \in Pages : q # p => page'[q] = page[q]
  BY <1>2, WriteOne
<1>6. Leaves' = Leaves /\ \A q \in Leaves : q \in Pages
  BY <1>2, TreeFields DEF Leaves, ChainInv
<1>7. \A q \in Leaves : page'[q].records = page[q].records
  BY <1>4, <1>5, <1>6
<1>8. Stored' = Stored
  BY <1>6, <1>7, SameRecords, SMTT(20)
<1> QED
  BY <1>5, <1>8 DEF Map!Next, Map!Reorganize

(* A merge moves the records of a leaf to its left sibling. *)
LEMMA MergedMaps ==
    ASSUME ChainInv, Intact, NEW p \in Pages, NEW i \in 1 .. (Len(tree) - 1), NEW right \in Pages,
           NEW next, Merged(i, p, right, next)
    PROVE  Map!Next
<1>1. \A q : q \in Leaves' <=> q \in Leaves /\ q # right
  BY MergedKeeps
<1>2. /\ p = tree[i].leaf /\ right = tree[i + 1].leaf /\ result' = "Ok"
      /\ page'[p].records = page[p].records \o page[right].records
  BY Zenon DEF Merged
<1>3. \A q \in Pages : q # p /\ q # right => page'[q].records = page[q].records
  BY Zenon DEF Merged
<1>4. /\ p \in Leaves /\ right \in Leaves /\ p # right
      /\ \A q \in Leaves : q \in Pages
  <2>1. PICK n : n = Len(tree)
    OBVIOUS
  <2>2. n \in Nat /\ i \in 1 .. n /\ i + 1 \in 1 .. n /\ i < i + 1 /\ DOMAIN tree = 1 .. n
    BY <2>1, TreeFields DEF ChainInv
  <2>3. \A k, m \in 1 .. n : k < m => tree[k].leaf # tree[m].leaf
    BY <2>1, TreeFields, ZenonT(40) DEF ChainInv, TreeOK
  <2>4. (\A k \in 1 .. n : tree[k].leaf \in Leaves) /\ \A q \in Leaves : q \in Pages
    BY <2>1, TreeFields DEF ChainInv
  <2> QED
    BY <1>2, <2>2, <2>3, <2>4
<1>5. PICK s, t, u : s = page[p].records /\ t = page[right].records /\ u = page'[p].records
  OBVIOUS
<1>6. s \in Seq(Record) /\ t \in Seq(Record) /\ u = s \o t
  <2>1. page[p] \in PageBytes /\ page[right] \in PageBytes
    BY DEF ChainInv, PagesOK
  <2> QED
    BY <1>2, <1>5, <2>1, PageFields, Zenon
<1>7. ASSUME NEW x PROVE In(u, x) <=> In(s, x) \/ In(t, x)
  BY <1>6, InConcat
<1>8. ASSUME NEW x PROVE x \in Stored <=> \E q \in Leaves : In(page[q].records, x)
  BY StoredMembers
<1>9. ASSUME NEW x PROVE x \in Stored' <=> \E q \in Leaves' : In(page'[q].records, x)
  BY StoredMembers
<1>10. ASSUME NEW x, x \in Stored PROVE x \in Stored'
  <2>1. PICK q \in Leaves : In(page[q].records, x)
    BY <1>8, <1>10
  <2>2. CASE q = p \/ q = right
    BY <1>1, <1>4, <1>5, <1>7, <1>9, <2>1, <2>2
  <2>3. CASE q # p /\ q # right
    BY <1>1, <1>3, <1>4, <1>9, <2>1, <2>3
  <2> QED
    BY <2>2, <2>3
<1>11. ASSUME NEW x, x \in Stored' PROVE x \in Stored
  <2>1. PICK q \in Leaves' : In(page'[q].records, x)
    BY <1>9, <1>11
  <2>2. q \in Leaves /\ q # right
    BY <1>1, <2>1
  <2>3. CASE q = p
    BY <1>4, <1>5, <1>7, <1>8, <2>1, <2>3
  <2>4. CASE q # p
    BY <1>3, <1>4, <1>8, <2>1, <2>2, <2>4
  <2> QED
    BY <2>3, <2>4
<1>12. Stored' = Stored
  BY <1>10, <1>11
<1> QED
  BY <1>2, <1>12 DEF Map!Next, Map!Reorganize

(* A merge moves records to the left. *)
LEMMA mergeMaps ==
    ASSUME ChainInv, Intact, NEW p \in Pages, merge(p)
    PROVE  Map!Next
  BY MergeEffect, MergedMaps, RefuseMaps

(* A key that the search does not find is not stored. *)
LEMMA UnfoundNotStored ==
    ASSUME ChainInv, Intact, NEW key \in Keys, ~search_page(page[Route(key)], key).found
    PROVE  \A x : x \in Stored => x.key # key
<1>1. ~ \E p \in Leaves : \E i \in DOMAIN page[p].records : page[p].records[i].key = key
  BY SearchFindsKeys DEF SearchFinds
<1>2. ASSUME NEW x, x \in Stored PROVE x.key # key
  <2>1. PICK p \in Leaves : In(page[p].records, x)
    BY <1>2, StoredMembers
  <2> QED
    BY <1>1, <2>1 DEF In
<1> QED
  BY <1>2

(* The halves of a split have the old records and the new one. *)
LEMMA CutMembers ==
    ASSUME NEW i, NEW old \in Seq(Record), NEW r \in Record, NEW lower, NEW upper,
           Cut(i, old, r, lower, upper), NEW x
    PROVE  In(lower, x) \/ In(upper, x) <=> In(old, x) \/ x = r
<1>1. PICK c \in 0 .. Len(old), k \in 0 .. Len(old), sorted \in Seq(Record) :
          /\ sorted = InsertAt(old, c + 1, r) /\ Len(sorted) = Len(old) + 1
          /\ lower = SubSeq(sorted, 1, k) /\ upper = SubSeq(sorted, k + 1, Len(sorted))
  BY DEF Cut
<1>2. /\ k \in 0 .. Len(sorted) /\ lower = SubSeq(sorted, 1, k)
      /\ upper = SubSeq(sorted, k + 1, Len(sorted))
  BY <1>1
<1>3. In(sorted, x) <=> In(lower, x) \/ In(upper, x)
  <2>1. \A v \in Seq(Record) : \A m \in 0 .. Len(v) :
            lower = SubSeq(v, 1, m) /\ upper = SubSeq(v, m + 1, Len(v))
                => (In(v, x) <=> In(lower, x) \/ In(upper, x))
    BY InCut
  <2> QED
    BY <1>2, <2>1, Zenon
<1>4. sorted = InsertAt(old, c + 1, r)
  BY <1>1
<1>5. In(sorted, x) <=> In(old, x) \/ x = r
  BY <1>4, InInserted
<1> QED
  BY <1>3, <1>5

(* A split moves records to the new leaf, and adds one. *)
LEMMA DividedMaps ==
    ASSUME ChainInv, Intact, NEW r \in Record, NEW p \in Pages, NEW right \in Pages,
           NEW i \in 1 .. Len(tree), NEW next, NEW lower, NEW upper,
           Cut(i, page[p].records, r, lower, upper), Divided(i, p, right, next, lower, upper),
           \A x : x \in Stored => x.key # r.key
    PROVE  Map!Next
<1>1. \A q : q \in Leaves' <=> q \in Leaves \/ q = right
  BY DividedKeeps
<1>2. /\ p = tree[i].leaf /\ right \notin Leaves /\ result' = "Inserted"
      /\ page'[p].records = lower /\ page'[right].records = upper
  BY Zenon DEF Divided
<1>3. \A q \in Pages : q # p /\ q # right => page'[q].records = page[q].records
  BY DEF Divided
<1>4. p \in Leaves /\ p # right /\ \A q \in Leaves : q \in Pages
  BY <1>2, TreeFields DEF ChainInv
<1>5. PICK old : old = page[p].records
  OBVIOUS
<1>6. old \in Seq(Record)
  BY <1>5, PageFields DEF ChainInv, PagesOK
<1>7. ASSUME NEW x PROVE In(lower, x) \/ In(upper, x) <=> In(old, x) \/ x = r
  BY <1>5, <1>6, CutMembers
<1>8. ASSUME NEW x PROVE x \in Stored <=> \E q \in Leaves : In(page[q].records, x)
  BY StoredMembers
<1>9. ASSUME NEW x PROVE x \in Stored' <=> \E q \in Leaves' : In(page'[q].records, x)
  BY StoredMembers
<1>10. ASSUME NEW x, x \in Stored \/ x = r PROVE x \in Stored'
  <2>1. CASE In(old, x) \/ x = r
    BY <1>1, <1>2, <1>4, <1>7, <1>9, <2>1
  <2>2. CASE ~(In(old, x) \/ x = r)
    <3>1. PICK q \in Leaves : In(page[q].records, x)
      BY <1>8, <1>10, <2>2
    <3>2. q # p /\ q # right /\ q \in Pages
      BY <1>2, <1>4, <1>5, <2>2, <3>1
    <3> QED
      BY <1>1, <1>3, <1>9, <3>1, <3>2
  <2> QED
    BY <2>1, <2>2
<1>11. ASSUME NEW x, x \in Stored' PROVE x \in Stored \/ x = r
  <2>1. PICK q \in Leaves' : In(page'[q].records, x)
    BY <1>9, <1>11
  <2>2. CASE q = p \/ q = right
    BY <1>2, <1>4, <1>5, <1>7, <1>8, <2>1, <2>2
  <2>3. CASE q # p /\ q # right
    BY <1>1, <1>3, <1>4, <1>8, <2>1, <2>3
  <2> QED
    BY <2>2, <2>3
<1>12. Stored' = Stored \cup {r} /\ {s \in Stored : s.key = r.key} = {}
  BY <1>10, <1>11
<1>13. Map!Insert(r)
  BY <1>2, <1>12 DEF Map!Insert, Map!Same
<1> QED
  BY <1>13 DEF Map!Next

(* A split that failed is the step in which the map may lose records. *)
LEMMA BrokenMaps ==
    ASSUME ChainInv, NEW p \in Pages, NEW right \in Pages, Broken(p, right)
    PROVE  Map!Next
<1>1. PagesOK'
  BY BrokenKeeps DEF ChainInv
<1>2. result' = "SplitFailed" /\ tree' = tree
  BY DEF Broken
<1>3. Leaves' = Leaves /\ \A q \in Leaves : q \in Pages
  BY <1>2, TreeFields DEF Leaves, ChainInv
<1>4. ASSUME NEW x, x \in Stored' PROVE x \in Record
  <2>1. PICK q \in Leaves : In(page'[q].records, x)
    BY <1>3, <1>4, StoredMembers
  <2>2. PICK s : s = page'[q].records
    OBVIOUS
  <2>3. s \in Seq(Record)
    BY <1>1, <1>3, <2>1, <2>2, PageFields DEF PagesOK
  <2> QED
    BY <2>1, <2>2, <2>3, InSeq
<1> QED
  BY <1>2, <1>4 DEF Map!Next, Map!SplitFailed

(* A split moves records to the right and inserts one, or fails. *)
LEMMA split_and_insertMaps ==
    ASSUME ChainInv, Intact, NEW r \in Record, NEW right \in Pages, split_and_insert(r, right)
    PROVE  Map!Next
<1>1. r.key \in Keys
  BY RecordFields
<1>2. ~search_page(page[Route(r.key)], r.key).found
  BY DEF split_and_insert
<1>3. \A x : x \in Stored => x.key # r.key
  BY <1>1, <1>2, UnfoundNotStored
<1> QED
  BY <1>3, SplitEffect, BrokenMaps, DividedMaps, RefuseMaps

(* The first leaf is empty. *)
LEMMA MapInit == Init => Map!Init
<1> SUFFICES ASSUME Init PROVE Map!Init
  OBVIOUS
<1>1. PICK x \in Parents :
          page = [p \in Pages |->
                     IF p = Root THEN initialize("LeafNode", x) ELSE initialize("Invalid", None)]
  BY DEF Init
<1>2. result = "Ok" /\ \A p \in Leaves : p = Root
  BY DEF Init, Leaves
<1>3. page[Root].records = <<>>
  BY <1>1, PageAssumption DEF initialize
<1>4. \A y : ~In(<<>>, y)
  BY DEF In
<1>5. \A y : y \notin Stored
  BY <1>2, <1>3, <1>4, StoredMembers
<1> QED
  BY <1>2, <1>5 DEF Map!Init

(* Every step is a step of the map, or leaves it alone. *)
LEMMA MapStep == ChainInv /\ [Next]_vars => [Map!Next]_(Map!vars)
<1> SUFFICES ASSUME ChainInv, [Next]_vars PROVE [Map!Next]_(Map!vars)
  OBVIOUS
<1>1. CASE UNCHANGED vars
  <2>1. Stored' = Stored /\ result' = result
    BY <1>1 DEF vars, Stored, Leaves
  <2> QED
    BY <2>1 DEF Map!vars
<1>2. CASE Next
  <2>1. Intact
    BY <1>2 DEF Next
  <2>2. CASE \E p \in Pages : Prepare(p)
    BY <2>2, PrepareMaps
  <2>3. CASE \E r \in Record : insert_record(r)
    BY <2>1, <2>3, insert_recordMaps
  <2>4. CASE \E r \in Record : insert_raw_record(r)
    BY <2>1, <2>4, insert_raw_recordMaps
  <2>5. CASE \E r \in Record : append_last(r)
    BY <2>1, <2>5, append_lastMaps
  <2>6. CASE \E r \in Record : update_record(r)
    BY <2>1, <2>6, update_recordMaps
  <2>7. CASE \E r \in Record : \E right \in Pages : split_and_insert(r, right)
    BY <2>1, <2>7, split_and_insertMaps
  <2>8. CASE \E key \in Keys : delete_record(key)
    BY <2>1, <2>8, delete_recordMaps
  <2>9. CASE \E p \in Pages : compact(p)
    BY <2>9, compactMaps
  <2>10. CASE \E p \in Pages : merge(p)
    BY <2>1, <2>10, mergeMaps
  <2> QED
    BY <1>2, <2>2, <2>3, <2>4, <2>5, <2>6, <2>7, <2>8, <2>9, <2>10 DEF Next
<1> QED
  BY <1>1, <1>2

(* The chain of leaves, with its splits and merges, implements a map from  *)
(* keys to records that changes only as the calls ask; only a split that   *)
(* returns an error may lose records.                                      *)
THEOREM ChainImplementsMap == Spec => ImplementsKeyMap
<1>1. ChainInv /\ [Next]_vars => [Map!Next]_(Map!vars)
  BY MapStep
<1> QED
  BY <1>1, MapInit, ChainInvariant, PTL DEF Spec, ImplementsKeyMap, Map!Spec
=============================================================================
