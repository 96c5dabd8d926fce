--------------------------- MODULE SlottedPageProofs ---------------------------
(***************************************************************************)
(* The slotted page, for pages, slots and records of any size.             *)
(*                                                                         *)
(* TypeOK and HeapWellFormed are inductive together.  What compact() does  *)
(* is an argument about sums: the records of a prefix of the slots take at *)
(* least the bytes of each record in it (PrefixGrows), and the records     *)
(* together no more than the heap, because they do not overlap             *)
(* (RecordsFitHeap).                                                       *)
(***************************************************************************)
EXTENDS SlottedPage, SequenceLemmas

-----------------------------------------------------------------------------
(* Sums of sizes *)

(* The fields of a slot. *)
LEMMA SlotFields ==
    ASSUME NEW s \in Seq(Slot), NEW k \in DOMAIN s
    PROVE  /\ k \in 1 .. Len(s) /\ s[k] \in Slot
           /\ s[k].offset \in 0 .. CAPACITY /\ s[k].size \in 0 .. CAPACITY
           /\ s[k].offset \in Nat /\ s[k].size \in Nat
<1>1. k \in 1 .. Len(s) /\ s[k] \in Slot
  OBVIOUS
<1>2. \A x \in Slot : x.offset \in 0 .. CAPACITY /\ x.size \in 0 .. CAPACITY
  BY DEF Slot
<1> QED
  BY <1>1, <1>2, PageAssumption

(* The bytes of a sequence of slots are finitely many. *)
LEMMA BytesFinite ==
    ASSUME NEW s \in Seq(Slot)
    PROVE  IsFiniteSet(BytesOf(s)) /\ RecordBytes(s) \in Nat
<1>1. BytesOf(s) \subseteq (1 .. Len(s)) \X (1 .. CAPACITY)
  <2>1. \A k \in DOMAIN s : k \in 1 .. Len(s) /\ s[k].size \in 0 .. CAPACITY
    BY SlotFields
  <2>2. \A k \in DOMAIN s : {k} \X (1 .. s[k].size) \subseteq (1 .. Len(s)) \X (1 .. CAPACITY)
    BY <2>1, PageAssumption
  <2> QED
    BY <2>2 DEF BytesOf
<1>2. IsFiniteSet(1 .. Len(s)) /\ IsFiniteSet(1 .. CAPACITY)
  BY FS_Interval, PageAssumption
<1>3. IsFiniteSet((1 .. Len(s)) \X (1 .. CAPACITY))
  BY <1>2, FS_Product
<1>4. IsFiniteSet(BytesOf(s))
  BY <1>1, <1>3, FS_Subset
<1> QED
  BY <1>4, FS_CardinalityType DEF RecordBytes

(* The records of the first j slots take at least the bytes of the j-th in *)
(* addition to those of any shorter prefix.                                *)
LEMMA PrefixGrows ==
    ASSUME NEW s \in Seq(Slot), NEW i \in 0 .. Len(s), NEW j \in 1 .. Len(s), i < j
    PROVE  /\ RecordBytes(SubSeq(s, 1, i)) \in Nat
           /\ RecordBytes(SubSeq(s, 1, j)) \in Nat
           /\ RecordBytes(SubSeq(s, 1, i)) + s[j].size <= RecordBytes(SubSeq(s, 1, j))
<1>1. PICK a : a = SubSeq(s, 1, i)
  OBVIOUS
<1>2. PICK b : b = SubSeq(s, 1, j)
  OBVIOUS
<1>3. a \in Seq(Slot) /\ DOMAIN a = 1 .. i /\ \A k \in 1 .. i : a[k] = s[k]
  BY <1>1, SubSeqProperties
<1>4. b \in Seq(Slot) /\ DOMAIN b = 1 .. j /\ \A k \in 1 .. j : b[k] = s[k]
  BY <1>2, SubSeqProperties
<1>5. IsFiniteSet(BytesOf(a)) /\ IsFiniteSet(BytesOf(b)) /\ RecordBytes(a) \in Nat /\ RecordBytes(b) \in Nat
  BY <1>3, <1>4, BytesFinite
<1>6. PICK last : last = {j} \X (1 .. s[j].size)
  OBVIOUS
<1>7. s[j].size \in Nat
  BY SlotFields
<1>8. IsFiniteSet(last) /\ Cardinality(last) = s[j].size
  <2>1. IsFiniteSet({j}) /\ Cardinality({j}) = 1
    BY FS_Singleton
  <2>2. IsFiniteSet(1 .. s[j].size) /\ Cardinality(1 .. s[j].size) = s[j].size
    <3>1. PICK n \in Nat : n = s[j].size
      BY <1>7
    <3>2. IsFiniteSet(1 .. n) /\ Cardinality(1 .. n) = IF 1 > n THEN 0 ELSE n - 1 + 1
      <4>1. 1 \in Int /\ n \in Int
        OBVIOUS
      <4> QED
        BY <4>1, FS_Interval, Zenon
    <3> QED
      BY <3>1, <3>2
  <2>3. IsFiniteSet(last) /\ Cardinality(last) = 1 * s[j].size
    BY <1>6, <2>1, <2>2, FS_Product
  <2> QED
    BY <2>3, <1>7
<1>9. BytesOf(a) \cap last = {}
  BY <1>3, <1>6 DEF BytesOf
<1>10. BytesOf(a) \cup last \subseteq BytesOf(b)
  <2>1. \A k \in DOMAIN a : k \in DOMAIN b /\ a[k] = b[k]
    BY <1>3, <1>4
  <2>2. BytesOf(a) \subseteq BytesOf(b)
    BY <2>1 DEF BytesOf
  <2>3. j \in DOMAIN b /\ b[j] = s[j]
    BY <1>4
  <2>4. last \subseteq BytesOf(b)
    BY <2>3, <1>6 DEF BytesOf
  <2> QED
    BY <2>2, <2>4
<1>11. Cardinality(BytesOf(a) \cup last) = RecordBytes(a) + s[j].size
  <2>1. Cardinality(BytesOf(a) \cup last)
          = Cardinality(BytesOf(a)) + Cardinality(last) - Cardinality({})
    BY <1>5, <1>8, <1>9, FS_Union
  <2>2. Cardinality({}) = 0
    BY FS_EmptySet
  <2> QED
    BY <2>1, <2>2, <1>5, <1>7, <1>8 DEF RecordBytes
<1>12. Cardinality(BytesOf(a) \cup last) <= Cardinality(BytesOf(b))
  BY <1>5, <1>10, FS_Subset
<1> QED
  BY <1>1, <1>2, <1>5, <1>11, <1>12 DEF RecordBytes

(* Records that lie in the heap and do not overlap take no more bytes than *)
(* the heap has: each byte has an offset of its own.                       *)
LEMMA RecordsFitHeap ==
    ASSUME TypeOK, HeapWellFormed
    PROVE  RecordBytes(slots) \in Nat /\ RecordBytes(slots) <= CAPACITY - heap_end
<1> DEFINE place == [b \in BytesOf(slots) |-> slots[b[1]].offset + b[2] - 1]
           heap == heap_end .. (CAPACITY - 1)
<1>1. slots \in Seq(Slot) /\ heap_end \in 0 .. CAPACITY
  BY DEF TypeOK
<1>2. \A k \in DOMAIN slots : slots[k].offset \in Nat /\ slots[k].size \in Nat
  BY <1>1, SlotFields
<1>3. \A b \in BytesOf(slots) : /\ b = <<b[1], b[2]>>
                                /\ b[1] \in DOMAIN slots /\ b[2] \in 1 .. slots[b[1]].size
  BY DEF BytesOf
<1>4. \A b \in BytesOf(slots) :
        /\ place[b] \in Span(slots[b[1]].offset, slots[b[1]].size)
        /\ place[b] \in heap
  BY <1>1, <1>2, <1>3, PageAssumption, SMTT(20) DEF Span, HeapWellFormed
<1>5. ASSUME NEW b \in BytesOf(slots), NEW c \in BytesOf(slots), place[b] = place[c]
      PROVE  b = c
  <2>1. b[1] = c[1]
    BY <1>3, <1>4, <1>5 DEF HeapWellFormed
  <2>2. b[2] = c[2]
    BY <2>1, <1>2, <1>3, <1>5
  <2> QED
    BY <2>1, <2>2, <1>3
<1>6. place \in Injection(BytesOf(slots), heap)
  BY <1>4, <1>5 DEF Injection, IsInjective
<1>7. IsFiniteSet(heap) /\ Cardinality(heap) = CAPACITY - heap_end
  <2>1. heap_end \in Int /\ CAPACITY - 1 \in Int
    BY <1>1, PageAssumption
  <2>2. /\ IsFiniteSet(heap)
        /\ Cardinality(heap) =
             IF heap_end > CAPACITY - 1 THEN 0 ELSE (CAPACITY - 1) - heap_end + 1
    BY <2>1, FS_Interval
  <2> QED
    BY <2>2, <1>1, PageAssumption
<1> QED
  BY <1>1, <1>6, <1>7, FS_Injection, BytesFinite DEF RecordBytes

-----------------------------------------------------------------------------
(* The invariant *)

PageInv == TypeOK /\ HeapWellFormed

(* One more slot. *)
LEMMA SlotBytesGrow ==
    ASSUME NEW n \in Nat
    PROVE  SlotBytes(n) \in Nat /\ SlotBytes(n + 1) = SlotBytes(n) + SLOT_SIZE
  BY PageAssumption DEF SlotBytes

(* What the invariant says of one slot. *)
LEMMA SlotPlaced ==
    ASSUME PageInv, NEW k \in DOMAIN slots
    PROVE  /\ k \in 1 .. Len(slots) /\ slots[k] \in Slot
           /\ slots[k].offset \in Nat /\ slots[k].size \in Nat
           /\ heap_end <= slots[k].offset /\ slots[k].offset + slots[k].size <= CAPACITY
  BY SlotFields DEF PageInv, TypeOK, HeapWellFormed

(* A record is a sequence of bytes. *)
LEMMA RecordLength ==
    ASSUME NEW r \in Records
    PROVE  Len(r) \in Nat /\ \A k \in 1 .. Len(r) : r[k] \in Bytes
  BY RecordAssumption

(* Copying a record changes the bytes of its span only. *)
LEMMA WrittenCells ==
    ASSUME TypeOK, NEW r \in Records, NEW offset \in Nat
    PROVE  /\ Written(offset, r) \in [0 .. (CAPACITY - 1) -> Bytes \cup {Zero}]
           /\ \A c \in 0 .. (CAPACITY - 1) :
                Written(offset, r)[c] = IF offset <= c /\ c < offset + Len(r)
                                        THEN r[c - offset + 1] ELSE cells[c]
<1>1. Len(r) \in Nat /\ \A k \in 1 .. Len(r) : r[k] \in Bytes
  BY RecordLength
<1>2. DOMAIN cells = 0 .. (CAPACITY - 1) /\ \A c \in 0 .. (CAPACITY - 1) : cells[c] \in Bytes \cup {Zero}
  BY DEF TypeOK
<1>3. \A c \in 0 .. (CAPACITY - 1) : c \in Span(offset, Len(r)) <=> offset <= c /\ c < offset + Len(r)
  BY <1>1, PageAssumption DEF Span
<1>4. \A c \in 0 .. (CAPACITY - 1) : c \in Span(offset, Len(r)) => c - offset + 1 \in 1 .. Len(r)
  BY <1>1, PageAssumption DEF Span
<1>5. Written(offset, r) = [c \in 0 .. (CAPACITY - 1) |->
         IF c \in Span(offset, Len(r)) THEN r[c - offset + 1] ELSE cells[c]]
  BY <1>2 DEF Written
<1> QED
  BY <1>1, <1>2, <1>3, <1>4, <1>5

(* Two spans that one offset separates share no byte. *)
LEMMA SpansApart ==
    ASSUME NEW a \in Nat, NEW m \in Nat, NEW b \in Nat, NEW n \in Nat,
           a + m <= b \/ b + n <= a
    PROVE  Span(a, m) \cap Span(b, n) = {}
  BY DEF Span

(* What an insertion does to the page. *)
LEMMA InsertDoes ==
    ASSUME PageInv, NEW i \in 0 .. (Len(slots) + 1), NEW r \in Records, try_insert_record(i, r)
    PROVE  /\ i \in 0 .. Len(slots) /\ Len(r) \in Nat
           /\ heap_end' \in 0 .. CAPACITY /\ heap_end' + Len(r) = heap_end
           /\ SlotBytes(Len(slots) + 1) <= heap_end'
           /\ cells' = Written(heap_end', r) /\ header' = header /\ result' = "Inserted"
           /\ slots' \in Seq(Slot) /\ Len(slots') = Len(slots) + 1
           /\ \A k \in 1 .. (Len(slots) + 1) :
                slots'[k] = IF k <= i THEN slots[k]
                            ELSE IF k = i + 1 THEN [offset |-> heap_end', size |-> Len(r)]
                            ELSE slots[k - 1]
<1>1. PICK slot : slot = [offset |-> heap_end - Len(r), size |-> Len(r)]
  OBVIOUS
<1>2. /\ i \in 0 .. Len(slots) /\ slots' = InsertAt(slots, i + 1, slot)
      /\ heap_end' = heap_end - Len(r) /\ cells' = Written(heap_end - Len(r), r)
      /\ header' = header /\ result' = "Inserted"
      /\ Len(r) + SLOT_SIZE <= heap_end - SlotBytes(Len(slots))
  <2>1. SlotBytes(Len(slots)) \in Nat /\ Len(slots) \in Nat /\ heap_end \in Nat
    BY SlotBytesGrow, PageAssumption DEF PageInv, TypeOK
  <2>2. i \in 0 .. Len(slots)
    BY <2>1 DEF try_insert_record
  <2>3. Len(r) + SLOT_SIZE <= heap_end - SlotBytes(Len(slots))
    BY <2>1, RecordLength, PageAssumption
       DEF try_insert_record, FitsNew, get_free_space_contiguous
  <2> QED
    BY <1>1, <2>2, <2>3 DEF try_insert_record, Inserted
<1>3. /\ Len(r) \in Nat /\ heap_end \in 0 .. CAPACITY /\ SLOT_SIZE \in Nat \ {0} /\ CAPACITY \in Nat
      /\ SlotBytes(Len(slots)) \in Nat /\ SlotBytes(Len(slots) + 1) = SlotBytes(Len(slots)) + SLOT_SIZE
      /\ slots \in Seq(Slot) /\ Len(slots) \in Nat
  BY RecordLength, SlotBytesGrow, PageAssumption DEF PageInv, TypeOK
<1>4. heap_end' \in 0 .. CAPACITY /\ SlotBytes(Len(slots) + 1) <= heap_end'
  BY <1>2, <1>3
<1>5. slot \in Slot /\ slot.offset = heap_end' /\ slot.size = Len(r)
      /\ heap_end' + Len(r) = heap_end
  BY <1>1, <1>2, <1>3, <1>4 DEF Slot
<1>6. /\ slots' \in Seq(Slot) /\ Len(slots') = Len(slots) + 1
      /\ \A k \in 1 .. (Len(slots) + 1) :
            slots'[k] = IF k <= i THEN slots[k] ELSE IF k = i + 1 THEN slot ELSE slots[k - 1]
  <2>1. slots \in Seq(Slot) /\ i \in 0 .. Len(slots) /\ slot \in Slot
    BY <1>2, <1>3, <1>5
  <2>2. /\ InsertAt(slots, i + 1, slot) \in Seq(Slot)
        /\ Len(InsertAt(slots, i + 1, slot)) = Len(slots) + 1
    BY <2>1, InsertAtType
  <2>3. InsertAt(slots, i + 1, slot) = [k \in 1 .. (Len(slots) + 1) |->
             IF k <= i THEN slots[k] ELSE IF k = i + 1 THEN slot ELSE slots[k - 1]]
    BY <2>1, InsertAtFunction
  <2> QED
    BY <2>2, <2>3, <1>2
<1> QED
  <2>1. slot = [offset |-> heap_end', size |-> Len(r)]
    BY <1>1, <1>2
  <2> QED
    BY <2>1, <1>2, <1>3, <1>4, <1>5, <1>6

(* An insertion keeps the heap well-formed. *)
LEMMA InsertStep ==
    ASSUME PageInv, NEW i \in 0 .. (Len(slots) + 1), NEW r \in Records, try_insert_record(i, r)
    PROVE  PageInv'
<1>1. PICK slot : slot = [offset |-> heap_end', size |-> Len(r)]
  OBVIOUS
<1>2. /\ i \in 0 .. Len(slots)
      /\ cells' = Written(heap_end', r) /\ header' = header /\ result' = "Inserted"
  BY InsertDoes
<1>3. /\ Len(r) \in Nat /\ heap_end \in 0 .. CAPACITY /\ CAPACITY \in Nat
      /\ slots \in Seq(Slot) /\ Len(slots) \in Nat
  BY RecordLength, PageAssumption DEF PageInv, TypeOK
<1>4. heap_end' \in 0 .. CAPACITY /\ SlotBytes(Len(slots) + 1) <= heap_end'
  BY InsertDoes
<1>5. slot.offset = heap_end' /\ slot.size = Len(r) /\ heap_end' + Len(r) = heap_end
  BY <1>1, InsertDoes
<1>6. /\ slots' \in Seq(Slot) /\ Len(slots') = Len(slots) + 1
      /\ \A k \in 1 .. (Len(slots) + 1) :
            slots'[k] = IF k <= i THEN slots[k] ELSE IF k = i + 1 THEN slot ELSE slots[k - 1]
  BY <1>1, InsertDoes
<1>7. DOMAIN slots' = 1 .. (Len(slots) + 1)
  BY <1>6
<1>8. ASSUME NEW k \in DOMAIN slots', k # i + 1
      PROVE  \E j \in DOMAIN slots :
                /\ j = (IF k <= i THEN k ELSE k - 1) /\ slots'[k] = slots[j]
                /\ heap_end <= slots[j].offset
                /\ slots[j].offset \in Nat /\ slots[j].size \in Nat
                /\ slots[j].offset + slots[j].size <= CAPACITY
  <2>1. PICK j : j = IF k <= i THEN k ELSE k - 1
    OBVIOUS
  <2>2. k \in 1 .. (Len(slots) + 1)
    BY <1>7
  <2>3. j \in 1 .. Len(slots)
    BY <1>2, <1>3, <1>8, <2>1, <2>2
  <2>4. slots'[k] = slots[j]
    BY <1>6, <1>8, <2>1, <2>2
  <2>5. j \in DOMAIN slots
    BY <2>3, <1>3
  <2> QED
    BY <2>1, <2>4, <2>5, SlotPlaced
<1>9. i + 1 \in DOMAIN slots' /\ slots'[i + 1] = slot
  <2>1. i + 1 \in 1 .. (Len(slots) + 1) /\ ~(i + 1 <= i)
    BY <1>2, <1>3
  <2> QED
    BY <2>1, <1>6, <1>7
<1>10. TypeOK'
  <2>1. cells' \in [0 .. (CAPACITY - 1) -> Bytes \cup {Zero}]
    BY <1>2, <1>3, <1>4, WrittenCells DEF PageInv
  <2> QED
    BY <2>1, <1>2, <1>4, <1>6 DEF PageInv, TypeOK
<1>11. ASSUME NEW k \in DOMAIN slots'
       PROVE  heap_end' <= slots'[k].offset /\ slots'[k].offset + slots'[k].size <= CAPACITY
  <2>1. CASE k = i + 1
    BY <2>1, <1>3, <1>4, <1>5, <1>9
  <2>2. CASE k # i + 1
    BY <2>2, <1>3, <1>4, <1>5, <1>8
  <2> QED
    BY <2>1, <2>2
<1>12. ASSUME NEW j \in DOMAIN slots', NEW k \in DOMAIN slots', j # k
       PROVE  Span(slots'[j].offset, slots'[j].size)
                \cap Span(slots'[k].offset, slots'[k].size) = {}
  <2>1. CASE j # i + 1 /\ k # i + 1
    <3>1. PICK l \in DOMAIN slots : l = (IF j <= i THEN j ELSE j - 1) /\ slots'[j] = slots[l]
      BY <2>1, <1>8
    <3>2. PICK m \in DOMAIN slots : m = (IF k <= i THEN k ELSE k - 1) /\ slots'[k] = slots[m]
      BY <2>1, <1>8
    <3>3. l # m
      BY <3>1, <3>2, <2>1, <1>2, <1>7, <1>12
    <3> QED
      BY <3>1, <3>2, <3>3 DEF PageInv, HeapWellFormed
  <2>2. CASE j = i + 1
    <3>1. PICK m \in DOMAIN slots : /\ slots'[k] = slots[m] /\ heap_end <= slots[m].offset
                                    /\ slots[m].offset \in Nat /\ slots[m].size \in Nat
      BY <2>2, <1>8, <1>12
    <3>2. slots'[j].offset \in Nat /\ slots'[j].size \in Nat
          /\ slots'[j].offset + slots'[j].size = heap_end
      BY <2>2, <1>3, <1>4, <1>5, <1>9
    <3> QED
      BY <3>1, <3>2, SpansApart
  <2>3. CASE k = i + 1
    <3>1. PICK m \in DOMAIN slots : /\ slots'[j] = slots[m] /\ heap_end <= slots[m].offset
                                    /\ slots[m].offset \in Nat /\ slots[m].size \in Nat
      BY <2>3, <1>8, <1>12
    <3>2. slots'[k].offset \in Nat /\ slots'[k].size \in Nat
          /\ slots'[k].offset + slots'[k].size = heap_end
      BY <2>3, <1>3, <1>4, <1>5, <1>9
    <3> QED
      BY <3>1, <3>2, SpansApart
  <2> QED
    BY <2>1, <2>2, <2>3
<1>13. SlotBytes(Len(slots')) <= heap_end'
  BY <1>4, <1>6
<1>14. HeapWellFormed'
  BY <1>11, <1>12, <1>13 DEF HeapWellFormed, SlotBytes
<1> QED
  BY <1>10, <1>14 DEF PageInv

(* A record that is replaced in its slot keeps its offset and shrinks. *)
LEMMA UpdateInPlaceDoes ==
    ASSUME PageInv, NEW i \in 0 .. (Len(slots) + 1), NEW r \in Records, UpdateInPlace(i, r)
    PROVE  /\ i + 1 \in DOMAIN slots /\ Len(r) \in Nat /\ Len(r) <= slots[i + 1].size
           /\ heap_end' = heap_end /\ cells' = Written(slots[i + 1].offset, r)
           /\ header' = header /\ result' = "Updated"
           /\ slots' \in Seq(Slot) /\ Len(slots') = Len(slots) /\ DOMAIN slots' = DOMAIN slots
           /\ \A k \in DOMAIN slots : k # i + 1 => slots'[k] = slots[k]
           /\ slots'[i + 1].offset = slots[i + 1].offset /\ slots'[i + 1].size = Len(r)
<1>1. /\ Len(r) \in Nat /\ heap_end \in 0 .. CAPACITY /\ CAPACITY \in Nat
      /\ slots \in Seq(Slot) /\ Len(slots) \in Nat
  BY RecordLength, PageAssumption DEF PageInv, TypeOK
<1>2. i + 1 \in DOMAIN slots
  BY <1>1 DEF UpdateInPlace
<1>3. PICK slot : slot = [slots[i + 1] EXCEPT !.size = Len(r)]
  OBVIOUS
<1>4. /\ slots[i + 1] \in Slot /\ slots[i + 1].offset \in Nat /\ slots[i + 1].size \in Nat
      /\ heap_end <= slots[i + 1].offset
      /\ slots[i + 1].offset + slots[i + 1].size <= CAPACITY
      /\ Len(r) <= slots[i + 1].size
  BY <1>2, SlotPlaced DEF UpdateInPlace, InPlace
<1>5. /\ slots' = [slots EXCEPT ![i + 1] = slot]
      /\ cells' = Written(slots[i + 1].offset, r)
      /\ heap_end' = heap_end /\ header' = header /\ result' = "Updated"
  BY <1>2, <1>3 DEF UpdateInPlace
<1>6. slot.offset = slots[i + 1].offset /\ slot.size = Len(r) /\ slot \in Slot
  <2>1. Len(r) \in 0 .. CAPACITY
    BY <1>1, <1>4
  <2>2. \A old \in Slot, n \in 0 .. CAPACITY :
          LET new == [old EXCEPT !.size = n]
          IN  new \in Slot /\ new.offset = old.offset /\ new.size = n
    BY DEF Slot
  <2> QED
    BY <2>1, <2>2, <1>3, <1>4
<1>7. /\ slots' \in Seq(Slot) /\ Len(slots') = Len(slots) /\ DOMAIN slots' = DOMAIN slots
      /\ \A k \in DOMAIN slots : slots'[k] = IF k = i + 1 THEN slot ELSE slots[k]
  BY <1>1, <1>2, <1>5, <1>6, ExceptSeq
<1> QED
  BY <1>1, <1>2, <1>4, <1>5, <1>6, <1>7

(* So does an update in place, which may leave a hole, *)
LEMMA UpdateInPlaceStep ==
    ASSUME PageInv, NEW i \in 0 .. (Len(slots) + 1), NEW r \in Records, UpdateInPlace(i, r)
    PROVE  PageInv'
<1>1. heap_end \in 0 .. CAPACITY /\ CAPACITY \in Nat
  BY PageAssumption DEF PageInv, TypeOK
<1>2. /\ i + 1 \in DOMAIN slots /\ Len(r) \in Nat /\ Len(r) <= slots[i + 1].size
      /\ heap_end' = heap_end /\ cells' = Written(slots[i + 1].offset, r)
      /\ header' = header /\ result' = "Updated"
      /\ slots' \in Seq(Slot) /\ Len(slots') = Len(slots) /\ DOMAIN slots' = DOMAIN slots
      /\ \A k \in DOMAIN slots : k # i + 1 => slots'[k] = slots[k]
      /\ slots'[i + 1].offset = slots[i + 1].offset /\ slots'[i + 1].size = Len(r)
  BY UpdateInPlaceDoes
<1>3. TypeOK'
  <2>1. slots[i + 1].offset \in Nat
    BY <1>2, SlotPlaced
  <2>2. cells' \in [0 .. (CAPACITY - 1) -> Bytes \cup {Zero}]
    BY <2>1, <1>2, WrittenCells DEF PageInv
  <2> QED
    BY <2>2, <1>2 DEF PageInv, TypeOK
<1>4. ASSUME NEW k \in DOMAIN slots
      PROVE  /\ slots[k].offset \in Nat /\ slots[k].size \in Nat
             /\ slots'[k].offset = slots[k].offset
             /\ slots'[k].size \in Nat /\ slots'[k].size <= slots[k].size
  <2>1. slots[k].offset \in Nat /\ slots[k].size \in Nat
    BY SlotPlaced
  <2>2. CASE k = i + 1
    BY <2>1, <2>2, <1>2
  <2>3. CASE k # i + 1
    BY <2>1, <2>3, <1>2
  <2> QED
    BY <2>2, <2>3
<1>5. ASSUME NEW k \in DOMAIN slots
      PROVE  heap_end <= slots'[k].offset /\ slots'[k].offset + slots'[k].size <= CAPACITY
  <2>1. heap_end <= slots[k].offset /\ slots[k].offset + slots[k].size <= CAPACITY
    BY SlotPlaced
  <2> QED
    BY <2>1, <1>1, <1>4
<1>6. ASSUME NEW j \in DOMAIN slots, NEW k \in DOMAIN slots, j # k
      PROVE  Span(slots'[j].offset, slots'[j].size)
               \cap Span(slots'[k].offset, slots'[k].size) = {}
  <2>1. \A l \in DOMAIN slots : Span(slots'[l].offset, slots'[l].size)
                                  \subseteq Span(slots[l].offset, slots[l].size)
    BY <1>4 DEF Span
  <2>2. Span(slots[j].offset, slots[j].size) \cap Span(slots[k].offset, slots[k].size) = {}
    BY <1>6 DEF PageInv, HeapWellFormed
  <2> QED
    BY <2>1, <2>2
<1>7. SlotBytes(Len(slots')) <= heap_end'
  BY <1>2 DEF PageInv, HeapWellFormed
<1>8. HeapWellFormed'
  BY <1>2, <1>5, <1>6, <1>7 DEF HeapWellFormed, SlotBytes
<1> QED
  BY <1>3, <1>8 DEF PageInv

(* A record that moves goes below all others. *)
LEMMA UpdateRelocatedDoes ==
    ASSUME PageInv, NEW i \in 0 .. (Len(slots) + 1), NEW r \in Records, UpdateRelocated(i, r)
    PROVE  /\ i + 1 \in DOMAIN slots /\ Len(r) \in Nat
           /\ heap_end' \in 0 .. CAPACITY /\ heap_end' + Len(r) = heap_end
           /\ SlotBytes(Len(slots)) <= heap_end'
           /\ cells' = Written(heap_end', r) /\ header' = header /\ result' = "Updated"
           /\ slots' \in Seq(Slot) /\ Len(slots') = Len(slots) /\ DOMAIN slots' = DOMAIN slots
           /\ \A k \in DOMAIN slots : k # i + 1 => slots'[k] = slots[k]
           /\ slots'[i + 1].offset = heap_end' /\ slots'[i + 1].size = Len(r)
<1>1. /\ Len(r) \in Nat /\ heap_end \in 0 .. CAPACITY /\ CAPACITY \in Nat
      /\ slots \in Seq(Slot) /\ Len(slots) \in Nat /\ SlotBytes(Len(slots)) \in Nat
  BY RecordLength, SlotBytesGrow, PageAssumption DEF PageInv, TypeOK
<1>2. i + 1 \in DOMAIN slots
  BY <1>1 DEF UpdateRelocated
<1>3. PICK slot : slot = [offset |-> heap_end - Len(r), size |-> Len(r)]
  OBVIOUS
<1>4. /\ slots' = [slots EXCEPT ![i + 1] = slot]
      /\ cells' = Written(heap_end - Len(r), r)
      /\ heap_end' = heap_end - Len(r) /\ header' = header /\ result' = "Updated"
  BY <1>3 DEF UpdateRelocated
<1>5. heap_end' \in 0 .. CAPACITY /\ SlotBytes(Len(slots)) <= heap_end'
  BY <1>1, <1>4 DEF UpdateRelocated, get_free_space_contiguous
<1>6. /\ slot.offset = heap_end' /\ slot.size = Len(r) /\ slot \in Slot
      /\ heap_end' + Len(r) = heap_end
  BY <1>1, <1>3, <1>4, <1>5 DEF Slot
<1>7. /\ slots' \in Seq(Slot) /\ Len(slots') = Len(slots) /\ DOMAIN slots' = DOMAIN slots
      /\ \A k \in DOMAIN slots : slots'[k] = IF k = i + 1 THEN slot ELSE slots[k]
  BY <1>1, <1>2, <1>4, <1>6, ExceptSeq
<1> QED
  BY <1>1, <1>2, <1>4, <1>5, <1>6, <1>7

(* an update that moves the record to the end of the heap, *)
LEMMA UpdateRelocatedStep ==
    ASSUME PageInv, NEW i \in 0 .. (Len(slots) + 1), NEW r \in Records, UpdateRelocated(i, r)
    PROVE  PageInv'
<1>1. heap_end \in 0 .. CAPACITY /\ CAPACITY \in Nat
  BY PageAssumption DEF PageInv, TypeOK
<1>2. /\ i + 1 \in DOMAIN slots /\ Len(r) \in Nat
      /\ heap_end' \in 0 .. CAPACITY /\ heap_end' + Len(r) = heap_end
      /\ SlotBytes(Len(slots)) <= heap_end'
      /\ cells' = Written(heap_end', r) /\ header' = header /\ result' = "Updated"
      /\ slots' \in Seq(Slot) /\ Len(slots') = Len(slots) /\ DOMAIN slots' = DOMAIN slots
      /\ \A k \in DOMAIN slots : k # i + 1 => slots'[k] = slots[k]
      /\ slots'[i + 1].offset = heap_end' /\ slots'[i + 1].size = Len(r)
  BY UpdateRelocatedDoes
<1>3. TypeOK'
  <2>1. heap_end' \in Nat
    BY <1>1, <1>2
  <2>2. cells' \in [0 .. (CAPACITY - 1) -> Bytes \cup {Zero}]
    BY <2>1, <1>2, WrittenCells DEF PageInv
  <2> QED
    BY <2>2, <1>2 DEF PageInv, TypeOK
<1>4. ASSUME NEW k \in DOMAIN slots, k # i + 1
      PROVE  /\ slots'[k] = slots[k]
             /\ slots[k].offset \in Nat /\ slots[k].size \in Nat
             /\ heap_end <= slots[k].offset /\ slots[k].offset + slots[k].size <= CAPACITY
  BY <1>2, <1>4, SlotPlaced
<1>5. ASSUME NEW k \in DOMAIN slots
      PROVE  heap_end' <= slots'[k].offset /\ slots'[k].offset + slots'[k].size <= CAPACITY
  <2>1. CASE k = i + 1
    BY <2>1, <1>1, <1>2
  <2>2. CASE k # i + 1
    BY <2>2, <1>1, <1>2, <1>4
  <2> QED
    BY <2>1, <2>2
<1>6. ASSUME NEW j \in DOMAIN slots, NEW k \in DOMAIN slots, j # k
      PROVE  Span(slots'[j].offset, slots'[j].size)
               \cap Span(slots'[k].offset, slots'[k].size) = {}
  <2>1. slots'[i + 1].offset \in Nat /\ slots'[i + 1].size \in Nat
        /\ slots'[i + 1].offset + slots'[i + 1].size = heap_end
    BY <1>1, <1>2
  <2>2. CASE j # i + 1 /\ k # i + 1
    BY <2>2, <1>4, <1>6 DEF PageInv, HeapWellFormed
  <2>3. CASE j = i + 1
    <3>1. slots'[k].offset \in Nat /\ slots'[k].size \in Nat /\ heap_end <= slots'[k].offset
      BY <2>3, <1>4, <1>6
    <3> QED
      BY <2>1, <2>3, <3>1, SpansApart
  <2>4. CASE k = i + 1
    <3>1. slots'[j].offset \in Nat /\ slots'[j].size \in Nat /\ heap_end <= slots'[j].offset
      BY <2>4, <1>4, <1>6
    <3> QED
      BY <2>1, <2>4, <3>1, SpansApart
  <2> QED
    BY <2>2, <2>3, <2>4
<1>7. SlotBytes(Len(slots')) <= heap_end'
  BY <1>2
<1>8. HeapWellFormed'
  BY <1>2, <1>5, <1>6, <1>7 DEF HeapWellFormed, SlotBytes
<1> QED
  BY <1>3, <1>8 DEF PageInv

(* What deleting a record that exists does to the page. *)
LEMMA DeleteDoes ==
    ASSUME PageInv, NEW i \in 0 .. Len(slots), i < Len(slots), delete_record(i)
    PROVE  /\ i \in 0 .. (Len(slots) - 1) /\ result' = "Deleted"
           /\ slots' \in Seq(Slot) /\ Len(slots') = Len(slots) - 1
           /\ \A k \in 1 .. (Len(slots) - 1) :
                slots'[k] = IF k <= i THEN slots[k] ELSE slots[k + 1]
<1>1. PICK old \in Seq(Slot) : old = slots
  BY DEF PageInv, TypeOK
<1>2. i \in 0 .. (Len(old) - 1)
  BY <1>1
<1>3. RemoveAt(old, i + 1) \in Seq(Slot) /\ Len(RemoveAt(old, i + 1)) = Len(old) - 1
  BY <1>2, RemoveAtType
<1>4. RemoveAt(old, i + 1) =
          [k \in 1 .. (Len(old) - 1) |-> IF k <= i THEN old[k] ELSE old[k + 1]]
  BY <1>2, RemoveAtFunction
<1>5. slots' = RemoveAt(old, i + 1) /\ result' = "Deleted"
  BY <1>1 DEF delete_record
<1> QED
  BY <1>1, <1>2, <1>3, <1>4, <1>5

(* a deletion, *)
LEMMA DeleteStep ==
    ASSUME PageInv, NEW i \in 0 .. Len(slots), delete_record(i)
    PROVE  PageInv'
<1>1. slots \in Seq(Slot) /\ Len(slots) \in Nat
  BY DEF PageInv, TypeOK
<1>2. heap_end' = heap_end /\ cells' = cells /\ header' = header /\ result' \in {"Deleted", "Ok"}
  BY DEF delete_record
<1>3. CASE ~(i < Len(slots))
  <2>1. slots' = slots
    BY <1>3 DEF delete_record
  <2> QED
    BY <2>1, <1>2 DEF PageInv, TypeOK, HeapWellFormed, SlotBytes
<1>4. CASE i < Len(slots)
  <2>1. i \in 0 .. (Len(slots) - 1)
    BY <1>4, DeleteDoes
  <2>2. slots' \in Seq(Slot) /\ Len(slots') = Len(slots) - 1
    BY <1>4, DeleteDoes
  <2>3. \A k \in 1 .. (Len(slots) - 1) :
          slots'[k] = IF k <= i THEN slots[k] ELSE slots[k + 1]
    BY <1>4, DeleteDoes
  <2>4. DOMAIN slots' = 1 .. (Len(slots) - 1)
    BY <2>2, <2>3
  <2>5. ASSUME NEW k \in DOMAIN slots'
        PROVE  \E j \in DOMAIN slots :
                  j = (IF k <= i THEN k ELSE k + 1) /\ slots'[k] = slots[j]
    <3>1. k \in 1 .. (Len(slots) - 1)
      BY <2>4
    <3>2. PICK j : j = IF k <= i THEN k ELSE k + 1
      OBVIOUS
    <3>3. j \in 1 .. Len(slots)
      BY <3>1, <3>2, <1>1, <2>1
    <3>4. slots'[k] = slots[j]
      BY <3>1, <3>2, <2>2, <2>3
    <3> QED
      BY <3>2, <3>3, <3>4, <1>1
  <2>6. TypeOK'
    BY <1>2, <2>2, <2>3 DEF PageInv, TypeOK
  <2>7. ASSUME NEW k \in DOMAIN slots'
        PROVE  heap_end <= slots'[k].offset /\ slots'[k].offset + slots'[k].size <= CAPACITY
    BY <2>5, SlotPlaced
  <2>8. ASSUME NEW j \in DOMAIN slots', NEW k \in DOMAIN slots', j # k
        PROVE  Span(slots'[j].offset, slots'[j].size)
                 \cap Span(slots'[k].offset, slots'[k].size) = {}
    <3>1. PICK l \in DOMAIN slots : l = (IF j <= i THEN j ELSE j + 1) /\ slots'[j] = slots[l]
      BY <2>5
    <3>2. PICK m \in DOMAIN slots : m = (IF k <= i THEN k ELSE k + 1) /\ slots'[k] = slots[m]
      BY <2>5
    <3>3. l # m
      BY <3>1, <3>2, <2>1, <2>4, <2>8
    <3> QED
      BY <3>1, <3>2, <3>3 DEF PageInv, HeapWellFormed
  <2>9. SlotBytes(Len(slots')) <= heap_end
    <3>1. PICK n \in Nat : Len(slots) = n + 1
      BY <1>1, <2>1
    <3>2. Len(slots') = n
      BY <3>1, <2>2, <2>3
    <3>3. SlotBytes(n) \in Nat /\ SlotBytes(n + 1) = SlotBytes(n) + SLOT_SIZE
      BY SlotBytesGrow
    <3>4. SlotBytes(n + 1) <= heap_end
      BY <3>1 DEF PageInv, HeapWellFormed
    <3> QED
      BY <3>2, <3>3, <3>4, PageAssumption DEF PageInv, TypeOK
  <2>10. HeapWellFormed'
    BY <1>2, <2>7, <2>8, <2>9 DEF HeapWellFormed, SlotBytes
  <2> QED
    BY <2>6, <2>10 DEF PageInv
<1> QED
  BY <1>3, <1>4

-----------------------------------------------------------------------------
(* Compaction *)

(* The records are put one below the other, and all above the old heap. *)
LEMMA CompactedPlaces ==
    ASSUME PageInv
    PROVE  /\ CompactedEnd \in heap_end .. CAPACITY
           /\ RecordBytes(slots) \in Nat /\ CompactedEnd = CAPACITY - RecordBytes(slots)
           /\ \A k \in DOMAIN slots :
                /\ CompactedOffset(k - 1) \in CompactedEnd .. CAPACITY
                /\ CompactedOffset(k - 1) + slots[k].size <= CAPACITY
           /\ \A j, k \in DOMAIN slots :
                j < k => CompactedOffset(k - 1) + slots[k].size <= CompactedOffset(j - 1)
<1>1. /\ slots \in Seq(Slot) /\ Len(slots) \in Nat /\ DOMAIN slots = 1 .. Len(slots)
      /\ heap_end \in 0 .. CAPACITY /\ CAPACITY \in Nat
  BY PageAssumption DEF PageInv, TypeOK
<1>2. RecordBytes(slots) \in Nat /\ RecordBytes(slots) <= CAPACITY - heap_end
  BY RecordsFitHeap DEF PageInv
<1>3. CompactedEnd = CAPACITY - RecordBytes(slots)
  BY DEF CompactedEnd
<1>4. ASSUME NEW k \in DOMAIN slots
      PROVE  CompactedOffset(k - 1) = CAPACITY - RecordBytes(SubSeq(slots, 1, k))
  <2>1. (k - 1) + 1 = k
    BY <1>1
  <2> QED
    BY <2>1 DEF CompactedOffset
<1>5. ASSUME NEW k \in DOMAIN slots
      PROVE  /\ RecordBytes(SubSeq(slots, 1, k)) \in Nat /\ slots[k].size \in Nat
             /\ slots[k].size <= RecordBytes(SubSeq(slots, 1, k))
             /\ RecordBytes(SubSeq(slots, 1, k)) <= RecordBytes(slots)
  <2>1. 0 \in 0 .. Len(slots) /\ k \in 1 .. Len(slots) /\ 0 < k
    BY <1>1
  <2>2. slots[k].size \in Nat
    BY SlotPlaced
  <2>3. /\ RecordBytes(SubSeq(slots, 1, 0)) \in Nat /\ RecordBytes(SubSeq(slots, 1, k)) \in Nat
        /\ RecordBytes(SubSeq(slots, 1, 0)) + slots[k].size <= RecordBytes(SubSeq(slots, 1, k))
    BY <1>1, <2>1, PrefixGrows
  <2>4. RecordBytes(SubSeq(slots, 1, k)) <= RecordBytes(slots)
    <3>1. PICK n : n = Len(slots)
      OBVIOUS
    <3>2. SubSeq(slots, 1, n) = slots
      BY <3>1, <1>1, SubSeqFull, Zenon
    <3>3. CASE k = n
      <4>1. SubSeq(slots, 1, k) = slots
        BY <3>2, <3>3, Zenon
      <4>2. RecordBytes(SubSeq(slots, 1, k)) = RecordBytes(slots)
        BY <4>1, Zenon
      <4> QED
        BY <4>2, <1>2
    <3>4. CASE k # n
      <4>1. n \in 1 .. Len(slots) /\ k < n /\ k \in 0 .. Len(slots)
        BY <3>1, <3>4, <2>1, <1>1
      <4>2. RecordBytes(SubSeq(slots, 1, k)) + slots[n].size <= RecordBytes(SubSeq(slots, 1, n))
        BY <4>1, <1>1, PrefixGrows
      <4>3. RecordBytes(SubSeq(slots, 1, n)) = RecordBytes(slots)
        BY <3>2, Zenon
      <4>4. slots[n].size \in Nat
        BY <4>1, <1>1, SlotPlaced
      <4> QED
        BY <4>2, <4>3, <4>4, <2>3, <1>2
    <3> QED
      BY <3>3, <3>4
  <2> QED
    BY <2>2, <2>3, <2>4
<1>6. ASSUME NEW j \in DOMAIN slots, NEW k \in DOMAIN slots, j < k
      PROVE  CompactedOffset(k - 1) + slots[k].size <= CompactedOffset(j - 1)
  <2>1. RecordBytes(SubSeq(slots, 1, j)) + slots[k].size <= RecordBytes(SubSeq(slots, 1, k))
    BY <1>1, <1>6, PrefixGrows
  <2> QED
    BY <2>1, <1>1, <1>4, <1>5
<1> QED
  BY <1>1, <1>2, <1>3, <1>4, <1>5, <1>6

(* The slots after compaction. *)
LEMMA CompactedSlots ==
    ASSUME PageInv, compact
    PROVE  /\ slots' \in Seq(Slot) /\ Len(slots') = Len(slots) /\ DOMAIN slots' = DOMAIN slots
           /\ \A k \in DOMAIN slots : /\ slots'[k].offset = CompactedOffset(k - 1)
                                      /\ slots'[k].size = slots[k].size
           /\ heap_end' = CompactedEnd /\ header' = header /\ result' = "Ok"
<1>1. slots \in Seq(Slot) /\ Len(slots) \in Nat /\ DOMAIN slots = 1 .. Len(slots) /\ CAPACITY \in Nat
      /\ heap_end \in 0 .. CAPACITY
  BY PageAssumption DEF PageInv, TypeOK
<1>2. \A k \in DOMAIN slots : /\ CompactedOffset(k - 1) \in 0 .. CAPACITY
                              /\ slots[k].size \in 0 .. CAPACITY
  <2>1. \A k \in DOMAIN slots : slots[k].size \in 0 .. CAPACITY
    BY <1>1, SlotFields
  <2>2. CompactedEnd \in heap_end .. CAPACITY
    BY CompactedPlaces
  <2>3. \A k \in DOMAIN slots : CompactedOffset(k - 1) \in CompactedEnd .. CAPACITY
    BY CompactedPlaces
  <2> QED
    BY <1>1, <2>1, <2>2, <2>3
<1>3. \A k \in DOMAIN slots : [offset |-> CompactedOffset(k - 1), size |-> slots[k].size] \in Slot
  BY <1>2 DEF Slot
<1>4. slots' = [k \in 1 .. Len(slots) |->
                  [offset |-> CompactedOffset(k - 1), size |-> slots[k].size]]
  BY <1>1 DEF compact
<1>5. slots' \in Seq(Slot) /\ Len(slots') = Len(slots) /\ DOMAIN slots' = 1 .. Len(slots)
  BY <1>1, <1>3, <1>4
<1> QED
  BY <1>1, <1>4, <1>5 DEF compact

(* Every byte of a record moves with it, and every other byte is kept or   *)
(* zeroed.                                                                 *)
LEMMA CompactedCells ==
    ASSUME PageInv, compact
    PROVE  /\ cells' \in [0 .. (CAPACITY - 1) -> Bytes \cup {Zero}]
           /\ \A k \in DOMAIN slots : \A b \in 0 .. (slots[k].size - 1) :
                cells'[CompactedOffset(k - 1) + b] = cells[slots[k].offset + b]
<1> DEFINE Home(k) == Span(CompactedOffset(k - 1), slots[k].size)
           Free == Span(SlotBytes(Len(slots)), get_free_space)
           Owner(c) == CHOOSE k \in DOMAIN slots : c \in Home(k)
<1>1. /\ DOMAIN cells = 0 .. (CAPACITY - 1) /\ cells \in [0 .. (CAPACITY - 1) -> Bytes \cup {Zero}]
      /\ CAPACITY \in Nat /\ heap_end \in 0 .. CAPACITY /\ Len(slots) \in Nat
      /\ DOMAIN slots = 1 .. Len(slots)
  BY PageAssumption DEF PageInv, TypeOK
<1>2. /\ CompactedEnd \in heap_end .. CAPACITY
      /\ RecordBytes(slots) \in Nat /\ CompactedEnd = CAPACITY - RecordBytes(slots)
  BY CompactedPlaces
<1>3. \A k \in DOMAIN slots :
        /\ CompactedOffset(k - 1) \in Nat /\ slots[k].size \in Nat /\ slots[k].offset \in Nat
        /\ CompactedEnd <= CompactedOffset(k - 1)
        /\ CompactedOffset(k - 1) + slots[k].size <= CAPACITY
        /\ slots[k].offset + slots[k].size <= CAPACITY
  <2>1. \A k \in DOMAIN slots : /\ CompactedOffset(k - 1) \in CompactedEnd .. CAPACITY
                                /\ CompactedOffset(k - 1) + slots[k].size <= CAPACITY
    BY CompactedPlaces
  <2>2. \A k \in DOMAIN slots : /\ slots[k].size \in Nat /\ slots[k].offset \in Nat
                                /\ slots[k].offset + slots[k].size <= CAPACITY
    BY SlotPlaced
  <2> QED
    BY <1>1, <1>2, <2>1, <2>2
<1>4. \A j, k \in DOMAIN slots : j < k =>
        CompactedOffset(k - 1) + slots[k].size <= CompactedOffset(j - 1)
  BY CompactedPlaces
<1>5. \A c \in Free : c < CompactedEnd
  <2>1. SlotBytes(Len(slots)) \in Nat
    BY <1>1, SlotBytesGrow
  <2>2. SlotBytes(Len(slots)) + get_free_space - 1 = CompactedEnd - 1
    BY <2>1, <1>1, <1>2 DEF get_free_space, get_free_space_contiguous
  <2>3. Free = SlotBytes(Len(slots)) .. (CompactedEnd - 1)
    BY <2>2 DEF Span
  <2> QED
    BY <2>1, <2>3, <1>1, <1>2
<1>6. ASSUME NEW k \in DOMAIN slots, NEW c \in Home(k)
      PROVE  c \in 0 .. (CAPACITY - 1) /\ c \notin Free /\ Owner(c) = k
  <2>1. c \in Int /\ CompactedOffset(k - 1) <= c /\ c < CompactedOffset(k - 1) + slots[k].size
    BY <1>3, <1>6 DEF Span
  <2>2. c \in 0 .. (CAPACITY - 1) /\ ~(c < CompactedEnd)
    BY <2>1, <1>1, <1>2, <1>3
  <2>3. ASSUME NEW j \in DOMAIN slots, c \in Home(j) PROVE j = k
    <3>1. c \in Int /\ CompactedOffset(j - 1) <= c /\ c < CompactedOffset(j - 1) + slots[j].size
      BY <1>3, <2>3 DEF Span
    <3>2. j \in Int /\ k \in Int
      BY <1>1
    <3>3. ~(j < k)
      BY <3>1, <2>1, <1>3, <1>4
    <3>4. ~(k < j)
      BY <3>1, <2>1, <1>3, <1>4
    <3> QED
      BY <3>2, <3>3, <3>4
  <2>4. Owner(c) = k
    BY <2>3, <1>6
  <2> QED
    BY <2>2, <2>4, <1>5
<1>7. ASSUME NEW c \in 0 .. (CAPACITY - 1)
      PROVE  cells'[c] = IF c \in Free THEN Zero
                         ELSE IF \E k \in DOMAIN slots : c \in Home(k)
                         THEN cells[slots[Owner(c)].offset + c - CompactedOffset(Owner(c) - 1)]
                         ELSE cells[c]
  BY <1>1, Zenon DEF compact
<1>8. DOMAIN cells' = 0 .. (CAPACITY - 1) /\ cells' = [c \in 0 .. (CAPACITY - 1) |-> cells'[c]]
  BY <1>1 DEF compact
<1> HIDE DEF Free, Owner
<1>9. ASSUME NEW k \in DOMAIN slots, NEW c \in Home(k)
      PROVE  /\ cells'[c] = cells[slots[k].offset + c - CompactedOffset(k - 1)]
             /\ slots[k].offset + c - CompactedOffset(k - 1) \in 0 .. (CAPACITY - 1)
  <2>1. c \in 0 .. (CAPACITY - 1) /\ c \notin Free /\ Owner(c) = k
    BY <1>6
  <2>2. cells'[c] = cells[slots[k].offset + c - CompactedOffset(k - 1)]
    BY <2>1, <1>7, Zenon
  <2>3. c \in Int /\ CompactedOffset(k - 1) <= c /\ c < CompactedOffset(k - 1) + slots[k].size
    BY <1>3 DEF Span
  <2> QED
    BY <2>2, <2>3, <1>1, <1>3
<1>10. \A c \in 0 .. (CAPACITY - 1) : cells'[c] \in Bytes \cup {Zero}
  <2> SUFFICES ASSUME NEW c \in 0 .. (CAPACITY - 1) PROVE cells'[c] \in Bytes \cup {Zero}
    OBVIOUS
  <2>1. CASE \E k \in DOMAIN slots : c \in Home(k)
    BY <2>1, <1>1, <1>9
  <2>2. CASE ~\E k \in DOMAIN slots : c \in Home(k)
    <3>1. cells'[c] = Zero \/ cells'[c] = cells[c]
      BY <2>2, <1>7, Zenon
    <3> QED
      BY <3>1, <1>1
  <2> QED
    BY <2>1, <2>2
<1>11. ASSUME NEW k \in DOMAIN slots, NEW b \in 0 .. (slots[k].size - 1)
       PROVE  cells'[CompactedOffset(k - 1) + b] = cells[slots[k].offset + b]
  <2>1. PICK c : c = CompactedOffset(k - 1) + b
    OBVIOUS
  <2>2. c \in Home(k)
    BY <2>1, <1>3 DEF Span
  <2>3. slots[k].offset + c - CompactedOffset(k - 1) = slots[k].offset + b
    BY <2>1, <1>3
  <2> QED
    BY <2>1, <2>2, <2>3, <1>9
<1> QED
  BY <1>8, <1>10, <1>11

(* and a compaction. *)
LEMMA CompactStep ==
    ASSUME PageInv, compact
    PROVE  PageInv'
<1>1. /\ slots' \in Seq(Slot) /\ Len(slots') = Len(slots) /\ DOMAIN slots' = DOMAIN slots
      /\ \A k \in DOMAIN slots : /\ slots'[k].offset = CompactedOffset(k - 1)
                                 /\ slots'[k].size = slots[k].size
      /\ heap_end' = CompactedEnd /\ header' = header /\ result' = "Ok"
  BY CompactedSlots
<1>2. /\ CAPACITY \in Nat /\ heap_end \in 0 .. CAPACITY /\ CompactedEnd \in heap_end .. CAPACITY
      /\ DOMAIN slots = 1 .. Len(slots) /\ Len(slots) \in Nat
  BY CompactedPlaces, PageAssumption DEF PageInv, TypeOK
<1>3. TypeOK'
  <2>1. heap_end' \in 0 .. CAPACITY
    BY <1>1, <1>2
  <2>2. cells' \in [0 .. (CAPACITY - 1) -> Bytes \cup {Zero}]
    BY CompactedCells
  <2> QED
    BY <2>1, <2>2, <1>1 DEF PageInv, TypeOK
<1>4. ASSUME NEW k \in DOMAIN slots
      PROVE  /\ slots'[k].offset \in Nat /\ slots'[k].size \in Nat
             /\ heap_end' <= slots'[k].offset /\ slots'[k].offset + slots'[k].size <= CAPACITY
  <2>1. slots[k].size \in Nat
    BY SlotPlaced
  <2>2. /\ CompactedOffset(k - 1) \in CompactedEnd .. CAPACITY
        /\ CompactedOffset(k - 1) + slots[k].size <= CAPACITY
    BY CompactedPlaces
  <2> QED
    BY <2>1, <2>2, <1>1, <1>2
<1>5. ASSUME NEW j \in DOMAIN slots, NEW k \in DOMAIN slots, j # k
      PROVE  Span(slots'[j].offset, slots'[j].size)
               \cap Span(slots'[k].offset, slots'[k].size) = {}
  <2>1. j < k \/ k < j
    BY <1>2, <1>5
  <2>2. \/ slots'[k].offset + slots'[k].size <= slots'[j].offset
        \/ slots'[j].offset + slots'[j].size <= slots'[k].offset
    BY <2>1, <1>1, CompactedPlaces
  <2> QED
    BY <2>2, <1>4, SpansApart
<1>6. SlotBytes(Len(slots')) <= heap_end'
  <2>1. SlotBytes(Len(slots)) \in Nat /\ SlotBytes(Len(slots)) <= heap_end
    BY <1>2, SlotBytesGrow DEF PageInv, HeapWellFormed
  <2> QED
    BY <2>1, <1>1, <1>2
<1>7. HeapWellFormed'
  BY <1>1, <1>4, <1>5, <1>6 DEF HeapWellFormed, SlotBytes
<1> QED
  BY <1>3, <1>7 DEF PageInv

-----------------------------------------------------------------------------
(* The theorems about the heap *)

(* The invariant holds on an initialized page. *)
LEMMA PageInit == Init => PageInv
<1> SUFFICES ASSUME Init PROVE PageInv
  OBVIOUS
<1>1. slots = <<>> /\ heap_end = CAPACITY /\ result = "Ok"
      /\ cells = [c \in 0 .. (CAPACITY - 1) |-> Zero]
  BY DEF Init
<1>2. header.page_type \in PageTypes
  BY DEF Init, FreshHeader
<1>3. TypeOK
  BY <1>1, <1>2, PageAssumption DEF TypeOK
<1>4. HeapWellFormed
  BY <1>1, PageAssumption DEF HeapWellFormed, SlotBytes
<1> QED
  BY <1>3, <1>4 DEF PageInv

(* A page that is initialized again is as a new one. *)
LEMMA InitializeStep ==
    ASSUME NEW type \in PageTypes, NEW parent \in Parents, initialize(type, parent)
    PROVE  PageInv'
<1>1. slots' = <<>> /\ heap_end' = CAPACITY /\ result' = "Ok"
      /\ cells' = [c \in 0 .. (CAPACITY - 1) |-> Zero]
  BY DEF initialize
<1>2. header'.page_type \in PageTypes
  BY DEF initialize, FreshHeader
<1>3. TypeOK'
  BY <1>1, <1>2, PageAssumption DEF TypeOK
<1>4. HeapWellFormed'
  BY <1>1, PageAssumption DEF HeapWellFormed, SlotBytes
<1> QED
  BY <1>3, <1>4 DEF PageInv

(* A call that is refused changes nothing. *)
LEMMA RefusedStep ==
    ASSUME PageInv, NEW i, NEW r, InsertRefused(i, r) \/ UpdateRefused(i, r)
    PROVE  PageInv' /\ slots' = slots /\ cells' = cells
           /\ result' \in {"PageFull", "InvalidSlotIndex"}
<1>1. /\ slots' = slots /\ heap_end' = heap_end /\ cells' = cells /\ header' = header
      /\ result' \in {"PageFull", "InvalidSlotIndex"}
  BY DEF InsertRefused, UpdateRefused
<1> QED
  BY <1>1 DEF PageInv, TypeOK, HeapWellFormed, SlotBytes

(* Every call keeps the invariant. *)
LEMMA PageStep == PageInv /\ [Next]_vars => PageInv'
<1> SUFFICES ASSUME PageInv, [Next]_vars PROVE PageInv'
  OBVIOUS
<1>1. CASE UNCHANGED vars
  BY <1>1 DEF vars, PageInv, TypeOK, HeapWellFormed, SlotBytes
<1>2. CASE \E type \in PageTypes, parent \in Parents : initialize(type, parent)
  BY <1>2, InitializeStep
<1>3. ASSUME NEW i \in 0 .. (Len(slots) + 1), NEW r \in Records, try_insert_record(i, r)
      PROVE  PageInv'
  BY <1>3, InsertStep
<1>4. ASSUME NEW i \in 0 .. (Len(slots) + 1), NEW r \in Records, UpdateInPlace(i, r)
      PROVE  PageInv'
  BY <1>4, UpdateInPlaceStep
<1>5. ASSUME NEW i \in 0 .. (Len(slots) + 1), NEW r \in Records, UpdateRelocated(i, r)
      PROVE  PageInv'
  BY <1>5, UpdateRelocatedStep
<1>6. ASSUME NEW i \in 0 .. (Len(slots) + 1), NEW r \in Records,
             InsertRefused(i, r) \/ UpdateRefused(i, r)
      PROVE  PageInv'
  BY <1>6, RefusedStep
<1>7. CASE \E i \in 0 .. Len(slots) : delete_record(i)
  BY <1>7, DeleteStep
<1>8. CASE compact
  BY <1>8, CompactStep
<1> QED
  BY <1>1, <1>2, <1>3, <1>4, <1>5, <1>6, <1>7, <1>8 DEF Next

(* The argument of the theorems: the invariant of every behaviour. *)
LEMMA PageInvariant == Spec => []PageInv
  BY PageInit, PageStep, PTL DEF Spec

(* Slots, heap and header of a page keep their types, whatever is stored.  *)
THEOREM PageTypeCorrect == Spec => []TypeOK
<1>1. PageInv => TypeOK
  BY DEF PageInv
<1> QED
  BY <1>1, PageInvariant, PTL

(* Records never overlap, lie in the heap, and the heap never reaches the  *)
(* slots (slotted_page_view.rs: try_insert_record, update_record,          *)
(* delete_record, compact), for pages, slots and records of any size.      *)
THEOREM HeapAlwaysWellFormed == Spec => []HeapWellFormed
<1>1. PageInv => HeapWellFormed
  BY DEF PageInv
<1> QED
  BY <1>1, PageInvariant, PTL

(* After compact() the space between the slots and the heap is all that    *)
(* the records do not use, for pages and records of any size.              *)
THEOREM CompactAlwaysReclaims == Spec => CompactReclaims
<1>1. ASSUME PageInv, compact
      PROVE  get_free_space_contiguous' = CAPACITY - SlotBytes(Len(slots)) - RecordBytes(slots)
  <2>1. Len(slots') = Len(slots) /\ heap_end' = CompactedEnd
    BY <1>1, CompactedSlots
  <2>2. RecordBytes(slots) \in Nat /\ CompactedEnd = CAPACITY - RecordBytes(slots)
    BY <1>1, CompactedPlaces
  <2>3. SlotBytes(Len(slots)) \in Nat
    BY <1>1, SlotBytesGrow DEF PageInv, TypeOK
  <2>4. get_free_space_contiguous' = CAPACITY - SlotBytes(Len(slots')) - (CAPACITY - heap_end')
    BY DEF get_free_space_contiguous, SlotBytes
  <2> QED
    BY <2>1, <2>2, <2>3, <2>4, PageAssumption
<1>2. PageInv /\ [Next]_vars =>
        [compact => get_free_space_contiguous' =
                        CAPACITY - SlotBytes(Len(slots)) - RecordBytes(slots)]_vars
  BY <1>1
<1> QED
  BY <1>2, PageInvariant, PTL DEF Spec, CompactReclaims

-----------------------------------------------------------------------------
(* The page is an ordered list of records *)

(* The list that a page implements, and the bytes it is made of. *)
records == [k \in DOMAIN slots |-> get_record(k - 1)]
Byte == Bytes \cup {Zero}

(* The record of a slot, read from some cells. *)
Read(slot, from) == [b \in 1 .. slot.size |-> from[slot.offset + b - 1]]

(* What is read from the heap is the list of records. *)
LEMMA RecordsRead ==
    /\ slots \in Seq(Slot) => records = [k \in 1 .. Len(slots) |-> Read(slots[k], cells)]
    /\ slots' \in Seq(Slot) => records' = [k \in 1 .. Len(slots') |-> Read(slots'[k], cells')]
<1>1. \A s \in Seq(Slot) : DOMAIN s = 1 .. Len(s)
  OBVIOUS
<1>2. \A k \in Int : (k - 1) + 1 = k
  OBVIOUS
<1>3. ASSUME slots \in Seq(Slot)
      PROVE  records = [k \in 1 .. Len(slots) |-> Read(slots[k], cells)]
  <2>1. \A k \in 1 .. Len(slots) : get_record(k - 1) = Read(slots[k], cells)
    BY <1>2 DEF get_record, Read
  <2> QED
    BY <2>1, <1>1, <1>3 DEF records
<1>4. ASSUME slots' \in Seq(Slot)
      PROVE  records' = [k \in 1 .. Len(slots') |-> Read(slots'[k], cells')]
  <2>1. \A k \in 1 .. Len(slots') : get_record(k - 1)' = Read(slots'[k], cells')
    BY <1>2 DEF get_record, Read
  <2> QED
    BY <2>1, <1>1, <1>4 DEF records
<1> QED
  BY <1>3, <1>4

(* The records of a page are sequences of bytes. *)
LEMMA RecordsType ==
    ASSUME PageInv
    PROVE  /\ records \in Seq(Seq(Byte)) /\ Len(records) = Len(slots)
           /\ \A k \in 1 .. Len(slots) : records[k] = Read(slots[k], cells)
<1>1. /\ slots \in Seq(Slot) /\ Len(slots) \in Nat /\ DOMAIN slots = 1 .. Len(slots)
      /\ cells \in [0 .. (CAPACITY - 1) -> Byte] /\ heap_end \in 0 .. CAPACITY /\ CAPACITY \in Nat
  BY PageAssumption DEF PageInv, TypeOK, Byte
<1>2. ASSUME NEW k \in 1 .. Len(slots) PROVE Read(slots[k], cells) \in Seq(Byte)
  <2>1. PICK n \in Nat : n = slots[k].size
    BY <1>1, SlotPlaced
  <2>2. /\ slots[k].offset \in Nat /\ heap_end <= slots[k].offset
        /\ slots[k].offset + n <= CAPACITY
    BY <2>1, <1>1, SlotPlaced
  <2>3. \A b \in 1 .. n : slots[k].offset + b - 1 \in 0 .. (CAPACITY - 1)
    BY <2>2, <1>1
  <2>4. \A b \in 1 .. n : cells[slots[k].offset + b - 1] \in Byte
    BY <2>3, <1>1
  <2>5. Read(slots[k], cells) = [b \in 1 .. n |-> cells[slots[k].offset + b - 1]]
    BY <2>1 DEF Read
  <2> QED
    BY <2>4, <2>5
<1>3. records = [k \in 1 .. Len(slots) |-> Read(slots[k], cells)]
  BY <1>1, RecordsRead
<1> QED
  BY <1>1, <1>2, <1>3

(* The cells of a record decide what is read. *)
LEMMA ReadSame ==
    ASSUME NEW slot, NEW from, NEW to, slot.size \in Nat, slot.offset \in Nat,
           \A c \in Span(slot.offset, slot.size) : to[c] = from[c]
    PROVE  Read(slot, to) = Read(slot, from)
<1>1. \A b \in 1 .. slot.size : slot.offset + b - 1 \in Span(slot.offset, slot.size)
  BY DEF Span
<1>2. \A b \in 1 .. slot.size : to[slot.offset + b - 1] = from[slot.offset + b - 1]
  BY <1>1
<1> QED
  BY <1>2 DEF Read

(* A record that was copied to its slot is read back. *)
LEMMA ReadWritten ==
    ASSUME TypeOK, NEW r \in Records, NEW slot, slot.offset \in Nat, slot.size = Len(r),
           slot.offset + Len(r) <= CAPACITY
    PROVE  Read(slot, Written(slot.offset, r)) = r
<1>1. Len(r) \in Nat /\ r = [b \in 1 .. Len(r) |-> r[b]] /\ CAPACITY \in Nat
  BY RecordAssumption, PageAssumption
<1>2. ASSUME NEW b \in 1 .. Len(r)
      PROVE  Written(slot.offset, r)[slot.offset + b - 1] = r[b]
  <2>1. PICK c : c = slot.offset + b - 1
    OBVIOUS
  <2>2. /\ c \in 0 .. (CAPACITY - 1) /\ slot.offset <= c /\ c < slot.offset + Len(r)
        /\ c - slot.offset + 1 = b
    BY <2>1, <1>1
  <2>3. Written(slot.offset, r)[c] = r[c - slot.offset + 1]
    BY <2>2, WrittenCells
  <2> QED
    BY <2>1, <2>2, <2>3
<1> QED
  BY <1>1, <1>2 DEF Read

(* A record outside the span that is written is read as before. *)
LEMMA ReadUnwritten ==
    ASSUME PageInv, NEW k \in DOMAIN slots, NEW r \in Records, NEW offset \in Nat,
           Span(slots[k].offset, slots[k].size) \cap Span(offset, Len(r)) = {}
    PROVE  Read(slots[k], Written(offset, r)) = Read(slots[k], cells)
<1>1. /\ slots[k].offset \in Nat /\ slots[k].size \in Nat /\ heap_end <= slots[k].offset
      /\ slots[k].offset + slots[k].size <= CAPACITY
      /\ heap_end \in 0 .. CAPACITY /\ CAPACITY \in Nat /\ Len(r) \in Nat
  BY SlotPlaced, RecordLength, PageAssumption DEF PageInv, TypeOK
<1>2. ASSUME NEW c \in Span(slots[k].offset, slots[k].size)
      PROVE  Written(offset, r)[c] = cells[c]
  <2>1. c \in 0 .. (CAPACITY - 1)
    BY <1>1 DEF Span
  <2>2. ~(offset <= c /\ c < offset + Len(r))
    BY <2>1, <1>1 DEF Span
  <2> QED
    BY <2>1, <2>2, WrittenCells DEF PageInv
<1> QED
  BY <1>1, <1>2, ReadSame

(* An insertion is one into the list. *)
LEMMA InsertMaps ==
    ASSUME PageInv, NEW i \in 0 .. (Len(slots) + 1), NEW r \in Records, try_insert_record(i, r)
    PROVE  i \in 0 .. Len(records) /\ records' = InsertAt(records, i + 1, r)
<1>1. PICK slot : slot = [offset |-> heap_end', size |-> Len(r)]
  OBVIOUS
<1>2. /\ i \in 0 .. Len(slots) /\ Len(r) \in Nat
      /\ heap_end' \in 0 .. CAPACITY /\ heap_end' + Len(r) = heap_end
      /\ cells' = Written(heap_end', r)
      /\ slots' \in Seq(Slot) /\ Len(slots') = Len(slots) + 1
  BY InsertDoes
<1>3. \A k \in 1 .. (Len(slots) + 1) :
        slots'[k] = IF k <= i THEN slots[k] ELSE IF k = i + 1 THEN slot ELSE slots[k - 1]
  BY <1>1, InsertDoes
<1>4. PICK old \in Seq(Seq(Byte)) : /\ old = records /\ Len(old) = Len(slots)
                                    /\ \A k \in 1 .. Len(slots) : old[k] = Read(slots[k], cells)
  BY RecordsType
<1>5. r \in Seq(Byte) /\ i \in 0 .. Len(old)
  BY <1>2, <1>4, RecordAssumption DEF Byte
<1>6. PICK new : new = InsertAt(old, i + 1, r)
  OBVIOUS
<1>7. new = [k \in 1 .. (Len(old) + 1) |->
               IF k <= i THEN old[k] ELSE IF k = i + 1 THEN r ELSE old[k - 1]]
  BY <1>5, <1>6, InsertAtFunction
<1>8. /\ DOMAIN slots = 1 .. Len(slots) /\ Len(slots) \in Nat /\ heap_end \in 0 .. CAPACITY
      /\ CAPACITY \in Nat /\ heap_end' \in Nat
  BY <1>2, PageAssumption DEF PageInv, TypeOK
<1>9. ASSUME NEW k \in DOMAIN slots
      PROVE  Read(slots[k], cells') = Read(slots[k], cells)
  <2>1. slots[k].offset \in Nat /\ slots[k].size \in Nat /\ heap_end <= slots[k].offset
    BY SlotPlaced
  <2>2. Span(slots[k].offset, slots[k].size) \cap Span(heap_end', Len(r)) = {}
    BY <2>1, <1>2, <1>8, SpansApart
  <2> QED
    BY <2>2, <1>2, <1>8, ReadUnwritten
<1>10. Read(slot, cells') = r
  <2>1. slot.offset = heap_end' /\ slot.size = Len(r)
    BY <1>1
  <2>2. slot.offset + Len(r) <= CAPACITY
    BY <2>1, <1>2, <1>8
  <2> QED
    BY <2>1, <2>2, <1>2, <1>8, ReadWritten DEF PageInv
<1>11. ASSUME NEW k \in 1 .. (Len(slots) + 1)
       PROVE  Read(slots'[k], cells') = new[k]
  <2>1. CASE k <= i
    <3>1. k \in 1 .. Len(slots) /\ k \in DOMAIN slots
      BY <2>1, <1>2, <1>8
    <3> QED
      BY <2>1, <3>1, <1>3, <1>4, <1>7, <1>9
  <2>2. CASE k = i + 1
    <3>1. ~(k <= i)
      BY <2>2, <1>2
    <3> QED
      BY <2>2, <3>1, <1>3, <1>4, <1>7, <1>10
  <2>3. CASE k > i + 1
    <3>1. k - 1 \in 1 .. Len(slots) /\ k - 1 \in DOMAIN slots /\ ~(k <= i) /\ k # i + 1
      BY <2>3, <1>2, <1>8
    <3>2. slots'[k] = slots[k - 1] /\ new[k] = old[k - 1]
      BY <3>1, <1>3, <1>4, <1>7
    <3> QED
      BY <3>1, <3>2, <1>4, <1>9
  <2> QED
    BY <2>1, <2>2, <2>3, <1>2
<1>12. records' = [k \in 1 .. (Len(slots) + 1) |-> Read(slots'[k], cells')]
  BY <1>2, RecordsRead
<1>13. new = [k \in 1 .. (Len(slots) + 1) |-> new[k]]
  BY <1>4, <1>7
<1>14. records' = new
  BY <1>11, <1>12, <1>13
<1> QED
  BY <1>4, <1>5, <1>6, <1>14

(* An update replaces one record of the list. *)
LEMMA UpdateMaps ==
    ASSUME PageInv, NEW i \in 0 .. (Len(slots) + 1), NEW r \in Records,
           UpdateInPlace(i, r) \/ UpdateRelocated(i, r)
    PROVE  /\ i < Len(records) /\ i \in 0 .. Len(records)
           /\ records' = ReplaceAt(records, i + 1, r)
<1>1. PICK offset : offset = slots'[i + 1].offset
  OBVIOUS
<1>2. /\ i + 1 \in DOMAIN slots /\ Len(r) \in Nat /\ cells' = Written(offset, r)
      /\ slots' \in Seq(Slot) /\ Len(slots') = Len(slots)
      /\ \A k \in DOMAIN slots : k # i + 1 => slots'[k] = slots[k]
      /\ slots'[i + 1].size = Len(r)
  <2>1. CASE UpdateInPlace(i, r)
    BY <1>1, <2>1, UpdateInPlaceDoes
  <2>2. CASE UpdateRelocated(i, r)
    BY <1>1, <2>2, UpdateRelocatedDoes
  <2> QED
    BY <2>1, <2>2
<1>3. /\ DOMAIN slots = 1 .. Len(slots) /\ Len(slots) \in Nat /\ heap_end \in 0 .. CAPACITY
      /\ CAPACITY \in Nat
  BY PageAssumption DEF PageInv, TypeOK
<1>4. /\ offset \in Nat /\ offset + Len(r) <= CAPACITY
      /\ \A k \in DOMAIN slots : k # i + 1 =>
            Span(slots[k].offset, slots[k].size) \cap Span(offset, Len(r)) = {}
  <2>1. CASE UpdateInPlace(i, r)
    <3>1. offset = slots[i + 1].offset /\ Len(r) <= slots[i + 1].size
      BY <1>1, <2>1, UpdateInPlaceDoes
    <3>2. /\ slots[i + 1].offset \in Nat /\ slots[i + 1].size \in Nat
          /\ slots[i + 1].offset + slots[i + 1].size <= CAPACITY
      BY <1>2, SlotPlaced
    <3>3. Span(offset, Len(r)) \subseteq Span(slots[i + 1].offset, slots[i + 1].size)
      BY <3>1, <3>2, <1>2 DEF Span
    <3>4. \A k \in DOMAIN slots : k # i + 1 =>
            Span(slots[k].offset, slots[k].size)
                \cap Span(slots[i + 1].offset, slots[i + 1].size) = {}
      BY <1>2 DEF PageInv, HeapWellFormed
    <3> QED
      BY <3>1, <3>2, <3>3, <3>4, <1>2, <1>3
  <2>2. CASE UpdateRelocated(i, r)
    <3>1. offset = heap_end' /\ heap_end' \in 0 .. CAPACITY /\ heap_end' + Len(r) = heap_end
      BY <1>1, <2>2, UpdateRelocatedDoes
    <3>2. offset \in Nat /\ offset + Len(r) = heap_end
      BY <3>1, <1>3
    <3>3. \A k \in DOMAIN slots :
            slots[k].offset \in Nat /\ slots[k].size \in Nat /\ heap_end <= slots[k].offset
      BY SlotPlaced
    <3>4. \A k \in DOMAIN slots :
            Span(slots[k].offset, slots[k].size) \cap Span(offset, Len(r)) = {}
      BY <3>2, <3>3, <1>2, <1>3, SpansApart
    <3> QED
      BY <3>2, <3>4, <1>3
  <2> QED
    BY <2>1, <2>2
<1>5. PICK old \in Seq(Seq(Byte)) : /\ old = records /\ Len(old) = Len(slots)
                                    /\ \A k \in 1 .. Len(slots) : old[k] = Read(slots[k], cells)
  BY RecordsType
<1>6. PICK new : new = [old EXCEPT ![i + 1] = r]
  OBVIOUS
<1>7. /\ new = [k \in 1 .. Len(slots) |-> new[k]]
      /\ \A k \in 1 .. Len(slots) : new[k] = IF k = i + 1 THEN r ELSE old[k]
  <2>1. DOMAIN old = 1 .. Len(slots) /\ i + 1 \in DOMAIN old
    BY <1>2, <1>3, <1>5
  <2>2. new = [k \in 1 .. Len(slots) |-> IF k = i + 1 THEN r ELSE old[k]]
    BY <2>1, <1>6
  <2> QED
    BY <2>2
<1>8. ASSUME NEW k \in 1 .. Len(slots) PROVE Read(slots'[k], cells') = new[k]
  <2>1. CASE k = i + 1
    <3>1. Read(slots'[i + 1], Written(offset, r)) = r
      BY <1>1, <1>2, <1>4, ReadWritten DEF PageInv
    <3> QED
      BY <2>1, <3>1, <1>2, <1>7
  <2>2. CASE k # i + 1
    <3>1. slots'[k] = slots[k] /\ new[k] = Read(slots[k], cells)
      BY <2>2, <1>2, <1>3, <1>5, <1>7
    <3>2. Read(slots[k], Written(offset, r)) = Read(slots[k], cells)
      BY <2>2, <1>3, <1>4, ReadUnwritten
    <3> QED
      BY <3>1, <3>2, <1>2
  <2> QED
    BY <2>1, <2>2
<1>9. records' = [k \in 1 .. Len(slots) |-> Read(slots'[k], cells')]
  BY <1>2, RecordsRead
<1>10. records' = new
  BY <1>7, <1>8, <1>9
<1>11. i < Len(old) /\ i \in 0 .. Len(old)
  BY <1>2, <1>3, <1>5
<1> QED
  BY <1>5, <1>6, <1>10, <1>11 DEF ReplaceAt

(* A deletion removes one record of the list. *)
LEMMA DeleteMaps ==
    ASSUME PageInv, NEW i \in 0 .. Len(slots), i < Len(slots), delete_record(i)
    PROVE  /\ i < Len(records) /\ i \in 0 .. Len(records)
           /\ records' = RemoveAt(records, i + 1)
<1>1. /\ i \in 0 .. (Len(slots) - 1) /\ cells' = cells
      /\ slots' \in Seq(Slot) /\ Len(slots') = Len(slots) - 1
  BY DeleteDoes DEF delete_record
<1>2. \A k \in 1 .. (Len(slots) - 1) :
        slots'[k] = IF k <= i THEN slots[k] ELSE slots[k + 1]
  BY DeleteDoes
<1>3. Len(slots) \in Nat
  BY DEF PageInv, TypeOK
<1>4. PICK old \in Seq(Seq(Byte)) : /\ old = records /\ Len(old) = Len(slots)
                                    /\ \A k \in 1 .. Len(slots) : old[k] = Read(slots[k], cells)
  BY RecordsType
<1>5. i \in 0 .. (Len(old) - 1)
  BY <1>1, <1>4
<1>6. PICK new : new = RemoveAt(old, i + 1)
  OBVIOUS
<1>7. new = [k \in 1 .. (Len(old) - 1) |-> IF k <= i THEN old[k] ELSE old[k + 1]]
  BY <1>5, <1>6, RemoveAtFunction
<1>8. ASSUME NEW k \in 1 .. (Len(slots) - 1)
      PROVE  Read(slots'[k], cells') = new[k]
  <2>1. k \in 1 .. Len(slots) /\ k + 1 \in 1 .. Len(slots)
    BY <1>3
  <2>2. new[k] = IF k <= i THEN old[k] ELSE old[k + 1]
    BY <1>4, <1>7
  <2> QED
    BY <2>1, <2>2, <1>1, <1>2, <1>4
<1>9. records' = [k \in 1 .. (Len(slots) - 1) |-> Read(slots'[k], cells')]
  BY <1>1, RecordsRead
<1>10. new = [k \in 1 .. (Len(slots) - 1) |-> new[k]]
  BY <1>4, <1>7
<1>11. records' = new
  BY <1>8, <1>9, <1>10
<1> QED
  BY <1>1, <1>3, <1>4, <1>6, <1>11

(* Compaction is not seen by the reader of a record. *)
LEMMA CompactMaps ==
    ASSUME PageInv, compact
    PROVE  records' = records
<1>1. /\ slots' \in Seq(Slot) /\ Len(slots') = Len(slots)
      /\ \A k \in DOMAIN slots : /\ slots'[k].offset = CompactedOffset(k - 1)
                                 /\ slots'[k].size = slots[k].size
  BY CompactedSlots
<1>2. slots \in Seq(Slot) /\ Len(slots) \in Nat /\ DOMAIN slots = 1 .. Len(slots)
  BY DEF PageInv, TypeOK
<1>3. ASSUME NEW k \in 1 .. Len(slots)
      PROVE  Read(slots'[k], cells') = Read(slots[k], cells)
  <2>1. PICK new : new = CompactedOffset(k - 1)
    OBVIOUS
  <2>2. new \in Int /\ slots[k].size \in Nat /\ slots[k].offset \in Nat
    <3>1. new \in CompactedEnd .. CAPACITY /\ CompactedEnd \in heap_end .. CAPACITY
      BY <2>1, <1>2, CompactedPlaces
    <3> QED
      BY <3>1, <1>2, SlotPlaced
  <2>3. ASSUME NEW b \in 1 .. slots[k].size
        PROVE  cells'[new + b - 1] = cells[slots[k].offset + b - 1]
    <3>1. b - 1 \in 0 .. (slots[k].size - 1)
      BY <2>2
    <3>2. cells'[new + (b - 1)] = cells[slots[k].offset + (b - 1)]
      BY <3>1, <2>1, <1>2, CompactedCells
    <3>3. new + (b - 1) = new + b - 1 /\ slots[k].offset + (b - 1) = slots[k].offset + b - 1
      BY <2>2
    <3> QED
      BY <3>2, <3>3
  <2>4. slots'[k].offset = new /\ slots'[k].size = slots[k].size
    BY <2>1, <1>1, <1>2
  <2> QED
    BY <2>3, <2>4 DEF Read
<1>4. /\ records = [k \in 1 .. Len(slots) |-> Read(slots[k], cells)]
      /\ records' = [k \in 1 .. Len(slots) |-> Read(slots'[k], cells')]
  BY <1>1, <1>2, RecordsRead
<1> QED
  BY <1>3, <1>4

(* Where neither slots nor cells change, the list does not either. *)
LEMMA RecordsKept ==
    ASSUME slots' = slots, cells' = cells
    PROVE  records' = records
  BY DEF records, get_record

(* The operators on sequences that the list uses are those of the page. *)
LEMMA SameOperators ==
    ASSUME NEW s, NEW i, NEW e
    PROVE  /\ List!InsertAt(s, i, e) = InsertAt(s, i, e)
           /\ List!ReplaceAt(s, i, e) = ReplaceAt(s, i, e)
           /\ List!RemoveAt(s, i) = RemoveAt(s, i)
  BY DEF List!InsertAt, InsertAt, List!ReplaceAt, ReplaceAt, List!RemoveAt, RemoveAt

(* An initialized page is an empty list. *)
LEMMA ListInit == Init => List!Init
<1> SUFFICES ASSUME Init PROVE List!Init
  OBVIOUS
<1>1. slots = <<>> /\ result = "Ok"
  BY DEF Init
<1>2. [k \in DOMAIN slots |-> get_record(k - 1)] = <<>>
  BY <1>1
<1> QED
  BY <1>1, <1>2 DEF List!Init

(* Every operation on the page is the operation on the list.               *)
LEMMA ListStep == PageInv /\ [Next]_vars => [List!Next]_(List!vars)
<1> SUFFICES ASSUME PageInv, [Next]_vars PROVE [List!Next]_(List!vars)
  OBVIOUS
<1>1. CASE UNCHANGED vars
  <2>1. records' = records /\ result' = result
    BY <1>1, RecordsKept DEF vars
  <2> QED
    BY <2>1 DEF List!vars, records
<1>2. ASSUME NEW type \in PageTypes, NEW parent \in Parents, initialize(type, parent)
      PROVE  List!Next
  <2>1. slots' = <<>> /\ result' = "Ok"
    BY <1>2 DEF initialize
  <2>2. records' = <<>>
    BY <2>1 DEF records
  <2> QED
    BY <2>1, <2>2 DEF List!Next, List!Initialize, records
<1>3. ASSUME NEW i \in 0 .. (Len(slots) + 1), NEW r \in Records, try_insert_record(i, r)
      PROVE  List!Next
  <2>1. i \in 0 .. Len(records) /\ records' = InsertAt(records, i + 1, r)
    BY <1>3, InsertMaps
  <2>2. i <= Len(records) /\ result' = "Inserted"
    BY <2>1, <1>3 DEF try_insert_record, records
  <2>3. List!Insert(i, r)
    BY <2>1, <2>2, SameOperators, Zenon DEF List!Insert, records
  <2> QED
    BY <2>1, <2>3, Zenon DEF List!Next, records
<1>4. ASSUME NEW i \in 0 .. (Len(slots) + 1), NEW r \in Records,
             UpdateInPlace(i, r) \/ UpdateRelocated(i, r)
      PROVE  List!Next
  <2>1. /\ i < Len(records) /\ i \in 0 .. Len(records)
        /\ records' = ReplaceAt(records, i + 1, r)
    BY <1>4, UpdateMaps
  <2>2. result' = "Updated"
    BY <1>4 DEF UpdateInPlace, UpdateRelocated
  <2>3. List!Update(i, r)
    BY <2>1, <2>2, SameOperators, Zenon DEF List!Update, records
  <2> QED
    BY <2>1, <2>3, Zenon DEF List!Next, records
<1>5. ASSUME NEW i, NEW r, InsertRefused(i, r) \/ UpdateRefused(i, r)
      PROVE  List!Next
  <2>1. records' = records /\ result' \in {"PageFull", "InvalidSlotIndex"}
    BY <1>5, RefusedStep, RecordsKept
  <2> QED
    BY <2>1 DEF List!Next, List!Unchanged, records
<1>6. ASSUME NEW i \in 0 .. Len(slots), delete_record(i)
      PROVE  List!Next
  <2>1. CASE i < Len(slots)
    <3>1. /\ i < Len(records) /\ i \in 0 .. Len(records)
          /\ records' = RemoveAt(records, i + 1)
      BY <1>6, <2>1, DeleteMaps
    <3>2. result' = "Deleted"
      BY <1>6, <2>1 DEF delete_record
    <3>3. List!Delete(i)
      BY <3>1, <3>2, SameOperators, Zenon DEF List!Delete, records
    <3> QED
      BY <3>1, <3>3, Zenon DEF List!Next, records
  <2>2. CASE ~(i < Len(slots))
    <3>1. slots' = slots /\ cells' = cells /\ result' = "Ok"
      BY <1>6, <2>2 DEF delete_record
    <3>2. records' = records
      BY <3>1, RecordsKept
    <3> QED
      BY <3>1, <3>2 DEF List!Next, List!Unchanged, records
  <2> QED
    BY <2>1, <2>2
<1>7. CASE compact
  <2>1. records' = records /\ result' = "Ok"
    BY <1>7, CompactMaps DEF compact
  <2> QED
    BY <2>1 DEF List!Next, List!Unchanged, records
<1> QED
  BY <1>1, <1>2, <1>3, <1>4, <1>5, <1>6, <1>7 DEF Next

(* get_record() of every index returns the bytes last stored there, through *)
(* all insertions, moves, deletions and compactions of                      *)
(* slotted_page_view.rs: the page implements an ordered list of records.    *)
THEOREM PageImplementsList == Spec => ImplementsRecordList
<1>1. Init => List!Init
  BY ListInit
<1>2. PageInv /\ [Next]_vars => [List!Next]_(List!vars)
  BY ListStep
<1> QED
  BY <1>1, <1>2, PageInvariant, PTL DEF Spec, ImplementsRecordList, List!Spec
=============================================================================
