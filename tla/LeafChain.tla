------------------------------- MODULE LeafChain -------------------------------
(***************************************************************************)
(* The leaves of a B-tree (crates/storage/src/btree/leaf_node_view.rs and  *)
(* ops.rs): pages of records sorted by key, linked to their siblings, that *)
(* are split when a record does not fit and merged when two fit on one.    *)
(*                                                                         *)
(* A page is the list of records that module RecordList specifies and      *)
(* SlottedPage implements, with the bytes that decide what fits.  A record *)
(* is told by its key and its serialized size.  The tree above the leaves  *)
(* is not in the source yet: the model's is the caller that the comments   *)
(* and the tests describe, and keeps the separator key of every leaf.      *)
(***************************************************************************)
EXTENDS Integers, Sequences, FiniteSets, SequencesExt, RecordSizes, Ops

CONSTANTS
    Pages,         \* the pages of the table
    Root,          \* the page of the first leaf
    Keys,          \* the primary keys
    Sizes,         \* the sizes of serialized records
    CAPACITY,      \* PAGE_SIZE - PAGE_HEADER_SIZE
    SLOT_SIZE,
    Parents,       \* parent indexes, <<low word, high word>> of an Option<u64>
    INVALID_PAGE_INDEX

ASSUME KeyAssumption == Keys \subseteq Nat \ {0}
ASSUME SizeAssumption ==
    /\ CAPACITY \in Nat /\ SLOT_SIZE \in Nat \ {0}
    /\ \A s \in Sizes : s \in Nat \ {0} /\ s + SLOT_SIZE <= CAPACITY
ASSUME PageAssumption == Root \in Pages /\ INVALID_PAGE_INDEX \notin Pages

VARIABLES
    page,          \* page[p]: the bytes of page p
    tree,          \* the caller's tree: its leaves with their separator keys, in order
    parent,        \* history: the parent each leaf was given
    result         \* what the last call returned

vars == <<page, tree, parent, result>>

PageType == {"Invalid", "LeafNode", "InternalNode", "TableHeader"}
StorageError ==
    {"DuplicateKey", "KeyNotFound", "InsertRecordFailed", "InsufficientSpaceForMerge",
     "InvalidSlotIndex", "NewRightSiblingNotEmpty", "PageFull"}
Record == [key : Keys, size : Sizes]
Word == Pages \cup {INVALID_PAGE_INDEX} \cup {x[1] : x \in Parents} \cup {x[2] : x \in Parents}

(* The word shared holds the previous sibling and, below it, the high half *)
(* of the parent index: both are at offset 12 of the header.               *)
Header == [type : PageType, low : Word, shared : Word, next : Word]

TypeOK ==
    /\ \A p \in Pages :
        /\ page[p].records \in Seq(Record)
        /\ page[p].heap \in 0 .. CAPACITY
        /\ page[p].header \in Header
    /\ tree \in Seq([separator : Keys \cup {0}, leaf : Pages])
    /\ result \in {"Ok", "Inserted", "Updated", "Deleted", "Refused",
                  "InsertRecordFailed", "SplitFailed"}

-----------------------------------------------------------------------------
(* A page and its space.  heap counts the bytes between the end of the     *)
(* heap and the end of the page, with the holes of deleted records.        *)
None == <<INVALID_PAGE_INDEX, INVALID_PAGE_INDEX>>

initialize(type, parent_index) ==
    [records |-> <<>>, heap |-> 0,
     header |-> [type |-> type, low |-> parent_index[1],
                 shared |-> INVALID_PAGE_INDEX, next |-> INVALID_PAGE_INDEX]]

get_item_count(pg) == Len(pg.records)
SlotBytes(n) == n * SLOT_SIZE
get_free_space_contiguous(pg) == CAPACITY - SlotBytes(get_item_count(pg)) - pg.heap
get_free_space(pg) == get_free_space_contiguous(pg) + (pg.heap - RecordBytes(pg.records))

(* Mutant: the space is not checked. *)
FitsAlways(pg, r) == TRUE

Fits(pg, r) == r.size + SLOT_SIZE <= get_free_space_contiguous(pg)

(* The page after try_insert_record(), which the caller has found to fit. *)
Inserted(pg, slot_index, r) ==
    [pg EXCEPT !.records = InsertAt(@, slot_index + 1, r), !.heap = @ + r.size]

append(pg, r) ==
    IF Fits(pg, r) THEN [ok |-> TRUE, page |-> Inserted(pg, get_item_count(pg), r)]
    ELSE [ok |-> FALSE, page |-> pg]

(* Appending records one by one, up to the first that does not fit. *)
Appended(pg, records) ==
    [pg EXCEPT !.records = @ \o records, !.heap = @ + RecordBytes(records)]

AppendAll(pg, records) ==
    LET refused == {i \in DOMAIN records :
                       ~append(Appended(pg, SubSeq(records, 1, i - 1)), records[i]).ok}
        count == IF refused = {} THEN Len(records) ELSE Min(refused) - 1
    IN  [ok |-> refused = {}, page |-> Appended(pg, SubSeq(records, 1, count))]

get_next_leaf_index(p) == page[p].header.next
get_prev_leaf_index(p) == page[p].header.shared
set_next_leaf_index(pg, q) == [pg EXCEPT !.header.next = q]
set_prev_leaf_index(pg, q) == [pg EXCEPT !.header.shared = q]

-----------------------------------------------------------------------------
(* The slot of a key, or where it would be inserted. *)
search_page(pg, key) ==
    find_key(get_item_count(pg), [slot \in 0 .. (get_item_count(pg) - 1) |->
        LET at == pg.records[slot + 1].key
        IN  IF key = at THEN "equal" ELSE IF key > at THEN "greater" ELSE "less"])

(* A key is routed to the last leaf whose separator does not exceed it. *)
Leaves == {tree[i].leaf : i \in DOMAIN tree}
Place(key) == Max({i \in DOMAIN tree : tree[i].separator <= key})
Route(key) == tree[Place(key)].leaf

(* After a split has failed the chain is broken, and the model stops. *)
Intact == result # "SplitFailed"

Init ==
    /\ \E x \in Parents :
        /\ page = [p \in Pages |->
                      IF p = Root THEN initialize("LeafNode", x) ELSE initialize("Invalid", None)]
        /\ parent = [p \in Pages |-> IF p = Root THEN x ELSE None]
    /\ tree = <<[separator |-> 0, leaf |-> Root]>>
    /\ result = "Ok"

(* The caller formats one page ahead as a leaf, a sibling of the others. *)
Prepare(p) ==
    /\ \A q \in Pages : page[q].header.type = "LeafNode" => q \in Leaves /\ q # p
    /\ page' = [page EXCEPT ![p] = initialize("LeafNode", parent[Root])]
    /\ parent' = [parent EXCEPT ![p] = parent[Root]]
    /\ result' = "Ok"
    /\ UNCHANGED tree

(* An error that is returned before anything was written. *)
Refuse(error) ==
    error \in StorageError /\ result' = "Refused" /\ UNCHANGED <<page, tree, parent>>

(* The pages of the call's views are written; new maps them to their bytes. *)
Only(p, pg) == [q \in {p} |-> pg]
Write(new, res) ==
    /\ page' = [p \in Pages |-> IF p \in DOMAIN new THEN new[p] ELSE page[p]]
    /\ result' = res
    /\ UNCHANGED parent

insert_record(r) ==
    LET p == Route(r.key)
        slot == search_page(page[p], r.key)
    IN  IF slot.found THEN Refuse("DuplicateKey")
        ELSE IF ~Fits(page[p], r) THEN Refuse("PageFull")
        ELSE Write(Only(p, Inserted(page[p], slot.slot, r)), "Inserted") /\ UNCHANGED tree

(* insert_raw_record() and append() trust the caller with the slot. *)
insert_raw_record(r) ==
    LET p == Route(r.key)
        slot == search_page(page[p], r.key)
    IN  /\ ~slot.found /\ Fits(page[p], r)
        /\ Write(Only(p, Inserted(page[p], slot.slot, r)), "Inserted")
        /\ UNCHANGED tree

append_last(r) ==
    LET p == Route(r.key) IN
    /\ \A i \in DOMAIN page[p].records : page[p].records[i].key < r.key
    /\ append(page[p], r).ok
    /\ Write(Only(p, append(page[p], r).page), "Inserted")
    /\ UNCHANGED tree

(* A record that is not longer is written over the old one; any other goes *)
(* to the end of the heap and leaves a hole.                               *)
Updated(pg, slot_index, r) ==
    [pg EXCEPT !.records = ReplaceAt(@, slot_index + 1, r),
               !.heap = IF r.size <= pg.records[slot_index + 1].size THEN @ ELSE @ + r.size]

update_record(r) ==
    LET p == Route(r.key)
        slot == search_page(page[p], r.key)
        in_place == r.size <= page[p].records[slot.slot + 1].size
    IN  IF ~slot.found THEN Refuse("KeyNotFound")
        ELSE IF ~in_place /\ r.size > get_free_space_contiguous(page[p]) THEN Refuse("PageFull")
        ELSE Write(Only(p, Updated(page[p], slot.slot, r)), "Updated") /\ UNCHANGED tree

(* The caller deletes through the page, which leaves a hole, and compacts. *)
delete_record(key) ==
    LET p == Route(key)
        slot == search_page(page[p], key)
    IN  IF ~slot.found THEN Refuse("KeyNotFound")
        ELSE /\ Write(Only(p, [page[p] EXCEPT !.records = RemoveAt(@, slot.slot + 1)]), "Deleted")
             /\ UNCHANGED tree

compact(p) ==
    /\ p \in Leaves
    /\ get_free_space(page[p]) # get_free_space_contiguous(page[p])
    /\ Write(Only(p, [page[p] EXCEPT !.heap = RecordBytes(page[p].records)]), "Ok")
    /\ UNCHANGED tree

-----------------------------------------------------------------------------
(* split_and_insert() *)

(* Where a new record goes, and the bytes that are to be halved: those of  *)
(* a record that becomes the last one are not counted.                     *)
Later(records, r) == {i \in DOMAIN records : r.key < records[i].key}
(* Mutant: the new record takes the place of the next one. *)
SortedReplaced(records, r) ==
    IF Later(records, r) = {} THEN Append(records, r)
    ELSE ReplaceAt(records, Min(Later(records, r)), r)

SortedRecords(records, r) ==
    IF Later(records, r) = {} THEN Append(records, r)
    ELSE InsertAt(records, Min(Later(records, r)), r)

(* Mutant: only the new record is counted. *)
TotalOfNew(records, r) == IF Later(records, r) = {} THEN 0 ELSE r.size

TotalSize(records, r) ==
    RecordBytes(records) + (IF Later(records, r) = {} THEN 0 ELSE r.size)

find_split_index_by_size(records, total_size) ==
    LET over == {i \in DOMAIN records : RecordBytes(SubSeq(records, 1, i)) > total_size \div 2}
    IN  IF over = {} THEN Len(records) ELSE Min(over) - 1

(* Mutant: the leaf is reinitialized without its parent. *)
ParentForgotten(header) == None

(* The parent is read as one word of 64 bits, the previous sibling in it. *)
CapturedParent(header) ==
    IF <<header.low, header.shared>> = None THEN None ELSE <<header.low, header.shared>>

(* Both pages after their half of the records was appended, and the        *)
(* separator; the right page is left alone when the left one fails.        *)
Halves(left, right, r) ==
    LET sorted == SortedRecords(left.records, r)
        split_index == find_split_index_by_size(sorted, TotalSize(left.records, r))
        lower == AppendAll(initialize("LeafNode", CapturedParent(left.header)),
                           SubSeq(sorted, 1, split_index))
        upper == AppendAll(right, SubSeq(sorted, split_index + 1, Len(sorted)))
    IN  [ok |-> lower.ok /\ upper.ok, left |-> lower.page,
         right |-> IF lower.ok THEN upper.page ELSE right,
         separator |-> sorted[split_index + 1].key]

(* Mutants: the new page is the end of the chain; the old right sibling    *)
(* keeps its previous pointer.                                             *)
LinkedCut(halves, p, right, next) ==
    (p :> set_next_leaf_index(halves.left, right))
        @@ (right :> set_prev_leaf_index(halves.right, p))
LinkedStale(halves, p, right, next) ==
    (p :> set_next_leaf_index(halves.left, right))
        @@ (right :> set_prev_leaf_index(set_next_leaf_index(halves.right, next), p))

(* The pages with their sibling pointers; next is the old right sibling. *)
Linked(halves, p, right, next) ==
    [q \in {p, right} \cup ({next} \ {INVALID_PAGE_INDEX}) |->
        CASE q = p     -> set_next_leaf_index(halves.left, right)
          [] q = right -> set_prev_leaf_index(set_next_leaf_index(halves.right, next), p)
          [] OTHER     -> set_prev_leaf_index(page[q], right)]

(* The caller splits the leaf in which an insertion met PageFull, with a   *)
(* page it has prepared.  An error leaves both pages as they are by then.  *)
split_and_insert(r, right) ==
    LET p == Route(r.key)
        halves == Halves(page[p], page[right], r)
    IN  /\ ~search_page(page[p], r.key).found /\ ~Fits(page[p], r)
        /\ right # p /\ page[right].header.type = "LeafNode"
        /\ right \notin Leaves \/ get_item_count(page[right]) # 0
        /\ IF get_item_count(page[right]) # 0 THEN Refuse("NewRightSiblingNotEmpty")
           ELSE IF ~halves.ok
           THEN /\ Write([q \in {p, right} |-> IF q = p THEN halves.left ELSE halves.right],
                      "SplitFailed")
                /\ UNCHANGED tree
           ELSE /\ Write(Linked(halves, p, right, get_next_leaf_index(p)), "Inserted")
                /\ tree' = InsertAt(tree, Place(r.key) + 1,
                                    [separator |-> halves.separator, leaf |-> right])

-----------------------------------------------------------------------------
(* Mutant: the slots of the right sibling are not counted. *)
UsedWithoutSlots(pg) == RecordBytes(pg.records)

(* merge(): the bytes and the slots of the right sibling must fit into the *)
(* free block of the left.                                                 *)
TotalUsed(pg) == CAPACITY - get_free_space(pg)

MergeFits(left, right) == TotalUsed(right) <= get_free_space_contiguous(left)

merge(p) ==
    LET right == get_next_leaf_index(p)
        next == get_next_leaf_index(right)
        all == AppendAll(page[p], page[right].records)
    IN  /\ p \in Leaves /\ right # INVALID_PAGE_INDEX
        /\ IF ~MergeFits(page[p], page[right]) THEN Refuse("InsufficientSpaceForMerge")
           ELSE IF ~all.ok THEN Write(Only(p, all.page), "InsertRecordFailed") /\ UNCHANGED tree
           ELSE /\ Write([q \in {p, right} \cup ({next} \ {INVALID_PAGE_INDEX}) |->
                       CASE q = p     -> set_next_leaf_index(all.page, next)
                         [] q = right -> initialize("Invalid", None)
                         [] OTHER     -> set_prev_leaf_index(page[q], p)], "Ok")
                /\ tree' = RemoveAt(tree, CHOOSE i \in DOMAIN tree : tree[i].leaf = right)

Next ==
    /\ Intact
    /\ \/ \E p \in Pages : Prepare(p)
       \/ \E r \in Record :
            \/ insert_record(r)
            \/ insert_raw_record(r)
            \/ append_last(r)
            \/ update_record(r)
            \/ \E right \in Pages : split_and_insert(r, right)
       \/ \E key \in Keys : delete_record(key)
       \/ \E p \in Pages : compact(p) \/ merge(p)

Spec == Init /\ [][Next]_vars

-----------------------------------------------------------------------------
(* Following next pointers from the first leaf meets every leaf of the     *)
(* tree in its order and ends there, and the keys ascend: no split or      *)
(* merge cuts off a part of the chain.                                     *)
ScanInOrder ==
    Intact =>
        LET scan == [i \in DOMAIN tree |-> tree[i].leaf]
            keys(i) == {page[scan[i]].records[j].key : j \in DOMAIN page[scan[i]].records}
        IN  /\ scan[1] = Root
            /\ \A i \in DOMAIN scan :
                get_next_leaf_index(scan[i]) = IF i = Len(scan) THEN INVALID_PAGE_INDEX ELSE scan[i + 1]
            /\ \A p \in Leaves : \A i \in 2 .. get_item_count(page[p]) :
                page[p].records[i - 1].key < page[p].records[i].key
            /\ \A i, j \in DOMAIN scan : i < j => \A k \in keys(i), m \in keys(j) : k < m

(* Through all insertions, splits and merges, the separators lead to the   *)
(* leaf that has a key, and the binary search finds its slot there, or the *)
(* slot that keeps the page sorted.                                        *)
SearchFinds ==
    Intact => \A key \in Keys :
        LET pg == page[Route(key)]
            slot == search_page(pg, key)
        IN  /\ slot.found <=> \E p \in Leaves : \E i \in DOMAIN page[p].records :
                                page[p].records[i].key = key
            /\ slot.slot = Cardinality({i \in DOMAIN pg.records : pg.records[i].key < key})

(* The previous pointer of a leaf is never stale: it is missing, or it is  *)
(* the leaf whose next pointer leads here.  (A split forgets the previous  *)
(* pointer of the leaf that it splits, so that it may be missing.)         *)
BackPointers ==
    Intact => \A p \in Leaves :
        get_prev_leaf_index(p) # INVALID_PAGE_INDEX =>
            get_prev_leaf_index(p) \in Leaves /\ get_next_leaf_index(get_prev_leaf_index(p)) = p

(* The low word of the parent, all that a page index needs, survives every *)
(* split, although the previous sibling is stored over the high word and   *)
(* is read back, and written again, as a part of the parent.               *)
ParentSurvives == \A p \in Leaves : page[p].header.low = parent[p][1]

(* Once the space check of merge() has passed, every record is appended:   *)
(* a merge never leaves records on both pages.                             *)
MergeWhole == result # "InsertRecordFailed"

(* Records of one size, as of a table without text, blob or null values,  *)
(* are always split into two halves that fit, if a page holds two of them, *)
(* whichever holes the page has and wherever the new key goes.             *)
UniformSplitsSucceed ==
    Intact => \A r \in Record :
        LET left == page[Route(r.key)] IN
        /\ 2 * (r.size + SLOT_SIZE) <= CAPACITY
        /\ \A i \in DOMAIN left.records : left.records[i].size = r.size
        /\ ~search_page(left, r.key).found /\ ~Fits(left, r)
        => Halves(left, initialize("LeafNode", None), r).ok

(* The records on the leaves of the tree; ScanInOrder says a scan meets them. *)
Stored == UNION {Range(page[p].records) : p \in Leaves}

(* The chain is a map from keys to records: every call inserts, changes or *)
(* removes the one record it is about, and splits and merges, however the  *)
(* records move, lose and invent none, unless a split returns an error.    *)
Map == INSTANCE KeyMap WITH stored <- Stored
ImplementsKeyMap == Map!Spec

(* The promise of the comment on split_and_insert(): it distributes the    *)
(* records over two pages.  It does not if they are large: see the README. *)
SplitKeepsRecords == result # "SplitFailed"
=============================================================================
