------------------------------ MODULE RecordSizes ------------------------------
(***************************************************************************)
(* The bytes of a list of records: the loop over the slots of a page that  *)
(* adds up their sizes (crates/storage/src/slotted_page_view.rs), as the   *)
(* number of bytes, each told by its record and its position in it.        *)
(***************************************************************************)
EXTENDS Integers, Sequences, FiniteSets

BytesOf(records) == UNION {{k} \X (1 .. records[k].size) : k \in DOMAIN records}
RecordBytes(records) == Cardinality(BytesOf(records))
=============================================================================
