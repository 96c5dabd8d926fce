----------------------------- MODULE TableRecords -----------------------------
(***************************************************************************)
(* A table from its definition to its stored records: types are parsed,    *)
(* columns and constraints added, and records inserted into a sorted list  *)
(* as LeafNodeView::insert_record() does it, with the key taken from the   *)
(* record and compared with the keys read back from stored bytes.  Space   *)
(* is the subject of LeafChain; here it does not run out.                  *)
(*                                                                         *)
(* The caller gives columns and constraints names that are not taken, puts *)
(* a column into a key once, adds columns before the first record, and     *)
(* stores only values that is_compatible() accepts.                        *)
(***************************************************************************)
EXTENDS RecordCodec, Ops

CONSTANTS
    TableNames,
    ColumnInputs,      \* [name, text, is_nullable, default_value] of new columns
    ConstraintInputs,  \* [kind, name, columns, ...] of new constraints
    Values,
    MaxColumns,        \* bounds on columns, on constraints,
    MaxConstraints,
    MaxSize            \* and on columns, constraints and records together

ASSUME LimitsAssumption ==
    {U8_MAX, U16_MAX, U32_MAX} \subseteq Nat /\ 18 <= U8_MAX /\ NaT \notin Nat

ASSUME InputsAssumption ==
    /\ \A v \in Values : IsDataValue(v)
    /\ ColumnInputs \subseteq
          [name : STRING, is_nullable : BOOLEAN, default_value : Seq(STRING),
           text : [name : STRING, parens : {"none", "open", "closed"}, args : Seq(Nat \cup {NaT})]]
    /\ \A c \in ConstraintInputs :
          /\ c.columns \in Seq(STRING)
          /\ \A i, j \in DOMAIN c.columns : c.columns[i] = c.columns[j] => i = j

VARIABLES
    table,             \* the definition, or <<>>
    rows,              \* the bytes of the stored records, in the order of their keys
    records,           \* history: the records as they were inserted
    result             \* what the last call did

vars == <<table, rows, records, result>>

Init == table = <<>> /\ rows = <<>> /\ records = <<>> /\ result = "Ok"

Room == Len(table.columns) + Len(table.constraints) + Len(rows) < MaxSize

(* The definition after a constructor, which may have refused its input. *)
Define(constructed, updated) ==
    /\ \/ constructed.err = "None" /\ table' = updated /\ result' = "Ok"
       \/ constructed.err \in SchemaError /\ UNCHANGED table /\ result' = "Refused"
    /\ UNCHANGED <<rows, records>>

CreateTable(name) == table = <<>> /\ Define(new_table(name), new_table(name).made)

AddColumn(c) ==
    /\ table # <<>> /\ Room /\ Len(table.columns) < MaxColumns
    /\ rows = <<>> /\ get_column(table, c.name) = <<>>
    /\ LET type == from_str(c.text)
           column == IF type.err # "None" THEN type
                     ELSE new_column(c.name, type.made, c.is_nullable, c.default_value)
       IN  Define(column, add_column(table, column.made))

AddConstraint(c) ==
    /\ table # <<>> /\ Room /\ Len(table.constraints) < MaxConstraints
    /\ get_constraint(table, c.name) = <<>>
    /\ {c.on_update, c.on_delete} \subseteq ReferentialAction
    /\ LET constraint ==
               CASE c.kind = "PrimaryKey" -> primary_key(c.name, c.columns)
                 [] c.kind = "UniqueKey"  -> unique_key(c.name, c.columns)
                 [] OTHER -> foreign_key(c.name, c.columns, c.table, c.referenced,
                                         c.on_update, c.on_delete)
       IN  Define(constraint, add_constraint(table, constraint.made))

-----------------------------------------------------------------------------
(* The search for the key of a record among the stored ones; a stored key  *)
(* that cannot be read stops it, as do keys that do not compare.           *)
StoredKey(slot) == deserialize_primary_key(table, rows[slot + 1])
Search(key) ==
    find_key(Len(rows), [slot \in 0 .. (Len(rows) - 1) |->
        IF StoredKey(slot).err # "None" THEN "unreadable" ELSE key_relation(key, StoredKey(slot).made)])

Outcome(record) ==
    LET key == key_of_record(table, record)
        slot == Search(key.made)
    IN  IF key.err # "None" THEN "Panic"
        ELSE IF ~slot.ends THEN IF StoredKey(slot.mid).err # "None" THEN "Panic" ELSE "Hangs"
        ELSE IF slot.found THEN "DuplicateKey"
        ELSE IF serialize(table.columns, record).err # "None" THEN "Panic" ELSE "Ok"

insert_record(record) ==
    LET outcome == Outcome(record)
        slot == Search(key_of_record(table, record).made).slot + 1
    IN
    \/ /\ outcome = "Ok"
       /\ rows' = InsertAt(rows, slot, serialize(table.columns, record).made)
       /\ records' = InsertAt(records, slot, record)
       /\ result' = "Ok"
       /\ UNCHANGED table
    \/ /\ outcome # "Ok"
       /\ result' = IF outcome = "DuplicateKey" THEN "Refused" ELSE outcome
       /\ UNCHANGED <<table, rows, records>>

(* The records whose values fit the columns of the table. *)
Candidates ==
    LET fitting == [i \in DOMAIN table.columns |->
                       {v \in Values : is_compatible(v, table.columns[i].data_type)}]
    IN  {r \in [DOMAIN table.columns -> UNION Range(fitting)] :
            \A i \in DOMAIN table.columns : r[i] \in fitting[i]}

Next ==
    \/ \E name \in TableNames : CreateTable(name)
    \/ \E c \in ColumnInputs : AddColumn(c)
    \/ \E c \in ConstraintInputs : AddConstraint(c)
    \/ /\ table # <<>> /\ Room
       /\ table.columns # <<>>
       /\ \E r \in Candidates : insert_record(r)

Spec == Init /\ [][Next]_vars

-----------------------------------------------------------------------------
Defined == table # <<>>

(* A stored record is a sequence of bytes, and reads back exactly as       *)
(* inserted, to the bits of its floats and the scale of its decimals,      *)
(* whichever columns are null and however many bytes of bitmap they take.  *)
(* The one exception is a null that serialize() let into a column that is  *)
(* not nullable: the record is stored, and every read of it is an error.   *)
RoundTrip ==
    \A i \in DOMAIN rows :
        /\ rows[i] \in Seq(0 .. (Base - 1))
        /\ deserialize(table.columns, rows[i]) =
            IF \E k \in DOMAIN table.columns : records[i][k] = Null /\ ~table.columns[k].is_nullable
            THEN Err("NullValueForNonNullColumnFound") ELSE Ok(records[i])

(* Any key, over whichever columns and in whichever order, is read from    *)
(* the bytes of a record as the values of those columns in that order,     *)
(* unless one of them is null.                                             *)
KeyAgrees ==
    \A i \in DOMAIN rows : \A k, l \in DOMAIN table.columns :
        LET at == IF k = l THEN <<k>> ELSE <<k, l>>
        IN  deserialize_key(table.columns, [j \in DOMAIN at |-> table.columns[at[j]]], rows[i]) =
                IF Null \in {records[i][at[j]] : j \in DOMAIN at} THEN Err("NullPrimaryKeyColumnValue")
                ELSE Ok([j \in DOMAIN at |-> records[i][at[j]]])

(* The stored records are in the order of their keys and no key is there   *)
(* twice, also when further constraints are added later: the key of a      *)
(* table with records never changes.                                       *)
IndexSorted ==
    \A i, j \in DOMAIN rows : i < j =>
        key_relation(key_of_record(table, records[i]).made,
                     key_of_record(table, records[j]).made) = "less"

(* Any two keys compare, NaN and both zeros included: the loop of the      *)
(* search, which has no branch for keys that do not, always ends.          *)
SearchEnds == result # "Hangs"

(* Keys that the search finds equal have the same hash, which the bits of  *)
(* the two zeros and of the NaNs would not.                                *)
EqualKeysHashAlike ==
    rows # <<>> =>
        LET keys == {key_of_record(table, r).made : r \in Candidates}
        IN  \A k, l \in keys :
                key_eq(k, l) => \A j \in DOMAIN k : value_hash(k[j]) = value_hash(l[j])

(* The text of a column's type parses to the same type. *)
TypeTextRoundTrip ==
    Defined => \A i \in DOMAIN table.columns :
        from_str(display(table.columns[i].data_type)) = Ok(table.columns[i].data_type)

(* An insertion of compatible values panics for four reasons only: there   *)
(* is no primary key; its columns are not in the order of the table, or    *)
(* not in the table; a stored record has a null in its key; an Int is      *)
(* stored in a BigInt column.                                              *)
KeyNames == col_names(get_primary_key(table)[1])
KeyInTableOrder ==
    ~Missing(table, KeyNames) /\ \A i, j \in DOMAIN KeyNames :
        i < j => Position(table.columns, KeyNames[i]) < Position(table.columns, KeyNames[j])
PanicsExplained ==
    /\ Defined /\ get_primary_key(table) # <<>>
    /\ KeyInTableOrder
    /\ \A i \in DOMAIN records : Null \notin Range(key_of_record(table, records[i]).made)
    => \A r \in Candidates : Outcome(r) = "Panic" =>
           \E k \in DOMAIN r : r[k].variant = "Int" /\ table.columns[k].data_type.name = "BigInt"

(* The promise of the comments in Record::get_primary_key(): a key is made *)
(* in the order in which it is declared.                                   *)
KeyExtracted ==
    Defined /\ get_primary_key(table) # <<>> => \A r \in Candidates :
        ~Missing(table, KeyNames) => key_of_record(table, r).err = "None"
=============================================================================
