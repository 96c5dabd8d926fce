------------------------------ MODULE RecordCodec ------------------------------
(***************************************************************************)
(* The bytes of a record (crates/storage/src/record_serializer.rs): a      *)
(* bitmap of the null columns, the values of fixed size, and the values of *)
(* variable size behind their lengths.  A byte has BITS bits, so that the  *)
(* bitmap needs a second byte after BITS columns.  What a call returns is  *)
(* [err, made]; a panic is the error "Panic".                              *)
(***************************************************************************)
EXTENDS DataModel, Schema, SequencesExt

SerializationError ==
    {"DataTypeMismatch", "PrimaryKeyNotFound", "NullPrimaryKeyColumnValue",
     "NullValueForNonNullColumnFound"}

-----------------------------------------------------------------------------
(* A number without its lowest digits in base b, by how many, and the      *)
(* number whose digits are given, lowest first.                            *)
Shift(b, n) ==
    LET rest[i \in Nat] == IF i = 0 THEN n ELSE rest[i - 1] \div b
    IN  rest
Joined(b, digits) ==
    LET last[k \in 0 .. Len(digits)] ==
            IF k = 0 THEN 0 ELSE digits[Len(digits) - k + 1] + b * last[k - 1]
    IN  last[Len(digits)]

(* Little-endian bytes, two's complement. *)
to_le_bytes(n, size) == [i \in 1 .. size |-> Shift(Base, n % Power(Base)[size])[i - 1] % Base]
Unsigned(bytes) == Joined(Base, bytes)
from_le_bytes(bytes) ==
    LET n == Unsigned(bytes)
        range == Power(Base)[Len(bytes)]
    IN  IF 2 * n >= range THEN n - range ELSE n

(* The 16 bytes of a decimal: its scale, its sign, and its magnitude. *)
decimal_bytes(d) ==
    to_le_bytes(d[2], 3) \o <<IF d[1] < 0 THEN 1 ELSE 0>> \o to_le_bytes(Abs(d[1]), 12)
decimal_from(bytes) ==
    LET magnitude == Unsigned(SubSeq(bytes, 5, 16))
    IN  <<IF bytes[4] = 1 THEN -magnitude ELSE magnitude, Unsigned(SubSeq(bytes, 1, 3))>>

get_null_bitmap_size(columns) == (Len(columns) + BITS - 1) \div BITS

(* The bits of byte b, and the byte. *)
NullBits(columns, record, b) ==
    [j \in 1 .. BITS |-> LET i == (b - 1) * BITS + j
                         IN  IF i \in DOMAIN columns /\ record[i] = Null THEN 1 ELSE 0]
null_bitmap(columns, record) ==
    [b \in 1 .. get_null_bitmap_size(columns) |-> Joined(2, NullBits(columns, record, b))]

is_col_value_null(bytes, index) == Shift(2, bytes[index \div BITS + 1])[index % BITS] % 2 = 1

-----------------------------------------------------------------------------
(* Mutant: every integer is written in eight bytes. *)
FixedBytesWide(value, size) ==
    CASE value.variant = "Boolean" -> [i \in 1 .. size |-> IF i = 1 THEN value.data[1] ELSE 0]
      [] value.variant = "Decimal" -> decimal_bytes(value.data)
      [] OTHER                     -> to_le_bytes(value.data[1], 8)

(* The bytes of a value; a boolean is one byte in a field of any size. *)
FixedBytes(value, size) ==
    CASE value.variant = "Int"     -> to_le_bytes(value.data[1], 4)
      [] value.variant = "Boolean" -> [i \in 1 .. size |-> IF i = 1 THEN value.data[1] ELSE 0]
      [] value.variant = "Decimal" -> decimal_bytes(value.data)
      [] OTHER                     -> to_le_bytes(value.data[1], 8)
VariableBytes(value) == to_le_bytes(Len(value.data), LENGTH_SIZE) \o value.data

(* What the value of a column does to serialize(): a value of the wrong    *)
(* width panics, and so does one of the wrong kind in the last column of   *)
(* variable size, for which no length was calculated.                      *)
Variable(value) == value.variant \in {"Text", "Blob"}
ColumnError(columns, record, i) ==
    LET size == get_fixed_size(columns[i].data_type) IN
    IF record[i] = Null THEN "None"
    ELSE IF HasFixedSize(columns[i].data_type)
    THEN IF Variable(record[i]) THEN "DataTypeMismatch"
         ELSE IF Len(FixedBytes(record[i], size)) # size THEN "Panic" ELSE "None"
    ELSE IF Variable(record[i]) THEN "None"
    ELSE IF \E j \in DOMAIN columns : j > i /\ ~HasFixedSize(columns[j].data_type) /\ Variable(record[j])
    THEN "DataTypeMismatch" ELSE "Panic"

(* What a column adds to the fixed, and to the variable part of a record. *)
FixedPart(columns, record) ==
    [i \in DOMAIN columns |->
        IF record[i] = Null \/ ~HasFixedSize(columns[i].data_type) THEN <<>>
        ELSE FixedBytes(record[i], get_fixed_size(columns[i].data_type))]
VariablePart(columns, record) ==
    [i \in DOMAIN columns |->
        IF record[i] = Null \/ HasFixedSize(columns[i].data_type) THEN <<>>
        ELSE VariableBytes(record[i])]

serialize(columns, record) ==
    LET errors == {i \in DOMAIN columns : ColumnError(columns, record, i) # "None"}
    IN  IF errors # {} THEN Err(ColumnError(columns, record, Min(errors)))
        ELSE Ok(null_bitmap(columns, record)
                \o FlattenSeq(FixedPart(columns, record))
                \o FlattenSeq(VariablePart(columns, record)))

-----------------------------------------------------------------------------
(* Reading: where the fixed and the variable values end, after each of the *)
(* columns.                                                                *)
FixedOffsets(columns, bytes) ==
    LET offset[i \in 0 .. Len(columns)] ==
            IF i = 0 THEN get_null_bitmap_size(columns)
            ELSE IF is_col_value_null(bytes, i - 1) \/ ~is_fixed_type(columns[i]) THEN offset[i - 1]
            ELSE offset[i - 1] + get_fixed_size(columns[i].data_type)
    IN  offset

get_variable_length_data_offset(columns, bytes) == FixedOffsets(columns, bytes)[Len(columns)]

Slice(bytes, offset, size) == SubSeq(bytes, offset + 1, offset + size)
LengthAt(bytes, offset) == from_le_bytes(Slice(bytes, offset, LENGTH_SIZE))

(* Mutant: the length of a value that is passed over is not added. *)
VariableOffsetsShort(columns, bytes) ==
    [i \in 0 .. Len(columns) |-> get_variable_length_data_offset(columns, bytes)]

VariableOffsets(columns, bytes) ==
    LET offset[i \in 0 .. Len(columns)] ==
            IF i = 0 THEN get_variable_length_data_offset(columns, bytes)
            ELSE IF is_col_value_null(bytes, i - 1) \/ is_fixed_type(columns[i]) THEN offset[i - 1]
            ELSE offset[i - 1] + LENGTH_SIZE + LengthAt(bytes, offset[i - 1])
    IN  offset

deserialize_fixed_sized_col_value(column, field) ==
    LET name == column.data_type.name IN
    [variant |-> name,
     data |-> CASE name = "Boolean" -> <<IF field[1] # 0 THEN 1 ELSE 0>>
                [] name = "Decimal" -> decimal_from(field)
                [] name = "Float"   -> <<Unsigned(field)>>
                [] OTHER            -> <<from_le_bytes(field)>>]

deserialize_variable_sized_col_value(column, rest, data_size) ==
    [variant |-> IF column.data_type.name = "Varchar" THEN "Text" ELSE "Blob",
     data |-> Slice(rest, 0, data_size)]

deserialize_col_value(columns, bytes, i) ==
    LET offset == VariableOffsets(columns, bytes)[i - 1]
        rest == SubSeq(bytes, offset + LENGTH_SIZE + 1, Len(bytes))
    IN  IF is_fixed_size(columns[i].data_type)
        THEN deserialize_fixed_sized_col_value(columns[i],
                 Slice(bytes, FixedOffsets(columns, bytes)[i - 1], get_fixed_size(columns[i].data_type)))
        ELSE deserialize_variable_sized_col_value(columns[i], rest, LengthAt(bytes, offset))

deserialize(columns, bytes) ==
    IF \E i \in DOMAIN columns : is_col_value_null(bytes, i - 1) /\ ~columns[i].is_nullable
    THEN Err("NullValueForNonNullColumnFound")
    ELSE Ok([i \in DOMAIN columns |->
                IF is_col_value_null(bytes, i - 1) THEN Null
                ELSE deserialize_col_value(columns, bytes, i)])

-----------------------------------------------------------------------------
(* Keys.  A key is read in the order of its own columns. *)
Position(columns, name) == CHOOSE i \in DOMAIN columns : columns[i].name = name

(* Mutant: the key values come in the order of the table. *)
deserialize_key_unordered(record_cols, key_cols, bytes) ==
    LET found == SelectSeq([i \in DOMAIN record_cols |-> i], LAMBDA i :
                     \E k \in DOMAIN key_cols : key_cols[k].name = record_cols[i].name)
    IN  IF \E k \in DOMAIN found : is_col_value_null(bytes, found[k] - 1)
        THEN Err("NullPrimaryKeyColumnValue")
        ELSE Ok([k \in DOMAIN found |-> deserialize_col_value(record_cols, bytes, found[k])])

deserialize_key(record_cols, key_cols, bytes) ==
    LET at(k) == Position(record_cols, key_cols[k].name)
    IN  IF \E k \in DOMAIN key_cols : is_col_value_null(bytes, at(k) - 1)
        THEN Err("NullPrimaryKeyColumnValue")
        ELSE Ok([k \in DOMAIN key_cols |-> deserialize_col_value(record_cols, bytes, at(k))])

deserialize_primary_key(table, bytes) ==
    IF get_primary_key(table) = <<>> THEN Err("PrimaryKeyNotFound")
    ELSE IF Missing(table, get_primary_key(table)[1].column_names) THEN Err("Panic")
    ELSE deserialize_key(table.columns, get_primary_key_columns(table), bytes)

(* Record::get_primary_key() inserts the values of the key columns, in the *)
(* order of the table, each at its index in the key: Vec::insert panics    *)
(* when fewer values are there.                                            *)
KeyIndex(names, name) == (CHOOSE k \in DOMAIN names : names[k] = name) - 1
WithKeyValue(key, index, value) ==
    IF key.err # "None" \/ index > Len(key.made) THEN Err("Panic")
    ELSE Ok(InsertAt(key.made, index + 1, value))

key_of_record(table, record) ==
    LET names == col_names(get_primary_key(table)[1])
        key[i \in 0 .. Len(table.columns)] ==
            IF i = 0 THEN Ok(<<>>)
            ELSE IF \A k \in DOMAIN names : names[k] # table.columns[i].name THEN key[i - 1]
            ELSE WithKeyValue(key[i - 1], KeyIndex(names, table.columns[i].name), record[i])
    IN  IF get_primary_key(table) = <<>> THEN Err("Panic") ELSE key[Len(table.columns)]
=============================================================================
