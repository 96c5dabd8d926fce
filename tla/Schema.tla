-------------------------------- MODULE Schema --------------------------------
(***************************************************************************)
(* Table definitions (crates/schema_def): data types and their text form,  *)
(* columns, constraints, tables.  "EMPTY" and "SPACES" stand for the names *)
(* that are blank; the text of a type is its upper case name, whether it   *)
(* has parentheses, and the numbers between them.  Constructors that can   *)
(* fail return [err], "None" when they succeed, with what they made.       *)
(***************************************************************************)
EXTENDS Integers, Sequences, FiniteSetsExt

CONSTANTS U8_MAX, U16_MAX, U32_MAX, NaT   \* NaT: an argument that is no number

Blank(name) == name \in {"EMPTY", "SPACES"}
Ok(what) == [err |-> "None", made |-> what]
Err(error) == [err |-> error, made |-> <<>>]

SchemaError ==
    {"ArgumentMismatch", "EmptyDefaultValue", "EmptyInput", "InvalidColumnName",
     "InvalidForeignKey", "InvalidFormat", "InvalidKeyName", "InvalidNumber",
     "InvalidTableName", "InvalidScale", "UnknownType"}

-----------------------------------------------------------------------------
(* PrimitiveDataType: a name and its arguments. *)
Type(name, args) == [name |-> name, args |-> args]

decimal(precision, scale) ==
    IF scale > precision THEN Err("InvalidScale") ELSE Ok(Type("Decimal", <<precision, scale>>))

is_fixed_size(type) == type.name \notin {"Blob", "Varchar", "Unknown"}

FixedSize ==
    [Int |-> 4, BigInt |-> 8, Boolean |-> 1, Decimal |-> 16, Float |-> 8, DateTime |-> 8]
HasFixedSize(type) == type.name \in DOMAIN FixedSize
get_fixed_size(type) == FixedSize[type.name]

TypeNames ==
    [INT |-> "Int", INTEGER |-> "Int", BIGINT |-> "BigInt", VARCHAR |-> "Varchar",
     BOOLEAN |-> "Boolean", BOOL |-> "Boolean", DECIMAL |-> "Decimal",
     DATETIME |-> "DateTime", FLOAT |-> "Float", DOUBLE |-> "Float", BLOB |-> "Blob"]

(* How many arguments a type takes, and the largest of each. *)
Arities(name) ==
    CASE name \in {"Varchar", "Blob"} -> {1}
      [] name = "Decimal"             -> {0, 2}
      [] OTHER                        -> {0}
Limit(name) ==
    CASE name = "Varchar" -> U16_MAX
      [] name = "Blob"    -> U32_MAX
      [] OTHER            -> U8_MAX

(* Display: the canonical name, and the arguments in parentheses. *)
Canonical ==
    [Unknown |-> "UNKNOWN", Int |-> "INT", BigInt |-> "BIGINT", Varchar |-> "VARCHAR",
     Boolean |-> "BOOLEAN", Decimal |-> "DECIMAL", DateTime |-> "DATETIME",
     Float |-> "FLOAT", Blob |-> "BLOB"]
Text(name, parens, args) == [name |-> name, parens |-> parens, args |-> args]

(* Mutant: the arguments of a decimal are not written. *)
display_short(type) ==
    Text(Canonical[type.name], IF type.name \in {"Varchar", "Blob"} THEN "closed" ELSE "none",
         IF type.name \in {"Varchar", "Blob"} THEN type.args ELSE <<>>)

display(type) ==
    Text(Canonical[type.name], IF type.args = <<>> THEN "none" ELSE "closed", type.args)

(* The arguments are parsed from the left; the first bad one is reported. *)
from_str(text) ==
    LET name == TypeNames[text.name]
        numbers == \A i \in DOMAIN text.args : text.args[i] # NaT /\ text.args[i] <= Limit(name)
    IN  IF Blank(text.name) /\ text.parens = "none" THEN Err("EmptyInput")
        ELSE IF text.parens = "open" THEN Err("InvalidFormat")
        ELSE IF text.name \notin DOMAIN TypeNames THEN Err("UnknownType")
        ELSE IF Len(text.args) \notin Arities(name) THEN Err("ArgumentMismatch")
        ELSE IF ~numbers THEN Err("InvalidNumber")
        ELSE IF name # "Decimal" THEN Ok(Type(name, text.args))
        ELSE IF text.args = <<>> THEN Ok(Type("Decimal", <<18, 0>>))
        ELSE decimal(text.args[1], text.args[2])

-----------------------------------------------------------------------------
(* ColumnDefinition.  A default value is <<>> or holds its text. *)
new_column(name, data_type, is_nullable, default_value) ==
    IF Blank(name) THEN Err("InvalidColumnName")
    ELSE IF default_value # <<>> /\ Blank(default_value[1]) THEN Err("EmptyDefaultValue")
    ELSE Ok([name |-> name, data_type |-> data_type, is_nullable |-> is_nullable,
             default_value |-> default_value])

is_fixed_type(column) == column.data_type.name \notin {"Blob", "Varchar"}

-----------------------------------------------------------------------------
(* Constraint *)
ReferentialAction == {"NoAction", "Cascade", "SetNull", "SetDefault"}

validate_columns(names) ==
    IF names = <<>> \/ \E i \in DOMAIN names : Blank(names[i]) THEN "InvalidColumnName" ELSE "None"

validate_key(name, names) == IF Blank(name) THEN "InvalidKeyName" ELSE validate_columns(names)

Key(kind, name, names) ==
    LET error == validate_key(name, names)
    IN  IF error # "None" THEN Err(error)
        ELSE Ok([kind |-> kind, name |-> name, column_names |-> names])
primary_key(name, names) == Key("PrimaryKey", name, names)
unique_key(name, names) == Key("UniqueKey", name, names)

foreign_key(name, referencing, table, referenced, on_update, on_delete) ==
    IF Blank(name) \/ Blank(table) \/ referenced = <<>> \/ referencing = <<>>
    THEN Err("InvalidForeignKey")
    ELSE IF validate_columns(referenced) # "None" \/ validate_columns(referencing) # "None"
    THEN Err("InvalidColumnName")
    ELSE IF Len(referenced) # Len(referencing) THEN Err("InvalidForeignKey")
    ELSE Ok([kind |-> "ForeignKey", name |-> name, referencing |-> referencing,
             table |-> table, referenced |-> referenced,
             on_update |-> on_update, on_delete |-> on_delete])

(* The columns of a key; a foreign key has none to offer. *)
col_names(constraint) ==
    IF constraint.kind = "ForeignKey" THEN <<>> ELSE constraint.column_names

-----------------------------------------------------------------------------
(* TableDefinition *)
new_table(name) ==
    IF Blank(name) THEN Err("InvalidTableName")
    ELSE Ok([table_id |-> 0, name |-> name, columns |-> <<>>, constraints |-> <<>>])

add_column(table, column) == [table EXCEPT !.columns = Append(@, column)]
add_constraint(table, constraint) == [table EXCEPT !.constraints = Append(@, constraint)]

(* <<>>, or the first element of a list, of those in the places that match. *)
Find(list, matches) == IF matches = {} THEN <<>> ELSE <<list[Min(matches)]>>

Named(list, name) == Find(list, {i \in DOMAIN list : list[i].name = name})
PrimaryKeys(table) == {i \in DOMAIN table.constraints : table.constraints[i].kind = "PrimaryKey"}

(* Mutant: the last primary key that was added is used. *)
get_last_primary_key(table) ==
    IF PrimaryKeys(table) = {} THEN <<>> ELSE <<table.constraints[Max(PrimaryKeys(table))]>>

get_column(table, name) == Named(table.columns, name)
get_constraint(table, name) == Named(table.constraints, name)
get_primary_key(table) == Find(table.constraints, PrimaryKeys(table))

(* The columns of the primary key in its order; a name that no column has  *)
(* panics, which Missing tells.                                            *)
Missing(table, names) == \E i \in DOMAIN names : get_column(table, names[i]) = <<>>
get_primary_key_columns(table) ==
    LET names == get_primary_key(table)[1].column_names
    IN  [i \in DOMAIN names |-> get_column(table, names[i])[1]]
=============================================================================
