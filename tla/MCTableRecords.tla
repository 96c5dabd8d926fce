---------------------------- MODULE MCTableRecords ----------------------------
(***************************************************************************)
(* Bytes of two bits: three columns need two bytes of bitmap, an i32 has   *)
(* eight bits and a float sixteen.  Well-formed and refused inputs of      *)
(* every constructor, and values at the edges of their types.              *)
(***************************************************************************)
EXTENDS TableRecords

MCNaT == -1

Column(name, text, nullable) ==
    [name |-> name, text |-> text, is_nullable |-> nullable, default_value |-> <<>>]
Bare(name) == Text(name, "none", <<>>)
With(name, args) == Text(name, "closed", args)

MCColumnInputs ==
    {Column("a", Bare("INTEGER"), FALSE), Column("b", With("VARCHAR", <<2>>), TRUE),
     Column("c", Bare("DOUBLE"), FALSE), Column("d", With("DECIMAL", <<3, 2>>), TRUE),
     Column("e", Bare("BIGINT"), FALSE), Column("f", With("BLOB", <<1>>), TRUE)}

(* One input for each way to refuse a column, or to parse a type. *)
Refused ==
    {Column("SPACES", Bare("INT"), FALSE), Column("g", Bare("EMPTY"), FALSE),
     Column("g", Bare("SERIAL"), FALSE), Column("g", Text("BLOB", "open", <<>>), FALSE),
     Column("g", Bare("VARCHAR"), FALSE), Column("g", With("BOOL", <<1>>), FALSE),
     Column("g", With("DECIMAL", <<2, 3>>), FALSE), Column("g", With("DECIMAL", <<2>>), FALSE),
     Column("g", With("VARCHAR", <<NaT>>), FALSE), Column("g", With("DECIMAL", <<U8_MAX + 1, 0>>), FALSE),
     [Column("g", Bare("INT"), TRUE) EXCEPT !.default_value = <<"SPACES">>]}
MCAllColumnInputs == MCColumnInputs \cup Refused

Constraint(kind, name, columns, other, referenced) ==
    [kind |-> kind, name |-> name, columns |-> columns, table |-> other,
     referenced |-> referenced, on_update |-> "NoAction", on_delete |-> "Cascade"]
MCConstraintInputs ==
    {Constraint("PrimaryKey", "pk", names, "EMPTY", <<>>) :
        names \in {<<"a">>, <<"c">>, <<"d">>, <<"a", "b">>, <<"b", "a">>, <<"c", "z">>}}
    \cup {Constraint("PrimaryKey", "pk2", <<"b">>, "EMPTY", <<>>),
          Constraint("PrimaryKey", "SPACES", <<"a">>, "EMPTY", <<>>),
          Constraint("UniqueKey", "uk", <<"a">>, "EMPTY", <<>>),
          Constraint("UniqueKey", "uk", <<>>, "EMPTY", <<>>),
          Constraint("ForeignKey", "fk", <<"a">>, "t", <<"b">>),
          Constraint("ForeignKey", "fk", <<"a">>, "SPACES", <<"b">>),
          Constraint("ForeignKey", "fk", <<"a">>, "t", <<"SPACES">>),
          Constraint("ForeignKey", "fk", <<"a">>, "t", <<"b", "c">>)}

Value(variant, data) == [variant |-> variant, data |-> data]
MCValues ==
    {Null, Value("Int", <<-128>>), Value("Int", <<5>>), Value("BigInt", <<-300>>),
     Value("Float", <<0>>), Value("Float", <<SignBit>>), Value("Float", <<SignBit + 7>>),
     Value("Float", <<INF_MAGNITUDE + 1>>), Value("Float", <<SignBit + INF_MAGNITUDE + 2>>),
     Value("Text", <<>>), Value("Text", <<3, 1>>), Value("Blob", <<2>>),
     Value("Decimal", <<5, 1>>), Value("Decimal", <<-50, 2>>), Value("Decimal", <<50, 2>>)}
=============================================================================
