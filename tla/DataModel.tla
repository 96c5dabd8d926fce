------------------------------- MODULE DataModel -------------------------------
(***************************************************************************)
(* Values, keys and their order (crates/data_model).  A value is its       *)
(* variant and a sequence: one number for the variants that hold one, the  *)
(* bytes of a text or a blob, mantissa and scale of a decimal.  A float is *)
(* its bits, sign and magnitude, as the IEEE formats order them.           *)
(***************************************************************************)
EXTENDS Integers, Sequences, FiniteSetsExt

CONSTANTS
    BITS,           \* bits of a byte: 8 in the code
    INF_MAGNITUDE,  \* the bits of infinity; larger magnitudes are NaN
    MAX_SCALE       \* of a decimal: 28 in rust_decimal

ASSUME BitsAssumption == BITS \in Nat \ {0} /\ INF_MAGNITUDE \in Nat \ {0}

LENGTH_SIZE == 4    \* size_of::<i32>()

(* The powers of a number, as a function that proofs can unfold. *)
Power(b) ==
    LET power[n \in Nat] == IF n = 0 THEN 1 ELSE b * power[n - 1]
    IN  power

Base == Power(2)[BITS]
SignBit == Power(Base)[8] \div 2

ASSUME ScaleAssumption == MAX_SCALE \in Nat /\ MAX_SCALE < Power(Base)[3]

Variants == <<"Null", "Int", "BigInt", "Boolean", "Float", "Text", "Blob", "DateTime", "Decimal">>
Null == [variant |-> "Null", data |-> <<>>]

Abs(n) == IF n < 0 THEN -n ELSE n

(* What a DataValue can be: the integers of its width, bytes whose number  *)
(* an i32 can tell, a mantissa of 96 bits.                                 *)
Signed(size) == {n \in Int : -Power(Base)[size] <= 2 * n /\ 2 * n < Power(Base)[size]}
Holds(variant, data) ==
    CASE variant = "Null"    -> data = <<>>
      [] variant = "Int"     -> data = <<data[1]>> /\ data[1] \in Signed(4)
      [] variant = "Boolean" -> data \in {<<0>>, <<1>>}
      [] variant = "Float"   -> data = <<data[1]>> /\ data[1] \in 0 .. (Power(Base)[8] - 1)
      [] variant = "Decimal" -> /\ data = <<data[1], data[2]>> /\ data[1] \in Int
                                /\ Abs(data[1]) < Power(Base)[12] /\ data[2] \in 0 .. MAX_SCALE
      [] variant \in {"Text", "Blob"} ->
             data \in Seq(0 .. (Base - 1)) /\ 2 * Len(data) < Power(Base)[LENGTH_SIZE]
      [] OTHER -> data = <<data[1]>> /\ data[1] \in Signed(8)
IsDataValue(v) ==
    /\ v = [variant |-> v.variant, data |-> v.data]
    /\ \E i \in DOMAIN Variants : v.variant = Variants[i]
    /\ Holds(v.variant, v.data)

Sign(n) == IF n < 0 THEN -1 ELSE IF n > 0 THEN 1 ELSE 0

(* Lexicographic order of two sequences, from the order of their elements  *)
(* in each place that both have.                                           *)
Lexicographic(s, t, order) ==
    LET differ == {i \in DOMAIN s \cap DOMAIN t : order[i] # 0}
    IN  IF differ = {} THEN Sign(Len(s) - Len(t)) ELSE order[Min(differ)]

-----------------------------------------------------------------------------
(* OrderedFloat: the comparisons of the hardware, completed for NaN. *)
Magnitude(f) == f % SignBit
is_nan(f) == Magnitude(f) > INF_MAGNITUDE
Number(f) == IF f >= SignBit THEN -Magnitude(f) ELSE Magnitude(f)

float_eq(f, g) ==
    IF is_nan(f) /\ is_nan(g) THEN TRUE
    ELSE ~is_nan(f) /\ ~is_nan(g) /\ Number(f) = Number(g)

(* Mutants: the comparison of the hardware alone, in which a NaN is neither *)
(* less nor greater; a hash of the bits as they are.                        *)
float_cmp_partial(f, g) == IF is_nan(f) \/ is_nan(g) THEN 0 ELSE Sign(Number(f) - Number(g))
float_hash_bits(f) == f

float_cmp(f, g) ==
    IF ~is_nan(f) /\ ~is_nan(g) THEN Sign(Number(f) - Number(g))
    ELSE IF is_nan(f) THEN (IF is_nan(g) THEN 0 ELSE 1) ELSE -1

float_hash(f) ==
    IF ~is_nan(f) /\ Number(f) = 0 THEN 0
    ELSE IF is_nan(f) THEN INF_MAGNITUDE + 1 ELSE f

-----------------------------------------------------------------------------
(* DataValue, whose comparisons are derived: by variant, then by content.  *)
Rank(v) == CHOOSE i \in DOMAIN Variants : Variants[i] = v.variant

decimal_cmp(d, e) == Sign(d[1] * Power(10)[e[2]] - e[1] * Power(10)[d[2]])

value_cmp(v, w) ==
    IF v.variant # w.variant THEN Sign(Rank(v) - Rank(w))
    ELSE CASE v.variant = "Float"   -> float_cmp(v.data[1], w.data[1])
           [] v.variant = "Decimal" -> decimal_cmp(v.data, w.data)
           [] OTHER -> Lexicographic(v.data, w.data,
                   [i \in DOMAIN v.data \cap DOMAIN w.data |-> Sign(v.data[i] - w.data[i])])

value_eq(v, w) ==
    /\ v.variant = w.variant
    /\ CASE v.variant = "Float"   -> float_eq(v.data[1], w.data[1])
         [] v.variant = "Decimal" -> decimal_cmp(v.data, w.data) = 0
         [] OTHER -> v.data = w.data

(* What a value feeds into a hash; equal decimals hash alike. *)
value_hash(v) ==
    CASE v.variant = "Float"   -> <<Rank(v), float_hash(v.data[1])>>
      [] v.variant = "Decimal" -> <<Rank(v), v.data[1] * Power(10)[MAX_SCALE - v.data[2]]>>
      [] OTHER -> <<Rank(v)>> \o v.data

(* The decimal digits of a number of at most 96 bits. *)
Digits(n) == CHOOSE d \in 1 .. 29 : n < Power(10)[d] /\ (d = 1 \/ n >= Power(10)[d - 1])
DecimalFits(d, type) ==
    LET integer_part == Abs(d[1]) \div Power(10)[d[2]]
    IN  /\ d[2] <= type.args[2]
        /\ integer_part = 0 \/ Digits(integer_part) <= type.args[1] - type.args[2]

is_compatible(v, type) ==
    CASE v.variant = "Null"    -> TRUE
      [] v.variant = "Int"     -> type.name \in {"Int", "BigInt"}
      [] v.variant = "Text"    -> type.name = "Varchar" /\ Len(v.data) <= type.args[1]
      [] v.variant = "Blob"    -> type.name = "Blob" /\ Len(v.data) <= type.args[1]
      [] v.variant = "Decimal" -> type.name = "Decimal" /\ DecimalFits(v.data, type)
      [] OTHER -> type.name = v.variant

-----------------------------------------------------------------------------
(* Key, a vector of values. *)
key_cmp(k, l) == Lexicographic(k, l, [i \in DOMAIN k \cap DOMAIN l |-> value_cmp(k[i], l[i])])
key_eq(k, l) == Len(k) = Len(l) /\ \A i \in DOMAIN k : value_eq(k[i], l[i])

(* Which of the comparisons ==, > and < that the search tries holds first. *)
key_relation(k, l) ==
    IF key_eq(k, l) THEN "equal"
    ELSE CASE key_cmp(k, l) = 1  -> "greater"
           [] key_cmp(k, l) = -1 -> "less"
           [] OTHER              -> "none"
=============================================================================
