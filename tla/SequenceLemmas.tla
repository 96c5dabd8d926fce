----------------------------- MODULE SequenceLemmas -----------------------------
(***************************************************************************)
(* What the proofs about pages and leaves need of sequences: insertion and *)
(* removal, as functions; the bytes of records, and how they add up; the   *)
(* least element of a set of numbers, which takes the place of induction.  *)
(***************************************************************************)
EXTENDS RecordSizes, Ops, SequencesExt, FiniteSetTheorems, SequenceTheorems, TLAPS

-----------------------------------------------------------------------------
(* Sequences: insertion and removal *)

(* InsertAt, element by element. *)
LEMMA InsertAtFunction ==
    ASSUME NEW S, NEW s \in Seq(S), NEW i \in 0 .. Len(s), NEW e \in S
    PROVE  InsertAt(s, i + 1, e) =
               [k \in 1 .. (Len(s) + 1) |->
                    IF k <= i THEN s[k] ELSE IF k = i + 1 THEN e ELSE s[k - 1]]
<1>1. PICK a : a = SubSeq(s, 1, i)
  OBVIOUS
<1>2. a \in Seq(S) /\ Len(a) = i /\ \A k \in 1 .. i : a[k] = s[k]
  BY <1>1, SubSeqProperties
<1>3. PICK b : b = a \o <<e>>
  OBVIOUS
<1>4. /\ b \in Seq(S) /\ Len(b) = i + 1
      /\ \A k \in 1 .. (i + 1) : b[k] = IF k <= i THEN s[k] ELSE e
  BY <1>2, <1>3, ConcatProperties
<1>5. PICK c : c = SubSeq(s, i + 1, Len(s))
  OBVIOUS
<1>6. c \in Seq(S) /\ Len(c) = Len(s) - i /\ \A k \in 1 .. (Len(s) - i) : c[k] = s[i + k]
  BY <1>5, SubSeqProperties
<1>7. PICK d : d = b \o c
  OBVIOUS
<1>8. /\ d \in Seq(S) /\ Len(d) = Len(b) + Len(c)
      /\ \A k \in 1 .. (Len(b) + Len(c)) : d[k] = IF k <= Len(b) THEN b[k] ELSE c[k - Len(b)]
  BY <1>4, <1>6, <1>7, ConcatProperties, Zenon
<1>9. InsertAt(s, i + 1, e) = d
  <2>1. SubSeq(s, 1, (i + 1) - 1) = a
    BY <1>1
  <2> QED
    BY <2>1, <1>3, <1>5, <1>7 DEF InsertAt
<1>10. Len(s) \in Nat /\ i \in Nat /\ Len(b) + Len(c) = Len(s) + 1
  BY <1>4, <1>6
<1>11. ASSUME NEW k \in 1 .. (Len(s) + 1)
       PROVE  d[k] = IF k <= i THEN s[k] ELSE IF k = i + 1 THEN e ELSE s[k - 1]
  <2>1. CASE k <= i + 1
    <3>1. k \in 1 .. (Len(b) + Len(c)) /\ k \in 1 .. (i + 1) /\ k <= Len(b)
      BY <2>1, <1>4, <1>10
    <3> QED
      BY <3>1, <2>1, <1>4, <1>8, <1>10
  <2>2. CASE k > i + 1
    <3>1. k - (i + 1) \in 1 .. (Len(s) - i)
      BY <2>2, <1>10
    <3>2. c[k - (i + 1)] = s[i + (k - (i + 1))]
      BY <3>1, <1>6
    <3>3. d[k] = c[k - (i + 1)]
      <4>1. k \in 1 .. (Len(b) + Len(c)) /\ ~(k <= Len(b))
        BY <2>2, <1>4, <1>10
      <4> QED
        BY <4>1, <1>4, <1>8
    <3>4. i + (k - (i + 1)) = k - 1
      OBVIOUS
    <3> QED
      BY <2>2, <3>2, <3>3, <3>4
  <2> QED
    BY <2>1, <2>2
<1>12. Len(d) = Len(s) + 1
  BY <1>4, <1>6, <1>8, <1>10
<1>13. d = [k \in 1 .. (Len(s) + 1) |-> d[k]]
  BY <1>8, <1>12
<1> QED
  BY <1>9, <1>11, <1>13

(* InsertAt makes a sequence. *)
LEMMA InsertAtType ==
    ASSUME NEW S, NEW s \in Seq(S), NEW i \in 0 .. Len(s), NEW e \in S
    PROVE  InsertAt(s, i + 1, e) \in Seq(S) /\ Len(InsertAt(s, i + 1, e)) = Len(s) + 1
<1>1. InsertAt(s, i + 1, e) =
          [k \in 1 .. (Len(s) + 1) |->
               IF k <= i THEN s[k] ELSE IF k = i + 1 THEN e ELSE s[k - 1]]
  BY InsertAtFunction
<1>2. Len(s) \in Nat /\ \A k \in 1 .. Len(s) : s[k] \in S
  OBVIOUS
<1>3. ASSUME NEW k \in 1 .. (Len(s) + 1)
      PROVE  (IF k <= i THEN s[k] ELSE IF k = i + 1 THEN e ELSE s[k - 1]) \in S
  <2>1. ~(k <= i) /\ k # i + 1 => k - 1 \in 1 .. Len(s)
    BY <1>2
  <2>2. k <= i => k \in 1 .. Len(s)
    BY <1>2
  <2> QED
    BY <2>1, <2>2, <1>2
<1> QED
  BY <1>1, <1>2, <1>3

(* RemoveAt, element by element. *)
LEMMA RemoveAtFunction ==
    ASSUME NEW S, NEW s \in Seq(S), NEW i \in 0 .. (Len(s) - 1)
    PROVE  RemoveAt(s, i + 1) =
               [k \in 1 .. (Len(s) - 1) |-> IF k <= i THEN s[k] ELSE s[k + 1]]
<1>1. PICK a : a = SubSeq(s, 1, i)
  OBVIOUS
<1>2. a \in Seq(S) /\ Len(a) = i /\ \A k \in 1 .. i : a[k] = s[k]
  BY <1>1, SubSeqProperties
<1>3. PICK c : c = SubSeq(s, i + 2, Len(s))
  OBVIOUS
<1>4. /\ c \in Seq(S) /\ Len(c) = Len(s) - i - 1
      /\ \A k \in 1 .. (Len(s) - i - 1) : c[k] = s[i + 1 + k]
  BY <1>3, SubSeqProperties
<1>5. PICK d : d = a \o c
  OBVIOUS
<1>6. /\ d \in Seq(S) /\ Len(d) = Len(a) + Len(c)
      /\ \A k \in 1 .. (Len(a) + Len(c)) : d[k] = IF k <= Len(a) THEN a[k] ELSE c[k - Len(a)]
  BY <1>2, <1>4, <1>5, ConcatProperties, Zenon
<1>7. RemoveAt(s, i + 1) = d
  <2>1. SubSeq(s, 1, (i + 1) - 1) = a /\ SubSeq(s, (i + 1) + 1, Len(s)) = c
    BY <1>1, <1>3
  <2> QED
    BY <2>1, <1>5 DEF RemoveAt
<1>8. Len(s) \in Nat
  OBVIOUS
<1>9. ASSUME NEW k \in 1 .. (Len(s) - 1)
      PROVE  d[k] = IF k <= i THEN s[k] ELSE s[k + 1]
  <2>1. CASE k <= i
    BY <2>1, <1>2, <1>4, <1>6, <1>8
  <2>2. CASE k > i
    <3>1. k - i \in 1 .. (Len(s) - i - 1)
      BY <2>2, <1>8
    <3>2. c[k - i] = s[i + 1 + (k - i)]
      BY <3>1, <1>4
    <3>3. d[k] = c[k - i]
      BY <2>2, <1>2, <1>4, <1>6, <1>8
    <3>4. i + 1 + (k - i) = k + 1
      OBVIOUS
    <3> QED
      BY <2>2, <3>2, <3>3, <3>4
  <2> QED
    BY <2>1, <2>2
<1>10. Len(d) = Len(s) - 1
  BY <1>2, <1>4, <1>6, <1>8
<1>11. d = [k \in 1 .. (Len(s) - 1) |-> d[k]]
  BY <1>6, <1>10
<1> QED
  BY <1>7, <1>9, <1>11

(* RemoveAt makes a sequence. *)
LEMMA RemoveAtType ==
    ASSUME NEW S, NEW s \in Seq(S), NEW i \in 0 .. (Len(s) - 1)
    PROVE  RemoveAt(s, i + 1) \in Seq(S) /\ Len(RemoveAt(s, i + 1)) = Len(s) - 1
<1>1. RemoveAt(s, i + 1) =
          [k \in 1 .. (Len(s) - 1) |-> IF k <= i THEN s[k] ELSE s[k + 1]]
  BY RemoveAtFunction
<1>2. Len(s) \in Nat /\ Len(s) - 1 \in Nat /\ \A k \in 1 .. Len(s) : s[k] \in S
  OBVIOUS
<1>3. ASSUME NEW k \in 1 .. (Len(s) - 1)
      PROVE  (IF k <= i THEN s[k] ELSE s[k + 1]) \in S
  <2>1. k \in 1 .. Len(s) /\ k + 1 \in 1 .. Len(s)
    BY <1>2
  <2> QED
    BY <2>1, <1>2
<1> QED
  BY <1>1, <1>2, <1>3

-----------------------------------------------------------------------------
(* The least element *)

(* A set of natural numbers has a least element. *)
LEMMA LeastNatural ==
    ASSUME NEW T \in SUBSET Nat, T # {}
    PROVE  \E x \in T : \A y \in T : x <= y
<1>1. PICK less : less = OpToRel(<, Nat)
  OBVIOUS
<1>2. PICK x \in T : \A y \in T : ~(<<y, x>> \in less)
  <2>1. IsWellFoundedOn(less, Nat)
    BY <1>1, NatLessThanWellFounded
  <2>2. \E x \in T : \A y \in T : ~(<<y, x>> \in less)
    BY <2>1, WFMin
  <2> QED
    BY <2>2
<1>3. ASSUME NEW y \in T PROVE x <= y
  <2>1. x \in Nat /\ y \in Nat /\ ~(<<y, x>> \in less)
    BY <1>2
  <2>2. ~(y < x)
    BY <1>1, <2>1 DEF OpToRel
  <2> QED
    BY <2>1, <2>2
<1> QED
  BY <1>3

(* The minimum of a set of natural numbers. *)
LEMMA MinProperties ==
    ASSUME NEW T \in SUBSET Nat, T # {}
    PROVE  Min(T) \in T /\ \A y \in T : Min(T) <= y
  BY LeastNatural DEF Min

(* The maximum of a bounded set of natural numbers. *)
LEMMA MaxProperties ==
    ASSUME NEW n \in Nat, NEW T \in SUBSET (0 .. n), T # {}
    PROVE  Max(T) \in T /\ \A y \in T : y <= Max(T)
<1> DEFINE U == {m \in 0 .. n : n - m \in T}
<1>1. U \in SUBSET Nat
  OBVIOUS
<1>2. PICK t \in T : TRUE
  OBVIOUS
<1>3. n - t \in U
  OBVIOUS
<1>4. PICK x \in U : \A y \in U : x <= y
  <2> HIDE DEF U
  <2> QED
    BY <1>1, <1>3, LeastNatural
<1>5. ASSUME NEW y \in T PROVE y <= n - x
  <2>1. n - y \in U
    OBVIOUS
  <2>2. x <= n - y
    BY <1>4, <2>1
  <2> QED
    BY <2>2
<1>6. \E z \in T : \A y \in T : z >= y
  BY <1>4, <1>5
<1>7. Max(T) \in T /\ \A y \in T : Max(T) >= y
  BY <1>6 DEF Max
<1> QED
  BY <1>7

-----------------------------------------------------------------------------
(* The bytes of records *)

(* The bytes of a list, one by one. *)
LEMMA BytesMembers ==
    ASSUME NEW s
    PROVE  \A b : b \in BytesOf(s) <=>
               \E k \in DOMAIN s : \E m \in 1 .. s[k].size : b = <<k, m>>
  BY DEF BytesOf

(* The bytes of a list can be counted. *)
LEMMA SizesFinite ==
    ASSUME NEW S, \A x \in S : x.size \in Nat, NEW s \in Seq(S)
    PROVE  IsFiniteSet(BytesOf(s)) /\ RecordBytes(s) \in Nat
<1> DEFINE of == [k \in 1 .. Len(s) |-> {k} \X (1 .. s[k].size)]
           all == {of[k] : k \in 1 .. Len(s)}
<1>1. Len(s) \in Nat /\ DOMAIN s = 1 .. Len(s) /\ \A k \in 1 .. Len(s) : s[k].size \in Nat
  OBVIOUS
<1>2. IsFiniteSet(1 .. Len(s))
  BY <1>1, FS_Interval
<1>3. of \in Surjection(1 .. Len(s), all)
  BY DEF Surjection
<1>4. IsFiniteSet(all)
  <2> HIDE DEF of, all
  <2> QED
    BY <1>2, <1>3, FS_Surjection
<1>5. ASSUME NEW k \in 1 .. Len(s) PROVE IsFiniteSet({k} \X (1 .. s[k].size))
  <2>1. IsFiniteSet({k})
    BY FS_Singleton
  <2>2. s[k].size \in Int /\ 1 \in Int
    BY <1>1
  <2>3. IsFiniteSet(1 .. s[k].size)
    BY <2>2, FS_Interval
  <2> QED
    BY <2>1, <2>3, FS_Product
<1>6. \A T \in all : IsFiniteSet(T)
  BY <1>5
<1>7. IsFiniteSet(UNION all)
  <2> HIDE DEF of, all
  <2> QED
    BY <1>4, <1>6, FS_UNION
<1>8. BytesOf(s) = UNION all
  BY <1>1 DEF BytesOf
<1> QED
  BY <1>7, <1>8, FS_CardinalityType DEF RecordBytes

(* The empty list has none. *)
LEMMA SizesEmpty == RecordBytes(<<>>) = 0
<1>1. BytesOf(<<>>) = {}
  BY DEF BytesOf
<1> QED
  BY <1>1, FS_EmptySet DEF RecordBytes

(* Records of one size take its multiple. *)
LEMMA SizesUniform ==
    ASSUME NEW S, NEW s \in Seq(S), NEW n \in Nat, \A k \in 1 .. Len(s) : s[k].size = n
    PROVE  RecordBytes(s) = Len(s) * n
<1>1. DOMAIN s = 1 .. Len(s) /\ Len(s) \in Nat
  OBVIOUS
<1>2. BytesOf(s) = (1 .. Len(s)) \X (1 .. n)
  BY <1>1 DEF BytesOf
<1>3. ASSUME NEW m \in Nat PROVE IsFiniteSet(1 .. m) /\ Cardinality(1 .. m) = m
  <2>1. IsFiniteSet(1 .. m) /\ Cardinality(1 .. m) = IF 1 > m THEN 0 ELSE m - 1 + 1
    BY FS_Interval
  <2> QED
    BY <2>1
<1>4. /\ IsFiniteSet(1 .. Len(s)) /\ Cardinality(1 .. Len(s)) = Len(s)
      /\ IsFiniteSet(1 .. n) /\ Cardinality(1 .. n) = n
  BY <1>1, <1>3
<1>5. Cardinality((1 .. Len(s)) \X (1 .. n)) = Cardinality(1 .. Len(s)) * Cardinality(1 .. n)
  BY <1>4, FS_Product
<1> QED
  BY <1>2, <1>4, <1>5 DEF RecordBytes

(* A list of one record. *)
LEMMA SizesOne ==
    ASSUME NEW S, NEW r \in S, r.size \in Nat
    PROVE  RecordBytes(<<r>>) = r.size
<1>1. <<r>> \in Seq(S) /\ Len(<<r>>) = 1 /\ \A k \in 1 .. 1 : <<r>>[k].size = r.size
  OBVIOUS
<1>2. RecordBytes(<<r>>) = 1 * r.size
  BY <1>1, SizesUniform
<1> QED
  BY <1>2

(* The bytes of the second of two lists are moved behind those of the      *)
(* first.                                                                  *)
LEMMA SizesConcat ==
    ASSUME NEW S, \A x \in S : x.size \in Nat, NEW s \in Seq(S), NEW t \in Seq(S)
    PROVE  RecordBytes(s \o t) = RecordBytes(s) + RecordBytes(t)
<1>1. PICK u : u = s \o t
  OBVIOUS
<1>2. u \in Seq(S) /\ Len(u) = Len(s) + Len(t) /\ Len(s) \in Nat /\ Len(t) \in Nat
  BY <1>1, ConcatProperties
<1>3. \A k \in 1 .. Len(s) : u[k] = s[k]
  <2>1. \A k \in 1 .. Len(s) : k \in 1 .. Len(s) + Len(t) /\ k <= Len(s)
    BY <1>2
  <2> QED
    BY <1>1, <2>1, ConcatProperties
<1>4. \A k \in 1 .. Len(t) : u[Len(s) + k] = t[k]
  <2>1. ASSUME NEW k \in 1 .. Len(t) PROVE u[Len(s) + k] = t[k]
    <3>1. /\ Len(s) + k \in 1 .. Len(s) + Len(t) /\ ~(Len(s) + k <= Len(s))
          /\ Len(s) + k - Len(s) = k
      BY <1>2
    <3>2. u[Len(s) + k] = t[Len(s) + k - Len(s)]
      BY <1>1, <3>1, ConcatProperties
    <3> QED
      BY <3>1, <3>2
  <2> QED
    BY <2>1
<1>5. DOMAIN s = 1 .. Len(s) /\ DOMAIN t = 1 .. Len(t) /\ DOMAIN u = 1 .. (Len(s) + Len(t))
  BY <1>2
<1>6. /\ \A k \in 1 .. Len(s) : s[k].size \in Nat
      /\ \A k \in 1 .. Len(t) : t[k].size \in Nat
  OBVIOUS
<1> DEFINE moved == {<<Len(s) + b[1], b[2]>> : b \in BytesOf(t)}
           move == [b \in BytesOf(t) |-> <<Len(s) + b[1], b[2]>>]
<1>7. \A b \in BytesOf(t) : b = <<b[1], b[2]>> /\ b[1] \in 1 .. Len(t)
  BY <1>5, BytesMembers
<1>8. move \in Bijection(BytesOf(t), moved)
  <2>1. move \in [BytesOf(t) -> moved]
    OBVIOUS
  <2>2. \A a, b \in BytesOf(t) : move[a] = move[b] => a = b
    <3> SUFFICES ASSUME NEW a \in BytesOf(t), NEW b \in BytesOf(t), move[a] = move[b]
                 PROVE  a = b
      OBVIOUS
    <3>1. Len(s) + a[1] = Len(s) + b[1] /\ a[2] = b[2]
      OBVIOUS
    <3>2. a[1] = b[1]
      BY <1>2, <1>7, <3>1
    <3> QED
      BY <1>7, <3>1, <3>2
  <2>3. \A c \in moved : \E b \in BytesOf(t) : move[b] = c
    OBVIOUS
  <2> HIDE DEF move, moved
  <2>4. move \in Injection(BytesOf(t), moved)
    BY <2>1, <2>2 DEF Injection, IsInjective
  <2>5. move \in Surjection(BytesOf(t), moved)
    BY <2>1, <2>3 DEF Surjection
  <2> QED
    BY <2>4, <2>5 DEF Bijection
<1>9. IsFiniteSet(BytesOf(s)) /\ IsFiniteSet(BytesOf(t))
  BY SizesFinite
<1>10. IsFiniteSet(moved) /\ Cardinality(moved) = Cardinality(BytesOf(t))
  <2> HIDE DEF move, moved
  <2>1. ExistsBijection(BytesOf(t), moved)
    BY <1>8 DEF ExistsBijection
  <2> QED
    BY <1>9, <2>1, FS_Bijection
<1>11. BytesOf(u) = BytesOf(s) \cup moved
  <2>1. ASSUME NEW c, c \in BytesOf(u) PROVE c \in BytesOf(s) \cup moved
    <3>1. PICK k \in 1 .. (Len(s) + Len(t)) : \E n \in 1 .. u[k].size : c = <<k, n>>
      BY <1>5, <2>1, BytesMembers
    <3>2. PICK m \in 1 .. u[k].size : c = <<k, m>>
      BY <3>1
    <3>3. CASE k <= Len(s)
      <4>1. k \in 1 .. Len(s)
        BY <1>2, <3>3
      <4> QED
        BY <1>3, <1>5, <3>2, <4>1, BytesMembers
    <3>4. CASE ~(k <= Len(s))
      <4>1. k - Len(s) \in 1 .. Len(t) /\ Len(s) + (k - Len(s)) = k
        BY <1>2, <3>4
      <4>2. <<k - Len(s), m>> \in BytesOf(t)
        BY <1>4, <1>5, <3>2, <4>1, BytesMembers
      <4>3. c = <<Len(s) + <<k - Len(s), m>>[1], <<k - Len(s), m>>[2]>>
        BY <3>2, <4>1
      <4> QED
        BY <4>2, <4>3
    <3> QED
      BY <3>3, <3>4
  <2>2. ASSUME NEW c \in BytesOf(s) PROVE c \in BytesOf(u)
    <3>1. PICK k \in 1 .. Len(s) : \E n \in 1 .. s[k].size : c = <<k, n>>
      BY <1>5, BytesMembers
    <3>2. PICK m \in 1 .. s[k].size : c = <<k, m>>
      BY <3>1
    <3>3. k \in DOMAIN u /\ u[k] = s[k]
      BY <1>2, <1>3, <1>5
    <3> QED
      BY <3>2, <3>3, BytesMembers
  <2>3. ASSUME NEW c \in moved PROVE c \in BytesOf(u)
    <3>1. PICK b \in BytesOf(t) : c = <<Len(s) + b[1], b[2]>>
      OBVIOUS
    <3> HIDE DEF moved, move
    <3>2. PICK k \in 1 .. Len(t) : \E n \in 1 .. t[k].size : b = <<k, n>>
      <4>1. \E k \in DOMAIN t : \E n \in 1 .. t[k].size : b = <<k, n>>
        BY <3>1, BytesMembers
      <4> QED
        BY <1>5, <4>1
    <3>3. PICK m \in 1 .. t[k].size : b = <<k, m>>
      BY <3>2
    <3>4. Len(s) + k \in DOMAIN u /\ u[Len(s) + k] = t[k] /\ c = <<Len(s) + k, m>>
      BY <1>2, <1>4, <1>5, <3>1, <3>3
    <3> QED
      BY <3>3, <3>4, BytesMembers
  <2> HIDE DEF moved
  <2> QED
    BY <2>1, <2>2, <2>3
<1>12. BytesOf(s) \cap moved = {}
  <2> SUFFICES ASSUME NEW b \in BytesOf(t), <<Len(s) + b[1], b[2]>> \in BytesOf(s)
               PROVE  FALSE
    OBVIOUS
  <2>1. PICK k \in 1 .. Len(s) : \E n \in 1 .. s[k].size : <<Len(s) + b[1], b[2]>> = <<k, n>>
    BY <1>5, BytesMembers
  <2>2. PICK m \in 1 .. s[k].size : <<Len(s) + b[1], b[2]>> = <<k, m>>
    BY <2>1
  <2>3. Len(s) + b[1] = k /\ b[1] \in 1 .. Len(t)
    BY <1>7, <2>2
  <2> QED
    BY <1>2, <2>3
<1>13. Cardinality(BytesOf(s) \cup moved) = Cardinality(BytesOf(s)) + Cardinality(moved) - Cardinality({})
  <2> HIDE DEF moved
  <2> QED
    BY <1>9, <1>10, <1>12, FS_Union
<1>14. Cardinality({}) = 0 /\ RecordBytes(s) \in Nat /\ RecordBytes(t) \in Nat
  BY FS_EmptySet, SizesFinite, SMTT(20)
<1> HIDE DEF moved
<1> QED
  BY <1>1, <1>10, <1>11, <1>13, <1>14 DEF RecordBytes

(* A list is cut at any place. *)
LEMMA CutJoined ==
    ASSUME NEW S, NEW s \in Seq(S), NEW i \in 0 .. Len(s)
    PROVE  SubSeq(s, 1, i) \o SubSeq(s, i + 1, Len(s)) = s
<1>1. SubSeq(s, 1, Len(s)) = s
  BY SubSeqFull
<1>2. 1 \in 1 .. Len(s) + 1 /\ i \in 1 - 1 .. Len(s) /\ Len(s) \in i .. Len(s)
  OBVIOUS
<1>3. SubSeq(s, 1, i) \o SubSeq(s, i + 1, Len(s)) = SubSeq(s, 1, Len(s))
  BY <1>2, ConcatAdjacentSubSeq
<1> QED
  BY <1>1, <1>3

(* The bytes of both parts of a list. *)
LEMMA SizesCut ==
    ASSUME NEW S, \A x \in S : x.size \in Nat, NEW s \in Seq(S), NEW i \in 0 .. Len(s)
    PROVE  /\ SubSeq(s, 1, i) \in Seq(S) /\ SubSeq(s, i + 1, Len(s)) \in Seq(S)
           /\ RecordBytes(SubSeq(s, 1, i)) \in Nat
           /\ RecordBytes(SubSeq(s, i + 1, Len(s))) \in Nat
           /\ RecordBytes(s) = RecordBytes(SubSeq(s, 1, i)) + RecordBytes(SubSeq(s, i + 1, Len(s)))
<1>1. Len(s) \in Nat /\ \A k \in 1 .. Len(s) : s[k] \in S
  OBVIOUS
<1>2. SubSeq(s, 1, i) \in Seq(S) /\ SubSeq(s, i + 1, Len(s)) \in Seq(S)
  BY <1>1, SubSeqProperties
<1>3. SubSeq(s, 1, i) \o SubSeq(s, i + 1, Len(s)) = s
  BY CutJoined
<1>4. RecordBytes(SubSeq(s, 1, i) \o SubSeq(s, i + 1, Len(s)))
          = RecordBytes(SubSeq(s, 1, i)) + RecordBytes(SubSeq(s, i + 1, Len(s)))
  BY <1>2, SizesConcat
<1> QED
  BY <1>2, <1>3, <1>4, SizesFinite

(* The bytes of a prefix, and of one record more. *)
LEMMA SizesStep ==
    ASSUME NEW S, \A x \in S : x.size \in Nat, NEW s \in Seq(S), NEW i \in 1 .. Len(s)
    PROVE  /\ RecordBytes(SubSeq(s, 1, i)) = RecordBytes(SubSeq(s, 1, i - 1)) + s[i].size
           /\ RecordBytes(SubSeq(s, 1, i - 1)) \in Nat
<1>1. Len(s) \in Nat /\ s[i] \in S /\ i - 1 \in 0 .. Len(s) /\ \A k \in 1 .. Len(s) : s[k] \in S
  OBVIOUS
<1>2. PICK a : a = SubSeq(s, 1, i - 1)
  OBVIOUS
<1>3. a \in Seq(S) /\ Len(a) = i - 1 /\ \A k \in 1 .. (i - 1) : a[k] = s[k]
  BY <1>1, <1>2, SubSeqProperties
<1>4. PICK b : b = SubSeq(s, 1, i)
  OBVIOUS
<1>5. b \in Seq(S) /\ Len(b) = i /\ \A k \in 1 .. i : b[k] = s[k]
  BY <1>1, <1>4, SubSeqProperties
<1>6. b = a \o <<s[i]>>
  <2>1. /\ a \o <<s[i]>> \in Seq(S) /\ Len(a \o <<s[i]>>) = i
        /\ \A k \in 1 .. i : (a \o <<s[i]>>)[k] = s[k]
    BY <1>1, <1>3, ConcatProperties
  <2> QED
    BY <1>5, <2>1, SeqEqual
<1>7. RecordBytes(a \o <<s[i]>>) = RecordBytes(a) + RecordBytes(<<s[i]>>)
  <2>1. <<s[i]>> \in Seq(S)
    BY <1>1
  <2> QED
    BY <1>3, <2>1, SizesConcat
<1>8. RecordBytes(<<s[i]>>) = s[i].size
  BY <1>1, SizesOne
<1> QED
  BY <1>2, <1>3, <1>4, <1>6, <1>7, <1>8, SizesFinite

(* The bytes after an insertion, *)
LEMMA SizesInsert ==
    ASSUME NEW S, \A x \in S : x.size \in Nat, NEW s \in Seq(S), NEW i \in 0 .. Len(s), NEW e \in S
    PROVE  RecordBytes(InsertAt(s, i + 1, e)) = RecordBytes(s) + e.size
<1>1. PICK a, c : a = SubSeq(s, 1, i) /\ c = SubSeq(s, i + 1, Len(s))
  OBVIOUS
<1>2. /\ a \in Seq(S) /\ c \in Seq(S) /\ RecordBytes(a) \in Nat /\ RecordBytes(c) \in Nat
      /\ RecordBytes(s) = RecordBytes(a) + RecordBytes(c)
  BY <1>1, SizesCut
<1>3. InsertAt(s, i + 1, e) = (a \o <<e>>) \o c
  <2>1. (i + 1) - 1 = i
    OBVIOUS
  <2> QED
    BY <1>1, <2>1 DEF InsertAt
<1>4. a \o <<e>> \in Seq(S) /\ RecordBytes(a \o <<e>>) = RecordBytes(a) + e.size
  <2>1. <<e>> \in Seq(S) /\ e.size \in Nat
    OBVIOUS
  <2>2. RecordBytes(a \o <<e>>) = RecordBytes(a) + RecordBytes(<<e>>)
    BY <1>2, <2>1, SizesConcat
  <2>3. RecordBytes(<<e>>) = e.size
    BY <2>1, SizesOne
  <2> QED
    BY <1>2, <2>1, <2>2, <2>3, ConcatProperties
<1>5. RecordBytes((a \o <<e>>) \o c) = RecordBytes(a \o <<e>>) + RecordBytes(c)
  BY <1>2, <1>4, SizesConcat
<1>6. e.size \in Nat
  OBVIOUS
<1>7. RecordBytes(InsertAt(s, i + 1, e)) = RecordBytes((a \o <<e>>) \o c)
  BY <1>3, Zenon
<1> QED
  BY <1>2, <1>4, <1>5, <1>6, <1>7

(* after a deletion, *)
LEMMA SizesRemove ==
    ASSUME NEW S, \A x \in S : x.size \in Nat, NEW s \in Seq(S), NEW i \in 0 .. (Len(s) - 1)
    PROVE  RecordBytes(RemoveAt(s, i + 1)) + s[i + 1].size = RecordBytes(s)
<1>1. PICK t : t = RemoveAt(s, i + 1)
  OBVIOUS
<1>2. /\ t = [k \in 1 .. (Len(s) - 1) |-> IF k <= i THEN s[k] ELSE s[k + 1]]
      /\ t \in Seq(S) /\ Len(t) = Len(s) - 1
  BY <1>1, RemoveAtFunction, RemoveAtType
<1>3. Len(s) \in Nat /\ i \in 0 .. Len(t) /\ i + 1 \in 1 .. Len(s) /\ s[i + 1] \in S
  BY <1>2
<1>4. InsertAt(t, i + 1, s[i + 1])
          = [k \in 1 .. (Len(t) + 1) |->
                IF k <= i THEN t[k] ELSE IF k = i + 1 THEN s[i + 1] ELSE t[k - 1]]
  <2>1. PICK x : x = s[i + 1]
    OBVIOUS
  <2>2. x \in S /\ t \in Seq(S) /\ i \in 0 .. Len(t)
    BY <1>2, <1>3, <2>1
  <2> QED
    BY <2>1, <2>2, InsertAtFunction
<1>5. InsertAt(t, i + 1, s[i + 1]) = s
  <2>1. ASSUME NEW k \in 1 .. Len(s)
        PROVE  (IF k <= i THEN t[k] ELSE IF k = i + 1 THEN s[i + 1] ELSE t[k - 1]) = s[k]
    <3>1. CASE k <= i
      <4>1. k \in 1 .. (Len(s) - 1)
        BY <1>3, <3>1
      <4> QED
        BY <1>2, <3>1, <4>1
    <3>2. CASE k = i + 1
      BY <3>2
    <3>3. CASE k > i + 1
      <4>1. k - 1 \in 1 .. (Len(s) - 1) /\ ~(k - 1 <= i) /\ (k - 1) + 1 = k
        BY <1>3, <3>3
      <4>2. t[k - 1] = s[(k - 1) + 1]
        BY <1>2, <4>1
      <4> QED
        BY <3>3, <4>1, <4>2
    <3> QED
      BY <3>1, <3>2, <3>3
  <2>2. Len(t) + 1 = Len(s) /\ s = [k \in 1 .. Len(s) |-> s[k]]
    BY <1>2, <1>3
  <2> QED
    BY <1>4, <2>1, <2>2
<1>6. RecordBytes(InsertAt(t, i + 1, s[i + 1])) = RecordBytes(t) + s[i + 1].size
  BY <1>2, <1>3, SizesInsert
<1> QED
  BY <1>1, <1>5, <1>6

(* and after an update. *)
LEMMA SizesReplace ==
    ASSUME NEW S, \A x \in S : x.size \in Nat, NEW s \in Seq(S), NEW i \in 0 .. (Len(s) - 1),
           NEW e \in S
    PROVE  /\ [s EXCEPT ![i + 1] = e] \in Seq(S)
           /\ Len([s EXCEPT ![i + 1] = e]) = Len(s)
           /\ RecordBytes([s EXCEPT ![i + 1] = e]) + s[i + 1].size = RecordBytes(s) + e.size
<1>1. PICK u : u = [s EXCEPT ![i + 1] = e]
  OBVIOUS
<1>2. /\ i + 1 \in 1 .. Len(s) /\ Len(s) \in Nat /\ s[i + 1] \in S
      /\ \A k \in 1 .. Len(s) : s[k] \in S
  OBVIOUS
<1>3. /\ u \in Seq(S) /\ Len(u) = Len(s) /\ u[i + 1] = e
      /\ \A k \in 1 .. Len(s) : u[k] = IF k = i + 1 THEN e ELSE s[k]
  BY <1>1, <1>2, ExceptSeq
<1>4. /\ RemoveAt(u, i + 1) = [k \in 1 .. (Len(u) - 1) |-> IF k <= i THEN u[k] ELSE u[k + 1]]
      /\ RemoveAt(s, i + 1) = [k \in 1 .. (Len(s) - 1) |-> IF k <= i THEN s[k] ELSE s[k + 1]]
  <2>1. i \in 0 .. (Len(u) - 1)
    BY <1>3
  <2> QED
    BY <1>3, <2>1, RemoveAtFunction
<1>5. \A k \in 1 .. (Len(s) - 1) : (IF k <= i THEN u[k] ELSE u[k + 1]) = (IF k <= i THEN s[k] ELSE s[k + 1])
  BY <1>2, <1>3
<1>6. RemoveAt(u, i + 1) = RemoveAt(s, i + 1)
  BY <1>3, <1>4, <1>5
<1>7. /\ RecordBytes(RemoveAt(u, i + 1)) + u[i + 1].size = RecordBytes(u)
      /\ RecordBytes(RemoveAt(s, i + 1)) + s[i + 1].size = RecordBytes(s)
      /\ RecordBytes(RemoveAt(s, i + 1)) \in Nat
  <2>1. i \in 0 .. (Len(u) - 1)
    BY <1>3
  <2> QED
    BY <1>3, <2>1, SizesRemove, SizesFinite, RemoveAtType
<1> QED
  BY <1>1, <1>2, <1>3, <1>6, <1>7

-----------------------------------------------------------------------------
(* The binary search *)

Start(item_count) == [low |-> 0, high |-> item_count, found |-> FALSE]

(* The first n turns of a search. *)
IsRun(g, n, item_count, relation) ==
    /\ g[0] = Start(item_count)
    /\ \A i \in 1 .. n : g[i] = Turn(relation, g[i - 1])

(* A search can be run for any number of turns. *)
LEMMA RunExists ==
    ASSUME NEW item_count, NEW relation, NEW n \in Nat
    PROVE  \E g : IsRun(g, n, item_count, relation)
<1> DEFINE bad == {m \in Nat : ~\E g : IsRun(g, m, item_count, relation)}
<1> SUFFICES ASSUME n \in bad PROVE FALSE
  OBVIOUS
<1>1. PICK m \in bad : \A y \in bad : m <= y
  <2>1. bad \in SUBSET Nat /\ bad # {}
    OBVIOUS
  <2> HIDE DEF bad
  <2> QED
    BY <2>1, LeastNatural
<1>2. CASE m = 0
  <2>1. PICK h : h = [i \in {0} |-> Start(item_count)]
    OBVIOUS
  <2>2. h[0] = Start(item_count)
    BY <2>1
  <2>3. IsRun(h, 0, item_count, relation)
    BY <2>2 DEF IsRun
  <2> QED
    BY <1>1, <1>2, <2>3
<1>3. CASE m # 0
  <2>1. m \in Nat /\ m - 1 \in Nat /\ m - 1 \notin bad
    BY <1>1, <1>3
  <2>2. PICK g : IsRun(g, m - 1, item_count, relation)
    BY <2>1
  <2>3. PICK h : h = [i \in 0 .. m |-> IF i = m THEN Turn(relation, g[m - 1]) ELSE g[i]]
    OBVIOUS
  <2>4. \A i \in 0 .. (m - 1) : h[i] = g[i]
    BY <2>1, <2>3
  <2>5. h[m] = Turn(relation, g[m - 1]) /\ h[0] = g[0]
    BY <2>1, <2>3, <2>4, <1>3
  <2>6. ASSUME NEW i \in 1 .. m PROVE h[i] = Turn(relation, h[i - 1])
    <3>1. i - 1 \in 0 .. (m - 1) /\ h[i - 1] = g[i - 1]
      BY <2>1, <2>4
    <3>2. CASE i = m
      BY <3>1, <3>2, <2>5
    <3>3. CASE i # m
      <4>1. i \in 1 .. (m - 1) /\ i \in 0 .. (m - 1)
        BY <2>1, <3>3
      <4> QED
        BY <4>1, <3>1, <2>2, <2>4 DEF IsRun
    <3> QED
      BY <3>2, <3>3
  <2>7. IsRun(h, m, item_count, relation)
    BY <2>2, <2>5, <2>6 DEF IsRun
  <2> QED
    BY <1>1, <2>7
<1> QED
  BY <1>2, <1>3

(* Two runs of the same search agree as far as both go. *)
LEMMA RunUnique ==
    ASSUME NEW item_count, NEW relation, NEW n \in Nat, NEW m \in Nat, NEW g, NEW h,
           IsRun(g, n, item_count, relation), IsRun(h, m, item_count, relation),
           NEW k \in Nat, k <= n, k <= m
    PROVE  g[k] = h[k]
<1> DEFINE bad == {i \in Nat : i <= n /\ i <= m /\ g[i] # h[i]}
<1> SUFFICES ASSUME k \in bad PROVE FALSE
  OBVIOUS
<1>1. PICK i \in bad : \A y \in bad : i <= y
  <2>1. bad \in SUBSET Nat /\ bad # {}
    OBVIOUS
  <2> HIDE DEF bad
  <2> QED
    BY <2>1, LeastNatural
<1>2. i # 0
  BY <1>1 DEF IsRun
<1>3. i \in 1 .. n /\ i \in 1 .. m /\ i - 1 \in Nat /\ i - 1 \notin bad
  BY <1>1, <1>2
<1>4. g[i - 1] = h[i - 1]
  BY <1>3
<1> QED
  BY <1>1, <1>3, <1>4 DEF IsRun

(* The recursive function is defined: a search has a state after any       *)
(* number of turns.                                                        *)
LEMMA TurnsDefined ==
    ASSUME NEW item_count, NEW relation
    PROVE  /\ Turns(item_count, relation)[0] = Start(item_count)
           /\ \A n \in Nat : Turns(item_count, relation)[n + 1]
                                = Turn(relation, Turns(item_count, relation)[n])
<1> DEFINE run(n) == CHOOSE g : IsRun(g, n, item_count, relation)
           all == [n \in Nat |-> run(n)[n]]
<1>1. \A n \in Nat : IsRun(run(n), n, item_count, relation)
  BY RunExists
<1>2. all[0] = Start(item_count)
  BY <1>1 DEF IsRun
<1>3. ASSUME NEW n \in Nat, n # 0 PROVE all[n] = Turn(relation, all[n - 1])
  <2>1. n - 1 \in Nat /\ n \in 1 .. n /\ n - 1 <= n
    BY <1>3
  <2> HIDE DEF run
  <2>2. run(n)[n] = Turn(relation, run(n)[n - 1])
    BY <1>1, <2>1 DEF IsRun
  <2>3. run(n)[n - 1] = run(n - 1)[n - 1]
    BY <1>1, <2>1, RunUnique
  <2> QED
    BY <2>1, <2>2, <2>3
<1> HIDE DEF all, run
<1> DEFINE equation(f) == f = [n \in Nat |-> IF n = 0 THEN [low |-> 0, high |-> item_count, found |-> FALSE]
                                             ELSE Turn(relation, f[n - 1])]
<1>4. equation(all)
  BY <1>2, <1>3 DEF all, Start
<1>5. equation(Turns(item_count, relation))
  BY <1>4 DEF Turns
<1>6. PICK turns : turns = Turns(item_count, relation)
  OBVIOUS
<1>7. ASSUME NEW n \in Nat, n # 0 PROVE turns[n] = Turn(relation, turns[n - 1])
  BY <1>5, <1>6, <1>7
<1>8. ASSUME NEW n \in Nat PROVE turns[n + 1] = Turn(relation, turns[n])
  <2>1. n + 1 \in Nat /\ n + 1 # 0 /\ (n + 1) - 1 = n
    OBVIOUS
  <2>2. turns[n + 1] = Turn(relation, turns[(n + 1) - 1])
    BY <1>7, <2>1
  <2> QED
    BY <2>1, <2>2
<1>9. turns[0] = Start(item_count)
  BY <1>5, <1>6 DEF Start
<1> QED
  BY <1>6, <1>8, <1>9

(* The records of a page are sorted, and the key belongs to slot c. *)
Belongs(c, item_count, relation) ==
    /\ \A i \in 0 .. (c - 1) : relation[i] = "greater"
    /\ \A i \in (c + 1) .. (item_count - 1) : relation[i] = "less"
    /\ c < item_count => relation[c] \in {"equal", "less"}

(* What is known after n turns: the interval still has the slot, and is    *)
(* shorter by n at least.                                                  *)
Narrowed(at, n, c, item_count, relation) ==
    /\ at = [low |-> at.low, high |-> at.high, found |-> at.found]
    /\ at.low \in Nat /\ at.high \in Nat /\ at.found \in BOOLEAN
    /\ at.low <= c /\ c <= at.high /\ at.high <= item_count
    /\ at.found => at.low = c /\ c < item_count /\ relation[c] = "equal"
    /\ at.high < item_count => relation[at.high] = "less"
    /\ ~at.found /\ at.low < at.high => at.high - at.low + n <= item_count

(* A turn of the loop keeps the slot in the interval, and makes it         *)
(* shorter.                                                                *)
LEMMA TurnNarrows ==
    ASSUME NEW item_count \in Nat, NEW relation, NEW c \in 0 .. item_count, NEW n \in Nat,
           Belongs(c, item_count, relation), NEW at, Narrowed(at, n, c, item_count, relation)
    PROVE  Narrowed(Turn(relation, at), n + 1, c, item_count, relation)
<1>1. PICK low \in Nat, high \in Nat, found \in BOOLEAN :
          at = [low |-> low, high |-> high, found |-> found]
  BY DEF Narrowed
<1>2. /\ low <= c /\ c <= high /\ high <= item_count
      /\ found => low = c /\ c < item_count /\ relation[c] = "equal"
      /\ high < item_count => relation[high] = "less"
      /\ ~found /\ low < high => high - low + n <= item_count
  BY <1>1 DEF Narrowed
<1>3. CASE found \/ low >= high
  <2>1. Turn(relation, at) = at
    BY <1>1, <1>3 DEF Turn, Middle
  <2> QED
    BY <1>1, <1>2, <1>3, <2>1 DEF Narrowed
<1>4. CASE ~found /\ low < high
  <2>1. PICK mid : mid = low + (high - low) \div 2
    OBVIOUS
  <2>2. mid \in Nat /\ low <= mid /\ mid < high
    BY <1>4, <2>1
  <2>3. PICK to : to = Turn(relation, at)
    OBVIOUS
  <2>4. CASE mid < c
    <3>1. relation[mid] = "greater"
      BY <2>2, <2>4 DEF Belongs
    <3>2. to = [low |-> mid + 1, high |-> high, found |-> found]
      BY <1>1, <1>4, <2>1, <2>3, <3>1 DEF Turn, Middle
    <3> QED
      BY <1>2, <1>4, <2>2, <2>3, <2>4, <3>2 DEF Narrowed
  <2>5. CASE mid >= c /\ relation[mid] = "equal"
    <3>1. mid = c
      BY <1>2, <2>2, <2>5 DEF Belongs
    <3>2. to = [low |-> mid, high |-> high, found |-> TRUE]
      <4>1. relation[mid] = "equal"
        BY <2>5
      <4>2. to = [at EXCEPT !.found = TRUE, !.low = mid]
        BY <1>1, <1>4, <2>1, <2>3, <4>1 DEF Turn, Middle
      <4> QED
        BY <1>1, <4>2
    <3> QED
      BY <1>2, <1>4, <2>2, <2>3, <2>5, <3>1, <3>2 DEF Narrowed
  <2>6. CASE mid >= c /\ relation[mid] # "equal"
    <3>1. relation[mid] = "less"
      BY <1>2, <2>2, <2>6 DEF Belongs
    <3>2. to = [low |-> low, high |-> mid, found |-> found]
      BY <1>1, <1>4, <2>1, <2>3, <3>1 DEF Turn, Middle, HighBelow
    <3> QED
      BY <1>2, <1>4, <2>2, <2>3, <2>6, <3>1, <3>2 DEF Narrowed
  <2> QED
    BY <2>2, <2>4, <2>5, <2>6
<1> QED
  BY <1>1, <1>3, <1>4

(* The binary search of ops.rs ends and finds the slot of a key, or the    *)
(* slot where it belongs, among any number of sorted records.              *)
THEOREM BinarySearchCorrect ==
    ASSUME NEW item_count \in Nat, NEW relation, NEW c \in 0 .. item_count,
           Belongs(c, item_count, relation)
    PROVE  /\ find_key(item_count, relation).ends
           /\ find_key(item_count, relation).slot = c
           /\ find_key(item_count, relation).found <=> c < item_count /\ relation[c] = "equal"
<1>1. PICK turns : turns = Turns(item_count, relation)
  OBVIOUS
<1>2. turns[0] = Start(item_count) /\ \A n \in Nat : turns[n + 1] = Turn(relation, turns[n])
  BY <1>1, TurnsDefined
<1> DEFINE bad == {n \in Nat : ~Narrowed(turns[n], n, c, item_count, relation)}
<1>3. bad = {}
  <2> SUFFICES ASSUME bad # {} PROVE FALSE
    OBVIOUS
  <2>1. PICK n \in bad : \A y \in bad : n <= y
    <3>1. bad \in SUBSET Nat
      OBVIOUS
    <3> HIDE DEF bad
    <3> QED
      BY <3>1, LeastNatural
  <2>2. n # 0
    <3>1. Narrowed(Start(item_count), 0, c, item_count, relation)
      BY DEF Narrowed, Start
    <3> QED
      BY <1>2, <2>1, <3>1
  <2>3. n - 1 \in Nat /\ (n - 1) + 1 = n /\ n - 1 \notin bad
    BY <2>1, <2>2
  <2>4. Narrowed(turns[n - 1], n - 1, c, item_count, relation)
    BY <2>3
  <2>5. turns[(n - 1) + 1] = Turn(relation, turns[n - 1])
    BY <1>2, <2>3
  <2>6. Narrowed(turns[(n - 1) + 1], (n - 1) + 1, c, item_count, relation)
    BY <2>3, <2>4, <2>5, TurnNarrows
  <2> QED
    BY <2>1, <2>3, <2>6
<1>4. PICK end : end = turns[item_count]
  OBVIOUS
<1>5. Narrowed(end, item_count, c, item_count, relation)
  BY <1>3, <1>4
<1>6. /\ end.low = c /\ (end.found \/ end.low >= end.high)
      /\ end.found <=> c < item_count /\ relation[c] = "equal"
      /\ end.found \in BOOLEAN
  BY <1>5 DEF Narrowed
<1> QED
  BY <1>1, <1>4, <1>6 DEF find_key
=============================================================================
