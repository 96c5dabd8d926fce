-------------------------- MODULE TableRecordsProofs --------------------------
(***************************************************************************)
(* Values, the bytes of records and tables, for any columns, keys, values  *)
(* and sizes of a byte.                                                    *)
(***************************************************************************)
EXTENDS TableRecords, SequenceLemmas

-----------------------------------------------------------------------------
(* Recursion.  A loop is given by where it begins and by its step, as a    *)
(* function, so that its steps can be followed one by one.                 *)

(* A property of 0 that every number passes on holds of all numbers. *)
LEMMA SetInduction ==
    ASSUME NEW T, 0 \in T, \A n \in Nat : n \in T => n + 1 \in T
    PROVE  \A n \in Nat : n \in T
<1> DEFINE bad == {n \in Nat : n \notin T}
<1> SUFFICES ASSUME bad # {} PROVE FALSE
  OBVIOUS
<1>1. PICK m \in bad : \A y \in bad : m <= y
  <2>1. bad \in SUBSET Nat
    OBVIOUS
  <2> HIDE DEF bad
  <2> QED
    BY <2>1, LeastNatural
<1>2. m \in Nat /\ m \notin T /\ m # 0
  BY <1>1
<1>3. m - 1 \in Nat /\ m - 1 \notin bad /\ (m - 1) + 1 = m
  BY <1>1, <1>2
<1> QED
  BY <1>2, <1>3

(* The states of a loop of n steps. *)
IsLoop(f, n, base, step) ==
    f[0] = base /\ \A i \in 1 .. n : f[i] = step[<<i, f[i - 1]>>]

(* A loop can be run. *)
LEMMA LoopExists ==
    ASSUME NEW S, NEW base \in S, NEW n \in Nat, NEW step \in [(1 .. n) \X S -> S]
    PROVE  \E f \in [0 .. n -> S] : IsLoop(f, n, base, step)
<1> DEFINE T == {m \in Nat : m <= n => \E f \in [0 .. m -> S] : IsLoop(f, m, base, step)}
<1>1. 0 \in T
  <2>1. PICK f : f = [i \in 0 .. 0 |-> base]
    OBVIOUS
  <2>2. f \in [0 .. 0 -> S] /\ IsLoop(f, 0, base, step)
    BY <2>1 DEF IsLoop
  <2> QED
    BY <2>2
<1>2. ASSUME NEW m \in Nat, m \in T PROVE m + 1 \in T
  <2> SUFFICES ASSUME m + 1 <= n
               PROVE  \E f \in [0 .. (m + 1) -> S] : IsLoop(f, m + 1, base, step)
    OBVIOUS
  <2>1. PICK g \in [0 .. m -> S] : IsLoop(g, m, base, step)
    BY <1>2
  <2>2. m + 1 \in 1 .. n /\ g[m] \in S
    OBVIOUS
  <2>3. step[<<m + 1, g[m]>>] \in S
    BY <2>2
  <2>4. PICK f : f = [i \in 0 .. (m + 1) |-> IF i = m + 1 THEN step[<<m + 1, g[m]>>] ELSE g[i]]
    OBVIOUS
  <2>5. f \in [0 .. (m + 1) -> S]
    BY <2>3, <2>4
  <2>6. \A i \in 0 .. m : f[i] = g[i]
    BY <2>4
  <2>7. f[m + 1] = step[<<m + 1, g[m]>>]
    BY <2>4
  <2>8. ASSUME NEW i \in 1 .. (m + 1) PROVE f[i] = step[<<i, f[i - 1]>>]
    <3>1. i - 1 \in 0 .. m /\ f[i - 1] = g[i - 1]
      BY <2>6
    <3>2. CASE i = m + 1
      BY <3>1, <3>2, <2>7
    <3>3. CASE i # m + 1
      <4>1. i \in 1 .. m /\ i \in 0 .. m
        BY <3>3
      <4> QED
        BY <4>1, <3>1, <2>1, <2>6 DEF IsLoop
    <3> QED
      BY <3>2, <3>3
  <2>9. f[0] = base
    BY <2>1, <2>6 DEF IsLoop
  <2>10. IsLoop(f, m + 1, base, step)
    BY <2>8, <2>9 DEF IsLoop
  <2> QED
    BY <2>5, <2>10
<1>3. n \in T
  <2> HIDE DEF T
  <2> QED
    BY <1>1, <1>2, SetInduction
<1> QED
  BY <1>3

(* A loop can be run in one way only. *)
LEMMA LoopUnique ==
    ASSUME NEW base, NEW step, NEW n \in Nat, NEW m \in Nat, NEW f, NEW g,
           IsLoop(f, n, base, step), IsLoop(g, m, base, step), NEW k \in Nat, k <= n, k <= m
    PROVE  f[k] = g[k]
<1> DEFINE T == {i \in Nat : i <= n /\ i <= m => f[i] = g[i]}
<1>1. 0 \in T
  BY DEF IsLoop
<1>2. ASSUME NEW i \in Nat, i \in T PROVE i + 1 \in T
  <2> SUFFICES ASSUME i + 1 <= n /\ i + 1 <= m PROVE f[i + 1] = g[i + 1]
    OBVIOUS
  <2>1. f[i] = g[i] /\ i + 1 \in 1 .. n /\ i + 1 \in 1 .. m /\ (i + 1) - 1 = i
    BY <1>2
  <2> QED
    BY <2>1 DEF IsLoop
<1>3. k \in T
  <2> HIDE DEF T
  <2> QED
    BY <1>1, <1>2, SetInduction
<1> QED
  BY <1>3

IsEndless(f, base, step) == f[0] = base /\ \A i \in Nat \ {0} : f[i] = step[<<i, f[i - 1]>>]

(* A loop without end can be run. *)
LEMMA EndlessLoopExists ==
    ASSUME NEW S, NEW base \in S, NEW step \in [(Nat \ {0}) \X S -> S]
    PROVE  \E f \in [Nat -> S] : IsEndless(f, base, step)
<1> DEFINE run(n) == CHOOSE f \in [0 .. n -> S] : IsLoop(f, n, base, step)
           all == [n \in Nat |-> run(n)[n]]
<1>1. ASSUME NEW n \in Nat PROVE run(n) \in [0 .. n -> S] /\ IsLoop(run(n), n, base, step)
  <2>1. PICK short : short = [p \in (1 .. n) \X S |-> step[p]]
    OBVIOUS
  <2>2. short \in [(1 .. n) \X S -> S] /\ \A p \in (1 .. n) \X S : short[p] = step[p]
    BY <2>1
  <2>3. PICK f \in [0 .. n -> S] : IsLoop(f, n, base, short)
    BY <2>2, LoopExists
  <2>4. ASSUME NEW i \in 1 .. n PROVE f[i] = step[<<i, f[i - 1]>>]
    <3>1. i - 1 \in 0 .. n /\ f[i - 1] \in S
      OBVIOUS
    <3> QED
      BY <3>1, <2>2, <2>3 DEF IsLoop
  <2>5. IsLoop(f, n, base, step)
    BY <2>3, <2>4 DEF IsLoop
  <2> QED
    BY <2>5
<1>2. all \in [Nat -> S]
  BY <1>1
<1>3. all[0] = base
  BY <1>1 DEF IsLoop
<1>4. ASSUME NEW n \in Nat \ {0} PROVE all[n] = step[<<n, all[n - 1]>>]
  <2>1. n - 1 \in Nat /\ n \in 1 .. n /\ n - 1 <= n /\ n - 1 <= n - 1
    OBVIOUS
  <2> HIDE DEF run
  <2>2. run(n)[n] = step[<<n, run(n)[n - 1]>>]
    BY <1>1, <2>1 DEF IsLoop
  <2>3. run(n)[n - 1] = run(n - 1)[n - 1]
    BY <1>1, <2>1, LoopUnique
  <2> QED
    BY <2>1, <2>2, <2>3
<1>5. IsEndless(all, base, step)
  <2> HIDE DEF all
  <2> QED
    BY <1>3, <1>4 DEF IsEndless
<1> QED
  BY <1>2, <1>5

-----------------------------------------------------------------------------
(* Numbers and their digits *)

(* The powers of a number, one by one. *)
LEMMA PowerStep ==
    ASSUME NEW b \in Int
    PROVE  /\ Power(b) \in [Nat -> Int]
           /\ Power(b)[0] = 1
           /\ \A n \in Nat : Power(b)[n + 1] = b * Power(b)[n]
<1>1. PICK one \in Int : one = 1
  OBVIOUS
<1>2. PICK step : step = [p \in (Nat \ {0}) \X Int |-> b * p[2]]
  OBVIOUS
<1>3. PICK f \in [Nat -> Int] : IsEndless(f, one, step)
  <2>1. step \in [(Nat \ {0}) \X Int -> Int]
    BY <1>2
  <2> QED
    BY <2>1, EndlessLoopExists
<1>4. ASSUME NEW i \in Nat \ {0} PROVE f[i] = b * f[i - 1]
  <2>1. i - 1 \in Nat /\ f[i - 1] \in Int
    OBVIOUS
  <2>2. f[i] = step[<<i, f[i - 1]>>]
    BY <1>3 DEF IsEndless
  <2> QED
    BY <1>2, <2>1, <2>2
<1> DEFINE equation(g) == g = [n \in Nat |-> IF n = 0 THEN 1 ELSE b * g[n - 1]]
<1>5. equation(f)
  BY <1>1, <1>3, <1>4 DEF IsEndless
<1>6. equation(Power(b))
  BY <1>5 DEF Power
<1>7. PICK power : power = Power(b)
  OBVIOUS
<1>8. power[0] = 1 /\ \A n \in Nat \ {0} : power[n] = b * power[n - 1]
  BY <1>6, <1>7
<1>9. ASSUME NEW n \in Nat PROVE power[n + 1] = b * power[n]
  <2>1. n + 1 \in Nat \ {0} /\ (n + 1) - 1 = n
    OBVIOUS
  <2> QED
    BY <1>8, <2>1
<1>10. ASSUME NEW n \in Nat PROVE power[n] \in Int
  <2> DEFINE T == {m \in Nat : power[m] \in Int}
  <2>1. 0 \in T
    BY <1>8
  <2>2. ASSUME NEW m \in Nat, m \in T PROVE m + 1 \in T
    BY <1>9, <2>2
  <2> HIDE DEF T
  <2>3. n \in T
    BY <2>1, <2>2, SetInduction
  <2> QED
    BY <2>3 DEF T
<1>11. power = [n \in Nat |-> power[n]]
  BY <1>6, <1>7
<1>12. power \in [Nat -> Int]
  BY <1>10, <1>11
<1> QED
  BY <1>7, <1>8, <1>9, <1>12

(* The product of positive numbers. *)
LEMMA PositiveProduct ==
    ASSUME NEW a \in Nat \ {0}, NEW b \in Nat \ {0}
    PROVE  a * b \in Nat \ {0} /\ a <= a * b /\ b <= a * b
  OBVIOUS

(* The powers of a positive number are positive. *)
LEMMA PowerPositive ==
    ASSUME NEW b \in Nat \ {0}, NEW n \in Nat
    PROVE  Power(b)[n] \in Nat \ {0}
<1> DEFINE T == {m \in Nat : Power(b)[m] \in Nat \ {0}}
<1>1. 0 \in T
  <2>1. b \in Int
    OBVIOUS
  <2>2. Power(b)[0] = 1
    BY <2>1, PowerStep
  <2> QED
    BY <2>2
<1>2. ASSUME NEW m \in Nat, m \in T PROVE m + 1 \in T
  <2>1. Power(b)[m + 1] = b * Power(b)[m]
    BY PowerStep
  <2> QED
    BY <2>1, <1>2, PositiveProduct
<1> HIDE DEF T
<1>3. n \in T
  BY <1>1, <1>2, SetInduction
<1> QED
  BY <1>3 DEF T

(* The rules of exponents. *)
LEMMA PowerAdd ==
    ASSUME NEW b \in Int, NEW n \in Nat, NEW m \in Nat
    PROVE  Power(b)[n + m] = Power(b)[n] * Power(b)[m]
<1>1. PICK power \in [Nat -> Int] : power = Power(b)
  BY PowerStep
<1>2. power[0] = 1 /\ \A i \in Nat : power[i + 1] = b * power[i]
  BY <1>1, PowerStep
<1> DEFINE T == {i \in Nat : power[n + i] = power[n] * power[i]}
<1>3. 0 \in T
  BY <1>2
<1>4. ASSUME NEW i \in Nat, i \in T PROVE i + 1 \in T
  <2>1. n + (i + 1) = (n + i) + 1 /\ n + i \in Nat
    OBVIOUS
  <2>2. power[n + (i + 1)] = b * power[n + i]
    BY <1>2, <2>1
  <2>3. power[n + i] = power[n] * power[i] /\ power[i + 1] = b * power[i]
    BY <1>2, <1>4
  <2>4. PICK x \in Int, y \in Int : x = power[n] /\ y = power[i]
    OBVIOUS
  <2>5. b * (x * y) = x * (b * y)
    OBVIOUS
  <2> QED
    BY <2>2, <2>3, <2>4, <2>5
<1> HIDE DEF T
<1>5. m \in T
  BY <1>3, <1>4, SetInduction
<1> QED
  BY <1>1, <1>5 DEF T

(* Division with remainder. *)
LEMMA Division ==
    ASSUME NEW n \in Int, NEW d \in Nat \ {0}
    PROVE  /\ n \div d \in Int /\ n % d \in 0 .. (d - 1)
           /\ n = d * (n \div d) + (n % d)
  OBVIOUS

(* Quotient and remainder are the only numbers that fit. *)
LEMMA DivisionUnique ==
    ASSUME NEW n \in Int, NEW d \in Nat \ {0}, NEW q \in Int, NEW r \in 0 .. (d - 1), n = d * q + r
    PROVE  n \div d = q /\ n % d = r
<1>1. PICK p \in Int, s \in 0 .. (d - 1) : p = n \div d /\ s = n % d /\ n = d * p + s
  BY Division
<1>2. d * (p - q) = r - s
  BY <1>1
<1>3. ~(p > q)
  <2> SUFFICES ASSUME p > q PROVE FALSE
    OBVIOUS
  <2>1. d <= d * (p - q)
    BY PositiveProduct
  <2> QED
    BY <1>1, <1>2, <2>1
<1>4. ~(p < q)
  <2> SUFFICES ASSUME p < q PROVE FALSE
    OBVIOUS
  <2>1. d <= d * (q - p)
    BY PositiveProduct
  <2>2. d * (q - p) = s - r
    BY <1>1
  <2> QED
    BY <1>1, <2>1, <2>2
<1>5. p = q /\ s = r
  BY <1>1, <1>3, <1>4
<1> QED
  BY <1>1, <1>5

(* The remainder of a number below the divisor, and of a negative one. *)
LEMMA SmallRemainder ==
    ASSUME NEW d \in Nat \ {0}, NEW n \in Int, -d <= n, n < 2 * d
    PROVE  n % d = IF n < 0 THEN n + d ELSE IF n < d THEN n ELSE n - d
<1>1. CASE n < 0
  BY <1>1, DivisionUnique, n = d * (-1) + (n + d), n + d \in 0 .. (d - 1)
<1>2. CASE 0 <= n /\ n < d
  BY <1>2, DivisionUnique, n = d * 0 + n, n \in 0 .. (d - 1)
<1>3. CASE d <= n
  BY <1>3, DivisionUnique, n = d * 1 + (n - d), n - d \in 0 .. (d - 1)
<1> QED
  BY <1>1, <1>2, <1>3

(* A quotient is smaller by a factor. *)
LEMMA QuotientBound ==
    ASSUME NEW b \in Nat \ {0}, NEW n \in Nat, NEW p \in Nat, n < b * p
    PROVE  n \div b \in Nat /\ n \div b < p
<1>1. PICK q \in Int, r \in 0 .. (b - 1) : q = n \div b /\ n = b * q + r
  BY Division
<1>2. q >= 0
  <2> SUFFICES ASSUME q < 0 PROVE FALSE
    OBVIOUS
  <2>1. b <= b * (-q)
    BY PositiveProduct
  <2>2. b * (-q) = -(b * q)
    OBVIOUS
  <2> QED
    BY <1>1, <2>1, <2>2
<1>3. q < p
  <2> SUFFICES ASSUME q >= p PROVE FALSE
    OBVIOUS
  <2>1. b * q >= b * p
    OBVIOUS
  <2> QED
    BY <1>1, <2>1
<1> QED
  BY <1>1, <1>2, <1>3

IsShift(rest, b, n) ==
    rest \in [Nat -> Nat] /\ rest[0] = n /\ \A i \in Nat : rest[i + 1] = rest[i] \div b

(* Shifting, digit by digit. *)
LEMMA ShiftStep ==
    ASSUME NEW b \in Nat \ {0}, NEW n \in Nat
    PROVE  IsShift(Shift(b, n), b, n)
<1>1. \A x \in Nat : x \div b \in Nat
  <2> TAKE x \in Nat
  <2>1. x < b * (x + 1)
    OBVIOUS
  <2> QED
    BY <2>1, QuotientBound
<1>2. PICK step : step = [p \in (Nat \ {0}) \X Nat |-> p[2] \div b]
  OBVIOUS
<1>3. PICK f \in [Nat -> Nat] : IsEndless(f, n, step)
  <2>1. step \in [(Nat \ {0}) \X Nat -> Nat]
    BY <1>1, <1>2
  <2> QED
    BY <2>1, EndlessLoopExists
<1>4. ASSUME NEW i \in Nat \ {0} PROVE f[i] = f[i - 1] \div b
  <2>1. i - 1 \in Nat /\ f[i - 1] \in Nat
    OBVIOUS
  <2>2. f[i] = step[<<i, f[i - 1]>>]
    BY <1>3 DEF IsEndless
  <2> QED
    BY <1>2, <2>1, <2>2
<1> DEFINE equation(g) == g = [i \in Nat |-> IF i = 0 THEN n ELSE g[i - 1] \div b]
<1>5. equation(f)
  BY <1>3, <1>4 DEF IsEndless
<1>6. equation(Shift(b, n))
  BY <1>5 DEF Shift
<1>7. PICK rest : rest = Shift(b, n)
  OBVIOUS
<1>8. rest[0] = n /\ \A i \in Nat \ {0} : rest[i] = rest[i - 1] \div b
  BY <1>6, <1>7
<1>9. ASSUME NEW i \in Nat PROVE rest[i + 1] = rest[i] \div b
  <2>1. i + 1 \in Nat \ {0} /\ (i + 1) - 1 = i
    OBVIOUS
  <2> QED
    BY <1>8, <2>1
<1>10. ASSUME NEW i \in Nat PROVE rest[i] \in Nat
  <2> DEFINE T == {m \in Nat : rest[m] \in Nat}
  <2>1. 0 \in T
    BY <1>8
  <2>2. ASSUME NEW m \in Nat, m \in T PROVE m + 1 \in T
    BY <1>1, <1>9, <2>2
  <2> HIDE DEF T
  <2>3. i \in T
    BY <2>1, <2>2, SetInduction
  <2> QED
    BY <2>3 DEF T
<1>11. rest = [i \in Nat |-> rest[i]]
  BY <1>6, <1>7
<1>12. rest \in [Nat -> Nat]
  BY <1>10, <1>11
<1> QED
  BY <1>7, <1>8, <1>9, <1>12 DEF IsShift

(* The numbers that the last digits make, one more digit at a time. *)
IsJoin(last, b, digits) ==
    /\ last \in [0 .. Len(digits) -> Int] /\ last[0] = 0
    /\ \A k \in 1 .. Len(digits) : last[k] = digits[Len(digits) - k + 1] + b * last[k - 1]

(* Joining, digit by digit. *)
LEMMA JoinExists ==
    ASSUME NEW b \in Int, NEW digits \in Seq(Int)
    PROVE  \E last : IsJoin(last, b, digits) /\ Joined(b, digits) = last[Len(digits)]
<1>1. PICK zero \in Int : zero = 0
  OBVIOUS
<1>2. PICK n \in Nat : n = Len(digits)
  OBVIOUS
<1>3. PICK step : step = [p \in (1 .. n) \X Int |-> digits[n - p[1] + 1] + b * p[2]]
  OBVIOUS
<1>4. \A k \in 1 .. n : digits[n - k + 1] \in Int
  BY <1>2
<1>5. step \in [(1 .. n) \X Int -> Int]
  BY <1>3, <1>4
<1>6. PICK f \in [0 .. n -> Int] : IsLoop(f, n, zero, step)
  BY <1>5, LoopExists
<1>7. ASSUME NEW k \in 1 .. n PROVE f[k] = digits[n - k + 1] + b * f[k - 1]
  <2>1. k - 1 \in 0 .. n /\ f[k - 1] \in Int
    OBVIOUS
  <2>2. f[k] = step[<<k, f[k - 1]>>]
    BY <1>6 DEF IsLoop
  <2> QED
    BY <1>3, <2>1, <2>2
<1>8. f[0] = 0
  BY <1>1, <1>6 DEF IsLoop
<1> DEFINE equation(g) == g = [k \in 0 .. Len(digits) |->
               IF k = 0 THEN 0 ELSE digits[Len(digits) - k + 1] + b * g[k - 1]]
<1>9. equation(f)
  BY <1>2, <1>7, <1>8
<1> DEFINE last == CHOOSE g : equation(g)
<1>10. equation(last)
  <2> HIDE DEF equation
  <2> QED
    BY <1>9
<1>11. Joined(b, digits) = last[Len(digits)]
  BY DEF Joined
<1> HIDE DEF last
<1>12. last[0] = 0 /\ \A k \in 1 .. n : last[k] = digits[n - k + 1] + b * last[k - 1]
  <2>1. last[0] = 0
    BY <1>2, <1>10
  <2>2. ASSUME NEW k \in 1 .. Len(digits)
        PROVE  last[k] = digits[Len(digits) - k + 1] + b * last[k - 1]
    <3>1. k \in 0 .. Len(digits) /\ k # 0
      OBVIOUS
    <3> QED
      BY <1>10, <3>1, Zenon
  <2> QED
    BY <1>2, <2>1, <2>2
<1>13. \A k \in 0 .. n : last[k] = f[k]
  <2> DEFINE T == {m \in Nat : m <= n => last[m] = f[m]}
  <2>1. 0 \in T
    BY <1>8, <1>12
  <2>2. ASSUME NEW m \in Nat, m \in T PROVE m + 1 \in T
    <3> SUFFICES ASSUME m + 1 <= n PROVE last[m + 1] = f[m + 1]
      OBVIOUS
    <3>1. m + 1 \in 1 .. n /\ (m + 1) - 1 = m /\ last[m] = f[m]
      BY <2>2
    <3> QED
      BY <3>1, <1>7, <1>12
  <2>3. \A m \in Nat : m \in T
    <3> HIDE DEF T
    <3> QED
      BY <2>1, <2>2, SetInduction
  <2> QED
    BY <2>3
<1>14. last \in [0 .. n -> Int]
  <2>1. last = [k \in 0 .. n |-> last[k]]
    BY <1>2, <1>10
  <2> QED
    BY <2>1, <1>13
<1> QED
  BY <1>2, <1>11, <1>12, <1>14 DEF IsJoin

(* The digits of a number, joined, are the number again. *)
LEMMA DigitsJoined ==
    ASSUME NEW b \in Nat \ {0}, NEW size \in Nat, NEW n \in Nat, n < Power(b)[size],
           NEW digits \in Seq(Int), Len(digits) = size,
           \A i \in 1 .. size : digits[i] = Shift(b, n)[i - 1] % b
    PROVE  Joined(b, digits) = n
<1>1. IsShift(Shift(b, n), b, n)
  BY ShiftStep
<1>2. PICK rest \in [Nat -> Nat] : rest = Shift(b, n) /\ IsShift(rest, b, n)
  BY <1>1 DEF IsShift
<1>3. rest[0] = n /\ \A i \in Nat : rest[i] \in Nat /\ rest[i + 1] = rest[i] \div b
  BY <1>2 DEF IsShift
<1>4. b \in Int
  OBVIOUS
<1>5. PICK power \in [Nat -> Int] : power = Power(b)
  BY <1>4, PowerStep
<1>6. power[0] = 1 /\ \A i \in Nat : power[i + 1] = b * power[i] /\ power[i] \in Nat
  <2>1. \A i \in Nat : power[i] \in Nat
    BY <1>5, PowerPositive
  <2> QED
    BY <1>4, <1>5, <2>1, PowerStep
<1>7. rest[size] = 0
  <2> DEFINE T == {i \in Nat : i <= size => rest[i] < power[size - i]}
  <2>1. 0 \in T
    BY <1>3, <1>5
  <2>2. ASSUME NEW i \in Nat, i \in T PROVE i + 1 \in T
    <3> SUFFICES ASSUME i + 1 <= size PROVE rest[i + 1] < power[size - (i + 1)]
      OBVIOUS
    <3>1. PICK j \in Nat : j = size - (i + 1) /\ j + 1 = size - i
      OBVIOUS
    <3>2. rest[i] < b * power[j] /\ rest[i] \in Nat /\ power[j] \in Nat
      BY <1>3, <1>6, <2>2, <3>1
    <3>3. rest[i] \div b < power[j]
      BY <3>2, QuotientBound
    <3> QED
      BY <1>3, <3>1, <3>3
  <2>3. size \in T
    <3> HIDE DEF T
    <3> QED
      BY <2>1, <2>2, SetInduction
  <2>4. rest[size] < power[0] /\ rest[size] \in Nat
    BY <1>3, <2>3
  <2> QED
    BY <1>6, <2>4
<1>8. PICK last \in [0 .. size -> Int] : IsJoin(last, b, digits) /\ Joined(b, digits) = last[size]
  BY <1>4, JoinExists DEF IsJoin
<1> DEFINE T == {k \in Nat : k <= size => last[k] = rest[size - k]}
<1>9. 0 \in T
  BY <1>7, <1>8 DEF IsJoin
<1>10. ASSUME NEW k \in Nat, k \in T PROVE k + 1 \in T
  <2> SUFFICES ASSUME k + 1 <= size PROVE last[k + 1] = rest[size - (k + 1)]
    OBVIOUS
  <2>1. PICK j \in Nat : j = size - (k + 1) /\ j + 1 = size - k /\ j + 1 \in 1 .. size
    OBVIOUS
  <2>2. k + 1 \in 1 .. size /\ (k + 1) - 1 = k /\ size - (k + 1) + 1 = j + 1
    BY <2>1
  <2>3. last[k + 1] = digits[j + 1] + b * last[k]
    BY <1>8, <2>2 DEF IsJoin
  <2>4. digits[j + 1] = rest[j] % b
    BY <1>2, <2>1
  <2>5. last[k] = rest[j + 1] /\ rest[j + 1] = rest[j] \div b
    BY <1>3, <1>10, <2>1
  <2>6. PICK x \in Int, q \in Int, r \in Int : x = rest[j] /\ q = x \div b /\ r = x % b /\ x = b * q + r
    <3>1. PICK x \in Int : x = rest[j]
      OBVIOUS
    <3>2. x \div b \in Int /\ x % b \in 0 .. (b - 1) /\ x = b * (x \div b) + (x % b)
      BY Division
    <3>3. x % b \in Int
      BY <3>2
    <3> QED
      BY <3>1, <3>2, <3>3
  <2>7. PICK y \in Int : y = b * q
    OBVIOUS
  <2>8. last[k + 1] = r + y
    BY <2>3, <2>4, <2>5, <2>6, <2>7
  <2>9. x = y + r /\ rest[size - (k + 1)] = x
    BY <2>1, <2>6, <2>7
  <2> QED
    BY <2>8, <2>9
<1>11. size \in T
  <2> HIDE DEF T
  <2> QED
    BY <1>9, <1>10, SetInduction
<1>12. last[size] = rest[0]
  BY <1>11
<1> QED
  BY <1>3, <1>8, <1>12

(* A number and a bit below it. *)
LEMMA LowestBit ==
    ASSUME NEW x \in Nat, NEW bit \in 0 .. 1
    PROVE  /\ (bit + 2 * x) % 2 = bit /\ (bit + 2 * x) \div 2 = x /\ bit + 2 * x \in Nat
           /\ \A p \in Int : x < p => bit + 2 * x < 2 * p
  OBVIOUS

(* The bits of a byte are those it was joined from. *)
LEMMA JoinedBits ==
    ASSUME NEW bits \in Seq(0 .. 1)
    PROVE  /\ Joined(2, bits) \in Nat /\ Joined(2, bits) < Power(2)[Len(bits)]
           /\ \A i \in 1 .. Len(bits) : Shift(2, Joined(2, bits))[i - 1] % 2 = bits[i]
<1>1. PICK n \in Nat : n = Len(bits)
  OBVIOUS
<1>2. bits \in Seq(Int) /\ \A i \in 1 .. n : bits[i] \in 0 .. 1
  BY <1>1
<1>3. PICK two \in Int : two = 2
  OBVIOUS
<1>4. PICK last \in [0 .. n -> Int] : IsJoin(last, two, bits) /\ Joined(two, bits) = last[n]
  BY <1>1, <1>2, JoinExists DEF IsJoin
<1>5. \A k \in 1 .. n : last[k] = bits[n - k + 1] + 2 * last[k - 1]
  BY <1>1, <1>3, <1>4 DEF IsJoin
<1>6. last[0] = 0
  BY <1>4 DEF IsJoin
<1>7. PICK power \in [Nat -> Int] : power = Power(two)
  BY PowerStep
<1>8. power[0] = 1
  BY <1>7, PowerStep
<1>9. ASSUME NEW i \in Nat PROVE power[i + 1] = 2 * power[i]
  BY <1>3, <1>7, PowerStep
<1>10. ASSUME NEW k \in 0 .. n PROVE last[k] \in Nat /\ last[k] < power[k]
  <2> DEFINE T == {m \in Nat : m <= n => last[m] \in Nat /\ last[m] < power[m]}
  <2>1. 0 \in T
    BY <1>6, <1>8
  <2>2. ASSUME NEW m \in Nat, m \in T PROVE m + 1 \in T
    <3> SUFFICES ASSUME m + 1 <= n PROVE last[m + 1] \in Nat /\ last[m + 1] < power[m + 1]
      OBVIOUS
    <3>1. m + 1 \in 1 .. n /\ (m + 1) - 1 = m /\ n - (m + 1) + 1 \in 1 .. n
      OBVIOUS
    <3>2. PICK bit \in 0 .. 1 : bit = bits[n - (m + 1) + 1]
      BY <1>2, <3>1
    <3>3. last[m + 1] = bit + 2 * last[m]
      BY <1>5, <3>1, <3>2
    <3>4. PICK x \in Nat, p \in Int : x = last[m] /\ p = power[m] /\ x < p
      BY <2>2
    <3>5. power[m + 1] = 2 * p
      BY <1>9, <3>4
    <3>6. bit + 2 * x \in Nat /\ bit + 2 * x < 2 * p
      BY <3>4, LowestBit
    <3> QED
      BY <3>3, <3>4, <3>5, <3>6
  <2>3. k \in T
    <3>1. k \in Nat
      OBVIOUS
    <3> HIDE DEF T
    <3> QED
      BY <2>1, <2>2, <3>1, SetInduction
  <2> QED
    BY <2>3
<1>11. PICK byte \in Nat : byte = last[n] /\ byte < power[n]
  BY <1>10
<1>12. PICK rest \in [Nat -> Nat] : rest = Shift(2, byte) /\ IsShift(rest, 2, byte)
  <2>1. two \in Nat \ {0}
    BY <1>3
  <2>2. IsShift(Shift(two, byte), two, byte)
    BY <2>1, ShiftStep
  <2> QED
    BY <1>3, <2>2 DEF IsShift
<1>13. rest[0] = byte
  BY <1>12 DEF IsShift
<1>14. ASSUME NEW i \in Nat PROVE rest[i + 1] = rest[i] \div 2
  BY <1>12 DEF IsShift
<1>15. \A i \in 0 .. n : rest[i] = last[n - i]
  <2> DEFINE T == {i \in Nat : i <= n => rest[i] = last[n - i]}
  <2>1. 0 \in T
    BY <1>11, <1>13
  <2>2. ASSUME NEW i \in Nat, i \in T PROVE i + 1 \in T
    <3> SUFFICES ASSUME i + 1 <= n PROVE rest[i + 1] = last[n - (i + 1)]
      OBVIOUS
    <3>1. PICK k \in 1 .. n : k = n - i
      OBVIOUS
    <3>2. PICK bit \in 0 .. 1 : bit = bits[n - k + 1]
      <4>1. n - k + 1 \in 1 .. n
        OBVIOUS
      <4> QED
        BY <1>2, <4>1
    <3>3. PICK x \in Nat : x = last[k - 1]
      BY <1>10
    <3>4. last[k] = bit + 2 * x
      BY <1>5, <3>2, <3>3
    <3>5. last[k] \div 2 = x
      BY <3>4, LowestBit
    <3>6. rest[i + 1] = rest[i] \div 2 /\ rest[i] = last[k]
      BY <1>14, <2>2, <3>1
    <3> QED
      BY <3>1, <3>3, <3>5, <3>6
  <2>3. \A i \in Nat : i \in T
    <3> HIDE DEF T
    <3> QED
      BY <2>1, <2>2, SetInduction
  <2> QED
    BY <2>3
<1>16. ASSUME NEW i \in 1 .. n PROVE rest[i - 1] % 2 = bits[i]
  <2>1. PICK k \in 1 .. n : k = n - (i - 1) /\ n - k + 1 = i
    OBVIOUS
  <2>2. PICK x \in Nat : x = last[k - 1]
    BY <1>10
  <2>3. PICK bit \in 0 .. 1 : bit = bits[i]
    BY <1>2
  <2>4. last[k] = bit + 2 * x
    BY <1>5, <2>1, <2>2, <2>3
  <2>5. rest[i - 1] = last[k]
    BY <1>15, <2>1
  <2>6. (bit + 2 * x) % 2 = bit
    BY LowestBit
  <2> QED
    BY <2>3, <2>4, <2>5, <2>6
<1> QED
  BY <1>1, <1>3, <1>4, <1>7, <1>11, <1>12, <1>16

-----------------------------------------------------------------------------
(* The bytes of a value *)

Byte == 0 .. (Base - 1)

(* A byte has at least one bit. *)
LEMMA EvenBase == \E p \in Nat \ {0} : Base = 2 * p
<1>1. PICK two \in Int : two = 2 /\ two \in Nat \ {0}
  OBVIOUS
<1>2. BITS \in Nat /\ BITS - 1 \in Nat /\ (BITS - 1) + 1 = BITS
  BY BitsAssumption
<1>3. PICK p \in Nat \ {0} : p = Power(two)[BITS - 1]
  BY <1>1, <1>2, PowerPositive
<1>4. Power(two)[(BITS - 1) + 1] = two * Power(two)[BITS - 1]
  BY <1>2, PowerStep
<1>5. Base = 2 * p
  BY <1>1, <1>2, <1>3, <1>4 DEF Base
<1> QED
  BY <1>5

(* A byte has at least two values; the powers of that are positive. *)
LEMMA BaseFacts ==
    /\ Base \in Nat \ {0} /\ 2 <= Base
    /\ \A size \in Nat : Power(Base)[size] \in Nat \ {0}
<1>1. PICK p \in Nat \ {0} : Base = 2 * p
  BY EvenBase
<1>2. Base \in Nat \ {0} /\ 2 <= Base
  BY <1>1
<1> QED
  BY <1>2, PowerPositive

(* A function on the first numbers is a sequence. *)
LEMMA FunctionSequence ==
    ASSUME NEW S, NEW n \in Nat, NEW s \in [1 .. n -> S]
    PROVE  s \in Seq(S) /\ Len(s) = n
  OBVIOUS

(* The bytes of a number tell it modulo their range. *)
LEMMA NumberBytes ==
    ASSUME NEW n \in Int, NEW size \in Nat
    PROVE  /\ to_le_bytes(n, size) \in Seq(Byte) /\ Len(to_le_bytes(n, size)) = size
           /\ Unsigned(to_le_bytes(n, size)) = n % Power(Base)[size]
<1>1. PICK b \in Nat \ {0} : b = Base
  BY BaseFacts
<1>2. PICK range \in Nat \ {0} : range = Power(b)[size]
  BY <1>1, BaseFacts
<1>3. PICK m \in Nat : m = n % range /\ m < range
  <2>1. n % range \in 0 .. (range - 1)
    BY Division
  <2> QED
    BY <2>1
<1>4. PICK bytes : bytes = [i \in 1 .. size |-> Shift(b, m)[i - 1] % b]
  OBVIOUS
<1>5. bytes = to_le_bytes(n, size)
  BY <1>1, <1>2, <1>3, <1>4 DEF to_le_bytes
<1>6. ASSUME NEW i \in 1 .. size PROVE Shift(b, m)[i - 1] % b \in 0 .. (b - 1)
  <2>1. IsShift(Shift(b, m), b, m)
    BY ShiftStep
  <2>2. PICK x \in Int : x = Shift(b, m)[i - 1]
    <3>1. i - 1 \in Nat
      OBVIOUS
    <3> QED
      BY <2>1, <3>1 DEF IsShift
  <2>3. x % b \in 0 .. (b - 1)
    BY Division
  <2> QED
    BY <2>2, <2>3
<1>7. bytes \in [1 .. size -> 0 .. (b - 1)]
  BY <1>4, <1>6
<1>8. bytes \in Seq(0 .. (b - 1)) /\ Len(bytes) = size
  BY <1>7, FunctionSequence
<1>9. bytes \in Seq(Int)
  <2>1. bytes \in [1 .. size -> Int]
    BY <1>7
  <2> QED
    BY <2>1, FunctionSequence
<1>10. \A i \in 1 .. size : bytes[i] = Shift(b, m)[i - 1] % b
  BY <1>4
<1>11. Joined(b, bytes) = m
  <2>1. m < Power(b)[size] /\ Len(bytes) = size
    BY <1>2, <1>3, <1>8
  <2> QED
    BY <2>1, <1>9, <1>10, DigitsJoined, Zenon
<1> QED
  BY <1>1, <1>2, <1>3, <1>5, <1>8, <1>11 DEF Unsigned, Byte

(* An unsigned number comes back from its bytes. *)
LEMMA UnsignedRoundTrip ==
    ASSUME NEW size \in Nat, NEW n \in 0 .. (Power(Base)[size] - 1)
    PROVE  Unsigned(to_le_bytes(n, size)) = n
<1>1. PICK range \in Nat \ {0} : range = Power(Base)[size]
  BY BaseFacts
<1>2. n \in Int /\ 0 <= n /\ n < range
  BY <1>1
<1>3. n % range = n
  BY <1>2, SmallRemainder
<1>4. Unsigned(to_le_bytes(n, size)) = n % Power(Base)[size]
  BY <1>2, NumberBytes
<1> QED
  BY <1>1, <1>3, <1>4

(* A signed number comes back from its bytes. *)
LEMMA SignedRoundTrip ==
    ASSUME NEW size \in Nat, NEW n \in Signed(size)
    PROVE  from_le_bytes(to_le_bytes(n, size)) = n
<1>1. PICK range \in Nat \ {0} : range = Power(Base)[size]
  BY BaseFacts
<1>2. n \in Int /\ -range <= 2 * n /\ 2 * n < range
  BY <1>1 DEF Signed
<1>3. PICK bytes : bytes = to_le_bytes(n, size)
  OBVIOUS
<1>4. Unsigned(bytes) = n % range /\ Len(bytes) = size
  BY <1>1, <1>2, <1>3, NumberBytes
<1>5. n % range = IF n < 0 THEN n + range ELSE n
  <2>1. -range <= n /\ n < 2 * range /\ n < range
    BY <1>2
  <2> QED
    BY <1>2, <2>1, SmallRemainder
<1>6. PICK m \in Int : m = Unsigned(bytes) /\ m = IF n < 0 THEN n + range ELSE n
  BY <1>2, <1>4, <1>5
<1>7. from_le_bytes(bytes) = IF 2 * m >= range THEN m - range ELSE m
  BY <1>1, <1>4, <1>6 DEF from_le_bytes
<1>8. (IF 2 * m >= range THEN m - range ELSE m) = n
  BY <1>2, <1>6
<1> QED
  BY <1>3, <1>7, <1>8

-----------------------------------------------------------------------------
(* Pieces of a sequence *)

(* A sequence has the elements of another one after an offset. *)
Occurs(piece, offset, whole) ==
    /\ offset \in Nat /\ offset + Len(piece) <= Len(whole)
    /\ \A k \in 1 .. Len(piece) : whole[offset + k] = piece[k]

(* Two sequences with the same elements are the same. *)
LEMMA SameSequence ==
    ASSUME NEW S, NEW s \in Seq(S), NEW t \in Seq(S), Len(s) = Len(t),
           \A k \in 1 .. Len(s) : s[k] = t[k]
    PROVE  s = t
  OBVIOUS

(* A piece is read back from where it is. *)
LEMMA SliceOfPiece ==
    ASSUME NEW S, NEW whole \in Seq(S), NEW piece \in Seq(S), NEW offset, Occurs(piece, offset, whole)
    PROVE  SubSeq(whole, offset + 1, offset + Len(piece)) = piece
<1>1. PICK n \in Nat : n = Len(piece)
  OBVIOUS
<1>2. /\ offset \in Nat /\ offset + n <= Len(whole)
      /\ \A k \in 1 .. n : whole[offset + k] = piece[k]
  BY <1>1 DEF Occurs
<1>3. PICK s : s = SubSeq(whole, offset + 1, offset + n)
  OBVIOUS
<1>4. s \in Seq(S) /\ Len(s) = n /\ \A k \in 1 .. n : s[k] = whole[offset + k]
  <2>1. \A k \in (offset + 1) .. (offset + n) : whole[k] \in S
    BY <1>2
  <2>2. s = [k \in 1 .. n |-> whole[offset + k]]
    BY <1>2, <1>3
  <2>3. s \in [1 .. n -> S]
    BY <1>2, <2>2
  <2> QED
    BY <2>2, <2>3, FunctionSequence
<1>5. s = piece
  BY <1>1, <1>2, <1>4, SameSequence
<1> QED
  BY <1>1, <1>3, <1>5

(* The parts of a piece are pieces too. *)
LEMMA PartsOccur ==
    ASSUME NEW S, NEW whole \in Seq(S), NEW p \in Seq(S), NEW q \in Seq(S), NEW offset,
           Occurs(p \o q, offset, whole)
    PROVE  Occurs(p, offset, whole) /\ Occurs(q, offset + Len(p), whole)
<1>1. PICK n \in Nat, m \in Nat : n = Len(p) /\ m = Len(q)
  OBVIOUS
<1>2. PICK pq : pq = p \o q
  OBVIOUS
<1>3. Len(pq) = n + m /\ \A k \in 1 .. (n + m) : pq[k] = IF k <= n THEN p[k] ELSE q[k - n]
  BY <1>1, <1>2, ConcatProperties
<1>4. /\ offset \in Nat /\ offset + (n + m) <= Len(whole)
      /\ \A k \in 1 .. (n + m) : whole[offset + k] = pq[k]
  BY <1>2, <1>3 DEF Occurs
<1>5. Occurs(p, offset, whole)
  <2>1. offset + n <= Len(whole)
    BY <1>4
  <2>2. ASSUME NEW k \in 1 .. n PROVE whole[offset + k] = p[k]
    <3>1. k \in 1 .. (n + m) /\ k <= n
      OBVIOUS
    <3> QED
      BY <3>1, <1>3, <1>4
  <2> QED
    BY <1>1, <1>4, <2>1, <2>2 DEF Occurs
<1>6. Occurs(q, offset + n, whole)
  <2>1. offset + n \in Nat /\ (offset + n) + m <= Len(whole)
    BY <1>4
  <2>2. ASSUME NEW k \in 1 .. m PROVE whole[(offset + n) + k] = q[k]
    <3>1. PICK i \in 1 .. (n + m) : i = n + k /\ ~(i <= n) /\ i - n = k
      OBVIOUS
    <3>2. whole[offset + i] = q[i - n]
      BY <3>1, <1>3, <1>4
    <3>3. offset + i = (offset + n) + k
      BY <1>4, <3>1
    <3> QED
      BY <3>1, <3>2, <3>3
  <2> QED
    BY <1>1, <2>1, <2>2 DEF Occurs
<1> QED
  BY <1>1, <1>5, <1>6

(* A sequence occurs in itself. *)
LEMMA WholeOccurs ==
    ASSUME NEW S, NEW whole \in Seq(S)
    PROVE  Occurs(whole, 0, whole)
  BY DEF Occurs

(* Pieces of the parts of a sequence are pieces of the sequence. *)
LEMMA OccursInParts ==
    ASSUME NEW S, NEW p \in Seq(S), NEW q \in Seq(S), NEW piece \in Seq(S), NEW offset
    PROVE  /\ Occurs(piece, offset, p) => Occurs(piece, offset, p \o q)
           /\ Occurs(piece, offset, q) => Occurs(piece, Len(p) + offset, p \o q)
<1>1. PICK n \in Nat, m \in Nat, l \in Nat : n = Len(p) /\ m = Len(q) /\ l = Len(piece)
  OBVIOUS
<1>2. PICK pq : pq = p \o q
  OBVIOUS
<1>3. Len(pq) = n + m /\ \A k \in 1 .. (n + m) : pq[k] = IF k <= n THEN p[k] ELSE q[k - n]
  BY <1>1, <1>2, ConcatProperties
<1>4. ASSUME Occurs(piece, offset, p) PROVE Occurs(piece, offset, pq)
  <2>1. offset \in Nat /\ offset + l <= n /\ \A k \in 1 .. l : p[offset + k] = piece[k]
    BY <1>1, <1>4 DEF Occurs
  <2>2. ASSUME NEW k \in 1 .. l PROVE pq[offset + k] = piece[k]
    <3>1. PICK i \in 1 .. (n + m) : i = offset + k /\ i <= n
      BY <2>1
    <3> QED
      BY <3>1, <2>1, <1>3
  <2>3. offset + l <= n + m
    BY <2>1
  <2> QED
    BY <1>1, <1>3, <2>1, <2>2, <2>3 DEF Occurs
<1>5. ASSUME Occurs(piece, offset, q) PROVE Occurs(piece, n + offset, pq)
  <2>1. offset \in Nat /\ offset + l <= m /\ \A k \in 1 .. l : q[offset + k] = piece[k]
    BY <1>1, <1>5 DEF Occurs
  <2>2. ASSUME NEW k \in 1 .. l PROVE pq[(n + offset) + k] = piece[k]
    <3>1. PICK i \in 1 .. (n + m) : i = (n + offset) + k /\ ~(i <= n) /\ i - n = offset + k
      BY <2>1
    <3>2. pq[i] = q[i - n]
      BY <3>1, <1>3
    <3> QED
      BY <3>1, <3>2, <2>1
  <2>3. n + offset \in Nat /\ (n + offset) + l <= n + m
    BY <2>1
  <2> QED
    BY <1>1, <1>3, <2>2, <2>3 DEF Occurs
<1> QED
  BY <1>1, <1>2, <1>4, <1>5

(* The pieces put together, one more at a time. *)
IsFlat(f, pieces, S) ==
    /\ f \in [0 .. Len(pieces) -> Seq(S)] /\ f[0] = <<>>
    /\ \A i \in 1 .. Len(pieces) : f[i] = f[i - 1] \o pieces[i]

(* FlattenSeq puts pieces together one by one. *)
LEMMA FlatExists ==
    ASSUME NEW S, NEW pieces \in Seq(Seq(S))
    PROVE  \E f : IsFlat(f, pieces, S) /\ FlattenSeq(pieces) = f[Len(pieces)]
<1>1. PICK empty \in Seq(S) : empty = <<>>
  BY EmptySeq
<1>2. PICK n \in Nat : n = Len(pieces)
  OBVIOUS
<1>3. PICK step : step = [p \in (1 .. n) \X Seq(S) |-> p[2] \o pieces[p[1]]]
  OBVIOUS
<1>4. \A i \in 1 .. n : pieces[i] \in Seq(S)
  BY <1>2
<1>5. step \in [(1 .. n) \X Seq(S) -> Seq(S)]
  <2>1. ASSUME NEW p \in (1 .. n) \X Seq(S) PROVE p[2] \o pieces[p[1]] \in Seq(S)
    <3>1. p[1] \in 1 .. n /\ p[2] \in Seq(S)
      OBVIOUS
    <3> QED
      BY <3>1, <1>4, ConcatProperties
  <2> QED
    BY <1>3, <2>1
<1>6. PICK f \in [0 .. n -> Seq(S)] : IsLoop(f, n, empty, step)
  BY <1>5, LoopExists
<1>7. ASSUME NEW i \in 1 .. n PROVE f[i] = f[i - 1] \o pieces[i]
  <2>1. i - 1 \in 0 .. n /\ f[i - 1] \in Seq(S)
    OBVIOUS
  <2>2. f[i] = step[<<i, f[i - 1]>>]
    BY <1>6 DEF IsLoop
  <2> QED
    BY <1>3, <2>1, <2>2
<1>8. f[0] = <<>>
  BY <1>1, <1>6 DEF IsLoop
<1>9. IsFlat(f, pieces, S)
  BY <1>2, <1>7, <1>8 DEF IsFlat
<1>10. CASE n = 0
  <2>1. pieces = <<>>
    BY <1>2, <1>10, EmptySeq
  <2>2. FlattenSeq(pieces) = pieces
    BY <1>2, <1>10 DEF FlattenSeq
  <2> QED
    BY <1>2, <1>8, <1>9, <1>10, <2>1, <2>2
<1>11. CASE n # 0
  <2> DEFINE equation(g) == g = [i \in 1 .. Len(pieces) |->
                 IF i = 1 THEN pieces[i] ELSE g[i - 1] \o pieces[i]]
             flatten == CHOOSE g : equation(g)
  <2>1. PICK h : h = [i \in 1 .. n |-> f[i]]
    OBVIOUS
  <2>2. ASSUME NEW i \in 1 .. n PROVE h[i] = IF i = 1 THEN pieces[i] ELSE h[i - 1] \o pieces[i]
    <3>1. h[i] = f[i - 1] \o pieces[i]
      BY <1>7, <2>1
    <3>2. CASE i = 1
      <4>1. f[i - 1] = <<>> /\ pieces[i] \in Seq(S)
        BY <1>4, <1>8, <3>2
      <4>2. <<>> \o pieces[i] = pieces[i]
        BY <4>1
      <4> QED
        BY <3>1, <3>2, <4>1, <4>2
    <3>3. CASE i # 1
      <4>1. i - 1 \in 1 .. n
        BY <3>3
      <4>2. h[i - 1] = f[i - 1]
        BY <2>1, <4>1
      <4> QED
        BY <3>1, <3>3, <4>2
    <3> QED
      BY <3>2, <3>3
  <2>3. equation(h)
    <3>1. h = [i \in 1 .. n |-> IF i = 1 THEN pieces[i] ELSE h[i - 1] \o pieces[i]]
      BY <2>1, <2>2
    <3> QED
      BY <1>2, <3>1
  <2>4. equation(flatten)
    <3> HIDE DEF equation
    <3> QED
      BY <2>3
  <2>5. FlattenSeq(pieces) = flatten[Len(pieces)]
    BY <1>2, <1>11 DEF FlattenSeq
  <2> HIDE DEF flatten
  <2>6. ASSUME NEW i \in 1 .. n PROVE flatten[i] = IF i = 1 THEN pieces[i] ELSE flatten[i - 1] \o pieces[i]
    <3>1. i \in 1 .. Len(pieces)
      BY <1>2
    <3> QED
      BY <2>4, <3>1, Zenon
  <2> HIDE DEF equation
  <2> DEFINE T == {m \in Nat : m \in 1 .. n => flatten[m] = f[m]}
  <2>7. 0 \in T
    OBVIOUS
  <2>8. ASSUME NEW m \in Nat, m \in T PROVE m + 1 \in T
    <3> SUFFICES ASSUME m + 1 \in 1 .. n PROVE flatten[m + 1] = f[m + 1]
      OBVIOUS
    <3>1. f[m + 1] = h[m + 1]
      BY <2>1
    <3>2. CASE m = 0
      BY <2>2, <2>6, <3>1, <3>2
    <3>3. CASE m # 0
      <4>1. m \in 1 .. n /\ (m + 1) - 1 = m /\ m + 1 # 1
        BY <3>3
      <4>2. flatten[m] = f[m] /\ h[m] = f[m]
        BY <2>1, <2>8, <4>1
      <4>3. flatten[m + 1] = flatten[m] \o pieces[m + 1]
        BY <2>6, <4>1
      <4>4. h[m + 1] = h[m] \o pieces[m + 1]
        BY <2>2, <4>1
      <4> QED
        BY <3>1, <4>2, <4>3, <4>4
    <3> QED
      BY <3>2, <3>3
  <2>9. n \in T
    <3> HIDE DEF T
    <3> QED
      BY <2>7, <2>8, SetInduction
  <2>10. flatten[n] = f[n]
    BY <1>11, <2>9
  <2> QED
    BY <1>2, <1>9, <2>5, <2>10
<1> QED
  BY <1>10, <1>11

(* Every piece is where the pieces before it end. *)
LEMMA FlatOccurs ==
    ASSUME NEW S, NEW pieces \in Seq(Seq(S)), NEW f, IsFlat(f, pieces, S),
           NEW i \in 1 .. Len(pieces)
    PROVE  /\ Occurs(pieces[i], Len(f[i - 1]), f[Len(pieces)])
           /\ Len(f[i]) = Len(f[i - 1]) + Len(pieces[i])
<1>1. PICK n \in Nat : n = Len(pieces)
  OBVIOUS
<1>2. f \in [0 .. n -> Seq(S)] /\ \A k \in 1 .. n : f[k] = f[k - 1] \o pieces[k]
  BY <1>1 DEF IsFlat
<1>3. PICK piece \in Seq(S), before \in Seq(S) : piece = pieces[i] /\ before = f[i - 1]
  <2>1. pieces[i] \in Seq(S)
    OBVIOUS
  <2>2. f[i - 1] \in Seq(S)
    <3>1. f \in [0 .. n -> Seq(S)] /\ i - 1 \in 0 .. n
      BY <1>1, <1>2
    <3> QED
      BY <3>1
  <2> QED
    BY <2>1, <2>2
<1>4. PICK offset \in Nat : offset = Len(before)
  OBVIOUS
<1>5. f[i] = before \o piece
  BY <1>1, <1>2, <1>3
<1> DEFINE T == {m \in Nat : i <= m /\ m <= n => Occurs(piece, offset, f[m])}
<1>6. Occurs(piece, offset, before \o piece)
  <2>1. PICK zero \in Nat : zero = 0
    OBVIOUS
  <2>2. Occurs(piece, zero, piece)
    BY <2>1, WholeOccurs
  <2>3. Occurs(piece, Len(before) + zero, before \o piece)
    BY <2>2, OccursInParts
  <2>4. Len(before) + zero = offset
    BY <1>4, <2>1
  <2> QED
    BY <2>3, <2>4
<1>7. 0 \in T
  OBVIOUS
<1>8. ASSUME NEW m \in Nat, m \in T PROVE m + 1 \in T
  <2> SUFFICES ASSUME i <= m + 1, m + 1 <= n PROVE Occurs(piece, offset, f[m + 1])
    OBVIOUS
  <2>1. CASE i = m + 1
    BY <1>5, <1>6, <2>1
  <2>2. CASE i # m + 1
    <3>1. i <= m /\ m <= n /\ m + 1 \in 1 .. n /\ (m + 1) - 1 = m /\ m \in 0 .. n
      BY <2>2
    <3>2. Occurs(piece, offset, f[m])
      BY <1>8, <3>1
    <3>3. PICK g \in Seq(S), next \in Seq(S) : g = f[m] /\ next = pieces[m + 1]
      <4>1. pieces[m + 1] \in Seq(S)
        BY <1>1, <3>1
      <4>2. f[m] \in Seq(S)
        BY <1>2, <3>1
      <4> QED
        BY <4>1, <4>2
    <3>4. Occurs(piece, offset, g \o next)
      BY <3>2, <3>3, OccursInParts
    <3>5. f[m + 1] = g \o next
      BY <1>2, <3>1, <3>3
    <3> QED
      BY <3>4, <3>5
  <2> QED
    BY <2>1, <2>2
<1>9. n \in T
  <2> HIDE DEF T
  <2> QED
    BY <1>7, <1>8, SetInduction
<1>10. Occurs(piece, offset, f[n])
  BY <1>1, <1>9
<1>11. Len(before \o piece) = Len(before) + Len(piece)
  BY ConcatProperties
<1> QED
  BY <1>1, <1>3, <1>4, <1>5, <1>10, <1>11

-----------------------------------------------------------------------------
(* Data types and their text *)

(* The types that from_str() makes. *)
IsType(t) ==
    /\ t = Type(t.name, t.args)
    /\ \/ t.name \in {"Int", "BigInt", "Boolean", "DateTime", "Float"} /\ t.args = <<>>
       \/ t.name \in {"Varchar", "Blob"} /\ \E n \in 0 .. Limit(t.name) : t.args = <<n>>
       \/ t.name = "Decimal" /\ \E p, s \in 0 .. U8_MAX : s <= p /\ t.args = <<p, s>>

Argument == Nat \cup {NaT}
TypeText == [name : STRING, parens : {"none", "open", "closed"}, args : Seq(Argument)]

(* The limits of arguments are numbers. *)
LEMMA LimitNumber ==
    ASSUME NEW name
    PROVE  Limit(name) \in Nat
  BY LimitsAssumption DEF Limit

(* What from_str() returns is one of these types. *)
LEMMA FromStrType ==
    ASSUME NEW text \in TypeText, from_str(text).err = "None"
    PROVE  IsType(from_str(text).made)
<1>1. PICK args \in Seq(Argument) : args = text.args
  BY DEF TypeText
<1>2. PICK name : name = TypeNames[text.name]
  OBVIOUS
<1>3. /\ text.name \in DOMAIN TypeNames
      /\ Len(args) \in Arities(name)
      /\ \A i \in DOMAIN args : args[i] # NaT /\ args[i] <= Limit(name)
      /\ from_str(text) = IF name # "Decimal" THEN Ok(Type(name, args))
                          ELSE IF args = <<>> THEN Ok(Type("Decimal", <<18, 0>>))
                          ELSE decimal(args[1], args[2])
  BY <1>1, <1>2 DEF from_str, Err
<1>4. name \in {"Int", "BigInt", "Boolean", "DateTime", "Float", "Varchar", "Blob", "Decimal"}
  BY <1>2, <1>3 DEF TypeNames
<1>5. \A i \in 1 .. Len(args) : args[i] \in 0 .. Limit(name)
  <2> TAKE i \in 1 .. Len(args)
  <2>1. args[i] \in Nat \cup {NaT} /\ i \in DOMAIN args
    BY DEF Argument
  <2>2. args[i] \in Nat /\ args[i] <= Limit(name)
    BY <1>3, <2>1
  <2> QED
    BY <2>2, LimitNumber
<1>6. CASE name \in {"Int", "BigInt", "Boolean", "DateTime", "Float"}
  <2>1. Len(args) = 0
    BY <1>3, <1>6 DEF Arities
  <2>2. args = <<>>
    BY <2>1, EmptySeq
  <2> QED
    BY <1>3, <1>6, <2>2 DEF IsType, Ok, Type
<1>7. CASE name \in {"Varchar", "Blob"}
  <2>1. Len(args) = 1
    BY <1>3, <1>7 DEF Arities
  <2>2. PICK n \in 0 .. Limit(name) : n = args[1]
    BY <1>5, <2>1
  <2>3. args = <<n>>
    BY <2>1, <2>2
  <2> QED
    BY <1>3, <1>7, <2>3 DEF IsType, Ok, Type
<1>8. CASE name = "Decimal"
  <2>1. Len(args) \in {0, 2} /\ Limit(name) = U8_MAX /\ U8_MAX \in Nat /\ 18 <= U8_MAX
    BY <1>3, <1>8, LimitsAssumption DEF Arities, Limit
  <2>2. CASE args = <<>>
    <3>1. from_str(text).made = Type("Decimal", <<18, 0>>)
      BY <1>3, <1>8, <2>2 DEF Ok
    <3>2. 18 \in 0 .. U8_MAX /\ 0 \in 0 .. U8_MAX /\ 0 <= 18
      BY <2>1
    <3> QED
      BY <3>1, <3>2 DEF IsType, Type
  <2>3. CASE args # <<>>
    <3>1. Len(args) = 2
      BY <2>1, <2>3, EmptySeq
    <3>2. PICK p \in 0 .. U8_MAX, s \in 0 .. U8_MAX : p = args[1] /\ s = args[2]
      BY <1>5, <2>1, <3>1
    <3>3. from_str(text) = decimal(p, s)
      BY <1>3, <1>8, <2>3, <3>2
    <3>4. s <= p /\ from_str(text).made = Type("Decimal", <<p, s>>)
      BY <3>3 DEF decimal, Err, Ok
    <3> QED
      BY <3>4 DEF IsType, Type
  <2> QED
    BY <2>2, <2>3
<1> QED
  BY <1>4, <1>6, <1>7, <1>8

(* The text of such a type parses to the same type. *)
LEMMA DisplayParses ==
    ASSUME NEW t, IsType(t)
    PROVE  from_str(display(t)) = Ok(t)
<1>1. PICK name, args : t = Type(name, args) /\ name = t.name /\ args = t.args
  BY DEF IsType
<1>2. display(t) = Text(Canonical[name], IF args = <<>> THEN "none" ELSE "closed", args)
  BY <1>1 DEF display
<1>3. CASE name \in {"Int", "BigInt", "Boolean", "DateTime", "Float"}
  <2>1. args = <<>>
    BY <1>1, <1>3 DEF IsType
  <2>2. /\ Canonical[name] \in DOMAIN TypeNames /\ TypeNames[Canonical[name]] = name
        /\ ~Blank(Canonical[name])
    BY <1>3 DEF Canonical, TypeNames, Blank
  <2>3. Len(args) \in Arities(name)
    BY <1>3, <2>1 DEF Arities
  <2> QED
    BY <1>1, <1>2, <1>3, <2>1, <2>2, <2>3 DEF from_str, Text
<1>4. CASE name \in {"Varchar", "Blob"}
  <2>1. PICK n \in 0 .. Limit(name) : args = <<n>>
    BY <1>1, <1>4 DEF IsType
  <2>2. /\ Canonical[name] \in DOMAIN TypeNames /\ TypeNames[Canonical[name]] = name
        /\ ~Blank(Canonical[name])
    BY <1>4 DEF Canonical, TypeNames, Blank
  <2>3. Len(args) \in Arities(name)
    BY <1>4, <2>1 DEF Arities
  <2>4. \A i \in DOMAIN args : args[i] # NaT /\ args[i] <= Limit(name)
    <3>1. n # NaT /\ n <= Limit(name)
      BY LimitNumber, LimitsAssumption
    <3> QED
      BY <2>1, <3>1
  <2> QED
    BY <1>1, <1>2, <1>4, <2>1, <2>2, <2>3, <2>4 DEF from_str, Text
<1>5. CASE name = "Decimal"
  <2>1. PICK p \in 0 .. U8_MAX, s \in 0 .. U8_MAX : s <= p /\ args = <<p, s>>
    BY <1>1, <1>5 DEF IsType
  <2>2. /\ Canonical[name] \in DOMAIN TypeNames /\ TypeNames[Canonical[name]] = name
        /\ ~Blank(Canonical[name])
    BY <1>5 DEF Canonical, TypeNames, Blank
  <2>3. Len(args) \in Arities(name)
    BY <1>5, <2>1 DEF Arities
  <2>4. \A i \in DOMAIN args : args[i] # NaT /\ args[i] <= Limit(name)
    <3>1. p # NaT /\ s # NaT /\ p <= Limit(name) /\ s <= Limit(name)
      BY <1>5, LimitsAssumption DEF Limit
    <3> QED
      BY <2>1, <3>1
  <2>5. decimal(p, s) = Ok(t) /\ args # <<>> /\ args[1] = p /\ args[2] = s
    <3>1. ~(s > p)
      BY <2>1, LimitsAssumption
    <3>2. decimal(p, s) = Ok(Type("Decimal", <<p, s>>))
      BY <3>1 DEF decimal
    <3>3. t = Type("Decimal", <<p, s>>)
      BY <1>1, <1>5, <2>1
    <3>4. args # <<>> /\ args[1] = p /\ args[2] = s
      BY <2>1
    <3> QED
      BY <3>2, <3>3, <3>4
  <2> QED
    BY <1>1, <1>2, <1>5, <2>2, <2>3, <2>4, <2>5 DEF from_str, Text
<1> QED
  BY <1>1, <1>3, <1>4, <1>5 DEF IsType

-----------------------------------------------------------------------------
(* The value of a column, to bytes and back *)

(* A type has a fixed size unless it is a text or a blob. *)
LEMMA TypeKinds ==
    ASSUME NEW t, IsType(t)
    PROVE  /\ HasFixedSize(t) <=> t.name \notin {"Varchar", "Blob"}
           /\ is_fixed_size(t) <=> t.name \notin {"Varchar", "Blob"}
           /\ t.name \in {"Int", "BigInt", "Boolean", "DateTime", "Float", "Decimal", "Varchar", "Blob"}
           /\ HasFixedSize(t) => get_fixed_size(t) \in Nat
<1>1. t.name \in {"Int", "BigInt", "Boolean", "DateTime", "Float", "Decimal", "Varchar", "Blob"}
  BY DEF IsType
<1> QED
  BY <1>1 DEF HasFixedSize, is_fixed_size, get_fixed_size, FixedSize

(* A value that is not null, in a column that it is compatible with. *)
Fits(v, t) == IsDataValue(v) /\ IsType(t) /\ v # Null /\ is_compatible(v, t)

(* A value has the variant of its column, but for an Int in a BigInt. *)
LEMMA ValueKinds ==
    ASSUME NEW v, NEW t, Fits(v, t)
    PROVE  /\ v.variant # "Null"
           /\ t.name \notin {"Varchar", "Blob"} =>
                  v.variant = t.name \/ (v.variant = "Int" /\ t.name = "BigInt")
           /\ t.name = "Varchar" => v.variant = "Text"
           /\ t.name = "Blob" => v.variant = "Blob"
<1>1. IsDataValue(v) /\ v # Null /\ is_compatible(v, t)
  BY DEF Fits
<1>2. v.variant # "Null"
  BY <1>1 DEF IsDataValue, Holds, Null
<1>3. PICK i \in 2 .. 9 : v.variant = Variants[i]
  BY <1>1, <1>2 DEF IsDataValue, Variants
<1>4. v.variant \in {"Int", "BigInt", "Boolean", "Float", "Text", "Blob", "DateTime", "Decimal"}
  BY <1>3 DEF Variants
<1>5. CASE v.variant = "Int"
  BY <1>1, <1>5 DEF is_compatible
<1>6. CASE v.variant = "Text"
  BY <1>1, <1>6 DEF is_compatible
<1>7. CASE v.variant = "Blob"
  BY <1>1, <1>7 DEF is_compatible
<1>8. CASE v.variant = "Decimal"
  BY <1>1, <1>8 DEF is_compatible
<1>9. CASE v.variant \in {"BigInt", "Boolean", "Float", "DateTime"}
  BY <1>1, <1>9 DEF is_compatible
<1> QED
  BY <1>4, <1>5, <1>6, <1>7, <1>8, <1>9

(* A number between zero and a power of the base, as Unsigned() reads it. *)
LEMMA DecimalRoundTrip ==
    ASSUME NEW m \in Int, Abs(m) < Power(Base)[12], NEW scale \in 0 .. MAX_SCALE
    PROVE  /\ decimal_bytes(<<m, scale>>) \in Seq(Byte) /\ Len(decimal_bytes(<<m, scale>>)) = 16
           /\ decimal_from(decimal_bytes(<<m, scale>>)) = <<m, scale>>
<1>1. scale \in 0 .. (Power(Base)[3] - 1)
  <2>1. PICK range \in Nat : range = Power(Base)[3]
    BY BaseFacts
  <2> QED
    BY <2>1, ScaleAssumption
<1>2. PICK magnitude \in 0 .. (Power(Base)[12] - 1) : magnitude = Abs(m)
  <2>1. PICK range \in Nat : range = Power(Base)[12]
    BY BaseFacts
  <2>2. Abs(m) \in Nat
    BY DEF Abs
  <2> QED
    BY <2>1, <2>2
<1>3. scale \in Int /\ magnitude \in Int
  <2>1. PICK range \in Nat : range = Power(Base)[12]
    BY BaseFacts
  <2> QED
    BY <2>1, ScaleAssumption
<1>4. PICK low : low = to_le_bytes(scale, 3)
  OBVIOUS
<1>5. low \in Seq(Byte) /\ Len(low) = 3 /\ Unsigned(low) = scale
  BY <1>1, <1>3, <1>4, NumberBytes, UnsignedRoundTrip
<1>6. PICK high : high = to_le_bytes(magnitude, 12)
  OBVIOUS
<1>7. high \in Seq(Byte) /\ Len(high) = 12 /\ Unsigned(high) = magnitude
  BY <1>2, <1>3, <1>6, NumberBytes, UnsignedRoundTrip
<1>8. PICK sign \in Byte : sign = IF m < 0 THEN 1 ELSE 0
  BY BaseFacts DEF Byte
<1>9. PICK mid : mid = <<sign>> /\ mid \in Seq(Byte) /\ Len(mid) = 1 /\ mid[1] = sign
  <2>1. <<sign>> \in Seq(Byte) /\ Len(<<sign>>) = 1 /\ <<sign>>[1] = sign
    OBVIOUS
  <2> QED
    BY <2>1
<1>10. PICK front : front = low \o mid /\ front \in Seq(Byte) /\ Len(front) = 4
  <2>1. low \o mid \in Seq(Byte) /\ Len(low \o mid) = Len(low) + Len(mid)
    BY <1>5, <1>9, ConcatProperties
  <2>2. Len(low \o mid) = 4
    BY <1>5, <1>9, <2>1
  <2> QED
    BY <2>1, <2>2, Zenon
<1>11. PICK bytes : bytes = front \o high /\ bytes \in Seq(Byte) /\ Len(bytes) = 16
  <2>1. front \o high \in Seq(Byte) /\ Len(front \o high) = Len(front) + Len(high)
    BY <1>7, <1>10, ConcatProperties
  <2>2. Len(front \o high) = 16
    BY <1>7, <1>10, <2>1
  <2> QED
    BY <2>1, <2>2, Zenon
<1>12. decimal_bytes(<<m, scale>>) = bytes
  BY <1>2, <1>4, <1>6, <1>8, <1>9, <1>10, <1>11 DEF decimal_bytes
<1>13. PICK zero \in Nat : zero = 0
  OBVIOUS
<1>14. Occurs(front \o high, zero, bytes)
  BY <1>11, <1>13, WholeOccurs
<1>15. Occurs(front, zero, bytes) /\ Occurs(high, zero + Len(front), bytes)
  BY <1>7, <1>10, <1>11, <1>14, PartsOccur
<1>16. Occurs(low, zero, bytes) /\ Occurs(mid, zero + Len(low), bytes)
  <2>1. Occurs(low \o mid, zero, bytes)
    BY <1>10, <1>15
  <2> QED
    BY <1>5, <1>9, <1>11, <2>1, PartsOccur
<1>17. SubSeq(bytes, 5, 16) = high
  <2>1. PICK four : four = zero + Len(front)
    OBVIOUS
  <2>2. SubSeq(bytes, four + 1, four + Len(high)) = high
    BY <1>7, <1>11, <1>15, <2>1, SliceOfPiece
  <2> QED
    BY <1>7, <1>10, <1>13, <2>1, <2>2
<1>18. SubSeq(bytes, 1, 3) = low
  <2>1. SubSeq(bytes, zero + 1, zero + Len(low)) = low
    BY <1>5, <1>11, <1>16, SliceOfPiece
  <2> QED
    BY <1>5, <1>13, <2>1
<1>19. bytes[4] = sign
  <2>1. bytes[(zero + Len(low)) + 1] = mid[1]
    BY <1>9, <1>16 DEF Occurs
  <2> QED
    BY <1>5, <1>9, <1>13, <2>1
<1>20. decimal_from(bytes) = <<IF sign = 1 THEN -magnitude ELSE magnitude, scale>>
  BY <1>5, <1>7, <1>17, <1>18, <1>19 DEF decimal_from
<1>21. (IF sign = 1 THEN -magnitude ELSE magnitude) = m
  BY <1>2, <1>3, <1>8 DEF Abs
<1> QED
  BY <1>11, <1>12, <1>20, <1>21

(* A value of fixed size comes back from its bytes. *)
LEMMA FixedRoundTrip ==
    ASSUME NEW v, NEW column, Fits(v, column.data_type), v.variant = column.data_type.name,
           HasFixedSize(column.data_type),
           NEW field, field = FixedBytes(v, get_fixed_size(column.data_type))
    PROVE  /\ field \in Seq(Byte) /\ Len(field) = get_fixed_size(column.data_type)
           /\ deserialize_fixed_sized_col_value(column, field) = v
<1>1. PICK t : t = column.data_type
  OBVIOUS
<1>2. PICK name, data : name = v.variant /\ data = v.data
  OBVIOUS
<1>3. /\ IsType(t) /\ HasFixedSize(t) /\ t.name = name
      /\ v = [variant |-> name, data |-> data] /\ Holds(name, data)
  BY <1>1, <1>2 DEF Fits, IsDataValue
<1>4. field = FixedBytes(v, get_fixed_size(t)) /\ get_fixed_size(t) = FixedSize[name]
  BY <1>1, <1>3 DEF get_fixed_size
<1>5. name \in {"Int", "BigInt", "Boolean", "DateTime", "Float", "Decimal"}
  BY <1>3, TypeKinds
<1>6. \A value : deserialize_fixed_sized_col_value(column, field) = [variant |-> name, data |-> value]
                    => (deserialize_fixed_sized_col_value(column, field) = v <=> value = data)
  BY <1>3
<1> DEFINE made == deserialize_fixed_sized_col_value(column, field)
<1>7. CASE name = "Int"
  <2>1. PICK n \in Signed(4) : data = <<n>>
    BY <1>3, <1>7 DEF Holds
  <2>2. n \in Int /\ 4 \in Nat
    BY DEF Signed
  <2>3. field = to_le_bytes(n, 4) /\ get_fixed_size(t) = 4
    BY <1>3, <1>4, <1>7, <2>1 DEF FixedBytes, FixedSize
  <2>4. field \in Seq(Byte) /\ Len(field) = 4 /\ from_le_bytes(field) = n
    BY <2>2, <2>3, NumberBytes, SignedRoundTrip
  <2>5. made = [variant |-> name, data |-> <<n>>]
    BY <1>1, <1>3, <1>7, <2>4 DEF deserialize_fixed_sized_col_value
  <2> QED
    BY <1>1, <1>3, <2>1, <2>3, <2>4, <2>5
<1>8. CASE name \in {"BigInt", "DateTime"}
  <2>1. PICK n \in Signed(8) : data = <<n>>
    BY <1>3, <1>8 DEF Holds
  <2>2. n \in Int /\ 8 \in Nat
    BY DEF Signed
  <2>3. field = to_le_bytes(n, 8) /\ get_fixed_size(t) = 8
    BY <1>3, <1>4, <1>8, <2>1 DEF FixedBytes, FixedSize
  <2>4. field \in Seq(Byte) /\ Len(field) = 8 /\ from_le_bytes(field) = n
    BY <2>2, <2>3, NumberBytes, SignedRoundTrip
  <2>5. made = [variant |-> name, data |-> <<n>>]
    BY <1>1, <1>3, <1>8, <2>4 DEF deserialize_fixed_sized_col_value
  <2> QED
    BY <1>1, <1>3, <2>1, <2>3, <2>4, <2>5
<1>9. CASE name = "Boolean"
  <2>1. PICK n \in 0 .. 1 : data = <<n>>
    BY <1>3, <1>9 DEF Holds
  <2>2. get_fixed_size(t) = 1
    BY <1>4, <1>9 DEF FixedSize
  <2>3. field = [i \in 1 .. 1 |-> IF i = 1 THEN n ELSE 0]
    <3>1. v.variant = "Boolean" /\ v.data[1] = n
      BY <1>3, <1>9, <2>1
    <3>2. FixedBytes(v, 1) = [i \in 1 .. 1 |-> IF i = 1 THEN v.data[1] ELSE 0]
      BY <3>1 DEF FixedBytes
    <3> QED
      BY <1>4, <2>2, <3>1, <3>2
  <2>4. n \in Byte /\ 0 \in Byte
    BY BaseFacts DEF Byte
  <2>5. PICK one \in Nat : one = 1
    OBVIOUS
  <2>6. field \in [1 .. one -> Byte] /\ field[1] = n
    BY <2>3, <2>4, <2>5
  <2>7. field \in Seq(Byte) /\ Len(field) = one
    BY <2>6, FunctionSequence
  <2>8. made = [variant |-> name, data |-> <<IF n # 0 THEN 1 ELSE 0>>]
    BY <1>1, <1>3, <1>9, <2>6 DEF deserialize_fixed_sized_col_value
  <2>9. (IF n # 0 THEN 1 ELSE 0) = n
    OBVIOUS
  <2> QED
    BY <1>1, <1>3, <2>2, <2>1, <2>5, <2>7, <2>8, <2>9
<1>10. CASE name = "Float"
  <2>1. PICK n \in 0 .. (Power(Base)[8] - 1) : data = <<n>>
    BY <1>3, <1>10 DEF Holds
  <2>2. n \in Int /\ 8 \in Nat
    <3>1. PICK range \in Nat : range = Power(Base)[8]
      BY BaseFacts
    <3> QED
      BY <3>1
  <2>3. field = to_le_bytes(n, 8) /\ get_fixed_size(t) = 8
    BY <1>3, <1>4, <1>10, <2>1 DEF FixedBytes, FixedSize
  <2>4. field \in Seq(Byte) /\ Len(field) = 8 /\ Unsigned(field) = n
    BY <2>2, <2>3, NumberBytes, UnsignedRoundTrip
  <2>5. made = [variant |-> name, data |-> <<n>>]
    BY <1>1, <1>3, <1>10, <2>4 DEF deserialize_fixed_sized_col_value
  <2> QED
    BY <1>1, <1>3, <2>1, <2>3, <2>4, <2>5
<1>11. CASE name = "Decimal"
  <2>1. PICK m \in Int, scale \in 0 .. MAX_SCALE : data = <<m, scale>> /\ Abs(m) < Power(Base)[12]
    BY <1>3, <1>11 DEF Holds
  <2>2. field = decimal_bytes(<<m, scale>>) /\ get_fixed_size(t) = 16
    BY <1>3, <1>4, <1>11, <2>1 DEF FixedBytes, FixedSize
  <2>3. field \in Seq(Byte) /\ Len(field) = 16 /\ decimal_from(field) = <<m, scale>>
    BY <2>1, <2>2, DecimalRoundTrip
  <2>4. made = [variant |-> name, data |-> <<m, scale>>]
    BY <1>1, <1>3, <1>11, <2>3 DEF deserialize_fixed_sized_col_value
  <2> QED
    BY <1>1, <1>3, <2>1, <2>2, <2>3, <2>4
<1> QED
  BY <1>5, <1>7, <1>8, <1>9, <1>10, <1>11

(* The rest of a sequence starts with a piece that was where it starts. *)
LEMMA OccursInRest ==
    ASSUME NEW S, NEW whole \in Seq(S), NEW piece \in Seq(S), NEW offset, Occurs(piece, offset, whole)
    PROVE  SubSeq(SubSeq(whole, offset + 1, Len(whole)), 1, Len(piece)) = piece
<1>1. PICK n \in Nat, l \in Nat : n = Len(piece) /\ l = Len(whole)
  OBVIOUS
<1>2. /\ offset \in Nat /\ offset + n <= l
      /\ \A k \in 1 .. n : whole[offset + k] = piece[k]
  BY <1>1 DEF Occurs
<1>3. PICK rest : rest = SubSeq(whole, offset + 1, l)
  OBVIOUS
<1>4. rest \in Seq(S) /\ Len(rest) = l - offset /\ \A k \in 1 .. (l - offset) : rest[k] = whole[offset + k]
  <2>1. PICK m \in Nat : m = l - offset /\ offset + m = l
    BY <1>2
  <2>2. rest = [k \in 1 .. m |-> whole[offset + k]]
    BY <1>1, <1>2, <1>3, <2>1
  <2>3. rest \in [1 .. m -> S]
    <3>1. ASSUME NEW k \in 1 .. m PROVE whole[offset + k] \in S
      <4>1. offset + k \in 1 .. Len(whole)
        BY <1>1, <1>2, <2>1
      <4> QED
        BY <4>1
    <3> QED
      BY <2>2, <3>1
  <2>4. rest \in Seq(S) /\ Len(rest) = m
    BY <2>3, FunctionSequence
  <2> QED
    BY <2>1, <2>2, <2>4
<1>5. PICK zero \in Nat : zero = 0
  OBVIOUS
<1>6. Occurs(piece, zero, rest)
  <2>1. zero + n <= Len(rest)
    BY <1>2, <1>4, <1>5
  <2>2. ASSUME NEW k \in 1 .. n PROVE rest[zero + k] = piece[k]
    <3>1. zero + k = k /\ k \in 1 .. (l - offset)
      BY <1>2, <1>5
    <3> QED
      BY <1>2, <1>4, <3>1
  <2> QED
    BY <1>1, <2>1, <2>2 DEF Occurs
<1>7. SubSeq(rest, zero + 1, zero + Len(piece)) = piece
  BY <1>4, <1>6, SliceOfPiece
<1>8. zero + 1 = 1 /\ zero + Len(piece) = Len(piece)
  BY <1>1, <1>5
<1> QED
  BY <1>1, <1>3, <1>7, <1>8

(* A text or a blob is written as bytes behind its length. *)
LEMMA VariableData ==
    ASSUME NEW v, NEW t, Fits(v, t), ~HasFixedSize(t)
    PROVE  /\ v.data \in Seq(Byte) /\ Len(v.data) \in Signed(LENGTH_SIZE)
           /\ VariableBytes(v) \in Seq(Byte) /\ Len(VariableBytes(v)) = LENGTH_SIZE + Len(v.data)
           /\ v = [variant |-> IF t.name = "Varchar" THEN "Text" ELSE "Blob", data |-> v.data]
           /\ Variable(v)
<1>1. IsDataValue(v) /\ IsType(t)
  BY DEF Fits
<1>2. t.name \in {"Varchar", "Blob"}
  BY <1>1, TypeKinds
<1>3. v.variant = IF t.name = "Varchar" THEN "Text" ELSE "Blob"
  BY <1>2, ValueKinds
<1>4. v.variant \in {"Text", "Blob"}
  BY <1>3
<1>5. v.data \in Seq(Byte) /\ 2 * Len(v.data) < Power(Base)[LENGTH_SIZE]
  BY <1>1, <1>4 DEF IsDataValue, Holds, Byte
<1>6. PICK n \in Nat : n = Len(v.data)
  BY <1>5
<1>7. n \in Signed(LENGTH_SIZE)
  <2>1. PICK range \in Nat : range = Power(Base)[LENGTH_SIZE]
    BY BaseFacts DEF LENGTH_SIZE
  <2> QED
    BY <1>5, <1>6, <2>1 DEF Signed
<1>8. PICK front : front = to_le_bytes(n, LENGTH_SIZE)
  OBVIOUS
<1>9. front \in Seq(Byte) /\ Len(front) = LENGTH_SIZE
  <2>1. n \in Int /\ LENGTH_SIZE \in Nat
    BY <1>6 DEF LENGTH_SIZE
  <2> QED
    BY <1>8, <2>1, NumberBytes
<1>10. front \o v.data \in Seq(Byte) /\ Len(front \o v.data) = Len(front) + Len(v.data)
  BY <1>5, <1>9, ConcatProperties
<1>11. VariableBytes(v) = front \o v.data
  BY <1>6, <1>8 DEF VariableBytes
<1>12. v = [variant |-> v.variant, data |-> v.data]
  BY <1>1 DEF IsDataValue
<1> QED
  BY <1>3, <1>4, <1>5, <1>6, <1>7, <1>9, <1>10, <1>11, <1>12 DEF Variable

(* A text or a blob is read from where its length is. *)
LEMMA VariableRoundTrip ==
    ASSUME NEW v, NEW column, Fits(v, column.data_type), ~HasFixedSize(column.data_type),
           NEW bytes \in Seq(Byte), NEW offset, Occurs(VariableBytes(v), offset, bytes)
    PROVE  /\ LengthAt(bytes, offset) = Len(v.data)
           /\ deserialize_variable_sized_col_value(column,
                  SubSeq(bytes, offset + LENGTH_SIZE + 1, Len(bytes)), LengthAt(bytes, offset)) = v
<1>1. PICK data \in Seq(Byte) : data = v.data
  BY VariableData
<1>2. PICK n \in Signed(LENGTH_SIZE) : n = Len(data)
  BY <1>1, VariableData
<1>3. n \in Nat /\ n \in Int /\ LENGTH_SIZE = 4
  BY <1>2 DEF LENGTH_SIZE
<1>4. PICK front : front = to_le_bytes(n, LENGTH_SIZE)
  OBVIOUS
<1>5. front \in Seq(Byte) /\ Len(front) = LENGTH_SIZE /\ from_le_bytes(front) = n
  BY <1>3, <1>4, NumberBytes, SignedRoundTrip
<1>6. VariableBytes(v) = front \o data
  BY <1>1, <1>2, <1>4 DEF VariableBytes
<1>7. Occurs(front, offset, bytes) /\ Occurs(data, offset + Len(front), bytes) /\ offset \in Nat
  <2>1. Occurs(front \o data, offset, bytes)
    BY <1>6
  <2> QED
    <3>1. offset \in Nat
      BY <2>1 DEF Occurs
    <3> QED
      BY <1>5, <2>1, <3>1, PartsOccur
<1>8. SubSeq(bytes, offset + 1, offset + Len(front)) = front
  BY <1>5, <1>7, SliceOfPiece
<1>9. LengthAt(bytes, offset) = n
  BY <1>5, <1>8 DEF LengthAt, Slice
<1>10. PICK from : from = offset + Len(front)
  OBVIOUS
<1>11. SubSeq(SubSeq(bytes, from + 1, Len(bytes)), 1, Len(data)) = data
  BY <1>7, <1>10, OccursInRest
<1>12. from + 1 = offset + LENGTH_SIZE + 1 /\ 0 + 1 = 1 /\ 0 + n = n
  BY <1>3, <1>5, <1>7, <1>10
<1>13. Slice(SubSeq(bytes, offset + LENGTH_SIZE + 1, Len(bytes)), 0, n) = data
  BY <1>2, <1>11, <1>12 DEF Slice
<1>14. v = [variant |-> IF column.data_type.name = "Varchar" THEN "Text" ELSE "Blob", data |-> data]
  BY <1>1, VariableData
<1> QED
  BY <1>1, <1>2, <1>9, <1>13, <1>14 DEF deserialize_variable_sized_col_value

-----------------------------------------------------------------------------
(* The bitmap of a record *)

(* A record whose values are null or fit the columns of a table. *)
RecordOf(columns, record) ==
    /\ Len(columns) \in Nat /\ DOMAIN columns = 1 .. Len(columns)
    /\ \A i \in 1 .. Len(columns) :
          IsType(columns[i].data_type) /\ (record[i] = Null \/ Fits(record[i], columns[i].data_type))

(* A column has a bit in one of the bytes of the bitmap. *)
LEMMA BitmapPlace ==
    ASSUME NEW n \in Nat, NEW i \in 1 .. n, NEW q, NEW r, q = (i - 1) \div BITS, r = (i - 1) % BITS
    PROVE  /\ q + 1 \in 1 .. ((n + BITS - 1) \div BITS) /\ r + 1 \in 1 .. BITS
           /\ ((q + 1) - 1) * BITS + (r + 1) = i
<1>1. PICK d \in Nat \ {0} : d = BITS
  BY BitsAssumption
<1>2. PICK k \in Nat : k = i - 1
  OBVIOUS
<1>3. q \in Int /\ r \in 0 .. (d - 1) /\ k = d * q + r
  BY <1>1, <1>2, Division
<1>4. PICK a \in Int : a = n + d - 1
  OBVIOUS
<1>5. PICK m \in Int, s \in 0 .. (d - 1) : m = a \div d /\ a = d * m + s
  BY Division
<1>6. PICK x \in Int, y \in Int : x = d * q /\ y = d * m
  BY <1>3
<1>7. k = x + r /\ n + d - 1 = y + s /\ k < n /\ 0 <= k
  <2>1. k = x + r
    BY <1>3, <1>6, Zenon
  <2>2. n + d - 1 = y + s
    BY <1>4, <1>5, <1>6, Zenon
  <2> QED
    BY <1>2, <2>1, <2>2
<1>8. x > -d /\ y > x
  BY <1>3, <1>7
<1>9. q >= 0
  <2> SUFFICES ASSUME q <= -1 PROVE FALSE
    BY <1>3
  <2>1. d * q <= d * (-1)
    BY <1>3
  <2> QED
    BY <1>6, <1>8, <2>1
<1>10. m > q
  <2> SUFFICES ASSUME m <= q PROVE FALSE
    BY <1>3
  <2>1. d * m <= d * q
    BY <1>3
  <2> QED
    BY <1>6, <1>8, <2>1
<1>11. q + 1 \in 1 .. m /\ r + 1 \in 1 .. d
  BY <1>3, <1>9, <1>10
<1>12. ((q + 1) - 1) * d + (r + 1) = i
  <2>1. (q + 1) - 1 = q /\ q * d = x
    BY <1>3, <1>6
  <2> QED
    <3>1. q * d + (r + 1) = k + 1
      BY <1>3, <1>6, <1>7, <2>1
    <3> QED
      BY <1>2, <2>1, <3>1
<1> QED
  BY <1>1, <1>4, <1>5, <1>11, <1>12

(* The bits of a byte of the bitmap. *)
LEMMA BitsOfByte ==
    ASSUME NEW columns, NEW record, NEW b
    PROVE  /\ NullBits(columns, record, b) \in Seq(0 .. 1) /\ Len(NullBits(columns, record, b)) = BITS
           /\ \A j \in 1 .. BITS : NullBits(columns, record, b)[j] =
                  IF (b - 1) * BITS + j \in DOMAIN columns /\ record[(b - 1) * BITS + j] = Null THEN 1 ELSE 0
<1>1. NullBits(columns, record, b) \in [1 .. BITS -> 0 .. 1]
  BY DEF NullBits
<1>2. NullBits(columns, record, b) \in Seq(0 .. 1) /\ Len(NullBits(columns, record, b)) = BITS
  BY <1>1, FunctionSequence, BitsAssumption
<1> QED
  BY <1>2 DEF NullBits

(* The bitmap is a sequence of bytes. *)
LEMMA BitmapBytes ==
    ASSUME NEW columns, NEW record, RecordOf(columns, record)
    PROVE  /\ get_null_bitmap_size(columns) \in Nat
           /\ null_bitmap(columns, record) \in Seq(Byte)
           /\ Len(null_bitmap(columns, record)) = get_null_bitmap_size(columns)
<1>1. PICK d \in Nat \ {0} : d = BITS
  BY BitsAssumption
<1>2. PICK n \in Nat : n = Len(columns)
  BY DEF RecordOf
<1>3. PICK size \in Nat : size = get_null_bitmap_size(columns)
  <2>1. PICK a \in Nat : a = n + d - 1
    OBVIOUS
  <2>2. a < d * (a + 1)
    <3>1. d * (a + 1) >= 1 * (a + 1)
      OBVIOUS
    <3> QED
      BY <3>1
  <2>3. a \div d \in Nat
    BY <2>2, QuotientBound
  <2> QED
    BY <1>1, <1>2, <2>1, <2>3 DEF get_null_bitmap_size
<1>4. ASSUME NEW b \in 1 .. size PROVE Joined(2, NullBits(columns, record, b)) \in Byte
  <2>1. PICK bits \in Seq(0 .. 1) : bits = NullBits(columns, record, b) /\ Len(bits) = BITS
    BY BitsOfByte
  <2>2. Joined(2, bits) \in Nat /\ Joined(2, bits) < Base
    BY <2>1, JoinedBits DEF Base
  <2> QED
    BY <2>1, <2>2, BaseFacts DEF Byte
<1>5. PICK map : map = null_bitmap(columns, record)
  OBVIOUS
<1>6. map = [b \in 1 .. size |-> Joined(2, NullBits(columns, record, b))]
  BY <1>3, <1>5 DEF null_bitmap
<1>7. map \in [1 .. size -> Byte]
  BY <1>4, <1>6
<1> QED
  BY <1>3, <1>5, <1>7, FunctionSequence

(* A column is read as null when its value was. *)
LEMMA NullRead ==
    ASSUME NEW columns, NEW record, RecordOf(columns, record), NEW i \in 1 .. Len(columns),
           NEW bytes, Occurs(null_bitmap(columns, record), 0, bytes)
    PROVE  is_col_value_null(bytes, i - 1) <=> record[i] = Null
<1>1. PICK n \in Nat : n = Len(columns)
  BY DEF RecordOf
<1>2. PICK q, r : q = (i - 1) \div BITS /\ r = (i - 1) % BITS
  OBVIOUS
<1>3. /\ q + 1 \in 1 .. ((n + BITS - 1) \div BITS) /\ r + 1 \in 1 .. BITS
      /\ ((q + 1) - 1) * BITS + (r + 1) = i
  BY <1>1, <1>2, BitmapPlace
<1>4. PICK size \in Nat : size = get_null_bitmap_size(columns)
  BY BitmapBytes
<1>5. PICK b \in 1 .. size : b = q + 1
  BY <1>1, <1>3, <1>4 DEF get_null_bitmap_size
<1>6. PICK bits \in Seq(0 .. 1) : bits = NullBits(columns, record, b) /\ Len(bits) = BITS
  BY BitsOfByte
<1>7. null_bitmap(columns, record)[b] = Joined(2, bits)
  BY <1>4, <1>6 DEF null_bitmap
<1>8. bytes[0 + b] = Joined(2, bits)
  <2>1. b \in 1 .. Len(null_bitmap(columns, record))
    BY <1>4, BitmapBytes
  <2> QED
    BY <1>7, <2>1 DEF Occurs
<1>9. 0 + b = b
  BY <1>4
<1>10. PICK j \in 1 .. BITS : j = r + 1
  BY <1>3
<1>11. Shift(2, Joined(2, bits))[j - 1] % 2 = bits[j]
  BY <1>6, JoinedBits
<1>12. j - 1 = r
  <2>1. r \in Int
    <3>1. i - 1 \in Int
      OBVIOUS
    <3>2. (i - 1) % BITS \in 0 .. (BITS - 1)
      BY <3>1, Division, BitsAssumption
    <3> QED
      BY <1>2, <3>2, BitsAssumption
  <2> QED
    BY <1>10, <2>1
<1>13. bits[j] = IF record[i] = Null THEN 1 ELSE 0
  <2>1. bits[j] = IF (b - 1) * BITS + j \in DOMAIN columns /\ record[(b - 1) * BITS + j] = Null THEN 1 ELSE 0
    BY <1>6, BitsOfByte
  <2>2. (b - 1) * BITS + j = i /\ i \in DOMAIN columns
    BY <1>3, <1>5, <1>10 DEF RecordOf
  <2> QED
    BY <2>1, <2>2
<1>14. bytes[(i - 1) \div BITS + 1] = Joined(2, bits)
  BY <1>2, <1>5, <1>8, <1>9
<1>15. is_col_value_null(bytes, i - 1) <=> bits[j] = 1
  BY <1>2, <1>11, <1>12, <1>14 DEF is_col_value_null
<1> QED
  BY <1>13, <1>15

-----------------------------------------------------------------------------
(* The bytes of a record *)

(* A record that serialize() accepts has no column in error. *)
LEMMA NoColumnError ==
    ASSUME NEW columns, NEW record, RecordOf(columns, record), serialize(columns, record).err = "None"
    PROVE  /\ \A i \in 1 .. Len(columns) : ColumnError(columns, record, i) = "None"
           /\ serialize(columns, record).made = null_bitmap(columns, record)
                  \o FlattenSeq(FixedPart(columns, record)) \o FlattenSeq(VariablePart(columns, record))
<1> DEFINE errors == {i \in DOMAIN columns : ColumnError(columns, record, i) # "None"}
<1>1. DOMAIN columns = 1 .. Len(columns) /\ Len(columns) \in Nat
  BY DEF RecordOf
<1>2. errors = {}
  <2> SUFFICES ASSUME errors # {} PROVE FALSE
    OBVIOUS
  <2>1. errors \in SUBSET Nat
    BY <1>1
  <2>2. serialize(columns, record) = Err(ColumnError(columns, record, Min(errors)))
    BY DEF serialize
  <2>3. Min(errors) \in errors
    <3> HIDE DEF errors
    <3> QED
      BY <2>1, MinProperties
  <2>4. ColumnError(columns, record, Min(errors)) # "None"
    BY <2>3
  <2> QED
    BY <2>2, <2>4 DEF Err
<1>3. \A i \in 1 .. Len(columns) : ColumnError(columns, record, i) = "None"
  BY <1>1, <1>2
<1>4. serialize(columns, record) = Ok(null_bitmap(columns, record)
          \o FlattenSeq(FixedPart(columns, record)) \o FlattenSeq(VariablePart(columns, record)))
  BY <1>2 DEF serialize
<1> QED
  BY <1>3, <1>4 DEF Ok

(* A value of fixed size that is accepted has the variant of its column. *)
LEMMA AcceptedVariant ==
    ASSUME NEW columns, NEW record, NEW i, Fits(record[i], columns[i].data_type),
           HasFixedSize(columns[i].data_type), ColumnError(columns, record, i) = "None"
    PROVE  record[i].variant = columns[i].data_type.name
<1>1. PICK v, t : v = record[i] /\ t = columns[i].data_type
  OBVIOUS
<1>2. Fits(v, t) /\ HasFixedSize(t) /\ v # Null /\ IsType(t) /\ IsDataValue(v)
  BY <1>1 DEF Fits
<1>3. v.variant = t.name \/ (v.variant = "Int" /\ t.name = "BigInt")
  BY <1>2, TypeKinds, ValueKinds
<1>4. ~(v.variant = "Int" /\ t.name = "BigInt")
  <2> SUFFICES ASSUME v.variant = "Int", t.name = "BigInt" PROVE FALSE
    OBVIOUS
  <2>1. PICK n \in Signed(4) : v.data[1] = n
    BY <1>2 DEF IsDataValue, Holds
  <2>2. n \in Int /\ 4 \in Nat
    BY DEF Signed
  <2>3. Len(to_le_bytes(n, 4)) = 4
    BY <2>2, NumberBytes
  <2>4. FixedBytes(v, 8) = to_le_bytes(n, 4)
    BY <2>1 DEF FixedBytes
  <2>5. get_fixed_size(t) = 8
    BY DEF get_fixed_size, FixedSize
  <2>6. ~Variable(v)
    BY DEF Variable
  <2>7. ColumnError(columns, record, i) = "Panic"
    BY <1>1, <1>2, <2>3, <2>4, <2>5, <2>6 DEF ColumnError
  <2> QED
    BY <2>7
<1> QED
  BY <1>1, <1>3, <1>4

(* The columns without errors. *)
Accepts(columns, record) ==
    RecordOf(columns, record) /\ \A i \in 1 .. Len(columns) : ColumnError(columns, record, i) = "None"

(* What a column adds to the two parts of a record. *)
LEMMA ColumnParts ==
    ASSUME NEW columns, NEW record, Accepts(columns, record), NEW i \in 1 .. Len(columns)
    PROVE  /\ FixedPart(columns, record)[i] \in Seq(Byte) /\ VariablePart(columns, record)[i] \in Seq(Byte)
           /\ is_fixed_type(columns[i]) <=> HasFixedSize(columns[i].data_type)
           /\ record[i] = Null \/ ~is_fixed_type(columns[i]) => Len(FixedPart(columns, record)[i]) = 0
           /\ record[i] # Null /\ is_fixed_type(columns[i]) =>
                  /\ FixedPart(columns, record)[i] = FixedBytes(record[i], get_fixed_size(columns[i].data_type))
                  /\ Len(FixedPart(columns, record)[i]) = get_fixed_size(columns[i].data_type)
                  /\ deserialize_fixed_sized_col_value(columns[i], FixedPart(columns, record)[i]) = record[i]
           /\ record[i] = Null \/ is_fixed_type(columns[i]) => Len(VariablePart(columns, record)[i]) = 0
           /\ record[i] # Null /\ ~is_fixed_type(columns[i]) =>
                  /\ VariablePart(columns, record)[i] = VariableBytes(record[i])
                  /\ Len(VariablePart(columns, record)[i]) = LENGTH_SIZE + Len(record[i].data)
<1>1. PICK column, t, v : column = columns[i] /\ t = column.data_type /\ v = record[i]
  OBVIOUS
<1>2. IsType(t) /\ (v = Null \/ Fits(v, t)) /\ ColumnError(columns, record, i) = "None" /\ i \in DOMAIN columns
  BY <1>1 DEF Accepts, RecordOf
<1>3. is_fixed_type(column) <=> HasFixedSize(t)
  BY <1>1, <1>2, TypeKinds DEF is_fixed_type
<1>4. PICK fixed, variable : fixed = FixedPart(columns, record)[i] /\ variable = VariablePart(columns, record)[i]
  OBVIOUS
<1>5. fixed = IF v = Null \/ ~HasFixedSize(t) THEN <<>> ELSE FixedBytes(v, get_fixed_size(t))
  BY <1>1, <1>2, <1>4 DEF FixedPart
<1>6. variable = IF v = Null \/ HasFixedSize(t) THEN <<>> ELSE VariableBytes(v)
  BY <1>1, <1>2, <1>4 DEF VariablePart
<1>7. <<>> \in Seq(Byte) /\ Len(<<>>) = 0
  BY EmptySeq
<1>8. CASE v = Null
  BY <1>1, <1>3, <1>4, <1>5, <1>6, <1>7, <1>8
<1>9. CASE v # Null /\ HasFixedSize(t)
  <2>1. Fits(v, t)
    BY <1>2, <1>9
  <2>2. v.variant = t.name
    BY <1>1, <1>2, <1>9, <2>1, AcceptedVariant
  <2>3. fixed = FixedBytes(v, get_fixed_size(t))
    BY <1>5, <1>9
  <2>4. /\ fixed \in Seq(Byte) /\ Len(fixed) = get_fixed_size(t)
        /\ deserialize_fixed_sized_col_value(column, fixed) = v
    BY <1>1, <1>9, <2>1, <2>2, <2>3, FixedRoundTrip
  <2> QED
    BY <1>1, <1>3, <1>4, <1>6, <1>7, <1>9, <2>3, <2>4
<1>10. CASE v # Null /\ ~HasFixedSize(t)
  <2>1. Fits(v, t)
    BY <1>2, <1>10
  <2>2. variable = VariableBytes(v)
    BY <1>6, <1>10
  <2>3. VariableBytes(v) \in Seq(Byte) /\ Len(VariableBytes(v)) = LENGTH_SIZE + Len(v.data)
    BY <1>10, <2>1, VariableData
  <2> QED
    BY <1>1, <1>3, <1>4, <1>5, <1>7, <1>10, <2>2, <2>3
<1> QED
  BY <1>8, <1>9, <1>10

(* The parts of a record, as they grow column by column. *)
IsLayout(columns, record, f, g, bytes, m, n) ==
    /\ m = get_null_bitmap_size(columns) /\ n = Len(columns)
    /\ IsFlat(f, FixedPart(columns, record), Byte) /\ IsFlat(g, VariablePart(columns, record), Byte)
    /\ bytes = null_bitmap(columns, record) \o f[n] \o g[n]

(* The parts are sequences of pieces. *)
LEMMA PartsAre ==
    ASSUME NEW columns, NEW record, Accepts(columns, record)
    PROVE  /\ FixedPart(columns, record) \in Seq(Seq(Byte)) /\ Len(FixedPart(columns, record)) = Len(columns)
           /\ VariablePart(columns, record) \in Seq(Seq(Byte)) /\ Len(VariablePart(columns, record)) = Len(columns)
<1>1. PICK n \in Nat : n = Len(columns) /\ DOMAIN columns = 1 .. n
  BY DEF Accepts, RecordOf
<1>2. PICK fixed, variable : fixed = FixedPart(columns, record) /\ variable = VariablePart(columns, record)
  OBVIOUS
<1>3. DOMAIN fixed = 1 .. n /\ fixed = [i \in 1 .. n |-> fixed[i]]
  BY <1>1, <1>2 DEF FixedPart
<1>4. DOMAIN variable = 1 .. n /\ variable = [i \in 1 .. n |-> variable[i]]
  BY <1>1, <1>2 DEF VariablePart
<1>5. \A i \in 1 .. n : fixed[i] \in Seq(Byte) /\ variable[i] \in Seq(Byte)
  BY <1>1, <1>2, ColumnParts
<1>6. fixed \in [1 .. n -> Seq(Byte)] /\ variable \in [1 .. n -> Seq(Byte)]
  BY <1>3, <1>4, <1>5
<1>7. fixed \in Seq(Seq(Byte)) /\ Len(fixed) = n
  BY <1>6, FunctionSequence
<1>8. variable \in Seq(Seq(Byte)) /\ Len(variable) = n
  BY <1>6, FunctionSequence
<1> QED
  BY <1>1, <1>2, <1>7, <1>8

(* The bytes of a record have such a layout. *)
LEMMA LayoutExists ==
    ASSUME NEW columns, NEW record, RecordOf(columns, record), serialize(columns, record).err = "None"
    PROVE  /\ Accepts(columns, record)
           /\ \E f, g : IsLayout(columns, record, f, g, serialize(columns, record).made,
                                get_null_bitmap_size(columns), Len(columns))
<1>1. Accepts(columns, record)
  BY NoColumnError DEF Accepts
<1>2. PICK f : IsFlat(f, FixedPart(columns, record), Byte)
               /\ FlattenSeq(FixedPart(columns, record)) = f[Len(FixedPart(columns, record))]
  BY <1>1, PartsAre, FlatExists
<1>3. PICK g : IsFlat(g, VariablePart(columns, record), Byte)
               /\ FlattenSeq(VariablePart(columns, record)) = g[Len(VariablePart(columns, record))]
  BY <1>1, PartsAre, FlatExists
<1>4. IsLayout(columns, record, f, g, serialize(columns, record).made,
               get_null_bitmap_size(columns), Len(columns))
  <2>1. serialize(columns, record).made = null_bitmap(columns, record)
            \o FlattenSeq(FixedPart(columns, record)) \o FlattenSeq(VariablePart(columns, record))
    BY NoColumnError
  <2>2. Len(FixedPart(columns, record)) = Len(columns) /\ Len(VariablePart(columns, record)) = Len(columns)
    BY <1>1, PartsAre
  <2>3. serialize(columns, record).made = null_bitmap(columns, record) \o f[Len(columns)] \o g[Len(columns)]
    BY <1>2, <1>3, <2>1, <2>2, Zenon
  <2> QED
    BY <1>2, <1>3, <2>3 DEF IsLayout
<1> QED
  BY <1>1, <1>4

(* Bytes that occur in the second and the third of three parts. *)
LEMMA OccursInThree ==
    ASSUME NEW S, NEW a \in Seq(S), NEW b \in Seq(S), NEW c \in Seq(S)
    PROVE  /\ a \o b \o c \in Seq(S) /\ Occurs(a, 0, a \o b \o c)
           /\ \A piece \in Seq(S) : \A k \in Nat :
                  /\ Occurs(piece, k, b) => Occurs(piece, Len(a) + k, a \o b \o c)
                  /\ Occurs(piece, k, c) => Occurs(piece, (Len(a) + Len(b)) + k, a \o b \o c)
<1>1. PICK ab : ab = a \o b
  OBVIOUS
<1>2. ab \in Seq(S) /\ Len(ab) = Len(a) + Len(b)
  BY <1>1, ConcatProperties
<1>3. ab \o c \in Seq(S)
  BY <1>2, ConcatProperties
<1>4. Occurs(a, 0, ab \o c)
  <2>1. PICK zero \in Nat : zero = 0
    OBVIOUS
  <2>2. Occurs(a, zero, a)
    BY <2>1, WholeOccurs
  <2>3. Occurs(a, zero, ab)
    BY <1>1, <2>2, OccursInParts
  <2>4. Occurs(a, zero, ab \o c)
    BY <1>2, <2>3, OccursInParts
  <2> QED
    BY <2>1, <2>4
<1>5. ASSUME NEW piece \in Seq(S), NEW k \in Nat
      PROVE  /\ Occurs(piece, k, b) => Occurs(piece, Len(a) + k, ab \o c)
             /\ Occurs(piece, k, c) => Occurs(piece, (Len(a) + Len(b)) + k, ab \o c)
  <2>1. PICK at : at = Len(a) + k
    OBVIOUS
  <2>2. Occurs(piece, k, b) => Occurs(piece, at, ab)
    BY <1>1, <2>1, OccursInParts
  <2>3. Occurs(piece, at, ab) => Occurs(piece, at, ab \o c)
    BY <1>2, OccursInParts
  <2>4. Occurs(piece, k, c) => Occurs(piece, Len(ab) + k, ab \o c)
    BY <1>2, OccursInParts
  <2> QED
    BY <1>2, <2>1, <2>2, <2>3, <2>4
<1> QED
  BY <1>1, <1>3, <1>4, <1>5

(* Where the pieces of a column are, and how they add to the parts. *)
Placed(columns, record, f, g, bytes, m, n, i) ==
    /\ Len(f[i]) = Len(f[i - 1]) + Len(FixedPart(columns, record)[i])
    /\ Len(g[i]) = Len(g[i - 1]) + Len(VariablePart(columns, record)[i])
    /\ Occurs(FixedPart(columns, record)[i], m + Len(f[i - 1]), bytes)
    /\ Occurs(VariablePart(columns, record)[i], (m + Len(f[n])) + Len(g[i - 1]), bytes)

(* Where the parts of a record are. *)
LEMMA LayoutOccurs ==
    ASSUME NEW columns, NEW record, Accepts(columns, record), NEW f, NEW g, NEW bytes,
           NEW m \in Nat, NEW n \in Nat, IsLayout(columns, record, f, g, bytes, m, n)
    PROVE  /\ bytes \in Seq(Byte) /\ Occurs(null_bitmap(columns, record), 0, bytes)
           /\ f[0] = <<>> /\ g[0] = <<>> /\ \A i \in 0 .. n : Len(f[i]) \in Nat /\ Len(g[i]) \in Nat
           /\ \A i \in 1 .. n : Placed(columns, record, f, g, bytes, m, n, i)
<1>1. m = get_null_bitmap_size(columns) /\ n = Len(columns)
  BY DEF IsLayout
<1> USE <1>1
<1>2. PICK fixed, variable : fixed = FixedPart(columns, record) /\ variable = VariablePart(columns, record)
  OBVIOUS
<1>3. /\ fixed \in Seq(Seq(Byte)) /\ Len(fixed) = n
      /\ variable \in Seq(Seq(Byte)) /\ Len(variable) = n
  BY <1>2, PartsAre
<1>4. IsFlat(f, fixed, Byte) /\ IsFlat(g, variable, Byte)
  BY <1>2 DEF IsLayout
<1>5. f \in [0 .. n -> Seq(Byte)] /\ g \in [0 .. n -> Seq(Byte)] /\ f[0] = <<>> /\ g[0] = <<>>
  BY <1>3, <1>4 DEF IsFlat
<1>6. PICK map \in Seq(Byte) : map = null_bitmap(columns, record) /\ Len(map) = m
  BY BitmapBytes DEF Accepts
<1>7. PICK b \in Seq(Byte), c \in Seq(Byte) : b = f[n] /\ c = g[n]
  BY <1>5
<1>8. bytes = map \o b \o c
  BY <1>6, <1>7 DEF IsLayout
<1>9. bytes \in Seq(Byte) /\ Occurs(map, 0, bytes)
  BY <1>8, OccursInThree
<1>10. ASSUME NEW i \in 1 .. n
      PROVE  Placed(columns, record, f, g, bytes, m, n, i)
  <2>1. fixed[i] \in Seq(Byte) /\ variable[i] \in Seq(Byte)
    BY <1>3
  <2>2. PICK k \in Nat, l \in Nat : k = Len(f[i - 1]) /\ l = Len(g[i - 1])
    <3>1. f[i - 1] \in Seq(Byte) /\ g[i - 1] \in Seq(Byte)
      <4>1. i - 1 \in 0 .. n
        OBVIOUS
      <4> QED
        BY <1>5, <4>1
    <3> QED
      BY <3>1
  <2>3. Occurs(fixed[i], Len(f[i - 1]), f[Len(fixed)]) /\ Len(f[i]) = Len(f[i - 1]) + Len(fixed[i])
    BY <1>3, <1>4, FlatOccurs
  <2>4. Occurs(variable[i], Len(g[i - 1]), g[Len(variable)]) /\ Len(g[i]) = Len(g[i - 1]) + Len(variable[i])
    BY <1>3, <1>4, FlatOccurs
  <2>5. Occurs(fixed[i], k, b) /\ Occurs(variable[i], l, c)
    BY <1>3, <1>7, <2>2, <2>3, <2>4
  <2>6. Occurs(fixed[i], Len(map) + k, bytes) /\ Occurs(variable[i], (Len(map) + Len(b)) + l, bytes)
    BY <1>8, <2>1, <2>5, OccursInThree
  <2> QED
    BY <1>2, <1>6, <1>7, <2>2, <2>3, <2>4, <2>6 DEF Placed
<1>11. \A i \in 0 .. n : Len(f[i]) \in Nat /\ Len(g[i]) \in Nat
  BY <1>5
<1> QED
  BY <1>5, <1>6, <1>9, <1>10, <1>11

(* Where reading finds the values. *)
FixedAt(columns, bytes, f, m, n) == \A i \in 0 .. n : FixedOffsets(columns, bytes)[i] = m + Len(f[i])
VariableAt(columns, bytes, f, g, m, n) ==
    \A i \in 0 .. n : VariableOffsets(columns, bytes)[i] = (m + Len(f[n])) + Len(g[i])

(* The values of fixed size are read where they were written. *)
LEMMA FixedOffsetsAre ==
    ASSUME NEW columns, NEW record, Accepts(columns, record), NEW f, NEW g, NEW bytes,
           NEW m \in Nat, NEW n \in Nat, IsLayout(columns, record, f, g, bytes, m, n)
    PROVE  FixedAt(columns, bytes, f, m, n)
<1> DEFINE equation(h) == h = [i \in 0 .. Len(columns) |->
               IF i = 0 THEN get_null_bitmap_size(columns)
               ELSE IF is_col_value_null(bytes, i - 1) \/ ~is_fixed_type(columns[i]) THEN h[i - 1]
               ELSE h[i - 1] + get_fixed_size(columns[i].data_type)]
           offset == CHOOSE h : equation(h)
<1>1. m = get_null_bitmap_size(columns) /\ n = Len(columns)
  BY DEF IsLayout
<1> USE <1>1
<1>2. PICK h : h = [i \in 0 .. n |-> m + Len(f[i])]
  OBVIOUS
<1>3. f[0] = <<>> /\ \A i \in 0 .. n : Len(f[i]) \in Nat
  BY LayoutOccurs
<1>4. ASSUME NEW i \in 1 .. n
      PROVE  /\ m + Len(f[i]) = IF is_col_value_null(bytes, i - 1) \/ ~is_fixed_type(columns[i]) THEN m + Len(f[i - 1])
                                ELSE (m + Len(f[i - 1])) + get_fixed_size(columns[i].data_type)
  <2>1. PICK part : part = FixedPart(columns, record)[i]
    OBVIOUS
  <2>2. Len(f[i]) = Len(f[i - 1]) + Len(part)
    <3>1. Placed(columns, record, f, g, bytes, m, n, i)
      BY LayoutOccurs
    <3> QED
      BY <2>1, <3>1 DEF Placed
  <2>3. is_col_value_null(bytes, i - 1) <=> record[i] = Null
    BY LayoutOccurs, NullRead DEF Accepts
  <2>4. Len(part) = IF is_col_value_null(bytes, i - 1) \/ ~is_fixed_type(columns[i]) THEN 0
                    ELSE get_fixed_size(columns[i].data_type)
    BY <2>1, <2>3, ColumnParts
  <2>5. PICK a \in Nat : a = Len(f[i - 1])
    <3>1. i - 1 \in 0 .. n
      OBVIOUS
    <3> QED
      BY <1>3, <3>1
  <2>6. PICK l \in Nat : l = Len(part)
    <3>1. part \in Seq(Byte)
      BY <2>1, ColumnParts
    <3> QED
      BY <3>1
  <2>7. Len(f[i]) = a + l
    BY <2>2, <2>5, <2>6, Zenon
  <2>8. m + (a + l) = (m + a) + l
    OBVIOUS
  <2> QED
    BY <2>4, <2>5, <2>6, <2>7, <2>8
<1>5. equation(h)
  <2>1. h[0] = m
    BY <1>2, <1>3
  <2>2. \A i \in 1 .. n : i - 1 \in 0 .. n /\ i \in 0 .. n /\ i # 0
    OBVIOUS
  <2>3. \A i \in 1 .. n : h[i] = IF is_col_value_null(bytes, i - 1) \/ ~is_fixed_type(columns[i]) THEN h[i - 1]
                                 ELSE h[i - 1] + get_fixed_size(columns[i].data_type)
    BY <1>2, <1>4, <2>2
  <2>4. \A i \in 0 .. n : i = 0 \/ i \in 1 .. n
    OBVIOUS
  <2>5. h = [i \in 0 .. n |->
               IF i = 0 THEN m
               ELSE IF is_col_value_null(bytes, i - 1) \/ ~is_fixed_type(columns[i]) THEN h[i - 1]
               ELSE h[i - 1] + get_fixed_size(columns[i].data_type)]
    BY <1>2, <2>1, <2>3, <2>4
  <2> QED
    BY <2>5
<1>6. equation(offset)
  <2> HIDE DEF equation
  <2> QED
    BY <1>5
<1>7. offset = FixedOffsets(columns, bytes)
  BY DEF FixedOffsets
<1> HIDE DEF offset
<1>8. /\ offset[0] = m
      /\ \A i \in 1 .. n : offset[i] = IF is_col_value_null(bytes, i - 1) \/ ~is_fixed_type(columns[i]) THEN offset[i - 1]
                                       ELSE offset[i - 1] + get_fixed_size(columns[i].data_type)
  BY <1>6
<1>9. /\ h[0] = m
      /\ \A i \in 1 .. n : h[i] = IF is_col_value_null(bytes, i - 1) \/ ~is_fixed_type(columns[i]) THEN h[i - 1]
                                       ELSE h[i - 1] + get_fixed_size(columns[i].data_type)
  BY <1>5
<1> HIDE DEF equation
<1> DEFINE T == {k \in Nat : k <= n => offset[k] = h[k]}
<1>10. 0 \in T
  BY <1>8, <1>9
<1>11. ASSUME NEW k \in Nat, k \in T PROVE k + 1 \in T
  <2> SUFFICES ASSUME k + 1 <= n PROVE offset[k + 1] = h[k + 1]
    OBVIOUS
  <2>1. PICK i \in 1 .. n : i = k + 1 /\ i - 1 = k
    OBVIOUS
  <2>2. offset[i - 1] = h[i - 1]
    BY <1>11, <2>1
  <2>3. offset[i] = h[i]
    BY <1>8, <1>9, <2>2
  <2> QED
    BY <2>1, <2>3
<1>12. \A k \in Nat : k \in T
  <2> HIDE DEF T
  <2> QED
    BY <1>10, <1>11, SetInduction
<1>13. \A i \in 0 .. n : offset[i] = h[i]
  BY <1>12
<1> QED
  BY <1>2, <1>7, <1>13 DEF FixedAt

(* The values of variable size are read where they were written. *)
LEMMA VariableOffsetsAre ==
    ASSUME NEW columns, NEW record, Accepts(columns, record), NEW f, NEW g, NEW bytes,
           NEW m \in Nat, NEW n \in Nat, IsLayout(columns, record, f, g, bytes, m, n)
    PROVE  VariableAt(columns, bytes, f, g, m, n)
<1> DEFINE equation(h) == h = [i \in 0 .. Len(columns) |->
               IF i = 0 THEN get_variable_length_data_offset(columns, bytes)
               ELSE IF is_col_value_null(bytes, i - 1) \/ is_fixed_type(columns[i]) THEN h[i - 1]
               ELSE h[i - 1] + LENGTH_SIZE + LengthAt(bytes, h[i - 1])]
           offset == CHOOSE h : equation(h)
<1>1. m = get_null_bitmap_size(columns) /\ n = Len(columns)
  BY DEF IsLayout
<1> USE <1>1
<1>2. PICK start \in Nat : start = m + Len(f[n])
  <2>1. Len(f[n]) \in Nat
    <3>1. n \in 0 .. n
      OBVIOUS
    <3> QED
      BY <3>1, LayoutOccurs
  <2> QED
    BY <2>1
<1>3. PICK h : h = [i \in 0 .. n |-> start + Len(g[i])]
  OBVIOUS
<1>4. g[0] = <<>> /\ \A i \in 0 .. n : Len(g[i]) \in Nat
  BY LayoutOccurs
<1>5. get_variable_length_data_offset(columns, bytes) = start
  <2>1. n \in 0 .. n
    OBVIOUS
  <2>2. FixedAt(columns, bytes, f, m, n)
    BY FixedOffsetsAre
  <2> QED
    BY <1>2, <2>1, <2>2 DEF get_variable_length_data_offset, FixedAt
<1>6. ASSUME NEW i \in 1 .. n
      PROVE  start + Len(g[i]) = IF is_col_value_null(bytes, i - 1) \/ is_fixed_type(columns[i]) THEN start + Len(g[i - 1])
                                 ELSE (start + Len(g[i - 1])) + LENGTH_SIZE + LengthAt(bytes, start + Len(g[i - 1]))
  <2>1. PICK part : part = VariablePart(columns, record)[i]
    OBVIOUS
  <2>2. Len(g[i]) = Len(g[i - 1]) + Len(part)
    <3>1. Placed(columns, record, f, g, bytes, m, n, i)
      BY LayoutOccurs
    <3> QED
      BY <2>1, <3>1 DEF Placed
  <2>3. is_col_value_null(bytes, i - 1) <=> record[i] = Null
    BY LayoutOccurs, NullRead DEF Accepts
  <2>4. PICK a \in Nat : a = Len(g[i - 1])
    <3>1. i - 1 \in 0 .. n
      OBVIOUS
    <3> QED
      BY <1>4, <3>1
  <2>5. CASE record[i] = Null \/ is_fixed_type(columns[i])
    <3>1. Len(part) = 0
      BY <2>1, <2>5, ColumnParts
    <3> QED
      BY <2>2, <2>3, <2>4, <2>5, <3>1
  <2>6. CASE record[i] # Null /\ ~is_fixed_type(columns[i])
    <3>1. Len(part) = LENGTH_SIZE + Len(record[i].data) /\ part = VariableBytes(record[i])
      BY <2>1, <2>6, ColumnParts
    <3>2. Occurs(part, start + a, bytes) /\ bytes \in Seq(Byte)
      <4>1. Placed(columns, record, f, g, bytes, m, n, i) /\ bytes \in Seq(Byte)
        BY LayoutOccurs
      <4> QED
        BY <1>2, <2>1, <2>4, <4>1 DEF Placed
    <3>3. Fits(record[i], columns[i].data_type) /\ ~HasFixedSize(columns[i].data_type)
      BY <2>6, ColumnParts DEF Accepts, RecordOf
    <3>4. LengthAt(bytes, start + a) = Len(record[i].data)
      BY <3>1, <3>2, <3>3, VariableRoundTrip
    <3>5. PICK l \in Nat : l = Len(record[i].data)
      BY <3>3, VariableData
    <3>6. start + (a + (LENGTH_SIZE + l)) = (start + a) + LENGTH_SIZE + l
      BY DEF LENGTH_SIZE
    <3> QED
      BY <2>2, <2>3, <2>4, <2>6, <3>1, <3>4, <3>5, <3>6
  <2> QED
    BY <2>5, <2>6
<1>7. equation(h)
  <2>1. h[0] = start
    <3>1. Len(g[0]) = 0 /\ 0 \in 0 .. n
      BY <1>4
    <3>2. h[0] = start + Len(g[0])
      BY <1>3, <3>1
    <3> QED
      BY <3>1, <3>2
  <2>2. \A i \in 1 .. n : i - 1 \in 0 .. n /\ i \in 0 .. n /\ i # 0
    OBVIOUS
  <2>3. \A i \in 1 .. n : h[i] = IF is_col_value_null(bytes, i - 1) \/ is_fixed_type(columns[i]) THEN h[i - 1]
                                 ELSE h[i - 1] + LENGTH_SIZE + LengthAt(bytes, h[i - 1])
    BY <1>3, <1>6, <2>2
  <2>4. \A i \in 0 .. n : i = 0 \/ i \in 1 .. n
    OBVIOUS
  <2>5. h = [i \in 0 .. n |->
               IF i = 0 THEN start
               ELSE IF is_col_value_null(bytes, i - 1) \/ is_fixed_type(columns[i]) THEN h[i - 1]
               ELSE h[i - 1] + LENGTH_SIZE + LengthAt(bytes, h[i - 1])]
    BY <1>3, <2>1, <2>3, <2>4
  <2> QED
    BY <1>5, <2>5
<1>8. equation(offset)
  <2> HIDE DEF equation
  <2> QED
    BY <1>7
<1>9. offset = VariableOffsets(columns, bytes)
  BY DEF VariableOffsets
<1> HIDE DEF offset
<1>10. /\ offset[0] = start
      /\ \A i \in 1 .. n : offset[i] = IF is_col_value_null(bytes, i - 1) \/ is_fixed_type(columns[i]) THEN offset[i - 1]
                                       ELSE offset[i - 1] + LENGTH_SIZE + LengthAt(bytes, offset[i - 1])
  BY <1>5, <1>8
<1>11. /\ h[0] = start
      /\ \A i \in 1 .. n : h[i] = IF is_col_value_null(bytes, i - 1) \/ is_fixed_type(columns[i]) THEN h[i - 1]
                                  ELSE h[i - 1] + LENGTH_SIZE + LengthAt(bytes, h[i - 1])
  BY <1>5, <1>7
<1> HIDE DEF equation
<1> DEFINE T == {k \in Nat : k <= n => offset[k] = h[k]}
<1>12. 0 \in T
  BY <1>10, <1>11
<1>13. ASSUME NEW k \in Nat, k \in T PROVE k + 1 \in T
  <2> SUFFICES ASSUME k + 1 <= n PROVE offset[k + 1] = h[k + 1]
    OBVIOUS
  <2>1. PICK i \in 1 .. n : i = k + 1 /\ i - 1 = k
    OBVIOUS
  <2>2. offset[i - 1] = h[i - 1]
    BY <1>13, <2>1
  <2>3. offset[i] = h[i]
    BY <1>10, <1>11, <2>2
  <2> QED
    BY <2>1, <2>3
<1>14. \A k \in Nat : k \in T
  <2> HIDE DEF T
  <2> QED
    BY <1>12, <1>13, SetInduction
<1>15. \A i \in 0 .. n : offset[i] = h[i]
  BY <1>14
<1> QED
  BY <1>3, <1>9, <1>15, <1>2 DEF VariableAt

(* The columns of a record, read from its bytes. *)
ReadsBack(columns, record, bytes) ==
    /\ bytes \in Seq(Byte)
    /\ \A i \in 1 .. Len(columns) :
          /\ is_col_value_null(bytes, i - 1) <=> record[i] = Null
          /\ record[i] # Null => deserialize_col_value(columns, bytes, i) = record[i]

(* A record that serialize() accepts reads back from its bytes. *)
LEMMA RecordReadsBack ==
    ASSUME NEW columns, NEW record, RecordOf(columns, record), serialize(columns, record).err = "None",
           NEW bytes, bytes = serialize(columns, record).made
    PROVE  ReadsBack(columns, record, bytes)
<1>1. Accepts(columns, record)
  BY LayoutExists
<1>2. PICK n \in Nat : n = Len(columns)
  BY DEF RecordOf
<1>3. PICK m \in Nat : m = get_null_bitmap_size(columns)
  BY BitmapBytes
<1>4. PICK f, g : IsLayout(columns, record, f, g, bytes, m, n)
  BY <1>2, <1>3, LayoutExists
<1>5. bytes \in Seq(Byte) /\ Occurs(null_bitmap(columns, record), 0, bytes)
  BY <1>1, <1>4, LayoutOccurs
<1>6. \A i \in 1 .. n : Placed(columns, record, f, g, bytes, m, n, i)
  BY <1>1, <1>4, LayoutOccurs
<1>7. ASSUME NEW i \in 1 .. n
      PROVE  /\ is_col_value_null(bytes, i - 1) <=> record[i] = Null
             /\ record[i] # Null => deserialize_col_value(columns, bytes, i) = record[i]
  <2>1. is_col_value_null(bytes, i - 1) <=> record[i] = Null
    BY <1>2, <1>5, NullRead
  <2> SUFFICES ASSUME record[i] # Null PROVE deserialize_col_value(columns, bytes, i) = record[i]
    BY <2>1
  <2>2. i - 1 \in 0 .. n
    OBVIOUS
  <2>3. IsType(columns[i].data_type) /\ Fits(record[i], columns[i].data_type)
    BY <1>2 DEF RecordOf
  <2>4. is_fixed_size(columns[i].data_type) <=> HasFixedSize(columns[i].data_type)
    BY <2>3, TypeKinds
  <2>5. CASE HasFixedSize(columns[i].data_type)
    <3>1. PICK part : part = FixedPart(columns, record)[i]
      OBVIOUS
    <3>2. /\ part \in Seq(Byte) /\ Len(part) = get_fixed_size(columns[i].data_type)
          /\ deserialize_fixed_sized_col_value(columns[i], part) = record[i]
      BY <1>1, <1>2, <2>5, <3>1, ColumnParts
    <3>3. PICK at : at = FixedOffsets(columns, bytes)[i - 1]
      OBVIOUS
    <3>4. at = m + Len(f[i - 1])
      <4>1. FixedAt(columns, bytes, f, m, n)
        BY <1>1, <1>4, FixedOffsetsAre
      <4> QED
        BY <2>2, <3>3, <4>1 DEF FixedAt
    <3>5. Occurs(part, at, bytes)
      BY <1>6, <3>1, <3>4 DEF Placed
    <3>6. SubSeq(bytes, at + 1, at + Len(part)) = part
      BY <1>5, <3>2, <3>5, SliceOfPiece
    <3>7. Slice(bytes, at, get_fixed_size(columns[i].data_type)) = part
      BY <3>2, <3>6 DEF Slice
    <3> QED
      BY <2>4, <2>5, <3>2, <3>3, <3>7 DEF deserialize_col_value
  <2>6. CASE ~HasFixedSize(columns[i].data_type)
    <3>1. PICK part : part = VariablePart(columns, record)[i]
      OBVIOUS
    <3>2. part = VariableBytes(record[i])
      BY <1>1, <1>2, <2>6, <3>1, ColumnParts
    <3>3. PICK at : at = VariableOffsets(columns, bytes)[i - 1]
      OBVIOUS
    <3>4. at = (m + Len(f[n])) + Len(g[i - 1])
      <4>1. VariableAt(columns, bytes, f, g, m, n)
        BY <1>1, <1>4, VariableOffsetsAre
      <4> QED
        BY <2>2, <3>3, <4>1 DEF VariableAt
    <3>5. Occurs(part, at, bytes)
      BY <1>6, <3>1, <3>4 DEF Placed
    <3>6. deserialize_variable_sized_col_value(columns[i],
              SubSeq(bytes, at + LENGTH_SIZE + 1, Len(bytes)), LengthAt(bytes, at)) = record[i]
      BY <1>5, <2>3, <2>6, <3>2, <3>5, VariableRoundTrip
    <3> QED
      BY <2>4, <2>6, <3>3, <3>6 DEF deserialize_col_value
  <2> QED
    BY <2>5, <2>6
<1> QED
  BY <1>2, <1>5, <1>7 DEF ReadsBack

-----------------------------------------------------------------------------
(* The search among keys that may not be readable *)

Compares(how) == how \in {"equal", "greater", "less"}

(* A search at a record that it cannot compare with repeats its turn. *)
Stuck(at, relation) == ~at.found /\ at.low < at.high /\ ~Compares(relation[Middle(at)])

(* A search over any keys, after n turns: it has a shorter interval, or    *)
(* has ended, or repeats its turn.                                         *)
Bounded(at, n, item_count, relation) ==
    /\ at = [low |-> at.low, high |-> at.high, found |-> at.found]
    /\ at.low \in Nat /\ at.high \in Nat /\ at.found \in BOOLEAN /\ at.high <= item_count
    /\ at.found \/ at.low >= at.high \/ at.high - at.low + n <= item_count \/ Stuck(at, relation)

(* The middle is in the interval. *)
LEMMA MiddleInside ==
    ASSUME NEW low \in Nat, NEW high \in Nat, low < high, NEW found
    PROVE  /\ Middle([low |-> low, high |-> high, found |-> found]) \in Nat
           /\ low <= Middle([low |-> low, high |-> high, found |-> found])
           /\ Middle([low |-> low, high |-> high, found |-> found]) < high
<1>1. Middle([low |-> low, high |-> high, found |-> found]) = low + (high - low) \div 2
  BY DEF Middle
<1> QED
  BY <1>1

(* A turn keeps that. *)
LEMMA TurnBounded ==
    ASSUME NEW item_count \in Nat, NEW relation, NEW n \in Nat, NEW at, Bounded(at, n, item_count, relation)
    PROVE  Bounded(Turn(relation, at), n + 1, item_count, relation)
<1>1. PICK low \in Nat, high \in Nat, found \in BOOLEAN :
          at = [low |-> low, high |-> high, found |-> found] /\ high <= item_count
  BY DEF Bounded
<1>2. CASE found \/ low >= high
  <2>1. Turn(relation, at) = at
    BY <1>1, <1>2 DEF Turn
  <2> QED
    BY <1>1, <1>2, <2>1 DEF Bounded
<1>3. CASE ~found /\ low < high /\ ~Compares(relation[Middle(at)])
  <2>1. Turn(relation, at) = at
    BY <1>1, <1>3 DEF Turn, Compares
  <2>2. Stuck(at, relation)
    BY <1>1, <1>3 DEF Stuck
  <2> QED
    BY <1>1, <2>1, <2>2 DEF Bounded
<1>4. CASE ~found /\ low < high /\ Compares(relation[Middle(at)])
  <2>1. PICK mid \in Nat : mid = Middle(at) /\ low <= mid /\ mid < high
    BY <1>1, <1>4, MiddleInside
  <2>2. high - low + n <= item_count
    BY <1>1, <1>4 DEF Bounded, Stuck
  <2>3. PICK to : to = Turn(relation, at)
    OBVIOUS
  <2>4. CASE relation[mid] = "equal"
    <3>1. to = [at EXCEPT !.found = TRUE, !.low = mid]
      BY <1>1, <1>4, <2>1, <2>3, <2>4 DEF Turn
    <3>2. PICK yes \in BOOLEAN : yes = TRUE
      OBVIOUS
    <3>3. to = [low |-> mid, high |-> high, found |-> yes]
      BY <1>1, <3>1, <3>2
    <3>4. to.found
      BY <3>2, <3>3
    <3> QED
      BY <1>1, <2>3, <3>3, <3>4 DEF Bounded
  <2>5. CASE relation[mid] = "greater"
    <3>1. to = [low |-> mid + 1, high |-> high, found |-> found]
      BY <1>1, <1>4, <2>1, <2>3, <2>5 DEF Turn
    <3>2. mid + 1 \in Nat /\ high - (mid + 1) + (n + 1) <= item_count
      BY <1>1, <2>1, <2>2
    <3> QED
      BY <1>1, <2>3, <3>1, <3>2 DEF Bounded
  <2>6. CASE relation[mid] = "less"
    <3>1. to = [low |-> low, high |-> mid, found |-> found]
      BY <1>1, <1>4, <2>1, <2>3, <2>6 DEF Turn, HighBelow
    <3>2. mid - low + (n + 1) <= item_count /\ mid <= item_count
      BY <1>1, <2>1, <2>2
    <3> QED
      BY <1>1, <2>1, <2>3, <3>1, <3>2 DEF Bounded
  <2> QED
    BY <1>4, <2>1, <2>4, <2>5, <2>6 DEF Compares
<1> QED
  BY <1>1, <1>2, <1>3, <1>4

(* A search that does not end is at a record that it cannot compare with. *)
LEMMA EndlessSearch ==
    ASSUME NEW item_count \in Nat, NEW relation, ~find_key(item_count, relation).ends
    PROVE  /\ find_key(item_count, relation).mid \in 0 .. (item_count - 1)
           /\ ~Compares(relation[find_key(item_count, relation).mid])
<1>1. PICK turns : turns = Turns(item_count, relation)
  OBVIOUS
<1>2. turns[0] = Start(item_count)
  BY <1>1, TurnsDefined
<1>3. ASSUME NEW n \in Nat PROVE turns[n + 1] = Turn(relation, turns[n])
  BY <1>1, TurnsDefined
<1> DEFINE T == {n \in Nat : Bounded(turns[n], n, item_count, relation)}
<1>4. 0 \in T
  <2>1. Bounded(Start(item_count), 0, item_count, relation)
    BY DEF Bounded, Start
  <2> QED
    BY <1>2, <2>1
<1>5. ASSUME NEW n \in Nat, n \in T PROVE n + 1 \in T
  <2>1. Bounded(turns[n], n, item_count, relation) /\ turns[n + 1] = Turn(relation, turns[n])
    BY <1>3, <1>5
  <2> QED
    BY <2>1, TurnBounded
<1>6. item_count \in T
  <2> HIDE DEF T
  <2> QED
    BY <1>4, <1>5, SetInduction
<1>7. PICK end : end = turns[item_count] /\ Bounded(end, item_count, item_count, relation)
  BY <1>6
<1>8. find_key(item_count, relation).mid = Middle(end) /\ ~(end.found \/ end.low >= end.high)
  BY <1>1, <1>7 DEF find_key
<1>9. PICK low \in Nat, high \in Nat :
          end = [low |-> low, high |-> high, found |-> end.found] /\ high <= item_count /\ low < high
  BY <1>7, <1>8 DEF Bounded
<1>10. ~(high - low + item_count <= item_count)
  BY <1>9
<1>11. Stuck(end, relation)
  BY <1>7, <1>8, <1>9, <1>10 DEF Bounded
<1>12. Middle(end) \in 0 .. (item_count - 1)
  <2>1. PICK mid \in Nat : mid = Middle(end) /\ mid < high
    BY <1>9, MiddleInside
  <2> QED
    BY <1>9, <2>1
<1> QED
  BY <1>8, <1>11, <1>12 DEF Stuck

(* The keys that can be read are the right ones. *)
Partial(relation, full, item_count) ==
    \A i \in 0 .. (item_count - 1) : relation[i] = full[i] \/ ~Compares(relation[i])

(* A search that ends has not met a key that cannot be read. *)
LEMMA EndingSearch ==
    ASSUME NEW item_count \in Nat, NEW relation, NEW full, Partial(relation, full, item_count),
           find_key(item_count, relation).ends
    PROVE  find_key(item_count, relation) = find_key(item_count, full)
<1>1. PICK turns, others : turns = Turns(item_count, relation) /\ others = Turns(item_count, full)
  OBVIOUS
<1>2. turns[0] = Start(item_count) /\ others[0] = Start(item_count)
  BY <1>1, TurnsDefined
<1>3. ASSUME NEW n \in Nat PROVE turns[n + 1] = Turn(relation, turns[n]) /\ others[n + 1] = Turn(full, others[n])
  BY <1>1, TurnsDefined
<1> DEFINE T == {n \in Nat : /\ Bounded(turns[n], n, item_count, relation)
                             /\ turns[n] = others[n] \/ Stuck(turns[n], relation)}
<1>4. 0 \in T
  <2>1. Bounded(Start(item_count), 0, item_count, relation)
    BY DEF Bounded, Start
  <2> QED
    BY <1>2, <2>1
<1>5. ASSUME NEW n \in Nat, n \in T PROVE n + 1 \in T
  <2>1. PICK at : at = turns[n] /\ Bounded(at, n, item_count, relation)
    BY <1>5
  <2>2. turns[n + 1] = Turn(relation, at) /\ others[n + 1] = Turn(full, others[n])
    BY <1>3, <2>1
  <2>3. Bounded(turns[n + 1], n + 1, item_count, relation)
    BY <2>1, <2>2, TurnBounded
  <2>4. CASE Stuck(at, relation)
    <3>1. Turn(relation, at) = at
      BY <2>4 DEF Stuck, Turn, Compares
    <3> QED
      BY <2>2, <2>3, <2>4, <3>1
  <2>5. CASE ~Stuck(at, relation)
    <3>1. at = others[n]
      BY <1>5, <2>1, <2>5
    <3>2. PICK low \in Nat, high \in Nat, found \in BOOLEAN :
              at = [low |-> low, high |-> high, found |-> found] /\ high <= item_count
      BY <2>1 DEF Bounded
    <3>3. CASE found \/ low >= high
      <4>1. Turn(relation, at) = at /\ Turn(full, at) = at
        BY <3>2, <3>3 DEF Turn
      <4> QED
        BY <2>2, <2>3, <3>1, <4>1
    <3>4. CASE ~found /\ low < high
      <4>1. PICK mid \in Nat : mid = Middle(at) /\ mid < high
        BY <3>2, <3>4, MiddleInside
      <4>2. mid \in 0 .. (item_count - 1) /\ Compares(relation[mid])
        BY <2>5, <3>2, <3>4, <4>1 DEF Stuck
      <4>3. relation[mid] = full[mid]
        BY <4>2 DEF Partial
      <4>4. Turn(relation, at) = Turn(full, at)
        BY <4>1, <4>3 DEF Turn
      <4> QED
        BY <2>2, <2>3, <3>1, <4>4
    <3> QED
      BY <3>2, <3>3, <3>4
  <2> QED
    BY <2>4, <2>5
<1>6. item_count \in T
  <2> HIDE DEF T
  <2> QED
    BY <1>4, <1>5, SetInduction
<1>7. turns[item_count] = others[item_count]
  <2>1. turns[item_count].found \/ turns[item_count].low >= turns[item_count].high
    BY <1>1 DEF find_key
  <2>2. ~Stuck(turns[item_count], relation)
    <3>1. PICK low \in Nat, high \in Nat : low = turns[item_count].low /\ high = turns[item_count].high
      BY <1>6 DEF Bounded
    <3> QED
      BY <2>1, <3>1 DEF Stuck
  <2> QED
    BY <1>6, <2>2
<1> QED
  BY <1>1, <1>7 DEF find_key

(* The keys of a page are sorted, so that a key has a place among them. *)
Sorted(item_count, relation) ==
    /\ \A i \in 0 .. (item_count - 1) : Compares(relation[i])
    /\ \A i, j \in 0 .. (item_count - 1) : i < j /\ relation[i] # "greater" => relation[j] = "less"

(* Among sorted keys every key has a place. *)
LEMMA PlaceExists ==
    ASSUME NEW item_count \in Nat, NEW relation, Sorted(item_count, relation)
    PROVE  \E c \in 0 .. item_count : Belongs(c, item_count, relation)
<1> DEFINE T == {i \in 0 .. item_count : i = item_count \/ relation[i] # "greater"}
<1>1. PICK c \in T : \A y \in T : c <= y
  <2>1. T \in SUBSET Nat /\ item_count \in T
    OBVIOUS
  <2> HIDE DEF T
  <2> QED
    BY <2>1, LeastNatural
<1>2. c \in 0 .. item_count
  BY <1>1
<1>3. \A i \in 0 .. (c - 1) : relation[i] = "greater"
  BY <1>1
<1>4. \A i \in (c + 1) .. (item_count - 1) : relation[i] = "less"
  <2> TAKE i \in (c + 1) .. (item_count - 1)
  <2>1. c \in 0 .. (item_count - 1) /\ i \in 0 .. (item_count - 1) /\ c < i /\ relation[c] # "greater"
    BY <1>1
  <2> QED
    BY <2>1 DEF Sorted
<1>5. c < item_count => relation[c] \in {"equal", "less"}
  BY <1>1 DEF Sorted, Compares
<1> QED
  BY <1>2, <1>3, <1>4, <1>5 DEF Belongs

-----------------------------------------------------------------------------
(* Orders.  A comparison is a function, so that lemmas can speak of any. *)

IsOrder(c, S) ==
    /\ \A x, y \in S : c[<<x, y>>] \in (-1) .. 1 /\ c[<<y, x>>] = -c[<<x, y>>]
    /\ \A x, y, z \in S : c[<<x, y>>] <= 0 /\ c[<<y, z>>] <= 0 => c[<<x, z>>] <= 0

(* What two comparisons say of a third one. *)
LEMMA OrderChain ==
    ASSUME NEW S, NEW c, IsOrder(c, S), NEW x \in S, NEW y \in S, NEW z \in S,
           c[<<x, y>>] <= 0, c[<<y, z>>] <= 0
    PROVE  /\ c[<<x, z>>] \in (-1) .. 1 /\ c[<<x, z>>] <= 0
           /\ c[<<x, z>>] = 0 <=> c[<<x, y>>] = 0 /\ c[<<y, z>>] = 0
<1>1. PICK p \in (-1) .. 1, q \in (-1) .. 1, r \in (-1) .. 1 : p = c[<<x, y>>] /\ q = c[<<y, z>>] /\ r = c[<<x, z>>]
  BY DEF IsOrder
<1>2. c[<<y, x>>] = -p /\ c[<<z, y>>] = -q /\ c[<<z, x>>] = -r
  BY <1>1 DEF IsOrder
<1>3. r <= 0
  BY <1>1 DEF IsOrder
<1>4. -r <= 0 => -p <= 0
  <2>1. c[<<y, z>>] <= 0 /\ c[<<z, x>>] <= 0 => c[<<y, x>>] <= 0
    BY DEF IsOrder
  <2> QED
    BY <1>1, <1>2, <2>1
<1>5. -r <= 0 => -q <= 0
  <2>1. c[<<z, x>>] <= 0 /\ c[<<x, y>>] <= 0 => c[<<z, y>>] <= 0
    BY DEF IsOrder
  <2> QED
    BY <1>1, <1>2, <2>1
<1>6. p = 0 /\ q = 0 => -r <= 0
  <2>1. c[<<z, y>>] <= 0 /\ c[<<y, x>>] <= 0 => c[<<z, x>>] <= 0
    BY DEF IsOrder
  <2> QED
    BY <1>2, <2>1
<1> QED
  BY <1>1, <1>3, <1>4, <1>5, <1>6

Lex(s, t, c) == Lexicographic(s, t, [i \in DOMAIN s \cap DOMAIN t |-> c[<<s[i], t[i]>>]])

(* Before a place, two sequences do not differ. *)
Alike(s, t, c, i) ==
    /\ i \in Nat \ {0} /\ i - 1 <= Len(s) /\ i - 1 <= Len(t)
    /\ \A j \in 1 .. (i - 1) : c[<<s[j], t[j]>>] = 0

(* A place where both go on and differ, or where one of them ends. *)
Differ(s, t, c, i) == i <= Len(s) /\ i <= Len(t) /\ c[<<s[i], t[i]>>] # 0
OneEnds(s, t, i) == i = Len(s) + 1 \/ i = Len(t) + 1
Place(s, t, c, i) == c[<<s[i], t[i]>>]

(* The first such place decides. *)
LEMMA PlaceDecides ==
    ASSUME NEW S, NEW s \in Seq(S), NEW t \in Seq(S), NEW c, NEW i, Alike(s, t, c, i)
    PROVE  /\ Differ(s, t, c, i) => Lex(s, t, c) = Place(s, t, c, i)
           /\ OneEnds(s, t, i) => Lex(s, t, c) = Sign(Len(s) - Len(t))
<1>1. PICK n \in Nat, m \in Nat : n = Len(s) /\ m = Len(t)
  OBVIOUS
<1>2. PICK both : both = DOMAIN s \cap DOMAIN t
  OBVIOUS
<1>3. \A j : j \in both <=> j \in Nat /\ 1 <= j /\ j <= n /\ j <= m
  <2>1. DOMAIN s = 1 .. n /\ DOMAIN t = 1 .. m
    BY <1>1
  <2> QED
    BY <1>2, <2>1
<1>4. PICK order : order = [j \in both |-> c[<<s[j], t[j]>>]]
  OBVIOUS
<1>5. PICK differ : differ = {j \in both : order[j] # 0}
  OBVIOUS
<1>6. Lex(s, t, c) = IF differ = {} THEN Sign(n - m) ELSE order[Min(differ)]
  BY <1>1, <1>2, <1>4, <1>5 DEF Lex, Lexicographic
<1>7. i \in Nat \ {0} /\ i - 1 <= n /\ i - 1 <= m /\ \A j \in 1 .. (i - 1) : c[<<s[j], t[j]>>] = 0
  BY <1>1 DEF Alike
<1>8. \A j \in both : j \in Nat /\ order[j] = c[<<s[j], t[j]>>]
  BY <1>3, <1>4
<1>9. \A j \in differ : j \in Nat /\ i <= j /\ j \in both
  <2> TAKE j \in differ
  <2>1. j \in both /\ j \in Nat /\ 1 <= j /\ c[<<s[j], t[j]>>] # 0
    BY <1>3, <1>5, <1>8
  <2>2. ~(j \in 1 .. (i - 1))
    BY <1>7, <2>1
  <2> QED
    BY <1>7, <2>1, <2>2
<1>10. CASE Differ(s, t, c, i)
  <2>1. i <= n /\ i <= m /\ c[<<s[i], t[i]>>] # 0 /\ i <= m + n
    BY <1>1, <1>7, <1>10 DEF Differ
  <2>2. i \in both
    BY <1>3, <1>7, <2>1
  <2>3. i \in differ
    BY <1>5, <1>8, <2>1, <2>2
  <2>4. differ \in SUBSET Nat /\ differ # {}
    BY <1>9, <2>3
  <2>5. Min(differ) \in differ /\ \A y \in differ : Min(differ) <= y
    BY <2>4, MinProperties
  <2>6. PICK k \in differ : k = Min(differ) /\ k <= i
    BY <2>3, <2>5
  <2>7. k = i
    BY <1>7, <1>9, <2>6
  <2>8. ~OneEnds(s, t, i)
    BY <1>1, <1>7, <2>1 DEF OneEnds
  <2> QED
    BY <1>6, <1>8, <2>2, <2>4, <2>6, <2>7, <2>8 DEF Place
<1>11. CASE OneEnds(s, t, i)
  <2>1. i = n + 1 \/ i = m + 1
    BY <1>1, <1>11 DEF OneEnds
  <2>2. differ = {}
    <3> SUFFICES ASSUME NEW j \in differ PROVE FALSE
      OBVIOUS
    <3>1. j \in Nat /\ i <= j /\ j <= n /\ j <= m
      BY <1>3, <1>9
    <3> QED
      BY <2>1, <3>1
  <2>3. ~Differ(s, t, c, i)
    BY <1>1, <2>1 DEF Differ
  <2> QED
    BY <1>1, <1>6, <2>2, <2>3
<1> QED
  BY <1>10, <1>11

(* There is one. *)
LEMMA PlaceIs ==
    ASSUME NEW S, NEW s \in Seq(S), NEW t \in Seq(S), NEW c
    PROVE  \E i : Alike(s, t, c, i) /\ (Differ(s, t, c, i) \/ OneEnds(s, t, i))
<1>1. PICK n \in Nat, m \in Nat : n = Len(s) /\ m = Len(t)
  OBVIOUS
<1> DEFINE T == {i \in Nat \ {0} : OneEnds(s, t, i) \/ Differ(s, t, c, i)}
<1>2. PICK i \in T : \A y \in T : i <= y
  <2>1. T \in SUBSET Nat /\ n + 1 \in T
    BY <1>1 DEF OneEnds
  <2> HIDE DEF T
  <2> QED
    BY <2>1, LeastNatural
<1>3. i \in Nat \ {0} /\ (OneEnds(s, t, i) \/ Differ(s, t, c, i))
  BY <1>2
<1>4. n + 1 \in T /\ m + 1 \in T
  BY <1>1 DEF OneEnds
<1>5. i <= n + 1 /\ i <= m + 1
  BY <1>2, <1>4
<1>6. ASSUME NEW j \in 1 .. (i - 1) PROVE c[<<s[j], t[j]>>] = 0
  <2>1. j \in Nat \ {0} /\ j < i /\ j <= n /\ j <= m
    BY <1>3, <1>5
  <2>2. j \notin T
    BY <1>2, <1>3, <2>1
  <2>3. ~Differ(s, t, c, j)
    BY <2>1, <2>2
  <2> QED
    BY <1>1, <2>1, <2>3 DEF Differ
<1>7. Alike(s, t, c, i)
  BY <1>1, <1>3, <1>5, <1>6 DEF Alike
<1> QED
  BY <1>3, <1>7

(* The sign of a difference. *)
LEMMA SignOf ==
    ASSUME NEW n \in Int
    PROVE  /\ Sign(n) \in (-1) .. 1 /\ Sign(-n) = -Sign(n)
           /\ (Sign(n) = 0 <=> n = 0) /\ (Sign(n) <= 0 <=> n <= 0) /\ (Sign(n) = -1 <=> n < 0)
  BY DEF Sign

(* Sequences compare, both ways, and equal when all they have does. *)
LEMMA LexSigns ==
    ASSUME NEW S, NEW c, IsOrder(c, S), NEW s \in Seq(S), NEW t \in Seq(S)
    PROVE  /\ Lex(s, t, c) \in (-1) .. 1 /\ Lex(t, s, c) = -Lex(s, t, c)
           /\ Lex(s, t, c) = 0 <=> Len(s) = Len(t) /\ \A j \in 1 .. Len(s) : c[<<s[j], t[j]>>] = 0
<1>1. PICK n \in Nat, m \in Nat : n = Len(s) /\ m = Len(t)
  OBVIOUS
<1>2. PICK i : Alike(s, t, c, i) /\ (Differ(s, t, c, i) \/ OneEnds(s, t, i))
  BY PlaceIs
<1>3. i \in Nat \ {0} /\ i - 1 <= n /\ i - 1 <= m /\ \A j \in 1 .. (i - 1) : c[<<s[j], t[j]>>] = 0
  BY <1>1, <1>2 DEF Alike
<1>4. \A j \in Nat : 1 <= j /\ j <= n /\ j <= m =>
          s[j] \in S /\ t[j] \in S /\ c[<<s[j], t[j]>>] \in (-1) .. 1 /\ c[<<t[j], s[j]>>] = -c[<<s[j], t[j]>>]
  <2> SUFFICES ASSUME NEW j \in Nat, 1 <= j, j <= n, j <= m
               PROVE  s[j] \in S /\ t[j] \in S /\ c[<<s[j], t[j]>>] \in (-1) .. 1 /\ c[<<t[j], s[j]>>] = -c[<<s[j], t[j]>>]
    OBVIOUS
  <2>1. s[j] \in S /\ t[j] \in S
    BY <1>1
  <2> QED
    BY <2>1 DEF IsOrder
<1>5. Alike(t, s, c, i)
  <2>1. ASSUME NEW j \in 1 .. (i - 1) PROVE c[<<t[j], s[j]>>] = 0
    <3>1. c[<<s[j], t[j]>>] = 0 /\ j \in Nat /\ 1 <= j /\ j <= n /\ j <= m
      BY <1>3
    <3> QED
      BY <1>4, <3>1
  <2> QED
    BY <1>1, <1>3, <2>1 DEF Alike
<1>6. CASE Differ(s, t, c, i)
  <2>1. i <= n /\ i <= m /\ c[<<s[i], t[i]>>] # 0 /\ 1 <= i /\ i \in Nat
    BY <1>1, <1>3, <1>6 DEF Differ
  <2>2. PICK x \in (-1) .. 1 : x = c[<<s[i], t[i]>>] /\ x # 0 /\ c[<<t[i], s[i]>>] = -x
    BY <1>4, <2>1
  <2>3. Lex(s, t, c) = x
    <3>1. Lex(s, t, c) = Place(s, t, c, i)
      BY <1>2, <1>6, PlaceDecides
    <3> QED
      BY <2>2, <3>1 DEF Place
  <2>4. Differ(t, s, c, i)
    BY <1>1, <2>1, <2>2 DEF Differ
  <2>5. Lex(t, s, c) = -x
    <3>1. Lex(t, s, c) = Place(t, s, c, i)
      BY <1>5, <2>4, PlaceDecides, Zenon
    <3> QED
      BY <2>2, <3>1 DEF Place
  <2>6. ~(\A j \in 1 .. n : c[<<s[j], t[j]>>] = 0)
    <3>1. i \in 1 .. n
      BY <2>1
    <3> QED
      BY <2>2, <3>1
  <2> QED
    BY <1>1, <2>2, <2>3, <2>5, <2>6
<1>7. CASE OneEnds(s, t, i)
  <2>1. i = n + 1 \/ i = m + 1
    BY <1>1, <1>7 DEF OneEnds
  <2>2. PICK d \in Int : d = n - m
    OBVIOUS
  <2>3. Lex(s, t, c) = Sign(d)
    BY <1>1, <1>2, <1>7, <2>2, PlaceDecides
  <2>4. OneEnds(t, s, i)
    BY <1>1, <2>1 DEF OneEnds
  <2>5. Lex(t, s, c) = Sign(m - n) /\ m - n = -d
    <3>1. Lex(t, s, c) = Sign(Len(t) - Len(s))
      BY <1>5, <2>4, PlaceDecides, Zenon
    <3> QED
      BY <1>1, <2>2, <3>1
  <2>6. d = 0 <=> n = m
    BY <2>2
  <2>7. n = m => i - 1 = n
    BY <1>3, <2>1
  <2>8. n = m => \A j \in 1 .. n : c[<<s[j], t[j]>>] = 0
    BY <1>3, <2>7
  <2>9. Sign(d) \in (-1) .. 1 /\ Sign(-d) = -Sign(d) /\ (Sign(d) = 0 <=> d = 0)
    BY SignOf
  <2> QED
    BY <1>1, <2>3, <2>5, <2>6, <2>8, <2>9
<1> QED
  BY <1>2, <1>6, <1>7

(* Comparisons of sequences can be chained. *)
LEMMA LexChain ==
    ASSUME NEW S, NEW c, IsOrder(c, S), NEW s \in Seq(S), NEW t \in Seq(S), NEW u \in Seq(S),
           Lex(s, t, c) <= 0, Lex(t, u, c) <= 0
    PROVE  Lex(s, u, c) <= 0
<1>1. PICK n \in Nat, m \in Nat, l \in Nat : n = Len(s) /\ m = Len(t) /\ l = Len(u)
  OBVIOUS
<1>2. PICK i : Alike(s, t, c, i) /\ (Differ(s, t, c, i) \/ OneEnds(s, t, i))
  BY PlaceIs
<1>3. PICK k : Alike(t, u, c, k) /\ (Differ(t, u, c, k) \/ OneEnds(t, u, k))
  BY PlaceIs
<1>4. i \in Nat \ {0} /\ i - 1 <= n /\ i - 1 <= m /\ \A j \in 1 .. (i - 1) : c[<<s[j], t[j]>>] = 0
  BY <1>1, <1>2 DEF Alike
<1>5. k \in Nat \ {0} /\ k - 1 <= m /\ k - 1 <= l /\ \A j \in 1 .. (k - 1) : c[<<t[j], u[j]>>] = 0
  BY <1>1, <1>3 DEF Alike
<1>6. Differ(s, t, c, i) => i <= n /\ i <= m /\ c[<<s[i], t[i]>>] <= 0 /\ c[<<s[i], t[i]>>] # 0
  <2>1. Differ(s, t, c, i) => Lex(s, t, c) = Place(s, t, c, i)
    BY <1>2, PlaceDecides, Zenon
  <2> QED
    BY <1>1, <2>1 DEF Differ, Place
<1>7. OneEnds(s, t, i) => i = n + 1 /\ n <= m
  <2>1. OneEnds(s, t, i) => Lex(s, t, c) = Sign(n - m)
    BY <1>1, <1>2, PlaceDecides
  <2>2. Sign(n - m) <= 0 <=> n - m <= 0
    BY SignOf, n - m \in Int
  <2>3. OneEnds(s, t, i) => n <= m /\ (i = n + 1 \/ i = m + 1)
    BY <1>1, <2>1, <2>2 DEF OneEnds
  <2> QED
    BY <1>4, <2>3
<1>8. Differ(t, u, c, k) => k <= m /\ k <= l /\ c[<<t[k], u[k]>>] <= 0 /\ c[<<t[k], u[k]>>] # 0
  <2>1. Differ(t, u, c, k) => Lex(t, u, c) = Place(t, u, c, k)
    BY <1>3, PlaceDecides, Zenon
  <2> QED
    BY <1>1, <2>1 DEF Differ, Place
<1>9. OneEnds(t, u, k) => k = m + 1 /\ m <= l
  <2>1. OneEnds(t, u, k) => Lex(t, u, c) = Sign(m - l)
    BY <1>1, <1>3, PlaceDecides
  <2>2. Sign(m - l) <= 0 <=> m - l <= 0
    BY SignOf, m - l \in Int
  <2>3. OneEnds(t, u, k) => m <= l /\ (k = m + 1 \/ k = l + 1)
    BY <1>1, <2>1, <2>2 DEF OneEnds
  <2> QED
    BY <1>5, <2>3
<1>10. PICK a \in Nat \ {0} : a <= i /\ a <= k /\ (a = i \/ a = k)
  BY <1>4, <1>5
<1>11. ASSUME NEW j \in Nat \ {0}, j <= n, j <= m, j <= l, c[<<s[j], t[j]>>] <= 0, c[<<t[j], u[j]>>] <= 0
       PROVE  /\ c[<<s[j], u[j]>>] <= 0
              /\ c[<<s[j], u[j]>>] = 0 <=> c[<<s[j], t[j]>>] = 0 /\ c[<<t[j], u[j]>>] = 0
  <2>1. s[j] \in S /\ t[j] \in S /\ u[j] \in S
    BY <1>1, <1>11
  <2> QED
    BY <1>11, <2>1, OrderChain
<1>12. Alike(s, u, c, a)
  <2>1. a - 1 <= n /\ a - 1 <= l
    BY <1>4, <1>5, <1>10
  <2>2. ASSUME NEW j \in 1 .. (a - 1) PROVE c[<<s[j], u[j]>>] = 0
    <3>1. j \in 1 .. (i - 1) /\ j \in 1 .. (k - 1) /\ j \in Nat \ {0} /\ j <= n /\ j <= m /\ j <= l
      BY <1>4, <1>5, <1>10
    <3>2. c[<<s[j], t[j]>>] = 0 /\ c[<<t[j], u[j]>>] = 0
      BY <1>4, <1>5, <3>1
    <3> QED
      BY <1>11, <3>1, <3>2
  <2> QED
    BY <1>1, <1>10, <2>1, <2>2 DEF Alike
<1>13. CASE a <= n /\ a <= l
  <2>1. a <= m
    <3>1. CASE a = i
      BY <1>2, <1>6, <1>7, <1>13, <3>1
    <3>2. CASE a = k
      BY <1>3, <1>4, <1>5, <1>8, <1>9, <1>2, <1>6, <1>7, <1>10, <1>13, <3>2
    <3> QED
      BY <1>10, <3>1, <3>2
  <2>2. c[<<s[a], t[a]>>] <= 0 /\ (a = i => c[<<s[a], t[a]>>] # 0)
    <3>1. CASE a = i
      BY <1>2, <1>6, <1>7, <1>13, <3>1
    <3>2. CASE a # i
      <4>1. a \in 1 .. (i - 1)
        BY <1>4, <1>10, <3>2
      <4> QED
        BY <1>4, <3>2, <4>1
    <3> QED
      BY <3>1, <3>2
  <2>3. c[<<t[a], u[a]>>] <= 0 /\ (a = k => c[<<t[a], u[a]>>] # 0)
    <3>1. CASE a = k
      BY <1>3, <1>8, <1>9, <2>1, <3>1
    <3>2. CASE a # k
      <4>1. a \in 1 .. (k - 1)
        BY <1>5, <1>10, <3>2
      <4> QED
        BY <1>5, <3>2, <4>1
    <3> QED
      BY <3>1, <3>2
  <2>4. c[<<s[a], u[a]>>] <= 0 /\ c[<<s[a], u[a]>>] # 0
    BY <1>10, <1>11, <1>13, <2>1, <2>2, <2>3
  <2>5. Differ(s, u, c, a)
    BY <1>1, <1>13, <2>4 DEF Differ
  <2> QED
    <3>1. Lex(s, u, c) = Place(s, u, c, a)
      BY <1>12, <2>5, PlaceDecides, Zenon
    <3> QED
      BY <2>4, <3>1 DEF Place
<1>14. CASE ~(a <= n /\ a <= l)
  <2>1. a = n + 1 \/ a = l + 1
    BY <1>4, <1>5, <1>10, <1>14
  <2>2. n <= l
    <3> SUFFICES ASSUME l < n PROVE FALSE
      OBVIOUS
    <3>1. a = l + 1
      BY <1>4, <1>5, <1>10, <2>1
    <3>2. a = k
      BY <1>2, <1>5, <1>6, <1>7, <1>10, <3>1
    <3>3. m <= l /\ k = m + 1
      BY <1>3, <1>8, <1>9, <3>1, <3>2
    <3>4. ~Differ(s, t, c, i)
      BY <1>4, <1>6, <1>10, <3>1, <3>2, <3>3
    <3> QED
      BY <1>2, <1>7, <3>3, <3>4
  <2>3. OneEnds(s, u, a)
    BY <1>1, <2>1 DEF OneEnds
  <2>4. Lex(s, u, c) = Sign(n - l)
    BY <1>1, <1>12, <2>3, PlaceDecides
  <2>5. Sign(n - l) <= 0 <=> n - l <= 0
    BY SignOf, n - l \in Int
  <2> QED
    BY <2>2, <2>4, <2>5
<1> QED
  BY <1>13, <1>14

-----------------------------------------------------------------------------
(* The order of floats and decimals *)

(* The range of eight bytes has a half, the bit of the sign. *)
LEMMA SignBitFacts == SignBit \in Nat \ {0} /\ Power(Base)[8] = 2 * SignBit
<1>1. PICK p \in Nat \ {0} : Base = 2 * p
  BY EvenBase
<1>2. PICK q \in Nat \ {0} : q = Power(Base)[7]
  BY BaseFacts
<1>3. PICK seven \in Nat : seven = 7
  OBVIOUS
<1>4. Power(Base)[seven + 1] = Base * Power(Base)[seven]
  BY BaseFacts, PowerStep
<1>5. PICK x : x = p * q /\ x \in Nat \ {0}
  BY PositiveProduct
<1>6. (2 * p) * q = 2 * x
  BY <1>5
<1>7. Power(Base)[8] = 2 * x
  BY <1>1, <1>2, <1>3, <1>4, <1>6
<1>8. (2 * x) \div 2 = x
  BY <1>5
<1> QED
  BY <1>5, <1>7, <1>8 DEF SignBit

(* A number for each float, NaN above all the others. *)
FloatRank(f) == IF is_nan(f) THEN INF_MAGNITUDE + 1 ELSE Number(f)

(* Floats are ordered by their ranks, and equal ones hash alike. *)
LEMMA FloatOrder ==
    ASSUME NEW f \in 0 .. (Power(Base)[8] - 1), NEW g \in 0 .. (Power(Base)[8] - 1)
    PROVE  /\ FloatRank(f) \in Int /\ FloatRank(g) \in Int
           /\ float_cmp(f, g) = Sign(FloatRank(f) - FloatRank(g))
           /\ float_eq(f, g) <=> FloatRank(f) = FloatRank(g)
           /\ FloatRank(f) = FloatRank(g) => float_hash(f) = float_hash(g)
<1>1. PICK half \in Nat \ {0} : half = SignBit /\ Power(Base)[8] = 2 * half
  BY SignBitFacts
<1>2. f \in Nat /\ g \in Nat /\ f < 2 * half /\ g < 2 * half
  BY <1>1
<1>3. PICK inf \in Nat : inf = INF_MAGNITUDE
  BY BitsAssumption
<1>4. PICK a \in Nat, b \in Nat : a = Magnitude(f) /\ b = Magnitude(g)
          /\ a = (IF f < half THEN f ELSE f - half) /\ b = (IF g < half THEN g ELSE g - half)
  <2>1. f % half = IF f < 0 THEN f + half ELSE IF f < half THEN f ELSE f - half
    <3>1. f \in Int /\ -half <= f /\ f < 2 * half
      BY <1>2
    <3> QED
      BY <3>1, SmallRemainder
  <2>2. g % half = IF g < 0 THEN g + half ELSE IF g < half THEN g ELSE g - half
    <3>1. g \in Int /\ -half <= g /\ g < 2 * half
      BY <1>2
    <3> QED
      BY <3>1, SmallRemainder
  <2>3. f % half = (IF f < half THEN f ELSE f - half) /\ g % half = (IF g < half THEN g ELSE g - half)
    BY <1>2, <2>1, <2>2
  <2>4. Magnitude(f) = f % half /\ Magnitude(g) = g % half
    BY <1>1 DEF Magnitude
  <2> QED
    BY <1>2, <2>3, <2>4
<1>5. PICK x \in Int, y \in Int : x = Number(f) /\ y = Number(g)
          /\ x = (IF f >= half THEN -a ELSE a) /\ y = (IF g >= half THEN -b ELSE b)
  BY <1>1, <1>4 DEF Number
<1>6. (is_nan(f) <=> a > inf) /\ (is_nan(g) <=> b > inf)
  BY <1>3, <1>4 DEF is_nan
<1>7. /\ FloatRank(f) = IF a > inf THEN inf + 1 ELSE x
      /\ FloatRank(g) = IF b > inf THEN inf + 1 ELSE y
  BY <1>3, <1>5, <1>6 DEF FloatRank
<1>8. ~(a > inf) => x <= inf
  BY <1>5
<1>9. ~(b > inf) => y <= inf
  BY <1>5
<1>10. float_cmp(f, g) = Sign(FloatRank(f) - FloatRank(g))
  <2>1. CASE a > inf /\ b > inf
    BY <1>6, <1>7, <2>1 DEF float_cmp, Sign
  <2>2. CASE a > inf /\ ~(b > inf)
    BY <1>6, <1>7, <1>9, <2>2 DEF float_cmp, Sign
  <2>3. CASE ~(a > inf) /\ b > inf
    BY <1>6, <1>7, <1>8, <2>3 DEF float_cmp, Sign
  <2>4. CASE ~(a > inf) /\ ~(b > inf)
    BY <1>5, <1>6, <1>7, <2>4 DEF float_cmp
  <2> QED
    BY <2>1, <2>2, <2>3, <2>4
<1>11. float_eq(f, g) <=> FloatRank(f) = FloatRank(g)
  BY <1>5, <1>6, <1>7, <1>8, <1>9 DEF float_eq
<1>12. FloatRank(f) = FloatRank(g) => float_hash(f) = float_hash(g)
  <2> SUFFICES ASSUME FloatRank(f) = FloatRank(g) PROVE float_hash(f) = float_hash(g)
    OBVIOUS
  <2>1. (IF a > inf THEN inf + 1 ELSE x) = (IF b > inf THEN inf + 1 ELSE y)
    BY <1>7
  <2>2. CASE a > inf
    <3>1. b > inf
      BY <1>9, <2>2, <2>1
    <3> QED
      BY <1>6, <2>2, <3>1 DEF float_hash
  <2>3. CASE ~(a > inf)
    <3>1. ~(b > inf) /\ x = y
      BY <1>8, <2>3, <2>1
    <3>2. x # 0 => f = g
      BY <1>2, <1>4, <1>5, <3>1
    <3> QED
      BY <1>5, <1>6, <2>3, <3>1, <3>2 DEF float_hash
  <2> QED
    BY <2>2, <2>3
<1> QED
  BY <1>3, <1>5, <1>7, <1>10, <1>11, <1>12

(* A positive factor keeps a sign. *)
LEMMA SignScaled ==
    ASSUME NEW x \in Int, NEW p \in Nat \ {0}
    PROVE  Sign(x * p) = Sign(x)
<1>1. (x > 0 => x * p > 0) /\ (x < 0 => x * p < 0) /\ (x = 0 => x * p = 0)
  OBVIOUS
<1> QED
  BY <1>1 DEF Sign

(* Two fractions compare as they do with their denominators made equal. *)
Crossed(m, k, a, b, d, e, p) ==
    a * d = p /\ b * e = p => Sign(m * b - k * a) = Sign(m * d - k * e)

(* So it is when the factors are not zero. *)
LEMMA CrossScaled ==
    ASSUME NEW m \in Int, NEW k \in Int, NEW a \in Nat \ {0}, NEW b \in Nat \ {0},
           NEW d \in Nat \ {0}, NEW e \in Nat \ {0}, NEW p \in Nat \ {0}
    PROVE  Crossed(m, k, a, b, d, e, p)
<1> SUFFICES ASSUME a * d = p, b * e = p PROVE Sign(m * b - k * a) = Sign(m * d - k * e)
  BY DEF Crossed
<1>1. PICK x \in Int, y \in Int : x = m * b - k * a /\ y = m * d - k * e
  OBVIOUS
<1>2. PICK r : r = d * e /\ r \in Nat \ {0}
  BY PositiveProduct
<1>3. (m * b) * (d * e) = (m * d) * (b * e)
  OBVIOUS
<1>4. (k * a) * (d * e) = (k * e) * (a * d)
  OBVIOUS
<1>5. x * r = (m * b) * r - (k * a) * r
  BY <1>1, <1>2
<1>6. y * p = (m * d) * p - (k * e) * p
  BY <1>1
<1>7. x * r = y * p
  BY <1>2, <1>3, <1>4, <1>5, <1>6
<1>8. Sign(x * r) = Sign(x) /\ Sign(y * p) = Sign(y)
  BY <1>2, SignScaled
<1> QED
  BY <1>1, <1>7, <1>8

(* A decimal at the largest scale. *)
Scaled(d) == d[1] * Power(10)[MAX_SCALE - d[2]]

(* Decimals are ordered as their mantissas at the largest scale. *)
LEMMA DecimalOrder ==
    ASSUME NEW m \in Int, NEW k \in Int, NEW i \in 0 .. MAX_SCALE, NEW j \in 0 .. MAX_SCALE
    PROVE  /\ Scaled(<<m, i>>) \in Int /\ Scaled(<<k, j>>) \in Int
           /\ decimal_cmp(<<m, i>>, <<k, j>>) = Sign(Scaled(<<m, i>>) - Scaled(<<k, j>>))
<1>1. PICK ten \in Nat \ {0} : ten = 10 /\ ten \in Int
  OBVIOUS
<1>2. i \in Nat /\ j \in Nat /\ MAX_SCALE \in Nat
  BY ScaleAssumption
<1>3. PICK x \in Nat, y \in Nat : x = MAX_SCALE - i /\ y = MAX_SCALE - j /\ i + x = MAX_SCALE /\ j + y = MAX_SCALE
  BY <1>2
<1>4. PICK a \in Nat \ {0}, b \in Nat \ {0} : a = Power(ten)[i] /\ b = Power(ten)[j]
  BY <1>2, PowerPositive
<1>5. PICK d \in Nat \ {0}, e \in Nat \ {0} : d = Power(ten)[x] /\ e = Power(ten)[y]
  BY PowerPositive
<1>6. PICK p \in Nat \ {0} : p = Power(ten)[MAX_SCALE]
  BY <1>2, PowerPositive
<1>7. a * d = p
  <2>1. Power(ten)[i + x] = Power(ten)[i] * Power(ten)[x]
    BY <1>1, <1>2, PowerAdd
  <2> QED
    BY <1>3, <1>4, <1>5, <1>6, <2>1, Zenon
<1>8. b * e = p
  <2>1. Power(ten)[j + y] = Power(ten)[j] * Power(ten)[y]
    BY <1>1, <1>2, PowerAdd
  <2> QED
    BY <1>3, <1>4, <1>5, <1>6, <2>1, Zenon
<1>9. Sign(m * b - k * a) = Sign(m * d - k * e)
  <2>1. Crossed(m, k, a, b, d, e, p)
    BY CrossScaled
  <2> QED
    BY <1>7, <1>8, <2>1, Zenon DEF Crossed
<1>10. Scaled(<<m, i>>) = m * d /\ Scaled(<<k, j>>) = k * e
  BY <1>1, <1>3, <1>5 DEF Scaled
<1>11. decimal_cmp(<<m, i>>, <<k, j>>) = Sign(m * b - k * a)
  BY <1>1, <1>4 DEF decimal_cmp
<1> QED
  BY <1>9, <1>10, <1>11

-----------------------------------------------------------------------------
(* The order of values and keys *)

IntOrder == [p \in Int \X Int |-> Sign(p[1] - p[2])]

(* Numbers are ordered by the signs of their differences. *)
LEMMA IntOrderIs ==
    IsOrder(IntOrder, Int) /\ \A x, y \in Int : IntOrder[<<x, y>>] = Sign(x - y)
<1>1. \A x, y \in Int : IntOrder[<<x, y>>] = Sign(x - y)
  BY DEF IntOrder
<1>2. ASSUME NEW x \in Int, NEW y \in Int
      PROVE  IntOrder[<<x, y>>] \in (-1) .. 1 /\ IntOrder[<<y, x>>] = -IntOrder[<<x, y>>]
  BY <1>1 DEF Sign
<1>3. ASSUME NEW x \in Int, NEW y \in Int, NEW z \in Int, IntOrder[<<x, y>>] <= 0, IntOrder[<<y, z>>] <= 0
      PROVE  IntOrder[<<x, z>>] <= 0
  BY <1>1, <1>3 DEF Sign
<1> QED
  BY <1>1, <1>2, <1>3 DEF IsOrder

(* Single numbers in order. *)
LEMMA SingleOrder ==
    ASSUME NEW a \in Int, NEW b \in Int
    PROVE  <<a>> \in Seq(Int) /\ <<b>> \in Seq(Int) /\ Lex(<<a>>, <<b>>, IntOrder) = Sign(a - b)
<1>1. PICK s, t : s = <<a>> /\ t = <<b>>
  OBVIOUS
<1>2. s \in Seq(Int) /\ t \in Seq(Int) /\ Len(s) = 1 /\ Len(t) = 1 /\ s[1] = a /\ t[1] = b
  BY <1>1
<1>3. PICK one \in Nat, two \in Nat : one = 1 /\ two = 2
  OBVIOUS
<1>4. IntOrder[<<a, b>>] = Sign(a - b) /\ a - b \in Int
  BY IntOrderIs
<1>5. CASE a = b
  <2>1. Sign(a - b) = 0
    BY <1>5 DEF Sign
  <2>2. \A j \in 1 .. (two - 1) : j = 1
    BY <1>3
  <2>3. \A j \in 1 .. (two - 1) : IntOrder[<<s[j], t[j]>>] = 0
    BY <1>2, <1>4, <2>1, <2>2
  <2>4. Alike(s, t, IntOrder, two) /\ OneEnds(s, t, two)
    BY <1>2, <1>3, <2>3 DEF Alike, OneEnds
  <2>5. Lex(s, t, IntOrder) = Sign(Len(s) - Len(t))
    BY <1>2, <2>4, PlaceDecides
  <2>6. Len(s) - Len(t) = 0 /\ Sign(0) = 0
    BY <1>2 DEF Sign
  <2> QED
    BY <1>1, <1>2, <2>1, <2>5, <2>6
<1>6. CASE a # b
  <2>1. Sign(a - b) # 0
    BY <1>4, <1>6, SignOf
  <2>2. Alike(s, t, IntOrder, one)
    BY <1>2, <1>3 DEF Alike
  <2>3. Differ(s, t, IntOrder, one)
    BY <1>2, <1>3, <1>4, <2>1 DEF Differ
  <2>4. Lex(s, t, IntOrder) = Place(s, t, IntOrder, one)
    BY <1>2, <2>2, <2>3, PlaceDecides
  <2> QED
    BY <1>1, <1>2, <1>3, <1>4, <2>4 DEF Place
<1> QED
  BY <1>5, <1>6

(* What of a value is compared, as numbers. *)
Content(v) ==
    CASE v.variant = "Float"   -> <<FloatRank(v.data[1])>>
      [] v.variant = "Decimal" -> <<Scaled(v.data)>>
      [] OTHER -> v.data

(* The data of the other variants are numbers. *)
LEMMA PlainData ==
    ASSUME NEW v, IsDataValue(v), v.variant # "Float", v.variant # "Decimal"
    PROVE  v.data \in Seq(Int) /\ Content(v) = v.data
<1>1. PICK name, data : name = v.variant /\ data = v.data
  OBVIOUS
<1>2. Holds(name, data)
  BY <1>1 DEF IsDataValue
<1>3. PICK i \in 1 .. 9 : name = Variants[i]
  BY <1>1 DEF IsDataValue, Variants
<1>4. name \in {"Null", "Int", "BigInt", "Boolean", "Text", "Blob", "DateTime"}
  BY <1>1, <1>3 DEF Variants
<1>5. CASE name = "Null"
  BY <1>1, <1>2, <1>5, EmptySeq DEF Holds, Content
<1>6. CASE name = "Int"
  <2>1. PICK n \in Int : data = <<n>>
    BY <1>2, <1>6 DEF Holds, Signed
  <2> QED
    BY <1>1, <1>6, <2>1 DEF Content
<1>7. CASE name = "Boolean"
  <2>1. PICK n \in Int : data = <<n>>
    BY <1>2, <1>7 DEF Holds
  <2> QED
    BY <1>1, <1>7, <2>1 DEF Content
<1>8. CASE name \in {"Text", "Blob"}
  <2>1. data \in Seq(Byte)
    BY <1>2, <1>8 DEF Holds, Byte
  <2>2. Byte \subseteq Int
    BY BaseFacts DEF Byte
  <2>3. data \in Seq(Int)
    <3>1. PICK n \in Nat : data \in [1 .. n -> Byte]
      BY <2>1
    <3>2. data \in [1 .. n -> Int]
      BY <2>2, <3>1
    <3> QED
      BY <3>2, FunctionSequence
  <2> QED
    BY <1>1, <1>8, <2>3 DEF Content
<1>9. CASE name \in {"BigInt", "DateTime"}
  <2>1. PICK n \in Int : data = <<n>>
    BY <1>2, <1>9 DEF Holds, Signed
  <2> QED
    BY <1>1, <1>9, <2>1 DEF Content
<1> QED
  BY <1>4, <1>5, <1>6, <1>7, <1>8, <1>9

(* Values of one variant compare by their contents, are equal when those   *)
(* are, and hash alike then.                                               *)
ContentDecides(v, w) ==
    /\ Content(v) \in Seq(Int) /\ Content(w) \in Seq(Int)
    /\ value_cmp(v, w) = Lex(Content(v), Content(w), IntOrder)
    /\ value_eq(v, w) <=> Lex(Content(v), Content(w), IntOrder) = 0
    /\ value_eq(v, w) => value_hash(v) = value_hash(w)

(* Values of one variant are ordered by their content. *)
LEMMA ContentOrder ==
    ASSUME NEW v, NEW w, IsDataValue(v), IsDataValue(w), v.variant = w.variant
    PROVE  ContentDecides(v, w)
<1>1. PICK name, data, other : name = v.variant /\ name = w.variant /\ data = v.data /\ other = w.data
  OBVIOUS
<1>2. Holds(name, data) /\ Holds(name, other)
  BY <1>1 DEF IsDataValue
<1>3. PICK rank : rank = Rank(v) /\ rank = Rank(w)
  BY DEF Rank
<1>4. CASE name = "Float"
  <2>1. PICK f \in 0 .. (Power(Base)[8] - 1) : data = <<f>>
    BY <1>2, <1>4 DEF Holds
  <2>2. PICK g \in 0 .. (Power(Base)[8] - 1) : other = <<g>>
    BY <1>2, <1>4 DEF Holds
  <2>3. PICK x \in Int, y \in Int : x = FloatRank(f) /\ y = FloatRank(g)
    BY FloatOrder
  <2>4. Content(v) = <<x>> /\ Content(w) = <<y>>
    BY <1>1, <1>4, <2>1, <2>2, <2>3 DEF Content
  <2>5. value_cmp(v, w) = float_cmp(f, g) /\ (value_eq(v, w) <=> float_eq(f, g))
    BY <1>1, <1>4, <2>1, <2>2 DEF value_cmp, value_eq
  <2>6. value_hash(v) = <<rank, float_hash(f)>> /\ value_hash(w) = <<rank, float_hash(g)>>
    BY <1>1, <1>3, <1>4, <2>1, <2>2 DEF value_hash
  <2>7. Lex(<<x>>, <<y>>, IntOrder) = Sign(x - y) /\ <<x>> \in Seq(Int) /\ <<y>> \in Seq(Int)
    BY SingleOrder
  <2>8. float_cmp(f, g) = Sign(x - y) /\ (float_eq(f, g) <=> x = y) /\ (x = y => float_hash(f) = float_hash(g))
    BY <2>3, FloatOrder
  <2>9. Sign(x - y) = 0 <=> x = y
    BY DEF Sign
  <2> QED
    BY <2>4, <2>5, <2>6, <2>7, <2>8, <2>9 DEF ContentDecides
<1>5. CASE name = "Decimal"
  <2>1. PICK m \in Int, i \in 0 .. MAX_SCALE : data = <<m, i>>
    BY <1>2, <1>5 DEF Holds
  <2>2. PICK k \in Int, j \in 0 .. MAX_SCALE : other = <<k, j>>
    BY <1>2, <1>5 DEF Holds
  <2>3. PICK x \in Int, y \in Int : x = Scaled(data) /\ y = Scaled(other)
    BY <2>1, <2>2, DecimalOrder
  <2>4. Content(v) = <<x>> /\ Content(w) = <<y>>
    BY <1>1, <1>5, <2>3 DEF Content
  <2>5. value_cmp(v, w) = decimal_cmp(data, other) /\ (value_eq(v, w) <=> decimal_cmp(data, other) = 0)
    BY <1>1, <1>5 DEF value_cmp, value_eq
  <2>6. value_hash(v) = <<rank, x>> /\ value_hash(w) = <<rank, y>>
    BY <1>1, <1>3, <1>5, <2>3 DEF value_hash, Scaled
  <2>7. Lex(<<x>>, <<y>>, IntOrder) = Sign(x - y) /\ <<x>> \in Seq(Int) /\ <<y>> \in Seq(Int)
    BY SingleOrder
  <2>8. decimal_cmp(data, other) = Sign(x - y)
    BY <2>1, <2>2, <2>3, DecimalOrder
  <2>9. Sign(x - y) = 0 <=> x = y
    BY DEF Sign
  <2> QED
    BY <2>4, <2>5, <2>6, <2>7, <2>8, <2>9 DEF ContentDecides
<1>6. CASE name # "Float" /\ name # "Decimal"
  <2>1. data \in Seq(Int) /\ other \in Seq(Int) /\ Content(v) = data /\ Content(w) = other
    BY <1>1, <1>6, PlainData
  <2>2. value_eq(v, w) <=> data = other
    BY <1>1, <1>6 DEF value_eq
  <2>3. value_hash(v) = <<rank>> \o data /\ value_hash(w) = <<rank>> \o other
    BY <1>1, <1>3, <1>6 DEF value_hash
  <2>4. PICK signs : signs = [i \in DOMAIN data \cap DOMAIN other |-> Sign(data[i] - other[i])]
    OBVIOUS
  <2>5. value_cmp(v, w) = Lexicographic(data, other, signs)
    BY <1>1, <1>6, <2>4 DEF value_cmp
  <2>6. \A i \in DOMAIN data \cap DOMAIN other :
            data[i] \in Int /\ other[i] \in Int /\ IntOrder[<<data[i], other[i]>>] = Sign(data[i] - other[i])
    BY <2>1, IntOrderIs
  <2>7. signs = [i \in DOMAIN data \cap DOMAIN other |-> IntOrder[<<data[i], other[i]>>]]
    BY <2>4, <2>6
  <2>8. value_cmp(v, w) = Lex(data, other, IntOrder)
    BY <2>5, <2>7 DEF Lex
  <2>9. Lex(data, other, IntOrder) = 0 <=>
            Len(data) = Len(other) /\ \A j \in 1 .. Len(data) : IntOrder[<<data[j], other[j]>>] = 0
    BY <2>1, IntOrderIs, LexSigns
  <2>10. Lex(data, other, IntOrder) = 0 => data = other
    <3> SUFFICES ASSUME Lex(data, other, IntOrder) = 0 PROVE data = other
      OBVIOUS
    <3>1. Len(data) = Len(other) /\ \A j \in 1 .. Len(data) : IntOrder[<<data[j], other[j]>>] = 0
      BY <2>9
    <3>2. ASSUME NEW j \in 1 .. Len(data) PROVE data[j] = other[j]
      <4>1. PICK x \in Int, y \in Int : x = data[j] /\ y = other[j]
        BY <2>1, <3>1
      <4>2. Sign(x - y) = 0
        BY <3>1, <4>1, IntOrderIs
      <4> QED
        BY <4>1, <4>2 DEF Sign
    <3> QED
      BY <2>1, <3>1, <3>2, SameSequence
  <2>11. data = other => Lex(data, other, IntOrder) = 0
    <3> SUFFICES ASSUME data = other PROVE Lex(data, other, IntOrder) = 0
      OBVIOUS
    <3>1. ASSUME NEW j \in 1 .. Len(data) PROVE IntOrder[<<data[j], other[j]>>] = 0
      <4>1. PICK x \in Int : x = data[j] /\ x = other[j]
        BY <2>1
      <4>2. IntOrder[<<x, x>>] = Sign(x - x) /\ Sign(x - x) = 0
        BY IntOrderIs DEF Sign
      <4> QED
        BY <4>1, <4>2
    <3> QED
      BY <2>9, <3>1
  <2> QED
    BY <2>1, <2>2, <2>3, <2>8, <2>10, <2>11 DEF ContentDecides
<1> QED
  BY <1>4, <1>5, <1>6

(* Variants have different ranks. *)
LEMMA RankOf ==
    ASSUME NEW v, IsDataValue(v)
    PROVE  Rank(v) \in 1 .. 9 /\ Variants[Rank(v)] = v.variant
<1>1. DOMAIN Variants = 1 .. 9
  BY DEF Variants
<1>2. PICK i \in 1 .. 9 : Variants[i] = v.variant
  BY <1>1 DEF IsDataValue
<1>3. Rank(v) \in DOMAIN Variants /\ Variants[Rank(v)] = v.variant
  BY <1>1, <1>2 DEF Rank
<1> QED
  BY <1>1, <1>3

(* Values of two variants compare by rank. *)
LEMMA RankOrder ==
    ASSUME NEW v, NEW w, IsDataValue(v), IsDataValue(w), v.variant # w.variant
    PROVE  Rank(v) # Rank(w) /\ value_cmp(v, w) = Sign(Rank(v) - Rank(w)) /\ ~value_eq(v, w)
<1>1. Rank(v) # Rank(w)
  BY RankOf
<1> QED
  BY <1>1 DEF value_cmp, value_eq

ValueOrder == [p \in Values \X Values |-> value_cmp(p[1], p[2])]

(* Any two values compare, and are equal when the comparison says so. *)
LEMMA ValuesCompare ==
    ASSUME NEW v \in Values, NEW w \in Values
    PROVE  /\ ValueOrder[<<v, w>>] = value_cmp(v, w)
           /\ value_cmp(v, w) \in (-1) .. 1 /\ value_cmp(w, v) = -value_cmp(v, w)
           /\ value_eq(v, w) <=> value_cmp(v, w) = 0
           /\ value_eq(v, w) => value_hash(v) = value_hash(w)
<1>1. IsDataValue(v) /\ IsDataValue(w)
  BY InputsAssumption
<1>2. ValueOrder[<<v, w>>] = value_cmp(v, w)
  BY DEF ValueOrder
<1>3. CASE v.variant = w.variant
  <2>1. PICK s \in Seq(Int), t \in Seq(Int) : s = Content(v) /\ t = Content(w)
    BY <1>1, <1>3, ContentOrder DEF ContentDecides
  <2>2. /\ value_cmp(v, w) = Lex(s, t, IntOrder)
        /\ value_eq(v, w) <=> Lex(s, t, IntOrder) = 0
        /\ value_eq(v, w) => value_hash(v) = value_hash(w)
    BY <1>1, <1>3, <2>1, ContentOrder DEF ContentDecides
  <2>3. value_cmp(w, v) = Lex(t, s, IntOrder)
    BY <1>1, <1>3, <2>1, ContentOrder DEF ContentDecides
  <2>4. Lex(s, t, IntOrder) \in (-1) .. 1 /\ Lex(t, s, IntOrder) = -Lex(s, t, IntOrder)
    BY IntOrderIs, LexSigns
  <2> QED
    BY <1>2, <2>2, <2>3, <2>4
<1>4. CASE v.variant # w.variant
  <2>1. PICK x \in Int, y \in Int : x = Rank(v) /\ y = Rank(w)
    BY <1>1, RankOf
  <2>2. x # y /\ value_cmp(v, w) = Sign(x - y) /\ ~value_eq(v, w)
    BY <1>1, <1>4, <2>1, RankOrder
  <2>3. value_cmp(w, v) = Sign(y - x)
    BY <1>1, <1>4, <2>1, RankOrder
  <2>4. Sign(x - y) \in (-1) .. 1 /\ Sign(y - x) = -Sign(x - y) /\ Sign(x - y) # 0
    BY <2>2 DEF Sign
  <2> QED
    BY <1>2, <2>2, <2>3, <2>4
<1> QED
  BY <1>3, <1>4

(* Comparisons of values can be chained. *)
LEMMA ValuesChain ==
    ASSUME NEW v \in Values, NEW w \in Values, NEW x \in Values, value_cmp(v, w) <= 0, value_cmp(w, x) <= 0
    PROVE  value_cmp(v, x) <= 0
<1>1. IsDataValue(v) /\ IsDataValue(w) /\ IsDataValue(x)
  BY InputsAssumption
<1>2. PICK a \in Int, b \in Int, c \in Int : a = Rank(v) /\ b = Rank(w) /\ c = Rank(x)
  BY <1>1, RankOf
<1>3. v.variant # w.variant => a < b
  <2> SUFFICES ASSUME v.variant # w.variant PROVE a < b
    OBVIOUS
  <2>1. a # b /\ Sign(a - b) <= 0
    BY <1>1, <1>2, RankOrder
  <2> QED
    BY <2>1 DEF Sign
<1>4. w.variant # x.variant => b < c
  <2> SUFFICES ASSUME w.variant # x.variant PROVE b < c
    OBVIOUS
  <2>1. b # c /\ Sign(b - c) <= 0
    BY <1>1, <1>2, RankOrder
  <2> QED
    BY <2>1 DEF Sign
<1>5. (v.variant = w.variant => a = b) /\ (w.variant = x.variant => b = c)
  BY <1>2 DEF Rank
<1>6. CASE v.variant = w.variant /\ w.variant = x.variant
  <2>1. PICK s \in Seq(Int), t \in Seq(Int), u \in Seq(Int) : s = Content(v) /\ t = Content(w) /\ u = Content(x)
    BY <1>1, <1>6, ContentOrder DEF ContentDecides
  <2>2. value_cmp(v, w) = Lex(s, t, IntOrder)
    BY <1>1, <1>6, <2>1, ContentOrder DEF ContentDecides
  <2>3. value_cmp(w, x) = Lex(t, u, IntOrder)
    BY <1>1, <1>6, <2>1, ContentOrder DEF ContentDecides
  <2>4. value_cmp(v, x) = Lex(s, u, IntOrder)
    BY <1>1, <1>6, <2>1, ContentOrder DEF ContentDecides
  <2>5. Lex(s, u, IntOrder) <= 0
    BY <2>2, <2>3, IntOrderIs, LexChain
  <2> QED
    BY <2>4, <2>5
<1>7. CASE ~(v.variant = w.variant /\ w.variant = x.variant)
  <2>1. a < c
    BY <1>3, <1>4, <1>5, <1>7
  <2>2. v.variant # x.variant
    <3>1. v.variant = x.variant => a = c
      BY <1>2 DEF Rank
    <3> QED
      BY <2>1, <3>1
  <2>3. value_cmp(v, x) = Sign(a - c)
    BY <1>1, <1>2, <2>2, RankOrder
  <2> QED
    BY <2>1, <2>3 DEF Sign
<1> QED
  BY <1>6, <1>7

(* The values are ordered. *)
LEMMA ValueOrderIs == IsOrder(ValueOrder, Values)
<1>1. ASSUME NEW v \in Values, NEW w \in Values
      PROVE  ValueOrder[<<v, w>>] \in (-1) .. 1 /\ ValueOrder[<<w, v>>] = -ValueOrder[<<v, w>>]
  BY ValuesCompare
<1>2. ASSUME NEW v \in Values, NEW w \in Values, NEW x \in Values,
             ValueOrder[<<v, w>>] <= 0, ValueOrder[<<w, x>>] <= 0
      PROVE  ValueOrder[<<v, x>>] <= 0
  <2>1. value_cmp(v, w) <= 0 /\ value_cmp(w, x) <= 0
    BY <1>2, ValuesCompare
  <2>2. value_cmp(v, x) <= 0
    BY <2>1, ValuesChain
  <2> QED
    BY <2>2, ValuesCompare
<1> QED
  BY <1>1, <1>2 DEF IsOrder

(* What the search does with two keys: they compare in one of three ways,  *)
(* and equal keys hash alike.                                              *)
KeysCompare(k, l) ==
    /\ key_relation(k, l) = IF Lex(k, l, ValueOrder) = 0 THEN "equal"
                            ELSE IF Lex(k, l, ValueOrder) = 1 THEN "greater" ELSE "less"
    /\ Lex(k, l, ValueOrder) \in (-1) .. 1
    /\ Lex(l, k, ValueOrder) = -Lex(k, l, ValueOrder)
    /\ key_eq(k, l) => \A j \in DOMAIN k : value_hash(k[j]) = value_hash(l[j])

(* The comparisons of keys agree with the order of their values. *)
LEMMA KeyOrder ==
    ASSUME NEW k \in Seq(Values), NEW l \in Seq(Values)
    PROVE  KeysCompare(k, l)
<1>1. \A j \in Nat : 1 <= j /\ j <= Len(k) /\ j <= Len(l) =>
          /\ k[j] \in Values /\ l[j] \in Values
          /\ ValueOrder[<<k[j], l[j]>>] = value_cmp(k[j], l[j])
          /\ value_eq(k[j], l[j]) <=> ValueOrder[<<k[j], l[j]>>] = 0
          /\ value_eq(k[j], l[j]) => value_hash(k[j]) = value_hash(l[j])
  <2> SUFFICES ASSUME NEW j \in Nat, 1 <= j, j <= Len(k), j <= Len(l)
               PROVE  /\ k[j] \in Values /\ l[j] \in Values
                      /\ ValueOrder[<<k[j], l[j]>>] = value_cmp(k[j], l[j])
                      /\ value_eq(k[j], l[j]) <=> ValueOrder[<<k[j], l[j]>>] = 0
                      /\ value_eq(k[j], l[j]) => value_hash(k[j]) = value_hash(l[j])
    OBVIOUS
  <2>1. PICK x \in Values, y \in Values : x = k[j] /\ y = l[j]
    OBVIOUS
  <2> QED
    BY <2>1, ValuesCompare
<1>2. PICK cmp : cmp = [i \in DOMAIN k \cap DOMAIN l |-> value_cmp(k[i], l[i])]
  OBVIOUS
<1>3. DOMAIN k = 1 .. Len(k) /\ DOMAIN l = 1 .. Len(l) /\ Len(k) \in Nat /\ Len(l) \in Nat
  OBVIOUS
<1>4. cmp = [i \in DOMAIN k \cap DOMAIN l |-> ValueOrder[<<k[i], l[i]>>]]
  BY <1>1, <1>2, <1>3
<1>5. key_cmp(k, l) = Lex(k, l, ValueOrder)
  BY <1>2, <1>4 DEF key_cmp, Lex
<1>6. /\ Lex(k, l, ValueOrder) \in (-1) .. 1 /\ Lex(l, k, ValueOrder) = -Lex(k, l, ValueOrder)
      /\ Lex(k, l, ValueOrder) = 0 <=> Len(k) = Len(l) /\ \A j \in 1 .. Len(k) : ValueOrder[<<k[j], l[j]>>] = 0
  BY ValueOrderIs, LexSigns
<1>7. key_eq(k, l) <=> Lex(k, l, ValueOrder) = 0
  <2>1. Len(k) = Len(l) => \A j \in 1 .. Len(k) : value_eq(k[j], l[j]) <=> ValueOrder[<<k[j], l[j]>>] = 0
    BY <1>1, <1>3
  <2> QED
    BY <1>3, <1>6, <2>1 DEF key_eq
<1>8. key_eq(k, l) => \A j \in DOMAIN k : value_hash(k[j]) = value_hash(l[j])
  <2> SUFFICES ASSUME key_eq(k, l), NEW j \in DOMAIN k PROVE value_hash(k[j]) = value_hash(l[j])
    OBVIOUS
  <2>1. j \in Nat /\ 1 <= j /\ j <= Len(k) /\ Len(k) = Len(l) /\ value_eq(k[j], l[j])
    BY <1>3 DEF key_eq
  <2> QED
    BY <1>1, <2>1
<1>9. PICK x \in (-1) .. 1 : x = Lex(k, l, ValueOrder)
  BY <1>6
<1>10. key_relation(k, l) = IF x = 0 THEN "equal" ELSE IF x = 1 THEN "greater" ELSE "less"
  BY <1>5, <1>7, <1>9 DEF key_relation
<1> QED
  BY <1>6, <1>8, <1>9, <1>10 DEF KeysCompare

-----------------------------------------------------------------------------
(* Tables and their keys *)

(* The columns of a key. *)
IsKey(names) ==
    /\ names \in Seq(STRING)
    /\ \A i, j \in 1 .. Len(names) : names[i] = names[j] => i = j

(* The definition of a table: its columns have types, and names of their   *)
(* own; a column is in a primary key once.                                 *)
IsTable(t) ==
    /\ t = [table_id |-> t.table_id, name |-> t.name, columns |-> t.columns, constraints |-> t.constraints]
    /\ \E S : t.columns \in Seq(S)
    /\ \A i \in 1 .. Len(t.columns) : IsType(t.columns[i].data_type)
    /\ \A i, j \in 1 .. Len(t.columns) : t.columns[i].name = t.columns[j].name => i = j
    /\ \E S : t.constraints \in Seq(S)
    /\ \A i \in 1 .. Len(t.constraints) :
          t.constraints[i].kind = "PrimaryKey" => IsKey(t.constraints[i].column_names)

KeyOf(t) == get_primary_key(t)[1].column_names

(* A table with a primary key has its first one. *)
LEMMA PrimaryKeyIs ==
    ASSUME NEW t, IsTable(t), get_primary_key(t) # <<>>
    PROVE  /\ IsKey(KeyOf(t)) /\ col_names(get_primary_key(t)[1]) = KeyOf(t)
           /\ PrimaryKeys(t) \in SUBSET Nat /\ PrimaryKeys(t) # {}
           /\ get_primary_key(t) = <<t.constraints[Min(PrimaryKeys(t))]>>
<1>1. PICK keys : keys = PrimaryKeys(t)
  OBVIOUS
<1>2. PICK S : t.constraints \in Seq(S)
  BY DEF IsTable
<1>3. DOMAIN t.constraints = 1 .. Len(t.constraints) /\ Len(t.constraints) \in Nat
  BY <1>2
<1>4. \A i : i \in keys <=> i \in 1 .. Len(t.constraints) /\ t.constraints[i].kind = "PrimaryKey"
  BY <1>1, <1>3 DEF PrimaryKeys
<1>5. keys # {} /\ get_primary_key(t) = <<t.constraints[Min(keys)]>>
  BY <1>1 DEF get_primary_key, Find
<1>6. keys \in SUBSET Nat
  BY <1>3, <1>4
<1>7. Min(keys) \in keys
  BY <1>5, <1>6, MinProperties
<1>8. PICK i \in 1 .. Len(t.constraints) : i = Min(keys) /\ t.constraints[i].kind = "PrimaryKey"
  BY <1>4, <1>7
<1>9. get_primary_key(t)[1] = t.constraints[i]
  BY <1>5, <1>8
<1>10. IsKey(t.constraints[i].column_names)
  BY <1>8 DEF IsTable
<1>11. col_names(t.constraints[i]) = t.constraints[i].column_names
  BY <1>8 DEF col_names
<1> QED
  BY <1>1, <1>5, <1>6, <1>9, <1>10, <1>11 DEF KeyOf

(* What making a key can return. *)
KeyResults == {Err("Panic")} \cup {Ok(s) : s \in Seq(Values)}

(* Such a result has an error or a sequence of values. *)
LEMMA KeyResult ==
    ASSUME NEW key \in KeyResults
    PROVE  /\ key.made \in Seq(Values) /\ key.err \in {"None", "Panic"}
           /\ key.err = "None" => key = Ok(key.made)
<1>1. CASE key = Err("Panic")
  <2>1. key.made = <<>> /\ key.err = "Panic"
    BY <1>1 DEF Err
  <2> QED
    BY <2>1, EmptySeq
<1>2. CASE key # Err("Panic")
  <2>1. PICK s \in Seq(Values) : key = Ok(s)
    BY <1>2 DEF KeyResults
  <2>2. key.made = s /\ key.err = "None"
    BY <2>1 DEF Ok
  <2> QED
    BY <2>1, <2>2
<1> QED
  BY <1>1, <1>2

(* One more value in a key. *)
LEMMA WithKeyValueIs ==
    ASSUME NEW key \in KeyResults, NEW index \in Nat, NEW value \in Values
    PROVE  /\ WithKeyValue(key, index, value) \in KeyResults
           /\ WithKeyValue(key, index, value).err = "None" => key.err = "None" /\ index <= Len(key.made)
           /\ key.err = "None" /\ index <= Len(key.made) =>
                  WithKeyValue(key, index, value) = Ok(InsertAt(key.made, index + 1, value))
<1>1. PICK s \in Seq(Values) : s = key.made
  BY KeyResult
<1>2. CASE key.err # "None" \/ index > Len(s)
  <2>1. WithKeyValue(key, index, value) = Err("Panic")
    BY <1>1, <1>2 DEF WithKeyValue
  <2>2. Err("Panic").err = "Panic" /\ Err("Panic") \in KeyResults
    BY DEF Err, KeyResults
  <2>3. ~(key.err = "None" /\ index <= Len(s))
    BY <1>2
  <2> QED
    BY <1>1, <2>1, <2>2, <2>3
<1>3. CASE ~(key.err # "None" \/ index > Len(s))
  <2>1. WithKeyValue(key, index, value) = Ok(InsertAt(s, index + 1, value))
    BY <1>1, <1>3 DEF WithKeyValue
  <2>2. index \in 0 .. Len(s)
    BY <1>3
  <2>3. InsertAt(s, index + 1, value) \in Seq(Values)
    BY <2>2, InsertAtType
  <2>4. key.err = "None" /\ index <= Len(s)
    BY <1>3
  <2> QED
    BY <1>1, <2>1, <2>3, <2>4 DEF KeyResults
<1> QED
  BY <1>2, <1>3

(* The place of a name in a key. *)
LEMMA KeyIndexIs ==
    ASSUME NEW names, IsKey(names), NEW name, NEW k \in 1 .. Len(names), names[k] = name
    PROVE  KeyIndex(names, name) = k - 1
<1>1. DOMAIN names = 1 .. Len(names)
  BY DEF IsKey
<1>2. PICK c : c = CHOOSE i \in DOMAIN names : names[i] = name
  OBVIOUS
<1>3. c \in 1 .. Len(names) /\ names[c] = name
  BY <1>1, <1>2
<1>4. c = k
  BY <1>3 DEF IsKey
<1> QED
  BY <1>2, <1>4 DEF KeyIndex

InKey(names, name) == \E k \in 1 .. Len(names) : names[k] = name

(* The key of a record after each of the columns. *)
IsKeyLoop(key, names, columns, record) ==
    /\ key \in [0 .. Len(columns) -> KeyResults] /\ key[0] = Ok(<<>>)
    /\ \A i \in 1 .. Len(columns) :
          key[i] = IF ~InKey(names, columns[i].name) THEN key[i - 1]
                   ELSE WithKeyValue(key[i - 1], KeyIndex(names, columns[i].name), record[i])

(* Record::get_primary_key() is this loop. *)
LEMMA KeyLoop ==
    ASSUME NEW t, IsTable(t), get_primary_key(t) # <<>>, NEW record,
           \A i \in 1 .. Len(t.columns) : record[i] \in Values
    PROVE  \E key : /\ IsKeyLoop(key, KeyOf(t), t.columns, record)
                    /\ key_of_record(t, record) = key[Len(t.columns)]
<1>1. PICK names : names = KeyOf(t) /\ IsKey(names) /\ col_names(get_primary_key(t)[1]) = names
  BY PrimaryKeyIs
<1>2. PICK columns : columns = t.columns
  OBVIOUS
<1>3. Len(columns) \in Nat
  BY <1>2 DEF IsTable
<1>4. PICK n \in Nat : n = Len(columns)
  BY <1>3
<1>5. DOMAIN names = 1 .. Len(names)
  BY <1>1 DEF IsKey
<1>6. PICK step : step = [p \in (1 .. n) \X KeyResults |->
            IF ~InKey(names, columns[p[1]].name) THEN p[2]
            ELSE WithKeyValue(p[2], KeyIndex(names, columns[p[1]].name), record[p[1]])]
  OBVIOUS
<1>7. step \in [(1 .. n) \X KeyResults -> KeyResults]
  <2>1. ASSUME NEW p \in (1 .. n) \X KeyResults
        PROVE  (IF ~InKey(names, columns[p[1]].name) THEN p[2]
                ELSE WithKeyValue(p[2], KeyIndex(names, columns[p[1]].name), record[p[1]])) \in KeyResults
    <3>1. PICK i \in 1 .. n, r \in KeyResults : i = p[1] /\ r = p[2]
      OBVIOUS
    <3>2. CASE InKey(names, columns[i].name)
      <4>1. PICK k \in 1 .. Len(names) : names[k] = columns[i].name
        BY <3>2 DEF InKey
      <4>2. KeyIndex(names, columns[i].name) = k - 1 /\ k - 1 \in Nat
        BY <1>1, <4>1, KeyIndexIs
      <4>3. record[i] \in Values
        BY <1>2, <1>4
      <4>4. WithKeyValue(r, k - 1, record[i]) \in KeyResults
        BY <4>2, <4>3, WithKeyValueIs
      <4> QED
        BY <3>1, <3>2, <4>2, <4>4
    <3>3. CASE ~InKey(names, columns[i].name)
      BY <3>1, <3>3
    <3> QED
      BY <3>2, <3>3
  <2> QED
    BY <1>6, <2>1
<1>8. PICK base \in KeyResults : base = Ok(<<>>)
  BY EmptySeq DEF KeyResults
<1>9. PICK f \in [0 .. n -> KeyResults] : IsLoop(f, n, base, step)
  BY <1>7, LoopExists
<1>10. ASSUME NEW i \in 1 .. n
      PROVE  f[i] = IF ~InKey(names, columns[i].name) THEN f[i - 1]
                    ELSE WithKeyValue(f[i - 1], KeyIndex(names, columns[i].name), record[i])
  <2>1. i - 1 \in 0 .. n /\ f[i - 1] \in KeyResults
    OBVIOUS
  <2>2. f[i] = step[<<i, f[i - 1]>>]
    BY <1>9 DEF IsLoop
  <2> QED
    BY <1>6, <2>1, <2>2
<1>11. IsKeyLoop(f, names, columns, record)
  BY <1>2, <1>4, <1>8, <1>9, <1>10 DEF IsKeyLoop, IsLoop
<1> DEFINE equation(g) == g = [i \in 0 .. Len(t.columns) |->
               IF i = 0 THEN Ok(<<>>)
               ELSE IF \A k \in DOMAIN names : names[k] # t.columns[i].name THEN g[i - 1]
               ELSE WithKeyValue(g[i - 1], KeyIndex(names, t.columns[i].name), record[i])]
           key == CHOOSE g : equation(g)
<1>12. \A i \in 1 .. n : ~InKey(names, columns[i].name) <=> \A k \in DOMAIN names : names[k] # t.columns[i].name
  BY <1>2, <1>4, <1>5 DEF InKey
<1>13. equation(f)
  <2>1. \A i \in 0 .. n : i = 0 \/ i \in 1 .. n
    OBVIOUS
  <2>2. f[0] = Ok(<<>>)
    BY <1>8, <1>9 DEF IsLoop
  <2>3. f = [i \in 0 .. n |->
               IF i = 0 THEN Ok(<<>>)
               ELSE IF \A k \in DOMAIN names : names[k] # t.columns[i].name THEN f[i - 1]
               ELSE WithKeyValue(f[i - 1], KeyIndex(names, t.columns[i].name), record[i])]
    BY <1>2, <1>4, <1>10, <1>12, <2>1, <2>2
  <2> QED
    BY <1>2, <1>4, <2>3
<1>14. equation(key)
  <2> HIDE DEF equation
  <2> QED
    BY <1>13
<1>15. key_of_record(t, record) = key[n]
  BY <1>1, <1>2, <1>4 DEF key_of_record
<1> HIDE DEF key
<1>16. key[0] = Ok(<<>>)
  BY <1>2, <1>4, <1>14
<1>17. ASSUME NEW i \in 1 .. n
       PROVE  key[i] = IF ~InKey(names, columns[i].name) THEN key[i - 1]
                       ELSE WithKeyValue(key[i - 1], KeyIndex(names, columns[i].name), record[i])
  <2>1. i \in 0 .. Len(t.columns) /\ i # 0
    BY <1>2, <1>4
  <2>2. key[i] = IF \A k \in DOMAIN names : names[k] # t.columns[i].name THEN key[i - 1]
                 ELSE WithKeyValue(key[i - 1], KeyIndex(names, t.columns[i].name), record[i])
    BY <1>14, <2>1
  <2>3. CASE InKey(names, columns[i].name)
    BY <1>2, <1>12, <2>2, <2>3
  <2>4. CASE ~InKey(names, columns[i].name)
    BY <1>2, <1>12, <2>2, <2>4
  <2> QED
    BY <2>3, <2>4
<1> HIDE DEF equation
<1> DEFINE T == {i \in Nat : i <= n => key[i] = f[i]}
<1>18. 0 \in T
  BY <1>8, <1>9, <1>16 DEF IsLoop
<1>19. ASSUME NEW i \in Nat, i \in T PROVE i + 1 \in T
  <2> SUFFICES ASSUME i + 1 <= n PROVE key[i + 1] = f[i + 1]
    OBVIOUS
  <2>1. PICK j \in 1 .. n : j = i + 1 /\ j - 1 = i
    OBVIOUS
  <2>2. key[j - 1] = f[j - 1]
    BY <1>19, <2>1
  <2>3. key[j] = f[j]
    BY <1>10, <1>17, <2>2
  <2> QED
    BY <2>1, <2>3
<1>20. n \in T
  <2> HIDE DEF T
  <2> QED
    BY <1>18, <1>19, SetInduction
<1>21. key_of_record(t, record) = f[n]
  BY <1>15, <1>20
<1> QED
  BY <1>1, <1>2, <1>4, <1>11, <1>21

(* A column has a name of its own, which tells its position. *)
LEMMA PositionIs ==
    ASSUME NEW t, IsTable(t), NEW i \in 1 .. Len(t.columns)
    PROVE  Position(t.columns, t.columns[i].name) = i
<1>1. DOMAIN t.columns = 1 .. Len(t.columns)
  BY DEF IsTable
<1>2. PICK c : c = CHOOSE j \in DOMAIN t.columns : t.columns[j].name = t.columns[i].name
  OBVIOUS
<1>3. c \in 1 .. Len(t.columns) /\ t.columns[c].name = t.columns[i].name
  BY <1>1, <1>2
<1>4. c = i
  BY <1>3 DEF IsTable
<1> QED
  BY <1>2, <1>4 DEF Position

(* The column of a name, if there is one. *)
LEMMA ColumnIs ==
    ASSUME NEW t, IsTable(t), NEW name
    PROVE  /\ get_column(t, name) = <<>> <=> \A i \in 1 .. Len(t.columns) : t.columns[i].name # name
           /\ get_column(t, name) # <<>> =>
                  /\ Position(t.columns, name) \in 1 .. Len(t.columns)
                  /\ t.columns[Position(t.columns, name)].name = name
                  /\ get_column(t, name)[1] = t.columns[Position(t.columns, name)]
<1>1. DOMAIN t.columns = 1 .. Len(t.columns) /\ Len(t.columns) \in Nat
  BY DEF IsTable
<1>2. PICK matches : matches = {i \in DOMAIN t.columns : t.columns[i].name = name}
  OBVIOUS
<1>3. get_column(t, name) = IF matches = {} THEN <<>> ELSE <<t.columns[Min(matches)]>>
  BY <1>2 DEF get_column, Named, Find
<1>4. matches = {} <=> \A i \in 1 .. Len(t.columns) : t.columns[i].name # name
  BY <1>1, <1>2
<1>5. CASE matches = {}
  BY <1>3, <1>4, <1>5
<1>6. CASE matches # {}
  <2>1. matches \in SUBSET Nat
    BY <1>1, <1>2
  <2>2. Min(matches) \in matches
    BY <1>6, <2>1, MinProperties
  <2>3. PICK i \in 1 .. Len(t.columns) : i = Min(matches) /\ t.columns[i].name = name
    BY <1>1, <1>2, <2>2
  <2>4. get_column(t, name) = <<t.columns[i]>>
    BY <1>3, <1>6, <2>3
  <2>5. Position(t.columns, name) = i
    BY <2>3, PositionIs
  <2> QED
    BY <1>4, <1>6, <2>3, <2>4, <2>5
<1> QED
  BY <1>5, <1>6

(* The key of a record after i columns has the values of the columns of    *)
(* the key that are among them, and these are the first of the key.        *)
KeySoFar(key, i, names, columns, record) ==
    key.err = "None" =>
        /\ Len(key.made) <= Len(names)
        /\ \A k \in 1 .. Len(names) : k <= Len(key.made) <=> \E j \in 1 .. i : columns[j].name = names[k]
        /\ \A k \in 1 .. Len(names), j \in 1 .. i : columns[j].name = names[k] => key.made[k] = record[j]

(* A column that is in the key adds its value at the end, or panics. *)
LEMMA KeyColumn ==
    ASSUME NEW t, IsTable(t), NEW names, IsKey(names), NEW record, NEW i \in Nat, i < Len(t.columns),
           record[i + 1] \in Values, NEW key \in KeyResults, KeySoFar(key, i, names, t.columns, record),
           NEW k \in 1 .. Len(names), names[k] = t.columns[i + 1].name
    PROVE  /\ KeySoFar(WithKeyValue(key, k - 1, record[i + 1]), i + 1, names, t.columns, record)
           /\ key.err = "None" /\ k - 1 <= Len(key.made) =>
                  WithKeyValue(key, k - 1, record[i + 1]).err = "None"
<1>1. PICK n \in Nat : n = Len(t.columns)
  BY DEF IsTable
<1>2. PICK u \in Nat : u = Len(names)
  BY DEF IsKey
<1>3. PICK new : new = WithKeyValue(key, k - 1, record[i + 1])
  OBVIOUS
<1>4. k - 1 \in Nat
  BY <1>2
<1>5. /\ new.err = "None" => key.err = "None" /\ k - 1 <= Len(key.made)
      /\ key.err = "None" /\ k - 1 <= Len(key.made) => new = Ok(InsertAt(key.made, (k - 1) + 1, record[i + 1]))
  BY <1>3, <1>4, WithKeyValueIs
<1>6. ASSUME new.err = "None"
      PROVE  /\ Len(new.made) <= u
             /\ \A l \in 1 .. u : l <= Len(new.made) <=> \E j \in 1 .. (i + 1) : t.columns[j].name = names[l]
             /\ \A l \in 1 .. u, j \in 1 .. (i + 1) : t.columns[j].name = names[l] => new.made[l] = record[j]
  <2>1. PICK s \in Seq(Values) : s = key.made
    BY KeyResult
  <2>2. PICK m \in Nat : m = Len(s)
    OBVIOUS
  <2>3. /\ \A l \in 1 .. u : l <= m <=> \E j \in 1 .. i : t.columns[j].name = names[l]
        /\ \A l \in 1 .. u, j \in 1 .. i : t.columns[j].name = names[l] => s[l] = record[j]
        /\ k - 1 <= m
    BY <1>2, <1>5, <1>6, <2>1, <2>2 DEF KeySoFar
  <2>4. ASSUME NEW j \in 1 .. i PROVE t.columns[j].name # names[k]
    <3>1. j \in 1 .. Len(t.columns) /\ i + 1 \in 1 .. Len(t.columns) /\ j # i + 1
      BY <1>1
    <3>2. t.columns[j].name # t.columns[i + 1].name
      BY <3>1 DEF IsTable
    <3> QED
      BY <3>2
  <2>5. k = m + 1
    BY <1>2, <2>3, <2>4
  <2>6. m \in 0 .. Len(s)
    BY <2>2
  <2>7. PICK value \in Values : value = record[i + 1]
    OBVIOUS
  <2>8. new = Ok(InsertAt(s, m + 1, record[i + 1]))
    BY <1>5, <1>6, <2>1, <2>5
  <2>9. InsertAt(s, m + 1, value) =
            [l \in 1 .. (Len(s) + 1) |-> IF l <= m THEN s[l] ELSE IF l = m + 1 THEN value ELSE s[l - 1]]
    BY <2>6, InsertAtFunction
  <2>10. InsertAt(s, m + 1, value) \in Seq(Values) /\ Len(InsertAt(s, m + 1, value)) = Len(s) + 1
    BY <2>6, InsertAtType
  <2>11. PICK r \in Seq(Values) : r = InsertAt(s, m + 1, value)
    BY <2>10
  <2>12. /\ new.made = r /\ Len(r) = m + 1 /\ r[m + 1] = record[i + 1]
         /\ \A l \in 1 .. m : r[l] = s[l]
    BY <2>2, <2>8, <2>9, <2>10, <2>11, <2>7 DEF Ok
  <2>13. ASSUME NEW l \in 1 .. u
         PROVE  l <= m + 1 <=> \E j \in 1 .. (i + 1) : t.columns[j].name = names[l]
    <3>1. CASE l = k
      BY <2>5, <3>1
    <3>2. CASE l # k
      <4>1. names[l] # t.columns[i + 1].name
        BY <1>2, <3>2 DEF IsKey
      <4>2. l <= m + 1 <=> l <= m
        BY <2>5, <3>2
      <4>3. (\E j \in 1 .. (i + 1) : t.columns[j].name = names[l]) <=> \E j \in 1 .. i : t.columns[j].name = names[l]
        BY <4>1
      <4> QED
        BY <2>3, <4>2, <4>3
    <3> QED
      BY <3>1, <3>2
  <2>14. ASSUME NEW l \in 1 .. u, NEW j \in 1 .. (i + 1), t.columns[j].name = names[l]
         PROVE  r[l] = record[j]
    <3>1. CASE j = i + 1
      <4>1. l = k
        BY <1>2, <2>14, <3>1 DEF IsKey
      <4> QED
        BY <2>5, <2>12, <3>1, <4>1
    <3>2. CASE j # i + 1
      <4>1. j \in 1 .. i
        BY <3>2
      <4>2. s[l] = record[j] /\ l <= m
        BY <2>3, <2>14, <4>1
      <4> QED
        BY <2>12, <4>2
    <3> QED
      BY <3>1, <3>2
  <2>15. m + 1 <= u
    BY <1>2, <2>5
  <2> QED
    BY <2>12, <2>13, <2>14, <2>15
<1>7. KeySoFar(new, i + 1, names, t.columns, record)
  BY <1>2, <1>6 DEF KeySoFar
<1>8. key.err = "None" /\ k - 1 <= Len(key.made) => new.err = "None"
  BY <1>5 DEF Ok
<1> QED
  BY <1>3, <1>7, <1>8

(* A column that is not in the key adds nothing. *)
LEMMA OtherColumn ==
    ASSUME NEW names, IsKey(names), NEW columns, NEW record, NEW i \in Nat, NEW key,
           KeySoFar(key, i, names, columns, record), ~InKey(names, columns[i + 1].name)
    PROVE  KeySoFar(key, i + 1, names, columns, record)
<1>1. PICK u \in Nat : u = Len(names)
  BY DEF IsKey
<1>2. \A k \in 1 .. u : names[k] # columns[i + 1].name
  BY <1>1 DEF InKey
<1>3. \A j \in 1 .. (i + 1) : j = i + 1 \/ j \in 1 .. i
  OBVIOUS
<1>4. \A k \in 1 .. u : (\E j \in 1 .. (i + 1) : columns[j].name = names[k]) <=> \E j \in 1 .. i : columns[j].name = names[k]
  BY <1>2, <1>3
<1> QED
  BY <1>1, <1>2, <1>3, <1>4 DEF KeySoFar

(* So it is after every column. *)
LEMMA KeyAfterColumns ==
    ASSUME NEW t, IsTable(t), NEW names, IsKey(names), NEW record,
           \A i \in 1 .. Len(t.columns) : record[i] \in Values,
           NEW key, IsKeyLoop(key, names, t.columns, record)
    PROVE  \A i \in 0 .. Len(t.columns) : KeySoFar(key[i], i, names, t.columns, record)
<1>1. PICK n \in Nat : n = Len(t.columns)
  BY DEF IsTable
<1>2. PICK u \in Nat : u = Len(names)
  BY DEF IsKey
<1> DEFINE T == {i \in Nat : i <= n => KeySoFar(key[i], i, names, t.columns, record)}
<1>3. 0 \in T
  <2>1. key[0].made = <<>>
    BY DEF IsKeyLoop, Ok
  <2>2. Len(<<>>) = 0
    OBVIOUS
  <2>3. KeySoFar(key[0], 0, names, t.columns, record)
    BY <1>2, <2>1, <2>2 DEF KeySoFar
  <2> QED
    BY <2>3
<1>4. ASSUME NEW i \in Nat, i \in T PROVE i + 1 \in T
  <2> SUFFICES ASSUME i + 1 <= n PROVE KeySoFar(key[i + 1], i + 1, names, t.columns, record)
    OBVIOUS
  <2>1. KeySoFar(key[i], i, names, t.columns, record) /\ i < n
    BY <1>4
  <2>2. i + 1 \in 1 .. n /\ (i + 1) - 1 = i /\ i \in 0 .. n
    OBVIOUS
  <2>3. key[i] \in KeyResults /\ record[i + 1] \in Values
    BY <1>1, <2>2 DEF IsKeyLoop
  <2>4. key[i + 1] = IF ~InKey(names, t.columns[i + 1].name) THEN key[i]
                     ELSE WithKeyValue(key[i], KeyIndex(names, t.columns[i + 1].name), record[i + 1])
    BY <1>1, <2>2 DEF IsKeyLoop
  <2>5. CASE ~InKey(names, t.columns[i + 1].name)
    BY <2>1, <2>4, <2>5, OtherColumn
  <2>6. CASE InKey(names, t.columns[i + 1].name)
    <3>1. PICK k \in 1 .. Len(names) : names[k] = t.columns[i + 1].name
      BY <2>6 DEF InKey
    <3>2. KeyIndex(names, t.columns[i + 1].name) = k - 1
      BY <3>1, KeyIndexIs
    <3>3. KeySoFar(WithKeyValue(key[i], k - 1, record[i + 1]), i + 1, names, t.columns, record)
      BY <1>1, <2>1, <2>3, <3>1, KeyColumn
    <3> QED
      BY <2>4, <2>6, <3>2, <3>3
  <2> QED
    BY <2>5, <2>6
<1>5. \A i \in Nat : i \in T
  <2> HIDE DEF T
  <2> QED
    BY <1>3, <1>4, SetInduction
<1> QED
  BY <1>1, <1>5

(* A key with columns in the order of the table is made without a panic. *)
OrderedKey(t, names) ==
    ~Missing(t, names) /\ \A i, j \in DOMAIN names :
        i < j => Position(t.columns, names[i]) < Position(t.columns, names[j])

(* Such a key is made. *)
LEMMA OrderedKeyMade ==
    ASSUME NEW t, IsTable(t), NEW names, IsKey(names), OrderedKey(t, names), NEW record,
           \A i \in 1 .. Len(t.columns) : record[i] \in Values,
           NEW key, IsKeyLoop(key, names, t.columns, record)
    PROVE  key[Len(t.columns)].err = "None"
<1>1. PICK n \in Nat : n = Len(t.columns)
  BY DEF IsTable
<1>2. PICK u \in Nat : u = Len(names) /\ DOMAIN names = 1 .. u
  BY DEF IsKey
<1> DEFINE T == {i \in Nat : i <= n => key[i].err = "None"}
<1>3. 0 \in T
  BY DEF IsKeyLoop, Ok
<1>4. ASSUME NEW i \in Nat, i \in T PROVE i + 1 \in T
  <2> SUFFICES ASSUME i + 1 <= n PROVE key[i + 1].err = "None"
    OBVIOUS
  <2>1. key[i].err = "None" /\ i < n
    BY <1>4
  <2>2. i + 1 \in 1 .. n /\ (i + 1) - 1 = i /\ i \in 0 .. n
    OBVIOUS
  <2>3. key[i] \in KeyResults /\ record[i + 1] \in Values
    BY <1>1, <2>2 DEF IsKeyLoop
  <2>4. key[i + 1] = IF ~InKey(names, t.columns[i + 1].name) THEN key[i]
                     ELSE WithKeyValue(key[i], KeyIndex(names, t.columns[i + 1].name), record[i + 1])
    BY <1>1, <2>2 DEF IsKeyLoop
  <2>5. KeySoFar(key[i], i, names, t.columns, record)
    BY <1>1, <2>2, KeyAfterColumns
  <2>6. CASE ~InKey(names, t.columns[i + 1].name)
    BY <2>1, <2>4, <2>6
  <2>7. CASE InKey(names, t.columns[i + 1].name)
    <3>1. PICK k \in 1 .. u : names[k] = t.columns[i + 1].name
      BY <1>2, <2>7 DEF InKey
    <3>2. KeyIndex(names, t.columns[i + 1].name) = k - 1
      BY <1>2, <3>1, KeyIndexIs
    <3>3. PICK s \in Seq(Values) : s = key[i].made
      BY <2>3, KeyResult
    <3>4. PICK m \in Nat : m = Len(s)
      OBVIOUS
    <3>5. k - 1 <= m
      <4>1. CASE k = 1
        BY <4>1
      <4>2. CASE k # 1
        <5>1. k - 1 \in 1 .. u /\ k - 1 < k
          BY <4>2
        <5>2. get_column(t, names[k - 1]) # <<>>
          BY <1>2, <5>1 DEF OrderedKey, Missing
        <5>3. PICK p \in 1 .. n : p = Position(t.columns, names[k - 1]) /\ t.columns[p].name = names[k - 1]
          BY <1>1, <5>2, ColumnIs
        <5>4. Position(t.columns, names[k]) = i + 1
          BY <1>1, <2>2, <3>1, PositionIs
        <5>5. p < i + 1
          BY <1>2, <5>1, <5>3, <5>4 DEF OrderedKey
        <5>6. p \in 1 .. i
          BY <5>5
        <5> QED
          BY <1>2, <2>1, <2>5, <3>3, <3>4, <5>1, <5>3, <5>6 DEF KeySoFar
      <4> QED
        BY <4>1, <4>2
    <3>6. WithKeyValue(key[i], k - 1, record[i + 1]).err = "None"
      BY <1>1, <1>2, <2>1, <2>3, <2>5, <3>1, <3>3, <3>4, <3>5, KeyColumn
    <3> QED
      BY <2>4, <2>7, <3>2, <3>6
  <2> QED
    BY <2>6, <2>7
<1>5. \A i \in Nat : i \in T
  <2> HIDE DEF T
  <2> QED
    BY <1>3, <1>4, SetInduction
<1> QED
  BY <1>1, <1>5

(* A record of values for the columns of a table with a primary key. *)
HasKey(t, record) ==
    /\ IsTable(t) /\ get_primary_key(t) # <<>>
    /\ \A i \in 1 .. Len(t.columns) : record[i] \in Values

(* The key of a record: a sequence of values, made when its columns are in *)
(* the order of the table, and the values of its columns when all of them  *)
(* are there.                                                              *)
KeyIs(t, record, key) ==
    /\ key.made \in Seq(Values)
    /\ OrderedKey(t, KeyOf(t)) => key.err = "None"
    /\ key.err = "None" /\ ~Missing(t, KeyOf(t)) =>
           key.made = [k \in 1 .. Len(KeyOf(t)) |-> record[Position(t.columns, KeyOf(t)[k])]]

(* Every record of such values has this key. *)
LEMMA RecordKeyIs ==
    ASSUME NEW t, NEW record, HasKey(t, record)
    PROVE  KeyIs(t, record, key_of_record(t, record))
<1>1. IsTable(t) /\ get_primary_key(t) # <<>> /\ \A i \in 1 .. Len(t.columns) : record[i] \in Values
  BY DEF HasKey
<1>2. PICK names : names = KeyOf(t) /\ IsKey(names)
  BY <1>1, PrimaryKeyIs
<1>3. PICK loop : IsKeyLoop(loop, names, t.columns, record) /\ key_of_record(t, record) = loop[Len(t.columns)]
  BY <1>1, <1>2, KeyLoop
<1>4. PICK n \in Nat : n = Len(t.columns)
  BY <1>1 DEF IsTable
<1>5. PICK u \in Nat : u = Len(names) /\ DOMAIN names = 1 .. u
  BY <1>2 DEF IsKey
<1>6. loop[n] \in KeyResults
  BY <1>3, <1>4 DEF IsKeyLoop
<1>7. PICK key \in KeyResults : key = loop[n] /\ key = key_of_record(t, record)
  BY <1>3, <1>4, <1>6
<1>8. PICK s \in Seq(Values) : s = key.made
  BY KeyResult
<1>9. OrderedKey(t, names) => key.err = "None"
  BY <1>1, <1>2, <1>3, <1>4, <1>7, OrderedKeyMade
<1>10. KeySoFar(key, n, names, t.columns, record)
  BY <1>1, <1>2, <1>3, <1>4, <1>7, KeyAfterColumns
<1>11. ASSUME key.err = "None", ~Missing(t, names)
       PROVE  s = [k \in 1 .. u |-> record[Position(t.columns, names[k])]]
  <2>1. ASSUME NEW k \in 1 .. u
        PROVE  /\ Position(t.columns, names[k]) \in 1 .. n
               /\ t.columns[Position(t.columns, names[k])].name = names[k]
    <3>1. get_column(t, names[k]) # <<>>
      BY <1>5, <1>11 DEF Missing
    <3> QED
      BY <1>1, <1>4, <3>1, ColumnIs
  <2>2. PICK m \in Nat : m = Len(s)
    OBVIOUS
  <2>3. m <= u /\ \A k \in 1 .. u : k <= m /\ s[k] = record[Position(t.columns, names[k])]
    BY <1>5, <1>8, <1>10, <1>11, <2>1, <2>2 DEF KeySoFar
  <2>4. m = u
    <3>1. CASE u = 0
      BY <2>3, <3>1
    <3>2. CASE u # 0
      BY <2>3, <3>2
    <3> QED
      BY <3>1, <3>2
  <2>5. s \in [1 .. m -> Values]
    BY <2>2
  <2>6. s = [k \in 1 .. u |-> s[k]]
    BY <2>4, <2>5
  <2> QED
    BY <2>3, <2>6
<1> QED
  BY <1>2, <1>5, <1>7, <1>8, <1>9, <1>11 DEF KeyIs

-----------------------------------------------------------------------------
(* Stored records *)

(* The bytes of a record read back as the record, or as the error of a     *)
(* null that may not be there.                                             *)
LEMMA DeserializeIs ==
    ASSUME NEW columns, DOMAIN columns = 1 .. Len(columns), NEW record, DOMAIN record = 1 .. Len(columns),
           record = [i \in 1 .. Len(columns) |-> record[i]], NEW bytes, ReadsBack(columns, record, bytes)
    PROVE  deserialize(columns, bytes) =
               IF \E k \in DOMAIN columns : record[k] = Null /\ ~columns[k].is_nullable
               THEN Err("NullValueForNonNullColumnFound") ELSE Ok(record)
<1>1. \A i \in 1 .. Len(columns) :
          /\ is_col_value_null(bytes, i - 1) <=> record[i] = Null
          /\ record[i] # Null => deserialize_col_value(columns, bytes, i) = record[i]
  BY DEF ReadsBack
<1>2. (\E i \in DOMAIN columns : is_col_value_null(bytes, i - 1) /\ ~columns[i].is_nullable)
      <=> \E k \in DOMAIN columns : record[k] = Null /\ ~columns[k].is_nullable
  BY <1>1
<1>3. [i \in DOMAIN columns |-> IF is_col_value_null(bytes, i - 1) THEN Null
                                ELSE deserialize_col_value(columns, bytes, i)]
      = [i \in 1 .. Len(columns) |-> record[i]]
  BY <1>1
<1>4. [i \in DOMAIN columns |-> IF is_col_value_null(bytes, i - 1) THEN Null
                                ELSE deserialize_col_value(columns, bytes, i)] = record
  BY <1>3
<1>5. CASE \E k \in DOMAIN columns : record[k] = Null /\ ~columns[k].is_nullable
  BY <1>2, <1>5 DEF deserialize
<1>6. CASE ~\E k \in DOMAIN columns : record[k] = Null /\ ~columns[k].is_nullable
  BY <1>2, <1>4, <1>6 DEF deserialize
<1> QED
  BY <1>5, <1>6

(* The columns of a key, and their places in the table of a record that    *)
(* reads back.                                                             *)
KeyColumns(t, record, bytes, key_cols, at, n) ==
    /\ IsTable(t) /\ ReadsBack(t.columns, record, bytes)
    /\ n \in Nat /\ at \in [1 .. n -> 1 .. Len(t.columns)] /\ DOMAIN key_cols = 1 .. n
    /\ \A k \in 1 .. n : key_cols[k].name = t.columns[at[k]].name

(* What reading such a key returns. *)
KeyRead(record, at, n) ==
    IF \E k \in 1 .. n : record[at[k]] = Null THEN Err("NullPrimaryKeyColumnValue")
    ELSE Ok([k \in 1 .. n |-> record[at[k]]])

(* A key reads back from the bytes as the values of its columns. *)
LEMMA DeserializeKeyIs ==
    ASSUME NEW t, NEW record, NEW bytes, NEW key_cols, NEW at, NEW n,
           KeyColumns(t, record, bytes, key_cols, at, n)
    PROVE  deserialize_key(t.columns, key_cols, bytes) = KeyRead(record, at, n)
<1>1. \A i \in 1 .. Len(t.columns) :
          /\ is_col_value_null(bytes, i - 1) <=> record[i] = Null
          /\ record[i] # Null => deserialize_col_value(t.columns, bytes, i) = record[i]
  BY DEF KeyColumns, ReadsBack
<1>2. ASSUME NEW k \in 1 .. n
      PROVE  at[k] \in 1 .. Len(t.columns) /\ Position(t.columns, key_cols[k].name) = at[k]
  <2>1. at[k] \in 1 .. Len(t.columns) /\ key_cols[k].name = t.columns[at[k]].name
    BY DEF KeyColumns
  <2>2. IsTable(t)
    BY DEF KeyColumns
  <2> QED
    BY <2>1, <2>2, PositionIs
<1>3. DOMAIN key_cols = 1 .. n
  BY DEF KeyColumns
<1>4. (\E k \in DOMAIN key_cols : is_col_value_null(bytes, Position(t.columns, key_cols[k].name) - 1))
      <=> \E k \in 1 .. n : record[at[k]] = Null
  BY <1>1, <1>2, <1>3
<1>5. CASE \E k \in 1 .. n : record[at[k]] = Null
  BY <1>4, <1>5 DEF deserialize_key, KeyRead
<1>6. CASE ~\E k \in 1 .. n : record[at[k]] = Null
  <2>1. ASSUME NEW k \in 1 .. n
        PROVE  deserialize_col_value(t.columns, bytes, Position(t.columns, key_cols[k].name)) = record[at[k]]
    BY <1>1, <1>2, <1>6
  <2>2. [k \in DOMAIN key_cols |-> deserialize_col_value(t.columns, bytes, Position(t.columns, key_cols[k].name))]
        = [k \in 1 .. n |-> record[at[k]]]
    BY <1>3, <2>1
  <2> QED
    BY <1>4, <1>6, <2>2 DEF deserialize_key, KeyRead
<1> QED
  BY <1>5, <1>6

(* A record that is stored in a row of a table. *)
StoredRow(t, row, record) ==
    /\ record \in [1 .. Len(t.columns) -> Values] /\ RecordOf(t.columns, record)
    /\ serialize(t.columns, record) = Ok(row)
    /\ get_primary_key(t) # <<>> /\ key_of_record(t, record).err = "None"

(* It has a key, and reads back. *)
LEMMA StoredRowIs ==
    ASSUME NEW t, IsTable(t), NEW row, NEW record, StoredRow(t, row, record)
    PROVE  HasKey(t, record) /\ ReadsBack(t.columns, record, row)
<1>1. HasKey(t, record)
  BY DEF HasKey, StoredRow
<1>2. serialize(t.columns, record).err = "None" /\ serialize(t.columns, record).made = row
  BY DEF StoredRow, Ok
<1>3. ReadsBack(t.columns, record, row)
  BY <1>2, RecordReadsBack DEF StoredRow
<1> QED
  BY <1>1, <1>3

(* The key that the search reads from a row is that of the record; it is   *)
(* read when its columns are in the table and not null.                    *)
LEMMA StoredKeyIs ==
    ASSUME NEW t, IsTable(t), NEW row, NEW record, StoredRow(t, row, record)
    PROVE  /\ deserialize_primary_key(t, row).err = "None" =>
                  deserialize_primary_key(t, row).made = key_of_record(t, record).made
           /\ ~Missing(t, KeyOf(t)) /\ Null \notin Range(key_of_record(t, record).made) =>
                  deserialize_primary_key(t, row).err = "None"
<1>1. HasKey(t, record) /\ ReadsBack(t.columns, record, row)
  BY StoredRowIs
<1>2. get_primary_key(t) # <<>> /\ key_of_record(t, record).err = "None"
  BY DEF StoredRow
<1>3. KeyIs(t, record, key_of_record(t, record))
  BY <1>1, RecordKeyIs
<1>4. PICK names : names = KeyOf(t) /\ IsKey(names)
  BY <1>2, PrimaryKeyIs
<1>5. PICK u \in Nat : u = Len(names) /\ DOMAIN names = 1 .. u
  BY <1>4 DEF IsKey
<1>6. CASE Missing(t, names)
  <2>1. deserialize_primary_key(t, row) = Err("Panic")
    BY <1>2, <1>4, <1>6 DEF deserialize_primary_key, KeyOf
  <2> QED
    BY <1>4, <1>6, <2>1 DEF Err
<1>7. CASE ~Missing(t, names)
  <2>1. PICK at : at = [k \in 1 .. u |-> Position(t.columns, names[k])]
    OBVIOUS
  <2>2. ASSUME NEW k \in 1 .. u
        PROVE  /\ at[k] \in 1 .. Len(t.columns) /\ t.columns[at[k]].name = names[k]
               /\ get_column(t, names[k])[1] = t.columns[at[k]]
    <3>1. get_column(t, names[k]) # <<>>
      BY <1>5, <1>7 DEF Missing
    <3> QED
      BY <2>1, <3>1, ColumnIs
  <2>3. PICK cols : cols = get_primary_key_columns(t)
    OBVIOUS
  <2>4. cols = [k \in 1 .. u |-> get_column(t, names[k])[1]]
    BY <1>4, <1>5, <2>3 DEF get_primary_key_columns, KeyOf
  <2>5. KeyColumns(t, record, row, cols, at, u)
    BY <1>1, <2>1, <2>2, <2>4 DEF KeyColumns
  <2>6. deserialize_primary_key(t, row) = deserialize_key(t.columns, cols, row)
    BY <1>2, <1>4, <1>7, <2>3 DEF deserialize_primary_key, KeyOf
  <2>7. deserialize_primary_key(t, row) = KeyRead(record, at, u)
    BY <2>5, <2>6, DeserializeKeyIs
  <2>8. PICK s : s = key_of_record(t, record).made
    OBVIOUS
  <2>9. s = [k \in 1 .. u |-> record[Position(t.columns, names[k])]]
    BY <1>2, <1>3, <1>4, <1>5, <1>7, <2>8 DEF KeyIs
  <2>10. s = [k \in 1 .. u |-> record[at[k]]]
    BY <2>1, <2>9
  <2>11. CASE \E k \in 1 .. u : record[at[k]] = Null
    <3>1. deserialize_primary_key(t, row).err = "NullPrimaryKeyColumnValue"
      BY <2>7, <2>11 DEF KeyRead, Err
    <3>2. Null \in Range(s)
      BY <2>10, <2>11 DEF Range
    <3> QED
      BY <2>8, <3>1, <3>2
  <2>12. CASE ~\E k \in 1 .. u : record[at[k]] = Null
    <3>1. deserialize_primary_key(t, row) = Ok(s)
      BY <2>7, <2>10, <2>12 DEF KeyRead
    <3> QED
      BY <2>8, <3>1 DEF Ok
  <2> QED
    BY <2>11, <2>12
<1> QED
  BY <1>4, <1>6, <1>7

(* Any two keys compare, and one way round as the other. *)
LEMMA KeysRelate ==
    ASSUME NEW k \in Seq(Values), NEW l \in Seq(Values)
    PROVE  Compares(key_relation(k, l)) /\ (key_relation(k, l) = "greater" => key_relation(l, k) = "less")
<1>1. KeysCompare(k, l) /\ KeysCompare(l, k)
  BY KeyOrder
<1>2. PICK x \in (-1) .. 1 : x = Lex(k, l, ValueOrder)
  BY <1>1 DEF KeysCompare
<1>3. /\ key_relation(k, l) = IF x = 0 THEN "equal" ELSE IF x = 1 THEN "greater" ELSE "less"
      /\ Lex(l, k, ValueOrder) = -x
  BY <1>1, <1>2 DEF KeysCompare
<1>4. key_relation(l, k) = IF -x = 0 THEN "equal" ELSE IF -x = 1 THEN "greater" ELSE "less"
  BY <1>1, <1>3 DEF KeysCompare
<1> QED
  BY <1>3, <1>4 DEF Compares

(* A key that is not after one that is before a third one is before it. *)
LEMMA KeysChain ==
    ASSUME NEW k \in Seq(Values), NEW l \in Seq(Values), NEW m \in Seq(Values),
           key_relation(k, l) # "greater", key_relation(l, m) = "less"
    PROVE  key_relation(k, m) = "less"
<1>1. KeysCompare(k, l) /\ KeysCompare(l, m) /\ KeysCompare(k, m)
  BY KeyOrder
<1>2. PICK x \in (-1) .. 1 : x = Lex(k, l, ValueOrder)
  BY <1>1 DEF KeysCompare
<1>3. PICK y \in (-1) .. 1 : y = Lex(l, m, ValueOrder)
  BY <1>1 DEF KeysCompare
<1>4. PICK z \in (-1) .. 1 : z = Lex(k, m, ValueOrder)
  BY <1>1 DEF KeysCompare
<1>5. x <= 0
  BY <1>1, <1>2 DEF KeysCompare
<1>6. y = -1 /\ Lex(m, l, ValueOrder) = 1
  BY <1>1, <1>3 DEF KeysCompare
<1>7. Lex(m, k, ValueOrder) = -z
  BY <1>1, <1>4 DEF KeysCompare
<1>8. z <= 0
  <2>1. Lex(k, l, ValueOrder) <= 0 /\ Lex(l, m, ValueOrder) <= 0
    BY <1>2, <1>3, <1>5, <1>6
  <2>2. Lex(k, m, ValueOrder) <= 0
    BY <2>1, ValueOrderIs, LexChain
  <2> QED
    BY <1>4, <2>2
<1>9. z # 0
  <2> SUFFICES ASSUME z = 0 PROVE FALSE
    OBVIOUS
  <2>1. Lex(m, k, ValueOrder) <= 0
    BY <1>7
  <2>2. Lex(k, l, ValueOrder) <= 0
    BY <1>2, <1>5
  <2>3. Lex(m, l, ValueOrder) <= 0
    BY <2>1, <2>2, ValueOrderIs, LexChain
  <2> QED
    BY <1>6, <2>3
<1> QED
  BY <1>1, <1>4, <1>8, <1>9 DEF KeysCompare

-----------------------------------------------------------------------------
(* The inductive invariant *)

RecordKey(t, record) == key_of_record(t, record).made

(* The rows of a table hold its records, in the order of their keys. *)
Held(t, bytes, stored) ==
    /\ t = <<>> => bytes = <<>>
    /\ t # <<>> => IsTable(t)
    /\ bytes \in Seq(Seq(Byte)) /\ \E S : stored \in Seq(S)
    /\ Len(stored) = Len(bytes)
    /\ \A i \in 1 .. Len(bytes) : StoredRow(t, bytes[i], stored[i])
    /\ \A i, j \in 1 .. Len(bytes) :
          i < j => key_relation(RecordKey(t, stored[i]), RecordKey(t, stored[j])) = "less"

TableInv == Held(table, rows, records) /\ SearchEnds

(* The search for a key: one that does not end has met a key that cannot   *)
(* be read, and one that ends has the place of the key.                    *)
SearchIs(key, found, n) ==
    /\ ~found.ends => found.mid \in 0 .. (n - 1) /\ StoredKey(found.mid).err # "None"
    /\ found.ends /\ ~found.found =>
           /\ found.slot \in 0 .. n
           /\ \A i \in 1 .. n : /\ i <= found.slot => key_relation(RecordKey(table, records[i]), key) = "less"
                                /\ i > found.slot => key_relation(key, RecordKey(table, records[i])) = "less"

(* Every search of a table is such a search. *)
LEMMA SearchFinds ==
    ASSUME TableInv, Defined, NEW key \in Seq(Values)
    PROVE  SearchIs(key, Search(key), Len(rows))
<1>1. IsTable(table) /\ Len(rows) \in Nat
  BY DEF TableInv, Held, Defined
<1>2. PICK n \in Nat : n = Len(rows)
  BY <1>1
<1>3. ASSUME NEW i \in 1 .. n
      PROVE  StoredRow(table, rows[i], records[i]) /\ RecordKey(table, records[i]) \in Seq(Values)
  <2>1. StoredRow(table, rows[i], records[i])
    BY <1>2 DEF TableInv, Held
  <2>2. KeyIs(table, records[i], key_of_record(table, records[i]))
    BY <1>1, <2>1, StoredRowIs, RecordKeyIs
  <2> QED
    BY <2>1, <2>2 DEF KeyIs, RecordKey
<1>4. PICK relation : relation = [slot \in 0 .. (n - 1) |->
          IF StoredKey(slot).err # "None" THEN "unreadable" ELSE key_relation(key, StoredKey(slot).made)]
  OBVIOUS
<1>5. Search(key) = find_key(n, relation)
  BY <1>2, <1>4 DEF Search
<1>6. PICK full : full = [slot \in 0 .. (n - 1) |-> key_relation(key, RecordKey(table, records[slot + 1]))]
  OBVIOUS
<1>7. ASSUME NEW slot \in 0 .. (n - 1)
      PROVE  /\ full[slot] = key_relation(key, RecordKey(table, records[slot + 1]))
             /\ RecordKey(table, records[slot + 1]) \in Seq(Values) /\ Compares(full[slot])
             /\ StoredKey(slot).err # "None" => relation[slot] = "unreadable"
             /\ StoredKey(slot).err = "None" => relation[slot] = full[slot]
  <2>1. slot + 1 \in 1 .. n
    OBVIOUS
  <2>2. PICK l \in Seq(Values) : l = RecordKey(table, records[slot + 1])
    BY <1>3, <2>1
  <2>3. Compares(key_relation(key, l))
    BY KeysRelate
  <2>4. StoredKey(slot).err = "None" => StoredKey(slot).made = l
    BY <1>1, <1>3, <2>1, <2>2, StoredKeyIs DEF StoredKey, RecordKey
  <2>5. full[slot] = key_relation(key, l)
    BY <1>6, <2>2
  <2>6. relation[slot] = IF StoredKey(slot).err # "None" THEN "unreadable" ELSE key_relation(key, StoredKey(slot).made)
    BY <1>4
  <2> QED
    BY <2>2, <2>3, <2>4, <2>5, <2>6
<1>8. Partial(relation, full, n)
  BY <1>7 DEF Partial, Compares
<1>9. Sorted(n, full)
  <2>1. ASSUME NEW i \in 0 .. (n - 1), NEW j \in 0 .. (n - 1), i < j, full[i] # "greater"
        PROVE  full[j] = "less"
    <3>1. i + 1 \in 1 .. n /\ j + 1 \in 1 .. n /\ i + 1 < j + 1
      BY <2>1
    <3>2. key_relation(RecordKey(table, records[i + 1]), RecordKey(table, records[j + 1])) = "less"
      BY <1>2, <3>1 DEF TableInv, Held
    <3> QED
      BY <1>7, <2>1, <3>2, KeysChain
  <2> QED
    BY <1>7, <2>1 DEF Sorted
<1>10. CASE ~find_key(n, relation).ends
  <2>1. PICK mid \in 0 .. (n - 1) : mid = find_key(n, relation).mid /\ ~Compares(relation[mid])
    BY <1>10, EndlessSearch
  <2>2. StoredKey(mid).err # "None"
    BY <1>7, <2>1
  <2> QED
    BY <1>2, <1>5, <1>10, <2>1, <2>2 DEF SearchIs
<1>11. CASE find_key(n, relation).ends
  <2>1. find_key(n, relation) = find_key(n, full)
    BY <1>8, <1>11, EndingSearch
  <2>2. PICK c \in 0 .. n : Belongs(c, n, full)
    BY <1>9, PlaceExists
  <2>3. /\ find_key(n, full).slot = c
        /\ find_key(n, full).found <=> c < n /\ full[c] = "equal"
    BY <2>2, BinarySearchCorrect
  <2>4. ASSUME ~find_key(n, full).found, NEW i \in 1 .. n
        PROVE  /\ i <= c => key_relation(RecordKey(table, records[i]), key) = "less"
               /\ i > c => key_relation(key, RecordKey(table, records[i])) = "less"
    <3>1. PICK slot \in 0 .. (n - 1) : slot = i - 1 /\ slot + 1 = i
      OBVIOUS
    <3>2. /\ full[slot] = key_relation(key, RecordKey(table, records[i]))
          /\ RecordKey(table, records[i]) \in Seq(Values)
      BY <1>7, <3>1
    <3>3. slot < c => full[slot] = "greater"
      BY <2>2, <3>1 DEF Belongs
    <3>4. slot >= c => full[slot] = "less"
      BY <2>2, <2>3, <2>4, <3>1 DEF Belongs
    <3> QED
      BY <3>1, <3>2, <3>3, <3>4, KeysRelate
  <2> QED
    BY <1>2, <1>5, <1>11, <2>1, <2>3, <2>4 DEF SearchIs
<1> QED
  BY <1>10, <1>11

(* A record that is stored at the place of its key keeps the order. *)
InPlace(t, stored, record, c) ==
    \A i \in 1 .. Len(stored) :
        /\ i <= c => key_relation(RecordKey(t, stored[i]), RecordKey(t, record)) = "less"
        /\ i > c => key_relation(RecordKey(t, record), RecordKey(t, stored[i])) = "less"

(* A table with one more record, in the place of its key. *)
LEMMA InsertHeld ==
    ASSUME NEW t, NEW bytes, NEW stored, Held(t, bytes, stored), t # <<>>,
           NEW row \in Seq(Byte), NEW record, StoredRow(t, row, record),
           NEW c \in 0 .. Len(bytes), InPlace(t, stored, record, c)
    PROVE  Held(t, InsertAt(bytes, c + 1, row), InsertAt(stored, c + 1, record))
<1>1. bytes \in Seq(Seq(Byte)) /\ Len(stored) = Len(bytes) /\ Len(bytes) \in Nat
  BY DEF Held
<1>2. PICK n \in Nat : n = Len(bytes) /\ n = Len(stored)
  BY <1>1
<1>3. PICK S : stored \in Seq(S)
  BY DEF Held
<1>4. PICK R : R = S \cup {record}
  OBVIOUS
<1>5. stored \in Seq(R) /\ record \in R /\ c \in 0 .. Len(stored)
  BY <1>2, <1>3, <1>4
<1>6. PICK newbytes : newbytes = InsertAt(bytes, c + 1, row)
  OBVIOUS
<1>7. PICK newstored : newstored = InsertAt(stored, c + 1, record)
  OBVIOUS
<1>8. newbytes \in Seq(Seq(Byte)) /\ Len(newbytes) = n + 1
  BY <1>1, <1>2, <1>6, InsertAtType
<1>9. newstored \in Seq(R) /\ Len(newstored) = n + 1
  BY <1>2, <1>5, <1>7, InsertAtType
<1>10. newbytes = [k \in 1 .. (n + 1) |-> IF k <= c THEN bytes[k] ELSE IF k = c + 1 THEN row ELSE bytes[k - 1]]
  BY <1>1, <1>2, <1>6, InsertAtFunction
<1>11. newstored = [k \in 1 .. (n + 1) |-> IF k <= c THEN stored[k] ELSE IF k = c + 1 THEN record ELSE stored[k - 1]]
  BY <1>2, <1>5, <1>7, InsertAtFunction
<1>12. ASSUME NEW i \in 1 .. (n + 1)
       PROVE  StoredRow(t, newbytes[i], newstored[i])
  <2>1. CASE i <= c
    <3>1. i \in 1 .. n /\ newbytes[i] = bytes[i] /\ newstored[i] = stored[i]
      BY <1>2, <1>10, <1>11, <2>1
    <3> QED
      BY <1>2, <3>1 DEF Held
  <2>2. CASE i = c + 1
    <3>1. newbytes[i] = row /\ newstored[i] = record
      BY <1>2, <1>10, <1>11, <2>2
    <3> QED
      BY <3>1
  <2>3. CASE i > c + 1
    <3>1. i - 1 \in 1 .. n /\ newbytes[i] = bytes[i - 1] /\ newstored[i] = stored[i - 1]
      BY <1>2, <1>10, <1>11, <2>3
    <3> QED
      BY <1>2, <3>1 DEF Held
  <2> QED
    BY <1>2, <2>1, <2>2, <2>3
<1>13. ASSUME NEW i \in 1 .. (n + 1), NEW j \in 1 .. (n + 1), i < j
       PROVE  key_relation(RecordKey(t, newstored[i]), RecordKey(t, newstored[j])) = "less"
  <2>1. \A k, l \in 1 .. n : k < l => key_relation(RecordKey(t, stored[k]), RecordKey(t, stored[l])) = "less"
    BY <1>2 DEF Held
  <2>2. \A k \in 1 .. n :
            /\ k <= c => key_relation(RecordKey(t, stored[k]), RecordKey(t, record)) = "less"
            /\ k > c => key_relation(RecordKey(t, record), RecordKey(t, stored[k])) = "less"
    BY <1>2 DEF InPlace
  <2>3. CASE j <= c
    <3>1. i \in 1 .. n /\ j \in 1 .. n /\ newstored[i] = stored[i] /\ newstored[j] = stored[j]
      BY <1>2, <1>11, <1>13, <2>3
    <3> QED
      BY <1>13, <2>1, <3>1
  <2>4. CASE j = c + 1
    <3>1. i \in 1 .. n /\ i <= c /\ newstored[i] = stored[i] /\ newstored[j] = record
      BY <1>2, <1>11, <1>13, <2>4
    <3> QED
      BY <2>2, <3>1
  <2>5. CASE j > c + 1
    <3>1. PICK l \in 1 .. n : l = j - 1 /\ newstored[j] = stored[l]
      BY <1>2, <1>11, <2>5
    <3>2. CASE i <= c
      <4>1. i \in 1 .. n /\ i < l /\ newstored[i] = stored[i]
        BY <1>2, <1>11, <2>5, <3>1, <3>2
      <4> QED
        BY <2>1, <3>1, <4>1
    <3>3. CASE i = c + 1
      <4>1. l > c /\ newstored[i] = record
        BY <1>2, <1>11, <2>5, <3>1, <3>3
      <4> QED
        BY <2>2, <3>1, <4>1
    <3>4. CASE i > c + 1
      <4>1. PICK k \in 1 .. n : k = i - 1 /\ newstored[i] = stored[k]
        BY <1>2, <1>11, <3>4
      <4>2. k < l
        BY <1>13, <3>1, <4>1
      <4> QED
        BY <2>1, <3>1, <4>1, <4>2
    <3> QED
      BY <1>2, <3>2, <3>3, <3>4
  <2> QED
    BY <1>2, <2>3, <2>4, <2>5
<1>14. IsTable(t)
  BY DEF Held
<1>15. Held(t, newbytes, newstored)
  BY <1>8, <1>9, <1>12, <1>13, <1>14 DEF Held
<1> QED
  BY <1>6, <1>7, <1>15

(* What a caller may insert: values of the columns. *)
LEMMA CandidateIs ==
    ASSUME IsTable(table), NEW record \in Candidates
    PROVE  /\ record \in [1 .. Len(table.columns) -> Values] /\ RecordOf(table.columns, record)
           /\ get_primary_key(table) # <<>> => HasKey(table, record)
<1>1. PICK columns : columns = table.columns
  OBVIOUS
<1>2. PICK fitting : fitting = [i \in DOMAIN columns |-> {v \in Values : is_compatible(v, columns[i].data_type)}]
  OBVIOUS
<1>3. DOMAIN columns = 1 .. Len(columns) /\ Len(columns) \in Nat
  BY <1>1 DEF IsTable
<1>4. Candidates = {r \in [DOMAIN columns -> UNION Range(fitting)] : \A i \in DOMAIN columns : r[i] \in fitting[i]}
  BY <1>1, <1>2 DEF Candidates
<1>5. record \in [1 .. Len(columns) -> UNION Range(fitting)] /\ \A i \in 1 .. Len(columns) : record[i] \in fitting[i]
  BY <1>3, <1>4
<1>6. ASSUME NEW i \in 1 .. Len(columns)
      PROVE  record[i] \in Values /\ is_compatible(record[i], columns[i].data_type)
  <2>1. fitting[i] = {v \in Values : is_compatible(v, columns[i].data_type)}
    BY <1>2, <1>3
  <2> QED
    BY <1>5, <2>1
<1>7. record \in [1 .. Len(columns) -> Values]
  BY <1>5, <1>6
<1>8. ASSUME NEW i \in 1 .. Len(columns)
      PROVE  IsType(columns[i].data_type) /\ (record[i] = Null \/ Fits(record[i], columns[i].data_type))
  <2>1. IsType(columns[i].data_type)
    BY <1>1 DEF IsTable
  <2>2. IsDataValue(record[i])
    BY <1>6, InputsAssumption
  <2> QED
    BY <1>6, <2>1, <2>2 DEF Fits
<1>9. RecordOf(columns, record)
  BY <1>3, <1>8 DEF RecordOf
<1> QED
  BY <1>1, <1>6, <1>7, <1>9 DEF HasKey

(* An insertion that is not refused stores a record at its place. *)
LEMMA OutcomeOk ==
    ASSUME TableInv, Defined, NEW record \in Candidates, Outcome(record) = "Ok",
           NEW c, c = Search(RecordKey(table, record)).slot
    PROVE  /\ StoredRow(table, serialize(table.columns, record).made, record)
           /\ serialize(table.columns, record).made \in Seq(Byte)
           /\ c \in 0 .. Len(rows) /\ InPlace(table, records, record, c)
<1>1. IsTable(table) /\ Len(records) = Len(rows)
  BY DEF TableInv, Held, Defined
<1>2. /\ key_of_record(table, record).err = "None" /\ serialize(table.columns, record).err = "None"
      /\ Search(RecordKey(table, record)).ends /\ ~Search(RecordKey(table, record)).found
  BY DEF Outcome, RecordKey
<1>3. get_primary_key(table) # <<>>
  BY <1>2 DEF key_of_record, Err
<1>4. record \in [1 .. Len(table.columns) -> Values] /\ RecordOf(table.columns, record) /\ HasKey(table, record)
  BY <1>1, <1>3, CandidateIs
<1>5. PICK row : row = serialize(table.columns, record).made
  OBVIOUS
<1>6. serialize(table.columns, record) = Ok(row)
  BY <1>2, <1>5 DEF serialize, Ok, Err
<1>7. StoredRow(table, row, record)
  BY <1>2, <1>3, <1>4, <1>6 DEF StoredRow
<1>8. row \in Seq(Byte)
  BY <1>1, <1>7, StoredRowIs DEF ReadsBack
<1>9. RecordKey(table, record) \in Seq(Values)
  BY <1>4, RecordKeyIs DEF KeyIs, RecordKey
<1>10. SearchIs(RecordKey(table, record), Search(RecordKey(table, record)), Len(rows))
  BY <1>9, SearchFinds
<1>11. c \in 0 .. Len(rows) /\ InPlace(table, records, record, c)
  BY <1>1, <1>2, <1>10 DEF SearchIs, InPlace
<1> QED
  BY <1>5, <1>7, <1>8, <1>11

(* A search for the key of a record always ends, or panics. *)
LEMMA OutcomeEnds ==
    ASSUME TableInv, Defined, NEW record \in Candidates
    PROVE  Outcome(record) \in {"Panic", "DuplicateKey", "Ok"}
<1>1. CASE key_of_record(table, record).err # "None"
  BY <1>1 DEF Outcome
<1>2. CASE key_of_record(table, record).err = "None"
  <2>1. IsTable(table)
    BY DEF TableInv, Held, Defined
  <2>2. get_primary_key(table) # <<>>
    BY <1>2 DEF key_of_record, Err
  <2>3. HasKey(table, record)
    BY <2>1, <2>2, CandidateIs
  <2>4. RecordKey(table, record) \in Seq(Values)
    BY <2>3, RecordKeyIs DEF KeyIs, RecordKey
  <2>5. SearchIs(RecordKey(table, record), Search(RecordKey(table, record)), Len(rows))
    BY <2>4, SearchFinds
  <2> QED
    BY <1>2, <2>5 DEF Outcome, SearchIs, RecordKey
<1> QED
  BY <1>1, <1>2

(* A table as it is created. *)
LEMMA CreateTableHolds ==
    ASSUME TableInv, NEW name, CreateTable(name)
    PROVE  TableInv'
<1>1. rows = <<>> /\ table = <<>>
  BY DEF TableInv, Held, CreateTable
<1>2. UNCHANGED <<rows, records>> /\ result' \in {"Ok", "Refused"}
  BY DEF CreateTable, Define
<1>3. Held(table, rows, records)
  BY DEF TableInv
<1>4. CASE UNCHANGED table
  BY <1>2, <1>3, <1>4 DEF TableInv, SearchEnds
<1>5. CASE table' # table
  <2>1. table' = new_table(name).made /\ new_table(name).err = "None"
    BY <1>5 DEF CreateTable, Define
  <2>2. table' = [table_id |-> 0, name |-> name, columns |-> <<>>, constraints |-> <<>>]
    BY <2>1 DEF new_table, Ok, Err
  <2>3. PICK none : none = <<>> /\ none \in Seq({}) /\ Len(none) = 0
    BY EmptySeq
  <2>4. table'.columns = none /\ table'.constraints = none
    BY <2>2, <2>3
  <2>5. IsTable(table')
    BY <2>2, <2>3, <2>4 DEF IsTable
  <2>6. rows' = none /\ Len(rows') = 0
    BY <1>1, <1>2, <2>3
  <2>7. Held(table', rows', records')
    BY <1>2, <1>3, <2>5, <2>6 DEF Held
  <2> QED
    BY <1>2, <2>7 DEF TableInv, SearchEnds
<1> QED
  BY <1>4, <1>5

(* A column is added to a table without records. *)
LEMMA AddColumnHolds ==
    ASSUME TableInv, NEW c \in ColumnInputs, AddColumn(c)
    PROVE  TableInv'
<1>1. rows = <<>> /\ table # <<>> /\ get_column(table, c.name) = <<>> /\ IsTable(table)
  BY DEF TableInv, Held, AddColumn
<1>2. PICK column : /\ column = IF from_str(c.text).err # "None" THEN from_str(c.text)
                                ELSE new_column(c.name, from_str(c.text).made, c.is_nullable, c.default_value)
                    /\ Define(column, add_column(table, column.made))
  BY DEF AddColumn
<1>3. UNCHANGED <<rows, records>> /\ result' \in {"Ok", "Refused"}
  BY <1>2 DEF Define
<1>4. Held(table, rows, records)
  BY DEF TableInv
<1>5. CASE UNCHANGED table
  BY <1>3, <1>4, <1>5 DEF TableInv, SearchEnds
<1>6. CASE table' # table
  <2>1. column.err = "None" /\ table' = add_column(table, column.made)
    BY <1>2, <1>6 DEF Define
  <2>2. from_str(c.text).err = "None" /\ c.text \in TypeText
    BY <1>2, <2>1, InputsAssumption DEF TypeText, Argument
  <2>3. PICK type : type = from_str(c.text).made /\ IsType(type)
    BY <2>2, FromStrType
  <2>4. column.made.name = c.name /\ column.made.data_type = type
    BY <1>2, <2>1, <2>2, <2>3 DEF new_column, Ok, Err
  <2>5. PICK S : table.columns \in Seq(S)
    BY <1>1 DEF IsTable
  <2>6. PICK made : made = column.made
    OBVIOUS
  <2>7. PICK columns : columns = table.columns /\ columns \in Seq(S \cup {made})
    BY <2>5
  <2>8. PICK n \in Nat : n = Len(columns)
    BY <2>7
  <2>9. PICK new : new = Append(columns, made)
    OBVIOUS
  <2>10. /\ new \in Seq(S \cup {made}) /\ Len(new) = n + 1 /\ new[n + 1] = made
         /\ \A i \in 1 .. n : new[i] = columns[i]
    BY <2>7, <2>8, <2>9
  <2>11. table' = [table EXCEPT !.columns = new]
    BY <2>1, <2>6, <2>7, <2>9 DEF add_column
  <2>12. PICK id, called, constraints :
             table = [table_id |-> id, name |-> called, columns |-> columns, constraints |-> constraints]
    BY <1>1, <2>7 DEF IsTable
  <2>13. table' = [table_id |-> id, name |-> called, columns |-> new, constraints |-> constraints]
    BY <2>11, <2>12
  <2>14. table'.columns = new /\ table'.constraints = table.constraints
    BY <2>12, <2>13
  <2>15. \A i \in 1 .. n : columns[i].name # c.name
    BY <1>1, <2>7, <2>8, ColumnIs
  <2>16. \A i, j \in 1 .. n : columns[i].name = columns[j].name => i = j
    BY <1>1, <2>7, <2>8 DEF IsTable
  <2>17. ASSUME NEW i \in 1 .. (n + 1), NEW j \in 1 .. (n + 1), new[i].name = new[j].name
         PROVE  i = j
    <3>1. \A k \in 1 .. (n + 1) : k = n + 1 \/ k \in 1 .. n
      OBVIOUS
    <3>2. CASE i \in 1 .. n /\ j \in 1 .. n
      BY <2>10, <2>16, <2>17, <3>2
    <3>3. CASE i = n + 1 \/ j = n + 1
      BY <2>4, <2>6, <2>10, <2>15, <2>17, <3>1, <3>3
    <3> QED
      BY <3>1, <3>2, <3>3
  <2>18. ASSUME NEW i \in 1 .. (n + 1) PROVE IsType(new[i].data_type)
    <3>1. \A k \in 1 .. n : IsType(columns[k].data_type)
      BY <1>1, <2>7, <2>8 DEF IsTable
    <3>2. CASE i \in 1 .. n
      BY <2>10, <3>1, <3>2
    <3>3. CASE i = n + 1
      BY <2>3, <2>4, <2>6, <2>10, <3>3
    <3> QED
      BY <3>2, <3>3
  <2>19. /\ \E R : table.constraints \in Seq(R)
         /\ \A i \in 1 .. Len(table.constraints) :
               table.constraints[i].kind = "PrimaryKey" => IsKey(table.constraints[i].column_names)
    BY <1>1 DEF IsTable
  <2>20. table' = [table_id |-> table'.table_id, name |-> table'.name, columns |-> table'.columns,
                   constraints |-> table'.constraints]
    BY <2>13
  <2>21. IsTable(table')
    BY <2>10, <2>14, <2>17, <2>18, <2>19, <2>20 DEF IsTable
  <2>22. Len(rows') = 0
    BY <1>1, <1>3
  <2>23. Held(table', rows', records')
    BY <1>1, <1>3, <1>4, <2>21, <2>22 DEF Held
  <2> QED
    BY <1>3, <2>23 DEF TableInv, SearchEnds
<1> QED
  BY <1>5, <1>6

(* The key of a record, by the primary key and the columns. *)
KeyFrom(primary, columns, record) ==
    LET names == col_names(primary[1])
        key[i \in 0 .. Len(columns)] ==
            IF i = 0 THEN Ok(<<>>)
            ELSE IF \A k \in DOMAIN names : names[k] # columns[i].name THEN key[i - 1]
            ELSE WithKeyValue(key[i - 1], KeyIndex(names, columns[i].name), record[i])
    IN  IF primary = <<>> THEN Err("Panic") ELSE key[Len(columns)]

(* The key depends on nothing else of the table. *)
LEMMA KeyFromIs ==
    ASSUME NEW t, NEW record
    PROVE  key_of_record(t, record) = KeyFrom(get_primary_key(t), t.columns, record)
  BY DEF key_of_record, KeyFrom

(* A constraint that is added later does not change the primary key. *)
LEMMA PrimaryKeyStays ==
    ASSUME NEW t, IsTable(t), NEW u, NEW constraint,
           u.constraints = Append(t.constraints, constraint), get_primary_key(t) # <<>>
    PROVE  get_primary_key(u) = get_primary_key(t)
<1>1. PICK S : t.constraints \in Seq(S)
  BY DEF IsTable
<1>2. PICK old : old = t.constraints /\ old \in Seq(S \cup {constraint})
  BY <1>1
<1>3. PICK n \in Nat : n = Len(old)
  BY <1>2
<1>4. PICK new : new = u.constraints
  OBVIOUS
<1>5. /\ new \in Seq(S \cup {constraint}) /\ Len(new) = n + 1 /\ DOMAIN new = 1 .. (n + 1)
      /\ \A i \in 1 .. n : new[i] = old[i]
  BY <1>2, <1>3, <1>4
<1>6. PICK keys : keys = PrimaryKeys(t)
  OBVIOUS
<1>7. PICK newkeys : newkeys = PrimaryKeys(u)
  OBVIOUS
<1>8. \A i : i \in keys <=> i \in 1 .. n /\ old[i].kind = "PrimaryKey"
  BY <1>2, <1>3, <1>6 DEF PrimaryKeys
<1>9. \A i : i \in newkeys <=> i \in 1 .. (n + 1) /\ new[i].kind = "PrimaryKey"
  BY <1>4, <1>5, <1>7 DEF PrimaryKeys
<1>10. keys # {} /\ keys \in SUBSET Nat /\ get_primary_key(t) = <<old[Min(keys)]>>
  BY <1>2, <1>6, PrimaryKeyIs
<1>11. Min(keys) \in keys /\ \A y \in keys : Min(keys) <= y
  BY <1>10, MinProperties
<1>12. PICK i \in 1 .. n : i = Min(keys) /\ i \in keys /\ i \in newkeys /\ new[i] = old[i]
  BY <1>5, <1>8, <1>9, <1>11
<1>13. newkeys \in SUBSET Nat
  BY <1>9
<1>14. Min(newkeys) \in newkeys /\ \A y \in newkeys : Min(newkeys) <= y
  BY <1>12, <1>13, MinProperties
<1>15. PICK j \in 1 .. (n + 1) : j = Min(newkeys) /\ j \in newkeys /\ j <= i
  BY <1>9, <1>12, <1>14
<1>16. j \in 1 .. n /\ j \in keys
  BY <1>5, <1>8, <1>9, <1>15
<1>17. i <= j
  BY <1>11, <1>12, <1>16
<1>18. Min(newkeys) = i
  BY <1>15, <1>17
<1>19. get_primary_key(u) = <<new[Min(newkeys)]>>
  BY <1>4, <1>7, <1>12 DEF get_primary_key, Find
<1> QED
  BY <1>10, <1>12, <1>18, <1>19

(* So the records of a table stay as they are. *)
LEMMA RowStays ==
    ASSUME NEW t, NEW u, u.columns = t.columns, get_primary_key(u) = get_primary_key(t), NEW record
    PROVE  /\ key_of_record(u, record) = key_of_record(t, record)
           /\ \A row : StoredRow(t, row, record) => StoredRow(u, row, record)
<1>1. key_of_record(u, record) = key_of_record(t, record)
  BY KeyFromIs
<1> QED
  BY <1>1 DEF StoredRow

(* A constraint is added, also to a table with records. *)
LEMMA AddConstraintHolds ==
    ASSUME TableInv, NEW c \in ConstraintInputs, AddConstraint(c)
    PROVE  TableInv'
<1>1. table # <<>> /\ IsTable(table) /\ Held(table, rows, records)
  BY DEF TableInv, Held, AddConstraint
<1>2. PICK constraint :
          /\ constraint = CASE c.kind = "PrimaryKey" -> primary_key(c.name, c.columns)
                            [] c.kind = "UniqueKey"  -> unique_key(c.name, c.columns)
                            [] OTHER -> foreign_key(c.name, c.columns, c.table, c.referenced,
                                                    c.on_update, c.on_delete)
          /\ Define(constraint, add_constraint(table, constraint.made))
  BY DEF AddConstraint
<1>3. UNCHANGED <<rows, records>> /\ result' \in {"Ok", "Refused"}
  BY <1>2 DEF Define
<1>4. CASE UNCHANGED table
  BY <1>1, <1>3, <1>4 DEF TableInv, SearchEnds
<1>5. CASE table' # table
  <2>1. constraint.err = "None" /\ table' = add_constraint(table, constraint.made)
    BY <1>2, <1>5 DEF Define
  <2>2. PICK made : made = constraint.made
    OBVIOUS
  <2>3. IsKey(c.columns)
    BY InputsAssumption DEF IsKey
  <2>4. made.kind = "PrimaryKey" => IsKey(made.column_names)
    <3>1. CASE c.kind = "PrimaryKey"
      <4>1. constraint = Key("PrimaryKey", c.name, c.columns)
        BY <1>2, <3>1 DEF primary_key
      <4> QED
        BY <2>1, <2>2, <2>3, <4>1 DEF Key, Ok, Err
    <3>2. CASE c.kind = "UniqueKey"
      <4>1. constraint = Key("UniqueKey", c.name, c.columns)
        BY <1>2, <3>2 DEF unique_key
      <4> QED
        BY <2>1, <2>2, <4>1 DEF Key, Ok, Err
    <3>3. CASE c.kind \notin {"PrimaryKey", "UniqueKey"}
      <4>1. constraint = foreign_key(c.name, c.columns, c.table, c.referenced, c.on_update, c.on_delete)
        BY <1>2, <3>3
      <4> QED
        BY <2>1, <2>2, <4>1 DEF foreign_key, Ok, Err
    <3> QED
      BY <3>1, <3>2, <3>3
  <2>5. PICK S : table.constraints \in Seq(S)
    BY <1>1 DEF IsTable
  <2>6. PICK old : old = table.constraints /\ old \in Seq(S \cup {made})
    BY <2>5
  <2>7. PICK n \in Nat : n = Len(old)
    BY <2>6
  <2>8. PICK new : new = Append(old, made)
    OBVIOUS
  <2>9. /\ new \in Seq(S \cup {made}) /\ Len(new) = n + 1 /\ new[n + 1] = made
        /\ \A i \in 1 .. n : new[i] = old[i]
    BY <2>6, <2>7, <2>8
  <2>10. table' = [table EXCEPT !.constraints = new]
    BY <2>1, <2>2, <2>6, <2>8 DEF add_constraint
  <2>11. PICK id, called, columns :
             table = [table_id |-> id, name |-> called, columns |-> columns, constraints |-> old]
    BY <1>1, <2>6 DEF IsTable
  <2>12. table' = [table_id |-> id, name |-> called, columns |-> columns, constraints |-> new]
    BY <2>10, <2>11
  <2>13. table'.columns = table.columns /\ table'.constraints = new
    BY <2>11, <2>12
  <2>14. \A i \in 1 .. n : old[i].kind = "PrimaryKey" => IsKey(old[i].column_names)
    BY <1>1, <2>6, <2>7 DEF IsTable
  <2>15. ASSUME NEW i \in 1 .. (n + 1), new[i].kind = "PrimaryKey" PROVE IsKey(new[i].column_names)
    <3>1. CASE i \in 1 .. n
      BY <2>9, <2>14, <2>15, <3>1
    <3>2. CASE i = n + 1
      BY <2>4, <2>9, <2>15, <3>2
    <3> QED
      BY <3>1, <3>2
  <2>16. table' = [table_id |-> table'.table_id, name |-> table'.name, columns |-> table'.columns,
                   constraints |-> table'.constraints]
    BY <2>12
  <2>17. /\ \E R : table.columns \in Seq(R)
         /\ \A i \in 1 .. Len(table.columns) : IsType(table.columns[i].data_type)
         /\ \A i, j \in 1 .. Len(table.columns) : table.columns[i].name = table.columns[j].name => i = j
    BY <1>1 DEF IsTable
  <2>18. IsTable(table')
    BY <2>9, <2>13, <2>15, <2>16, <2>17 DEF IsTable
  <2>19. PICK u : u = table'
    OBVIOUS
  <2>20. get_primary_key(table) # <<>> => get_primary_key(u) = get_primary_key(table)
    BY <1>1, <2>6, <2>8, <2>13, <2>19, PrimaryKeyStays
  <2>21. PICK m \in Nat : m = Len(rows)
    BY <1>1 DEF Held
  <2>22. ASSUME NEW i \in 1 .. m
         PROVE  StoredRow(u, rows[i], records[i]) /\ RecordKey(u, records[i]) = RecordKey(table, records[i])
    <3>1. StoredRow(table, rows[i], records[i])
      BY <1>1, <2>21 DEF Held
    <3>2. get_primary_key(u) = get_primary_key(table)
      BY <2>20, <3>1 DEF StoredRow
    <3> QED
      BY <2>13, <2>19, <3>1, <3>2, RowStays DEF RecordKey
  <2>23. \A i, j \in 1 .. m : i < j => key_relation(RecordKey(u, records[i]), RecordKey(u, records[j])) = "less"
    BY <1>1, <2>21, <2>22 DEF Held
  <2>24. u # <<>>
    BY <2>12, <2>19
  <2>25. Held(u, rows, records)
    BY <1>1, <2>18, <2>19, <2>21, <2>22, <2>23, <2>24 DEF Held
  <2> QED
    BY <1>3, <2>19, <2>25 DEF TableInv, SearchEnds
<1> QED
  BY <1>4, <1>5

(* A record is inserted, or refused. *)
LEMMA InsertHolds ==
    ASSUME TableInv, Defined, NEW record \in Candidates, insert_record(record)
    PROVE  TableInv'
<1>1. Held(table, rows, records)
  BY DEF TableInv
<1>2. CASE Outcome(record) = "Ok"
  <2>1. PICK c : c = Search(RecordKey(table, record)).slot
    OBVIOUS
  <2>2. PICK row : row = serialize(table.columns, record).made
    OBVIOUS
  <2>3. /\ rows' = InsertAt(rows, c + 1, row) /\ records' = InsertAt(records, c + 1, record)
        /\ result' = "Ok" /\ UNCHANGED table
    BY <1>2, <2>1, <2>2 DEF insert_record, RecordKey
  <2>4. StoredRow(table, row, record) /\ row \in Seq(Byte) /\ c \in 0 .. Len(rows) /\ InPlace(table, records, record, c)
    BY <1>2, <2>1, <2>2, OutcomeOk
  <2>5. Held(table, InsertAt(rows, c + 1, row), InsertAt(records, c + 1, record))
    BY <1>1, <2>4, InsertHeld DEF Defined
  <2> QED
    BY <2>3, <2>5 DEF TableInv, SearchEnds
<1>3. CASE Outcome(record) # "Ok"
  <2>1. UNCHANGED <<table, rows, records>> /\ result' = IF Outcome(record) = "DuplicateKey" THEN "Refused" ELSE Outcome(record)
    BY <1>3 DEF insert_record
  <2>2. Outcome(record) \in {"Panic", "DuplicateKey", "Ok"}
    BY OutcomeEnds
  <2> QED
    BY <1>1, <2>1, <2>2 DEF TableInv, SearchEnds
<1> QED
  BY <1>2, <1>3

(* Every step of a table keeps its records readable, in order and found. *)
THEOREM TableInvariant == Spec => []TableInv
<1>1. Init => TableInv
  <2> SUFFICES ASSUME Init PROVE TableInv
    OBVIOUS
  <2>1. table = <<>> /\ rows = <<>> /\ records = <<>> /\ result = "Ok"
    BY DEF Init
  <2>2. <<>> \in Seq(Seq(Byte)) /\ Len(<<>>) = 0
    BY EmptySeq
  <2>3. Held(table, rows, records)
    BY <2>1, <2>2 DEF Held
  <2> QED
    BY <2>1, <2>3 DEF TableInv, SearchEnds
<1>2. TableInv /\ [Next]_vars => TableInv'
  <2> SUFFICES ASSUME TableInv, [Next]_vars PROVE TableInv'
    OBVIOUS
  <2>1. ASSUME NEW name \in TableNames, CreateTable(name) PROVE TableInv'
    BY <2>1, CreateTableHolds
  <2>2. ASSUME NEW c \in ColumnInputs, AddColumn(c) PROVE TableInv'
    BY <2>2, AddColumnHolds
  <2>3. ASSUME NEW c \in ConstraintInputs, AddConstraint(c) PROVE TableInv'
    BY <2>3, AddConstraintHolds
  <2>4. ASSUME table # <<>>, NEW r \in Candidates, insert_record(r) PROVE TableInv'
    BY <2>4, InsertHolds DEF Defined
  <2>5. CASE UNCHANGED vars
    BY <2>5 DEF TableInv, SearchEnds, vars
  <2> QED
    BY <2>1, <2>2, <2>3, <2>4, <2>5 DEF Next
<1> QED
  BY <1>1, <1>2, PTL DEF Spec

-----------------------------------------------------------------------------
(* The properties of a table *)

(* serialize() refuses compatible values only when one is an Int in a      *)
(* BigInt column.                                                          *)
LEMMA SerializeRefuses ==
    ASSUME NEW columns, NEW record, RecordOf(columns, record), serialize(columns, record).err # "None"
    PROVE  \E k \in 1 .. Len(columns) : record[k].variant = "Int" /\ columns[k].data_type.name = "BigInt"
<1>1. DOMAIN columns = 1 .. Len(columns)
  BY DEF RecordOf
<1>2. PICK i \in 1 .. Len(columns) : ColumnError(columns, record, i) # "None"
  BY <1>1 DEF serialize, Ok
<1>3. PICK v : v = record[i]
  OBVIOUS
<1>4. PICK column : column = columns[i]
  OBVIOUS
<1>5. v # Null
  BY <1>2, <1>3 DEF ColumnError
<1>6. Fits(v, column.data_type) /\ IsType(column.data_type)
  BY <1>3, <1>4, <1>5 DEF RecordOf
<1>7. SUFFICES ASSUME ~(v.variant = "Int" /\ column.data_type.name = "BigInt") PROVE FALSE
  BY <1>3, <1>4
<1>8. CASE HasFixedSize(column.data_type)
  <2>1. column.data_type.name \notin {"Varchar", "Blob"}
    BY <1>6, <1>8, TypeKinds
  <2>2. v.variant = column.data_type.name
    BY <1>6, <1>7, <2>1, ValueKinds
  <2>3. column.data_type.name # "Text"
    BY <1>6, TypeKinds
  <2>4. ~Variable(v)
    BY <2>1, <2>2, <2>3 DEF Variable
  <2>5. Len(FixedBytes(v, get_fixed_size(column.data_type))) = get_fixed_size(column.data_type)
    BY <1>6, <1>8, <2>2, FixedRoundTrip
  <2> QED
    BY <1>2, <1>3, <1>4, <1>5, <1>8, <2>4, <2>5 DEF ColumnError
<1>9. CASE ~HasFixedSize(column.data_type)
  <2>1. column.data_type.name \in {"Varchar", "Blob"}
    BY <1>6, <1>9, TypeKinds
  <2>2. Variable(v)
    BY <1>6, <2>1, ValueKinds DEF Variable
  <2> QED
    BY <1>2, <1>3, <1>4, <1>5, <1>9, <2>2 DEF ColumnError
<1> QED
  BY <1>8, <1>9

(* The rows of a table that satisfies the invariant. *)
LEMMA RowsAre ==
    ASSUME TableInv
    PROVE  /\ Len(rows) \in Nat /\ DOMAIN rows = 1 .. Len(rows) /\ DOMAIN records = 1 .. Len(rows)
           /\ \A i \in 1 .. Len(rows) :
                 /\ table # <<>> /\ IsTable(table) /\ StoredRow(table, rows[i], records[i])
                 /\ HasKey(table, records[i]) /\ ReadsBack(table.columns, records[i], rows[i])
<1>1. Len(rows) \in Nat /\ DOMAIN rows = 1 .. Len(rows)
  BY DEF TableInv, Held
<1>2. PICK S : records \in Seq(S)
  BY DEF TableInv, Held
<1>3. DOMAIN records = 1 .. Len(rows)
  BY <1>2 DEF TableInv, Held
<1>4. ASSUME NEW i \in 1 .. Len(rows)
      PROVE  table # <<>> /\ IsTable(table) /\ StoredRow(table, rows[i], records[i])
  <2>1. rows # <<>>
    BY <1>1
  <2> QED
    BY <2>1 DEF TableInv, Held
<1> QED
  BY <1>1, <1>3, <1>4, StoredRowIs

(* A stored record reads back as it was inserted, for every number of      *)
(* columns, width of a byte and set of values: deserialize() inverts       *)
(* serialize().                                                            *)
THEOREM StoredRecordsReadBack == Spec => []RoundTrip
<1>1. TableInv => RoundTrip
  <2> SUFFICES ASSUME TableInv, NEW i \in DOMAIN rows
               PROVE  /\ rows[i] \in Seq(0 .. (Base - 1))
                      /\ deserialize(table.columns, rows[i]) =
                          IF \E k \in DOMAIN table.columns :
                                 records[i][k] = Null /\ ~table.columns[k].is_nullable
                          THEN Err("NullValueForNonNullColumnFound") ELSE Ok(records[i])
    BY DEF RoundTrip
  <2>1. IsTable(table) /\ StoredRow(table, rows[i], records[i]) /\ ReadsBack(table.columns, records[i], rows[i])
    BY RowsAre
  <2>2. rows[i] \in Seq(0 .. (Base - 1))
    BY <2>1 DEF ReadsBack, Byte
  <2>3. DOMAIN table.columns = 1 .. Len(table.columns)
    BY <2>1 DEF IsTable
  <2>4. PICK record \in [1 .. Len(table.columns) -> Values] : record = records[i]
    BY <2>1 DEF StoredRow
  <2> QED
    BY <2>1, <2>2, <2>3, <2>4, DeserializeIs
<1> QED
  BY <1>1, TableInvariant, PTL

(* A key is read from the bytes of a record as the values of its columns,  *)
(* in the order of the key: deserialize_key().                             *)
THEOREM StoredKeysAgree == Spec => []KeyAgrees
<1>1. TableInv => KeyAgrees
  <2> SUFFICES ASSUME TableInv, NEW i \in DOMAIN rows, NEW k \in DOMAIN table.columns,
                      NEW l \in DOMAIN table.columns, NEW at, at = IF k = l THEN <<k>> ELSE <<k, l>>
               PROVE  deserialize_key(table.columns, [j \in DOMAIN at |-> table.columns[at[j]]], rows[i]) =
                          IF Null \in {records[i][at[j]] : j \in DOMAIN at} THEN Err("NullPrimaryKeyColumnValue")
                          ELSE Ok([j \in DOMAIN at |-> records[i][at[j]]])
    BY DEF KeyAgrees
  <2>1. IsTable(table) /\ ReadsBack(table.columns, records[i], rows[i])
    BY RowsAre
  <2>2. k \in 1 .. Len(table.columns) /\ l \in 1 .. Len(table.columns)
    BY <2>1 DEF IsTable
  <2>3. PICK n \in Nat : at \in [1 .. n -> 1 .. Len(table.columns)]
    <3>1. CASE k = l
      <4>1. at \in [1 .. 1 -> 1 .. Len(table.columns)]
        BY <2>2, <3>1
      <4> QED
        BY <4>1
    <3>2. CASE k # l
      <4>1. at \in [1 .. 2 -> 1 .. Len(table.columns)]
        BY <2>2, <3>2
      <4> QED
        BY <4>1
    <3> QED
      BY <3>1, <3>2
  <2>4. PICK cols : cols = [j \in DOMAIN at |-> table.columns[at[j]]]
    OBVIOUS
  <2>5. KeyColumns(table, records[i], rows[i], cols, at, n)
    BY <2>1, <2>3, <2>4 DEF KeyColumns
  <2>6. deserialize_key(table.columns, cols, rows[i]) = KeyRead(records[i], at, n)
    BY <2>5, DeserializeKeyIs
  <2>7. DOMAIN at = 1 .. n
    BY <2>3
  <2>8. Null \in {records[i][at[j]] : j \in DOMAIN at} <=> \E j \in 1 .. n : records[i][at[j]] = Null
    BY <2>7
  <2>9. [j \in DOMAIN at |-> records[i][at[j]]] = [j \in 1 .. n |-> records[i][at[j]]]
    BY <2>7
  <2> QED
    BY <2>4, <2>6, <2>8, <2>9 DEF KeyRead
<1> QED
  BY <1>1, TableInvariant, PTL

(* The stored records are in the order of their keys, without duplicates:  *)
(* LeafNodeView::insert_record() puts each at the slot that find_key()     *)
(* returns, and no later constraint changes the order.                     *)
THEOREM StoredRecordsSorted == Spec => []IndexSorted
<1>1. TableInv => IndexSorted
  <2> SUFFICES ASSUME TableInv, NEW i \in DOMAIN rows, NEW j \in DOMAIN rows, i < j
               PROVE  key_relation(key_of_record(table, records[i]).made,
                                   key_of_record(table, records[j]).made) = "less"
    BY DEF IndexSorted
  <2>1. i \in 1 .. Len(rows) /\ j \in 1 .. Len(rows)
    BY RowsAre
  <2>2. key_relation(RecordKey(table, records[i]), RecordKey(table, records[j])) = "less"
    BY <2>1 DEF TableInv, Held
  <2> QED
    BY <2>2 DEF RecordKey
<1> QED
  BY <1>1, TableInvariant, PTL

(* The search of an insertion never loops for ever: any two keys of values *)
(* compare, and the loop of find_key() narrows its interval.               *)
THEOREM SearchesEnd == Spec => []SearchEnds
<1>1. TableInv => SearchEnds
  BY DEF TableInv
<1> QED
  BY <1>1, TableInvariant, PTL

(* Keys that Key's Eq finds equal feed the same bytes to its Hash. *)
THEOREM EqualKeysHash == Spec => []EqualKeysHashAlike
<1>1. TableInv => EqualKeysHashAlike
  <2> SUFFICES ASSUME TableInv, rows # <<>>, NEW r \in Candidates, NEW q \in Candidates,
                      NEW k, NEW l, k = key_of_record(table, r).made, l = key_of_record(table, q).made,
                      key_eq(k, l), NEW j \in DOMAIN k
               PROVE  value_hash(k[j]) = value_hash(l[j])
    BY DEF EqualKeysHashAlike
  <2>1. 1 \in 1 .. Len(rows)
    BY DEF TableInv, Held
  <2>2. IsTable(table) /\ get_primary_key(table) # <<>>
    BY <2>1, RowsAre DEF StoredRow
  <2>3. HasKey(table, r) /\ HasKey(table, q)
    BY <2>2, CandidateIs
  <2>4. k \in Seq(Values) /\ l \in Seq(Values)
    BY <2>3, RecordKeyIs DEF KeyIs
  <2> QED
    BY <2>4, KeyOrder DEF KeysCompare
<1> QED
  BY <1>1, TableInvariant, PTL

(* The Display of a column's type parses to the type with FromStr. *)
THEOREM TypeTextsParse == Spec => []TypeTextRoundTrip
<1>1. TableInv => TypeTextRoundTrip
  <2> SUFFICES ASSUME TableInv, Defined, NEW i \in DOMAIN table.columns
               PROVE  from_str(display(table.columns[i].data_type)) = Ok(table.columns[i].data_type)
    BY DEF TypeTextRoundTrip
  <2>1. IsTable(table)
    BY DEF TableInv, Held, Defined
  <2>2. IsType(table.columns[i].data_type)
    BY <2>1 DEF IsTable
  <2> QED
    BY <2>2, DisplayParses
<1> QED
  BY <1>1, TableInvariant, PTL

(* With a primary key whose columns are in the order of the table, and no  *)
(* null in a stored key, insert_record() panics on compatible values only  *)
(* for an Int in a BigInt column.                                          *)
THEOREM PanicsAreExplained == Spec => []PanicsExplained
<1>1. TableInv => PanicsExplained
  <2> SUFFICES ASSUME TableInv, Defined, get_primary_key(table) # <<>>, KeyInTableOrder,
                      \A i \in DOMAIN records : Null \notin Range(key_of_record(table, records[i]).made),
                      NEW r \in Candidates, Outcome(r) = "Panic"
               PROVE  \E k \in DOMAIN r : r[k].variant = "Int" /\ table.columns[k].data_type.name = "BigInt"
    BY DEF PanicsExplained
  <2>1. IsTable(table)
    BY DEF TableInv, Held, Defined
  <2>2. HasKey(table, r) /\ RecordOf(table.columns, r) /\ DOMAIN r = 1 .. Len(table.columns)
    BY <2>1, CandidateIs
  <2>3. KeyNames = KeyOf(table)
    BY <2>1, PrimaryKeyIs DEF KeyNames
  <2>4. OrderedKey(table, KeyOf(table)) /\ ~Missing(table, KeyOf(table))
    BY <2>3 DEF KeyInTableOrder, OrderedKey
  <2>5. key_of_record(table, r).err = "None" /\ RecordKey(table, r) \in Seq(Values)
    BY <2>2, <2>4, RecordKeyIs DEF KeyIs, RecordKey
  <2>6. Search(RecordKey(table, r)).ends
    <3> SUFFICES ASSUME ~Search(RecordKey(table, r)).ends PROVE FALSE
      OBVIOUS
    <3>1. SearchIs(RecordKey(table, r), Search(RecordKey(table, r)), Len(rows))
      BY <2>5, SearchFinds
    <3>2. PICK mid \in 0 .. (Len(rows) - 1) : StoredKey(mid).err # "None"
      BY <3>1 DEF SearchIs
    <3>3. mid + 1 \in 1 .. Len(rows)
      BY RowsAre
    <3>4. StoredRow(table, rows[mid + 1], records[mid + 1]) /\ mid + 1 \in DOMAIN records
      BY <3>3, RowsAre
    <3>5. deserialize_primary_key(table, rows[mid + 1]).err = "None"
      BY <2>1, <2>4, <3>4, StoredKeyIs
    <3> QED
      BY <3>2, <3>5 DEF StoredKey
  <2>7. serialize(table.columns, r).err # "None"
    BY <2>5, <2>6 DEF Outcome, RecordKey
  <2> QED
    BY <2>2, <2>7, SerializeRefuses
<1> QED
  BY <1>1, TableInvariant, PTL
=============================================================================
