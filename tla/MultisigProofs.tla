----------------------------- MODULE MultisigProofs -----------------------------
(***************************************************************************)
(* What a machine signs and completes, for any group of prime order, any   *)
(* threshold and polynomial the key is shared by, any participants,        *)
(* sessions and transactions, and whatever dishonest participants say.     *)
(*                                                                         *)
(* The first part is Lagrange's interpolation, modulo the group's order.   *)
(* With a factor for each participant of S, for any x of S, the sum of     *)
(* l * g[l] is x times the sum of g[l], less x times that over S \ {x}.    *)
(* Of g = 1 this gives that the factors add up to one, by induction on S,  *)
(* and of g a polynomial, by induction on its degree, that its value at    *)
(* zero is what is interpolated from as many shares as the threshold.      *)
(***************************************************************************)
EXTENDS MultisigSigning, OrderProofs

---------------------------------------------------------------------------------
(* Scalars: integers modulo the group's order. *)

Congruent(a, b) == \E k \in Int : a = b + k * Field

\* The order, as a number.
LEMMA FieldType == Field \in Nat /\ Field > 1 /\ Field \in Int
BY FieldAssumption

\* Being congruent is an equivalence, which sums and products keep.
LEMMA CongruentSelf == ASSUME NEW a \in Int PROVE Congruent(a, a)
<1>1. a = a + 0 * Field /\ 0 \in Int
  BY FieldType
<1>. QED
  BY <1>1 DEF Congruent

LEMMA CongruentSym == ASSUME NEW a \in Int, NEW b \in Int, Congruent(a, b) PROVE Congruent(b, a)
<1>1. PICK k \in Int : a = b + k * Field
  BY DEF Congruent
<1>2. (0 - k) \in Int /\ b = a + (0 - k) * Field
  BY <1>1, FieldType
<1>. QED
  BY <1>2 DEF Congruent

LEMMA CongruentTrans ==
  ASSUME NEW a \in Int, NEW b \in Int, NEW c \in Int, Congruent(a, b), Congruent(b, c)
  PROVE  Congruent(a, c)
<1>1. PICK k \in Int : a = b + k * Field
  BY DEF Congruent
<1>2. PICK j \in Int : b = c + j * Field
  BY DEF Congruent
<1>3. k + j \in Int /\ a = c + (k + j) * Field
  BY <1>1, <1>2, FieldType
<1>. QED
  BY <1>3 DEF Congruent

LEMMA CongruentAdd ==
  ASSUME NEW a \in Int, NEW b \in Int, NEW c \in Int, NEW d \in Int, Congruent(a, b), Congruent(c, d)
  PROVE  Congruent(a + c, b + d)
<1>1. PICK k \in Int : a = b + k * Field
  BY DEF Congruent
<1>2. PICK j \in Int : c = d + j * Field
  BY DEF Congruent
<1>3. k + j \in Int /\ a + c = (b + d) + (k + j) * Field
  BY <1>1, <1>2, FieldType
<1>. QED
  BY <1>3 DEF Congruent

LEMMA CongruentTimes ==
  ASSUME NEW a \in Int, NEW b \in Int, NEW c \in Int, Congruent(a, b)
  PROVE  Congruent(a * c, b * c) /\ Congruent(c * a, c * b)
<1>1. PICK k \in Int : a = b + k * Field
  BY DEF Congruent
<1>2. k * c \in Int /\ a * c = b * c + (k * c) * Field
  BY <1>1, FieldType
<1>3. Congruent(a * c, b * c)
  BY <1>2 DEF Congruent
<1>4. a * c = c * a /\ b * c = c * b
  OBVIOUS
<1>. QED
  BY <1>3, <1>4

\* What % leaves.
LEMMA CongruentMod ==
  ASSUME NEW a \in Int
  PROVE  a % Field \in Scalars /\ Congruent(a, a % Field) /\ Congruent(a % Field, a)
<1>1. a % Field \in 0 .. Field - 1 /\ a = Field * (a \div Field) + (a % Field) /\ a \div Field \in Int
  BY FieldType
<1>2. a = (a % Field) + (a \div Field) * Field
  BY <1>1, FieldType
<1>3. Congruent(a, a % Field)
  BY <1>1, <1>2 DEF Congruent
<1>4. a % Field \in Int
  BY <1>1
<1>. QED
  BY <1>1, <1>3, <1>4, CongruentSym DEF Scalars

\* Congruent scalars are the same.
LEMMA CongruentScalars ==
  ASSUME NEW a \in Scalars, NEW b \in Scalars, Congruent(a, b)
  PROVE  a = b
<1>1. PICK k \in Int : a = b + k * Field
  BY DEF Congruent
<1>2. a \in 0 .. Field - 1 /\ b \in 0 .. Field - 1
  BY DEF Scalars
<1>3. ~(k >= 1)
  <2>. SUFFICES ASSUME k >= 1 PROVE FALSE
    OBVIOUS
  <2>1. k * Field >= Field
    BY FieldType
  <2>. QED
    BY <1>1, <1>2, <2>1, FieldType
<1>4. ~(k <= -1)
  <2>. SUFFICES ASSUME k <= -1 PROVE FALSE
    OBVIOUS
  <2>1. k * Field <= 0 - Field
    BY FieldType
  <2>. QED
    BY <1>1, <1>2, <2>1, FieldType
<1>5. k = 0
  BY <1>3, <1>4
<1>. QED
  BY <1>1, <1>2, <1>5, FieldType

\* What is congruent has the same remainder.
LEMMA SameRemainder ==
  ASSUME NEW a \in Int, NEW b \in Int, Congruent(a, b)
  PROVE  a % Field = b % Field
<1>1. a % Field \in Scalars /\ b % Field \in Scalars /\ Congruent(a % Field, a) /\ Congruent(b, b % Field)
  BY CongruentMod
<1>2. a % Field \in Int /\ b % Field \in Int
  BY <1>1, FieldType DEF Scalars
<1>3. Congruent(a % Field, b)
  BY <1>1, <1>2, CongruentTrans
<1>4. Congruent(a % Field, b % Field)
  BY <1>1, <1>2, <1>3, CongruentTrans
<1>. QED
  BY <1>1, <1>4, CongruentScalars

\* The inverse of what is not zero.
LEMMA Inverts ==
  ASSUME NEW a \in Int, a % Field # 0
  PROVE  Invert(a % Field) \in 1 .. Field - 1 /\ Congruent(a * Invert(a % Field), 1)
<1>. DEFINE x == a % Field
            y == Invert(x)
<1>1. x \in 1 .. Field - 1 /\ Congruent(a, x)
  BY CongruentMod, FieldType DEF Scalars
<1>. HIDE DEF x
<1>2. y \in 1 .. Field - 1 /\ (x * y) % Field = 1
  BY <1>1, FieldAssumption DEF Invert
<1>. HIDE DEF y
<1>3. x \in Int /\ y \in Int /\ x * y \in Int /\ a * y \in Int /\ 1 \in Int
  BY <1>1, <1>2
<1>4. Congruent(x * y, 1)
  BY <1>2, <1>3, CongruentMod
<1>5. Congruent(a * y, x * y)
  BY <1>1, <1>3, CongruentTimes
<1>6. Congruent(a * y, 1)
  BY <1>3, <1>4, <1>5, CongruentTrans
<1>. QED
  BY <1>2, <1>6 DEF x, y

\* A factor which is not zero is cancelled.
LEMMA CongruentCancel ==
  ASSUME NEW a \in Int, NEW b \in Int, NEW c \in Int, c % Field # 0, Congruent(c * a, c * b)
  PROVE  Congruent(a, b)
<1>1. PICK y \in Int : Congruent(c * y, 1)
  <2>1. Invert(c % Field) \in 1 .. Field - 1 /\ Congruent(c * Invert(c % Field), 1)
    BY Inverts
  <2>. QED
    BY <2>1
<1>0. c * a \in Int /\ c * b \in Int /\ c * y \in Int /\ 1 \in Int
  OBVIOUS
<1>2. Congruent((c * a) * y, (c * b) * y)
  BY <1>0, CongruentTimes
<1>3. (c * a) * y = (c * y) * a /\ (c * b) * y = (c * y) * b
  OBVIOUS
<1>4. Congruent((c * y) * a, 1 * a) /\ Congruent((c * y) * b, 1 * b)
  BY <1>0, <1>1, CongruentTimes
<1>5. (c * y) * a \in Int /\ (c * y) * b \in Int /\ 1 * a = a /\ 1 * b = b
  OBVIOUS
<1>6. Congruent(a, (c * y) * a)
  BY <1>4, <1>5, CongruentSym
<1>7. Congruent((c * y) * a, (c * y) * b)
  BY <1>2, <1>3
<1>8. Congruent(a, (c * y) * b)
  BY <1>5, <1>6, <1>7, CongruentTrans
<1>. QED
  BY <1>4, <1>5, <1>8, CongruentTrans

\* The sum of what is congruent to a combination of two numbers, is to that of their sums.
LEMMA SumCongruent ==
  ASSUME NEW n \in Nat, NEW f, NEW g, NEW h, NEW a \in Int, NEW b \in Int,
         \A i \in 1 .. n : At(f, i, 0) \in Int /\ At(g, i, 0) \in Int /\ At(h, i, 0) \in Int,
         \A i \in 1 .. n : Congruent(At(h, i, 0), a * At(f, i, 0) + b * At(g, i, 0))
  PROVE  /\ SumUpTo(f, n) \in Int /\ SumUpTo(g, n) \in Int /\ SumUpTo(h, n) \in Int
         /\ Congruent(SumUpTo(h, n), a * SumUpTo(f, n) + b * SumUpTo(g, n))
<1>1. PICK s \in [0 .. n -> Int] : SumsOf(s, f, n) /\ SumUpTo(f, n) = s[n]
  BY SumUpToIs
<1>2. PICK t \in [0 .. n -> Int] : SumsOf(t, g, n) /\ SumUpTo(g, n) = t[n]
  BY SumUpToIs
<1>3. PICK u \in [0 .. n -> Int] : SumsOf(u, h, n) /\ SumUpTo(h, n) = u[n]
  BY SumUpToIs
<1>. DEFINE S == {i \in 0 .. n : ~Congruent(u[i], a * s[i] + b * t[i])}
<1>4. S = {}
  <2>. SUFFICES ASSUME S # {} PROVE FALSE
    OBVIOUS
  <2>1. S \in SUBSET Nat
    OBVIOUS
  <2>2. PICK j \in S : \A m \in S : j <= m
    <3>. HIDE DEF S
    <3>. QED
      BY <2>1, LeastNatural
  <2>3. CASE j = 0
    <3>1. u[j] = 0 /\ a * s[j] + b * t[j] = 0
      BY <1>1, <1>2, <1>3, <2>3 DEF SumsOf
    <3>. QED
      BY <3>1, CongruentSelf
  <2>4. CASE j # 0
    <3>1. j - 1 \in 0 .. n /\ j \in 1 .. n /\ j - 1 \notin S
      <4>1. j \in 0 .. n
        OBVIOUS
      <4>2. j - 1 \in 0 .. n /\ j \in 1 .. n /\ ~(j <= j - 1)
        BY <2>4, <4>1
      <4>. HIDE DEF S
      <4>. QED
        BY <2>2, <4>2
    <3>2. Congruent(u[j - 1], a * s[j - 1] + b * t[j - 1])
      BY <3>1
    <3>3. Congruent(At(h, j, 0), a * At(f, j, 0) + b * At(g, j, 0))
      BY <3>1
    <3>. DEFINE p == At(f, j, 0)
                q == At(g, j, 0)
                r == At(h, j, 0)
    <3>4. p \in Int /\ q \in Int /\ r \in Int /\ s[j - 1] \in Int /\ t[j - 1] \in Int /\ u[j - 1] \in Int
      BY <3>1
    <3>5. u[j] = u[j - 1] + r /\ s[j] = s[j - 1] + p /\ t[j] = t[j - 1] + q
      BY <1>1, <1>2, <1>3, <3>1 DEF SumsOf
    <3>. DEFINE s1 == s[j - 1]
                t1 == t[j - 1]
    <3>. HIDE DEF p, q, r, S, s1, t1
    <3>6. a * p + b * q \in Int /\ a * s1 + b * t1 \in Int
      <4>1. p \in Int /\ q \in Int /\ s1 \in Int /\ t1 \in Int
        BY <3>4 DEF s1, t1
      <4>. QED
        BY <4>1
    <3>7. Congruent(u[j - 1] + r, (a * s1 + b * t1) + (a * p + b * q))
      BY <3>2, <3>3, <3>4, <3>6, CongruentAdd DEF p, q, r, s1, t1
    <3>8. (a * s1 + b * t1) + (a * p + b * q) = a * (s1 + p) + b * (t1 + q)
      <4>1. p \in Int /\ q \in Int /\ s1 \in Int /\ t1 \in Int
        BY <3>4 DEF s1, t1
      <4>. QED
        BY <4>1
    <3>9. Congruent(u[j], a * s[j] + b * t[j])
      BY <3>5, <3>7, <3>8 DEF s1, t1
    <3>. QED
      BY <3>9 DEF S
  <2>. QED
    BY <2>3, <2>4
<1>5. Congruent(u[n], a * s[n] + b * t[n])
  <2>1. n \in 0 .. n
    OBVIOUS
  <2>. QED
    BY <1>4, <2>1, Zenon
<1>. QED
  BY <1>1, <1>2, <1>3, <1>5

---------------------------------------------------------------------------------
(* Interpolation. *)

Points == 1 .. Field - 1

\* The difference of two participants is not zero, and so has an inverse.
LEMMA DifferentScalars ==
  ASSUME NEW m \in Points, NEW l \in Points, m # l
  PROVE  (m - l) % Field # 0
<1>. SUFFICES ASSUME (m - l) % Field = 0 PROVE FALSE
  OBVIOUS
<1>0. m \in Scalars /\ l \in Scalars /\ m \in Int /\ l \in Int /\ m - l \in Int /\ 0 \in Int
  BY FieldType DEF Points, Scalars
<1>1. Congruent(m - l, 0)
  BY <1>0, CongruentMod
<1>2. Congruent(l, l)
  BY <1>0, CongruentSelf
<1>3. Congruent((m - l) + l, 0 + l)
  BY <1>0, <1>1, <1>2, CongruentAdd
<1>4. (m - l) + l = m /\ 0 + l = l
  BY <1>0
<1>5. Congruent(m, l)
  BY <1>3, <1>4
<1>. QED
  BY <1>0, <1>5, CongruentScalars

\* What InterpolationFactor multiplies.
Ratios(S, l) == [m \in S \ {l} |-> m * Invert((m - l) % Field)]

\* These are numbers.
LEMMA RatiosType ==
  ASSUME NEW S \in SUBSET Points, NEW l \in Points
  PROVE  \A i \in 1 .. Field - 1 : At(Ratios(S, l), i, 1) \in Int
<1>. SUFFICES ASSUME NEW i \in 1 .. Field - 1 PROVE At(Ratios(S, l), i, 1) \in Int
  OBVIOUS
<1>1. CASE i \in S \ {l}
  <2>1. (i - l) % Field # 0 /\ i - l \in Int /\ i \in Int
    BY <1>1, DifferentScalars, FieldType DEF Points
  <2>2. Invert((i - l) % Field) \in 1 .. Field - 1
    BY <2>1, Inverts
  <2>3. Invert((i - l) % Field) \in Int
    BY <2>2
  <2>4. At(Ratios(S, l), i, 1) = i * Invert((i - l) % Field)
    BY <1>1 DEF Ratios, At
  <2>. QED
    BY <2>1, <2>3, <2>4
<1>2. CASE i \notin S \ {l}
  BY <1>2 DEF Ratios, At
<1>. QED
  BY <1>1, <1>2

\* A factor is a scalar.
LEMMA FactorType ==
  ASSUME NEW S \in SUBSET Points, NEW l \in Points
  PROVE  /\ ProductUpTo(Ratios(S, l), Field - 1) \in Int /\ InterpolationFactor(S, l) \in Scalars
         /\ InterpolationFactor(S, l) = ProductUpTo(Ratios(S, l), Field - 1) % Field
<1>0. Field - 1 \in Nat
  BY FieldType
<1>1. \A i \in 1 .. Field - 1 : At(Ratios(S, l), i, 1) \in Int
  BY RatiosType
<1>2. PICK p \in [0 .. Field - 1 -> Int] : ProductUpTo(Ratios(S, l), Field - 1) = p[Field - 1]
  BY <1>0, <1>1, ProductUpToIs
<1>3. ProductUpTo(Ratios(S, l), Field - 1) \in Int
  BY <1>0, <1>2
<1>4. InterpolationFactor(S, l) = ProductUpTo(Ratios(S, l), Field - 1) % Field
  BY DEF InterpolationFactor, Ratios
<1>. QED
  BY <1>3, <1>4, CongruentMod

\* A factor without one of the participants.
LEMMA FactorRemove ==
  ASSUME NEW S \in SUBSET Points, NEW x \in S, NEW l \in S, l # x
  PROVE  Congruent(InterpolationFactor(S, l),
                   (x * Invert((x - l) % Field)) * InterpolationFactor(S \ {x}, l))
<1>. DEFINE n == Field - 1
            f == Ratios(S, l)
            g == Ratios(S \ {x}, l)
            c == x * Invert((x - l) % Field)
            p == ProductUpTo(f, n)
            q == ProductUpTo(g, n)
<1>0. n \in Nat /\ x \in 1 .. n /\ l \in Points /\ S \ {x} \in SUBSET Points
  BY FieldType DEF Points
<1>1. \A i \in 1 .. n : At(f, i, 1) \in Int
  BY <1>0, RatiosType
<1>2. At(g, x, 1) = 1 /\ At(f, x, 1) = c
  BY DEF At, Ratios
<1>3. \A i \in 1 .. n : i # x => At(g, i, 1) = At(f, i, 1)
  BY DEF At, Ratios
<1>4. c \in Int
  BY <1>0, <1>1, <1>2
<1>5. /\ p \in Int /\ InterpolationFactor(S, l) = p % Field
      /\ q \in Int /\ InterpolationFactor(S \ {x}, l) = q % Field
  BY <1>0, FactorType
<1>. HIDE DEF n, f, g, c
<1>6. p = c * q
  <2>1. ProductUpTo(f, n) = At(f, x, 1) * ProductUpTo(g, n)
    BY <1>0, <1>1, <1>2, <1>3, ProductRemove
  <2>. QED
    BY <1>2, <2>1
<1>. HIDE DEF p, q
<1>7. /\ Congruent(p % Field, p) /\ Congruent(q, q % Field)
      /\ p % Field \in Int /\ q % Field \in Int /\ c * q \in Int /\ c * (q % Field) \in Int
  <2>1. p % Field \in Scalars /\ q % Field \in Scalars
    BY <1>5, CongruentMod
  <2>2. p % Field \in Int /\ q % Field \in Int
    BY <2>1, FieldType DEF Scalars
  <2>. QED
    BY <1>4, <1>5, <2>2, CongruentMod
<1>8. Congruent(c * q, c * (q % Field))
  BY <1>4, <1>5, <1>7, CongruentTimes
<1>9. Congruent(p % Field, c * (q % Field))
  BY <1>5, <1>6, <1>7, <1>8, CongruentTrans
<1>. QED
  BY <1>5, <1>9 DEF c

\* By which the place times a factor is a multiple of the factor, and of that without one of the participants.
LEMMA FactorTimesPlace ==
  ASSUME NEW S \in SUBSET Points, NEW x \in S, NEW l \in S, l # x
  PROVE  Congruent(l * InterpolationFactor(S, l),
                   x * InterpolationFactor(S, l) + (0 - x) * InterpolationFactor(S \ {x}, l))
<1>. DEFINE A == InterpolationFactor(S, l)
            B == InterpolationFactor(S \ {x}, l)
            u == x - l
            w == Invert(u % Field)
<1>0. x \in Int /\ l \in Int /\ u \in Int /\ S \ {x} \in SUBSET Points /\ x \in Points /\ l \in Points
  BY FieldType DEF Points
<1>1. A \in Int /\ B \in Int
  <2>1. A \in Scalars /\ B \in Scalars
    BY <1>0, FactorType
  <2>. QED
    BY <2>1, FieldType DEF Scalars
<1>2. w \in Int /\ Congruent(u * w, 1)
  <2>1. u % Field # 0
    BY <1>0, DifferentScalars
  <2>2. w \in 1 .. Field - 1 /\ Congruent(u * w, 1)
    BY <1>0, <2>1, Inverts
  <2>. QED
    BY <2>2
<1>3. Congruent(A, (x * w) * B)
  BY FactorRemove
<1>4. l = x - u
  BY <1>0
<1>. HIDE DEF A, B, u, w
<1>5. (x * w) * B \in Int /\ u * A \in Int /\ u * w \in Int /\ x * B \in Int /\ 1 \in Int
  BY <1>0, <1>1, <1>2
<1>6. Congruent(u * A, u * ((x * w) * B))
  BY <1>0, <1>1, <1>3, <1>5, CongruentTimes
<1>7. u * ((x * w) * B) = (u * w) * (x * B)
  BY <1>0, <1>1, <1>2
<1>8. Congruent((u * w) * (x * B), 1 * (x * B))
  BY <1>2, <1>5, CongruentTimes
<1>9. 1 * (x * B) = x * B /\ (u * w) * (x * B) \in Int
  BY <1>5
<1>10. Congruent(u * A, x * B)
  BY <1>5, <1>6, <1>7, <1>8, <1>9, CongruentTrans
<1>11. Congruent((-1) * (u * A), (-1) * (x * B))
  BY <1>5, <1>10, CongruentTimes
<1>12. x * A \in Int /\ (-1) * (u * A) \in Int /\ (-1) * (x * B) \in Int
  BY <1>0, <1>1, <1>5
<1>13. Congruent(x * A + (-1) * (u * A), x * A + (-1) * (x * B))
  BY <1>11, <1>12, CongruentSelf, CongruentAdd
<1>14. x * A + (-1) * (u * A) = (x - u) * A
  BY <1>0, <1>1
<1>15. x * A + (-1) * (x * B) = x * A + (0 - x) * B
  BY <1>0, <1>1
<1>. QED
  BY <1>4, <1>13, <1>14, <1>15 DEF A, B

\* The interpolation, at zero, of what g is at the participants of S.
Weighted(g, S) == [l \in S |-> g[l] * InterpolationFactor(S, l)]
Interpolation(g, S) == SumUpTo(Weighted(g, S), Field - 1)

\* What is added up is a number for each participant of S.
LEMMA WeightedType ==
  ASSUME NEW S \in SUBSET Points, NEW g \in [Points -> Int]
  PROVE  \A i \in 1 .. Field - 1 :
           /\ InterpolationFactor(S, i) \in Int /\ g[i] \in Int
           /\ At(Weighted(g, S), i, 0) = IF i \in S THEN g[i] * InterpolationFactor(S, i) ELSE 0
           /\ At(Weighted(g, S), i, 0) \in Int
<1>. SUFFICES ASSUME NEW i \in 1 .. Field - 1
              PROVE  /\ InterpolationFactor(S, i) \in Int /\ g[i] \in Int
                     /\ At(Weighted(g, S), i, 0) = IF i \in S THEN g[i] * InterpolationFactor(S, i) ELSE 0
                     /\ At(Weighted(g, S), i, 0) \in Int
  OBVIOUS
<1>1. i \in Points
  BY DEF Points
<1>2. InterpolationFactor(S, i) \in Int
  BY <1>1, FactorType, FieldType DEF Scalars
<1>3. At(Weighted(g, S), i, 0) = IF i \in S THEN g[i] * InterpolationFactor(S, i) ELSE 0
  BY DEF At, Weighted
<1>4. g[i] \in Int
  BY <1>1
<1>. QED
  BY <1>2, <1>3, <1>4

\* The interpolation of what is congruent to a combination, is to that of the interpolations.
LEMMA InterpolationCongruent ==
  ASSUME NEW S \in SUBSET Points, NEW f \in [Points -> Int], NEW g \in [Points -> Int], NEW h \in [Points -> Int],
         NEW a \in Int, NEW b \in Int, \A l \in S : Congruent(h[l], a * f[l] + b * g[l])
  PROVE  /\ Interpolation(f, S) \in Int /\ Interpolation(g, S) \in Int /\ Interpolation(h, S) \in Int
         /\ Congruent(Interpolation(h, S), a * Interpolation(f, S) + b * Interpolation(g, S))
<1>. DEFINE n == Field - 1
            F == Weighted(f, S)
            G == Weighted(g, S)
            H == Weighted(h, S)
<1>0. n \in Nat
  BY FieldType
<1>1. \A i \in 1 .. n : At(F, i, 0) \in Int /\ At(G, i, 0) \in Int /\ At(H, i, 0) \in Int
  BY WeightedType
<1>2. ASSUME NEW i \in 1 .. n PROVE Congruent(At(H, i, 0), a * At(F, i, 0) + b * At(G, i, 0))
  <2>1. PICK e : e = InterpolationFactor(S, i)
    OBVIOUS
  <2>2. /\ At(F, i, 0) = IF i \in S THEN f[i] * e ELSE 0
        /\ At(G, i, 0) = IF i \in S THEN g[i] * e ELSE 0
        /\ At(H, i, 0) = IF i \in S THEN h[i] * e ELSE 0
    BY <2>1, WeightedType
  <2>3. e \in Int /\ f[i] \in Int /\ g[i] \in Int /\ h[i] \in Int
    BY <2>1, WeightedType
  <2>. HIDE DEF F, G, H
  <2>4. CASE i \in S
    <3>1. PICK p \in Int, q \in Int, r \in Int : p = f[i] /\ q = g[i] /\ r = h[i]
      BY <2>3
    <3>2. a * p + b * q \in Int /\ Congruent(r, a * p + b * q)
      BY <2>4, <3>1
    <3>3. Congruent(r * e, (a * p + b * q) * e)
      BY <2>3, <3>2, CongruentTimes
    <3>4. (a * p + b * q) * e = a * (p * e) + b * (q * e)
      BY <2>3
    <3>. QED
      BY <2>2, <2>4, <3>1, <3>3, <3>4
  <2>5. CASE i \notin S
    <3>1. a * 0 + b * 0 = 0
      OBVIOUS
    <3>. QED
      BY <2>2, <2>5, <3>1, CongruentSelf
  <2>. QED
    BY <2>4, <2>5
<1>. HIDE DEF n, F, G, H
<1>3. /\ SumUpTo(F, n) \in Int /\ SumUpTo(G, n) \in Int /\ SumUpTo(H, n) \in Int
      /\ Congruent(SumUpTo(H, n), a * SumUpTo(F, n) + b * SumUpTo(G, n))
  BY <1>0, <1>1, <1>2, SumCongruent
<1>. QED
  BY <1>3 DEF Interpolation, n, F, G, H

\* The interpolation of what g is times the place, by that of g with and without one of the participants.
LEMMA InterpolationTimesPlace ==
  ASSUME NEW S \in SUBSET Points, NEW x \in S, NEW g \in [Points -> Int], NEW h \in [Points -> Int],
         \A l \in Points : h[l] = l * g[l]
  PROVE  /\ Interpolation(g, S) \in Int /\ Interpolation(g, S \ {x}) \in Int /\ Interpolation(h, S) \in Int
         /\ Congruent(Interpolation(h, S), x * Interpolation(g, S) + (0 - x) * Interpolation(g, S \ {x}))
<1>. DEFINE n == Field - 1
            F == Weighted(g, S)
            G == Weighted(g, S \ {x})
            H == Weighted(h, S)
<1>0. n \in Nat /\ x \in Int /\ 0 - x \in Int /\ S \ {x} \in SUBSET Points
  BY FieldType DEF Points
<1>1. \A i \in 1 .. n : At(F, i, 0) \in Int /\ At(G, i, 0) \in Int /\ At(H, i, 0) \in Int
  BY <1>0, WeightedType
<1>2. ASSUME NEW i \in 1 .. n PROVE Congruent(At(H, i, 0), x * At(F, i, 0) + (0 - x) * At(G, i, 0))
  <2>1. PICK A, B : A = InterpolationFactor(S, i) /\ B = InterpolationFactor(S \ {x}, i)
    OBVIOUS
  <2>2. /\ At(F, i, 0) = IF i \in S THEN g[i] * A ELSE 0
        /\ At(G, i, 0) = IF i \in S \ {x} THEN g[i] * B ELSE 0
        /\ At(H, i, 0) = IF i \in S THEN h[i] * A ELSE 0
    BY <1>0, <2>1, WeightedType
  <2>3. A \in Int /\ B \in Int /\ g[i] \in Int /\ h[i] = i * g[i] /\ i \in Int
    <3>1. A \in Int /\ g[i] \in Int
      BY <2>1, WeightedType
    <3>2. B \in Int
      BY <1>0, <2>1, WeightedType
    <3>3. i \in Points
      BY DEF Points
    <3>. QED
      BY <3>1, <3>2, <3>3
  <2>4. PICK p \in Int : p = g[i]
    BY <2>3
  <2>. HIDE DEF F, G, H
  <2>5. CASE i \in S /\ i # x
    <3>1. Congruent(i * A, x * A + (0 - x) * B)
      BY <2>1, <2>5, FactorTimesPlace
    <3>2. i * A \in Int /\ x * A + (0 - x) * B \in Int
      BY <1>0, <2>3
    <3>3. Congruent(p * (i * A), p * (x * A + (0 - x) * B))
      BY <3>1, <3>2, CongruentTimes
    <3>4. p * (i * A) = (i * p) * A /\ p * (x * A + (0 - x) * B) = x * (p * A) + (0 - x) * (p * B)
      BY <1>0, <2>3
    <3>. QED
      BY <2>2, <2>3, <2>4, <2>5, <3>3, <3>4
  <2>6. CASE i = x
    <3>1. (x * p) * A = x * (p * A) + (0 - x) * 0 /\ (x * p) * A \in Int
      BY <1>0, <2>3
    <3>2. Congruent((x * p) * A, x * (p * A) + (0 - x) * 0)
      BY <3>1, CongruentSelf
    <3>. QED
      BY <2>2, <2>3, <2>4, <2>6, <3>2
  <2>7. CASE i \notin S
    <3>1. x * 0 + (0 - x) * 0 = 0
      BY <1>0
    <3>. QED
      BY <2>2, <2>7, <3>1, CongruentSelf
  <2>. QED
    BY <2>5, <2>6, <2>7
<1>. HIDE DEF n, F, G, H
<1>3. /\ SumUpTo(F, n) \in Int /\ SumUpTo(G, n) \in Int /\ SumUpTo(H, n) \in Int
      /\ Congruent(SumUpTo(H, n), x * SumUpTo(F, n) + (0 - x) * SumUpTo(G, n))
  BY <1>0, <1>1, <1>2, SumCongruent
<1>. QED
  BY <1>3 DEF Interpolation, n, F, G, H

Ones == [l \in Points |-> 1]

\* The factor of a participant alone is one.
LEMMA OnesAlone ==
  ASSUME NEW x \in Points
  PROVE  Interpolation(Ones, {x}) = 1
<1>. DEFINE n == Field - 1
            f == Ratios({x}, x)
<1>0. n \in Nat /\ x \in 1 .. n /\ Ones \in [Points -> Int] /\ {x} \in SUBSET Points
  BY FieldType DEF Points, Ones
<1>1. \A i \in 1 .. n : At(f, i, 1) = 1
  BY DEF At, Ratios
<1>2. ProductUpTo(f, n) = 1
  <2>. HIDE DEF n, f
  <2>1. \A i \in 1 .. n : At(f, i, 1) \in Int
    BY <1>1
  <2>2. PICK p \in [0 .. n -> Int] : ProductsOf(p, f, n) /\ ProductUpTo(f, n) = p[n]
    BY <1>0, <2>1, ProductUpToIs
  <2>. DEFINE S == {i \in 0 .. n : p[i] # 1}
  <2>3. S = {}
    <3>. SUFFICES ASSUME S # {} PROVE FALSE
      OBVIOUS
    <3>1. S \in SUBSET Nat
      OBVIOUS
    <3>2. PICK j \in S : \A m \in S : j <= m
      <4>. HIDE DEF S
      <4>. QED
        BY <3>1, LeastNatural
    <3>3. CASE j = 0
      BY <2>2, <3>3 DEF ProductsOf
    <3>4. CASE j # 0
      <4>1. j - 1 \in 0 .. n /\ j \in 1 .. n /\ j - 1 \notin S
        <5>1. j \in 0 .. n
          OBVIOUS
        <5>2. j - 1 \in 0 .. n /\ j \in 1 .. n /\ ~(j <= j - 1)
          BY <1>0, <3>4, <5>1
        <5>. HIDE DEF S
        <5>. QED
          BY <3>2, <5>2
      <4>2. p[j] = p[j - 1] * At(f, j, 1) /\ p[j - 1] = 1 /\ At(f, j, 1) = 1
        BY <1>1, <2>2, <4>1 DEF ProductsOf
      <4>. QED
        BY <4>2
    <3>. QED
      BY <3>3, <3>4
  <2>. QED
    BY <1>0, <2>2, <2>3
<1>3. InterpolationFactor({x}, x) = 1
  <2>1. InterpolationFactor({x}, x) = 1 % Field
    BY <1>0, <1>2, FactorType
  <2>. QED
    BY <2>1, FieldType
<1>. DEFINE w == Weighted(Ones, {x})
<1>4. At(w, x, 0) = 1 /\ \A i \in 1 .. n : i # x => At(w, i, 0) = 0
  BY <1>0, <1>3, WeightedType DEF Ones
<1>. HIDE DEF n, w
<1>5. At(w, x, 0) \in Int
  BY <1>4
<1>6. SumUpTo(w, n) = 1
  BY <1>0, <1>4, <1>5, SumOfOne
<1>. QED
  BY <1>6 DEF Interpolation, n, w

\* The factors of any participants add up to one.
LEMMA InterpolatesOne ==
  ASSUME NEW S \in SUBSET Points, S # {}
  PROVE  Interpolation(Ones, S) \in Int /\ Congruent(Interpolation(Ones, S), 1)
<1>. DEFINE P(T) == Interpolation(Ones, T) \in Int /\ Congruent(Interpolation(Ones, T), 1)
            Bad == {k \in Nat : \E T \in SUBSET Points : T # {} /\ Cardinality(T) = k /\ ~P(T)}
<1>0. Ones \in [Points -> Int]
  BY DEF Ones
<1>1. IsFiniteSet(Points)
  BY FieldType, FS_Interval DEF Points
<1>2. \A T \in SUBSET Points : IsFiniteSet(T) /\ Cardinality(T) \in Nat
  BY <1>1, FS_Subset, FS_CardinalityType
<1>3. SUFFICES ASSUME Bad # {} PROVE FALSE
  <2>1. Bad = {} => P(S)
    BY <1>2
  <2>. HIDE DEF Bad
  <2>. QED
    BY <2>1
<1>4. Bad \in SUBSET Nat
  OBVIOUS
<1>5. PICK k \in Bad : \A j \in Bad : k <= j
  <2>. HIDE DEF Bad
  <2>. QED
    BY <1>3, <1>4, LeastNatural
<1>6. PICK T \in SUBSET Points : T # {} /\ Cardinality(T) = k /\ ~P(T)
  OBVIOUS
<1>7. PICK x \in T : TRUE
  BY <1>6
<1>8. CASE T = {x}
  <2>1. Interpolation(Ones, T) = 1
    BY <1>8, OnesAlone
  <2>. QED
    BY <1>6, <2>1, CongruentSelf
<1>9. CASE T # {x}
  <2>1. PICK y \in T : y # x
    BY <1>9
  <2>2. ASSUME NEW z \in T
        PROVE  Interpolation(Ones, T \ {z}) \in Int /\ Congruent(Interpolation(Ones, T \ {z}), 1)
    <3>1. T \ {z} \in SUBSET Points /\ T \ {z} # {}
      BY <1>7, <2>1
    <3>2. Cardinality(T \ {z}) = k - 1
      BY <1>2, <1>6, FS_RemoveElement
    <3>3. Cardinality(T \ {z}) \in Nat
      BY <1>2, <3>1
    <3>4. Cardinality(T \ {z}) \notin Bad
      <4>1. ~(k <= k - 1)
        OBVIOUS
      <4>. HIDE DEF Bad
      <4>. QED
        BY <1>5, <3>2, <4>1
    <3>. QED
      BY <3>1, <3>3, <3>4
  <2>. DEFINE places == [l \in Points |-> l]
              a == Interpolation(Ones, T)
              b == Interpolation(places, T)
  <2>3. places \in [Points -> Int] /\ \A l \in Points : places[l] = l * Ones[l]
    BY FieldType DEF Points, Ones
  <2>. HIDE DEF places
  <2>4. ASSUME NEW z \in T
        PROVE  a \in Int /\ b \in Int /\ z \in Int /\ Congruent(b, z * a + (0 - z) * 1)
    <3>. DEFINE c == Interpolation(Ones, T \ {z})
    <3>1. a \in Int /\ b \in Int /\ Congruent(b, z * a + (0 - z) * c)
      BY <1>0, <2>3, InterpolationTimesPlace
    <3>2. c \in Int /\ Congruent(c, 1) /\ z \in Int /\ 0 - z \in Int
      BY <2>2, FieldType DEF Points
    <3>. HIDE DEF a, b, c
    <3>3. Congruent((0 - z) * c, (0 - z) * 1)
      <4>1. 1 \in Int
        OBVIOUS
      <4>2. \A d \in Int : Congruent(d * c, d * 1)
        BY <3>2, <4>1, CongruentTimes, Zenon
      <4>. QED
        BY <3>2, <4>2
    <3>4. z * a \in Int /\ (0 - z) * c \in Int /\ (0 - z) * 1 \in Int
      BY <3>1, <3>2
    <3>5. Congruent(z * a + (0 - z) * c, z * a + (0 - z) * 1)
      BY <3>3, <3>4, CongruentAdd, CongruentSelf
    <3>6. z * a + (0 - z) * c \in Int /\ z * a + (0 - z) * 1 \in Int
      BY <3>4
    <3>7. Congruent(b, z * a + (0 - z) * 1)
      BY <3>1, <3>5, <3>6, CongruentTrans
    <3>. QED
      BY <3>1, <3>2, <3>7
  <2>. HIDE DEF a, b
  <2>5. a \in Int /\ b \in Int /\ x \in Int /\ y \in Int
    BY <1>7, <2>1, <2>4
  <2>6. x * a + (0 - x) * 1 \in Int /\ y * a + (0 - y) * 1 \in Int
    BY <2>5
  <2>7. Congruent(x * a + (0 - x) * 1, y * a + (0 - y) * 1)
    <3>1. Congruent(b, x * a + (0 - x) * 1) /\ Congruent(b, y * a + (0 - y) * 1)
      BY <1>7, <2>1, <2>4
    <3>2. Congruent(x * a + (0 - x) * 1, b)
      BY <2>5, <2>6, <3>1, CongruentSym
    <3>. QED
      BY <2>5, <2>6, <3>1, <3>2, CongruentTrans
  <2>. DEFINE r == x - y * a
  <2>8. r \in Int
    BY <2>5
  <2>9. Congruent((x * a + (0 - x) * 1) + r, (y * a + (0 - y) * 1) + r)
    BY <2>6, <2>7, <2>8, CongruentAdd, CongruentSelf
  <2>10. (x * a + (0 - x) * 1) + r = (x - y) * a /\ (y * a + (0 - y) * 1) + r = (x - y) * 1
    BY <2>5
  <2>11. Congruent((x - y) * a, (x - y) * 1)
    BY <2>9, <2>10
  <2>12. (x - y) % Field # 0 /\ x - y \in Int
    BY <1>7, <2>1, <2>5, DifferentScalars
  <2>13. Congruent(a, 1)
    BY <2>5, <2>11, <2>12, CongruentCancel
  <2>. QED
    BY <1>6, <2>5, <2>13 DEF a
<1>. QED
  BY <1>8, <1>9

\* The values of a polynomial with each of its coefficients, from the last, at the participants.
IsPolynomial(V, c, k) ==
  /\ V \in [0 .. k -> [Points -> Int]] /\ c \in [1 .. k -> Int]
  /\ \A l \in Points : V[0][l] = 0
  /\ \A i \in 1 .. k : \A l \in Points : Congruent(V[i][l], c[i] + l * V[i - 1][l])

\* Lagrange: as many participants as a polynomial has coefficients determine the last of them.
LEMMA InterpolatesPolynomial ==
  ASSUME NEW k \in Nat \ {0}, NEW V, NEW c, IsPolynomial(V, c, k),
         NEW S \in SUBSET Points, Cardinality(S) >= k
  PROVE  Interpolation(V[k], S) \in Int /\ Congruent(Interpolation(V[k], S), c[k])
<1>. DEFINE e(i) == IF i = 0 THEN 0 ELSE c[i]
            P(i, T) == Interpolation(V[i], T) \in Int /\ Congruent(Interpolation(V[i], T), e(i))
            Bad == {i \in 0 .. k : \E T \in SUBSET Points : Cardinality(T) >= i /\ ~P(i, T)}
<1>1. IsFiniteSet(Points)
  BY FieldType, FS_Interval DEF Points
<1>2. \A T \in SUBSET Points : IsFiniteSet(T) /\ Cardinality(T) \in Nat
  BY <1>1, FS_Subset, FS_CardinalityType
<1>3. Ones \in [Points -> Int]
  BY DEF Ones
<1>4. SUFFICES ASSUME Bad # {} PROVE FALSE
  <2>1. k \in 0 .. k /\ e(k) = c[k]
    OBVIOUS
  <2>2. Bad = {} => P(k, S)
    <3>. HIDE DEF P
    <3>. QED
      BY <2>1, Zenon
  <2>. HIDE DEF Bad
  <2>. QED
    BY <2>1, <2>2
<1>5. Bad \in SUBSET Nat
  OBVIOUS
<1>6. PICK i \in Bad : \A j \in Bad : i <= j
  <2>. HIDE DEF Bad
  <2>. QED
    BY <1>4, <1>5, LeastNatural
<1>7. PICK T \in SUBSET Points : Cardinality(T) >= i /\ ~P(i, T)
  <2>. HIDE DEF P
  <2>. QED
    OBVIOUS
<1>8. i \in 0 .. k
  OBVIOUS
<1>9. CASE i = 0
  <2>1. V[0] \in [Points -> Int] /\ \A l \in T : Congruent(V[0][l], 0 * Ones[l] + 0 * Ones[l])
    <3>1. \A l \in T : V[0][l] = 0 /\ 0 * Ones[l] + 0 * Ones[l] = 0
      BY DEF IsPolynomial, Ones
    <3>2. Congruent(0, 0)
      BY CongruentSelf
    <3>3. V[0] \in [Points -> Int]
      BY DEF IsPolynomial
    <3>. QED
      BY <3>1, <3>2, <3>3
  <2>. DEFINE a == Interpolation(Ones, T)
  <2>2. Interpolation(V[0], T) \in Int /\ a \in Int /\ Congruent(Interpolation(V[0], T), 0 * a + 0 * a)
    <3>1. 0 \in Int
      OBVIOUS
    <3>. QED
      BY <1>3, <2>1, <3>1, InterpolationCongruent, Zenon
  <2>. HIDE DEF a
  <2>3. 0 * a + 0 * a = 0
    BY <2>2
  <2>. QED
    BY <1>7, <1>9, <2>2, <2>3
<1>10. CASE i # 0
  <2>1. i - 1 \in 0 .. k /\ i \in 1 .. k /\ i - 1 \notin Bad
    <3>1. i - 1 \in 0 .. k /\ i \in 1 .. k /\ ~(i <= i - 1)
      BY <1>8, <1>10
    <3>. HIDE DEF Bad
    <3>. QED
      BY <1>6, <3>1
  <2>. DEFINE g == V[i - 1]
              d == e(i - 1)
  <2>2. \A U \in SUBSET Points :
          Cardinality(U) >= i - 1 => Interpolation(g, U) \in Int /\ Congruent(Interpolation(g, U), d)
    <3>1. \A U \in SUBSET Points : Cardinality(U) >= i - 1 => P(i - 1, U)
      <4>. HIDE DEF P
      <4>. QED
        BY <2>1, Zenon
    <3>. QED
      BY <3>1
  <2>3. g \in [Points -> Int] /\ V[i] \in [Points -> Int] /\ c[i] \in Int /\ d \in Int
    <3>1. V[i - 1] \in [Points -> Int] /\ V[i] \in [Points -> Int] /\ c[i] \in Int
      BY <2>1 DEF IsPolynomial
    <3>2. i - 1 # 0 => c[i - 1] \in Int
      BY <2>1 DEF IsPolynomial
    <3>. QED
      BY <3>1, <3>2
  <2>4. \A l \in Points : Congruent(V[i][l], c[i] + l * g[l])
    BY <2>1 DEF IsPolynomial
  <2>. HIDE DEF g, d
  <2>5. PICK x \in T : TRUE
    <3>1. T # {}
      BY <1>7, <1>8, <1>10, FS_EmptySet
    <3>. QED
      BY <3>1
  <2>6. T \ {x} \in SUBSET Points /\ Cardinality(T \ {x}) >= i - 1 /\ Cardinality(T) >= i - 1
    <3>1. Cardinality(T \ {x}) = Cardinality(T) - 1
      BY <1>2, FS_RemoveElement
    <3>. QED
      BY <1>2, <1>7, <1>8, <3>1
  <2>. DEFINE h == [l \in Points |-> l * g[l]]
              a == Interpolation(g, T)
              b == Interpolation(g, T \ {x})
              o == Interpolation(Ones, T)
              w == Interpolation(h, T)
              v == Interpolation(V[i], T)
  <2>7. a \in Int /\ b \in Int /\ Congruent(a, d) /\ Congruent(b, d)
    BY <2>2, <2>6
  <2>8. h \in [Points -> Int] /\ \A l \in Points : h[l] = l * g[l]
    BY <2>3, FieldType DEF Points
  <2>. HIDE DEF h
  <2>9. w \in Int /\ x \in Int /\ Congruent(w, x * a + (0 - x) * b)
    <3>1. w \in Int /\ Congruent(w, x * a + (0 - x) * b)
      BY <2>3, <2>8, InterpolationTimesPlace, Zenon
    <3>. QED
      BY <3>1, FieldType DEF Points
  <2>10. o \in Int /\ Congruent(o, 1)
    BY <2>5, InterpolatesOne
  <2>11. v \in Int /\ Congruent(v, c[i] * o + 1 * w)
    <3>1. ASSUME NEW l \in T PROVE Congruent(V[i][l], c[i] * Ones[l] + 1 * h[l])
      <4>1. Congruent(V[i][l], c[i] + h[l]) /\ h[l] \in Int /\ Ones[l] = 1
        BY <2>4, <2>8 DEF Ones
      <4>2. c[i] * 1 + 1 * h[l] = c[i] + h[l]
        BY <2>3, <4>1
      <4>. QED
        BY <4>1, <4>2
    <3>2. 1 \in Int
      OBVIOUS
    <3>. QED
      BY <1>3, <2>3, <2>8, <3>1, <3>2, InterpolationCongruent, Zenon
  <2>. HIDE DEF a, b, o, w, v
  <2>12. Congruent(w, 0)
    <3>1. \A p \in Int : Congruent(p * a, p * d) /\ Congruent(p * b, p * d)
      BY <2>3, <2>7, CongruentTimes
    <3>2. 0 - x \in Int
      BY <2>9
    <3>3. Congruent(x * a, x * d) /\ Congruent((0 - x) * b, (0 - x) * d)
      BY <2>9, <3>1, <3>2
    <3>4. x * a \in Int /\ x * d \in Int /\ (0 - x) * b \in Int /\ (0 - x) * d \in Int
      BY <2>3, <2>7, <2>9
    <3>5. Congruent(x * a + (0 - x) * b, x * d + (0 - x) * d)
      BY <3>3, <3>4, CongruentAdd
    <3>6. x * d + (0 - x) * d = 0 /\ x * a + (0 - x) * b \in Int
      BY <2>3, <2>9, <3>4
    <3>. QED
      BY <2>9, <3>5, <3>6, CongruentTrans
  <2>13. Congruent(c[i] * o, c[i] * 1)
    BY <2>3, <2>10, CongruentTimes
  <2>14. c[i] * o \in Int /\ c[i] * 1 = c[i] /\ 1 * w = w /\ c[i] * o + 1 * w \in Int
    BY <2>3, <2>9, <2>10
  <2>15. Congruent(c[i] * o + w, c[i] + 0)
    <3>1. Congruent(c[i] * o, c[i]) /\ c[i] * o \in Int /\ c[i] \in Int /\ w \in Int
      BY <2>3, <2>9, <2>13, <2>14
    <3>2. 0 \in Int
      OBVIOUS
    <3>. QED
      BY <2>12, <3>1, <3>2, CongruentAdd, Zenon
  <2>16. Congruent(v, c[i])
    <3>1. c[i] + 0 = c[i]
      BY <2>3
    <3>. QED
      BY <2>3, <2>11, <2>14, <2>15, <3>1, CongruentTrans
  <2>. QED
    BY <1>7, <1>10, <2>11, <2>16 DEF v
<1>. QED
  BY <1>9, <1>10

---------------------------------------------------------------------------------
(* The key's shares, and the key images they make. *)

\* A share is the polynomial's value, by Horner's rule.
IsShare(f, l) ==
  /\ f \in [0 .. Threshold -> Int] /\ f[0] = 0 /\ SecretShare(l) = f[Threshold]
  /\ \A i \in 1 .. Threshold : f[i] = (Coefficients[Threshold + 1 - i] + l * f[i - 1]) % Field

\* There are as many coefficients as the threshold.
LEMMA ThresholdType == Threshold \in Nat \ {0} /\ \A i \in 1 .. Threshold : Coefficients[i] \in Int
<1>1. \A i \in 1 .. Threshold : Coefficients[i] \in Scalars
  BY ScalarsAssumption
<1>. QED
  BY <1>1, ParticipantsAssumption, FieldType DEF Scalars

\* Every participant has a share.
LEMMA ShareIs ==
  ASSUME NEW l \in Points
  PROVE  \E f : IsShare(f, l)
<1>. DEFINE n == Threshold
            c == [i \in 1 .. n |-> Coefficients[n + 1 - i]]
            step == [i \in 1 .. n |-> [x \in Int |-> (c[i] + l * x) % Field]]
<1>0. n \in Nat /\ l \in Int
  BY ThresholdType, FieldType DEF Points
<1>1. \A i \in 1 .. n : c[i] \in Int /\ c[i] = Coefficients[Threshold + 1 - i]
  <2>. SUFFICES ASSUME NEW i \in 1 .. n PROVE c[i] \in Int /\ c[i] = Coefficients[Threshold + 1 - i]
    OBVIOUS
  <2>1. n + 1 - i \in 1 .. Threshold
    BY <1>0
  <2>. QED
    BY <2>1, ThresholdType
<1>. HIDE DEF n, c
<1>2. \A i \in 1 .. n : \A x \in Int : (c[i] + l * x) % Field \in Int
  <2>. SUFFICES ASSUME NEW i \in 1 .. n, NEW x \in Int PROVE (c[i] + l * x) % Field \in Int
    OBVIOUS
  <2>1. c[i] + l * x \in Int
    BY <1>0, <1>1
  <2>2. (c[i] + l * x) % Field \in Scalars
    BY <2>1, CongruentMod
  <2>. QED
    BY <2>2, FieldType DEF Scalars
<1>3. step \in [1 .. n -> [Int -> Int]] /\ \A i \in 1 .. n : \A x \in Int : step[i][x] = (c[i] + l * x) % Field
  BY <1>2
<1>. HIDE DEF step
<1>4. PICK f \in [0 .. n -> Int] : f[0] = 0 /\ \A i \in 1 .. n : f[i] = step[i][f[i - 1]]
  <2>1. 0 \in Int
    OBVIOUS
  <2>2. \E f \in [0 .. n -> Int] : Recursion(f, 0, step, n)
    BY <1>0, <1>3, <2>1, RecursionExists
  <2>. QED
    BY <2>2 DEF Recursion
<1>5. \A i \in 1 .. n : f[i] = (c[i] + l * f[i - 1]) % Field
  <2>1. \A i \in 1 .. n : f[i - 1] \in Int
    BY <1>0
  <2>. QED
    BY <1>3, <1>4, <2>1
<1>6. \A i \in 1 .. n : f[i] = (Coefficients[n + 1 - i] + l * f[i - 1]) % Field
  BY <1>1, <1>5 DEF n
<1>. DEFINE D(g) == [i \in 0 .. n |-> IF i = 0 THEN 0 ELSE (Coefficients[n + 1 - i] + l * g[i - 1]) % Field]
            value == CHOOSE g : g = D(g)
<1>7. f = D(f)
  <2>1. \A i \in 0 .. n : f[i] = IF i = 0 THEN 0 ELSE (Coefficients[n + 1 - i] + l * f[i - 1]) % Field
    BY <1>0, <1>4, <1>6
  <2>. QED
    BY <2>1
<1>8. value = D(value)
  BY <1>7
<1>9. SecretShare(l) = value[n]
  BY DEF SecretShare, n
<1>10. \A i \in 0 .. n : value[i] = IF i = 0 THEN 0 ELSE (Coefficients[n + 1 - i] + l * value[i - 1]) % Field
  <2>. HIDE DEF value
  <2>. QED
    BY <1>8
<1>. HIDE DEF value
<1>. DEFINE S == {i \in 0 .. n : value[i] # f[i]}
<1>11. S = {}
  <2>. SUFFICES ASSUME S # {} PROVE FALSE
    OBVIOUS
  <2>1. S \in SUBSET Nat
    OBVIOUS
  <2>2. PICK k \in S : \A m \in S : k <= m
    <3>. HIDE DEF S
    <3>. QED
      BY <2>1, LeastNatural
  <2>3. value[k] = IF k = 0 THEN 0 ELSE (Coefficients[n + 1 - k] + l * value[k - 1]) % Field
    BY <1>10
  <2>4. CASE k = 0
    BY <1>4, <2>3, <2>4
  <2>5. CASE k # 0
    <3>1. k - 1 \in 0 .. n /\ k \in 1 .. n /\ k - 1 \notin S
      <4>1. k \in 0 .. n
        OBVIOUS
      <4>2. k - 1 \in 0 .. n /\ k \in 1 .. n /\ ~(k <= k - 1)
        BY <1>0, <2>5, <4>1
      <4>. HIDE DEF S
      <4>. QED
        BY <2>2, <4>2
    <3>2. value[k - 1] = f[k - 1]
      BY <3>1
    <3>3. f[k] = (Coefficients[n + 1 - k] + l * f[k - 1]) % Field
      BY <1>6, <3>1
    <3>. QED
      BY <2>3, <2>5, <3>2, <3>3
  <2>. QED
    BY <2>4, <2>5
<1>12. value[n] = f[n]
  BY <1>0, <1>11
<1>. QED
  BY <1>4, <1>6, <1>9, <1>12 DEF IsShare, n

\* A share is a number.
LEMMA ShareType == ASSUME NEW l \in Points PROVE SecretShare(l) \in Int
<1>1. PICK f : IsShare(f, l)
  BY ShareIs
<1>. QED
  BY <1>1, ThresholdType DEF IsShare

\* A threshold of the key's shares interpolate to the key.
LEMMA InterpolatesShares ==
  ASSUME NEW S \in SUBSET Points, Cardinality(S) >= Threshold, NEW g \in [Points -> Int],
         \A l \in S : g[l] = SecretShare(l)
  PROVE  Interpolation(g, S) \in Int /\ Congruent(Interpolation(g, S), Secret)
<1>. DEFINE n == Threshold
            F(l) == CHOOSE f : IsShare(f, l)
            V == [i \in 0 .. n |-> [l \in Points |-> F(l)[i]]]
            c == [i \in 1 .. n |-> Coefficients[n + 1 - i]]
<1>0. n \in Nat \ {0}
  BY ThresholdType
<1>1. \A l \in Points : IsShare(F(l), l)
  BY ShareIs
<1>. HIDE DEF F
<1>2. \A i \in 0 .. n : \A l \in Points : V[i][l] = F(l)[i] /\ F(l)[i] \in Int
  BY <1>1 DEF IsShare
<1>3. V \in [0 .. n -> [Points -> Int]]
  BY <1>2
<1>4. c \in [1 .. n -> Int] /\ \A i \in 1 .. n : c[i] = Coefficients[n + 1 - i]
  <2>1. \A i \in 1 .. n : n + 1 - i \in 1 .. n
    BY <1>0
  <2>. QED
    BY <2>1, ThresholdType
<1>. HIDE DEF V, c
<1>5. IsPolynomial(V, c, n)
  <2>1. \A l \in Points : V[0][l] = 0
    BY <1>0, <1>1, <1>2 DEF IsShare
  <2>2. ASSUME NEW i \in 1 .. n, NEW l \in Points PROVE Congruent(V[i][l], c[i] + l * V[i - 1][l])
    <3>1. i \in 0 .. n /\ i - 1 \in 0 .. n
      BY <1>0
    <3>2. V[i][l] = F(l)[i] /\ V[i - 1][l] = F(l)[i - 1] /\ F(l)[i - 1] \in Int
      BY <1>2, <3>1
    <3>3. F(l)[i] = (Coefficients[n + 1 - i] + l * F(l)[i - 1]) % Field
      BY <1>1 DEF IsShare
    <3>4. c[i] + l * V[i - 1][l] \in Int
      <4>1. c[i] \in Int /\ l \in Int
        BY <1>4, FieldType DEF Points
      <4>. QED
        BY <3>2, <4>1
    <3>5. V[i][l] = (c[i] + l * V[i - 1][l]) % Field
      BY <1>4, <3>2, <3>3
    <3>. QED
      BY <3>4, <3>5, CongruentMod
  <2>. QED
    BY <1>3, <1>4, <2>1, <2>2 DEF IsPolynomial
<1>6. Interpolation(V[n], S) \in Int /\ Congruent(Interpolation(V[n], S), c[n])
  BY <1>0, <1>5, InterpolatesPolynomial
<1>7. c[n] = Secret /\ Secret \in Int
  <2>1. n \in 1 .. n /\ n + 1 - n = 1 /\ 1 \in 1 .. n
    BY <1>0
  <2>. QED
    BY <1>4, <2>1, ThresholdType DEF Secret
<1>8. Weighted(g, S) = Weighted(V[n], S)
  <2>1. \A l \in S : g[l] = V[n][l]
    BY <1>0, <1>1, <1>2 DEF IsShare
  <2>. QED
    BY <2>1 DEF Weighted
<1>. QED
  BY <1>6, <1>7, <1>8 DEF Interpolation

\* A view a machine signs: of one of the transactions, of a set which can sign, with key image shares for each input.
GoodView(v) ==
  /\ v.intent \in Intents /\ ValidSigningSet(Included(v))
  /\ \A l \in Included(v) : \A i \in Positions(v) : v.pre[l].images[i] \in Int

\* Such a view has participants, and inputs with their offsets.
LEMMA GoodViewType ==
  ASSUME NEW v, GoodView(v), NEW i \in Positions(v)
  PROVE  /\ Included(v) \in SUBSET Points /\ Cardinality(Included(v)) >= Threshold
         /\ Included(v) # {} /\ Min(Included(v)) \in Included(v)
         /\ v.intent.inputs[i] \in Inputs
         /\ KeyOffset[v.intent.inputs[i]] \in Scalars /\ KeyOffset[v.intent.inputs[i]] \in Int
<1>1. Included(v) \in SUBSET Points /\ Cardinality(Included(v)) >= Threshold
  BY ParticipantsAssumption DEF GoodView, ValidSigningSet, Points
<1>2. Included(v) # {}
  BY <1>1, ThresholdType, FS_EmptySet
<1>3. Min(Included(v)) \in Included(v)
  <2>1. Included(v) \in SUBSET Nat
    BY <1>1, FieldType DEF Points
  <2>2. \E x \in Included(v) : \A y \in Included(v) : x <= y
    BY <1>2, <2>1, LeastNatural
  <2>. QED
    BY <2>2 DEF Min
<1>4. v.intent.inputs[i] \in Inputs
  <2>1. v.intent.inputs \in Seq(Inputs)
    BY IntentsAssumption DEF GoodView
  <2>2. i \in DOMAIN v.intent.inputs
    BY DEF Positions
  <2>. QED
    BY <2>1, <2>2
<1>5. KeyOffset[v.intent.inputs[i]] \in Scalars
  BY <1>4, ScalarsAssumption
<1>. QED
  BY <1>1, <1>2, <1>3, <1>4, <1>5, FieldType DEF Scalars

\* The key image shares of an input, as what is interpolated.
ImageShares(v, i) == [l \in Points |-> IF l \in Included(v) THEN v.pre[l].images[i] ELSE 0]

\* The key image is their interpolation, and the offset.
LEMMA SharesInterpolated ==
  ASSUME NEW v, GoodView(v), NEW i \in Positions(v)
  PROVE  /\ ImageShares(v, i) \in [Points -> Int] /\ Interpolation(ImageShares(v, i), Included(v)) \in Int
         /\ [l \in Included(v) |-> Interpolated(v, l, i)] = Weighted(ImageShares(v, i), Included(v))
         /\ KeyImage(v, i) = (Interpolation(ImageShares(v, i), Included(v)) + KeyOffset[v.intent.inputs[i]]) % Field
<1>. DEFINE g == ImageShares(v, i)
            S == Included(v)
<1>1. S \in SUBSET Points
  BY GoodViewType
<1>2. g \in [Points -> Int]
  BY DEF ImageShares, GoodView
<1>3. [l \in S |-> Interpolated(v, l, i)] = Weighted(g, S)
  BY <1>1 DEF ImageShares, Interpolated, Weighted
<1>4. Interpolation(g, S) \in Int
  <2>1. 1 \in Int /\ 0 \in Int
    OBVIOUS
  <2>2. \A l \in S : Congruent(g[l], 1 * g[l] + 0 * g[l])
    <3>. SUFFICES ASSUME NEW l \in S PROVE Congruent(g[l], 1 * g[l] + 0 * g[l])
      OBVIOUS
    <3>1. g[l] \in Int
      BY <1>1, <1>2
    <3>. HIDE DEF g
    <3>2. 1 * g[l] + 0 * g[l] = g[l]
      BY <3>1
    <3>. QED
      BY <3>1, <3>2, CongruentSelf
  <2>. QED
    BY <1>1, <1>2, <2>1, <2>2, InterpolationCongruent, Zenon
<1>5. KeyImage(v, i) = (Interpolation(g, S) + KeyOffset[v.intent.inputs[i]]) % Field
  BY <1>3 DEF KeyImage, Interpolation
<1>. QED
  BY <1>2, <1>3, <1>4, <1>5

\* A key image is a scalar, and the CLSAG's is the transaction's: the offset is added once.
LEMMA ImageIsKeyImage ==
  ASSUME NEW v, GoodView(v), NEW i \in Positions(v)
  PROVE  KeyImage(v, i) \in Scalars /\ Image(v, i) = KeyImage(v, i)
<1>. DEFINE n == Field - 1
            S == Included(v)
            off == KeyOffset[v.intent.inputs[i]]
            f == Weighted(ImageShares(v, i), S)
            g == [l \in S |-> OffsetOf(v, l, i)]
            h == [l \in S |-> Interpolated(v, l, i) + OffsetOf(v, l, i)]
            a == SumUpTo(f, n)
<1>0. n \in Nat /\ S \in SUBSET Points /\ off \in Int /\ Min(S) \in S /\ Min(S) \in 1 .. n
  BY GoodViewType, FieldType DEF Points
<1>1. ImageShares(v, i) \in [Points -> Int] /\ a \in Int
  BY SharesInterpolated DEF Interpolation
<1>2. \A j \in 1 .. n : At(f, j, 0) \in Int
  BY <1>0, <1>1, WeightedType
<1>3. At(g, Min(S), 0) = off /\ \A j \in 1 .. n : j # Min(S) => At(g, j, 0) = 0
  BY <1>0 DEF At, OffsetOf, FirstAddendum
<1>4. \A j \in S : f[j] = Interpolated(v, j, i)
  <2>1. [l \in S |-> Interpolated(v, l, i)] = f
    BY SharesInterpolated
  <2>. HIDE DEF f, S
  <2>. QED
    BY <2>1
<1>5. \A j \in 1 .. n : At(h, j, 0) = At(f, j, 0) + At(g, j, 0)
  <2>. SUFFICES ASSUME NEW j \in 1 .. n PROVE At(h, j, 0) = At(f, j, 0) + At(g, j, 0)
    OBVIOUS
  <2>1. DOMAIN f = S /\ DOMAIN g = S /\ DOMAIN h = S
    BY DEF Weighted
  <2>2. CASE j \in S
    BY <1>4, <2>1, <2>2 DEF At
  <2>3. CASE j \notin S
    BY <2>1, <2>3 DEF At
  <2>. QED
    BY <2>2, <2>3
<1>6. Image(v, i) = SumUpTo(h, n) % Field
  BY DEF Image
<1>7. KeyImage(v, i) = (a + off) % Field
  BY SharesInterpolated DEF Interpolation
<1>. HIDE DEF n, S, off, f, g, h
<1>8. SumUpTo(g, n) = off
  BY <1>0, <1>3, SumOfOne
<1>9. \A j \in 1 .. n : At(g, j, 0) \in Int
  BY <1>0, <1>3
<1>10. ASSUME NEW j \in 1 .. n
       PROVE  At(h, j, 0) \in Int /\ Congruent(At(h, j, 0), 1 * At(f, j, 0) + 1 * At(g, j, 0))
  <2>1. PICK p \in Int, q \in Int : p = At(f, j, 0) /\ q = At(g, j, 0)
    BY <1>2, <1>9
  <2>2. At(h, j, 0) = p + q
    BY <1>5, <2>1
  <2>3. At(h, j, 0) = 1 * p + 1 * q /\ At(h, j, 0) \in Int
    BY <2>2
  <2>4. Congruent(At(h, j, 0), 1 * p + 1 * q)
    BY <2>3, CongruentSelf
  <2>. QED
    BY <2>1, <2>3, <2>4
<1>11. SumUpTo(h, n) \in Int /\ Congruent(SumUpTo(h, n), 1 * SumUpTo(f, n) + 1 * SumUpTo(g, n))
  <2>1. 1 \in Int
    OBVIOUS
  <2>. QED
    BY <1>0, <1>2, <1>9, <1>10, <2>1, SumCongruent, Zenon
<1>12. 1 * SumUpTo(f, n) + 1 * SumUpTo(g, n) = a + off /\ a + off \in Int
  BY <1>0, <1>1, <1>8
<1>13. SumUpTo(h, n) % Field = (a + off) % Field
  BY <1>11, <1>12, SameRemainder
<1>14. (a + off) % Field \in Scalars
  BY <1>12, CongruentMod
<1>. QED
  BY <1>6, <1>7, <1>13, <1>14

\* With a threshold of right key image shares, the key image is the input's own.
LEMMA RightShares ==
  ASSUME NEW v, GoodView(v), NEW i \in Positions(v),
         \A l \in Included(v) : v.pre[l].images[i] = SecretShare(l),
         (Secret + KeyOffset[v.intent.inputs[i]]) % Field = InputKey[v.intent.inputs[i]]
  PROVE  Image(v, i) = InputKey[v.intent.inputs[i]]
<1>. DEFINE g == ImageShares(v, i)
            S == Included(v)
            off == KeyOffset[v.intent.inputs[i]]
            a == Interpolation(g, S)
<1>1. S \in SUBSET Points /\ Cardinality(S) >= Threshold /\ off \in Int
  BY GoodViewType
<1>2. g \in [Points -> Int]
  BY SharesInterpolated
<1>3. \A l \in S : g[l] = SecretShare(l)
  BY <1>1 DEF ImageShares
<1>4. a \in Int /\ Congruent(a, Secret)
  <2>. HIDE DEF g, S
  <2>. QED
    BY <1>1, <1>2, <1>3, InterpolatesShares
<1>5. KeyImage(v, i) = (a + off) % Field
  BY SharesInterpolated
<1>6. Secret \in Int
  <2>1. 1 \in 1 .. Threshold
    BY ThresholdType
  <2>. QED
    BY <2>1, ThresholdType DEF Secret
<1>. HIDE DEF a, off
<1>7. Congruent(a + off, Secret + off)
  BY <1>1, <1>4, <1>6, CongruentAdd, CongruentSelf
<1>8. a + off \in Int /\ Secret + off \in Int
  BY <1>1, <1>4, <1>6
<1>9. (a + off) % Field = (Secret + off) % Field
  BY <1>7, <1>8, SameRemainder
<1>. QED
  BY <1>5, <1>9, ImageIsKeyImage DEF off

\* The share of who told its own key image share is valid: the offset is where the verification share has it.
LEMMA OwnShareValid ==
  ASSUME NEW v, NEW i, NEW l, v.pre[l].images[i] = SecretShare(l)
  PROVE  (Interpolated(v, l, i) + OffsetOf(v, l, i)) % Field = VerificationShare(v, l, i)
BY DEF Interpolated, OffsetOf, FirstAddendum, VerificationShare

\* If every share is valid, the key image is as if every key image share was right: it is the input's own.
LEMMA ValidSharesAreRight ==
  ASSUME NEW v, GoodView(v), NEW i \in Positions(v),
         \A l \in Included(v) : (Interpolated(v, l, i) + OffsetOf(v, l, i)) % Field = VerificationShare(v, l, i),
         (Secret + KeyOffset[v.intent.inputs[i]]) % Field = InputKey[v.intent.inputs[i]]
  PROVE  Image(v, i) = InputKey[v.intent.inputs[i]]
<1>. DEFINE n == Field - 1
            S == Included(v)
            w == [intent |-> v.intent, pre |-> [l \in S |-> [images |-> [j \in Positions(v) |-> SecretShare(l)]]]]
            f == [l \in S |-> Interpolated(w, l, i) + OffsetOf(w, l, i)]
            h == [l \in S |-> Interpolated(v, l, i) + OffsetOf(v, l, i)]
<1>0. n \in Nat /\ S \in SUBSET Points
  BY GoodViewType, FieldType
<1>1. Included(w) = S /\ Positions(w) = Positions(v) /\ w.intent = v.intent
  BY DEF Included, Positions
<1>2. ASSUME NEW l \in S, NEW j \in Positions(v) PROVE w.pre[l].images[j] = SecretShare(l)
  OBVIOUS
<1>. HIDE DEF w
<1>3. GoodView(w)
  <2>1. \A l \in S : SecretShare(l) \in Int
    BY <1>0, ShareType
  <2>. QED
    BY <1>1, <1>2, <2>1 DEF GoodView
<1>4. Image(w, i) = InputKey[v.intent.inputs[i]]
  BY <1>1, <1>2, <1>3, RightShares
<1>5. Image(w, i) = SumUpTo(f, n) % Field /\ Image(v, i) = SumUpTo(h, n) % Field
  BY <1>1 DEF Image
<1>6. ASSUME NEW l \in S PROVE f[l] \in Int /\ h[l] \in Int /\ Congruent(h[l], f[l])
  <2>1. InterpolationFactor(S, l) \in Int /\ SecretShare(l) \in Int /\ v.pre[l].images[i] \in Int
    <3>1. InterpolationFactor(S, l) \in Int
      BY <1>0, FactorType, FieldType DEF Scalars
    <3>. QED
      BY <1>0, <3>1, ShareType DEF GoodView
  <2>2. OffsetOf(v, l, i) \in Int /\ OffsetOf(w, l, i) = OffsetOf(v, l, i)
    BY <1>1, GoodViewType DEF OffsetOf, FirstAddendum
  <2>3. f[l] \in Int
    BY <1>1, <1>2, <2>1, <2>2 DEF Interpolated
  <2>4. h[l] \in Int
    BY <2>1, <2>2 DEF Interpolated
  <2>5. f[l] % Field = VerificationShare(v, l, i)
    <3>1. VerificationShare(w, l, i) = VerificationShare(v, l, i)
      BY <1>1 DEF VerificationShare
    <3>. QED
      BY <1>2, <3>1, OwnShareValid
  <2>6. h[l] % Field = f[l] % Field
    BY <2>5
  <2>. HIDE DEF f, h
  <2>7. Congruent(h[l], h[l] % Field) /\ Congruent(f[l] % Field, f[l]) /\ f[l] % Field \in Int
    BY <2>3, <2>4, CongruentMod, FieldType DEF Scalars
  <2>. QED
    BY <2>3, <2>4, <2>6, <2>7, CongruentTrans
<1>7. DOMAIN f = S /\ DOMAIN h = S
  OBVIOUS
<1>. HIDE DEF n, S, f, h
<1>8. ASSUME NEW j \in 1 .. n
      PROVE  /\ At(f, j, 0) \in Int /\ At(h, j, 0) \in Int
             /\ Congruent(At(h, j, 0), 1 * At(f, j, 0) + 0 * At(f, j, 0))
  <2>1. PICK x \in Int, y \in Int : x = At(f, j, 0) /\ y = At(h, j, 0) /\ Congruent(y, x)
    <3>1. CASE j \in S
      BY <1>6, <1>7, <3>1 DEF At
    <3>2. CASE j \notin S
      <4>1. At(f, j, 0) = 0 /\ At(h, j, 0) = 0 /\ 0 \in Int
        BY <1>7, <3>2 DEF At
      <4>. QED
        BY <4>1, CongruentSelf
    <3>. QED
      BY <3>1, <3>2
  <2>2. 1 * x + 0 * x = x
    OBVIOUS
  <2>. QED
    BY <2>1, <2>2
<1>9. /\ SumUpTo(f, n) \in Int /\ SumUpTo(h, n) \in Int
      /\ Congruent(SumUpTo(h, n), 1 * SumUpTo(f, n) + 0 * SumUpTo(f, n))
  <2>1. 1 \in Int /\ 0 \in Int
    OBVIOUS
  <2>. QED
    BY <1>0, <1>8, <2>1, SumCongruent, Zenon
<1>10. Congruent(SumUpTo(h, n), SumUpTo(f, n))
  <2>1. 1 * SumUpTo(f, n) + 0 * SumUpTo(f, n) = SumUpTo(f, n)
    BY <1>9
  <2>. QED
    BY <1>9, <2>1
<1>11. SumUpTo(h, n) % Field = SumUpTo(f, n) % Field
  BY <1>9, <1>10, SameRemainder
<1>. QED
  BY <1>4, <1>5, <1>11

\* The inputs are sorted by their key images, each of them there.
LEMMA ByKeyImageSorts ==
  ASSUME NEW v, GoodView(v)
  PROVE  /\ Positions(v) = 1 .. Len(v.intent.inputs) /\ Len(v.intent.inputs) \in Nat
         /\ \A k \in Positions(v) : ByKeyImage(v)[k] \in Positions(v)
         /\ \A k, l \in Positions(v) :
              k < l => CompressedKeyImage(v, ByKeyImage(v)[k]) >= CompressedKeyImage(v, ByKeyImage(v)[l])
<1>1. v.intent.inputs \in Seq(Inputs)
  BY IntentsAssumption DEF GoodView
<1>2. PICK n \in Nat : n = Len(v.intent.inputs) /\ Positions(v) = 1 .. n
  BY <1>1 DEF Positions
<1>3. \A i \in Positions(v) : CompressedKeyImage(v, i) \in Nat
  <2>. SUFFICES ASSUME NEW i \in Positions(v) PROVE CompressedKeyImage(v, i) \in Nat
    OBVIOUS
  <2>1. KeyImage(v, i) \in Scalars /\ v.intent.inputs[i] \in Inputs
    BY ImageIsKeyImage, GoodViewType
  <2>2. Bytes[v.intent.inputs[i]] \in [Scalars -> Nat]
    BY <2>1, ScalarsAssumption
  <2>3. Bytes[v.intent.inputs[i]][KeyImage(v, i)] \in Nat
    BY <2>1, <2>2
  <2>. QED
    BY <2>3 DEF CompressedKeyImage, Compressed
<1>. DEFINE order == KeyImageSort(v)
            D == Positions(v)
            bytes == [i \in D |-> CompressedKeyImage(v, i)]
<1>4. \A i, j \in D : <<i, j>> \in order <=> bytes[i] > bytes[j] \/ (bytes[i] = bytes[j] /\ i < j)
  BY DEF KeyImageSort
<1>5. bytes \in [D -> Nat]
  BY <1>3
<1>6. ByKeyImage(v) = InOrder(D, order)
  BY DEF ByKeyImage
<1>. HIDE DEF order, bytes
<1>7. IsOrder(order, D)
  <2>1. D \in SUBSET Nat
    BY <1>2
  <2>2. \A i \in D : <<i, i>> \notin order
    BY <1>4, <1>5, <2>1
  <2>3. \A i, j \in D : i # j => <<i, j>> \in order \/ <<j, i>> \in order
    BY <1>4, <1>5, <2>1
  <2>4. ASSUME NEW i \in D, NEW j \in D, NEW k \in D, <<i, j>> \in order, <<j, k>> \in order
        PROVE  <<i, k>> \in order
    <3>1. bytes[i] \in Nat /\ bytes[j] \in Nat /\ bytes[k] \in Nat /\ i \in Nat /\ j \in Nat /\ k \in Nat
      BY <1>5, <2>1
    <3>2. bytes[i] > bytes[j] \/ (bytes[i] = bytes[j] /\ i < j)
      BY <1>4, <2>4
    <3>3. bytes[j] > bytes[k] \/ (bytes[j] = bytes[k] /\ j < k)
      BY <1>4, <2>4
    <3>4. bytes[i] > bytes[k] \/ (bytes[i] = bytes[k] /\ i < k)
      BY <3>1, <3>2, <3>3
    <3>. QED
      BY <1>4, <3>4
  <2>. QED
    BY <2>2, <2>3, <2>4 DEF IsOrder
<1>8. IsFiniteSet(D) /\ Cardinality(D) = n
  BY <1>2, FS_Interval
<1>9. /\ InOrder(D, order) \in [1 .. n -> D]
      /\ \A k, l \in 1 .. n : k < l => <<InOrder(D, order)[k], InOrder(D, order)[l]>> \in order
  <2>. HIDE DEF D
  <2>. QED
    BY <1>7, <1>8, InOrderSorts
<1>10. \A k \in D : ByKeyImage(v)[k] \in D
  BY <1>2, <1>6, <1>9
<1>11. ASSUME NEW k \in D, NEW l \in D, k < l
       PROVE  CompressedKeyImage(v, ByKeyImage(v)[k]) >= CompressedKeyImage(v, ByKeyImage(v)[l])
  <2>. DEFINE a == ByKeyImage(v)[k]
              b == ByKeyImage(v)[l]
  <2>1. a \in D /\ b \in D /\ <<a, b>> \in order
    BY <1>2, <1>6, <1>9, <1>10, <1>11
  <2>. HIDE DEF a, b
  <2>2. bytes[a] \in Nat /\ bytes[b] \in Nat /\ bytes[a] >= bytes[b]
    BY <1>4, <1>5, <2>1
  <2>3. bytes[a] = CompressedKeyImage(v, a) /\ bytes[b] = CompressedKeyImage(v, b)
    BY <2>1 DEF bytes
  <2>. QED
    BY <2>2, <2>3 DEF a, b
<1>. QED
  BY <1>2, <1>10, <1>11

---------------------------------------------------------------------------------
(* The invariant. *)

\* A machine's nonces are not used before it signs, and once it did, for its view alone.
NoncesOfView ==
  \A m \in Machines :
    /\ shares[m] \subseteq {view[m]}
    /\ pc[m] \in {"new", "wrong key", "preprocessed", "lost"} => shares[m] = {}

\* A machine which has preprocesses has the keys of its inputs, and its shares are for views which can be
\* signed, of its own transaction, with its own preprocess.
SignedViews ==
  \A m \in Machines :
    /\ pc[m] = "preprocessed" => RightKey(m)
    /\ \A v \in shares[m] : GoodView(v) /\ v.intent = intent[m] /\ RightKey(m) /\ v.pre[m[1]] = OwnPreprocess(m)

\* What is completed has the inputs' own key images.
CompletedImages ==
  \A m \in Machines : pc[m] = "complete" =>
    \A k \in Positions(view[m]) :
      Image(view[m], ClsagOrder(view[m])[k]) = InputKey[view[m].intent.inputs[ClsagOrder(view[m])[k]]]

Inv == TypeOK /\ NoncesOfView /\ HonestAgree /\ SignedViews /\ CompletedImages /\ FailureIsBlamed

---------------------------------------------------------------------------------

\* The preprocess a machine makes is for as many inputs as its transaction has.
LEMMA OwnPreprocessLength ==
  ASSUME NEW m \in Machines, intent \in [Machines -> Intents]
  PROVE  Len(OwnPreprocess(m).images) = Len(intent[m].inputs)
<1>1. intent[m].inputs \in Seq(Inputs)
  BY IntentsAssumption
<1>2. DOMAIN intent[m].inputs = 1 .. Len(intent[m].inputs) /\ Len(intent[m].inputs) \in Nat
  BY <1>1
<1>. QED
  BY <1>2 DEF OwnPreprocess

\* Any preprocess has a scalar for each input.
LEMMA PreprocessImages ==
  ASSUME intent \in [Machines -> Intents], NEW l \in Participants, NEW p \in Preprocesses(l),
         NEW i \in 1 .. Len(p.images)
  PROVE  p.images[i] \in Int
<1>0. l \in Points
  BY ParticipantsAssumption DEF Points
<1>1. SecretShare(l) \in Int
  BY <1>0, ShareType
<1>2. CASE l \in Honest
  <2>1. PICK m \in Machines : m[1] = l /\ p = OwnPreprocess(m)
    BY <1>2 DEF Preprocesses
  <2>2. intent[m].inputs \in Seq(Inputs)
    BY IntentsAssumption
  <2>3. DOMAIN intent[m].inputs = 1 .. Len(intent[m].inputs)
    BY <2>2
  <2>4. Len(p.images) = Len(intent[m].inputs)
    BY <2>1, OwnPreprocessLength
  <2>. QED
    BY <1>1, <2>1, <2>3, <2>4 DEF OwnPreprocess
<1>3. CASE l \notin Honest
  <2>1. p \in ToldPreprocesses(l)
    BY <1>3 DEF Preprocesses
  <2>2. PICK n \in {Len(t.inputs) : t \in Intents} : \E error \in [1 .. n -> Told] :
          p = [nonce |-> <<l, 0>>, images |-> [j \in 1 .. n |-> (SecretShare(l) + error[j]) % Field]]
    BY <2>1 DEF ToldPreprocesses
  <2>3. PICK error \in [1 .. n -> Told] :
          p = [nonce |-> <<l, 0>>, images |-> [j \in 1 .. n |-> (SecretShare(l) + error[j]) % Field]]
    BY <2>2
  <2>4. n \in Nat
    <3>1. PICK t \in Intents : n = Len(t.inputs)
      OBVIOUS
    <3>2. t.inputs \in Seq(Inputs)
      BY IntentsAssumption
    <3>. QED
      BY <3>1, <3>2
  <2>5. p.images = [j \in 1 .. n |-> (SecretShare(l) + error[j]) % Field]
    BY <2>3
  <2>6. i \in 1 .. n
    BY <2>4, <2>5
  <2>7. error[i] \in Int
    <3>1. error[i] \in Told
      BY <2>6
    <3>2. error[i] \in Scalars
      BY <3>1, ScalarsAssumption
    <3>. QED
      BY <3>2, FieldType DEF Scalars
  <2>8. (SecretShare(l) + error[i]) % Field \in Scalars
    BY <1>1, <2>7, CongruentMod
  <2>. QED
    BY <2>5, <2>6, <2>8, FieldType DEF Scalars
<1>. QED
  BY <1>2, <1>3

\* Nothing is signed before a machine is made.
LEMMA InitHolds == Init => Inv
<1>. SUFFICES ASSUME Init PROVE Inv
  OBVIOUS
<1>1. TypeOK
  BY DEF Init, TypeOK, Steps
<1>2. NoncesOfView
  BY DEF Init, NoncesOfView
<1>3. HonestAgree /\ CompletedImages /\ FailureIsBlamed
  BY DEF Init, HonestAgree, CompletedImages, FailureIsBlamed
<1>4. SignedViews
  BY DEF Init, SignedViews
<1>. QED
  BY <1>1, <1>2, <1>3, <1>4 DEF Inv

\* Making the machine and its preprocess, or losing it: nothing is signed.
LEMMA PreprocessHolds ==
  ASSUME Inv, NEW m \in Machines, Preprocess(m) \/ Cache(m)
  PROVE  Inv'
<1>. USE DEF Inv
<1>0. /\ \E step \in {"preprocessed", "wrong key", "lost"} : pc' = [pc EXCEPT ![m] = step]
      /\ pc[m] \in {"new", "preprocessed"} /\ UNCHANGED <<intent, view, shares, blamed>>
  BY DEF Preprocess, Cache
<1>1. TypeOK'
  BY <1>0 DEF TypeOK, Steps
<1>2. NoncesOfView'
  BY <1>0 DEF TypeOK, NoncesOfView
<1>3. \A n \in Machines : pc'[n] \in {"complete", "blamed", "internal"} => pc'[n] = pc[n]
  BY <1>0 DEF TypeOK
<1>4. HonestAgree' /\ CompletedImages' /\ FailureIsBlamed'
  <2>1. HonestAgree'
    BY <1>0, <1>3 DEF HonestAgree
  <2>2. CompletedImages'
    BY <1>0, <1>3 DEF CompletedImages
  <2>. QED
    BY <1>0, <1>3, <2>1, <2>2 DEF FailureIsBlamed
<1>5. SignedViews'
  <2>1. intent' = intent /\ shares' = shares
    BY DEF Preprocess, Cache
  <2>2. \A n \in Machines : (RightKey(n)' <=> RightKey(n)) /\ OwnPreprocess(n)' = OwnPreprocess(n)
    BY <2>1 DEF RightKey, OwnPreprocess
  <2>3. \A n \in Machines : pc'[n] = "preprocessed" => pc[n] = "preprocessed" \/ RightKey(n)
    BY DEF Preprocess, Cache, TypeOK
  <2>. QED
    BY <2>1, <2>2, <2>3 DEF SignedViews
<1>. QED
  BY <1>1, <1>2, <1>3, <1>4, <1>5

\* Signing: a machine which can has used no nonce, and does so for the view it keeps.
LEMMA SignHolds ==
  ASSUME Inv, NEW m \in Machines, Sign(m)
  PROVE  Inv'
<1>. USE DEF Inv
<1>0. pc[m] = "preprocessed" /\ shares[m] = {}
  BY DEF Sign, NoncesOfView
<1>. DEFINE Kept == \A n \in Machines : (RightKey(n)' <=> RightKey(n)) /\ OwnPreprocess(n)' = OwnPreprocess(n)
<1>k. intent' = intent /\ blamed' = blamed /\ Kept
  BY DEF Sign, RightKey, OwnPreprocess
<1>. HIDE DEF Kept
<1>1. PICK others \in SUBSET Participants : \E given :
        /\ DOMAIN given = others /\ \A l \in others : given[l] \in Preprocesses(l)
        /\ LET v == [intent |-> intent[m], pre |-> Commitments(m, given)]
           IN \/ /\ pc' = [pc EXCEPT ![m] = "failed"]
                 /\ UNCHANGED <<view, shares>>
              \/ /\ SameLength(m, given) /\ ValidSigningSet(Included(v))
                 /\ pc' = [pc EXCEPT ![m] = "signed"]
                 /\ view' = [view EXCEPT ![m] = v]
                 /\ shares' = [shares EXCEPT ![m] = @ \cup {v}]
  BY DEF Sign
<1>g. PICK given :
        /\ DOMAIN given = others /\ \A l \in others : given[l] \in Preprocesses(l)
        /\ LET v == [intent |-> intent[m], pre |-> Commitments(m, given)]
           IN \/ /\ pc' = [pc EXCEPT ![m] = "failed"]
                 /\ UNCHANGED <<view, shares>>
              \/ /\ SameLength(m, given) /\ ValidSigningSet(Included(v))
                 /\ pc' = [pc EXCEPT ![m] = "signed"]
                 /\ view' = [view EXCEPT ![m] = v]
                 /\ shares' = [shares EXCEPT ![m] = @ \cup {v}]
  BY <1>1
<1>2. CASE pc' = [pc EXCEPT ![m] = "failed"] /\ UNCHANGED <<view, shares>>
  <2>1. TypeOK'
    BY <1>2 DEF Sign, TypeOK, Steps
  <2>2. NoncesOfView'
    BY <1>0, <1>2 DEF TypeOK, NoncesOfView
  <2>3. HonestAgree'
    BY <1>2 DEF TypeOK, HonestAgree
  <2>4. CompletedImages' /\ FailureIsBlamed'
    BY <1>2, <1>k DEF TypeOK, CompletedImages, FailureIsBlamed
  <2>5. SignedViews'
    BY <1>2, <1>k DEF TypeOK, SignedViews, Kept
  <2>. QED
    BY <2>1, <2>2, <2>3, <2>4, <2>5
<1>3. CASE LET v == [intent |-> intent[m], pre |-> Commitments(m, given)]
           IN /\ SameLength(m, given) /\ ValidSigningSet(Included(v))
              /\ pc' = [pc EXCEPT ![m] = "signed"]
              /\ view' = [view EXCEPT ![m] = v]
              /\ shares' = [shares EXCEPT ![m] = @ \cup {v}]
  <2>. DEFINE v == [intent |-> intent[m], pre |-> Commitments(m, given)]
  <2>0. intent' = intent
    BY DEF Sign
  <2>1. m[1] \in Included(v) /\ v.intent = intent[m]
    BY DEF Commitments, Included
  <2>2. ASSUME NEW l \in Included(v)
        PROVE  Len(v.pre[l].images) = Len(intent[m].inputs)
    <3>1. Len(OwnPreprocess(m).images) = Len(intent[m].inputs)
      BY OwnPreprocessLength DEF TypeOK
    <3>2. v.pre[l] = IF l = m[1] THEN OwnPreprocess(m) ELSE given[l]
      BY <2>2 DEF Commitments, Included
    <3>3. l # m[1] => l \in DOMAIN given
      BY <2>2 DEF Commitments, Included
    <3>. QED
      BY <1>3, <3>1, <3>2, <3>3 DEF SameLength
  <2>8. GoodView(v)
    <3>1. v.intent \in Intents /\ ValidSigningSet(Included(v))
      BY <1>3 DEF TypeOK
    <3>2. ASSUME NEW l \in Included(v), NEW i \in Positions(v) PROVE v.pre[l].images[i] \in Int
      <4>1. intent[m].inputs \in Seq(Inputs)
        BY IntentsAssumption DEF TypeOK
      <4>2. i \in 1 .. Len(intent[m].inputs)
        BY <4>1 DEF Positions
      <4>3. Len(v.pre[l].images) = Len(intent[m].inputs)
        BY <2>2
      <4>4. v.pre[l] = IF l = m[1] THEN OwnPreprocess(m) ELSE given[l]
        BY DEF Commitments, Included
      <4>5. CASE l = m[1]
        <5>1. m[1] \in Points
          BY ParticipantsAssumption DEF Points
        <5>2. SecretShare(m[1]) \in Int
          BY <5>1, ShareType
        <5>3. i \in DOMAIN intent[m].inputs
          BY DEF Positions
        <5>. QED
          BY <4>4, <4>5, <5>2, <5>3 DEF OwnPreprocess
      <4>6. CASE l # m[1]
        <5>1. l \in others
          BY <1>g, <4>6 DEF Commitments, Included
        <5>2. given[l] \in Preprocesses(l) /\ l \in Participants /\ v.pre[l] = given[l]
          BY <1>g, <4>4, <4>6, <5>1
        <5>. HIDE DEF v
        <5>3. i \in 1 .. Len(given[l].images)
          BY <4>2, <4>3, <5>2
        <5>4. given[l].images[i] \in Int
          BY <5>2, <5>3, PreprocessImages DEF TypeOK
        <5>. QED
          BY <5>2, <5>4
      <4>. QED
        BY <4>5, <4>6
    <3>. QED
      BY <3>1, <3>2 DEF GoodView
  <2>9. v.pre[m[1]] = OwnPreprocess(m)
    BY DEF Commitments
  <2>. HIDE DEF v
  <2>3. /\ pc' = [pc EXCEPT ![m] = "signed"]
        /\ view' = [view EXCEPT ![m] = v]
        /\ shares' = [shares EXCEPT ![m] = {v}]
    BY <1>0, <1>3 DEF v, TypeOK
  <2>4. TypeOK'
    BY <1>k, <2>0, <2>1, <2>2, <2>3 DEF TypeOK, Steps
  <2>5. NoncesOfView'
    BY <2>3 DEF TypeOK, NoncesOfView
  <2>6. \A n \in Machines : shares[n] \subseteq shares'[n]
    BY <1>0, <2>3 DEF TypeOK
  <2>7. HonestAgree'
    BY <2>3, <2>6 DEF TypeOK, HonestAgree
  <2>10. CompletedImages' /\ FailureIsBlamed'
    <3>1. CompletedImages'
      BY <2>3 DEF TypeOK, CompletedImages
    <3>2. \A n \in Machines : pc[n] = "blamed" => n # m /\ pc'[n] = "blamed"
      BY <1>0, <2>3 DEF TypeOK
    <3>3. \A n \in Machines : pc'[n] \in {"blamed", "internal"} =>
            pc'[n] = pc[n] /\ view'[n] = view[n] /\ blamed'[n] = blamed[n]
      BY <1>k, <2>3 DEF TypeOK
    <3>4. ASSUME NEW n \in Machines, pc[n] = "blamed", NEW k \in Machines, shares[k] # {}, view[n] \notin shares[k]
          PROVE  shares'[k] # {} /\ view[n] \notin shares'[k]
      BY <1>0, <2>3, <3>4 DEF TypeOK
    <3>. QED
      BY <3>1, <3>3, <3>4 DEF FailureIsBlamed
  <2>11. SignedViews'
    <3>1. RightKey(m)
      BY <1>0 DEF SignedViews
    <3>2. ASSUME NEW n \in Machines, NEW w \in shares'[n]
          PROVE  GoodView(w) /\ w.intent = intent'[n] /\ RightKey(n)' /\ w.pre[n[1]] = OwnPreprocess(n)'
      <4>1. CASE n = m
        <5>1. w = v
          BY <2>3, <4>1 DEF TypeOK
        <5>. QED
          BY <1>k, <2>1, <2>8, <2>9, <3>1, <4>1, <5>1 DEF Kept
      <4>2. CASE n # m
        <5>1. w \in shares[n]
          BY <2>3, <4>2 DEF TypeOK
        <5>. QED
          BY <1>k, <5>1 DEF SignedViews, Kept
      <4>. QED
        BY <4>1, <4>2
    <3>3. \A n \in Machines : pc'[n] = "preprocessed" => pc[n] = "preprocessed"
      BY <2>3 DEF TypeOK
    <3>. QED
      BY <1>k, <3>2, <3>3 DEF SignedViews, Kept
  <2>. QED
    BY <2>4, <2>5, <2>7, <2>10, <2>11
<1>. QED
  BY <1>g, <1>2, <1>3

\* Completing: each of the other participants' shares was for this machine's view, or one who is not honest, or whose
\* share was for another view, is blamed.
LEMMA CompleteHolds ==
  ASSUME Inv, NEW m \in Machines, Complete(m)
  PROVE  Inv'
<1>. USE DEF Inv
<1>. DEFINE v == view[m]
<1>1. PICK given :
        /\ \A l \in DOMAIN given : given[l] \in Shares(m, l)
        /\ \E end \in Completed(m, given) :
             pc' = [pc EXCEPT ![m] = end.pc] /\ blamed' = [blamed EXCEPT ![m] = end.blamed]
  BY DEF Complete
<1>e. PICK end \in Completed(m, given) :
        pc' = [pc EXCEPT ![m] = end.pc] /\ blamed' = [blamed EXCEPT ![m] = end.blamed]
  BY <1>1
<1>2. pc[m] = "signed" /\ UNCHANGED <<intent, view, shares>>
  BY DEF Complete
<1>3. v \in shares[m]
  BY <1>2 DEF TypeOK
<1>4. GoodView(v) /\ v.intent = intent[m] /\ RightKey(m) /\ v.pre[m[1]] = OwnPreprocess(m)
  BY <1>3 DEF SignedViews
<1>5. Positions(v) # {} /\ \A k \in Positions(v) : ClsagOrder(v)[k] \in Positions(v)
  <2>1. v.intent.inputs \in Seq(Inputs) \ {<<>>}
    BY <1>4, IntentsAssumption DEF GoodView
  <2>. HIDE DEF v
  <2>. QED
    <3>1. Len(v.intent.inputs) \in Nat /\ Len(v.intent.inputs) # 0 /\ Positions(v) = 1 .. Len(v.intent.inputs)
      BY <2>1 DEF Positions
    <3>2. \A k \in Positions(v) : ByKeyImage(v)[k] \in Positions(v)
      BY <1>4, ByKeyImageSorts
    <3>3. 1 \in Positions(v)
      BY <3>1
    <3>4. Positions(v) # {}
      BY <3>3
    <3>. QED
      BY <3>2, <3>4 DEF ClsagOrder
<1>6. \/ end.pc \in {"failed", "complete", "internal"} /\ end.blamed = 0
      \/ end.pc = "blamed" /\ end.blamed \in Included(v)
  BY DEF Completed, InvalidShares
<1>7. Included(v) \subseteq Participants
  BY <1>4 DEF GoodView, ValidSigningSet
\* Of a share which is for the view, what an honest participant preprocessed is its own.
<1>8. ASSUME NEW l \in Included(v), NEW n \in Machines, n[1] = l, v \in shares[n], NEW i \in Positions(v)
      PROVE  (Interpolated(v, l, i) + OffsetOf(v, l, i)) % Field = VerificationShare(v, l, i)
  <2>1. v.intent = intent[n] /\ v.pre[l] = OwnPreprocess(n)
    BY <1>8 DEF SignedViews
  <2>2. v.pre[l].images[i] = SecretShare(l)
    <3>. HIDE DEF v
    <3>. QED
      BY <1>8, <2>1 DEF OwnPreprocess, Positions
  <2>. QED
    BY <2>2, OwnShareValid
\* When a CLSAG fails, its position, and what was given.
<1>9. ASSUME end.pc \in {"blamed", "internal"}
      PROVE  /\ DOMAIN given = Included(v) \ {m[1]}
             /\ \E i \in Positions(v) :
                  /\ ~Verify(m, given, i)
                  /\ end.pc = "internal" => InvalidShares(m, given, i) = {}
                  /\ end.pc = "blamed" => end.blamed \in InvalidShares(m, given, i)
  <2>. DEFINE k == Min(Failing(m, given))
  <2>1. DOMAIN given = Included(v) \ {m[1]} /\ Failing(m, given) # {}
    BY <1>9 DEF Completed, Mismatched
  <2>2. k \in Failing(m, given)
    <3>1. Failing(m, given) \in SUBSET Nat
      BY <1>4, ByKeyImageSorts DEF Failing
    <3>2. \E x \in Failing(m, given) : \A y \in Failing(m, given) : x <= y
      BY <2>1, <3>1, LeastNatural
    <3>. QED
      BY <3>2 DEF Min
  <2>. HIDE DEF k
  <2>3. k \in Positions(v) /\ ~Verify(m, given, ClsagOrder(v)[k])
    BY <2>2 DEF Failing
  <2>4. ClsagOrder(v)[k] \in Positions(v)
    BY <1>5, <2>3
  <2>5. /\ end.pc = "internal" => InvalidShares(m, given, ClsagOrder(v)[k]) = {}
        /\ end.pc = "blamed" => end.blamed \in InvalidShares(m, given, ClsagOrder(v)[k])
    BY <1>9 DEF Completed, k
  <2>. QED
    BY <2>1, <2>3, <2>4, <2>5
<1>10. ASSUME end.pc = "complete"
       PROVE  DOMAIN given = Included(v) \ {m[1]} /\ \A k \in Positions(v) : Verify(m, given, ClsagOrder(v)[k])
  BY <1>10 DEF Completed, Mismatched, Failing
<1>. HIDE DEF v
<1>11. TypeOK'
  <2>1. blamed' \in [Machines -> Participants \cup {0}] /\ pc' \in [Machines -> Steps]
    BY <1>e, <1>6, <1>7 DEF TypeOK, Steps
  <2>2. \A n \in Machines : pc'[n] \in {"signed", "complete", "blamed", "internal"} => view[n] \in shares[n]
    BY <1>e, <1>3 DEF TypeOK, v
  <2>. QED
    BY <1>2, <2>1, <2>2 DEF TypeOK
<1>12. NoncesOfView'
  BY <1>e, <1>2, <1>6 DEF TypeOK, NoncesOfView
<1>13. ASSUME end.pc = "complete", NEW l \in Included(v) \cap Honest
       PROVE  \E n \in Machines : n[1] = l /\ v \in shares[n]
  <2>1. CASE l = m[1]
    BY <1>3, <2>1
  <2>2. CASE l # m[1]
    <3>1. l \in DOMAIN given /\ given[l] = v
      BY <1>5, <1>10, <1>13, <2>2 DEF Verify, v
    <3>2. given[l] \in UNION {shares[n] : n \in {n \in Machines : n[1] = l}}
      BY <1>1, <3>1 DEF Shares
    <3>. QED
      BY <3>1, <3>2
  <2>. QED
    BY <2>1, <2>2
<1>14. HonestAgree'
  BY <1>e, <1>2, <1>13 DEF TypeOK, HonestAgree, v
<1>15. SignedViews'
  <2>1. \A n \in Machines : (RightKey(n)' <=> RightKey(n)) /\ OwnPreprocess(n)' = OwnPreprocess(n)
    BY <1>2 DEF RightKey, OwnPreprocess
  <2>2. \A n \in Machines : pc'[n] = "preprocessed" => pc[n] = "preprocessed"
    BY <1>e, <1>6 DEF TypeOK
  <2>. QED
    BY <1>2, <2>1, <2>2 DEF SignedViews
<1>16. CompletedImages'
  <2>1. \A n \in Machines : pc'[n] = "complete" => pc[n] = "complete" \/ (n = m /\ end.pc = "complete")
    BY <1>e DEF TypeOK
  <2>2. end.pc = "complete" =>
          \A k \in Positions(v) : Image(v, ClsagOrder(v)[k]) = InputKey[v.intent.inputs[ClsagOrder(v)[k]]]
    BY <1>10 DEF Verify, v
  <2>. QED
    BY <1>2, <2>1, <2>2 DEF CompletedImages, v
<1>17. ASSUME end.pc = "internal" PROVE FALSE
  <2>1. PICK i \in Positions(v) : ~Verify(m, given, i) /\ InvalidShares(m, given, i) = {}
    BY <1>9, <1>17
  <2>2. DOMAIN given = Included(v) \ {m[1]}
    BY <1>9, <1>17
  <2>3. \A l \in Included(v) : ValidShare(m, IF l = m[1] THEN v ELSE given[l], l, i)
    BY <2>1 DEF InvalidShares, v
  <2>4. \A l \in DOMAIN given : given[l] = v
    BY <2>2, <2>3 DEF ValidShare, v
  <2>5. \A l \in Included(v) : (Interpolated(v, l, i) + OffsetOf(v, l, i)) % Field = VerificationShare(v, l, i)
    BY <2>3 DEF ValidShare, v
  <2>6. (Secret + KeyOffset[v.intent.inputs[i]]) % Field = InputKey[v.intent.inputs[i]]
    BY <1>4 DEF RightKey, Positions
  <2>7. Image(v, i) = InputKey[v.intent.inputs[i]]
    BY <1>4, <2>5, <2>6, ValidSharesAreRight
  <2>. QED
    BY <2>1, <2>4, <2>7 DEF Verify, v
<1>18. ASSUME end.pc = "blamed"
       PROVE  /\ end.blamed # m[1]
              /\ end.blamed \in Honest =>
                   \E n \in Machines : n[1] = end.blamed /\ shares[n] # {} /\ v \notin shares[n]
  <2>1. PICK i \in Positions(v) : end.blamed \in InvalidShares(m, given, i)
    BY <1>9, <1>18
  <2>. DEFINE l == end.blamed
  <2>2. l \in Included(v) /\ ~ValidShare(m, IF l = m[1] THEN v ELSE given[l], l, i)
    BY <2>1 DEF InvalidShares, v
  <2>. HIDE DEF l
  <2>3. l # m[1]
    <3>. SUFFICES ASSUME l = m[1] PROVE FALSE
      OBVIOUS
    <3>1. (Interpolated(v, l, i) + OffsetOf(v, l, i)) % Field = VerificationShare(v, l, i)
      BY <1>3, <1>8, <2>2
    <3>. QED
      BY <2>2, <3>1 DEF ValidShare, v
  <2>4. ASSUME l \in Honest PROVE \E n \in Machines : n[1] = l /\ shares[n] # {} /\ v \notin shares[n]
    <3>1. l \in DOMAIN given
      BY <1>9, <1>18, <2>2, <2>3
    <3>2. given[l] \in UNION {shares[n] : n \in {n \in Machines : n[1] = l}}
      BY <1>1, <2>4, <3>1 DEF Shares
    <3>3. PICK n \in Machines : n[1] = l /\ given[l] \in shares[n]
      BY <3>2
    <3>4. ASSUME v \in shares[n] PROVE FALSE
      <4>1. given[l] = v
        <5>1. shares[n] \subseteq {view[n]}
          BY DEF NoncesOfView
        <5>. QED
          BY <3>3, <3>4, <5>1
      <4>2. (Interpolated(v, l, i) + OffsetOf(v, l, i)) % Field = VerificationShare(v, l, i)
        BY <1>8, <2>2, <3>3, <3>4
      <4>. QED
        BY <2>2, <2>3, <4>1, <4>2 DEF ValidShare, v
    <3>. QED
      BY <3>3, <3>4
  <2>. QED
    BY <2>3, <2>4 DEF l
<1>19. FailureIsBlamed'
  <2>. SUFFICES ASSUME NEW n \in Machines
                PROVE  /\ pc'[n] # "internal"
                       /\ pc'[n] = "blamed" =>
                            /\ blamed'[n] # n[1]
                            /\ blamed'[n] \in Honest =>
                                 \E k \in Machines : k[1] = blamed'[n] /\ shares[k] # {} /\ view[n] \notin shares[k]
    BY <1>2 DEF FailureIsBlamed
  <2>1. CASE n = m
    <3>1. pc'[n] = end.pc /\ blamed'[n] = end.blamed
      BY <1>e, <2>1 DEF TypeOK
    <3>. QED
      BY <1>17, <1>18, <2>1, <3>1 DEF v
  <2>2. CASE n # m
    <3>1. pc'[n] = pc[n] /\ blamed'[n] = blamed[n]
      BY <1>e, <2>2 DEF TypeOK
    <3>. QED
      BY <3>1 DEF FailureIsBlamed
  <2>. QED
    BY <2>1, <2>2
<1>. QED
  BY <1>11, <1>12, <1>14, <1>15, <1>16, <1>19

\* Every call to a machine keeps the invariant.
LEMMA NextHolds == Inv /\ [Next]_vars => Inv'
<1>. SUFFICES ASSUME Inv, [Next]_vars PROVE Inv'
  OBVIOUS
<1>1. CASE Next
  <2>1. PICK m \in Machines : Preprocess(m) \/ Cache(m) \/ Sign(m) \/ Complete(m)
    BY <1>1 DEF Next
  <2>2. CASE Preprocess(m) \/ Cache(m)
    BY <2>2, PreprocessHolds
  <2>3. CASE Sign(m)
    BY <2>3, SignHolds
  <2>4. CASE Complete(m)
    BY <2>4, CompleteHolds
  <2>. QED
    BY <2>1, <2>2, <2>3, <2>4
<1>2. CASE UNCHANGED vars
  <2>1. pc' = pc /\ intent' = intent /\ view' = view /\ shares' = shares /\ blamed' = blamed
    BY <1>2 DEF vars
  <2>2. TypeOK' /\ NoncesOfView'
    BY <2>1 DEF Inv, TypeOK, NoncesOfView, Included
  <2>3. HonestAgree'
    BY <2>1 DEF Inv, HonestAgree, Included
  <2>4. SignedViews'
    <3>1. \A n \in Machines : (RightKey(n)' <=> RightKey(n)) /\ OwnPreprocess(n)' = OwnPreprocess(n)
      BY <2>1 DEF RightKey, OwnPreprocess
    <3>. QED
      BY <2>1, <3>1 DEF Inv, SignedViews
  <2>5. CompletedImages' /\ FailureIsBlamed'
    BY <2>1 DEF Inv, CompletedImages, FailureIsBlamed
  <2>. QED
    BY <2>2, <2>3, <2>4, <2>5 DEF Inv
<1>. QED
  BY <1>1, <1>2

\* The invariant holds throughout.
LEMMA Invariance == Spec => []Inv
BY InitHolds, NextHolds, PTL DEF Spec

---------------------------------------------------------------------------------

\* Every machine keeps its type: what TransactionSignMachine::sign goes by is its own transaction, its
\* own preprocess, and others for as many inputs.
THEOREM TypeCorrect == Spec => []TypeOK
<1>1. Inv => TypeOK
  BY DEF Inv
<1>. QED
  BY Invariance, <1>1, PTL

\* Whoever completes a transaction, every honest participant of it signed it, and as it is, although
\* preprocesses and shares are delivered to any machine and dishonest participants equivocate.
THEOREM HonestAgreeHolds == Spec => []HonestAgree
<1>1. Inv => HonestAgree
  BY DEF Inv
<1>. QED
  BY Invariance, <1>1, PTL

\* Whoever stops a signature from being completed is identified: if every share the others gave is valid for a CLSAG,
\* its interpolated key image shares make the input's key image, and the CLSAG is valid. No one else is: the offset is
\* added to the key image share of the very participant whose verification share has it, and an honest participant's
\* share for the view is of the key image share it preprocessed.
THEOREM FailureIsBlamedHolds == Spec => []FailureIsBlamed
<1>1. Inv => FailureIsBlamed
  BY DEF Inv
<1>. QED
  BY Invariance, <1>1, PTL

\* Honest participants, as many as the threshold or more, which signed with the same view, complete: their shares
\* interpolate to the key, for any polynomial of the threshold's degree.
THEOREM HonestCanCompleteHolds == Spec => []HonestCanComplete
<1>1. Inv => HonestCanComplete
  <2>. SUFFICES ASSUME Inv, NEW m \in Machines, pc[m] = "signed", Included(view[m]) \subseteq Honest,
                       \A l \in Included(view[m]) : \E n \in Machines : n[1] = l /\ view[m] \in shares[n]
                PROVE  \A i \in Positions(view[m]) : Verify(m, [l \in Included(view[m]) \ {m[1]} |-> view[m]], i)
    BY DEF HonestCanComplete
  <2>. DEFINE v == view[m]
  <2>1. v \in shares[m]
    BY DEF Inv, TypeOK
  <2>2. GoodView(v) /\ v.intent = intent[m] /\ RightKey(m)
    BY <2>1 DEF Inv, SignedViews
  <2>3. ASSUME NEW l \in Included(v), NEW i \in Positions(v) PROVE v.pre[l].images[i] = SecretShare(l)
    <3>1. PICK n \in Machines : n[1] = l /\ v \in shares[n]
      OBVIOUS
    <3>2. v.intent = intent[n] /\ v.pre[l] = OwnPreprocess(n)
      BY <3>1 DEF Inv, SignedViews
    <3>. HIDE DEF v
    <3>. QED
      BY <3>1, <3>2 DEF OwnPreprocess, Positions
  <2>. HIDE DEF v
  <2>4. ASSUME NEW i \in Positions(v) PROVE Image(v, i) = InputKey[v.intent.inputs[i]]
    <3>1. (Secret + KeyOffset[v.intent.inputs[i]]) % Field = InputKey[v.intent.inputs[i]]
      BY <2>2 DEF RightKey, Positions
    <3>. QED
      BY <2>2, <2>3, <3>1, RightShares
  <2>. QED
    BY <2>4 DEF Verify, v
<1>. QED
  BY Invariance, <1>1, PTL

---------------------------------------------------------------------------------
(* The transaction which is completed. *)

\* The masks of the pseudo-outs add up to those of the outputs, by what the last of them is.
LEMMA MasksBalance ==
  ASSUME NEW v, GoodView(v)
  PROVE  Total([k \in 1 .. Len(v.intent.inputs) |-> Mask(v, k)]) % Field = OutputMasks(v)
<1>1. PICK n \in Nat : n = Len(v.intent.inputs) /\ n # 0 /\ Positions(v) = 1 .. n /\ v.intent.pays \in Nat
  <2>1. v.intent.inputs \in Seq(Inputs) \ {<<>>} /\ v.intent.pays \in Nat
    BY IntentsAssumption DEF GoodView
  <2>. QED
    BY <2>1 DEF Positions
<1>. DEFINE images == [i \in 1 .. n |-> KeyImage(v, i)]
            first == [k \in 1 .. n - 1 |-> Random(v, k)]
            masks == [k \in 1 .. n |-> Mask(v, k)]
            o == OutputMasks(v)
            r == Total(first)
            last == (o - r) % Field
<1>2. o \in Scalars /\ o \in Int
  <2>1. images \in Seq(Nat)
    <3>1. \A i \in 1 .. n : KeyImage(v, i) \in Nat
      BY <1>1, ImageIsKeyImage, FieldType DEF Scalars
    <3>. QED
      BY <3>1
  <2>2. Total(images) \in Nat
    <3>. HIDE DEF images
    <3>. QED
      BY <2>1, TotalConcat
  <2>3. o = (v.intent.pays + Total(images)) % Field
    BY <1>1 DEF OutputMasks
  <2>. HIDE DEF images, o
  <2>4. v.intent.pays + Total(images) \in Int
    BY <1>1, <2>2
  <2>5. o \in Scalars
    BY <2>3, <2>4, CongruentMod
  <2>. QED
    BY <2>5, FieldType DEF Scalars
<1>3. \A k \in 1 .. n - 1 : Random(v, k) \in Nat
  <2>. SUFFICES ASSUME NEW k \in 1 .. n - 1 PROVE Random(v, k) \in Nat
    OBVIOUS
  <2>1. v.intent.pays * k + 3 \in Int
    BY <1>1
  <2>2. (v.intent.pays * k + 3) % Field \in Scalars
    BY <2>1, CongruentMod
  <2>. QED
    BY <2>2, FieldType DEF Random, Scalars
<1>4. first \in Seq(Nat) /\ Len(first) = n - 1
  BY <1>1, <1>3
<1>5. r \in Nat
  <2>. HIDE DEF first
  <2>. QED
    BY <1>4, TotalConcat
<1>6. last \in Scalars /\ last \in Nat /\ Congruent(last, o - r)
  <2>. HIDE DEF o, r
  <2>1. o - r \in Int
    BY <1>2, <1>5
  <2>2. last \in Scalars /\ Congruent(last, o - r)
    BY <2>1, CongruentMod
  <2>. QED
    BY <2>2, FieldType DEF Scalars
<1>7. \A k \in 1 .. n : masks[k] = IF k = n THEN last ELSE first[k]
  <2>. SUFFICES ASSUME NEW k \in 1 .. n PROVE masks[k] = IF k = n THEN last ELSE first[k]
    OBVIOUS
  <2>1. CASE k = n
    BY <1>1, <2>1 DEF Mask
  <2>2. CASE k # n
    BY <1>1, <2>2 DEF Mask
  <2>. QED
    BY <2>1, <2>2
<1>8. masks \in Seq(Nat) /\ Len(masks) = n
  <2>1. \A k \in 1 .. n : masks[k] \in Nat
    <3>. SUFFICES ASSUME NEW k \in 1 .. n PROVE masks[k] \in Nat
      OBVIOUS
    <3>1. k # n => first[k] \in Nat
      BY <1>3
    <3>. HIDE DEF masks, first, last
    <3>. QED
      BY <1>6, <1>7, <3>1
  <2>. QED
    BY <2>1
<1>. HIDE DEF first, masks, last, o, r
<1>9. masks[n] = last /\ \A k \in 1 .. n - 1 : masks[k] = first[k]
  BY <1>1, <1>7
<1>10. Total(masks) = r + last
  <2>1. PICK p \in Nat : p = n - 1 /\ n = p + 1
    BY <1>1
  <2>. QED
    BY <1>4, <1>8, <1>9, <2>1, TotalAppend DEF r
<1>11. Congruent(r + last, o)
  <2>1. r \in Int /\ last \in Int /\ o - r \in Int
    BY <1>2, <1>5, <1>6
  <2>2. Congruent(r + last, r + (o - r))
    BY <1>6, <2>1, CongruentAdd, CongruentSelf
  <2>3. r + (o - r) = o
    BY <1>2, <1>5
  <2>. QED
    BY <2>2, <2>3
<1>12. (r + last) % Field = o % Field
  BY <1>2, <1>5, <1>6, <1>11, SameRemainder
<1>13. o % Field = o
  BY <1>2, FieldType DEF Scalars
<1>. QED
  BY <1>1, <1>10, <1>12, <1>13 DEF masks, o

\* A completed transaction has its inputs in the order of their key images, which are the inputs' own, its CLSAGs in
\* theirs, and masks which are balanced, whatever order the transaction was intended in and whatever the
\* dishonest participants' key image shares.
THEOREM CompletedIsValidHolds == Spec => []CompletedIsValid
<1>1. Inv => CompletedIsValid
  <2>. SUFFICES ASSUME Inv PROVE CompletedIsValid
    OBVIOUS
  <2>1. ASSUME NEW m \in Machines, pc[m] = "complete", NEW v, v = view[m], NEW n, n = Len(v.intent.inputs),
               NEW inputs, inputs = TxInputs(v)
        PROVE  /\ \A k \in 1 .. n : inputs[k].image = InputKey[inputs[k].input] /\ Clsags(v)[k] = inputs[k]
               /\ \A k \in 1 .. n - 1 :
                    Compressed(inputs[k].input, inputs[k].image) >= Compressed(inputs[k + 1].input, inputs[k + 1].image)
               /\ Total([k \in 1 .. n |-> Mask(v, k)]) % Field = OutputMasks(v)
    <3>1. GoodView(v)
      BY <2>1 DEF Inv, TypeOK, SignedViews
    <3>2. \A k \in Positions(v) : Image(v, ByKeyImage(v)[k]) = InputKey[v.intent.inputs[ByKeyImage(v)[k]]]
      BY <2>1 DEF Inv, CompletedImages, ClsagOrder
    <3>3. n \in Nat /\ Positions(v) = 1 .. n /\ \A k \in 1 .. n : ByKeyImage(v)[k] \in 1 .. n
      BY <2>1, <3>1, ByKeyImageSorts
    <3>4. \A k, l \in 1 .. n :
            k < l => CompressedKeyImage(v, ByKeyImage(v)[k]) >= CompressedKeyImage(v, ByKeyImage(v)[l])
      BY <3>1, <3>3, ByKeyImageSorts
    <3>5. ASSUME NEW k \in 1 .. n
          PROVE  /\ inputs[k].input = v.intent.inputs[ByKeyImage(v)[k]]
                 /\ inputs[k].image = KeyImage(v, ByKeyImage(v)[k])
                 /\ Clsags(v)[k] = inputs[k] /\ KeyImage(v, ByKeyImage(v)[k]) = Image(v, ByKeyImage(v)[k])
                 /\ Compressed(inputs[k].input, inputs[k].image) = CompressedKeyImage(v, ByKeyImage(v)[k])
      <4>1. inputs[k] = [input |-> v.intent.inputs[ByKeyImage(v)[k]], image |-> KeyImage(v, ByKeyImage(v)[k])]
        BY <2>1, <3>3 DEF TxInputs
      <4>2. Clsags(v)[k] = [input |-> v.intent.inputs[ByKeyImage(v)[k]], image |-> Image(v, ByKeyImage(v)[k])]
        BY <3>3 DEF Clsags, ClsagOrder
      <4>3. Image(v, ByKeyImage(v)[k]) = KeyImage(v, ByKeyImage(v)[k])
        BY <3>1, <3>3, ImageIsKeyImage
      <4>. QED
        BY <4>1, <4>2, <4>3 DEF CompressedKeyImage
    <3>6. \A k \in 1 .. n : inputs[k].image = InputKey[inputs[k].input] /\ Clsags(v)[k] = inputs[k]
      BY <3>2, <3>3, <3>5
    <3>7. ASSUME NEW k \in 1 .. n - 1
          PROVE  Compressed(inputs[k].input, inputs[k].image) >= Compressed(inputs[k + 1].input, inputs[k + 1].image)
      <4>1. k \in 1 .. n /\ k + 1 \in 1 .. n /\ k < k + 1
        BY <3>3
      <4>. QED
        BY <3>4, <3>5, <4>1
    <3>8. Total([k \in 1 .. n |-> Mask(v, k)]) % Field = OutputMasks(v)
      BY <2>1, <3>1, MasksBalance
    <3>. QED
      BY <3>6, <3>7, <3>8
  <2>. QED
    BY <2>1 DEF CompletedIsValid
<1>. QED
  BY Invariance, <1>1, PTL

================================================================================
