------------------------------ MODULE OrderProofs -------------------------------
(***************************************************************************)
(* Facts about numbers and orders the other proofs rest on. Induction over *)
(* the naturals is by the least counterexample (LeastNatural).             *)
(***************************************************************************)
EXTENDS Orders, SequencesExt, SequenceTheorems, FiniteSetTheorems, FunctionTheorems, WellFoundedInduction, TLAPS

\* A set of naturals which is not empty has a least member.
LEMMA LeastNatural ==
  ASSUME NEW S \in SUBSET Nat, S # {}
  PROVE  \E n \in S : \A m \in S : n <= m
<1>. DEFINE R == OpToRel(<, Nat)
<1>1. IsWellFoundedOn(R, Nat)
  BY NatLessThanWellFounded
<1>2. \A x, y \in Nat : <<x, y>> \in R <=> x < y
  BY DEF OpToRel
<1>. HIDE DEF R
<1>3. PICK x \in S : \A y \in S : ~(<<y, x>> \in R)
  BY <1>1, WFMin
<1>4. \A y \in S : ~(y < x)
  BY <1>2, <1>3
<1>. QED
  BY <1>4

\* An order of S: no element is before itself, of two elements one is before the other, and what is
\* before an element is before those after it.
IsOrder(order, S) ==
  /\ \A i \in S : <<i, i>> \notin order
  /\ \A i, j \in S : i # j => <<i, j>> \in order \/ <<j, i>> \in order
  /\ \A i, j, k \in S : <<i, j>> \in order /\ <<j, k>> \in order => <<i, k>> \in order

\* An element after another has more before it.
LEMMA PlacesIncrease ==
  ASSUME NEW S, IsFiniteSet(S), NEW order, IsOrder(order, S), NEW i \in S, NEW j \in S, <<i, j>> \in order
  PROVE  Place(i, S, order) < Place(j, S, order)
<1>. DEFINE A == {x \in S : <<x, i>> \in order}
            B == {x \in S : <<x, j>> \in order}
<1>1. A \subseteq B /\ i \in B /\ i \notin A
  BY DEF IsOrder
<1>2. B \in SUBSET S
  OBVIOUS
<1>3. IsFiniteSet(B)
  BY <1>2, FS_Subset
<1>. HIDE DEF A, B
<1>4. IsFiniteSet(A) /\ Cardinality(A) <= Cardinality(B) /\ Cardinality(A) # Cardinality(B)
  BY <1>1, <1>3, FS_Subset
<1>5. Cardinality(A) \in Nat /\ Cardinality(B) \in Nat
  BY <1>3, <1>4, FS_CardinalityType
<1>6. Cardinality(A) < Cardinality(B)
  BY <1>4, <1>5
<1>. QED
  BY <1>6 DEF Place, A, B

LEMMA PlaceRange ==
  ASSUME NEW S, IsFiniteSet(S), NEW order, IsOrder(order, S), NEW i \in S
  PROVE  Place(i, S, order) \in 0 .. Cardinality(S) - 1
<1>. DEFINE A == {x \in S : <<x, i>> \in order}
<1>1. A \in SUBSET S /\ i \notin A
  BY DEF IsOrder
<1>2. Place(i, S, order) = Cardinality(A)
  BY DEF Place
<1>. HIDE DEF A
<1>3. IsFiniteSet(A) /\ Cardinality(A) <= Cardinality(S) /\ Cardinality(A) # Cardinality(S)
  BY <1>1, FS_Subset
<1>4. Cardinality(A) \in Nat /\ Cardinality(S) \in Nat
  BY <1>3, FS_CardinalityType
<1>. QED
  BY <1>2, <1>3, <1>4

\* InOrder has each element of S once, each after those before it.
LEMMA InOrderSorts ==
  ASSUME NEW S, IsFiniteSet(S), NEW order, IsOrder(order, S)
  PROVE  /\ InOrder(S, order) \in [1 .. Cardinality(S) -> S]
         /\ \A i \in S : \E k \in 1 .. Cardinality(S) : InOrder(S, order)[k] = i
         /\ \A k, l \in 1 .. Cardinality(S) :
              k < l => <<InOrder(S, order)[k], InOrder(S, order)[l]>> \in order
<1>. DEFINE n == Cardinality(S)
            place == [i \in S |-> Place(i, S, order) + 1]
<1>1. n \in Nat
  BY FS_CardinalityType
<1>2. \A i \in S : Place(i, S, order) \in 0 .. n - 1
  BY PlaceRange
<1>3. place \in [S -> 1 .. n]
  BY <1>1, <1>2
<1>4. ASSUME NEW i \in S, NEW j \in S, i # j
      PROVE  Place(i, S, order) # Place(j, S, order)
  <2>1. CASE <<i, j>> \in order
    BY <1>1, <1>2, <2>1, PlacesIncrease
  <2>2. CASE <<j, i>> \in order
    BY <1>1, <1>2, <2>2, PlacesIncrease
  <2>. QED
    BY <1>4, <2>1, <2>2 DEF IsOrder
<1>5. \A i, j \in S : place[i] = place[j] => i = j
  BY <1>1, <1>2, <1>4
<1>6. place \in Injection(S, 1 .. n)
  BY <1>3, <1>5, Fun_IsInj
<1>7. IsFiniteSet(1 .. n) /\ Cardinality(1 .. n) = n
  BY <1>1, FS_Interval
<1>8. place \in Surjection(S, 1 .. n)
  BY <1>6, <1>7, FS_Injection
<1>9. \A k \in 1 .. n : \E i \in S : Place(i, S, order) = k - 1
  <2>1. \A k \in 1 .. n : \E i \in S : place[i] = k
    BY <1>8 DEF Surjection
  <2>. QED
    BY <1>1, <1>2, <2>1
<1>10. \A k \in 1 .. n : InOrder(S, order)[k] \in S /\ Place(InOrder(S, order)[k], S, order) = k - 1
  BY <1>9 DEF InOrder
<1>11. InOrder(S, order) \in [1 .. n -> S]
  BY <1>10 DEF InOrder
<1>12. ASSUME NEW i \in S
       PROVE  \E k \in 1 .. n : InOrder(S, order)[k] = i
  <2>1. Place(i, S, order) + 1 \in 1 .. n
    BY <1>1, <1>2
  <2>2. Place(InOrder(S, order)[Place(i, S, order) + 1], S, order) = Place(i, S, order)
    BY <1>1, <1>2, <1>10, <2>1
  <2>. QED
    BY <1>4, <1>10, <2>1, <2>2
<1>13. ASSUME NEW k \in 1 .. n, NEW l \in 1 .. n, k < l
       PROVE  <<InOrder(S, order)[k], InOrder(S, order)[l]>> \in order
  <2>. DEFINE a == InOrder(S, order)[k]
              b == InOrder(S, order)[l]
  <2>1. a \in S /\ b \in S /\ Place(a, S, order) < Place(b, S, order)
    BY <1>1, <1>10, <1>13
  <2>. HIDE DEF a, b
  <2>2. a # b /\ ~(<<b, a>> \in order)
    BY <1>1, <1>2, <2>1, PlacesIncrease
  <2>. QED
    BY <2>1, <2>2 DEF IsOrder, a, b
<1>. QED
  BY <1>11, <1>12, <1>13

\* Ascending has each number of S once, from the least to the greatest.
LEMMA AscendingSorts ==
  ASSUME NEW S \in SUBSET Int, IsFiniteSet(S)
  PROVE  /\ Ascending(S) \in Seq(S) /\ Len(Ascending(S)) = Cardinality(S)
         /\ \A i \in S : \E k \in 1 .. Cardinality(S) : Ascending(S)[k] = i
         /\ \A k, l \in 1 .. Cardinality(S) : k < l => Ascending(S)[k] < Ascending(S)[l]
<1>. DEFINE order == {p \in S \X S : p[1] < p[2]}
<1>1. \A i, j \in S : <<i, j>> \in order <=> i < j
  OBVIOUS
<1>2. Ascending(S) = InOrder(S, order)
  BY DEF Ascending
<1>. HIDE DEF order
<1>3. IsOrder(order, S)
  BY <1>1 DEF IsOrder
<1>4. Cardinality(S) \in Nat
  BY FS_CardinalityType
<1>5. /\ Ascending(S) \in [1 .. Cardinality(S) -> S]
      /\ \A i \in S : \E k \in 1 .. Cardinality(S) : Ascending(S)[k] = i
      /\ \A k, l \in 1 .. Cardinality(S) : k < l => <<Ascending(S)[k], Ascending(S)[l]>> \in order
  BY <1>2, <1>3, InOrderSorts
<1>6. Ascending(S) \in Seq(S) /\ Len(Ascending(S)) = Cardinality(S)
  BY <1>4, <1>5
<1>7. \A k, l \in 1 .. Cardinality(S) : k < l => Ascending(S)[k] < Ascending(S)[l]
  BY <1>1, <1>5
<1>. QED
  BY <1>5, <1>6, <1>7

\* A sorted sequence has the numbers it had, in order; if they were distinct, they increase.
LEMMA SortedSorts ==
  ASSUME NEW s \in Seq(Int)
  PROVE  /\ Sorted(s) \in Seq(Int) /\ Len(Sorted(s)) = Len(s)
         /\ \A i \in 1 .. Len(s) : \E k \in 1 .. Len(s) : Sorted(s)[k] = s[i]
         /\ \A k \in 1 .. Len(s) : \E i \in 1 .. Len(s) : Sorted(s)[k] = s[i]
         /\ (\A i, j \in 1 .. Len(s) : s[i] = s[j] => i = j) =>
              \A k, l \in 1 .. Len(s) : k < l => Sorted(s)[k] < Sorted(s)[l]
<1>0. PICK n \in Nat : n = Len(s)
  OBVIOUS
<1>. DEFINE order == StableOrder(s)
            positions == InOrder(1 .. n, order)
<1>1. \A i \in 1 .. n : s[i] \in Int
  BY <1>0
<1>2. \A i, j \in 1 .. n : <<i, j>> \in order <=> s[i] < s[j] \/ (s[i] = s[j] /\ i < j)
  BY <1>0 DEF StableOrder
<1>3. IsFiniteSet(1 .. n) /\ Cardinality(1 .. n) = n
  BY FS_Interval
<1>4. Sorted(s) = [k \in 1 .. n |-> s[positions[k]]]
  BY <1>0 DEF Sorted
<1>. HIDE DEF order
<1>5. IsOrder(order, 1 .. n)
  <2>1. \A i \in 1 .. n : <<i, i>> \notin order
    BY <1>1, <1>2
  <2>2. \A i, j \in 1 .. n : i # j => <<i, j>> \in order \/ <<j, i>> \in order
    BY <1>1, <1>2
  <2>3. ASSUME NEW i \in 1 .. n, NEW j \in 1 .. n, NEW k \in 1 .. n, <<i, j>> \in order, <<j, k>> \in order
        PROVE  <<i, k>> \in order
    <3>1. s[i] \in Int /\ s[j] \in Int /\ s[k] \in Int
      BY <1>1
    <3>2. s[i] < s[j] \/ (s[i] = s[j] /\ i < j)
      BY <1>2, <2>3
    <3>3. s[j] < s[k] \/ (s[j] = s[k] /\ j < k)
      BY <1>2, <2>3
    <3>4. s[i] < s[k] \/ (s[i] = s[k] /\ i < k)
      BY <3>1, <3>2, <3>3
    <3>. QED
      BY <1>2, <3>4
  <2>. QED
    BY <2>1, <2>2, <2>3 DEF IsOrder
<1>6. /\ positions \in [1 .. n -> 1 .. n]
      /\ \A i \in 1 .. n : \E k \in 1 .. n : positions[k] = i
      /\ \A k, l \in 1 .. n : k < l => <<positions[k], positions[l]>> \in order
  <2>1. PICK D : D = 1 .. n
    OBVIOUS
  <2>2. IsFiniteSet(D) /\ Cardinality(D) = n /\ IsOrder(order, D)
    BY <1>3, <1>5, <2>1
  <2>3. /\ InOrder(D, order) \in [1 .. n -> D]
        /\ \A i \in D : \E k \in 1 .. n : InOrder(D, order)[k] = i
        /\ \A k, l \in 1 .. n : k < l => <<InOrder(D, order)[k], InOrder(D, order)[l]>> \in order
    BY <2>2, InOrderSorts, SMTT(40)
  <2>. QED
    BY <2>1, <2>3
<1>. HIDE DEF positions
<1>7. \A k \in 1 .. n : Sorted(s)[k] = s[positions[k]] /\ positions[k] \in 1 .. n
  BY <1>4, <1>6
<1>8. Sorted(s) \in Seq(Int) /\ Len(Sorted(s)) = n
  BY <1>1, <1>4, <1>7
<1>9. ASSUME \A i, j \in 1 .. n : s[i] = s[j] => i = j, NEW k \in 1 .. n, NEW l \in 1 .. n, k < l
      PROVE  Sorted(s)[k] < Sorted(s)[l]
  <2>1. <<positions[k], positions[l]>> \in order
    BY <1>6, <1>9
  <2>2. \/ s[positions[k]] < s[positions[l]]
        \/ s[positions[k]] = s[positions[l]] /\ positions[k] < positions[l]
    BY <1>2, <1>7, <2>1
  <2>. QED
    BY <1>1, <1>7, <1>9, <2>2
<1>. QED
  BY <1>0, <1>6, <1>7, <1>8, <1>9

---------------------------------------------------------------------------------
(* Sequences as the sets of their members, each of them there once. *)

Members(s) == {s[i] : i \in 1 .. Len(s)}
Distinct(s) == \A i, j \in 1 .. Len(s) : s[i] = s[j] => i = j

LEMMA AppendMembers ==
  ASSUME NEW T, NEW s \in Seq(T), NEW e \in T
  PROVE  /\ Append(s, e) \in Seq(T) /\ Len(Append(s, e)) = Len(s) + 1
         /\ Members(Append(s, e)) = Members(s) \cup {e}
         /\ Distinct(s) /\ e \notin Members(s) => Distinct(Append(s, e))
<1>0. PICK n \in Nat : n = Len(s)
  OBVIOUS
<1>. DEFINE t == Append(s, e)
<1>1. t \in Seq(T) /\ Len(t) = n + 1 /\ t[n + 1] = e
  BY <1>0
<1>2. \A i \in 1 .. n : t[i] = s[i]
  BY <1>0
<1>. HIDE DEF t
<1>3. ASSUME NEW x PROVE x \in Members(t) <=> x \in Members(s) \cup {e}
  <2>1. x \in Members(t) <=> \E i \in 1 .. n + 1 : x = t[i]
    BY <1>1 DEF Members
  <2>2. x \in Members(s) <=> \E i \in 1 .. n : x = s[i]
    BY <1>0 DEF Members
  <2>3. \A i \in 1 .. n + 1 : i \in 1 .. n \/ i = n + 1
    OBVIOUS
  <2>4. n + 1 \in 1 .. n + 1 /\ \A i \in 1 .. n : i \in 1 .. n + 1
    OBVIOUS
  <2>. QED
    BY <1>1, <1>2, <2>1, <2>2, <2>3, <2>4
<1>4. ASSUME Distinct(s), e \notin Members(s) PROVE Distinct(t)
  <2>1. \A i, j \in 1 .. n : s[i] = s[j] => i = j
    BY <1>0, <1>4 DEF Distinct
  <2>2. \A i \in 1 .. n : s[i] # e
    BY <1>0, <1>4 DEF Members
  <2>3. \A i \in 1 .. n + 1 : i \in 1 .. n \/ i = n + 1
    OBVIOUS
  <2>. QED
    BY <1>1, <1>2, <2>1, <2>2, <2>3 DEF Distinct
<1>5. Members(t) = Members(s) \cup {e}
  BY <1>3
<1>. QED
  BY <1>0, <1>1, <1>4, <1>5 DEF t

LEMMA ConcatMembers ==
  ASSUME NEW T, NEW s \in Seq(T), NEW t \in Seq(T)
  PROVE  /\ s \o t \in Seq(T) /\ Len(s \o t) = Len(s) + Len(t)
         /\ \A i \in 1 .. Len(s) : i <= Len(s \o t) /\ (s \o t)[i] = s[i]
         /\ Members(s \o t) = Members(s) \cup Members(t)
         /\ Distinct(s) /\ Distinct(t) /\ Members(s) \cap Members(t) = {} => Distinct(s \o t)
<1>0. PICK m \in Nat, n \in Nat : m = Len(s) /\ n = Len(t)
  OBVIOUS
<1>. DEFINE u == s \o t
<1>1. u \in Seq(T) /\ Len(u) = m + n
  BY <1>0
<1>2. \A i \in 1 .. m : u[i] = s[i]
  BY <1>0
<1>3. \A i \in 1 .. n : u[m + i] = t[i]
  BY <1>0
<1>. HIDE DEF u
<1>4. \A i \in 1 .. m + n : i \in 1 .. m \/ (i - m \in 1 .. n /\ u[i] = t[i - m])
  <2>1. ASSUME NEW i \in 1 .. m + n, i \notin 1 .. m PROVE i - m \in 1 .. n /\ u[i] = t[i - m]
    <3>1. i - m \in 1 .. n /\ m + (i - m) = i
      BY <2>1
    <3>. QED
      BY <1>3, <3>1
  <2>. QED
    BY <2>1
<1>5. (\A i \in 1 .. m : i \in 1 .. m + n) /\ (\A i \in 1 .. n : m + i \in 1 .. m + n)
  OBVIOUS
<1>6. ASSUME NEW x PROVE x \in Members(u) <=> x \in Members(s) \cup Members(t)
  <2>1. x \in Members(u) <=> \E i \in 1 .. m + n : x = u[i]
    BY <1>1 DEF Members
  <2>2. x \in Members(s) <=> \E i \in 1 .. m : x = s[i]
    BY <1>0 DEF Members
  <2>3. x \in Members(t) <=> \E i \in 1 .. n : x = t[i]
    BY <1>0 DEF Members
  <2>. QED
    BY <1>2, <1>3, <1>4, <1>5, <2>1, <2>2, <2>3
<1>7. ASSUME Distinct(s), Distinct(t), Members(s) \cap Members(t) = {} PROVE Distinct(u)
  <2>1. \A i, j \in 1 .. m : s[i] = s[j] => i = j
    BY <1>0, <1>7 DEF Distinct
  <2>2. \A i, j \in 1 .. n : t[i] = t[j] => i = j
    BY <1>0, <1>7 DEF Distinct
  <2>3. \A i \in 1 .. m, j \in 1 .. n : s[i] # t[j]
    BY <1>0, <1>7 DEF Members
  <2>4. ASSUME NEW i \in 1 .. m + n, NEW j \in 1 .. m + n, u[i] = u[j] PROVE i = j
    <3>1. CASE i \in 1 .. m /\ j \in 1 .. m
      BY <1>2, <2>1, <2>4, <3>1
    <3>2. CASE i \in 1 .. m /\ j \notin 1 .. m
      BY <1>2, <1>4, <2>3, <2>4, <3>2
    <3>3. CASE i \notin 1 .. m /\ j \in 1 .. m
      BY <1>2, <1>4, <2>3, <2>4, <3>3
    <3>4. CASE i \notin 1 .. m /\ j \notin 1 .. m
      <4>1. i - m \in 1 .. n /\ j - m \in 1 .. n /\ t[i - m] = t[j - m]
        BY <1>4, <2>4, <3>4
      <4>2. i - m = j - m
        BY <2>2, <4>1
      <4>. QED
        BY <4>2
    <3>. QED
      BY <3>1, <3>2, <3>3, <3>4
  <2>. QED
    BY <1>1, <2>4 DEF Distinct
<1>8. Members(u) = Members(s) \cup Members(t)
  BY <1>6
<1>. QED
  BY <1>0, <1>1, <1>2, <1>5, <1>7, <1>8 DEF u

LEMMA SortedMembers ==
  ASSUME NEW s \in Seq(Nat)
  PROVE  /\ Sorted(s) \in Seq(Nat) /\ Len(Sorted(s)) = Len(s)
         /\ Members(Sorted(s)) = Members(s)
         /\ Distinct(s) => /\ Distinct(Sorted(s))
                           /\ \A k, l \in 1 .. Len(s) : k < l => Sorted(s)[k] < Sorted(s)[l]
<1>1. s \in Seq(Int)
  OBVIOUS
<1>0. PICK n \in Nat : n = Len(s)
  OBVIOUS
<1>. DEFINE t == Sorted(s)
<1>2. /\ t \in Seq(Int) /\ Len(t) = n
      /\ \A i \in 1 .. n : \E k \in 1 .. n : t[k] = s[i]
      /\ \A k \in 1 .. n : \E i \in 1 .. n : t[k] = s[i]
      /\ (\A i, j \in 1 .. n : s[i] = s[j] => i = j) =>
           \A k, l \in 1 .. n : k < l => t[k] < t[l]
  BY <1>0, <1>1, SortedSorts
<1>. HIDE DEF t
<1>3. Members(t) = Members(s)
  <2>1. ASSUME NEW x PROVE x \in Members(t) <=> \E i \in 1 .. n : x = t[i]
    BY <1>2 DEF Members
  <2>2. ASSUME NEW x PROVE x \in Members(s) <=> \E i \in 1 .. n : x = s[i]
    BY <1>0 DEF Members
  <2>3. ASSUME NEW x PROVE x \in Members(t) <=> x \in Members(s)
    <3>1. \A i \in 1 .. n : \E k \in 1 .. n : t[k] = s[i]
      BY <1>2
    <3>2. \A k \in 1 .. n : \E i \in 1 .. n : t[k] = s[i]
      BY <1>2
    <3>. QED
      BY <2>1, <2>2, <3>1, <3>2, ZenonT(40)
  <2>. QED
    BY <2>3
<1>4. \A k \in 1 .. n : t[k] \in Nat
  <2>1. \A i \in 1 .. n : s[i] \in Nat
    BY <1>0
  <2>. QED
    BY <1>2, <2>1
<1>5. t \in Seq(Nat)
  <2>1. t \in [1 .. n -> Int]
    BY <1>2
  <2>2. t \in [1 .. n -> Nat]
    BY <1>4, <2>1
  <2>. QED
    BY <2>2
<1>6. ASSUME Distinct(s)
      PROVE  Distinct(t) /\ \A k, l \in 1 .. n : k < l => t[k] < t[l]
  <2>1. \A k, l \in 1 .. n : k < l => t[k] < t[l]
    BY <1>0, <1>2, <1>6 DEF Distinct
  <2>2. ASSUME NEW k \in 1 .. n, NEW l \in 1 .. n, t[k] = t[l] PROVE k = l
    <3>1. ~(k < l) /\ ~(l < k)
      BY <1>4, <2>1, <2>2
    <3>. QED
      BY <3>1
  <2>. QED
    BY <1>2, <2>1, <2>2 DEF Distinct
<1>. QED
  BY <1>0, <1>2, <1>3, <1>5, <1>6 DEF t

\* What does not decrease from one member to the next does not decrease at all.
LEMMA StepsIncrease ==
  ASSUME NEW s \in Seq(Int), \A i \in 1 .. Len(s) - 1 : s[i] <= s[i + 1]
  PROVE  \A i, j \in 1 .. Len(s) : i <= j => s[i] <= s[j]
<1>0. PICK n \in Nat : n = Len(s)
  OBVIOUS
<1>. SUFFICES ASSUME NEW i \in 1 .. n, NEW l \in 1 .. n, i <= l, ~(s[i] <= s[l]) PROVE FALSE
  BY <1>0
<1>. DEFINE S == {j \in 1 .. n : i <= j /\ ~(s[i] <= s[j])}
<1>1. S \in SUBSET Nat /\ l \in S
  OBVIOUS
<1>2. PICK j \in S : \A k \in S : j <= k
  BY <1>1, LeastNatural
<1>3. j \in 1 .. n /\ i <= j /\ ~(s[i] <= s[j])
  BY <1>2
<1>4. \A k \in 1 .. n : s[k] \in Int
  BY <1>0
<1>5. j # i
  BY <1>3, <1>4
<1>6. j - 1 \in 1 .. n /\ i <= j - 1 /\ ~(j <= j - 1) /\ j - 1 \in 1 .. Len(s) - 1 /\ (j - 1) + 1 = j
  BY <1>0, <1>3, <1>5
<1>7. s[i] <= s[j - 1]
  BY <1>2, <1>6
<1>8. s[j - 1] <= s[j]
  BY <1>6
<1>9. s[i] \in Int /\ s[j - 1] \in Int /\ s[j] \in Int
  BY <1>3, <1>4, <1>6
<1>. QED
  BY <1>3, <1>7, <1>8, <1>9

\* The same of a function of 0 .. n.
LEMMA NeverFalls ==
  ASSUME NEW n \in Nat, NEW f, \A k \in 0 .. n : f[k] \in Int, \A k \in 1 .. n : f[k - 1] <= f[k]
  PROVE  \A i, j \in 0 .. n : i <= j => f[i] <= f[j]
<1>. DEFINE s == [k \in 1 .. n + 1 |-> f[k - 1]]
<1>1. s \in Seq(Int) /\ Len(s) = n + 1
  <2>1. \A k \in 1 .. n + 1 : f[k - 1] \in Int
    OBVIOUS
  <2>. QED
    BY <2>1
<1>2. ASSUME NEW i \in 1 .. n PROVE s[i] <= s[i + 1]
  <2>1. s[i] = f[i - 1] /\ s[i + 1] = f[i]
    OBVIOUS
  <2>. QED
    BY <2>1
<1>3. ASSUME NEW i \in 0 .. n PROVE s[i + 1] = f[i] /\ i + 1 \in 1 .. n + 1
  OBVIOUS
<1>. HIDE DEF s
<1>4. \A i, j \in 1 .. n + 1 : i <= j => s[i] <= s[j]
  <2>1. \A i \in 1 .. Len(s) - 1 : s[i] <= s[i + 1]
    BY <1>1, <1>2
  <2>. QED
    BY <1>1, <2>1, StepsIncrease
<1>5. ASSUME NEW i \in 0 .. n, NEW j \in 0 .. n, i <= j PROVE f[i] <= f[j]
  <2>1. i + 1 <= j + 1
    BY <1>5
  <2>. QED
    BY <1>3, <1>4, <2>1
<1>. QED
  BY <1>5

---------------------------------------------------------------------------------
(* Sequences. *)

LEMMA EmptySequence == ASSUME NEW T, NEW s \in Seq(T), Len(s) = 0 PROVE s = <<>>
  OBVIOUS

LEMMA SameSequence ==
  ASSUME NEW T, NEW s \in Seq(T), NEW t \in Seq(T), NEW n \in Nat, Len(s) = n, Len(t) = n,
         \A i \in 1 .. n : s[i] = t[i]
  PROVE  s = t
  OBVIOUS

LEMMA Prefix ==
  ASSUME NEW T, NEW s \in Seq(T), NEW k \in 0 .. Len(s)
  PROVE  SubSeq(s, 1, k) \in Seq(T) /\ Len(SubSeq(s, 1, k)) = k /\ \A j \in 1 .. k : SubSeq(s, 1, k)[j] = s[j]
  OBVIOUS

\* Concatenation, by its name where it is not to be expanded.
Cat(s, t) == s \o t

LEMMA CatIs ==
  ASSUME NEW T, NEW s \in Seq(T), NEW t \in Seq(T)
  PROVE  /\ Cat(s, t) \in Seq(T) /\ Len(Cat(s, t)) = Len(s) + Len(t)
         /\ \A i \in 1 .. Len(s) : Cat(s, t)[i] = s[i]
         /\ \A i \in 1 .. Len(t) : Cat(s, t)[Len(s) + i] = t[i]
  BY DEF Cat

LEMMA CatSecond ==
  ASSUME NEW T, NEW s \in Seq(T), NEW t \in Seq(T), NEW i \in 1 .. Len(t)
  PROVE  Cat(s, t)[Len(s) + i] = t[i]
  BY DEF Cat

---------------------------------------------------------------------------------
(* Sums. *)

\* f has the sums of the first of these numbers.
Sums(f, s, n) == f[0] = 0 /\ \A i \in 1 .. n : f[i] = f[i - 1] + s[i]

LEMMA SumsExist ==
  ASSUME NEW s \in Seq(Nat)
  PROVE  \E f \in [0 .. Len(s) -> Nat] : Sums(f, s, Len(s))
<1>0. PICK n \in Nat : n = Len(s)
  OBVIOUS
<1>. DEFINE P(k) == \E f \in [0 .. k -> Nat] : Sums(f, s, k)
            S == {k \in 0 .. n : ~P(k)}
<1>. SUFFICES ASSUME S # {} PROVE FALSE
  BY <1>0
<1>1. S \in SUBSET Nat
  OBVIOUS
<1>2. PICK k \in S : \A m \in S : k <= m
  <2>. HIDE DEF S
  <2>. QED
    BY <1>1, LeastNatural
<1>3. CASE k = 0
  <2>1. [i \in 0 .. 0 |-> 0] \in [0 .. 0 -> Nat] /\ Sums([i \in 0 .. 0 |-> 0], s, 0)
    BY DEF Sums
  <2>. QED
    BY <1>3, <2>1
<1>4. CASE k # 0
  <2>1. k - 1 \in 0 .. n /\ k \in 1 .. n /\ k - 1 \notin S
    <3>1. k \in 0 .. n
      OBVIOUS
    <3>2. k - 1 \in 0 .. n /\ k \in 1 .. n /\ ~(k <= k - 1)
      BY <1>4, <3>1
    <3>. HIDE DEF S
    <3>. QED
      BY <1>2, <3>2
  <2>2. PICK f \in [0 .. k - 1 -> Nat] : Sums(f, s, k - 1)
    BY <2>1
  <2>. DEFINE g == [i \in 0 .. k |-> IF i = k THEN f[k - 1] + s[k] ELSE f[i]]
  <2>3. s[k] \in Nat /\ f[k - 1] \in Nat
    BY <1>0, <2>1
  <2>4. g \in [0 .. k -> Nat]
    BY <2>1, <2>3, SMTT(40)
  <2>5. g[0] = 0
    BY <2>1, <2>2 DEF Sums
  <2>6. ASSUME NEW i \in 1 .. k PROVE g[i] = g[i - 1] + s[i]
    <3>1. CASE i = k
      BY <2>1, <3>1
    <3>2. CASE i # k
      BY <2>1, <2>2, <3>2 DEF Sums
    <3>. QED
      BY <3>1, <3>2
  <2>7. Sums(g, s, k)
    <3>. HIDE DEF g
    <3>. QED
      BY <2>5, <2>6 DEF Sums
  <2>. QED
    BY <2>4, <2>7
<1>. QED
  BY <1>3, <1>4

LEMMA TotalIs ==
  ASSUME NEW s \in Seq(Nat), NEW f \in [0 .. Len(s) -> Nat], Sums(f, s, Len(s))
  PROVE  Total(s) = f[Len(s)]
<1>0. PICK n \in Nat : n = Len(s)
  OBVIOUS
<1>. DEFINE D(g) == [i \in 0 .. n |-> IF i = 0 THEN 0 ELSE g[i - 1] + s[i]]
            sum == CHOOSE g : g = D(g)
<1>1. f = D(f)
  BY <1>0 DEF Sums
<1>2. sum = D(sum)
  BY <1>1
<1>. HIDE DEF sum
<1>. DEFINE S == {i \in 0 .. n : sum[i] # f[i]}
<1>3. S = {}
  <2>. SUFFICES ASSUME S # {} PROVE FALSE
    OBVIOUS
  <2>1. S \in SUBSET Nat
    OBVIOUS
  <2>2. PICK k \in S : \A m \in S : k <= m
    <3>. HIDE DEF S
    <3>. QED
      BY <2>1, LeastNatural
  <2>3. sum[k] = IF k = 0 THEN 0 ELSE sum[k - 1] + s[k]
    BY <1>2
  <2>4. CASE k = 0
    BY <2>3, <2>4 DEF Sums
  <2>5. CASE k # 0
    <3>1. k - 1 \in 0 .. n /\ k \in 1 .. n /\ k - 1 \notin S
      <4>1. k \in 0 .. n
        OBVIOUS
      <4>2. k - 1 \in 0 .. n /\ k \in 1 .. n /\ ~(k <= k - 1)
        BY <2>5, <4>1
      <4>. HIDE DEF S
      <4>. QED
        BY <2>2, <4>2
    <3>2. sum[k - 1] = f[k - 1] /\ f[k] = f[k - 1] + s[k]
      BY <1>0, <3>1 DEF Sums
    <3>. QED
      BY <2>3, <2>5, <3>2
  <2>. QED
    BY <2>4, <2>5
<1>4. sum[n] = f[n]
  BY <1>3
<1>5. Total(s) = sum[n]
  BY <1>0 DEF Total, sum
<1>. QED
  BY <1>0, <1>4, <1>5

LEMMA TotalConcat ==
  ASSUME NEW s \in Seq(Nat), NEW t \in Seq(Nat)
  PROVE  /\ Total(s) \in Nat /\ Total(t) \in Nat
         /\ Total(s \o t) = Total(s) + Total(t)
<1>0. PICK m \in Nat, n \in Nat : m = Len(s) /\ n = Len(t)
  OBVIOUS
<1>1. PICK f \in [0 .. m -> Nat] : Sums(f, s, m)
  BY <1>0, SumsExist
<1>2. PICK g \in [0 .. n -> Nat] : Sums(g, t, n)
  BY <1>0, SumsExist
<1>. DEFINE h == [i \in 0 .. m + n |-> IF i <= m THEN f[i] ELSE f[m] + g[i - m]]
            u == s \o t
<1>3. Total(s) = f[m] /\ Total(t) = g[n] /\ f[m] \in Nat /\ g[n] \in Nat
  <2>1. Total(s) = f[m]
    BY <1>0, <1>1, TotalIs
  <2>2. Total(t) = g[n]
    BY <1>0, <1>2, TotalIs
  <2>3. f[m] \in Nat /\ g[n] \in Nat
    OBVIOUS
  <2>. QED
    BY <2>1, <2>2, <2>3
<1>4. u \in Seq(Nat) /\ Len(u) = m + n
  BY <1>0
<1>5. \A i \in 1 .. m + n : u[i] = IF i <= m THEN s[i] ELSE t[i - m]
  BY <1>0
<1>6. \A i \in 0 .. m + n : h[i] \in Nat /\ h[i] = IF i <= m THEN f[i] ELSE f[m] + g[i - m]
  <2>. SUFFICES ASSUME NEW i \in 0 .. m + n
                PROVE  h[i] \in Nat /\ h[i] = IF i <= m THEN f[i] ELSE f[m] + g[i - m]
    OBVIOUS
  <2>1. CASE i <= m
    <3>1. i \in 0 .. m
      BY <2>1
    <3>. QED
      BY <2>1, <3>1
  <2>2. CASE ~(i <= m)
    <3>1. i - m \in 0 .. n
      BY <2>2
    <3>2. g[i - m] \in Nat /\ f[m] \in Nat
      BY <3>1
    <3>. QED
      BY <2>2, <3>2
  <2>. QED
    BY <2>1, <2>2
<1>7. h \in [0 .. m + n -> Nat]
  BY <1>6
<1>. HIDE DEF h, u
<1>8. ASSUME NEW i \in 1 .. m + n PROVE h[i] = h[i - 1] + u[i]
  <2>0. i - 1 \in 0 .. m + n /\ i \in 0 .. m + n
    OBVIOUS
  <2>1. CASE i <= m
    BY <1>1, <1>5, <1>6, <2>0, <2>1 DEF Sums
  <2>2. CASE i = m + 1
    <3>1. h[i - 1] = f[m] /\ h[i] = f[m] + g[1] /\ u[i] = t[1]
      BY <1>5, <1>6, <2>0, <2>2
    <3>2. g[1] = g[0] + t[1] /\ g[0] = 0
      BY <1>2, <2>2 DEF Sums
    <3>3. g[1] = t[1]
      BY <1>0, <2>2, <3>2
    <3>. QED
      BY <3>1, <3>3
  <2>3. CASE i > m + 1
    <3>0. ~(i - 1 <= m) /\ ~(i <= m)
      BY <2>3
    <3>1. h[i - 1] = f[m] + g[(i - 1) - m] /\ h[i] = f[m] + g[i - m] /\ u[i] = t[i - m]
      BY <1>5, <1>6, <2>0, <3>0
    <3>2. (i - 1) - m = (i - m) - 1 /\ i - m \in 1 .. n /\ (i - m) - 1 \in 0 .. n
      BY <2>3
    <3>3. g[i - m] = g[(i - m) - 1] + t[i - m]
      BY <1>2, <3>2 DEF Sums
    <3>4. g[(i - m) - 1] \in Nat /\ t[i - m] \in Nat /\ f[m] \in Nat
      <4>1. PICK j \in 1 .. n : j = i - m
        BY <3>2
      <4>2. j - 1 \in 0 .. n
        OBVIOUS
      <4>3. t[j] \in Nat
        BY <1>0
      <4>4. g[j - 1] \in Nat
        BY <4>2
      <4>. QED
        BY <4>1, <4>3, <4>4
    <3>. QED
      BY <3>1, <3>2, <3>3, <3>4, SMTT(40)
  <2>. QED
    BY <2>1, <2>2, <2>3
<1>9. h[0] = 0 /\ h[m + n] = f[m] + g[n]
  <2>1. 0 \in 0 .. m + n /\ m + n \in 0 .. m + n /\ 0 <= m /\ (m + n) - m = n
    OBVIOUS
  <2>2. h[0] = 0
    BY <1>1, <1>6, <2>1 DEF Sums
  <2>3. h[m + n] = IF m + n <= m THEN f[m + n] ELSE f[m] + g[n]
    BY <1>6, <2>1
  <2>4. n = 0 => g[n] = 0 /\ m + n = m
    BY <1>2 DEF Sums
  <2>5. CASE n = 0
    <3>1. h[m] = f[m]
      BY <2>3, <2>4, <2>5
    <3>2. f[m] = f[m] + g[n]
      BY <1>3, <2>4, <2>5
    <3>. QED
      BY <2>2, <2>4, <2>5, <3>1, <3>2
  <2>6. CASE n # 0
    <3>1. ~(m + n <= m)
      BY <2>6
    <3>. QED
      BY <2>2, <2>3, <3>1
  <2>. QED
    BY <2>5, <2>6
<1>10. Sums(h, u, m + n)
  BY <1>8, <1>9 DEF Sums
<1>11. Total(u) = h[m + n]
  BY <1>4, <1>7, <1>10, TotalIs
<1>. QED
  BY <1>3, <1>9, <1>11 DEF u

\* The total of one number more.
LEMMA TotalAppend ==
  ASSUME NEW s \in Seq(Nat), NEW t \in Seq(Nat), NEW n \in Nat, Len(s) = n, Len(t) = n + 1,
         \A i \in 1 .. n : t[i] = s[i]
  PROVE  Total(s) \in Nat /\ Total(t) = Total(s) + t[n + 1]
<1>1. PICK f \in [0 .. n + 1 -> Nat] : Sums(f, t, n + 1)
  BY SumsExist
<1>. DEFINE g == [i \in 0 .. n |-> f[i]]
<1>2. g \in [0 .. n -> Nat] /\ \A i \in 0 .. n : g[i] = f[i]
  OBVIOUS
<1>. HIDE DEF g
<1>3. Sums(g, s, n)
  <2>1. g[0] = 0
    BY <1>1, <1>2 DEF Sums
  <2>2. ASSUME NEW i \in 1 .. n PROVE g[i] = g[i - 1] + s[i]
    <3>1. i \in 0 .. n /\ i - 1 \in 0 .. n /\ i \in 1 .. n + 1
      OBVIOUS
    <3>2. f[i] = f[i - 1] + t[i]
      BY <1>1, <3>1 DEF Sums
    <3>. QED
      BY <1>2, <3>1, <3>2
  <2>. QED
    BY <2>1, <2>2 DEF Sums
<1>4. Total(s) = g[n]
  BY <1>2, <1>3, TotalIs
<1>5. Total(t) = f[n + 1]
  BY <1>1, TotalIs
<1>6. f[n + 1] = f[n] + t[n + 1]
  <2>1. n + 1 \in 1 .. n + 1 /\ (n + 1) - 1 = n
    OBVIOUS
  <2>. QED
    BY <1>1, <2>1 DEF Sums
<1>. QED
  BY <1>2, <1>4, <1>5, <1>6

LEMMA TotalEmpty == Total(<<>>) = 0
<1>1. [i \in 0 .. 0 |-> 0] \in [0 .. 0 -> Nat] /\ Sums([i \in 0 .. 0 |-> 0], <<>>, 0)
  BY DEF Sums
<1>2. <<>> \in Seq(Nat) /\ Len(<<>>) = 0
  OBVIOUS
<1>. QED
  BY <1>1, <1>2, TotalIs

LEMMA TotalOne ==
  ASSUME NEW n \in Nat
  PROVE  Total(<<n>>) = n
<1>. DEFINE f == [i \in 0 .. 1 |-> IF i = 0 THEN 0 ELSE n]
<1>1. f \in [0 .. 1 -> Nat] /\ f[0] = 0 /\ f[1] = n
  OBVIOUS
<1>2. <<n>> \in Seq(Nat) /\ Len(<<n>>) = 1 /\ <<n>>[1] = n
  OBVIOUS
<1>. HIDE DEF f
<1>3. Sums(f, <<n>>, 1)
  BY <1>1, <1>2 DEF Sums
<1>. QED
  BY <1>1, <1>2, <1>3, TotalIs

---------------------------------------------------------------------------------
(* Sequences of sequences as one. *)

\* f has the first of these sequences as one.
Joins(f, ss, n) == f[1] = ss[1] /\ \A i \in 2 .. n : f[i] = Cat(f[i - 1], ss[i])

LEMMA JoinsExist ==
  ASSUME NEW T, NEW ss \in Seq(Seq(T)), ss # <<>>
  PROVE  \E f \in [1 .. Len(ss) -> Seq(T)] : Joins(f, ss, Len(ss))
<1>0. PICK n \in Nat : n = Len(ss) /\ n # 0
  OBVIOUS
<1>. DEFINE P(k) == \E f \in [1 .. k -> Seq(T)] : Joins(f, ss, k)
            S == {k \in 1 .. n : ~P(k)}
<1>. SUFFICES ASSUME S # {} PROVE FALSE
  BY <1>0
<1>1. S \in SUBSET Nat
  OBVIOUS
<1>2. PICK k \in S : \A m \in S : k <= m
  <2>. HIDE DEF S
  <2>. QED
    BY <1>1, LeastNatural
<1>3. CASE k = 1
  <2>. DEFINE g == [i \in 1 .. 1 |-> ss[1]]
  <2>1. ss[1] \in Seq(T)
    BY <1>0
  <2>2. g \in [1 .. 1 -> Seq(T)] /\ g[1] = ss[1]
    BY <2>1
  <2>3. Joins(g, ss, 1)
    BY <2>2 DEF Joins
  <2>. QED
    BY <1>3, <2>2, <2>3
<1>4. CASE k # 1
  <2>1. k - 1 \in 1 .. n /\ k \in 2 .. n /\ k - 1 \notin S
    <3>1. k \in 1 .. n
      OBVIOUS
    <3>2. k - 1 \in 1 .. n /\ k \in 2 .. n /\ ~(k <= k - 1)
      BY <1>4, <3>1
    <3>. HIDE DEF S
    <3>. QED
      BY <1>2, <3>2
  <2>2. PICK f \in [1 .. k - 1 -> Seq(T)] : Joins(f, ss, k - 1)
    BY <2>1
  <2>3. ss[k] \in Seq(T) /\ f[k - 1] \in Seq(T)
    BY <1>0, <2>1
  <2>4. PICK e \in Seq(T) : e = Cat(f[k - 1], ss[k])
    BY <2>3, CatIs
  <2>. DEFINE g == [i \in 1 .. k |-> IF i = k THEN e ELSE f[i]]
  <2>5. g \in [1 .. k -> Seq(T)]
    BY <2>1, <2>3
  <2>6. g[1] = ss[1]
    BY <2>1, <2>2 DEF Joins
  <2>7. ASSUME NEW i \in 2 .. k PROVE g[i] = Cat(g[i - 1], ss[i])
    <3>1. CASE i = k
      BY <2>1, <2>4, <3>1
    <3>2. CASE i # k
      BY <2>1, <2>2, <3>2 DEF Joins
    <3>. QED
      BY <3>1, <3>2
  <2>8. Joins(g, ss, k)
    <3>. HIDE DEF g
    <3>. QED
      BY <2>6, <2>7 DEF Joins
  <2>. QED
    BY <2>5, <2>8
<1>. QED
  BY <1>3, <1>4

LEMMA FlattenIs ==
  ASSUME NEW T, NEW ss \in Seq(Seq(T)), ss # <<>>,
         NEW f \in [1 .. Len(ss) -> Seq(T)], Joins(f, ss, Len(ss))
  PROVE  FlattenSeq(ss) = f[Len(ss)]
<1>0. PICK n \in Nat : n = Len(ss) /\ n # 0
  OBVIOUS
<1>. DEFINE D(g) == [i \in 1 .. n |-> IF i = 1 THEN ss[i] ELSE Cat(g[i - 1], ss[i])]
            all == CHOOSE g : g = D(g)
<1>1. f = D(f)
  BY <1>0 DEF Joins
<1>2. all = D(all)
  BY <1>1
<1>. HIDE DEF all
<1>. DEFINE S == {i \in 1 .. n : all[i] # f[i]}
<1>3. S = {}
  <2>. SUFFICES ASSUME S # {} PROVE FALSE
    OBVIOUS
  <2>1. S \in SUBSET Nat
    OBVIOUS
  <2>2. PICK k \in S : \A m \in S : k <= m
    <3>. HIDE DEF S
    <3>. QED
      BY <2>1, LeastNatural
  <2>3. all[k] = IF k = 1 THEN ss[k] ELSE Cat(all[k - 1], ss[k])
    BY <1>2
  <2>4. CASE k = 1
    BY <2>3, <2>4 DEF Joins
  <2>5. CASE k # 1
    <3>1. k - 1 \in 1 .. n /\ k \in 2 .. n /\ k - 1 \notin S
      BY <2>2, <2>5
    <3>2. all[k - 1] = f[k - 1] /\ f[k] = Cat(f[k - 1], ss[k])
      BY <1>0, <3>1 DEF Joins
    <3>. QED
      BY <2>3, <2>5, <3>2
  <2>. QED
    BY <2>4, <2>5
<1>4. all[n] = f[n]
  BY <1>0, <1>3
<1>5. FlattenSeq(ss) = all[n]
  BY <1>0 DEF FlattenSeq, all, Cat
<1>. QED
  BY <1>0, <1>4, <1>5

\* One more sequence is put after the others.
LEMMA FlattenAppend ==
  ASSUME NEW T, NEW ss \in Seq(Seq(T)), NEW s \in Seq(T)
  PROVE  /\ FlattenSeq(<<>>) = <<>>
         /\ FlattenSeq(ss) \in Seq(T)
         /\ FlattenSeq(Append(ss, s)) = FlattenSeq(ss) \o s
<1>0. PICK n \in Nat : n = Len(ss)
  OBVIOUS
<1>1. FlattenSeq(<<>>) = <<>>
  BY DEF FlattenSeq
<1>. DEFINE u == Append(ss, s)
<1>2. u \in Seq(Seq(T)) /\ Len(u) = n + 1 /\ u # <<>> /\ u[n + 1] = s /\ \A i \in 1 .. n : u[i] = ss[i]
  BY <1>0
<1>. HIDE DEF u
<1>3. PICK f \in [1 .. n + 1 -> Seq(T)] : Joins(f, u, n + 1)
  BY <1>2, JoinsExist, ZenonT(60)
<1>4. FlattenSeq(u) = f[n + 1]
  BY <1>2, <1>3, FlattenIs
<1>5. CASE n = 0
  <2>0. ss = <<>>
    BY <1>0, <1>5, EmptySequence
  <2>1. f[n + 1] = s
    BY <1>2, <1>3, <1>5 DEF Joins
  <2>2. <<>> \o s = s /\ <<>> \in Seq(T)
    OBVIOUS
  <2>. QED
    BY <1>1, <1>4, <2>0, <2>1, <2>2 DEF u
<1>6. CASE n # 0
  <2>. DEFINE g == [i \in 1 .. n |-> f[i]]
  <2>1. g \in [1 .. n -> Seq(T)]
    OBVIOUS
  <2>2. g[1] = ss[1]
    BY <1>2, <1>3, <1>6 DEF Joins
  <2>3. ASSUME NEW i \in 2 .. n PROVE g[i] = Cat(g[i - 1], ss[i])
    BY <1>2, <1>3 DEF Joins
  <2>4. g[n] = f[n] /\ f[n] \in Seq(T)
    BY <1>6
  <2>. HIDE DEF g
  <2>5. Joins(g, ss, n)
    BY <2>2, <2>3 DEF Joins
  <2>6. FlattenSeq(ss) = f[n]
    <3>1. ss # <<>>
      BY <1>0, <1>6
    <3>2. FlattenSeq(ss) = g[n]
      BY <1>0, <2>1, <2>5, <3>1, FlattenIs
    <3>. QED
      BY <2>4, <3>2
  <2>7. f[n + 1] = Cat(f[n], s)
    <3>1. n + 1 \in 2 .. n + 1 /\ (n + 1) - 1 = n
      BY <1>6
    <3>. QED
      BY <1>2, <1>3, <3>1 DEF Joins
  <2>. QED
    BY <1>1, <1>4, <2>4, <2>6, <2>7 DEF u, Cat
<1>. QED
  BY <1>5, <1>6

LEMMA FlattenGrow ==
  ASSUME NEW T, NEW ss \in Seq(Seq(T)), NEW k \in 1 .. Len(ss)
  PROVE  /\ ss[k] \in Seq(T)
         /\ FlattenSeq(SubSeq(ss, 1, k - 1)) \in Seq(T) /\ FlattenSeq(SubSeq(ss, 1, k)) \in Seq(T)
         /\ FlattenSeq(SubSeq(ss, 1, k)) = Cat(FlattenSeq(SubSeq(ss, 1, k - 1)), ss[k])
<1>1. ss[k] \in Seq(T)
  OBVIOUS
<1>2. k - 1 \in 0 .. Len(ss) /\ k \in 0 .. Len(ss) /\ 1 \in 1 .. Len(ss)
  OBVIOUS
<1>3. PICK b \in Seq(Seq(T)) : b = SubSeq(ss, 1, k - 1)
  BY <1>2, Prefix, Zenon
<1>4. SubSeq(ss, 1, k) = Append(b, ss[k])
  <2>1. SubSeq(ss, 1, k) = SubSeq(ss, 1, k - 1) \o <<ss[k]>>
    BY <1>2, SubSeqRecursiveSecond, Zenon
  <2>2. Append(b, ss[k]) = b \o <<ss[k]>>
    BY <1>1, AppendIsConcat, Zenon
  <2>. QED
    BY <1>3, <2>1, <2>2, Zenon
<1>5. FlattenSeq(b) \in Seq(T) /\ FlattenSeq(Append(b, ss[k])) = Cat(FlattenSeq(b), ss[k])
  BY <1>1, FlattenAppend, Zenon DEF Cat
<1>6. Cat(FlattenSeq(b), ss[k]) \in Seq(T)
  BY <1>1, <1>5, CatIs, Zenon
<1>. QED
  BY <1>1, <1>3, <1>4, <1>5, <1>6, Zenon

LEMMA FlattenNone ==
  ASSUME NEW T, NEW ss \in Seq(Seq(T))
  PROVE  FlattenSeq(SubSeq(ss, 1, 0)) = <<>>
<1>1. SubSeq(ss, 1, 0) = <<>>
  OBVIOUS
<1>2. <<>> \in Seq(T)
  OBVIOUS
<1>. QED
  BY <1>1, <1>2, FlattenAppend, Zenon

\* How long each of these sequences is.
Lens(ss) == [k \in 1 .. Len(ss) |-> Len(ss[k])]

LEMMA FlattenLens ==
  ASSUME NEW T, NEW ss \in Seq(Seq(T))
  PROVE  Lens(ss) \in Seq(Nat) /\ Len(FlattenSeq(ss)) = Total(Lens(ss))
<1>0. PICK n \in Nat : n = Len(ss)
  OBVIOUS
<1>1. \A k \in 1 .. n : ss[k] \in Seq(T) /\ Len(ss[k]) \in Nat
  BY <1>0
<1>2. PICK l \in Seq(Nat) : l = Lens(ss) /\ Len(l) = n /\ \A k \in 1 .. n : l[k] = Len(ss[k])
  <2>1. Lens(ss) = [k \in 1 .. n |-> Len(ss[k])]
    BY <1>0 DEF Lens
  <2>2. [k \in 1 .. n |-> Len(ss[k])] \in Seq(Nat)
    BY <1>1
  <2>. QED
    BY <2>1, <2>2, SMTT(30)
<1>. DEFINE up(k) == FlattenSeq(SubSeq(ss, 1, k))
            f == [k \in 0 .. n |-> Len(up(k))]
<1>3. up(0) = <<>>
  BY FlattenNone, Zenon
<1>4. ASSUME NEW k \in 1 .. n
      PROVE  up(k - 1) \in Seq(T) /\ up(k) \in Seq(T) /\ Len(up(k)) = Len(up(k - 1)) + l[k]
  <2>1. up(k - 1) \in Seq(T) /\ up(k) \in Seq(T) /\ up(k) = Cat(up(k - 1), ss[k])
    BY <1>0, FlattenGrow, Zenon
  <2>2. PICK a \in Seq(T), b \in Seq(T) : a = up(k - 1) /\ b = ss[k]
    BY <1>1, <2>1, Zenon
  <2>3. Len(Cat(a, b)) = Len(a) + Len(b)
    BY CatIs, Zenon
  <2>. QED
    BY <1>2, <2>1, <2>2, <2>3, Zenon
<1>5. SubSeq(ss, 1, n) = ss
  BY <1>0, SubSeqFull, Zenon
<1>6. up(n) = FlattenSeq(ss)
  BY <1>5, Zenon
<1>. HIDE DEF up
<1>7. ASSUME NEW k \in 0 .. n PROVE Len(up(k)) \in Nat
  <2>1. CASE k = 0
    BY <1>3, <2>1
  <2>2. CASE k # 0
    <3>1. k \in 1 .. n
      BY <2>2
    <3>2. up(k) \in Seq(T)
      BY <1>4, <3>1, Zenon
    <3>. QED
      BY <3>2
  <2>. QED
    BY <2>1, <2>2
<1>8. f \in [0 .. n -> Nat] /\ \A k \in 0 .. n : f[k] = Len(up(k))
  BY <1>7
<1>9. f[0] = 0
  BY <1>3, <1>8
<1>10. ASSUME NEW k \in 1 .. n PROVE f[k] = f[k - 1] + l[k]
  <2>1. k \in 0 .. n /\ k - 1 \in 0 .. n
    OBVIOUS
  <2>. QED
    BY <1>4, <1>8, <2>1, Zenon
<1>. HIDE DEF f
<1>11. Sums(f, l, n)
  BY <1>9, <1>10 DEF Sums
<1>12. Total(l) = f[n]
  BY <1>2, <1>8, <1>11, TotalIs, Zenon
<1>13. n \in 0 .. n
  OBVIOUS
<1>. QED
  BY <1>2, <1>6, <1>8, <1>12, <1>13, Zenon

\* An element of one of the sequences is at its place after all those before it.
LEMMA FlattenAt ==
  ASSUME NEW T, NEW ss \in Seq(Seq(T)), NEW k \in 1 .. Len(ss), NEW o \in 1 .. Len(ss[k])
  PROVE  /\ Len(FlattenSeq(SubSeq(ss, 1, k - 1))) \in Nat
         /\ FlattenSeq(ss)[Len(FlattenSeq(SubSeq(ss, 1, k - 1))) + o] = ss[k][o]
         /\ Len(FlattenSeq(SubSeq(ss, 1, k - 1))) + o <= Len(FlattenSeq(ss))
<1>0. PICK n \in Nat : n = Len(ss)
  OBVIOUS
<1>. DEFINE up(j) == FlattenSeq(SubSeq(ss, 1, j))
<1>1. \A j \in 1 .. n : /\ ss[j] \in Seq(T) /\ up(j - 1) \in Seq(T) /\ up(j) \in Seq(T)
                        /\ up(j) = Cat(up(j - 1), ss[j])
  BY <1>0, FlattenGrow, Zenon
<1>2. SubSeq(ss, 1, n) = ss
  BY <1>0, SubSeqFull, Zenon
<1>3. up(n) = FlattenSeq(ss)
  BY <1>2, Zenon
<1>. HIDE DEF up
<1>4. PICK l \in Nat : l = Len(up(k - 1))
  <2>1. up(k - 1) \in Seq(T)
    BY <1>0, <1>1
  <2>. QED
    BY <2>1
<1>. DEFINE S == {j \in k .. n : ~(l + o <= Len(up(j)) /\ up(j)[l + o] = ss[k][o])}
<1>5. S = {}
  <2>. SUFFICES ASSUME S # {} PROVE FALSE
    OBVIOUS
  <2>1. S \in SUBSET Nat
    BY <1>0
  <2>2. PICK j \in S : \A m \in S : j <= m
    <3>. HIDE DEF S
    <3>. QED
      BY <2>1, LeastNatural
  <2>3. j \in 1 .. n /\ j \in k .. n /\ (j # k => j - 1 \in k .. n)
    BY <1>0
  <2>4. PICK a \in Seq(T), b \in Seq(T) : a = up(j - 1) /\ b = ss[j] /\ up(j) = Cat(a, b)
    BY <1>1, <2>3, Zenon
  <2>5. Len(Cat(a, b)) = Len(a) + Len(b) /\ \A i \in 1 .. Len(a) : Cat(a, b)[i] = a[i]
    BY CatIs, ZenonT(60)
  <2>6. CASE j = k
    <3>1. Len(a) = l /\ o \in 1 .. Len(b) /\ b = ss[k]
      BY <1>4, <2>4, <2>6
    <3>2. Cat(a, b)[Len(a) + o] = b[o]
      <4>1. ASSUME NEW i \in 1 .. Len(b) PROVE Cat(a, b)[Len(a) + i] = b[i]
        BY CatSecond, ZenonT(60)
      <4>. QED
        BY <3>1, <4>1, Zenon
    <3>3. l + o <= l + Len(b)
      BY <3>1
    <3>4. l + o <= Len(up(j)) /\ up(j)[l + o] = ss[k][o]
      BY <2>4, <2>5, <3>1, <3>2, <3>3, Zenon
    <3>. QED
      BY <2>2, <3>4
  <2>7. CASE j # k
    <3>1. j - 1 \in k .. n /\ ~(j <= j - 1)
      BY <2>3, <2>7
    <3>2. j - 1 \notin S
      <4>. HIDE DEF S
      <4>. QED
        BY <2>2, <3>1
    <3>3. l + o <= Len(a) /\ a[l + o] = ss[k][o]
      BY <2>4, <3>1, <3>2
    <3>4. PICK x \in Nat, y \in Nat : x = Len(a) /\ y = Len(b)
      OBVIOUS
    <3>5. l + o \in 1 .. x /\ l + o <= x + y
      BY <3>3, <3>4
    <3>6. l + o <= Len(up(j)) /\ up(j)[l + o] = ss[k][o]
      BY <2>4, <2>5, <3>3, <3>4, <3>5, Zenon
    <3>. QED
      BY <2>2, <3>6
  <2>. QED
    BY <2>6, <2>7
<1>6. n \in k .. n
  BY <1>0
<1>7. up(n)[l + o] = ss[k][o] /\ l + o <= Len(up(n))
  BY <1>5, <1>6
<1>. QED
  BY <1>3, <1>4, <1>7, Zenon DEF up

---------------------------------------------------------------------------------
(* Sums and products of numbers each for some of 1 .. n. *)

\* s has the sums, and p the products, of those of the first of 1 .. n.
SumsOf(s, f, n) == s[0] = 0 /\ \A i \in 1 .. n : s[i] = s[i - 1] + At(f, i, 0)
ProductsOf(p, f, n) == p[0] = 1 /\ \A i \in 1 .. n : p[i] = p[i - 1] * At(f, i, 1)

Recursion(f, a, step, n) == f[0] = a /\ \A i \in 1 .. n : f[i] = step[i][f[i - 1]]

\* A recursion over 0 .. n which steps by a function of the place and the value before it has a solution.
LEMMA RecursionExists ==
  ASSUME NEW n \in Nat, NEW T, NEW a \in T, NEW step \in [1 .. n -> [T -> T]]
  PROVE  \E f \in [0 .. n -> T] : Recursion(f, a, step, n)
<1>. USE DEF Recursion
<1>. DEFINE P(k) == \E f \in [0 .. k -> T] : f[0] = a /\ \A i \in 1 .. k : f[i] = step[i][f[i - 1]]
            S == {k \in 0 .. n : ~P(k)}
<1>0. n \in 0 .. n
  OBVIOUS
<1>. SUFFICES ASSUME S # {} PROVE FALSE
  <2>1. S = {} => P(n)
    BY <1>0, Zenon
  <2>. HIDE DEF S
  <2>. QED
    BY <2>1, Zenon
<1>1. S \in SUBSET Nat
  OBVIOUS
<1>2. PICK k \in S : \A m \in S : k <= m
  <2>. HIDE DEF S
  <2>. QED
    BY <1>1, LeastNatural
<1>3. CASE k = 0
  <2>. DEFINE f == [i \in 0 .. 0 |-> a]
  <2>1. f \in [0 .. 0 -> T] /\ f[0] = a /\ \A i \in 1 .. 0 : f[i] = step[i][f[i - 1]]
    OBVIOUS
  <2>. QED
    BY <1>3, <2>1
<1>4. CASE k # 0
  <2>1. k - 1 \in 0 .. n /\ k \in 1 .. n /\ k - 1 \notin S
    <3>1. k \in 0 .. n
      OBVIOUS
    <3>2. k - 1 \in 0 .. n /\ k \in 1 .. n /\ ~(k <= k - 1)
      BY <1>4, <3>1
    <3>. HIDE DEF S
    <3>. QED
      BY <1>2, <3>2
  <2>2. PICK f \in [0 .. k - 1 -> T] : f[0] = a /\ \A i \in 1 .. k - 1 : f[i] = step[i][f[i - 1]]
    BY <2>1
  <2>. DEFINE g == [i \in 0 .. k |-> IF i = k THEN step[k][f[k - 1]] ELSE f[i]]
  <2>3. step[k] \in [T -> T] /\ f[k - 1] \in T
    BY <2>1
  <2>4. g \in [0 .. k -> T]
    <3>1. step[k][f[k - 1]] \in T
      BY <2>3
    <3>2. \A i \in 0 .. k : i # k => i \in 0 .. k - 1
      BY <2>1
    <3>. QED
      BY <3>1, <3>2
  <2>5. g[0] = a
    BY <2>1, <2>2
  <2>6. ASSUME NEW i \in 1 .. k PROVE g[i] = step[i][g[i - 1]]
    <3>1. i - 1 \in 0 .. k /\ i - 1 # k /\ g[i - 1] = f[i - 1]
      BY <2>1
    <3>2. CASE i = k
      BY <3>1, <3>2
    <3>3. CASE i # k
      <4>1. i \in 1 .. k - 1 /\ g[i] = f[i]
        BY <2>1, <3>3
      <4>. QED
        BY <2>2, <3>1, <4>1
    <3>. QED
      BY <3>2, <3>3
  <2>. HIDE DEF g
  <2>7. P(k)
    BY <2>4, <2>5, <2>6
  <2>. QED
    BY <2>7
<1>. QED
  BY <1>3, <1>4

\* SumUpTo is the last of the sums.
LEMMA SumUpToIs ==
  ASSUME NEW n \in Nat, NEW f, \A i \in 1 .. n : At(f, i, 0) \in Int
  PROVE  \E s \in [0 .. n -> Int] : SumsOf(s, f, n) /\ SumUpTo(f, n) = s[n]
<1>. DEFINE step == [i \in 1 .. n |-> [x \in Int |-> x + At(f, i, 0)]]
<1>1. step \in [1 .. n -> [Int -> Int]]
  OBVIOUS
<1>2. \A i \in 1 .. n : \A x \in Int : step[i][x] = x + At(f, i, 0)
  OBVIOUS
<1>. HIDE DEF step
<1>3. PICK s \in [0 .. n -> Int] : s[0] = 0 /\ \A i \in 1 .. n : s[i] = step[i][s[i - 1]]
  <2>1. 0 \in Int
    OBVIOUS
  <2>2. \E s \in [0 .. n -> Int] : Recursion(s, 0, step, n)
    BY <1>1, <2>1, RecursionExists
  <2>. QED
    BY <2>2 DEF Recursion
<1>4. SumsOf(s, f, n)
  <2>1. \A i \in 1 .. n : i - 1 \in 0 .. n
    OBVIOUS
  <2>. QED
    BY <1>2, <1>3, <2>1 DEF SumsOf
<1>. DEFINE D(g) == [i \in 0 .. n |-> IF i = 0 THEN 0 ELSE g[i - 1] + At(f, i, 0)]
            sum == CHOOSE g : g = D(g)
<1>5. s = D(s)
  <2>1. \A i \in 0 .. n : s[i] = IF i = 0 THEN 0 ELSE s[i - 1] + At(f, i, 0)
    BY <1>4 DEF SumsOf
  <2>. QED
    BY <2>1
<1>6. sum = D(sum)
  BY <1>5
<1>7. SumUpTo(f, n) = sum[n]
  BY DEF SumUpTo
<1>8. \A i \in 0 .. n : sum[i] = IF i = 0 THEN 0 ELSE sum[i - 1] + At(f, i, 0)
  <2>. HIDE DEF sum
  <2>. QED
    BY <1>6
<1>. HIDE DEF sum
<1>. DEFINE S == {i \in 0 .. n : sum[i] # s[i]}
<1>9. S = {}
  <2>. SUFFICES ASSUME S # {} PROVE FALSE
    OBVIOUS
  <2>1. S \in SUBSET Nat
    OBVIOUS
  <2>2. PICK k \in S : \A m \in S : k <= m
    <3>. HIDE DEF S
    <3>. QED
      BY <2>1, LeastNatural
  <2>3. sum[k] = IF k = 0 THEN 0 ELSE sum[k - 1] + At(f, k, 0)
    BY <1>8
  <2>4. CASE k = 0
    BY <1>4, <2>3, <2>4 DEF SumsOf
  <2>5. CASE k # 0
    <3>1. k - 1 \in 0 .. n /\ k \in 1 .. n /\ k - 1 \notin S
      <4>1. k \in 0 .. n
        OBVIOUS
      <4>2. k - 1 \in 0 .. n /\ k \in 1 .. n /\ ~(k <= k - 1)
        BY <2>5, <4>1
      <4>. HIDE DEF S
      <4>. QED
        BY <2>2, <4>2
    <3>2. sum[k - 1] = s[k - 1] /\ s[k] = s[k - 1] + At(f, k, 0)
      BY <1>4, <3>1 DEF SumsOf
    <3>. QED
      BY <2>3, <2>5, <3>2
  <2>. QED
    BY <2>4, <2>5
<1>10. sum[n] = s[n]
  BY <1>9
<1>. QED
  BY <1>4, <1>7, <1>10

\* ProductUpTo is the last of the products.
LEMMA ProductUpToIs ==
  ASSUME NEW n \in Nat, NEW f, \A i \in 1 .. n : At(f, i, 1) \in Int
  PROVE  \E p \in [0 .. n -> Int] : ProductsOf(p, f, n) /\ ProductUpTo(f, n) = p[n]
<1>. DEFINE step == [i \in 1 .. n |-> [x \in Int |-> x * At(f, i, 1)]]
<1>1. step \in [1 .. n -> [Int -> Int]]
  OBVIOUS
<1>2. \A i \in 1 .. n : \A x \in Int : step[i][x] = x * At(f, i, 1)
  OBVIOUS
<1>. HIDE DEF step
<1>3. PICK p \in [0 .. n -> Int] : p[0] = 1 /\ \A i \in 1 .. n : p[i] = step[i][p[i - 1]]
  <2>1. 1 \in Int
    OBVIOUS
  <2>2. \E p \in [0 .. n -> Int] : Recursion(p, 1, step, n)
    BY <1>1, <2>1, RecursionExists
  <2>. QED
    BY <2>2 DEF Recursion
<1>4. ProductsOf(p, f, n)
  <2>1. \A i \in 1 .. n : i - 1 \in 0 .. n
    OBVIOUS
  <2>. QED
    BY <1>2, <1>3, <2>1 DEF ProductsOf
<1>. DEFINE D(g) == [i \in 0 .. n |-> IF i = 0 THEN 1 ELSE g[i - 1] * At(f, i, 1)]
            product == CHOOSE g : g = D(g)
<1>5. p = D(p)
  <2>1. \A i \in 0 .. n : p[i] = IF i = 0 THEN 1 ELSE p[i - 1] * At(f, i, 1)
    BY <1>4 DEF ProductsOf
  <2>. QED
    BY <2>1
<1>6. product = D(product)
  BY <1>5
<1>7. ProductUpTo(f, n) = product[n]
  BY DEF ProductUpTo
<1>8. \A i \in 0 .. n : product[i] = IF i = 0 THEN 1 ELSE product[i - 1] * At(f, i, 1)
  <2>. HIDE DEF product
  <2>. QED
    BY <1>6
<1>. HIDE DEF product
<1>. DEFINE S == {i \in 0 .. n : product[i] # p[i]}
<1>9. S = {}
  <2>. SUFFICES ASSUME S # {} PROVE FALSE
    OBVIOUS
  <2>1. S \in SUBSET Nat
    OBVIOUS
  <2>2. PICK k \in S : \A m \in S : k <= m
    <3>. HIDE DEF S
    <3>. QED
      BY <2>1, LeastNatural
  <2>3. product[k] = IF k = 0 THEN 1 ELSE product[k - 1] * At(f, k, 1)
    BY <1>8
  <2>4. CASE k = 0
    BY <1>4, <2>3, <2>4 DEF ProductsOf
  <2>5. CASE k # 0
    <3>1. k - 1 \in 0 .. n /\ k \in 1 .. n /\ k - 1 \notin S
      <4>1. k \in 0 .. n
        OBVIOUS
      <4>2. k - 1 \in 0 .. n /\ k \in 1 .. n /\ ~(k <= k - 1)
        BY <2>5, <4>1
      <4>. HIDE DEF S
      <4>. QED
        BY <2>2, <4>2
    <3>2. product[k - 1] = p[k - 1] /\ p[k] = p[k - 1] * At(f, k, 1)
      BY <1>4, <3>1 DEF ProductsOf
    <3>. QED
      BY <2>3, <2>5, <3>2
  <2>. QED
    BY <2>4, <2>5
<1>10. product[n] = p[n]
  BY <1>9
<1>. QED
  BY <1>4, <1>7, <1>10

\* A sum of which one number alone is not zero is that number.
LEMMA SumOfOne ==
  ASSUME NEW n \in Nat, NEW f, NEW k \in 1 .. n, At(f, k, 0) \in Int, \A i \in 1 .. n : i # k => At(f, i, 0) = 0
  PROVE  SumUpTo(f, n) = At(f, k, 0)
<1>0. \A i \in 1 .. n : At(f, i, 0) \in Int
  OBVIOUS
<1>1. PICK s \in [0 .. n -> Int] : SumsOf(s, f, n) /\ SumUpTo(f, n) = s[n]
  BY <1>0, SumUpToIs
<1>. DEFINE S == {i \in 0 .. n : s[i] # IF i < k THEN 0 ELSE At(f, k, 0)}
<1>2. S = {}
  <2>. SUFFICES ASSUME S # {} PROVE FALSE
    OBVIOUS
  <2>1. S \in SUBSET Nat
    OBVIOUS
  <2>2. PICK j \in S : \A m \in S : j <= m
    <3>. HIDE DEF S
    <3>. QED
      BY <2>1, LeastNatural
  <2>3. CASE j = 0
    BY <1>1, <2>3 DEF SumsOf
  <2>4. CASE j # 0
    <3>1. j - 1 \in 0 .. n /\ j \in 1 .. n /\ j - 1 \notin S
      <4>1. j \in 0 .. n
        OBVIOUS
      <4>2. j - 1 \in 0 .. n /\ j \in 1 .. n /\ ~(j <= j - 1)
        BY <2>4, <4>1
      <4>. HIDE DEF S
      <4>. QED
        BY <2>2, <4>2
    <3>2. s[j] = s[j - 1] + At(f, j, 0) /\ s[j - 1] = IF j - 1 < k THEN 0 ELSE At(f, k, 0)
      BY <1>1, <3>1 DEF SumsOf
    <3>. QED
      BY <3>1, <3>2
  <2>. QED
    BY <2>3, <2>4
<1>3. s[n] = At(f, k, 0)
  BY <1>2
<1>. QED
  BY <1>1, <1>3

\* A product is one of its numbers times the product of the others.
LEMMA ProductRemove ==
  ASSUME NEW n \in Nat, NEW f, NEW g, NEW k \in 1 .. n, \A i \in 1 .. n : At(f, i, 1) \in Int,
         At(g, k, 1) = 1, \A i \in 1 .. n : i # k => At(g, i, 1) = At(f, i, 1)
  PROVE  /\ ProductUpTo(f, n) \in Int /\ ProductUpTo(g, n) \in Int
         /\ ProductUpTo(f, n) = At(f, k, 1) * ProductUpTo(g, n)
<1>0. \A i \in 1 .. n : At(g, i, 1) \in Int
  BY SMT
<1>1. PICK p \in [0 .. n -> Int] : ProductsOf(p, f, n) /\ ProductUpTo(f, n) = p[n]
  BY ProductUpToIs
<1>2. PICK q \in [0 .. n -> Int] : ProductsOf(q, g, n) /\ ProductUpTo(g, n) = q[n]
  BY <1>0, ProductUpToIs
<1>. DEFINE S == {i \in 0 .. n : p[i] # IF i < k THEN q[i] ELSE At(f, k, 1) * q[i]}
<1>3. S = {}
  <2>. SUFFICES ASSUME S # {} PROVE FALSE
    OBVIOUS
  <2>1. S \in SUBSET Nat
    OBVIOUS
  <2>2. PICK j \in S : \A m \in S : j <= m
    <3>. HIDE DEF S
    <3>. QED
      BY <2>1, LeastNatural
  <2>3. CASE j = 0
    BY <1>1, <1>2, <2>3 DEF ProductsOf
  <2>4. CASE j # 0
    <3>1. j - 1 \in 0 .. n /\ j \in 1 .. n /\ j - 1 \notin S
      <4>1. j \in 0 .. n
        OBVIOUS
      <4>2. j - 1 \in 0 .. n /\ j \in 1 .. n /\ ~(j <= j - 1)
        BY <2>4, <4>1
      <4>. HIDE DEF S
      <4>. QED
        BY <2>2, <4>2
    <3>2. p[j] = p[j - 1] * At(f, j, 1) /\ q[j] = q[j - 1] * At(g, j, 1)
      BY <1>1, <1>2, <3>1 DEF ProductsOf
    <3>3. p[j - 1] = IF j - 1 < k THEN q[j - 1] ELSE At(f, k, 1) * q[j - 1]
      BY <3>1
    <3>4. q[j - 1] \in Int /\ At(f, j, 1) \in Int /\ At(f, k, 1) \in Int
      BY <3>1
    <3>5. p[j] # IF j < k THEN q[j] ELSE At(f, k, 1) * q[j]
      OBVIOUS
    <3>. HIDE DEF S
    <3>6. CASE j < k
      <4>1. j - 1 < k /\ j # k
        BY <3>6, <3>1
      <4>2. At(g, j, 1) = At(f, j, 1)
        BY <3>1, <4>1
      <4>. QED
        BY <3>2, <3>3, <3>5, <3>6, <4>1, <4>2
    <3>7. CASE j = k
      <4>1. j - 1 < k /\ ~(j < k)
        BY <3>1, <3>7
      <4>2. p[j] = q[j - 1] * At(f, k, 1) /\ q[j] = q[j - 1]
        BY <3>2, <3>3, <3>4, <3>7, <4>1
      <4>. QED
        BY <3>4, <3>5, <4>1, <4>2
    <3>8. CASE j > k
      <4>1. ~(j - 1 < k) /\ ~(j < k) /\ j # k
        BY <3>1, <3>8
      <4>2. At(g, j, 1) = At(f, j, 1)
        BY <3>1, <4>1
      <4>3. p[j] = (At(f, k, 1) * q[j - 1]) * At(f, j, 1) /\ q[j] = q[j - 1] * At(f, j, 1)
        BY <3>2, <3>3, <4>1, <4>2
      <4>4. \A a, b, c \in Int : (a * b) * c = a * (b * c)
        OBVIOUS
      <4>5. p[j] = At(f, k, 1) * q[j]
        BY <3>4, <4>3, <4>4
      <4>. QED
        BY <3>5, <4>1, <4>5
    <3>. QED
      BY <3>1, <3>6, <3>7, <3>8
  <2>. QED
    BY <2>3, <2>4
<1>4. p[n] = At(f, k, 1) * q[n]
  <2>1. n \in 0 .. n /\ ~(n < k)
    OBVIOUS
  <2>2. n \notin S
    BY <1>3, Zenon
  <2>3. p[n] = IF n < k THEN q[n] ELSE At(f, k, 1) * q[n]
    BY <2>1, <2>2, Zenon
  <2>. QED
    BY <2>1, <2>3, Zenon
<1>. QED
  BY <1>1, <1>2, <1>4

---------------------------------------------------------------------------------
(* Some elements of a sequence. *)

\* A bounded set of numbers has a greatest.
LEMMA GreatestNatural ==
  ASSUME NEW n \in Nat, NEW S \in SUBSET (0 .. n), S # {}
  PROVE  \E k \in S : \A l \in S : l <= k
<1>. DEFINE R == {n - k : k \in S}
<1>1. R \in SUBSET Nat /\ R # {}
  <2>1. \A k \in S : n - k \in Nat
    <3>1. ASSUME NEW k \in S PROVE n - k \in Nat
      <4>1. k \in 0 .. n
        OBVIOUS
      <4>. QED
        BY <4>1
    <3>. QED
      BY <3>1
  <2>2. PICK k : k \in S
    OBVIOUS
  <2>3. n - k \in R
    BY <2>2
  <2>4. R \subseteq Nat
    BY <2>1
  <2>. QED
    BY <2>3, <2>4
<1>2. PICK m \in R : \A l \in R : m <= l
  <2>. HIDE DEF R
  <2>. QED
    BY <1>1, LeastNatural
<1>3. PICK k \in S : m = n - k
  OBVIOUS
<1>4. ASSUME NEW l \in S PROVE l <= k
  <2>1. n - l \in R
    OBVIOUS
  <2>2. n - k <= n - l
    <3>. HIDE DEF R
    <3>. QED
      BY <1>2, <1>3, <2>1
  <2>. QED
    BY <2>2
<1>. QED
  BY <1>4

\* p has the places of the elements taken, which are all of those given, in order.
TakenAt(s, P, p) ==
  LET n == Len(Elements(s, P))
  IN  /\ p \in [1 .. n -> P]
      /\ \A k \in 1 .. n : Elements(s, P)[k] = s[p[k]]
      /\ \A i \in P : \E k \in 1 .. n : p[k] = i
      /\ \A k, l \in 1 .. n : k < l => p[k] < p[l]

LEMMA ElementsAre ==
  ASSUME NEW T, NEW s \in Seq(T), NEW P \in SUBSET (1 .. Len(s))
  PROVE  Elements(s, P) \in Seq(T) /\ \E p : TakenAt(s, P, p)
<1>. DEFINE n == Cardinality(P)
            p == Ascending(P)
<1>1. P \in SUBSET Int /\ IsFiniteSet(P) /\ n \in Nat
  <2>1. IsFiniteSet(1 .. Len(s))
    BY FS_Interval
  <2>2. IsFiniteSet(P)
    BY <2>1, FS_Subset
  <2>. QED
    BY <2>2, FS_CardinalityType
<1>2. /\ p \in Seq(P) /\ Len(p) = n
      /\ \A i \in P : \E k \in 1 .. n : p[k] = i
      /\ \A k, l \in 1 .. n : k < l => p[k] < p[l]
  BY <1>1, AscendingSorts
<1>3. Elements(s, P) = [k \in 1 .. n |-> s[p[k]]]
  BY DEF Elements
<1>. HIDE DEF n, p
<1>4. p \in [1 .. n -> P]
  BY <1>1, <1>2
<1>5. ASSUME NEW k \in 1 .. n PROVE s[p[k]] \in T
  <2>1. p[k] \in P
    BY <1>4
  <2>2. p[k] \in 1 .. Len(s)
    BY <2>1
  <2>. QED
    BY <2>2
<1>6. Elements(s, P) \in Seq(T) /\ Len(Elements(s, P)) = n /\ \A k \in 1 .. n : Elements(s, P)[k] = s[p[k]]
  BY <1>1, <1>3, <1>5
<1>7. TakenAt(s, P, p)
  BY <1>2, <1>4, <1>6, Zenon DEF TakenAt
<1>. QED
  BY <1>6, <1>7

\* The first of the elements taken is at the least of the places.
LEMMA FirstElement ==
  ASSUME NEW T, NEW s \in Seq(T), NEW P \in SUBSET (1 .. Len(s)), NEW i \in P, \A j \in P : i <= j
  PROVE  Elements(s, P) \in Seq(T) /\ Elements(s, P) # <<>> /\ Elements(s, P)[1] = s[i]
<1>0. Elements(s, P) \in Seq(T)
  BY ElementsAre
<1>. DEFINE n == Len(Elements(s, P))
<1>1. PICK p : /\ p \in [1 .. n -> P]
               /\ \A k \in 1 .. n : Elements(s, P)[k] = s[p[k]]
               /\ \A j \in P : \E k \in 1 .. n : p[k] = j
               /\ \A k, l \in 1 .. n : k < l => p[k] < p[l]
  BY ElementsAre, Zenon DEF TakenAt
<1>n. n \in Nat
  BY <1>0
<1>. HIDE DEF n
<1>2. PICK k \in 1 .. n : p[k] = i
  BY <1>1
<1>3. k = 1
  <2>. SUFFICES ASSUME k # 1 PROVE FALSE
    OBVIOUS
  <2>1. 1 \in 1 .. n /\ 1 < k
    BY <1>n
  <2>2. p[1] < i /\ p[1] \in P
    BY <1>1, <1>2, <2>1
  <2>3. i \in 1 .. Len(s) /\ p[1] \in 1 .. Len(s) /\ i <= p[1]
    BY <2>2
  <2>. QED
    BY <2>2, <2>3
<1>. QED
  BY <1>0, <1>1, <1>2, <1>3 DEF n

\* Each of these numbers is less than the one at its place in another sequence, these places being in order.
LessAt(l, s, p) ==
  /\ p \in [1 .. Len(l) -> 1 .. Len(s)]
  /\ \A i, j \in 1 .. Len(l) : i < j => p[i] < p[j]
  /\ \A i \in 1 .. Len(l) : l[i] + 1 <= s[p[i]]

\* Then they and their count are not more in all.
LEMMA TakenTotal ==
  ASSUME NEW s \in Seq(Nat), NEW l \in Seq(Nat), NEW p, LessAt(l, s, p)
  PROVE  Total(l) \in Nat /\ Total(s) \in Nat /\ Total(l) + Len(l) <= Total(s)
<1>1. PICK n \in Nat, m \in Nat : n = Len(s) /\ m = Len(l)
  OBVIOUS
<1>2. PICK f : f \in [0 .. n -> Nat] /\ Sums(f, s, n) /\ Total(s) = f[n]
  <2>1. PICK f \in [0 .. Len(s) -> Nat] : Sums(f, s, Len(s))
    BY SumsExist
  <2>2. Total(s) = f[Len(s)]
    BY <2>1, TotalIs
  <2>. QED
    BY <1>1, <2>1, <2>2
<1>3. PICK g : g \in [0 .. m -> Nat] /\ Sums(g, l, m) /\ Total(l) = g[m]
  <2>1. PICK g \in [0 .. Len(l) -> Nat] : Sums(g, l, Len(l))
    BY SumsExist
  <2>2. Total(l) = g[Len(l)]
    BY <2>1, TotalIs
  <2>. QED
    BY <1>1, <2>1, <2>2
<1>a. ASSUME NEW k \in 1 .. n PROVE f[k] = f[k - 1] + s[k] /\ f[k] \in Nat /\ f[k - 1] \in Nat /\ s[k] \in Nat
  <2>1. f[k] = f[k - 1] + s[k]
    BY <1>2, Zenon DEF Sums
  <2>2. k \in 0 .. n /\ k - 1 \in 0 .. n
    OBVIOUS
  <2>3. f[k] \in Nat /\ f[k - 1] \in Nat
    BY <1>2, <2>2, Zenon
  <2>4. s[k] \in Nat
    BY <1>1
  <2>. QED
    BY <2>1, <2>3, <2>4, Zenon
<1>b. ASSUME NEW k \in 1 .. m PROVE g[k] = g[k - 1] + l[k] /\ g[k] \in Nat /\ g[k - 1] \in Nat /\ l[k] \in Nat
  <2>1. g[k] = g[k - 1] + l[k]
    BY <1>3, Zenon DEF Sums
  <2>2. k \in 0 .. m /\ k - 1 \in 0 .. m
    OBVIOUS
  <2>3. g[k] \in Nat /\ g[k - 1] \in Nat
    BY <1>3, <2>2, Zenon
  <2>4. l[k] \in Nat
    BY <1>1
  <2>. QED
    BY <2>1, <2>3, <2>4, Zenon
<1>c. f[0] = 0 /\ g[0] = 0 /\ g[m] \in Nat /\ f[n] \in Nat
  BY <1>2, <1>3 DEF Sums
<1>4. \A i, j \in 0 .. n : i <= j => f[i] <= f[j]
  <2>1. \A k \in 0 .. n : f[k] \in Int
    BY <1>2
  <2>2. ASSUME NEW k \in 1 .. n PROVE f[k - 1] <= f[k]
    <3>1. f[k] = f[k - 1] + s[k] /\ f[k - 1] \in Nat /\ s[k] \in Nat
      BY <1>a
    <3>. QED
      BY <3>1
  <2>. QED
    BY <2>1, <2>2, NeverFalls
<1>. DEFINE q(k) == IF k = 0 THEN 0 ELSE p[k]
            S == {k \in 0 .. m : ~(g[k] + k <= f[q(k)])}
<1>5. ASSUME NEW k \in 1 .. m PROVE p[k] \in 1 .. n /\ l[k] + 1 <= s[p[k]]
  BY <1>1 DEF LessAt
<1>6. ASSUME NEW k \in 1 .. m PROVE q(k) \in 1 .. n /\ q(k - 1) \in 0 .. n /\ q(k - 1) <= q(k) - 1
  <2>1. q(k) = p[k] /\ p[k] \in 1 .. n
    BY <1>5
  <2>2. CASE k = 1
    <3>1. q(k - 1) = 0
      BY <2>2
    <3>. HIDE DEF q
    <3>. QED
      BY <2>1, <3>1
  <2>3. CASE k # 1
    <3>1. k - 1 \in 1 .. m /\ k - 1 < k /\ k - 1 # 0
      BY <2>3
    <3>2. q(k - 1) = p[k - 1] /\ p[k - 1] \in 1 .. n
      BY <1>5, <3>1
    <3>3. p[k - 1] < p[k]
      BY <1>1, <3>1 DEF LessAt
    <3>. HIDE DEF q
    <3>. QED
      BY <2>1, <3>2, <3>3
  <2>. QED
    BY <2>2, <2>3
<1>7. ASSUME NEW k \in 1 .. m, g[k - 1] + (k - 1) <= f[q(k - 1)] PROVE g[k] + k <= f[q(k)]
  <2>1. g[k] = g[k - 1] + l[k] /\ g[k - 1] \in Nat /\ l[k] \in Nat
    BY <1>b
  <2>2. q(k) \in 1 .. n /\ q(k - 1) \in 0 .. n /\ q(k - 1) <= q(k) - 1
    BY <1>6
  <2>3. l[k] + 1 <= s[q(k)]
    BY <1>5
  <2>. HIDE DEF q
  <2>4. PICK x \in 1 .. n, y \in 0 .. n : x = q(k) /\ y = q(k - 1) /\ y <= x - 1
    BY <2>2
  <2>5. f[x] = f[x - 1] + s[x] /\ s[x] \in Nat /\ f[x - 1] \in Nat
    BY <1>a
  <2>6. f[y] <= f[x - 1] /\ f[y] \in Nat
    <3>1. x - 1 \in 0 .. n
      OBVIOUS
    <3>. QED
      BY <1>2, <1>4, <2>4, <3>1
  <2>7. g[k - 1] + (k - 1) <= f[y] /\ l[k] + 1 <= s[x]
    BY <1>7, <2>3, <2>4
  <2>8. g[k] + k <= f[x]
    <3>1. PICK a \in Nat, b \in Nat, c \in Nat, d \in Nat, u \in Nat :
            a = g[k - 1] /\ b = l[k] /\ c = f[y] /\ d = s[x] /\ u = f[x - 1]
      BY <2>1, <2>5, <2>6, Zenon
    <3>2. g[k] = a + b /\ f[x] = u + d /\ c <= u /\ a + (k - 1) <= c /\ b + 1 <= d
      BY <2>1, <2>5, <2>6, <2>7, <3>1, Zenon
    <3>3. c <= u /\ a + (k - 1) <= c /\ b + 1 <= d => (a + b) + k <= u + d
      OBVIOUS
    <3>. QED
      BY <3>2, <3>3, Zenon
  <2>. QED
    BY <2>4, <2>8
<1>8. S = {}
  <2>. SUFFICES ASSUME S # {} PROVE FALSE
    OBVIOUS
  <2>1. S \in SUBSET Nat
    OBVIOUS
  <2>2. PICK k \in S : \A j \in S : k <= j
    <3>. HIDE DEF S
    <3>. QED
      BY <2>1, LeastNatural
  <2>3. k \in 0 .. m /\ ~(g[k] + k <= f[q(k)])
    OBVIOUS
  <2>4. CASE k = 0
    <3>1. q(0) = 0
      OBVIOUS
    <3>. HIDE DEF q
    <3>. QED
      BY <1>c, <2>3, <2>4, <3>1
  <2>5. CASE k # 0
    <3>1. k \in 1 .. m /\ k - 1 \in 0 .. m /\ ~(k <= k - 1)
      BY <2>3, <2>5
    <3>2. k - 1 \notin S
      <4>. HIDE DEF S
      <4>. QED
        BY <2>2, <3>1
    <3>3. g[k - 1] + (k - 1) <= f[q(k - 1)]
      <4>. HIDE DEF q
      <4>. QED
        BY <3>1, <3>2
    <3>. HIDE DEF q, S
    <3>. QED
      BY <1>7, <2>3, <3>1, <3>3
  <2>. QED
    BY <2>4, <2>5
<1>9. g[m] + m <= f[q(m)]
  <2>. HIDE DEF q
  <2>1. m \in 0 .. m
    OBVIOUS
  <2>2. m \notin S
    <3>. HIDE DEF S
    <3>. QED
      BY <1>8
  <2>. QED
    BY <2>1, <2>2
<1>10. q(m) \in 0 .. n /\ q(m) <= n
  BY <1>5
<1>. HIDE DEF q
<1>11. f[q(m)] <= f[n] /\ f[q(m)] \in Nat
  BY <1>2, <1>4, <1>10
<1>. QED
  BY <1>1, <1>2, <1>3, <1>9, <1>11, <1>c

================================================================================
