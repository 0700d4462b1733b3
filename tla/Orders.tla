--------------------------------- MODULE Orders ---------------------------------
(***************************************************************************)
(* Sorting, as the modules use it: the elements of a finite set in a given *)
(* order, each at the place of those before it, so that what a sort        *)
(* returns can be reasoned about (OrderProofs). An order is the set of the *)
(* pairs in it. Sums and products, likewise.                               *)
(***************************************************************************)
EXTENDS Integers, Sequences, FiniteSets

\* How many elements of S are before this one.
Place(i, S, order) == Cardinality({j \in S : <<j, i>> \in order})

InOrder(S, order) == [k \in 1 .. Cardinality(S) |-> CHOOSE i \in S : Place(i, S, order) = k - 1]

\* A set of numbers, from the least to the greatest.
Ascending(S) == InOrder(S, {p \in S \X S : p[1] < p[2]})

\* A sequence of numbers sorted, those which are equal in the order they are in (sort, a stable one).
StableOrder(s) ==
  {p \in (1 .. Len(s)) \X (1 .. Len(s)) : s[p[1]] < s[p[2]] \/ (s[p[1]] = s[p[2]] /\ p[1] < p[2])}
Sorted(s) ==
  LET positions == InOrder(1 .. Len(s), StableOrder(s))
  IN [k \in 1 .. Len(s) |-> s[positions[k]]]

\* The elements of a sequence at some of its places, in its order.
Elements(s, places) == [k \in 1 .. Cardinality(places) |-> s[Ascending(places)[k]]]

\* The sum of a sequence of numbers.
Total(s) ==
  LET sum[i \in 0 .. Len(s)] == IF i = 0 THEN 0 ELSE sum[i - 1] + s[i]
  IN sum[Len(s)]

\* The sum, and the product, of numbers which are each for some of 1 .. n.
At(f, i, none) == IF i \in DOMAIN f THEN f[i] ELSE none
SumUpTo(f, n) ==
  LET sum[i \in 0 .. n] == IF i = 0 THEN 0 ELSE sum[i - 1] + At(f, i, 0)
  IN sum[n]
ProductUpTo(f, n) ==
  LET product[i \in 0 .. n] == IF i = 0 THEN 1 ELSE product[i - 1] * At(f, i, 1)
  IN product[n]
================================================================================
