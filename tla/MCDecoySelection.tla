---------------------------- MODULE MCDecoySelection ----------------------------
(* DecoySelection for TLC: chains of six blocks whose outputs are locked in every way, or have      *)
(* points of every class.                                                                           *)
EXTENDS DecoySelection, TLC

Unlocked == [type |-> "none", at |-> 0]
UntilBlock(n) == [type |-> "block", at |-> n]
UntilTime == [type |-> "time", at |-> 0]

Chain(first, outputs, lock, point) ==
  [first |-> first, outputs |-> outputs,
   lock |-> [o \in 0 .. 7 |-> IF o \in DOMAIN lock THEN lock[o] ELSE Unlocked],
   point |-> [o \in 0 .. 7 |-> IF o \in DOMAIN point THEN point[o] ELSE "ours"]]

\* Locks that end with block 4 and after it, and one of time; an output with torsion.
Locked == Chain(0, <<1, 2, 5, 5, 6, 7>>,
                [o \in {1, 2, 3} |-> CASE o = 1 -> UntilBlock(6) [] o = 2 -> UntilTime [] o = 3 -> UntilBlock(5)],
                [o \in {5} |-> "torsion"])

\* RingCT outputs from block 2 on, and points of every class.
Late == Chain(1, <<0, 0, 4, 6, 6, 7>>,
              [o \in {3} |-> UntilBlock(4)],
              [o \in {0, 1, 4} |-> CASE o = 0 -> "identity" [] o = 1 -> "torsion" [] o = 4 -> "invalid"])

MCChains == {Locked, Late}

CallerSymmetry == Permutations(Callers)
================================================================================
