----------------------------- MODULE ScannableProofs ----------------------------
(***************************************************************************)
(* Proofs about ScannableFetch: what an accepted block holds, that no      *)
(* outputs are hidden and no block is skipped, that an honest daemon is    *)
(* not blamed, and whose the indexes are.                                  *)
(*                                                                         *)
(* Inv is about any daemon, what is checked of its blocks and where those  *)
(* of an honest one are. Told, proved with it, is about what an honest     *)
(* daemon has told: the chains its blocks and indexes are of.              *)
(***************************************************************************)
EXTENDS ScannableFetch, OrderProofs

---------------------------------------------------------------------------------
(* Transactions, their outputs, and the indexes of those. *)

LEMMA TxsAreTxs == \A id \in DOMAIN Tx : Tx[id] \in TxSet /\ Tx[id].id = id
  BY TransactionsAssumption DEF TxSet

\* A number for each transaction: its outputs, or its RingCT outputs.
Mapped(F, txs) == [i \in 1 .. Len(txs) |-> F[txs[i]]]
Outputs == [tx \in TxSet |-> tx.outputs]
RingCtOutputs == [tx \in TxSet |-> IF tx.version # 1 THEN tx.outputs ELSE 0]

LEMMA OutputsAre == Outputs \in [TxSet -> Nat] /\ RingCtOutputs \in [TxSet -> Nat]
  BY DEF Outputs, RingCtOutputs, TxSet

LEMMA MappedAre ==
  ASSUME NEW F \in [TxSet -> Nat], NEW s \in Seq(TxSet)
  PROVE  /\ Mapped(F, s) \in Seq(Nat) /\ Len(Mapped(F, s)) = Len(s)
         /\ \A i \in 1 .. Len(s) : Mapped(F, s)[i] = F[s[i]]
<1>0. PICK n \in Nat : n = Len(s)
  OBVIOUS
<1>1. \A i \in 1 .. n : s[i] \in TxSet
  BY <1>0
<1>. QED
  BY <1>0, <1>1 DEF Mapped

LEMMA MappedConcat ==
  ASSUME NEW F \in [TxSet -> Nat], NEW s \in Seq(TxSet), NEW t \in Seq(TxSet)
  PROVE  Cat(Mapped(F, s), Mapped(F, t)) = Mapped(F, Cat(s, t))
<1>a. /\ Cat(s, t) \in Seq(TxSet) /\ Len(Cat(s, t)) = Len(s) + Len(t)
      /\ \A i \in 1 .. Len(s) : Cat(s, t)[i] = s[i]
      /\ \A i \in 1 .. Len(t) : Cat(s, t)[Len(s) + i] = t[i]
  <2>1. ASSUME NEW i \in 1 .. Len(t) PROVE Cat(s, t)[Len(s) + i] = t[i]
    BY CatSecond, Zenon
  <2>2. \A i \in 1 .. Len(s) : Cat(s, t)[i] = s[i]
    BY CatIs, Zenon
  <2>3. Cat(s, t) \in Seq(TxSet) /\ Len(Cat(s, t)) = Len(s) + Len(t)
    BY CatIs, Zenon
  <2>. QED
    BY <2>1, <2>2, <2>3, Zenon
<1>b. ASSUME NEW p \in Seq(Nat), NEW q \in Seq(Nat)
      PROVE  /\ Cat(p, q) \in Seq(Nat) /\ Len(Cat(p, q)) = Len(p) + Len(q)
             /\ \A i \in 1 .. Len(p) : Cat(p, q)[i] = p[i]
             /\ \A i \in 1 .. Len(q) : Cat(p, q)[Len(p) + i] = q[i]
  <2>1. ASSUME NEW i \in 1 .. Len(q) PROVE Cat(p, q)[Len(p) + i] = q[i]
    BY CatSecond, Zenon
  <2>2. \A i \in 1 .. Len(p) : Cat(p, q)[i] = p[i]
    BY CatIs, Zenon
  <2>3. Cat(p, q) \in Seq(Nat) /\ Len(Cat(p, q)) = Len(p) + Len(q)
    BY CatIs, Zenon
  <2>. QED
    BY <2>1, <2>2, <2>3, Zenon
<1>. DEFINE u == Cat(s, t)
            v == Cat(Mapped(F, s), Mapped(F, t))
<1>0. PICK m \in Nat, n \in Nat : m = Len(s) /\ n = Len(t)
  OBVIOUS
<1>1. Mapped(F, s) \in Seq(Nat) /\ Len(Mapped(F, s)) = m /\ \A i \in 1 .. m : Mapped(F, s)[i] = F[s[i]]
  BY <1>0, MappedAre, Zenon
<1>2. Mapped(F, t) \in Seq(Nat) /\ Len(Mapped(F, t)) = n /\ \A i \in 1 .. n : Mapped(F, t)[i] = F[t[i]]
  BY <1>0, MappedAre, Zenon
<1>3. /\ u \in Seq(TxSet) /\ Len(u) = m + n
      /\ \A i \in 1 .. m : u[i] = s[i]
      /\ \A i \in 1 .. n : u[m + i] = t[i]
  BY <1>0, <1>a, Zenon
<1>4. /\ v \in Seq(Nat) /\ Len(v) = m + n
      /\ \A i \in 1 .. m : v[i] = Mapped(F, s)[i]
      /\ \A i \in 1 .. n : v[m + i] = Mapped(F, t)[i]
  <2>1. /\ v \in Seq(Nat) /\ Len(v) = Len(Mapped(F, s)) + Len(Mapped(F, t))
        /\ \A i \in 1 .. Len(Mapped(F, s)) : v[i] = Mapped(F, s)[i]
        /\ \A i \in 1 .. Len(Mapped(F, t)) : v[Len(Mapped(F, s)) + i] = Mapped(F, t)[i]
    BY <1>1, <1>2, <1>b
  <2>. QED
    BY <1>1, <1>2, <2>1, Zenon
<1>. HIDE DEF u, v
<1>5. /\ Mapped(F, u) \in Seq(Nat) /\ Len(Mapped(F, u)) = m + n
      /\ \A i \in 1 .. m + n : Mapped(F, u)[i] = F[u[i]]
  <2>1. /\ Mapped(F, u) \in Seq(Nat) /\ Len(Mapped(F, u)) = Len(u)
        /\ \A i \in 1 .. Len(u) : Mapped(F, u)[i] = F[u[i]]
    <3>1. u \in Seq(TxSet)
      BY <1>3
    <3>. QED
      BY <3>1, MappedAre, Zenon
  <2>2. Len(u) = m + n
    BY <1>3
  <2>. QED
    BY <2>1, <2>2, Zenon
<1>6. ASSUME NEW i \in 1 .. m + n PROVE i \in 1 .. m \/ \E j \in 1 .. n : i = m + j
  <2>1. ~(i <= m) => i - m \in 1 .. n /\ i = m + (i - m)
    OBVIOUS
  <2>. QED
    BY <2>1
<1>7. \A i \in 1 .. m : i \in 1 .. m + n
  OBVIOUS
<1>8. \A i \in 1 .. n : m + i \in 1 .. m + n
  OBVIOUS
<1>9. ASSUME NEW i \in 1 .. m + n PROVE v[i] = Mapped(F, u)[i]
  <2>0. Mapped(F, u)[i] = F[u[i]]
    BY <1>5, Zenon
  <2>1. CASE i \in 1 .. m
    <3>1. v[i] = F[s[i]]
      BY <1>1, <1>4, <2>1, Zenon
    <3>2. u[i] = s[i]
      BY <1>3, <2>1, Zenon
    <3>. QED
      BY <2>0, <3>1, <3>2, Zenon
  <2>2. ASSUME NEW j \in 1 .. n, i = m + j PROVE v[i] = Mapped(F, u)[i]
    <3>1. v[m + j] = F[t[j]]
      BY <1>2, <1>4, Zenon
    <3>2. u[m + j] = t[j]
      BY <1>3, Zenon
    <3>. QED
      BY <2>0, <2>2, <3>1, <3>2, Zenon
  <2>. QED
    BY <1>6, <2>1, <2>2, Zenon
<1>. QED
  BY <1>4, <1>5, <1>9, SeqEqual, Zenon DEF u, v

LEMMA CountsAre ==
  ASSUME NEW s \in Seq(TxSet)
  PROVE  OutputsOf(s) = Total(Mapped(Outputs, s)) /\ RingCtOutputsOf(s) = Total(Mapped(RingCtOutputs, s))
<1>0. PICK n \in Nat : n = Len(s)
  OBVIOUS
<1>1. \A i \in 1 .. n : s[i] \in TxSet
  BY <1>0
<1>2. \A i \in 1 .. n : /\ Outputs[s[i]] = s[i].outputs
                         /\ RingCtOutputs[s[i]] = IF s[i].version # 1 THEN s[i].outputs ELSE 0
  BY <1>1, Zenon DEF Outputs, RingCtOutputs
<1>3. /\ Mapped(Outputs, s) = [i \in 1 .. n |-> s[i].outputs]
      /\ Mapped(RingCtOutputs, s) = [i \in 1 .. n |-> IF s[i].version # 1 THEN s[i].outputs ELSE 0]
  BY <1>0, <1>2, Zenon DEF Mapped
<1>. QED
  BY <1>0, <1>3, Zenon DEF OutputsOf, RingCtOutputsOf

LEMMA MappedTotal ==
  ASSUME NEW F \in [TxSet -> Nat], NEW s \in Seq(TxSet), NEW t \in Seq(TxSet)
  PROVE  /\ Total(Mapped(F, s)) \in Nat /\ Total(Mapped(F, t)) \in Nat
         /\ Total(Mapped(F, Cat(s, t))) = Total(Mapped(F, s)) + Total(Mapped(F, t))
<1>1. Mapped(F, s) \in Seq(Nat) /\ Mapped(F, t) \in Seq(Nat)
  BY MappedAre, Zenon
<1>2. Cat(Mapped(F, s), Mapped(F, t)) = Mapped(F, Cat(s, t))
  BY MappedConcat, Zenon
<1>3. /\ Total(Mapped(F, s)) \in Nat /\ Total(Mapped(F, t)) \in Nat
      /\ Total(Cat(Mapped(F, s), Mapped(F, t))) = Total(Mapped(F, s)) + Total(Mapped(F, t))
  BY <1>1, TotalConcat, Zenon DEF Cat
<1>. QED
  BY <1>2, <1>3, Zenon

LEMMA OutputsConcat ==
  ASSUME NEW s \in Seq(TxSet), NEW t \in Seq(TxSet)
  PROVE  /\ OutputsOf(s) \in Nat /\ OutputsOf(t) \in Nat
         /\ OutputsOf(Cat(s, t)) = OutputsOf(s) + OutputsOf(t)
         /\ RingCtOutputsOf(s) \in Nat /\ RingCtOutputsOf(t) \in Nat
         /\ RingCtOutputsOf(Cat(s, t)) = RingCtOutputsOf(s) + RingCtOutputsOf(t)
<1>1. PICK u \in Seq(TxSet) : u = Cat(s, t)
  BY CatIs, Zenon
<1>2. \A x \in Seq(TxSet) : /\ OutputsOf(x) = Total(Mapped(Outputs, x))
                             /\ RingCtOutputsOf(x) = Total(Mapped(RingCtOutputs, x))
  BY CountsAre, Zenon
<1>3. /\ Total(Mapped(Outputs, s)) \in Nat /\ Total(Mapped(Outputs, t)) \in Nat
      /\ Total(Mapped(Outputs, Cat(s, t))) = Total(Mapped(Outputs, s)) + Total(Mapped(Outputs, t))
  BY OutputsAre, MappedTotal, Zenon
<1>4. /\ Total(Mapped(RingCtOutputs, s)) \in Nat /\ Total(Mapped(RingCtOutputs, t)) \in Nat
      /\ Total(Mapped(RingCtOutputs, Cat(s, t)))
           = Total(Mapped(RingCtOutputs, s)) + Total(Mapped(RingCtOutputs, t))
  BY OutputsAre, MappedTotal, Zenon
<1>. QED
  BY <1>1, <1>2, <1>3, <1>4, Zenon

\* One of the transactions, and those before it, have no more outputs than all of them.
LEMMA OutputsBefore ==
  ASSUME NEW s \in Seq(TxSet), NEW i \in 1 .. Len(s)
  PROVE  /\ SubSeq(s, 1, i - 1) \in Seq(TxSet) /\ OutputsOf(SubSeq(s, 1, i - 1)) \in Nat
         /\ OutputsOf(SubSeq(s, 1, i - 1)) + s[i].outputs <= OutputsOf(s)
<1>0. PICK n \in Nat : n = Len(s)
  OBVIOUS
<1>1. /\ 1 \in 1 .. n /\ i \in 1 .. n /\ 1 \in 1 .. n + 1 /\ i \in 1 - 1 .. n /\ n \in i .. n
  BY <1>0
<1>2. SubSeq(s, 1, i) = Cat(SubSeq(s, 1, i - 1), <<s[i]>>)
  BY <1>0, <1>1, SubSeqRecursiveSecond, Zenon DEF Cat
<1>3. s = Cat(SubSeq(s, 1, i), SubSeq(s, i + 1, n))
  BY <1>0, <1>1, ConcatAdjacentSubSeq, SubSeqFull, Zenon DEF Cat
<1>4. s[i] \in TxSet /\ \A j \in 1 .. n : s[j] \in TxSet
  BY <1>0
<1>5. SubSeq(s, 1, i) \in Seq(TxSet) /\ SubSeq(s, 1, i - 1) \in Seq(TxSet) /\ SubSeq(s, i + 1, n) \in Seq(TxSet)
  BY <1>0
<1>6. <<s[i]>> \in Seq(TxSet) /\ s[i].outputs \in Nat
  <2>1. PICK x \in TxSet : x = s[i]
    BY <1>4
  <2>2. <<x>> \in Seq(TxSet) /\ x.outputs \in Nat
    BY DEF TxSet
  <2>. QED
    BY <2>1, <2>2, Zenon
<1>7. OutputsOf(<<s[i]>>) = s[i].outputs
  <2>1. PICK x \in TxSet : x = s[i]
    BY <1>4
  <2>2. [j \in 1 .. Len(<<x>>) |-> <<x>>[j].outputs] = <<x.outputs>> /\ x.outputs \in Nat
    BY DEF TxSet
  <2>3. OutputsOf(<<x>>) = Total(<<x.outputs>>)
    BY <2>2, Zenon DEF OutputsOf
  <2>. QED
    BY <2>1, <2>2, <2>3, TotalOne, Zenon
<1>8. /\ OutputsOf(SubSeq(s, 1, i)) = OutputsOf(SubSeq(s, 1, i - 1)) + s[i].outputs
      /\ OutputsOf(SubSeq(s, 1, i - 1)) \in Nat
  BY <1>2, <1>5, <1>6, <1>7, OutputsConcat, Zenon
<1>9. /\ OutputsOf(s) = OutputsOf(SubSeq(s, 1, i)) + OutputsOf(SubSeq(s, i + 1, n))
      /\ OutputsOf(SubSeq(s, i + 1, n)) \in Nat
  BY <1>3, <1>5, OutputsConcat, Zenon
<1>10. PICK x \in Nat, y \in Nat, z \in Nat :
         x = OutputsOf(SubSeq(s, 1, i - 1)) /\ y = OutputsOf(SubSeq(s, i + 1, n)) /\ z = s[i].outputs
  BY <1>6, <1>8, <1>9, Zenon
<1>11. OutputsOf(s) = (x + z) + y
  BY <1>8, <1>9, <1>10, Zenon
<1>. QED
  BY <1>5, <1>10, <1>11

LEMMA ListedAreTxs ==
  ASSUME NEW b \in Blocks, NEW txs \in Seq(TxSet)
  PROVE  /\ Listed(b) \in Seq(TxSet) /\ Len(Listed(b)) = Len(b.transactions)
         /\ AllTxs(b, txs) \in Seq(TxSet) /\ Len(AllTxs(b, txs)) = Len(txs) + 1
         /\ AllTxs(b, txs)[1] = Tx[b.miner]
         /\ \A i \in 1 .. Len(txs) : AllTxs(b, txs)[i + 1] = txs[i]
<1>1. b.transactions \in Seq(DOMAIN Tx) /\ b.miner \in DOMAIN Tx
  BY BlocksAssumption
<1>2. PICK n \in Nat : n = Len(b.transactions)
  BY <1>1
<1>3. \A i \in 1 .. n : b.transactions[i] \in DOMAIN Tx
  BY <1>1, <1>2
<1>4. \A i \in 1 .. n : Tx[b.transactions[i]] \in TxSet
  BY <1>3, TxsAreTxs
<1>5. Listed(b) \in Seq(TxSet) /\ Len(Listed(b)) = n
  BY <1>2, <1>4 DEF Listed
<1>6. PICK m \in TxSet : m = Tx[b.miner]
  BY <1>1, TxsAreTxs
<1>7. AllTxs(b, txs) = <<m>> \o txs
  BY <1>6 DEF AllTxs
<1>8. PICK k \in Nat : k = Len(txs)
  OBVIOUS
<1>9. /\ <<m>> \o txs \in Seq(TxSet) /\ Len(<<m>> \o txs) = k + 1
      /\ (<<m>> \o txs)[1] = m
      /\ \A i \in 1 .. k : (<<m>> \o txs)[i + 1] = txs[i]
  BY <1>8
<1>. QED
  BY <1>2, <1>5, <1>6, <1>7, <1>8, <1>9

LEMMA FirstRingCtIs ==
  ASSUME NEW s \in Seq(TxSet)
  PROVE  /\ FirstRingCt(s) = 0 <=> \A i \in 1 .. Len(s) : s[i].version = 1 \/ s[i].outputs = 0
         /\ FirstRingCt(s) # 0 => /\ FirstRingCt(s) \in 1 .. Len(s)
                                  /\ s[FirstRingCt(s)].outputs \in Nat \ {0}
                                  /\ s[FirstRingCt(s)].version # 1
                                  /\ \A j \in 1 .. FirstRingCt(s) - 1 : s[j].version = 1 \/ s[j].outputs = 0
<1>0. PICK n \in Nat : n = Len(s)
  OBVIOUS
<1>1. \A i \in 1 .. n : s[i].outputs \in Nat
  <2>1. \A i \in 1 .. n : s[i] \in TxSet
    BY <1>0
  <2>. QED
    BY <2>1 DEF TxSet
<1>2. \A i \in 1 .. n : IsRingCt(s[i]) <=> ~(s[i].version = 1 \/ s[i].outputs = 0)
  BY <1>1 DEF IsRingCt
<1>3. CASE \E i \in 1 .. n : IsRingCt(s[i])
  <2>. DEFINE S == {i \in 1 .. n : IsRingCt(s[i])}
  <2>1. S \in SUBSET Nat /\ S # {}
    BY <1>3
  <2>2. PICK k \in S : \A m \in S : k <= m
    <3>. HIDE DEF S
    <3>. QED
      BY <2>1, LeastNatural
  <2>3. \A j \in 1 .. k - 1 : ~IsRingCt(s[j])
    BY <2>2
  <2>4. \E i \in 1 .. n : IsRingCt(s[i]) /\ \A j \in 1 .. i - 1 : ~IsRingCt(s[j])
    BY <2>3
  <2>5. /\ FirstRingCt(s) \in 1 .. n /\ IsRingCt(s[FirstRingCt(s)])
        /\ \A j \in 1 .. FirstRingCt(s) - 1 : ~IsRingCt(s[j])
    BY <1>0, <1>3, <2>4 DEF FirstRingCt
  <2>6. \A j \in 1 .. FirstRingCt(s) - 1 : s[j].version = 1 \/ s[j].outputs = 0
    <3>1. \A j \in 1 .. FirstRingCt(s) - 1 : j \in 1 .. n
      BY <2>5
    <3>. QED
      BY <1>2, <2>5, <3>1, Zenon
  <2>. QED
    BY <1>0, <1>1, <1>2, <1>3, <2>5, <2>6
<1>4. CASE ~\E i \in 1 .. n : IsRingCt(s[i])
  BY <1>0, <1>2, <1>4 DEF FirstRingCt
<1>. QED
  BY <1>3, <1>4

---------------------------------------------------------------------------------
(* The indexes of a response, and of the chain. *)

Entries == [block : Blocks, txs : Seq(TxSet), indexes : Seq(Nat)]

\* The transactions of each entry, and the outputs of those of the first.
TxsOf(entries) == [k \in 1 .. Len(entries) |-> AllTxs(entries[k].block, entries[k].txs)]
OutputsUpTo(entries, k) == OutputsOf(FlattenSeq(SubSeq(TxsOf(entries), 1, k)))

LEMMA TxsOfAre ==
  ASSUME NEW entries \in Seq(Entries)
  PROVE  /\ TxsOf(entries) \in Seq(Seq(TxSet)) /\ Len(TxsOf(entries)) = Len(entries)
         /\ FlatTxs(entries) = FlattenSeq(TxsOf(entries))
         /\ \A k \in 1 .. Len(entries) : /\ TxsOf(entries)[k] = AllTxs(entries[k].block, entries[k].txs)
                                        /\ TxsOf(entries)[k] \in Seq(TxSet)
<1>0. PICK n \in Nat : n = Len(entries)
  OBVIOUS
<1>1. \A k \in 1 .. n : entries[k] \in Entries
  BY <1>0
<1>2. \A k \in 1 .. n : entries[k].block \in Blocks /\ entries[k].txs \in Seq(TxSet)
  BY <1>1 DEF Entries
<1>3. \A k \in 1 .. n : AllTxs(entries[k].block, entries[k].txs) \in Seq(TxSet)
  BY <1>2, ListedAreTxs, Zenon
<1>4. TxsOf(entries) \in Seq(Seq(TxSet)) /\ Len(TxsOf(entries)) = n
  BY <1>0, <1>3 DEF TxsOf
<1>5. \A k \in 1 .. n : TxsOf(entries)[k] = AllTxs(entries[k].block, entries[k].txs)
  BY <1>0 DEF TxsOf
<1>. QED
  BY <1>0, <1>3, <1>4, <1>5, Zenon DEF FlatTxs, TxsOf

\* The transactions of the first of the entries.
LEMMA FlatBefore ==
  ASSUME NEW entries \in Seq(Entries), NEW k \in 0 .. Len(entries)
  PROVE  FlatTxs(SubSeq(entries, 1, k)) = FlattenSeq(SubSeq(TxsOf(entries), 1, k))
<1>0. PICK n \in Nat : n = Len(entries)
  OBVIOUS
<1>1. \A j \in 1 .. n : entries[j] \in Entries
  BY <1>0
<1>2. /\ Len(SubSeq(entries, 1, k)) = k
      /\ \A j \in 1 .. k : SubSeq(entries, 1, k)[j] = entries[j]
  BY <1>0
<1>3. TxsOf(entries) \in Seq(Seq(TxSet)) /\ Len(TxsOf(entries)) = n
  BY <1>0, TxsOfAre, Zenon
<1>4. \A j \in 1 .. n : TxsOf(entries)[j] = AllTxs(entries[j].block, entries[j].txs)
  BY <1>0 DEF TxsOf
<1>5. SubSeq(TxsOf(entries), 1, k) = [j \in 1 .. k |-> TxsOf(entries)[j]]
  <2>1. PICK a \in Seq(Seq(TxSet)) : a = TxsOf(entries) /\ Len(a) = n
    BY <1>3
  <2>2. SubSeq(a, 1, k) = [j \in 1 .. k |-> a[j]]
    BY <1>0, <2>1
  <2>. QED
    BY <2>1, <2>2
<1>6. [j \in 1 .. k |-> TxsOf(entries)[j]] = [j \in 1 .. k |-> AllTxs(entries[j].block, entries[j].txs)]
  <2>1. \A j \in 1 .. k : j \in 1 .. n
    BY <1>0
  <2>. QED
    BY <1>4, <2>1, Zenon
<1>7. [j \in 1 .. k |-> AllTxs(SubSeq(entries, 1, k)[j].block, SubSeq(entries, 1, k)[j].txs)]
        = [j \in 1 .. k |-> AllTxs(entries[j].block, entries[j].txs)]
  BY <1>2, Zenon
<1>. QED
  BY <1>2, <1>5, <1>6, <1>7, Zenon DEF FlatTxs

LEMMA OutputsUpToGrow ==
  ASSUME NEW entries \in Seq(Entries), NEW k \in 1 .. Len(entries)
  PROVE  /\ FlattenSeq(SubSeq(TxsOf(entries), 1, k - 1)) \in Seq(TxSet)
         /\ OutputsUpTo(entries, k - 1) \in Nat /\ OutputsUpTo(entries, k) \in Nat
         /\ OutputsUpTo(entries, k) = OutputsUpTo(entries, k - 1) + OutputsOf(TxsOf(entries)[k])
<1>0. PICK n \in Nat : n = Len(entries)
  OBVIOUS
<1>1. PICK a \in Seq(Seq(TxSet)) : a = TxsOf(entries)
  BY TxsOfAre, Zenon
<1>2. Len(a) = n
  BY <1>0, <1>1, TxsOfAre, Zenon
<1>3. a[k] \in Seq(TxSet)
  BY <1>0, <1>2
<1>4. PICK b \in Seq(Seq(TxSet)) : b = SubSeq(a, 1, k - 1)
  <2>1. k - 1 \in 0 .. Len(a)
    BY <1>0, <1>2
  <2>. QED
    BY <2>1, Prefix, Zenon
<1>5. SubSeq(a, 1, k) = Append(b, a[k])
  <2>1. k \in 1 .. Len(a) /\ 1 \in 1 .. Len(a) /\ k \in 1 .. Len(a)
    BY <1>0, <1>2
  <2>2. SubSeq(a, 1, k) = SubSeq(a, 1, k - 1) \o <<a[k]>>
    BY <2>1, SubSeqRecursiveSecond, Zenon
  <2>3. Append(b, a[k]) = b \o <<a[k]>>
    BY <1>3, AppendIsConcat, Zenon
  <2>. QED
    BY <1>4, <2>2, <2>3, Zenon
<1>6. FlattenSeq(b) \in Seq(TxSet) /\ FlattenSeq(Append(b, a[k])) = Cat(FlattenSeq(b), a[k])
  BY <1>3, FlattenAppend, Zenon DEF Cat
<1>7. /\ OutputsOf(FlattenSeq(b)) \in Nat /\ OutputsOf(a[k]) \in Nat
      /\ OutputsOf(Cat(FlattenSeq(b), a[k])) = OutputsOf(FlattenSeq(b)) + OutputsOf(a[k])
  BY <1>3, <1>6, OutputsConcat, Zenon
<1>8. OutputsUpTo(entries, k - 1) = OutputsOf(FlattenSeq(b))
  BY <1>1, <1>4, Zenon DEF OutputsUpTo
<1>9. OutputsUpTo(entries, k) = OutputsOf(Cat(FlattenSeq(b), a[k]))
  BY <1>1, <1>5, <1>6, Zenon DEF OutputsUpTo
<1>10. PICK x \in Nat, y \in Nat : x = OutputsOf(FlattenSeq(b)) /\ y = OutputsOf(a[k])
  BY <1>7, Zenon
<1>11. OutputsUpTo(entries, k) = x + y /\ OutputsUpTo(entries, k - 1) = x
  BY <1>7, <1>8, <1>9, <1>10, Zenon
<1>12. x + y \in Nat
  OBVIOUS
<1>. QED
  BY <1>1, <1>4, <1>6, <1>10, <1>11, <1>12, Zenon

LEMMA OutputsUpToAll ==
  ASSUME NEW entries \in Seq(Entries), NEW k \in 1 .. Len(entries)
  PROVE  OutputsUpTo(entries, k) <= OutputsOf(FlatTxs(entries))
<1>0. PICK n \in Nat : n = Len(entries)
  OBVIOUS
<1>. DEFINE s == [j \in 1 .. n |-> OutputsUpTo(entries, j)]
<1>1. \A j \in 1 .. n : OutputsUpTo(entries, j) \in Nat
  BY <1>0, OutputsUpToGrow, Zenon
<1>2. s \in Seq(Int) /\ Len(s) = n /\ \A j \in 1 .. n : s[j] = OutputsUpTo(entries, j)
  BY <1>1
<1>3. ASSUME NEW j \in 1 .. n - 1 PROVE s[j] <= s[j + 1]
  <2>1. j + 1 \in 1 .. n /\ j \in 1 .. n /\ (j + 1) - 1 = j
    OBVIOUS
  <2>2. OutputsUpTo(entries, j + 1) = OutputsUpTo(entries, (j + 1) - 1) + OutputsOf(TxsOf(entries)[j + 1])
    BY <1>0, <2>1, OutputsUpToGrow, Zenon
  <2>3. TxsOf(entries)[j + 1] \in Seq(TxSet)
    BY <1>0, <2>1, TxsOfAre, Zenon
  <2>4. PICK y \in Nat : y = OutputsOf(TxsOf(entries)[j + 1])
    BY <2>3, OutputsConcat, Zenon
  <2>5. PICK x \in Nat : x = OutputsUpTo(entries, j)
    BY <1>1, <2>1
  <2>6. OutputsUpTo(entries, j + 1) = x + y
    BY <2>1, <2>2, <2>4, <2>5
  <2>7. s[j] = x /\ s[j + 1] = x + y
    BY <1>2, <2>1, <2>5, <2>6, Zenon
  <2>. QED
    BY <2>7
<1>. HIDE DEF s
<1>4. \A i, j \in 1 .. n : i <= j => s[i] <= s[j]
  BY <1>2, <1>3, StepsIncrease, Zenon
<1>5. k \in 1 .. n /\ n \in 1 .. n /\ k <= n
  BY <1>0
<1>6. s[k] <= s[n]
  BY <1>4, <1>5, Zenon
<1>7. OutputsUpTo(entries, k) <= OutputsUpTo(entries, n)
  BY <1>2, <1>5, <1>6, Zenon
<1>8. SubSeq(TxsOf(entries), 1, n) = TxsOf(entries)
  BY <1>0, TxsOfAre, SubSeqFull, Zenon
<1>9. OutputsUpTo(entries, n) = OutputsOf(FlatTxs(entries))
  BY <1>8, TxsOfAre, Zenon DEF OutputsUpTo
<1>. QED
  BY <1>7, <1>9, Zenon

LEMMA FlattenType ==
  ASSUME NEW T, NEW ss \in Seq(Seq(T))
  PROVE  FlattenSeq(ss) \in Seq(T)
<1>1. <<>> \in Seq(T)
  OBVIOUS
<1>. QED
  BY <1>1, FlattenAppend, Zenon

LEMMA FlatIndexesAre ==
  ASSUME NEW entries \in Seq(Entries)
  PROVE  FlatIndexes(entries) \in Seq(Nat)
<1>0. PICK n \in Nat : n = Len(entries)
  OBVIOUS
<1>1. \A k \in 1 .. n : entries[k] \in Entries
  BY <1>0
<1>2. \A k \in 1 .. n : entries[k].indexes \in Seq(Nat)
  BY <1>1 DEF Entries
<1>3. [k \in 1 .. n |-> entries[k].indexes] \in Seq(Seq(Nat))
  BY <1>2
<1>. QED
  BY <1>0, <1>3, FlattenType, Zenon DEF FlatIndexes

Scannable == [block : Blocks, txs : Seq(TxSet), index : Nat \cup {None}]

\* A block has an index if it has RingCT outputs, of the transactions it came with.
IsIndexed(entry) == entry.index = None <=> FirstRingCt(AllTxs(entry.block, entry.txs)) = 0

\* A response whose indexes are enough has one for each of its blocks with RingCT outputs.
LEMMA ExtractedIs ==
  ASSUME NEW entries \in Seq(Entries), EnoughIndexes(entries)
  PROVE  /\ Extracted(entries) \in Seq(Scannable) /\ Len(Extracted(entries)) = Len(entries)
         /\ \A k \in 1 .. Len(entries) : /\ Extracted(entries)[k].block = entries[k].block
                                        /\ Extracted(entries)[k].txs = entries[k].txs
                                        /\ IsIndexed(Extracted(entries)[k])
<1>0. PICK n \in Nat : n = Len(entries)
  OBVIOUS
<1>1. \A k \in 1 .. n : entries[k] \in Entries
  BY <1>0
<1>. DEFINE txs(k) == AllTxs(entries[k].block, entries[k].txs)
            before(k) == FlatTxs(SubSeq(entries, 1, k - 1)) \o SubSeq(txs(k), 1, FirstRingCt(txs(k)) - 1)
            index(k) == IF FirstRingCt(txs(k)) = 0 THEN None
                        ELSE FlatIndexes(entries)[OutputsOf(before(k)) + 1]
            entry(k) == [block |-> entries[k].block, txs |-> entries[k].txs, index |-> index(k)]
<1>2. Extracted(entries) = [k \in 1 .. n |-> entry(k)]
  BY <1>0 DEF Extracted
<1>3. ASSUME NEW k \in 1 .. n, FirstRingCt(txs(k)) # 0 PROVE index(k) \in Nat
  <2>1. PICK t \in Seq(TxSet) : t = txs(k) /\ t = TxsOf(entries)[k]
    BY <1>0, TxsOfAre, Zenon
  <2>2. PICK i \in 1 .. Len(t) : i = FirstRingCt(t) /\ t[i].outputs \in Nat \ {0}
    BY <1>3, <2>1, FirstRingCtIs, Zenon
  <2>3. PICK f \in Seq(TxSet) : f = FlattenSeq(SubSeq(TxsOf(entries), 1, k - 1))
    BY <1>0, OutputsUpToGrow, Zenon
  <2>4. k - 1 \in 0 .. Len(entries)
    BY <1>0
  <2>5. FlatTxs(SubSeq(entries, 1, k - 1)) = f
    BY <2>3, <2>4, FlatBefore, Zenon
  <2>6. PICK h \in Seq(TxSet) : h = SubSeq(t, 1, i - 1)
    BY OutputsBefore, Zenon
  <2>7. before(k) = Cat(f, h)
    BY <2>1, <2>2, <2>5, <2>6, Zenon DEF Cat
  <2>8. OutputsOf(Cat(f, h)) = OutputsOf(f) + OutputsOf(h)
    BY OutputsConcat, Zenon
  <2>9. OutputsOf(h) \in Nat /\ OutputsOf(h) + t[i].outputs <= OutputsOf(t)
    BY <2>6, OutputsBefore, Zenon
  <2>10. /\ OutputsOf(f) \in Nat /\ OutputsUpTo(entries, k) \in Nat
         /\ OutputsUpTo(entries, k) = OutputsOf(f) + OutputsOf(t)
    BY <1>0, <2>1, <2>3, OutputsUpToGrow, Zenon DEF OutputsUpTo
  <2>11. OutputsUpTo(entries, k) <= OutputsOf(FlatTxs(entries))
    BY <1>0, OutputsUpToAll, Zenon
  <2>12. PICK g \in Seq(Nat) : g = FlatIndexes(entries)
    BY FlatIndexesAre, Zenon
  <2>13. Len(g) = OutputsOf(FlatTxs(entries))
    BY <2>12, Zenon DEF EnoughIndexes
  <2>14. PICK x \in Nat, y \in Nat, z \in Nat \ {0} :
           x = OutputsOf(f) /\ y = OutputsOf(h) /\ z = t[i].outputs
    BY <2>2, <2>9, <2>10, Zenon
  <2>15. OutputsOf(t) \in Nat
    BY OutputsConcat, Zenon
  <2>16. PICK w \in Nat, l \in Nat : w = OutputsOf(t) /\ l = Len(g)
    BY <2>15
  <2>17. y + z <= w /\ x + w <= l
    BY <2>9, <2>10, <2>11, <2>13, <2>14, <2>16, Zenon
  <2>18. (x + y) + 1 \in 1 .. l
    BY <2>17
  <2>19. g[(x + y) + 1] \in Nat
    BY <2>16, <2>18
  <2>20. index(k) = g[(x + y) + 1]
    BY <1>3, <2>7, <2>8, <2>12, <2>14, Zenon
  <2>. QED
    BY <2>19, <2>20, Zenon
<1>4. ASSUME NEW k \in 1 .. n
      PROVE  /\ entry(k) \in Scannable
             /\ entry(k).block = entries[k].block /\ entry(k).txs = entries[k].txs
             /\ entry(k).index = index(k)
             /\ index(k) = None <=> FirstRingCt(txs(k)) = 0
  <2>1. index(k) \in Nat \cup {None} /\ (index(k) = None <=> FirstRingCt(txs(k)) = 0)
    BY <1>3, EntriesAssumption, Zenon
  <2>2. PICK x \in Nat \cup {None} : x = index(k)
    BY <2>1
  <2>3. PICK b \in Blocks, t \in Seq(TxSet) : b = entries[k].block /\ t = entries[k].txs
    BY <1>1 DEF Entries
  <2>4. /\ [block |-> b, txs |-> t, index |-> x] \in Scannable
        /\ [block |-> b, txs |-> t, index |-> x].block = b
        /\ [block |-> b, txs |-> t, index |-> x].txs = t
        /\ [block |-> b, txs |-> t, index |-> x].index = x
    BY DEF Scannable
  <2>. QED
    BY <2>1, <2>2, <2>3, <2>4, Zenon
<1>. HIDE DEF entry, index, before, txs
<1>5. Extracted(entries) \in Seq(Scannable) /\ Len(Extracted(entries)) = n
  BY <1>2, <1>4
<1>6. \A k \in 1 .. n : Extracted(entries)[k] = entry(k)
  BY <1>2, Zenon
<1>7. ASSUME NEW k \in 1 .. n
      PROVE  /\ Extracted(entries)[k].block = entries[k].block
             /\ Extracted(entries)[k].txs = entries[k].txs
             /\ IsIndexed(Extracted(entries)[k])
  BY <1>4, <1>6, Zenon DEF IsIndexed, txs
<1>. QED
  BY <1>0, <1>5, <1>7, Zenon

\* The indexes of the chain's outputs are numbers.
LEMMA TxsAtAre ==
  ASSUME NEW c \in Chains, NEW k \in 1 .. Len(c)
  PROVE  c[k] \in Blocks /\ TxsAt(c, k) \in Seq(TxSet)
<1>1. c \in Seq(Blocks)
  BY ChainsAssumption
<1>2. c[k] \in Blocks
  BY <1>1
<1>3. Listed(c[k]) \in Seq(TxSet)
  <2>1. <<>> \in Seq(TxSet)
    OBVIOUS
  <2>. QED
    BY <1>2, <2>1, ListedAreTxs, Zenon
<1>. QED
  BY <1>2, <1>3, ListedAreTxs, Zenon DEF TxsAt

LEMMA RingCtOutputsType == ASSUME NEW s \in Seq(TxSet) PROVE RingCtOutputsOf(s) \in Nat
  BY OutputsConcat, Zenon

LEMMA RingCtBeforeType ==
  ASSUME NEW c \in Chains, NEW k \in 1 .. Len(c), NEW i \in 1 .. Len(TxsAt(c, k))
  PROVE  RingCtBefore(c, k, i) \in Nat
<1>1. c \in Seq(Blocks)
  BY ChainsAssumption
<1>2. PICK n \in Nat : n = Len(c)
  BY <1>1
<1>3. \A j \in 1 .. k - 1 : j \in 1 .. Len(c)
  BY <1>2
<1>4. \A j \in 1 .. k - 1 : TxsAt(c, j) \in Seq(TxSet)
  BY <1>3, TxsAtAre, Zenon
<1>5. [j \in 1 .. k - 1 |-> TxsAt(c, j)] \in Seq(Seq(TxSet))
  BY <1>2, <1>4
<1>6. PICK s \in Seq(TxSet) : s = FlattenSeq([j \in 1 .. k - 1 |-> TxsAt(c, j)])
  BY <1>5, FlattenType, Zenon
<1>7. TxsAt(c, k) \in Seq(TxSet)
  BY TxsAtAre, Zenon
<1>8. PICK t \in Seq(TxSet) : t = SubSeq(TxsAt(c, k), 1, i - 1)
  BY <1>7, OutputsBefore, Zenon
<1>9. s \o t \in Seq(TxSet)
  BY CatIs, Zenon DEF Cat
<1>10. RingCtBefore(c, k, i) = RingCtOutputsOf(s \o t)
  BY <1>6, <1>8, Zenon DEF RingCtBefore
<1>. QED
  BY <1>9, <1>10, RingCtOutputsType, Zenon

LEMMA ChainIndexesAre ==
  ASSUME NEW c \in Chains, NEW k \in 1 .. Len(c)
  PROVE  /\ ChainIndexes[c][k] \in Seq(Seq(Nat))
         /\ \A i \in 1 .. Len(TxsAt(c, k)) : ChainIndexes[c][k][i] \in Seq(Nat)
<1>. DEFINE f(i) == [o \in 1 .. TxsAt(c, k)[i].outputs |->
                       IF TxsAt(c, k)[i].version = 1 THEN 0 ELSE RingCtBefore(c, k, i) + o - 1]
<1>1. ChainIndexes[c][k] = [i \in 1 .. Len(TxsAt(c, k)) |-> f(i)]
  BY Zenon DEF ChainIndexes
<1>2. PICK t \in Seq(TxSet) : t = TxsAt(c, k)
  BY TxsAtAre, Zenon
<1>3. ASSUME NEW i \in 1 .. Len(t) PROVE f(i) \in Seq(Nat)
  <2>1. t[i] \in TxSet
    OBVIOUS
  <2>2. PICK m \in Nat : m = TxsAt(c, k)[i].outputs
    BY <1>2, <2>1 DEF TxSet
  <2>3. PICK r \in Nat : r = RingCtBefore(c, k, i)
    BY <1>2, RingCtBeforeType, Zenon
  <2>4. f(i) = [o \in 1 .. m |-> IF TxsAt(c, k)[i].version = 1 THEN 0 ELSE r + o - 1]
    BY <2>2, <2>3, Zenon
  <2>5. \A o \in 1 .. m : (IF TxsAt(c, k)[i].version = 1 THEN 0 ELSE r + o - 1) \in Nat
    OBVIOUS
  <2>6. \A h \in [1 .. m -> Nat] : h \in Seq(Nat)
    OBVIOUS
  <2>7. [o \in 1 .. m |-> IF TxsAt(c, k)[i].version = 1 THEN 0 ELSE r + o - 1] \in [1 .. m -> Nat]
    BY <2>5, Zenon
  <2>. QED
    BY <2>4, <2>6, <2>7, Zenon
<1>4. PICK n \in Nat : n = Len(TxsAt(c, k))
  BY <1>2
<1>5. \A i \in 1 .. n : f(i) \in Seq(Nat)
  BY <1>2, <1>3, <1>4, Zenon
<1>. HIDE DEF f
<1>6. [i \in 1 .. n |-> f(i)] \in Seq(Seq(Nat)) /\ \A i \in 1 .. n : [j \in 1 .. n |-> f(j)][i] = f(i)
  BY <1>5
<1>. QED
  BY <1>1, <1>4, <1>5, <1>6, Zenon

LEMMA IndexesOnChainAre ==
  ASSUME chain \in Chains, NEW id
  PROVE  IndexesOnChain(id) \in Seq(Nat)
<1>. DEFINE has(k, i) == TxsAt(chain, k)[i].id = id
            places == Places(id)
            k0 == CHOOSE k \in places : TRUE
            i0 == CHOOSE i \in 1 .. Len(TxsAt(chain, k0)) : has(k0, i)
<1>1. CASE places = {}
  <2>1. IndexesOnChain(id) = <<>>
    BY <1>1, Zenon DEF IndexesOnChain
  <2>2. <<>> \in Seq(Nat)
    OBVIOUS
  <2>. QED
    BY <2>1, <2>2, Zenon
<1>2. CASE places # {}
  <2>1. k0 \in places
    BY <1>2, Zenon
  <2>2. k0 \in 1 .. Len(chain) /\ \E i \in 1 .. Len(TxsAt(chain, k0)) : has(k0, i)
    <3>. HIDE DEF k0
    <3>. QED
      BY <2>1, Zenon DEF Places
  <2>3. i0 \in 1 .. Len(TxsAt(chain, k0))
    BY <2>2, Zenon
  <2>4. IndexesOnChain(id) = ChainIndexes[chain][k0][i0]
    BY <1>2, Zenon DEF IndexesOnChain
  <2>. HIDE DEF k0, i0
  <2>. QED
    BY <2>2, <2>3, <2>4, ChainIndexesAre, Zenon
<1>. QED
  BY <1>1, <1>2, Zenon

---------------------------------------------------------------------------------
(* The invariant. *)

TypeOK ==
  /\ request \in Requests /\ start \in Nat
  /\ res \in Seq(Scannable) /\ pending \in Seq(Blocks) /\ expanding \in Seq(TxSet)
  /\ full \in Seq(TxSet \cup {None})
  /\ pc \in {"genesis", "bin", "blocks", "expand", "validate", "check", "full", "ok", "err"}
  /\ checked \in Nat
  /\ honest \in BOOLEAN /\ chain \in Chains /\ served \in SUBSET Chains

\* How far the fetch is, by what it does next. The genesis block is fetched alone, before the others.
Progress ==
  /\ pc = "genesis" => request.kind = "range" /\ first = 0 /\ res = <<>> /\ pending = <<>> /\ start = 1
  /\ pc = "bin" => request.kind = "range" /\ pending = <<>> /\ start = first + Len(res) /\ start > 0
  /\ pc = "blocks" /\ request.kind = "range" =>
       start > 0 /\ start = first + Len(res) /\ start + Len(pending) <= last
  /\ pc = "blocks" /\ request.kind # "range" => res = <<>> /\ pending = <<>>
  /\ pc = "expand" =>
       /\ pending # <<>> /\ first + Len(res) + Len(pending) <= last + 1
       /\ request.kind = "range" /\ first = 0 /\ res = <<>> => start = 1 /\ Len(pending) = 1

\* The block at a place: one which is expanded, or is to be.
BlockAt(i) == IF i <= Len(res) THEN res[i].block ELSE pending[i - Len(res)]

\* The blocks of an honest daemon are in their places.
InPlace ==
  honest /\ request.kind # "hash" =>
    \A i \in 1 .. Len(res) + Len(pending) : BlockAt(i).number = first + i - 1 /\ BlockAt(i).number <= last

Indexed == \A i \in 1 .. Len(res) : IsIndexed(res[i])

\* What ProvidesScannableBlocks has checked: how the blocks follow each other, and the transactions of
\* those before the next which is to be validated.
Linked ==
  request.kind = "range" =>
    /\ Len(res) = ExpectedBlocks
    /\ \A i \in 1 .. Len(res) : res[i].block.number = first + i - 1
    /\ \A i \in 2 .. Len(res) : res[i].block.previous = res[i - 1].block.hash
Verified ==
  /\ checked <= Len(res)
  /\ \A i \in 1 .. checked : res[i].txs = Listed(res[i].block)
  /\ pc \notin {"check", "full", "ok", "err"} => checked = 0
  /\ pc \in {"check", "full", "ok"} => Linked
  /\ pc = "full" => checked < Len(res) /\ VerifyAsPossible(res[checked + 1])
  /\ pc = "ok" => checked = Len(res)

Inv == TypeOK /\ Progress /\ InPlace /\ Indexed /\ Verified

LEMMA RequestIs ==
  ASSUME TypeOK
  PROVE  /\ first \in Nat /\ last \in Nat /\ request.kind \in {"range", "number", "hash"}
         /\ request.kind # "range" => first = last
  BY RequestsAssumption DEF TypeOK, first, last

LEMMA InitInv == Init => Inv
<1>. SUFFICES ASSUME Init PROVE Inv
  OBVIOUS
<1>1. request \in Requests /\ request.first \in Nat
  BY RequestsAssumption DEF Init
<1>2. chain \in Chains
  BY ChainsAssumption DEF Init
<1>3. TypeOK
  BY <1>1, <1>2 DEF Init, TypeOK
<1>4. Len(res) = 0 /\ Len(pending) = 0 /\ checked = 0
  BY DEF Init
<1>5. Progress
  BY <1>1, <1>4 DEF Init, Progress, first, last
<1>6. InPlace /\ Indexed
  BY <1>4 DEF InPlace, Indexed
<1>7. Verified
  BY <1>4 DEF Verified, Init
<1>. QED
  BY <1>3, <1>5, <1>6, <1>7 DEF Inv

\* A fetch which fails keeps what it has.
LEMMA FailureKeepsInv ==
  ASSUME Inv, pc' = "err", UNCHANGED <<request, start, res, pending, checked, honest, chain, served>>,
         expanding' \in Seq(TxSet), full' \in Seq(TxSet \cup {None})
  PROVE  Inv'
<1>1. TypeOK'
  BY DEF Inv, TypeOK
<1>2. Progress'
  BY DEF Progress
<1>3. InPlace'
  BY Zenon DEF Inv, InPlace, BlockAt, first, last
<1>4. Indexed'
  BY Zenon DEF Inv, Indexed
<1>5. Verified'
  BY DEF Inv, Verified
<1>. QED
  BY <1>1, <1>2, <1>3, <1>4, <1>5 DEF Inv

\* A step which changes only what is next, the daemon's chain, or what is received of a block.
LEMMA QuietKeepsInv ==
  ASSUME Inv, UNCHANGED <<request, start, res, pending, checked, honest>>,
         chain' \in Chains, served' \in SUBSET Chains,
         expanding' \in Seq(TxSet), full' \in Seq(TxSet \cup {None}), pc' = pc
  PROVE  Inv'
<1>1. TypeOK'
  BY DEF Inv, TypeOK
<1>2. Progress'
  BY Zenon DEF Inv, Progress, first, last
<1>3. InPlace'
  BY Zenon DEF Inv, InPlace, BlockAt, first, last
<1>4. Indexed'
  BY Zenon DEF Inv, Indexed
<1>5. Verified'
  BY Zenon DEF Inv, Verified, Linked, ExpectedBlocks, first, last
<1>. QED
  BY <1>1, <1>2, <1>3, <1>4, <1>5 DEF Inv

LEMMA ChainChangesKeepsInv == Inv /\ ChainChanges => Inv'
<1>. SUFFICES ASSUME Inv, ChainChanges PROVE Inv'
  OBVIOUS
<1>1. chain' \in Chains /\ served' \in SUBSET Chains
  BY DEF Inv, TypeOK, ChainChanges
<1>. QED
  BY <1>1, QuietKeepsInv DEF ChainChanges, Inv, TypeOK

LEMMA RequestFailsKeepsInv == Inv /\ RequestFails => Inv'
  BY FailureKeepsInv DEF RequestFails, Fails, daemonVars, Inv, TypeOK

LEMMA ReplyKeepsInv ==
  ASSUME Inv, UNCHANGED <<request, start, res, pending, checked, honest, chain, served>>,
         expanding' \in Seq(TxSet), full' \in Seq(TxSet \cup {None}), pc' \in {pc, "err"}
  PROVE  Inv'
<1>1. chain' \in Chains /\ served' \in SUBSET Chains
  BY DEF Inv, TypeOK
<1>2. CASE pc' = pc
  BY <1>1, <1>2, QuietKeepsInv
<1>3. CASE pc' = "err"
  BY <1>3, FailureKeepsInv
<1>. QED
  BY <1>2, <1>3

---------------------------------------------------------------------------------
(* Transactions are received, and compared with what the block lists. *)

LEMMA NextHashesAre ==
  ASSUME NEW T, NEW hashes \in Seq(T), NEW n \in Nat
  PROVE  NextHashes(hashes, n) \in Seq(T)
<1>1. PICK m \in Nat : m = Len(hashes)
  OBVIOUS
<1>2. PICK e \in Int : e = IF n + TransactionsLimit <= m THEN n + TransactionsLimit ELSE m
  BY NumbersAssumption
<1>3. e <= m
  BY <1>2, NumbersAssumption
<1>4. \A i \in n + 1 .. e : i \in 1 .. m
  BY <1>3
<1>5. \A i \in n + 1 .. e : hashes[i] \in T
  BY <1>1, <1>4
<1>6. n + 1 \in Int
  OBVIOUS
<1>7. SubSeq(hashes, n + 1, e) \in Seq(T)
  BY <1>5, <1>6, SubSeqProperties, Zenon
<1>. QED
  BY <1>1, <1>2, <1>7 DEF NextHashes

LEMMA AnyTxsAre ==
  ASSUME NEW id \in DOMAIN Tx
  PROVE  AnyTxs(id, TRUE) \subseteq TxSet /\ AnyTxs(id, FALSE) \subseteq TxSet \cup {None}
<1>1. ASSUME NEW e \in AnyEntries, NEW i \in DOMAIN e.txs PROVE e.txs[i] \in TxSet
  <2>1. e.txs \in Seq(TxSet)
    BY EntriesAssumption
  <2>. QED
    BY <2>1
<1>2. UNION {{e.txs[i] : i \in DOMAIN e.txs} : e \in AnyEntries} \subseteq TxSet
  <2>. SUFFICES ASSUME NEW x \in UNION {{e.txs[i] : i \in DOMAIN e.txs} : e \in AnyEntries}
                PROVE  x \in TxSet
    OBVIOUS
  <2>1. PICK e \in AnyEntries : x \in {e.txs[i] : i \in DOMAIN e.txs}
    OBVIOUS
  <2>2. PICK i \in DOMAIN e.txs : x = e.txs[i]
    BY <2>1
  <2>. QED
    BY <1>1, <2>2
<1>3. Tx[id] \in TxSet
  BY TxsAreTxs
<1>. QED
  BY <1>2, <1>3 DEF AnyTxs

LEMMA RepliesAre ==
  ASSUME NEW ids \in Seq(DOMAIN Tx), NEW pruned \in BOOLEAN, NEW reply \in TransactionReplies(ids, pruned)
  PROVE  reply.txs \in Seq(TxSet \cup {None}) /\ (pruned => reply.txs \in Seq(TxSet))
<1>0. PICK n \in Nat : n = Len(ids)
  OBVIOUS
<1>1. \A i \in 1 .. n : ids[i] \in DOMAIN Tx
  BY <1>0
<1>2. \A i \in 1 .. n : Tx[ids[i]] \in TxSet
  BY <1>1, TxsAreTxs
<1>3. ASSUME NEW S, NEW h \in [1 .. n -> S] PROVE h \in Seq(S)
  OBVIOUS
<1>4. CASE honest
  <2>1. PICK m : reply = [missed |-> m, txs |-> [i \in 1 .. n |-> Tx[ids[i]]]]
    BY <1>0, <1>4, Zenon DEF TransactionReplies
  <2>2. reply.txs = [i \in 1 .. n |-> Tx[ids[i]]]
    BY <2>1, Zenon
  <2>3. reply.txs \in [1 .. n -> TxSet] /\ reply.txs \in [1 .. n -> TxSet \cup {None}]
    BY <1>2, <2>2, Zenon
  <2>. QED
    BY <1>3, <2>3, Zenon
<1>5. CASE ~honest
  <2>1. reply.txs = <<>> \/ reply.txs \in {f \in [1 .. n -> UNION {AnyTxs(ids[i], pruned) : i \in 1 .. n}] :
                                             \A i \in 1 .. n : f[i] \in AnyTxs(ids[i], pruned)}
    BY <1>0, <1>5 DEF TransactionReplies
  <2>2. CASE reply.txs = <<>>
    BY <2>2
  <2>3. CASE reply.txs # <<>>
    <3>1. PICK f \in [1 .. n -> UNION {AnyTxs(ids[i], pruned) : i \in 1 .. n}] :
            f = reply.txs /\ \A i \in 1 .. n : f[i] \in AnyTxs(ids[i], pruned)
      BY <2>1, <2>3, Zenon
    <3>2. ASSUME NEW i \in 1 .. n PROVE f[i] \in TxSet \cup {None} /\ (pruned => f[i] \in TxSet)
      BY <1>1, <3>1, AnyTxsAre, Zenon
    <3>3. f \in [1 .. n -> TxSet \cup {None}] /\ (pruned => f \in [1 .. n -> TxSet])
      BY <3>2, Zenon
    <3>. QED
      BY <1>3, <3>1, <3>3, Zenon
  <2>. QED
    BY <2>2, <2>3
<1>. QED
  BY <1>4, <1>5

LEMMA ExpandTransactionsKeepsInv == Inv /\ ExpandTransactions => Inv'
<1>. SUFFICES ASSUME Inv, ExpandTransactions PROVE Inv'
  OBVIOUS
<1>1. pending # <<>> /\ pending \in Seq(Blocks) /\ expanding \in Seq(TxSet) /\ full \in Seq(TxSet \cup {None})
  BY DEF ExpandTransactions, Inv, Progress, TypeOK
<1>2. pending[1] \in Blocks
  BY <1>1
<1>3. pending[1].transactions \in Seq(DOMAIN Tx)
  BY <1>2, BlocksAssumption
<1>4. Len(expanding) \in Nat
  BY <1>1
<1>. DEFINE ids == NextHashes(pending[1].transactions, Len(expanding))
<1>5. ids \in Seq(DOMAIN Tx)
  BY <1>3, <1>4, NextHashesAre, Zenon
<1>6. PICK reply \in TransactionReplies(ids, TRUE) :
        \/ Complete(reply, ids) /\ expanding' = expanding \o reply.txs /\ UNCHANGED pc
        \/ ~Complete(reply, ids) /\ Fails /\ UNCHANGED expanding
  BY Zenon DEF ExpandTransactions
<1>. HIDE DEF ids
<1>7. reply.txs \in Seq(TxSet)
  BY <1>5, RepliesAre, Zenon
<1>8. expanding \o reply.txs \in Seq(TxSet)
  BY <1>1, <1>7, CatIs, Zenon DEF Cat
<1>9. expanding' \in Seq(TxSet) /\ full' \in Seq(TxSet \cup {None}) /\ pc' \in {pc, "err"}
  BY <1>1, <1>6, <1>8, Zenon DEF ExpandTransactions, Fails
<1>. QED
  BY <1>9, ReplyKeepsInv DEF ExpandTransactions, daemonVars

\* v1_indexes: the places of the transactions of version 1, all of them.
LEMMA V1Are ==
  ASSUME NEW entry \in Scannable, VerifyAsPossible(entry)
  PROVE  /\ \A k \in 1 .. Len(V1Indexes(entry)) : V1Indexes(entry)[k] \in 1 .. Len(entry.txs)
         /\ \A i \in 1 .. Len(entry.txs) : entry.txs[i].version = 1 =>
              \E k \in 1 .. Len(V1Indexes(entry)) : V1Indexes(entry)[k] = i
         /\ Len(V1Indexes(entry)) \in Nat
         /\ V1Hashes(entry) \in Seq(DOMAIN Tx) /\ Len(V1Hashes(entry)) = Len(V1Indexes(entry))
         /\ \A k \in 1 .. Len(V1Indexes(entry)) :
              V1Hashes(entry)[k] = entry.block.transactions[V1Indexes(entry)[k]]
<1>1. entry.block \in Blocks /\ entry.txs \in Seq(TxSet)
  BY DEF Scannable
<1>2. entry.block.transactions \in Seq(DOMAIN Tx) /\ Len(entry.block.transactions) = Len(entry.txs)
  BY <1>1, BlocksAssumption DEF VerifyAsPossible
<1>3. PICK n \in Nat : n = Len(entry.txs)
  BY <1>1
<1>. DEFINE S == {i \in 1 .. n : entry.txs[i].version = 1}
<1>4. S \in SUBSET (1 .. n) /\ S \in SUBSET Int
  OBVIOUS
<1>5. IsFiniteSet(1 .. n)
  BY FS_Interval
<1>6. IsFiniteSet(S)
  BY <1>4, <1>5, FS_Subset, Zenon
<1>7. V1Indexes(entry) = Ascending(S)
  BY <1>3, Zenon DEF V1Indexes
<1>8. \A i \in S : i \in 1 .. n
  OBVIOUS
<1>9. \A i \in 1 .. n : entry.txs[i].version = 1 => i \in S
  OBVIOUS
<1>. HIDE DEF S
<1>10. PICK s \in Seq(S) : s = V1Indexes(entry) /\ Len(s) = Cardinality(S)
  BY <1>4, <1>6, <1>7, AscendingSorts, Zenon
<1>11. PICK m \in Nat : m = Len(s)
  OBVIOUS
<1>12. \A k \in 1 .. m : s[k] \in S
  BY <1>11
<1>13. \A i \in S : \E k \in 1 .. m : s[k] = i
  BY <1>4, <1>6, <1>7, <1>10, <1>11, AscendingSorts, Zenon
<1>14. \A k \in 1 .. m : entry.block.transactions[s[k]] \in DOMAIN Tx
  <2>1. \A i \in 1 .. n : entry.block.transactions[i] \in DOMAIN Tx
    BY <1>2, <1>3
  <2>. QED
    BY <1>8, <1>12, <2>1, Zenon
<1>15. V1Hashes(entry) = [k \in 1 .. m |-> entry.block.transactions[s[k]]]
  BY <1>10, <1>11, Zenon DEF V1Hashes
<1>16. /\ V1Hashes(entry) \in Seq(DOMAIN Tx) /\ Len(V1Hashes(entry)) = m
       /\ \A k \in 1 .. m : V1Hashes(entry)[k] = entry.block.transactions[s[k]]
  BY <1>14, <1>15
<1>17. \A k \in 1 .. m : s[k] \in 1 .. n
  BY <1>8, <1>12, Zenon
<1>18. \A i \in 1 .. n : entry.txs[i].version = 1 => \E k \in 1 .. m : s[k] = i
  BY <1>9, <1>13, Zenon
<1>. QED
  BY <1>3, <1>10, <1>11, <1>16, <1>17, <1>18, Zenon

\* verify_as_possible and the comparison of the whole transactions establish all of them.
LEMMA MatchesIsListed ==
  ASSUME NEW entry \in Scannable, VerifyAsPossible(entry), FullMatches(entry), Len(full) = Len(V1Hashes(entry))
  PROVE  entry.txs = Listed(entry.block)
<1>1. entry.block \in Blocks /\ entry.txs \in Seq(TxSet)
  BY DEF Scannable
<1>2. PICK n \in Nat : n = Len(entry.txs)
  BY <1>1
<1>3. n = Len(entry.block.transactions)
  BY <1>2 DEF VerifyAsPossible
<1>4. Listed(entry.block) \in Seq(TxSet) /\ Len(Listed(entry.block)) = n
  BY <1>1, <1>3, ListedAreTxs, Zenon
<1>5. \A i \in 1 .. n : Listed(entry.block)[i] = Tx[entry.block.transactions[i]]
  BY <1>3, Zenon DEF Listed
<1>6. ASSUME NEW i \in 1 .. n PROVE entry.txs[i] = Tx[entry.block.transactions[i]]
  <2>1. CASE entry.txs[i].version # 1
    BY <1>2, <2>1, Zenon DEF VerifyAsPossible
  <2>2. CASE entry.txs[i].version = 1
    <3>1. PICK k \in 1 .. Len(V1Indexes(entry)) : V1Indexes(entry)[k] = i
      BY <1>2, <2>2, V1Are, Zenon
    <3>2. k \in 1 .. Len(full)
      BY <3>1, V1Are, Zenon
    <3>3. full[k] = Tx[V1Hashes(entry)[k]] /\ full[k] = entry.txs[V1Indexes(entry)[k]]
      BY <3>2, Zenon DEF FullMatches
    <3>4. V1Hashes(entry)[k] = entry.block.transactions[V1Indexes(entry)[k]]
      BY V1Are, Zenon
    <3>. QED
      BY <3>1, <3>3, <3>4, Zenon
  <2>. QED
    BY <2>1, <2>2, Zenon
<1>7. \A i \in 1 .. n : entry.txs[i] = Listed(entry.block)[i]
  BY <1>5, <1>6, Zenon
<1>. QED
  BY <1>1, <1>2, <1>4, <1>7, SeqEqual, Zenon

LEMMA NoneIsListed ==
  ASSUME NEW entry \in Scannable, VerifyAsPossible(entry), V1Indexes(entry) = <<>>
  PROVE  entry.txs = Listed(entry.block)
<1>1. entry.block \in Blocks /\ entry.txs \in Seq(TxSet)
  BY DEF Scannable
<1>2. PICK n \in Nat : n = Len(entry.txs)
  BY <1>1
<1>3. n = Len(entry.block.transactions)
  BY <1>2 DEF VerifyAsPossible
<1>4. Listed(entry.block) \in Seq(TxSet) /\ Len(Listed(entry.block)) = n
  BY <1>1, <1>3, ListedAreTxs, Zenon
<1>5. \A i \in 1 .. n : Listed(entry.block)[i] = Tx[entry.block.transactions[i]]
  BY <1>3, Zenon DEF Listed
<1>6. \A k \in 1 .. Len(V1Indexes(entry)) : FALSE
  BY SMT
<1>7. ASSUME NEW i \in 1 .. n PROVE entry.txs[i] = Tx[entry.block.transactions[i]]
  <2>1. entry.txs[i].version # 1
    BY <1>2, <1>6, V1Are, Zenon
  <2>. QED
    BY <1>2, <2>1, Zenon DEF VerifyAsPossible
<1>8. \A i \in 1 .. n : entry.txs[i] = Listed(entry.block)[i]
  BY <1>5, <1>7, Zenon
<1>. QED
  BY <1>1, <1>2, <1>4, <1>8, SeqEqual, Zenon

LEMMA FullTransactionsKeepsInv == Inv /\ FullTransactions => Inv'
<1>. SUFFICES ASSUME Inv, FullTransactions PROVE Inv'
  OBVIOUS
<1>1. /\ checked < Len(res) /\ VerifyAsPossible(res[checked + 1]) /\ checked \in Nat
      /\ res \in Seq(Scannable) /\ full \in Seq(TxSet \cup {None}) /\ expanding \in Seq(TxSet)
  BY DEF FullTransactions, Inv, Verified, TypeOK
<1>2. res[checked + 1] \in Scannable
  BY <1>1
<1>3. V1Hashes(res[checked + 1]) \in Seq(DOMAIN Tx)
  BY <1>1, <1>2, V1Are, Zenon
<1>4. Len(full) \in Nat
  BY <1>1
<1>. DEFINE ids == NextHashes(V1Hashes(res[checked + 1]), Len(full))
<1>5. ids \in Seq(DOMAIN Tx)
  BY <1>3, <1>4, NextHashesAre, Zenon
<1>6. PICK reply \in TransactionReplies(ids, FALSE) :
        \/ Complete(reply, ids) /\ full' = full \o reply.txs /\ UNCHANGED pc
        \/ ~Complete(reply, ids) /\ Fails /\ UNCHANGED full
  BY Zenon DEF FullTransactions
<1>. HIDE DEF ids
<1>7. reply.txs \in Seq(TxSet \cup {None})
  BY <1>5, RepliesAre, Zenon
<1>8. full \o reply.txs \in Seq(TxSet \cup {None})
  BY <1>1, <1>7, CatIs, Zenon DEF Cat
<1>9. expanding' \in Seq(TxSet) /\ full' \in Seq(TxSet \cup {None}) /\ pc' \in {pc, "err"}
  BY <1>1, <1>6, <1>8, Zenon DEF FullTransactions, Fails
<1>. QED
  BY <1>9, ReplyKeepsInv DEF FullTransactions, daemonVars

\* One more block is found to hold the transactions it lists.
LEMMA CheckedKeepsInv ==
  ASSUME Inv, pc \in {"check", "full"}, checked < Len(res), res[checked + 1].txs = Listed(res[checked + 1].block),
         checked' = checked + 1, pc' = "check", full' \in Seq(TxSet \cup {None}),
         UNCHANGED <<request, start, res, pending, expanding, honest, chain, served>>
  PROVE  Inv'
<1>0. checked \in Nat /\ res \in Seq(Scannable)
  BY DEF Inv, TypeOK
<1>1. TypeOK'
  BY <1>0 DEF Inv, TypeOK
<1>2. Progress'
  BY DEF Progress
<1>3. InPlace'
  BY Zenon DEF Inv, InPlace, BlockAt, first, last
<1>4. Indexed'
  BY Zenon DEF Inv, Indexed
<1>5. Verified'
  <2>1. Linked'
    BY Zenon DEF Inv, Verified, Linked, ExpectedBlocks, first, last
  <2>2. PICK n \in Nat : n = Len(res)
    BY <1>0
  <2>3. checked' <= Len(res')
    BY <1>0, <2>2
  <2>4. ASSUME NEW i \in 1 .. checked' PROVE res'[i].txs = Listed(res'[i].block)
    <3>1. CASE i = checked + 1
      BY <3>1
    <3>2. CASE i # checked + 1
      <4>1. i \in 1 .. checked
        BY <1>0, <3>2
      <4>. QED
        BY <4>1, Zenon DEF Inv, Verified
    <3>. QED
      BY <3>1, <3>2
  <2>. QED
    BY <2>1, <2>3, <2>4 DEF Verified, Listed
<1>. QED
  BY <1>1, <1>2, <1>3, <1>4, <1>5 DEF Inv

LEMMA CompareFullKeepsInv == Inv /\ CompareFull => Inv'
<1>. SUFFICES ASSUME Inv, CompareFull PROVE Inv'
  OBVIOUS
<1>1. /\ checked < Len(res) /\ VerifyAsPossible(res[checked + 1]) /\ checked \in Nat
      /\ res \in Seq(Scannable) /\ expanding \in Seq(TxSet) /\ pc = "full"
  BY DEF CompareFull, Inv, Verified, TypeOK
<1>2. res[checked + 1] \in Scannable
  BY <1>1
<1>3. full' \in Seq(TxSet \cup {None}) /\ expanding' \in Seq(TxSet)
  BY <1>1 DEF CompareFull
<1>4. CASE FullMatches(res[checked + 1])
  <2>1. res[checked + 1].txs = Listed(res[checked + 1].block)
    BY <1>1, <1>2, <1>4, MatchesIsListed, Zenon DEF CompareFull
  <2>2. checked' = checked + 1 /\ pc' = "check"
    BY <1>4 DEF CompareFull
  <2>. QED
    BY <1>1, <1>3, <2>1, <2>2, CheckedKeepsInv DEF CompareFull, daemonVars
<1>5. CASE ~FullMatches(res[checked + 1])
  <2>1. pc' = "err" /\ UNCHANGED checked
    BY <1>5 DEF CompareFull, Fails
  <2>. QED
    BY <1>3, <2>1, FailureKeepsInv DEF CompareFull, daemonVars
<1>. QED
  BY <1>4, <1>5

LEMMA ValidateScannableBlockKeepsInv == Inv /\ ValidateScannableBlock => Inv'
<1>. SUFFICES ASSUME Inv, ValidateScannableBlock PROVE Inv'
  OBVIOUS
<1>0. /\ checked \in Nat /\ res \in Seq(Scannable) /\ expanding' \in Seq(TxSet) /\ full' \in Seq(TxSet \cup {None})
      /\ pc = "check" /\ checked <= Len(res)
  BY DEF Inv, TypeOK, Verified, ValidateScannableBlock
<1>. DEFINE entry == res[checked + 1]
<1>1. CASE checked = Len(res) /\ pc' = "ok" /\ UNCHANGED checked
  <2>1. TypeOK'
    BY <1>1 DEF Inv, TypeOK, ValidateScannableBlock, daemonVars
  <2>2. Progress'
    BY <1>1 DEF Progress
  <2>3. InPlace' /\ Indexed'
    BY Zenon DEF Inv, InPlace, BlockAt, Indexed, first, last, ValidateScannableBlock, daemonVars
  <2>4. Linked
    BY <1>0 DEF Inv, Verified
  <2>5. Linked'
    BY <2>4, Zenon DEF Linked, ExpectedBlocks, first, last, ValidateScannableBlock
  <2>6. UNCHANGED res
    BY DEF ValidateScannableBlock
  <2>7. Verified'
    BY <1>0, <1>1, <2>5, <2>6 DEF Inv, Verified
  <2>. QED
    BY <2>1, <2>2, <2>3, <2>7 DEF Inv
<1>2. CASE checked < Len(res) /\ ~VerifyAsPossible(entry) /\ Fails /\ UNCHANGED checked
  BY <1>0, <1>2, FailureKeepsInv DEF ValidateScannableBlock, daemonVars, Fails
<1>3. CASE checked < Len(res) /\ VerifyAsPossible(entry) /\ V1Indexes(entry) = <<>> /\ checked' = checked + 1 /\ UNCHANGED pc
  <2>1. entry \in Scannable
    BY <1>0, <1>3
  <2>2. entry.txs = Listed(entry.block)
    BY <1>3, <2>1, NoneIsListed, Zenon
  <2>. QED
    BY <1>0, <1>3, <2>2, CheckedKeepsInv DEF ValidateScannableBlock, daemonVars
<1>4. CASE checked < Len(res) /\ VerifyAsPossible(entry) /\ V1Indexes(entry) # <<>> /\ pc' = "full" /\ UNCHANGED checked
  <2>1. TypeOK'
    BY <1>4 DEF Inv, TypeOK, ValidateScannableBlock, daemonVars
  <2>2. Progress'
    BY <1>4 DEF Progress
  <2>3. InPlace' /\ Indexed'
    BY Zenon DEF Inv, InPlace, BlockAt, Indexed, first, last, ValidateScannableBlock, daemonVars
  <2>4. Linked
    BY <1>0 DEF Inv, Verified
  <2>5. Linked'
    BY <2>4, Zenon DEF Linked, ExpectedBlocks, first, last, ValidateScannableBlock
  <2>6. UNCHANGED res
    BY DEF ValidateScannableBlock
  <2>7. VerifyAsPossible(res[checked + 1])'
    BY <1>4, <2>6, Zenon
  <2>8. Verified'
    BY <1>0, <1>4, <2>5, <2>6, <2>7 DEF Inv, Verified
  <2>. QED
    BY <2>1, <2>2, <2>3, <2>8 DEF Inv
<1>. QED
  BY <1>1, <1>2, <1>3, <1>4, Zenon DEF ValidateScannableBlock

LEMMA ValidateKeepsInv == Inv /\ Validate => Inv'
<1>. SUFFICES ASSUME Inv, Validate PROVE Inv'
  OBVIOUS
<1>1. /\ checked = 0 /\ pc = "validate" /\ pc' \in {"check", "err"}
      /\ expanding' \in Seq(TxSet) /\ full' \in Seq(TxSet \cup {None})
  BY DEF Validate, Inv, Verified, TypeOK
<1>2. CASE pc' = "err"
  BY <1>1, <1>2, FailureKeepsInv DEF Validate, daemonVars
<1>3. CASE pc' = "check"
  <2>1. TypeOK'
    BY <1>3 DEF Inv, TypeOK, Validate, daemonVars
  <2>2. Progress'
    BY <1>3 DEF Progress
  <2>3. InPlace' /\ Indexed'
    BY Zenon DEF Inv, InPlace, BlockAt, Indexed, first, last, Validate, daemonVars
  <2>4. (request.kind = "range" => Len(res) = ExpectedBlocks) /\ SanityChecked
    BY <1>3 DEF Validate
  <2>5. Linked
    BY <2>4 DEF Linked, SanityChecked
  <2>6. Linked'
    BY <2>5, Zenon DEF Linked, ExpectedBlocks, first, last, Validate
  <2>7. UNCHANGED <<res, checked>>
    BY DEF Validate
  <2>8. Verified'
    BY <1>1, <1>3, <2>6, <2>7 DEF Inv, Verified
  <2>. QED
    BY <2>1, <2>2, <2>3, <2>8 DEF Inv
<1>. QED
  BY <1>1, <1>2, <1>3

---------------------------------------------------------------------------------
(* Blocks are fetched, and expanded. *)

LEMMA MethodNotApplicableKeepsInv == Inv /\ MethodNotApplicable => Inv'
<1>. SUFFICES ASSUME Inv, MethodNotApplicable PROVE Inv'
  OBVIOUS
<1>0. /\ pc = "bin" /\ pc' = "blocks" /\ start <= last /\ start' = NewStart
      /\ UNCHANGED <<request, res, pending, expanding, full, checked, honest, chain, served>>
  BY DEF MethodNotApplicable, daemonVars
<1>1. /\ request.kind = "range" /\ pending = <<>> /\ start = first + Len(res) /\ start \in Nat
      /\ first \in Nat /\ last \in Nat /\ res \in Seq(Scannable) /\ start > 0
  BY <1>0, RequestIs DEF Inv, Progress, TypeOK
<1>2. start' = start
  <2>1. PICK n \in Nat : n = Len(res)
    BY <1>1
  <2>. QED
    BY <1>0, <1>1, <2>1 DEF NewStart, RangeStart, LenBeforeFetch
<1>3. TypeOK'
  BY <1>0, <1>2 DEF Inv, TypeOK
<1>4. Progress'
  <2>1. Len(pending) = 0
    BY <1>1
  <2>2. start + Len(pending) <= last
    BY <1>0, <1>1, <2>1
  <2>3. /\ request'.kind = "range" /\ start' > 0 /\ start' = first' + Len(res') /\ start' + Len(pending') <= last'
    BY <1>0, <1>1, <1>2, <2>2 DEF first, last
  <2>. QED
    BY <1>0, <2>3 DEF Progress
<1>5. InPlace' /\ Indexed'
  BY <1>0, Zenon DEF Inv, InPlace, BlockAt, Indexed, first, last
<1>6. Verified'
  BY <1>0 DEF Inv, Verified
<1>. QED
  BY <1>3, <1>4, <1>5, <1>6 DEF Inv

\* A block of an honest daemon is one of its chain, or of one it was on.
LEMMA BlocksHeldAre ==
  ASSUME TypeOK, NEW block \in BlocksHeld, NextAlone \in Nat
  PROVE  block \in Blocks /\ (request.kind # "hash" => block.number = NextAlone)
<1>1. CASE request.kind = "hash"
  <2>1. PICK c \in served : block \in {b \in {c[i] : i \in 1 .. Len(c)} : b.hash = request.hash}
    BY <1>1 DEF BlocksHeld
  <2>2. PICK i \in 1 .. Len(c) : block = c[i]
    BY <2>1
  <2>3. c \in Chains
    BY DEF TypeOK
  <2>. QED
    BY <1>1, <2>2, <2>3, TxsAtAre, Zenon
<1>2. CASE request.kind # "hash"
  <2>1. NextAlone < Len(chain) /\ block = chain[NextAlone + 1]
    BY <1>2 DEF BlocksHeld
  <2>2. chain \in Chains /\ chain \in Seq(Blocks)
    BY ChainsAssumption DEF TypeOK
  <2>3. NextAlone + 1 \in 1 .. Len(chain)
    BY <2>1, <2>2
  <2>4. block \in Blocks
    BY <2>1, <2>2, <2>3, TxsAtAre, Zenon
  <2>5. block.number = (NextAlone + 1) - 1
    BY <2>1, <2>2, <2>3, ChainsAssumption, Zenon
  <2>6. (NextAlone + 1) - 1 = NextAlone
    OBVIOUS
  <2>. QED
    BY <2>4, <2>5, <2>6, Zenon
<1>. QED
  BY <1>1, <1>2

LEMMA FetchBlockKeepsInv == Inv /\ FetchBlock => Inv'
<1>. SUFFICES ASSUME Inv, FetchBlock PROVE Inv'
  OBVIOUS
<1>0. /\ pc \in {"genesis", "blocks"} /\ TypeOK
      /\ UNCHANGED <<request, start, res, expanding, full, checked, honest, chain, served>>
      /\ expanding' \in Seq(TxSet) /\ full' \in Seq(TxSet \cup {None})
  BY DEF FetchBlock, daemonVars, Inv, TypeOK
<1>1. CASE Fails /\ UNCHANGED pending
  BY <1>0, <1>1, FailureKeepsInv DEF Fails
<1>2. ASSUME NEW block \in IF honest THEN BlocksHeld ELSE {e.block : e \in AnyEntries},
             pending' = Append(pending, block), pc' = IF NextAlone = LastAlone THEN "expand" ELSE pc
      PROVE  Inv'
  <2>0. first \in Nat /\ last \in Nat /\ (request.kind # "range" => first = last) /\ start \in Nat
    BY <1>0, RequestIs DEF TypeOK
  <2>1. PICK m \in Nat, n \in Nat : m = Len(res) /\ n = Len(pending)
    BY DEF Inv, TypeOK
  <2>2. NextAlone = first + m + n
    <3>1. pc = "genesis" => first = 0 /\ m = 0 /\ n = 0
      BY <2>1 DEF Inv, Progress
    <3>2. pc = "blocks" /\ request.kind # "range" => m = 0 /\ n = 0
      BY <2>1 DEF Inv, Progress
    <3>3. pc = "blocks" /\ request.kind = "range" => start = first + m
      BY <2>1 DEF Inv, Progress
    <3>. QED
      BY <1>0, <2>0, <2>1, <3>1, <3>2, <3>3, SMTT(30) DEF NextAlone
  <2>3. NextAlone \in Nat
    BY <2>0, <2>2
  <2>4. NextAlone <= LastAlone /\ LastAlone <= last /\ LastAlone \in Nat
    <3>1. pc = "blocks" /\ request.kind = "range" => start = first + m /\ start + n <= last
      BY <2>1 DEF Inv, Progress
    <3>2. pc = "blocks" /\ request.kind # "range" => m = 0 /\ n = 0
      BY <2>1 DEF Inv, Progress
    <3>3. pc = "genesis" => first = 0 /\ m = 0 /\ n = 0
      BY <2>1 DEF Inv, Progress
    <3>. QED
      BY <1>0, <2>0, <2>2, <3>1, <3>2, <3>3 DEF LastAlone
  <2>5. block \in Blocks /\ (honest /\ request.kind # "hash" => block.number = NextAlone)
    <3>1. CASE honest
      BY <1>0, <1>2, <2>3, <3>1, BlocksHeldAre, Zenon
    <3>2. CASE ~honest
      <4>1. PICK e \in AnyEntries : block = e.block
        BY <1>2, <3>2
      <4>2. e.block \in Blocks
        BY EntriesAssumption
      <4>. QED
        BY <3>2, <4>1, <4>2
    <3>. QED
      BY <3>1, <3>2
  <2>6. /\ pending' \in Seq(Blocks) /\ Len(pending') = n + 1 /\ pending'[n + 1] = block
        /\ \A i \in 1 .. n : pending'[i] = pending[i]
    BY <1>0, <1>2, <2>1, <2>5 DEF TypeOK
  <2>7. TypeOK'
    BY <1>0, <1>2, <2>6 DEF TypeOK
  <2>8. Progress'
    <3>1. /\ Len(pending') = n + 1 /\ pending' # <<>> /\ Len(res') = m
          /\ first' = first /\ last' = last /\ request' = request /\ res' = res /\ start' = start
      BY <1>0, <2>1, <2>6 DEF first, last
    <3>2. CASE NextAlone = LastAlone
      <4>1. pc' = "expand" /\ first + m + (n + 1) <= last + 1
        BY <1>2, <2>0, <2>2, <2>4, <3>2
      <4>2. request.kind = "range" /\ first = 0 /\ res = <<>> => start = 1 /\ n + 1 = 1
        <5>1. pc = "blocks" /\ request.kind = "range" => start > 0 /\ start = first + m
          BY <2>1 DEF Inv, Progress
        <5>2. res = <<>> => m = 0
          BY <2>1
        <5>3. pc = "genesis" => start = 1 /\ n = 0
          BY <2>1 DEF Inv, Progress
        <5>. QED
          BY <1>0, <2>0, <5>1, <5>2, <5>3
      <4>3. first' + Len(res') + Len(pending') <= last' + 1
        BY <2>0, <3>1, <4>1
      <4>. QED
        BY <3>1, <4>1, <4>2, <4>3 DEF Progress
    <3>3. CASE NextAlone # LastAlone
      <4>1. pc = "blocks" /\ pc' = "blocks"
        <5>1. pc = "genesis" => NextAlone = LastAlone
          BY DEF NextAlone, LastAlone
        <5>. QED
          BY <1>0, <1>2, <3>3, <5>1
      <4>2. request.kind = "range"
        BY <2>0, <3>3, <4>1 DEF NextAlone, LastAlone
      <4>3. start > 0 /\ start = first + m
        BY <2>1, <4>1, <4>2 DEF Inv, Progress
      <4>4. start + (n + 1) <= last
        BY <2>0, <2>2, <2>4, <3>3, <4>3
      <4>. QED
        BY <3>1, <4>1, <4>2, <4>3, <4>4 DEF Progress
    <3>. QED
      BY <3>2, <3>3
  <2>9. InPlace'
    <3>. SUFFICES ASSUME honest, request.kind # "hash", NEW i \in 1 .. m + (n + 1)
                  PROVE  BlockAt(i)'.number = first + i - 1 /\ BlockAt(i)'.number <= last
      BY <1>0, <2>1, <2>6 DEF InPlace, first, last
    <3>1. CASE i \in 1 .. m + n
      <4>1. BlockAt(i).number = first + i - 1 /\ BlockAt(i).number <= last
        BY <2>1, <3>1 DEF Inv, InPlace
      <4>2. i <= m \/ i - m \in 1 .. n
        BY <3>1
      <4>3. BlockAt(i)' = BlockAt(i)
        BY <1>0, <2>1, <2>6, <4>2 DEF BlockAt
      <4>. QED
        BY <4>1, <4>3
    <3>2. CASE i = m + n + 1
      <4>1. i - m = n + 1 /\ ~(i <= m)
        BY <3>2
      <4>2. BlockAt(i)' = block
        BY <1>0, <2>1, <2>6, <4>1 DEF BlockAt
      <4>3. block.number = first + m + n
        BY <2>2, <2>5
      <4>4. first + m + n = first + i - 1 /\ first + m + n <= last
        BY <2>0, <2>2, <2>4, <3>2
      <4>. QED
        BY <4>2, <4>3, <4>4
    <3>. QED
      BY <3>1, <3>2
  <2>10. Indexed'
    BY <1>0, Zenon DEF Inv, Indexed
  <2>11. Verified'
    BY <1>0, <1>2 DEF Inv, Verified
  <2>. QED
    BY <2>7, <2>8, <2>9, <2>10, <2>11 DEF Inv
<1>. QED
  BY <1>1, <1>2, Zenon DEF FetchBlock

LEMMA ExpandedKeepsInv ==
  ASSUME Inv, pc = "expand", NEW index \in Nat \cup {None}, Expanded(index),
         IsIndexed([block |-> pending[1], txs |-> expanding, index |-> index]),
         UNCHANGED <<request, start, full, checked, honest, chain, served>>
  PROVE  Inv'
<1>0. /\ TypeOK /\ pending # <<>> /\ pending \in Seq(Blocks) /\ res \in Seq(Scannable) /\ expanding \in Seq(TxSet)
      /\ first \in Nat /\ last \in Nat
  BY RequestIs DEF Inv, Progress, TypeOK
<1>1. PICK m \in Nat, n \in Nat : m = Len(res) /\ n = Len(pending) /\ n > 0
  BY <1>0
<1>2. pending[1] \in Blocks
  BY <1>0
<1>. DEFINE e == [block |-> pending[1], txs |-> expanding, index |-> index]
<1>3. e \in Scannable /\ e.block = pending[1]
  BY <1>0, <1>2 DEF Scannable
<1>4. IsIndexed(e) /\ res' = Append(res, e)
  BY DEF Expanded
<1>. HIDE DEF e
<1>5. /\ res' \in Seq(Scannable) /\ Len(res') = m + 1 /\ res'[m + 1] = e
      /\ \A i \in 1 .. m : res'[i] = res[i]
  BY <1>0, <1>1, <1>3, <1>4
<1>6. /\ pending' \in Seq(Blocks) /\ Len(pending') = n - 1
      /\ \A i \in 1 .. n - 1 : pending'[i] = pending[i + 1]
  BY <1>0, <1>1 DEF Expanded
<1>7. expanding' \in Seq(TxSet) /\ pc' \in {"expand", "bin", "validate"}
  BY DEF Expanded
<1>8. TypeOK'
  BY <1>0, <1>5, <1>6, <1>7 DEF TypeOK
<1>9. first' = first /\ last' = last /\ request' = request /\ start' = start
  BY DEF first, last
<1>10. first + m + n <= last + 1 /\ (request.kind = "range" /\ first = 0 /\ res = <<>> => start = 1 /\ n = 1)
  BY <1>1 DEF Inv, Progress
<1>11. Progress'
  <2>1. CASE pc' = "expand"
    <3>1. n > 1
      BY <1>1, <2>1 DEF Expanded
    <3>2. pending' # <<>> /\ res' # <<>>
      BY <1>1, <1>5, <1>6, <3>1
    <3>3. first' + Len(res') + Len(pending') <= last' + 1
      BY <1>0, <1>5, <1>6, <1>9, <1>10, <3>1
    <3>. QED
      BY <2>1, <3>2, <3>3 DEF Progress
  <2>2. CASE pc' = "bin"
    <3>1. request.kind = "range" /\ first = 0 /\ res = <<>>
      BY <2>2 DEF Expanded
    <3>2. m = 0 /\ n = 1 /\ start = 1
      BY <1>1, <1>10, <3>1
    <3>3. pending' = <<>>
      <4>1. Len(pending') = 0
        BY <1>6, <3>2
      <4>. QED
        BY <1>6, <4>1, EmptySequence, Zenon
    <3>4. start' = first' + Len(res') /\ start' > 0
      BY <1>5, <1>9, <3>1, <3>2
    <3>. QED
      BY <1>9, <2>2, <3>1, <3>3, <3>4 DEF Progress
  <2>3. CASE pc' = "validate"
    BY <2>3 DEF Progress
  <2>. QED
    BY <1>7, <2>1, <2>2, <2>3
<1>12. InPlace'
  <2>. SUFFICES ASSUME honest, request.kind # "hash", NEW i \in 1 .. m + n
                PROVE  BlockAt(i)'.number = first + i - 1 /\ BlockAt(i)'.number <= last
    <3>1. Len(res') + Len(pending') = m + n
      BY <1>5, <1>6
    <3>. QED
      BY <1>9, <3>1 DEF InPlace
  <2>1. BlockAt(i).number = first + i - 1 /\ BlockAt(i).number <= last
    BY <1>1 DEF Inv, InPlace
  <2>2. BlockAt(i)' = BlockAt(i)
    <3>1. CASE i \in 1 .. m
      <4>1. i <= m /\ i <= m + 1
        BY <3>1
      <4>. QED
        BY <1>1, <1>5, <3>1, <4>1 DEF BlockAt
    <3>2. CASE i = m + 1
      <4>1. ~(i <= m) /\ i <= m + 1 /\ i - m = 1
        BY <3>2
      <4>2. BlockAt(i) = pending[1]
        BY <1>1, <4>1 DEF BlockAt
      <4>3. BlockAt(i)' = e.block
        BY <1>5, <3>2, <4>1 DEF BlockAt
      <4>. QED
        BY <1>3, <4>2, <4>3
    <3>3. CASE i > m + 1
      <4>1. ~(i <= m) /\ ~(i <= m + 1) /\ i - (m + 1) \in 1 .. n - 1 /\ (i - (m + 1)) + 1 = i - m
        BY <3>3
      <4>2. BlockAt(i) = pending[i - m]
        BY <1>1, <4>1 DEF BlockAt
      <4>3. BlockAt(i)' = pending'[i - (m + 1)]
        BY <1>5, <4>1 DEF BlockAt
      <4>4. pending'[i - (m + 1)] = pending[(i - (m + 1)) + 1]
        BY <1>6, <4>1
      <4>. QED
        BY <4>1, <4>2, <4>3, <4>4
    <3>. QED
      BY <3>1, <3>2, <3>3
  <2>. QED
    BY <2>1, <2>2
<1>13. Indexed'
  <2>1. ASSUME NEW i \in 1 .. m + 1 PROVE IsIndexed(res'[i])
    <3>1. CASE i = m + 1
      BY <1>4, <1>5, <3>1, Zenon
    <3>2. CASE i # m + 1
      <4>1. i \in 1 .. m
        BY <3>2
      <4>. QED
        BY <1>1, <1>5, <4>1, Zenon DEF Inv, Indexed
    <3>. QED
      BY <3>1, <3>2
  <2>. QED
    BY <1>5, <2>1, Zenon DEF Indexed, IsIndexed
<1>14. Verified'
  <2>1. checked = 0
    BY DEF Inv, Verified
  <2>. QED
    BY <1>5, <1>7, <2>1 DEF Verified
<1>. QED
  BY <1>8, <1>11, <1>12, <1>13, <1>14 DEF Inv

LEMMA ExpandIndexKeepsInv == Inv /\ ExpandIndex => Inv'
<1>. SUFFICES ASSUME Inv, ExpandIndex PROVE Inv'
  OBVIOUS
<1>0. /\ TypeOK /\ pc = "expand" /\ pending # <<>> /\ pending \in Seq(Blocks) /\ expanding \in Seq(TxSet)
      /\ UNCHANGED <<request, start, full, checked, honest, chain, served>>
      /\ chain \in Chains /\ full' \in Seq(TxSet \cup {None})
  BY DEF Inv, Progress, TypeOK, ExpandIndex, daemonVars
<1>1. pending[1] \in Blocks
  BY <1>0
<1>. DEFINE t == AllTxs(pending[1], expanding)
            i == FirstRingCt(t)
            id == (<<pending[1].miner>> \o pending[1].transactions)[i]
            replies == IF honest THEN {IndexesOnChain(id)}
                       ELSE {<<>>} \cup {[o \in 1 .. t[i].outputs |-> n] : n \in {0, U64Max}}
            entry(index) == [block |-> pending[1], txs |-> expanding, index |-> index]
<1>2. t \in Seq(TxSet)
  BY <1>0, <1>1, ListedAreTxs, Zenon
<1>3. ASSUME NEW index PROVE IsIndexed(entry(index)) <=> (index = None <=> i = 0)
  BY Zenon DEF IsIndexed
<1>4. CASE i = 0 /\ Expanded(None)
  <2>1. IsIndexed(entry(None))
    BY <1>3, <1>4, Zenon
  <2>2. None \in Nat \cup {None}
    OBVIOUS
  <2>. QED
    BY <1>0, <1>4, <2>1, <2>2, ExpandedKeepsInv, Zenon
<1>5. ASSUME i # 0, NEW indexes \in replies, Len(indexes) = t[i].outputs, Expanded(indexes[1]) PROVE Inv'
  <2>1. i \in 1 .. Len(t) /\ t[i].outputs \in Nat \ {0}
    BY <1>2, <1>5, FirstRingCtIs, Zenon
  <2>2. indexes \in Seq(Nat)
    <3>1. CASE honest
      BY <1>0, <1>5, <3>1, IndexesOnChainAre, Zenon
    <3>2. CASE ~honest
      <4>0. PICK m \in Nat : m = t[i].outputs
        BY <2>1
      <4>. HIDE DEF t, i, id
      <4>1. indexes = <<>> \/ \E n \in {0, U64Max} : indexes = [o \in 1 .. m |-> n]
        BY <1>5, <3>2, <4>0, Zenon
      <4>2. \A n \in Nat : [o \in 1 .. m |-> n] \in Seq(Nat)
        OBVIOUS
      <4>3. <<>> \in Seq(Nat) /\ 0 \in Nat /\ U64Max \in Nat
        BY NumbersAssumption
      <4>. QED
        BY <4>1, <4>2, <4>3, Zenon
    <3>. QED
      BY <3>1, <3>2
  <2>3. Len(indexes) \in Nat \ {0}
    BY <1>5, <2>1, Zenon
  <2>4. indexes[1] \in Nat
    BY <2>2, <2>3
  <2>5. indexes[1] # None /\ indexes[1] \in Nat \cup {None}
    BY <2>4, EntriesAssumption
  <2>6. IsIndexed(entry(indexes[1]))
    BY <1>3, <1>5, <2>5, Zenon
  <2>. QED
    BY <1>0, <1>5, <2>5, <2>6, ExpandedKeepsInv, Zenon
<1>6. CASE Fails /\ UNCHANGED <<res, pending, expanding, alone>>
  BY <1>0, <1>6, FailureKeepsInv DEF Fails
<1>7. \/ i = 0 /\ Expanded(None)
      \/ /\ i # 0
         /\ \E indexes \in replies :
              \/ Len(indexes) = t[i].outputs /\ Expanded(indexes[1])
              \/ Fails /\ UNCHANGED <<res, pending, expanding, alone>>
  BY Zenon DEF ExpandIndex
<1>. QED
  BY <1>4, <1>5, <1>6, <1>7, Zenon

\* A response of an honest daemon is of blocks of its chain, from the first asked for.
LEMMA ResponsesAre ==
  ASSUME TypeOK, NEW entries \in Responses
  PROVE  /\ entries \in Seq(Entries)
         /\ honest => \A k \in 1 .. Len(entries) : entries[k].block.number = start + k - 1
<1>0. chain \in Chains /\ chain \in Seq(Blocks) /\ start \in Nat
  BY ChainsAssumption DEF TypeOK
<1>1. CASE honest
  <2>. DEFINE entry(k) == [block |-> chain[start + k], txs |-> Listed(chain[start + k]),
                           indexes |-> FlattenSeq(ChainIndexes[chain][start + k])]
  <2>1. PICK l \in Nat : l = Len(chain)
    BY <1>0
  <2>2. PICK n \in IF start < l THEN 1 .. l - start ELSE {0} : entries = [k \in 1 .. n |-> entry(k)]
    <3>1. entries \in {[k \in 1 .. n |-> entry(k)] : n \in IF start < l THEN 1 .. l - start ELSE {0}}
      BY <1>1, <2>1 DEF Responses
    <3>. HIDE DEF entry
    <3>. QED
      BY <3>1, Zenon
  <2>3. n \in Nat /\ \A k \in 1 .. n : start + k \in 1 .. l
    BY <1>0
  <2>4. ASSUME NEW k \in 1 .. n
        PROVE  entry(k) \in Entries /\ entry(k).block = chain[start + k] /\ chain[start + k].number = start + k - 1
    <3>1. start + k \in 1 .. Len(chain)
      BY <2>1, <2>3
    <3>2. PICK b \in Blocks : b = chain[start + k]
      BY <1>0, <3>1, TxsAtAre, Zenon
    <3>3. <<>> \in Seq(TxSet)
      OBVIOUS
    <3>4. PICK t \in Seq(TxSet) : t = Listed(b)
      BY <3>3, ListedAreTxs, Zenon
    <3>5. PICK s \in Seq(Nat) : s = FlattenSeq(ChainIndexes[chain][start + k])
      BY <1>0, <3>1, ChainIndexesAre, FlattenType, Zenon
    <3>6. [block |-> b, txs |-> t, indexes |-> s] \in Entries /\ [block |-> b, txs |-> t, indexes |-> s].block = b
      BY DEF Entries
    <3>7. entry(k) = [block |-> b, txs |-> t, indexes |-> s]
      BY <3>2, <3>4, <3>5, Zenon
    <3>8. chain[start + k].number = start + k - 1
      <4>1. \A i \in 1 .. Len(chain) : chain[i].number = i - 1
        BY <1>0, ChainsAssumption, Zenon
      <4>2. PICK i \in 1 .. Len(chain) : i = start + k
        BY <3>1, Zenon
      <4>3. chain[i].number = i - 1
        BY <4>1, Zenon
      <4>4. chain[start + k].number = i - 1
        BY <4>2, <4>3, Zenon
      <4>5. i - 1 = start + k - 1
        BY <1>0, <4>2
      <4>. QED
        BY <4>4, <4>5, Zenon
    <3>. QED
      BY <3>2, <3>6, <3>7, <3>8, Zenon
  <2>. HIDE DEF entry
  <2>5. entries \in Seq(Entries) /\ Len(entries) = n
    BY <2>2, <2>3, <2>4
  <2>6. \A k \in 1 .. n : entries[k] = entry(k)
    BY <2>2, Zenon
  <2>. QED
    BY <2>4, <2>5, <2>6, Zenon
<1>2. CASE ~honest
  <2>1. AnyEntries \subseteq Entries
    BY EntriesAssumption DEF Entries
  <2>2. entries = <<>> \/ (\E e \in AnyEntries : entries = <<e>>) \/ (\E e, f \in AnyEntries : entries = <<e, f>>)
    BY <1>2 DEF Responses
  <2>3. <<>> \in Seq(Entries) /\ \A e, f \in Entries : <<e>> \in Seq(Entries) /\ <<e, f>> \in Seq(Entries)
    OBVIOUS
  <2>. QED
    BY <1>2, <2>1, <2>2, <2>3
<1>. QED
  BY <1>1, <1>2

\* The blocks which are added.
LEMMA BlocksAdded ==
  ASSUME Inv, pc = "bin", start <= last, NEW entries \in Responses,
         EnoughIndexes(entries), ~ZeroBlocks(entries),
         res' = res \o WantedBlocks(Extracted(entries)), start' = start + Len(WantedBlocks(entries))
  PROVE  /\ res' \in Seq(Scannable)
         /\ \E l \in 1 .. Len(entries) :
              /\ l <= last - start + 1 /\ start' = start + l /\ Len(res') = Len(res) + l
              /\ \A i \in 1 .. Len(res) : res'[i] = res[i]
              /\ \A k \in 1 .. l : res'[Len(res) + k] = Extracted(entries)[k]
<1>0. TypeOK /\ first \in Nat /\ last \in Nat /\ start \in Nat /\ res \in Seq(Scannable)
  BY RequestIs DEF Inv, TypeOK
<1>1. entries \in Seq(Entries) /\ entries # <<>>
  BY <1>0, ResponsesAre, Zenon DEF ZeroBlocks
<1>2. PICK x \in Seq(Scannable) : x = Extracted(entries)
  BY <1>1, ExtractedIs, Zenon
<1>3. PICK n \in Nat : n = Len(entries) /\ n > 0
  BY <1>1
<1>4. /\ Len(x) = n
      /\ \A k \in 1 .. n : x[k].block = entries[k].block /\ IsIndexed(x[k])
  BY <1>1, <1>2, <1>3, ExtractedIs, Zenon
<1>5. PICK l \in 1 .. n : l = (IF n <= last - start + 1 THEN n ELSE last - start + 1) /\ l <= last - start + 1
  <2>. DEFINE r == last - start + 1
  <2>1. r \in Nat /\ r > 0
    BY <1>0
  <2>2. (IF n <= r THEN n ELSE r) \in 1 .. n /\ (IF n <= r THEN n ELSE r) <= r
    BY <1>3, <2>1
  <2>. QED
    BY <2>2
<1>6. WantedBlocks(x) = SubSeq(x, 1, l) /\ WantedBlocks(entries) = SubSeq(entries, 1, l)
  BY <1>3, <1>4, <1>5, Zenon DEF WantedBlocks, RemainingBlocks
<1>7. l \in 0 .. Len(x) /\ l \in 0 .. Len(entries) /\ l \in Nat
  BY <1>3, <1>4
<1>8. PICK w \in Seq(Scannable) : w = SubSeq(x, 1, l)
  BY <1>7, Prefix, Zenon
<1>9. Len(w) = l /\ (\A k \in 1 .. l : w[k] = x[k]) /\ Len(WantedBlocks(entries)) = l
  BY <1>1, <1>6, <1>7, <1>8, Prefix, ZenonT(60)
<1>10. PICK m \in Nat : m = Len(res)
  BY <1>0
<1>11. res' = Cat(res, w)
  BY <1>2, <1>6, <1>8, Zenon DEF Cat
<1>12. res' \in Seq(Scannable) /\ Len(res') = m + l
  BY <1>0, <1>9, <1>10, <1>11, CatIs, Zenon
<1>13. \A i \in 1 .. m : res'[i] = res[i]
  <2>1. \A i \in 1 .. Len(res) : Cat(res, w)[i] = res[i]
    BY <1>0, CatIs, Zenon
  <2>. QED
    BY <1>10, <1>11, <2>1, Zenon
<1>14. ASSUME NEW k \in 1 .. l PROVE res'[m + k] = x[k]
  <2>0. k \in 1 .. Len(w)
    BY <1>9
  <2>1. Cat(res, w)[Len(res) + k] = w[k]
    BY <1>0, <2>0, CatSecond, Zenon
  <2>. QED
    BY <1>9, <1>10, <1>11, <2>1, Zenon
<1>15. l \in 1 .. Len(entries) /\ start' = start + l
  BY <1>3, <1>9
<1>. QED
  BY <1>2, <1>5, <1>10, <1>12, <1>13, <1>14, <1>15, Zenon

LEMMA BlocksReceivedKeepsInv ==
  ASSUME Inv, pc = "bin", start <= last, NEW entries \in Responses, BlocksReceived(entries),
         UNCHANGED <<request, pending, expanding, full, checked, honest, chain, served>>
  PROVE  Inv'
<1>0. /\ TypeOK /\ first \in Nat /\ last \in Nat /\ start \in Nat /\ res \in Seq(Scannable)
      /\ request.kind = "range" /\ pending = <<>> /\ checked = 0
      /\ expanding' \in Seq(TxSet) /\ full' \in Seq(TxSet \cup {None})
  BY RequestIs DEF Inv, Progress, TypeOK, Verified
<1>1. CASE Fails /\ UNCHANGED <<res, start>>
  BY <1>0, <1>1, FailureKeepsInv DEF Fails
<1>2. CASE /\ EnoughIndexes(entries) /\ ~ZeroBlocks(entries)
           /\ res' = res \o WantedBlocks(Extracted(entries))
           /\ start' = start + Len(WantedBlocks(entries))
           /\ pc' = IF start' > last THEN "validate" ELSE "bin"
  <2>1. /\ entries \in Seq(Entries) /\ entries # <<>>
        /\ honest => \A k \in 1 .. Len(entries) : entries[k].block.number = start + k - 1
    BY <1>0, <1>2, ResponsesAre, Zenon DEF ZeroBlocks
  <2>2. PICK x \in Seq(Scannable) : x = Extracted(entries)
    BY <1>2, <2>1, ExtractedIs, Zenon
  <2>3. PICK n \in Nat : n = Len(entries) /\ n > 0
    BY <2>1
  <2>4. /\ Len(x) = n
        /\ \A k \in 1 .. n : x[k].block = entries[k].block /\ IsIndexed(x[k])
    BY <1>2, <2>1, <2>2, <2>3, ExtractedIs, Zenon
  <2>10. PICK m \in Nat : m = Len(res)
    BY <1>0
  <2>5. PICK l \in 1 .. n :
          /\ l <= last - start + 1 /\ start' = start + l /\ Len(res') = m + l /\ res' \in Seq(Scannable)
          /\ \A i \in 1 .. m : res'[i] = res[i]
          /\ \A k \in 1 .. l : res'[m + k] = x[k]
    BY <1>2, <2>2, <2>3, <2>10, BlocksAdded, Zenon
  <2>12. res' \in Seq(Scannable) /\ Len(res') = m + l
    BY <2>5
  <2>13. \A i \in 1 .. m : res'[i] = res[i]
    BY <2>5
  <2>14. \A k \in 1 .. l : res'[m + k] = x[k]
    BY <2>5
  <2>15. ASSUME NEW i \in 1 .. m + l PROVE i \in 1 .. m \/ \E k \in 1 .. l : i = m + k
    <3>1. ~(i <= m) => i - m \in 1 .. l /\ i = m + (i - m)
      OBVIOUS
    <3>. QED
      BY <3>1
  <2>16. start = first + m /\ start > 0 /\ start' = start + l
    BY <2>5, <2>10 DEF Inv, Progress
  <2>17. pc' \in {"validate", "bin"}
    BY <1>2
  <2>18. TypeOK'
    <3>1. start' \in Nat
      BY <1>0, <2>16
    <3>. QED
      BY <1>0, <2>12, <2>17, <3>1 DEF TypeOK
  <2>19. Progress'
    <3>1. start' = first + (m + l) /\ start' > 0
      BY <1>0, <2>16
    <3>2. first' = first /\ Len(res') = m + l
      BY <2>12 DEF first
    <3>. QED
      BY <1>0, <2>17, <3>1, <3>2 DEF Progress
  <2>20. InPlace'
    <3>. SUFFICES ASSUME honest, request.kind # "hash", NEW i \in 1 .. m + l
                  PROVE  BlockAt(i)'.number = first + i - 1 /\ BlockAt(i)'.number <= last
      <4>1. Len(res') + Len(pending') = m + l
        BY <1>0, <2>12
      <4>. QED
        BY <4>1 DEF InPlace, first, last
    <3>1. BlockAt(i)' = res'[i].block
      BY <2>12 DEF BlockAt
    <3>2. CASE i \in 1 .. m
      <4>1. i <= m /\ i \in 1 .. Len(res) + Len(pending)
        BY <1>0, <2>10, <3>2
      <4>2. BlockAt(i).number = first + i - 1 /\ BlockAt(i).number <= last /\ BlockAt(i) = res[i].block
        BY <2>10, <4>1, Zenon DEF Inv, InPlace, BlockAt
      <4>. QED
        BY <2>13, <3>1, <3>2, <4>2, Zenon
    <3>3. ASSUME NEW k \in 1 .. l, i = m + k PROVE BlockAt(i)'.number = first + i - 1 /\ BlockAt(i)'.number <= last
      <4>1. k \in 1 .. n
        OBVIOUS
      <4>2. BlockAt(i)'.number = start + k - 1
        BY <2>1, <2>3, <2>4, <2>14, <3>1, <3>3, <4>1, Zenon
      <4>3. start + k - 1 = first + i - 1 /\ start + k - 1 <= last
        <5>1. l <= last - start + 1
          BY <2>5
        <5>. QED
          BY <1>0, <2>16, <3>3, <5>1
      <4>. QED
        BY <4>2, <4>3, Zenon
    <3>. QED
      BY <2>15, <3>2, <3>3, Zenon
  <2>21. Indexed'
    <3>1. ASSUME NEW i \in 1 .. m + l PROVE IsIndexed(res'[i])
      <4>1. CASE i \in 1 .. m
        BY <2>10, <2>13, <4>1, Zenon DEF Inv, Indexed
      <4>2. ASSUME NEW k \in 1 .. l, i = m + k PROVE IsIndexed(res'[i])
        <5>1. k \in 1 .. n
          OBVIOUS
        <5>. QED
          BY <2>4, <2>14, <4>2, <5>1, Zenon
      <4>. QED
        BY <2>15, <4>1, <4>2, Zenon
    <3>. QED
      BY <2>12, <3>1, Zenon DEF Indexed, IsIndexed
  <2>22. Verified'
    BY <1>0, <2>12, <2>17 DEF Verified
  <2>. QED
    BY <2>18, <2>19, <2>20, <2>21, <2>22 DEF Inv
<1>. QED
  BY <1>1, <1>2 DEF BlocksReceived

LEMMA BlocksBinKeepsInv == Inv /\ BlocksBin => Inv'
<1>. SUFFICES ASSUME Inv, BlocksBin PROVE Inv'
  OBVIOUS
<1>0. pc = "bin" /\ UNCHANGED <<request, pending, expanding, full, checked, honest, chain, served>>
  BY DEF BlocksBin, daemonVars
<1>1. CASE start > last /\ pc' = "validate" /\ UNCHANGED <<res, start>>
  <2>1. TypeOK'
    BY <1>0, <1>1 DEF Inv, TypeOK
  <2>2. Progress'
    BY <1>1 DEF Progress
  <2>3. InPlace' /\ Indexed'
    BY <1>0, <1>1, Zenon DEF Inv, InPlace, BlockAt, Indexed, first, last
  <2>4. Verified'
    BY <1>0, <1>1 DEF Inv, Verified
  <2>. QED
    BY <2>1, <2>2, <2>3, <2>4 DEF Inv
<1>2. ASSUME start <= last, NEW entries \in Responses, BlocksReceived(entries) PROVE Inv'
  BY <1>0, <1>2, BlocksReceivedKeepsInv
<1>. QED
  BY <1>1, <1>2, Zenon DEF BlocksBin

LEMMA NextKeepsInv == Inv /\ [Next]_vars => Inv'
<1>. SUFFICES ASSUME Inv, [Next]_vars PROVE Inv'
  OBVIOUS
<1>1. CASE UNCHANGED vars
  <2>1. chain' \in Chains /\ served' \in SUBSET Chains /\ expanding' \in Seq(TxSet) /\ full' \in Seq(TxSet \cup {None})
    BY <1>1 DEF vars, Inv, TypeOK
  <2>. QED
    BY <1>1, <2>1, QuietKeepsInv DEF vars
<1>2. CASE Step
  BY <1>2, BlocksBinKeepsInv, FetchBlockKeepsInv, ExpandTransactionsKeepsInv, ExpandIndexKeepsInv,
     ValidateKeepsInv, ValidateScannableBlockKeepsInv, FullTransactionsKeepsInv, CompareFullKeepsInv DEF Step
<1>. QED
  BY <1>1, <1>2, MethodNotApplicableKeepsInv, RequestFailsKeepsInv, ChainChangesKeepsInv DEF Next, Terminated

LEMMA AlwaysInv == Spec => []Inv
  BY InitInv, NextKeepsInv, PTL DEF Spec

---------------------------------------------------------------------------------
(* The indexes an honest daemon sends. *)

\* Sequences of as many elements as transactions, or the transactions of blocks, have outputs.
LEMMA FlattenCounts ==
  ASSUME NEW T, NEW ss \in Seq(Seq(T)), NEW t \in Seq(TxSet), Len(ss) = Len(t),
         \A i \in 1 .. Len(t) : Len(ss[i]) = t[i].outputs
  PROVE  Len(FlattenSeq(ss)) = OutputsOf(t)
<1>0. PICK n \in Nat : n = Len(t)
  OBVIOUS
<1>1. \A i \in 1 .. n : t[i] \in TxSet
  BY <1>0
<1>2. \A i \in 1 .. n : Outputs[t[i]] = Len(ss[i])
  BY <1>0, <1>1, Zenon DEF Outputs
<1>3. Mapped(Outputs, t) = Lens(ss)
  BY <1>0, <1>2, Zenon DEF Mapped, Lens
<1>. QED
  BY <1>3, FlattenLens, CountsAre, Zenon

LEMMA FlattenBlockCounts ==
  ASSUME NEW T, NEW ss \in Seq(Seq(T)), NEW tt \in Seq(Seq(TxSet)), Len(ss) = Len(tt),
         \A k \in 1 .. Len(tt) : Len(ss[k]) = OutputsOf(tt[k])
  PROVE  Len(FlattenSeq(ss)) = OutputsOf(FlattenSeq(tt))
<1>0. PICK n \in Nat : n = Len(tt)
  OBVIOUS
<1>1. PICK l \in Seq(Nat) : l = Lens(ss)
  BY FlattenLens, Zenon
<1>2. Len(l) = n /\ \A k \in 1 .. n : l[k] = OutputsOf(tt[k])
  <2>1. l = [k \in 1 .. n |-> Len(ss[k])]
    BY <1>0, <1>1 DEF Lens
  <2>2. Len(l) = n /\ \A k \in 1 .. n : l[k] = Len(ss[k])
    BY <2>1
  <2>. QED
    BY <1>0, <2>2, Zenon
<1>. DEFINE up(k) == FlattenSeq(SubSeq(tt, 1, k))
            f == [k \in 0 .. n |-> OutputsOf(up(k))]
<1>3. up(0) = <<>>
  BY FlattenNone, Zenon
<1>4. SubSeq(tt, 1, n) = tt
  BY <1>0, SubSeqFull, Zenon
<1>5. up(n) = FlattenSeq(tt)
  BY <1>4, Zenon
<1>6. ASSUME NEW k \in 1 .. n
      PROVE  OutputsOf(up(k - 1)) \in Nat /\ OutputsOf(up(k)) \in Nat /\ OutputsOf(up(k)) = OutputsOf(up(k - 1)) + l[k]
  <2>1. PICK a \in Seq(TxSet), b \in Seq(TxSet) : a = up(k - 1) /\ b = tt[k]
    BY <1>0, FlattenGrow, Zenon
  <2>2. up(k) = Cat(a, b) /\ up(k) \in Seq(TxSet)
    BY <1>0, <2>1, FlattenGrow, Zenon
  <2>3. OutputsOf(a) \in Nat /\ OutputsOf(Cat(a, b)) = OutputsOf(a) + OutputsOf(b)
    BY OutputsConcat, Zenon
  <2>4. OutputsOf(up(k)) \in Nat
    BY <2>2, OutputsConcat, Zenon
  <2>. QED
    BY <1>2, <2>1, <2>2, <2>3, <2>4, Zenon
<1>. HIDE DEF up
<1>7. OutputsOf(up(0)) = 0
  <2>1. [i \in 1 .. Len(<<>>) |-> <<>>[i].outputs] = <<>>
    OBVIOUS
  <2>2. OutputsOf(<<>>) = Total(<<>>)
    BY <2>1, Zenon DEF OutputsOf
  <2>. QED
    BY <1>3, <2>2, TotalEmpty, Zenon
<1>8. ASSUME NEW k \in 0 .. n PROVE OutputsOf(up(k)) \in Nat
  <2>1. k = 0 \/ k \in 1 .. n
    OBVIOUS
  <2>2. 0 \in Nat
    OBVIOUS
  <2>. QED
    BY <1>6, <1>7, <2>1, <2>2, Zenon
<1>9. f \in [0 .. n -> Nat] /\ \A k \in 0 .. n : f[k] = OutputsOf(up(k))
  BY <1>8, Zenon
<1>10. f[0] = 0
  <2>1. 0 \in 0 .. n
    OBVIOUS
  <2>. QED
    BY <1>7, <1>9, <2>1, Zenon
<1>11. ASSUME NEW k \in 1 .. n PROVE f[k] = f[k - 1] + l[k]
  <2>1. k \in 0 .. n /\ k - 1 \in 0 .. n
    OBVIOUS
  <2>. QED
    BY <1>6, <1>9, <2>1, Zenon
<1>. HIDE DEF f
<1>12. Sums(f, l, n)
  BY <1>10, <1>11 DEF Sums
<1>13. Total(l) = f[n]
  BY <1>2, <1>9, <1>12, TotalIs, Zenon
<1>14. n \in 0 .. n
  OBVIOUS
<1>15. f[n] = OutputsOf(FlattenSeq(tt))
  BY <1>5, <1>9, <1>14, Zenon
<1>. QED
  BY <1>1, <1>13, <1>15, FlattenLens, Zenon

\* A transaction's indexes on a chain, in those of its block.
LEMMA BlockIndexes ==
  ASSUME NEW c \in Chains, NEW k \in 1 .. Len(c)
  PROVE  /\ FlattenSeq(ChainIndexes[c][k]) \in Seq(Nat)
         /\ Len(FlattenSeq(ChainIndexes[c][k])) = OutputsOf(TxsAt(c, k))
         /\ \A i \in 1 .. Len(TxsAt(c, k)) :
              /\ Len(ChainIndexes[c][k][i]) = TxsAt(c, k)[i].outputs
              /\ TxsAt(c, k)[i].version # 1 /\ TxsAt(c, k)[i].outputs # 0 =>
                   /\ ChainIndexes[c][k][i][1] = RingCtBefore(c, k, i)
                   /\ FlattenSeq(ChainIndexes[c][k])[OutputsOf(SubSeq(TxsAt(c, k), 1, i - 1)) + 1]
                        = RingCtBefore(c, k, i)
<1>1. PICK t \in Seq(TxSet) : t = TxsAt(c, k)
  BY TxsAtAre, Zenon
<1>2. PICK ss \in Seq(Seq(Nat)) : ss = ChainIndexes[c][k]
  BY ChainIndexesAre, Zenon
<1>3. PICK n \in Nat : n = Len(t)
  OBVIOUS
<1>. DEFINE g(i) == [o \in 1 .. t[i].outputs |-> IF t[i].version = 1 THEN 0 ELSE RingCtBefore(c, k, i) + o - 1]
<1>4. ss = [i \in 1 .. n |-> g(i)]
  BY <1>1, <1>2, <1>3, Zenon DEF ChainIndexes
<1>5. ASSUME NEW i \in 1 .. n
      PROVE  /\ t[i].outputs \in Nat /\ Len(g(i)) = t[i].outputs /\ RingCtBefore(c, k, i) \in Nat
             /\ t[i].version # 1 /\ t[i].outputs # 0 => g(i)[1] = RingCtBefore(c, k, i)
  <2>1. t[i] \in TxSet
    BY <1>3
  <2>2. PICK m \in Nat : m = t[i].outputs
    BY <2>1 DEF TxSet
  <2>3. PICK r \in Nat : r = RingCtBefore(c, k, i)
    BY <1>1, <1>3, RingCtBeforeType, Zenon
  <2>4. g(i) = [o \in 1 .. m |-> IF t[i].version = 1 THEN 0 ELSE r + o - 1]
    BY <2>2, <2>3, Zenon
  <2>5. PICK v : v = t[i].version
    OBVIOUS
  <2>6. PICK h : h = [o \in 1 .. m |-> IF v = 1 THEN 0 ELSE r + o - 1]
    OBVIOUS
  <2>7. Len(h) = m /\ (v # 1 /\ m # 0 => h[1] = r)
    BY <2>6
  <2>8. g(i) = h
    BY <2>4, <2>5, <2>6, Zenon
  <2>. HIDE DEF g
  <2>. QED
    BY <2>2, <2>3, <2>5, <2>7, <2>8, Zenon
<1>. HIDE DEF g
<1>6. Len(ss) = n /\ \A i \in 1 .. n : ss[i] = g(i)
  BY <1>4
<1>7. \A i \in 1 .. n : Len(ss[i]) = t[i].outputs
  BY <1>5, <1>6, Zenon
<1>8. Len(FlattenSeq(ss)) = OutputsOf(t)
  BY <1>3, <1>6, <1>7, FlattenCounts, Zenon
<1>9. ASSUME NEW i \in 1 .. n, t[i].version # 1, t[i].outputs # 0
      PROVE  /\ ss[i][1] = RingCtBefore(c, k, i)
             /\ FlattenSeq(ss)[OutputsOf(SubSeq(t, 1, i - 1)) + 1] = RingCtBefore(c, k, i)
  <2>1. ss[i][1] = RingCtBefore(c, k, i)
    BY <1>5, <1>6, <1>9, Zenon
  <2>2. i - 1 \in 0 .. n /\ i - 1 \in 0 .. Len(ss) /\ i - 1 \in 0 .. Len(t)
    BY <1>3, <1>6
  <2>3. PICK a \in Seq(Seq(Nat)) : a = SubSeq(ss, 1, i - 1)
    BY <2>2, Prefix, Zenon
  <2>4. PICK b \in Seq(TxSet) : b = SubSeq(t, 1, i - 1)
    BY <2>2, Prefix, Zenon
  <2>5. Len(a) = i - 1 /\ \A j \in 1 .. i - 1 : a[j] = ss[j]
    BY <2>2, <2>3, Prefix, Zenon
  <2>6. Len(b) = i - 1 /\ \A j \in 1 .. i - 1 : b[j] = t[j]
    BY <2>2, <2>4, Prefix, Zenon
  <2>7. \A j \in 1 .. i - 1 : j \in 1 .. n
    BY <1>3
  <2>8. \A j \in 1 .. Len(b) : Len(a[j]) = b[j].outputs
    BY <1>7, <2>5, <2>6, <2>7, Zenon
  <2>9. Len(FlattenSeq(a)) = OutputsOf(b)
    BY <2>5, <2>6, <2>8, FlattenCounts, Zenon
  <2>10. i \in 1 .. Len(ss) /\ 1 \in 1 .. Len(ss[i])
    <3>1. t[i].outputs \in Nat \ {0}
      BY <1>5, <1>9
    <3>2. \A m \in Nat \ {0} : 1 \in 1 .. m
      OBVIOUS
    <3>. QED
      BY <1>6, <1>7, <3>1, <3>2, Zenon
  <2>11. FlattenSeq(ss)[Len(FlattenSeq(SubSeq(ss, 1, i - 1))) + 1] = ss[i][1]
    BY <2>10, FlattenAt, ZenonT(60)
  <2>. QED
    BY <2>1, <2>3, <2>4, <2>9, <2>11, Zenon
<1>10. FlattenSeq(ss) \in Seq(Nat)
  BY FlattenType, Zenon
<1>. QED
  BY <1>1, <1>2, <1>3, <1>7, <1>8, <1>9, <1>10, Zenon

\* Entries with as many indexes as outputs have enough, and the index of a block is its own.
LEMMA EntriesIndexes ==
  ASSUME NEW entries \in Seq(Entries),
         \A k \in 1 .. Len(entries) : Len(entries[k].indexes) = OutputsOf(TxsOf(entries)[k])
  PROVE  /\ EnoughIndexes(entries)
         /\ \A k \in 1 .. Len(entries) : LET i == FirstRingCt(TxsOf(entries)[k])
              IN i # 0 => Extracted(entries)[k].index
                            = entries[k].indexes[OutputsOf(SubSeq(TxsOf(entries)[k], 1, i - 1)) + 1]
<1>0. PICK n \in Nat : n = Len(entries)
  OBVIOUS
<1>1. \A k \in 1 .. n : entries[k] \in Entries
  BY <1>0
<1>2. \A k \in 1 .. n : entries[k].indexes \in Seq(Nat)
  BY <1>1 DEF Entries
<1>3. PICK ss : ss = [k \in 1 .. n |-> entries[k].indexes]
  OBVIOUS
<1>4. ss \in Seq(Seq(Nat)) /\ Len(ss) = n /\ \A k \in 1 .. n : ss[k] = entries[k].indexes
  BY <1>2, <1>3
<1>5. FlatIndexes(entries) = FlattenSeq(ss)
  BY <1>0, <1>3, Zenon DEF FlatIndexes
<1>6. PICK tt \in Seq(Seq(TxSet)) : tt = TxsOf(entries) /\ Len(tt) = n
  BY <1>0, TxsOfAre, Zenon
<1>7. \A k \in 1 .. n : Len(ss[k]) = OutputsOf(tt[k])
  BY <1>0, <1>4, <1>6, Zenon
<1>8. FlatTxs(entries) = FlattenSeq(tt)
  BY <1>6, TxsOfAre, Zenon
<1>9. EnoughIndexes(entries)
  BY <1>4, <1>5, <1>6, <1>7, <1>8, FlattenBlockCounts, Zenon DEF EnoughIndexes
<1>10. ASSUME NEW k \in 1 .. n, FirstRingCt(tt[k]) # 0
       PROVE  Extracted(entries)[k].index
                = entries[k].indexes[OutputsOf(SubSeq(tt[k], 1, FirstRingCt(tt[k]) - 1)) + 1]
  <2>1. PICK t \in Seq(TxSet) : t = tt[k]
    BY <1>6
  <2>2. PICK i \in 1 .. Len(t) : i = FirstRingCt(t) /\ t[i].outputs \in Nat \ {0}
    BY <1>10, <2>1, FirstRingCtIs, Zenon
  <2>3. PICK h \in Seq(TxSet) : h = SubSeq(t, 1, i - 1) /\ OutputsOf(h) \in Nat /\ OutputsOf(h) + t[i].outputs <= OutputsOf(t)
    BY OutputsBefore, Zenon
  <2>4. OutputsOf(t) \in Nat
    BY OutputsConcat, Zenon
  <2>5. PICK x \in Nat : x = OutputsOf(h)
    BY <2>3
  <2>6. x + 1 \in 1 .. OutputsOf(t)
    <3>1. PICK w \in Nat, z \in Nat \ {0} : w = OutputsOf(t) /\ z = t[i].outputs
      BY <2>2, <2>4, Zenon
    <3>2. x + z <= w
      BY <2>3, <2>5, <3>1, Zenon
    <3>3. x + 1 \in 1 .. w
      BY <3>2
    <3>. QED
      BY <3>1, <3>3, Zenon
  <2>7. k \in 1 .. Len(ss) /\ x + 1 \in 1 .. Len(ss[k])
    BY <1>4, <1>7, <2>1, <2>6, Zenon
  <2>8. k - 1 \in 0 .. n /\ k - 1 \in 0 .. Len(ss) /\ k - 1 \in 0 .. Len(tt) /\ k - 1 \in 0 .. Len(entries)
    BY <1>0, <1>4, <1>6
  <2>9. PICK a \in Seq(Seq(Nat)) : a = SubSeq(ss, 1, k - 1)
    BY <1>4, <2>8, Prefix, Zenon
  <2>10. PICK b \in Seq(Seq(TxSet)) : b = SubSeq(tt, 1, k - 1)
    BY <2>8, Prefix, Zenon
  <2>11. Len(a) = k - 1 /\ \A j \in 1 .. k - 1 : a[j] = ss[j]
    BY <1>4, <2>8, <2>9, Prefix, Zenon
  <2>12. Len(b) = k - 1 /\ \A j \in 1 .. k - 1 : b[j] = tt[j]
    BY <2>8, <2>10, Prefix, Zenon
  <2>13. \A j \in 1 .. k - 1 : j \in 1 .. n
    OBVIOUS
  <2>14. \A j \in 1 .. Len(b) : Len(a[j]) = OutputsOf(b[j])
    BY <1>7, <2>11, <2>12, <2>13, Zenon
  <2>15. Len(FlattenSeq(a)) = OutputsOf(FlattenSeq(b))
    BY <2>11, <2>12, <2>14, FlattenBlockCounts, Zenon
  <2>16. /\ Len(FlattenSeq(a)) \in Nat
         /\ FlattenSeq(ss)[Len(FlattenSeq(a)) + (x + 1)] = ss[k][x + 1]
    <3>1. ASSUME NEW o \in 1 .. Len(ss[k])
          PROVE  Len(FlattenSeq(a)) \in Nat /\ FlattenSeq(ss)[Len(FlattenSeq(a)) + o] = ss[k][o]
      BY <1>4, <2>7, <2>9, FlattenAt, ZenonT(60)
    <3>. QED
      BY <2>7, <3>1, Zenon
  <2>17. FlatTxs(SubSeq(entries, 1, k - 1)) = FlattenSeq(b)
    BY <1>6, <2>8, <2>10, FlatBefore, Zenon
  <2>18. FlattenSeq(b) \in Seq(TxSet)
    BY FlattenType, Zenon
  <2>19. OutputsOf(Cat(FlattenSeq(b), h)) = OutputsOf(FlattenSeq(b)) + OutputsOf(h)
    BY <2>18, OutputsConcat, Zenon
  <2>20. AllTxs(entries[k].block, entries[k].txs) = t
    BY <1>0, <1>6, <2>1, TxsOfAre, Zenon
  <2>21. Extracted(entries)[k].index
           = FlatIndexes(entries)[OutputsOf(Cat(FlattenSeq(b), h)) + 1]
    <3>. DEFINE e(j) == LET txs == AllTxs(entries[j].block, entries[j].txs)
                            before == FlatTxs(SubSeq(entries, 1, j - 1)) \o SubSeq(txs, 1, FirstRingCt(txs) - 1)
                        IN [block |-> entries[j].block, txs |-> entries[j].txs,
                            index |-> IF FirstRingCt(txs) = 0 THEN None
                                      ELSE FlatIndexes(entries)[OutputsOf(before) + 1]]
    <3>1. Extracted(entries) = [j \in 1 .. n |-> e(j)]
      BY <1>0 DEF Extracted
    <3>2. Extracted(entries)[k] = e(k)
      <4>. HIDE DEF e
      <4>. QED
        BY <3>1, Zenon
    <3>3. e(k).index = IF FirstRingCt(t) = 0 THEN None
                       ELSE FlatIndexes(entries)[OutputsOf(FlatTxs(SubSeq(entries, 1, k - 1)) \o SubSeq(t, 1, FirstRingCt(t) - 1)) + 1]
      BY <2>20, Zenon
    <3>. QED
      BY <1>10, <2>1, <2>2, <2>3, <2>17, <3>2, <3>3, Zenon DEF Cat
  <2>22. PICK y \in Nat : y = Len(FlattenSeq(a))
    BY <2>16
  <2>23. (y + x) + 1 = y + (x + 1)
    OBVIOUS
  <2>24. Extracted(entries)[k].index = FlattenSeq(ss)[y + (x + 1)]
    BY <1>5, <2>5, <2>15, <2>19, <2>21, <2>22, <2>23, Zenon
  <2>25. Extracted(entries)[k].index = ss[k][x + 1]
    BY <2>16, <2>22, <2>24, Zenon
  <2>. QED
    BY <1>4, <2>1, <2>2, <2>3, <2>5, <2>25, Zenon
<1>. QED
  BY <1>0, <1>6, <1>9, <1>10, Zenon

---------------------------------------------------------------------------------
(* The index of a block on a chain. *)

LEMMA TotalZero ==
  ASSUME NEW s \in Seq(Nat), \A i \in 1 .. Len(s) : s[i] = 0
  PROVE  Total(s) = 0
<1>0. PICK n \in Nat : n = Len(s)
  OBVIOUS
<1>1. PICK f : f = [k \in 0 .. n |-> 0]
  OBVIOUS
<1>2. f \in [0 .. n -> Nat] /\ f[n] = 0
  BY <1>1
<1>3. Sums(f, s, n)
  BY <1>0, <1>1 DEF Sums
<1>. QED
  BY <1>0, <1>2, <1>3, TotalIs

\* The transactions of a chain before a block.
Below(c, k) == FlattenSeq([j \in 1 .. k - 1 |-> TxsAt(c, j)])

LEMMA RingCtBeforeIs ==
  ASSUME NEW c \in Chains, NEW k \in 1 .. Len(c), NEW i \in 1 .. Len(TxsAt(c, k)) + 1
  PROVE  /\ RingCtOutputsOf(Below(c, k)) \in Nat
         /\ RingCtBefore(c, k, i) = RingCtOutputsOf(Below(c, k)) + RingCtOutputsOf(SubSeq(TxsAt(c, k), 1, i - 1))
<1>1. c \in Seq(Blocks)
  BY ChainsAssumption
<1>2. PICK n \in Nat : n = Len(c)
  BY <1>1
<1>3. \A j \in 1 .. k - 1 : j \in 1 .. Len(c)
  BY <1>2
<1>4. \A j \in 1 .. k - 1 : TxsAt(c, j) \in Seq(TxSet)
  BY <1>3, TxsAtAre, Zenon
<1>5. [j \in 1 .. k - 1 |-> TxsAt(c, j)] \in Seq(Seq(TxSet))
  BY <1>2, <1>4
<1>6. PICK s \in Seq(TxSet) : s = Below(c, k)
  BY <1>5, FlattenType, Zenon DEF Below
<1>7. PICK a \in Seq(TxSet) : a = TxsAt(c, k)
  BY TxsAtAre, Zenon
<1>8. i - 1 \in 0 .. Len(a)
  BY <1>7
<1>9. PICK t \in Seq(TxSet) : t = SubSeq(a, 1, i - 1)
  BY <1>8, Prefix, Zenon
<1>10. RingCtBefore(c, k, i) = RingCtOutputsOf(Cat(s, t))
  BY <1>6, <1>7, <1>9, Zenon DEF RingCtBefore, Below, Cat
<1>. QED
  BY <1>6, <1>7, <1>9, <1>10, OutputsConcat, Zenon

\* The indexes of a block's RingCT outputs, from the first on, do not overflow.
LEMMA FirstIndexFits ==
  ASSUME NEW c \in Chains, NEW k \in 1 .. Len(c), FirstRingCt(TxsAt(c, k)) # 0
  PROVE  /\ RingCtBefore(c, k, FirstRingCt(TxsAt(c, k))) \in Nat
         /\ ~IndexOverflows(RingCtBefore(c, k, FirstRingCt(TxsAt(c, k))), TxsAt(c, k))
<1>1. PICK t \in Seq(TxSet) : t = TxsAt(c, k)
  BY TxsAtAre, Zenon
<1>2. PICK n \in Nat : n = Len(t)
  OBVIOUS
<1>3. PICK i \in 1 .. n : i = FirstRingCt(t) /\ \A j \in 1 .. i - 1 : t[j].version = 1 \/ t[j].outputs = 0
  BY <1>1, <1>2, FirstRingCtIs, Zenon
<1>4. i - 1 \in 0 .. Len(t)
  BY <1>2
<1>5. PICK h \in Seq(TxSet) : h = SubSeq(t, 1, i - 1)
  BY <1>4, Prefix, Zenon
<1>6. Len(h) = i - 1 /\ \A j \in 1 .. i - 1 : h[j] = t[j]
  BY <1>4, <1>5, Prefix, Zenon
<1>7. PICK m \in Nat : m = i - 1 /\ m = Len(h)
  BY <1>6
<1>8. \A j \in 1 .. m : h[j] \in TxSet /\ (h[j].version = 1 \/ h[j].outputs = 0)
  <2>1. \A j \in 1 .. m : h[j] \in TxSet
    BY <1>7
  <2>. QED
    BY <1>3, <1>6, <1>7, <2>1, Zenon
<1>9. \A j \in 1 .. m : RingCtOutputs[h[j]] = 0
  BY <1>8 DEF RingCtOutputs
<1>10. PICK z \in Seq(Nat) : z = Mapped(RingCtOutputs, h) /\ Len(z) = m /\ \A j \in 1 .. m : z[j] = RingCtOutputs[h[j]]
  <2>1. PICK z \in Seq(Nat) : z = Mapped(RingCtOutputs, h)
    BY OutputsAre, MappedAre, Zenon
  <2>2. Len(z) = Len(h) /\ \A j \in 1 .. Len(h) : z[j] = RingCtOutputs[h[j]]
    BY <2>1, OutputsAre, MappedAre, Zenon
  <2>. QED
    BY <1>7, <2>1, <2>2, Zenon
<1>11. RingCtOutputsOf(h) = 0
  <2>1. \A j \in 1 .. Len(z) : z[j] = 0
    BY <1>9, <1>10, Zenon
  <2>. QED
    BY <1>10, <2>1, TotalZero, CountsAre, Zenon
<1>12. i \in 1 .. Len(TxsAt(c, k)) + 1 /\ Len(TxsAt(c, k)) + 1 \in 1 .. Len(TxsAt(c, k)) + 1
  BY <1>1, <1>2
<1>13. PICK b \in Nat : b = RingCtOutputsOf(Below(c, k))
  BY <1>12, RingCtBeforeIs, Zenon
<1>14. RingCtBefore(c, k, i) = b + RingCtOutputsOf(h)
  BY <1>1, <1>5, <1>12, <1>13, RingCtBeforeIs, Zenon
<1>15. RingCtBefore(c, k, n + 1) = b + RingCtOutputsOf(t)
  <2>1. (n + 1) - 1 = n
    OBVIOUS
  <2>2. SubSeq(t, 1, n) = t
    BY <1>2, SubSeqFull, Zenon
  <2>3. RingCtBefore(c, k, n + 1) = b + RingCtOutputsOf(SubSeq(t, 1, (n + 1) - 1))
    BY <1>1, <1>2, <1>12, <1>13, RingCtBeforeIs, Zenon
  <2>. QED
    BY <2>1, <2>2, <2>3, Zenon
<1>16. RingCtBefore(c, k, n + 1) <= U64Max
  BY <1>1, <1>2, MinedAssumption, Zenon
<1>17. PICK x \in Nat : x = RingCtOutputsOf(t)
  BY RingCtOutputsType, Zenon
<1>18. RingCtBefore(c, k, i) = b
  BY <1>11, <1>14
<1>19. b + x <= U64Max
  BY <1>15, <1>16, <1>17, Zenon
<1>20. ~(b + x > U64Max)
  BY <1>19, NumbersAssumption
<1>. QED
  BY <1>1, <1>3, <1>17, <1>18, <1>20, Zenon DEF IndexOverflows

\* The index of a block on a chain.
IndexIn(c, k) ==
  IF FirstRingCt(TxsAt(c, k)) = 0 THEN None ELSE RingCtBefore(c, k, FirstRingCt(TxsAt(c, k)))

LEMMA IndexInIs ==
  ASSUME NEW c \in Chains, NEW k \in 1 .. Len(c)
  PROVE  IndexIn(c, k) =
           LET ringct == {j \in 1 .. Len(TxsAt(c, k)) : TxsAt(c, k)[j].version = 2 /\ TxsAt(c, k)[j].outputs # 0}
           IN IF ringct = {} THEN None ELSE RingCtBefore(c, k, CHOOSE j \in ringct : \A l \in ringct : j <= l)
<1>1. PICK t \in Seq(TxSet) : t = TxsAt(c, k)
  BY TxsAtAre, Zenon
<1>2. PICK n \in Nat : n = Len(t)
  OBVIOUS
<1>3. \A j \in 1 .. n : t[j].version = 2 <=> t[j].version # 1
  <2>1. \A j \in 1 .. n : t[j] \in TxSet
    BY <1>2
  <2>. QED
    BY <2>1 DEF TxSet
<1>. DEFINE R == {j \in 1 .. n : t[j].version = 2 /\ t[j].outputs # 0}
<1>4. FirstRingCt(t) = 0 <=> \A i \in 1 .. n : t[i].version = 1 \/ t[i].outputs = 0
  BY <1>2, FirstRingCtIs, Zenon
<1>5. CASE FirstRingCt(t) = 0
  <2>1. R = {}
    BY <1>3, <1>4, <1>5, Zenon
  <2>. QED
    BY <1>1, <1>2, <1>5, <2>1, Zenon DEF IndexIn
<1>6. CASE FirstRingCt(t) # 0
  <2>1. PICK i \in 1 .. n : /\ i = FirstRingCt(t) /\ t[i].outputs \in Nat \ {0} /\ t[i].version # 1
                            /\ \A j \in 1 .. i - 1 : t[j].version = 1 \/ t[j].outputs = 0
    BY <1>2, <1>6, FirstRingCtIs, Zenon
  <2>2. i \in R
    BY <1>3, <2>1
  <2>3. \A l \in R : i <= l
    <3>1. \A l \in 1 .. n : ~(i <= l) => l \in 1 .. i - 1
      OBVIOUS
    <3>. QED
      BY <1>3, <2>1, <3>1, Zenon
  <2>4. \A j \in R : (\A l \in R : j <= l) => j = i
    <3>1. \A j \in R : j \in 1 .. n
      OBVIOUS
    <3>2. \A j \in 1 .. n : i <= j /\ j <= i => j = i
      OBVIOUS
    <3>. HIDE DEF R
    <3>. QED
      BY <2>2, <2>3, <3>1, <3>2, Zenon
  <2>5. (CHOOSE j \in R : \A l \in R : j <= l) = i
    <3>. HIDE DEF R
    <3>. QED
      BY <2>2, <2>3, <2>4, Zenon
  <2>6. R # {}
    BY <2>2
  <2>7. IndexIn(c, k) = RingCtBefore(c, k, i)
    BY <1>1, <1>6, <2>1, Zenon DEF IndexIn
  <2>. QED
    BY <1>1, <1>2, <2>5, <2>6, <2>7, Zenon
<1>. QED
  BY <1>5, <1>6

\* Chains with a block in common have all below it in common, and its index.
LEMMA ChainsAgree ==
  ASSUME NEW c \in Chains, NEW d \in Chains, NEW k \in 1 .. Len(c), k \in 1 .. Len(d), c[k] = d[k]
  PROVE  (\A j \in 1 .. k : c[j] = d[j]) /\ IndexIn(c, k) = IndexIn(d, k)
<1>0. c \in Seq(Blocks) /\ d \in Seq(Blocks)
  BY ChainsAssumption
<1>1. k \in Nat /\ \A j \in 1 .. k : j \in 1 .. Len(c) /\ j \in 1 .. Len(d)
  BY <1>0
<1>. DEFINE S == {j \in 0 .. k - 1 : c[k - j] # d[k - j]}
<1>2. S = {}
  <2>. SUFFICES ASSUME S # {} PROVE FALSE
    OBVIOUS
  <2>1. S \in SUBSET Nat
    OBVIOUS
  <2>2. PICK j \in S : \A m \in S : j <= m
    <3>. HIDE DEF S
    <3>. QED
      BY <2>1, LeastNatural
  <2>3. j \in 0 .. k - 1 /\ j # 0
    <3>1. k - 0 = k
      BY <1>1
    <3>2. ~(c[k - 0] # d[k - 0])
      BY <3>1
    <3>. QED
      BY <3>2
  <2>4. j - 1 \in 0 .. k - 1 /\ ~(j <= j - 1)
    BY <1>1, <2>3
  <2>5. j - 1 \notin S
    <3>. HIDE DEF S
    <3>. QED
      BY <2>2, <2>4
  <2>6. PICK i \in 2 .. k : i = k - (j - 1) /\ i - 1 = k - j
    BY <1>1, <2>3
  <2>7. c[i] = d[i]
    BY <2>4, <2>5, <2>6
  <2>8. i \in 1 .. k /\ i # 1 /\ i - 1 \in 1 .. k
    BY <1>1
  <2>9. c[i].previous = c[i - 1].hash /\ d[i].previous = d[i - 1].hash
    BY <1>1, <2>8, ChainsAssumption, Zenon
  <2>10. c[i - 1] \in Blocks /\ d[i - 1] \in Blocks
    BY <1>1, <2>8, TxsAtAre, Zenon
  <2>11. c[i - 1] = d[i - 1]
    BY <2>7, <2>9, <2>10, BlocksAssumption, Zenon
  <2>. QED
    BY <2>6, <2>11
<1>3. ASSUME NEW j \in 1 .. k PROVE c[j] = d[j]
  <2>1. k - j \in 0 .. k - 1 /\ k - (k - j) = j
    BY <1>1
  <2>2. k - j \notin S
    BY <1>2
  <2>. QED
    BY <2>1, <2>2
<1>4. \A j \in 1 .. k : TxsAt(c, j) = TxsAt(d, j)
  BY <1>3, Zenon DEF TxsAt
<1>5. TxsAt(c, k) = TxsAt(d, k)
  BY Zenon DEF TxsAt
<1>6. \A j \in 1 .. k - 1 : j \in 1 .. k
  BY <1>1
<1>7. [j \in 1 .. k - 1 |-> TxsAt(c, j)] = [j \in 1 .. k - 1 |-> TxsAt(d, j)]
  BY <1>4, <1>6, Zenon
<1>8. \A i : RingCtBefore(c, k, i) = RingCtBefore(d, k, i)
  BY <1>5, <1>7, Zenon DEF RingCtBefore
<1>. QED
  BY <1>3, <1>5, <1>8, Zenon DEF IndexIn

\* A transaction of the daemon's chain is found there, with its indexes.
LEMMA IndexesAtPlace ==
  ASSUME chain \in Chains, NEW k \in 1 .. Len(chain), NEW i \in 1 .. Len(TxsAt(chain, k)),
         NEW id, id = TxsAt(chain, k)[i].id
  PROVE  Places(id) # {} /\ IndexesOnChain(id) = ChainIndexes[chain][k][i]
<1>1. k \in Places(id)
  BY Zenon DEF Places
<1>. DEFINE l == CHOOSE l \in Places(id) : TRUE
            j == CHOOSE j \in 1 .. Len(TxsAt(chain, l)) : TxsAt(chain, l)[j].id = id
<1>2. l \in Places(id)
  BY <1>1, Zenon
<1>3. l \in 1 .. Len(chain) /\ \E x \in 1 .. Len(TxsAt(chain, l)) : TxsAt(chain, l)[x].id = id
  <2>. HIDE DEF l
  <2>. QED
    BY <1>2, Zenon DEF Places
<1>4. j \in 1 .. Len(TxsAt(chain, l)) /\ TxsAt(chain, l)[j].id = id
  <2>. HIDE DEF l
  <2>. QED
    BY <1>3, Zenon
<1>5. IndexesOnChain(id) = ChainIndexes[chain][l][j]
  BY <1>1, Zenon DEF IndexesOnChain
<1>. HIDE DEF l, j
<1>6. k = l /\ i = j
  <2>1. \A x \in 1 .. Len(TxsAt(chain, k)), y \in 1 .. Len(TxsAt(chain, l)) :
          TxsAt(chain, k)[x].id = TxsAt(chain, l)[y].id => k = l /\ x = y
    BY <1>3, MinedAssumption, Zenon
  <2>2. TxsAt(chain, k)[i].id = TxsAt(chain, l)[j].id
    BY <1>4, Zenon
  <2>. QED
    BY <1>4, <2>1, <2>2, Zenon
<1>. QED
  BY <1>1, <1>5, <1>6, Zenon

\* What is extracted from the response of an honest daemon.
LEMMA HonestResponses ==
  ASSUME TypeOK, honest, NEW entries \in Responses
  PROVE  /\ EnoughIndexes(entries)
         /\ start < Len(chain) => entries # <<>>
         /\ \A k \in 1 .. Len(entries) :
              /\ start + k \in 1 .. Len(chain)
              /\ Extracted(entries)[k].block = chain[start + k]
              /\ Extracted(entries)[k].txs = Listed(chain[start + k])
              /\ Extracted(entries)[k].index = IndexIn(chain, start + k)
<1>0. chain \in Chains /\ chain \in Seq(Blocks) /\ start \in Nat
  BY ChainsAssumption DEF TypeOK
<1>. DEFINE entry(k) == [block |-> chain[start + k], txs |-> Listed(chain[start + k]),
                         indexes |-> FlattenSeq(ChainIndexes[chain][start + k])]
<1>1. PICK l \in Nat : l = Len(chain)
  BY <1>0
<1>2. PICK n \in IF start < l THEN 1 .. l - start ELSE {0} : entries = [k \in 1 .. n |-> entry(k)]
  <2>1. entries \in {[k \in 1 .. n |-> entry(k)] : n \in IF start < l THEN 1 .. l - start ELSE {0}}
    BY <1>1 DEF Responses
  <2>. HIDE DEF entry
  <2>. QED
    BY <2>1, Zenon
<1>3. n \in Nat /\ (\A k \in 1 .. n : start + k \in 1 .. l) /\ (start < l => n # 0)
  BY <1>0
<1>4. ASSUME NEW k \in 1 .. n
      PROVE  /\ entry(k).block = chain[start + k] /\ entry(k).txs = Listed(chain[start + k])
             /\ entry(k).indexes = FlattenSeq(ChainIndexes[chain][start + k])
  OBVIOUS
<1>. HIDE DEF entry
<1>5. Len(entries) = n /\ \A k \in 1 .. n : entries[k] = entry(k)
  BY <1>2, <1>3
<1>6. entries \in Seq(Entries)
  BY ResponsesAre, Zenon
<1>7. start < l => entries # <<>>
  BY <1>3, <1>5
<1>8. ASSUME NEW k \in 1 .. n PROVE TxsOf(entries)[k] = TxsAt(chain, start + k)
  BY <1>4, <1>5, <1>6, TxsOfAre, Zenon DEF TxsAt
<1>9. ASSUME NEW k \in 1 .. n PROVE Len(entries[k].indexes) = OutputsOf(TxsOf(entries)[k])
  <2>1. Len(FlattenSeq(ChainIndexes[chain][start + k])) = OutputsOf(TxsAt(chain, start + k))
    BY <1>0, <1>1, <1>3, BlockIndexes, Zenon
  <2>. QED
    BY <1>4, <1>5, <1>8, <2>1, Zenon
<1>10. /\ EnoughIndexes(entries)
       /\ \A k \in 1 .. n : FirstRingCt(TxsOf(entries)[k]) # 0 =>
            Extracted(entries)[k].index
              = entries[k].indexes[OutputsOf(SubSeq(TxsOf(entries)[k], 1, FirstRingCt(TxsOf(entries)[k]) - 1)) + 1]
  BY <1>5, <1>6, <1>9, EntriesIndexes, Zenon
<1>11. \A k \in 1 .. n : /\ Extracted(entries)[k].block = entries[k].block
                         /\ Extracted(entries)[k].txs = entries[k].txs
                         /\ IsIndexed(Extracted(entries)[k])
  BY <1>5, <1>6, <1>10, ExtractedIs, Zenon
<1>12. ASSUME NEW k \in 1 .. n PROVE Extracted(entries)[k].index = IndexIn(chain, start + k)
  <2>1. PICK t \in Seq(TxSet) : t = TxsAt(chain, start + k)
    BY <1>0, <1>1, <1>3, TxsAtAre, Zenon
  <2>2. AllTxs(Extracted(entries)[k].block, Extracted(entries)[k].txs) = t
    BY <1>4, <1>5, <1>11, <2>1, Zenon DEF TxsAt
  <2>3. CASE FirstRingCt(t) = 0
    <3>1. Extracted(entries)[k].index = None
      BY <1>11, <2>2, <2>3, Zenon DEF IsIndexed
    <3>. QED
      BY <2>1, <2>3, <3>1, Zenon DEF IndexIn
  <2>4. CASE FirstRingCt(t) # 0
    <3>1. PICK i \in 1 .. Len(t) : i = FirstRingCt(t) /\ t[i].outputs \in Nat \ {0} /\ t[i].version # 1
      BY <2>4, FirstRingCtIs, Zenon
    <3>2. t[i].outputs # 0
      BY <3>1
    <3>3. Extracted(entries)[k].index = entries[k].indexes[OutputsOf(SubSeq(t, 1, i - 1)) + 1]
      BY <1>8, <1>10, <2>1, <2>4, <3>1, Zenon
    <3>4. FlattenSeq(ChainIndexes[chain][start + k])[OutputsOf(SubSeq(t, 1, i - 1)) + 1] = RingCtBefore(chain, start + k, i)
      BY <1>0, <1>1, <1>3, <2>1, <3>1, <3>2, BlockIndexes, Zenon
    <3>. QED
      BY <1>4, <1>5, <2>1, <2>4, <3>1, <3>3, <3>4, Zenon DEF IndexIn
  <2>. QED
    BY <2>3, <2>4
<1>. QED
  BY <1>1, <1>3, <1>4, <1>5, <1>7, <1>10, <1>11, <1>12, ZenonT(60)

---------------------------------------------------------------------------------
(* The second invariant: what an honest daemon's blocks are. *)

OnChain(block, c) == \E k \in 1 .. Len(c) : block = c[k]
FromChain(entry, c) == \E k \in 1 .. Len(c) : entry.block = c[k] /\ entry.index = IndexIn(c, k)

\* The chains the blocks are of, with their indexes.
Sourced ==
  honest =>
    /\ chain \in served
    /\ ~disturbed => served = {chain} /\ \A i \in 1 .. Len(pending) : OnChain(pending[i], chain)
    /\ (alone => ~disturbed) => \A i \in 1 .. Len(res) : \E c \in served : FromChain(res[i], c)

\* The transactions are those asked for, as far as they have been received.
Received(txs, hashes) == Len(txs) <= Len(hashes) /\ \A i \in 1 .. Len(txs) : txs[i] = Tx[hashes[i]]
Whole == honest => \A i \in 1 .. Len(res) : res[i].txs = Listed(res[i].block)
Receiving ==
  honest =>
    /\ pc \notin {"expand", "err"} => expanding = <<>>
    /\ pc = "expand" => Received(expanding, pending[1].transactions)
    /\ pc \notin {"full", "err"} => full = <<>>
    /\ pc = "full" => Received(full, V1Hashes(res[checked + 1]))

Named ==
  honest /\ request.kind = "hash" =>
    \A i \in 1 .. Len(res) + Len(pending) : BlockAt(i).hash = request.hash

\* The fetch goes on until all of the range is there.
Counted ==
  /\ pc = "expand" /\ request.kind = "range" /\ ~(first = 0 /\ res = <<>>) =>
       first + Len(res) + Len(pending) = last + 1
  /\ pc = "validate" => res # <<>> \/ request.kind = "range"
  /\ pc = "validate" /\ request.kind = "range" => first + Len(res) > last

Told == Sourced /\ Whole /\ Receiving /\ Named /\ Counted

\* A step which leaves the blocks as they are.
LEMMA SameKeepsSourced ==
  ASSUME Told, UNCHANGED <<request, res, pending, honest, chain, served, alone>>, disturbed' \in {disturbed, TRUE}
  PROVE  Sourced' /\ Whole' /\ Named'
<1>1. Sourced'
  BY Zenon DEF Told, Sourced
<1>2. Whole'
  BY Zenon DEF Told, Whole
<1>3. Named'
  BY Zenon DEF Told, Named, BlockAt
<1>. QED
  BY <1>1, <1>2, <1>3

LEMMA FailureKeepsTold ==
  ASSUME Told, pc' = "err", UNCHANGED <<request, res, pending, honest, chain, served, alone>>,
         disturbed' \in {disturbed, TRUE}
  PROVE  Told'
<1>1. Sourced' /\ Whole' /\ Named'
  BY SameKeepsSourced, Zenon
<1>2. Receiving' /\ Counted'
  BY DEF Receiving, Counted
<1>. QED
  BY <1>1, <1>2 DEF Told

LEMMA InitTold == Init => Told
<1>. SUFFICES ASSUME Init PROVE Told
  OBVIOUS
<1>1. Len(res) = 0 /\ Len(pending) = 0 /\ expanding = <<>> /\ full = <<>> /\ served = {chain}
      /\ pc \in {"genesis", "bin", "blocks"}
  BY DEF Init
<1>2. Sourced /\ Whole /\ Named
  BY <1>1 DEF Sourced, Whole, Named
<1>3. Receiving /\ Counted
  BY <1>1 DEF Receiving, Counted
<1>. QED
  BY <1>2, <1>3 DEF Told

LEMMA ChainChangesKeepsTold == Told /\ ChainChanges => Told'
<1>. SUFFICES ASSUME Told, ChainChanges PROVE Told'
  OBVIOUS
<1>0. /\ disturbed' = TRUE /\ served' = served \cup {chain'}
      /\ UNCHANGED <<request, res, pending, expanding, pc, full, checked, alone, honest>>
  BY DEF ChainChanges
<1>1. Sourced'
  <2>. SUFFICES ASSUME honest, ~alone, NEW i \in 1 .. Len(res) PROVE \E c \in served' : FromChain(res'[i], c)
    BY <1>0, Zenon DEF Sourced
  <2>1. PICK c \in served : FromChain(res[i], c)
    BY Zenon DEF Told, Sourced
  <2>2. FromChain(res'[i], c)
    BY <1>0, <2>1, Zenon
  <2>. QED
    BY <1>0, <2>2, Zenon
<1>2. Whole' /\ Named' /\ Receiving' /\ Counted'
  BY <1>0, Zenon DEF Told, Whole, Named, Receiving, Counted, BlockAt, Received, first, last
<1>. QED
  BY <1>1, <1>2 DEF Told

LEMMA RequestFailsKeepsTold == Told /\ RequestFails => Told'
  BY FailureKeepsTold DEF RequestFails, Fails, daemonVars

LEMMA MethodNotApplicableKeepsTold == Told /\ MethodNotApplicable => Told'
<1>. SUFFICES ASSUME Told, MethodNotApplicable PROVE Told'
  OBVIOUS
<1>0. /\ pc = "bin" /\ pc' = "blocks"
      /\ UNCHANGED <<request, res, pending, expanding, full, checked, honest, chain, served, alone, disturbed>>
  BY DEF MethodNotApplicable, daemonVars, historyVars
<1>1. Sourced' /\ Whole' /\ Named'
  BY <1>0, SameKeepsSourced, Zenon
<1>2. Receiving' /\ Counted'
  BY <1>0 DEF Told, Receiving, Counted
<1>. QED
  BY <1>1, <1>2 DEF Told

LEMMA ValidateKeepsTold == Told /\ Validate => Told'
<1>. SUFFICES ASSUME Told, Validate PROVE Told'
  OBVIOUS
<1>0. /\ pc = "validate" /\ pc' \in {"check", "err"}
      /\ UNCHANGED <<request, res, pending, expanding, full, checked, honest, chain, served, alone, disturbed>>
  BY DEF Validate, daemonVars, historyVars
<1>1. Sourced' /\ Whole' /\ Named'
  BY <1>0, SameKeepsSourced, Zenon
<1>2. Receiving' /\ Counted'
  BY <1>0 DEF Told, Receiving, Counted
<1>. QED
  BY <1>1, <1>2 DEF Told

LEMMA ReceivedNone ==
  ASSUME NEW T, NEW hashes \in Seq(T)
  PROVE  Received(<<>>, hashes)
  BY DEF Received

LEMMA ValidateScannableBlockKeepsTold == Inv /\ Told /\ ValidateScannableBlock => Told'
<1>. SUFFICES ASSUME Inv, Told, ValidateScannableBlock PROVE Told'
  OBVIOUS
<1>0. /\ pc = "check" /\ pc' \in {"ok", "err", "check", "full"}
      /\ UNCHANGED <<request, res, pending, expanding, full, honest, chain, served, alone, disturbed>>
  BY DEF ValidateScannableBlock, daemonVars, historyVars, Fails
<1>1. Sourced' /\ Whole' /\ Named'
  BY <1>0, SameKeepsSourced, Zenon
<1>2. Counted'
  BY <1>0 DEF Counted
<1>3. Receiving'
  <2>1. CASE pc' # "full"
    BY <1>0, <2>1 DEF Told, Receiving
  <2>2. CASE pc' = "full"
    <3>1. checked < Len(res) /\ VerifyAsPossible(res[checked + 1]) /\ UNCHANGED checked
      BY <1>0, <2>2 DEF ValidateScannableBlock, Fails
    <3>2. res[checked + 1] \in Scannable
      BY <3>1 DEF Inv, TypeOK
    <3>3. V1Hashes(res[checked + 1]) \in Seq(DOMAIN Tx)
      BY <3>1, <3>2, V1Are, Zenon
    <3>4. Received(<<>>, V1Hashes(res[checked + 1]))
      BY <3>3, ReceivedNone, Zenon
    <3>5. honest => full = <<>> /\ expanding = <<>>
      BY <1>0 DEF Told, Receiving
    <3>6. honest => Received(full, V1Hashes(res[checked + 1]))'
      <4>1. V1Hashes(res[checked + 1])' = V1Hashes(res[checked + 1])
        BY <1>0, <3>1, Zenon
      <4>. QED
        BY <1>0, <3>4, <3>5, <4>1, Zenon DEF Received
    <3>. QED
      BY <1>0, <2>2, <3>5, <3>6 DEF Receiving
  <2>. QED
    BY <2>1, <2>2
<1>. QED
  BY <1>1, <1>2, <1>3 DEF Told

LEMMA CompareFullKeepsTold == Told /\ CompareFull => Told'
<1>. SUFFICES ASSUME Told, CompareFull PROVE Told'
  OBVIOUS
<1>0. /\ pc = "full" /\ pc' \in {"check", "err"} /\ full' = <<>>
      /\ UNCHANGED <<request, res, pending, expanding, honest, chain, served, alone, disturbed>>
  BY DEF CompareFull, daemonVars, historyVars, Fails
<1>1. Sourced' /\ Whole' /\ Named'
  BY <1>0, SameKeepsSourced, Zenon
<1>2. Receiving' /\ Counted'
  BY <1>0 DEF Told, Receiving, Counted
<1>. QED
  BY <1>1, <1>2 DEF Told

\* An honest daemon answers with the transactions asked for, and misses those not on its chain.
LEMMA HonestReplies ==
  ASSUME honest, NEW ids \in Seq(DOMAIN Tx), NEW pruned, NEW reply \in TransactionReplies(ids, pruned)
  PROVE  /\ Len(reply.txs) = Len(ids)
         /\ \A i \in 1 .. Len(ids) : reply.txs[i] = Tx[ids[i]]
         /\ reply.missed => \E i \in 1 .. Len(ids) : Places(ids[i]) = {}
<1>0. PICK n \in Nat : n = Len(ids)
  OBVIOUS
<1>1. PICK m \in {FALSE, \E i \in 1 .. n : Places(ids[i]) = {}} :
        reply = [missed |-> m, txs |-> [i \in 1 .. n |-> Tx[ids[i]]]]
  BY <1>0, Zenon DEF TransactionReplies
<1>2. reply.txs = [i \in 1 .. n |-> Tx[ids[i]]] /\ reply.missed = m
  BY <1>1, Zenon
<1>3. PICK t : t = [i \in 1 .. n |-> Tx[ids[i]]]
  OBVIOUS
<1>4. Len(t) = n /\ \A i \in 1 .. n : t[i] = Tx[ids[i]]
  BY <1>3
<1>5. m => \E i \in 1 .. n : Places(ids[i]) = {}
  BY <1>1, Zenon
<1>. QED
  BY <1>0, <1>2, <1>3, <1>4, <1>5, Zenon

LEMMA NextHashesFollow ==
  ASSUME NEW T, NEW hashes \in Seq(T), NEW n \in Nat, n <= Len(hashes)
  PROVE  /\ Len(NextHashes(hashes, n)) \in Nat /\ n + Len(NextHashes(hashes, n)) <= Len(hashes)
         /\ \A i \in 1 .. Len(NextHashes(hashes, n)) :
              n + i \in 1 .. Len(hashes) /\ NextHashes(hashes, n)[i] = hashes[n + i]
<1>1. PICK m \in Nat : m = Len(hashes)
  OBVIOUS
<1>2. PICK e \in Nat : e = (IF n + TransactionsLimit <= m THEN n + TransactionsLimit ELSE m) /\ e <= m /\ n <= e
  BY <1>1, NumbersAssumption
<1>3. NextHashes(hashes, n) = SubSeq(hashes, n + 1, e)
  BY <1>1, <1>2 DEF NextHashes
<1>4. /\ Len(SubSeq(hashes, n + 1, e)) = e - n
      /\ \A i \in 1 .. e - n : n + i \in 1 .. m /\ SubSeq(hashes, n + 1, e)[i] = hashes[n + i]
  <2>1. \A i \in n + 1 .. e : i \in 1 .. m
    BY <1>2
  <2>2. SubSeq(hashes, n + 1, e) = [i \in 1 .. e - n |-> hashes[n + i]]
    BY <1>1, <1>2, <2>1
  <2>3. \A i \in 1 .. e - n : n + i \in 1 .. m
    BY <1>2
  <2>4. PICK d \in Nat : d = e - n
    <3>1. e - n \in Nat
      BY <1>2
    <3>. QED
      BY <3>1, Zenon
  <2>5. PICK q : q = [i \in 1 .. d |-> hashes[n + i]]
    OBVIOUS
  <2>6. Len(q) = d /\ \A i \in 1 .. d : q[i] = hashes[n + i]
    BY <2>5
  <2>. QED
    BY <2>2, <2>3, <2>4, <2>5, <2>6, Zenon
<1>5. PICK l \in Nat : l = e - n /\ n + l <= m
  BY <1>2
<1>. QED
  BY <1>1, <1>3, <1>4, <1>5, Zenon

\* The next transactions of an honest daemon go on with those received.
LEMMA ReceivedGrows ==
  ASSUME honest, NEW S, NEW txs \in Seq(S), NEW hashes \in Seq(DOMAIN Tx), Received(txs, hashes), NEW pruned,
         NEW reply \in TransactionReplies(NextHashes(hashes, Len(txs)), pruned), reply.txs \in Seq(S)
  PROVE  Received(txs \o reply.txs, hashes)
<1>0. PICK n \in Nat : n = Len(txs) /\ n <= Len(hashes)
  BY DEF Received
<1>1. PICK ids \in Seq(DOMAIN Tx) : ids = NextHashes(hashes, n)
  BY NextHashesAre, Zenon
<1>2. /\ n + Len(ids) <= Len(hashes)
      /\ \A i \in 1 .. Len(ids) : ids[i] = hashes[n + i]
  BY <1>0, <1>1, NextHashesFollow, Zenon
<1>3. Len(reply.txs) = Len(ids) /\ \A i \in 1 .. Len(ids) : reply.txs[i] = Tx[ids[i]]
  <2>1. reply \in TransactionReplies(ids, pruned)
    BY <1>0, <1>1, Zenon
  <2>. QED
    BY <2>1, HonestReplies, ZenonT(60)
<1>4. PICK r \in Seq(S) : r = reply.txs
  OBVIOUS
<1>5. PICK m \in Nat : m = Len(ids) /\ m = Len(r)
  BY <1>3, <1>4
<1>6. PICK u \in Seq(S) : u = Cat(txs, r)
  BY CatIs, Zenon
<1>7. Len(u) = n + m /\ \A i \in 1 .. n : u[i] = txs[i]
  BY <1>0, <1>5, <1>6, CatIs, ZenonT(60)
<1>8. \A i \in 1 .. m : u[n + i] = r[i]
  <2>1. ASSUME NEW i \in 1 .. Len(r) PROVE Cat(txs, r)[Len(txs) + i] = r[i]
    BY CatSecond, Zenon
  <2>. QED
    BY <1>0, <1>5, <1>6, <2>1, Zenon
<1>9. ASSUME NEW i \in 1 .. n + m PROVE u[i] = Tx[hashes[i]]
  <2>1. i \in 1 .. n \/ \E j \in 1 .. m : i = n + j
    <3>1. ~(i <= n) => i - n \in 1 .. m /\ i = n + (i - n)
      OBVIOUS
    <3>. QED
      BY <3>1
  <2>2. CASE i \in 1 .. n
    BY <1>0, <1>7, <2>2, Zenon DEF Received
  <2>3. ASSUME NEW j \in 1 .. m, i = n + j PROVE u[i] = Tx[hashes[i]]
    BY <1>2, <1>3, <1>4, <1>5, <1>8, <2>3, ZenonT(60)
  <2>. QED
    BY <2>1, <2>2, <2>3, Zenon
<1>10. Len(u) <= Len(hashes)
  BY <1>2, <1>5, <1>7, Zenon
<1>11. Received(u, hashes)
  BY <1>7, <1>9, <1>10, Zenon DEF Received
<1>. QED
  BY <1>4, <1>6, <1>11, Zenon DEF Cat

LEMMA ExpandTransactionsKeepsTold == Inv /\ Told /\ ExpandTransactions => Told'
<1>. SUFFICES ASSUME Inv, Told, ExpandTransactions PROVE Told'
  OBVIOUS
<1>0. /\ pc = "expand" /\ pending # <<>> /\ pending \in Seq(Blocks) /\ expanding \in Seq(TxSet)
      /\ UNCHANGED <<request, res, pending, full, checked, honest, chain, served, alone, disturbed>>
  BY DEF ExpandTransactions, daemonVars, historyVars, Inv, Progress, TypeOK
<1>1. pending[1] \in Blocks
  BY <1>0
<1>2. PICK hashes \in Seq(DOMAIN Tx) : hashes = pending[1].transactions
  BY <1>1, BlocksAssumption
<1>3. PICK reply \in TransactionReplies(NextHashes(hashes, Len(expanding)), TRUE) :
        \/ expanding' = expanding \o reply.txs /\ UNCHANGED pc
        \/ Fails
  BY <1>2, Zenon DEF ExpandTransactions
<1>4. CASE Fails
  BY <1>0, <1>4, FailureKeepsTold DEF Fails
<1>5. CASE expanding' = expanding \o reply.txs /\ UNCHANGED pc
  <2>1. Sourced' /\ Whole' /\ Named'
    BY <1>0, SameKeepsSourced, Zenon
  <2>2. Counted'
    BY <1>0, <1>5, Zenon DEF Told, Counted, first, last
  <2>3. ASSUME honest PROVE Received(expanding', hashes)
    <3>1. Len(expanding) \in Nat
      BY <1>0
    <3>2. reply.txs \in Seq(TxSet)
      BY <3>1, NextHashesAre, RepliesAre, Zenon
    <3>3. Received(expanding, hashes)
      BY <1>0, <1>2, <2>3, Zenon DEF Told, Receiving
    <3>4. Received(expanding \o reply.txs, hashes)
      BY <1>0, <2>3, <3>2, <3>3, ReceivedGrows, Zenon
    <3>. QED
      BY <1>5, <3>4, Zenon
  <2>4. Receiving'
    <3>1. pc' = "expand" /\ (honest => full = <<>>)
      BY <1>0, <1>5 DEF Told, Receiving
    <3>2. honest => Received(expanding', pending'[1].transactions)
      BY <1>0, <1>2, <2>3, Zenon
    <3>. QED
      BY <1>0, <3>1, <3>2 DEF Receiving
  <2>. QED
    BY <2>1, <2>2, <2>4 DEF Told
<1>. QED
  BY <1>3, <1>4, <1>5

LEMMA FullTransactionsKeepsTold == Inv /\ Told /\ FullTransactions => Told'
<1>. SUFFICES ASSUME Inv, Told, FullTransactions PROVE Told'
  OBVIOUS
<1>0. /\ pc = "full" /\ checked < Len(res) /\ VerifyAsPossible(res[checked + 1]) /\ checked \in Nat
      /\ res \in Seq(Scannable) /\ full \in Seq(TxSet \cup {None})
      /\ UNCHANGED <<request, res, pending, expanding, checked, honest, chain, served, alone, disturbed>>
  BY DEF FullTransactions, daemonVars, historyVars, Inv, Verified, TypeOK
<1>1. res[checked + 1] \in Scannable
  BY <1>0
<1>2. PICK hashes \in Seq(DOMAIN Tx) : hashes = V1Hashes(res[checked + 1])
  BY <1>0, <1>1, V1Are, Zenon
<1>3. PICK reply \in TransactionReplies(NextHashes(hashes, Len(full)), FALSE) :
        \/ full' = full \o reply.txs /\ UNCHANGED pc
        \/ Fails
  BY <1>2, Zenon DEF FullTransactions
<1>4. CASE Fails
  BY <1>0, <1>4, FailureKeepsTold DEF Fails
<1>5. CASE full' = full \o reply.txs /\ UNCHANGED pc
  <2>1. Sourced' /\ Whole' /\ Named'
    BY <1>0, SameKeepsSourced, Zenon
  <2>2. Counted'
    BY <1>0, <1>5 DEF Counted
  <2>3. ASSUME honest PROVE Received(full', hashes)
    <3>1. Len(full) \in Nat
      BY <1>0
    <3>2. reply.txs \in Seq(TxSet \cup {None})
      BY <3>1, NextHashesAre, RepliesAre, Zenon
    <3>3. Received(full, hashes)
      BY <1>0, <1>2, <2>3, Zenon DEF Told, Receiving
    <3>4. Received(full \o reply.txs, hashes)
      BY <1>0, <2>3, <3>2, <3>3, ReceivedGrows, Zenon
    <3>. QED
      BY <1>5, <3>4, Zenon
  <2>4. Receiving'
    <3>1. pc' = "full" /\ (honest => expanding = <<>>)
      BY <1>0, <1>5 DEF Told, Receiving
    <3>2. honest => Received(full', V1Hashes(res[checked + 1])')
      <4>1. V1Hashes(res[checked + 1])' = hashes
        BY <1>0, <1>2, Zenon
      <4>. QED
        BY <2>3, <4>1, Zenon
    <3>. QED
      BY <1>0, <3>1, <3>2 DEF Receiving
  <2>. QED
    BY <2>1, <2>2, <2>4 DEF Told
<1>. QED
  BY <1>3, <1>4, <1>5

LEMMA NextAloneIs ==
  ASSUME Inv, pc \in {"genesis", "blocks"}
  PROVE  NextAlone \in Nat /\ NextAlone = first + Len(res) + Len(pending)
<1>0. first \in Nat /\ start \in Nat
  BY RequestIs DEF Inv, TypeOK
<1>1. PICK m \in Nat, n \in Nat : m = Len(res) /\ n = Len(pending)
  BY DEF Inv, TypeOK
<1>2. pc = "genesis" => first = 0 /\ m = 0 /\ n = 0
  BY <1>1 DEF Inv, Progress
<1>3. pc = "blocks" /\ request.kind # "range" => m = 0 /\ n = 0
  BY <1>1 DEF Inv, Progress
<1>4. pc = "blocks" /\ request.kind = "range" => start = first + m
  BY <1>1 DEF Inv, Progress
<1>5. NextAlone = first + m + n
  BY <1>0, <1>1, <1>2, <1>3, <1>4 DEF NextAlone
<1>. QED
  BY <1>0, <1>1, <1>5

\* A block fetched alone from an honest daemon which stays on its chain is of that chain.
LEMMA HeldOnChain ==
  ASSUME TypeOK, NEW block \in BlocksHeld, NextAlone \in Nat
  PROVE  /\ served = {chain} => OnChain(block, chain)
         /\ request.kind = "hash" => block.hash = request.hash
<1>1. CASE request.kind = "hash"
  <2>1. PICK c \in served : block \in {b \in {c[i] : i \in 1 .. Len(c)} : b.hash = request.hash}
    BY <1>1 DEF BlocksHeld
  <2>2. block.hash = request.hash /\ \E i \in 1 .. Len(c) : block = c[i]
    BY <2>1
  <2>3. served = {chain} => c = chain
    OBVIOUS
  <2>. QED
    BY <2>2, <2>3, Zenon DEF OnChain
<1>2. CASE request.kind # "hash"
  <2>1. NextAlone < Len(chain) /\ block = chain[NextAlone + 1]
    BY <1>2 DEF BlocksHeld
  <2>2. chain \in Seq(Blocks)
    BY ChainsAssumption DEF TypeOK
  <2>3. NextAlone + 1 \in 1 .. Len(chain)
    BY <2>1, <2>2
  <2>. QED
    BY <1>2, <2>1, <2>3, Zenon DEF OnChain
<1>. QED
  BY <1>1, <1>2

LEMMA FetchBlockKeepsTold == Inv /\ Inv' /\ Told /\ FetchBlock => Told'
<1>. SUFFICES ASSUME Inv, Inv', Told, FetchBlock PROVE Told'
  OBVIOUS
<1>0. /\ pc \in {"genesis", "blocks"} /\ TypeOK
      /\ UNCHANGED <<request, res, expanding, full, checked, honest, chain, served, alone, disturbed>>
  BY DEF FetchBlock, daemonVars, historyVars, Inv
<1>1. CASE Fails /\ UNCHANGED pending
  BY <1>0, <1>1, FailureKeepsTold DEF Fails
<1>2. ASSUME NEW block \in IF honest THEN BlocksHeld ELSE {e.block : e \in AnyEntries},
             pending' = Append(pending, block), pc' = IF NextAlone = LastAlone THEN "expand" ELSE pc
      PROVE  Told'
  <2>0. first \in Nat /\ last \in Nat
    BY <1>0, RequestIs
  <2>1. PICK m \in Nat, n \in Nat : m = Len(res) /\ n = Len(pending)
    BY DEF Inv, TypeOK
  <2>2. NextAlone \in Nat /\ NextAlone = first + m + n
    BY <1>0, <2>1, NextAloneIs, Zenon
  <2>3. /\ Len(pending') = n + 1 /\ pending'[n + 1] = block
        /\ \A i \in 1 .. n : pending'[i] = pending[i]
    BY <1>0, <1>2, <2>1 DEF TypeOK
  <2>4. ASSUME honest
        PROVE  /\ served = {chain} => OnChain(block, chain)
               /\ request.kind = "hash" => block.hash = request.hash
    BY <1>0, <1>2, <2>2, <2>4, HeldOnChain, Zenon
  <2>5. Sourced'
    <3>1. ASSUME honest, ~disturbed, NEW i \in 1 .. n + 1 PROVE OnChain(pending'[i], chain)
      <4>1. CASE i \in 1 .. n
        BY <2>1, <2>3, <3>1, <4>1, Zenon DEF Told, Sourced
      <4>2. CASE i = n + 1
        <5>1. served = {chain}
          BY <3>1 DEF Told, Sourced
        <5>. QED
          BY <2>3, <2>4, <3>1, <4>2, <5>1, Zenon
      <4>. QED
        BY <4>1, <4>2
    <3>. QED
      BY <1>0, <2>3, <3>1, Zenon DEF Told, Sourced
  <2>6. Whole'
    BY <1>0, Zenon DEF Told, Whole
  <2>7. Named'
    <3>. SUFFICES ASSUME honest, request.kind = "hash", NEW i \in 1 .. m + (n + 1)
                  PROVE  BlockAt(i)'.hash = request.hash
      BY <1>0, <2>1, <2>3 DEF Named
    <3>1. CASE i \in 1 .. m + n
      <4>1. BlockAt(i).hash = request.hash
        BY <2>1, <3>1 DEF Told, Named
      <4>2. i <= m \/ i - m \in 1 .. n
        BY <3>1
      <4>3. BlockAt(i)' = BlockAt(i)
        BY <1>0, <2>1, <2>3, <4>2 DEF BlockAt
      <4>. QED
        BY <4>1, <4>3
    <3>2. CASE i = m + n + 1
      <4>1. i - m = n + 1 /\ ~(i <= m)
        BY <3>2
      <4>2. BlockAt(i)' = block
        BY <1>0, <2>1, <2>3, <4>1 DEF BlockAt
      <4>. QED
        BY <2>4, <4>2
    <3>. QED
      BY <3>1, <3>2
  <2>8. Receiving'
    <3>1. honest => expanding = <<>> /\ full = <<>>
      BY <1>0 DEF Told, Receiving
    <3>2. pc' \in {"genesis", "blocks", "expand"}
      BY <1>0, <1>2
    <3>3. pending'[1] \in Blocks
      <4>1. pending' \in Seq(Blocks)
        BY DEF Inv, TypeOK
      <4>. QED
        BY <2>3, <4>1
    <3>4. pending'[1].transactions \in Seq(DOMAIN Tx)
      BY <3>3, BlocksAssumption
    <3>5. Received(<<>>, pending'[1].transactions)
      BY <3>4, ReceivedNone, Zenon
    <3>. QED
      BY <1>0, <3>1, <3>2, <3>5 DEF Receiving
  <2>9. Counted'
    <3>1. CASE pc' = "expand"
      <4>1. NextAlone = LastAlone
        BY <1>0, <1>2, <3>1
      <4>2. pc = "genesis" => first = 0 /\ res = <<>>
        BY DEF Inv, Progress
      <4>3. pc = "blocks" => first + m + n = last
        BY <2>2, <4>1 DEF LastAlone
      <4>4. ~(first = 0 /\ res = <<>>) => first + Len(res') + Len(pending') = last + 1
        BY <1>0, <2>0, <2>1, <2>3, <4>2, <4>3
      <4>. QED
        BY <1>0, <3>1, <4>4 DEF Counted, first, last
    <3>2. CASE pc' # "expand"
      BY <1>0, <1>2, <3>2 DEF Counted
    <3>. QED
      BY <3>1, <3>2
  <2>. QED
    BY <2>5, <2>6, <2>7, <2>8, <2>9 DEF Told
<1>. QED
  BY <1>1, <1>2, Zenon DEF FetchBlock

LEMMA BlocksBinKeepsTold == Inv /\ Told /\ BlocksBin => Told'
<1>. SUFFICES ASSUME Inv, Told, BlocksBin PROVE Told'
  OBVIOUS
<1>0. /\ pc = "bin" /\ TypeOK
      /\ UNCHANGED <<request, pending, expanding, full, checked, honest, chain, served, alone, disturbed>>
  BY DEF BlocksBin, daemonVars, historyVars, Inv
<1>1. /\ first \in Nat /\ last \in Nat /\ start \in Nat /\ res \in Seq(Scannable)
      /\ request.kind = "range" /\ start = first + Len(res)
  BY <1>0, RequestIs DEF Inv, Progress, TypeOK
<1>2. CASE start > last /\ pc' = "validate" /\ UNCHANGED <<res, start>>
  <2>1. Sourced' /\ Whole' /\ Named'
    BY <1>0, <1>2, SameKeepsSourced, Zenon
  <2>2. Receiving' /\ Counted'
    BY <1>0, <1>1, <1>2 DEF Told, Receiving, Counted, first, last
  <2>. QED
    BY <2>1, <2>2 DEF Told
<1>3. ASSUME start <= last, NEW entries \in Responses, BlocksReceived(entries) PROVE Told'
  <2>1. CASE Fails /\ UNCHANGED <<res, start>>
    BY <1>0, <2>1, FailureKeepsTold DEF Fails
  <2>2. CASE /\ EnoughIndexes(entries) /\ ~ZeroBlocks(entries)
             /\ res' = res \o WantedBlocks(Extracted(entries))
             /\ start' = start + Len(WantedBlocks(entries))
             /\ pc' = IF start' > last THEN "validate" ELSE "bin"
    <3>1. PICK m \in Nat : m = Len(res)
      BY <1>1
    <3>2. PICK l \in 1 .. Len(entries) :
            /\ start' = start + l /\ Len(res') = m + l
            /\ \A i \in 1 .. m : res'[i] = res[i]
            /\ \A k \in 1 .. l : res'[m + k] = Extracted(entries)[k]
      BY <1>0, <1>3, <2>2, <3>1, BlocksAdded, Zenon
    <3>3. entries \in Seq(Entries)
      BY <1>0, ResponsesAre, Zenon
    <3>4. l \in Nat
      BY <3>3
    <3>5. ASSUME NEW i \in 1 .. m + l PROVE i \in 1 .. m \/ \E k \in 1 .. l : i = m + k
      <4>1. ~(i <= m) => i - m \in 1 .. l /\ i = m + (i - m)
        BY <3>4
      <4>. QED
        BY <4>1
    <3>6. \A k \in 1 .. l : k \in 1 .. Len(entries)
      BY <3>3
    <3>7. ASSUME honest, NEW k \in 1 .. l
          PROVE  FromChain(res'[m + k], chain) /\ res'[m + k].txs = Listed(res'[m + k].block)
      <4>1. /\ start + k \in 1 .. Len(chain)
            /\ Extracted(entries)[k].block = chain[start + k]
            /\ Extracted(entries)[k].txs = Listed(chain[start + k])
            /\ Extracted(entries)[k].index = IndexIn(chain, start + k)
        BY <1>0, <3>6, <3>7, HonestResponses, Zenon
      <4>. QED
        BY <3>2, <4>1, Zenon DEF FromChain
    <3>8. Sourced'
      <4>1. ASSUME honest, alone => ~disturbed, NEW i \in 1 .. m + l PROVE \E c \in served : FromChain(res'[i], c)
        <5>1. CASE i \in 1 .. m
          BY <3>1, <3>2, <4>1, <5>1, Zenon DEF Told, Sourced
        <5>2. ASSUME NEW k \in 1 .. l, i = m + k PROVE \E c \in served : FromChain(res'[i], c)
          BY <3>7, <4>1, <5>2, Zenon DEF Told, Sourced
        <5>. QED
          BY <3>5, <5>1, <5>2, Zenon
      <4>. QED
        BY <1>0, <3>2, <4>1, Zenon DEF Told, Sourced
    <3>9. Whole'
      <4>1. ASSUME honest, NEW i \in 1 .. m + l PROVE res'[i].txs = Listed(res'[i].block)
        <5>1. CASE i \in 1 .. m
          BY <3>1, <3>2, <4>1, <5>1, Zenon DEF Told, Whole
        <5>2. ASSUME NEW k \in 1 .. l, i = m + k PROVE res'[i].txs = Listed(res'[i].block)
          BY <3>7, <4>1, <5>2, Zenon
        <5>. QED
          BY <3>5, <5>1, <5>2, Zenon
      <4>. QED
        BY <1>0, <3>2, <4>1, Zenon DEF Whole
    <3>10. Named'
      BY <1>0, <1>1 DEF Named
    <3>11. Receiving'
      <4>1. pc' \in {"validate", "bin"}
        BY <2>2
      <4>. QED
        BY <1>0, <4>1 DEF Told, Receiving
    <3>12. Counted'
      <4>1. pc' \in {"validate", "bin"} /\ (pc' = "validate" => start' > last)
        BY <2>2
      <4>2. start' = first + Len(res')
        BY <1>1, <3>1, <3>2, <3>4
      <4>. QED
        BY <1>0, <1>1, <4>1, <4>2 DEF Counted, first, last
    <3>. QED
      BY <3>8, <3>9, <3>10, <3>11, <3>12 DEF Told
  <2>. QED
    BY <1>3, <2>1, <2>2 DEF BlocksReceived
<1>. QED
  BY <1>2, <1>3, Zenon DEF BlocksBin

LEMMA ReceivedAll ==
  ASSUME NEW b \in Blocks, NEW txs \in Seq(TxSet), Received(txs, b.transactions), Len(txs) = Len(b.transactions)
  PROVE  txs = Listed(b)
<1>0. PICK n \in Nat : n = Len(txs)
  OBVIOUS
<1>1. <<>> \in Seq(TxSet)
  OBVIOUS
<1>2. Listed(b) \in Seq(TxSet) /\ Len(Listed(b)) = n
  BY <1>0, <1>1, ListedAreTxs, Zenon
<1>3. \A i \in 1 .. n : Listed(b)[i] = Tx[b.transactions[i]]
  BY <1>0, Zenon DEF Listed
<1>4. \A i \in 1 .. n : txs[i] = Listed(b)[i]
  BY <1>0, <1>3, Zenon DEF Received
<1>. QED
  BY <1>0, <1>2, <1>4, SeqEqual, Zenon

\* The ids of a block's transactions are those it lists, after the miner's.
LEMMA IdsAre ==
  ASSUME NEW b \in Blocks, NEW i \in 1 .. Len(AllTxs(b, Listed(b)))
  PROVE  AllTxs(b, Listed(b))[i].id = (<<b.miner>> \o b.transactions)[i]
<1>1. b.transactions \in Seq(DOMAIN Tx) /\ b.miner \in DOMAIN Tx
  BY BlocksAssumption
<1>2. PICK n \in Nat : n = Len(b.transactions)
  BY <1>1
<1>3. <<>> \in Seq(TxSet)
  OBVIOUS
<1>4. PICK s \in Seq(TxSet) : s = Listed(b) /\ Len(s) = n
  BY <1>2, <1>3, ListedAreTxs, Zenon
<1>5. /\ Len(AllTxs(b, s)) = n + 1 /\ AllTxs(b, s)[1] = Tx[b.miner]
      /\ \A j \in 1 .. n : AllTxs(b, s)[j + 1] = s[j]
  BY <1>4, ListedAreTxs, Zenon
<1>6. PICK h \in Seq(DOMAIN Tx) : h = b.transactions
  BY <1>1
<1>7. PICK m \in DOMAIN Tx : m = b.miner
  BY <1>1
<1>8. (<<m>> \o h)[1] = m /\ \A j \in 1 .. n : (<<m>> \o h)[j + 1] = h[j]
  BY <1>2, <1>6
<1>9. \A j \in 1 .. n : s[j] = Tx[h[j]] /\ h[j] \in DOMAIN Tx
  <2>1. \A j \in 1 .. n : h[j] \in DOMAIN Tx
    BY <1>2, <1>6
  <2>2. \A j \in 1 .. n : Listed(b)[j] = Tx[b.transactions[j]]
    BY <1>2, Zenon DEF Listed
  <2>. QED
    BY <1>4, <1>6, <2>1, <2>2, Zenon
<1>10. i = 1 \/ \E j \in 1 .. n : i = j + 1
  <2>1. i \in 1 .. n + 1
    BY <1>4, <1>5, Zenon
  <2>2. i # 1 => i - 1 \in 1 .. n /\ i = (i - 1) + 1
    BY <2>1
  <2>. QED
    BY <2>2
<1>11. CASE i = 1
  BY <1>4, <1>5, <1>6, <1>7, <1>8, <1>11, TxsAreTxs, ZenonT(60)
<1>12. ASSUME NEW j \in 1 .. n, i = j + 1 PROVE AllTxs(b, Listed(b))[i].id = (<<b.miner>> \o b.transactions)[i]
  <2>1. AllTxs(b, Listed(b))[j + 1].id = h[j]
    BY <1>4, <1>5, <1>9, TxsAreTxs, ZenonT(60)
  <2>2. (<<b.miner>> \o b.transactions)[j + 1] = h[j]
    BY <1>6, <1>7, <1>8, Zenon
  <2>. QED
    BY <1>12, <2>1, <2>2, Zenon
<1>. QED
  BY <1>10, <1>11, <1>12, Zenon

\* A block of a chain which does not change, with all of its transactions, has its index there.
LEMMA IndexFound ==
  ASSUME Inv, Told, honest, ~disturbed, pc = "expand", Len(expanding) = Len(pending[1].transactions)
  PROVE  LET t == AllTxs(pending[1], expanding)
             i == FirstRingCt(t)
             indexes == IndexesOnChain((<<pending[1].miner>> \o pending[1].transactions)[i])
         IN \E k \in 1 .. Len(chain) :
              /\ pending[1] = chain[k]
              /\ i = 0 => IndexIn(chain, k) = None
              /\ i # 0 => /\ indexes[1] = IndexIn(chain, k) /\ Len(indexes) = t[i].outputs
                          /\ ~IndexOverflows(indexes[1], t)
<1>0. pending # <<>> /\ pending \in Seq(Blocks) /\ expanding \in Seq(TxSet) /\ chain \in Chains
  BY DEF Inv, Progress, TypeOK
<1>1. 1 \in 1 .. Len(pending) /\ pending[1] \in Blocks
  BY <1>0
<1>2. PICK k \in 1 .. Len(chain) : pending[1] = chain[k]
  BY <1>1, Zenon DEF Told, Sourced, OnChain
<1>3. PICK b \in Blocks : b = pending[1]
  BY <1>1
<1>4. expanding = Listed(b)
  BY <1>0, <1>3, ReceivedAll, Zenon DEF Told, Receiving
<1>5. PICK t \in Seq(TxSet) : t = TxsAt(chain, k)
  BY <1>0, TxsAtAre, Zenon
<1>6. t = AllTxs(pending[1], expanding) /\ t = AllTxs(b, Listed(b))
  BY <1>2, <1>3, <1>4, <1>5, Zenon DEF TxsAt
<1>7. PICK i : i = FirstRingCt(t)
  OBVIOUS
<1>8. PICK id : id = (<<pending[1].miner>> \o pending[1].transactions)[i]
  OBVIOUS
<1>9. i = 0 => IndexIn(chain, k) = None
  BY <1>5, <1>7, Zenon DEF IndexIn
<1>10. ASSUME i # 0
       PROVE  /\ IndexesOnChain(id)[1] = IndexIn(chain, k) /\ Len(IndexesOnChain(id)) = t[i].outputs
              /\ ~IndexOverflows(IndexesOnChain(id)[1], t)
  <2>1. i \in 1 .. Len(t) /\ t[i].outputs \in Nat \ {0} /\ t[i].version # 1
    BY <1>7, <1>10, FirstRingCtIs, Zenon
  <2>2. t[i].outputs # 0
    BY <2>1
  <2>3. t[i].id = id
    BY <1>3, <1>6, <1>8, <2>1, IdsAre, ZenonT(60)
  <2>4. IndexesOnChain(id) = ChainIndexes[chain][k][i]
    BY <1>0, <1>5, <2>1, <2>3, IndexesAtPlace, Zenon
  <2>5. /\ Len(ChainIndexes[chain][k][i]) = t[i].outputs
        /\ ChainIndexes[chain][k][i][1] = RingCtBefore(chain, k, i)
    BY <1>0, <1>5, <2>1, <2>2, BlockIndexes, Zenon
  <2>6. IndexIn(chain, k) = RingCtBefore(chain, k, i)
    BY <1>5, <1>7, <1>10, Zenon DEF IndexIn
  <2>7. ~IndexOverflows(RingCtBefore(chain, k, i), t)
    BY <1>0, <1>5, <1>7, <1>10, FirstIndexFits, Zenon
  <2>. QED
    BY <2>4, <2>5, <2>6, <2>7, Zenon
<1>. QED
  BY <1>2, <1>6, <1>7, <1>8, <1>9, <1>10, Zenon

LEMMA ExpandedKeepsTold ==
  ASSUME Inv, Told, pc = "expand", NEW index \in Nat \cup {None}, Expanded(index),
         Len(expanding) = Len(pending[1].transactions),
         honest /\ ~disturbed => \E k \in 1 .. Len(chain) : pending[1] = chain[k] /\ index = IndexIn(chain, k),
         UNCHANGED <<request, full, checked, honest, chain, served, disturbed>>
  PROVE  Told'
<1>0. /\ pending # <<>> /\ pending \in Seq(Blocks) /\ res \in Seq(Scannable) /\ expanding \in Seq(TxSet)
      /\ TypeOK /\ first \in Nat /\ last \in Nat
  BY RequestIs DEF Inv, Progress, TypeOK
<1>1. PICK m \in Nat, n \in Nat : m = Len(res) /\ n = Len(pending) /\ n > 0
  BY <1>0
<1>2. PICK b \in Blocks : b = pending[1]
  BY <1>0
<1>3. PICK e : e = [block |-> b, txs |-> expanding, index |-> index]
  OBVIOUS
<1>4. e \in Scannable /\ e.block = b /\ e.txs = expanding /\ e.index = index
  BY <1>0, <1>3 DEF Scannable
<1>5. res' = Append(res, e)
  BY <1>2, <1>3, Zenon DEF Expanded
<1>6. Len(res') = m + 1 /\ res'[m + 1] = e /\ \A i \in 1 .. m : res'[i] = res[i]
  BY <1>0, <1>1, <1>4, <1>5
<1>7. /\ pending' \in Seq(Blocks) /\ Len(pending') = n - 1
      /\ \A i \in 1 .. n - 1 : pending'[i] = pending[i + 1]
  BY <1>0, <1>1 DEF Expanded
<1>8. /\ expanding' = <<>> /\ alone' = TRUE /\ pc' \in {"expand", "bin", "validate"}
      /\ first' = first /\ last' = last
  BY DEF Expanded, first, last
<1>9. ASSUME NEW i \in 1 .. m + 1 PROVE i = m + 1 \/ i \in 1 .. m
  OBVIOUS
<1>10. Sourced'
  <2>1. ASSUME honest, ~disturbed, NEW i \in 1 .. n - 1 PROVE OnChain(pending'[i], chain)
    <3>1. i + 1 \in 1 .. n
      BY <1>1
    <3>. QED
      BY <1>1, <1>7, <2>1, <3>1, Zenon DEF Told, Sourced
  <2>2. ASSUME honest, ~disturbed, NEW i \in 1 .. m + 1 PROVE \E c \in served : FromChain(res'[i], c)
    <3>1. CASE i = m + 1
      <4>1. FromChain(e, chain)
        BY <1>2, <1>4, <2>2, Zenon DEF FromChain
      <4>. QED
        BY <1>6, <2>2, <3>1, <4>1, Zenon DEF Told, Sourced
    <3>2. CASE i \in 1 .. m
      BY <1>1, <1>6, <2>2, <3>2, Zenon DEF Told, Sourced
    <3>. QED
      BY <1>9, <3>1, <3>2
  <2>. QED
    BY <1>6, <1>7, <1>8, <2>1, <2>2, Zenon DEF Told, Sourced
<1>11. Whole'
  <2>1. ASSUME honest, NEW i \in 1 .. m + 1 PROVE res'[i].txs = Listed(res'[i].block)
    <3>1. CASE i = m + 1
      <4>1. expanding = Listed(b)
        BY <1>0, <1>2, <2>1, ReceivedAll, Zenon DEF Told, Receiving
      <4>. QED
        BY <1>4, <1>6, <3>1, <4>1, Zenon
    <3>2. CASE i \in 1 .. m
      BY <1>1, <1>6, <2>1, <3>2, Zenon DEF Told, Whole
    <3>. QED
      BY <1>9, <3>1, <3>2
  <2>. QED
    BY <1>6, <2>1, Zenon DEF Whole
<1>12. Named'
  <2>. SUFFICES ASSUME honest, request.kind = "hash", NEW i \in 1 .. m + n PROVE BlockAt(i)'.hash = request.hash
    <3>1. Len(res') + Len(pending') = m + n
      BY <1>6, <1>7
    <3>. QED
      BY <3>1 DEF Named
  <2>1. BlockAt(i).hash = request.hash
    BY <1>1 DEF Told, Named
  <2>2. BlockAt(i)' = BlockAt(i)
    <3>1. CASE i \in 1 .. m
      <4>1. i <= m /\ i <= m + 1
        BY <3>1
      <4>. QED
        BY <1>1, <1>6, <3>1, <4>1 DEF BlockAt
    <3>2. CASE i = m + 1
      <4>1. ~(i <= m) /\ i <= m + 1 /\ i - m = 1
        BY <3>2
      <4>2. BlockAt(i) = pending[1]
        BY <1>1, <4>1 DEF BlockAt
      <4>3. BlockAt(i)' = e.block
        BY <1>6, <3>2, <4>1 DEF BlockAt
      <4>. QED
        BY <1>2, <1>4, <4>2, <4>3
    <3>3. CASE i > m + 1
      <4>1. ~(i <= m) /\ ~(i <= m + 1) /\ i - (m + 1) \in 1 .. n - 1 /\ (i - (m + 1)) + 1 = i - m
        BY <3>3
      <4>2. BlockAt(i) = pending[i - m]
        BY <1>1, <4>1 DEF BlockAt
      <4>3. BlockAt(i)' = pending'[i - (m + 1)]
        BY <1>6, <4>1 DEF BlockAt
      <4>4. pending'[i - (m + 1)] = pending[(i - (m + 1)) + 1]
        BY <1>7, <4>1
      <4>. QED
        BY <4>1, <4>2, <4>3, <4>4
    <3>. QED
      BY <3>1, <3>2, <3>3
  <2>. QED
    BY <2>1, <2>2
<1>13. Receiving'
  <2>1. honest => full = <<>>
    BY DEF Told, Receiving
  <2>2. ASSUME pc' = "expand" PROVE Received(<<>>, pending'[1].transactions)
    <3>1. n > 1
      BY <1>1, <2>2 DEF Expanded
    <3>2. pending'[1] \in Blocks
      BY <1>7, <3>1
    <3>3. pending'[1].transactions \in Seq(DOMAIN Tx)
      BY <3>2, BlocksAssumption
    <3>. QED
      BY <3>3, ReceivedNone, Zenon
  <2>. QED
    BY <1>8, <2>1, <2>2 DEF Receiving
<1>14. Counted'
  <2>1. /\ request.kind = "range" /\ ~(first = 0 /\ res = <<>>) => first + m + n = last + 1
        /\ request.kind = "range" /\ first = 0 /\ res = <<>> => n = 1
    BY <1>1 DEF Told, Counted, Inv, Progress
  <2>2. CASE pc' = "expand"
    <3>1. n > 1
      BY <1>1, <2>2 DEF Expanded
    <3>2. request.kind = "range" => first' + Len(res') + Len(pending') = last' + 1
      BY <1>0, <1>6, <1>7, <1>8, <2>1, <3>1
    <3>. QED
      BY <2>2, <3>2 DEF Counted
  <2>3. CASE pc' = "validate"
    <3>1. ~(n > 1) /\ ~(request.kind = "range" /\ first = 0 /\ res = <<>>)
      BY <1>1, <2>3 DEF Expanded
    <3>2. res' # <<>>
      BY <1>6
    <3>3. request.kind = "range" => first' + Len(res') > last'
      BY <1>0, <1>1, <1>6, <1>8, <2>1, <3>1
    <3>. QED
      BY <2>3, <3>2, <3>3 DEF Counted
  <2>4. CASE pc' = "bin"
    BY <2>4 DEF Counted
  <2>. QED
    BY <1>8, <2>2, <2>3, <2>4
<1>. QED
  BY <1>10, <1>11, <1>12, <1>13, <1>14 DEF Told

LEMMA ExpandIndexKeepsTold == Inv /\ Told /\ ExpandIndex => Told'
<1>. SUFFICES ASSUME Inv, Told, ExpandIndex PROVE Told'
  OBVIOUS
<1>0. /\ TypeOK /\ pc = "expand" /\ pending # <<>> /\ pending \in Seq(Blocks) /\ expanding \in Seq(TxSet)
      /\ UNCHANGED <<request, full, checked, honest, chain, served, disturbed>>
      /\ chain \in Chains /\ Len(expanding) = Len(pending[1].transactions)
  BY DEF Inv, Progress, TypeOK, ExpandIndex, daemonVars
<1>1. pending[1] \in Blocks
  BY <1>0
<1>. DEFINE t == AllTxs(pending[1], expanding)
            i == FirstRingCt(t)
            id == (<<pending[1].miner>> \o pending[1].transactions)[i]
            replies == IF honest THEN {IndexesOnChain(id)}
                       ELSE {<<>>} \cup {[o \in 1 .. t[i].outputs |-> n] : n \in {0, U64Max}}
<1>2. t \in Seq(TxSet)
  BY <1>0, <1>1, ListedAreTxs, Zenon
<1>3. honest /\ ~disturbed =>
        \E k \in 1 .. Len(chain) : /\ pending[1] = chain[k]
                                   /\ i = 0 => IndexIn(chain, k) = None
                                   /\ i # 0 => IndexesOnChain(id)[1] = IndexIn(chain, k)
  BY <1>0, IndexFound, Zenon
<1>4. CASE i = 0 /\ Expanded(None)
  <2>1. None \in Nat \cup {None}
    OBVIOUS
  <2>2. honest /\ ~disturbed => \E k \in 1 .. Len(chain) : pending[1] = chain[k] /\ None = IndexIn(chain, k)
    BY <1>3, <1>4, Zenon
  <2>. HIDE DEF t, i, id, replies
  <2>. QED
    BY <1>0, <1>4, <2>1, <2>2, ExpandedKeepsTold, Zenon
<1>5. ASSUME i # 0, NEW indexes \in replies, Len(indexes) = t[i].outputs, Expanded(indexes[1]) PROVE Told'
  <2>1. i \in 1 .. Len(t) /\ t[i].outputs \in Nat \ {0}
    BY <1>2, <1>5, FirstRingCtIs, Zenon
  <2>2. indexes \in Seq(Nat)
    <3>1. CASE honest
      BY <1>0, <1>5, <3>1, IndexesOnChainAre, Zenon
    <3>2. CASE ~honest
      <4>0. PICK m \in Nat : m = t[i].outputs
        BY <2>1
      <4>. HIDE DEF t, i, id
      <4>1. indexes = <<>> \/ \E n \in {0, U64Max} : indexes = [o \in 1 .. m |-> n]
        BY <1>5, <3>2, <4>0, Zenon
      <4>2. \A n \in Nat : [o \in 1 .. m |-> n] \in Seq(Nat)
        OBVIOUS
      <4>3. <<>> \in Seq(Nat) /\ 0 \in Nat /\ U64Max \in Nat
        BY NumbersAssumption
      <4>. QED
        BY <4>1, <4>2, <4>3, Zenon
    <3>. QED
      BY <3>1, <3>2
  <2>3. Len(indexes) \in Nat \ {0}
    BY <1>5, <2>1, Zenon
  <2>4. indexes[1] \in Nat \cup {None}
    BY <2>2, <2>3
  <2>5. honest /\ ~disturbed => \E k \in 1 .. Len(chain) : pending[1] = chain[k] /\ indexes[1] = IndexIn(chain, k)
    BY <1>3, <1>5, Zenon
  <2>. HIDE DEF t, i, id, replies
  <2>. QED
    BY <1>0, <1>5, <2>4, <2>5, ExpandedKeepsTold, Zenon
<1>6. CASE Fails /\ UNCHANGED <<res, pending, expanding, alone>>
  BY <1>0, <1>6, FailureKeepsTold DEF Fails
<1>7. \/ i = 0 /\ Expanded(None)
      \/ /\ i # 0
         /\ \E indexes \in replies :
              \/ Len(indexes) = t[i].outputs /\ Expanded(indexes[1])
              \/ Fails /\ UNCHANGED <<res, pending, expanding, alone>>
  BY Zenon DEF ExpandIndex
<1>. QED
  BY <1>4, <1>5, <1>6, <1>7, Zenon

LEMMA NextKeepsTold == Inv /\ Inv' /\ Told /\ [Next]_vars => Told'
<1>. SUFFICES ASSUME Inv, Inv', Told, [Next]_vars PROVE Told'
  OBVIOUS
<1>1. CASE UNCHANGED vars
  <2>1. /\ UNCHANGED <<request, res, pending, honest, chain, served, alone>>
        /\ disturbed' \in {disturbed, TRUE} /\ UNCHANGED <<pc, expanding, full, checked>>
    BY <1>1 DEF vars
  <2>2. Sourced' /\ Whole' /\ Named'
    BY <2>1, SameKeepsSourced, Zenon
  <2>3. Receiving' /\ Counted'
    <3>1. V1Hashes(res[checked + 1])' = V1Hashes(res[checked + 1])
      BY <2>1, Zenon DEF V1Hashes, V1Indexes
    <3>2. Receiving'
      BY <2>1, <3>1, Zenon DEF Told, Receiving, Received
    <3>3. Counted'
      BY <2>1, Zenon DEF Told, Counted, first, last
    <3>. QED
      BY <3>2, <3>3
  <2>. QED
    BY <2>2, <2>3 DEF Told
<1>2. CASE Step
  BY <1>2, BlocksBinKeepsTold, FetchBlockKeepsTold, ExpandTransactionsKeepsTold, ExpandIndexKeepsTold,
     ValidateKeepsTold, ValidateScannableBlockKeepsTold, FullTransactionsKeepsTold, CompareFullKeepsTold DEF Step
<1>. QED
  BY <1>1, <1>2, MethodNotApplicableKeepsTold, RequestFailsKeepsTold, ChainChangesKeepsTold DEF Next, Terminated

LEMMA AlwaysTold == Spec => []Told
  BY AlwaysInv, InitTold, NextKeepsTold, PTL DEF Spec

---------------------------------------------------------------------------------
(* A daemon which has what is asked for is not blamed. *)

\* A daemon which has what is asked for, and answers from one chain.
Asked ==
  /\ honest /\ ~disturbed
  /\ request.kind = "hash" => BlocksHeld # {}
  /\ request.kind # "hash" => first <= last /\ last < Len(chain) /\ last - first < UsizeMax

LEMMA StaysAsked == [Next]_vars /\ Asked' => Asked
<1>. SUFFICES ASSUME [Next]_vars, Asked' PROVE Asked
  OBVIOUS
<1>1. UNCHANGED <<request, honest, chain, served, disturbed>>
  <2>1. ~disturbed'
    BY DEF Asked
  <2>2. CASE UNCHANGED vars
    BY <2>2 DEF vars
  <2>3. CASE ChainChanges \/ RequestFails
    BY <2>1, <2>3 DEF ChainChanges, RequestFails
  <2>4. CASE Step \/ MethodNotApplicable \/ Terminated
    BY <2>4 DEF Step, BlocksBin, FetchBlock, ExpandTransactions, ExpandIndex, Validate, ValidateScannableBlock,
                FullTransactions, CompareFull, MethodNotApplicable, Terminated, vars, daemonVars, historyVars
  <2>. QED
    BY <2>2, <2>3, <2>4 DEF Next
<1>2. first' = first /\ last' = last
  BY <1>1 DEF first, last
<1>3. request.kind = "hash" => BlocksHeld' = BlocksHeld
  <2>. DEFINE held(h, S) == UNION {{b \in {c[i] : i \in 1 .. Len(c)} : b.hash = h} : c \in S}
  <2>. SUFFICES ASSUME request.kind = "hash" PROVE BlocksHeld' = BlocksHeld
    OBVIOUS
  <2>1. BlocksHeld = held(request.hash, served)
    BY Zenon DEF BlocksHeld
  <2>2. request'.kind = "hash"
    BY <1>1
  <2>3. BlocksHeld' = held(request'.hash, served')
    BY <2>2, Zenon DEF BlocksHeld
  <2>4. request'.hash = request.hash /\ served' = served
    BY <1>1
  <2>. HIDE DEF held
  <2>. QED
    BY <2>1, <2>3, <2>4, Zenon
<1>. QED
  BY <1>1, <1>2, <1>3, Zenon DEF Asked

\* A transaction which a block of the daemon's chain lists is on that chain.
LEMMA ListedArePlaced ==
  ASSUME chain \in Chains, NEW k \in 1 .. Len(chain), NEW j \in 1 .. Len(chain[k].transactions)
  PROVE  Places(chain[k].transactions[j]) # {}
<1>1. PICK b \in Blocks : b = chain[k]
  BY TxsAtAre, Zenon
<1>2. b.transactions \in Seq(DOMAIN Tx) /\ b.miner \in DOMAIN Tx
  BY BlocksAssumption
<1>3. PICK n \in Nat, h \in Seq(DOMAIN Tx), m \in DOMAIN Tx :
        n = Len(h) /\ h = b.transactions /\ m = b.miner
  BY <1>2
<1>4. <<>> \in Seq(TxSet)
  OBVIOUS
<1>5. PICK s \in Seq(TxSet) : s = Listed(b) /\ Len(s) = n
  BY <1>3, <1>4, ListedAreTxs, Zenon
<1>6. Len(AllTxs(b, s)) = n + 1
  BY <1>5, ListedAreTxs, Zenon
<1>7. j \in 1 .. n /\ j + 1 \in 1 .. n + 1
  BY <1>1, <1>3
<1>8. (<<m>> \o h)[j + 1] = h[j]
  BY <1>3, <1>7
<1>9. j + 1 \in 1 .. Len(AllTxs(b, Listed(b)))
  BY <1>5, <1>6, <1>7, Zenon
<1>10. AllTxs(b, Listed(b))[j + 1].id = (<<b.miner>> \o b.transactions)[j + 1]
  BY <1>9, IdsAre, Zenon
<1>11. TxsAt(chain, k) = AllTxs(b, Listed(b))
  BY <1>1, Zenon DEF TxsAt
<1>12. TxsAt(chain, k)[j + 1].id = chain[k].transactions[j] /\ j + 1 \in 1 .. Len(TxsAt(chain, k))
  BY <1>1, <1>3, <1>8, <1>9, <1>10, <1>11, Zenon
<1>. QED
  BY <1>12, IndexesAtPlace, Zenon

LEMMA ExpandTransactionsSucceeds ==
  ASSUME Inv, Told, honest, ~disturbed, ExpandTransactions
  PROVE  pc' # "err"
<1>0. /\ pc = "expand" /\ pending # <<>> /\ pending \in Seq(Blocks) /\ expanding \in Seq(TxSet) /\ chain \in Chains
  BY DEF ExpandTransactions, Inv, Progress, TypeOK
<1>1. 1 \in 1 .. Len(pending) /\ pending[1] \in Blocks
  BY <1>0
<1>2. PICK k \in 1 .. Len(chain) : pending[1] = chain[k]
  BY <1>1, Zenon DEF Told, Sourced, OnChain
<1>3. PICK hashes \in Seq(DOMAIN Tx) : hashes = pending[1].transactions
  BY <1>1, BlocksAssumption
<1>4. PICK n \in Nat : n = Len(expanding) /\ n <= Len(hashes)
  BY <1>0, <1>3 DEF Told, Receiving, Received
<1>5. PICK ids \in Seq(DOMAIN Tx) : ids = NextHashes(hashes, n)
  BY NextHashesAre, Zenon
<1>6. PICK reply \in TransactionReplies(ids, TRUE) :
        UNCHANGED pc \/ ~Complete(reply, ids)
  BY <1>3, <1>4, <1>5, Zenon DEF ExpandTransactions
<1>7. \A i \in 1 .. Len(ids) : Places(ids[i]) # {}
  <2>1. \A j \in 1 .. Len(hashes) : Places(hashes[j]) # {}
    BY <1>0, <1>2, <1>3, ListedArePlaced, Zenon
  <2>2. \A i \in 1 .. Len(ids) : n + i \in 1 .. Len(hashes) /\ ids[i] = hashes[n + i]
    BY <1>4, <1>5, NextHashesFollow, Zenon
  <2>. QED
    BY <2>1, <2>2, Zenon
<1>8. Complete(reply, ids)
  <2>1. Len(reply.txs) = Len(ids) /\ (reply.missed => \E i \in 1 .. Len(ids) : Places(ids[i]) = {})
    BY HonestReplies, Zenon
  <2>. QED
    BY <1>7, <2>1, Zenon DEF Complete
<1>. QED
  BY <1>0, <1>6, <1>8

\* The block to be validated is one of the daemon's chain, with the transactions it lists.
LEMMA CheckedOnChain ==
  ASSUME Inv, Told, honest, ~disturbed, checked < Len(res)
  PROVE  /\ res[checked + 1] \in Scannable /\ VerifyAsPossible(res[checked + 1])
         /\ res[checked + 1].txs = Listed(res[checked + 1].block)
         /\ \E k \in 1 .. Len(chain) : res[checked + 1].block = chain[k]
<1>0. res \in Seq(Scannable) /\ checked \in Nat
  BY DEF Inv, TypeOK
<1>1. PICK i \in 1 .. Len(res) : i = checked + 1
  BY <1>0
<1>2. res[i] \in Scannable
  BY <1>0
<1>3. res[i].txs = Listed(res[i].block)
  BY DEF Told, Whole
<1>4. \E k \in 1 .. Len(chain) : res[i].block = chain[k]
  <2>1. \E c \in served : FromChain(res[i], c)
    BY Zenon DEF Told, Sourced
  <2>2. served = {chain}
    BY DEF Told, Sourced
  <2>. QED
    BY <2>1, <2>2, Zenon DEF FromChain
<1>5. VerifyAsPossible(res[i])
  <2>1. PICK b \in Blocks : b = res[i].block
    BY <1>2 DEF Scannable
  <2>2. <<>> \in Seq(TxSet)
    OBVIOUS
  <2>3. Len(Listed(b)) = Len(b.transactions)
    BY <2>2, ListedAreTxs, Zenon
  <2>4. \A j \in 1 .. Len(b.transactions) : Listed(b)[j] = Tx[b.transactions[j]]
    BY Zenon DEF Listed
  <2>. QED
    BY <1>3, <2>1, <2>3, <2>4, Zenon DEF VerifyAsPossible
<1>. QED
  BY <1>1, <1>2, <1>3, <1>4, <1>5, Zenon

LEMMA FullTransactionsSucceeds ==
  ASSUME Inv, Told, honest, ~disturbed, FullTransactions
  PROVE  pc' # "err"
<1>0. /\ pc = "full" /\ checked < Len(res) /\ full \in Seq(TxSet \cup {None}) /\ chain \in Chains
  BY DEF FullTransactions, Inv, Verified, TypeOK
<1>1. PICK entry \in Scannable : entry = res[checked + 1] /\ VerifyAsPossible(entry)
  BY <1>0, CheckedOnChain, Zenon
<1>2. PICK k \in 1 .. Len(chain) : entry.block = chain[k]
  BY <1>0, <1>1, CheckedOnChain, Zenon
<1>3. PICK hashes \in Seq(DOMAIN Tx) : hashes = V1Hashes(entry)
  BY <1>1, V1Are, Zenon
<1>4. PICK n \in Nat : n = Len(full) /\ n <= Len(hashes)
  BY <1>0, <1>1, <1>3 DEF Told, Receiving, Received
<1>5. PICK ids \in Seq(DOMAIN Tx) : ids = NextHashes(hashes, n)
  BY NextHashesAre, Zenon
<1>6. PICK reply \in TransactionReplies(ids, FALSE) :
        UNCHANGED pc \/ ~Complete(reply, ids)
  BY <1>1, <1>3, <1>4, <1>5, Zenon DEF FullTransactions
<1>7. ASSUME NEW j \in 1 .. Len(hashes) PROVE Places(hashes[j]) # {}
  <2>1. j \in 1 .. Len(V1Indexes(entry))
    BY <1>1, <1>3, V1Are, Zenon
  <2>2. PICK i \in 1 .. Len(entry.txs) : i = V1Indexes(entry)[j] /\ hashes[j] = entry.block.transactions[i]
    BY <1>1, <1>3, <2>1, V1Are, Zenon
  <2>3. i \in 1 .. Len(chain[k].transactions)
    BY <1>1, <1>2, Zenon DEF VerifyAsPossible
  <2>. QED
    BY <1>0, <1>2, <2>2, <2>3, ListedArePlaced, Zenon
<1>8. \A i \in 1 .. Len(ids) : Places(ids[i]) # {}
  <2>1. \A i \in 1 .. Len(ids) : n + i \in 1 .. Len(hashes) /\ ids[i] = hashes[n + i]
    BY <1>4, <1>5, NextHashesFollow, Zenon
  <2>. QED
    BY <1>7, <2>1, Zenon
<1>9. Complete(reply, ids)
  <2>1. Len(reply.txs) = Len(ids) /\ (reply.missed => \E i \in 1 .. Len(ids) : Places(ids[i]) = {})
    BY HonestReplies, Zenon
  <2>. QED
    BY <1>8, <2>1, Zenon DEF Complete
<1>. QED
  BY <1>0, <1>6, <1>9

LEMMA CompareFullSucceeds ==
  ASSUME Inv, Told, honest, ~disturbed, CompareFull
  PROVE  pc' # "err"
<1>0. pc = "full" /\ checked < Len(res)
  BY DEF CompareFull, Inv, Verified
<1>1. PICK entry \in Scannable :
        entry = res[checked + 1] /\ VerifyAsPossible(entry) /\ entry.txs = Listed(entry.block)
  BY <1>0, CheckedOnChain, Zenon
<1>2. Len(full) = Len(V1Hashes(entry)) /\ Len(V1Hashes(entry)) = Len(V1Indexes(entry))
  BY <1>1, V1Are, Zenon DEF CompareFull
<1>3. \A i \in 1 .. Len(full) : full[i] = Tx[V1Hashes(entry)[i]]
  BY <1>0, <1>1, Zenon DEF Told, Receiving, Received
<1>4. ASSUME NEW i \in 1 .. Len(full) PROVE full[i] = entry.txs[V1Indexes(entry)[i]]
  <2>1. i \in 1 .. Len(V1Indexes(entry))
    BY <1>2, Zenon
  <2>2. PICK j \in 1 .. Len(entry.txs) : j = V1Indexes(entry)[i] /\ V1Hashes(entry)[i] = entry.block.transactions[j]
    BY <1>1, <2>1, V1Are, Zenon
  <2>3. Len(entry.txs) = Len(entry.block.transactions)
    BY <1>1 DEF VerifyAsPossible
  <2>4. entry.txs[j] = Tx[entry.block.transactions[j]]
    BY <1>1, <2>3, Zenon DEF Listed
  <2>. QED
    BY <1>3, <2>2, <2>4, Zenon
<1>5. FullMatches(entry)
  BY <1>3, <1>4, Zenon DEF FullMatches
<1>. QED
  BY <1>1, <1>5 DEF CompareFull

LEMMA ValidateScannableBlockSucceeds ==
  ASSUME Inv, Told, honest, ~disturbed, ValidateScannableBlock
  PROVE  pc' # "err"
<1>1. checked < Len(res) => VerifyAsPossible(res[checked + 1])
  BY CheckedOnChain, Zenon
<1>2. pc = "check"
  BY DEF ValidateScannableBlock
<1>. QED
  BY <1>1, <1>2 DEF ValidateScannableBlock

LEMMA ExpandIndexSucceeds ==
  ASSUME Inv, Told, honest, ~disturbed, ExpandIndex
  PROVE  pc' # "err"
<1>0. pc = "expand" /\ Len(expanding) = Len(pending[1].transactions)
  BY DEF ExpandIndex
<1>. DEFINE t == AllTxs(pending[1], expanding)
            i == FirstRingCt(t)
            id == (<<pending[1].miner>> \o pending[1].transactions)[i]
            indexes == IndexesOnChain(id)
<1>1. i # 0 => Len(indexes) = t[i].outputs /\ ~IndexOverflows(indexes[1], t)
  BY <1>0, IndexFound, Zenon
<1>2. Expanded(None) \/ Expanded(indexes[1])
  BY <1>1, Zenon DEF ExpandIndex
<1>3. \A index : Expanded(index) => pc' \in {"expand", "bin", "validate"}
  BY DEF Expanded
<1>4. pc' \in {"expand", "bin", "validate"}
  BY <1>2, <1>3, Zenon
<1>. QED
  BY <1>4

LEMMA FetchBlockSucceeds ==
  ASSUME Inv, Asked, FetchBlock
  PROVE  pc' # "err"
<1>0. pc \in {"genesis", "blocks"} /\ TypeOK /\ first \in Nat /\ last \in Nat /\ chain \in Seq(Blocks)
  BY RequestIs, ChainsAssumption DEF FetchBlock, Inv, TypeOK
<1>1. BlocksHeld # {}
  <2>1. CASE request.kind = "hash"
    BY <2>1 DEF Asked
  <2>2. CASE request.kind # "hash"
    <3>1. first <= last /\ last < Len(chain)
      BY <2>2 DEF Asked
    <3>2. NextAlone \in Nat /\ NextAlone <= last
      <4>1. pc = "genesis" => NextAlone = 0
        BY DEF NextAlone
      <4>2. pc = "blocks" /\ request.kind = "number" => NextAlone = first
        BY DEF NextAlone
      <4>3. pc = "blocks" /\ request.kind = "range" => NextAlone = start + Len(pending) /\ start + Len(pending) <= last
        BY DEF NextAlone, Inv, Progress
      <4>4. request.kind = "number" \/ request.kind = "range"
        BY <1>0, <2>2, RequestIs
      <4>5. NextAlone \in Nat
        BY <1>0, NextAloneIs
      <4>. QED
        BY <1>0, <3>1, <4>1, <4>2, <4>3, <4>4, <4>5
    <3>3. NextAlone < Len(chain)
      BY <1>0, <3>1, <3>2
    <3>. QED
      BY <2>2, <3>3 DEF BlocksHeld
  <2>. QED
    BY <2>1, <2>2
<1>2. PICK x : pc' = IF x THEN "expand" ELSE pc
  BY <1>1 DEF FetchBlock, Asked
<1>. QED
  BY <1>0, <1>2

LEMMA BlocksBinSucceeds ==
  ASSUME Inv, Asked, BlocksBin
  PROVE  pc' # "err"
<1>0. TypeOK /\ last \in Nat /\ start \in Nat /\ chain \in Seq(Blocks) /\ request.kind = "range" /\ pc = "bin"
  BY RequestIs, ChainsAssumption DEF BlocksBin, Inv, Progress, TypeOK
<1>1. CASE pc' = "validate"
  BY <1>1
<1>2. ASSUME start <= last, NEW entries \in Responses, BlocksReceived(entries) PROVE pc' # "err"
  <2>1. last < Len(chain) /\ honest
    BY <1>0 DEF Asked
  <2>2. start < Len(chain)
    BY <1>0, <1>2, <2>1
  <2>3. EnoughIndexes(entries) /\ entries # <<>>
    BY <1>0, <2>1, <2>2, HonestResponses, Zenon
  <2>. QED
    BY <1>2, <2>3 DEF BlocksReceived, ZeroBlocks
<1>. QED
  BY <1>1, <1>2, Zenon DEF BlocksBin

\* The blocks of a chain which does not change are at the places of their numbers.
LEMMA BlocksOfTheChain ==
  ASSUME Inv, Told, honest, ~disturbed, request.kind # "hash", NEW i \in 1 .. Len(res)
  PROVE  /\ first + i \in 1 .. Len(chain) /\ res[i].block = chain[first + i]
         /\ res[i].block.number = first + i - 1 /\ res[i].block.number <= last
<1>0. TypeOK /\ first \in Nat /\ chain \in Chains /\ chain \in Seq(Blocks)
  BY RequestIs, ChainsAssumption DEF Inv, TypeOK
<1>1. PICK m \in Nat, n \in Nat : m = Len(res) /\ n = Len(pending)
  BY DEF Inv, TypeOK
<1>2. i \in 1 .. Len(res) + Len(pending) /\ i <= Len(res)
  BY <1>1
<1>3. res[i].block.number = first + i - 1 /\ res[i].block.number <= last
  BY <1>2, Zenon DEF Inv, InPlace, BlockAt
<1>4. PICK k \in 1 .. Len(chain) : res[i].block = chain[k]
  <2>1. \E c \in served : FromChain(res[i], c)
    BY Zenon DEF Told, Sourced
  <2>2. served = {chain}
    BY DEF Told, Sourced
  <2>. QED
    BY <2>1, <2>2, Zenon DEF FromChain
<1>5. chain[k].number = k - 1
  BY <1>0, ChainsAssumption, Zenon
<1>6. k = first + i
  <2>1. k - 1 = first + i - 1
    BY <1>3, <1>4, <1>5, Zenon
  <2>. QED
    BY <1>0, <2>1
<1>. QED
  BY <1>3, <1>4, <1>6, Zenon

LEMMA ValidateSucceeds ==
  ASSUME Inv, Told, Asked, Validate
  PROVE  pc' # "err"
<1>0. /\ TypeOK /\ first \in Nat /\ last \in Nat /\ request.kind \in {"range", "number", "hash"}
      /\ pc = "validate" /\ res \in Seq(Scannable) /\ chain \in Chains /\ honest /\ ~disturbed
  BY RequestIs DEF Validate, Inv, TypeOK, Asked
<1>1. PICK n \in Nat : n = Len(res)
  BY <1>0
<1>2. ASSUME request.kind # "hash", NEW i \in 1 .. n
      PROVE  /\ first + i \in 1 .. Len(chain) /\ res[i].block = chain[first + i]
             /\ res[i].block.number = first + i - 1 /\ first + i - 1 <= last
  <2>1. /\ first + i \in 1 .. Len(chain) /\ res[i].block = chain[first + i]
        /\ res[i].block.number = first + i - 1 /\ res[i].block.number <= last
    BY <1>0, <1>1, <1>2, BlocksOfTheChain, Zenon
  <2>. QED
    BY <2>1, Zenon
<1>3. CASE request.kind = "hash"
  <2>1. n > 0
    BY <1>0, <1>1, <1>3 DEF Told, Counted
  <2>2. PICK m \in Nat : m = Len(pending)
    BY <1>0 DEF TypeOK
  <2>3. 1 \in 1 .. Len(res) + Len(pending) /\ 1 <= Len(res)
    BY <1>1, <2>1, <2>2
  <2>4. res[1].block.hash = request.hash
    BY <1>0, <1>3, <2>3, Zenon DEF Told, Named, BlockAt
  <2>. QED
    BY <1>3, <2>4 DEF Validate, SanityChecked
<1>4. CASE request.kind = "number"
  <2>1. n > 0
    BY <1>0, <1>1, <1>4 DEF Told, Counted
  <2>2. 1 \in 1 .. n
    BY <2>1
  <2>3. res[1].block.number = first
    BY <1>0, <1>2, <1>4, <2>2
  <2>. QED
    BY <1>4, <2>3 DEF Validate, SanityChecked
<1>5. CASE request.kind = "range"
  <2>1. first + n > last /\ first <= last /\ last - first < UsizeMax
    BY <1>0, <1>1, <1>5 DEF Told, Counted, Asked
  <2>2. n \in 1 .. n
    BY <1>0, <2>1
  <2>3. first + n - 1 <= last
    BY <1>2, <1>5, <2>2
  <2>4. n = ExpectedBlocks /\ ExpectedBlocks <= UsizeMax
    BY <1>0, <2>1, <2>3, NumbersAssumption DEF ExpectedBlocks
  <2>5. \A k \in 1 .. Len(chain) : chain[k].previous = IF k = 1 THEN Zero ELSE chain[k - 1].hash
    BY <1>0, ChainsAssumption, Zenon
  <2>6. ASSUME NEW i \in 2 .. n PROVE res[i].block.previous = res[i - 1].block.hash
    <3>1. i \in 1 .. n /\ i - 1 \in 1 .. n
      OBVIOUS
    <3>2. first + i \in 1 .. Len(chain) /\ res[i].block = chain[first + i] /\ res[i - 1].block = chain[first + (i - 1)]
      BY <1>2, <1>5, <3>1
    <3>3. first + i # 1 /\ first + i - 1 = first + (i - 1)
      BY <1>0
    <3>4. chain[first + i].previous = chain[first + i - 1].hash
      <4>1. PICK k \in 1 .. Len(chain) : k = first + i
        BY <3>2, Zenon
      <4>2. chain[k].previous = chain[k - 1].hash
        BY <2>5, <3>3, <4>1, Zenon
      <4>3. k - 1 = first + i - 1
        BY <1>0, <4>1
      <4>4. chain[k].previous = chain[first + i - 1].hash
        BY <4>2, <4>3, Zenon
      <4>. QED
        BY <4>1, <4>4, Zenon
    <3>. QED
      BY <3>2, <3>3, <3>4, Zenon
  <2>7. first = 0 => res[1].block.previous = Zero
    <3>1. 1 \in 1 .. n
      BY <2>2
    <3>2. first = 0 => first + 1 = 1
      OBVIOUS
    <3>3. first = 0 => 1 \in 1 .. Len(chain) /\ res[1].block = chain[1]
      BY <1>2, <1>5, <3>1, <3>2, Zenon
    <3>. QED
      BY <2>5, <3>3, Zenon
  <2>8. SanityChecked
    BY <1>1, <1>2, <1>5, <2>6, <2>7 DEF SanityChecked
  <2>. QED
    BY <1>1, <2>4, <2>8 DEF Validate
<1>. QED
  BY <1>0, <1>3, <1>4, <1>5

---------------------------------------------------------------------------------
(* Blocks which are accepted are those of one chain. *)

\* Blocks which follow each other up to one of a chain are that chain's.
LEMMA LinkedAreOfTheChain ==
  ASSUME TypeOK, Linked, request.kind = "range", NEW c \in Chains, NEW n \in Nat, n = Len(res),
         first + n \in 1 .. Len(c), res[n].block = c[first + n]
  PROVE  \A i \in 1 .. n : first + i \in 1 .. Len(c) /\ res[i].block = c[first + i]
<1>0. first \in Nat /\ res \in Seq(Scannable) /\ c \in Seq(Blocks)
  BY RequestIs, ChainsAssumption DEF TypeOK
<1>1. PICK l \in Nat : l = Len(c)
  BY <1>0
<1>2. \A i \in 2 .. n : res[i].block.previous = res[i - 1].block.hash
  BY DEF Linked
<1>3. \A i \in 1 .. l : c[i].previous = IF i = 1 THEN Zero ELSE c[i - 1].hash
  BY <1>1, ChainsAssumption, Zenon
<1>4. ASSUME NEW i \in 1 .. n PROVE res[i].block \in Blocks
  <2>1. res[i] \in Scannable
    BY <1>0
  <2>. QED
    BY <2>1 DEF Scannable
<1>5. \A i \in 1 .. l : c[i] \in Blocks
  BY <1>1, TxsAtAre, Zenon
<1>6. first + n \in 1 .. l
  BY <1>1
<1>. DEFINE S == {j \in 0 .. n - 1 : res[n - j].block # c[first + (n - j)]}
<1>7. S = {}
  <2>. SUFFICES ASSUME S # {} PROVE FALSE
    OBVIOUS
  <2>1. S \in SUBSET Nat
    OBVIOUS
  <2>2. PICK j \in S : \A k \in S : j <= k
    <3>. HIDE DEF S
    <3>. QED
      BY <2>1, LeastNatural
  <2>3. j \in 0 .. n - 1 /\ j # 0
    <3>1. n - 0 = n
      OBVIOUS
    <3>2. res[n - 0].block = c[first + (n - 0)]
      BY <3>1
    <3>. QED
      BY <3>2
  <2>4. j - 1 \in 0 .. n - 1 /\ ~(j <= j - 1)
    BY <2>3
  <2>5. j - 1 \notin S
    <3>. HIDE DEF S
    <3>. QED
      BY <2>2, <2>4
  <2>6. PICK i \in 2 .. n : i = n - (j - 1) /\ i - 1 = n - j
    <3>1. n - (j - 1) \in 2 .. n /\ (n - (j - 1)) - 1 = n - j
      BY <2>3
    <3>. QED
      BY <3>1, Zenon
  <2>7. res[i].block = c[first + i]
    BY <2>4, <2>5, <2>6
  <2>8. first + i \in 1 .. l /\ first + i # 1 /\ first + (i - 1) \in 1 .. l /\ (first + i) - 1 = first + (i - 1)
    BY <1>0, <1>6
  <2>9. c[first + i].previous = c[first + (i - 1)].hash
    BY <1>3, <2>8
  <2>10. res[i - 1].block.hash = c[first + (i - 1)].hash
    BY <1>2, <2>7, <2>9
  <2>11. i - 1 \in 1 .. n
    OBVIOUS
  <2>12. res[i - 1].block = c[first + (i - 1)]
    BY <1>4, <1>5, <2>8, <2>10, <2>11, BlocksAssumption, Zenon
  <2>. QED
    BY <2>6, <2>12
<1>8. ASSUME NEW i \in 1 .. n PROVE first + i \in 1 .. l /\ res[i].block = c[first + i]
  <2>1. n - i \in 0 .. n - 1 /\ n - (n - i) = i
    OBVIOUS
  <2>2. n - i \notin S
    BY <1>7
  <2>. QED
    BY <1>0, <1>6, <2>1, <2>2
<1>. QED
  BY <1>1, <1>8, Zenon

\* An entry with the block and the index of a chain is as IndexesOfTheChain has it.
LEMMA FromChainIs ==
  ASSUME NEW c \in Chains, NEW entry, FromChain(entry, c)
  PROVE  /\ entry.block.number + 1 \in 1 .. Len(c) /\ entry.block.number < Len(c)
         /\ entry.block = c[entry.block.number + 1] /\ entry.index = IndexIn(c, entry.block.number + 1)
<1>1. PICK k \in 1 .. Len(c) : entry.block = c[k] /\ entry.index = IndexIn(c, k)
  BY Zenon DEF FromChain
<1>2. entry.block.number = k - 1
  BY <1>1, ChainsAssumption, ZenonT(60)
<1>3. c \in Seq(Blocks)
  BY ChainsAssumption
<1>4. entry.block.number + 1 = k /\ entry.block.number < Len(c)
  BY <1>2, <1>3
<1>. QED
  BY <1>1, <1>4, Zenon

\* Without a block fetched alone, all are of get_blocks.bin, which serves ranges.
Alone == alone \/ request.kind = "range" \/ res = <<>>

LEMMA AlwaysAlone == Spec => []Alone
<1>1. Init => Alone
  BY DEF Init, Alone
<1>2. Inv /\ Alone /\ [Next]_vars => Alone'
  <2>. SUFFICES ASSUME Inv, Alone, [Next]_vars PROVE Alone'
    OBVIOUS
  <2>1. CASE UNCHANGED <<request, res, alone>>
    BY <2>1 DEF Alone
  <2>2. CASE BlocksBin
    BY <2>2 DEF BlocksBin, Inv, Progress, Alone
  <2>3. CASE ExpandIndex
    <3>1. alone' = TRUE \/ UNCHANGED <<request, res, alone>>
      BY <2>3 DEF ExpandIndex, Expanded
    <3>. QED
      BY <2>1, <3>1 DEF Alone
  <2>4. CASE FetchBlock \/ ExpandTransactions \/ Validate \/ ValidateScannableBlock \/ FullTransactions \/ CompareFull
    BY <2>1, <2>4 DEF FetchBlock, ExpandTransactions, Validate, ValidateScannableBlock, FullTransactions, CompareFull,
                      historyVars
  <2>5. CASE MethodNotApplicable \/ RequestFails \/ ChainChanges
    BY <2>1, <2>5 DEF MethodNotApplicable, RequestFails, ChainChanges, historyVars
  <2>. QED
    BY <2>1, <2>2, <2>3, <2>4, <2>5 DEF Next, Step, Terminated, vars
<1>. QED
  BY <1>1, <1>2, AlwaysInv, PTL DEF Spec

---------------------------------------------------------------------------------
(* The theorems. *)

\* No block is lost or fetched twice where get_blocks.bin is given up for the JSON methods after some
\* of the range: the blocks of an honest daemon are in their places, whichever method fetched them.
THEOREM BlocksAreInPlace == Spec => []NothingSkipped
<1>1. Inv => NothingSkipped
  BY Zenon DEF Inv, InPlace, NothingSkipped, BlockAt
<1>. QED
  BY <1>1, AlwaysInv, PTL

\* A daemon cannot hide a block's outputs: an accepted block has an index exactly if what it lists has
\* RingCT outputs, whatever the daemon sent of its transactions and whichever method fetched it.
THEOREM OutputsAreNotHidden == Spec => []NothingHidden
<1>1. Inv => NothingHidden
  <2>. SUFFICES ASSUME Inv, pc = "ok", NEW i \in 1 .. Len(res)
                PROVE  (res[i].index = None) <=>
                         \A tx \in {AllTxs(res[i].block, Listed(res[i].block))[j] :
                                      j \in 1 .. 1 + Len(res[i].block.transactions)} :
                           tx.version = 1 \/ tx.outputs = 0
    BY DEF NothingHidden
  <2>1. res[i] \in Scannable
    BY DEF Inv, TypeOK
  <2>2. res[i].txs = Listed(res[i].block) /\ IsIndexed(res[i])
    BY DEF Inv, Verified, Indexed
  <2>3. PICK b \in Blocks : b = res[i].block
    BY <2>1 DEF Scannable
  <2>4. <<>> \in Seq(TxSet)
    OBVIOUS
  <2>5. Listed(b) \in Seq(TxSet) /\ Len(Listed(b)) = Len(b.transactions)
    BY <2>4, ListedAreTxs, Zenon
  <2>6. PICK t \in Seq(TxSet) : t = AllTxs(b, Listed(b)) /\ Len(t) = Len(Listed(b)) + 1
    BY <2>5, ListedAreTxs, Zenon
  <2>7. PICK n \in Nat : n = Len(b.transactions)
    BY <2>5
  <2>8. Len(t) = 1 + n
    BY <2>5, <2>6, <2>7
  <2>9. FirstRingCt(t) = 0 <=> \A j \in 1 .. 1 + n : t[j].version = 1 \/ t[j].outputs = 0
    BY <2>8, FirstRingCtIs, Zenon
  <2>10. res[i].index = None <=> FirstRingCt(t) = 0
    BY <2>2, <2>3, <2>6, Zenon DEF IsIndexed
  <2>. QED
    BY <2>3, <2>6, <2>7, <2>9, <2>10, Zenon
<1>. QED
  BY <1>1, AlwaysInv, PTL

\* Whatever the daemon sends, accepted blocks hold exactly the transactions they list, and those of a
\* range whose last is of a chain are that chain's.
THEOREM AcceptedAreAuthentic == Spec => []AcceptedIsAuthentic
<1>1. Inv => AcceptedIsAuthentic
  <2>. SUFFICES ASSUME Inv, pc = "ok" PROVE AcceptedIsAuthentic
    BY DEF AcceptedIsAuthentic
  <2>1. \A i \in 1 .. Len(res) : res[i].txs = Listed(res[i].block)
    BY DEF Inv, Verified
  <2>2. ASSUME request.kind = "range", NEW c \in Chains, last < Len(c), res[Len(res)].block = c[last + 1]
        PROVE  Len(res) = last - first + 1 /\ \A i \in 1 .. Len(res) : res[i].block = c[first + i]
    <3>0. first \in Nat /\ last \in Nat /\ res \in Seq(Scannable) /\ c \in Seq(Blocks)
      BY RequestIs, ChainsAssumption DEF Inv, TypeOK
    <3>1. PICK n \in Nat : n = Len(res)
      BY <3>0
    <3>2. PICK l \in Nat : l = Len(c)
      BY <3>0
    <3>3. /\ n = (IF last >= first THEN last - first ELSE 0) + 1
          /\ \A i \in 1 .. n : res[i].block.number = first + i - 1
          /\ \A i \in 2 .. n : res[i].block.previous = res[i - 1].block.hash
      BY <2>2, <3>1 DEF Inv, Verified, Linked, ExpectedBlocks
    <3>4. \A i \in 1 .. l : c[i].number = i - 1 /\ c[i].previous = IF i = 1 THEN Zero ELSE c[i - 1].hash
      BY <3>2, ChainsAssumption, Zenon
    <3>5. n \in 1 .. n /\ last + 1 \in 1 .. l
      BY <2>2, <3>0, <3>2, <3>3
    <3>6. first + n - 1 = (last + 1) - 1
      BY <2>2, <3>1, <3>3, <3>4, <3>5, ZenonT(60)
    <3>7. n = last - first + 1 /\ first + n = last + 1
      BY <3>0, <3>6
    <3>8. first + n \in 1 .. Len(c) /\ res[n].block = c[first + n]
      BY <2>2, <3>1, <3>2, <3>5, <3>7
    <3>9. \A i \in 1 .. n : res[i].block = c[first + i]
      <4>1. TypeOK /\ Linked
        BY DEF Inv, Verified
      <4>. QED
        BY <2>2, <3>1, <3>8, <4>1, LinkedAreOfTheChain, Zenon
    <3>. QED
      BY <3>1, <3>7, <3>9
  <2>. QED
    BY <2>1, <2>2 DEF AcceptedIsAuthentic
<1>. QED
  BY <1>1, AlwaysInv, PTL

\* A daemon which has the blocks and answers from one chain is never blamed: whichever methods its
\* responses make the client use, the fetch does not fail.
THEOREM UndisturbedSucceed == Spec => []UndisturbedFetchSucceeds
<1>1. UndisturbedFetchSucceeds <=> (Asked => pc # "err")
  BY Zenon DEF UndisturbedFetchSucceeds, Asked
<1>2. Init => UndisturbedFetchSucceeds
  BY <1>1 DEF Init
<1>3. Inv /\ Told /\ UndisturbedFetchSucceeds /\ [Next]_vars => UndisturbedFetchSucceeds'
  <2>. SUFFICES ASSUME Inv, Told, UndisturbedFetchSucceeds, [Next]_vars, Asked' PROVE pc' # "err"
    BY Zenon DEF UndisturbedFetchSucceeds, Asked
  <2>1. Asked /\ honest /\ ~disturbed /\ pc # "err"
    BY <1>1, StaysAsked, Zenon DEF Asked
  <2>2. CASE UNCHANGED vars
    BY <2>1, <2>2 DEF vars
  <2>3. CASE Step
    BY <2>1, <2>3, BlocksBinSucceeds, FetchBlockSucceeds, ExpandTransactionsSucceeds, ExpandIndexSucceeds,
       ValidateSucceeds, ValidateScannableBlockSucceeds, FullTransactionsSucceeds, CompareFullSucceeds DEF Step
  <2>4. CASE MethodNotApplicable
    BY <2>4 DEF MethodNotApplicable
  <2>5. CASE RequestFails \/ ChainChanges
    BY <2>5 DEF RequestFails, ChainChanges, Asked
  <2>. QED
    BY <2>2, <2>3, <2>4, <2>5 DEF Next, Terminated
<1>. QED
  BY <1>2, <1>3, AlwaysInv, AlwaysTold, PTL DEF Spec

\* The indexes a wallet goes by are those of a chain which has the blocks: where get_blocks.bin sent
\* all of them even if the daemon changed its chain in between, and else if it did not.
THEOREM IndexesAreOfTheChain == Spec => []IndexesOfTheChain
<1>. DEFINE Fits(c) == \A i \in 1 .. Len(res) : FromChain(res[i], c)
<1>1. ASSUME Inv, Told, Alone, honest, pc = "ok", alone => ~disturbed PROVE \E c \in served : Fits(c)
  <2>0. /\ TypeOK /\ first \in Nat /\ last \in Nat /\ res \in Seq(Scannable) /\ served \subseteq Chains
        /\ chain \in served /\ Linked
    BY <1>1, RequestIs DEF Inv, TypeOK, Verified, Told, Sourced
  <2>1. PICK n \in Nat : n = Len(res)
    BY <2>0
  <2>2. \A i \in 1 .. n : \E c \in served : FromChain(res[i], c)
    BY <1>1, <2>1, Zenon DEF Told, Sourced
  <2>3. CASE ~disturbed
    <3>1. served = {chain}
      BY <1>1, <2>3 DEF Told, Sourced
    <3>. QED
      BY <2>1, <2>2, <3>1, Zenon
  <2>4. CASE n = 0
    BY <2>0, <2>1, <2>4
  <2>5. CASE disturbed /\ n # 0
    <3>1. request.kind = "range"
      BY <1>1, <2>1, <2>5 DEF Alone
    <3>2. n \in 1 .. n /\ \A i \in 1 .. n : res[i].block.number = first + i - 1
      BY <2>1, <2>5, <3>1, <2>0 DEF Linked
    <3>3. PICK c \in served : FromChain(res[n], c)
      BY <2>2, <3>2, Zenon
    <3>4. first + n \in 1 .. Len(c) /\ res[n].block = c[first + n]
      <4>1. res[n].block.number + 1 = first + n
        BY <2>0, <3>2
      <4>2. c \in Chains
        BY <2>0
      <4>. QED
        BY <3>3, <4>1, <4>2, FromChainIs, ZenonT(60)
    <3>5. \A i \in 1 .. n : first + i \in 1 .. Len(c) /\ res[i].block = c[first + i]
      BY <2>0, <2>1, <3>1, <3>4, LinkedAreOfTheChain, Zenon
    <3>6. ASSUME NEW i \in 1 .. n PROVE FromChain(res[i], c)
      <4>1. PICK d \in served : FromChain(res[i], d)
        BY <2>2, Zenon
      <4>2. res[i].block.number + 1 = first + i /\ c \in Chains /\ d \in Chains
        BY <2>0, <3>2
      <4>3. first + i \in 1 .. Len(d) /\ res[i].block = d[first + i] /\ res[i].index = IndexIn(d, first + i)
        <5>1. PICK k : k = res[i].block.number + 1
          OBVIOUS
        <5>2. k \in 1 .. Len(d) /\ res[i].block = d[k] /\ res[i].index = IndexIn(d, k)
          BY <4>1, <4>2, <5>1, FromChainIs, Zenon
        <5>3. k = first + i
          BY <4>2, <5>1, Zenon
        <5>. QED
          BY <5>2, <5>3, Zenon
      <4>4. PICK k \in 1 .. Len(c) : k = first + i
        BY <3>5, Zenon
      <4>5. c[k] = d[k]
        BY <3>5, <4>3, <4>4, Zenon
      <4>6. IndexIn(c, k) = IndexIn(d, k)
        BY <4>2, <4>3, <4>4, <4>5, ChainsAgree, Zenon
      <4>. QED
        BY <3>5, <4>3, <4>4, <4>6, Zenon DEF FromChain
    <3>. QED
      BY <2>1, <3>6, Zenon
  <2>. QED
    BY <2>3, <2>4, <2>5
<1>2. Inv /\ Told /\ Alone => IndexesOfTheChain
  <2>. SUFFICES ASSUME Inv, Told, Alone, honest, pc = "ok", alone => ~disturbed PROVE IndexesOfTheChain
    BY DEF IndexesOfTheChain
  <2>1. PICK c \in served : Fits(c)
    BY <1>1, Zenon
  <2>2. c \in Chains
    BY DEF Inv, TypeOK
  <2>3. ASSUME NEW i \in 1 .. Len(res)
        PROVE  LET number == res[i].block.number
                   ringct == {j \in 1 .. Len(TxsAt(c, number + 1)) :
                                TxsAt(c, number + 1)[j].version = 2 /\ TxsAt(c, number + 1)[j].outputs # 0}
               IN /\ number < Len(c) /\ res[i].block = c[number + 1]
                  /\ res[i].index = IF ringct = {} THEN None
                                    ELSE RingCtBefore(c, number + 1, CHOOSE j \in ringct : \A k \in ringct : j <= k)
    <3>1. PICK k \in 1 .. Len(c) : k = res[i].block.number + 1 /\ res[i].index = IndexIn(c, k)
      BY <2>1, <2>2, FromChainIs, Zenon
    <3>2. res[i].block.number < Len(c) /\ res[i].block = c[res[i].block.number + 1]
      BY <2>1, <2>2, FromChainIs, Zenon
    <3>3. IndexIn(c, k) =
            LET ringct == {j \in 1 .. Len(TxsAt(c, k)) : TxsAt(c, k)[j].version = 2 /\ TxsAt(c, k)[j].outputs # 0}
            IN IF ringct = {} THEN None ELSE RingCtBefore(c, k, CHOOSE j \in ringct : \A l \in ringct : j <= l)
      BY <2>2, IndexInIs, Zenon
    <3>. QED
      BY <3>1, <3>2, <3>3, Zenon
  <2>. QED
    BY <2>3, Zenon DEF IndexesOfTheChain
<1>. QED
  BY <1>2, AlwaysInv, AlwaysTold, AlwaysAlone, PTL
================================================================================
