------------------------------ MODULE ScannerProofs -----------------------------
(***************************************************************************)
(* Proofs about Scanner: what is found is on the chain, nothing sent to    *)
(* the wallet is missed, nothing found by a GuaranteedScanner burns, and   *)
(* timelocks are kept.                                                     *)
(*                                                                         *)
(* The argument is that an output found is a function of its place on the  *)
(* chain (Output): neither which key found it, nor which subaddresses were *)
(* registered, nor how often the wallet restarted, is left in it.          *)
(***************************************************************************)
EXTENDS Scanner, OrderProofs

---------------------------------------------------------------------------------
(* The RingCT outputs of transactions, and how many there are before each. *)

AllTransactions == Transactions \cup UNION {Miners[h] : h \in 1 .. MaxBlocks}

RingOutputs == UNION {{RingCT(tx)[o] : o \in 1 .. Len(RingCT(tx))} : tx \in AllTransactions}

\* The RingCT outputs of each of these transactions.
Rings(txs) == [i \in 1 .. Len(txs) |-> RingCT(txs[i])]

\* How many elements the first k of these sequences have.
Before(ss, k) == Len(FlattenSeq(SubSeq(ss, 1, k)))

\* A transaction is a record, with its timelock as read.
LEMMA TransactionIs ==
  ASSUME NEW tx \in AllTransactions
  PROVE  /\ [tx EXCEPT !.hash = @] = tx
         /\ tx.unlock_time \in Nat /\ tx.timelock = ReadTimelock(tx.unlock_time)
         /\ Len(tx.outputs) \in Nat
BY TransactionsAssumption DEF AllTransactions

\* A transaction's RingCT outputs are its outputs, if it is of version 2.
LEMMA RingIs ==
  ASSUME NEW tx \in AllTransactions
  PROVE  /\ RingCT(tx) \in Seq(RingOutputs)
         /\ Len(RingCT(tx)) = IF tx.version = 2 THEN Len(tx.outputs) ELSE 0
         /\ tx.version = 2 => \A o \in 1 .. Len(tx.outputs) :
              RingCT(tx)[o] = [hash |-> tx.hash, output |-> o, key |-> tx.outputs[o].key]
<1>1. PICK n \in Nat : n = Len(tx.outputs)
  BY TransactionIs
<1>2. CASE tx.version # 2
  <2>1. RingCT(tx) = <<>>
    BY <1>2 DEF RingCT
  <2>. QED
    BY <1>2, <2>1
<1>3. CASE tx.version = 2
  <2>1. RingCT(tx) = [o \in 1 .. n |-> [hash |-> tx.hash, output |-> o, key |-> tx.outputs[o].key]]
    BY <1>1, <1>3 DEF RingCT
  <2>2. Len(RingCT(tx)) = n
    BY <2>1
  <2>3. \A o \in 1 .. n : RingCT(tx)[o] \in RingOutputs
    BY <2>2 DEF RingOutputs
  <2>4. RingCT(tx) \in Seq(RingOutputs)
    <3>1. PICK r : r = RingCT(tx)
      OBVIOUS
    <3>2. r = [o \in 1 .. n |-> r[o]]
      BY <2>1, <3>1
    <3>3. \A o \in 1 .. n : r[o] \in RingOutputs
      BY <2>3, <3>1
    <3>4. r \in Seq(RingOutputs)
      BY <3>2, <3>3
    <3>. QED
      BY <3>1, <3>4
  <2>. QED
    BY <1>1, <1>3, <2>1, <2>2, <2>4
<1>. QED
  BY <1>2, <1>3

\* The same of several transactions.
LEMMA RingsAre ==
  ASSUME NEW txs \in Seq(AllTransactions)
  PROVE  /\ Rings(txs) \in Seq(Seq(RingOutputs))
         /\ Len(Rings(txs)) = Len(txs)
         /\ \A i \in 1 .. Len(txs) : Rings(txs)[i] = RingCT(txs[i]) /\ RingCT(txs[i]) \in Seq(RingOutputs)
<1>1. PICK n \in Nat : n = Len(txs)
  OBVIOUS
<1>2. ASSUME NEW i \in 1 .. n PROVE RingCT(txs[i]) \in Seq(RingOutputs)
  <2>1. txs[i] \in AllTransactions
    BY <1>1
  <2>. QED
    BY <2>1, RingIs
<1>3. Rings(txs) = [i \in 1 .. n |-> RingCT(txs[i])]
  BY <1>1 DEF Rings
<1>. QED
  BY <1>1, <1>2, <1>3

\* The number before grows by each sequence.
LEMMA BeforeGrows ==
  ASSUME NEW T, NEW ss \in Seq(Seq(T))
  PROVE  /\ Before(ss, 0) = 0
         /\ \A k \in 0 .. Len(ss) : Before(ss, k) \in Nat
         /\ \A k \in 1 .. Len(ss) : Before(ss, k) = Before(ss, k - 1) + Len(ss[k])
<1>1. Before(ss, 0) = 0
  <2>1. FlattenSeq(SubSeq(ss, 1, 0)) = <<>>
    BY FlattenNone, Zenon
  <2>. QED
    BY <2>1 DEF Before
<1>2. ASSUME NEW k \in 1 .. Len(ss)
      PROVE  Before(ss, k) \in Nat /\ Before(ss, k) = Before(ss, k - 1) + Len(ss[k])
  <2>1. PICK a \in Seq(T), b \in Seq(T) :
          a = FlattenSeq(SubSeq(ss, 1, k - 1)) /\ b = ss[k] /\ FlattenSeq(SubSeq(ss, 1, k)) = Cat(a, b)
    BY FlattenGrow, Zenon
  <2>2. Cat(a, b) \in Seq(T) /\ Len(Cat(a, b)) = Len(a) + Len(b)
    BY CatIs, Zenon
  <2>3. Len(Cat(a, b)) \in Nat
    BY <2>2
  <2>. QED
    BY <2>1, <2>2, <2>3, Zenon DEF Before
<1>3. ASSUME NEW k \in 0 .. Len(ss) PROVE Before(ss, k) \in Nat
  <2>1. k = 0 \/ k \in 1 .. Len(ss)
    OBVIOUS
  <2>. QED
    BY <1>1, <1>2, <2>1
<1>. QED
  BY <1>1, <1>2, <1>3

\* The index a scan takes the first output of each transaction to have: that of the first of all,
\* and how many RingCT outputs there are before.
LEMMA FirstsAre ==
  ASSUME NEW txs \in Seq(AllTransactions), NEW first \in Nat
  PROVE  \A i \in 0 .. Len(txs) : Firsts(first, txs)[i] = first + Before(Rings(txs), i)
<1>1. PICK n \in Nat : n = Len(txs)
  OBVIOUS
<1>2. PICK ss \in Seq(Seq(RingOutputs)) : ss = Rings(txs) /\ Len(ss) = n
  BY <1>1, RingsAre
<1>3. /\ Before(ss, 0) = 0
      /\ \A k \in 0 .. n : Before(ss, k) \in Nat
      /\ \A k \in 1 .. n : Before(ss, k) = Before(ss, k - 1) + Len(ss[k])
  BY <1>2, BeforeGrows, Zenon
<1>. DEFINE D(g) == [i \in 0 .. n |-> IF i = 0 THEN first ELSE NextFirst(g[i - 1], txs[i])]
            f == [i \in 0 .. n |-> first + Before(ss, i)]
            all == CHOOSE g : g = D(g)
<1>4. ASSUME NEW i \in 1 .. n PROVE f[i] = NextFirst(f[i - 1], txs[i])
  <2>1. txs[i] \in AllTransactions
    BY <1>1
  <2>2. PICK b \in Nat, c \in Nat : b = Before(ss, i - 1) /\ c = Before(ss, i)
    <3>1. i \in 0 .. n /\ i - 1 \in 0 .. n
      OBVIOUS
    <3>. QED
      BY <1>3, <3>1
  <2>3. f[i] = first + c /\ f[i - 1] = first + b
    BY <2>2
  <2>4. PICK m \in Nat : m = Len(txs[i].outputs)
    BY <2>1, TransactionIs
  <2>5. Len(ss[i]) = IF txs[i].version = 2 THEN m ELSE 0
    <3>1. ss[i] = RingCT(txs[i])
      BY <1>1, <1>2, RingsAre
    <3>. QED
      BY <2>1, <2>4, <3>1, RingIs
  <2>6. c = b + (IF txs[i].version = 2 THEN m ELSE 0)
    BY <1>3, <2>2, <2>5
  <2>7. NextFirst(first + b, txs[i]) = IF txs[i].version = 2 THEN (first + b) + m ELSE first + b
    BY <2>4 DEF NextFirst
  <2>8. first + c = IF txs[i].version = 2 THEN (first + b) + m ELSE first + b
    BY <2>6
  <2>. HIDE DEF f
  <2>. QED
    BY <2>3, <2>7, <2>8, Zenon
<1>5. f[0] = first
  BY <1>3
<1>6. f = D(f)
  <2>1. ASSUME NEW i \in 0 .. n PROVE f[i] = D(f)[i]
    <3>1. CASE i = 0
      BY <1>5, <3>1
    <3>2. CASE i # 0
      <4>1. i \in 1 .. n
        BY <3>2
      <4>2. f[i] = NextFirst(f[i - 1], txs[i])
        BY <1>4, <4>1
      <4>. HIDE DEF f
      <4>. QED
        BY <3>2, <4>2
    <3>. QED
      BY <3>1, <3>2
  <2>. QED
    BY <2>1
<1>7. all = D(all)
  BY <1>6
<1>. HIDE DEF all
<1>. DEFINE S == {i \in 0 .. n : all[i] # f[i]}
<1>8. S = {}
  <2>. SUFFICES ASSUME S # {} PROVE FALSE
    OBVIOUS
  <2>1. S \in SUBSET Nat
    OBVIOUS
  <2>2. PICK k \in S : \A m \in S : k <= m
    <3>. HIDE DEF S
    <3>. QED
      BY <2>1, LeastNatural
  <2>3. k \in 0 .. n /\ all[k] # f[k]
    OBVIOUS
  <2>4. all[k] = IF k = 0 THEN first ELSE NextFirst(all[k - 1], txs[k])
    BY <1>7, <2>3
  <2>5. CASE k = 0
    BY <1>5, <2>3, <2>4, <2>5
  <2>6. CASE k # 0
    <3>1. k - 1 \in 0 .. n /\ k \in 1 .. n /\ ~(k <= k - 1)
      BY <2>3, <2>6
    <3>2. k - 1 \notin S
      <4>. HIDE DEF S, f
      <4>. QED
        BY <2>2, <3>1
    <3>. HIDE DEF f
    <3>3. all[k - 1] = f[k - 1]
      BY <3>1, <3>2
    <3>. QED
      BY <1>4, <2>3, <2>4, <2>6, <3>1, <3>3, Zenon
  <2>. QED
    BY <2>5, <2>6
<1>9. Firsts(first, txs) = all
  BY <1>1 DEF Firsts, all
<1>10. ASSUME NEW i \in 0 .. n PROVE all[i] = first + Before(ss, i)
  BY <1>8
<1>. QED
  BY <1>1, <1>2, <1>9, <1>10, Zenon
---------------------------------------------------------------------------------
(* What an output found is, by its transaction and the index of the first output of that. *)

\* The subaddress registered for a spend key is the one whose key it is.
ScannerOK(sc) ==
  \A k \in DOMAIN sc.subaddresses :
    k = <<Wallet, k[2]>> /\ k[2] \in Nat /\ sc.subaddresses[k] = SubaddressIndex(k[2])

\* What the output's amount is opened to.
Opened(tx, o) ==
  IF tx.outputs[o].amount # None THEN [ZeroCommitment EXCEPT !.amount = tx.outputs[o].amount[1]]
  ELSE tx.proofs[1].commitments[o]

\* The payment ID of a transaction, for the output with this key.
IdFor(tx, key) ==
  LET id == payment_id(ReadExtra(tx.extra))
  IN  IF id = None THEN None ELSE Some(XorPaymentId(id[1], payment_id_xor(key.shared.ecdh)))

OutputWith(tx, first, o, id) ==
  LET key == tx.outputs[o].key
  IN  [transaction |-> tx.hash,
       index_in_transaction |-> o - 1,
       index_on_blockchain |-> first + (o - 1),
       key |-> key,
       key_offset |-> [shared |-> key.shared, subaddress |-> SubaddressIndex(key.spend[2])],
       commitment |-> Opened(tx, o),
       additional_timelock |-> tx.timelock,
       subaddress |-> SubaddressIndex(key.spend[2]),
       payment_id |-> id,
       arbitrary_data |-> arbitrary_data(ReadExtra(tx.extra))]

Output(tx, first, o) == OutputWith(tx, first, o, IdFor(tx, tx.outputs[o].key))

\* An output is the wallet's: its one-time key is over a spend key of the wallet, and derived for
\* this output, of this transaction if the scanner is guaranteed; and its amount can be opened.
Ours(guaranteed, tx, o) ==
  LET key == tx.outputs[o].key
  IN  /\ tx.version = 2
      /\ key.kind = "point"
      /\ key.spend = <<Wallet, key.spend[2]>> /\ key.spend[2] \in Nat
      /\ key.shared.o = o - 1
      /\ guaranteed => key.shared.uniqueness = Some(uniqueness(tx.inputs))
      /\ tx.outputs[o].amount # None \/ o <= Len(tx.proofs[1].commitments)

\* Whichever key finds an output, it is found as the same.
LEMMA FoundByAnyKey ==
  ASSUME NEW sc, ScannerOK(sc), NEW tx, tx.version = 2, NEW first, NEW o, NEW key,
         tx.outputs[o].key.kind = "point", Attempt(sc, tx, o, key) \notin {"continue", "error"}
  PROVE  WalletOutput(sc, tx, first, o, key) = Output(tx, first, o) /\ Ours(sc.guaranteed, tx, o)
<1>1. IsOurs(sc, tx, o, key) /\ CommitmentMatches(sc, tx, o, key)
  BY DEF Attempt
<1>. DEFINE d == Derivations(sc, tx, o, key)
            k == tx.outputs[o].key
<1>2. SpendOf(k, d.shared_key) # None /\ SpendOf(k, d.shared_key)[1] \in DOMAIN sc.subaddresses
  BY <1>1 DEF IsOurs
<1>3. k.shared = d.shared_key
  BY <1>2 DEF SpendOf
<1>4. k.spend \in DOMAIN sc.subaddresses
  BY <1>2, <1>3 DEF SpendOf, Some
<1>5. k.spend = <<Wallet, k.spend[2]>> /\ k.spend[2] \in Nat /\ sc.subaddresses[k.spend] = SubaddressIndex(k.spend[2])
  BY <1>4 DEF ScannerOK
<1>6. d.shared_key = [uniqueness |-> IF sc.guaranteed THEN Some(uniqueness(tx.inputs)) ELSE None,
                      ecdh |-> Mul(View(sc.wallet), key), o |-> o - 1]
  BY DEF Derivations, output_derivations
<1>7. k.shared.o = o - 1 /\ (sc.guaranteed => k.shared.uniqueness = Some(uniqueness(tx.inputs)))
  BY <1>3, <1>6
<1>8. CommitmentOf(sc, tx, o, key) = Opened(tx, o)
  BY <1>1 DEF CommitmentMatches, CommitmentOf, Opened
<1>9. tx.outputs[o].amount # None \/ o <= Len(tx.proofs[1].commitments)
  BY <1>1 DEF CommitmentMatches
<1>10. Ours(sc.guaranteed, tx, o)
  BY <1>5, <1>7, <1>9 DEF Ours
<1>11. WalletOutput(sc, tx, first, o, key) = Output(tx, first, o)
  <2>. HIDE DEF d, k
  <2>1. WalletOutput(sc, tx, first, o, key) =
          [transaction |-> tx.hash,
           index_in_transaction |-> o - 1,
           index_on_blockchain |-> first + (o - 1),
           key |-> k,
           key_offset |-> [shared |-> d.shared_key, subaddress |-> sc.subaddresses[k.spend]],
           commitment |-> CommitmentOf(sc, tx, o, key),
           additional_timelock |-> tx.timelock,
           subaddress |-> sc.subaddresses[k.spend],
           payment_id |-> IF payment_id(ReadExtra(tx.extra)) = None THEN None
                          ELSE Some(XorPaymentId(payment_id(ReadExtra(tx.extra))[1], payment_id_xor(d.shared_key.ecdh))),
           arbitrary_data |-> arbitrary_data(ReadExtra(tx.extra))]
    BY Zenon DEF WalletOutput, d, k
  <2>. QED
    BY <1>3, <1>5, <1>8, <2>1, Zenon DEF Output, OutputWith, IdFor, k
<1>. QED
  BY <1>10, <1>11

\* What scanning a transaction may find.
OutputsOf(guaranteed, tx, first) ==
  {Output(tx, first, o) : o \in {o \in 1 .. Len(tx.outputs) : Ours(guaranteed, tx, o)}}

\* What is found of an output is nothing, or that output.
LEMMA OutputFound ==
  ASSUME NEW sc, ScannerOK(sc), NEW tx, tx.version = 2, NEW first, NEW o \in 1 .. Len(tx.outputs)
  PROVE  ScanOutput(sc, tx, first, o).outputs \in Seq(OutputsOf(sc.guaranteed, tx, first))
<1>. DEFINE keys == KeysFor(ReadExtra(tx.extra), o)
            ends == {k \in 1 .. Len(keys) : Attempt(sc, tx, o, keys[k]) # "continue"}
            k == CHOOSE k \in ends : \A l \in ends : k <= l
            T == OutputsOf(sc.guaranteed, tx, first)
<1>1. CASE tx.outputs[o].key.kind # "point" \/ ends = {}
  <2>1. ScanOutput(sc, tx, first, o) = Ok(<<>>)
    BY <1>1 DEF ScanOutput
  <2>. QED
    BY <2>1 DEF Ok
<1>2. CASE /\ ~(tx.outputs[o].key.kind # "point" \/ ends = {})
           /\ Attempt(sc, tx, o, keys[k]) = "error" \/ first + (o - 1) > U64Max
  <2>1. ScanOutput(sc, tx, first, o) = Err
    BY <1>2, Zenon DEF ScanOutput
  <2>. QED
    BY <2>1 DEF Err
<1>3. CASE /\ ~(tx.outputs[o].key.kind # "point" \/ ends = {})
           /\ ~(Attempt(sc, tx, o, keys[k]) = "error" \/ first + (o - 1) > U64Max)
  <2>1. ScanOutput(sc, tx, first, o) = Ok(<<WalletOutput(sc, tx, first, o, keys[k])>>)
    BY <1>3, Zenon DEF ScanOutput
  <2>2. ends \in SUBSET Nat
    OBVIOUS
  <2>3. \E l \in ends : \A m \in ends : l <= m
    <3>. HIDE DEF ends
    <3>. QED
      BY <1>3, <2>2, LeastNatural
  <2>4. k \in ends
    <3>. HIDE DEF ends
    <3>. QED
      BY <2>3
  <2>5. Attempt(sc, tx, o, keys[k]) \notin {"continue", "error"}
    <3>. HIDE DEF k
    <3>. QED
      BY <1>3, <2>4
  <2>. HIDE DEF k, ends, keys
  <2>6. /\ WalletOutput(sc, tx, first, o, keys[k]) = Output(tx, first, o)
        /\ Ours(sc.guaranteed, tx, o)
    BY <1>3, <2>5, FoundByAnyKey, ZenonT(60)
  <2>7. Output(tx, first, o) \in T
    BY <2>6, Zenon DEF OutputsOf
  <2>8. <<Output(tx, first, o)>> \in Seq(T)
    <3>. HIDE DEF T
    <3>. QED
      BY <2>7
  <2>. QED
    BY <2>1, <2>6, <2>8 DEF Ok
<1>. QED
  BY <1>1, <1>2, <1>3, Zenon

\* What each of several results finds.
Each(n, results) == [i \in 1 .. n |-> results[i].outputs]

\* What several results find is what each does, or it is an error if one is.
LEMMA AllOfIs ==
  ASSUME NEW T, NEW n \in Nat, NEW results,
         \A i \in 1 .. n : results[i].outputs \in Seq(T)
  PROVE  /\ AllOf(n, results) = IF \A j \in 1 .. n : results[j].ok THEN Ok(FlattenSeq(Each(n, results))) ELSE Err
         /\ FlattenSeq(Each(n, results)) \in Seq(T)
<1>1. PICK ss \in Seq(Seq(T)) : Len(ss) = n /\ \A i \in 1 .. n : ss[i] = results[i].outputs
  <2>1. PICK ss : ss = [i \in 1 .. n |-> results[i].outputs]
    OBVIOUS
  <2>2. ss \in Seq(Seq(T)) /\ Len(ss) = n /\ \A i \in 1 .. n : ss[i] = results[i].outputs
    BY <2>1
  <2>. QED
    BY <2>2, Zenon
<1>. DEFINE D(g) == [i \in 0 .. n |-> IF i = 0 THEN Ok(<<>>) ELSE AndThen(g[i - 1], results[i])]
            fl(i) == FlattenSeq(SubSeq(ss, 1, i))
            fine(i) == \A j \in 1 .. i : results[j].ok
            f == [i \in 0 .. n |-> IF fine(i) THEN Ok(fl(i)) ELSE Err]
            all == CHOOSE g : g = D(g)
<1>2. f[0] = Ok(<<>>)
  <2>1. fl(0) = <<>>
    BY FlattenNone, Zenon
  <2>2. fine(0)
    OBVIOUS
  <2>3. f[0] = Ok(fl(0))
    <3>. HIDE DEF fl, fine
    <3>. QED
      BY <2>2
  <2>. HIDE DEF f, fl
  <2>. QED
    BY <2>1, <2>3
<1>3. \A o : Ok(o).ok = TRUE /\ Ok(o).outputs = o /\ Err.ok = FALSE /\ Err.outputs = <<>>
  BY DEF Ok, Err
<1>4. ASSUME NEW i \in 1 .. n PROVE f[i] = AndThen(f[i - 1], results[i]) /\ fl(i) \in Seq(T)
  <2>1. fl(i) = fl(i - 1) \o results[i].outputs /\ fl(i) \in Seq(T)
    BY <1>1, FlattenGrow, Zenon DEF Cat
  <2>2. fine(i) <=> fine(i - 1) /\ results[i].ok
    <3>1. \A j : j \in 1 .. i <=> j \in 1 .. (i - 1) \/ j = i
      OBVIOUS
    <3>. QED
      BY <3>1, Zenon
  <2>3. /\ f[i] = IF fine(i) THEN Ok(fl(i)) ELSE Err
        /\ f[i - 1] = IF fine(i - 1) THEN Ok(fl(i - 1)) ELSE Err
    <3>1. i \in 0 .. n /\ i - 1 \in 0 .. n
      OBVIOUS
    <3>. HIDE DEF fl, fine
    <3>. QED
      BY <3>1, Zenon
  <2>. HIDE DEF f, fl, fine
  <2>4. CASE fine(i - 1)
    <3>1. f[i - 1].ok = TRUE /\ f[i - 1].outputs = fl(i - 1)
      BY <1>3, <2>3, <2>4, Zenon
    <3>2. CASE results[i].ok
      BY <2>1, <2>2, <2>3, <2>4, <3>1, <3>2, Zenon DEF AndThen
    <3>3. CASE ~results[i].ok
      BY <2>2, <2>3, <3>3, <2>1, Zenon DEF AndThen
    <3>. QED
      BY <3>2, <3>3, Zenon
  <2>5. CASE ~fine(i - 1)
    <3>1. f[i - 1].ok = FALSE /\ f[i] = Err
      BY <1>3, <2>2, <2>3, <2>5, Zenon
    <3>. QED
      BY <2>1, <3>1, Zenon DEF AndThen
  <2>. QED
    BY <2>4, <2>5, Zenon
<1>5. f = D(f)
  <2>1. ASSUME NEW i \in 0 .. n PROVE f[i] = D(f)[i]
    <3>. HIDE DEF f
    <3>1. CASE i = 0
      BY <1>2, <3>1
    <3>2. CASE i # 0
      <4>1. i \in 1 .. n
        BY <3>2
      <4>. QED
        BY <1>4, <3>2, <4>1
    <3>. QED
      BY <3>1, <3>2
  <2>. HIDE DEF fl, fine
  <2>. QED
    BY <2>1
<1>6. all = D(all)
  <2>. HIDE DEF f, D
  <2>. QED
    BY <1>5, Zenon DEF all
<1>. HIDE DEF all, f, fl
<1>. DEFINE S == {i \in 0 .. n : all[i] # f[i]}
<1>7. S = {}
  <2>. SUFFICES ASSUME S # {} PROVE FALSE
    OBVIOUS
  <2>1. S \in SUBSET Nat
    OBVIOUS
  <2>2. PICK k \in S : \A m \in S : k <= m
    <3>. HIDE DEF S
    <3>. QED
      BY <2>1, LeastNatural
  <2>3. k \in 0 .. n /\ all[k] # f[k]
    OBVIOUS
  <2>4. all[k] = IF k = 0 THEN Ok(<<>>) ELSE AndThen(all[k - 1], results[k])
    BY <1>6, <2>3
  <2>5. CASE k = 0
    BY <1>2, <2>3, <2>4, <2>5
  <2>6. CASE k # 0
    <3>1. k - 1 \in 0 .. n /\ k \in 1 .. n /\ ~(k <= k - 1)
      BY <2>3, <2>6
    <3>2. k - 1 \notin S
      <4>. HIDE DEF S
      <4>. QED
        BY <2>2, <3>1
    <3>3. all[k - 1] = f[k - 1]
      BY <3>1, <3>2
    <3>. QED
      BY <1>4, <2>3, <2>4, <2>6, <3>1, <3>3, Zenon
  <2>. QED
    BY <2>5, <2>6
<1>8. AllOf(n, results) = f[n]
  <2>1. AllOf(n, results) = all[n]
    BY DEF AllOf, all
  <2>2. n \in 0 .. n
    OBVIOUS
  <2>. QED
    BY <1>7, <2>1, <2>2
<1>9. fl(n) \in Seq(T)
  <2>1. CASE n = 0
    <3>1. fl(n) = <<>>
      BY <2>1, FlattenNone, Zenon DEF fl
    <3>2. <<>> \in Seq(T)
      OBVIOUS
    <3>. QED
      BY <3>1, <3>2, Zenon
  <2>2. CASE n # 0
    <3>1. n \in 1 .. n
      BY <2>2
    <3>. QED
      BY <1>4, <3>1, Zenon
  <2>. QED
    BY <2>1, <2>2
<1>10. f[n] = IF fine(n) THEN Ok(fl(n)) ELSE Err
  <2>1. n \in 0 .. n
    OBVIOUS
  <2>. QED
    BY <2>1, Zenon DEF f
<1>11. fl(n) = FlattenSeq(Each(n, results))
  <2>1. SubSeq(ss, 1, n) = ss
    BY <1>1, SubSeqFull, Zenon
  <2>2. ss = Each(n, results)
    <3>1. ss = [i \in 1 .. n |-> ss[i]]
      BY <1>1
    <3>2. [i \in 1 .. n |-> ss[i]] = [i \in 1 .. n |-> results[i].outputs]
      BY <1>1, Zenon
    <3>. QED
      BY <3>1, <3>2, Zenon DEF Each
  <2>. QED
    BY <2>1, <2>2, Zenon DEF fl
<1>. QED
  BY <1>8, <1>9, <1>10, <1>11, Zenon

LEMMA AllFound ==
  ASSUME NEW T, NEW n \in Nat, NEW results,
         \A i \in 1 .. n : results[i].outputs \in Seq(T)
  PROVE  /\ AllOf(n, results).outputs \in Seq(T)
         /\ AllOf(n, results) = Err \/ \E o : AllOf(n, results) = Ok(o)
<1>1. \A o : Ok(o).outputs = o /\ Err.outputs = <<>> /\ <<>> \in Seq(T)
  BY DEF Ok, Err
<1>2. /\ AllOf(n, results) = Ok(FlattenSeq(Each(n, results))) \/ AllOf(n, results) = Err
      /\ FlattenSeq(Each(n, results)) \in Seq(T)
  BY AllOfIs, Zenon
<1>. QED
  BY <1>1, <1>2, Zenon

Among(outputs, w) == \E p \in 1 .. Len(outputs) : outputs[p] = w

IsAll(n, results, all) ==
  /\ (\A i \in 1 .. n : results[i].ok) => all.ok
  /\ all.ok => \A i \in 1 .. n :
       results[i].ok /\ \A k \in 1 .. Len(results[i].outputs) : Among(all.outputs, results[i].outputs[k])

\* All is found if nothing is an error, and then what each result found is.
LEMMA AllOfHas ==
  ASSUME NEW T, NEW n \in Nat, NEW results,
         \A i \in 1 .. n : results[i].outputs \in Seq(T)
  PROVE  IsAll(n, results, AllOf(n, results))
<1>. DEFINE ss == Each(n, results)
            fine == \A i \in 1 .. n : results[i].ok
            fl == FlattenSeq(ss)
<1>1. \A o : Ok(o).ok = TRUE /\ Ok(o).outputs = o /\ Err.ok = FALSE
  BY DEF Ok, Err
<1>2. AllOf(n, results) = (IF fine THEN Ok(fl) ELSE Err) /\ fl \in Seq(T)
  BY AllOfIs, Zenon
<1>3. ss \in Seq(Seq(T)) /\ Len(ss) = n /\ \A i \in 1 .. n : ss[i] = results[i].outputs
  BY DEF Each
<1>. HIDE DEF ss, fl, fine
<1>4. ASSUME NEW i \in 1 .. n, NEW k \in 1 .. Len(results[i].outputs)
      PROVE  Among(fl, results[i].outputs[k])
  <2>1. i \in 1 .. Len(ss) /\ ss[i] = results[i].outputs /\ ss[i] \in Seq(T)
    BY <1>3, Zenon
  <2>2. k \in 1 .. Len(ss[i])
    BY <2>1
  <2>3. PICK b : b = Before(ss, i - 1)
    OBVIOUS
  <2>4. fl[b + k] = ss[i][k] /\ b + k <= Len(fl)
    BY <1>3, <2>1, <2>2, <2>3, FlattenAt, ZenonT(60) DEF Before, fl
  <2>5. b \in Nat
    <3>1. i - 1 \in 0 .. Len(ss)
      BY <1>3, <2>1
    <3>. QED
      BY <1>3, <2>3, <3>1, BeforeGrows, Zenon
  <2>6. b + k \in 1 .. Len(fl)
    BY <1>2, <2>2, <2>4, <2>5
  <2>. QED
    BY <2>1, <2>4, <2>6, Zenon DEF Among
<1>5. CASE fine
  <2>1. AllOf(n, results).ok = TRUE /\ AllOf(n, results).outputs = fl
    BY <1>1, <1>2, <1>5, Zenon
  <2>. QED
    BY <1>4, <1>5, <2>1, Zenon DEF fine, IsAll
<1>6. CASE ~fine
  <2>1. AllOf(n, results).ok = FALSE
    BY <1>1, <1>2, <1>6, Zenon
  <2>. QED
    BY <1>6, <2>1, Zenon DEF fine, IsAll
<1>. QED
  BY <1>5, <1>6, Zenon

\* What is found in a transaction is that transaction's outputs.
LEMMA TransactionFound ==
  ASSUME NEW sc, ScannerOK(sc), NEW tx \in AllTransactions, NEW first
  PROVE  scan_transaction(sc, first, tx).outputs \in Seq(OutputsOf(sc.guaranteed, tx, first))
<1>. DEFINE T == OutputsOf(sc.guaranteed, tx, first)
<1>1. CASE tx.version # 2
  <2>1. scan_transaction(sc, first, tx) = Ok(<<>>)
    BY <1>1 DEF scan_transaction
  <2>. QED
    BY <2>1 DEF Ok
<1>2. CASE tx.version = 2
  <2>1. PICK n \in Nat : n = Len(tx.outputs)
    BY TransactionIs
  <2>2. PICK results : results = [o \in 1 .. n |-> ScanOutput(sc, tx, first, o)]
    OBVIOUS
  <2>3. Len(results) = n
    BY <2>2
  <2>4. ASSUME NEW o \in 1 .. n PROVE results[o].outputs \in Seq(T)
    <3>1. results[o] = ScanOutput(sc, tx, first, o)
      BY <2>2
    <3>. QED
      BY <1>2, <2>1, <3>1, OutputFound, Zenon
  <2>5. scan_transaction(sc, first, tx) = AllOf(n, results)
    BY <1>2, <2>1, <2>2 DEF scan_transaction
  <2>. HIDE DEF T
  <2>6. AllOf(n, results).outputs \in Seq(T)
    BY <2>3, <2>4, AllFound, Zenon
  <2>. QED
    BY <2>5, <2>6 DEF T
<1>. QED
  BY <1>1, <1>2

\* A block as the chain has it: its hashes are those of its transactions.
BlockOK(block) ==
  /\ block.miner \in AllTransactions
  /\ block.transactions \in Seq(AllTransactions)
  /\ Len(block.hashes) = Len(block.transactions)
  /\ \A i \in 1 .. Len(block.transactions) : block.hashes[i] = block.transactions[i].hash

\* A block's transactions are its miner's, then its others.
LEMMA BlockTransactionsAre ==
  ASSUME NEW block, BlockOK(block)
  PROVE  /\ BlockTransactions(block) \in Seq(AllTransactions)
         /\ Len(BlockTransactions(block)) = 1 + Len(block.transactions)
         /\ BlockTransactions(block)[1] = block.miner
         /\ \A i \in 1 .. Len(block.transactions) : BlockTransactions(block)[1 + i] = block.transactions[i]
<1>1. PICK m \in AllTransactions, t \in Seq(AllTransactions) : m = block.miner /\ t = block.transactions
  BY DEF BlockOK
<1>2. PICK a \in Seq(AllTransactions) : a = <<m>> /\ Len(a) = 1 /\ a[1] = m
  <2>1. <<m>> \in Seq(AllTransactions) /\ Len(<<m>>) = 1 /\ <<m>>[1] = m
    OBVIOUS
  <2>. QED
    BY <2>1, Zenon
<1>3. /\ Cat(a, t) \in Seq(AllTransactions) /\ Len(Cat(a, t)) = 1 + Len(t)
      /\ Cat(a, t)[1] = m
  <2>1. /\ Cat(a, t) \in Seq(AllTransactions) /\ Len(Cat(a, t)) = Len(a) + Len(t)
        /\ \A i \in 1 .. Len(a) : Cat(a, t)[i] = a[i]
    BY CatIs, Zenon
  <2>2. 1 \in 1 .. Len(a)
    BY <1>2
  <2>. QED
    BY <1>2, <2>1, <2>2, Zenon
<1>4. ASSUME NEW i \in 1 .. Len(t) PROVE Cat(a, t)[1 + i] = t[i]
  <2>1. Cat(a, t)[Len(a) + i] = t[i]
    BY CatSecond, Zenon
  <2>. QED
    BY <1>2, <2>1, Zenon
<1>5. BlockTransactions(block) = Cat(a, t)
  BY <1>1, <1>2 DEF BlockTransactions, Cat
<1>. QED
  BY <1>1, <1>3, <1>4, <1>5

\* What scanning each transaction of a block comes to, where its first RingCT output has this index.
FirstOf(block, first, i) == first + Before(Rings(BlockTransactions(block)), i - 1)
Scans(sc, block, first, i) ==
  IF first + Before(Rings(BlockTransactions(block)), i) > U64Max THEN Err
  ELSE scan_transaction(sc, FirstOf(block, first, i), BlockTransactions(block)[i])

\* What scanning a block may find, but for what it does to payment IDs.
BlockOutputs(sc, block, first) ==
  UNION {OutputsOf(sc.guaranteed, BlockTransactions(block)[i], FirstOf(block, first, i)) :
           i \in 1 .. Len(BlockTransactions(block))}

IsScan(sc, block, first, all) ==
  IF block.hardfork > 16 THEN scan(sc, block) = Err
  ELSE /\ scan(sc, block).ok = all.ok
       /\ scan(sc, block).outputs = [i \in 1 .. Len(all.outputs) |-> KeepPaymentId(block.hardfork, all.outputs[i])]

\* Scanning a block is scanning all of its transactions.
LEMMA ScanIs ==
  ASSUME NEW sc, ScannerOK(sc), NEW block, BlockOK(block), NEW first \in Nat, block.index = Some(first)
  PROVE  \E results :
           /\ \A i \in 1 .. Len(BlockTransactions(block)) :
                /\ results[i] = Scans(sc, block, first, i)
                /\ results[i].outputs \in Seq(BlockOutputs(sc, block, first))
           /\ AllOf(Len(BlockTransactions(block)), results).outputs \in Seq(BlockOutputs(sc, block, first))
           /\ IsScan(sc, block, first, AllOf(Len(BlockTransactions(block)), results))
<1>1. PICK txs \in Seq(AllTransactions) : txs = BlockTransactions(block)
  BY BlockTransactionsAre
<1>2. PICK n \in Nat : n = Len(txs)
  OBVIOUS
<1>3. <<block.miner>> \o [i \in 1 .. Len(block.transactions) |->
                            [block.transactions[i] EXCEPT !.hash = block.hashes[i]]] = txs
  <2>1. PICK t \in Seq(AllTransactions) : t = block.transactions
    BY DEF BlockOK
  <2>2. ASSUME NEW i \in 1 .. Len(t) PROVE [t[i] EXCEPT !.hash = block.hashes[i]] = t[i]
    <3>1. t[i] \in AllTransactions /\ block.hashes[i] = t[i].hash
      BY <2>1 DEF BlockOK
    <3>2. [t[i] EXCEPT !.hash = t[i].hash] = t[i]
      BY <3>1, TransactionIs, Zenon
    <3>. QED
      BY <3>1, <3>2, Zenon
  <2>3. [i \in 1 .. Len(t) |-> [t[i] EXCEPT !.hash = block.hashes[i]]] = [i \in 1 .. Len(t) |-> t[i]]
    BY <2>2, Zenon
  <2>4. [i \in 1 .. Len(t) |-> t[i]] = t
    OBVIOUS
  <2>. QED
    BY <1>1, <2>1, <2>3, <2>4, Zenon DEF BlockTransactions
<1>. DEFINE firsts == Firsts(first, txs)
            at(i) == FirstOf(block, first, i)
            T == BlockOutputs(sc, block, first)
<1>4. PICK results : results = [i \in 1 .. n |-> IF firsts[i] > U64Max THEN Err
                                                ELSE scan_transaction(sc, firsts[i - 1], txs[i])]
  OBVIOUS
<1>5. ASSUME NEW i \in 1 .. n PROVE results[i] = Scans(sc, block, first, i)
  <2>1. i - 1 \in 0 .. n /\ i \in 0 .. n
    OBVIOUS
  <2>2. firsts[i - 1] = at(i) /\ firsts[i] = first + Before(Rings(txs), i)
    BY <1>1, <1>2, <2>1, FirstsAre, Zenon DEF FirstOf
  <2>. HIDE DEF firsts, at
  <2>3. results[i] = IF firsts[i] > U64Max THEN Err ELSE scan_transaction(sc, firsts[i - 1], txs[i])
    BY <1>4
  <2>. QED
    BY <1>1, <2>2, <2>3, Zenon DEF Scans, at
<1>6. ASSUME NEW i \in 1 .. n PROVE results[i].outputs \in Seq(T)
  <2>. HIDE DEF at
  <2>1. results[i] = Err \/ results[i] = scan_transaction(sc, at(i), txs[i])
    BY <1>1, <1>5, Zenon DEF Scans, at
  <2>2. CASE results[i] = Err
    BY <2>2 DEF Err
  <2>3. CASE results[i] = scan_transaction(sc, at(i), txs[i])
    <3>. DEFINE S == OutputsOf(sc.guaranteed, txs[i], at(i))
    <3>1. txs[i] \in AllTransactions
      BY <1>2
    <3>2. results[i].outputs \in Seq(S)
      BY <2>3, <3>1, TransactionFound, Zenon
    <3>3. S \subseteq T
      BY <1>1, <1>2, Zenon DEF BlockOutputs, at
    <3>. HIDE DEF S, T
    <3>. QED
      BY <3>2, <3>3
  <2>. QED
    BY <2>1, <2>2, <2>3
<1>. DEFINE all == AllOf(n, results)
<1>7. all.outputs \in Seq(T) /\ (all = Err \/ \E o : all = Ok(o))
  <2>. HIDE DEF T
  <2>. QED
    BY <1>6, AllFound, ZenonT(60)
<1>8. IsScan(sc, block, first, all)
  <2>1. block.index[1] = first /\ block.index # None
    BY DEF Some, None
  <2>2. Len(block.hashes) = Len(block.transactions)
    BY DEF BlockOK
  <2>3. scan(sc, block) = IF block.hardfork > 16 THEN Err
                          ELSE [all EXCEPT !.outputs = [i \in 1 .. Len(@) |-> KeepPaymentId(block.hardfork, @[i])]]
    BY <1>2, <1>3, <1>4, <2>1, <2>2, Zenon DEF scan
  <2>4. all = [ok |-> all.ok, outputs |-> all.outputs]
    <3>. HIDE DEF all
    <3>. QED
      BY <1>7 DEF Err, Ok
  <2>. HIDE DEF all
  <2>5. CASE block.hardfork > 16
    BY <2>3, <2>5, Zenon DEF IsScan
  <2>6. CASE ~(block.hardfork > 16)
    <3>. DEFINE kept == [i \in 1 .. Len(all.outputs) |-> KeepPaymentId(block.hardfork, all.outputs[i])]
    <3>1. scan(sc, block) = [all EXCEPT !.outputs = kept]
      BY <2>3, <2>6, Zenon
    <3>. HIDE DEF kept
    <3>2. scan(sc, block).ok = all.ok /\ scan(sc, block).outputs = kept
      BY <2>4, <3>1
    <3>. QED
      BY <2>6, <3>2, Zenon DEF IsScan, kept
  <2>. QED
    BY <2>5, <2>6
<1>. QED
  BY <1>1, <1>2, <1>5, <1>6, <1>7, <1>8, Zenon

\* An output found is one of a block's, whose first RingCT output has this index, and the wallet's.
FoundIn(w, block, first, guaranteed) ==
  LET txs == BlockTransactions(block)
  IN  \E i \in 1 .. Len(txs) : \E o \in 1 .. Len(txs[i].outputs) :
        /\ Ours(guaranteed, txs[i], o)
        /\ w = KeepPaymentId(block.hardfork, Output(txs[i], first + Before(Rings(txs), i - 1), o))

\* What is found in a block is its transactions' outputs, with their indexes.
LEMMA BlockFound ==
  ASSUME NEW sc, ScannerOK(sc), NEW block, BlockOK(block), NEW first \in Nat, block.index = Some(first),
         NEW p \in 1 .. Len(scan(sc, block).outputs)
  PROVE  FoundIn(scan(sc, block).outputs[p], block, first, sc.guaranteed)
<1>. DEFINE T == BlockOutputs(sc, block, first)
            txs == BlockTransactions(block)
<1>1. PICK results : /\ AllOf(Len(txs), results).outputs \in Seq(T)
                     /\ IsScan(sc, block, first, AllOf(Len(txs), results))
  BY ScanIs, Zenon
<1>2. PICK outs \in Seq(T) : outs = AllOf(Len(txs), results).outputs
  BY <1>1, Zenon
<1>3. scan(sc, block) = Err
        \/ scan(sc, block).outputs = [i \in 1 .. Len(outs) |-> KeepPaymentId(block.hardfork, outs[i])]
  BY <1>1, <1>2, Zenon DEF IsScan
<1>4. p \in 1 .. Len(outs) /\ scan(sc, block).outputs[p] = KeepPaymentId(block.hardfork, outs[p])
  <2>. HIDE DEF T
  <2>1. scan(sc, block) # Err
    BY DEF Err
  <2>. QED
    BY <1>3, <2>1
<1>5. outs[p] \in T
  <2>. HIDE DEF T
  <2>. QED
    BY <1>4
<1>6. PICK i \in 1 .. Len(txs) : outs[p] \in OutputsOf(sc.guaranteed, txs[i], FirstOf(block, first, i))
  BY <1>5, Zenon DEF BlockOutputs
<1>7. PICK o \in 1 .. Len(txs[i].outputs) :
        Ours(sc.guaranteed, txs[i], o) /\ outs[p] = Output(txs[i], FirstOf(block, first, i), o)
  BY <1>6, Zenon DEF OutputsOf
<1>. QED
  BY <1>4, <1>7, Zenon DEF FoundIn, FirstOf

---------------------------------------------------------------------------------
(* What is written is read back. *)

\* A timelock written is read as it was.
LEMMA TimelockRead ==
  ASSUME NEW n \in Nat
  PROVE  ReadTimelock(Raw(ReadTimelock(n))) = ReadTimelock(n)
<1>1. Raw(ReadTimelock(n)) = n
  BY BoundsAssumption DEF Raw, ReadTimelock
<1>. QED
  BY <1>1

\* A payment ID which may be written.
IsId(id) ==
  id = None \/ \E kind \in {"unencrypted", "encrypted"} : \E x : id = Some([kind |-> kind, id |-> x])

\* What an output carries as its payment ID is a payment ID, or none.
LEMMA IdForIs == ASSUME NEW tx, NEW key PROVE IsId(IdFor(tx, key))
<1>. DEFINE id == payment_id(ReadExtra(tx.extra))
<1>1. CASE id = None
  BY <1>1 DEF IdFor, IsId
<1>2. CASE id # None
  <2>. DEFINE nonce == OfTag(ReadExtra(tx.extra), "Nonce")[1].nonce
  <2>1. id = Some([kind |-> nonce.kind, id |-> nonce.value]) /\ nonce.kind \in {"unencrypted", "encrypted"}
    <3>1. payment_id(ReadExtra(tx.extra)) # None
      BY <1>2
    <3>. QED
      BY <3>1, Zenon DEF payment_id
  <2>2. id[1] = [kind |-> nonce.kind, id |-> nonce.value]
    BY <2>1 DEF Some
  <2>. HIDE DEF nonce
  <2>3. PICK x : XorPaymentId(id[1], payment_id_xor(key.shared.ecdh)) = [kind |-> nonce.kind, id |-> x]
    <3>. DEFINE mask == payment_id_xor(key.shared.ecdh)
                r == [kind |-> nonce.kind, id |-> nonce.value]
                y == IF r.kind = "encrypted" THEN Xor(r.id, mask) ELSE r.id
    <3>1. XorPaymentId(r, mask) = [kind |-> nonce.kind, id |-> y]
      BY DEF XorPaymentId
    <3>. QED
      BY <2>2, <3>1, Zenon
  <2>4. IdFor(tx, key) = Some([kind |-> nonce.kind, id |-> x])
    BY <1>2, <2>3, Zenon DEF IdFor
  <2>. QED
    BY <2>1, <2>4, Zenon DEF IsId
<1>. QED
  BY <1>1, <1>2

\* A payment ID written is read as it was.
LEMMA IdRead ==
  ASSUME NEW id, IsId(id)
  PROVE  (IF WriteOption(id, PaymentIdBytes)[1] = 1
          THEN Some(ReadPaymentId(WriteOption(id, PaymentIdBytes)[2])) ELSE None) = id
<1>1. CASE id = None
  <2>1. WriteOption(id, PaymentIdBytes) = <<0>>
    BY <1>1 DEF WriteOption
  <2>. QED
    BY <1>1, <2>1
<1>2. ASSUME NEW kind \in {"unencrypted", "encrypted"}, NEW x, id = Some([kind |-> kind, id |-> x])
      PROVE  (IF WriteOption(id, PaymentIdBytes)[1] = 1
              THEN Some(ReadPaymentId(WriteOption(id, PaymentIdBytes)[2])) ELSE None) = id
  <2>1. id # None /\ id[1] = [kind |-> kind, id |-> x]
    BY <1>2 DEF None, Some
  <2>2. WriteOption(id, PaymentIdBytes) = <<1, [marker |-> IF kind = "unencrypted" THEN 0 ELSE 1, id |-> x]>>
    BY <2>1 DEF WriteOption, PaymentIdBytes
  <2>3. ReadPaymentId([marker |-> IF kind = "unencrypted" THEN 0 ELSE 1, id |-> x]) = [kind |-> kind, id |-> x]
    BY DEF ReadPaymentId
  <2>. QED
    BY <1>2, <2>2, <2>3
<1>. QED
  BY <1>1, <1>2, Zenon DEF IsId

\* A subaddress written is read as it was, the primary address as none.
LEMMA SubaddressRead ==
  ASSUME NEW n \in Nat
  PROVE  LET written == WriteOption(SubaddressIndex(n), Identity)
         IN  (IF written[1] = 0 THEN None ELSE SubaddressIndex(written[2])) = SubaddressIndex(n)
<1>1. CASE n = 0
  BY <1>1 DEF SubaddressIndex, WriteOption
<1>2. CASE n # 0
  <2>1. SubaddressIndex(n) = Some(n) /\ SubaddressIndex(n) # None /\ SubaddressIndex(n)[1] = n
    BY <1>2 DEF SubaddressIndex, Some, None
  <2>2. WriteOption(SubaddressIndex(n), Identity) = <<1, n>>
    BY <2>1 DEF WriteOption, Identity
  <2>. QED
    BY <2>2
<1>. QED
  BY <1>1, <1>2

\* Restarting changes no output.
LEMMA OutputRead ==
  ASSUME NEW w, NEW sub \in Nat, NEW lock \in Nat, IsId(w.payment_id),
         w = [transaction |-> w.transaction,
              index_in_transaction |-> w.index_in_transaction,
              index_on_blockchain |-> w.index_on_blockchain,
              key |-> w.key,
              key_offset |-> w.key_offset,
              commitment |-> w.commitment,
              additional_timelock |-> ReadTimelock(lock),
              subaddress |-> SubaddressIndex(sub),
              payment_id |-> w.payment_id,
              arbitrary_data |-> w.arbitrary_data]
  PROVE  ReadOutput(WriteOutput(w)) = w
<1>1. w.additional_timelock = ReadTimelock(lock) /\ w.subaddress = SubaddressIndex(sub)
  OBVIOUS
<1>. DEFINE b == WriteOutput(w)
<1>2. /\ b.ids[1] = w.transaction /\ b.ids[2] = w.index_in_transaction /\ b.ids[3] = w.index_on_blockchain
      /\ b.data[1] = w.key /\ b.data[2] = w.key_offset /\ b.data[3] = w.commitment
      /\ b.timelock = Raw(w.additional_timelock)
      /\ b.subaddress = WriteOption(w.subaddress, Identity)
      /\ b.payment_id = WriteOption(w.payment_id, PaymentIdBytes)
      /\ b.arbitrary_data = w.arbitrary_data
  BY DEF WriteOutput
<1>. HIDE DEF b
<1>3. ReadTimelock(b.timelock) = w.additional_timelock
  BY <1>1, <1>2, TimelockRead, Zenon
<1>4. (IF b.subaddress[1] = 0 THEN None ELSE SubaddressIndex(b.subaddress[2])) = w.subaddress
  BY <1>1, <1>2, SubaddressRead, Zenon
<1>5. (IF b.payment_id[1] = 1 THEN Some(ReadPaymentId(b.payment_id[2])) ELSE None) = w.payment_id
  BY <1>2, IdRead, Zenon
<1>6. ReadOutput(b) =
        [transaction |-> w.transaction,
         index_in_transaction |-> w.index_in_transaction,
         index_on_blockchain |-> w.index_on_blockchain,
         key |-> w.key,
         key_offset |-> w.key_offset,
         commitment |-> w.commitment,
         additional_timelock |-> w.additional_timelock,
         subaddress |-> w.subaddress,
         payment_id |-> w.payment_id,
         arbitrary_data |-> w.arbitrary_data]
  BY <1>2, <1>3, <1>4, <1>5, Zenon DEF ReadOutput
<1>. QED
  BY <1>1, <1>6, Zenon DEF b

\* What KeepPaymentId leaves alone.
LEMMA Kept ==
  ASSUME NEW hardfork, NEW tx, NEW first, NEW o
  PROVE  LET w == KeepPaymentId(hardfork, Output(tx, first, o))
         IN  IsId(w.payment_id) /\ w = OutputWith(tx, first, o, w.payment_id)
<1>. DEFINE w == KeepPaymentId(hardfork, Output(tx, first, o))
            v == Output(tx, first, o)
            id == IdFor(tx, tx.outputs[o].key)
<1>1. w = v \/ w = [v EXCEPT !.payment_id = None]
  BY Zenon DEF KeepPaymentId
<1>2. IsId(None) /\ IsId(id)
  BY IdForIs DEF IsId
<1>3. v = OutputWith(tx, first, o, id)
  BY DEF Output
<1>. HIDE DEF v, w, id
<1>4. w = OutputWith(tx, first, o, id) \/ w = OutputWith(tx, first, o, None)
  BY <1>1, <1>3 DEF OutputWith
<1>5. \A x : OutputWith(tx, first, o, x).payment_id = x
  BY DEF OutputWith
<1>6. IsId(w.payment_id) /\ w = OutputWith(tx, first, o, w.payment_id)
  BY <1>2, <1>4, <1>5, Zenon
<1>. QED
  BY <1>6, Zenon DEF w

\* Restarting leaves every output found as it is.
LEMMA FoundRead ==
  ASSUME NEW hardfork, NEW guaranteed, NEW tx \in AllTransactions, NEW first, NEW o, NEW w,
         Ours(guaranteed, tx, o), w = KeepPaymentId(hardfork, Output(tx, first, o))
  PROVE  ReadOutput(WriteOutput(w)) = w
<1>1. tx.unlock_time \in Nat /\ tx.timelock = ReadTimelock(tx.unlock_time) /\ tx.outputs[o].key.spend[2] \in Nat
  BY TransactionIs DEF Ours
<1>2. IsId(w.payment_id) /\ w = OutputWith(tx, first, o, w.payment_id)
  BY Kept, Zenon
<1>3. w = [transaction |-> w.transaction,
           index_in_transaction |-> w.index_in_transaction,
           index_on_blockchain |-> w.index_on_blockchain,
           key |-> w.key,
           key_offset |-> w.key_offset,
           commitment |-> w.commitment,
           additional_timelock |-> ReadTimelock(tx.unlock_time),
           subaddress |-> SubaddressIndex(tx.outputs[o].key.spend[2]),
           payment_id |-> w.payment_id,
           arbitrary_data |-> w.arbitrary_data]
  BY <1>1, <1>2 DEF OutputWith
<1>. QED
  BY <1>1, <1>2, <1>3, OutputRead, ZenonT(60)

---------------------------------------------------------------------------------
(* The chain. *)

Blocks ==
  [hardfork : UNION {HardForks[h] : h \in 1 .. MaxBlocks}, miner : AllTransactions,
   transactions : Seq(Transactions), hashes : Seq({tx.hash : tx \in Transactions}),
   index : {None} \cup {Some(n) : n \in Nat}]

\* The RingCT outputs of each block of a chain.
ChainRings(c) == [b \in 1 .. Len(c) |-> BlockRingCT(c[b])]

\* A chain after e outputs: each block has its height's miner transaction and the index of its first
\* output, and no transaction is mined twice.
ChainOK(c, e) ==
  /\ c \in Seq(Blocks) /\ Len(c) <= MaxBlocks
  /\ \A b \in 1 .. Len(c) :
       /\ BlockOK(c[b]) /\ c[b].miner \in Miners[b]
       /\ c[b].index = IF BlockRingCT(c[b]) = <<>> THEN None ELSE Some(e + Before(ChainRings(c), b - 1))
  /\ \A b, d \in 1 .. Len(c) :
       \A i \in 1 .. Len(c[b].transactions), j \in 1 .. Len(c[d].transactions) :
         c[b].transactions[i].hash = c[d].transactions[j].hash => b = d /\ i = j

LEMMA BlockRingIs ==
  ASSUME NEW block, BlockOK(block)
  PROVE  /\ BlockRingCT(block) = FlattenSeq(Rings(BlockTransactions(block)))
         /\ BlockRingCT(block) \in Seq(RingOutputs)
<1>1. BlockRingCT(block) = FlattenSeq(Rings(BlockTransactions(block)))
  BY Zenon DEF BlockRingCT, Rings
<1>2. Rings(BlockTransactions(block)) \in Seq(Seq(RingOutputs))
  BY BlockTransactionsAre, RingsAre, Zenon
<1>3. <<>> \in Seq(RingOutputs)
  OBVIOUS
<1>. QED
  BY <1>1, <1>2, <1>3, FlattenAppend, Zenon

LEMMA ChainRingsAre ==
  ASSUME NEW c \in Seq(Blocks), \A b \in 1 .. Len(c) : BlockOK(c[b])
  PROVE  /\ ChainRings(c) \in Seq(Seq(RingOutputs))
         /\ Len(ChainRings(c)) = Len(c)
         /\ \A b \in 1 .. Len(c) : ChainRings(c)[b] = BlockRingCT(c[b])
<1>1. PICK n \in Nat : n = Len(c)
  OBVIOUS
<1>2. \A b \in 1 .. n : BlockRingCT(c[b]) \in Seq(RingOutputs)
  BY <1>1, BlockRingIs, Zenon
<1>3. ChainRings(c) = [b \in 1 .. n |-> BlockRingCT(c[b])]
  BY <1>1 DEF ChainRings
<1>. QED
  BY <1>1, <1>2, <1>3

\* A block more leaves those before it where they are.
LEMMA BlocksStay ==
  ASSUME NEW c \in Seq(Blocks), \A b \in 1 .. Len(c) : BlockOK(c[b]), NEW block \in Blocks, BlockOK(block)
  PROVE  /\ Append(c, block) \in Seq(Blocks) /\ Len(Append(c, block)) = Len(c) + 1
         /\ Append(c, block)[Len(c) + 1] = block
         /\ \A b \in 1 .. Len(c) : Append(c, block)[b] = c[b]
         /\ \A b \in 1 .. Len(c) + 1 : BlockOK(Append(c, block)[b])
         /\ \A k \in 0 .. Len(c) : Before(ChainRings(Append(c, block)), k) = Before(ChainRings(c), k)
         /\ Before(ChainRings(c), Len(c)) = Len(FlattenSeq(ChainRings(c)))
<1>1. PICK n \in Nat : n = Len(c)
  OBVIOUS
<1>2. PICK u \in Seq(Blocks) : u = Append(c, block) /\ Len(u) = n + 1 /\ u[n + 1] = block
                               /\ \A b \in 1 .. n : u[b] = c[b]
  <2>1. /\ Append(c, block) \in Seq(Blocks) /\ Len(Append(c, block)) = n + 1
        /\ Append(c, block)[n + 1] = block /\ \A b \in 1 .. n : Append(c, block)[b] = c[b]
    BY <1>1
  <2>. QED
    BY <2>1, Zenon
<1>3. ASSUME NEW b \in 1 .. n + 1 PROVE BlockOK(u[b])
  <2>1. b \in 1 .. n \/ b = n + 1
    OBVIOUS
  <2>. QED
    BY <1>1, <1>2, <2>1, Zenon
<1>4. PICK s \in Seq(Seq(RingOutputs)) : /\ s = ChainRings(c) /\ Len(s) = n
                                         /\ \A b \in 1 .. n : s[b] = BlockRingCT(c[b])
  BY <1>1, ChainRingsAre, Zenon
<1>5. PICK t \in Seq(Seq(RingOutputs)) : /\ t = ChainRings(u) /\ Len(t) = n + 1
                                         /\ \A b \in 1 .. n + 1 : t[b] = BlockRingCT(u[b])
  BY <1>2, <1>3, ChainRingsAre, Zenon
<1>6. ASSUME NEW b \in 1 .. n PROVE t[b] = s[b]
  <2>1. b \in 1 .. n + 1
    OBVIOUS
  <2>. QED
    BY <1>2, <1>4, <1>5, <2>1, Zenon
<1>7. ASSUME NEW k \in 0 .. n PROVE SubSeq(t, 1, k) = SubSeq(s, 1, k)
  <2>1. \A i \in 1 .. k : i \in 1 .. n
    OBVIOUS
  <2>2. SubSeq(t, 1, k) = [i \in 1 .. k |-> t[i]] /\ SubSeq(s, 1, k) = [i \in 1 .. k |-> s[i]]
    BY <1>4, <1>5
  <2>. QED
    BY <1>6, <2>1, <2>2, Zenon
<1>8. SubSeq(s, 1, n) = s
  BY <1>4, SubSeqFull, Zenon
<1>. QED
  BY <1>1, <1>2, <1>3, <1>4, <1>5, <1>7, <1>8, Zenon DEF Before

\* A block of new transactions leaves the chain well-formed.
LEMMA ChainGrows ==
  ASSUME NEW c, NEW e \in Nat, ChainOK(c, e), Len(c) < MaxBlocks,
         NEW block \in Blocks, BlockOK(block), block.miner \in Miners[Len(c) + 1],
         block.index = IF BlockRingCT(block) = <<>> THEN None ELSE Some(e + Len(FlattenSeq(ChainRings(c)))),
         \A i \in 1 .. Len(block.transactions) : \A b \in 1 .. Len(c) : \A j \in 1 .. Len(c[b].transactions) :
           c[b].transactions[j].hash # block.transactions[i].hash,
         \A i, j \in 1 .. Len(block.transactions) : i # j => block.transactions[i].hash # block.transactions[j].hash
  PROVE  ChainOK(Append(c, block), e)
<1>0. c \in Seq(Blocks) /\ Len(c) <= MaxBlocks /\ \A b \in 1 .. Len(c) : BlockOK(c[b]) /\ c[b].miner \in Miners[b]
  BY DEF ChainOK
<1>1. PICK n \in Nat : n = Len(c) /\ n + 1 <= MaxBlocks
  BY <1>0, BoundsAssumption
<1>. DEFINE u == Append(c, block)
<1>2. /\ u \in Seq(Blocks) /\ Len(u) = n + 1 /\ u[n + 1] = block
      /\ \A b \in 1 .. n : u[b] = c[b]
      /\ \A b \in 1 .. n + 1 : BlockOK(u[b])
      /\ \A k \in 0 .. n : Before(ChainRings(u), k) = Before(ChainRings(c), k)
      /\ Before(ChainRings(c), n) = Len(FlattenSeq(ChainRings(c)))
  BY <1>0, <1>1, BlocksStay, Zenon
<1>. HIDE DEF u
<1>3. ASSUME NEW b \in 1 .. n + 1 PROVE b \in 1 .. n \/ b = n + 1
  OBVIOUS
<1>4. ASSUME NEW b \in 1 .. n + 1
      PROVE  /\ u[b].miner \in Miners[b]
             /\ u[b].index = IF BlockRingCT(u[b]) = <<>> THEN None ELSE Some(e + Before(ChainRings(u), b - 1))
  <2>1. CASE b \in 1 .. n
    <3>1. b - 1 \in 0 .. n
      BY <2>1
    <3>2. u[b] = c[b] /\ Before(ChainRings(u), b - 1) = Before(ChainRings(c), b - 1)
      BY <1>2, <2>1, <3>1, Zenon
    <3>. QED
      BY <1>1, <2>1, <3>2, Zenon DEF ChainOK
  <2>2. CASE b = n + 1
    <3>1. n \in 0 .. n /\ b - 1 = n
      BY <2>2
    <3>2. u[b] = block /\ Before(ChainRings(u), b - 1) = Len(FlattenSeq(ChainRings(c)))
      BY <1>2, <2>2, <3>1, Zenon
    <3>. QED
      BY <1>1, <2>2, <3>2, Zenon
  <2>. QED
    BY <1>3, <2>1, <2>2
<1>o. \A b, d \in 1 .. n :
        \A i \in 1 .. Len(c[b].transactions), j \in 1 .. Len(c[d].transactions) :
          c[b].transactions[i].hash = c[d].transactions[j].hash => b = d /\ i = j
  BY <1>1, Zenon DEF ChainOK
<1>5. ASSUME NEW b \in 1 .. n + 1, NEW d \in 1 .. n + 1,
             NEW i \in 1 .. Len(u[b].transactions), NEW j \in 1 .. Len(u[d].transactions),
             u[b].transactions[i].hash = u[d].transactions[j].hash
      PROVE  b = d /\ i = j
  <2>1. CASE b \in 1 .. n /\ d \in 1 .. n
    <3>1. u[b] = c[b] /\ u[d] = c[d]
      BY <1>2, <2>1, Zenon
    <3>2. /\ i \in 1 .. Len(c[b].transactions) /\ j \in 1 .. Len(c[d].transactions)
          /\ c[b].transactions[i].hash = c[d].transactions[j].hash
      BY <1>5, <3>1, Zenon
    <3>3. \A k \in 1 .. Len(c[b].transactions), l \in 1 .. Len(c[d].transactions) :
            c[b].transactions[k].hash = c[d].transactions[l].hash => b = d /\ k = l
      BY <1>o, <2>1, Zenon
    <3>. QED
      BY <3>2, <3>3, Zenon
  <2>2. CASE b \in 1 .. n /\ d = n + 1
    <3>1. u[b] = c[b] /\ u[d] = block
      BY <1>2, <2>2, Zenon
    <3>2. /\ i \in 1 .. Len(c[b].transactions) /\ j \in 1 .. Len(block.transactions)
          /\ c[b].transactions[i].hash = block.transactions[j].hash
      BY <1>5, <3>1, Zenon
    <3>. QED
      BY <1>1, <2>2, <3>2, Zenon
  <2>3. CASE b = n + 1 /\ d \in 1 .. n
    <3>1. u[d] = c[d] /\ u[b] = block
      BY <1>2, <2>3, Zenon
    <3>2. /\ j \in 1 .. Len(c[d].transactions) /\ i \in 1 .. Len(block.transactions)
          /\ c[d].transactions[j].hash = block.transactions[i].hash
      BY <1>5, <3>1, Zenon
    <3>. QED
      BY <1>1, <2>3, <3>2, Zenon
  <2>4. CASE b = n + 1 /\ d = n + 1
    <3>1. u[d] = block /\ u[b] = block
      BY <1>2, <2>4, Zenon
    <3>. QED
      BY <1>5, <2>4, <3>1, Zenon
  <2>. QED
    BY <1>3, <2>1, <2>2, <2>3, <2>4, Zenon
<1>. QED
  BY <1>1, <1>2, <1>4, <1>5, Zenon DEF ChainOK, u

\* A transaction of a block is its miner's, or one of the others.
LEMMA TransactionAt ==
  ASSUME NEW c, NEW e, ChainOK(c, e), NEW k \in 1 .. Len(c), NEW l \in 1 .. Len(BlockTransactions(c[k]))
  PROVE  \/ l = 1 /\ BlockTransactions(c[k])[l] \in Miners[k]
         \/ \E m \in 1 .. Len(c[k].transactions) :
              /\ l = 1 + m /\ BlockTransactions(c[k])[l] = c[k].transactions[m]
              /\ BlockTransactions(c[k])[l] \in Transactions
<1>0. c \in Seq(Blocks)
  BY DEF ChainOK
<1>1. /\ Len(BlockTransactions(c[k])) = 1 + Len(c[k].transactions)
      /\ BlockTransactions(c[k])[1] = c[k].miner
      /\ \A m \in 1 .. Len(c[k].transactions) : BlockTransactions(c[k])[1 + m] = c[k].transactions[m]
  <2>1. BlockOK(c[k])
    BY DEF ChainOK
  <2>. QED
    BY <2>1, BlockTransactionsAre, Zenon
<1>2. PICK t \in Seq(Transactions) : t = c[k].transactions
  <2>1. c[k] \in Blocks
    BY <1>0
  <2>. QED
    BY <2>1 DEF Blocks
<1>3. c[k].miner \in Miners[k]
  BY DEF ChainOK
<1>4. CASE l = 1
  BY <1>1, <1>3, <1>4, Zenon
<1>5. CASE l # 1
  <2>1. l - 1 \in 1 .. Len(t) /\ l = 1 + (l - 1)
    BY <1>1, <1>2, <1>5
  <2>2. t[l - 1] \in Transactions
    BY <2>1
  <2>. QED
    BY <1>1, <1>2, <2>1, <2>2, Zenon
<1>. QED
  BY <1>4, <1>5

\* A transaction is at one place on the chain.
LEMMA OnePlace ==
  ASSUME NEW c, NEW e, ChainOK(c, e), NEW b \in 1 .. Len(c), NEW d \in 1 .. Len(c),
         NEW i \in 1 .. Len(BlockTransactions(c[b])), NEW j \in 1 .. Len(BlockTransactions(c[d])),
         BlockTransactions(c[b])[i].hash = BlockTransactions(c[d])[j].hash
  PROVE  b = d /\ i = j
<1>0. c \in Seq(Blocks) /\ Len(c) <= MaxBlocks
  BY DEF ChainOK
<1>2. b \in 1 .. MaxBlocks /\ d \in 1 .. MaxBlocks
  BY <1>0, BoundsAssumption
<1>. DEFINE t == BlockTransactions(c[b])[i]
            u == BlockTransactions(c[d])[j]
<1>h. ASSUME NEW x \in Miners[b], NEW y \in Miners[d], b # d PROVE x.hash # y.hash
  BY <1>2, <1>h, ConsensusAssumption, Zenon
<1>3. CASE i = 1 /\ j = 1 /\ t \in Miners[b] /\ u \in Miners[d]
  BY <1>3, <1>h, Zenon
<1>m. ASSUME NEW h \in 1 .. MaxBlocks, NEW x \in Miners[h], NEW y \in Transactions PROVE x.hash # y.hash
  BY ConsensusAssumption, Zenon
<1>4. CASE t \in Miners[b] /\ u \in Transactions
  BY <1>2, <1>4, <1>m, Zenon
<1>5. CASE t \in Transactions /\ u \in Miners[d]
  BY <1>2, <1>5, <1>m, Zenon
<1>6. ASSUME NEW m \in 1 .. Len(c[b].transactions), NEW l \in 1 .. Len(c[d].transactions),
             i = 1 + m, j = 1 + l, t = c[b].transactions[m], u = c[d].transactions[l]
      PROVE  b = d /\ i = j
  <2>1. c[b].transactions[m].hash = c[d].transactions[l].hash
    BY <1>6
  <2>2. b = d /\ m = l
    BY <2>1 DEF ChainOK
  <2>. QED
    BY <1>6, <2>2
<1>. HIDE DEF t, u
<1>7. \/ i = 1 /\ t \in Miners[b]
      \/ \E m \in 1 .. Len(c[b].transactions) : i = 1 + m /\ t = c[b].transactions[m] /\ t \in Transactions
  BY TransactionAt, Zenon DEF t
<1>8. \/ j = 1 /\ u \in Miners[d]
      \/ \E m \in 1 .. Len(c[d].transactions) : j = 1 + m /\ u = c[d].transactions[m] /\ u \in Transactions
  BY TransactionAt, Zenon DEF u
<1>. QED
  BY <1>3, <1>4, <1>5, <1>6, <1>7, <1>8, Zenon

\* Where an output is among the RingCT outputs of the chain.
IsOutputAt(c, b, i, o) ==
  LET tx == BlockTransactions(c[b])[i]
      x == Before(ChainRings(c), b - 1) + (Before(Rings(BlockTransactions(c[b])), i - 1) + o)
  IN  /\ Before(ChainRings(c), b - 1) \in Nat /\ Before(Rings(BlockTransactions(c[b])), i - 1) \in Nat
      /\ x \in 1 .. Len(FlattenSeq(ChainRings(c)))
      /\ FlattenSeq(ChainRings(c))[x] = [hash |-> tx.hash, output |-> o, key |-> tx.outputs[o].key]

\* An output of a transaction of version 2 is where the counts before it say.
LEMMA OutputAt ==
  ASSUME NEW c, NEW e, ChainOK(c, e), NEW b \in 1 .. Len(c), NEW i \in 1 .. Len(BlockTransactions(c[b])),
         BlockTransactions(c[b])[i].version = 2, NEW o \in 1 .. Len(BlockTransactions(c[b])[i].outputs)
  PROVE  IsOutputAt(c, b, i, o)
<1>1. c \in Seq(Blocks) /\ BlockOK(c[b]) /\ \A k \in 1 .. Len(c) : BlockOK(c[k])
  BY DEF ChainOK
<1>2. PICK txs \in Seq(AllTransactions) : txs = BlockTransactions(c[b])
  BY <1>1, BlockTransactionsAre, Zenon
<1>3. PICK tx \in AllTransactions : tx = txs[i]
  BY <1>2
<1>4. PICK ss \in Seq(Seq(RingOutputs)) : ss = Rings(txs) /\ Len(ss) = Len(txs) /\ ss[i] = RingCT(tx)
  BY <1>2, <1>3, RingsAre, Zenon
<1>5. o \in 1 .. Len(ss[i]) /\ ss[i][o] = [hash |-> tx.hash, output |-> o, key |-> tx.outputs[o].key]
  BY <1>2, <1>3, <1>4, RingIs, ZenonT(60)
<1>6. PICK r \in Nat : r = Before(ss, i - 1)
  <2>1. i - 1 \in 0 .. Len(ss)
    BY <1>2, <1>4
  <2>. QED
    BY <2>1, BeforeGrows, Zenon
<1>7. FlattenSeq(ss)[r + o] = ss[i][o] /\ r + o <= Len(FlattenSeq(ss))
  <2>1. i \in 1 .. Len(ss)
    BY <1>2, <1>4
  <2>2. o \in 1 .. Len(ss[i])
    BY <1>5
  <2>3. FlattenSeq(ss)[Before(ss, i - 1) + o] = ss[i][o] /\ Before(ss, i - 1) + o <= Len(FlattenSeq(ss))
    BY <2>1, <2>2, FlattenAt, ZenonT(60) DEF Before
  <2>. QED
    BY <1>6, <2>3, Zenon
<1>8. PICK cs \in Seq(Seq(RingOutputs)) : cs = ChainRings(c) /\ Len(cs) = Len(c) /\ cs[b] = BlockRingCT(c[b])
  BY <1>1, ChainRingsAre, Zenon
<1>9. cs[b] = FlattenSeq(ss)
  BY <1>1, <1>2, <1>4, <1>8, BlockRingIs, Zenon
<1>10. r + o \in 1 .. Len(cs[b])
  <2>1. o \in Nat /\ o >= 1
    BY <1>3, TransactionIs
  <2>2. cs[b] \in Seq(RingOutputs)
    BY <1>8
  <2>3. r + o <= Len(cs[b])
    BY <1>7, <1>9
  <2>. QED
    BY <2>1, <2>2, <2>3
<1>11. PICK a \in Nat : a = Before(cs, b - 1)
  <2>1. b - 1 \in 0 .. Len(cs)
    BY <1>1, <1>8
  <2>. QED
    BY <2>1, BeforeGrows, Zenon
<1>12. FlattenSeq(cs)[a + (r + o)] = cs[b][r + o] /\ a + (r + o) <= Len(FlattenSeq(cs))
  <2>1. b \in 1 .. Len(cs)
    BY <1>8
  <2>2. /\ FlattenSeq(cs)[Before(cs, b - 1) + (r + o)] = cs[b][r + o]
        /\ Before(cs, b - 1) + (r + o) <= Len(FlattenSeq(cs))
    BY <1>10, <2>1, FlattenAt, ZenonT(60) DEF Before
  <2>. QED
    BY <1>11, <2>2, Zenon
<1>13. a + (r + o) \in 1 .. Len(FlattenSeq(cs))
  <2>1. <<>> \in Seq(RingOutputs)
    OBVIOUS
  <2>2. FlattenSeq(cs) \in Seq(RingOutputs)
    BY <2>1, FlattenAppend, Zenon
  <2>3. r + o \in Nat /\ r + o >= 1
    BY <1>10
  <2>. QED
    BY <1>12, <2>2, <2>3
<1>. QED
  BY <1>2, <1>3, <1>4, <1>5, <1>6, <1>7, <1>8, <1>9, <1>11, <1>12, <1>13, Zenon DEF IsOutputAt

---------------------------------------------------------------------------------
(* The invariant. *)

\* An output found is the wallet's at some place on the chain.
IsFound(w, c, e, guaranteed) ==
  \E b \in 1 .. Len(c) : FoundIn(w, c[b], e + Before(ChainRings(c), b - 1), guaranteed)

Inv ==
  /\ scanner = [wallet |-> Wallet, guaranteed |-> scanner.guaranteed, subaddresses |-> scanner.subaddresses]
  /\ ScannerOK(scanner)
  /\ earlier \in Nat
  /\ ChainOK(chain, earlier)
  /\ \A w \in found : IsFound(w, chain, earlier, scanner.guaranteed)

LEMMA InitInv == Init => Inv
<1>. SUFFICES ASSUME Init PROVE Inv
  OBVIOUS
<1>1. chain = <<>> /\ earlier \in Nat /\ found = {}
  BY BoundsAssumption DEF Init
<1>2. ASSUME NEW g, scanner = NewScanner(Wallet, g)
      PROVE  /\ scanner = [wallet |-> Wallet, guaranteed |-> scanner.guaranteed,
                           subaddresses |-> scanner.subaddresses]
             /\ ScannerOK(scanner)
  <2>1. SpendKey(Wallet, None) = <<Wallet, 0>> /\ SubaddressIndex(0) = None
    BY DEF SpendKey, SubaddressIndex
  <2>2. scanner = [wallet |-> Wallet, guaranteed |-> g, subaddresses |-> [k \in {<<Wallet, 0>>} |-> None]]
    BY <1>2, <2>1 DEF NewScanner
  <2>3. ScannerOK(scanner)
    BY <2>1, <2>2 DEF ScannerOK
  <2>. QED
    BY <2>2, <2>3
<1>3. ChainOK(<<>>, earlier)
  <2>1. <<>> \in Seq(Blocks) /\ Len(<<>>) = 0 /\ 0 <= MaxBlocks
    BY BoundsAssumption
  <2>. QED
    BY <2>1 DEF ChainOK
<1>. QED
  BY <1>1, <1>2, <1>3 DEF Init, Inv

LEMMA RegisterInv ==
  ASSUME Inv, NEW index \in Indexes, Register(index)
  PROVE  Inv'
<1>1. index \in Nat /\ index # 0
  BY BoundsAssumption
<1>2. SpendKey(Wallet, Some(index)) = <<Wallet, index>> /\ SubaddressIndex(index) = Some(index)
  BY <1>1 DEF SpendKey, Some, None, SubaddressIndex
<1>. DEFINE old == scanner.subaddresses
            new == [k \in DOMAIN old \cup {<<Wallet, index>>} |-> IF k = <<Wallet, index>> THEN Some(index) ELSE old[k]]
<1>3. scanner' = [scanner EXCEPT !.subaddresses = new]
  BY <1>2 DEF Register, RegisterSubaddress, Inv
<1>4. scanner' = [wallet |-> Wallet, guaranteed |-> scanner.guaranteed, subaddresses |-> new]
  <2>. HIDE DEF new
  <2>. QED
    BY <1>3 DEF Inv
<1>5. ASSUME NEW k \in DOMAIN new
      PROVE  k = <<Wallet, k[2]>> /\ k[2] \in Nat /\ new[k] = SubaddressIndex(k[2])
  <2>1. CASE k = <<Wallet, index>>
    BY <1>1, <1>2, <2>1
  <2>2. CASE k # <<Wallet, index>>
    BY <2>2 DEF Inv, ScannerOK
  <2>. QED
    BY <2>1, <2>2
<1>. HIDE DEF new
<1>6. ScannerOK(scanner')
  BY <1>4, <1>5 DEF ScannerOK
<1>7. UNCHANGED <<chain, earlier, found>> /\ scanner'.guaranteed = scanner.guaranteed
  BY <1>4 DEF Register
<1>. QED
  BY <1>4, <1>6, <1>7 DEF Inv

\* A chain of one block more, the others being where they were.
Stays(c, d) ==
  /\ Len(d) = Len(c) + 1
  /\ \A b \in 1 .. Len(c) : d[b] = c[b]
  /\ \A k \in 0 .. Len(c) : Before(ChainRings(d), k) = Before(ChainRings(c), k)

LEMMA MineInv ==
  ASSUME Inv, Len(chain) < MaxBlocks, NEW miner \in Miners[Len(chain) + 1], NEW txs \in InBlock,
         NEW hf \in HardForks[Len(chain) + 1], Mine(miner, txs, hf)
  PROVE  Inv' /\ Stays(chain, chain')
<1>0. chain \in Seq(Blocks) /\ earlier \in Nat /\ ChainOK(chain, earlier)
      /\ \A b \in 1 .. Len(chain) : BlockOK(chain[b])
  BY DEF Inv, ChainOK
<1>1. PICK n \in Nat : n = Len(chain) /\ n + 1 \in 1 .. MaxBlocks
  BY <1>0, BoundsAssumption
<1>2. txs \in Seq(Transactions)
  <2>1. PICK m \in 0 .. MaxInBlock - Len(chain) : txs \in [1 .. m -> Transactions]
    BY DEF InBlock
  <2>2. m \in Nat
    BY <1>1, BoundsAssumption
  <2>. QED
    BY <2>1, <2>2
<1>3. txs \in Seq(AllTransactions) /\ miner \in AllTransactions /\ Transactions \subseteq AllTransactions
  <2>1. Transactions \subseteq AllTransactions
    BY DEF AllTransactions
  <2>2. miner \in AllTransactions
    BY <1>1 DEF AllTransactions
  <2>. QED
    BY <1>2, <2>1, <2>2
<1>. DEFINE hashes == [i \in 1 .. Len(txs) |-> txs[i].hash]
            index == earlier + Len(ChainRingCT)
            plain == [hardfork |-> hf, miner |-> miner, transactions |-> txs, hashes |-> hashes, index |-> None]
            block == IF BlockRingCT(plain) = <<>> THEN plain ELSE [plain EXCEPT !.index = Some(index)]
<1>4. hashes \in Seq({tx.hash : tx \in Transactions}) /\ Len(hashes) = Len(txs)
      /\ \A i \in 1 .. Len(txs) : hashes[i] = txs[i].hash
  BY <1>2
<1>5. ChainRingCT = FlattenSeq(ChainRings(chain))
  BY Zenon DEF ChainRingCT, ChainRings
<1>6. index \in Nat
  <2>0. <<>> \in Seq(RingOutputs)
    OBVIOUS
  <2>1. ChainRings(chain) \in Seq(Seq(RingOutputs))
    BY <1>0, ChainRingsAre, Zenon
  <2>2. FlattenSeq(ChainRings(chain)) \in Seq(RingOutputs)
    BY <2>0, <2>1, FlattenAppend, Zenon
  <2>3. Len(FlattenSeq(ChainRings(chain))) \in Nat
    BY <2>2
  <2>. QED
    BY <1>0, <1>5, <2>3
<1>7. PICK x : /\ x = IF BlockRingCT(plain) = <<>> THEN None ELSE Some(index)
               /\ block = [hardfork |-> hf, miner |-> miner, transactions |-> txs, hashes |-> hashes, index |-> x]
  <2>. HIDE DEF hashes, index
  <2>1. CASE BlockRingCT(plain) = <<>>
    BY <2>1
  <2>2. CASE BlockRingCT(plain) # <<>>
    BY <2>2
  <2>. QED
    BY <2>1, <2>2
<1>8. BlockRingCT(block) = BlockRingCT(plain)
  <2>. HIDE DEF hashes, index
  <2>1. block.miner = plain.miner /\ block.transactions = plain.transactions
    BY <1>7
  <2>. HIDE DEF block, plain
  <2>. QED
    BY <2>1, Zenon DEF BlockRingCT, BlockTransactions
<1>9. chain' = Append(chain, block) /\ UNCHANGED <<scanner, earlier, found>>
  BY DEF Mine
<1>10. /\ \A i \in 1 .. Len(txs) : ~Mined(txs[i])
       /\ \A i, j \in 1 .. Len(txs) : i # j => txs[i] # txs[j]
  BY DEF Mine
<1>. HIDE DEF hashes, index, plain, block
<1>11. /\ block.hardfork = hf /\ block.miner = miner /\ block.transactions = txs /\ block.hashes = hashes
       /\ block.index = x
  BY <1>7
<1>12. block \in Blocks
  <2>1. x \in {None} \cup {Some(k) : k \in Nat}
    BY <1>6, <1>7
  <2>2. hf \in UNION {HardForks[h] : h \in 1 .. MaxBlocks}
    BY <1>1
  <2>. QED
    BY <1>2, <1>3, <1>4, <1>7, <2>1, <2>2 DEF Blocks
<1>13. BlockOK(block)
  BY <1>3, <1>4, <1>11 DEF BlockOK
<1>14. ASSUME NEW i \in 1 .. Len(txs), NEW b \in 1 .. Len(chain), NEW j \in 1 .. Len(chain[b].transactions)
       PROVE  chain[b].transactions[j].hash # txs[i].hash
  BY <1>10 DEF Mined
<1>15. ASSUME NEW i \in 1 .. Len(txs), NEW j \in 1 .. Len(txs), i # j PROVE txs[i].hash # txs[j].hash
  <2>1. txs[i] \in Transactions /\ txs[j] \in Transactions /\ txs[i] # txs[j]
    BY <1>2, <1>10, <1>15
  <2>. QED
    BY <2>1, ConsensusAssumption, Zenon
<1>16. block.index = IF BlockRingCT(block) = <<>> THEN None ELSE Some(earlier + Len(FlattenSeq(ChainRings(chain))))
  BY <1>5, <1>7, <1>8, <1>11, Zenon DEF index
<1>17. ChainOK(chain', earlier)
  BY <1>0, <1>9, <1>11, <1>12, <1>13, <1>14, <1>15, <1>16, ChainGrows, ZenonT(60)
<1>18. /\ Len(chain') = n + 1 /\ \A b \in 1 .. n : chain'[b] = chain[b]
       /\ \A k \in 0 .. n : Before(ChainRings(chain'), k) = Before(ChainRings(chain), k)
  BY <1>0, <1>1, <1>9, <1>12, <1>13, BlocksStay, ZenonT(60)
<1>19. ASSUME NEW w \in found PROVE IsFound(w, chain', earlier, scanner.guaranteed)
  <2>1. IsFound(w, chain, earlier, scanner.guaranteed)
    BY DEF Inv
  <2>2. PICK b \in 1 .. n : FoundIn(w, chain[b], earlier + Before(ChainRings(chain), b - 1), scanner.guaranteed)
    BY <1>1, <2>1, Zenon DEF IsFound
  <2>3. b \in 1 .. Len(chain') /\ b - 1 \in 0 .. n
    BY <1>18
  <2>4. chain'[b] = chain[b] /\ Before(ChainRings(chain'), b - 1) = Before(ChainRings(chain), b - 1)
    BY <1>18, <2>3, Zenon
  <2>. QED
    BY <2>2, <2>3, <2>4, Zenon DEF IsFound
<1>20. Inv'
  BY <1>9, <1>17, <1>19 DEF Inv
<1>. QED
  BY <1>1, <1>18, <1>20, Zenon DEF Stays

\* What is found in a block is at its places.
LEMMA ScanFinds ==
  ASSUME Inv, NEW b \in 1 .. Len(chain), NEW p \in 1 .. Len(scan(scanner, chain[b]).outputs)
  PROVE  IsFound(scan(scanner, chain[b]).outputs[p], chain, earlier, scanner.guaranteed)
<1>0. /\ chain \in Seq(Blocks) /\ earlier \in Nat /\ ChainOK(chain, earlier) /\ ScannerOK(scanner)
      /\ BlockOK(chain[b]) /\ \A k \in 1 .. Len(chain) : BlockOK(chain[k])
      /\ chain[b].index = IF BlockRingCT(chain[b]) = <<>> THEN None
                          ELSE Some(earlier + Before(ChainRings(chain), b - 1))
  BY DEF Inv, ChainOK
<1>1. PICK a \in Nat : a = Before(ChainRings(chain), b - 1)
  <2>1. PICK cs \in Seq(Seq(RingOutputs)) : cs = ChainRings(chain) /\ Len(cs) = Len(chain)
    BY <1>0, ChainRingsAre, Zenon
  <2>2. b - 1 \in 0 .. Len(cs)
    BY <1>0, <2>1
  <2>. QED
    BY <2>1, <2>2, BeforeGrows, Zenon
<1>2. chain[b].index # None
  <2>. SUFFICES ASSUME chain[b].index = None PROVE FALSE
    OBVIOUS
  <2>1. scan(scanner, chain[b]) \in {Err, Ok(<<>>)}
    BY Zenon DEF scan
  <2>2. scan(scanner, chain[b]).outputs = <<>>
    BY <2>1 DEF Err, Ok
  <2>. QED
    BY <2>2
<1>3. chain[b].index = Some(earlier + a) /\ earlier + a \in Nat
  BY <1>0, <1>1, <1>2
<1>4. FoundIn(scan(scanner, chain[b]).outputs[p], chain[b], earlier + a, scanner.guaranteed)
  BY <1>0, <1>3, BlockFound, Zenon
<1>. QED
  BY <1>1, <1>4, Zenon DEF IsFound

\* A block without all of its transactions is refused.
LEMMA IncompleteRefused ==
  ASSUME Inv, NEW b \in 1 .. Len(chain), chain[b].transactions # <<>>
  PROVE  scan(scanner, Incomplete(chain[b])) = Err /\ Incomplete(chain[b]) # chain[b]
<1>. DEFINE block == Incomplete(chain[b])
<1>0. /\ chain \in Seq(Blocks) /\ BlockOK(chain[b])
  BY DEF Inv, ChainOK
<1>1. PICK t \in Seq(Transactions) : t = chain[b].transactions /\ t # <<>>
  <2>1. chain[b] \in Blocks
    BY <1>0
  <2>. QED
    BY <2>1 DEF Blocks
<1>2. chain[b] \in Blocks /\ block = [chain[b] EXCEPT !.transactions = SubSeq(t, 1, Len(t) - 1)]
  BY <1>0, <1>1 DEF Incomplete
<1>3. block.hashes = chain[b].hashes /\ block.transactions = SubSeq(t, 1, Len(t) - 1)
  BY <1>2 DEF Blocks
<1>. HIDE DEF block
<1>4. Len(block.hashes) = Len(t) /\ Len(block.transactions) = Len(t) - 1 /\ Len(t) # Len(t) - 1
  <2>1. Len(t) \in Nat \ {0}
    BY <1>1
  <2>2. Len(SubSeq(t, 1, Len(t) - 1)) = Len(t) - 1
    <3>1. Len(t) - 1 \in 0 .. Len(t)
      BY <2>1
    <3>. QED
      BY <3>1, Prefix, Zenon
  <2>3. Len(chain[b].hashes) = Len(t)
    BY <1>0, <1>1 DEF BlockOK
  <2>. QED
    BY <1>3, <2>1, <2>2, <2>3
<1>5. scan(scanner, block) = Err
  BY <1>4, Zenon DEF scan
<1>6. block # chain[b]
  BY <1>1, <1>4, Zenon
<1>. QED
  BY <1>5, <1>6, Zenon DEF block

LEMMA ScanInv ==
  ASSUME Inv, NEW b \in 1 .. Len(chain), NEW block,
         block = chain[b] \/ (chain[b].transactions # <<>> /\ block = Incomplete(chain[b])),
         Scan(b, block)
  PROVE  Inv'
<1>0. /\ chain \in Seq(Blocks) /\ BlockOK(chain[b])
  BY DEF Inv, ChainOK
<1>1. UNCHANGED <<scanner, chain, earlier>>
      /\ found' = found \cup {scan(scanner, block).outputs[p] : p \in 1 .. Len(scan(scanner, block).outputs)}
  BY Zenon DEF Scan
<1>2. ASSUME NEW p \in 1 .. Len(scan(scanner, block).outputs)
      PROVE  IsFound(scan(scanner, block).outputs[p], chain, earlier, scanner.guaranteed)
  <2>1. CASE block = chain[b]
    BY <2>1, ScanFinds, Zenon
  <2>2. CASE chain[b].transactions # <<>> /\ block = Incomplete(chain[b])
    <3>1. scan(scanner, block) = Err
      BY <2>2, IncompleteRefused, Zenon
    <3>2. scan(scanner, block).outputs = <<>>
      BY <3>1 DEF Err
    <3>. QED
      BY <3>2
  <2>. QED
    BY <2>1, <2>2
<1>3. ASSUME NEW w \in found' PROVE IsFound(w, chain, earlier, scanner.guaranteed)
  <2>1. w \in found \/ \E p \in 1 .. Len(scan(scanner, block).outputs) : w = scan(scanner, block).outputs[p]
    BY <1>1, Zenon
  <2>2. CASE w \in found
    BY <2>2, Zenon DEF Inv
  <2>. QED
    BY <1>2, <2>1, <2>2, Zenon
<1>. QED
  BY <1>1, <1>3 DEF Inv

\* A restart may lose outputs, and changes none.
LEMMA RestartInv == ASSUME Inv, Restart PROVE Inv'
<1>1. UNCHANGED <<scanner, chain, earlier>>
      /\ found' = {ReadOutput(WriteOutput(w)) : w \in {o \in found : Reads(WriteOutput(o))}}
  BY Zenon DEF Restart
<1>2. ASSUME NEW w \in found PROVE ReadOutput(WriteOutput(w)) = w
  <2>1. IsFound(w, chain, earlier, scanner.guaranteed)
    BY Zenon DEF Inv
  <2>2. PICK b \in 1 .. Len(chain) :
          FoundIn(w, chain[b], earlier + Before(ChainRings(chain), b - 1), scanner.guaranteed)
    BY <2>1, Zenon DEF IsFound
  <2>3. \A i \in 1 .. Len(BlockTransactions(chain[b])) : BlockTransactions(chain[b])[i] \in AllTransactions
    <3>1. BlockOK(chain[b])
      BY DEF Inv, ChainOK
    <3>2. BlockTransactions(chain[b]) \in Seq(AllTransactions)
      BY <3>1, BlockTransactionsAre, Zenon
    <3>. QED
      BY <3>2
  <2>. QED
    BY <2>2, <2>3, FoundRead, Zenon DEF FoundIn
<1>3. found' \subseteq found
  BY <1>1, <1>2, Zenon
<1>. QED
  BY <1>1, <1>3 DEF Inv

LEMMA NextInv == Inv /\ [Next]_vars => Inv'
<1>. SUFFICES ASSUME Inv, [Next]_vars PROVE Inv'
  OBVIOUS
<1>1. CASE MineNext
  BY <1>1, MineInv, Zenon DEF MineNext
<1>2. ASSUME NEW index \in Indexes, Register(index) PROVE Inv'
  BY <1>2, RegisterInv, Zenon
<1>3. CASE ScanNext
  BY <1>3, ScanInv, Zenon DEF ScanNext
<1>4. CASE Restart
  BY <1>4, RestartInv, Zenon
<1>5. CASE UNCHANGED vars
  BY <1>5 DEF vars, Inv
<1>. QED
  BY <1>1, <1>2, <1>3, <1>4, <1>5, Zenon DEF Next

LEMMA Invariance == Spec => []Inv
<1>. QED
  BY InitInv, NextInv, PTL DEF Spec

---------------------------------------------------------------------------------
(* What follows from the invariant. *)

\* The output found is output o of the i-th transaction of block b.
FoundAt(w, b, i, o) ==
  LET tx == BlockTransactions(chain[b])[i]
      key == tx.outputs[o].key
      x == w.index_on_blockchain - earlier + 1
  IN  /\ tx \in AllTransactions /\ o \in 1 .. Len(tx.outputs) /\ Ours(scanner.guaranteed, tx, o)
      /\ w = KeepPaymentId(chain[b].hardfork,
               Output(tx, earlier + Before(ChainRings(chain), b - 1)
                            + Before(Rings(BlockTransactions(chain[b])), i - 1), o))
      /\ w.transaction = tx.hash /\ w.index_in_transaction + 1 = o
      /\ w.key = key /\ w.key_offset = [shared |-> key.shared, subaddress |-> SubaddressIndex(key.spend[2])]
      /\ w.commitment = Opened(tx, o)
      /\ w.additional_timelock = ReadTimelock(tx.unlock_time)
      /\ w.index_on_blockchain \in Nat
      /\ x \in 1 .. Len(ChainRingCT)
      /\ ChainRingCT[x] = [hash |-> tx.hash, output |-> o, key |-> key]

\* An output found is at its index.
LEMMA PlaceFound ==
  ASSUME Inv, NEW w \in found
  PROVE  \E b \in 1 .. Len(chain) : \E i \in 1 .. Len(BlockTransactions(chain[b])) : \E o : FoundAt(w, b, i, o)
<1>0. earlier \in Nat /\ ChainOK(chain, earlier)
  BY DEF Inv
<1>1. PICK b \in 1 .. Len(chain) :
        FoundIn(w, chain[b], earlier + Before(ChainRings(chain), b - 1), scanner.guaranteed)
  BY Zenon DEF Inv, IsFound
<1>. DEFINE txs == BlockTransactions(chain[b])
<1>2. txs \in Seq(AllTransactions)
  <2>1. BlockOK(chain[b])
    BY <1>0 DEF ChainOK
  <2>. QED
    BY <2>1, BlockTransactionsAre, Zenon
<1>3. PICK i \in 1 .. Len(txs) : \E o \in 1 .. Len(txs[i].outputs) :
        /\ Ours(scanner.guaranteed, txs[i], o)
        /\ w = KeepPaymentId(chain[b].hardfork,
                 Output(txs[i], earlier + Before(ChainRings(chain), b - 1) + Before(Rings(txs), i - 1), o))
  BY <1>1, Zenon DEF FoundIn
<1>4. PICK o \in 1 .. Len(txs[i].outputs) :
        /\ Ours(scanner.guaranteed, txs[i], o)
        /\ w = KeepPaymentId(chain[b].hardfork,
                 Output(txs[i], earlier + Before(ChainRings(chain), b - 1) + Before(Rings(txs), i - 1), o))
  BY <1>3, Zenon
<1>5. PICK tx \in AllTransactions : tx = txs[i]
  <2>. HIDE DEF txs
  <2>. QED
    BY <1>2
<1>6. o \in Nat /\ o >= 1 /\ tx.version = 2 /\ tx.timelock = ReadTimelock(tx.unlock_time)
  <2>1. tx.version = 2 /\ tx.timelock = ReadTimelock(tx.unlock_time)
    BY <1>4, <1>5, TransactionIs, Zenon DEF Ours
  <2>2. o \in 1 .. Len(tx.outputs)
    BY <1>4, <1>5, Zenon
  <2>. QED
    BY <2>1, <2>2
<1>7. PICK a \in Nat, r \in Nat :
        /\ a = Before(ChainRings(chain), b - 1) /\ r = Before(Rings(txs), i - 1)
        /\ a + (r + o) \in 1 .. Len(FlattenSeq(ChainRings(chain)))
        /\ FlattenSeq(ChainRings(chain))[a + (r + o)] = [hash |-> tx.hash, output |-> o, key |-> tx.outputs[o].key]
  <2>1. txs[i].version = 2
    BY <1>5, <1>6, Zenon
  <2>2. IsOutputAt(chain, b, i, o)
    BY <1>0, <2>1, OutputAt, Zenon
  <2>. QED
    BY <1>5, <2>2, Zenon DEF IsOutputAt
<1>8. ChainRingCT = FlattenSeq(ChainRings(chain))
  BY Zenon DEF ChainRingCT, ChainRings
<1>9. w = OutputWith(tx, earlier + a + r, o, w.payment_id)
  <2>1. w = KeepPaymentId(chain[b].hardfork, Output(tx, earlier + a + r, o))
    BY <1>4, <1>5, <1>7, Zenon
  <2>2. PICK k : k = KeepPaymentId(chain[b].hardfork, Output(tx, earlier + a + r, o))
                 /\ k = OutputWith(tx, earlier + a + r, o, k.payment_id)
    BY Kept, Zenon
  <2>. QED
    BY <2>1, <2>2, Zenon
<1>10. /\ w.transaction = tx.hash /\ w.index_in_transaction = o - 1 /\ w.key = tx.outputs[o].key
       /\ w.key_offset = [shared |-> tx.outputs[o].key.shared, subaddress |-> SubaddressIndex(tx.outputs[o].key.spend[2])]
       /\ w.commitment = Opened(tx, o)
       /\ w.additional_timelock = tx.timelock
       /\ w.index_on_blockchain = earlier + a + r + (o - 1)
  <2>1. PICK f, x : f = earlier + a + r /\ w = OutputWith(tx, f, o, x)
    BY <1>9, Zenon
  <2>2. /\ w.transaction = tx.hash /\ w.index_in_transaction = o - 1 /\ w.key = tx.outputs[o].key
        /\ w.key_offset = [shared |-> tx.outputs[o].key.shared, subaddress |-> SubaddressIndex(tx.outputs[o].key.spend[2])]
        /\ w.commitment = Opened(tx, o)
        /\ w.additional_timelock = tx.timelock
        /\ w.index_on_blockchain = f + (o - 1)
    BY <2>1 DEF OutputWith
  <2>. QED
    BY <2>1, <2>2, Zenon
<1>11. w.index_in_transaction + 1 = o
  BY <1>6, <1>10
<1>12. w.index_on_blockchain - earlier + 1 = a + (r + o) /\ w.index_on_blockchain \in Nat
  <2>1. w.index_on_blockchain = earlier + a + r + (o - 1)
    BY <1>10, Zenon
  <2>2. o \in Nat /\ o >= 1
    BY <1>6, Zenon
  <2>. HIDE DEF txs
  <2>. QED
    BY <1>0, <2>1, <2>2
<1>13. /\ w.index_on_blockchain - earlier + 1 \in 1 .. Len(ChainRingCT)
       /\ ChainRingCT[w.index_on_blockchain - earlier + 1] =
            [hash |-> tx.hash, output |-> o, key |-> tx.outputs[o].key]
  BY <1>7, <1>8, <1>12, Zenon
<1>14. FoundAt(w, b, i, o)
  BY <1>4, <1>5, <1>6, <1>10, <1>11, <1>12, <1>13, Zenon DEF FoundAt
<1>. QED
  BY <1>14, Zenon

\* Outputs at one place on the chain are one output.
LEMMA OneOutput ==
  ASSUME Inv, NEW v, NEW w, NEW b \in 1 .. Len(chain), NEW d \in 1 .. Len(chain),
         NEW i \in 1 .. Len(BlockTransactions(chain[b])), NEW j \in 1 .. Len(BlockTransactions(chain[d])), NEW o, NEW q,
         FoundAt(v, b, i, o), FoundAt(w, d, j, q), v.index_on_blockchain = w.index_on_blockchain
  PROVE  v = w
<1>0. ChainOK(chain, earlier)
  BY DEF Inv
<1>. DEFINE t == BlockTransactions(chain[b])[i]
            u == BlockTransactions(chain[d])[j]
<1>1. [hash |-> t.hash, output |-> o, key |-> t.outputs[o].key] = [hash |-> u.hash, output |-> q, key |-> u.outputs[q].key]
  <2>1. /\ ChainRingCT[v.index_on_blockchain - earlier + 1] = [hash |-> t.hash, output |-> o, key |-> t.outputs[o].key]
        /\ ChainRingCT[w.index_on_blockchain - earlier + 1] = [hash |-> u.hash, output |-> q, key |-> u.outputs[q].key]
    BY Zenon DEF FoundAt
  <2>. QED
    BY <2>1, Zenon
<1>2. t.hash = u.hash /\ o = q
  BY <1>1
<1>3. b = d /\ i = j
  <2>1. BlockTransactions(chain[b])[i].hash = BlockTransactions(chain[d])[j].hash
    BY <1>2, Zenon
  <2>. QED
    BY <1>0, <2>1, OnePlace, SMTT(30)
<1>. QED
  BY <1>2, <1>3, Zenon DEF FoundAt

\* Outputs at one place of the chain have one index.
LEMMA OneIndex ==
  ASSUME Inv, NEW v, NEW w, NEW b \in 1 .. Len(chain), NEW i \in 1 .. Len(BlockTransactions(chain[b])), NEW o,
         FoundAt(v, b, i, o), FoundAt(w, b, i, o)
  PROVE  v.index_on_blockchain = w.index_on_blockchain
<1>1. v = w
  BY Zenon DEF FoundAt
<1>. QED
  BY <1>1

\* Only one transaction of the chain has its inputs: key images are spent once, and a miner's is the
\* height of its block.
LEMMA SameInputs ==
  ASSUME NEW c, NEW e, ChainOK(c, e), NEW b \in 1 .. Len(c), NEW d \in 1 .. Len(c),
         NEW i \in 1 .. Len(BlockTransactions(c[b])), NEW j \in 1 .. Len(BlockTransactions(c[d])),
         uniqueness(BlockTransactions(c[b])[i].inputs) = uniqueness(BlockTransactions(c[d])[j].inputs)
  PROVE  BlockTransactions(c[b])[i].hash = BlockTransactions(c[d])[j].hash
<1>. DEFINE t == BlockTransactions(c[b])[i]
            u == BlockTransactions(c[d])[j]
<1>1. b \in 1 .. MaxBlocks /\ d \in 1 .. MaxBlocks
  BY BoundsAssumption DEF ChainOK
<1>2. /\ (i = 1 /\ t \in Miners[b]) \/ t \in Transactions
      /\ (j = 1 /\ u \in Miners[d]) \/ u \in Transactions
  BY TransactionAt, Zenon
<1>. HIDE DEF t, u
<1>3. ASSUME NEW x \in Transactions
      PROVE  Len(x.inputs) \in Nat \ {0} /\ uniqueness(x.inputs)[1] = [gen |-> FALSE, id |-> x.inputs[1].id]
  <2>1. Len(x.inputs) \in Nat \ {0} /\ \A k \in 1 .. Len(x.inputs) : x.inputs[k].gen = FALSE
    BY ConsensusAssumption, Zenon
  <2>2. 1 \in 1 .. Len(x.inputs)
    BY <2>1
  <2>. QED
    BY <2>1, <2>2 DEF uniqueness
<1>4. ASSUME NEW h \in 1 .. MaxBlocks, NEW x \in Miners[h]
      PROVE  uniqueness(x.inputs)[1] = [gen |-> TRUE, id |-> h]
  <2>1. x.inputs = <<[gen |-> TRUE, id |-> h]>>
    BY ConsensusAssumption, Zenon
  <2>2. PICK s : s = x.inputs /\ Len(s) = 1 /\ s[1] = [gen |-> TRUE, id |-> h]
    <3>1. Len(<<[gen |-> TRUE, id |-> h]>>) = 1 /\ <<[gen |-> TRUE, id |-> h]>>[1] = [gen |-> TRUE, id |-> h]
      OBVIOUS
    <3>. QED
      BY <2>1, <3>1, Zenon
  <2>3. uniqueness(s)[1] = [gen |-> s[1].gen, id |-> s[1].id]
    BY <2>2 DEF uniqueness
  <2>4. s[1].gen = TRUE /\ s[1].id = h
    BY <2>2
  <2>. QED
    BY <2>2, <2>3, <2>4, Zenon
<1>5. uniqueness(t.inputs)[1] = uniqueness(u.inputs)[1]
  BY Zenon DEF t, u
<1>6. CASE t \in Transactions /\ u \in Transactions
  <2>1. t.inputs[1].id = u.inputs[1].id /\ 1 \in 1 .. Len(t.inputs) /\ 1 \in 1 .. Len(u.inputs)
    <3>1. [gen |-> FALSE, id |-> t.inputs[1].id] = [gen |-> FALSE, id |-> u.inputs[1].id]
      BY <1>3, <1>5, <1>6, Zenon
    <3>2. Len(t.inputs) \in Nat \ {0} /\ Len(u.inputs) \in Nat \ {0}
      BY <1>3, <1>6, Zenon
    <3>. QED
      BY <3>1, <3>2, SMTT(30)
  <2>2. t = u
    BY <1>6, <2>1, ConsensusAssumption, Zenon
  <2>. QED
    BY <2>2 DEF t, u
<1>7. CASE t \in Transactions /\ u \in Miners[d]
  <2>1. [gen |-> FALSE, id |-> t.inputs[1].id] = [gen |-> TRUE, id |-> d]
    <3>1. uniqueness(t.inputs)[1] = [gen |-> FALSE, id |-> t.inputs[1].id]
      BY <1>3, <1>7, Zenon
    <3>2. uniqueness(u.inputs)[1] = [gen |-> TRUE, id |-> d]
      BY <1>1, <1>4, <1>7, Zenon
    <3>. QED
      BY <1>5, <3>1, <3>2, Zenon
  <2>. QED
    BY <2>1
<1>8. CASE t \in Miners[b] /\ u \in Transactions
  <2>1. [gen |-> FALSE, id |-> u.inputs[1].id] = [gen |-> TRUE, id |-> b]
    <3>1. uniqueness(u.inputs)[1] = [gen |-> FALSE, id |-> u.inputs[1].id]
      BY <1>3, <1>8, Zenon
    <3>2. uniqueness(t.inputs)[1] = [gen |-> TRUE, id |-> b]
      BY <1>1, <1>4, <1>8, Zenon
    <3>. QED
      BY <1>5, <3>1, <3>2, Zenon
  <2>. QED
    BY <2>1
<1>9. CASE i = 1 /\ j = 1 /\ t \in Miners[b] /\ u \in Miners[d]
  <2>1. [gen |-> TRUE, id |-> b] = [gen |-> TRUE, id |-> d]
    <3>1. uniqueness(t.inputs)[1] = [gen |-> TRUE, id |-> b]
      BY <1>1, <1>4, <1>9, Zenon
    <3>2. uniqueness(u.inputs)[1] = [gen |-> TRUE, id |-> d]
      BY <1>1, <1>4, <1>9, Zenon
    <3>. QED
      BY <1>5, <3>1, <3>2, Zenon
  <2>2. b = d
    BY <2>1
  <2>. QED
    BY <1>9, <2>2, Zenon
<1>. QED
  BY <1>2, <1>6, <1>7, <1>8, <1>9, Zenon

\* Every output found is the RingCT output at its index on the chain, under a key of the wallet its
\* offset opens, with the amount the chain commits to; none is found twice. Of a wallet with any
\* subaddresses, over any chain, with any senders (scan.rs: scan_transaction, scan).
THEOREM FoundOnChain == Spec => []FoundIsOnChain
<1>1. Inv => FoundIsOnChain
  <2>. SUFFICES ASSUME Inv PROVE FoundIsOnChain
    OBVIOUS
  <2>0. ChainOK(chain, earlier)
    BY DEF Inv
  <2>1. ASSUME NEW w \in found
        PROVE  LET index == w.index_on_blockchain - earlier + 1
               IN  /\ index \in 1 .. Len(ChainRingCT)
                   /\ ChainRingCT[index] = [hash |-> w.transaction, output |-> w.index_in_transaction + 1, key |-> w.key]
                   /\ w.key = OneTimeKey(w.key_offset.shared, SpendKey(Wallet, w.key_offset.subaddress))
                   /\ \A b \in 1 .. Len(chain) : \A i \in 1 .. Len(BlockTransactions(chain[b])) :
                        LET tx == BlockTransactions(chain[b])[i]
                        IN  tx.hash = w.transaction => tx.committed[w.index_in_transaction + 1] = w.commitment.amount
    <3>1. PICK b \in 1 .. Len(chain) : \E i \in 1 .. Len(BlockTransactions(chain[b])) : \E o : FoundAt(w, b, i, o)
      BY PlaceFound, Zenon
    <3>2. PICK i \in 1 .. Len(BlockTransactions(chain[b])) : \E o : FoundAt(w, b, i, o)
      BY <3>1, Zenon
    <3>3. PICK o : FoundAt(w, b, i, o)
      BY <3>2, Zenon
    <3>4. PICK tx \in AllTransactions : tx = BlockTransactions(chain[b])[i]
      BY <3>3, Zenon DEF FoundAt
    <3>. DEFINE key == tx.outputs[o].key
                index == w.index_on_blockchain - earlier + 1
    <3>5. /\ o \in 1 .. Len(tx.outputs) /\ Ours(scanner.guaranteed, tx, o)
          /\ w.transaction = tx.hash /\ w.index_in_transaction + 1 = o
          /\ w.key = key /\ w.key_offset = [shared |-> key.shared, subaddress |-> SubaddressIndex(key.spend[2])]
          /\ w.commitment = Opened(tx, o)
          /\ index \in 1 .. Len(ChainRingCT)
          /\ ChainRingCT[index] = [hash |-> tx.hash, output |-> o, key |-> key]
      BY <3>3, <3>4, Zenon DEF FoundAt
    <3>6. w.key = OneTimeKey(w.key_offset.shared, SpendKey(Wallet, w.key_offset.subaddress))
      <4>1. key = [kind |-> key.kind, shared |-> key.shared, spend |-> key.spend]
        BY <3>5, TransactionsAssumption, Zenon DEF AllTransactions
      <4>2. key.kind = "point" /\ key.spend = <<Wallet, key.spend[2]>> /\ key.spend[2] \in Nat
        BY <3>5, Zenon DEF Ours
      <4>3. SpendKey(Wallet, SubaddressIndex(key.spend[2])) = <<Wallet, key.spend[2]>>
        <5>. HIDE DEF key
        <5>1. CASE key.spend[2] = 0
          BY <5>1 DEF SpendKey, SubaddressIndex, Some, None
        <5>2. CASE key.spend[2] # 0
          BY <5>2 DEF SpendKey, SubaddressIndex, Some, None
        <5>. QED
          BY <5>1, <5>2
      <4>4. w.key_offset.shared = key.shared /\ w.key_offset.subaddress = SubaddressIndex(key.spend[2])
        <5>. HIDE DEF key
        <5>. QED
          BY <3>5
      <4>. QED
        BY <3>5, <4>1, <4>2, <4>3, <4>4, Zenon DEF OneTimeKey
    <3>7. ASSUME NEW d \in 1 .. Len(chain), NEW j \in 1 .. Len(BlockTransactions(chain[d])),
                 BlockTransactions(chain[d])[j].hash = w.transaction
          PROVE  BlockTransactions(chain[d])[j].committed[w.index_in_transaction + 1] = w.commitment.amount
      <4>1. BlockTransactions(chain[b])[i].hash = BlockTransactions(chain[d])[j].hash
        BY <3>4, <3>5, <3>7, Zenon
      <4>2. b = d /\ i = j
        BY <2>0, <4>1, OnePlace, Zenon
      <4>3. tx.outputs[o].amount # None \/ o <= Len(tx.proofs[1].commitments)
        BY <3>5, Zenon DEF Ours
      <4>4. tx.committed[o] = Opened(tx, o).amount
        <5>1. /\ tx.outputs[o].amount # None => tx.committed[o] = tx.outputs[o].amount[1]
              /\ tx.outputs[o].amount = None /\ o <= Len(tx.proofs[1].commitments) =>
                   tx.committed[o] = tx.proofs[1].commitments[o].amount
          BY <3>5, TransactionsAssumption, Zenon DEF AllTransactions
        <5>2. [ZeroCommitment EXCEPT !.amount = tx.outputs[o].amount[1]].amount = tx.outputs[o].amount[1]
          BY DEF ZeroCommitment
        <5>. QED
          BY <4>3, <5>1, <5>2, Zenon DEF Opened
      <4>. QED
        BY <3>4, <3>5, <4>2, <4>4, Zenon
    <3>. QED
      BY <3>5, <3>6, <3>7, Zenon
  <2>2. ASSUME NEW v \in found, NEW w \in found, v.index_on_blockchain = w.index_on_blockchain PROVE v = w
    BY <2>2, PlaceFound, OneOutput, Zenon
  <2>. QED
    BY <2>1, <2>2, Zenon DEF FoundIsOnChain
<1>. QED
  BY <1>1, Invariance, PTL

\* The outputs found by a GuaranteedScanner never have the same one-time key, unless they are one,
\* whichever keys their senders use again (scan.rs: GuaranteedScanner; lib.rs: uniqueness).
THEOREM NeverBurns == Spec => []NeverBurnt
<1>1. Inv => NeverBurnt
  <2>. SUFFICES ASSUME Inv, scanner.guaranteed, NEW v \in found, NEW w \in found, v.key = w.key
                PROVE  v.index_on_blockchain = w.index_on_blockchain
    BY Zenon DEF NeverBurnt
  <2>0. ChainOK(chain, earlier)
    BY DEF Inv
  <2>. DEFINE Tx(b, i) == BlockTransactions(chain[b])[i]
  <2>1. PICK b \in 1 .. Len(chain) : \E i \in 1 .. Len(BlockTransactions(chain[b])) : \E o : FoundAt(v, b, i, o)
    BY PlaceFound, Zenon
  <2>2. PICK i \in 1 .. Len(BlockTransactions(chain[b])) : \E o : FoundAt(v, b, i, o)
    BY <2>1, Zenon
  <2>3. PICK o : FoundAt(v, b, i, o)
    BY <2>2, Zenon
  <2>4. PICK d \in 1 .. Len(chain) : \E j \in 1 .. Len(BlockTransactions(chain[d])) : \E q : FoundAt(w, d, j, q)
    BY PlaceFound, Zenon
  <2>5. PICK j \in 1 .. Len(BlockTransactions(chain[d])) : \E q : FoundAt(w, d, j, q)
    BY <2>4, Zenon
  <2>6. PICK q : FoundAt(w, d, j, q)
    BY <2>5, Zenon
  <2>7. PICK t, u : /\ t = Tx(b, i) /\ Ours(scanner.guaranteed, t, o) /\ v.key = t.outputs[o].key
                    /\ u = Tx(d, j) /\ Ours(scanner.guaranteed, u, q) /\ w.key = u.outputs[q].key
    BY <2>3, <2>6, Zenon DEF FoundAt
  <2>8. v.key.shared.uniqueness = Some(uniqueness(t.inputs)) /\ w.key.shared.uniqueness = Some(uniqueness(u.inputs))
        /\ v.key.shared.o = o - 1 /\ w.key.shared.o = q - 1
    BY <2>7, Zenon DEF Ours
  <2>9. uniqueness(t.inputs) = uniqueness(u.inputs) /\ o - 1 = q - 1
    BY <2>8 DEF Some
  <2>10. o = q
    <3>1. o \in 1 .. Len(t.outputs) /\ q \in 1 .. Len(u.outputs)
      BY <2>3, <2>6, <2>7, Zenon DEF FoundAt
    <3>. QED
      BY <2>9, <3>1
  <2>11. t.hash = u.hash
    BY <2>0, <2>7, <2>9, SameInputs, Zenon
  <2>12. b = d /\ i = j
    <3>1. BlockTransactions(chain[b])[i].hash = BlockTransactions(chain[d])[j].hash
      BY <2>7, <2>11, Zenon
    <3>. QED
      BY <2>0, <3>1, OnePlace, ZenonT(60)
  <2>. QED
    BY <2>3, <2>6, <2>10, <2>12, OneIndex, Zenon
<1>. QED
  BY <1>1, Invariance, PTL

\* Whether a timelock is satisfied is whether what it was read from is at most the block or the time.
LEMMA TimelockSatisfied ==
  ASSUME NEW n \in Nat, NEW block \in Int, NEW time \in Int, block >= 0, time >= 0
  PROVE  (\/ TimelockLeq(ReadTimelock(n), [kind |-> "block", at |-> block])
          \/ TimelockLeq(ReadTimelock(n), [kind |-> "time", at |-> time]))
           <=> n <= IF n < BlockThreshold THEN block ELSE time
<1>. DEFINE l == ReadTimelock(n)
<1>1. l.at = n /\ l.kind = IF n = 0 THEN "none" ELSE IF n < BlockThreshold THEN "block" ELSE "time"
  BY DEF ReadTimelock
<1>. HIDE DEF l
<1>2. /\ TimelockLeq(l, [kind |-> "block", at |-> block]) <=> l.kind = "none" \/ (l.kind = "block" /\ l.at <= block)
      /\ TimelockLeq(l, [kind |-> "time", at |-> time]) <=> l.kind = "none" \/ (l.kind = "time" /\ l.at <= time)
  BY DEF TimelockLeq
<1>3. CASE n = 0
  <2>1. l.kind = "none" /\ n < BlockThreshold
    BY <1>1, <1>3, BoundsAssumption
  <2>. QED
    BY <1>2, <1>3, <2>1 DEF l
<1>4. CASE n # 0 /\ n < BlockThreshold
  <2>1. l.kind = "block"
    BY <1>1, <1>4
  <2>. QED
    BY <1>1, <1>2, <1>4, <2>1 DEF l
<1>5. CASE n # 0 /\ ~(n < BlockThreshold)
  <2>1. l.kind = "time"
    BY <1>1, <1>5
  <2>. QED
    BY <1>1, <1>2, <1>5, <2>1 DEF l
<1>. QED
  BY <1>3, <1>4, <1>5

\* The outputs said to be unlocked by a block and a time are those whose unlock time, as the chain
\* has it, is at most the one or the other, after any restart (scan.rs: Timelocked; transaction.rs: Timelock).
THEOREM LocksAreKept == Spec => []LocksKept
<1>1. Inv => LocksKept
  <2>. SUFFICES ASSUME Inv, NEW w \in found, NEW b \in 1 .. Len(chain), NEW i \in 1 .. Len(BlockTransactions(chain[b])),
                       BlockTransactions(chain[b])[i].hash = w.transaction
                PROVE  LET tx == BlockTransactions(chain[b])[i]
                       IN  /\ \A block \in {0, BlockThreshold - 1}, time \in {BlockThreshold - 1, tx.unlock_time} :
                                w \in additional_timelock_satisfied_by(found, block, time) <=>
                                  tx.unlock_time <= IF tx.unlock_time < BlockThreshold THEN block ELSE time
                           /\ w \in not_additionally_locked(found) <=> tx.unlock_time = 0
    BY Zenon DEF LocksKept
  <2>0. ChainOK(chain, earlier)
    BY DEF Inv
  <2>1. PICK d \in 1 .. Len(chain) : \E j \in 1 .. Len(BlockTransactions(chain[d])) : \E o : FoundAt(w, d, j, o)
    BY PlaceFound, Zenon
  <2>2. PICK j \in 1 .. Len(BlockTransactions(chain[d])) : \E o : FoundAt(w, d, j, o)
    BY <2>1, Zenon
  <2>3. PICK tx \in AllTransactions : /\ tx = BlockTransactions(chain[d])[j] /\ w.transaction = tx.hash
                                      /\ w.additional_timelock = ReadTimelock(tx.unlock_time)
    BY <2>2, Zenon DEF FoundAt
  <2>4. b = d /\ i = j
    <3>1. BlockTransactions(chain[b])[i].hash = BlockTransactions(chain[d])[j].hash
      BY <2>3, Zenon
    <3>. QED
      BY <2>0, <3>1, OnePlace, SMTT(30)
  <2>5. tx = BlockTransactions(chain[b])[i]
    BY <2>3, <2>4, Zenon
  <2>6. PICK n \in Nat : n = tx.unlock_time
    BY TransactionIs
  <2>7. ASSUME NEW block \in {0, BlockThreshold - 1}, NEW time \in {BlockThreshold - 1, n}
        PROVE  w \in additional_timelock_satisfied_by(found, block, time) <=>
                 n <= IF n < BlockThreshold THEN block ELSE time
    <3>1. block \in Int /\ time \in Int /\ block >= 0 /\ time >= 0
      BY BoundsAssumption
    <3>2. w \in additional_timelock_satisfied_by(found, block, time) <=>
            \/ TimelockLeq(ReadTimelock(n), [kind |-> "block", at |-> block])
            \/ TimelockLeq(ReadTimelock(n), [kind |-> "time", at |-> time])
      BY <2>3, <2>6, Zenon DEF additional_timelock_satisfied_by
    <3>3. (\/ TimelockLeq(ReadTimelock(n), [kind |-> "block", at |-> block])
           \/ TimelockLeq(ReadTimelock(n), [kind |-> "time", at |-> time]))
            <=> n <= IF n < BlockThreshold THEN block ELSE time
      BY <3>1, TimelockSatisfied, Zenon
    <3>. QED
      BY <3>2, <3>3, Zenon
  <2>8. w \in not_additionally_locked(found) <=> n = 0
    <3>1. w \in not_additionally_locked(found) <=> ReadTimelock(n).kind = "none"
      BY <2>3, <2>6, Zenon DEF not_additionally_locked
    <3>2. ReadTimelock(n).kind = "none" <=> n = 0
      BY DEF ReadTimelock
    <3>. QED
      BY <3>1, <3>2, Zenon
  <2>. QED
    BY <2>5, <2>6, <2>7, <2>8, Zenon
<1>. QED
  BY <1>1, Invariance, PTL

---------------------------------------------------------------------------------
(* What a sender put in the extra is what its recipient gets out of it. *)

\* The fields of an extra.
LEMMA ExtraIs ==
  ASSUME NEW tx \in AllTransactions
  PROVE  /\ tx.extra \in Seq(Range(tx.extra))
         /\ \A i \in 1 .. Len(tx.extra) :
              /\ tx.extra[i].len \in Nat /\ tx.extra[i].keys \in Seq(Range(tx.extra[i].keys))
              /\ tx.extra[i].tag = "Nonce" => tx.extra[i].len = tx.extra[i].nonce.len
              /\ tx.extra[i].nonce.kind = "arbitrary" => tx.extra[i].nonce.len \in Nat \ {0}
         /\ tx.data = arbitrary_data(ReadExtra(tx.extra))
         /\ tx.valid /\ tx.version = 2 => \A o \in 1 .. Len(tx.outputs) : ~LacksAmount(tx, o)
BY TransactionsAssumption, Zenon DEF AllTransactions

\* Reading an extra ends at the first field which does not read.
LEMMA ReadExtraIs ==
  ASSUME NEW T, NEW s \in Seq(T)
  PROVE  \E m \in 0 .. Len(s) : ReadExtra(s) = SubSeq(s, 1, m) /\ Readable(s) = 1 .. m
<1>1. PICK n \in Nat : n = Len(s)
  OBVIOUS
<1>. DEFINE reads(i) == FieldReads(s[i], i = Len(s))
            R == {k \in 0 .. n : \A i \in 1 .. k : reads(i)}
            m == CHOOSE k \in R : \A l \in R : l <= k
<1>2. 0 \in R /\ R \in SUBSET (0 .. n)
  OBVIOUS
<1>3. m \in R /\ \A l \in R : l <= m
  <2>. HIDE DEF R
  <2>1. \E k \in R : \A l \in R : l <= k
    BY <1>2, GreatestNatural
  <2>. QED
    BY <2>1
<1>4. ReadExtra(s) = SubSeq(s, 1, m)
  BY <1>1, Zenon DEF ReadExtra
<1>. HIDE DEF m
<1>5. m \in 0 .. n /\ \A i \in 1 .. m : reads(i)
  BY <1>3
<1>6. Readable(s) = 1 .. m
  <2>. HIDE DEF reads
  <2>0. Readable(s) = {i \in 1 .. n : \A j \in 1 .. i : reads(j)}
    BY <1>1, Zenon DEF Readable, reads
  <2>1. ASSUME NEW i \in 1 .. m PROVE i \in Readable(s)
    <3>1. i \in 1 .. n /\ \A j \in 1 .. i : j \in 1 .. m
      BY <1>5
    <3>. QED
      BY <1>5, <2>0, <3>1
  <2>2. ASSUME NEW i \in Readable(s) PROVE i \in 1 .. m
    <3>1. i \in 1 .. n /\ \A j \in 1 .. i : reads(j)
      BY <2>0
    <3>2. i \in R
      BY <3>1
    <3>3. i <= m
      <4>. HIDE DEF R
      <4>. QED
        BY <1>3, <3>2
    <3>. QED
      BY <1>5, <3>1, <3>3
  <2>. QED
    BY <2>1, <2>2
<1>. QED
  BY <1>1, <1>4, <1>5, <1>6

\* What is read are the fields which can be.
LEMMA ReadFields ==
  ASSUME NEW T, NEW s \in Seq(T)
  PROVE  /\ ReadExtra(s) \in Seq(T)
         /\ Len(ReadExtra(s)) <= Len(s)
         /\ Readable(s) = 1 .. Len(ReadExtra(s))
         /\ \A i \in Readable(s) : ReadExtra(s)[i] = s[i]
<1>1. PICK m \in 0 .. Len(s) : ReadExtra(s) = SubSeq(s, 1, m) /\ Readable(s) = 1 .. m
  BY ReadExtraIs
<1>2. /\ SubSeq(s, 1, m) \in Seq(T) /\ Len(SubSeq(s, 1, m)) = m
      /\ \A j \in 1 .. m : SubSeq(s, 1, m)[j] = s[j]
  BY Prefix, Zenon
<1>. QED
  BY <1>1, <1>2

\* The places of the fields with a tag.
TagPlaces(e, tag) == {i \in 1 .. Len(e) : e[i].tag = tag}

\* Every field of a tag is among those of the tag.
LEMMA OfTagHas ==
  ASSUME NEW T, NEW e \in Seq(T), NEW tag, NEW i \in 1 .. Len(e), e[i].tag = tag
  PROVE  OfTag(e, tag) \in Seq(T) /\ \E k \in 1 .. Len(OfTag(e, tag)) : OfTag(e, tag)[k] = e[i]
<1>. DEFINE P == TagPlaces(e, tag)
<1>1. P \in SUBSET (1 .. Len(e)) /\ i \in P /\ OfTag(e, tag) = Elements(e, P)
  BY DEF TagPlaces, OfTag
<1>. HIDE DEF P
<1>2. Elements(e, P) \in Seq(T) /\ \E p : TakenAt(e, P, p)
  BY <1>1, ElementsAre
<1>3. \E k \in 1 .. Len(Elements(e, P)) : Elements(e, P)[k] = e[i]
  BY <1>1, <1>2, ZenonT(60) DEF TakenAt
<1>. QED
  BY <1>1, <1>2, <1>3

\* The first field of a tag is the first of those of the tag.
LEMMA OfTagFirst ==
  ASSUME NEW T, NEW s \in Seq(T), NEW tag, NEW i, IsFirst(s, i, tag)
  PROVE  /\ OfTag(ReadExtra(s), tag) \in Seq(T) /\ OfTag(ReadExtra(s), tag) # <<>>
         /\ OfTag(ReadExtra(s), tag)[1] = s[i]
<1>. DEFINE e == ReadExtra(s)
            P == TagPlaces(e, tag)
<1>1. /\ e \in Seq(T) /\ Len(e) <= Len(s) /\ Readable(s) = 1 .. Len(e)
      /\ \A j \in Readable(s) : e[j] = s[j]
  BY ReadFields, Zenon
<1>2. i \in Readable(s) /\ s[i].tag = tag /\ \A j \in 1 .. i - 1 : s[j].tag # tag
  BY DEF IsFirst
<1>. HIDE DEF e
<1>3. i \in 1 .. Len(e) /\ e[i] = s[i]
  BY <1>1, <1>2
<1>4. P \in SUBSET (1 .. Len(e)) /\ i \in P /\ OfTag(e, tag) = Elements(e, P)
  BY <1>2, <1>3 DEF TagPlaces, OfTag
<1>5. ASSUME NEW j \in P PROVE i <= j
  <2>1. j \in 1 .. Len(e) /\ e[j].tag = tag
    BY DEF TagPlaces
  <2>2. s[j].tag = tag
    BY <1>1, <2>1
  <2>. QED
    BY <1>1, <1>2, <1>3, <2>1, <2>2
<1>. HIDE DEF P
<1>6. Elements(e, P) \in Seq(T) /\ Elements(e, P) # <<>> /\ Elements(e, P)[1] = e[i]
  BY <1>1, <1>4, <1>5, FirstElement
<1>. QED
  BY <1>3, <1>4, <1>6 DEF e

\* Without such a field there is none of the tag.
LEMMA OfTagNone ==
  ASSUME NEW T, NEW s \in Seq(T), NEW tag, OfTag(ReadExtra(s), tag) # <<>>
  PROVE  \E i \in 1 .. Len(s) : IsFirst(s, i, tag)
<1>. DEFINE e == ReadExtra(s)
            P == TagPlaces(e, tag)
<1>1. /\ e \in Seq(T) /\ Len(e) <= Len(s) /\ Readable(s) = 1 .. Len(e)
      /\ \A j \in Readable(s) : e[j] = s[j]
  BY ReadFields, Zenon
<1>. HIDE DEF e
<1>2. P \in SUBSET (1 .. Len(e)) /\ OfTag(e, tag) = Elements(e, P)
  BY DEF TagPlaces, OfTag
<1>3. P # {}
  <2>. SUFFICES ASSUME P = {} PROVE FALSE
    OBVIOUS
  <2>. HIDE DEF P
  <2>1. Elements(e, P) \in Seq(T) /\ \E p : TakenAt(e, P, p)
    BY <1>1, <1>2, ElementsAre
  <2>2. PICK p : p \in [1 .. Len(Elements(e, P)) -> P]
    BY <2>1 DEF TakenAt
  <2>3. Len(Elements(e, P)) = 0
    <3>1. Len(Elements(e, P)) \in Nat
      BY <2>1
    <3>2. ASSUME Len(Elements(e, P)) # 0 PROVE FALSE
      <4>1. 1 \in 1 .. Len(Elements(e, P))
        BY <3>1, <3>2
      <4>2. p[1] \in P
        BY <2>2, <4>1
      <4>. QED
        BY <4>2
    <3>. QED
      BY <3>2
  <2>4. Elements(e, P) = <<>>
    BY <2>1, <2>3, EmptySequence
  <2>. QED
    BY <1>2, <2>4 DEF e
<1>4. P \in SUBSET Nat
  BY <1>2
<1>5. PICK i \in P : \A j \in P : i <= j
  <2>. HIDE DEF P
  <2>. QED
    BY <1>3, <1>4, LeastNatural
<1>6. i \in 1 .. Len(e) /\ e[i].tag = tag
  BY DEF TagPlaces
<1>7. ASSUME NEW j \in 1 .. i - 1 PROVE s[j].tag # tag
  <2>1. j \in 1 .. Len(e) /\ ~(i <= j)
    BY <1>1, <1>6
  <2>2. j \notin P
    <3>. HIDE DEF P
    <3>. QED
      BY <1>5, <2>1
  <2>3. e[j].tag # tag
    BY <2>1, <2>2 DEF TagPlaces
  <2>. QED
    BY <1>1, <2>1, <2>3
<1>8. i \in 1 .. Len(s) /\ i \in Readable(s) /\ s[i].tag = tag
  BY <1>1, <1>6
<1>. QED
  BY <1>7, <1>8 DEF IsFirst

\* The keys of each field are a sequence.
HasKeys(s) == \A i \in 1 .. Len(s) : s[i].keys \in Seq(Range(s[i].keys))

\* The keys of an extra, of which each is the identity if it does not decompress.
LEMMA KeysAre ==
  ASSUME NEW T, NEW s \in Seq(T), HasKeys(s)
  PROVE  \E K : /\ TxKeys(ReadExtra(s)) \in Seq(K) /\ AdditionalKeys(ReadExtra(s)) \in Seq(K)
                /\ Len(TxKeys(ReadExtra(s))) = Len(OfTag(ReadExtra(s), "PublicKey"))
                /\ \A k \in 1 .. Len(OfTag(ReadExtra(s), "PublicKey")) :
                     TxKeys(ReadExtra(s))[k] = KeyOrIdentity(OfTag(ReadExtra(s), "PublicKey")[k].keys[1])
<1>. DEFINE e == ReadExtra(s)
            f == OfTag(e, "PublicKey")
            g == OfTag(e, "PublicKeys")
            t == TxKeys(e)
            a == AdditionalKeys(e)
            K == {t[i] : i \in 1 .. Len(t)} \cup {a[i] : i \in 1 .. Len(a)}
<1>1. Len(f) \in Nat
  <2>1. CASE f = <<>>
    BY <2>1
  <2>2. CASE f # <<>>
    <3>1. PICK i \in 1 .. Len(s) : IsFirst(s, i, "PublicKey")
      BY <2>2, OfTagNone, Zenon
    <3>2. f \in Seq(T)
      BY <3>1, OfTagFirst, Zenon
    <3>. HIDE DEF f
    <3>. QED
      BY <3>2
  <2>. QED
    BY <2>1, <2>2
<1>2. t = [i \in 1 .. Len(f) |-> KeyOrIdentity(f[i].keys[1])]
  BY Zenon DEF TxKeys
<1>3. a = <<>> \/ \E n \in Nat : a = [i \in 1 .. n |-> KeyOrIdentity(g[1].keys[i])]
  <2>1. CASE g = <<>>
    BY <2>1, Zenon DEF AdditionalKeys
  <2>2. CASE g # <<>>
    <3>1. PICK i \in 1 .. Len(s) : IsFirst(s, i, "PublicKeys")
      BY <2>2, OfTagNone, Zenon
    <3>2. g[1] = s[i]
      BY <3>1, OfTagFirst
    <3>3. Len(g[1].keys) \in Nat
      <4>1. s[i].keys \in Seq(Range(s[i].keys))
        BY Zenon DEF HasKeys
      <4>2. Len(s[i].keys) \in Nat
        BY <4>1
      <4>. QED
        BY <3>2, <4>2, Zenon
    <3>4. a = [j \in 1 .. Len(g[1].keys) |-> KeyOrIdentity(g[1].keys[j])]
      BY <2>2, Zenon DEF AdditionalKeys
    <3>. QED
      BY <3>3, <3>4, Zenon
  <2>. QED
    BY <2>1, <2>2, Zenon
<1>. HIDE DEF f, g, t, a
<1>4. t \in Seq(K) /\ Len(t) = Len(f) /\ \A k \in 1 .. Len(f) : t[k] = KeyOrIdentity(f[k].keys[1])
  BY <1>1, <1>2
<1>5. a \in Seq(K)
  <2>1. CASE a = <<>>
    BY <2>1
  <2>2. ASSUME NEW n \in Nat, a = [i \in 1 .. n |-> KeyOrIdentity(g[1].keys[i])] PROVE a \in Seq(K)
    BY <2>2
  <2>. QED
    BY <1>3, <2>1, <2>2, Zenon
<1>. HIDE DEF K, e
<1>. QED
  BY <1>4, <1>5, Zenon DEF e, f, t, a

\* The keys tried for an output are the transaction keys, then the output's additional key.
LEMMA KeysForIs ==
  ASSUME NEW K, NEW e, TxKeys(e) \in Seq(K), AdditionalKeys(e) \in Seq(K), TxKeys(e) # <<>>, NEW o \in Nat \ {0}
  PROVE  /\ KeysFor(e, o) \in Seq(K)
         /\ \A k \in 1 .. Len(TxKeys(e)) : k \in 1 .. Len(KeysFor(e, o)) /\ KeysFor(e, o)[k] = TxKeys(e)[k]
         /\ o <= Len(AdditionalKeys(e)) =>
              \E k \in 1 .. Len(KeysFor(e, o)) : KeysFor(e, o)[k] = AdditionalKeys(e)[o]
<1>1. PICK t \in Seq(K), a \in Seq(K) : t = TxKeys(e) /\ a = AdditionalKeys(e)
  BY Zenon
<1>. DEFINE b == SubSeq(a, o, IF o <= Len(a) THEN o ELSE o - 1)
<1>2. KeysFor(e, o) = Cat(t, b)
  BY <1>1, Zenon DEF KeysFor, Cat
<1>3. b \in Seq(K) /\ (o <= Len(a) => (Len(b) = 1 /\ b[1] = a[o]))
  <2>1. CASE o <= Len(a)
    <3>1. b = SubSeq(a, o, o) /\ o \in 1 .. Len(a)
      BY <2>1
    <3>2. SubSeq(a, o, o) \in Seq(K) /\ Len(SubSeq(a, o, o)) = 1 /\ SubSeq(a, o, o)[1] = a[o]
      BY <3>1
    <3>. QED
      BY <3>1, <3>2
  <2>2. CASE ~(o <= Len(a))
    <3>1. b = SubSeq(a, o, o - 1)
      BY <2>2
    <3>2. SubSeq(a, o, o - 1) = <<>>
      OBVIOUS
    <3>. QED
      BY <2>2, <3>1, <3>2
  <2>. QED
    BY <2>1, <2>2
<1>. HIDE DEF b
<1>4. /\ Cat(t, b) \in Seq(K) /\ Len(Cat(t, b)) = Len(t) + Len(b)
      /\ \A i \in 1 .. Len(t) : Cat(t, b)[i] = t[i]
      /\ \A i \in 1 .. Len(b) : Cat(t, b)[Len(t) + i] = b[i]
  <2>1. PICK c \in Seq(K) : c = b
    BY <1>3, Zenon
  <2>2. /\ Cat(t, c) \in Seq(K) /\ Len(Cat(t, c)) = Len(t) + Len(c)
        /\ \A i \in 1 .. Len(t) : Cat(t, c)[i] = t[i]
    BY DEF Cat
  <2>3. ASSUME NEW i \in 1 .. Len(c) PROVE Cat(t, c)[Len(t) + i] = c[i]
    BY CatSecond, Zenon
  <2>. QED
    BY <2>1, <2>2, <2>3, Zenon
<1>5. \A k \in 1 .. Len(t) : k \in 1 .. Len(Cat(t, b))
  BY <1>3, <1>4
<1>6. ASSUME o <= Len(a) PROVE \E k \in 1 .. Len(Cat(t, b)) : Cat(t, b)[k] = a[o]
  <2>0. Len(b) = 1 /\ b[1] = a[o]
    BY <1>3, <1>6, Zenon
  <2>1. Len(b) = 1 /\ b[1] = a[o] /\ 1 \in 1 .. Len(b)
    BY <2>0
  <2>2. Cat(t, b)[Len(t) + 1] = a[o]
    BY <1>4, <2>1
  <2>3. Len(t) + 1 \in 1 .. Len(Cat(t, b))
    BY <1>4, <2>1
  <2>. QED
    BY <2>2, <2>3
<1>. QED
  BY <1>1, <1>2, <1>4, <1>5, <1>6, Zenon

IsTried(s, o, key) ==
  /\ Len(KeysFor(ReadExtra(s), o)) \in Nat
  /\ \E k \in 1 .. Len(KeysFor(ReadExtra(s), o)) : KeysFor(ReadExtra(s), o)[k] = key

\* A key which an extra carries for an output is tried for it.
LEMMA KeyIsTried ==
  ASSUME NEW T, NEW s \in Seq(T), HasKeys(s),
         NEW o, o \in Nat \ {0}, NEW key, key # Undecodable, Carries(s, o, key)
  PROVE  IsTried(s, o, key)
<1>. DEFINE e == ReadExtra(s)
            f == OfTag(e, "PublicKey")
            t == TxKeys(e)
            a == AdditionalKeys(e)
<1>1. /\ e \in Seq(T) /\ Readable(s) = 1 .. Len(e) /\ Len(e) <= Len(s)
      /\ \A i \in Readable(s) : e[i] = s[i]
  BY ReadFields, Zenon
<1>2. PICK K : /\ t \in Seq(K) /\ a \in Seq(K) /\ Len(t) = Len(f)
               /\ \A k \in 1 .. Len(f) : t[k] = KeyOrIdentity(f[k].keys[1])
  BY KeysAre, Zenon
<1>3. KeyOrIdentity(key) = key
  BY DEF KeyOrIdentity, Decompress, Some, None
<1>. HIDE DEF e
<1>4. ASSUME NEW i \in Readable(s), s[i].tag = "PublicKey"
      PROVE  f \in Seq(T) /\ \E k \in 1 .. Len(f) : f[k] = s[i]
  <2>1. i \in 1 .. Len(e) /\ e[i] = s[i]
    BY <1>1, Zenon
  <2>2. e[i].tag = "PublicKey"
    BY <1>4, <2>1
  <2>. QED
    BY <1>1, <2>1, <2>2, OfTagHas
<1>5. PICK i \in Readable(s) : s[i].tag = "PublicKey"
  BY Zenon DEF Carries
<1>6. t # <<>>
  <2>1. PICK k \in 1 .. Len(f) : f[k] = s[i]
    BY <1>4, <1>5, Zenon
  <2>. HIDE DEF t, f
  <2>. QED
    BY <1>2, <2>1
<1>7. /\ KeysFor(e, o) \in Seq(K)
      /\ \A k \in 1 .. Len(t) : k \in 1 .. Len(KeysFor(e, o)) /\ KeysFor(e, o)[k] = t[k]
      /\ o <= Len(a) => \E k \in 1 .. Len(KeysFor(e, o)) : KeysFor(e, o)[k] = a[o]
  <2>1. /\ TxKeys(e) \in Seq(K) /\ AdditionalKeys(e) \in Seq(K) /\ TxKeys(e) # <<>> /\ o \in Nat \ {0}
    BY <1>2, <1>6, Zenon
  <2>. QED
    BY <2>1, KeysForIs
<1>8. ASSUME NEW j \in Readable(s), s[j].tag = "PublicKey", s[j].keys[1] = key
      PROVE  \E k \in 1 .. Len(KeysFor(e, o)) : KeysFor(e, o)[k] = key
  <2>1. PICK k \in 1 .. Len(f) : f[k] = s[j]
    BY <1>4, <1>8, Zenon
  <2>2. t[k] = key
    BY <1>2, <1>3, <1>8, <2>1, Zenon
  <2>. QED
    BY <1>2, <1>7, <2>2, Zenon
<1>9. ASSUME NEW j \in 1 .. Len(s), IsFirst(s, j, "PublicKeys"), o \in 1 .. Len(s[j].keys), s[j].keys[o] = key
      PROVE  \E k \in 1 .. Len(KeysFor(e, o)) : KeysFor(e, o)[k] = key
  <2>. DEFINE g == OfTag(e, "PublicKeys")
  <2>1. g # <<>> /\ g[1] = s[j]
    BY <1>9, OfTagFirst DEF e
  <2>2. a = [x \in 1 .. Len(g[1].keys) |-> KeyOrIdentity(g[1].keys[x])]
    BY <2>1, Zenon DEF AdditionalKeys
  <2>. HIDE DEF g, a
  <2>3. PICK n \in Nat : n = Len(g[1].keys)
    <3>1. s[j].keys \in Seq(Range(s[j].keys))
      BY Zenon DEF HasKeys
    <3>2. Len(s[j].keys) \in Nat
      BY <3>1
    <3>. QED
      BY <2>1, <3>2, Zenon
  <2>4. Len(a) = n /\ o \in 1 .. n /\ a[o] = KeyOrIdentity(g[1].keys[o])
    BY <1>9, <2>1, <2>2, <2>3
  <2>5. o <= Len(a) /\ a[o] = key
    BY <1>3, <1>9, <2>1, <2>4
  <2>. QED
    BY <1>7, <2>5, Zenon
<1>10. \E k \in 1 .. Len(KeysFor(e, o)) : KeysFor(e, o)[k] = key
  BY <1>8, <1>9, Zenon DEF Carries
<1>11. Len(KeysFor(e, o)) \in Nat
  <2>1. PICK q \in Seq(K) : q = KeysFor(e, o)
    BY <1>7, Zenon
  <2>. QED
    BY <2>1
<1>. QED
  BY <1>10, <1>11 DEF e, IsTried

---------------------------------------------------------------------------------
(* An output sent to the wallet is found. *)

\* What the sender multiplied is what the recipient does: r(vB) = v(rB).
LEMMA SharedSecret ==
  ASSUME NEW id, id # <<"identity", 0>>, NEW r, NEW v
  PROVE  /\ Mul(r, Generator(id)) # Undecodable
         /\ Mul(v, Mul(r, Generator(id))) = Mul(r, Mul(v, Generator(id)))
<1>1. ASSUME NEW x PROVE Mul(x, Generator(id)) = [of |-> id, by |-> {x}]
  <2>1. Generator(id) = [of |-> id, by |-> {}] /\ IDENTITY = [of |-> <<"identity", 0>>, by |-> {}]
    BY DEF Generator, IDENTITY
  <2>2. Generator(id) # IDENTITY
    BY <2>1
  <2>. QED
    BY <2>1, <2>2 DEF Mul
<1>2. ASSUME NEW x, NEW y PROVE Mul(y, Mul(x, Generator(id))) = [of |-> id, by |-> {x} \cup {y}]
  <2>1. IDENTITY = [of |-> <<"identity", 0>>, by |-> {}]
    BY DEF Generator, IDENTITY
  <2>2. [of |-> id, by |-> {x}] # IDENTITY
    BY <2>1
  <2>. QED
    BY <1>1, <2>2 DEF Mul
<1>3. Undecodable = [of |-> <<"undecodable", 0>>, by |-> {}]
  BY DEF Generator, Undecodable
<1>4. [of |-> id, by |-> {r}] # Undecodable
  BY <1>3
<1>5. {r} \cup {v} = {v} \cup {r}
  OBVIOUS
<1>6. Mul(r, Generator(id)) # Undecodable
  BY <1>1, <1>4, Zenon
<1>7. Mul(v, Mul(r, Generator(id))) = Mul(r, Mul(v, Generator(id)))
  <2>1. Mul(v, Mul(r, Generator(id))) = [of |-> id, by |-> {r} \cup {v}]
    BY <1>2, Zenon
  <2>2. Mul(r, Mul(v, Generator(id))) = [of |-> id, by |-> {v} \cup {r}]
    BY <1>2, Zenon
  <2>. QED
    BY <1>5, <2>1, <2>2
<1>. QED
  BY <1>6, <1>7

\* What the sender derived the output from.
SentKeys(tx, o) ==
  IF tx.intended[o].subaddress = None THEN MainKeys(Wallet) ELSE subaddress_keys(Wallet, tx.intended[o].subaddress)
SentBase(tx, o) ==
  IF tx.intended[o].subaddress = None THEN BASEPOINT ELSE Generator(SentKeys(tx, o).spend)
SentSecret(tx, o) == Mul(tx.scalars[o], SentKeys(tx, o).view)
SentDerivations(tx, o) ==
  output_derivations(IF tx.intended[o].guaranteed THEN Some(uniqueness(tx.inputs)) ELSE None, SentSecret(tx, o), o - 1)

\* An output meant for the wallet, for its address or a subaddress, by the scalar its key in extra is of.
LEMMA SentIs ==
  ASSUME NEW tx \in AllTransactions, tx.version = 2, NEW o \in 1 .. Len(tx.outputs), tx.intended[o].wallet = Wallet
  PROVE  /\ SentKeys(tx, o).spend = SpendKey(Wallet, tx.intended[o].subaddress)
         /\ \E n \in Nat : /\ SentKeys(tx, o).spend = <<Wallet, n>>
                           /\ tx.intended[o].subaddress = SubaddressIndex(n)
         /\ Carries(tx.extra, o, Mul(tx.scalars[o], SentBase(tx, o)))
         /\ Mul(tx.scalars[o], SentBase(tx, o)) # Undecodable
         /\ Mul(View(Wallet), Mul(tx.scalars[o], SentBase(tx, o))) = SentSecret(tx, o)
         /\ CarriesId(tx.extra, tx.intended[o].payment_id, SentSecret(tx, o))
         /\ tx.outputs[o].key = OneTimeKey(SentDerivations(tx, o).shared_key, SentKeys(tx, o).spend)
         /\ tx.outputs[o].view_tag \in {None, Some(SentDerivations(tx, o).view_tag)}
<1>. DEFINE for == tx.intended[o]
            r == tx.scalars[o]
<1>0. Sent(tx, o)
  BY SendersAssumption DEF AllTransactions
<1>1. for.subaddress = None \/ (for.subaddress = Some(for.subaddress[1]) /\ for.subaddress[1] \in Nat \ {0})
  BY <1>0, Zenon DEF Sent
<1>2. CASE for.subaddress = None
  <2>1. SentKeys(tx, o) = [spend |-> <<Wallet, 0>>, view |-> Mul(View(Wallet), BASEPOINT)]
    BY <1>2 DEF SentKeys, MainKeys, SpendKey
  <2>2. BASEPOINT = Generator(<<"G", 0>>) /\ <<"G", 0>> # <<"identity", 0>>
    BY DEF BASEPOINT
  <2>3. SentBase(tx, o) = Generator(<<"G", 0>>) /\ SentKeys(tx, o).view = Mul(View(Wallet), Generator(<<"G", 0>>))
    BY <1>2, <2>1, <2>2 DEF SentBase
  <2>4. /\ Mul(r, SentBase(tx, o)) # Undecodable
        /\ Mul(View(Wallet), Mul(r, SentBase(tx, o))) = SentSecret(tx, o)
    BY <2>2, <2>3, SharedSecret, Zenon DEF SentSecret
  <2>5. /\ SentKeys(tx, o).spend = SpendKey(Wallet, for.subaddress)
        /\ \E n \in Nat : SentKeys(tx, o).spend = <<Wallet, n>> /\ for.subaddress = SubaddressIndex(n)
    <3>1. SubaddressIndex(0) = None /\ 0 \in Nat /\ SpendKey(Wallet, None) = <<Wallet, 0>>
      BY DEF SubaddressIndex, SpendKey
    <3>2. SentKeys(tx, o).spend = <<Wallet, 0>>
      BY <2>1
    <3>. QED
      BY <1>2, <3>1, <3>2, Zenon
  <2>6. Carries(tx.extra, o, Mul(r, SentBase(tx, o)))
    BY <1>0, <1>2, Zenon DEF Sent, SentBase
  <2>. QED
    BY <1>0, <2>4, <2>5, <2>6, Zenon DEF Sent, SentKeys, SentSecret, SentDerivations
<1>3. CASE for.subaddress # None
  <2>0. PICK n \in Nat \ {0} : for.subaddress = Some(n) /\ for.subaddress[1] = n
    BY <1>1, <1>3, Zenon
  <2>1. SentKeys(tx, o) = [spend |-> <<Wallet, n>>, view |-> Mul(View(Wallet), Generator(<<Wallet, n>>))]
    BY <1>3, <2>0 DEF SentKeys, subaddress_keys, SpendKey
  <2>2. <<Wallet, n>> # <<"identity", 0>>
    OBVIOUS
  <2>3. SentBase(tx, o) = Generator(<<Wallet, n>>) /\ SentKeys(tx, o).view = Mul(View(Wallet), Generator(<<Wallet, n>>))
    BY <1>3, <2>1, <2>2 DEF SentBase
  <2>4. /\ Mul(r, SentBase(tx, o)) # Undecodable
        /\ Mul(View(Wallet), Mul(r, SentBase(tx, o))) = SentSecret(tx, o)
    BY <2>2, <2>3, SharedSecret, ZenonT(60) DEF SentSecret
  <2>5. /\ SentKeys(tx, o).spend = SpendKey(Wallet, for.subaddress)
        /\ \E m \in Nat : SentKeys(tx, o).spend = <<Wallet, m>> /\ for.subaddress = SubaddressIndex(m)
    <3>1. SubaddressIndex(n) = Some(n) /\ SpendKey(Wallet, for.subaddress) = <<Wallet, n>>
      BY <1>3, <2>0 DEF SubaddressIndex, SpendKey
    <3>. QED
      BY <2>0, <2>1, <3>1
  <2>6. Carries(tx.extra, o, Mul(r, SentBase(tx, o)))
    BY <1>0, <1>3, Zenon DEF Sent, SentBase, SentKeys
  <2>. QED
    BY <1>0, <2>4, <2>5, <2>6, Zenon DEF Sent, SentKeys, SentSecret, SentDerivations
<1>. QED
  BY <1>2, <1>3

\* The amount of an output meant for the wallet, where the transaction has it.
LEMMA SentAmount ==
  ASSUME NEW tx \in AllTransactions, tx.version = 2, NEW o \in 1 .. Len(tx.outputs), tx.intended[o].wallet = Wallet,
         ~LacksAmount(tx, o)
  PROVE  /\ tx.outputs[o].amount \in {None, Some(tx.intended[o].amount)}
         /\ tx.outputs[o].amount = None =>
              /\ o <= Len(tx.proofs[1].commitments)
              /\ tx.proofs[1].commitments[o] = decrypt(SentDerivations(tx, o), tx.proofs[1].encrypted_amounts[o])
              /\ tx.proofs[1].commitments[o].amount = tx.intended[o].amount
<1>0. Sent(tx, o)
  BY SendersAssumption DEF AllTransactions
<1>. DEFINE d == SentDerivations(tx, o)
            enc == tx.proofs[1].encrypted_amounts[o]
            com == tx.proofs[1].commitments[o]
<1>1. /\ tx.outputs[o].amount \in {None, Some(tx.intended[o].amount)}
      /\ tx.outputs[o].amount = None =>
           /\ enc.key = d.shared_key /\ enc.amount = tx.intended[o].amount
           /\ o <= Len(tx.proofs[1].commitments)
           /\ com = [mask |-> IF enc.form = "original" THEN enc.mask ELSE commitment_mask(d),
                     amount |-> tx.intended[o].amount]
  BY <1>0, Zenon DEF Sent, SentKeys, SentSecret, SentDerivations
<1>. HIDE DEF d, enc, com
<1>2. ASSUME tx.outputs[o].amount = None
      PROVE  com = decrypt(d, enc) /\ com.amount = tx.intended[o].amount
  BY <1>1, <1>2 DEF decrypt
<1>. QED
  BY <1>1, <1>2, Zenon DEF d, enc, com

\* An output meant for the wallet, derived as the scanner derives, under a key registered.
Awaited(sc, tx, o) ==
  /\ tx.version = 2
  /\ tx.intended[o].wallet = Wallet
  /\ tx.intended[o].guaranteed = sc.guaranteed
  /\ SpendKey(Wallet, tx.intended[o].subaddress) \in DOMAIN sc.subaddresses

\* Some key tried for an output sent to the wallet finds it, and whichever does opens its amount.
LEMMA SentAttempts ==
  ASSUME NEW sc, sc.wallet = Wallet, NEW tx \in AllTransactions, NEW o \in 1 .. Len(tx.outputs), Awaited(sc, tx, o)
  PROVE  /\ tx.outputs[o].key.kind = "point"
         /\ Len(KeysFor(ReadExtra(tx.extra), o)) \in Nat
         /\ \E k \in 1 .. Len(KeysFor(ReadExtra(tx.extra), o)) : IsOurs(sc, tx, o, KeysFor(ReadExtra(tx.extra), o)[k])
         /\ \A key : Attempt(sc, tx, o, key) = IF ~IsOurs(sc, tx, o, key) THEN "continue"
                                               ELSE IF LacksAmount(tx, o) THEN "error" ELSE "found"
<1>. DEFINE for == tx.intended[o]
            d == SentDerivations(tx, o)
            spend == SentKeys(tx, o).spend
            output == tx.outputs[o]
            R == Mul(tx.scalars[o], SentBase(tx, o))
            keys == KeysFor(ReadExtra(tx.extra), o)
<1>1. /\ tx.version = 2 /\ for.wallet = Wallet /\ for.guaranteed = sc.guaranteed
      /\ SpendKey(Wallet, for.subaddress) \in DOMAIN sc.subaddresses
  BY Zenon DEF Awaited
<1>2. /\ spend = SpendKey(Wallet, for.subaddress)
      /\ Carries(tx.extra, o, R) /\ R # Undecodable /\ Mul(View(Wallet), R) = SentSecret(tx, o)
      /\ output.key = OneTimeKey(d.shared_key, spend)
      /\ output.view_tag \in {None, Some(d.view_tag)}
  BY <1>1, SentIs, Zenon
<1>3. output.key.kind = "point" /\ output.key.shared = d.shared_key /\ output.key.spend = spend
  <2>. HIDE DEF output, spend, d
  <2>. QED
    BY <1>2 DEF OneTimeKey
<1>4. o \in Nat \ {0}
  <2>1. Len(tx.outputs) \in Nat
    BY TransactionIs
  <2>. QED
    BY <2>1
<1>5. Len(keys) \in Nat /\ \E k \in 1 .. Len(keys) : keys[k] = R
  <2>. HIDE DEF R
  <2>1. tx.extra \in Seq(Range(tx.extra)) /\ HasKeys(tx.extra)
    BY ExtraIs, Zenon DEF HasKeys
  <2>2. R # Undecodable /\ Carries(tx.extra, o, R)
    BY <1>2, Zenon
  <2>3. IsTried(tx.extra, o, R)
    BY <1>4, <2>1, <2>2, KeyIsTried
  <2>. QED
    BY <2>3, Zenon DEF IsTried
<1>6. Derivations(sc, tx, o, R) = d
  BY <1>1, <1>2, Zenon DEF Derivations, SentDerivations
<1>7. IsOurs(sc, tx, o, R)
  <2>1. SpendOf(output.key, d.shared_key) = Some(spend)
    BY <1>3, Zenon DEF SpendOf
  <2>2. Some(spend) # None /\ Some(spend)[1] = spend
    BY DEF Some, None
  <2>. HIDE DEF R, d, spend
  <2>. QED
    BY <1>1, <1>2, <1>6, <2>1, <2>2, Zenon DEF IsOurs
<1>8. ASSUME NEW key, IsOurs(sc, tx, o, key), ~LacksAmount(tx, o) PROVE CommitmentMatches(sc, tx, o, key)
  <2>1. Derivations(sc, tx, o, key).shared_key = d.shared_key
    <3>1. SpendOf(output.key, Derivations(sc, tx, o, key).shared_key) # None
      BY <1>8, Zenon DEF IsOurs
    <3>2. output.key.shared = Derivations(sc, tx, o, key).shared_key
      BY <3>1, Zenon DEF SpendOf
    <3>. QED
      BY <1>3, <3>2, Zenon
  <2>2. CASE output.amount # None
    BY <2>2, Zenon DEF CommitmentMatches
  <2>3. CASE output.amount = None
    <3>. DEFINE enc == tx.proofs[1].encrypted_amounts[o]
    <3>1. /\ o <= Len(tx.proofs[1].commitments)
          /\ tx.proofs[1].commitments[o] = decrypt(d, enc)
      BY <1>1, <1>8, <2>3, SentAmount, Zenon
    <3>2. CommitmentOf(sc, tx, o, key) = decrypt(Derivations(sc, tx, o, key), enc)
      BY <2>3, Zenon DEF CommitmentOf
    <3>. HIDE DEF d, enc
    <3>3. decrypt(Derivations(sc, tx, o, key), enc) = decrypt(d, enc)
      BY <2>1, Zenon DEF decrypt, commitment_mask
    <3>. QED
      BY <3>1, <3>2, <3>3, Zenon DEF CommitmentMatches
  <2>. QED
    BY <2>2, <2>3, Zenon
<1>9. ASSUME NEW key
      PROVE  Attempt(sc, tx, o, key) = IF ~IsOurs(sc, tx, o, key) THEN "continue"
                                       ELSE IF LacksAmount(tx, o) THEN "error" ELSE "found"
  BY <1>8, Zenon DEF Attempt
<1>10. \E k \in 1 .. Len(keys) : IsOurs(sc, tx, o, keys[k])
  <2>. HIDE DEF R
  <2>. QED
    BY <1>5, <1>7, Zenon
<1>. QED
  BY <1>3, <1>5, <1>9, <1>10, Zenon

\* Scanning an output sent to the wallet finds it, unless it is an error.
LEMMA SentFound ==
  ASSUME NEW sc, sc.wallet = Wallet, ScannerOK(sc), NEW tx \in AllTransactions, NEW first,
         NEW o \in 1 .. Len(tx.outputs), Awaited(sc, tx, o), ScanOutput(sc, tx, first, o).ok
  PROVE  ScanOutput(sc, tx, first, o).outputs = <<Output(tx, first, o)>> /\ ~LacksAmount(tx, o)
<1>. DEFINE keys == KeysFor(ReadExtra(tx.extra), o)
            ends == {k \in 1 .. Len(keys) : Attempt(sc, tx, o, keys[k]) # "continue"}
            k == CHOOSE k \in ends : \A l \in ends : k <= l
            lacks == LacksAmount(tx, o)
<1>1. /\ tx.outputs[o].key.kind = "point" /\ Len(keys) \in Nat
      /\ \E l \in 1 .. Len(keys) : IsOurs(sc, tx, o, keys[l])
      /\ \A key : Attempt(sc, tx, o, key) = IF ~IsOurs(sc, tx, o, key) THEN "continue"
                                            ELSE IF lacks THEN "error" ELSE "found"
  BY SentAttempts, Zenon
<1>2. ends # {}
  <2>1. PICK l \in 1 .. Len(keys) : IsOurs(sc, tx, o, keys[l])
    BY <1>1, Zenon
  <2>2. Attempt(sc, tx, o, keys[l]) \in {"error", "found"}
    BY <1>1, <2>1, Zenon
  <2>3. Attempt(sc, tx, o, keys[l]) # "continue"
    BY <2>2
  <2>. QED
    BY <2>3, Zenon
<1>3. k \in ends
  <2>1. ends \in SUBSET Nat
    OBVIOUS
  <2>. HIDE DEF ends
  <2>2. \E l \in ends : \A m \in ends : l <= m
    BY <1>2, <2>1, LeastNatural
  <2>. QED
    BY <2>2
<1>4. ScanOutput(sc, tx, first, o) =
        IF Attempt(sc, tx, o, keys[k]) = "error" \/ first + (o - 1) > U64Max THEN Err
        ELSE Ok(<<WalletOutput(sc, tx, first, o, keys[k])>>)
  BY <1>1, <1>2, Zenon DEF ScanOutput
<1>. HIDE DEF k
<1>5. Attempt(sc, tx, o, keys[k]) # "error" /\ ScanOutput(sc, tx, first, o) = Ok(<<WalletOutput(sc, tx, first, o, keys[k])>>)
  <2>1. ScanOutput(sc, tx, first, o) # Err
    <3>1. Err.ok = FALSE
      BY DEF Err
    <3>. QED
      BY <3>1, Zenon
  <2>. QED
    BY <1>4, <2>1, Zenon
<1>6. Attempt(sc, tx, o, keys[k]) # "continue"
  BY <1>3
<1>. HIDE DEF ends
<1>7. ~lacks
  BY <1>1, <1>5, <1>6, Zenon
<1>8. Attempt(sc, tx, o, keys[k]) \notin {"continue", "error"} /\ tx.version = 2
  BY <1>5, <1>6 DEF Awaited
<1>. HIDE DEF keys
<1>9. WalletOutput(sc, tx, first, o, keys[k]) = Output(tx, first, o)
  BY <1>1, <1>8, FoundByAnyKey, ZenonT(60)
<1>. QED
  BY <1>5, <1>7, <1>9 DEF Ok

\* Scanning an output which has its amount, and an index within a u64, is no error.
LEMMA OutputScans ==
  ASSUME NEW sc, NEW tx, NEW first, NEW o, ~LacksAmount(tx, o), ~(first + (o - 1) > U64Max)
  PROVE  ScanOutput(sc, tx, first, o).ok
<1>1. \A key : Attempt(sc, tx, o, key) # "error"
  <2>1. ASSUME NEW key PROVE Attempt(sc, tx, o, key) \in {"continue", "found"}
    BY Zenon DEF Attempt
  <2>. QED
    BY <2>1
<1>2. \E outs : ScanOutput(sc, tx, first, o) = Ok(outs)
  BY <1>1, Zenon DEF ScanOutput
<1>3. \A outs : Ok(outs).ok
  BY DEF Ok
<1>. QED
  BY <1>2, <1>3, Zenon

\* Scanning a transaction finds all its outputs which are awaited, unless it is an error. It is none
\* for a transaction consensus allows, whose outputs have indexes within a u64.
LEMMA TransactionScanned ==
  ASSUME NEW sc, sc.wallet = Wallet, ScannerOK(sc), NEW tx \in AllTransactions, NEW first \in Nat
  PROVE  /\ scan_transaction(sc, first, tx).ok => \A o \in 1 .. Len(tx.outputs) : Awaited(sc, tx, o) =>
              /\ ~LacksAmount(tx, o)
              /\ Among(scan_transaction(sc, first, tx).outputs, Output(tx, first, o))
         /\ tx.valid /\ first + Len(RingCT(tx)) <= U64Max => scan_transaction(sc, first, tx).ok
<1>. DEFINE T == OutputsOf(sc.guaranteed, tx, first)
            all == scan_transaction(sc, first, tx)
<1>1. CASE tx.version # 2
  <2>1. all = Ok(<<>>)
    BY <1>1 DEF scan_transaction
  <2>2. all.ok
    BY <2>1 DEF Ok
  <2>. QED
    BY <1>1, <2>2, Zenon DEF Awaited
<1>2. CASE tx.version = 2
  <2>1. PICK n \in Nat : n = Len(tx.outputs)
    BY TransactionIs
  <2>2. PICK results : results = [o \in 1 .. n |-> ScanOutput(sc, tx, first, o)]
    OBVIOUS
  <2>3. ASSUME NEW o \in 1 .. n PROVE results[o] = ScanOutput(sc, tx, first, o) /\ results[o].outputs \in Seq(T)
    <3>1. results[o] = ScanOutput(sc, tx, first, o)
      BY <2>2
    <3>. QED
      BY <1>2, <2>1, <3>1, OutputFound, Zenon
  <2>4. all = AllOf(n, results)
    BY <1>2, <2>1, <2>2 DEF scan_transaction
  <2>. HIDE DEF T, all
  <2>5. IsAll(n, results, all)
    BY <2>3, <2>4, AllOfHas, ZenonT(60)
  <2>6. ASSUME all.ok, NEW o \in 1 .. n, Awaited(sc, tx, o)
        PROVE  ~LacksAmount(tx, o) /\ Among(all.outputs, Output(tx, first, o))
    <3>1. /\ results[o].ok /\ results[o] = ScanOutput(sc, tx, first, o)
          /\ \A k \in 1 .. Len(results[o].outputs) : Among(all.outputs, results[o].outputs[k])
      BY <2>3, <2>5, <2>6, Zenon DEF IsAll
    <3>2. results[o].outputs = <<Output(tx, first, o)>> /\ ~LacksAmount(tx, o)
      BY <2>1, <2>6, <3>1, SentFound, ZenonT(60)
    <3>3. 1 \in 1 .. Len(results[o].outputs) /\ results[o].outputs[1] = Output(tx, first, o)
      BY <3>2
    <3>. QED
      BY <3>1, <3>2, <3>3, Zenon
  <2>7. ASSUME tx.valid, first + Len(RingCT(tx)) <= U64Max PROVE all.ok
    <3>1. Len(RingCT(tx)) = n
      BY <1>2, <2>1, RingIs
    <3>2. ASSUME NEW o \in 1 .. n PROVE results[o].ok
      <4>1. ~LacksAmount(tx, o)
        BY <1>2, <2>1, <2>7, ExtraIs, Zenon
      <4>2. ~(first + (o - 1) > U64Max)
        BY <2>7, <3>1, U64MaxAssumption
      <4>3. ScanOutput(sc, tx, first, o).ok
        BY <4>1, <4>2, OutputScans, Zenon
      <4>. QED
        BY <2>3, <4>3, Zenon
    <3>. QED
      BY <2>5, <3>2, Zenon DEF IsAll
  <2>. QED
    BY <2>1, <2>6, <2>7, Zenon DEF all
<1>. QED
  BY <1>1, <1>2, Zenon

\* There are not more before than in all.
LEMMA BeforeBounded ==
  ASSUME NEW T, NEW ss \in Seq(Seq(T)), NEW k \in 0 .. Len(ss)
  PROVE  Before(ss, k) \in Nat /\ Len(FlattenSeq(ss)) \in Nat /\ Before(ss, k) <= Len(FlattenSeq(ss))
<1>1. PICK n \in Nat : n = Len(ss)
  OBVIOUS
<1>2. /\ \A j \in 0 .. n : Before(ss, j) \in Nat
      /\ \A j \in 1 .. n : Before(ss, j) = Before(ss, j - 1) + Len(ss[j])
  BY <1>1, BeforeGrows
<1>3. PICK f : f = [j \in 0 .. n |-> Before(ss, j)]
  OBVIOUS
<1>4. ASSUME NEW j \in 0 .. n PROVE f[j] = Before(ss, j) /\ f[j] \in Nat
  BY <1>2, <1>3
<1>5. ASSUME NEW j \in 1 .. n PROVE f[j - 1] <= f[j]
  <2>1. j - 1 \in 0 .. n /\ j \in 0 .. n
    OBVIOUS
  <2>2. f[j] = f[j - 1] + Len(ss[j]) /\ f[j - 1] \in Nat
    BY <1>2, <1>4, <2>1, Zenon
  <2>3. Len(ss[j]) \in Nat
    BY <1>1
  <2>. QED
    BY <2>2, <2>3
<1>6. \A j \in 0 .. n : f[j] \in Int
  BY <1>4
<1>7. f[k] <= f[n]
  <2>1. \A i, j \in 0 .. n : i <= j => f[i] <= f[j]
    BY <1>5, <1>6, NeverFalls
  <2>2. k \in 0 .. n /\ n \in 0 .. n /\ k <= n
    BY <1>1
  <2>. QED
    BY <2>1, <2>2
<1>8. Before(ss, n) = Len(FlattenSeq(ss))
  <2>1. SubSeq(ss, 1, n) = ss
    BY <1>1, SubSeqFull, Zenon
  <2>. QED
    BY <2>1, Zenon DEF Before
<1>9. k \in 0 .. n /\ n \in 0 .. n
  BY <1>1
<1>. QED
  BY <1>4, <1>7, <1>8, <1>9, Zenon

\* Scanning a block finds all its outputs which are awaited, unless it is an error. It is none for a
\* version supported, and transactions consensus allows, with indexes within a u64.
LEMMA BlockScanned ==
  ASSUME NEW sc, sc.wallet = Wallet, ScannerOK(sc), NEW block, BlockOK(block),
         NEW first \in Nat, block.index = Some(first)
  PROVE  /\ scan(sc, block).ok =>
              \A i \in 1 .. Len(BlockTransactions(block)) : \A o \in 1 .. Len(BlockTransactions(block)[i].outputs) :
                Awaited(sc, BlockTransactions(block)[i], o) =>
                  /\ ~LacksAmount(BlockTransactions(block)[i], o)
                  /\ Among(scan(sc, block).outputs,
                           KeepPaymentId(block.hardfork,
                                         Output(BlockTransactions(block)[i], FirstOf(block, first, i), o)))
         /\ (/\ ~(block.hardfork > 16)
             /\ \A i \in 1 .. Len(BlockTransactions(block)) : BlockTransactions(block)[i].valid
             /\ first + Len(BlockRingCT(block)) <= U64Max) => scan(sc, block).ok
<1>. DEFINE T == BlockOutputs(sc, block, first)
<1>1. PICK txs \in Seq(AllTransactions) : txs = BlockTransactions(block)
  BY BlockTransactionsAre
<1>2. PICK n \in Nat : n = Len(txs)
  OBVIOUS
<1>3. PICK results : /\ \A i \in 1 .. n : results[i] = Scans(sc, block, first, i) /\ results[i].outputs \in Seq(T)
                     /\ AllOf(n, results).outputs \in Seq(T)
                     /\ IsScan(sc, block, first, AllOf(n, results))
  BY <1>1, <1>2, ScanIs, Zenon
<1>. DEFINE all == AllOf(n, results)
<1>. HIDE DEF T
<1>4. IsAll(n, results, all)
  BY <1>3, AllOfHas, Zenon
<1>5. PICK outs \in Seq(T) : outs = all.outputs
  BY <1>3, Zenon
<1>. HIDE DEF all
<1>6. PICK ss \in Seq(Seq(RingOutputs)) : ss = Rings(txs) /\ Len(ss) = n /\ \A i \in 1 .. n : ss[i] = RingCT(txs[i])
  BY <1>2, RingsAre
<1>7. ASSUME NEW i \in 1 .. n
      PROVE  /\ FirstOf(block, first, i) \in Nat
             /\ FirstOf(block, first, i) + Len(RingCT(txs[i])) = first + Before(ss, i)
             /\ first + Before(ss, i) <= first + Len(FlattenSeq(ss))
             /\ first + Before(ss, i) \in Nat
  <2>1. i - 1 \in 0 .. Len(ss) /\ i \in 0 .. Len(ss) /\ i \in 1 .. Len(ss)
    BY <1>6
  <2>2. FirstOf(block, first, i) = first + Before(ss, i - 1)
    BY <1>1, <1>6, Zenon DEF FirstOf
  <2>3. Before(ss, i - 1) \in Nat /\ Before(ss, i) = Before(ss, i - 1) + Len(ss[i])
    BY <2>1, BeforeGrows, Zenon
  <2>4. Before(ss, i) \in Nat /\ Len(FlattenSeq(ss)) \in Nat /\ Before(ss, i) <= Len(FlattenSeq(ss))
    BY <2>1, BeforeBounded, Zenon
  <2>5. ss[i] = RingCT(txs[i]) /\ Len(ss[i]) \in Nat
    BY <1>6, <2>1
  <2>. QED
    BY <2>2, <2>3, <2>4, <2>5, SMTT(30)
<1>8. ASSUME NEW i \in 1 .. n PROVE txs[i] \in AllTransactions
  BY <1>2
<1>9. ASSUME scan(sc, block).ok, NEW i \in 1 .. n, NEW o \in 1 .. Len(txs[i].outputs), Awaited(sc, txs[i], o)
      PROVE  /\ ~LacksAmount(txs[i], o)
             /\ Among(scan(sc, block).outputs,
                      KeepPaymentId(block.hardfork, Output(txs[i], FirstOf(block, first, i), o)))
  <2>0. Err.ok = FALSE
    BY DEF Err
  <2>1. ~(block.hardfork > 16)
    BY <1>3, <1>9, <2>0, Zenon DEF IsScan
  <2>2. all.ok /\ scan(sc, block).outputs = [k \in 1 .. Len(outs) |-> KeepPaymentId(block.hardfork, outs[k])]
    BY <1>3, <1>5, <1>9, <2>1, Zenon DEF IsScan, all
  <2>3. results[i].ok /\ \A k \in 1 .. Len(results[i].outputs) : Among(outs, results[i].outputs[k])
    BY <1>4, <1>5, <2>2, Zenon DEF IsAll
  <2>4. results[i] = scan_transaction(sc, FirstOf(block, first, i), txs[i])
    BY <1>1, <1>3, <2>0, <2>3, Zenon DEF Scans
  <2>5. ~LacksAmount(txs[i], o) /\ Among(results[i].outputs, Output(txs[i], FirstOf(block, first, i), o))
    BY <1>7, <1>8, <1>9, <2>3, <2>4, TransactionScanned, ZenonT(60)
  <2>6. Among(outs, Output(txs[i], FirstOf(block, first, i), o))
    BY <2>3, <2>5, Zenon DEF Among
  <2>7. PICK p \in 1 .. Len(outs) : outs[p] = Output(txs[i], FirstOf(block, first, i), o)
    BY <2>6, Zenon DEF Among
  <2>8. p \in 1 .. Len(scan(sc, block).outputs)
        /\ scan(sc, block).outputs[p] = KeepPaymentId(block.hardfork, outs[p])
    <3>1. PICK m \in Nat : m = Len(outs)
      BY <1>5
    <3>2. scan(sc, block).outputs = [k \in 1 .. m |-> KeepPaymentId(block.hardfork, outs[k])]
      BY <2>2, <3>1, Zenon
    <3>3. p \in 1 .. m
      BY <2>7, <3>1, Zenon
    <3>. QED
      BY <3>2, <3>3
  <2>. QED
    BY <2>5, <2>7, <2>8, Zenon DEF Among
<1>10. ASSUME ~(block.hardfork > 16), \A i \in 1 .. n : txs[i].valid, first + Len(BlockRingCT(block)) <= U64Max
       PROVE  scan(sc, block).ok
  <2>1. BlockRingCT(block) = FlattenSeq(ss)
    BY <1>1, <1>6, BlockRingIs, Zenon
  <2>2. ASSUME NEW i \in 1 .. n PROVE results[i].ok
    <3>1. PICK a \in Nat : a = first + Before(ss, i)
      BY <1>7, Zenon
    <3>2. a <= first + Len(FlattenSeq(ss)) /\ first + Len(FlattenSeq(ss)) <= U64Max
      BY <1>7, <1>10, <2>1, <3>1, Zenon
    <3>3. Len(FlattenSeq(ss)) \in Nat
      <4>1. 0 \in 0 .. Len(ss)
        BY <1>6
      <4>. QED
        BY <4>1, BeforeBounded, Zenon
    <3>4. ~(a > U64Max) /\ a <= U64Max
      BY <3>2, <3>3, U64MaxAssumption
    <3>5. results[i] = scan_transaction(sc, FirstOf(block, first, i), txs[i])
      BY <1>1, <1>3, <1>6, <3>1, <3>4, Zenon DEF Scans
    <3>6. FirstOf(block, first, i) + Len(RingCT(txs[i])) <= U64Max
      BY <1>7, <3>1, <3>4, Zenon
    <3>. QED
      BY <1>7, <1>8, <1>10, <3>5, <3>6, TransactionScanned, ZenonT(60)
  <2>3. all.ok
    BY <1>4, <2>2, Zenon DEF IsAll
  <2>. QED
    BY <1>3, <1>10, <2>3, Zenon DEF IsScan, all
<1>. QED
  BY <1>1, <1>2, <1>9, <1>10, Zenon

---------------------------------------------------------------------------------
(* What is found of an output is what its sender meant. *)

\* The payment ID is the one the sender gave.
LEMMA SentId ==
  ASSUME NEW tx \in AllTransactions, tx.version = 2, NEW o \in 1 .. Len(tx.outputs), tx.intended[o].wallet = Wallet
  PROVE  IdFor(tx, tx.outputs[o].key) = tx.intended[o].payment_id
<1>. DEFINE s == tx.extra
            e == ReadExtra(tx.extra)
            id == tx.intended[o].payment_id
            ecdh == SentSecret(tx, o)
            nonces == OfTag(e, "Nonce")
<1>1. CarriesId(s, id, ecdh) /\ tx.outputs[o].key = OneTimeKey(SentDerivations(tx, o).shared_key, SentKeys(tx, o).spend)
  BY SentIs, Zenon
<1>2. tx.outputs[o].key.shared.ecdh = ecdh
  <2>. HIDE DEF ecdh
  <2>1. SentDerivations(tx, o).shared_key.ecdh = ecdh
    BY DEF SentDerivations, output_derivations, ecdh
  <2>2. tx.outputs[o].key.shared = SentDerivations(tx, o).shared_key
    BY <1>1 DEF OneTimeKey
  <2>. QED
    BY <2>1, <2>2
<1>3. PICK T : s \in Seq(T)
  BY ExtraIs, Zenon
<1>4. IdFor(tx, tx.outputs[o].key) =
        IF payment_id(e) = None THEN None ELSE Some(XorPaymentId(payment_id(e)[1], payment_id_xor(ecdh)))
  BY <1>2, Zenon DEF IdFor
<1>. HIDE DEF id, ecdh
<1>5. CASE id = None
  <2>1. CASE nonces = <<>>
    <3>1. payment_id(e) = None
      BY <2>1, Zenon DEF payment_id
    <3>. QED
      BY <1>4, <1>5, <3>1, Zenon DEF id
  <2>2. CASE nonces # <<>>
    <3>1. PICK i \in 1 .. Len(s) : IsFirst(s, i, "Nonce")
      BY <1>3, <2>2, OfTagNone, Zenon
    <3>2. nonces[1] = s[i]
      BY <1>3, <3>1, OfTagFirst
    <3>3. s[i].nonce.kind \notin {"encrypted", "unencrypted"}
      BY <1>1, <1>5, <3>1, Zenon DEF CarriesId
    <3>4. s[i].nonce.kind # "encrypted" /\ s[i].nonce.kind # "unencrypted"
      BY <3>3
    <3>5. payment_id(e) = None
      BY <2>2, <3>2, <3>4, Zenon DEF payment_id
    <3>. QED
      BY <1>4, <1>5, <3>5, Zenon DEF id
  <2>. QED
    BY <2>1, <2>2
<1>6. CASE id # None
  <2>1. PICK i \in 1 .. Len(s) :
          /\ IsFirst(s, i, "Nonce")
          /\ \/ /\ id = Some([kind |-> "encrypted", id |-> id[1].id])
                /\ s[i].nonce = EncryptedId(Xor(id[1].id, payment_id_xor(ecdh)))
             \/ /\ id = Some([kind |-> "unencrypted", id |-> id[1].id])
                /\ s[i].nonce = UnencryptedId(id[1].id)
    BY <1>1, <1>6, Zenon DEF CarriesId
  <2>2. nonces # <<>> /\ nonces[1] = s[i]
    BY <1>3, <2>1, OfTagFirst
  <2>3. PICK x : x = id[1].id
    OBVIOUS
  <2>. DEFINE m == payment_id_xor(ecdh)
  <2>4. CASE id = Some([kind |-> "encrypted", id |-> x]) /\ s[i].nonce = EncryptedId(Xor(x, m))
    <3>. HIDE DEF m
    <3>1. nonces[1].nonce.kind = "encrypted" /\ nonces[1].nonce.len = 9 /\ nonces[1].nonce.value = Xor(x, m)
      <4>1. s[i].nonce = [kind |-> "encrypted", value |-> Xor(x, m), len |-> 9]
        BY <2>4, Zenon DEF EncryptedId
      <4>2. s[i].nonce.kind = "encrypted" /\ s[i].nonce.len = 9 /\ s[i].nonce.value = Xor(x, m)
        BY <4>1
      <4>. QED
        BY <2>2, <4>2, Zenon
    <3>2. payment_id(e) = Some([kind |-> "encrypted", id |-> Xor(x, m)])
      BY <2>2, <3>1, Zenon DEF payment_id
    <3>3. payment_id(e) # None /\ payment_id(e)[1] = [kind |-> "encrypted", id |-> Xor(x, m)]
      <4>. HIDE DEF e
      <4>. QED
        BY <3>2 DEF Some, None
    <3>4. Xor(Xor(x, m), m) = x
      BY DEF Xor
    <3>5. XorPaymentId([kind |-> "encrypted", id |-> Xor(x, m)], m) = [kind |-> "encrypted", id |-> Xor(Xor(x, m), m)]
      <4>1. \A y : XorPaymentId([kind |-> "encrypted", id |-> y], m) = [kind |-> "encrypted", id |-> Xor(y, m)]
        BY DEF XorPaymentId
      <4>. QED
        BY <4>1, Zenon
    <3>. QED
      BY <1>4, <2>4, <3>3, <3>4, <3>5, Zenon DEF m, id
  <2>5. CASE id = Some([kind |-> "unencrypted", id |-> x]) /\ s[i].nonce = UnencryptedId(x)
    <3>. HIDE DEF m
    <3>1. nonces[1].nonce.kind = "unencrypted" /\ nonces[1].nonce.len = 33 /\ nonces[1].nonce.value = x
      <4>1. s[i].nonce = [kind |-> "unencrypted", value |-> x, len |-> 33]
        BY <2>5, Zenon DEF UnencryptedId
      <4>2. s[i].nonce.kind = "unencrypted" /\ s[i].nonce.len = 33 /\ s[i].nonce.value = x
        BY <4>1
      <4>. QED
        BY <2>2, <4>2, Zenon
    <3>2. payment_id(e) = Some([kind |-> "unencrypted", id |-> x])
      BY <2>2, <3>1, Zenon DEF payment_id
    <3>3. payment_id(e) # None /\ payment_id(e)[1] = [kind |-> "unencrypted", id |-> x]
      <4>. HIDE DEF e
      <4>. QED
        BY <3>2 DEF Some, None
    <3>4. XorPaymentId([kind |-> "unencrypted", id |-> x], m) = [kind |-> "unencrypted", id |-> x]
      BY DEF XorPaymentId
    <3>. QED
      BY <1>4, <2>5, <3>3, <3>4, Zenon DEF m, id
  <2>. QED
    BY <2>1, <2>3, <2>4, <2>5, Zenon
<1>. QED
  BY <1>5, <1>6, Zenon

\* So is all else the recipient learns.
LEMMA SentLearnt ==
  ASSUME NEW tx \in AllTransactions, tx.version = 2, NEW o \in 1 .. Len(tx.outputs), tx.intended[o].wallet = Wallet,
         ~LacksAmount(tx, o), NEW first, NEW hardfork
  PROVE  LET w == KeepPaymentId(hardfork, Output(tx, first, o))
         IN  /\ w.transaction = tx.hash /\ w.index_in_transaction = o - 1
             /\ Learnt(w) = Learns(tx, o, hardfork)
<1>. DEFINE for == tx.intended[o]
            id == IdFor(tx, tx.outputs[o].key)
            v == Output(tx, first, o)
            w == KeepPaymentId(hardfork, v)
            kept == IF hardfork >= 12 /\ id # None /\ id[1].kind = "unencrypted" THEN None ELSE id
<1>1. id = for.payment_id
  BY SentId, Zenon
<1>2. v = OutputWith(tx, first, o, id)
  BY Zenon DEF Output
<1>3. w = OutputWith(tx, first, o, kept)
  <2>. HIDE DEF id
  <2>1. \A x : /\ OutputWith(tx, first, o, x).payment_id = x
               /\ [OutputWith(tx, first, o, x) EXCEPT !.payment_id = None] = OutputWith(tx, first, o, None)
    BY DEF OutputWith
  <2>. HIDE DEF v
  <2>. QED
    BY <1>2, <2>1, Zenon DEF KeepPaymentId
<1>4. SubaddressIndex(tx.outputs[o].key.spend[2]) = for.subaddress
  <2>1. PICK n \in Nat : SentKeys(tx, o).spend = <<Wallet, n>> /\ for.subaddress = SubaddressIndex(n)
    BY SentIs, Zenon
  <2>2. tx.outputs[o].key = OneTimeKey(SentDerivations(tx, o).shared_key, SentKeys(tx, o).spend)
    BY SentIs, Zenon
  <2>3. tx.outputs[o].key.spend = <<Wallet, n>>
    BY <2>1, <2>2 DEF OneTimeKey
  <2>4. tx.outputs[o].key.spend[2] = n
    BY <2>3
  <2>. QED
    BY <2>1, <2>4, Zenon
<1>5. Opened(tx, o).amount = for.amount
  <2>1. /\ tx.outputs[o].amount \in {None, Some(for.amount)}
        /\ tx.outputs[o].amount = None => tx.proofs[1].commitments[o].amount = for.amount
    BY SentAmount, Zenon
  <2>2. CASE tx.outputs[o].amount = None
    BY <2>1, <2>2, Zenon DEF Opened
  <2>3. CASE tx.outputs[o].amount # None
    <3>1. tx.outputs[o].amount = Some(for.amount)
      BY <2>1, <2>3, Zenon
    <3>2. tx.outputs[o].amount[1] = for.amount
      BY <3>1 DEF Some
    <3>3. \A x : [ZeroCommitment EXCEPT !.amount = x].amount = x
      BY DEF ZeroCommitment
    <3>. QED
      BY <2>3, <3>2, <3>3, Zenon DEF Opened
  <2>. QED
    BY <2>2, <2>3, Zenon
<1>6. Raw(tx.timelock) = tx.unlock_time
  <2>1. tx.unlock_time \in Nat /\ tx.timelock = ReadTimelock(tx.unlock_time)
    BY TransactionIs
  <2>. QED
    BY <2>1, BoundsAssumption DEF Raw, ReadTimelock
<1>7. tx.data = arbitrary_data(ReadExtra(tx.extra))
  BY ExtraIs, Zenon
<1>. HIDE DEF id, v, w, kept
<1>8. /\ w.transaction = tx.hash /\ w.index_in_transaction = o - 1 /\ w.subaddress = for.subaddress
      /\ w.commitment = Opened(tx, o) /\ w.additional_timelock = tx.timelock /\ w.payment_id = kept
      /\ w.arbitrary_data = tx.data
  <2>. DEFINE r == OutputWith(tx, first, o, kept)
  <2>1. /\ r.transaction = tx.hash /\ r.index_in_transaction = o - 1
        /\ r.subaddress = SubaddressIndex(tx.outputs[o].key.spend[2])
        /\ r.commitment = Opened(tx, o) /\ r.additional_timelock = tx.timelock /\ r.payment_id = kept
        /\ r.arbitrary_data = arbitrary_data(ReadExtra(tx.extra))
    BY DEF OutputWith
  <2>. QED
    BY <1>3, <1>4, <1>7, <2>1, Zenon
<1>9. Learnt(w) = [subaddress |-> for.subaddress, amount |-> for.amount, lock |-> tx.unlock_time,
                   payment_id |-> kept, data |-> tx.data]
  BY <1>5, <1>6, <1>8, Zenon DEF Learnt
<1>10. Learns(tx, o, hardfork) = [subaddress |-> for.subaddress, amount |-> for.amount, lock |-> tx.unlock_time,
                                  payment_id |-> kept, data |-> tx.data]
  BY <1>1, Zenon DEF Learns, kept
<1>. QED
  BY <1>8, <1>9, <1>10, Zenon DEF v, w

---------------------------------------------------------------------------------
(* What is found is not lost by a restart. *)

\* A field is as long as what it holds.
FieldOK(field) ==
  /\ field.len \in Nat
  /\ field.tag = "Nonce" => field.len = field.nonce.len
  /\ field.nonce.kind = "arbitrary" => field.nonce.len \in Nat \ {0}

LEMMA FieldSizeIs ==
  ASSUME NEW field, field.len \in Nat
  PROVE  FieldSize(field) \in Nat /\ (field.tag = "Nonce" => field.len <= FieldSize(field))
<1>1. ASSUME NEW n PROVE VarIntLen(n) \in Nat
  <2>. DEFINE S == {k \in 1 .. 3 : n >= 128 ^ k}
  <2>1. S \in SUBSET (1 .. 3)
    OBVIOUS
  <2>. HIDE DEF S
  <2>2. IsFiniteSet(1 .. 3)
    <3>1. 1 \in Int /\ 3 \in Int
      OBVIOUS
    <3>. QED
      BY <3>1, FS_Interval, Zenon
  <2>3. Cardinality(S) \in Nat
    BY <2>1, <2>2, FS_Subset, FS_CardinalityType
  <2>4. VarIntLen(n) = 1 + Cardinality(S)
    BY Zenon DEF VarIntLen, S
  <2>. QED
    BY <2>3, <2>4
<1>2. VarIntLen(field.len) \in Nat /\ VarIntLen(Len(field.keys)) \in Nat
  BY <1>1
<1>. QED
  BY <1>2 DEF FieldSize

\* What is written of an extra are its fields.
LEMMA WrittenFields ==
  ASSUME NEW T, NEW e \in Seq(T)
  PROVE  WriteExtra(e) \in Seq(T)
<1>. DEFINE ss == [n \in 1 .. Len(SORT_ORDER) |-> OfTag(e, SORT_ORDER[n])]
<1>1. Len(SORT_ORDER) = 6
  BY DEF SORT_ORDER
<1>2. ASSUME NEW tag PROVE OfTag(e, tag) \in Seq(T)
  <2>1. TagPlaces(e, tag) \in SUBSET (1 .. Len(e)) /\ OfTag(e, tag) = Elements(e, TagPlaces(e, tag))
    BY DEF TagPlaces, OfTag
  <2>. QED
    BY <2>1, ElementsAre
<1>3. ss \in Seq(Seq(T))
  <2>1. ss = [n \in 1 .. 6 |-> OfTag(e, SORT_ORDER[n])]
    BY <1>1, Zenon
  <2>. HIDE DEF ss
  <2>. QED
    BY <1>2, <2>1
<1>4. <<>> \in Seq(T)
  OBVIOUS
<1>. HIDE DEF ss
<1>5. FlattenSeq(ss) \in Seq(T)
  BY <1>3, <1>4, FlattenAppend, Zenon
<1>. QED
  BY <1>5, Zenon DEF WriteExtra, ss

\* How long the fields are.
Sizes(bytes) == [n \in 1 .. Len(bytes) |-> FieldSize(bytes[n])]

\* The places of the arbitrary data among some fields, and the data of such fields.
DataPlaces(fields) == {i \in 1 .. Len(fields) : fields[i].tag = "Nonce" /\ fields[i].nonce.kind = "arbitrary"}
DataIn(taken) == [i \in 1 .. Len(taken) |-> [value |-> taken[i].nonce.value, len |-> taken[i].nonce.len - 1]]

\* The data of an extra are those of some fields whose size is relayed.
LEMMA DataOf ==
  ASSUME NEW T, NEW e \in Seq(T)
  PROVE  \E fields \in Seq(T) :
           /\ Total(Sizes(fields)) <= MAX_EXTRA_SIZE_BY_RELAY_RULE
           /\ arbitrary_data(e) = DataIn(Elements(fields, DataPlaces(fields)))
<1>1. PICK bytes \in Seq(T) : bytes = WriteExtra(e)
  BY WrittenFields, Zenon
<1>2. PICK n \in Nat : n = Len(bytes)
  OBVIOUS
<1>. DEFINE within == {m \in 0 .. n : ExtraSize(SubSeq(bytes, 1, m)) <= MAX_EXTRA_SIZE_BY_RELAY_RULE}
            b == CHOOSE m \in within : \A l \in within : l <= m
            fields == SubSeq(bytes, 1, b)
<1>3. 0 \in within
  <2>1. SubSeq(bytes, 1, 0) = <<>>
    OBVIOUS
  <2>2. ExtraSize(<<>>) = Total(<<>>)
    <3>1. [i \in 1 .. Len(<<>>) |-> FieldSize(<<>>[i])] = <<>>
      OBVIOUS
    <3>. QED
      BY <3>1, Zenon DEF ExtraSize
  <2>3. ExtraSize(SubSeq(bytes, 1, 0)) = 0
    BY <2>1, <2>2, TotalEmpty, Zenon
  <2>. QED
    BY <2>3 DEF MAX_EXTRA_SIZE_BY_RELAY_RULE
<1>4. within \in SUBSET (0 .. n)
  OBVIOUS
<1>5. b \in within
  <2>. HIDE DEF within
  <2>1. \E m \in within : \A l \in within : l <= m
    BY <1>3, <1>4, GreatestNatural
  <2>. QED
    BY <2>1
<1>6. b \in 0 .. n /\ ExtraSize(fields) <= MAX_EXTRA_SIZE_BY_RELAY_RULE
  <2>. HIDE DEF b
  <2>. QED
    BY <1>5, Zenon
<1>7. fields \in Seq(T)
  <2>. HIDE DEF b
  <2>. QED
    BY <1>2, <1>6
<1>8. ExtraSize(fields) = Total(Sizes(fields))
  <2>. HIDE DEF fields
  <2>. QED
    BY Zenon DEF ExtraSize, Sizes
<1>9. arbitrary_data(e) = DataIn(Elements(fields, DataPlaces(fields)))
  BY <1>1, <1>2, ZenonT(60) DEF arbitrary_data, DataPlaces, DataIn
<1>. HIDE DEF fields
<1>. QED
  BY <1>6, <1>7, <1>8, <1>9, Zenon

\* So their number and their length are at most that.
LEMMA DataBounded ==
  ASSUME NEW T, NEW e \in Seq(T), \A field \in T : FieldOK(field), NEW data, data = arbitrary_data(e)
  PROVE  /\ Len(data) <= MAX_EXTRA_SIZE_BY_RELAY_RULE
         /\ Total([i \in 1 .. Len(data) |-> data[i].len]) <= MAX_EXTRA_SIZE_BY_RELAY_RULE
<1>1. PICK fields \in Seq(T) :
        /\ Total(Sizes(fields)) <= MAX_EXTRA_SIZE_BY_RELAY_RULE
        /\ data = DataIn(Elements(fields, DataPlaces(fields)))
  BY DataOf, Zenon
<1>2. PICK Q : Q = DataPlaces(fields)
  OBVIOUS
<1>3. Q \in SUBSET (1 .. Len(fields))
  BY <1>2 DEF DataPlaces
<1>4. ASSUME NEW i \in Q
      PROVE  i \in 1 .. Len(fields) /\ fields[i].tag = "Nonce" /\ fields[i].nonce.kind = "arbitrary"
  BY <1>2 DEF DataPlaces
<1>5. PICK taken, p : taken \in Seq(T) /\ taken = Elements(fields, Q) /\ TakenAt(fields, Q, p)
  BY <1>3, ElementsAre
<1>6. PICK m \in Nat : m = Len(taken)
  BY <1>5
<1>7. data = [i \in 1 .. m |-> [value |-> taken[i].nonce.value, len |-> taken[i].nonce.len - 1]]
  BY <1>1, <1>2, <1>5, <1>6, Zenon DEF DataIn
<1>8. /\ p \in [1 .. m -> Q]
      /\ \A k \in 1 .. m : taken[k] = fields[p[k]]
      /\ \A k, l \in 1 .. m : k < l => p[k] < p[l]
  BY <1>5, <1>6, Zenon DEF TakenAt
<1>9. ASSUME NEW i \in 1 .. Len(fields)
      PROVE  /\ FieldSize(fields[i]) \in Nat
             /\ i \in Q => fields[i].nonce.len \in Nat \ {0} /\ fields[i].nonce.len <= FieldSize(fields[i])
  <2>1. fields[i] \in T
    OBVIOUS
  <2>2. FieldOK(fields[i])
    BY <2>1, Zenon
  <2>3. FieldSize(fields[i]) \in Nat /\ (fields[i].tag = "Nonce" => fields[i].len <= FieldSize(fields[i]))
    BY <2>2, FieldSizeIs, Zenon DEF FieldOK
  <2>. QED
    BY <1>4, <2>2, <2>3, Zenon DEF FieldOK
<1>10. PICK n \in Nat : n = Len(fields)
  OBVIOUS
<1>11. PICK sizes \in Seq(Nat) : sizes = Sizes(fields) /\ Len(sizes) = n /\ \A i \in 1 .. n : sizes[i] = FieldSize(fields[i])
  <2>1. Sizes(fields) = [i \in 1 .. n |-> FieldSize(fields[i])]
    BY <1>10, Zenon DEF Sizes
  <2>2. \A i \in 1 .. n : FieldSize(fields[i]) \in Nat
    BY <1>9, <1>10, Zenon
  <2>3. PICK z : z = Sizes(fields)
    OBVIOUS
  <2>4. z \in Seq(Nat) /\ Len(z) = n /\ \A i \in 1 .. n : z[i] = FieldSize(fields[i])
    BY <2>1, <2>2, <2>3
  <2>. QED
    BY <2>3, <2>4, Zenon
<1>12. ASSUME NEW k \in 1 .. m
       PROVE  /\ p[k] \in 1 .. n
              /\ taken[k].nonce.len - 1 \in Nat
              /\ (taken[k].nonce.len - 1) + 1 <= sizes[p[k]]
  <2>1. p[k] \in Q /\ taken[k] = fields[p[k]]
    BY <1>8, Zenon
  <2>2. p[k] \in 1 .. n
    BY <1>4, <1>10, <2>1, Zenon
  <2>3. /\ sizes[p[k]] \in Nat /\ taken[k].nonce.len \in Nat \ {0}
        /\ taken[k].nonce.len <= sizes[p[k]]
    BY <1>9, <1>10, <1>11, <2>1, <2>2, Zenon
  <2>4. PICK x \in Nat \ {0}, y \in Nat : x = taken[k].nonce.len /\ y = sizes[p[k]] /\ x <= y
    BY <2>3, Zenon
  <2>5. x <= y => x - 1 \in Nat /\ (x - 1) + 1 <= y
    OBVIOUS
  <2>. QED
    BY <2>2, <2>4, <2>5, Zenon
<1>13. PICK l \in Seq(Nat) : Len(l) = m /\ l = [i \in 1 .. m |-> taken[i].nonce.len - 1]
  <2>1. PICK z : z = [i \in 1 .. m |-> taken[i].nonce.len - 1]
    OBVIOUS
  <2>2. z \in Seq(Nat) /\ Len(z) = m
    BY <1>12, <2>1
  <2>. QED
    BY <2>1, <2>2, Zenon
<1>14. LessAt(l, sizes, p)
  <2>1. p \in [1 .. m -> 1 .. n]
    BY <1>8, <1>12
  <2>2. ASSUME NEW i \in 1 .. m PROVE l[i] + 1 <= sizes[p[i]]
    <3>1. l[i] = taken[i].nonce.len - 1
      BY <1>13
    <3>. QED
      BY <1>12, <3>1, Zenon
  <2>. QED
    BY <1>8, <1>11, <1>13, <2>1, <2>2, Zenon DEF LessAt
<1>15. Total(l) \in Nat /\ Total(sizes) \in Nat /\ Total(l) + m <= Total(sizes)
  BY <1>13, <1>14, TakenTotal
<1>16. Len(data) = m /\ [i \in 1 .. Len(data) |-> data[i].len] = l
  <2>1. Len(data) = m
    BY <1>7
  <2>2. \A i \in 1 .. m : data[i].len = taken[i].nonce.len - 1
    BY <1>7
  <2>3. [i \in 1 .. m |-> data[i].len] = [i \in 1 .. m |-> taken[i].nonce.len - 1]
    BY <2>2, Zenon
  <2>. QED
    BY <1>13, <2>1, <2>3, Zenon
<1>17. Total(sizes) <= MAX_EXTRA_SIZE_BY_RELAY_RULE
  BY <1>1, <1>11, Zenon
<1>18. m <= MAX_EXTRA_SIZE_BY_RELAY_RULE /\ Total(l) <= MAX_EXTRA_SIZE_BY_RELAY_RULE
  BY <1>15, <1>17 DEF MAX_EXTRA_SIZE_BY_RELAY_RULE
<1>. QED
  BY <1>16, <1>18, Zenon

\* Every output found is read back.
LEMMA FoundReads ==
  ASSUME NEW hardfork, NEW guaranteed, NEW tx \in AllTransactions, NEW first, NEW o, NEW w,
         Ours(guaranteed, tx, o), w = KeepPaymentId(hardfork, Output(tx, first, o))
  PROVE  Reads(WriteOutput(w))
<1>1. w = OutputWith(tx, first, o, w.payment_id)
  BY Kept, Zenon
<1>2. PICK n \in Nat : n = tx.outputs[o].key.spend[2]
  BY DEF Ours
<1>3. w.subaddress = SubaddressIndex(n) /\ w.arbitrary_data = arbitrary_data(ReadExtra(tx.extra))
  BY <1>1, <1>2 DEF OutputWith
<1>. DEFINE bytes == WriteOutput(w)
            data == bytes.arbitrary_data
<1>4. bytes.subaddress = WriteOption(SubaddressIndex(n), Identity) /\ data = arbitrary_data(ReadExtra(tx.extra))
  BY <1>3 DEF WriteOutput
<1>5. bytes.subaddress[1] = 1 => SubaddressIndex(bytes.subaddress[2]) # None
  <2>1. CASE n = 0
    <3>1. bytes.subaddress = <<0>>
      BY <1>4, <2>1 DEF SubaddressIndex, WriteOption
    <3>. HIDE DEF bytes
    <3>. QED
      BY <3>1
  <2>2. CASE n # 0
    <3>1. SubaddressIndex(n) = Some(n) /\ Some(n) # None /\ Some(n)[1] = n
      BY <2>2 DEF SubaddressIndex, Some, None
    <3>2. bytes.subaddress = <<1, n>>
      BY <1>4, <3>1 DEF WriteOption, Identity
    <3>3. bytes.subaddress[2] = n
      BY <3>2
    <3>. QED
      BY <3>1, <3>3, Zenon
  <2>. QED
    BY <2>1, <2>2
<1>6. PICK T : /\ ReadExtra(tx.extra) \in Seq(T)
               /\ \A field \in T : FieldOK(field)
  <2>. DEFINE T == Range(tx.extra)
  <2>1. /\ tx.extra \in Seq(T)
        /\ \A i \in 1 .. Len(tx.extra) : FieldOK(tx.extra[i])
    BY ExtraIs, Zenon DEF FieldOK
  <2>2. ASSUME NEW field \in T PROVE FieldOK(field)
    <3>1. PICK i \in DOMAIN tx.extra : field = tx.extra[i]
      BY DEF Range
    <3>2. DOMAIN tx.extra = 1 .. Len(tx.extra)
      <4>. HIDE DEF T
      <4>. QED
        BY <2>1
    <3>. QED
      BY <2>1, <3>1, <3>2, Zenon
  <2>. HIDE DEF T
  <2>3. ReadExtra(tx.extra) \in Seq(T)
    BY <2>1, ReadFields, Zenon
  <2>. QED
    BY <2>2, <2>3, Zenon
<1>. HIDE DEF bytes
<1>7. /\ Len(data) <= MAX_EXTRA_SIZE_BY_RELAY_RULE
      /\ Total([i \in 1 .. Len(data) |-> data[i].len]) <= MAX_EXTRA_SIZE_BY_RELAY_RULE
  BY <1>4, <1>6, DataBounded, Zenon
<1>. QED
  BY <1>5, <1>7, Zenon DEF Reads, bytes

---------------------------------------------------------------------------------
(* All of a block's outputs for the wallet are found, and stay found. *)

\* As Expected, of a scanner which is guaranteed or not.
ExpectedBy(guaranteed, tx, o, registered) ==
  /\ tx.version = 2
  /\ tx.intended[o].wallet = Wallet
  /\ tx.intended[o].guaranteed = guaranteed
  /\ SpendKey(Wallet, tx.intended[o].subaddress) \in registered

\* All outputs of a block which are expected are among those found.
AllKept(block, first, guaranteed, registered, outputs) ==
  \A i \in 1 .. Len(BlockTransactions(block)) : \A o \in 1 .. Len(BlockTransactions(block)[i].outputs) :
    ExpectedBy(guaranteed, BlockTransactions(block)[i], o, registered) =>
      /\ ~LacksAmount(BlockTransactions(block)[i], o)
      /\ KeepPaymentId(block.hardfork, Output(BlockTransactions(block)[i], FirstOf(block, first, i), o)) \in outputs

\* The scan of a block has no reason to fail, with the outputs of the chain up to this index.
MustScan(block, last) ==
  /\ block.hardfork <= 16
  /\ \A i \in 1 .. Len(BlockTransactions(block)) : BlockTransactions(block)[i].valid
  /\ last <= U64Max

\* What is true of a block scanned: it is on the chain; all of it is found, if its scan succeeded, as
\* it did if it had to.
IsComplete(s, c, e, guaranteed, outputs) ==
  /\ s.block \in 1 .. Len(c)
  /\ s.ok => AllKept(c[s.block], e + Before(ChainRings(c), s.block - 1), guaranteed, s.registered, outputs)
  /\ s.whole /\ MustScan(c[s.block], e + Len(FlattenSeq(ChainRings(c)))) => s.ok

Complete == \A s \in scanned : IsComplete(s, chain, earlier, scanner.guaranteed, found)

\* What the chain has, as the invariant says.
LEMMA OfChain ==
  ASSUME Inv
  PROVE  /\ chain \in Seq(Blocks) /\ earlier \in Nat
         /\ ChainRings(chain) \in Seq(Seq(RingOutputs)) /\ Len(ChainRings(chain)) = Len(chain)
         /\ \A b \in 1 .. Len(chain) : /\ BlockOK(chain[b]) /\ chain[b].hardfork \in Nat
                                       /\ ChainRings(chain)[b] = BlockRingCT(chain[b])
         /\ ChainRingCT = FlattenSeq(ChainRings(chain))
<1>1. chain \in Seq(Blocks) /\ earlier \in Nat /\ \A b \in 1 .. Len(chain) : BlockOK(chain[b])
  BY DEF Inv, ChainOK
<1>2. ASSUME NEW b \in 1 .. Len(chain) PROVE chain[b].hardfork \in Nat
  <2>1. chain[b] \in Blocks
    BY <1>1
  <2>2. chain[b].hardfork \in UNION {HardForks[h] : h \in 1 .. MaxBlocks}
    BY <2>1 DEF Blocks
  <2>. QED
    BY <2>2, BoundsAssumption
<1>3. ChainRingCT = FlattenSeq(ChainRings(chain))
  BY Zenon DEF ChainRingCT, ChainRings
<1>. QED
  BY <1>1, <1>2, <1>3, ChainRingsAre, Zenon

\* A block without RingCT outputs has none which is expected.
LEMMA NoneExpected ==
  ASSUME NEW block, BlockOK(block), BlockRingCT(block) = <<>>, NEW i \in 1 .. Len(BlockTransactions(block)),
         NEW o \in 1 .. Len(BlockTransactions(block)[i].outputs)
  PROVE  BlockTransactions(block)[i].version # 2
<1>. SUFFICES ASSUME BlockTransactions(block)[i].version = 2 PROVE FALSE
  OBVIOUS
<1>1. PICK txs \in Seq(AllTransactions) : txs = BlockTransactions(block)
  BY BlockTransactionsAre, Zenon
<1>2. PICK tx \in AllTransactions : tx = txs[i]
  BY <1>1
<1>3. PICK ss \in Seq(Seq(RingOutputs)) : ss = Rings(txs) /\ Len(ss) = Len(txs) /\ ss[i] = RingCT(tx)
  BY <1>1, <1>2, RingsAre, Zenon
<1>4. FlattenSeq(ss) = <<>>
  BY <1>1, <1>3, BlockRingIs, Zenon
<1>5. i \in 1 .. Len(ss) /\ i \in 0 .. Len(ss) /\ i - 1 \in 0 .. Len(ss)
  <2>1. i \in 1 .. Len(ss) /\ Len(ss) \in Nat
    BY <1>1, <1>3
  <2>. QED
    BY <2>1
<1>6. Before(ss, i) <= Len(FlattenSeq(ss)) /\ Before(ss, i) = Before(ss, i - 1) + Len(ss[i]) /\ Before(ss, i - 1) \in Nat
  BY <1>5, BeforeBounded, BeforeGrows, Zenon
<1>7. Len(ss[i]) = Len(tx.outputs) /\ Len(tx.outputs) \in Nat
  BY <1>1, <1>2, <1>3, RingIs, TransactionIs
<1>8. o \in 1 .. Len(tx.outputs)
  BY <1>1, <1>2, Zenon
<1>9. Len(FlattenSeq(ss)) = 0
  BY <1>4
<1>10. PICK x \in Nat, y \in Nat : x = Before(ss, i - 1) /\ y = Len(ss[i]) /\ x + y <= 0
  BY <1>6, <1>7, <1>9, Zenon
<1>11. o \in 1 .. y
  BY <1>7, <1>8, <1>10, Zenon
<1>. QED
  BY <1>10, <1>11

\* Scanning a block of the chain leaves it complete.
LEMMA ScanCompletes ==
  ASSUME Inv, NEW b \in 1 .. Len(chain), NEW outputs,
         \A p \in 1 .. Len(scan(scanner, chain[b]).outputs) : scan(scanner, chain[b]).outputs[p] \in outputs
  PROVE  /\ scan(scanner, chain[b]).ok =>
              AllKept(chain[b], earlier + Before(ChainRings(chain), b - 1), scanner.guaranteed,
                      DOMAIN scanner.subaddresses, outputs)
         /\ MustScan(chain[b], earlier + Len(FlattenSeq(ChainRings(chain)))) => scan(scanner, chain[b]).ok
<1>. DEFINE block == chain[b]
            res == scan(scanner, chain[b])
<1>1. scanner.wallet = Wallet /\ ScannerOK(scanner)
  <2>1. scanner = [wallet |-> Wallet, guaranteed |-> scanner.guaranteed, subaddresses |-> scanner.subaddresses]
    BY DEF Inv
  <2>2. scanner.wallet = Wallet
    BY <2>1
  <2>. QED
    BY <2>2 DEF Inv
<1>2. PICK cs \in Seq(Seq(RingOutputs)) : cs = ChainRings(chain) /\ Len(cs) = Len(chain) /\ cs[b] = BlockRingCT(block)
  BY OfChain, Zenon
<1>3. BlockOK(block) /\ block.hardfork \in Nat /\ earlier \in Nat /\ chain \in Seq(Blocks)
  BY OfChain, Zenon
<1>4. b \in 1 .. Len(cs) /\ b \in 0 .. Len(cs) /\ b - 1 \in 0 .. Len(cs)
  <2>1. Len(chain) \in Nat
    BY <1>3
  <2>. QED
    BY <1>2, <2>1
<1>5. PICK a \in Nat, l \in Nat, m \in Nat :
        /\ a = Before(cs, b - 1) /\ l = Len(BlockRingCT(block)) /\ m = Len(FlattenSeq(cs)) /\ a + l <= m
  <2>1. Before(cs, b) <= Len(FlattenSeq(cs)) /\ Len(FlattenSeq(cs)) \in Nat
    BY <1>4, BeforeBounded, Zenon
  <2>2. Before(cs, b) = Before(cs, b - 1) + Len(cs[b]) /\ Before(cs, b - 1) \in Nat
    BY <1>4, BeforeGrows, Zenon
  <2>3. BlockRingCT(block) \in Seq(RingOutputs)
    BY <1>3, BlockRingIs, Zenon
  <2>4. Len(BlockRingCT(block)) \in Nat
    BY <2>3
  <2>. QED
    BY <1>2, <2>1, <2>2, <2>4, Zenon
<1>6. block.index = IF BlockRingCT(block) = <<>> THEN None ELSE Some(earlier + a)
  BY <1>2, <1>5, Zenon DEF Inv, ChainOK
<1>. HIDE DEF block, res
<1>7. CASE BlockRingCT(block) = <<>>
  <2>1. block.index = None /\ Len(block.hashes) = Len(block.transactions)
    BY <1>3, <1>6, <1>7, Zenon DEF BlockOK
  <2>2. res = Ok(<<>>)
    BY <2>1, Zenon DEF scan, res, block
  <2>3. res.ok
    BY <2>2 DEF Ok
  <2>4. AllKept(block, earlier + a, scanner.guaranteed, DOMAIN scanner.subaddresses, outputs)
    BY <1>3, <1>7, NoneExpected, Zenon DEF AllKept, ExpectedBy
  <2>. QED
    BY <1>2, <1>5, <2>3, <2>4, Zenon DEF res, block
<1>8. CASE BlockRingCT(block) # <<>>
  <2>. DEFINE first == earlier + a
  <2>1. first \in Nat /\ block.index = Some(first)
    BY <1>3, <1>6, <1>8
  <2>. HIDE DEF first
  <2>2. /\ res.ok =>
              \A i \in 1 .. Len(BlockTransactions(block)) : \A o \in 1 .. Len(BlockTransactions(block)[i].outputs) :
                Awaited(scanner, BlockTransactions(block)[i], o) =>
                  /\ ~LacksAmount(BlockTransactions(block)[i], o)
                  /\ Among(res.outputs,
                           KeepPaymentId(block.hardfork,
                                         Output(BlockTransactions(block)[i], FirstOf(block, first, i), o)))
        /\ (/\ ~(block.hardfork > 16)
            /\ \A i \in 1 .. Len(BlockTransactions(block)) : BlockTransactions(block)[i].valid
            /\ first + Len(BlockRingCT(block)) <= U64Max) => res.ok
    BY <1>1, <1>3, <2>1, BlockScanned, ZenonT(60) DEF res, block
  <2>3. ASSUME res.ok PROVE AllKept(block, first, scanner.guaranteed, DOMAIN scanner.subaddresses, outputs)
    <3>1. \A w : Among(res.outputs, w) => w \in outputs
      BY Zenon DEF Among, res
    <3>. QED
      BY <2>2, <2>3, <3>1, Zenon DEF AllKept, ExpectedBy, Awaited
  <2>4. ASSUME MustScan(block, earlier + m) PROVE res.ok
    <3>1. block.hardfork <= 16 => ~(block.hardfork > 16)
      BY <1>3
    <3>2. earlier + m <= U64Max => first + l <= U64Max
      BY <1>3, <1>5, U64MaxAssumption DEF first
    <3>. QED
      BY <1>5, <2>2, <2>4, <3>1, <3>2, Zenon DEF MustScan
  <2>. QED
    BY <1>2, <1>5, <2>3, <2>4, Zenon DEF res, block, first
<1>. QED
  BY <1>7, <1>8, Zenon

\* What was found and is expected stays so while there is more found, and a block more.
LEMMA StaysComplete ==
  ASSUME NEW s, NEW c, NEW d, NEW e \in Nat, NEW guaranteed, NEW F, NEW G, F \subseteq G,
         IsComplete(s, c, e, guaranteed, F), c \in Seq(Blocks), d \in Seq(Blocks), d = c \/ Stays(c, d),
         \A b \in 1 .. Len(d) : BlockOK(d[b])
  PROVE  IsComplete(s, d, e, guaranteed, G)
<1>1. PICK b : b = s.block /\ b \in 1 .. Len(c)
  BY Zenon DEF IsComplete
<1>2. /\ b \in 1 .. Len(d) /\ d[b] = c[b]
      /\ Before(ChainRings(d), b - 1) = Before(ChainRings(c), b - 1)
  <2>1. CASE d = c
    BY <1>1, <2>1, Zenon
  <2>2. CASE Stays(c, d)
    <3>1. b - 1 \in 0 .. Len(c) /\ b \in 1 .. Len(c) + 1
      BY <1>1
    <3>. QED
      BY <1>1, <2>2, <3>1, Zenon DEF Stays
  <2>. QED
    BY <2>1, <2>2
<1>3. ASSUME e + Len(FlattenSeq(ChainRings(d))) <= U64Max PROVE e + Len(FlattenSeq(ChainRings(c))) <= U64Max
  <2>1. CASE d = c
    BY <1>3, <2>1, Zenon
  <2>2. CASE Stays(c, d)
    <3>1. PICK n \in Nat : n = Len(c) /\ Len(d) = n + 1 /\ n \in 0 .. n + 1
      BY <2>2 DEF Stays
    <3>2. PICK ds \in Seq(Seq(RingOutputs)) : ds = ChainRings(d) /\ Len(ds) = n + 1
      BY <3>1, ChainRingsAre, Zenon
    <3>3. PICK x \in Nat, y \in Nat : x = Before(ds, n) /\ y = Len(FlattenSeq(ds)) /\ x <= y
      BY <3>1, <3>2, BeforeBounded, Zenon
    <3>4. Before(ChainRings(c), n) = Before(ds, n)
      <4>1. n \in 0 .. Len(c)
        BY <3>1
      <4>. QED
        BY <2>2, <3>2, <4>1, Zenon DEF Stays
    <3>5. Before(ChainRings(c), n) = Len(FlattenSeq(ChainRings(c)))
      <4>1. ASSUME NEW k \in 1 .. Len(c) PROVE BlockOK(c[k])
        <5>1. k \in 1 .. Len(d)
          BY <3>1
        <5>. QED
          BY <2>2, <5>1, Zenon DEF Stays
      <4>2. PICK cs \in Seq(Seq(RingOutputs)) : cs = ChainRings(c) /\ Len(cs) = n
        BY <3>1, <4>1, ChainRingsAre, Zenon
      <4>3. SubSeq(cs, 1, n) = cs
        BY <4>2, SubSeqFull, Zenon
      <4>. QED
        BY <4>2, <4>3, Zenon DEF Before
    <3>6. e + y <= U64Max => e + x <= U64Max
      BY <3>3, U64MaxAssumption
    <3>. QED
      BY <1>3, <3>2, <3>3, <3>4, <3>5, <3>6, Zenon
  <2>. QED
    BY <2>1, <2>2
<1>4. ASSUME s.ok PROVE AllKept(d[b], e + Before(ChainRings(d), b - 1), guaranteed, s.registered, G)
  <2>1. AllKept(c[b], e + Before(ChainRings(c), b - 1), guaranteed, s.registered, F)
    BY <1>1, <1>4, Zenon DEF IsComplete
  <2>2. AllKept(c[b], e + Before(ChainRings(c), b - 1), guaranteed, s.registered, G)
    BY <2>1, Zenon DEF AllKept
  <2>. QED
    BY <1>2, <2>2, Zenon
<1>5. ASSUME s.whole, MustScan(d[b], e + Len(FlattenSeq(ChainRings(d)))) PROVE s.ok
  BY <1>1, <1>2, <1>3, <1>5, Zenon DEF IsComplete, MustScan
<1>. QED
  BY <1>1, <1>2, <1>4, <1>5, Zenon DEF IsComplete

LEMMA ScanComplete ==
  ASSUME Inv, Complete, NEW b \in 1 .. Len(chain), NEW block,
         block = chain[b] \/ (chain[b].transactions # <<>> /\ block = Incomplete(chain[b])),
         Scan(b, block)
  PROVE  Complete'
<1>. DEFINE res == scan(scanner, block)
            new == [block |-> b, whole |-> block = chain[b], ok |-> res.ok, registered |-> DOMAIN scanner.subaddresses]
<1>1. /\ UNCHANGED <<scanner, chain, earlier>>
      /\ found' = found \cup {res.outputs[p] : p \in 1 .. Len(res.outputs)}
      /\ scanned' = scanned \cup (IF block = chain[b] \/ res.ok THEN {new} ELSE {})
  BY Zenon DEF Scan
<1>2. found \subseteq found'
  BY <1>1, Zenon
<1>3. ASSUME NEW s \in scanned PROVE IsComplete(s, chain, earlier, scanner.guaranteed, found')
  <2>1. IsComplete(s, chain, earlier, scanner.guaranteed, found)
    BY Zenon DEF Complete
  <2>2. chain \in Seq(Blocks) /\ earlier \in Nat /\ \A k \in 1 .. Len(chain) : BlockOK(chain[k])
    BY OfChain, Zenon
  <2>. QED
    BY <1>2, <2>1, <2>2, StaysComplete, Zenon
<1>4. ASSUME block = chain[b] PROVE IsComplete(new, chain, earlier, scanner.guaranteed, found')
  <2>1. /\ res.ok => AllKept(chain[b], earlier + Before(ChainRings(chain), b - 1), scanner.guaranteed,
                             DOMAIN scanner.subaddresses, found')
        /\ MustScan(chain[b], earlier + Len(FlattenSeq(ChainRings(chain)))) => res.ok
    <3>1. \A p \in 1 .. Len(res.outputs) : res.outputs[p] \in found'
      BY <1>1, Zenon
    <3>. QED
      BY <1>4, <3>1, ScanCompletes, Zenon
  <2>. HIDE DEF res
  <2>2. new.block = b /\ new.ok = res.ok /\ new.registered = DOMAIN scanner.subaddresses
    OBVIOUS
  <2>. HIDE DEF new
  <2>. QED
    BY <2>1, <2>2, Zenon DEF IsComplete
<1>5. ASSUME block # chain[b] PROVE ~res.ok
  <2>1. res = Err
    BY <1>5, IncompleteRefused, Zenon
  <2>. QED
    BY <2>1 DEF Err
<1>6. scanned' = scanned \cup {new} \/ scanned' = scanned
  BY <1>1, Zenon
<1>7. scanned' # scanned => block = chain[b]
  BY <1>1, <1>5, Zenon
<1>. HIDE DEF new, res
<1>8. ASSUME NEW s \in scanned' PROVE IsComplete(s, chain, earlier, scanner.guaranteed, found')
  BY <1>3, <1>4, <1>6, <1>7, Zenon
<1>. QED
  BY <1>1, <1>8, Zenon DEF Complete

\* A restart loses nothing.
LEMMA RestartKeeps == ASSUME Inv, Restart PROVE found' = found
<1>1. found' = {ReadOutput(WriteOutput(w)) : w \in {o \in found : Reads(WriteOutput(o))}}
  BY Zenon DEF Restart
<1>2. ASSUME NEW w \in found PROVE ReadOutput(WriteOutput(w)) = w /\ Reads(WriteOutput(w))
  <2>1. IsFound(w, chain, earlier, scanner.guaranteed)
    BY Zenon DEF Inv
  <2>2. PICK b \in 1 .. Len(chain) :
          FoundIn(w, chain[b], earlier + Before(ChainRings(chain), b - 1), scanner.guaranteed)
    BY <2>1, Zenon DEF IsFound
  <2>3. \A i \in 1 .. Len(BlockTransactions(chain[b])) : BlockTransactions(chain[b])[i] \in AllTransactions
    <3>1. BlockOK(chain[b])
      BY DEF Inv, ChainOK
    <3>2. BlockTransactions(chain[b]) \in Seq(AllTransactions)
      BY <3>1, BlockTransactionsAre, Zenon
    <3>. QED
      BY <3>2
  <2>. QED
    BY <2>2, <2>3, FoundRead, FoundReads, Zenon DEF FoundIn
<1>. QED
  BY <1>1, <1>2, Zenon

LEMMA InitComplete == Init => Complete
BY DEF Init, Complete

LEMMA NextComplete == Inv /\ Inv' /\ Complete /\ [Next]_vars => Complete'
<1>. SUFFICES ASSUME Inv, Inv', Complete, [Next]_vars PROVE Complete'
  OBVIOUS
<1>1. ASSUME NEW miner, NEW txs, NEW hf, Mine(miner, txs, hf), Stays(chain, chain') PROVE Complete'
  <2>1. UNCHANGED <<scanner, earlier, scanned, found>>
    BY <1>1, Zenon DEF Mine
  <2>2. chain \in Seq(Blocks) /\ earlier \in Nat
    BY OfChain, Zenon
  <2>3. chain' \in Seq(Blocks) /\ \A b \in 1 .. Len(chain') : BlockOK(chain'[b])
    BY DEF Inv, ChainOK
  <2>4. ASSUME NEW s \in scanned PROVE IsComplete(s, chain', earlier, scanner.guaranteed, found)
    <3>1. IsComplete(s, chain, earlier, scanner.guaranteed, found)
      BY Zenon DEF Complete
    <3>. QED
      BY <1>1, <2>2, <2>3, <3>1, StaysComplete, Zenon
  <2>. QED
    BY <2>1, <2>4, Zenon DEF Complete
<1>2. ASSUME MineNext PROVE Complete'
  BY <1>1, <1>2, MineInv, Zenon DEF MineNext
<1>3. ASSUME NEW index \in Indexes, Register(index) PROVE Complete'
  <2>1. UNCHANGED <<chain, earlier, scanned, found>>
    BY <1>3, Zenon DEF Register
  <2>2. scanner'.guaranteed = scanner.guaranteed
    <3>1. scanner = [wallet |-> Wallet, guaranteed |-> scanner.guaranteed, subaddresses |-> scanner.subaddresses]
      BY DEF Inv
    <3>2. \E new : scanner' = [scanner EXCEPT !.subaddresses = new]
      BY <1>3, Zenon DEF Register, RegisterSubaddress
    <3>. QED
      BY <3>1, <3>2
  <2>. QED
    BY <2>1, <2>2, Zenon DEF Complete
<1>4. CASE ScanNext
  BY <1>4, ScanComplete, Zenon DEF ScanNext
<1>5. CASE Restart
  <2>1. UNCHANGED <<scanner, chain, earlier, scanned>>
    BY <1>5, Zenon DEF Restart
  <2>2. found' = found
    BY <1>5, RestartKeeps, Zenon
  <2>. QED
    BY <2>1, <2>2, Zenon DEF Complete
<1>6. CASE UNCHANGED vars
  <2>1. UNCHANGED <<scanner, chain, earlier, scanned, found>>
    BY <1>6 DEF vars
  <2>. QED
    BY <2>1, Zenon DEF Complete
<1>. QED
  BY <1>2, <1>3, <1>4, <1>5, <1>6, Zenon DEF Next

\* That w tells the recipient what was meant by output o.
IsLearnt(w, tx, o, hardfork) == /\ w.transaction = tx.hash
                                /\ w.index_in_transaction = o - 1
                                /\ Learnt(w) = Learns(tx, o, hardfork)

\* The output the scan yields tells the recipient what was meant.
LEMMA LearntAs ==
  ASSUME NEW tx \in AllTransactions, tx.version = 2, NEW o \in 1 .. Len(tx.outputs), tx.intended[o].wallet = Wallet,
         ~LacksAmount(tx, o), NEW first, NEW hardfork
  PROVE  IsLearnt(KeepPaymentId(hardfork, Output(tx, first, o)), tx, o, hardfork)
<1>. DEFINE w == KeepPaymentId(hardfork, Output(tx, first, o))
<1>1. /\ w.transaction = tx.hash /\ w.index_in_transaction = o - 1
      /\ Learnt(w) = Learns(tx, o, hardfork)
  BY SentLearnt, Zenon
<1>. HIDE DEF w
<1>2. IsLearnt(w, tx, o, hardfork)
  BY <1>1, Zenon DEF IsLearnt
<1>. QED
  BY <1>2, Zenon DEF w

\* Every output meant for the wallet in a block whose scan succeeded is found, under a key which was
\* registered, with its subaddress, amount, timelock, payment ID and data as its sender meant them, and
\* is kept by every restart; and a scan only fails for what consensus excludes, a version not supported
\* or an index beyond a u64. This is of senders who follow the protocol (SendersAssumption), whichever
\* of the transaction keys and additional keys they use.
\* (scan.rs: scan, scan_transaction; extra.rs: read, keys, payment_id, arbitrary_data; output.rs: write, read)
THEOREM NothingIsMissed == Spec => []NothingMissed
<1>1. Inv /\ Complete => NothingMissed
  <2>. SUFFICES ASSUME Inv, Complete, NEW s \in scanned
       PROVE  /\ s.ok => \A i \in 1 .. Len(BlockTransactions(chain[s.block])) :
                           \A o \in 1 .. Len(BlockTransactions(chain[s.block])[i].outputs) :
                             Expected(BlockTransactions(chain[s.block])[i], o, s.registered) =>
                               \E w \in found :
                                 /\ w.transaction = BlockTransactions(chain[s.block])[i].hash
                                 /\ w.index_in_transaction = o - 1
                                 /\ Learnt(w) = Learns(BlockTransactions(chain[s.block])[i], o, chain[s.block].hardfork)
              /\ (/\ s.whole
                  /\ chain[s.block].hardfork <= 16
                  /\ \A i \in 1 .. Len(BlockTransactions(chain[s.block])) : BlockTransactions(chain[s.block])[i].valid
                  /\ earlier + Len(ChainRingCT) <= U64Max) => s.ok
    BY Zenon DEF NothingMissed
  <2>1. IsComplete(s, chain, earlier, scanner.guaranteed, found)
    BY Zenon DEF Complete
  <2>2. PICK b : b = s.block /\ b \in 1 .. Len(chain)
    BY <2>1, Zenon DEF IsComplete
  <2>. DEFINE txs == BlockTransactions(chain[b])
              first == earlier + Before(ChainRings(chain), b - 1)
  <2>3. ASSUME s.ok, NEW i \in 1 .. Len(txs), NEW o \in 1 .. Len(txs[i].outputs), Expected(txs[i], o, s.registered)
        PROVE  \E w \in found : /\ w.transaction = txs[i].hash /\ w.index_in_transaction = o - 1
                                /\ Learnt(w) = Learns(txs[i], o, chain[b].hardfork)
    <3>1. AllKept(chain[b], first, scanner.guaranteed, s.registered, found)
      BY <2>1, <2>2, <2>3, Zenon DEF IsComplete
    <3>2. ExpectedBy(scanner.guaranteed, txs[i], o, s.registered)
      BY <2>3, Zenon DEF Expected, ExpectedBy
    <3>. DEFINE w == KeepPaymentId(chain[b].hardfork, Output(txs[i], FirstOf(chain[b], first, i), o))
    <3>3. ~LacksAmount(txs[i], o) /\ w \in found
      BY <3>1, <3>2, Zenon DEF AllKept
    <3>4. txs[i] \in AllTransactions /\ txs[i].version = 2 /\ txs[i].intended[o].wallet = Wallet
      <4>1. BlockOK(chain[b])
        BY <2>2, OfChain, Zenon
      <4>2. txs \in Seq(AllTransactions)
        BY <4>1, BlockTransactionsAre, Zenon
      <4>. HIDE DEF txs
      <4>3. txs[i] \in AllTransactions
        BY <4>2
      <4>. QED
        BY <3>2, <4>3, Zenon DEF ExpectedBy
    <3>5. IsLearnt(w, txs[i], o, chain[b].hardfork)
      <4>1. PICK tx, first_of, hardfork : tx = txs[i] /\ first_of = FirstOf(chain[b], first, i) /\ hardfork = chain[b].hardfork
        BY Zenon
      <4>. HIDE DEF txs, first, w
      <4>2. w = KeepPaymentId(hardfork, Output(tx, first_of, o))
        BY <4>1, Zenon DEF w
      <4>3. tx \in AllTransactions /\ tx.version = 2 /\ o \in 1 .. Len(tx.outputs) /\ tx.intended[o].wallet = Wallet
        BY <2>3, <3>4, <4>1, Zenon
      <4>4. ~LacksAmount(tx, o)
        BY <3>3, <4>1, Zenon
      <4>5. IsLearnt(KeepPaymentId(hardfork, Output(tx, first_of, o)), tx, o, hardfork)
        BY <4>3, <4>4, LearntAs, Zenon
      <4>. QED
        BY <4>1, <4>2, <4>5, Zenon
    <3>. QED
      BY <3>3, <3>5, Zenon DEF IsLearnt
  <2>4. ASSUME s.whole, chain[b].hardfork <= 16, \A i \in 1 .. Len(txs) : txs[i].valid,
               earlier + Len(ChainRingCT) <= U64Max
        PROVE  s.ok
    <3>1. ChainRingCT = FlattenSeq(ChainRings(chain))
      BY OfChain, Zenon
    <3>. QED
      BY <2>1, <2>2, <2>4, <3>1, Zenon DEF IsComplete, MustScan
  <2>. QED
    BY <2>2, <2>3, <2>4, Zenon
<1>2. Spec => []Complete
  BY Invariance, InitComplete, NextComplete, PTL DEF Spec
<1>. QED
  BY <1>1, <1>2, Invariance, PTL

================================================================================
