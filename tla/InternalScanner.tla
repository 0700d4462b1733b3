----------------------------- MODULE InternalScanner ----------------------------
(***************************************************************************)
(* How a scanner finds its wallet's outputs (InternalScanner and           *)
(* Timelocked of wallet/src/scan.rs).                                      *)
(*                                                                         *)
(* A scanner is [wallet, guaranteed, subaddresses], the last a map from    *)
(* spend keys to the Option of an index. A transaction is [hash, version,  *)
(* timelock, inputs, outputs, extra, proofs]: an input [gen, id] is the    *)
(* height of a miner transaction's block, or a key image; an output is     *)
(* [key, amount, view_tag]; proofs is an Option of                         *)
(* [encrypted_amounts, commitments, ..]. A ScannableBlock is [hardfork,    *)
(* miner, hashes, transactions, index], where hashes are what the block    *)
(* says its transactions are, and index the Option of the index of its     *)
(* first RingCT output.                                                    *)
(***************************************************************************)
EXTENDS TxExtra

CONSTANT U64Max   \* u64::MAX

ASSUME U64MaxAssumption == U64Max \in Nat

NewScanner(w, guaranteed) ==
  [wallet |-> w, guaranteed |-> guaranteed, subaddresses |-> [k \in {SpendKey(w, None)} |-> None]]

RegisterSubaddress(scanner, index) ==
  LET spend == SpendKey(scanner.wallet, Some(index))
  IN  [scanner EXCEPT !.subaddresses =
         [k \in DOMAIN @ \cup {spend} |-> IF k = spend THEN Some(index) ELSE @[k]]]

\* Result<_, ScanError>
Err == [ok |-> FALSE, outputs |-> <<>>]
Ok(outputs) == [ok |-> TRUE, outputs |-> outputs]

-----------------------------------------------------------------------------
(* scan_transaction *)

Derivations(scanner, tx, o, key) ==
  output_derivations(IF scanner.guaranteed THEN Some(uniqueness(tx.inputs)) ELSE None,
                     Mul(View(scanner.wallet), key), o - 1)

\* The view tag matches, where there is one, and P - shared is a key which was registered
IsOurs(scanner, tx, o, key) ==
  LET d == Derivations(scanner, tx, o, key)
      output == tx.outputs[o]
      spend == SpendOf(output.key, d.shared_key)
  IN  /\ output.view_tag \in {None, Some(d.view_tag)}
      /\ spend # None
      /\ spend[1] \in DOMAIN scanner.subaddresses

LacksAmount(tx, o) ==
  /\ tx.outputs[o].amount = None
  /\ tx.proofs = None \/ Len(tx.proofs[1].encrypted_amounts) < o

CommitmentOf(scanner, tx, o, key) ==
  IF tx.outputs[o].amount # None
  THEN [ZeroCommitment EXCEPT !.amount = tx.outputs[o].amount[1]]
  ELSE decrypt(Derivations(scanner, tx, o, key), tx.proofs[1].encrypted_amounts[o])

\* A miner transaction's amount is explicit: there is no commitment it could differ from
CommitmentMatches(scanner, tx, o, key) ==
  \/ tx.outputs[o].amount # None
  \/ /\ o <= Len(tx.proofs[1].commitments)
     /\ tx.proofs[1].commitments[o] = CommitmentOf(scanner, tx, o, key)

\* What trying one key for an output comes to
Attempt(scanner, tx, o, key) ==
  IF ~IsOurs(scanner, tx, o, key) THEN "continue"
  ELSE IF LacksAmount(tx, o) THEN "error"
  ELSE IF CommitmentMatches(scanner, tx, o, key) THEN "found" ELSE "continue"

WalletOutput(scanner, tx, first, o, key) ==
  LET d == Derivations(scanner, tx, o, key)
      subaddress == scanner.subaddresses[tx.outputs[o].key.spend]
      id == payment_id(ReadExtra(tx.extra))
  IN  [transaction |-> tx.hash,
       index_in_transaction |-> o - 1,
       index_on_blockchain |-> first + (o - 1),
       key |-> tx.outputs[o].key,
       key_offset |-> [shared |-> d.shared_key, subaddress |-> subaddress],
       commitment |-> CommitmentOf(scanner, tx, o, key),
       additional_timelock |-> tx.timelock,
       subaddress |-> subaddress,
       payment_id |-> IF id = None THEN None
                      ELSE Some(XorPaymentId(id[1], payment_id_xor(d.shared_key.ecdh))),
       arbitrary_data |-> arbitrary_data(ReadExtra(tx.extra))]

\* The keys for an output are tried until one finds it, or is an error
ScanOutput(scanner, tx, first, o) ==
  LET keys == KeysFor(ReadExtra(tx.extra), o)
      ends == {k \in 1 .. Len(keys) : Attempt(scanner, tx, o, keys[k]) # "continue"}
      k == CHOOSE k \in ends : \A l \in ends : k <= l
  IN  IF tx.outputs[o].key.kind # "point" \/ ends = {} THEN Ok(<<>>)
      ELSE IF Attempt(scanner, tx, o, keys[k]) = "error" \/ first + (o - 1) > U64Max THEN Err
      ELSE Ok(<<WalletOutput(scanner, tx, first, o, keys[k])>>)

AndThen(result, next) ==
  IF result.ok /\ next.ok THEN Ok(result.outputs \o next.outputs) ELSE Err

\* The outputs of all the results, or an error if one is
AllOf(n, results) ==
  LET upTo[i \in 0 .. n] == IF i = 0 THEN Ok(<<>>) ELSE AndThen(upTo[i - 1], results[i])
  IN  upTo[n]

scan_transaction(scanner, first, tx) ==
  IF tx.version # 2 THEN Ok(<<>>)
  ELSE AllOf(Len(tx.outputs), [o \in 1 .. Len(tx.outputs) |-> ScanOutput(scanner, tx, first, o)])

-----------------------------------------------------------------------------
(* scan *)

\* Mistake: the outputs of version 1 are counted.
NextFirstOfAny(first, tx) == first + Len(tx.outputs)

\* The index of the first output of the transaction after tx
NextFirst(first, tx) == IF tx.version = 2 THEN first + Len(tx.outputs) ELSE first

\* The index of the first output after each number of the transactions
Firsts(first, txs) ==
  LET firsts[i \in 0 .. Len(txs)] == IF i = 0 THEN first ELSE NextFirst(firsts[i - 1], txs[i])
  IN  firsts

\* From hard fork 12, payment IDs which are not encrypted are dropped
KeepPaymentId(hardfork, output) ==
  IF hardfork >= 12 /\ output.payment_id # None /\ output.payment_id[1].kind = "unencrypted"
  THEN [output EXCEPT !.payment_id = None] ELSE output

scan(scanner, block) ==
  LET txs == <<block.miner>> \o
               [i \in 1 .. Len(block.transactions) |->
                  [block.transactions[i] EXCEPT !.hash = block.hashes[i]]]
      firsts == Firsts(block.index[1], txs)
      res == AllOf(Len(txs), [i \in 1 .. Len(txs) |-> IF firsts[i] > U64Max THEN Err
                                             ELSE scan_transaction(scanner, firsts[i - 1], txs[i])])
  IN  IF Len(block.hashes) # Len(block.transactions) THEN Err
      ELSE IF block.index = None THEN Ok(<<>>)
      ELSE IF block.hardfork > 16 THEN Err
      ELSE [res EXCEPT !.outputs = [i \in 1 .. Len(@) |-> KeepPaymentId(block.hardfork, @[i])]]

-----------------------------------------------------------------------------
(* Timelocked, as the set of its outputs: a timelock is [kind, at], of kind "none", "block" or "time" *)

\* Mistake: a block compares with a time.
TimelockNumberLeq(a, b) == a.at <= b.at

\* PartialOrd of Timelock: a block and a time do not compare
TimelockLeq(a, b) == a.kind = "none" \/ (a.kind = b.kind /\ a.at <= b.at)

not_additionally_locked(outputs) ==
  {output \in outputs : output.additional_timelock.kind = "none"}

additional_timelock_satisfied_by(outputs, block, time) ==
  {output \in outputs :
     \/ TimelockLeq(output.additional_timelock, [kind |-> "block", at |-> block])
     \/ TimelockLeq(output.additional_timelock, [kind |-> "time", at |-> time])}

=============================================================================
