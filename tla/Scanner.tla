--------------------------------- MODULE Scanner --------------------------------
(***************************************************************************)
(* A wallet scanning a chain (Scanner and GuaranteedScanner of             *)
(* wallet/src/scan.rs) and keeping what it finds (wallet/src/output.rs).   *)
(*                                                                         *)
(* The chain grows by blocks of transactions anyone may have made. The     *)
(* wallet registers subaddresses, scans blocks in any order, and may       *)
(* restart at any time, when its outputs are read back from how they were  *)
(* written. The blocks are as ScannableFetch fetches and checks them.      *)
(*                                                                         *)
(* A transaction of the chain has fields the program does not see: what    *)
(* its sender meant each output to be (intended), the scalar it used for   *)
(* the output (scalars), the arbitrary data within what is relayed (data), *)
(* the number its timelock was encoded as (unlock_time), the amounts it    *)
(* commits to (committed), and whether consensus allows it (valid).        *)
(***************************************************************************)
EXTENDS InternalScanner, FiniteSets

CONSTANTS
  Wallet,         \* the wallet which scans
  Indexes,        \* the subaddresses which may be registered
  Transactions,   \* the transactions which may be mined
  Miners,         \* the miner transactions of each height
  HardForks,      \* the versions the block of each height may have
  Earlier,        \* how many RingCT outputs there may be before the first block
  MaxBlocks,      \* bound: blocks mined
  MaxInBlock,     \* bound: transactions of the first block; one less in each after it
  BlockThreshold  \* TIMELOCK_BLOCK_THRESHOLD

ASSUME BoundsAssumption ==
  /\ MaxBlocks \in Nat /\ MaxInBlock \in Nat /\ BlockThreshold \in Nat \ {0}
  /\ Indexes \subseteq Nat \ {0} /\ Earlier \subseteq Nat
  /\ \A h \in 1 .. MaxBlocks : HardForks[h] \subseteq Nat
\* A key image is spent once, a miner's input is the height of its block, and a hash is of one transaction
ASSUME ConsensusAssumption ==
  /\ \A t, u \in Transactions : t # u =>
       /\ t.hash # u.hash
       /\ \A i \in 1 .. Len(t.inputs), j \in 1 .. Len(u.inputs) : t.inputs[i].id # u.inputs[j].id
  /\ \A t \in Transactions : Len(t.inputs) \in Nat \ {0} /\ \A i \in 1 .. Len(t.inputs) : t.inputs[i].gen = FALSE
  /\ \A h \in 1 .. MaxBlocks : \A t \in Miners[h] :
       /\ t.inputs = <<[gen |-> TRUE, id |-> h]>>
       /\ \A u \in Transactions : t.hash # u.hash
       /\ \A g \in 1 .. MaxBlocks : h # g => \A u \in Miners[g] : t.hash # u.hash

VARIABLES
  scanner,   \* the InternalScanner
  chain,     \* the ScannableBlocks
  earlier,   \* how many RingCT outputs there were before
  scanned,   \* history: the blocks scanned, [block, whole, ok, registered], with the keys known then
  found      \* the WalletOutputs

vars == <<scanner, chain, earlier, scanned, found>>

-----------------------------------------------------------------------------
(* The chain *)

\* Timelock::read
ReadTimelock(raw) ==
  [kind |-> IF raw = 0 THEN "none" ELSE IF raw < BlockThreshold THEN "block" ELSE "time", at |-> raw]

\* A transaction is a record of its outputs, whose keys are one-time keys or none at all; its
\* timelock is as it was read; the fields of its extra have the lengths of what they hold; and what
\* it commits to is an amount in the clear, or in a commitment. A valid one has all its amounts.
ASSUME TransactionsAssumption ==
  \A tx \in Transactions \cup UNION {Miners[h] : h \in 1 .. MaxBlocks} :
    /\ [tx EXCEPT !.hash = @] = tx
    /\ tx.unlock_time \in Nat /\ tx.timelock = ReadTimelock(tx.unlock_time)
    /\ Len(tx.outputs) \in Nat
    /\ tx.extra \in Seq(Range(tx.extra))
    /\ \A i \in 1 .. Len(tx.extra) :
         LET field == tx.extra[i]
         IN  /\ field.len \in Nat /\ field.keys \in Seq(Range(field.keys))
             /\ field.tag = "Nonce" => field.len = field.nonce.len
             /\ field.nonce.kind = "arbitrary" => field.nonce.len \in Nat \ {0}
    /\ tx.data = arbitrary_data(ReadExtra(tx.extra))
    /\ tx.valid /\ tx.version = 2 => \A o \in 1 .. Len(tx.outputs) : ~LacksAmount(tx, o)
    /\ \A o \in 1 .. Len(tx.outputs) :
         LET output == tx.outputs[o]
             key == output.key
         IN  /\ key = [kind |-> key.kind, shared |-> key.shared, spend |-> key.spend]
             /\ output.amount # None => tx.committed[o] = output.amount[1]
             /\ output.amount = None /\ o <= Len(tx.proofs[1].commitments) =>
                  tx.committed[o] = tx.proofs[1].commitments[o].amount

\* The fields of an extra a recipient gets to, and the first of a kind
Readable(extra) == {i \in 1 .. Len(extra) : \A j \in 1 .. i : FieldReads(extra[j], j = Len(extra))}
IsFirst(extra, i, tag) ==
  i \in Readable(extra) /\ extra[i].tag = tag /\ \A j \in 1 .. i - 1 : extra[j].tag # tag

\* The extra has this key: as a transaction key, or as the additional key for output o
Carries(extra, o, key) ==
  \/ \E i \in Readable(extra) : extra[i].tag = "PublicKey" /\ extra[i].keys[1] = key
  \/ /\ \E i \in Readable(extra) : extra[i].tag = "PublicKey"
     /\ \E i \in 1 .. Len(extra) : /\ IsFirst(extra, i, "PublicKeys")
                                   /\ o \in 1 .. Len(extra[i].keys) /\ extra[i].keys[o] = key

\* The extra has this payment ID, encrypted with the secret shared with its recipient, or none at all
CarriesId(extra, id, ecdh) ==
  IF id = None
  THEN \A i \in 1 .. Len(extra) : IsFirst(extra, i, "Nonce") => extra[i].nonce.kind \notin {"encrypted", "unencrypted"}
  ELSE \E i \in 1 .. Len(extra) :
         /\ IsFirst(extra, i, "Nonce")
         /\ \/ /\ id = Some([kind |-> "encrypted", id |-> id[1].id])
               /\ extra[i].nonce = EncryptedId(Xor(id[1].id, payment_id_xor(ecdh)))
            \/ /\ id = Some([kind |-> "unencrypted", id |-> id[1].id])
               /\ extra[i].nonce = UnencryptedId(id[1].id)

\* Output o is as a sender who follows the protocol makes it for an address of the wallet: with the sender's scalar r
\* and the address's view key vB, the key and the amount are derived from r(vB), and the extra has rB
Sent(tx, o) ==
  LET for == tx.intended[o]
      output == tx.outputs[o]
      main == for.subaddress = None
      keys == IF main THEN MainKeys(Wallet) ELSE subaddress_keys(Wallet, for.subaddress)
      ecdh == Mul(tx.scalars[o], keys.view)
      d == output_derivations(IF for.guaranteed THEN Some(uniqueness(tx.inputs)) ELSE None, ecdh, o - 1)
  IN  /\ main \/ (for.subaddress = Some(for.subaddress[1]) /\ for.subaddress[1] \in Nat \ {0})
      /\ Carries(tx.extra, o, Mul(tx.scalars[o], IF main THEN BASEPOINT ELSE Generator(keys.spend)))
      /\ CarriesId(tx.extra, for.payment_id, ecdh)
      /\ output.key = OneTimeKey(d.shared_key, keys.spend)
      /\ output.view_tag \in {None, Some(d.view_tag)}
      /\ output.amount \in {None, Some(for.amount)}
      /\ output.amount = None /\ ~LacksAmount(tx, o) =>
           LET encrypted == tx.proofs[1].encrypted_amounts[o]
           IN  /\ encrypted.key = d.shared_key /\ encrypted.amount = for.amount
               /\ o <= Len(tx.proofs[1].commitments)
               /\ tx.proofs[1].commitments[o] =
                    [mask |-> IF encrypted.form = "original" THEN encrypted.mask ELSE commitment_mask(d),
                     amount |-> for.amount]

\* What is said to be meant for the wallet was sent to it. Nothing is assumed of other outputs.
ASSUME SendersAssumption ==
  \A tx \in Transactions \cup UNION {Miners[h] : h \in 1 .. MaxBlocks} :
    tx.version = 2 => \A o \in 1 .. Len(tx.outputs) : tx.intended[o].wallet = Wallet => Sent(tx, o)

\* The RingCT outputs a transaction creates, in order: those of every version 2 transaction
RingCT(tx) ==
  IF tx.version # 2 THEN <<>>
  ELSE [o \in 1 .. Len(tx.outputs) |-> [hash |-> tx.hash, output |-> o, key |-> tx.outputs[o].key]]

BlockTransactions(block) == <<block.miner>> \o block.transactions

BlockRingCT(block) ==
  LET txs == BlockTransactions(block) IN FlattenSeq([i \in 1 .. Len(txs) |-> RingCT(txs[i])])

ChainRingCT == FlattenSeq([b \in 1 .. Len(chain) |-> BlockRingCT(chain[b])])

Mined(tx) == \E b \in 1 .. Len(chain) : \E i \in 1 .. Len(chain[b].transactions) :
               chain[b].transactions[i].hash = tx.hash

\* The index is that of the block's first RingCT output, and there is none without such an output
Mine(miner, txs, hardfork) ==
  LET block == [hardfork |-> hardfork, miner |-> miner, transactions |-> txs,
                hashes |-> [i \in 1 .. Len(txs) |-> txs[i].hash], index |-> None]
      index == earlier + Len(ChainRingCT)
  IN  /\ Len(chain) < MaxBlocks
      /\ \A i, j \in 1 .. Len(txs) : ~Mined(txs[i]) /\ (i # j => txs[i] # txs[j])
      /\ index + Len(BlockRingCT(block)) <= U64Max + 1
      /\ chain' = Append(chain, IF BlockRingCT(block) = <<>> THEN block
                                ELSE [block EXCEPT !.index = Some(index)])
      /\ UNCHANGED <<scanner, earlier, scanned, found>>

-----------------------------------------------------------------------------
(* The wallet *)

Init ==
  /\ scanner \in {NewScanner(Wallet, FALSE), NewScanner(Wallet, TRUE)}
  /\ chain = <<>>
  /\ earlier \in Earlier
  /\ scanned = {}
  /\ found = {}

Register(index) ==
  /\ scanner' = RegisterSubaddress(scanner, index)
  /\ UNCHANGED <<chain, earlier, scanned, found>>

Seen(b) == \E s \in scanned : s.block = b /\ s.whole

\* A scan which fails finds nothing, and is recorded for a whole block. Block b is scanned as chain[b], or without its last
\* transaction: nothing obliges a caller to have checked a ScannableBlock.
Scan(b, block) ==
  LET result == scan(scanner, block)
      whole == block = chain[b]
  IN  /\ scanned' = scanned \cup
           IF whole \/ result.ok
           THEN {[block |-> b, whole |-> whole, ok |-> result.ok,
                  registered |-> DOMAIN scanner.subaddresses]}
           ELSE {}
      /\ found' = found \cup {result.outputs[i] : i \in 1 .. Len(result.outputs)}
      /\ UNCHANGED <<scanner, chain, earlier>>

Incomplete(block) == [block EXCEPT !.transactions = SubSeq(@, 1, Len(@) - 1)]

-----------------------------------------------------------------------------
(* WalletOutput::write and read *)

\* An Option is written with a byte for whether there is one
WriteOption(x, as(_)) == IF x = None THEN <<0>> ELSE <<1, as(x[1])>>

Raw(timelock) == IF timelock.kind = "none" THEN 0 ELSE timelock.at

PaymentIdBytes(id) == [marker |-> IF id.kind = "unencrypted" THEN 0 ELSE 1, id |-> id.id]
Identity(x) == x

WriteOutput(output) ==
  [ids |-> <<output.transaction, output.index_in_transaction, output.index_on_blockchain>>,
   data |-> <<output.key, output.key_offset, output.commitment>>,
   timelock |-> Raw(output.additional_timelock),
   subaddress |-> WriteOption(output.subaddress, Identity),
   payment_id |-> WriteOption(output.payment_id, PaymentIdBytes),
   arbitrary_data |-> output.arbitrary_data]

ReadPaymentId(bytes) ==
  [kind |-> IF bytes.marker = 0 THEN "unencrypted" ELSE "encrypted", id |-> bytes.id]

\* An error for a subaddress which is no index, or for more arbitrary data than is relayed
Reads(bytes) ==
  LET data == bytes.arbitrary_data
  IN  /\ bytes.subaddress[1] = 1 => SubaddressIndex(bytes.subaddress[2]) # None
      /\ Len(data) <= MAX_EXTRA_SIZE_BY_RELAY_RULE
      /\ Total([i \in 1 .. Len(data) |-> data[i].len]) <= MAX_EXTRA_SIZE_BY_RELAY_RULE

ReadOutput(bytes) ==
  [transaction |-> bytes.ids[1],
   index_in_transaction |-> bytes.ids[2],
   index_on_blockchain |-> bytes.ids[3],
   key |-> bytes.data[1],
   key_offset |-> bytes.data[2],
   commitment |-> bytes.data[3],
   additional_timelock |-> ReadTimelock(bytes.timelock),
   subaddress |-> IF bytes.subaddress[1] = 0 THEN None ELSE SubaddressIndex(bytes.subaddress[2]),
   payment_id |-> IF bytes.payment_id[1] = 1 THEN Some(ReadPaymentId(bytes.payment_id[2])) ELSE None,
   arbitrary_data |-> bytes.arbitrary_data]

\* The wallet restarts with what it had written
Restart ==
  /\ found # {}
  /\ found' = {ReadOutput(WriteOutput(output)) : output \in
                 {o \in found : Reads(WriteOutput(o))}}
  /\ UNCHANGED <<scanner, chain, earlier, scanned>>

InBlock == UNION {[1 .. n -> Transactions] : n \in 0 .. MaxInBlock - Len(chain)}

MineNext ==
  /\ Len(chain) < MaxBlocks
  /\ \E miner \in Miners[Len(chain) + 1], txs \in InBlock, hf \in HardForks[Len(chain) + 1] : Mine(miner, txs, hf)

ScanNext ==
  \E b \in 1 .. Len(chain) :
    /\ ~Seen(b)
    /\ \/ Scan(b, chain[b])
       \/ chain[b].transactions # <<>> /\ Scan(b, Incomplete(chain[b]))

Next ==
  \/ MineNext
  \/ \E index \in Indexes : Register(index)
  \/ ScanNext
  \/ Restart

Spec == Init /\ [][Next]_vars

-----------------------------------------------------------------------------
(* Properties *)

\* Every output found is the RingCT output at its index on the chain, of the transaction it says;
\* it is under a key of the wallet, which its offset opens; and its amount is what the chain
\* commits to, whatever its sender claims. No output is found twice.
\* (scan.rs: scan_transaction, scan)
FoundIsOnChain ==
  /\ \A w \in found :
       LET index == w.index_on_blockchain - earlier + 1
       IN  /\ index \in 1 .. Len(ChainRingCT)
           /\ ChainRingCT[index] = [hash |-> w.transaction, output |-> w.index_in_transaction + 1,
                                    key |-> w.key]
           /\ w.key = OneTimeKey(w.key_offset.shared, SpendKey(Wallet, w.key_offset.subaddress))
           /\ \A b \in 1 .. Len(chain) : \A i \in 1 .. Len(BlockTransactions(chain[b])) :
                LET tx == BlockTransactions(chain[b])[i]
                IN  tx.hash = w.transaction => tx.committed[w.index_in_transaction + 1] = w.commitment.amount
  /\ \A v, w \in found : v.index_on_blockchain = w.index_on_blockchain => v = w

\* What the recipient of an output should learn of it
Learns(tx, o, hardfork) ==
  LET for == tx.intended[o]
  IN  [subaddress |-> for.subaddress, amount |-> for.amount, lock |-> tx.unlock_time,
       payment_id |-> IF hardfork >= 12 /\ for.payment_id # None /\ for.payment_id[1].kind = "unencrypted"
                      THEN None ELSE for.payment_id,
       data |-> tx.data]

Learnt(w) ==
  [subaddress |-> w.subaddress, amount |-> w.commitment.amount, lock |-> Raw(w.additional_timelock),
   payment_id |-> w.payment_id, data |-> w.arbitrary_data]

\* An output meant for the wallet, derived as its scanner derives, under a key it had registered
Expected(tx, o, registered) ==
  /\ tx.version = 2
  /\ tx.intended[o].wallet = Wallet
  /\ tx.intended[o].guaranteed = scanner.guaranteed
  /\ SpendKey(Wallet, tx.intended[o].subaddress) \in registered

\* A block whose scan succeeds has all of its outputs for the wallet found, with all they carry, and
\* still kept after any restart. The scan of a whole block of a supported version fails only for a
\* transaction consensus excludes, or for indexes beyond a u64.
\* (scan.rs: scan; extra.rs: keys, payment_id, arbitrary_data; output.rs: write, read)
NothingMissed ==
  \A s \in scanned :
    LET block == chain[s.block]
        txs == BlockTransactions(block)
    IN  /\ s.ok => \A i \in 1 .. Len(txs) : \A o \in 1 .. Len(txs[i].outputs) :
             Expected(txs[i], o, s.registered) =>
               \E w \in found :
                 /\ w.transaction = txs[i].hash
                 /\ w.index_in_transaction = o - 1
                 /\ Learnt(w) = Learns(txs[i], o, block.hardfork)
        /\ (/\ s.whole
            /\ block.hardfork <= 16
            /\ \A i \in 1 .. Len(txs) : txs[i].valid
            /\ earlier + Len(ChainRingCT) <= U64Max) => s.ok

\* Outputs found by a GuaranteedScanner never have the same one-time key, so that spending one never
\* burns another, whichever keys their senders use again.
\* (scan.rs: GuaranteedScanner; lib.rs: uniqueness)
NeverBurnt ==
  scanner.guaranteed =>
    \A v, w \in found : v.key = w.key => v.index_on_blockchain = w.index_on_blockchain

\* The outputs said to be unlocked by a block and a time are those whose unlock time, as the chain
\* has it, is at most the one or the other, by which of them it is; and the outputs without a
\* timelock are unlocked by any.
\* (scan.rs: Timelocked; transaction.rs: Timelock)
LocksKept ==
  \A w \in found : \A b \in 1 .. Len(chain) : \A i \in 1 .. Len(BlockTransactions(chain[b])) :
    LET tx == BlockTransactions(chain[b])[i]
    IN  tx.hash = w.transaction =>
          /\ \A block \in {0, BlockThreshold - 1}, time \in {BlockThreshold - 1, tx.unlock_time} :
               w \in additional_timelock_satisfied_by(found, block, time) <=>
                 tx.unlock_time <= IF tx.unlock_time < BlockThreshold THEN block ELSE time
          /\ w \in not_additionally_locked(found) <=> tx.unlock_time = 0

=============================================================================
