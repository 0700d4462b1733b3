--------------------------- MODULE SignableTransaction --------------------------
(***************************************************************************)
(* Making a transaction (wallet/src/send/): SignableTransaction::new       *)
(* checks what is asked for and decides everything but the signatures;     *)
(* the result may be written and read back; sign turns it into a           *)
(* transaction; and an Eventuality recognises that transaction on chain.   *)
(*                                                                         *)
(* Amounts, sizes and fees are numbers with the code's own formulas, in a  *)
(* u64 of U64Max. Keys are those of WalletKeys.                            *)
(*                                                                         *)
(* An input (OutputWithDecoys) is [key, image, owner, sound, amount, ring, *)
(* offsets, opens]: its one-time key and key image, as numbers in the      *)
(* order of their encodings; the wallet whose spend key, with its offset,  *)
(* opens it; whether the key is neither torsioned nor the identity; the    *)
(* length of its ring, and of its offsets as written; and whether its ring *)
(* has its key and commitment.                                             *)
(*                                                                         *)
(* A payment (InternalPayment) is [kind, to, amount, pair, subaddress], of *)
(* kind "payment", or for change "address", "standard" or "guaranteed".    *)
(***************************************************************************)
EXTENDS InternalScanner, FiniteSets
LOCAL INSTANCE SequencesExt

\* What a payment is to, whatever its kind
Payment(to, amount) ==
  [kind |-> "payment", to |-> to, amount |-> amount, pair |-> "none", subaddress |-> None]
NoAddress == legacy_address("none")

(* Change::fingerprintable, Change::new and Change::guaranteed, as payments *)
AddressChange(to) == [Payment(to, 0) EXCEPT !.kind = "address"]
ViewPairChange(kind, w, subaddress) ==
  [kind |-> kind, to |-> NoAddress, amount |-> 0, pair |-> w, subaddress |-> subaddress]

IsChange(payment) == payment.kind # "payment"
HasViewPair(payment) == payment.kind \in {"standard", "guaranteed"}

\* InternalPayment::address
address(payment) ==
  CASE payment.kind = "standard" /\ payment.subaddress = None -> legacy_address(payment.pair)
    [] payment.kind = "standard" -> subaddress_address(payment.pair, payment.subaddress[1])
    [] payment.kind = "guaranteed" -> guaranteed_address(payment.pair, payment.subaddress, None)
    [] OTHER -> payment.to

Count(seq, Test(_)) == Cardinality({i \in 1 .. Len(seq) : Test(seq[i])})
Least(set) == CHOOSE n \in set : \A m \in set : n <= m

\* The sum over a sequence, by halves: there may be hundreds of inputs
TotalOf(seq, amount(_)) ==
  LET total[n \in 0 .. Len(seq), from \in 1 .. Len(seq) + 1] ==
        CASE n = 0 -> 0
          [] n = 1 -> amount(seq[from])
          [] OTHER -> total[n \div 2, from] + total[n - n \div 2, from + n \div 2]
  IN  total[Len(seq), 1]
InAmount(st) == TotalOf(st.inputs, LAMBDA input : input.amount)
PaymentsAmount(st) == TotalOf(st.payments, LAMBDA p : IF IsChange(p) THEN 0 ELSE p.amount)
HasChange(st) == \E i \in 1 .. Len(st.payments) : IsChange(st.payments[i])

-----------------------------------------------------------------------------
(* Transaction keys *)

\* The inputs' keys and commitments, in the order of the keys
SortedInputs(inputs) ==
  SortSeq([i \in 1 .. Len(inputs) |-> [key |-> inputs[i].key, amount |-> inputs[i].amount]],
          LAMBDA x, y : x.key > y.key)

\* Mistake: the inputs are taken in the order they are in.
SeedInOrder(st) ==
  [ovk |-> st.ovk,
   inputs |-> [i \in 1 .. Len(st.inputs) |-> [key |-> st.inputs[i].key, amount |-> st.inputs[i].amount]]]

\* What the RNGs are seeded with. The n-th scalar drawn from one is TransactionKey(st, n).
Seed(st) == [ovk |-> st.ovk, inputs |-> SortedInputs(st.inputs)]
TransactionKey(st, n) == <<"tx", Seed(st), n>>

has_payments_to_subaddresses(st) ==
  \E i \in 1 .. Len(st.payments) : ~HasViewPair(st.payments[i]) /\ is_subaddress(st.payments[i].to)

\* Mistake: with two outputs, whether the view key for the change is known does not matter.
AdditionalKeysBeyondTwo(st) == has_payments_to_subaddresses(st) /\ Len(st.payments) # 2

should_use_additional_keys(st) ==
  /\ has_payments_to_subaddresses(st)
  /\ ~(Len(st.payments) = 2 /\ \E i \in 1 .. 2 : HasViewPair(st.payments[i]))

FirstPayment(st) == Least({i \in 1 .. Len(st.payments) : ~IsChange(st.payments[i])})

\* The transaction key is over the basepoint, unless it is for one subaddress
tx_key_pub(st) ==
  Mul(TransactionKey(st, 0),
      IF has_payments_to_subaddresses(st) /\ ~should_use_additional_keys(st)
      THEN Generator(st.payments[FirstPayment(st)].to.spend) ELSE BASEPOINT)

additional_keys_pub(st) ==
  IF ~should_use_additional_keys(st) THEN <<>>
  ELSE [i \in 1 .. Len(st.payments) |->
          Mul(TransactionKey(st, i), IF is_subaddress(address(st.payments[i]))
                                     THEN Generator(address(st.payments[i]).spend)
                                     ELSE BASEPOINT)]

\* With the view key, the secret is computed as the recipient would; without it, from the key for
\* the address
ecdh(st, i) ==
  LET payment == st.payments[i]
      n == IF is_subaddress(address(payment)) /\ should_use_additional_keys(st) THEN i ELSE 0
  IN  IF HasViewPair(payment) THEN Mul(View(payment.pair), tx_key_pub(st))
      ELSE Mul(TransactionKey(st, n), address(payment).view)

-----------------------------------------------------------------------------
(* The parts of the transaction *)

\* Output i, for the key images the transaction has
shared_key_derivations(st, images, i) ==
  output_derivations(IF is_guaranteed(address(st.payments[i])) THEN Some(uniqueness(images)) ELSE None,
                     ecdh(st, i), i - 1)

outputs(st, images) ==
  [i \in 1 .. Len(st.payments) |->
     LET d == shared_key_derivations(st, images, i)
     IN  [key |-> OneTimeKey(d.shared_key, address(st.payments[i]).spend),
          amount |-> None,
          view_tag |-> IF st.rct_type = "ClsagBulletproofPlus" THEN Some(d.view_tag) ELSE None]]

\* The nonce for the payment ID: that of the address with one, or a dummy (zero) for the first
\* payment of two outputs
IdNonce(st) ==
  LET with == {i \in 1 .. Len(st.payments) : address(st.payments[i]).payment_id # None}
      i == IF with = {} THEN FirstPayment(st) ELSE Least(with)
      id == IF with = {} THEN {} ELSE address(st.payments[i]).payment_id[1]
  IN  IF with = {} /\ Len(st.payments) # 2 THEN <<>>
      ELSE <<EncryptedId(Xor(id, payment_id_xor(ecdh(st, i))))>>

extra(st) ==
  LET nonces == IdNonce(st) \o [i \in 1 .. Len(st.data) |-> ArbitraryData(st.data[i])]
  IN  WriteExtra(NewExtra(tx_key_pub(st), additional_keys_pub(st))
                   \o [i \in 1 .. Len(nonces) |-> Nonce(nonces[i])])

inputs(st, images) ==
  [i \in 1 .. Len(st.inputs) |->
     [gen |-> FALSE, id |-> images[i].id, ring |-> st.inputs[i].ring, offsets |-> st.inputs[i].offsets]]

-----------------------------------------------------------------------------
(* Weight (Transaction::weight, and the sizes its serialisation has) *)

MAX_BULLETPROOF_COMMITMENTS == 16

RingLength(rct_type) == IF rct_type = "ClsagBulletproof" THEN 11 ELSE 16

PaddedLog2(n) == Least({k \in 0 .. n : 2 ^ k >= n})

Fields(rct_type) == IF rct_type = "ClsagBulletproof" THEN 9 ELSE 6

BulletproofSize(rct_type, n) == (Fields(rct_type) + 2 * (6 + PaddedLog2(n))) * 32 + 2

calculate_clawback(rct_type, n) ==
  LET log2 == PaddedLog2(Least({n, MAX_BULLETPROOF_COMMITMENTS}))
      padded == 2 ^ log2
      base == ((Fields(rct_type) + 2 * 7) * 32) \div 2
      size == (Fields(rct_type) + 2 * (6 + log2)) * 32
  IN  IF padded > 2 THEN ((base * padded - size) * 4) \div 5 ELSE 0

InputSize(input) == 1 + VarIntLen(0) + VarIntLen(input.ring) + input.offsets + 32
OutputSize(output) == VarIntLen(0) + 1 + 32 + Len(output.view_tag)
ClsagSize(ring) == 32 * ring + 32 + 32

PrefixSize(tx) ==
  VarIntLen(tx.timelock.at)
    + VarIntLen(Len(tx.inputs)) + TotalOf(tx.inputs, InputSize)
    + VarIntLen(Len(tx.outputs)) + TotalOf(tx.outputs, OutputSize)
    + VarIntLen(ExtraSize(tx.extra)) + ExtraSize(tx.extra)

\* A type, the fee, an encrypted amount and a commitment for each output
BaseSize(proofs, outs) == 1 + VarIntLen(proofs.fee) + 8 * outs + 32 * outs

PrunableSize(proofs, outs) ==
  1 + BulletproofSize(proofs.rct_type, outs) + TotalOf(proofs.clsags, ClsagSize)
    + 32 * Len(proofs.pseudo_outs)

Weight(tx) ==
  LET proofs == tx.proofs[1]
      outs == Len(tx.outputs)
  IN  VarIntLen(2) + PrefixSize(tx) + BaseSize(proofs, outs) + PrunableSize(proofs, outs)
        + calculate_clawback(proofs.rct_type, outs)

\* FeeRate::calculate_fee_from_weight
calculate_fee_from_weight(rate, weight) ==
  ((rate.per_weight * weight + rate.mask - 1) \div rate.mask) * rate.mask

\* FeeRate::new
NewFeeRate(per_weight, mask) ==
  IF per_weight = 0 \/ mask = 0 THEN None ELSE Some([per_weight |-> per_weight, mask |-> mask])

MULTIPLIERS == <<1, 5, 25, 1000>>

\* MoneroDaemon::fee_rate, for a response [ok, fees, fee, mask]: a daemon lists the rates by priority,
\* or one to be multiplied. A priority of zero is the lowest of those listed, and the second of the
\* multipliers.
UnvalidatedFeeRate(priority, res) ==
  LET listed == IF priority >= 4 THEN 4 ELSE IF priority = 0 THEN 1 ELSE priority
      multiplied == IF priority = 0 THEN 2 ELSE priority
  IN  CASE ~res.ok -> None
        [] res.ok /\ res.fees # None ->
             IF listed > Len(res.fees[1]) THEN None ELSE NewFeeRate(res.fees[1][listed], res.mask)
        [] OTHER ->
             IF multiplied > 4 \/ res.fee * MULTIPLIERS[multiplied] > U64Max THEN None
             ELSE NewFeeRate(res.fee * MULTIPLIERS[multiplied], res.mask)

\* ProvidesFeeRates::fee_rate
fee_rate(priority, max_per_weight, res) ==
  LET rate == UnvalidatedFeeRate(priority, res)
  IN  IF rate # None /\ rate[1].per_weight > max_per_weight THEN None ELSE rate

NoTimelock == [kind |-> "none", at |-> 0]

\* A transaction of the size the signed one will have
Shim(st) ==
  LET images == [i \in 1 .. Len(st.inputs) |-> [gen |-> FALSE, id |-> 0]]
  IN  [hash |-> "shim", version |-> 2, timelock |-> NoTimelock, inputs |-> inputs(st, images),
       outputs |-> outputs(st, images), extra |-> extra(st),
       proofs |-> Some([rct_type |-> st.rct_type, fee |-> 0,
                        clsags |-> [i \in 1 .. Len(st.inputs) |-> RingLength(st.rct_type)],
                        pseudo_outs |-> [i \in 1 .. Len(st.inputs) |-> 0]])]

SaturatingU64(n) == IF n > U64Max THEN U64Max ELSE n

\* Mistake: the length of the fee is taken to be one.
FeeOfOneByte(st) ==
  LET weight == Weight(Shim(st))
  IN  [weight |-> weight, fee |-> calculate_fee_from_weight(st.fee_rate, weight)]

\* The weight is base and the length of the fee, which is the first one the fee for it fits in
WithFee(rate, base) ==
  LET fee(len) == calculate_fee_from_weight(rate, base + len)
      len == Least({l \in 1 .. VarIntLen(U64Max) : VarIntLen(SaturatingU64(fee(l))) <= l})
  IN  [weight |-> base + len, fee |-> fee(len)]

weight_and_necessary_fee(st) == WithFee(st.fee_rate, Weight(Shim(st)) - 1)

-----------------------------------------------------------------------------
(* validate: one conjunct for each error, in the order they are checked *)

MAX_TX_SIZE == 300000 \div 2 - 600

\* Mistake: the fee is left out.
PaymentsFit(st, fee) == InAmount(st) <= U64Max /\ PaymentsAmount(st) <= InAmount(st)

\* Representable, and enough
AmountsFit(st, fee) ==
  LET out == PaymentsAmount(st) + fee
  IN  InAmount(st) <= U64Max /\ out <= U64Max /\ out <= InAmount(st)

Affordable(st, necessary) == AmountsFit(st, necessary.fee) /\ necessary.weight < MAX_TX_SIZE

validate(st) ==
  /\ st.rct_type \in {"ClsagBulletproof", "ClsagBulletproofPlus"}
  /\ st.inputs # <<>>
  /\ Cardinality({st.inputs[i].key : i \in 1 .. Len(st.inputs)}) = Len(st.inputs)
  /\ \A i \in 1 .. Len(st.inputs) :
       st.inputs[i].sound /\ st.inputs[i].ring = RingLength(st.rct_type)
  /\ \E i \in 1 .. Len(st.payments) : ~IsChange(st.payments[i])
  /\ Len(st.payments) >= 2
  /\ Count(st.payments, IsChange) <= 1
  /\ Count(st.payments, LAMBDA p : address(p).payment_id # None) <= 1
  /\ Len(st.payments) <= MAX_BULLETPROOF_COMMITMENTS
  /\ \A i \in 1 .. Len(st.data) : st.data[i].len <= MAX_ARBITRARY_DATA_SIZE
  /\ ExtraSize(extra(st)) <= MAX_EXTRA_SIZE_BY_RELAY_RULE
  /\ Affordable(st, weight_and_necessary_fee(st))

-----------------------------------------------------------------------------
(* The amounts, and the transaction *)

PaidAmount(st, i) ==
  IF IsChange(st.payments[i])
  THEN InAmount(st) - (PaymentsAmount(st) + weight_and_necessary_fee(st).fee)
  ELSE st.payments[i].amount

commitments(st, images) ==
  [i \in 1 .. Len(st.payments) |->
     [mask |-> commitment_mask(shared_key_derivations(st, images, i)), amount |-> PaidAmount(st, i)]]

encrypted_amounts(st, images) ==
  [i \in 1 .. Len(st.payments) |->
     compact_amount_encryption(shared_key_derivations(st, images, i), PaidAmount(st, i))]

\* Without a change output, what is left of the inputs is the fee
Fee(st) ==
  IF HasChange(st) THEN weight_and_necessary_fee(st).fee ELSE InAmount(st) - PaymentsAmount(st)

\* The inputs, sorted by their key images
with_key_images(st) ==
  [st EXCEPT !.inputs = SortSeq(@, LAMBDA x, y : x.image > y.image)]

Images(st) == [i \in 1 .. Len(st.inputs) |-> [gen |-> FALSE, id |-> st.inputs[i].image]]

\* st is with its key images
transaction_without_signatures(st) ==
  [hash |-> "tx", version |-> 2, timelock |-> NoTimelock, inputs |-> inputs(st, Images(st)),
   outputs |-> outputs(st, Images(st)), extra |-> extra(st),
   proofs |-> Some([rct_type |-> st.rct_type, fee |-> Fee(st),
                    encrypted_amounts |-> encrypted_amounts(st, Images(st)),
                    commitments |-> commitments(st, Images(st)),
                    clsags |-> <<>>, pseudo_outs |-> <<>>])]

\* Clsag::sign: the pseudo-out of each input has a random mask, but for the last, whose mask makes
\* their sum that of the outputs' masks. A sum of masks is those added and those subtracted.
PseudoOut(st, outs, i) ==
  LET random == 1 .. Len(st.inputs) - 1
  IN  [amount |-> st.inputs[i].amount,
       plus |-> IF i \in random THEN {<<"random", i>>} ELSE {outs[o].mask : o \in DOMAIN outs},
       minus |-> IF i \in random THEN {} ELSE {<<"random", j>> : j \in random}]

\* The signatures, of st with its key images, for the transaction without them
Signed(st, unsigned) ==
  LET n == Len(st.inputs)
  IN  [unsigned EXCEPT
         !.proofs[1].clsags = [i \in 1 .. n |-> st.inputs[i].ring],
         !.proofs[1].pseudo_outs = [i \in 1 .. n |-> PseudoOut(st, unsigned.proofs[1].commitments, i)]]

\* sign, with the spend key of wallet w: None for an error
sign(st, w) ==
  LET sorted == with_key_images(st)
  IN  IF \E i \in 1 .. Len(st.inputs) : st.inputs[i].owner # w \/ ~st.inputs[i].opens THEN None
      ELSE Some(Signed(sorted, transaction_without_signatures(sorted)))

-----------------------------------------------------------------------------
(* Eventuality::matches *)

matches(st, tx) ==
  /\ extra(st) = tx.extra
  /\ tx.timelock = NoTimelock
  /\ Len(tx.inputs) = Len(st.inputs)
  /\ \A i \in 1 .. Len(tx.inputs) : ~tx.inputs[i].gen
  /\ outputs(st, tx.inputs) = tx.outputs
  /\ tx.proofs # None
  /\ commitments(st, tx.inputs) = tx.proofs[1].commitments
  /\ encrypted_amounts(st, tx.inputs) = tx.proofs[1].encrypted_amounts

=============================================================================
