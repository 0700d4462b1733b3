--------------------------------- MODULE Sending --------------------------------
(***************************************************************************)
(* The life of a SignableTransaction: a fee rate is asked of a daemon; it  *)
(* is made from a request with that rate, or refused; written and read     *)
(* back any number of times, as by a signer which restarts; signed; and    *)
(* its transaction looked for on chain by the Eventuality of it, or of     *)
(* another SignableTransaction of the wallet.                              *)
(*                                                                         *)
(* A request is a SignableTransaction with its change apart, an Option.    *)
(* new shuffles the payments by an order drawn from an RNG, which is the   *)
(* same for the same seed and number of payments, and any otherwise.       *)
(***************************************************************************)
EXTENDS SignableTransaction

CONSTANTS
  Quotes,     \* the fee rates asked for and the daemon's responses: [priority, max_per_weight, res]
  Requests,   \* what new may be called with
  Rivals(_),  \* for each request, what new may be called with for another SignableTransaction
  Signers,    \* the wallets whose spend key may be given to sign
  Wallets,    \* the wallets which scan
  Indexes,    \* the subaddresses they have registered
  MaxShuffled \* bound: the most payments put in every order; more are only rotated

VARIABLES
  quote,      \* the one the request's fee rate is from
  request,    \* what was asked for
  order,      \* the order the payments were shuffled to
  intent,     \* the SignableTransaction, then its Eventuality
  rival,      \* another one
  tx,         \* the signed transaction
  pc          \* "quote", "new", "refused", "ready", "lost", "failed", "signed" or "watched"

vars == <<quote, request, order, intent, rival, tx, pc>>

Nothing == [ovk |-> "none"]

-----------------------------------------------------------------------------
(* fee_rate *)

Rate(q) == fee_rate(q.priority, q.max_per_weight, q.res)

GetFeeRate(q) ==
  /\ pc = "quote"
  /\ quote' = q
  /\ pc' = IF Rate(q) = None THEN "refused" ELSE "new"
  /\ UNCHANGED <<request, order, intent, rival, tx>>

-----------------------------------------------------------------------------
(* new *)

Formed(r) ==
  [rct_type |-> r.rct_type, ovk |-> r.ovk, inputs |-> r.inputs, payments |-> r.payments \o r.change,
   data |-> r.data, fee_rate |-> r.fee_rate]

Orders(n) ==
  IF n <= MaxShuffled THEN {p \in [1 .. n -> 1 .. n] : \A i, j \in 1 .. n : i # j => p[i] # p[j]}
  ELSE {[i \in 1 .. n |-> ((i + k) % n) + 1] : k \in {0, n - 1}}

Shuffled(st, p) == [st EXCEPT !.payments = [i \in 1 .. Len(@) |-> @[p[i]]]]

New(r) ==
  /\ pc = "new" /\ Rate(quote) = Some(r.fee_rate)
  /\ validate(Formed(r))
  /\ \E p \in Orders(Len(Formed(r).payments)) :
       order' = p /\ intent' = Shuffled(Formed(r), p)
  /\ request' = r
  /\ pc' = "ready"
  /\ UNCHANGED <<quote, rival, tx>>

Refuse(r) ==
  /\ pc = "new" /\ Rate(quote) = Some(r.fee_rate)
  /\ ~validate(Formed(r))
  /\ request' = r
  /\ pc' = "refused"
  /\ UNCHANGED <<quote, order, intent, rival, tx>>

-----------------------------------------------------------------------------
(* write and read *)

\* The tag of a payment is that of its kind. A view pair's change has the index (0, 0) for none.
Kinds == <<"payment", "address", "standard", "guaranteed">>

WritePayment(p) ==
  [tag |-> (CHOOSE k \in 1 .. 4 : Kinds[k] = p.kind) - 1,
   address |-> IF HasViewPair(p) THEN <<>> ELSE <<WriteAddress(p.to)>>,
   pair |-> p.pair,
   index |-> IF p.subaddress = None THEN 0 ELSE p.subaddress[1],
   amount |-> p.amount]

PaymentReads(bytes) ==
  bytes.tag \in 0 .. 3 /\ (bytes.tag \in {0, 1} => AddressReads(bytes.address[1]))

ReadPayment(bytes) ==
  [kind |-> Kinds[bytes.tag + 1],
   to |-> IF bytes.tag \in {0, 1} THEN ReadAddress(bytes.address[1]) ELSE NoAddress,
   amount |-> IF bytes.tag = 0 THEN bytes.amount ELSE 0,
   pair |-> bytes.pair,
   subaddress |-> IF bytes.tag \in {2, 3} THEN SubaddressIndex(bytes.index) ELSE None]

WriteIntent(st) == [st EXCEPT !.payments = [i \in 1 .. Len(@) |-> WritePayment(@[i])]]

\* Nothing where read is an error: for a payment, the bounds of the lengths, the fee rate or validate
ReadIntent(bytes) ==
  LET st == [bytes EXCEPT !.payments = [i \in 1 .. Len(@) |-> ReadPayment(@[i])]]
  IN  IF /\ Len(bytes.payments) <= MAX_BULLETPROOF_COMMITMENTS
         /\ \A i \in 1 .. Len(bytes.payments) : PaymentReads(bytes.payments[i])
         /\ Len(bytes.data) <= MAX_EXTRA_SIZE_BY_RELAY_RULE
         /\ \A i \in 1 .. Len(bytes.data) : bytes.data[i].len <= MAX_ARBITRARY_DATA_SIZE
         /\ bytes.fee_rate.per_weight # 0 /\ bytes.fee_rate.mask # 0
         /\ validate(st)
      THEN st ELSE Nothing

Reload ==
  /\ pc \in {"ready", "signed"}
  /\ intent' = ReadIntent(WriteIntent(intent))
  /\ pc' = IF intent' = Nothing THEN "lost" ELSE pc
  /\ UNCHANGED <<quote, request, order, rival, tx>>

-----------------------------------------------------------------------------
(* sign, and another SignableTransaction *)

Sign(w) ==
  /\ pc = "ready"
  /\ tx' = sign(intent, w)
  /\ pc' = IF tx' = None THEN "failed" ELSE "signed"
  /\ UNCHANGED <<quote, request, order, intent, rival>>

Watch(r) ==
  /\ pc = "signed"
  /\ validate(Formed(r))
  /\ \E p \in Orders(Len(Formed(r).payments)) :
       /\ Seed(r) = Seed(request) /\ Len(p) = Len(order) => p = order
       /\ rival' = Shuffled(Formed(r), p)
  /\ pc' = "watched"
  /\ UNCHANGED <<quote, request, order, intent, tx>>

Init ==
  /\ quote = Nothing /\ request = Nothing /\ order = <<>>
  /\ intent = Nothing /\ rival = Nothing /\ tx = None
  /\ pc = "quote"

Next ==
  \/ \E q \in Quotes : GetFeeRate(q)
  \/ \E r \in Requests : New(r)
  \/ \E r \in Requests : Refuse(r)
  \/ Reload
  \/ \E w \in Signers : Sign(w)
  \/ pc = "signed" /\ \E r \in Rivals(request) : Watch(r)

Spec == Init /\ [][Next]_vars

-----------------------------------------------------------------------------
(* Properties *)

\* What a wallet finds of the transaction, scanning with or without guarantees
Scanned(w, guaranteed) ==
  LET new == NewScanner(w, guaranteed)
  IN  scan_transaction(
        [new EXCEPT !.subaddresses = [k \in {SpendKey(w, s) : s \in {None} \cup {Some(i) : i \in Indexes}} |->
                                        SubaddressIndex(k[2])]], 0, tx[1])

\* What a payment of the request is for wallet w to find. The payment ID is the address', if any.
Asked(i) ==
  LET p == Formed(request).payments[i]
  IN  [wallet |-> address(p).spend[1], guaranteed |-> is_guaranteed(address(p)),
       subaddress |-> SubaddressIndex(address(p).spend[2]),
       amount |-> IF IsChange(p)
                  THEN InAmount(request) - PaymentsAmount(request)
                       - calculate_fee_from_weight(request.fee_rate, Weight(tx[1]))
                  ELSE p.amount,
       id |-> IF address(p).payment_id = None THEN {} ELSE address(p).payment_id[1]]

\* The payment IDs of the request: any other one learnt is as good as none
AskedIds == {Asked(i).id : i \in 1 .. Len(order)}

\* Every payment is found by the wallet it is to, with its amount, to its subaddress, with its payment
\* ID and the data, and so is the change, with what the fee leaves of the inputs; nobody finds
\* anything else, and nobody else learns the payment ID.
\* (send/tx_keys.rs: ecdhs, transaction_keys_pub; send/tx.rs: outputs, extra; scan.rs)
PaymentsReceived ==
  pc = "signed" =>
    \A w \in Wallets, g \in BOOLEAN :
      LET res == Scanned(w, g)
          found(o) == [wallet |-> w, guaranteed |-> g, subaddress |-> res.outputs[o].subaddress,
                       amount |-> res.outputs[o].commitment.amount,
                       id |-> IF res.outputs[o].payment_id # None /\ res.outputs[o].payment_id[1].id \in AskedIds
                              THEN res.outputs[o].payment_id[1].id ELSE {}]
          asked == {i \in 1 .. Len(order) : Asked(i).wallet = w /\ Asked(i).guaranteed = g}
      IN  /\ res.ok
          /\ Len(res.outputs) = Cardinality(asked)
          /\ \A i \in asked :
               Cardinality({o \in DOMAIN res.outputs : found(o) = Asked(i)})
                 = Cardinality({j \in asked : Asked(j) = Asked(i)})
          /\ \A o \in DOMAIN res.outputs : res.outputs[o].arbitrary_data = request.data

\* The inputs are the outputs and the fee, in amounts, each of which is a u64, and in masks; and the
\* commitment each input is signed against is for its own amount.
\* (send/mod.rs: validate, sign; send/tx.rs: transaction_without_signatures; clsag/src/lib.rs: sign)
Balanced ==
  pc = "signed" =>
    LET proofs == tx[1].proofs[1]
        outs == proofs.commitments
        pseudo == proofs.pseudo_outs
        plus == UNION {pseudo[i].plus : i \in DOMAIN pseudo}
        minus == UNION {pseudo[i].minus : i \in DOMAIN pseudo}
    IN  /\ TotalOf(pseudo, LAMBDA p : p.amount) = TotalOf(outs, LAMBDA c : c.amount) + proofs.fee
        /\ \A n \in {outs[o].amount : o \in DOMAIN outs} \cup {proofs.fee} : n \in 0 .. U64Max
        /\ minus \subseteq plus /\ plus \ minus = {outs[o].mask : o \in DOMAIN outs}
        /\ \A i \in DOMAIN pseudo : \E j \in DOMAIN request.inputs :
             /\ request.inputs[j].image = tx[1].inputs[i].id
             /\ request.inputs[j].amount = pseudo[i].amount
        /\ {tx[1].inputs[i].id : i \in DOMAIN pseudo} = {request.inputs[j].image : j \in DOMAIN request.inputs}

\* With change, the fee is the one the rate asks for the transaction's own weight, the length of the
\* fee included: whatever the daemon answers, not more than max_per_weight allows, but for the
\* rounding. Without change, it is at least the one necessary.
\* (send/tx.rs: weight_and_necessary_fee; provides_fee_rates.rs: fee_rate)
FeeIsOfWeight ==
  pc = "signed" =>
    LET fee == tx[1].proofs[1].fee
    IN  IF request.change # None
        THEN /\ fee = calculate_fee_from_weight(request.fee_rate, Weight(tx[1]))
             /\ fee < quote.max_per_weight * Weight(tx[1]) + request.fee_rate.mask
             /\ Weight(tx[1]) < MAX_TX_SIZE
        ELSE fee >= weight_and_necessary_fee(Formed(request)).fee

\* Whether they spend the same outputs, with the same outgoing view key
Conflict(r, s) ==
  /\ r.ovk = s.ovk
  /\ {r.inputs[i].key : i \in DOMAIN r.inputs} = {s.inputs[i].key : i \in DOMAIN s.inputs}

\* What was written can be read. A transaction matches its own Eventuality, whether read back or made
\* anew with the inputs in another order, and no Eventuality of a SignableTransaction it could be on
\* chain together with, or which pays anything else.
\* (send/eventuality.rs: matches; send/mod.rs: write, read; send/tx_keys.rs: seeded_rng)
EventualityMatches ==
  /\ pc # "lost"
  /\ pc = "signed" => matches(intent, tx[1])
  /\ pc = "watched" =>
       /\ matches(rival, tx[1]) =>
            Conflict(rival, intent) /\ rival.payments = intent.payments /\ rival.data = intent.data
       /\ (Conflict(rival, intent) /\ [rival EXCEPT !.inputs = intent.inputs] = intent)
            => matches(rival, tx[1])

=============================================================================
