-------------------------------- MODULE MCScanner -------------------------------
(***************************************************************************)
(* Scanner for one wallet with one subaddress, over transactions of        *)
(* honest, careless and lying senders.                                     *)
(***************************************************************************)
EXTENDS Scanner

\* A destination: [wallet, subaddress, guaranteed, amount, payment_id]
To(w, sub, guaranteed, amount, id) ==
  [wallet |-> w, subaddress |-> sub, guaranteed |-> guaranteed, amount |-> amount, payment_id |-> id]
Other(amount) == To("bob", None, FALSE, amount, None)
Id == [kind |-> "encrypted", id |-> {<<"id", 7>>}]
OldId == [kind |-> "unencrypted", id |-> {<<"id", 9>>}]
Piece == [value |-> {<<"data", 1>>}, len |-> 254]

Scalar(r, n) == <<"tx", r, n>>

\* The secret the sender shares with a destination, with tx key r, or an additional key for output o
Secret(r, to, o, additional) ==
  IF to.subaddress = None THEN Mul(Scalar(r, 0), MainKeys(to.wallet).view)
  ELSE Mul(Scalar(r, IF additional THEN o ELSE 0), subaddress_keys(to.wallet, to.subaddress).view)

Derived(inputs, r, to, o, additional) ==
  output_derivations(IF to.guaranteed THEN Some(uniqueness(inputs)) ELSE None,
                     Secret(r, to, o, additional), o - 1)

PubFor(r, to, o) ==
  Mul(Scalar(r, o), IF to.subaddress = None THEN BASEPOINT
                    ELSE Generator(SpendKey(to.wallet, to.subaddress)))

\* The nonces which carry the payment ID of the first destination with one
IdNonce(r, tos) ==
  LET with == {o \in 1 .. Len(tos) : tos[o].payment_id # None}
      o == CHOOSE o \in with : TRUE
      id == tos[o].payment_id[1]
  IN  IF with = {} THEN <<>>
      ELSE IF id.kind = "unencrypted" THEN <<Nonce(UnencryptedId(id.id))>>
      ELSE <<Nonce(EncryptedId(Xor(id.id, payment_id_xor(Secret(r, tos[o], o, FALSE)))))>>

\* A transaction as a sender who follows the protocol makes it
Make(hash, images, r, tos, additional, data, unlock) ==
  LET inputs == [i \in 1 .. Len(images) |-> [gen |-> FALSE, id |-> images[i]]]
      d(o) == Derived(inputs, r, tos[o], o, additional)
      outs == 1 .. Len(tos)
  IN  [hash |-> hash, version |-> 2, timelock |-> ReadTimelock(unlock), inputs |-> inputs,
       outputs |-> [o \in outs |-> [key |-> OneTimeKey(d(o).shared_key,
                                                       SpendKey(tos[o].wallet, tos[o].subaddress)),
                                    amount |-> None, view_tag |-> Some(d(o).view_tag)]],
       extra |-> NewExtra(PubFor(r, Other(0), 0),
                          IF additional THEN [o \in outs |-> PubFor(r, tos[o], o)] ELSE <<>>)
                   \o IdNonce(r, tos) \o [i \in 1 .. Len(data) |-> Nonce(ArbitraryData(data[i]))],
       proofs |-> Some([encrypted_amounts |-> [o \in outs |-> compact_amount_encryption(d(o), tos[o].amount)],
                        commitments |-> [o \in outs |-> [mask |-> commitment_mask(d(o)),
                                                         amount |-> tos[o].amount]]]),
       unlock_time |-> unlock, valid |-> TRUE, intended |-> tos, data |-> data,
       scalars |-> [o \in outs |-> Scalar(r, IF additional /\ tos[o].subaddress # None THEN o ELSE 0)],
       committed |-> [o \in outs |-> tos[o].amount]]

Paid(hash, image, guaranteed) ==
  Make(hash, <<image>>, 1, <<To("alice", None, guaranteed, 5, Some(Id)), Other(1)>>, FALSE, <<>>, 0)

\* To a subaddress, with additional keys, as many pieces of data as are relayed and one more
ToSubaddress ==
  [Make("sub", <<3, 4>>, 3, <<To("alice", Some(1), FALSE, 6, None), Other(1),
                              To("alice", Some(1), TRUE, 7, None)>>, TRUE,
        <<Piece, Piece, Piece, Piece>>, 40) EXCEPT !.data = SubSeq(@, 1, 3)]

\* A key which does not decompress, and the right one twice; an amount and a mask in full
Doubled ==
  LET tx == Make("doubled", <<5>>, 4, <<To("alice", None, FALSE, 8, Some(OldId))>>, FALSE, <<>>, 600)
      mask == <<"given", 4>>
  IN  [tx EXCEPT !.extra = <<PublicKey(Undecodable), @[1]>> \o @ \o <<Bytes("Padding", 3)>>,
                 !.outputs[1].view_tag = None,
                 !.proofs[1].encrypted_amounts[1].form = "original",
                 !.proofs[1].encrypted_amounts[1].mask = mask,
                 !.proofs[1].commitments[1].mask = mask]

\* More is claimed than is committed to
Lies ==
  LET tx == Make("lies", <<6>>, 5, <<To("alice", None, FALSE, 9, None), Other(1)>>, FALSE, <<>>, 0)
  IN  [tx EXCEPT !.proofs[1].commitments[1].amount = 1, !.committed[1] = 1,
                 !.intended[1] = Other(1)]

\* Outputs of version 1 are not RingCT outputs
Old ==
  LET tx == Make("old", <<7>>, 6, <<To("alice", None, FALSE, 3, None), Other(1)>>, FALSE, <<>>, 0)
  IN  [tx EXCEPT !.version = 1, !.proofs = None, !.outputs[1].amount = Some(3),
                 !.outputs[2].amount = Some(1)]

\* Consensus excludes an output without an encrypted amount
Broken ==
  [Make("broken", <<8>>, 7, <<To("alice", None, FALSE, 3, None)>>, FALSE, <<>>, 0) EXCEPT
     !.proofs[1].encrypted_amounts = <<>>, !.valid = FALSE]

\* Keys which are no keys of anyone, and a field no one can read before the transaction key
Odd ==
  LET tx == Make("odd", <<9>>, 8, <<Other(1), Other(1), To("alice", None, FALSE, 2, None)>>, FALSE, <<>>, 0)
  IN  [tx EXCEPT !.outputs[1].key = OtherKey("identity"), !.outputs[2].key = OtherKey("undecodable"),
                 !.extra = @ \o <<Bytes("unknown", 1), PublicKey(BASEPOINT)>>]

MCTransactions ==
  {Paid("paid", 1, FALSE), Paid("again", 2, FALSE), Paid("gpaid", 11, TRUE), Paid("gagain", 12, TRUE),
   ToSubaddress, Doubled, Lies, Old, Broken, Odd}

\* A miner's transaction has explicit amounts and no proofs, and its block's height as its input
Miner(version, height) ==
  LET gen == <<[gen |-> TRUE, id |-> height]>>
      tos == <<To("alice", None, FALSE, 50, None), To("alice", None, TRUE, 50, None)>>
      tx == Make(IF height = 1 THEN "miner1" ELSE "miner2", <<>>, 9, tos, FALSE, <<>>, height + 60)
      keyed(o) == Derived(gen, 9, tos[o], o, FALSE)
  IN  [tx EXCEPT !.version = version, !.inputs = gen, !.proofs = None,
                 !.outputs = [o \in 1 .. 2 |->
                   [key |-> OneTimeKey(keyed(o).shared_key, SpendKey("alice", None)),
                    amount |-> Some(50), view_tag |-> Some(keyed(o).view_tag)]]]

MCMiners == <<{Miner(1, 1), Miner(2, 1)}, {Miner(2, 2)}>>
MCHardForks == <<{11, 17}, {12}>>

=============================================================================
