-------------------------------- MODULE TxExtra ---------------------------------
(***************************************************************************)
(* The extra of a transaction (wallet/src/extra.rs): the keys its outputs  *)
(* were derived with, the payment ID and arbitrary data.                   *)
(*                                                                         *)
(* A field is [tag, keys, nonce, len], of which its tag uses a part, and a *)
(* nonce [kind, value, len] with its length in bytes, the marker included. *)
(* The bytes of an extra are the sequence of the fields they spell, where  *)
(* the tag "unknown" stands for bytes ExtraField::read fails on.           *)
(***************************************************************************)
EXTENDS WalletKeys, Orders, SequencesExt

MAX_TX_EXTRA_NONCE_SIZE == 255
MAX_ARBITRARY_DATA_SIZE == MAX_TX_EXTRA_NONCE_SIZE - 1
MAX_EXTRA_SIZE_BY_RELAY_RULE == 1060

\* The bytes of a number as a VarInt, 7 bits each; numbers here stay below 2^28
VarIntLen(n) == 1 + Cardinality({k \in 1 .. 3 : n >= 128 ^ k})

EncryptedId(id) == [kind |-> "encrypted", value |-> id, len |-> 9]
UnencryptedId(id) == [kind |-> "unencrypted", value |-> id, len |-> 33]
ArbitraryData(part) == [kind |-> "arbitrary", value |-> part.value, len |-> 1 + part.len]
NoNonce == [kind |-> "none", value |-> {}, len |-> 0]

PublicKey(key) == [tag |-> "PublicKey", keys |-> <<key>>, nonce |-> NoNonce, len |-> 32]
PublicKeys(keys) == [tag |-> "PublicKeys", keys |-> keys, nonce |-> NoNonce, len |-> 32 * Len(keys)]
Nonce(nonce) == [tag |-> "Nonce", keys |-> <<>>, nonce |-> nonce, len |-> nonce.len]
Bytes(tag, len) == [tag |-> tag, keys |-> <<>>, nonce |-> NoNonce, len |-> len]

-----------------------------------------------------------------------------
(* ExtraField *)

FieldSize(field) ==
  CASE field.tag = "Padding" -> field.len
    [] field.tag = "PublicKey" -> 1 + field.len
    [] field.tag = "PublicKeys" -> 1 + VarIntLen(Len(field.keys)) + field.len
    [] OTHER -> 1 + VarIntLen(field.len) + field.len

\* Padding has to reach the end of the extra
FieldReads(field, last) ==
  CASE field.tag = "Padding" -> last /\ field.len <= 255
    [] field.tag = "Nonce" -> field.len <= MAX_TX_EXTRA_NONCE_SIZE
    [] field.tag = "unknown" -> FALSE
    [] OTHER -> TRUE

-----------------------------------------------------------------------------
(* Extra *)

\* The fields up to the first which fails to read
ReadExtra(bytes) ==
  LET reads(i) == FieldReads(bytes[i], i = Len(bytes))
      read == {n \in 0 .. Len(bytes) : \A i \in 1 .. n : reads(i)}
  IN  SubSeq(bytes, 1, CHOOSE n \in read : \A m \in read : m <= n)

SORT_ORDER ==
  <<"PublicKey", "PublicKeys", "Nonce", "MergeMining", "MysteriousMinergate", "Padding">>

OfTag(extra, tag) == Elements(extra, {i \in 1 .. Len(extra) : extra[i].tag = tag})

\* Extra::write: field by field, in Monero's order of tags
WriteExtra(extra) == FlattenSeq([n \in 1 .. Len(SORT_ORDER) |-> OfTag(extra, SORT_ORDER[n])])

ExtraSize(bytes) == Total([n \in 1 .. Len(bytes) |-> FieldSize(bytes[n])])

\* A key which does not decompress is taken to be the identity
KeyOrIdentity(key) == IF Decompress(key) = None THEN IDENTITY ELSE key

TxKeys(extra) ==
  LET fields == OfTag(extra, "PublicKey")
  IN  [i \in 1 .. Len(fields) |-> KeyOrIdentity(fields[i].keys[1])]

\* Only the first set of additional keys is used
AdditionalKeys(extra) ==
  LET fields == OfTag(extra, "PublicKeys")
  IN  IF fields = <<>> THEN <<>>
      ELSE [i \in 1 .. Len(fields[1].keys) |-> KeyOrIdentity(fields[1].keys[i])]

\* Mistake: the additional keys are not tried.
KeysWithoutAdditional(extra, o) == TxKeys(extra)

\* The keys to try for output o: every transaction key, then the additional key for the output.
\* There are none without a transaction key.
KeysFor(extra, o) ==
  LET additional == AdditionalKeys(extra)
  IN  IF TxKeys(extra) = <<>> THEN <<>>
      ELSE TxKeys(extra) \o SubSeq(additional, o, IF o <= Len(additional) THEN o ELSE o - 1)

\* Read from the first nonce, which has to be nothing but the payment ID
payment_id(extra) ==
  LET nonces == OfTag(extra, "Nonce")
  IN  IF nonces = <<>> THEN None
      ELSE IF \/ nonces[1].nonce.kind = "encrypted" /\ nonces[1].nonce.len = 9
              \/ nonces[1].nonce.kind = "unencrypted" /\ nonces[1].nonce.len = 33
           THEN Some([kind |-> nonces[1].nonce.kind, id |-> nonces[1].nonce.value])
           ELSE None

\* PaymentId ^ mask: only an encrypted ID is
XorPaymentId(id, mask) ==
  IF id.kind = "encrypted" THEN [id EXCEPT !.id = Xor(@, mask)] ELSE id

\* The data of the fields which are, written, within the size relayed
arbitrary_data(extra) ==
  LET bytes == WriteExtra(extra)
      within == {n \in 0 .. Len(bytes) :
                   ExtraSize(SubSeq(bytes, 1, n)) <= MAX_EXTRA_SIZE_BY_RELAY_RULE}
      bounded == SubSeq(bytes, 1, CHOOSE n \in within : \A m \in within : m <= n)
      data == Elements(bounded, {i \in 1 .. Len(bounded) :
                                   bounded[i].tag = "Nonce" /\ bounded[i].nonce.kind = "arbitrary"})
  IN  [i \in 1 .. Len(data) |-> [value |-> data[i].nonce.value, len |-> data[i].nonce.len - 1]]

\* Extra::new
NewExtra(key, additional) ==
  <<PublicKey(key)>> \o (IF additional = <<>> THEN <<>> ELSE <<PublicKeys(additional)>>)

push_nonce(extra, nonce) == Append(extra, Nonce(nonce))

=============================================================================
