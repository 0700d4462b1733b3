------------------------------- MODULE WalletKeys -------------------------------
(***************************************************************************)
(* The keys of a wallet and what is derived from them: ViewPair,           *)
(* GuaranteedViewPair and their addresses (wallet/src/view_pair.rs,        *)
(* wallet/address/src/lib.rs), and SharedKeyDerivations, the secrets a     *)
(* sender and a recipient share for each output (wallet/src/lib.rs).       *)
(*                                                                         *)
(* Keys are symbolic. A point is a generator, the basepoint or a spend     *)
(* key, multiplied by a set of scalars: a product is the same in whichever *)
(* order its scalars were applied, which is what makes r(vG) = v(rG). A    *)
(* hash is the record of what is hashed, so that two are equal only when   *)
(* all of it is. An 8-byte value under XOR is a set under symmetric        *)
(* difference, the empty set being zero.                                   *)
(*                                                                         *)
(* An Option is a sequence of at most one element. A subaddress index is a *)
(* positive number: (0, 0), here 0, is not an index.                       *)
(***************************************************************************)
EXTENDS Naturals, Sequences

None == <<>>
Some(x) == <<x>>

-----------------------------------------------------------------------------
(* Points *)

Generator(id) == [of |-> id, by |-> {}]
BASEPOINT == Generator(<<"G", 0>>)
IDENTITY == Generator(<<"identity", 0>>)
\* A point whose encoding does not decompress
Undecodable == Generator(<<"undecodable", 0>>)

Mul(scalar, point) ==
  IF point = IDENTITY THEN IDENTITY ELSE [point EXCEPT !.by = @ \cup {scalar}]

Decompress(point) == IF point = Undecodable THEN None ELSE Some(point)

Xor(a, b) == (a \ b) \cup (b \ a)

-----------------------------------------------------------------------------
(* View pairs and their addresses *)

\* The private view key of wallet w
View(w) == <<"view", w>>

SubaddressIndex(n) == IF n = 0 THEN None ELSE Some(n)

\* The generator which stands for a spend key: its wallet's, or one of its subaddresses'
SpendKey(w, subaddress) == <<w, IF subaddress = None THEN 0 ELSE subaddress[1]>>

\* The public spend and view keys of a subaddress: the view key is over the spend key
subaddress_keys(w, subaddress) ==
  LET spend == SpendKey(w, subaddress)
  IN  [spend |-> spend, view |-> Mul(View(w), Generator(spend))]

MainKeys(w) == [spend |-> SpendKey(w, None), view |-> Mul(View(w), BASEPOINT)]

\* An address is of kind "Legacy", "LegacyIntegrated", "Subaddress" or "Featured", the last two
\* fields being for a featured address
Address(kind, keys, payment_id, subaddress, guaranteed) ==
  [kind |-> kind, spend |-> keys.spend, view |-> keys.view, payment_id |-> payment_id,
   subaddress |-> subaddress, guaranteed |-> guaranteed]

legacy_address(w) == Address("Legacy", MainKeys(w), None, FALSE, FALSE)
legacy_integrated_address(w, id) == Address("LegacyIntegrated", MainKeys(w), Some(id), FALSE, FALSE)
subaddress_address(w, index) ==
  Address("Subaddress", subaddress_keys(w, Some(index)), None, FALSE, FALSE)

\* GuaranteedViewPair::address
guaranteed_address(w, subaddress, payment_id) ==
  Address("Featured", IF subaddress = None THEN MainKeys(w) ELSE subaddress_keys(w, subaddress),
          payment_id, subaddress # None, TRUE)

is_subaddress(addr) == addr.kind = "Subaddress" \/ (addr.kind = "Featured" /\ addr.subaddress)
is_guaranteed(addr) == addr.kind = "Featured" /\ addr.guaranteed

\* The string of an address: its kind, its keys, the features of a featured address, the payment ID
WriteAddress(addr) ==
  LET bit(b) == IF b THEN 1 ELSE 0
      features == 4 * bit(addr.guaranteed) + 2 * bit(addr.payment_id # None) + bit(addr.subaddress)
  IN  [kind |-> addr.kind, keys |-> [spend |-> addr.spend, view |-> addr.view],
       features |-> IF addr.kind = "Featured" THEN <<features>> ELSE <<>>, id |-> addr.payment_id]

\* What is left unread after the address makes it invalid
AddressReads(string) ==
  /\ string.kind = "Featured" => string.features[1] \div 8 = 0
  /\ Len(string.id) = CASE string.kind = "LegacyIntegrated" -> 1
                         [] string.kind = "Featured" -> (string.features[1] \div 2) % 2
                         [] OTHER -> 0

ReadAddress(string) ==
  LET features == IF string.kind = "Featured" THEN string.features[1] ELSE 0
  IN  Address(string.kind, string.keys, string.id, features % 2 = 1, features \div 4 = 1)

-----------------------------------------------------------------------------
(* SharedKeyDerivations *)

\* Mistake: the key images are left out.
UniquenessOfInputCount(inputs) == [i \in 1 .. Len(inputs) |-> [gen |-> inputs[i].gen, id |-> 0]]

\* What makes a transaction unlike every other: its key images, or the height of its block
uniqueness(inputs) == [i \in 1 .. Len(inputs) |-> [gen |-> inputs[i].gen, id |-> inputs[i].id]]

\* o counts from 0, as it is hashed
output_derivations(unique, ecdh, o) ==
  [view_tag |-> [ecdh |-> ecdh, o |-> o],
   shared_key |-> [uniqueness |-> unique, ecdh |-> ecdh, o |-> o]]

payment_id_xor(ecdh) == {<<"xor", ecdh>>}

commitment_mask(derivations) == <<"mask", derivations.shared_key>>

compact_amount_encryption(derivations, amount) ==
  [form |-> "compact", key |-> derivations.shared_key, amount |-> amount, mask |-> <<"none">>]

\* Only the key an amount was encrypted with yields it; any other yields something unrelated
decrypt(derivations, encrypted) ==
  IF encrypted.key # derivations.shared_key THEN [mask |-> <<"unrelated">>, amount |-> 0]
  ELSE [mask |-> IF encrypted.form = "original" THEN encrypted.mask ELSE commitment_mask(derivations),
        amount |-> encrypted.amount]

\* Commitment::zero, what a miner transaction's explicit amount is committed to with
ZeroCommitment == [mask |-> <<"one">>, amount |-> 0]

-----------------------------------------------------------------------------
(* One-time keys: shared * G + spend. Subtracting another shared key yields no spend key. *)

OneTimeKey(shared, spend) == [kind |-> "point", shared |-> shared, spend |-> spend]

OtherKey(kind) ==
  [kind |-> kind, shared |-> [uniqueness |-> None, ecdh |-> IDENTITY, o |-> 0],
   spend |-> <<"none", 0>>]

\* The spend key P - shared * G, where it is one
SpendOf(key, shared) == IF key.shared = shared THEN Some(key.spend) ELSE None

=============================================================================
