----------------------------- MODULE MultisigSigning -----------------------------
(***************************************************************************)
(* Signing a transaction with a threshold of the holders of its key        *)
(* (wallet/src/send/multisig.rs), by FROST with the CLSAG algorithm        *)
(* (ringct/clsag/src/multisig.rs).                                         *)
(*                                                                         *)
(* A participant makes a machine of the transaction it intends, has it     *)
(* preprocess, gives it the others' preprocesses to sign and the others'   *)
(* shares to complete. Each call consumes the machine. Who carries the     *)
(* messages is not specified: preprocesses and shares of any machine may   *)
(* be given to any other, and a dishonest participant may tell each        *)
(* machine something else.                                                 *)
(*                                                                         *)
(* Scalars are modulo a small prime, Field. A point is its scalar over a   *)
(* generator which is known from where it is used: the key image           *)
(* generator of the input, for key images. Nonces, and what is hashed, are *)
(* identities: a share is valid for the very preprocesses, transaction and *)
(* participants it was made for, its view, and for no other.               *)
(***************************************************************************)
EXTENDS Orders, FiniteSetsExt

CONSTANTS
  Field,           \* the order of the group: a prime
  Participants,    \* of 1 .. Field - 1
  Threshold,
  Honest,          \* the participants which run this code
  Machines,        \* bound: the machines of each: pairs of an honest participant and a session
  Intents,         \* the SignableTransactions: [pays, inputs], inputs without duplicates
  Coefficients,    \* of the polynomial the key is shared by: the first is the key
  KeyOffset,       \* of each input: key_offset()
  InputKey,        \* of each input: the scalar its key is of
  Bytes,           \* of each input and scalar: where the key image is when ordered by its bytes
  Told             \* bound: the errors a dishonest participant makes in its key image shares

Inputs == DOMAIN KeyOffset
Scalars == 0 .. Field - 1

\* The group's order is a prime: every scalar but zero has an inverse.
ASSUME FieldAssumption ==
  /\ Field \in Nat \ {0, 1}
  /\ \A x \in 1 .. Field - 1 : \E y \in 1 .. Field - 1 : (x * y) % Field = 1
ASSUME ParticipantsAssumption ==
  /\ Participants \subseteq 1 .. Field - 1 /\ IsFiniteSet(Participants)
  /\ Threshold \in Nat \ {0} /\ Honest \subseteq Participants
  /\ Machines \subseteq Honest \X Nat
ASSUME IntentsAssumption ==
  \A tx \in Intents :
    /\ DOMAIN tx = {"pays", "inputs"}
    /\ tx.pays \in Nat \ {0} /\ tx.inputs \in Seq(Inputs) \ {<<>>}
    /\ \A i, j \in DOMAIN tx.inputs : tx.inputs[i] = tx.inputs[j] => i = j
ASSUME ScalarsAssumption ==
  /\ Coefficients \in [1 .. Threshold -> Scalars] /\ Told \subseteq Scalars
  /\ KeyOffset \in [Inputs -> Scalars] /\ InputKey \in [Inputs -> Scalars]
  /\ Bytes \in [Inputs -> [Scalars -> Nat]]

VARIABLES
  pc,              \* of each machine
  intent,          \* of each machine: the transaction it is to sign
  view,            \* of each machine, once it signed: [intent, pre]
  shares,          \* history, of each machine: the views its nonces made shares for
  blamed           \* of each machine: the participant whose share it found invalid, or 0

vars == <<pc, intent, view, shares, blamed>>

NoView == [intent |-> [pays |-> 0, inputs |-> <<>>], pre |-> <<>>]
Steps == {"new", "wrong key", "preprocessed", "lost", "signed", "complete", "failed", "blamed", "internal"}

---------------------------------------------------------------------------------
(* Keys: the ThresholdKeys, and their interpolation. *)

Secret == Coefficients[1]
SecretShare(l) ==
  LET value[i \in 0 .. Threshold] ==
        IF i = 0 THEN 0 ELSE (Coefficients[Threshold + 1 - i] + l * value[i - 1]) % Field
  IN value[Threshold]
Invert(x) == CHOOSE y \in 1 .. Field - 1 : (x * y) % Field = 1

\* ThresholdView::interpolation_factor: Lagrange's, at zero.
InterpolationFactor(included, l) ==
  ProductUpTo([m \in included \ {l} |-> m * Invert((m - l) % Field)], Field - 1) % Field

\* ThresholdKeys::view.
ValidSigningSet(included) == included \subseteq Participants /\ Cardinality(included) >= Threshold

---------------------------------------------------------------------------------
(* Preprocesses: [nonce, images], images a key image share for each input, in the intent's order. *)

\* ClsagMultisig::preprocess_addendum.
OwnPreprocess(m) ==
  [nonce |-> m, images |-> [i \in DOMAIN intent[m].inputs |-> SecretShare(m[1])]]

\* A dishonest participant's, for as many inputs as it likes.
ToldPreprocesses(l) ==
  UNION {{[nonce |-> <<l, 0>>, images |-> [i \in 1 .. n |-> (SecretShare(l) + error[i]) % Field]] :
           error \in [1 .. n -> Told]} : n \in {Len(i.inputs) : i \in Intents}}

Preprocesses(l) ==
  IF l \in Honest
  THEN {OwnPreprocess(m) : m \in {m \in Machines : m[1] = l /\ pc[m] \notin {"new", "wrong key"}}}
  ELSE ToldPreprocesses(l)

---------------------------------------------------------------------------------
(* What a view determines. *)

Included(v) == DOMAIN v.pre
Positions(v) == DOMAIN v.intent.inputs
Interpolated(v, l, i) == v.pre[l].images[i] * InterpolationFactor(Included(v), l)

\* The key image by the transaction, in TransactionSignMachine::sign.
KeyImage(v, i) ==
  (SumUpTo([l \in Included(v) |-> Interpolated(v, l, i)], Field - 1) + KeyOffset[v.intent.inputs[i]]) % Field

\* Whose addendum modular-frost processes first: it goes by the participants' order. Mistake: the last's.
LastAddendum(v) == Max(Included(v))
FirstAddendum(v) == Min(Included(v))

\* The offset is applied to the first addendum processed, which takes mask_recv. Mistake: to each.
OffsetToEach(v, l, i) == KeyOffset[v.intent.inputs[i]]
OffsetOf(v, l, i) == IF l = FirstAddendum(v) THEN KeyOffset[v.intent.inputs[i]] ELSE 0

\* ThresholdView::verification_share: the interpolated share, with the offset for the lowest participant.
VerificationShare(v, l, i) ==
  (SecretShare(l) * InterpolationFactor(Included(v), l)
     + (IF l = Min(Included(v)) THEN KeyOffset[v.intent.inputs[i]] ELSE 0)) % Field

\* The key image by the CLSAG: ClsagMultisig::process_addendum, of each participant.
Image(v, i) ==
  SumUpTo([l \in Included(v) |-> Interpolated(v, l, i) + OffsetOf(v, l, i)], Field - 1) % Field

\* CompressedPoint::from. The identity is the same point whichever input it is for.
Compressed(input, image) == IF image = 0 THEN 0 ELSE Bytes[input][image]

\* key_image_sort, by stable sorts: the largest first.
CompressedKeyImage(v, i) == Compressed(v.intent.inputs[i], KeyImage(v, i))
KeyImageSort(v) ==
  {p \in Positions(v) \X Positions(v) :
    \/ CompressedKeyImage(v, p[1]) > CompressedKeyImage(v, p[2])
    \/ CompressedKeyImage(v, p[1]) = CompressedKeyImage(v, p[2]) /\ p[1] < p[2]}

\* The positions in the intent of the transaction's inputs.
ByKeyImage(v) == InOrder(Positions(v), KeyImageSort(v))

\* SignableTransaction::with_key_images: the transaction's inputs, with their key images.
TxInputs(v) ==
  [k \in Positions(v) |->
    [input |-> v.intent.inputs[ByKeyImage(v)[k]], image |-> KeyImage(v, ByKeyImage(v)[k])]]

\* The order the CLSAG machines are in: "We apply the same sort now". Mistake: as they are.
AsIntended(v) == [k \in Positions(v) |-> k]
ClsagOrder(v) == ByKeyImage(v)
Clsags(v) ==
  [k \in Positions(v) |->
    [input |-> v.intent.inputs[ClsagOrder(v)[k]], image |-> Image(v, ClsagOrder(v)[k])]]

\* sum_output_masks, and the seeded generator: of the transaction and its key images, any number.
OutputMasks(v) == (v.intent.pays + Total([i \in Positions(v) |-> KeyImage(v, i)])) % Field
Random(v, k) == (v.intent.pays * k + 3) % Field

\* The masks of the pseudo-outs: the last makes up the sum.
Mask(v, k) ==
  IF k = Len(v.intent.inputs)
  THEN (OutputMasks(v) - Total([j \in 1 .. k - 1 |-> Random(v, j)])) % Field
  ELSE Random(v, k)

---------------------------------------------------------------------------------

Init ==
  /\ pc = [m \in Machines |-> "new"]
  /\ intent \in [Machines -> Intents]
  /\ view = [m \in Machines |-> NoView]
  /\ shares = [m \in Machines |-> {}]
  /\ blamed = [m \in Machines |-> 0]

\* SignableTransaction::multisig, and TransactionMachine::preprocess.
RightKey(m) == \A i \in DOMAIN intent[m].inputs :
  (Secret + KeyOffset[intent[m].inputs[i]]) % Field = InputKey[intent[m].inputs[i]]
Preprocess(m) ==
  /\ pc[m] = "new"
  /\ pc' = [pc EXCEPT ![m] = IF RightKey(m) THEN "preprocessed" ELSE "wrong key"]
  /\ UNCHANGED <<intent, view, shares, blamed>>

\* TransactionSignMachine::cache takes the machine, and panics, as from_cache does: there is no other way to keep
\* one through a restart. What it preprocessed was sent, and its nonces are lost.
Cache(m) ==
  /\ pc[m] = "preprocessed"
  /\ pc' = [pc EXCEPT ![m] = "lost"]
  /\ UNCHANGED <<intent, view, shares, blamed>>

\* The preprocesses `sign` goes by: the ones it was given, but for its own.
Commitments(m, given) == [l \in (DOMAIN given) \cup {m[1]} |-> IF l = m[1] THEN OwnPreprocess(m) ELSE given[l]]

SameLength(m, given) == \A l \in DOMAIN given : Len(given[l].images) = Len(intent[m].inputs)

\* TransactionSignMachine::sign, with each CLSAG's.
Sign(m) ==
  /\ pc[m] = "preprocessed"
  /\ \E others \in SUBSET Participants :
     \E given \in [others -> UNION {Preprocesses(l) : l \in others}] :
       /\ \A l \in others : given[l] \in Preprocesses(l)
       /\ LET v == [intent |-> intent[m], pre |-> Commitments(m, given)]
          IN \/ /\ ~SameLength(m, given) \/ ~ValidSigningSet(Included(v))
                /\ pc' = [pc EXCEPT ![m] = "failed"]
                /\ UNCHANGED <<view, shares>>
             \/ /\ SameLength(m, given) /\ ValidSigningSet(Included(v))
                /\ pc' = [pc EXCEPT ![m] = "signed"]
                /\ view' = [view EXCEPT ![m] = v]
                /\ shares' = [shares EXCEPT ![m] = @ \cup {v}]
  /\ UNCHANGED <<intent, blamed>>

\* The shares which can be given of a participant: of a dishonest one, a right one or a wrong one.
Wrong(m) == [intent |-> intent[m], pre |-> <<>>]
Shares(m, l) ==
  IF l \in Honest THEN UNION {shares[n] : n \in {n \in Machines : n[1] = l}} ELSE {view[m], Wrong(m)}

\* ClsagMultisig::verify, of the CLSAG of an input, once the shares are summed. Mistake: it is not called.
Unverified(m, given, i) == TRUE
Verify(m, given, i) ==
  /\ \A l \in DOMAIN given : given[l] = view[m]
  /\ Image(view[m], i) = InputKey[view[m].intent.inputs[i]]

\* ClsagMultisig::verify_share: a share is of the nonces and the challenge, and of a secret which is both the
\* verification share's and the key image share's which process_addendum kept for it.
ValidShare(m, share, l, i) ==
  /\ share = view[m]
  /\ (Interpolated(view[m], l, i) + OffsetOf(view[m], l, i)) % Field = VerificationShare(view[m], l, i)
InvalidShares(m, given, i) ==
  {l \in Included(view[m]) : ~ValidShare(m, IF l = m[1] THEN view[m] ELSE given[l], l, i)}

\* AlgorithmSignatureMachine::complete, of each CLSAG until one fails: of that one, a participant whose share is
\* invalid is blamed.
Mismatched(m, given) ==
  \/ \E l \in DOMAIN given : Len(given[l].intent.inputs) # Len(intent[m].inputs)
  \/ DOMAIN given # Included(view[m]) \ {m[1]}
Failing(m, given) == {k \in Positions(view[m]) : ~Verify(m, given, ClsagOrder(view[m])[k])}
Completed(m, given) ==
  LET invalid == InvalidShares(m, given, ClsagOrder(view[m])[Min(Failing(m, given))])
  IN IF Mismatched(m, given) THEN {[pc |-> "failed", blamed |-> 0]}
     ELSE IF Failing(m, given) = {} THEN {[pc |-> "complete", blamed |-> 0]}
     ELSE IF invalid = {} THEN {[pc |-> "internal", blamed |-> 0]}
     ELSE {[pc |-> "blamed", blamed |-> l] : l \in invalid}

\* TransactionSignatureMachine::complete.
Complete(m) ==
  /\ pc[m] = "signed"
  /\ \E others \in SUBSET (Participants \ {m[1]}) :
     \E given \in [others -> UNION {Shares(m, l) : l \in others}] :
       /\ \A l \in others : given[l] \in Shares(m, l)
       /\ \E end \in Completed(m, given) :
            /\ pc' = [pc EXCEPT ![m] = end.pc]
            /\ blamed' = [blamed EXCEPT ![m] = end.blamed]
  /\ UNCHANGED <<intent, view, shares>>

Next == \E m \in Machines : Preprocess(m) \/ Cache(m) \/ Sign(m) \/ Complete(m)

Spec == Init /\ [][Next]_vars

---------------------------------------------------------------------------------
(* Properties. *)

\* Every machine is at a step, with an intent; one which signed, did so with its own preprocess and
\* others for as many inputs as its own.
TypeOK ==
  /\ pc \in [Machines -> Steps]
  /\ intent \in [Machines -> Intents]
  /\ DOMAIN view = Machines /\ DOMAIN shares = Machines
  /\ blamed \in [Machines -> Participants \cup {0}]
  /\ \A m \in Machines :
       /\ view[m] # NoView =>
            /\ view[m].intent = intent[m] /\ m[1] \in Included(view[m])
            /\ \A l \in Included(view[m]) : Len(view[m].pre[l].images) = Len(intent[m].inputs)
       /\ pc[m] \in {"signed", "complete", "blamed", "internal"} => view[m] \in shares[m]

\* Who completes a transaction, does so with every honest participant of it having signed that very
\* transaction, with that very set of preprocesses, whatever the dishonest ones told to whom.
HonestAgree ==
  \A m \in Machines : pc[m] = "complete" =>
    \A l \in Included(view[m]) \cap Honest : \E n \in Machines : n[1] = l /\ view[m] \in shares[n]

\* A completed transaction is one the network takes: its inputs are in the order of their key images,
\* which are the inputs' own; its CLSAGs are for its inputs, in their order; its masks are balanced.
CompletedIsValid ==
  \A m \in Machines : pc[m] = "complete" =>
    LET v == view[m]
        inputs == TxInputs(v)
        n == Len(v.intent.inputs)
    IN /\ \A k \in 1 .. n : inputs[k].image = InputKey[inputs[k].input] /\ Clsags(v)[k] = inputs[k]
       /\ \A k \in 1 .. n - 1 :
            Compressed(inputs[k].input, inputs[k].image) >= Compressed(inputs[k + 1].input, inputs[k + 1].image)
       /\ Total([k \in 1 .. n |-> Mask(v, k)]) % Field = OutputMasks(v)

\* Any set of at least the threshold of honest participants, which signed with the same view, can
\* complete it: the interpolated key shares and the offset make the inputs' own key images.
HonestCanComplete ==
  \A m \in Machines :
    /\ pc[m] = "signed"
    /\ Included(view[m]) \subseteq Honest
    /\ \A l \in Included(view[m]) : \E n \in Machines : n[1] = l /\ view[m] \in shares[n]
    => \A i \in Positions(view[m]) : Verify(m, [l \in Included(view[m]) \ {m[1]} |-> view[m]], i)

\* Whoever stops a signature from being completed is identified: modular-frost never finds every share valid and the
\* signature not ("internal"). And no one else is blamed: not the machine's own participant, and not an honest one,
\* unless a share it made for another view than the machine's was given as its own.
FailureIsBlamed ==
  \A m \in Machines :
    /\ pc[m] # "internal"
    /\ pc[m] = "blamed" =>
         /\ blamed[m] # m[1]
         /\ blamed[m] \in Honest =>
              \E n \in Machines : n[1] = blamed[m] /\ shares[n] # {} /\ view[m] \notin shares[n]
================================================================================
