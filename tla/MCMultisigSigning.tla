--------------------------- MODULE MCMultisigSigning ---------------------------
(* MultisigSigning for TLC: three participants, two of which can sign, and three inputs. *)
EXTENDS MultisigSigning

MCCoefficients == <<2, 2>>
MCKeyOffset == <<1, 2, 3>>

\* The third input is someone else's.
MCInputKey == <<3, 4, 1>>

\* Ordered by their bytes, the first input's key image may be before or after the second's.
MCBytes == [input \in 1 .. 3 |-> [image \in 0 .. 4 |-> 1 + ((7 * image + 5 * input) % 16)]]

Both == [pays |-> 1, inputs |-> <<1, 2>>]
Swapped == [pays |-> 1, inputs |-> <<2, 1>>]
OnlyFirst == [pays |-> 2, inputs |-> <<1>>]
Foreign == [pays |-> 1, inputs |-> <<1, 3>>]

\* Two sessions of one participant, and one of another's; transactions of other inputs, and in another order.
MCMachines == {<<1, 1>>, <<2, 1>>, <<2, 2>>}
MCIntents == {Swapped, OnlyFirst, Foreign}
OnlyOne == {<<1, 1>>}
OwnIntents == {Both, Swapped}
================================================================================
