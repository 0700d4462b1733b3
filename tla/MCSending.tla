-------------------------------- MODULE MCSending -------------------------------
(***************************************************************************)
(* Sending from alice's wallet to bob and carol.                           *)
(***************************************************************************)
EXTENDS Sending

In(key, image, amount, ring) ==
  [key |-> key, image |-> image, owner |-> "alice", sound |-> TRUE, amount |-> amount, ring |-> ring,
   offsets |-> 3 * ring, opens |-> TRUE]

\* The orders of the keys and of the key images differ
Inputs(ring) == <<In(5, 2, 40000, ring), In(3, 9, 9000, ring)>>
Rich == <<In(7, 4, 4100000, 16)>>

Id(n) == {<<"id", n>>}
BobMain == legacy_address("bob")
BobSub == subaddress_address("bob", 1)
CarolIntegrated == legacy_integrated_address("carol", Id(1))
CarolSub == guaranteed_address("carol", Some(2), Some(Id(2)))
CarolMain == guaranteed_address("carol", None, None)
Destinations == {BobMain, BobSub, CarolIntegrated, CarolSub, CarolMain}

Changes ==
  {Some(AddressChange(legacy_address("alice"))), Some(AddressChange(subaddress_address("alice", 1)))}
    \cup {Some(ViewPairChange(kind, "alice", s)) : kind \in {"standard", "guaranteed"}, s \in {None, Some(1)}}
Change == Some(ViewPairChange("standard", "alice", None))

Data(len) == [value |-> {<<"data", len>>}, len |-> len]

Request(rct_type, ins, payments, change, data, rate, mask) ==
  [rct_type |-> rct_type, ovk |-> "key1", inputs |-> ins, payments |-> payments, change |-> change,
   data |-> data, fee_rate |-> [per_weight |-> rate, mask |-> mask]]

Plus(ins, payments, change, data, rate, mask) ==
  Request("ClsagBulletproofPlus", ins, payments, change, data, rate, mask)

Pays(dest) == Payment(dest, 1000)

\* To every pair of destinations, with and without change, and to every one with change
Paying ==
  {Plus(Inputs(16), <<Pays(d)>>, c, <<Data(3)>>, 4, 100) : d \in Destinations, c \in Changes}
    \cup {Plus(Inputs(16), <<Pays(d), Payment(e, 2000)>>, c, <<>>, 4, 1) :
            d \in Destinations, e \in {BobMain, BobSub, CarolSub}, c \in Changes \cup {None}}

\* Around the fee's second and third byte
Fees ==
  {Plus(Inputs(16), <<Pays(BobSub)>>, Change, <<Data(len)>>, rate, mask) :
     len \in {0, 1, 108, 109, 110, 111, 112, 126, 127, 128, 254}, rate \in {7, 8}, mask \in {1, 1000}}

\* Around the largest fee there are funds for, and the largest there is
LargeFees ==
  {Plus(Rich, <<Pays(BobMain)>>, Change, <<>>, rate, 1) :
     rate \in {1363, 1364, 1365, 2664, 2665, 2666, 2726, 2727, 2728}}

Older == {Request("ClsagBulletproof", Inputs(11), <<Pays(d)>>, c, <<Data(2)>>, 3, 10) :
            d \in {BobSub, CarolIntegrated}, c \in Changes}

\* As many outputs as there may be, and one more
Many == {Plus(Rich, [i \in 1 .. n |-> Pays(BobMain)], Change, <<>>, 2, 1) : n \in {15, 16}}

Base == Plus(Inputs(16), <<Pays(BobMain)>>, Change, <<>>, 1, 1)

\* What is refused, and what is not for sign to find
Edges ==
  {[Base EXCEPT !.rct_type = "MlsagBulletproofs"],
   [Base EXCEPT !.inputs = <<>>],
   [Base EXCEPT !.inputs = <<@[1], [@[1] EXCEPT !.ring = 16]>>],
   [Base EXCEPT !.inputs[1].sound = FALSE],
   [Base EXCEPT !.inputs[2].ring = 11],
   [Base EXCEPT !.payments = <<>>],
   [Base EXCEPT !.change = None],
   [Base EXCEPT !.payments = <<Pays(CarolIntegrated), Pays(CarolSub)>>],
   [Base EXCEPT !.data = <<Data(255)>>],
   [Base EXCEPT !.data = <<Data(254), Data(253), Data(252), Data(242)>>],
   [Base EXCEPT !.data = <<Data(254), Data(253), Data(252), Data(241)>>],
   [Base EXCEPT !.payments[1].amount = 49000],
   [Base EXCEPT !.payments[1].amount = U64Max],
   [Base EXCEPT !.inputs = Rich \o @, !.inputs[3].amount = U64Max],
   [Base EXCEPT !.inputs = [i \in 1 .. 215 |-> In(i, i, 1000, 16)]],
   [Base EXCEPT !.inputs[1].opens = FALSE]}

MCRequests == Paying \cup Fees \cup LargeFees \cup Older \cup Many \cup Edges

\* Each of the requests' rates; lists of rates, with too few and with none; and rates to be multiplied,
\* up to what cannot be represented
Quote(priority, max, ok, fees, fee, mask) ==
  [priority |-> priority, max_per_weight |-> max,
   res |-> [ok |-> ok, fees |-> fees, fee |-> fee, mask |-> mask]]
MCQuotes ==
  {Quote(1, rate.per_weight, TRUE, None, rate.per_weight, rate.mask) : rate \in {r.fee_rate : r \in MCRequests}}
    \cup {Quote(p, max, TRUE, Some(fees), 9, mask) :
            p \in 0 .. 5, max \in {1, 4}, fees \in {<<1, 2, 4, 8>>, <<4>>, <<>>}, mask \in {0, 1, 100}}
    \cup {Quote(p, 2000, TRUE, None, fee, 1) : p \in 0 .. 5, fee \in {0, 1, 4194, 4195}}
    \cup {Quote(1, 4, FALSE, None, 4, 1)}

\* Another SignableTransaction, for the same inputs or for others
MCRivals(r) ==
  {r,
   [r EXCEPT !.inputs = [i \in 1 .. Len(@) |-> @[Len(@) + 1 - i]]],
   [r EXCEPT !.inputs[1].key = 100, !.inputs[1].image = 100],
   [r EXCEPT !.payments[1].amount = 999],
   [r EXCEPT !.ovk = "key2"],
   [r EXCEPT !.fee_rate.per_weight = @ + 1],
   [r EXCEPT !.data = @ \o <<Data(9)>>]}

=============================================================================
