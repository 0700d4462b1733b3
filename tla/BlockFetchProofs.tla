---------------------------- MODULE BlockFetchProofs ----------------------------
(* What BlockFetch guarantees for every size, range, batch and behaviour of the daemon. *)
EXTENDS BlockFetch, TLAPS

---------------------------------------------------------------------------------
(* The size of a batch. *)

\* A share of a response, rounded up, is at least one byte and at most the whole response.
LEMMA DivCeilRange ==
  ASSUME NEW a \in Nat \ {0}, NEW b \in Nat \ {0}
  PROVE  DivCeil(a, b) \in 1 .. a
<1> DEFINE q == (a + b - 1) \div b
<1>1. q \in Int /\ b * q <= a + b - 1 /\ a + b - 1 < b * q + b
  BY SMT
<1>2. q >= 1
  <2> SUFFICES ASSUME q <= 0 PROVE FALSE
    BY <1>1
  <2>1. b * q <= 0
    BY <1>1
  <2> QED BY <1>1, <2>1
<1>3. q <= a
  <2> SUFFICES ASSUME q >= a + 1 PROVE FALSE
    BY <1>1
  <2>1. b * q >= b * (a + 1)
    BY <1>1
  <2>2. b * (a + 1) = b * a + b
    BY SMT
  <2>3. b * a >= a
    BY SMT
  <2> QED BY <1>1, <2>1, <2>2, <2>3
<1> QED BY <1>1, <1>2, <1>3 DEF DivCeil

\* Dividing by at most the dividend leaves at least one.
LEMMA QuotientPositive ==
  ASSUME NEW a \in Nat \ {0}, NEW b \in 1 .. a
  PROVE  a \div b \in Nat \ {0}
<1> DEFINE q == a \div b
<1>1. q \in Int /\ b * q <= a /\ a < b * q + b
  BY SMT
<1>2. q >= 1
  <2> SUFFICES ASSUME q <= 0 PROVE FALSE
    BY <1>1
  <2>1. b * q <= 0
    BY <1>1
  <2> QED BY <1>1, <2>1
<1> QED BY <1>1, <1>2

\* The adapted batch is neither empty nor more than a usize holds.
LEMMA NextBatchRange ==
  ASSUME blocks_per_request \in 1 .. UsizeMax, NEW size \in Nat \ {0}
  PROVE  NextBatch(size) \in 1 .. UsizeMax
<1> USE NumbersAssumption
<1> DEFINE half == blocks_per_request \div 2
<1>1. half \in Nat /\ half <= blocks_per_request
  BY SMT
<1>2. Halved \in 1 .. UsizeMax
  BY <1>1 DEF Halved, Greatest
<1>3. CASE size < Target
  <2>1. DivCeil(size, blocks_per_request) \in 1 .. size
    BY DivCeilRange
  <2>2. Target \div DivCeil(size, blocks_per_request) \in Nat \ {0}
    BY <1>3, <2>1, QuotientPositive
  <2>3. SaturatingAdd(blocks_per_request, Greatest(half, 1)) \in 1 .. UsizeMax
    BY <1>1 DEF SaturatingAdd, Least, Greatest
  <2> QED BY <1>3, <2>2, <2>3 DEF NextBatch, Least
<1>4. CASE size >= Target
  BY <1>2, <1>4 DEF NextBatch
<1> QED BY <1>3, <1>4

---------------------------------------------------------------------------------
(* The inductive invariant. *)

\* The request under way is for what comes next, and one for several blocks comes from a batch of
\* several.
AskedOK ==
  pc = "await" => /\ asked.from = start /\ asked.to \in start .. last
                  /\ ~asked.single => blocks_per_request > 1

\* What is left of the range starts where the received blocks end, and only a non-empty range has
\* any.
PlaceOK ==
  /\ pc \in {"request", "await"} => start = first + Len(res)
  /\ Len(res) > 0 => first <= last

\* A request more than two for each block received is owed only to a batch that has just failed.
CountOK ==
  /\ pc = "request" => requests <= 2 * Len(res) + (IF blocks_per_request = 1 THEN 1 ELSE 0)
  /\ pc = "await" => requests <= 2 * Len(res) + (IF blocks_per_request = 1 THEN 2 ELSE 1)
  /\ RequestsBounded

\* An honest daemon's blocks come from chains it was on.
ProvenanceOK ==
  /\ chain \in served
  /\ honest => \A i \in 1 .. Len(res) :
                 \E c \in served : first + i <= Len(c) /\ res[i] = c[first + i]

\* A chain that has a checked block has all the blocks received before it.
CheckedOK ==
  \A c \in Chains : \A i \in 1 .. checked :
    first + i <= Len(c) /\ res[i] = c[first + i] => \A j \in 1 .. i : res[j] = c[first + j]

StageOK ==
  /\ pc \in {"request", "await", "validate"} => checked = 0
  /\ pc \in {"check", "ok"} => first <= last /\ Len(res) = last - first + 1
  /\ pc = "ok" => checked = Len(res)

Inv ==
  /\ TypeOK /\ BatchNeverEmpty /\ AskedOK /\ PlaceOK /\ CountOK
  /\ ProvenanceOK /\ CheckedOK /\ StageOK

\* A fetch starts with an empty result and a batch of the estimate.
LEMMA InitInv == Init => Inv
<1> SUFFICES ASSUME Init PROVE Inv
  OBVIOUS
<1> USE NumbersAssumption, FetchesAssumption DEF Init
<1>1. first \in Numbers /\ last \in Numbers
  BY DEF Numbers
<1>2. TypeOK
  BY <1>1 DEF TypeOK, Numbers
<1>3. BatchNeverEmpty
  BY DEF BatchNeverEmpty
<1>4. AskedOK /\ PlaceOK /\ CountOK /\ StageOK
  BY <1>1 DEF AskedOK, PlaceOK, CountOK, StageOK, RequestsBounded, Numbers
<1>5. ProvenanceOK /\ CheckedOK
  BY DEF ProvenanceOK, CheckedOK
<1> QED BY <1>2, <1>3, <1>4, <1>5 DEF Inv

\* An element of a sequence.
LEMMA ElementInSet ==
  ASSUME NEW S, NEW s \in Seq(S), NEW i \in 1 .. Len(s)
  PROVE  s[i] \in S
  OBVIOUS

\* A function on 1 .. n is a sequence.
LEMMA FunctionIsSeq ==
  ASSUME NEW S, NEW n \in Nat, NEW f \in [1 .. n -> S]
  PROVE  f \in Seq(S)
  OBVIOUS

\* A chain's blocks, their numbers and their parents.
LEMMA ChainBlocks ==
  ASSUME NEW c \in Chains
  PROVE  /\ c \in Seq(Blocks) /\ Len(c) \in Nat
         /\ \A i \in 1 .. Len(c) : c[i].number = i - 1
         /\ \A i \in 1 .. Len(c) : i # 1 => c[i].previous = c[i - 1].hash
  BY ChainsAssumption

\* The blocks of a response that was accepted are kept after those received before.
LEMMA Extended ==
  ASSUME TypeOK, AskedOK, pc = "await", NEW entries \in Seq([id : Numbers, block : Blocks]),
         Answered(entries),
         res' = res \o [i \in 1 .. RequestedBlocks |-> BlockAnswering(entries, asked.from + i - 1)]
  PROVE  /\ res' \in Seq(Blocks)
         /\ Len(res') = Len(res) + RequestedBlocks
         /\ \A i \in 1 .. Len(res) : res'[i] = res[i]
         /\ \A i \in 1 .. RequestedBlocks :
              res'[Len(res) + i] = BlockAnswering(entries, asked.from + i - 1)
<1> DEFINE new == [i \in 1 .. RequestedBlocks |-> BlockAnswering(entries, asked.from + i - 1)]
<1>1. RequestedBlocks \in Nat \ {0} /\ asked.from \in Nat
  BY NumbersAssumption DEF TypeOK, AskedOK, RequestedBlocks, Numbers
<1>2. ASSUME NEW i \in 1 .. RequestedBlocks
      PROVE  BlockAnswering(entries, asked.from + i - 1) \in Blocks
  <2> DEFINE n == asked.from + i - 1
  <2>1. n \in asked.from .. asked.to
    BY <1>1, SMTT(30) DEF RequestedBlocks, TypeOK, Numbers
  <2>2. \E k \in 1 .. Len(entries) : entries[k].id = n
    BY <2>1 DEF Answered
  <2>3. PICK k \in 1 .. Len(entries) :
          k = (CHOOSE m \in 1 .. Len(entries) : entries[m].id = n)
    BY <2>2
  <2>4. entries[k] \in [id : Numbers, block : Blocks]
    BY <2>3, ElementInSet
  <2> QED BY <2>3, <2>4 DEF BlockAnswering
<1>3. new \in Seq(Blocks) /\ Len(new) = RequestedBlocks
  BY <1>1, <1>2
<1>4. res' = res \o new /\ res \in Seq(Blocks)
  BY DEF TypeOK
<1> HIDE DEF new
<1>5. /\ res \o new \in Seq(Blocks)
      /\ Len(res \o new) = Len(res) + Len(new)
      /\ \A i \in 1 .. Len(res) : (res \o new)[i] = res[i]
      /\ \A i \in 1 .. Len(new) : (res \o new)[Len(res) + i] = new[i]
  <2>1. new \in Seq(Blocks)
    BY <1>3
  <2>2. res \in Seq(Blocks)
    BY <1>4
  <2> QED BY <2>1, <2>2, SMT
<1>6. /\ res' \in Seq(Blocks)
      /\ Len(res') = Len(res) + RequestedBlocks
      /\ \A i \in 1 .. Len(res) : res'[i] = res[i]
      /\ \A i \in 1 .. RequestedBlocks : res'[Len(res) + i] = new[i]
  BY <1>3, <1>4, <1>5, Zenon
<1> QED BY <1>6 DEF new

---------------------------------------------------------------------------------
(* Every step keeps it. *)

\* A request that fails: the range and the received blocks are as before.
LEMMA RequestFailedInv ==
  ASSUME Inv, pc = "await", RequestFailed, faults' \in Nat
  PROVE  Inv'
<1> USE NumbersAssumption DEF Inv, RequestFailed, Propagates, RetryBatch, rangeVars, daemonVars
<1>1. TypeOK' /\ BatchNeverEmpty'
  BY DEF TypeOK, BatchNeverEmpty
<1>2. AskedOK' /\ PlaceOK' /\ StageOK'
  BY DEF AskedOK, PlaceOK, StageOK
<1>3. CountOK'
  BY DEF CountOK, RequestsBounded, AskedOK, TypeOK
<1>4. ProvenanceOK' /\ CheckedOK'
  BY DEF ProvenanceOK, CheckedOK
<1> QED BY <1>1, <1>2, <1>3, <1>4

\* A response that is rejected ends the fetch.
LEMMA RejectInv ==
  ASSUME Inv, pc = "await", Reject
  PROVE  Inv'
<1> USE DEF Inv, Reject, rangeVars, daemonVars
<1>1. TypeOK' /\ BatchNeverEmpty'
  BY DEF TypeOK, BatchNeverEmpty
<1>2. AskedOK' /\ PlaceOK' /\ StageOK' /\ CountOK'
  BY DEF AskedOK, PlaceOK, StageOK, CountOK, RequestsBounded
<1>3. ProvenanceOK' /\ CheckedOK'
  BY DEF ProvenanceOK, CheckedOK
<1> QED BY <1>1, <1>2, <1>3

\* A response of any size, honest if the daemon is.
LEMMA ReceiveInv ==
  ASSUME Inv, pc = "await", NEW entries \in Seq([id : Numbers, block : Blocks]),
         NEW size \in Nat \ {0}, Receive(entries, size),
         honest => /\ asked.to < Len(chain)
                   /\ Answered(entries) => \A i \in 1 .. RequestedBlocks :
                        BlockAnswering(entries, asked.from + i - 1) = chain[asked.from + i]
  PROVE  Inv'
<1>1. CASE size > MaxResponse /\ Limits
  <2>1. RequestFailed /\ faults' \in Nat
    BY <1>1, NumbersAssumption DEF Receive, Inv, TypeOK
  <2> QED BY <2>1, RequestFailedInv
<1>2. CASE size > MaxResponse /\ ~Limits
  <2>1. Reject
    BY <1>2, NumbersAssumption DEF Receive
  <2> QED BY <2>1, RejectInv
<1>3. CASE ~(size > MaxResponse) /\ ~Answered(entries)
  <2>1. Reject
    BY <1>3, NumbersAssumption DEF Receive, ResponseParsed, Reject
  <2> QED BY <2>1, RejectInv
<1>4. CASE ~(size > MaxResponse) /\ Answered(entries)
  <2> USE NumbersAssumption DEF rangeVars, daemonVars
  <2>1. /\ ResponseParsed(entries, size)
        /\ UNCHANGED <<asked, checked, faults, requests>>
        /\ UNCHANGED <<first, last, honest, batching, chain, served>>
    BY <1>4 DEF Receive
  <2>2. /\ res' \in Seq(Blocks)
        /\ Len(res') = Len(res) + RequestedBlocks
        /\ \A i \in 1 .. Len(res) : res'[i] = res[i]
        /\ \A i \in 1 .. RequestedBlocks :
             res'[Len(res) + i] = BlockAnswering(entries, asked.from + i - 1)
    BY <1>4, <2>1, Extended DEF Inv, ResponseParsed
  <2> DEFINE to == asked.to
  <2>a. asked.from = start /\ to \in start .. last
    BY DEF Inv, AskedOK
  <2>b. RequestedBlocks = to - start + 1
    BY <2>a, Zenon DEF RequestedBlocks
  <2>c. /\ first \in Nat /\ last \in Nat /\ start \in Nat /\ Len(res) \in Nat
        /\ start = first + Len(res)
    BY DEF Inv, TypeOK, Numbers, PlaceOK
  <2> HIDE DEF to
  <2>3. /\ RequestedBlocks \in Nat \ {0} /\ start + RequestedBlocks = to + 1
        /\ NextStart = start + RequestedBlocks /\ NextStart \in Nat
        /\ NextStart <= last + 1 /\ first <= last
    BY <2>a, <2>b, <2>c DEF NextStart
  <2>4. \/ /\ NextStart > UsizeMax /\ pc' = "validate"
           /\ UNCHANGED <<start, blocks_per_request>>
        \/ /\ NextStart <= UsizeMax /\ pc' = "request"
           /\ start' = NextStart /\ blocks_per_request' = NextBatch(size)
    BY <1>4, <2>1 DEF ResponseParsed
  <2>5. NextBatch(size) \in 1 .. UsizeMax
    BY NextBatchRange DEF Inv, BatchNeverEmpty
  <2>6. BatchNeverEmpty'
    BY <2>4, <2>5 DEF Inv, BatchNeverEmpty
  <2>7. start' \in Numbers
    BY <2>3, <2>4 DEF Numbers, Inv, TypeOK
  <2>8. TypeOK'
    BY <2>1, <2>2, <2>c, <2>3, <2>4, <2>6, <2>7, SMTT(40) DEF Inv, TypeOK, BatchNeverEmpty
  <2>9. AskedOK' /\ StageOK'
    BY <2>1, <2>4 DEF Inv, AskedOK, StageOK
  <2>9a. PlaceOK'
    BY <2>1, <2>2, <2>c, <2>3, <2>4 DEF PlaceOK
  <2>10. CountOK'
    <3>1. requests \in Nat /\ requests <= 2 * Len(res) + 2
      BY DEF Inv, TypeOK, CountOK, RequestsBounded
    <3>2. Len(res') \in Nat /\ 2 * Len(res') >= 2 * Len(res) + 2
      BY <2>2, <2>c, <2>3
    <3>3. requests' = requests /\ pc' # "await"
      BY <2>1, <2>4
    <3> QED BY <2>c, <3>1, <3>2, <3>3 DEF CountOK, RequestsBounded
  <2>11. ProvenanceOK'
    <3> SUFFICES ASSUME honest, NEW i \in 1 .. Len(res')
                 PROVE  \E c \in served' : first' + i <= Len(c) /\ res'[i] = c[first' + i]
      BY <2>1 DEF Inv, ProvenanceOK
    <3>1. CASE i <= Len(res)
      <4>1. i \in 1 .. Len(res) /\ res'[i] = res[i]
        BY <2>2, <2>c, <2>3, <3>1
      <4>2. \E c \in served : first + i <= Len(c) /\ res[i] = c[first + i]
        BY <4>1 DEF Inv, ProvenanceOK
      <4> QED BY <2>1, <4>1, <4>2
    <3>2. CASE i > Len(res)
      <4> DEFINE k == i - Len(res)
      <4>1. k \in 1 .. RequestedBlocks /\ i = Len(res) + k
        BY <2>2, <2>c, <2>3, <3>2
      <4>2. res'[i] = chain[asked.from + k]
        BY <1>4, <2>2, <4>1
      <4>3. start + k = first + i /\ first + i <= to + 1
        BY <2>c, <2>3, <4>1
      <4>4. chain \in served /\ Len(chain) \in Nat
        BY ChainsAssumption DEF Inv, ProvenanceOK, TypeOK
      <4>5. to < Len(chain)
        BY DEF to
      <4>6. first + i <= Len(chain)
        BY <2>a, <2>c, <2>3, <4>3, <4>4, <4>5
      <4> QED BY <2>a, <2>1, <4>2, <4>3, <4>4, <4>6
    <3> QED BY <2>2, <2>c, <2>3, <3>1, <3>2
  <2>12. CheckedOK'
    BY <2>1 DEF Inv, CheckedOK, StageOK
  <2> QED BY <2>6, <2>8, <2>9, <2>9a, <2>10, <2>11, <2>12 DEF Inv
<1> QED BY <1>1, <1>2, <1>3, <1>4

\* A request is made for the batch that comes next, cut to the range and to what fits a request.
LEMMA RequestInv ==
  ASSUME Inv, Request
  PROVE  Inv'
<1> USE NumbersAssumption DEF rangeVars, daemonVars
<1>1. /\ first \in Nat /\ last \in Nat /\ start \in Nat /\ start <= last /\ last <= UsizeMax
      /\ blocks_per_request \in 1 .. UsizeMax
  BY DEF Inv, TypeOK, BatchNeverEmpty, Numbers, Request
<1>2. Batch \in 1 .. blocks_per_request
  BY <1>1 DEF Batch
<1>3. BatchEnd \in start .. last /\ (start # BatchEnd => Batch > 1)
  BY <1>1, <1>2 DEF BatchEnd, SaturatingAdd, Least
<1>4. CappedEnd \in start .. last
  BY <1>1, <1>3 DEF CappedEnd, Least
<1>a. requests \in Nat /\ requests' \in Nat /\ requests' <= requests + 1
  BY DEF Inv, TypeOK, Request, Counted, Least
<1>5. TypeOK' /\ BatchNeverEmpty'
  BY <1>1, <1>2, <1>3, <1>4, <1>a DEF Inv, TypeOK, BatchNeverEmpty, Request, Numbers
<1>6. AskedOK'
  BY <1>3, <1>4 DEF Request, AskedOK
<1>7. PlaceOK' /\ StageOK'
  BY DEF Inv, Request, PlaceOK, StageOK
<1>8. CountOK'
  BY <1>1, <1>2, <1>a DEF Inv, TypeOK, Request, CountOK, RequestsBounded
<1>9. ProvenanceOK' /\ CheckedOK'
  BY DEF Inv, Request, ProvenanceOK, CheckedOK
<1> QED BY <1>5, <1>6, <1>7, <1>8, <1>9 DEF Inv

\* The replies an honest daemon sends are the blocks of its chain.
LEMMA HonestReplyInv ==
  ASSUME Inv, HonestReply
  PROVE  Inv'
<1>1. pc = "await" /\ honest
  BY DEF HonestReply
<1>2. CASE asked.to >= Len(chain)
  <2>1. Reject
    <3>1. asked.to \in Int /\ Len(chain) \in Int
      BY ChainsAssumption DEF Inv, TypeOK, Numbers
    <3> QED BY <1>2, <3>1 DEF HonestReply
  <2> QED BY <1>1, <2>1, RejectInv
<1>3. CASE asked.to < Len(chain)
  <2> DEFINE n == RequestedBlocks
             entries == [i \in 1 .. n |->
                           [id |-> asked.from + i - 1, block |-> chain[asked.from + i]]]
             from == asked.from
             to == asked.to
  <2>1. from \in Nat /\ to \in Nat /\ from <= to /\ to <= UsizeMax /\ chain \in Seq(Blocks)
    BY <1>1, NumbersAssumption, ChainsAssumption DEF Inv, TypeOK, AskedOK, Numbers
  <2>2. n = to - from + 1 /\ to < Len(chain)
    BY <1>3 DEF RequestedBlocks
  <2>3. PICK size \in Sizes : Receive(entries, size)
    <3>1. ~(asked.to >= Len(chain))
      BY <2>1, <2>2
    <3> QED BY <3>1 DEF HonestReply
  <2> HIDE DEF n, from, to
  <2>4. n \in Nat \ {0}
    BY <2>1, <2>2
  <2>5. size \in Nat \ {0}
    <3>1. n * MinBlockSize \in Nat \ {0} /\ n * MaxBlockSize \in Nat
      BY <2>4, NumbersAssumption
    <3> QED BY <2>3, <3>1 DEF Sizes, n
  <2>6. ASSUME NEW i \in 1 .. n
        PROVE  from + i - 1 \in from .. to /\ from + i \in 1 .. Len(chain)
    BY <2>1, <2>2, <2>6
  <2>7. entries \in Seq([id : Numbers, block : Blocks])
    <3>1. ASSUME NEW i \in 1 .. n
          PROVE  from + i - 1 \in Numbers /\ chain[from + i] \in Blocks
      <4>1. from + i - 1 \in from .. to /\ from + i \in 1 .. Len(chain)
        BY <2>6
      <4>2. from + i - 1 \in Numbers
        BY <2>1, <4>1, NumbersAssumption DEF Numbers
      <4> QED BY <2>1, <4>1, <4>2, ElementInSet
    <3>2. entries \in [1 .. n -> [id : Numbers, block : Blocks]]
      BY <3>1 DEF from
    <3> QED BY <2>4, <3>2
  <2>8. Len(entries) = n
    BY <2>4
  <2>9. ASSUME NEW i \in 1 .. n
        PROVE  BlockAnswering(entries, from + i - 1) = chain[from + i]
    <3>1. \A k \in 1 .. n : entries[k].id = from + k - 1 /\ entries[k].block = chain[from + k]
      BY DEF from
    <3> HIDE DEF entries
    <3>2. \A k \in 1 .. n : entries[k].id = from + i - 1 => k = i
      BY <2>1, <2>4, <3>1
    <3>3. entries[i].id = from + i - 1
      BY <3>1
    <3>4. (CHOOSE k \in 1 .. Len(entries) : entries[k].id = from + i - 1) = i
      BY <2>8, <3>2, <3>3
    <3> QED BY <3>1, <3>4 DEF BlockAnswering
  <2> QED BY <1>1, <2>2, <2>3, <2>5, <2>7, <2>9, ReceiveInv DEF n, from, to
<1> QED
  <2>1. asked.to \in Int /\ Len(chain) \in Int
    BY ChainsAssumption DEF Inv, TypeOK, Numbers
  <2> QED BY <1>2, <1>3, <2>1

\* Any other daemon's replies are blocks with ids.
LEMMA AnyReplyInv ==
  ASSUME Inv, AnyReply
  PROVE  Inv'
<1> USE NumbersAssumption
<1>1. pc = "await" /\ ~honest
  BY DEF AnyReply
<1> DEFINE from == asked.from
           to == asked.to
<1>2. from \in Nat /\ to \in Nat /\ from <= to /\ to <= UsizeMax
  BY <1>1 DEF Inv, TypeOK, AskedOK, Numbers
<1>3. RequestedBlocks = to - from + 1
  BY DEF RequestedBlocks
<1>4. PICK n \in {RequestedBlocks - 1, RequestedBlocks}, size \in Sizes :
        \E entries \in [1 .. n -> [id : from .. to, block : Blocks]] : Receive(entries, size)
  BY DEF AnyReply
<1>5. PICK entries \in [1 .. n -> [id : from .. to, block : Blocks]] : Receive(entries, size)
  BY <1>4
<1> HIDE DEF from, to
<1>6. RequestedBlocks \in Nat \ {0} /\ n \in Nat
  BY <1>2, <1>3, <1>4
<1>7. size \in Nat \ {0}
  <2>1. RequestedBlocks * MinBlockSize \in Nat \ {0} /\ RequestedBlocks * MaxBlockSize \in Nat
    BY <1>6
  <2> QED BY <1>4, <2>1 DEF Sizes
<1>8. entries \in Seq([id : Numbers, block : Blocks])
  <2>1. from .. to \subseteq Numbers
    BY <1>2 DEF Numbers
  <2>2. entries \in [1 .. n -> [id : Numbers, block : Blocks]]
    BY <1>5, <2>1
  <2> QED BY <1>6, <2>2, FunctionIsSeq
<1> QED BY <1>1, <1>5, <1>7, <1>8, ReceiveInv

\* The amount of blocks is right only for a range that is not empty.
LEMMA ValidateLengthInv ==
  ASSUME Inv, ValidateLength
  PROVE  Inv'
<1> USE DEF rangeVars, daemonVars, ValidateLength
<1>1. TypeOK' /\ BatchNeverEmpty' /\ AskedOK' /\ PlaceOK'
  BY DEF Inv, TypeOK, BatchNeverEmpty, AskedOK, PlaceOK
<1>2. CountOK' /\ ProvenanceOK' /\ CheckedOK'
  BY DEF Inv, CountOK, RequestsBounded, ProvenanceOK, CheckedOK
<1>3. StageOK'
  <2>1. first \in Nat /\ last \in Nat /\ Len(res) \in Nat /\ (Len(res) > 0 => first <= last)
    BY DEF Inv, TypeOK, PlaceOK, Numbers
  <2>2. Len(res) = ExpectedBlocks => first <= last /\ Len(res) = last - first + 1
    BY <2>1 DEF ExpectedBlocks, SaturatingSub, Greatest
  <2> QED BY <2>2 DEF Inv, StageOK
<1> QED BY <1>1, <1>2, <1>3 DEF Inv

\* A block that passes the check has its parent before it: a chain that has the block has the
\* parent, and by the hypothesis on the parent everything before.
LEMMA SanityCheckInv ==
  ASSUME Inv, SanityCheckContiguousBlocks
  PROVE  Inv'
<1> USE DEF rangeVars, daemonVars, SanityCheckContiguousBlocks
<1>1. TypeOK' /\ BatchNeverEmpty' /\ AskedOK' /\ PlaceOK'
  BY DEF Inv, TypeOK, BatchNeverEmpty, AskedOK, PlaceOK
<1>2. CountOK' /\ ProvenanceOK' /\ StageOK'
  BY DEF Inv, CountOK, RequestsBounded, ProvenanceOK, StageOK
<1>3. CheckedOK'
  <2>1. CASE checked' = checked
    BY <2>1 DEF Inv, CheckedOK
  <2>2. CASE checked < Len(res) /\ SanityCheckBlock(res, checked + 1) /\ checked' = checked + 1
    <3> DEFINE m == checked + 1
    <3>1. checked \in Nat /\ m \in 1 .. Len(res) /\ first \in Nat /\ m = checked + 1
      BY <2>2 DEF Inv, TypeOK, Numbers
    <3>a. SanityCheckBlock(res, m) /\ checked' = m
      BY <2>2
    <3> HIDE DEF m
    <3> SUFFICES ASSUME NEW c \in Chains, NEW i \in 1 .. m, first + i <= Len(c),
                        res[i] = c[first + i]
                 PROVE  \A j \in 1 .. i : res[j] = c[first + j]
      BY <3>a DEF CheckedOK
    <3>2. CASE i <= checked
      BY <3>1, <3>2 DEF Inv, CheckedOK
    <3>3. CASE i = m /\ m = 1
      BY <3>1, <3>3
    <3>4. CASE i = m /\ m > 1
      <4>1. res[m].previous = res[checked].hash
        BY <3>1, <3>4, <3>a DEF SanityCheckBlock
      <4>2. first + m \in 1 .. Len(c) /\ first + m # 1 /\ first + m - 1 = first + checked
            /\ first + checked \in 1 .. Len(c) /\ checked \in 1 .. Len(res)
        <5>1. Len(c) \in Nat /\ Len(res) \in Nat
          BY ChainBlocks DEF Inv, TypeOK
        <5> QED BY <3>1, <3>4, <5>1
      <4>3. c[first + m].previous = c[first + checked].hash /\ c \in Seq(Blocks)
        <5> DEFINE k == first + m
        <5>1. k \in 1 .. Len(c) /\ k # 1 /\ k - 1 = first + checked
          BY <3>1, <4>2
        <5> HIDE DEF k
        <5>2. c[k].previous = c[k - 1].hash /\ c \in Seq(Blocks)
          BY <5>1, ChainBlocks
        <5> QED BY <5>1, <5>2 DEF k
      <4>4. res[checked] \in Blocks /\ c[first + checked] \in Blocks
        BY <4>2, <4>3, ElementInSet DEF Inv, TypeOK
      <4>5. res[checked] = c[first + checked]
        BY <3>4, <4>1, <4>3, <4>4, BlocksAssumption
      <4>6. \A j \in 1 .. checked : res[j] = c[first + j]
        BY <3>1, <4>2, <4>5, SMTT(40) DEF Inv, CheckedOK
      <4>7. \A j \in 1 .. m : j # m => j \in 1 .. checked
        BY <3>1
      <4> QED BY <3>4, <4>6, <4>7, Zenon
    <3> QED BY <3>1, <3>2, <3>3, <3>4
  <2> QED BY <2>1, <2>2
<1> QED BY <1>1, <1>2, <1>3 DEF Inv

\* Every step of the fetch and of the daemon keeps the invariant.
LEMMA NextInv ==
  ASSUME Inv, [Next]_vars
  PROVE  Inv'
<1> USE DEF rangeVars, daemonVars
<1>1. CASE Request
  BY <1>1, RequestInv
<1>2. CASE Complete
  BY <1>2 DEF Complete, Inv, TypeOK, BatchNeverEmpty, AskedOK, PlaceOK, CountOK, RequestsBounded,
              ProvenanceOK, CheckedOK, StageOK
<1>3. CASE HonestReply
  BY <1>3, HonestReplyInv
<1>4. CASE AnyReply
  BY <1>4, AnyReplyInv
<1>5. CASE ValidateLength
  BY <1>5, ValidateLengthInv
<1>6. CASE SanityCheckContiguousBlocks
  BY <1>6, SanityCheckInv
<1>7. CASE Fails
  <2>1. pc = "await" /\ RequestFailed /\ faults' \in Nat
    BY <1>7 DEF Fails, Fault, Inv, TypeOK
  <2> QED BY <2>1, RequestFailedInv
<1>8. CASE ChainChanges
  <2>1. TypeOK' /\ BatchNeverEmpty' /\ AskedOK' /\ PlaceOK' /\ CountOK' /\ CheckedOK' /\ StageOK'
    BY <1>8, SMTT(30) DEF ChainChanges, Fault, Inv, TypeOK, BatchNeverEmpty, AskedOK, PlaceOK, CountOK,
                RequestsBounded, CheckedOK, StageOK
  <2>2. ProvenanceOK'
    BY <1>8 DEF ChainChanges, Inv, ProvenanceOK
  <2> QED BY <2>1, <2>2 DEF Inv
<1>9. CASE UNCHANGED vars
  BY <1>9 DEF vars, Inv, TypeOK, BatchNeverEmpty, AskedOK, PlaceOK, CountOK, RequestsBounded,
              ProvenanceOK, CheckedOK, StageOK
<1> QED BY <1>1, <1>2, <1>3, <1>4, <1>5, <1>6, <1>7, <1>8, <1>9
        DEF Next, Fetch, Terminated

\* The invariant holds throughout.
LEMMA InvHolds == Spec => []Inv
  BY InitInv, NextInv, PTL DEF Spec

---------------------------------------------------------------------------------
(* The theorems. *)

\* The state has its types: in particular no number leaves the width of a usize.
THEOREM TypeCorrect == Spec => []TypeOK
<1>1. Inv => TypeOK
  BY DEF Inv
<1> QED BY <1>1, InvHolds, PTL

\* The invariant the code's comment assumes, for every estimate, target and response size.
THEOREM BatchNeverEmptyHolds == Spec => []BatchNeverEmpty
<1>1. Inv => BatchNeverEmpty
  BY DEF Inv
<1> QED BY <1>1, InvHolds, PTL

\* However batches fail and are retried, no block is skipped or repeated.
THEOREM NothingSkippedHolds == Spec => []NothingSkipped
<1>1. Inv => NothingSkipped
  <2> SUFFICES ASSUME Inv PROVE NothingSkipped
    OBVIOUS
  <2>1. pc \in {"request", "await"} => start = first + Len(res)
    BY DEF Inv, PlaceOK
  <2>2. ASSUME honest, NEW i \in 1 .. Len(res) PROVE res[i].number = first + i - 1
    <3>1. PICK c \in served : first + i <= Len(c) /\ res[i] = c[first + i]
      BY <2>2 DEF Inv, ProvenanceOK
    <3>2. c \in Chains /\ first \in Nat
      BY <3>1 DEF Inv, TypeOK, Numbers
    <3>3. first + i \in 1 .. Len(c)
      BY <3>1, <3>2, ChainBlocks
    <3>4. c[first + i].number = first + i - 1
      BY <3>2, <3>3, ChainBlocks
    <3> QED BY <3>1, <3>4
  <2> QED BY <2>1, <2>2 DEF NothingSkipped
<1> QED BY <1>1, InvHolds, PTL

\* A fetch makes at most two requests a block, and two more.
THEOREM RequestsBoundedHolds == Spec => []RequestsBounded
<1>1. Inv => RequestsBounded
  BY DEF Inv, CountOK
<1> QED BY <1>1, InvHolds, PTL

\* Two sequences of blocks, one of them cut from a chain, that agree everywhere are the same.
LEMMA SameRange ==
  ASSUME Inv, pc = "ok", NEW c \in Chains, last < Len(c),
         \A j \in 1 .. Len(res) : res[j] = c[first + j]
  PROVE  res = SubSeq(c, first + 1, last + 1)
<1>1. first \in Nat /\ last \in Nat /\ first <= last /\ Len(res) = last - first + 1
  BY DEF Inv, TypeOK, StageOK, Numbers
<1>2. c \in Seq(Blocks) /\ res \in Seq(Blocks)
  BY ChainsAssumption DEF Inv, TypeOK
<1> QED BY <1>1, <1>2, SMTT(30)

\* No daemon can change what lies below the last block it is believed on.
THEOREM AuthenticBelowTipHolds == Spec => []AuthenticBelowTip
<1>1. Inv => AuthenticBelowTip
  <2> SUFFICES ASSUME Inv, pc = "ok", NEW c \in Chains, last < Len(c),
                      res[Len(res)] = c[last + 1]
               PROVE  res = SubSeq(c, first + 1, last + 1)
    BY DEF AuthenticBelowTip
  <2>1. /\ first \in Nat /\ last \in Nat /\ first <= last /\ Len(res) = last - first + 1
        /\ checked = Len(res)
    BY DEF Inv, TypeOK, StageOK, Numbers
  <2>2. /\ Len(res) \in 1 .. checked /\ first + Len(res) = last + 1
        /\ first + Len(res) <= Len(c)
    BY <2>1, ChainsAssumption
  <2>3. \A j \in 1 .. Len(res) : res[j] = c[first + j]
    BY <2>2 DEF Inv, CheckedOK
  <2> QED BY <2>3, SameRange
<1> QED BY <1>1, InvHolds, PTL

\* Through any changes of an honest daemon's chain, the result is a range of one chain it was on.
THEOREM OneChainHolds == Spec => []OneChain
<1>1. Inv => OneChain
  <2> SUFFICES ASSUME Inv, honest, pc = "ok"
               PROVE  \E c \in served : last < Len(c) /\ res = SubSeq(c, first + 1, last + 1)
    BY DEF OneChain
  <2>1. /\ first \in Nat /\ last \in Nat /\ first <= last /\ Len(res) = last - first + 1
        /\ checked = Len(res)
    BY DEF Inv, TypeOK, StageOK, Numbers
  <2>2. Len(res) \in 1 .. Len(res) /\ Len(res) \in 1 .. checked /\ first + Len(res) = last + 1
    BY <2>1
  <2>3. PICK c \in served : first + Len(res) <= Len(c) /\ res[Len(res)] = c[first + Len(res)]
    BY <2>2 DEF Inv, ProvenanceOK
  <2>4. c \in Chains
    BY <2>3 DEF Inv, TypeOK
  <2>5. last < Len(c)
    BY <2>1, <2>2, <2>3, <2>4, ChainsAssumption
  <2>6. \A j \in 1 .. Len(res) : res[j] = c[first + j]
    BY <2>2, <2>3, <2>4 DEF Inv, CheckedOK
  <2> QED BY <2>3, <2>4, <2>5, <2>6, SameRange
<1> QED BY <1>1, InvHolds, PTL

---------------------------------------------------------------------------------
(* A daemon which has the blocks, and answers. *)

\* What an honest daemon brings about: a single chain while nothing goes wrong, single blocks asked
\* for as such, and a range which is fetched up to its end and no further.
HonestOK ==
  honest =>
    /\ faults = 0 => served = {chain}
    /\ pc = "await" /\ asked.single => asked.to = asked.from
    /\ first <= last /\ pc = "request" => start <= last + 1
    /\ first <= last /\ pc = "validate" => Len(res) = last - first + 1

\* A daemon which has the range, and answers every request, each block in a response.
Served ==
  /\ honest /\ faults = 0 /\ MaxBlockSize <= MaxResponse
  /\ first <= last /\ last < Len(chain) /\ ExpectedBlocks <= UsizeMax

\* The blocks received undisturbed pass the check: they are those of the daemon's chain.
LEMMA ChainPassesCheck ==
  ASSUME Inv, HonestOK, Served, NEW i \in 1 .. Len(res)
  PROVE  SanityCheckBlock(res, i)
<1>1. first \in Nat /\ Len(res) \in Nat /\ chain \in Chains /\ served = {chain} /\ honest
  BY DEF Inv, TypeOK, Numbers, HonestOK, Served
<1>2. \A k \in 1 .. Len(res) : first + k <= Len(chain) /\ res[k] = chain[first + k]
  BY <1>1 DEF Inv, ProvenanceOK
<1>3. PICK k \in Nat : k = first + i
  BY <1>1
<1>4. k \in 1 .. Len(chain)
  BY <1>1, <1>2, <1>3, ChainBlocks
<1>5. res[i] = chain[k] /\ chain[k].number = k - 1 /\ k - 1 = first + i - 1
  BY <1>1, <1>2, <1>3, <1>4, ChainBlocks
<1>6. ASSUME i > 1 PROVE res[i].previous = res[i - 1].hash
  <2>1. i - 1 \in 1 .. Len(res) /\ k # 1 /\ first + (i - 1) = k - 1
    BY <1>1, <1>3, <1>6
  <2>2. res[i - 1] = chain[k - 1]
    BY <1>2, <2>1
  <2>3. chain[k].previous = chain[k - 1].hash
    BY <1>1, <1>4, <2>1, ChainBlocks
  <2> QED BY <1>5, <2>2, <2>3
<1>7. ASSUME i = 1, first = 0 PROVE res[i].previous = Zero
  <2>1. k = 1
    BY <1>3, <1>7
  <2>2. chain[1].previous = Zero
    BY <1>1, <1>4, <2>1, ChainsAssumption
  <2> QED BY <1>5, <2>1, <2>2
<1> QED BY <1>5, <1>6, <1>7 DEF SanityCheckBlock

\* A request for one block has a response which fits; one for several, which does not, is retried.
LEMMA FailedRequestRetried ==
  ASSUME Inv, HonestOK, pc = "await", honest, NEW size \in Sizes, size > MaxResponse,
         MaxBlockSize <= MaxResponse
  PROVE  ~asked.single
<1> SUFFICES ASSUME asked.single PROVE FALSE
  OBVIOUS
<1>1. asked.to = asked.from /\ asked.from \in Nat
  BY NumbersAssumption DEF HonestOK, Inv, TypeOK, Numbers
<1>2. RequestedBlocks = 1
  BY <1>1 DEF RequestedBlocks
<1>3. size \in MinBlockSize .. MaxBlockSize
  BY <1>2, NumbersAssumption DEF Sizes
<1> QED BY <1>3, NumbersAssumption

\* What an honest daemon sends is the answer to what was asked.
LEMMA HonestAnswered ==
  ASSUME NEW from \in Nat, NEW to \in Nat, from <= to, asked.from = from, asked.to = to, NEW blocks,
         NEW entries, entries = [i \in 1 .. RequestedBlocks |-> [id |-> from + i - 1, block |-> blocks[from + i]]]
  PROVE  Answered(entries)
<1>1. PICK n \in Nat : n = to - from + 1 /\ n = RequestedBlocks
  BY DEF RequestedBlocks
<1>2. entries = [i \in 1 .. n |-> [id |-> from + i - 1, block |-> blocks[from + i]]]
  BY <1>1
<1>3. Len(entries) = n /\ \A i \in 1 .. n : entries[i].id = from + i - 1
  BY <1>1, <1>2
<1>4. ASSUME NEW x \in from .. to PROVE \E i \in 1 .. n : entries[i].id = x
  <2>1. x - from + 1 \in 1 .. n /\ from + (x - from + 1) - 1 = x
    BY <1>1
  <2> QED BY <1>3, <2>1
<1>5. \A i \in 1 .. n : entries[i].id \in from .. to
  BY <1>1, <1>3
<1>6. {entries[i].id : i \in 1 .. Len(entries)} = from .. to
  <2> DEFINE range == from .. to
             indexes == 1 .. n
  <2>1. /\ 1 .. Len(entries) = indexes
        /\ \A i \in indexes : entries[i].id \in range
        /\ \A x \in range : \E i \in indexes : entries[i].id = x
    BY <1>3, <1>4, <1>5
  <2> HIDE DEF range, indexes
  <2>2. {entries[i].id : i \in indexes} = range
    BY ONLY <2>1, Zenon
  <2> QED BY <2>1, <2>2, Zenon DEF range
<1> QED BY <1>1, <1>3, <1>6 DEF Answered

\* A reply of an honest daemon brings the range further, or is asked for again.
LEMMA HonestReplySteady ==
  ASSUME Inv, HonestOK, HonestReply
  PROVE  /\ HonestOK'
         /\ Limits /\ Served => pc' # "err"
<1> USE DEF rangeVars, daemonVars
<1> DEFINE from == asked.from
           to == asked.to
           entries == [i \in 1 .. RequestedBlocks |-> [id |-> from + i - 1, block |-> chain[from + i]]]
<1>1. pc = "await" /\ honest
  BY DEF HonestReply
<1>2. /\ first \in Nat /\ last \in Nat /\ start \in Nat /\ Len(res) \in Nat /\ Len(chain) \in Nat
      /\ to \in start .. last /\ from = start /\ start = first + Len(res) /\ last <= UsizeMax
      /\ UsizeMax \in Nat
  BY <1>1, NumbersAssumption, ChainBlocks DEF Inv, TypeOK, AskedOK, PlaceOK, Numbers
<1>3. from \in Nat /\ to \in Nat /\ from <= to
  BY <1>2
<1>4. RequestedBlocks = to - from + 1
  BY DEF RequestedBlocks
<1>5. UNCHANGED <<first, last, honest, asked, chain, served, faults>>
  BY DEF HonestReply, Receive, RequestFailed, Reject
<1>6. ASSUME Reject, ~(Limits /\ Served) PROVE HonestOK' /\ (Limits /\ Served => pc' # "err")
  <2>1. pc' = "err"
    BY <1>6 DEF Reject
  <2> QED BY <1>5, <1>6, <2>1 DEF HonestOK
<1>7. CASE to >= Len(chain)
  <2>1. Reject
    BY <1>2, <1>3, <1>7 DEF HonestReply
  <2>2. ~Served
    BY <1>2, <1>7 DEF Served
  <2> QED BY <1>6, <2>1, <2>2
<1>8. CASE to < Len(chain)
  <2>1. PICK size \in Sizes : Receive(entries, size)
    <3>1. ~(asked.to >= Len(chain))
      BY <1>2, <1>3, <1>8
    <3> QED BY <3>1 DEF HonestReply
  <2>2. Answered(entries)
    BY <1>3, HonestAnswered
  <2>3. size \in Int /\ MaxResponse \in Int
    <3>1. RequestedBlocks * MinBlockSize \in Int /\ RequestedBlocks * MaxBlockSize \in Int
      BY <1>3, <1>4, NumbersAssumption
    <3> QED BY <3>1, NumbersAssumption DEF Sizes
  <2> HIDE DEF entries, from, to
  <2>4. CASE size > MaxResponse /\ ~Limits
    <3>1. Reject
      BY <2>1, <2>3, <2>4 DEF Receive
    <3> QED BY <1>6, <2>4, <3>1
  <2>5. CASE size > MaxResponse /\ Limits
    <3>1. RequestFailed
      BY <2>1, <2>3, <2>5 DEF Receive
    <3>2. UNCHANGED <<start, res>> /\ start <= last + 1
      BY <1>2, <3>1 DEF RequestFailed
    <3>3. pc' \in {"err", "request"}
      BY <3>1 DEF RequestFailed
    <3>4. HonestOK'
      BY <1>5, <3>2, <3>3 DEF HonestOK
    <3>5. ASSUME Served PROVE pc' # "err"
      <4>1. ~asked.single
        BY <1>1, <2>5, <3>5, FailedRequestRetried DEF Served
      <4> QED BY <3>1, <4>1 DEF RequestFailed, Propagates
    <3> QED BY <3>4, <3>5
  <2>6. CASE size <= MaxResponse
    <3>1. /\ res' = res \o [i \in 1 .. RequestedBlocks |-> BlockAnswering(entries, asked.from + i - 1)]
          /\ \/ NextStart > UsizeMax /\ pc' = "validate"
             \/ start' = NextStart /\ pc' = "request"
      <4>1. ResponseParsed(entries, size)
        BY <2>1, <2>3, <2>6 DEF Receive
      <4> QED BY <2>2, <4>1, Zenon DEF ResponseParsed
    <3>2. entries \in Seq([id : Numbers, block : Blocks])
      <4>1. ASSUME NEW i \in 1 .. RequestedBlocks
            PROVE  from + i - 1 \in Numbers /\ chain[from + i] \in Blocks
        <5>1. from + i - 1 \in Numbers /\ from + i \in 1 .. Len(chain)
          BY <1>2, <1>3, <1>4, <1>8 DEF Numbers
        <5>2. chain \in Seq(Blocks)
          BY ChainBlocks DEF Inv, TypeOK
        <5> QED BY <5>1, <5>2, ElementInSet
      <4>2. entries \in [1 .. RequestedBlocks -> [id : Numbers, block : Blocks]]
        BY <4>1 DEF entries
      <4>3. RequestedBlocks \in Nat
        BY <1>3, <1>4
      <4> QED BY <4>2, <4>3, FunctionIsSeq
    <3>3. Len(res') = Len(res) + RequestedBlocks
      BY <1>1, <2>2, <3>1, <3>2, Extended DEF Inv
    <3>4. NextStart = to + 1 /\ Len(res') = to + 1 - first
      BY <1>2, <1>3, <1>4, <3>3 DEF NextStart
    <3>5. pc' \in {"validate", "request"} /\ pc' # "err"
      BY <3>1
    <3>6. pc' = "validate" => to = last
      BY <1>2, <1>3, <3>1, <3>4
    <3>7. pc' = "request" => start' <= last + 1
      BY <1>2, <1>3, <3>1, <3>4
    <3>8. pc' = "validate" => Len(res') = last - first + 1
      BY <1>2, <1>3, <3>4, <3>6
    <3> QED BY <1>5, <3>5, <3>7, <3>8 DEF HonestOK
  <2> QED BY <2>3, <2>4, <2>5, <2>6
<1> QED BY <1>2, <1>3, <1>7, <1>8

\* Every step keeps HonestOK, and fails no daemon which has the range and answers.
LEMMA HonestNext ==
  ASSUME Inv, HonestOK, HonestFetchSucceeds, [Next]_vars
  PROVE  HonestOK' /\ (Limits => HonestFetchSucceeds')
<1> USE DEF rangeVars, daemonVars
<1>1. /\ first \in Nat /\ last \in Nat /\ start \in Nat /\ Len(res) \in Nat /\ faults \in Nat
      /\ pc \in {"request", "await"} => start = first + Len(res)
  BY DEF Inv, TypeOK, PlaceOK, Numbers
<1>2. ASSUME UNCHANGED <<first, last, honest, chain, faults>>, Limits /\ Served => pc' # "err"
      PROVE  Limits => HonestFetchSucceeds'
  BY <1>2 DEF HonestFetchSucceeds, Served, ExpectedBlocks
<1>3. Served => pc # "err"
  BY DEF HonestFetchSucceeds, Served
<1>4. CASE Request
  <2>1. /\ UNCHANGED <<first, last, honest, chain, faults, served>> /\ pc' = "await"
        /\ asked' = [from |-> start, to |-> CappedEnd, single |-> start = BatchEnd]
    BY <1>4 DEF Request
  <2>2. start = BatchEnd => CappedEnd = start
    BY <1>1, NumbersAssumption DEF CappedEnd, Least
  <2> QED BY <1>2, <2>1, <2>2 DEF HonestOK
<1>5. CASE Complete
  <2>1. /\ UNCHANGED <<first, last, honest, chain, faults, served, res>> /\ pc' = "validate"
        /\ pc = "request" /\ start > last
    BY <1>5 DEF Complete
  <2>2. honest /\ first <= last => Len(res) = last - first + 1
    BY <1>1, <2>1 DEF HonestOK
  <2> QED BY <1>2, <2>1, <2>2 DEF HonestOK
<1>6. CASE HonestReply
  <2>1. UNCHANGED <<first, last, honest, chain, faults>>
    BY <1>6 DEF HonestReply, Receive, RequestFailed, Reject
  <2> QED BY <1>2, <1>6, <2>1, HonestReplySteady
<1>7. CASE AnyReply
  <2>1. ~honest /\ ~honest'
    BY <1>7 DEF AnyReply, Receive, RequestFailed, Reject
  <2> QED BY <2>1 DEF HonestOK, HonestFetchSucceeds
<1>8. CASE ValidateLength
  <2>1. /\ UNCHANGED <<first, last, honest, chain, faults, served>> /\ pc = "validate"
        /\ pc' = IF ExpectedBlocks <= UsizeMax /\ Len(res) = ExpectedBlocks THEN "check" ELSE "err"
    BY <1>8 DEF ValidateLength
  <2>2. ASSUME Served PROVE pc' # "err"
    <3>1. Len(res) = last - first + 1 /\ first <= last /\ ExpectedBlocks <= UsizeMax
      BY <2>1, <2>2 DEF HonestOK, Served
    <3>2. ExpectedBlocks = last - first + 1
      BY <1>1, <3>1 DEF ExpectedBlocks, SaturatingSub, Greatest
    <3> QED BY <2>1, <3>1, <3>2
  <2> QED BY <1>2, <2>1, <2>2 DEF HonestOK
<1>9. CASE SanityCheckContiguousBlocks
  <2>1. UNCHANGED <<first, last, honest, chain, faults, served>> /\ pc' \in {"check", "ok", "err"}
    BY <1>9 DEF SanityCheckContiguousBlocks
  <2>2. ASSUME Served PROVE pc' # "err"
    <3>1. checked < Len(res) => checked + 1 \in 1 .. Len(res)
      BY DEF Inv, TypeOK
    <3>2. checked < Len(res) => SanityCheckBlock(res, checked + 1)
      BY <2>2, <3>1, ChainPassesCheck
    <3> QED BY <1>9, <3>2 DEF SanityCheckContiguousBlocks
  <2> QED BY <1>2, <2>1, <2>2 DEF HonestOK
<1>10. ASSUME faults' = faults + 1, UNCHANGED <<first, last, honest>>,
              honest /\ pc' = "await" => UNCHANGED <<pc, asked>>,
              honest /\ first <= last /\ pc' = "request" => start' <= last + 1,
              honest /\ pc' = "validate" => UNCHANGED <<pc, res>>
       PROVE  HonestOK' /\ (Limits => HonestFetchSucceeds')
  BY <1>1, <1>10 DEF HonestOK, HonestFetchSucceeds
<1>11. CASE Fails
  <2>1. /\ faults' = faults + 1 /\ UNCHANGED <<first, last, honest, start>> /\ pc' \in {"err", "request"}
        /\ pc = "await"
    BY <1>11 DEF Fails, Fault, RequestFailed
  <2>2. start <= last + 1
    BY <1>1, <2>1 DEF Inv, AskedOK
  <2> QED BY <1>10, <2>1, <2>2
<1>12. CASE ChainChanges
  <2>1. faults' = faults + 1 /\ UNCHANGED <<first, last, honest, start, pc, asked, res>>
    BY <1>12 DEF ChainChanges, Fault
  <2>2. honest /\ first <= last /\ pc' = "request" => start' <= last + 1
    BY <2>1 DEF HonestOK
  <2> QED BY <1>10, <2>1, <2>2
<1>13. CASE UNCHANGED vars
  BY <1>13 DEF vars, HonestOK, HonestFetchSucceeds, ExpectedBlocks
<1> QED BY <1>4, <1>5, <1>6, <1>7, <1>8, <1>9, <1>11, <1>12, <1>13 DEF Next, Fetch, Terminated

\* With response_size_limits, a daemon which has the blocks and answers is never failed: however the
\* sizes of its responses make batches fail, each is fetched again in pieces which succeed. (Without
\* them a truncated response is not retried, which the run blocks_without_limits shows.)
THEOREM HonestFetchSucceedsHolds ==
  ASSUME Limits
  PROVE  Spec => []HonestFetchSucceeds
<1>1. Init => HonestOK /\ HonestFetchSucceeds
  <2> SUFFICES ASSUME Init PROVE HonestOK /\ HonestFetchSucceeds
    OBVIOUS
  <2>1. Inv
    BY InitInv
  <2>2. first \in Nat /\ last \in Nat
    BY <2>1 DEF Inv, TypeOK, Numbers
  <2> QED BY <2>2 DEF Init, HonestOK, HonestFetchSucceeds
<1>2. Inv /\ HonestOK /\ HonestFetchSucceeds /\ [Next]_vars => (HonestOK /\ HonestFetchSucceeds)'
  BY HonestNext
<1> QED BY <1>1, <1>2, InvHolds, PTL DEF Spec
================================================================================
