------------------------------ MODULE DecoyProofs -------------------------------
(***************************************************************************)
(* Proofs about DecoySelection, for every node, every number of callers    *)
(* and every limit.                                                        *)
(***************************************************************************)
EXTENDS DecoySelection, OrderProofs

TypeOK ==
  /\ chain \in Chains /\ height \in 0 .. Top
  /\ tape \in Seq(Nat \X Nat)
  /\ ring_len \in 0 .. 255 /\ block_number \in Nat /\ real \in Nat
  /\ pc \in [Callers -> {"start", "distribution", "select", "reply", "done", "err"}]
  /\ distribution \in [Callers -> Seq(Nat)]
  /\ do_not_select \in [Callers -> SUBSET Nat]
  /\ candidates \in [Callers -> Seq(Nat)]
  /\ first_iter \in [Callers -> BOOLEAN]
  /\ real_index \in [Callers -> Nat]
  /\ iters \in [Callers -> Nat]
  /\ res \in [Callers -> Seq(Nat)]
  /\ ring = [c \in Callers |-> ring[c]]
  /\ asked \in [Callers -> Seq(Nat)]

\* An honest node has the block the decoys are selected as of.
Served(c) == Honest /\ pc[c] \notin {"start", "err"} => block_number <= height

\* Nothing is requested before there is a distribution, nor one for no ring.
Fresh(c) ==
  /\ pc[c] \in {"start", "distribution"} => first_iter[c]
  /\ pc[c] = "distribution" => ring_len # 0

\* Once there is a distribution, it is one there is enough to select from in.
Counting(c) ==
  pc[c] \in {"select", "reply", "done"} =>
    /\ ring_len >= 1
    /\ Monotonic(distribution[c]) /\ Len(distribution[c]) >= LockWindow
    /\ real \in do_not_select[c] /\ IsFiniteSet(do_not_select[c])
    /\ Cardinality(do_not_select[c]) <= Bound(c)
    /\ Len(res[c]) <= DecoyCount

\* What was asked for, each output once, the real one with the first.
Asking(c) ==
  /\ Distinct(asked[c]) /\ Members(asked[c]) \subseteq do_not_select[c]
  /\ first_iter[c] => asked[c] = <<>>
  /\ ~first_iter[c] => \E i \in 1 .. ring_len : i <= Len(asked[c]) /\ asked[c][i] = real

Found(c) == Distinct(res[c]) /\ Members(res[c]) \subseteq Members(asked[c]) \ {real}

\* The candidates being selected are new.
Selecting(c) ==
  pc[c] = "select" =>
    /\ Distinct(candidates[c])
    /\ Members(candidates[c]) \subseteq do_not_select[c] \ (Members(asked[c]) \cup {real})
    /\ Len(res[c]) + Len(candidates[c]) <= DecoyCount

\* The candidates that were requested are none of those found before; the real output is with those of
\* the first request, at real_index.
Replying(c) ==
  pc[c] = "reply" =>
    /\ Distinct(candidates[c])
    /\ Members(candidates[c]) \subseteq Members(asked[c]) \ Members(res[c])
    /\ real_index[c] = 0 => real \notin Members(candidates[c])
    /\ real_index[c] = 0 => Len(res[c]) + Len(candidates[c]) = DecoyCount
    /\ real_index[c] # 0 => real_index[c] \in 1 .. Len(candidates[c])
    /\ real_index[c] # 0 => candidates[c][real_index[c]] = real
    /\ real_index[c] # 0 => Len(res[c]) + Len(candidates[c]) = ring_len
    /\ ~first_iter[c]

Returned(c) ==
  pc[c] = "done" => Len(res[c]) = DecoyCount /\ ring[c] = SelectedRing(Append(res[c], real))

CallerInv(c) ==
  /\ Served(c) /\ Fresh(c) /\ Counting(c) /\ Asking(c) /\ Found(c)
  /\ Selecting(c) /\ Replying(c) /\ Returned(c)
Inv == TypeOK /\ \A c \in Callers : CallerInv(c)

---------------------------------------------------------------------------------
(* The distribution and what is drawn from it. *)

\* What the checks of a distribution leave: its bound is a count, and no later one is below it.
LEMMA BoundIsACount ==
  ASSUME NEW counts \in Seq(Nat), Monotonic(counts), Len(counts) >= LockWindow
  PROVE  /\ Len(counts) - LockWindow + 1 \in 1 .. Len(counts)
         /\ HighestOutputExclusiveBound(counts) \in Nat
         /\ \A i, j \in 1 .. Len(counts) : i <= j => counts[i] <= counts[j]
<1>1. Len(counts) - LockWindow + 1 \in 1 .. Len(counts)
  BY NumbersAssumption
<1>2. HighestOutputExclusiveBound(counts) \in Nat
  BY <1>1 DEF HighestOutputExclusiveBound
<1>3. counts \in Seq(Int) /\ \A i \in 1 .. Len(counts) - 1 : counts[i] <= counts[i + 1]
  BY DEF Monotonic
<1>4. \A i, j \in 1 .. Len(counts) : i <= j => counts[i] <= counts[j]
  BY <1>3, StepsIncrease
<1>. QED
  BY <1>1, <1>2, <1>4

\* An age points to a block of the distribution no later than the one the bound is of.
LEMMA BlockForIsOlder ==
  ASSUME NEW counts \in Seq(Nat), Monotonic(counts), Len(counts) >= LockWindow, NEW o \in Nat
  PROVE  /\ BlockFor(counts, o) \in 0 .. Len(counts) - LockWindow
         /\ PrevOutputs(counts, o) \in Nat
         /\ counts[BlockFor(counts, o) + 1] \in Nat
         /\ PrevOutputs(counts, o) <= counts[BlockFor(counts, o) + 1]
         /\ counts[BlockFor(counts, o) + 1] <= HighestOutputExclusiveBound(counts)
<1>0. PICK n \in Nat : n = Len(counts)
  OBVIOUS
<1>. DEFINE bound == HighestOutputExclusiveBound(counts)
            p == n - LockWindow + 1
            before == {i \in 1 .. n : counts[i] < bound - 1 - o}
<1>1. /\ p \in 1 .. n /\ bound \in Nat
      /\ \A i, j \in 1 .. n : i <= j => counts[i] <= counts[j]
  BY <1>0, BoundIsACount
<1>2. bound = counts[p]
  BY <1>0 DEF HighestOutputExclusiveBound
<1>3. BlockFor(counts, o) = Cardinality(before)
  BY <1>0 DEF BlockFor
<1>4. \A i \in 1 .. n : counts[i] \in Nat
  BY <1>0
<1>. HIDE DEF bound
<1>5. ASSUME NEW i \in before PROVE i \in 1 .. p - 1
  <2>1. i \in 1 .. n /\ counts[i] < bound - 1 - o
    OBVIOUS
  <2>2. ~(p <= i)
    BY <1>1, <1>2, <1>4, <2>1, SMTT(30)
  <2>. QED
    BY <1>1, <2>1, <2>2
<1>. HIDE DEF before, p
<1>6. IsFiniteSet(1 .. p - 1) /\ Cardinality(1 .. p - 1) = p - 1
  BY <1>1, FS_Interval
<1>7. before \in SUBSET (1 .. p - 1)
  BY <1>5
<1>8. IsFiniteSet(before) /\ Cardinality(before) <= p - 1
  BY <1>6, <1>7, FS_Subset
<1>9. Cardinality(before) \in Nat
  BY <1>8, FS_CardinalityType
<1>10. PICK b \in Nat : b = BlockFor(counts, o) /\ b <= p - 1
  BY <1>3, <1>8, <1>9
<1>11. b + 1 \in 1 .. n /\ b + 1 <= p /\ (b # 0 => b \in 1 .. n)
  BY <1>1, <1>10
<1>12. counts[b + 1] \in Nat /\ counts[b + 1] <= bound
  BY <1>1, <1>2, <1>4, <1>11
<1>13. b # 0 => counts[b] \in Nat /\ counts[b] <= counts[b + 1]
  BY <1>1, <1>4, <1>11
<1>14. PrevOutputs(counts, o) = IF b = 0 THEN 0 ELSE counts[b]
  BY <1>10 DEF PrevOutputs
<1>15. b \in 0 .. n - LockWindow
  BY <1>1, <1>10, NumbersAssumption DEF p
<1>16. PrevOutputs(counts, o) \in Nat /\ PrevOutputs(counts, o) <= counts[b + 1]
  BY <1>12, <1>13, <1>14
<1>. QED
  BY <1>0, <1>10, <1>12, <1>15, <1>16 DEF bound

\* A draw of such a distribution is a pair of naturals, and what it selects is below the bound.
LEMMA DrawsAreBelowBound ==
  ASSUME NEW counts \in Seq(Nat), Monotonic(counts), Len(counts) >= LockWindow, NEW draw \in Draws(counts)
  PROVE  /\ draw \in Nat \X Nat
         /\ draw[1] < HighestOutputExclusiveBound(counts) /\ OutputsIn(counts, draw[1]) # 0 =>
              PrevOutputs(counts, draw[1]) + draw[2] < HighestOutputExclusiveBound(counts)
<1>. DEFINE bound == HighestOutputExclusiveBound(counts)
<1>1. bound \in Nat
  BY BoundIsACount
<1>2. CASE draw = <<bound, 0>>
  BY <1>1, <1>2
<1>3. CASE \E o \in 0 .. bound - 1 :
             \E w \in 0 .. (IF OutputsIn(counts, o) = 0 THEN 0 ELSE OutputsIn(counts, o) - 1) : draw = <<o, w>>
  <2>0. PICK o \in 0 .. bound - 1 :
          \E w \in 0 .. (IF OutputsIn(counts, o) = 0 THEN 0 ELSE OutputsIn(counts, o) - 1) : draw = <<o, w>>
    BY <1>3
  <2>1. PICK w \in 0 .. (IF OutputsIn(counts, o) = 0 THEN 0 ELSE OutputsIn(counts, o) - 1) : draw = <<o, w>>
    BY <2>0
  <2>2. o \in Nat
    BY <1>1
  <2>3. PICK high \in Nat, low \in Nat :
          /\ high = counts[BlockFor(counts, o) + 1] /\ low = PrevOutputs(counts, o)
          /\ low <= high /\ high <= bound
    BY <2>2, BlockForIsOlder
  <2>4. OutputsIn(counts, o) = high - low
    BY <2>3 DEF OutputsIn
  <2>5. w \in Nat
    BY <2>1, <2>3, <2>4
  <2>6. OutputsIn(counts, o) # 0 => low + w < bound
    BY <1>1, <2>3, <2>4, SMTT(30)
  <2>. QED
    BY <2>1, <2>2, <2>3, <2>5, <2>6
<1>. QED
  BY <1>2, <1>3 DEF Draws

---------------------------------------------------------------------------------
(* The steps. *)

LEMMA InitInv == Init => Inv
<1>. SUFFICES ASSUME Init PROVE Inv
  OBVIOUS
<1>1. ring_len \in 0 .. 255 /\ block_number \in Nat /\ height \in 0 .. Top /\ real \in Nat
  BY NumbersAssumption DEF Init
<1>2. TypeOK
  BY <1>1 DEF Init, TypeOK
<1>3. ASSUME NEW c \in Callers PROVE CallerInv(c)
  <2>1. /\ pc[c] = "start" /\ do_not_select[c] = {} /\ candidates[c] = <<>> /\ first_iter[c] = TRUE
        /\ res[c] = <<>> /\ asked[c] = <<>>
    BY DEF Init
  <2>2. Members(<<>>) = {} /\ Distinct(<<>>)
    BY DEF Members, Distinct
  <2>. QED
    BY <2>1, <2>2 DEF CallerInv, Served, Fresh, Counting, Asking, Found, Selecting, Replying, Returned
<1>. QED
  BY <1>2, <1>3 DEF Inv

\* What a call keeps, all but its count of the iterations.
Local(c) == <<pc[c], distribution[c], do_not_select[c], candidates[c], first_iter[c], real_index[c],
              res[c], ring[c], asked[c]>>

\* A call is left as it is by the steps of the others, and of the node.
LEMMA LeftAlone ==
  ASSUME NEW d, CallerInv(d), UNCHANGED argVars, UNCHANGED Local(d),
         height \in Int, height' \in Int, height <= height', block_number \in Int
  PROVE  CallerInv(d)'
<1>1. Served(d)' /\ Fresh(d)'
  BY DEF CallerInv, Served, Fresh, argVars, Local
<1>2. Counting(d)'
  BY DEF CallerInv, Counting, argVars, Local, Bound, DecoyCount
<1>3. Asking(d)' /\ Found(d)' /\ Selecting(d)' /\ Replying(d)'
  BY DEF CallerInv, Asking, Found, Selecting, Replying, argVars, Local, DecoyCount
<1>4. Returned(d)'
  BY DEF CallerInv, Returned, argVars, Local, DecoyCount, SelectedRing
<1>. QED
  BY <1>1, <1>2, <1>3, <1>4 DEF CallerInv

\* So the step of a call is to be looked at for that call alone.
LEMMA OneCall ==
  ASSUME Inv, NEW c \in Callers, TypeOK', CallerInv(c)', UNCHANGED argVars, UNCHANGED height,
         \A d \in Callers : d # c => UNCHANGED Local(d)
  PROVE  Inv'
<1>1. height \in Int /\ block_number \in Int
  BY DEF Inv, TypeOK
<1>2. ASSUME NEW d \in Callers PROVE CallerInv(d)'
  <2>1. CASE d = c
    BY <2>1
  <2>2. CASE d # c
    BY <1>1, <2>2, LeftAlone DEF Inv
  <2>. QED
    BY <2>1, <2>2
<1>. QED
  BY <1>2 DEF Inv

LEMMA GrowKeepsInv == Inv /\ Grow => Inv'
<1>. SUFFICES ASSUME Inv, Grow PROVE Inv'
  OBVIOUS
<1>1. height \in Int /\ height' \in Int /\ height <= height' /\ block_number \in Int /\ height' \in 0 .. Top
  BY NumbersAssumption DEF Inv, TypeOK, Grow
<1>2. TypeOK'
  BY <1>1 DEF Inv, TypeOK, Grow, argVars
<1>3. ASSUME NEW d \in Callers PROVE CallerInv(d)'
  <2>1. UNCHANGED argVars /\ UNCHANGED Local(d)
    BY DEF Grow, Local
  <2>. QED
    BY <1>1, <2>1, LeftAlone DEF Inv
<1>. QED
  BY <1>2, <1>3 DEF Inv

\* A call that fails keeps what it has asked for and found.
LEMMA FailureKeepsInv ==
  ASSUME Inv, NEW c \in Callers, Fails(c), TypeOK', UNCHANGED <<argVars, height, asked, res, first_iter>>,
         do_not_select'[c] = do_not_select[c], \A d \in Callers : d # c => UNCHANGED Local(d)
  PROVE  Inv'
<1>1. pc'[c] = "err"
  BY DEF Fails, Inv, TypeOK
<1>2. CallerInv(c)
  BY DEF Inv
<1>3. Asking(c)' /\ Found(c)'
  BY <1>2 DEF CallerInv, Asking, Found, argVars
<1>4. CallerInv(c)'
  BY <1>1, <1>3 DEF CallerInv, Served, Fresh, Counting, Selecting, Replying, Returned
<1>. QED
  BY <1>4, OneCall

LEMMA RequestFailsKeepsInv == ASSUME NEW c \in Callers PROVE Inv /\ RequestFails(c) => Inv'
<1>. SUFFICES ASSUME Inv, RequestFails(c) PROVE Inv'
  OBVIOUS
<1>1. TypeOK'
  BY DEF Inv, TypeOK, RequestFails, Fails, argVars
<1>2. \A d \in Callers : d # c => UNCHANGED Local(d)
  BY DEF Inv, TypeOK, RequestFails, Fails, Local
<1>. QED
  BY <1>1, <1>2, FailureKeepsInv DEF RequestFails

LEMMA StartKeepsInv == ASSUME NEW c \in Callers PROVE Inv /\ Start(c) => Inv'
<1>. SUFFICES ASSUME Inv, Start(c) PROVE Inv'
  OBVIOUS
<1>1. TypeOK'
  BY DEF Inv, TypeOK, Start, Fails, argVars, nodeVars
<1>2. \A d \in Callers : d # c => UNCHANGED Local(d)
  BY DEF Inv, TypeOK, Start, Fails, Local
<1>3. CASE Fails(c)
  BY <1>1, <1>2, <1>3, FailureKeepsInv DEF Start, nodeVars
<1>4. CASE /\ pc' = [pc EXCEPT ![c] = "distribution"]
           /\ Honest => block_number <= height
           /\ ring_len # 0
  <2>1. pc'[c] = "distribution"
    BY <1>4 DEF Inv, TypeOK
  <2>2. Served(c)'
    BY <1>4 DEF Served, Start, argVars, nodeVars
  <2>5. Fresh(c)'
    BY <1>4 DEF Inv, CallerInv, Fresh, Start, argVars
  <2>3. Asking(c)' /\ Found(c)'
    BY DEF Inv, CallerInv, Asking, Found, argVars, Start
  <2>4. CallerInv(c)'
    BY <2>1, <2>2, <2>3, <2>5 DEF CallerInv, Counting, Selecting, Replying, Returned
  <2>. QED
    BY <1>1, <1>2, <2>4, OneCall DEF Start, nodeVars
<1>5. block_number \in Nat /\ height \in Nat
  BY DEF Inv, TypeOK
<1>. QED
  BY <1>3, <1>4, <1>5 DEF Start

\* Going on with the decoys found so far.
LEMMA ContinueKeepsInv ==
  ASSUME Inv, NEW c \in Callers, NEW decoys \in Seq(Nat), Continue(c, decoys),
         UNCHANGED <<chain, height, tape, argVars, asked, first_iter, real_index, iters>>,
         distribution' \in [Callers -> Seq(Nat)], do_not_select' \in [Callers -> SUBSET Nat],
         \A d \in Callers : d # c => UNCHANGED <<distribution[d], do_not_select[d]>>,
         Distinct(decoys), Members(decoys) \subseteq Members(asked[c]) \ {real}, Len(decoys) <= DecoyCount,
         Members(asked[c]) \subseteq do_not_select'[c],
         Honest => block_number <= height,
         ring_len >= 1, Monotonic(distribution'[c]), Len(distribution'[c]) >= LockWindow,
         real \in do_not_select'[c], IsFiniteSet(do_not_select'[c]),
         Cardinality(do_not_select'[c]) <= HighestOutputExclusiveBound(distribution'[c])
  PROVE  Inv'
<1>1. /\ pc' \in [Callers -> {"start", "distribution", "select", "reply", "done", "err"}]
      /\ ring' = [d \in Callers |-> ring'[d]]
  BY DEF Inv, TypeOK, Continue
<1>2. res' \in [Callers -> Seq(Nat)] /\ candidates' \in [Callers -> Seq(Nat)]
  BY DEF Inv, TypeOK, Continue
<1>3. TypeOK'
  BY <1>1, <1>2 DEF Inv, TypeOK, argVars
<1>4. \A d \in Callers : d # c => UNCHANGED Local(d)
  BY DEF Inv, TypeOK, Continue, Local
<1>5. res'[c] = decoys /\ candidates'[c] = <<>> /\ pc'[c] \in {"select", "done"}
  BY DEF Inv, TypeOK, Continue
<1>6. /\ pc'[c] = "done" => Len(decoys) = DecoyCount
      /\ pc'[c] = "done" => ring'[c] = SelectedRing(Append(decoys, real))
  BY DEF Inv, TypeOK, Continue
<1>7. Members(<<>>) = {} /\ Distinct(<<>>) /\ Len(<<>>) = 0
  BY DEF Members, Distinct
<1>8. Served(c)' /\ Fresh(c)'
  BY <1>5 DEF Served, Fresh, argVars
<1>9. Counting(c)'
  BY <1>5 DEF Counting, Bound, DecoyCount, argVars
<1>10. Asking(c)'
  BY DEF Inv, CallerInv, Asking, argVars
<1>11. Found(c)'
  BY <1>5 DEF Found, argVars
<1>12. Selecting(c)'
  <2>1. Len(decoys) + 0 <= DecoyCount
    OBVIOUS
  <2>. QED
    BY <1>5, <1>7, <2>1 DEF Selecting, DecoyCount, argVars
<1>13. Replying(c)'
  BY <1>5 DEF Replying
<1>14. Returned(c)'
  BY <1>5, <1>6 DEF Returned, DecoyCount, argVars, SelectedRing
<1>15. CallerInv(c)'
  BY <1>8, <1>9, <1>10, <1>11, <1>12, <1>13, <1>14 DEF CallerInv
<1>. QED
  BY <1>3, <1>4, <1>15, OneCall

\* The distribution select_n goes on with is a sequence of counts, whoever it is from.
LEMMA CountsAreCounts ==
  ASSUME Inv, NEW c \in Callers, pc[c] = "distribution", NEW reply \in DistributionReplies(block_number),
         WellFormed(reply)
  PROVE  reply.counts \in Seq(Nat)
<1>0. block_number \in Nat /\ height \in 0 .. Top /\ chain \in Chains
  BY DEF Inv, TypeOK
<1>1. CASE Honest
  <2>1. block_number <= height
    BY <1>1 DEF Inv, CallerInv, Served
  <2>2. /\ chain.first \in 0 .. Top /\ chain.outputs \in Seq(Nat) /\ Len(chain.outputs) = Top + 1
    BY <1>0, ChainsAssumption
  <2>3. /\ reply.start = chain.first
        /\ reply.counts = IF chain.first > block_number THEN <<>>
                          ELSE [i \in 1 .. block_number - chain.first + 1 |-> chain.outputs[chain.first + i]]
    BY <1>1 DEF DistributionReplies
  <2>4. ASSUME ~(chain.first > block_number), NEW i \in 1 .. block_number - chain.first + 1
        PROVE  chain.outputs[chain.first + i] \in Nat
    <3>1. chain.first + i \in 1 .. Top + 1
      BY <1>0, <2>1, <2>2, <2>4, NumbersAssumption
    <3>. QED
      BY <2>2, <3>1
  <2>5. block_number - chain.first + 1 \in Int
    BY <1>0, <2>2
  <2>6. CASE chain.first > block_number
    BY <2>3, <2>6
  <2>7. CASE ~(chain.first > block_number)
    <3>1. block_number - chain.first + 1 \in Nat
      BY <1>0, <2>2, <2>7
    <3>. QED
      BY <2>3, <2>4, <2>7, <3>1
  <2>. QED
    BY <2>6, <2>7
<1>2. CASE ~Honest
  <2>1. PICK shape \in {<<0, block_number>>, <<0, block_number + 1>>, <<1, block_number>>, <<block_number + 1, 0>>} :
          reply \in {[start |-> shape[1], counts |-> counts] : counts \in [1 .. shape[2] -> 0 .. MaxOutputs]}
    BY <1>2 DEF DistributionReplies
  <2>2. PICK counts \in [1 .. shape[2] -> 0 .. MaxOutputs] : reply = [start |-> shape[1], counts |-> counts]
    BY <2>1
  <2>3. shape[2] \in Nat
    BY <1>0
  <2>4. 0 .. MaxOutputs \subseteq Nat
    BY NumbersAssumption
  <2>. QED
    BY <2>2, <2>3, <2>4
<1>. QED
  BY <1>1, <1>2

LEMMA DistributionKeepsInv == ASSUME NEW c \in Callers PROVE Inv /\ Distribution(c) => Inv'
<1>. SUFFICES ASSUME Inv, Distribution(c) PROVE Inv'
  OBVIOUS
<1>0. UNCHANGED <<chain, height, tape, argVars, first_iter, real_index, iters, asked>> /\ pc[c] = "distribution"
  BY DEF Distribution, nodeVars
<1>1. PICK reply \in DistributionReplies(block_number) :
        \/ /\ WellFormed(reply) /\ Monotonic(reply.counts) /\ ~NotEnough(reply.counts)
           /\ distribution' = [distribution EXCEPT ![c] = reply.counts]
           /\ do_not_select' = [do_not_select EXCEPT ![c] = {real}]
           /\ Continue(c, <<>>)
        \/ Fails(c) /\ UNCHANGED <<distribution, do_not_select, candidates, res, ring>>
  BY DEF Distribution
<1>2. CASE Fails(c) /\ UNCHANGED <<distribution, do_not_select, candidates, res, ring>>
  <2>1. TypeOK'
    BY <1>0, <1>2 DEF Inv, TypeOK, Fails, argVars
  <2>2. \A d \in Callers : d # c => UNCHANGED Local(d)
    BY <1>0, <1>2 DEF Inv, TypeOK, Fails, Local
  <2>. QED
    BY <1>0, <1>2, <2>1, <2>2, FailureKeepsInv
<1>3. CASE /\ WellFormed(reply) /\ Monotonic(reply.counts) /\ ~NotEnough(reply.counts)
           /\ distribution' = [distribution EXCEPT ![c] = reply.counts]
           /\ do_not_select' = [do_not_select EXCEPT ![c] = {real}]
           /\ Continue(c, <<>>)
  <2>1. reply.counts \in Seq(Nat)
    BY <1>0, <1>3, CountsAreCounts
  <2>2. PICK counts \in Seq(Nat) : counts = reply.counts
    BY <2>1
  <2>3. real \in Nat /\ ring_len \in 0 .. 255
    BY DEF Inv, TypeOK
  <2>4. distribution' \in [Callers -> Seq(Nat)] /\ distribution'[c] = counts
    BY <1>3, <2>2 DEF Inv, TypeOK
  <2>5. do_not_select' \in [Callers -> SUBSET Nat] /\ do_not_select'[c] = {real}
    BY <1>3, <2>3 DEF Inv, TypeOK
  <2>6. \A d \in Callers : d # c => UNCHANGED <<distribution[d], do_not_select[d]>>
    BY <1>3 DEF Inv, TypeOK
  <2>7. Len(counts) >= LockWindow
    BY <1>3, <2>2, NumbersAssumption DEF NotEnough
  <2>8. Monotonic(counts)
    BY <1>3, <2>2
  <2>9. HighestOutputExclusiveBound(counts) \in Nat
    BY <2>7, <2>8, BoundIsACount
  <2>10. asked[c] = <<>>
    BY <1>0 DEF Inv, CallerInv, Fresh, Asking
  <2>11. ring_len >= 1 /\ (Honest => block_number <= height)
    BY <1>0, <2>3 DEF Inv, CallerInv, Fresh, Served
  <2>12. Members(<<>>) = {} /\ Distinct(<<>>) /\ Len(<<>>) = 0 /\ <<>> \in Seq(Nat)
    BY DEF Members, Distinct
  <2>13. IsFiniteSet({real}) /\ Cardinality({real}) = 1
    BY FS_Singleton
  <2>14. ring_len <= HighestOutputExclusiveBound(counts)
    BY <1>3, <2>2, <2>3, <2>7, <2>9, <2>11, NumbersAssumption DEF NotEnough
  <2>15. Cardinality({real}) <= HighestOutputExclusiveBound(counts)
    BY <2>3, <2>9, <2>11, <2>13, <2>14
  <2>16. Len(<<>>) <= DecoyCount
    BY <2>3, <2>11, <2>12 DEF DecoyCount
  <2>. QED
    BY <1>0, <1>3, <2>4, <2>5, <2>6, <2>7, <2>8, <2>10, <2>11, <2>12, <2>13, <2>15, <2>16, ContinueKeepsInv
<1>. QED
  BY <1>1, <1>2, <1>3

\* The count of the iterations goes on from 1.
LEMMA CountedIsPositive == ASSUME TypeOK, ring_len >= 1, NEW n \in Nat PROVE Counted(n + 1) \in Nat \ {0}
<1>0. ring_len \in 0 .. 255
  BY DEF TypeOK
<1>1. ItersPerMember \in Nat \ {0} /\ ring_len \in Nat \ {0}
  BY <1>0, NumbersAssumption
<1>2. ItersPerMember * ring_len \in Nat \ {0}
  BY <1>1
<1>. QED
  BY <1>2 DEF Counted

\* A draw of a call that selects is a pair of naturals, and what it selects an output's index.
LEMMA DrawIsAPair ==
  ASSUME Inv, NEW c \in Callers, pc[c] = "select", NEW k \in Nat \ {0},
         NEW draw \in IF Deterministic /\ k <= Len(tape) THEN {tape[k]} ELSE Draws(distribution[c])
  PROVE  draw \in Nat \X Nat /\ PrevOutputs(distribution[c], draw[1]) + draw[2] \in Nat
<1>1. /\ distribution[c] \in Seq(Nat) /\ tape \in Seq(Nat \X Nat)
      /\ Monotonic(distribution[c]) /\ Len(distribution[c]) >= LockWindow
  BY DEF Inv, TypeOK, CallerInv, Counting
<1>2. draw \in Nat \X Nat
  <2>1. CASE Deterministic /\ k <= Len(tape)
    <3>1. k \in 1 .. Len(tape) /\ draw = tape[k]
      BY <1>1, <2>1
    <3>. QED
      BY <1>1, <3>1
  <2>2. CASE ~(Deterministic /\ k <= Len(tape))
    BY <1>1, <2>2, DrawsAreBelowBound
  <2>. QED
    BY <2>1, <2>2
<1>3. PrevOutputs(distribution[c], draw[1]) \in Nat
  BY <1>1, <1>2, BlockForIsOlder
<1>. QED
  BY <1>2, <1>3

\* An output that was not tried becomes a candidate, and is not tried again.
LEMMA CandidateKeepsInv ==
  ASSUME Inv, NEW c \in Callers, pc[c] = "select", Len(candidates[c]) # Remaining(c), ~OnlySupplyLimit(c),
         NEW o \in Nat, o \notin do_not_select[c], TypeOK',
         candidates' = [candidates EXCEPT ![c] = Append(@, o)],
         do_not_select' = [do_not_select EXCEPT ![c] = @ \cup {o}],
         UNCHANGED <<pc, height, argVars, distribution, first_iter, real_index, res, ring, asked>>
  PROVE  Inv'
<1>1. CallerInv(c) /\ TypeOK
  BY DEF Inv
<1>2. PICK s \in Seq(Nat) : s = candidates[c]
  BY <1>1 DEF TypeOK
<1>3. PICK tried \in SUBSET Nat : tried = do_not_select[c]
  BY <1>1 DEF TypeOK
<1>4. candidates'[c] = Append(s, o) /\ do_not_select'[c] = tried \cup {o}
  BY <1>1, <1>2, <1>3 DEF TypeOK
<1>5. /\ Len(Append(s, o)) = Len(s) + 1
      /\ Members(Append(s, o)) = Members(s) \cup {o}
      /\ Distinct(s) /\ o \notin Members(s) => Distinct(Append(s, o))
  BY AppendMembers
<1>6. /\ ring_len >= 1
      /\ Monotonic(distribution[c]) /\ Len(distribution[c]) >= LockWindow
      /\ real \in tried /\ IsFiniteSet(tried) /\ Cardinality(tried) <= Bound(c)
      /\ Len(res[c]) <= DecoyCount
  BY <1>1, <1>3 DEF CallerInv, Counting
<1>7. /\ Distinct(s) /\ Members(s) \subseteq tried \ (Members(asked[c]) \cup {real})
      /\ Len(res[c]) + Len(s) <= DecoyCount
  BY <1>1, <1>2, <1>3 DEF CallerInv, Selecting
<1>8. o # real /\ o \notin Members(s) /\ o \notin Members(asked[c])
  BY <1>1, <1>3, <1>6, <1>7 DEF CallerInv, Asking
<1>9. PICK found \in Nat, size \in Nat, all \in Int : found = Len(res[c]) /\ size = Len(s) /\ all = DecoyCount
  <2>0. ring_len \in 0 .. 255 /\ res[c] \in Seq(Nat)
    BY <1>1 DEF TypeOK
  <2>1. ring_len \in Int /\ res[c] \in Seq(Nat)
    BY <2>0
  <2>2. DecoyCount \in Int /\ Len(res[c]) \in Nat /\ Len(s) \in Nat
    BY <2>1 DEF DecoyCount
  <2>. QED
    BY <2>2
<1>10. size < all - found
  <2>1. size # all - found
    BY <1>2, <1>9 DEF Remaining
  <2>2. found + size <= all
    BY <1>7, <1>9
  <2>. QED
    BY <2>1, <2>2
<1>11. IsFiniteSet(tried \cup {o}) /\ Cardinality(tried \cup {o}) = Cardinality(tried) + 1
  <2>1. o \notin tried /\ IsFiniteSet(tried)
    BY <1>3, <1>6
  <2>. HIDE <1>6
  <2>. QED
    BY <2>1, FS_AddElement
<1>12. Cardinality(tried) \in Nat
  BY <1>6, FS_CardinalityType
<1>13. Bound(c) \in Nat
  BY <1>1, <1>6, BoundIsACount DEF TypeOK, Bound
<1>14. Cardinality(tried \cup {o}) <= Bound(c)
  <2>1. ~(Bound(c) - Cardinality(tried) < all - found - size)
    BY <1>2, <1>3, <1>9 DEF OnlySupplyLimit, Remaining
  <2>. QED
    BY <1>10, <1>11, <1>12, <1>13, <2>1
<1>15. Served(c)' /\ Fresh(c)'
  BY <1>1 DEF CallerInv, Served, Fresh, argVars
<1>16. Counting(c)'
  BY <1>4, <1>6, <1>11, <1>14 DEF Counting, Bound, DecoyCount, argVars
<1>17. Asking(c)' /\ Found(c)'
  BY <1>1, <1>3, <1>4 DEF CallerInv, Asking, Found, argVars
<1>18. Len(res[c]) + Len(Append(s, o)) <= DecoyCount
  <2>1. Len(Append(s, o)) = size + 1
    BY <1>5, <1>9
  <2>2. found + (size + 1) <= all
    BY <1>10
  <2>. QED
    BY <1>9, <2>1, <2>2
<1>19. Selecting(c)'
  BY <1>4, <1>5, <1>7, <1>8, <1>18 DEF Selecting, DecoyCount, argVars
<1>20. Replying(c)' /\ Returned(c)'
  BY DEF Replying, Returned
<1>21. CallerInv(c)'
  BY <1>15, <1>16, <1>17, <1>19, <1>20 DEF CallerInv
<1>22. \A d \in Callers : d # c => UNCHANGED Local(d)
  BY <1>1 DEF TypeOK, Local
<1>. QED
  BY <1>21, <1>22, OneCall

LEMMA SelectKeepsInv == ASSUME NEW c \in Callers PROVE Inv /\ Select(c) => Inv'
<1>. SUFFICES ASSUME Inv, Select(c) PROVE Inv'
  OBVIOUS
<1>0. /\ UNCHANGED <<chain, height, argVars, distribution, first_iter, real_index, res, ring, asked>>
      /\ pc[c] = "select" /\ Len(candidates[c]) # Remaining(c)
      /\ iters' = [iters EXCEPT ![c] = Counted(@ + 1)]
  BY DEF Select, nodeVars
<1>1. ring_len >= 1
  BY <1>0 DEF Inv, CallerInv, Counting
<1>2. PICK k \in Nat \ {0} : k = Counted(iters[c] + 1)
  BY <1>1, CountedIsPositive DEF Inv, TypeOK
<1>3. iters' \in [Callers -> Nat] /\ iters'[c] = k
  BY <1>0, <1>2 DEF Inv, TypeOK
<1>4. CASE Fails(c) /\ UNCHANGED <<candidates, do_not_select, tape>>
  <2>1. TypeOK'
    BY <1>0, <1>3, <1>4 DEF Inv, TypeOK, Fails, argVars
  <2>2. \A d \in Callers : d # c => UNCHANGED Local(d)
    BY <1>0, <1>4 DEF Inv, TypeOK, Fails, Local
  <2>. QED
    BY <1>0, <1>4, <2>1, <2>2, FailureKeepsInv
<1>5. CASE ~(Fails(c) /\ UNCHANGED <<candidates, do_not_select, tape>>)
  <2>1. ~AtLimit(c) /\ UNCHANGED pc
    BY <1>5 DEF Select
  <2>2. PICK draw \in IF Deterministic /\ k <= Len(tape) THEN {tape[k]} ELSE Draws(distribution[c]) :
          /\ tape' = IF Deterministic /\ k > Len(tape) THEN Append(tape, draw) ELSE tape
          /\ IF /\ draw[1] < Bound(c) /\ OutputsIn(distribution[c], draw[1]) # 0
                /\ Untried(c, PrevOutputs(distribution[c], draw[1]) + draw[2])
             THEN LET o == PrevOutputs(distribution[c], draw[1]) + draw[2]
                  IN /\ candidates' = [candidates EXCEPT ![c] = Append(@, o)]
                     /\ do_not_select' = [do_not_select EXCEPT ![c] = @ \cup {o}]
             ELSE UNCHANGED <<candidates, do_not_select>>
    BY <1>3, <1>5 DEF Select
  <2>3. draw \in Nat \X Nat
    BY <1>0, DrawIsAPair
  <2>4. PICK o \in Nat : o = PrevOutputs(distribution[c], draw[1]) + draw[2]
    BY <1>0, DrawIsAPair
  <2>5. tape' \in Seq(Nat \X Nat)
    BY <2>2, <2>3 DEF Inv, TypeOK
  <2>6. CASE UNCHANGED <<candidates, do_not_select>>
    <3>1. TypeOK'
      BY <1>0, <1>3, <2>1, <2>5, <2>6 DEF Inv, TypeOK, argVars
    <3>2. \A d \in Callers : UNCHANGED Local(d)
      BY <1>0, <2>1, <2>6 DEF Local
    <3>3. height \in Int /\ height' \in Int /\ height <= height' /\ block_number \in Int
      BY <1>0 DEF Inv, TypeOK
    <3>4. \A d \in Callers : CallerInv(d)'
      BY <1>0, <3>2, <3>3, LeftAlone DEF Inv
    <3>. QED
      BY <3>1, <3>4 DEF Inv
  <2>7. CASE /\ o \notin do_not_select[c]
             /\ candidates' = [candidates EXCEPT ![c] = Append(@, o)]
             /\ do_not_select' = [do_not_select EXCEPT ![c] = @ \cup {o}]
    <3>1. candidates' \in [Callers -> Seq(Nat)] /\ do_not_select' \in [Callers -> SUBSET Nat]
      BY <2>7 DEF Inv, TypeOK
    <3>2. TypeOK'
      BY <1>0, <1>3, <2>1, <2>5, <3>1 DEF Inv, TypeOK, argVars
    <3>. QED
      BY <1>0, <2>1, <2>7, <3>2, CandidateKeepsInv DEF AtLimit
  <2>. QED
    BY <2>2, <2>4, <2>6, <2>7 DEF Untried
<1>. QED
  BY <1>4, <1>5

\* The outputs are requested, none for the second time.
LEMMA RequestOutputsKeepsInv == ASSUME NEW c \in Callers PROVE Inv /\ RequestOutputs(c) => Inv'
<1>. SUFFICES ASSUME Inv, RequestOutputs(c) PROVE Inv'
  OBVIOUS
<1>0. /\ UNCHANGED <<chain, height, tape, argVars, distribution, do_not_select, iters, res, ring>>
      /\ pc[c] = "select" /\ Len(candidates[c]) = Remaining(c)
      /\ pc' = [pc EXCEPT ![c] = "reply"]
      /\ first_iter' = [first_iter EXCEPT ![c] = FALSE]
  BY DEF RequestOutputs, nodeVars
<1>1. CallerInv(c) /\ TypeOK
  BY DEF Inv
<1>2. PICK s \in Seq(Nat), found \in Seq(Nat), old \in Seq(Nat), tried \in SUBSET Nat :
        s = candidates[c] /\ found = res[c] /\ old = asked[c] /\ tried = do_not_select[c]
  BY <1>1 DEF TypeOK
<1>3. real \in Nat /\ ring_len \in 0 .. 255
  BY <1>1 DEF TypeOK
<1>4. real \in tried /\ ring_len >= 1
  BY <1>0, <1>1, <1>2 DEF CallerInv, Counting
<1>5. Distinct(s) /\ Members(s) \subseteq tried \ (Members(old) \cup {real})
  BY <1>0, <1>1, <1>2 DEF CallerInv, Selecting
<1>6. Distinct(old) /\ Members(old) \subseteq tried
  BY <1>1, <1>2 DEF CallerInv, Asking
<1>7. Distinct(found) /\ Members(found) \subseteq Members(old) \ {real}
  BY <1>1, <1>2 DEF CallerInv, Found
<1>8. Len(found) + Len(s) = ring_len - 1
  <2>1. Len(s) = ring_len - 1 - Len(found)
    BY <1>0, <1>2 DEF Remaining, DecoyCount
  <2>2. Len(s) \in Nat /\ Len(found) \in Nat /\ ring_len \in Int
    BY <1>3
  <2>. QED
    BY <2>1, <2>2
<1>9. PICK requested \in Seq(Nat), index \in Nat :
        /\ requested = RequestedOutputs(c)
        /\ index = IF first_iter[c] THEN PositionOf(real, requested) ELSE 0
        /\ Distinct(requested)
        /\ Members(requested) \subseteq tried \ Members(old)
        /\ index = 0 => real \notin Members(requested)
        /\ index = 0 => Len(found) + Len(requested) = ring_len - 1
        /\ index # 0 => index \in 1 .. Len(requested) /\ requested[index] = real
        /\ index # 0 => Len(found) + Len(requested) = ring_len
        /\ index = 0 => \E i \in 1 .. ring_len : i <= Len(old) /\ old[i] = real
        /\ index # 0 => Len(old) = 0 /\ Len(found) = 0
  <2>1. CASE first_iter[c]
    <3>1. old = <<>>
      BY <1>1, <1>2, <2>1 DEF CallerInv, Asking
    <3>2. Members(old) = {} /\ Len(old) = 0
      BY <3>1 DEF Members
    <3>3. Members(found) = {}
      BY <1>7, <3>2
    <3>4. Len(found) = 0
      <4>1. \A i \in 1 .. Len(found) : found[i] \in Members(found)
        BY DEF Members
      <4>2. Len(found) \in Nat /\ ~(1 \in 1 .. Len(found))
        BY <3>3, <4>1
      <4>. QED
        BY <4>2
    <3>5. PICK both \in Seq(Nat) :
            /\ both = Append(s, real) /\ Len(both) = Len(s) + 1
            /\ Members(both) = Members(s) \cup {real} /\ Distinct(both)
      BY <1>3, <1>5, AppendMembers
    <3>6. PICK t \in Seq(Nat) :
            /\ t = Sorted(both) /\ Len(t) = Len(s) + 1
            /\ Members(t) = Members(s) \cup {real} /\ Distinct(t)
      BY <3>5, SortedMembers
    <3>7. RequestedOutputs(c) = t
      BY <1>2, <2>1, <3>5, <3>6 DEF RequestedOutputs
    <3>8. \E i \in 1 .. Len(t) : t[i] = real
      BY <3>6 DEF Members
    <3>9. PositionOf(real, t) \in 1 .. Len(t) /\ t[PositionOf(real, t)] = real
      BY <3>8 DEF PositionOf
    <3>10. PICK index \in 1 .. Len(t) : index = PositionOf(real, t) /\ t[index] = real
      BY <3>9
    <3>11. index \in Nat /\ index # 0
      OBVIOUS
    <3>12. Len(found) + Len(t) = ring_len
      BY <1>3, <1>8, <3>6
    <3>13. Members(t) \subseteq tried \ Members(old)
      BY <1>4, <1>5, <3>2, <3>6
    <3>. QED
      BY <2>1, <3>2, <3>4, <3>6, <3>7, <3>10, <3>11, <3>12, <3>13
  <2>2. CASE ~first_iter[c]
    <3>1. RequestedOutputs(c) = s
      BY <1>2, <2>2 DEF RequestedOutputs
    <3>2. \E i \in 1 .. ring_len : i <= Len(old) /\ old[i] = real
      BY <1>1, <1>2, <2>2 DEF CallerInv, Asking
    <3>3. real \notin Members(s) /\ Members(s) \subseteq tried \ Members(old)
      BY <1>5
    <3>. QED
      BY <1>5, <1>8, <2>2, <3>1, <3>2, <3>3
  <2>. QED
    BY <2>1, <2>2
<1>10. PICK all \in Seq(Nat) :
         /\ all = old \o requested /\ Len(all) = Len(old) + Len(requested)
         /\ \A i \in 1 .. Len(old) : i <= Len(all) /\ all[i] = old[i]
         /\ Members(all) = Members(old) \cup Members(requested) /\ Distinct(all)
  <2>1. Members(old) \cap Members(requested) = {} /\ Distinct(old) /\ Distinct(requested)
    BY <1>6, <1>9
  <2>. QED
    BY <2>1, ConcatMembers
<1>11. asked' = [asked EXCEPT ![c] = all]
  BY <1>2, <1>9, <1>10 DEF RequestOutputs
<1>12. candidates' = [candidates EXCEPT ![c] = requested]
  BY <1>9 DEF RequestOutputs
<1>13. real_index' = [real_index EXCEPT ![c] = index]
  BY <1>9 DEF RequestOutputs
<1>14. TypeOK'
  BY <1>0, <1>1, <1>11, <1>12, <1>13 DEF TypeOK, argVars
<1>15. \A d \in Callers : d # c => UNCHANGED Local(d)
  BY <1>0, <1>1, <1>11, <1>12, <1>13 DEF TypeOK, Local
<1>16. /\ asked'[c] = all /\ candidates'[c] = requested /\ real_index'[c] = index /\ first_iter'[c] = FALSE
       /\ pc'[c] = "reply" /\ res'[c] = found /\ do_not_select'[c] = tried
  BY <1>0, <1>1, <1>2, <1>11, <1>12, <1>13 DEF TypeOK
<1>17. Served(c)' /\ Fresh(c)'
  BY <1>0, <1>1, <1>16 DEF CallerInv, Served, Fresh, argVars
<1>18. Counting(c)'
  BY <1>0, <1>1, <1>16 DEF CallerInv, Counting, Bound, DecoyCount, argVars
<1>19. \E i \in 1 .. ring_len : i <= Len(all) /\ all[i] = real
  <2>1. CASE index = 0
    <3>1. PICK i \in 1 .. ring_len : i <= Len(old) /\ old[i] = real
      BY <1>9, <2>1
    <3>2. i \in 1 .. Len(old)
      BY <3>1, <1>3
    <3>. QED
      BY <1>10, <3>1, <3>2
  <2>2. CASE index # 0
    <3>1. Len(old) = 0 /\ Len(found) = 0 /\ index \in 1 .. Len(requested) /\ requested[index] = real
      BY <1>9, <2>2
    <3>2. old = <<>>
      BY <3>1
    <3>3. all = requested
      BY <1>10, <3>2
    <3>4. Len(requested) = ring_len
      BY <1>9, <2>2, <3>1
    <3>. QED
      BY <3>1, <3>3, <3>4
  <2>. QED
    BY <2>1, <2>2
<1>20. Asking(c)'
  <2>1. Members(all) \subseteq tried
    BY <1>6, <1>9, <1>10
  <2>. QED
    BY <1>0, <1>10, <1>16, <1>19, <2>1 DEF Asking, argVars
<1>21. Found(c)'
  <2>1. Members(found) \subseteq Members(all) \ {real}
    BY <1>7, <1>10
  <2>. QED
    BY <1>0, <1>7, <1>16, <2>1 DEF Found, argVars
<1>22. Replying(c)'
  <2>1. Members(requested) \subseteq Members(all) \ Members(found)
    BY <1>7, <1>9, <1>10
  <2>. QED
    BY <1>0, <1>9, <1>16, <2>1 DEF Replying, argVars, DecoyCount
<1>23. CallerInv(c)'
  BY <1>16, <1>17, <1>18, <1>20, <1>21, <1>22 DEF CallerInv, Selecting, Returned
<1>. QED
  BY <1>0, <1>14, <1>15, <1>23, OneCall

\* Some of the members of a sequence, by where they are in it.
LEMMA Chosen ==
  ASSUME NEW s \in Seq(Nat), Distinct(s), NEW places \in SUBSET (1 .. Len(s))
  PROVE  LET used == Ascending(places)
             t == [k \in 1 .. Len(used) |-> s[used[k]]]
         IN /\ t \in Seq(Nat) /\ Len(t) = Cardinality(places) /\ Distinct(t)
            /\ \A k \in 1 .. Len(t) : \E i \in places : t[k] = s[i]
            /\ IsFiniteSet(places)
<1>0. PICK n \in Nat : n = Len(s)
  OBVIOUS
<1>1. IsFiniteSet(1 .. n)
  BY FS_Interval
<1>2. IsFiniteSet(places) /\ places \in SUBSET Int /\ places \in SUBSET (1 .. n)
  <2>1. places \in SUBSET (1 .. n)
    BY <1>0
  <2>2. \A i \in places : i \in Int
    BY <2>1
  <2>. QED
    BY <1>1, <2>1, <2>2, FS_Subset
<1>3. PICK m \in Nat : m = Cardinality(places)
  BY <1>2, FS_CardinalityType
<1>. DEFINE used == Ascending(places)
            t == [k \in 1 .. Len(used) |-> s[used[k]]]
<1>4. /\ used \in Seq(places) /\ Len(used) = m
      /\ \A k, l \in 1 .. m : k < l => used[k] < used[l]
  BY <1>2, <1>3, AscendingSorts
<1>. HIDE DEF used
<1>5. \A k \in 1 .. m : used[k] \in places
  BY <1>4
<1>6. \A k \in 1 .. m : used[k] \in 1 .. n /\ s[used[k]] \in Nat
  <2>1. \A i \in 1 .. n : s[i] \in Nat
    BY <1>0
  <2>2. \A k \in 1 .. m : used[k] \in 1 .. n
    BY <1>2, <1>5
  <2>. QED
    BY <2>1, <2>2
<1>7. t = [k \in 1 .. m |-> s[used[k]]]
  BY <1>4
<1>8. t \in Seq(Nat) /\ Len(t) = m
  BY <1>6, <1>7
<1>9. ASSUME NEW k \in 1 .. m, NEW l \in 1 .. m, t[k] = t[l] PROVE k = l
  <2>1. s[used[k]] = s[used[l]]
    BY <1>7, <1>9
  <2>2. used[k] = used[l]
    BY <1>0, <1>6, <2>1 DEF Distinct
  <2>3. ~(k < l) /\ ~(l < k)
    BY <1>4, <1>6, <2>2
  <2>. QED
    BY <2>3
<1>10. Distinct(t)
  BY <1>8, <1>9 DEF Distinct
<1>11. \A k \in 1 .. m : \E i \in places : t[k] = s[i]
  BY <1>5, <1>7
<1>. QED
  BY <1>2, <1>3, <1>8, <1>10, <1>11 DEF used

LEMMA OutputsKeepsInv == ASSUME NEW c \in Callers PROVE Inv /\ Outputs(c) => Inv'
<1>. SUFFICES ASSUME Inv, Outputs(c) PROVE Inv'
  OBVIOUS
<1>0. /\ UNCHANGED <<chain, height, tape, argVars, distribution, do_not_select, first_iter, real_index, iters, asked>>
      /\ pc[c] = "reply"
  BY DEF Outputs, nodeVars
<1>1. CallerInv(c) /\ TypeOK
  BY DEF Inv
<1>2. CASE Fails(c) /\ UNCHANGED <<candidates, res, ring>>
  <2>1. TypeOK'
    BY <1>0, <1>1, <1>2 DEF TypeOK, Fails, argVars
  <2>2. \A d \in Callers : d # c => UNCHANGED Local(d)
    BY <1>0, <1>1, <1>2 DEF TypeOK, Fails, Local
  <2>. QED
    BY <1>0, <1>2, <2>1, <2>2, FailureKeepsInv
<1>3. ASSUME NEW places \in SUBSET (1 .. Len(candidates[c])), real_index[c] \notin places,
             Continue(c, res[c] \o [k \in 1 .. Len(Ascending(places)) |-> candidates[c][Ascending(places)[k]]])
      PROVE  Inv'
  <2>1. PICK s \in Seq(Nat), found \in Seq(Nat), index \in Nat :
          s = candidates[c] /\ found = res[c] /\ index = real_index[c]
    BY <1>1 DEF TypeOK
  <2>2. Distinct(s) /\ Members(s) \subseteq Members(asked[c]) \ Members(found)
    BY <1>0, <1>1, <2>1 DEF CallerInv, Replying
  <2>3. Distinct(found) /\ Members(found) \subseteq Members(asked[c]) \ {real}
    BY <1>1, <2>1 DEF CallerInv, Found
  <2>4. /\ index = 0 => real \notin Members(s) /\ Len(found) + Len(s) = DecoyCount
        /\ index # 0 => index \in 1 .. Len(s) /\ s[index] = real /\ Len(found) + Len(s) = ring_len
    BY <1>0, <1>1, <2>1 DEF CallerInv, Replying
  <2>5. places \in SUBSET (1 .. Len(s)) /\ index \notin places
    BY <1>3, <2>1
  <2>6. PICK chosen \in Seq(Nat) :
          /\ chosen = [k \in 1 .. Len(Ascending(places)) |-> s[Ascending(places)[k]]]
          /\ Len(chosen) = Cardinality(places) /\ Distinct(chosen)
          /\ \A k \in 1 .. Len(chosen) : \E i \in places : chosen[k] = s[i]
          /\ IsFiniteSet(places)
    BY <2>2, <2>5, Chosen
  <2>61. \A k \in 1 .. Len(chosen) : \E i \in places : chosen[k] = s[i]
    BY <2>6
  <2>62. Distinct(chosen)
    BY <2>6
  <2>63. \A x \in Members(chosen) : \E i \in places : x = s[i]
    BY <2>61 DEF Members
  <2>7. Members(chosen) \subseteq Members(s)
    <3>1. \A i \in 1 .. Len(s) : s[i] \in Members(s)
      BY DEF Members
    <3>. QED
      BY <2>5, <2>63, <3>1
  <2>8. real \notin Members(chosen)
    <3>1. CASE index = 0
      BY <2>4, <2>7, <3>1
    <3>2. CASE index # 0
      <4>1. ASSUME NEW i \in places PROVE s[i] # real
        BY <2>2, <2>4, <2>5, <3>2 DEF Distinct
      <4>. QED
        BY <2>63, <4>1
    <3>. QED
      BY <3>1, <3>2
  <2>9. PICK n \in Nat, m \in Nat, size \in Nat, f \in Nat, total \in Int :
          n = Len(s) /\ m = Len(chosen) /\ size = Cardinality(places) /\ f = Len(found) /\ total = ring_len
    <3>1. ring_len \in 0 .. 255
      BY <1>1 DEF TypeOK
    <3>2. ring_len \in Int /\ Cardinality(places) \in Nat
      BY <2>6, <3>1, FS_CardinalityType
    <3>. QED
      BY <3>2
  <2>10. IsFiniteSet(1 .. n) /\ Cardinality(1 .. n) = n
    BY FS_Interval
  <2>11. f + m <= total - 1
    <3>1. CASE index = 0
      <4>1. places \in SUBSET (1 .. n)
        BY <2>5, <2>9
      <4>2. size <= n
        BY <2>9, <2>10, <4>1, FS_Subset
      <4>3. f + n = total - 1
        BY <2>4, <2>9, <3>1 DEF DecoyCount
      <4>4. m = size
        BY <2>6, <2>9
      <4>. QED
        BY <4>2, <4>3, <4>4
    <3>2. CASE index # 0
      <4>1. places \in SUBSET ((1 .. n) \ {index}) /\ index \in 1 .. n
        BY <2>4, <2>5, <2>9, <3>2
      <4>2. IsFiniteSet((1 .. n) \ {index}) /\ Cardinality((1 .. n) \ {index}) = n - 1
        BY <2>10, <4>1, FS_RemoveElement
      <4>3. PICK rest : rest = (1 .. n) \ {index}
        OBVIOUS
      <4>4. size <= n - 1
        <5>1. places \in SUBSET rest /\ IsFiniteSet(rest) /\ Cardinality(rest) = n - 1
          BY <4>1, <4>2, <4>3
        <5>2. Cardinality(places) <= Cardinality(rest)
          BY <5>1, FS_Subset
        <5>. QED
          BY <2>9, <5>1, <5>2
      <4>5. f + n = total
        BY <2>4, <2>9, <3>2
      <4>6. m = size
        BY <2>6, <2>9
      <4>. QED
        BY <4>4, <4>5, <4>6
    <3>. QED
      BY <3>1, <3>2
  <2>12. PICK decoys \in Seq(Nat) :
           /\ decoys = found \o chosen /\ Len(decoys) = Len(found) + Len(chosen)
           /\ Members(decoys) = Members(found) \cup Members(chosen) /\ Distinct(decoys)
    <3>1. Members(found) \cap Members(chosen) = {}
      BY <2>2, <2>7
    <3>. QED
      BY <2>3, <2>62, <3>1, ConcatMembers
  <2>13. Len(decoys) <= DecoyCount
    BY <2>9, <2>11, <2>12 DEF DecoyCount
  <2>14. Continue(c, decoys)
    BY <1>3, <2>1, <2>6, <2>12
  <2>15. Members(decoys) \subseteq Members(asked[c]) \ {real}
    BY <2>2, <2>3, <2>7, <2>8, <2>12
  <2>16. /\ ring_len >= 1 /\ Monotonic(distribution[c]) /\ Len(distribution[c]) >= LockWindow
         /\ real \in do_not_select[c] /\ IsFiniteSet(do_not_select[c])
         /\ Cardinality(do_not_select[c]) <= HighestOutputExclusiveBound(distribution[c])
    BY <1>0, <1>1 DEF CallerInv, Counting, Bound
  <2>17. Members(asked[c]) \subseteq do_not_select[c] /\ (Honest => block_number <= height)
    BY <1>0, <1>1 DEF CallerInv, Asking, Served
  <2>18. distribution' \in [Callers -> Seq(Nat)] /\ do_not_select' \in [Callers -> SUBSET Nat]
    BY <1>0, <1>1 DEF TypeOK
  <2>. QED
    BY <1>0, <2>12, <2>13, <2>14, <2>15, <2>16, <2>17, <2>18, ContinueKeepsInv
<1>4. PICK reply \in OutputReplies(candidates[c]) :
        \/ Fails(c) /\ UNCHANGED <<candidates, res, ring>>
        \/ /\ Len(reply) = Len(candidates[c])
           /\ LET used == Ascending({i \in 1 .. Len(reply) : i # real_index[c] /\ UsableDecoy(reply[i])})
              IN Continue(c, res[c] \o [k \in 1 .. Len(used) |-> candidates[c][used[k]]])
  BY DEF Outputs
<1>. QED
  BY <1>2, <1>3, <1>4

LEMMA NextKeepsInv == Inv /\ [Next]_vars => Inv'
<1>. SUFFICES ASSUME Inv, [Next]_vars PROVE Inv'
  OBVIOUS
<1>1. CASE UNCHANGED vars
  <2>1. TypeOK'
    BY <1>1 DEF Inv, TypeOK, vars
  <2>2. ASSUME NEW d \in Callers PROVE CallerInv(d)'
    <3>1. UNCHANGED argVars /\ UNCHANGED Local(d)
      BY <1>1 DEF vars, argVars, Local
    <3>2. height \in Int /\ height' \in Int /\ height <= height' /\ block_number \in Int
      BY <1>1 DEF Inv, TypeOK, vars
    <3>. QED
      BY <3>1, <3>2, LeftAlone DEF Inv
  <2>. QED
    BY <2>1, <2>2 DEF Inv
<1>2. CASE Grow
  BY <1>2, GrowKeepsInv
<1>3. ASSUME NEW c \in Callers, Step(c) PROVE Inv'
  BY <1>3, StartKeepsInv, DistributionKeepsInv, SelectKeepsInv, RequestOutputsKeepsInv, OutputsKeepsInv DEF Step
<1>4. ASSUME NEW c \in Callers, RequestFails(c) PROVE Inv'
  BY <1>4, RequestFailsKeepsInv
<1>. QED
  BY <1>1, <1>2, <1>3, <1>4 DEF Next, Terminated

LEMMA AlwaysInv == Spec => []Inv
  BY InitInv, NextKeepsInv, PTL DEF Spec

---------------------------------------------------------------------------------
(* The ring. *)

\* The offsets of a sequence sum up to it.
LEMMA OffsetsSumUp ==
  ASSUME NEW s \in Seq(Nat), NEW offsets,
         offsets = [i \in 1 .. Len(s) |-> IF i = 1 THEN s[1] ELSE s[i] - s[i - 1]]
  PROVE  PartialSums(offsets) = s
<1>0. PICK n \in Nat : n = Len(s)
  OBVIOUS
<1>1. offsets = [i \in 1 .. n |-> IF i = 1 THEN s[1] ELSE s[i] - s[i - 1]]
  BY <1>0
<1>2. \A i \in 1 .. n : s[i] \in Nat
  BY <1>0
<1>3. Len(offsets) = n
  BY <1>1
<1>. DEFINE D == 1 .. Len(offsets)
            PartialUpTo(f) == f = [i \in D |-> IF i = 1 THEN offsets[1] ELSE f[i - 1] + offsets[i]]
            sum == CHOOSE f : PartialUpTo(f)
            f0 == [i \in D |-> s[i]]
<1>4. D = 1 .. n
  BY <1>3
<1>. HIDE DEF D
<1>5. \A i \in D : offsets[i] = IF i = 1 THEN s[1] ELSE s[i] - s[i - 1]
  BY <1>1, <1>4
<1>6. PartialUpTo(f0)
  <2>1. ASSUME NEW i \in D PROVE s[i] = IF i = 1 THEN offsets[1] ELSE f0[i - 1] + offsets[i]
    <3>1. CASE i = 1
      BY <1>5, <3>1
    <3>2. CASE i # 1
      <4>1. i - 1 \in D
        BY <1>4, <3>2
      <4>2. f0[i - 1] = s[i - 1] /\ offsets[i] = s[i] - s[i - 1]
        BY <1>5, <3>2, <4>1
      <4>. QED
        BY <1>2, <1>4, <3>2, <4>1, <4>2
    <3>. QED
      BY <3>1, <3>2
  <2>. QED
    BY <2>1
<1>. HIDE DEF f0, PartialUpTo
<1>7. PartialUpTo(sum)
  BY <1>6
<1>. HIDE DEF sum
<1>8. \A i \in D : sum[i] = IF i = 1 THEN offsets[1] ELSE sum[i - 1] + offsets[i]
  <2>1. sum = [i \in D |-> IF i = 1 THEN offsets[1] ELSE sum[i - 1] + offsets[i]]
    BY <1>7 DEF PartialUpTo
  <2>. QED
    BY <2>1
<1>9. ASSUME NEW l \in D, sum[l] # s[l] PROVE FALSE
  <2>. DEFINE S == {i \in D : sum[i] # s[i]}
  <2>1. S \in SUBSET Nat /\ l \in S
    BY <1>4, <1>9
  <2>2. PICK i \in S : \A j \in S : i <= j
    BY <2>1, LeastNatural
  <2>3. i \in D /\ sum[i] # s[i]
    BY <2>2
  <2>4. i # 1
    BY <1>5, <1>8, <2>3
  <2>5. i - 1 \in D /\ ~(i <= i - 1)
    BY <1>4, <2>3, <2>4
  <2>6. sum[i - 1] = s[i - 1]
    BY <2>2, <2>5
  <2>7. sum[i] = sum[i - 1] + offsets[i] /\ offsets[i] = s[i] - s[i - 1]
    BY <1>5, <1>8, <2>3, <2>4
  <2>8. s[i] \in Nat /\ s[i - 1] \in Nat
    BY <1>2, <1>4, <2>3, <2>5
  <2>. QED
    BY <2>3, <2>6, <2>7, <2>8
<1>10. [i \in D |-> sum[i]] = s
  BY <1>0, <1>4, <1>9
<1>. QED
  BY <1>10 DEF PartialSums, sum, PartialUpTo, D

LEMMA Telescope ==
  ASSUME NEW s \in Seq(Nat), NEW decoys,
         decoys.offsets = [i \in 1 .. Len(s) |-> IF i = 1 THEN s[1] ELSE s[i] - s[i - 1]]
  PROVE  Positions(decoys) = s
  BY OffsetsSumUp DEF Positions

\* The ring of distinct outputs, the real one among them.
LEMMA RingOfDistinct ==
  ASSUME NEW s \in Seq(Nat), Distinct(s), real \in Members(s), Len(s) <= 255
  PROVE  /\ ValidDecoys(SelectedRing(s))
         /\ Len(SelectedRing(s).offsets) = Len(s)
         /\ Positions(SelectedRing(s)) = Sorted(s)
         /\ Positions(SelectedRing(s))[SelectedRing(s).signer_index + 1] = real
<1>0. PICK n \in Nat : n = Len(s)
  OBVIOUS
<1>1. PICK t \in Seq(Nat) : t = Sorted(s)
  BY SortedMembers
<1>2. Len(t) = n /\ Members(t) = Members(s)
  BY <1>0, <1>1, SortedMembers
<1>3. \A k, l \in 1 .. n : k < l => t[k] < t[l]
  BY <1>0, <1>1, SortedMembers
<1>4. \A k \in 1 .. n : t[k] \in Nat
  BY <1>2
<1>. DEFINE r == SelectedRing(s)
<1>5. /\ r.offsets = [i \in 1 .. Len(t) |-> IF i = 1 THEN t[1] ELSE t[i] - t[i - 1]]
      /\ r.signer_index = Cardinality({i \in 1 .. n : t[i] < real})
  BY <1>1, <1>2 DEF SelectedRing
<1>. HIDE DEF r
<1>6. Positions(r) = t
  BY <1>5, Telescope
<1>7. PICK p \in 1 .. n : t[p] = real
  BY <1>2 DEF Members
<1>8. {i \in 1 .. n : t[i] < real} = 1 .. p - 1
  <2>1. ASSUME NEW i \in 1 .. n PROVE t[i] < real <=> i < p
    <3>1. CASE i < p
      BY <1>3, <1>7, <3>1
    <3>2. CASE i = p
      BY <1>4, <1>7, <3>2
    <3>3. CASE p < i
      BY <1>3, <1>4, <1>7, <3>3
    <3>. QED
      BY <3>1, <3>2, <3>3
  <2>. QED
    BY <2>1
<1>9. r.signer_index = p - 1
  <2>1. Cardinality(1 .. p - 1) = p - 1
    BY FS_Interval
  <2>. QED
    BY <1>5, <1>8, <2>1
<1>10. r.signer_index + 1 = p
  BY <1>9
<1>11. Positions(r)[r.signer_index + 1] = real
  BY <1>6, <1>7, <1>10
<1>12. r.offsets = [i \in 1 .. n |-> IF i = 1 THEN t[1] ELSE t[i] - t[i - 1]]
  BY <1>2, <1>5
<1>13. Len(r.offsets) = n
  BY <1>12
<1>14. ASSUME NEW i \in 2 .. n PROVE r.offsets[i] > 0
  <2>1. i \in 1 .. n /\ i - 1 \in 1 .. n /\ i - 1 < i /\ i # 1
    OBVIOUS
  <2>2. t[i - 1] < t[i] /\ t[i] \in Nat /\ t[i - 1] \in Nat
    BY <1>3, <1>4, <2>1
  <2>3. r.offsets[i] = t[i] - t[i - 1]
    BY <1>12, <2>1
  <2>. QED
    BY <2>2, <2>3
<1>15. ValidDecoys(r)
  BY <1>0, <1>9, <1>13, <1>14 DEF ValidDecoys
<1>. QED
  BY <1>0, <1>1, <1>6, <1>11, <1>13, <1>15 DEF r

---------------------------------------------------------------------------------
(* The properties of every selection. *)

LEMMA InvIsSafe == Inv => ArithmeticIsSafe
<1>. SUFFICES ASSUME Inv, NEW c \in Callers, pc[c] \in {"select", "reply"}
              PROVE  /\ Cardinality(do_not_select[c]) <= Bound(c)
                     /\ Len(res[c]) <= DecoyCount
                     /\ pc[c] = "select" => Len(candidates[c]) <= Remaining(c)
                     /\ \A o \in 0 .. Bound(c) - 1 :
                          BlockFor(distribution[c], o) < Len(distribution[c]) /\ OutputsIn(distribution[c], o) >= 0
  BY DEF ArithmeticIsSafe
<1>1. CallerInv(c) /\ TypeOK
  BY DEF Inv
<1>2. /\ Cardinality(do_not_select[c]) <= Bound(c) /\ Len(res[c]) <= DecoyCount
      /\ Monotonic(distribution[c]) /\ Len(distribution[c]) >= LockWindow
  BY <1>1 DEF CallerInv, Counting
<1>3. ASSUME pc[c] = "select" PROVE Len(candidates[c]) <= Remaining(c)
  <2>1. Len(res[c]) + Len(candidates[c]) <= DecoyCount
    BY <1>1, <1>3 DEF CallerInv, Selecting
  <2>2. ring_len \in 0 .. 255 /\ res[c] \in Seq(Nat) /\ candidates[c] \in Seq(Nat)
    BY <1>1 DEF TypeOK
  <2>19. ring_len \in 0 .. 255
    BY <2>2, Zenon
  <2>20. ring_len \in Int
    BY ONLY <2>19, SMT
  <2>21. DecoyCount \in Int
    BY ONLY <2>20 DEF DecoyCount
  <2>22. Len(res[c]) \in Nat /\ Len(candidates[c]) \in Nat
    BY <2>2
  <2>3. PICK m \in Nat, n \in Nat, d \in Int : m = Len(res[c]) /\ n = Len(candidates[c]) /\ d = DecoyCount
    BY <2>21, <2>22
  <2>31. m + n <= d
    BY <2>1, <2>3
  <2>4. n <= d - m
    BY <2>31
  <2>. QED
    BY <2>3, <2>4 DEF Remaining
<1>4. ASSUME NEW o \in 0 .. Bound(c) - 1
      PROVE  BlockFor(distribution[c], o) < Len(distribution[c]) /\ OutputsIn(distribution[c], o) >= 0
  <2>1. PICK counts \in Seq(Nat) : counts = distribution[c]
    BY <1>1 DEF TypeOK
  <2>2. o \in Nat /\ Monotonic(counts) /\ Len(counts) >= LockWindow
    BY <1>2, <2>1
  <2>3. /\ BlockFor(counts, o) \in 0 .. Len(counts) - LockWindow
        /\ PrevOutputs(counts, o) \in Nat /\ counts[BlockFor(counts, o) + 1] \in Nat
        /\ PrevOutputs(counts, o) <= counts[BlockFor(counts, o) + 1]
    BY <2>2, BlockForIsOlder
  <2>4. BlockFor(counts, o) < Len(counts)
    BY <2>3, NumbersAssumption
  <2>5. OutputsIn(counts, o) >= 0
    BY <2>3 DEF OutputsIn
  <2>. QED
    BY <2>1, <2>4, <2>5
<1>. QED
  BY <1>2, <1>3, <1>4

\* None of the subtractions and indexings of select_n underflows or is out of range, whatever the node
\* answers: for every distribution it may give, every ring length, lock window and round limit.
THEOREM SelectionIsSafe == Spec => []ArithmeticIsSafe
  BY AlwaysInv, InvIsSafe, PTL

\* The real output is asked for with the first decoys, no output is asked for twice, and no decoy was
\* not asked for: what the node sees never singles the real output out, over any number of rounds.
THEOREM RealIsHidden == Spec => []RealOutputIsHidden
<1>1. Inv => RealOutputIsHidden
  <2>. SUFFICES ASSUME Inv, NEW c \in Callers
                PROVE  /\ ~first_iter[c] => \E i \in 1 .. ring_len : i <= Len(asked[c]) /\ asked[c][i] = real
                       /\ \A i, j \in 1 .. Len(asked[c]) : asked[c][i] = asked[c][j] => i = j
                       /\ \A i \in 1 .. Len(res[c]) : \E j \in 1 .. Len(asked[c]) : asked[c][j] = res[c][i]
    BY DEF RealOutputIsHidden
  <2>1. Asking(c) /\ Found(c)
    BY DEF Inv, CallerInv
  <2>2. \A i \in 1 .. Len(res[c]) : res[c][i] \in Members(asked[c])
    BY <2>1 DEF Found, Members
  <2>3. \A i \in 1 .. Len(res[c]) : \E j \in 1 .. Len(asked[c]) : asked[c][j] = res[c][i]
    BY <2>2 DEF Members
  <2>. QED
    BY <2>1, <2>3 DEF Asking, Distinct
<1>. QED
  BY <1>1, AlwaysInv, PTL

\* What a call returns.
LEMMA InvIsValid ==
  ASSUME Inv, NEW c \in Callers, pc[c] = "done"
  PROVE  /\ ValidDecoys(ring[c]) /\ Len(ring[c].offsets) = ring_len
         /\ Positions(ring[c])[ring[c].signer_index + 1] = real
         /\ {Positions(ring[c])[i] : i \in 1 .. ring_len} = Members(res[c]) \cup {real}
<1>1. CallerInv(c) /\ TypeOK
  BY DEF Inv
<1>2. PICK found \in Seq(Nat) : found = res[c]
  BY <1>1 DEF TypeOK
<1>3. real \in Nat /\ ring_len \in 0 .. 255
  BY <1>1 DEF TypeOK
<1>4. Distinct(found) /\ real \notin Members(found)
  BY <1>1, <1>2 DEF CallerInv, Found
<1>5. Len(found) = ring_len - 1 /\ ring[c] = SelectedRing(Append(found, real))
  BY <1>1, <1>2 DEF CallerInv, Returned, DecoyCount
<1>6. PICK s \in Seq(Nat) :
        /\ s = Append(found, real) /\ Len(s) = Len(found) + 1
        /\ Members(s) = Members(found) \cup {real} /\ Distinct(s)
  BY <1>3, <1>4, AppendMembers
<1>7. Len(s) = ring_len /\ Len(s) <= 255
  BY <1>3, <1>5, <1>6
<1>8. /\ ValidDecoys(SelectedRing(s)) /\ Len(SelectedRing(s).offsets) = Len(s)
      /\ Positions(SelectedRing(s)) = Sorted(s)
      /\ Positions(SelectedRing(s))[SelectedRing(s).signer_index + 1] = real
  BY <1>6, <1>7, RingOfDistinct
<1>9. ring[c] = SelectedRing(s)
  BY <1>5, <1>6
<1>10. Positions(ring[c]) = Sorted(s)
  BY <1>8, <1>9
<1>11. Members(Sorted(s)) = Members(s) /\ Len(Sorted(s)) = ring_len
  BY <1>7, SortedMembers
<1>12. {Positions(ring[c])[i] : i \in 1 .. ring_len} = Members(s)
  BY <1>10, <1>11 DEF Members
<1>. QED
  BY <1>2, <1>6, <1>7, <1>8, <1>9, <1>12

\* The ring select_decoys returns is one Decoys::new accepts: of ring_len members, those found and the
\* real output, and signer_index is the place of the real one.
THEOREM RingsAreValid == Spec => []RingIsValid
<1>1. Inv => RingIsValid
  <2>. SUFFICES ASSUME Inv, NEW c \in Callers, pc[c] = "done"
                PROVE  /\ ValidDecoys(ring[c])
                       /\ Len(ring[c].offsets) = ring_len
                       /\ Positions(ring[c])[ring[c].signer_index + 1] = real
                       /\ {Positions(ring[c])[i] : i \in 1 .. ring_len} =
                            {res[c][i] : i \in 1 .. Len(res[c])} \cup {real}
    BY DEF RingIsValid
  <2>. QED
    BY InvIsValid DEF Members
<1>. QED
  BY <1>1, AlwaysInv, PTL

---------------------------------------------------------------------------------
(* What an honest node's answers make of a deterministic selection. *)

\* The distribution an honest node gives for the blocks up to block_number.
HonestCounts == [i \in 1 .. block_number - chain.first + 1 |-> chain.outputs[chain.first + i]]

\* What RingIsSpendable says of a member.
Spendable(o) ==
  /\ chain.point[o] = "ours"
  /\ BlockOf(o) + (LockWindow - 1) <= block_number
  /\ chain.lock[o].type # "time"
  /\ chain.lock[o].type = "block" => chain.lock[o].at <= block_number + 1

Existing(o) == o \in Nat /\ o < chain.outputs[Top + 1]

\* The draws are of that distribution, whoever made them.
TapeInv == Existing(real) /\ \A k \in 1 .. Len(tape) : tape[k] \in Draws(HonestCounts)

SpendableInv(c) ==
  /\ pc[c] \in {"select", "reply", "done"} => distribution[c] = HonestCounts /\ chain.first <= block_number
  /\ \A o \in do_not_select[c] \ {real} : Existing(o) /\ BlockOf(o) + (LockWindow - 1) <= block_number
  /\ \A o \in Members(res[c]) : Spendable(o)
  /\ pc[c] \in {"select", "done"} /\ ~first_iter[c] => Spendable(real)
  /\ pc[c] = "reply" /\ real_index[c] = 0 => Spendable(real)

HonestInv == TapeInv /\ \A c \in Callers : SpendableInv(c)

\* The counts of an honest chain do not decrease, and a block has the outputs below its count.
LEMMA BlockOfIsOlder ==
  ASSUME chain \in Chains, NEW o \in Nat, NEW b \in 0 .. Top, o < chain.outputs[b + 1]
  PROVE  /\ BlockOf(o) \in 0 .. b
         /\ chain.outputs[b + 1] <= chain.outputs[Top + 1]
<1>0. Top \in Nat
  BY NumbersAssumption
<1>1. PICK counts \in Seq(Nat) : counts = chain.outputs
  BY ChainsAssumption
<1>2. Len(counts) = Top + 1 /\ \A i \in 1 .. Top : counts[i] <= counts[i + 1]
  BY <1>1, ChainsAssumption
<1>3. counts \in Seq(Int) /\ \A i \in 1 .. Len(counts) - 1 : counts[i] <= counts[i + 1]
  BY <1>0, <1>2
<1>4. \A i, j \in 1 .. Top + 1 : i <= j => counts[i] <= counts[j]
  BY <1>2, <1>3, StepsIncrease
<1>5. \A i \in 1 .. Top + 1 : counts[i] \in Nat
  BY <1>2
<1>. DEFINE S == {x \in 0 .. Top : counts[x + 1] > o}
<1>6. S \in SUBSET Nat /\ b \in S
  BY <1>0, <1>1, <1>5
<1>7. PICK x \in S : \A y \in S : x <= y
  BY <1>6, LeastNatural
<1>8. x \in 0 .. Top /\ counts[x + 1] > o
  OBVIOUS
<1>9. x > 0 => counts[x] <= o
  <2>1. SUFFICES ASSUME x > 0 PROVE counts[x] <= o
    OBVIOUS
  <2>2. x - 1 \in 0 .. Top /\ ~(x <= x - 1) /\ (x - 1) + 1 = x /\ x \in 1 .. Top + 1
    BY <1>0, <1>8, <2>1
  <2>3. ~(counts[x] > o)
    BY <1>7, <2>2
  <2>4. counts[x] \in Nat
    BY <1>5, <2>2
  <2>. QED
    BY <2>3, <2>4
<1>10. /\ BlockOf(o) \in 0 .. Top /\ counts[BlockOf(o) + 1] > o
       /\ BlockOf(o) > 0 => counts[BlockOf(o)] <= o
  BY <1>1, <1>8, <1>9 DEF BlockOf
<1>11. PICK z \in 0 .. Top : z = BlockOf(o) /\ (z > 0 => counts[z] <= o)
  BY <1>10
<1>12. ~(b < z)
  <2>1. SUFFICES ASSUME b < z PROVE FALSE
    OBVIOUS
  <2>2. z > 0 /\ z \in 1 .. Top + 1 /\ b + 1 \in 1 .. Top + 1 /\ b + 1 <= z
    BY <1>0, <2>1
  <2>3. counts[b + 1] <= counts[z] /\ counts[z] <= o /\ o < counts[b + 1]
    BY <1>1, <1>4, <1>11, <2>2
  <2>4. counts[b + 1] \in Nat /\ counts[z] \in Nat
    BY <1>5, <2>2
  <2>. QED
    BY <2>3, <2>4
<1>13. b + 1 \in 1 .. Top + 1 /\ Top + 1 \in 1 .. Top + 1 /\ b + 1 <= Top + 1
  BY <1>0
<1>14. counts[b + 1] <= counts[Top + 1]
  BY <1>4, <1>13
<1>. QED
  BY <1>0, <1>1, <1>11, <1>12, <1>14

\* What is drawn from an honest distribution is past the lock window as of block_number.
LEMMA DrawnIsOld ==
  ASSUME TypeOK, block_number <= height, chain.first <= block_number,
         Monotonic(HonestCounts), Len(HonestCounts) >= LockWindow,
         NEW draw \in Draws(HonestCounts), draw[1] < HighestOutputExclusiveBound(HonestCounts),
         OutputsIn(HonestCounts, draw[1]) # 0, NEW o \in Nat, o = PrevOutputs(HonestCounts, draw[1]) + draw[2]
  PROVE  Existing(o) /\ BlockOf(o) + (LockWindow - 1) <= block_number
<1>0. Top \in Nat /\ LockWindow \in Nat /\ LockWindow >= 1
  BY NumbersAssumption
<1>1. block_number \in Nat /\ height \in 0 .. Top /\ chain \in Chains
  BY DEF TypeOK
<1>2. chain.first \in 0 .. Top /\ chain.outputs \in Seq(Nat) /\ Len(chain.outputs) = Top + 1
  BY <1>1, ChainsAssumption
<1>3. PICK first \in Nat, counts \in Seq(Nat) : first = chain.first /\ counts = chain.outputs
  BY <1>2
<1>4. Len(counts) = Top + 1
  BY <1>2, <1>3
<1>5. PICK n \in Nat : n = block_number - first + 1
  BY <1>1, <1>3
<1>6. HonestCounts = [i \in 1 .. n |-> counts[first + i]]
  BY <1>3, <1>5 DEF HonestCounts
<1>7. \A i \in 1 .. n : first + i \in 1 .. Top + 1
  BY <1>0, <1>1, <1>5
<1>8. \A i \in 1 .. n : counts[first + i] \in Nat
  BY <1>4, <1>7
<1>9. HonestCounts \in Seq(Nat) /\ Len(HonestCounts) = n
  BY <1>6, <1>8
<1>10. o < HighestOutputExclusiveBound(HonestCounts)
  BY <1>9, DrawsAreBelowBound
<1>. DEFINE b == block_number - LockWindow + 1
<1>11. n - LockWindow + 1 \in 1 .. n /\ first + (n - LockWindow + 1) = b + 1 /\ b \in 0 .. Top
  BY <1>0, <1>1, <1>5, <1>9
<1>12. HighestOutputExclusiveBound(HonestCounts) = counts[b + 1]
  BY <1>6, <1>9, <1>11 DEF HighestOutputExclusiveBound
<1>. HIDE DEF b
<1>13. BlockOf(o) \in 0 .. b /\ chain.outputs[b + 1] <= chain.outputs[Top + 1]
  BY <1>1, <1>3, <1>10, <1>11, <1>12, BlockOfIsOlder
<1>14. BlockOf(o) + (LockWindow - 1) <= block_number
  BY <1>0, <1>1, <1>11, <1>13 DEF b
<1>15. counts[b + 1] \in Nat /\ counts[Top + 1] \in Nat
  BY <1>0, <1>4, <1>11
<1>16. o < chain.outputs[Top + 1]
  BY <1>3, <1>10, <1>12, <1>13, <1>15
<1>. QED
  BY <1>14, <1>16 DEF Existing

\* An output an honest node shows with points of which it says it is unlocked.
LEMMA ShownIsSpendable ==
  ASSUME TypeOK, Deterministic, NEW o, Existing(o), NEW view \in HonestViews(o), UsableDecoy(view) \/ SameView(view)
  PROVE  Spendable(o)
<1>1. chain \in Chains /\ block_number \in Nat
  BY DEF TypeOK
<1>2. chain.outputs[Top + 1] \in Nat
  BY <1>1, ChainsAssumption, NumbersAssumption
<1>3. o \in 0 .. chain.outputs[Top + 1] - 1
  BY <1>2 DEF Existing
<1>4. chain.lock[o] \in Timelocks /\ chain.point[o] \in Points
  BY <1>1, <1>3, ChainsAssumption
<1>5. view # "none"
  BY DEF UsableDecoy, SameView
<1>6. PICK unlocked \in UnlockedAt(o) : view = IF unlocked THEN chain.point[o] ELSE "none"
  BY <1>5 DEF HonestViews
<1>7. unlocked /\ view = chain.point[o]
  BY <1>5, <1>6
<1>8. BlockOf(o) + (LockWindow - 1) <= block_number /\ BlockReaches(block_number + 1, chain.lock[o])
  BY <1>6, <1>7 DEF UnlockedAt
<1>9. chain.point[o] = "ours"
  BY <1>4, <1>7 DEF Points, UsableDecoy, SameView
<1>. QED
  BY <1>8, <1>9 DEF Spendable, BlockReaches

LEMMA InitHonestInv == ASSUME Init, Honest, Deterministic PROVE HonestInv
<1>1. chain \in Chains /\ height \in 0 .. Top /\ Top \in Nat
  BY NumbersAssumption DEF Init
<1>2. chain.outputs \in Seq(Nat) /\ Len(chain.outputs) = Top + 1
  BY <1>1, ChainsAssumption
<1>3. PICK n \in Nat, m \in Nat : n = chain.outputs[height + 1] /\ m = chain.outputs[Top + 1]
  BY <1>1, <1>2
<1>4. real \in 0 .. n - 1
  BY <1>3 DEF Init
<1>5. real \in Nat /\ real < n
  BY <1>4
<1>6. n <= m
  BY <1>1, <1>3, <1>5, BlockOfIsOlder
<1>7. Existing(real)
  BY <1>3, <1>5, <1>6 DEF Existing
<1>8. TapeInv
  BY <1>7 DEF TapeInv, Init
<1>9. ASSUME NEW c \in Callers PROVE SpendableInv(c)
  <2>1. pc[c] = "start" /\ do_not_select[c] = {} /\ res[c] = <<>>
    BY DEF Init
  <2>2. Members(<<>>) = {}
    BY DEF Members
  <2>. QED
    BY <2>1, <2>2 DEF SpendableInv
<1>. QED
  BY <1>8, <1>9 DEF HonestInv

LEMMA LeftSpendable ==
  ASSUME NEW d, SpendableInv(d), UNCHANGED <<chain, argVars>>, UNCHANGED Local(d)
  PROVE  SpendableInv(d)'
<1>1. UNCHANGED <<chain, block_number, real, pc[d], distribution[d], do_not_select[d], first_iter[d],
                  real_index[d], res[d]>>
  BY DEF argVars, Local
<1>2. HonestCounts' = HonestCounts
  BY <1>1 DEF HonestCounts
<1>3. \A o : BlockOf(o)' = BlockOf(o)
  BY <1>1 DEF BlockOf
<1>4. \A o : Spendable(o)' <=> Spendable(o)
  BY <1>1, <1>3 DEF Spendable
<1>5. \A o : Existing(o)' <=> Existing(o)
  BY <1>1 DEF Existing
<1>. QED
  BY <1>1, <1>2, <1>3, <1>4, <1>5 DEF SpendableInv

\* The tape may get longer, by a draw of the honest distribution.
LEMMA LongerTape ==
  ASSUME TapeInv, tape \in Seq(Nat \X Nat), UNCHANGED <<chain, argVars>>,
         \/ UNCHANGED tape
         \/ \E draw \in Draws(HonestCounts) : draw \in Nat \X Nat /\ tape' = Append(tape, draw)
  PROVE  TapeInv'
<1>1. UNCHANGED <<chain, block_number, real>>
  BY DEF argVars
<1>2. HonestCounts' = HonestCounts
  BY <1>1 DEF HonestCounts
<1>3. Existing(real)'
  BY <1>1 DEF TapeInv, Existing
<1>4. Draws(HonestCounts)' = Draws(HonestCounts)
  BY <1>2 DEF Draws, OutputsIn, PrevOutputs, BlockFor, HighestOutputExclusiveBound
<1>5. CASE UNCHANGED tape
  BY <1>3, <1>4, <1>5 DEF TapeInv
<1>6. CASE \E draw \in Draws(HonestCounts) : draw \in Nat \X Nat /\ tape' = Append(tape, draw)
  <2>1. PICK draw \in Draws(HonestCounts) : draw \in Nat \X Nat /\ tape' = Append(tape, draw)
    BY <1>6
  <2>2. \A k \in 1 .. Len(tape) : tape[k] \in Draws(HonestCounts)
    BY DEF TapeInv
  <2>3. \A k \in 1 .. Len(tape') : tape'[k] \in Draws(HonestCounts)
    BY <2>1, <2>2
  <2>. QED
    BY <1>3, <1>4, <2>3 DEF TapeInv
<1>. QED
  BY <1>5, <1>6

\* The step of a call is to be looked at for that call, and for the tape.
LEMMA OneSpendable ==
  ASSUME HonestInv, NEW c \in Callers, TapeInv', SpendableInv(c)', UNCHANGED <<chain, argVars>>,
         \A d \in Callers : d # c => UNCHANGED Local(d)
  PROVE  HonestInv'
<1>1. ASSUME NEW d \in Callers PROVE SpendableInv(d)'
  <2>1. CASE d = c
    BY <2>1
  <2>2. CASE d # c
    BY <2>2, LeftSpendable DEF HonestInv
  <2>. QED
    BY <2>1, <2>2
<1>. QED
  BY <1>1 DEF HonestInv

LEMMA QuietStep ==
  ASSUME Inv, HonestInv, UNCHANGED <<chain, argVars, tape, distribution, do_not_select, candidates, first_iter,
                                     real_index, res, ring, asked>>,
         \/ UNCHANGED pc
         \/ \E c \in Callers : \/ pc' = [pc EXCEPT ![c] = "err"]
                               \/ pc' = [pc EXCEPT ![c] = "distribution"]
  PROVE  HonestInv'
<1>1. TapeInv'
  BY LongerTape DEF Inv, TypeOK, HonestInv
<1>2. CASE UNCHANGED pc
  <2>1. \A d \in Callers : UNCHANGED Local(d)
    BY <1>2 DEF Local
  <2>. QED
    BY <1>1, <2>1, LeftSpendable DEF HonestInv
<1>3. ASSUME NEW c \in Callers, pc' = [pc EXCEPT ![c] = "err"] \/ pc' = [pc EXCEPT ![c] = "distribution"]
      PROVE  HonestInv'
  <2>1. pc'[c] \in {"err", "distribution"}
    BY <1>3 DEF Inv, TypeOK
  <2>2. \A d \in Callers : d # c => UNCHANGED Local(d)
    BY <1>3 DEF Inv, TypeOK, Local
  <2>3. SpendableInv(c)
    BY DEF HonestInv
  <2>4. \A o : BlockOf(o)' = BlockOf(o)
    BY DEF BlockOf
  <2>5. \A o : (Spendable(o)' <=> Spendable(o)) /\ (Existing(o)' <=> Existing(o))
    BY <2>4 DEF Spendable, Existing, argVars
  <2>6. SpendableInv(c)'
    BY <2>1, <2>3, <2>4, <2>5 DEF SpendableInv, argVars
  <2>. QED
    BY <1>1, <2>2, <2>6, OneSpendable
<1>. QED
  BY <1>2, <1>3

LEMMA DistributionSpendable ==
  ASSUME Inv, HonestInv, Honest, Deterministic, NEW c \in Callers, Distribution(c)
  PROVE  HonestInv'
<1>0. UNCHANGED <<chain, height, tape, argVars, first_iter, real_index, iters, asked>> /\ pc[c] = "distribution"
  BY DEF Distribution, nodeVars
<1>1. PICK reply \in DistributionReplies(block_number) :
        \/ /\ WellFormed(reply)
           /\ distribution' = [distribution EXCEPT ![c] = reply.counts]
           /\ do_not_select' = [do_not_select EXCEPT ![c] = {real}]
           /\ Continue(c, <<>>)
        \/ Fails(c) /\ UNCHANGED <<distribution, do_not_select, candidates, res, ring>>
  BY DEF Distribution
<1>2. CASE Fails(c) /\ UNCHANGED <<distribution, do_not_select, candidates, res, ring>>
  BY <1>0, <1>2, QuietStep DEF Fails
<1>3. CASE /\ WellFormed(reply)
           /\ distribution' = [distribution EXCEPT ![c] = reply.counts]
           /\ do_not_select' = [do_not_select EXCEPT ![c] = {real}]
           /\ Continue(c, <<>>)
  <2>1. block_number \in Nat /\ chain.first \in Nat
    <3>1. block_number \in Nat /\ chain \in Chains
      BY DEF Inv, TypeOK
    <3>. QED
      BY <3>1, ChainsAssumption, NumbersAssumption
  <2>2. reply.start = chain.first /\ chain.first <= block_number
    BY <1>3 DEF WellFormed, DistributionReplies
  <2>3. reply.counts = HonestCounts
    BY <2>1, <2>2 DEF DistributionReplies, HonestCounts
  <2>4. first_iter[c] /\ UNCHANGED first_iter
    BY <1>0 DEF Inv, CallerInv, Fresh
  <2>5. /\ distribution'[c] = HonestCounts /\ do_not_select'[c] = {real} /\ res'[c] = <<>> /\ first_iter'[c]
        /\ pc'[c] # "reply"
    BY <1>3, <2>3, <2>4 DEF Inv, TypeOK, Continue
  <2>6. HonestCounts' = HonestCounts /\ real' = real /\ chain' = chain /\ block_number' = block_number
    BY <1>0 DEF HonestCounts, argVars
  <2>7. Members(<<>>) = {}
    BY DEF Members
  <2>8. SpendableInv(c)'
    BY <2>2, <2>5, <2>6, <2>7 DEF SpendableInv
  <2>9. \A d \in Callers : d # c => UNCHANGED Local(d)
    BY <1>0, <1>3 DEF Inv, TypeOK, Continue, Local
  <2>10. TapeInv'
    BY <1>0, LongerTape DEF Inv, TypeOK, HonestInv
  <2>. QED
    BY <1>0, <2>8, <2>9, <2>10, OneSpendable
<1>. QED
  BY <1>1, <1>2, <1>3

LEMMA SelectSpendable ==
  ASSUME Inv, HonestInv, Honest, Deterministic, NEW c \in Callers, Select(c)
  PROVE  HonestInv'
<1>0. /\ UNCHANGED <<chain, height, argVars, distribution, first_iter, real_index, res, ring, asked>>
      /\ pc[c] = "select" /\ iters' = [iters EXCEPT ![c] = Counted(@ + 1)]
  BY DEF Select, nodeVars
<1>1. CASE Fails(c) /\ UNCHANGED <<candidates, do_not_select, tape>>
  BY <1>0, <1>1, QuietStep DEF Fails
<1>2. CASE ~(Fails(c) /\ UNCHANGED <<candidates, do_not_select, tape>>)
  <2>1. /\ ring_len >= 1 /\ Monotonic(distribution[c]) /\ Len(distribution[c]) >= LockWindow
        /\ block_number <= height
    BY <1>0 DEF Inv, CallerInv, Counting, Served
  <2>2. PICK k \in Nat \ {0} : k = Counted(iters[c] + 1)
    BY <2>1, CountedIsPositive DEF Inv, TypeOK
  <2>3. iters'[c] = k
    BY <1>0, <2>2 DEF Inv, TypeOK
  <2>4. UNCHANGED pc
    BY <1>2 DEF Select
  <2>5. PICK draw \in IF Deterministic /\ k <= Len(tape) THEN {tape[k]} ELSE Draws(distribution[c]) :
          /\ tape' = IF Deterministic /\ k > Len(tape) THEN Append(tape, draw) ELSE tape
          /\ IF /\ draw[1] < Bound(c) /\ OutputsIn(distribution[c], draw[1]) # 0
                /\ Untried(c, PrevOutputs(distribution[c], draw[1]) + draw[2])
             THEN LET o == PrevOutputs(distribution[c], draw[1]) + draw[2]
                  IN /\ candidates' = [candidates EXCEPT ![c] = Append(@, o)]
                     /\ do_not_select' = [do_not_select EXCEPT ![c] = @ \cup {o}]
             ELSE UNCHANGED <<candidates, do_not_select>>
    BY <1>2, <2>3 DEF Select
  <2>6. SpendableInv(c) /\ TapeInv
    BY DEF HonestInv
  <2>7. distribution[c] = HonestCounts /\ chain.first <= block_number
    BY <1>0, <2>6 DEF SpendableInv
  <2>8. draw \in Draws(HonestCounts)
    <3>1. CASE k <= Len(tape)
      <4>1. k \in 1 .. Len(tape) /\ draw = tape[k]
        BY <2>5, <3>1 DEF Inv, TypeOK
      <4>. QED
        BY <2>6, <4>1 DEF TapeInv
    <3>2. CASE ~(k <= Len(tape))
      BY <2>5, <2>7, <3>2
    <3>. QED
      BY <3>1, <3>2
  <2>9. draw \in Nat \X Nat /\ PrevOutputs(distribution[c], draw[1]) + draw[2] \in Nat
    BY <1>0, DrawIsAPair
  <2>10. TapeInv'
    BY <1>0, <2>5, <2>6, <2>8, <2>9, LongerTape DEF Inv, TypeOK
  <2>11. CASE UNCHANGED <<candidates, do_not_select>>
    <3>1. \A d \in Callers : UNCHANGED Local(d)
      BY <1>0, <2>4, <2>11 DEF Local
    <3>. QED
      BY <1>0, <2>10, <3>1, LeftSpendable DEF HonestInv
  <2>12. CASE ~(UNCHANGED <<candidates, do_not_select>>)
    <3>1. PICK o \in Nat : o = PrevOutputs(distribution[c], draw[1]) + draw[2]
      BY <2>9
    <3>2. /\ candidates' = [candidates EXCEPT ![c] = Append(@, o)]
          /\ do_not_select' = [do_not_select EXCEPT ![c] = @ \cup {o}]
      BY <2>5, <2>12, <3>1
    <3>3. draw[1] < Bound(c) /\ OutputsIn(distribution[c], draw[1]) # 0
      BY <2>5, <2>12
    <3>4. Existing(o) /\ BlockOf(o) + (LockWindow - 1) <= block_number
      BY <2>1, <2>7, <2>8, <3>1, <3>3, DrawnIsOld DEF Inv, Bound
    <3>5. do_not_select'[c] = do_not_select[c] \cup {o}
      BY <3>2 DEF Inv, TypeOK
    <3>6. UNCHANGED <<chain, block_number, real>> /\ HonestCounts' = HonestCounts
      BY <1>0 DEF argVars, HonestCounts
    <3>7. \A x : BlockOf(x)' = BlockOf(x)
      BY <3>6 DEF BlockOf
    <3>8. \A x : (Spendable(x)' <=> Spendable(x)) /\ (Existing(x)' <=> Existing(x))
      BY <3>6, <3>7 DEF Spendable, Existing
    <3>9. SpendableInv(c)'
      BY <1>0, <2>4, <2>6, <3>4, <3>5, <3>6, <3>7, <3>8 DEF SpendableInv
    <3>10. \A d \in Callers : d # c => UNCHANGED Local(d)
      BY <1>0, <2>4, <3>2 DEF Inv, TypeOK, Local
    <3>. QED
      BY <1>0, <2>10, <3>9, <3>10, OneSpendable
  <2>. QED
    BY <2>11, <2>12
<1>. QED
  BY <1>1, <1>2

LEMMA RequestOutputsSpendable ==
  ASSUME Inv, Inv', HonestInv, NEW c \in Callers, RequestOutputs(c)
  PROVE  HonestInv'
<1>1. /\ UNCHANGED <<chain, argVars, tape, distribution, do_not_select, res, ring>>
      /\ pc[c] = "select" /\ pc'[c] = "reply"
  BY DEF RequestOutputs, nodeVars, Inv, TypeOK
<1>2. \A d \in Callers : d # c => UNCHANGED Local(d)
  BY DEF RequestOutputs, Inv, TypeOK, Local
<1>3. TapeInv'
  BY <1>1, LongerTape DEF Inv, TypeOK, HonestInv
<1>4. UNCHANGED <<chain, block_number, real>> /\ HonestCounts' = HonestCounts
  BY <1>1 DEF argVars, HonestCounts
<1>5. \A o : BlockOf(o)' = BlockOf(o)
  BY <1>4 DEF BlockOf
<1>6. \A o : (Spendable(o)' <=> Spendable(o)) /\ (Existing(o)' <=> Existing(o))
  BY <1>4, <1>5 DEF Spendable, Existing
<1>7. SpendableInv(c)
  BY DEF HonestInv
<1>8. ASSUME real_index'[c] = 0 PROVE Spendable(real)
  <2>1. CASE ~first_iter[c]
    BY <1>1, <1>7, <2>1 DEF SpendableInv
  <2>2. CASE first_iter[c]
    <3>1. asked[c] = <<>>
      BY <2>2 DEF Inv, CallerInv, Asking
    <3>2. asked'[c] = asked[c] \o candidates'[c] /\ candidates'[c] \in Seq(Nat) /\ ~first_iter'[c]
      BY DEF RequestOutputs, Inv, TypeOK
    <3>3. asked'[c] = candidates'[c]
      BY <3>1, <3>2
    <3>4. \E i \in 1 .. ring_len : i <= Len(asked'[c]) /\ asked'[c][i] = real
      BY <1>4, <3>2 DEF Inv, CallerInv, Asking, RequestOutputs, argVars
    <3>5. real \notin Members(candidates'[c])
      BY <1>1, <1>4, <1>8 DEF Inv, CallerInv, Replying
    <3>6. PICK i \in 1 .. ring_len : i <= Len(candidates'[c]) /\ candidates'[c][i] = real
      BY <3>3, <3>4
    <3>7. ring_len \in 0 .. 255
      BY DEF Inv, TypeOK
    <3>8. i \in 1 .. Len(candidates'[c])
      BY <3>2, <3>6, <3>7
    <3>. QED
      BY <3>5, <3>6, <3>8 DEF Members
  <2>. QED
    BY <2>1, <2>2
<1>9. SpendableInv(c)'
  BY <1>1, <1>4, <1>5, <1>6, <1>7, <1>8 DEF SpendableInv
<1>. QED
  BY <1>1, <1>2, <1>3, <1>9, OneSpendable

LEMMA OutputsSpendable ==
  ASSUME Inv, HonestInv, Honest, Deterministic, NEW c \in Callers, Outputs(c)
  PROVE  HonestInv'
<1>0. /\ UNCHANGED <<chain, height, tape, argVars, distribution, do_not_select, first_iter, real_index, iters, asked>>
      /\ pc[c] = "reply"
  BY DEF Outputs, nodeVars
<1>1. CallerInv(c) /\ TypeOK /\ SpendableInv(c) /\ TapeInv
  BY DEF Inv, HonestInv
<1>2. PICK reply \in OutputReplies(candidates[c]) :
        \/ Fails(c) /\ UNCHANGED <<candidates, res, ring>>
        \/ /\ Len(reply) = Len(candidates[c])
           /\ real_index[c] # 0 => SameView(reply[real_index[c]])
           /\ LET used == Ascending({i \in 1 .. Len(reply) : i # real_index[c] /\ UsableDecoy(reply[i])})
              IN Continue(c, res[c] \o [k \in 1 .. Len(used) |-> candidates[c][used[k]]])
  BY DEF Outputs
<1>3. CASE Fails(c) /\ UNCHANGED <<candidates, res, ring>>
  BY <1>0, <1>3, QuietStep DEF Fails
<1>4. CASE ~(Fails(c) /\ UNCHANGED <<candidates, res, ring>>)
  <2>1. PICK s \in Seq(Nat), found \in Seq(Nat) : s = candidates[c] /\ found = res[c]
    BY <1>1 DEF TypeOK
  <2>2. \A i \in 1 .. Len(s) : reply[i] \in HonestViews(s[i])
    BY <2>1 DEF OutputReplies
  <2>3. Distinct(s) /\ Members(s) \subseteq Members(asked[c])
    BY <1>0, <1>1, <2>1 DEF CallerInv, Replying
  <2>4. ASSUME NEW i \in 1 .. Len(s) PROVE Existing(s[i])
    <3>1. s[i] \in Members(s)
      BY DEF Members
    <3>2. s[i] \in do_not_select[c]
      BY <1>1, <2>3, <3>1 DEF CallerInv, Asking
    <3>. QED
      BY <1>1, <3>2 DEF SpendableInv, TapeInv
  <2>5. Len(reply) = Len(s)
    BY <1>2, <1>4, <2>1
  <2>6. ASSUME NEW i \in 1 .. Len(s), UsableDecoy(reply[i]) \/ SameView(reply[i]) PROVE Spendable(s[i])
    BY <1>1, <2>2, <2>4, <2>6, ShownIsSpendable
  <2>. DEFINE places == {i \in 1 .. Len(s) : i # real_index[c] /\ UsableDecoy(reply[i])}
  <2>7. Continue(c, found \o [k \in 1 .. Len(Ascending(places)) |-> s[Ascending(places)[k]]])
    <3>1. {i \in 1 .. Len(reply) : i # real_index[c] /\ UsableDecoy(reply[i])} = places
      BY <2>5
    <3>. QED
      BY <1>2, <1>4, <2>1, <3>1
  <2>8. places \in SUBSET (1 .. Len(s)) /\ \A i \in places : Spendable(s[i])
    BY <2>6
  <2>. HIDE DEF places
  <2>9. PICK chosen \in Seq(Nat) :
          /\ chosen = [k \in 1 .. Len(Ascending(places)) |-> s[Ascending(places)[k]]]
          /\ \A k \in 1 .. Len(chosen) : \E i \in places : chosen[k] = s[i]
    BY <2>3, <2>8, Chosen
  <2>10. \A k \in 1 .. Len(chosen) : \E i \in places : chosen[k] = s[i]
    BY <2>9
  <2>11. \A x \in Members(chosen) : Spendable(x)
    BY <2>8, <2>10 DEF Members
  <2>12. res'[c] = found \o chosen /\ pc'[c] \in {"select", "done"}
    BY <1>1, <2>7, <2>9 DEF Continue, TypeOK
  <2>13. Members(found \o chosen) = Members(found) \cup Members(chosen)
    BY ConcatMembers
  <2>14. \A x \in Members(res'[c]) : Spendable(x)
    BY <1>1, <2>1, <2>11, <2>12, <2>13 DEF SpendableInv
  <2>15. Spendable(real)
    <3>1. CASE real_index[c] # 0
      <4>1. PICK i \in 1 .. Len(s) : i = real_index[c] /\ s[i] = real
        BY <1>0, <1>1, <2>1, <3>1 DEF CallerInv, Replying
      <4>2. SameView(reply[i])
        BY <1>2, <1>4, <3>1, <4>1
      <4>. QED
        BY <2>6, <4>1, <4>2
    <3>2. CASE real_index[c] = 0
      BY <1>0, <1>1, <3>2 DEF SpendableInv
    <3>. QED
      BY <3>1, <3>2
  <2>16. UNCHANGED <<chain, block_number, real>> /\ HonestCounts' = HonestCounts
    BY <1>0 DEF argVars, HonestCounts
  <2>17. \A o : BlockOf(o)' = BlockOf(o)
    BY <2>16 DEF BlockOf
  <2>18. \A o : (Spendable(o)' <=> Spendable(o)) /\ (Existing(o)' <=> Existing(o))
    BY <2>16, <2>17 DEF Spendable, Existing
  <2>19. SpendableInv(c)'
    BY <1>0, <1>1, <2>12, <2>14, <2>15, <2>16, <2>17, <2>18 DEF SpendableInv
  <2>20. \A d \in Callers : d # c => UNCHANGED Local(d)
    BY <1>0, <1>1, <2>7 DEF Continue, TypeOK, Local
  <2>21. TapeInv'
    BY <1>0, <1>1, LongerTape DEF TypeOK
  <2>. QED
    BY <1>0, <2>19, <2>20, <2>21, OneSpendable
<1>. QED
  BY <1>3, <1>4

LEMMA NextHonestInv ==
  ASSUME Inv, Inv', HonestInv, Honest, Deterministic, [Next]_vars
  PROVE  HonestInv'
<1>1. CASE UNCHANGED vars
  BY <1>1, QuietStep DEF vars, argVars
<1>2. CASE Grow
  BY <1>2, QuietStep DEF Grow
<1>3. ASSUME NEW c \in Callers, Start(c) PROVE HonestInv'
  BY <1>3, QuietStep DEF Start, nodeVars, Fails
<1>4. ASSUME NEW c \in Callers, RequestFails(c) PROVE HonestInv'
  BY <1>4, QuietStep DEF RequestFails, Fails
<1>5. ASSUME NEW c \in Callers, Step(c) PROVE HonestInv'
  BY <1>3, <1>5, DistributionSpendable, SelectSpendable, RequestOutputsSpendable, OutputsSpendable DEF Step
<1>. QED
  BY <1>1, <1>2, <1>4, <1>5 DEF Next, Terminated

LEMMA AlwaysHonestInv == Spec => [](Honest /\ Deterministic => HonestInv)
<1>1. Init => (Honest /\ Deterministic => HonestInv)
  BY InitHonestInv
<1>2. Inv /\ Inv' /\ (Honest /\ Deterministic => HonestInv) /\ [Next]_vars =>
        (Honest /\ Deterministic => HonestInv)'
  BY NextHonestInv
<1>. QED
  BY <1>1, <1>2, AlwaysInv, PTL DEF Spec

\* With an honest node, what select_n tries is past the lock window as of block_number, and every member
\* of a ring selected deterministically, the real one too, can be spent with after block_number.
THEOREM RingsAreSpendable == Spec => []RingIsSpendable
<1>1. Inv /\ (Honest /\ Deterministic => HonestInv) => RingIsSpendable
  <2>. SUFFICES ASSUME Inv, HonestInv, Honest, Deterministic, NEW c \in Callers
                PROVE  /\ \A o \in do_not_select[c] \ {real} : BlockOf(o) + (LockWindow - 1) <= block_number
                       /\ pc[c] = "done" /\ ring_len > 1 =>
                            \A i \in 1 .. ring_len : Spendable(Positions(ring[c])[i])
    BY DEF RingIsSpendable, Spendable
  <2>1. SpendableInv(c) /\ CallerInv(c) /\ TypeOK
    BY DEF HonestInv, Inv
  <2>2. \A o \in do_not_select[c] \ {real} : BlockOf(o) + (LockWindow - 1) <= block_number
    BY <2>1 DEF SpendableInv
  <2>3. ASSUME pc[c] = "done", ring_len > 1, NEW i \in 1 .. ring_len PROVE Spendable(Positions(ring[c])[i])
    <3>1. Positions(ring[c])[i] \in Members(res[c]) \cup {real}
      BY <2>3, InvIsValid
    <3>2. ~first_iter[c]
      <4>1. SUFFICES ASSUME first_iter[c] PROVE FALSE
        OBVIOUS
      <4>2. Members(asked[c]) = {}
        BY <2>1, <4>1 DEF CallerInv, Asking, Members
      <4>3. res[c] \in Seq(Nat) /\ ring_len \in 0 .. 255
        BY <2>1 DEF TypeOK
      <4>4. Len(res[c]) = ring_len - 1
        BY <2>1, <2>3 DEF CallerInv, Returned, DecoyCount
      <4>5. 1 \in 1 .. Len(res[c])
        BY <2>3, <4>3, <4>4
      <4>6. res[c][1] \in Members(res[c])
        BY <4>5 DEF Members
      <4>. QED
        BY <2>1, <4>2, <4>6 DEF CallerInv, Found
    <3>. QED
      BY <2>1, <2>3, <3>1, <3>2 DEF SpendableInv
  <2>. QED
    BY <2>2, <2>3
<1>. QED
  BY <1>1, AlwaysInv, AlwaysHonestInv, PTL

---------------------------------------------------------------------------------
(* The same decoys: with an honest node, a deterministic call is a function of the tape. *)

\* What a call keeps from the distribution on.
StateOf(c) ==
  [pc |-> pc[c], tried |-> do_not_select[c], cand |-> candidates[c], first |-> first_iter[c],
   index |-> real_index[c], iters |-> iters[c], res |-> res[c]]

FirstState ==
  [pc |-> IF 0 = DecoyCount THEN "done" ELSE "select", tried |-> {real}, cand |-> <<>>, first |-> TRUE,
   index |-> 0, iters |-> 0, res |-> <<>>]

\* The one view an honest node has of an output as of block_number.
ViewOf(o) == CHOOSE view : view \in HonestViews(o)

\* The state after this one, from the draws of the tape alone: an iteration, a request, its answer.
AfterDraw(x, draws) ==
  LET k == Counted(x.iters + 1)
      o == PrevOutputs(HonestCounts, draws[k][1]) + draws[k][2]
      new == /\ draws[k][1] < HighestOutputExclusiveBound(HonestCounts)
             /\ OutputsIn(HonestCounts, draws[k][1]) # 0
             /\ o \notin x.tried
  IN [pc |-> "select", tried |-> IF new THEN x.tried \cup {o} ELSE x.tried,
      cand |-> IF new THEN Append(x.cand, o) ELSE x.cand, first |-> x.first, index |-> x.index,
      iters |-> k, res |-> x.res]
AfterRequest(x) ==
  LET requested == IF x.first THEN Sorted(Append(x.cand, real)) ELSE x.cand
  IN [pc |-> "reply", tried |-> x.tried, cand |-> requested, first |-> FALSE,
      index |-> IF x.first THEN PositionOf(real, requested) ELSE 0, iters |-> x.iters, res |-> x.res]
AfterAnswer(x) ==
  LET used == Ascending({i \in 1 .. Len(x.cand) : i # x.index /\ UsableDecoy(ViewOf(x.cand[i]))})
      found == x.res \o [k \in 1 .. Len(used) |-> x.cand[used[k]]]
  IN [pc |-> IF Len(found) = DecoyCount THEN "done" ELSE "select", tried |-> x.tried, cand |-> <<>>,
      first |-> x.first, index |-> x.index, iters |-> x.iters, res |-> found]

Lacks(x) == Len(x.cand) # DecoyCount - Len(x.res)
After(x, draws) ==
  IF x.pc = "select" THEN IF Lacks(x) THEN AfterDraw(x, draws) ELSE AfterRequest(x) ELSE AfterAnswer(x)
Goes(x, draws) ==
  /\ x.pc \in {"select", "reply"}
  /\ x.pc = "select" /\ Lacks(x) => Counted(x.iters + 1) \in 1 .. Len(draws)

\* A path from the first state to x.
IsPath(t, n, draws) == t[1] = FirstState /\ \A i \in 1 .. n - 1 : Goes(t[i], draws) /\ t[i + 1] = After(t[i], draws)
Reached(x, draws) == \E n \in Nat \ {0} : \E t : IsPath(t, n, draws) /\ t[n] = x

ReplayInv(c) ==
  /\ pc[c] # "err" => iters[c] <= Len(tape)
  /\ pc[c] \in {"start", "distribution"} => iters[c] = 0 /\ real_index[c] = 0
  /\ pc[c] \in {"select", "reply", "done"} => Reached(StateOf(c), tape)

\* A path goes one way: two that end in a state from which it does not go on end in the same one.
LEMMA OnePath ==
  ASSUME NEW x, NEW y, NEW draws, Reached(x, draws), Reached(y, draws), ~Goes(x, draws), ~Goes(y, draws)
  PROVE  x = y
<1>1a. PICK n \in Nat \ {0} : \E t : IsPath(t, n, draws) /\ t[n] = x
  BY DEF Reached
<1>1. PICK t : IsPath(t, n, draws) /\ t[n] = x
  BY <1>1a
<1>2a. PICK m \in Nat \ {0} : \E u : IsPath(u, m, draws) /\ u[m] = y
  BY DEF Reached
<1>2. PICK u : IsPath(u, m, draws) /\ u[m] = y
  BY <1>2a
<1>3. ASSUME NEW a \in Nat, a \in 1 .. n, a \in 1 .. m, t[a] # u[a] PROVE FALSE
  <2>. DEFINE S == {i \in Nat : i \in 1 .. n /\ i \in 1 .. m /\ t[i] # u[i]}
  <2>1. S \in SUBSET Nat /\ a \in S
    BY <1>3
  <2>2. PICK i \in S : \A j \in S : i <= j
    BY <2>1, LeastNatural
  <2>3. i # 1
    BY <1>1, <1>2, <2>2 DEF IsPath
  <2>4. /\ i - 1 \in Nat /\ i - 1 \in 1 .. n /\ i - 1 \in 1 .. m /\ ~(i <= i - 1)
        /\ i - 1 \in 1 .. n - 1 /\ i - 1 \in 1 .. m - 1 /\ (i - 1) + 1 = i
    BY <2>2, <2>3
  <2>5. t[i - 1] = u[i - 1]
    BY <2>2, <2>4
  <2>6. t[i] = After(t[i - 1], draws) /\ u[i] = After(u[i - 1], draws)
    BY <1>1, <1>2, <2>4 DEF IsPath
  <2>. QED
    BY <2>2, <2>5, <2>6
<1>4. CASE n = m
  BY <1>1, <1>2, <1>3, <1>4
<1>5. CASE n < m
  <2>1. n \in 1 .. n /\ n \in 1 .. m /\ n \in 1 .. m - 1
    BY <1>5
  <2>2. u[n] = x /\ Goes(u[n], draws)
    BY <1>1, <1>2, <1>3, <2>1 DEF IsPath
  <2>. QED
    BY <2>2
<1>6. CASE m < n
  <2>1. m \in 1 .. m /\ m \in 1 .. n /\ m \in 1 .. n - 1
    BY <1>6
  <2>2. t[m] = y /\ Goes(t[m], draws)
    BY <1>1, <1>2, <1>3, <2>1 DEF IsPath
  <2>. QED
    BY <2>2
<1>. QED
  BY <1>4, <1>5, <1>6

\* The first state is reached, and the state after one that is.
LEMMA FirstIsReached == ASSUME NEW draws PROVE Reached(FirstState, draws)
<1>1. IsPath([i \in {1} |-> FirstState], 1, draws)
  BY DEF IsPath
<1>2. [i \in {1} |-> FirstState][1] = FirstState
  OBVIOUS
<1>. QED
  BY <1>1, <1>2 DEF Reached

LEMMA AfterIsReached ==
  ASSUME NEW x, NEW draws, Reached(x, draws), Goes(x, draws)
  PROVE  Reached(After(x, draws), draws)
<1>1a. PICK n \in Nat \ {0} : \E t : IsPath(t, n, draws) /\ t[n] = x
  BY DEF Reached
<1>1. PICK t : IsPath(t, n, draws) /\ t[n] = x
  BY <1>1a
<1>. DEFINE u == [i \in 1 .. n + 1 |-> IF i = n + 1 THEN After(x, draws) ELSE t[i]]
<1>2. u[n + 1] = After(x, draws) /\ u[1] = t[1]
  OBVIOUS
<1>3. \A i \in 1 .. n : u[i] = t[i]
  OBVIOUS
<1>. HIDE DEF u
<1>4. ASSUME NEW i \in 1 .. (n + 1) - 1 PROVE Goes(u[i], draws) /\ u[i + 1] = After(u[i], draws)
  <2>1. CASE i = n
    BY <1>1, <1>2, <1>3, <2>1
  <2>2. CASE i # n
    <3>1. i \in 1 .. n - 1 /\ i \in 1 .. n /\ i + 1 \in 1 .. n
      BY <2>2
    <3>. QED
      BY <1>1, <1>3, <3>1 DEF IsPath
  <2>. QED
    BY <2>1, <2>2
<1>5. IsPath(u, n + 1, draws)
  BY <1>1, <1>2, <1>4 DEF IsPath
<1>. QED
  BY <1>2, <1>5 DEF Reached

\* A longer tape changes nothing of what was reached.
LEMMA LongerReached ==
  ASSUME NEW x, NEW draws \in Seq(Nat \X Nat), NEW draw \in Nat \X Nat, Reached(x, draws)
  PROVE  Reached(x, Append(draws, draw))
<1>. DEFINE more == Append(draws, draw)
<1>1. Len(more) = Len(draws) + 1 /\ \A k \in 1 .. Len(draws) : k \in 1 .. Len(more) /\ more[k] = draws[k]
  OBVIOUS
<1>. HIDE DEF more
<1>2. ASSUME NEW y, Goes(y, draws) PROVE Goes(y, more) /\ After(y, more) = After(y, draws)
  <2>1. Goes(y, more)
    BY <1>1, <1>2 DEF Goes
  <2>2. CASE y.pc = "select" /\ Lacks(y)
    <3>1. more[Counted(y.iters + 1)] = draws[Counted(y.iters + 1)]
      BY <1>1, <1>2, <2>2 DEF Goes
    <3>2. AfterDraw(y, more) = AfterDraw(y, draws)
      BY <3>1 DEF AfterDraw
    <3>. QED
      BY <2>1, <2>2, <3>2 DEF After
  <2>3. CASE ~(y.pc = "select" /\ Lacks(y))
    BY <2>1, <2>3 DEF After
  <2>. QED
    BY <2>2, <2>3
<1>3a. PICK n \in Nat \ {0} : \E t : IsPath(t, n, draws) /\ t[n] = x
  BY DEF Reached
<1>3. PICK t : IsPath(t, n, draws) /\ t[n] = x
  BY <1>3a
<1>4. IsPath(t, n, more)
  BY <1>2, <1>3 DEF IsPath
<1>. QED
  BY <1>3, <1>4 DEF Reached, more

\* Nor does a step which leaves the chain and the arguments as they are, as all steps do.
LEMMA SameReached ==
  ASSUME Deterministic, UNCHANGED <<chain, argVars>>, NEW x, NEW draws, Reached(x, draws)
  PROVE  Reached(x, draws)'
<1>1. UNCHANGED <<chain, ring_len, block_number, real>>
  BY DEF argVars
<1>2. HonestCounts' = HonestCounts /\ DecoyCount' = DecoyCount
  BY <1>1 DEF HonestCounts, DecoyCount
<1>3. FirstState' = FirstState
  BY <1>1, <1>2 DEF FirstState
<1>4. \A n : Counted(n)' = Counted(n)
  BY <1>1 DEF Counted
<1>5. \A y : Lacks(y)' <=> Lacks(y)
  BY <1>2 DEF Lacks
<1>6. \A y, d : AfterDraw(y, d)' = AfterDraw(y, d)
  <2>1. \A o : PrevOutputs(HonestCounts, o)' = PrevOutputs(HonestCounts, o)
    BY <1>2 DEF PrevOutputs, BlockFor, HighestOutputExclusiveBound
  <2>2. HighestOutputExclusiveBound(HonestCounts)' = HighestOutputExclusiveBound(HonestCounts)
    BY <1>2 DEF HighestOutputExclusiveBound
  <2>3. \A o : OutputsIn(HonestCounts, o)' = OutputsIn(HonestCounts, o)
    BY <1>2 DEF OutputsIn, PrevOutputs, BlockFor, HighestOutputExclusiveBound
  <2>4. ASSUME NEW y, NEW d PROVE AfterDraw(y, d)' = AfterDraw(y, d)
    <3>1. PICK k : k = Counted(y.iters + 1) /\ k = Counted(y.iters + 1)'
      BY <1>4
    <3>2. PICK a, b, e : /\ a = PrevOutputs(HonestCounts, d[k][1]) /\ a = PrevOutputs(HonestCounts, d[k][1])'
                         /\ b = HighestOutputExclusiveBound(HonestCounts) /\ b = HighestOutputExclusiveBound(HonestCounts)'
                         /\ e = OutputsIn(HonestCounts, d[k][1]) /\ e = OutputsIn(HonestCounts, d[k][1])'
      BY <2>1, <2>2, <2>3
    <3>. DEFINE o == a + d[k][2]
                new == d[k][1] < b /\ e # 0 /\ o \notin y.tried
                state == [pc |-> "select", tried |-> IF new THEN y.tried \cup {o} ELSE y.tried,
                          cand |-> IF new THEN Append(y.cand, o) ELSE y.cand, first |-> y.first,
                          index |-> y.index, iters |-> k, res |-> y.res]
    <3>3. AfterDraw(y, d) = state
      BY <3>1, <3>2 DEF AfterDraw
    <3>4. AfterDraw(y, d)' = state
      BY <3>1, <3>2 DEF AfterDraw
    <3>. QED
      BY <3>3, <3>4
  <2>. QED
    BY <2>4
<1>7. \A y : AfterRequest(y)' = AfterRequest(y)
  BY <1>1 DEF AfterRequest
<1>8. \A o : ViewOf(o)' = ViewOf(o)
  <2>1. \A o : BlockOf(o)' = BlockOf(o)
    BY <1>1 DEF BlockOf
  <2>2. \A o : HonestViews(o)' = HonestViews(o)
    BY <1>1, <2>1 DEF HonestViews, UnlockedAt
  <2>. QED
    BY <2>2 DEF ViewOf
<1>9. \A y : AfterAnswer(y)' = AfterAnswer(y)
  BY <1>2, <1>8 DEF AfterAnswer
<1>10. \A y, d : After(y, d)' = After(y, d) /\ (Goes(y, d)' <=> Goes(y, d))
  BY <1>4, <1>5, <1>6, <1>7, <1>9 DEF After, Goes
<1>11a. PICK n \in Nat \ {0} : \E t : IsPath(t, n, draws) /\ t[n] = x
  BY DEF Reached
<1>11. PICK t : IsPath(t, n, draws) /\ t[n] = x
  BY <1>11a
<1>12. IsPath(t, n, draws)'
  BY <1>3, <1>10, <1>11 DEF IsPath
<1>. QED
  BY <1>11, <1>12 DEF Reached

\* What a step may do to the tape.
TapeGrows == tape \in Seq(Nat \X Nat) /\ (UNCHANGED tape \/ \E draw \in Nat \X Nat : tape' = Append(tape, draw))

LEMMA StillReached ==
  ASSUME Deterministic, UNCHANGED <<chain, argVars>>, TapeGrows, NEW x, Reached(x, tape)
  PROVE  Reached(x, tape') /\ Len(tape) <= Len(tape') /\ Len(tape') \in Nat
<1>1. CASE UNCHANGED tape
  BY <1>1 DEF TapeGrows
<1>2. CASE \E draw \in Nat \X Nat : tape' = Append(tape, draw)
  <2>1. PICK draw \in Nat \X Nat : tape' = Append(tape, draw)
    BY <1>2
  <2>2. tape \in Seq(Nat \X Nat)
    BY DEF TapeGrows
  <2>3. Reached(x, Append(tape, draw))
    BY <2>2, LongerReached
  <2>. QED
    BY <2>1, <2>2, <2>3
<1>. QED
  BY <1>1, <1>2 DEF TapeGrows

LEMMA LeftReplayed ==
  ASSUME Deterministic, UNCHANGED <<chain, argVars>>, TapeGrows, NEW d, ReplayInv(d), UNCHANGED Local(d),
         UNCHANGED iters[d], iters[d] \in Nat
  PROVE  ReplayInv(d)'
<1>1. UNCHANGED <<pc[d], do_not_select[d], candidates[d], first_iter[d], real_index[d], res[d], iters[d]>>
  BY DEF Local
<1>2. Len(tape) \in Nat /\ Len(tape') \in Nat /\ Len(tape) <= Len(tape')
  BY DEF TapeGrows
<1>3. pc[d] # "err" => iters'[d] <= Len(tape')
  BY <1>1, <1>2 DEF ReplayInv
<1>4. ASSUME pc[d] \in {"select", "reply", "done"} PROVE Reached(StateOf(d), tape)'
  <2>1. PICK x, draws : x = StateOf(d) /\ draws = tape'
    OBVIOUS
  <2>2. Reached(x, tape)
    BY <1>4, <2>1 DEF ReplayInv
  <2>3. Reached(x, draws)
    BY <2>1, <2>2, StillReached
  <2>4. Reached(x, draws)'
    BY <2>3, SameReached
  <2>5. StateOf(d)' = x /\ tape' = draws
    BY <1>1, <2>1 DEF StateOf
  <2>. QED
    BY <2>4, <2>5
<1>. QED
  BY <1>1, <1>3, <1>4 DEF ReplayInv

\* A step of the call follows the path.
LEMMA StepIsReached ==
  ASSUME Deterministic, UNCHANGED <<chain, argVars>>, TapeGrows, NEW c, Reached(StateOf(c), tape),
         Goes(StateOf(c), tape'), StateOf(c)' = After(StateOf(c), tape')
  PROVE  Reached(StateOf(c), tape)'
<1>1. PICK x, draws, y : x = StateOf(c) /\ draws = tape' /\ y = After(x, draws)
  OBVIOUS
<1>2. Reached(x, draws)
  BY <1>1, StillReached
<1>3. Goes(x, draws)
  BY <1>1
<1>4. Reached(y, draws)
  BY <1>1, <1>2, <1>3, AfterIsReached
<1>5. Reached(y, draws)'
  BY <1>4, SameReached
<1>6. StateOf(c)' = y /\ tape' = draws
  BY <1>1
<1>. QED
  BY <1>5, <1>6

ReplaysInv == \A c \in Callers : ReplayInv(c)

LEMMA OneReplayed ==
  ASSUME Deterministic, Inv, ReplaysInv, NEW c \in Callers, ReplayInv(c)', UNCHANGED <<chain, argVars>>, TapeGrows,
         \A d \in Callers : d # c => UNCHANGED Local(d) /\ UNCHANGED iters[d]
  PROVE  ReplaysInv'
<1>1. ASSUME NEW d \in Callers PROVE ReplayInv(d)'
  <2>1. CASE d = c
    BY <2>1
  <2>2. CASE d # c
    <3>1. iters[d] \in Nat
      BY DEF Inv, TypeOK
    <3>. QED
      BY <2>2, <3>1, LeftReplayed DEF ReplaysInv
  <2>. QED
    BY <2>1, <2>2
<1>. QED
  BY <1>1 DEF ReplaysInv

LEMMA InitReplays == ASSUME Init, Deterministic PROVE ReplaysInv
<1>1. ASSUME NEW c \in Callers PROVE ReplayInv(c)
  <2>1. iters[c] = 0 /\ real_index[c] = 0 /\ pc[c] = "start" /\ tape = <<>>
    BY DEF Init
  <2>. QED
    BY <2>1 DEF ReplayInv
<1>. QED
  BY <1>1 DEF ReplaysInv

\* The calls whose state is not one of the path, or is what it was.
LEMMA QuietReplays ==
  ASSUME Deterministic, Inv, ReplaysInv,
         UNCHANGED <<chain, argVars, tape, distribution, do_not_select, candidates, first_iter, real_index, iters, res,
                     ring, asked>>,
         \/ UNCHANGED pc
         \/ \E c \in Callers : \/ pc' = [pc EXCEPT ![c] = "err"]
                               \/ pc[c] = "start" /\ pc' = [pc EXCEPT ![c] = "distribution"]
  PROVE  ReplaysInv'
<1>0. TapeGrows
  BY DEF TapeGrows, Inv, TypeOK
<1>1. CASE UNCHANGED pc
  <2>1. \A d \in Callers : UNCHANGED Local(d) /\ UNCHANGED iters[d] /\ iters[d] \in Nat
    BY <1>1 DEF Local, Inv, TypeOK
  <2>. QED
    BY <1>0, <2>1, LeftReplayed DEF ReplaysInv
<1>2. ASSUME NEW c \in Callers,
             \/ pc' = [pc EXCEPT ![c] = "err"]
             \/ pc[c] = "start" /\ pc' = [pc EXCEPT ![c] = "distribution"]
      PROVE  ReplaysInv'
  <2>1. pc'[c] = "err" \/ (pc[c] = "start" /\ pc'[c] = "distribution")
    BY <1>2 DEF Inv, TypeOK
  <2>2. \A d \in Callers : d # c => UNCHANGED Local(d) /\ UNCHANGED iters[d]
    BY <1>2 DEF Inv, TypeOK, Local
  <2>3. ReplayInv(c)
    BY DEF ReplaysInv
  <2>4. ReplayInv(c)'
    BY <2>1, <2>3 DEF ReplayInv
  <2>. QED
    BY <1>0, <2>2, <2>4, OneReplayed
<1>. QED
  BY <1>1, <1>2

LEMMA DistributionReplays ==
  ASSUME Inv, ReplaysInv, Deterministic, NEW c \in Callers, Distribution(c)
  PROVE  ReplaysInv'
<1>0. UNCHANGED <<chain, height, tape, argVars, first_iter, real_index, iters, asked>> /\ pc[c] = "distribution"
  BY DEF Distribution, nodeVars
<1>1. TapeGrows
  BY <1>0 DEF TapeGrows, Inv, TypeOK
<1>2. CASE Fails(c) /\ UNCHANGED <<distribution, do_not_select, candidates, res, ring>>
  BY <1>0, <1>2, QuietReplays DEF Fails
<1>3. CASE ~(Fails(c) /\ UNCHANGED <<distribution, do_not_select, candidates, res, ring>>)
  <2>1. /\ \E counts : distribution' = [distribution EXCEPT ![c] = counts]
        /\ do_not_select' = [do_not_select EXCEPT ![c] = {real}]
        /\ Continue(c, <<>>)
    BY <1>3 DEF Distribution
  <2>2. ReplayInv(c)
    BY DEF ReplaysInv
  <2>3. first_iter[c] = TRUE /\ iters[c] = 0 /\ real_index[c] = 0
    BY <1>0, <2>2 DEF Inv, TypeOK, CallerInv, Fresh, ReplayInv
  <2>4. Len(<<>>) = 0
    OBVIOUS
  <2>5. StateOf(c)' = FirstState
    <3>1. /\ do_not_select'[c] = {real} /\ candidates'[c] = <<>> /\ res'[c] = <<>>
          /\ pc'[c] = IF 0 = DecoyCount THEN "done" ELSE "select"
      BY <2>1, <2>4 DEF Inv, TypeOK, Continue
    <3>2. first_iter'[c] = TRUE /\ iters'[c] = 0 /\ real_index'[c] = 0
      BY <1>0, <2>3
    <3>. QED
      BY <3>1, <3>2 DEF StateOf, FirstState
  <2>6. PICK x, draws : x = FirstState /\ draws = tape
    OBVIOUS
  <2>7. Reached(x, draws)
    BY <2>6, FirstIsReached
  <2>8. Reached(x, draws)'
    BY <1>0, <2>7, SameReached
  <2>9. Reached(StateOf(c), tape)'
    BY <1>0, <2>5, <2>6, <2>8
  <2>10. ReplayInv(c)'
    <3>1. pc'[c] \in {"done", "select"}
      BY <2>1 DEF Inv, TypeOK, Continue
    <3>. QED
      BY <1>0, <2>2, <2>9, <3>1 DEF ReplayInv
  <2>11. \A d \in Callers : d # c => UNCHANGED Local(d) /\ UNCHANGED iters[d]
    BY <1>0, <2>1 DEF Inv, TypeOK, Continue, Local
  <2>. QED
    BY <1>0, <1>1, <2>10, <2>11, OneReplayed
<1>. QED
  BY <1>2, <1>3

LEMMA SelectReplays ==
  ASSUME Inv, HonestInv, ReplaysInv, Deterministic, NEW c \in Callers, Select(c)
  PROVE  ReplaysInv'
<1>0. /\ UNCHANGED <<chain, height, argVars, distribution, first_iter, real_index, res, ring, asked>>
      /\ pc[c] = "select" /\ iters' = [iters EXCEPT ![c] = Counted(@ + 1)]
      /\ Len(candidates[c]) # Remaining(c)
  BY DEF Select, nodeVars
<1>1. /\ ring_len >= 1 /\ tape \in Seq(Nat \X Nat) /\ iters[c] \in Nat
      /\ iters[c] <= Len(tape) /\ Reached(StateOf(c), tape) /\ TypeOK
  BY <1>0 DEF Inv, CallerInv, Counting, TypeOK, ReplaysInv, ReplayInv
<1>2. PICK k \in Nat \ {0} : k = Counted(iters[c] + 1)
  BY <1>1, CountedIsPositive
<1>3. iters'[c] = k /\ \A d \in Callers : d # c => UNCHANGED iters[d]
  BY <1>0, <1>1, <1>2 DEF TypeOK
<1>4. k <= iters[c] + 1
  <2>1. ring_len \in 0 .. 255
    BY <1>1 DEF TypeOK
  <2>2. ItersPerMember * ring_len \in Int
    BY <2>1, NumbersAssumption
  <2>. QED
    BY <1>1, <1>2, <2>2 DEF Counted
<1>5. CASE Fails(c) /\ UNCHANGED <<candidates, do_not_select, tape>>
  <2>1. pc'[c] = "err"
    BY <1>1, <1>5 DEF Fails, TypeOK
  <2>2. \A d \in Callers : d # c => UNCHANGED Local(d)
    BY <1>0, <1>1, <1>5 DEF Fails, TypeOK, Local
  <2>3. TapeGrows
    BY <1>1, <1>5 DEF TapeGrows
  <2>4. ReplayInv(c)'
    BY <2>1 DEF ReplayInv
  <2>. QED
    BY <1>0, <1>3, <2>2, <2>3, <2>4, OneReplayed
<1>6. CASE ~(Fails(c) /\ UNCHANGED <<candidates, do_not_select, tape>>)
  <2>1. UNCHANGED pc
    BY <1>6 DEF Select
  <2>2. distribution[c] = HonestCounts
    BY <1>0 DEF HonestInv, SpendableInv
  <2>3. PICK draw \in IF Deterministic /\ k <= Len(tape) THEN {tape[k]} ELSE Draws(distribution[c]) :
          /\ tape' = IF Deterministic /\ k > Len(tape) THEN Append(tape, draw) ELSE tape
          /\ IF /\ draw[1] < Bound(c) /\ OutputsIn(distribution[c], draw[1]) # 0
                /\ Untried(c, PrevOutputs(distribution[c], draw[1]) + draw[2])
             THEN LET o == PrevOutputs(distribution[c], draw[1]) + draw[2]
                  IN /\ candidates' = [candidates EXCEPT ![c] = Append(@, o)]
                     /\ do_not_select' = [do_not_select EXCEPT ![c] = @ \cup {o}]
             ELSE UNCHANGED <<candidates, do_not_select>>
    BY <1>3, <1>6 DEF Select
  <2>4. draw \in Nat \X Nat
    BY <1>0, DrawIsAPair
  <2>5. TapeGrows /\ tape'[k] = draw /\ k \in 1 .. Len(tape')
    <3>1. CASE k <= Len(tape)
      <4>1. tape' = tape /\ draw = tape[k]
        BY <1>1, <2>3, <3>1
      <4>. QED
        BY <1>1, <3>1, <4>1 DEF TapeGrows
    <3>2. CASE ~(k <= Len(tape))
      <4>1. k > Len(tape) /\ k = Len(tape) + 1
        BY <1>1, <1>4, <3>2
      <4>2. tape' = Append(tape, draw)
        BY <2>3, <4>1
      <4>. QED
        BY <1>1, <2>4, <4>1, <4>2 DEF TapeGrows
    <3>. QED
      BY <3>1, <3>2
  <2>6. PICK o : o = PrevOutputs(HonestCounts, draw[1]) + draw[2]
    OBVIOUS
  <2>7. PICK new \in BOOLEAN :
          new = (/\ draw[1] < HighestOutputExclusiveBound(HonestCounts)
                 /\ OutputsIn(HonestCounts, draw[1]) # 0
                 /\ o \notin do_not_select[c])
    OBVIOUS
  <2>8. IF new THEN /\ candidates' = [candidates EXCEPT ![c] = Append(@, o)]
                    /\ do_not_select' = [do_not_select EXCEPT ![c] = @ \cup {o}]
               ELSE UNCHANGED <<candidates, do_not_select>>
    BY <2>2, <2>3, <2>6, <2>7 DEF Bound, Untried
  <2>9. /\ do_not_select'[c] = (IF new THEN do_not_select[c] \cup {o} ELSE do_not_select[c])
        /\ candidates'[c] = (IF new THEN Append(candidates[c], o) ELSE candidates[c])
    BY <1>1, <2>8 DEF TypeOK
  <2>10. PICK x, draws : x = StateOf(c) /\ draws = tape'
    OBVIOUS
  <2>11. /\ x.pc = "select" /\ x.tried = do_not_select[c] /\ x.cand = candidates[c] /\ x.first = first_iter[c]
         /\ x.index = real_index[c] /\ x.iters = iters[c] /\ x.res = res[c]
    BY <1>0, <2>10 DEF StateOf
  <2>12. Lacks(x)
    BY <1>0, <2>11 DEF Lacks, Remaining
  <2>13. draws[k] = draw /\ Counted(x.iters + 1) = k
    BY <1>2, <2>5, <2>10, <2>11
  <2>14. AfterDraw(x, draws) =
           [pc |-> "select", tried |-> IF new THEN x.tried \cup {o} ELSE x.tried,
            cand |-> IF new THEN Append(x.cand, o) ELSE x.cand, first |-> x.first, index |-> x.index,
            iters |-> k, res |-> x.res]
    BY <2>6, <2>7, <2>11, <2>13 DEF AfterDraw
  <2>15. StateOf(c)' = AfterDraw(x, draws)
    <3>1. /\ pc'[c] = "select" /\ first_iter'[c] = x.first /\ real_index'[c] = x.index /\ res'[c] = x.res
          /\ iters'[c] = k
      BY <1>0, <1>3, <2>1, <2>11
    <3>2. /\ do_not_select'[c] = (IF new THEN x.tried \cup {o} ELSE x.tried)
          /\ candidates'[c] = (IF new THEN Append(x.cand, o) ELSE x.cand)
      BY <2>9, <2>11
    <3>. QED
      BY <2>14, <3>1, <3>2 DEF StateOf
  <2>16. StateOf(c)' = After(x, draws) /\ Goes(x, draws)
    BY <2>5, <2>10, <2>11, <2>12, <2>13, <2>15 DEF After, Goes
  <2>17. Reached(StateOf(c), tape)'
    BY <1>0, <1>1, <2>5, <2>10, <2>16, StepIsReached
  <2>18. ReplayInv(c)'
    <3>1. iters'[c] <= Len(tape')
      BY <1>3, <2>5
    <3>. QED
      BY <1>0, <2>1, <2>17, <3>1 DEF ReplayInv
  <2>19. \A d \in Callers : d # c => UNCHANGED Local(d)
    BY <1>0, <1>1, <2>1, <2>8 DEF TypeOK, Local
  <2>. QED
    BY <1>0, <1>3, <2>5, <2>18, <2>19, OneReplayed
<1>. QED
  BY <1>5, <1>6

LEMMA RequestOutputsReplays ==
  ASSUME Inv, ReplaysInv, Deterministic, NEW c \in Callers, RequestOutputs(c)
  PROVE  ReplaysInv'
<1>0. /\ UNCHANGED <<chain, argVars, tape, distribution, do_not_select, iters, res, ring>>
      /\ pc[c] = "select" /\ Len(candidates[c]) = Remaining(c)
  BY DEF RequestOutputs, nodeVars
<1>1. /\ pc'[c] = "reply" /\ candidates'[c] = RequestedOutputs(c) /\ first_iter'[c] = FALSE
      /\ real_index'[c] = IF first_iter[c] THEN PositionOf(real, RequestedOutputs(c)) ELSE 0
  BY DEF RequestOutputs, Inv, TypeOK
<1>2. TapeGrows /\ TypeOK /\ ReplayInv(c)
  BY <1>0 DEF TapeGrows, Inv, TypeOK, ReplaysInv
<1>3. PICK x, draws : x = StateOf(c) /\ draws = tape'
  OBVIOUS
<1>4. /\ x.pc = "select" /\ x.tried = do_not_select[c] /\ x.cand = candidates[c] /\ x.first = first_iter[c]
      /\ x.index = real_index[c] /\ x.iters = iters[c] /\ x.res = res[c]
  BY <1>0, <1>3 DEF StateOf
<1>5. ~Lacks(x)
  BY <1>0, <1>4 DEF Lacks, Remaining
<1>6. RequestedOutputs(c) = IF x.first THEN Sorted(Append(x.cand, real)) ELSE x.cand
  BY <1>4 DEF RequestedOutputs
<1>7. PICK requested : requested = RequestedOutputs(c)
  OBVIOUS
<1>8. AfterRequest(x) =
        [pc |-> "reply", tried |-> x.tried, cand |-> requested, first |-> FALSE,
         index |-> IF x.first THEN PositionOf(real, requested) ELSE 0, iters |-> x.iters, res |-> x.res]
  BY <1>6, <1>7 DEF AfterRequest
<1>9. StateOf(c)' = AfterRequest(x)
  <2>1. /\ do_not_select'[c] = x.tried /\ iters'[c] = x.iters /\ res'[c] = x.res /\ candidates'[c] = requested
        /\ real_index'[c] = IF x.first THEN PositionOf(real, requested) ELSE 0
    BY <1>0, <1>1, <1>4, <1>7
  <2>. QED
    BY <1>1, <1>8, <2>1 DEF StateOf
<1>10. StateOf(c)' = After(x, draws) /\ Goes(x, draws)
  BY <1>4, <1>5, <1>9 DEF After, Goes
<1>11. Reached(StateOf(c), tape)'
  BY <1>0, <1>2, <1>3, <1>10, StepIsReached DEF ReplayInv
<1>12. ReplayInv(c)'
  BY <1>0, <1>1, <1>2, <1>11 DEF ReplayInv
<1>13. \A d \in Callers : d # c => UNCHANGED Local(d) /\ UNCHANGED iters[d]
  BY <1>0 DEF RequestOutputs, Inv, TypeOK, Local
<1>. QED
  BY <1>0, <1>2, <1>12, <1>13, OneReplayed

LEMMA OutputsReplays ==
  ASSUME Inv, ReplaysInv, Honest, Deterministic, NEW c \in Callers, Outputs(c)
  PROVE  ReplaysInv'
<1>0. /\ UNCHANGED <<chain, height, tape, argVars, distribution, do_not_select, first_iter, real_index, iters, asked>>
      /\ pc[c] = "reply"
  BY DEF Outputs, nodeVars
<1>1. TapeGrows /\ TypeOK /\ ReplayInv(c)
  BY <1>0 DEF TapeGrows, Inv, TypeOK, ReplaysInv
<1>2. PICK reply \in OutputReplies(candidates[c]) :
        \/ Fails(c) /\ UNCHANGED <<candidates, res, ring>>
        \/ /\ Len(reply) = Len(candidates[c])
           /\ LET used == Ascending({i \in 1 .. Len(reply) : i # real_index[c] /\ UsableDecoy(reply[i])})
              IN Continue(c, res[c] \o [k \in 1 .. Len(used) |-> candidates[c][used[k]]])
  BY DEF Outputs
<1>3. CASE Fails(c) /\ UNCHANGED <<candidates, res, ring>>
  BY <1>0, <1>3, QuietReplays DEF Fails
<1>4. CASE ~(Fails(c) /\ UNCHANGED <<candidates, res, ring>>)
  <2>1. PICK x, draws : x = StateOf(c) /\ draws = tape'
    OBVIOUS
  <2>2. /\ x.pc = "reply" /\ x.tried = do_not_select[c] /\ x.cand = candidates[c] /\ x.first = first_iter[c]
        /\ x.index = real_index[c] /\ x.iters = iters[c] /\ x.res = res[c]
    BY <1>0, <2>1 DEF StateOf
  <2>3. \A i \in 1 .. Len(x.cand) : reply[i] \in HonestViews(x.cand[i])
    BY <2>2 DEF OutputReplies
  <2>4. \A o : \A view \in HonestViews(o) : ViewOf(o) = view
    <3>1. ASSUME NEW o, NEW v \in HonestViews(o), NEW w \in HonestViews(o) PROVE v = w
      BY DEF HonestViews, UnlockedAt
    <3>. QED
      BY <3>1 DEF ViewOf
  <2>5. \A i \in 1 .. Len(x.cand) : reply[i] = ViewOf(x.cand[i])
    BY <2>3, <2>4
  <2>6. Len(reply) = Len(x.cand)
    BY <1>2, <1>4, <2>2
  <2>7. {i \in 1 .. Len(reply) : i # real_index[c] /\ UsableDecoy(reply[i])} =
          {i \in 1 .. Len(x.cand) : i # x.index /\ UsableDecoy(ViewOf(x.cand[i]))}
    BY <2>2, <2>5, <2>6
  <2>8. PICK found : found = LET used == Ascending({i \in 1 .. Len(x.cand) : i # x.index /\ UsableDecoy(ViewOf(x.cand[i]))})
                             IN x.res \o [k \in 1 .. Len(used) |-> x.cand[used[k]]]
    OBVIOUS
  <2>9. Continue(c, found)
    BY <1>2, <1>4, <2>2, <2>7, <2>8
  <2>10. /\ res'[c] = found /\ candidates'[c] = <<>>
         /\ pc'[c] = IF Len(found) = DecoyCount THEN "done" ELSE "select"
    BY <1>1, <2>9 DEF Continue, TypeOK
  <2>11. AfterAnswer(x) =
           [pc |-> IF Len(found) = DecoyCount THEN "done" ELSE "select", tried |-> x.tried, cand |-> <<>>,
            first |-> x.first, index |-> x.index, iters |-> x.iters, res |-> found]
    BY <2>8 DEF AfterAnswer
  <2>12. StateOf(c)' = AfterAnswer(x)
    <3>1. do_not_select'[c] = x.tried /\ first_iter'[c] = x.first /\ real_index'[c] = x.index /\ iters'[c] = x.iters
      BY <1>0, <2>2
    <3>. QED
      BY <2>10, <2>11, <3>1 DEF StateOf
  <2>13. StateOf(c)' = After(x, draws) /\ Goes(x, draws)
    BY <2>2, <2>12 DEF After, Goes
  <2>14. Reached(StateOf(c), tape)'
    BY <1>0, <1>1, <2>1, <2>13, StepIsReached DEF ReplayInv
  <2>15. ReplayInv(c)'
    BY <1>0, <1>1, <2>10, <2>14 DEF ReplayInv
  <2>16. \A d \in Callers : d # c => UNCHANGED Local(d) /\ UNCHANGED iters[d]
    BY <1>0, <1>1, <2>9 DEF Continue, TypeOK, Local
  <2>. QED
    BY <1>0, <1>1, <2>15, <2>16, OneReplayed
<1>. QED
  BY <1>3, <1>4

LEMMA NextReplays ==
  ASSUME Inv, HonestInv, ReplaysInv, Honest, Deterministic, [Next]_vars
  PROVE  ReplaysInv'
<1>1. CASE UNCHANGED vars
  BY <1>1, QuietReplays DEF vars, argVars
<1>2. CASE Grow
  BY <1>2, QuietReplays DEF Grow
<1>3. ASSUME NEW c \in Callers, Start(c) PROVE ReplaysInv'
  BY <1>3, QuietReplays DEF Start, nodeVars, Fails
<1>4. ASSUME NEW c \in Callers, RequestFails(c) PROVE ReplaysInv'
  BY <1>4, QuietReplays DEF RequestFails, Fails
<1>5. ASSUME NEW c \in Callers, Step(c) PROVE ReplaysInv'
  BY <1>3, <1>5, DistributionReplays, SelectReplays, RequestOutputsReplays, OutputsReplays DEF Step
<1>. QED
  BY <1>1, <1>2, <1>4, <1>5 DEF Next, Terminated

\* Calls with the same arguments and generators of the same seed return the same ring, however their
\* steps interleave, whatever blocks the node gets in between, and whichever of them draws first.
THEOREM DecoysAreTheSame == Spec => []SameDecoys
<1>1. Init => (Honest /\ Deterministic => ReplaysInv)
  BY InitReplays
<1>2. Inv /\ (Honest /\ Deterministic => HonestInv /\ ReplaysInv) /\ [Next]_vars
        => (Honest /\ Deterministic => ReplaysInv)'
  BY NextReplays
<1>3. Inv /\ (Honest /\ Deterministic => ReplaysInv) => SameDecoys
  <2>. SUFFICES ASSUME Inv, ReplaysInv, NEW c \in Callers, NEW d \in Callers, pc[c] = "done", pc[d] = "done"
                PROVE  ring[c] = ring[d]
    BY DEF SameDecoys
  <2>1. Reached(StateOf(c), tape) /\ Reached(StateOf(d), tape)
    BY DEF ReplaysInv, ReplayInv
  <2>2. ~Goes(StateOf(c), tape) /\ ~Goes(StateOf(d), tape)
    BY DEF Goes, StateOf
  <2>3. StateOf(c) = StateOf(d)
    BY <2>1, <2>2, OnePath
  <2>4. StateOf(c).res = StateOf(d).res
    BY <2>3
  <2>5. res[c] = res[d]
    BY <2>4 DEF StateOf
  <2>. QED
    BY <2>5 DEF Inv, CallerInv, Returned
<1>. QED
  BY <1>1, <1>2, <1>3, AlwaysInv, AlwaysHonestInv, PTL DEF Spec
================================================================================
