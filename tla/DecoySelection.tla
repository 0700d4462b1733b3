----------------------------- MODULE DecoySelection -----------------------------
(***************************************************************************)
(* Choosing the ring an output is spent in: select_n and select_decoys     *)
(* (wallet/src/decoys.rs), what the node's answers go through on the way   *)
(* (interface/src/provides_decoys.rs, interface/daemon/src/bin_rpc), and   *)
(* the syntactic check of the result (ringct/clsag/src/decoys.rs).         *)
(*                                                                         *)
(* An output is its index on the blockchain. The distribution is the       *)
(* number of outputs up to and including each block. Drawing an age from   *)
(* the gamma distribution is a choice among all the values it can give.    *)
(*                                                                         *)
(* Several callers select decoys for the same arguments, as the members    *)
(* of a multisig do. If Deterministic, they use generators of the same     *)
(* seed: the n-th draw, kept on `tape`, is the same for all of them.       *)
(***************************************************************************)
EXTENDS Orders

CONSTANTS
  Callers,          \* the calls, all with the same arguments
  Deterministic,    \* fingerprintable_deterministic
  Honest,           \* whether the node answers from the chain
  LockWindow,       \* DEFAULT_LOCK_WINDOW
  CoinbaseLock,     \* COINBASE_LOCK_WINDOW
  ItersPerMember,   \* max_iters is this often ring_len
  RingLens,         \* the ring lengths asked for
  BlockNumbers,     \* the block numbers asked for
  Heights,          \* the latest blocks an honest node starts with
  Top,              \* bound: the last block an honest chain reaches
  Chains,           \* the chains an honest node can be on
  MaxOutputs,       \* bound: outputs in the distribution of a node that is not honest
  MaxErrors         \* bound: requests that fail

ASSUME ModesAssumption == Deterministic \in BOOLEAN /\ Honest \in BOOLEAN
ASSUME NumbersAssumption ==
  /\ LockWindow \in Nat \ {0} /\ CoinbaseLock \in Nat /\ ItersPerMember \in Nat \ {0}
  /\ RingLens \subseteq 0 .. 255 /\ BlockNumbers \subseteq Nat
  /\ Top \in Nat /\ Heights \subseteq 0 .. Top /\ MaxOutputs \in Nat /\ MaxErrors \in Nat

\* A chain: the first block of its distribution, the cumulative number of outputs at each block
\* (block 0 at index 1), and the lock and the points of each output. Every lock is a Timelock.
Timelocks == [type : {"none", "block", "time"}, at : Nat]
Points == {"ours", "torsion", "identity", "invalid"}
ASSUME ChainsAssumption ==
  \A c \in Chains :
    /\ c.first \in 0 .. Top /\ c.outputs \in Seq(Nat) /\ Len(c.outputs) = Top + 1
    /\ \A b \in 1 .. Top : c.outputs[b] <= c.outputs[b + 1]
    /\ \A o \in 0 .. c.outputs[Top + 1] - 1 : c.lock[o] \in Timelocks /\ c.point[o] \in Points

VARIABLES
  chain, height,    \* the node's chain and its latest block
  errors,           \* requests that failed
  tape,             \* the draws of the shared seed
  ring_len, block_number, real,   \* the arguments; real: output_being_spent_index
  pc,               \* "start", "distribution", "select", "reply", "done" or "err"
  distribution,
  do_not_select,
  candidates,
  first_iter,
  real_index,       \* where the real output is among the candidates, from 1, or 0 for None
  iters,
  res,              \* the decoys found
  ring,             \* the ring: [offsets, signer_index]
  asked             \* history: the indexes asked for, in the order of the requests

nodeVars == <<chain, height, errors>>
argVars == <<ring_len, block_number, real>>
vars == <<chain, height, errors, tape, ring_len, block_number, real, pc, distribution, do_not_select,
          candidates, first_iter, real_index, iters, res, ring, asked>>

NoRing == [offsets |-> <<>>, signer_index |-> 0]

Init ==
  /\ chain \in Chains
  /\ height \in Heights
  /\ errors = 0
  /\ tape = <<>>
  /\ ring_len \in RingLens
  /\ block_number \in BlockNumbers
  /\ real \in 0 .. chain.outputs[height + 1] - 1
  /\ pc = [c \in Callers |-> "start"]
  /\ distribution = [c \in Callers |-> <<>>]
  /\ do_not_select = [c \in Callers |-> {}]
  /\ candidates = [c \in Callers |-> <<>>]
  /\ first_iter = [c \in Callers |-> TRUE]
  /\ real_index = [c \in Callers |-> 0]
  /\ iters = [c \in Callers |-> 0]
  /\ res = [c \in Callers |-> <<>>]
  /\ ring = [c \in Callers |-> NoRing]
  /\ asked = [c \in Callers |-> <<>>]

Fails(c) == pc' = [pc EXCEPT ![c] = "err"]

---------------------------------------------------------------------------------
(* The node. *)

\* The chain grows.
Grow ==
  /\ Honest /\ height < Top
  /\ height' = height + 1
  /\ UNCHANGED <<chain, errors, tape, argVars, pc, distribution, do_not_select, candidates,
                 first_iter, real_index, iters, res, ring, asked>>

\* The block an output is in.
BlockOf(o) == CHOOSE b \in 0 .. Top : /\ chain.outputs[b + 1] > o
                                      /\ b > 0 => chain.outputs[b] <= o

\* The answers to get_output_distribution.bin for the blocks up to `to`: [start, counts].
DistributionReplies(to) ==
  IF Honest
  THEN {[start |-> chain.first,
         counts |-> IF chain.first > to THEN <<>>
                    ELSE [i \in 1 .. to - chain.first + 1 |-> chain.outputs[chain.first + i]]]}
  ELSE UNION {{[start |-> shape[1], counts |-> counts] : counts \in [1 .. shape[2] -> 0 .. MaxOutputs]} :
              shape \in {<<0, to>>, <<0, to + 1>>, <<1, to>>, <<to + 1, 0>>}}

\* self >= other, for Timelock::Block(number) and a timelock.
BlockReaches(number, lock) == lock.type = "none" \/ (lock.type = "block" /\ lock.at <= number)

\* The node's own `unlocked` (Normal): as of its latest block, and of its clock.
UnlockedNow(o) ==
  IF BlockOf(o) + LockWindow > height + 1 THEN {FALSE}
  ELSE IF chain.lock[o].type = "time" THEN BOOLEAN
  ELSE {BlockReaches(height + 1, chain.lock[o])}

\* unlocked_ringct_outputs for FingerprintableDeterministic: as of block_number.
\* Mistake: the node's own view is used.
UnlockedByNode(o) == UnlockedNow(o)
UnlockedAt(o) ==
  {/\ BlockOf(o) + (LockWindow - 1) <= block_number
   /\ BlockReaches(block_number + 1, chain.lock[o])}

\* The outputs as the wallet is told of them: "none" (locked, or not a point), or the class of its
\* points. "other" is not what the wallet knows of the output.
Views == {"none", "ours", "torsion", "identity", "other"}
HonestViews(o) ==
  IF chain.point[o] = "invalid" THEN {"none"}
  ELSE {IF unlocked THEN chain.point[o] ELSE "none" :
        unlocked \in IF Deterministic THEN UnlockedAt(o) ELSE UnlockedNow(o)}

\* The answers to a request for the outputs at `indexes`; one that is not honest may leave one out.
OutputReplies(indexes) ==
  IF Honest
  THEN {reply \in [1 .. Len(indexes) -> Views] :
          \A i \in 1 .. Len(indexes) : reply[i] \in HonestViews(indexes[i])}
  ELSE [1 .. Len(indexes) -> Views] \cup {[i \in 1 .. Len(indexes) - 1 |-> "ours"]}

\* A request fails, or its response does not parse.
RequestFails(c) ==
  /\ pc[c] \in {"start", "distribution", "reply"}
  /\ errors < MaxErrors
  /\ errors' = errors + 1
  /\ Fails(c)
  /\ UNCHANGED <<chain, height, tape, argVars, distribution, do_not_select, candidates, first_iter,
                 real_index, iters, res, ring, asked>>

---------------------------------------------------------------------------------
(* select_n *)

\* The checks of the arguments, and of latest_block_number.
Start(c) ==
  /\ pc[c] = "start"
  /\ \E latest \in IF Honest THEN {height} ELSE {block_number - 1, block_number} :
       IF ring_len = 0 \/ block_number <= LockWindow \/ block_number > latest
       THEN Fails(c)
       ELSE pc' = [pc EXCEPT ![c] = "distribution"]
  /\ UNCHANGED <<nodeVars, tape, argVars, distribution, do_not_select, candidates, first_iter,
                 real_index, iters, res, ring, asked>>

\* ProvidesDecoys::ringct_output_distribution: "checked to monotonically increase".
Monotonic(counts) == \A i \in 1 .. Len(counts) - 1 : counts[i] <= counts[i + 1]

\* MoneroDaemon's checks of the same answer: its start and its length.
WellFormed(reply) ==
  /\ reply.start <= block_number
  /\ Len(reply.counts) = block_number - reply.start + 1

\* highest_output_exclusive_bound. Mistake: a block too late.
BoundOneLater(counts) == counts[IF LockWindow = 1 THEN Len(counts) ELSE Len(counts) - LockWindow + 2]
HighestOutputExclusiveBound(counts) == counts[Len(counts) - LockWindow + 1]
Bound(c) == HighestOutputExclusiveBound(distribution[c])

\* Too few outputs to choose from, leaving the coinbase outputs aside (saturating_sub).
NotEnough(counts) ==
  \/ Len(counts) < LockWindow
  \/ IF HighestOutputExclusiveBound(counts) < CoinbaseLock THEN 0 < ring_len
     ELSE HighestOutputExclusiveBound(counts) - CoinbaseLock < ring_len

DecoyCount == ring_len - 1

---------------------------------------------------------------------------------
(* select_decoys: the ring from the decoys found. *)

\* A ring of the indexes s, as offsets and the position of the real output (from 0).
SelectedRing(s) ==
  LET sorted == Sorted(s)
  IN [offsets |-> [i \in 1 .. Len(sorted) |-> IF i = 1 THEN sorted[1] ELSE sorted[i] - sorted[i - 1]],
      signer_index |-> Cardinality({i \in 1 .. Len(sorted) : sorted[i] < real})]

\* Decoys::new: the checks select_decoys expects to pass.
ValidDecoys(decoys) ==
  /\ Len(decoys.offsets) <= 255
  /\ decoys.signer_index < Len(decoys.offsets)
  /\ \A i \in 2 .. Len(decoys.offsets) : decoys.offsets[i] > 0

\* The call goes on with the next round, or returns if it has its decoys.
Continue(c, decoys) ==
  /\ res' = [res EXCEPT ![c] = decoys]
  /\ candidates' = [candidates EXCEPT ![c] = <<>>]
  /\ IF Len(decoys) = DecoyCount
     THEN /\ pc' = [pc EXCEPT ![c] = "done"]
          /\ ring' = [ring EXCEPT ![c] = SelectedRing(Append(decoys, real))]
     ELSE /\ pc' = [pc EXCEPT ![c] = "select"]
          /\ UNCHANGED ring

\* The distribution arrives. The real output is never selected as a decoy.
Distribution(c) ==
  /\ pc[c] = "distribution"
  /\ \E reply \in DistributionReplies(block_number) :
       \/ /\ WellFormed(reply) /\ Monotonic(reply.counts) /\ ~NotEnough(reply.counts)
          /\ distribution' = [distribution EXCEPT ![c] = reply.counts]
          /\ do_not_select' = [do_not_select EXCEPT ![c] = {real}]
          /\ Continue(c, <<>>)
       \/ /\ ~(WellFormed(reply) /\ Monotonic(reply.counts) /\ ~NotEnough(reply.counts))
          /\ Fails(c)
          /\ UNCHANGED <<distribution, do_not_select, candidates, res, ring>>
  /\ UNCHANGED <<nodeVars, tape, argVars, first_iter, real_index, iters, asked>>

Remaining(c) == DecoyCount - Len(res[c])

\* "Ensure this isn't infinitely looping": the round limit, and too few outputs left to select.
\* Mistakes: either of the two alone.
OnlyRoundLimit(c) == iters[c] + 1 = ItersPerMember * ring_len
OnlySupplyLimit(c) ==
  Bound(c) - Cardinality(do_not_select[c]) < Remaining(c) - Len(candidates[c])
AtLimit(c) == OnlyRoundLimit(c) \/ OnlySupplyLimit(c)

\* partition_point: how many blocks end before the output an age points to; this is the index, from
\* 0, of the block to select from.
BlockFor(counts, o) ==
  Cardinality({i \in 1 .. Len(counts) : counts[i] < HighestOutputExclusiveBound(counts) - 1 - o})
PrevOutputs(counts, o) == IF BlockFor(counts, o) = 0 THEN 0 ELSE counts[BlockFor(counts, o)]
OutputsIn(counts, o) == counts[BlockFor(counts, o) + 1] - PrevOutputs(counts, o)

\* The draws of one iteration: how many outputs ago (the bound stands for all there is before the
\* chain, and for each block one of those that point to it), and which output of that block.
Draws(counts) ==
  LET bound == HighestOutputExclusiveBound(counts)
      ages == {a \in 0 .. bound - 1 : a > 0 => BlockFor(counts, a) # BlockFor(counts, a - 1)}
  IN {<<bound, 0>>} \cup
     UNION {{<<o, w>> : w \in 0 .. (IF OutputsIn(counts, o) = 0 THEN 0 ELSE OutputsIn(counts, o) - 1)} :
            o \in ages}

\* Whether an output may be a candidate. Mistake: one that was tried before may.
OtherThanReal(c, o) == o # real
Untried(c, o) == o \notin do_not_select[c]

\* The counter, up to the limit it is not to pass.
Counted(n) == IF n > ItersPerMember * ring_len THEN ItersPerMember * ring_len ELSE n

\* One iteration of the inner loop.
Select(c) ==
  /\ pc[c] = "select"
  /\ Len(candidates[c]) # Remaining(c)
  /\ iters' = [iters EXCEPT ![c] = Counted(@ + 1)]
  /\ \/ /\ AtLimit(c)
        /\ Fails(c)
        /\ UNCHANGED <<candidates, do_not_select, tape>>
     \/ /\ ~AtLimit(c)
        /\ \E draw \in IF Deterministic /\ iters'[c] <= Len(tape) THEN {tape[iters'[c]]}
                         ELSE Draws(distribution[c]) :
             /\ tape' = IF Deterministic /\ iters'[c] > Len(tape) THEN Append(tape, draw) ELSE tape
             /\ IF /\ draw[1] < Bound(c) /\ OutputsIn(distribution[c], draw[1]) # 0
                   /\ Untried(c, PrevOutputs(distribution[c], draw[1]) + draw[2])
                THEN LET o == PrevOutputs(distribution[c], draw[1]) + draw[2]
                     IN /\ candidates' = [candidates EXCEPT ![c] = Append(@, o)]
                        /\ do_not_select' = [do_not_select EXCEPT ![c] = @ \cup {o}]
                ELSE UNCHANGED <<candidates, do_not_select>>
        /\ UNCHANGED pc
  /\ UNCHANGED <<nodeVars, argVars, distribution, first_iter, real_index, res, ring, asked>>

\* "If this is the first time we're requesting these outputs, include the real one as well", sorted
\* in among them. Mistake: it is left out.
WithoutReal(c) == candidates[c]
RequestedOutputs(c) == IF first_iter[c] THEN Sorted(Append(candidates[c], real)) ELSE candidates[c]

\* binary_search; 0 if it is not there, which the code expects not to happen.
PositionOf(o, s) ==
  IF \E i \in 1 .. Len(s) : s[i] = o THEN CHOOSE i \in 1 .. Len(s) : s[i] = o ELSE 0

\* The candidates are complete: their outputs are requested.
RequestOutputs(c) ==
  /\ pc[c] = "select"
  /\ Len(candidates[c]) = Remaining(c)
  /\ pc' = [pc EXCEPT ![c] = "reply"]
  /\ candidates' = [candidates EXCEPT ![c] = RequestedOutputs(c)]
  /\ first_iter' = [first_iter EXCEPT ![c] = FALSE]
  /\ real_index' = [real_index EXCEPT ![c] =
                      IF first_iter[c] THEN PositionOf(real, RequestedOutputs(c)) ELSE 0]
  /\ asked' = [asked EXCEPT ![c] = @ \o RequestedOutputs(c)]
  /\ UNCHANGED <<nodeVars, tape, argVars, distribution, do_not_select, iters, res, ring>>

\* The node's view of the real output is the wallet's.
SameView(view) == view = "ours"

\* A decoy must be unlocked, free of torsion and have a key other than the identity.
UsableDecoy(view) == view \in {"ours", "other"}

\* The outputs arrive: "expected" to be as many as requested.
Outputs(c) ==
  /\ pc[c] = "reply"
  /\ \E reply \in OutputReplies(candidates[c]) :
       \/ /\ \/ Len(reply) # Len(candidates[c])
             \/ /\ Len(reply) = Len(candidates[c])
                /\ real_index[c] # 0 /\ ~SameView(reply[real_index[c]])
          /\ Fails(c)
          /\ UNCHANGED <<candidates, res, ring>>
       \/ /\ Len(reply) = Len(candidates[c])
          /\ real_index[c] # 0 => SameView(reply[real_index[c]])
          /\ LET used == Ascending({i \in 1 .. Len(reply) : i # real_index[c] /\ UsableDecoy(reply[i])})
             IN Continue(c, res[c] \o [k \in 1 .. Len(used) |-> candidates[c][used[k]]])
  /\ UNCHANGED <<nodeVars, tape, argVars, distribution, do_not_select, first_iter, real_index, iters,
                 asked>>

---------------------------------------------------------------------------------

Step(c) == Start(c) \/ Distribution(c) \/ Select(c) \/ RequestOutputs(c) \/ Outputs(c)

Terminated ==
  /\ \A c \in Callers : pc[c] \in {"done", "err"}
  /\ UNCHANGED vars

Next == Grow \/ (\E c \in Callers : Step(c) \/ RequestFails(c)) \/ Terminated

Spec == Init /\ [][Next]_vars

\* A caller is polled until it returns, and each request is answered or fails.
Fairness == \A c \in Callers : WF_vars(Step(c))

FairSpec == Spec /\ Fairness

---------------------------------------------------------------------------------
(* Properties. *)

\* None of the subtractions and indexings select_n does unchecked goes wrong, whatever the node
\* answers and wherever the real output is: the outputs not to select never outnumber the bound they
\* are subtracted from, the remaining decoys are never fewer than the candidates, every age below
\* the bound points to a block of the distribution, and the error for a distribution that does not
\* increase is never reached.
ArithmeticIsSafe ==
  \A c \in Callers : pc[c] \in {"select", "reply"} =>
    /\ Cardinality(do_not_select[c]) <= Bound(c)
    /\ Len(res[c]) <= DecoyCount
    /\ pc[c] = "select" => Len(candidates[c]) <= Remaining(c)
    /\ \A o \in 0 .. Bound(c) - 1 :
         BlockFor(distribution[c], o) < Len(distribution[c]) /\ OutputsIn(distribution[c], o) >= 0

\* Decoys::positions.
PartialSums(offsets) ==
  LET sum[i \in 1 .. Len(offsets)] == IF i = 1 THEN offsets[1] ELSE sum[i - 1] + offsets[i]
  IN [i \in 1 .. Len(offsets) |-> sum[i]]
Positions(decoys) == PartialSums(decoys.offsets)

\* "selected a syntactically-invalid set of Decoys" is never hit: through partial replies and
\* further rounds, the ring has ring_len distinct members, those found and the real one, and
\* signer_index points to the real one.
RingIsValid ==
  \A c \in Callers : pc[c] = "done" =>
    /\ ValidDecoys(ring[c])
    /\ Len(ring[c].offsets) = ring_len
    /\ Positions(ring[c])[ring[c].signer_index + 1] = real
    /\ {Positions(ring[c])[i] : i \in 1 .. ring_len} = {res[c][i] : i \in 1 .. Len(res[c])} \cup {real}

\* "Prevents the node we're connected to from having a list of known decoys and then seeing a TX
\* which uses all of them, with one additional output": the real output is in the first request,
\* one of ring_len, no output is asked for twice, and the ring has no member that was not asked for.
RealOutputIsHidden ==
  \A c \in Callers :
    /\ ~first_iter[c] => \E i \in 1 .. ring_len : i <= Len(asked[c]) /\ asked[c][i] = real
    /\ \A i, j \in 1 .. Len(asked[c]) : asked[c][i] = asked[c][j] => i = j
    /\ \A i \in 1 .. Len(res[c]) : \E j \in 1 .. Len(asked[c]) : asked[c][j] = res[c][i]

\* The bound taken from the distribution and the lock the node applies agree: with an honest node,
\* every output select_n tries is past the default lock window as of block_number. And a ring selected
\* deterministically can be signed for and mined after block_number: every member, the real one too,
\* is unlocked and has usable points.
RingIsSpendable ==
  Honest /\ Deterministic =>
    \A c \in Callers :
      /\ \A o \in do_not_select[c] \ {real} : BlockOf(o) + (LockWindow - 1) <= block_number
      /\ pc[c] = "done" /\ ring_len > 1 =>
           \A i \in 1 .. ring_len :
             LET o == Positions(ring[c])[i]
             IN /\ chain.point[o] = "ours"
                /\ BlockOf(o) + (LockWindow - 1) <= block_number
                /\ chain.lock[o].type # "time"
                /\ chain.lock[o].type = "block" => chain.lock[o].at <= block_number + 1

\* "This function will always output the same set of decoys when called with the same arguments":
\* whenever the calls run, and whatever blocks the node gets in between.
SameDecoys ==
  Honest /\ Deterministic =>
    \A c, d \in Callers : pc[c] = "done" /\ pc[d] = "done" => ring[c] = ring[d]

\* A selection ends, however few of the outputs offered are usable.
SelectionEnds == \A c \in Callers : <>(pc[c] \in {"done", "err"})
================================================================================
