------------------------------- MODULE BlockFetch -------------------------------
(***************************************************************************)
(* contiguous_blocks: fetching a range of blocks from an untrusted daemon. *)
(*                                                                         *)
(* MoneroDaemon::contiguous_blocks (interface/daemon/src/blocks.rs) asks   *)
(* for several blocks in one JSON-RPC batch, adapts the size of the batch  *)
(* to the size of the responses, and falls back to single blocks after an  *)
(* error. ProvidesBlockchain::contiguous_blocks                            *)
(* (interface/src/provides_blockchain.rs) then checks what it returned.    *)
(*                                                                         *)
(* A block is [hash, number, previous]; `previous` of the first block of   *)
(* the chain is Zero, the all-zero hash. Block hashes do not collide. The  *)
(* daemon's chain may change between any two requests (it is a member of   *)
(* Chains, indexed from 1 for block 0), and a daemon that is not honest    *)
(* answers with any blocks at all. Sizes are bytes in some unit: a         *)
(* response to k blocks takes from k * MinBlockSize to k * MaxBlockSize.   *)
(***************************************************************************)
EXTENDS Integers, Sequences, FiniteSets

CONSTANTS
  UsizeMax,                \* usize::MAX
  InitialBatch,            \* BLOCKS_PER_RESPONSE_ESTIMATE
  RequestCap,              \* how many block requests fit in REQUEST_SIZE_TARGET
  MaxResponse,             \* MAX_RESPONSE_SIZE
  Target,                  \* TARGET_RESPONSE_SIZE
  MinBlockSize, MaxBlockSize,
  Blocks,                  \* the blocks a daemon can send
  Zero,                    \* the all-zero hash
  Chains,                  \* the chains an honest daemon can be on
  Fetches,                 \* the <<first, last, honest>> fetches: a range, and whether the daemon is honest
  Limits,                  \* response_size_limits
  MaxFaults                \* bound: failing requests and changes of chain

ASSUME NumbersAssumption ==
  /\ UsizeMax \in Nat \ {0}
  /\ InitialBatch \in 1 .. UsizeMax
  /\ RequestCap \in Nat \ {0}
  /\ Target \in Nat \ {0} /\ MaxResponse \in Nat /\ Target < MaxResponse
  /\ MinBlockSize \in Nat \ {0} /\ MaxBlockSize \in Nat /\ MinBlockSize <= MaxBlockSize
  /\ MaxFaults \in Nat
ASSUME FetchesAssumption == Fetches \subseteq (0 .. UsizeMax) \X (0 .. UsizeMax) \X BOOLEAN
ASSUME BlocksAssumption == \A a, b \in Blocks : a.hash = b.hash => a = b
ASSUME ChainsAssumption ==
  \A c \in Chains :
    /\ c \in Seq(Blocks)
    /\ \A i \in 1 .. Len(c) :
         c[i].number = i - 1 /\ c[i].previous = IF i = 1 THEN Zero ELSE c[i - 1].hash
ASSUME LimitsAssumption == Limits \in BOOLEAN

VARIABLES
  first, last,             \* the range asked for
  honest,                  \* whether the daemon answers from its chain
  batching,                \* supports_json_rpc_batch_requests
  start,                   \* the start of what is left of the range
  blocks_per_request,
  asked,                   \* the request under way: [from, to, single]
  res,                     \* the blocks received
  checked,                 \* how many of them passed the sanity check
  pc,                      \* "request", "await", "validate", "check", "ok" or "err"
  chain,                   \* the daemon's chain
  faults,                  \* how often a request failed or the chain changed
  requests,                \* history: requests made
  served                   \* history: the chains the daemon has been on

rangeVars == <<first, last, honest, batching>>
daemonVars == <<chain, served>>
vars == <<first, last, honest, batching, start, blocks_per_request, asked, res, checked, pc,
          chain, faults, requests, served>>

Numbers == 0 .. UsizeMax
Least(a, b) == IF a <= b THEN a ELSE b
Greatest(a, b) == IF a >= b THEN a ELSE b
SaturatingAdd(a, b) == Least(a + b, UsizeMax)
SaturatingSub(a, b) == Greatest(a - b, 0)
DivCeil(a, b) == (a + b - 1) \div b

\* The history of requests saturates past any count RequestsBounded allows.
Counted(n) == Least(n + 1, 2 * UsizeMax + 5)

Init ==
  /\ \E fetch \in Fetches : first = fetch[1] /\ last = fetch[2] /\ honest = fetch[3]
  /\ batching \in BOOLEAN
  /\ start = first
  /\ blocks_per_request = InitialBatch
  /\ asked = [from |-> 0, to |-> 0, single |-> TRUE]
  /\ res = <<>> /\ checked = 0
  /\ pc = "request"
  /\ chain \in Chains
  /\ served = {chain}
  /\ faults = 0 /\ requests = 0

---------------------------------------------------------------------------------
(* MoneroDaemon::contiguous_blocks *)

\* The size of the batch to request: one block at a time without batch support.
Batch == IF batching THEN blocks_per_request ELSE 1

\* The last block of the request, before and after the bound on the request's own size. Mistake:
\* the end of the range is not a bound.
UnboundedEnd == start + Batch - 1
BatchEnd == Least(SaturatingAdd(start, Batch - 1), last)
CappedEnd == Least(BatchEnd, start + RequestCap - 1)

\* A new request is prepared and sent. Whether it is for a single block is decided before the
\* batch is cut to the size of a request.
Request ==
  /\ pc = "request"
  /\ start <= last
  /\ blocks_per_request' = Batch
  /\ asked' = [from |-> start, to |-> CappedEnd, single |-> start = BatchEnd]
  /\ requests' = Counted(requests)
  /\ pc' = "await"
  /\ UNCHANGED <<start, res, checked, faults>>
  /\ UNCHANGED rangeVars /\ UNCHANGED daemonVars

\* The loop ends.
Complete ==
  /\ pc = "request"
  /\ start > last
  /\ pc' = "validate"
  /\ UNCHANGED <<start, blocks_per_request, asked, res, checked, faults, requests>>
  /\ UNCHANGED rangeVars /\ UNCHANGED daemonVars

\* Mistakes: the error of a batch is returned too; the retry is for a batch of the same size.
AlwaysPropagates == TRUE
Propagates == asked.single
SameBatch == blocks_per_request
RetryBatch == 1

\* rpc_call_core fails: "If we only requested a single block, propagate the error", else "retry
\* while only requesting a single block".
RequestFailed ==
  /\ \/ Propagates /\ pc' = "err" /\ UNCHANGED blocks_per_request
     \/ ~Propagates /\ pc' = "request" /\ blocks_per_request' = RetryBatch
  /\ UNCHANGED <<start, asked, res, checked, requests>>
  /\ UNCHANGED rangeVars /\ UNCHANGED daemonVars

\* "If this is more than the targeted response size, halve", to no less than one block.
Halved == Greatest(blocks_per_request \div 2, 1)

\* The size of the next batch, from the size of the response.
NextBatch(size) ==
  LET proportional == Target \div DivCeil(size, blocks_per_request)
      fiftyPercentMore ==
        SaturatingAdd(blocks_per_request, Greatest(blocks_per_request \div 2, 1))
  IN IF size < Target THEN Least(proportional, fiftyPercentMore)
     ELSE IF size > Target THEN Halved
     ELSE blocks_per_request

\* How many blocks the request under way is for.
RequestedBlocks == asked.to - asked.from + 1

\* `sort_by_key(id)`, then each response must have the id of the block in its position.
Answered(entries) ==
  /\ Len(entries) = RequestedBlocks
  /\ {entries[i].id : i \in 1 .. Len(entries)} = asked.from .. asked.to

BlockAnswering(entries, number) ==
  entries[CHOOSE i \in 1 .. Len(entries) : entries[i].id = number].block

\* The start of the range's rest. Mistake: the range advances by the batch, not by the request.
StartPastBatch == start + blocks_per_request
NextStart == start + RequestedBlocks

\* A response which parses: it is rejected, or its blocks are kept and the rest of the range, which
\* may end at usize::MAX, is up next.
ResponseParsed(entries, size) ==
  \/ /\ ~Answered(entries)
     /\ pc' = "err"
     /\ UNCHANGED <<start, blocks_per_request, res>>
  \/ /\ Answered(entries)
     /\ res' = res \o [i \in 1 .. RequestedBlocks |-> BlockAnswering(entries, asked.from + i - 1)]
     /\ \/ /\ NextStart > UsizeMax
           /\ pc' = "validate"
           /\ UNCHANGED <<start, blocks_per_request>>
        \/ /\ NextStart <= UsizeMax
           /\ start' = NextStart
           /\ blocks_per_request' = NextBatch(size)
           /\ pc' = "request"

---------------------------------------------------------------------------------
(* The transport and the daemon. *)

Fault == faults < MaxFaults /\ faults' = faults + 1

\* The request fails on its way.
Fails == pc = "await" /\ Fault /\ RequestFailed

\* The response is not the expected JSON.
Reject ==
  /\ pc' = "err"
  /\ UNCHANGED <<start, blocks_per_request, asked, res, checked, faults, requests>>
  /\ UNCHANGED rangeVars /\ UNCHANGED daemonVars

\* A response of this size, made of these entries, arrives. With response_size_limits the transport
\* refuses one which is too large. Without, rpc_call_core still truncates it, and what is left is
\* not the expected JSON.
Receive(entries, size) ==
  \/ /\ size <= MaxResponse
     /\ ResponseParsed(entries, size)
     /\ UNCHANGED <<asked, checked, faults, requests>>
     /\ UNCHANGED rangeVars /\ UNCHANGED daemonVars
  \/ /\ size > MaxResponse /\ Limits
     /\ RequestFailed /\ UNCHANGED faults
  \/ /\ size > MaxResponse /\ ~Limits
     /\ Reject

\* The sizes of a response to the request under way.
Sizes == RequestedBlocks * MinBlockSize .. RequestedBlocks * MaxBlockSize

\* An honest daemon answers from its chain. If it does not have all the blocks the answer holds
\* errors, which are not the expected JSON.
HonestReply ==
  /\ honest
  /\ pc = "await"
  /\ \/ /\ asked.to < Len(chain)
        /\ \E size \in Sizes :
             Receive([i \in 1 .. RequestedBlocks |->
                        [id |-> asked.from + i - 1, block |-> chain[asked.from + i]]], size)
     \/ /\ asked.to >= Len(chain)
        /\ Reject

\* Any other daemon answers what it likes: here, as many blocks as asked for or one less.
AnyReply ==
  /\ ~honest
  /\ pc = "await"
  /\ \E n \in {RequestedBlocks - 1, RequestedBlocks}, size \in Sizes :
       \E entries \in [1 .. n -> [id : asked.from .. asked.to, block : Blocks]] :
         Receive(entries, size)

\* The daemon's chain grows or is reorganised.
ChainChanges ==
  /\ honest
  /\ pc \notin {"ok", "err"}
  /\ Fault
  /\ chain' \in Chains \ {chain}
  /\ served' = served \cup {chain'}
  /\ UNCHANGED <<start, blocks_per_request, asked, res, checked, pc, requests>>
  /\ UNCHANGED rangeVars

---------------------------------------------------------------------------------
(* ProvidesBlockchain::contiguous_blocks *)

\* `range.end().saturating_sub(*range.start()).checked_add(1)`
ExpectedBlocks == SaturatingSub(last, first) + 1

\* The checks on the next block: its number, and that it builds on the block before it, or on none
\* if it is the genesis block. Mistake: the first block is not remembered as a parent.
SanityCheckWithoutFirst(blocks, i) ==
  /\ blocks[i].number = first + i - 1
  /\ i > 2 => blocks[i].previous = blocks[i - 1].hash
  /\ i = 1 /\ first = 0 => blocks[i].previous = Zero
SanityCheckBlock(blocks, i) ==
  /\ blocks[i].number = first + i - 1
  /\ i > 1 => blocks[i].previous = blocks[i - 1].hash
  /\ i = 1 /\ first = 0 => blocks[i].previous = Zero

\* The amount of blocks is that of the range, which has to be a usize.
ValidateLength ==
  /\ pc = "validate"
  /\ pc' = IF ExpectedBlocks <= UsizeMax /\ Len(res) = ExpectedBlocks THEN "check" ELSE "err"
  /\ UNCHANGED <<start, blocks_per_request, asked, res, checked, faults, requests>>
  /\ UNCHANGED rangeVars /\ UNCHANGED daemonVars

\* sanity_check_contiguous_blocks, a block at a time.
SanityCheckContiguousBlocks ==
  /\ pc = "check"
  /\ \/ checked = Len(res) /\ pc' = "ok" /\ UNCHANGED checked
     \/ checked < Len(res) /\ SanityCheckBlock(res, checked + 1)
        /\ checked' = checked + 1 /\ UNCHANGED pc
     \/ checked < Len(res) /\ ~SanityCheckBlock(res, checked + 1)
        /\ pc' = "err" /\ UNCHANGED checked
  /\ UNCHANGED <<start, blocks_per_request, asked, res, faults, requests>>
  /\ UNCHANGED rangeVars /\ UNCHANGED daemonVars

---------------------------------------------------------------------------------

Fetch ==
  \/ Request \/ Complete \/ HonestReply \/ AnyReply
  \/ ValidateLength \/ SanityCheckContiguousBlocks

Terminated == pc \in {"ok", "err"} /\ UNCHANGED vars

Next == Fetch \/ Fails \/ ChainChanges \/ Terminated

Spec == Init /\ [][Next]_vars

---------------------------------------------------------------------------------
(* Properties. *)

\* Every number fits a usize, the blocks received are blocks, and a check never runs past them.
TypeOK ==
  /\ first \in Numbers /\ last \in Numbers /\ start \in Numbers
  /\ honest \in BOOLEAN /\ batching \in BOOLEAN
  /\ blocks_per_request \in Nat
  /\ asked \in [from : Numbers, to : Numbers, single : BOOLEAN]
  /\ res \in Seq(Blocks) /\ checked \in 0 .. Len(res)
  /\ pc \in {"request", "await", "validate", "check", "ok", "err"}
  /\ chain \in Chains /\ served \subseteq Chains
  /\ faults \in Nat /\ requests \in Nat

\* "We may assume as an invariant that `blocks_per_request != 0`": the end of a request is computed
\* from blocks_per_request - 1, and the share of a block in a response divides by it.
BatchNeverEmpty == blocks_per_request \in 1 .. UsizeMax

\* No block is skipped or fetched twice, whatever is retried: what is left of the range starts where
\* the received blocks end, and an honest daemon's blocks are in their places.
NothingSkipped ==
  /\ pc \in {"request", "await"} => start = first + Len(res)
  /\ honest => \A i \in 1 .. Len(res) : res[i].number = first + i - 1

\* The fallback to single blocks costs at most one more request a block.
RequestsBounded == requests <= 2 * Len(res) + 2

\* "The blocks will be validated to build upon each other ... and have the expected numbers": a
\* daemon that may say anything cannot change what is below the last block it is believed on.
AuthenticBelowTip ==
  pc = "ok" => \A c \in Chains :
                 last < Len(c) /\ res[Len(res)] = c[last + 1] => res = SubSeq(c, first + 1, last + 1)

\* Although the daemon's chain may change between the requests, what is returned is a range of one
\* chain the daemon was on.
OneChain ==
  honest /\ pc = "ok" =>
    \E c \in served : last < Len(c) /\ res = SubSeq(c, first + 1, last + 1)

\* With a daemon that has the blocks and answers every request, a (non-empty) range is fetched,
\* however the sizes of the responses make batches fail, as long as each block fits a response.
\* "This allows disable size limits on responses (not recommended) to ensure correctness."
HonestFetchSucceeds ==
  /\ honest /\ faults = 0 /\ MaxBlockSize <= MaxResponse
  /\ first <= last /\ last < Len(chain) /\ ExpectedBlocks <= UsizeMax
  => pc # "err"
================================================================================
