----------------------------- MODULE ScannableFetch -----------------------------
(***************************************************************************)
(* Fetching what a wallet scans: blocks, their transactions, and the index *)
(* of the first RingCT output of each.                                     *)
(*                                                                         *)
(* MoneroDaemon::contiguous_scannable_blocks                               *)
(* (interface/daemon/src/bin_rpc/blocks_bin.rs, epee.rs) fetches a range   *)
(* with get_blocks.bin, or one thing at a time where that cannot be used:  *)
(* for the genesis block, and after a response without the hashes it       *)
(* needs. scannable_block and scannable_block_by_number fetch one block.   *)
(* ProvidesScannableBlocks (interface/src/provides_scannable_blocks.rs,    *)
(* provides_transactions.rs) checks the result.                            *)
(*                                                                         *)
(* A transaction is [id, version, outputs]: its hash, and what the index   *)
(* depends on. Hashes do not collide, so a transaction which hashes to an  *)
(* id is Tx[id]. A block is [hash, number, previous, miner, transactions], *)
(* the last two being ids. Chains are indexed from 1 for block 0. The      *)
(* daemon's chain may change at any of the awaits.                         *)
(***************************************************************************)
EXTENDS Orders, SequencesExt

CONSTANTS
  UsizeMax,      \* usize::MAX
  U64Max,        \* u64::MAX, for output indexes
  Tx,            \* the transactions, by id
  Zero,          \* the all-zero hash
  Chains,        \* the chains an honest daemon can be on
  Requests,      \* what is asked for: [kind, first, last, hash], by "range", "number" or "hash"
  AnyEntries,    \* the entries [block, txs, indexes] a daemon that is not honest sends
  TransactionsLimit, \* TRANSACTIONS_LIMIT: how many transactions are asked for at once
  MaxFaults,     \* bound: failing requests, changes of chain, and responses without hashes
  None

ASSUME NumbersAssumption ==
  UsizeMax \in Nat \ {0} /\ U64Max \in Nat \ {0} /\ MaxFaults \in Nat
    /\ TransactionsLimit \in Nat \ {0}
ASSUME TransactionsAssumption ==
  \A id \in DOMAIN Tx : Tx[id] \in [id : {id}, version : {1, 2}, outputs : Nat]
ASSUME RequestsAssumption ==
  \A r \in Requests : /\ r.kind \in {"range", "number", "hash"} /\ r.first \in Nat /\ r.last \in Nat
                      /\ r.kind # "range" => r.first = r.last

\* The blocks there are. Their hashes do not collide, and a chain is one of blocks by their numbers.
Blocks == UNION {{c[i] : i \in 1 .. Len(c)} : c \in Chains} \cup {e.block : e \in AnyEntries}
ASSUME BlocksAssumption ==
  /\ \A b \in Blocks : b.number \in Nat /\ b.miner \in DOMAIN Tx /\ b.transactions \in Seq(DOMAIN Tx)
  /\ \A b, d \in Blocks : b.hash = d.hash => b = d
ASSUME ChainsAssumption ==
  /\ Chains # {} /\ Chains \subseteq Seq(Blocks)
  /\ \A c \in Chains : \A i \in 1 .. Len(c) :
       c[i].number = i - 1 /\ c[i].previous = IF i = 1 THEN Zero ELSE c[i - 1].hash
TxSet == [id : DOMAIN Tx, version : {1, 2}, outputs : Nat]
ASSUME EntriesAssumption ==
  AnyEntries \subseteq [block : Blocks, txs : Seq(TxSet), indexes : Seq(Nat)] /\ None \notin Nat

VARIABLES
  request,       \* the call
  start,         \* the next block to ask get_blocks.bin for
  res,           \* the UnvalidatedScannableBlocks so far: [block, txs, index]
  pending,       \* blocks fetched alone, to be expanded
  expanding,     \* the transactions received of the first of them
  pc,            \* "genesis", "bin", "blocks", "expand", "validate", "check", "full", "ok" or "err"
  full,          \* the transactions received of those validated in full
  checked,       \* how many of res have been validated
  honest,        \* whether the daemon answers from its chain
  chain, served, \* the daemon's chain, and (history) all it has been on
  faults,
  alone,         \* history: a block was expanded on its own
  disturbed      \* history: a request failed or the chain changed

daemonVars == <<honest, chain, served>>
historyVars == <<alone, disturbed>>
vars == <<request, start, res, pending, expanding, pc, full, checked, faults, honest, chain, served,
          alone, disturbed>>

first == request.first
last == request.last

Init ==
  /\ request \in Requests
  /\ start = IF request.first = 0 THEN 1 ELSE request.first
  /\ res = <<>> /\ pending = <<>> /\ expanding = <<>> /\ full = <<>>
  /\ pc = IF request.kind # "range" THEN "blocks"
          ELSE IF request.first = 0 THEN "genesis" ELSE "bin"
  /\ checked = 0
  /\ honest \in BOOLEAN
  /\ chain \in IF honest THEN Chains ELSE {CHOOSE c \in Chains : TRUE}   \* which plays no part
  /\ served = {chain}
  /\ faults = 0 /\ alone = FALSE /\ disturbed = FALSE

---------------------------------------------------------------------------------
(* Transactions and their outputs. *)

\* A block's transactions, the miner's first.
AllTxs(block, txs) == <<Tx[block.miner]>> \o txs

\* How many outputs these transactions have, and how many RingCT outputs.
OutputsOf(txs) == Total([i \in 1 .. Len(txs) |-> txs[i].outputs])
RingCtOutputsOf(txs) == Total([i \in 1 .. Len(txs) |-> IF txs[i].version # 1 THEN txs[i].outputs ELSE 0])

\* Mistake: any transaction with outputs.
HasOutputs(tx) == tx.outputs > 0
IsRingCt(tx) == tx.version # 1 /\ tx.outputs > 0

\* The first transaction with RingCT outputs, or 0.
FirstRingCt(txs) ==
  IF \E i \in 1 .. Len(txs) : IsRingCt(txs[i])
  THEN CHOOSE i \in 1 .. Len(txs) : IsRingCt(txs[i]) /\ \A j \in 1 .. i - 1 : ~IsRingCt(txs[j])
  ELSE 0

\* The transactions a block lists.
Listed(block) == [i \in 1 .. Len(block.transactions) |-> Tx[block.transactions[i]]]

---------------------------------------------------------------------------------
(* The daemon: what an honest one answers. *)

\* The indexes of the outputs of each transaction of each block: those of RingCT outputs are their
\* positions on the chain, the others have counts of their own amounts (here 0).
TxsAt(c, k) == AllTxs(c[k], Listed(c[k]))
RingCtBefore(c, k, i) ==
  LET txs == FlattenSeq([j \in 1 .. k - 1 |-> TxsAt(c, j)]) \o SubSeq(TxsAt(c, k), 1, i - 1)
  IN RingCtOutputsOf(txs)

\* On a chain a transaction is mined once, and there are indexes for all of its RingCT outputs.
ASSUME MinedAssumption ==
  \A c \in Chains : \A k \in 1 .. Len(c) :
    /\ RingCtBefore(c, k, Len(TxsAt(c, k)) + 1) <= U64Max
    /\ \A l \in 1 .. Len(c) : \A i \in 1 .. Len(TxsAt(c, k)), j \in 1 .. Len(TxsAt(c, l)) :
         TxsAt(c, k)[i].id = TxsAt(c, l)[j].id => k = l /\ i = j
ChainIndexes ==
  [c \in Chains |-> [k \in 1 .. Len(c) |-> [i \in 1 .. Len(TxsAt(c, k)) |->
     [o \in 1 .. TxsAt(c, k)[i].outputs |->
        IF TxsAt(c, k)[i].version = 1 THEN 0 ELSE RingCtBefore(c, k, i) + o - 1]]]]

\* get_o_indexes.bin: those of a transaction's outputs, at its place on the daemon's chain now.
Places(id) == {k \in 1 .. Len(chain) : \E i \in 1 .. Len(TxsAt(chain, k)) : TxsAt(chain, k)[i].id = id}
IndexesOnChain(id) ==
  IF Places(id) = {} THEN <<>>
  ELSE LET k == CHOOSE k \in Places(id) : TRUE
       IN ChainIndexes[chain][k][CHOOSE i \in 1 .. Len(TxsAt(chain, k)) : TxsAt(chain, k)[i].id = id]

Fault == faults < MaxFaults /\ faults' = faults + 1
Fails == pc' = "err"

\* The chain grows or is reorganised.
ChainChanges ==
  /\ honest
  /\ pc \notin {"ok", "err"}
  /\ Fault
  /\ chain' \in Chains \ {chain}
  /\ served' = served \cup {chain'}
  /\ disturbed' = TRUE
  /\ UNCHANGED <<request, start, res, pending, expanding, pc, full, checked, alone, honest>>

\* A request fails.
RequestFails ==
  /\ pc \in {"genesis", "bin", "blocks", "expand", "full"}
  /\ Fault /\ Fails
  /\ disturbed' = TRUE
  /\ UNCHANGED <<request, start, res, pending, expanding, full, checked, alone, daemonVars>>

---------------------------------------------------------------------------------
(* get_blocks.bin *)

\* extract_blocks_from_blocks_bin: the entries [block, txs, indexes] of a response as scannable
\* blocks. The indexes of all the outputs make one list, and all are to be used.
FlatTxs(entries) == FlattenSeq([k \in 1 .. Len(entries) |-> AllTxs(entries[k].block, entries[k].txs)])
FlatIndexes(entries) == FlattenSeq([k \in 1 .. Len(entries) |-> entries[k].indexes])
EnoughIndexes(entries) == Len(FlatIndexes(entries)) = OutputsOf(FlatTxs(entries))
Extracted(entries) ==
  [k \in 1 .. Len(entries) |->
     LET txs == AllTxs(entries[k].block, entries[k].txs)
         before == FlatTxs(SubSeq(entries, 1, k - 1)) \o SubSeq(txs, 1, FirstRingCt(txs) - 1)
     IN [block |-> entries[k].block, txs |-> entries[k].txs,
         index |-> IF FirstRingCt(txs) = 0 THEN None
                   ELSE FlatIndexes(entries)[OutputsOf(before) + 1]]]

\* remaining_blocks
RemainingBlocks == last - start + 1

\* Blocks past the end of the range are left.
WantedBlocks(blocks) ==
  SubSeq(blocks, 1, IF Len(blocks) <= RemainingBlocks THEN Len(blocks) ELSE RemainingBlocks)

\* `blocks_received == 0`. Mistake: a response without blocks is accepted.
AnyAmount(entries) == FALSE
ZeroBlocks(entries) == entries = <<>>

\* A response of get_blocks.bin which has the hashes of all it needs.
BlocksReceived(entries) ==
  \/ /\ ~EnoughIndexes(entries) \/ ZeroBlocks(entries)
     /\ Fails
     /\ UNCHANGED <<res, start>>
  \/ /\ EnoughIndexes(entries) /\ ~ZeroBlocks(entries)
     /\ res' = res \o WantedBlocks(Extracted(entries))
     /\ start' = start + Len(WantedBlocks(entries))
     /\ pc' = IF start' > last THEN "validate" ELSE "bin"

\* An honest daemon sends as many blocks as it likes, none if it does not have the first; one that
\* does not know max_block_count sends blocks past the range too.
Responses ==
  IF honest
  THEN {[k \in 1 .. n |-> [block |-> chain[start + k], txs |-> Listed(chain[start + k]),
                          indexes |-> FlattenSeq(ChainIndexes[chain][start + k])]] :
          n \in IF start < Len(chain) THEN 1 .. Len(chain) - start ELSE {0}}
  ELSE {<<>>} \cup {<<e>> : e \in AnyEntries} \cup {<<e, f>> : e, f \in AnyEntries}

BlocksBin ==
  /\ pc = "bin"
  /\ \/ start > last /\ pc' = "validate" /\ UNCHANGED <<res, start>>
     \/ start <= last /\ \E entries \in Responses : BlocksReceived(entries)
  /\ UNCHANGED <<request, pending, expanding, full, checked, faults, historyVars, daemonVars>>

\* Where the blocks still to be fetched begin: after the len_successfully_fetched. Mistake: the
\* genesis block, fetched alone, is counted among them.
RangeStart == IF first = 0 THEN 1 ELSE first
LenBeforeFetch == IF first = 0 THEN 1 ELSE 0
StartAfterAll == RangeStart + Len(res)
NewStart == RangeStart + (Len(res) - LenBeforeFetch)

\* "return `None`. This signifies this methodology shouldn't be used": a transaction comes without
\* its prunable hash. The rest of the range is fetched by the JSON methods.
MethodNotApplicable ==
  /\ pc = "bin" /\ start <= last
  /\ honest => \E b \in start .. Len(chain) - 1 : \E i \in 1 .. Len(Listed(chain[b + 1])) :
                 Listed(chain[b + 1])[i].version = 2
  /\ Fault
  /\ start' = NewStart
  /\ pc' = "blocks"
  /\ UNCHANGED <<request, res, pending, expanding, full, checked, historyVars, daemonVars>>

---------------------------------------------------------------------------------
(* Fetching blocks alone, and expanding them. *)

\* The next of the blocks fetched alone, and the last: the genesis block, the one asked for, or the
\* rest of the range. contiguous_blocks (BlockFetch) may have its blocks from several chains.
NextAlone ==
  IF pc = "genesis" THEN 0 ELSE IF request.kind # "range" THEN first ELSE start + Len(pending)
LastAlone == IF pc = "genesis" THEN 0 ELSE last

\* What an honest daemon has for that request. It may still know a block it had on another chain.
BlocksHeld ==
  IF request.kind = "hash"
  THEN UNION {{b \in {c[i] : i \in 1 .. Len(c)} : b.hash = request.hash} : c \in served}
  ELSE IF NextAlone < Len(chain) THEN {chain[NextAlone + 1]} ELSE {}

\* block_hash and block, or contiguous_blocks: unvalidated.
FetchBlock ==
  /\ pc \in {"genesis", "blocks"}
  /\ \/ /\ honest /\ BlocksHeld = {}
        /\ Fails
        /\ UNCHANGED pending
     \/ \E block \in IF honest THEN BlocksHeld ELSE {e.block : e \in AnyEntries} :
          /\ pending' = Append(pending, block)
          /\ pc' = IF NextAlone = LastAlone THEN "expand" ELSE pc
  /\ UNCHANGED <<request, start, res, expanding, full, checked, faults, historyVars, daemonVars>>

\* The next of these hashes to ask get_transactions for, when n transactions were received. Mistake:
\* the hashes are not drained.
FirstHashes(hashes, n) ==
  SubSeq(hashes, 1, IF TransactionsLimit <= Len(hashes) THEN TransactionsLimit ELSE Len(hashes))
NextHashes(hashes, n) ==
  SubSeq(hashes, n + 1, IF n + TransactionsLimit <= Len(hashes) THEN n + TransactionsLimit ELSE Len(hashes))

\* What get_transactions answers: whether any are missed, and transactions. An honest daemon may
\* have dropped those which are not on its chain any more. Another may send anything it
\* says is the transaction, another of version 1, a pruned one (None) where it is to be whole, or
\* too few.
AnyTxs(id, pruned) ==
  LET sent == UNION {{e.txs[i] : i \in DOMAIN e.txs} : e \in AnyEntries}
  IN {tx \in sent : tx.id = id \/ (tx.version = 1 /\ tx = Tx[tx.id])}
       \cup IF pruned THEN {} ELSE {None, Tx[id]}
TransactionReplies(ids, pruned) ==
  IF honest
  THEN {[missed |-> m, txs |-> [i \in 1 .. Len(ids) |-> Tx[ids[i]]]] :
          m \in {FALSE, \E i \in 1 .. Len(ids) : Places(ids[i]) = {}}}
  ELSE {[missed |-> TRUE, txs |-> <<>>], [missed |-> FALSE, txs |-> <<>>]}
         \cup {[missed |-> FALSE, txs |-> txs] :
                 txs \in {f \in [1 .. Len(ids) -> UNION {AnyTxs(ids[i], pruned) : i \in 1 .. Len(ids)}] :
                            \A i \in 1 .. Len(ids) : f[i] \in AnyTxs(ids[i], pruned)}}

Complete(reply, ids) == ~reply.missed /\ Len(reply.txs) = Len(ids)

\* pruned_transactions: the transactions of the first pending block arrive, unvalidated.
ExpandTransactions ==
  /\ pc = "expand" /\ Len(expanding) < Len(pending[1].transactions)
  /\ LET ids == NextHashes(pending[1].transactions, Len(expanding))
     IN \E reply \in TransactionReplies(ids, TRUE) :
          \/ Complete(reply, ids) /\ expanding' = expanding \o reply.txs /\ UNCHANGED pc
          \/ ~Complete(reply, ids) /\ Fails /\ UNCHANGED expanding
  /\ UNCHANGED <<request, start, res, pending, full, checked, faults, historyVars, daemonVars>>

\* A block is expanded: the next one is up, or what comes after them. The genesis block is expanded
\* first, and get_blocks.bin is tried for the rest.
Expanded(index) ==
  /\ res' = Append(res, [block |-> pending[1], txs |-> expanding, index |-> index])
  /\ pending' = Tail(pending)
  /\ expanding' = <<>>
  /\ alone' = TRUE
  /\ pc' = IF Len(pending) > 1 THEN "expand"
           ELSE IF request.kind = "range" /\ first = 0 /\ res = <<>> THEN "bin"
           ELSE "validate"

\* The indexes counted on from the first exceed u64::MAX within the block.
IndexOverflows(index, txs) == index + RingCtOutputsOf(txs) > U64Max

\* update_output_index_with_fetch, over the block's transactions: the indexes of the first with
\* RingCT outputs are asked for, and there has to be one for each of its outputs.
ExpandIndex ==
  /\ pc = "expand" /\ Len(expanding) = Len(pending[1].transactions)
  /\ LET txs == AllTxs(pending[1], expanding)
         i == FirstRingCt(txs)
         id == (<<pending[1].miner>> \o pending[1].transactions)[i]
         replies == IF honest THEN {IndexesOnChain(id)}
                    ELSE {<<>>} \cup {[o \in 1 .. txs[i].outputs |-> n] : n \in {0, U64Max}}
     IN \/ i = 0 /\ Expanded(None)
        \/ /\ i # 0
           /\ \E indexes \in replies :
                LET accepted == Len(indexes) = txs[i].outputs /\ ~IndexOverflows(indexes[1], txs)
                IN \/ accepted /\ Expanded(indexes[1])
                   \/ ~accepted /\ Fails /\ UNCHANGED <<res, pending, expanding, alone>>
  /\ UNCHANGED <<request, start, full, checked, faults, disturbed, daemonVars>>

---------------------------------------------------------------------------------
(* ProvidesScannableBlocks *)

\* sanity_check_contiguous_blocks, sanity_check_block_by_number, sanity_check_block_by_hash. Mistake:
\* a block has the right number, but is not checked to build on the one before it.
OnlyNumbers ==
  \A i \in 1 .. Len(res) : request.kind # "hash" => res[i].block.number = first + i - 1
SanityChecked ==
  \/ request.kind = "hash" /\ res[1].block.hash = request.hash
  \/ request.kind = "number" /\ res[1].block.number = first
  \/ /\ request.kind = "range"
     /\ \A i \in 1 .. Len(res) : res[i].block.number = first + i - 1
     /\ \A i \in 2 .. Len(res) : res[i].block.previous = res[i - 1].block.hash
     /\ first = 0 => res[1].block.previous = Zero

ExpectedBlocks == (IF last >= first THEN last - first ELSE 0) + 1

Validate ==
  /\ pc = "validate"
  /\ pc' = IF /\ request.kind = "range" => ExpectedBlocks <= UsizeMax /\ Len(res) = ExpectedBlocks
              /\ SanityChecked
           THEN "check" ELSE "err"
  /\ UNCHANGED <<request, start, res, pending, expanding, full, checked, faults, historyVars, daemonVars>>

\* verify_as_possible: as many transactions as the block lists, and those which are not of version 1
\* hash to their ids. Those of version 1 cannot be hashed without what was pruned from them.
VerifyAsPossible(entry) ==
  /\ Len(entry.txs) = Len(entry.block.transactions)
  /\ \A i \in 1 .. Len(entry.txs) : entry.txs[i].version # 1 => entry.txs[i] = Tx[entry.block.transactions[i]]

\* v1_indexes and v1_hashes
V1Indexes(entry) == Ascending({i \in 1 .. Len(entry.txs) : entry.txs[i].version = 1})
V1Hashes(entry) == [i \in 1 .. Len(V1Indexes(entry)) |-> entry.block.transactions[V1Indexes(entry)[i]]]

\* transactions, which are whole and hash to their ids, and are those of the block. Mistake: they are
\* not compared with what the block came with.
FullAlone(entry) == \A i \in 1 .. Len(full) : full[i] = Tx[V1Hashes(entry)[i]]
FullMatches(entry) ==
  \A i \in 1 .. Len(full) : full[i] = Tx[V1Hashes(entry)[i]] /\ full[i] = entry.txs[V1Indexes(entry)[i]]

\* validate_scannable_block, for each block, with validate_pruned_transactions
ValidateScannableBlock ==
  /\ pc = "check"
  /\ LET entry == res[checked + 1]
     IN \/ checked = Len(res) /\ pc' = "ok" /\ UNCHANGED checked
        \/ checked < Len(res) /\ ~VerifyAsPossible(entry) /\ Fails /\ UNCHANGED checked
        \/ /\ checked < Len(res) /\ VerifyAsPossible(entry) /\ V1Indexes(entry) = <<>>
           /\ checked' = checked + 1 /\ UNCHANGED pc
        \/ /\ checked < Len(res) /\ VerifyAsPossible(entry) /\ V1Indexes(entry) # <<>>
           /\ pc' = "full" /\ UNCHANGED checked
  /\ UNCHANGED <<request, start, res, pending, expanding, full, faults, historyVars, daemonVars>>

\* The transactions of version 1 are fetched, whole.
FullTransactions ==
  /\ pc = "full" /\ Len(full) < Len(V1Hashes(res[checked + 1]))
  /\ LET ids == NextHashes(V1Hashes(res[checked + 1]), Len(full))
     IN \E reply \in TransactionReplies(ids, FALSE) :
          \/ Complete(reply, ids) /\ full' = full \o reply.txs /\ UNCHANGED pc
          \/ ~Complete(reply, ids) /\ Fails /\ UNCHANGED full
  /\ UNCHANGED <<request, start, res, pending, expanding, checked, faults, historyVars, daemonVars>>

CompareFull ==
  /\ pc = "full" /\ Len(full) = Len(V1Hashes(res[checked + 1]))
  /\ \/ FullMatches(res[checked + 1]) /\ checked' = checked + 1 /\ pc' = "check"
     \/ ~FullMatches(res[checked + 1]) /\ Fails /\ UNCHANGED checked
  /\ full' = <<>>
  /\ UNCHANGED <<request, start, res, pending, expanding, faults, historyVars, daemonVars>>

---------------------------------------------------------------------------------

Step ==
  \/ BlocksBin \/ FetchBlock \/ ExpandTransactions \/ ExpandIndex
  \/ Validate \/ ValidateScannableBlock \/ FullTransactions \/ CompareFull

Terminated == pc \in {"ok", "err"} /\ UNCHANGED vars

Next == Step \/ MethodNotApplicable \/ RequestFails \/ ChainChanges \/ Terminated

Spec == Init /\ [][Next]_vars

\* The client is polled, and a request is answered or fails (the transport has a timeout).
FairSpec == Spec /\ WF_vars(Step \/ MethodNotApplicable \/ RequestFails)

---------------------------------------------------------------------------------
(* Properties. *)

\* "have the expected transactions according to the block's list of transactions": whatever the
\* daemon sends, an accepted block holds the transactions it lists, all of them whole, and what is
\* below an authentic last block is that block's chain.
AcceptedIsAuthentic ==
  pc = "ok" =>
    /\ \A i \in 1 .. Len(res) : res[i].txs = Listed(res[i].block)
    /\ request.kind = "range" =>
         \A c \in Chains : last < Len(c) /\ res[Len(res)].block = c[last + 1] =>
           Len(res) = last - first + 1 /\ \A i \in 1 .. Len(res) : res[i].block = c[first + i]

\* A wallet takes a block without an index to have nothing for it. A daemon cannot hide a block's
\* outputs so, by what it says of the block's transactions or by the method it makes the client use.
NothingHidden ==
  pc = "ok" => \A i \in 1 .. Len(res) :
    (res[i].index = None) <=> \A tx \in {AllTxs(res[i].block, Listed(res[i].block))[j] :
                                        j \in 1 .. 1 + Len(res[i].block.transactions)} :
                                tx.version = 1 \/ tx.outputs = 0

\* No block is lost or fetched twice where get_blocks.bin is given up for the JSON methods after
\* some of the range: the blocks of an honest daemon are in their places, those to be expanded too.
NothingSkipped ==
  honest /\ request.kind # "hash" =>
    \A i \in 1 .. Len(res) + Len(pending) :
      LET block == IF i <= Len(res) THEN res[i].block ELSE pending[i - Len(res)]
      IN block.number = first + i - 1 /\ block.number <= last

\* The wallet finds its outputs by the index of the block's first RingCT output. get_blocks.bin and
\* get_o_indexes.bin give the same, that of the chain the blocks are from: with get_blocks.bin even
\* if the chain changes, as the indexes come with their blocks; otherwise if it does not.
IndexesOfTheChain ==
  honest /\ pc = "ok" /\ (alone => ~disturbed) =>
    \E c \in served : \A i \in 1 .. Len(res) :
      LET number == res[i].block.number
          ringct == {j \in 1 .. Len(TxsAt(c, number + 1)) :
                       TxsAt(c, number + 1)[j].version = 2 /\ TxsAt(c, number + 1)[j].outputs # 0}
      IN /\ number < Len(c) /\ res[i].block = c[number + 1]
         /\ res[i].index = IF ringct = {} THEN None
                           ELSE RingCtBefore(c, number + 1, CHOOSE j \in ringct : \A k \in ringct : j <= k)

\* A daemon which has the blocks, and answers, is never blamed: neither by the amount of blocks nor
\* of indexes, nor when its responses lack hashes and the methods have to be changed.
UndisturbedFetchSucceeds ==
  /\ honest /\ ~disturbed
  /\ request.kind = "hash" => BlocksHeld # {}
  /\ request.kind # "hash" => first <= last /\ last < Len(chain) /\ last - first < UsizeMax
  => pc # "err"

\* The fetch ends, also if a daemon has nothing to send.
FetchEnds == <>(pc \in {"ok", "err"})
================================================================================
