# A TLA+ model of monero-oxide

[monero-oxide](../src) is a Rust library for Monero: it talks to a daemon, which may be anyone's, finds the
outputs of a wallet in the blocks it is given, and builds and signs transactions. This directory holds TLA+
modules for its parts whose correctness depends on order, interleaving, failure or an untrusted peer, the TLC
configurations which check them on small instances, and TLAPS proofs of the main results for every instance.

`PROJECT.json` lists the components, the runs, what every definition translates (`map`), the hazards the
properties are for, the mistakes which would break each property (`mutants`), the findings and the theorems.
Paths below are under `src/monero-oxide/`.

Run with `tlc -config X.cfg M`, `tlapm M.tla`.

## Inventory

| Part | State it keeps | Operations | What is hard | What makes it correct |
|---|---|---|---|---|
| HTTP transport, `interface/daemon/simple-request` | One connection, a digest challenge with its counter, two mutexes, shared by all clones | `new`, `post` | Calls interleave at awaits; a timeout drops a call anywhere; challenges expire; requests are retried | Every call gets its own response or an error, ends, and no answer to a challenge is sent twice |
| Daemon RPC, `interface/daemon/src/lib.rs` | The transport, whether limits and batches are used | JSON and binary calls, transactions, fees, publishing | Responses are anything, of any size | What is returned was asked for; requests go on in batches until all is fetched |
| Block fetching, `interface/daemon/src/blocks.rs`, `interface/src/provides_blockchain.rs` | What is left of a range, an adaptive batch | `contiguous_blocks`, `block`, `block_by_number` | Failing batches, reorganisations between requests, ranges up to `usize::MAX` | The result is a range of one chain, below its tip of the chain the tip is on; it ends |
| Scannable blocks, `interface/daemon/src/bin_rpc`, `interface/src/provides_scannable_blocks.rs` | What is left of a range, blocks to expand | `contiguous_scannable_blocks`, `scannable_block` (by number) | Two ways of fetching with a change in between; indexes fetched apart from blocks; pruned transactions | All the blocks' transactions are theirs; no block's outputs are hidden; indexes are right |
| Decoy selection, `wallet/src/decoys.rs` | The candidates tried, the decoys found | `OutputWithDecoys::new`, `fingerprintable_deterministic_new` | A node which answers anything; several rounds; a chain which grows | A valid, spendable ring which does not reveal the real output; the same for all signers of a multisig |
| EPEE decoder, `epee/src` | A packed stack of what is left to decode | `entry`, `fields`, `iterate`, `to_*`, drops | Any encoding; clients which stop anywhere | No panic; no value in another's place |
| Threshold signing, `wallet/src/send/multisig.rs`, `ringct/clsag/src/multisig.rs` | A machine per participant and session | `multisig`, `preprocess`, `cache`, `sign`, `complete` | Messages of other sessions, equivocation, wrong shares | Who completes agrees with every honest signer; honest signers complete; failures are attributed to whom they are due to |
| Transaction construction, `wallet/src/send` | A `SignableTransaction` | `new`, `sign`, `write`/`read`, eventualities | Fees which are part of the weight they depend on; amounts at their width; keys of one output which depend on the others | Received as asked for, balanced, sufficiently paid, and recognised by its eventuality |
| Scanner, `wallet/src/scan.rs` | View pair, registered subaddresses | `register_subaddress`, `scan` | The output index carried through a block; keys missing, repeated or malformed in `extra`; blocks in any order; duplicate one-time keys | Every output found once, at its index, with its lock |
| Encodings: `src/`, `io`, `wallet/src/extra.rs`, `wallet/address`, `wallet/base58` | none | `read`, `write` | Canonical forms, bounds | Reading is the inverse of writing |
| Signatures and proofs: `ringct`, `src/ring_signatures.rs`, `ed25519` | none | `sign`, `prove`, `verify` | Algebra | Completeness and soundness of the cryptography |

A wallet calls the interface's traits (`ProvidesBlockchain`, `ProvidesScannableBlocks`, `ProvidesDecoys`, ...),
whose provided methods validate what an implementation (`MoneroDaemon`) returns. `MoneroDaemon` makes its
requests through an `HttpTransport` (`SimpleRequestTransport`). Binary responses are decoded by `monero-epee`.
Scannable blocks go to the scanner, whose outputs, with decoys selected for them, go into a
`SignableTransaction`, signed by one signer or by a threshold of them. The library stores nothing itself; its
caller may write outputs and `SignableTransaction`s, and read them back.

## Modules

| Module | Models | Extended by |
|---|---|---|
| `SerialCalls` | The promise of `HttpTransport`: calls are served one after the other, each ends once | instantiated by `Transport` |
| `Transport` | `SimpleRequestTransport` | `MCTransport`, `TransportProofs` |
| `BlockFetch` | `contiguous_blocks` of the daemon, and the trait's validation | `MCBlockFetch`, `BlockFetchProofs` |
| `Orders` | sorting, filtering, sums and products of sequences, as the modules use them | `ScannableFetch`, `DecoySelection`, `MultisigSigning`, `TxExtra`, `OrderProofs` |
| `ScannableFetch` | `contiguous_scannable_blocks`, `scannable_block`, and the trait's validation | `MCScannableFetch`, `ScannableProofs` |
| `DecoySelection` | `select_n`, `select_decoys` | `MCDecoySelection`, `DecoyProofs` |
| `EpeeDecoder` | `Epee`, `EpeeEntry`, the iterators and the stack | `MCEpeeDecoder`, `EpeeProofs` |
| `WalletKeys` | view pairs, addresses, and the derivations of an output's secrets | `TxExtra` |
| `TxExtra` | `Extra` and its fields | `InternalScanner` |
| `InternalScanner` | `InternalScanner::scan`, `Timelocked` | `Scanner`, `SignableTransaction` |
| `Scanner` | a wallet which scans a growing chain, and restarts | `MCScanner`, `ScannerProofs` |
| `SignableTransaction` | `wallet/src/send` but for the threshold, and fee rates | `Sending` |
| `Sending` | the life of a `SignableTransaction`, up to the recipients' scans | `MCSending` |
| `MultisigSigning` | the three machines of a threshold signature, and `ClsagMultisig` | `MCMultisigSigning`, `MultisigProofs` |

Definitions are named after the functions and fields they translate. A definition introduced by "Mistake:"
is one the code could have had in the place of the definition after it; none is used by a specification.

### Transport

A step takes a call from one await to the next. `outer` and `connection` are the holders of the two mutexes,
`challenge` the cached challenge with its counter, `pc`, `attempt` and `got` where each call stands. `link` is
the client's connection with what is under way on it; it, and the daemon's `policy`, are external. A timeout
(`Timeout`) drops a call at whichever await it is, releasing its guards and leaving the rest. Dropped before its
response, it may leave its exchange on the connection (`left`): the daemon may still execute the request and answer
it, while other calls are made. What the client (`simple-request` over `hyper`, neither under `src/`) does with such a
connection is taken from how the code relies on it: it closes it, or discards the response (`DiscardReply`) before it
sends on it again, and fails a request made until then. `executed`, `sent` and `excused` are history.

- `OwnResponse`: the mutexes keep requests and responses together although dropped calls
  leave requests and responses on the shared connection.
- `NoReplay`: the counter never repeats for a challenge, across calls, retries and dropped calls.
- `ExecutionBound`, `InnocentCallSucceeds`: how often a retried request can be executed, and that a stale
  challenge or a connection which died between calls fails no call.
- `ServesCallsSerially`: a refinement of `SerialCalls`.
- `EveryCallEnds`, with weak fairness of the timeouts alone: `tokio` fires them. Nothing is
  assumed of the daemon, the network or the order in which mutexes are granted. That a call ends follows from its
  timeout; that the transport is free again, over and over, from every way a call can end dropping its guards.
- `NeverDeadlocked`: calls never all wait on each other, nor a retry on the lock of its own first attempt, which a
  timeout would only hide.

Three calls are one served and two waiting, so that a call can be overtaken and dropped while it waits. Two
faults suffice to have each kind of failure, a failure of its retry too, and calls after it; timeouts are not
counted.

What the model shows besides: a failure of the request for a challenge is returned and not retried; a plain
401 is a call's response; a cached challenge which cannot be used is never cleared; a daemon without
authentication, if the URL has credentials, executes a request up to twice an attempt.

### BlockFetch

`start`, `blocks_per_request` and `res` are the code's variables, `asked` the request under way. Sizes are in
some unit: a response to _k_ blocks has any size between _k_ of the smallest and _k_ of the largest blocks, and
the limits are among them. `usize::MAX` is `UsizeMax`. An honest daemon answers from `chain`, which may change
between requests; another answers with any blocks under any ids.

- `NothingSkipped`, `RequestsBounded`: the adaptive batches and retries. The bound is also why a fetch ends, as
  each request does. `BatchNeverEmpty`, the invariant a comment of the code relies on, is proved.
- `AuthenticBelowTip`: whatever the daemon says, nothing below an authentic last block can be changed.
- `OneChain`: an honest daemon's reorganisation never makes for a mixed range.
- `HonestFetchSucceeds`: a daemon which has the blocks is not failed. With `response_size_limits` disabled this
  is violated (`blocks_without_limits`), see Findings.

The bounds have ranges at the end of the numbers' width, more blocks than a batch, batches cut by the size of
a request, and responses smaller than the target, larger, and beyond the limit.

Besides: an empty range is always an error (one block is expected of it), and so is `0 ..= usize::MAX`, after
it was fetched.

### ScannableFetch

`start` is where `get_blocks.bin` goes on, `pending` and `expanding` are the blocks fetched alone, whose
transactions and indexes are requested next: the transactions by `get_transactions`, `TransactionsLimit` at once.
`full` are those of version 1, fetched again, whole, to be compared with the pruned ones. A transaction is its id, version and outputs; one whose hash is an
id is that id's. `alone` and `disturbed` are history.

- `NothingSkipped`, `UndisturbedFetchSucceeds`, `FetchEnds`: through both ways of fetching and the change from
  one to the other. The fairness is that the client is polled, and that a request is answered or fails: the
  transport has a timeout.
- `AcceptedIsAuthentic`, `NothingHidden`: of any daemon. The scanner takes a block without an index to have no
  RingCT outputs (`wallet/src/scan.rs:277`), so a hidden index would be lost money.
- `IndexesOfTheChain`: the index is that of the chain the block is of. For a block expanded on its own, this is
  only so if the chain did not change between the two requests: nothing in the code compares them, and the
  property leaves that case out.

The chains have blocks with and without RingCT outputs, miner transactions of both versions, and forks which
mine the same transactions in other blocks.

### DecoySelection

Callers select for the same arguments. An age drawn from the gamma distribution is any the distribution can
give; of a shared seed (`Deterministic`) the draws are the same for all callers. The lock windows (10 and 60
blocks) and the rounds (10 a ring member) are constants, scaled down.

- `ArithmeticIsSafe`: the unchecked subtractions and indexes, for any distribution.
- `RingIsValid`, `RingIsSpendable`: of the result, and of every candidate tried.
- `RealOutputIsHidden`: what the node is asked for never singles out the real output.
- `SameDecoys`: two signers come to the same ring, whenever they ask and whatever blocks are added meanwhile.
- `SelectionEnds`: with the fairness of a caller which is polled, and requests which end.

Besides: the sole output of the newest eligible block is never selected; a ring of one never verifies the real
output; a node which rightly has the real output still locked is blamed for a "different view".

### EpeeDecoder

`stack` has the packed types, two to a byte, with their amounts. `handles` are the entries and iterators the
client holds, each borrowing from the one before, so that only the last can be used. A drop steps through what
is left (`DropStep`), a single step at a time. The encoding is anything: each read returns any value or fails.

- `TypeOK`: no index leaves the arrays and no type which does not exist is read, whatever errors are ignored.
- `Aligned`: the stack is exactly what the handles stand for, and the root entry is given out once.
- `EntryNeverTwice`, the same after errors, is violated (`epee_reuse`), see Findings.
- `DropEnds`, with the fairness of a drop which is run.

Kinds 5 and 12 (an integer and objects) have different halves of a byte; a depth of four has both halves of two
bytes, and is reached; six reads are enough to fill it and to read past an array.

Besides: errors returned by `FieldIterator::next` and `to_*` do not set the decoder's error.

### MultisigSigning

Scalars are modulo `Field`, any number every scalar but 0 has an inverse modulo (`FieldAssumption`), and the key is
shared by a polynomial of any threshold's degree (`Coefficients`); a share is interpolated with its factor
(`InterpolationFactor`), of whichever participants sign. The runs have modulo 5 and a line. A participant's `view` is the transaction it intends and
the preprocesses it was given. A view determines everything which is hashed, so a share is valid for its view
and no other. Messages are never consumed: any preprocess or share of any session may be given to any machine.
Dishonest participants have any error in their key image shares, and tell each machine what they like. A machine may
be lost before it signs (`Cache`): `cache` takes it and panics, and `from_cache` makes none. That a machine signs
once is `sign` taking it by value, a guard of the model as it is one of the types; no property restates it.

`modular-frost` is not under `src/`. That it processes addenda in the participants' order (`FirstAddendum`), has the
offset in the lowest participant's verification share (`VerificationShare`), and looks for an invalid share
once a CLSAG does not verify (`InvalidShares`), is external. `ClsagMultisig` adds the offset to the first addendum it
is given. CLSAGs are completed one by one, and `blamed` is of the first which does not verify.

- `HonestAgree`: over sessions and equivocation.
- `CompletedIsValid`: the inputs and the CLSAGs, sorted apart, match; the masks balance.
- `HonestCanComplete`: agreement suffices.
- `FailureIsBlamed`: a failure has a culprit, which is neither the machine's own participant nor an honest one, unless
  what was given as that one's share was made for another view. It is what the offset has to be with
  the right participant for: the key image is the same with it at another, but the blame is not.

With all the errors modulo 5 and two dishonest participants (`multisig_lone`), errors also cancel each other out.

Sorting and arithmetic of the key images are checked with two inputs, in both orders of their bytes. Machines may
stop anywhere, so deadlock is not checked.

Besides: an honest participant whose transaction has its inputs in another order, or which was told something
else by an equivocator, is among those blamed.

### WalletKeys, TxExtra, InternalScanner

The pure part of the wallet, shared by receiving and sending. Keys are symbolic: a point is a set of scalars
multiplied with a base (`Mul`), so that a shared secret is the same for sender and recipient exactly if the code's
two ways of computing it are; hashes are tuples of what is hashed, so they do not collide; an encrypted value is
the symmetric difference with its key. View tags are compared as the code does, but never collide: a
collision only costs a further check, of the spend key. `Extra` is a sequence of fields with their sizes;
reading stops at the first which cannot be read. `scan_transaction` and `scan` are functions from a scanner,
an index and transactions to the outputs found or an error.

### Scanner

`chain` grows by blocks of the transactions in `MCScanner`; a wallet scans the blocks in any order, with and
without guaranteed derivations, registers its subaddress early or late, and may restart (`Restart`), reading back
the outputs it wrote. What a sender meant is in fields of the transactions the program does not see; that it made
what it meant is an assumption (`SendersAssumption`), which TLC evaluates for the transactions of `MCScanner`.

- `FoundIsOnChain`: what a wallet keeps is on the chain, at its index among all RingCT outputs, and its own,
  through the encoding too. Miner transactions count into the index, those of version 1 do not.
- `NothingMissed`: an output which was sent to a known address, by a sender that follows the protocol or is
  merely careless with `extra` (keys repeated, malformed, identity; additional keys too few), is found.
- `NeverBurnt`: no two outputs found by a guaranteed scanner have the same one-time key, although
  senders reuse transaction keys; for the other scanner this does happen.
- `LocksKept`: `additional_timelock_satisfied_by` lets out no output whose lock is not past, also where
  locks by block and by time are compared.

### Sending

`GetFeeRate` asks a daemon, which answers anything; `New` makes a `SignableTransaction` or `Refuse`s to; `Reload`
writes and reads it; `Sign` signs it, with the right key or another; and `Watch` holds another
`SignableTransaction`'s Eventuality against the transaction. The shuffle of the payments is any order, the same
for the same seed. The recipients scan with `InternalScanner`'s definitions, so sending and receiving are checked against
each other.

- `PaymentsReceived`: each payment is found by who it is to and nobody else, at the amount asked for, with its
  payment ID, and so is the change: whether by one key, the key `rB` of a two-output transaction, or additional
  keys, for every kind of address and of change, in every order.
- `Balanced`: inputs equal outputs and fee, in amounts (each a `u64`) and in masks.
- `FeeIsOfWeight`: the search over the fee's length ends with the fee of the weight the transaction in fact has,
  within `max_per_weight`.
- `EventualityMatches`: what is written can be read; a transaction matches its Eventuality, read back or made again
  with the inputs in another order; it matches no other which could be on chain with it or pays something else.

Sizes are the code's own, in bytes; a `u64` is scaled to 2^22 - 1, so that products fit TLC's integers, which keeps four
lengths of a fee. Requests have fees around each length's limit, around the funds, and around `u64::MAX`; data around
the limits of a nonce and of `extra`; two inputs whose keys and key images sort differently; the most outputs there may be and
one more; a transaction too large. Up to three payments are put in every order, more are rotated. A wallet may stop
anywhere, so deadlock is not checked.

Besides: without change, the fee is all that is left, and may be encoded longer than it was weighed; `max_per_weight`
bounds the rate but nothing bounds the mask it is rounded up by; a priority of 0 is the first of the rates
a daemon lists, and the second of the multipliers.

## Runs

| Run | Shows | Distinct states |
|---|---|---|
| `transport` | Safety, refinement and liveness of three calls | 894k |
| `blocks` | Fetching, from honest and other daemons | 1.97M |
| `blocks_without_limits` | A violation: see Findings | |
| `decoys_any` | One selection against a node which answers anything | 193k |
| `decoys_honest` | Two signers, and a growing chain | 152k |
| `scannable` | Both ways of fetching, from honest and other daemons | 280k |
| `epee` | Any encoding, any client | 180k |
| `epee_reuse` | A violation: see Findings | |
| `multisig` | Three sessions of two honest participants, and a dishonest one | 137k |
| `multisig_lone` | One honest participant among dishonest ones | 5k |
| `scanner` | A wallet over a growing chain, with honest, careless and lying senders | 100k |
| `sending` | Requests at every limit, up to the recipients' scans and the eventualities | 44k |

## Proofs

Each proof module has one inductive invariant (`Inv`, and for some theorems a second one on top of it), a lemma
for each action, and the theorems at its end.

`TransportProofs`, for any set of calls and any number of faults: `TypeCorrect`, `OneCallAtATimeHolds`,
`OwnResponseHolds`, `NoReplayHolds`, `ExecutionBoundHolds`, `InnocentCallSucceedsHolds`, `NeverDeadlockedHolds`, and
`Refinement` (of `SerialCalls`). That a call is only given its own response needs to know what is on the connection:
`LinkOK` says it is clear, or left with the exchange of a dropped call and not heard, or has one request or one reply,
of the call which awaits it, and `LocksOK` that there is at most one such call, by the mutexes being held by exactly the
calls past them, from which it also follows that no call waits on itself or on another which waits. `NoncesOK` bounds what was sent for the
cached challenge by its counter. `NotYet` is that no call is made before the constructor returns. How often a
request is run (`RunsOK`) is bounded by where the call is: each state `Allowed` so many runs, of which `MayRun`
may still be under way. That an innocent call succeeds (`InnocentOK`) needs, for each state of its two attempts,
what the challenge it holds is worth and which replies can be on the connection. Assumed is that `None` is no
call and no challenge.

`BlockFetchProofs`, for every width, batch, limit, set of chains and daemon: `TypeCorrect`,
`BatchNeverEmptyHolds`, `NothingSkippedHolds`, `RequestsBoundedHolds`, `AuthenticBelowTipHolds`,
`OneChainHolds`, and, with the response limits enabled, `HonestFetchSucceedsHolds` (without them it does not hold,
see Findings). `AuthenticBelowTip` and `OneChain` rest on `CheckedOK`: a chain which has a block that passed the
check has all before it, since hashes do not collide (`BlocksAssumption`) and parents are compared. `CountOK` holds
a surplus request against a batch which just failed and is single from then on. `HonestOK` is that no answer of
a chain which has the range can fail a check, so that only a size does, and a size fails only batches.
Assumed are positive sizes and batches, a target below the limit, and chains which are chains.

`ScannableProofs`, for any daemon, chains and range: `BlocksAreInPlace`, `OutputsAreNotHidden`,
`AcceptedAreAuthentic`, `UndisturbedSucceed` and `IndexesAreOfTheChain`. `Progress` relates what was received, what is pending and what is left through both ways
of fetching; `InPlace` has each block at its number; `Verified` is what the validation has compared, after which
a chain with the last block has them all; `Indexed` is that a block is without an index exactly if its own
transactions have no RingCT output, which `get_blocks.bin` (whose transactions are in the entry) and single blocks
(whose transactions are fetched after) come to differently. The last two theorems need a second invariant, `Told`:
of an honest daemon, each block received has the transactions it lists and the index it has on a chain the daemon
was on (`Sourced`, `Whole`, `Receiving`), is the one asked for (`Named`), and none of the range is left out
(`Counted`). A block's index is found in the list of all indexes of a response (`EntriesIndexes`: as many outputs
come before it in the list as on the chain after the first block of the response), or by the place its transaction has on the
chain (`IndexFound`). Where `get_blocks.bin` was answered from several chains, the last block's chain has all of
the blocks, as they are linked by their hashes, and chains with a block in common agree on its index
(`ChainsAgree`). Assumed are hashes which do not collide, of blocks and transactions, chains which are chains, and
that a chain mines a transaction once and has 64-bit indexes for its outputs (`MinedAssumption`).

`DecoyProofs`, for any number of callers, ring size, rounds, lock windows and chain: against any node
`SelectionIsSafe`, `RealIsHidden` and `RingsAreValid` (`Inv`: by the stage a caller is at, what it has drawn,
asked and found); from an honest one `RingsAreSpendable` (`HonestInv`: the distribution was of the chain at the
block asked for, so every draw is of an output unlocked then) and `DecoysAreTheSame` (`ReplaysInv`: a caller is on the
path which the shared draws determine from the first state, which does not depend on who is answered when).
`RingsAreValid` rests on `OrderProofs`: what sorting returns is ascending and has the same members, and sums of
offsets are the members. `OrderProofs` also has where an element of one of several sequences is in their
concatenation (`FlattenAt`), which the indexes of outputs come to.

`EpeeProofs`, for any depth, kinds, encoding and client: `TypeCorrect` and `AlignedHolds`. The halves of a packed
byte are apart (`SetGet`), so popping, pushing and stepping act on a sequence of slots (`PopIs`, `PushIs`,
`StepIs`). `Stands` relates the handles to that sequence, and has a lemma for each way a client can go on: reading,
iterating, being given an item, or a handle with nothing left being dropped. A drop under way has all that will be
left below what it is stepping through (`LaidOut`), which is what its stack depth ends it by.

`MultisigProofs`, for any prime field, threshold, participants, sessions and transactions: `TypeCorrect`,
`HonestAgreeHolds`, `FailureIsBlamedHolds`, `HonestCanCompleteHolds` and
`CompletedIsValidHolds`. The invariant adds `NoncesOfView`: a machine which has not signed made no share, and one
which did made one for the view it keeps. A share which verifies is for the very view of who verifies it; an
honest participant's share was made by one of its machines; so that machine signed the same view. The last three
theorems need what a machine that signed has computed (`SignedViews`), of which `CompletedImages` is the key images
a completed transaction has. For shares which are right these are the true ones, as interpolating them
gives the secret. That is proved here as well, by induction on the signers and on the degree. Of the factors of the
signers _S_ and one _x_ of them, those of _S_ without _x_ are a multiple, so a sum of _l g(l)_ times the factors of
_S_ is _x_ times the sum of _g(l)_ times them, less _x_ times the same sum over _S_ without _x_. With _g_ constant
the factors sum to one; with _g_ a polynomial of the next lower degree the sum is the polynomial's value at 0. The
factors exist as no difference of participants is zero, and what is not zero has an inverse (`FieldAssumption`). So
right shares interpolate to the inputs' own key images (`RightShares`), by which honest signers complete, the offset
being added once (`ImageIsKeyImage`). Shares which all verify are each, with their offset, congruent to the right
one, so they add up to the same (`ValidSharesAreRight`): a signature which is not valid has a share which does not
verify. It is of no honest participant which made shares for that view alone, as such a share is of the key image share it
preprocessed, with the offset where the verification share has it (`OwnShareValid`).

`ScannerProofs`, for any wallet, subaddresses, transactions, senders and number of blocks: `FoundOnChain`,
`NeverBurns`, `LocksAreKept` and `NothingIsMissed`. The invariant `Inv` is
that every output kept is `Output` of a place on the chain, a
function of the transaction, the output's place in it and the index of the first output of its block. This is so
because neither the key of `extra` that found it, nor what was registered then, is left in what is found
(`FoundByAnyKey`): the secret and the subaddress are determined by the output's one-time key; and because reading
gives what was written (`FoundRead`), so no restart changes it. The index `scan` carries through a block is the
number of RingCT outputs before (`FirstsAre`), and a chain gives its blocks the number before them (`ChainOK`),
so the index found is the output's place in the concatenation (`OutputAt`). For `NeverBurns`, a one-time key
found by a guaranteed scanner contains the inputs of its transaction (`SameInputs`) and its number in it, and
by consensus no two transactions have an input in common. Assumed are what consensus
enforces (`ConsensusAssumption`: a key image is spent once, a miner's input is its block's height, hashes do not
collide) and what a transaction is (`TransactionsAssumption`: among others that `committed`, which the properties
compare with, is the amount in the clear or in the commitment).

`NothingIsMissed` is by a second invariant, `Complete`, which is inductive with `Inv`: every block whose scan succeeded
has `Output` kept of all its outputs that are awaited under the keys registered then, and the scan of a whole block
succeeded unless for what the property excuses. Of the senders is assumed that an output said to be meant for the wallet
was made for it (`SendersAssumption`, `Sent`): its key and amount are derived from _r(vB)_ for a scalar _r_ of the
sender's and the address's view key _vB_, and the extra has _rB_, among any number of other keys, or as the additional
key at the output's place. Nothing is assumed of the other outputs of a transaction, or of senders who say nothing. That
key is one `scan_transaction` tries (`KeysFor`), and _v(rB)_ is the sender's secret (`SharedSecret`), so one of
the attempts finds the output, and the first which does finds the same; the amount opens the commitment as it is masked by
the same secret, and the payment ID is the sender's after it is XORed twice (`SentId`). The scan of each
transaction goes on with the next index (`TransactionScanned`), so that no error of an output is left but a missing
amount and an index beyond a u64. Later scans and blocks leave what is kept, as blocks are only appended (`Stays`). And a
restart keeps every output (`RestartKeeps`): `Metadata::read` refuses more data than an extra which is relayed
has, but `arbitrary_data` gave no more, as the pieces it returns are at increasing places in such an extra and each is
smaller than its field (`DataBounded`, by `ElementsAre` and `TakenTotal` of `OrderProofs`). The data is
compared with what `arbitrary_data` has of the extra; that this is what the sender gave is checked by
TLC alone, for the senders of `MCScanner`.

What a recursive function computes is proved by exhibiting a function which satisfies its equation, and that there
is no other by the least place two could differ at (`LeastNatural`, from the well-foundedness of the naturals).

Checked by TLC alone: liveness, as fairness is out of the prover's reach; and `Sending`, whose definitions are the scanner's,
the fields of `extra` and a sender's together.

## Findings

- `interface/daemon/src/lib.rs:234`: responses are truncated to the limit also with `response_size_limits`
  disabled, which is documented to "ensure correctness". A batch which is too large then fails the fetch, where
  with the limits enabled it is retried by single blocks. Run `blocks_without_limits`.
- `epee/src/lib.rs:226`: `EpeeEntry::fields` on an entry of another type returns its error without advancing
  past the entry. A client which goes on can be given the root entry again, where the documentation has an error
  for that. Run `epee_reuse`.

## Plan

Done, in this order: the transport (which everything goes through), block fetching, decoys, scannable blocks, the
EPEE decoder, threshold signing, the scanner, transaction construction with fee rates and eventualities. Next:

1. Proofs: `Sending`, beginning with `Balanced` and `EventualityMatches`.
2. Encodings, as pure functions with references over bounded inputs: VarInt, base58, the merkle root, readers of
   blocks and transactions.
3. `DaemonRpc`: the start-up check of batches, `latest_block_number`, publishing.

## Not modelled

- Curve and field arithmetic, hashes, the range proofs and ring signatures: algebra over large fields, out of a
  model checker's reach. Where a protocol depends on them they are ideal: hashes do not collide, a share or
  signature verifies exactly if it is right.
- The gamma distribution's shape: every draw it can give is possible, with no probability.
- Base58 and the addresses' prefixes and checksums, the merkle root, and the readers of blocks and transactions: pure
  conversions of bytes. An address, an `Extra` or a transaction is its fields here, with their sizes.
- Publishing a transaction, generating blocks, the start-up check whether a daemon takes batches: single
  requests which keep no state but their result.
- Which of its errors `validate` returns, where a request has several.
- Errors which come before any state: a `ViewPair` with torsion (`wallet/src/view_pair.rs:43`), an address with an unknown
  network byte or an invalid key (`wallet/address/src/lib.rs:427`), an encoding with another header or version
  (`Epee::new`), and the panic of `Vec::with_capacity` for a range no memory could hold
  (`interface/daemon/src/blocks.rs:68`).
- Of reading a `SignableTransaction` back, the bound on its inputs (`wallet/src/send/mod.rs:608`), which the weight limit keeps
  any written one below, and the error of its change's `ViewPair`, which was one when it was written.
- A body over the response size limit is not told apart from a connection lost within it: both are an error of the call.
- A ring of one is selected, but `RingIsSpendable` says nothing of it: its only member is never asked for.
- The values in encodings, formatting, logging, zeroization.
- `tests/verify-chain`, fuzzing and build scripts: development tools.
