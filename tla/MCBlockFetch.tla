------------------------------ MODULE MCBlockFetch ------------------------------
(* BlockFetch for TLC: numbers from 0 to Top, a main chain "a", a fork "b" from block 2 on, a       *)
(* shorter chain, and blocks that no chain has.                                                     *)
EXTENDS BlockFetch

CONSTANT Top

Block(hash, number, previous) == [hash |-> hash, number |-> number, previous |-> previous]

Hashes == <<"a0", "a1", "a2", "a3", "a4", "a5">>
ForkHashes == <<"a0", "a1", "b2", "b3", "b4", "b5">>
ChainOf(hashes) ==
  [i \in 1 .. Top + 1 |-> Block(hashes[i], i - 1, IF i = 1 THEN "zero" ELSE hashes[i - 1])]

MainChain == ChainOf(Hashes)
ForkChain == ChainOf(ForkHashes)
MCChains == {MainChain, ForkChain, SubSeq(MainChain, 1, Top)}

\* A genesis block with a parent, a block with a number that is not its parent's plus one, and one
\* with an unknown parent.
Strays == {Block("x0", 0, "a0"), Block("x2", 2, "a0"), Block("x1", 1, "x9")}
MCBlocks == {MainChain[i] : i \in 1 .. Top + 1} \cup {ForkChain[i] : i \in 1 .. Top + 1} \cup Strays

\* Of an honest daemon every range; of any other, from the genesis block, over the fork, and up to
\* usize::MAX.
HonestFetches == (0 .. Top) \X (0 .. Top) \X {TRUE}
MCFetches == HonestFetches \cup {<<0, 2, FALSE>>, <<1, 3, FALSE>>, <<3, 5, FALSE>>}
================================================================================
