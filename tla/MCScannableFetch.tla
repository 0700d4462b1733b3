---------------------------- MODULE MCScannableFetch ----------------------------
(* ScannableFetch for TLC: a main chain "a" of blocks 0 to 3, forks from blocks 2 and 1 on, in      *)
(* which the same transactions are mined again, and what a daemon can make of the main chain.       *)
EXTENDS ScannableFetch

TxOf(id, version, outputs) == [id |-> id, version |-> version, outputs |-> outputs]
MCTx ==
  [m0 |-> TxOf("m0", 1, 1), m1 |-> TxOf("m1", 1, 1), m2 |-> TxOf("m2", 2, 1), m3 |-> TxOf("m3", 1, 1),
   n1 |-> TxOf("n1", 2, 1), n2 |-> TxOf("n2", 1, 1), n3 |-> TxOf("n3", 2, 1),
   p |-> TxOf("p", 1, 2), r |-> TxOf("r", 2, 2), q |-> TxOf("q", 2, 1)]

Block(hash, number, previous, miner, transactions) ==
  [hash |-> hash, number |-> number, previous |-> previous, miner |-> miner, transactions |-> transactions]

Genesis == Block("a0", 0, "zero", "m0", <<>>)
A1 == Block("a1", 1, "a0", "m1", <<"r">>)
A2 == Block("a2", 2, "a1", "m2", <<"p", "q">>)
A3 == Block("a3", 3, "a2", "m3", <<>>)
B2 == Block("b2", 2, "a1", "n2", <<"q">>)
B3 == Block("b3", 3, "b2", "n3", <<"p">>)
C1 == Block("c1", 1, "a0", "n1", <<>>)
C2 == Block("c2", 2, "c1", "n2", <<"r">>)

MainChain == <<Genesis, A1, A2, A3>>
MCChains == {MainChain, SubSeq(MainChain, 1, 3), <<Genesis, A1, B2, B3>>, <<Genesis, C1, C2>>}

\* Every range, every number, and a block of each chain by its hash.
MCRequests ==
  {[kind |-> "range", first |-> f, last |-> l, hash |-> None] : f \in 0 .. 3, l \in 0 .. 3}
    \cup {[kind |-> "number", first |-> n, last |-> n, hash |-> None] : n \in 0 .. 3}
    \cup {[kind |-> "hash", first |-> 2, last |-> 2, hash |-> h] : h \in {"a2", "b2"}}

\* The main chain's blocks, whole; without a transaction; with one of version 1, of which nothing can
\* be verified, for another or for a RingCT one; without an index; with an index at the limit; a block
\* which does not build on the others.
Entry(block, txs, indexes) == [block |-> block, txs |-> txs, indexes |-> indexes]
MCAnyEntries ==
  {Entry(Genesis, <<>>, <<0>>), Entry(A1, <<MCTx.r>>, <<0, 0, 1>>),
   Entry(A2, <<MCTx.p, MCTx.q>>, <<2, 0, 0, 3>>), Entry(A3, <<>>, <<0>>),
   Entry(A1, <<>>, <<0>>), Entry(A1, <<TxOf("r", 1, 2)>>, <<0, 0, 0>>),
   Entry(A2, <<TxOf("p", 1, 1), MCTx.q>>, <<2, 0, 3>>), Entry(A1, <<MCTx.r>>, <<0>>),
   Entry(A1, <<MCTx.r>>, <<0, 10, 10>>), Entry(Block("x2", 2, "a0", "m2", <<>>), <<>>, <<2>>)}
================================================================================
