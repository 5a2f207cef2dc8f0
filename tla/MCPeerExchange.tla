--------------------------- MODULE MCPeerExchange ---------------------------
(***************************************************************************)
(* Small instances of PeerExchange: a is told of b, and b of all others.   *)
(***************************************************************************)
EXTENDS PeerExchange, TLC

CONSTANTS a, b,
          Others      \* the peers that are told of nobody

MCNode == {a, b} \cup Others

MCTold == [n \in MCNode |-> CASE n = a -> {b} [] n = b -> MCNode [] OTHER -> {}]

\* The other peers are interchangeable.
Interchangeable == Permutations(Others)
=============================================================================
