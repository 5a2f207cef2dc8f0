----------------------- MODULE MCClarinetConnection -----------------------
(***************************************************************************)
(* Small instances of ClarinetConnection: the endpoints s and r and a few  *)
(* other peers.                                                            *)
(***************************************************************************)
EXTENDS ClarinetConnection, TLC

CONSTANTS s, r,
          Others      \* the peers that are neither endpoint

MCNode == {s, r} \cup Others

\* Everybody trusts everybody, as main.go does of peers without a history.
TrustAll == [n \in MCNode |-> MCNode]

\* The receiver trusts all but one of the peers the sender trusts, and the
\* other peers trust nobody.
TrustSome ==
  LET distrusted == CHOOSE w \in Others : TRUE
  IN  [n \in MCNode |-> CASE n = s -> MCNode
                          [] n = r -> MCNode \ {distrusted}
                          [] OTHER -> {}]

\* Connections whose witness the receiver selects, in the goroutine that the
\* connect handler starts.
ReceiverSelects == Spec /\ selector = Receiver

\* The candidates are interchangeable when everybody is trusted.
Interchangeable == Permutations(Others)
===========================================================================
