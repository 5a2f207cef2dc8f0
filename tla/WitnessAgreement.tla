------------------------- MODULE WitnessAgreement -------------------------
(***************************************************************************)
(* What setting up a Clarinet connection promises about its witness, with  *)
(* no messages, locks or statuses.  Any number of nodes may agree to       *)
(* witness the connection; the two endpoints each record at most one       *)
(* witness, once, and only a node that has already agreed.  When both have *)
(* recorded one, it is the same.                                           *)
(***************************************************************************)
CONSTANTS Node,       \* the peers of the network
          Sender,     \* the node that sends over the connection
          Receiver,   \* the node at its other end
          NoPeer      \* Go's nil peer.ID

Endpoints == {Sender, Receiver}

VARIABLES agreed,     \* the nodes that have agreed to witness the connection
          recorded    \* the witness each endpoint has recorded, or NoPeer

agreementVars == <<agreed, recorded>>

AgreementTypeOK ==
  /\ agreed \subseteq Node \ Endpoints
  /\ recorded \in [Endpoints -> Node \cup {NoPeer}]

AgreementInit ==
  /\ agreed = {}
  /\ recorded = [e \in Endpoints |-> NoPeer]

\* A node that is neither endpoint agrees to be the witness; it never
\* takes that back.
Agree(w) ==
  /\ w \in Node \ (Endpoints \cup agreed)
  /\ agreed' = agreed \cup {w}
  /\ UNCHANGED recorded

\* An endpoint records the witness, unless the other one has recorded a
\* different one.
Record(e, w) ==
  /\ w \in agreed
  /\ recorded[e] = NoPeer
  /\ \A other \in Endpoints : recorded[other] \in {NoPeer, w}
  /\ recorded' = [recorded EXCEPT ![e] = w]
  /\ UNCHANGED agreed

AgreementNext ==
  \/ \E w \in Node : Agree(w)
  \/ \E e \in Endpoints, w \in Node : Record(e, w)

AgreementSpec == AgreementInit /\ [][AgreementNext]_agreementVars

-----------------------------------------------------------------------------
\* Whatever the endpoints have recorded, they have recorded the same willing
\* witness.
Agreement ==
  \A e \in Endpoints : recorded[e] # NoPeer =>
    /\ recorded[e] \in agreed
    /\ \A other \in Endpoints : recorded[other] \in {NoPeer, recorded[e]}
=============================================================================
