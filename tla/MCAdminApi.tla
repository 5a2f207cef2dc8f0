----------------------------- MODULE MCAdminApi -----------------------------
(***************************************************************************)
(* A small instance of AdminApi.                                           *)
(***************************************************************************)
EXTENDS AdminApi

CONSTANTS p, q, x, y  \* peers and addresses

MCBodies ==
  {[PeerID |-> p, Addresses |-> x],
   [PeerID |-> q, Addresses |-> y],
   [PeerID |-> q, Addresses |-> Missing],
   [PeerID |-> Missing, Addresses |-> y],
   [PeerID |-> p, Addresses |-> WrongType],
   [PeerID |-> WrongType, Addresses |-> x],
   [PeerID |-> NotAnId, Addresses |-> x]}
=============================================================================
