--------------------------- MODULE AdminApiProofs ---------------------------
(***************************************************************************)
(* Theorems about AdminApi, for any requests and bodies.                   *)
(***************************************************************************)
EXTENDS AdminApi, TLAPS

\* The part of the types the argument rests on.
Types ==
  /\ at \in [Request -> Place]
  /\ body \in [Request -> Bodies \cup {Nil}]
  /\ undone \in [Request -> SUBSET {"PeerID", "Addresses", "element"}]
  /\ reqType = [PeerID |-> reqType.PeerID, length |-> reqType.length]
  /\ \A r \in Request : copy[r] = [PeerID |-> copy[r].PeerID, length |-> copy[r].length]
  /\ DOMAIN copy = Request
  /\ DOMAIN used = Request
  /\ alone \subseteq Request
  /\ \A r \in Request : at[r] \notin {"idle", "answered", "panicked"} => body[r] \in Bodies

\* A request that is being served alone is the only one.
Single ==
  \A r \in alone : r \in UnderWay => UnderWay = {r}

\* A request has called nobody before it has been handled, and nothing is
\* left to assign once it is decoded.
Fresh ==
  \A r \in Request :
    /\ at[r] = "idle" => r \notin alone
    /\ at[r] \in {"idle", "decoding", "copyPeerID", "copyAddresses", "handling"} => used[r] = Nil
    /\ at[r] # "decoding" => undone[r] = {}
    /\ "PeerID" \in undone[r] => body[r].PeerID \notin {Missing, WrongType}
    /\ {"Addresses", "element"} \cap undone[r] # {} => body[r].Addresses \notin {Missing, WrongType}
    /\ {"Addresses", "element"} \subseteq undone[r] => FALSE

\* What was assigned while a request is alone is its own.
Assigned(r) ==
  /\ "PeerID" \notin undone[r] => reqType.PeerID = body[r].PeerID
  /\ "Addresses" \notin undone[r] => reqType.length = 1
  /\ {"Addresses", "element"} \cap undone[r] = {} => element = body[r].Addresses

\* And so is what has been copied of it.
Own ==
  \A r \in alone : (r \in UnderWay /\ Complete(body[r])) =>
    /\ Assigned(r)
    /\ at[r] \in {"copyAddresses", "handling"} => copy[r].PeerID = body[r].PeerID
    /\ at[r] = "handling" => copy[r].length = 1

IInv == Types /\ Single /\ Fresh /\ Own /\ AloneIsOwn

-----------------------------------------------------------------------------
\* It holds when the program has started.
LEMMA InvInit == Init => IInv
BY DEF Init, IInv, Types, Single, Fresh, Own, AloneIsOwn, Place, Zero

\* It is kept by a request that begins.
LEMMA PostInv ==
  ASSUME IInv, NEW r \in Request, Refuse(r) \/ Post(r)
  PROVE  IInv'
<1>1. CASE Refuse(r)
  <2>1. UnderWay' = UnderWay
    BY <1>1 DEF Refuse, Answer, Goto, UnderWay, IInv, Types
  <2>2. Types'
    BY <1>1 DEF Refuse, Answer, Goto, IInv, Types, Place, shared
  <2>3. Single' /\ Own'
    BY <1>1, <2>1 DEF Refuse, Answer, Goto, IInv, Types, Single, Own, Assigned, Complete, UnderWay, shared
  <2>4. Fresh' /\ AloneIsOwn'
    BY <1>1 DEF Refuse, Answer, Goto, IInv, Types, Fresh, AloneIsOwn, shared
  <2> QED
    BY <2>2, <2>3, <2>4 DEF IInv
<1>2. CASE Post(r)
  <2>1. PICK b \in Bodies :
          /\ body' = [body EXCEPT ![r] = b]
          /\ undone' = [undone EXCEPT ![r] =
               {f \in {"PeerID", "Addresses"} : b[f] \notin {Missing, WrongType}}]
    BY <1>2 DEF Post
  <2>2. UnderWay' = UnderWay \cup {r} /\ r \notin UnderWay
    BY <1>2 DEF Post, Goto, UnderWay, IInv, Types
  <2>3. Types'
    BY <1>2, <2>1 DEF Post, Goto, IInv, Types, Place, shared
  <2>4. Single'
    <3> SUFFICES ASSUME NEW q \in alone', q \in UnderWay' PROVE UnderWay' = {q}
      BY DEF Single
    <3>1. UnderWay = {}
      BY <1>2, <2>2 DEF Post, IInv, Fresh
    <3> QED
      BY <2>2, <3>1
  <2>5. Fresh'
    BY <1>2, <2>1 DEF Post, Goto, IInv, Types, Fresh
  <2>6. Complete(b) => {"PeerID", "Addresses"} \subseteq undone'[r]
    BY <2>1, ValuesAssumption DEF Complete, IInv, Types
  <2>7. Own'
    <3> SUFFICES ASSUME NEW q \in alone', q \in UnderWay', Complete(body'[q])
                 PROVE  /\ Assigned(q)'
                        /\ at'[q] \in {"copyAddresses", "handling"} => copy'[q].PeerID = body'[q].PeerID
                        /\ at'[q] = "handling" => copy'[q].length = 1
      BY DEF Own
    <3>1. q = r
      BY <1>2, <2>2 DEF Post, IInv, Types
    <3> QED
      BY <1>2, <2>1, <2>6, <3>1 DEF Post, Goto, Assigned, IInv, Types
  <2>8. AloneIsOwn'
    BY <1>2, <2>1 DEF Post, IInv, Types, Fresh, AloneIsOwn
  <2> QED
    BY <2>3, <2>4, <2>5, <2>7, <2>8 DEF IInv
<1> QED
  BY <1>1, <1>2

\* It is kept while a request is served.
LEMMA ServeInv ==
  ASSUME IInv, NEW r \in Request, Serve(r)
  PROVE  IInv'
<1>1. r \in UnderWay /\ UnderWay' \subseteq UnderWay
  BY DEF Serve, DecodePeerID, DecodeAddresses, DecodeElement, EndDecoding, CopyPeerID,
         CopyAddresses, Panic, Handle, Call, Answer, Goto, UnderWay, IInv, Types
<1>2. alone' = alone /\ body' = body
  BY DEF Serve, DecodePeerID, DecodeAddresses, DecodeElement, EndDecoding, CopyPeerID,
         CopyAddresses, Panic, Handle, Call
<1>3. Single'
  BY <1>1, <1>2 DEF IInv, Single
\* When anybody is alone it is r.
<1>4. \A q \in alone : q \in UnderWay' => q = r
  BY <1>1 DEF IInv, Single
<1>5. body[r] \in Bodies
  BY <1>1 DEF UnderWay, IInv, Types
<1>6. CASE DecodePeerID(r)
  <2>1. Types' /\ Fresh'
    BY <1>6 DEF DecodePeerID, IInv, Types, Fresh
  <2>2. Own' /\ AloneIsOwn'
    BY <1>1, <1>2, <1>4, <1>6 DEF DecodePeerID, IInv, Types, Fresh, Own, Assigned, AloneIsOwn, UnderWay
  <2> QED
    BY <1>3, <2>1, <2>2 DEF IInv
<1>7. CASE DecodeAddresses(r)
  <2>1. Types' /\ Fresh'
    BY <1>7 DEF DecodeAddresses, IInv, Types, Fresh
  <2>2. Own' /\ AloneIsOwn'
    BY <1>1, <1>2, <1>4, <1>7 DEF DecodeAddresses, IInv, Types, Fresh, Own, Assigned, AloneIsOwn, UnderWay
  <2> QED
    BY <1>3, <2>1, <2>2 DEF IInv
<1>8. CASE DecodeElement(r)
  <2>1. Types' /\ Fresh'
    BY <1>8 DEF DecodeElement, IInv, Types, Fresh
  \* Nobody replaces the array of a request that is alone.
  <2>2. r \in alone => ~Replaced(r)
    BY <1>1 DEF Replaced, IInv, Single, Fresh, UnderWay
  <2>3. Own' /\ AloneIsOwn'
    BY <1>1, <1>2, <1>4, <1>8, <2>2 DEF DecodeElement, IInv, Types, Fresh, Own, Assigned, AloneIsOwn, UnderWay
  <2> QED
    BY <1>3, <2>1, <2>3 DEF IInv
<1>9. CASE EndDecoding(r)
  <2>1. Types' /\ Fresh'
    BY <1>9 DEF EndDecoding, IsDecoded, Answer, Goto, IInv, Types, Fresh, Place, shared
  <2>2. Own' /\ AloneIsOwn'
    BY <1>1, <1>2, <1>4, <1>9 DEF EndDecoding, IsDecoded, Answer, Goto, IInv, Types, Fresh, Own, Assigned, AloneIsOwn, UnderWay, shared
  <2> QED
    BY <1>3, <2>1, <2>2 DEF IInv
<1>10. CASE CopyPeerID(r)
  <2>1. Types' /\ Fresh'
    BY <1>10 DEF CopyPeerID, Goto, IInv, Types, Fresh, Place, shared
  <2>2. Own' /\ AloneIsOwn'
    BY <1>1, <1>2, <1>4, <1>10 DEF CopyPeerID, Goto, IInv, Types, Fresh, Own, Assigned, AloneIsOwn, UnderWay, shared
  <2> QED
    BY <1>3, <2>1, <2>2 DEF IInv
<1>11. CASE CopyAddresses(r)
  <2>0. /\ at[r] = "copyAddresses" /\ at' = [at EXCEPT ![r] = "handling"]
        /\ UNCHANGED <<body, undone, reqType, used, alone>>
    BY <1>11 DEF CopyAddresses, Goto, shared
  <2>1. Types' /\ Fresh'
    <3>1. \E n : copy' = [copy EXCEPT ![r].length = n]
      BY <1>11 DEF CopyAddresses
    <3>2. /\ DOMAIN copy' = Request
          /\ \A q \in Request : copy'[q] = [PeerID |-> copy'[q].PeerID, length |-> copy'[q].length]
      BY <3>1 DEF IInv, Types
    <3>3. Types'
      BY <2>0, <3>2 DEF IInv, Types, Place
    <3>4. Fresh'
      BY <2>0 DEF IInv, Types, Fresh
    <3> QED
      BY <3>3, <3>4
  <2>2. r \in alone => ~Replaced(r)
    BY <1>1 DEF Replaced, IInv, Single, Fresh, UnderWay
  <2>3. Own' /\ AloneIsOwn'
    BY <1>1, <1>2, <1>4, <1>11, <2>2 DEF CopyAddresses, Goto, IInv, Types, Fresh, Own, Assigned, AloneIsOwn, UnderWay, shared
  <2> QED
    BY <1>3, <2>1, <2>3 DEF IInv
<1>12. CASE Panic(r)
  <2>1. Types' /\ Fresh'
    BY <1>12 DEF Panic, Goto, IInv, Types, Fresh, Place, shared
  <2>2. Own'
    BY <1>1, <1>2, <1>4, <1>12 DEF Panic, Goto, IInv, Types, Own, Assigned, UnderWay, shared
  <2>3. AloneIsOwn'
    BY <1>2, <1>12 DEF Panic, IInv, AloneIsOwn
  <2> QED
    BY <1>3, <2>1, <2>2, <2>3 DEF IInv
<1>13. CASE Handle(r)
  <2>0. /\ at[r] = "handling" /\ UNCHANGED <<body, undone, reqType, copy, alone>>
        /\ \/ at' = [at EXCEPT ![r] = "calling"] /\ \E u : used' = [used EXCEPT ![r] = u]
           \/ at' = [at EXCEPT ![r] = "answered"] /\ used' = used
    BY <1>13 DEF Handle, Answer, Goto, shared
  <2>1. Types' /\ Fresh'
    <3>1. Types'
      BY <2>0 DEF IInv, Types, Place
    <3>2. Fresh'
      BY <2>0 DEF IInv, Types, Fresh
    <3> QED
      BY <3>1, <3>2
  <2>2. Own'
    BY <1>1, <1>2, <1>4, <1>13 DEF Handle, Answer, Goto, IInv, Types, Fresh, Own, Assigned, UnderWay, shared
  <2>3. AloneIsOwn'
    <3> SUFFICES ASSUME r \in alone, Complete(body[r]), copy[r].PeerID \in Peer
                 PROVE  [peer |-> copy[r].PeerID, addresses |-> Addresses(r)] = Posted(body[r])
      BY <1>2, <1>13 DEF Handle, Answer, AloneIsOwn, IInv, Types, Fresh
    <3>1. at[r] = "handling" /\ undone[r] = {}
      BY <1>13 DEF Handle, IInv, Fresh
    <3>2. element = body[r].Addresses /\ copy[r].PeerID = body[r].PeerID /\ copy[r].length = 1
      BY <1>1, <3>1 DEF IInv, Own, Assigned
    <3> QED
      BY <3>2 DEF Addresses, Posted
  <2> QED
    BY <1>3, <2>1, <2>2, <2>3 DEF IInv
<1>14. CASE Call(r)
  <2>1. Types' /\ Fresh'
    <3>1. /\ at[r] = "calling" /\ at' = [at EXCEPT ![r] = "answered"]
          /\ UNCHANGED <<body, undone, reqType, copy, used, alone>>
      BY <1>14 DEF Call, Answer, Goto, shared
    <3>2. Types'
      BY <3>1 DEF IInv, Types, Place
    <3>3. Fresh'
      BY <3>1 DEF IInv, Types, Fresh
    <3> QED
      BY <3>2, <3>3
  <2>2. Own' /\ AloneIsOwn'
    BY <1>1, <1>2, <1>4, <1>14 DEF Call, Answer, Goto, IInv, Types, Fresh, Own, Assigned, AloneIsOwn, UnderWay, shared
  <2> QED
    BY <1>3, <2>1, <2>2 DEF IInv
<1> QED
  BY <1>6, <1>7, <1>8, <1>9, <1>10, <1>11, <1>12, <1>13, <1>14 DEF Serve

\* So it always holds.
LEMMA IInvHolds == Spec => []IInv
<1>1. IInv /\ UNCHANGED vars => IInv'
  BY DEF IInv, Types, Single, Fresh, Own, Assigned, AloneIsOwn, UnderWay, vars, shared
<1>2. IInv /\ [Next]_vars => IInv'
  BY <1>1, PostInv, ServeInv DEF Next
<1> QED
  BY InvInit, <1>2, PTL DEF Spec

\* A complete request that no other one overlaps has the node called with what
\* it posted, whatever earlier requests have left in reqType (adapt).
THEOREM AloneIsOwnHolds == Spec => []AloneIsOwn
<1>1. IInv => AloneIsOwn
  BY DEF IInv
<1> QED
  BY IInvHolds, <1>1, PTL

-----------------------------------------------------------------------------
(* The types, whole.                                                       *)

\* What the decoder assigns are values of the right types.
LEMMA ServeType ==
  ASSUME IInv, TypeOK, NEW r \in Request, Serve(r)
  PROVE  TypeOK'
<1> USE ValuesAssumption, BodiesAssumption
<1>1. CASE DecodePeerID(r)
  <2>1. body[r].PeerID \in Peer \cup {NotAnId}
    BY <1>1 DEF DecodePeerID, IInv, Types, Fresh
  <2> QED
    BY <1>1, <2>1 DEF DecodePeerID, TypeOK, ReqType
<1>2. CASE DecodeAddresses(r)
  BY <1>2 DEF DecodeAddresses, TypeOK, ReqType
<1>3. CASE DecodeElement(r)
  <2>1. body[r].Addresses \in Address
    BY <1>3 DEF DecodeElement, IInv, Types, Fresh
  <2> QED
    BY <1>3, <2>1 DEF DecodeElement, TypeOK
<1>4. CASE EndDecoding(r)
  BY <1>4 DEF EndDecoding, Answer, Goto, TypeOK, Place, Reply, shared
<1>5. CASE CopyPeerID(r)
  BY <1>5 DEF CopyPeerID, Goto, TypeOK, Place, ReqType, shared
<1>9. CASE CopyAddresses(r)
  <2>1. PICK n \in {0, 1} : copy' = [copy EXCEPT ![r].length = n]
    BY <1>9 DEF CopyAddresses, TypeOK, ReqType
  <2>2. copy' \in [Request -> ReqType]
    BY <2>1 DEF TypeOK, ReqType
  <2> QED
    BY <1>9, <2>2 DEF CopyAddresses, Goto, TypeOK, Place, shared
<1>6. CASE Panic(r)
  BY <1>6 DEF Panic, Goto, TypeOK, Place, shared
<1>7. CASE Handle(r)
  <2>1. undone[r] = {}
    BY <1>7 DEF Handle, IInv, Fresh
  <2>2. copy[r].PeerID \in Peer => [peer |-> copy[r].PeerID, addresses |-> Addresses(r)] \in Used
    BY DEF TypeOK, Addresses, Used
  <2> QED
    BY <1>7, <2>1, <2>2 DEF Handle, Answer, Goto, TypeOK, Place, Reply, Used, shared
<1>8. CASE Call(r)
  <2>1. Added(r) \subseteq Peer \X Address
    BY <1>8 DEF Call, Added, TypeOK, Used
  <2> QED
    BY <1>8, <2>1 DEF Call, Answer, Goto, TypeOK, Place, Reply, shared
<1> QED
  BY <1>1, <1>2, <1>3, <1>4, <1>5, <1>6, <1>7, <1>8, <1>9 DEF Serve

\* The variables of the endpoint keep their types, and the node is only called
\* for a body that has been decoded.
THEOREM AdminTypeCorrect == Spec => []TypeOK
<1>1. Init => TypeOK
  BY DEF Init, TypeOK, Place, Zero, ReqType
<1>2. ASSUME IInv, TypeOK, NEW r \in Request, Refuse(r) \/ Post(r) PROVE TypeOK'
  BY <1>2 DEF Refuse, Post, Answer, Goto, TypeOK, Place, Reply, shared
<1>3. TypeOK /\ UNCHANGED vars => TypeOK'
  BY DEF TypeOK, vars, shared
<1>4. IInv /\ TypeOK /\ [Next]_vars => TypeOK'
  BY <1>2, <1>3, ServeType DEF Next
<1> QED
  BY IInvHolds, <1>1, <1>4, PTL DEF Spec

-----------------------------------------------------------------------------
(* Addresses given to the wrong peer.                                      *)

\* An address has a request that gave it, and what came of that stays.
Caused(pa) ==
  \E r \in Request :
    /\ Gave(r, pa)
    /\ body[r] = [PeerID |-> pa[1], Addresses |-> pa[2]] \/ r \notin alone \/ ~Complete(body[r])

AllCaused == \A pa \in stored : Caused(pa)

\* What a request has called the node with is settled, and so is whether another
\* one overlapped it before.
LEMMA GivenStays ==
  ASSUME IInv, [Next]_vars
  PROVE  \A q \in Request : used[q] # Nil =>
           used'[q] = used[q] /\ body'[q] = body[q] /\ (q \notin alone => q \notin alone')
<1>1. \A q \in Request : used[q] # Nil => at[q] \notin {"idle", "handling"}
  BY DEF IInv, Fresh
<1>2. CASE UNCHANGED vars
  BY <1>2 DEF vars, shared
<1>3. ASSUME NEW r \in Request, Refuse(r) \/ Post(r)
      PROVE  at[r] = "idle" /\ used' = used /\ alone' \subseteq alone \cup {r}
             /\ \A q \in Request \ {r} : body'[q] = body[q]
  BY <1>3 DEF Refuse, Post, IInv, Types
<1>4. ASSUME NEW r \in Request, Serve(r)
      PROVE  /\ alone' = alone /\ body' = body
             /\ used' = used \/ (at[r] = "handling" /\ \A q \in Request \ {r} : used'[q] = used[q])
  BY <1>4 DEF Serve, DecodePeerID, DecodeAddresses, DecodeElement, EndDecoding, CopyPeerID,
              CopyAddresses, Panic, Handle, Call, IInv, Types
<1> QED
  BY <1>1, <1>2, <1>3, <1>4 DEF Next

\* What is stored for a reason stays so, and what a call adds has one.
LEMMA CauseStep ==
  ASSUME IInv, TypeOK, AllCaused, [Next]_vars
  PROVE  AllCaused'
<1>1. ASSUME NEW pa, Caused(pa) PROVE Caused(pa)'
  BY <1>1, GivenStays DEF Caused, Gave
<1>2. ASSUME NEW r \in Request, Call(r), NEW pa \in Added(r) PROVE Caused(pa)
  <2>1. at[r] = "calling" /\ body[r] \in Bodies /\ used[r] # Nil
    BY <1>2 DEF Call, IInv, Types, TypeOK
  <2>2. pa[1] = used[r].peer /\ pa[2] \in used[r].addresses
    BY DEF Added
  <2>3. Gave(r, pa)
    BY <2>1, <2>2 DEF Gave
  <2>4. CASE r \in alone /\ Complete(body[r])
    <3>1. used[r] = Posted(body[r])
      BY <2>1, <2>4 DEF IInv, AloneIsOwn
    <3>2. pa[1] = body[r].PeerID /\ pa[2] = body[r].Addresses
      BY <2>2, <3>1 DEF Posted
    <3>3. body[r] = [PeerID |-> body[r].PeerID, Addresses |-> body[r].Addresses]
      BY <2>1, BodiesAssumption
    <3> QED
      BY <2>3, <3>2, <3>3 DEF Caused
  <2>5. CASE ~(r \in alone /\ Complete(body[r]))
    BY <2>3, <2>5 DEF Caused
  <2> QED
    BY <2>4, <2>5
<1>3. stored' = stored \/ \E r \in Request : Call(r) /\ stored' = stored \cup Added(r)
  BY DEF Next, vars, Refuse, Post, Serve, DecodePeerID, DecodeAddresses, DecodeElement, EndDecoding,
         CopyPeerID, CopyAddresses, Panic, Handle, Call
<1>4. \A pa \in stored' : Caused(pa)
  BY <1>2, <1>3 DEF AllCaused
<1> QED
  BY <1>1, <1>4 DEF AllCaused

\* A peer gets an address that was not posted with it only from a request that
\* another one overlapped, or that left a field out, at every endpoint and
\* whether the node's operation fails or not (adapt, UpdatePeer).
THEOREM WrongAddressHolds == Spec => []WrongAddressHasCause
<1>1. Init => AllCaused
  BY DEF Init, AllCaused
<1>2. AllCaused => WrongAddressHasCause
  BY DEF AllCaused, Caused, WrongAddressHasCause
<1> QED
  BY IInvHolds, AdminTypeCorrect, CauseStep, <1>1, <1>2, PTL DEF Spec
=============================================================================
