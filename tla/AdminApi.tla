------------------------------ MODULE AdminApi ------------------------------
(***************************************************************************)
(* One of the admin endpoints of main.go that take a request: /connect,    *)
(* /peer or /requestpeers.  Each request is served by a goroutine, and     *)
(* they all decode into the variable reqType that adapt was called with.   *)
(*                                                                         *)
(* The JSON decoder assigns the fields that a body has, in the order in    *)
(* which it has them, and leaves the others alone.  It goes on after a     *)
(* field of the wrong type and reports that at the end.  Addresses is a    *)
(* slice, whose elements are decoded into the array that is there.  A list *)
(* is of one address here, so the first one makes the only array.          *)
(*                                                                         *)
(* Overlapping requests race for reqType.  Texts are taken to have one     *)
(* length: a text that is replaced is read as the old one or the new one,  *)
(* and only one that was empty may be read in part.                        *)
(***************************************************************************)
EXTENDS FiniteSets

CONSTANTS
  Request,   \* the HTTP requests
  Peer,      \* texts that are peer IDs
  NotAnId,   \* a text that is none
  Address,   \* texts that can be parsed as addresses
  Missing,   \* a field the body does not have
  WrongType, \* a field whose value has another type
  Empty,     \* the empty text
  Bodies,    \* the bodies that are posted
  Nil        \* nothing yet

ASSUME BodiesAssumption ==
  Bodies \subseteq [PeerID : Peer \cup {NotAnId, Missing, WrongType},
                    Addresses : Address \cup {Missing, WrongType}]
ASSUME ValuesAssumption ==
  /\ {Missing, WrongType} \cap (Peer \cup Address) = {}
  /\ NotAnId \notin {Missing, WrongType}
  /\ Nil \notin [peer : Peer, addresses : SUBSET (Address \cup {Empty})]

VARIABLES
  endpoint,
  at,       \* at[r]: how far the goroutine that serves r is
  body,     \* body[r]: the body of r
  undone,   \* undone[r]: what the decoder has yet to assign
  reqType,  \* the shared variable: a peer ID and the length of a slice
  element,  \* the element of that slice's array
  copy,     \* copy[r]: the copy of reqType that the handler of r is given
  used,     \* used[r]: the peer and the addresses it calls the node with
  stored,   \* the peers and addresses the endpoint's requests had added to the peer store
  reply,    \* reply[r]: what r is answered
  alone     \* the requests that no other one overlapped

shared == <<reqType, element>>
vars == <<endpoint, at, body, undone, shared, copy, used, stored, reply, alone>>

Endpoint == {"connect", "peer", "requestpeers"}

Place == {"idle", "decoding", "copyPeerID", "copyAddresses", "handling", "calling",
          "answered", "panicked"}

Reply == {"OK", "BadRequest", "InternalServerError", "Refused"}

ReqType == [PeerID : Peer \cup {NotAnId, Empty}, length : {0, 1}]

Used == [peer : Peer, addresses : SUBSET (Address \cup {Empty})]

TypeOK ==
  /\ endpoint \in Endpoint
  /\ at \in [Request -> Place]
  /\ body \in [Request -> Bodies \cup {Nil}]
  /\ undone \in [Request -> SUBSET {"PeerID", "Addresses", "element"}]
  /\ reqType \in ReqType
  /\ element \in Address \cup {Empty}
  /\ copy \in [Request -> ReqType]
  /\ used \in [Request -> Used \cup {Nil}]
  /\ stored \subseteq Peer \X Address
  /\ reply \in [Request -> Reply \cup {Nil}]
  /\ alone \subseteq Request
  \* The node is only called for a body that was decoded to the end.
  /\ \A r \in Request : at[r] = "calling" => used[r] # Nil /\ undone[r] = {}

Zero == [PeerID |-> Empty, length |-> 0]

Init ==
  /\ endpoint \in Endpoint
  /\ at = [r \in Request |-> "idle"]
  /\ body = [r \in Request |-> Nil]
  /\ undone = [r \in Request |-> {}]
  /\ reqType = Zero
  /\ element = Empty
  /\ copy = [r \in Request |-> Zero]
  /\ used = [r \in Request |-> Nil]
  /\ stored = {}
  /\ reply = [r \in Request |-> Nil]
  /\ alone = {}

Goto(r, place) == at' = [at EXCEPT ![r] = place]

Answer(r, answer) ==
  /\ Goto(r, "answered")
  /\ reply' = [reply EXCEPT ![r] = answer]

UnderWay == {r \in Request : at[r] \notin {"idle", "answered", "panicked"}}

-----------------------------------------------------------------------------
(* adapt.                                                                  *)

\* The request has another method, its body cannot be read, or it is no JSON:
\* nothing is decoded.
Refuse(r) ==
  /\ at[r] = "idle"
  /\ Answer(r, "Refused")
  /\ UNCHANGED <<endpoint, body, undone, shared, copy, used, stored, alone>>

Post(r) ==
  /\ at[r] = "idle"
  /\ Goto(r, "decoding")
  /\ \E b \in Bodies :
       /\ body' = [body EXCEPT ![r] = b]
       /\ undone' = [undone EXCEPT ![r] =
            {f \in {"PeerID", "Addresses"} : b[f] \notin {Missing, WrongType}}]
  /\ alone' = IF UnderWay = {} THEN alone \cup {r} ELSE alone \ UnderWay
  /\ UNCHANGED <<endpoint, shared, copy, used, stored, reply>>

DecodePeerID(r) ==
  /\ at[r] = "decoding" /\ "PeerID" \in undone[r] /\ "element" \notin undone[r]
  /\ reqType' = [reqType EXCEPT !.PeerID = body[r].PeerID]
  /\ undone' = [undone EXCEPT ![r] = @ \ {"PeerID"}]
  /\ UNCHANGED <<endpoint, at, body, element, copy, used, stored, reply, alone>>

\* The slice gets an array, if it has none, and its length.
DecodeAddresses(r) ==
  /\ at[r] = "decoding" /\ "Addresses" \in undone[r]
  /\ reqType' = [reqType EXCEPT !.length = 1]
  /\ undone' = [undone EXCEPT ![r] = (@ \ {"Addresses"}) \cup {"element"}]
  /\ UNCHANGED <<endpoint, at, body, element, copy, used, stored, reply, alone>>

\* Another request is at the first list there is, too: it finds no array and
\* makes one, while r already has its own.
Replaced(r) ==
  element = Empty /\ \E o \in Request \ {r} : undone[o] \cap {"Addresses", "element"} # {}

\* The element gets its value, or a lost array does.
DecodeElement(r) ==
  /\ at[r] = "decoding" /\ "element" \in undone[r]
  /\ element' = body[r].Addresses \/ (Replaced(r) /\ UNCHANGED element)
  /\ undone' = [undone EXCEPT ![r] = @ \ {"element"}]
  /\ UNCHANGED <<endpoint, at, body, reqType, copy, used, stored, reply, alone>>

\* Mutant: the copy is taken before the body is decoded.
IsPosted(r) == body[r] # Nil

IsDecoded(r) == undone[r] = {}

\* A wrong type is reported once everything else has been assigned.
EndDecoding(r) ==
  /\ at[r] = "decoding" /\ IsDecoded(r)
  /\ IF WrongType \in {body[r].PeerID, body[r].Addresses}
     THEN Answer(r, "BadRequest")
     ELSE Goto(r, "copyPeerID") /\ UNCHANGED reply
  /\ UNCHANGED <<endpoint, body, undone, shared, copy, used, stored, alone>>

-----------------------------------------------------------------------------
(* handleAndReply, and the handler of the endpoint.                        *)

\* reqType is passed by value, its slice with the array of the others.
CopyPeerID(r) ==
  /\ at[r] = "copyPeerID"
  /\ copy' = [copy EXCEPT ![r].PeerID = reqType.PeerID]
  /\ Goto(r, "copyAddresses")
  /\ UNCHANGED <<endpoint, body, undone, shared, used, stored, reply, alone>>

\* A new array has no length yet.
CopyAddresses(r) ==
  /\ at[r] = "copyAddresses"
  /\ \/ copy' = [copy EXCEPT ![r].length = reqType.length]
     \/ Replaced(r) /\ copy' = [copy EXCEPT ![r].length = 0]
  /\ Goto(r, "handling")
  /\ UNCHANGED <<endpoint, body, undone, shared, used, stored, reply, alone>>

\* What o assigns next has its zero value, in which no memory is pointed to.
FirstValue(o) ==
  \/ "PeerID" \in undone[o] /\ reqType.PeerID = Empty
  \/ "Addresses" \in undone[o] /\ reqType.length = 0
  \/ "element" \in undone[o] /\ element = Empty

\* A text or slice is copied when half of it is assigned, and has a length
\* but points nowhere.  The goroutine panics, and net/http closes the
\* connection without an answer.
Panic(r) ==
  /\ at[r] \in {"copyPeerID", "copyAddresses", "handling"}
  /\ \E o \in Request \ {r} : FirstValue(o)
  /\ Goto(r, "panicked")
  /\ UNCHANGED <<endpoint, body, undone, shared, copy, used, stored, reply, alone>>

\* The addresses of a copy are those the array holds by now.
Addresses(r) == IF copy[r].length = 0 THEN {} ELSE {element}

\* Mutant: the first address is taken without a look at whether there is one.
HandleFirst(r) ==
  /\ at[r] = "handling"
  /\ IF copy[r].PeerID \in Peer
     THEN /\ used' = [used EXCEPT ![r] = [peer |-> copy[r].PeerID, addresses |-> Addresses(r)]]
          /\ Goto(r, IF Addresses(r) = {} THEN "panicked" ELSE "calling")
          /\ UNCHANGED reply
     ELSE Answer(r, "InternalServerError") /\ UNCHANGED used
  /\ UNCHANGED <<endpoint, body, undone, shared, copy, stored, alone>>

\* ParsePeerID, and the loop over the addresses.
Handle(r) ==
  /\ at[r] = "handling"
  /\ IF copy[r].PeerID \in Peer
     THEN /\ used' = [used EXCEPT ![r] = [peer |-> copy[r].PeerID, addresses |-> Addresses(r)]]
          /\ Goto(r, "calling")
          /\ UNCHANGED reply
     ELSE Answer(r, "InternalServerError") /\ UNCHANGED used
  /\ UNCHANGED <<endpoint, body, undone, shared, copy, stored, alone>>

\* What UpdatePeer adds, with which Connect and RequestPeers begin, too.
Added(r) == {used[r].peer} \X (used[r].addresses \cap Address)

\* UpdatePeer returns the error of an address that cannot be parsed, which the
\* empty text cannot.
UpdateFails(r) == Empty \in used[r].addresses

\* The operation of the node returns, and the request is answered.  What comes
\* after UpdatePeer in Connect and RequestPeers may fail.
Call(r) ==
  /\ at[r] = "calling"
  /\ stored' = stored \cup Added(r)
  /\ \/ ~UpdateFails(r) /\ Answer(r, "OK")
     \/ (UpdateFails(r) \/ endpoint # "peer") /\ Answer(r, "InternalServerError")
  /\ UNCHANGED <<endpoint, body, undone, shared, copy, used, alone>>

-----------------------------------------------------------------------------
Serve(r) ==
  \/ DecodePeerID(r) \/ DecodeAddresses(r) \/ DecodeElement(r) \/ EndDecoding(r)
  \/ CopyPeerID(r) \/ CopyAddresses(r) \/ Panic(r) \/ Handle(r) \/ Call(r)

Next == \E r \in Request : Refuse(r) \/ Post(r) \/ Serve(r)

Spec == Init /\ [][Next]_vars

\* A request that is being served is served on, and the node's operations
\* return.
FairSpec == Spec /\ \A r \in Request : WF_vars(Serve(r))

-----------------------------------------------------------------------------
\* A body that says everything there is to say, in the right types.
Complete(b) == b.PeerID \in Peer /\ b.Addresses \in Address

Posted(b) == [peer |-> b.PeerID, addresses |-> {b.Addresses}]

\* A request that leaves no field out, and that no other one overlaps, has the
\* node called with what was posted, whatever came before it (adapt).
AloneIsOwn ==
  \A r \in alone : (used[r] # Nil /\ Complete(body[r])) => used[r] = Posted(body[r])

\* r had the node called with the peer and the address of pa.
Gave(r, pa) == used[r] # Nil /\ used[r].peer = pa[1] /\ pa[2] \in used[r].addresses

\* A peer is given an address only by a request that posted the two together,
\* unless another one overlapped it or it left a field out: whatever is left of
\* earlier requests, and whether or not the operation fails afterwards (adapt's
\* reqType, UpdatePeer).
WrongAddressHasCause ==
  \A pa \in stored : \E r \in Request :
    /\ Gave(r, pa)
    /\ body[r] = [PeerID |-> pa[1], Addresses |-> pa[2]] \/ r \notin alone \/ ~Complete(body[r])

\* Every request is answered, however the others go, except one that panics
\* over a variable that an overlapping one is the first to assign
\* (handleAndReply).
RequestsAnswered ==
  \A r \in Request :
    at[r] # "idle" ~> (at[r] = "answered" \/ (at[r] = "panicked" /\ r \notin alone))
=============================================================================
