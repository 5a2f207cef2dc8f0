---------------------------- MODULE PeerExchange ----------------------------
(***************************************************************************)
(* How nodes learn of peers: Node.UpdatePeer, Node.RequestPeers            *)
(* (v2/goclarinet.go) and the handler of peer requests (v2/handlers.go),   *)
(* over the peer store of starterimpl/libp2p.                              *)
(*                                                                         *)
(* A peer is in a store that has an address there, or a key: libp2p keeps  *)
(* the keys of the node itself and of every peer it has been connected to. *)
(* The handler draws the peers of its answer at random from a copy of the  *)
(* store, one per round.                                                   *)
(***************************************************************************)
EXTENDS Integers, FiniteSets

CONSTANTS
  Node,       \* the peers of the network
  Told,       \* Told[n]: the peers whose addresses n's application is told
  MaxNum,     \* bound on the peers a request asks for
  MaxCalls,   \* bound on the calls of RequestPeers
  OwnAnswers  \* whether the application's own handlers ever answer or refuse

ASSUME NodeAssumption == IsFiniteSet(Node)
ASSUME ToldAssumption == Told \in [Node -> SUBSET Node]
ASSUME BoundAssumption ==
  /\ MaxNum \in Nat
  /\ MaxCalls \in Nat
  /\ OwnAnswers \in BOOLEAN

VARIABLES
  known,    \* known[n]: the peers in n's peer store
  up,       \* the nodes whose program runs
  waiting,  \* requests whose Exchange has not returned
  serving,  \* the handlers at work, and how far each has drawn
  net,      \* messages written and not yet handled
  calls     \* calls of RequestPeers that sent a request

vars == <<known, up, waiting, serving, net, calls>>

Request == [type : {"request"}, from : Node, to : Node, num : 1 .. MaxNum, call : 1 .. MaxCalls]

\* An answer says what it answers: the stream it comes on.  own: it is the
\* application's.  store: what the handler found in its store.
Answer == [type : {"answer"}, request : Request, peers : SUBSET Node,
           own : BOOLEAN, store : SUBSET Node]

Draw == [request : Request, store : SUBSET Node, left : SUBSET Node, drawn : SUBSET Node]

TypeOK ==
  /\ known \in [Node -> SUBSET Node]
  /\ up \subseteq Node
  /\ waiting \subseteq Request
  /\ serving \subseteq Draw
  /\ net \subseteq Request \cup Answer
  /\ calls \in 0 .. MaxCalls
  \* What a handler has drawn is gone from its copy of the store.
  /\ \A d \in serving : d.drawn \cap d.left = {} /\ d.drawn \cup d.left \subseteq d.store

Init ==
  /\ known = [n \in Node |-> {n}]
  /\ up = Node
  /\ waiting = {}
  /\ serving = {}
  /\ net = {}
  /\ calls = 0

-----------------------------------------------------------------------------
(* The node that asks.                                                     *)

Learn(n, peers) == known' = [known EXCEPT ![n] = @ \cup peers]

\* The application, or Connect, adds a peer it was told of.
UpdatePeer(n, p) ==
  /\ n \in up
  /\ p \in Told[n] \ known[n]
  /\ Learn(n, {p})
  /\ UNCHANGED <<up, waiting, serving, net, calls>>

\* RequestPeers up to the read of its Exchange.  p is added first, even if
\* asking for less than one peer is then an error; the request may fail to
\* be sent.
RequestPeers(n, p, num) ==
  /\ n \in up
  /\ p \in (Told[n] \cup known[n]) \ {n}
  /\ Learn(n, {p})
  /\ \/ /\ num >= 1
        /\ calls < MaxCalls
        /\ calls' = calls + 1
        /\ LET m == [type |-> "request", from |-> n, to |-> p, num |-> num, call |-> calls + 1]
           IN  /\ net' = net \cup {m}
               /\ waiting' = waiting \cup {m}
     \/ UNCHANGED <<net, waiting, calls>>
  /\ UNCHANGED <<up, serving>>

\* Mutant: the answer is not cut to what was asked for.
UsesWhole(m) == {m.peers}

\* What is used of an answer: all of it, or as much as was asked for.
Uses(m) ==
  LET num == m.request.num
  IN  IF Cardinality(m.peers) > num
      THEN {few \in SUBSET m.peers : Cardinality(few) = num}
      ELSE {m.peers}

\* Exchange returns the answer; every peer in it is added.
TakeAnswer(m) ==
  /\ m.type = "answer"
  /\ m.request \in waiting
  /\ net' = net \ {m}
  /\ waiting' = waiting \ {m.request}
  /\ \E used \in Uses(m) : Learn(m.request.from, used)
  /\ UNCHANGED <<up, serving, calls>>

\* Exchange returns an error: the deadline has passed or the stream is reset.
ExchangeFails(r) ==
  /\ r \in waiting
  /\ waiting' = waiting \ {r}
  /\ UNCHANGED <<known, up, serving, net, calls>>

-----------------------------------------------------------------------------
(* The node that is asked: peerRequestHandlerAdapter.Handle.               *)

\* The node that asks has connected to this one.  The application's handler
\* answers or refuses by itself, or leaves it to the library, which copies the
\* store.
StartAnswer(m) ==
  LET store == known[m.to] \cup {m.from}
  IN  /\ m.type = "request"
      /\ m.to \in up
      /\ Learn(m.to, {m.from})
      /\ \/ /\ OwnAnswers
            /\ \E peers \in SUBSET store :
                 net' = (net \ {m}) \cup
                   {[type |-> "answer", request |-> m, peers |-> peers,
                     own |-> TRUE, store |-> store]}
            /\ UNCHANGED serving
         \/ /\ OwnAnswers
            /\ net' = net \ {m}
            /\ UNCHANGED serving
         \/ /\ net' = net \ {m}
            /\ serving' = serving \cup
                 {[request |-> m, store |-> store, left |-> store, drawn |-> {}]}
      /\ UNCHANGED <<up, waiting, calls>>

\* The condition of the handler's loop.
Drawing(d) == Cardinality(d.drawn) < d.request.num /\ d.left # {}

\* Mutant: the node itself may be in the answer.
DrawAny(d) ==
  /\ Drawing(d)
  /\ \E p \in d.left :
       serving' = (serving \ {d}) \cup {[d EXCEPT !.left = @ \ {p}, !.drawn = @ \cup {p}]}
  /\ UNCHANGED <<known, up, waiting, net, calls>>

\* Mutant: the peer drawn stays in the list.
DrawWithReplacement(d) ==
  /\ Drawing(d)
  /\ \E p \in d.left \ {d.request.to} :
       serving' = (serving \ {d}) \cup {[d EXCEPT !.drawn = @ \cup {p}]}
  /\ UNCHANGED <<known, up, waiting, net, calls>>

\* A round that ends with a peer: a first draw of the node itself does not
\* count, and a second one is made.
DrawPeer(d) ==
  /\ Drawing(d)
  /\ \E p \in d.left \ {d.request.to} : \E first \in {p, d.request.to} \cap d.left :
       serving' = (serving \ {d}) \cup
         {[d EXCEPT !.left = @ \ {first, p}, !.drawn = @ \cup {p}]}
  /\ UNCHANGED <<known, up, waiting, net, calls>>

\* Mutant: the second draw is of an index into the list as it was before.
MayPanicOnSelf(d) == d.request.to \in d.left

\* The node itself is drawn and there is nothing left for the second draw.
Panics(d) == d.left = {d.request.to}

\* rand.Intn(0) panics, which ends the program.
Panic(d) ==
  /\ Drawing(d)
  /\ Panics(d)
  /\ up' = up \ {d.request.to}
  /\ serving' = {e \in serving : e.request.to # d.request.to}
  /\ waiting' = {r \in waiting : r.from # d.request.to}
  /\ UNCHANGED <<known, net, calls>>

EndAnswer(d) ==
  /\ ~Drawing(d)
  /\ serving' = serving \ {d}
  /\ net' = net \cup
       {[type |-> "answer", request |-> d.request, peers |-> d.drawn,
         own |-> FALSE, store |-> d.store]}
  /\ UNCHANGED <<known, up, waiting, calls>>

\* A stream is reset, by the network or because its requester gave up.
Lose(m) ==
  /\ net' = net \ {m}
  /\ UNCHANGED <<known, up, waiting, serving, calls>>

-----------------------------------------------------------------------------
Next ==
  \/ \E n, p \in Node : UpdatePeer(n, p) \/ \E num \in 0 .. MaxNum : RequestPeers(n, p, num)
  \/ \E r \in waiting : ExchangeFails(r)
  \/ \E m \in net : TakeAnswer(m) \/ StartAnswer(m) \/ Lose(m)
  \/ \E d \in serving : DrawPeer(d) \/ Panic(d) \/ EndAnswer(d)

Spec == Init /\ [][Next]_vars

-----------------------------------------------------------------------------
\* The library's answer is a draw without replacement from the other peers
\* of the node asked: as many as were asked for, or all there are, and never
\* that node itself (the loop of the peer request handler).
FullAnswer ==
  \A m \in net : (m.type = "answer" /\ ~m.own) =>
    LET others == m.store \ {m.request.to}
        size == Cardinality(m.peers)
    IN  /\ m.peers \subseteq others
        /\ size = m.request.num \/ (size < m.request.num /\ m.peers = others)

\* A node learns no more from an answer than it asked for, whatever the other
\* node's application put into it (RequestPeers).
LearnsWhatItAsked ==
  [][\A r \in waiting : r \notin waiting' =>
       Cardinality(known'[r.from] \ known[r.from]) <= r.num]_vars

\* A node that is asked for no more peers than it knows is not stopped by it.
StopsOnlyOverAsked ==
  [][\A n \in up \ up' : \E d \in serving :
       d.request.to = n /\ d.request.num > Cardinality(d.store \ {n})]_vars

-----------------------------------------------------------------------------
(* What the repository says and the code does not do.                      *)

\* README.md: the target node may return fewer peers if it does not know as
\* many.  When it draws itself last, it does not return.
AnswersWithFewer == up = Node
=============================================================================
