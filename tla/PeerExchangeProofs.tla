------------------------- MODULE PeerExchangeProofs -------------------------
(***************************************************************************)
(* What PeerExchange says of one request holds for every finite network,   *)
(* whatever is told to whom and however many requests are under way.       *)
(***************************************************************************)
EXTENDS PeerExchange, FiniteSetTheorems, TLAPS

\* A handler has drawn peers other than its own node, as many as were asked
\* for at most, and every other peer it has not drawn is still in its copy.
DrawsOK ==
  \A d \in serving :
    /\ d.request.to \notin d.drawn
    /\ d.store \ {d.request.to} \subseteq d.drawn \cup d.left
    /\ Cardinality(d.drawn) <= d.request.num

\* The inductive invariant.
IInv == TypeOK /\ DrawsOK /\ FullAnswer

\* Sets of peers can be counted.
LEMMA PeersFinite ==
  ASSUME NEW S \in SUBSET Node
  PROVE  IsFiniteSet(S) /\ Cardinality(S) \in Nat
BY NodeAssumption, FS_Subset, FS_CardinalityType

\* The invariant holds when every node knows itself only.
LEMMA InvInit == Init => IInv
BY BoundAssumption DEF Init, IInv, TypeOK, DrawsOK, FullAnswer

\* Adding peers changes the store of one node.
LEMMA LearnType ==
  ASSUME TypeOK, NEW n \in Node, NEW peers \in SUBSET Node, Learn(n, peers)
  PROVE  known' \in [Node -> SUBSET Node]
BY DEF TypeOK, Learn

-----------------------------------------------------------------------------
\* The node that asks keeps the invariant: what it sends is a request, and
\* what it adds are peers.
LEMMA RequesterInv ==
  ASSUME IInv,
         \/ \E n, p \in Node : UpdatePeer(n, p) \/ \E num \in 0 .. MaxNum : RequestPeers(n, p, num)
         \/ \E r \in waiting : ExchangeFails(r)
         \/ \E m \in net : TakeAnswer(m) \/ Lose(m)
  PROVE  IInv'
<1> USE DEF IInv
<1>1. ASSUME NEW n \in Node, NEW p \in Node, UpdatePeer(n, p) PROVE IInv'
  <2>1. known' \in [Node -> SUBSET Node]
    BY <1>1, LearnType DEF UpdatePeer
  <2> QED
    BY <1>1, <2>1 DEF UpdatePeer, TypeOK, DrawsOK, FullAnswer
<1>2. ASSUME NEW n \in Node, NEW p \in Node, NEW num \in 0 .. MaxNum, RequestPeers(n, p, num) PROVE IInv'
  <2> DEFINE m == [type |-> "request", from |-> n, to |-> p, num |-> num, call |-> calls + 1]
  <2>1. known' \in [Node -> SUBSET Node]
    BY <1>2, LearnType DEF RequestPeers
  <2>2. CASE UNCHANGED <<net, waiting, calls>>
    BY <1>2, <2>1, <2>2 DEF RequestPeers, TypeOK, DrawsOK, FullAnswer
  <2>3. CASE /\ num >= 1 /\ calls < MaxCalls /\ calls' = calls + 1
             /\ net' = net \cup {m} /\ waiting' = waiting \cup {m}
    <3>1. calls' \in 0 .. MaxCalls /\ m \in Request /\ m.type = "request"
      BY <2>3, BoundAssumption DEF TypeOK, Request
    <3> HIDE DEF m
    <3> QED
      BY <1>2, <2>1, <2>3, <3>1 DEF RequestPeers, TypeOK, DrawsOK, FullAnswer
  <2> QED
    BY <1>2, <2>2, <2>3 DEF RequestPeers
<1>3. ASSUME NEW r \in waiting, ExchangeFails(r) PROVE IInv'
  BY <1>3 DEF ExchangeFails, TypeOK, DrawsOK, FullAnswer
<1>4. ASSUME NEW m \in net, TakeAnswer(m) PROVE IInv'
  <2>1. m \in Answer
    BY <1>4 DEF TakeAnswer, TypeOK, Request
  <2>2. PICK used \in Uses(m) : Learn(m.request.from, used)
    BY <1>4 DEF TakeAnswer
  <2>3. used \in SUBSET Node /\ m.request.from \in Node
    BY <2>1, <2>2 DEF Uses, Answer, Request
  <2>4. known' \in [Node -> SUBSET Node]
    BY <2>2, <2>3, LearnType
  <2> QED
    BY <1>4, <2>4 DEF TakeAnswer, TypeOK, DrawsOK, FullAnswer
<1>5. ASSUME NEW m \in net, Lose(m) PROVE IInv'
  BY <1>5 DEF Lose, TypeOK, DrawsOK, FullAnswer
<1> QED
  BY <1>1, <1>2, <1>3, <1>4, <1>5

\* So does the handler up to its copy of the store.
LEMMA StartInv ==
  ASSUME IInv, NEW m \in net, StartAnswer(m)
  PROVE  IInv'
<1> USE DEF IInv
<1> DEFINE store == known[m.to] \cup {m.from}
<1>1. m \in Request /\ m.from \in Node /\ m.to \in Node /\ m.num \in Nat /\ m.num >= 1
  BY BoundAssumption DEF StartAnswer, TypeOK, Answer, Request
<1>2. store \in SUBSET Node
  BY <1>1 DEF TypeOK
<1>6. known' \in [Node -> SUBSET Node]
  BY <1>1, LearnType DEF StartAnswer
<1>7. UNCHANGED <<up, waiting, calls>>
  BY DEF StartAnswer
<1>3. CASE /\ \E peers \in SUBSET store :
                net' = (net \ {m}) \cup
                  {[type |-> "answer", request |-> m, peers |-> peers,
                    own |-> TRUE, store |-> store]}
           /\ UNCHANGED serving
  <2>1. PICK peers \in SUBSET store :
          net' = (net \ {m}) \cup
            {[type |-> "answer", request |-> m, peers |-> peers, own |-> TRUE, store |-> store]}
    BY <1>3
  <2> DEFINE a == [type |-> "answer", request |-> m, peers |-> peers, own |-> TRUE, store |-> store]
  <2>2. a \in Answer /\ a.own
    BY <1>1, <1>2 DEF Answer
  <2>3. net' \subseteq net \cup {a}
    BY <2>1
  <2> HIDE DEF a
  <2> QED
    BY <1>3, <1>6, <1>7, <2>2, <2>3 DEF TypeOK, DrawsOK, FullAnswer
<1>4. CASE net' = net \ {m} /\ UNCHANGED serving
  BY <1>4, <1>6, <1>7 DEF TypeOK, DrawsOK, FullAnswer
<1>5. CASE /\ net' = net \ {m}
           /\ serving' = serving \cup
                {[request |-> m, store |-> store, left |-> store, drawn |-> {}]}
  <2> DEFINE d == [request |-> m, store |-> store, left |-> store, drawn |-> {}]
  <2>1. /\ d \in Draw /\ d.drawn = {} /\ d.left = d.store /\ d.request = m
    BY <1>1, <1>2 DEF Draw
  <2>2. serving' = serving \cup {d}
    BY <1>5
  <2>3. Cardinality({}) = 0
    BY FS_EmptySet
  <2> HIDE DEF d
  <2>4. TypeOK'
    BY <1>5, <1>6, <1>7, <2>1, <2>2 DEF TypeOK
  <2>5. DrawsOK'
    <3>1. /\ d.request.to \notin d.drawn
          /\ d.store \ {d.request.to} \subseteq d.drawn \cup d.left
      BY <2>1
    <3>2. Cardinality(d.drawn) <= d.request.num
      BY <1>1, <2>1, <2>3
    <3> QED
      BY <2>2, <3>1, <3>2 DEF DrawsOK
  <2> QED
    BY <1>5, <2>4, <2>5 DEF FullAnswer
<1> QED
  BY <1>3, <1>4, <1>5 DEF StartAnswer

\* And a round of its loop: the peer drawn is one more.
LEMMA DrawInv ==
  ASSUME IInv, NEW d \in serving, DrawPeer(d)
  PROVE  IInv'
<1> USE DEF IInv
<1>1. /\ d \in Draw /\ d.drawn \in SUBSET Node /\ d.left \in SUBSET Node /\ d.request.num \in Nat
  BY BoundAssumption DEF TypeOK, Draw, Request
<1>2. PICK p \in d.left \ {d.request.to} : \E first \in {p, d.request.to} \cap d.left :
        serving' = (serving \ {d}) \cup {[d EXCEPT !.left = d.left \ {first, p}, !.drawn = d.drawn \cup {p}]}
  BY DEF DrawPeer
<1>3. PICK first \in {p, d.request.to} \cap d.left :
        serving' = (serving \ {d}) \cup {[d EXCEPT !.left = d.left \ {first, p}, !.drawn = d.drawn \cup {p}]}
  BY <1>2
<1> DEFINE e == [d EXCEPT !.left = d.left \ {first, p}, !.drawn = d.drawn \cup {p}]
<1>4. /\ e \in Draw /\ e.request = d.request /\ e.store = d.store
      /\ e.left = d.left \ {first, p} /\ e.drawn = d.drawn \cup {p}
  BY <1>1, <1>2 DEF Draw
<1>5. serving' = (serving \ {d}) \cup {e} /\ UNCHANGED <<known, up, waiting, net, calls>>
  BY <1>3 DEF DrawPeer
<1>6. d.drawn \cap d.left = {} /\ d.drawn \cup d.left \subseteq d.store
  BY DEF TypeOK
<1> HIDE DEF e
<1>7. TypeOK'
  BY <1>4, <1>5, <1>6 DEF TypeOK
<1>8. Cardinality(e.drawn) = Cardinality(d.drawn) + 1
  BY <1>1, <1>2, <1>4, <1>6, PeersFinite, FS_AddElement
<1>9. Cardinality(e.drawn) <= e.request.num
  BY <1>1, <1>4, <1>8, PeersFinite DEF DrawPeer, Drawing
<1>10. DrawsOK'
  <2>1. e.request.to \notin e.drawn
    BY <1>2, <1>4 DEF DrawsOK
  <2>2. e.store \ {e.request.to} \subseteq e.drawn \cup e.left
    BY <1>2, <1>3, <1>4 DEF DrawsOK
  <2>3. \A x \in serving' : x \in serving \/ x = e
    BY <1>5
  <2> QED
    BY <1>9, <2>1, <2>2, <2>3 DEF DrawsOK
<1> QED
  BY <1>5, <1>7, <1>10 DEF FullAnswer

\* And its answer, or its end.
LEMMA EndInv ==
  ASSUME IInv, NEW d \in serving, EndAnswer(d) \/ Panic(d)
  PROVE  IInv'
<1> USE DEF IInv
<1>1. CASE EndAnswer(d)
  <2> DEFINE a == [type |-> "answer", request |-> d.request, peers |-> d.drawn,
                   own |-> FALSE, store |-> d.store]
  <2>1. d \in Draw /\ d.request.num \in Nat /\ d.drawn \in SUBSET Node
    BY BoundAssumption DEF TypeOK, Draw, Request
  <2>2. /\ a \in Answer /\ a.request = d.request /\ a.peers = d.drawn /\ a.store = d.store
    BY <2>1 DEF Draw, Answer
  <2>3. net' = net \cup {a} /\ serving' \subseteq serving /\ UNCHANGED <<known, up, waiting, calls>>
    BY <1>1 DEF EndAnswer
  <2>4. Cardinality(d.drawn) \in Nat /\ Cardinality(d.drawn) <= d.request.num
    BY <2>1, PeersFinite DEF DrawsOK
  <2>5. Cardinality(d.drawn) = d.request.num \/ (Cardinality(d.drawn) < d.request.num /\ d.left = {})
    BY <1>1, <2>1, <2>4 DEF EndAnswer, Drawing
  <2>6. d.drawn \subseteq d.store \ {d.request.to} /\ (d.left = {} => d.drawn = d.store \ {d.request.to})
    BY DEF TypeOK, DrawsOK
  <2> HIDE DEF a
  <2>7. FullAnswer'
    BY <2>2, <2>3, <2>5, <2>6 DEF FullAnswer
  <2> QED
    BY <2>2, <2>3, <2>7 DEF TypeOK, DrawsOK
<1>2. CASE Panic(d)
  BY <1>2 DEF Panic, TypeOK, DrawsOK, FullAnswer
<1> QED
  BY <1>1, <1>2

\* Every step keeps it.
LEMMA InvStep == IInv /\ [Next]_vars => IInv'
<1> SUFFICES ASSUME IInv, [Next]_vars PROVE IInv'
  OBVIOUS
<1>1. CASE UNCHANGED vars
  BY <1>1 DEF IInv, TypeOK, DrawsOK, FullAnswer, vars
<1> QED
  BY <1>1, RequesterInv, StartInv, DrawInv, EndInv DEF Next

-----------------------------------------------------------------------------
\* Stores, requests, handlers and answers are what they should be.
THEOREM TypeCorrect == Spec => []TypeOK
<1>1. IInv => TypeOK
  BY DEF IInv
<1> QED
  BY InvInit, InvStep, <1>1, PTL DEF Spec

\* Whatever peers the node asked has and however the draws fall, its answer
\* has as many others as were asked for, or all it has, and never that node.
THEOREM FullAnswerHolds == Spec => []FullAnswer
<1>1. IInv => FullAnswer
  BY DEF IInv
<1> QED
  BY InvInit, InvStep, <1>1, PTL DEF Spec

\* No answer makes a node learn more peers than it asked for.
THEOREM LearnsHolds == Spec => LearnsWhatItAsked
<1>1. ASSUME IInv, [Next]_vars, NEW r \in waiting, r \notin waiting'
      PROVE  Cardinality(known'[r.from] \ known[r.from]) <= r.num
  <2>1. r \in Request /\ r.from \in Node /\ r.num \in Nat
    BY <1>1, BoundAssumption DEF IInv, TypeOK, Request
  <2>2. CASE UNCHANGED known
    BY <2>1, <2>2, FS_EmptySet
  <2>3. ASSUME NEW m \in net, TakeAnswer(m)
        PROVE  Cardinality(known'[r.from] \ known[r.from]) <= r.num
    <3>1. m.request = r /\ m \in Answer
      BY <1>1, <2>3 DEF TakeAnswer, IInv, TypeOK, Request
    <3>2. PICK used \in Uses(m) : Learn(r.from, used)
      BY <2>3, <3>1 DEF TakeAnswer
    <3>3. m.peers \in SUBSET Node
      BY <3>1 DEF Answer
    <3>4. used \in SUBSET Node /\ Cardinality(used) <= r.num
      <4>1. CASE Cardinality(m.peers) > r.num
        BY <2>1, <3>1, <3>2, <3>3, <4>1 DEF Uses
      <4>2. CASE ~(Cardinality(m.peers) > r.num)
        BY <2>1, <3>1, <3>2, <3>3, <4>2, PeersFinite DEF Uses
      <4> QED
        BY <4>1, <4>2
    <3>5. known'[r.from] \ known[r.from] \subseteq used
      BY <1>1, <2>1, <3>2 DEF Learn, IInv, TypeOK
    <3>6. Cardinality(known'[r.from] \ known[r.from]) <= Cardinality(used)
      BY <3>4, <3>5, PeersFinite, FS_Subset
    <3>7. known'[r.from] \ known[r.from] \in SUBSET Node
      BY <3>4, <3>5
    <3> QED
      BY <2>1, <3>4, <3>6, <3>7, PeersFinite
  \* Only an answer that is taken both ends a call and adds peers.
  <2>4. ASSUME NEW m \in net, StartAnswer(m) PROVE FALSE
    BY <1>1, <2>4 DEF StartAnswer
  <2> QED
    BY <1>1, <2>2, <2>3, <2>4
    DEF Next, vars, UpdatePeer, RequestPeers, ExchangeFails, Lose, DrawPeer, Panic, EndAnswer
<1>2. IInv /\ [Next]_vars =>
        [\A r \in waiting : r \notin waiting' =>
           Cardinality(known'[r.from] \ known[r.from]) <= r.num]_vars
  BY <1>1
<1> QED
  BY InvInit, InvStep, <1>2, PTL DEF Spec, LearnsWhatItAsked

\* Only a request for more peers than a node has besides itself stops it.
THEOREM StopsHolds == Spec => StopsOnlyOverAsked
<1>1. ASSUME IInv, [Next]_vars, NEW n \in up \ up'
      PROVE  \E d \in serving : d.request.to = n /\ d.request.num > Cardinality(d.store \ {n})
  <2>1. PICK d \in serving : Panic(d)
    BY <1>1
    DEF Next, vars, UpdatePeer, RequestPeers, ExchangeFails, TakeAnswer, StartAnswer, Lose, DrawPeer, EndAnswer
  <2>2. d.request.to = n /\ d.left = {n} /\ Cardinality(d.drawn) < d.request.num
    BY <1>1, <2>1 DEF Panic, Panics, Drawing
  <2>3. d.store \ {n} = d.drawn
    BY <1>1, <2>2 DEF IInv, TypeOK, DrawsOK
  <2>4. d.drawn \in SUBSET Node /\ d.request.num \in Nat
    BY <1>1, BoundAssumption DEF IInv, TypeOK, Draw, Request
  <2> QED
    BY <2>2, <2>3, <2>4, PeersFinite
<1>2. IInv /\ [Next]_vars =>
        [\A n \in up \ up' : \E d \in serving :
           d.request.to = n /\ d.request.num > Cardinality(d.store \ {n})]_vars
  BY <1>1
<1> QED
  BY InvInit, InvStep, <1>2, PTL DEF Spec, StopsOnlyOverAsked
=============================================================================
