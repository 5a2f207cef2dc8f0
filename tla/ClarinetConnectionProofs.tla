--------------------- MODULE ClarinetConnectionProofs ---------------------
(***************************************************************************)
(* Theorems about ClarinetConnection, for every set of nodes, every trust  *)
(* relation and every bound.                                               *)
(***************************************************************************)
EXTENDS ClarinetConnection, TLAPS

-----------------------------------------------------------------------------
(* Types.                                                                  *)

\* OtherEnd leads to another endpoint.
LEMMA OtherEndIsEndpoint ==
  \A n \in Node : OtherEnd(n) \in Endpoints /\ OtherEnd(n) # n
BY NodeAssumption DEF Endpoints, OtherEnd

\* What a closure starts with is a task.
LEMMA StartedTask ==
  /\ Idle \in Task
  /\ [Idle EXCEPT !.step = "connecting"] \in Task
  /\ \A L \in SUBSET Node : [Idle EXCEPT !.step = "seeking", !.left = L] \in Task
  /\ \A L \in SUBSET Node, c \in 0 .. MaxCloses :
       [Idle EXCEPT !.step = "closing", !.left = L, !.call = c] \in Task
<1>1. 0 \in 0 .. MaxCloses
  BY BoundAssumption
<1> QED
  BY <1>1 DEF Idle, Task, Step

\* What it goes on to is a task.
LEMMA ContinuedTask ==
  \A t \in Task :
    /\ \A p : [t EXCEPT !.left = t.left \ {p}] \in Task
    /\ \A p \in Node : [t EXCEPT !.step = "asking", !.left = t.left \ {p}, !.peer = p] \in Task
    /\ [t EXCEPT !.step = "seeking", !.peer = NoPeer] \in Task
    /\ [t EXCEPT !.step = "notified"] \in Task
    /\ \A p : [t EXCEPT !.left = t.left \ {p}, !.failed = TRUE] \in Task
BY DEF Task, Step

\* A deadline that passes is at most one fault.
LEMMA DeadlineFault ==
  ASSUME TypeOK, NEW n \in Node, DeadlinePasses(n)
  PROVE  faults' \in 0 .. MaxFaults
BY BoundAssumption DEF DeadlinePasses, Fault, TypeOK

\* What is written to a stream is a message.
LEMMA Messages ==
  /\ [type |-> "connect", from |-> Sender, to |-> Receiver] \in Message
  /\ \A b \in BOOLEAN :
       [type |-> "connectReply", from |-> Receiver, to |-> Sender, accepted |-> b] \in Message
  /\ \A e, p \in Node : [type |-> "witness", from |-> e, to |-> p] \in Message
  /\ \A e, p \in Node, b \in BOOLEAN :
       [type |-> "witnessReply", from |-> p, to |-> e, accepted |-> b] \in Message
  /\ \A e \in Node, f \in Endpoints, p \in Node :
       [type |-> "notify", from |-> e, to |-> f, witness |-> p] \in Message
  /\ \A n, p \in Node, c \in 0 .. MaxCloses :
       [type |-> "close", from |-> n, to |-> p, call |-> c] \in Message
BY DEF Message

\* Every step of a node leaves values of the right type.
LEMMA TypeStep == TypeOK /\ [Next]_vars => TypeOK'
<1> SUFFICES ASSUME TypeOK, [Next]_vars PROVE TypeOK'
  OBVIOUS
<1> USE NodeAssumption, TrustAssumption, BoundAssumption
<1>0. CASE UNCHANGED vars
  BY <1>0 DEF TypeOK, vars
<1>1. CASE Create
  BY <1>1 DEF Create, TypeOK, Endpoints, Status, Pending
<1>2. ASSUME NEW n \in Node, CloseConnection(n) PROVE TypeOK'
  <2>1. CloseTargets(n) \in SUBSET Node
    BY DEF CloseTargets, TypeOK, Endpoints
  <2>2. closes' \in 0 .. MaxCloses /\ closes' = closes + 1
    BY <1>2 DEF CloseConnection, TypeOK
  <2>3. [Idle EXCEPT !.step = "closing", !.left = CloseTargets(n), !.call = closes + 1] \in Task
    BY <2>1, <2>2, StartedTask 
  <2> QED
    BY <1>2, <2>2, <2>3 DEF CloseConnection, TypeOK
<1>3. CASE RequestConnection
  <2>1. [Idle EXCEPT !.step = "connecting"] \in Task
    BY StartedTask
  <2>2. task' \in [Node -> Task]
    BY <1>3, <2>1 DEF RequestConnection, TypeOK
  <2>3. net' \subseteq Message /\ faults' \in 0 .. MaxFaults
    BY <1>3, Messages DEF RequestConnection, Send, SendFails, Fault, TypeOK
  <2> QED
    BY <1>3, <2>2, <2>3 DEF RequestConnection, TypeOK, Endpoints, Pending
<1>4. CASE ConnectTimeout
  BY <1>4, StartedTask, DeadlineFault DEF ConnectTimeout, TypeOK, Endpoints
<1>5. CASE SelectWitness
  <2>1. WitnessCandidates(Receiver) \in SUBSET Node
    BY DEF WitnessCandidates, Endpoints
  <2>2. [Idle EXCEPT !.step = "seeking", !.left = WitnessCandidates(Receiver)] \in Task
    BY <2>1, StartedTask
  <2> QED
    BY <1>5, <2>2 DEF SelectWitness, StartSelection, TypeOK, Pending
<1>6. ASSUME NEW n \in Node, NEW p \in Node, RequestWitness(n, p) PROVE TypeOK'
  <2>0. /\ task[n] \in Task
        /\ [task[n] EXCEPT !.left = task[n].left \ {p}] \in Task
        /\ [task[n] EXCEPT !.step = "asking", !.left = task[n].left \ {p}, !.peer = p] \in Task
    BY ContinuedTask DEF TypeOK
  <2>1. task' \in [Node -> Task]
    BY <1>6, <2>0 DEF RequestWitness, TypeOK
  <2>2. net' \subseteq Message /\ faults' \in 0 .. MaxFaults
    BY <1>6, Messages DEF RequestWitness, Send, SendFails, Fault, TypeOK
  <2> QED
    BY <1>6, <2>1, <2>2 DEF RequestWitness, TypeOK
<1>7. ASSUME NEW n \in Node, NEW p \in Node, RequestClose(n, p) PROVE TypeOK'
  <2>0. /\ task[n] \in Task
        /\ [task[n] EXCEPT !.left = task[n].left \ {p}] \in Task
        /\ [task[n] EXCEPT !.left = task[n].left \ {p}, !.failed = TRUE] \in Task
    BY ContinuedTask DEF TypeOK
  <2>1. task' \in [Node -> Task]
    BY <1>7, <2>0 DEF RequestClose, TypeOK
  <2>2. task[n].call \in 0 .. MaxCloses
    BY DEF TypeOK, Task
  <2>3. net' \subseteq Message /\ faults' \in 0 .. MaxFaults
    BY <1>7, <2>2, Messages DEF RequestClose, Send, SendFails, Fault, TypeOK
  <2> QED
    BY <1>7, <2>1, <2>3 DEF RequestClose, TypeOK
<1>8. ASSUME NEW n \in Node, NoWitness(n) PROVE TypeOK'
  BY <1>8, StartedTask DEF NoWitness, TypeOK, Status, Step
<1>9. ASSUME NEW n \in Node, WitnessTimeout(n) PROVE TypeOK'
  <2>1. task' \in [Node -> Task]
    BY <1>9, ContinuedTask DEF WitnessTimeout, TypeOK
  <2> QED
    BY <1>9, <2>1, DeadlineFault DEF WitnessTimeout, TypeOK
<1>10. ASSUME NEW n \in Node, FinishSelection(n) PROVE TypeOK'
  <2>1. task[n].peer \in Node \cup {NoPeer}
    BY DEF TypeOK, Task
  <2> QED
    BY <1>10, <2>1, StartedTask DEF FinishSelection, TypeOK, Status, Step
<1>11. ASSUME NEW n \in Node, SetWitness(n) PROVE TypeOK'
  <2>1. net' \subseteq Message
    <3>1. selector \in Node /\ net \subseteq Message
      BY DEF TypeOK, Endpoints
    <3>2. [type |-> "witnessReply", from |-> n, to |-> selector, accepted |-> TRUE] \in Message
      BY <3>1, Messages
    <3> QED
      BY <1>11, <3>1, <3>2 DEF SetWitness
  <2> QED
    BY <1>11, <2>1 DEF SetWitness, TypeOK, Pending
<1>12. ASSUME NEW n \in Node, FinishClose(n) PROVE TypeOK'
  BY <1>12, StartedTask DEF FinishClose, TypeOK, Status, Step
<1>13. ASSUME NEW m \in net, HandleConnect(m) PROVE TypeOK'
  <2>1. m \in Message /\ m.from = Sender /\ m.to = Receiver
    BY <1>13 DEF HandleConnect, TypeOK, Message
  <2>2. net' \subseteq Message
    <3>1. \A ok \in BOOLEAN :
            [type |-> "connectReply", from |-> m.to, to |-> m.from, accepted |-> ok] \in Message
      BY <2>1, Messages
    <3>2. net \subseteq Message
      BY DEF TypeOK
    <3> QED
      BY <1>13, <3>1, <3>2 DEF HandleConnect
  <2> QED
    BY <1>13, <2>2 DEF HandleConnect, TypeOK, Status, Pending
<1>14. ASSUME NEW m \in net, HandleConnectReply(m) PROVE TypeOK'
  <2>1. WitnessCandidates(Sender) \in SUBSET Node
    BY DEF WitnessCandidates, Endpoints
  <2>2. [Idle EXCEPT !.step = "seeking", !.left = WitnessCandidates(Sender)] \in Task
    BY <2>1, StartedTask
  <2>3. Idle \in Task
    BY StartedTask
  <2> QED
    BY <1>14, <2>2, <2>3 DEF HandleConnectReply, StartSelection, TypeOK, Status
<1>15. ASSUME NEW m \in net, HandleWitness(m) PROVE TypeOK'
  <2>1. m \in Message /\ m.from \in Node /\ m.to \in Node
    BY <1>15 DEF HandleWitness, TypeOK, Message
  <2>2. net' \subseteq Message
    <3>1. [type |-> "witnessReply", from |-> m.to, to |-> m.from, accepted |-> FALSE] \in Message
      BY <2>1, Messages
    <3> QED
      BY <1>15, <3>1 DEF HandleWitness, TypeOK
  <2> QED
    BY <1>15, <2>2 DEF HandleWitness, TypeOK, Status, Pending
<1>16. ASSUME NEW m \in net, HandleWitnessReply(m) PROVE TypeOK'
  <2>1. m \in Message /\ m.from \in Node /\ m.to \in Node
    BY <1>16 DEF HandleWitnessReply, TypeOK, Message
  <2>2. OtherEnd(m.to) \in Endpoints
    BY <2>1, OtherEndIsEndpoint
  <2>3. [type |-> "notify", from |-> m.to, to |-> OtherEnd(m.to), witness |-> m.from] \in Message
    BY <2>1, <2>2, Messages
  <2>4. net' \subseteq Message
    BY <1>16, <2>3 DEF HandleWitnessReply, TypeOK
  <2>5. task' \in [Node -> Task]
    <3>1. /\ [task[m.to] EXCEPT !.step = "seeking", !.peer = NoPeer] \in Task
          /\ [task[m.to] EXCEPT !.step = "notified"] \in Task
      BY <2>1, ContinuedTask DEF TypeOK
    <3> QED
      BY <1>16, <3>1, StartedTask DEF HandleWitnessReply, TypeOK
  <2>6. status' \in [Node -> Status \cup {"None"}] /\ witness' \in [Node -> Node \cup {NoPeer}]
    BY <1>16, <2>1 DEF HandleWitnessReply, TypeOK, Status
  <2>7. faults' \in 0 .. MaxFaults
    BY <1>16 DEF HandleWitnessReply, TypeOK, Fault
  <2> QED
    BY <1>16, <2>4, <2>5, <2>6, <2>7 DEF HandleWitnessReply, TypeOK
<1>17. ASSUME NEW m \in net, HandleNotification(m) PROVE TypeOK'
  <2>1. m.witness \in Node
    BY <1>17 DEF HandleNotification, TypeOK, Message
  <2> QED
    BY <1>17, <2>1 DEF HandleNotification, TypeOK, Status
<1>18. ASSUME NEW m \in net, HandleClose(m) PROVE TypeOK'
  BY <1>18 DEF HandleClose, TypeOK, Status
<1>19. ASSUME NEW m \in net, DiscardReply(m) PROVE TypeOK'
  BY <1>19 DEF DiscardReply, TypeOK
<1>20. ASSUME NEW m \in net, Lose(m) PROVE TypeOK'
  BY <1>20 DEF Lose, Fault, TypeOK
<1> QED
  BY <1>0, <1>1, <1>2, <1>3, <1>4, <1>5, <1>6, <1>7, <1>8, <1>9, <1>10, <1>11, <1>12,
     <1>13, <1>14, <1>15, <1>16, <1>17, <1>18, <1>19, <1>20
  DEF Next, Application, Run, Handle

\* So do the initial values.
LEMMA TypeInit == Init => TypeOK
<1> SUFFICES ASSUME Init PROVE TypeOK
  OBVIOUS
<1>1. task \in [Node -> Task]
  BY StartedTask DEF Init
<1>2. faults \in 0 .. MaxFaults /\ closes \in 0 .. MaxCloses
  BY BoundAssumption DEF Init
<1> QED
  BY <1>1, <1>2 DEF Init, TypeOK, Pending

\* Every variable keeps to its type, whatever the nodes do.
THEOREM TypeCorrect == Spec => []TypeOK
BY TypeInit, TypeStep, PTL DEF Spec

-----------------------------------------------------------------------------
(* The inductive invariant.                                                *)

\* The steps of setting up a connection that are not the end of it.
Selecting == {"seeking", "asking", "notified"}

\* w is neither endpoint and has saved itself as the witness.
Willing(w) == w \in Node \ Endpoints /\ witness[w] = w

\* The witness that the selecting endpoint has recorded, or is about to.
Proposed(w) ==
  \/ witness[selector] = w
  \/ task[selector].step = "notified" /\ task[selector].peer = w

\* Which goroutines run at which nodes.
Roles ==
  \A n \in Node :
    /\ task[n].step \in Selecting => n = selector
    /\ task[n].step = "connecting" => n = Sender
    /\ pending[n] = "connect" => n = Sender
    /\ pending[n] = "select" => n = Receiver /\ selector = Receiver
    /\ pending[n] = "setWitness" => n \notin Endpoints
    /\ n \notin Endpoints => witness[n] \in {NoPeer, n}

\* Nothing runs without an entry, a goroutine that sets up the connection is
\* either waiting for the lock or holding it, and what is being closed is not
\* Closed.
OneGoroutine ==
  \A n \in Node :
    /\ status[n] = "None" => task[n].step = "idle" /\ pending[n] = "none"
    /\ pending[n] \in {"connect", "select"} =>
         task[n].step \notin {"connecting"} \cup Selecting
    /\ pending[n] = "connect" => status[n] # "AwaitingWitness"
    /\ task[n].step = "closing" => status[n] \notin {"None", "Closed"}

\* An endpoint has recorded no witness before the end of its part.
Unset ==
  \A e \in Endpoints :
    \/ status[e] \in {"None", "AwaitingWitness"}
    \/ pending[e] \in {"connect", "select"}
    \/ task[e].step \in {"connecting"} \cup Selecting
    => witness[e] = NoPeer

\* Every witness that is promised, announced or recorded is a willing one.
Vouched ==
  /\ \A m \in net : m.type = "witnessReply" /\ m.accepted => Willing(m.from)
  /\ \A m \in net : m.type = "notify" => Willing(m.witness)
  /\ task[selector].step = "notified" => Willing(task[selector].peer)
  /\ \A e \in Endpoints : witness[e] # NoPeer => Willing(witness[e])

\* Before the selecting endpoint has found a witness, the other one has not
\* heard of any.
Silent ==
  \/ status[selector] = "None"
  \/ pending[selector] \in {"connect", "select"}
  \/ task[selector].step \in {"connecting", "seeking", "asking"}
  => /\ witness[OtherEnd(selector)] = NoPeer
     /\ \A m \in net : m.type # "notify"

\* From then on it hears of that witness only.
Followed ==
  /\ \A m \in net : m.type = "notify" =>
       m.to = OtherEnd(selector) /\ Proposed(m.witness)
  /\ witness[OtherEnd(selector)] # NoPeer => Proposed(witness[OtherEnd(selector)])

\* Who can be talking to whom, and that Open comes with a witness.
Partners ==
  /\ \A m \in net : m.type = "connect" => status[Sender] # "None"
  /\ status[Receiver] # "None" => status[Sender] # "None"
  /\ \A m \in net : m.type = "connectReply" /\ m.accepted => status[Receiver] # "None"
  /\ task[Sender].step \in Selecting => status[Receiver] # "None"
  /\ witness[Sender] # NoPeer => status[Receiver] # "None"
  /\ \A e \in Endpoints : status[e] = "Open" => witness[e] # NoPeer

IInv ==
  TypeOK /\ Roles /\ OneGoroutine /\ Unset /\ Vouched /\ Silent /\ Followed /\ Partners

-----------------------------------------------------------------------------
(* What the longer actions do, without their records.                      *)

\* A close request changes no step, no candidate and no connection.
LEMMA RequestCloseEffect ==
  ASSUME TypeOK, NEW n \in Node, NEW p \in Node, RequestClose(n, p)
  PROVE  /\ \A k \in Node : task'[k].step = task[k].step /\ task'[k].peer = task[k].peer
         /\ \A m \in net' : m \in net \/ m.type = "close"
         /\ UNCHANGED <<status, witness, pending, selector>>
<1>1. CASE task' = [task EXCEPT ![n].left = task[n].left \ {p}]
  BY <1>1 DEF RequestClose, Send, SendFails, TypeOK, Task
<1>2. CASE task' = [task EXCEPT ![n] = [task[n] EXCEPT !.left = task[n].left \ {p}, !.failed = TRUE]]
  BY <1>2 DEF RequestClose, Send, SendFails, TypeOK, Task
<1> QED
  BY <1>1, <1>2 DEF RequestClose

\* A witness request leads from seeking to asking, or stays at seeking.
LEMMA RequestWitnessEffect ==
  ASSUME TypeOK, NEW n \in Node, NEW p \in Node, RequestWitness(n, p)
  PROVE  /\ task[n].step = "seeking"
         /\ task'[n].step \in {"seeking", "asking"}
         /\ \A k \in Node \ {n} : task'[k] = task[k]
         /\ \A m \in net' : m \in net \/ m.type = "witness"
         /\ UNCHANGED <<status, witness, pending, selector>>
<1>1. CASE task' = [task EXCEPT ![n] =
                      [task[n] EXCEPT !.step = "asking", !.left = task[n].left \ {p}, !.peer = p]]
  <2>1. task'[n].step = "asking" /\ \A k \in Node \ {n} : task'[k] = task[k]
    BY <1>1 DEF TypeOK, Task
  <2>2. net' = net \/ net' = net \cup {[type |-> "witness", from |-> n, to |-> p]}
    BY Zenon DEF RequestWitness, Send, SendFails
  <2>3. task[n].step = "seeking" /\ UNCHANGED <<status, witness, pending, selector>>
    BY Zenon DEF RequestWitness
  <2> QED
    BY <2>1, <2>2, <2>3
<1>2. CASE task' = [task EXCEPT ![n].left = task[n].left \ {p}]
  BY <1>2 DEF RequestWitness, Send, SendFails, TypeOK, Task
<1> QED
  BY <1>1, <1>2 DEF RequestWitness

\* An answer of the receiver ends the wait for it, at the sender.
LEMMA HandleConnectReplyEffect ==
  ASSUME TypeOK, NEW m \in net, HandleConnectReply(m)
  PROVE  /\ task[Sender].step = "connecting"
         /\ \/ task'[Sender].step = "idle" /\ status'[Sender] \in {status[Sender], "AwaitingWitness"}
            \/ /\ task'[Sender].step = "seeking" /\ status'[Sender] = status[Sender]
               /\ m.type = "connectReply" /\ m.accepted /\ selector = Sender
         /\ \A k \in Node \ {Sender} : task'[k] = task[k] /\ status'[k] = status[k]
         /\ net' \subseteq net
         /\ UNCHANGED <<witness, pending, selector>>
<1> USE NodeAssumption DEF TypeOK, Endpoints
<1>1. m.to = Sender
  BY DEF HandleConnectReply, Message
<1>2. task[Sender].step = "connecting"
  BY <1>1 DEF HandleConnectReply, AwaitsReply
<1>3. CASE ~m.accepted
  BY <1>2, <1>3 DEF HandleConnectReply, Idle
<1>4. CASE m.accepted /\ selector = Receiver
  BY <1>2, <1>4 DEF HandleConnectReply, Idle
<1>5. CASE m.accepted /\ selector = Sender
  <2>1. task' = [task EXCEPT ![Sender] =
                   [Idle EXCEPT !.step = "seeking", !.left = WitnessCandidates(Sender)]]
    BY <1>5 DEF HandleConnectReply, StartSelection
  <2>2. task'[Sender].step = "seeking" /\ \A k \in Node \ {Sender} : task'[k] = task[k]
    BY <2>1 DEF Idle
  <2> QED
    BY <1>2, <1>5, <2>2 DEF HandleConnectReply
<1> QED
  BY <1>3, <1>4, <1>5 DEF HandleConnectReply

\* An answer of the candidate ends the wait for it, at the node that asked:
\* it is asked no more, or promises to witness and is announced or recorded.
LEMMA HandleWitnessReplyEffect ==
  ASSUME TypeOK, NEW m \in net, HandleWitnessReply(m)
  PROVE  LET n == m.to
             w == m.from
         IN  /\ n \in Node /\ w \in Node
             /\ task[n].step = "asking"
             /\ \/ /\ task'[n].step = "seeking"
                   /\ net' \subseteq net
                   /\ UNCHANGED <<status, witness>>
                \/ /\ m.type = "witnessReply" /\ m.accepted
                   /\ task'[n].step = "notified" /\ task'[n].peer = w
                   /\ \A k \in net' : \/ k \in net
                                      \/ k.type = "notify" /\ k.to = OtherEnd(n) /\ k.witness = w
                   /\ UNCHANGED <<status, witness>>
                \/ /\ m.type = "witnessReply" /\ m.accepted
                   /\ task'[n].step = "idle"
                   /\ net' \subseteq net
                   /\ status'[n] = "NotifyingOfWitness" /\ witness'[n] = w
             /\ \A k \in Node \ {n} :
                  task'[k] = task[k] /\ status'[k] = status[k] /\ witness'[k] = witness[k]
             /\ UNCHANGED <<pending, selector>>
<1>1. m.to \in Node /\ m.from \in Node
  BY DEF HandleWitnessReply, TypeOK, Message
<1>2. task[m.to].step = "asking" /\ task[m.to].peer = m.from
  BY DEF HandleWitnessReply, AwaitsReply
<1>3. CASE /\ net' = net \ {m}
           /\ task' = [task EXCEPT ![m.to] = [task[m.to] EXCEPT !.step = "seeking", !.peer = NoPeer]]
           /\ UNCHANGED <<status, witness>>
  <2>1. task'[m.to].step = "seeking" /\ \A k \in Node \ {m.to} : task'[k] = task[k]
    BY <1>1, <1>3 DEF TypeOK, Task
  <2>2. UNCHANGED <<pending, selector>>
    BY DEF HandleWitnessReply
  <2> QED
    BY <1>1, <1>2, <1>3, <2>1, <2>2
<1>4. CASE /\ m.accepted
           /\ net' = (net \ {m}) \cup
                {[type |-> "notify", from |-> m.to, to |-> OtherEnd(m.to), witness |-> m.from]}
           /\ task' = [task EXCEPT ![m.to].step = "notified"]
           /\ UNCHANGED <<status, witness>>
  <2>1. /\ task'[m.to].step = "notified" /\ task'[m.to].peer = m.from
        /\ \A k \in Node \ {m.to} : task'[k] = task[k]
    BY <1>1, <1>2, <1>4 DEF TypeOK, Task
  <2>2. m.type = "witnessReply" /\ UNCHANGED <<pending, selector>>
    BY DEF HandleWitnessReply
  <2> QED
    BY <1>1, <1>2, <1>4, <2>1, <2>2
<1>5. CASE /\ m.accepted
           /\ net' = net \ {m}
           /\ status' = [status EXCEPT ![m.to] = "NotifyingOfWitness"]
           /\ witness' = [witness EXCEPT ![m.to] = m.from]
           /\ task' = [task EXCEPT ![m.to] = Idle]
  <2>1. m.type = "witnessReply" /\ UNCHANGED <<pending, selector>>
    BY DEF HandleWitnessReply
  <2> QED
    BY <1>1, <1>2, <1>5, <2>1 DEF Idle, TypeOK
<1> QED
  BY <1>3, <1>4, <1>5 DEF HandleWitnessReply

-----------------------------------------------------------------------------
(* The invariant is inductive.                                             *)

\* It holds before anything has happened.
LEMMA InvInit == Init => IInv
<1> SUFFICES ASSUME Init PROVE IInv
  OBVIOUS
<1>1. TypeOK
  BY TypeInit
<1>2. \A n \in Node : OtherEnd(n) \in Node
  BY OtherEndIsEndpoint, NodeAssumption
<1> QED
  BY <1>1, <1>2, NodeAssumption
  DEF Init, IInv, Roles, OneGoroutine, Unset, Vouched, Silent, Followed, Partners,
      Selecting, Idle, Endpoints

\* Every action keeps it.
LEMMA InvStep == IInv /\ [Next]_vars => IInv'
<1> SUFFICES ASSUME IInv, [Next]_vars PROVE IInv'
  OBVIOUS
<1> DEFINE Protocol ==
      Roles /\ OneGoroutine /\ Unset /\ Vouched /\ Silent /\ Followed /\ Partners
<1>a. TypeOK /\ TypeOK' /\ Protocol
  BY TypeStep DEF IInv
<1>b. Protocol' => IInv'
  BY <1>a DEF IInv
<1> USE NodeAssumption
    DEF TypeOK, Pending, Endpoints, OtherEnd, Selecting, Willing, Proposed,
        Roles, OneGoroutine, Unset, Vouched, Silent, Followed, Partners
<1>0. CASE UNCHANGED vars
  BY <1>a, <1>b, <1>0 DEF vars
<1>1. ASSUME Create PROVE Protocol'
  BY <1>a, <1>1 DEF Create
<1>2. ASSUME NEW n \in Node, CloseConnection(n) PROVE Protocol'
  BY <1>a, <1>2 DEF CloseConnection, Idle, Free
<1>3. ASSUME RequestConnection PROVE Protocol'
  BY <1>a, <1>3 DEF RequestConnection, Idle, Send, SendFails, Free
<1>4. ASSUME ConnectTimeout PROVE Protocol'
  BY <1>a, <1>4 DEF ConnectTimeout, Idle
<1>5. ASSUME SelectWitness PROVE Protocol'
  BY <1>a, <1>5 DEF SelectWitness, StartSelection, Idle, Free
<1>6. ASSUME NEW n \in Node, NEW p \in Node, RequestWitness(n, p) PROVE Protocol'
  BY <1>a, <1>6, RequestWitnessEffect
<1>7. ASSUME NEW n \in Node, NEW p \in Node, RequestClose(n, p) PROVE Protocol'
  <2>1. /\ \A k \in Node : task'[k].step = task[k].step /\ task'[k].peer = task[k].peer
        /\ \A m \in net' : m \in net \/ m.type = "close"
        /\ UNCHANGED <<status, witness, pending, selector>>
    BY <1>a, <1>7, RequestCloseEffect
  <2>2. Roles' /\ OneGoroutine' /\ Unset'
    BY <1>a, <2>1
  <2>3. Vouched' /\ Silent'
    BY <1>a, <2>1
  <2>4. Followed' /\ Partners'
    BY <1>a, <2>1
  <2> QED
    BY <2>2, <2>3, <2>4
<1>8. ASSUME NEW n \in Node, NoWitness(n) PROVE Protocol'
  BY <1>a, <1>8 DEF NoWitness, Idle
<1>9. ASSUME NEW n \in Node, WitnessTimeout(n) PROVE Protocol'
  BY <1>a, <1>9 DEF WitnessTimeout, Task
<1>10. ASSUME NEW n \in Node, FinishSelection(n) PROVE Protocol'
  <2>1. /\ n = selector /\ task[n].step = "notified" /\ task[n].peer \in Node
        /\ status' = [status EXCEPT ![n] = "Open"] /\ witness' = [witness EXCEPT ![n] = task[n].peer]
        /\ task'[n].step = "idle" /\ \A k \in Node \ {n} : task'[k] = task[k]
        /\ UNCHANGED <<pending, selector, net>>
    BY <1>a, <1>10 DEF FinishSelection, Idle
  <2>2. Roles' /\ OneGoroutine' /\ Unset'
    BY <1>a, <2>1
  <2>3. Vouched' /\ Silent'
    BY <1>a, <2>1
  <2>4. Followed' /\ Partners'
    BY <1>a, <2>1
  <2> QED
    BY <2>2, <2>3, <2>4
<1>11. ASSUME NEW n \in Node, SetWitness(n) PROVE Protocol'
  BY <1>a, <1>11 DEF SetWitness, Free
<1>12. ASSUME NEW n \in Node, FinishClose(n) PROVE Protocol'
  BY <1>a, <1>12 DEF FinishClose, Idle
<1>13. ASSUME NEW m \in net, HandleConnect(m) PROVE Protocol'
  BY <1>a, <1>13 DEF HandleConnect, CanAccept, Message
<1>14. ASSUME NEW m \in net, HandleConnectReply(m) PROVE Protocol'
  BY <1>a, <1>14, HandleConnectReplyEffect
<1>15. ASSUME NEW m \in net, HandleWitness(m) PROVE Protocol'
  BY <1>a, <1>15 DEF HandleWitness, CanAccept, Message
<1>16. ASSUME NEW m \in net, HandleWitnessReply(m) PROVE Protocol'
  BY <1>a, <1>16, HandleWitnessReplyEffect
<1>17. ASSUME NEW m \in net, HandleNotification(m) PROVE Protocol'
  BY <1>a, <1>17 DEF HandleNotification, TakesNotification, Free, Message
<1>18. ASSUME NEW m \in net, HandleClose(m) PROVE Protocol'
  BY <1>a, <1>18 DEF HandleClose, Free
<1>19. ASSUME NEW m \in net, DiscardReply(m) PROVE Protocol'
  BY <1>a, <1>19 DEF DiscardReply
<1>20. ASSUME NEW m \in net, Lose(m) PROVE Protocol'
  BY <1>a, <1>20 DEF Lose
<1> HIDE DEF Protocol
<1> QED
  BY <1>b, <1>0, <1>1, <1>2, <1>3, <1>4, <1>5, <1>6, <1>7, <1>8, <1>9, <1>10,
     <1>11, <1>12, <1>13, <1>14, <1>15, <1>16, <1>17, <1>18, <1>19, <1>20
  DEF Next, Application, Run, Handle

\* The inductive invariant holds in every reachable state: whatever the order of
\* handlers, closures and lost messages, each acceptance and each recorded witness
\* is backed by a node that has saved itself as witness.
THEOREM InvariantHolds == Spec => []IInv
BY InvInit, InvStep, PTL DEF Spec

-----------------------------------------------------------------------------
(* The properties.                                                         *)

\* An endpoint that is Open has a witness that has agreed, and a partner that
\* knows of the connection, in every reachable state.
THEOREM OpenHolds == Spec => []OpenIsEstablished
<1>1. IInv => OpenIsEstablished
  <2> SUFFICES ASSUME IInv, NEW e \in Endpoints, status[e] = "Open"
               PROVE  /\ witness[e] \in Node \ Endpoints
                      /\ witness[witness[e]] = witness[e]
                      /\ status[OtherEnd(e)] # "None"
    BY DEF OpenIsEstablished
  <2>1. witness[e] # NoPeer /\ Willing(witness[e])
    BY DEF IInv, Partners, Vouched
  <2>2. status[Receiver] # "None" /\ status[Sender] # "None"
    BY <2>1, NodeAssumption DEF IInv, Partners, Endpoints
  <2> QED
    BY <2>1, <2>2 DEF Willing, OtherEnd
<1> QED
  BY <1>1, InvariantHolds, PTL

\* Closed is final for a node past its part in setting up, at every step.
THEOREM ClosedFinalHolds == Spec => ClosedIsFinal
<1>1. IInv /\ [Next]_vars =>
        [\A n \in Node :
           (status[n] = "Closed" /\ pending[n] \notin {"connect", "select"}
                                 /\ task[n].step \in {"idle", "closing"})
             => status'[n] = "Closed"]_vars
  <2> SUFFICES ASSUME IInv, [Next]_vars, NEW k \in Node, status[k] = "Closed",
                      pending[k] \notin {"connect", "select"},
                      task[k].step \in {"idle", "closing"}
               PROVE  status'[k] = "Closed"
    OBVIOUS
  <2>a. TypeOK /\ OneGoroutine /\ task[k].step = "idle"
    BY DEF IInv, OneGoroutine
  <2> USE NodeAssumption, <2>a DEF TypeOK, Endpoints
  <2>0. CASE UNCHANGED vars
    BY <2>0 DEF vars
  <2>1. CASE Create
    BY <2>1 DEF Create
  <2>2. ASSUME NEW n \in Node, CloseConnection(n) PROVE status'[k] = "Closed"
    BY <2>2 DEF CloseConnection
  <2>3. CASE RequestConnection \/ ConnectTimeout \/ SelectWitness
    BY <2>3 DEF RequestConnection, ConnectTimeout, SelectWitness
  <2>4. ASSUME NEW n \in Node, NEW p \in Node, RequestWitness(n, p) \/ RequestClose(n, p)
        PROVE  status'[k] = "Closed"
    BY <2>4 DEF RequestWitness, RequestClose
  <2>5. ASSUME NEW n \in Node,
               NoWitness(n) \/ WitnessTimeout(n) \/ FinishSelection(n) \/ SetWitness(n)
                 \/ FinishClose(n)
        PROVE  status'[k] = "Closed"
    BY <2>5 DEF NoWitness, WitnessTimeout, FinishSelection, SetWitness, FinishClose
  <2>6. ASSUME NEW m \in net, HandleConnect(m) \/ HandleWitness(m) PROVE status'[k] = "Closed"
    BY <2>6 DEF HandleConnect, HandleWitness, CanAccept
  <2>7. ASSUME NEW m \in net, HandleConnectReply(m) PROVE status'[k] = "Closed"
    BY <2>7, HandleConnectReplyEffect
  <2>8. ASSUME NEW m \in net, HandleWitnessReply(m) PROVE status'[k] = "Closed"
    BY <2>8, HandleWitnessReplyEffect
  <2>9. ASSUME NEW m \in net, HandleNotification(m) \/ HandleClose(m)
        PROVE  status'[k] = "Closed"
    BY <2>9 DEF HandleNotification, TakesNotification, HandleClose
  <2>10. ASSUME NEW m \in net, DiscardReply(m) \/ Lose(m) PROVE status'[k] = "Closed"
    BY <2>10 DEF DiscardReply, Lose
  <2> QED
    BY <2>0, <2>1, <2>2, <2>3, <2>4, <2>5, <2>6, <2>7, <2>8, <2>9, <2>10
    DEF Next, Application, Run, Handle
<1> QED
  BY <1>1, InvariantHolds, PTL DEF Spec, ClosedIsFinal

\* Nothing changes the record under an Update closure, at every step.
THEOREM IsolationHolds == Spec => UpdateIsolated
<1>1. IInv /\ [Next]_vars =>
        [\A n \in Node :
           (task[n].step # "idle" /\ task'[n].step # "idle")
             => status'[n] = status[n] /\ witness'[n] = witness[n]]_vars
  <2> SUFFICES ASSUME IInv, [Next]_vars, NEW k \in Node,
                      task[k].step # "idle", task'[k].step # "idle"
               PROVE  status'[k] = status[k] /\ witness'[k] = witness[k]
    OBVIOUS
  <2> DEFINE Kept == status'[k] = status[k] /\ witness'[k] = witness[k]
  <2>a. TypeOK /\ status[k] # "None"
    BY DEF IInv, OneGoroutine
  <2> USE NodeAssumption, <2>a DEF TypeOK, Endpoints
  <2>0. CASE UNCHANGED vars
    BY <2>0 DEF vars
  <2>1. CASE Create
    BY <2>1 DEF Create
  <2>2. ASSUME NEW n \in Node, CloseConnection(n) PROVE Kept
    BY <2>2 DEF CloseConnection
  <2>3. CASE RequestConnection \/ ConnectTimeout \/ SelectWitness
    BY <2>3 DEF RequestConnection, ConnectTimeout, SelectWitness
  <2>4. ASSUME NEW n \in Node, NEW p \in Node, RequestWitness(n, p) \/ RequestClose(n, p)
        PROVE  Kept
    BY <2>4 DEF RequestWitness, RequestClose
  <2>5. ASSUME NEW n \in Node, NoWitness(n) \/ FinishSelection(n) \/ FinishClose(n) PROVE Kept
    BY <2>5 DEF NoWitness, FinishSelection, FinishClose, Idle
  <2>6. ASSUME NEW n \in Node, WitnessTimeout(n) \/ SetWitness(n) PROVE Kept
    BY <2>6 DEF WitnessTimeout, SetWitness, Free
  <2>7. ASSUME NEW m \in net, HandleConnect(m) \/ HandleWitness(m) PROVE Kept
    BY <2>7 DEF HandleConnect, HandleWitness, CanAccept
  <2>8. ASSUME NEW m \in net, HandleConnectReply(m) PROVE Kept
    BY <2>8, HandleConnectReplyEffect
  <2>9. ASSUME NEW m \in net, HandleWitnessReply(m) PROVE Kept
    BY <2>9, HandleWitnessReplyEffect
  <2>10. ASSUME NEW m \in net, HandleNotification(m) \/ HandleClose(m) PROVE Kept
    BY <2>10 DEF HandleNotification, HandleClose, Free
  <2>11. ASSUME NEW m \in net, DiscardReply(m) \/ Lose(m) PROVE Kept
    BY <2>11 DEF DiscardReply, Lose
  <2> QED
    BY <2>0, <2>1, <2>2, <2>3, <2>4, <2>5, <2>6, <2>7, <2>8, <2>9, <2>10, <2>11
    DEF Next, Application, Run, Handle
<1> QED
  BY <1>1, InvariantHolds, PTL DEF Spec, UpdateIsolated

-----------------------------------------------------------------------------
(* The endpoints agree on their witness.                                   *)

\* An endpoint that records a willing witness, the first it records and no
\* other than the one recorded at the other end, takes the abstract step.
LEMMA RecordStep ==
  ASSUME TypeOK, NEW e \in Endpoints, NEW w, Willing(w),
         witness[e] = NoPeer, witness[OtherEnd(e)] \in {NoPeer, w},
         witness' = [witness EXCEPT ![e] = w]
  PROVE  WA!Record(e, w)
BY NodeAssumption DEF WA!Record, WA!Endpoints, TypeOK, Endpoints, OtherEnd, Willing

\* A node that saves itself as the witness takes the abstract step, or did
\* so before.
LEMMA AgreeStep ==
  ASSUME TypeOK, NEW w \in Node \ Endpoints, witness' = [witness EXCEPT ![w] = w]
  PROVE  WA!Agree(w) \/ UNCHANGED WA!agreementVars
<1>1. CASE witness[w] = w
  BY <1>1, NodeAssumption DEF WA!agreementVars, TypeOK, Endpoints
<1>2. CASE witness[w] # w
  BY <1>2, NodeAssumption DEF WA!Agree, WA!Endpoints, TypeOK, Endpoints
<1> QED
  BY <1>1, <1>2

\* Every step of the nodes is a step of WitnessAgreement, or none.
LEMMA AgreementStep ==
  IInv /\ [Next]_vars => [WA!AgreementNext]_(WA!agreementVars)
<1> SUFFICES ASSUME IInv, [Next]_vars
             PROVE  WA!AgreementNext \/ UNCHANGED WA!agreementVars
  OBVIOUS
<1> DEFINE Abstract == WA!AgreementNext \/ UNCHANGED WA!agreementVars
<1>a. TypeOK /\ Roles /\ OneGoroutine /\ Unset /\ Vouched /\ Silent /\ Followed
  BY DEF IInv
<1>b. UNCHANGED witness => Abstract
  BY DEF WA!agreementVars
<1>c. \A e \in Endpoints, w \in Node : WA!Record(e, w) => Abstract
  BY DEF WA!AgreementNext, WA!Endpoints, Endpoints
<1>d. \A w \in Node : WA!Agree(w) => Abstract
  BY DEF WA!AgreementNext
<1> HIDE DEF Abstract
<1>1. ASSUME Create \/ RequestConnection \/ ConnectTimeout \/ SelectWitness PROVE Abstract
  BY <1>1, <1>b DEF Create, RequestConnection, ConnectTimeout, SelectWitness
<1>2. ASSUME NEW n \in Node, CloseConnection(n) \/ FinishClose(n) PROVE Abstract
  BY <1>2, <1>b DEF CloseConnection, FinishClose
<1>3. ASSUME NEW n \in Node, NEW p \in Node, RequestWitness(n, p) \/ RequestClose(n, p)
      PROVE  Abstract
  BY <1>3, <1>b DEF RequestWitness, RequestClose
<1>4. ASSUME NEW n \in Node, NoWitness(n) \/ WitnessTimeout(n) PROVE Abstract
  BY <1>4, <1>b DEF NoWitness, WitnessTimeout
<1>5. ASSUME NEW n \in Node, FinishSelection(n) PROVE Abstract
  <2>1. n = selector /\ n \in Endpoints
    BY <1>5, <1>a DEF FinishSelection, Roles, Selecting, TypeOK
  <2>2. PICK w : w = task[n].peer
    OBVIOUS
  <2>3. Willing(w)
    BY <1>5, <1>a, <2>1, <2>2 DEF FinishSelection, Vouched
  <2>4. witness[n] = NoPeer
    BY <1>5, <1>a, <2>1 DEF FinishSelection, Unset, Selecting
  <2>5. witness[OtherEnd(n)] \in {NoPeer, w}
    BY <1>a, <2>1, <2>2, <2>4, NodeAssumption DEF Followed, Proposed
  <2>6. witness' = [witness EXCEPT ![n] = w]
    BY <1>5, <2>2 DEF FinishSelection
  <2>7. WA!Record(n, w)
    BY <1>a, <2>1, <2>3, <2>4, <2>5, <2>6, RecordStep
  <2> QED
    BY <1>c, <2>1, <2>3, <2>7 DEF Willing
<1>6. ASSUME NEW n \in Node, SetWitness(n) PROVE Abstract
  <2>1. n \in Node \ Endpoints
    BY <1>6, <1>a DEF SetWitness, Roles
  <2>2. witness' = [witness EXCEPT ![n] = n]
    BY <1>6 DEF SetWitness
  <2>3. WA!Agree(n) \/ UNCHANGED WA!agreementVars
    BY <1>a, <2>1, <2>2, AgreeStep
  <2> QED
    BY <1>d, <2>3 DEF Abstract
<1>7. ASSUME NEW m \in net, HandleConnect(m) \/ HandleConnectReply(m) \/ HandleWitness(m)
                              \/ HandleClose(m) \/ DiscardReply(m) \/ Lose(m)
      PROVE  Abstract
  BY <1>7, <1>b
  DEF HandleConnect, HandleConnectReply, HandleWitness, HandleClose, DiscardReply, Lose
<1>8. ASSUME NEW m \in net, HandleWitnessReply(m) PROVE Abstract
  <2>1. CASE UNCHANGED witness
    BY <1>b, <2>1
  <2>2. CASE ~ UNCHANGED witness
    <3>1. /\ m.type = "witnessReply" /\ m.accepted
          /\ witness' = [witness EXCEPT ![m.to] = m.from]
      BY <1>8, <2>2 DEF HandleWitnessReply
    <3>2. m.to \in Node /\ task[m.to].step = "asking"
      BY <1>8, <1>a, HandleWitnessReplyEffect
    <3>3. m.to = selector /\ m.to \in Endpoints
      BY <1>a, <3>2 DEF Roles, Selecting, TypeOK
    <3>4. Willing(m.from)
      BY <1>a, <3>1 DEF Vouched
    <3>5. witness[m.to] = NoPeer /\ witness[OtherEnd(m.to)] = NoPeer
      BY <1>a, <3>2, <3>3 DEF Unset, Silent, Selecting
    <3>6. WA!Record(m.to, m.from)
      BY <1>a, <3>1, <3>3, <3>4, <3>5, RecordStep
    <3> QED
      BY <1>c, <3>3, <3>4, <3>6 DEF Willing
  <2> QED
    BY <2>1, <2>2
<1>9. ASSUME NEW m \in net, HandleNotification(m) PROVE Abstract
  <2>1. CASE UNCHANGED witness
    BY <1>b, <2>1
  <2>2. CASE ~ UNCHANGED witness
    <3>1. /\ m.type = "notify" /\ TakesNotification(m)
          /\ witness' = [witness EXCEPT ![m.to] = m.witness]
      BY <1>9, <2>2 DEF HandleNotification
    <3>2. m.to = OtherEnd(selector) /\ Proposed(m.witness)
      BY <1>a, <3>1 DEF Followed
    <3>3. m.to \in Endpoints /\ OtherEnd(m.to) = selector
      BY <1>a, <3>2, NodeAssumption DEF OtherEnd, TypeOK, Endpoints
    <3>4. Willing(m.witness)
      BY <1>a, <3>1 DEF Vouched
    <3>5. witness[m.to] = NoPeer
      BY <1>a, <3>1, <3>3 DEF Unset, TakesNotification
    <3>6. witness[selector] \in {NoPeer, m.witness}
      BY <1>a, <3>2 DEF Proposed, Unset, Selecting, TypeOK
    <3>7. WA!Record(m.to, m.witness)
      BY <1>a, <3>1, <3>3, <3>4, <3>5, <3>6, RecordStep
    <3> QED
      BY <1>c, <3>3, <3>4, <3>7 DEF Willing
  <2> QED
    BY <2>1, <2>2
<1>10. ASSUME UNCHANGED vars PROVE Abstract
  <2>1. UNCHANGED witness
    BY <1>10 DEF vars
  <2> QED
    BY <1>b, <2>1
<1>11. Abstract
  <2>1. CASE Application
    BY <1>1, <1>2, <2>1 DEF Application
  <2>2. ASSUME NEW n \in Node, Run(n) PROVE Abstract
    BY <1>1, <1>2, <1>3, <1>4, <1>5, <1>6, <2>2 DEF Run
  <2>3. ASSUME NEW m \in net, Handle(m) \/ Lose(m) PROVE Abstract
    BY <1>7, <1>8, <1>9, <2>3 DEF Handle
  <2> QED
    BY <1>10, <2>1, <2>2, <2>3 DEF Next
<1> QED
  BY <1>11 DEF Abstract

\* The nodes implement WitnessAgreement: the endpoints never record different
\* witnesses, replace one, or record one that has not agreed.
THEOREM AgreementImplemented == Spec => ImplementsAgreement
<1>1. Init => WA!AgreementInit
  BY NodeAssumption DEF Init, WA!AgreementInit, WA!Endpoints, Endpoints
<1> QED
  BY <1>1, AgreementStep, InvariantHolds, PTL
  DEF Spec, ImplementsAgreement, WA!AgreementSpec

=============================================================================
