----------------------- MODULE ConnectionFaultProofs -----------------------
(***************************************************************************)
(* Theorems about what it takes a fault for in ClarinetConnection: a       *)
(* second node that takes itself for the witness, an endpoint that is Open *)
(* alone, and a witness that is not told of a close.                       *)
(***************************************************************************)
EXTENDS ClarinetConnectionProofs

-----------------------------------------------------------------------------
(* One candidate after the other.                                          *)

\* The nodes that take themselves for the witness, or are about to.
Engaged == {w \in Node \ Endpoints : status[w] # "None"}

\* Those whose handler is between Accept and Update.
Accepting == {w \in Node : pending[w] = "setWitness"}

\* What is said about becoming the witness.
Talk == {m \in net : m.type \in {"witness", "witnessReply"}}

\* The selection is yet to begin.
Ahead ==
  \/ status[selector] = "None"
  \/ pending[selector] \in {"connect", "select"}
  \/ task[selector].step = "connecting"

Question(p) == [type |-> "witness", from |-> selector, to |-> p]

Reply(p, ok) == [type |-> "witnessReply", from |-> p, to |-> selector, accepted |-> ok]

\* A candidate that is waited for is where its answer is: it has not got the
\* question yet, is accepting, or has answered.
Waited(p) ==
  \/ Engaged = {} /\ Accepting = {} /\ Talk = {Question(p)}
  \/ Engaged = {} /\ Accepting = {} /\ Talk = {Reply(p, FALSE)}
  \/ Engaged = {p} /\ Accepting = {p} /\ Talk = {}
  \/ Engaged = {p} /\ Accepting = {} /\ Talk = {Reply(p, TRUE)}

\* Without faults the candidates that have not refused are one at most, and
\* nothing is said but to and by it.
OneAsked ==
  /\ Ahead \/ task[selector].step = "seeking" => Engaged = {}
  /\ task[selector].step = "asking" => Waited(task[selector].peer)
  /\ task[selector].step # "asking" => Accepting = {} /\ Talk = {}
  /\ \A v, w \in Engaged : v = w

\* Candidates are no endpoints.
Candidates ==
  \A n \in Node :
    /\ task[n].step = "seeking" => task[n].left \cap Endpoints = {}
    /\ task[n].step = "asking" => task[n].left \cap Endpoints = {} /\ task[n].peer \in Node \ Endpoints

FInv == IInv /\ Candidates /\ (faults = 0 => OneAsked)

-----------------------------------------------------------------------------
(* What has been told.                                                     *)

\* What is said about the connection being set up, and about its witness.
Setup == {m \in net : m.type \in {"connect", "connectReply"}}
Notices == {m \in net : m.type = "notify"}

ConnectReply(ok) ==
  [type |-> "connectReply", from |-> Receiver, to |-> Sender, accepted |-> ok]

\* The endpoint that does not select takes a notification, or will do so once
\* it has read the acceptance that is there for it.
Ready ==
  LET o == OtherEnd(selector)
  IN  \/ status[o] = "AwaitingWitness"
      \/ o = Sender /\ task[Sender].step = "connecting" /\ Setup = {ConnectReply(TRUE)}

\* The selecting endpoint has told the other one.
HasTold == task[selector].step = "notified" \/ status[selector] = "Open"

\* Without faults, closes and refusals the endpoint that does not select is
\* ready for the notification as long as there is none and until it takes it.
Calm ==
  /\ \A n \in Node : task[n].step # "closing"
  /\ pending[Sender] = "connect" => status[Receiver] = "None"
  /\ \A m \in net : m.type # "close"
  /\ task[Sender].step # "connecting" => Setup = {}
  /\ task[Sender].step = "connecting" =>
       \/ status[Receiver] = "None" /\ Setup = {[type |-> "connect", from |-> Sender, to |-> Receiver]}
       \/ Setup = {ConnectReply(FALSE)}
       \/ Setup = {ConnectReply(TRUE)} /\ (selector = Sender => Ready)
  /\ pending[selector] = "select" \/ task[selector].step \in {"seeking", "asking"} => Ready
  /\ ~HasTold => Notices = {}
  /\ HasTold =>
       \/ Notices = {} /\ status[OtherEnd(selector)] = "Open"
       \/ /\ Ready
          /\ \E w \in Node : Notices =
               {[type |-> "notify", from |-> selector, to |-> OtherEnd(selector), witness |-> w]}

HInv == IInv /\ (faults = 0 /\ closes = 0 /\ ~Refusals => Calm)

-----------------------------------------------------------------------------
(* What keeps the first invariant.                                         *)

\* A step that engages nobody and says nothing to a candidate keeps OneAsked,
\* unless it begins a selection or waits for another candidate.
LEMMA KeepsOneAsked ==
  ASSUME OneAsked, UNCHANGED <<selector, Engaged, Accepting, Talk>>,
         (Ahead \/ task[selector].step = "seeking")' => Ahead \/ task[selector].step = "seeking",
         task'[selector].step = "asking" <=> task[selector].step = "asking",
         task[selector].step = "asking" => task'[selector].peer = task[selector].peer
  PROVE  OneAsked'
BY DEF OneAsked, Waited, Question, Reply

\* Faults are only counted up.
LEMMA NoFault ==
  ASSUME TypeOK, Fault
  PROVE  faults' # 0
BY BoundAssumption DEF TypeOK, Fault

\* A step counts one or leaves the count alone.
LEMMA FaultsCounted ==
  ASSUME [Next]_vars
  PROVE  Fault \/ UNCHANGED faults
<1>1. CASE UNCHANGED vars
  BY <1>1 DEF vars
<1>2. CASE Application
  BY <1>2 DEF Application, Create, CloseConnection
<1>3. CASE RequestConnection \/ ConnectTimeout \/ SelectWitness
  BY <1>3 DEF RequestConnection, ConnectTimeout, DeadlinePasses, SelectWitness, Send, SendFails
<1>4. CASE \E n, p \in Node : RequestWitness(n, p) \/ RequestClose(n, p)
  BY <1>4 DEF RequestWitness, RequestClose, Send, SendFails
<1>5. CASE \E n \in Node : \/ NoWitness(n) \/ WitnessTimeout(n) \/ FinishSelection(n)
                          \/ SetWitness(n) \/ FinishClose(n)
  BY <1>5 DEF NoWitness, WitnessTimeout, DeadlinePasses, FinishSelection, SetWitness, FinishClose
<1>6. CASE \E m \in net : HandleConnect(m) \/ HandleConnectReply(m) \/ HandleWitness(m)
  BY <1>6 DEF HandleConnect, HandleConnectReply, HandleWitness
<1>7. CASE \E m \in net : HandleWitnessReply(m) \/ HandleNotification(m)
  BY <1>7 DEF HandleWitnessReply, HandleNotification
<1>8. CASE \E m \in net : HandleClose(m) \/ DiscardReply(m) \/ Lose(m)
  BY <1>8 DEF HandleClose, DiscardReply, Lose
<1> QED
  BY <1>1, <1>2, <1>3, <1>4, <1>5, <1>6, <1>7, <1>8 DEF Next, Run, Handle

\* It holds before anything has happened.
LEMMA FaultInit == Init => FInv
<1> SUFFICES ASSUME Init PROVE FInv
  OBVIOUS
<1>1. IInv
  BY InvInit
<1>2. Candidates
  BY DEF Init, Candidates, Idle
<1>3. Engaged = {} /\ Accepting = {} /\ Talk = {} /\ task[selector].step = "idle"
  BY NodeAssumption DEF Init, Engaged, Accepting, Talk, Idle, Endpoints
<1> QED
  BY <1>1, <1>2, <1>3 DEF FInv, OneAsked

\* Nothing but a peer the node trusts is a candidate.
LEMMA CandidatesStep == TypeOK /\ Candidates /\ [Next]_vars => Candidates'
<1> SUFFICES ASSUME TypeOK, Candidates, [Next]_vars PROVE Candidates'
  OBVIOUS
<1> USE NodeAssumption
<1>0. CASE UNCHANGED vars
  BY <1>0 DEF Candidates, vars
<1>1. CASE Create \/ \E m \in net : Lose(m)
  BY <1>1 DEF Create, Lose, Candidates
<1>2. ASSUME NEW n \in Node, CloseConnection(n) PROVE Candidates'
  BY <1>2 DEF CloseConnection, Candidates, TypeOK, Idle
<1>3. CASE RequestConnection
  BY <1>3 DEF RequestConnection, Candidates, TypeOK, Idle, Endpoints
<1>4. CASE ConnectTimeout
  BY <1>4 DEF ConnectTimeout, Candidates, TypeOK, Idle, Endpoints
<1>5. CASE SelectWitness
  BY <1>5 DEF SelectWitness, StartSelection, WitnessCandidates, Candidates, TypeOK, Idle, Endpoints
<1>6. ASSUME NEW n \in Node, NEW p \in Node, RequestWitness(n, p) PROVE Candidates'
  <2>1. task[n].step = "seeking" /\ p \in task[n].left
    BY <1>6 DEF RequestWitness
  <2>2. CASE task' = [task EXCEPT ![n] =
                       [task[n] EXCEPT !.step = "asking", !.left = task[n].left \ {p}, !.peer = p]]
    BY <2>1, <2>2 DEF Candidates, TypeOK, Task
  <2>3. CASE task' = [task EXCEPT ![n].left = task[n].left \ {p}]
    BY <2>1, <2>3 DEF Candidates, TypeOK, Task
  <2> QED
    BY <1>6, <2>2, <2>3 DEF RequestWitness
<1>7. ASSUME NEW n \in Node, NEW p \in Node, RequestClose(n, p) PROVE Candidates'
  <2>1. task[n].step = "closing"
    BY <1>7 DEF RequestClose
  <2>2. CASE task' = [task EXCEPT ![n].left = task[n].left \ {p}]
    BY <2>1, <2>2 DEF Candidates, TypeOK, Task
  <2>3. CASE task' = [task EXCEPT ![n] = [task[n] EXCEPT !.left = task[n].left \ {p}, !.failed = TRUE]]
    BY <2>1, <2>3 DEF Candidates, TypeOK, Task
  <2> QED
    BY <1>7, <2>2, <2>3 DEF RequestClose
<1>8. ASSUME NEW n \in Node, NoWitness(n) \/ FinishSelection(n) \/ FinishClose(n) PROVE Candidates'
  BY <1>8 DEF NoWitness, FinishSelection, FinishClose, Candidates, TypeOK, Idle
<1>9. ASSUME NEW n \in Node, WitnessTimeout(n) PROVE Candidates'
  BY <1>9 DEF WitnessTimeout, Candidates, TypeOK, Task
<1>10. ASSUME NEW n \in Node, SetWitness(n) PROVE Candidates'
  BY <1>10 DEF SetWitness, Candidates
<1>11. ASSUME NEW m \in net,
              \/ HandleConnect(m) \/ HandleWitness(m) \/ HandleNotification(m)
              \/ HandleClose(m) \/ DiscardReply(m)
       PROVE  Candidates'
  BY <1>11 DEF HandleConnect, HandleWitness, HandleNotification, HandleClose, DiscardReply, Candidates
<1>12. ASSUME NEW m \in net, HandleConnectReply(m) PROVE Candidates'
  <2>1. CASE task' = [task EXCEPT ![Sender] = Idle]
    BY <2>1 DEF Candidates, TypeOK, Idle, Endpoints
  <2>2. CASE StartSelection(Sender)
    BY <2>2 DEF StartSelection, WitnessCandidates, Candidates, TypeOK, Idle, Endpoints
  <2> QED
    BY <1>12, <2>1, <2>2 DEF HandleConnectReply
<1>13. ASSUME NEW m \in net, HandleWitnessReply(m) PROVE Candidates'
  <2>1. task[m.to].step = "asking" /\ m.to \in Node
    BY <1>13 DEF HandleWitnessReply, AwaitsReply, TypeOK, Message
  <2>2. CASE task' = [task EXCEPT ![m.to] = [task[m.to] EXCEPT !.step = "seeking", !.peer = NoPeer]]
    BY <2>1, <2>2 DEF Candidates, TypeOK, Task
  <2>3. CASE task' = [task EXCEPT ![m.to].step = "notified"]
    BY <2>1, <2>3 DEF Candidates, TypeOK, Task
  <2>4. CASE task' = [task EXCEPT ![m.to] = Idle]
    BY <2>1, <2>4 DEF Candidates, TypeOK, Idle
  <2> QED
    BY <1>13, <2>2, <2>3, <2>4 DEF HandleWitnessReply
<1> QED
  BY <1>0, <1>1, <1>2, <1>3, <1>4, <1>5, <1>6, <1>7, <1>8, <1>9, <1>10, <1>11, <1>12, <1>13
  DEF Next, Application, Run, Handle

\* The first invariant is kept.
LEMMA OneAskedStep ==
  ASSUME IInv, Candidates, OneAsked, faults = 0, faults' = 0, Next
  PROVE  OneAsked'
<1> USE NodeAssumption
<1>0. TypeOK /\ selector \in Endpoints /\ selector' = selector
  BY DEF IInv, TypeOK, Next, Application, Run, Handle, Create, CloseConnection, RequestConnection,
         ConnectTimeout, SelectWitness, RequestWitness, RequestClose, NoWitness, WitnessTimeout,
         FinishSelection, SetWitness, FinishClose, HandleConnect, HandleConnectReply, HandleWitness,
         HandleWitnessReply, HandleNotification, HandleClose, DiscardReply, Lose
<1>00. ~Fault
  BY <1>0, NoFault
<1>1. CASE Create
  <2>1. UNCHANGED <<Engaged, Accepting, Talk>>
    BY <1>0, <1>1 DEF Create, Engaged, Accepting, Talk, Endpoints, TypeOK, IInv, OneGoroutine
  <2>2. Ahead' => Ahead
    BY <1>0, <1>1 DEF Create, Ahead, Endpoints, TypeOK
  <2> QED
    BY <1>0, <1>1, <2>1, <2>2, KeepsOneAsked DEF Create
<1>2. ASSUME NEW n \in Node, CloseConnection(n) PROVE OneAsked'
  <2>1. UNCHANGED <<Engaged, Accepting, Talk>>
    BY <1>2 DEF CloseConnection, Engaged, Accepting, Talk
  <2>2. task'[selector].step \in {task[selector].step, "closing"}
    BY <1>0, <1>2 DEF CloseConnection, TypeOK, Idle, Endpoints
  <2>3. task[n].step = "idle" /\ \A k \in Node \ {n} : task'[k] = task[k]
    BY <1>0, <1>2 DEF CloseConnection, Free, TypeOK
  <2>4. task'[n].step = "closing"
    BY <1>0, <1>2 DEF CloseConnection, TypeOK, Idle
  <2> QED
    BY <1>0, <1>2, <2>1, <2>2, <2>3, <2>4, KeepsOneAsked DEF CloseConnection, Ahead, Endpoints
<1>3. CASE RequestConnection
  <2>1. /\ Send([type |-> "connect", from |-> Sender, to |-> Receiver])
        /\ task' = [task EXCEPT ![Sender] = [Idle EXCEPT !.step = "connecting"]]
    BY <1>00, <1>3 DEF RequestConnection, SendFails
  <2>2. Talk' = Talk
    BY <2>1 DEF Send, Talk
  <2>3. UNCHANGED <<Engaged, Accepting>>
    BY <1>0, <1>3 DEF RequestConnection, Engaged, Accepting, Endpoints, TypeOK
  <2>4. task'[Sender].step = "connecting" /\ \A k \in Node \ {Sender} : task'[k] = task[k]
    BY <1>0, <2>1 DEF TypeOK, Idle, Endpoints
  <2>5. task[Sender].step = "idle" /\ pending[Sender] = "connect"
    BY <1>3 DEF RequestConnection, Free
  <2> QED
    BY <1>0, <1>3, <2>2, <2>3, <2>4, <2>5, KeepsOneAsked DEF RequestConnection, Ahead, Endpoints, TypeOK
<1>4. CASE ConnectTimeout
  <2>1. UNCHANGED <<Engaged, Accepting, Talk>>
    BY <1>4 DEF ConnectTimeout, Engaged, Accepting, Talk
  <2>2. /\ task[Sender].step = "connecting" /\ task'[Sender].step = "idle"
        /\ \A k \in Node \ {Sender} : task'[k] = task[k]
    BY <1>0, <1>4 DEF ConnectTimeout, TypeOK, Idle, Endpoints
  <2> QED
    BY <1>0, <1>4, <2>1, <2>2, KeepsOneAsked DEF ConnectTimeout, Ahead, Endpoints
<1>5. CASE SelectWitness
  <2>1. UNCHANGED <<Engaged, Talk>>
    BY <1>5 DEF SelectWitness, Engaged, Talk
  <2>2. Accepting' = Accepting /\ selector = Receiver /\ Ahead
    BY <1>0, <1>5 DEF SelectWitness, Accepting, TypeOK, IInv, Roles, Ahead, Endpoints
  <2>3. task[Receiver].step = "idle" /\ task'[Receiver].step = "seeking"
    BY <1>0, <1>5 DEF SelectWitness, StartSelection, Free, TypeOK, Idle, Endpoints
  <2> QED
    BY <1>0, <2>1, <2>2, <2>3, KeepsOneAsked
<1>6. ASSUME NEW n \in Node, NEW p \in Node, RequestWitness(n, p) PROVE OneAsked'
  <2>1. n = selector /\ task[n].step = "seeking"
    BY <1>6 DEF RequestWitness, IInv, Roles, Selecting
  <2>2. /\ Send(Question(p))
        /\ task' = [task EXCEPT ![n] =
             [task[n] EXCEPT !.step = "asking", !.left = task[n].left \ {p}, !.peer = p]]
    BY <1>00, <1>6, <2>1 DEF RequestWitness, SendFails, Question
  <2>3. task'[n].step = "asking" /\ task'[n].peer = p
    BY <1>0, <2>2 DEF TypeOK, Task
  <2>4. Engaged = {} /\ Accepting = {} /\ Talk = {}
    BY <2>1 DEF OneAsked
  <2>5. Engaged' = {} /\ Accepting' = {}
    BY <1>6, <2>4 DEF RequestWitness, Engaged, Accepting
  <2>6. Talk' = {Question(p)}
    BY <2>2, <2>4 DEF Talk, Send, Question
  <2>7. ~Ahead'
    BY <1>0, <1>6, <2>1, <2>3 DEF RequestWitness, IInv, Roles, OneGoroutine, Selecting, Ahead, Endpoints
  <2> QED
    BY <1>0, <2>1, <2>3, <2>5, <2>6, <2>7 DEF OneAsked, Waited, Question
<1>7. ASSUME NEW n \in Node, NEW p \in Node, RequestClose(n, p) PROVE OneAsked'
  <2>1. UNCHANGED <<Engaged, Accepting>>
    BY <1>7 DEF RequestClose, Engaged, Accepting
  <2>2. Talk' = Talk
    BY <1>7 DEF RequestClose, Send, SendFails, Talk
  <2> QED
    BY <1>0, <1>7, <2>1, <2>2, RequestCloseEffect, KeepsOneAsked DEF Ahead, Endpoints
<1>8. ASSUME NEW n \in Node, NoWitness(n) PROVE OneAsked'
  <2>1. n = selector /\ task[n].step = "seeking" /\ task'[n].step = "idle"
    BY <1>0, <1>8 DEF NoWitness, IInv, Roles, Selecting, TypeOK, Idle
  <2>2. UNCHANGED <<Engaged, Accepting, Talk>>
    BY <1>0, <1>8, <2>1 DEF NoWitness, Engaged, Accepting, Talk, TypeOK
  <2> QED
    BY <1>0, <2>1, <2>2, KeepsOneAsked
<1>9. ASSUME NEW n \in Node, WitnessTimeout(n) PROVE OneAsked'
  <2>1. n = selector /\ task[n].step = "asking" /\ Waited(task[n].peer)
    BY <1>9 DEF WitnessTimeout, IInv, Roles, Selecting, OneAsked
  <2>2. task[n].peer \in Node
    BY <2>1 DEF Candidates
  <2>3. ASSUME Accepting = {task[n].peer} PROVE AnswerPossible(n)
    BY <2>1, <2>2, <2>3 DEF AnswerPossible, Accepting
  <2>4. ASSUME Talk = {Question(task[n].peer)} PROVE AnswerPossible(n)
    <3>1. Question(task[n].peer) \in net
      BY <2>4 DEF Talk
    <3> QED
      BY <2>1, <3>1 DEF AnswerPossible, Question
  <2>5. ASSUME NEW ok \in BOOLEAN, Talk = {Reply(task[n].peer, ok)} PROVE AnswerPossible(n)
    <3>1. Reply(task[n].peer, ok) \in net
      BY <2>5 DEF Talk
    <3> QED
      BY <2>1, <3>1 DEF AnswerPossible, Reply
  <2>6. AnswerPossible(n)
    BY <2>1, <2>3, <2>4, <2>5 DEF Waited
  <2> QED
    BY <1>00, <1>9, <2>6 DEF WitnessTimeout, DeadlinePasses
<1>10. ASSUME NEW n \in Node, FinishSelection(n) \/ FinishClose(n) PROVE OneAsked'
  <2>1. /\ task[n].step \in {"notified", "closing"} /\ task'[n].step = "idle"
        /\ status[n] # "None" /\ status'[n] # "None"
        /\ \A k \in Node \ {n} : task'[k] = task[k] /\ status'[k] = status[k]
    BY <1>0, <1>10 DEF FinishSelection, FinishClose, TypeOK, Idle, IInv, OneGoroutine
  <2>2. UNCHANGED <<Engaged, Accepting, Talk>>
    BY <1>10, <2>1 DEF FinishSelection, FinishClose, Engaged, Accepting, Talk
  <2> QED
    BY <1>0, <1>10, <2>1, <2>2, KeepsOneAsked DEF FinishSelection, FinishClose, Ahead, Endpoints
<1>11. ASSUME NEW w \in Node, SetWitness(w) PROVE OneAsked'
  <2>1. w \in Accepting
    BY <1>11 DEF SetWitness, Accepting
  <2>2. task[selector].step = "asking" /\ Engaged = {w} /\ Accepting = {w} /\ Talk = {}
    BY <2>1 DEF OneAsked, Waited
  <2>3. w = task[selector].peer
    BY <2>1, <2>2 DEF OneAsked, Waited
  <2>4. Accepting' = {}
    BY <1>0, <1>11, <2>2 DEF SetWitness, Accepting, TypeOK
  <2>5. Talk' = {Reply(w, TRUE)}
    BY <1>11, <2>2 DEF SetWitness, Talk, Reply
  <2>6. Engaged' = {w} /\ UNCHANGED <<status, task>> /\ (Ahead' => Ahead)
    BY <1>0, <1>11, <2>2 DEF SetWitness, Engaged, Ahead, TypeOK, Endpoints
  <2> QED
    BY <1>0, <2>2, <2>3, <2>4, <2>5, <2>6 DEF OneAsked, Waited, Reply
<1>12. ASSUME NEW m \in net, HandleConnect(m) PROVE OneAsked'
  <2>1. m.to = Receiver
    BY <1>0, <1>12 DEF HandleConnect, TypeOK, Message
  <2>2. UNCHANGED <<Engaged, Accepting>>
    BY <1>0, <1>12, <2>1
    DEF HandleConnect, Engaged, Accepting, CanAccept, TypeOK, Endpoints, IInv, OneGoroutine
  <2>3. Talk' = Talk
    BY <1>12 DEF HandleConnect, Talk
  <2>4. Ahead' => Ahead
    BY <1>0, <1>12, <2>1 DEF HandleConnect, Ahead, CanAccept, TypeOK, Endpoints
  <2> QED
    BY <1>0, <1>12, <2>2, <2>3, <2>4, KeepsOneAsked DEF HandleConnect
<1>13. ASSUME NEW m \in net, HandleWitness(m) PROVE OneAsked'
  <2>1. m \in Talk /\ m.type = "witness"
    BY <1>13 DEF HandleWitness, Talk
  <2>2. /\ task[selector].step = "asking" /\ m = Question(task[selector].peer)
        /\ Engaged = {} /\ Accepting = {} /\ Talk = {m}
    BY <2>1 DEF OneAsked, Waited, Question, Reply
  <2>3. m.to = task[selector].peer /\ m.from = selector /\ m.to \in Node \ Endpoints
    BY <1>0, <2>2 DEF Question, Candidates, Endpoints
  <2>4. UNCHANGED task /\ ~Ahead
    BY <1>0, <1>13, <2>2 DEF HandleWitness, IInv, Roles, OneGoroutine, Selecting, Ahead, Endpoints
  <2>5. CASE /\ status' = [status EXCEPT ![m.to] = "Open"]
             /\ pending' = [pending EXCEPT ![m.to] = "setWitness"]
             /\ net' = net \ {m}
    <3>1. Engaged' = {m.to} /\ Accepting' = {m.to} /\ Talk' = {}
      BY <1>0, <2>2, <2>3, <2>5 DEF Engaged, Accepting, Talk, TypeOK
    <3>2. ~Ahead'
      BY <1>0, <2>3, <2>4, <2>5 DEF Ahead, Endpoints, TypeOK
    <3> QED
      BY <1>0, <2>2, <2>3, <2>4, <3>1, <3>2 DEF OneAsked, Waited
  <2>6. CASE net' = (net \ {m}) \cup {Reply(m.to, FALSE)} /\ UNCHANGED <<status, pending>>
    <3>1. Engaged' = {} /\ Accepting' = {} /\ Talk' = {Reply(m.to, FALSE)}
      BY <2>2, <2>6 DEF Engaged, Accepting, Talk, Reply
    <3> QED
      BY <1>0, <2>2, <2>3, <2>4, <2>6, <3>1 DEF OneAsked, Waited, Ahead, Reply
  <2> QED
    BY <1>13, <2>3, <2>5, <2>6 DEF HandleWitness, Reply
<1>14. ASSUME NEW m \in net, HandleNotification(m) PROVE OneAsked'
  <2>1. m.to \in Endpoints /\ status[m.to] \in {"None"} => status'[m.to] = "None"
    BY <1>0, <1>14 DEF HandleNotification, TakesNotification, TypeOK, Message
  <2>2. m.to \in Endpoints
    BY <1>0, <1>14 DEF HandleNotification, TypeOK, Message
  <2>3. UNCHANGED <<Engaged, Accepting>>
    BY <1>0, <1>14, <2>2 DEF HandleNotification, Engaged, Accepting, TypeOK
  <2>4. Talk' = Talk
    BY <1>14 DEF HandleNotification, Talk
  <2>5. Ahead' => Ahead
    BY <1>0, <1>14, <2>2 DEF HandleNotification, TakesNotification, Ahead, TypeOK, Endpoints
  <2> QED
    BY <1>0, <1>14, <2>3, <2>4, <2>5, KeepsOneAsked DEF HandleNotification
<1>15. ASSUME NEW m \in net, HandleClose(m) PROVE OneAsked'
  <2>1. \A n \in Node : status'[n] = "None" <=> status[n] = "None"
    BY <1>0, <1>15 DEF HandleClose, TypeOK, Message
  <2>2. UNCHANGED <<Engaged, Accepting>>
    BY <1>15, <2>1 DEF HandleClose, Engaged, Accepting
  <2>3. Talk' = Talk
    BY <1>15 DEF HandleClose, Talk
  <2> QED
    BY <1>0, <1>15, <2>1, <2>2, <2>3, KeepsOneAsked DEF HandleClose, Ahead, Endpoints
<1>16. ASSUME NEW m \in net, DiscardReply(m) PROVE OneAsked'
  <2>1. m.type # "witnessReply"
    <3> SUFFICES ASSUME m.type = "witnessReply" PROVE FALSE
      OBVIOUS
    <3>1. m \in Talk
      BY DEF Talk
    <3>2. task[selector].step = "asking" /\ m.to = selector /\ m.from = task[selector].peer
      BY <3>1 DEF OneAsked, Waited, Question, Reply
    <3> QED
      BY <1>16, <3>2 DEF DiscardReply, AwaitsReply
  <2>2. Talk' = Talk
    BY <1>16, <2>1 DEF DiscardReply, Talk
  <2>3. UNCHANGED <<Engaged, Accepting>>
    BY <1>16 DEF DiscardReply, Engaged, Accepting
  <2> QED
    BY <1>0, <1>16, <2>2, <2>3, KeepsOneAsked DEF DiscardReply, Ahead
<1>17. ASSUME NEW m \in net, HandleConnectReply(m) PROVE OneAsked'
  <2>1. UNCHANGED Accepting
    BY <1>17 DEF HandleConnectReply, Accepting
  <2>2. Talk' = Talk
    BY <1>17 DEF HandleConnectReply, Talk
  <2>3. UNCHANGED Engaged
    BY <1>0, <1>17, HandleConnectReplyEffect DEF Engaged, Endpoints
  <2> QED
    BY <1>0, <1>17, <2>1, <2>2, <2>3, HandleConnectReplyEffect, KeepsOneAsked DEF Ahead, Endpoints
<1>18. ASSUME NEW m \in net, HandleWitnessReply(m) PROVE OneAsked'
  <2>1. m \in Talk /\ m.type = "witnessReply" /\ m.to \in Node
    BY <1>0, <1>18 DEF HandleWitnessReply, Talk, TypeOK, Message
  <2>2. /\ m.to = selector /\ task[selector].step = "asking"
        /\ Talk = {m} /\ Accepting = {} /\ (~m.accepted => Engaged = {})
    <3>1. task[selector].step = "asking" /\ Waited(task[selector].peer)
      BY <2>1 DEF OneAsked
    <3>2. \E ok \in BOOLEAN :
            /\ m = Reply(task[selector].peer, ok) /\ Talk = {m} /\ Accepting = {}
            /\ ~ok => Engaged = {}
      <4>1. CASE Talk = {Question(task[selector].peer)}
        BY <2>1, <4>1 DEF Question
      <4>2. CASE Engaged = {} /\ Accepting = {} /\ Talk = {Reply(task[selector].peer, FALSE)}
        BY <2>1, <4>2
      <4>3. CASE Accepting = {} /\ Talk = {Reply(task[selector].peer, TRUE)}
        BY <2>1, <4>3
      <4> QED
        BY <2>1, <3>1, <4>1, <4>2, <4>3 DEF Waited
    <3> QED
      BY <3>1, <3>2 DEF Reply
  <2>8. \/ /\ ~m.accepted
           /\ task' = [task EXCEPT ![selector] = [task[selector] EXCEPT !.step = "seeking", !.peer = NoPeer]]
        \/ task' = [task EXCEPT ![selector].step = "notified"]
    BY <1>00, <1>18, <2>2 DEF HandleWitnessReply
  <2>9. UNCHANGED <<status, witness>>
    BY <1>00, <1>18 DEF HandleWitnessReply
  <2>10. task \in [Node -> Task] /\ selector \in Node
    BY <1>0 DEF TypeOK, Endpoints
  <2>3. task'[selector].step \in {"seeking", "notified"}
    <3>1. CASE task' = [task EXCEPT ![selector] = [task[selector] EXCEPT !.step = "seeking", !.peer = NoPeer]]
      BY <2>10, <3>1 DEF Task
    <3>2. CASE task' = [task EXCEPT ![selector].step = "notified"]
      BY <2>10, <3>2 DEF Task
    <3> QED
      BY <2>8, <3>1, <3>2
  <2>4. task'[selector].step = "seeking" => Engaged = {}
    <3>1. CASE ~m.accepted
      BY <2>2, <3>1
    <3>2. CASE task' = [task EXCEPT ![selector].step = "notified"]
      BY <2>10, <3>2 DEF Task
    <3> QED
      BY <2>8, <3>1, <3>2
  <2>5. Talk' = {}
    BY <1>00, <1>18, <2>2 DEF HandleWitnessReply, Talk
  <2>6. UNCHANGED <<Engaged, Accepting>>
    BY <1>18, <2>9 DEF HandleWitnessReply, Engaged, Accepting
  <2>7. ~Ahead'
    BY <1>0, <1>18, <2>2, <2>3, <2>9 DEF HandleWitnessReply, IInv, Roles, OneGoroutine, Selecting, Ahead, Endpoints
  <2> QED
    BY <1>0, <2>2, <2>3, <2>4, <2>5, <2>6, <2>7 DEF OneAsked
<1>19. ASSUME NEW m \in net, Lose(m) PROVE OneAsked'
  BY <1>00, <1>19 DEF Lose
<1> QED
  BY <1>1, <1>2, <1>3, <1>4, <1>5, <1>6, <1>7, <1>8, <1>9, <1>10, <1>11, <1>12, <1>13, <1>14,
     <1>15, <1>16, <1>17, <1>18, <1>19 DEF Next, Application, Run, Handle

\* A step counts a fault or leaves the count.
LEMMA FaultsGrow ==
  ASSUME TypeOK, [Next]_vars
  PROVE  faults' # 0 \/ faults' = faults
BY FaultsCounted, NoFault

\* The whole first invariant is kept.
LEMMA FaultStep == FInv /\ [Next]_vars => FInv'
<1> SUFFICES ASSUME FInv, [Next]_vars PROVE FInv'
  OBVIOUS
<1>1. IInv /\ TypeOK /\ Candidates
  BY DEF FInv, IInv
<1>2. IInv' /\ Candidates'
  BY <1>1, InvStep, CandidatesStep
<1>3. ASSUME faults' = 0 PROVE OneAsked'
  <2>1. faults = 0 /\ OneAsked
    BY <1>1, <1>3, FaultsGrow DEF FInv
  <2>2. CASE UNCHANGED vars
    BY <2>1, <2>2 DEF vars, OneAsked, Engaged, Accepting, Talk, Ahead, Waited, Question, Reply
  <2> QED
    BY <1>1, <1>3, <2>1, <2>2, OneAskedStep
<1> QED
  BY <1>2, <1>3 DEF FInv

\* Without a fault at most one node takes itself for the witness: no other
\* candidate is asked as long as one may still accept (findWitness).
THEOREM OrphanNeedsFaultHolds == Spec => []OrphanNeedsFault
<1>1. FInv => OrphanNeedsFault
  BY DEF FInv, OneAsked, Engaged, OrphanNeedsFault
<1> QED
  BY FaultInit, FaultStep, <1>1, PTL DEF Spec

-----------------------------------------------------------------------------
(* What keeps the second invariant.                                        *)

\* It holds before anything has happened.
LEMMA HalfInit == Init => HInv
<1> SUFFICES ASSUME Init PROVE HInv
  OBVIOUS
<1>1. IInv
  BY InvInit
<1>2. selector \in Node /\ Sender \in Node /\ Receiver \in Node
  BY NodeAssumption DEF Init, Endpoints
<1>3. Setup = {} /\ Notices = {} /\ ~HasTold
  BY <1>2 DEF Init, Setup, Notices, HasTold, Idle
<1>4. Calm
  BY <1>2, <1>3 DEF Init, Calm, Idle
<1> QED
  BY <1>1, <1>4 DEF HInv

\* A step that leaves the endpoints' entries and what is said between them
\* alone, and begins or ends no part of the setup, keeps Calm.
LEMMA KeepsCalm ==
  ASSUME Calm, TypeOK,
         UNCHANGED <<selector, Setup, Notices>>,
         \A e \in Endpoints : status'[e] = status[e] /\ pending'[e] = pending[e],
         \A n \in Node : task'[n].step # "closing",
         \A m \in net' : m \in net \/ m.type # "close",
         task'[Sender].step = "connecting" <=> task[Sender].step = "connecting",
         task'[selector].step \in {"seeking", "asking"} => task[selector].step \in {"seeking", "asking"},
         task'[selector].step = "notified" <=> task[selector].step = "notified"
  PROVE  Calm'
<1>1. {Sender, Receiver, selector, OtherEnd(selector)} \subseteq Endpoints
  BY DEF TypeOK, Endpoints, OtherEnd
<1>2. Ready => Ready'
  BY <1>1 DEF Ready, OtherEnd, ConnectReply
<1>3. HasTold' <=> HasTold
  BY <1>1 DEF HasTold
<1>4. OtherEnd(selector)' = OtherEnd(selector)
  BY DEF OtherEnd
<1>5. \A m \in net' : m.type # "close"
  BY DEF Calm
<1> HIDE DEF OtherEnd
<1> QED
  BY <1>1, <1>2, <1>3, <1>4, <1>5 DEF Calm, ConnectReply

\* An endpoint that is still setting up the connection is not Open.
LEMMA NotOpenYet ==
  ASSUME IInv, NEW e \in Endpoints,
         pending[e] \in {"connect", "select"} \/ task[e].step \in {"connecting"} \cup Selecting
  PROVE  status[e] # "Open"
BY NodeAssumption DEF IInv, Unset, Partners, TypeOK, Endpoints

\* The second invariant is kept.
LEMMA CalmStep ==
  ASSUME IInv, Calm, faults = 0, faults' = 0, closes = 0, closes' = 0, ~Refusals, Next
  PROVE  Calm'
<1> DEFINE o == OtherEnd(selector)
<1> USE NodeAssumption
<1>0. /\ TypeOK /\ selector \in Endpoints /\ o \in Endpoints /\ o # selector /\ Endpoints \subseteq Node
      /\ Endpoints = {Sender, Receiver} /\ Endpoints = {selector, o}
  BY DEF IInv, TypeOK, Endpoints, OtherEnd
<1>00. selector' = selector /\ o' = o
  BY DEF OtherEnd, Next, Application, Run, Handle, Create, CloseConnection, RequestConnection,
         ConnectTimeout, SelectWitness, RequestWitness, RequestClose, NoWitness, WitnessTimeout,
         FinishSelection, SetWitness, FinishClose, HandleConnect, HandleConnectReply, HandleWitness,
         HandleWitnessReply, HandleNotification, HandleClose, DiscardReply, Lose
<1>000. ~Fault
  BY <1>0, NoFault
<1>1. CASE Create
  <2>1. /\ status[Sender] = "None" /\ status[Receiver] = "None"
        /\ task[Sender].step = "idle" /\ task[Receiver].step = "idle"
        /\ pending[Sender] = "none" /\ pending[Receiver] = "none"
    BY <1>0, <1>1 DEF Create, IInv, Partners, OneGoroutine
  <2>2. /\ pending'[Receiver] = "none" /\ pending'[Sender] = "connect"
        /\ status'[Receiver] = "None" /\ status'[Sender] = "RequestingReceiver"
    BY <1>0, <1>1, <2>1 DEF Create, TypeOK
  <2>3. UNCHANGED <<task, net, Setup, Notices>>
    BY <1>1 DEF Create, Setup, Notices
  <2>4. ~HasTold /\ ~HasTold'
    BY <1>0, <1>00, <2>1, <2>2, <2>3 DEF HasTold
  <2> QED
    BY <1>0, <1>00, <2>1, <2>2, <2>3, <2>4 DEF Calm
<1>2. ASSUME NEW n \in Node, CloseConnection(n) PROVE Calm'
  BY <1>2 DEF CloseConnection
<1>3. CASE RequestConnection
  <2> DEFINE c == [type |-> "connect", from |-> Sender, to |-> Receiver]
  <2>1. /\ net' = net \cup {c}
        /\ task' = [task EXCEPT ![Sender] = [Idle EXCEPT !.step = "connecting"]]
        /\ UNCHANGED <<status, selector>>
    BY <1>000, <1>3 DEF RequestConnection, Send, SendFails
  <2>2. /\ status[Receiver] = "None" /\ task[Receiver].step = "idle" /\ pending[Receiver] = "none"
        /\ task[Sender].step = "idle" /\ pending[Sender] = "connect"
    BY <1>0, <1>3 DEF RequestConnection, Free, Calm, IInv, OneGoroutine
  <2>3. /\ task'[Sender].step = "connecting" /\ \A k \in Node \ {Sender} : task'[k] = task[k]
        /\ pending'[Sender] = "none" /\ pending'[Receiver] = "none"
    BY <1>0, <1>3, <2>1, <2>2 DEF RequestConnection, TypeOK, Idle
  <2>4. Setup' = {c} /\ Notices' = Notices
    BY <2>1, <2>2 DEF Setup, Notices, Calm
  <2>5. status[selector] # "Open"
    BY <1>0, <2>2, NotOpenYet
  <2>6. ~HasTold /\ ~HasTold'
    BY <1>0, <1>00, <2>1, <2>2, <2>3, <2>5 DEF HasTold
  <2> QED
    BY <1>0, <1>00, <2>1, <2>2, <2>3, <2>4, <2>6 DEF Calm
<1>4. CASE ConnectTimeout
  <2>1. \E m \in Setup : TRUE
    BY <1>4 DEF ConnectTimeout, Calm
  <2>2. AnswerPossible(Sender)
    BY <1>4, <2>1 DEF ConnectTimeout, AnswerPossible, Setup
  <2> QED
    BY <1>000, <1>4, <2>2 DEF ConnectTimeout, DeadlinePasses
<1>5. CASE SelectWitness
  <2>1. /\ pending[Receiver] = "select" /\ selector = Receiver /\ o = Sender
        /\ task[Receiver].step = "idle"
    BY <1>0, <1>5 DEF SelectWitness, Free, IInv, Roles, OtherEnd
  <2>2. /\ pending'[Receiver] = "none" /\ pending'[Sender] = pending[Sender]
        /\ task'[Receiver].step = "seeking" /\ \A k \in Node \ {Receiver} : task'[k] = task[k]
    BY <1>0, <1>5 DEF SelectWitness, StartSelection, TypeOK, Idle
  <2>3. UNCHANGED <<status, net, Setup, Notices>>
    BY <1>5 DEF SelectWitness, Setup, Notices
  <2>4. status[Receiver] # "Open"
    BY <1>0, <2>1, NotOpenYet
  <2>5. ~HasTold /\ ~HasTold'
    BY <1>0, <1>00, <2>1, <2>2, <2>3, <2>4 DEF HasTold
  <2>6. Ready /\ Ready'
    BY <1>0, <1>00, <2>1, <2>2, <2>3 DEF Ready, Calm, ConnectReply
  <2> QED
    BY <1>0, <1>00, <2>1, <2>2, <2>3, <2>5, <2>6 DEF Calm, ConnectReply
<1>6. ASSUME NEW n \in Node, NEW p \in Node, RequestWitness(n, p) PROVE Calm'
  <2>1. n = selector /\ task[n].step = "seeking"
    BY <1>6 DEF RequestWitness, IInv, Roles, Selecting
  <2>2. \A m \in net' : m \in net \/ m.type = "witness"
    BY <1>0, <1>6, RequestWitnessEffect
  <2>3. net \subseteq net'
    BY <1>6 DEF RequestWitness, Send, SendFails
  <2>4. UNCHANGED <<Setup, Notices>>
    BY <2>2, <2>3 DEF Setup, Notices
  <2>5. /\ task'[n].step \in {"seeking", "asking"} /\ \A k \in Node \ {n} : task'[k] = task[k]
        /\ UNCHANGED <<status, pending, selector>>
    BY <1>0, <1>6, RequestWitnessEffect
  <2>6. \A k \in Node : task'[k].step # "closing"
    BY <2>5 DEF Calm
  <2> QED
    BY <1>0, <2>1, <2>2, <2>4, <2>5, <2>6, KeepsCalm
<1>7. ASSUME NEW n \in Node, (\E p \in Node : RequestClose(n, p)) \/ FinishClose(n) PROVE Calm'
  BY <1>7 DEF RequestClose, FinishClose, Calm
<1>8. ASSUME NEW n \in Node, NoWitness(n) \/ FinishSelection(n) PROVE Calm'
  <2>1. n = selector /\ task[n].step \in {"seeking", "notified"}
    BY <1>8 DEF NoWitness, FinishSelection, IInv, Roles, Selecting
  <2>2. /\ task'[n].step = "idle" /\ \A k \in Node \ {n} : task'[k] = task[k] /\ status'[k] = status[k]
        /\ status'[n] = IF task[n].step = "notified" THEN "Open" ELSE "RequestingWitness"
    BY <1>0, <1>8 DEF NoWitness, FinishSelection, TypeOK, Idle
  <2>3. UNCHANGED <<pending, net, Setup, Notices>>
    BY <1>8 DEF NoWitness, FinishSelection, Setup, Notices
  <2>4. pending[selector] # "select" /\ status[selector] # "Open" /\ status[selector] # "None"
    BY <1>0, <2>1, NotOpenYet DEF IInv, OneGoroutine, Selecting
  <2>5. HasTold' <=> HasTold
    BY <1>0, <1>00, <2>1, <2>2, <2>4 DEF HasTold
  <2>6. Ready => Ready'
    BY <1>0, <1>00, <2>1, <2>2, <2>3 DEF Ready, ConnectReply
  <2>7. task[Sender].step = "connecting" => selector = Receiver /\ task'[Sender] = task[Sender]
    BY <1>0, <2>1, <2>2
  <2>8. status'[o] = status[o]
    BY <1>0, <2>1, <2>2
  <2> HIDE DEF o
  <2> QED
    BY <1>0, <1>00, <2>1, <2>2, <2>3, <2>4, <2>5, <2>6, <2>7, <2>8 DEF Calm, ConnectReply, o
<1>9. ASSUME NEW n \in Node, WitnessTimeout(n) PROVE Calm'
  <2>1. n = selector /\ task[n].step = "asking"
    BY <1>9 DEF WitnessTimeout, IInv, Roles, Selecting
  <2>2. task'[n].step = "seeking" /\ \A k \in Node \ {n} : task'[k] = task[k]
    BY <1>0, <1>9 DEF WitnessTimeout, TypeOK, Task
  <2>3. UNCHANGED <<status, pending, net, Setup, Notices>>
    BY <1>9 DEF WitnessTimeout, Setup, Notices
  <2> QED
    BY <1>0, <1>00, <2>1, <2>2, <2>3, KeepsCalm DEF Calm
<1>10. ASSUME NEW w \in Node, SetWitness(w) PROVE Calm'
  <2>1. w \notin Endpoints
    BY <1>10 DEF SetWitness, IInv, Roles
  <2>2. UNCHANGED <<status, task, Setup, Notices>> /\ \A m \in net' : m \in net \/ m.type # "close"
    BY <1>10 DEF SetWitness, Setup, Notices
  <2>3. \A e \in Endpoints : pending'[e] = pending[e]
    BY <1>0, <1>10, <2>1 DEF SetWitness, TypeOK
  <2> QED
    BY <1>0, <1>00, <2>2, <2>3, KeepsCalm DEF Calm
<1>11. ASSUME NEW m \in net, HandleConnect(m) PROVE Calm'
  <2>1. m.type = "connect" /\ m.to = Receiver /\ m.from = Sender /\ m \in Setup
    BY <1>0, <1>11 DEF HandleConnect, TypeOK, Message, Setup
  <2>2. task[Sender].step = "connecting" /\ status[Receiver] = "None" /\ Setup = {m}
    BY <2>1 DEF Calm, ConnectReply
  <2>3. /\ pending[Sender] # "connect" /\ pending[Sender] # "select" /\ status[Sender] # "Open"
        /\ task[Receiver].step = "idle" /\ pending[Receiver] = "none"
    BY <1>0, <2>2, NotOpenYet DEF IInv, OneGoroutine
  <2>4. /\ status' = [status EXCEPT ![Receiver] = "AwaitingWitness"]
        /\ pending' = IF selector = Receiver THEN [pending EXCEPT ![Receiver] = "select"] ELSE pending
        /\ net' = (net \ {m}) \cup {ConnectReply(TRUE)}
        /\ UNCHANGED task
    BY <1>11, <2>1, <2>2 DEF HandleConnect, CanAccept, ConnectReply
  <2>5. Setup' = {ConnectReply(TRUE)} /\ Notices' = Notices
    BY <2>1, <2>2, <2>4 DEF Setup, Notices, ConnectReply
  <2>6. ~HasTold /\ ~HasTold'
    BY <1>0, <1>00, <2>2, <2>3, <2>4 DEF HasTold, TypeOK
  <2>7. Ready'
    BY <1>0, <1>00, <2>2, <2>4, <2>5 DEF Ready, TypeOK, ConnectReply
  <2>8. \A k \in net' : k.type # "close"
    BY <2>4 DEF Calm, ConnectReply
  <2> QED
    BY <1>0, <1>00, <2>2, <2>3, <2>4, <2>5, <2>6, <2>7, <2>8 DEF Calm, ConnectReply, TypeOK
<1>12. ASSUME NEW m \in net, HandleConnectReply(m) PROVE Calm'
  <2>1. m.type = "connectReply" /\ m \in Setup
    BY <1>12 DEF HandleConnectReply, Setup
  <2>2. /\ task[Sender].step = "connecting" /\ net' \subseteq net
        /\ UNCHANGED pending /\ status'[Receiver] = status[Receiver]
        /\ \A k \in Node \ {Sender} : task'[k] = task[k]
        /\ \/ task'[Sender].step = "idle" /\ status'[Sender] \in {status[Sender], "AwaitingWitness"}
           \/ /\ task'[Sender].step = "seeking" /\ status'[Sender] = status[Sender]
              /\ m.accepted /\ selector = Sender
    BY <1>0, <1>12, HandleConnectReplyEffect
  <2>3. Setup = {m} /\ (m = ConnectReply(FALSE) \/ (m = ConnectReply(TRUE) /\ (selector = Sender => Ready)))
    <3>1. \/ Setup = {[type |-> "connect", from |-> Sender, to |-> Receiver]}
          \/ Setup = {ConnectReply(FALSE)}
          \/ Setup = {ConnectReply(TRUE)} /\ (selector = Sender => Ready)
      BY <2>2 DEF Calm
    <3>2. Setup # {[type |-> "connect", from |-> Sender, to |-> Receiver]}
      BY <2>1
    <3>3. ASSUME NEW x, Setup = {x} PROVE m = x
      BY <2>1, <3>3
    <3> QED
      BY <3>1, <3>2, <3>3
  <2>4. Setup' = {} /\ Notices' = Notices
    BY <1>12, <2>1, <2>3 DEF HandleConnectReply, Setup, Notices
  <2>5. status[Sender] # "Open" /\ pending[Sender] \notin {"connect", "select"} /\ status[Sender] # "None"
    BY <1>0, <2>2, NotOpenYet DEF IInv, OneGoroutine
  <2>6. HasTold' <=> HasTold
    BY <1>0, <1>00, <2>2, <2>5 DEF HasTold
  <2>7. Ready => Ready'
    <3>1. CASE selector = Sender
      BY <1>0, <1>00, <2>2, <3>1 DEF Ready
    <3>2. CASE selector = Receiver /\ ~m.accepted
      <4>1. UNCHANGED status
        BY <1>12, <3>2 DEF HandleConnectReply
      <4> QED
        BY <1>0, <1>00, <2>3, <3>2, <4>1 DEF Ready, ConnectReply
    <3>3. CASE selector = Receiver /\ m.accepted
      <4>1. status' = [status EXCEPT ![Sender] = "AwaitingWitness"]
        BY <1>12, <3>3 DEF HandleConnectReply
      <4> QED
        BY <1>0, <1>00, <3>3, <4>1 DEF Ready, TypeOK
    <3> QED
      BY <1>0, <3>1, <3>2, <3>3
  <2>8. task'[Sender].step = "seeking" => selector = Sender /\ Ready /\ ~HasTold
    BY <1>0, <2>2, <2>3, <2>5 DEF ConnectReply, HasTold
  <2>9. o = Sender => ~(Notices = {} /\ status[o] = "Open")
    BY <2>5
  <2>10. o = Receiver => status'[o] = status[o]
    BY <2>2
  <2>11. pending[selector] = "select" \/ task'[selector].step \in {"seeking", "asking"} => Ready'
    BY <1>0, <2>2, <2>7, <2>8 DEF Calm
  <2> HIDE DEF o
  <2> QED
    BY <1>0, <1>00, <2>2, <2>4, <2>5, <2>6, <2>7, <2>9, <2>10, <2>11 DEF Calm, o
<1>13. ASSUME NEW m \in net, HandleWitness(m) PROVE Calm'
  <2>1. UNCHANGED <<task, Setup, Notices>> /\ \A k \in net' : k \in net \/ k.type # "close"
    BY <1>13 DEF HandleWitness, Setup, Notices
  <2>2. \A e \in Endpoints : status'[e] = status[e] /\ pending'[e] = pending[e]
    BY <1>0, <1>13 DEF HandleWitness, TypeOK
  <2> QED
    BY <1>0, <1>00, <2>1, <2>2, KeepsCalm DEF Calm
<1>14. ASSUME NEW m \in net, HandleWitnessReply(m) PROVE Calm'
  <2>1. m.to = selector /\ task[selector].step = "asking" /\ m.from \in Node
    BY <1>0, <1>14, HandleWitnessReplyEffect DEF IInv, Roles, Selecting
  <2>2. UNCHANGED <<status, pending>> /\ \A k \in Node \ {selector} : task'[k] = task[k]
    BY <1>0, <1>000, <1>14, <2>1, HandleWitnessReplyEffect DEF HandleWitnessReply
  <2>3. CASE task' = [task EXCEPT ![selector] = [task[selector] EXCEPT !.step = "seeking", !.peer = NoPeer]]
    <3>1. task'[selector].step = "seeking"
      BY <1>0, <2>3 DEF TypeOK, Task
    <3>2. net' = net \ {m} \/ m.accepted
      BY <1>14 DEF HandleWitnessReply
    <3>3. net' = net \ {m}
      BY <1>000, <1>14, <1>0, <2>1, <3>1 DEF HandleWitnessReply, TypeOK, Task
    <3>4. UNCHANGED <<Setup, Notices>>
      BY <1>14, <3>3 DEF HandleWitnessReply, Setup, Notices
    <3> QED
      BY <1>0, <1>00, <2>1, <2>2, <3>1, <3>3, <3>4, KeepsCalm DEF Calm
  <2>4. CASE /\ task' = [task EXCEPT ![selector].step = "notified"]
             /\ net' = (net \ {m}) \cup
                  {[type |-> "notify", from |-> selector, to |-> o, witness |-> m.from]}
    <3>1. task'[selector].step = "notified"
      BY <1>0, <2>4 DEF TypeOK, Task
    <3>2. ~HasTold /\ HasTold'
      BY <1>0, <1>00, <2>1, <3>1, NotOpenYet DEF HasTold, Selecting
    <3>3. Setup' = Setup /\ Notices' = {[type |-> "notify", from |-> selector, to |-> o, witness |-> m.from]}
      BY <1>14, <2>4, <3>2 DEF HandleWitnessReply, Setup, Notices, Calm
    <3>4. Ready /\ Ready'
      BY <1>0, <1>00, <2>1, <2>2, <3>3 DEF Ready, Calm, ConnectReply
    <3>5. task'[Sender].step = "connecting" <=> task[Sender].step = "connecting"
      BY <1>0, <2>1, <2>2, <3>1
    <3>6. /\ \A k \in Node : task'[k].step # "closing"
          /\ \A k \in net' : k.type # "close"
      BY <2>2, <2>4, <3>1 DEF Calm
    <3>7. pending[selector] # "select"
      BY <1>0, <2>1 DEF IInv, OneGoroutine, Selecting
    <3> QED
      BY <1>0, <1>00, <2>1, <2>2, <3>1, <3>2, <3>3, <3>4, <3>5, <3>6, <3>7 DEF Calm, ConnectReply
  <2> QED
    BY <1>000, <1>14, <2>1, <2>3, <2>4 DEF HandleWitnessReply
<1>15. ASSUME NEW m \in net, HandleNotification(m) PROVE Calm'
  <2>1. m \in Notices /\ Free(m.to)
    BY <1>15 DEF HandleNotification, Notices
  <2>2. HasTold /\ Ready /\ Notices = {m} /\ m.to = o /\ m.from = selector /\ m.witness \in Node
    BY <1>0, <2>1 DEF Calm
  <2>3. status[o] = "AwaitingWitness" /\ OtherEnd(o) = selector
    BY <1>0, <2>1, <2>2 DEF Ready, Free, OtherEnd
  <2>4. /\ status' = [status EXCEPT ![o] = "Open"]
        /\ net' = net \ {m} /\ UNCHANGED <<pending, task>>
    BY <1>15, <2>2, <2>3 DEF HandleNotification, TakesNotification
  <2>5. status'[o] = "Open" /\ status'[selector] = status[selector]
    BY <1>0, <2>4 DEF TypeOK
  <2>6. Setup' = Setup /\ Notices' = {}
    BY <2>1, <2>2, <2>4 DEF Setup, Notices
  <2>7. HasTold'
    BY <1>00, <2>2, <2>4, <2>5 DEF HasTold
  <2>8. /\ pending[selector] # "select" /\ task[selector].step \notin {"connecting", "seeking", "asking"}
    BY <1>0, <2>2, NotOpenYet DEF HasTold, IInv, OneGoroutine, Selecting
  <2>9. (status'[Receiver] = "None") <=> (status[Receiver] = "None")
    BY <1>0, <2>3, <2>5
  <2> QED
    BY <1>0, <1>00, <2>4, <2>5, <2>6, <2>7, <2>8, <2>9 DEF Calm, ConnectReply
<1>16. ASSUME NEW m \in net, HandleClose(m) \/ Lose(m) PROVE Calm'
  BY <1>000, <1>16 DEF HandleClose, Lose, Calm
<1>17. ASSUME NEW m \in net, DiscardReply(m) PROVE Calm'
  <2>1. m.type = "witnessReply"
    <3> SUFFICES ASSUME m.type = "connectReply" PROVE FALSE
      BY <1>17 DEF DiscardReply
    <3>1. task[Sender].step = "connecting" /\ m.to = Sender
      BY <1>0 DEF Setup, Calm, TypeOK, Message
    <3> QED
      BY <1>17, <3>1 DEF DiscardReply, AwaitsReply
  <2>2. UNCHANGED <<status, pending, task, Setup, Notices>> /\ net' \subseteq net
    BY <1>17, <2>1 DEF DiscardReply, Setup, Notices
  <2> QED
    BY <1>0, <1>00, <2>2, KeepsCalm DEF Calm
<1> QED
  BY <1>1, <1>2, <1>3, <1>4, <1>5, <1>6, <1>7, <1>8, <1>9, <1>10, <1>11, <1>12, <1>13, <1>14,
     <1>15, <1>16, <1>17 DEF Next, Application, Run, Handle

\* Closes are counted up only.
LEMMA ClosesGrow ==
  ASSUME TypeOK, [Next]_vars
  PROVE  closes' # 0 \/ closes' = closes
<1>1. ASSUME NEW n \in Node, CloseConnection(n) PROVE closes' # 0
  BY <1>1, BoundAssumption DEF CloseConnection, TypeOK
<1>2. CASE UNCHANGED closes
  BY <1>2
<1> QED
  BY <1>1, <1>2
  DEF Next, vars, Application, Run, Handle, Create, RequestConnection, ConnectTimeout, SelectWitness,
      RequestWitness, RequestClose, NoWitness, WitnessTimeout, FinishSelection, SetWitness,
      FinishClose, HandleConnect, HandleConnectReply, HandleWitness, HandleWitnessReply,
      HandleNotification, HandleClose, DiscardReply, Lose

\* The whole second invariant is kept.
LEMMA HalfStep == HInv /\ [Next]_vars => HInv'
<1> SUFFICES ASSUME HInv, [Next]_vars PROVE HInv'
  OBVIOUS
<1>1. IInv /\ TypeOK
  BY DEF HInv, IInv
<1>2. IInv'
  BY <1>1, InvStep
<1>3. ASSUME faults' = 0, closes' = 0, ~Refusals PROVE Calm'
  <2>1. faults = 0 /\ closes = 0 /\ Calm
    BY <1>1, <1>3, FaultsGrow, ClosesGrow DEF HInv
  <2>2. CASE UNCHANGED vars
    BY <2>1, <2>2
    DEF vars, Calm, Setup, Notices, HasTold, Ready, ConnectReply, OtherEnd
  <2> QED
    BY <1>1, <1>3, <2>1, <2>2, CalmStep
<1> QED
  BY <1>2, <1>3 DEF HInv

\* Without faults, refusals or closes no endpoint is Open alone: the
\* notification finds the other one AwaitingWitness, as its entry is locked
\* until the acceptance of the connection has been read (Node.Connect, the
\* notification handler).
THEOREM HalfOpenHolds == Spec => []HalfOpenNeedsFault
<1>1. HInv => HalfOpenNeedsFault
  BY DEF HInv, Calm, HasTold, Notices, HalfOpenNeedsFault
<1> QED
  BY HalfInit, HalfStep, <1>1, PTL DEF Spec

-----------------------------------------------------------------------------
(* Who hears of a close.                                                   *)

\* No call of CloseConnection has been made.
NobodyCloses ==
  /\ \A m \in net : m.type # "close"
  /\ \A n \in Node : task[n].step # "closing"

\* w makes the call, is about to be told of it, or has been sent the request.
HearsOfClose(w) ==
  \/ \E n \in Node : task[n].step = "closing" /\ (n = w \/ w \in task[n].left)
  \/ \E m \in net : m.type = "close" /\ m.to = w

\* The call was made with a witness to tell, and so it is told.
WitnessHears ==
  /\ Engaged # {}
  /\ \A w \in Engaged : status[w] = "Open" => HearsOfClose(w)

\* The call was made by an endpoint that knew of no witness.  Nobody tells it of
\* a close, so once it has learnt of a witness it is not Closed any more.
Blind(e) ==
  /\ \A m \in net : m.type = "close" => m.to # e
  /\ \A n \in Node : task[n].step = "closing" => n = e /\ e \notin task[n].left
  /\ witness[e] # NoPeer => status[e] # "Closed" /\ task[e].step # "closing"

\* A node that has saved itself as witness has an entry.
Entered == \A w \in Node \ Endpoints : witness[w] # NoPeer => status[w] # "None"

\* The close requests that are under way.
CloseRequests == {m \in net : m.type = "close"}

\* Without an entry a node is not asked to record anything, and no entry is
\* given up.
LEMMA EnteredStep ==
  ASSUME IInv, Entered, [Next]_vars
  PROVE  Entered'
<1> USE NodeAssumption
<1>0. TypeOK /\ Roles /\ OneGoroutine /\ selector \in Endpoints
  BY DEF IInv, TypeOK
<1>1. ASSUME UNCHANGED <<status, witness>> PROVE Entered'
  BY <1>1 DEF Entered
<1>2. ASSUME NEW e \in Endpoints, \A w \in Node \ {e} : status'[w] = status[w] /\ witness'[w] = witness[w]
      PROVE  Entered'
  BY <1>2 DEF Entered, Endpoints
<1>3. ASSUME NEW w \in Node, SetWitness(w) PROVE Entered'
  BY <1>0, <1>3 DEF SetWitness, Entered, OneGoroutine, TypeOK
<1>4. ASSUME NEW n \in Node, NoWitness(n) \/ FinishSelection(n) PROVE Entered'
  <2>1. n \in Endpoints
    BY <1>0, <1>4 DEF NoWitness, FinishSelection, Roles, Selecting
  <2> QED
    BY <1>0, <1>2, <1>4, <2>1 DEF NoWitness, FinishSelection, TypeOK
<1>5. ASSUME NEW n \in Node, FinishClose(n) PROVE Entered'
  BY <1>0, <1>5 DEF FinishClose, Entered, TypeOK
<1>6. ASSUME NEW m \in net, HandleConnect(m) PROVE Entered'
  <2>1. m.to \in Endpoints
    BY <1>0, <1>6 DEF HandleConnect, TypeOK, Message, Endpoints
  <2> QED
    BY <1>0, <1>2, <1>6, <2>1 DEF HandleConnect, TypeOK
<1>7. ASSUME NEW m \in net, HandleConnectReply(m) PROVE Entered'
  BY <1>0, <1>2, <1>7, HandleConnectReplyEffect DEF Endpoints
<1>8. ASSUME NEW m \in net, HandleWitness(m) PROVE Entered'
  BY <1>0, <1>8 DEF HandleWitness, Entered, TypeOK, Message
<1>9. ASSUME NEW m \in net, HandleWitnessReply(m) PROVE Entered'
  <2>1. m.to \in Endpoints
    BY <1>0, <1>9, HandleWitnessReplyEffect DEF Roles, Selecting
  <2> QED
    BY <1>0, <1>2, <1>9, <2>1, HandleWitnessReplyEffect
<1>10. ASSUME NEW m \in net, HandleNotification(m) PROVE Entered'
  <2>1. m.to \in Endpoints
    BY <1>0, <1>10 DEF HandleNotification, TypeOK, Message
  <2> QED
    BY <1>0, <1>2, <1>10, <2>1 DEF HandleNotification, TypeOK
<1>11. ASSUME NEW m \in net, HandleClose(m) PROVE Entered'
  BY <1>0, <1>11 DEF HandleClose, Entered, TypeOK, Message
<1>12. CASE Create
  BY <1>0, <1>2, <1>12 DEF Create, TypeOK, Endpoints
<1>13. ASSUME NEW n \in Node, NEW p \in Node, RequestWitness(n, p) \/ RequestClose(n, p) PROVE Entered'
  BY <1>1, <1>13 DEF RequestWitness, RequestClose
<1>14. ASSUME NEW n \in Node, CloseConnection(n) \/ WitnessTimeout(n) PROVE Entered'
  BY <1>1, <1>14 DEF CloseConnection, WitnessTimeout
<1>15. ASSUME NEW m \in net, DiscardReply(m) \/ Lose(m) PROVE Entered'
  BY <1>1, <1>15 DEF DiscardReply, Lose
<1>16. CASE RequestConnection \/ ConnectTimeout \/ SelectWitness \/ UNCHANGED vars
  BY <1>1, <1>16 DEF RequestConnection, ConnectTimeout, SelectWitness, vars
<1> QED
  BY <1>3, <1>4, <1>5, <1>6, <1>7, <1>8, <1>9, <1>10, <1>11, <1>12, <1>13, <1>14, <1>15, <1>16
  DEF Next, Application, Run, Handle

\* What a step says of the close.
CloseKnown ==
  /\ closes = 0 => NobodyCloses
  /\ closes = 1 /\ faults = 0 => WitnessHears \/ \E e \in Endpoints : Blind(e)

\* A step that has no part in the close keeps what is known of it, unless it
\* makes an endpoint Closed, or the witness Open.
LEMMA KeepsCloseKnown ==
  ASSUME TypeOK, CloseKnown, UNCHANGED <<closes, CloseRequests>>, faults' = 0 => faults = 0,
         \A n \in Node :
           /\ task'[n].step = "closing" <=> task[n].step = "closing"
           /\ task[n].step = "closing" => task'[n].left = task[n].left,
         \A w \in Node \ Endpoints : status'[w] = status[w],
         \A e \in Endpoints :
           \/ status'[e] = status[e] /\ witness'[e] = witness[e]
           \/ status'[e] # "Closed" /\ task[e].step # "closing"
  PROVE  CloseKnown'
<1> USE NodeAssumption
<1>1. NobodyCloses => NobodyCloses'
  BY DEF NobodyCloses, CloseRequests
<1>2. Engaged' = Engaged
  BY DEF Engaged
<1>3. \A w \in Node : HearsOfClose(w) => HearsOfClose(w)'
  BY DEF HearsOfClose, CloseRequests
<1>4. WitnessHears => WitnessHears'
  BY <1>2, <1>3 DEF WitnessHears, Engaged
<1>5. \A e \in Endpoints : Blind(e) => Blind(e)'
  BY DEF Blind, CloseRequests, Endpoints
<1> QED
  BY <1>1, <1>4, <1>5 DEF CloseKnown

\* What is known of the close is kept.
LEMMA CloseKnownStep ==
  ASSUME FInv, Entered, CloseKnown, [Next]_vars
  PROVE  CloseKnown'
<1> USE NodeAssumption
<1>0. TypeOK /\ Roles /\ OneGoroutine /\ IInv /\ selector \in Endpoints /\ Endpoints \subseteq Node
  BY DEF FInv, IInv, TypeOK
<1>00. faults' = 0 => faults = 0 /\ ~Fault
  BY <1>0, FaultsCounted, NoFault
<1>1. CASE UNCHANGED vars
  BY <1>0, <1>1, KeepsCloseKnown DEF vars, CloseRequests
<1>2. CASE Create
  <2>1. task[Sender].step # "closing" /\ status'[Sender] # "Closed"
    BY <1>0, <1>2 DEF Create, OneGoroutine, TypeOK, Endpoints
  <2>2. \A n \in Node \ {Sender} : status'[n] = status[n]
    BY <1>0, <1>2 DEF Create, TypeOK
  <2> QED
    BY <1>0, <1>2, <2>1, <2>2, KeepsCloseKnown DEF Create, CloseRequests, Endpoints
<1>3. CASE RequestConnection
  <2>1. CloseRequests' = CloseRequests
    BY <1>3 DEF RequestConnection, Send, SendFails, CloseRequests
  <2>2. task[Sender].step = "idle" /\ task'[Sender].step # "closing" /\ \A n \in Node \ {Sender} : task'[n] = task[n]
    BY <1>0, <1>3 DEF RequestConnection, Free, TypeOK, Idle, Endpoints
  <2> QED
    BY <1>0, <1>00, <1>3, <2>1, <2>2, KeepsCloseKnown DEF RequestConnection
<1>4. CASE ConnectTimeout
  <2>1. /\ task[Sender].step = "connecting" /\ task'[Sender].step = "idle"
        /\ \A n \in Node \ {Sender} : task'[n] = task[n]
    BY <1>0, <1>4 DEF ConnectTimeout, TypeOK, Idle, Endpoints
  <2> QED
    BY <1>0, <1>00, <1>4, <2>1, KeepsCloseKnown DEF ConnectTimeout, CloseRequests
<1>5. CASE SelectWitness
  <2>1. /\ task[Receiver].step = "idle" /\ task'[Receiver].step = "seeking"
        /\ \A n \in Node \ {Receiver} : task'[n] = task[n]
    BY <1>0, <1>5 DEF SelectWitness, StartSelection, Free, TypeOK, Idle, Endpoints
  <2> QED
    BY <1>0, <1>5, <2>1, KeepsCloseKnown DEF SelectWitness, CloseRequests
<1>6. ASSUME NEW n \in Node, NEW p \in Node, RequestWitness(n, p) PROVE CloseKnown'
  <2>1. CloseRequests' = CloseRequests /\ closes' = closes
    BY <1>6 DEF RequestWitness, Send, SendFails, CloseRequests
  <2> QED
    BY <1>0, <1>00, <1>6, <2>1, RequestWitnessEffect, KeepsCloseKnown
<1>7. ASSUME NEW n \in Node, NoWitness(n) \/ FinishSelection(n) PROVE CloseKnown'
  <2>1. n \in Endpoints /\ task[n].step \in Selecting
    BY <1>0, <1>7 DEF NoWitness, FinishSelection, Roles, Selecting
  <2>2. /\ task'[n].step = "idle" /\ \A k \in Node \ {n} : task'[k] = task[k]
        /\ status'[n] # "Closed"
        /\ \A k \in Node \ {n} : status'[k] = status[k] /\ witness'[k] = witness[k]
    BY <1>0, <1>7 DEF NoWitness, FinishSelection, TypeOK, Idle
  <2> QED
    BY <1>0, <1>7, <2>1, <2>2, KeepsCloseKnown DEF NoWitness, FinishSelection, CloseRequests, Selecting
<1>8. ASSUME NEW n \in Node, WitnessTimeout(n) PROVE CloseKnown'
  <2>1. task[n].step = "asking" /\ task'[n].step = "seeking" /\ \A k \in Node \ {n} : task'[k] = task[k]
    BY <1>0, <1>8 DEF WitnessTimeout, TypeOK, Task
  <2> QED
    BY <1>0, <1>00, <1>8, <2>1, KeepsCloseKnown DEF WitnessTimeout, CloseRequests
<1>9. ASSUME NEW w \in Node, SetWitness(w) PROVE CloseKnown'
  <2>1. CloseRequests' = CloseRequests
    BY <1>9 DEF SetWitness, CloseRequests
  <2>2. w \notin Endpoints /\ \A n \in Node \ {w} : witness'[n] = witness[n]
    BY <1>0, <1>9 DEF SetWitness, Roles, TypeOK
  <2> QED
    BY <1>0, <1>9, <2>1, <2>2, KeepsCloseKnown DEF SetWitness
<1>10. ASSUME NEW m \in net, HandleConnect(m) PROVE CloseKnown'
  <2>1. CloseRequests' = CloseRequests
    BY <1>10 DEF HandleConnect, CloseRequests
  <2>2. m.to \in Endpoints
    BY <1>0, <1>10 DEF HandleConnect, TypeOK, Message, Endpoints
  <2>3. /\ \A n \in Node \ {m.to} : status'[n] = status[n]
        /\ \/ status'[m.to] = status[m.to]
           \/ status'[m.to] # "Closed" /\ task[m.to].step # "closing"
    BY <1>0, <1>10, <2>2 DEF HandleConnect, CanAccept, TypeOK, OneGoroutine
  <2> QED
    BY <1>0, <1>10, <2>1, <2>2, <2>3, KeepsCloseKnown DEF HandleConnect
<1>11. ASSUME NEW m \in net, HandleConnectReply(m) PROVE CloseKnown'
  <2>1. CloseRequests' = CloseRequests /\ closes' = closes /\ faults' = faults
    BY <1>11 DEF HandleConnectReply, CloseRequests
  <2> QED
    BY <1>0, <1>11, <2>1, HandleConnectReplyEffect, KeepsCloseKnown DEF Endpoints
<1>12. ASSUME NEW m \in net, HandleWitnessReply(m) PROVE CloseKnown'
  <2>1. CloseRequests' = CloseRequests /\ closes' = closes
    BY <1>12 DEF HandleWitnessReply, CloseRequests
  <2>2. m.to \in Endpoints
    BY <1>0, <1>12, HandleWitnessReplyEffect DEF Roles, Selecting
  <2> QED
    BY <1>0, <1>00, <1>12, <2>1, <2>2, HandleWitnessReplyEffect, KeepsCloseKnown
<1>13. ASSUME NEW m \in net, HandleNotification(m) PROVE CloseKnown'
  <2>1. CloseRequests' = CloseRequests
    BY <1>13 DEF HandleNotification, CloseRequests
  <2>2. m.to \in Endpoints /\ task[m.to].step # "closing"
    BY <1>0, <1>13 DEF HandleNotification, TypeOK, Message, Free
  <2>3. /\ \A n \in Node \ {m.to} : status'[n] = status[n] /\ witness'[n] = witness[n]
        /\ \/ status'[m.to] = status[m.to] /\ witness'[m.to] = witness[m.to]
           \/ status'[m.to] # "Closed"
    BY <1>0, <1>13, <2>2 DEF HandleNotification, TypeOK
  <2> QED
    BY <1>0, <1>13, <2>1, <2>2, <2>3, KeepsCloseKnown DEF HandleNotification
<1>14. ASSUME NEW m \in net, DiscardReply(m) PROVE CloseKnown'
  <2>1. CloseRequests' = CloseRequests
    BY <1>14 DEF DiscardReply, CloseRequests
  <2> QED
    BY <1>0, <1>14, <2>1, KeepsCloseKnown DEF DiscardReply
<1>15. ASSUME NEW m \in net, Lose(m) PROVE CloseKnown'
  <2>1. NobodyCloses => NobodyCloses'
    BY <1>15 DEF Lose, NobodyCloses
  <2> QED
    BY <1>0, <1>15, <2>1, NoFault DEF Lose, CloseKnown
<1>16. ASSUME NEW m \in net, HandleWitness(m) PROVE CloseKnown'
  <2>1. CloseRequests' = CloseRequests
    BY <1>16 DEF HandleWitness, CloseRequests
  <2>2. CASE \A n \in Node : status'[n] = status[n]
    BY <1>0, <1>16, <2>1, <2>2, KeepsCloseKnown DEF HandleWitness
  <2>3. CASE m.to \notin Endpoints
    <3>1. \A e \in Endpoints : status'[e] = status[e]
      BY <1>0, <1>16, <2>3 DEF HandleWitness, TypeOK
    <3>2. \A e \in Endpoints : Blind(e) => Blind(e)'
      BY <1>16, <2>1, <3>1 DEF HandleWitness, Blind, CloseRequests
    <3>3. NobodyCloses => NobodyCloses'
      BY <1>16, <2>1 DEF HandleWitness, NobodyCloses, CloseRequests
    <3>4. faults = 0 => ~WitnessHears
      <4>1. m \in Talk /\ m.type = "witness"
        BY <1>16 DEF HandleWitness, Talk
      <4> QED
        BY <4>1 DEF FInv, OneAsked, Waited, Reply, WitnessHears
    <3> QED
      BY <1>16, <3>2, <3>3, <3>4 DEF HandleWitness, CloseKnown
  <2> QED
    BY <1>16, <2>2, <2>3 DEF HandleWitness
<1>17. ASSUME NEW n \in Node, CloseConnection(n) PROVE CloseKnown'
  <2>1. /\ closes \in Nat /\ closes' = closes + 1 /\ UNCHANGED <<status, witness, net, faults>>
        /\ task'[n].step = "closing" /\ task'[n].left = CloseTargets(n)
        /\ \A k \in Node \ {n} : task'[k] = task[k]
        /\ status[n] \notin {"None", "Closed"}
    BY <1>0, <1>17, BoundAssumption DEF CloseConnection, TypeOK, Idle
  <2>2. SUFFICES ASSUME closes = 0, faults = 0, NobodyCloses
                 PROVE  WitnessHears' \/ \E e \in Endpoints : Blind(e)'
    BY <2>1 DEF CloseKnown
  <2>3. Engaged' = Engaged /\ \A v, w \in Engaged : v = w
    BY <2>1, <2>2 DEF Engaged, FInv, OneAsked
  <2>4. CASE n \notin Endpoints
    <3>1. Engaged = {n}
      BY <2>1, <2>3, <2>4 DEF Engaged
    <3>2. HearsOfClose(n)'
      BY <2>1 DEF HearsOfClose
    <3> QED
      BY <2>3, <3>1, <3>2 DEF WitnessHears
  <2>5. CASE n \in Endpoints /\ witness[n] = NoPeer
    <3>1. n \notin task'[n].left
      BY <2>1 DEF CloseTargets
    <3> QED
      BY <2>1, <2>2, <2>5, <3>1 DEF Blind, NobodyCloses
  <2>6. CASE n \in Endpoints /\ witness[n] # NoPeer
    <3>1. Willing(witness[n]) /\ witness[n] \in Node \ Endpoints
      BY <2>6 DEF FInv, IInv, Vouched, Willing
    <3>2. witness[n] \in Engaged
      BY <3>1 DEF Willing, Entered, Engaged
    <3>3. Engaged = {witness[n]}
      BY <2>3, <3>2
    <3>4. witness[n] \in task'[n].left
      BY <2>1, <2>6, <3>1 DEF CloseTargets
    <3>5. HearsOfClose(witness[n])'
      BY <2>1, <3>4 DEF HearsOfClose
    <3> QED
      BY <2>1, <2>3, <3>3, <3>5 DEF WitnessHears
  <2> QED
    BY <2>4, <2>5, <2>6
<1>18. ASSUME NEW n \in Node, NEW p \in Node, RequestClose(n, p) PROVE CloseKnown'
  <2>1. /\ task[n].step = "closing" /\ p \in task[n].left
        /\ UNCHANGED <<status, witness, closes>>
    BY <1>18 DEF RequestClose, NextToClose
  <2>2. SUFFICES ASSUME closes = 1, faults = 0, faults' = 0, WitnessHears \/ \E e \in Endpoints : Blind(e)
                 PROVE  WitnessHears' \/ \E e \in Endpoints : Blind(e)'
    BY <1>00, <2>1 DEF CloseKnown, NobodyCloses
  <2>3. /\ net' = net \cup {[type |-> "close", from |-> n, to |-> p, call |-> task[n].call]}
        /\ task' = [task EXCEPT ![n].left = task[n].left \ {p}]
    BY <1>00, <1>18, <2>2 DEF RequestClose, Send, SendFails
  <2>4. /\ task'[n].step = "closing" /\ task'[n].left = task[n].left \ {p}
        /\ \A k \in Node \ {n} : task'[k] = task[k]
    BY <1>0, <2>1, <2>3 DEF TypeOK, Task
  <2>5. Engaged' = Engaged
    BY <2>1 DEF Engaged
  <2>6. \A w \in Node : HearsOfClose(w) => HearsOfClose(w)'
    <3> SUFFICES ASSUME NEW w \in Node, HearsOfClose(w) PROVE HearsOfClose(w)'
      OBVIOUS
    <3>1. CASE w = p
      <4> DEFINE request == [type |-> "close", from |-> n, to |-> p, call |-> task[n].call]
      <4>1. request \in net' /\ request.type = "close" /\ request.to = w
        BY <2>3, <3>1
      <4>2. \E m \in net' : m.type = "close" /\ m.to = w
        BY <4>1
      <4> QED
        BY <4>2 DEF HearsOfClose
    <3>2. CASE \E m \in net : m.type = "close" /\ m.to = w
      BY <2>3, <3>2 DEF HearsOfClose
    <3>3. CASE w # p /\ \E k \in Node : task[k].step = "closing" /\ (k = w \/ w \in task[k].left)
      BY <2>4, <3>3 DEF HearsOfClose
    <3> QED
      BY <3>1, <3>2, <3>3 DEF HearsOfClose
  <2>7. WitnessHears => WitnessHears'
    BY <2>1, <2>5, <2>6 DEF WitnessHears, Engaged
  <2>8. ASSUME NEW e \in Endpoints, Blind(e) PROVE Blind(e)'
    BY <2>1, <2>3, <2>4, <2>8 DEF Blind
  <2> QED
    BY <2>2, <2>7, <2>8
<1>19. ASSUME NEW n \in Node, FinishClose(n) PROVE CloseKnown'
  <2>1. /\ task[n].step = "closing" /\ task[n].left = {} /\ task'[n].step = "idle"
        /\ \A k \in Node \ {n} : task'[k] = task[k] /\ status'[k] = status[k]
        /\ status[n] # "None" /\ status'[n] \in {"Closing", "Closed"}
        /\ UNCHANGED <<witness, net, closes, faults>>
    BY <1>0, <1>19 DEF FinishClose, TypeOK, Idle, OneGoroutine
  <2>2. SUFFICES ASSUME closes = 1, faults = 0, WitnessHears \/ \E e \in Endpoints : Blind(e)
                 PROVE  WitnessHears' \/ \E e \in Endpoints : Blind(e)'
    BY <2>1 DEF CloseKnown, NobodyCloses
  <2>3. Engaged' = Engaged
    BY <2>1 DEF Engaged
  <2>4. \A w \in Node \ {n} : HearsOfClose(w) => HearsOfClose(w)'
    BY <2>1 DEF HearsOfClose
  <2>5. WitnessHears => WitnessHears'
    BY <2>1, <2>3, <2>4 DEF WitnessHears, Engaged
  <2>6. ASSUME NEW e \in Endpoints, Blind(e) PROVE Blind(e)'
    BY <1>0, <2>1, <2>6 DEF Blind
  <2> QED
    BY <2>2, <2>5, <2>6
<1>20. ASSUME NEW m \in net, HandleClose(m) PROVE CloseKnown'
  <2>1. /\ m.to \in Node /\ m.type = "close"
        /\ net' = net \ {m} /\ UNCHANGED <<witness, task, closes, faults>>
        /\ \A k \in Node \ {m.to} : status'[k] = status[k]
        /\ status'[m.to] = "None" <=> status[m.to] = "None"
        /\ status'[m.to] # "Open"
    BY <1>0, <1>20 DEF HandleClose, TypeOK, Message
  <2>2. SUFFICES ASSUME closes = 1, faults = 0, WitnessHears \/ \E e \in Endpoints : Blind(e)
                 PROVE  WitnessHears' \/ \E e \in Endpoints : Blind(e)'
    BY <2>1 DEF CloseKnown, NobodyCloses
  <2>3. Engaged' = Engaged
    BY <2>1 DEF Engaged
  <2>4. \A w \in Node \ {m.to} : HearsOfClose(w) => HearsOfClose(w)'
    BY <2>1 DEF HearsOfClose
  <2>5. WitnessHears => WitnessHears'
    BY <2>1, <2>3, <2>4 DEF WitnessHears, Engaged
  <2>6. ASSUME NEW e \in Endpoints, Blind(e) PROVE Blind(e)'
    BY <1>0, <2>1, <2>6 DEF Blind
  <2> QED
    BY <2>2, <2>5, <2>6
<1> QED
  BY <1>1, <1>2, <1>3, <1>4, <1>5, <1>6, <1>7, <1>8, <1>9, <1>10, <1>11, <1>12, <1>13, <1>14, <1>15,
     <1>16, <1>17, <1>18, <1>19, <1>20
  DEF Next, Application, Run, Handle

CInv == FInv /\ Entered /\ CloseKnown

\* The third invariant holds before anything is said.
LEMMA CloseInit == Init => CInv
<1> SUFFICES ASSUME Init PROVE CInv
  OBVIOUS
<1>1. FInv
  BY FaultInit
<1>2. Entered /\ NobodyCloses /\ closes = 0
  BY DEF Init, Entered, NobodyCloses, Idle
<1> QED
  BY <1>1, <1>2 DEF CInv, CloseKnown

\* Every step keeps it.
LEMMA CloseStep == CInv /\ [Next]_vars => CInv'
<1> SUFFICES ASSUME CInv, [Next]_vars PROVE CInv'
  OBVIOUS
<1>1. FInv'
  BY FaultStep DEF CInv
<1>2. Entered' /\ CloseKnown'
  BY EnteredStep, CloseKnownStep DEF CInv, FInv
<1> QED
  BY <1>1, <1>2 DEF CInv

\* One undisturbed close reaches the witness both endpoints have recorded,
\* wherever in the setup it comes (CloseConnection, the close handler).
THEOREM WitnessToldHolds == Spec => []WitnessToldOfClose
<1>1. CInv => WitnessToldOfClose
  <2> SUFFICES ASSUME CInv, closes = 1, faults = 0, Quiet,
                      \A e \in Endpoints : status[e] = "Closed" /\ witness[e] # NoPeer
               PROVE  status[witness[Sender]] # "Open"
    BY DEF WitnessToldOfClose
  <2>1. \A e \in Endpoints : ~Blind(e)
    BY DEF Blind
  <2>2. WitnessHears
    BY <2>1 DEF CInv, CloseKnown
  <2>3. witness[Sender] \in Node \ Endpoints /\ witness[witness[Sender]] = witness[Sender]
    BY DEF CInv, FInv, IInv, Vouched, Willing, Endpoints
  <2>4. witness[Sender] \in Engaged
    BY <2>3, NodeAssumption DEF CInv, Entered, Engaged
  <2>5. ~HearsOfClose(witness[Sender])
    BY DEF HearsOfClose, Quiet, Free
  <2> QED
    BY <2>2, <2>4, <2>5 DEF WitnessHears
<1> QED
  BY CloseInit, CloseStep, <1>1, PTL DEF Spec
=============================================================================
