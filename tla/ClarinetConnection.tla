------------------------ MODULE ClarinetConnection ------------------------
(***************************************************************************)
(* One Clarinet connection, from Node.Connect to CloseConnection, as the   *)
(* nodes of the network store it and talk about it: v2/goclarinet.go (the  *)
(* operations of the application), v2/handlers.go (the handlers the        *)
(* transport calls), over the contract of the connection store and of the  *)
(* transport that starterimpl/inmem and starterimpl/libp2p give them.      *)
(*                                                                         *)
(* Connections have random IDs, separate store entries and separate locks, *)
(* and no handler of one reads another, so one is followed at a time.      *)
(* Each handler is taken to get the request of its own stream; what the    *)
(* transport makes of requests that come together is in StreamTransport.   *)
(*                                                                         *)
(* ConnectionStore.Update runs a closure with the entry's lock held, for   *)
(* as long as the closure runs, exchanges with other nodes included; the   *)
(* record changes only when the closure returns.  task[n] is the closure   *)
(* in progress at n, and the lock of n's entry is free exactly when there  *)
(* is none.                                                                *)
(***************************************************************************)
EXTENDS Integers, FiniteSets

CONSTANTS
  Node,         \* the peers of the network
  Sender,       \* the node whose application calls Connect
  Receiver,     \* the node it connects to
  NoPeer,       \* Go's nil peer.ID
  TrustedPeers, \* TrustedPeers[n]: the peers in n's peer store n.trusts accepts
  MaxFaults,    \* bound on lost messages, failed sends and answers given up on
  MaxCloses,    \* bound on calls of CloseConnection
  Refusals      \* whether the application's own handlers ever refuse

Endpoints == {Sender, Receiver}

ASSUME NodeAssumption ==
  /\ Endpoints \subseteq Node
  /\ Sender # Receiver
  /\ NoPeer \notin Node
ASSUME TrustAssumption == TrustedPeers \in [Node -> SUBSET Node]
ASSUME BoundAssumption ==
  /\ MaxFaults \in Nat
  /\ MaxCloses \in Nat
  /\ Refusals \in BOOLEAN

VARIABLES
  status,    \* status[n]: the connection's status in n's store, "None" without an entry
  witness,   \* witness[n]: the witness in n's store
  pending,   \* pending[n]: a goroutine of n about to call Update
  task,      \* task[n]: the Update closure n is running, Idle if none
  selector,  \* the WitnessSelector the application passes to Connect
  net,       \* messages written and not yet handled
  faults,    \* faults so far
  closes     \* calls of CloseConnection so far

vars == <<status, witness, pending, task, selector, net, faults, closes>>

Status == {"RequestingReceiver", "AwaitingWitness", "RequestingWitness",
           "NotifyingOfWitness", "Open", "Closing", "Closed"}

Pending == {"none", "connect", "select", "setWitness"}

Step == {"idle", "connecting", "seeking", "asking", "notified", "closing"}

Task == [step : Step,
         left : SUBSET Node,            \* peers the closure has yet to contact
         peer : Node \cup {NoPeer},     \* candidate asked, or witness found
         failed : BOOLEAN,              \* whether a close request could not be sent
         call : 0 .. MaxCloses]         \* the CloseConnection call it serves

Idle == [step |-> "idle", left |-> {}, peer |-> NoPeer, failed |-> FALSE, call |-> 0]

Message ==
  [type : {"connect"}, from : {Sender}, to : {Receiver}]
    \cup [type : {"connectReply"}, from : {Receiver}, to : {Sender}, accepted : BOOLEAN]
    \cup [type : {"witness"}, from : Node, to : Node]
    \cup [type : {"witnessReply"}, from : Node, to : Node, accepted : BOOLEAN]
    \cup [type : {"notify"}, from : Node, to : Endpoints, witness : Node]
    \cup [type : {"close"}, from : Node, to : Node, call : 0 .. MaxCloses]

TypeOK ==
  /\ status \in [Node -> Status \cup {"None"}]
  /\ witness \in [Node -> Node \cup {NoPeer}]
  /\ pending \in [Node -> Pending]
  /\ task \in [Node -> Task]
  /\ selector \in Endpoints
  /\ net \subseteq Message
  /\ faults \in 0 .. MaxFaults
  /\ closes \in 0 .. MaxCloses

Init ==
  /\ status = [n \in Node |-> "None"]
  /\ witness = [n \in Node |-> NoPeer]
  /\ pending = [n \in Node |-> "none"]
  /\ task = [n \in Node |-> Idle]
  /\ selector \in Endpoints
  /\ net = {}
  /\ faults = 0
  /\ closes = 0

-----------------------------------------------------------------------------
(* The lock of an entry, and the transport.                                *)

\* Mutant: Update does not take the entry's lock.
NoLock(n) == n \in Node

\* Nobody holds the lock of n's entry.
Free(n) == task[n].step = "idle"

\* One more fault, within the bound.
Fault ==
  /\ faults < MaxFaults
  /\ faults' = faults + 1

\* transport.Send and the first half of Exchange: the bytes are written, or
\* the stream cannot be opened or written and the caller sees an error.
Send(m) ==
  /\ net' = net \cup {m}
  /\ UNCHANGED faults

SendFails ==
  /\ Fault
  /\ UNCHANGED net

\* Another endpoint of the connection.
OtherEnd(n) == IF n = Sender THEN Receiver ELSE Sender

\* Mutant: an answer is not tied to the candidate it comes from.
AwaitsAnyReply(m) ==
  \/ m.type = "connectReply" /\ task[m.to].step = "connecting"
  \/ m.type = "witnessReply" /\ task[m.to].step = "asking"

\* n is still reading the stream on which reply m comes.
AwaitsReply(m) ==
  \/ /\ m.type = "connectReply"
     /\ task[m.to].step = "connecting"
  \/ /\ m.type = "witnessReply"
     /\ task[m.to].step = "asking"
     /\ task[m.to].peer = m.from

\* The answer n waits for can still come.
AnswerPossible(n) ==
  \/ task[n].step = "connecting" /\ \E m \in net : m.type \in {"connect", "connectReply"}
  \/ /\ task[n].step = "asking"
     /\ \/ \E m \in net : m.type = "witness" /\ m.from = n /\ m.to = task[n].peer
        \/ \E m \in net : m.type = "witnessReply" /\ m.to = n /\ m.from = task[n].peer
        \/ pending[task[n].peer] = "setWitness"

\* The read deadline of an Exchange passes.  Passing while the answer could
\* still come counts as a fault.
DeadlinePasses(n) ==
  IF AnswerPossible(n) THEN Fault ELSE UNCHANGED faults

-----------------------------------------------------------------------------
(* Node.Connect, at the sender.                                            *)

\* connectionStore.Create; the goroutine goes on to Update the new entry.
Create ==
  /\ status[Sender] = "None"
  /\ status' = [status EXCEPT ![Sender] = "RequestingReceiver"]
  /\ pending' = [pending EXCEPT ![Sender] = "connect"]
  /\ UNCHANGED <<witness, task, selector, net, faults, closes>>

\* Update takes the lock and requestConnection writes the ConnectRequest.
\* When that fails the closure returns a nil connection: nothing is saved.
RequestConnection ==
  /\ pending[Sender] = "connect"
  /\ Free(Sender)
  /\ pending' = [pending EXCEPT ![Sender] = "none"]
  /\ \/ /\ Send([type |-> "connect", from |-> Sender, to |-> Receiver])
        /\ task' = [task EXCEPT ![Sender] = [Idle EXCEPT !.step = "connecting"]]
     \/ SendFails /\ UNCHANGED task
  /\ UNCHANGED <<status, witness, selector, closes>>

\* witnessCandidates: every trusted peer that is not an endpoint.
WitnessCandidates(n) == TrustedPeers[n] \ Endpoints

\* handleWitnessSelection at the node that selects: the working copy of the
\* connection becomes RequestingWitness and findWitness starts.
StartSelection(n) ==
  task' = [task EXCEPT ![n] = [Idle EXCEPT !.step = "seeking", !.left = WitnessCandidates(n)]]

\* The ConnectResponse.  Errors and a rejection are alike to the caller: the
\* closure returns nil.  An acceptance goes on to handleWitnessSelection.
HandleConnectReply(m) ==
  /\ m.type = "connectReply"
  /\ AwaitsReply(m)
  /\ net' = net \ {m}
  /\ \/ /\ ~m.accepted
        /\ task' = [task EXCEPT ![Sender] = Idle]
        /\ UNCHANGED status
     \/ /\ m.accepted
        /\ selector = Receiver
        /\ status' = [status EXCEPT ![Sender] = "AwaitingWitness"]
        /\ task' = [task EXCEPT ![Sender] = Idle]
     \/ /\ m.accepted
        /\ selector = Sender
        /\ StartSelection(Sender)
        /\ UNCHANGED status
  /\ UNCHANGED <<witness, pending, selector, faults, closes>>

\* Exchange returns an error after the request was written.
ConnectTimeout ==
  /\ task[Sender].step = "connecting"
  /\ DeadlinePasses(Sender)
  /\ task' = [task EXCEPT ![Sender] = Idle]
  /\ UNCHANGED <<status, witness, pending, selector, net, closes>>

-----------------------------------------------------------------------------
(* Selecting the witness, in the closure of Connect at the sender or in    *)
(* the goroutine the connect handler starts at the receiver.               *)

\* The goroutine's Update takes the lock.  Whatever has happened to the
\* connection since it was accepted, handleWitnessSelection does not look at
\* its status.
SelectWitness ==
  /\ pending[Receiver] = "select"
  /\ Free(Receiver)
  /\ pending' = [pending EXCEPT ![Receiver] = "none"]
  /\ StartSelection(Receiver)
  /\ UNCHANGED <<status, witness, selector, net, faults, closes>>

\* findWitness asks the next candidate, or cannot reach it and moves on.
RequestWitness(n, p) ==
  /\ task[n].step = "seeking"
  /\ p \in task[n].left
  /\ \/ /\ Send([type |-> "witness", from |-> n, to |-> p])
        /\ task' = [task EXCEPT ![n] =
                      [@ EXCEPT !.step = "asking", !.left = task[n].left \ {p}, !.peer = p]]
     \/ /\ SendFails
        /\ task' = [task EXCEPT ![n].left = @ \ {p}]
  /\ UNCHANGED <<status, witness, pending, selector, closes>>

\* No candidate is left: the closure returns an error and the working copy,
\* which Update saves.
NoWitness(n) ==
  /\ task[n].step = "seeking"
  /\ task[n].left = {}
  /\ status' = [status EXCEPT ![n] = "RequestingWitness"]
  /\ task' = [task EXCEPT ![n] = Idle]
  /\ UNCHANGED <<witness, pending, selector, net, faults, closes>>

\* Mutant: any Errors list, the empty one of an acceptance too, is an error.
TakeAcceptanceForError(m) ==
  /\ m.type = "witnessReply"
  /\ AwaitsReply(m)
  /\ net' = net \ {m}
  /\ task' = [task EXCEPT ![m.to] = [@ EXCEPT !.step = "seeking", !.peer = NoPeer]]
  /\ UNCHANGED <<status, witness, pending, selector, faults, closes>>

\* The WitnessResponse.  A refusal moves on to the next candidate.  On an
\* acceptance the working copy gets the witness and NotifyingOfWitness and
\* the other endpoint is notified; if that cannot be written, the working
\* copy is saved as it is and the closure ends with an error.
HandleWitnessReply(m) ==
  /\ m.type = "witnessReply"
  /\ AwaitsReply(m)
  /\ LET n == m.to
         w == m.from
     IN  \/ /\ ~m.accepted
            /\ net' = net \ {m}
            /\ task' = [task EXCEPT ![n] = [@ EXCEPT !.step = "seeking", !.peer = NoPeer]]
            /\ UNCHANGED <<status, witness, faults>>
         \/ /\ m.accepted
            /\ net' = (net \ {m}) \cup
                 {[type |-> "notify", from |-> n, to |-> OtherEnd(n), witness |-> w]}
            /\ task' = [task EXCEPT ![n].step = "notified"]
            /\ UNCHANGED <<status, witness, faults>>
         \/ /\ m.accepted
            /\ Fault
            /\ net' = net \ {m}
            /\ status' = [status EXCEPT ![n] = "NotifyingOfWitness"]
            /\ witness' = [witness EXCEPT ![n] = w]
            /\ task' = [task EXCEPT ![n] = Idle]
  /\ UNCHANGED <<pending, selector, closes>>

\* Mutant: Exchange sets no read deadline.
NoReadDeadline(n) == n \notin Node

\* requestWitness returns an error after the request was written, and
\* findWitness moves on.
WitnessTimeout(n) ==
  /\ task[n].step = "asking"
  /\ DeadlinePasses(n)
  /\ task' = [task EXCEPT ![n] = [@ EXCEPT !.step = "seeking", !.peer = NoPeer]]
  /\ UNCHANGED <<status, witness, pending, selector, net, closes>>

\* The closure returns the connection Open and Update saves it.
FinishSelection(n) ==
  /\ task[n].step = "notified"
  /\ status' = [status EXCEPT ![n] = "Open"]
  /\ witness' = [witness EXCEPT ![n] = task[n].peer]
  /\ task' = [task EXCEPT ![n] = Idle]
  /\ UNCHANGED <<pending, selector, net, faults, closes>>

-----------------------------------------------------------------------------
(* The handlers.  A handler that calls Update runs once the lock is free.  *)

\* A node accepts only what it has no entry for yet.
CanAccept(n) == status[n] = "None"

\* connectHandlerAdapter.Handle at the receiver.  Accepting saves the entry
\* and, when the receiver selects, starts the goroutine that will do so.
HandleConnect(m) ==
  /\ m.type = "connect"
  /\ LET reply(ok) == [type |-> "connectReply", from |-> m.to, to |-> m.from, accepted |-> ok]
     IN  \/ /\ CanAccept(m.to)
            /\ status' = [status EXCEPT ![m.to] = "AwaitingWitness"]
            /\ pending' = IF selector = m.to THEN [pending EXCEPT ![m.to] = "select"] ELSE pending
            /\ net' = (net \ {m}) \cup {reply(TRUE)}
         \/ /\ Refusals \/ ~CanAccept(m.to)
            /\ net' = (net \ {m}) \cup {reply(FALSE)}
            /\ UNCHANGED <<status, pending>>
  /\ UNCHANGED <<witness, task, selector, faults, closes>>

\* Mutant: the acceptance is written before the entry has its witness.
ReplyBeforeUpdate(m) ==
  /\ m.type = "witness"
  /\ m.to \notin Endpoints /\ CanAccept(m.to)
  /\ status' = [status EXCEPT ![m.to] = "Open"]
  /\ pending' = [pending EXCEPT ![m.to] = "setWitness"]
  /\ net' = (net \ {m}) \cup
       {[type |-> "witnessReply", from |-> m.to, to |-> m.from, accepted |-> TRUE]}
  /\ UNCHANGED <<witness, task, selector, faults, closes>>

\* witnessHandlerAdapter.Handle up to connectionStore.Accept, which saves the
\* entry Open and without a witness.  The handler's Update follows.
HandleWitness(m) ==
  /\ m.type = "witness"
  /\ LET mayWitness == m.to \notin Endpoints /\ CanAccept(m.to)
     IN  \/ /\ mayWitness
            /\ status' = [status EXCEPT ![m.to] = "Open"]
            /\ pending' = [pending EXCEPT ![m.to] = "setWitness"]
            /\ net' = net \ {m}
         \/ /\ Refusals \/ ~mayWitness
            /\ net' = (net \ {m}) \cup
                 {[type |-> "witnessReply", from |-> m.to, to |-> m.from, accepted |-> FALSE]}
            /\ UNCHANGED <<status, pending>>
  /\ UNCHANGED <<witness, task, selector, faults, closes>>

\* The rest of the witness handler: the entry gets its witness, whatever its
\* status is by now, and the acceptance is written.
SetWitness(w) ==
  /\ pending[w] = "setWitness"
  /\ Free(w)
  /\ pending' = [pending EXCEPT ![w] = "none"]
  /\ witness' = [witness EXCEPT ![w] = w]
  /\ net' = net \cup {[type |-> "witnessReply", from |-> w, to |-> selector, accepted |-> TRUE]}
  /\ UNCHANGED <<status, task, selector, faults, closes>>

\* Mutant: the status is not checked.
TakesInAnyStatus(m) == m.from = OtherEnd(m.to)

\* Mutant: only the sender may notify.
TakesFromSender(m) == status[m.to] = "AwaitingWitness" /\ m.from = Sender

\* The conditions under which a witness notification is taken up.
TakesNotification(m) ==
  /\ status[m.to] = "AwaitingWitness"
  /\ m.from = OtherEnd(m.to)

\* witnessNotificationHandlerAdapter.Handle.
HandleNotification(m) ==
  /\ m.type = "notify"
  /\ Free(m.to)
  /\ net' = net \ {m}
  /\ \/ /\ TakesNotification(m)
        /\ witness' = [witness EXCEPT ![m.to] = m.witness]
        /\ status' = [status EXCEPT ![m.to] = "Open"]
     \/ /\ Refusals \/ ~TakesNotification(m)
        /\ UNCHANGED <<witness, status>>
  /\ UNCHANGED <<pending, task, selector, faults, closes>>

\* Mutant: only an Open connection can be closed by another participant.
CloseOnlyOpen(m) ==
  /\ m.type = "close"
  /\ Free(m.to)
  /\ net' = net \ {m}
  /\ status' = IF status[m.to] = "Open" THEN [status EXCEPT ![m.to] = "Closed"] ELSE status
  /\ UNCHANGED <<witness, pending, task, selector, faults, closes>>

\* closeHandlerAdapter.Handle: nothing without an entry or when already
\* Closed; an error of the application's handler leaves the connection
\* Closing.
HandleClose(m) ==
  /\ m.type = "close"
  /\ Free(m.to)
  /\ net' = net \ {m}
  /\ \/ /\ status[m.to] \in {"None", "Closed"}
        /\ UNCHANGED status
     \/ /\ status[m.to] \notin {"None", "Closed"}
        /\ status' = [status EXCEPT ![m.to] = "Closed"]
     \/ /\ status[m.to] \notin {"None", "Closed"}
        /\ Refusals
        /\ status' = [status EXCEPT ![m.to] = "Closing"]
  /\ UNCHANGED <<witness, pending, task, selector, faults, closes>>

\* A reply whose requester has given up finds its stream reset.
DiscardReply(m) ==
  /\ m.type \in {"connectReply", "witnessReply"}
  /\ ~AwaitsReply(m)
  /\ net' = net \ {m}
  /\ UNCHANGED <<status, witness, pending, task, selector, faults, closes>>

\* A stream is reset, or its other end is gone, before the message is handled.
Lose(m) ==
  /\ Fault
  /\ net' = net \ {m}
  /\ UNCHANGED <<status, witness, pending, task, selector, closes>>

-----------------------------------------------------------------------------
(* Node.CloseConnection, at any node that has an entry.                    *)

\* Mutant: the check for a connection without a witness is missing.
CloseTargetsWithNil(n) == {Sender, witness[n], Receiver} \ {n}

\* Mutant: only the endpoints are told.
CloseEndpointsOnly(n) == Endpoints \ {n}

\* The other participants the caller knows of.
CloseTargets(n) == {Sender, witness[n], Receiver} \ {n, NoPeer}

\* Update takes the lock; an already Closed connection is left alone.
CloseConnection(n) ==
  /\ closes < MaxCloses
  /\ status[n] \notin {"None", "Closed"}
  /\ Free(n)
  /\ closes' = closes + 1
  /\ task' = [task EXCEPT ![n] = [Idle EXCEPT !.step = "closing",
                                              !.left = CloseTargets(n),
                                              !.call = closes + 1]]
  /\ UNCHANGED <<status, witness, pending, selector, net, faults>>

\* The participants are told in the order sender, witness, receiver.
NextToClose(n, p) ==
  /\ p \in task[n].left
  /\ p # Sender => Sender \notin task[n].left
  /\ p = Receiver => task[n].left = {Receiver}

\* requestClose to one of them; a failure is collected and the rest are
\* still told.
RequestClose(n, p) ==
  /\ task[n].step = "closing"
  /\ NextToClose(n, p)
  /\ \/ /\ Send([type |-> "close", from |-> n, to |-> p, call |-> task[n].call])
        /\ task' = [task EXCEPT ![n].left = @ \ {p}]
     \/ /\ SendFails
        /\ task' = [task EXCEPT ![n] = [@ EXCEPT !.left = task[n].left \ {p}, !.failed = TRUE]]
  /\ UNCHANGED <<status, witness, pending, selector, closes>>

\* The closure returns Closed, or Closing when someone could not be told.
FinishClose(n) ==
  /\ task[n].step = "closing"
  /\ task[n].left = {}
  /\ status' = [status EXCEPT ![n] = IF task[n].failed THEN "Closing" ELSE "Closed"]
  /\ task' = [task EXCEPT ![n] = Idle]
  /\ UNCHANGED <<witness, pending, selector, net, faults, closes>>

-----------------------------------------------------------------------------
\* What the application may do.
Application ==
  \/ Create
  \/ \E n \in Node : CloseConnection(n)

\* What a goroutine of n that has been started goes on to do.
Run(n) ==
  \/ n = Sender /\ (RequestConnection \/ ConnectTimeout)
  \/ n = Receiver /\ SelectWitness
  \/ \E p \in Node : RequestWitness(n, p) \/ RequestClose(n, p)
  \/ NoWitness(n)
  \/ WitnessTimeout(n)
  \/ FinishSelection(n)
  \/ SetWitness(n)
  \/ FinishClose(n)

\* What the arrival of a message does.
Handle(m) ==
  \/ HandleConnect(m)
  \/ HandleConnectReply(m)
  \/ HandleWitness(m)
  \/ HandleWitnessReply(m)
  \/ HandleNotification(m)
  \/ HandleClose(m)
  \/ DiscardReply(m)

Next ==
  \/ Application
  \/ \E n \in Node : Run(n)
  \/ \E m \in net : Handle(m) \/ Lose(m)

Spec == Init /\ [][Next]_vars

\* What the arrival of some message at n does.
Deliver(n) == \E m \in net : m.to = n /\ Handle(m)

\* A goroutine that can run eventually runs, and a node that can handle a
\* message eventually handles one.  The application owes no calls, and faults
\* need not happen.
FairSpec ==
  /\ Spec
  /\ \A n \in Node : WF_vars(Run(n))
  /\ \A n \in Node : WF_vars(Deliver(n))

-----------------------------------------------------------------------------
(* Safety.                                                                 *)

\* An endpoint that shows the connection Open has a witness that has saved
\* itself as such, and the other endpoint knows of the connection: nobody is
\* Open on an answer that was given up, refused or never sent
\* (handleWitnessSelection, the notification handler).
OpenIsEstablished ==
  \A e \in Endpoints : status[e] = "Open" =>
    /\ witness[e] \in Node \ Endpoints
    /\ witness[witness[e]] = witness[e]
    /\ status[OtherEnd(e)] # "None"

\* The abstract promise: nodes agree to witness, and endpoints record one of
\* those, the same.
WA == INSTANCE WitnessAgreement WITH
        agreed <- {w \in Node \ Endpoints : witness[w] = w},
        recorded <- [e \in Endpoints |-> witness[e]]

\* Whatever is refused, lost, given up on or closed, the two endpoints never
\* record different witnesses, replace one, or record one that has not agreed
\* (findWitness, the witness and the notification handlers).
ImplementsAgreement == WA!AgreementSpec

\* Only a fault can leave a second node believing it is the witness: one
\* candidate is asked after the other, and the next only when the last has
\* refused (findWitness).
OrphanNeedsFault ==
  faults = 0 =>
    \A v, w \in Node \ Endpoints : status[v] # "None" /\ status[w] # "None" => v = w

\* Without faults, refusals or closes, an endpoint that has opened the
\* connection has a partner that has, or soon will: no order of the
\* ConnectResponse and the WitnessNotification makes the other endpoint turn
\* the notification down (the sender's lock is held until it is AwaitingWitness).
HalfOpenNeedsFault ==
  (faults = 0 /\ closes = 0 /\ ~Refusals /\ status[selector] = "Open") =>
    \/ status[OtherEnd(selector)] = "Open"
    \/ \E m \in net : m.type = "notify"

\* No goroutine is busy and no message is on its way.
Quiet == net = {} /\ \A n \in Node : Free(n) /\ pending[n] = "none"

\* One call of CloseConnection that nothing goes wrong with does not leave the
\* witness Open behind two Closed endpoints that have recorded it, wherever in
\* the setup it came and whoever made it: a call that did not know the witness
\* yet has then not closed both of them (the participants of CloseConnection).
\* With a second call, or for an endpoint that never learnt of it, the witness
\* may stay Open: nobody has a way to find it.
WitnessToldOfClose ==
  (/\ closes = 1 /\ faults = 0 /\ Quiet
   /\ \A e \in Endpoints : status[e] = "Closed" /\ witness[e] # NoPeer)
    => status[witness[Sender]] # "Open"

\* Once a node is past its part in setting up the connection, no late
\* notification, close or acceptance takes it out of Closed (the status checks
\* of the handlers and of CloseConnection).
ClosedIsFinal ==
  [][\A n \in Node :
       (status[n] = "Closed" /\ pending[n] \notin {"connect", "select"}
                             /\ task[n].step \in {"idle", "closing"})
         => status'[n] = "Closed"]_vars

\* The record an Update closure works on does not change under it, so no
\* update is lost: not by a close, a notification or a witness that arrives
\* while it waits for an answer (ConnectionStore.Update).
UpdateIsolated ==
  [][\A n \in Node :
       (task[n].step # "idle" /\ task'[n].step # "idle")
         => status'[n] = status[n] /\ witness'[n] = witness[n]]_vars

-----------------------------------------------------------------------------
(* Liveness, under FairSpec.                                               *)

\* A closure that waits for answers with the lock held does not wait for
\* ever, whatever is lost (the deadlines of Exchange; Send does not wait for
\* the handler).
LocksReleased == \A n \in Node : task[n].step # "idle" ~> task[n].step = "idle"

\* All three nodes have the connection Open, with the same witness.
Established ==
  /\ \A e \in Endpoints : status[e] = "Open"
  /\ witness[Sender] = witness[Receiver]
  /\ status[witness[Sender]] = "Open"

\* With a trusted candidate and nothing refused, lost or closed, Connect ends
\* with the connection set up at all three nodes, whichever endpoint selects.
FaultFreeConnects ==
  (status[Sender] = "RequestingReceiver" /\ WitnessCandidates(selector) # {})
    ~> (Established \/ faults > 0 \/ closes > 0)

\* A close begun by a node that knows the witness, once no more faults
\* happen, ends with both endpoints and that witness Closed, whatever went
\* wrong before and whoever else is closing or still being notified.
ClosePropagates ==
  \A n \in Node :
    LET participants == {Sender, Receiver, witness[n], n}
    IN  (/\ task[n].step = "closing"
         /\ witness[n] # NoPeer
         /\ task[n].left = participants \ {n}
         /\ faults = MaxFaults)
          ~> (\A p \in participants \ {NoPeer} : status[p] = "Closed")

-----------------------------------------------------------------------------
(* What the repository says and the code does not do.                      *)

\* A connection that a failed close has left Closing is not treated as open
\* again.  goclarinet.go says so where CloseConnection sets the status; a witness
\* selection does not look at it, in the goroutine the connect handler started
\* or in the closure of Connect.
ClosingNeverReopens ==
  [][\A n \in Node : status[n] = "Closing" => status'[n] # "Open"]_vars

\* A connection has one witness.  README.md says that each is composed of
\* three nodes; a candidate that accepted after its requester gave up stays one.
OneWitness ==
  \A v, w \in Node \ Endpoints : status[v] = "Open" /\ status[w] = "Open" => v = w
=============================================================================
