-------------------------- MODULE StreamTransport --------------------------
(***************************************************************************)
(* One protocol of the transport in starterimpl/libp2p: several streams    *)
(* opened to one node, each by a call of Send or Exchange, and each served *)
(* by a goroutine of that node that runs readWriteWrapper under            *)
(* streamCleanupWrapper.                                                   *)
(*                                                                         *)
(* readWriteWrapper is called once per protocol, and the variable it       *)
(* decodes requests into is a parameter of that call: one for all streams. *)
(* They write and read it without a lock, machine word by machine word.    *)
(* What goes over a stream is what WireFormat makes of a message.          *)
(***************************************************************************)
EXTENDS WireFormat

CONSTANTS
  Stream,   \* the streams
  Nil,      \* the zero value of a field, and a message that is not there
  Requests, \* Requests[p]: requests that are sent on protocol p
  Answers   \* Answers[p]: answers its handlers return, if they return any

ASSUME ProtocolAssumption ==
  /\ DOMAIN Requests = DOMAIN RequestFormat
  /\ DOMAIN Answers = DOMAIN AnswerFormat

ASSUME MessageAssumption ==
  /\ \A p \in DOMAIN RequestFormat : \A m \in Requests[p] :
       IsMessage(RequestFormat[p], m) /\ \A i \in DOMAIN m : m[i] # NoPeer
  /\ \A p \in DOMAIN AnswerFormat : \A m \in Answers[p] : IsMessage(AnswerFormat[p], m)

VARIABLES
  protocol, \* the protocol
  client,   \* client[s]: how far the call that opens s is
  server,   \* server[s]: how far the goroutine that serves s is
  sent,     \* sent[s]: the request of s
  req,      \* the variable requests are decoded into
  decoded,  \* decoded[s]: words of the request on s that have been assigned
  copied,   \* copied[s]: words of the variable that have been copied for the handler of s
  handled,  \* handled[s]: the words the handler of s is called with
  output,   \* output[s]: what the handler of s returned
  written,  \* the streams on which an answer was written in full
  got       \* got[s]: the answer Exchange returns for s

messages == <<protocol, sent, req, decoded, copied, handled, output, got>>
vars == <<messages, client, server, written>>

\* Whether the handlers of the protocol answer, which it takes Exchange to
\* hear.
HasResp == protocol \in DOMAIN AnswerFormat

Format == RequestFormat[protocol]

\* The words of the requests' types, each by the field it is of.  An ID is an
\* array of 16 bytes.  A peer ID and a witness selector are interfaces, of a
\* word for the type and one for the value, but all peer IDs have one type.
RequestWords ==
  [connect      |-> <<1, 1, 2, 3, 4, 4>>,
   witness      |-> <<1, 1, 2, 3, 4, 4>>,
   peers        |-> <<1>>,
   notification |-> <<1, 1, 2>>,
   close        |-> <<1, 1>>]

Words == RequestWords[protocol]

\* The request readWriteWrapper is called with.
Zero == [i \in DOMAIN Words |-> Nil]

Answer == IF HasResp THEN Answers[protocol] ELSE {}

ClientState ==
  {"idle", "open", "waiting", "returned", "failed", "gaveUp", "panicked", "gone"}
ServerState ==
  {"none", "reading", "decoding", "handling", "writing", "closed", "reset", "gone"}

TypeOK ==
  /\ protocol \in DOMAIN RequestFormat
  /\ client \in [Stream -> ClientState]
  /\ server \in [Stream -> ServerState]
  /\ sent \in [Stream -> Requests[protocol] \cup {Nil}]
  /\ DOMAIN req = DOMAIN Words
  /\ decoded \in [Stream -> 0 .. Len(Words)]
  /\ copied \in [Stream -> 0 .. Len(Words)]
  /\ DOMAIN handled = Stream
  /\ \A s \in Stream : DOMAIN handled[s] = DOMAIN Words
  /\ output \in [Stream -> Answer \cup {Nil}]
  /\ written \subseteq Stream
  \* A request is only copied once it is decoded to the end, and a handler only
  \* called once it is copied.
  /\ \A s \in Stream : copied[s] > 0 => decoded[s] = Len(Words)
  /\ \A s \in Stream : server[s] \in {"handling", "writing"} => copied[s] = Len(Words)

Init ==
  /\ protocol \in DOMAIN RequestFormat
  /\ client = [s \in Stream |-> "idle"]
  /\ server = [s \in Stream |-> "none"]
  /\ sent = [s \in Stream |-> Nil]
  /\ req = Zero
  /\ decoded = [s \in Stream |-> 0]
  /\ copied = [s \in Stream |-> 0]
  /\ handled = [s \in Stream |-> Zero]
  /\ output = [s \in Stream |-> Nil]
  /\ written = {}
  /\ got = [s \in Stream |-> Nil]

Client(s, from, to) ==
  /\ client[s] = from
  /\ client' = [client EXCEPT ![s] = to]

Server(s, from, to) ==
  /\ server[s] = from
  /\ server' = [server EXCEPT ![s] = to]

\* What readWriteWrapper decodes from the bytes of a request up to the first
\* semicolon, and Exchange from all bytes of an answer.
DecodedRequest ==
  [p \in DOMAIN RequestFormat |-> [m \in Requests[p] |->
    Deserialize(RequestFormat[p], FirstFrame(Serialize(RequestFormat[p], m)))]]

DecodedAnswer ==
  [p \in DOMAIN AnswerFormat |-> [m \in Answers[p] |->
    Deserialize(AnswerFormat[p], Serialize(AnswerFormat[p], m))]]

\* What is written is read as it was, except that a list of one empty text in an
\* answer is read as an empty list, and that a request is not read at all whose
\* witness selector nobody knows.
RoundTrip ==
  /\ \A p \in DOMAIN Requests : \A m \in Requests[p] :
       DecodedRequest[p][m] = IF Readable(RequestFormat[p], m) THEN {m} ELSE Failed
  /\ \A p \in DOMAIN Answers : \A m \in Answers[p] :
       DecodedAnswer[p][m] = {MessageAsRead(AnswerFormat[p], m)}

-----------------------------------------------------------------------------
(* sendInternal, Send and Exchange.                                        *)

OpenStream(s) ==
  /\ Client(s, "idle", "open") \/ Client(s, "idle", "failed")
  /\ \E m \in Requests[protocol] : sent' = [sent EXCEPT ![s] = m]
  /\ UNCHANGED <<protocol, server, req, decoded, copied, handled, output, written, got>>

\* Send is over once the request is written.  When it cannot be, the stream
\* is reset.
WriteRequest(s) ==
  /\ Client(s, "open", IF HasResp THEN "waiting" ELSE "returned") \/ Client(s, "open", "failed")
  /\ UNCHANGED <<messages, server, written>>

\* io.ReadAll comes to the end of what was written before the stream was
\* closed, and that is decoded.  getParts panics when it was nothing.
ReadAnswer(s) ==
  /\ server[s] = "closed"
  /\ IF s \notin written THEN Client(s, "waiting", "panicked") /\ UNCHANGED got
     ELSE IF DecodedAnswer[protocol][output[s]] = Failed
     THEN Client(s, "waiting", "failed") /\ UNCHANGED got
     ELSE /\ Client(s, "waiting", "returned")
          /\ got' = [got EXCEPT ![s] = Only(DecodedAnswer[protocol][output[s]])]
  /\ UNCHANGED <<protocol, server, sent, req, decoded, copied, handled, output, written>>

ReadReset(s) ==
  /\ server[s] = "reset"
  /\ Client(s, "waiting", "failed")
  /\ UNCHANGED <<messages, server, written>>

\* The read deadline passes, and Exchange resets the stream; or the caller's
\* machine is gone.
ReadDeadline(s) ==
  /\ Client(s, "waiting", "gaveUp")
  /\ UNCHANGED <<messages, server, written>>

-----------------------------------------------------------------------------
(* readWriteWrapper under streamCleanupWrapper.                            *)

\* The stream gets to the node.
Serve(s) ==
  /\ client[s] # "idle"
  /\ Server(s, "none", "reading")
  /\ UNCHANGED <<messages, client, written>>

\* The request was written, whatever has become of its sender since.
Sent(s) == client[s] \in {"waiting", "returned", "gaveUp", "panicked"}

ReadRequest(s) ==
  /\ Sent(s)
  /\ Server(s, "reading", "decoding")
  /\ UNCHANGED <<messages, client, written>>

\* Mutant: the handler's side sets no deadline.
FailsWhenReset(s) == client[s] \in {"failed", "gaveUp"}

\* Reading fails when the stream is reset, and when the deadline passes, which
\* it may at any time.
ReadMayFail(s) == client[s] # "idle"

\* The wrapper returns the error and the stream is reset.
ReadFails(s) ==
  /\ ReadMayFail(s)
  /\ Server(s, "reading", "reset")
  /\ UNCHANGED <<messages, client, written>>

Request(s) == DecodedRequest[protocol][sent[s]]

\* The request is malformed.  Nothing is assigned.
DecodeFails(s) ==
  /\ server[s] = "decoding" /\ Request(s) = Failed
  /\ Server(s, "decoding", "reset")
  /\ UNCHANGED <<messages, client, written>>

\* deserialize assigns the fields of the request one by one, and a field word
\* by word.
DecodeWord(s) ==
  LET i == decoded[s] + 1
  IN  /\ server[s] = "decoding" /\ i <= Len(Words)
      /\ \E m \in Request(s) : req' = [req EXCEPT ![i] = m[Words[i]]]
      /\ decoded' = [decoded EXCEPT ![s] = i]
      /\ UNCHANGED <<protocol, client, server, sent, copied, handled, output, written, got>>

\* Mutant: the error of a request that could not be decoded is dropped.
IsReady(s) == s \in Stream

\* The request is decoded.
Decoded(s) == decoded[s] = Len(Words)

\* The variable is copied to call the handler, which another stream may be
\* decoded into meanwhile.
CopyWord(s) ==
  LET i == copied[s] + 1
  IN  /\ server[s] = "decoding" /\ Decoded(s) /\ i <= Len(Words)
      /\ handled' = [handled EXCEPT ![s][i] = req[i]]
      /\ copied' = [copied EXCEPT ![s] = i]
      /\ UNCHANGED <<protocol, client, server, sent, req, decoded, output, written, got>>

CallHandler(s) ==
  /\ copied[s] = Len(Words)
  /\ Server(s, "decoding", "handling")
  /\ UNCHANGED <<messages, client, written>>

\* Mutant: the stream is closed whatever the handler returns.
CloseAlways(s) ==
  /\ Server(s, "handling", "closed")
  /\ handled' = [handled EXCEPT ![s] = Zero]
  /\ UNCHANGED <<protocol, client, sent, req, decoded, copied, output, written, got>>

\* The handler returns an answer, nothing, or an error, which resets the
\* stream.
HandlerReturns(s) ==
  /\ \/ \E m \in Answer :
          Server(s, "handling", "writing") /\ output' = [output EXCEPT ![s] = m]
     \/ ~HasResp /\ Server(s, "handling", "closed") /\ UNCHANGED output
     \/ Server(s, "handling", "reset") /\ UNCHANGED output
  /\ handled' = [handled EXCEPT ![s] = Zero]
  /\ UNCHANGED <<protocol, client, sent, req, decoded, copied, written, got>>

\* The answer is written and the stream closed, or writing fails, by its
\* deadline too, and it is reset.
WriteAnswer(s) ==
  /\ \/ Server(s, "writing", "closed") /\ written' = written \cup {s}
     \/ Server(s, "writing", "reset") /\ UNCHANGED written
  /\ UNCHANGED <<messages, client>>

-----------------------------------------------------------------------------
\* The machine at one end of the stream is gone, and the other end hears
\* nothing of it.
ClientVanishes(s) ==
  /\ Client(s, "open", "gone")
  /\ UNCHANGED <<messages, server, written>>

ServerVanishes(s) ==
  /\ server[s] \in {"reading", "decoding", "handling", "writing"}
  /\ server' = [server EXCEPT ![s] = "gone"]
  /\ handled' = [handled EXCEPT ![s] = Zero]
  /\ UNCHANGED <<protocol, client, sent, req, decoded, copied, output, written, got>>

ClientStep(s) == WriteRequest(s) \/ ReadAnswer(s) \/ ReadReset(s) \/ ReadDeadline(s)

ServerStep(s) ==
  \/ ReadRequest(s) \/ ReadFails(s) \/ DecodeFails(s) \/ DecodeWord(s)
  \/ CopyWord(s) \/ CallHandler(s) \/ HandlerReturns(s) \/ WriteAnswer(s)

Next ==
  \E s \in Stream :
    \/ OpenStream(s) \/ ClientStep(s) \/ ClientVanishes(s)
    \/ Serve(s) \/ ServerStep(s) \/ ServerVanishes(s)

Spec == Init /\ [][Next]_vars

\* Calls and goroutines that can go on do, and handlers return.  Nobody owes
\* a call, a stream need not arrive, and machines need not vanish.
FairSpec ==
  /\ Spec
  /\ \A s \in Stream : WF_vars(ClientStep(s)) /\ WF_vars(ServerStep(s))

-----------------------------------------------------------------------------
\* An Exchange only comes to decode an answer that was written to the end:
\* an error of the handler, or of the transport at its node, is never taken
\* for one, nor does it make getParts panic on an empty one
\* (streamCleanupWrapper).
ReturnedIsAnswered ==
  \A s \in Stream : (HasResp /\ client[s] \in {"returned", "panicked"}) => s \in written

\* What an Exchange returns is what the handler returned, though its texts
\* and addresses hold the marks the format is made of (serde.go), save for a
\* list of one empty text, which the caller gets as an empty list.
AnswerDelivered ==
  \A s \in Stream : s \in written =>
    \/ client[s] \in {"waiting", "gaveUp"}
    \/ client[s] = "returned" /\ got[s] = MessageAsRead(AnswerFormat[protocol], output[s])

\* Every word of a request that a handler is called with is that word of a
\* request somebody sent, though streams are decoded into it while others are
\* and while it is copied: none is still zero, and a field of one word is some
\* request's (readWriteWrapper, deserialize).
WordsWereSent ==
  \A s \in Stream : server[s] = "handling" =>
    \A i \in DOMAIN Words :
      \E r \in Stream : decoded[r] >= i /\ handled[s][i] = sent[r][Words[i]]

\* A request that was sent and can be decoded is, when it is alone: the only
\* thing that cannot be read is a witness selector nobody knows.
OnlySelectorFails ==
  \A s \in Stream : server[s] = "decoding" =>
    (Request(s) = Failed <=>
      \E f \in DOMAIN Format : Format[f] = "selector" /\ sent[s][f] \notin Selector)

\* Every goroutine at work on a stream ends, though its machine or the one at
\* the other end may vanish without a word (the deadlines of Exchange and of
\* readWriteWrapper).
StreamsEnd ==
  \A s \in Stream :
    /\ client[s] \in {"open", "waiting"} ~> client[s] \notin {"open", "waiting"}
    /\ server[s] = "reading" ~> server[s] \in {"closed", "reset", "gone"}

-----------------------------------------------------------------------------
(* What the repository says and the code does not do.                      *)

\* transport.go: Handle is given the request, and its output is delivered to
\* the sender of that request.  With two streams of a protocol at a time it
\* may be called for one with the other's request, with some fields of both,
\* or with a field that is half of one and half of the other.
HandlesOwnRequest ==
  \A s \in Stream : server[s] = "handling" =>
    \A i \in DOMAIN Words : handled[s][i] = sent[s][Words[i]]
=============================================================================
