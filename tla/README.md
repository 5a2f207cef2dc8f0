# A TLA+ model of go-clarinet

go-clarinet sets up connections between two nodes of a peer-to-peer network
with a third one as their witness. This directory holds TLA+ modules for the
parts of it that have state shared by goroutines or by nodes, the TLC
configurations that check them on small instances, and proofs, checked by
TLAPS, of what they promise for every number of nodes, goroutines and streams.
Paths below are relative to `src/`.

## The system

| Component | Where | State | Operations | Modules |
|---|---|---|---|---|
| Connection protocol | `v2/goclarinet.go`, `v2/handlers.go` | per node and connection: status and witness | `Connect`, `CloseConnection`; handlers of ConnectRequest, WitnessRequest, WitnessNotification, CloseRequest | `ClarinetConnection`, `WitnessAgreement` |
| Connection store | `starterimpl/inmem/inmem.go`, contract in `v2/connection/connection.go` | map of entries, a lock for the map and one per entry | `Create`, `Accept`, `Read`, `Update`, `All`; `Node.Connections` | `ConnectionStore`, `AtomicStore` |
| Peers | `v2/goclarinet.go`, `v2/handlers.go`, `starterimpl/libp2p/libp2p.go` | the peers a node has addresses of | `UpdatePeer`, `RequestPeers`; handler of PeersRequest | `PeerExchange` |
| Transport | `starterimpl/libp2p/libp2p.go` | streams; the variable requests are decoded into | `Send`, `Exchange`, `readWriteWrapper`, `streamCleanupWrapper` | `StreamTransport` |
| Wire format | `starterimpl/libp2p/serde.go` | none | serialise and deserialise the message types | `WireFormat`, used by `StreamTransport` |
| Reputation and trust | `starterimpl/inmem/inmem.go`, `main.go` | map of reputations, a lock for the map and one per entry | `Read`, `Update`, reward and penalise; the trust function | `ReputationStore` |
| Admin endpoints | `main.go` | per endpoint the variable requests are decoded into | `/connect`, `/peer`, `/requestpeers` | `AdminApi` |
| Message store | `starterimpl/inmem/inmem.go`, `v2/data`, `v2/crypto` | map of messages | `Add`, `Find`, `All` | not modelled: unused |
| Start-up, logging | `main.go`, `v2/log`, `starterimpl/zap` | none of their own | configuration, keys, listing endpoints; log lines | not modelled |

How they interact. The application calls `Connect`, `CloseConnection` and the
rest on its own goroutines, those of its HTTP endpoints; the transport calls a
node's handlers, each on the goroutine of a stream; the connect handler starts a
goroutine that selects the witness. All of them meet in
`ConnectionStore.Update`, which holds the entry's lock while the closure runs,
and the closures of `Connect`, of the selecting goroutine and of
`CloseConnection` write to other nodes and wait for their answers.
`witnessCandidates` takes the peers from the peer store and has the
application's trust function called on each, inside a `Read` of that peer's
reputation; the trust function reads the reputations of all peers in turn.

What is hard: closures that wait for other nodes with a lock held; answers that
come after the deadline; notifications and answers that overtake each other,
being on different streams; messages that are written and lost, since `Send`
does not wait for the handler; a witness that is accepted in two steps; closes
from several nodes, some of which fail; maps read without their lock; a read
lock taken by a goroutine that holds one; a variable shared by all streams of a
protocol, and one shared by all requests to an endpoint; fields that may hold
the marks they are separated by. `PROJECT.json` lists each of these hazards
with its line and the properties that are about it.

## The modules

### ClarinetConnection

One connection, at all nodes. Connections have random IDs, their own entries and
locks, and no handler looks at two, so one is followed. `status[n]` and
`witness[n]` are n's entry (`"None"` without one). `task[n]` is the `Update`
closure that runs at n, `pending[n]` a goroutine about to call `Update`, `net`
the bytes written and not handled, and `selector` the option given to `Connect`.

| Code | Actions |
|---|---|
| `Connect` | `Create`, `RequestConnection`, `HandleConnectReply`, `ConnectTimeout` |
| connect handler and its goroutine | `HandleConnect`, `SelectWitness` |
| `handleWitnessSelection`, `findWitness`, `requestWitness` | `StartSelection`, `RequestWitness`, `HandleWitnessReply`, `WitnessTimeout`, `NoWitness`, `FinishSelection` |
| witness handler | `HandleWitness` up to `Accept`, `SetWitness` from its `Update` on |
| notification handler | `HandleNotification` |
| `CloseConnection` | `CloseConnection`, `RequestClose`, `FinishClose` |
| close handler | `HandleClose` |
| streams | `Lose`, `DiscardReply`, `DeadlinePasses` |

What a closure does to its working copy is kept in `task` and reaches `status`
and `witness` when it returns, as `Update` saves it. A handler that calls
`Update` is enabled only when the lock is `Free`. Some choices:

- A refusal, an Errors list and a rejection are the same to a requester, which
  only looks at whether the answer is an acceptance.
- The connect handler answers after `Accept`, and its goroutine is independent
  of the answer, so one action for the handler allows what finer steps would.
- Messages are a set: streams are independent, so they arrive in any order, are
  lost when a stream is reset, and are never duplicated. A CloseRequest carries
  the number of its call, so that two calls are two messages.
- `TrustedPeers` is what `witnessCandidates` makes of peer store, reputations
  and trust function.
- Whether the selector's name is one of the two is decided before a request is
  handled, and errors of the peer store are not modelled. The branch of the
  connect handler for a node that is itself the sender needs a requester that is
  the receiver; `Connect` never makes one.
- Each handler gets the request of its own stream. `StreamTransport` shows that
  the transport does not see to that when requests of a protocol for different
  connections come together. It would add lost and misattributed requests here,
  which the checks of the handlers mostly refuse.
- There is no crash with a restart: the stores are in memory, so a node that
  starts again is a node without entries.

`WitnessAgreement` is what the protocol promises about the witness, without
messages and statuses: nodes agree to be the witness, each endpoint records one
node that has, once, and never another than its counterpart has recorded.
`ClarinetConnection` implements it (`ImplementsAgreement`), where `agreed` are
the nodes that have saved themselves as witness.

### ConnectionStore and AtomicStore

`sync.RWMutex` as `writer` and `readers`; a writer announces itself and then
waits for the readers, which is what keeps later readers out. Every operation is
a sequence of steps of its goroutine (`pc`) with the lock operations of the
code. A connection is represented by how often each goroutine has updated it
(`saves`), so that a lost update shows. `AtomicStore` has the operations
as single steps; `ImplementsAtomicStore` is the refinement, with no mapping but
the forgetting of locks and goroutines.

### PeerExchange

`known[n]` is the peer store; a peer in it has an address, and adding one does
not fail. libp2p keeps the node itself there, which the handler counts on. The
handler works on its copy of the store (`serving`), one step per round of its
loop; the node that asked is in it, as libp2p records a peer that connects. `Told` is which peers an application is told of by other means than
requests: those it may add, and ask. It may answer for itself with any peers it
knows (`OwnAnswers`).

### WireFormat and StreamTransport

`WireFormat` is what `serialize` writes and `deserialize` reads, without state.
Bytes are a sequence of tokens: a dot, a comma or a semicolon that is itself, an
unencoded field, base64 of other bytes, and text without a mark. So a text with a
comma in it differs from a separator exactly when the code encodes it. `Encode`
and `Decode` are the code's `b64Enc`, `encodePeerID`, `serializeSlice` and their
counterparts; `RequestFormat` and `AnswerFormat` give the kinds of the fields of
the eight message types. Decoding returns a set, which is empty on an error.
`IsMessage` is what may be sent: a field for every kind, of that kind. One such
field does not come back as it was: `serializeSlice` writes a slice of one empty
text as it writes the empty slice. `MessageAsRead` says so, and the properties
below are about it: a handler whose only error has no text seems to have none.

`StreamTransport` is one of the five protocols, any of them, and the streams
opened to one node: `client[s]` is the call of `Send` or `Exchange`, `server[s]`
the goroutine at the other end, `req` the variable all of them decode into.

There is no lock around it, so two goroutines that write it, or copy it for their
handlers, race. The model goes by machine words: one is written or read as a
whole, fields of more words than one are not. A connection ID is an array of two
words, a witness selector an interface of two (`RequestWords`). A peer ID is an
interface as well, but the transport makes all of them of one type, so one of
its words matters; what a pointer points to is written before the pointer is.
Words are written and copied in the order of the fields. As two streams may overtake
each other between any two words, every mixture of them is reached all the
same. No request holds a nil peer ID: `sendWitnessNotification` sends none, and the
IDs of endpoints are those of peers (`MessageAssumption`).

| Code | Actions |
|---|---|
| `sendInternal`, `Send` | `OpenStream`, `WriteRequest` |
| `Exchange` | the same, then `ReadAnswer`, `ReadReset`, `ReadDeadline` |
| `readWriteWrapper` | `ReadRequest`, `ReadFails`, `DecodeWord`, `DecodeFails`, `CopyWord`, `CallHandler`, `WriteAnswer` |
| the handler | `HandlerReturns` |
| machines that go away | `ClientVanishes`, `ServerVanishes` |

A request is decoded from what comes up to the first semicolon, an answer from
everything that was written before the stream was closed; `getParts` panics when
that is nothing. A handler that fails, and anything that fails around it, resets
the stream. Either end may vanish without a word, so that the other one depends on
its deadline. `AnswerDelivered` and `WordsWereSent` are where the format and the
streams meet: they fail when a text is not encoded as well as when a handler
is called before its request is decoded.

### ReputationStore

`reps` is the map, `creating` the goroutine that writes an entry to it, `writer`
and `readers` the locks of the entries as in `ConnectionStore`. A goroutine makes
calls of two kinds, each about a peer (`subject`): an assessment, which is what
`witnessCandidates` does (`Read` around the trust function), or an `Update` that
rewards, penalises or saves nothing. `target` is the peer whose entry it wants.

| Code | Actions |
|---|---|
| `ensureRepExists` | `Look` (no lock), `LookAgain`, `Create` |
| `Read` by `witnessCandidates` | `ReadSubject`, `EndRead` |
| the trust function and the `Read`s it makes | `NextPeer`, `ReadPeer`, `Judge` |
| `Update` | `Lock`, `BeginUpdate`, `EndUpdate` |

`Changed`, `Num`, `Den` and `BelowHalf` are `proportionalReputation`;
`WithinDeviation` is the trust function's comparison with the mean less the
standard deviation. The code computes with floats, the model with fractions over
a common denominator and without the square root, so rounding is left out. A look into the
map while it is being written may stop the program, as the Go runtime does when it
notices. `marks` adds up the changes that calls were made for, so that a lost one
shows. The program makes no call of `Update` yet; the interface is there for it,
and the model says what will come of it. `ClarinetConnection` takes the verdicts as its
constant `TrustedPeers`.

### AdminApi

One endpoint, any of the three that take a request. `adapt` is called once per
endpoint and its parameter `reqType` is what every request is decoded into
(`shared`). The JSON decoder assigns the fields a body has, in the order in which it has
them, leaves the others as they were, goes on after a field of the wrong type
and reports that at the end. The decoder writes the elements of `Addresses` into
the array the slice already has, so a copy of `reqType` still shares it.

| Code | Actions |
|---|---|
| `adapt` | `Refuse`, `Post`, `DecodePeerID`, `DecodeAddresses`, `DecodeElement`, `EndDecoding` |
| `handleAndReply` and the argument it passes | `CopyPeerID`, `CopyAddresses`, `Panic` |
| the handlers' `ParsePeerID` and loop over addresses | `Handle` |
| `UpdatePeer`, with which `Connect` and `RequestPeers` begin, and what may fail in them after it | `Call` |

Requests that overlap race for `reqType`, so the outcomes are those the Go memory
model leaves: an old or a new field (`CopyPeerID`), an array that another goroutine has
replaced (`Replaced`), a text or slice of which only the length is there, on
which the goroutine panics (`FirstValue`, `Panic`). Texts are taken to have one
length, so none is read that is part old and part new, and lists to have one
address. net/http recovers the panic and closes the connection. The endpoints'
operations on the node are those the other modules let an application call at any time.

### MC modules

`MCClarinetConnection`, `MCConnectionStore`, `MCPeerExchange`,
`MCStreamTransport`, `MCReputationStore` and `MCAdminApi` extend these and add the
node sets, trust relations, messages, numbers of calls and symmetry sets of the
configurations.

## The runs

| Run | Instance | Shows |
|---|---|---|
| `connection_safety` | 2 endpoints, 3 candidates trusted by both, 2 faults, 2 closes, refusals | `TypeOK`, `OpenIsEstablished`, `ImplementsAgreement`, `OrphanNeedsFault`, `WitnessToldOfClose`, `ClosedIsFinal`, `UpdateIsolated` |
| `connection_liveness` | 2 candidates, one not trusted by the receiver, 1 fault, 2 closes | `HalfOpenNeedsFault`, `LocksReleased`, `FaultFreeConnects`, `ClosePropagates` |
| `store` | 3 goroutines, one with 2 calls and two with 1, 2 IDs | `TypeOK`, `FunctionSeesCurrent`, `NoDeadlock`, `ImplementsAtomicStore`, `OperationsEnd` |
| `peer_exchange` | 4 nodes, one told of another and that one of all; 2 requests of up to 2 peers | `TypeOK`, `FullAnswer`, `LearnsWhatItAsked`, `StopsOnlyOverAsked` |
| `stream` | each of the 5 protocols, 2 streams, 2 requests and up to 3 answers | `TypeOK`, `ReturnedIsAnswered`, `AnswerDelivered`, `WordsWereSent`, `OnlySelectorFails`, `StreamsEnd` |
| `reputation` | the node and 2 peers; 2 goroutines, one with 2 calls and one with 1 | `TypeOK`, `NothingLost`, `JudgedByCurrent`, `OnlyWorseRefused`, `CrashNeedsNewcomer`, `DeadlockIsHung`, `CallsEnd` |
| `admin` | each of the 3 endpoints, 2 requests with one of 7 bodies: complete, with a field left out, of a wrong type or no ID | `TypeOK`, `AloneIsOwn`, `WrongAddressHasCause`, `RequestsAnswered` |

What the less obvious ones say. `WitnessToldOfClose`: one undisturbed
`CloseConnection`, wherever in the setup it comes, does not leave the witness Open
behind two Closed endpoints that know it. `OnlySelectorFails`: the one request that
can be sent and not read is one with a nil witness selector.
`CallsEnd`: calls on the reputation store end unless the program is stopped over
the map, or an assessment waits for ever behind an `Update` that waits for a
reader (`Hung`). `NoDeadlock`: when somebody waits for a lock of the connection
store, somebody can go on. `DeadlockIsHung`: on the reputation store somebody can,
too, or somebody is `Hung`. `WordsWereSent`: however streams race for the
variable, every word a handler gets is of a request that was sent; so a number of
peers is one that was asked for, while an ID may be half of one and half of
another, which `stream_mixup` is about. `WrongAddressHasCause`: a peer gets an
address that was not posted for it only from a request that another overlapped or
that left a field out, at each of the endpoints, also when the operation fails.

Five runs show where the repository says one thing and the code does another:

| Run | Says | Does |
|---|---|---|
| `closing_reopens` | `v2/goclarinet.go:325`: a Closing connection should not be treated as open | the goroutine of the receiver's connect handler does not look at the status and opens it; when the sender selects, `Connect` does |
| `two_witnesses` | `README.md:4`: three nodes | a candidate that accepts late stays witness beside the one chosen |
| `store_race` | `v2/connection/connection.go:87`: concurrency safety | `All` reads the map without its lock |
| `peers_fewer` | `README.md:94`: may return fewer peers | `rand.Intn(0)` panics when the node draws itself last |
| `stream_mixup` | `v2/transport/transport.go:46`: the handler is given the request, its output goes to the sender | the variable requests are decoded into is shared, and copied without a lock |

Other differences need no run to be seen, the models having what the code does:

- `v2/connection/connection.go:100` says that `Read` calls its function whether or
  not there is a connection; `starterimpl/inmem/inmem.go:139` returns an error for
  an unknown ID instead.
- `README.md:92` says that the answer to a request for peers leaves out the
  requesting node; the handler (`v2/handlers.go:305`) leaves out itself only.
- `starterimpl/libp2p/libp2p.go:152` says that sending adds the peer with all its
  addresses; `openStream` uses the ID only.
- `v2/connection/connection.go:152` says that Errors hold what went wrong with a
  request; an answer whose only error has no text arrives without one
  (`starterimpl/libp2p/serde.go:362`), and `v2/goclarinet.go:227` sees none.
- `main.go:468`: what a request leaves out of its body it takes from the last one
  that had it, even one that was refused (`AdminApi`).
- `starterimpl/inmem/inmem.go:328` looks into the map without its lock, and
  `main.go:168` takes a read lock within another, which hangs once an `Update`
  comes in between (`ReputationStore`). `CallsEnd` has both as its exceptions.

Bounds. `MaxFaults` bounds lost messages, failed sends and answers given up on
while they could still come. One is enough to orphan a witness or to leave an
endpoint half open; with two, both attempts of a selection go wrong, or a close
fails after a setup that did. `MaxCloses = 2` has two nodes close at a time, or
one try again. Three candidates let a selection fail twice and still succeed,
with two orphans. In the store, a second call lets a goroutine come back to what
others have changed, and two IDs keep the global lock and the entries' locks
apart; writers, readers and an announced writer are three goroutines. A second
request for peers lets a node stop with a request of its own under way; the
fourth node is there for an answer that could hold more than was asked for. Two
streams are enough for a request to be mixed up or torn. The messages hold every
mark where a text may hold one, slices of none, one and two elements, peers with
none and with two addresses, an error without a text, and a nil selector. The requests
of `witness` can both be read and differ in every word; `connect` has the same
fields, and one request that cannot be read. `closing_reopens` is restricted to
connections whose receiver selects (`ReceiverSelects`). Three calls on
the reputation store let two goroutines meet the same peer, an `Update` come
between the two read locks of an assessment, and a peer be judged that another one
has been penalised or rewarded before; three peers are the least with a deviation
that a peer can be within or not. Two requests to an endpoint overlap at
every step, and one after the other finds what the first has left.

Symmetry is used in runs without liveness only: over candidates that everybody
trusts, goroutines with as many calls, peers that are told of nobody, and streams.
Deadlock is not checked where the application may make no further call or everything
may have come to its end; what must not hang is stated as liveness.

Fairness. `ClarinetConnection` assumes weak fairness of each node's goroutines
(`Run(n)`) and of the handling of what has arrived (`Deliver(n)`): Go's scheduler
runs what can run, and libp2p starts a handler for each stream. Timeouts are
part of `Run`: both halves of an exchange set 10 second deadlines. Since
`DeadlinePasses` counts as a fault while an answer can still come, and faults
are bounded, fairness does not force a timeout upon an exchange that works.
`FaultFreeConnects` and `ClosePropagates` say what fault they exclude. Nothing
is assumed of the application. The other modules assume weak fairness of each
goroutine's steps, for the same reason, and so that what is called from outside returns:
functions passed to `ConnectionStore`, handlers of `StreamTransport`, the
node's operations in `AdminApi`. `StreamTransport` does not assume that a stream
arrives or that a machine stays. Weak fairness is enough for the locks of the stores:
goroutines make a bounded number of calls, so none is passed by for ever.

## The proofs

All theorems are about the unbounded modules: any set of nodes, goroutines,
streams, requests and bodies, any trust relation, any bound.

`ClarinetConnectionProofs`. The invariants of the runs are not inductive: that an
endpoint is Open with a willing witness needs to be known of the notification in
flight, of the closure that has sent it, and of the acceptance that this closure
has seen. `IInv` says so in parts: `Roles` (which goroutine and which closure can
be where), `OneGoroutine`, `Unset` (a node without an entry has no witness and no
goroutine), `Vouched` (an acceptance, a notification, a closure that has notified
and a recorded witness each name a node that has saved itself), `Proposed` and
`Partners` (only the selecting endpoint proposes a witness, and one), `Followed`
and `Silent` (what has been answered, the other endpoint knows). From it:

- `TypeCorrect`, `OpenHolds`, `ClosedFinalHolds`, `IsolationHolds`: the properties
  `TypeOK`, `OpenIsEstablished`, `ClosedIsFinal`, `UpdateIsolated`;
- `AgreementImplemented`: the refinement of `WitnessAgreement`. The step that
  needs the invariant is the notification: the receiver of it records a witness
  while the endpoint that sent it has not saved its own yet.

`ConnectionFaultProofs`. What it takes a fault for, on top of that invariant.

- `OrphanNeedsFaultHolds` (`OrphanNeedsFault`). `OneAsked`: without a fault, the
  candidate a selection waits for is in one of four situations (`Waited`): it has the
  question coming, it is accepting, or its refusal or its acceptance is on the
  way. Nothing else is said to or by a candidate, and nobody else takes itself
  for the witness. A refusal leaves nobody, so the next one is asked alone.
- `HalfOpenHolds` (`HalfOpenNeedsFault`). `Calm`: without faults, refusals and
  closes the endpoint that does not select is `Ready` for the notification, or will be
  when it reads the acceptance that is there for it, until it has been told
  (`HasTold`); then the one notification is under way or it is Open.
- `WitnessToldHolds` (`WitnessToldOfClose`). The property is about the moment when
  everything has come to rest, so `CInv` says what is still to come before it.
  Either the close was called with a witness to tell, and whoever takes itself for
  the witness and is Open has yet to hear of it: the call still has it to tell, or
  the request is on its way (`WitnessHears`). Or it was called by an endpoint that
  knew of no witness (`Blind`): nobody tells that endpoint of a close, so once it
  has learnt of a witness it is not Closed any more.

`WitnessAgreementProofs` proves `AgreementHolds` of the abstract protocol: the
endpoints that have recorded a witness have recorded the same one. Together with
`AgreementImplemented` it holds of the connection; it is proved and has no run
of its own.

`ConnectionStoreProofs`. `IInv` adds to the property that functions see the
current connection who holds which lock (`LockHeld`), which operation is where
(`PlaceFits`) and that an unknown ID has nothing saved (`Unused`). From it
`StoreTypeCorrect`, `FunctionSeesCurrentHolds` and `AtomicStoreImplemented`: a
save is made from `seen`, which the lock has kept equal to what is saved.
`LockHeld` says that who is at work has its lock. `NoDeadlockHolds` needs the
converse, `LockUsed`: who has a lock is at work with it. Then who waits, waits for a
reader, who never takes another lock, or for a writer that has come through or
waits for such readers. The liveness property of the run, `OperationsEnd`,
says more, of three goroutines.

`ReputationStoreProofs`. The three invariants that the runs check of the store hold each
other up. `IInv` adds who writes the map (`CreatorOK`), who holds which lock
(`WriterOK`, `ReaderOK`), what a goroutine at a place has (`PlaceOK`), that
an `Update` works on the current reputation with no reader around (`UpdateOK`) and
that who is assessed has an entry (`SubjectOK`). From it `ReputationTypeCorrect`,
`NothingLostHolds`, `JudgedByCurrentHolds`, `CrashNeedsNewcomerHolds`.
`DeadlockIsHungHolds`: `CreatorOK` and `WriterOK` find whoever has the lock that
somebody waits for. He goes on, or is an `Update` with a reader, and by
`ReaderOK` that reader is in its survey: it goes on, or is `Hung`. So all come to a
halt only when a read lock is taken inside another one.

`OnlyWorseRefusedHolds` (`OnlyWorseRefused`) is about the trust function's
arithmetic for any number of peers. The survey of a goroutine that judges has every
peer (`Surveyed`, `JudgeRefuses`). `RefusedIsWorse`: a peer that is refused is below
another one of its survey, as the mean is no more than the greatest of the scaled
reputations (`MeanBound`). What the folds `Common` and `Total` yield is
induction on the size of a set. The library's induction theorems take an operator
as a parameter, which the prover cannot instantiate; `SetInduction` takes the set of the
numbers for which the claim holds, and comes from `<` being well-founded.

`PeerExchangeProofs`, for any finite network. `DrawsOK`: what a handler has drawn and
what it has left make up its store, and it never draws itself or more than it was
asked for. From it `TypeCorrect`, `FullAnswerHolds`; `StopsHolds` since what is
left when a node draws itself last is less than was asked for; `LearnsHolds`.

`StreamTransportProofs` has two parts.

- The format, for any messages (`IsMessage`). `JoinSplit`: parts that are joined with
  a mark none of them holds are split into the same parts. The induction is on the
  number of parts joined so far, and `Parted` what holds of the bytes: where each
  part ends, which marks there are, how many up to each, and what is between them.
  With it `SliceRoundTrip` (base64 holds no mark), `FrameRoundTrip`, `PeerRoundTrip`,
  `FieldRoundTrip`, `MessageRoundTrip`, and `RoundTripHolds` of all requests
  and answers: each is read as it was written, with an empty list for one of one
  empty text (which joins to nothing, `JoinOne`), or not at all if it names a witness
  selector nobody knows.
- The streams. `ReturnedIsAnsweredHolds`: a stream on which an answer is due is
  closed only after the answer. `WordsWereSentHolds`: each word of the shared
  variable that somebody has decoded is some stream's (`Decodings`), which
  `RoundTripHolds` makes a word that was sent, and so is each that has been copied
  (`Copies`), though the variable has changed since. `AnswerDeliveredHolds`: what a call reads is what its own stream holds
  (`Delivery`). `OnlySelectorFailsHolds`: a request that is decoded was sent.
  `StreamTypeCorrect`: no handler is called before its request is decoded.

`AdminApiProofs`. `Single`: a request that none overlaps is the only one under way.
`Own`: what it has assigned, and copied since, is its own, whatever was there
before it. From it `AloneIsOwnHolds`; with `Caused`, that every stored address was
given by a request that posted it for its peer or that is no such one,
`WrongAddressHolds`; and `AdminTypeCorrect`.

The assumptions are the `ASSUME`s of the modules: the endpoints are two
different nodes (`NodeAssumption` of `ClarinetConnection`), the network is finite
(`NodeAssumption` of `PeerExchange`), peers are finitely many and the node is
one of its own (`PeerAssumption`), sentinels are not members (`NobodyAssumption`,
`NoneAssumption`, `ValuesAssumption` and the like), bodies are made of fields
(`BodiesAssumption`), there are messages for each protocol
(`ProtocolAssumption`) that can be sent (`MessageAssumption`), there is an ID,
bounds are natural numbers. TLC evaluates all of them in the runs.

Model-checked only: every liveness property and everything with fairness, which
the prover does not do, and the runs of the five differences. Every invariant
of the other runs is a theorem.

## What is left to do

1. `ClarinetConnection` over several connections that share a transport with the
   mix-up of `StreamTransport`: which requests a node refuses because they are
   another connection's, and a torn notification that makes one connection
   record the witness of the other.
2. `ReputationStore` with a caller of `Update`, once the program has one, and its
   `Hung` goroutines inside `ClarinetConnection`, where one holds the lock of a
   connection.

## Not modelled

- The message store and signatures: nothing in the program uses them, and the
  store's map is never made, so that the first `Add` would panic.
- The two listing endpoints, which read (`ConnectionStore` has `All`), and
  configuration, keys and start-up, which run once.
- Logging.
- Errors of the peer store, which reads memory, and addresses that cannot be
  parsed.
- Restarts: nothing is saved, so a node that starts again is a new one.
- Floats, whose values are exact fractions here; the content of IDs, addresses
  and messages; texts of different lengths that are read while they are replaced.
