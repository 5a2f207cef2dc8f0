-------------------------- MODULE ConnectionStore --------------------------
(***************************************************************************)
(* The connection store of starterimpl/inmem, lock by lock, under the      *)
(* goroutines of one node: the store's lock, taken for every look at its   *)
(* map but that of All, and a lock per entry, held while the caller's      *)
(* function runs.  Node.Connections (v2/goclarinet.go) is All and then a   *)
(* Read of each connection found.                                          *)
(*                                                                         *)
(* The locks are Go's sync.RWMutex.  A writer first announces itself,      *)
(* which keeps new readers out, and then waits for the readers there are.  *)
(***************************************************************************)
EXTENDS Naturals, FiniteSets

CONSTANTS
  Goroutine,  \* the goroutines of the node
  Id,         \* connection IDs
  Global,     \* stands for the store's own lock
  Nobody,     \* no writer
  MaxCalls    \* MaxCalls[g]: bound on the operations g starts

ASSUME NameAssumption ==
  /\ Id # {}
  /\ Global \notin Id
  /\ Nobody \notin Goroutine
ASSUME CallAssumption == MaxCalls \in [Goroutine -> Nat]

VARIABLES
  conns,    \* the IDs in the map
  saves,    \* the connections, as in AtomicStore
  writer,   \* writer[l]: who has lock l for writing, or will once its readers are gone
  readers,  \* readers[l]: who has it for reading
  op,       \* op[g]: the operation g last started
  pc,       \* pc[g]: how far it is
  at,       \* at[g]: the connection it is about
  seen,     \* seen[g]: the connection its function was called with
  todo,     \* todo[g]: the IDs Connections has yet to read
  calls,    \* calls[g]: operations started
  crashed   \* the runtime has stopped the program over a race on the map

lock == <<writer, readers>>

vars == <<conns, saves, lock, op, pc, at, seen, todo, calls, crashed>>

\* The store's lock, and those of the entries.
Lock == Id \cup {Global}

Op == {"accept", "read", "update", "connections"}

Place == {"idle", "accept", "lookup", "looking", "found", "drain",
          "reading", "updating", "all", "iterating", "listing"}

\* A new connection.
Fresh == [g \in Goroutine |-> 0]

TypeOK ==
  /\ conns \subseteq Id
  /\ saves \in [Id -> [Goroutine -> Nat]]
  /\ writer \in [Lock -> Goroutine \cup {Nobody}]
  /\ readers \in [Lock -> SUBSET Goroutine]
  /\ op \in [Goroutine -> Op]
  /\ pc \in [Goroutine -> Place]
  /\ at \in [Goroutine -> Id]
  /\ seen \in [Goroutine -> [Goroutine -> Nat]]
  /\ todo \in [Goroutine -> SUBSET Id]
  /\ calls \in [Goroutine -> Nat]
  /\ crashed \in BOOLEAN
  \* The entry a goroutine locks is there.
  /\ \A g \in Goroutine :
       (op[g] # "accept" /\ pc[g] \in {"found", "drain", "reading", "updating"}) => at[g] \in conns

Init ==
  /\ conns = {}
  /\ saves = [i \in Id |-> Fresh]
  /\ writer = [l \in Lock |-> Nobody]
  /\ readers = [l \in Lock |-> {}]
  /\ op = [g \in Goroutine |-> "read"]
  /\ pc = [g \in Goroutine |-> "idle"]
  /\ at = [g \in Goroutine |-> CHOOSE i \in Id : TRUE]
  /\ seen = [g \in Goroutine |-> Fresh]
  /\ todo = [g \in Goroutine |-> {}]
  /\ calls = [g \in Goroutine |-> 0]
  /\ crashed = FALSE

-----------------------------------------------------------------------------
(* sync.RWMutex.                                                           *)

RLock(l, g) ==
  /\ writer[l] = Nobody
  /\ readers' = [readers EXCEPT ![l] = @ \cup {g}]
  /\ UNCHANGED writer

RUnlock(l, g) ==
  /\ readers' = [readers EXCEPT ![l] = @ \ {g}]
  /\ UNCHANGED writer

\* The first half of Lock.
Announce(l, g) ==
  /\ writer[l] = Nobody
  /\ writer' = [writer EXCEPT ![l] = g]
  /\ UNCHANGED readers

\* Mutant: the lock does not keep the writer waiting for the readers.
HoldsTooSoon(l, g) == writer[l] = g

\* The second half has come through.
Holds(l, g) == writer[l] = g /\ readers[l] = {}

Unlock(l) ==
  /\ writer' = [writer EXCEPT ![l] = Nobody]
  /\ UNCHANGED readers

Goto(g, place) == pc' = [pc EXCEPT ![g] = place]

-----------------------------------------------------------------------------
\* A goroutine calls an operation on connection i.
Start(g, o, i) ==
  /\ pc[g] = "idle"
  /\ calls[g] < MaxCalls[g]
  /\ calls' = [calls EXCEPT ![g] = @ + 1]
  /\ op' = [op EXCEPT ![g] = o]
  /\ at' = [at EXCEPT ![g] = i]
  /\ Goto(g, CASE o = "accept" -> "accept" [] o = "connections" -> "all" [] OTHER -> "lookup")
  /\ UNCHANGED <<conns, saves, lock, seen, todo, crashed>>

-----------------------------------------------------------------------------
(* Accept, and Create, which is Accept of a random ID.                     *)

AcceptLock(g) ==
  /\ pc[g] = "accept"
  /\ Announce(Global, g)
  /\ Goto(g, "drain")
  /\ UNCHANGED <<conns, saves, op, at, seen, todo, calls, crashed>>

\* Mutant: an ID that has an entry gets a new one.
InsertAlways(g) ==
  /\ op[g] = "accept"
  /\ pc[g] = "drain"
  /\ Holds(Global, g)
  /\ conns' = conns \cup {at[g]}
  /\ saves' = [saves EXCEPT ![at[g]] = Fresh]
  /\ crashed' \in {FALSE, \E h \in Goroutine : pc[h] = "iterating"}
  /\ Unlock(Global)
  /\ Goto(g, "idle")
  /\ UNCHANGED <<op, at, seen, todo, calls>>

\* An ID that has an entry is an error.  Writing to the map while All goes
\* through it may stop the program.
Insert(g) ==
  /\ op[g] = "accept"
  /\ pc[g] = "drain"
  /\ Holds(Global, g)
  /\ \/ /\ at[g] \in conns
        /\ UNCHANGED <<conns, saves, crashed>>
     \/ /\ at[g] \notin conns
        /\ conns' = conns \cup {at[g]}
        /\ saves' = [saves EXCEPT ![at[g]] = Fresh]
        /\ crashed' \in {FALSE, \E h \in Goroutine : pc[h] = "iterating"}
  /\ Unlock(Global)
  /\ Goto(g, "idle")
  /\ UNCHANGED <<op, at, seen, todo, calls>>

-----------------------------------------------------------------------------
(* getConnEntry, the first part of Read and Update.                        *)

LookupLock(g) ==
  /\ pc[g] = "lookup"
  /\ RLock(Global, g)
  /\ Goto(g, "looking")
  /\ UNCHANGED <<conns, saves, op, at, seen, todo, calls, crashed>>

\* An operation that is over: Connections goes on to the next connection.
Done(g) == Goto(g, IF op[g] = "connections" THEN "listing" ELSE "idle")

\* Mutant: what the map returns for an ID it has not is used.
LookupAny(g) ==
  /\ pc[g] = "looking"
  /\ RUnlock(Global, g)
  /\ Goto(g, "found")
  /\ UNCHANGED <<conns, saves, op, at, seen, todo, calls, crashed>>

\* Mutant: the error return comes before the unlock.
LookupKeepsLock(g) ==
  /\ pc[g] = "looking"
  /\ \/ at[g] \in conns /\ RUnlock(Global, g) /\ Goto(g, "found")
     \/ at[g] \notin conns /\ Done(g) /\ UNCHANGED lock
  /\ UNCHANGED <<conns, saves, op, at, seen, todo, calls, crashed>>

\* Without an entry the operation ends with an error.
Lookup(g) ==
  /\ pc[g] = "looking"
  /\ RUnlock(Global, g)
  /\ IF at[g] \in conns THEN Goto(g, "found") ELSE Done(g)
  /\ UNCHANGED <<conns, saves, op, at, seen, todo, calls, crashed>>

-----------------------------------------------------------------------------
(* The rest of Read.                                                       *)

ReadLock(g) ==
  /\ op[g] \in {"read", "connections"}
  /\ pc[g] = "found"
  /\ RLock(at[g], g)
  /\ seen' = [seen EXCEPT ![g] = saves[at[g]]]
  /\ Goto(g, "reading")
  /\ UNCHANGED <<conns, saves, op, at, todo, calls, crashed>>

\* readFunc returns.
EndRead(g) ==
  /\ pc[g] = "reading"
  /\ RUnlock(at[g], g)
  /\ Done(g)
  /\ UNCHANGED <<conns, saves, op, at, seen, todo, calls, crashed>>

-----------------------------------------------------------------------------
(* The rest of Update.                                                     *)

UpdateLock(g) ==
  /\ op[g] = "update"
  /\ pc[g] = "found"
  /\ Announce(at[g], g)
  /\ Goto(g, "drain")
  /\ UNCHANGED <<conns, saves, op, at, seen, todo, calls, crashed>>

BeginUpdate(g) ==
  /\ op[g] = "update"
  /\ pc[g] = "drain"
  /\ Holds(at[g], g)
  /\ seen' = [seen EXCEPT ![g] = saves[at[g]]]
  /\ Goto(g, "updating")
  /\ UNCHANGED <<conns, saves, lock, op, at, todo, calls, crashed>>

\* writeFunc returns: what it made of the connection it was given, or nil.
EndUpdate(g) ==
  /\ pc[g] = "updating"
  /\ \/ saves' = [saves EXCEPT ![at[g]] = [seen[g] EXCEPT ![g] = @ + 1]]
     \/ UNCHANGED saves
  /\ Unlock(at[g])
  /\ Goto(g, "idle")
  /\ UNCHANGED <<conns, op, at, seen, todo, calls, crashed>>

-----------------------------------------------------------------------------
(* All, which takes no lock, and what Connections makes of it.             *)

BeginAll(g) ==
  /\ pc[g] = "all"
  /\ todo' = [todo EXCEPT ![g] = conns]
  /\ Goto(g, "iterating")
  /\ UNCHANGED <<conns, saves, lock, op, at, seen, calls, crashed>>

\* An entry added during the iteration may be visited or not.
EndAll(g) ==
  /\ pc[g] = "iterating"
  /\ \E added \in SUBSET (conns \ todo[g]) : todo' = [todo EXCEPT ![g] = @ \cup added]
  /\ Goto(g, "listing")
  /\ UNCHANGED <<conns, saves, lock, op, at, seen, calls, crashed>>

ReadNext(g, i) ==
  /\ pc[g] = "listing"
  /\ i \in todo[g]
  /\ todo' = [todo EXCEPT ![g] = @ \ {i}]
  /\ at' = [at EXCEPT ![g] = i]
  /\ Goto(g, "lookup")
  /\ UNCHANGED <<conns, saves, lock, op, seen, calls, crashed>>

EndConnections(g) ==
  /\ pc[g] = "listing"
  /\ todo[g] = {}
  /\ Goto(g, "idle")
  /\ UNCHANGED <<conns, saves, lock, op, at, seen, todo, calls, crashed>>

-----------------------------------------------------------------------------
\* What a goroutine that has started an operation goes on to do.
Step(g) ==
  \/ AcceptLock(g) \/ Insert(g)
  \/ LookupLock(g) \/ Lookup(g)
  \/ ReadLock(g) \/ EndRead(g)
  \/ UpdateLock(g) \/ BeginUpdate(g) \/ EndUpdate(g)
  \/ BeginAll(g) \/ EndAll(g) \/ EndConnections(g)
  \/ \E i \in Id : ReadNext(g, i)

Next ==
  /\ ~crashed
  /\ \E g \in Goroutine : Step(g) \/ \E o \in Op, i \in Id : Start(g, o, i)

Spec == Init /\ [][Next]_vars

\* A goroutine that can go on does.  Callers' functions return, and nobody
\* owes a call.
FairSpec == Spec /\ \A g \in Goroutine : WF_vars(~crashed /\ Step(g))

-----------------------------------------------------------------------------
\* The function a caller passes works on the connection as it is for as long
\* as it runs: no save of another goroutine comes between (the entry's lock,
\* and Accept not replacing an entry whose lock is held).
FunctionSeesCurrent ==
  \A g \in Goroutine : pc[g] \in {"reading", "updating"} => seen[g] = saves[at[g]]

\* A lock keeps g from its next step.
Waits(g) ==
  \/ pc[g] \in {"accept", "lookup"} /\ writer[Global] # Nobody
  \/ pc[g] = "found" /\ writer[at[g]] # Nobody
  \/ pc[g] = "drain" /\ ~Holds(IF op[g] = "accept" THEN Global ELSE at[g], g)

\* Nobody waits while all the others are idle or wait, too: an operation that
\* is over has released its locks, a failed one as well, and none takes a
\* second lock (getConnEntry unlocks before Read and Update lock the entry).
NoDeadlock ==
  (\E g \in Goroutine : Waits(g)) => \E h \in Goroutine : pc[h] # "idle" /\ ~Waits(h)

AS == INSTANCE AtomicStore

\* No update is lost and no connection replaced, whatever goroutines do at
\* the same time: each operation takes effect at one instant (Update and
\* Accept).
ImplementsAtomicStore == AS!StoreSpec

\* Every operation comes to its end, if the program does not: no lock is kept
\* by an operation that failed, and no two wait for each other.
OperationsEnd == \A g \in Goroutine : pc[g] # "idle" ~> (pc[g] = "idle" \/ crashed)

-----------------------------------------------------------------------------
\* The store may be used by any number of goroutines.  connection.go requires
\* of every operation that it provide concurrency safety; All goes through the
\* map without the lock Accept writes it under.
NeverCrashes == ~crashed
=============================================================================
