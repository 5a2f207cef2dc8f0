--------------------------- MODULE ReputationStore ---------------------------
(***************************************************************************)
(* The reputations a node keeps of its peers (starterimpl/inmem), and the  *)
(* trust function main.go gives the node, lock by lock.                    *)
(*                                                                         *)
(* witnessCandidates assesses a peer inside a Read of its reputation, and  *)
(* the trust function reads the reputation of every peer, that one again   *)
(* included.  Any goroutine may also Update a reputation, which no part of *)
(* the program does so far.                                                *)
(***************************************************************************)
EXTENDS Integers, FiniteSets, Functions

CONSTANTS
  Goroutine,
  Nobody,    \* no goroutine
  Peer,      \* the peers in the peer store
  Self,      \* the node, one of them
  None,      \* no reputation
  MaxCalls   \* MaxCalls[g]: how many calls g makes

ASSUME NobodyAssumption == Nobody \notin Goroutine
ASSUME PeerAssumption == IsFiniteSet(Peer) /\ Self \in Peer
ASSUME CallsAssumption == MaxCalls \in [Goroutine -> Nat]

VARIABLES
  reps,     \* the map of reputations
  creating, \* the goroutine that writes an entry to the map
  writer,   \* writer[p]: who has called Lock of the entry of p
  readers,  \* readers[p]: who holds a read lock of it
  at,       \* at[g]: where g is
  change,   \* change[g]: what the call of g does
  subject,  \* subject[g]: the peer whose reputation it is about
  target,   \* target[g]: the peer whose entry g is after
  value,    \* value[g]: the reputation of the subject, when g has read it
  left,     \* left[g]: the peers the trust function has yet to read
  seen,     \* seen[g]: the reputations it has read
  trusted,  \* trusted[g]: what it returns
  marks,    \* marks[p]: the changes of p that were saved, added up
  calls,    \* calls[g]: how many calls g has made
  crashed   \* the runtime has stopped the program

map == <<reps, creating>>
lock == <<writer, readers>>
call == <<change, subject>>
survey == <<left, seen, trusted>>
vars == <<map, lock, at, call, target, value, survey, marks, calls, crashed>>

Reputation == [good : Nat, total : Nat]

ASSUME NoneAssumption == None \notin Reputation

\* proportionalReputation{peerID, 0, 0}
Fresh == [good |-> 0, total |-> 0]

Change == {"reward", "weakPenalize", "strongPenalize", "nil"}

Place == {"idle", "ensure", "globalLock", "creating", "readLock", "survey", "judged",
          "writeLock", "drain", "writing"}

TypeOK ==
  /\ DOMAIN reps \subseteq Peer
  /\ \A p \in DOMAIN reps : reps[p] \in Reputation
  /\ creating \in Goroutine \cup {Nobody}
  /\ writer \in [Peer -> Goroutine \cup {Nobody}]
  /\ readers \in [Peer -> SUBSET Goroutine]
  /\ at \in [Goroutine -> Place]
  /\ change \in [Goroutine -> Change \cup {"assess"}]
  /\ subject \in [Goroutine -> Peer]
  /\ target \in [Goroutine -> Peer]
  /\ value \in [Goroutine -> Reputation \cup {None}]
  /\ left \in [Goroutine -> SUBSET Peer]
  /\ seen \in [Goroutine -> [Peer -> Reputation \cup {None}]]
  /\ trusted \in [Goroutine -> BOOLEAN]
  /\ marks \in [Peer -> Reputation]
  /\ calls \in [Goroutine -> Nat]
  /\ crashed \in BOOLEAN
  \* The entry a goroutine locks is in the map.
  /\ \A g \in Goroutine :
       at[g] \in {"readLock", "writeLock", "drain", "writing"} => target[g] \in DOMAIN reps

Unread == [p \in Peer |-> None]

Init ==
  /\ reps = [p \in {} |-> Fresh]
  /\ creating = Nobody
  /\ writer = [p \in Peer |-> Nobody]
  /\ readers = [p \in Peer |-> {}]
  /\ at = [g \in Goroutine |-> "idle"]
  /\ change = [g \in Goroutine |-> "nil"]
  /\ subject = [g \in Goroutine |-> Self]
  /\ target = [g \in Goroutine |-> Self]
  /\ value = [g \in Goroutine |-> None]
  /\ left = [g \in Goroutine |-> {}]
  /\ seen = [g \in Goroutine |-> Unread]
  /\ trusted = [g \in Goroutine |-> FALSE]
  /\ marks = [p \in Peer |-> Fresh]
  /\ calls = [g \in Goroutine |-> 0]
  /\ crashed = FALSE

-----------------------------------------------------------------------------
(* proportionalReputation.                                                 *)

\* A nil reputation is not saved.
Changed(r, c) ==
  CASE c = "reward"         -> [good |-> r.good + 1, total |-> r.total + 1]
    [] c = "weakPenalize"   -> [good |-> r.good, total |-> r.total + 1]
    [] c = "strongPenalize" -> [good |-> r.good, total |-> r.total + 3]
    [] OTHER                -> r

\* Value, as a numerator and a denominator.
Num(r) == IF r.total = 0 THEN 1 ELSE r.good
Den(r) == IF r.total = 0 THEN 1 ELSE r.total

BelowHalf(r) == 2 * Num(r) < Den(r)

\* A denominator common to the values of rs.
Common(rs) == FoldFunction(LAMBDA q, d : Den(q) * d, 1, rs)

\* The number of reputations in rs times the value of r, over that denominator.
Scaled(r, rs) == Cardinality(DOMAIN rs) * Num(r) * (Common(rs) \div Den(r))

Total(rs) == FoldFunction(LAMBDA q, s : Scaled(q, rs) + s, 0, rs)

\* The mean of the values of rs, and how far r is below it.
Mean(rs) == Total(rs) \div Cardinality(DOMAIN rs)

Below(r, rs) == Mean(rs) - Scaled(r, rs)

\* The variance times one less than the number of values.
Squares(rs) == FoldFunction(LAMBDA q, s : Below(q, rs) * Below(q, rs) + s, 0, rs)

\* Mutant: greater instead of greater or equal.
StrictlyWithin(r, rs) ==
  Below(r, rs) < 0 \/ Below(r, rs) * Below(r, rs) * (Cardinality(DOMAIN rs) - 1) < Squares(rs)

\* Whether the value of r is no further below the mean of the values of rs
\* than their standard deviation.
WithinDeviation(r, rs) ==
  Below(r, rs) <= 0 \/ Below(r, rs) * Below(r, rs) * (Cardinality(DOMAIN rs) - 1) <= Squares(rs)

-----------------------------------------------------------------------------
\* What a goroutine does once it has the entry.
Locking(g) == IF change[g] = "assess" THEN "readLock" ELSE "writeLock"

Goto(g, place) == at' = [at EXCEPT ![g] = place]

\* A goroutine starts to assess p, or to change its reputation.
Start(g, c, p) ==
  /\ at[g] = "idle"
  /\ calls[g] < MaxCalls[g]
  /\ calls' = [calls EXCEPT ![g] = @ + 1]
  /\ change' = [change EXCEPT ![g] = c]
  /\ subject' = [subject EXCEPT ![g] = p]
  /\ target' = [target EXCEPT ![g] = p]
  /\ Goto(g, "ensure")
  /\ UNCHANGED <<map, lock, value, survey, marks, crashed>>

-----------------------------------------------------------------------------
(* ensureRepExists.                                                        *)

\* Mutant: the entry is taken for granted.
TakeForGranted(g) ==
  /\ at[g] = "ensure"
  /\ Goto(g, Locking(g))
  /\ UNCHANGED <<map, lock, call, target, value, survey, marks, calls, crashed>>

\* The first look into the map, under no lock.  The runtime may find that it
\* is being written.
Look(g) ==
  /\ at[g] = "ensure"
  /\ \/ /\ Goto(g, IF target[g] \in DOMAIN reps THEN Locking(g) ELSE "globalLock")
        /\ UNCHANGED crashed
     \/ /\ creating # Nobody
        /\ crashed' = TRUE
        /\ UNCHANGED at
  /\ UNCHANGED <<map, lock, call, target, value, survey, marks, calls>>

\* Mutant: the entry is created without a second look.
CreateAnyway(g) ==
  /\ at[g] = "globalLock"
  /\ creating = Nobody
  /\ creating' = g
  /\ Goto(g, "creating")
  /\ UNCHANGED <<reps, lock, call, target, value, survey, marks, calls, crashed>>

\* The second look, under the global lock, which is released unless the entry
\* is to be created.
LookAgain(g) ==
  /\ at[g] = "globalLock"
  /\ creating = Nobody
  /\ IF target[g] \in DOMAIN reps
     THEN Goto(g, Locking(g)) /\ UNCHANGED creating
     ELSE Goto(g, "creating") /\ creating' = g
  /\ UNCHANGED <<reps, lock, call, target, value, survey, marks, calls, crashed>>

Create(g) ==
  /\ at[g] = "creating"
  /\ reps' = [p \in DOMAIN reps \cup {target[g]} |-> IF p = target[g] THEN Fresh ELSE reps[p]]
  /\ creating' = Nobody
  /\ Goto(g, Locking(g))
  /\ UNCHANGED <<lock, call, target, value, survey, marks, calls, crashed>>

-----------------------------------------------------------------------------
(* Read, around the trust function.                                        *)

\* The subject is read, and refused when its reputation is below a half.
ReadSubject(g) ==
  /\ at[g] = "readLock" /\ value[g] = None
  /\ writer[target[g]] = Nobody
  /\ readers' = [readers EXCEPT ![target[g]] = @ \cup {g}]
  /\ value' = [value EXCEPT ![g] = reps[target[g]]]
  /\ IF BelowHalf(reps[target[g]])
     THEN Goto(g, "judged") /\ UNCHANGED left
     ELSE Goto(g, "survey") /\ left' = [left EXCEPT ![g] = Peer]
  /\ UNCHANGED <<map, writer, call, target, seen, trusted, marks, calls, crashed>>

\* The trust function goes through the peers in an order of the peer store's.
NextPeer(g) ==
  /\ at[g] = "survey"
  /\ \E q \in left[g] :
       /\ target' = [target EXCEPT ![g] = q]
       /\ left' = [left EXCEPT ![g] = @ \ {q}]
  /\ Goto(g, "ensure")
  /\ UNCHANGED <<map, lock, call, value, seen, trusted, marks, calls, crashed>>

\* RLock, the function that only takes the value, and RUnlock.
ReadPeer(g) ==
  /\ at[g] = "readLock" /\ value[g] # None
  /\ writer[target[g]] = Nobody
  /\ seen' = [seen EXCEPT ![g][target[g]] = reps[target[g]]]
  /\ Goto(g, "survey")
  /\ UNCHANGED <<map, lock, call, target, value, left, trusted, marks, calls, crashed>>

Judge(g) ==
  /\ at[g] = "survey" /\ left[g] = {}
  /\ trusted' = [trusted EXCEPT ![g] = WithinDeviation(value[g], seen[g])]
  /\ Goto(g, "judged")
  /\ UNCHANGED <<map, lock, call, target, value, left, seen, marks, calls, crashed>>

EndRead(g) ==
  /\ at[g] = "judged"
  /\ readers' = [readers EXCEPT ![subject[g]] = @ \ {g}]
  /\ value' = [value EXCEPT ![g] = None]
  /\ seen' = [seen EXCEPT ![g] = Unread]
  /\ trusted' = [trusted EXCEPT ![g] = FALSE]
  /\ Goto(g, "idle")
  /\ UNCHANGED <<map, writer, call, target, left, marks, calls, crashed>>

-----------------------------------------------------------------------------
(* Update.                                                                 *)

\* Lock keeps further readers out and waits for those there are.
Lock(g) ==
  /\ at[g] = "writeLock"
  /\ writer[target[g]] = Nobody
  /\ writer' = [writer EXCEPT ![target[g]] = g]
  /\ Goto(g, "drain")
  /\ UNCHANGED <<map, readers, call, target, value, survey, marks, calls, crashed>>

\* Mutant: the lock does not wait for readers.
NoWait(p) == p \in Peer

Drained(p) == readers[p] = {}

BeginUpdate(g) ==
  /\ at[g] = "drain"
  /\ Drained(target[g])
  /\ value' = [value EXCEPT ![g] = reps[target[g]]]
  /\ Goto(g, "writing")
  /\ UNCHANGED <<map, lock, call, target, survey, marks, calls, crashed>>

\* Mutant: the lock is kept when nothing is saved.
KeepLock(g) ==
  /\ at[g] = "writing"
  /\ reps' = [reps EXCEPT ![target[g]] = Changed(value[g], change[g])]
  /\ marks' = [marks EXCEPT ![target[g]] = Changed(@, change[g])]
  /\ writer' = [writer EXCEPT ![target[g]] = IF change[g] = "nil" THEN @ ELSE Nobody]
  /\ value' = [value EXCEPT ![g] = None]
  /\ Goto(g, "idle")
  /\ UNCHANGED <<creating, readers, call, target, survey, calls, crashed>>

EndUpdate(g) ==
  /\ at[g] = "writing"
  /\ reps' = [reps EXCEPT ![target[g]] = Changed(value[g], change[g])]
  /\ marks' = [marks EXCEPT ![target[g]] = Changed(@, change[g])]
  /\ writer' = [writer EXCEPT ![target[g]] = Nobody]
  /\ value' = [value EXCEPT ![g] = None]
  /\ Goto(g, "idle")
  /\ UNCHANGED <<creating, readers, call, target, survey, calls, crashed>>

-----------------------------------------------------------------------------
Step(g) ==
  /\ ~crashed
  /\ \/ Look(g) \/ LookAgain(g) \/ Create(g)
     \/ ReadSubject(g) \/ NextPeer(g) \/ ReadPeer(g) \/ Judge(g) \/ EndRead(g)
     \/ Lock(g) \/ BeginUpdate(g) \/ EndUpdate(g)

\* The endpoints of a connection are no candidates for its witness, and the
\* node is one of them.
Begin(g) ==
  /\ ~crashed
  /\ \E p \in Peer \ {Self}, c \in Change \cup {"assess"} : Start(g, c, p)

Next == \E g \in Goroutine : Begin(g) \/ Step(g)

Spec == Init /\ [][Next]_vars

\* A goroutine that can go on does; none has to make a call.
FairSpec == Spec /\ \A g \in Goroutine : WF_vars(Step(g))

-----------------------------------------------------------------------------
\* A reputation is every change that was made to it and nothing else: neither
\* two updates at a time nor two goroutines that meet the peer for the first
\* time lose one (Update, ensureRepExists).
NothingLost ==
  \A p \in Peer : marks[p] = (IF p \in DOMAIN reps THEN reps[p] ELSE Fresh)

\* The reputation a peer is judged by is its reputation until the judgement is
\* made, and the one it enters its own survey with, though the two are read
\* under different locks (Read inside Read).
JudgedByCurrent ==
  \A g \in Goroutine : (change[g] = "assess" /\ value[g] # None) =>
    /\ reps[subject[g]] = value[g]
    /\ seen[g][subject[g]] \in {None, value[g]}

\* Only a peer below a half, or below another peer, is not trusted (main.go's
\* trust function).
OnlyWorseRefused ==
  \A g \in Goroutine : (at[g] = "judged" /\ ~trusted[g]) =>
    \/ BelowHalf(value[g])
    \/ \E p \in Peer : Num(value[g]) * Den(seen[g][p]) < Num(seen[g][p]) * Den(value[g])

\* The program is only stopped over the map while a peer is met for the first
\* time (the look of ensureRepExists under no lock).
CrashNeedsNewcomer ==
  crashed => (creating # Nobody /\ target[creating] \notin DOMAIN reps)

\* A reader of a reputation wants a read lock, of the same one maybe, behind
\* an Update that waits for that reader or for another who wants one.
Hung ==
  \E p, q \in Peer : \E h \in readers[p] :
    /\ writer[p] # Nobody /\ writer[q] # Nobody
    /\ at[h] = "readLock" /\ target[h] = q

\* A lock keeps g from its next step.
Waits(g) ==
  \/ at[g] = "globalLock" /\ creating # Nobody
  \/ at[g] \in {"readLock", "writeLock"} /\ writer[target[g]] # Nobody
  \/ at[g] = "drain" /\ ~Drained(target[g])

\* When all who have something to do wait for each other, it is because of a
\* read lock taken inside another, and of an Update between them: the global
\* lock and the updates do it by themselves for no number of goroutines.
DeadlockIsHung ==
  (\E g \in Goroutine : Waits(g)) =>
    Hung \/ \E h \in Goroutine : at[h] # "idle" /\ ~Waits(h)

\* Every call ends, unless the program is stopped, or an assessment hangs
\* behind an Update for ever (main.go's Read inside Read).
CallsEnd ==
  \A g \in Goroutine : [](at[g] # "idle" => <>(at[g] = "idle" \/ crashed \/ []Hung))
=============================================================================
