------------------------ MODULE ReputationStoreProofs ------------------------
(***************************************************************************)
(* What the locks of ReputationStore do for any number of goroutines,      *)
(* peers and calls.                                                        *)
(***************************************************************************)
EXTENDS ReputationStore, FiniteSetTheorems, WellFoundedInduction, TLAPS

\* One goroutine writes the map, and only to add an entry.
CreatorOK ==
  \A g \in Goroutine :
    /\ creating = g <=> at[g] = "creating"
    /\ at[g] = "creating" => target[g] \notin DOMAIN reps

\* Who has called Lock of an entry is in Update of it.
WriterOK ==
  \A g \in Goroutine, p \in Peer :
    writer[p] = g <=> (at[g] \in {"drain", "writing"} /\ target[g] = p)

\* Who holds the read lock of an entry is in an assessment of it.
ReaderOK ==
  \A g \in Goroutine, p \in Peer :
    g \in readers[p] <=> (change[g] = "assess" /\ value[g] # None /\ subject[g] = p)

\* What a goroutine at a place has, by what it does.
PlaceOK ==
  \A g \in Goroutine :
    /\ at[g] = "idle" => value[g] = None
    /\ at[g] \in {"readLock", "survey", "judged"} => change[g] = "assess"
    /\ at[g] \in {"survey", "judged"} => value[g] # None
    /\ at[g] \in {"writeLock", "drain", "writing"} => change[g] # "assess"
    /\ (value[g] = None \/ change[g] # "assess") => seen[g] = Unread
    /\ (value[g] = None /\ at[g] # "idle") => target[g] = subject[g]
    /\ (change[g] # "assess" /\ value[g] # None) => at[g] = "writing"

\* An update works on the reputation as it is, and nobody reads it.
UpdateOK ==
  \A g \in Goroutine : at[g] = "writing" =>
    /\ value[g] = reps[target[g]]
    /\ readers[target[g]] = {}

\* A peer under assessment has an entry.
SubjectOK ==
  \A g \in Goroutine :
    (change[g] = "assess" /\ value[g] # None) => subject[g] \in DOMAIN reps

\* The inductive invariant.
IInv ==
  /\ TypeOK /\ CreatorOK /\ WriterOK /\ ReaderOK /\ PlaceOK /\ UpdateOK /\ SubjectOK
  /\ NothingLost /\ JudgedByCurrent /\ CrashNeedsNewcomer

\* A change of a reputation is a reputation.
LEMMA ChangedType ==
  ASSUME NEW r \in Reputation, NEW c
  PROVE  Changed(r, c) \in Reputation
BY DEF Changed, Reputation

\* The invariant holds at first.
LEMMA InvInit ==
  ASSUME Init
  PROVE  IInv
<1>. Fresh \in Reputation
  BY DEF Fresh, Reputation
<1>. USE NobodyAssumption, PeerAssumption DEF Init, Place
<1>1. TypeOK
  BY DEF TypeOK, Unread, Change
<1>2. CreatorOK /\ WriterOK /\ ReaderOK /\ PlaceOK /\ UpdateOK /\ SubjectOK
  BY DEF CreatorOK, WriterOK, ReaderOK, PlaceOK, UpdateOK, SubjectOK
<1>3. NothingLost /\ JudgedByCurrent /\ CrashNeedsNewcomer
  BY DEF NothingLost, JudgedByCurrent, CrashNeedsNewcomer
<1>. QED
  BY <1>1, <1>2, <1>3 DEF IInv

\* Every step of a goroutine keeps it.
LEMMA StepInv ==
  ASSUME IInv, NEW g \in Goroutine, ~crashed, Begin(g) \/ Step(g)
  PROVE  IInv'
<1>. USE NobodyAssumption, NoneAssumption DEF IInv, map, lock, call, survey, Goto
<1>1. CASE Begin(g)
  <2>1. TypeOK'
    BY <1>1 DEF Begin, Start, TypeOK, Place, Change
  <2>2. CreatorOK' /\ WriterOK' /\ ReaderOK'
    BY <1>1 DEF Begin, Start, CreatorOK, TypeOK, PlaceOK, WriterOK, ReaderOK
  <2>3. PlaceOK' /\ UpdateOK' /\ SubjectOK'
    BY <1>1 DEF Begin, Start, PlaceOK, TypeOK, UpdateOK, SubjectOK
  <2>4. NothingLost' /\ JudgedByCurrent' /\ CrashNeedsNewcomer'
    BY <1>1 DEF Begin, Start, NothingLost, TypeOK, JudgedByCurrent, PlaceOK,
                CrashNeedsNewcomer
  <2>. QED
    BY <2>1, <2>2, <2>3, <2>4
<1>2. CASE Look(g)
  <2>1. TypeOK'
    BY <1>2 DEF Look, Locking, TypeOK, Place, Change
  <2>2. CreatorOK' /\ WriterOK' /\ ReaderOK'
    BY <1>2 DEF Look, Locking, CreatorOK, TypeOK, PlaceOK, WriterOK, ReaderOK
  <2>3. PlaceOK' /\ UpdateOK' /\ SubjectOK'
    BY <1>2 DEF Look, Locking, PlaceOK, TypeOK, UpdateOK, SubjectOK
  <2>4. NothingLost' /\ JudgedByCurrent' /\ CrashNeedsNewcomer'
    BY <1>2 DEF Look, Locking, NothingLost, TypeOK, JudgedByCurrent, PlaceOK,
                CrashNeedsNewcomer, CreatorOK
  <2>. QED
    BY <2>1, <2>2, <2>3, <2>4
<1>3. CASE LookAgain(g)
  <2>1. TypeOK'
    BY <1>3 DEF LookAgain, Locking, TypeOK, Place, Change
  <2>2. CreatorOK' /\ WriterOK' /\ ReaderOK'
    BY <1>3 DEF LookAgain, Locking, CreatorOK, TypeOK, PlaceOK, WriterOK, ReaderOK
  <2>3. PlaceOK' /\ UpdateOK' /\ SubjectOK'
    BY <1>3 DEF LookAgain, Locking, PlaceOK, TypeOK, UpdateOK, SubjectOK
  <2>4. NothingLost' /\ JudgedByCurrent' /\ CrashNeedsNewcomer'
    BY <1>3 DEF LookAgain, Locking, NothingLost, TypeOK, JudgedByCurrent, PlaceOK,
                CrashNeedsNewcomer
  <2>. QED
    BY <2>1, <2>2, <2>3, <2>4
<1>4. CASE Create(g)
  <2>1. TypeOK'
    BY <1>4 DEF Create, Locking, TypeOK, Place, Change, Fresh, Reputation, CreatorOK
  <2>2. CreatorOK' /\ WriterOK' /\ ReaderOK'
    BY <1>4 DEF Create, Locking, CreatorOK, TypeOK, PlaceOK, WriterOK, ReaderOK
  <2>3. PlaceOK' /\ UpdateOK' /\ SubjectOK'
    BY <1>4 DEF Create, Locking, PlaceOK, TypeOK, CreatorOK, UpdateOK, SubjectOK
  <2>4. NothingLost' /\ JudgedByCurrent' /\ CrashNeedsNewcomer'
    BY <1>4 DEF Create, Locking, NothingLost, TypeOK, CreatorOK, JudgedByCurrent,
                SubjectOK, CrashNeedsNewcomer
  <2>. QED
    BY <2>1, <2>2, <2>3, <2>4
<1>5. CASE ReadSubject(g)
  <2>1. TypeOK'
    <3>1. reps[target[g]] \in Reputation /\ target[g] \in Peer
      BY <1>5 DEF ReadSubject, TypeOK
    <3>2. value' \in [Goroutine -> Reputation \cup {None}]
      BY <1>5, <3>1 DEF ReadSubject, TypeOK
    <3>3. left' \in [Goroutine -> SUBSET Peer]
      <4>1. left' = left \/ left' = [left EXCEPT ![g] = Peer]
        BY <1>5 DEF ReadSubject
      <4>2. left \in [Goroutine -> SUBSET Peer]
        BY DEF TypeOK
      <4>. QED
        BY <4>1, <4>2
    <3>4. at' \in [Goroutine -> Place] /\ readers' \in [Peer -> SUBSET Goroutine]
      <4>1. at' = [at EXCEPT ![g] = "judged"] \/ at' = [at EXCEPT ![g] = "survey"]
        BY <1>5 DEF ReadSubject
      <4>2. readers' = [readers EXCEPT ![target[g]] = readers[target[g]] \cup {g}]
        BY <1>5 DEF ReadSubject
      <4>3. at' \in [Goroutine -> Place]
        BY <4>1 DEF TypeOK, Place
      <4>4. readers' \in [Peer -> SUBSET Goroutine]
        BY <3>1, <4>2 DEF TypeOK
      <4>. QED
        BY <4>3, <4>4
    <3>. QED
      BY <1>5, <3>1, <3>2, <3>3, <3>4 DEF ReadSubject, TypeOK
  <2>2. CreatorOK' /\ WriterOK' /\ ReaderOK'
    BY <1>5 DEF ReadSubject, CreatorOK, TypeOK, PlaceOK, WriterOK, ReaderOK
  <2>3. PlaceOK' /\ UpdateOK' /\ SubjectOK'
    <3>1. PlaceOK'
      BY <1>5 DEF ReadSubject, PlaceOK, TypeOK
    <3>2. UpdateOK'
      BY <1>5 DEF ReadSubject, PlaceOK, TypeOK, UpdateOK, WriterOK
    <3>3. SubjectOK'
      <4>1. target[g] = subject[g] /\ target[g] \in DOMAIN reps
        BY <1>5 DEF ReadSubject, PlaceOK, TypeOK
      <4>2. UNCHANGED <<reps, change, subject>> /\ \A h \in Goroutine \ {g} : value'[h] = value[h]
        BY <1>5 DEF ReadSubject, TypeOK
      <4>. QED
        BY <4>1, <4>2 DEF SubjectOK
    <3>. QED
      BY <3>1, <3>2, <3>3
  <2>4. NothingLost' /\ JudgedByCurrent' /\ CrashNeedsNewcomer'
    BY <1>5 DEF ReadSubject, NothingLost, TypeOK, JudgedByCurrent, PlaceOK, Unread,
                CrashNeedsNewcomer
  <2>. QED
    BY <2>1, <2>2, <2>3, <2>4
<1>6. CASE NextPeer(g)
  <2>1. TypeOK'
    BY <1>6 DEF NextPeer, TypeOK, Place, Change
  <2>2. CreatorOK' /\ WriterOK' /\ ReaderOK'
    BY <1>6 DEF NextPeer, CreatorOK, TypeOK, PlaceOK, WriterOK, ReaderOK
  <2>3. PlaceOK' /\ UpdateOK' /\ SubjectOK'
    BY <1>6 DEF NextPeer, PlaceOK, TypeOK, UpdateOK, SubjectOK
  <2>4. NothingLost' /\ JudgedByCurrent' /\ CrashNeedsNewcomer'
    BY <1>6 DEF NextPeer, NothingLost, TypeOK, JudgedByCurrent, PlaceOK,
                CrashNeedsNewcomer
  <2>. QED
    BY <2>1, <2>2, <2>3, <2>4
<1>7. CASE ReadPeer(g)
  <2>1. TypeOK'
    BY <1>7 DEF ReadPeer, TypeOK, Place, Change
  <2>2. CreatorOK' /\ WriterOK' /\ ReaderOK'
    BY <1>7 DEF ReadPeer, CreatorOK, TypeOK, PlaceOK, WriterOK, ReaderOK
  <2>3. PlaceOK' /\ UpdateOK' /\ SubjectOK'
    BY <1>7 DEF ReadPeer, PlaceOK, TypeOK, UpdateOK, SubjectOK
  <2>4. NothingLost' /\ JudgedByCurrent' /\ CrashNeedsNewcomer'
    BY <1>7 DEF ReadPeer, NothingLost, TypeOK, JudgedByCurrent, PlaceOK,
                CrashNeedsNewcomer
  <2>. QED
    BY <2>1, <2>2, <2>3, <2>4
<1>8. CASE Judge(g)
  <2>1. TypeOK'
    <3>1. WithinDeviation(value[g], seen[g]) \in BOOLEAN
      BY DEF WithinDeviation
    <3>. QED
      BY <1>8, <3>1 DEF Judge, TypeOK, Place, Change
  <2>2. CreatorOK' /\ WriterOK' /\ ReaderOK'
    BY <1>8 DEF Judge, CreatorOK, TypeOK, PlaceOK, WriterOK, ReaderOK
  <2>3. PlaceOK' /\ UpdateOK' /\ SubjectOK'
    BY <1>8 DEF Judge, PlaceOK, TypeOK, UpdateOK, SubjectOK
  <2>4. NothingLost' /\ JudgedByCurrent' /\ CrashNeedsNewcomer'
    BY <1>8 DEF Judge, NothingLost, TypeOK, JudgedByCurrent, PlaceOK, CrashNeedsNewcomer
  <2>. QED
    BY <2>1, <2>2, <2>3, <2>4
<1>9. CASE EndRead(g)
  <2>1. TypeOK'
    BY <1>9 DEF EndRead, TypeOK, Place, Change, Unread
  <2>2. CreatorOK' /\ WriterOK' /\ ReaderOK'
    BY <1>9 DEF EndRead, CreatorOK, TypeOK, PlaceOK, WriterOK, ReaderOK
  <2>3. PlaceOK' /\ UpdateOK' /\ SubjectOK'
    BY <1>9 DEF EndRead, PlaceOK, TypeOK, UpdateOK, SubjectOK
  <2>4. NothingLost' /\ JudgedByCurrent' /\ CrashNeedsNewcomer'
    BY <1>9 DEF EndRead, NothingLost, TypeOK, JudgedByCurrent, PlaceOK, CrashNeedsNewcomer
  <2>. QED
    BY <2>1, <2>2, <2>3, <2>4
<1>10. CASE Lock(g)
  <2>1. TypeOK'
    BY <1>10 DEF Lock, TypeOK, Place, Change
  <2>2. CreatorOK' /\ WriterOK' /\ ReaderOK'
    BY <1>10 DEF Lock, CreatorOK, TypeOK, PlaceOK, WriterOK, ReaderOK
  <2>3. PlaceOK' /\ UpdateOK' /\ SubjectOK'
    BY <1>10 DEF Lock, PlaceOK, TypeOK, UpdateOK, SubjectOK
  <2>4. NothingLost' /\ JudgedByCurrent' /\ CrashNeedsNewcomer'
    BY <1>10 DEF Lock, NothingLost, TypeOK, JudgedByCurrent, PlaceOK, CrashNeedsNewcomer
  <2>. QED
    BY <2>1, <2>2, <2>3, <2>4
<1>11. CASE BeginUpdate(g)
  <2>1. TypeOK'
    BY <1>11 DEF BeginUpdate, TypeOK, Place, Change, Drained, UpdateOK, ReaderOK, WriterOK
  <2>2. CreatorOK' /\ WriterOK' /\ ReaderOK'
    BY <1>11 DEF BeginUpdate, CreatorOK, TypeOK, PlaceOK, Drained, UpdateOK, ReaderOK,
                 WriterOK
  <2>3. PlaceOK' /\ UpdateOK' /\ SubjectOK'
    BY <1>11 DEF BeginUpdate, PlaceOK, TypeOK, Drained, UpdateOK, ReaderOK, WriterOK,
                 SubjectOK
  <2>4. NothingLost' /\ JudgedByCurrent' /\ CrashNeedsNewcomer'
    BY <1>11 DEF BeginUpdate, NothingLost, TypeOK, Drained, UpdateOK, ReaderOK, WriterOK,
                 JudgedByCurrent, PlaceOK, CrashNeedsNewcomer
  <2>. QED
    BY <2>1, <2>2, <2>3, <2>4
<1>12. CASE EndUpdate(g)
  <2>1. TypeOK'
    BY <1>12, ChangedType DEF EndUpdate, TypeOK, Place, Change, UpdateOK, ReaderOK, WriterOK
  <2>2. CreatorOK' /\ WriterOK' /\ ReaderOK'
    BY <1>12 DEF EndUpdate, CreatorOK, TypeOK, PlaceOK, UpdateOK, ReaderOK, WriterOK
  <2>3. PlaceOK' /\ UpdateOK' /\ SubjectOK'
    BY <1>12 DEF EndUpdate, PlaceOK, TypeOK, UpdateOK, ReaderOK, WriterOK, SubjectOK
  <2>4. NothingLost' /\ JudgedByCurrent' /\ CrashNeedsNewcomer'
    BY <1>12 DEF EndUpdate, NothingLost, TypeOK, UpdateOK, ReaderOK, WriterOK,
                 JudgedByCurrent, PlaceOK, CrashNeedsNewcomer
  <2>. QED
    BY <2>1, <2>2, <2>3, <2>4
<1>. QED
  BY <1>1, <1>2, <1>3, <1>4, <1>5, <1>6, <1>7, <1>8, <1>9, <1>10, <1>11, <1>12 DEF Step

\* So does every step of the specification.
LEMMA NextInv ==
  ASSUME IInv, [Next]_vars
  PROVE  IInv'
<1>1. CASE Next
  <2>1. PICK g \in Goroutine : Begin(g) \/ Step(g)
    BY <1>1 DEF Next
  <2>2. ~crashed
    BY <2>1 DEF Begin, Step
  <2>. QED
    BY <2>1, <2>2, StepInv
<1>2. CASE UNCHANGED vars
  BY <1>2 DEF vars, map, lock, call, survey, IInv, TypeOK, CreatorOK, WriterOK, ReaderOK,
              PlaceOK, UpdateOK, SubjectOK, NothingLost, JudgedByCurrent, CrashNeedsNewcomer
<1>. QED
  BY <1>1, <1>2

\* It holds at all times.
LEMMA IInvHolds == Spec => []IInv
<1>1. Init => IInv
  BY InvInit
<1>2. IInv /\ [Next]_vars => IInv'
  BY NextInv
<1>. QED
  BY <1>1, <1>2, PTL DEF Spec

-----------------------------------------------------------------------------
\* No change of a reputation is lost, for any number of goroutines that update
\* it or meet the peer for the first time (Update, ensureRepExists).
THEOREM NothingLostHolds == Spec => []NothingLost
<1>1. IInv => NothingLost
  BY DEF IInv
<1>. QED
  BY <1>1, IInvHolds, PTL

\* A peer is judged by its reputation as it is when the judgement is made
\* (main.go's trust function inside Read).
THEOREM JudgedByCurrentHolds == Spec => []JudgedByCurrent
<1>1. IInv => JudgedByCurrent
  BY DEF IInv
<1>. QED
  BY <1>1, IInvHolds, PTL

\* A peer that has an entry never stops the program: the map is only written
\* for one that has none (ensureRepExists).
THEOREM CrashNeedsNewcomerHolds == Spec => []CrashNeedsNewcomer
<1>1. IInv => CrashNeedsNewcomer
  BY DEF IInv
<1>. QED
  BY <1>1, IInvHolds, PTL

\* The variables keep their types, and no entry is locked that is not in the
\* map (ensureRepExists).
THEOREM ReputationTypeCorrect == Spec => []TypeOK
<1>1. IInv => TypeOK
  BY DEF IInv
<1>. QED
  BY <1>1, IInvHolds, PTL

\* Who waits for a lock waits for somebody who can go on, or for a reader that
\* has come back for another read lock.
LEMMA WaitsForSomebody ==
  ASSUME IInv
  PROVE  DeadlockIsHung
<1>. DEFINE Runs == \E h \in Goroutine : at[h] # "idle" /\ ~Waits(h)
<1>0. /\ writer \in [Peer -> Goroutine \cup {Nobody}] /\ readers \in [Peer -> SUBSET Goroutine]
      /\ creating \in Goroutine \cup {Nobody} /\ target \in [Goroutine -> Peer]
  BY DEF IInv, TypeOK
<1>1. ASSUME creating # Nobody PROVE Runs
  <2>1. creating \in Goroutine /\ at[creating] = "creating"
    BY <1>0, <1>1 DEF IInv, CreatorOK
  <2>. QED
    BY <2>1 DEF Waits
<1>2. ASSUME NEW p \in Peer, writer[p] # Nobody, NEW r \in readers[p] PROVE Hung \/ Runs
  <2>1. r \in Goroutine /\ at[r] # "idle" /\ at[r] \notin {"writeLock", "drain"}
    BY <1>0, <1>2 DEF IInv, ReaderOK, PlaceOK
  <2>2. CASE at[r] = "readLock" /\ writer[target[r]] # Nobody
    BY <1>0, <1>2, <2>1, <2>2 DEF Hung
  <2>3. CASE at[r] = "globalLock" /\ creating # Nobody
    BY <1>1, <2>3
  <2>. QED
    BY <2>1, <2>2, <2>3 DEF Waits
<1>3. ASSUME NEW p \in Peer, writer[p] # Nobody PROVE Hung \/ Runs
  <2>1. PICK h \in Goroutine : writer[p] = h
    BY <1>0, <1>3
  <2>2. at[h] \in {"drain", "writing"} /\ target[h] = p
    BY <2>1 DEF IInv, WriterOK
  <2>3. CASE readers[p] = {}
    BY <2>2, <2>3 DEF Waits, Drained
  <2>. QED
    BY <1>2, <1>3, <2>3
<1>. SUFFICES ASSUME NEW g \in Goroutine, Waits(g) PROVE Hung \/ Runs
  BY DEF DeadlockIsHung
<1>4. CASE at[g] = "globalLock"
  BY <1>1, <1>4 DEF Waits
<1>5. CASE at[g] \in {"readLock", "writeLock"}
  BY <1>0, <1>3, <1>5 DEF Waits
<1>6. CASE at[g] = "drain"
  <2>1. writer[target[g]] = g /\ target[g] \in Peer
    BY <1>0, <1>6 DEF IInv, WriterOK
  <2>. QED
    BY <1>3, <2>1, NobodyAssumption
<1>. QED
  BY <1>4, <1>5, <1>6 DEF Waits

\* The goroutines only come to wait for each other over a read lock taken
\* inside another with an Update between them (main.go's trust function), for
\* any number of them: never over the global lock, or over updates alone.
THEOREM DeadlockIsHungHolds == Spec => []DeadlockIsHung
<1>1. IInv => DeadlockIsHung
  BY WaitsForSomebody
<1>. QED
  BY <1>1, IInvHolds, PTL

-----------------------------------------------------------------------------
(* Folds over finite sets.  The recursive function a fold is defined by    *)
(* exists, and what it yields is proved by induction on the size of the    *)
(* set, the induction being over a set of naturals and not a predicate.    *)

\* A set that has zero and the successor of what it has has every natural number.
LEMMA SetInduction ==
  ASSUME NEW T, 0 \in T, \A n \in Nat : n \in T => n + 1 \in T
  PROVE  Nat \subseteq T
<1> SUFFICES ASSUME Nat \ T # {} PROVE FALSE
  OBVIOUS
<1> DEFINE R == {ss \in Nat \X Nat : ss[1] < ss[2]}
<1>1. IsWellFoundedOn(R, Nat)
  BY NatLessThanWellFounded DEF OpToRel
<1>3. \A x, y \in Nat : <<y, x>> \in R <=> y < x
  OBVIOUS
<1>2. \E x \in Nat \ T : \A y \in Nat \ T : ~(<<y,x>> \in R)
  <2> HIDE DEF R
  <2> QED BY <1>1, WFMin 
<1>4. PICK x \in Nat \ T : \A y \in Nat \ T : ~ (y < x)
  BY <1>2, <1>3
<1>5. x # 0
  OBVIOUS
<1>6. x - 1 \in Nat /\ x - 1 < x
  BY <1>5
<1>. QED
  BY <1>4, <1>6

\* The element that a fold of s begins with.
Pick(s) == CHOOSE x \in s : TRUE

\* h[s] is the fold of s, from base, for every s \subseteq S.
Folds(h, S, base, step) ==
  /\ h[{}] = base
  /\ \A s \in SUBSET S : s # {} => h[s] = step[<<Pick(s), h[s \ {Pick(s)}]>>]

\* Picking from a set leaves one that is smaller by one.
LEMMA PickOne ==
  ASSUME NEW S, IsFiniteSet(S), NEW s \in SUBSET S, s # {}
  PROVE  /\ Pick(s) \in s /\ Cardinality(s) \in Nat
         /\ Cardinality(s) > 0
         /\ s \ {Pick(s)} \in SUBSET S
         /\ Cardinality(s \ {Pick(s)}) = Cardinality(s) - 1
<1>1. Pick(s) \in s
  BY DEF Pick
<1>2. IsFiniteSet(s)
  BY FS_Subset
<1>3. Cardinality(s) \in Nat /\ Cardinality(s) # 0
  BY <1>2, FS_CardinalityType, FS_EmptySet
<1>4. Cardinality(s \ {Pick(s)}) = Cardinality(s) - 1
  BY <1>1, <1>2, FS_RemoveElement
<1>. QED
  BY <1>1, <1>3, <1>4

\* What the empty set has, and a set whenever it is left when one element is
\* picked, every finite set has.
LEMMA SubsetInduction ==
  ASSUME NEW S, IsFiniteSet(S), NEW T, {} \in T,
         \A s \in SUBSET S : s # {} /\ s \ {Pick(s)} \in T => s \in T
  PROVE  SUBSET S \subseteq T
<1> DEFINE N == {n \in Nat : \A s \in SUBSET S : Cardinality(s) = n => s \in T}
<1>1. 0 \in N
  <2> SUFFICES ASSUME NEW s \in SUBSET S, Cardinality(s) = 0 PROVE s \in T
    OBVIOUS
  <2> QED
    BY FS_Subset, FS_EmptySet
<1>2. ASSUME NEW n \in Nat, n \in N PROVE n + 1 \in N
  <2> SUFFICES ASSUME NEW s \in SUBSET S, Cardinality(s) = n + 1 PROVE s \in T
    OBVIOUS
  <2>1. s # {}
    BY FS_EmptySet
  <2>2. s \ {Pick(s)} \in SUBSET S /\ Cardinality(s \ {Pick(s)}) = n
    BY <2>1, PickOne
  <2> QED
    BY <1>2, <2>1, <2>2
<1>3. Nat \subseteq N
  <2> HIDE DEF N
  <2> QED
    BY <1>1, <1>2, SetInduction
<1> SUFFICES ASSUME NEW s \in SUBSET S PROVE s \in T
  OBVIOUS
<1>4. Cardinality(s) \in Nat
  BY FS_Subset, FS_CardinalityType
<1>. QED
  BY <1>3, <1>4

\* There is a function that folds the subsets of a finite set.
LEMMA FoldExists ==
  ASSUME NEW S, IsFiniteSet(S), NEW G, NEW base \in G, NEW step \in [S \X G -> G]
  PROVE  \E h \in [SUBSET S -> G] : Folds(h, S, base, step)
<1> DEFINE Small(n) == {s \in SUBSET S : Cardinality(s) <= n}
           Unfold(h, s) == IF s = {} THEN base ELSE step[<<Pick(s), h[s \ {Pick(s)}]>>]
           N == {n \in Nat : \E h \in [Small(n) -> G] : \A s \in Small(n) : h[s] = Unfold(h, s)}
<1>a. \A s \in SUBSET S : s = {} <=> Cardinality(s) = 0
  BY FS_Subset, FS_EmptySet
<1>b. \A s \in SUBSET S : Cardinality(s) \in Nat
  BY FS_Subset, FS_CardinalityType
<1>1. 0 \in N
  <2>1. \A s \in Small(0) : s = {}
    BY <1>a, <1>b
  <2>2. [s \in Small(0) |-> base] \in [Small(0) -> G]
    OBVIOUS
  <2>3. \A s \in Small(0) : [t \in Small(0) |-> base][s] = Unfold([t \in Small(0) |-> base], s)
    BY <2>1
  <2> QED
    BY <2>2, <2>3
<1>2. ASSUME NEW n \in Nat, n \in N PROVE n + 1 \in N
  <2>1. PICK h \in [Small(n) -> G] : \A s \in Small(n) : h[s] = Unfold(h, s)
    BY <1>2
  <2> DEFINE k == [s \in Small(n + 1) |-> Unfold(h, s)]
  <2>2. \A s \in Small(n + 1) : s # {} => Pick(s) \in S /\ s \ {Pick(s)} \in Small(n)
    <3> SUFFICES ASSUME NEW s \in Small(n + 1), s # {}
                 PROVE  Pick(s) \in S /\ s \ {Pick(s)} \in Small(n)
      OBVIOUS
    <3> QED
      BY PickOne
  <2>3. k \in [Small(n + 1) -> G]
    BY <2>2
  <2>4. \A s \in Small(n) : s \in Small(n + 1) /\ k[s] = h[s]
    <3> SUFFICES ASSUME NEW s \in Small(n) PROVE s \in Small(n + 1) /\ k[s] = h[s]
      OBVIOUS
    <3>1. s \in Small(n + 1)
      BY <1>b
    <3>2. h[s] = Unfold(h, s)
      <4> HIDE DEF Small, Unfold
      <4> QED
        BY <2>1
    <3>3. k[s] = Unfold(h, s)
      BY <3>1
    <3> QED
      BY <3>1, <3>2, <3>3
  <2>5. \A s \in Small(n + 1) : k[s] = Unfold(k, s)
    <3> SUFFICES ASSUME NEW s \in Small(n + 1), s # {} PROVE k[s \ {Pick(s)}] = h[s \ {Pick(s)}]
      OBVIOUS
    <3> QED
      BY <2>2, <2>4
  <2>6. \E g \in [Small(n + 1) -> G] : \A s \in Small(n + 1) : g[s] = Unfold(g, s)
    <3> HIDE DEF k, Unfold, Small
    <3> QED
      BY <2>3, <2>5
  <2> HIDE DEF Small, Unfold
  <2> QED
    BY <2>6
<1>3. Nat \subseteq N
  <2> HIDE DEF N
  <2> QED
    BY <1>1, <1>2, SetInduction
<1>4. Cardinality(S) \in Nat
  BY FS_CardinalityType
<1>5. Small(Cardinality(S)) = SUBSET S
  BY FS_Subset
<1>6. PICK h \in [SUBSET S -> G] : \A s \in SUBSET S : h[s] = Unfold(h, s)
  <2>1. Cardinality(S) \in N
    BY <1>3, <1>4
  <2>2. \E h \in [Small(Cardinality(S)) -> G] : \A s \in Small(Cardinality(S)) : h[s] = Unfold(h, s)
    <3> HIDE DEF Small, Unfold
    <3> QED
      BY <2>1
  <2> QED
    <3> HIDE DEF Small, Unfold
    <3> QED
      BY <2>2, <1>5
<1>. QED
  BY <1>6 DEF Folds

\* The common denominator is the product of the denominators, peer by peer.
LEMMA CommonIsFold ==
  ASSUME NEW S, IsFiniteSet(S), NEW rs \in [S -> Reputation]
  PROVE  \E h :
           /\ Common(rs) = h[S]
           /\ h[{}] = 1
           /\ \A s \in SUBSET S : s # {} => h[s] = Den(rs[Pick(s)]) * h[s \ {Pick(s)}]
<1> DEFINE step == [t \in S \X Nat |-> Den(rs[t[1]]) * t[2]]
           Eq(h) == h = [s \in SUBSET S |->
                           IF s = {} THEN 1 ELSE Den(rs[Pick(s)]) * h[s \ {Pick(s)}]]
<1>1. \A x \in S : Den(rs[x]) \in Nat
  BY DEF Reputation, Den
<1>2. step \in [S \X Nat -> Nat]
  <2>1. \A a, b \in Nat : a * b \in Nat
    OBVIOUS
  <2>2. \A t \in S \X Nat : Den(rs[t[1]]) * t[2] \in Nat
    BY <1>1, <2>1
  <2> QED
    BY <2>2
<1>3. PICK h \in [SUBSET S -> Nat] : Folds(h, S, 1, step)
  <2> HIDE DEF step
  <2> QED
    BY <1>2, FoldExists
<1>4. \A s \in SUBSET S : s # {} => h[s] = Den(rs[Pick(s)]) * h[s \ {Pick(s)}]
  <2> SUFFICES ASSUME NEW s \in SUBSET S, s # {} PROVE h[s] = Den(rs[Pick(s)]) * h[s \ {Pick(s)}]
    OBVIOUS
  <2>1. Pick(s) \in S /\ h[s \ {Pick(s)}] \in Nat
    BY PickOne
  <2> QED
    BY <1>3, <2>1 DEF Folds
<1>6. Eq(h)
  BY <1>3, <1>4 DEF Folds
<1>7. Eq(CHOOSE k : Eq(k))
  <2> HIDE DEF Eq
  <2> QED
    BY <1>6
<1>8. Common(rs) = (CHOOSE k : Eq(k))[S]
  BY DEF Common, FoldFunction, FoldFunctionOnSet, MapThenFoldSet, Pick
<1>9. PICK k : Eq(k) /\ Common(rs) = k[S]
  <2> HIDE DEF Eq
  <2> QED
    BY <1>7, <1>8
<1>. QED
  BY <1>9

\* The value of a reputation is a fraction.
LEMMA ValueType ==
  ASSUME NEW r \in Reputation
  PROVE  Num(r) \in Nat /\ Den(r) \in Nat \ {0}
BY DEF Reputation, Num, Den

\* The common denominator is a multiple of each of them.
LEMMA CommonMultiple ==
  ASSUME NEW S, IsFiniteSet(S), NEW rs \in [S -> Reputation]
  PROVE  /\ Common(rs) \in Nat \ {0}
         /\ \A p \in S : \E k \in Nat : Common(rs) = k * Den(rs[p])
<1>1. PICK h :
        /\ Common(rs) = h[S]
        /\ h[{}] = 1
        /\ \A s \in SUBSET S : s # {} => h[s] = Den(rs[Pick(s)]) * h[s \ {Pick(s)}]
  BY CommonIsFold
<1> DEFINE Multiple(n, s) == n \in Nat \ {0} /\ \A p \in s : \E k \in Nat : n = k * Den(rs[p])
           T == {s \in SUBSET S : Multiple(h[s], s)}
<1>2. {} \in T
  BY <1>1
<1>3. ASSUME NEW s \in SUBSET S, s # {}, s \ {Pick(s)} \in T PROVE s \in T
  <2> DEFINE x == Pick(s)
             n == h[s \ {x}]
  <2>1. x \in S /\ Den(rs[x]) \in Nat \ {0} /\ x \in s
    BY <1>3, PickOne, ValueType
  <2>2. n \in Nat \ {0} /\ \A p \in s \ {x} : \E k \in Nat : n = k * Den(rs[p])
    BY <1>3
  <2>3. h[s] = Den(rs[x]) * n
    BY <1>1, <1>3
  <2> HIDE DEF x, n
  <2>4. h[s] \in Nat \ {0}
    BY <2>1, <2>2, <2>3
  <2>5. ASSUME NEW p \in s PROVE \E k \in Nat : h[s] = k * Den(rs[p])
    <3>1. CASE p = x
      <4>1. h[s] = n * Den(rs[p])
        BY <2>1, <2>2, <2>3, <3>1
      <4> QED
        BY <2>2, <4>1
    <3>2. CASE p # x
      <4>1. PICK k \in Nat : n = k * Den(rs[p])
        BY <2>2, <3>2
      <4>2. Den(rs[p]) \in Nat
        BY ValueType
      <4>3. h[s] = (Den(rs[x]) * k) * Den(rs[p]) /\ Den(rs[x]) * k \in Nat
        BY <2>1, <2>3, <4>1, <4>2
      <4> QED
        BY <4>3
    <3> QED
      BY <3>1, <3>2
  <2> QED
    BY <2>4, <2>5
<1>4. SUBSET S \subseteq T
  <2> HIDE DEF T
  <2> QED
    BY <1>2, <1>3, SubsetInduction
<1>5. Multiple(h[S], S)
  BY <1>4
<1>. QED
  BY <1>1, <1>5

\* So each value is scaled to a natural number.
LEMMA ScaledValue ==
  ASSUME NEW S, IsFiniteSet(S), NEW rs \in [S -> Reputation], NEW p \in S
  PROVE  \E k \in Nat : /\ Common(rs) = k * Den(rs[p])
                        /\ Scaled(rs[p], rs) = Cardinality(S) * (Num(rs[p]) * k)
                        /\ Scaled(rs[p], rs) \in Nat
<1>1. PICK k \in Nat : Common(rs) = k * Den(rs[p])
  BY CommonMultiple
<1>2. Num(rs[p]) \in Nat /\ Den(rs[p]) \in Nat \ {0}
  BY ValueType
<1>3. (k * Den(rs[p])) \div Den(rs[p]) = k
  BY <1>2
<1>4. Cardinality(S) \in Nat
  BY FS_CardinalityType
<1>5. Scaled(rs[p], rs) = Cardinality(S) * Num(rs[p]) * k
  BY <1>1, <1>3 DEF Scaled
<1>6. \A a, b, c \in Nat : a * b * c = a * (b * c) /\ a * b * c \in Nat
  OBVIOUS
<1>. QED
  BY <1>1, <1>2, <1>4, <1>5, <1>6

\* A value that is no less is scaled to no less.
LEMMA ScaledOrder ==
  ASSUME NEW S, IsFiniteSet(S), NEW rs \in [S -> Reputation], NEW p \in S, NEW q \in S,
         Num(rs[q]) * Den(rs[p]) <= Num(rs[p]) * Den(rs[q])
  PROVE  Scaled(rs[q], rs) <= Scaled(rs[p], rs)
<1>1. PICK k \in Nat : /\ Common(rs) = k * Den(rs[p])
                       /\ Scaled(rs[p], rs) = Cardinality(S) * (Num(rs[p]) * k)
  BY ScaledValue
<1>2. PICK l \in Nat : /\ Common(rs) = l * Den(rs[q])
                       /\ Scaled(rs[q], rs) = Cardinality(S) * (Num(rs[q]) * l)
  BY ScaledValue
<1>3. /\ Num(rs[p]) \in Nat /\ Den(rs[p]) \in Nat \ {0}
      /\ Num(rs[q]) \in Nat /\ Den(rs[q]) \in Nat \ {0}
  BY ValueType
<1>4. Common(rs) \in Nat \ {0} /\ Cardinality(S) \in Nat
  BY CommonMultiple, FS_CardinalityType
<1>5. ASSUME NEW m \in Nat, NEW n \in Nat, NEW d \in Nat \ {0}, NEW e \in Nat \ {0},
             k * d = l * e, k * d > 0, n * d <= m * e
      PROVE  n * l <= m * k
  BY <1>5
<1>6. Num(rs[q]) * l <= Num(rs[p]) * k
  BY <1>1, <1>2, <1>3, <1>4, <1>5
<1>7. \A a, b, c \in Nat : a <= b => c * a <= c * b
  OBVIOUS
<1>. QED
  BY <1>1, <1>2, <1>3, <1>4, <1>6, <1>7

\* The total is the sum of the scaled values, peer by peer.
LEMMA TotalIsFold ==
  ASSUME NEW S, IsFiniteSet(S), NEW rs \in [S -> Reputation]
  PROVE  \E h :
           /\ Total(rs) = h[S]
           /\ h[{}] = 0
           /\ \A s \in SUBSET S : s # {} => h[s] = Scaled(rs[Pick(s)], rs) + h[s \ {Pick(s)}]
<1> DEFINE step == [t \in S \X Nat |-> Scaled(rs[t[1]], rs) + t[2]]
           Eq(h) == h = [s \in SUBSET S |->
                           IF s = {} THEN 0 ELSE Scaled(rs[Pick(s)], rs) + h[s \ {Pick(s)}]]
<1>1. \A x \in S : Scaled(rs[x], rs) \in Nat
  BY ScaledValue
<1>2. step \in [S \X Nat -> Nat]
  BY <1>1
<1>3. PICK h \in [SUBSET S -> Nat] : Folds(h, S, 0, step)
  <2> HIDE DEF step
  <2> QED
    BY <1>2, FoldExists
<1>4. \A s \in SUBSET S : s # {} => h[s] = Scaled(rs[Pick(s)], rs) + h[s \ {Pick(s)}]
  <2> SUFFICES ASSUME NEW s \in SUBSET S, s # {}
               PROVE  h[s] = Scaled(rs[Pick(s)], rs) + h[s \ {Pick(s)}]
    OBVIOUS
  <2>1. Pick(s) \in S /\ h[s \ {Pick(s)}] \in Nat
    BY PickOne
  <2> QED
    BY <1>3, <2>1 DEF Folds
<1>5. Eq(h)
  BY <1>3, <1>4 DEF Folds
<1>6. Eq(CHOOSE k : Eq(k))
  <2> HIDE DEF Eq
  <2> QED
    BY <1>5
<1>7. Total(rs) = (CHOOSE k : Eq(k))[S]
  BY DEF Total, FoldFunction, FoldFunctionOnSet, MapThenFoldSet, Pick
<1>8. PICK k : Eq(k) /\ Total(rs) = k[S]
  <2> HIDE DEF Eq
  <2> QED
    BY <1>6, <1>7
<1>. QED
  BY <1>8

\* The mean of the values is not above the greatest.
LEMMA MeanBound ==
  ASSUME NEW S, IsFiniteSet(S), NEW rs \in [S -> Reputation], NEW p \in S,
         \A q \in S : Scaled(rs[q], rs) <= Scaled(rs[p], rs)
  PROVE  Mean(rs) \in Int /\ Mean(rs) <= Scaled(rs[p], rs)
<1> DEFINE c == Scaled(rs[p], rs)
<1>1. PICK h :
        /\ Total(rs) = h[S]
        /\ h[{}] = 0
        /\ \A s \in SUBSET S : s # {} => h[s] = Scaled(rs[Pick(s)], rs) + h[s \ {Pick(s)}]
  BY TotalIsFold
<1>2. c \in Nat /\ \A q \in S : Scaled(rs[q], rs) \in Nat
  BY ScaledValue
<1>. HIDE DEF c
<1> DEFINE T == {s \in SUBSET S : h[s] \in Nat /\ h[s] <= Cardinality(s) * c}
<1>3. {} \in T
  BY <1>1, <1>2, FS_EmptySet
<1>4. ASSUME NEW s \in SUBSET S, s # {}, s \ {Pick(s)} \in T PROVE s \in T
  <2>1. /\ Pick(s) \in S /\ Cardinality(s) \in Nat
        /\ Cardinality(s \ {Pick(s)}) = Cardinality(s) - 1
    BY <1>4, PickOne
  <2>2. /\ Scaled(rs[Pick(s)], rs) \in Nat
        /\ Scaled(rs[Pick(s)], rs) <= c
    BY <1>2, <2>1 DEF c
  <2>3. /\ h[s \ {Pick(s)}] \in Nat /\ h[s \ {Pick(s)}] <= (Cardinality(s) - 1) * c
    BY <1>4, <2>1
  <2>4. h[s] = Scaled(rs[Pick(s)], rs) + h[s \ {Pick(s)}]
    BY <1>1, <1>4
  <2>5. (Cardinality(s) - 1) * c + c = Cardinality(s) * c /\ (Cardinality(s) - 1) * c \in Int
    <3>1. \A a, b \in Nat : (a - 1) * b + b = a * b /\ (a - 1) * b \in Int
      OBVIOUS
    <3> QED
      BY <1>2, <2>1, <3>1
  <2> QED
    BY <1>2, <2>1, <2>2, <2>3, <2>4, <2>5
<1>5. SUBSET S \subseteq T
  <2> HIDE DEF T
  <2> QED
    BY <1>3, <1>4, SubsetInduction
<1>6. Total(rs) \in Nat /\ Total(rs) <= Cardinality(S) * c
  BY <1>1, <1>5
<1>7. Cardinality(S) \in Nat \ {0}
  BY FS_CardinalityType, FS_EmptySet
<1>8. ASSUME NEW a \in Nat, NEW n \in Nat \ {0}, a <= n * c PROVE a \div n \in Int /\ a \div n <= c
  BY <1>2, <1>8
<1>. QED
  BY <1>6, <1>7, <1>8 DEF Mean, c

\* Whose value is below the mean by more than the deviation is below somebody's:
\* this is all that the deviation is needed for.
LEMMA RefusedIsWorse ==
  ASSUME NEW S, IsFiniteSet(S), NEW rs \in [S -> Reputation], NEW p \in S,
         ~WithinDeviation(rs[p], rs)
  PROVE  \E q \in S : Num(rs[p]) * Den(rs[q]) < Num(rs[q]) * Den(rs[p])
<1> SUFFICES ASSUME \A q \in S : ~(Num(rs[p]) * Den(rs[q]) < Num(rs[q]) * Den(rs[p]))
             PROVE  FALSE
  OBVIOUS
<1>1. \A q \in S : Num(rs[q]) * Den(rs[p]) <= Num(rs[p]) * Den(rs[q])
  <2> SUFFICES ASSUME NEW q \in S PROVE Num(rs[q]) * Den(rs[p]) <= Num(rs[p]) * Den(rs[q])
    OBVIOUS
  <2>1. /\ Num(rs[p]) \in Nat /\ Den(rs[p]) \in Nat
        /\ Num(rs[q]) \in Nat /\ Den(rs[q]) \in Nat
    BY ValueType
  <2>2. \A a, b, c, d \in Nat : ~(a * b < c * d) => c * d <= a * b
    OBVIOUS
  <2> QED
    BY <2>1, <2>2
<1>2. \A q \in S : Scaled(rs[q], rs) <= Scaled(rs[p], rs)
  BY <1>1, ScaledOrder
<1>3. Mean(rs) \in Int /\ Mean(rs) <= Scaled(rs[p], rs)
  BY <1>2, MeanBound
<1>4. Scaled(rs[p], rs) \in Nat
  BY ScaledValue
<1>5. Below(rs[p], rs) <= 0
  BY <1>3, <1>4 DEF Below
<1>. QED
  BY <1>5 DEF WithinDeviation

-----------------------------------------------------------------------------
(* The verdict of the trust function.                                      *)

\* The survey has a reputation of every peer that is not left, but for the one
\* that is being read.
Surveyed ==
  \A g \in Goroutine : (change[g] = "assess" /\ value[g] # None /\ at[g] # "judged") =>
    \A p \in Peer \ left[g] : seen[g][p] # None \/ (at[g] # "survey" /\ p = target[g])

\* The survey of a judged peer has all peers, and that one with the reputation
\* it is judged by, so a peer that is refused is below another in it.
LEMMA JudgeRefuses ==
  ASSUME IInv, Surveyed, NEW g \in Goroutine, Judge(g), ~WithinDeviation(value[g], seen[g])
  PROVE  \E p \in Peer : Num(value[g]) * Den(seen[g][p]) < Num(seen[g][p]) * Den(value[g])
<1>1. change[g] = "assess" /\ value[g] # None /\ at[g] = "survey" /\ left[g] = {}
  BY DEF Judge, IInv, PlaceOK
<1>2. seen[g] \in [Peer -> Reputation]
  <2>1. \A p \in Peer : seen[g][p] # None
    BY <1>1 DEF Surveyed
  <2>2. seen[g] \in [Peer -> Reputation \cup {None}]
    BY DEF IInv, TypeOK
  <2>. QED
    BY <2>1, <2>2
<1>3. subject[g] \in Peer /\ seen[g][subject[g]] = value[g]
  <2>1. subject[g] \in Peer
    BY DEF IInv, TypeOK
  <2>2. seen[g][subject[g]] \in {None, value[g]}
    BY <1>1 DEF IInv, JudgedByCurrent
  <2>. QED
    BY <1>2, <2>1, <2>2, NoneAssumption
<1>. QED
  BY <1>2, <1>3, PeerAssumption, RefusedIsWorse

\* A goroutine that is not at work keeps its verdict and its survey.
LEMMA OthersKeep ==
  ASSUME IInv, NEW g \in Goroutine, Begin(g) \/ Step(g), NEW k \in Goroutine, k # g
  PROVE  /\ at'[k] = at[k] /\ change'[k] = change[k] /\ value'[k] = value[k] /\ left'[k] = left[k]
         /\ seen'[k] = seen[k] /\ target'[k] = target[k] /\ trusted'[k] = trusted[k]
BY DEF Begin, Start, Step, Look, LookAgain, Create, ReadSubject, NextPeer, ReadPeer, Judge, EndRead,
       Lock, BeginUpdate, EndUpdate, Goto, map, lock, call, survey, IInv, TypeOK

\* Every step keeps the survey complete and the verdicts just.
LEMMA VerdictStep ==
  ASSUME IInv, Surveyed, OnlyWorseRefused, NEW g \in Goroutine, Begin(g) \/ Step(g)
  PROVE  Surveyed' /\ OnlyWorseRefused'
<1>. DEFINE Sees(k) == (change[k] = "assess" /\ value[k] # None /\ at[k] # "judged") =>
                         \A p \in Peer \ left[k] :
                           seen[k][p] # None \/ (at[k] # "survey" /\ p = target[k])
            Just(k) == (at[k] = "judged" /\ ~trusted[k]) =>
                         \/ BelowHalf(value[k])
                         \/ \E p \in Peer : Num(value[k]) * Den(seen[k][p]) < Num(seen[k][p]) * Den(value[k])
<1>1. ASSUME NEW k \in Goroutine, k # g PROVE Sees(k)' /\ Just(k)'
  BY <1>1, OthersKeep DEF Surveyed, OnlyWorseRefused
<1>2. Sees(g) /\ Just(g)
  BY DEF Surveyed, OnlyWorseRefused
<1>3. Sees(g)' /\ Just(g)'
  <2>1. CASE Begin(g)
    BY <2>1 DEF Begin, Start, Goto, IInv, PlaceOK, TypeOK
  <2>2. CASE Look(g) \/ LookAgain(g) \/ Create(g)
    <3>1. /\ change'[g] = change[g] /\ value'[g] = value[g] /\ left'[g] = left[g]
          /\ seen'[g] = seen[g] /\ target'[g] = target[g]
      BY <2>2 DEF Look, LookAgain, Create, call, survey
    <3>2. at[g] \notin {"survey", "judged"} /\ at'[g] \notin {"survey", "judged"}
      BY <2>2 DEF Look, LookAgain, Create, Goto, Locking, IInv, TypeOK
    <3>. QED
      BY <1>2, <3>1, <3>2
  <2>3. CASE ReadSubject(g)
    <3>1. /\ value'[g] = reps[target[g]]
          /\ \/ BelowHalf(reps[target[g]]) /\ at'[g] = "judged"
             \/ at'[g] = "survey" /\ left'[g] = Peer
      BY <2>3 DEF ReadSubject, Goto, IInv, TypeOK
    <3>. QED
      BY <3>1
  <2>4. CASE NextPeer(g)
    <3>1. PICK q \in left[g] : /\ target' = [target EXCEPT ![g] = q]
                               /\ left' = [left EXCEPT ![g] = @ \ {q}]
      BY <2>4 DEF NextPeer
    <3>2. target'[g] = q /\ left'[g] = left[g] \ {q}
      BY <3>1 DEF IInv, TypeOK
    <3>3. /\ at[g] = "survey" /\ at'[g] = "ensure" /\ change'[g] = change[g]
          /\ value'[g] = value[g] /\ seen'[g] = seen[g]
      BY <2>4 DEF NextPeer, Goto, call, IInv, TypeOK
    <3>. QED
      BY <1>2, <3>2, <3>3
  <2>5. CASE ReadPeer(g)
    <3>1. target[g] \in Peer /\ reps[target[g]] # None
      BY <2>5, NoneAssumption DEF ReadPeer, IInv, TypeOK
    <3>2. /\ at[g] = "readLock" /\ at'[g] = "survey" /\ change'[g] = change[g]
          /\ value'[g] = value[g] /\ left'[g] = left[g]
      BY <2>5 DEF ReadPeer, Goto, call, IInv, TypeOK
    <3>3. \A p \in Peer : seen'[g][p] = (IF p = target[g] THEN reps[target[g]] ELSE seen[g][p])
      <4>1. seen' = [seen EXCEPT ![g][target[g]] = reps[target[g]]]
        BY <2>5 DEF ReadPeer
      <4>2. seen[g] \in [Peer -> Reputation \cup {None}] /\ seen'[g] = [seen[g] EXCEPT ![target[g]] = reps[target[g]]]
        BY <4>1 DEF IInv, TypeOK
      <4>. QED
        BY <4>2
    <3>. QED
      BY <1>2, <3>1, <3>2, <3>3
  <2>6. CASE Judge(g)
    <3>1. /\ at'[g] = "judged" /\ value'[g] = value[g] /\ seen'[g] = seen[g]
          /\ trusted'[g] = WithinDeviation(value[g], seen[g])
      BY <2>6 DEF Judge, Goto, IInv, TypeOK
    <3>2. ASSUME ~trusted'[g]
          PROVE  \E p \in Peer : Num(value[g]) * Den(seen[g][p]) < Num(seen[g][p]) * Den(value[g])
      BY <2>6, <3>1, <3>2, JudgeRefuses
    <3>. QED
      BY <3>1, <3>2
  <2>7. CASE EndRead(g) \/ EndUpdate(g)
    <3>1. value'[g] = None /\ at'[g] = "idle"
      BY <2>7 DEF EndRead, EndUpdate, Goto, IInv, TypeOK
    <3>. QED
      BY <3>1
  <2>8. CASE Lock(g) \/ BeginUpdate(g)
    <3>1. change'[g] # "assess" /\ at'[g] # "judged"
      BY <2>8 DEF Lock, BeginUpdate, Goto, call, IInv, TypeOK, PlaceOK
    <3>. QED
      BY <3>1
  <2>. QED
    BY <2>1, <2>2, <2>3, <2>4, <2>5, <2>6, <2>7, <2>8 DEF Step
<1>4. \A k \in Goroutine : Sees(k)' /\ Just(k)'
  BY <1>1, <1>3
<1>. QED
  BY <1>4 DEF Surveyed, OnlyWorseRefused

\* A peer the trust function refuses has less than half of its marks, or a
\* smaller share than another peer: the mean and the deviation, over any number
\* of peers and any reputations, never turn down the best (main.go).
THEOREM OnlyWorseRefusedHolds == Spec => []OnlyWorseRefused
<1>1. Init => IInv /\ Surveyed /\ OnlyWorseRefused
  <2>1. Init => Surveyed /\ OnlyWorseRefused
    BY DEF Init, Surveyed, OnlyWorseRefused
  <2>. QED
    BY <2>1, InvInit
<1>2. IInv /\ Surveyed /\ OnlyWorseRefused /\ [Next]_vars
      => (IInv /\ Surveyed /\ OnlyWorseRefused)'
  <2>. SUFFICES ASSUME IInv, Surveyed, OnlyWorseRefused, [Next]_vars
                PROVE  (IInv /\ Surveyed /\ OnlyWorseRefused)'
    OBVIOUS
  <2>1. IInv'
    BY NextInv
  <2>2. CASE Next
    BY <2>1, <2>2, VerdictStep DEF Next
  <2>3. CASE UNCHANGED vars
    BY <2>1, <2>3 DEF vars, map, lock, call, survey, Surveyed, OnlyWorseRefused
  <2>. QED
    BY <2>2, <2>3
<1>. QED
  BY <1>1, <1>2, PTL DEF Spec
=============================================================================
