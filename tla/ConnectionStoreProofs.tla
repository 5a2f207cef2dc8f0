----------------------- MODULE ConnectionStoreProofs -----------------------
(***************************************************************************)
(* What the locks of ConnectionStore are worth, for every number of        *)
(* goroutines, IDs and calls: functions see the current connection, and    *)
(* the store implements AtomicStore.                                       *)
(***************************************************************************)
EXTENDS ConnectionStore, TLAPS

\* Each place belongs to some of the operations.
PlaceFits ==
  \A g \in Goroutine :
    /\ pc[g] = "accept" => op[g] = "accept"
    /\ pc[g] \in {"lookup", "looking", "found"} => op[g] # "accept"
    /\ pc[g] = "drain" => op[g] \in {"accept", "update"}
    /\ pc[g] = "reading" => op[g] \in {"read", "connections"}
    /\ pc[g] = "updating" => op[g] = "update"
    /\ pc[g] \in {"all", "iterating", "listing"} => op[g] = "connections"

\* A goroutine that counts on a lock has it.
LockHeld ==
  \A g \in Goroutine :
    /\ (pc[g] = "drain" /\ op[g] = "accept") => writer[Global] = g
    /\ (pc[g] = "drain" /\ op[g] = "update") => writer[at[g]] = g
    /\ pc[g] = "reading" => g \in readers[at[g]]
    /\ pc[g] = "updating" => writer[at[g]] = g /\ readers[at[g]] = {}

\* Nothing is saved in an entry that is not there.
Unused == \A i \in Id \ conns : saves[i] = Fresh

\* The inductive invariant.
IInv == TypeOK /\ PlaceFits /\ LockHeld /\ Unused /\ FunctionSeesCurrent

-----------------------------------------------------------------------------
\* The invariant holds before anything is called.
LEMMA InvInit ==
  ASSUME Init
  PROVE  IInv
<1>. DEFINE first == CHOOSE i \in Id : TRUE
<1>1. first \in Id
  BY NameAssumption
<1>2. at = [g \in Goroutine |-> first]
  BY DEF Init
<1>3. Fresh \in [Goroutine -> Nat]
  BY DEF Fresh
<1>. HIDE DEF first
<1>4. TypeOK
  <2>1. saves \in [Id -> [Goroutine -> Nat]] /\ seen \in [Goroutine -> [Goroutine -> Nat]]
    BY <1>3 DEF Init
  <2>2. writer \in [Lock -> Goroutine \cup {Nobody}] /\ readers \in [Lock -> SUBSET Goroutine]
    BY DEF Init
  <2>3. at \in [Goroutine -> Id]
    BY <1>1, <1>2
  <2>4. /\ conns \subseteq Id
        /\ op \in [Goroutine -> Op]
        /\ pc \in [Goroutine -> Place]
        /\ todo \in [Goroutine -> SUBSET Id]
        /\ crashed \in BOOLEAN
    BY DEF Init, Op, Place
  <2>5. calls \in [Goroutine -> Nat]
    BY DEF Init
  <2>6. \A g \in Goroutine : pc[g] = "idle"
    BY DEF Init
  <2>. QED
    BY <2>1, <2>2, <2>3, <2>4, <2>5, <2>6 DEF TypeOK
<1>5. PlaceFits /\ LockHeld /\ Unused /\ FunctionSeesCurrent
  BY DEF Init, PlaceFits, LockHeld, Unused, FunctionSeesCurrent
<1>. QED
  BY <1>4, <1>5 DEF IInv

\* Every step keeps the types.
LEMMA TypeStep ==
  ASSUME IInv, [Next]_vars
  PROVE  TypeOK'
<1>. USE CallAssumption, NameAssumption
     DEF IInv, TypeOK, PlaceFits, Op, Place, Lock, lock,
         RLock, RUnlock, Announce, Holds, Unlock, Goto, Done
<1>0. Fresh \in [Goroutine -> Nat]
  BY DEF Fresh
<1>. SUFFICES ASSUME NEW g \in Goroutine,
                     Step(g) \/ \E o \in Op, i \in Id : Start(g, o, i)
              PROVE  TypeOK'
  BY DEF Next, vars
<1>1. CASE \E o \in Op, i \in Id : Start(g, o, i)
  BY <1>1 DEF Start
<1>2. CASE AcceptLock(g)
  BY <1>2 DEF AcceptLock
<1>3. CASE Insert(g)
  <2>1. saves' \in [Id -> [Goroutine -> Nat]]
    <3>1. CASE UNCHANGED saves
      BY <3>1
    <3>2. CASE saves' = [saves EXCEPT ![at[g]] = Fresh]
      BY <3>2, <1>0
    <3>. QED
      BY <1>3, <3>1, <3>2 DEF Insert
  <2>3. conns \subseteq conns' /\ conns' \subseteq Id
    <3>1. conns' = conns \/ conns' = conns \cup {at[g]}
      BY <1>3 DEF Insert
    <3>. QED
      BY <3>1
  <2>2. crashed' \in BOOLEAN
    <3>1. CASE UNCHANGED crashed
      BY <3>1
    <3>2. CASE crashed' \in {FALSE, \E h \in Goroutine : pc[h] = "iterating"}
      BY <3>2
    <3>. QED
      BY <1>3, <3>1, <3>2 DEF Insert
  <2>4. /\ writer' \in [Lock -> Goroutine \cup {Nobody}]
        /\ readers' \in [Lock -> SUBSET Goroutine]
        /\ pc' \in [Goroutine -> Place]
    BY <1>3 DEF Insert
  <2>5. \A h \in Goroutine :
          (op'[h] # "accept" /\ pc'[h] \in {"found", "drain", "reading", "updating"})
            => at'[h] \in conns'
    BY <1>3, <2>3 DEF Insert
  <2>. QED
    BY <1>3, <2>1, <2>2, <2>3, <2>4, <2>5 DEF Insert
<1>4. CASE LookupLock(g)
  BY <1>4 DEF LookupLock
<1>5. CASE Lookup(g)
  <2>1. CASE at[g] \in conns
    BY <1>5, <2>1 DEF Lookup
  <2>2. CASE at[g] \notin conns
    BY <1>5, <2>2 DEF Lookup
  <2>. QED
    BY <2>1, <2>2
<1>6. CASE ReadLock(g)
  BY <1>6 DEF ReadLock
<1>7. CASE EndRead(g)
  BY <1>7 DEF EndRead
<1>8. CASE UpdateLock(g)
  BY <1>8 DEF UpdateLock
<1>9. CASE BeginUpdate(g)
  BY <1>9 DEF BeginUpdate
<1>10. CASE EndUpdate(g)
  <2>1. [seen[g] EXCEPT ![g] = @ + 1] \in [Goroutine -> Nat]
    <3>1. seen[g] \in [Goroutine -> Nat]
      OBVIOUS
    <3>. QED
      BY <3>1
  <2>2. saves' \in [Id -> [Goroutine -> Nat]]
    BY <1>10, <2>1 DEF EndUpdate
  <2>. QED
    BY <1>10, <2>2 DEF EndUpdate
<1>11. CASE BeginAll(g)
  BY <1>11 DEF BeginAll
<1>12. CASE EndAll(g)
  BY <1>12 DEF EndAll
<1>13. CASE EndConnections(g)
  BY <1>13 DEF EndConnections
<1>14. CASE \E i \in Id : ReadNext(g, i)
  BY <1>14 DEF ReadNext
<1>. QED
  BY <1>1, <1>2, <1>3, <1>4, <1>5, <1>6, <1>7, <1>8, <1>9, <1>10,
     <1>11, <1>12, <1>13, <1>14 DEF Step

\* Every step keeps what is said of places, locks, entries and functions.
LEMMA InvStep ==
  ASSUME IInv, [Next]_vars
  PROVE  IInv'
<1>. USE NameAssumption
     DEF IInv, TypeOK, PlaceFits, LockHeld, Unused, FunctionSeesCurrent,
         Op, Place, Lock, lock,
         RLock, RUnlock, Announce, Holds, Unlock, Goto, Done
<1>0. TypeOK'
  BY TypeStep
<1>. SUFFICES ASSUME NEW g \in Goroutine,
                     Step(g) \/ \E o \in Op, i \in Id : Start(g, o, i)
              PROVE  (PlaceFits /\ LockHeld /\ Unused /\ FunctionSeesCurrent)'
  <2>1. CASE UNCHANGED vars
    <3>1. UNCHANGED <<conns, saves, writer, readers, op, pc, at, seen>>
      BY <2>1 DEF vars
    <3>. QED
      BY <1>0, <3>1
  <2>. QED
    BY <1>0, <2>1 DEF Next
<1>1. CASE \E o \in Op, i \in Id : Start(g, o, i)
  BY <1>1 DEF Start
<1>2. CASE AcceptLock(g)
  BY <1>2 DEF AcceptLock
<1>3. CASE Insert(g)
  <2>1. pc' = [pc EXCEPT ![g] = "idle"] /\ UNCHANGED <<op, at, seen, readers>>
    BY <1>3 DEF Insert
  <2>2. writer' = [writer EXCEPT ![Global] = Nobody]
    BY <1>3 DEF Insert
  <2>3. PlaceFits'
    BY <2>1
  <2>4. LockHeld'
    BY <1>3, <2>1, <2>2 DEF Insert
  <2>5. /\ \A i \in conns : i \in conns' /\ saves'[i] = saves[i]
        /\ \A i \in Id \ conns' : i \notin conns /\ saves'[i] = saves[i]
    <3>1. CASE at[g] \in conns
      BY <1>3, <3>1 DEF Insert
    <3>2. CASE at[g] \notin conns
      <4>1. conns' = conns \cup {at[g]} /\ saves' = [saves EXCEPT ![at[g]] = Fresh]
        BY <1>3, <3>2 DEF Insert
      <4>. QED
        BY <3>2, <4>1
    <3>. QED
      BY <3>1, <3>2
  <2>6. Unused'
    BY <2>5
  <2>7. FunctionSeesCurrent'
    <3>. SUFFICES ASSUME NEW h \in Goroutine, pc'[h] \in {"reading", "updating"}
                  PROVE  seen'[h] = saves'[at'[h]]
      OBVIOUS
    <3>1. pc[h] \in {"reading", "updating"} /\ op[h] # "accept"
      BY <2>1
    <3>2. at[h] \in conns /\ seen[h] = saves[at[h]]
      BY <3>1
    <3>. QED
      BY <2>1, <2>5, <3>2
  <2>. QED
    BY <2>3, <2>4, <2>6, <2>7
<1>4. CASE LookupLock(g)
  BY <1>4 DEF LookupLock
<1>5. CASE Lookup(g)
  BY <1>5 DEF Lookup
<1>6. CASE ReadLock(g)
  BY <1>6 DEF ReadLock
<1>7. CASE EndRead(g)
  BY <1>7 DEF EndRead
<1>8. CASE UpdateLock(g)
  BY <1>8 DEF UpdateLock
<1>9. CASE BeginUpdate(g)
  BY <1>9 DEF BeginUpdate
<1>10. CASE EndUpdate(g)
  BY <1>10 DEF EndUpdate
<1>11. CASE BeginAll(g)
  BY <1>11 DEF BeginAll
<1>12. CASE EndAll(g)
  BY <1>12 DEF EndAll
<1>13. CASE EndConnections(g)
  BY <1>13 DEF EndConnections
<1>14. CASE \E i \in Id : ReadNext(g, i)
  <2>. PICK i \in Id : ReadNext(g, i)
    BY <1>14
  <2>1. /\ pc[g] = "listing"
        /\ pc' = [pc EXCEPT ![g] = "lookup"]
        /\ at' = [at EXCEPT ![g] = i]
        /\ UNCHANGED <<op, seen, saves, conns, readers, writer>>
    BY DEF ReadNext
  <2>2. op[g] = "connections"
    BY <2>1
  <2>. QED
    BY <2>1, <2>2
<1>. QED
  BY <1>1, <1>2, <1>3, <1>4, <1>5, <1>6, <1>7, <1>8, <1>9, <1>10,
     <1>11, <1>12, <1>13, <1>14 DEF Step

-----------------------------------------------------------------------------
\* Only two steps change what AtomicStore knows: a new ID, and the save of an
\* update, made from the connection as it still is.
LEMMA StoreStep ==
  ASSUME IInv, [Next]_vars
  PROVE  [AS!StoreNext]_(AS!storeVars)
<1>. USE DEF AS!storeVars
<1>. SUFFICES ASSUME NEW g \in Goroutine, Step(g),
                     ~UNCHANGED <<conns, saves>>
              PROVE  AS!StoreNext
  BY DEF Next, vars, Start
<1>1. CASE Insert(g)
  <2>1. at[g] \in Id
    BY DEF IInv, TypeOK
  <2>2. /\ at[g] \notin conns
        /\ conns' = conns \cup {at[g]}
        /\ saves' = [saves EXCEPT ![at[g]] = Fresh]
    BY <1>1 DEF Insert
  <2>3. saves' = saves
    <3>1. saves[at[g]] = Fresh
      BY <2>1, <2>2 DEF IInv, Unused
    <3>2. saves \in [Id -> [Goroutine -> Nat]]
      BY DEF IInv, TypeOK
    <3>. QED
      BY <2>1, <2>2, <3>1, <3>2
  <2>. QED
    BY <2>1, <2>2, <2>3 DEF AS!StoreNext, AS!New
<1>2. CASE EndUpdate(g)
  <2>1. /\ saves' = [saves EXCEPT ![at[g]] = [seen[g] EXCEPT ![g] = @ + 1]]
        /\ UNCHANGED conns
        /\ pc[g] = "updating"
    BY <1>2 DEF EndUpdate
  <2>2. seen[g] = saves[at[g]]
    BY <2>1 DEF IInv, FunctionSeesCurrent
  <2>3. at[g] \in Id /\ at[g] \in conns
    BY <2>1 DEF IInv, TypeOK, PlaceFits
  <2>4. saves' = [saves EXCEPT ![at[g]][g] = @ + 1]
    BY <2>1, <2>2
  <2>. QED
    BY <2>1, <2>3, <2>4 DEF AS!StoreNext, AS!Change
<1>. QED
  BY <1>1, <1>2
  DEF Step, AcceptLock, LookupLock, Lookup, ReadLock, EndRead, UpdateLock, BeginUpdate,
      BeginAll, EndAll, EndConnections, ReadNext

-----------------------------------------------------------------------------
\* The invariant of the locks holds always: whoever counts on a lock has it
\* (Accept, Read and Update of inmem.go).
THEOREM LocksHold == Spec => []IInv
<1>1. Init => IInv
  BY InvInit
<1>2. IInv /\ [Next]_vars => IInv'
  BY InvStep
<1>. QED
  BY <1>1, <1>2, PTL DEF Spec

\* The store's variables keep their types, and no entry is used that is not
\* in the map.
THEOREM StoreTypeCorrect == Spec => []TypeOK
<1>1. IInv => TypeOK
  BY DEF IInv
<1>. QED
  BY <1>1, LocksHold, PTL

\* The function given to Read or Update works on the current connection for
\* as long as it runs, for any number of goroutines.
THEOREM FunctionSeesCurrentHolds == Spec => []FunctionSeesCurrent
<1>1. IInv => FunctionSeesCurrent
  BY DEF IInv
<1>. QED
  BY <1>1, LocksHold, PTL

-----------------------------------------------------------------------------
(* The other way round: whoever has a lock is at work with it.             *)

\* A writer is in Accept with the store's lock, or in Update with its entry's,
\* and a reader in the lookup or in its function.
LockUsed ==
  \A l \in Lock, h \in Goroutine :
    /\ writer[l] = h =>
         \/ l = Global /\ op[h] = "accept" /\ pc[h] = "drain"
         \/ l = at[h] /\ op[h] = "update" /\ pc[h] \in {"drain", "updating"}
    /\ h \in readers[l] =>
         \/ l = Global /\ pc[h] = "looking"
         \/ l = at[h] /\ pc[h] = "reading"

\* No step leaves a lock behind.
LEMMA LockUsedStep ==
  ASSUME IInv, LockUsed, [Next]_vars
  PROVE  LockUsed'
<1>0. /\ writer \in [Lock -> Goroutine \cup {Nobody}] /\ readers \in [Lock -> SUBSET Goroutine]
      /\ op \in [Goroutine -> Op] /\ pc \in [Goroutine -> Place] /\ at \in [Goroutine -> Id]
  BY DEF IInv, TypeOK
<1>1. \A g \in Goroutine :
        /\ pc[g] = "updating" => op[g] = "update"
        /\ pc[g] = "reading" => op[g] # "update"
  BY DEF IInv, PlaceFits
<1>. USE NameAssumption
     DEF LockUsed, Lock, RLock, RUnlock, Announce, Unlock, Goto, Done, lock
<1>2. CASE UNCHANGED vars
  BY <1>2 DEF vars
<1>. SUFFICES ASSUME NEW g \in Goroutine,
                     Step(g) \/ \E o \in Op, i \in Id : Start(g, o, i)
              PROVE  LockUsed'
  BY <1>2 DEF Next
<1>3. CASE \E o \in Op, i \in Id : Start(g, o, i)
  BY <1>0, <1>3 DEF Start
<1>4. CASE AcceptLock(g)
  <2>1. op[g] = "accept"
    BY <1>4 DEF AcceptLock, IInv, PlaceFits
  <2>. QED
    BY <1>0, <1>4, <2>1 DEF AcceptLock
<1>5. CASE Insert(g)
  <2>1. writer' = [writer EXCEPT ![Global] = Nobody] /\ pc' = [pc EXCEPT ![g] = "idle"]
    BY <1>5 DEF Insert
  <2>2. pc[g] = "drain" /\ op[g] = "accept" /\ UNCHANGED <<readers, op, at>>
    BY <1>5 DEF Insert
  <2>. QED
    BY <1>0, <2>1, <2>2
<1>6. CASE LookupLock(g)
  BY <1>0, <1>6 DEF LookupLock
<1>7. CASE Lookup(g)
  <2>1. readers' = [readers EXCEPT ![Global] = readers[Global] \ {g}] /\ UNCHANGED <<writer, op, at>>
    BY <1>7 DEF Lookup
  <2>2. pc[g] = "looking" /\ \A h \in Goroutine \ {g} : pc'[h] = pc[h]
    BY <1>0, <1>7 DEF Lookup
  <2>. QED
    BY <1>0, <2>1, <2>2
<1>8. CASE ReadLock(g)
  BY <1>0, <1>8 DEF ReadLock
<1>9. CASE EndRead(g)
  <2>1. readers' = [readers EXCEPT ![at[g]] = readers[at[g]] \ {g}] /\ UNCHANGED <<writer, op, at>>
    BY <1>9 DEF EndRead
  <2>2. pc[g] = "reading" /\ \A h \in Goroutine \ {g} : pc'[h] = pc[h]
    BY <1>0, <1>9 DEF EndRead
  <2>. QED
    BY <1>0, <2>1, <2>2
<1>10. CASE UpdateLock(g)
  BY <1>0, <1>10 DEF UpdateLock
<1>11. CASE BeginUpdate(g)
  BY <1>0, <1>11 DEF BeginUpdate
<1>12. CASE EndUpdate(g)
  BY <1>0, <1>1, <1>12 DEF EndUpdate
<1>13. CASE BeginAll(g) \/ EndAll(g) \/ EndConnections(g)
  BY <1>0, <1>13 DEF BeginAll, EndAll, EndConnections
<1>14. CASE \E i \in Id : ReadNext(g, i)
  BY <1>0, <1>14 DEF ReadNext
<1>. QED
  BY <1>3, <1>4, <1>5, <1>6, <1>7, <1>8, <1>9, <1>10, <1>11, <1>12, <1>13, <1>14 DEF Step

\* Who waits for a lock waits for a reader that can go on, for a writer that
\* can, or for a writer that waits for such a reader.
LEMMA SomebodyGoesOn ==
  ASSUME IInv, LockUsed
  PROVE  NoDeadlock
<1>0. /\ writer \in [Lock -> Goroutine \cup {Nobody}] /\ readers \in [Lock -> SUBSET Goroutine]
      /\ \A g \in Goroutine : at[g] \in Lock /\ Global \in Lock /\ (IF op[g] = "accept" THEN Global ELSE at[g]) \in Lock
  BY DEF IInv, TypeOK, Lock
<1>1. ASSUME NEW l \in Lock, NEW r \in readers[l]
      PROVE  r \in Goroutine /\ pc[r] # "idle" /\ ~Waits(r)
  BY <1>0 DEF LockUsed, Waits
<1>2. ASSUME NEW l \in Lock, writer[l] # Nobody
      PROVE  \E h \in Goroutine : pc[h] # "idle" /\ ~Waits(h)
  <2>1. PICK h \in Goroutine : writer[l] = h
    BY <1>0, <1>2
  <2>2. CASE readers[l] = {}
    <3>1. pc[h] \in {"drain", "updating"} /\ (pc[h] = "drain" => l = IF op[h] = "accept" THEN Global ELSE at[h])
      BY <2>1 DEF LockUsed
    <3>. QED
      BY <2>1, <2>2, <3>1 DEF Waits, Holds
  <2>3. CASE readers[l] # {}
    BY <1>1, <2>3
  <2>. QED
    BY <2>2, <2>3
<1>3. SUFFICES ASSUME NEW g \in Goroutine, Waits(g)
               PROVE  \E h \in Goroutine : pc[h] # "idle" /\ ~Waits(h)
  BY DEF NoDeadlock
<1>4. CASE \E l \in Lock : writer[l] # Nobody
  BY <1>2, <1>4
<1>5. CASE \A l \in Lock : writer[l] = Nobody
  <2>1. pc[g] = "drain"
    BY <1>0, <1>3, <1>5 DEF Waits
  <2>2. writer[IF op[g] = "accept" THEN Global ELSE at[g]] = g
    BY <2>1 DEF IInv, LockHeld, PlaceFits
  <2>. QED
    BY <1>0, <1>5, <2>2, NameAssumption
<1>. QED
  BY <1>4, <1>5

\* No number of goroutines, whatever operations they call, comes to wait for
\* each other over the locks of inmem.go.
THEOREM NoDeadlockHolds == Spec => []NoDeadlock
<1>1. Init => LockUsed
  BY NameAssumption DEF Init, LockUsed
<1>2. IInv /\ LockUsed /\ [Next]_vars => LockUsed'
  BY LockUsedStep
<1>3. IInv /\ LockUsed => NoDeadlock
  BY SomebodyGoesOn
<1>. QED
  BY <1>1, <1>2, <1>3, LocksHold, PTL DEF Spec

-----------------------------------------------------------------------------
\* The store of inmem.go implements the atomic one: no update is lost, no
\* connection replaced.
THEOREM AtomicStoreImplemented == Spec => ImplementsAtomicStore
<1>1. Init => AS!StoreInit
  BY DEF Init, AS!StoreInit, Fresh, AS!Fresh
<1>2. IInv /\ [Next]_vars => [AS!StoreNext]_(AS!storeVars)
  BY StoreStep
<1>. QED
  BY <1>1, <1>2, LocksHold, PTL DEF Spec, ImplementsAtomicStore, AS!StoreSpec
=============================================================================
