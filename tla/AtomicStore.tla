---------------------------- MODULE AtomicStore ----------------------------
(***************************************************************************)
(* What a connection store promises, without locks: every operation on it  *)
(* takes effect at one instant.  A connection is stood for by the updates  *)
(* that have been saved in it.                                             *)
(***************************************************************************)
EXTENDS Naturals

CONSTANTS Goroutine,  \* the goroutines of the node
          Id          \* connection IDs

VARIABLES conns,      \* the IDs the store has an entry for
          saves       \* saves[i][g]: updates of connection i by g that were saved

storeVars == <<conns, saves>>

\* A new connection.
Fresh == [g \in Goroutine |-> 0]

StoreInit ==
  /\ conns = {}
  /\ saves = [i \in Id |-> Fresh]

\* Create or Accept: only an ID that is new gets an entry.
New(i) ==
  /\ i \notin conns
  /\ conns' = conns \cup {i}
  /\ UNCHANGED saves

\* An update of g is added to all those saved before.
Change(i, g) ==
  /\ i \in conns
  /\ saves' = [saves EXCEPT ![i][g] = @ + 1]
  /\ UNCHANGED conns

StoreNext == \E i \in Id : New(i) \/ \E g \in Goroutine : Change(i, g)

StoreSpec == StoreInit /\ [][StoreNext]_storeVars
=============================================================================
