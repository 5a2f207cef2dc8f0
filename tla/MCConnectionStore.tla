------------------------- MODULE MCConnectionStore -------------------------
(***************************************************************************)
(* Small instances of ConnectionStore: g1 calls twice, the others once     *)
(* each.                                                                   *)
(***************************************************************************)
EXTENDS ConnectionStore, TLC

CONSTANTS g1,
          Others   \* the other goroutines

MCGoroutine == {g1} \cup Others

MCCalls == [h \in MCGoroutine |-> IF h = g1 THEN 2 ELSE 1]

\* The other goroutines are interchangeable.
Interchangeable == Permutations(Others)
=============================================================================
