------------------------- MODULE MCReputationStore -------------------------
(***************************************************************************)
(* A small instance of ReputationStore.                                    *)
(***************************************************************************)
EXTENDS ReputationStore

CONSTANTS g1, g2  \* the goroutines

\* Enough for a peer of mixed reputation to be judged.
MCCalls == [g \in {g1, g2} |-> IF g = g1 THEN 2 ELSE 1]
=============================================================================
