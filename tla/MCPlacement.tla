---------------------------- MODULE MCPlacement ----------------------------
(***************************************************************************)
(* Instance of PlacementHistory for TLC: one thread puts, and one deletes, *)
(* clears and spills; two workers, of which only the nearer fails and is   *)
(* used by other nodes, the name this node uses among theirs; and blocks   *)
(* and reserves of one byte.                                               *)
(***************************************************************************)
EXTENDS PlacementHistory, TLC

CONSTANTS w1, w2

MCWorkers == <<w1, w2>>
MCReserve == (w1 :> 1) @@ (w2 :> 1)
MCUnsteady == {w1}
MCCost == (w1 :> 0) @@ (w2 :> 2)
=============================================================================
