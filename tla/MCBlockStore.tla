--------------------------- MODULE MCBlockStore ---------------------------
(***************************************************************************)
(* Instance of BlockStore for TLC.  Readings: unknown (0), one byte short  *)
(* of the guard, and plenty.                                               *)
(***************************************************************************)
EXTENDS BlockStore, TLC

MCReadings == {0, 2, 9}

Symmetry == Permutations(Keys) \cup Permutations(Handlers)
=============================================================================
