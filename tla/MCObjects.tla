----------------------------- MODULE MCObjects -----------------------------
(***************************************************************************)
(* Instance of ObjectReads for TLC: an object of no bytes, and one of two  *)
(* chunks whose boundary lies within a row.  Bound of the instance: PUTs   *)
(* under way are of first chunks, whose bytes differ between the two.      *)
(***************************************************************************)
EXTENDS ObjectReads, TLC

CONSTANTS a, b, c, d

Long == <<a, b, c, d>>

MCData == {<<>>, Long}

MCRow == (<<>> :> 0) @@ (Long :> 2)

\* Bytes or rows, across the boundary and past the end.
MCRanges == {<<1, 4>>}

FirstChunk == \A x \in Requests : sent'[x] # Idle => sent'[x].key[2] = 0

MCSpec == HInit /\ [][HNext /\ FirstChunk]_hvars

Symmetry == Permutations(Writers)
=============================================================================
