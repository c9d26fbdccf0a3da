----------------------------- MODULE MCMemCloud -----------------------------
(***************************************************************************)
(* Instance of MemCloudReads for TLC.  What a get answers does not depend  *)
(* on how long blocks are: they are of length zero here, so that any may   *)
(* be put locally at any time, and a spill moves all that it finds.        *)
(***************************************************************************)
EXTENDS MemCloudReads, TLC

MCSize == [d \in Data |-> 0]

Symmetry ==
    Permutations(Peers) \cup Permutations(Data)
        \cup Permutations(Writers) \cup Permutations(Spillers)
=============================================================================
