----------------------------- MODULE MCPrefixKV -----------------------------
(***************************************************************************)
(* Instance of PrefixKVReads for TLC: a prefix whose KV cache takes two    *)
(* chunks.                                                                 *)
(***************************************************************************)
EXTENDS PrefixKVReads, TLC

CONSTANTS a, b, c

MCContent == [k \in Names |-> <<a, b, c>>]

MCData == {MCContent[k] : k \in Names}

MCRow == [d \in MCData |-> 1]

Symmetry == Permutations(Writers) \cup Permutations(Requests)
=============================================================================
