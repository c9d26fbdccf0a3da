---------------------------- MODULE MCDiscovery ----------------------------
(***************************************************************************)
(* Discovery for TLC: three seeds, the first of which is always up.        *)
(***************************************************************************)
EXTENDS Discovery

CONSTANTS a, b, c

MCSeeds == <<a, b, c>>
=============================================================================
