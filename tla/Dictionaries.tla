---------------------------- MODULE Dictionaries ----------------------------
(***************************************************************************)
(* Python dictionaries keyed by block names, as functions whose domain is  *)
(* the set of keys present, and the bytes that the blocks in one take.     *)
(***************************************************************************)
EXTENDS Integers, FiniteSets

CONSTANTS
    Keys,       \* block names
    MaxSize     \* the longest block

ASSUME DictionaryConstants ==
    /\ IsFiniteSet(Keys)
    /\ MaxSize \in Nat

Sizes == 0 .. MaxSize

Empty == [k \in {} |-> 0]

IsDict(d, R) == DOMAIN d \subseteq Keys /\ d \in [DOMAIN d -> R]

\* d[k] = v, whether or not k was a key of d
Store(d, k, v) == [j \in DOMAIN d \cup {k} |-> IF j = k THEN v ELSE d[j]]

\* d.pop(k, None)
Drop(d, k) == [j \in DOMAIN d \ {k} |-> d[j]]

\* The bytes of the blocks whose lengths d gives, each named by key and
\* position: len(data) of each, added up, is the cardinality of this set.
Bytes(d) ==
    {b \in Keys \X (1 .. MaxSize) : b[1] \in DOMAIN d /\ b[2] <= d[b[1]]}
=============================================================================
