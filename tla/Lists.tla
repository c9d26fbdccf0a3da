------------------------------- MODULE Lists -------------------------------
(***************************************************************************)
(* Lists in which an element is at one place at most: a Python list that   *)
(* is only appended to by whom is not in it, or the keys of a dictionary   *)
(* in the order of their insertion.                                        *)
(***************************************************************************)
EXTENDS Integers, Sequences, Functions

SE == INSTANCE SequencesExt

\* Each element is at one place of the list.
Distinct(s) == \A i, j \in DOMAIN s : s[i] = s[j] => i = j

\* The list without x (list.remove, and pop with a default).
Without(s, x) ==
    IF x \in Range(s) THEN SE!RemoveAt(s, CHOOSE i \in DOMAIN s : s[i] = x) ELSE s
=============================================================================
