--------------------------- MODULE MCMemCloudRace ---------------------------
(***************************************************************************)
(* Instance of MemCloud for TLC in which two writers overlap each other    *)
(* and a spill.  The budget is one block, a spill is to free a block and a *)
(* half, and three keys let two puts that have tested the budget together  *)
(* add a block each to one that is there.  Bounds of the instance: a       *)
(* writer puts and deletes two of the keys, of which they share one; and   *)
(* no spill is called any more once bytes have slipped from the count,     *)
(* which overlapping deletes would lower for ever.                         *)
(***************************************************************************)
EXTENDS MemCloud, TLC

CONSTANTS w1, w2, k1, k2, k3

MCKeys == {k1, k2, k3}

MCWriters == {w1, w2}

MCSize == [d \in Data |-> 2]

Share == (w1 :> {k1, k2}) @@ (w2 :> {k2, k3})

KeepToShare ==
    \A w \in Writers :
        thread'[w].at \in {"put_local", "put_remote", "del_call"} =>
            thread'[w].key \in Share[w]

SpillStarts == \E s \in Spillers : thread[s] = Idle /\ thread'[s] # Idle

MCNext == Next /\ KeepToShare /\ (SpillStarts => slipped = 0)

MCSpec ==
    Init /\ [][MCNext]_vars /\ \A s \in Spillers : WF_vars(SpillContinue(s))
=============================================================================
