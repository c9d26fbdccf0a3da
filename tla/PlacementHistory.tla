-------------------------- MODULE PlacementHistory --------------------------
(***************************************************************************)
(* What the index of a node says of the workers.  Placement with history   *)
(* variables: the steps are those of Placement, and the history only       *)
(* watches them.                                                           *)
(*                                                                         *)
(* A worker and a node may well disagree: the history says which events    *)
(* make them, and the properties that there are no others.                 *)
(***************************************************************************)
EXTENDS Placement

VARIABLES
    touched,    \* the blocks of its index, by <<worker, key>>, that have changed behind
                \* the node's back since it last stored them, or that its own
                \* threads have changed out of order
    left,       \* the blocks that a worker holds and the node has given up
    exact       \* the threads whose put chose a peer on estimates that were
                \* right, and since when no worker has changed

hvars == <<vars, touched, left, exact>>

EstimatesExact ==
    \A w \in W : peer[w].online = (w \in up) /\ (w \in up => peer[w].free = Free(w))

OpBlock(t) == <<op[t].peer, op[t].key>>

\* The PUT of thread t of block b has been answered and is not in the index yet.
StoredBy(t, b) == op[t].at = "stored" /\ OpBlock(t) = b

\* The block that the index has of key k, where it is not b.
Displaced(k, b) ==
    {<<index[j], j>> : j \in {k} \cap DOMAIN index} \cap ((W \X Mine) \ {b})

\* Of the blocks in bs, those that workers still hold after the step.
Still(bs) == {b \in bs : b[2] \in DOMAIN held'[b[1]]}

HInit == Init /\ touched = {} /\ left = {} /\ exact = {}

Same == UNCHANGED <<touched, left, exact>>

\* The index has block b, or a thread is about to enter it.
Wants(b) ==
    \/ b[2] \in DOMAIN index /\ index[b[2]] = b[1]
    \/ \E t \in Threads : StoredBy(t, b)

Wanted(bs) == {b \in bs : Wants(b)'}

\* The workers change: no estimate that was right need be so any longer.
Changes(bs, gone) ==
    /\ touched' = Wanted(bs)
    /\ left' = Still(gone)
    /\ exact' = {}

\* Two PUTs of one block, both answered: the last to be stored need not be the
\* last to enter the index.
StoredTouches(t) ==
    LET b == OpBlock(t)
    IN  IF \E u \in Threads \ {t} : StoredBy(u, b) THEN touched \cup {b} ELSE touched \ {b}

\* A spill enters a block whose length was changed, or which was deleted, after
\* it had read it.
IndexedTouches(t) ==
    touched \cup {OpBlock(u) : u \in {v \in {t} :
        op[v].spill /\ ~(op[v].key \in DOMAIN sizes /\ sizes[op[v].key] = op[v].size)}}

HWriter(t) ==
    \E k \in Mine, n \in Lengths :
        \/ /\ PutLocal(t, k, n)
           /\ touched' = Wanted(touched)
           /\ left' = left \cup Still(Displaced(k, <<>>))
           /\ UNCHANGED exact
        \/ /\ PutSelect(t, k, n)
           /\ exact' = exact \cup {u \in {t} : EstimatesExact}
           /\ UNCHANGED <<touched, left>>

HPutGoesOn(t) ==
    \/ (PutAdmitted(t) \/ PutRefused(t) \/ PutRetried(t) \/ PutLower(t)) /\ Same
    \/ PutStored(t) /\ Changes(StoredTouches(t), left)
    \/ /\ PutIndexed(t)
       /\ touched' = Wanted(IndexedTouches(t))
       /\ left' = (left \cup Still(Displaced(op[t].key, OpBlock(t)))) \ {OpBlock(t)}
       /\ UNCHANGED exact
    \/ /\ PutGuarded(t) \/ PutRaises(t) \/ PutFallsBack(t)
       /\ exact' = exact \ {t}
       /\ UNCHANGED <<touched, left>>

HDeleter(t) ==
    \/ /\ (\E k \in Mine : Delete(t, k)) \/ Clear(t)
       /\ touched' = Wanted(touched)
       /\ UNCHANGED <<left, exact>>
    \/ \E b \in W \X Mine :
        \/ DelDone(t, b) /\ Changes(touched \cup {b}, left)
        \/ DelLost(t, b) /\ left' = left \cup Still({b}) /\ UNCHANGED <<touched, exact>>

\* A block changes behind the node's back: one of its names, or of another.
OurBlock(w, k) == {<<w, k>>} \cap (W \X Mine)

HPending(x) ==
    LET b == OurBlock(x.worker, x.key)
    IN  /\ PendingStored(x)
        /\ Changes(touched \cup b, IF x.owner = "node" THEN left \cup b ELSE left)

HUnsteady(w) ==
    \/ Expires(w) /\ Same
    \/ (\E k \in Theirs, n \in Lengths : OtherAdmitted(w, k, n)) /\ Same
    \/ \E k \in Mine \cup Theirs :
        StrayDelete(w, k) /\ Changes(touched \cup OurBlock(w, k), left)
    \/ Stop(w) /\ Changes(touched \cup ({w} \X Mine), left)
    \/ Start(w) /\ Changes(touched, left)

HNext ==
    \/ \E t \in Writers : HWriter(t)
    \/ \E t \in Deleters : HDeleter(t)
    \/ \E t \in Spillers : SpillerStep(t) /\ Same
    \/ \E t \in Writers \cup Spillers : HPutGoesOn(t)
    \/ ProbeLoop /\ Same
    \/ \E x \in pending : HPending(x)
    \/ \E w \in W : Beacon(w) /\ Same
    \/ \E w \in Unsteady : HUnsteady(w)

HSpec == HInit /\ [][HNext]_hvars
HFairSpec == HSpec /\ WF_hvars(ProbeLoop /\ Same)

-----------------------------------------------------------------------------
\* A block that the index says is at a worker is there, the node's own, with
\* the length that sizes gives, unless another node has put or deleted a block of
\* that name there, the worker has stopped, a request whose call had ended came
\* late, or threads of the node crossed at this very block: two puts of it, a
\* put and the DEL of a delete or clear, a spill and a write of it.
IndexedHeld ==
    \A k \in DOMAIN index :
        LET w == index[k]
            b == <<w, k>>
        IN  w # "local" /\ b \notin touched /\ ~(\E t \in Threads : StoredBy(t, b)) =>
                /\ k \in DOMAIN held[w] /\ k \in DOMAIN sizes
                /\ held[w][k] = Block("node", sizes[k])

\* The reasons for which a worker may hold a block.
Explained(w, k) ==
    \/ held[w][k].owner = "other"
    \/ Wants(<<w, k>>)
    \/ <<w, k>> \in left
    \/ \E t \in Threads : op[t].at = "delete" /\ <<w, k>> \in op[t].todo

\* A worker holds no block of the node's that its index does not name there,
\* but for those the node gave up: the version before of a block whose new
\* version went to another peer or stayed on the node, a block whose DEL failed,
\* and one of a PUT that was stored after its call had given up on it.
HeldIndexed == \A w \in W : \A k \in DOMAIN held[w] : Explained(w, k)

\* A put that chose its peer while the node's estimates were right, and since
\* when no worker has changed, raises NoCapacity only if no worker has room for
\* the block, whatever the other threads have selected and lowered meanwhile.
RoomIsFound ==
    \A t \in exact : op[t].at = "failed" /\ op[t].size > 0 => \A w \in up : Free(w) < op[t].size
=============================================================================
