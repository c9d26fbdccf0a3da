--------------------------- MODULE MemCloudReads ---------------------------
(***************************************************************************)
(* What a get may answer.  MemCloud with history variables: the steps are  *)
(* those of MemCloud, and the history only watches them.                   *)
(*                                                                         *)
(* A block's writes are ordered by the critical sections that enter them   *)
(* in the index.  A get may answer with the last write entered before it   *)
(* began, with any write in progress while it ran, or MissingBlock if the  *)
(* block was not there at some moment of it.                               *)
(*                                                                         *)
(* Between two critical sections of an operation that reaches a peer, any  *)
(* other thread may change the same key: a put or a spill that has been    *)
(* answered is not in the index yet, a delete has still to send its DEL.   *)
(* Operations that cross in that way have no order, and what is left may   *)
(* be either's version, the one before, or nothing.  The history says at   *)
(* which keys operations have crossed, and expects nothing of those until  *)
(* an operation that crosses no other writes the key again.                *)
(***************************************************************************)
EXTENDS MemCloud

VARIABLES
    current,    \* per key: the values it may have, of which Missing is one
    crossed,    \* the keys at which operations that crossed are in progress
    lost,       \* the peers' blocks that went with a restart: <<peer, key>>
    seen        \* per reader: what its get in progress may answer

hvars == <<vars, current, crossed, lost, seen>>

Changers == Writers \cup Spillers

Anything == Data \cup {Missing}

\* A thread at s has done part of what it does to block k: its call to a peer
\* is behind it and the index not yet changed, or the other way round; or, in
\* a spill, the block is read and will be stored at a peer as it was.
Busy(s, k) ==
    \/ s.at \in {"put_stored", "del_call", "spill_call", "spill_stored"} /\ s.key = k
    \/ s.at = "clear_calls" /\ k \in DOMAIN s.todo

\* What thread t does to block k crosses what another does, or has crossed it.
Overlaps(t, k) ==
    k \in crossed \/ \E u \in Changers \ {t} : Busy(thread[u], k)

\* A step of thread t does something to the blocks in DOMAIN new, which have
\* the values of new from then on.
Touch(t, new) ==
    /\ current' = [k \in Keys |->
            IF k \notin DOMAIN new THEN current[k]
            ELSE IF Overlaps(t, k) THEN Anything ELSE new[k]]
    /\ crossed' = {k \in Keys :
            /\ k \in crossed \/ (k \in DOMAIN new /\ Overlaps(t, k))
            /\ \E u \in Changers : Busy(thread'[u], k)}

Only(k, V) == [j \in {k} |-> V]

\* The put of a block raised, and the peer holds it all the same.  When that
\* is where the index already looks for the key, either version may be read.
MaybeWritten(k, d, p) ==
    current[k] \cup IF k \in DOMAIN index /\ index[k] = p THEN {d} ELSE {}

\* The data of the puts of k to a peer that have not returned, in a state
\* where the threads are at th.
InProgress(th, k) ==
    {th[w].data : w \in {v \in Writers :
        th[v].at \in {"put_remote", "put_stored"} /\ th[v].key = k}}

\* The blocks of a peer in down are lost until they are stored there again.
\* A get in progress sees every value its key has meanwhile, and nothing at a
\* peer that has lost it.
Watch(down) ==
    /\ lost' = {x \in Peers \X Keys :
            /\ x[2] \notin DOMAIN remote'[x[1]]
            /\ x \in lost \/ (x[1] \in down /\ x[2] \in DOMAIN remote[x[1]])}
    /\ seen' = [r \in Readers |->
            IF thread'[r] = Idle THEN {}
            ELSE LET k == thread'[r].key
                 IN  (IF thread[r] = Idle THEN {} ELSE seen[r])
                        \cup current'[k] \cup InProgress(thread', k)
                        \cup {Missing : p \in {q \in Peers :
                                /\ thread'[r].at = "get_call"
                                /\ thread'[r].peer = q
                                /\ <<q, k>> \in lost'}}]

HInit ==
    /\ Init
    /\ current = [k \in Keys |-> {Missing}]
    /\ crossed = {}
    /\ lost = {}
    /\ seen = [r \in Readers |-> {}]

\* Puts, deletes and clears take effect as the index changes.
HWriterStep(w) ==
    LET k == thread[w].key
        d == thread[w].data
    IN  \/ \E j \in Keys, c \in Data :
            (PutFits(w, j, c) \/ PutOverflows(w, j, c)) /\ Touch(w, Empty)
        \/ (PutLocal(w) \/ PutIndexed(w)) /\ Touch(w, Only(k, {d}))
        \/ PutNoCapacity(w) /\ Touch(w, Empty)
        \/ \E p \in Peers :
            \/ PutSent(w, p) /\ Touch(w, Only(k, current[k]))
            \/ PutRaises(w, p) /\ Touch(w, Only(k, MaybeWritten(k, d, p)))
        \/ \E j \in Keys :
            (DeleteLocal(w, j) \/ DeleteRemote(w, j)) /\ Touch(w, Only(j, {Missing}))
        \/ Clear(w) /\ Touch(w, [j \in Keys |-> {Missing}])
        \/ (DeleteCall(w) \/ ClearCall(w) \/ ClearReturn(w)) /\ Touch(w, Empty)

\* A spill is not a write; but from the moment it has read a block it may cross
\* a write of it.
HSpillerStep(s) ==
    \/ (\E target \in Targets : SpillStart(s, target)) /\ Touch(s, Empty)
    \/ SpillPick(s) /\ Touch(s, [k \in {j \in Keys : Busy(thread'[s], j)} |-> current[k]])
    \/ SpillEnds(s) /\ Touch(s, Empty)
    \/ \E p \in Peers : SpillSent(s, p) /\ Touch(s, Empty)
    \/ SpillIndexed(s) /\ Touch(s, Empty)

HNext ==
    \/ \E w \in Writers : HWriterStep(w) /\ Watch({})
    \/ \E r \in Readers : ReaderStep(r) /\ UNCHANGED <<current, crossed>> /\ Watch({})
    \/ \E s \in Spillers : HSpillerStep(s) /\ Watch({})
    \/ \E p \in Peers :
        PeerRestart(p) /\ UNCHANGED <<current, crossed>> /\ Watch({p})

HSpec == HInit /\ [][HNext]_hvars

-----------------------------------------------------------------------------
\* A get answers with a value its key had while the get ran, wherever the
\* block went meanwhile: an overwritten or deleted block never comes back, and a
\* block that was put and not deleted is missing only if the peer that held it
\* has restarted (a get whose peer is offline is answered without an answer of
\* the peer's, GetOffline, and is not meant here).  Any number of threads put,
\* delete, clear and spill; of a key at which two operations have crossed nothing
\* is said, until it is written again.
GetReturnsCurrent ==
    \A r \in Readers : thread[r].at = "got" => thread[r].result \in seen[r]
=============================================================================
