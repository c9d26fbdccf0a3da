------------------------------ MODULE MemCloud ------------------------------
(***************************************************************************)
(* The memory layer an application sees on one node (memcloud/client.py,   *)
(* class MemCloud): put, get, delete, clear and spill, called by several   *)
(* threads (the application, the HTTP API's request threads).              *)
(*                                                                         *)
(* _lock makes the local dictionaries change together, but every operation *)
(* that reaches a peer lets go of it before the remote call and takes it   *)
(* again afterwards, and put tests the budget in a critical section of its *)
(* own.  A step here is one critical section, or one remote call.          *)
(*                                                                         *)
(* A remote call ends in an answer, or in an exception after which nobody  *)
(* knows whether the peer did what was asked.  Peers come and go and admit *)
(* or refuse by their own measure (module BlockStore), so both are free    *)
(* choices.  Blocks put by other nodes are not in the picture.             *)
(*                                                                         *)
(* Left out: the access times (any local block may be the least recently   *)
(* used), the statistics, and the objects built on blocks (_manifests).    *)
(***************************************************************************)
EXTENDS Dictionaries

CONSTANTS
    Data,       \* block contents
    Size,       \* the length of each, MaxSize at most
    Peers,      \* the other nodes
    Missing,    \* MissingBlock, as the outcome of a get
    Budget,     \* local_budget
    Targets,    \* target_bytes that spill is called with
    Writers,    \* threads that put, delete and clear
    Readers,    \* threads that get
    Spillers    \* threads that spill

ASSUME CloudConstants ==
    /\ Size \in [Data -> Sizes]
    /\ "local" \notin Peers
    /\ Missing \notin Data
    /\ Budget \in Nat
    /\ Targets \subseteq Nat \ {0}
    /\ IsFiniteSet(Writers) /\ Writers # {}
    /\ Writers \cap Readers = {}
    /\ Writers \cap Spillers = {}
    /\ Readers \cap Spillers = {}

VARIABLES
    local,      \* _local: the blocks in this process
    lru,        \* the keys of _lru
    localUsed,  \* _local_used
    slipped,    \* history: the bytes that spills took off the count beyond
                \* what they took out of _local, since it was last cleared
    index,      \* _index: "local" or the peer that holds a block
    sizes,      \* _sizes
    remote,     \* what each peer holds for this node
    thread      \* where each thread is in its operation

vars == <<local, lru, localUsed, slipped, index, sizes, remote, thread>>

Threads == Writers \cup Readers \cup Spillers

Idle == [at |-> "idle"]

\* Where an operation stands when it has let go of the lock.
Putting  == [at : {"put_local", "put_remote"}, key : Keys, data : Data]
Stored   == [at : {"put_stored"}, key : Keys, data : Data, peer : Peers]
Deleting == [at : {"del_call"}, key : Keys, peer : Peers]
Getting  == [at : {"get_call"}, key : Keys, peer : Peers]
Offline  == [at : {"offline"}, key : Keys]
Got      == [at : {"got"}, key : Keys, result : Data \cup {Missing}]
Spilling == [at : {"spill_pick"}, need : Nat \ {0}]
Moving   == [at : {"spill_call"}, need : Nat \ {0}, key : Keys, data : Data]
Moved    == [at : {"spill_stored"}, need : Nat \ {0}, key : Keys, data : Data,
             peer : Peers]

\* clear still has DELs to send, to the peers that todo gives for each key.
IsClearing(s) ==
    /\ s = [at |-> "clear_calls", todo |-> s.todo]
    /\ IsDict(s.todo, Peers)

Goto(t, s) == thread' = [thread EXCEPT ![t] = s]

-----------------------------------------------------------------------------
Init ==
    /\ local = Empty
    /\ lru = {}
    /\ localUsed = 0
    /\ slipped = 0
    /\ index = Empty
    /\ sizes = Empty
    /\ remote = [p \in Peers |-> Empty]
    /\ thread = [t \in Threads |-> Idle]

dictionaries == <<local, lru, localUsed, slipped, index, sizes>>

-----------------------------------------------------------------------------
(* put                                                                     *)

\* Mutant: tests the count without the block that is to be added.
PutFitsFull(w, k, d) ==
    /\ thread[w] = Idle
    /\ localUsed <= Budget
    /\ Goto(w, [at |-> "put_local", key |-> k, data |-> d])
    /\ UNCHANGED <<dictionaries, remote>>

\* _fits_locally says yes: room in the budget, and in the host's memory.
PutFits(w, k, d) ==
    /\ thread[w] = Idle
    /\ localUsed + Size[d] <= Budget
    /\ Goto(w, [at |-> "put_local", key |-> k, data |-> d])
    /\ UNCHANGED <<dictionaries, remote>>

\* It says no: the budget is short or, whatever the budget, host memory is.
PutOverflows(w, k, d) ==
    /\ thread[w] = Idle
    /\ Goto(w, [at |-> "put_remote", key |-> k, data |-> d])
    /\ UNCHANGED <<dictionaries, remote>>

\* What popping block k from _local gives back to the count.
Freed(k) == IF k \in DOMAIN local THEN Size[local[k]] ELSE 0

\* Mutant: does not take off the block that is replaced.
PutLocalKeepsOld(w) ==
    LET k == thread[w].key
        d == thread[w].data
    IN  /\ thread[w].at = "put_local"
        /\ localUsed' = localUsed + Size[d]
        /\ local' = Store(local, k, d)
        /\ lru' = lru \cup {k}
        /\ index' = Store(index, k, "local")
        /\ sizes' = Store(sizes, k, Size[d])
        /\ Goto(w, Idle)
        /\ UNCHANGED <<slipped, remote>>

PutLocal(w) ==
    LET k == thread[w].key
        d == thread[w].data
    IN  /\ thread[w].at = "put_local"
        /\ localUsed' = localUsed - Freed(k) + Size[d]
        /\ local' = Store(local, k, d)
        /\ lru' = lru \cup {k}
        /\ index' = Store(index, k, "local")
        /\ sizes' = Store(sizes, k, Size[d])
        /\ Goto(w, Idle)
        /\ UNCHANGED <<slipped, remote>>

\* NoCapacity: no peer is eligible, or the one selected refuses the block.
PutNoCapacity(w) ==
    /\ thread[w].at = "put_remote"
    /\ Goto(w, Idle)
    /\ UNCHANGED <<dictionaries, remote>>

PutSent(w, p) ==
    LET k == thread[w].key
        d == thread[w].data
    IN  /\ thread[w].at = "put_remote"
        /\ remote' = [remote EXCEPT ![p] = Store(@, k, d)]
        /\ Goto(w, [at |-> "put_stored", key |-> k, data |-> d, peer |-> p])
        /\ UNCHANGED dictionaries

\* The call raises, or its second attempt is refused, although the peer stored
\* the block.  (If it did not, nothing has changed and the put has ended:
\* PutNoCapacity.)
PutRaises(w, p) ==
    /\ thread[w].at = "put_remote"
    /\ remote' = [remote EXCEPT ![p] = Store(@, thread[w].key, thread[w].data)]
    /\ Goto(w, Idle)
    /\ UNCHANGED dictionaries

\* Mutant: does not pop the local version of the block.
PutIndexedKeepsLocal(w) ==
    /\ thread[w].at = "put_stored"
    /\ index' = Store(index, thread[w].key, thread[w].peer)
    /\ sizes' = Store(sizes, thread[w].key, Size[thread[w].data])
    /\ Goto(w, Idle)
    /\ UNCHANGED <<local, lru, localUsed, slipped, remote>>

PutIndexed(w) ==
    LET k == thread[w].key
    IN  /\ thread[w].at = "put_stored"
        /\ localUsed' = localUsed - Freed(k)
        /\ local' = Drop(local, k)
        /\ lru' = IF k \in DOMAIN local THEN lru \ {k} ELSE lru
        /\ index' = Store(index, k, thread[w].peer)
        /\ sizes' = Store(sizes, k, Size[thread[w].data])
        /\ Goto(w, Idle)
        /\ UNCHANGED <<slipped, remote>>

-----------------------------------------------------------------------------
(* get                                                                     *)

GetLocal(r, k) ==
    /\ thread[r] = Idle
    /\ k \in DOMAIN local
    /\ lru' = lru \cup {k}
    /\ Goto(r, [at |-> "got", key |-> k, result |-> local[k]])
    /\ UNCHANGED <<local, localUsed, slipped, index, sizes, remote>>

GetMiss(r, k) ==
    /\ thread[r] = Idle
    /\ k \notin DOMAIN local
    /\ k \in DOMAIN index => index[k] = "local"
    /\ Goto(r, [at |-> "got", key |-> k, result |-> Missing])
    /\ UNCHANGED <<dictionaries, remote>>

GetRemote(r, k) ==
    /\ thread[r] = Idle
    /\ k \in DOMAIN index \ DOMAIN local
    /\ index[k] # "local"
    /\ Goto(r, [at |-> "get_call", key |-> k, peer |-> index[k]])
    /\ UNCHANGED <<dictionaries, remote>>

GetAnswered(r) ==
    LET k    == thread[r].key
        held == remote[thread[r].peer]
    IN  /\ thread[r].at = "get_call"
        /\ Goto(r, [at |-> "got", key |-> k,
                    result |-> IF k \in DOMAIN held THEN held[k] ELSE Missing])
        /\ UNCHANGED <<dictionaries, remote>>

\* The owner is not known any longer, or is offline: MissingBlock, without
\* asking it, of a block that it may well hold.
GetOffline(r) ==
    /\ thread[r].at = "get_call"
    /\ Goto(r, [at |-> "offline", key |-> thread[r].key])
    /\ UNCHANGED <<dictionaries, remote>>

\* The call raises: an error that says nothing of the block.
GetRaises(r) ==
    /\ thread[r].at = "get_call"
    /\ Goto(r, Idle)
    /\ UNCHANGED <<dictionaries, remote>>

GetReturn(r) ==
    /\ thread[r].at \in {"got", "offline"}
    /\ Goto(r, Idle)
    /\ UNCHANGED <<dictionaries, remote>>

-----------------------------------------------------------------------------
(* delete and clear                                                        *)

\* Mutant: leaves the key in the index.
DeleteLocalKeepsIndex(w, k) ==
    /\ thread[w] = Idle
    /\ k \in DOMAIN local
    /\ localUsed' = localUsed - Freed(k)
    /\ local' = Drop(local, k)
    /\ lru' = lru \ {k}
    /\ UNCHANGED <<slipped, index, sizes, remote, thread>>

DeleteLocal(w, k) ==
    /\ thread[w] = Idle
    /\ k \in DOMAIN local
    /\ localUsed' = localUsed - Freed(k)
    /\ local' = Drop(local, k)
    /\ lru' = lru \ {k}
    /\ index' = Drop(index, k)
    /\ sizes' = Drop(sizes, k)
    /\ UNCHANGED <<slipped, remote, thread>>

DeleteRemote(w, k) ==
    /\ thread[w] = Idle
    /\ k \in DOMAIN index \ DOMAIN local
    /\ index[k] # "local"
    /\ index' = Drop(index, k)
    /\ sizes' = Drop(sizes, k)
    /\ Goto(w, [at |-> "del_call", key |-> k, peer |-> index[k]])
    /\ UNCHANGED <<local, lru, localUsed, slipped, remote>>

\* A DEL the peer carries out, or one that never gets there (the peer is no
\* longer known, or the call raises): the two ways a DEL can go.
DelDone(p, k) == remote' = [remote EXCEPT ![p] = Drop(@, k)]
DelLost == UNCHANGED remote

DeleteCall(w) ==
    /\ thread[w].at = "del_call"
    /\ DelDone(thread[w].peer, thread[w].key) \/ DelLost
    /\ Goto(w, Idle)
    /\ UNCHANGED dictionaries

\* The keys the index has at peers, and those peers.
AtPeers == [k \in {j \in DOMAIN index : index[j] # "local"} |-> index[k]]

Clear(w) ==
    /\ thread[w] = Idle
    /\ local' = Empty
    /\ lru' = {}
    /\ localUsed' = 0
    /\ slipped' = 0
    /\ index' = Empty
    /\ sizes' = Empty
    /\ Goto(w, [at |-> "clear_calls", todo |-> AtPeers])
    /\ UNCHANGED remote

ClearCall(w) ==
    /\ thread[w].at = "clear_calls"
    /\ \E k \in DOMAIN thread[w].todo :
        /\ DelDone(thread[w].todo[k], k) \/ DelLost
        /\ Goto(w, [thread[w] EXCEPT !.todo = Drop(@, k)])
    /\ UNCHANGED dictionaries

ClearReturn(w) ==
    /\ thread[w].at = "clear_calls"
    /\ thread[w].todo = Empty
    /\ Goto(w, Idle)
    /\ UNCHANGED <<dictionaries, remote>>

-----------------------------------------------------------------------------
(* spill                                                                   *)

SpillStart(s, target) ==
    /\ thread[s] = Idle
    /\ Goto(s, [at |-> "spill_pick", need |-> target])
    /\ UNCHANGED <<dictionaries, remote>>

SpillPick(s) ==
    /\ thread[s].at = "spill_pick"
    /\ \E k \in lru :
        IF k \in DOMAIN local
        THEN /\ Goto(s, [at |-> "spill_call", need |-> thread[s].need,
                         key |-> k, data |-> local[k]])
             /\ UNCHANGED lru
        ELSE /\ lru' = lru \ {k}
             /\ UNCHANGED thread
    /\ UNCHANGED <<local, localUsed, slipped, index, sizes, remote>>

\* Nothing left to move, no peer for it, a refusal, or a call that raises
\* (with the block stored or not): spill reports what it has moved so far.
SpillEnds(s) ==
    /\ \/ thread[s].at = "spill_pick" /\ lru = {} /\ UNCHANGED remote
       \/ thread[s].at = "spill_call" /\ UNCHANGED remote
       \/ /\ thread[s].at = "spill_call"
          /\ \E p \in Peers : remote' = [remote EXCEPT
                                ![p] = Store(@, thread[s].key, thread[s].data)]
    /\ Goto(s, Idle)
    /\ UNCHANGED dictionaries

SpillSent(s, p) ==
    LET k == thread[s].key
        d == thread[s].data
    IN  /\ thread[s].at = "spill_call"
        /\ remote' = [remote EXCEPT ![p] = Store(@, k, d)]
        /\ Goto(s, [at |-> "spill_stored", need |-> thread[s].need, key |-> k,
                    data |-> d, peer |-> p])
        /\ UNCHANGED dictionaries

\* Mutant: goes on until it has moved exactly the target.
SpillIndexedExact(s) ==
    LET k    == thread[s].key
        left == thread[s].need - Size[thread[s].data]
    IN  /\ thread[s].at = "spill_stored"
        /\ local' = Drop(local, k)
        /\ lru' = lru \ {k}
        /\ localUsed' = localUsed - Size[thread[s].data]
        /\ slipped' = slipped + Size[thread[s].data] - Freed(k)
        /\ index' = Store(index, k, thread[s].peer)
        /\ Goto(s, IF left # 0 THEN [at |-> "spill_pick", need |-> left] ELSE Idle)
        /\ UNCHANGED <<sizes, remote>>

\* Mutant: does not add up what it has moved.
SpillIndexedForgets(s) ==
    /\ thread[s].at = "spill_stored"
    /\ local' = Drop(local, thread[s].key)
    /\ lru' = lru \ {thread[s].key}
    /\ localUsed' = localUsed - Size[thread[s].data]
    /\ slipped' = slipped + Size[thread[s].data] - Freed(thread[s].key)
    /\ index' = Store(index, thread[s].key, thread[s].peer)
    /\ Goto(s, [at |-> "spill_pick", need |-> thread[s].need])
    /\ UNCHANGED <<sizes, remote>>

\* The count loses the length of the block that was picked, whatever the
\* dictionaries hold under its key by now.
SpillIndexed(s) ==
    LET k    == thread[s].key
        left == thread[s].need - Size[thread[s].data]
    IN  /\ thread[s].at = "spill_stored"
        /\ local' = Drop(local, k)
        /\ lru' = lru \ {k}
        /\ localUsed' = localUsed - Size[thread[s].data]
        /\ slipped' = slipped + Size[thread[s].data] - Freed(k)
        /\ index' = Store(index, k, thread[s].peer)
        /\ Goto(s, IF left > 0 THEN [at |-> "spill_pick", need |-> left] ELSE Idle)
        /\ UNCHANGED <<sizes, remote>>

-----------------------------------------------------------------------------
\* A peer's worker starts again with an empty store.
PeerRestart(p) ==
    /\ remote' = [remote EXCEPT ![p] = Empty]
    /\ UNCHANGED <<dictionaries, thread>>

WriterStep(w) ==
    \/ \E k \in Keys, d \in Data : PutFits(w, k, d) \/ PutOverflows(w, k, d)
    \/ PutLocal(w)
    \/ PutNoCapacity(w)
    \/ \E p \in Peers : PutSent(w, p) \/ PutRaises(w, p)
    \/ PutIndexed(w)
    \/ \E k \in Keys : DeleteLocal(w, k) \/ DeleteRemote(w, k)
    \/ DeleteCall(w)
    \/ Clear(w)
    \/ ClearCall(w)
    \/ ClearReturn(w)

ReaderStep(r) ==
    \/ \E k \in Keys : GetLocal(r, k) \/ GetMiss(r, k) \/ GetRemote(r, k)
    \/ GetAnswered(r)
    \/ GetOffline(r)
    \/ GetRaises(r)
    \/ GetReturn(r)

\* What a spill does once it is called.
SpillContinue(s) ==
    \/ SpillPick(s)
    \/ SpillEnds(s)
    \/ \E p \in Peers : SpillSent(s, p)
    \/ SpillIndexed(s)

Next ==
    \/ \E w \in Writers : WriterStep(w)
    \/ \E r \in Readers : ReaderStep(r)
    \/ \E s \in Spillers :
        \/ \E target \in Targets : SpillStart(s, target)
        \/ SpillContinue(s)
    \/ \E p \in Peers : PeerRestart(p)

Spec == Init /\ [][Next]_vars

\* A spill that has been called keeps running: its thread is scheduled, and
\* every remote call returns or raises, as its socket has a timeout.
FairSpec == Spec /\ \A s \in Spillers : WF_vars(SpillContinue(s))

-----------------------------------------------------------------------------
\* The bytes held locally.
LocalBytes == Bytes([k \in DOMAIN local |-> Size[local[k]]])

DictionariesOK ==
    /\ IsDict(local, Data)
    /\ lru \subseteq Keys
    /\ localUsed \in Int /\ slipped \in Int
    /\ IsDict(index, Peers \cup {"local"})
    /\ IsDict(sizes, Sizes)
    /\ DOMAIN remote = Peers /\ \A p \in Peers : IsDict(remote[p], Data)

WriterState(s) ==
    \/ s \in {Idle} \cup Putting \cup Stored \cup Deleting
    \/ s.at = "clear_calls" /\ IsClearing(s)

ReaderState(s) == s \in {Idle} \cup Getting \cup Offline \cup Got

SpillerState(s) == s \in {Idle} \cup Spilling \cup Moving \cup Moved

ThreadsOK ==
    /\ DOMAIN thread = Threads
    /\ \A w \in Writers : WriterState(thread[w])
    /\ \A r \in Readers : ReaderState(thread[r])
    /\ \A s \in Spillers : SpillerState(thread[s])

\* Types of the dictionaries, the count and the threads.
TypeOK == DictionariesOK /\ ThreadsOK

\* However puts, deletes, clears and spills overlap, _local, _lru and the
\* index agree on which blocks are local, and their sizes are the right ones.
\* A key the index calls local but _local lacks would be a block lost for
\* good (get raises MissingBlock without asking anyone), and a key in _local
\* but not in _lru would never be spilled.
LocalIndexAgree ==
    /\ lru = DOMAIN local
    /\ \A k \in Keys : k \in DOMAIN local <=> k \in DOMAIN index /\ index[k] = "local"
    /\ \A k \in DOMAIN local : k \in DOMAIN sizes /\ sizes[k] = Size[local[k]]

\* _local_used, which the budget is tested with, is the number of bytes held
\* locally less the bytes that slipped: spill measures a block, lets go of the
\* lock for its call, and then takes that length off the count even if a put,
\* a delete or another spill has taken the block away meanwhile.  Whatever
\* overlaps, nothing else makes the count wrong.
LocalAccounting == localUsed = Cardinality(LocalBytes) - slipped

\* The local blocks stay within the budget but for the puts that tested it
\* together (one largest block for every writer besides the first) and for what
\* slipped from the count: the test and the store of a put are two critical
\* sections, and other puts, deletes, clears and spills come between them.
LocalBounded ==
    Cardinality(LocalBytes)
        <= Budget + (Cardinality(Writers) - 1) * MaxSize + slipped

\* A key enters the index only by a put of that key: none that was deleted
\* comes back otherwise ("Deleting a block makes the next read fall through to
\* the disk tier", README.md:198).  The code does not keep this: spill enters the
\* key of the block that it has moved, though it has been deleted meanwhile.
DeletedStays ==
    [][\A k \in DOMAIN index' \ DOMAIN index :
        \E w \in Writers :
            /\ thread[w].at \in {"put_local", "put_stored"}
            /\ thread[w].key = k]_vars

\* A spill comes to an end although writers keep refilling what it empties.
SpillTerminates ==
    \A s \in Spillers : thread[s] # Idle ~> thread[s] = Idle
=============================================================================
