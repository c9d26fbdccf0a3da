----------------------------- MODULE Placement -----------------------------
(***************************************************************************)
(* Which peer a block goes to, and what becomes of it there: the Scheduler,*)
(* put, delete, clear and spill of one node (memcloud/client.py), the      *)
(* probes that tell it how much its peers can take (memcloud/discovery.py),*)
(* and the workers that admit or refuse (memcloud/worker.py).  Several     *)
(* threads of the node put, delete, clear and spill at once; the other     *)
(* nodes use the same workers, and the same names, without its knowing.    *)
(*                                                                         *)
(* The node works on estimates: reserve_free of a peer is what its last    *)
(* STAT said, less what the node has put there since.  A STAT is answered  *)
(* at one moment and noted at a later one, and put lowers the estimate     *)
(* without a lock.  A worker tests its reserve in one critical section and *)
(* stores in another.                                                      *)
(*                                                                         *)
(* Blocks are their lengths here; what a get answers is in MemCloudReads.  *)
(* The index has a block as "local" exactly while _local has it, which is  *)
(* LocalIndexAgree of module MemCloud.  Left out: the local budget (a put  *)
(* may stay here or not), the ids of seeds and the time that probes take   *)
(* (module Discovery).  A call may end before its request does (module     *)
(* ConnectionPool): a PUT that does so is one that was admitted before.    *)
(***************************************************************************)
EXTENDS Dictionaries, Sequences

CONSTANTS
    Writers,    \* threads of the node that put
    Deleters,   \* ... that delete and clear
    Spillers,   \* ... that spill
    Workers,    \* the workers, in the order of the peer table: a sequence
    Mine,       \* the names this node gives its blocks
    Theirs,     \* the names the others give theirs
    Lengths,    \* the lengths that blocks have
    Reserve,    \* reserve_bytes of each worker
    Cost,       \* rtt_ms * rtt_penalty of each worker
    Unsteady,   \* bound: the workers that stop, that expire, that others use, and
                \* calls to which fail
    MaxPending  \* bound: PUTs that are admitted, and not stored yet, with no
                \* thread of the node waiting

Threads == Writers \cup Deleters \cup Spillers

W == {Workers[i] : i \in DOMAIN Workers}

ASSUME PlacementConstants ==
    /\ Workers \in Seq(W) \ {<<>>}
    /\ \A i, j \in DOMAIN Workers : Workers[i] = Workers[j] => i = j
    /\ "local" \notin W
    /\ Mine \cup Theirs \subseteq Keys
    /\ Lengths \subseteq Sizes
    /\ Reserve \in [W -> Nat]
    /\ Cost \in [W -> Nat]
    /\ Unsteady \subseteq W
    /\ MaxPending \in Nat

VARIABLES
    up,         \* the workers that run
    held,       \* per worker: the length and owner of each block it holds
    pending,    \* the PUTs that a worker has admitted, and will store, though
                \* their sender is another node or waits no longer
    peer,       \* per worker: what the node takes it to be, online and free
    index,      \* _index: "local" or the worker that has a block
    sizes,      \* _sizes
    op,         \* per thread: the operation in progress
    probe       \* the probe loop

vars == <<up, held, pending, peer, index, sizes, op, probe>>

workers == <<up, held, pending>>
dictionaries == <<index, sizes>>

Idle == [at |-> "idle"]

Goto(t, s) == op' = [op EXCEPT ![t] = s]

Max0(n) == IF n < 0 THEN 0 ELSE n

\* The bytes that the blocks in d take.
Total(d) == Cardinality(Bytes([k \in DOMAIN d |-> d[k].size]))

Used(w) == Total(held[w])
Free(w) == Max0(Reserve[w] - Used(w))

Init ==
    /\ up = W
    /\ held = [w \in W |-> Empty]
    /\ pending = {}
    /\ peer = [w \in W |-> [online |-> FALSE, free |-> 0]]
    /\ index = Empty
    /\ sizes = Empty
    /\ op = [t \in Threads |-> Idle]
    /\ probe = [at |-> "ask", next |-> 1]

-----------------------------------------------------------------------------
(* The scheduler                                                           *)

\* Mutant: wants more room than the block takes.
EligibleStrict(w, n) == peer[w].online /\ peer[w].free > n

Eligible(w, n) == peer[w].online /\ peer[w].free >= n

Score(w) == peer[w].free - Cost[w]

\* The eligible worker with the best score, the first of several; or none.
Select(n) ==
    LET E == {i \in DOMAIN Workers : Eligible(Workers[i], n)}
        Beats(i, j) == \/ Score(Workers[i]) > Score(Workers[j])
                       \/ Score(Workers[i]) = Score(Workers[j]) /\ i < j
    IN  {Workers[i] : i \in {j \in E : \A k \in E \ {j} : Beats(j, k)}}

-----------------------------------------------------------------------------
(* put and spill                                                           *)

\* The block stays on the node: from here on it is not looked for elsewhere.
PutLocal(t, k, n) ==
    /\ op[t] = Idle
    /\ index' = Store(index, k, "local")
    /\ sizes' = Store(sizes, k, n)
    /\ UNCHANGED <<workers, peer, op, probe>>

Failed(k, n) == [at |-> "failed", key |-> k, size |-> n]

\* put selects a peer for a block that does not stay: NoCapacity if there is none.
PutSelect(t, k, n) ==
    /\ op[t] = Idle
    /\ \E s \in IF Select(n) = {} THEN {Failed(k, n)}
                ELSE {[at |-> "call", key |-> k, size |-> n, peer |-> w,
                       again |-> FALSE, spill |-> FALSE] : w \in Select(n)} :
            Goto(t, s)
    /\ UNCHANGED <<workers, peer, dictionaries, probe>>

\* spill selects one for a block that is here: it ends if there is none.
SpillSelect(t, k) ==
    /\ op[t] = Idle
    /\ k \in DOMAIN index /\ index[k] = "local"
    /\ \E w \in Select(sizes[k]) :
            Goto(t, [at |-> "call", key |-> k, size |-> sizes[k], peer |-> w,
                     again |-> FALSE, spill |-> TRUE])
    /\ UNCHANGED <<workers, peer, dictionaries, probe>>

Block(o, n) == [owner |-> o, size |-> n]

\* The reserve has room for what the block adds to the one it replaces.
Admits(w, k, n) ==
    LET old == IF k \in DOMAIN held[w] THEN held[w][k].size ELSE 0
    IN  Used(w) + n - old <= Reserve[w]

\* No other thread of the node has a call to w under way: they take turns on
\* the connection, and an attempt that is repeated keeps its turn.
MayCall(t, w) ==
    \A u \in Threads \ {t} :
        op[u].at = "admitted" \/ (op[u].at = "call" /\ op[u].again) => op[u].peer # w

\* The request of thread t is before its worker.
Asks(t) == op[t].at = "call" /\ op[t].peer \in up /\ MayCall(t, op[t].peer)

PutAdmitted(t) ==
    /\ Asks(t)
    /\ Admits(op[t].peer, op[t].key, op[t].size)
    /\ Goto(t, [op[t] EXCEPT !.at = "admitted"])
    /\ UNCHANGED <<workers, peer, dictionaries, probe>>

\* The worker does not test again what it admitted.
PutStored(t) ==
    LET w == op[t].peer
    IN  /\ op[t].at = "admitted"
        /\ held' = [held EXCEPT ![w] = Store(@, op[t].key, Block("node", op[t].size))]
        /\ Goto(t, [op[t] EXCEPT !.at = "stored", !.again = FALSE])
        /\ UNCHANGED <<up, pending, peer, dictionaries, probe>>

\* put raises NoCapacity, spill notes the error and ends.
Refused(s) == IF s.spill THEN Idle ELSE Failed(s.key, s.size)

\* Mutant: does not look whether the worker took the block.
PutRefusedUnseen(t) ==
    /\ Asks(t)
    /\ ~Admits(op[t].peer, op[t].key, op[t].size)
    /\ Goto(t, [op[t] EXCEPT !.at = "stored"])
    /\ UNCHANGED <<workers, peer, dictionaries, probe>>

PutRefused(t) ==
    /\ Asks(t)
    /\ ~Admits(op[t].peer, op[t].key, op[t].size)
    /\ Goto(t, Refused(op[t]))
    /\ UNCHANGED <<workers, peer, dictionaries, probe>>

\* The host of the worker is short of memory, whatever its reserve.
PutGuarded(t) ==
    /\ Asks(t)
    /\ Goto(t, Refused(op[t]))
    /\ UNCHANGED <<workers, peer, dictionaries, probe>>

\* The call is over for thread t; what the worker has admitted it will store.
Abandoned(t) ==
    /\ pending' = pending \cup {[worker |-> op[u].peer, key |-> op[u].key,
                                 size |-> op[u].size, owner |-> "node"] :
                                    u \in {v \in {t} : op[v].at = "admitted"}}
    /\ Cardinality(pending') <= MaxPending

\* The first attempt fails, on its way there or on its way back, and is
\* repeated: the second may be refused though the first is stored.
PutRetried(t) ==
    /\ op[t].at \in {"call", "admitted"} /\ ~op[t].again
    /\ op[t].peer \in Unsteady /\ MayCall(t, op[t].peer)
    /\ Abandoned(t)
    /\ Goto(t, [op[t] EXCEPT !.at = "call", !.again = TRUE])
    /\ UNCHANGED <<up, held, peer, dictionaries, probe>>

\* The connection cannot be made, or the second attempt fails too.
PutRaises(t) ==
    /\ op[t].at = "call" \/ (op[t].at = "admitted" /\ op[t].again)
    /\ op[t].peer \in Unsteady /\ MayCall(t, op[t].peer)
    /\ Abandoned(t)
    /\ Goto(t, Idle)
    /\ UNCHANGED <<up, held, peer, dictionaries, probe>>

\* Mutant: lowers the estimate below zero.
PutIndexedNegative(t) ==
    LET w == op[t].peer
    IN  /\ op[t].at = "stored"
        /\ index' = Store(index, op[t].key, w)
        /\ sizes' = IF op[t].spill THEN sizes ELSE Store(sizes, op[t].key, op[t].size)
        /\ Goto(t, [at |-> "lower", peer |-> w, free |-> peer[w].free - op[t].size])
        /\ UNCHANGED <<workers, peer, probe>>

\* The block is entered in the index, and the estimate is read ...
PutIndexed(t) ==
    LET w == op[t].peer
    IN  /\ op[t].at = "stored"
        /\ index' = Store(index, op[t].key, w)
        /\ sizes' = IF op[t].spill THEN sizes ELSE Store(sizes, op[t].key, op[t].size)
        /\ Goto(t, [at |-> "lower", peer |-> w, free |-> Max0(peer[w].free - op[t].size)])
        /\ UNCHANGED <<workers, peer, probe>>

\* ... and written, though a probe may have noted a newer figure meanwhile.
PutLower(t) ==
    /\ op[t].at = "lower"
    /\ peer' = [peer EXCEPT ![op[t].peer].free = op[t].free]
    /\ Goto(t, Idle)
    /\ UNCHANGED <<workers, dictionaries, probe>>

\* NoCapacity: the caller falls back to disk.
PutFallsBack(t) ==
    /\ op[t].at = "failed"
    /\ Goto(t, Idle)
    /\ UNCHANGED <<workers, peer, dictionaries, probe>>

-----------------------------------------------------------------------------
(* delete and clear                                                        *)

\* The blocks of the keys in K that the index has at workers.
Away(K) == {<<index[k], k>> : k \in {j \in K \cap DOMAIN index : index[j] # "local"}}

\* Goes on with the DELs of the blocks in todo.
SendDels(t, todo) == Goto(t, IF todo = {} THEN Idle ELSE [at |-> "delete", todo |-> todo])

\* Mutant: forgets the block without a word to its worker.
DeleteHere(t, k) ==
    /\ op[t] = Idle
    /\ k \in DOMAIN index
    /\ index' = Drop(index, k)
    /\ sizes' = Drop(sizes, k)
    /\ UNCHANGED <<workers, peer, op, probe>>

Delete(t, k) ==
    /\ op[t] = Idle
    /\ k \in DOMAIN index
    /\ index' = Drop(index, k)
    /\ sizes' = Drop(sizes, k)
    /\ SendDels(t, Away({k}))
    /\ UNCHANGED <<workers, peer, probe>>

Clear(t) ==
    /\ op[t] = Idle
    /\ index' = Empty
    /\ sizes' = Empty
    /\ SendDels(t, Away(Mine))
    /\ UNCHANGED <<workers, peer, probe>>

\* A DEL that the worker carries out, and one that never gets there.
DelDone(t, b) ==
    /\ op[t].at = "delete" /\ b \in op[t].todo
    /\ b[1] \in up /\ MayCall(t, b[1])
    /\ held' = [held EXCEPT ![b[1]] = Drop(@, b[2])]
    /\ SendDels(t, op[t].todo \ {b})
    /\ UNCHANGED <<up, pending, peer, dictionaries, probe>>

DelLost(t, b) ==
    /\ op[t].at = "delete" /\ b \in op[t].todo
    /\ b[1] \in Unsteady
    /\ SendDels(t, op[t].todo \ {b})
    /\ UNCHANGED <<workers, peer, dictionaries, probe>>

-----------------------------------------------------------------------------
(* The probe loop                                                          *)

After(i) == IF i = Len(Workers) THEN 1 ELSE i + 1

\* A STAT is answered with the figures of that moment; a worker that is down
\* does not answer, and the loop goes on to the next.
ProbeAsk ==
    LET w == Workers[probe.next]
    IN  /\ probe.at = "ask"
        /\ probe' = IF w \in up
                    THEN [at |-> "note", next |-> probe.next, free |-> Free(w)]
                    ELSE [at |-> "ask", next |-> After(probe.next)]
        /\ UNCHANGED <<workers, peer, dictionaries, op>>

\* Mutant: notes a figure only if it is lower than the estimate.
ProbeNoteLower ==
    LET w == Workers[probe.next]
    IN  /\ probe.at = "note"
        /\ peer' = [peer EXCEPT ![w] = [online |-> TRUE, free |->
                IF @.online /\ @.free < probe.free THEN @.free ELSE probe.free]]
        /\ probe' = [at |-> "ask", next |-> After(probe.next)]
        /\ UNCHANGED <<workers, dictionaries, op>>

ProbeNote ==
    LET w == Workers[probe.next]
    IN  /\ probe.at = "note"
        /\ peer' = [peer EXCEPT ![w] = [online |-> TRUE, free |-> probe.free]]
        /\ probe' = [at |-> "ask", next |-> After(probe.next)]
        /\ UNCHANGED <<workers, dictionaries, op>>

\* A beacon brings no figures: a worker that is back, and perhaps empty, is
\* offered with what it had free when it was last asked.
Beacon(w) ==
    /\ w \in up /\ ~peer[w].online
    /\ peer' = [peer EXCEPT ![w].online = TRUE]
    /\ UNCHANGED <<workers, dictionaries, op, probe>>

\* The last that was heard of a worker is older than OFFLINE_AFTER: it need not
\* be down for that, its probes may have waited for those of others.
Expires(w) ==
    /\ peer[w].online
    /\ peer' = [peer EXCEPT ![w].online = FALSE]
    /\ UNCHANGED <<workers, dictionaries, op, probe>>

-----------------------------------------------------------------------------
(* What the node does not see                                              *)

OtherAdmitted(w, k, n) ==
    /\ w \in up
    /\ Cardinality(pending) < MaxPending
    /\ Admits(w, k, n)
    /\ pending' = pending \cup {[worker |-> w, key |-> k, size |-> n, owner |-> "other"]}
    /\ UNCHANGED <<up, held, peer, dictionaries, op, probe>>

\* A PUT that was admitted is stored: another node's, or one of this node's
\* whose call has failed.
PendingStored(x) ==
    /\ x \in pending
    /\ pending' = pending \ {x}
    /\ held' = [held EXCEPT ![x.worker] = Store(@, x.key, Block(x.owner, x.size))]
    /\ UNCHANGED <<up, peer, dictionaries, op, probe>>

\* Another node's DEL; or one of this node's that comes late, its call having
\* ended before.
StrayDelete(w, k) ==
    /\ w \in up
    /\ k \in DOMAIN held[w]
    /\ held' = [held EXCEPT ![w] = Drop(@, k)]
    /\ UNCHANGED <<up, pending, peer, dictionaries, op, probe>>

\* The requests before the worker are lost with it.
Stop(w) ==
    /\ w \in up
    /\ up' = up \ {w}
    /\ held' = [held EXCEPT ![w] = Empty]
    /\ pending' = {x \in pending : x.worker # w}
    /\ op' = [t \in Threads |->
            IF op[t].at = "admitted" /\ op[t].peer = w
            THEN IF op[t].again THEN Idle ELSE [op[t] EXCEPT !.at = "call", !.again = TRUE]
            ELSE op[t]]
    /\ UNCHANGED <<peer, dictionaries, probe>>

Start(w) ==
    /\ w \notin up
    /\ up' = up \cup {w}
    /\ UNCHANGED <<held, pending, peer, dictionaries, op, probe>>

PutGoesOn(t) ==
    \/ PutAdmitted(t) \/ PutStored(t) \/ PutRefused(t) \/ PutGuarded(t)
    \/ PutRetried(t) \/ PutRaises(t)
    \/ PutIndexed(t) \/ PutLower(t) \/ PutFallsBack(t)

WriterStep(t) ==
    \E k \in Mine, n \in Lengths : PutLocal(t, k, n) \/ PutSelect(t, k, n)

DeleterStep(t) ==
    \/ \E k \in Mine : Delete(t, k)
    \/ Clear(t)
    \/ \E b \in W \X Mine : DelDone(t, b) \/ DelLost(t, b)

SpillerStep(t) == \E k \in Mine : SpillSelect(t, k)

ProbeLoop == ProbeAsk \/ ProbeNote

Next ==
    \/ \E t \in Writers : WriterStep(t)
    \/ \E t \in Deleters : DeleterStep(t)
    \/ \E t \in Spillers : SpillerStep(t)
    \/ \E t \in Writers \cup Spillers : PutGoesOn(t)
    \/ ProbeLoop
    \/ \E x \in pending : PendingStored(x)
    \/ \E w \in W : Beacon(w)
    \/ \E w \in Unsteady :
        \/ Expires(w)
        \/ \E k \in Theirs, n \in Lengths : OtherAdmitted(w, k, n)
        \/ \E k \in Mine \cup Theirs : StrayDelete(w, k)
        \/ Stop(w) \/ Start(w)

Spec == Init /\ [][Next]_vars

\* The probe thread runs, its connections and requests have timeouts, and a
\* worker that runs answers its STATs.
FairSpec == Spec /\ WF_vars(ProbeLoop)

-----------------------------------------------------------------------------
BlocksHeld == [owner : {"node", "other"}, size : Lengths]

Requests == [worker : W, key : Mine, size : Lengths, owner : {"node"}]
            \cup [worker : W, key : Theirs, size : Lengths, owner : {"other"}]

Putting == [at : {"call", "admitted", "stored"}, key : Mine, size : Lengths,
            peer : W, again : BOOLEAN, spill : BOOLEAN]
Fallen == [at : {"failed"}, key : Mine, size : Lengths]
Lowering == [at : {"lower"}, peer : W, free : Nat]
Deleting == [at : {"delete"}, todo : SUBSET (W \X Mine)]
Operations == {Idle} \cup Putting \cup Fallen \cup Lowering \cup Deleting

Asking == [at : {"ask"}, next : DOMAIN Workers]
Noting == [at : {"note"}, next : DOMAIN Workers, free : Nat]

WorkersOK ==
    /\ up \subseteq W
    /\ DOMAIN held = W
    /\ \A w \in W : IsDict(held[w], BlocksHeld)
    /\ pending \subseteq Requests

DictionariesOK ==
    /\ IsDict(index, W \cup {"local"}) /\ DOMAIN index \subseteq Mine
    /\ IsDict(sizes, Lengths)
    /\ \A k \in DOMAIN index : index[k] = "local" => k \in DOMAIN sizes

\* Types; an estimate is never negative, whatever lowers it.
TypeOK ==
    /\ WorkersOK
    /\ peer \in [W -> [online : BOOLEAN, free : Nat]]
    /\ DictionariesOK
    /\ op \in [Threads -> Operations]
    /\ probe \in Asking \cup Noting

\* Once nobody puts, deletes, stops or starts any more, what the node takes a
\* worker to have free becomes what it has free, and stays so: no STAT noted
\* late, and no subtraction that crossed one, lasts (put, _probe).  And a worker
\* that runs is taken to be online again and again, though it may expire as often.
EstimatesSettle ==
    <>[](\A t \in Threads : op[t] = Idle) /\ <>[][UNCHANGED <<up, held>>]_vars =>
        /\ <>[](\A w \in up : peer[w].free = Free(w))
        /\ \A w \in W : []<>(w \in up => peer[w].online)
=============================================================================
