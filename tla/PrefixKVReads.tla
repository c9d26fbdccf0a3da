--------------------------- MODULE PrefixKVReads ---------------------------
(***************************************************************************)
(* When a fetch must be a hit.  PrefixKV with history variables: the steps *)
(* are those of PrefixKV, and the history only watches them.               *)
(***************************************************************************)
EXTENDS PrefixKV

VARIABLES
    sure,   \* per prefix: it was stored, and nothing taken of it since
    safe    \* per thread: nothing was taken of the prefix of its operation
            \* since it began; a fetch also found its prefix sure

hkvars == <<kvars, sure, safe>>

NameOf(s) == IF s = Idle THEN {} ELSE {s.name}

\* Something is taken away of each prefix in ks.
Taken(ks) ==
    /\ sure' = [k \in Names |-> sure[k] /\ k \notin ks]
    /\ safe' = [t \in Threads |-> safe[t] /\ NameOf(thread'[t]) \cap ks = {}]

Starts(t, b) == safe' = [safe EXCEPT ![t] = b] /\ UNCHANGED sure

Ends(t) == safe' = [safe EXCEPT ![t] = FALSE]

Quiet == UNCHANGED <<sure, safe>>

HKVInit ==
    /\ KVInit
    /\ sure = [k \in Names |-> FALSE]
    /\ safe = [t \in Threads |-> FALSE]

HKVWriterStep(w) ==
    \/ \E k \in Names :
        \/ Store(w, k) /\ Starts(w, TRUE)
        \/ Evict(w, k) /\ Taken({k})
    \/ /\ StoreIndexed(w)
       /\ sure' = [sure EXCEPT ![thread[w].name] = @ \/ safe[w]]
       /\ Ends(w)
    \/ EvictObject(w) /\ Quiet
    \/ thread[w] = Idle /\ Clear /\ UNCHANGED index /\ Taken(Names)
    \/ (PutSends(w) \/ PutChunk(w) \/ PutManifest(w)) /\ UNCHANGED index /\ Quiet
    \/ PutFails(w) /\ UNCHANGED <<index, sure>> /\ Ends(w)
    \/ /\ DeleteChunk(w) \/ DeleteManifest(w)
       /\ UNCHANGED index
       /\ Taken({thread[w].name})
    \/ KVReturn(w) /\ Ends(w) /\ UNCHANGED sure

HKVReaderStep(r) ==
    \/ \E k \in Names : (FetchMiss(r, k) \/ FetchHit(r, k)) /\ Starts(r, sure[k])
    \/ FetchObject(r) /\ Quiet
    \/ ReaderGoesOn(r) /\ UNCHANGED index /\ Quiet
    \/ KVReturn(r) /\ Ends(r) /\ UNCHANGED sure

HKVNext ==
    \/ \E w \in Writers : HKVWriterStep(w)
    \/ \E r \in Readers : HKVReaderStep(r)
    \/ \E x \in Requests : RequestStep(x) /\ UNCHANGED index /\ Quiet
    \/ \E c \in DOMAIN blocks : BlockLost(c) /\ UNCHANGED index /\ Taken({c[1]})

HKVSpec == HKVInit /\ [][HKVNext]_hkvars

-----------------------------------------------------------------------------
\* A prefix that has been stored, and since then neither evicted nor cleared
\* nor lost with a peer, is a hit: fetch neither misses it nor finds a chunk
\* gone, though other threads store it again and fail half way, and spills move
\* it.  (It raises MissingBlock if the peer of a chunk is offline.)
StoredIsServed ==
    \A r \in Readers :
        safe[r] =>
            /\ thread[r].at # "miss"
            /\ thread[r].at = "raised" => thread[r].why = "unreachable"
=============================================================================
