------------------------------ MODULE PrefixKV ------------------------------
(***************************************************************************)
(* The prefix cache (PrefixKVStore of memcloud/llm.py): store keeps the KV *)
(* cache of a prefix as an object and enters it in _index, fetch looks the *)
(* prefix up there and gets the object, evict takes it out of _index and   *)
(* deletes the object.  Only _index is under the store's lock.             *)
(*                                                                         *)
(* A key is a hash of the model, the tokenizer and the tokens, so it names *)
(* one content for good: Content gives it, and who stores the key twice    *)
(* stores the same bytes.  All objects of the store have one chunk size.   *)
(*                                                                         *)
(* Left out: the records of _index but for their keys, hits and misses.    *)
(***************************************************************************)
EXTENDS Objects

CONSTANTS
    Content,    \* the KV cache of each prefix
    ChunkBytes  \* the store's chunk_bytes

ASSUME PrefixKVConstants ==
    /\ Content \in [Names -> Data]
    /\ ChunkBytes \in Nat \ {0}

VARIABLE index  \* the keys of _index

kvars == <<vars, index>>

KVInit == Init /\ index = {}

-----------------------------------------------------------------------------
Store(w, k) ==
    /\ thread[w] = Idle
    /\ PutObject(w, k, Content[k], ChunkBytes)
    /\ UNCHANGED index

\* Mutant: enters the prefix as soon as the first chunk is there.
StoreIndexedEarly(w) ==
    /\ thread[w].at = "put"
    /\ thread[w].next = 1
    /\ index' = index \cup {thread[w].name}
    /\ UNCHANGED vars

StoreIndexed(w) ==
    /\ thread[w].at = "stored"
    /\ index' = index \cup {thread[w].name}
    /\ Goto(w, Idle)
    /\ UNCHANGED <<blocks, manifests, sent>>

Evict(w, k) ==
    /\ thread[w] = Idle
    /\ index' = index \ {k}
    /\ Goto(w, [at |-> "evict", name |-> k])
    /\ UNCHANGED <<blocks, manifests, sent>>

EvictObject(w) ==
    /\ thread[w].at = "evict"
    /\ DeleteObject(w, thread[w].name)
    /\ UNCHANGED index

FetchMiss(r, k) ==
    /\ thread[r] = Idle
    /\ k \notin index
    /\ Goto(r, [at |-> "miss", name |-> k])
    /\ UNCHANGED <<blocks, manifests, sent, index>>

FetchHit(r, k) ==
    /\ thread[r] = Idle
    /\ k \in index
    /\ Goto(r, [at |-> "found", name |-> k])
    /\ UNCHANGED <<blocks, manifests, sent, index>>

FetchObject(r) ==
    /\ thread[r].at = "found"
    /\ GetObject(r, thread[r].name)
    /\ UNCHANGED index

KVReturn(t) ==
    /\ thread[t].at \in {"deleted", "got", "raised", "miss"}
    /\ Goto(t, Idle)
    /\ UNCHANGED <<blocks, manifests, sent, index>>

KVWriterStep(w) ==
    \/ \E k \in Names : Store(w, k) \/ Evict(w, k)
    \/ StoreIndexed(w)
    \/ EvictObject(w)
    \/ thread[w] = Idle /\ Clear /\ UNCHANGED index
    \/ WriterGoesOn(w) /\ UNCHANGED index
    \/ KVReturn(w)

KVReaderStep(r) ==
    \/ \E k \in Names : FetchMiss(r, k) \/ FetchHit(r, k)
    \/ FetchObject(r)
    \/ ReaderGoesOn(r) /\ UNCHANGED index
    \/ KVReturn(r)

KVNext ==
    \/ \E w \in Writers : KVWriterStep(w)
    \/ \E r \in Readers : KVReaderStep(r)
    \/ \E x \in Requests : RequestStep(x) /\ UNCHANGED index
    \/ \E c \in DOMAIN blocks : BlockLost(c) /\ UNCHANGED index

KVSpec == KVInit /\ [][KVNext]_kvars

-----------------------------------------------------------------------------
\* A hit is exact: fetch returns the bytes that were stored for the prefix,
\* whatever stores, evictions and clears overlap with it, fail half way or
\* lose chunks, or it returns none at all.
HitIsExact ==
    \A r \in Readers :
        thread[r].at = "got" => thread[r].data = Content[thread[r].name]
=============================================================================
