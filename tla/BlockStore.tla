----------------------------- MODULE BlockStore -----------------------------
(***************************************************************************)
(* The worker's in-RAM block store (memcloud/worker.py, class BlockStore)  *)
(* as the handler threads of the data-plane server drive it.               *)
(*                                                                         *)
(* The server starts one thread per connection, so several PUTs can be in  *)
(* progress at once.  BlockStore.put takes its lock twice and not at all   *)
(* in between: it measures the block it would replace, asks can_accept     *)
(* (lock, then the host's memory), and only then stores (lock again).      *)
(* Each of these is a step here; delete and clear hold the lock throughout *)
(* and are one step each.                                                  *)
(*                                                                         *)
(* A block's content does not matter to the store, only its length does.   *)
(* Left out: the access times and the put/get/rejected counters, which the *)
(* code only reports, and get/get_range/keys/stat, which change nothing    *)
(* else.                                                                   *)
(***************************************************************************)
EXTENDS Dictionaries

CONSTANTS
    Owners,     \* node ids that send PUT
    Handlers,   \* handler threads: one per open connection
    Reserve,    \* reserve_bytes
    MinFree,    \* min_free_bytes
    Readings    \* what meminfo.system_memory() may report available; 0: unknown

ASSUME StoreConstants ==
    /\ IsFiniteSet(Handlers)
    /\ Reserve \in Nat
    /\ MinFree \in Nat
    /\ Readings \subseteq Nat

VARIABLES
    blocks,     \* _blocks: the length of each block held
    owner,      \* _owner: who sent each block held
    used,       \* _used: the byte count admission is decided on
    handler     \* what each handler thread is doing

vars == <<blocks, owner, used, handler>>

\* A handler with no PUT in progress, and one inside BlockStore.put; old is
\* the length of the block to be replaced, as it was when the PUT measured it.
Ready == [at |-> "ready"]
InPut == [at : {"measured", "admitted"}, key : Keys, size : Sizes,
          owner : Owners, old : Sizes]

\* len(self._blocks.get(key, b""))
Length(k) == IF k \in DOMAIN blocks THEN blocks[k] ELSE 0

-----------------------------------------------------------------------------
Init ==
    /\ blocks = Empty
    /\ owner = Empty
    /\ used = 0
    /\ handler = [h \in Handlers |-> Ready]

\* Mutant: remembers how much the block grows instead of the old length.
PutMeasureGrowth(h, k, n, o) ==
    /\ handler[h] = Ready
    /\ handler' = [handler EXCEPT ![h] =
            [at |-> "measured", key |-> k, size |-> n, owner |-> o,
             old |-> n - Length(k)]]
    /\ UNCHANGED <<blocks, owner, used>>

\* A PUT arrives and put() reads the old length, without the lock.
PutMeasure(h, k, n, o) ==
    /\ handler[h] = Ready
    /\ handler' = [handler EXCEPT ![h] =
            [at |-> "measured", key |-> k, size |-> n, owner |-> o,
             old |-> Length(k)]]
    /\ UNCHANGED <<blocks, owner, used>>

\* Mutant: only the host guard is left of the admission test.
CanAcceptHostOnly(n, avail) == avail = 0 \/ avail - n >= MinFree

\* can_accept(n): the reserve is compared with the count under the lock; the
\* host guard compares whatever the operating system reports at that moment,
\* and is skipped when it reports nothing.
CanAccept(n, avail) ==
    /\ used + n <= Reserve
    /\ avail = 0 \/ avail - n >= MinFree

PutAdmit(h) ==
    /\ handler[h].at = "measured"
    /\ \E avail \in Readings :
            CanAccept(handler[h].size - handler[h].old, avail)
    /\ handler' = [handler EXCEPT ![h].at = "admitted"]
    /\ UNCHANGED <<blocks, owner, used>>

PutReject(h) ==
    /\ handler[h].at = "measured"
    /\ \E avail \in Readings :
            ~CanAccept(handler[h].size - handler[h].old, avail)
    /\ handler' = [handler EXCEPT ![h] = Ready]
    /\ UNCHANGED <<blocks, owner, used>>

\* Mutant: subtracts the length measured before admission.
PutStoreStale(h) ==
    /\ handler[h].at = "admitted"
    /\ used' = used - handler[h].old + handler[h].size
    /\ blocks' = Store(blocks, handler[h].key, handler[h].size)
    /\ owner' = Store(owner, handler[h].key, handler[h].owner)
    /\ handler' = [handler EXCEPT ![h] = Ready]

\* The second critical section of put(): the old block is measured again.
PutStore(h) ==
    /\ handler[h].at = "admitted"
    /\ used' = used - Length(handler[h].key) + handler[h].size
    /\ blocks' = Store(blocks, handler[h].key, handler[h].size)
    /\ owner' = Store(owner, handler[h].key, handler[h].owner)
    /\ handler' = [handler EXCEPT ![h] = Ready]

\* Mutant: forgets the owner entry.
DeleteKeepsOwner(h, k) ==
    /\ handler[h] = Ready
    /\ k \in DOMAIN blocks
    /\ used' = used - blocks[k]
    /\ blocks' = Drop(blocks, k)
    /\ UNCHANGED <<owner, handler>>

\* delete(key), asked by the peer a ready handler serves.
Delete(h, k) ==
    /\ handler[h] = Ready
    /\ k \in DOMAIN blocks
    /\ used' = used - blocks[k]
    /\ blocks' = Drop(blocks, k)
    /\ owner' = Drop(owner, k)
    /\ UNCHANGED handler

\* clear(): part of the class, though nothing in the program calls it.
Clear ==
    /\ blocks' = Empty
    /\ owner' = Empty
    /\ used' = 0
    /\ UNCHANGED handler

Next ==
    \/ \E h \in Handlers :
        \/ \E k \in Keys, n \in Sizes, o \in Owners : PutMeasure(h, k, n, o)
        \/ PutAdmit(h)
        \/ PutReject(h)
        \/ PutStore(h)
        \/ \E k \in Keys : Delete(h, k)
    \/ Clear

Spec == Init /\ [][Next]_vars

-----------------------------------------------------------------------------
\* Types of the store's dictionaries, its count and its handlers.
TypeOK ==
    /\ IsDict(blocks, Sizes)
    /\ IsDict(owner, Owners)
    /\ used \in Int
    /\ handler \in [Handlers -> {Ready} \cup InPut]

\* _used is exactly the number of bytes held, at every step, whatever PUTs,
\* DELs and clears overlap: put() subtracts the length of the block it
\* replaces inside its second critical section and not the one it measured
\* before, which another handler may have replaced or deleted since.
Accounting == used = Cardinality(Bytes(blocks))

\* Every block has an owner and every owner entry a block: stat() indexes
\* _blocks with the keys of _owner (line 138), so a stray entry would make it
\* raise, and the worker answer every STAT without figures; _probe does not look
\* at "ok", and its peers would take it to be online and full.
OwnersMatchBlocks == DOMAIN owner = DOMAIN blocks

\* What is left of the reserve under concurrency: overlapping PUTs can each
\* pass can_accept before any of them is counted, so the store outgrows the
\* reserve, but by no more than one largest block per handler thread.
OvershootBounded == used <= Reserve + Cardinality(Handlers) * MaxSize

\* What worker.py says of itself (lines 9-10): "The worker enforces its own
\* admission limit (`reserve_bytes`) so a peer can never push this laptop
\* into swap."
ReserveRespected == used <= Reserve
=============================================================================
