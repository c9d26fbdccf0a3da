--------------------------- MODULE PlacementProofs ---------------------------
(***************************************************************************)
(* Proofs about Placement, for any threads, workers, names, lengths,       *)
(* reserves, distances and bounds.                                         *)
(***************************************************************************)
EXTENDS PlacementHistory, DictionaryProofs, WellFoundedInduction

(* What the workers hold                                                   *)

OldSize(d, k) == IF k \in DOMAIN d THEN d[k].size ELSE 0

\* The lengths of the blocks of a worker are a dictionary of lengths.
LEMMA SizesTyped ==
  ASSUME NEW d, IsDict(d, BlocksHeld)
  PROVE  /\ IsDict([j \in DOMAIN d |-> d[j].size], Sizes)
         /\ Total(d) \in Nat
         /\ \A k : OldSize(d, k) \in Nat
<1> DEFINE s == [j \in DOMAIN d |-> d[j].size]
<1>1. IsDict(s, Sizes)
  BY PlacementConstants DEF IsDict, BlocksHeld
<1>2. Total(d) = Cardinality(Rows(Keys, AllLengths(s)))
  BY BytesAreRows DEF Total
<1>3. Total(d) \in Nat
  BY <1>2, RowsBound, DictionaryConstants
<1>4. \A k : OldSize(d, k) \in Nat
  BY PlacementConstants, DictionaryConstants DEF OldSize, IsDict, BlocksHeld, Sizes
<1> QED BY <1>1, <1>3, <1>4

LEMMA LengthsNat == Lengths \subseteq Nat
  BY PlacementConstants, DictionaryConstants DEF Sizes

LEMMA FreeNat ==
  ASSUME WorkersOK, NEW w \in W
  PROVE  Used(w) \in Nat /\ Free(w) \in Nat
<1>1. Used(w) \in Nat
  BY SizesTyped DEF WorkersOK, Used
<1> QED BY <1>1, PlacementConstants DEF Free, Max0

\* A worker that stores a block, drops one, or loses them all.
LEMMA WorkersStore ==
  ASSUME WorkersOK, NEW w \in W, NEW k \in Mine \cup Theirs, NEW n \in Lengths,
         NEW o \in {"node", "other"},
         held' = [held EXCEPT ![w] = Store(@, k, Block(o, n))],
         up' = up, pending' \subseteq Requests
  PROVE  WorkersOK'
<1>1. IsDict(held[w], BlocksHeld) /\ Block(o, n) \in BlocksHeld /\ k \in Keys
  BY PlacementConstants DEF WorkersOK, Block, BlocksHeld
<1>2. IsDict(Store(held[w], k, Block(o, n)), BlocksHeld)
  BY <1>1, StoreDict
<1> QED BY <1>2 DEF WorkersOK

LEMMA WorkersDrop ==
  ASSUME WorkersOK, NEW w \in W, NEW k, held' = [held EXCEPT ![w] = Drop(@, k)],
         up' = up, pending' = pending
  PROVE  WorkersOK'
<1>1. IsDict(Drop(held[w], k), BlocksHeld)
  BY DropDict DEF WorkersOK
<1> QED BY <1>1 DEF WorkersOK

-----------------------------------------------------------------------------
(* Types                                                                   *)

\* An operation is in the state its label says.
LEMMA OpKinds ==
  ASSUME TypeOK, NEW t \in Threads
  PROVE  /\ op[t] = Idle <=> op[t].at = "idle"
         /\ op[t].at \in {"call", "admitted", "stored"} => op[t] \in Putting
         /\ op[t].at = "failed" => op[t] \in Fallen
         /\ op[t].at = "lower" => op[t] \in Lowering
         /\ op[t].at = "delete" => op[t] \in Deleting
<1>1. op[t] \in Operations
  BY DEF TypeOK
<1> QED BY <1>1 DEF Operations, Idle, Putting, Fallen, Lowering, Deleting

LEMMA PuttingFields ==
  ASSUME TypeOK, NEW t \in Threads, op[t].at \in {"call", "admitted", "stored"}
  PROVE  /\ op[t].peer \in W /\ op[t].key \in Mine /\ op[t].size \in Lengths
         /\ op[t].size \in Nat
         /\ op[t].again \in BOOLEAN /\ op[t].spill \in BOOLEAN
         /\ OpBlock(t) \in W \X Mine
<1>1. op[t] \in Putting
  BY OpKinds
<1> QED BY <1>1, LengthsNat DEF Putting, OpBlock

\* A step of thread t to a state of the right type.
LEMMA OpTyped ==
  ASSUME TypeOK, NEW t \in Threads, NEW s \in Operations, Goto(t, s)
  PROVE  /\ op' \in [Threads -> Operations]
         /\ op'[t] = s
         /\ \A u \in Threads \ {t} : op'[u] = op[u]
  BY DEF TypeOK, Goto

LEMMA ProbeKinds ==
  ASSUME TypeOK
  PROVE  /\ probe.at = "ask" => probe \in Asking
         /\ probe.at = "note" => probe \in Noting
  BY DEF TypeOK, Asking, Noting

LEMMA AfterOK ==
  ASSUME NEW i \in DOMAIN Workers PROVE After(i) \in DOMAIN Workers
  BY PlacementConstants DEF After

LEMMA ThreadSets ==
  /\ Writers \subseteq Threads /\ Deleters \subseteq Threads /\ Spillers \subseteq Threads
  /\ Writers \cup Spillers \subseteq Threads
  BY DEF Threads

\* What a thread goes on to do, by the step it takes.
LEMMA IdleTyped == Idle \in Operations
  BY DEF Operations

LEMMA FailedTyped ==
  ASSUME NEW k \in Mine, NEW n \in Lengths
  PROVE  Failed(k, n) \in Operations
  BY DEF Failed, Fallen, Operations

LEMMA RefusedTyped ==
  ASSUME TypeOK, NEW t \in Threads, op[t].at \in {"call", "admitted", "stored"}
  PROVE  Refused(op[t]) \in Operations
  BY PuttingFields, IdleTyped, FailedTyped DEF Refused

LEMMA DelsTyped ==
  ASSUME TypeOK, NEW t \in Threads, NEW todo \in SUBSET (W \X Mine), SendDels(t, todo)
  PROVE  /\ op' \in [Threads -> Operations]
         /\ \A u \in Threads \ {t} : op'[u] = op[u]
         /\ op'[t] = IF todo = {} THEN Idle ELSE [at |-> "delete", todo |-> todo]
<1> DEFINE s == IF todo = {} THEN Idle ELSE [at |-> "delete", todo |-> todo]
<1>1. s \in Operations
  BY DEF Operations, Deleting
<1>2. Goto(t, s)
  BY DEF SendDels
<1> QED BY <1>1, <1>2, OpTyped

LEMMA AwayTyped ==
  ASSUME DictionariesOK, NEW K PROVE Away(K) \in SUBSET (W \X Mine)
  BY DEF Away, DictionariesOK, IsDict

\* The requests that calls leave behind.
LEMMA AbandonedTyped ==
  ASSUME TypeOK, NEW t \in Threads, op[t].at \in {"call", "admitted"}, Abandoned(t)
  PROVE  pending' \subseteq Requests
<1>1. pending \subseteq Requests
  BY DEF TypeOK, WorkersOK
<1>2. [worker |-> op[t].peer, key |-> op[t].key, size |-> op[t].size, owner |-> "node"]
        \in Requests
  BY PuttingFields DEF Requests
<1> QED BY <1>1, <1>2 DEF Abandoned

LEMMA TypeWriter ==
  ASSUME TypeOK, NEW t \in Writers, WriterStep(t) PROVE TypeOK'
<1>0. t \in Threads /\ Mine \subseteq Keys
  BY ThreadSets, PlacementConstants
<1> SUFFICES ASSUME NEW k \in Mine, NEW n \in Lengths, PutLocal(t, k, n) \/ PutSelect(t, k, n)
             PROVE  TypeOK'
  BY DEF WriterStep
<1>1. CASE PutLocal(t, k, n)
  <2>1. IsDict(index', W \cup {"local"}) /\ IsDict(sizes', Lengths)
    BY <1>0, <1>1, StoreDict DEF PutLocal, TypeOK, DictionariesOK
  <2>2. /\ DOMAIN index' = DOMAIN index \cup {k} /\ DOMAIN sizes' = DOMAIN sizes \cup {k}
        /\ \A j \in DOMAIN index \ {k} : index'[j] = index[j]
    BY <1>1 DEF PutLocal, Store
  <2>3. DictionariesOK'
    BY <2>1, <2>2 DEF DictionariesOK, TypeOK
  <2> QED BY <1>1, <2>3 DEF PutLocal, TypeOK, WorkersOK, workers
<1>2. CASE PutSelect(t, k, n)
  <2>1. Select(n) \subseteq W
    BY DEF Select, W
  <2>2. PICK s \in IF Select(n) = {} THEN {Failed(k, n)}
                   ELSE {[at |-> "call", key |-> k, size |-> n, peer |-> w,
                          again |-> FALSE, spill |-> FALSE] : w \in Select(n)} : Goto(t, s)
    BY <1>2 DEF PutSelect
  <2>3. s \in Operations
    <3>1. CASE Select(n) = {}
      BY <2>2, <3>1, FailedTyped
    <3>2. CASE Select(n) # {}
      <4>1. PICK w \in Select(n) : s = [at |-> "call", key |-> k, size |-> n, peer |-> w,
                                        again |-> FALSE, spill |-> FALSE]
        BY <2>2, <3>2
      <4> QED BY <2>1, <4>1 DEF Operations, Putting
    <3> QED BY <3>1, <3>2
  <2>4. op' \in [Threads -> Operations]
    BY <1>0, <2>2, <2>3, OpTyped
  <2> QED BY <1>2, <2>4 DEF PutSelect, TypeOK, WorkersOK, DictionariesOK, workers, dictionaries
<1> QED BY <1>1, <1>2

LEMMA TypeSpiller ==
  ASSUME TypeOK, NEW t \in Spillers, SpillerStep(t) PROVE TypeOK'
<1>0. t \in Threads
  BY ThreadSets
<1>1. PICK k \in Mine : SpillSelect(t, k)
  BY DEF SpillerStep
<1>2. PICK w \in Select(sizes[k]) :
            Goto(t, [at |-> "call", key |-> k, size |-> sizes[k], peer |-> w,
                     again |-> FALSE, spill |-> TRUE])
  BY <1>1 DEF SpillSelect
<1>3. w \in W /\ sizes[k] \in Lengths
  BY <1>1 DEF Select, W, SpillSelect, TypeOK, DictionariesOK, IsDict
<1>4. [at |-> "call", key |-> k, size |-> sizes[k], peer |-> w,
       again |-> FALSE, spill |-> TRUE] \in Operations
  BY <1>3 DEF Operations, Putting
<1>5. op' \in [Threads -> Operations]
  BY <1>0, <1>2, <1>4, OpTyped
<1> QED BY <1>1, <1>5 DEF SpillSelect, TypeOK, WorkersOK, DictionariesOK, workers, dictionaries

LEMMA TypeGoesOn ==
  ASSUME TypeOK, NEW t \in Threads, PutGoesOn(t) PROVE TypeOK'
<1> USE DEF workers, dictionaries
<1>1. CASE PutAdmitted(t)
  <2>1. op[t].at = "call" /\ Goto(t, [op[t] EXCEPT !.at = "admitted"])
    BY <1>1 DEF PutAdmitted, Asks
  <2>2. [op[t] EXCEPT !.at = "admitted"] \in Operations
    BY <2>1, OpKinds DEF Operations, Putting
  <2>3. op' \in [Threads -> Operations]
    BY <2>1, <2>2, OpTyped
  <2> QED BY <1>1, <2>3 DEF PutAdmitted, TypeOK, WorkersOK, DictionariesOK
<1>2. CASE PutStored(t)
  <2>1. op[t].at = "admitted" /\ Goto(t, [op[t] EXCEPT !.at = "stored", !.again = FALSE])
    BY <1>2 DEF PutStored
  <2>2. [op[t] EXCEPT !.at = "stored", !.again = FALSE] \in Operations
    BY <2>1, OpKinds DEF Operations, Putting
  <2>3. op' \in [Threads -> Operations]
    BY <2>1, <2>2, OpTyped
  <2>4. WorkersOK'
    BY <1>2, <2>1, PuttingFields, WorkersStore DEF PutStored, TypeOK, WorkersOK
  <2> QED BY <1>2, <2>3, <2>4 DEF PutStored, TypeOK, DictionariesOK
<1>3. CASE PutRefused(t) \/ PutGuarded(t)
  <2>1. op[t].at = "call" /\ Goto(t, Refused(op[t]))
    BY <1>3 DEF PutRefused, PutGuarded, Asks
  <2>2. op' \in [Threads -> Operations]
    BY <2>1, RefusedTyped, OpTyped
  <2> QED BY <1>3, <2>2 DEF PutRefused, PutGuarded, TypeOK, WorkersOK, DictionariesOK
<1>4. CASE PutRetried(t)
  <2>1. /\ op[t].at \in {"call", "admitted"}
        /\ Goto(t, [op[t] EXCEPT !.at = "call", !.again = TRUE])
    BY <1>4 DEF PutRetried
  <2>2. [op[t] EXCEPT !.at = "call", !.again = TRUE] \in Operations
    BY <2>1, OpKinds DEF Operations, Putting
  <2>3. op' \in [Threads -> Operations] /\ pending' \subseteq Requests
    BY <1>4, <2>1, <2>2, OpTyped, AbandonedTyped DEF PutRetried
  <2> QED BY <1>4, <2>3 DEF PutRetried, TypeOK, WorkersOK, DictionariesOK
<1>5. CASE PutRaises(t)
  <2>1. op[t].at \in {"call", "admitted"} /\ Goto(t, Idle)
    BY <1>5 DEF PutRaises
  <2>2. op' \in [Threads -> Operations] /\ pending' \subseteq Requests
    BY <1>5, <2>1, IdleTyped, OpTyped, AbandonedTyped DEF PutRaises
  <2> QED BY <1>5, <2>2 DEF PutRaises, TypeOK, WorkersOK, DictionariesOK
<1>6. CASE PutIndexed(t)
  <2> DEFINE w == op[t].peer
             s == [at |-> "lower", peer |-> w, free |-> Max0(peer[w].free - op[t].size)]
  <2>1. op[t].at = "stored" /\ Goto(t, s)
    BY <1>6 DEF PutIndexed
  <2>2. w \in W /\ op[t].key \in Mine /\ op[t].key \in Keys /\ op[t].size \in Lengths
    BY <2>1, PuttingFields, PlacementConstants
  <2>3. peer[w].free \in Nat /\ op[t].size \in Nat
    BY <2>2, LengthsNat DEF TypeOK
  <2>4. Max0(peer[w].free - op[t].size) \in Nat
    BY <2>3 DEF Max0
  <2>5. s \in Operations
    BY <2>2, <2>4 DEF Operations, Lowering
  <2>6. op' \in [Threads -> Operations]
    BY <2>1, <2>5, OpTyped
  <2>7. IsDict(index', W \cup {"local"}) /\ IsDict(sizes', Lengths)
    <3>1. IsDict(Store(index, op[t].key, w), W \cup {"local"})
      BY <2>2, StoreDict DEF TypeOK, DictionariesOK
    <3>2. IsDict(Store(sizes, op[t].key, op[t].size), Lengths)
      BY <2>2, StoreDict DEF TypeOK, DictionariesOK
    <3> QED BY <1>6, <3>1, <3>2 DEF PutIndexed, TypeOK, DictionariesOK
  <2>8. /\ DOMAIN index' \subseteq Mine
        /\ \A k \in DOMAIN index' : index'[k] = "local" => k \in DOMAIN sizes'
    <3>1. /\ DOMAIN index' = DOMAIN index \cup {op[t].key} /\ index'[op[t].key] = w
          /\ \A k \in DOMAIN index \ {op[t].key} : index'[k] = index[k]
      BY <1>6 DEF PutIndexed, Store
    <3>2. DOMAIN sizes \subseteq DOMAIN sizes'
      BY <1>6 DEF PutIndexed, Store
    <3>3. w # "local"
      BY <2>2, PlacementConstants
    <3> QED BY <2>2, <3>1, <3>2, <3>3 DEF TypeOK, DictionariesOK
  <2> QED BY <1>6, <2>6, <2>7, <2>8 DEF PutIndexed, TypeOK, WorkersOK, DictionariesOK
<1>7. CASE PutLower(t)
  <2>1. op[t].at = "lower" /\ Goto(t, Idle)
    BY <1>7 DEF PutLower
  <2>2. op' \in [Threads -> Operations]
    BY <2>1, IdleTyped, OpTyped
  <2>3. op[t].peer \in W /\ op[t].free \in Nat
    BY <2>1, OpKinds DEF Lowering
  <2>4. peer' \in [W -> [online : BOOLEAN, free : Nat]]
    BY <1>7, <2>3 DEF PutLower, TypeOK
  <2> QED BY <1>7, <2>2, <2>4 DEF PutLower, TypeOK, WorkersOK, DictionariesOK
<1>8. CASE PutFallsBack(t)
  <2>1. op' \in [Threads -> Operations]
    BY <1>8, IdleTyped, OpTyped DEF PutFallsBack
  <2> QED BY <1>8, <2>1 DEF PutFallsBack, TypeOK, WorkersOK, DictionariesOK
<1> QED BY <1>1, <1>2, <1>3, <1>4, <1>5, <1>6, <1>7, <1>8 DEF PutGoesOn

LEMMA TypeDeleter ==
  ASSUME TypeOK, NEW t \in Deleters, DeleterStep(t) PROVE TypeOK'
<1> USE DEF workers, dictionaries
<1>0. t \in Threads /\ Mine \subseteq Keys /\ DictionariesOK
  BY ThreadSets, PlacementConstants DEF TypeOK
<1>1. ASSUME NEW k \in Mine, Delete(t, k) PROVE TypeOK'
  <2>1. op' \in [Threads -> Operations]
    BY <1>0, <1>1, AwayTyped, DelsTyped DEF Delete
  <2>2. /\ IsDict(index', W \cup {"local"}) /\ IsDict(sizes', Lengths)
    BY <1>0, <1>1, DropDict DEF Delete, DictionariesOK
  <2>3. DictionariesOK'
    BY <1>0, <1>1, <2>2 DEF Delete, DictionariesOK, Drop
  <2> QED BY <1>1, <2>1, <2>3 DEF Delete, TypeOK, WorkersOK
<1>2. CASE Clear(t)
  <2>1. op' \in [Threads -> Operations]
    BY <1>0, <1>2, AwayTyped, DelsTyped DEF Clear
  <2>2. DictionariesOK'
    BY <1>2, EmptyDict DEF Clear, DictionariesOK, Empty
  <2> QED BY <1>2, <2>1, <2>2 DEF Clear, TypeOK, WorkersOK
<1>3. ASSUME NEW b \in W \X Mine, DelDone(t, b) \/ DelLost(t, b) PROVE TypeOK'
  <2>1. op[t].todo \ {b} \in SUBSET (W \X Mine)
    BY <1>0, <1>3, OpKinds DEF DelDone, DelLost, Deleting
  <2>2. op' \in [Threads -> Operations]
    BY <1>0, <1>3, <2>1, DelsTyped DEF DelDone, DelLost
  <2>3. WorkersOK'
    BY <1>3, WorkersDrop DEF DelDone, DelLost, TypeOK, WorkersOK
  <2> QED BY <1>3, <2>2, <2>3 DEF DelDone, DelLost, TypeOK, DictionariesOK
<1> QED BY <1>1, <1>2, <1>3 DEF DeleterStep

\* The steps of the probe loop.
LEMMA TypeProbe ==
  ASSUME TypeOK, ProbeLoop PROVE TypeOK'
<1> USE DEF workers, dictionaries
<1>1. CASE ProbeAsk
  <2>1. probe.next \in DOMAIN Workers
    BY <1>1, ProbeKinds DEF ProbeAsk, Asking
  <2>2. Workers[probe.next] \in W /\ WorkersOK
    BY <2>1 DEF W, TypeOK
  <2>3. probe' \in Asking \cup Noting
    BY <1>1, <2>1, <2>2, AfterOK, FreeNat DEF ProbeAsk, Asking, Noting
  <2> QED BY <1>1, <2>3 DEF ProbeAsk, TypeOK, WorkersOK, DictionariesOK
<1>2. CASE ProbeNote
  <2>1. probe.next \in DOMAIN Workers /\ probe.free \in Nat
    BY <1>2, ProbeKinds DEF ProbeNote, Noting
  <2>2. Workers[probe.next] \in W
    BY <2>1 DEF W
  <2>3. probe' \in Asking
    BY <1>2, <2>1, AfterOK DEF ProbeNote, Asking
  <2>4. peer' \in [W -> [online : BOOLEAN, free : Nat]]
    BY <1>2, <2>1, <2>2 DEF ProbeNote, TypeOK
  <2> QED BY <1>2, <2>3, <2>4 DEF ProbeNote, TypeOK, WorkersOK, DictionariesOK
<1> QED BY <1>1, <1>2 DEF ProbeLoop

LEMMA TypePending ==
  ASSUME TypeOK, NEW x \in pending, PendingStored(x) PROVE TypeOK'
<1>1. /\ x.worker \in W /\ x.key \in Mine \cup Theirs /\ x.size \in Lengths
      /\ x.owner \in {"node", "other"} /\ pending \subseteq Requests
  BY DEF TypeOK, WorkersOK, Requests
<1>2. WorkersOK'
  BY <1>1, WorkersStore DEF PendingStored, TypeOK
<1> QED BY <1>2 DEF PendingStored, TypeOK, DictionariesOK, dictionaries

LEMMA TypeBeacon ==
  ASSUME TypeOK, NEW w \in W, Beacon(w) \/ Expires(w) PROVE TypeOK'
<1>1. peer' \in [W -> [online : BOOLEAN, free : Nat]]
  BY DEF Beacon, Expires, TypeOK
<1> QED BY <1>1 DEF Beacon, Expires, TypeOK, WorkersOK, DictionariesOK, workers, dictionaries

LEMMA TypeUnsteady ==
  ASSUME TypeOK, NEW w \in Unsteady,
         \/ \E k \in Theirs, n \in Lengths : OtherAdmitted(w, k, n)
         \/ \E k \in Mine \cup Theirs : StrayDelete(w, k)
         \/ Stop(w) \/ Start(w)
  PROVE  TypeOK'
<1> USE DEF workers, dictionaries
<1>0. w \in W
  BY PlacementConstants
<1>1. ASSUME NEW k \in Theirs, NEW n \in Lengths, OtherAdmitted(w, k, n) PROVE TypeOK'
  <2>1. [worker |-> w, key |-> k, size |-> n, owner |-> "other"] \in Requests
    BY <1>0 DEF Requests
  <2> QED BY <1>1, <2>1 DEF OtherAdmitted, TypeOK, WorkersOK, DictionariesOK
<1>2. ASSUME NEW k \in Mine \cup Theirs, StrayDelete(w, k) PROVE TypeOK'
  <2>1. WorkersOK'
    BY <1>0, <1>2, WorkersDrop DEF StrayDelete, TypeOK
  <2> QED BY <1>2, <2>1 DEF StrayDelete, TypeOK, DictionariesOK
<1>3. CASE Stop(w)
  <2>1. ASSUME NEW t \in Threads PROVE op'[t] \in Operations
    <3>1. CASE op[t].at = "admitted"
      <4>1. op[t] \in Putting
        BY <3>1, OpKinds
      <4>2. [op[t] EXCEPT !.at = "call", !.again = TRUE] \in Putting
        BY <4>1 DEF Putting
      <4> QED BY <1>3, <4>1, <4>2, IdleTyped DEF Stop, Operations
    <3>2. CASE op[t].at # "admitted"
      BY <1>3, <3>2 DEF Stop, TypeOK
    <3> QED BY <3>1, <3>2
  <2>2. op' \in [Threads -> Operations]
    BY <1>3, <2>1 DEF Stop
  <2>3. WorkersOK'
    BY <1>3, EmptyDict DEF Stop, TypeOK, WorkersOK
  <2> QED BY <1>3, <2>2, <2>3 DEF Stop, TypeOK, DictionariesOK
<1>4. CASE Start(w)
  BY <1>0, <1>4 DEF Start, TypeOK, WorkersOK, DictionariesOK
<1> QED BY <1>1, <1>2, <1>3, <1>4

LEMMA TypeStep ==
  ASSUME TypeOK, [Next]_vars PROVE TypeOK'
<1>1. CASE UNCHANGED vars
  BY <1>1 DEF vars, TypeOK, WorkersOK, DictionariesOK
<1>2. CASE Next
  <2>1. Unsteady \subseteq W
    BY PlacementConstants
  <2>2. ASSUME NEW w \in Unsteady, Expires(w) PROVE TypeOK'
    BY <2>1, <2>2, TypeBeacon
  <2>3. ASSUME NEW w \in W, Beacon(w) PROVE TypeOK'
    BY <2>3, TypeBeacon
  <2> QED BY <1>2, <2>2, <2>3, ThreadSets, TypeWriter, TypeSpiller, TypeGoesOn, TypeDeleter,
             TypeProbe, TypePending, TypeUnsteady DEF Next
<1> QED BY <1>1, <1>2

\* Types hold, and no estimate is ever negative, whatever threads, workers and
\* other nodes do (put, spill, _probe).
THEOREM TypeCorrect == Spec => []TypeOK
<1>1. Init => TypeOK
  <2> SUFFICES ASSUME Init PROVE TypeOK
    OBVIOUS
  <2>1. WorkersOK
    BY EmptyDict DEF Init, WorkersOK
  <2>2. DictionariesOK
    BY EmptyDict DEF Init, DictionariesOK, Empty
  <2>3. probe \in Asking
    BY PlacementConstants DEF Init, Asking
  <2> QED BY <2>1, <2>2, <2>3, IdleTyped DEF Init, TypeOK
<1> QED BY <1>1, TypeStep, PTL DEF Spec

\* The history takes no part in the steps.
LEMMA HistoryOnly == HSpec => Spec
<1>1. HInit => Init
  BY DEF HInit
<1>2. [HNext]_hvars => [Next]_vars
  BY DEF HNext, HWriter, HPutGoesOn, HDeleter, HPending, HUnsteady, Next, WriterStep, PutGoesOn,
         DeleterStep, ProbeLoop, hvars, vars
<1> QED BY <1>1, <1>2, PTL DEF HSpec, Spec

-----------------------------------------------------------------------------
(* The index and the workers                                               *)

\* A PUT that has been answered is on its worker, unless somebody touched it.
StoredHeld ==
    \A t \in Threads :
        op[t].at = "stored" /\ OpBlock(t) \notin touched =>
            /\ op[t].key \in DOMAIN held[op[t].peer]
            /\ held[op[t].peer][op[t].key] = Block("node", op[t].size)

\* Where two PUTs of one block have been answered, one has touched the other's.
TwoStored ==
    \A t, u \in Threads :
        t # u /\ op[t].at = "stored" /\ op[u].at = "stored" /\ OpBlock(t) = OpBlock(u) =>
            OpBlock(t) \in touched

Agreement == StoredHeld /\ TwoStored /\ IndexedHeld /\ HeldIndexed

\* The same threads have had their PUTs answered, before and after a step.
StoredAlike ==
    \A t \in Threads : /\ op'[t].at = "stored" <=> op[t].at = "stored"
                       /\ op[t].at = "stored" => op'[t] = op[t]

\* A step that enters nothing new in the index, and changes the workers' blocks
\* only where the history says so.
LEMMA ChangesNoted ==
  ASSUME TypeOK, Agreement, NEW bs, StoredAlike,
         \A b \in touched \cup bs : Wants(b)' => b \in touched',
         \A k \in DOMAIN index' : index'[k] # "local" =>
             /\ k \in DOMAIN index /\ index[k] = index'[k]
             /\ k \in DOMAIN sizes => k \in DOMAIN sizes' /\ sizes'[k] = sizes[k],
         \A w \in W : \A k \in DOMAIN held[w] \cap Mine : <<w, k>> \notin bs =>
             k \in DOMAIN held'[w] /\ held'[w][k] = held[w][k]
  PROVE  StoredHeld' /\ TwoStored' /\ IndexedHeld'
<1>1. ASSUME NEW t \in Threads, op'[t].at = "stored"
      PROVE  /\ op[t].at = "stored" /\ op'[t] = op[t] /\ OpBlock(t)' = OpBlock(t)
             /\ Wants(OpBlock(t))'
  BY <1>1 DEF StoredAlike, OpBlock, Wants, StoredBy
<1>2. StoredHeld'
  <2> SUFFICES ASSUME NEW t \in Threads, op'[t].at = "stored", OpBlock(t)' \notin touched'
               PROVE  /\ op'[t].key \in DOMAIN held'[op'[t].peer]
                      /\ held'[op'[t].peer][op'[t].key] = Block("node", op'[t].size)
    BY DEF StoredHeld, Block
  <2>1. op[t].at = "stored" /\ op'[t] = op[t] /\ OpBlock(t) \notin touched \cup bs
    BY <1>1
  <2>2. op[t].peer \in W /\ op[t].key \in Mine
    BY <2>1, PuttingFields
  <2>3. /\ op[t].key \in DOMAIN held[op[t].peer]
        /\ held[op[t].peer][op[t].key] = Block("node", op[t].size)
    BY <2>1 DEF Agreement, StoredHeld
  <2> QED BY <2>1, <2>2, <2>3 DEF OpBlock
<1>3. TwoStored'
  BY <1>1 DEF Agreement, TwoStored
<1>4. IndexedHeld'
  <2> SUFFICES ASSUME NEW k \in DOMAIN index', index'[k] # "local",
                      <<index'[k], k>> \notin touched',
                      \A t \in Threads : op'[t].at = "stored" =>
                          <<op'[t].peer, op'[t].key>> # <<index'[k], k>>
               PROVE  /\ k \in DOMAIN held'[index'[k]] /\ k \in DOMAIN sizes'
                      /\ held'[index'[k]][k] = Block("node", sizes'[k])
    BY DEF IndexedHeld, Block, StoredBy, OpBlock
  <2>1. k \in DOMAIN index /\ index[k] = index'[k]
    OBVIOUS
  <2>2. index[k] \in W /\ k \in Mine
    BY <2>1 DEF TypeOK, DictionariesOK, IsDict
  <2>3. <<index[k], k>> \notin touched \cup bs
    <3>1. \A b : b = <<index[k], k>> => Wants(b)'
      BY <2>1 DEF Wants
    <3> QED BY <2>1, <3>1
  <2>4. ~(\E t \in Threads : StoredBy(t, <<index[k], k>>))
    BY <2>1 DEF StoredAlike, StoredBy, OpBlock
  <2>5. /\ k \in DOMAIN held[index[k]] /\ k \in DOMAIN sizes
        /\ held[index[k]][k] = Block("node", sizes[k])
    BY <2>1, <2>3, <2>4 DEF Agreement, IndexedHeld
  <2> QED BY <2>1, <2>2, <2>3, <2>5
<1> QED BY <1>2, <1>3, <1>4

ToDelete(b) == \E t \in Threads : op[t].at = "delete" /\ b \in op[t].todo

\* A step that accounts for every block that workers hold after it.
LEMMA BlocksExplained ==
  ASSUME Agreement,
         \A w \in W : \A k \in DOMAIN held'[w] :
             \/ held'[w][k].owner = "other" \/ <<w, k>> \in left' \/ Wants(<<w, k>>)'
             \/ k \in DOMAIN held[w] /\ held'[w][k] = held[w][k],
         \A w \in W : \A k \in DOMAIN held'[w] :
             <<w, k>> \in left \/ Wants(<<w, k>>) \/ ToDelete(<<w, k>>) =>
                 <<w, k>> \in left' \/ Wants(<<w, k>>)' \/ ToDelete(<<w, k>>)'
  PROVE  HeldIndexed'
<1> SUFFICES ASSUME NEW w \in W, NEW k \in DOMAIN held'[w] PROVE Explained(w, k)'
  BY DEF HeldIndexed
<1>1. ASSUME <<w, k>> \in left' \/ Wants(<<w, k>>)' \/ ToDelete(<<w, k>>)'
      PROVE  Explained(w, k)'
  BY <1>1 DEF Explained, ToDelete
<1>2. CASE k \in DOMAIN held[w] /\ held'[w][k] = held[w][k]
  <2>1. Explained(w, k)
    BY <1>2 DEF Agreement, HeldIndexed
  <2>2. \/ held[w][k].owner = "other"
        \/ <<w, k>> \in left \/ Wants(<<w, k>>) \/ ToDelete(<<w, k>>)
    BY <2>1 DEF Explained, ToDelete
  <2> QED BY <1>1, <1>2, <2>2 DEF Explained
<1>3. CASE held'[w][k].owner = "other"
  BY <1>3 DEF Explained
<1> QED BY <1>1, <1>2, <1>3

\* A step of thread t that leaves blocks, index and history alone.
LEMMA AgreementQuiet ==
  ASSUME TypeOK, Agreement, UNCHANGED <<held, index, sizes, touched, left>>,
         StoredAlike, \A b : ToDelete(b) => ToDelete(b)'
  PROVE  Agreement'
<1>1. StoredHeld' /\ TwoStored' /\ IndexedHeld'
  BY ChangesNoted
<1>2. \A b : Wants(b) => Wants(b)'
  BY DEF Wants, StoredBy, OpBlock, StoredAlike
<1>3. HeldIndexed'
  BY <1>2, BlocksExplained
<1> QED BY <1>1, <1>3 DEF Agreement

\* A thread that goes from one state to another, neither of them at a PUT that
\* has been answered, nor the first at a DEL.
LEMMA OpMoves ==
  ASSUME TypeOK, NEW t \in Threads, NEW s, Goto(t, s),
         op[t].at \notin {"stored", "delete"}, s.at # "stored"
  PROVE  StoredAlike /\ \A b : ToDelete(b) => ToDelete(b)'
<1>1. op'[t] = s /\ \A u \in Threads \ {t} : op'[u] = op[u]
  BY DEF TypeOK, Goto
<1> QED BY <1>1 DEF StoredAlike, ToDelete

LEMMA AgreementWriter ==
  ASSUME TypeOK, Agreement, NEW t \in Writers, HWriter(t) PROVE Agreement'
<1>0. t \in Threads /\ Idle.at = "idle"
  BY ThreadSets DEF Idle
<1>1. ASSUME NEW k \in Mine, NEW n \in Lengths, PutLocal(t, k, n),
             touched' = Wanted(touched), left' = left \cup Still(Displaced(k, <<>>))
      PROVE  Agreement'
  <2>1. /\ \A j \in DOMAIN index' : index'[j] # "local" =>
             /\ j # k /\ j \in DOMAIN index /\ index[j] = index'[j]
             /\ j \in DOMAIN sizes => j \in DOMAIN sizes' /\ sizes'[j] = sizes[j]
        /\ \A j \in DOMAIN index \ {k} : j \in DOMAIN index' /\ index'[j] = index[j]
        /\ held' = held /\ op' = op
    BY <1>1 DEF PutLocal, Store, workers
  <2>2. StoredAlike
    BY <2>1 DEF StoredAlike
  <2>3. StoredHeld' /\ TwoStored' /\ IndexedHeld'
    <3>1. \A b \in touched \cup {} : Wants(b)' => b \in touched'
      BY <1>1 DEF Wanted
    <3> QED BY <2>1, <2>2, <3>1, ChangesNoted
  <2>4. ASSUME NEW w \in W, NEW j \in DOMAIN held'[w],
               <<w, j>> \in left \/ Wants(<<w, j>>) \/ ToDelete(<<w, j>>)
        PROVE  <<w, j>> \in left' \/ Wants(<<w, j>>)' \/ ToDelete(<<w, j>>)'
    <3>1. CASE <<w, j>> \in left
      BY <1>1, <3>1
    <3>2. CASE j \in DOMAIN index /\ index[j] = w
      <4>1. CASE j # k
        BY <2>1, <3>2, <4>1 DEF Wants
      <4>2. CASE j = k
        <5>1. <<w, k>> \in Displaced(k, <<>>)
          BY <3>2, <4>2 DEF Displaced
        <5> QED BY <1>1, <2>4, <4>2, <5>1 DEF Still
      <4> QED BY <4>1, <4>2
    <3>3. CASE \E u \in Threads : StoredBy(u, <<w, j>>)
      BY <2>1, <3>3 DEF Wants, StoredBy, OpBlock
    <3>4. CASE ToDelete(<<w, j>>)
      BY <2>1, <3>4 DEF ToDelete
    <3> QED BY <2>4, <3>1, <3>2, <3>3, <3>4 DEF Wants
  <2>5. HeldIndexed'
    BY <2>1, <2>4, BlocksExplained
  <2> QED BY <2>3, <2>5 DEF Agreement
<1>2. ASSUME NEW k \in Mine, NEW n \in Lengths, PutSelect(t, k, n), UNCHANGED <<touched, left>>
      PROVE  Agreement'
  <2>1. PICK s : Goto(t, s) /\ s.at \in {"call", "failed"}
    BY <1>2 DEF PutSelect, Failed
  <2>2. op[t].at = "idle"
    BY <1>0, <1>2 DEF PutSelect
  <2>3. StoredAlike /\ \A b : ToDelete(b) => ToDelete(b)'
    BY <1>0, <2>1, <2>2, OpMoves
  <2> QED BY <1>2, <2>3, AgreementQuiet DEF PutSelect, workers, dictionaries
<1> QED BY <1>1, <1>2 DEF HWriter

LEMMA AgreementSpiller ==
  ASSUME TypeOK, Agreement, NEW t \in Spillers, SpillerStep(t), Same PROVE Agreement'
<1>1. PICK k \in Mine : SpillSelect(t, k)
  BY DEF SpillerStep
<1>2. PICK s : Goto(t, s) /\ s.at = "call"
  BY <1>1 DEF SpillSelect
<1>3. op[t].at = "idle" /\ t \in Threads
  BY <1>1, ThreadSets DEF SpillSelect, Idle
<1>4. StoredAlike /\ \A b : ToDelete(b) => ToDelete(b)'
  BY <1>2, <1>3, OpMoves
<1> QED BY <1>1, <1>4, AgreementQuiet DEF SpillSelect, workers, dictionaries, Same

\* The steps of a put that go from one state to another and no more.
LEMMA AgreementCalls ==
  ASSUME TypeOK, Agreement, NEW t \in Threads, UNCHANGED <<touched, left>>,
         \/ PutAdmitted(t) \/ PutRefused(t) \/ PutRetried(t) \/ PutLower(t)
         \/ PutGuarded(t) \/ PutRaises(t) \/ PutFallsBack(t)
  PROVE  Agreement'
<1>1. /\ op[t].at \in {"call", "admitted", "lower", "failed"}
      /\ UNCHANGED <<held, index, sizes>>
  BY DEF PutAdmitted, PutRefused, PutRetried, PutLower, PutGuarded, PutRaises, PutFallsBack,
         Asks, workers, dictionaries
<1>2. PICK s : Goto(t, s) /\ s.at # "stored"
  <2>1. Idle.at = "idle"
    BY DEF Idle
  <2>2. \A k, n : Failed(k, n).at = "failed"
    BY DEF Failed
  <2>3. Refused(op[t]).at # "stored"
    BY <2>1, <2>2 DEF Refused
  <2>4. CASE PutAdmitted(t) \/ PutRetried(t)
    <3>1. op[t] \in Putting
      BY <2>4, OpKinds DEF PutAdmitted, PutRetried, Asks
    <3>2. /\ [op[t] EXCEPT !.at = "admitted"].at # "stored"
          /\ [op[t] EXCEPT !.at = "call", !.again = TRUE].at # "stored"
      BY <3>1 DEF Putting
    <3> QED BY <2>4, <3>2 DEF PutAdmitted, PutRetried
  <2>5. CASE PutRefused(t) \/ PutGuarded(t)
    BY <2>3, <2>5 DEF PutRefused, PutGuarded
  <2>6. CASE PutLower(t) \/ PutRaises(t) \/ PutFallsBack(t)
    BY <2>1, <2>6 DEF PutLower, PutRaises, PutFallsBack
  <2> QED BY <2>4, <2>5, <2>6
<1>3. StoredAlike /\ \A b : ToDelete(b) => ToDelete(b)'
  BY <1>1, <1>2, OpMoves
<1> QED BY <1>1, <1>3, AgreementQuiet

LEMMA AgreementStored ==
  ASSUME TypeOK, Agreement, NEW t \in Threads, PutStored(t), Changes(StoredTouches(t), left)
  PROVE  Agreement'
<1> DEFINE w == op[t].peer
           k == op[t].key
           b == OpBlock(t)
<1>1. op[t].at = "admitted" /\ w \in W /\ k \in Mine /\ op[t] \in Putting
  BY PuttingFields, OpKinds DEF PutStored
<1>2. /\ op'[t].at = "stored" /\ op'[t].peer = w /\ op'[t].key = k /\ op'[t].size = op[t].size
      /\ \A u \in Threads \ {t} : op'[u] = op[u]
      /\ op \in [Threads -> Operations]
  BY <1>1 DEF PutStored, Goto, TypeOK, Putting
<1>3. /\ held'[w] = Store(held[w], k, Block("node", op[t].size))
      /\ \A v \in W \ {w} : held'[v] = held[v]
  BY <1>1 DEF PutStored, TypeOK, WorkersOK
<1>4. /\ DOMAIN held'[w] = DOMAIN held[w] \cup {k}
      /\ held'[w][k] = Block("node", op[t].size)
      /\ \A j \in DOMAIN held[w] \ {k} : held'[w][j] = held[w][j]
  BY <1>3 DEF Store
<1>5. UNCHANGED <<index, sizes>> /\ touched' = Wanted(StoredTouches(t)) /\ left' = Still(left)
  BY DEF PutStored, dictionaries, Changes
<1>6. b = <<w, k>>
  BY DEF OpBlock
<1>7. \A c : c # b /\ c \notin touched' /\ Wants(c)' => c \notin touched
  BY <1>5 DEF Wanted, StoredTouches
<1>8. \A u \in Threads : OpBlock(u)' = OpBlock(u)
  BY <1>2 DEF OpBlock
<1>9. \A u \in Threads : op'[u].at = "stored" => Wants(OpBlock(u))'
  BY DEF Wants, StoredBy
<1>10. \A c : c = b => Wants(c)'
  BY <1>2, <1>6, <1>8 DEF Wants, StoredBy
<1>11. StoredHeld'
  <2> SUFFICES ASSUME NEW u \in Threads, op'[u].at = "stored", OpBlock(u)' \notin touched'
               PROVE  /\ op'[u].key \in DOMAIN held'[op'[u].peer]
                      /\ held'[op'[u].peer][op'[u].key] = Block("node", op'[u].size)
    BY DEF StoredHeld, Block
  <2>1. CASE u = t
    BY <1>2, <1>4, <2>1
  <2>2. CASE u # t
    <3>1. op'[u] = op[u] /\ op[u].at = "stored" /\ OpBlock(u) \notin touched'
      BY <1>2, <1>8, <2>2
    <3>2. OpBlock(u) # b
      <4>1. ASSUME OpBlock(u) = b PROVE FALSE
        <5>1. StoredBy(u, b)
          BY <3>1, <4>1 DEF StoredBy
        <5>2. b \in StoredTouches(t)
          BY <2>2, <5>1 DEF StoredTouches
        <5>3. \A c : c = b => Wants(c)'
          BY <1>10
        <5> QED BY <1>5, <3>1, <4>1, <5>2, <5>3 DEF Wanted
      <4> QED BY <4>1
    <3>3. OpBlock(u) \notin touched
      BY <1>7, <1>8, <1>9, <3>1, <3>2
    <3>4. /\ op[u].key \in DOMAIN held[op[u].peer] /\ op[u].peer \in W
          /\ held[op[u].peer][op[u].key] = Block("node", op[u].size)
      BY <3>1, <3>3, PuttingFields DEF Agreement, StoredHeld
    <3> QED BY <1>3, <1>4, <1>6, <3>1, <3>2, <3>4 DEF OpBlock
  <2> QED BY <2>1, <2>2
<1>12. TwoStored'
  <2> SUFFICES ASSUME NEW u \in Threads, NEW v \in Threads, u # v, op'[u].at = "stored",
                      op'[v].at = "stored", OpBlock(u)' = OpBlock(v)'
               PROVE  OpBlock(u)' \in touched'
    BY DEF TwoStored
  <2>1. OpBlock(u) = OpBlock(v) /\ Wants(OpBlock(u))'
    BY <1>8, <1>9
  <2>2. CASE u = t \/ v = t
    <3>1. \E x \in Threads \ {t} : StoredBy(x, b)
      BY <1>2, <2>1, <2>2 DEF StoredBy
    <3>2. OpBlock(u) = b /\ b \in StoredTouches(t)
      BY <2>1, <2>2, <3>1 DEF StoredTouches
    <3> QED BY <1>5, <1>8, <2>1, <3>2 DEF Wanted
  <2>3. CASE u # t /\ v # t
    <3>1. OpBlock(u) \in touched
      BY <1>2, <2>1, <2>3 DEF Agreement, TwoStored
    <3>2. OpBlock(u) = b => b \in StoredTouches(t)
      BY <1>2, <2>3 DEF StoredTouches, StoredBy
    <3>3. OpBlock(u) \in StoredTouches(t)
      BY <3>1, <3>2 DEF StoredTouches
    <3> QED BY <1>5, <1>8, <2>1, <3>3 DEF Wanted
  <2> QED BY <2>2, <2>3
<1>13. IndexedHeld'
  <2> SUFFICES ASSUME NEW j \in DOMAIN index, index[j] # "local",
                      <<index[j], j>> \notin touched',
                      \A u \in Threads : op'[u].at = "stored" =>
                          <<op'[u].peer, op'[u].key>> # <<index[j], j>>
               PROVE  /\ j \in DOMAIN held'[index[j]] /\ j \in DOMAIN sizes
                      /\ held'[index[j]][j] = Block("node", sizes[j])
    BY <1>5 DEF IndexedHeld, Block, StoredBy, OpBlock
  <2>1. <<index[j], j>> # b
    BY <1>2, <1>6
  <2>2. <<index[j], j>> \notin touched
    <3>1. \A c : c = <<index[j], j>> => Wants(c)'
      BY <1>5 DEF Wants
    <3> QED BY <1>7, <2>1, <3>1
  <2>3. \A u \in Threads : ~StoredBy(u, <<index[j], j>>)
    BY <1>1, <1>2 DEF StoredBy, OpBlock
  <2>4. /\ j \in DOMAIN held[index[j]] /\ j \in DOMAIN sizes /\ index[j] \in W
        /\ held[index[j]][j] = Block("node", sizes[j])
    BY <2>2, <2>3 DEF Agreement, IndexedHeld, TypeOK, DictionariesOK, IsDict
  <2> QED BY <1>3, <1>4, <1>6, <2>1, <2>4
<1>14. HeldIndexed'
  <2>2. \A v \in W : \A j \in DOMAIN held'[v] :
            \/ Wants(<<v, j>>)'
            \/ j \in DOMAIN held[v] /\ held'[v][j] = held[v][j]
    BY <1>3, <1>4, <1>6, <1>10
  <2>3. \A c : Wants(c) => Wants(c)'
    BY <1>1, <1>2, <1>5 DEF Wants, StoredBy, OpBlock
  <2>4. \A c : ToDelete(c) => ToDelete(c)'
    BY <1>1, <1>2 DEF ToDelete
  <2>5. \A v \in W : \A j \in DOMAIN held'[v] : <<v, j>> \in left => <<v, j>> \in left'
    BY <1>5 DEF Still
  <2> QED BY <2>2, <2>3, <2>4, <2>5, BlocksExplained
<1> QED BY <1>11, <1>12, <1>13, <1>14 DEF Agreement

LEMMA AgreementIndexed ==
  ASSUME TypeOK, Agreement, NEW t \in Threads, PutIndexed(t),
         touched' = Wanted(IndexedTouches(t)),
         left' = (left \cup Still(Displaced(op[t].key, OpBlock(t)))) \ {OpBlock(t)}
  PROVE  Agreement'
<1> DEFINE w == op[t].peer
           k == op[t].key
           b == OpBlock(t)
<1>1. op[t].at = "stored" /\ w \in W /\ k \in Mine /\ b = <<w, k>> /\ w # "local"
  BY PuttingFields, PlacementConstants DEF PutIndexed, OpBlock
<1>2. op'[t].at = "lower" /\ \A u \in Threads \ {t} : op'[u] = op[u]
  BY DEF PutIndexed, Goto, TypeOK
<1>3. /\ DOMAIN index' = DOMAIN index \cup {k} /\ index'[k] = w
      /\ \A j \in DOMAIN index \ {k} : index'[j] = index[j]
      /\ held' = held
  BY DEF PutIndexed, Store, workers
<1>4. \A j \in DOMAIN sizes \ {k} : j \in DOMAIN sizes' /\ sizes'[j] = sizes[j]
  BY DEF PutIndexed, Store
<1>5. touched \subseteq IndexedTouches(t)
  BY DEF IndexedTouches
<1>6. \A c : Wants(c)' /\ c \notin touched' => c \notin IndexedTouches(t)
  BY DEF Wanted
<1>7. \A u \in Threads : op'[u].at = "stored" =>
          /\ u # t /\ op'[u] = op[u] /\ OpBlock(u)' = OpBlock(u)
          /\ \A c : c = OpBlock(u) => Wants(c)'
  BY <1>2 DEF OpBlock, Wants, StoredBy
<1>8. StoredHeld'
  <2> SUFFICES ASSUME NEW u \in Threads, op'[u].at = "stored", OpBlock(u)' \notin touched'
               PROVE  /\ op'[u].key \in DOMAIN held[op'[u].peer]
                      /\ held[op'[u].peer][op'[u].key] = Block("node", op'[u].size)
    BY <1>3 DEF StoredHeld, Block
  <2>1. OpBlock(u) \notin touched
    BY <1>5, <1>6, <1>7
  <2> QED BY <1>7, <2>1 DEF Agreement, StoredHeld
<1>9. TwoStored'
  <2> SUFFICES ASSUME NEW u \in Threads, NEW v \in Threads, u # v, op'[u].at = "stored",
                      op'[v].at = "stored", OpBlock(u)' = OpBlock(v)'
               PROVE  OpBlock(u)' \in touched'
    BY DEF TwoStored
  <2>1. OpBlock(u) \in touched
    BY <1>7 DEF Agreement, TwoStored
  <2> QED BY <1>5, <1>6, <1>7, <2>1
<1>10. IndexedHeld'
  <2> SUFFICES ASSUME NEW j \in DOMAIN index', index'[j] # "local",
                      <<index'[j], j>> \notin touched',
                      \A u \in Threads : op'[u].at = "stored" =>
                          <<op'[u].peer, op'[u].key>> # <<index'[j], j>>
               PROVE  /\ j \in DOMAIN held[index'[j]] /\ j \in DOMAIN sizes'
                      /\ held[index'[j]][j] = Block("node", sizes'[j])
    BY <1>3 DEF IndexedHeld, Block, StoredBy, OpBlock
  <2>1. <<index'[j], j>> \notin IndexedTouches(t)
    <3>1. \A c : c = <<index'[j], j>> => Wants(c)'
      BY DEF Wants
    <3> QED BY <1>6, <3>1
  <2>2. CASE j = k
    <3>1. b \notin touched /\ b \notin IndexedTouches(t)
      BY <1>1, <1>3, <1>5, <2>1, <2>2
    <3>2. /\ k \in DOMAIN held[w]
          /\ held[w][k] = Block("node", op[t].size)
      BY <1>1, <3>1 DEF Agreement, StoredHeld
    <3>3. k \in DOMAIN sizes' /\ sizes'[k] = op[t].size
      <4>1. CASE op[t].spill
        BY <3>1, <4>1 DEF IndexedTouches, PutIndexed
      <4>2. CASE ~op[t].spill
        BY <4>2 DEF PutIndexed, Store
      <4> QED BY <4>1, <4>2
    <3> QED BY <1>3, <2>2, <3>2, <3>3
  <2>3. CASE j # k
    <3>1. j \in DOMAIN index /\ index'[j] = index[j]
      BY <1>3, <2>3
    <3>2. <<index[j], j>> \notin touched
      BY <1>5, <2>1, <3>1
    <3>3. \A u \in Threads : ~StoredBy(u, <<index[j], j>>)
      BY <1>1, <1>2, <2>3, <3>1 DEF StoredBy, OpBlock
    <3>4. /\ j \in DOMAIN held[index[j]] /\ j \in DOMAIN sizes
          /\ held[index[j]][j] = Block("node", sizes[j])
      BY <3>1, <3>2, <3>3 DEF Agreement, IndexedHeld
    <3> QED BY <1>4, <2>3, <3>1, <3>4
  <2> QED BY <2>2, <2>3
<1>11. HeldIndexed'
  <2>1. \A c : c = b => Wants(c)'
    BY <1>1, <1>3 DEF Wants
  <2>2. ASSUME NEW v \in W, NEW j \in DOMAIN held'[v],
               <<v, j>> \in left \/ Wants(<<v, j>>) \/ ToDelete(<<v, j>>)
        PROVE  <<v, j>> \in left' \/ Wants(<<v, j>>)' \/ ToDelete(<<v, j>>)'
    <3>1. CASE <<v, j>> = b
      BY <2>1, <3>1
    <3>2. CASE <<v, j>> # b /\ <<v, j>> \in left
      BY <3>2
    <3>3. CASE <<v, j>> # b /\ j \in DOMAIN index /\ index[j] = v
      <4>1. CASE j # k
        BY <1>3, <3>3, <4>1 DEF Wants
      <4>2. CASE j = k
        <5>1. <<v, k>> \in Displaced(k, b)
          BY <1>1, <3>3, <4>2 DEF Displaced
        <5>2. <<v, k>> \in Still(Displaced(k, b))
          BY <2>2, <4>2, <5>1 DEF Still
        <5> QED BY <3>3, <4>2, <5>2
      <4> QED BY <4>1, <4>2
    <3>4. CASE <<v, j>> # b /\ \E u \in Threads : StoredBy(u, <<v, j>>)
      BY <1>2, <3>4 DEF Wants, StoredBy, OpBlock
    <3>5. CASE ToDelete(<<v, j>>)
      BY <1>1, <1>2, <3>5 DEF ToDelete
    <3> QED BY <2>2, <3>1, <3>2, <3>3, <3>4, <3>5 DEF Wants
  <2> QED BY <1>3, <2>2, BlocksExplained
<1> QED BY <1>8, <1>9, <1>10, <1>11 DEF Agreement

\* The DELs that a delete or a clear sends.
LEMMA DelsSent ==
  ASSUME TypeOK, NEW t \in Threads, op[t].at # "stored", NEW todo \in SUBSET (W \X Mine),
         SendDels(t, todo)
  PROVE  /\ StoredAlike
         /\ \A b \in todo : ToDelete(b)'
         /\ \A b : ToDelete(b) => ToDelete(b)' \/ (op[t].at = "delete" /\ b \in op[t].todo \ todo)
<1>1. /\ \A u \in Threads \ {t} : op'[u] = op[u]
      /\ op'[t] = IF todo = {} THEN Idle ELSE [at |-> "delete", todo |-> todo]
  BY DelsTyped
<1>2. op'[t].at # "stored"
  BY <1>1 DEF Idle
<1>3. todo # {} => op'[t].at = "delete" /\ op'[t].todo = todo
  BY <1>1
<1> QED BY <1>1, <1>2, <1>3 DEF StoredAlike, ToDelete

LEMMA AgreementDeleter ==
  ASSUME TypeOK, Agreement, NEW t \in Deleters, HDeleter(t) PROVE Agreement'
<1>0. t \in Threads /\ DictionariesOK
  BY ThreadSets DEF TypeOK
<1>1. ASSUME NEW K, op[t] = Idle, SendDels(t, Away(K)), held' = held,
             DOMAIN index' = DOMAIN index \ K,
             \A j \in DOMAIN index' :
                 /\ index'[j] = index[j]
                 /\ j \in DOMAIN sizes => j \in DOMAIN sizes' /\ sizes'[j] = sizes[j],
             touched' = Wanted(touched), left' = left
      PROVE  Agreement'
  <2>1. op[t].at = "idle" /\ Away(K) \in SUBSET (W \X Mine)
    BY <1>0, <1>1, AwayTyped DEF Idle
  <2>2. /\ StoredAlike
        /\ \A b \in Away(K) : ToDelete(b)'
        /\ \A b : ToDelete(b) => ToDelete(b)'
    BY <1>0, <1>1, <2>1, DelsSent
  <2>3. StoredHeld' /\ TwoStored' /\ IndexedHeld'
    <3>1. \A b \in touched \cup {} : Wants(b)' => b \in touched'
      BY <1>1 DEF Wanted
    <3> QED BY <1>1, <2>2, <3>1, ChangesNoted
  <2>4. ASSUME NEW w \in W, NEW j \in DOMAIN held'[w], Wants(<<w, j>>)
        PROVE  Wants(<<w, j>>)' \/ ToDelete(<<w, j>>)'
    <3>1. CASE j \in DOMAIN index /\ index[j] = w
      <4>1. CASE j \in K
        <5>1. <<w, j>> \in Away(K)
          BY <3>1, <4>1, PlacementConstants DEF Away
        <5> QED BY <2>2, <5>1
      <4>2. CASE j \notin K
        BY <1>1, <3>1, <4>2 DEF Wants
      <4> QED BY <4>1, <4>2
    <3>2. CASE \E u \in Threads : StoredBy(u, <<w, j>>)
      BY <2>2, <3>2 DEF Wants, StoredBy, OpBlock, StoredAlike
    <3> QED BY <2>4, <3>1, <3>2 DEF Wants
  <2>5. HeldIndexed'
    BY <1>1, <2>2, <2>4, BlocksExplained
  <2> QED BY <2>3, <2>5 DEF Agreement
<1>2. ASSUME NEW k \in Mine, Delete(t, k), touched' = Wanted(touched), left' = left
      PROVE  Agreement'
  <2>1. /\ DOMAIN index' = DOMAIN index \ {k}
        /\ \A j \in DOMAIN index' :
             /\ index'[j] = index[j]
             /\ j \in DOMAIN sizes => j \in DOMAIN sizes' /\ sizes'[j] = sizes[j]
        /\ held' = held
    BY <1>2 DEF Delete, Drop, workers
  <2> QED BY <1>1, <1>2, <2>1 DEF Delete
<1>3. ASSUME Clear(t), touched' = Wanted(touched), left' = left PROVE Agreement'
  <2>1. DOMAIN index' = {} /\ DOMAIN index \ Mine = {} /\ held' = held
    BY <1>0, <1>3 DEF Clear, Empty, workers, DictionariesOK
  <2> QED BY <1>1, <1>3, <2>1 DEF Clear
<1>4. ASSUME NEW b \in W \X Mine, DelDone(t, b), Changes(touched \cup {b}, left)
      PROVE  Agreement'
  <2>1. op[t].at = "delete" /\ op[t].todo \ {b} \in SUBSET (W \X Mine)
    BY <1>0, <1>4, OpKinds DEF DelDone, Deleting
  <2>2. /\ StoredAlike
        /\ \A c : ToDelete(c) => ToDelete(c)' \/ c = b
    BY <1>0, <1>4, <2>1, DelsSent DEF DelDone
  <2>3. /\ held'[b[1]] = Drop(held[b[1]], b[2])
        /\ \A w \in W \ {b[1]} : held'[w] = held[w]
        /\ UNCHANGED <<index, sizes>>
    BY <1>4 DEF DelDone, TypeOK, WorkersOK, dictionaries
  <2>4. /\ DOMAIN held'[b[1]] = DOMAIN held[b[1]] \ {b[2]}
        /\ \A j \in DOMAIN held'[b[1]] : held'[b[1]][j] = held[b[1]][j]
    BY <2>3 DEF Drop
  <2>5. StoredHeld' /\ TwoStored' /\ IndexedHeld'
    <3>1. \A c \in touched \cup {b} : Wants(c)' => c \in touched'
      BY <1>4 DEF Changes, Wanted
    <3>2. \A w \in W : \A j \in DOMAIN held[w] \cap Mine : <<w, j>> \notin {b} =>
             j \in DOMAIN held'[w] /\ held'[w][j] = held[w][j]
      BY <2>3, <2>4
    <3> QED BY <2>2, <2>3, <3>1, <3>2, ChangesNoted
  <2>6. HeldIndexed'
    <3>1. \A w \in W : \A j \in DOMAIN held'[w] :
              <<w, j>> # b /\ j \in DOMAIN held[w] /\ held'[w][j] = held[w][j]
      BY <2>3, <2>4
    <3>2. \A c : Wants(c) => Wants(c)'
      BY <2>2, <2>3 DEF Wants, StoredBy, OpBlock, StoredAlike
    <3>3. \A w \in W : \A j \in DOMAIN held'[w] : <<w, j>> \in left => <<w, j>> \in left'
      BY <1>4 DEF Changes, Still
    <3> QED BY <2>2, <3>1, <3>2, <3>3, BlocksExplained
  <2> QED BY <2>5, <2>6 DEF Agreement
<1>5. ASSUME NEW b \in W \X Mine, DelLost(t, b), left' = left \cup Still({b}),
             touched' = touched
      PROVE  Agreement'
  <2>1. op[t].at = "delete" /\ op[t].todo \ {b} \in SUBSET (W \X Mine)
    BY <1>0, <1>5, OpKinds DEF DelLost, Deleting
  <2>2. /\ StoredAlike
        /\ \A c : ToDelete(c) => ToDelete(c)' \/ c = b
    BY <1>0, <1>5, <2>1, DelsSent DEF DelLost
  <2>3. UNCHANGED <<held, index, sizes>>
    BY <1>5 DEF DelLost, workers, dictionaries
  <2>4. StoredHeld' /\ TwoStored' /\ IndexedHeld'
    <3>1. \A c \in touched \cup {} : Wants(c)' => c \in touched'
      BY <1>5
    <3> QED BY <2>2, <2>3, <3>1, ChangesNoted
  <2>5. HeldIndexed'
    <3>1. \A c : Wants(c) => Wants(c)'
      BY <2>2, <2>3 DEF Wants, StoredBy, OpBlock, StoredAlike
    <3>2. \A w \in W : \A j \in DOMAIN held'[w] : <<w, j>> = b => <<w, j>> \in left'
      BY <1>5 DEF Still
    <3> QED BY <1>5, <2>2, <2>3, <3>1, <3>2, BlocksExplained
  <2> QED BY <2>4, <2>5 DEF Agreement
<1> QED BY <1>2, <1>3, <1>4, <1>5 DEF HDeleter

\* Blocks of a worker that change behind the node's back.
LEMMA AgreementBehind ==
  ASSUME TypeOK, Agreement, NEW bs, NEW gone, Changes(touched \cup bs, gone),
         left \subseteq gone, UNCHANGED <<index, sizes>>,
         StoredAlike, \A c : ToDelete(c) => ToDelete(c)',
         \A w \in W : \A k \in DOMAIN held'[w] :
             \/ held'[w][k].owner = "other" \/ <<w, k>> \in gone
             \/ k \in DOMAIN held[w] /\ held'[w][k] = held[w][k],
         \A w \in W : \A k \in DOMAIN held[w] \cap Mine : <<w, k>> \notin bs =>
             k \in DOMAIN held'[w] /\ held'[w][k] = held[w][k]
  PROVE  Agreement'
<1>1. StoredHeld' /\ TwoStored' /\ IndexedHeld'
  <2>1. \A c \in touched \cup bs : Wants(c)' => c \in touched'
    BY DEF Changes, Wanted
  <2> QED BY <2>1, ChangesNoted
<1>2. HeldIndexed'
  <2>1. \A w \in W : \A k \in DOMAIN held'[w] : <<w, k>> \in gone => <<w, k>> \in left'
    BY DEF Changes, Still
  <2>2. \A c : Wants(c) => Wants(c)'
    BY DEF Wants, StoredBy, OpBlock, StoredAlike
  <2> QED BY <2>1, <2>2, BlocksExplained
<1> QED BY <1>1, <1>2 DEF Agreement

\* The threads go on as they were.
LEMMA OpSame ==
  ASSUME op' = op PROVE StoredAlike /\ \A c : ToDelete(c) => ToDelete(c)'
  BY DEF StoredAlike, ToDelete

LEMMA AgreementPending ==
  ASSUME TypeOK, Agreement, NEW x \in pending, HPending(x) PROVE Agreement'
<1> DEFINE b == OurBlock(x.worker, x.key)
           gone == IF x.owner = "node" THEN left \cup b ELSE left
<1>1. /\ x.worker \in W /\ x.owner \in {"node", "other"}
      /\ x.owner = "node" => x.key \in Mine
  BY DEF TypeOK, WorkersOK, Requests
<1>2. /\ held'[x.worker] = Store(held[x.worker], x.key, Block(x.owner, x.size))
      /\ \A w \in W \ {x.worker} : held'[w] = held[w]
      /\ UNCHANGED <<index, sizes>> /\ op' = op
  BY <1>1 DEF HPending, PendingStored, TypeOK, WorkersOK, dictionaries
<1>3. /\ DOMAIN held'[x.worker] = DOMAIN held[x.worker] \cup {x.key}
      /\ held'[x.worker][x.key].owner = x.owner
      /\ \A k \in DOMAIN held[x.worker] \ {x.key} :
             held'[x.worker][k] = held[x.worker][k]
  BY <1>2 DEF Store, Block
<1>4. \A w \in W : \A k \in DOMAIN held'[w] :
          \/ held'[w][k].owner = "other" \/ <<w, k>> \in gone
          \/ k \in DOMAIN held[w] /\ held'[w][k] = held[w][k]
  BY <1>1, <1>2, <1>3 DEF OurBlock
<1>5. \A w \in W : \A k \in DOMAIN held[w] \cap Mine : <<w, k>> \notin b =>
          k \in DOMAIN held'[w] /\ held'[w][k] = held[w][k]
  BY <1>2, <1>3 DEF OurBlock
<1>6. Changes(touched \cup b, gone) /\ left \subseteq gone
  BY DEF HPending
<1>7. StoredAlike /\ \A c : ToDelete(c) => ToDelete(c)'
  BY <1>2, OpSame
<1> HIDE DEF b, gone
<1> QED BY <1>2, <1>4, <1>5, <1>6, <1>7, AgreementBehind

LEMMA AgreementUnsteady ==
  ASSUME TypeOK, Agreement, NEW w \in Unsteady, HUnsteady(w) PROVE Agreement'
<1>0. w \in W
  BY PlacementConstants
<1>1. ASSUME Expires(w) \/ \E k \in Theirs, n \in Lengths : OtherAdmitted(w, k, n), Same
      PROVE  Agreement'
  <2>1. UNCHANGED <<held, index, sizes, touched, left>> /\ op' = op
    BY <1>1 DEF Expires, OtherAdmitted, Same, workers, dictionaries
  <2> QED BY <2>1, OpSame, AgreementQuiet
<1>2. ASSUME NEW k \in Mine \cup Theirs, StrayDelete(w, k),
             Changes(touched \cup OurBlock(w, k), left)
      PROVE  Agreement'
  <2>1. /\ \A v \in W \ {w} : held'[v] = held[v]
        /\ DOMAIN held'[w] = DOMAIN held[w] \ {k}
        /\ \A j \in DOMAIN held'[w] : held'[w][j] = held[w][j]
        /\ UNCHANGED <<index, sizes>> /\ op' = op
    BY <1>0, <1>2 DEF StrayDelete, Drop, TypeOK, WorkersOK, dictionaries
  <2>2. \A v \in W : \A j \in DOMAIN held[v] \cap Mine : <<v, j>> \notin OurBlock(w, k) =>
            j \in DOMAIN held'[v] /\ held'[v][j] = held[v][j]
    BY <2>1 DEF OurBlock
  <2>3. \A v \in W : \A j \in DOMAIN held'[v] :
            j \in DOMAIN held[v] /\ held'[v][j] = held[v][j]
    BY <2>1
  <2>4. StoredAlike /\ \A c : ToDelete(c) => ToDelete(c)'
    BY <2>1, OpSame
  <2>5. Changes(touched \cup OurBlock(w, k), left) /\ left \subseteq left
    BY <1>2
  <2>6. UNCHANGED <<index, sizes>>
    BY <2>1
  <2>7. \A v \in W : \A j \in DOMAIN held'[v] :
            \/ held'[v][j].owner = "other" \/ <<v, j>> \in left
            \/ j \in DOMAIN held[v] /\ held'[v][j] = held[v][j]
    BY <2>3
  <2> QED BY ONLY TypeOK, Agreement, <2>2, <2>4, <2>5, <2>6, <2>7, AgreementBehind
<1>3. ASSUME Stop(w), Changes(touched \cup ({w} \X Mine), left) PROVE Agreement'
  <2>1. /\ \A v \in W \ {w} : held'[v] = held[v]
        /\ DOMAIN held'[w] = {}
        /\ UNCHANGED <<index, sizes>>
    <3>1. held' = [held EXCEPT ![w] = Empty] /\ UNCHANGED <<index, sizes>>
      BY <1>3 DEF Stop, dictionaries
    <3>2. DOMAIN held = W
      BY <1>0 DEF TypeOK, WorkersOK
    <3>3. DOMAIN Empty = {}
      BY DEF Empty
    <3>4. held'[w] = Empty /\ \A v \in W \ {w} : held'[v] = held[v]
      BY <1>0, <3>1, <3>2
    <3> QED BY <3>1, <3>3, <3>4
  <2>2. ASSUME NEW t \in Threads
        PROVE  /\ op[t].at # "admitted" => op'[t] = op[t]
               /\ op[t].at = "admitted" => op'[t].at \notin {"stored", "delete"}
    <3>1. op[t].at # "admitted" => op'[t] = op[t]
      BY <1>3 DEF Stop
    <3>2. CASE op[t].at = "admitted"
      <4>1. op[t] \in Putting
        BY <3>2, OpKinds
      <4>2. [op[t] EXCEPT !.at = "call", !.again = TRUE].at = "call"
        BY <4>1 DEF Putting
      <4> QED BY <1>3, <3>2, <4>2 DEF Stop, Idle
    <3> QED BY <3>1, <3>2
  <2>3. StoredAlike /\ \A c : ToDelete(c) => ToDelete(c)'
    BY <2>2 DEF StoredAlike, ToDelete
  <2>4. \A v \in W : \A j \in DOMAIN held[v] \cap Mine : <<v, j>> \notin {w} \X Mine =>
            j \in DOMAIN held'[v] /\ held'[v][j] = held[v][j]
    BY <2>1
  <2>5. \A v \in W : \A j \in DOMAIN held'[v] :
            j \in DOMAIN held[v] /\ held'[v][j] = held[v][j]
    BY <2>1
  <2> QED BY <1>3, <2>1, <2>3, <2>4, <2>5, AgreementBehind
<1>4. ASSUME Start(w), Changes(touched, left) PROVE Agreement'
  <2>1. UNCHANGED <<held, index, sizes>> /\ op' = op /\ Changes(touched \cup {}, left)
    BY <1>4 DEF Start, dictionaries
  <2>2. StoredAlike /\ \A c : ToDelete(c) => ToDelete(c)'
    BY <2>1, OpSame
  <2> QED BY <2>1, <2>2, AgreementBehind
<1> QED BY <1>1, <1>2, <1>3, <1>4 DEF HUnsteady

LEMMA AgreementStep ==
  ASSUME TypeOK, Agreement, [HNext]_hvars PROVE Agreement'
<1>1. ASSUME UNCHANGED <<held, index, sizes, op, touched, left>> PROVE Agreement'
  BY <1>1, OpSame, AgreementQuiet
<1>2. CASE UNCHANGED hvars
  BY <1>1, <1>2 DEF hvars, vars
<1>3. ASSUME NEW t \in Writers \cup Spillers, HPutGoesOn(t) PROVE Agreement'
  BY <1>3, ThreadSets, AgreementCalls, AgreementStored, AgreementIndexed DEF HPutGoesOn, Same
<1>4. CASE ProbeLoop /\ Same
  BY <1>1, <1>4 DEF ProbeLoop, ProbeAsk, ProbeNote, Same, workers, dictionaries
<1>5. ASSUME NEW w \in W, Beacon(w), Same PROVE Agreement'
  BY <1>1, <1>5 DEF Beacon, Same, workers, dictionaries
<1>6. CASE HNext
  BY <1>3, <1>4, <1>5, <1>6, AgreementWriter, AgreementDeleter, AgreementSpiller,
     AgreementPending, AgreementUnsteady DEF HNext
<1> QED BY <1>2, <1>6

LEMMA AgreementInit == HInit => Agreement
<1> SUFFICES ASSUME HInit PROVE Agreement
  OBVIOUS
<1>1. /\ \A t \in Threads : op[t].at = "idle"
      /\ DOMAIN index = {}
      /\ \A w \in W : DOMAIN held[w] = {}
  BY DEF HInit, Init, Empty, Idle
<1> QED BY <1>1 DEF Agreement, StoredHeld, TwoStored, IndexedHeld, HeldIndexed

LEMMA AgreementHolds == HSpec => []Agreement
<1>1. HSpec => []TypeOK
  BY HistoryOnly, TypeCorrect
<1> QED BY <1>1, AgreementStep, AgreementInit, PTL DEF HSpec

\* What the index says of a worker is so, but for what others did there and
\* where the node's own threads crossed (put, delete, clear, spill).
THEOREM IndexIsHeld == HSpec => []IndexedHeld
<1>1. Agreement => IndexedHeld
  BY DEF Agreement
<1> QED BY <1>1, AgreementHolds, PTL

\* What a worker holds of the node's is in its index, but for what it gave up.
THEOREM HeldIsIndexed == HSpec => []HeldIndexed
<1>1. Agreement => HeldIndexed
  BY DEF Agreement
<1> QED BY <1>1, AgreementHolds, PTL

-----------------------------------------------------------------------------
(* Room                                                                    *)

\* A set of numbers that is not empty has a least member.
LEMMA Least ==
  ASSUME NEW S \in SUBSET Nat, S # {}
  PROVE  \E m \in S : \A n \in S : m <= n
<1> DEFINE R == {ss \in Nat \X Nat : ss[1] < ss[2]}
<1>1. PICK m \in S : \A n \in S : ~(<<n, m>> \in R)
  <2>1. IsWellFoundedOn(R, Nat)
    BY NatLessThanWellFounded DEF OpToRel
  <2> HIDE DEF R
  <2> QED BY <2>1, WFMin
<1>2. ASSUME NEW n \in S PROVE m <= n
  <2>1. n \in Nat /\ m \in Nat /\ (<<n, m>> \in R <=> n < m)
    OBVIOUS
  <2> HIDE DEF R
  <2> QED BY <1>1, <2>1
<1> QED BY <1>2

\* The scheduler finds a worker if one is eligible: the scores of any number of
\* workers have a best, ties being broken by the order of the table.
LEMMA SelectFinds ==
  ASSUME TypeOK, NEW n, NEW e \in DOMAIN Workers, Eligible(Workers[e], n)
  PROVE  Select(n) # {}
<1> DEFINE E == {i \in DOMAIN Workers : Eligible(Workers[i], n)}
           score(i) == Score(Workers[i])
           Beats(i, j) == score(i) > score(j) \/ (score(i) = score(j) /\ i < j)
           BestOf(j, m) == \A k \in E \ {j} : k <= m => Beats(j, k)
           Done(m) == \E j \in E : j <= m /\ BestOf(j, m)
           open == {m \in DOMAIN Workers : (\E k \in E : k <= m) /\ ~Done(m)}
<1>1. DOMAIN Workers = 1 .. Len(Workers) /\ Len(Workers) \in Nat
  BY PlacementConstants
<1>2. \A i \in DOMAIN Workers : score(i) \in Int
  BY PlacementConstants DEF TypeOK, Score, W
<1> HIDE DEF score
<1>3. E \subseteq DOMAIN Workers /\ e \in E
  OBVIOUS
<1> HIDE DEF E
<1>4. open = {}
  <2> SUFFICES ASSUME open # {} PROVE FALSE
    OBVIOUS
  <2>1. PICK m \in open : \A i \in open : m <= i
    <3>1. open \in SUBSET Nat
      BY <1>1
    <3> HIDE DEF open
    <3> QED BY <3>1, Least
  <2>2. m \in 1 .. Len(Workers) /\ ~Done(m) /\ \E k \in E : k <= m
    BY <1>1
  <2>3. \A i \in DOMAIN Workers : i < m /\ (\E k \in E : k <= i) => Done(i)
    <3>1. \A i \in DOMAIN Workers : ~(i \in open) /\ (\E k \in E : k <= i) => Done(i)
      OBVIOUS
    <3>2. \A i \in DOMAIN Workers : i < m => ~(i \in open)
      <4> HIDE DEF open
      <4> QED BY <1>1, <2>1, <2>2
    <3> HIDE DEF open, Done
    <3> QED BY <3>1, <3>2
  <2> HIDE DEF open
  <2>4. CASE \A k \in E : k > m - 1
    <3>1. PICK k \in E : k <= m
      BY <2>2
    <3>2. \A i \in E : i <= m => i = k
      BY <1>1, <1>3, <2>2, <2>4, <3>1
    <3> QED BY <2>2, <3>1, <3>2
  <2>5. CASE ~(\A k \in E : k > m - 1)
    <3>1. PICK k \in E : k <= m - 1
      BY <1>1, <1>3, <2>2, <2>5
    <3>2. m - 1 \in DOMAIN Workers
      <4>1. k \in 1 .. Len(Workers)
        BY <1>1, <1>3
      <4> QED BY <1>1, <2>2, <3>1, <4>1
    <3>3. Done(m - 1)
      <4>1. m - 1 < m
        BY <2>2
      <4> HIDE DEF Done
      <4> QED BY <2>3, <3>1, <3>2, <4>1
    <3>4. PICK j \in E : j <= m - 1 /\ BestOf(j, m - 1)
      BY <3>3
    <3>5. \A i \in E : i <= m => i <= m - 1 \/ i = m
      BY <1>1, <1>3, <2>2
    <3>6. j < m /\ j <= m
      <4>1. j \in 1 .. Len(Workers)
        BY <1>1, <1>3
      <4> QED BY <1>1, <2>2, <3>4, <4>1
    <3>7. CASE m \notin E \/ Beats(j, m)
      <4>1. BestOf(j, m)
        BY <3>4, <3>5, <3>7
      <4> QED BY <2>2, <3>6, <4>1
    <3>8. CASE m \in E /\ ~Beats(j, m)
      <4>1. score(m) > score(j)
        BY <1>2, <1>3, <3>6, <3>8
      <4>2. ASSUME NEW i \in E \ {m}, i <= m PROVE score(m) > score(i)
        <5>1. i = j \/ Beats(j, i)
          BY <3>4, <3>5, <4>2
        <5> QED BY <1>2, <1>3, <3>8, <4>1, <5>1
      <4>3. BestOf(m, m)
        BY <4>2
      <4> QED BY <2>2, <3>8, <4>3
    <3> QED BY <3>7, <3>8
  <2> QED BY <2>4, <2>5
<1>5. PICK j \in E : BestOf(j, Len(Workers))
  <2>1. Len(Workers) \in DOMAIN Workers /\ e <= Len(Workers)
    BY <1>1
  <2> QED BY <1>3, <1>4, <2>1
<1>6. \A k \in E \ {j} : Beats(j, k)
  BY <1>1, <1>3, <1>5
<1> QED BY <1>6 DEF Select, E, score

\* A put in exact has chosen a peer that has room, or there was none with room.
Chosen ==
    \A t \in exact :
        /\ t \in Threads
        /\ op[t].at \in {"call", "admitted", "failed"}
        /\ op[t].at # "failed" => ~op[t].spill /\ Free(op[t].peer) >= op[t].size
        /\ op[t].at = "failed" /\ op[t].size > 0 => \A w \in up : Free(w) < op[t].size

\* A worker that has room for a block admits it.
LEMMA RoomAdmits ==
  ASSUME WorkersOK, NEW w \in W, NEW k, NEW n \in Nat, n > 0, Free(w) >= n
  PROVE  Admits(w, k, n)
<1>1. OldSize(held[w], k) \in Nat
  BY SizesTyped DEF WorkersOK
<1>2. Used(w) \in Nat /\ Reserve[w] \in Nat
  BY FreeNat, PlacementConstants
<1>3. Used(w) + n - OldSize(held[w], k) <= Reserve[w]
  BY <1>1, <1>2 DEF Free, Max0
<1> QED BY <1>3 DEF Admits, OldSize

\* A step after which the threads in exact are where they were, or there are none.
LEMMA ChosenKept ==
  ASSUME TypeOK, Chosen, UNCHANGED <<up, held>>, exact' \subseteq exact,
         \A t \in exact' : op'[t] = op[t]
  PROVE  Chosen'
  BY DEF Chosen, Free, Used

LEMMA ChosenPut ==
  ASSUME TypeOK, Chosen, NEW t \in Threads, HPutGoesOn(t) PROVE Chosen'
<1>1. CASE PutAdmitted(t) /\ Same
  <2>1. op[t] \in Putting /\ op[t].at = "call"
    BY <1>1, OpKinds DEF PutAdmitted, Asks
  <2>2. op' = [op EXCEPT ![t] = [op[t] EXCEPT !.at = "admitted"]] /\ UNCHANGED <<up, held, exact>>
    BY <1>1 DEF PutAdmitted, Goto, Same, workers
  <2>3. /\ op'[t].at = "admitted" /\ op'[t].spill = op[t].spill
        /\ op'[t].peer = op[t].peer /\ op'[t].size = op[t].size
        /\ \A u \in Threads \ {t} : op'[u] = op[u]
    BY <2>1, <2>2 DEF Putting, TypeOK
  <2> QED BY <2>1, <2>2, <2>3 DEF Chosen, Free, Used
<1>2. CASE PutRetried(t) /\ Same
  <2>1. op[t] \in Putting /\ op[t].at \in {"call", "admitted"}
    BY <1>2, OpKinds DEF PutRetried
  <2>2. /\ op' = [op EXCEPT ![t] = [op[t] EXCEPT !.at = "call", !.again = TRUE]]
        /\ UNCHANGED <<up, held, exact>>
    BY <1>2 DEF PutRetried, Goto, Same
  <2>3. /\ op'[t].at = "call" /\ op'[t].spill = op[t].spill
        /\ op'[t].peer = op[t].peer /\ op'[t].size = op[t].size
        /\ \A u \in Threads \ {t} : op'[u] = op[u]
    BY <2>1, <2>2 DEF Putting, TypeOK
  <2> QED BY <2>1, <2>2, <2>3 DEF Chosen, Free, Used
<1>3. CASE PutRefused(t) /\ Same
  <2>1. /\ op[t].at = "call" /\ ~Admits(op[t].peer, op[t].key, op[t].size)
        /\ UNCHANGED <<up, held, exact>>
        /\ op' = [op EXCEPT ![t] = Refused(op[t])]
    BY <1>3 DEF PutRefused, Asks, Same, workers, Goto
  <2>2. op[t].peer \in W /\ op[t].size \in Nat /\ op[t].key \in Mine
    BY <2>1, PuttingFields
  <2>3. ~(Free(op[t].peer) >= op[t].size /\ op[t].size > 0)
    BY <2>1, <2>2, RoomAdmits DEF TypeOK
  <2>4. op'[t] = Refused(op[t]) /\ \A u \in Threads \ {t} : op'[u] = op[u]
    BY <2>1 DEF TypeOK
  <2>5. CASE t \notin exact
    <3>1. \A u \in exact : op'[u] = op[u]
      BY <2>4, <2>5 DEF Chosen
    <3> QED BY <2>1, <3>1, ChosenKept
  <2>6. CASE t \in exact
    <3>1. ~op[t].spill /\ op[t].size = 0
      BY <2>1, <2>2, <2>3, <2>6 DEF Chosen
    <3>2. op'[t].at = "failed" /\ op'[t].size = 0
      BY <2>4, <3>1 DEF Refused, Failed
    <3> QED BY <2>1, <2>4, <3>2 DEF Chosen, Free, Used
  <2> QED BY <2>5, <2>6
<1>4. CASE PutLower(t) /\ Same
  <2>1. /\ op[t].at = "lower" /\ UNCHANGED <<up, held, exact>>
        /\ \A u \in Threads \ {t} : op'[u] = op[u]
    BY <1>4 DEF PutLower, Same, workers, Goto, TypeOK
  <2>2. \A u \in exact : op'[u] = op[u]
    BY <2>1 DEF Chosen
  <2> QED BY <2>1, <2>2, ChosenKept
<1>5. CASE PutStored(t) /\ Changes(StoredTouches(t), left)
  BY <1>5 DEF Changes, Chosen
<1>6. CASE PutIndexed(t) /\ UNCHANGED exact
  <2>1. /\ op[t].at = "stored" /\ UNCHANGED <<up, held>>
        /\ \A u \in Threads \ {t} : op'[u] = op[u]
    BY <1>6 DEF PutIndexed, workers, Goto, TypeOK
  <2>2. \A u \in exact : op'[u] = op[u]
    BY <2>1 DEF Chosen
  <2> QED BY <1>6, <2>1, <2>2, ChosenKept
<1>7. CASE (PutGuarded(t) \/ PutRaises(t) \/ PutFallsBack(t)) /\ exact' = exact \ {t}
  <2>1. /\ UNCHANGED <<up, held>>
        /\ \A u \in Threads \ {t} : op'[u] = op[u]
    BY <1>7 DEF PutGuarded, PutRaises, PutFallsBack, workers, Goto, TypeOK
  <2>2. \A u \in exact' : op'[u] = op[u]
    BY <1>7, <2>1 DEF Chosen
  <2> QED BY <1>7, <2>1, <2>2, ChosenKept
<1> QED BY <1>1, <1>2, <1>3, <1>4, <1>5, <1>6, <1>7 DEF HPutGoesOn

\* Where the estimates are right, the scheduler is right about room.
LEMMA ChosenSelect ==
  ASSUME TypeOK, Chosen, NEW t \in Writers, NEW k \in Mine, NEW n \in Lengths,
         PutSelect(t, k, n), exact' = exact \cup {u \in {t} : EstimatesExact}
  PROVE  Chosen'
<1>0. /\ t \in Threads /\ op[t].at = "idle" /\ t \notin exact
      /\ UNCHANGED <<up, held>>
  BY ThreadSets DEF PutSelect, Idle, Chosen, workers
<1>1. PICK s \in IF Select(n) = {} THEN {Failed(k, n)}
                 ELSE {[at |-> "call", key |-> k, size |-> n, peer |-> w,
                        again |-> FALSE, spill |-> FALSE] : w \in Select(n)} : Goto(t, s)
  BY DEF PutSelect
<1>2. op'[t] = s /\ \A u \in Threads \ {t} : op'[u] = op[u]
  BY <1>0, <1>1 DEF Goto, TypeOK
<1>3. CASE ~EstimatesExact
  <2>1. exact' = exact /\ \A u \in exact : op'[u] = op[u]
    BY <1>0, <1>2, <1>3 DEF Chosen
  <2> QED BY <1>0, <2>1, ChosenKept
<1>4. CASE EstimatesExact
  <2>1. \A u \in exact : op'[u] = op[u] /\ u \in Threads
    BY <1>0, <1>2 DEF Chosen
  <2>2. /\ op'[t].at \in {"call", "failed"}
        /\ op'[t].at # "failed" => ~op'[t].spill /\ Free(op'[t].peer) >= op'[t].size
        /\ op'[t].at = "failed" => \A w \in up : Free(w) < op'[t].size
    <3>1. CASE Select(n) = {}
      <4>1. ASSUME NEW w \in up PROVE Free(w) < n
        <5>1. w \in W
          BY DEF TypeOK, WorkersOK
        <5>2. PICK i \in DOMAIN Workers : w = Workers[i]
          BY <5>1 DEF W
        <5>3. ~Eligible(w, n)
          BY <3>1, <5>2, SelectFinds
        <5>4. peer[w].online /\ peer[w].free = Free(w)
          BY <1>4, <5>1 DEF EstimatesExact
        <5> QED BY <5>1, <5>3, <5>4, FreeNat, LengthsNat DEF Eligible, TypeOK
      <4>2. op'[t] = Failed(k, n)
        BY <1>1, <1>2, <3>1
      <4> QED BY <4>1, <4>2 DEF Failed
    <3>2. CASE Select(n) # {}
      <4>1. PICK w \in Select(n) :
                op'[t] = [at |-> "call", key |-> k, size |-> n, peer |-> w,
                          again |-> FALSE, spill |-> FALSE]
        BY <1>1, <1>2, <3>2
      <4>2. w \in W /\ Eligible(w, n)
        BY <4>1 DEF Select, W
      <4>3. Free(w) >= n
        BY <1>4, <4>2 DEF EstimatesExact, Eligible
      <4> QED BY <4>1, <4>3
    <3> QED BY <3>1, <3>2
  <2>3. \A w : Free(w)' = Free(w)
    BY <1>0 DEF Free, Used
  <2> QED BY <1>0, <2>1, <2>2, <2>3 DEF Chosen, Free, Used
<1> QED BY <1>3, <1>4

LEMMA ChosenStep ==
  ASSUME TypeOK, Chosen, [HNext]_hvars PROVE Chosen'
<1>1. ASSUME UNCHANGED <<up, held, op, exact>> PROVE Chosen'
  BY <1>1, ChosenKept
<1>2. ASSUME exact' = {} PROVE Chosen'
  BY <1>2 DEF Chosen
<1>3. ASSUME NEW t \in Threads, op[t].at \in {"idle", "delete"}, NEW s, Goto(t, s),
             UNCHANGED <<up, held, exact>>
      PROVE  Chosen'
  <2>1. \A u \in exact : op'[u] = op[u]
    BY <1>3 DEF Chosen, Goto, TypeOK
  <2> QED BY <1>3, <2>1, ChosenKept
<1>4. ASSUME NEW t \in Writers, HWriter(t) PROVE Chosen'
  BY <1>1, <1>4, ChosenSelect DEF HWriter, PutLocal, workers
<1>5. ASSUME NEW t \in Deleters, HDeleter(t) PROVE Chosen'
  <2>1. t \in Threads /\ Idle.at = "idle"
    BY ThreadSets DEF Idle
  <2>2. ASSUME NEW b, DelDone(t, b), Changes(touched \cup {b}, left) PROVE Chosen'
    BY <1>2, <2>2 DEF Changes
  <2>3. ASSUME \/ (\E k \in Mine : Delete(t, k)) \/ Clear(t)
               \/ \E b \in W \X Mine : DelLost(t, b),
               UNCHANGED exact
        PROVE  Chosen'
    <3>1. op[t].at \in {"idle", "delete"} /\ UNCHANGED <<up, held, exact>>
      BY <2>1, <2>3 DEF Delete, Clear, DelLost, workers
    <3>2. \E s : Goto(t, s)
      BY <2>3 DEF Delete, Clear, DelLost, SendDels
    <3> QED BY <1>3, <2>1, <3>1, <3>2
  <2> QED BY <1>5, <2>2, <2>3 DEF HDeleter
<1>6. ASSUME NEW t \in Spillers, SpillerStep(t), Same PROVE Chosen'
  <2>1. t \in Threads /\ op[t].at = "idle" /\ UNCHANGED <<up, held, exact>>
    BY <1>6, ThreadSets DEF SpillerStep, SpillSelect, Idle, Same, workers
  <2>2. \E s : Goto(t, s)
    BY <1>6 DEF SpillerStep, SpillSelect
  <2> QED BY <1>3, <2>1, <2>2
<1>7. CASE ProbeLoop /\ Same
  BY <1>1, <1>7 DEF ProbeLoop, ProbeAsk, ProbeNote, Same, workers, dictionaries
<1>8. ASSUME NEW w \in W, Beacon(w), Same PROVE Chosen'
  BY <1>1, <1>8 DEF Beacon, Same, workers
<1>9. ASSUME NEW w \in Unsteady, HUnsteady(w) PROVE Chosen'
  BY <1>1, <1>2, <1>9 DEF HUnsteady, Expires, OtherAdmitted, Same, Changes, workers
<1>10. ASSUME NEW x \in pending, HPending(x) PROVE Chosen'
  BY <1>2, <1>10 DEF HPending, Changes
<1>11. CASE UNCHANGED hvars
  BY <1>1, <1>11 DEF hvars, vars
<1>12. CASE HNext
  BY <1>4, <1>5, <1>6, <1>7, <1>8, <1>9, <1>10, <1>12, ChosenPut, ThreadSets DEF HNext
<1> QED BY <1>11, <1>12

\* A put that chose its peer on right estimates, no worker having changed since,
\* fails for want of room only where there is none: the scheduler finds a worker
\* if any has room, and the worker it finds does not refuse (select, put).
THEOREM FoundIfRoom == HSpec => []RoomIsFound
<1>1. HSpec => []TypeOK
  BY HistoryOnly, TypeCorrect
<1>2. HInit => Chosen
  BY DEF HInit, Chosen
<1>3. Chosen => RoomIsFound
  BY DEF Chosen, RoomIsFound
<1> QED BY <1>1, <1>2, <1>3, ChosenStep, PTL DEF HSpec
=============================================================================
