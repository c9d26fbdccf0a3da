-------------------------- MODULE BlockStoreProofs --------------------------
(***************************************************************************)
(* Proofs about BlockStore, for any sets of keys and handlers, any reserve *)
(* and any block length.                                                   *)
(***************************************************************************)
EXTENDS BlockStore, DictionaryProofs

\* Every step of the store keeps the types.
LEMMA TypeStep == TypeOK /\ [Next]_vars => TypeOK'
<1> SUFFICES ASSUME TypeOK, [Next]_vars PROVE TypeOK'
  OBVIOUS
<1> USE StoreConstants, DictionaryConstants DEF TypeOK, IsDict, Sizes, InPut, Ready, Length
<1>1. ASSUME NEW h \in Handlers, NEW k \in Keys, NEW n \in Sizes,
             NEW o \in Owners, PutMeasure(h, k, n, o)
      PROVE  TypeOK'
  BY <1>1 DEF PutMeasure
<1>2. ASSUME NEW h \in Handlers, PutAdmit(h) PROVE TypeOK'
  BY <1>2 DEF PutAdmit
<1>3. ASSUME NEW h \in Handlers, PutReject(h) PROVE TypeOK'
  BY <1>3 DEF PutReject
<1>4. ASSUME NEW h \in Handlers, PutStore(h) PROVE TypeOK'
  <2>1. handler[h] \in [at : {"measured", "admitted"}, key : Keys,
                        size : Sizes, owner : Owners, old : Sizes]
    BY <1>4 DEF PutStore
  <2>2. /\ DOMAIN blocks' \subseteq Keys
        /\ blocks' \in [DOMAIN blocks' -> Sizes]
    BY <1>4, <2>1 DEF PutStore, Store
  <2>3. /\ DOMAIN owner' \subseteq Keys
        /\ owner' \in [DOMAIN owner' -> Owners]
    BY <1>4, <2>1 DEF PutStore, Store
  <2>4. used' \in Int
    BY <1>4, <2>1 DEF PutStore
  <2>5. handler' \in [Handlers -> {Ready} \cup InPut]
    BY <1>4 DEF PutStore
  <2> QED BY <2>2, <2>3, <2>4, <2>5
<1>5. ASSUME NEW h \in Handlers, NEW k \in Keys, Delete(h, k) PROVE TypeOK'
  BY <1>5 DEF Delete, Drop
<1>6. CASE Clear
  BY <1>6 DEF Clear, Empty
<1>7. CASE UNCHANGED vars
  BY <1>7 DEF vars
<1> QED BY <1>1, <1>2, <1>3, <1>4, <1>5, <1>6, <1>7 DEF Next

\* Types are preserved by every step of the store (TypeOK): in particular no
\* overlap of PUT, DEL and clear leaves a length out of range.
THEOREM TypeCorrect == Spec => []TypeOK
<1>1. Init => TypeOK
  BY DEF Init, TypeOK, IsDict, Empty
<1> QED BY <1>1, TypeStep, PTL DEF Spec

-----------------------------------------------------------------------------
\* Blocks and owners are stored, deleted and cleared together, so STAT never
\* indexes _blocks with the key of a block that is gone.
THEOREM OwnersMatch == Spec => []OwnersMatchBlocks
<1>1. Init => OwnersMatchBlocks
  BY DEF Init, OwnersMatchBlocks
<1>2. OwnersMatchBlocks /\ [Next]_vars => OwnersMatchBlocks'
  <2> SUFFICES ASSUME OwnersMatchBlocks, [Next]_vars PROVE OwnersMatchBlocks'
    OBVIOUS
  <2> USE DEF OwnersMatchBlocks
  <2>1. ASSUME NEW h \in Handlers, NEW k \in Keys, NEW n \in Sizes,
               NEW o \in Owners, PutMeasure(h, k, n, o)
        PROVE  OwnersMatchBlocks'
    BY <2>1 DEF PutMeasure
  <2>2. ASSUME NEW h \in Handlers, PutAdmit(h) \/ PutReject(h)
        PROVE  OwnersMatchBlocks'
    BY <2>2 DEF PutAdmit, PutReject
  <2>3. ASSUME NEW h \in Handlers, PutStore(h) PROVE OwnersMatchBlocks'
    BY <2>3 DEF PutStore, Store
  <2>4. ASSUME NEW h \in Handlers, NEW k \in Keys, Delete(h, k)
        PROVE  OwnersMatchBlocks'
    BY <2>4 DEF Delete, Drop
  <2>5. CASE Clear
    BY <2>5 DEF Clear, Empty
  <2>6. CASE UNCHANGED vars
    BY <2>6 DEF vars
  <2> QED BY <2>1, <2>2, <2>3, <2>4, <2>5, <2>6 DEF Next
<1> QED BY <1>1, <1>2, PTL DEF Spec

-----------------------------------------------------------------------------
(* The admission count                                                     *)

\* The admission count is the number of bytes held, at every step.
THEOREM AccountingHolds == Spec => []Accounting
<1>1. Init => Accounting
  <2> SUFFICES ASSUME Init PROVE Accounting
    OBVIOUS
  <2>1. Bytes(blocks) = {}
    BY DEF Init, Bytes, Empty
  <2> QED BY <2>1, FS_EmptySet DEF Init, Accounting
<1>2. TypeOK /\ Accounting /\ [Next]_vars => Accounting'
  <2> SUFFICES ASSUME TypeOK, Accounting, [Next]_vars PROVE Accounting'
    OBVIOUS
  <2> USE DEF Accounting
  <2>1. IsDict(blocks, Sizes)
    BY DEF TypeOK
  <2>2. ASSUME NEW h \in Handlers, NEW k \in Keys, NEW n \in Sizes,
               NEW o \in Owners, PutMeasure(h, k, n, o)
        PROVE  Accounting'
    BY <2>2 DEF PutMeasure
  <2>3. ASSUME NEW h \in Handlers, PutAdmit(h) \/ PutReject(h)
        PROVE  Accounting'
    BY <2>3 DEF PutAdmit, PutReject
  <2>4. ASSUME NEW h \in Handlers, PutStore(h) PROVE Accounting'
    <3>1. handler[h].key \in Keys /\ handler[h].size \in Sizes
      BY <2>4 DEF PutStore, TypeOK, InPut, Ready
    <3>2. Cardinality(Bytes(blocks'))
            = Cardinality(Bytes(blocks)) - Length(handler[h].key)
                + handler[h].size
      BY <2>1, <2>4, <3>1, StoreBytes DEF PutStore, Length, LengthIn
    <3> QED BY <2>4, <3>2 DEF PutStore
  <2>5. ASSUME NEW h \in Handlers, NEW k \in Keys, Delete(h, k)
        PROVE  Accounting'
    <3>1. Cardinality(Bytes(blocks')) = Cardinality(Bytes(blocks)) - blocks[k]
      BY <2>1, <2>5, DropBytes DEF Delete, LengthIn
    <3> QED BY <2>5, <3>1 DEF Delete
  <2>6. CASE Clear
    <3>1. Bytes(blocks') = {}
      BY <2>6 DEF Clear, Bytes, Empty
    <3> QED BY <2>6, <3>1, FS_EmptySet DEF Clear
  <2>7. CASE UNCHANGED vars
    BY <2>7 DEF vars
  <2> QED BY <2>2, <2>3, <2>4, <2>5, <2>6, <2>7 DEF Next
<1> QED BY <1>1, <1>2, TypeCorrect, PTL DEF Spec
-----------------------------------------------------------------------------
(* The overshoot                                                           *)

\* The bytes of each handler's PUT that is admitted and not yet counted.
Pending == [h \in Handlers |->
                IF handler[h].at = "admitted" THEN handler[h].size ELSE 0]

\* OvershootBounded is not inductive: an admitted PUT is stored whatever the
\* count has become.  Counting it from its admission on makes it so.
Committed ==
    used + Cardinality(Rows(Handlers, Pending))
        <= Reserve + Cardinality(Handlers) * MaxSize

\* A step that changes what one handler has pending changes the total by it.
LEMMA PendingChange ==
  ASSUME TypeOK, TypeOK', NEW h \in Handlers,
         \A g \in Handlers \ {h} : handler'[g] = handler[g]
  PROVE  /\ Pending[h] \in Sizes /\ Pending'[h] \in Sizes
         /\ Cardinality(Rows(Handlers, Pending'))
              = Cardinality(Rows(Handlers, Pending)) - Pending[h] + Pending'[h]
<1>1. Pending[h] \in Sizes /\ Pending'[h] \in Sizes
  BY DictionaryConstants DEF Pending, TypeOK, InPut, Ready, Sizes
<1>2. \A g \in Handlers \ {h} : Pending'[g] = Pending[g]
  BY DEF Pending
<1> QED BY <1>1, <1>2, StoreConstants, RowsChange

\* Nothing is committed to begin with.
LEMMA CommittedInit == Init => Committed
<1> SUFFICES ASSUME Init PROVE Committed
  OBVIOUS
<1>1. \A h \in Handlers : Pending[h] = 0
  BY DEF Init, Pending, Ready
<1>2. Rows(Handlers, Pending) = {}
  BY <1>1, DictionaryConstants DEF Rows
<1>3. Cardinality(Handlers) \in Nat
  BY StoreConstants, FS_CardinalityType
<1>4. Cardinality(Handlers) * MaxSize \in Nat
  BY <1>3, DictionaryConstants
<1> QED BY <1>2, <1>4, StoreConstants, FS_EmptySet DEF Init, Committed

\* An admission finds room for its block besides those of the other handlers;
\* a store moves bytes from one term to the other.
LEMMA CommittedStep == TypeOK /\ Committed /\ [Next]_vars => Committed'
<1> SUFFICES ASSUME TypeOK, Committed, [Next]_vars PROVE Committed'
  OBVIOUS
<1>1. TypeOK'
  BY TypeStep
<1> DEFINE total == Cardinality(Rows(Handlers, Pending))
           room == Cardinality(Handlers) * MaxSize
<1>2. /\ used \in Int /\ used' \in Int
      /\ total \in Nat /\ room \in Nat /\ total <= room
      /\ total' \in Nat /\ total' <= room
      /\ Reserve \in Nat /\ MaxSize \in Nat
  <2>1. Cardinality(Handlers) \in Nat
    BY StoreConstants, FS_CardinalityType
  <2>2. room \in Nat
    BY <2>1, DictionaryConstants
  <2> QED BY <1>1, <2>2, RowsBound, StoreConstants, DictionaryConstants DEF TypeOK
<1>3. Committed <=> used + total <= Reserve + room
  BY DEF Committed
<1>4. Committed' <=> used' + total' <= Reserve + room
  BY DEF Committed
\* A step after which one handler has nothing pending, and that does not add
\* more to the count than it takes off what was pending.
<1>5. ASSUME NEW h \in Handlers, handler'[h] = Ready \/ handler'[h].at = "measured",
             \A g \in Handlers \ {h} : handler'[g] = handler[g],
             used' <= used + Pending[h]
      PROVE  Committed'
  <2>1. Pending'[h] = 0
    BY <1>5 DEF Pending, Ready
  <2>2. total' = total - Pending[h] + Pending'[h] /\ Pending[h] \in Sizes
    BY <1>1, <1>5, PendingChange
  <2> HIDE DEF total, room
  <2> QED BY <1>2, <1>3, <1>4, <1>5, <2>1, <2>2 DEF Sizes
<1>6. ASSUME NEW h \in Handlers, NEW k \in Keys, NEW n \in Sizes,
             NEW o \in Owners, PutMeasure(h, k, n, o)
      PROVE  Committed'
  <2>1. Pending[h] = 0
    BY <1>6 DEF Pending, PutMeasure, Ready
  <2>2. handler'[h].at = "measured"
    BY <1>6 DEF PutMeasure, TypeOK
  <2>3. \A g \in Handlers \ {h} : handler'[g] = handler[g]
    BY <1>6 DEF PutMeasure, TypeOK
  <2> QED BY <1>2, <1>5, <1>6, <2>1, <2>2, <2>3 DEF PutMeasure
<1>7. ASSUME NEW h \in Handlers, PutAdmit(h) PROVE Committed'
  <2>1. handler[h] \in InPut /\ handler[h].at = "measured"
    BY <1>7 DEF PutAdmit, TypeOK, Ready, InPut
  <2>2. /\ handler[h].size \in Nat
        /\ handler[h].old \in Nat /\ handler[h].old <= MaxSize
    BY <2>1, DictionaryConstants DEF InPut, Sizes
  <2>3. used + (handler[h].size - handler[h].old) <= Reserve /\ used' = used
    BY <1>7 DEF PutAdmit, CanAccept
  <2>4. Pending[h] = 0
    BY <2>1 DEF Pending
  <2>5. Pending'[h] = handler[h].size
    BY <1>7, <2>1 DEF Pending, PutAdmit, TypeOK, InPut
  <2>6. \A g \in Handlers \ {h} : handler'[g] = handler[g]
    BY <1>7 DEF PutAdmit, TypeOK
  <2>7. total' = total - Pending[h] + Pending'[h]
    BY <1>1, <2>6, PendingChange
  <2>8. total <= room - MaxSize
    BY <2>4, StoreConstants, RowsBut
  <2> HIDE DEF total, room
  <2> QED BY <1>2, <1>4, <2>2, <2>3, <2>4, <2>5, <2>7, <2>8
<1>8. ASSUME NEW h \in Handlers, PutReject(h) PROVE Committed'
  <2>1. Pending[h] = 0
    BY <1>8 DEF Pending, PutReject
  <2>2. handler'[h] = Ready /\ \A g \in Handlers \ {h} : handler'[g] = handler[g]
    BY <1>8 DEF PutReject, TypeOK
  <2> QED BY <1>2, <1>5, <1>8, <2>1, <2>2 DEF PutReject
<1>9. ASSUME NEW h \in Handlers, PutStore(h) PROVE Committed'
  <2>1. handler[h] \in InPut
    BY <1>9 DEF PutStore, TypeOK, Ready, InPut
  <2>2. Pending[h] = handler[h].size /\ handler[h].size \in Nat
    BY <1>9, <2>1, DictionaryConstants DEF Pending, PutStore, InPut, Sizes
  <2>3. Length(handler[h].key) \in Nat
    BY DictionaryConstants DEF Length, TypeOK, IsDict, Sizes
  <2>4. handler'[h] = Ready /\ \A g \in Handlers \ {h} : handler'[g] = handler[g]
    BY <1>9 DEF PutStore, TypeOK
  <2>5. used' = used - Length(handler[h].key) + handler[h].size
    BY <1>9 DEF PutStore
  <2>6. used' <= used + Pending[h]
    BY <1>2, <2>2, <2>3, <2>5
  <2> QED BY <1>5, <2>4, <2>6
<1>10. ASSUME NEW h \in Handlers, NEW k \in Keys, Delete(h, k) PROVE Committed'
  <2>1. total' = total
    BY <1>10 DEF Delete, Pending
  <2>2. blocks[k] \in Nat /\ used' = used - blocks[k]
    BY <1>10, DictionaryConstants DEF Delete, TypeOK, IsDict, Sizes
  <2> HIDE DEF total, room
  <2> QED BY <1>2, <1>3, <1>4, <2>1, <2>2
<1>11. CASE Clear
  <2>1. used' = 0
    BY <1>11 DEF Clear
  <2>2. Committed' <=> total' <= Reserve + room
    BY <1>2, <1>4, <2>1
  <2> QED BY <1>2, <2>2
<1>12. CASE UNCHANGED vars
  BY <1>12 DEF vars, Committed, Pending
<1> QED BY <1>6, <1>7, <1>8, <1>9, <1>10, <1>11, <1>12 DEF Next

\* Overlapping PUTs outgrow the reserve by at most one largest block per
\* handler thread, whatever they replace and whatever is deleted meanwhile.
THEOREM OvershootIsBounded == Spec => []OvershootBounded
<1>1. TypeOK /\ Committed => OvershootBounded
  <2> SUFFICES ASSUME TypeOK, Committed PROVE OvershootBounded
    OBVIOUS
  <2>1. Cardinality(Handlers) \in Nat
    BY StoreConstants, FS_CardinalityType
  <2>2. Cardinality(Handlers) * MaxSize \in Nat
    BY <2>1, DictionaryConstants
  <2>3. Cardinality(Rows(Handlers, Pending)) \in Nat
    BY StoreConstants, RowsBound
  <2> QED BY <2>2, <2>3, StoreConstants DEF Committed, OvershootBounded, TypeOK
<1> QED BY <1>1, CommittedInit, CommittedStep, TypeCorrect, PTL DEF Spec

-----------------------------------------------------------------------------
(* One handler                                                             *)

\* The store as the program drives it when a single peer is connected: one
\* handler, and nothing that calls clear().
SoloSpec == Init /\ [][Next /\ ~Clear]_vars

\* Between the steps of the only PUT there is, what it measured stays true.
SoloInv ==
    /\ used <= Reserve
    /\ \A h \in Handlers :
        /\ handler[h].at = "measured" => handler[h].old = Length(handler[h].key)
        /\ handler[h].at = "admitted" =>
                used - Length(handler[h].key) + handler[h].size <= Reserve

\* The overlap of two PUTs is the only way past the reserve: with one handler
\* thread the store keeps the limit worker.py promises.
THEOREM SoloReserve ==
  ASSUME NEW solo, Handlers = {solo}
  PROVE  SoloSpec => []ReserveRespected
<1>1. Init => TypeOK /\ SoloInv
  BY StoreConstants, DictionaryConstants DEF Init, SoloInv, TypeOK, Ready, IsDict, Empty
<1>2. TypeOK /\ SoloInv /\ [Next /\ ~Clear]_vars => SoloInv'
  <2> SUFFICES ASSUME TypeOK, SoloInv, [Next /\ ~Clear]_vars PROVE SoloInv'
    OBVIOUS
  <2> DEFINE me == handler[solo]
  <2>1. /\ used \in Int
        /\ me = Ready \/ me \in InPut
        /\ handler = [h \in {solo} |-> me]
    BY DEF TypeOK
  <2>2. SoloInv' <=>
            /\ used' <= Reserve
            /\ (me.at = "measured" => me.old = Length(me.key))'
            /\ (me.at = "admitted" =>
                    used - Length(me.key) + me.size <= Reserve)'
    BY DEF SoloInv
  <2>3. ASSUME NEW k \in Keys, NEW n \in Sizes, NEW o \in Owners,
               PutMeasure(solo, k, n, o)
        PROVE  SoloInv'
    BY <2>1, <2>2, <2>3 DEF PutMeasure, SoloInv, Length
  <2>4. CASE PutAdmit(solo)
    <3>1. /\ me \in InPut
          /\ me.old = Length(me.key)
          /\ used + (me.size - me.old) <= Reserve
      BY <2>1, <2>4 DEF PutAdmit, CanAccept, SoloInv, Ready
    <3>2. me.old \in Int /\ me.size \in Int
      BY <3>1, StoreConstants, DictionaryConstants DEF InPut, Sizes
    <3>3. /\ handler'[solo].at = "admitted" /\ handler'[solo].key = me.key
          /\ handler'[solo].size = me.size /\ used' = used /\ blocks' = blocks
      BY <2>1, <2>4, <3>1 DEF PutAdmit, InPut
    <3> QED BY <2>1, <2>2, <3>1, <3>2, <3>3, StoreConstants, DictionaryConstants DEF SoloInv, Length
  <2>5. CASE PutReject(solo)
    BY <2>1, <2>2, <2>5 DEF PutReject, SoloInv, Ready
  <2>6. CASE PutStore(solo)
    BY <2>1, <2>2, <2>6 DEF PutStore, SoloInv, Ready
  <2>7. ASSUME NEW k \in Keys, Delete(solo, k) PROVE SoloInv'
    <3>1. blocks[k] \in Nat /\ handler'[solo] = Ready
      BY <2>7, StoreConstants, DictionaryConstants DEF Delete, TypeOK, IsDict, Sizes
    <3>2. used' = used - blocks[k]
      BY <2>7 DEF Delete
    <3> QED BY <2>1, <2>2, <3>1, <3>2, StoreConstants, DictionaryConstants DEF SoloInv, Ready
  <2>8. CASE UNCHANGED vars
    BY <2>8 DEF vars, SoloInv, Length
  <2> QED BY <2>3, <2>4, <2>5, <2>6, <2>7, <2>8 DEF Next
<1>3. TypeOK /\ [Next /\ ~Clear]_vars => TypeOK'
  BY TypeStep
<1>4. SoloInv => ReserveRespected
  BY DEF SoloInv, ReserveRespected
<1> QED BY <1>1, <1>2, <1>3, <1>4, PTL DEF SoloSpec
=============================================================================
