--------------------------- MODULE MemCloudProofs ---------------------------
(***************************************************************************)
(* Proofs about MemCloud and MemCloudReads, for any number of threads,     *)
(* keys and peers, any budget and any block length.                        *)
(***************************************************************************)
EXTENDS MemCloudReads, DictionaryProofs

(* Types                                                                   *)

\* A thread that goes to a state of its own kind leaves the threads typed.
LEMMA GotoOK ==
  ASSUME ThreadsOK, NEW t, NEW s, Goto(t, s),
         \/ t \in Writers /\ WriterState(s)
         \/ t \in Readers /\ ReaderState(s)
         \/ t \in Spillers /\ SpillerState(s)
  PROVE  ThreadsOK'
<1>1. /\ DOMAIN thread' = Threads
      /\ t \in Threads /\ thread'[t] = s
      /\ \A u \in Threads \ {t} : thread'[u] = thread[u]
  BY DEF Goto, ThreadsOK, Threads
<1>2. ASSUME NEW w \in Writers PROVE WriterState(thread'[w])
  BY <1>1, CloudConstants DEF ThreadsOK, Threads
<1>3. ASSUME NEW r \in Readers PROVE ReaderState(thread'[r])
  BY <1>1, CloudConstants DEF ThreadsOK, Threads
<1>4. ASSUME NEW z \in Spillers PROVE SpillerState(thread'[z])
  BY <1>1, CloudConstants DEF ThreadsOK, Threads
<1> QED BY <1>1, <1>2, <1>3, <1>4 DEF ThreadsOK

\* What the state of a thread says of the operation it is in.
LEMMA ThreadKinds ==
  ASSUME ThreadsOK
  PROVE  /\ \A w \in Writers :
              /\ thread[w].at \in {"put_local", "put_remote"} => thread[w] \in Putting
              /\ thread[w].at = "put_stored" => thread[w] \in Stored
              /\ thread[w].at = "del_call" => thread[w] \in Deleting
              /\ thread[w].at = "clear_calls" => IsClearing(thread[w])
         /\ \A r \in Readers :
              /\ thread[r].at = "get_call" => thread[r] \in Getting
              /\ thread[r].at = "got" => thread[r] \in Got
         /\ \A s \in Spillers :
              /\ thread[s].at = "spill_pick" => thread[s] \in Spilling
              /\ thread[s].at = "spill_call" => thread[s] \in Moving
              /\ thread[s].at = "spill_stored" => thread[s] \in Moved
<1> USE DEF Idle, Putting, Stored, Deleting, Getting, Offline, Got, Spilling,
            Moving, Moved
<1>1. ASSUME NEW w \in Writers
      PROVE  /\ thread[w].at \in {"put_local", "put_remote"} => thread[w] \in Putting
             /\ thread[w].at = "put_stored" => thread[w] \in Stored
             /\ thread[w].at = "del_call" => thread[w] \in Deleting
             /\ thread[w].at = "clear_calls" => IsClearing(thread[w])
  BY DEF ThreadsOK, WriterState
<1>2. ASSUME NEW r \in Readers
      PROVE  /\ thread[r].at = "get_call" => thread[r] \in Getting
             /\ thread[r].at = "got" => thread[r] \in Got
  BY DEF ThreadsOK, ReaderState
<1>3. ASSUME NEW s \in Spillers
      PROVE  /\ thread[s].at = "spill_pick" => thread[s] \in Spilling
             /\ thread[s].at = "spill_call" => thread[s] \in Moving
             /\ thread[s].at = "spill_stored" => thread[s] \in Moved
  BY DEF ThreadsOK, SpillerState
<1> QED BY <1>1, <1>2, <1>3

\* A block stored at a peer leaves what the peers hold typed.
LEMMA RemoteStore ==
  ASSUME DictionariesOK, NEW p \in Peers, NEW k \in Keys, NEW d \in Data,
         remote' = [remote EXCEPT ![p] = Store(@, k, d)], UNCHANGED dictionaries
  PROVE  DictionariesOK'
<1>1. IsDict(Store(remote[p], k, d), Data)
  BY StoreDict DEF DictionariesOK
<1> QED BY <1>1 DEF DictionariesOK, dictionaries

\* So does one that a DEL may have taken away.
LEMMA RemoteDel ==
  ASSUME DictionariesOK, NEW p \in Peers, NEW k, DelDone(p, k) \/ DelLost,
         UNCHANGED dictionaries
  PROVE  DictionariesOK'
<1>1. IsDict(Drop(remote[p], k), Data)
  BY DropDict DEF DictionariesOK
<1> QED BY <1>1 DEF DictionariesOK, dictionaries, DelDone, DelLost

\* The steps of put, delete and clear keep the types.
LEMMA WriterTypes ==
  ASSUME TypeOK, NEW w \in Writers, WriterStep(w) PROVE TypeOK'
<1> USE DEF TypeOK
<1> USE DEF Putting, Stored, Deleting
<1>0. /\ WriterState(Idle)
      /\ \A s \in Putting \cup Stored \cup Deleting : WriterState(s)
      /\ \A s : s.at = "clear_calls" /\ IsClearing(s) => WriterState(s)
  BY DEF WriterState
<1>1. ASSUME NEW k \in Keys, NEW d \in Data, PutFits(w, k, d) \/ PutOverflows(w, k, d)
      PROVE  TypeOK'
  <2>1. DictionariesOK'
    BY <1>1 DEF PutFits, PutOverflows, DictionariesOK, dictionaries
  <2>2. PICK s \in Putting : Goto(w, s)
    BY <1>1 DEF PutFits, PutOverflows
  <2> QED BY <2>1, <2>2, <1>0, GotoOK
<1>2. CASE PutLocal(w)
  <2>1. thread[w] \in Putting
    BY <1>2, ThreadKinds DEF PutLocal
  <2>2. thread[w].key \in Keys /\ thread[w].data \in Data
    BY <2>1
  <2>3. Size[thread[w].data] \in Sizes /\ Size[thread[w].data] \in Int
    BY <2>2, CloudConstants, DictionaryConstants DEF Sizes
  <2>4. Freed(thread[w].key) \in Int
    BY <2>2, CloudConstants, DictionaryConstants
       DEF Freed, DictionariesOK, IsDict, Sizes
  <2>5. DictionariesOK'
    <3>1. IsDict(local', Data) /\ IsDict(sizes', Sizes)
          /\ IsDict(index', Peers \cup {"local"})
      BY <1>2, <2>2, <2>3, StoreDict DEF PutLocal, DictionariesOK
    <3>2. lru' \subseteq Keys /\ localUsed' \in Int /\ slipped' \in Int
      BY <1>2, <2>2, <2>3, <2>4 DEF PutLocal, DictionariesOK
    <3> QED BY <1>2, <3>1, <3>2 DEF PutLocal, DictionariesOK
  <2> QED BY <1>0, <1>2, <2>5, GotoOK DEF PutLocal
<1>3. CASE PutNoCapacity(w)
  <2>1. DictionariesOK'
    BY <1>3 DEF PutNoCapacity, DictionariesOK, dictionaries
  <2> QED BY <1>0, <1>3, <2>1, GotoOK DEF PutNoCapacity
<1>4. ASSUME NEW p \in Peers, PutSent(w, p) \/ PutRaises(w, p) PROVE TypeOK'
  <2>1. thread[w] \in Putting
    BY <1>4, ThreadKinds DEF PutSent, PutRaises
  <2>2. thread[w].key \in Keys /\ thread[w].data \in Data
    BY <2>1
  <2>3. DictionariesOK'
    BY <1>4, <2>2, RemoteStore DEF PutSent, PutRaises
  <2>4. PICK s \in {Idle} \cup Stored : Goto(w, s)
    BY <1>4, <2>2 DEF PutSent, PutRaises
  <2> QED BY <1>0, <2>3, <2>4, GotoOK
<1>5. CASE PutIndexed(w)
  <2>1. thread[w] \in Stored
    BY <1>5, ThreadKinds DEF PutIndexed
  <2>2. thread[w].key \in Keys /\ thread[w].data \in Data /\ thread[w].peer \in Peers
    BY <2>1
  <2>3. Size[thread[w].data] \in Sizes
    BY <2>2, CloudConstants
  <2>4. Freed(thread[w].key) \in Int
    BY <2>2, CloudConstants, DictionaryConstants
       DEF Freed, DictionariesOK, IsDict, Sizes
  <2>5. DictionariesOK'
    <3>1. IsDict(local', Data) /\ IsDict(sizes', Sizes)
          /\ IsDict(index', Peers \cup {"local"})
      BY <1>5, <2>2, <2>3, StoreDict, DropDict DEF PutIndexed, DictionariesOK
    <3>2. lru' \subseteq Keys /\ localUsed' \in Int /\ slipped' \in Int
      BY <1>5, <2>4 DEF PutIndexed, DictionariesOK
    <3> QED BY <1>5, <3>1, <3>2 DEF PutIndexed, DictionariesOK
  <2> QED BY <1>0, <1>5, <2>5, GotoOK DEF PutIndexed
<1>6. ASSUME NEW k \in Keys, DeleteLocal(w, k) PROVE TypeOK'
  <2>1. Freed(k) \in Int
    BY CloudConstants, DictionaryConstants DEF Freed, DictionariesOK, IsDict, Sizes
  <2>2. DictionariesOK'
    <3>1. IsDict(local', Data) /\ IsDict(sizes', Sizes)
          /\ IsDict(index', Peers \cup {"local"})
      BY <1>6, DropDict DEF DeleteLocal, DictionariesOK
    <3> QED BY <1>6, <2>1, <3>1 DEF DeleteLocal, DictionariesOK
  <2> QED BY <1>6, <2>2 DEF DeleteLocal, ThreadsOK
<1>7. ASSUME NEW k \in Keys, DeleteRemote(w, k) PROVE TypeOK'
  <2>1. index[k] \in Peers
    BY <1>7 DEF DeleteRemote, DictionariesOK, IsDict
  <2>2. DictionariesOK'
    <3>1. IsDict(sizes', Sizes) /\ IsDict(index', Peers \cup {"local"})
      BY <1>7, DropDict DEF DeleteRemote, DictionariesOK
    <3> QED BY <1>7, <3>1 DEF DeleteRemote, DictionariesOK
  <2>3. PICK s \in Deleting : Goto(w, s)
    BY <1>7, <2>1 DEF DeleteRemote
  <2> QED BY <1>0, <2>2, <2>3, GotoOK
<1>8. CASE DeleteCall(w)
  <2>1. thread[w] \in Deleting
    BY <1>8, ThreadKinds DEF DeleteCall
  <2>2. DictionariesOK'
    BY <1>8, <2>1, RemoteDel DEF DeleteCall
  <2> QED BY <1>0, <1>8, <2>2, GotoOK DEF DeleteCall
<1>9. CASE Clear(w)
  <2>1. DictionariesOK'
    BY <1>9, EmptyDict DEF Clear, DictionariesOK
  <2> DEFINE s == [at |-> "clear_calls", todo |-> AtPeers]
  <2>2. IsDict(AtPeers, Peers)
    BY DEF AtPeers, DictionariesOK, IsDict
  <2>3. s.at = "clear_calls" /\ IsClearing(s) /\ Goto(w, s)
    BY <1>9, <2>2 DEF Clear, IsClearing
  <2> HIDE DEF s
  <2>4. WriterState(s)
    BY <1>0, <2>3
  <2> QED BY <2>1, <2>3, <2>4, GotoOK
<1>10. CASE ClearCall(w)
  <2>1. IsClearing(thread[w])
    BY <1>10, ThreadKinds DEF ClearCall
  <2>2. PICK k \in DOMAIN thread[w].todo :
            /\ DelDone(thread[w].todo[k], k) \/ DelLost
            /\ Goto(w, [thread[w] EXCEPT !.todo = Drop(@, k)])
    BY <1>10 DEF ClearCall
  <2>3. thread[w].todo[k] \in Peers
    BY <2>1 DEF IsClearing, IsDict
  <2>4. DictionariesOK'
    BY <1>10, <2>2, <2>3, RemoteDel DEF ClearCall
  <2> DEFINE s == [thread[w] EXCEPT !.todo = Drop(@, k)]
  <2>5. s = [at |-> "clear_calls", todo |-> Drop(thread[w].todo, k)]
    BY <2>1 DEF IsClearing
  <2>6. IsDict(Drop(thread[w].todo, k), Peers)
    BY <2>1, DropDict DEF IsClearing
  <2>7. s.at = "clear_calls" /\ IsClearing(s)
    BY <2>5, <2>6 DEF IsClearing
  <2>8. WriterState(s) /\ Goto(w, s)
    BY <1>0, <2>2, <2>7
  <2> HIDE DEF s
  <2> QED BY <2>4, <2>8, GotoOK
<1>11. CASE ClearReturn(w)
  <2>1. DictionariesOK'
    BY <1>11 DEF ClearReturn, DictionariesOK, dictionaries
  <2> QED BY <1>0, <1>11, <2>1, GotoOK DEF ClearReturn
<1> QED BY <1>1, <1>2, <1>3, <1>4, <1>5, <1>6, <1>7, <1>8, <1>9, <1>10, <1>11
        DEF WriterStep

\* The steps of get keep the types.
LEMMA ReaderTypes ==
  ASSUME TypeOK, NEW r \in Readers, ReaderStep(r) PROVE TypeOK'
<1> USE DEF TypeOK, Getting, Got, Offline
<1>0. ReaderState(Idle) /\ \A s \in Getting \cup Offline \cup Got : ReaderState(s)
  BY DEF ReaderState
<1>1. DictionariesOK'
  <2>1. ASSUME NEW k \in Keys, GetLocal(r, k) PROVE DictionariesOK'
    BY <2>1 DEF GetLocal, DictionariesOK
  <2>2. ASSUME UNCHANGED <<dictionaries, remote>> PROVE DictionariesOK'
    BY <2>2 DEF DictionariesOK, dictionaries
  <2> QED BY <2>1, <2>2 DEF ReaderStep, GetMiss, GetRemote, GetAnswered,
                           GetOffline, GetRaises, GetReturn
<1>2. ASSUME NEW k \in Keys, GetLocal(r, k) \/ GetMiss(r, k) \/ GetRemote(r, k)
      PROVE  TypeOK'
  <2>1. k \in DOMAIN local => local[k] \in Data
    BY DEF DictionariesOK, IsDict
  <2>2. k \in DOMAIN index /\ index[k] # "local" => index[k] \in Peers
    BY DEF DictionariesOK, IsDict
  <2>3. PICK s \in Getting \cup Got : Goto(r, s)
    BY <1>2, <2>1, <2>2 DEF GetLocal, GetMiss, GetRemote
  <2> QED BY <1>0, <1>1, <2>3, GotoOK
<1>3. CASE GetAnswered(r)
  <2>1. thread[r] \in Getting
    BY <1>3, ThreadKinds DEF GetAnswered
  <2>2. IsDict(remote[thread[r].peer], Data) /\ thread[r].key \in Keys
    BY <2>1 DEF DictionariesOK
  <2>3. PICK s \in Got : Goto(r, s)
    BY <1>3, <2>2 DEF GetAnswered, IsDict
  <2> QED BY <1>0, <1>1, <2>3, GotoOK
<1>4. CASE GetOffline(r)
  <2>1. thread[r] \in Getting
    BY <1>4, ThreadKinds DEF GetOffline
  <2>2. PICK s \in Offline : Goto(r, s)
    BY <1>4, <2>1 DEF GetOffline
  <2> QED BY <1>0, <1>1, <2>2, GotoOK
<1>5. CASE GetRaises(r) \/ GetReturn(r)
  BY <1>0, <1>1, <1>5, GotoOK DEF GetRaises, GetReturn
<1> QED BY <1>2, <1>3, <1>4, <1>5 DEF ReaderStep

\* The steps of spill keep the types.
LEMMA SpillerTypes ==
  ASSUME TypeOK, NEW s \in Spillers,
         (\E target \in Targets : SpillStart(s, target)) \/ SpillContinue(s)
  PROVE  TypeOK'
<1> USE DEF TypeOK, Spilling, Moving, Moved
<1>0. /\ SpillerState(Idle)
      /\ \A z \in Spilling \cup Moving \cup Moved : SpillerState(z)
  BY DEF SpillerState
<1>1. ASSUME NEW target \in Targets, SpillStart(s, target) PROVE TypeOK'
  <2>1. DictionariesOK'
    BY <1>1 DEF SpillStart, DictionariesOK, dictionaries
  <2>2. PICK z \in Spilling : Goto(s, z)
    BY <1>1, CloudConstants DEF SpillStart
  <2> QED BY <1>0, <2>1, <2>2, GotoOK
<1>2. CASE SpillPick(s)
  <2>1. thread[s] \in Spilling
    BY <1>2, ThreadKinds DEF SpillPick
  <2>2. DictionariesOK'
    BY <1>2 DEF SpillPick, DictionariesOK
  <2>3. PICK k \in lru :
            IF k \in DOMAIN local
            THEN Goto(s, [at |-> "spill_call", need |-> thread[s].need,
                          key |-> k, data |-> local[k]])
            ELSE UNCHANGED thread
    BY <1>2 DEF SpillPick
  <2>4. CASE k \in DOMAIN local
    <3>1. k \in Keys /\ local[k] \in Data
      BY <2>4 DEF DictionariesOK, IsDict
    <3>2. PICK z \in Moving : Goto(s, z)
      BY <2>1, <2>3, <2>4, <3>1
    <3> QED BY <1>0, <2>2, <3>2, GotoOK
  <2>5. CASE k \notin DOMAIN local
    BY <2>2, <2>3, <2>5 DEF ThreadsOK
  <2> QED BY <2>4, <2>5
<1>3. CASE SpillEnds(s)
  <2>1. DictionariesOK'
    <3>1. CASE UNCHANGED remote
      BY <1>3, <3>1 DEF SpillEnds, DictionariesOK, dictionaries
    <3>2. CASE remote' # remote
      <4>1. /\ thread[s].at = "spill_call"
            /\ \E p \in Peers : remote' = [remote EXCEPT
                  ![p] = Store(@, thread[s].key, thread[s].data)]
        BY <1>3, <3>2 DEF SpillEnds
      <4>2. thread[s] \in Moving
        BY <4>1, ThreadKinds
      <4> QED BY <1>3, <4>1, <4>2, RemoteStore DEF SpillEnds
    <3> QED BY <3>1, <3>2
  <2> QED BY <1>0, <1>3, <2>1, GotoOK DEF SpillEnds
<1>4. ASSUME NEW p \in Peers, SpillSent(s, p) PROVE TypeOK'
  <2>1. thread[s] \in Moving
    BY <1>4, ThreadKinds DEF SpillSent
  <2>2. DictionariesOK'
    BY <1>4, <2>1, RemoteStore DEF SpillSent
  <2>3. PICK z \in Moved : Goto(s, z)
    BY <1>4, <2>1 DEF SpillSent
  <2> QED BY <1>0, <2>2, <2>3, GotoOK
<1>5. CASE SpillIndexed(s)
  <2>1. thread[s] \in Moved
    BY <1>5, ThreadKinds DEF SpillIndexed
  <2>2. Size[thread[s].data] \in Int /\ Freed(thread[s].key) \in Int
    BY <2>1, CloudConstants, DictionaryConstants
       DEF Sizes, Freed, DictionariesOK, IsDict
  <2>3. DictionariesOK'
    <3>1. IsDict(local', Data) /\ IsDict(index', Peers \cup {"local"})
      BY <1>5, <2>1, StoreDict, DropDict DEF SpillIndexed, DictionariesOK
    <3> QED BY <1>5, <2>2, <3>1 DEF SpillIndexed, DictionariesOK
  <2>4. PICK z \in {Idle} \cup Spilling : Goto(s, z)
    BY <1>5, <2>1, <2>2 DEF SpillIndexed
  <2> QED BY <1>0, <2>3, <2>4, GotoOK
<1> QED BY <1>1, <1>2, <1>3, <1>4, <1>5 DEF SpillContinue

\* Every step keeps the types.
LEMMA TypeStep == TypeOK /\ [Next]_vars => TypeOK'
<1> SUFFICES ASSUME TypeOK, [Next]_vars PROVE TypeOK'
  OBVIOUS
<1>1. ASSUME NEW p \in Peers, PeerRestart(p) PROVE TypeOK'
  BY <1>1, EmptyDict
     DEF PeerRestart, TypeOK, DictionariesOK, ThreadsOK, dictionaries
<1>2. CASE UNCHANGED vars
  BY <1>2 DEF vars, TypeOK, DictionariesOK, ThreadsOK
<1> QED BY <1>1, <1>2, WriterTypes, ReaderTypes, SpillerTypes DEF Next

\* The dictionaries, the count and the threads keep their types, whatever
\* operations overlap and whatever becomes of the calls to the peers.
THEOREM TypeCorrect == Spec => []TypeOK
<1>1. Init => TypeOK
  BY EmptyDict
     DEF Init, TypeOK, DictionariesOK, ThreadsOK, WriterState, ReaderState,
         SpillerState, Threads
<1> QED BY <1>1, TypeStep, PTL DEF Spec

-----------------------------------------------------------------------------
(* The dictionaries agree                                                  *)

\* Under the lock, a writer's step changes the dictionaries together.
LEMMA WriterAgrees ==
  ASSUME TypeOK, LocalIndexAgree, NEW w \in Writers, WriterStep(w)
  PROVE  LocalIndexAgree'
<1> USE DEF LocalIndexAgree
<1>1. ASSUME UNCHANGED dictionaries PROVE LocalIndexAgree'
  BY <1>1 DEF dictionaries
<1>2. CASE PutLocal(w)
  <2>1. thread[w].key \in Keys
    BY <1>2, ThreadKinds DEF PutLocal, TypeOK, Putting
  <2> QED BY <1>2, <2>1 DEF PutLocal, Store
<1>3. CASE PutIndexed(w)
  <2>1. thread[w].key \in Keys /\ thread[w].peer # "local"
    BY <1>3, ThreadKinds, CloudConstants DEF PutIndexed, TypeOK, Stored
  <2> QED BY <1>3, <2>1 DEF PutIndexed, Store, Drop
<1>4. ASSUME NEW k \in Keys, DeleteLocal(w, k) \/ DeleteRemote(w, k)
      PROVE  LocalIndexAgree'
  BY <1>4 DEF DeleteLocal, DeleteRemote, Drop
<1>5. CASE Clear(w)
  BY <1>5 DEF Clear, Empty
<1> QED BY <1>1, <1>2, <1>3, <1>4, <1>5
        DEF WriterStep, PutFits, PutOverflows, PutNoCapacity, PutSent, PutRaises,
            DeleteCall, ClearCall, ClearReturn, dictionaries

\* So does a spill's.
LEMMA SpillerAgrees ==
  ASSUME TypeOK, LocalIndexAgree, NEW s \in Spillers,
         (\E target \in Targets : SpillStart(s, target)) \/ SpillContinue(s)
  PROVE  LocalIndexAgree'
<1> USE DEF LocalIndexAgree
<1>1. ASSUME UNCHANGED dictionaries PROVE LocalIndexAgree'
  BY <1>1 DEF dictionaries
<1>2. CASE SpillPick(s)
  BY <1>2 DEF SpillPick
<1>3. CASE SpillIndexed(s)
  <2>1. thread[s].key \in Keys /\ thread[s].peer # "local"
    BY <1>3, ThreadKinds, CloudConstants DEF SpillIndexed, TypeOK, Moved
  <2> QED BY <1>3, <2>1 DEF SpillIndexed, Store, Drop
<1> QED BY <1>1, <1>2, <1>3
        DEF SpillContinue, SpillStart, SpillEnds, SpillSent

\* _local, _lru and the index agree on the local blocks at every step, even
\* when spill overlaps puts, deletes, clears or another spill.
THEOREM DictionariesAgree == Spec => []LocalIndexAgree
<1>1. Init => LocalIndexAgree
  BY DEF Init, LocalIndexAgree, Empty
<1>2. TypeOK /\ LocalIndexAgree /\ [Next]_vars => LocalIndexAgree'
  <2> SUFFICES ASSUME TypeOK, LocalIndexAgree, [Next]_vars PROVE LocalIndexAgree'
    OBVIOUS
  <2>1. ASSUME NEW r \in Readers, ReaderStep(r) PROVE LocalIndexAgree'
    BY <2>1 DEF ReaderStep, GetLocal, GetMiss, GetRemote, GetAnswered,
                GetOffline, GetRaises, GetReturn, LocalIndexAgree,
                dictionaries
  <2>2. ASSUME NEW p \in Peers, PeerRestart(p) PROVE LocalIndexAgree'
    BY <2>2 DEF PeerRestart, LocalIndexAgree, dictionaries
  <2>3. CASE UNCHANGED vars
    BY <2>3 DEF vars, LocalIndexAgree
  <2> QED BY <2>1, <2>2, <2>3, WriterAgrees, SpillerAgrees DEF Next
<1> QED BY <1>1, <1>2, TypeCorrect, PTL DEF Spec

-----------------------------------------------------------------------------
(* The count                                                               *)

\* The lengths of the local blocks.
LocalLengths == [k \in DOMAIN local |-> Size[local[k]]]

\* Storing a block locally changes the bytes held by its length, and by what
\* Freed says of the block it replaces.
LEMMA LocalStore ==
  ASSUME DictionariesOK, NEW k \in Keys, NEW d \in Data, local' = Store(local, k, d)
  PROVE  Cardinality(LocalBytes') = Cardinality(LocalBytes) - Freed(k) + Size[d]
<1>1. IsDict(LocalLengths, Sizes) /\ Size[d] \in Sizes
  BY CloudConstants DEF DictionariesOK, IsDict, LocalLengths
<1>2. LocalLengths' = Store(LocalLengths, k, Size[d])
  BY DEF LocalLengths, Store
<1>3. LengthIn(LocalLengths, k) = Freed(k)
  BY DEF LengthIn, LocalLengths, Freed
<1>4. LocalBytes = Bytes(LocalLengths) /\ LocalBytes' = Bytes(LocalLengths')
  BY DEF LocalBytes, LocalLengths
<1> QED BY <1>1, <1>2, <1>3, <1>4, StoreBytes

\* The same for a block taken out.
LEMMA LocalDrop ==
  ASSUME DictionariesOK, NEW k \in Keys, local' = Drop(local, k)
  PROVE  Cardinality(LocalBytes') = Cardinality(LocalBytes) - Freed(k)
<1>1. IsDict(LocalLengths, Sizes)
  BY CloudConstants DEF DictionariesOK, IsDict, LocalLengths
<1>2. LocalLengths' = Drop(LocalLengths, k)
  BY DEF LocalLengths, Drop
<1>3. LengthIn(LocalLengths, k) = Freed(k)
  BY DEF LengthIn, LocalLengths, Freed
<1>4. LocalBytes = Bytes(LocalLengths) /\ LocalBytes' = Bytes(LocalLengths')
  BY DEF LocalBytes, LocalLengths
<1> QED BY <1>1, <1>2, <1>3, <1>4, DropBytes

\* It is a number.
LEMMA LocalBytesNat == Cardinality(LocalBytes) \in Nat
  BY BytesAreRows, RowsBound, DictionaryConstants DEF LocalBytes

\* Nothing held, nothing counted.
LEMMA LocalEmpty ==
  ASSUME local = Empty PROVE Cardinality(LocalBytes) = 0
<1>1. [k \in DOMAIN local |-> Size[local[k]]] = Empty
  BY DEF Empty
<1> QED BY <1>1, EmptyDict, FS_EmptySet DEF LocalBytes

\* Freed never adds to the count.
LEMMA FreedNat == TypeOK => \A k : Freed(k) \in Nat
  BY CloudConstants, DictionaryConstants
     DEF TypeOK, DictionariesOK, IsDict, Freed, Sizes

\* Every step changes the count by what it changes in _local, but for what it
\* lets slip.
LEMMA AccountingStep ==
  ASSUME TypeOK, LocalAccounting, [Next]_vars
  PROVE  LocalAccounting'
<1> USE DEF LocalAccounting
<1>0. /\ DictionariesOK /\ ThreadsOK
      /\ localUsed \in Int /\ slipped \in Int /\ \A k : Freed(k) \in Int
      /\ Cardinality(LocalBytes) \in Int
  BY FreedNat, LocalBytesNat DEF TypeOK, DictionariesOK
<1>1. ASSUME local' = local, localUsed' = localUsed, slipped' = slipped
      PROVE  LocalAccounting'
  BY <1>1 DEF LocalBytes
<1>2. ASSUME NEW w \in Writers, PutLocal(w) PROVE LocalAccounting'
  <2>1. /\ thread[w].key \in Keys /\ thread[w].data \in Data
        /\ Size[thread[w].data] \in Int
    BY <1>0, <1>2, ThreadKinds, CloudConstants, DictionaryConstants
       DEF PutLocal, Putting, Sizes
  <2> QED BY <1>0, <1>2, <2>1, LocalStore DEF PutLocal
<1>3. ASSUME NEW w \in Writers, PutIndexed(w) PROVE LocalAccounting'
  <2>1. thread[w].key \in Keys
    BY <1>0, <1>3, ThreadKinds DEF PutIndexed, Stored
  <2> QED BY <1>0, <1>3, <2>1, LocalDrop DEF PutIndexed
<1>4. ASSUME NEW w \in Writers, NEW k \in Keys, DeleteLocal(w, k) PROVE LocalAccounting'
  BY <1>0, <1>4, LocalDrop DEF DeleteLocal
<1>5. ASSUME NEW w \in Writers, Clear(w) PROVE LocalAccounting'
  <2>1. LocalBytes' = {}
    BY <1>5 DEF Clear, LocalBytes, Bytes, Empty
  <2> QED BY <1>5, <2>1, FS_EmptySet DEF Clear
<1>6. ASSUME NEW s \in Spillers, SpillIndexed(s) PROVE LocalAccounting'
  <2>1. thread[s].key \in Keys /\ Size[thread[s].data] \in Int
    BY <1>0, <1>6, ThreadKinds, CloudConstants, DictionaryConstants
       DEF SpillIndexed, Moved, Sizes
  <2> QED BY <1>0, <1>6, <2>1, LocalDrop DEF SpillIndexed
<1>7. ASSUME NEW w \in Writers, WriterStep(w) PROVE LocalAccounting'
  BY <1>1, <1>2, <1>3, <1>4, <1>5, <1>7
     DEF WriterStep, PutFits, PutOverflows, PutNoCapacity, PutSent, PutRaises,
         DeleteRemote, DeleteCall, ClearCall, ClearReturn, dictionaries
<1>8. ASSUME NEW r \in Readers, ReaderStep(r) PROVE LocalAccounting'
  BY <1>1, <1>8 DEF ReaderStep, GetLocal, GetMiss, GetRemote, GetAnswered,
                    GetOffline, GetRaises, GetReturn,
                dictionaries
<1>9. ASSUME NEW s \in Spillers,
             (\E target \in Targets : SpillStart(s, target)) \/ SpillContinue(s)
      PROVE  LocalAccounting'
  BY <1>1, <1>6, <1>9 DEF SpillStart, SpillContinue, SpillPick, SpillEnds,
                          SpillSent, dictionaries
<1>10. ASSUME NEW p \in Peers, PeerRestart(p) PROVE LocalAccounting'
  BY <1>1, <1>10 DEF PeerRestart, dictionaries
<1>11. CASE UNCHANGED vars
  BY <1>1, <1>11 DEF vars
<1> QED BY <1>7, <1>8, <1>9, <1>10, <1>11 DEF Next

\* _local_used is the number of bytes held locally but for what slipped,
\* whatever puts, deletes, clears and spills overlap one another.
THEOREM AccountingHolds == Spec => []LocalAccounting
<1>1. Init => LocalAccounting
  BY LocalEmpty DEF Init, LocalAccounting
<1>2. TypeOK /\ LocalAccounting /\ [Next]_vars => LocalAccounting'
  BY AccountingStep
<1> QED BY <1>1, <1>2, TypeCorrect, PTL DEF Spec

-----------------------------------------------------------------------------
(* The budget                                                              *)

\* The bytes each writer has tested against the budget and not yet stored.
Pending == [w \in Writers |->
    IF thread[w].at = "put_local" THEN Size[thread[w].data] ELSE 0]

\* A put that passed the test is stored whatever the count is by then, so the
\* bound is inductive only with those puts counted in.
Committed ==
    localUsed + Cardinality(Rows(Writers, Pending))
        <= Budget + (Cardinality(Writers) - 1) * MaxSize

\* The numbers in Committed, and its product multiplied out.
LEMMA CommittedTypes ==
  ASSUME TypeOK
  PROVE  /\ localUsed \in Int
         /\ Cardinality(Rows(Writers, Pending)) \in Nat
         /\ Cardinality(Writers) * MaxSize \in Nat
         /\ MaxSize \in Nat /\ Budget \in Nat
         /\ (Cardinality(Writers) - 1) * MaxSize
                = Cardinality(Writers) * MaxSize - MaxSize
         /\ Cardinality(Writers) * MaxSize >= MaxSize
<1>1. Cardinality(Writers) \in Nat /\ Cardinality(Writers) # 0
  BY CloudConstants, FS_CardinalityType, FS_EmptySet
<1>2. \A n \in Nat \ {0}, m \in Nat :
        /\ n * m \in Nat /\ n * m >= m
        /\ (n - 1) * m = n * m - m
  OBVIOUS
<1> QED BY <1>1, <1>2, RowsBound, CloudConstants, DictionaryConstants
        DEF TypeOK, DictionariesOK

\* A step of one writer changes what is pending by what it has pending.
LEMMA PendingChange ==
  ASSUME TypeOK, TypeOK', NEW w \in Writers,
         \A v \in Writers \ {w} : thread'[v] = thread[v]
  PROVE  /\ Pending[w] \in Sizes /\ Pending'[w] \in Sizes
         /\ Cardinality(Rows(Writers, Pending'))
              = Cardinality(Rows(Writers, Pending)) - Pending[w] + Pending'[w]
<1>1. 0 \in Sizes
  BY DictionaryConstants DEF Sizes
<1>2. Pending[w] \in Sizes
  BY <1>1, ThreadKinds, CloudConstants DEF Pending, TypeOK, Putting
<1>3. Pending'[w] \in Sizes
  <2>1. thread'[w].at = "put_local" => thread'[w] \in Putting
    BY DEF TypeOK, ThreadsOK, WriterState, Putting, Stored, Deleting, Idle
  <2> QED BY <1>1, <2>1, CloudConstants DEF Pending, Putting
<1>4. \A v \in Writers \ {w} : Pending'[v] = Pending[v]
  BY DEF Pending
<1> QED BY <1>2, <1>3, <1>4, CloudConstants, RowsChange

\* A writer that tests the budget finds room for its block besides those of
\* the other writers; storing it moves its bytes from one term to the other.
LEMMA WriterCommitted ==
  ASSUME TypeOK, TypeOK', Committed, NEW w \in Writers, WriterStep(w)
  PROVE  Committed'
<1> DEFINE total == Cardinality(Rows(Writers, Pending))
           room == Cardinality(Writers) * MaxSize
<1>1. /\ localUsed \in Int /\ localUsed' \in Int
      /\ total \in Nat /\ total' \in Nat /\ room \in Nat
      /\ MaxSize \in Nat /\ Budget \in Nat
  BY CommittedTypes, RowsBound, CloudConstants DEF TypeOK, DictionariesOK
<1>2. Committed <=> localUsed + total <= Budget + (room - MaxSize)
  BY CommittedTypes DEF Committed
<1>3. Committed' <=> localUsed' + total' <= Budget + (room - MaxSize)
  BY CommittedTypes DEF Committed
<1>4. w \in DOMAIN thread
  BY DEF TypeOK, ThreadsOK, Threads
<1>5. \A v \in Writers \ {w} : thread'[v] = thread[v]
  BY DEF WriterStep, PutFits, PutOverflows, PutLocal, PutNoCapacity, PutSent,
         PutRaises, PutIndexed, DeleteLocal, DeleteRemote, DeleteCall, Clear,
         ClearCall, ClearReturn, Goto, TypeOK, ThreadsOK, Threads
<1>6. /\ Pending[w] \in Sizes /\ Pending'[w] \in Sizes
      /\ total' = total - Pending[w] + Pending'[w]
  BY <1>5, PendingChange
<1>7. thread[w].at # "put_local" => Pending[w] = 0
  BY DEF Pending
<1>8. thread'[w].at # "put_local" => Pending'[w] = 0
  BY DEF Pending
<1>9. thread[w].at # "put_local" => total <= room - MaxSize
  BY <1>7, RowsBut, CloudConstants
<1> HIDE DEF total, room
\* A step that has nothing pending before or after, and adds nothing.
<1>10. ASSUME thread[w].at # "put_local", thread'[w].at # "put_local",
              localUsed' <= localUsed
       PROVE  Committed'
  BY <1>1, <1>2, <1>3, <1>6, <1>7, <1>8, <1>10
<1>11. ASSUME NEW k \in Keys, NEW d \in Data, PutFits(w, k, d) PROVE Committed'
  <2>1. thread[w].at # "put_local" /\ localUsed' = localUsed
    BY <1>11 DEF PutFits, Idle, dictionaries
  <2>2. Pending'[w] = Size[d]
    BY <1>4, <1>11 DEF PutFits, Goto, Pending
  <2>3. localUsed + Size[d] <= Budget /\ Size[d] \in Int
    BY <1>11, CloudConstants, DictionaryConstants DEF PutFits, Sizes
  <2> QED BY <1>1, <1>3, <1>6, <1>7, <1>9, <2>1, <2>2, <2>3
<1>12. CASE PutLocal(w)
  <2>1. thread'[w].at # "put_local"
    BY <1>4, <1>12 DEF PutLocal, Goto, Idle
  <2>2. Pending[w] = Size[thread[w].data]
    BY <1>12 DEF PutLocal, Pending
  <2>3. localUsed' = localUsed - Freed(thread[w].key) + Size[thread[w].data]
    BY <1>12 DEF PutLocal
  <2>4. Freed(thread[w].key) \in Nat
    BY FreedNat
  <2>5. Pending[w] \in Int
    BY <1>6, DictionaryConstants DEF Sizes
  <2> QED BY <1>1, <1>2, <1>3, <1>6, <1>8, <2>1, <2>2, <2>3, <2>4, <2>5
<1>13. ASSUME NEW k \in Keys, NEW d \in Data, PutOverflows(w, k, d) PROVE Committed'
  BY <1>1, <1>4, <1>10, <1>13 DEF PutOverflows, Goto, Idle, dictionaries
<1>14. CASE PutNoCapacity(w)
  BY <1>1, <1>4, <1>10, <1>14 DEF PutNoCapacity, Goto, Idle, dictionaries
<1>15. ASSUME NEW p \in Peers, PutSent(w, p) \/ PutRaises(w, p) PROVE Committed'
  BY <1>1, <1>4, <1>10, <1>15 DEF PutSent, PutRaises, Goto, Idle, dictionaries
<1>16. CASE PutIndexed(w)
  <2>1. localUsed' <= localUsed
    BY <1>1, <1>16, FreedNat DEF PutIndexed
  <2> QED BY <1>4, <1>10, <1>16, <2>1 DEF PutIndexed, Goto, Idle
<1>17. ASSUME NEW k \in Keys, DeleteLocal(w, k) PROVE Committed'
  <2>1. localUsed' <= localUsed
    BY <1>1, <1>17, FreedNat DEF DeleteLocal
  <2> QED BY <1>10, <1>17, <2>1 DEF DeleteLocal, Idle
<1>18. ASSUME NEW k \in Keys, DeleteRemote(w, k) PROVE Committed'
  BY <1>1, <1>4, <1>10, <1>18 DEF DeleteRemote, Goto, Idle
<1>19. CASE DeleteCall(w) \/ ClearCall(w) \/ ClearReturn(w)
  <2>1. thread[w].at # "put_local" /\ localUsed' = localUsed
    BY <1>19 DEF DeleteCall, ClearCall, ClearReturn, dictionaries
  <2>2. thread'[w].at # "put_local"
    <3>1. CASE DeleteCall(w) \/ ClearReturn(w)
      BY <1>4, <3>1 DEF DeleteCall, ClearReturn, Goto, Idle
    <3>2. CASE ClearCall(w)
      <4>1. thread[w] = [at |-> "clear_calls", todo |-> thread[w].todo]
        BY <3>2, ThreadKinds DEF ClearCall, TypeOK, IsClearing
      <4>2. PICK k \in DOMAIN thread[w].todo :
                thread'[w] = [thread[w] EXCEPT !.todo = Drop(@, k)]
        BY <1>4, <3>2 DEF ClearCall, Goto
      <4> QED BY <4>1, <4>2
    <3> QED BY <1>19, <3>1, <3>2
  <2> QED BY <1>1, <1>10, <2>1, <2>2
<1>20. CASE Clear(w)
  <2>1. thread[w].at # "put_local" /\ thread'[w].at # "put_local" /\ localUsed' = 0
    BY <1>4, <1>20 DEF Clear, Goto, Idle
  <2>2. total' = total
    BY <1>1, <1>6, <1>7, <1>8, <2>1
  <2>3. Committed' <=> total <= Budget + (room - MaxSize)
    BY <1>1, <1>3, <2>1, <2>2
  <2> QED BY <1>1, <1>9, <2>1, <2>3
<1> QED BY <1>11, <1>12, <1>13, <1>14, <1>15, <1>16, <1>17, <1>18, <1>19, <1>20
        DEF WriterStep

\* No step breaks the bound on what is counted and pending.
LEMMA CommittedStep == TypeOK /\ Committed /\ [Next]_vars => Committed'
<1> SUFFICES ASSUME TypeOK, Committed, [Next]_vars PROVE Committed'
  OBVIOUS
<1>1. TypeOK'
  BY TypeStep
\* Steps of others: no writer moves, and spill only lowers the count.
<1>2. ASSUME \A w \in Writers : thread'[w] = thread[w], localUsed' <= localUsed
      PROVE  Committed'
  <2>1. Pending' = Pending
    BY <1>2 DEF Pending
  <2>2. localUsed' \in Int
    BY <1>1 DEF TypeOK, DictionariesOK
  <2>3. Committed' <=>
            localUsed' + Cardinality(Rows(Writers, Pending))
                <= Budget + (Cardinality(Writers) - 1) * MaxSize
    BY <2>1 DEF Committed
  <2> QED BY <1>2, <2>2, <2>3, CommittedTypes DEF Committed
<1>3. localUsed \in Int
  BY DEF TypeOK, DictionariesOK
<1>4. ASSUME NEW r \in Readers, ReaderStep(r) PROVE Committed'
  <2>1. localUsed' = localUsed /\ \E z : Goto(r, z)
    BY <1>4 DEF ReaderStep, GetLocal, GetMiss, GetRemote, GetAnswered,
                GetOffline, GetRaises, GetReturn,
                dictionaries
  <2>2. \A w \in Writers : thread'[w] = thread[w]
    BY <2>1, CloudConstants DEF Goto, TypeOK, ThreadsOK, Threads
  <2> QED BY <1>2, <1>3, <2>1, <2>2
<1>5. ASSUME NEW s \in Spillers,
             (\E target \in Targets : SpillStart(s, target)) \/ SpillContinue(s)
      PROVE  Committed'
  <2>1. thread' = thread \/ \E z : Goto(s, z)
    BY <1>5 DEF SpillStart, SpillContinue, SpillPick, SpillEnds, SpillSent,
                SpillIndexed
  <2>2. \A w \in Writers : thread'[w] = thread[w]
    BY <2>1, CloudConstants DEF Goto, TypeOK, ThreadsOK, Threads
  <2>3. CASE SpillIndexed(s)
    <3>1. Size[thread[s].data] \in Nat
      BY <2>3, ThreadKinds, CloudConstants, DictionaryConstants
         DEF SpillIndexed, TypeOK, Moved, Sizes
    <3> QED BY <1>2, <1>3, <2>2, <2>3, <3>1 DEF SpillIndexed
  <2>4. CASE localUsed' = localUsed
    BY <1>2, <1>3, <2>2, <2>4
  <2> QED BY <1>5, <2>3, <2>4 DEF SpillStart, SpillContinue, SpillPick,
                                  SpillEnds, SpillSent, dictionaries
<1>6. ASSUME NEW p \in Peers, PeerRestart(p) PROVE Committed'
  BY <1>2, <1>3, <1>6 DEF PeerRestart, dictionaries
<1>7. CASE UNCHANGED vars
  BY <1>2, <1>3, <1>7 DEF vars
<1> QED BY <1>1, <1>4, <1>5, <1>6, <1>7, WriterCommitted DEF Next

\* The blocks held locally stay within the budget but for one largest block per
\* writer besides the first, and for what slipped from the count: a single
\* writer with no spill about never exceeds it.
THEOREM BudgetHolds == Spec => []LocalBounded
<1>1. Init => Committed
  <2> SUFFICES ASSUME Init PROVE Committed
    OBVIOUS
  <2>1. TypeOK
    BY EmptyDict
       DEF Init, TypeOK, DictionariesOK, ThreadsOK, WriterState, ReaderState,
           SpillerState, Threads
  <2>2. \A w \in Writers : Pending[w] = 0
    BY DEF Init, Pending, Idle, Threads
  <2>3. Rows(Writers, Pending) = {}
    BY <2>2, DictionaryConstants DEF Rows
  <2> QED BY <2>1, <2>3, CommittedTypes, FS_EmptySet DEF Init, Committed
<1>2. TypeOK /\ Committed /\ LocalAccounting => LocalBounded
  <2> SUFFICES ASSUME TypeOK, Committed, LocalAccounting PROVE LocalBounded
    OBVIOUS
  <2>1. localUsed \in Int /\ slipped \in Int
    BY DEF TypeOK, DictionariesOK
  <2>2. localUsed <= Budget + (Cardinality(Writers) - 1) * MaxSize
    BY CommittedTypes DEF Committed
  <2>3. Cardinality(LocalBytes) = localUsed + slipped
    BY <2>1, LocalBytesNat DEF LocalAccounting
  <2> QED BY <2>1, <2>2, <2>3, CommittedTypes DEF LocalBounded
<1> QED BY <1>1, <1>2, CommittedStep, TypeCorrect, AccountingHolds, PTL DEF Spec
-----------------------------------------------------------------------------
(* What a get may answer                                                   *)

\* Peer p holds a value of V under k; or it holds none, because it has lost
\* the block or because none is among the values.
AtPeer(p, k, V) ==
    IF k \in DOMAIN remote[p] THEN remote[p][k] \in V
    ELSE <<p, k>> \in lost \/ Missing \in V

\* The values that the peer in the index may hold: while a put has reached the
\* peer and is not in the index yet, the value of the put as well.
Versions(k) ==
    current[k] \cup {thread[w].data : w \in
        {v \in Writers : thread[v].at = "put_stored" /\ thread[v].key = k}}

\* What the index says of block k leads to one of its current values.
IndexAt(k) ==
    /\ k \in DOMAIN local => local[k] \in current[k]
    /\ k \notin DOMAIN index => Missing \in current[k]
    /\ k \in DOMAIN index /\ index[k] # "local" => AtPeer(index[k], k, Versions(k))

IndexCurrent == \A k \in Keys : IndexAt(k)

\* Of a key at which operations have crossed any value is current; at another
\* key one thread at most is in the middle of something.
SoleAt(k) ==
    IF k \in crossed THEN current[k] = Anything
    ELSE \A t, u \in Changers : Busy(thread[t], k) /\ Busy(thread[u], k) => t = u

Sole == \A k \in Keys : SoleAt(k)

\* What a thread in the middle of something relies on: a block about to be
\* entered in the index is at its peer, one about to be deleted there has left
\* the index, and one that is being moved is still what was read.
Relies(t, k) ==
    /\ thread[t].at \in {"put_stored", "spill_stored"} =>
        AtPeer(thread[t].peer, k, {thread[t].data})
    /\ thread[t].at \in {"del_call", "clear_calls"} => k \notin DOMAIN index
    /\ thread[t].at \in {"spill_call", "spill_stored"} =>
        k \in DOMAIN local /\ local[k] = thread[t].data

BusyCurrent ==
    \A t \in Changers, k \in Keys \ crossed : Busy(thread[t], k) => Relies(t, k)

\* A get in progress has seen every value its key has, and what the peer it
\* asks will answer.
SeesCurrent(r) ==
    current[thread[r].key] \cup InProgress(thread, thread[r].key) \subseteq seen[r]

SeesAnswer(r) ==
    /\ thread[r].at = "get_call" =>
        /\ AtPeer(thread[r].peer, thread[r].key, seen[r])
        /\ <<thread[r].peer, thread[r].key>> \in lost => Missing \in seen[r]
    /\ thread[r].at = "got" => thread[r].result \in seen[r]

ReadersCurrent ==
    \A r \in Readers : thread[r] # Idle => SeesCurrent(r) /\ SeesAnswer(r)

Current == Sole /\ IndexCurrent /\ BusyCurrent

Typed == TypeOK /\ LocalIndexAgree

-----------------------------------------------------------------------------
\* A step leaves block k at peer p as it is, or loses it with a peer of down.
Untouched(p, k, down) ==
    /\ k \in DOMAIN remote'[p] =>
        k \in DOMAIN remote[p] /\ remote'[p][k] = remote[p][k]
    /\ k \in DOMAIN remote[p] => k \in DOMAIN remote'[p] \/ p \in down

\* It leaves what the dictionaries have of k.
Kept(k) ==
    /\ k \in DOMAIN local' <=> k \in DOMAIN local
    /\ k \in DOMAIN local => local'[k] = local[k]
    /\ k \in DOMAIN index' <=> k \in DOMAIN index
    /\ k \in DOMAIN index => index'[k] = index[k]

\* What a step may do to block k at peer p: leave it, store a value that a get
\* must reckon with, or delete it when a get must reckon with that.
Fate(p, k, down) ==
    \/ Untouched(p, k, down)
    \/ /\ k \in DOMAIN remote'[p]
       /\ remote'[p][k] \in current[k] \cup InProgress(thread, k)
    \/ k \notin DOMAIN remote'[p] /\ Missing \in current[k]

Fates(down) == \A p \in Peers, k \in Keys : Fate(p, k, down)

\* No operation but thread t's is, or has been, under way on k.
Alone(t, k) ==
    k \notin crossed /\ \A u \in Changers \ {t} : ~Busy(thread[u], k)

\* What is asked of a step of thread t that touches the keys of new: the others
\* stand still; a key that it neither touches nor was in the middle of stays as
\* it is; and one that it had to itself it leaves in order.
Orderly(t, new) ==
    /\ \A u \in Changers \ {t} : thread'[u] = thread[u]
    /\ \A k \in Keys \ DOMAIN new :
        ~Busy(thread[t], k) =>
            /\ ~Busy(thread'[t], k)
            /\ Kept(k)
            /\ \A p \in Peers : Untouched(p, k, {})
    /\ \A k \in Keys :
        Alone(t, k) /\ (k \in DOMAIN new \/ Busy(thread[t], k)) =>
            IndexAt(k)' /\ (Busy(thread'[t], k) => Relies(t, k)')

\* A block that is not touched answers as before.
LEMMA PeerKeeps ==
  ASSUME NEW p \in Peers, NEW k \in Keys, NEW V, NEW down, Watch(down),
         AtPeer(p, k, V), Untouched(p, k, down)
  PROVE  AtPeer(p, k, V)'
<1>1. CASE k \in DOMAIN remote'[p]
  BY <1>1 DEF AtPeer, Untouched
<1>2. CASE k \notin DOMAIN remote'[p]
  <2>1. <<p, k>> \in lost \/ (p \in down /\ k \in DOMAIN remote[p]) => <<p, k>> \in lost'
    <3> DEFINE x == <<p, k>>
    <3>1. x \in Peers \X Keys /\ x[1] = p /\ x[2] = k
      OBVIOUS
    <3> QED BY <1>2, <3>1 DEF Watch
  <2> QED BY <1>2, <2>1 DEF AtPeer, Untouched
<1> QED BY <1>1, <1>2

\* The index keeps leading to a current value of block k when the step changes
\* neither its entry nor the block, and takes no value away.
LEMMA IndexKept ==
  ASSUME DictionariesOK, NEW k \in Keys, IndexAt(k), NEW down, Watch(down),
         \A p \in Peers :
            k \in DOMAIN index /\ index[k] = p => Untouched(p, k, down),
         Kept(k), current[k] \subseteq current'[k],
         Versions(k) \subseteq Versions(k)'
  PROVE  IndexAt(k)'
<1>1. ASSUME k \in DOMAIN index, index[k] # "local"
      PROVE  AtPeer(index[k], k, Versions(k))'
  <2>1. PICK p \in Peers : p = index[k]
    BY <1>1 DEF DictionariesOK, IsDict
  <2>2. PICK V : V = Versions(k)
    OBVIOUS
  <2>3. AtPeer(p, k, V)
    BY <1>1, <2>1, <2>2 DEF IndexAt
  <2>4. AtPeer(p, k, V)'
    BY <1>1, <2>1, <2>3, PeerKeeps
  <2>5. p = index'[k] /\ V \subseteq Versions(k)'
    BY <1>1, <2>1, <2>2 DEF Kept
  <2> QED BY <2>4, <2>5 DEF AtPeer
<1> QED BY <1>1 DEF IndexAt, Kept

\* What a thread relies on lasts through a step that leaves its key alone.
LEMMA ReliesKept ==
  ASSUME ThreadsOK, NEW t \in Changers, thread'[t] = thread[t], NEW k \in Keys,
         Busy(thread[t], k), Relies(t, k), NEW down, Watch(down), Kept(k),
         \A p \in Peers : Untouched(p, k, down)
  PROVE  Relies(t, k)'
<1>1. ASSUME thread[t].at \in {"put_stored", "spill_stored"}
      PROVE  AtPeer(thread[t].peer, k, {thread[t].data})'
  <2>1. thread[t].peer \in Peers
    <3>1. CASE t \in Writers
      BY <1>1, <3>1 DEF ThreadsOK, WriterState, Idle, Putting, Stored, Deleting
    <3>2. CASE t \in Spillers
      BY <1>1, <3>2 DEF ThreadsOK, SpillerState, Idle, Spilling, Moving, Moved
    <3> QED BY <3>1, <3>2 DEF Changers
  <2>2. PICK p \in Peers, d \in {thread[t].data} : p = thread[t].peer
    BY <2>1
  <2>3. AtPeer(p, k, {d})
    BY <1>1, <2>2 DEF Relies
  <2>4. AtPeer(p, k, {d})'
    BY <2>3, PeerKeeps
  <2> QED BY <2>2, <2>4 DEF AtPeer
<1> QED BY <1>1 DEF Relies, Kept

\* When any value is current, whatever the index says leads to one.
LEMMA AnyIndex ==
  ASSUME DictionariesOK', NEW k \in Keys, current'[k] = Anything
  PROVE  IndexAt(k)'
<1>1. Data \subseteq Versions(k)' /\ Missing \in Versions(k)'
  BY DEF Versions, Anything
<1>2. \A p \in Peers : AtPeer(p, k, Versions(k))'
  BY <1>1 DEF AtPeer, DictionariesOK, IsDict
<1>3. k \in DOMAIN index' /\ index'[k] # "local" => index'[k] \in Peers
  BY DEF DictionariesOK, IsDict
<1> QED BY <1>2, <1>3 DEF IndexAt, Anything, DictionariesOK, IsDict

\* An orderly step keeps the index, and what threads rely on, in order.
LEMMA OrderlyStep ==
  ASSUME TypeOK, TypeOK', Current, NEW t \in Changers, NEW new, Touch(t, new),
         Watch({}), Orderly(t, new)
  PROVE  Current'
<1>1. DictionariesOK /\ ThreadsOK /\ DictionariesOK'
  BY DEF TypeOK
<1>2. ASSUME NEW k \in Keys
      PROVE  /\ k \notin DOMAIN new => current'[k] = current[k]
             /\ k \in DOMAIN new /\ Overlaps(t, k) => current'[k] = Anything
             /\ k \in crossed' <=> /\ k \in crossed \/ (k \in DOMAIN new /\ Overlaps(t, k))
                                   /\ \E u \in Changers : Busy(thread'[u], k)
  BY DEF Touch
<1>3. ASSUME NEW k \in Keys, k \in crossed
      PROVE  /\ current'[k] = Anything
             /\ k \notin crossed' => \A u \in Changers : ~Busy(thread'[u], k)
  <2>1. current[k] = Anything
    BY <1>3 DEF Current, Sole, SoleAt
  <2>2. k \in DOMAIN new => Overlaps(t, k)
    BY <1>3 DEF Overlaps
  <2> QED BY <1>2, <1>3, <2>1, <2>2
\* Of a key where nothing crosses: whoever is in the middle of something after
\* the step has the key alone.
<1>4. ASSUME NEW k \in Keys, k \notin crossed', NEW u \in Changers,
             Busy(thread'[u], k)
      PROVE  /\ Alone(u, k)
             /\ u = t => k \in DOMAIN new \/ Busy(thread[t], k)
             /\ u # t => /\ thread'[u] = thread[u] /\ k \notin DOMAIN new
                         /\ ~Busy(thread[t], k)
  <2>1. k \notin crossed
    BY <1>3, <1>4
  <2>2. k \in DOMAIN new => ~Overlaps(t, k)
    BY <1>2, <1>4
  <2>3. \A a, b \in Changers : Busy(thread[a], k) /\ Busy(thread[b], k) => a = b
    BY <2>1 DEF Current, Sole, SoleAt
  <2>4. CASE u = t
    <3>1. k \in DOMAIN new \/ Busy(thread[t], k)
      BY <1>4, <2>4 DEF Orderly
    <3>2. CASE k \in DOMAIN new
      BY <2>1, <2>2, <2>4, <3>2 DEF Overlaps, Alone
    <3>3. CASE Busy(thread[t], k)
      BY <2>1, <2>3, <2>4, <3>3 DEF Alone
    <3> QED BY <2>4, <3>1, <3>2, <3>3
  <2>5. CASE u # t
    <3>1. thread'[u] = thread[u] /\ Busy(thread[u], k)
      BY <1>4, <2>5 DEF Orderly
    <3>2. k \notin DOMAIN new
      BY <2>2, <2>5, <3>1 DEF Overlaps
    <3> QED BY <2>1, <2>3, <2>5, <3>1, <3>2 DEF Alone
  <2> QED BY <2>4, <2>5
<1>5. ASSUME NEW k \in Keys PROVE SoleAt(k)'
  <2>1. CASE k \in crossed'
    <3>1. current'[k] = Anything
      BY <1>2, <1>3, <2>1
    <3> QED BY <2>1, <3>1 DEF SoleAt
  <2>2. CASE k \notin crossed'
    <3>1. ASSUME NEW a \in Changers, NEW b \in Changers,
                 Busy(thread'[a], k), Busy(thread'[b], k)
          PROVE  a = b
      <4>1. Alone(a, k) /\ Alone(b, k)
        BY <1>4, <2>2, <3>1
      <4>2. a = t \/ b = t \/ a = b
        BY <1>4, <2>2, <3>1, <4>1 DEF Alone
      <4>3. ASSUME NEW c \in Changers, c # t, Busy(thread'[c], k), Busy(thread'[t], k)
            PROVE  FALSE
        BY <1>4, <2>2, <4>3
      <4> QED BY <3>1, <4>2, <4>3
    <3> QED BY <2>2, <3>1 DEF SoleAt
  <2> QED BY <2>1, <2>2
<1>6. ASSUME NEW k \in Keys PROVE IndexAt(k)'
  <2>1. CASE current'[k] = Anything
    BY <1>1, <2>1, AnyIndex
  <2>2. CASE current'[k] # Anything
    <3>1. k \notin crossed /\ (k \in DOMAIN new => ~Overlaps(t, k))
      BY <1>2, <1>3, <2>2
    <3>2. CASE k \in DOMAIN new
      BY <3>1, <3>2 DEF Orderly, Overlaps, Alone
    <3>3. CASE Busy(thread[t], k)
      BY <3>1, <3>3 DEF Orderly, Alone, Current, Sole, SoleAt
    <3>4. CASE k \notin DOMAIN new /\ ~Busy(thread[t], k)
      <4>1. Kept(k) /\ \A p \in Peers : Untouched(p, k, {})
        BY <3>4 DEF Orderly
      <4>2. current'[k] = current[k]
        BY <1>2, <3>4
      <4>3. \A v \in Writers :
                thread[v].at = "put_stored" /\ thread[v].key = k => thread'[v] = thread[v]
        BY <3>4 DEF Orderly, Changers, Busy
      <4>4. Versions(k) \subseteq Versions(k)'
        BY <4>2, <4>3 DEF Versions
      <4>5. IndexAt(k)
        BY DEF Current, IndexCurrent
      <4> QED BY <1>1, <4>1, <4>2, <4>4, <4>5, IndexKept
    <3> QED BY <3>2, <3>3, <3>4
  <2> QED BY <2>1, <2>2
<1>7. ASSUME NEW u \in Changers, NEW k \in Keys, k \notin crossed', Busy(thread'[u], k)
      PROVE  Relies(u, k)'
  <2>1. CASE u = t
    BY <1>4, <1>7, <2>1 DEF Orderly
  <2>2. CASE u # t
    <3>1. /\ thread'[u] = thread[u] /\ Busy(thread[u], k) /\ Relies(u, k)
      <4>1. k \notin crossed /\ thread'[u] = thread[u]
        BY <1>4, <1>7, <2>2 DEF Alone
      <4> QED BY <1>7, <4>1 DEF Current, BusyCurrent
    <3>2. Kept(k) /\ \A p \in Peers : Untouched(p, k, {})
      BY <1>4, <1>7, <2>2 DEF Orderly
    <3> QED BY <1>1, <3>1, <3>2, ReliesKept
  <2> QED BY <2>1, <2>2
<1> QED BY <1>5, <1>6, <1>7 DEF Current, Sole, IndexCurrent, BusyCurrent

-----------------------------------------------------------------------------
\* Storing or dropping one block at one peer leaves the others.
LEMMA StoreTouches ==
  ASSUME DictionariesOK, NEW p, NEW j, NEW d,
         \/ remote' = [remote EXCEPT ![p] = Store(@, j, d)]
         \/ remote' = [remote EXCEPT ![p] = Drop(@, j)],
         NEW q \in Peers, NEW k, NEW down, <<q, k>> # <<p, j>>
  PROVE  Untouched(q, k, down)
  BY DEF Untouched, Store, Drop, DictionariesOK

\* A step that sends nothing to a peer touches no block there.
LEMMA SameTouches ==
  ASSUME remote' = remote, NEW down
  PROVE  \A p \in Peers, k \in Keys : Untouched(p, k, down)
  BY DEF Untouched

\* A put that reached the peer is among the versions.
LEMMA VersionsAre ==
  ASSUME NEW k \in Keys, NEW w \in Writers,
         thread[w].at = "put_stored", thread[w].key = k
  PROVE  thread[w].data \in Versions(k)
  BY DEF Versions

\* Those of a key that a thread has to itself last, unless they were its own.
LEMMA VersionsLast ==
  ASSUME NEW t \in Changers, NEW k \in Keys, Alone(t, k),
         t \in Writers => thread[t].at # "put_stored" \/ thread[t].key # k
  PROVE  Versions(k) = current[k]
  BY DEF Versions, Alone, Busy, Changers

\* What a step of thread t makes of the values of a key it has to itself.
LEMMA TouchAlone ==
  ASSUME NEW t \in Changers, NEW new, Touch(t, new), NEW k \in Keys, Alone(t, k)
  PROVE  current'[k] = IF k \in DOMAIN new THEN new[k] ELSE current[k]
  BY DEF Touch, Overlaps, Alone

\* The step is thread t's alone.
LEMMA GotoOthers ==
  ASSUME TypeOK, NEW t, NEW s, Goto(t, s)
  PROVE  /\ t \in Threads => thread'[t] = s
         /\ \A u \in Changers \ {t} : thread'[u] = thread[u]
         /\ t \in Changers => \A r \in Readers : thread'[r] = thread[r]
  BY CloudConstants DEF Goto, TypeOK, ThreadsOK, Threads, Changers

\* A step that leaves the index and the peers alone, and takes no value away, is
\* orderly if what its thread relies on afterwards holds.
LEMMA QuietStep ==
  ASSUME TypeOK, Current, Watch({}), NEW t \in Changers, NEW new, Touch(t, new),
         UNCHANGED <<local, index, remote>>,
         \A u \in Changers \ {t} : thread'[u] = thread[u],
         t \in Writers => thread[t].at # "put_stored",
         \A k \in DOMAIN new : current[k] \subseteq new[k],
         \A k \in Keys : Busy(thread'[t], k) =>
            (k \in DOMAIN new \/ Busy(thread[t], k)) /\ (Alone(t, k) => Relies(t, k)')
  PROVE  Orderly(t, new) /\ Fates({})
<1>1. \A p \in Peers, k \in Keys : Untouched(p, k, {})
  BY SameTouches
<1>2. \A k \in Keys : Kept(k)
  BY DEF Kept
<1>3. ASSUME NEW k \in Keys, Alone(t, k) PROVE IndexAt(k)'
  <2>1. Versions(k) = current[k]
    BY <1>3, VersionsLast
  <2>2. current[k] \subseteq current'[k]
    BY <1>3, TouchAlone
  <2>3. current'[k] \subseteq Versions(k)'
    BY DEF Versions
  <2>4. IndexAt(k) /\ DictionariesOK
    BY DEF Current, IndexCurrent, TypeOK
  <2> QED BY <1>1, <1>2, <2>1, <2>2, <2>3, <2>4, IndexKept
<1> QED BY <1>1, <1>2, <1>3 DEF Orderly, Fates, Fate

\* A put's test of the budget, and a put that ends without a trace.
LEMMA PutStarts ==
  ASSUME TypeOK, Current, Watch({}), NEW w \in Writers, Touch(w, Empty),
         \/ \E k \in Keys, d \in Data : PutFits(w, k, d) \/ PutOverflows(w, k, d)
         \/ PutNoCapacity(w)
  PROVE  Orderly(w, Empty) /\ Fates({})
<1>1. w \in Changers /\ w \in Threads /\ \A k : k \notin DOMAIN Empty
  BY DEF Changers, Threads, Empty
<1>2. PICK s \in {Idle} \cup Putting :
        /\ Goto(w, s) /\ UNCHANGED <<dictionaries, remote>>
        /\ thread[w].at # "put_stored"
  <2>1. CASE PutNoCapacity(w)
    BY <2>1 DEF PutNoCapacity
  <2>2. ASSUME NEW k \in Keys, NEW d \in Data, PutFits(w, k, d) \/ PutOverflows(w, k, d)
        PROVE  \E s \in Putting :
                    /\ Goto(w, s) /\ UNCHANGED <<dictionaries, remote>>
                    /\ thread[w].at # "put_stored"
    <3>1. thread[w].at # "put_stored"
      BY <2>2 DEF PutFits, PutOverflows, Idle
    <3> QED BY <2>2, <3>1 DEF PutFits, PutOverflows, Putting
  <2> QED BY <2>1, <2>2
<1>3. UNCHANGED <<local, index, remote>>
  BY <1>2 DEF dictionaries
<1>4. \A k : ~Busy(s, k)
  BY <1>2 DEF Busy, Idle, Putting
<1>5. thread'[w] = s /\ \A u \in Changers \ {w} : thread'[u] = thread[u]
  BY <1>1, <1>2, GotoOthers
<1> QED BY <1>1, <1>2, <1>3, <1>4, <1>5, QuietStep

\* A put is entered in the index, here or at the peer it reached.
LEMMA PutEntered ==
  ASSUME TypeOK, Current, Watch({}), NEW w \in Writers,
         PutLocal(w) \/ PutIndexed(w), NEW k, NEW d,
         k = thread[w].key, d = thread[w].data, Touch(w, Only(k, {d}))
  PROVE  k \in Keys /\ d \in Data /\ Orderly(w, Only(k, {d})) /\ Fates({})
<1> DEFINE new == Only(k, {d})
<1>1. /\ w \in Changers /\ w \in Threads
      /\ DOMAIN new = {k} /\ new[k] = {d}
  BY DEF Changers, Threads, Only
<1>2. k \in Keys /\ d \in Data
  BY ThreadKinds DEF PutLocal, PutIndexed, Putting, Stored, TypeOK
<1>3. /\ thread'[w] = Idle /\ \A u \in Changers \ {w} : thread'[u] = thread[u]
      /\ UNCHANGED remote
  BY <1>1, GotoOthers DEF PutLocal, PutIndexed
<1>4. \A p \in Peers, j \in Keys : Untouched(p, j, {})
  BY <1>3, SameTouches
<1>5. \A j \in Keys \ {k} : Kept(j)
  BY DEF Kept, PutLocal, PutIndexed, Store, Drop
<1>6. \A j : ~Busy(thread'[w], j)
  BY <1>3 DEF Busy, Idle
<1>7. \A j \in Keys : Busy(thread[w], j) => j = k
  BY DEF Busy, PutLocal, PutIndexed
<1>8. ASSUME Alone(w, k) PROVE IndexAt(k)'
  <2>1. current'[k] = {d}
    BY <1>1, <1>2, <1>8, TouchAlone
  <2>2. CASE PutLocal(w)
    BY <2>1, <2>2 DEF IndexAt, PutLocal, Store
  <2>3. CASE PutIndexed(w)
    <3>1. PICK p \in Peers : p = thread[w].peer
      BY <2>3, ThreadKinds DEF PutIndexed, Stored, TypeOK
    <3>2. AtPeer(p, k, {d})
      BY <1>1, <1>2, <1>8, <2>3, <3>1
         DEF PutIndexed, Current, BusyCurrent, Busy, Relies, Alone
    <3>3. AtPeer(p, k, {d})'
      BY <1>2, <1>4, <3>2, PeerKeeps
    <3>4. {d} \subseteq Versions(k)'
      BY <2>1 DEF Versions
    <3>5. index'[k] = p /\ k \notin DOMAIN local' /\ k \in DOMAIN index'
      BY <2>3, <3>1 DEF PutIndexed, Store, Drop
    <3> QED BY <3>3, <3>4, <3>5 DEF IndexAt, AtPeer
  <2> QED BY <2>2, <2>3
<1> HIDE DEF new
<1>9. Orderly(w, new)
  BY <1>1, <1>3, <1>4, <1>5, <1>6, <1>7, <1>8 DEF Orderly
<1> QED BY <1>2, <1>4, <1>9 DEF new, Fates, Fate

\* The put of a block reaches a peer, whether or not the put knows it.
LEMMA PutReaches ==
  ASSUME TypeOK, Current, Watch({}), NEW w \in Writers, NEW p \in Peers,
         NEW k, NEW d, k = thread[w].key, d = thread[w].data, NEW new, Touch(w, new),
         \/ PutSent(w, p) /\ new = Only(k, current[k])
         \/ PutRaises(w, p) /\ new = Only(k, MaybeWritten(k, d, p))
  PROVE  Orderly(w, new) /\ Fates({})
<1>1. /\ w \in Changers /\ w \in Threads
      /\ DOMAIN new = {k} /\ current[k] \subseteq new[k]
      /\ thread[w].at = "put_remote" /\ UNCHANGED dictionaries
      /\ remote' = [remote EXCEPT ![p] = Store(@, k, d)]
  BY DEF Changers, Threads, Only, PutSent, PutRaises, MaybeWritten
<1>2. k \in Keys /\ d \in Data /\ DictionariesOK
  BY <1>1, ThreadKinds DEF Putting, TypeOK
<1>3. k \in DOMAIN remote'[p] /\ remote'[p][k] = d
  BY <1>1, <1>2 DEF DictionariesOK, Store
<1>4. PICK s : Goto(w, s) /\
        \/ s = Idle /\ PutRaises(w, p)
        \/ /\ s = [at |-> "put_stored", key |-> k, data |-> d, peer |-> p]
           /\ PutSent(w, p)
  BY DEF PutSent, PutRaises
<1>5. thread'[w] = s /\ \A u \in Changers \ {w} : thread'[u] = thread[u]
  BY <1>1, <1>4, GotoOthers
<1>6. \A q \in Peers, j \in Keys : <<q, j>> # <<p, k>> => Untouched(q, j, {})
  BY <1>1, <1>2, StoreTouches
<1>7. \A j \in Keys : Kept(j)
  BY <1>1 DEF Kept, dictionaries
<1>8. \A j : (Busy(thread'[w], j) => j = k) /\ ~Busy(thread[w], j)
  BY <1>1, <1>4, <1>5 DEF Busy, Idle
<1>9. ASSUME Alone(w, k)
      PROVE  IndexAt(k)' /\ (Busy(thread'[w], k) => Relies(w, k)')
  <2>1. current'[k] = new[k]
    BY <1>1, <1>2, <1>9, TouchAlone
  <2>2. Versions(k) \subseteq Versions(k)'
    <3>1. Versions(k) = current[k]
      BY <1>1, <1>2, <1>9, VersionsLast
    <3> QED BY <1>1, <2>1, <3>1 DEF Versions
  <2>3. k \in DOMAIN index /\ index[k] = p => d \in Versions(k)'
    <3>1. CASE PutSent(w, p)
      <4>1. /\ thread'[w].at = "put_stored" /\ thread'[w].key = k
            /\ thread'[w].data = d
        BY <1>1, <1>4, <1>5, <3>1 DEF PutSent, PutRaises, Goto, Idle
      <4> QED BY <4>1 DEF Versions
    <3>2. CASE PutRaises(w, p) /\ new = Only(k, MaybeWritten(k, d, p))
      BY <2>1, <3>2 DEF MaybeWritten, Only, Versions
    <3> QED BY <3>1, <3>2
  <2>4. IndexAt(k)'
    <3>1. IndexAt(k)
      BY <1>2 DEF Current, IndexCurrent
    <3>2. CASE k \in DOMAIN index /\ index[k] = p
      BY <1>1, <1>3, <2>1, <2>3, <3>1, <3>2 DEF IndexAt, AtPeer, dictionaries
    <3>3. CASE ~(k \in DOMAIN index /\ index[k] = p)
      <4>1. \A q \in Peers : k \in DOMAIN index /\ index[k] = q => Untouched(q, k, {})
        BY <1>2, <1>6, <3>3
      <4> QED BY <1>1, <1>2, <1>7, <2>1, <2>2, <3>1, <4>1, IndexKept
    <3> QED BY <3>2, <3>3
  <2>5. Busy(thread'[w], k) => Relies(w, k)'
    BY <1>3, <1>4, <1>5 DEF Relies, AtPeer, Busy, Idle
  <2> QED BY <2>4, <2>5
<1>10. Orderly(w, new)
  BY <1>1, <1>5, <1>6, <1>7, <1>8, <1>9 DEF Orderly
<1>11. Fates({})
  <2>1. d \in InProgress(thread, k)
    BY <1>1 DEF InProgress
  <2> QED BY <1>3, <1>6, <2>1 DEF Fates, Fate
<1> QED BY <1>10, <1>11

\* A block leaves the index, its DEL being still to be sent if a peer has it.
LEMMA DeleteBegins ==
  ASSUME TypeOK, TypeOK', Current, Watch({}), NEW w \in Writers, NEW k \in Keys,
         DeleteLocal(w, k) \/ DeleteRemote(w, k), Touch(w, Only(k, {Missing}))
  PROVE  Orderly(w, Only(k, {Missing})) /\ Fates({})
<1> DEFINE new == Only(k, {Missing})
<1>1. /\ w \in Changers /\ w \in Threads
      /\ DOMAIN new = {k} /\ new[k] = {Missing}
  BY DEF Changers, Threads, Only
<1>2. PICK s : /\ thread'[w] = s /\ \A u \in Changers \ {w} : thread'[u] = thread[u]
               /\ s = Idle \/ (s.at = "del_call" /\ s.key = k)
  <2>1. CASE DeleteLocal(w, k)
    BY <2>1 DEF DeleteLocal
  <2>2. CASE DeleteRemote(w, k)
    <3>1. PICK s : /\ s = [at |-> "del_call", key |-> k, peer |-> index[k]]
                   /\ Goto(w, s)
      BY <2>2 DEF DeleteRemote
    <3> QED BY <1>1, <3>1, GotoOthers
  <2> QED BY <2>1, <2>2
<1>3. /\ \A j \in Keys : ~Busy(thread[w], j)
      /\ \A j \in Keys \ {k} : ~Busy(thread'[w], j)
  BY <1>2 DEF DeleteLocal, DeleteRemote, Busy, Idle
<1>4. \A p \in Peers, j \in Keys : Untouched(p, j, {})
  BY SameTouches DEF DeleteLocal, DeleteRemote
<1>5. \A j \in Keys \ {k} : Kept(j)
  BY DEF Kept, DeleteLocal, DeleteRemote, Drop
<1>6. k \notin DOMAIN local' /\ k \notin DOMAIN index'
  BY DEF DeleteLocal, DeleteRemote, Drop
<1>7. ASSUME Alone(w, k)
      PROVE  IndexAt(k)' /\ (Busy(thread'[w], k) => Relies(w, k)')
  <2>1. current'[k] = {Missing}
    BY <1>1, <1>7, TouchAlone
  <2> QED BY <1>2, <1>6, <2>1 DEF IndexAt, Relies, Busy, Idle
<1> HIDE DEF new
<1>8. Orderly(w, new)
  BY <1>1, <1>2, <1>3, <1>4, <1>5, <1>7 DEF Orderly
<1> QED BY <1>4, <1>8 DEF new, Fates, Fate

\* The DEL of block j goes to peer p, or is lost.
LEMMA DelEnds ==
  ASSUME TypeOK, Current, Watch({}), NEW w \in Writers, NEW j \in Keys,
         NEW p \in Peers, Busy(thread[w], j),
         thread[w].at \in {"del_call", "clear_calls"}, Touch(w, Empty),
         DelDone(p, j) \/ DelLost, UNCHANGED dictionaries,
         \A u \in Changers \ {w} : thread'[u] = thread[u],
         ~Busy(thread'[w], j),
         \A k \in Keys : Busy(thread'[w], k) =>
            Busy(thread[w], k) /\ thread'[w].at = "clear_calls"
  PROVE  Orderly(w, Empty) /\ Fates({})
<1>1. w \in Changers /\ DOMAIN Empty = {} /\ DictionariesOK
  BY DEF Changers, Empty, TypeOK
<1>2. ASSUME NEW k \in Keys, Alone(w, k), Busy(thread[w], k)
      PROVE  k \notin DOMAIN index /\ Missing \in current[k]
  BY <1>1, <1>2 DEF Current, BusyCurrent, Alone, Relies, IndexCurrent, IndexAt
<1>3. \A q \in Peers, k \in Keys : <<q, k>> # <<p, j>> => Untouched(q, k, {})
  BY <1>1, StoreTouches, SameTouches DEF DelDone, DelLost
<1>4. \A k \in Keys : Kept(k)
  BY DEF Kept, dictionaries
<1>5. ASSUME NEW k \in Keys, Alone(w, k), Busy(thread[w], k)
      PROVE  IndexAt(k)' /\ (Busy(thread'[w], k) => Relies(w, k)')
  <2>1. current'[k] = current[k]
    BY <1>1, <1>5, TouchAlone
  <2>2. IndexAt(k)'
    BY <1>2, <1>5, <2>1 DEF IndexAt, Current, IndexCurrent, dictionaries
  <2>3. Busy(thread'[w], k) => Relies(w, k)'
    BY <1>2, <1>5 DEF Relies, dictionaries
  <2> QED BY <2>2, <2>3
<1>6. Orderly(w, Empty)
  BY <1>1, <1>3, <1>4, <1>5 DEF Orderly
<1>7. Fate(p, j, {})
  <2>1. CASE DelLost
    BY <2>1, SameTouches DEF DelLost, Fate
  <2>2. CASE DelDone(p, j)
    <3>1. j \notin DOMAIN remote'[p]
      BY <1>1, <2>2 DEF DelDone, DictionariesOK, Drop
    <3>2. Missing \in current[j]
      <4>1. CASE j \in crossed
        BY <4>1 DEF Current, Sole, SoleAt, Anything
      <4>2. CASE j \notin crossed
        BY <1>1, <1>2, <4>2 DEF Current, Sole, SoleAt, Alone
      <4> QED BY <4>1, <4>2
    <3> QED BY <3>1, <3>2 DEF Fate
  <2> QED BY <2>1, <2>2
<1>8. Fates({})
  BY <1>3, <1>7 DEF Fates, Fate
<1> QED BY <1>6, <1>8

\* The calls of delete and clear.
LEMMA DeleteEnds ==
  ASSUME TypeOK, Current, Watch({}), NEW w \in Writers, Touch(w, Empty),
         DeleteCall(w) \/ ClearCall(w) \/ ClearReturn(w)
  PROVE  Orderly(w, Empty) /\ Fates({})
<1>1. w \in Changers /\ w \in Threads /\ DOMAIN Empty = {}
  BY DEF Changers, Threads, Empty
<1>2. CASE DeleteCall(w)
  <2>1. PICK k \in Keys, p \in Peers : k = thread[w].key /\ p = thread[w].peer
    BY <1>2, ThreadKinds DEF DeleteCall, Deleting, TypeOK
  <2>2. thread'[w] = Idle /\ \A u \in Changers \ {w} : thread'[u] = thread[u]
    BY <1>1, <1>2, GotoOthers DEF DeleteCall
  <2>3. Busy(thread[w], k) /\ \A j : ~Busy(thread'[w], j)
    BY <1>2, <2>1, <2>2 DEF DeleteCall, Busy, Idle
  <2> QED BY <1>2, <2>1, <2>2, <2>3, DelEnds DEF DeleteCall
<1>3. CASE ClearCall(w)
  <2>1. IsClearing(thread[w])
    BY <1>3, ThreadKinds DEF ClearCall, TypeOK
  <2>2. PICK k \in DOMAIN thread[w].todo :
            /\ DelDone(thread[w].todo[k], k) \/ DelLost
            /\ Goto(w, [thread[w] EXCEPT !.todo = Drop(@, k)])
    BY <1>3 DEF ClearCall
  <2>3. k \in Keys /\ thread[w].todo[k] \in Peers
    BY <2>1, <2>2 DEF IsClearing, IsDict
  <2>4. /\ thread'[w] = [thread[w] EXCEPT !.todo = Drop(@, k)]
        /\ \A u \in Changers \ {w} : thread'[u] = thread[u]
    BY <1>1, <2>2, GotoOthers
  <2>5. thread'[w] = [at |-> "clear_calls", todo |-> Drop(thread[w].todo, k)]
    BY <2>1, <2>4 DEF IsClearing
  <2>6. /\ Busy(thread[w], k) /\ ~Busy(thread'[w], k)
        /\ \A j \in Keys : Busy(thread'[w], j) =>
                Busy(thread[w], j) /\ thread'[w].at = "clear_calls"
    BY <1>3, <2>2, <2>5 DEF ClearCall, Busy, Drop
  <2>7. PICK p \in Peers : p = thread[w].todo[k]
    BY <2>3
  <2> QED BY <1>3, <2>2, <2>3, <2>4, <2>6, <2>7, DelEnds DEF ClearCall
<1>4. CASE ClearReturn(w)
  <2>1. thread'[w] = Idle /\ \A u \in Changers \ {w} : thread'[u] = thread[u]
    BY <1>1, <1>4, GotoOthers DEF ClearReturn
  <2>2. \A j : ~Busy(thread'[w], j)
    BY <2>1 DEF Busy, Idle
  <2> QED BY <1>1, <1>4, <2>1, <2>2, QuietStep DEF ClearReturn, dictionaries
<1> QED BY <1>2, <1>3, <1>4

\* clear empties the dictionaries, and has DELs to send.
LEMMA ClearBegins ==
  ASSUME TypeOK, Current, Watch({}), NEW w \in Writers, Clear(w),
         NEW new, new = [j \in Keys |-> {Missing}], Touch(w, new)
  PROVE  Orderly(w, new) /\ Fates({})
<1>1. w \in Changers /\ w \in Threads /\ DOMAIN new = Keys
  BY DEF Changers, Threads
<1>2. /\ thread'[w] = [at |-> "clear_calls", todo |-> AtPeers]
      /\ \A u \in Changers \ {w} : thread'[u] = thread[u]
  <2>1. PICK s : s = [at |-> "clear_calls", todo |-> AtPeers] /\ Goto(w, s)
    BY DEF Clear
  <2> QED BY <1>1, <2>1, GotoOthers
<1>3. DOMAIN index' = {} /\ DOMAIN local' = {} /\ UNCHANGED remote
  BY DEF Clear, Empty
<1>4. ASSUME NEW k \in Keys, Alone(w, k)
      PROVE  IndexAt(k)' /\ Relies(w, k)'
  <2>1. current'[k] = {Missing}
    BY <1>1, <1>4, TouchAlone
  <2> QED BY <1>2, <1>3, <2>1 DEF IndexAt, Relies
<1>5. Orderly(w, new)
  BY <1>1, <1>2, <1>4 DEF Orderly
<1>6. Fates({})
  BY <1>3, SameTouches DEF Fates, Fate
<1> QED BY <1>5, <1>6

\* Every step of a writer is orderly.
LEMMA WriterCurrent ==
  ASSUME Typed, TypeOK', Current, NEW w \in Writers, HWriterStep(w), Watch({})
  PROVE  Current' /\ Fates({})
<1>1. TypeOK /\ w \in Changers
  BY DEF Typed, Changers
<1> DEFINE goal == Current' /\ Fates({})
<1>2. ASSUME NEW new, Touch(w, new), Orderly(w, new), Fates({}) PROVE goal
  BY <1>1, <1>2, OrderlyStep
<1> HIDE DEF goal
<1>3. PICK k, d : k = thread[w].key /\ d = thread[w].data
  OBVIOUS
<1>4. ASSUME Touch(w, Empty),
             \/ \E j \in Keys, c \in Data : PutFits(w, j, c) \/ PutOverflows(w, j, c)
             \/ PutNoCapacity(w)
      PROVE  goal
  BY <1>1, <1>2, <1>4, PutStarts
<1>5. ASSUME Touch(w, Empty), DeleteCall(w) \/ ClearCall(w) \/ ClearReturn(w)
      PROVE  goal
  BY <1>1, <1>2, <1>5, DeleteEnds
<1>6. ASSUME PutLocal(w) \/ PutIndexed(w), Touch(w, Only(k, {d})) PROVE goal
  BY <1>1, <1>2, <1>3, <1>6, PutEntered
<1>7. ASSUME NEW p \in Peers, NEW new, Touch(w, new),
             \/ PutSent(w, p) /\ new = Only(k, current[k])
             \/ PutRaises(w, p) /\ new = Only(k, MaybeWritten(k, d, p))
      PROVE  goal
  BY <1>1, <1>2, <1>3, <1>7, PutReaches
<1>8. ASSUME NEW j \in Keys, DeleteLocal(w, j) \/ DeleteRemote(w, j),
             Touch(w, Only(j, {Missing}))
      PROVE  goal
  BY <1>1, <1>2, <1>8, DeleteBegins
<1>9. ASSUME Clear(w), NEW new, new = [j \in Keys |-> {Missing}], Touch(w, new)
      PROVE  goal
  BY <1>1, <1>2, <1>9, ClearBegins
<1>10. ASSUME NEW p \in Peers, PutSent(w, p), Touch(w, Only(k, current[k])) PROVE goal
  BY <1>7, <1>10
<1>11. ASSUME NEW p \in Peers, PutRaises(w, p), Touch(w, Only(k, MaybeWritten(k, d, p)))
       PROVE  goal
  BY <1>7, <1>11
<1>12. ASSUME Clear(w), Touch(w, [j \in Keys |-> {Missing}]) PROVE goal
  BY <1>9, <1>12
<1>13. goal
  BY <1>3, <1>4, <1>5, <1>6, <1>8, <1>10, <1>11, <1>12 DEF HWriterStep
<1> QED BY <1>13 DEF goal

\* A spill picks a block, gives up, or begins.
LEMMA SpillQuiet ==
  ASSUME Typed, TypeOK', Current, Watch({}), NEW s \in Spillers, NEW new,
         Touch(s, new),
         \/ (\E target \in Targets : SpillStart(s, target)) /\ new = Empty
         \/ /\ SpillPick(s)
            /\ new = [k \in {j \in Keys : Busy(thread'[s], j)} |-> current[k]]
         \/ SpillEnds(s) /\ UNCHANGED remote /\ new = Empty
  PROVE  Orderly(s, new) /\ Fates({})
<1>1. /\ s \in Changers /\ s \in Threads /\ s \notin Writers
      /\ DOMAIN Empty = {} /\ TypeOK /\ DictionariesOK
  BY CloudConstants DEF Changers, Threads, Empty, Typed, TypeOK
<1>2. UNCHANGED <<local, index, remote>>
  BY DEF SpillStart, SpillPick, SpillEnds, dictionaries
<1>3. \A u \in Changers \ {s} : thread'[u] = thread[u]
  <2>1. thread' = thread \/ \E z : Goto(s, z)
    BY DEF SpillStart, SpillPick, SpillEnds
  <2> QED BY <1>1, <2>1, GotoOthers
<1>4. \A k \in DOMAIN new : current[k] \subseteq new[k]
  BY <1>1
<1>5. ASSUME NEW k \in Keys, Busy(thread'[s], k)
      PROVE  k \in DOMAIN new /\ (Alone(s, k) => Relies(s, k)')
  <2>1. CASE \E target \in Targets : SpillStart(s, target)
    <3>1. PICK n \in Targets : Goto(s, [at |-> "spill_pick", need |-> n])
      BY <2>1 DEF SpillStart
    <3>2. thread'[s] = [at |-> "spill_pick", need |-> n]
      BY <1>1, <3>1, GotoOthers
    <3> QED BY <1>5, <3>2 DEF Busy
  <2>2. CASE SpillEnds(s)
    <3>1. thread'[s] = Idle
      BY <1>1, <2>2, GotoOthers DEF SpillEnds
    <3> QED BY <1>5, <3>1 DEF Busy, Idle
  <2>3. CASE /\ SpillPick(s)
             /\ new = [j \in {i \in Keys : Busy(thread'[s], i)} |-> current[j]]
    <3>1. PICK j \in lru :
            IF j \in DOMAIN local
            THEN Goto(s, [at |-> "spill_call", need |-> thread[s].need,
                          key |-> j, data |-> local[j]])
            ELSE UNCHANGED thread
      BY <2>3 DEF SpillPick
    <3>2. j \in DOMAIN local
      BY <3>1 DEF Typed, LocalIndexAgree
    <3>3. PICK n, d : n = thread[s].need /\ d = local[j]
      OBVIOUS
    <3>4. thread'[s] = [at |-> "spill_call", need |-> n, key |-> j, data |-> d]
      BY <1>1, <3>1, <3>2, <3>3, GotoOthers
    <3>5. k = j
      BY <1>5, <3>4 DEF Busy
    <3>6. Relies(s, k)'
      BY <1>2, <3>2, <3>3, <3>4, <3>5 DEF Relies
    <3> QED BY <1>5, <2>3, <3>6
  <2> QED BY <2>1, <2>2, <2>3
<1> QED BY <1>1, <1>2, <1>3, <1>4, <1>5, QuietStep

\* The block that a spill moves reaches a peer, whether or not the spill knows it.
LEMMA SpillReaches ==
  ASSUME Typed, TypeOK', Current, Watch({}), NEW s \in Spillers, NEW p \in Peers,
         thread[s].at = "spill_call", NEW k, NEW d,
         k = thread[s].key, d = thread[s].data, Touch(s, Empty),
         UNCHANGED dictionaries, remote' = [remote EXCEPT ![p] = Store(@, k, d)],
         \A u \in Changers \ {s} : thread'[u] = thread[u],
         \/ thread'[s] = Idle
         \/ /\ thread'[s].at = "spill_stored" /\ thread'[s].key = k
            /\ thread'[s].data = d /\ thread'[s].peer = p
  PROVE  Orderly(s, Empty) /\ Fates({})
<1>1. /\ s \in Changers /\ DOMAIN Empty = {}
      /\ DictionariesOK /\ ThreadsOK /\ LocalIndexAgree
  BY DEF Changers, Empty, Typed, TypeOK
<1>2. k \in Keys /\ d \in Data
  BY <1>1, ThreadKinds DEF Moving
<1>3. k \in DOMAIN remote'[p] /\ remote'[p][k] = d
  BY <1>1, <1>2 DEF DictionariesOK, Store
<1>4. \A q \in Peers, j \in Keys : <<q, j>> # <<p, k>> => Untouched(q, j, {})
  BY <1>1, StoreTouches
<1>5. \A j \in Keys : Kept(j)
  BY DEF Kept, dictionaries
<1>6. \A j \in Keys : (Busy(thread[s], j) <=> j = k) /\ (Busy(thread'[s], j) => j = k)
  BY DEF Busy, Idle
<1>7. Alone(s, k) => /\ k \in DOMAIN local /\ local[k] = d
                     /\ k \in DOMAIN index /\ index[k] = "local"
                     /\ d \in current[k]
  <2>1. Alone(s, k) => Relies(s, k)
    BY <1>1, <1>2, <1>6 DEF Current, BusyCurrent, Alone
  <2> QED BY <1>1, <1>2, <2>1
       DEF Relies, LocalIndexAgree, Current, IndexCurrent, IndexAt
<1>8. ASSUME Alone(s, k)
      PROVE  IndexAt(k)' /\ (Busy(thread'[s], k) => Relies(s, k)')
  <2>1. current'[k] = current[k]
    BY <1>1, <1>2, <1>8, TouchAlone
  <2>2. IndexAt(k)'
    BY <1>7, <1>8, <2>1 DEF IndexAt, dictionaries
  <2>3. Busy(thread'[s], k) => Relies(s, k)'
    BY <1>3, <1>7, <1>8 DEF Relies, AtPeer, Busy, Idle, dictionaries
  <2> QED BY <2>2, <2>3
<1>9. Orderly(s, Empty)
  BY <1>1, <1>4, <1>5, <1>6, <1>8 DEF Orderly
<1>10. d \in current[k]
  <2>1. CASE k \in crossed
    BY <1>2, <2>1 DEF Current, Sole, SoleAt, Anything
  <2>2. CASE k \notin crossed
    BY <1>1, <1>2, <1>6, <1>7, <2>2 DEF Current, Sole, SoleAt, Alone
  <2> QED BY <2>1, <2>2
<1>11. Fates({})
  BY <1>3, <1>4, <1>10 DEF Fates, Fate
<1> QED BY <1>9, <1>11

\* The index follows the block to its peer.
LEMMA SpillEntered ==
  ASSUME Typed, TypeOK', Current, Watch({}), NEW s \in Spillers, SpillIndexed(s),
         Touch(s, Empty)
  PROVE  Orderly(s, Empty) /\ Fates({})
<1>1. /\ s \in Changers /\ s \in Threads /\ DOMAIN Empty = {} /\ TypeOK
      /\ DictionariesOK /\ ThreadsOK
  BY DEF Changers, Threads, Empty, Typed, TypeOK
<1>2. PICK k \in Keys, p \in Peers, d \in Data :
          k = thread[s].key /\ p = thread[s].peer /\ d = thread[s].data
  BY <1>1, ThreadKinds DEF SpillIndexed, Moved
<1>3. PICK z : Goto(s, z) /\ (z = Idle \/ z.at = "spill_pick")
  BY DEF SpillIndexed
<1>4. thread'[s] = z /\ \A u \in Changers \ {s} : thread'[u] = thread[u]
  BY <1>1, <1>3, GotoOthers
<1>5. \A j : ~Busy(thread'[s], j)
  BY <1>3, <1>4 DEF Busy, Idle
<1>6. \A j \in Keys : Busy(thread[s], j) <=> j = k
  BY <1>2 DEF Busy, SpillIndexed
<1>7. /\ local' = Drop(local, k) /\ index' = Store(index, k, p) /\ UNCHANGED remote
  BY <1>2 DEF SpillIndexed
<1>8. \A q \in Peers, j \in Keys : Untouched(q, j, {})
  BY <1>7, SameTouches
<1>9. \A j \in Keys \ {k} : Kept(j)
  BY <1>7 DEF Kept, Drop, Store
<1>10. ASSUME Alone(s, k) PROVE IndexAt(k)'
  <2>1. current'[k] = current[k]
    BY <1>1, <1>10, TouchAlone
  <2>2. Relies(s, k) /\ IndexAt(k)
    BY <1>1, <1>6, <1>10 DEF Current, BusyCurrent, IndexCurrent, Alone
  <2>3. AtPeer(p, k, {d}) /\ d \in current[k]
    BY <1>2, <2>2 DEF Relies, IndexAt, SpillIndexed
  <2>4. AtPeer(p, k, {d})'
    BY <1>8, <2>3, PeerKeeps
  <2>5. {d} \subseteq Versions(k)'
    BY <2>1, <2>3 DEF Versions
  <2>6. k \notin DOMAIN local' /\ k \in DOMAIN index' /\ index'[k] = p
    BY <1>7 DEF Drop, Store
  <2> QED BY <2>4, <2>5, <2>6 DEF IndexAt, AtPeer
<1>11. Orderly(s, Empty)
  BY <1>1, <1>4, <1>5, <1>6, <1>8, <1>9, <1>10 DEF Orderly
<1> QED BY <1>8, <1>11 DEF Fates, Fate

\* Every step of a spill is orderly.
LEMMA SpillerCurrent ==
  ASSUME Typed, TypeOK', Current, NEW s \in Spillers, HSpillerStep(s), Watch({})
  PROVE  Current' /\ Fates({})
<1>1. TypeOK /\ s \in Changers /\ s \in Threads
  BY DEF Typed, Changers, Threads
<1> DEFINE goal == Current' /\ Fates({})
<1>2. ASSUME NEW new, Touch(s, new), Orderly(s, new), Fates({}) PROVE goal
  BY <1>1, <1>2, OrderlyStep
<1> HIDE DEF goal
<1>3. ASSUME NEW new, Touch(s, new),
             \/ (\E target \in Targets : SpillStart(s, target)) /\ new = Empty
             \/ /\ SpillPick(s)
                /\ new = [k \in {j \in Keys : Busy(thread'[s], j)} |-> current[k]]
             \/ SpillEnds(s) /\ UNCHANGED remote /\ new = Empty
      PROVE  goal
  BY <1>2, <1>3, SpillQuiet
<1>4. PICK k, d, n : k = thread[s].key /\ d = thread[s].data /\ n = thread[s].need
  OBVIOUS
<1>5. ASSUME SpillEnds(s), Touch(s, Empty), remote' # remote PROVE goal
  <2>1. PICK p \in Peers : /\ thread[s].at = "spill_call"
                           /\ remote' = [remote EXCEPT ![p] = Store(@, k, d)]
    BY <1>4, <1>5 DEF SpillEnds
  <2>2. thread'[s] = Idle /\ \A u \in Changers \ {s} : thread'[u] = thread[u]
    BY <1>1, <1>5, GotoOthers DEF SpillEnds
  <2>3. UNCHANGED dictionaries
    BY <1>5 DEF SpillEnds
  <2> QED BY <1>2, <1>4, <1>5, <2>1, <2>2, <2>3, SpillReaches
<1>6. ASSUME NEW p \in Peers, SpillSent(s, p), Touch(s, Empty) PROVE goal
  <2>1. /\ thread[s].at = "spill_call" /\ UNCHANGED dictionaries
        /\ remote' = [remote EXCEPT ![p] = Store(@, k, d)]
        /\ Goto(s, [at |-> "spill_stored", need |-> n, key |-> k, data |-> d,
                    peer |-> p])
    BY <1>4, <1>6 DEF SpillSent
  <2>2. /\ thread'[s] = [at |-> "spill_stored", need |-> n, key |-> k, data |-> d,
                         peer |-> p]
        /\ \A u \in Changers \ {s} : thread'[u] = thread[u]
    BY <1>1, <2>1, GotoOthers
  <2>3. /\ thread'[s].at = "spill_stored" /\ thread'[s].key = k
        /\ thread'[s].data = d /\ thread'[s].peer = p
    BY <2>2
  <2> QED BY <1>2, <1>4, <1>6, <2>1, <2>2, <2>3, SpillReaches
<1>7. ASSUME SpillIndexed(s), Touch(s, Empty) PROVE goal
  BY <1>2, <1>7, SpillEntered
<1>8. ASSUME (\E target \in Targets : SpillStart(s, target)), Touch(s, Empty) PROVE goal
  BY <1>3, <1>8
<1>9. ASSUME SpillEnds(s), Touch(s, Empty) PROVE goal
  BY <1>3, <1>5, <1>9
<1>10. ASSUME SpillPick(s),
              Touch(s, [i \in {j \in Keys : Busy(thread'[s], j)} |-> current[i]])
       PROVE  goal
  <2>1. PICK new : new = [i \in {j \in Keys : Busy(thread'[s], j)} |-> current[i]]
    OBVIOUS
  <2> QED BY <1>3, <1>10, <2>1
<1>11. goal
  BY <1>6, <1>7, <1>8, <1>9, <1>10 DEF HSpillerStep
<1> QED BY <1>11 DEF goal

\* A step that touches neither the dictionaries nor the writers and spillers,
\* and takes no more from the peers than a restart does.
LEMMA OthersCurrent ==
  ASSUME Typed, Current, NEW down, Watch(down),
         UNCHANGED <<local, index, current, crossed>>,
         \A t \in Changers : thread'[t] = thread[t],
         \A p \in Peers, k \in Keys : Untouched(p, k, down)
  PROVE  Current' /\ Fates(down)
<1>1. DictionariesOK /\ ThreadsOK /\ \A k \in Keys : Kept(k)
  BY DEF Typed, TypeOK, Kept
<1>2. ASSUME NEW k \in Keys PROVE IndexAt(k)'
  <2>1. IndexAt(k)
    BY DEF Current, IndexCurrent
  <2>2. Versions(k)' = Versions(k)
    BY DEF Versions, Changers
  <2> QED BY <1>1, <2>1, <2>2, IndexKept
<1>3. ASSUME NEW t \in Changers, NEW k \in Keys \ crossed', Busy(thread'[t], k)
      PROVE  Relies(t, k)'
  <2>1. thread'[t] = thread[t] /\ Busy(thread[t], k) /\ Relies(t, k)
    BY <1>3 DEF Current, BusyCurrent
  <2> QED BY <1>1, <2>1, ReliesKept
<1>4. Sole'
  BY DEF Current, Sole, SoleAt
<1> QED BY <1>2, <1>3, <1>4 DEF Current, IndexCurrent, BusyCurrent, Fates, Fate

\* A step that no reader takes leaves every get in progress what it needs: what
\* happens to the block it is after is among the values it has seen.
LEMMA ReaderUndisturbed ==
  ASSUME Typed, ReadersCurrent, NEW down, Watch(down), Fates(down),
         NEW r \in Readers, thread[r] # Idle, thread'[r] = thread[r]
  PROVE  (SeesCurrent(r) /\ SeesAnswer(r))'
<1>1. ThreadsOK
  BY DEF Typed, TypeOK
<1>2. SeesCurrent(r) /\ SeesAnswer(r)
  BY DEF ReadersCurrent
<1> DEFINE missed == {Missing : p \in {q \in Peers :
                        /\ thread'[r].at = "get_call"
                        /\ thread'[r].peer = q
                        /\ <<q, thread'[r].key>> \in lost'}}
<1>3. seen'[r] = seen[r] \cup current'[thread'[r].key]
                    \cup InProgress(thread', thread'[r].key) \cup missed
  BY DEF Watch
<1>4. SeesCurrent(r)'
  BY <1>3 DEF SeesCurrent
<1>5. ASSUME thread[r].at = "get_call"
      PROVE  /\ AtPeer(thread[r].peer, thread[r].key, seen[r])'
             /\ <<thread[r].peer, thread[r].key>> \in lost' => Missing \in seen'[r]
  <2>0. PICK p \in Peers, k \in Keys : p = thread[r].peer /\ k = thread[r].key
    BY <1>1, <1>5, ThreadKinds DEF Getting
  <2>1. PICK V : p = thread[r].peer /\ k = thread[r].key /\ V = seen[r]
    BY <2>0
  <2>2. V \subseteq seen'[r]
    BY <1>3, <2>1
  <2>3. <<p, k>> \in lost' => Missing \in seen'[r]
    BY <1>3, <1>5, <2>1
  <2>4. AtPeer(p, k, V)
    BY <1>2, <1>5, <2>1 DEF SeesAnswer
  <2>5. current[k] \cup InProgress(thread, k) \subseteq V
    BY <1>2, <2>1 DEF SeesCurrent
  <2>6. AtPeer(p, k, V)'
    <3>1. CASE Untouched(p, k, down)
      BY <2>4, <3>1, PeerKeeps
    <3>2. CASE ~Untouched(p, k, down)
      <4>1. Fate(p, k, down)
        BY DEF Fates
      <4> QED BY <2>5, <3>2, <4>1 DEF Fate, AtPeer
    <3> QED BY <3>1, <3>2
  <2> QED BY <2>1, <2>2, <2>3, <2>6 DEF AtPeer
<1>6. thread[r].at = "got" => thread[r].result \in seen'[r]
  BY <1>2, <1>3 DEF SeesAnswer
<1> QED BY <1>4, <1>5, <1>6 DEF SeesAnswer, AtPeer

\* A get that starts, or goes on, is given an answer that it has seen.
LEMMA ReaderAnswers ==
  ASSUME Typed, Current, ReadersCurrent, NEW r \in Readers, ReaderStep(r),
         UNCHANGED current, Watch({})
  PROVE  thread'[r] # Idle => (SeesCurrent(r) /\ SeesAnswer(r))'
<1>1. DictionariesOK /\ ThreadsOK /\ LocalIndexAgree /\ IndexCurrent
  BY DEF Typed, TypeOK, Current
<1>2. r \in DOMAIN thread /\ \A w \in Writers : thread'[w] = thread[w]
  <2>1. \E z : Goto(r, z)
    BY DEF ReaderStep, GetLocal, GetMiss, GetRemote, GetAnswered, GetOffline,
           GetRaises, GetReturn
  <2> QED BY <1>1, <2>1, CloudConstants DEF Goto, ThreadsOK, Threads
<1>3. ASSUME thread'[r] # Idle
      PROVE  /\ current[thread'[r].key] \subseteq seen'[r]
             /\ InProgress(thread', thread'[r].key) \subseteq seen'[r]
             /\ thread[r] # Idle => seen[r] \subseteq seen'[r]
             /\ \A p \in Peers : thread'[r].at = "get_call" /\ thread'[r].peer = p
                    /\ <<p, thread'[r].key>> \in lost' => Missing \in seen'[r]
  BY <1>3 DEF Watch
<1>4. thread'[r] # Idle => SeesCurrent(r)'
  BY <1>3 DEF SeesCurrent
<1>5. ASSUME NEW k \in Keys, GetLocal(r, k) \/ GetMiss(r, k)
      PROVE  SeesAnswer(r)'
  <2>1. thread'[r].at = "got" /\ thread'[r].key = k /\ thread'[r].result \in current[k]
    <3>1. CASE GetLocal(r, k)
      BY <1>1, <1>2, <3>1 DEF GetLocal, Goto, IndexCurrent, IndexAt
    <3>2. CASE GetMiss(r, k)
      <4>1. k \notin DOMAIN index
        BY <1>1, <3>2 DEF GetMiss, LocalIndexAgree
      <4> QED BY <1>1, <1>2, <3>2, <4>1 DEF GetMiss, Goto, IndexCurrent, IndexAt
    <3> QED BY <1>5, <3>1, <3>2
  <2>2. thread'[r] # Idle
    BY <2>1 DEF Idle
  <2> QED BY <1>3, <2>1, <2>2 DEF SeesAnswer
<1>6. ASSUME NEW k \in Keys, GetRemote(r, k)
      PROVE  SeesAnswer(r)'
  <2>1. PICK p \in Peers : p = index[k] /\ p # "local" /\ k \in DOMAIN index
    BY <1>1, <1>6 DEF GetRemote, DictionariesOK, IsDict
  <2>2. /\ thread'[r].at = "get_call" /\ thread'[r].key = k /\ thread'[r].peer = p
        /\ UNCHANGED remote
    BY <1>2, <1>6, <2>1 DEF GetRemote, Goto
  <2>3. thread'[r] # Idle
    BY <2>2 DEF Idle
  <2>4. PICK V : V = Versions(k)
    OBVIOUS
  <2>5. AtPeer(p, k, V)
    BY <1>1, <2>1, <2>4 DEF IndexCurrent, IndexAt
  <2>6. AtPeer(p, k, V)'
    BY <2>2, <2>5, SameTouches, PeerKeeps
  <2>7. V \subseteq seen'[r]
    <3>1. Versions(k) \subseteq current[k] \cup InProgress(thread, k)
      BY DEF Versions, InProgress
    <3>2. InProgress(thread', k) = InProgress(thread, k)
      BY <1>2 DEF InProgress
    <3> QED BY <1>3, <2>2, <2>3, <2>4, <3>1, <3>2
  <2>8. <<p, k>> \in lost' => Missing \in seen'[r]
    BY <1>3, <2>2, <2>3
  <2>9. AtPeer(thread[r].peer, thread[r].key, seen[r])'
    BY <2>2, <2>6, <2>7 DEF AtPeer
  <2> QED BY <2>2, <2>8, <2>9 DEF SeesAnswer
<1>7. CASE GetAnswered(r)
  <2>1. PICK p \in Peers, k \in Keys : p = thread[r].peer /\ k = thread[r].key
    BY <1>1, <1>7, ThreadKinds DEF GetAnswered, Getting
  <2>2. thread[r].at = "get_call" /\ thread[r] # Idle
    BY <1>7 DEF GetAnswered, Idle
  <2>3. /\ thread'[r].at = "got"
        /\ thread'[r].result = IF k \in DOMAIN remote[p] THEN remote[p][k] ELSE Missing
    BY <1>2, <1>7, <2>1 DEF GetAnswered, Goto
  <2>4. thread'[r] # Idle
    BY <2>3 DEF Idle
  <2>5. AtPeer(p, k, seen[r]) /\ (<<p, k>> \in lost => Missing \in seen[r])
    BY <2>1, <2>2 DEF ReadersCurrent, SeesAnswer
  <2>6. thread'[r].result \in seen[r]
    BY <2>3, <2>5 DEF AtPeer
  <2>7. thread'[r].result \in seen'[r]
    BY <1>3, <2>2, <2>4, <2>6
  <2> QED BY <1>4, <2>3, <2>7 DEF SeesAnswer
<1>8. CASE GetOffline(r) \/ GetRaises(r) \/ GetReturn(r)
  <2>1. thread'[r] = Idle \/ thread'[r].at = "offline"
    BY <1>2, <1>8 DEF GetOffline, GetRaises, GetReturn, Goto
  <2> QED BY <1>4, <2>1 DEF SeesAnswer
<1> QED BY <1>4, <1>5, <1>6, <1>7, <1>8 DEF ReaderStep

\* Every step keeps what the index leads to, and what gets have seen, in order.
LEMMA CurrentStep ==
  ASSUME Typed, TypeOK', Current, ReadersCurrent, [HNext]_hvars
  PROVE  Current' /\ ReadersCurrent'
<1>1. ThreadsOK /\ DictionariesOK /\ TypeOK
  BY DEF Typed, TypeOK
\* A step that no reader takes.
<1>2. ASSUME NEW down, Watch(down), Fates(down),
             \A r \in Readers : thread'[r] = thread[r]
      PROVE  ReadersCurrent'
  BY <1>2, ReaderUndisturbed DEF ReadersCurrent
<1>3. ASSUME NEW w \in Writers, HWriterStep(w), Watch({})
      PROVE  Current' /\ ReadersCurrent'
  <2>1. thread' = thread \/ \E z : Goto(w, z)
    BY <1>3 DEF HWriterStep, PutFits, PutOverflows, PutLocal, PutNoCapacity, PutSent,
         PutRaises, PutIndexed, DeleteLocal, DeleteRemote, DeleteCall, Clear,
         ClearCall, ClearReturn
  <2>2. \A r \in Readers : thread'[r] = thread[r]
    BY <1>1, <2>1, GotoOthers DEF Changers
  <2> QED BY <1>2, <1>3, <2>2, WriterCurrent
<1>4. ASSUME NEW r \in Readers, ReaderStep(r), UNCHANGED <<current, crossed>>, Watch({})
      PROVE  Current' /\ ReadersCurrent'
  <2>1. UNCHANGED <<local, index, remote>> /\ \E z : Goto(r, z)
    BY <1>4 DEF ReaderStep, GetLocal, GetMiss, GetRemote, GetAnswered,
                GetOffline, GetRaises, GetReturn, dictionaries
  <2>2. \A t \in Threads \ {r} : thread'[t] = thread[t]
    BY <1>1, <2>1 DEF Goto, ThreadsOK
  <2>3. Current' /\ Fates({})
    <3>1. \A t \in Changers : thread'[t] = thread[t]
      BY <2>2, CloudConstants DEF Threads, Changers
    <3> QED BY <1>4, <2>1, <3>1, SameTouches, OthersCurrent
  <2>4. ASSUME NEW q \in Readers, thread'[q] # Idle
        PROVE  (SeesCurrent(q) /\ SeesAnswer(q))'
    <3>1. CASE q = r
      BY <1>4, <2>4, <3>1, ReaderAnswers
    <3>2. CASE q # r
      <4>1. thread'[q] = thread[q]
        BY <2>2, <3>2 DEF Threads
      <4> QED BY <1>4, <2>3, <2>4, <4>1, ReaderUndisturbed
    <3> QED BY <3>1, <3>2
  <2> QED BY <2>3, <2>4 DEF ReadersCurrent
<1>5. ASSUME NEW s \in Spillers, HSpillerStep(s), Watch({})
      PROVE  Current' /\ ReadersCurrent'
  <2>1. thread' = thread \/ \E z : Goto(s, z)
    BY <1>5 DEF HSpillerStep, SpillStart, SpillPick, SpillEnds, SpillSent,
                SpillIndexed
  <2>2. \A r \in Readers : thread'[r] = thread[r]
    BY <1>1, <2>1, GotoOthers DEF Changers
  <2> QED BY <1>2, <1>5, <2>2, SpillerCurrent
<1>6. ASSUME NEW p \in Peers, PeerRestart(p), UNCHANGED <<current, crossed>>,
             Watch({p})
      PROVE  Current' /\ ReadersCurrent'
  <2>1. \A q \in Peers, k \in Keys : Untouched(q, k, {p})
    BY <1>1, <1>6 DEF PeerRestart, Untouched, DictionariesOK, Empty
  <2>2. Current' /\ Fates({p})
    BY <1>6, <2>1, OthersCurrent DEF PeerRestart, dictionaries
  <2> QED BY <1>2, <1>6, <2>2 DEF PeerRestart
<1>7. CASE UNCHANGED hvars
  BY <1>7 DEF hvars, vars, Current, Sole, SoleAt, IndexCurrent, IndexAt, BusyCurrent,
              Busy, Relies, ReadersCurrent, SeesCurrent, SeesAnswer, AtPeer,
              Versions, InProgress
<1> QED BY <1>3, <1>4, <1>5, <1>6, <1>7 DEF HNext

\* The history watches the steps of MemCloud and adds none.
LEMMA HistoryWatches == (HInit => Init) /\ ([HNext]_hvars => [Next]_vars)
<1>1. \A w \in Writers : HWriterStep(w) => WriterStep(w)
  BY DEF HWriterStep, WriterStep
<1>2. \A s \in Spillers : HSpillerStep(s) =>
        (\E target \in Targets : SpillStart(s, target)) \/ SpillContinue(s)
  BY DEF HSpillerStep, SpillContinue
<1> QED BY <1>1, <1>2 DEF HInit, HNext, Next, hvars, vars

\* A get answers with a value its key had while the get ran, for any number of
\* writers, spillers, readers, peers and keys, however their operations overlap,
\* whatever restarts, and whatever calls raise.
THEOREM GetsAreCurrent == HSpec => []GetReturnsCurrent
<1>1. HSpec => Spec
  BY HistoryWatches, PTL DEF HSpec, Spec
<1>2. HInit => Current /\ ReadersCurrent
  BY DEF HInit, Init, Idle, Threads, Current, Sole, SoleAt, IndexCurrent, IndexAt,
         BusyCurrent, Busy, Changers, ReadersCurrent, Empty
<1>3. /\ TypeOK /\ TypeOK' /\ LocalIndexAgree /\ Current /\ ReadersCurrent
      /\ [HNext]_hvars
      => Current' /\ ReadersCurrent'
  BY CurrentStep DEF Typed
<1>4. ReadersCurrent => GetReturnsCurrent
  <2>1. Idle.at # "got"
    BY DEF Idle
  <2> QED BY <2>1 DEF ReadersCurrent, SeesAnswer, GetReturnsCurrent
<1> QED BY <1>1, <1>2, <1>3, <1>4, TypeCorrect, DictionariesAgree, PTL
        DEF HSpec
=============================================================================
