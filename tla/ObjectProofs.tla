---------------------------- MODULE ObjectProofs ----------------------------
(***************************************************************************)
(* Proofs about the objects kept as chunks (Objects, ObjectReads) and the  *)
(* prefix cache on top of them (PrefixKV, PrefixKVReads), for any names,   *)
(* contents, chunk sizes and threads.                                      *)
(***************************************************************************)
EXTENDS PrefixKVReads, ObjectReads, SequenceTheorems, TLAPS

(* Contents and chunks                                                     *)

\* The first i chunks of a content.
FirstChunks(d, cb, i) == SubSeq(d, 1, Min(Len(d), i * cb))

LEMMA SliceTyped ==
  ASSUME NEW d \in Seq(Byte), NEW from \in Nat, NEW to \in Int
  PROVE  Slice(d, from, to) \in Seq(Byte)
<1> DEFINE e == Min(Len(d), to)
<1>1. Len(d) \in Nat /\ e \in Int /\ e <= Len(d)
  BY LenProperties DEF Min
<1> HIDE DEF e
<1>2. \A j \in from + 1 .. e : d[j] \in Byte
  BY <1>1
<1>3. SubSeq(d, from + 1, e) \in Seq(Byte)
  BY <1>1, <1>2, SubSeqProperties
<1> QED BY <1>3 DEF Slice, e

LEMMA ChunkTyped ==
  ASSUME NEW d \in Seq(Byte), NEW cb \in Nat, NEW i \in Nat
  PROVE  Chunk(d, cb, i) \in Seq(Byte)
<1>1. i * cb \in Nat /\ (i + 1) * cb \in Int
  OBVIOUS
<1> QED BY <1>1, SliceTyped DEF Chunk

\* The chunks of a content, which put_object counts, cover it.
LEMMA ChunksCover ==
  ASSUME NEW d \in Seq(Byte), NEW cb \in Nat \ {0}
  PROVE  ChunkCount(d, cb) \in Nat \ {0} /\ Len(d) <= ChunkCount(d, cb) * cb
<1> DEFINE n == Len(d)
           c == (n + cb - 1) \div cb
<1>1. n \in Nat
  BY LenProperties
<1>2. c \in Nat /\ n <= c * cb
  <2> HIDE DEF n
  <2>1. c \in Int /\ cb * c <= n + cb - 1 /\ n + cb - 1 < cb * (c + 1)
    BY <1>1, Z3
  <2> QED BY <1>1, <2>1
<1>3. ChunkCount(d, cb) = IF c = 0 THEN 1 ELSE c
  BY DEF ChunkCount
<1> HIDE DEF c, n
<1>4. ChunkCount(d, cb) \in Nat \ {0} /\ n <= ChunkCount(d, cb) * cb
  BY <1>1, <1>2, <1>3
<1> QED BY <1>4 DEF n

\* The next chunk goes on where the chunks before it end.
LEMMA ChunksGrow ==
  ASSUME NEW d \in Seq(Byte), NEW cb \in Nat \ {0}, NEW i \in Nat
  PROVE  FirstChunks(d, cb, i) \o Chunk(d, cb, i) = FirstChunks(d, cb, i + 1)
<1> DEFINE n == Len(d)
           a == i * cb
           b == (i + 1) * cb
<1>1. n \in Nat
  BY LenProperties
<1>2. a \in Nat /\ b \in Nat /\ a <= b
  OBVIOUS
<1>3. FirstChunks(d, cb, i) = SubSeq(d, 1, Min(n, a))
      /\ FirstChunks(d, cb, i + 1) = SubSeq(d, 1, Min(n, b))
  BY DEF FirstChunks
<1>4. Chunk(d, cb, i) = SubSeq(d, a + 1, Min(n, b))
  BY DEF Chunk, Slice
<1> HIDE DEF n, a, b
<1>5. CASE a <= n
  <2>1. Min(n, a) = a /\ Min(n, b) \in a .. n
    BY <1>1, <1>2, <1>5 DEF Min
  <2>2. SubSeq(d, 1, a) \o SubSeq(d, a + 1, Min(n, b)) = SubSeq(d, 1, Min(n, b))
    BY <1>1, <1>2, <2>1, ConcatAdjacentSubSeq DEF n
  <2> QED BY <1>3, <1>4, <2>1, <2>2
<1>6. CASE a > n
  <2>1. Min(n, a) = n /\ Min(n, b) = n /\ n < a + 1
    BY <1>1, <1>2, <1>6 DEF Min
  <2>2. SubSeq(d, a + 1, n) = <<>>
    BY <1>1, <1>2, <2>1, SubSeqEmpty
  <2>3. SubSeq(d, 1, n) = d
    BY <1>1, SubSeqFull DEF n
  <2> QED BY <1>1, <1>3, <1>4, <2>1, <2>2, <2>3, ConcatEmptySeq
<1> QED BY <1>1, <1>2, <1>5, <1>6

\* Nothing, to begin with; and all of it in the end.
LEMMA ChunksEnd ==
  ASSUME NEW d \in Seq(Byte), NEW cb \in Nat \ {0}
  PROVE  FirstChunks(d, cb, 0) = <<>> /\ FirstChunks(d, cb, ChunkCount(d, cb)) = d
<1>1. /\ Len(d) \in Nat /\ ChunkCount(d, cb) \in Nat
      /\ Len(d) <= ChunkCount(d, cb) * cb
  BY ChunksCover, LenProperties
<1>2. Min(Len(d), 0 * cb) = 0
  BY <1>1 DEF Min
<1>3. Min(Len(d), ChunkCount(d, cb) * cb) = Len(d)
  BY <1>1 DEF Min
<1>4. FirstChunks(d, cb, 0) = <<>>
  BY <1>1, <1>2, SubSeqEmpty DEF FirstChunks
<1>5. FirstChunks(d, cb, ChunkCount(d, cb)) = d
  BY <1>1, <1>3, SubSeqFull DEF FirstChunks
<1> QED BY <1>4, <1>5

\* The position of a byte in its chunk (get_object_range).
LEMMA Division ==
  ASSUME NEW pos \in Int, NEW cb \in Nat \ {0}
  PROVE  LET q == pos \div cb
         IN  /\ q \in Int
             /\ q * cb <= pos
             /\ pos < (q + 1) * cb
             /\ (q + 1) * cb = q * cb + cb
             /\ q * cb \in Int
<1> DEFINE q == pos \div cb
<1>1. q \in Int /\ cb * q <= pos /\ pos < cb * (q + 1)
  BY Z3
<1> HIDE DEF q
<1>2. q * cb <= pos /\ pos < (q + 1) * cb /\ (q + 1) * cb = q * cb + cb /\ q * cb \in Int
  BY <1>1
<1> QED BY <1>1, <1>2 DEF q

\* A byte of the content lies in one of its chunks.
LEMMA ChunkOfByte ==
  ASSUME NEW d \in Seq(Byte), NEW cb \in Nat \ {0}, NEW pos \in Nat, pos < Len(d)
  PROVE  pos \div cb \in 0 .. (ChunkCount(d, cb) - 1)
<1> DEFINE q == pos \div cb
           c == ChunkCount(d, cb)
           n == Len(d)
<1>1. q \in Int /\ q * cb <= pos /\ pos < (q + 1) * cb
  BY Division
<1>2. c \in Nat \ {0} /\ n <= c * cb /\ n \in Nat
  BY ChunksCover, LenProperties
<1>3. pos < n
  OBVIOUS
<1> HIDE DEF q, c, n
<1>4. q >= 0
  <2> SUFFICES ASSUME q + 1 <= 0 PROVE FALSE
    BY <1>1
  <2>1. (q + 1) * cb <= 0
    BY <1>1
  <2> QED BY <1>1, <2>1
<1>5. q < c
  <2> SUFFICES ASSUME c <= q PROVE FALSE
    BY <1>1, <1>2
  <2>1. c * cb <= q * cb
    BY <1>1, <1>2
  <2> QED BY <1>1, <1>2, <1>3, <2>1
<1> QED BY <1>1, <1>2, <1>4, <1>5 DEF q, c

\* A range's next piece, at byte `pos`: where it starts in its chunk, and its length.
From(cb, pos) == pos - (pos \div cb) * cb
Take(cb, pos, end) == Min(cb - From(cb, pos), end - pos)

\* The piece is the object's own bytes from `pos` on, and stays before `end`.
OwnPiece(d, cb, pos, end) ==
  LET take == Take(cb, pos, end)
  IN  /\ take \in Nat \ {0} /\ pos + take <= end
      /\ Slice(Chunk(d, cb, pos \div cb), From(cb, pos), From(cb, pos) + take)
           = SubSeq(d, pos + 1, pos + take)

\* The piece lies in a chunk of the object, and extends what was read since `start`.
NextPiece(d, cb, start, pos, end, out) ==
  LET take == Take(cb, pos, end)
  IN  /\ pos \div cb \in Nat /\ pos \div cb < ChunkCount(d, cb)
      /\ pos + take \in start .. end
      /\ out \o Slice(Chunk(d, cb, pos \div cb), From(cb, pos), From(cb, pos) + take)
           = SubSeq(d, start + 1, pos + take)

\* What get_range returns of the chunk that position pos lies in.
LEMMA PieceOfChunk ==
  ASSUME NEW d \in Seq(Byte), NEW cb \in Nat \ {0}, NEW pos \in Nat, NEW end \in Nat,
         pos < end, end <= Len(d)
  PROVE  OwnPiece(d, cb, pos, end)
<1> DEFINE q    == pos \div cb
           from == pos - q * cb
           take == Min(cb - from, end - pos)
           a    == q * cb
           e    == Min(Len(d), a + cb)
           c    == SubSeq(d, a + 1, e)
<1>1. Len(d) \in Nat
  BY LenProperties
<1>2. q \in Int /\ a <= pos /\ pos < a + cb /\ (q + 1) * cb = a + cb /\ a \in Int
  BY Division
<1>3. q \in Nat
  BY ChunkOfByte, <1>1
<1>4. a \in Nat
  <2> HIDE DEF q
  <2> QED BY <1>3
<1>5. Chunk(d, cb, q) = c
  BY <1>2 DEF Chunk, Slice
<1> HIDE DEF q
<1>6. from \in Nat /\ from < cb /\ from = pos - a
  BY <1>2, <1>4
<1>7. take \in Nat \ {0} /\ take <= cb - from /\ take <= end - pos
  BY <1>6 DEF Min
<1> HIDE DEF take, from, a
<1>8. e \in Nat /\ e <= Len(d) /\ pos + take <= e
  BY <1>1, <1>2, <1>4, <1>6, <1>7 DEF Min
<1> HIDE DEF e
<1>9. Len(c) = e - a
  <2>1. \A j \in a + 1 .. e : d[j] \in Byte
    BY <1>1, <1>4, <1>8
  <2>2. a + 1 <= e
    BY <1>2, <1>4, <1>6, <1>7, <1>8
  <2> QED BY <1>4, <1>8, <2>1, <2>2, SubSeqProperties
<1>10. SubSeq(c, from + 1, from + take) = SubSeq(d, pos + 1, pos + take)
  <2>1. a + 1 \in 1 .. Len(d) /\ e \in 1 .. Len(d)
    BY <1>1, <1>4, <1>6, <1>7, <1>8
  <2>2. from + 1 \in 1 .. e - (a + 1) + 1 /\ from + take \in 1 .. e - (a + 1) + 1
    BY <1>4, <1>6, <1>7, <1>8
  <2>3. a + 1 + (from + 1) - 1 = pos + 1 /\ a + 1 + (from + take) - 1 = pos + take
    BY <1>4, <1>6, <1>7
  <2>4. \A i, j \in 1 .. Len(d) : \A m, n \in 1 .. j - i + 1 :
            SubSeq(SubSeq(d, i, j), m, n) = SubSeq(d, i + m - 1, i + n - 1)
    <3>1. \A S : \A s, t \in Seq(S) : \A i, j \in 1 .. Len(s) : \A m, n \in 1 .. j - i + 1 :
              SubSeq(SubSeq(s, i, j), m, n) = SubSeq(s, i + m - 1, i + n - 1)
      BY SubSeqOfSubSeq, Zenon
    <3>2. \A s, t \in Seq(Byte) : \A i, j \in 1 .. Len(s) : \A m, n \in 1 .. j - i + 1 :
              SubSeq(SubSeq(s, i, j), m, n) = SubSeq(s, i + m - 1, i + n - 1)
      BY <3>1
    <3>3. ASSUME NEW i \in 1 .. Len(d), NEW j \in 1 .. Len(d),
                 NEW m \in 1 .. j - i + 1, NEW n \in 1 .. j - i + 1
          PROVE  SubSeq(SubSeq(d, i, j), m, n) = SubSeq(d, i + m - 1, i + n - 1)
      <4>1. d \in Seq(Byte)
        OBVIOUS
      <4> QED BY <3>2, <4>1
    <3> QED BY <3>3
  <2>5. SubSeq(c, from + 1, from + take)
        = SubSeq(d, a + 1 + (from + 1) - 1, a + 1 + (from + take) - 1)
    BY <2>1, <2>2, <2>4, Zenon
  <2> QED BY <2>3, <2>5
<1>11. Min(Len(c), from + take) = from + take
  BY <1>4, <1>6, <1>7, <1>8, <1>9 DEF Min
<1>12. Slice(c, from, from + take) = SubSeq(d, pos + 1, pos + take)
  BY <1>10, <1>11 DEF Slice
<1>13. pos + take <= end
  BY <1>7
<1>14. Slice(Chunk(d, cb, q), from, from + take) = SubSeq(d, pos + 1, pos + take)
  BY <1>5, <1>12
<1> QED BY <1>7, <1>13, <1>14, Zenon DEF take, from, a, q, OwnPiece, Take, From

-----------------------------------------------------------------------------
(* Types of the chunks, the manifests and the threads                      *)

ReaderTyped(s) == s \in ReaderStates \/ (s.at = "get" /\ IsGetting(s))

DataTyped ==
    /\ Chunks!IsDict(blocks, Blocks)
    /\ Dict!IsDict(manifests, Manifests)
    /\ sent \in [Requests -> RequestStates]

ThreadsTyped ==
    /\ DOMAIN thread = Threads
    /\ \A w \in Writers : thread[w] \in WriterStates
    /\ \A r \in Readers : ReaderTyped(thread[r])

LEMMA TypedParts == TypeOK <=> DataTyped /\ ThreadsTyped
  BY DEF TypeOK, DataTyped, ThreadsTyped, ReaderTyped

LEMMA DataStays ==
  ASSUME DataTyped, UNCHANGED <<blocks, manifests, sent>>
  PROVE  DataTyped'
  BY DEF DataTyped, Chunks!IsDict, Dict!IsDict

LEMMA WriterGoes ==
  ASSUME ThreadsTyped, NEW w \in Writers, NEW s \in WriterStates, Goto(w, s)
  PROVE  ThreadsTyped'
<1>1. \A t \in Threads : thread'[t] = IF t = w THEN s ELSE thread[t]
  BY DEF ThreadsTyped, Goto
<1>2. \A v \in Writers : thread'[v] \in WriterStates
  BY <1>1 DEF ThreadsTyped, Threads
<1>3. \A r \in Readers : thread'[r] = thread[r]
  BY <1>1, ObjectConstants DEF Threads
<1>4. \A r \in Readers : ReaderTyped(thread'[r])
  BY <1>3 DEF ThreadsTyped
<1> QED BY <1>2, <1>4 DEF ThreadsTyped, Goto

LEMMA ReaderGoes ==
  ASSUME ThreadsTyped, NEW r \in Readers, NEW s, ReaderTyped(s), Goto(r, s)
  PROVE  ThreadsTyped'
<1>1. \A t \in Threads : thread'[t] = IF t = r THEN s ELSE thread[t]
  BY DEF ThreadsTyped, Goto
<1>2. \A q \in Readers : ReaderTyped(thread'[q])
  BY <1>1 DEF ThreadsTyped, Threads
<1>3. \A w \in Writers : thread'[w] = thread[w]
  BY <1>1, ObjectConstants DEF Threads
<1>4. \A w \in Writers : thread'[w] \in WriterStates
  BY <1>3 DEF ThreadsTyped
<1> QED BY <1>2, <1>4 DEF ThreadsTyped, Goto

LEMMA PuttingTyped ==
  ASSUME NEW s \in WriterStates, s.at = "put"
  PROVE  s \in PuttingState
  BY DEF WriterStates, Idle, PuttingState, DeletingState, StoredState

LEMMA DeletingTyped ==
  ASSUME NEW s \in WriterStates, s.at \in {"delete", "deleted"}
  PROVE  s \in DeletingState
  BY DEF WriterStates, Idle, PuttingState, DeletingState, StoredState

LEMMA GettingTyped ==
  ASSUME NEW s, ReaderTyped(s), s.at = "get"
  PROVE  IsGetting(s)
  BY DEF ReaderTyped, ReaderStates, Idle, RangeState, RowsState, GotState, RaisedState

LEMMA RangingTyped ==
  ASSUME NEW s, ReaderTyped(s), s.at = "range"
  PROVE  s \in RangeState
  BY DEF ReaderTyped, ReaderStates, Idle, RangeState, RowsState, GotState, RaisedState

LEMMA RowingTyped ==
  ASSUME NEW s, ReaderTyped(s), s.at = "rows"
  PROVE  s \in RowsState
  BY DEF ReaderTyped, ReaderStates, Idle, RangeState, RowsState, GotState, RaisedState

LEMMA IdleTyped == Idle \in WriterStates /\ ReaderTyped(Idle)
  BY DEF WriterStates, ReaderTyped, ReaderStates

LEMMA RaisedTyped ==
  ASSUME NEW ask \in Asks, NEW n \in Names, NEW why \in {"missing", "unreachable"}
  PROVE  ReaderTyped(Raised(ask, n, why))
  BY DEF ReaderTyped, ReaderStates, RaisedState, Raised

LEMMA GotTyped ==
  ASSUME NEW ask \in Asks, NEW n \in Names, NEW d \in Seq(Byte)
  PROVE  ReaderTyped(Got(ask, n, d))
  BY DEF ReaderTyped, ReaderStates, GotState, Got

LEMMA AskTyped == WholeObject \in Asks
  BY DEF Asks

LEMMA ContentsTyped ==
  ASSUME NEW d \in Data
  PROVE  d \in Seq(Byte) /\ Len(d) \in Nat /\ Row[d] \in Nat
  BY ObjectConstants, LenProperties

LEMMA ManifestTyped ==
  ASSUME NEW d \in Data, NEW cb \in Nat \ {0}
  PROVE  ManifestOf(d, cb) \in Manifests
  BY ContentsTyped, ChunksCover DEF ManifestOf, Manifests

LEMMA RequestTyped ==
  ASSUME NEW at \in {"put", "spill", "stored"}, NEW c \in Names \X Nat, NEW d \in Seq(Byte)
  PROVE  Request(at, c, d) \in RequestStates
  BY DEF Request, RequestStates

LEMMA PutTypes ==
  ASSUME DataTyped, ThreadsTyped, NEW w \in Writers,
         PutChunk(w) \/ PutFails(w) \/ PutSends(w)
  PROVE  DataTyped' /\ ThreadsTyped'
<1>1. thread[w].at = "put" /\ thread[w] \in PuttingState
  BY PuttingTyped DEF ThreadsTyped, PutChunk, PutFails, PutSends, MoreToPut
<1>2. PICK n \in Names, d \in Data, cb \in Nat \ {0}, i \in Nat :
        thread[w] = [at |-> "put", name |-> n, data |-> d, cb |-> cb, next |-> i]
  BY <1>1 DEF PuttingState
<1>3. NextKey(w) = <<n, i>> /\ NextChunk(w) = Chunk(d, cb, i)
  BY <1>2 DEF NextKey, NextChunk
<1>4. Chunk(d, cb, i) \in Seq(Byte)
  BY ChunkTyped, ContentsTyped
<1>5. \A p \in Places :
        blocks' = Chunks!Store(blocks, NextKey(w), [data |-> NextChunk(w), place |-> p])
          => Chunks!IsDict(blocks, Blocks)'
  <2> DEFINE k == <<n, i>>
             c == Chunk(d, cb, i)
  <2> SUFFICES ASSUME NEW p \in Places, blocks' = Chunks!Store(blocks, k, [data |-> c, place |-> p])
               PROVE  Chunks!IsDict(blocks, Blocks)'
    BY <1>3
  <2>1. k \in Names \X Nat /\ c \in Seq(Byte)
    BY <1>4
  <2> HIDE DEF k, c
  <2> DEFINE x == [data |-> c, place |-> p]
  <2>2. x \in Blocks
    BY <2>1 DEF Blocks
  <2> HIDE DEF x
  <2> QED BY <2>1, <2>2 DEF DataTyped, Chunks!IsDict, Chunks!Store, x
<1>6. PutChunk(w) \/ PutFails(w) => DataTyped'
  BY <1>5 DEF PutChunk, PutFails, DataTyped, Places, Dict!IsDict, Chunks!IsDict
<1>7. CASE PutChunk(w)
  <2>1. [thread[w] EXCEPT !.next = @ + 1]
        = [at |-> "put", name |-> n, data |-> d, cb |-> cb, next |-> i + 1]
    BY <1>2
  <2>2. [at |-> "put", name |-> n, data |-> d, cb |-> cb, next |-> i + 1] \in WriterStates
    BY i + 1 \in Nat DEF WriterStates, PuttingState
  <2> QED BY <1>6, <1>7, <2>1, <2>2, WriterGoes DEF PutChunk
<1>8. CASE PutFails(w)
  BY <1>6, <1>8, IdleTyped, WriterGoes DEF PutFails
<1>9. CASE PutSends(w)
  <2>1. \E x \in Requests : sent' = [sent EXCEPT ![x] = Request("put", <<n, i>>, Chunk(d, cb, i))]
    BY <1>3, <1>9 DEF PutSends, Send
  <2>2. sent' \in [Requests -> RequestStates]
    BY <1>4, <2>1, RequestTyped DEF DataTyped
  <2>3. UNCHANGED <<blocks, manifests, thread>>
    BY <1>9 DEF PutSends
  <2>4. DataTyped'
    BY <2>2, <2>3 DEF DataTyped, Chunks!IsDict, Dict!IsDict
  <2> QED BY <2>3, <2>4 DEF ThreadsTyped, ReaderTyped, IsGetting
<1> QED BY <1>7, <1>8, <1>9

LEMMA PutCallTypes ==
  ASSUME DataTyped, ThreadsTyped, NEW w \in Writers, NEW n \in Names, NEW d \in Data,
         NEW cb \in ChunkSizes, PutObject(w, n, d, cb)
  PROVE  DataTyped' /\ ThreadsTyped'
<1>1. [at |-> "put", name |-> n, data |-> d, cb |-> cb, next |-> 0] \in WriterStates
  BY ObjectConstants DEF WriterStates, PuttingState
<1> QED BY <1>1, WriterGoes, DataStays DEF PutObject

LEMMA PutManifestTypes ==
  ASSUME DataTyped, ThreadsTyped, NEW w \in Writers, PutManifest(w)
  PROVE  DataTyped' /\ ThreadsTyped'
<1>1. thread[w].at = "put" /\ thread[w] \in PuttingState
  BY PuttingTyped DEF ThreadsTyped, PutManifest
<1>2. PICK n \in Names, d \in Data, cb \in Nat \ {0}, i \in Nat :
        thread[w] = [at |-> "put", name |-> n, data |-> d, cb |-> cb, next |-> i]
  BY <1>1 DEF PuttingState
<1> DEFINE m == ManifestOf(d, cb)
<1>3. manifests' = Dict!Store(manifests, n, m) /\ UNCHANGED <<blocks, sent>>
      /\ Goto(w, [at |-> "stored", name |-> n])
  BY <1>2 DEF PutManifest
<1>4. m \in Manifests
  BY ManifestTyped
<1> HIDE DEF m
<1>5. DataTyped'
  BY <1>3, <1>4 DEF DataTyped, Dict!IsDict, Dict!Store, Chunks!IsDict
<1>6. [at |-> "stored", name |-> n] \in WriterStates
  BY DEF WriterStates, StoredState
<1> QED BY <1>3, <1>5, <1>6, WriterGoes

LEMMA DeleteTypes ==
  ASSUME DataTyped, ThreadsTyped, NEW w \in Writers, DeleteChunk(w) \/ DeleteManifest(w)
  PROVE  DataTyped' /\ ThreadsTyped'
<1>1. thread[w] \in DeletingState
  BY DeletingTyped DEF ThreadsTyped, DeleteChunk, DeleteManifest
<1>2. PICK at \in {"delete", "deleted"}, n \in Names, c \in Nat, i \in Nat :
        thread[w] = [at |-> at, name |-> n, chunks |-> c, next |-> i]
  BY <1>1 DEF DeletingState
<1>3. DataTyped'
  BY DEF DataTyped, DeleteChunk, DeleteManifest, Dict!IsDict, Dict!Drop, Chunks!IsDict,
         Chunks!Drop
<1>4. CASE DeleteChunk(w)
  <2>1. [thread[w] EXCEPT !.next = @ + 1] = [at |-> at, name |-> n, chunks |-> c, next |-> i + 1]
    BY <1>2
  <2>2. [at |-> at, name |-> n, chunks |-> c, next |-> i + 1] \in WriterStates
    BY i + 1 \in Nat DEF WriterStates, DeletingState
  <2> QED BY <1>3, <1>4, <2>1, <2>2, WriterGoes DEF DeleteChunk
<1>5. CASE DeleteManifest(w)
  <2>1. [thread[w] EXCEPT !.at = "deleted"] = [at |-> "deleted", name |-> n, chunks |-> c, next |-> i]
    BY <1>2
  <2>2. [at |-> "deleted", name |-> n, chunks |-> c, next |-> i] \in WriterStates
    BY DEF WriterStates, DeletingState
  <2> QED BY <1>3, <1>5, <2>1, <2>2, WriterGoes DEF DeleteManifest
<1> QED BY <1>4, <1>5

LEMMA DeleteCallTypes ==
  ASSUME DataTyped, ThreadsTyped, NEW w \in Writers, NEW n \in Names, DeleteObject(w, n)
  PROVE  DataTyped' /\ ThreadsTyped'
<1>1. DataTyped'
  BY DataStays DEF DeleteObject
<1>2. CASE n \in DOMAIN manifests
  <2> DEFINE s == [at |-> "delete", name |-> n, chunks |-> manifests[n].chunks, next |-> 0]
  <2>1. manifests[n].chunks \in Nat
    BY <1>2 DEF DataTyped, Dict!IsDict, Manifests
  <2>2. s \in WriterStates
    BY <2>1 DEF WriterStates, DeletingState
  <2>3. Goto(w, s)
    BY <1>2 DEF DeleteObject
  <2> HIDE DEF s
  <2> QED BY <1>1, <2>2, <2>3, WriterGoes
<1>3. CASE n \notin DOMAIN manifests
  BY <1>1, <1>3, IdleTyped, WriterGoes DEF DeleteObject
<1> QED BY <1>2, <1>3

LEMMA ClearTypes ==
  ASSUME DataTyped, ThreadsTyped, Clear
  PROVE  DataTyped' /\ ThreadsTyped'
<1>1. DOMAIN blocks' = {} /\ DOMAIN manifests' = {} /\ thread' = thread
      /\ blocks' = [k \in {} |-> 0] /\ manifests' = [k \in {} |-> 0] /\ sent' = sent
  BY DEF Clear, Chunks!Empty, Dict!Empty
<1>2. DataTyped'
  BY <1>1 DEF DataTyped, Chunks!IsDict, Dict!IsDict
<1> QED BY <1>1, <1>2 DEF ThreadsTyped, ReaderTyped, IsGetting

LEMMA BlockLostTypes ==
  ASSUME DataTyped, ThreadsTyped, NEW c \in DOMAIN blocks, BlockLost(c)
  PROVE  DataTyped' /\ ThreadsTyped'
<1>1. UNCHANGED <<manifests, sent, thread>>
  BY DEF BlockLost
<1>2. Chunks!IsDict(blocks, Blocks)'
  BY DEF BlockLost, DataTyped, Chunks!IsDict, Chunks!Drop
<1> QED BY <1>1, <1>2 DEF DataTyped, Dict!IsDict, ThreadsTyped, ReaderTyped, IsGetting

LEMMA RequestKinds ==
  ASSUME sent \in [Requests -> RequestStates], NEW x \in Requests
  PROVE  /\ sent[x] # Idle <=> sent[x].at \in {"put", "spill", "stored"}
         /\ sent[x] # Idle => /\ sent[x].key \in Names \X Nat
                              /\ sent[x].data \in Seq(Byte)
                              /\ sent[x] = Request(sent[x].at, sent[x].key, sent[x].data)
<1>1. sent[x] \in RequestStates
  OBVIOUS
<1>2. CASE sent[x] = Idle
  BY <1>2 DEF Idle
<1>3. CASE sent[x] \in [at : {"put", "spill", "stored"}, key : Names \X Nat, data : Seq(Byte)]
  BY <1>3 DEF Idle, Request
<1> QED BY <1>1, <1>2, <1>3 DEF RequestStates

\* A peer that has carried out a PUT has its data, and so may others.
LEMMA RequestStoredSent ==
  ASSUME sent \in [Requests -> RequestStates], NEW x \in Requests, RequestStored(x)
  PROVE  /\ sent' \in [Requests -> RequestStates]
         /\ \A y \in Requests : sent'[y] # Idle =>
                /\ sent[y] # Idle /\ sent'[y].key = sent[y].key
                /\ sent'[y].at = "put" <=> sent[y].at = "put"
                /\ sent'[y].data # sent[y].data =>
                        sent'[y].data = sent[x].data /\ sent[y].key = sent[x].key
<1>1. sent[x] # Idle
  BY DEF RequestStored, Idle
<1>2. PICK same \in SUBSET Holding(sent[x].key) :
        sent' = [y \in Requests |->
            IF y = x THEN IF sent[x].at = "put" THEN Idle ELSE [sent[x] EXCEPT !.at = "stored"]
            ELSE IF y \in same THEN [sent[y] EXCEPT !.data = sent[x].data]
            ELSE sent[y]]
  BY DEF RequestStored
<1>3. sent[x].key \in Names \X Nat /\ sent[x].data \in Seq(Byte)
      /\ sent[x] = Request(sent[x].at, sent[x].key, sent[x].data)
  BY <1>1, RequestKinds
<1>4. [sent[x] EXCEPT !.at = "stored"] = Request("stored", sent[x].key, sent[x].data)
  BY <1>3 DEF Request
<1>5. ASSUME NEW y \in Requests
      PROVE  /\ sent'[y] \in RequestStates
             /\ sent'[y] # Idle =>
                /\ sent[y] # Idle /\ sent'[y].key = sent[y].key
                /\ sent'[y].at = "put" <=> sent[y].at = "put"
                /\ sent'[y].data # sent[y].data =>
                        sent'[y].data = sent[x].data /\ sent[y].key = sent[x].key
  <2>1. CASE y = x /\ sent[x].at = "put"
    BY <1>2, <2>1 DEF RequestStates
  <2>2. CASE y = x /\ sent[x].at # "put"
    <3>1. sent'[y] = Request("stored", sent[x].key, sent[x].data)
      BY <1>2, <1>4, <2>2
    <3>2. sent'[y].at = "stored" /\ sent'[y].key = sent[x].key /\ sent'[y].data = sent[x].data
      BY <3>1 DEF Request
    <3>3. sent'[y] \in RequestStates
      BY <1>3, <3>1, RequestTyped
    <3> QED BY <1>1, <2>2, <3>2, <3>3
  <2>3. CASE y # x /\ y \in same
    <3>1. sent[y].at = "stored" /\ sent[y].key = sent[x].key
      BY <2>3 DEF Holding
    <3>2. sent[y] # Idle /\ sent[y] = Request("stored", sent[x].key, sent[y].data)
      BY <3>1, RequestKinds
    <3>3. sent'[y] = Request("stored", sent[x].key, sent[x].data)
      <4>1. [Request("stored", sent[x].key, sent[y].data) EXCEPT !.data = sent[x].data]
            = Request("stored", sent[x].key, sent[x].data)
        BY DEF Request
      <4> QED BY <1>2, <2>3, <3>2, <4>1
    <3>4. sent'[y].at = "stored" /\ sent'[y].key = sent[x].key /\ sent'[y].data = sent[x].data
      BY <3>3 DEF Request
    <3>5. sent'[y] \in RequestStates
      BY <1>3, <3>3, RequestTyped
    <3> QED BY <3>1, <3>2, <3>4, <3>5
  <2>4. CASE y # x /\ y \notin same
    BY <1>2, <2>4
  <2> QED BY <2>1, <2>2, <2>3, <2>4
<1> QED BY <1>2, <1>5

LEMMA SpillEndSent ==
  ASSUME sent \in [Requests -> RequestStates], NEW x \in Requests, SpillEnd(x)
  PROVE  /\ sent' \in [Requests -> RequestStates]
         /\ \A y \in Requests : sent'[y] # Idle =>
                /\ sent[y] # Idle /\ sent'[y].key = sent[y].key /\ sent'[y].data = sent[y].data
                /\ sent'[y].at # "put" => sent[y].at # "put"
<1>1. /\ sent[x] # Idle /\ sent[x].key \in Names \X Nat /\ sent[x].data \in Seq(Byte)
      /\ sent[x] = Request(sent[x].at, sent[x].key, sent[x].data)
  BY RequestKinds DEF SpillEnd
<1>2. CASE sent' = [sent EXCEPT ![x] = Idle]
  BY <1>2 DEF RequestStates
<1>3. CASE sent' = [sent EXCEPT ![x].at = "put"]
  <2>1. [sent[x] EXCEPT !.at = "put"] = Request("put", sent[x].key, sent[x].data)
    BY <1>1 DEF Request
  <2>2. sent' = [sent EXCEPT ![x] = Request("put", sent[x].key, sent[x].data)]
    BY <1>3, <2>1
  <2>3. Request("put", sent[x].key, sent[x].data) \in RequestStates
    BY <1>1, RequestTyped
  <2>4. sent' \in [Requests -> RequestStates]
    BY <2>2, <2>3
  <2>5. /\ sent'[x].at = "put" /\ sent'[x].key = sent[x].key /\ sent'[x].data = sent[x].data
        /\ \A y \in Requests \ {x} : sent'[y] = sent[y]
    BY <2>2 DEF Request
  <2> QED BY <1>1, <2>4, <2>5
<1> QED BY <1>2, <1>3 DEF SpillEnd

LEMMA RequestTypes ==
  ASSUME DataTyped, ThreadsTyped, NEW x \in Requests, RequestStep(x)
  PROVE  DataTyped' /\ ThreadsTyped'
<1>1. UNCHANGED <<manifests, thread>>
  BY DEF RequestStep, SpillSends, RequestStored, SpillEnd, RequestEnds
<1>2. Chunks!IsDict(blocks, Blocks)' /\ sent' \in [Requests -> RequestStates]
  <2>1. ASSUME NEW c \in DOMAIN blocks, SpillSends(x, c)
        PROVE  Chunks!IsDict(blocks, Blocks)' /\ sent' \in [Requests -> RequestStates]
    <3>1. c \in Names \X Nat /\ blocks[c].data \in Seq(Byte)
      BY DEF DataTyped, Chunks!IsDict, Blocks
    <3>2. Request("spill", c, blocks[c].data) \in RequestStates
      BY <3>1, RequestTyped
    <3> QED BY <2>1, <3>2 DEF SpillSends, Send, DataTyped, Chunks!IsDict
  <2>2. CASE RequestStored(x)
    <3>1. CASE blocks' = blocks
      BY <2>2, <3>1, RequestStoredSent DEF DataTyped, Chunks!IsDict
    <3>2. CASE AtPeer(sent[x].key) /\ blocks' = [blocks EXCEPT ![sent[x].key].data = sent[x].data]
      <4>1. sent[x].data \in Seq(Byte) /\ sent[x].key \in DOMAIN blocks
        BY <2>2, <3>2, RequestKinds DEF RequestStored, AtPeer, DataTyped, Idle
      <4>2. \A b \in Blocks : [b EXCEPT !.data = sent[x].data] \in Blocks
        BY <4>1 DEF Blocks
      <4>3. blocks' = [blocks EXCEPT ![sent[x].key] = [@ EXCEPT !.data = sent[x].data]]
        BY <3>2
      <4>4. Chunks!IsDict(blocks, Blocks)'
        BY <4>1, <4>2, <4>3 DEF DataTyped, Chunks!IsDict
      <4> QED BY <2>2, <4>4, RequestStoredSent DEF DataTyped
    <3> QED BY <2>2, <3>1, <3>2 DEF RequestStored
  <2>3. CASE SpillEnd(x)
    <3>1. sent[x].data \in Seq(Byte) /\ sent[x].key \in Names \X Nat
      BY <2>3, RequestKinds DEF SpillEnd, DataTyped
    <3> DEFINE b == [data |-> sent[x].data, place |-> "peer"]
    <3>2. b \in Blocks /\ blocks' = Chunks!Store(blocks, sent[x].key, b)
      BY <2>3, <3>1 DEF Blocks, Places, SpillEnd
    <3> HIDE DEF b
    <3>3. Chunks!IsDict(blocks, Blocks)'
      BY <3>1, <3>2 DEF DataTyped, Chunks!IsDict, Chunks!Store
    <3> QED BY <2>3, <3>3, SpillEndSent DEF DataTyped
  <2>4. CASE RequestEnds(x)
    BY <2>4 DEF RequestEnds, DataTyped, Chunks!IsDict, RequestStates
  <2> QED BY <2>1, <2>2, <2>3, <2>4 DEF RequestStep
<1> QED BY <1>1, <1>2 DEF DataTyped, Dict!IsDict, ThreadsTyped, ReaderTyped, IsGetting

LEMMA GetCallTypes ==
  ASSUME DataTyped, ThreadsTyped, NEW r \in Readers, NEW n \in Names, GetObject(r, n)
  PROVE  DataTyped' /\ ThreadsTyped'
<1>1. DataTyped'
  BY DataStays DEF GetObject
<1>2. CASE n \in DOMAIN manifests
  <2> DEFINE c == manifests[n].chunks
             p == [i \in 0 .. (c - 1) |-> None]
             s == [at |-> "get", name |-> n, chunks |-> c, parts |-> p, joined |-> 0, out |-> <<>>]
  <2>1. c \in Nat \ {0}
    BY <1>2 DEF DataTyped, Dict!IsDict, Manifests
  <2>2. Goto(r, s)
    BY <1>2 DEF GetObject
  <2>3. p \in [0 .. (c - 1) -> Seq(Byte) \cup {None}]
    OBVIOUS
  <2>4. <<>> \in Seq(Byte) /\ 0 <= c /\ 0 \in Nat
    BY <2>1
  <2> HIDE DEF c, p
  <2>5. IsGetting(s)
    BY <2>1, <2>3, <2>4 DEF IsGetting
  <2>6. ReaderTyped(s)
    BY <2>5 DEF ReaderTyped
  <2> HIDE DEF s
  <2> QED BY <1>1, <2>2, <2>6, ReaderGoes
<1>3. CASE n \notin DOMAIN manifests
  <2>1. Goto(r, Raised(WholeObject, n, "missing"))
    BY <1>3 DEF GetObject
  <2> QED BY <1>1, <2>1, AskTyped, RaisedTyped, ReaderGoes
<1> QED BY <1>2, <1>3

LEMMA GettingMade ==
  ASSUME NEW n \in Names, NEW c \in Nat \ {0}, NEW j \in Nat, NEW o \in Seq(Byte),
         NEW p \in [0 .. (c - 1) -> Seq(Byte) \cup {None}], j <= c
  PROVE  ReaderTyped([at |-> "get", name |-> n, chunks |-> c, parts |-> p,
                      joined |-> j, out |-> o])
<1> DEFINE s == [at |-> "get", name |-> n, chunks |-> c, parts |-> p, joined |-> j, out |-> o]
<1>1. IsGetting(s)
  BY DEF IsGetting
<1>2. s.at = "get"
  OBVIOUS
<1> HIDE DEF s
<1>3. ReaderTyped(s)
  BY <1>1, <1>2 DEF ReaderTyped
<1> QED BY <1>3 DEF s

\* The record of a get with another part.
LEMMA PartChanged ==
  ASSUME NEW s, IsGetting(s), NEW i, NEW x
  PROVE  [s EXCEPT !.parts[i] = x]
           = [at |-> "get", name |-> s.name, chunks |-> s.chunks,
              parts |-> [s.parts EXCEPT ![i] = x], joined |-> s.joined, out |-> s.out]
<1> DEFINE q == [s.parts EXCEPT ![i] = x]
<1>1. s = [at |-> "get", name |-> s.name, chunks |-> s.chunks, parts |-> s.parts,
           joined |-> s.joined, out |-> s.out]
  BY DEF IsGetting
<1>2. [s EXCEPT !.parts[i] = x] = [s EXCEPT !.parts = q]
  BY Zenon
<1> HIDE DEF q
<1>3. [s EXCEPT !.parts = q] = [at |-> "get", name |-> s.name, chunks |-> s.chunks, parts |-> q,
                                joined |-> s.joined, out |-> s.out]
  BY <1>1
<1> QED BY <1>2, <1>3 DEF q

\* Where a fetch takes its reader.
LEMMA FetchGoes ==
  ASSUME ThreadsTyped, NEW r \in Readers, NEW i, Fetch(r, i)
  PROVE  LET s   == thread[r]
             key == <<s.name, i>>
         IN  /\ IsGetting(s) /\ i \in 0 .. (s.chunks - 1)
             /\ key \in DOMAIN blocks =>
                 Goto(r, [at |-> "get", name |-> s.name, chunks |-> s.chunks,
                          parts |-> [s.parts EXCEPT ![i] = blocks[key].data],
                          joined |-> s.joined, out |-> s.out])
             /\ key \notin DOMAIN blocks => Goto(r, Raised(WholeObject, s.name, "missing"))
<1> DEFINE s == thread[r]
           x == blocks[<<s.name, i>>].data
           t == [at |-> "get", name |-> s.name, chunks |-> s.chunks,
                 parts |-> [s.parts EXCEPT ![i] = x], joined |-> s.joined, out |-> s.out]
<1>1. IsGetting(s) /\ i \in DOMAIN s.parts
  BY GettingTyped DEF Fetch, Fetching, ThreadsTyped
<1>2. i \in 0 .. (s.chunks - 1)
  BY <1>1 DEF IsGetting
<1>3. [s EXCEPT !.parts[i] = x] = t
  <2> HIDE DEF s, x
  <2> QED BY <1>1, PartChanged
<1>4. <<s.name, i>> \in DOMAIN blocks => Goto(r, [s EXCEPT !.parts[i] = x])
  BY DEF Fetch
<1>5. <<s.name, i>> \notin DOMAIN blocks => Goto(r, Raised(WholeObject, s.name, "missing"))
  BY DEF Fetch
<1> QED BY <1>1, <1>2, <1>3, <1>4, <1>5, Zenon

LEMMA FetchTypes ==
  ASSUME DataTyped, ThreadsTyped, NEW r \in Readers, NEW i, Fetch(r, i)
  PROVE  DataTyped' /\ ThreadsTyped'
<1> DEFINE s   == thread[r]
           key == <<s.name, i>>
<1>1. DataTyped'
  BY DataStays DEF Fetch
<1>2. IsGetting(s) /\ i \in 0 .. (s.chunks - 1)
  BY FetchGoes
<1>3. /\ s.name \in Names /\ s.chunks \in Nat \ {0} /\ s.joined \in Nat /\ s.out \in Seq(Byte)
      /\ s.parts \in [0 .. (s.chunks - 1) -> Seq(Byte) \cup {None}] /\ s.joined <= s.chunks
  BY <1>2 DEF IsGetting
<1>4. CASE key \in DOMAIN blocks
  <2> DEFINE x == blocks[key].data
             q == [s.parts EXCEPT ![i] = x]
             t == [at |-> "get", name |-> s.name, chunks |-> s.chunks, parts |-> q,
                   joined |-> s.joined, out |-> s.out]
  <2>1. x \in Seq(Byte)
    BY <1>4 DEF DataTyped, Chunks!IsDict, Blocks
  <2>2. Goto(r, t)
    BY <1>4, FetchGoes
  <2> HIDE DEF x
  <2>3. q \in [0 .. (s.chunks - 1) -> Seq(Byte) \cup {None}]
    BY <1>3, <2>1
  <2> HIDE DEF q, s
  <2>4. ReaderTyped(t)
    BY <1>3, <2>3, GettingMade
  <2> HIDE DEF t
  <2> QED BY <1>1, <2>2, <2>4, ReaderGoes
<1>5. CASE key \notin DOMAIN blocks
  <2>1. Goto(r, Raised(WholeObject, s.name, "missing"))
    BY <1>5, FetchGoes
  <2> HIDE DEF s
  <2> QED BY <1>1, <1>3, <2>1, AskTyped, RaisedTyped, ReaderGoes
<1> QED BY <1>4, <1>5

\* Where a join takes its reader, and that what it joins is there.
LEMMA JoinGoes ==
  ASSUME ThreadsTyped, NEW r \in Readers, GetJoin(r)
  PROVE  LET s == thread[r]
         IN  /\ IsGetting(s) /\ s.joined \in 0 .. (s.chunks - 1)
             /\ s.parts[s.joined] \in Seq(Byte)
             /\ Goto(r, [at |-> "get", name |-> s.name, chunks |-> s.chunks, parts |-> s.parts,
                         joined |-> s.joined + 1, out |-> s.out \o s.parts[s.joined]])
<1> DEFINE s == thread[r]
           k == s.joined + 1
           x == s.parts[s.joined]
           y == s.out \o x
           u == [at |-> "get", name |-> s.name, chunks |-> s.chunks, parts |-> s.parts,
                 joined |-> k, out |-> s.out]
           v == [at |-> "get", name |-> s.name, chunks |-> s.chunks, parts |-> s.parts,
                 joined |-> k, out |-> y]
<1>1. IsGetting(s) /\ s.joined < s.chunks /\ AllFetched(r)
  BY GettingTyped DEF GetJoin, ThreadsTyped
<1>2. s.joined \in 0 .. (s.chunks - 1)
  BY <1>1 DEF IsGetting
<1>3. x # None /\ x \in Seq(Byte)
  BY <1>1, <1>2 DEF IsGetting, AllFetched
<1>4. Goto(r, [s EXCEPT !.joined = k, !.out = y])
  BY <1>3 DEF GetJoin
<1>5. s = [at |-> "get", name |-> s.name, chunks |-> s.chunks, parts |-> s.parts,
           joined |-> s.joined, out |-> s.out]
  BY <1>1 DEF IsGetting
<1>6. [s EXCEPT !.joined = k, !.out = y] = v
  <2> HIDE DEF k, x, y, s
  <2>1. [s EXCEPT !.joined = k] = u
    BY <1>5
  <2>2. [u EXCEPT !.out = y] = v
    OBVIOUS
  <2>3. [s EXCEPT !.joined = k, !.out = y] = [[s EXCEPT !.joined = k] EXCEPT !.out = y]
    BY Zenon
  <2> QED BY <2>1, <2>2, <2>3, Zenon
<1> QED BY <1>1, <1>2, <1>3, <1>4, <1>6, Zenon

LEMMA GetJoinTypes ==
  ASSUME DataTyped, ThreadsTyped, NEW r \in Readers, GetJoin(r)
  PROVE  DataTyped' /\ ThreadsTyped'
<1> DEFINE s == thread[r]
           k == s.joined + 1
           y == s.out \o s.parts[s.joined]
           t == [at |-> "get", name |-> s.name, chunks |-> s.chunks, parts |-> s.parts,
                 joined |-> k, out |-> y]
<1>1. DataTyped'
  BY DataStays DEF GetJoin
<1>2. IsGetting(s) /\ s.joined \in 0 .. (s.chunks - 1) /\ s.parts[s.joined] \in Seq(Byte)
      /\ Goto(r, t)
  BY JoinGoes
<1>3. /\ s.name \in Names /\ s.chunks \in Nat \ {0} /\ s.out \in Seq(Byte)
      /\ s.parts \in [0 .. (s.chunks - 1) -> Seq(Byte) \cup {None}]
  BY <1>2 DEF IsGetting
<1>4. k \in Nat /\ k <= s.chunks /\ y \in Seq(Byte)
  BY <1>2, <1>3
<1> HIDE DEF s, k, y
<1>5. ReaderTyped(t)
  BY <1>3, <1>4, GettingMade
<1> HIDE DEF t
<1> QED BY <1>1, <1>2, <1>5, ReaderGoes

LEMMA GetDoneTypes ==
  ASSUME DataTyped, ThreadsTyped, NEW r \in Readers, GetDone(r)
  PROVE  DataTyped' /\ ThreadsTyped'
<1>1. DataTyped'
  BY DataStays DEF GetDone
<1>2. thread[r].name \in Names /\ thread[r].out \in Seq(Byte)
  BY GettingTyped DEF GetDone, ThreadsTyped, IsGetting
<1> QED BY <1>1, <1>2, AskTyped, GotTyped, ReaderGoes DEF GetDone

LEMMA RangeCalledTyped ==
  ASSUME DataTyped, NEW ask \in Asks, NEW n \in Names, NEW off \in Int, NEW len \in Int
  PROVE  ReaderTyped(RangeCalled(ask, n, off, len))
<1>1. CASE n \in DOMAIN manifests
  <2> DEFINE m == manifests[n]
             e == Min(m.size, off + len)
             s == [at |-> "range", ask |-> ask, name |-> n, cb |-> m.chunk_bytes, pos |-> off,
                   end |-> e, out |-> <<>>]
  <2>1. m.size \in Nat /\ m.chunk_bytes \in Nat \ {0}
    BY <1>1 DEF DataTyped, Dict!IsDict, Manifests
  <2> HIDE DEF m
  <2>2. e \in Int /\ <<>> \in Seq(Byte)
    BY <2>1 DEF Min
  <2> HIDE DEF e
  <2>3. s \in RangeState
    BY <2>1, <2>2 DEF RangeState
  <2>4. RangeCalled(ask, n, off, len) = s
    BY <1>1 DEF RangeCalled, m, e
  <2> HIDE DEF s
  <2> QED BY <2>3, <2>4 DEF ReaderTyped, ReaderStates
<1>2. CASE n \notin DOMAIN manifests
  BY <1>2, RaisedTyped DEF RangeCalled
<1> QED BY <1>1, <1>2

LEMMA RangeCallTypes ==
  ASSUME DataTyped, ThreadsTyped, NEW r \in Readers, NEW n \in Names, NEW x \in Ranges,
         GetRange(r, n, x[1], x[2]) \/ GetRows(r, n, x[1], x[2])
  PROVE  DataTyped' /\ ThreadsTyped'
<1>1. DataTyped'
  BY DataStays DEF GetRange, GetRows
<1>2. x[1] \in Int /\ x[2] \in Int
  BY ObjectConstants
<1>3. \A k \in {"range", "rows"} :
        [kind |-> k, off |-> x[1], len |-> x[2]] \in Asks \ {WholeObject}
  BY <1>2 DEF Asks, WholeObject
<1>4. CASE GetRange(r, n, x[1], x[2])
  BY <1>1, <1>2, <1>3, <1>4, RangeCalledTyped, ReaderGoes DEF GetRange
<1>5. CASE GetRows(r, n, x[1], x[2])
  <2> DEFINE ask == [kind |-> "rows", off |-> x[1], len |-> x[2]]
             m == manifests[n].row
             s == [at |-> "rows", ask |-> ask, name |-> n, row |-> m]
  <2>1. ask \in Asks \ {WholeObject}
    BY <1>3
  <2>2. Goto(r, IF n \in DOMAIN manifests THEN s ELSE Raised(ask, n, "missing"))
    BY <1>5 DEF GetRows
  <2> HIDE DEF ask
  <2>3. CASE n \in DOMAIN manifests
    <3>1. m \in Nat
      BY <2>3 DEF DataTyped, Dict!IsDict, Manifests
    <3> HIDE DEF m
    <3>2. s \in RowsState
      BY <2>1, <3>1 DEF RowsState
    <3> HIDE DEF s
    <3>3. ReaderTyped(s)
      BY <3>2 DEF ReaderTyped, ReaderStates
    <3> QED BY <1>1, <2>2, <2>3, <3>3, ReaderGoes
  <2>4. CASE n \notin DOMAIN manifests
    <3>1. Goto(r, Raised(ask, n, "missing"))
      BY <2>2, <2>4
    <3> QED BY <1>1, <2>1, <3>1, RaisedTyped, ReaderGoes
  <2> QED BY <2>3, <2>4
<1> QED BY <1>4, <1>5

LEMMA RowsRangeTypes ==
  ASSUME DataTyped, ThreadsTyped, NEW r \in Readers, RowsRange(r)
  PROVE  DataTyped' /\ ThreadsTyped'
<1> DEFINE s == thread[r]
<1>1. DataTyped'
  BY DataStays DEF RowsRange
<1>2. s \in RowsState
  BY RowingTyped DEF RowsRange, ThreadsTyped
<1>3. s.ask \in Asks /\ s.ask.off \in Int /\ s.ask.len \in Int /\ s.row \in Nat /\ s.name \in Names
  BY <1>2 DEF RowsState, Asks
<1>4. s.ask.off * s.row \in Int /\ s.ask.len * s.row \in Int
  BY <1>3
<1>5. ReaderTyped(RangeCalled(s.ask, s.name, s.ask.off * s.row, s.ask.len * s.row))
  BY <1>3, <1>4, RangeCalledTyped
<1> QED BY <1>1, <1>5, ReaderGoes DEF RowsRange

\* Where a piece takes its reader.
LEMMA PieceGoes ==
  ASSUME ThreadsTyped, NEW r \in Readers, RangePiece(r)
  PROVE  LET s    == thread[r]
             q    == s.pos \div s.cb
             from == s.pos - q * s.cb
             take == Min(s.cb - from, s.end - s.pos)
             key  == <<s.name, q>>
         IN  /\ s \in RangeState /\ s.pos < s.end
             /\ key \in DOMAIN blocks =>
                 Goto(r, [at |-> "range", ask |-> s.ask, name |-> s.name, cb |-> s.cb,
                          pos |-> s.pos + take, end |-> s.end,
                          out |-> s.out \o Slice(blocks[key].data, from, from + take)])
             /\ key \notin DOMAIN blocks => Goto(r, Raised(s.ask, s.name, "missing"))
<1> DEFINE s    == thread[r]
           from == s.pos - (s.pos \div s.cb) * s.cb
           take == Min(s.cb - from, s.end - s.pos)
           key  == <<s.name, s.pos \div s.cb>>
           k    == s.pos + take
           y    == s.out \o Slice(blocks[key].data, from, from + take)
           u    == [at |-> "range", ask |-> s.ask, name |-> s.name, cb |-> s.cb, pos |-> k,
                    end |-> s.end, out |-> s.out]
           v    == [at |-> "range", ask |-> s.ask, name |-> s.name, cb |-> s.cb, pos |-> k,
                    end |-> s.end, out |-> y]
<1>1. s \in RangeState /\ s.pos < s.end
  BY RangingTyped DEF RangePiece, ThreadsTyped
<1>2. key \in DOMAIN blocks => Goto(r, [s EXCEPT !.pos = k, !.out = y])
  BY DEF RangePiece
<1>3. key \notin DOMAIN blocks => Goto(r, Raised(s.ask, s.name, "missing"))
  BY DEF RangePiece
<1>4. s = [at |-> "range", ask |-> s.ask, name |-> s.name, cb |-> s.cb, pos |-> s.pos,
           end |-> s.end, out |-> s.out]
  BY <1>1 DEF RangeState
<1>5. [s EXCEPT !.pos = k, !.out = y] = v
  <2> HIDE DEF k, y, s
  <2>1. [s EXCEPT !.pos = k] = u
    BY <1>4
  <2>2. [u EXCEPT !.out = y] = v
    OBVIOUS
  <2>3. [s EXCEPT !.pos = k, !.out = y] = [[s EXCEPT !.pos = k] EXCEPT !.out = y]
    BY Zenon
  <2> QED BY <2>1, <2>2, <2>3, Zenon
<1> QED BY <1>1, <1>2, <1>3, <1>5, Zenon

LEMMA RangePieceTypes ==
  ASSUME DataTyped, ThreadsTyped, NEW r \in Readers, RangePiece(r)
  PROVE  DataTyped' /\ ThreadsTyped'
<1> DEFINE s    == thread[r]
           from == s.pos - (s.pos \div s.cb) * s.cb
           take == Min(s.cb - from, s.end - s.pos)
           key  == <<s.name, s.pos \div s.cb>>
           k    == s.pos + take
           x    == Slice(blocks[key].data, from, from + take)
           y    == s.out \o x
           t    == [at |-> "range", ask |-> s.ask, name |-> s.name, cb |-> s.cb, pos |-> k,
                    end |-> s.end, out |-> y]
<1>1. DataTyped'
  BY DataStays DEF RangePiece
<1>2. s \in RangeState
  BY RangingTyped DEF RangePiece, ThreadsTyped
<1>3. (key \in DOMAIN blocks => Goto(r, t))
      /\ (key \notin DOMAIN blocks => Goto(r, Raised(s.ask, s.name, "missing")))
  BY PieceGoes, Zenon
<1>4. /\ s.ask \in Asks /\ s.name \in Names /\ s.cb \in Nat \ {0} /\ s.pos \in Int
      /\ s.end \in Int /\ s.out \in Seq(Byte)
  BY <1>2 DEF RangeState
<1> HIDE DEF s
<1>5. from \in Nat /\ take \in Int
  <2> DEFINE pos == s.pos
             cb  == s.cb
             f   == pos - (pos \div cb) * cb
  <2>1. pos \in Int /\ cb \in Nat \ {0}
    BY <1>4
  <2> HIDE DEF pos, cb
  <2>2. f \in Nat
    BY <2>1, Division
  <2> HIDE DEF f
  <2>3. Min(cb - f, s.end - pos) \in Int
    BY <1>4, <2>1, <2>2 DEF Min
  <2> QED BY <2>2, <2>3 DEF f, pos, cb
<1>6. CASE key \in DOMAIN blocks
  <2>1. blocks[key].data \in Seq(Byte)
    BY <1>6 DEF DataTyped, Chunks!IsDict, Blocks
  <2>2. x \in Seq(Byte) /\ k \in Int
    <3> HIDE DEF take, from, key
    <3>1. from + take \in Int
      BY <1>5
    <3>2. x \in Seq(Byte)
      BY <1>5, <2>1, <3>1, SliceTyped
    <3>3. k \in Int
      BY <1>4, <1>5
    <3> QED BY <3>2, <3>3
  <2> HIDE DEF x, k
  <2>3. y \in Seq(Byte)
    BY <1>4, <2>2
  <2> HIDE DEF y
  <2>4. t \in RangeState
    BY <1>4, <2>2, <2>3 DEF RangeState
  <2>5. Goto(r, t)
    BY <1>3, <1>6 DEF x, k, y
  <2> HIDE DEF t
  <2>6. ReaderTyped(t)
    BY <2>4 DEF ReaderTyped, ReaderStates
  <2> QED BY <1>1, <2>5, <2>6, ReaderGoes
<1>7. CASE key \notin DOMAIN blocks
  BY <1>1, <1>3, <1>4, <1>7, RaisedTyped, ReaderGoes
<1> QED BY <1>6, <1>7

LEMMA RangeDoneTypes ==
  ASSUME DataTyped, ThreadsTyped, NEW r \in Readers, RangeDone(r)
  PROVE  DataTyped' /\ ThreadsTyped'
<1>1. DataTyped'
  BY DataStays DEF RangeDone
<1>2. thread[r].name \in Names /\ thread[r].out \in Seq(Byte) /\ thread[r].ask \in Asks
  BY RangingTyped DEF RangeDone, ThreadsTyped, RangeState
<1> QED BY <1>1, <1>2, GotTyped, ReaderGoes DEF RangeDone

LEMMA UnreachableTypes ==
  ASSUME DataTyped, ThreadsTyped, NEW r \in Readers, ReadUnreachable(r)
  PROVE  DataTyped' /\ ThreadsTyped'
<1>1. DataTyped'
  BY DataStays DEF ReadUnreachable
<1>2. ReaderTyped(thread[r])
  BY DEF ThreadsTyped
<1>3. CASE thread[r].at = "get" /\ Goto(r, Raised(WholeObject, thread[r].name, "unreachable"))
  <2>1. thread[r].name \in Names
    BY <1>2, <1>3, GettingTyped DEF IsGetting
  <2> QED BY <1>1, <1>3, <2>1, AskTyped, RaisedTyped, ReaderGoes
<1>4. CASE thread[r].at = "range" /\ Goto(r, Raised(thread[r].ask, thread[r].name, "unreachable"))
  <2>1. thread[r].name \in Names /\ thread[r].ask \in Asks
    BY <1>2, <1>4, RangingTyped DEF RangeState
  <2> QED BY <1>1, <1>4, <2>1, RaisedTyped, ReaderGoes
<1> QED BY <1>3, <1>4 DEF ReadUnreachable

LEMMA ReturnTypes ==
  ASSUME DataTyped, ThreadsTyped, NEW t \in Threads, Return(t)
  PROVE  DataTyped' /\ ThreadsTyped'
<1>1. DataTyped'
  BY DataStays DEF Return
<1> QED BY <1>1, IdleTyped, WriterGoes, ReaderGoes DEF Return, Threads

LEMMA TypesKept ==
  ASSUME DataTyped, ThreadsTyped, Next
  PROVE  DataTyped' /\ ThreadsTyped'
<1>1. ASSUME NEW w \in Writers, WriterStep(w) PROVE DataTyped' /\ ThreadsTyped'
  BY <1>1, PutCallTypes, DeleteCallTypes, ClearTypes, PutTypes, PutManifestTypes, DeleteTypes,
     ReturnTypes DEF WriterStep, WriterGoesOn, Threads
<1>2. ASSUME NEW r \in Readers, ReaderStep(r) PROVE DataTyped' /\ ThreadsTyped'
  BY <1>2, GetCallTypes, RangeCallTypes, FetchTypes, GetJoinTypes, GetDoneTypes, RangePieceTypes,
     RangeDoneTypes, RowsRangeTypes, UnreachableTypes, ReturnTypes
     DEF ReaderStep, ReaderGoesOn, FetchNext, Threads
<1> QED BY <1>1, <1>2, RequestTypes, BlockLostTypes DEF Next

\* Objects, manifests and threads are always of the types that the operations
\* on objects assume.
THEOREM ObjectsTyped == Spec => []TypeOK
<1>1. Init => TypeOK
  <2> SUFFICES ASSUME Init PROVE TypeOK
    OBVIOUS
  <2>1. DataTyped
    BY DEF Init, DataTyped, Chunks!IsDict, Dict!IsDict, Chunks!Empty, Dict!Empty, RequestStates
  <2>2. ThreadsTyped
    BY IdleTyped DEF Init, ThreadsTyped, Threads
  <2> QED BY <2>1, <2>2, TypedParts
<1>2. TypeOK /\ [Next]_vars => TypeOK'
  <2> SUFFICES ASSUME TypeOK, [Next]_vars PROVE TypeOK'
    OBVIOUS
  <2>1. DataTyped /\ ThreadsTyped
    BY TypedParts
  <2>2. CASE UNCHANGED vars
    <3>1. DataTyped'
      BY <2>1, <2>2, DataStays DEF vars
    <3>2. ThreadsTyped'
      BY <2>1, <2>2 DEF vars, ThreadsTyped, ReaderTyped, IsGetting
    <3> QED BY <3>1, <3>2 DEF TypeOK, DataTyped, ThreadsTyped, ReaderTyped
  <2>3. CASE Next
    <3>1. DataTyped' /\ ThreadsTyped'
      BY <2>1, <2>3, TypesKept
    <3> QED BY <3>1 DEF TypeOK, DataTyped, ThreadsTyped, ReaderTyped
  <2> QED BY <2>2, <2>3
<1> QED BY <1>1, <1>2, PTL DEF Spec

-----------------------------------------------------------------------------
(* Names that are whole, operations that are alone, reads that are right   *)

\* With the blocks bs and the PUTs sn under way, chunk c has data d or may yet
\* come to have it; and it is there, or a spill may enter it.
MayRead(bs, sn, c, d) ==
    \/ c \in DOMAIN bs /\ bs[c].data = d
    \/ \E x \in Requests : sn[x] # Idle /\ sn[x].key = c /\ sn[x].data = d

MayBe(bs, sn, c) ==
    \/ c \in DOMAIN bs
    \/ \E x \in Requests : sn[x] # Idle /\ sn[x].at # "put" /\ sn[x].key = c

\* The first k chunks under n are there, and are those of contents d for good.
Holds(bs, sn, n, d, cb, k) ==
    \A i \in Nat : i < k =>
        /\ <<n, i>> \in DOMAIN bs
        /\ \A e : MayRead(bs, sn, <<n, i>>, e) => e = Chunk(d, cb, i)

\* The manifest of n, and every chunk that it names, are those of d.
IsWhole(bs, sn, ms, n, d) ==
    /\ n \in DOMAIN ms
    /\ ms[n] = ManifestOf(d, ms[n].chunk_bytes)
    /\ Holds(bs, sn, n, d, ms[n].chunk_bytes, ms[n].chunks)

WholeHolds(n) == whole[n] # None => IsWhole(blocks, sent, manifests, n, whole[n])

\* A put that is alone on its name has stored its own chunks so far, and with
\* the first of them the name has ceased to be whole.
OwnPut(s) ==
    /\ Holds(blocks, sent, s.name, s.data, s.cb, s.next)
    /\ s.next > 0 => whole[s.name] = None

\* A delete that is alone on its name has removed its chunks so far, and in
\* the end all of them and the manifest.
OwnDelete(s) ==
    /\ \A i \in Nat : i < s.next => ~MayBe(blocks, sent, <<s.name, i>>)
    /\ s.at = "deleted" => s.next >= s.chunks /\ s.name \notin DOMAIN manifests

OwnerHolds(w) ==
    owner[thread[w].name] = w =>
        /\ thread[w].at = "put" => OwnPut(thread[w])
        /\ thread[w].at \in {"delete", "deleted"} => OwnDelete(thread[w])

\* Where the part that is asked for starts and stops, in bytes.
Unit(ask, d) == IF ask.kind = "rows" THEN Row[d] ELSE 1
Start(ask, d) == ask.off * Unit(ask, d)
Stop(ask, d) == (ask.off + ask.len) * Unit(ask, d)

\* A get has fetched chunks of d, and joined the first of them.
Collects(s, d, cb) ==
    /\ s.chunks = ChunkCount(d, cb)
    /\ \A i \in DOMAIN s.parts : s.parts[i] \in {None, Chunk(d, cb, i)}
    /\ s.out = FirstChunks(d, cb, s.joined)

\* A get of a part has read d from where the part starts.
Walks(s, d, cb) ==
    /\ s.ask # WholeObject
    /\ s.cb = cb
    /\ s.end = Min(Len(d), Stop(s.ask, d))
    /\ \/ s.pos = Start(s.ask, d) /\ s.out = <<>>
       \/ /\ 0 <= Start(s.ask, d)
          /\ s.pos \in Start(s.ask, d) .. s.end
          /\ s.out = SubSeq(d, Start(s.ask, d) + 1, s.pos)

\* A read of contents d, in chunks of cb bytes, is right so far.
Right(s, d, cb) ==
    /\ s.at = "get" => Collects(s, d, cb)
    /\ s.at = "rows" => s.ask.kind = "rows" /\ s.row = Row[d]
    /\ s.at = "range" => Walks(s, d, cb)
    /\ s.at = "got" => s.data = Wanted(s.ask, d)
    /\ s.at = "raised" /\ s.why = "missing" => s.ask # WholeObject /\ s.ask.off < 0

\* A name that a read has found whole from its start is whole with the same
\* contents now, and the read is right.
ReaderRight(r) ==
    steady[r] # None =>
        /\ thread[r] # Idle
        /\ steady[r] = whole[thread[r].name]
        /\ Right(thread[r], steady[r], manifests[thread[r].name].chunk_bytes)

HistoryTyped ==
    /\ whole \in [Names -> Data \cup {None}]
    /\ owner \in [Names -> Writers \cup {None}]

ReadsRight ==
    /\ HistoryTyped
    /\ \A n \in Names : WholeHolds(n)
    /\ \A w \in Writers : OwnerHolds(w)
    /\ \A r \in Readers : ReaderRight(r)

-----------------------------------------------------------------------------
(* What a step may change                                                  *)

\* The step leaves chunk c as it was, or as a PUT under way makes it.
ChunkStays(c) ==
    /\ c \in DOMAIN blocks => c \in DOMAIN blocks'
    /\ \A d : MayRead(blocks', sent', c, d) => MayRead(blocks, sent, c, d)
    /\ MayBe(blocks', sent', c) => MayBe(blocks, sent, c)

\* The step leaves the manifest, the chunks and the contents of n alone.
Undisturbed(n) ==
    /\ whole'[n] = whole[n]
    /\ n \in DOMAIN manifests' <=> n \in DOMAIN manifests
    /\ n \in DOMAIN manifests => manifests'[n] = manifests[n]
    /\ \A i \in Nat : ChunkStays(<<n, i>>)

\* A step that leaves a chunk and the PUTs of it alone.
LEMMA SameChunk ==
  ASSUME NEW c, c \in DOMAIN blocks' <=> c \in DOMAIN blocks,
         c \in DOMAIN blocks => blocks'[c] = blocks[c],
         \A x \in Requests : sent'[x] = sent[x] \/ sent'[x] = Idle \/ sent'[x].key # c
  PROVE  ChunkStays(c)
  BY DEF ChunkStays, MayRead, MayBe

LEMMA HoldsStays ==
  ASSUME NEW n, NEW d, NEW cb, NEW k, Holds(blocks, sent, n, d, cb, k),
         \A i \in Nat : ChunkStays(<<n, i>>)
  PROVE  Holds(blocks', sent', n, d, cb, k)
<1> SUFFICES ASSUME NEW i \in Nat, i < k
             PROVE  /\ <<n, i>> \in DOMAIN blocks'
                    /\ \A e : MayRead(blocks', sent', <<n, i>>, e) => e = Chunk(d, cb, i)
  BY DEF Holds
<1>1. /\ <<n, i>> \in DOMAIN blocks
      /\ \A e : MayRead(blocks, sent, <<n, i>>, e) => e = Chunk(d, cb, i)
  BY DEF Holds
<1>2. ChunkStays(<<n, i>>)
  OBVIOUS
<1> QED BY <1>1, <1>2, Zenon DEF ChunkStays

LEMMA WholeStays ==
  ASSUME NEW n, Undisturbed(n), WholeHolds(n)
  PROVE  WholeHolds(n)'
<1> SUFFICES ASSUME whole'[n] # None PROVE IsWhole(blocks', sent', manifests', n, whole'[n])
  BY DEF WholeHolds
<1>1. whole[n] # None /\ whole'[n] = whole[n]
  BY DEF Undisturbed
<1>2. IsWhole(blocks, sent, manifests, n, whole[n])
  BY <1>1 DEF WholeHolds
<1>3. n \in DOMAIN manifests' /\ manifests'[n] = manifests[n]
  BY <1>2 DEF IsWhole, Undisturbed
<1> QED BY <1>1, <1>2, <1>3, HoldsStays DEF IsWhole, Undisturbed

\* A reader that has a name has one of Names.
LEMMA ReaderNamed ==
  ASSUME NEW s, ReaderTyped(s), s # Idle
  PROVE  s.name \in Names
  BY DEF ReaderTyped, ReaderStates, IsGetting, RangeState, RowsState, GotState, RaisedState

LEMMA WriterNamed ==
  ASSUME NEW s \in WriterStates, s.at \in {"put", "delete", "deleted"}
  PROVE  s.name \in Names
  BY DEF WriterStates, Idle, PuttingState, DeletingState, StoredState

\* A writer that takes no part keeps what it relies on, if it is still alone.
LEMMA OwnerStays ==
  ASSUME ThreadsTyped, NEW w \in Writers, OwnerHolds(w), thread'[w] = thread[w],
         owner'[thread[w].name] = w => owner[thread[w].name] = w /\ Undisturbed(thread[w].name)
  PROVE  OwnerHolds(w)'
<1> DEFINE s == thread[w]
<1> SUFFICES ASSUME owner'[s.name] = w
             PROVE  /\ s.at = "put" => OwnPut(s)'
                    /\ s.at \in {"delete", "deleted"} => OwnDelete(s)'
  BY DEF OwnerHolds, OwnPut, OwnDelete
<1>1. owner[s.name] = w /\ Undisturbed(s.name)
  OBVIOUS
<1>2. ASSUME s.at = "put" PROVE OwnPut(s)'
  <2>1. OwnPut(s)
    BY <1>1, <1>2 DEF OwnerHolds
  <2>2. Holds(blocks', sent', s.name, s.data, s.cb, s.next)
    BY <1>1, <2>1, HoldsStays DEF OwnPut, Undisturbed
  <2> QED BY <1>1, <2>1, <2>2 DEF OwnPut, Undisturbed
<1>3. ASSUME s.at \in {"delete", "deleted"} PROVE OwnDelete(s)'
  <2>1. OwnDelete(s)
    BY <1>1, <1>3 DEF OwnerHolds
  <2> QED BY <1>1, <2>1 DEF OwnDelete, Undisturbed, ChunkStays
<1> QED BY <1>2, <1>3

\* So does a reader, if its read goes on being of a whole name.
LEMMA ReaderStays ==
  ASSUME ThreadsTyped, HistoryTyped, NEW r \in Readers, ReaderRight(r), Watch,
         thread'[r] = thread[r],
         \A n \in Names : WholeHolds(n),
         \A n \in Names : whole'[n] # None => whole[n] = None \/ Undisturbed(n)
  PROVE  ReaderRight(r)'
<1> DEFINE n == thread[r].name
           d == steady'[r]
<1> SUFFICES ASSUME d # None
             PROVE  /\ thread[r] # Idle
                    /\ d = whole'[n]
                    /\ Right(thread[r], d, manifests'[n].chunk_bytes)
  BY DEF ReaderRight
<1>1. thread[r] # Idle /\ d = whole'[n] /\ whole'[n] = steady[r]
  BY DEF Watch
<1>2. n \in Names
  BY <1>1, ReaderNamed DEF ThreadsTyped
<1>3. steady[r] = whole[n] /\ Right(thread[r], d, manifests[n].chunk_bytes)
  BY <1>1 DEF ReaderRight
<1>4. Undisturbed(n) /\ n \in DOMAIN manifests
  BY <1>1, <1>2, <1>3 DEF WholeHolds, IsWhole
<1>5. manifests'[n] = manifests[n]
  BY <1>4 DEF Undisturbed
<1> QED BY <1>1, <1>3, <1>5

\* A step of the threads in ts that disturbs the names in ns.
LEMMA StepRight ==
  ASSUME ThreadsTyped, ReadsRight, HistoryTyped', Watch, NEW ns, NEW ts,
         \A n \in Names \ ns : Undisturbed(n) /\ (owner'[n] = owner[n] \/ owner'[n] \in ts),
         \A n \in ns : owner'[n] = None \/ owner'[n] \in ts,
         \A n \in ns : whole'[n] # None => whole[n] = None,
         \A n \in ns : WholeHolds(n)',
         \A t \in Threads \ ts : thread'[t] = thread[t],
         \A w \in Writers : w \in ts => OwnerHolds(w)',
         \A r \in Readers : r \in ts => ReaderRight(r)'
  PROVE  ReadsRight'
<1>1. ASSUME NEW n \in Names PROVE WholeHolds(n)'
  BY WholeStays DEF ReadsRight
<1>2. ASSUME NEW w \in Writers PROVE OwnerHolds(w)'
  <2>1. CASE w \in ts
    BY <2>1
  <2>2. CASE w \notin ts
    <3>1. thread'[w] = thread[w] /\ OwnerHolds(w)
      BY <2>2 DEF Threads, ReadsRight
    <3>2. ASSUME thread[w].at \in {"put", "delete", "deleted"}
          PROVE  OwnerHolds(w)'
      <4>1. thread[w].name \in Names
        BY <3>2, WriterNamed DEF ThreadsTyped
      <4>2. owner'[thread[w].name] = w =>
              owner[thread[w].name] = w /\ Undisturbed(thread[w].name)
        BY <2>2, <4>1, ObjectReadConstants
      <4> QED BY <3>1, <4>2, OwnerStays
    <3>3. ASSUME thread[w].at \notin {"put", "delete", "deleted"}
          PROVE  OwnerHolds(w)'
      BY <3>1, <3>3 DEF OwnerHolds
    <3> QED BY <3>2, <3>3
  <2> QED BY <2>1, <2>2
<1>3. ASSUME NEW r \in Readers PROVE ReaderRight(r)'
  <2>1. CASE r \in ts
    BY <2>1
  <2>2. CASE r \notin ts
    <3>1. thread'[r] = thread[r] /\ ReaderRight(r) /\ \A n \in Names : WholeHolds(n)
      BY <2>2 DEF Threads, ReadsRight
    <3>2. \A n \in Names : whole'[n] # None => whole[n] = None \/ Undisturbed(n)
      OBVIOUS
    <3> QED BY <3>1, <3>2, ReaderStays DEF ReadsRight
  <2> QED BY <2>1, <2>2
<1> QED BY <1>1, <1>2, <1>3 DEF ReadsRight

-----------------------------------------------------------------------------
(* The steps of writers, and of the peers                                  *)

LEMMA Elsewhere ==
  ASSUME ThreadsTyped, NEW t \in Threads, NEW s, Goto(t, s)
  PROVE  thread'[t] = s /\ \A u \in Threads \ {t} : thread'[u] = thread[u]
  BY DEF ThreadsTyped, Goto

LEMMA AllUndisturbed ==
  ASSUME UNCHANGED <<blocks, manifests, sent, whole>>
  PROVE  \A n \in Names : Undisturbed(n)
  BY SameChunk DEF Undisturbed

\* An operation that begins has done nothing yet.
LEMMA BeginsRight ==
  ASSUME ThreadsTyped, ReadsRight, Watch, NEW w \in Writers, NEW n \in Names,
         \/ \E d \in Data, cb \in ChunkSizes : PutObject(w, n, d, cb)
         \/ DeleteObject(w, n),
         Begins(w, n)
  PROVE  ReadsRight'
<1>1. UNCHANGED <<blocks, manifests, sent, whole>>
  BY DEF PutObject, DeleteObject, Begins
<1>2. PICK s : Goto(w, s) /\ (s.at = "put" \/ s.at = "delete" => s.next = 0)
               /\ s.at \in {"put", "delete", "idle"}
  <2>1. ASSUME NEW d \in Data, NEW cb \in ChunkSizes, PutObject(w, n, d, cb)
        PROVE  \E s : Goto(w, s) /\ (s.at = "put" \/ s.at = "delete" => s.next = 0)
                      /\ s.at \in {"put", "delete", "idle"}
    <3>1. Goto(w, [at |-> "put", name |-> n, data |-> d, cb |-> cb, next |-> 0])
      BY <2>1 DEF PutObject
    <3> QED BY <3>1
  <2>2. CASE DeleteObject(w, n) /\ n \in DOMAIN manifests
    <3>1. Goto(w, [at |-> "delete", name |-> n, chunks |-> manifests[n].chunks, next |-> 0])
      BY <2>2 DEF DeleteObject
    <3> QED BY <3>1
  <2>3. CASE DeleteObject(w, n) /\ n \notin DOMAIN manifests
    <3>1. Goto(w, Idle) /\ Idle.at = "idle"
      BY <2>3 DEF DeleteObject, Idle
    <3> QED BY <3>1
  <2> QED BY <2>1, <2>2, <2>3
<1>3. thread'[w] = s /\ \A t \in Threads \ {w} : thread'[t] = thread[t]
  BY <1>2, Elsewhere DEF Threads
<1>4. HistoryTyped'
  BY <1>1 DEF ReadsRight, HistoryTyped, Begins
<1>5. \A m \in Names : owner'[m] = owner[m] \/ owner'[m] = w
  BY DEF ReadsRight, HistoryTyped, Begins
<1>6. OwnerHolds(w)'
  BY <1>2, <1>3 DEF OwnerHolds, OwnPut, OwnDelete, Holds
<1>7. \A r \in Readers : r # w
  BY ObjectConstants
<1> DEFINE ns == {}
           ts == {w}
<1>8. /\ \A m \in Names \ ns : Undisturbed(m) /\ (owner'[m] = owner[m] \/ owner'[m] \in ts)
      /\ \A t \in Threads \ ts : thread'[t] = thread[t]
      /\ \A v \in Writers : v \in ts => OwnerHolds(v)'
      /\ \A r \in Readers : r \in ts => ReaderRight(r)'
  BY <1>1, <1>3, <1>5, <1>6, <1>7, AllUndisturbed
<1>9. \A m \in ns : (owner'[m] = None \/ owner'[m] \in ts) /\ (whole'[m] # None => whole[m] = None)
                    /\ WholeHolds(m)'
  OBVIOUS
<1> HIDE DEF ns, ts
<1> QED BY <1>4, <1>8, <1>9, StepRight

\* A step of writer w that touches its name, and what it then relies on.
LEMMA TouchRight ==
  ASSUME ThreadsTyped, ReadsRight, Watch, NEW w \in Writers, thread[w].name \in Names, Touches(w),
         \A t \in Threads \ {w} : thread'[t] = thread[t],
         \A n \in Names \ {thread[w].name} : whole'[n] = whole[n] => Undisturbed(n),
         OwnerHolds(w)'
  PROVE  ReadsRight'
<1> PICK n \in Names : n = thread[w].name
  OBVIOUS
<1>1. whole'[n] = None /\ \A m \in Names \ {n} : whole'[m] = whole[m]
  BY DEF Touches, ReadsRight, HistoryTyped
<1>2. owner'[n] \in {None, w} /\ \A m \in Names \ {n} : owner'[m] = owner[m]
  BY DEF Touches, ReadsRight, HistoryTyped
<1>3. HistoryTyped'
  BY DEF Touches, ReadsRight, HistoryTyped
<1>4. \A t \in Threads \ {w} : thread'[t] = thread[t]
  OBVIOUS
<1>5. \A r \in Readers : r # w
  BY ObjectConstants
<1> DEFINE ns == {n}
           ts == {w}
<1>6. /\ \A m \in Names \ ns : Undisturbed(m) /\ (owner'[m] = owner[m] \/ owner'[m] \in ts)
      /\ \A t \in Threads \ ts : thread'[t] = thread[t]
      /\ \A v \in Writers : v \in ts => OwnerHolds(v)'
      /\ \A r \in Readers : r \in ts => ReaderRight(r)'
  BY <1>1, <1>2, <1>4, <1>5
<1>7. WholeHolds(n)'
  BY <1>1 DEF WholeHolds
<1>8. /\ \A m \in ns : owner'[m] = None \/ owner'[m] \in ts
      /\ \A m \in ns : whole'[m] # None => whole[m] = None
      /\ \A m \in ns : WholeHolds(m)'
  BY <1>1, <1>2, <1>7
<1> HIDE DEF ns, ts
<1> QED BY <1>3, <1>6, <1>8, StepRight

\* The chunks of the names in ns change, and the threads in ts move, whose own
\* names are among them.
LEMMA DisturbRight ==
  ASSUME ThreadsTyped, ReadsRight, Watch, NEW ns \in SUBSET Names, Disturbs(ns),
         NEW ts \in SUBSET Writers, \A t \in ts : thread'[t].name \in ns,
         \A t \in Threads \ ts : thread'[t] = thread[t],
         \A n \in Names \ ns : whole'[n] = whole[n] => Undisturbed(n)
  PROVE  ReadsRight'
<1>1. \A n \in Names : whole'[n] = (IF n \in ns THEN None ELSE whole[n])
                       /\ owner'[n] = (IF n \in ns THEN None ELSE owner[n])
  BY DEF Disturbs
<1>2. HistoryTyped'
  BY DEF Disturbs, ReadsRight, HistoryTyped
<1>3. \A w \in Writers : w \in ts => OwnerHolds(w)'
  BY <1>1, ObjectReadConstants DEF OwnerHolds
<1>4. \A r \in Readers : r \notin ts
  BY ObjectConstants
<1>5. /\ \A n \in Names \ ns : Undisturbed(n) /\ (owner'[n] = owner[n] \/ owner'[n] \in ts)
      /\ \A n \in ns : whole'[n] = None /\ owner'[n] = None
  BY <1>1
<1>6. \A n \in ns : WholeHolds(n)'
  BY <1>5 DEF WholeHolds
<1> QED BY <1>2, <1>3, <1>4, <1>5, <1>6, StepRight

\* A put sends its next chunk, which it has not entered yet.
LEMMA PutSendsRight ==
  ASSUME ThreadsTyped, ReadsRight, Watch, NEW w \in Writers, PutSends(w), Touches(w)
  PROVE  ReadsRight'
<1>1. thread[w] \in PuttingState
  BY PuttingTyped DEF ThreadsTyped, PutSends, MoreToPut
<1>2. PICK n \in Names, d \in Data, cb \in Nat \ {0}, i \in Nat :
        thread[w] = [at |-> "put", name |-> n, data |-> d, cb |-> cb, next |-> i]
  BY <1>1 DEF PuttingState
<1>3. UNCHANGED <<blocks, manifests, thread>> /\ NextKey(w) = <<n, i>> /\ thread[w].name = n
  BY <1>2 DEF PutSends, NextKey
<1>4. PICK x \in Requests : sent' = [sent EXCEPT ![x] = Request("put", <<n, i>>, NextChunk(w))]
  BY <1>3 DEF PutSends, Send
<1>5. \A c : c # <<n, i>> => ChunkStays(c)
  <2>1. Request("put", <<n, i>>, NextChunk(w)).key = <<n, i>>
    BY DEF Request
  <2>2. \A y \in Requests : sent'[y] = sent[y] \/ sent'[y].key = <<n, i>>
    BY <1>4, <2>1
  <2> QED BY <1>3, <2>2, SameChunk
<1>6. \A m \in Names \ {n} : whole'[m] = whole[m] => Undisturbed(m)
  BY <1>3, <1>5 DEF Undisturbed
<1>7. OwnerHolds(w)'
  <2> SUFFICES ASSUME owner'[n] = w PROVE OwnPut(thread[w])'
    BY <1>2, <1>3 DEF OwnerHolds, OwnPut, OwnDelete
  <2>1. owner[n] = w /\ whole'[n] = None
    BY <1>3, ObjectReadConstants DEF Touches, ReadsRight, HistoryTyped
  <2>2. Holds(blocks, sent, n, d, cb, i)
    BY <1>2, <2>1 DEF ReadsRight, OwnerHolds, OwnPut
  <2>3. Holds(blocks', sent', n, d, cb, i)
    BY <1>5, <2>2 DEF Holds, ChunkStays
  <2> QED BY <1>2, <1>3, <2>1, <2>3 DEF OwnPut
<1>8. thread[w].name \in Names /\ \A t \in Threads \ {w} : thread'[t] = thread[t]
  BY <1>3
<1>9. \A m \in Names \ {thread[w].name} : whole'[m] = whole[m] => Undisturbed(m)
  BY <1>3, <1>6
<1> QED BY <1>7, <1>8, <1>9, TouchRight

\* A chunk that is put, crossed or not.
LEMMA PutChunkRight ==
  ASSUME DataTyped, ThreadsTyped, ReadsRight, Watch, NEW w \in Writers, PutChunk(w),
         IF PutCrossed(w) THEN Disturbs({thread[w].name}) ELSE Touches(w)
  PROVE  ReadsRight'
<1>1. thread[w] \in PuttingState
  BY PuttingTyped DEF ThreadsTyped, PutChunk, MoreToPut
<1>2. PICK n \in Names, d \in Data, cb \in Nat \ {0}, i \in Nat :
        thread[w] = [at |-> "put", name |-> n, data |-> d, cb |-> cb, next |-> i]
  BY <1>1 DEF PuttingState
<1> DEFINE s == [at |-> "put", name |-> n, data |-> d, cb |-> cb, next |-> i + 1]
<1>3. [thread[w] EXCEPT !.next = @ + 1] = s
  BY <1>2
<1>4. thread'[w] = s /\ \A t \in Threads \ {w} : thread'[t] = thread[t]
  <2>1. Goto(w, s)
    BY <1>3 DEF PutChunk
  <2> HIDE DEF s
  <2> QED BY <2>1, Elsewhere DEF Threads
<1>5. NextKey(w) = <<n, i>> /\ NextChunk(w) = Chunk(d, cb, i)
  BY <1>2 DEF NextKey, NextChunk
<1>6. PICK p \in Places :
        blocks' = Chunks!Store(blocks, <<n, i>>, [data |-> Chunk(d, cb, i), place |-> p])
  BY <1>5 DEF PutChunk
<1>7. manifests' = manifests /\ sent' = sent /\ thread[w].name = n
  BY <1>2 DEF PutChunk
<1>8. \A c : c # <<n, i>> => ChunkStays(c)
  BY <1>6, <1>7, SameChunk DEF Chunks!Store
<1>9. \A m \in Names \ {n} : whole'[m] = whole[m] => Undisturbed(m)
  BY <1>7, <1>8 DEF Undisturbed
<1>10. CASE PutCrossed(w)
  <2> DEFINE ns == {n}
             ts == {w}
  <2>1. /\ ns \in SUBSET Names /\ ts \in SUBSET Writers /\ Disturbs(ns)
        /\ \A t \in ts : thread'[t].name \in ns
        /\ \A t \in Threads \ ts : thread'[t] = thread[t]
        /\ \A m \in Names \ ns : whole'[m] = whole[m] => Undisturbed(m)
    BY <1>4, <1>7, <1>9, <1>10
  <2> HIDE DEF ns, ts
  <2> QED BY <2>1, DisturbRight
<1>11. CASE ~PutCrossed(w)
  <2>1. OwnerHolds(w)'
    <3> SUFFICES ASSUME owner'[n] = w PROVE OwnPut(s)'
      BY <1>4 DEF OwnerHolds, OwnPut, OwnDelete
    <3>1. owner[n] = w /\ whole'[n] = None
      BY <1>7, <1>11, ObjectReadConstants DEF Touches, ReadsRight, HistoryTyped
    <3>2. Holds(blocks, sent, n, d, cb, i)
      BY <1>2, <3>1 DEF ReadsRight, OwnerHolds, OwnPut
    <3>3. /\ <<n, i>> \in DOMAIN blocks'
          /\ \A e : MayRead(blocks', sent', <<n, i>>, e) => e = Chunk(d, cb, i)
      <4>1. blocks'[<<n, i>>].data = Chunk(d, cb, i) /\ <<n, i>> \in DOMAIN blocks'
        BY <1>6 DEF Chunks!Store
      <4>2. \A x \in Requests :
                sent[x] # Idle /\ sent[x].key = <<n, i>> => sent[x].data = Chunk(d, cb, i)
        BY <1>5, <1>11 DEF PutCrossed
      <4> QED BY <1>7, <4>1, <4>2 DEF MayRead
    <3>4. ASSUME NEW j \in Nat, j < i + 1
          PROVE  /\ <<n, j>> \in DOMAIN blocks'
                 /\ \A e : MayRead(blocks', sent', <<n, j>>, e) => e = Chunk(d, cb, j)
      <4>1. CASE j = i
        BY <3>3, <4>1
      <4>2. CASE j # i
        <5>1. /\ <<n, j>> \in DOMAIN blocks
              /\ \A e : MayRead(blocks, sent, <<n, j>>, e) => e = Chunk(d, cb, j)
          BY <3>2, <3>4, <4>2 DEF Holds
        <5>2. ChunkStays(<<n, j>>)
          BY <1>8, <4>2
        <5> QED BY <5>1, <5>2, Zenon DEF ChunkStays
      <4> QED BY <4>1, <4>2
    <3>5. Holds(blocks', sent', n, d, cb, i + 1)
      BY <3>4 DEF Holds
    <3> QED BY <3>1, <3>5 DEF OwnPut
  <2>2. thread[w].name \in Names /\ Touches(w)
    BY <1>7, <1>11
  <2>3. \A m \in Names \ {thread[w].name} : whole'[m] = whole[m] => Undisturbed(m)
    BY <1>7, <1>9
  <2> HIDE DEF s
  <2> QED BY <1>4, <2>1, <2>2, <2>3, TouchRight
<1> QED BY <1>10, <1>11

LEMMA DeleteChunkRight ==
  ASSUME DataTyped, ThreadsTyped, ReadsRight, Watch, NEW w \in Writers, DeleteChunk(w),
         IF DeleteCrossed(w) THEN Disturbs({thread[w].name}) ELSE Touches(w)
  PROVE  ReadsRight'
<1>1. thread[w] \in DeletingState /\ thread[w].at = "delete"
  BY DeletingTyped DEF ThreadsTyped, DeleteChunk
<1>2. PICK n \in Names, c \in Nat, i \in Nat :
        thread[w] = [at |-> "delete", name |-> n, chunks |-> c, next |-> i]
  BY <1>1 DEF DeletingState
<1> DEFINE s == [at |-> "delete", name |-> n, chunks |-> c, next |-> i + 1]
<1>3. [thread[w] EXCEPT !.next = @ + 1] = s
  BY <1>2
<1>4. thread'[w] = s /\ \A t \in Threads \ {w} : thread'[t] = thread[t]
  <2>1. Goto(w, s)
    BY <1>3 DEF DeleteChunk
  <2> HIDE DEF s
  <2> QED BY <2>1, Elsewhere DEF Threads
<1>5. /\ blocks' = Chunks!Drop(blocks, <<n, i>>) /\ UNCHANGED <<manifests, sent>>
      /\ thread[w].name = n /\ NextKey(w) = <<n, i>>
  BY <1>2 DEF DeleteChunk, NextKey
<1>6. \A k : k # <<n, i>> => ChunkStays(k)
  BY <1>5, SameChunk DEF Chunks!Drop
<1>7. \A m \in Names \ {n} : whole'[m] = whole[m] => Undisturbed(m)
  BY <1>5, <1>6 DEF Undisturbed
<1>8. CASE DeleteCrossed(w)
  <2> DEFINE ns == {n}
             ts == {w}
  <2>1. /\ ns \in SUBSET Names /\ ts \in SUBSET Writers /\ Disturbs(ns)
        /\ \A t \in ts : thread'[t].name \in ns
        /\ \A t \in Threads \ ts : thread'[t] = thread[t]
        /\ \A m \in Names \ ns : whole'[m] = whole[m] => Undisturbed(m)
    BY <1>4, <1>5, <1>7, <1>8
  <2> HIDE DEF ns, ts
  <2> QED BY <2>1, DisturbRight
<1>9. CASE ~DeleteCrossed(w)
  <2>1. OwnerHolds(w)'
    <3> SUFFICES ASSUME owner'[n] = w PROVE OwnDelete(s)'
      BY <1>4 DEF OwnerHolds, OwnPut, OwnDelete
    <3>1. owner[n] = w
      BY <1>5, <1>9, ObjectReadConstants DEF Touches, ReadsRight, HistoryTyped
    <3>2. \A j \in Nat : j < i => ~MayBe(blocks, sent, <<n, j>>)
      BY <1>2, <3>1 DEF ReadsRight, OwnerHolds, OwnDelete
    <3>3. ~MayBe(blocks', sent', <<n, i>>)
      <4>1. <<n, i>> \notin DOMAIN blocks'
        BY <1>5 DEF Chunks!Drop
      <4>2. ASSUME NEW x \in Requests, sent[x] # Idle, sent[x].at # "put", sent[x].key = <<n, i>>
            PROVE  FALSE
        BY <1>5, <1>9, <4>2, RequestKinds DEF DeleteCrossed, DataTyped
      <4> QED BY <1>5, <4>1, <4>2 DEF MayBe
    <3>4. \A j \in Nat : j < i + 1 => ~MayBe(blocks', sent', <<n, j>>)
      BY <1>6, <3>2, <3>3 DEF ChunkStays
    <3> QED BY <3>4 DEF OwnDelete
  <2>2. thread[w].name \in Names /\ Touches(w)
    BY <1>5, <1>9
  <2>3. \A m \in Names \ {thread[w].name} : whole'[m] = whole[m] => Undisturbed(m)
    BY <1>5, <1>7
  <2> HIDE DEF s
  <2> QED BY <1>4, <2>1, <2>2, <2>3, TouchRight
<1> QED BY <1>8, <1>9

LEMMA DeleteManifestRight ==
  ASSUME ThreadsTyped, ReadsRight, Watch, NEW w \in Writers, DeleteManifest(w), Touches(w)
  PROVE  ReadsRight'
<1>1. thread[w] \in DeletingState /\ thread[w].at = "delete"
  BY DeletingTyped DEF ThreadsTyped, DeleteManifest
<1>2. PICK n \in Names, c \in Nat, i \in Nat :
        thread[w] = [at |-> "delete", name |-> n, chunks |-> c, next |-> i]
  BY <1>1 DEF DeletingState
<1> DEFINE s == [at |-> "deleted", name |-> n, chunks |-> c, next |-> i]
<1>3. [thread[w] EXCEPT !.at = "deleted"] = s
  BY <1>2
<1>4. thread'[w] = s /\ \A t \in Threads \ {w} : thread'[t] = thread[t]
  BY <1>3, Elsewhere DEF DeleteManifest, Threads
<1>5. /\ manifests' = Dict!Drop(manifests, n) /\ UNCHANGED <<blocks, sent>> /\ thread[w].name = n
      /\ i >= c
  BY <1>2 DEF DeleteManifest
<1>6. \A m \in Names \ {n} : whole'[m] = whole[m] => Undisturbed(m)
  BY <1>5, SameChunk DEF Undisturbed, Dict!Drop
<1>7. OwnerHolds(w)'
  <2> SUFFICES ASSUME owner'[n] = w PROVE OwnDelete(s)'
    BY <1>4 DEF OwnerHolds, OwnPut, OwnDelete
  <2>1. owner[n] = w
    BY <1>5, ObjectReadConstants DEF Touches, ReadsRight, HistoryTyped
  <2>2. \A j \in Nat : j < i => ~MayBe(blocks, sent, <<n, j>>)
    BY <1>2, <2>1 DEF ReadsRight, OwnerHolds, OwnDelete
  <2>3. n \notin DOMAIN manifests'
    BY <1>5 DEF Dict!Drop
  <2> QED BY <1>5, <2>2, <2>3 DEF OwnDelete
<1> HIDE DEF s
<1> QED BY <1>2, <1>4, <1>5, <1>6, <1>7, TouchRight

\* Entering the manifest of a put that was alone makes its name whole.
LEMMA PutManifestRight ==
  ASSUME ThreadsTyped, ReadsRight, Watch, NEW w \in Writers, PutManifest(w), Enters(w)
  PROVE  ReadsRight'
<1>1. thread[w] \in PuttingState
  BY PuttingTyped DEF ThreadsTyped, PutManifest
<1>2. PICK n \in Names, d \in Data, cb \in Nat \ {0}, i \in Nat :
        thread[w] = [at |-> "put", name |-> n, data |-> d, cb |-> cb, next |-> i]
  BY <1>1 DEF PuttingState
<1> DEFINE s == [at |-> "stored", name |-> n]
           c == ChunkCount(d, cb)
           m == ManifestOf(d, cb)
<1>3. Goto(w, s) /\ thread'[w] = s /\ \A t \in Threads \ {w} : thread'[t] = thread[t]
  BY <1>2, Elsewhere DEF PutManifest, Threads
<1>4. manifests' = Dict!Store(manifests, n, m) /\ UNCHANGED <<blocks, sent>> /\ ~(i < c)
  BY <1>2 DEF PutManifest, MoreToPut
<1>5. c \in Nat \ {0}
  BY ContentsTyped, ChunksCover
<1>6. /\ whole'[n] = IF owner[n] = w THEN d ELSE None
      /\ \A k \in Names \ {n} : whole'[k] = whole[k] /\ owner'[k] = owner[k]
      /\ owner'[n] \in {None, w}
  BY <1>2 DEF Enters, ReadsRight, HistoryTyped
<1>7. HistoryTyped'
  BY <1>2 DEF Enters, ReadsRight, HistoryTyped
<1>8. \A k \in Names \ {n} : Undisturbed(k)
  BY <1>4, <1>6, SameChunk DEF Undisturbed, Dict!Store
<1>9. (whole'[n] # None => whole[n] = None) /\ WholeHolds(n)'
  <2> SUFFICES ASSUME whole'[n] # None
               PROVE  whole[n] = None /\ IsWhole(blocks', sent', manifests', n, whole'[n])
    BY DEF WholeHolds
  <2>1. owner[n] = w /\ whole'[n] = d
    BY <1>6
  <2>2. OwnPut(thread[w])
    BY <1>2, <2>1 DEF ReadsRight, OwnerHolds
  <2>3. Holds(blocks, sent, n, d, cb, i) /\ whole[n] = None
    BY <1>2, <1>4, <1>5, <2>2 DEF OwnPut
  <2>4. n \in DOMAIN manifests' /\ manifests'[n] = m
    BY <1>4 DEF Dict!Store
  <2>5. m.chunk_bytes = cb /\ m.chunks = c
    BY DEF ManifestOf
  <2>6. Holds(blocks', sent', n, d, cb, c)
    BY <1>4, <1>5, <2>3 DEF Holds
  <2> QED BY <2>1, <2>3, <2>4, <2>5, <2>6 DEF IsWhole
<1>10. OwnerHolds(w)'
  BY <1>3 DEF OwnerHolds
<1>11. \A r \in Readers : r # w
  BY ObjectConstants
<1> DEFINE ns == {n}
           ts == {w}
<1>12. /\ \A k \in Names \ ns : Undisturbed(k) /\ (owner'[k] = owner[k] \/ owner'[k] \in ts)
       /\ \A t \in Threads \ ts : thread'[t] = thread[t]
       /\ \A v \in Writers : v \in ts => OwnerHolds(v)'
       /\ \A r \in Readers : r \in ts => ReaderRight(r)'
  BY <1>3, <1>6, <1>8, <1>10, <1>11
<1>13. /\ \A k \in ns : owner'[k] = None \/ owner'[k] \in ts
       /\ \A k \in ns : whole'[k] # None => whole[k] = None
       /\ \A k \in ns : WholeHolds(k)'
  BY <1>6, <1>9
<1> HIDE DEF ns, ts
<1> QED BY <1>7, <1>12, <1>13, StepRight

LEMMA QuietRight ==
  ASSUME ThreadsTyped, ReadsRight, Watch, Nothing, \A n \in Names : Undisturbed(n),
         NEW ts, \A t \in Threads \ ts : thread'[t] = thread[t],
         \A w \in Writers : w \in ts => OwnerHolds(w)',
         \A r \in Readers : r \in ts => ReaderRight(r)'
  PROVE  ReadsRight'
<1>1. HistoryTyped'
  BY DEF Nothing, ReadsRight, HistoryTyped
<1> DEFINE ns == {}
<1>2. \A n \in Names \ ns : Undisturbed(n) /\ (owner'[n] = owner[n] \/ owner'[n] \in ts)
  BY DEF Nothing
<1>3. /\ \A n \in ns : owner'[n] = None \/ owner'[n] \in ts
      /\ \A n \in ns : whole'[n] # None => whole[n] = None
      /\ \A n \in ns : WholeHolds(n)'
  OBVIOUS
<1> HIDE DEF ns
<1> QED BY <1>1, <1>2, <1>3, StepRight

LEMMA ClearRight ==
  ASSUME ThreadsTyped, ReadsRight, Watch, Clear, Disturbs(Names)
  PROVE  ReadsRight'
<1> DEFINE ns == Names
           ts == {}
<1>1. /\ ns \in SUBSET Names /\ ts \in SUBSET Writers /\ Disturbs(ns)
      /\ \A t \in ts : thread'[t].name \in ns
      /\ \A t \in Threads \ ts : thread'[t] = thread[t]
      /\ \A n \in Names \ ns : whole'[n] = whole[n] => Undisturbed(n)
  BY DEF Clear
<1> HIDE DEF ns, ts
<1> QED BY <1>1, DisturbRight

LEMMA PutFailsRight ==
  ASSUME ThreadsTyped, ReadsRight, Watch, NEW w \in Writers, PutFails(w), Nothing
  PROVE  ReadsRight'
<1>1. thread'[w] = Idle /\ \A t \in Threads \ {w} : thread'[t] = thread[t]
  BY Elsewhere DEF PutFails, Threads
<1> DEFINE ts == {w}
<1>2. OwnerHolds(w)'
  BY <1>1 DEF OwnerHolds, Idle
<1>3. /\ \A t \in Threads \ ts : thread'[t] = thread[t]
      /\ \A v \in Writers : v \in ts => OwnerHolds(v)'
      /\ \A r \in Readers : r \in ts => ReaderRight(r)'
  BY <1>1, <1>2, ObjectConstants
<1>4. \A n \in Names : Undisturbed(n)
  BY AllUndisturbed DEF PutFails, Nothing
<1> HIDE DEF ts
<1> QED BY <1>3, <1>4, QuietRight

LEMMA BlockLostRight ==
  ASSUME DataTyped, ThreadsTyped, ReadsRight, Watch, NEW c \in DOMAIN blocks, BlockLost(c),
         Disturbs({c[1]})
  PROVE  ReadsRight'
<1> DEFINE ns == {c[1]}
           ts == {}
<1>1. c \in Names \X Nat
  BY DEF DataTyped, Chunks!IsDict
<1>2. PICK n \in Names, i \in Nat : c = <<n, i>>
  BY <1>1
<1>3. blocks' = Chunks!Drop(blocks, <<n, i>>) /\ UNCHANGED <<manifests, sent, thread>>
  BY <1>2 DEF BlockLost
<1>4. \A m \in Names \ {n} : whole'[m] = whole[m] => Undisturbed(m)
  BY <1>3, SameChunk DEF Undisturbed, Chunks!Drop
<1>5. /\ ns \in SUBSET Names /\ ts \in SUBSET Writers /\ Disturbs(ns)
      /\ \A t \in ts : thread'[t].name \in ns
      /\ \A t \in Threads \ ts : thread'[t] = thread[t]
      /\ \A m \in Names \ ns : whole'[m] = whole[m] => Undisturbed(m)
  BY <1>2, <1>3, <1>4
<1> HIDE DEF ns, ts
<1> QED BY <1>5, DisturbRight

\* What PUTs under way make of the chunks is what they carry.
LEMMA RequestKeeps ==
  ASSUME DataTyped, NEW x \in Requests, RequestStep(x), NEW c
  PROVE  ChunkStays(c)
<1>1. ASSUME NEW k \in DOMAIN blocks, SpillSends(x, k) PROVE ChunkStays(c)
  <2>1. blocks' = blocks /\ sent' = [sent EXCEPT ![x] = Request("spill", k, blocks[k].data)]
    BY <1>1 DEF SpillSends, Send
  <2>2. /\ Request("spill", k, blocks[k].data).key = k
        /\ Request("spill", k, blocks[k].data).data = blocks[k].data
    BY DEF Request
  <2>3. \A y \in Requests : \/ sent'[y] = sent[y]
                           \/ /\ sent'[y].key = k
                              /\ sent'[y].data = blocks[k].data
    BY <2>1, <2>2 DEF DataTyped
  <2> QED BY <1>1, <2>1, <2>3 DEF ChunkStays, MayRead, MayBe
<1>2. CASE RequestStored(x)
  <2>1. sent[x] # Idle
    BY <1>2 DEF RequestStored, Idle
  <2>2. /\ DOMAIN blocks' = DOMAIN blocks
        /\ \A k \in DOMAIN blocks :
             \/ blocks'[k].data = blocks[k].data
             \/ /\ k = sent[x].key
                /\ blocks'[k].data = sent[x].data
    <3>1. CASE blocks' = blocks
      BY <3>1
    <3>2. CASE AtPeer(sent[x].key) /\ blocks' = [blocks EXCEPT ![sent[x].key].data = sent[x].data]
      <4>1. \A b \in Blocks : [b EXCEPT !.data = sent[x].data].data = sent[x].data
        BY DEF Blocks
      <4>2. \A k \in DOMAIN blocks : blocks[k] \in Blocks
        BY DEF DataTyped, Chunks!IsDict
      <4>3. blocks' = [blocks EXCEPT ![sent[x].key] = [@ EXCEPT !.data = sent[x].data]]
        BY <3>2
      <4> QED BY <4>1, <4>2, <4>3
    <3> QED BY <1>2, <3>1, <3>2 DEF RequestStored
  <2>3. \A y \in Requests : sent'[y] # Idle =>
            /\ sent[y] # Idle /\ sent'[y].key = sent[y].key
            /\ sent'[y].at = "put" <=> sent[y].at = "put"
            /\ sent'[y].data # sent[y].data =>
                    sent'[y].data = sent[x].data /\ sent[y].key = sent[x].key
    BY <1>2, RequestStoredSent DEF DataTyped
  <2>4. \A d : MayRead(blocks', sent', c, d) => MayRead(blocks, sent, c, d)
    BY <2>1, <2>2, <2>3 DEF MayRead
  <2>5. MayBe(blocks', sent', c) => MayBe(blocks, sent, c)
    BY <2>2, <2>3 DEF MayBe
  <2> QED BY <2>2, <2>4, <2>5 DEF ChunkStays
<1>3. CASE SpillEnd(x)
  <2>1. sent[x] # Idle /\ sent[x].at # "put"
    BY <1>3 DEF SpillEnd, Idle
  <2>2. /\ DOMAIN blocks' = DOMAIN blocks \cup {sent[x].key}
        /\ blocks'[sent[x].key].data = sent[x].data
        /\ \A k \in DOMAIN blocks \ {sent[x].key} : blocks'[k] = blocks[k]
    BY <1>3 DEF SpillEnd, Chunks!Store
  <2>3. \A y \in Requests : sent'[y] # Idle =>
            /\ sent[y] # Idle /\ sent'[y].key = sent[y].key /\ sent'[y].data = sent[y].data
            /\ sent'[y].at # "put" => sent[y].at # "put"
    BY <1>3, SpillEndSent DEF DataTyped
  <2>4. \A d : MayRead(blocks', sent', c, d) => MayRead(blocks, sent, c, d)
    BY <2>1, <2>2, <2>3 DEF MayRead
  <2>5. MayBe(blocks', sent', c) => MayBe(blocks, sent, c)
    BY <2>1, <2>2, <2>3 DEF MayBe
  <2> QED BY <2>2, <2>4, <2>5 DEF ChunkStays
<1>4. CASE RequestEnds(x)
  <2>1. blocks' = blocks /\ \A y \in Requests : sent'[y] = sent[y] \/ sent'[y] = Idle
    BY <1>4 DEF RequestEnds, DataTyped
  <2> QED BY <2>1, SameChunk
<1> QED BY <1>1, <1>2, <1>3, <1>4 DEF RequestStep

LEMMA RequestRight ==
  ASSUME DataTyped, ThreadsTyped, ReadsRight, Watch, NEW x \in Requests, RequestStep(x), Nothing
  PROVE  ReadsRight'
<1> DEFINE ts == {}
<1>1. UNCHANGED <<manifests, thread>>
  BY DEF RequestStep, SpillSends, RequestStored, SpillEnd, RequestEnds
<1>2. /\ \A t \in Threads \ ts : thread'[t] = thread[t]
      /\ \A w \in Writers : w \in ts => OwnerHolds(w)'
      /\ \A r \in Readers : r \in ts => ReaderRight(r)'
  BY <1>1
<1>3. \A n \in Names : Undisturbed(n)
  BY <1>1, RequestKeeps DEF Nothing, Undisturbed
<1> HIDE DEF ts
<1> QED BY <1>2, <1>3, QuietRight

-----------------------------------------------------------------------------
(* The steps of readers                                                    *)

\* Reader r goes on to s, or begins with it, which is right if its name is
\* whole and the read was right before.
LEMMA ReaderGoesRight ==
  ASSUME ThreadsTyped, ReadsRight, Watch, Nothing, UNCHANGED <<blocks, manifests, sent>>,
         NEW r \in Readers, NEW s, Goto(r, s), s = Idle \/ s.name \in Names,
         thread[r] # Idle /\ s # Idle => thread[r].name = s.name,
         \A d \in Data :
            /\ s # Idle
            /\ IsWhole(blocks, sent, manifests, s.name, d)
            /\ thread[r] # Idle => Right(thread[r], d, manifests[s.name].chunk_bytes)
            => Right(s, d, manifests[s.name].chunk_bytes)
  PROVE  ReadsRight'
<1>1. thread'[r] = s /\ \A t \in Threads \ {r} : thread'[t] = thread[t]
  BY Elsewhere DEF Threads
<1>2. ReaderRight(r)'
  <2> DEFINE d == steady'[r]
             n == s.name
             cb == manifests[n].chunk_bytes
  <2> SUFFICES ASSUME d # None PROVE s # Idle /\ d = whole'[n] /\ Right(s, d, cb)
    BY <1>1 DEF ReaderRight
  <2>1. s # Idle /\ d = whole'[n] /\ whole' = whole /\ n \in Names
    BY <1>1 DEF Watch, Nothing
  <2>2. d \in Data /\ IsWhole(blocks, sent, manifests, n, d)
    BY <2>1 DEF ReadsRight, HistoryTyped, WholeHolds
  <2>3. ASSUME thread[r] # Idle PROVE Right(thread[r], d, cb)
    <3>1. thread[r].name = n
      BY <2>1, <2>3
    <3>2. steady[r] = d
      BY <1>1, <2>1, <2>3 DEF Watch
    <3> QED BY <3>1, <3>2 DEF ReadsRight, ReaderRight
  <2> HIDE DEF d
  <2> QED BY <2>1, <2>2, <2>3
<1> DEFINE ts == {r}
<1>3. /\ \A t \in Threads \ ts : thread'[t] = thread[t]
      /\ \A w \in Writers : w \in ts => OwnerHolds(w)'
      /\ \A q \in Readers : q \in ts => ReaderRight(q)'
  BY <1>1, <1>2, ObjectConstants
<1>4. \A n \in Names : Undisturbed(n)
  BY AllUndisturbed DEF Nothing
<1> HIDE DEF ts
<1> QED BY <1>3, <1>4, QuietRight

LEMMA ReturnRight ==
  ASSUME ThreadsTyped, ReadsRight, Watch, Nothing, NEW t \in Threads, Return(t)
  PROVE  ReadsRight'
<1>1. thread'[t] = Idle /\ \A u \in Threads \ {t} : thread'[u] = thread[u]
  BY Elsewhere DEF Return
<1>2. ASSUME t \in Writers PROVE OwnerHolds(t)'
  BY <1>1 DEF OwnerHolds, Idle
<1>3. ASSUME t \in Readers PROVE ReaderRight(t)'
  BY <1>1, <1>3 DEF ReaderRight, Watch
<1> DEFINE ts == {t}
<1>4. /\ \A u \in Threads \ ts : thread'[u] = thread[u]
      /\ \A w \in Writers : w \in ts => OwnerHolds(w)'
      /\ \A q \in Readers : q \in ts => ReaderRight(q)'
  BY <1>1, <1>2, <1>3
<1>5. \A n \in Names : Undisturbed(n)
  BY AllUndisturbed DEF Nothing, Return
<1> HIDE DEF ts
<1> QED BY <1>4, <1>5, QuietRight

\* A read that raises for want of anything but a peer is right if it asks for
\* what lies before the start.
LEMMA RaisedRight ==
  ASSUME NEW ask, NEW n, NEW why, NEW d, NEW cb,
         why = "missing" => ask # WholeObject /\ ask.off < 0
  PROVE  Right(Raised(ask, n, why), d, cb)
  BY DEF Right, Raised

\* What the manifest of a whole name says.
LEMMA WholeManifest ==
  ASSUME DataTyped, NEW n, NEW d, IsWhole(blocks, sent, manifests, n, d)
  PROVE  LET m == manifests[n]
         IN  /\ n \in DOMAIN manifests
             /\ m.chunk_bytes \in Nat \ {0}
             /\ m.size = Len(d)
             /\ m.chunks = ChunkCount(d, m.chunk_bytes)
             /\ m.row = Row[d]
<1> DEFINE m == manifests[n]
           cb == m.chunk_bytes
<1>1. n \in DOMAIN manifests /\ m = ManifestOf(d, cb)
  BY DEF IsWhole
<1>2. cb \in Nat \ {0}
  BY <1>1 DEF DataTyped, Dict!IsDict, Manifests
<1> HIDE DEF m, cb
<1>3. m.size = Len(d) /\ m.chunks = ChunkCount(d, cb) /\ m.row = Row[d]
  BY <1>1 DEF ManifestOf
<1> QED BY <1>1, <1>2, <1>3 DEF m, cb

LEMMA GetObjectRight ==
  ASSUME DataTyped, ThreadsTyped, ReadsRight, Watch, Nothing, NEW r \in Readers,
         thread[r] = Idle, NEW n \in Names, GetObject(r, n)
  PROVE  ReadsRight'
<1>1. UNCHANGED <<blocks, manifests, sent>>
  BY DEF GetObject
<1>2. CASE n \in DOMAIN manifests
  <2> DEFINE c == manifests[n].chunks
             p == [i \in 0 .. (c - 1) |-> None]
             s == [at |-> "get", name |-> n, chunks |-> c, parts |-> p, joined |-> 0, out |-> <<>>]
  <2>1. Goto(r, s) /\ s.name = n
    BY <1>2 DEF GetObject
  <2>2. ASSUME NEW d \in Data, IsWhole(blocks, sent, manifests, n, d)
        PROVE  Right(s, d, manifests[n].chunk_bytes)
    <3> DEFINE cb == manifests[n].chunk_bytes
    <3>1. cb \in Nat \ {0} /\ c = ChunkCount(d, cb)
      BY <2>2, WholeManifest
    <3>2. FirstChunks(d, cb, 0) = <<>>
      BY <3>1, ContentsTyped, ChunksEnd
    <3>3. \A i \in DOMAIN p : p[i] = None
      OBVIOUS
    <3> HIDE DEF c, p, cb
    <3>4. Collects(s, d, cb)
      BY <3>1, <3>2, <3>3 DEF Collects
    <3> QED BY <3>4 DEF Right, cb
  <2> HIDE DEF s
  <2> QED BY <1>1, <2>1, <2>2, ReaderGoesRight
<1>3. CASE n \notin DOMAIN manifests
  <2> DEFINE s == Raised(WholeObject, n, "missing")
  <2>1. Goto(r, s) /\ s.name = n
    BY <1>3 DEF GetObject, Raised
  <2>2. \A d : ~IsWhole(blocks, sent, manifests, n, d)
    BY <1>3 DEF IsWhole
  <2> HIDE DEF s
  <2> QED BY <1>1, <2>1, <2>2, ReaderGoesRight
<1> QED BY <1>2, <1>3

\* A read of a part that has begun, or that has learnt the length of a row.
LEMMA RangeCalledRight ==
  ASSUME DataTyped, NEW d \in Data, NEW n, IsWhole(blocks, sent, manifests, n, d),
         NEW ask, ask # WholeObject, NEW off, NEW len,
         off = Start(ask, d), off + len = Stop(ask, d)
  PROVE  Right(RangeCalled(ask, n, off, len), d, manifests[n].chunk_bytes)
<1> DEFINE cb == manifests[n].chunk_bytes
           e == Min(manifests[n].size, off + len)
           s == [at |-> "range", ask |-> ask, name |-> n, cb |-> cb, pos |-> off, end |-> e,
                 out |-> <<>>]
<1>1. n \in DOMAIN manifests /\ manifests[n].size = Len(d)
  BY WholeManifest
<1>2. RangeCalled(ask, n, off, len) = s
  BY <1>1 DEF RangeCalled
<1>3. e = Min(Len(d), Stop(ask, d))
  BY <1>1
<1> HIDE DEF cb, e
<1>4. Walks(s, d, cb)
  BY <1>3 DEF Walks
<1> QED BY <1>2, <1>4 DEF Right, cb

LEMMA RangeCalledName ==
  ASSUME NEW ask, NEW n, NEW off, NEW len
  PROVE  RangeCalled(ask, n, off, len).name = n
  BY DEF RangeCalled, Raised

LEMMA GetRangeRight ==
  ASSUME DataTyped, ThreadsTyped, ReadsRight, Watch, Nothing, NEW r \in Readers,
         thread[r] = Idle, NEW n \in Names, NEW x \in Ranges, GetRange(r, n, x[1], x[2])
  PROVE  ReadsRight'
<1> DEFINE ask == [kind |-> "range", off |-> x[1], len |-> x[2]]
           s == RangeCalled(ask, n, x[1], x[2])
<1>1. UNCHANGED <<blocks, manifests, sent>> /\ Goto(r, s)
  BY DEF GetRange
<1>2. x[1] \in Int /\ x[2] \in Int
  BY ObjectConstants
<1>3. ask # WholeObject
  BY DEF WholeObject
<1>4. \A d : Unit(ask, d) = 1
  BY DEF Unit
<1>5. \A d : x[1] = Start(ask, d) /\ x[1] + x[2] = Stop(ask, d)
  BY <1>2, <1>4 DEF Start, Stop
<1> HIDE DEF ask
<1>6. \A d \in Data : IsWhole(blocks, sent, manifests, n, d) =>
                        Right(s, d, manifests[n].chunk_bytes)
  BY <1>3, <1>5, RangeCalledRight
<1>7. s.name = n
  BY RangeCalledName
<1> HIDE DEF s
<1> QED BY <1>1, <1>6, <1>7, ReaderGoesRight

LEMMA GetRowsRight ==
  ASSUME DataTyped, ThreadsTyped, ReadsRight, Watch, Nothing, NEW r \in Readers,
         thread[r] = Idle, NEW n \in Names, NEW x \in Ranges, GetRows(r, n, x[1], x[2])
  PROVE  ReadsRight'
<1> DEFINE ask == [kind |-> "rows", off |-> x[1], len |-> x[2]]
           s == IF n \in DOMAIN manifests
                THEN [at |-> "rows", ask |-> ask, name |-> n, row |-> manifests[n].row]
                ELSE Raised(ask, n, "missing")
<1>1. UNCHANGED <<blocks, manifests, sent>> /\ Goto(r, s)
  BY DEF GetRows
<1>2. ask.kind = "rows"
  OBVIOUS
<1> HIDE DEF ask
<1>3. s.name = n
  BY DEF Raised
<1>4. \A d \in Data : IsWhole(blocks, sent, manifests, n, d) =>
                        Right(s, d, manifests[n].chunk_bytes)
  <2> TAKE d \in Data
  <2> HAVE IsWhole(blocks, sent, manifests, n, d)
  <2>1. n \in DOMAIN manifests /\ manifests[n].row = Row[d]
    BY WholeManifest
  <2> QED BY <1>2, <2>1 DEF Right
<1> HIDE DEF s
<1> QED BY <1>1, <1>3, <1>4, ReaderGoesRight

LEMMA RowsRangeRight ==
  ASSUME DataTyped, ThreadsTyped, ReadsRight, Watch, Nothing, NEW r \in Readers, RowsRange(r)
  PROVE  ReadsRight'
<1>1. thread[r] \in RowsState /\ thread[r].at = "rows"
  BY RowingTyped DEF RowsRange, ThreadsTyped
<1>2. PICK ask \in Asks \ {WholeObject}, n \in Names, row \in Nat :
        thread[r] = [at |-> "rows", ask |-> ask, name |-> n, row |-> row]
  BY <1>1 DEF RowsState
<1> DEFINE off == ask.off * row
           len == ask.len * row
           s == RangeCalled(ask, n, off, len)
<1>3. UNCHANGED <<blocks, manifests, sent>> /\ Goto(r, s)
  BY <1>2 DEF RowsRange
<1>4. ask # WholeObject /\ ask.off \in Int /\ ask.len \in Int
  BY DEF Asks
<1>5. \A d \in Data : IsWhole(blocks, sent, manifests, n, d)
                        /\ Right(thread[r], d, manifests[n].chunk_bytes)
                      => Right(s, d, manifests[n].chunk_bytes)
  <2> TAKE d \in Data
  <2> HAVE IsWhole(blocks, sent, manifests, n, d) /\ Right(thread[r], d, manifests[n].chunk_bytes)
  <2>1. ask.kind = "rows" /\ row = Row[d]
    BY <1>2 DEF Right
  <2>2. off = Start(ask, d) /\ Stop(ask, d) = (ask.off + ask.len) * row
    BY <2>1 DEF Start, Stop, Unit
  <2>3. (ask.off + ask.len) * row = off + len
    BY <1>4
  <2> HIDE DEF off, len
  <2> QED BY <1>4, <2>2, <2>3, RangeCalledRight
<1>6. s.name = n
  BY RangeCalledName
<1>7. thread[r] # Idle /\ thread[r].name = n
  BY <1>2 DEF Idle
<1> HIDE DEF s
<1> QED BY <1>3, <1>5, <1>6, <1>7, ReaderGoesRight


\* The chunks of a whole name are there, and those of its contents.
LEMMA WholeChunk ==
  ASSUME DataTyped, NEW n, NEW d, IsWhole(blocks, sent, manifests, n, d), NEW i \in Nat,
         i < ChunkCount(d, manifests[n].chunk_bytes)
  PROVE  /\ <<n, i>> \in DOMAIN blocks
         /\ blocks[<<n, i>>].data = Chunk(d, manifests[n].chunk_bytes, i)
<1>1. manifests[n].chunks = ChunkCount(d, manifests[n].chunk_bytes)
  BY WholeManifest
<1> QED BY <1>1 DEF IsWhole, Holds, MayRead

LEMMA FetchRight ==
  ASSUME DataTyped, ThreadsTyped, ReadsRight, Watch, Nothing, NEW r \in Readers, NEW i,
         Fetch(r, i)
  PROVE  ReadsRight'
<1> DEFINE g   == thread[r]
           key == <<g.name, i>>
<1>1. UNCHANGED <<blocks, manifests, sent>>
  BY DEF Fetch
<1>2. IsGetting(g) /\ i \in 0 .. (g.chunks - 1)
  BY FetchGoes
<1>3. /\ g.at = "get" /\ g.name \in Names /\ g # Idle /\ g.chunks \in Nat /\ i \in Nat
      /\ DOMAIN g.parts = 0 .. (g.chunks - 1) /\ i < g.chunks
  BY <1>2 DEF IsGetting, Idle
<1>4. \A d \in Data : IsWhole(blocks, sent, manifests, g.name, d)
                        /\ Right(g, d, manifests[g.name].chunk_bytes)
        => key \in DOMAIN blocks
           /\ blocks[key].data = Chunk(d, manifests[g.name].chunk_bytes, i)
  <2> TAKE d \in Data
  <2> HAVE IsWhole(blocks, sent, manifests, g.name, d) /\ Right(g, d, manifests[g.name].chunk_bytes)
  <2>1. g.chunks = ChunkCount(d, manifests[g.name].chunk_bytes)
    BY <1>3 DEF Right, Collects
  <2> QED BY <1>3, <2>1, WholeChunk
<1>5. CASE key \in DOMAIN blocks
  <2> DEFINE x == blocks[key].data
             q == [g.parts EXCEPT ![i] = x]
             s == [at |-> "get", name |-> g.name, chunks |-> g.chunks, parts |-> q,
                   joined |-> g.joined, out |-> g.out]
  <2>1. Goto(r, s) /\ s.name = g.name
    BY <1>5, FetchGoes
  <2>2. \A d \in Data : IsWhole(blocks, sent, manifests, g.name, d)
                          /\ Right(g, d, manifests[g.name].chunk_bytes)
                        => Right(s, d, manifests[g.name].chunk_bytes)
    <3> TAKE d \in Data
    <3> HAVE IsWhole(blocks, sent, manifests, g.name, d) /\ Right(g, d, manifests[g.name].chunk_bytes)
    <3> DEFINE cb == manifests[g.name].chunk_bytes
    <3>1. x = Chunk(d, cb, i)
      BY <1>4
    <3>2. Collects(g, d, cb)
      BY <1>3 DEF Right
    <3>3. \A j \in DOMAIN q : q[j] \in {None, Chunk(d, cb, j)}
      <4> HIDE DEF x, cb, g
      <4> QED BY <3>1, <3>2 DEF Collects
    <3> HIDE DEF q, cb, g
    <3>4. Collects(s, d, cb)
      BY <3>2, <3>3 DEF Collects
    <3> QED BY <3>4 DEF Right, cb
  <2> HIDE DEF s
  <2> QED BY <1>1, <1>3, <2>1, <2>2, ReaderGoesRight
<1>6. CASE key \notin DOMAIN blocks
  <2> DEFINE s == Raised(WholeObject, g.name, "missing")
  <2>1. Goto(r, s)
    BY <1>6, FetchGoes
  <2>2. s.name = g.name
    BY DEF Raised
  <2> HIDE DEF s
  <2> QED BY <1>1, <1>3, <1>4, <1>6, <2>1, <2>2, ReaderGoesRight
<1> QED BY <1>5, <1>6

LEMMA GetJoinRight ==
  ASSUME DataTyped, ThreadsTyped, ReadsRight, Watch, Nothing, NEW r \in Readers, GetJoin(r)
  PROVE  ReadsRight'
<1> DEFINE g == thread[r]
           j == g.joined
           s == [at |-> "get", name |-> g.name, chunks |-> g.chunks, parts |-> g.parts,
                 joined |-> j + 1, out |-> g.out \o g.parts[j]]
<1>1. UNCHANGED <<blocks, manifests, sent>>
  BY DEF GetJoin
<1>2. IsGetting(g) /\ j \in 0 .. (g.chunks - 1) /\ g.parts[j] \in Seq(Byte) /\ Goto(r, s)
  BY JoinGoes
<1>3. /\ g.at = "get" /\ g.name \in Names /\ g # Idle /\ j \in Nat
      /\ j \in DOMAIN g.parts
  BY <1>2 DEF IsGetting, Idle
<1>4. \A d \in Data : IsWhole(blocks, sent, manifests, g.name, d)
                        /\ Right(g, d, manifests[g.name].chunk_bytes)
                      => Right(s, d, manifests[g.name].chunk_bytes)
  <2> TAKE d \in Data
  <2> HAVE IsWhole(blocks, sent, manifests, g.name, d) /\ Right(g, d, manifests[g.name].chunk_bytes)
  <2> DEFINE cb == manifests[g.name].chunk_bytes
  <2>1. cb \in Nat \ {0}
    BY WholeManifest
  <2>2. Collects(g, d, cb)
    BY <1>3 DEF Right
  <2>3. g.parts[j] # None
    BY <1>2, ObjectConstants
  <2>4. g.parts[j] = Chunk(d, cb, j) /\ g.out = FirstChunks(d, cb, j)
    BY <1>3, <2>2, <2>3 DEF Collects
  <2>5. g.out \o g.parts[j] = FirstChunks(d, cb, j + 1)
    <3> HIDE DEF cb, j
    <3> QED BY <1>3, <2>1, <2>4, ContentsTyped, ChunksGrow
  <2> HIDE DEF cb, j, g
  <2>6. Collects(s, d, cb)
    BY <2>2, <2>5 DEF Collects
  <2> QED BY <2>6 DEF Right, cb
<1>5. s.name = g.name
  OBVIOUS
<1> HIDE DEF s
<1> QED BY <1>1, <1>2, <1>3, <1>4, <1>5, ReaderGoesRight

LEMMA GetDoneRight ==
  ASSUME DataTyped, ThreadsTyped, ReadsRight, Watch, Nothing, NEW r \in Readers, GetDone(r)
  PROVE  ReadsRight'
<1> DEFINE g == thread[r]
           s == Got(WholeObject, g.name, g.out)
<1>1. UNCHANGED <<blocks, manifests, sent>> /\ Goto(r, s) /\ g.joined = g.chunks /\ g.at = "get"
  BY DEF GetDone
<1>2. g.name \in Names /\ g # Idle
  BY <1>1, GettingTyped DEF ThreadsTyped, IsGetting, Idle
<1>3. \A d \in Data : IsWhole(blocks, sent, manifests, g.name, d)
                        /\ Right(g, d, manifests[g.name].chunk_bytes)
                      => Right(s, d, manifests[g.name].chunk_bytes)
  <2> TAKE d \in Data
  <2> HAVE IsWhole(blocks, sent, manifests, g.name, d) /\ Right(g, d, manifests[g.name].chunk_bytes)
  <2> DEFINE cb == manifests[g.name].chunk_bytes
  <2>1. cb \in Nat \ {0}
    BY WholeManifest
  <2>2. Collects(g, d, cb)
    BY <1>1 DEF Right
  <2>3. g.out = FirstChunks(d, cb, ChunkCount(d, cb))
    BY <1>1, <2>2 DEF Collects
  <2>4. g.out = d
    BY <2>1, <2>3, ContentsTyped, ChunksEnd
  <2> QED BY <2>4 DEF Right, Got, Wanted, WholeObject
<1>4. s.name = g.name
  BY DEF Got
<1> HIDE DEF s
<1> QED BY <1>1, <1>2, <1>3, <1>4, ReaderGoesRight

\* A piece of a part that starts where the part does, or goes on with it.
LEMMA PieceGoesOn ==
  ASSUME NEW d \in Seq(Byte), NEW cb \in Nat \ {0}, NEW start \in Nat, NEW pos \in Int,
         NEW end \in Int, end <= Len(d), pos < end, NEW out,
         \/ pos = start /\ out = <<>>
         \/ pos \in start .. end /\ out = SubSeq(d, start + 1, pos)
  PROVE  NextPiece(d, cb, start, pos, end, out)
<1> DEFINE q    == pos \div cb
           from == From(cb, pos)
           take == Take(cb, pos, end)
           x    == Slice(Chunk(d, cb, q), from, from + take)
<1>1. pos \in Nat /\ end \in Nat /\ start <= pos /\ Len(d) \in Nat
  BY LenProperties
<1>2. q \in Nat /\ q < ChunkCount(d, cb)
  <2>1. pos < Len(d)
    BY <1>1
  <2>2. q \in 0 .. (ChunkCount(d, cb) - 1) /\ ChunkCount(d, cb) \in Nat
    BY <1>1, <2>1, ChunkOfByte, ChunksCover
  <2> HIDE DEF q
  <2> QED BY <2>2
<1>3. take \in Nat \ {0} /\ pos + take <= end /\ x = SubSeq(d, pos + 1, pos + take)
  <2>1. OwnPiece(d, cb, pos, end)
    BY <1>1, PieceOfChunk
  <2> QED BY <2>1, Zenon DEF OwnPiece
<1>4. out = SubSeq(d, start + 1, pos)
  <2>1. pos = start => SubSeq(d, start + 1, pos) = <<>>
    BY <1>1, SubSeqEmpty
  <2> QED BY <2>1
<1> HIDE DEF q, take, x, from
<1> DEFINE e == pos + take
<1>5. e \in start .. end /\ e \in pos .. Len(d)
  BY <1>1, <1>3
<1> HIDE DEF e
<1>6. start + 1 \in 1 .. Len(d) + 1 /\ pos \in (start + 1) - 1 .. Len(d)
  BY <1>1
<1>7. SubSeq(d, start + 1, pos) \o SubSeq(d, pos + 1, e) = SubSeq(d, start + 1, e)
  BY <1>5, <1>6, ConcatAdjacentSubSeq
<1>8. out \o x = SubSeq(d, start + 1, e)
  BY <1>3, <1>4, <1>7 DEF e
<1>9. e \in start .. end
  BY <1>5
<1> QED BY <1>2, <1>8, <1>9, Zenon DEF e, q, take, x, from, NextPiece

LEMMA StartTyped ==
  ASSUME NEW ask \in Asks, ask # WholeObject, NEW d \in Data
  PROVE  /\ ask.off \in Int /\ ask.len \in Int /\ Unit(ask, d) \in Nat
         /\ Start(ask, d) \in Int /\ Stop(ask, d) \in Int
         /\ Start(ask, d) < 0 => ask.off < 0
<1>1. ask.off \in Int /\ ask.len \in Int
  BY DEF Asks
<1>2. Unit(ask, d) \in Nat
  BY ContentsTyped DEF Unit
<1> DEFINE u == Unit(ask, d)
<1>3. ask.off * u \in Int /\ (ask.off + ask.len) * u \in Int
      /\ (ask.off * u < 0 => ask.off < 0)
  <2> HIDE DEF u
  <2>1. u \in Nat
    BY <1>2 DEF u
  <2>2. ask.off >= 0 => ask.off * u >= 0
    BY <1>1, <2>1
  <2> QED BY <1>1, <2>1, <2>2
<1> QED BY <1>1, <1>2, <1>3 DEF Start, Stop

LEMMA RangePieceRight ==
  ASSUME DataTyped, ThreadsTyped, ReadsRight, Watch, Nothing, NEW r \in Readers, RangePiece(r)
  PROVE  ReadsRight'
<1>1. thread[r] \in RangeState
  BY RangingTyped DEF RangePiece, ThreadsTyped
<1>2. PICK ask \in Asks, n \in Names, cb \in Nat \ {0}, pos \in Int, end \in Int, o \in Seq(Byte) :
        thread[r] = [at |-> "range", ask |-> ask, name |-> n, cb |-> cb, pos |-> pos,
                     end |-> end, out |-> o]
  BY <1>1 DEF RangeState
<1> DEFINE from == From(cb, pos)
           take == Take(cb, pos, end)
           key  == <<n, pos \div cb>>
           y    == o \o Slice(blocks[key].data, from, from + take)
           s    == [at |-> "range", ask |-> ask, name |-> n, cb |-> cb, pos |-> pos + take,
                    end |-> end, out |-> y]
           t    == Raised(ask, n, "missing")
<1>3. /\ thread[r].ask = ask /\ thread[r].name = n /\ thread[r].cb = cb /\ thread[r].pos = pos
      /\ thread[r].end = end /\ thread[r].out = o /\ thread[r].at = "range" /\ thread[r] # Idle
  BY <1>2 DEF Idle
<1>4. pos < end /\ UNCHANGED <<blocks, manifests, sent>>
  BY <1>3 DEF RangePiece
<1>5. (key \in DOMAIN blocks => Goto(r, s)) /\ (key \notin DOMAIN blocks => Goto(r, t))
  <2> DEFINE g  == thread[r]
             k  == <<g.name, g.pos \div g.cb>>
             f  == From(g.cb, g.pos)
             m  == Take(g.cb, g.pos, g.end)
             x  == [at |-> "range", ask |-> g.ask, name |-> g.name, cb |-> g.cb, pos |-> g.pos + m,
                    end |-> g.end, out |-> g.out \o Slice(blocks[k].data, f, f + m)]
  <2>1. k \in DOMAIN blocks => Goto(r, x)
    BY PieceGoes, Zenon DEF From, Take
  <2>2. k \notin DOMAIN blocks => Goto(r, Raised(g.ask, g.name, "missing"))
    BY PieceGoes, Zenon
  <2>3. k = key /\ f = from /\ m = take
    BY <1>3
  <2> HIDE DEF k, f, m, key, from, take
  <2>4. x = s
    BY <1>3, <2>3
  <2> HIDE DEF x, s
  <2>5. Raised(g.ask, g.name, "missing") = t
    BY <1>3
  <2> HIDE DEF t, g
  <2> QED BY <2>1, <2>2, <2>3, <2>4, <2>5
<1>6. ASSUME NEW d \in Data, IsWhole(blocks, sent, manifests, n, d),
             Right(thread[r], d, manifests[n].chunk_bytes)
      PROVE  /\ key \in DOMAIN blocks => Right(s, d, manifests[n].chunk_bytes)
             /\ key \notin DOMAIN blocks => Right(t, d, manifests[n].chunk_bytes)
  <2> DEFINE start == Start(ask, d)
  <2>1. /\ ask # WholeObject /\ cb = manifests[n].chunk_bytes
        /\ end = Min(Len(d), Stop(ask, d))
        /\ \/ pos = start /\ o = <<>>
           \/ 0 <= start /\ pos \in start .. end /\ o = SubSeq(d, start + 1, pos)
    BY <1>3, <1>6 DEF Right, Walks
  <2>2. /\ d \in Seq(Byte) /\ Len(d) \in Nat /\ start \in Int /\ Stop(ask, d) \in Int
        /\ start < 0 => ask.off < 0
    BY <2>1, ContentsTyped, StartTyped
  <2>3. end <= Len(d)
    BY <2>1, <2>2 DEF Min
  <2>4. CASE 0 <= start
    <3> HIDE DEF start
    <3>1. start \in Nat
      BY <2>2, <2>4
    <3>2. \/ pos = start /\ o = <<>>
          \/ pos \in start .. end /\ o = SubSeq(d, start + 1, pos)
      BY <2>1
    <3>3. /\ pos \div cb \in Nat /\ pos \div cb < ChunkCount(d, cb)
          /\ pos + take \in start .. end
          /\ o \o Slice(Chunk(d, cb, pos \div cb), from, from + take)
               = SubSeq(d, start + 1, pos + take)
      <4>1. NextPiece(d, cb, start, pos, end, o)
        BY <1>4, <2>2, <2>3, <3>1, <3>2, PieceGoesOn
      <4> QED BY <4>1, Zenon DEF NextPiece
    <3>4. key \in DOMAIN blocks /\ blocks[key].data = Chunk(d, cb, pos \div cb)
      BY <1>6, <2>1, <3>3, WholeChunk
    <3>5. y = SubSeq(d, start + 1, pos + take)
      BY <3>3, <3>4
    <3> HIDE DEF y, take, from
    <3>6. Walks(s, d, cb)
      BY <2>1, <2>4, <3>3, <3>5 DEF Walks, start
    <3>7. Right(s, d, cb)
      BY <3>6 DEF Right
    <3> HIDE DEF s, key
    <3> QED BY <2>1, <3>4, <3>7
  <2>5. CASE start < 0
    <3>1. pos < 0
      BY <2>1, <2>2, <2>5
    <3>2. key \notin DOMAIN blocks
      <4> DEFINE q == pos \div cb
      <4>1. q \in Int /\ q * cb <= pos
        BY Division
      <4> HIDE DEF q
      <4>2. q < 0
        <5> SUFFICES ASSUME q >= 0 PROVE FALSE
          BY <4>1
        <5>1. q * cb >= 0
          BY <4>1
        <5> QED BY <3>1, <4>1, <5>1
      <4>3. <<n, q>> \notin Names \X Nat
        BY <4>2
      <4>4. DOMAIN blocks \subseteq Names \X Nat
        BY DEF DataTyped, Chunks!IsDict
      <4> QED BY <4>3, <4>4 DEF q
    <3>3. Right(t, d, manifests[n].chunk_bytes)
      BY <2>1, <2>2, <2>5, RaisedRight
    <3> HIDE DEF s, t, key
    <3> QED BY <3>2, <3>3
  <2> HIDE DEF start
  <2> QED BY <2>2, <2>4, <2>5
<1>7. s.name = n /\ t.name = n
  BY DEF Raised
<1> HIDE DEF s, t, key
<1>8. CASE key \in DOMAIN blocks
  BY <1>3, <1>4, <1>5, <1>6, <1>7, <1>8, ReaderGoesRight
<1>9. CASE key \notin DOMAIN blocks
  BY <1>3, <1>4, <1>5, <1>6, <1>7, <1>9, ReaderGoesRight
<1> QED BY <1>8, <1>9

LEMMA RangeDoneRight ==
  ASSUME DataTyped, ThreadsTyped, ReadsRight, Watch, Nothing, NEW r \in Readers, RangeDone(r)
  PROVE  ReadsRight'
<1>1. thread[r] \in RangeState
  BY RangingTyped DEF RangeDone, ThreadsTyped
<1>2. PICK ask \in Asks, n \in Names, cb \in Nat \ {0}, pos \in Int, end \in Int, o \in Seq(Byte) :
        thread[r] = [at |-> "range", ask |-> ask, name |-> n, cb |-> cb, pos |-> pos,
                     end |-> end, out |-> o]
  BY <1>1 DEF RangeState
<1> DEFINE s == Got(ask, n, o)
<1>3. /\ thread[r].ask = ask /\ thread[r].name = n /\ thread[r].pos = pos
      /\ thread[r].end = end /\ thread[r].out = o /\ thread[r].at = "range" /\ thread[r] # Idle
  BY <1>2 DEF Idle
<1>4. pos >= end /\ UNCHANGED <<blocks, manifests, sent>> /\ Goto(r, s)
  BY <1>3 DEF RangeDone
<1>5. ASSUME NEW d \in Data, Right(thread[r], d, manifests[n].chunk_bytes)
      PROVE  Right(s, d, manifests[n].chunk_bytes)
  <2> DEFINE start == Start(ask, d)
             stop  == Stop(ask, d)
  <2>1. /\ ask # WholeObject /\ end = Min(Len(d), stop)
        /\ \/ pos = start /\ o = <<>>
           \/ 0 <= start /\ pos \in start .. end /\ o = SubSeq(d, start + 1, pos)
    BY <1>3, <1>5 DEF Right, Walks
  <2>2. start \in Int /\ stop \in Int /\ ask.kind # "object"
    BY <2>1, StartTyped DEF Asks, WholeObject
  <2>3. Wanted(ask, d) = SubSeq(d, start + 1, end)
    BY <2>1, <2>2 DEF Wanted, Slice, Start, Stop, Unit
  <2> HIDE DEF start, stop
  <2>4. o = SubSeq(d, start + 1, end)
    <3>1. CASE pos = start /\ o = <<>>
      <4>1. end < start + 1
        BY <1>4, <2>2, <3>1
      <4> QED BY <2>2, <3>1, <4>1, SubSeqEmpty
    <3>2. CASE pos \in start .. end /\ o = SubSeq(d, start + 1, pos)
      <4>1. pos = end
        BY <1>4, <2>2, <3>2
      <4> QED BY <3>2, <4>1
    <3> QED BY <2>1, <3>1, <3>2
  <2>5. o = Wanted(ask, d)
    BY <2>3, <2>4
  <2> QED BY <2>5 DEF Right, Got
<1>6. s.name = n
  BY DEF Got
<1> HIDE DEF s
<1> QED BY <1>3, <1>4, <1>5, <1>6, ReaderGoesRight

LEMMA UnreachableRight ==
  ASSUME DataTyped, ThreadsTyped, ReadsRight, Watch, Nothing, NEW r \in Readers,
         ReadUnreachable(r)
  PROVE  ReadsRight'
<1>1. PICK ask : Goto(r, Raised(ask, thread[r].name, "unreachable"))
  BY DEF ReadUnreachable
<1> DEFINE n == thread[r].name
           s == Raised(ask, n, "unreachable")
<1>2. thread[r].at \in {"get", "range"} /\ UNCHANGED <<blocks, manifests, sent>>
  BY DEF ReadUnreachable
<1>3. thread[r] # Idle /\ n \in Names
  BY <1>2, ReaderNamed DEF ThreadsTyped, Idle
<1>4. \A d, cb : Right(s, d, cb)
  BY RaisedRight
<1>5. s.name = n /\ Goto(r, s)
  BY <1>1 DEF Raised
<1> HIDE DEF s
<1> QED BY <1>2, <1>3, <1>4, <1>5, ReaderGoesRight

-----------------------------------------------------------------------------
LEMMA StepsRight ==
  ASSUME DataTyped, ThreadsTyped, ReadsRight, HNext
  PROVE  ReadsRight'
<1>1. ASSUME NEW w \in Writers, HWriterStep(w), Watch PROVE ReadsRight'
  <2>1. thread[w] \in WriterStates
    BY DEF ThreadsTyped
  <2> QED BY <1>1, BeginsRight, ClearRight, PutSendsRight, PutChunkRight, PutFailsRight, PutManifestRight,
             DeleteChunkRight, DeleteManifestRight, ReturnRight DEF HWriterStep, Threads
<1>2. ASSUME NEW r \in Readers, ReaderStep(r), Nothing, Watch PROVE ReadsRight'
  BY <1>2, GetObjectRight, GetRangeRight, GetRowsRight, RowsRangeRight, FetchRight, GetJoinRight,
     GetDoneRight, RangePieceRight, RangeDoneRight, UnreachableRight, ReturnRight
     DEF ReaderStep, ReaderGoesOn, FetchNext, Threads
<1> QED BY <1>1, <1>2, RequestRight, BlockLostRight DEF HNext

\* The history only watches.
LEMMA ReadsWatch == HSpec => Spec
<1>1. HInit => Init
  BY DEF HInit
<1>2. [HNext]_hvars => [Next]_vars
  BY DEF HNext, HWriterStep, hvars, Next, WriterStep, WriterGoesOn
<1> QED BY <1>1, <1>2, PTL DEF HSpec, Spec

LEMMA ReadsRightHolds == HSpec => []ReadsRight
<1>1. HInit => ReadsRight
  <2> SUFFICES ASSUME HInit PROVE ReadsRight
    OBVIOUS
  <2>1. HistoryTyped /\ \A n \in Names : WholeHolds(n)
    BY DEF HInit, HistoryTyped, WholeHolds
  <2>2. ASSUME NEW w \in Writers PROVE OwnerHolds(w)
    BY DEF HInit, Init, Idle, OwnerHolds, Threads
  <2>3. ASSUME NEW r \in Readers PROVE ReaderRight(r)
    BY DEF HInit, ReaderRight
  <2> QED BY <2>1, <2>2, <2>3 DEF ReadsRight
<1>2. TypeOK /\ ReadsRight /\ [HNext]_hvars => ReadsRight'
  <2> SUFFICES ASSUME TypeOK, ReadsRight, [HNext]_hvars PROVE ReadsRight'
    OBVIOUS
  <2>1. DataTyped /\ ThreadsTyped
    BY TypedParts
  <2>2. CASE UNCHANGED hvars
    BY <2>2 DEF hvars, vars, ReadsRight, HistoryTyped, WholeHolds, OwnerHolds, OwnPut, OwnDelete,
                ReaderRight
  <2> QED BY <2>1, <2>2, StepsRight
<1> QED BY <1>1, <1>2, ObjectsTyped, ReadsWatch, PTL DEF HSpec

\* A read of a name that is whole all the while returns exactly the bytes it
\* asks for (get_object, get_object_range, get_rows).
THEOREM ReadsAreExact == HSpec => []ReadExact
<1>1. ReadsRight => ReadExact
  BY DEF ReadsRight, ReaderRight, Right, ReadExact
<1> QED BY <1>1, ReadsRightHolds, PTL

\* Such a read finds every chunk where _index says it is, unless it asks for
\* what lies before the start.
THEOREM ReadsAreServed == HSpec => []ReadServed
<1>1. ReadsRight => ReadServed
  BY DEF ReadsRight, ReaderRight, Right, ReadServed
<1> QED BY <1>1, ReadsRightHolds, PTL

\* A delete_object that is alone on its name, and whose chunks no spill has under
\* way, leaves no chunk that its manifest named, and no manifest.
THEOREM DeletesRemove == HSpec => []DeleteRemoves
<1>1. TypeOK /\ ReadsRight => DeleteRemoves
  <2> SUFFICES ASSUME TypeOK, ReadsRight, NEW w \in Writers, thread[w].at = "deleted",
                      owner[thread[w].name] = w
               PROVE  /\ thread[w].name \notin DOMAIN manifests
                      /\ \A i \in 0 .. (thread[w].chunks - 1) :
                            <<thread[w].name, i>> \notin DOMAIN blocks
    BY DEF DeleteRemoves
  <2>1. OwnDelete(thread[w])
    BY DEF ReadsRight, OwnerHolds
  <2>2. thread[w].chunks \in Nat /\ thread[w].next \in Nat
    BY TypedParts, DeletingTyped DEF ThreadsTyped, DeletingState
  <2> QED BY <2>1, <2>2 DEF OwnDelete, MayBe
<1> QED BY <1>1, ReadsRightHolds, ObjectsTyped, ReadsWatch, PTL
-----------------------------------------------------------------------------
(* The contents of the prefixes, and their chunks                          *)

Count(k) == ChunkCount(Content[k], ChunkBytes)
Part(k, i) == Chunk(Content[k], ChunkBytes, i)

\* The first i chunks of a content.
Prefix(k, i) == FirstChunks(Content[k], ChunkBytes, i)

LEMMA ContentTyped ==
  ASSUME NEW k \in Names
  PROVE  /\ Content[k] \in Seq(Byte) /\ Len(Content[k]) \in Nat
         /\ ChunkBytes \in Nat \ {0}
<1>1. Content[k] \in Seq(Byte)
  BY PrefixKVConstants, ObjectConstants
<1> QED BY <1>1, LenProperties, PrefixKVConstants

\* The chunks of a content, which put_object counts, cover it.
LEMMA CountCovers ==
  ASSUME NEW k \in Names
  PROVE  Count(k) \in Nat \ {0} /\ Len(Content[k]) <= Count(k) * ChunkBytes
<1> QED BY ContentTyped, ChunksCover DEF Count

\* The next chunk goes on where the chunks before it end.
LEMMA PrefixGrows ==
  ASSUME NEW k \in Names, NEW i \in Nat
  PROVE  Prefix(k, i) \o Part(k, i) = Prefix(k, i + 1)
<1> QED BY ContentTyped, ChunksGrow DEF Prefix, Part

\* Nothing, to begin with; and all of it in the end.
LEMMA PrefixEnds ==
  ASSUME NEW k \in Names
  PROVE  Prefix(k, 0) = <<>> /\ Prefix(k, Count(k)) = Content[k]
<1> QED BY ContentTyped, ChunksEnd DEF Prefix, Count
-----------------------------------------------------------------------------
(* What the threads may hold                                               *)

Putting(s) ==
    \E k \in Names, i \in Nat :
        /\ s = [at |-> "put", name |-> k, data |-> Content[k], cb |-> ChunkBytes, next |-> i]
        /\ i <= Count(k)

Deleting(s) ==
    \E k \in Names, n \in Nat, i \in Nat, at \in {"delete", "deleted"} :
        s = [at |-> at, name |-> k, chunks |-> n, next |-> i]

Named(s) ==
    \E k \in Names, at \in {"stored", "evict", "found", "miss"} :
        s = [at |-> at, name |-> k]

Failed(s) ==
    \E k \in Names, why \in {"missing", "unreachable"} : s = Raised(WholeObject, k, why)

\* Each part that has been fetched is the chunk of its number; what has been
\* joined is the content as far as it goes.
Getting(s) ==
    \E k \in Names, i \in Nat : \E p \in [0 .. (Count(k) - 1) -> Seq(Byte) \cup {None}] :
        /\ s = [at |-> "get", name |-> k, chunks |-> Count(k), parts |-> p,
                joined |-> i, out |-> Prefix(k, i)]
        /\ i <= Count(k)
        /\ \A j \in DOMAIN p : p[j] \in {None, Part(k, j)}

Served(s) == \E k \in Names : s = Got(WholeObject, k, Content[k])

Fits(s) ==
    \/ s = Idle \/ Putting(s) \/ Deleting(s) \/ Named(s)
    \/ Failed(s) \/ Getting(s) \/ Served(s)

\* Every PUT under way carries the part that its chunk's name says.
SentExact ==
    /\ sent \in [Requests -> RequestStates]
    /\ \A x \in Requests : sent[x] # Idle => sent[x].data = Part(sent[x].key[1], sent[x].key[2])

\* Every chunk is the part of its object's content that its name says, and
\* every manifest counts the chunks there are.
StoreExact ==
    /\ SentExact
    /\ \A c \in DOMAIN blocks :
        /\ c \in Names \X Nat
        /\ \E p \in Places : blocks[c] = [data |-> Part(c[1], c[2]), place |-> p]
    /\ \A k \in DOMAIN manifests : k \in Names /\ manifests[k].chunks = Count(k)

ThreadsFit == DOMAIN thread = Threads /\ \A t \in Threads : Fits(thread[t])

Exact == StoreExact /\ ThreadsFit

KindOK(s) ==
    /\ s.at = "put" => Putting(s)
    /\ s.at \in {"delete", "deleted"} => Deleting(s)
    /\ s.at \in {"stored", "evict", "found", "miss"} => Named(s)
    /\ s.at = "get" => Getting(s)
    /\ s.at = "got" => Served(s)
    /\ s.at = "raised" => Failed(s)
    /\ s.at \notin {"range", "rows"}

\* A thread's label tells what it is doing.
LEMMA Kinds ==
  ASSUME NEW s, Fits(s)
  PROVE  KindOK(s)
<1>1. CASE s = Idle
  BY <1>1 DEF Idle, KindOK
<1>2. CASE Putting(s)
  <2>1. s.at = "put"
    BY <1>2 DEF Putting
  <2> QED BY <1>2, <2>1 DEF KindOK
<1>3. CASE Deleting(s)
  <2>1. s.at \in {"delete", "deleted"}
    BY <1>3 DEF Deleting
  <2> QED BY <1>3, <2>1 DEF KindOK
<1>4. CASE Named(s)
  <2>1. s.at \in {"stored", "evict", "found", "miss"}
    BY <1>4 DEF Named
  <2> QED BY <1>4, <2>1 DEF KindOK
<1>5. CASE Failed(s)
  <2>1. s.at = "raised"
    BY <1>5 DEF Failed, Raised
  <2> QED BY <1>5, <2>1 DEF KindOK
<1>6. CASE Getting(s)
  <2>1. s.at = "get"
    BY <1>6 DEF Getting
  <2> QED BY <1>6, <2>1 DEF KindOK
<1>7. CASE Served(s)
  <2>1. s.at = "got"
    BY <1>7 DEF Served, Got
  <2> QED BY <1>7, <2>1 DEF KindOK
<1> QED BY <1>1, <1>2, <1>3, <1>4, <1>5, <1>6, <1>7 DEF Fits

LEMMA PartTyped ==
  ASSUME NEW k \in Names, NEW i \in Nat
  PROVE  Part(k, i) \in Seq(Byte)
<1>1. ChunkBytes \in Nat
  BY ContentTyped
<1> QED BY <1>1, ContentTyped, ChunkTyped DEF Part

LEMMA ThreadGoes ==
  ASSUME ThreadsFit, NEW t \in Threads, NEW s, Fits(s), Goto(t, s)
  PROVE  ThreadsFit'
<1>1. DOMAIN thread = Threads /\ \A u \in Threads : Fits(thread[u])
  BY DEF ThreadsFit
<1>2. DOMAIN thread' = Threads /\ \A u \in Threads : thread'[u] = IF u = t THEN s ELSE thread[u]
  BY <1>1 DEF Goto
<1>3. \A u \in Threads : Fits(thread'[u])
  BY <1>1, <1>2
<1> QED BY <1>2, <1>3 DEF ThreadsFit

\* What put_object stores under a chunk's name is that chunk.
LEMMA ChunkStored ==
  ASSUME StoreExact, NEW k \in Names, NEW i \in Nat, NEW p \in Places,
         blocks' = Chunks!Store(blocks, <<k, i>>, [data |-> Part(k, i), place |-> p]),
         UNCHANGED <<manifests, sent>>
  PROVE  StoreExact'
  BY DEF StoreExact, SentExact, Chunks!Store

LEMMA StoreShrinks ==
  ASSUME StoreExact,
         DOMAIN blocks' \subseteq DOMAIN blocks, \A c \in DOMAIN blocks' : blocks'[c] = blocks[c],
         DOMAIN manifests' \subseteq DOMAIN manifests,
         \A k \in DOMAIN manifests' : manifests'[k] = manifests[k],
         UNCHANGED sent
  PROVE  StoreExact'
  BY DEF StoreExact, SentExact

LEMMA StoreStays ==
  ASSUME StoreExact, UNCHANGED <<blocks, manifests, sent>>
  PROVE  StoreExact'
  BY DEF StoreExact, SentExact

LEMMA ThreadKind ==
  ASSUME ThreadsFit, NEW t \in Threads
  PROVE  Fits(thread[t]) /\ KindOK(thread[t])
  BY Kinds DEF ThreadsFit
-----------------------------------------------------------------------------
(* Each step keeps what is stored and what the threads hold exact          *)

LEMMA StoreKeeps ==
  ASSUME Exact, NEW w \in Writers, NEW k \in Names, Store(w, k)
  PROVE  Exact'
<1> DEFINE s == [at |-> "put", name |-> k, data |-> Content[k], cb |-> ChunkBytes, next |-> 0]
<1>1. Goto(w, s) /\ UNCHANGED <<blocks, manifests, sent>>
  BY DEF Store, PutObject
<1>2. 0 <= Count(k)
  BY CountCovers
<1>3. Fits(s)
  BY <1>2 DEF Fits, Putting
<1> HIDE DEF s
<1>4. ThreadsFit'
  BY <1>1, <1>3, ThreadGoes DEF Exact, Threads
<1> QED BY <1>1, <1>4, StoreStays DEF Exact

LEMMA PutChunkKeeps ==
  ASSUME Exact, NEW w \in Writers, PutChunk(w)
  PROVE  Exact'
<1>1. KindOK(thread[w]) /\ thread[w].at = "put"
  BY ThreadKind DEF Exact, Threads, PutChunk, MoreToPut
<1>2. PICK k \in Names, i \in Nat :
        thread[w] = [at |-> "put", name |-> k, data |-> Content[k], cb |-> ChunkBytes, next |-> i]
  BY <1>1 DEF KindOK, Putting
<1>3. i < Count(k)
  BY <1>2 DEF PutChunk, MoreToPut, Count
<1>4. NextKey(w) = <<k, i>> /\ NextChunk(w) = Part(k, i)
  BY <1>2 DEF NextKey, NextChunk, Part
<1> DEFINE s == [at |-> "put", name |-> k, data |-> Content[k], cb |-> ChunkBytes, next |-> i + 1]
<1>5. [thread[w] EXCEPT !.next = @ + 1] = s
  BY <1>2
<1>6. Fits(s)
  <2>1. i + 1 \in Nat /\ i + 1 <= Count(k)
    BY <1>3, CountCovers
  <2> QED BY <2>1 DEF Fits, Putting
<1> HIDE DEF s
<1>7. ThreadsFit'
  BY <1>5, <1>6, ThreadGoes DEF Exact, Threads, PutChunk
<1>8. StoreExact'
  BY <1>4, ChunkStored DEF Exact, PutChunk
<1> QED BY <1>7, <1>8 DEF Exact

LEMMA IdleFits == Fits(Idle)
  BY DEF Fits

LEMMA PutSendsKeeps ==
  ASSUME Exact, NEW w \in Writers, PutSends(w)
  PROVE  Exact'
<1>1. KindOK(thread[w]) /\ thread[w].at = "put"
  BY ThreadKind DEF Exact, Threads, PutSends, MoreToPut
<1>2. PICK k \in Names, i \in Nat :
        thread[w] = [at |-> "put", name |-> k, data |-> Content[k], cb |-> ChunkBytes, next |-> i]
  BY <1>1 DEF KindOK, Putting
<1>3. NextKey(w) = <<k, i>> /\ NextChunk(w) = Part(k, i)
  BY <1>2 DEF NextKey, NextChunk, Part
<1> DEFINE q == Request("put", <<k, i>>, Part(k, i))
<1>4. PICK x \in Requests : sent' = [sent EXCEPT ![x] = q]
  BY <1>3 DEF PutSends, Send
<1>5. q \in RequestStates
  BY PartTyped, RequestTyped
<1>6. q.key = <<k, i>> /\ q.data = Part(k, i)
  BY DEF Request
<1> HIDE DEF q
<1>7. SentExact'
  BY <1>4, <1>5, <1>6 DEF Exact, StoreExact, SentExact
<1>8. StoreExact' /\ ThreadsFit'
  BY <1>7 DEF PutSends, Exact, StoreExact, ThreadsFit
<1> QED BY <1>8 DEF Exact

LEMMA PutFailsKeeps ==
  ASSUME Exact, NEW w \in Writers, PutFails(w)
  PROVE  Exact'
<1>1. ThreadsFit'
  BY IdleFits, ThreadGoes DEF Exact, Threads, PutFails
<1> QED BY <1>1, StoreStays DEF Exact, PutFails

LEMMA PutManifestKeeps ==
  ASSUME Exact, NEW w \in Writers, PutManifest(w)
  PROVE  Exact'
<1>1. KindOK(thread[w]) /\ thread[w].at = "put"
  BY ThreadKind DEF Exact, Threads, PutManifest
<1>2. PICK k \in Names, i \in Nat :
        thread[w] = [at |-> "put", name |-> k, data |-> Content[k], cb |-> ChunkBytes, next |-> i]
  BY <1>1 DEF KindOK, Putting
<1>3. Fits([at |-> "stored", name |-> k])
  BY DEF Fits, Named
<1>4. ThreadsFit'
  BY <1>2, <1>3, ThreadGoes DEF Exact, Threads, PutManifest
<1>5. /\ manifests' = Dict!Store(manifests, k, ManifestOf(Content[k], ChunkBytes))
      /\ UNCHANGED <<blocks, sent>>
  BY <1>2 DEF PutManifest
<1>6. ManifestOf(Content[k], ChunkBytes).chunks = Count(k)
  BY DEF ManifestOf, Count
<1>7. StoreExact'
  BY <1>5, <1>6 DEF Exact, StoreExact, SentExact, Dict!Store
<1> QED BY <1>4, <1>7 DEF Exact

LEMMA StoreIndexedKeeps ==
  ASSUME Exact, NEW w \in Writers, StoreIndexed(w)
  PROVE  Exact'
<1>1. ThreadsFit'
  BY IdleFits, ThreadGoes DEF Exact, Threads, StoreIndexed
<1> QED BY <1>1, StoreStays DEF Exact, StoreIndexed

\* Evict, FetchMiss and FetchHit only note the prefix.
LEMMA NamedKeeps ==
  ASSUME Exact, NEW t \in Threads, NEW k \in Names,
         NEW at \in {"stored", "evict", "found", "miss"},
         Goto(t, [at |-> at, name |-> k]), UNCHANGED <<blocks, manifests, sent>>
  PROVE  Exact'
<1>1. Fits([at |-> at, name |-> k])
  BY DEF Fits, Named
<1>2. ThreadsFit'
  BY <1>1, ThreadGoes DEF Exact
<1> QED BY <1>2, StoreStays DEF Exact

LEMMA EvictObjectKeeps ==
  ASSUME Exact, NEW w \in Writers, EvictObject(w)
  PROVE  Exact'
<1>1. KindOK(thread[w]) /\ thread[w].at = "evict"
  BY ThreadKind DEF Exact, Threads, EvictObject
<1>2. PICK k \in Names : thread[w].name = k
  <2>1. Named(thread[w])
    BY <1>1 DEF KindOK
  <2> QED BY <2>1 DEF Named
<1>3. CASE k \in DOMAIN manifests
  <2> DEFINE s == [at |-> "delete", name |-> k, chunks |-> Count(k), next |-> 0]
  <2>1. manifests[k].chunks = Count(k)
    BY <1>3 DEF Exact, StoreExact
  <2>2. Goto(w, s)
    BY <1>2, <1>3, <2>1 DEF EvictObject, DeleteObject
  <2>3. Count(k) \in Nat /\ 0 \in Nat
    BY CountCovers
  <2>4. Fits(s)
    BY <2>3 DEF Fits, Deleting
  <2> HIDE DEF s
  <2>5. ThreadsFit'
    BY <2>2, <2>4, ThreadGoes DEF Exact, Threads
  <2> QED BY <2>5, StoreStays DEF Exact, EvictObject, DeleteObject
<1>4. CASE k \notin DOMAIN manifests
  <2>1. Goto(w, Idle)
    BY <1>2, <1>4 DEF EvictObject, DeleteObject
  <2>2. ThreadsFit'
    BY <2>1, IdleFits, ThreadGoes DEF Exact, Threads
  <2> QED BY <2>2, StoreStays DEF Exact, EvictObject, DeleteObject
<1> QED BY <1>3, <1>4

LEMMA DeleteChunkKeeps ==
  ASSUME Exact, NEW w \in Writers, DeleteChunk(w)
  PROVE  Exact'
<1>1. KindOK(thread[w]) /\ thread[w].at = "delete"
  BY ThreadKind DEF Exact, Threads, DeleteChunk
<1>2. PICK k \in Names, n \in Nat, i \in Nat, at \in {"delete", "deleted"} :
        thread[w] = [at |-> at, name |-> k, chunks |-> n, next |-> i]
  BY <1>1 DEF KindOK, Deleting
<1>3. [thread[w] EXCEPT !.next = @ + 1] = [at |-> at, name |-> k, chunks |-> n, next |-> i + 1]
  BY <1>2
<1>4. Fits([at |-> at, name |-> k, chunks |-> n, next |-> i + 1])
  BY i + 1 \in Nat DEF Fits, Deleting
<1>5. ThreadsFit'
  BY <1>3, <1>4, ThreadGoes DEF Exact, Threads, DeleteChunk
<1>6. StoreExact'
  BY StoreShrinks DEF Exact, DeleteChunk, Chunks!Drop
<1> QED BY <1>5, <1>6 DEF Exact

LEMMA DeleteManifestKeeps ==
  ASSUME Exact, NEW w \in Writers, DeleteManifest(w)
  PROVE  Exact'
<1>1. KindOK(thread[w]) /\ thread[w].at = "delete"
  BY ThreadKind DEF Exact, Threads, DeleteManifest
<1>2. PICK k \in Names, n \in Nat, i \in Nat, at \in {"delete", "deleted"} :
        thread[w] = [at |-> at, name |-> k, chunks |-> n, next |-> i]
  BY <1>1 DEF KindOK, Deleting
<1>3. [thread[w] EXCEPT !.at = "deleted"] = [at |-> "deleted", name |-> k, chunks |-> n, next |-> i]
  BY <1>2
<1>4. Fits([at |-> "deleted", name |-> k, chunks |-> n, next |-> i])
  BY DEF Fits, Deleting
<1>5. ThreadsFit'
  BY <1>3, <1>4, ThreadGoes DEF Exact, Threads, DeleteManifest
<1>6. StoreExact'
  BY StoreShrinks DEF Exact, DeleteManifest, Dict!Drop
<1> QED BY <1>5, <1>6 DEF Exact

LEMMA ClearKeeps ==
  ASSUME Exact, Clear
  PROVE  Exact'
<1>1. DOMAIN blocks' = {} /\ DOMAIN manifests' = {}
  BY DEF Clear, Chunks!Empty, Dict!Empty
<1>2. StoreExact'
  BY <1>1 DEF StoreExact, SentExact, Exact, Clear
<1>3. ThreadsFit'
  BY DEF Clear, Exact, ThreadsFit
<1> QED BY <1>2, <1>3 DEF Exact

LEMMA FetchObjectKeeps ==
  ASSUME Exact, NEW r \in Readers, FetchObject(r)
  PROVE  Exact'
<1>1. KindOK(thread[r]) /\ thread[r].at = "found"
  BY ThreadKind DEF Exact, Threads, FetchObject
<1>2. PICK k \in Names : thread[r].name = k
  <2>1. Named(thread[r])
    BY <1>1 DEF KindOK
  <2> QED BY <2>1 DEF Named
<1>3. CASE k \in DOMAIN manifests
  <2> DEFINE p == [i \in 0 .. (Count(k) - 1) |-> None]
             s == [at |-> "get", name |-> k, chunks |-> Count(k), parts |-> p,
                   joined |-> 0, out |-> <<>>]
  <2>1. manifests[k].chunks = Count(k)
    BY <1>3 DEF Exact, StoreExact
  <2>2. Goto(r, s)
    BY <1>2, <1>3, <2>1 DEF FetchObject, GetObject
  <2>3. 0 \in Nat /\ 0 <= Count(k) /\ Prefix(k, 0) = <<>>
    BY CountCovers, PrefixEnds
  <2>4. /\ p \in [0 .. (Count(k) - 1) -> Seq(Byte) \cup {None}]
        /\ \A j \in DOMAIN p : p[j] \in {None, Part(k, j)}
    OBVIOUS
  <2> HIDE DEF p
  <2>5. Getting(s)
    BY <2>3, <2>4 DEF Getting
  <2>6. Fits(s)
    BY <2>5 DEF Fits
  <2> HIDE DEF s
  <2>7. ThreadsFit'
    BY <2>2, <2>6, ThreadGoes DEF Exact, Threads
  <2> QED BY <2>7, StoreStays DEF Exact, FetchObject, GetObject
<1>4. CASE k \notin DOMAIN manifests
  <2>1. Goto(r, Raised(WholeObject, k, "missing"))
    BY <1>2, <1>4 DEF FetchObject, GetObject
  <2>2. Fits(Raised(WholeObject, k, "missing"))
    BY DEF Fits, Failed
  <2>3. ThreadsFit'
    BY <2>1, <2>2, ThreadGoes DEF Exact, Threads
  <2> QED BY <2>3, StoreStays DEF Exact, FetchObject, GetObject
<1> QED BY <1>3, <1>4

LEMMA FetchKeeps ==
  ASSUME Exact, NEW r \in Readers, NEW j, Fetch(r, j)
  PROVE  Exact'
<1>1. KindOK(thread[r]) /\ thread[r].at = "get" /\ j \in DOMAIN thread[r].parts
  BY ThreadKind DEF Exact, Threads, Fetch, Fetching
<1>2. PICK k \in Names, i \in Nat : \E p \in [0 .. (Count(k) - 1) -> Seq(Byte) \cup {None}] :
        /\ thread[r] = [at |-> "get", name |-> k, chunks |-> Count(k), parts |-> p,
                        joined |-> i, out |-> Prefix(k, i)]
        /\ i <= Count(k)
        /\ \A h \in DOMAIN p : p[h] \in {None, Part(k, h)}
  BY <1>1 DEF KindOK, Getting
<1>3. PICK p \in [0 .. (Count(k) - 1) -> Seq(Byte) \cup {None}] :
        /\ thread[r] = [at |-> "get", name |-> k, chunks |-> Count(k), parts |-> p,
                        joined |-> i, out |-> Prefix(k, i)]
        /\ i <= Count(k)
        /\ \A h \in DOMAIN p : p[h] \in {None, Part(k, h)}
  BY <1>2
<1>4. thread[r].name = k /\ thread[r].parts = p /\ j \in DOMAIN p
  BY <1>1, <1>3
<1>5. CASE <<k, j>> \in DOMAIN blocks
  <2> DEFINE q == [p EXCEPT ![j] = Part(k, j)]
             s == [at |-> "get", name |-> k, chunks |-> Count(k), parts |-> q,
                   joined |-> i, out |-> Prefix(k, i)]
  <2>1. j \in Nat
    BY <1>5 DEF Exact, StoreExact
  <2>2. blocks[<<k, j>>].data = Part(k, j)
    <3> DEFINE c == <<k, j>>
    <3>1. \E pl \in Places : blocks[c] = [data |-> Part(c[1], c[2]), place |-> pl]
      BY <1>5 DEF Exact, StoreExact
    <3> QED BY <3>1
  <2>3. Goto(r, [thread[r] EXCEPT !.parts[j] = Part(k, j)])
    BY <1>4, <1>5, <2>2 DEF Fetch
  <2>4. [thread[r] EXCEPT !.parts[j] = Part(k, j)] = [thread[r] EXCEPT !.parts = q]
    BY <1>4, Zenon
  <2>5. [thread[r] EXCEPT !.parts = q] = s
    BY <1>3
  <2>6. Part(k, j) \in Seq(Byte)
    BY <2>1, PartTyped
  <2>7. /\ q \in [0 .. (Count(k) - 1) -> Seq(Byte) \cup {None}]
        /\ \A h \in DOMAIN q : q[h] \in {None, Part(k, h)}
    BY <1>3, <2>6
  <2> HIDE DEF q
  <2>8. Getting(s)
    BY <1>3, <2>7 DEF Getting
  <2>9. Fits(s)
    BY <2>8 DEF Fits
  <2>10. Goto(r, s)
    BY <2>3, <2>4, <2>5
  <2> HIDE DEF s
  <2>11. ThreadsFit'
    BY <2>9, <2>10, ThreadGoes DEF Exact, Threads
  <2> QED BY <2>11, StoreStays DEF Exact, Fetch
<1>6. CASE <<k, j>> \notin DOMAIN blocks
  <2>1. Goto(r, Raised(WholeObject, k, "missing"))
    BY <1>4, <1>6 DEF Fetch
  <2>2. Fits(Raised(WholeObject, k, "missing"))
    BY DEF Fits, Failed
  <2>3. ThreadsFit'
    BY <2>1, <2>2, ThreadGoes DEF Exact, Threads
  <2> QED BY <2>3, StoreStays DEF Exact, Fetch
<1> QED BY <1>5, <1>6

LEMMA GetJoinKeeps ==
  ASSUME Exact, NEW r \in Readers, GetJoin(r)
  PROVE  Exact'
<1>1. KindOK(thread[r]) /\ thread[r].at = "get"
  BY ThreadKind DEF Exact, Threads, GetJoin
<1>2. PICK k \in Names, i \in Nat : \E p \in [0 .. (Count(k) - 1) -> Seq(Byte) \cup {None}] :
        /\ thread[r] = [at |-> "get", name |-> k, chunks |-> Count(k), parts |-> p,
                        joined |-> i, out |-> Prefix(k, i)]
        /\ i <= Count(k)
        /\ \A h \in DOMAIN p : p[h] \in {None, Part(k, h)}
  BY <1>1 DEF KindOK, Getting
<1>3. PICK p \in [0 .. (Count(k) - 1) -> Seq(Byte) \cup {None}] :
        /\ thread[r] = [at |-> "get", name |-> k, chunks |-> Count(k), parts |-> p,
                        joined |-> i, out |-> Prefix(k, i)]
        /\ i <= Count(k)
        /\ \A h \in DOMAIN p : p[h] \in {None, Part(k, h)}
  BY <1>2
<1>4. /\ thread[r].parts = p /\ thread[r].joined = i /\ thread[r].chunks = Count(k)
      /\ i < Count(k) /\ i \in DOMAIN p
  <2>1. thread[r].parts = p /\ thread[r].joined = i /\ thread[r].chunks = Count(k)
    BY <1>3
  <2>2. i < Count(k) /\ Count(k) \in Nat
    BY <2>1, CountCovers DEF GetJoin
  <2>3. i \in 0 .. (Count(k) - 1)
    BY <2>2
  <2> QED BY <1>3, <2>1, <2>2, <2>3
<1>5. p[i] # None /\ p[i] = Part(k, i)
  BY <1>3, <1>4 DEF GetJoin, AllFetched
<1> DEFINE s == [at |-> "get", name |-> k, chunks |-> Count(k), parts |-> p,
                 joined |-> i + 1, out |-> Prefix(k, i + 1)]
<1>6. Goto(r, [thread[r] EXCEPT !.joined = @ + 1, !.out = @ \o Part(k, i)])
  BY <1>4, <1>5 DEF GetJoin
<1>7. [thread[r] EXCEPT !.joined = @ + 1, !.out = @ \o Part(k, i)] = s
  <2>1. Prefix(k, i) \o Part(k, i) = Prefix(k, i + 1)
    BY PrefixGrows
  <2>2. \A n, o : [thread[r] EXCEPT !.joined = n, !.out = o]
                  = [at |-> "get", name |-> k, chunks |-> Count(k), parts |-> p,
                     joined |-> n, out |-> o]
    <3> DEFINE x == Prefix(k, i)
    <3>1. thread[r] = [at |-> "get", name |-> k, chunks |-> Count(k), parts |-> p,
                       joined |-> i, out |-> x]
      BY <1>3
    <3> HIDE DEF x
    <3>2. \A n, o : [thread[r] EXCEPT !.joined = n, !.out = o]
                    = [[thread[r] EXCEPT !.joined = n] EXCEPT !.out = o]
      BY Zenon
    <3> TAKE n, o
    <3>3. [thread[r] EXCEPT !.joined = n]
          = [at |-> "get", name |-> k, chunks |-> Count(k), parts |-> p,
             joined |-> n, out |-> x]
      BY <3>1
    <3> DEFINE y == [at |-> "get", name |-> k, chunks |-> Count(k), parts |-> p,
                     joined |-> n, out |-> x]
    <3>4. [y EXCEPT !.out = o]
          = [at |-> "get", name |-> k, chunks |-> Count(k), parts |-> p,
             joined |-> n, out |-> o]
      OBVIOUS
    <3> QED BY <3>2, <3>3, <3>4, Zenon
  <2>3. thread[r].joined + 1 = i + 1 /\ thread[r].out = Prefix(k, i)
    BY <1>3
  <2> QED BY <2>1, <2>2, <2>3
<1>8. i + 1 \in Nat /\ i + 1 <= Count(k)
  BY <1>4, CountCovers
<1>9. Getting(s)
  BY <1>3, <1>8 DEF Getting
<1>10. Fits(s)
  BY <1>9 DEF Fits
<1> HIDE DEF s
<1>11. ThreadsFit'
  BY <1>6, <1>7, <1>10, ThreadGoes DEF Exact, Threads
<1> QED BY <1>11, StoreStays DEF Exact, GetJoin

LEMMA GetDoneKeeps ==
  ASSUME Exact, NEW r \in Readers, GetDone(r)
  PROVE  Exact'
<1>1. KindOK(thread[r]) /\ thread[r].at = "get"
  BY ThreadKind DEF Exact, Threads, GetDone
<1>2. PICK k \in Names, i \in Nat :
        thread[r].name = k /\ thread[r].joined = i /\ thread[r].chunks = Count(k)
        /\ thread[r].out = Prefix(k, i)
  <2>1. Getting(thread[r])
    BY <1>1 DEF KindOK
  <2> QED BY <2>1 DEF Getting
<1>3. thread[r].out = Content[k]
  BY <1>2, PrefixEnds DEF GetDone
<1>4. Goto(r, Got(WholeObject, k, Content[k]))
  BY <1>2, <1>3 DEF GetDone
<1>5. Fits(Got(WholeObject, k, Content[k]))
  BY DEF Fits, Served
<1>6. ThreadsFit'
  BY <1>4, <1>5, ThreadGoes DEF Exact, Threads
<1> QED BY <1>6, StoreStays DEF Exact, GetDone

LEMMA ReadUnreachableKeeps ==
  ASSUME Exact, NEW r \in Readers, ReadUnreachable(r)
  PROVE  Exact'
<1>1. KindOK(thread[r])
  BY ThreadKind DEF Exact, Threads
<1>2. thread[r].at = "get" /\ Goto(r, Raised(WholeObject, thread[r].name, "unreachable"))
  BY <1>1 DEF KindOK, ReadUnreachable
<1>3. PICK k \in Names : thread[r].name = k
  <2>1. Getting(thread[r])
    BY <1>1, <1>2 DEF KindOK
  <2> QED BY <2>1 DEF Getting
<1>4. Fits(Raised(WholeObject, k, "unreachable"))
  BY DEF Fits, Failed
<1>5. ThreadsFit'
  BY <1>2, <1>3, <1>4, ThreadGoes DEF Exact, Threads
<1> QED BY <1>5, StoreStays DEF Exact, ReadUnreachable

LEMMA ReturnKeeps ==
  ASSUME Exact, NEW t \in Threads, KVReturn(t)
  PROVE  Exact'
<1>1. ThreadsFit'
  BY IdleFits, ThreadGoes DEF Exact, KVReturn
<1> QED BY <1>1, StoreStays DEF Exact, KVReturn

\* What spills and late PUTs carry is the chunk.
LEMMA RequestExact ==
  ASSUME Exact, NEW x \in Requests, RequestStep(x)
  PROVE  Exact'
<1>1. UNCHANGED <<manifests, thread>>
  BY DEF RequestStep, SpillSends, RequestStored, SpillEnd, RequestEnds
<1>2. SentExact /\ \A c \in DOMAIN blocks : c \in Names \X Nat
                       /\ \E p \in Places : blocks[c] = [data |-> Part(c[1], c[2]), place |-> p]
  BY DEF Exact, StoreExact
<1> DEFINE Exactly == SentExact' /\ \A c \in DOMAIN blocks' : c \in Names \X Nat
                         /\ \E p \in Places : blocks'[c] = [data |-> Part(c[1], c[2]), place |-> p]
<1>3. ASSUME NEW c \in DOMAIN blocks, SpillSends(x, c) PROVE Exactly
  <2> DEFINE q == Request("spill", c, blocks[c].data)
  <2>1. sent' = [sent EXCEPT ![x] = q] /\ blocks' = blocks
    BY <1>3 DEF SpillSends, Send
  <2>2. PICK k \in Names, i \in Nat : c = <<k, i>>
    BY <1>2
  <2>3. blocks[c].data = Part(k, i)
    BY <1>2, <2>2
  <2>4. q \in RequestStates /\ q.key = c /\ q.data = Part(k, i)
    BY <2>2, <2>3, PartTyped, RequestTyped DEF Request
  <2> HIDE DEF q
  <2>5. SentExact'
    BY <1>2, <2>1, <2>2, <2>4 DEF SentExact
  <2> QED BY <1>2, <2>1, <2>5
<1>4. ASSUME RequestStored(x) PROVE Exactly
  <2>1. sent[x] # Idle /\ sent[x].data = Part(sent[x].key[1], sent[x].key[2])
    BY <1>2, <1>4 DEF RequestStored, Idle, SentExact
  <2>2. SentExact'
    BY <1>2, <1>4, <2>1, RequestStoredSent DEF SentExact
  <2>3. CASE blocks' = blocks
    BY <1>2, <2>2, <2>3
  <2>4. CASE AtPeer(sent[x].key) /\ blocks' = [blocks EXCEPT ![sent[x].key].data = sent[x].data]
    <3> DEFINE c == sent[x].key
    <3>1. PICK p \in Places : blocks[c] = [data |-> Part(c[1], c[2]), place |-> p]
      BY <1>2, <2>4 DEF AtPeer
    <3>2. [blocks[c] EXCEPT !.data = sent[x].data] = blocks[c]
      BY <2>1, <3>1
    <3>3. blocks' = [blocks EXCEPT ![c] = [@ EXCEPT !.data = sent[x].data]]
      BY <2>4
    <3> HIDE DEF c
    <3>4. DOMAIN blocks' = DOMAIN blocks /\ \A d \in DOMAIN blocks : blocks'[d] = blocks[d]
      BY <3>2, <3>3
    <3> QED BY <1>2, <2>2, <3>4
  <2> QED BY <1>4, <2>3, <2>4 DEF RequestStored
<1>5. ASSUME SpillEnd(x) PROVE Exactly
  <2>1. sent[x] # Idle /\ sent[x].data = Part(sent[x].key[1], sent[x].key[2])
    BY <1>2, <1>5 DEF SpillEnd, Idle, SentExact
  <2>2. sent[x].key \in Names \X Nat
    BY <1>2, <2>1, RequestKinds DEF SentExact
  <2>3. SentExact'
    BY <1>2, <1>5, SpillEndSent DEF SentExact
  <2>4. blocks' = Chunks!Store(blocks, sent[x].key,
                               [data |-> Part(sent[x].key[1], sent[x].key[2]), place |-> "peer"])
    BY <1>5, <2>1 DEF SpillEnd
  <2> QED BY <1>2, <2>2, <2>3, <2>4 DEF Chunks!Store, Places
<1>6. ASSUME RequestEnds(x) PROVE Exactly
  <2>1. blocks' = blocks /\ sent' = [sent EXCEPT ![x] = Idle]
    BY <1>6 DEF RequestEnds
  <2>2. SentExact'
    BY <1>2, <2>1 DEF SentExact, RequestStates
  <2> QED BY <1>2, <2>1, <2>2
<1>7. Exactly
  BY <1>3, <1>4, <1>5, <1>6 DEF RequestStep
<1>8. StoreExact' /\ ThreadsFit'
  BY <1>1, <1>7 DEF Exact, StoreExact, ThreadsFit
<1> QED BY <1>8 DEF Exact

LEMMA LostKeeps ==
  ASSUME Exact, NEW c, BlockLost(c)
  PROVE  Exact'
<1>1. ThreadsFit'
  BY DEF BlockLost, Exact, ThreadsFit
<1>2. StoreExact'
  BY StoreShrinks DEF Exact, BlockLost, Chunks!Drop
<1> QED BY <1>1, <1>2 DEF Exact

-----------------------------------------------------------------------------
(* Hits                                                                    *)

LEMMA WriterKeeps ==
  ASSUME Exact, NEW w \in Writers, KVWriterStep(w)
  PROVE  Exact'
<1>1. CASE \E k \in Names : Store(w, k) \/ Evict(w, k)
  <2>1. PICK k \in Names : Store(w, k) \/ Evict(w, k)
    BY <1>1
  <2>2. ASSUME Evict(w, k) PROVE Exact'
    BY <2>2, NamedKeeps DEF Evict, Threads
  <2> QED BY <2>1, <2>2, StoreKeeps
<1>2. CASE StoreIndexed(w)
  BY <1>2, StoreIndexedKeeps
<1>3. CASE EvictObject(w)
  BY <1>3, EvictObjectKeeps
<1>4. CASE Clear
  BY <1>4, ClearKeeps
<1>5. CASE WriterGoesOn(w)
  BY <1>5, PutSendsKeeps, PutChunkKeeps, PutFailsKeeps, PutManifestKeeps, DeleteChunkKeeps, DeleteManifestKeeps
     DEF WriterGoesOn
<1>6. CASE KVReturn(w)
  BY <1>6, ReturnKeeps DEF Threads
<1> QED BY <1>1, <1>2, <1>3, <1>4, <1>5, <1>6 DEF KVWriterStep

\* No thread reads a part: those steps of Objects are never enabled here.
LEMMA NoRanges ==
  ASSUME Exact, NEW r \in Readers
  PROVE  ~RangePiece(r) /\ ~RangeDone(r) /\ ~RowsRange(r)
<1>1. KindOK(thread[r])
  BY ThreadKind DEF Exact, Threads
<1> QED BY <1>1 DEF KindOK, RangePiece, RangeDone, RowsRange

LEMMA ReaderKeeps ==
  ASSUME Exact, NEW r \in Readers, KVReaderStep(r)
  PROVE  Exact'
<1>1. CASE \E k \in Names : FetchMiss(r, k) \/ FetchHit(r, k)
  <2>1. PICK k \in Names : FetchMiss(r, k) \/ FetchHit(r, k)
    BY <1>1
  <2>2. CASE FetchMiss(r, k)
    BY <2>2, NamedKeeps DEF FetchMiss, Threads
  <2>3. CASE FetchHit(r, k)
    BY <2>3, NamedKeeps DEF FetchHit, Threads
  <2> QED BY <2>1, <2>2, <2>3
<1>2. CASE FetchObject(r)
  BY <1>2, FetchObjectKeeps
<1>3. CASE ReaderGoesOn(r)
  BY <1>3, FetchKeeps, GetJoinKeeps, GetDoneKeeps, ReadUnreachableKeeps, NoRanges
     DEF ReaderGoesOn, FetchNext
<1>4. CASE KVReturn(r)
  BY <1>4, ReturnKeeps DEF Threads
<1> QED BY <1>1, <1>2, <1>3, <1>4 DEF KVReaderStep

LEMMA ExactHolds == KVSpec => []Exact
<1>1. KVInit => Exact
  <2> SUFFICES ASSUME KVInit PROVE Exact
    OBVIOUS
  <2>1. DOMAIN blocks = {} /\ DOMAIN manifests = {}
    BY DEF KVInit, Init, Chunks!Empty, Dict!Empty
  <2>2. ThreadsFit
    BY IdleFits DEF KVInit, Init, ThreadsFit
  <2>3. SentExact
    BY DEF KVInit, Init, SentExact, RequestStates
  <2> QED BY <2>1, <2>2, <2>3 DEF Exact, StoreExact
<1>2. Exact /\ [KVNext]_kvars => Exact'
  <2> SUFFICES ASSUME Exact, [KVNext]_kvars PROVE Exact'
    OBVIOUS
  <2>1. CASE UNCHANGED kvars
    BY <2>1, StoreStays DEF kvars, vars, Exact, ThreadsFit
  <2>2. CASE \E w \in Writers : KVWriterStep(w)
    BY <2>2, WriterKeeps
  <2>3. CASE \E r \in Readers : KVReaderStep(r)
    BY <2>3, ReaderKeeps
  <2>4. CASE \/ \E x \in Requests : RequestStep(x)
             \/ \E c \in DOMAIN blocks : BlockLost(c)
    BY <2>4, RequestExact, LostKeeps
  <2> QED BY <2>1, <2>2, <2>3, <2>4 DEF KVNext
<1> QED BY <1>1, <1>2, PTL DEF KVSpec

\* What fetch returns for a prefix is what was stored for it, whatever
\* overlaps with it (PrefixKVStore.fetch, get_object).
THEOREM HitsAreExact == KVSpec => []HitIsExact
<1>1. Exact => HitIsExact
  <2> SUFFICES ASSUME Exact, NEW r \in Readers, thread[r].at = "got"
               PROVE  thread[r].data = Content[thread[r].name]
    BY DEF HitIsExact
  <2>1. Served(thread[r])
    BY ThreadKind DEF Exact, Threads, KindOK
  <2> QED BY <2>1 DEF Served, Got
<1> QED BY <1>1, ExactHolds, PTL

-----------------------------------------------------------------------------
(* What must be a hit                                                      *)

Whole(k) ==
    /\ k \in DOMAIN manifests
    /\ \A i \in Nat : i < Count(k) => <<k, i>> \in DOMAIN blocks

SureTyped == sure \in [Names -> BOOLEAN] /\ safe \in [Threads -> BOOLEAN]

SureHolds == \A k \in Names : sure[k] => Whole(k) /\ k \in index

\* What a thread of which nothing was taken may rely on.
Relies(t) ==
    /\ thread[t].at = "put" =>
        \A i \in Nat : i < thread[t].next => <<thread[t].name, i>> \in DOMAIN blocks
    /\ thread[t].at = "stored" => Whole(thread[t].name)
    /\ thread[t].at \in {"found", "get"} => sure[thread[t].name]
    /\ thread[t].at # "miss"
    /\ thread[t].at = "raised" => thread[t].why = "unreachable"

SafeHolds == \A t \in Threads : safe[t] => Relies(t)

Reliable == SureTyped /\ SureHolds /\ SafeHolds

LEMMA NameTyped ==
  ASSUME NEW s, Named(s) \/ Getting(s) \/ Putting(s) \/ Deleting(s)
  PROVE  s.name \in Names
<1>1. Named(s) => s.name \in Names
  BY DEF Named
<1>2. Getting(s) => s.name \in Names
  BY DEF Getting
<1>3. Putting(s) => s.name \in Names
  BY DEF Putting
<1>4. Deleting(s) => s.name \in Names
  BY DEF Deleting
<1> QED BY <1>1, <1>2, <1>3, <1>4

\* A step that takes nothing away.
LEMMA NothingTaken ==
  ASSUME Exact, Reliable, SureTyped',
         DOMAIN blocks \subseteq DOMAIN blocks', DOMAIN manifests \subseteq DOMAIN manifests',
         index \subseteq index',
         \A k \in Names : sure[k] => sure'[k],
         \A k \in Names : sure'[k] => sure[k] \/ (Whole(k) /\ k \in index'),
         \A t \in Threads :
            safe'[t] => (safe[t] /\ thread'[t] = thread[t]) \/ Relies(t)'
  PROVE  Reliable'
<1>1. \A k \in Names : Whole(k) => Whole(k)'
  BY DEF Whole
<1>2. SureHolds'
  BY <1>1 DEF Reliable, SureHolds
<1>3. ASSUME NEW t \in Threads, safe[t], thread'[t] = thread[t] PROVE Relies(t)'
  <2>1. Relies(t)
    BY <1>3 DEF Reliable, SafeHolds
  <2>2. KindOK(thread[t])
    BY ThreadKind DEF Exact
  <2>3. thread[t].at = "put" =>
            \A i \in Nat : i < thread[t].next => <<thread[t].name, i>> \in DOMAIN blocks'
    BY <2>1 DEF Relies
  <2>4. ASSUME thread[t].at = "stored" PROVE Whole(thread[t].name)'
    <3>1. Named(thread[t]) /\ Whole(thread[t].name)
      BY <2>1, <2>2, <2>4 DEF KindOK, Relies
    <3>2. thread[t].name \in Names
      BY <3>1 DEF Named
    <3> QED BY <1>1, <1>3, <3>1, <3>2 DEF Whole
  <2>5. ASSUME thread[t].at \in {"found", "get"} PROVE sure'[thread[t].name]
    <3>1. Named(thread[t]) \/ Getting(thread[t])
      BY <2>2, <2>5 DEF KindOK
    <3>2. thread[t].name \in Names
      BY <3>1, NameTyped
    <3> QED BY <2>1, <2>5, <3>2 DEF Relies
  <2> QED BY <1>3, <2>1, <2>3, <2>4, <2>5 DEF Relies, Whole
<1>4. SafeHolds'
  BY <1>3 DEF SafeHolds
<1> QED BY <1>2, <1>4 DEF Reliable

\* A step that takes something of the prefixes in ks; the thread that takes it
\* is at work on one of them, or no thread moves.
LEMMA SomethingTaken ==
  ASSUME Exact, Reliable, NEW ks \in SUBSET Names, Taken(ks),
         \A c \in DOMAIN blocks : c[1] \notin ks => c \in DOMAIN blocks',
         DOMAIN manifests \ ks \subseteq DOMAIN manifests',
         index \ ks \subseteq index',
         \A t \in Threads : thread'[t] = thread[t] \/ NameOf(thread'[t]) \cap ks # {}
  PROVE  Reliable'
<1>1. SureTyped'
  <2>1. \A k \in Names : (sure[k] /\ k \notin ks) \in BOOLEAN
    OBVIOUS
  <2>2. sure' \in [Names -> BOOLEAN]
    BY <2>1 DEF Taken
  <2>3. \A t \in Threads : (safe[t] /\ NameOf(thread'[t]) \cap ks = {}) \in BOOLEAN
    OBVIOUS
  <2>4. safe' \in [Threads -> BOOLEAN]
    BY <2>3 DEF Taken
  <2> QED BY <2>2, <2>4 DEF SureTyped
<1>2. \A k \in Names : sure'[k] <=> sure[k] /\ k \notin ks
  BY DEF Taken
<1>3. \A k \in Names \ ks : Whole(k) => Whole(k)'
  BY DEF Whole
<1>4. SureHolds'
  BY <1>2, <1>3 DEF Reliable, SureHolds
<1>5. ASSUME NEW t \in Threads, safe'[t] PROVE Relies(t)'
  <2>1. safe[t] /\ NameOf(thread'[t]) \cap ks = {}
    BY <1>5 DEF Taken
  <2>2. thread'[t] = thread[t] /\ (thread[t] = Idle \/ thread[t].name \notin ks)
    BY <2>1 DEF NameOf
  <2>3. Relies(t)
    BY <2>1 DEF Reliable, SafeHolds
  <2>4. KindOK(thread[t])
    BY ThreadKind DEF Exact
  <2>5. CASE thread[t] = Idle
    BY <2>2, <2>5 DEF Idle, Relies
  <2>6. CASE thread[t] # Idle
    <3>1. thread[t].name \notin ks
      BY <2>2, <2>6
    <3>2. thread[t].at = "put" =>
            \A i \in Nat : i < thread[t].next => <<thread[t].name, i>> \in DOMAIN blocks'
      BY <2>3, <3>1 DEF Relies
    <3>3. ASSUME thread[t].at = "stored" PROVE Whole(thread[t].name)'
      <4>1. Named(thread[t]) /\ Whole(thread[t].name)
        BY <2>3, <2>4, <3>3 DEF KindOK, Relies
      <4>2. thread[t].name \in Names
        BY <4>1 DEF Named
      <4> QED BY <1>3, <2>2, <3>1, <4>1, <4>2 DEF Whole
    <3>4. ASSUME thread[t].at \in {"found", "get"} PROVE sure'[thread[t].name]
      <4>1. Named(thread[t]) \/ Getting(thread[t])
        BY <2>4, <3>4 DEF KindOK
      <4>2. thread[t].name \in Names
        BY <4>1, NameTyped
      <4> QED BY <1>2, <2>3, <3>1, <3>4, <4>2 DEF Relies
    <3> QED BY <2>2, <2>3, <3>2, <3>3, <3>4 DEF Relies, Whole
  <2> QED BY <2>5, <2>6
<1>6. SafeHolds'
  BY <1>5 DEF SafeHolds
<1> QED BY <1>1, <1>4, <1>6 DEF Reliable

\* The common case: one thread moves, and what is sure stays as it is.
LEMMA ThreadMoves ==
  ASSUME Exact, Reliable, NEW t \in Threads, NEW s, Goto(t, s), sure' = sure,
         DOMAIN blocks \subseteq DOMAIN blocks', DOMAIN manifests \subseteq DOMAIN manifests',
         index \subseteq index',
         safe' \in [Threads -> BOOLEAN],
         \A u \in Threads \ {t} : safe'[u] = safe[u],
         safe'[t] => Relies(t)'
  PROVE  Reliable'
<1>1. \A u \in Threads \ {t} : thread'[u] = thread[u]
  BY DEF Exact, ThreadsFit, Goto
<1>2. SureTyped'
  BY DEF Reliable, SureTyped
<1>3. \A u \in Threads : safe'[u] => (safe[u] /\ thread'[u] = thread[u]) \/ Relies(u)'
  BY <1>1
<1> QED BY <1>2, <1>3, NothingTaken

LEMMA Moved ==
  ASSUME Exact, NEW t \in Threads, NEW s, Goto(t, s)
  PROVE  thread'[t] = s
  BY DEF Exact, ThreadsFit, Goto

LEMMA StoreReliable ==
  ASSUME Exact, Reliable, NEW w \in Writers, NEW k \in Names, Store(w, k), Starts(w, TRUE)
  PROVE  Reliable'
<1> DEFINE s == [at |-> "put", name |-> k, data |-> Content[k], cb |-> ChunkBytes, next |-> 0]
<1>1. Goto(w, s) /\ UNCHANGED <<blocks, manifests, index>>
  BY DEF Store, PutObject
<1>2. thread'[w] = s
  BY <1>1, Moved DEF Threads
<1>3. Relies(w)'
  BY <1>2 DEF Relies
<1> HIDE DEF s
<1>4. safe' \in [Threads -> BOOLEAN] /\ \A u \in Threads \ {w} : safe'[u] = safe[u]
  BY DEF Starts, Reliable, SureTyped
<1> QED BY <1>1, <1>3, <1>4, ThreadMoves DEF Threads, Starts

LEMMA StoreIndexedReliable ==
  ASSUME Exact, Reliable, NEW w \in Writers, StoreIndexed(w),
         sure' = [sure EXCEPT ![thread[w].name] = @ \/ safe[w]], Ends(w)
  PROVE  Reliable'
<1> DEFINE k == thread[w].name
<1>1. KindOK(thread[w]) /\ thread[w].at = "stored"
  BY ThreadKind DEF Exact, Threads, StoreIndexed
<1>2. k \in Names
  BY <1>1, NameTyped DEF KindOK
<1>3. safe[w] => Whole(k)
  BY <1>1 DEF Reliable, SafeHolds, Relies, Threads
<1>4. index' = index \cup {k} /\ UNCHANGED <<blocks, manifests, sent>>
  BY DEF StoreIndexed
<1>5. sure' = [sure EXCEPT ![k] = @ \/ safe[w]]
  OBVIOUS
<1>6. SureTyped'
  BY <1>2 DEF Reliable, SureTyped, Ends, Threads
<1> HIDE DEF k
<1>7. /\ \A j \in Names : sure[j] => sure'[j]
      /\ \A j \in Names : sure'[j] => sure[j] \/ (Whole(j) /\ j \in index')
  BY <1>2, <1>3, <1>4, <1>5 DEF Reliable, SureTyped
<1>8. \A u \in Threads \ {w} : thread'[u] = thread[u] /\ safe'[u] = safe[u]
  BY DEF StoreIndexed, Goto, Ends, Exact, ThreadsFit, Reliable, SureTyped
<1>9. ~safe'[w]
  BY DEF Ends, Reliable, SureTyped, Threads
<1> QED BY <1>4, <1>6, <1>7, <1>8, <1>9, NothingTaken

\* An operation that is over, and one that never promised anything.
LEMMA EndsReliable ==
  ASSUME Exact, Reliable, NEW t \in Threads, NEW s, Goto(t, s), Ends(t), sure' = sure,
         DOMAIN blocks \subseteq DOMAIN blocks', UNCHANGED <<manifests, index>>
  PROVE  Reliable'
<1>1. safe' \in [Threads -> BOOLEAN] /\ ~safe'[t] /\ \A u \in Threads \ {t} : safe'[u] = safe[u]
  BY DEF Ends, Reliable, SureTyped
<1> QED BY <1>1, ThreadMoves

\* A step of an operation whose thread may rely on what it did before.
LEMMA QuietReliable ==
  ASSUME Exact, Reliable, NEW t \in Threads, NEW s, Goto(t, s), Quiet,
         DOMAIN blocks \subseteq DOMAIN blocks', DOMAIN manifests \subseteq DOMAIN manifests',
         UNCHANGED index,
         safe[t] => Relies(t)'
  PROVE  Reliable'
<1>1. safe' \in [Threads -> BOOLEAN] /\ \A u \in Threads \ {t} : safe'[u] = safe[u]
  BY DEF Quiet, Reliable, SureTyped
<1> QED BY <1>1, ThreadMoves DEF Quiet

LEMMA EvictObjectReliable ==
  ASSUME Exact, Reliable, NEW w \in Writers, EvictObject(w), Quiet
  PROVE  Reliable'
<1>1. PICK s : Goto(w, s) /\ s.at \in {"delete", "idle"}
  BY DEF EvictObject, DeleteObject, Idle
<1>2. Relies(w)'
  BY <1>1, Moved DEF Relies, Threads
<1> QED BY <1>1, <1>2, QuietReliable DEF EvictObject, DeleteObject, Threads

LEMMA PutChunkReliable ==
  ASSUME Exact, Reliable, NEW w \in Writers, PutChunk(w), UNCHANGED index, Quiet
  PROVE  Reliable'
<1>1. KindOK(thread[w]) /\ thread[w].at = "put"
  BY ThreadKind DEF Exact, Threads, PutChunk, MoreToPut
<1>2. PICK k \in Names, n \in Nat :
        thread[w] = [at |-> "put", name |-> k, data |-> Content[k], cb |-> ChunkBytes, next |-> n]
  BY <1>1 DEF KindOK, Putting
<1> DEFINE s == [at |-> "put", name |-> k, data |-> Content[k], cb |-> ChunkBytes, next |-> n + 1]
<1>3. Goto(w, s)
  BY <1>2 DEF PutChunk
<1>4. thread'[w] = s
  BY <1>3, Moved DEF Threads
<1>5. DOMAIN blocks' = DOMAIN blocks \cup {<<k, n>>} /\ manifests' = manifests
  BY <1>2 DEF PutChunk, NextKey, Chunks!Store
<1>6. ASSUME safe[w] PROVE Relies(w)'
  <2>1. \A i \in Nat : i < n => <<k, i>> \in DOMAIN blocks
    BY <1>2, <1>6 DEF Reliable, SafeHolds, Relies, Threads
  <2>2. \A i \in Nat : i < n + 1 => <<k, i>> \in DOMAIN blocks'
    BY <1>5, <2>1
  <2> QED BY <1>4, <2>2 DEF Relies
<1> HIDE DEF s
<1> QED BY <1>3, <1>5, <1>6, QuietReliable DEF Threads

LEMMA PutManifestReliable ==
  ASSUME Exact, Reliable, NEW w \in Writers, PutManifest(w), UNCHANGED index, Quiet
  PROVE  Reliable'
<1>1. KindOK(thread[w]) /\ thread[w].at = "put"
  BY ThreadKind DEF Exact, Threads, PutManifest
<1>2. PICK k \in Names, n \in Nat :
        thread[w] = [at |-> "put", name |-> k, data |-> Content[k], cb |-> ChunkBytes, next |-> n]
  BY <1>1 DEF KindOK, Putting
<1>3. ~(n < Count(k))
  BY <1>2 DEF PutManifest, MoreToPut, Count
<1>4. Goto(w, [at |-> "stored", name |-> k]) /\ thread'[w] = [at |-> "stored", name |-> k]
  BY <1>2, Moved DEF PutManifest, Threads
<1>5. DOMAIN manifests' = DOMAIN manifests \cup {k} /\ blocks' = blocks
  BY <1>2 DEF PutManifest, Dict!Store
<1>6. ASSUME safe[w] PROVE Relies(w)'
  <2>1. \A i \in Nat : i < n => <<k, i>> \in DOMAIN blocks
    BY <1>2, <1>6 DEF Reliable, SafeHolds, Relies, Threads
  <2>2. \A i \in Nat : i < Count(k) => <<k, i>> \in DOMAIN blocks'
    BY <1>3, <1>5, <2>1, CountCovers
  <2>3. Whole(k)'
    BY <1>5, <2>2 DEF Whole
  <2>4. Whole(thread[w].name)'
    BY <1>4, <2>3 DEF Whole
  <2> QED BY <1>4, <2>4 DEF Relies
<1> QED BY <1>4, <1>5, <1>6, QuietReliable DEF Threads

LEMMA DeleteReliable ==
  ASSUME Exact, Reliable, NEW w \in Writers, DeleteChunk(w) \/ DeleteManifest(w),
         UNCHANGED index, Taken({thread[w].name})
  PROVE  Reliable'
<1> DEFINE k == thread[w].name
<1>1. KindOK(thread[w]) /\ thread[w].at = "delete"
  BY ThreadKind DEF Exact, Threads, DeleteChunk, DeleteManifest
<1>2. PICK n \in Names, c \in Nat, i \in Nat, at \in {"delete", "deleted"} :
        thread[w] = [at |-> at, name |-> n, chunks |-> c, next |-> i]
  <2>1. Deleting(thread[w])
    BY <1>1 DEF KindOK
  <2> QED BY <2>1 DEF Deleting
<1>3. k = n /\ NextKey(w) = <<n, i>>
  BY <1>2 DEF NextKey
<1>4. PICK s : Goto(w, s) /\ s.name = n /\ s # Idle
  <2>1. CASE DeleteChunk(w)
    <3> DEFINE s == [thread[w] EXCEPT !.next = @ + 1]
    <3>1. Goto(w, s)
      BY <2>1 DEF DeleteChunk
    <3>2. s.name = n /\ s.at = "delete"
      BY <1>1, <1>2
    <3>3. s # Idle
      BY <3>2 DEF Idle
    <3> QED BY <3>1, <3>2, <3>3
  <2>2. CASE DeleteManifest(w)
    <3> DEFINE s == [thread[w] EXCEPT !.at = "deleted"]
    <3>1. Goto(w, s)
      BY <2>2 DEF DeleteManifest
    <3>2. s.name = n /\ s.at = "deleted"
      BY <1>2
    <3>3. s # Idle
      BY <3>2 DEF Idle
    <3> QED BY <3>1, <3>2, <3>3
  <2> QED BY <2>1, <2>2
<1>5. \A t \in Threads : thread'[t] = thread[t] \/ NameOf(thread'[t]) \cap {n} # {}
  BY <1>4 DEF Goto, Exact, ThreadsFit, NameOf
<1>6. DOMAIN blocks \ {<<n, i>>} \subseteq DOMAIN blocks'
  BY <1>3 DEF DeleteChunk, DeleteManifest, Chunks!Drop
<1>7. DOMAIN manifests \ {n} \subseteq DOMAIN manifests'
  BY <1>3 DEF DeleteChunk, DeleteManifest, Dict!Drop
<1> HIDE DEF k
<1>8. \A c1 \in DOMAIN blocks : c1[1] \notin {n} => c1 \in DOMAIN blocks'
  BY <1>6
<1>9. Taken({n})
  BY <1>3 DEF k
<1> QED BY <1>5, <1>7, <1>8, <1>9, SomethingTaken

LEMMA EvictReliable ==
  ASSUME Exact, Reliable, NEW w \in Writers, NEW k \in Names, Evict(w, k), Taken({k})
  PROVE  Reliable'
<1>1. thread'[w] = [at |-> "evict", name |-> k]
  BY Moved DEF Evict, Threads
<1>2. \A t \in Threads : thread'[t] = thread[t] \/ NameOf(thread'[t]) \cap {k} # {}
  <2>1. [at |-> "evict", name |-> k] # Idle
    BY DEF Idle
  <2> QED BY <1>1, <2>1 DEF Evict, Goto, Exact, ThreadsFit, NameOf
<1> QED BY <1>2, SomethingTaken DEF Evict

LEMMA ClearReliable ==
  ASSUME Exact, Reliable, Clear, UNCHANGED index, Taken(Names)
  PROVE  Reliable'
<1>1. \A c \in DOMAIN blocks : c[1] \in Names
  BY DEF Exact, StoreExact
<1>2. DOMAIN manifests \subseteq Names
  BY DEF Exact, StoreExact
<1> QED BY <1>1, <1>2, SomethingTaken DEF Clear

LEMMA LostReliable ==
  ASSUME Exact, Reliable, NEW c \in DOMAIN blocks, BlockLost(c), UNCHANGED index, Taken({c[1]})
  PROVE  Reliable'
<1>1. c[1] \in Names
  BY DEF Exact, StoreExact
<1>2. DOMAIN blocks' = DOMAIN blocks \ {c} /\ UNCHANGED <<manifests, thread>>
  BY DEF BlockLost, Chunks!Drop
<1>3. {c[1]} \in SUBSET Names
  BY <1>1
<1>4. \A d \in DOMAIN blocks : d[1] \notin {c[1]} => d \in DOMAIN blocks'
  BY <1>2
<1> QED BY <1>2, <1>3, <1>4, SomethingTaken

LEMMA RequestReliable ==
  ASSUME Exact, Reliable, NEW x \in Requests, RequestStep(x), UNCHANGED index, Quiet
  PROVE  Reliable'
<1>1. DOMAIN blocks \subseteq DOMAIN blocks' /\ UNCHANGED <<manifests, thread>>
  BY DEF RequestStep, SpillSends, RequestStored, SpillEnd, RequestEnds, Chunks!Store
<1>2. SureTyped'
  BY DEF Reliable, SureTyped, Quiet
<1> QED BY <1>1, <1>2, NothingTaken DEF Quiet

\* A put that sends its next chunk relies on the chunks before it.
LEMMA PutSendsReliable ==
  ASSUME Exact, Reliable, NEW w \in Writers, PutSends(w), UNCHANGED index, Quiet
  PROVE  Reliable'
<1>1. UNCHANGED <<blocks, manifests, thread>>
  BY DEF PutSends
<1>2. SureTyped'
  BY DEF Reliable, SureTyped, Quiet
<1> QED BY <1>1, <1>2, NothingTaken DEF Quiet

LEMMA FetchCalledReliable ==
  ASSUME Exact, Reliable, NEW r \in Readers, NEW k \in Names, FetchMiss(r, k) \/ FetchHit(r, k),
         Starts(r, sure[k])
  PROVE  Reliable'
<1>1. PICK s : Goto(r, s) /\ s \in {[at |-> "miss", name |-> k], [at |-> "found", name |-> k]}
  BY DEF FetchMiss, FetchHit
<1>2. UNCHANGED <<blocks, manifests, index>> /\ sure' = sure
  BY DEF FetchMiss, FetchHit, Starts
<1>3. thread'[r] = s
  BY <1>1, Moved DEF Threads
<1>4. /\ safe' \in [Threads -> BOOLEAN] /\ \A u \in Threads \ {r} : safe'[u] = safe[u]
      /\ safe'[r] = sure[k]
  BY DEF Starts, Reliable, SureTyped, Threads
<1>5. ASSUME sure[k] PROVE Relies(r)'
  <2>1. k \in index
    BY <1>5 DEF Reliable, SureHolds
  <2>2. Goto(r, [at |-> "found", name |-> k])
    BY <2>1 DEF FetchMiss, FetchHit
  <2>3. thread'[r] = [at |-> "found", name |-> k]
    BY <2>2, Moved DEF Threads
  <2> QED BY <1>2, <1>5, <2>3 DEF Relies
<1> QED BY <1>1, <1>2, <1>4, <1>5, ThreadMoves DEF Threads

LEMMA FetchObjectReliable ==
  ASSUME Exact, Reliable, NEW r \in Readers, FetchObject(r), Quiet
  PROVE  Reliable'
<1> DEFINE k == thread[r].name
<1>1. KindOK(thread[r]) /\ thread[r].at = "found"
  BY ThreadKind DEF Exact, Threads, FetchObject
<1>2. k \in Names
  BY <1>1, NameTyped DEF KindOK
<1> HIDE DEF k
<1>3. PICK s : Goto(r, s) /\ (k \in DOMAIN manifests => s.at = "get" /\ s.name = k)
  BY DEF FetchObject, GetObject, k
<1>4. UNCHANGED <<blocks, manifests, index>>
  BY DEF FetchObject, GetObject
<1>5. ASSUME safe[r] PROVE Relies(r)'
  <2>1. sure[k]
    BY <1>1, <1>5 DEF Reliable, SafeHolds, Relies, Threads, k
  <2>2. k \in DOMAIN manifests
    BY <1>2, <2>1 DEF Reliable, SureHolds, Whole
  <2>3. thread'[r].at = "get" /\ thread'[r].name = k
    BY <1>3, <2>2, Moved DEF Threads
  <2> QED BY <2>1, <2>3 DEF Relies, Quiet
<1> QED BY <1>3, <1>4, <1>5, QuietReliable DEF Threads

LEMMA FetchReliable ==
  ASSUME Exact, Reliable, NEW r \in Readers, NEW j, Fetch(r, j), UNCHANGED index, Quiet
  PROVE  Reliable'
<1> DEFINE k == thread[r].name
<1>1. KindOK(thread[r]) /\ thread[r].at = "get" /\ j \in DOMAIN thread[r].parts
  BY ThreadKind DEF Exact, Threads, Fetch, Fetching
<1>2. k \in Names /\ j \in 0 .. (Count(k) - 1)
  <2>1. Getting(thread[r])
    BY <1>1 DEF KindOK
  <2>2. PICK n \in Names, i \in Nat : \E p \in [0 .. (Count(n) - 1) -> Seq(Byte) \cup {None}] :
            thread[r] = [at |-> "get", name |-> n, chunks |-> Count(n), parts |-> p,
                         joined |-> i, out |-> Prefix(n, i)]
    BY <2>1 DEF Getting
  <2>3. thread[r].name = n /\ DOMAIN thread[r].parts = 0 .. (Count(n) - 1)
    BY <2>2
  <2> QED BY <1>1, <2>3
<1> HIDE DEF k
<1>3. UNCHANGED <<blocks, manifests, index>>
  BY DEF Fetch
<1>4. PICK s : Goto(r, s)
  BY DEF Fetch
<1>5. ASSUME safe[r] PROVE Relies(r)'
  <2>1. sure[k]
    BY <1>1, <1>5 DEF Reliable, SafeHolds, Relies, Threads, k
  <2>2. j \in Nat /\ j < Count(k)
    BY <1>2, CountCovers
  <2>3. <<k, j>> \in DOMAIN blocks
    BY <1>2, <2>1, <2>2 DEF Reliable, SureHolds, Whole
  <2>4. thread'[r] = [thread[r] EXCEPT !.parts[j] = blocks[<<k, j>>].data]
    BY <2>3, Moved DEF Fetch, Threads, k
  <2>5. thread'[r].at = "get" /\ thread'[r].name = k
    <3>1. \A q : [thread[r] EXCEPT !.parts[j] = q].at = thread[r].at
                 /\ [thread[r] EXCEPT !.parts[j] = q].name = thread[r].name
      <4>1. Getting(thread[r])
        BY <1>1 DEF KindOK
      <4>2. PICK n, i, p, c, o : thread[r] = [at |-> "get", name |-> n, chunks |-> c, parts |-> p,
                                             joined |-> i, out |-> o]
        BY <4>1 DEF Getting
      <4> QED BY <4>2
    <3> QED BY <1>1, <2>4, <3>1 DEF k
  <2> QED BY <2>1, <2>5 DEF Relies, Quiet
<1> QED BY <1>3, <1>4, <1>5, QuietReliable DEF Threads

\* The steps after the chunks are there, and the one that finds a peer dead.
LEMMA GetGoesOnReliable ==
  ASSUME Exact, Reliable, NEW r \in Readers, GetJoin(r) \/ GetDone(r) \/ ReadUnreachable(r),
         UNCHANGED index, Quiet
  PROVE  Reliable'
<1>1. KindOK(thread[r])
  BY ThreadKind DEF Exact, Threads
<1>2. thread[r].at = "get" /\ UNCHANGED <<blocks, manifests, index>>
  BY <1>1 DEF GetJoin, GetDone, ReadUnreachable, KindOK
<1>3. PICK n, i, p, c, o : thread[r] = [at |-> "get", name |-> n, chunks |-> c, parts |-> p,
                                       joined |-> i, out |-> o]
  <2>1. Getting(thread[r])
    BY <1>1, <1>2 DEF KindOK
  <2> QED BY <2>1 DEF Getting
<1>4. CASE GetJoin(r)
  <2>1. PICK m, q : Goto(r, [thread[r] EXCEPT !.joined = m, !.out = q])
    BY <1>4 DEF GetJoin
  <2>2. [thread[r] EXCEPT !.joined = m, !.out = q].at = "get"
        /\ [thread[r] EXCEPT !.joined = m, !.out = q].name = thread[r].name
    BY <1>3
  <2>3. thread'[r].at = "get" /\ thread'[r].name = thread[r].name
    BY <2>1, <2>2, Moved DEF Threads
  <2>4. safe[r] => Relies(r)'
    BY <1>2, <2>3 DEF Relies, Quiet, Reliable, SafeHolds, Threads
  <2> QED BY <1>2, <2>1, <2>4, QuietReliable DEF Threads
<1>5. CASE GetDone(r)
  <2> DEFINE s == Got(WholeObject, thread[r].name, thread[r].out)
  <2>1. Goto(r, s)
    BY <1>5 DEF GetDone
  <2>2. s.at = "got"
    BY DEF Got
  <2>3. Relies(r)'
    BY <2>1, <2>2, Moved DEF Relies, Threads
  <2> HIDE DEF s
  <2> QED BY <1>2, <2>1, <2>3, QuietReliable DEF Threads
<1>6. CASE ReadUnreachable(r)
  <2> DEFINE s == Raised(WholeObject, thread[r].name, "unreachable")
  <2>1. Goto(r, s)
    BY <1>2, <1>6 DEF ReadUnreachable
  <2>2. s.at = "raised" /\ s.why = "unreachable"
    BY DEF Raised
  <2>3. Relies(r)'
    BY <2>1, <2>2, Moved DEF Relies, Threads
  <2> HIDE DEF s
  <2> QED BY <1>2, <2>1, <2>3, QuietReliable DEF Threads
<1> QED BY <1>4, <1>5, <1>6

LEMMA PutFailsReliable ==
  ASSUME Exact, Reliable, NEW w \in Writers, PutFails(w), UNCHANGED <<index, sure>>, Ends(w)
  PROVE  Reliable'
<1>1. DOMAIN blocks \subseteq DOMAIN blocks'
  BY DEF PutFails
<1> QED BY <1>1, EndsReliable DEF PutFails, Threads

LEMMA ReturnReliable ==
  ASSUME Exact, Reliable, NEW t \in Threads, KVReturn(t), Ends(t), UNCHANGED sure
  PROVE  Reliable'
  BY EndsReliable DEF KVReturn

LEMMA StepReliable ==
  ASSUME Exact, Reliable, HKVNext
  PROVE  Reliable'
<1>1. ASSUME NEW w \in Writers, HKVWriterStep(w) PROVE Reliable'
  BY <1>1, StoreReliable, EvictReliable, StoreIndexedReliable, EvictObjectReliable, ClearReliable,
     PutSendsReliable, PutChunkReliable, PutManifestReliable, PutFailsReliable, DeleteReliable, ReturnReliable
     DEF HKVWriterStep, Threads
<1>2. ASSUME NEW r \in Readers, HKVReaderStep(r) PROVE Reliable'
  BY <1>2, FetchCalledReliable, FetchObjectReliable, FetchReliable, GetGoesOnReliable, NoRanges,
     ReturnReliable
     DEF HKVReaderStep, ReaderGoesOn, FetchNext, Threads
<1> QED BY <1>1, <1>2, RequestReliable, LostReliable DEF HKVNext

\* The history only watches.
LEMMA HistoryWatches == HKVSpec => KVSpec
<1>1. HKVInit => KVInit
  BY DEF HKVInit
<1>2. [HKVNext]_hkvars => [KVNext]_kvars
  BY DEF HKVNext, HKVWriterStep, HKVReaderStep, hkvars, KVNext, KVWriterStep, KVReaderStep,
         WriterGoesOn
<1> QED BY <1>1, <1>2, PTL DEF HKVSpec, KVSpec

LEMMA ReliableHolds == HKVSpec => []Reliable
<1>1. HKVInit => Reliable
  <2> SUFFICES ASSUME HKVInit PROVE Reliable
    OBVIOUS
  <2>1. SureTyped /\ \A k \in Names : ~sure[k]
    BY DEF HKVInit, SureTyped
  <2>2. \A t \in Threads : ~safe[t]
    BY DEF HKVInit
  <2> QED BY <2>1, <2>2 DEF Reliable, SureHolds, SafeHolds
<1>2. Exact /\ Exact' /\ Reliable /\ [HKVNext]_hkvars => Reliable'
  <2> SUFFICES ASSUME Exact, Reliable, [HKVNext]_hkvars PROVE Reliable'
    OBVIOUS
  <2>1. CASE UNCHANGED hkvars
    <3>1. SureTyped'
      BY <2>1 DEF hkvars, Reliable, SureTyped
    <3> QED BY <2>1, <3>1, NothingTaken DEF hkvars, kvars, vars
  <2> QED BY <2>1, StepReliable
<1> QED BY <1>1, <1>2, ExactHolds, HistoryWatches, PTL DEF HKVSpec

\* A prefix of which nothing was taken since it was stored is a hit: fetch
\* neither misses it nor finds a part of it missing (PrefixKVStore.fetch).
THEOREM StoredServed == HKVSpec => []StoredIsServed
<1>1. Reliable => StoredIsServed
  BY DEF Reliable, SafeHolds, Relies, StoredIsServed, Threads
<1> QED BY <1>1, ReliableHolds, PTL

=============================================================================
