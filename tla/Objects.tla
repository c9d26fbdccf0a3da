------------------------------ MODULE Objects ------------------------------
(***************************************************************************)
(* Objects that are kept as chunks (put_object, get_object,                *)
(* get_object_range, delete_object and clear of memcloud/client.py), and   *)
(* the rows of tensors read from them (TensorStore of memcloud/llm.py).    *)
(*                                                                         *)
(* No lock covers an operation on an object: put_object stores its chunks  *)
(* one by one and enters the manifest last, get_object takes the manifest  *)
(* and then fetches the chunks from a pool of threads, in any order, and   *)
(* delete_object drops the chunks one by one and the manifest last.  A     *)
(* step here is one operation on a block, or one on the manifests.         *)
(*                                                                         *)
(* Blocks are seen through what MemCloud answers for them (modules MemCloud *)
(* and MemCloudReads): what was last entered under their name, here or at  *)
(* a peer, until it is deleted or lost there.  No lock is held while a PUT *)
(* is under way: spill sends a block as it was and enters it at the peer   *)
(* later, whatever has been put or deleted in between, and a PUT that      *)
(* outlives its call may still replace what the peer holds.                *)
(*                                                                         *)
(* Left out: where a manifest says its chunks were put, TensorStore._meta  *)
(* (nothing reads it), reshaping, counters and events.                     *)
(***************************************************************************)
EXTENDS Integers, Sequences

CONSTANTS
    Names,      \* names of objects
    Byte,       \* what an object is a sequence of
    Data,       \* contents that objects are given
    Row,        \* the bytes in one row of each, as a tensor
    ChunkSizes, \* chunk_bytes that put_object is called with
    Ranges,     \* <<offset, length>> that reads of a part ask for
    Writers,    \* threads that put, delete and clear
    Readers,    \* threads that get
    Requests,   \* PUTs that are under way at once: those of spills, and those
                \* of puts that the peer carries out before the put enters the
                \* chunk, or after it gave up
    None        \* no value

ASSUME ObjectConstants ==
    /\ Data \subseteq Seq(Byte)
    /\ Row \in [Data -> Nat]
    /\ ChunkSizes \subseteq Nat \ {0}
    /\ Ranges \subseteq Int \X Int
    /\ Writers \cap Readers = {}
    /\ None \notin Seq(Byte)

VARIABLES
    blocks,     \* the chunks MemCloud holds, by <<name, number>>
    manifests,  \* _manifests
    sent,       \* the PUTs under way
    thread      \* where each thread is in its operation

vars == <<blocks, manifests, sent, thread>>

Threads == Writers \cup Readers
Idle == [at |-> "idle"]
Places == {"local", "peer"}

Chunks == INSTANCE Dictionaries WITH Keys <- Names \X Nat, MaxSize <- 0
Dict == INSTANCE Dictionaries WITH Keys <- Names, MaxSize <- 0

Min(a, b) == IF a <= b THEN a ELSE b

\* data[from:to], for 0 <= from
Slice(d, from, to) == SubSeq(d, from + 1, Min(Len(d), to))

\* Mutant: rounds the number of chunks down.
ChunkCountDown(d, cb) == IF Len(d) < cb THEN 1 ELSE Len(d) \div cb

\* Mutant: no chunk for an empty object.
ChunkCountZero(d, cb) == (Len(d) + cb - 1) \div cb

\* An empty object has one chunk, of no bytes.
ChunkCount(d, cb) ==
    LET n == (Len(d) + cb - 1) \div cb IN IF n = 0 THEN 1 ELSE n

Chunk(d, cb, i) == Slice(d, i * cb, (i + 1) * cb)

ManifestOf(d, cb) ==
    [size |-> Len(d), chunk_bytes |-> cb, chunks |-> ChunkCount(d, cb),
     row |-> Row[d]]

AtPeer(c) == c \in DOMAIN blocks /\ blocks[c].place = "peer"

\* A PUT of data d under c: at is "put", "spill", or "stored" when the peer has
\* carried out that of a spill, which then enters the block.
Request(at, c, d) == [at |-> at, key |-> c, data |-> d]

Send(x, at, c, d) == sent[x] = Idle /\ sent' = [sent EXCEPT ![x] = Request(at, c, d)]

Goto(t, s) == thread' = [thread EXCEPT ![t] = s]

Init ==
    /\ blocks = Chunks!Empty
    /\ manifests = Dict!Empty
    /\ sent = [x \in Requests |-> Idle]
    /\ thread = [t \in Threads |-> Idle]

-----------------------------------------------------------------------------
(* put_object                                                              *)

PutObject(w, n, d, cb) ==
    /\ Goto(w, [at |-> "put", name |-> n, data |-> d, cb |-> cb, next |-> 0])
    /\ UNCHANGED <<blocks, manifests, sent>>

MoreToPut(w) ==
    /\ thread[w].at = "put"
    /\ thread[w].next < ChunkCount(thread[w].data, thread[w].cb)

NextKey(w) == <<thread[w].name, thread[w].next>>
NextChunk(w) == Chunk(thread[w].data, thread[w].cb, thread[w].next)

\* The peer has not answered the PUT, or the put sends it once more.
PutSends(w) ==
    /\ MoreToPut(w)
    /\ \E x \in Requests : Send(x, "put", NextKey(w), NextChunk(w))
    /\ UNCHANGED <<blocks, manifests, thread>>

PutChunk(w) ==
    /\ MoreToPut(w)
    /\ \E p \in Places :
        blocks' = Chunks!Store(blocks, NextKey(w), [data |-> NextChunk(w), place |-> p])
    /\ Goto(w, [thread[w] EXCEPT !.next = @ + 1])
    /\ UNCHANGED <<manifests, sent>>

\* NoCapacity, or a call that raises, whose PUT may be under way.
PutFails(w) ==
    /\ MoreToPut(w)
    /\ Goto(w, Idle)
    /\ UNCHANGED <<blocks, manifests, sent>>

\* Mutant: enters the manifest before the last chunk is there.
PutManifestEarly(w) ==
    /\ thread[w].at = "put"
    /\ thread[w].next + 1 >= ChunkCount(thread[w].data, thread[w].cb)
    /\ manifests' = Dict!Store(manifests, thread[w].name,
                               ManifestOf(thread[w].data, thread[w].cb))
    /\ Goto(w, [at |-> "stored", name |-> thread[w].name])
    /\ UNCHANGED <<blocks, sent>>

PutManifest(w) ==
    /\ thread[w].at = "put"
    /\ ~MoreToPut(w)
    /\ manifests' = Dict!Store(manifests, thread[w].name,
                               ManifestOf(thread[w].data, thread[w].cb))
    /\ Goto(w, [at |-> "stored", name |-> thread[w].name])
    /\ UNCHANGED <<blocks, sent>>

-----------------------------------------------------------------------------
(* delete_object, clear                                                    *)

\* For a name without a manifest there is nothing to do.
DeleteObject(w, n) ==
    /\ Goto(w, IF n \in DOMAIN manifests
               THEN [at |-> "delete", name |-> n, chunks |-> manifests[n].chunks,
                     next |-> 0]
               ELSE Idle)
    /\ UNCHANGED <<blocks, manifests, sent>>

DeleteChunk(w) ==
    /\ thread[w].at = "delete"
    /\ thread[w].next < thread[w].chunks
    /\ blocks' = Chunks!Drop(blocks, NextKey(w))
    /\ Goto(w, [thread[w] EXCEPT !.next = @ + 1])
    /\ UNCHANGED <<manifests, sent>>

\* Mutant: leaves the last chunk.
DeleteManifestEarly(w) ==
    /\ thread[w].at = "delete"
    /\ thread[w].next + 1 >= thread[w].chunks
    /\ manifests' = Dict!Drop(manifests, thread[w].name)
    /\ Goto(w, [thread[w] EXCEPT !.at = "deleted"])
    /\ UNCHANGED <<blocks, sent>>

DeleteManifest(w) ==
    /\ thread[w].at = "delete"
    /\ thread[w].next >= thread[w].chunks
    /\ manifests' = Dict!Drop(manifests, thread[w].name)
    /\ Goto(w, [thread[w] EXCEPT !.at = "deleted"])
    /\ UNCHANGED <<blocks, sent>>

\* _manifests is emptied in the critical section that empties the index.
Clear ==
    /\ blocks' = Chunks!Empty
    /\ manifests' = Dict!Empty
    /\ UNCHANGED <<sent, thread>>

-----------------------------------------------------------------------------
(* get_object                                                              *)

\* why is "missing" if there is no manifest, no place in _index, or no block at
\* the peer; "unreachable" if the peer is offline, for which MissingBlock is
\* raised too, or the call raises.
Raised(ask, n, why) == [at |-> "raised", ask |-> ask, name |-> n, why |-> why]
Got(ask, n, d) == [at |-> "got", ask |-> ask, name |-> n, data |-> d]

WholeObject == [kind |-> "object"]

GetObject(r, n) ==
    /\ Goto(r, IF n \in DOMAIN manifests
               THEN [at |-> "get", name |-> n, chunks |-> manifests[n].chunks,
                     parts |-> [i \in 0 .. (manifests[n].chunks - 1) |-> None],
                     joined |-> 0, out |-> <<>>]
               ELSE Raised(WholeObject, n, "missing"))
    /\ UNCHANGED <<blocks, manifests, sent>>

Fetching(r, i) ==
    /\ thread[r].at = "get"
    /\ i \in DOMAIN thread[r].parts
    /\ thread[r].parts[i] = None

\* Mutant: a chunk that is missing is taken to be empty.
FetchLenient(r, i) ==
    LET key == <<thread[r].name, i>>
    IN  /\ Fetching(r, i)
        /\ Goto(r, [thread[r] EXCEPT
                !.parts[i] = IF key \in DOMAIN blocks THEN blocks[key].data ELSE <<>>])
        /\ UNCHANGED <<blocks, manifests, sent>>

Fetch(r, i) ==
    LET key == <<thread[r].name, i>>
    IN  /\ Fetching(r, i)
        /\ Goto(r, IF key \in DOMAIN blocks
                   THEN [thread[r] EXCEPT !.parts[i] = blocks[key].data]
                   ELSE Raised(WholeObject, thread[r].name, "missing"))
        /\ UNCHANGED <<blocks, manifests, sent>>

AllFetched(r) == \A i \in DOMAIN thread[r].parts : thread[r].parts[i] # None

\* Mutant: joins before the last fetch is over.
GetJoinEarly(r) ==
    LET part == thread[r].parts[thread[r].joined]
    IN  /\ thread[r].at = "get"
        /\ thread[r].joined < thread[r].chunks
        /\ Goto(r, [thread[r] EXCEPT !.joined = @ + 1,
                       !.out = @ \o (IF part = None THEN <<>> ELSE part)])
        /\ UNCHANGED <<blocks, manifests, sent>>

\* The parts are joined when the pool has fetched them all.
GetJoin(r) ==
    LET part == thread[r].parts[thread[r].joined]
    IN  /\ thread[r].at = "get"
        /\ AllFetched(r)
        /\ thread[r].joined < thread[r].chunks
        /\ Goto(r, [thread[r] EXCEPT !.joined = @ + 1,
                       !.out = @ \o (IF part = None THEN <<>> ELSE part)])
        /\ UNCHANGED <<blocks, manifests, sent>>

GetDone(r) ==
    /\ thread[r].at = "get"
    /\ thread[r].joined = thread[r].chunks
    /\ Goto(r, Got(WholeObject, thread[r].name, thread[r].out))
    /\ UNCHANGED <<blocks, manifests, sent>>

-----------------------------------------------------------------------------
(* get_object_range, TensorStore.get_rows                                  *)

\* Where get_object_range(n, off, len) stands when it has read the manifest.
RangeCalled(ask, n, off, len) ==
    IF n \in DOMAIN manifests
    THEN [at |-> "range", ask |-> ask, name |-> n, cb |-> manifests[n].chunk_bytes,
          pos |-> off, end |-> Min(manifests[n].size, off + len), out |-> <<>>]
    ELSE Raised(ask, n, "missing")

GetRange(r, n, off, len) ==
    /\ Goto(r, RangeCalled([kind |-> "range", off |-> off, len |-> len], n, off, len))
    /\ UNCHANGED <<blocks, manifests, sent>>

\* Mutant: reads from the chunk's start.
RangePieceNoOffset(r) ==
    LET s    == thread[r]
        idx  == s.pos \div s.cb
        take == Min(s.cb, s.end - s.pos)
        key  == <<s.name, idx>>
    IN  /\ s.at = "range"
        /\ s.pos < s.end
        /\ Goto(r, IF key \in DOMAIN blocks
                   THEN [s EXCEPT !.pos = @ + take,
                                  !.out = @ \o Slice(blocks[key].data, 0, take)]
                   ELSE Raised(s.ask, s.name, "missing"))
        /\ UNCHANGED <<blocks, manifests, sent>>

\* One call of get_range, for the rest of the chunk at pos or for what is
\* still wanted of it.  No block has a negative number.
RangePiece(r) ==
    LET s    == thread[r]
        idx  == s.pos \div s.cb
        from == s.pos - idx * s.cb
        take == Min(s.cb - from, s.end - s.pos)
        key  == <<s.name, idx>>
    IN  /\ s.at = "range"
        /\ s.pos < s.end
        /\ Goto(r, IF key \in DOMAIN blocks
                   THEN [s EXCEPT !.pos = @ + take,
                                  !.out = @ \o Slice(blocks[key].data, from, from + take)]
                   ELSE Raised(s.ask, s.name, "missing"))
        /\ UNCHANGED <<blocks, manifests, sent>>

RangeDone(r) ==
    /\ thread[r].at = "range"
    /\ thread[r].pos >= thread[r].end
    /\ Goto(r, Got(thread[r].ask, thread[r].name, thread[r].out))
    /\ UNCHANGED <<blocks, manifests, sent>>

\* get_rows takes the length of a row from the manifest ...
GetRows(r, n, start, count) ==
    LET ask == [kind |-> "rows", off |-> start, len |-> count]
    IN  /\ Goto(r, IF n \in DOMAIN manifests
                   THEN [at |-> "rows", ask |-> ask, name |-> n,
                         row |-> manifests[n].row]
                   ELSE Raised(ask, n, "missing"))
        /\ UNCHANGED <<blocks, manifests, sent>>

\* ... and get_object_range then reads the manifest again.
RowsRange(r) ==
    LET s == thread[r]
    IN  /\ s.at = "rows"
        /\ Goto(r, RangeCalled(s.ask, s.name, s.ask.off * s.row, s.ask.len * s.row))
        /\ UNCHANGED <<blocks, manifests, sent>>

-----------------------------------------------------------------------------
\* The peer asked for a chunk is offline (MissingBlock), or the call raises.
ReadUnreachable(r) ==
    LET s == thread[r]
    IN  /\ \/ /\ s.at = "get"
              /\ \E i \in DOMAIN s.parts : Fetching(r, i) /\ AtPeer(<<s.name, i>>)
              /\ Goto(r, Raised(WholeObject, s.name, "unreachable"))
           \/ /\ s.at = "range"
              /\ s.pos < s.end
              /\ AtPeer(<<s.name, s.pos \div s.cb>>)
              /\ Goto(r, Raised(s.ask, s.name, "unreachable"))
        /\ UNCHANGED <<blocks, manifests, sent>>

Return(t) ==
    /\ thread[t].at \in {"stored", "deleted", "got", "raised"}
    /\ Goto(t, Idle)
    /\ UNCHANGED <<blocks, manifests, sent>>

-----------------------------------------------------------------------------
(* spill, and the PUTs under way                                           *)

\* spill reads a block that is here, and lets go of the lock.
SpillSends(x, c) ==
    /\ c \in DOMAIN blocks
    /\ blocks[c].place = "local"
    /\ Send(x, "spill", c, blocks[c].data)
    /\ UNCHANGED <<blocks, manifests, thread>>

\* The peers that carried out a spill's PUT of chunk c.
Holding(c) == {x \in Requests : sent[x].at = "stored" /\ sent[x].key = c}

\* A peer carries out a PUT.  It may be the one that has the block, and it may
\* be one that spills sent the block to.
RequestStored(x) ==
    /\ sent[x].at \in {"put", "spill"}
    /\ \/ UNCHANGED blocks
       \/ /\ AtPeer(sent[x].key)
          /\ blocks' = [blocks EXCEPT ![sent[x].key].data = sent[x].data]
    /\ \E same \in SUBSET Holding(sent[x].key) :
        sent' = [y \in Requests |->
            IF y = x THEN IF sent[x].at = "put" THEN Idle ELSE [sent[x] EXCEPT !.at = "stored"]
            ELSE IF y \in same THEN [sent[y] EXCEPT !.data = sent[x].data]
            ELSE sent[y]]
    /\ UNCHANGED <<manifests, thread>>

\* spill enters the block at the peer, whatever became of it here.  Its first
\* PUT may be under way still, if the peer answered the second.
SpillEnd(x) ==
    /\ sent[x].at = "stored"
    /\ blocks' = Chunks!Store(blocks, sent[x].key, [data |-> sent[x].data, place |-> "peer"])
    /\ sent' \in {[sent EXCEPT ![x] = Idle], [sent EXCEPT ![x].at = "put"]}
    /\ UNCHANGED <<manifests, thread>>

\* The PUT is refused or is lost, or the spill does not hear of it.
RequestEnds(x) ==
    /\ sent[x] # Idle
    /\ sent' = [sent EXCEPT ![x] = Idle]
    /\ UNCHANGED <<blocks, manifests, thread>>

\* A chunk at a peer goes: its worker restarts, or carries out a DEL that an
\* earlier delete or clear sent it.
BlockLost(c) ==
    /\ AtPeer(c)
    /\ blocks' = Chunks!Drop(blocks, c)
    /\ UNCHANGED <<manifests, sent, thread>>

RequestStep(x) ==
    \/ \E c \in DOMAIN blocks : SpillSends(x, c)
    \/ RequestStored(x)
    \/ SpillEnd(x)
    \/ RequestEnds(x)

-----------------------------------------------------------------------------
\* The steps of an operation that has been called.
WriterGoesOn(w) ==
    \/ PutSends(w)
    \/ PutChunk(w)
    \/ PutFails(w)
    \/ PutManifest(w)
    \/ DeleteChunk(w)
    \/ DeleteManifest(w)

FetchNext(r) ==
    /\ thread[r].at = "get"
    /\ \E i \in DOMAIN thread[r].parts : Fetch(r, i)

ReaderGoesOn(r) ==
    \/ FetchNext(r)
    \/ GetJoin(r)
    \/ GetDone(r)
    \/ RangePiece(r)
    \/ RangeDone(r)
    \/ RowsRange(r)
    \/ ReadUnreachable(r)

WriterStep(w) ==
    \/ /\ thread[w] = Idle
       /\ \E n \in Names :
            \/ \E d \in Data, cb \in ChunkSizes : PutObject(w, n, d, cb)
            \/ DeleteObject(w, n)
    \/ thread[w] = Idle /\ Clear
    \/ WriterGoesOn(w)
    \/ Return(w)

ReaderStep(r) ==
    \/ /\ thread[r] = Idle
       /\ \E n \in Names :
            \/ GetObject(r, n)
            \/ \E x \in Ranges : GetRange(r, n, x[1], x[2]) \/ GetRows(r, n, x[1], x[2])
    \/ ReaderGoesOn(r)
    \/ Return(r)

Next ==
    \/ \E w \in Writers : WriterStep(w)
    \/ \E r \in Readers : ReaderStep(r)
    \/ \E x \in Requests : RequestStep(x)
    \/ \E c \in DOMAIN blocks : BlockLost(c)

Spec == Init /\ [][Next]_vars

-----------------------------------------------------------------------------
Blocks == [data : Seq(Byte), place : Places]
Manifests == [size : Nat, chunk_bytes : Nat \ {0}, chunks : Nat \ {0}, row : Nat]

RequestStates ==
    {Idle} \cup [at : {"put", "spill", "stored"}, key : Names \X Nat, data : Seq(Byte)]

Asks == {WholeObject} \cup [kind : {"range", "rows"}, off : Int, len : Int]

PuttingState == [at : {"put"}, name : Names, data : Data, cb : Nat \ {0}, next : Nat]
DeletingState == [at : {"delete", "deleted"}, name : Names, chunks : Nat, next : Nat]
StoredState == [at : {"stored"}, name : Names]

WriterStates == {Idle} \cup PuttingState \cup DeletingState \cup StoredState

IsGetting(s) ==
    /\ s \in [at : {"get"}, name : Names, chunks : Nat \ {0}, parts : {s.parts},
              joined : Nat, out : Seq(Byte)]
    /\ s.parts \in [0 .. (s.chunks - 1) -> Seq(Byte) \cup {None}]
    /\ s.joined <= s.chunks

RangeState == [at : {"range"}, ask : Asks, name : Names, cb : Nat \ {0}, pos : Int,
               end : Int, out : Seq(Byte)]
RowsState == [at : {"rows"}, ask : Asks \ {WholeObject}, name : Names, row : Nat]
GotState == [at : {"got"}, ask : Asks, name : Names, data : Seq(Byte)]
RaisedState == [at : {"raised"}, ask : Asks, name : Names,
                why : {"missing", "unreachable"}]

ReaderStates == {Idle} \cup RangeState \cup RowsState \cup GotState \cup RaisedState

\* Types of the chunks, the manifests, the PUTs under way and the threads.
TypeOK ==
    /\ Chunks!IsDict(blocks, Blocks)
    /\ Dict!IsDict(manifests, Manifests)
    /\ sent \in [Requests -> RequestStates]
    /\ DOMAIN thread = Threads
    /\ \A w \in Writers : thread[w] \in WriterStates
    /\ \A r \in Readers :
        thread[r] \in ReaderStates \/ (thread[r].at = "get" /\ IsGetting(thread[r]))
=============================================================================
