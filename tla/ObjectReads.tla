---------------------------- MODULE ObjectReads ----------------------------
(***************************************************************************)
(* What reading an object may answer.  Objects with history variables: the *)
(* steps are those of Objects, and the history only watches them.          *)
(*                                                                         *)
(* A name is whole while its manifest and all its chunks are those of one  *)
(* put_object.  It becomes so when a put returns that was the last         *)
(* operation to begin on the name and during which no other one touched    *)
(* its chunks, and it ends with the first chunk that is put, deleted,      *)
(* cleared or lost.  A put that fails before it sends or stores its first  *)
(* chunk leaves the name whole; one that fails later does not.             *)
(*                                                                         *)
(* A chunk that is put while a PUT of other bytes for it is under way, or  *)
(* deleted while a spill of it is, is crossed: what it was may come back,  *)
(* and nothing is claimed of the name until the next operation on it.      *)
(***************************************************************************)
EXTENDS Objects

ASSUME ObjectReadConstants == None \notin Writers

VARIABLES
    whole,      \* per name: the contents it has as a whole, or None
    owner,      \* per name: the writer whose operation on it is alone and has
                \* not been crossed, or None
    steady      \* per reader: what its name has been all through its read

hvars == <<vars, whole, owner, steady>>

\* Writer w begins an operation on name n: whoever was on it is not alone.
Begins(w, n) == owner' = [owner EXCEPT ![n] = w] /\ UNCHANGED whole

\* Writer w changes a chunk of its name, or takes its manifest away.
Touches(w) ==
    LET n == thread[w].name
    IN  /\ whole' = [whole EXCEPT ![n] = None]
        /\ owner' = [owner EXCEPT ![n] = IF @ = w THEN w ELSE None]

\* The chunks of the names in ns change with no operation on the name.
Disturbs(ns) ==
    /\ whole' = [n \in Names |-> IF n \in ns THEN None ELSE whole[n]]
    /\ owner' = [n \in Names |-> IF n \in ns THEN None ELSE owner[n]]

\* Writer w puts its next chunk, which a PUT under way may yet replace.
PutCrossed(w) ==
    \E x \in Requests :
        sent[x] # Idle /\ sent[x].key = NextKey(w) /\ sent[x].data # NextChunk(w)

\* Writer w deletes its next chunk, which a spill may enter again.
DeleteCrossed(w) ==
    \E x \in Requests : sent[x].at \in {"spill", "stored"} /\ sent[x].key = NextKey(w)

\* Writer w enters the manifest of its name.
Enters(w) ==
    LET n == thread[w].name
    IN  /\ whole' = [whole EXCEPT
                        ![n] = IF owner[n] = w THEN thread[w].data ELSE None]
        /\ owner' = [owner EXCEPT ![n] = IF @ = w THEN w ELSE None]

Nothing == UNCHANGED <<whole, owner>>

\* A read that is in progress, or has just begun or ended.
Watch ==
    steady' = [r \in Readers |->
        IF thread'[r] = Idle THEN None
        ELSE LET now == whole'[thread'[r].name]
             IN  IF thread[r] = Idle \/ now = steady[r] THEN now ELSE None]

HInit ==
    /\ Init
    /\ whole = [n \in Names |-> None]
    /\ owner = [n \in Names |-> None]
    /\ steady = [r \in Readers |-> None]

HWriterStep(w) ==
    \/ /\ thread[w] = Idle
       /\ \E n \in Names :
            /\ \/ \E d \in Data, cb \in ChunkSizes : PutObject(w, n, d, cb)
               \/ DeleteObject(w, n)
            /\ Begins(w, n)
    \/ thread[w] = Idle /\ Clear /\ Disturbs(Names)
    \/ PutSends(w) /\ Touches(w)
    \/ PutChunk(w) /\ IF PutCrossed(w) THEN Disturbs({thread[w].name}) ELSE Touches(w)
    \/ PutFails(w) /\ Nothing
    \/ PutManifest(w) /\ Enters(w)
    \/ DeleteChunk(w) /\ IF DeleteCrossed(w) THEN Disturbs({thread[w].name}) ELSE Touches(w)
    \/ DeleteManifest(w) /\ Touches(w)
    \/ Return(w) /\ Nothing

HNext ==
    \/ \E w \in Writers : HWriterStep(w) /\ Watch
    \/ \E r \in Readers : ReaderStep(r) /\ Nothing /\ Watch
    \/ \E x \in Requests : RequestStep(x) /\ Nothing /\ Watch
    \/ \E c \in DOMAIN blocks : BlockLost(c) /\ Disturbs({c[1]}) /\ Watch

HSpec == HInit /\ [][HNext]_hvars

-----------------------------------------------------------------------------
\* What a read that asks for ask should return of contents d.
Wanted(ask, d) ==
    IF ask.kind = "object" THEN d
    ELSE LET unit == IF ask.kind = "rows" THEN Row[d] ELSE 1
         IN  Slice(d, ask.off * unit, (ask.off + ask.len) * unit)

\* A read of a name that is whole all the while returns exactly the bytes
\* asked for: the whole object put together in order whatever the order of
\* its fetches, or the part asked for, across chunk boundaries and cut at the
\* end of the object (get_object, get_object_range, get_rows).
ReadExact ==
    \A r \in Readers :
        thread[r].at = "got" /\ steady[r] # None =>
            thread[r].data = Wanted(thread[r].ask, steady[r])

\* Such a read finds every chunk where _index says it is: unless the peer that
\* has one is offline or the call to it raises, it raises MissingBlock for
\* nothing but an offset before the start of the object.
ReadServed ==
    \A r \in Readers :
        thread[r].at = "raised" /\ thread[r].why = "missing" /\ steady[r] # None =>
            thread[r].ask # WholeObject /\ thread[r].ask.off < 0

\* After delete_object nothing is left of the object, unless another operation
\* on the name came in between or a spill had one of its chunks under way: no
\* manifest, and none of the chunks that the manifest named.  (Chunks of a
\* longer object that was stored under the name before stay: no manifest names
\* them.)
DeleteRemoves ==
    \A w \in Writers :
        thread[w].at = "deleted" /\ owner[thread[w].name] = w =>
            /\ thread[w].name \notin DOMAIN manifests
            /\ \A i \in 0 .. (thread[w].chunks - 1) :
                <<thread[w].name, i>> \notin DOMAIN blocks
=============================================================================
