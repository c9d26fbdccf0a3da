----------------------------- MODULE ImageCache -----------------------------
(***************************************************************************)
(* The frame cache (memcloud/imagecache.py): seed writes frames to the     *)
(* disk cold store and puts them into MemCloud, read serves a frame from   *)
(* memory or, if it is not there, from disk and verifies its CRC, reset    *)
(* empties the cache.  The HTTP API calls them from a thread per request.  *)
(*                                                                         *)
(* seed generates a frame from its number and the geometry it was asked    *)
(* for, so a geometry stands for a frame's contents and for its CRC.       *)
(*                                                                         *)
(* MemCloud is seen through what it answers: where a frame is and what it  *)
(* holds for it.  A frame at a peer may be lost with it, and reaching the  *)
(* peer may raise.  Left out: counters, latencies and the log.             *)
(***************************************************************************)
EXTENDS Integers

CONSTANTS
    Counts,     \* numbers of frames that seed is asked for
    Geometries, \* widths and heights that seed is asked for
    Torn,       \* contents of a file that is being, or was not fully, written
    Seeders,    \* threads that seed
    Readers,    \* threads that read
    Resetters,  \* threads that reset
    Drops,      \* what reset may be given for drop_disk
    WritesFail  \* TRUE: writing a file may fail half way (a full disk)

ASSUME ImageCacheConstants ==
    /\ Counts \subseteq Nat
    /\ Torn \notin Geometries
    /\ Drops \subseteq BOOLEAN
    /\ WritesFail \in BOOLEAN
    /\ Seeders \cap Readers = {}
    /\ Seeders \cap Resetters = {}
    /\ Readers \cap Resetters = {}

VARIABLES
    frames,     \* self.frames: the CRC each known frame must have
    disk,       \* the files of the cold store
    memory,     \* what MemCloud holds, and where
    seeding,    \* self.seeding
    thread      \* where each thread is in its operation

vars == <<frames, disk, memory, seeding, thread>>

Ids == UNION {0 .. (n - 1) : n \in Counts}
Idle == [at |-> "idle"]
Places == {"local", "peer"}

Dict == INSTANCE Dictionaries WITH Keys <- Ids, MaxSize <- 0

Threads == Seeders \cup Readers \cup Resetters

Goto(t, s) == thread' = [thread EXCEPT ![t] = s]

Init ==
    /\ frames = Dict!Empty
    /\ disk = Dict!Empty
    /\ memory = Dict!Empty
    /\ seeding = FALSE
    /\ thread = [t \in Threads |-> Idle]

-----------------------------------------------------------------------------
(* seed                                                                    *)

\* Mutant: does not look whether a seed is already running.
SeedStartAnyway(s, n, g) ==
    /\ thread[s] = Idle
    /\ seeding' = TRUE
    /\ Goto(s, [at |-> "file", next |-> 0, count |-> n, geometry |-> g])
    /\ UNCHANGED <<frames, disk, memory>>

SeedStart(s, n, g) ==
    /\ thread[s] = Idle
    /\ ~seeding
    /\ seeding' = TRUE
    /\ Goto(s, [at |-> "file", next |-> 0, count |-> n, geometry |-> g])
    /\ UNCHANGED <<frames, disk, memory>>

\* Mutant: starts on one frame too many.
SeedFilePastEnd(s) ==
    LET i == thread[s].next
    IN  /\ thread[s].at = "file"
        /\ i <= thread[s].count
        /\ Goto(s, [thread[s] EXCEPT !.at = "enter"])
        /\ disk' = Dict!Store(disk, i, thread[s].geometry)
        /\ UNCHANGED <<frames, memory, seeding>>

\* A file that is there is taken to be the frame; else one is opened ...
SeedFile(s) ==
    LET i == thread[s].next
    IN  /\ thread[s].at = "file"
        /\ i < thread[s].count
        /\ IF i \in DOMAIN disk
           THEN /\ Goto(s, [thread[s] EXCEPT !.at = "enter"])
                /\ UNCHANGED disk
           ELSE /\ Goto(s, [thread[s] EXCEPT !.at = "write"])
                /\ disk' = Dict!Store(disk, i, Torn)
        /\ UNCHANGED <<frames, memory, seeding>>

\* ... and written, unless it has been removed while open.
SeedWrite(s) ==
    LET i == thread[s].next
    IN  /\ thread[s].at = "write"
        /\ disk' = IF i \in DOMAIN disk
                   THEN Dict!Store(disk, i, thread[s].geometry) ELSE disk
        /\ Goto(s, [thread[s] EXCEPT !.at = "enter"])
        /\ UNCHANGED <<frames, memory, seeding>>

\* Mutant: enters the frame before its file is written.
SeedEnterEarly(s) ==
    /\ thread[s].at \in {"write", "enter"}
    /\ frames' = Dict!Store(frames, thread[s].next, thread[s].geometry)
    /\ Goto(s, [thread[s] EXCEPT !.at = "put"])
    /\ UNCHANGED <<disk, memory, seeding>>

SeedEnter(s) ==
    /\ thread[s].at = "enter"
    /\ frames' = Dict!Store(frames, thread[s].next, thread[s].geometry)
    /\ Goto(s, [thread[s] EXCEPT !.at = "put"])
    /\ UNCHANGED <<disk, memory, seeding>>

\* mc.put: the frame goes somewhere, or raises NoCapacity and stays on disk.
SeedPut(s) ==
    LET i == thread[s].next
    IN  /\ thread[s].at = "put"
        /\ \/ \E p \in Places : memory' =
                Dict!Store(memory, i, [at |-> p, holds |-> thread[s].geometry])
           \/ UNCHANGED memory
        /\ Goto(s, [thread[s] EXCEPT !.at = "file", !.next = i + 1])
        /\ UNCHANGED <<frames, disk, seeding>>

SeedDone(s) ==
    /\ thread[s].at = "file"
    /\ thread[s].next = thread[s].count
    /\ seeding' = FALSE
    /\ Goto(s, Idle)
    /\ UNCHANGED <<frames, disk, memory>>

\* Mutant: an exception leaves seeding set.
SeedRaisesKeepsFlag(s) ==
    /\ thread[s].at = "put" \/ (WritesFail /\ thread[s].at = "write")
    /\ Goto(s, Idle)
    /\ UNCHANGED <<frames, disk, memory, seeding>>

\* Any other exception ends the seed: a put that cannot reach the peer (which
\* may have stored the block, and matters if it held one before), or a full disk.
SeedRaises(s) ==
    LET i == thread[s].next
    IN  /\ \/ /\ thread[s].at = "put"
              /\ \/ UNCHANGED memory
                 \/ /\ i \in DOMAIN memory /\ memory[i].at = "peer"
                    /\ memory' = [memory EXCEPT ![i].holds = thread[s].geometry]
           \/ WritesFail /\ thread[s].at = "write" /\ UNCHANGED memory
        /\ seeding' = FALSE
        /\ Goto(s, Idle)
        /\ UNCHANGED <<frames, disk>>

-----------------------------------------------------------------------------
(* read                                                                    *)

\* The frame's CRC; a frame that is not known raises KeyError instead.
ReadMeta(r, i) ==
    /\ thread[r] = Idle
    /\ i \in DOMAIN frames
    /\ Goto(r, [at |-> "locate", frame |-> i, crc |-> frames[i]])
    /\ UNCHANGED <<frames, disk, memory, seeding>>

ReadLocate(r) ==
    /\ thread[r].at = "locate"
    /\ Goto(r, [thread[r] EXCEPT !.at =
            IF thread[r].frame \in DOMAIN memory THEN "get" ELSE "open"])
    /\ UNCHANGED <<frames, disk, memory, seeding>>

\* What read hands to its caller, and whether the CRC was the right one.
Serve(r, data, source) ==
    Goto(r, [at |-> "served", frame |-> thread[r].frame, source |-> source,
             verified |-> data = thread[r].crc])

ReadGet(r) ==
    LET i == thread[r].frame
    IN  /\ thread[r].at = "get"
        /\ i \in DOMAIN memory
        /\ Serve(r, memory[i].holds, memory[i].at)
        /\ UNCHANGED <<frames, disk, memory, seeding>>

\* Mutant: a block that is no longer there is an error.
ReadMissesRaises(r) ==
    /\ thread[r].at = "get"
    /\ thread[r].frame \notin DOMAIN memory
    /\ Goto(r, [at |-> "failed", frame |-> thread[r].frame, why |-> "missing"])
    /\ UNCHANGED <<frames, disk, memory, seeding>>

\* MissingBlock: the block has gone since location() was asked, or its owner
\* is known to be offline, or no longer has it.
ReadMisses(r) ==
    /\ thread[r].at = "get"
    /\ thread[r].frame \in DOMAIN memory => memory[thread[r].frame].at = "peer"
    /\ Goto(r, [thread[r] EXCEPT !.at = "open"])
    /\ UNCHANGED <<frames, disk, memory, seeding>>

\* The call to the owner raises, which read does not catch.
ReadUnreachable(r) ==
    /\ thread[r].at = "get"
    /\ thread[r].frame \in DOMAIN memory
    /\ memory[thread[r].frame].at = "peer"
    /\ Goto(r, [at |-> "failed", frame |-> thread[r].frame, why |-> "unreachable"])
    /\ UNCHANGED <<frames, disk, memory, seeding>>

ReadDisk(r) ==
    LET i == thread[r].frame
    IN  /\ thread[r].at = "open"
        /\ IF i \in DOMAIN disk
           THEN Serve(r, disk[i], "disk")
           ELSE Goto(r, [at |-> "failed", frame |-> i, why |-> "no file"])
        /\ UNCHANGED <<frames, disk, memory, seeding>>

ReadReturn(r) ==
    /\ thread[r].at \in {"served", "failed"}
    /\ Goto(r, Idle)
    /\ UNCHANGED <<frames, disk, memory, seeding>>

-----------------------------------------------------------------------------
(* reset, and what else happens to the blocks                              *)

\* mc.clear()
ResetMemory(t, drop) ==
    /\ thread[t] = Idle
    /\ memory' = Dict!Empty
    /\ Goto(t, [at |-> "reset", drop |-> drop])
    /\ UNCHANGED <<frames, disk, seeding>>

ResetFrames(t) ==
    /\ thread[t].at = "reset"
    /\ IF thread[t].drop
       THEN /\ disk' = [i \in DOMAIN disk \ DOMAIN frames |-> disk[i]]
            /\ frames' = Dict!Empty
       ELSE UNCHANGED <<disk, frames>>
    /\ Goto(t, Idle)
    /\ UNCHANGED <<memory, seeding>>

\* A frame in memory is spilled to a peer, or is deleted, or goes with its peer.
Moves(i) ==
    /\ i \in DOMAIN memory
    /\ \/ memory' = [memory EXCEPT ![i].at = "peer"]
       \/ memory' = Dict!Drop(memory, i)
    /\ UNCHANGED <<frames, disk, seeding, thread>>

SeedStep(s) ==
    \/ SeedFile(s) \/ SeedWrite(s) \/ SeedEnter(s) \/ SeedPut(s)
    \/ SeedDone(s) \/ SeedRaises(s)

Next ==
    \/ \E s \in Seeders :
        \/ \E n \in Counts, g \in Geometries : SeedStart(s, n, g)
        \/ SeedStep(s)
    \/ \E r \in Readers :
        \/ \E i \in Ids : ReadMeta(r, i)
        \/ ReadLocate(r) \/ ReadGet(r) \/ ReadMisses(r) \/ ReadUnreachable(r)
        \/ ReadDisk(r) \/ ReadReturn(r)
    \/ \E t \in Resetters :
        \/ \E drop \in Drops : ResetMemory(t, drop)
        \/ ResetFrames(t)
    \/ \E i \in Ids : Moves(i)

Spec == Init /\ [][Next]_vars

\* A seed that has started keeps running: it is one thread's loop, and a put
\* ends, one way or another, with its socket's timeout.
FairSpec == Spec /\ \A s \in Seeders : WF_vars(SeedStep(s))

-----------------------------------------------------------------------------
Seeding == [at : {"file", "write", "enter", "put"}, next : Ids \cup Counts,
            count : Counts, geometry : Geometries]
Reading == [at : {"locate", "get", "open"}, frame : Ids, crc : Geometries]
Served == [at : {"served"}, frame : Ids, source : Places \cup {"disk"},
           verified : BOOLEAN]
Failed == [at : {"failed"}, frame : Ids,
           why : {"missing", "unreachable", "no file"}]

\* Types of the dictionaries and of the threads; a seed stays within its count.
TypeOK ==
    /\ Dict!IsDict(frames, Geometries)
    /\ Dict!IsDict(disk, Geometries \cup {Torn})
    /\ Dict!IsDict(memory, [at : Places, holds : Geometries])
    /\ seeding \in BOOLEAN
    /\ DOMAIN thread = Threads
    /\ \A s \in Seeders : thread[s] \in {Idle} \cup Seeding
    /\ \A r \in Readers : thread[r] \in {Idle} \cup Reading \cup Served \cup Failed
    /\ \A t \in Resetters : thread[t] \in {Idle} \cup [at : {"reset"}, drop : Drops]

\* Every frame that the cache knows is whole on disk, with the CRC it must
\* have, so that whatever becomes of memory it can be served.  Seeds of one
\* geometry keep this; it takes the order in which seed writes and enters.
ColdCopy ==
    \A i \in DOMAIN frames : i \in DOMAIN disk /\ disk[i] = frames[i]

\* "Every cached frame is CRC-verified on every read; zero failures."
\* (README.md:196)
ReadsVerify == \A r \in Readers : thread[r].at = "served" => thread[r].verified

\* A read of a known frame fails only for want of the peer that holds it: a
\* block that went after location() was asked for it is served from disk.
ReadsServed ==
    \A r \in Readers : thread[r].at = "failed" => thread[r].why = "unreachable"

\* A seed comes to an end, also when it fails: seeding does not stay set and
\* bar every later one.
SeedingEnds == seeding ~> ~seeding
=============================================================================
