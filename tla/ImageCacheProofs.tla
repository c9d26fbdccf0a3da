-------------------------- MODULE ImageCacheProofs --------------------------
(***************************************************************************)
(* Proofs about ImageCache, for any numbers of seeders, readers, resetters *)
(* and frames: its types, and, for a disk that only seeds of one geometry  *)
(* write and nothing erases, that every known frame is whole on it and     *)
(* every read that is served verifies.                                     *)
(***************************************************************************)
EXTENDS ImageCache, TLAPS

-----------------------------------------------------------------------------
(* Types                                                                   *)

\* What MemCloud holds for a frame.
Blocks == [at : Places, holds : Geometries]

SeederState(s) == s \in {Idle} \cup Seeding
ReaderState(s) == s \in {Idle} \cup Reading \cup Served \cup Failed
ResetterState(s) == s \in {Idle} \cup [at : {"reset"}, drop : Drops]

FilesOK ==
    /\ Dict!IsDict(frames, Geometries)
    /\ Dict!IsDict(disk, Geometries \cup {Torn})
    /\ Dict!IsDict(memory, Blocks)
    /\ seeding \in BOOLEAN

ThreadsOK ==
    /\ DOMAIN thread = Threads
    /\ \A s \in Seeders : SeederState(thread[s])
    /\ \A r \in Readers : ReaderState(thread[r])
    /\ \A t \in Resetters : ResetterState(thread[t])

\* A seed does not go past its count.
WithinCount ==
    \A s \in Seeders : thread[s] # Idle =>
        /\ thread[s].next \in Nat
        /\ thread[s].next <= thread[s].count
        /\ thread[s].at # "file" => thread[s].next < thread[s].count

LEMMA TypeParts == TypeOK <=> FilesOK /\ ThreadsOK
BY DEF TypeOK, FilesOK, Blocks, ThreadsOK, SeederState, ReaderState, ResetterState

\* A thread that goes to a state of its own kind leaves the threads typed.
LEMMA GotoOK ==
  ASSUME ThreadsOK, NEW t, NEW s, Goto(t, s),
         \/ t \in Seeders /\ SeederState(s)
         \/ t \in Readers /\ ReaderState(s)
         \/ t \in Resetters /\ ResetterState(s)
  PROVE  ThreadsOK'
<1>1. /\ DOMAIN thread' = Threads
      /\ t \in Threads /\ thread'[t] = s
      /\ \A u \in Threads \ {t} : thread'[u] = thread[u]
  BY DEF Goto, ThreadsOK, Threads
<1>2. ASSUME NEW u \in Seeders PROVE SeederState(thread'[u])
  BY <1>1, ImageCacheConstants DEF ThreadsOK, Threads
<1>3. ASSUME NEW u \in Readers PROVE ReaderState(thread'[u])
  BY <1>1, ImageCacheConstants DEF ThreadsOK, Threads
<1>4. ASSUME NEW u \in Resetters PROVE ResetterState(thread'[u])
  BY <1>1, ImageCacheConstants DEF ThreadsOK, Threads
<1> QED BY <1>1, <1>2, <1>3, <1>4 DEF ThreadsOK

\* A seed that stays within its count leaves all of them there.
LEMMA CountStep ==
  ASSUME ThreadsOK, WithinCount, NEW t \in Threads, NEW s, Goto(t, s),
         t \in Seeders /\ s # Idle =>
            /\ s.next \in Nat
            /\ s.next <= s.count
            /\ s.at # "file" => s.next < s.count
  PROVE  WithinCount'
<1>1. /\ thread'[t] = s
      /\ \A u \in Threads \ {t} : thread'[u] = thread[u]
  BY DEF Goto, ThreadsOK
<1> QED BY <1>1 DEF WithinCount, Threads

\* Entries that come and go leave a dictionary one.
LEMMA DictSteps ==
  ASSUME NEW R, NEW d, Dict!IsDict(d, R)
  PROVE  /\ \A i \in Ids, v \in R : Dict!IsDict(Dict!Store(d, i, v), R)
         /\ \A i : Dict!IsDict(Dict!Drop(d, i), R)
         /\ \A i \in DOMAIN d, v \in R : Dict!IsDict([d EXCEPT ![i] = v], R)
         /\ Dict!IsDict(Dict!Empty, R)
         /\ \A S : Dict!IsDict([i \in DOMAIN d \ S |-> d[i]], R)
BY DEF Dict!IsDict, Dict!Store, Dict!Drop, Dict!Empty

\* The next frame of a seed is a frame until the count is reached.
LEMMA NextFrame ==
  ASSUME NEW n \in Counts, NEW i \in Nat
  PROVE  /\ i < n => i \in Ids
         /\ i < n => i + 1 \in Ids \cup Counts
<1>1. n \in Nat
  BY ImageCacheConstants
<1>2. ASSUME NEW j \in Nat, j < n PROVE j \in Ids
  <2>1. j \in 0 .. (n - 1)
    BY <1>1, <1>2
  <2> QED BY <2>1 DEF Ids
<1>3. ASSUME i < n PROVE i + 1 \in Ids \cup Counts
  <2>1. i + 1 = n \/ i + 1 < n
    BY <1>1, <1>3
  <2> QED BY <2>1, <1>2
<1> QED BY <1>2, <1>3

\* Nothing runs, and the cache is empty, at first.
LEMMA TypeInit == Init => FilesOK /\ ThreadsOK /\ WithinCount
<1> SUFFICES ASSUME Init PROVE FilesOK /\ ThreadsOK /\ WithinCount
  OBVIOUS
<1>1. FilesOK
  BY DEF Init, FilesOK, Dict!IsDict, Dict!Empty
<1>2. ThreadsOK /\ WithinCount
  BY DEF Init, ThreadsOK, Threads, SeederState, ReaderState, ResetterState,
         WithinCount
<1> QED BY <1>1, <1>2

\* The steps of seed keep the types.
LEMMA SeederTypes ==
  ASSUME FilesOK, ThreadsOK, WithinCount, NEW s \in Seeders,
         \/ \E n \in Counts, g \in Geometries : SeedStart(s, n, g)
         \/ SeedStep(s)
  PROVE  FilesOK' /\ ThreadsOK' /\ WithinCount'
<1>0. s \in Threads
  BY DEF Threads
<1>i. SeederState(Idle) /\ Counts \subseteq Nat
  BY ImageCacheConstants DEF SeederState
<1>1. ASSUME NEW n \in Counts, NEW g \in Geometries, SeedStart(s, n, g)
      PROVE  FilesOK' /\ ThreadsOK' /\ WithinCount'
  <2> DEFINE x == [at |-> "file", next |-> 0, count |-> n, geometry |-> g]
  <2>1. Goto(s, x)
    BY <1>1 DEF SeedStart
  <2>2. 0 \in Ids \cup Counts /\ 0 <= n
    <3>1. n \in Nat
      BY <1>i
    <3>2. n = 0 \/ 0 < n
      BY <3>1
    <3> QED BY <3>1, <3>2, NextFrame
  <2>3. SeederState(x)
    BY <2>2 DEF SeederState, Seeding
  <2>4. ThreadsOK'
    BY <2>1, <2>3, GotoOK
  <2>5. WithinCount'
    BY <1>0, <2>1, <2>2, CountStep
  <2> QED BY <1>1, <2>4, <2>5 DEF SeedStart, FilesOK
<1>2. CASE SeedStep(s)
  <2>0. thread[s] # Idle
    BY <1>2 DEF SeedStep, SeedFile, SeedWrite, SeedEnter, SeedPut, SeedDone,
                SeedRaises, Idle
  <2> DEFINE i == thread[s].next
             g == thread[s].geometry
             n == thread[s].count
  <2>1. thread[s] \in Seeding /\ n \in Counts /\ g \in Geometries /\ n \in Nat
    BY <1>i, <2>0 DEF ThreadsOK, SeederState, Seeding
  <2>2. i \in Nat /\ i <= n /\ (thread[s].at # "file" => i < n)
    BY <2>0 DEF WithinCount
  <2>3. i < n => i \in Ids /\ i + 1 \in Ids \cup Counts /\ i + 1 <= n
    BY <2>1, <2>2, NextFrame
  <2>4. ASSUME NEW a \in {"enter", "write", "put"}, i < n
        PROVE  /\ SeederState([thread[s] EXCEPT !.at = a])
               /\ [thread[s] EXCEPT !.at = a].next = i
               /\ [thread[s] EXCEPT !.at = a].count = n
    BY <2>1, <2>4 DEF SeederState, Seeding
  <2>5. ASSUME NEW a \in {"enter", "write", "put"}, i < n,
               Goto(s, [thread[s] EXCEPT !.at = a])
        PROVE  ThreadsOK' /\ WithinCount'
    BY <1>0, <2>2, <2>4, <2>5, GotoOK, CountStep
  <2>6. ASSUME Goto(s, Idle) PROVE ThreadsOK' /\ WithinCount'
    BY <1>0, <1>i, <2>6, GotoOK, CountStep
  <2>7. CASE SeedFile(s)
    <3>1. i < n /\ FilesOK'
      <4>1. i < n
        BY <2>7 DEF SeedFile
      <4>2. Dict!IsDict(disk', Geometries \cup {Torn})
        BY <2>3, <2>7, <4>1, DictSteps DEF SeedFile, FilesOK
      <4> QED BY <2>7, <4>1, <4>2 DEF SeedFile, FilesOK
    <3> QED BY <2>5, <2>7, <3>1 DEF SeedFile
  <2>8. CASE SeedWrite(s)
    <3>1. i < n
      BY <2>2, <2>8 DEF SeedWrite
    <3>2. Dict!IsDict(disk', Geometries \cup {Torn})
      BY <2>1, <2>3, <2>8, <3>1, DictSteps DEF SeedWrite, FilesOK
    <3> QED BY <2>5, <2>8, <3>1, <3>2 DEF SeedWrite, FilesOK
  <2>9. CASE SeedEnter(s)
    <3>1. i < n
      BY <2>2, <2>9 DEF SeedEnter
    <3>2. Dict!IsDict(frames', Geometries)
      BY <2>1, <2>3, <2>9, <3>1, DictSteps DEF SeedEnter, FilesOK
    <3> QED BY <2>5, <2>9, <3>1, <3>2 DEF SeedEnter, FilesOK
  <2>10. CASE SeedPut(s)
    <3> DEFINE x == [thread[s] EXCEPT !.at = "file", !.next = i + 1]
    <3>1. i < n
      BY <2>2, <2>10 DEF SeedPut
    <3>2. x \in Seeding
      BY <2>1, <2>3, <3>1 DEF Seeding
    <3>3. x.at = "file" /\ x.next = i + 1 /\ x.count = n
      BY <2>1 DEF Seeding
    <3>4. ThreadsOK' /\ WithinCount'
      <4>1. Goto(s, x)
        BY <2>10 DEF SeedPut
      <4>2. SeederState(x)
        BY <3>2 DEF SeederState
      <4>3. /\ x.next \in Nat
            /\ x.next <= x.count
            /\ x.at # "file" => x.next < x.count
        BY <2>2, <2>3, <3>1, <3>3
      <4>4. ThreadsOK'
        BY <4>1, <4>2, GotoOK
      <4>5. WithinCount'
        BY <1>0, <4>1, <4>3, CountStep
      <4> QED BY <4>4, <4>5
    <3>5. Dict!IsDict(memory', Blocks)
      <4>1. CASE UNCHANGED memory
        BY <4>1 DEF FilesOK
      <4>2. ASSUME NEW p \in Places,
                   memory' = Dict!Store(memory, i, [at |-> p, holds |-> g])
            PROVE  Dict!IsDict(memory', Blocks)
        <5>1. [at |-> p, holds |-> g] \in Blocks
          BY <2>1 DEF Blocks
        <5>2. Dict!IsDict(memory, Blocks)
          BY DEF FilesOK
        <5>3. i \in Ids
          BY <2>3, <3>1
        <5> QED BY <4>2, <5>1, <5>2, <5>3, DictSteps
      <4> QED BY <2>10, <4>1, <4>2 DEF SeedPut
    <3> QED BY <2>10, <3>4, <3>5 DEF SeedPut, FilesOK
  <2>11. CASE SeedDone(s)
    BY <2>6, <2>11 DEF SeedDone, FilesOK
  <2>12. CASE SeedRaises(s)
    <3>1. Dict!IsDict(memory', Blocks)
      <4>1. CASE UNCHANGED memory
        BY <4>1 DEF FilesOK
      <4>2. ASSUME i \in DOMAIN memory,
                   memory' = [memory EXCEPT ![i].holds = g]
            PROVE  Dict!IsDict(memory', Blocks)
        <5> DEFINE x == [memory[i] EXCEPT !.holds = g]
        <5>1. memory[i] \in Blocks
          BY <4>2 DEF FilesOK, Dict!IsDict
        <5>2. x \in Blocks
          BY <2>1, <5>1 DEF Blocks
        <5>3. memory' = [memory EXCEPT ![i] = x]
          BY <4>2
        <5>4. Dict!IsDict(memory, Blocks)
          BY DEF FilesOK
        <5>5. ASSUME NEW v \in Blocks, memory' = [memory EXCEPT ![i] = v]
              PROVE  Dict!IsDict(memory', Blocks)
          <6>1. i \in DOMAIN memory
            BY <4>2
          <6> QED BY <5>4, <5>5, <6>1 DEF Dict!IsDict
        <5> HIDE DEF x
        <5> QED BY <5>2, <5>3, <5>5
      <4> QED BY <2>12, <4>1, <4>2 DEF SeedRaises
    <3> QED BY <2>6, <2>12, <3>1 DEF SeedRaises, FilesOK
  <2> QED BY <1>2, <2>7, <2>8, <2>9, <2>10, <2>11, <2>12 DEF SeedStep
<1> QED BY <1>1, <1>2

\* So do the steps of read.
LEMMA ReaderTypes ==
  ASSUME FilesOK, ThreadsOK, WithinCount, NEW r \in Readers,
         \/ \E i \in Ids : ReadMeta(r, i)
         \/ ReadLocate(r) \/ ReadGet(r) \/ ReadMisses(r) \/ ReadUnreachable(r)
         \/ ReadDisk(r) \/ ReadReturn(r)
  PROVE  FilesOK' /\ ThreadsOK' /\ WithinCount'
<1>0. r \in Threads /\ r \notin Seeders
  BY ImageCacheConstants DEF Threads
<1>1. FilesOK'
  BY DEF FilesOK, ReadMeta, ReadLocate, ReadGet, ReadMisses, ReadUnreachable,
         ReadDisk, ReadReturn, Serve
<1>2. ASSUME NEW x, ReaderState(x), Goto(r, x)
      PROVE  FilesOK' /\ ThreadsOK' /\ WithinCount'
  BY <1>0, <1>1, <1>2, GotoOK, CountStep
<1>3. ASSUME NEW i \in Ids, ReadMeta(r, i) PROVE FilesOK' /\ ThreadsOK' /\ WithinCount'
  <2>1. frames[i] \in Geometries
    BY <1>3 DEF ReadMeta, FilesOK, Dict!IsDict
  <2>2. ReaderState([at |-> "locate", frame |-> i, crc |-> frames[i]])
    BY <2>1 DEF ReaderState, Reading
  <2> QED BY <1>2, <1>3, <2>2 DEF ReadMeta
<1>4. ASSUME thread[r].at \in {"locate", "get", "open"}
      PROVE  thread[r] \in Reading
  <2>1. thread[r] \in {Idle} \cup Reading \cup Served \cup Failed
    BY DEF ThreadsOK, ReaderState
  <2>2. Idle.at = "idle"
    BY DEF Idle
  <2>3. \A x \in Served : x.at = "served"
    BY DEF Served
  <2>4. \A x \in Failed : x.at = "failed"
    BY DEF Failed
  <2> QED BY <1>4, <2>1, <2>2, <2>3, <2>4
<1>5. ASSUME NEW a \in {"get", "open"}, thread[r] \in Reading
      PROVE  ReaderState([thread[r] EXCEPT !.at = a])
  BY <1>5 DEF ReaderState, Reading
<1>6. CASE ReadLocate(r)
  <2> DEFINE a == IF thread[r].frame \in DOMAIN memory THEN "get" ELSE "open"
  <2>1. a \in {"get", "open"} /\ Goto(r, [thread[r] EXCEPT !.at = a])
    BY <1>6 DEF ReadLocate
  <2>2. ReaderState([thread[r] EXCEPT !.at = a])
    BY <1>4, <1>5, <1>6, <2>1 DEF ReadLocate
  <2> QED BY <1>2, <2>1, <2>2
<1>7. ASSUME NEW data, NEW source \in Places \cup {"disk"},
             thread[r] \in Reading, Serve(r, data, source)
      PROVE  FilesOK' /\ ThreadsOK' /\ WithinCount'
  <2> DEFINE x == [at |-> "served", frame |-> thread[r].frame,
                   source |-> source, verified |-> data = thread[r].crc]
  <2>1. Goto(r, x)
    BY <1>7 DEF Serve
  <2>2. thread[r].frame \in Ids /\ (data = thread[r].crc) \in BOOLEAN
    BY <1>7 DEF Reading
  <2>3. ReaderState(x)
    BY <1>7, <2>2 DEF ReaderState, Served
  <2> QED BY <1>2, <2>1, <2>3
<1>8. CASE ReadGet(r)
  <2>1. memory[thread[r].frame].at \in Places
    BY <1>8 DEF ReadGet, FilesOK, Dict!IsDict, Blocks
  <2> QED BY <1>4, <1>7, <1>8, <2>1 DEF ReadGet
<1>9. CASE ReadMisses(r)
  BY <1>2, <1>4, <1>5, <1>9 DEF ReadMisses
<1>10. ASSUME NEW w \in {"unreachable", "no file"}, thread[r] \in Reading
       PROVE  ReaderState([at |-> "failed", frame |-> thread[r].frame, why |-> w])
  <2>1. thread[r].frame \in Ids
    BY <1>10 DEF Reading
  <2> QED BY <2>1 DEF ReaderState, Failed
<1>11. CASE ReadUnreachable(r)
  BY <1>2, <1>4, <1>10, <1>11 DEF ReadUnreachable
<1>12. CASE ReadDisk(r)
  <2>1. CASE thread[r].frame \in DOMAIN disk
    BY <1>4, <1>7, <1>12, <2>1 DEF ReadDisk
  <2>2. CASE thread[r].frame \notin DOMAIN disk
    BY <1>2, <1>4, <1>10, <1>12, <2>2 DEF ReadDisk
  <2> QED BY <2>1, <2>2
<1>13. CASE ReadReturn(r)
  <2>1. ReaderState(Idle)
    BY DEF ReaderState
  <2> QED BY <1>2, <1>13, <2>1 DEF ReadReturn
<1> QED BY <1>3, <1>6, <1>8, <1>9, <1>11, <1>12, <1>13

\* And those of reset.
LEMMA ResetterTypes ==
  ASSUME FilesOK, ThreadsOK, WithinCount, NEW t \in Resetters,
         \/ \E drop \in Drops : ResetMemory(t, drop)
         \/ ResetFrames(t)
  PROVE  FilesOK' /\ ThreadsOK' /\ WithinCount'
<1>0. t \in Threads /\ t \notin Seeders
  BY ImageCacheConstants DEF Threads
<1>1. ASSUME NEW x, ResetterState(x), Goto(t, x) PROVE ThreadsOK' /\ WithinCount'
  BY <1>0, <1>1, GotoOK, CountStep
<1>2. ASSUME NEW drop \in Drops, ResetMemory(t, drop)
      PROVE  FilesOK' /\ ThreadsOK' /\ WithinCount'
  <2>1. ResetterState([at |-> "reset", drop |-> drop])
    BY DEF ResetterState
  <2>2. FilesOK'
    BY <1>2, DictSteps DEF FilesOK, ResetMemory
  <2> QED BY <1>1, <1>2, <2>1, <2>2 DEF ResetMemory
<1>3. CASE ResetFrames(t)
  <2>1. ResetterState(Idle)
    BY DEF ResetterState
  <2>2. Dict!IsDict(disk', Geometries \cup {Torn})
    BY <1>3, DictSteps DEF FilesOK, ResetFrames
  <2>3. Dict!IsDict(frames', Geometries)
    BY <1>3, DictSteps DEF FilesOK, ResetFrames
  <2> QED BY <1>1, <1>3, <2>1, <2>2, <2>3 DEF ResetFrames, FilesOK
<1> QED BY <1>2, <1>3

\* A frame that moves between the peers stays one that they hold.
LEMMA MovesTypes ==
  ASSUME FilesOK, ThreadsOK, WithinCount, NEW i \in Ids, Moves(i)
  PROVE  FilesOK' /\ ThreadsOK' /\ WithinCount'
<1>1. Dict!IsDict(memory, Blocks)
  BY DEF FilesOK
<1>2. CASE memory' = Dict!Drop(memory, i)
  <2>1. Dict!IsDict(memory', Blocks)
    BY <1>1, <1>2, DictSteps
  <2> QED BY <2>1 DEF Moves, FilesOK, ThreadsOK, WithinCount
<1>3. CASE i \in DOMAIN memory /\ memory' = [memory EXCEPT ![i].at = "peer"]
  <2> DEFINE x == [memory[i] EXCEPT !.at = "peer"]
  <2>1. memory[i] \in Blocks
    BY <1>1, <1>3 DEF Dict!IsDict
  <2>2. x \in Blocks
    BY <2>1 DEF Blocks, Places
  <2>3. memory' = [memory EXCEPT ![i] = x]
    BY <1>3
  <2>4. ASSUME NEW v \in Blocks, memory' = [memory EXCEPT ![i] = v]
        PROVE  Dict!IsDict(memory', Blocks)
    <3>1. i \in DOMAIN memory
      BY <1>3
    <3> QED BY <1>1, <2>4, <3>1 DEF Dict!IsDict
  <2> HIDE DEF x
  <2>5. Dict!IsDict(memory', Blocks)
    BY <2>2, <2>3, <2>4
  <2> QED BY <2>5 DEF Moves, FilesOK, ThreadsOK, WithinCount
<1> QED BY <1>2, <1>3 DEF Moves

Typed == FilesOK /\ ThreadsOK /\ WithinCount

LEMMA TypeStep == Typed /\ [Next]_vars => Typed'
<1> SUFFICES ASSUME Typed, [Next]_vars PROVE Typed'
  OBVIOUS
<1> USE DEF Typed
<1>1. ASSUME NEW s \in Seeders,
             \/ \E n \in Counts, g \in Geometries : SeedStart(s, n, g)
             \/ SeedStep(s)
      PROVE  Typed'
  BY <1>1, SeederTypes
<1>2. ASSUME NEW r \in Readers,
             \/ \E i \in Ids : ReadMeta(r, i)
             \/ ReadLocate(r) \/ ReadGet(r) \/ ReadMisses(r)
             \/ ReadUnreachable(r) \/ ReadDisk(r) \/ ReadReturn(r)
      PROVE  Typed'
  BY <1>2, ReaderTypes
<1>3. ASSUME NEW t \in Resetters,
             \/ \E drop \in Drops : ResetMemory(t, drop)
             \/ ResetFrames(t)
      PROVE  Typed'
  BY <1>3, ResetterTypes
<1>4. ASSUME NEW i \in Ids, Moves(i) PROVE Typed'
  BY <1>4, MovesTypes
<1>5. CASE UNCHANGED vars
  BY <1>5 DEF vars, FilesOK, ThreadsOK, WithinCount
<1> QED BY <1>1, <1>2, <1>3, <1>4, <1>5 DEF Next

LEMMA AlwaysTyped == Spec => []Typed
<1>1. Init => Typed
  BY TypeInit DEF Typed
<1> QED BY <1>1, TypeStep, PTL DEF Spec

\* Whatever the threads do, the cache's dictionaries hold what they should,
\* and each thread is where its operation has steps: seed (imagecache.py)
\* never goes past the frames it was asked for.
THEOREM TypeCorrect == Spec => []TypeOK
<1>1. Typed => TypeOK
  BY TypeParts DEF Typed
<1> QED BY <1>1, AlwaysTyped, PTL

-----------------------------------------------------------------------------
(* One geometry, a disk that is never emptied, and writes that do not fail *)

\* Seeds of one width and height, as when every request leaves them at their
\* defaults, resets that keep the disk, and a disk that is never full.
Kept ==
    /\ \A g, h \in Geometries : g = h
    /\ TRUE \notin Drops
    /\ ~WritesFail

\* One seed at a time, and only while seeding says so.
One ==
    \A s \in Seeders : thread[s] # Idle =>
        seeding /\ \A u \in Seeders \ {s} : thread[u] = Idle

\* A file that is not whole is one that a seed is writing; a seed that
\* has begun a file, or found it, leaves it there.
Files ==
    /\ \A i \in DOMAIN disk : disk[i] = Torn =>
          \E s \in Seeders : thread[s].at = "write" /\ thread[s].next = i
    /\ \A s \in Seeders :
          thread[s].at \in {"write", "enter"} => thread[s].next \in DOMAIN disk

Stored == One /\ Files /\ ColdCopy

\* A read looks for a frame that is known, and what has been served verified.
ReadOK(r, x) ==
    /\ x.at \in {"locate", "get", "open"} => x.frame \in DOMAIN frames
    /\ x.at = "served" => x.verified
    /\ x.at = "failed" => x.why = "unreachable"

Reads == \A r \in Readers : ReadOK(r, thread[r])

LEMMA InvInit == Init => Stored /\ Reads
<1> SUFFICES ASSUME Init PROVE Stored /\ Reads
  OBVIOUS
<1>1. /\ DOMAIN disk = {} /\ DOMAIN frames = {}
      /\ \A t \in Threads : thread[t] = Idle
  BY DEF Init, Dict!Empty
<1>2. Idle.at = "idle"
  BY DEF Idle
<1> QED BY <1>1, <1>2 DEF Stored, One, Files, ColdCopy, Reads, ReadOK, Threads

\* What is stored does not depend on the other threads.
LEMMA OthersLeaveStored ==
  ASSUME Typed, Stored, NEW t \in Readers \cup Resetters, NEW x, Goto(t, x),
         UNCHANGED <<frames, disk, seeding>>
  PROVE  Stored'
<1>1. \A s \in Seeders : thread'[s] = thread[s]
  BY ImageCacheConstants DEF Goto, Typed, ThreadsOK, Threads
<1> QED BY <1>1 DEF Stored, One, Files, ColdCopy

\* Nor do reads suffer from them, unless a frame is forgotten.
LEMMA OthersLeaveReads ==
  ASSUME Typed, Reads, NEW t \in Seeders \cup Resetters, NEW x, Goto(t, x),
         DOMAIN frames \subseteq DOMAIN frames'
  PROVE  Reads'
<1>1. \A r \in Readers : thread'[r] = thread[r]
  BY ImageCacheConstants DEF Goto, Typed, ThreadsOK, Threads
<1> QED BY <1>1 DEF Reads, ReadOK

\* A step of a read that goes somewhere it may.
LEMMA ReaderGoes ==
  ASSUME Typed, Stored, Reads, NEW r \in Readers, NEW x, Goto(r, x),
         ReadOK(r, x), UNCHANGED <<frames, disk, seeding>>
  PROVE  Stored' /\ Reads'
<1>1. /\ thread'[r] = x
      /\ \A u \in Readers \ {r} : thread'[u] = thread[u]
  BY DEF Goto, Typed, ThreadsOK, Threads
<1>2. Reads'
  BY <1>1 DEF Reads, ReadOK
<1> QED BY <1>2, OthersLeaveStored

\* Each step of read keeps what is stored, and serves what verifies.
LEMMA ReaderKeeps ==
  ASSUME Kept, Typed, Stored, Reads, NEW r \in Readers,
         \/ \E i \in Ids : ReadMeta(r, i)
         \/ ReadLocate(r) \/ ReadGet(r) \/ ReadMisses(r) \/ ReadUnreachable(r)
         \/ ReadDisk(r) \/ ReadReturn(r)
  PROVE  Stored' /\ Reads'
<1> DEFINE i == thread[r].frame
<1>0. UNCHANGED <<frames, disk, seeding>>
  BY DEF ReadMeta, ReadLocate, ReadGet, ReadMisses, ReadUnreachable,
         ReadDisk, ReadReturn, Serve
<1>1. ASSUME NEW x, Goto(r, x), ReadOK(r, x) PROVE Stored' /\ Reads'
  BY <1>0, <1>1, ReaderGoes
<1>2. ReaderState(thread[r]) /\ ReadOK(r, thread[r])
  BY DEF Typed, ThreadsOK, Reads
<1>3. ASSUME thread[r].at \in {"locate", "get", "open"}
      PROVE  /\ thread[r] \in Reading
             /\ i \in DOMAIN frames
             /\ \A g \in Geometries : g = thread[r].crc
  <2>1. thread[r] \in {Idle} \cup Reading \cup Served \cup Failed
    BY <1>2 DEF ReaderState
  <2>2. Idle.at = "idle"
    BY DEF Idle
  <2>3. \A x \in Served : x.at = "served"
    BY DEF Served
  <2>4. \A x \in Failed : x.at = "failed"
    BY DEF Failed
  <2>5. thread[r] \in Reading
    BY <1>3, <2>1, <2>2, <2>3, <2>4
  <2>6. thread[r].crc \in Geometries
    BY <2>5 DEF Reading
  <2> QED BY <1>2, <1>3, <2>5, <2>6 DEF ReadOK, Kept
<1>4. ASSUME NEW data \in Geometries, NEW source, Serve(r, data, source),
             thread[r].at \in {"locate", "get", "open"}
      PROVE  Stored' /\ Reads'
  <2> DEFINE x == [at |-> "served", frame |-> i, source |-> source,
                   verified |-> data = thread[r].crc]
  <2>1. Goto(r, x)
    BY <1>4 DEF Serve
  <2>2. data = thread[r].crc
    BY <1>3, <1>4
  <2>3. ReadOK(r, x)
    BY <2>2 DEF ReadOK
  <2> QED BY <1>1, <2>1, <2>3
<1>5. ASSUME NEW a \in {"get", "open"}, Goto(r, [thread[r] EXCEPT !.at = a]),
             thread[r].at \in {"locate", "get", "open"}
      PROVE  Stored' /\ Reads'
  <2> DEFINE x == [thread[r] EXCEPT !.at = a]
  <2>1. x.at = a /\ x.frame = thread[r].frame
    BY <1>3, <1>5 DEF Reading
  <2>2. ReadOK(r, x)
    BY <1>3, <1>5, <2>1 DEF ReadOK
  <2> QED BY <1>1, <1>5, <2>2
<1>6. ASSUME NEW j \in Ids, ReadMeta(r, j) PROVE Stored' /\ Reads'
  <2>1. ReadOK(r, [at |-> "locate", frame |-> j, crc |-> frames[j]])
    BY <1>6 DEF ReadOK, ReadMeta
  <2> QED BY <1>1, <1>6, <2>1 DEF ReadMeta
<1>7. CASE ReadLocate(r)
  <2> DEFINE a == IF i \in DOMAIN memory THEN "get" ELSE "open"
  <2>1. a \in {"get", "open"} /\ Goto(r, [thread[r] EXCEPT !.at = a])
    BY <1>7 DEF ReadLocate
  <2> HIDE DEF a
  <2> QED BY <1>5, <1>7, <2>1 DEF ReadLocate
<1>8. CASE ReadGet(r)
  <2>1. memory[i].holds \in Geometries
    BY <1>8 DEF ReadGet, Typed, FilesOK, Dict!IsDict, Blocks
  <2> QED BY <1>4, <1>8, <2>1 DEF ReadGet
<1>9. CASE ReadMisses(r)
  BY <1>5, <1>9 DEF ReadMisses
<1>10. CASE ReadUnreachable(r)
  <2>1. ReadOK(r, [at |-> "failed", frame |-> i, why |-> "unreachable"])
    BY DEF ReadOK
  <2> QED BY <1>1, <1>10, <2>1 DEF ReadUnreachable
<1>11. CASE ReadDisk(r)
  <2>1. i \in DOMAIN frames
    BY <1>3, <1>11 DEF ReadDisk
  <2>2. frames[i] \in Geometries
    BY <2>1 DEF Typed, FilesOK, Dict!IsDict
  <2>3. i \in DOMAIN disk /\ disk[i] \in Geometries
    BY <2>1, <2>2 DEF Stored, ColdCopy
  <2> QED BY <1>4, <1>11, <2>3 DEF ReadDisk
<1>12. CASE ReadReturn(r)
  <2>1. ReadOK(r, Idle)
    BY DEF ReadOK, Idle
  <2> QED BY <1>1, <1>12, <2>1 DEF ReadReturn
<1> QED BY <1>6, <1>7, <1>8, <1>9, <1>10, <1>11, <1>12

\* Each step of seed keeps what is stored: the file comes first.
LEMMA SeederKeeps ==
  ASSUME Kept, Typed, Stored, NEW s \in Seeders,
         \/ \E n \in Counts, g \in Geometries : SeedStart(s, n, g)
         \/ SeedStep(s)
  PROVE  Stored' /\ DOMAIN frames \subseteq DOMAIN frames'
<1>0. s \in Threads /\ Idle.at = "idle"
  BY DEF Threads, Idle
<1>1. ASSUME NEW x, Goto(s, x)
      PROVE  thread'[s] = x /\ \A u \in Seeders \ {s} : thread'[u] = thread[u]
  BY <1>1 DEF Goto, Typed, ThreadsOK, Threads
<1>2. ASSUME NEW n \in Counts, NEW g \in Geometries, SeedStart(s, n, g)
      PROVE  Stored' /\ DOMAIN frames \subseteq DOMAIN frames'
  <2> DEFINE x == [at |-> "file", next |-> 0, count |-> n, geometry |-> g]
  <2>1. \A u \in Seeders : thread[u] = Idle
    BY <1>2 DEF SeedStart, Stored, One
  <2>2. /\ thread'[s] = x
        /\ \A u \in Seeders \ {s} : thread'[u] = Idle
    BY <1>1, <1>2, <2>1 DEF SeedStart
  <2>3. One'
    BY <1>2, <2>2 DEF SeedStart, One
  <2>4. Files'
    BY <1>0, <1>2, <2>1, <2>2 DEF SeedStart, Stored, Files
  <2> QED BY <1>2, <2>3, <2>4 DEF SeedStart, Stored, ColdCopy
<1>3. CASE SeedStep(s)
  <2> DEFINE i == thread[s].next
             g == thread[s].geometry
  <2>1. thread[s] # Idle
    BY <1>3 DEF SeedStep, SeedFile, SeedWrite, SeedEnter, SeedPut, SeedDone,
                SeedRaises, Idle
  <2>2. thread[s] \in Seeding /\ g \in Geometries
    BY <2>1 DEF Typed, ThreadsOK, SeederState, Seeding
  <2>3. seeding /\ \A u \in Seeders \ {s} : thread[u] = Idle
    BY <2>1 DEF Stored, One
  \* Whatever s goes to, it is still the only one.
  <2>4. ASSUME NEW x, Goto(s, x), x # Idle => seeding' PROVE One'
    BY <1>1, <2>3, <2>4 DEF One
  \* A seed that goes on, or ends, without a file of its own half written.
  <2>5. ASSUME NEW x, Goto(s, x), UNCHANGED disk,
               x.at \notin {"write", "enter"}, thread[s].at # "write"
        PROVE  Files'
    <3>1. \A u \in Seeders : thread[u].at # "write"
      BY <1>0, <2>3, <2>5
    <3>2. \A u \in Seeders : thread'[u].at \notin {"write", "enter"}
      BY <1>0, <1>1, <2>3, <2>5
    <3> QED BY <2>5, <3>1, <3>2 DEF Stored, Files
  \* The files when s goes to its next step with the same frame.
  <2>6. ASSUME NEW a \in {"enter", "write", "put"},
               Goto(s, [thread[s] EXCEPT !.at = a])
        PROVE  /\ thread'[s].at = a /\ thread'[s].next = i
               /\ \A u \in Seeders \ {s} : thread'[u] = Idle
               /\ One' <=> seeding'
    <3>1. thread'[s] = [thread[s] EXCEPT !.at = a]
      BY <1>1, <2>6
    <3>2. thread'[s].at = a /\ thread'[s].next = i
      BY <2>2, <2>6, <3>1 DEF Seeding
    <3>3. \A u \in Seeders \ {s} : thread'[u] = Idle
      BY <1>1, <2>3, <2>6
    <3>4. thread'[s] # Idle
      BY <1>0, <3>2
    <3> QED BY <3>2, <3>3, <3>4 DEF One
  <2>7. CASE SeedFile(s)
    <3>1. CASE i \in DOMAIN disk
      <4>1. UNCHANGED <<frames, disk, seeding>>
        BY <2>7, <3>1 DEF SeedFile
      <4>2. /\ thread'[s].at = "enter" /\ thread'[s].next = i
            /\ \A u \in Seeders \ {s} : thread'[u] = Idle
            /\ One'
        BY <2>3, <2>6, <2>7, <3>1, <4>1 DEF SeedFile
      <4>3. \A u \in Seeders : thread[u].at # "write"
        BY <1>0, <2>3, <2>7 DEF SeedFile
      <4>4. Files'
        BY <1>0, <3>1, <4>1, <4>2, <4>3 DEF Stored, Files
      <4> QED BY <4>1, <4>2, <4>4 DEF Stored, ColdCopy
    <3>2. CASE i \notin DOMAIN disk
      <4>1. UNCHANGED <<frames, seeding>> /\ disk' = Dict!Store(disk, i, Torn)
        BY <2>7, <3>2 DEF SeedFile
      <4>2. /\ thread'[s].at = "write" /\ thread'[s].next = i
            /\ \A u \in Seeders \ {s} : thread'[u] = Idle
            /\ One'
        BY <2>3, <2>6, <2>7, <3>2, <4>1 DEF SeedFile
      <4>3. \A u \in Seeders : thread[u].at # "write"
        BY <1>0, <2>3, <2>7 DEF SeedFile
      <4>4. /\ DOMAIN disk' = DOMAIN disk \cup {i}
            /\ \A j \in DOMAIN disk : disk'[j] = disk[j]
        BY <3>2, <4>1 DEF Dict!Store
      <4>5. Files'
        BY <1>0, <4>2, <4>3, <4>4 DEF Stored, Files
      <4>6. ColdCopy'
        BY <4>1, <4>4 DEF Stored, ColdCopy
      <4> QED BY <4>1, <4>2, <4>5, <4>6 DEF Stored
    <3> QED BY <3>1, <3>2
  <2>8. CASE SeedWrite(s)
    <3>1. i \in DOMAIN disk
      BY <2>8 DEF SeedWrite, Stored, Files
    <3>2. UNCHANGED <<frames, seeding>> /\ disk' = Dict!Store(disk, i, g)
      BY <2>8, <3>1 DEF SeedWrite
    <3>3. /\ thread'[s].at = "enter" /\ thread'[s].next = i
          /\ \A u \in Seeders \ {s} : thread'[u] = Idle
          /\ One'
      BY <2>3, <2>6, <2>8, <3>2 DEF SeedWrite
    <3>4. /\ DOMAIN disk' = DOMAIN disk
          /\ disk'[i] = g
          /\ \A j \in DOMAIN disk \ {i} : disk'[j] = disk[j]
      BY <3>1, <3>2 DEF Dict!Store
    <3>5. \A j \in DOMAIN disk \ {i} : disk[j] # Torn
      BY <1>0, <2>3 DEF Stored, Files
    <3>6. Files'
      BY <1>0, <2>2, <3>1, <3>3, <3>4, <3>5, ImageCacheConstants DEF Files
    <3>7. ColdCopy'
      <4>1. i \in DOMAIN frames => frames[i] = g
        BY <2>2 DEF Typed, FilesOK, Dict!IsDict, Kept
      <4> QED BY <3>2, <3>4, <4>1 DEF Stored, ColdCopy
    <3> QED BY <3>2, <3>3, <3>6, <3>7 DEF Stored
  <2>9. CASE SeedEnter(s)
    <3>1. i \in DOMAIN disk /\ \A u \in Seeders : thread[u].at # "write"
      BY <1>0, <2>3, <2>9 DEF SeedEnter, Stored, Files
    <3>2. disk[i] = g
      <4>1. disk[i] \in Geometries \cup {Torn}
        BY <3>1 DEF Typed, FilesOK, Dict!IsDict
      <4>2. disk[i] # Torn
        BY <3>1 DEF Stored, Files
      <4> QED BY <2>2, <4>1, <4>2 DEF Kept
    <3>3. UNCHANGED <<disk, seeding>> /\ frames' = Dict!Store(frames, i, g)
      BY <2>9 DEF SeedEnter
    <3>4. /\ thread'[s].at = "put" /\ thread'[s].next = i
          /\ \A u \in Seeders \ {s} : thread'[u] = Idle
          /\ One'
      BY <2>3, <2>6, <2>9, <3>3 DEF SeedEnter
    <3>5. /\ DOMAIN frames' = DOMAIN frames \cup {i}
          /\ frames'[i] = g
          /\ \A j \in DOMAIN frames \ {i} : frames'[j] = frames[j]
      BY <3>3 DEF Dict!Store
    <3>6. Files'
      BY <1>0, <3>1, <3>3, <3>4 DEF Stored, Files
    <3>7. ColdCopy'
      BY <3>1, <3>2, <3>3, <3>5 DEF Stored, ColdCopy
    <3> QED BY <3>4, <3>5, <3>6, <3>7 DEF Stored
  <2>10. CASE SeedPut(s)
    <3> DEFINE x == [thread[s] EXCEPT !.at = "file", !.next = i + 1]
    <3>1. Goto(s, x) /\ UNCHANGED <<frames, disk, seeding>>
      BY <2>10 DEF SeedPut
    <3>2. x.at = "file"
      BY <2>2 DEF Seeding
    <3>3. thread[s].at # "write"
      BY <2>10 DEF SeedPut
    <3> HIDE DEF x
    <3>4. One'
      BY <2>3, <2>4, <3>1
    <3>5. Files'
      BY <2>5, <3>1, <3>2, <3>3
    <3> QED BY <3>1, <3>4, <3>5 DEF Stored, ColdCopy
  <2>11. CASE SeedDone(s) \/ SeedRaises(s)
    <3>1. Goto(s, Idle) /\ UNCHANGED <<frames, disk>> /\ thread[s].at # "write"
      BY <2>11 DEF SeedDone, SeedRaises, Kept
    <3>2. One'
      BY <2>4, <3>1
    <3>3. Files'
      BY <1>0, <2>5, <3>1
    <3> QED BY <3>1, <3>2, <3>3 DEF Stored, ColdCopy
  <2> QED BY <1>3, <2>7, <2>8, <2>9, <2>10, <2>11 DEF SeedStep
<1> QED BY <1>2, <1>3

\* Each step of the whole keeps what is stored and what is read.
LEMMA InvStep ==
  Kept /\ Typed /\ Stored /\ Reads /\ [Next]_vars => Stored' /\ Reads'
<1> SUFFICES ASSUME Kept, Typed, Stored, Reads, [Next]_vars
             PROVE  Stored' /\ Reads'
  OBVIOUS
<1>1. ASSUME NEW s \in Seeders,
             \/ \E n \in Counts, g \in Geometries : SeedStart(s, n, g)
             \/ SeedStep(s)
      PROVE  Stored' /\ Reads'
  <2>1. Stored' /\ DOMAIN frames \subseteq DOMAIN frames'
    BY <1>1, SeederKeeps
  <2>2. \E x : Goto(s, x)
    BY <1>1 DEF SeedStart, SeedStep, SeedFile, SeedWrite, SeedEnter, SeedPut,
                SeedDone, SeedRaises
  <2> QED BY <2>1, <2>2, OthersLeaveReads
<1>2. ASSUME NEW r \in Readers,
             \/ \E i \in Ids : ReadMeta(r, i)
             \/ ReadLocate(r) \/ ReadGet(r) \/ ReadMisses(r)
             \/ ReadUnreachable(r) \/ ReadDisk(r) \/ ReadReturn(r)
      PROVE  Stored' /\ Reads'
  BY <1>2, ReaderKeeps
<1>3. ASSUME NEW t \in Resetters,
             \/ \E drop \in Drops : ResetMemory(t, drop)
             \/ ResetFrames(t)
      PROVE  Stored' /\ Reads'
  <2>1. UNCHANGED <<frames, disk, seeding>>
    <3>1. ASSUME thread[t].at = "reset" PROVE thread[t].drop = FALSE
      <4>1. thread[t] \in [at : {"reset"}, drop : Drops]
        BY <3>1 DEF Typed, ThreadsOK, ResetterState, Idle
      <4> QED BY <4>1, ImageCacheConstants DEF Kept
    <3> QED BY <1>3, <3>1 DEF ResetMemory, ResetFrames
  <2>2. \E x : Goto(t, x)
    BY <1>3 DEF ResetMemory, ResetFrames
  <2> QED BY <2>1, <2>2, OthersLeaveStored, OthersLeaveReads
<1>4. ASSUME NEW i \in Ids, Moves(i) PROVE Stored' /\ Reads'
  BY <1>4 DEF Moves, Stored, One, Files, ColdCopy, Reads, ReadOK
<1>5. CASE UNCHANGED vars
  BY <1>5 DEF vars, Stored, One, Files, ColdCopy, Reads, ReadOK
<1> QED BY <1>1, <1>2, <1>3, <1>4, <1>5 DEF Next

LEMMA AlwaysKept ==
  ASSUME Kept
  PROVE  Spec => [](Stored /\ Reads)
<1>1. Kept /\ Typed /\ Stored /\ Reads /\ [Next]_vars => Stored' /\ Reads'
  BY InvStep
<1>2. Typed /\ Stored /\ Reads /\ [Next]_vars => Stored' /\ Reads'
  BY <1>1
<1> QED BY <1>2, InvInit, AlwaysTyped, PTL DEF Spec

\* Every frame that the cache knows is whole on disk, for any threads in any
\* order: seed (imagecache.py) writes the file before it enters the frame,
\* and seeding keeps a second seed from a file that is half written.
THEOREM FramesAreOnDisk ==
  ASSUME Kept
  PROVE  Spec => []ColdCopy
<1>1. Stored /\ Reads => ColdCopy
  BY DEF Stored
<1> QED BY <1>1, AlwaysKept, PTL

\* No read that is served fails its CRC, whether it comes from memory, from a
\* peer or from disk, while seeds and resets run.
THEOREM ServedReadsVerify ==
  ASSUME Kept
  PROVE  Spec => []ReadsVerify
<1>1. Stored /\ Reads => ReadsVerify
  BY DEF Reads, ReadOK, ReadsVerify
<1> QED BY <1>1, AlwaysKept, PTL

\* A read of a known frame fails only when the peer that holds it cannot be
\* reached: one whose block has gone in the meantime is served from disk.
THEOREM KnownFramesAreServed ==
  ASSUME Kept
  PROVE  Spec => []ReadsServed
<1>1. Stored /\ Reads => ReadsServed
  BY DEF Reads, ReadOK, ReadsServed
<1> QED BY <1>1, AlwaysKept, PTL
=============================================================================
