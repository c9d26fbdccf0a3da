# A verification development for MemCloud

MemCloud lends the spare RAM of the machines on a LAN to one another.  A node
keeps blocks in its own heap while its budget lasts, and beyond that puts them
into the heap of a peer's *worker*.  This directory models the concurrent core
of `src/memcloud` in TLA+, model-checks it with TLC on small instances, and
proves every safety property that a passing run checks with TLAPS, for every
value of the constants.

Contents: [the system](#the-system), [modules](#modules-and-the-code),
[what the runs check](#what-the-runs-check),
[disagreements](#disagreements-with-the-documentation),
[fairness](#fairness), [assumptions](#assumptions),
[proofs](#proofs), [what is left out](#what-is-not-modelled), [plan](#plan).

## The system

```
 application, HTTP API threads                       other node
        |                                                |
   ImageCache   TensorStore / PrefixKVStore              |
        |            |  chunked objects                  |
        +-----> MemCloud <----------+              worker: _Handler threads
                  |  Scheduler      |                     |
                  |  PeerTable <- Discovery        BlockStore
                  +--> ConnectionPool == frames ==========+
```

| Component | State | Operations | Talks to | What is hard | What makes it correct |
|---|---|---|---|---|---|
| **BlockStore** (`worker.py`) | `_blocks`, `_owner`, `_used`, access times | put (measure, admit, store), get, get_range, delete, keys, stat, clear | called by a handler thread per connection | `put` takes its lock twice and not at all in between | count exact; owners match blocks; the reserve is respected, or outgrown by a known amount |
| **MemCloud**, block layer (`client.py`) | `_local`, `_lru`, `_local_used`, `_index`, `_sizes` | put, get, get_range, delete, clear, spill, location | Scheduler, ConnectionPool, PeerTable | the lock is let go of for every remote call; peers refuse, fail, restart; calls that raise may have had their effect | the dictionaries agree; the count is wrong by what overlapping spills took off it and nothing else; the budget is passed by no more than that and a block per further writer; a get answers with a value its key had meanwhile; a spill ends |
| **MemCloud**, objects (`client.py`) | `_manifests` | put_object, get_object, get_object_range, delete_object | the block layer, chunk by chunk | no lock covers an operation; one chunk of several fails; overlapping put and get of one name; slice arithmetic | a read of a name that stays whole finds every chunk and returns the bytes asked for; a delete that nothing crosses leaves nothing |
| **Scheduler** (`client.py`) | none | candidates, select | PeerTable's figures | the figures are as old as the last probe; put lowers them without a lock, and after its call; several threads choose at once; other nodes use the same workers | finds the room there is while the figures are right; the figures come right |
| **ConnectionPool** and **protocol** | one connection and one lock per peer; frames under way | call, drop | worker handlers | answers carry no request number; a retry of what may have been done; stale sockets | an answer is to the call's own request; effects lie within the call; the lock is let go of |
| **Worker handler** (`worker.py`) | a thread per connection | PING, STAT, PUT, GET, DEL, KEYS, MGET | BlockStore | it may end, or the worker restart, at any moment | see ConnectionPool |
| **Discovery**, **PeerTable** | Peer objects, the table from id to Peer | add_static_peer, beacons, probe loop, promotion | workers (STAT), MemCloud | one thread probes all peers, each socket operation has a timeout of its own; two ways to learn of the same worker | a worker is offered once; a live worker is probed within a known time; a seed is found in the end |
| **ImageCache** (`imagecache.py`) | `frames`, `seeding`, the files of the cold store | seed, read, read_many, reset | MemCloud, the disk | seed, read and reset overlap, and another node's death happens in between | a whole copy on disk of each known frame; every read verifies; seeding ends |
| **TensorStore**, **PrefixKVStore** (`llm.py`) | `_meta`, `_index` | put, get, get_rows, delete; store, lookup, fetch, evict | objects | the prefix index outlives the blocks; the row length and the chunks come from two manifests | a hit returns the bytes stored; what was stored and not taken away is a hit |
| **HTTP API** (`api.py`) | none | GET, POST, event stream; a thread per request | all of the above | it is what makes the above concurrent; a client that does not read | |
| **Node**, event fan-out (`node.py`) | subscribers' bounded queues | start, stop, subscribe, unsubscribe, emit | wires the rest together; emit is called from put and from the probe thread | a full queue drops the event; subscribers come and go in the middle of emit; a stuck client | emit waits for no one; no event is lost but to a full queue, or out of order; a client that left is unsubscribed |
| **Security** (`security.py`) | certificate files | init, TLS contexts | protocol, worker | | |
| **meminfo** | none | system_memory | BlockStore, MemCloud | its answer changes between two calls | |

`PROJECT.json` lists the hazards of the code at the line where each bites,
with the properties that cover it, or why none does.

## Modules and the code

A step of a model is one critical section, or one remote call, or one access to
a file: everything between two points at which another thread can get in.

**Dictionaries** - Python dictionaries as functions; `Store` and `Drop` are
`d[k] = v` and `d.pop(k, None)`.  `Bytes(d)` is the set of bytes that the blocks
take, one element per key and position, so that the sum of their lengths is a
cardinality: no recursion, and it can be proved about.

**BlockStore** - `BlockStore` in `worker.py`, driven by `Handlers` threads.
`put` is `PutMeasure` (the old length, read without the lock), `PutAdmit` or
`PutReject` (`can_accept`), `PutStore` (the second critical section); `delete`
and `clear` are a step each.  Contents are abstracted to lengths.  What the
operating system says of free memory is any member of `Readings`, anew each
time.

**MemCloud** - the block layer of one node.  `thread` says where each thread is
in its operation; the other variables are the object's dictionaries and
`remote`, what each peer holds for this node.  A remote call is one step with
its effect (`PutSent`, `DeleteCall`, `SpillSent`, `GetAnswered`), or an exception
with or without it (`PutRaises`, `PutNoCapacity`, `GetRaises`, `SpillEnds`); a get
whose owner is offline is a `MissingBlock` without a call (`GetOffline`).
Whether a peer is chosen and takes the block is free: it depends on figures of
the past and on the peer's own admission.  `PeerRestart` empties a peer.
`slipped` is a history of the count: what spills took off `_local_used` beyond
what they took out of `_local`.  `get_range` does as `get` does with the slice of
a block in place of the block.

**MemCloudReads** - MemCloud with history variables that say what a `get` in
progress may answer: `current` is the value, or values, of each key; `crossed`
the keys at which two operations of writers or spillers have crossed, one having
changed the peer and not yet the index, or the other way round; `lost` the
blocks that went with a peer; `seen` what a reader may have met so far.  They
only watch.  Of a key that is crossed, anything may be read until an operation
that crosses no other writes it again.

**RemoteCalls** - what MemCloud takes a call to be: its effect lies between its
beginning and its end, happens at most twice, and the answer is the call's own.

**ConnectionPool** - how it comes about: callers take turns at one connection
under a lock (`Lock`, `Connect`, `Send`, `Receive`), a failure of any kind closes
it and tries once more (`Fail`), the worker has a handler for each connection
(`Serve`, `HandlerEnds`), old ones included, and may restart.  A frame arrives
whole or its read raises.  The refinement mapping to RemoteCalls takes `lock`,
`ready` and `await` to `called`, with the answers the worker has made so far.

**ImageCache** - `seed` step by step, with the file created (`SeedFile`) and
written (`SeedWrite`) apart; `read` with the look at `location()` and the `get`
apart; `reset` in its two parts.  The geometry a frame was generated with stands
for its contents and its CRC.  MemCloud appears as what it answers: a frame may
be put anywhere or nowhere, move to a peer, go (`Moves`), or be out of reach.

**Lists** - lists in which an element is once at most: `Distinct`, and `Without`
for `list.remove`.  The table of peers and the list of subscribers are such.

**Discovery** - the table in the order the probe loop walks it, Peer objects
named after the id they were created under, the loop's position, and time in
seconds.  The timeout that `_probe` gives is that of each operation on its
socket (connect, TLS handshake, every send and recv), so a probe, of a live
worker or a dead one, ends at any moment between at once and `ProbeLimit`, which
is `ProbeOps` operations of `ProbeTimeout` each.  Beacons come at any time or
never.  The initial state and the next-state relation are `PeersInit` and
`PeersNext`, so that the module can be proved about side by side with Events.

**Placement** - the remote half of the system: one node's Scheduler, its puts,
deletes, clears and spills, and its probes, against workers that other nodes use
as well, under the same names.  `op` says where each of the node's threads
(`Writers`, `Deleters`, `Spillers`) is; they overlap as they like, but that calls
to one worker take turns on its connection (`MayCall`).  `Select` is the
scheduler's order of preference.  A put stays on the node (`PutLocal`) or is
`PutSelect` (choose), `PutAdmitted` and `PutStored` (the worker's two critical
sections), `PutRefused` or `PutGuarded` (`can_accept` answers no, the latter
because the host itself is short), `PutIndexed`, `PutLower` (lower the estimate);
an attempt may fail before or after it was admitted and be repeated
(`PutRetried`), or the call raises (`PutRaises`).  A spill selects for a block that
is here (`SpillSelect`) and goes the same way.  What a worker has admitted and
nobody waits for is in `pending`: other nodes' PUTs (`OtherAdmitted`), and this
node's whose call has ended; `PendingStored` stores it at any later moment.
`Delete` and `Clear` take keys out of the index and then send their DELs
(`DelDone`, `DelLost`).  A probe is `ProbeAsk` (the worker answers) and `ProbeNote`
(the figures are written down), so that puts get in between.  `Expires` marks a
peer offline, whether it is down or only its probes are late.  `StrayDelete`,
`Stop` and `Start` happen behind the node's back.

**PlacementHistory** - Placement with what was done behind the node's back or by
its own threads out of order (`touched`), the blocks it gave up (`left`), and the
threads whose put chose on figures that were right, and since when no worker has
changed (`exact`).

**Objects** - objects kept as chunks, over what MemCloud answers for a block: a
step is one operation on a block or on `_manifests`.  `put_object` stores its
chunks in order and enters the manifest last (`PutChunk`, `PutManifest`), or fails
half way (`PutFails`); `get_object` takes the manifest and fetches the chunks in
any order (`Fetch`), then joins them (`GetJoin`); `get_object_range` walks over the
chunk boundaries (`RangePiece`); `TensorStore.get_rows` reads the manifest twice
(`GetRows`, `RowsRange`).  `sent` has the PUTs under way, each with the bytes its
chunk had when it was sent: a spill's (`SpillSends`, `RequestStored` when the peer
carries it out, `SpillEnd` when the spill enters the chunk at the peer, whatever
has been put or deleted since), and those of puts that the peer carries out
before the put enters the chunk, or after it gave up (`PutSends`).  Chunks at
peers are lost (`BlockLost`).

**ObjectReads** - Objects with history variables that say when a name is *whole*,
that is, when its manifest and its chunks are those of one put.  A chunk that is
put while a PUT of other bytes for it is under way, or deleted while a spill of
it is, has been crossed, and its name is not whole until the next operation.

**PrefixKV** - `PrefixKVStore` on top of Objects: `Store`/`StoreIndexed`, `Evict`/
`EvictObject`, `FetchMiss`/`FetchHit`/`FetchObject`.  A key is a hash of what it
stands for, so a name has one content for good (`Content`).  **PrefixKVReads**
adds the history: which prefixes were stored and not taken away since (`sure`).

**Events** - `Node.emit` and the event streams: emit takes a copy of the list of
subscribers (`Emit`) and offers the event to one queue after the other (`Offer`),
a stream is a thread that waits for its queue (`Take`, `KeepAlive`), writes
(`Write`, which waits as long as the client does not read) and unsubscribes when
a write raises.  **EventHistory** notes which events are due to whom.

The **MC** modules give the constants values for TLC; **DictionaryProofs**,
**BlockStoreProofs**, **MemCloudProofs**, **PlacementProofs**,
**ConnectionPoolProofs**, **ImageCacheProofs**, **ObjectProofs** (Objects and
PrefixKV) and **NodeProofs** (Events and Discovery) hold theorems.  Operators whose comment begins with "Mutant:"
are not part of a specification: each is a definition with a plausible mistake
in it, kept beside the right one to show that a property notices.

## What the runs check

| Run | Instance | Holds |
|---|---|---|
| `BlockStore` | 4 keys, 2 handlers, lengths 0 to 2, reserve 2 | types; `Accounting`: the count is the bytes held; `OwnersMatchBlocks`; `OvershootBounded`: the reserve is outgrown by at most a largest block per handler |
| `MemCloud` | 1 key, 2 contents, 2 peers; 2 writers, a reader, 2 spillers, all overlapping; blocks of no bytes | `LocalIndexAgree`: `_local`, `_lru`, `_index`, `_sizes` agree on what is local; `GetReturnsCurrent`: a get answers with a value its key had while it ran, through moves, lost calls and restarts |
| `MemCloudRace` | 3 keys, 1 peer, 2 writers of two keys each that share one, a spiller; budget of one block | types; `LocalAccounting`; `LocalBounded`: the budget is passed by a block for the second writer and what slipped from the count; `SpillTerminates` |
| `ConnectionPool` | 2 callers, 2 contents, 2 connections | types; `SocketClean`: nothing of another call on the connection; `CallsImplemented`: refines RemoteCalls; `LockReleased` |
| `ImageCache` | 2 seeders (1 or 2 frames), 2 readers, a resetter; one geometry | types; `ColdCopy`, `ReadsVerify`, `ReadsServed`, `SeedingEnds` |
| `Discovery` | 3 seeds, one of which may be down and sends beacons; probes of two socket operations of a second each | types; `NoTwins`; `ProbedInTime`; `KnownStays`: no worker once known by its id is forgotten; `SeedsSettle` |
| `Placement` | a thread that puts and one that deletes, clears and spills; 2 workers, blocks and reserves of one byte; one key of the node's, two of the others'; one PUT nobody waits for; one worker that fails, expires and is used by others | types; `IndexedHeld`, `HeldIndexed`: index and workers agree but for what others, crashes, failed calls and crossing operations did; `RoomIsFound`; `EstimatesSettle` |
| `Objects` | 1 name, contents of 0 and 4 bytes, chunks of 3; 2 writers, a reader of objects, ranges and rows; one PUT under way, of a spill or a put | types; `ReadExact`, `ReadServed`: a read of a name that stays whole; `DeleteRemoves` |
| `PrefixKV` | a prefix of two chunks; 2 writers, a reader; two PUTs under way | `HitIsExact`, `StoredIsServed` |
| `Events` | 2 emitters of an event each, 2 streams with queues of 1 and 2 | types; `InOrder`; `NotLost`; `EmitReturns`; `GoneUnsubscribed` |

`MemCloudLostUpdate` and `ImageCacheGeometry` end in a violation; they are
described in the next section.

Why the bounds are enough.  The races in these components are between two
operations on one key, with at most a third party (a peer that restarts, a
reset, a beacon): two threads of the kind that conflict, and two keys where one
block must make room for another.  The overshoot of the block store needs
two handlers in `put` with two different keys besides the ones already stored,
hence four keys.  Two connections are the one in use and a closed one whose
handler is still at work.

In `MemCloud` what a get answers does not depend on lengths: blocks of no bytes
let any put stay or go at any time, and every race at one key is there with two
writers and two spillers.  In `MemCloudRace` the budget is one block: two puts
pass the test together and are stored beside a third block, which takes three
keys and two writers.  Two bounds keep its space finite and small: a writer uses
two of the three keys (`Share`), and a spill is called only while nothing has
slipped from the count, as overlaps lower it without end otherwise.

In Discovery, `MaxAge` (27) lies beyond the bound that `ProbedInTime` claims (26:
a wait of 2, and four probes of 2 seconds for each of three hosts), so that an
age beyond it would be seen.  The seed that may be down is also the one whose
beacons are heard, which makes the second entry.

In Placement one worker (`Unsteady`) fails, expires and is used by the others,
and one does not; a worker is full after one block, so that estimates that are
wrong make a put fail or take the worse choice; `MaxPending` is the number of
PUTs nobody waits for; the others' keys contain the node's and one more.  Two
threads that put at once cost TLC too much here: the instance has one that puts
and one that spills, deletes and clears, and the theorems are of any number.

In Objects the chunk boundary (3) lies within a row (2) and within a range;
contents are longer than a chunk, and empty; two writers that store, delete and
fail around one read, and one PUT under way that crosses them, is the most that
one read can tell apart.  PUTs under way are of the first chunk (`FirstChunk`),
whose bytes differ between the contents.  Offsets before the start of an object
are left to the theorems.  In PrefixKV a fetch needs two chunks, and two PUTs
cross it.  In Events two events are one too many for one queue and can change
places in the other; `CHECK_DEADLOCK FALSE` is there because emitters stop after
`MaxEvents` and every client may have left.

## Disagreements with the documentation

Two runs state what the documentation says, and TLC finds the code to do
otherwise.

- `MemCloudLostUpdate` - "Deleting a block makes the next read fall through to
  the disk tier" (`README.md:198`).  A block deleted during spill's PUT of it is
  entered in the index again afterwards (`DeletedStays`).  By the same gap a put
  that a spill overlaps is undone, and a chunk that `put_object` has just stored
  is replaced by the one before: `GetReturnsCurrent`, `ReadExact` and
  `DeleteRemoves` say nothing where a spill has crossed.
- `ImageCacheGeometry` - "every cached frame is CRC-verified on every read; zero
  failures" (`README.md:196`).  A seed at another size keeps the files of the
  first and records the CRCs of the second.

What else the models show, in passing, of where the code and its texts part:

- The worker "enforces its own admission limit" (`worker.py:9`), but two PUTs
  admitted against the same count outgrow it.  `OvershootBounded` says by how
  much, and theorem `SoloReserve` that one handler alone does not.
- A spill that overlaps a delete or a put takes the same block off
  `_local_used` twice (`client.py:353`); the count is then below the bytes held
  and the budget is passed.  `slipped` is by how much.
- A delete, or clear, that another thread's put of the key overtakes removes the
  new block at the peer (`client.py:307`); `IndexedHeld` calls such a block
  touched, `GetReturnsCurrent` its key crossed.
- "Reads fall through to the disk cold store" when a peer dies
  (`README.md:216`).  Only `MissingBlock` makes them (`imagecache.py:196`); until
  the peer is marked offline the call raises `OSError`, which `read` lets pass.
  `ReadsServed` therefore excepts an unreachable peer.
- The 3 seconds of a probe (`discovery.py:219`) are the timeout of every connect,
  handshake, send and recv, and a probe may take several.  Slow and dead
  peers delay the probe of a live one beyond `OFFLINE_AFTER` (`discovery.py:209`),
  which then is offline for a while.  `ProbedInTime` gives the bound that holds,
  in multiples of what a probe may take.
- `NoCapacity` says "Neither local budget nor any peer could hold the block"
  (`client.py:33`); it is raised as soon as the one peer selected refuses
  (`client.py:239`), also when two threads have chosen the same one, as the
  estimate is lowered only after the call (`client.py:253`).  `RoomIsFound` says
  when that makes no difference: for a put that chose on right estimates and
  since when no worker has changed.  It may also be raised of a block that was
  stored: by the first attempt of a PUT whose second is refused.  Also, a block
  that is to replace another of its name
  needs room for its whole length in the estimate, though the worker would count
  only the difference.
- "Ties broken by system available RAM" (`client.py:16`): no code does; the
  first of the table wins.
- `PrefixKVStore.fetch` returns "(None, None, ms) on a miss" (`llm.py:227`).
  After a clear, the loss of a peer, or a store that races an evict, the prefix
  is in `_index` and its chunks are not: `fetch` raises `MissingBlock` instead.
  `StoredIsServed` says when it does not.
- A `put_object` shorter than the object before it leaves the tail of chunks at
  the peers for good (`client.py:471`).
- A beacon makes a peer that has just restarted online with the `reserve_free` of
  before, until the next probe.

## Fairness

Liveness is claimed only from weak fairness of steps the program cannot help
taking:

- a spill, or a seed, that has been called goes on (`SpillContinue`,
  `SeedStep`): it is a loop in one thread, and each remote call in it returns or
  raises because its socket has a timeout;
- the thread that has a connection's lock goes on (`HolderStep`, for the same
  reason), and the worker's threads are scheduled (`Serve`).  Nothing is assumed
  about who gets the lock, callers may wait for ever;
- time passes and the probe thread runs (`Tick`, `ProberStep`): `_probe` catches
  whatever connecting and asking raise (`discovery.py:218-227`); the lines after
  that (229-250) are outside the `try`, and raise nothing on a worker's answer;
- in Placement, the probe loop alone (`ProbeLoop`), for the same reason;
- in Events, `Offer` (emit never waits) and the part of a stream's thread that
  does not wait for its client (`StreamGoesOn`: waiting for the queue has a
  timeout), and `Reset`: the network notices in the end that a client has left.

No fairness is assumed of callers, of peers, of beacons, of peers coming back,
or of clients reading what they are sent.

## Assumptions

Most are constants, so that a reader can see what depends on them and check what
happens without.  MemCloud, BlockStore and Events have none but the types of
their constants.

- `Prompt` (ConnectionPool): the worker reads a request within the client's
  timeout.  Otherwise a request whose call has given up may be carried out after
  the call returned, and the refinement fails.
- One geometry, no `drop_disk`, no failing write (ImageCache: `Geometries`,
  `Drops`, `WritesFail`).  Without any one of these `ColdCopy` fails.
- `ProbeOps` (Discovery): how many socket operations a probe makes.  A peer that
  sends its answer byte by byte could make it more than any number.
- `Flaky` (Discovery): the hosts that may go down; a probe of a host that runs
  is answered.  `Seeds` are distinct, as a seed given twice is one entry under one
  placeholder, and no placeholder is a worker's id.
- `None` is no writer (ObjectReads): it is what `owner` is when there is none.
- `Mine` and `Theirs` (Placement): the names the node and the others use; they
  overlap.  A PUT whose call has ended was admitted before it ended; the worker
  measures the block to be replaced in the step that admits (module BlockStore
  has the measure apart).  `EstimatesSettle` is about a time when no operation is
  in progress and the workers are left alone, which is what it takes for an
  estimate to be right.
- `Content` (PrefixKV): a prefix has one content, as its key is a hash of it.
- `MaxEvents` (Events): a bound on emitters, for TLC only; the theorems hold for
  any.

## Proofs

All by TLAPS, for any sets of keys, owners, threads, peers and any lengths.

**DictionaryProofs** - what `Store` and `Drop` do to the bytes of a dictionary.
`RowsChange` is the core: replacing one row of a table of bytes changes its
cardinality by the difference of the row lengths.

**BlockStoreProofs** - `TypeCorrect`; `OwnersMatch` and `AccountingHolds`,
inductive as they stand given the types; `OvershootIsBounded`: the bound is not
inductive, and is strengthened to `Committed`: the count plus what the admitted
PUTs may yet add is at most the reserve plus a largest block per handler;
`SoloReserve`: with one handler the reserve is never exceeded, which shows that
the overshoot is due to concurrency alone.

**MemCloudProofs** - `TypeCorrect`; `DictionariesAgree`; `AccountingHolds` and
`BudgetHolds`: all under every overlap, with no assumption beyond those on the
constants' types.  For the count, `slipped` grows by exactly what a spill takes
off beyond what is in `_local` at that moment.  For the budget, `Committed`: the
count plus the bytes of the puts that have passed the test is at most the budget
and a largest block per further writer.  `GetsAreCurrent` is proved
of any number of writers, readers and spillers.  `GetReturnsCurrent` speaks of a
get that has its answer; what carries it there is an invariant on the writers'
side: at a key that is not crossed at most one thread is busy (`Sole`), the peer
that the index names holds the key's current value or lost it with a restart
(`IndexCurrent`), and so it does between the effect of a call and the index
(`BusyCurrent`); and one on the readers': a get in progress has seen every value
that its key has or is being given, and, while its call is on the way, what the
peer it asks would answer.

**ConnectionPoolProofs** - `TypeCorrect`; `SocketsAreClean`; and, under `Prompt`,
`CallsAreRemoteCalls`: every step of ConnectionPool is a step of RemoteCalls or
stutters.  Three invariants carry it.  `Turns`: the lock's holder is the caller
that is past `Lock`, and it waits for an answer only on a connection it has.
`Clean`: the pooled connection holds nothing unless the holder awaits an answer,
and then one request or one answer in all.  `Owned`: a request still to be read,
on whatever connection, is the holder's and on the pooled one; an answer still
to be read is the last that was made to the holder; and no call has been
answered more often than it was sent.  The first two need no assumption.

**ImageCacheProofs** - `TypeCorrect` under no assumption; then, with one
geometry, no `drop_disk` and no failing write (`Kept`), `FramesAreOnDisk`,
`ServedReadsVerify` and `KnownFramesAreServed`.  `ColdCopy` is not inductive: it
is strengthened by `One` (one seed at a time, and `seeding` set meanwhile) and
`Files` (a file that is not whole is being written by that seed, and a file
that a seed has begun or found stays), and the reads by `Reads` (a read in
progress looks for a frame that is known).

**PlacementProofs** - `TypeCorrect`; `IndexIsHeld` and `HeldIsIndexed`, for any
workers, keys, lengths, reserves, and any threads that put, delete, clear and
spill.  The two are proved together, as the invariant `Agreement`: neither
survives a step alone, since what the index says of a block and what the worker
holds change in different steps.  It adds `StoredHeld` (a PUT that has been
answered is on its worker with the length the thread will enter, although the
index does not say so yet, unless it has been touched) and `TwoStored` (where two
threads have stored one block, it has been touched).  `FoundIfRoom`: while no
worker has changed since a put chose on right estimates, the worker it chose has
room until it is asked, and a put that failed found none anywhere (`Chosen`).
That `select` finds a worker whenever one is eligible (`SelectFinds`) is proved
for any number of workers without induction: by `Least`, which takes the order of
the numbers to be well-founded, there is a best score, and of those that share it
a first in the table.

**ObjectProofs** - first the arithmetic, for every length and chunk size: the
chunks of a content put together in order are the content (`ChunksCover`,
`ChunksGrow`, `ChunksEnd`), each byte is in one chunk at one offset
(`ChunkOfByte`), and the piece that one turn of `get_object_range` takes of a
chunk is the next piece of what was asked for (`PieceOfChunk`).

Of Objects: `ObjectsTyped`, then `ReadsAreExact`, `ReadsAreServed` and
`DeletesRemove`, together, from one invariant, `ReadsRight`.  A property of reads
alone is not inductive, since a chunk is read long after the manifest, and
writers of the same name go on meanwhile.  Its parts are: a name that is whole
has the manifest and all the chunks of one content (`WholeHolds`); a put that has
its name to itself has stored its own chunks so far, and a delete that has,
removed them (`OwnerHolds`); of neither may a PUT under way bring back other
bytes, or what was deleted (`MayRead`, `MayBe`); and a read that has found its
name whole all along has collected, of that content, what its place in the loop
says (`ReaderRight`).

Of PrefixKV, for any prefixes, contents, chunk sizes and threads: `HitsAreExact`
rests on `Exact`: every chunk held is the part of its prefix's content that its
name says, whoever put it there, and so is every PUT under way (`SentExact`);
what a fetch has joined so far is the content as far as it goes.  `StoredServed` adds `Reliable`: a prefix that is sure
is whole, and a store of which nothing was taken finds, when it is done, all its
chunks in place, even though other stores fail half way meanwhile.

**NodeProofs** - of Events: `TypeCorrect`, `StreamsInOrder` and `NothingLost`, for
any emitters, clients, queue sizes and numbers of events.  `Order` is what is
inductive for the first: of any two events on their way to a client, in what was
sent, in the write in progress or in the queue, the later one may follow the
earlier (`FlowOrdered`), nothing is on its way that was not emitted
(`FlowEmitted`), and what an event comes after had returned (`Past`).  For the
second, `Served`: an event that is due has arrived, or its emit has still to come
to the client, whatever happened to the list of subscribers in between.

Of Discovery, for any hosts, seeds and timeouts: `PeersAreTyped`,
`OneEntryOnline`, `KnownForGood` and `AskedAgain`.  The first three follow from
`TableRight`: the table has each Peer and each id once (`TableKeyed`); a seed
under its placeholder has never answered and so is offline, but between an answer
and the promotion (`SeedsOffline`), which is what makes two entries of one host
harmless; a Peer out of the table was made by a beacon, and the seed of its host
has its place (`Orphans`); and a sweep has each entry once, and no time passes between
an answer and its promotion (`ProbesInOrder`).  `AskedAgain` bounds the age of an
entry by the place of the loop: `InTime` says how old it may be when the rest of
the sweep is `todo`, `Late`, given that a whole sweep takes at
most `Budget`, the time of two probes per host, since the table has two entries
for a host at most.  An entry probed at the start of a sweep and at the end of
the next waits for two of those and one pause, which is the bound
that `ProbedInTime` states.

TLC checked each of these invariants on a small instance before it was proved.

Only model-checked: what is temporal (`SpillTerminates`, `LockReleased`,
`SeedingEnds`, `SeedsSettle`, `EstimatesSettle`, `EmitReturns`,
`GoneUnsubscribed`), as the prover does not do liveness under fairness.

## What is not modelled

- *Two nodes in full detail*: Placement has one, and lets the others do anything
  to the workers that a node can.  A second index would add nothing that the
  first node could notice.
- *The moment between a seed's first probe and its promotion*
  (`discovery.py:238`): Placement takes peers under their real ids.
- *Security*: writes a certificate once and sets options of OpenSSL contexts; no
  state, no concurrency, and what a handshake does is OpenSSL's.
- *meminfo*: asks the operating system; its answer is a free choice where it is
  used (`Readings`, `PutGuarded`).
- *Dashboard, routing of HTTP requests, start-up and reports of the node*: text,
  or wiring that runs once; the rest does not depend on them.
- Statistics, latencies, events and logs; the bytes of a frame; bitmap contents.
- A seed without `write_disk`, which nothing asks for.
- `ConnectionPool.drop`, which nothing calls; `MemCloud.under_pressure`,
  `report`, `location`, which change nothing.

## Plan

In order of weight; done but for what the last leaves.

1. BlockStore, with proofs.
2. MemCloud's block layer and what a get may answer, with proofs of the
   invariants.
3. RemoteCalls and ConnectionPool: the abstract call and its implementation.
4. ImageCache.
5. Discovery, with proofs.
6. Objects, and the prefix cache on top, with proofs of both.
7. Placement: the scheduler and workers shared with other nodes, with proofs.
8. Events, with proofs.
9. *Proofs*: every invariant and action property of the passing runs is proved.
   What remains is to prove that the modules fit one another: that the two steps
   which Placement takes a worker's PUT to have are BlockStore's three, where the
   measure is not stale; that the block layer which Objects assumes is what
   MemCloud's operations provide.
