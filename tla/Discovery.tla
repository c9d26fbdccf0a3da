----------------------------- MODULE Discovery -----------------------------
(***************************************************************************)
(* How a node finds its peers and tells whether they are online            *)
(* (memcloud/discovery.py): entries for the --peer seeds, beacons that     *)
(* create or refresh an entry, and one thread that probes every entry in   *)
(* turn, then waits.  A seed is entered under a placeholder id until its   *)
(* first STAT reveals the real one.                                        *)
(*                                                                         *)
(* Time is discrete, in seconds.  The timeout of a probe is that of each   *)
(* operation on its socket (connect, TLS handshake, every send and every   *)
(* recv), so a probe takes up to ProbeOps of them, whether it is answered  *)
(* in the end or not; it may also end at once (an answer, or a connection  *)
(* refused).  Beacons are UDP and may all be lost.                         *)
(*                                                                         *)
(* Left out: the measurements a STAT brings, names and ports, the event    *)
(* that announces a peer, and this node's own beacons.                     *)
(***************************************************************************)
EXTENDS Lists, FiniteSets

CONSTANTS
    Hosts,          \* the other nodes; a host is the real id of its worker
    Seeds,          \* the --peer arguments, in order
    Heard,          \* the hosts whose beacons may get through
    Flaky,          \* the hosts that may be down
    OfflineAfter,   \* OFFLINE_AFTER
    ProbeInterval,  \* PROBE_INTERVAL
    ProbeTimeout,   \* the timeout _probe gives each operation on its socket
    ProbeOps,       \* how many of these a probe makes, at most
    MaxAge          \* bound: ages are counted up to here

\* A seed given twice is one entry (upsert finds the id the second time), and no
\* worker calls itself by a placeholder: an id is hexadecimal (stable_node_id).
ASSUME DiscoveryConstants ==
    /\ IsFiniteSet(Hosts)
    /\ Seeds \in Seq(Hosts) /\ Distinct(Seeds)
    /\ Heard \cup Flaky \subseteq Hosts
    /\ {OfflineAfter, ProbeInterval, ProbeTimeout, ProbeOps, MaxAge} \subseteq Nat \ {0}
    /\ OfflineAfter <= MaxAge
    /\ \A h \in Hosts : <<"static", h>> \notin Hosts

VARIABLES
    peer,       \* the Peer objects: id, and seconds since last seen or probed
    table,      \* PeerTable._peers, in the order of its insertions
    prober,     \* where the probe loop is
    up,         \* the hosts whose worker runs
    found       \* history: the hosts that have answered since they came up

pvars == <<peer, table, prober, up, found>>

\* A Peer object is named after the id it is created under.
Static(h) == <<"static", h>>
Ids == Hosts \cup {Static(h) : h \in Hosts}
HostOf(o) == IF o \in Hosts THEN o ELSE o[2]

Online(o) == peer[o].age < OfflineAfter

\* How long a whole probe may take.
ProbeLimit == ProbeOps * ProbeTimeout

Waiting(n) == [at |-> "wait", left |-> n]
Sweeping(todo) == [at |-> "sweep", todo |-> todo, elapsed |-> 0]

PeersInit ==
    /\ table = [i \in DOMAIN Seeds |-> Static(Seeds[i])]
    /\ peer = [o \in {Static(Seeds[i]) : i \in DOMAIN Seeds} |->
                    [id |-> o, age |-> MaxAge]]
    /\ prober = Waiting(0)
    /\ up \in {U \in SUBSET Hosts : Hosts \ Flaky \subseteq U}
    /\ found = {}

\* A beacon of h: upsert and last_seen.  (The listener does the one after the
\* other; in between a new entry counts as offline.)
Beacon(h) ==
    /\ h \in Heard \cap up
    /\ LET known == {o \in DOMAIN peer : peer[o].id = h /\ \E i \in DOMAIN table : table[i] = o}
       IN  IF known = {}
           THEN /\ peer' = [o \in DOMAIN peer \cup {h} |->
                        IF o = h THEN [id |-> h, age |-> 0] ELSE peer[o]]
                /\ table' = Append(table, h)
           ELSE /\ peer' = [o \in DOMAIN peer |->
                        IF o \in known THEN [peer[o] EXCEPT !.age = 0] ELSE peer[o]]
                /\ UNCHANGED table
    /\ UNCHANGED <<prober, up, found>>

SweepStart ==
    /\ prober = Waiting(0)
    /\ prober' = Sweeping(table)
    /\ UNCHANGED <<peer, table, up, found>>

SweepEnd ==
    /\ prober.at = "sweep"
    /\ prober.todo = <<>>
    /\ prober' = Waiting(ProbeInterval)
    /\ UNCHANGED <<peer, table, up, found>>

Probing(o) ==
    /\ prober.at = "sweep"
    /\ prober.todo # <<>>
    /\ o = Head(prober.todo)

ProbeOk(o) ==
    /\ Probing(o)
    /\ HostOf(o) \in up
    /\ peer' = [peer EXCEPT ![o].age = 0]
    /\ found' = found \cup {HostOf(o)}
    /\ prober' = [at |-> "promote", todo |-> prober.todo]
    /\ UNCHANGED <<table, up>>

\* Mutant: the exception leaves the loop over the table.
ProbeFailsAbandons(o) ==
    /\ Probing(o)
    /\ HostOf(o) \notin up
    /\ prober' = Sweeping(<<>>)
    /\ UNCHANGED <<peer, table, up, found>>

\* Mutant: probes the same entry again until it answers.
ProbeFailsRetries(o) ==
    /\ Probing(o)
    /\ HostOf(o) \notin up
    /\ prober' = Sweeping(prober.todo)
    /\ UNCHANGED <<peer, table, up, found>>

\* Mutant: drops the entry of a worker that does not answer.
ProbeFailsForgets(o) ==
    /\ Probing(o)
    /\ HostOf(o) \notin up
    /\ prober' = Sweeping(Tail(prober.todo))
    /\ table' = Without(table, o)
    /\ UNCHANGED <<peer, up, found>>

ProbeFails(o) ==
    /\ Probing(o)
    /\ HostOf(o) \notin up
    /\ prober' = Sweeping(Tail(prober.todo))
    /\ UNCHANGED <<peer, table, up, found>>

\* Mutant: the placeholder is not popped, only entered again.
PromoteKeepsSeed(o) ==
    LET real == HostOf(o)
    IN  /\ prober.at = "promote"
        /\ o = Head(prober.todo)
        /\ IF peer[o].id = real
           THEN UNCHANGED <<peer, table>>
           ELSE /\ peer' = [peer EXCEPT ![o].id = real]
                /\ table' = IF \E i \in DOMAIN table : peer[table[i]].id = real
                            THEN [i \in DOMAIN table |->
                                    IF peer[table[i]].id = real THEN o ELSE table[i]]
                            ELSE Append(table, o)
        /\ prober' = Sweeping(Tail(prober.todo))
        /\ UNCHANGED <<up, found>>

\* After an answer, a placeholder is popped and goes back under its real id: in
\* place of the entry that a beacon made, or at the end.
Promote(o) ==
    LET real == HostOf(o)
        rest == Without(table, o)
    IN  /\ prober.at = "promote"
        /\ o = Head(prober.todo)
        /\ IF peer[o].id = real
           THEN UNCHANGED <<peer, table>>
           ELSE /\ peer' = [peer EXCEPT ![o].id = real]
                /\ table' = IF \E i \in DOMAIN rest : peer[rest[i]].id = real
                            THEN [i \in DOMAIN rest |->
                                    IF peer[rest[i]].id = real THEN o ELSE rest[i]]
                            ELSE Append(rest, o)
        /\ prober' = Sweeping(Tail(prober.todo))
        /\ UNCHANGED <<up, found>>

\* Mutant: a probe has no time limit.
TickForever ==
    /\ \/ /\ prober.at = "wait" /\ prober.left > 0
          /\ prober' = Waiting(prober.left - 1)
       \/ /\ \E o \in Ids : Probing(o)
          /\ prober' = [prober EXCEPT !.elapsed = @ + 1]
    /\ peer' = [o \in DOMAIN peer |-> [peer[o] EXCEPT !.age =
                    IF @ < MaxAge THEN @ + 1 ELSE @]]
    /\ UNCHANGED <<table, up, found>>

\* A second passes: in the wait, or in a probe that is not over yet.
Tick ==
    /\ \/ /\ prober.at = "wait" /\ prober.left > 0
          /\ prober' = Waiting(prober.left - 1)
       \/ /\ \E o \in Ids : Probing(o)
          /\ prober.elapsed < ProbeLimit
          /\ prober' = [prober EXCEPT !.elapsed = @ + 1]
    /\ peer' = [o \in DOMAIN peer |-> [peer[o] EXCEPT !.age =
                    IF @ < MaxAge THEN @ + 1 ELSE @]]
    /\ UNCHANGED <<table, up, found>>

Stop(h) ==
    /\ h \in Flaky \cap up
    /\ up' = up \ {h}
    /\ found' = found \ {h}
    /\ UNCHANGED <<peer, table, prober>>

Start(h) ==
    /\ h \in Hosts \ up
    /\ up' = up \cup {h}
    /\ UNCHANGED <<peer, table, prober, found>>

ProberStep ==
    \/ SweepStart
    \/ SweepEnd
    \/ \E o \in Ids : ProbeOk(o) \/ ProbeFails(o) \/ Promote(o)

PeersNext ==
    \/ \E h \in Hosts : Beacon(h) \/ Stop(h) \/ Start(h)
    \/ ProberStep
    \/ Tick

PeersSpec == PeersInit /\ [][PeersNext]_pvars

\* Time passes, and the probe loop keeps running: _probe catches whatever connect
\* and request raise, and its lines after that raise nothing on a worker's answer.
FairSpec == PeersSpec /\ WF_pvars(Tick) /\ WF_pvars(ProberStep)

-----------------------------------------------------------------------------
Entry == [id : Ids, age : 0 .. MaxAge]

Todos == Seq(DOMAIN peer)

\* Types; an entry has the id it was made under or the real one, and the probe
\* loop is never in a probe for longer than its operations can take.
PeersTyped ==
    /\ DOMAIN peer \subseteq Ids
    /\ peer \in [DOMAIN peer -> Entry]
    /\ \A o \in DOMAIN peer : peer[o].id \in {o, HostOf(o)}
    /\ table \in Seq(DOMAIN peer)
    /\ prober \in [at : {"wait"}, left : 0 .. ProbeInterval]
            \cup [at : {"sweep"}, todo : Todos, elapsed : 0 .. ProbeLimit]
            \cup [at : {"promote"}, todo : Todos \ {<<>>}]
    /\ up \subseteq Hosts
    /\ found \subseteq up

\* The entries of the table for a host.
EntriesOf(h) == {i \in DOMAIN table : HostOf(table[i]) = h}

\* A worker is never offered to the scheduler twice: two entries for one host,
\* the placeholder and the one a beacon made, are online together only between
\* the answer to the first probe and the promotion that merges them.
NoTwins ==
    prober.at # "promote" =>
        \A h \in Hosts : Cardinality({i \in EntriesOf(h) : Online(table[i])}) <= 1

\* A worker that stays up and has answered is asked again in time: not later
\* than one wait and four probes for each host.  (Twice two: the table may have
\* two entries for a host, as NoTwins has it, and they may be probed both after
\* the worker's own entry and, once its promotion has moved that to the end,
\* before it again.)
ProbedInTime ==
    \A h \in found \ Flaky : \E i \in EntriesOf(h) :
        peer[table[i]].age <= ProbeInterval + 4 * ProbeLimit * Cardinality(Hosts)

\* What the table knows under its real id.
Known(h) == \E i \in DOMAIN table : peer[table[i]].id = h

\* A worker that is once known by its id stays so, through its absence and
\* through the promotion of a seed: the blocks that are indexed under the id
\* are found again when it is back.
KnownStays == [][\A h \in Hosts : Known(h) => Known(h)']_pvars

\* A seed that stays up is known under its real id in the end, and for good,
\* whatever other seeds do ("always works", discovery.py:7).
SeedsSettle ==
    \A h \in {Seeds[i] : i \in DOMAIN Seeds} \ Flaky :
        <>[]Known(h)
=============================================================================
