------------------------------- MODULE Events -------------------------------
(***************************************************************************)
(* The events of a node (subscribe, unsubscribe and emit of                *)
(* memcloud/node.py) and the streams that carry them to dashboards (_sse   *)
(* of memcloud/api.py).  Any thread of the node emits; each stream has a   *)
(* thread of its own and a queue of limited size.                          *)
(*                                                                         *)
(* emit copies the list of subscribers under the lock and offers them the  *)
(* event one by one after it has let go; an event that finds a queue full  *)
(* is dropped for that stream.  A client may stop reading, and then the    *)
(* write of its stream blocks for as long as it does.  It may leave, which  *)
(* the stream learns from a write that raises, and only then.              *)
(*                                                                         *)
(* Left out: what an event says, and the lock (each of the three takes it  *)
(* once, and its one use of the list is a step here).                      *)
(***************************************************************************)
EXTENDS Lists

CONSTANTS
    Emitters,   \* threads that emit
    Clients,    \* clients, each with one request for the stream
    QueueSize,  \* maxsize of the queue of each stream
    MaxEvents,  \* bound: events of one emitter
    None        \* no event

ASSUME EventConstants ==
    /\ QueueSize \in [Clients -> Nat \ {0}]
    /\ MaxEvents \in Nat
    /\ None \notin Emitters \X Nat

VARIABLES
    subs,       \* _subs
    emitter,    \* per emitter: its events so far, and its emit in progress
    queue,      \* per client: the queue of its stream
    stream,     \* per client: where its _sse is
    net,        \* per client: its end of the connection
    sent        \* per client: the events written to the connection

vars == <<subs, emitter, queue, stream, net, sent>>

Events == Emitters \X (1 .. MaxEvents)

Idle == [at |-> "idle"]
Ask == [at |-> "get"]
Writing(m) == [at |-> "write", event |-> m]

Init ==
    /\ subs = <<>>
    /\ emitter = [e \in Emitters |-> [count |-> 0, op |-> Idle]]
    /\ queue = [c \in Clients |-> <<>>]
    /\ stream = [c \in Clients |-> [at |-> "new"]]
    /\ net = [c \in Clients |-> "there"]
    /\ sent = [c \in Clients |-> <<>>]

-----------------------------------------------------------------------------
(* emit                                                                    *)

Event(e) == <<e, emitter[e].count>>

Emit(e) ==
    /\ emitter[e].op = Idle
    /\ emitter[e].count < MaxEvents
    /\ emitter' = [emitter EXCEPT ![e] =
            [count |-> @.count + 1, op |-> [at |-> "offer", to |-> subs, next |-> 1]]]
    /\ UNCHANGED <<subs, queue, stream, net, sent>>

\* put_nowait on the next queue of list, where one that is full raises and
\* emit goes on; past the last of them emit returns.
OfferNext(e, list) ==
    LET op == emitter[e].op
    IN  /\ op.at = "offer"
        /\ \/ /\ op.next \in DOMAIN list
              /\ queue' = [queue EXCEPT ![list[op.next]] =
                    IF Len(@) < QueueSize[list[op.next]] THEN Append(@, Event(e)) ELSE @]
              /\ emitter' = [emitter EXCEPT ![e].op.next = @ + 1]
           \/ /\ op.next > Len(list)
              /\ emitter' = [emitter EXCEPT ![e].op = Idle]
              /\ UNCHANGED queue
        /\ UNCHANGED <<subs, stream, net, sent>>

\* Mutant: goes through the list itself, not through a copy.
OfferLive(e) == OfferNext(e, subs)

\* Mutant: waits while a queue is full.
OfferBlocking(e) ==
    LET op == emitter[e].op
    IN  /\ op.at = "offer"
        /\ op.next \in DOMAIN op.to => Len(queue[op.to[op.next]]) < QueueSize[op.to[op.next]]
        /\ OfferNext(e, op.to)

Offer(e) == emitter[e].op # Idle /\ OfferNext(e, emitter[e].op.to)

-----------------------------------------------------------------------------
(* _sse                                                                    *)

Goto(c, s) == stream' = [stream EXCEPT ![c] = s]

Subscribe(c) ==
    /\ stream[c].at = "new"
    /\ subs' = Append(subs, c)
    /\ Goto(c, Ask)
    /\ UNCHANGED <<emitter, queue, net, sent>>

\* Mutant: takes the event that was queued last.
TakeNewest(c) ==
    /\ stream[c].at = "get"
    /\ queue[c] # <<>>
    /\ Goto(c, Writing(queue[c][Len(queue[c])]))
    /\ queue' = [queue EXCEPT ![c] = SubSeq(@, 1, Len(@) - 1)]
    /\ UNCHANGED <<subs, emitter, net, sent>>

Take(c) ==
    /\ stream[c].at = "get"
    /\ queue[c] # <<>>
    /\ Goto(c, Writing(Head(queue[c])))
    /\ queue' = [queue EXCEPT ![c] = Tail(@)]
    /\ UNCHANGED <<subs, emitter, net, sent>>

\* Mutant: get without a timeout.
KeepAliveNever(c) == FALSE /\ UNCHANGED vars

\* get has waited for 15 s.
KeepAlive(c) ==
    /\ stream[c].at = "get"
    /\ queue[c] = <<>>
    /\ Goto(c, Writing(None))
    /\ UNCHANGED <<subs, emitter, queue, net, sent>>

\* A client that is there may read late or never, and the write waits for it.
\* One that has left takes no bytes, but the write succeeds until the
\* connection is known to be gone.
Write(c) ==
    /\ stream[c].at = "write"
    /\ net[c] \in {"there", "left"}
    /\ sent' = IF stream[c].event = None THEN sent
               ELSE [sent EXCEPT ![c] = Append(@, stream[c].event)]
    /\ Goto(c, Ask)
    /\ UNCHANGED <<subs, emitter, queue, net>>

\* Mutant: leaves without unsubscribing.
WriteRaisesOut(c) ==
    /\ stream[c].at = "write"
    /\ net[c] = "gone"
    /\ Goto(c, [at |-> "ended"])
    /\ UNCHANGED <<subs, emitter, queue, net, sent>>

WriteRaises(c) ==
    /\ stream[c].at = "write"
    /\ net[c] = "gone"
    /\ Goto(c, [at |-> "finally"])
    /\ UNCHANGED <<subs, emitter, queue, net, sent>>

Unsubscribe(c) ==
    /\ stream[c].at = "finally"
    /\ subs' = Without(subs, c)
    /\ Goto(c, [at |-> "ended"])
    /\ UNCHANGED <<emitter, queue, net, sent>>

-----------------------------------------------------------------------------
(* The client and the network                                              *)

Turns(c, from, to) ==
    /\ net[c] = from
    /\ net' = [net EXCEPT ![c] = to]
    /\ UNCHANGED <<subs, emitter, queue, stream, sent>>

Leave(c) == Turns(c, "there", "left")

\* A reset comes in, or retransmission is given up.
Reset(c) == Turns(c, "left", "gone")

\* What the thread of a stream does without waiting for its client.
StreamGoesOn(c) ==
    \/ Take(c) \/ KeepAlive(c)
    \/ net[c] = "left" /\ Write(c)
    \/ WriteRaises(c) \/ Unsubscribe(c)

Next ==
    \/ \E e \in Emitters : Emit(e) \/ Offer(e)
    \/ \E c \in Clients :
        \/ Subscribe(c) \/ StreamGoesOn(c) \/ Write(c)
        \/ Leave(c) \/ Reset(c)

Spec == Init /\ [][Next]_vars

\* Threads that have something to do are run, and the network notices in the
\* end that a client has left.  Nothing makes a client read.
Fairness ==
    /\ \A e \in Emitters : WF_vars(Offer(e))
    /\ \A c \in Clients : WF_vars(StreamGoesOn(c)) /\ WF_vars(Reset(c))

-----------------------------------------------------------------------------
Emittings == {Idle} \cup [at : {"offer"}, to : Seq(Clients), next : Nat \ {0}]

StreamStates ==
    {Ask} \cup [at : {"new", "finally", "ended"}]
          \cup [at : {"write"}, event : Events \cup {None}]

\* Types; no queue is over its size, and the subscribers are the streams that
\* are being served, each once.
TypeOK ==
    /\ subs \in Seq(Clients)
    /\ \A i, j \in DOMAIN subs : subs[i] = subs[j] => i = j
    /\ \A c \in Clients : c \in Range(subs) <=> stream[c].at \notin {"new", "ended"}
    /\ emitter \in [Emitters -> [count : 0 .. MaxEvents, op : Emittings]]
    /\ queue \in [Clients -> Seq(Events)]
    /\ \A c \in Clients : Len(queue[c]) <= QueueSize[c]
    /\ stream \in [Clients -> StreamStates]
    /\ net \in [Clients -> {"there", "left", "gone"}]
    /\ sent \in [Clients -> Seq(Events)]

\* emit returns, though clients stop reading and never go on: it waits for no
\* stream, whatever state its queue is in.
EmitReturns ==
    \A e \in Emitters : (emitter[e].op # Idle) ~> (emitter[e].op = Idle)

\* A client that has left is unsubscribed in the end, though no event is ever
\* emitted again.
GoneUnsubscribed ==
    \A c \in Clients : (net[c] \in {"left", "gone"}) ~> (c \notin Range(subs))
=============================================================================
