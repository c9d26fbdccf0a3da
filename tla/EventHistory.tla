---------------------------- MODULE EventHistory ----------------------------
(***************************************************************************)
(* What a stream owes its client.  Events with history variables: the      *)
(* steps are those of Events, and the history only watches them.           *)
(***************************************************************************)
EXTENDS Events

VARIABLES
    earlier,    \* per event: the events whose emit had returned by its own
    returned,   \* the events whose emit has returned
    due,        \* per client: the events emitted since it subscribed
    dropped     \* per client: the events that found its queue full

hvars == <<vars, earlier, returned, due, dropped>>

HInit ==
    /\ Init
    /\ earlier = [m \in Events |-> {}]
    /\ returned = {}
    /\ due = [c \in Clients |-> {}]
    /\ dropped = [c \in Clients |-> {}]

HEmit(e) ==
    LET m == <<e, emitter[e].count + 1>>
    IN  /\ Emit(e)
        /\ earlier' = [earlier EXCEPT ![m] = returned]
        /\ due' = [c \in Clients |-> IF c \in Range(subs) THEN due[c] \cup {m} ELSE due[c]]
        /\ UNCHANGED <<returned, dropped>>

\* The event is dropped for the clients whose queue was full before the step,
\* if it is theirs that is offered the event.
HOffer(e) ==
    LET op == emitter[e].op
    IN  /\ Offer(e)
        /\ returned' = IF emitter'[e].op = Idle THEN returned \cup {Event(e)} ELSE returned
        /\ dropped' = [c \in Clients |->
                IF /\ op.next \in DOMAIN op.to /\ op.to[op.next] = c
                   /\ Len(queue[c]) = QueueSize[c]
                THEN dropped[c] \cup {Event(e)} ELSE dropped[c]]
        /\ UNCHANGED <<earlier, due>>

HNext ==
    \/ \E e \in Emitters : HEmit(e) \/ HOffer(e)
    \/ /\ \E c \in Clients :
            \/ Subscribe(c) \/ StreamGoesOn(c) \/ Write(c)
            \/ Leave(c) \/ Reset(c)
       /\ UNCHANGED <<earlier, returned, due, dropped>>

HSpec == HInit /\ [][HNext]_hvars
HFairSpec == HSpec /\ Fairness

-----------------------------------------------------------------------------
\* A stream sends no event twice, and none after one whose emit began when
\* its own had returned, whichever threads emitted the two.
InOrder ==
    \A c \in Clients : \A i, j \in DOMAIN sent[c] :
        i < j => /\ sent[c][i] # sent[c][j]
                 /\ sent[c][j] \notin earlier[sent[c][i]]

\* An event that is emitted while a stream is subscribed is not lost to it,
\* though others subscribe and unsubscribe in the middle of emit: once emit
\* has returned it has been sent, or is about to be, or found the queue full.
NotLost ==
    \A c \in Clients : \A m \in due[c] \cap returned :
        stream[c].at \in {"get", "write"} =>
            \/ m \in Range(sent[c]) \cup Range(queue[c]) \cup dropped[c]
            \/ stream[c] = Writing(m)
=============================================================================
