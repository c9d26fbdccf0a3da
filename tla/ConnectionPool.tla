--------------------------- MODULE ConnectionPool ---------------------------
(***************************************************************************)
(* Calls to one peer (memcloud/client.py, class ConnectionPool), over the  *)
(* frames of memcloud/protocol.py, with the worker's handler at the other  *)
(* end (memcloud/worker.py, _Handler.handle).                              *)
(*                                                                         *)
(* All threads share one connection per peer and take turns on it under a  *)
(* lock.  Frames carry no request number: what tells whose answer it is    *)
(* that arrives is only that the connection holds nothing else.  A request *)
(* that fails, in whatever way, closes the connection and is sent once     *)
(* more on a new one.  The worker has a thread per connection, so what is  *)
(* left on a closed one may still be read while the next is in use.        *)
(*                                                                         *)
(* Left out: the bytes of a frame (a frame arrives whole or the read of it *)
(* raises), TLS, and requests that change nothing and are not GETs.        *)
(***************************************************************************)
EXTENDS Sequences, Integers

CONSTANTS
    Callers,    \* threads that call the peer
    Data,       \* what the block may hold
    Missing,    \* the worker does not hold the block
    Conns,      \* connections: new ones are taken from those out of use
    Prompt,     \* TRUE: the worker reads a request within the client's timeout
    Nobody      \* no caller, no connection

ASSUME PoolConstants ==
    /\ Missing \notin Data
    /\ Prompt \in BOOLEAN
    /\ Nobody \notin Callers \cup Conns

VARIABLES
    held,       \* the worker's block, or Missing
    caller,     \* per caller: where it is in call(), its request and attempt
    holder,     \* who has _locks[node_id]
    pooled,     \* _conns[node_id]
    conn,       \* per connection: is the worker's end open, and the frames on it
    done        \* history: the answers the worker made to a caller's call

vars == <<held, caller, holder, pooled, conn, done>>

Idle == [at |-> "idle"]
Closed == [up |-> FALSE, in |-> <<>>, out |-> <<>>]
Opened == [up |-> TRUE, in |-> <<>>, out |-> <<>>]

\* The call of a thread, as the rest of the program sees it.
Calls == INSTANCE RemoteCalls WITH
    call <- [t \in Callers |->
        IF caller[t].at \in {"lock", "ready", "await"}
        THEN [at |-> "called", req |-> caller[t].req, answers |-> done[t]]
        ELSE caller[t]]

Init ==
    /\ held = Missing
    /\ caller = [t \in Callers |-> Idle]
    /\ holder = Nobody
    /\ pooled = Nobody
    /\ conn = [c \in Conns |-> Closed]
    /\ done = [t \in Callers |-> <<>>]

Goto(t, s) == caller' = [caller EXCEPT ![t] = s]

Call(t, r) ==
    /\ caller[t] = Idle
    /\ Goto(t, [at |-> "lock", req |-> r, attempt |-> 0])
    /\ done' = [done EXCEPT ![t] = <<>>]
    /\ UNCHANGED <<held, holder, pooled, conn>>

Lock(t) ==
    /\ caller[t].at = "lock"
    /\ holder = Nobody
    /\ holder' = t
    /\ Goto(t, [caller[t] EXCEPT !.at = "ready"])
    /\ UNCHANGED <<held, pooled, conn, done>>

Connect(t) ==
    /\ caller[t].at = "ready"
    /\ pooled = Nobody
    /\ \E c \in Conns :
        /\ conn[c].in = <<>>
        /\ conn' = [conn EXCEPT ![c] = Opened]
        /\ pooled' = c
    /\ UNCHANGED <<held, caller, holder, done>>

\* connect() is outside the try: no second attempt follows.
ConnectFails(t) ==
    /\ caller[t].at = "ready"
    /\ pooled = Nobody
    /\ Goto(t, [at |-> "raised"])
    /\ holder' = Nobody
    /\ UNCHANGED <<held, pooled, conn, done>>

\* What is written to a connection that the worker has closed is lost.
Send(t) ==
    /\ caller[t].at = "ready"
    /\ pooled # Nobody
    /\ conn' = IF conn[pooled].up
               THEN [conn EXCEPT ![pooled].in =
                        Append(@, [from |-> t, req |-> caller[t].req])]
               ELSE conn
    /\ Goto(t, [caller[t] EXCEPT !.at = "await"])
    /\ UNCHANGED <<held, holder, pooled, done>>

Receive(t) ==
    /\ caller[t].at = "await"
    /\ conn[pooled].out # <<>>
    /\ Goto(t, [at |-> "returned", answer |-> Head(conn[pooled].out)])
    /\ conn' = [conn EXCEPT ![pooled].out = Tail(@)]
    /\ holder' = Nobody
    /\ UNCHANGED <<held, pooled, done>>

\* Mutant: keeps the connection of the request that failed.
FailKeepsSocket(t) ==
    /\ caller[t].at = "await"
    /\ Prompt => conn[pooled].in = <<>>
    /\ IF caller[t].attempt = 0
       THEN /\ Goto(t, [caller[t] EXCEPT !.at = "ready", !.attempt = 1])
            /\ UNCHANGED holder
       ELSE /\ Goto(t, [at |-> "raised"])
            /\ holder' = Nobody
    /\ UNCHANGED <<held, pooled, conn, done>>

\* Mutant: makes a third attempt.
FailThirdAttempt(t) ==
    /\ caller[t].at = "await"
    /\ Prompt => conn[pooled].in = <<>>
    /\ pooled' = Nobody
    /\ conn' = [conn EXCEPT ![pooled].out = <<>>]
    /\ IF caller[t].attempt <= 1
       THEN /\ Goto(t, [caller[t] EXCEPT !.at = "ready", !.attempt = @ + 1])
            /\ UNCHANGED holder
       ELSE /\ Goto(t, [at |-> "raised"])
            /\ holder' = Nobody
    /\ UNCHANGED <<held, done>>

\* Mutant: tries again for as long as it fails.
FailRetriesForever(t) ==
    /\ caller[t].at = "await"
    /\ Prompt => conn[pooled].in = <<>>
    /\ pooled' = Nobody
    /\ conn' = [conn EXCEPT ![pooled].out = <<>>]
    /\ Goto(t, [caller[t] EXCEPT !.at = "ready", !.attempt = 1])
    /\ UNCHANGED <<held, holder, done>>

\* Any exception from request(): the connection is closed, its answers will
\* not be read, and a request still unread stays for the worker to find.  If
\* the worker is Prompt, there is no such request: it was read, or lost.
Fail(t) ==
    /\ caller[t].at = "await"
    /\ Prompt => conn[pooled].in = <<>>
    /\ pooled' = Nobody
    /\ conn' = [conn EXCEPT ![pooled].out = <<>>]
    /\ IF caller[t].attempt = 0
       THEN /\ Goto(t, [caller[t] EXCEPT !.at = "ready", !.attempt = 1])
            /\ UNCHANGED holder
       ELSE /\ Goto(t, [at |-> "raised"])
            /\ holder' = Nobody
    /\ UNCHANGED <<held, done>>

Return(t) ==
    /\ caller[t].at \in {"returned", "raised"}
    /\ Goto(t, Idle)
    /\ UNCHANGED <<held, holder, pooled, conn, done>>

\* The handler of a connection reads a request, carries it out and answers.
Serve(c) ==
    /\ conn[c].in # <<>>
    /\ LET r == Head(conn[c].in)
       IN  \E o \in Calls!Outcomes(r.req) :
            /\ held' = o[2]
            /\ done' = [done EXCEPT ![r.from] = Append(@, o[1])]
            /\ conn' = [conn EXCEPT
                    ![c].in = Tail(@),
                    ![c].out = IF c = pooled THEN Append(@, o[1]) ELSE @]
    /\ UNCHANGED <<caller, holder, pooled>>

\* It ends: 120 s without a request, an exception, a reset connection.  What it
\* has not read is lost; what it has answered may still arrive.
HandlerEnds(c) ==
    /\ conn[c].up
    /\ conn' = [conn EXCEPT ![c].up = FALSE, ![c].in = <<>>]
    /\ UNCHANGED <<held, caller, holder, pooled, done>>

WorkerRestart ==
    /\ held' = Missing
    /\ conn' = [c \in Conns |-> [conn[c] EXCEPT !.up = FALSE, !.in = <<>>]]
    /\ UNCHANGED <<caller, holder, pooled, done>>

HolderStep(t) ==
    \/ Connect(t)
    \/ ConnectFails(t)
    \/ Send(t)
    \/ Receive(t)
    \/ Fail(t)

Next ==
    \/ \E t \in Callers :
        \/ \E r \in Calls!Requests : Call(t, r)
        \/ Lock(t)
        \/ HolderStep(t)
        \/ Return(t)
    \/ \E c \in Conns : Serve(c) \/ HandlerEnds(c)
    \/ WorkerRestart

Spec == Init /\ [][Next]_vars

\* The thread that has the lock keeps running and its socket has a timeout; the
\* worker's threads are scheduled.  Nothing is assumed of who gets the lock.
FairSpec ==
    /\ Spec
    /\ \A t \in Callers : WF_vars(HolderStep(t))
    /\ \A c \in Conns : WF_vars(Serve(c))

-----------------------------------------------------------------------------
Frames == [from : Callers, req : Calls!Requests]

InCall == [at : {"lock", "ready", "await"}, req : Calls!Requests, attempt : {0, 1}]

\* Types of the callers' states and of the connections.
TypeOK ==
    /\ held \in Data \cup {Missing}
    /\ caller \in [Callers -> {Idle} \cup InCall \cup [at : {"raised"}]
                        \cup [at : {"returned"}, answer : Calls!Answers]]
    /\ holder \in Callers \cup {Nobody}
    /\ pooled \in Conns \cup {Nobody}
    /\ conn \in [Conns -> [up : BOOLEAN, in : Seq(Frames), out : Seq(Calls!Answers)]]
    /\ done \in [Callers -> Seq(Calls!Answers)]

\* Between calls nothing is left on the connection the next call will use, and
\* during one there is at most its own request or the answer to it.  This is
\* all that keeps a GET from returning the bytes of another thread's block.
SocketClean ==
    pooled # Nobody =>
        /\ Len(conn[pooled].in) + Len(conn[pooled].out) <= 1
        /\ \/ conn[pooled].in = <<>> /\ conn[pooled].out = <<>>
           \/ holder # Nobody /\ caller[holder].at = "await"

\* A call that raised or returned is over at the worker: RemoteCalls, which is
\* what module MemCloud takes a call to be, is implemented.  (Prompt only.)
CallsImplemented == Calls!Spec

\* Whoever has the lock lets go of it, whatever the peer does: a peer that
\* dies or hangs delays the threads that call it but never blocks them.
LockReleased == \A t \in Callers : holder = t ~> holder # t
=============================================================================
