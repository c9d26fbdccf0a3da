------------------------ MODULE ConnectionPoolProofs ------------------------
(***************************************************************************)
(* Proofs about ConnectionPool, for any callers, contents and connections: *)
(* its types, that a shared connection is clean, and that the calls made   *)
(* over it are those of RemoteCalls.                                       *)
(***************************************************************************)
EXTENDS ConnectionPool, SequenceTheorems, TLAPS

(* Types and turns                                                         *)

Returned == [at : {"returned"}, answer : Calls!Answers]
Raised == [at : {"raised"}]
CallerStates == {Idle} \cup InCall \cup Raised \cup Returned

\* The callers past Lock and not yet out of it: at most one, the holder.
Turns ==
    /\ \A t \in Callers : holder = t <=> caller[t].at \in {"ready", "await"}
    /\ \A t \in Callers : caller[t].at = "await" => pooled # Nobody

\* What the state of a caller says of its call.
LEMMA CallerKinds ==
  ASSUME TypeOK, NEW t \in Callers
  PROVE  /\ caller[t].at \in {"lock", "ready", "await"} => caller[t] \in InCall
         /\ caller[t].at = "returned" => caller[t] \in Returned
         /\ caller[t].at \in {"idle", "lock", "ready", "await", "returned", "raised"}
<1>1. caller[t] \in CallerStates
  BY DEF TypeOK, CallerStates, Returned, Raised
<1> QED BY <1>1 DEF CallerStates, Idle, InCall, Returned, Raised

\* A caller that goes to a state of its kind leaves the callers typed.
LEMMA GotoOK ==
  ASSUME NEW t \in Callers, NEW s \in CallerStates,
         caller \in [Callers -> CallerStates], Goto(t, s)
  PROVE  /\ caller' \in [Callers -> CallerStates]
         /\ caller'[t] = s
         /\ \A u \in Callers \ {t} : caller'[u] = caller[u]
BY DEF Goto

\* A step of caller t, to state s, gives or takes the lock as s needs it.
LEMMA TurnsStep ==
  ASSUME Turns, NEW t \in Callers, NEW s \in CallerStates,
         caller \in [Callers -> CallerStates], Goto(t, s),
         \/ holder = t
         \/ holder = Nobody /\ holder' \in {t, Nobody}
         \/ holder' = holder /\ s.at \notin {"ready", "await"},
         holder' \in {holder, t, Nobody},
         holder = t => holder' \in {t, Nobody},
         holder' = t <=> s.at \in {"ready", "await"},
         s.at = "await" => pooled' # Nobody,
         pooled' = pooled \/ holder = t
  PROVE  Turns'
<1>1. /\ caller'[t] = s
      /\ \A u \in Callers \ {t} : caller'[u] = caller[u]
  BY GotoOK
<1>2. \A u \in Callers \ {t} : holder' = u <=> holder = u
  BY PoolConstants
<1>3. ASSUME NEW u \in Callers
      PROVE  /\ holder' = u <=> caller'[u].at \in {"ready", "await"}
             /\ caller'[u].at = "await" => pooled' # Nobody
  <2>1. CASE u = t
    BY <1>1, <2>1
  <2>2. CASE u # t
    <3>1. caller'[u] = caller[u] /\ (holder' = u <=> holder = u)
      BY <1>1, <1>2, <2>2
    <3> QED BY <2>2, <3>1 DEF Turns
  <2> QED BY <2>1, <2>2
<1> QED BY <1>3 DEF Turns
Links == [up : BOOLEAN, in : Seq(Frames), out : Seq(Calls!Answers)]

\* A link with a frame more or a frame less is a link.
LEMMA LinkSteps ==
  ASSUME NEW x \in Links
  PROVE  /\ \A f \in Frames : [x EXCEPT !.in = Append(@, f)] \in Links
         /\ x.out # <<>> => /\ Head(x.out) \in Calls!Answers
                           /\ [x EXCEPT !.out = Tail(@)] \in Links
         /\ [x EXCEPT !.out = <<>>] \in Links
         /\ [x EXCEPT !.up = FALSE, !.in = <<>>] \in Links
         /\ Closed \in Links /\ Opened \in Links
         /\ x.in # <<>> => /\ Head(x.in) \in Frames
                          /\ [x EXCEPT !.in = Tail(@)] \in Links
                          /\ \A a \in Calls!Answers :
                                [x EXCEPT !.in = Tail(@), !.out = Append(@, a)]
                                    \in Links
<1>1. x.up \in BOOLEAN /\ x.in \in Seq(Frames) /\ x.out \in Seq(Calls!Answers)
  BY DEF Links
<1>2. \A f \in Frames : Append(x.in, f) \in Seq(Frames)
  BY <1>1
<1>3. \A a \in Calls!Answers : Append(x.out, a) \in Seq(Calls!Answers)
  BY <1>1
<1>4. x.in # <<>> => Head(x.in) \in Frames /\ Tail(x.in) \in Seq(Frames)
  BY <1>1, HeadTailProperties
<1>5. x.out # <<>> => /\ Head(x.out) \in Calls!Answers
                     /\ Tail(x.out) \in Seq(Calls!Answers)
  BY <1>1, HeadTailProperties
<1>6. <<>> \in Seq(Frames) /\ <<>> \in Seq(Calls!Answers)
  OBVIOUS
<1>7. ASSUME NEW i \in Seq(Frames), NEW o \in Seq(Calls!Answers)
      PROVE  /\ [x EXCEPT !.in = i] \in Links
             /\ [x EXCEPT !.out = o] \in Links
             /\ [x EXCEPT !.in = i, !.out = o] \in Links
             /\ [x EXCEPT !.up = FALSE, !.in = i] \in Links
             /\ [up |-> FALSE, in |-> i, out |-> o] \in Links
             /\ [up |-> TRUE, in |-> i, out |-> o] \in Links
  BY DEF Links
<1>8. Closed \in Links /\ Opened \in Links
  BY <1>6, <1>7 DEF Closed, Opened
<1>9. ASSUME x.in # <<>>
      PROVE  /\ [x EXCEPT !.in = Tail(@)] \in Links
             /\ \A a \in Calls!Answers :
                   [x EXCEPT !.in = Tail(@), !.out = Append(@, a)] \in Links
  BY <1>1, <1>3, <1>4, <1>7, <1>9
<1> QED BY <1>1, <1>2, <1>4, <1>5, <1>6, <1>7, <1>8, <1>9

\* What the worker makes of a request is an answer and a block.
LEMMA OutcomesOK ==
  ASSUME held \in Data \cup {Missing}, NEW r \in Calls!Requests,
         NEW o \in Calls!Outcomes(r)
  PROVE  o[1] \in Calls!Answers /\ o[2] \in Data \cup {Missing}
BY DEF Calls!Requests, Calls!Outcomes, Calls!Answers

\* At first there are no calls and no connections.
LEMMA InvInit == Init => TypeOK /\ Turns
<1> SUFFICES ASSUME Init PROVE TypeOK /\ Turns
  OBVIOUS
<1>1. TypeOK
  BY DEF Init, TypeOK, Idle, Closed
<1>2. Turns
  BY PoolConstants DEF Init, Turns, Idle
<1> QED BY <1>1, <1>2

\* The callers' steps keep the types, and take turns.
LEMMA CallerInv ==
  ASSUME TypeOK, Turns, NEW t \in Callers,
         \/ \E r \in Calls!Requests : Call(t, r)
         \/ Lock(t) \/ HolderStep(t) \/ Return(t)
  PROVE  TypeOK' /\ Turns'
<1>0. /\ caller \in [Callers -> CallerStates]
      /\ conn \in [Conns -> Links]
      /\ pooled \in Conns \cup {Nobody}
      /\ holder \in Callers \cup {Nobody}
      /\ held \in Data \cup {Missing}
      /\ done \in [Callers -> Seq(Calls!Answers)]
  BY DEF TypeOK, CallerStates, Returned, Raised, Links
<1>t. \A s \in CallerStates :
        /\ Goto(t, s)
        /\ holder' \in {holder, t, Nobody}
        /\ pooled' \in Conns \cup {Nobody}
        /\ conn' \in [Conns -> Links]
        /\ held' = held
        /\ done' \in [Callers -> Seq(Calls!Answers)]
        => TypeOK'
  BY <1>0, GotoOK DEF TypeOK, CallerStates, Returned, Raised, Links
<1>n. t # Nobody
  BY PoolConstants
<1>1. ASSUME NEW r \in Calls!Requests, Call(t, r) PROVE TypeOK' /\ Turns'
  <2> DEFINE s == [at |-> "lock", req |-> r, attempt |-> 0]
  <2>1. s \in CallerStates /\ s.at = "lock"
    BY DEF CallerStates, InCall
  <2>2. done' \in [Callers -> Seq(Calls!Answers)]
    BY <1>0, <1>1 DEF Call
  <2>3. Goto(t, s) /\ holder' = holder /\ pooled' = pooled /\ conn' = conn /\ held' = held
    BY <1>1 DEF Call
  <2>4. holder # t
    BY <1>1 DEF Call, Turns, Idle
  <2>5. TypeOK'
    BY <1>0, <1>t, <2>1, <2>2, <2>3
  <2>6. Turns'
    BY <1>0, <1>n, <2>1, <2>3, <2>4, TurnsStep
  <2> QED BY <2>5, <2>6
<1>2. CASE Lock(t)
  <2> DEFINE s == [caller[t] EXCEPT !.at = "ready"]
  <2>1. s \in CallerStates /\ s.at = "ready"
    BY <1>2, CallerKinds DEF Lock, CallerStates, InCall
  <2>2. /\ Goto(t, s) /\ holder = Nobody /\ holder' = t
        /\ pooled' = pooled /\ conn' = conn /\ held' = held /\ done' = done
    BY <1>2 DEF Lock
  <2>5. TypeOK'
    BY <1>0, <1>t, <2>1, <2>2
  <2>6. Turns'
    BY <1>0, <1>n, <2>1, <2>2, TurnsStep
  <2> QED BY <2>5, <2>6
<1>3. CASE Connect(t)
  <2>1. /\ caller' = caller /\ holder' = holder /\ held' = held /\ done' = done
        /\ pooled' \in Conns
    BY <1>3 DEF Connect
  <2>2. conn' \in [Conns -> Links]
    <3>1. PICK c \in Conns : conn' = [conn EXCEPT ![c] = Opened]
      BY <1>3 DEF Connect
    <3>2. Opened \in Links
      BY DEF Opened, Links
    <3> QED BY <1>0, <3>1, <3>2
  <2>3. TypeOK'
    BY <1>0, <2>1, <2>2 DEF TypeOK, CallerStates, Returned, Raised, Links
  <2>4. Turns'
    BY <2>1, PoolConstants DEF Turns
  <2> QED BY <2>3, <2>4
<1>4. CASE ConnectFails(t)
  <2> DEFINE s == [at |-> "raised"]
  <2>1. s \in CallerStates /\ s.at = "raised"
    BY DEF CallerStates, Raised
  <2>2. /\ Goto(t, s) /\ holder = t /\ holder' = Nobody
        /\ pooled' = pooled /\ conn' = conn /\ held' = held /\ done' = done
    BY <1>4 DEF ConnectFails, Turns
  <2>5. TypeOK'
    BY <1>0, <1>t, <2>1, <2>2
  <2>6. Turns'
    BY <1>0, <1>n, <2>1, <2>2, TurnsStep
  <2> QED BY <2>5, <2>6
<1>5. CASE Send(t)
  <2> DEFINE s == [caller[t] EXCEPT !.at = "await"]
             f == [from |-> t, req |-> caller[t].req]
  <2>0. caller[t] \in InCall
    BY <1>5, CallerKinds DEF Send
  <2>1. s \in CallerStates /\ s.at = "await"
    BY <2>0 DEF CallerStates, InCall
  <2>2. /\ Goto(t, s) /\ holder = t /\ holder' = t /\ pooled # Nobody
        /\ pooled' = pooled /\ held' = held /\ done' = done
    BY <1>5 DEF Send, Turns
  <2>3. pooled \in Conns /\ conn[pooled] \in Links /\ f \in Frames
    BY <1>0, <2>0, <2>2 DEF Frames, InCall
  <2>4. conn' \in [Conns -> Links]
    <3>1. [conn[pooled] EXCEPT !.in = Append(@, f)] \in Links
      BY <2>3, LinkSteps
    <3> QED BY <1>0, <1>5, <2>3, <3>1 DEF Send
  <2>5. TypeOK'
    BY <1>0, <1>t, <2>1, <2>2, <2>4
  <2>6. Turns'
    BY <1>0, <1>n, <2>1, <2>2, TurnsStep
  <2> QED BY <2>5, <2>6
<1>6. CASE Receive(t)
  <2> DEFINE s == [at |-> "returned", answer |-> Head(conn[pooled].out)]
  <2>2. /\ Goto(t, s) /\ holder = t /\ holder' = Nobody /\ pooled # Nobody
        /\ pooled' = pooled /\ held' = held /\ done' = done
    BY <1>6 DEF Receive, Turns
  <2>3. pooled \in Conns /\ conn[pooled] \in Links /\ conn[pooled].out # <<>>
    BY <1>0, <1>6, <2>2 DEF Receive
  <2>1. s \in CallerStates /\ s.at = "returned"
    BY <2>3, LinkSteps DEF CallerStates, Returned
  <2>4. conn' \in [Conns -> Links]
    <3>1. [conn[pooled] EXCEPT !.out = Tail(@)] \in Links
      BY <2>3, LinkSteps
    <3> QED BY <1>0, <1>6, <2>3, <3>1 DEF Receive
  <2>5. TypeOK'
    BY <1>0, <1>t, <2>1, <2>2, <2>4
  <2>6. Turns'
    BY <1>0, <1>n, <2>1, <2>2, TurnsStep
  <2> QED BY <2>5, <2>6
<1>7. CASE Fail(t)
  <2>2. /\ holder = t /\ pooled # Nobody /\ pooled' = Nobody
        /\ held' = held /\ done' = done /\ caller[t] \in InCall
    BY <1>7, CallerKinds DEF Fail, Turns
  <2>3. pooled \in Conns /\ conn[pooled] \in Links
    BY <1>0, <2>2
  <2>4. conn' \in [Conns -> Links]
    <3>1. [conn[pooled] EXCEPT !.out = <<>>] \in Links
      BY <2>3, LinkSteps
    <3> QED BY <1>0, <1>7, <2>3, <3>1 DEF Fail
  <2>5. CASE caller[t].attempt = 0
    <3> DEFINE s == [caller[t] EXCEPT !.at = "ready", !.attempt = 1]
    <3>1. s \in CallerStates /\ s.at = "ready"
      BY <2>2 DEF CallerStates, InCall
    <3>2. Goto(t, s) /\ holder' = t
      BY <1>7, <2>2, <2>5 DEF Fail
    <3>3. TypeOK'
      BY <1>0, <1>t, <2>2, <2>4, <3>1, <3>2
    <3>4. Turns'
      BY <1>0, <1>n, <2>2, <3>1, <3>2, TurnsStep
    <3> QED BY <3>3, <3>4
  <2>6. CASE caller[t].attempt # 0
    <3> DEFINE s == [at |-> "raised"]
    <3>1. s \in CallerStates /\ s.at = "raised"
      BY DEF CallerStates, Raised
    <3>2. Goto(t, s) /\ holder' = Nobody
      BY <1>7, <2>2, <2>6 DEF Fail
    <3>3. TypeOK'
      BY <1>0, <1>t, <2>2, <2>4, <3>1, <3>2
    <3>4. Turns'
      BY <1>0, <1>n, <2>2, <3>1, <3>2, TurnsStep
    <3> QED BY <3>3, <3>4
  <2> QED BY <2>5, <2>6
<1>8. CASE Return(t)
  <2>1. Idle \in CallerStates /\ Idle.at = "idle"
    BY DEF CallerStates, Idle
  <2>2. /\ Goto(t, Idle) /\ holder' = holder /\ holder # t
        /\ pooled' = pooled /\ conn' = conn /\ held' = held /\ done' = done
    BY <1>8 DEF Return, Turns
  <2>5. TypeOK'
    BY <1>0, <1>t, <2>1, <2>2
  <2>6. Turns'
    BY <1>0, <1>n, <2>1, <2>2, TurnsStep
  <2> QED BY <2>5, <2>6
<1> QED BY <1>1, <1>2, <1>3, <1>4, <1>5, <1>6, <1>7, <1>8 DEF HolderStep
\* So do the worker's, which take nobody's turn.
LEMMA WorkerInv ==
  ASSUME TypeOK, Turns,
         (\E c \in Conns : Serve(c) \/ HandlerEnds(c)) \/ WorkerRestart
  PROVE  TypeOK' /\ Turns'
<1>0. conn \in [Conns -> Links] /\ done \in [Callers -> Seq(Calls!Answers)]
  BY DEF TypeOK, Links
<1>1. caller' = caller /\ holder' = holder /\ pooled' = pooled
  BY DEF Serve, HandlerEnds, WorkerRestart
<1>2. Turns'
  BY <1>1 DEF Turns
<1>3. /\ conn' \in [Conns -> Links]
      /\ done' \in [Callers -> Seq(Calls!Answers)]
      /\ held' \in Data \cup {Missing}
  <2>1. ASSUME NEW c \in Conns, Serve(c)
        PROVE  /\ conn' \in [Conns -> Links]
               /\ done' \in [Callers -> Seq(Calls!Answers)]
               /\ held' \in Data \cup {Missing}
    <3> DEFINE r == Head(conn[c].in)
    <3>1. conn[c] \in Links /\ conn[c].in # <<>> /\ r \in Frames
      BY <1>0, <2>1, LinkSteps DEF Serve
    <3>2. r.from \in Callers /\ r.req \in Calls!Requests
      BY <3>1 DEF Frames
    <3>3. PICK o \in Calls!Outcomes(r.req) :
            /\ held' = o[2]
            /\ done' = [done EXCEPT ![r.from] = Append(@, o[1])]
            /\ conn' = [conn EXCEPT
                    ![c].in = Tail(@),
                    ![c].out = IF c = pooled THEN Append(@, o[1]) ELSE @]
      BY <2>1 DEF Serve
    <3>4. o[1] \in Calls!Answers /\ held' \in Data \cup {Missing}
      BY <3>2, <3>3, OutcomesOK DEF TypeOK
    <3>5. done' \in [Callers -> Seq(Calls!Answers)]
      BY <1>0, <3>2, <3>3, <3>4
    <3>6. conn' \in [Conns -> Links]
      <4>1. CASE c = pooled
        <5> DEFINE x == [conn[c] EXCEPT !.in = Tail(@), !.out = Append(@, o[1])]
        <5>1. conn' = [conn EXCEPT ![c] = x]
          BY <1>0, <3>3, <4>1
        <5>2. x \in Links
          BY <3>1, <3>4, LinkSteps
        <5> QED BY <1>0, <5>1, <5>2
      <4>2. CASE c # pooled
        <5> DEFINE x == [conn[c] EXCEPT !.in = Tail(@)]
        <5>1. conn' = [conn EXCEPT ![c] = x]
          BY <1>0, <3>3, <4>2
        <5>2. x \in Links
          BY <3>1, LinkSteps
        <5> QED BY <1>0, <5>1, <5>2
      <4> QED BY <4>1, <4>2
    <3> QED BY <3>4, <3>5, <3>6
  <2>2. ASSUME NEW c \in Conns, HandlerEnds(c)
        PROVE  /\ conn' \in [Conns -> Links]
               /\ done' \in [Callers -> Seq(Calls!Answers)]
               /\ held' \in Data \cup {Missing}
    <3>1. [conn[c] EXCEPT !.up = FALSE, !.in = <<>>] \in Links
      BY <1>0, LinkSteps
    <3> QED BY <1>0, <2>2, <3>1 DEF HandlerEnds, TypeOK
  <2>3. CASE WorkerRestart
    <3>1. \A c \in Conns : [conn[c] EXCEPT !.up = FALSE, !.in = <<>>] \in Links
      BY <1>0, LinkSteps
    <3> QED BY <1>0, <2>3, <3>1 DEF WorkerRestart
  <2> QED BY <2>1, <2>2, <2>3
<1>4. TypeOK'
  BY <1>1, <1>3 DEF TypeOK, Links
<1> QED BY <1>2, <1>4

\* Types and turns together are inductive.
LEMMA InvStep == TypeOK /\ Turns /\ [Next]_vars => TypeOK' /\ Turns'
<1> SUFFICES ASSUME TypeOK, Turns, [Next]_vars PROVE TypeOK' /\ Turns'
  OBVIOUS
<1>1. CASE Next
  BY <1>1, CallerInv, WorkerInv DEF Next
<1>2. CASE UNCHANGED vars
  BY <1>2 DEF vars, TypeOK, Turns
<1> QED BY <1>1, <1>2

\* The states of callers, the lock, the connections and what is on them keep
\* their types; in particular no call makes a third attempt.
THEOREM TypeCorrect == Spec => []TypeOK
<1> QED BY InvInit, InvStep, PTL DEF Spec
-----------------------------------------------------------------------------
(* The connection is clean                                                 *)

\* Sequences that grow and shrink by one.
LEMMA Lengths ==
  ASSUME NEW S, NEW s \in Seq(S)
  PROVE  /\ Len(s) \in Nat
         /\ Len(s) = 0 <=> s = <<>>
         /\ \A e \in S : /\ Append(s, e) # <<>>
                         /\ Len(Append(s, e)) = Len(s) + 1
                         /\ Append(s, e)[Len(s) + 1] = e
                         /\ s = <<>> => Head(Append(s, e)) = e
         /\ Len(s) = 1 => Tail(s) = <<>> /\ Head(s) = s[1]
<1>1. Len(s) \in Nat /\ (Len(s) = 0 <=> s = <<>>)
  BY EmptySeq
<1>2. ASSUME NEW e \in S
      PROVE  /\ Len(Append(s, e)) = Len(s) + 1
             /\ Append(s, e)[Len(s) + 1] = e
             /\ Append(s, e) \in Seq(S)
  OBVIOUS
<1>3. ASSUME NEW e \in S PROVE Append(s, e) # <<>>
  BY <1>1, <1>2, EmptySeq
<1>4. ASSUME NEW e \in S, s = <<>> PROVE Head(Append(s, e)) = e
  BY <1>4
<1>5. ASSUME Len(s) = 1 PROVE Tail(s) = <<>> /\ Head(s) = s[1]
  <2>1. s # <<>>
    BY <1>1, <1>5
  <2>2. Tail(s) \in Seq(S) /\ Len(Tail(s)) = 0
    BY <1>5, <2>1, HeadTailProperties
  <2>3. Tail(s) = <<>>
    BY <2>2, EmptySeq
  <2> QED BY <2>3
<1> QED BY <1>1, <1>2, <1>3, <1>4, <1>5
\* Nothing on a connection; a request; an answer.
Quiet(c) == conn[c].in = <<>> /\ conn[c].out = <<>>
Asking(c) == Len(conn[c].in) = 1 /\ conn[c].out = <<>>
Answered(c) == conn[c].in = <<>> /\ Len(conn[c].out) = 1

Awaited == holder # Nobody /\ caller[holder].at = "await"

\* SocketClean, case by case.
Clean ==
    pooled # Nobody =>
        \/ Quiet(pooled)
        \/ Awaited /\ (Asking(pooled) \/ Answered(pooled))

\* It gives SocketClean.
LEMMA CleanIsClean == TypeOK /\ Clean => SocketClean
<1> SUFFICES ASSUME TypeOK, Clean, pooled # Nobody
             PROVE  /\ Len(conn[pooled].in) + Len(conn[pooled].out) <= 1
                    /\ \/ conn[pooled].in = <<>> /\ conn[pooled].out = <<>>
                       \/ Awaited
  BY DEF SocketClean, Awaited
<1>1. Len(<<>>) = 0
  BY EmptySeq
<1>2. CASE Quiet(pooled)
  BY <1>1, <1>2 DEF Quiet
<1>3. CASE Awaited /\ Asking(pooled)
  BY <1>1, <1>3 DEF Asking
<1>4. CASE Awaited /\ Answered(pooled)
  BY <1>1, <1>4 DEF Answered
<1> QED BY <1>2, <1>3, <1>4 DEF Clean

\* A caller sends on a quiet connection only, takes the one answer off it, or
\* gives the connection up.
LEMMA CleanCaller ==
  ASSUME TypeOK, Turns, Clean, NEW t \in Callers,
         \/ \E r \in Calls!Requests : Call(t, r)
         \/ Lock(t) \/ HolderStep(t) \/ Return(t)
  PROVE  Clean'
<1>0. /\ t # Nobody
      /\ caller \in [Callers -> CallerStates]
      /\ holder = t <=> caller[t].at \in {"ready", "await"}
      /\ pooled # Nobody =>
                \/ Quiet(pooled)
                \/ Awaited /\ (Asking(pooled) \/ Answered(pooled))
  BY PoolConstants DEF Clean, Turns, TypeOK, CallerStates, Returned, Raised
<1>1. ASSUME pooled' # Nobody
      PROVE  \/ Quiet(pooled)'
             \/ Awaited' /\ (Asking(pooled) \/ Answered(pooled))'
  <2>1. CASE (\E r \in Calls!Requests : Call(t, r)) \/ Return(t)
    <3>0. caller[t].at \notin {"ready", "await"}
      <4>1. CASE Return(t)
        BY <4>1 DEF Return
      <4>2. ASSUME NEW r \in Calls!Requests, Call(t, r)
            PROVE  caller[t].at \notin {"ready", "await"}
        BY <4>2 DEF Call, Idle
      <4> QED BY <2>1, <4>1, <4>2
    <3>1. holder' = holder /\ pooled' = pooled /\ conn' = conn /\ holder # t
      BY <1>0, <2>1, <3>0 DEF Call, Return
    <3>2. Awaited => Awaited'
      BY <1>0, <2>1, <3>1 DEF Awaited, Call, Return, Goto, TypeOK
    <3> QED BY <1>0, <1>1, <3>1, <3>2 DEF Quiet, Asking, Answered
  <2>2. CASE Lock(t)
    BY <1>0, <1>1, <2>2 DEF Lock, Awaited, Quiet
  <2>3. CASE Connect(t)
    <3>1. PICK c \in Conns : conn' = [conn EXCEPT ![c] = Opened] /\ pooled' = c
      BY <2>3 DEF Connect
    <3>2. conn'[c] = Opened
      BY <3>1 DEF TypeOK
    <3> QED BY <3>1, <3>2 DEF Quiet, Opened
  <2>4. CASE ConnectFails(t)
    BY <1>1, <2>4 DEF ConnectFails
  <2>5. CASE Send(t)
    <3>1. /\ pooled' = pooled /\ holder = t /\ holder' = t /\ pooled \in Conns
          /\ Goto(t, [caller[t] EXCEPT !.at = "await"])
      BY <1>0, <1>1, <2>5 DEF Send, TypeOK
    <3>2. caller[t].at = "ready" /\ caller[t] \in InCall
      BY <2>5, CallerKinds DEF Send
    <3>3. Quiet(pooled)
      BY <1>0, <1>1, <3>1, <3>2 DEF Awaited
    <3>4. Awaited'
      BY <1>0, <3>1, <3>2 DEF Awaited, Goto, InCall
    <3>5. conn[pooled] \in Links /\ [from |-> t, req |-> caller[t].req] \in Frames
      BY <3>1, <3>2 DEF TypeOK, Links, Frames, InCall
    <3>6. \/ conn'[pooled].in = conn[pooled].in
          \/ conn'[pooled].in =
                Append(conn[pooled].in, [from |-> t, req |-> caller[t].req])
      BY <2>5, <3>1 DEF Send, TypeOK
    <3>7. conn'[pooled].out = conn[pooled].out
      BY <2>5, <3>1 DEF Send, TypeOK
    <3>8. Len(conn'[pooled].in) = 1 \/ conn'[pooled].in = <<>>
      <4>1. Len(conn[pooled].in) = 0 /\ conn[pooled].in = <<>>
        BY <3>3, EmptySeq DEF Quiet
      <4>2. conn[pooled].in \in Seq(Frames)
        BY <3>5 DEF Links
      <4>3. Len(Append(conn[pooled].in, [from |-> t, req |-> caller[t].req])) = 1
        BY <3>5, <4>1, <4>2, Lengths
      <4> QED BY <3>6, <4>1, <4>3
    <3> QED BY <3>1, <3>3, <3>4, <3>7, <3>8 DEF Quiet, Asking
  <2>6. CASE Receive(t)
    <3>1. /\ pooled' = pooled /\ pooled \in Conns /\ conn[pooled].out # <<>>
          /\ conn' = [conn EXCEPT ![pooled].out = Tail(@)]
      BY <1>1, <2>6 DEF Receive, TypeOK
    <3>2. /\ conn'[pooled].in = conn[pooled].in
          /\ conn'[pooled].out = Tail(conn[pooled].out)
      BY <3>1 DEF TypeOK
    <3>3. Answered(pooled)
      BY <1>0, <1>1, <3>1 DEF Quiet, Asking
    <3>4. Tail(conn[pooled].out) = <<>>
      BY <3>1, <3>3, Lengths DEF Answered, TypeOK
    <3> QED BY <3>1, <3>2, <3>3, <3>4 DEF Quiet, Answered
  <2>7. CASE Fail(t)
    BY <1>1, <2>7 DEF Fail
  <2> QED BY <2>1, <2>2, <2>3, <2>4, <2>5, <2>6, <2>7 DEF HolderStep
<1> QED BY <1>1 DEF Clean
\* The worker turns a request into an answer, or loses it.
LEMMA CleanWorker ==
  ASSUME TypeOK, Clean,
         (\E c \in Conns : Serve(c) \/ HandlerEnds(c)) \/ WorkerRestart
  PROVE  Clean'
<1>0. caller' = caller /\ holder' = holder /\ pooled' = pooled
  BY DEF Serve, HandlerEnds, WorkerRestart
<1>1. ASSUME pooled # Nobody
      PROVE  \/ Quiet(pooled)'
             \/ Awaited' /\ (Asking(pooled) \/ Answered(pooled))'
  <2>0. /\ pooled \in Conns /\ conn[pooled] \in Links
        /\ conn \in [Conns -> Links]
        /\ Awaited' = Awaited
    BY <1>0, <1>1 DEF TypeOK, Links, Awaited
  <2>1. ASSUME NEW c \in Conns, Serve(c), c = pooled
        PROVE  Awaited /\ Answered(pooled)'
    <3> DEFINE r == Head(conn[c].in)
    <3>1. conn[c].in # <<>>
      BY <2>1 DEF Serve
    <3>2. Awaited /\ Asking(c)
      BY <1>1, <2>1, <3>1 DEF Clean, Quiet, Answered
    <3>3. r \in Frames /\ r.req \in Calls!Requests
      BY <2>0, <2>1, <3>1, LinkSteps DEF Frames
    <3>4. PICK o \in Calls!Outcomes(r.req) :
            conn' = [conn EXCEPT ![c].in = Tail(@), ![c].out =
                        IF c = pooled THEN Append(@, o[1]) ELSE @]
      BY <2>1 DEF Serve
    <3>5. o[1] \in Calls!Answers
      BY <3>3, OutcomesOK DEF TypeOK
    <3>6. conn'[c].in = Tail(conn[c].in) /\ conn'[c].out = Append(conn[c].out, o[1])
      BY <2>0, <2>1, <3>4 DEF Links
    <3>7. Tail(conn[c].in) = <<>>
      BY <2>0, <2>1, <3>2, Lengths DEF Asking, Links
    <3>8. Len(Append(conn[c].out, o[1])) = 1
      <4>1. conn[c].out \in Seq(Calls!Answers) /\ Len(conn[c].out) = 0
        BY <2>0, <2>1, <3>2, EmptySeq DEF Asking, Links
      <4> QED BY <3>5, <4>1, Lengths
    <3> QED BY <1>0, <2>1, <3>2, <3>6, <3>7, <3>8 DEF Answered
  <2>2. ASSUME NEW c \in Conns, Serve(c), c # pooled
        PROVE  conn'[pooled] = conn[pooled]
    BY <2>0, <2>2 DEF Serve
  <2>3. ASSUME \/ \E c \in Conns : HandlerEnds(c)
               \/ WorkerRestart
        PROVE  /\ conn'[pooled].in \in {conn[pooled].in, <<>>}
               /\ conn'[pooled].out = conn[pooled].out
    <3>1. ASSUME NEW c \in Conns, HandlerEnds(c)
          PROVE  /\ conn'[pooled].in \in {conn[pooled].in, <<>>}
                 /\ conn'[pooled].out = conn[pooled].out
      BY <2>0, <3>1 DEF HandlerEnds, Links
    <3>2. CASE WorkerRestart
      BY <2>0, <3>2 DEF WorkerRestart, Links
    <3> QED BY <2>3, <3>1, <3>2
  <2>4. ASSUME conn'[pooled] = conn[pooled]
        PROVE  \/ Quiet(pooled)'
               \/ Awaited' /\ (Asking(pooled) \/ Answered(pooled))'
    BY <1>0, <1>1, <2>0, <2>4 DEF Clean, Quiet, Asking, Answered
  <2>5. ASSUME /\ conn'[pooled].in \in {conn[pooled].in, <<>>}
               /\ conn'[pooled].out = conn[pooled].out
        PROVE  \/ Quiet(pooled)'
               \/ Awaited' /\ (Asking(pooled) \/ Answered(pooled))'
    BY <1>0, <1>1, <2>0, <2>5 DEF Clean, Quiet, Asking, Answered
  <2> QED BY <2>0, <2>1, <2>2, <2>3, <2>4, <2>5
<1> QED BY <1>0, <1>1 DEF Clean

\* Clean is inductive, given types and turns.
LEMMA CleanStep == TypeOK /\ Turns /\ Clean /\ [Next]_vars => Clean'
<1> SUFFICES ASSUME TypeOK, Turns, Clean, [Next]_vars PROVE Clean'
  OBVIOUS
<1>1. CASE Next
  BY <1>1, CleanCaller, CleanWorker DEF Next
<1>2. CASE UNCHANGED vars
  BY <1>2 DEF vars, Clean, Quiet, Asking, Answered, Awaited
<1> QED BY <1>1, <1>2

\* There is no connection at first.
LEMMA CleanInit == Init => Clean
BY DEF Init, Clean

\* Nothing of one call is left on the connection for the next: no GET can
\* return the bytes of another thread's block.
THEOREM SocketsAreClean == Spec => []SocketClean
<1> QED BY InvInit, InvStep, CleanInit, CleanStep, CleanIsClean, PTL DEF Spec
-----------------------------------------------------------------------------
(* What is under way belongs to the call in progress (Prompt)              *)

\* A request that the worker has yet to read is that of the holder's attempt.
OwnRequest ==
    \A c \in Conns : conn[c].in # <<>> =>
        /\ c = pooled
        /\ Head(conn[c].in) = [from |-> holder, req |-> caller[holder].req]
        /\ Len(done[holder]) <= caller[holder].attempt

\* An answer that the client has yet to read is the last made to the holder.
OwnAnswer ==
    pooled # Nobody /\ conn[pooled].out # <<>> =>
        /\ done[holder] # <<>>
        /\ Head(conn[pooled].out) = done[holder][Len(done[holder])]

\* The worker has answered no more often than there were attempts.
Attempts ==
    \A t \in Callers :
        /\ caller[t].at \in {"lock", "ready"} => Len(done[t]) <= caller[t].attempt
        /\ caller[t].at = "await" => Len(done[t]) <= caller[t].attempt + 1

Owned == OwnRequest /\ OwnAnswer /\ Attempts

\* When nobody waits for an answer, nothing is under way.
LEMMA NothingUnderWay ==
  ASSUME Clean, Owned, ~Awaited
  PROVE  /\ \A c \in Conns : conn[c].in = <<>>
         /\ pooled # Nobody => conn[pooled].out = <<>>
BY PoolConstants DEF Clean, Quiet, Owned, OwnRequest

\* Nothing is under way at first.
LEMMA OwnedInit == Init => Owned
<1> SUFFICES ASSUME Init PROVE Owned
  OBVIOUS
<1>1. OwnRequest /\ OwnAnswer
  BY DEF Init, OwnRequest, OwnAnswer, Closed
<1>2. Attempts
  BY DEF Init, Attempts, Idle
<1> QED BY <1>1, <1>2 DEF Owned

\* The callers' steps keep what is under way to the call in progress: here it
\* matters that a call does not give up a request that is still unread.
LEMMA OwnedCaller ==
  ASSUME Prompt, TypeOK, Turns, Clean, Owned, NEW t \in Callers,
         \/ \E r \in Calls!Requests : Call(t, r)
         \/ Lock(t) \/ HolderStep(t) \/ Return(t)
  PROVE  Owned'
<1>0. /\ t # Nobody
      /\ caller \in [Callers -> CallerStates]
      /\ conn \in [Conns -> Links]
      /\ done \in [Callers -> Seq(Calls!Answers)]
      /\ holder \in Callers \cup {Nobody}
      /\ holder = t <=> caller[t].at \in {"ready", "await"}
  BY PoolConstants DEF Turns, TypeOK, CallerStates, Returned, Raised, Links
<1>e. ASSUME conn' = conn, pooled' = pooled, ~Awaited
      PROVE  OwnRequest' /\ OwnAnswer'
  BY <1>e, NothingUnderWay DEF OwnRequest, OwnAnswer
<1>1. ASSUME NEW r \in Calls!Requests, Call(t, r) PROVE Owned'
  <2>1. /\ caller[t].at = "idle" /\ holder # t
        /\ conn' = conn /\ pooled' = pooled /\ holder' = holder
        /\ caller' = [caller EXCEPT ![t] =
                        [at |-> "lock", req |-> r, attempt |-> 0]]
        /\ done' = [done EXCEPT ![t] = <<>>]
    BY <1>0, <1>1 DEF Call, Goto, Idle
  <2>2. Attempts'
    BY <1>0, <2>1, EmptySeq DEF Owned, Attempts
  <2>3. CASE Awaited
    <3>1. caller'[holder] = caller[holder] /\ done'[holder] = done[holder]
      BY <1>0, <2>1, <2>3 DEF Awaited
    <3> QED BY <2>1, <2>2, <3>1 DEF Owned, OwnRequest, OwnAnswer
  <2>4. CASE ~Awaited
    BY <1>e, <2>1, <2>2, <2>4 DEF Owned
  <2> QED BY <2>3, <2>4
<1>2. CASE Lock(t)
  <2>1. /\ caller[t].at = "lock" /\ holder = Nobody /\ caller[t] \in InCall
        /\ conn' = conn /\ pooled' = pooled /\ done' = done
        /\ caller' = [caller EXCEPT ![t] = [caller[t] EXCEPT !.at = "ready"]]
    BY <1>2, CallerKinds DEF Lock, Goto
  <2>2. OwnRequest' /\ OwnAnswer'
    BY <1>e, <2>1 DEF Awaited
  <2>3. Attempts'
    BY <1>0, <2>1 DEF Owned, Attempts, InCall
  <2> QED BY <2>2, <2>3 DEF Owned
<1>3. CASE Connect(t)
  <2>1. /\ caller[t].at = "ready" /\ holder = t
        /\ caller' = caller /\ holder' = holder /\ done' = done
    BY <1>0, <1>3 DEF Connect
  <2>2. ~Awaited
    BY <2>1 DEF Awaited
  <2>3. PICK c \in Conns : conn' = [conn EXCEPT ![c] = Opened] /\ pooled' = c
    BY <1>3 DEF Connect
  <2>4. \A b \in Conns : conn'[b].in = <<>>
    BY <1>0, <2>2, <2>3, NothingUnderWay DEF Opened
  <2>5. conn'[pooled'].out = <<>>
    BY <1>0, <2>3 DEF Opened
  <2> QED BY <2>1, <2>4, <2>5 DEF Owned, OwnRequest, OwnAnswer, Attempts
<1>4. CASE ConnectFails(t)
  <2>1. /\ caller[t].at = "ready" /\ holder = t
        /\ conn' = conn /\ pooled' = pooled /\ done' = done
        /\ caller' = [caller EXCEPT ![t] = [at |-> "raised"]]
    BY <1>0, <1>4 DEF ConnectFails, Goto
  <2>2. OwnRequest' /\ OwnAnswer'
    BY <1>e, <2>1 DEF Awaited
  <2>3. Attempts'
    BY <1>0, <2>1 DEF Owned, Attempts
  <2> QED BY <2>2, <2>3 DEF Owned
<1>5. CASE Send(t)
  <2> DEFINE f == [from |-> t, req |-> caller[t].req]
  <2>1. /\ caller[t].at = "ready" /\ holder = t /\ caller[t] \in InCall
        /\ pooled # Nobody /\ pooled \in Conns
        /\ holder' = holder /\ pooled' = pooled /\ done' = done
        /\ caller' = [caller EXCEPT ![t] = [caller[t] EXCEPT !.at = "await"]]
    BY <1>0, <1>5, CallerKinds DEF Send, Goto, TypeOK
  <2>2. /\ \A c \in Conns : conn[c].in = <<>>
        /\ conn[pooled].out = <<>>
    BY <2>1, NothingUnderWay DEF Awaited
  <2>3. Head(Append(<<>>, f)) = f
    OBVIOUS
  <2>4. \A c \in Conns :
            /\ conn'[c].out = conn[c].out
            /\ c # pooled => conn'[c].in = <<>>
            /\ c = pooled => conn'[c].in \in {<<>>, Append(<<>>, f)}
    BY <1>0, <1>5, <2>1, <2>2 DEF Send, Links
  <2>5. caller'[t].req = caller[t].req /\ caller'[t].attempt = caller[t].attempt
        /\ caller'[t].at = "await"
    BY <1>0, <2>1 DEF InCall
  <2>6. Len(done[t]) <= caller[t].attempt /\ Len(done[t]) \in Nat
        /\ caller[t].attempt \in {0, 1}
    <3>1. done[t] \in Seq(Calls!Answers) /\ caller[t].attempt \in {0, 1}
      BY <1>0, <2>1 DEF InCall
    <3>2. Len(done[t]) \in Nat
      BY <3>1, Lengths
    <3>3. Len(done[t]) <= caller[t].attempt
      BY <2>1 DEF Owned, Attempts
    <3> QED BY <3>1, <3>2, <3>3
  <2>7. OwnRequest'
    BY <2>1, <2>3, <2>4, <2>5, <2>6 DEF OwnRequest
  <2>8. OwnAnswer'
    BY <2>1, <2>2, <2>4 DEF OwnAnswer
  <2>9. Attempts'
    BY <1>0, <2>1, <2>5, <2>6 DEF Owned, Attempts
  <2> QED BY <2>7, <2>8, <2>9 DEF Owned
<1>6. CASE Receive(t)
  <2>1. /\ caller[t].at = "await" /\ holder = t /\ pooled \in Conns
        /\ pooled # Nobody /\ pooled' = pooled /\ done' = done
        /\ conn[pooled].out # <<>>
        /\ caller' = [caller EXCEPT ![t] =
                        [at |-> "returned", answer |-> Head(conn[pooled].out)]]
        /\ conn' = [conn EXCEPT ![pooled].out = Tail(@)]
    BY <1>0, <1>6 DEF Receive, Goto, Turns, TypeOK
  <2>2. conn[pooled].in = <<>> /\ Len(conn[pooled].out) = 1
    BY <2>1 DEF Clean, Quiet, Asking, Answered
  <2>3. Tail(conn[pooled].out) = <<>>
    BY <1>0, <2>1, <2>2, Lengths DEF Links
  <2>4. /\ \A c \in Conns : conn'[c].in = conn[c].in
        /\ conn'[pooled].out = <<>>
    BY <1>0, <2>1, <2>3 DEF Links
  <2>5. \A c \in Conns : conn'[c].in = <<>>
    BY <2>2, <2>4 DEF Owned, OwnRequest
  <2>6. Attempts'
    BY <1>0, <2>1 DEF Owned, Attempts
  <2> QED BY <2>1, <2>4, <2>5, <2>6 DEF Owned, OwnRequest, OwnAnswer
<1>7. CASE Fail(t)
  <2>1. /\ caller[t].at = "await" /\ holder = t /\ caller[t] \in InCall
        /\ pooled \in Conns /\ pooled' = Nobody /\ done' = done
        /\ conn[pooled].in = <<>>
        /\ conn' = [conn EXCEPT ![pooled].out = <<>>]
    BY <1>0, <1>7, CallerKinds DEF Fail, Turns, TypeOK
  <2>2. \A c \in Conns : conn'[c].in = <<>>
    BY <1>0, <2>1 DEF Owned, OwnRequest, Links
  <2>3. \/ /\ caller[t].attempt = 0
           /\ caller' = [caller EXCEPT ![t] =
                            [caller[t] EXCEPT !.at = "ready", !.attempt = 1]]
        \/ caller' = [caller EXCEPT ![t] = [at |-> "raised"]]
    BY <1>7 DEF Fail, Goto
  <2>4. Len(done[t]) <= caller[t].attempt + 1
    BY <2>1 DEF Owned, Attempts
  <2>5. \/ caller'[t].at = "ready" /\ Len(done[t]) <= caller'[t].attempt
        \/ caller'[t].at = "raised"
    <3>1. CASE /\ caller[t].attempt = 0
               /\ caller' = [caller EXCEPT ![t] =
                                [caller[t] EXCEPT !.at = "ready", !.attempt = 1]]
      <4>1. caller'[t] = [caller[t] EXCEPT !.at = "ready", !.attempt = 1]
        BY <1>0, <3>1
      <4>2. caller'[t].at = "ready" /\ caller'[t].attempt = 1
        BY <2>1, <4>1 DEF InCall
      <4> QED BY <2>4, <3>1, <4>2
    <3>2. CASE caller' = [caller EXCEPT ![t] = [at |-> "raised"]]
      BY <1>0, <3>2
    <3> QED BY <2>3, <3>1, <3>2
  <2>6. Attempts'
    BY <1>0, <2>1, <2>3, <2>5 DEF Owned, Attempts
  <2> QED BY <2>1, <2>2, <2>6 DEF Owned, OwnRequest, OwnAnswer
<1>8. CASE Return(t)
  <2>1. /\ caller[t].at \in {"returned", "raised"} /\ holder # t
        /\ conn' = conn /\ pooled' = pooled /\ holder' = holder /\ done' = done
        /\ caller' = [caller EXCEPT ![t] = Idle]
    BY <1>0, <1>8 DEF Return, Goto
  <2>2. Attempts'
    BY <1>0, <2>1 DEF Owned, Attempts, Idle
  <2>3. CASE Awaited
    <3>1. caller'[holder] = caller[holder]
      BY <1>0, <2>1, <2>3 DEF Awaited
    <3> QED BY <2>1, <2>2, <3>1 DEF Owned, OwnRequest, OwnAnswer
  <2>4. CASE ~Awaited
    BY <1>e, <2>1, <2>2, <2>4 DEF Owned
  <2> QED BY <2>3, <2>4
<1> QED BY <1>1, <1>2, <1>3, <1>4, <1>5, <1>6, <1>7, <1>8 DEF HolderStep
\* A request is served for the caller that waits for it, as its next answer.
LEMMA ServedForHolder ==
  ASSUME TypeOK, Turns, Clean, Owned, NEW c \in Conns, Serve(c)
  PROVE  /\ c = pooled /\ holder \in Callers /\ caller[holder].at = "await"
         /\ caller[holder] \in InCall
         /\ Len(done[holder]) \in Nat /\ Len(done[holder]) <= caller[holder].attempt
         /\ Len(conn[c].in) = 1 /\ conn[c].out = <<>>
         /\ \E o \in Calls!Outcomes(caller[holder].req) :
                /\ o[1] \in Calls!Answers
                /\ held' = o[2]
                /\ done' = [done EXCEPT ![holder] = Append(@, o[1])]
                /\ conn' = [conn EXCEPT ![c].in = Tail(@), ![c].out = Append(@, o[1])]
<1>1. /\ conn[c].in # <<>> /\ c = pooled /\ pooled # Nobody
      /\ Head(conn[c].in) = [from |-> holder, req |-> caller[holder].req]
      /\ Len(done[holder]) <= caller[holder].attempt
  BY PoolConstants DEF Serve, Owned, OwnRequest
<1>2. Awaited /\ Asking(c)
  BY <1>1 DEF Clean, Quiet, Answered
<1>3. holder \in Callers /\ caller[holder].at = "await"
  BY <1>2 DEF Awaited, TypeOK
<1>4. caller[holder] \in InCall
  BY <1>3, CallerKinds
<1>5. Len(done[holder]) \in Nat
  BY <1>3, Lengths DEF TypeOK
<1>6. PICK o \in Calls!Outcomes(caller[holder].req) :
        /\ held' = o[2]
        /\ done' = [done EXCEPT ![holder] = Append(@, o[1])]
        /\ conn' = [conn EXCEPT ![c].in = Tail(@), ![c].out = Append(@, o[1])]
  <2> DEFINE r == Head(conn[c].in)
  <2>1. r.from = holder /\ r.req = caller[holder].req
    BY <1>1
  <2>2. PICK o \in Calls!Outcomes(r.req) :
            /\ held' = o[2]
            /\ done' = [done EXCEPT ![r.from] = Append(@, o[1])]
            /\ conn' = [conn EXCEPT ![c].in = Tail(@), ![c].out =
                            IF c = pooled THEN Append(@, o[1]) ELSE @]
    BY DEF Serve
  <2>3. conn' = [conn EXCEPT ![c].in = Tail(@), ![c].out = Append(@, o[1])]
    BY <1>1, <2>2
  <2> QED BY <2>1, <2>2, <2>3
<1>7. o[1] \in Calls!Answers
  BY <1>4, <1>6, OutcomesOK DEF TypeOK, InCall
<1> QED BY <1>1, <1>2, <1>3, <1>4, <1>5, <1>6, <1>7 DEF Asking

\* So do the worker's.
LEMMA OwnedWorker ==
  ASSUME TypeOK, Turns, Clean, Owned,
         (\E c \in Conns : Serve(c) \/ HandlerEnds(c)) \/ WorkerRestart
  PROVE  Owned'
<1>0. /\ caller' = caller /\ holder' = holder /\ pooled' = pooled
      /\ conn \in [Conns -> Links]
      /\ done \in [Callers -> Seq(Calls!Answers)]
  BY DEF Serve, HandlerEnds, WorkerRestart, TypeOK, Links
<1>1. ASSUME NEW c \in Conns, Serve(c) PROVE Owned'
  <2>0. /\ c = pooled /\ holder \in Callers /\ caller[holder].at = "await"
        /\ caller[holder].attempt \in {0, 1}
        /\ Len(done[holder]) \in Nat /\ Len(done[holder]) <= caller[holder].attempt
        /\ Len(conn[c].in) = 1 /\ conn[c].out = <<>>
    BY <1>1, ServedForHolder DEF InCall
  <2>1. PICK a \in Calls!Answers :
            /\ done' = [done EXCEPT ![holder] = Append(@, a)]
            /\ conn' = [conn EXCEPT ![c].in = Tail(@), ![c].out = Append(@, a)]
    BY <1>1, ServedForHolder
  <2>2. /\ conn'[c].in = Tail(conn[c].in) /\ conn'[c].out = Append(<<>>, a)
        /\ \A b \in Conns \ {c} : conn'[b] = conn[b]
    BY <1>0, <2>0, <2>1 DEF Links
  <2>3. Tail(conn[c].in) = <<>> /\ Head(Append(<<>>, a)) = a
    BY <1>0, <2>0, Lengths DEF Links
  <2>4. done'[holder] = Append(done[holder], a)
    BY <1>0, <2>0, <2>1
  <2>5. /\ done'[holder] # <<>> /\ Len(done'[holder]) = Len(done[holder]) + 1
        /\ done'[holder][Len(done[holder]) + 1] = a
    BY <1>0, <2>0, <2>4, Lengths
  <2>6. OwnRequest'
    BY <1>0, <2>0, <2>2, <2>3 DEF Owned, OwnRequest
  <2>7. OwnAnswer'
    BY <1>0, <2>0, <2>2, <2>3, <2>5 DEF OwnAnswer
  <2>8. Attempts'
    <3>1. \A u \in Callers \ {holder} : done'[u] = done[u]
      BY <1>0, <2>1
    <3>2. Len(done'[holder]) <= caller[holder].attempt + 1
      BY <2>0, <2>5
    <3> QED BY <1>0, <2>0, <3>1, <3>2 DEF Owned, Attempts
  <2> QED BY <2>6, <2>7, <2>8 DEF Owned
<1>2. ASSUME (\E c \in Conns : HandlerEnds(c)) \/ WorkerRestart PROVE Owned'
  <2>1. done' = done
    BY <1>2 DEF HandlerEnds, WorkerRestart
  <2>2. \A b \in Conns : /\ conn'[b].in \in {conn[b].in, <<>>}
                         /\ conn'[b].out = conn[b].out
    <3>1. ASSUME NEW c \in Conns, HandlerEnds(c), NEW b \in Conns
          PROVE  conn'[b].in \in {conn[b].in, <<>>} /\ conn'[b].out = conn[b].out
      BY <1>0, <3>1 DEF HandlerEnds, Links
    <3>2. ASSUME WorkerRestart, NEW b \in Conns
          PROVE  conn'[b].in \in {conn[b].in, <<>>} /\ conn'[b].out = conn[b].out
      BY <1>0, <3>2 DEF WorkerRestart, Links
    <3> QED BY <1>2, <3>1, <3>2
  <2>3. OwnRequest'
    BY <1>0, <2>1, <2>2 DEF Owned, OwnRequest
  <2>4. OwnAnswer'
    BY <1>0, <2>1, <2>2 DEF Owned, OwnAnswer, TypeOK
  <2>5. Attempts'
    BY <1>0, <2>1 DEF Owned, Attempts
  <2> QED BY <2>3, <2>4, <2>5 DEF Owned
<1> QED BY <1>1, <1>2

\* Owned is inductive, given that the connection is clean.
LEMMA OwnedStep ==
  ASSUME Prompt
  PROVE  TypeOK /\ Turns /\ Clean /\ Owned /\ [Next]_vars => Owned'
<1> SUFFICES ASSUME TypeOK, Turns, Clean, Owned, [Next]_vars PROVE Owned'
  OBVIOUS
<1>1. CASE Next
  BY <1>1, OwnedCaller, OwnedWorker DEF Next
<1>2. CASE UNCHANGED vars
  BY <1>2 DEF vars, Owned, OwnRequest, OwnAnswer, Attempts
<1> QED BY <1>1, <1>2
-----------------------------------------------------------------------------
(* The calls are those of RemoteCalls                                      *)

\* The variable call of RemoteCalls.
calls == [t \in Callers |->
            IF caller[t].at \in {"lock", "ready", "await"}
            THEN [at |-> "called", req |-> caller[t].req, answers |-> done[t]]
            ELSE caller[t]]

\* A step of one caller is a step of one call.
LEMMA OneCall ==
  ASSUME NEW t \in Callers,
         \A u \in Callers \ {t} : caller'[u] = caller[u] /\ done'[u] = done[u]
  PROVE  calls' = [calls EXCEPT ![t] = calls'[t]]
BY DEF calls

\* A caller stays in its call if it keeps its request and its answers.
LEMMA SameCall ==
  ASSUME NEW t \in Callers,
         caller[t].at \in {"lock", "ready", "await"},
         caller'[t].at \in {"lock", "ready", "await"},
         caller'[t].req = caller[t].req,
         done' = done,
         \A u \in Callers \ {t} : caller'[u] = caller[u]
  PROVE  calls' = calls
BY DEF calls

\* A caller's step is a step of its call, or none.
LEMMA CallerRefines ==
  ASSUME Prompt, TypeOK, Turns, Clean, Owned, NEW t \in Callers,
         \/ \E r \in Calls!Requests : Call(t, r)
         \/ Lock(t) \/ HolderStep(t) \/ Return(t)
  PROVE  Calls!Next \/ (held' = held /\ calls' = calls)
<1>0. /\ caller \in [Callers -> CallerStates]
      /\ conn \in [Conns -> Links]
      /\ done \in [Callers -> Seq(Calls!Answers)]
      /\ holder = t <=> caller[t].at \in {"ready", "await"}
  BY DEF Turns, TypeOK, CallerStates, Returned, Raised, Links
<1>r. ASSUME caller[t].at \in {"lock", "ready", "await"},
             caller' = [caller EXCEPT ![t] = [at |-> "raised"]],
             done' = done, held' = held
      PROVE  Calls!Next
  <2>1. calls' = [calls EXCEPT ![t] = [at |-> "raised"]]
    BY <1>0, <1>r, OneCall DEF calls
  <2>2. calls[t].at = "called"
    BY <1>r DEF calls
  <2> QED BY <1>r, <2>1, <2>2 DEF Calls!Next, Calls!Raise, calls
<1>1. ASSUME NEW r \in Calls!Requests, Call(t, r) PROVE Calls!Next
  <2>1. /\ caller[t] = Idle /\ held' = held
        /\ caller' = [caller EXCEPT ![t] =
                        [at |-> "lock", req |-> r, attempt |-> 0]]
        /\ done' = [done EXCEPT ![t] = <<>>]
    BY <1>1 DEF Call, Goto
  <2>2. calls[t] = Calls!Idle
    BY <2>1 DEF calls, Idle, Calls!Idle
  <2>3. calls'[t] = [at |-> "called", req |-> r, answers |-> <<>>]
    BY <1>0, <2>1 DEF calls
  <2>4. calls' = [calls EXCEPT ![t] =
                    [at |-> "called", req |-> r, answers |-> <<>>]]
    BY <1>0, <2>1, <2>3, OneCall
  <2> QED BY <2>1, <2>2, <2>4 DEF Calls!Next, Calls!Invoke, calls
<1>2. CASE Lock(t)
  <2>1. /\ caller[t].at = "lock" /\ caller[t] \in InCall
        /\ done' = done /\ held' = held
        /\ caller' = [caller EXCEPT ![t] = [caller[t] EXCEPT !.at = "ready"]]
    BY <1>2, CallerKinds DEF Lock, Goto
  <2>2. caller'[t].at = "ready" /\ caller'[t].req = caller[t].req
    BY <1>0, <2>1 DEF InCall
  <2> QED BY <1>0, <2>1, <2>2, SameCall
<1>3. CASE Connect(t)
  BY <1>3 DEF Connect, calls
<1>4. CASE ConnectFails(t)
  BY <1>4, <1>r DEF ConnectFails, Goto
<1>5. CASE Send(t)
  <2>1. /\ caller[t].at = "ready" /\ caller[t] \in InCall
        /\ done' = done /\ held' = held
        /\ caller' = [caller EXCEPT ![t] = [caller[t] EXCEPT !.at = "await"]]
    BY <1>5, CallerKinds DEF Send, Goto
  <2>2. caller'[t].at = "await" /\ caller'[t].req = caller[t].req
    BY <1>0, <2>1 DEF InCall
  <2> QED BY <1>0, <2>1, <2>2, SameCall
<1>6. CASE Receive(t)
  <2>1. /\ caller[t].at = "await" /\ holder = t /\ pooled # Nobody
        /\ conn[pooled].out # <<>> /\ done' = done /\ held' = held
        /\ caller' = [caller EXCEPT ![t] =
                        [at |-> "returned", answer |-> Head(conn[pooled].out)]]
    BY <1>0, <1>6 DEF Receive, Goto, Turns
  <2>2. done[t] # <<>> /\ Head(conn[pooled].out) = done[t][Len(done[t])]
    BY <2>1 DEF Owned, OwnAnswer
  <2>3. calls[t].at = "called" /\ calls[t].answers = done[t]
    BY <2>1 DEF calls
  <2>4. calls' = [calls EXCEPT ![t] =
                    [at |-> "returned", answer |-> done[t][Len(done[t])]]]
    <3>1. calls'[t] = [at |-> "returned", answer |-> done[t][Len(done[t])]]
      BY <1>0, <2>1, <2>2 DEF calls
    <3> QED BY <1>0, <2>1, <3>1, OneCall
  <2> QED BY <2>1, <2>2, <2>3, <2>4 DEF Calls!Next, Calls!Answer, calls
<1>7. CASE Fail(t)
  <2>1. /\ caller[t].at = "await" /\ caller[t] \in InCall
        /\ done' = done /\ held' = held
    BY <1>7, CallerKinds DEF Fail
  <2>2. CASE caller' = [caller EXCEPT ![t] =
                            [caller[t] EXCEPT !.at = "ready", !.attempt = 1]]
    <3>1. caller'[t] = [caller[t] EXCEPT !.at = "ready", !.attempt = 1]
      BY <1>0, <2>2
    <3>2. caller'[t].at = "ready" /\ caller'[t].req = caller[t].req
      BY <2>1, <3>1 DEF InCall
    <3> QED BY <1>0, <2>1, <2>2, <3>2, SameCall
  <2>3. CASE caller' = [caller EXCEPT ![t] = [at |-> "raised"]]
    BY <2>1, <2>3, <1>r
  <2> QED BY <1>7, <2>2, <2>3 DEF Fail, Goto
<1>8. CASE Return(t)
  <2>1. /\ caller[t].at \in {"returned", "raised"} /\ done' = done /\ held' = held
        /\ caller' = [caller EXCEPT ![t] = Idle]
    BY <1>8 DEF Return, Goto
  <2>2. calls[t].at \in {"returned", "raised"}
    BY <2>1 DEF calls
  <2>3. calls'[t] = Calls!Idle
    BY <1>0, <2>1 DEF calls, Idle, Calls!Idle
  <2>4. calls' = [calls EXCEPT ![t] = Calls!Idle]
    BY <1>0, <2>1, <2>3, OneCall
  <2> QED BY <2>1, <2>2, <2>4 DEF Calls!Next, Calls!Return, calls
<1> QED BY <1>1, <1>2, <1>3, <1>4, <1>5, <1>6, <1>7, <1>8 DEF HolderStep

\* A request served is a request performed.
LEMMA WorkerRefines ==
  ASSUME TypeOK, Turns, Clean, Owned,
         (\E c \in Conns : Serve(c) \/ HandlerEnds(c)) \/ WorkerRestart
  PROVE  Calls!Next \/ (held' = held /\ calls' = calls)
<1>0. caller' = caller /\ done \in [Callers -> Seq(Calls!Answers)]
  BY DEF Serve, HandlerEnds, WorkerRestart, TypeOK
<1>1. ASSUME NEW c \in Conns, Serve(c) PROVE Calls!Next
  <2>1. /\ holder \in Callers /\ caller[holder].at = "await"
        /\ caller[holder].attempt \in {0, 1}
        /\ Len(done[holder]) \in Nat /\ Len(done[holder]) <= caller[holder].attempt
    BY <1>1, ServedForHolder DEF InCall
  <2>2. PICK o \in Calls!Outcomes(caller[holder].req) :
            /\ held' = o[2]
            /\ done' = [done EXCEPT ![holder] = Append(@, o[1])]
    BY <1>1, ServedForHolder
  <2>3. /\ calls[holder].at = "called" /\ calls[holder].req = caller[holder].req
        /\ calls[holder].answers = done[holder]
    BY <2>1 DEF calls
  <2>4. Len(calls[holder].answers) < 2
    BY <2>1, <2>3
  <2>5. calls' = [calls EXCEPT ![holder].answers = Append(@, o[1])]
    BY <1>0, <2>1, <2>2 DEF calls
  <2> QED BY <2>1, <2>2, <2>3, <2>4, <2>5 DEF Calls!Next, Calls!Perform, calls
<1>2. ASSUME NEW c \in Conns, HandlerEnds(c)
      PROVE  held' = held /\ calls' = calls
  BY <1>2 DEF HandlerEnds, calls
<1>3. CASE WorkerRestart
  BY <1>3 DEF WorkerRestart, calls, Calls!Next, Calls!Restart
<1> QED BY <1>1, <1>2, <1>3
\* The first states agree.
LEMMA CallsInit == Init => Calls!Init
BY DEF Init, Calls!Init, Idle, Calls!Idle

\* Every step of the pool is one of RemoteCalls, or none.
LEMMA CallsStep ==
  ASSUME Prompt
  PROVE  TypeOK /\ Turns /\ Clean /\ Owned /\ [Next]_vars
            => Calls!Next \/ (held' = held /\ calls' = calls)
<1> SUFFICES ASSUME TypeOK, Turns, Clean, Owned, [Next]_vars
             PROVE  Calls!Next \/ (held' = held /\ calls' = calls)
  OBVIOUS
<1>1. CASE Next
  BY <1>1, CallerRefines, WorkerRefines DEF Next
<1>2. CASE UNCHANGED vars
  BY <1>2 DEF vars, calls
<1> QED BY <1>1, <1>2

\* While the worker reads requests in time, calls over the shared connection
\* do what MemCloud takes them to do: the answer a call returns is to its own
\* request, and the request has its effect between the call and its end, at
\* most twice, whatever connections break and workers restart.
THEOREM CallsAreRemoteCalls ==
  ASSUME Prompt
  PROVE  Spec => CallsImplemented
<1>1. TypeOK /\ Turns /\ Clean /\ Owned /\ [Next]_vars
        => [Calls!Next]_<<held, calls>>
  BY CallsStep
<1>2. TypeOK /\ Turns /\ Clean /\ [Next]_vars => Clean'
  BY CleanStep
<1>3. TypeOK /\ Turns /\ Clean /\ Owned /\ [Next]_vars => Owned'
  BY OwnedStep
<1> QED BY <1>1, <1>2, <1>3, InvInit, InvStep, CleanInit, OwnedInit, CallsInit, PTL
        DEF Spec, CallsImplemented, Calls!Spec, calls
=============================================================================
