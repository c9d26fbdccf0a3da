---------------------------- MODULE RemoteCalls ----------------------------
(***************************************************************************)
(* What the rest of the program takes a call to a peer's worker to be: the *)
(* request takes effect at the worker between the call and its end, once   *)
(* or twice (both put and delete may be repeated without harm), and what   *)
(* the call returns is the answer to its own request.  A call that raises  *)
(* may or may not have had its effect.                                     *)
(*                                                                         *)
(* One peer, and one key at it.                                            *)
(***************************************************************************)
EXTENDS Sequences, Integers

CONSTANTS
    Callers,    \* threads that call the peer
    Data,       \* what the block may hold
    Missing     \* the worker does not hold the block

VARIABLES
    held,       \* the worker's block, or Missing
    call        \* per caller: its call, and the answers the worker made to it

Requests == [op : {"PUT"}, data : Data] \cup [op : {"GET", "DEL"}]

Idle == [at |-> "idle"]

\* What the worker may do with a request: <<its answer, the block after it>>.
\* It refuses a PUT for reasons of its own (module BlockStore).
Outcomes(r) ==
    IF r.op = "PUT" THEN {<<"ok", r.data>>, <<"refused", held>>}
    ELSE IF r.op = "GET" THEN {<<held, held>>}
    ELSE {<<IF held = Missing THEN "absent" ELSE "ok", Missing>>}

Answers == Data \cup {Missing, "ok", "refused", "absent"}

Init ==
    /\ held = Missing
    /\ call = [t \in Callers |-> Idle]

Invoke(t, r) ==
    /\ call[t] = Idle
    /\ call' = [call EXCEPT ![t] = [at |-> "called", req |-> r, answers |-> <<>>]]
    /\ UNCHANGED held

Perform(t) ==
    /\ call[t].at = "called"
    /\ Len(call[t].answers) < 2
    /\ \E o \in Outcomes(call[t].req) :
        /\ call' = [call EXCEPT ![t].answers = Append(@, o[1])]
        /\ held' = o[2]

Answer(t) ==
    /\ call[t].at = "called"
    /\ call[t].answers # <<>>
    /\ call' = [call EXCEPT ![t] = [at |-> "returned",
                answer |-> call[t].answers[Len(call[t].answers)]]]
    /\ UNCHANGED held

Raise(t) ==
    /\ call[t].at = "called"
    /\ call' = [call EXCEPT ![t] = [at |-> "raised"]]
    /\ UNCHANGED held

Return(t) ==
    /\ call[t].at \in {"returned", "raised"}
    /\ call' = [call EXCEPT ![t] = Idle]
    /\ UNCHANGED held

Restart == held' = Missing /\ UNCHANGED call

Next ==
    \/ \E t \in Callers :
        \/ \E r \in Requests : Invoke(t, r)
        \/ Perform(t) \/ Answer(t) \/ Raise(t) \/ Return(t)
    \/ Restart

Spec == Init /\ [][Next]_<<held, call>>
=============================================================================
