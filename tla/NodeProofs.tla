----------------------------- MODULE NodeProofs -----------------------------
(***************************************************************************)
(* Proofs about what a node runs beside its blocks: the events and their   *)
(* streams (Events, EventHistory), for any emitters, clients, sizes of     *)
(* queues and numbers of events, and the peers (Discovery), for any hosts, *)
(* seeds, timeouts and intervals.                                          *)
(***************************************************************************)
EXTENDS EventHistory, Discovery, SequenceTheorems, FiniteSetTheorems, TLAPS

(* Lists                                                                   *)

\* What append does to a sequence, index by index.
LEMMA Appended ==
  ASSUME NEW S, NEW s \in Seq(S), NEW x \in S
  PROVE  /\ Append(s, x) \in Seq(S)
         /\ Len(s) \in Nat /\ DOMAIN s = 1 .. Len(s)
         /\ Len(Append(s, x)) = Len(s) + 1
         /\ DOMAIN Append(s, x) = 1 .. Len(s) + 1
         /\ \A i \in 1 .. Len(s) : Append(s, x)[i] = s[i]
         /\ Append(s, x)[Len(s) + 1] = x
         /\ Range(Append(s, x)) = Range(s) \cup {x}
<1>1. /\ Append(s, x) \in Seq(S)
      /\ Len(s) \in Nat /\ DOMAIN s = 1 .. Len(s)
      /\ Len(Append(s, x)) = Len(s) + 1
      /\ \A i \in 1 .. Len(s) : Append(s, x)[i] = s[i]
      /\ Append(s, x)[Len(s) + 1] = x
  BY AppendProperties, LenProperties
<1>2. DOMAIN Append(s, x) = 1 .. Len(s) + 1
  BY <1>1, LenProperties
<1> DEFINE t == Append(s, x)
<1>3. Range(t) = Range(s) \cup {x}
  <2> HIDE DEF t
  <2>1. /\ Len(s) \in Nat /\ DOMAIN s = 1 .. Len(s) /\ DOMAIN t = 1 .. Len(s) + 1
        /\ \A i \in 1 .. Len(s) : t[i] = s[i]
        /\ t[Len(s) + 1] = x
    BY <1>1, <1>2 DEF t
  <2> QED BY <2>1 DEF Range
<1> QED BY <1>1, <1>2, <1>3

\* What taking the head off a sequence does.
LEMMA Tailed ==
  ASSUME NEW S, NEW s \in Seq(S), s # <<>>
  PROVE  /\ Tail(s) \in Seq(S) /\ Head(s) \in S /\ Head(s) = s[1]
         /\ Len(s) \in Nat \ {0} /\ DOMAIN s = 1 .. Len(s)
         /\ Len(Tail(s)) = Len(s) - 1
         /\ DOMAIN Tail(s) = 1 .. Len(s) - 1
         /\ \A i \in 1 .. Len(s) - 1 : Tail(s)[i] = s[i + 1]
         /\ Range(s) = Range(Tail(s)) \cup {Head(s)}
<1>1. /\ Tail(s) \in Seq(S) /\ Head(s) \in S /\ Head(s) = s[1]
      /\ Len(s) \in Nat \ {0} /\ DOMAIN s = 1 .. Len(s)
      /\ Len(Tail(s)) = Len(s) - 1
      /\ \A i \in 1 .. Len(s) - 1 : Tail(s)[i] = s[i + 1]
  BY HeadTailProperties, LenProperties, EmptySeq
<1>2. DOMAIN Tail(s) = 1 .. Len(s) - 1
  BY <1>1, LenProperties
<1> DEFINE t == Tail(s)
           h == Head(s)
<1>3. Range(s) = Range(t) \cup {h}
  <2> HIDE DEF t, h
  <2>1. /\ Len(s) \in Nat \ {0} /\ DOMAIN s = 1 .. Len(s) /\ DOMAIN t = 1 .. Len(s) - 1
        /\ \A i \in 1 .. Len(s) - 1 : t[i] = s[i + 1]
        /\ h = s[1]
    BY <1>1, <1>2 DEF t, h
  <2>2. ASSUME NEW x \in Range(s) PROVE x \in Range(t) \cup {h}
    <3>1. PICK i \in 1 .. Len(s) : s[i] = x
      BY <2>1 DEF Range
    <3>2. CASE i = 1
      BY <2>1, <3>1, <3>2
    <3>3. CASE i > 1
      <4>1. i - 1 \in DOMAIN t /\ t[i - 1] = x
        BY <2>1, <3>1, <3>3
      <4> QED BY <4>1 DEF Range
    <3> QED BY <3>1, <3>2, <3>3
  <2>3. Range(t) \cup {h} \subseteq Range(s)
    BY <2>1 DEF Range
  <2> QED BY <2>2, <2>3
<1> QED BY <1>1, <1>2, <1>3

LEMMA AppendDistinct ==
  ASSUME NEW S, NEW s \in Seq(S), Distinct(s), NEW x \in S, x \notin Range(s)
  PROVE  Distinct(Append(s, x))
<1> DEFINE t == Append(s, x)
<1>1. /\ Len(s) \in Nat /\ DOMAIN s = 1 .. Len(s) /\ DOMAIN t = 1 .. Len(s) + 1
      /\ \A i \in 1 .. Len(s) : t[i] = s[i] /\ s[i] # x
      /\ t[Len(s) + 1] = x
  BY Appended DEF Range
<1> HIDE DEF t
<1>2. ASSUME NEW i \in DOMAIN t, NEW j \in DOMAIN t, t[i] = t[j] PROVE i = j
  <2>1. CASE i \in 1 .. Len(s) /\ j \in 1 .. Len(s)
    BY <1>1, <1>2, <2>1 DEF Distinct
  <2>2. CASE i = Len(s) + 1 \/ j = Len(s) + 1
    BY <1>1, <1>2, <2>2
  <2> QED BY <1>1, <2>1, <2>2
<1> QED BY <1>2 DEF Distinct, t

\* Taking an element out of a list leaves the others there (unsubscribe, the
\* promotion of a peer).
LEMMA TakenOut ==
  ASSUME NEW S, NEW s \in Seq(S), Distinct(s), NEW c \in Range(s)
  PROVE  /\ Without(s, c) \in Seq(S)
         /\ Distinct(Without(s, c))
         /\ Range(Without(s, c)) = Range(s) \ {c}
<1> DEFINE t == Without(s, c)
<1>1. PICK i \in 1 .. Len(s) : s[i] = c
  BY DEF Range
<1>2. (CHOOSE j \in DOMAIN s : s[j] = c) = i
  BY <1>1 DEF Distinct
<1>3. t = SubSeq(s, 1, i - 1) \o SubSeq(s, i + 1, Len(s))
  BY <1>2 DEF Without, SE!RemoveAt
<1> DEFINE a == SubSeq(s, 1, i - 1)
           b == SubSeq(s, i + 1, Len(s))
<1>4. /\ a \in Seq(S) /\ Len(a) = i - 1
      /\ \A j \in 1 .. i - 1 : a[j] = s[j]
  <2>1. \A j \in 1 .. i - 1 : s[j] \in S
    OBVIOUS
  <2>2. /\ a \in Seq(S) /\ Len(a) = IF 1 <= i - 1 THEN i - 1 - 1 + 1 ELSE 0
        /\ \A j \in 1 .. i - 1 - 1 + 1 : a[j] = s[1 + j - 1]
    BY <2>1, SubSeqProperties
  <2> HIDE DEF a
  <2> QED BY <2>2
<1>5. /\ b \in Seq(S) /\ Len(b) = Len(s) - i
      /\ \A j \in 1 .. Len(s) - i : b[j] = s[i + j]
  <2>1. \A j \in i + 1 .. Len(s) : s[j] \in S
    OBVIOUS
  <2>2. /\ b \in Seq(S) /\ Len(b) = IF i + 1 <= Len(s) THEN Len(s) - (i + 1) + 1 ELSE 0
        /\ \A j \in 1 .. Len(s) - (i + 1) + 1 : b[j] = s[i + 1 + j - 1]
    BY <2>1, SubSeqProperties
  <2> HIDE DEF b
  <2> QED BY <2>2
<1> HIDE DEF t, a, b
<1>6. /\ t \in Seq(S) /\ Len(t) = Len(a) + Len(b)
      /\ \A j \in 1 .. Len(a) + Len(b) : t[j] = IF j <= Len(a) THEN a[j] ELSE b[j - Len(a)]
  <2>1. t = a \o b
    BY <1>3 DEF a, b
  <2> QED BY <1>4, <1>5, <2>1, ConcatProperties
<1>7. /\ Len(s) \in Nat /\ DOMAIN t = 1 .. Len(s) - 1 /\ DOMAIN s = 1 .. Len(s)
      /\ \A j \in 1 .. Len(s) - 1 : t[j] = IF j < i THEN s[j] ELSE s[j + 1]
  <2>1. Len(s) \in Nat /\ DOMAIN s = 1 .. Len(s) /\ DOMAIN t = 1 .. Len(t)
    BY <1>6, LenProperties
  <2>2. Len(t) = Len(s) - 1
    BY <1>4, <1>5, <1>6, <2>1
  <2>3. ASSUME NEW j \in 1 .. Len(s) - 1 PROVE t[j] = IF j < i THEN s[j] ELSE s[j + 1]
    <3>1. CASE j < i
      BY <1>4, <1>5, <1>6, <2>1, <3>1
    <3>2. CASE j >= i
      <4>1. t[j] = b[j - (i - 1)] /\ j - (i - 1) \in 1 .. Len(s) - i
        BY <1>4, <1>5, <1>6, <2>1, <3>2
      <4> QED BY <1>5, <2>1, <3>2, <4>1
    <3> QED BY <2>1, <3>1, <3>2
  <2> QED BY <2>1, <2>2, <2>3
<1>8. Distinct(t)
  <2> DEFINE Was(j) == IF j < i THEN j ELSE j + 1
  <2>1. SUFFICES ASSUME NEW j \in 1 .. Len(s) - 1, NEW k \in 1 .. Len(s) - 1, t[j] = t[k]
                 PROVE  j = k
    BY <1>7 DEF Distinct
  <2>2. s[Was(j)] = s[Was(k)] /\ Was(j) \in DOMAIN s /\ Was(k) \in DOMAIN s
    BY <1>7, <2>1
  <2>3. Was(j) = Was(k)
    BY <2>2 DEF Distinct
  <2> QED BY <2>3
<1>9. Range(t) = Range(s) \ {c}
  <2>1. ASSUME NEW x \in Range(t) PROVE x \in Range(s) \ {c}
    BY <1>1, <1>7 DEF Range, Distinct
  <2>2. ASSUME NEW x \in Range(s) \ {c} PROVE x \in Range(t)
    <3>1. PICK j \in 1 .. Len(s) : s[j] = x
      BY <1>7 DEF Range
    <3>2. CASE j < i
      BY <1>1, <1>7, <3>1, <3>2 DEF Range
    <3>3. CASE j > i
      <4>1. j - 1 \in DOMAIN t /\ t[j - 1] = x
        BY <1>1, <1>7, <3>1, <3>3
      <4> QED BY <4>1 DEF Range
    <3> QED BY <1>1, <3>1, <3>2, <3>3
  <2> QED BY <2>1, <2>2
<1> QED BY <1>6, <1>8, <1>9 DEF t

LEMMA TailDistinct ==
  ASSUME NEW S, NEW s \in Seq(S), s # <<>>, Distinct(s)
  PROVE  Distinct(Tail(s)) /\ Head(s) \notin Range(Tail(s))
<1> DEFINE t == Tail(s)
<1>1. /\ Head(s) = s[1] /\ Len(s) \in Nat \ {0} /\ DOMAIN s = 1 .. Len(s)
      /\ DOMAIN t = 1 .. Len(s) - 1 /\ \A i \in 1 .. Len(s) - 1 : t[i] = s[i + 1]
  BY Tailed
<1> HIDE DEF t
<1>2. ASSUME NEW i \in DOMAIN t, NEW j \in DOMAIN t, t[i] = t[j] PROVE i = j
  <2>1. s[i + 1] = s[j + 1] /\ i + 1 \in DOMAIN s /\ j + 1 \in DOMAIN s
    BY <1>1, <1>2
  <2>2. i + 1 = j + 1
    BY <2>1 DEF Distinct
  <2> QED BY <1>1, <2>2
<1>3. ASSUME NEW i \in DOMAIN t PROVE t[i] # s[1]
  <2>1. i + 1 \in DOMAIN s /\ 1 \in DOMAIN s /\ i + 1 # 1
    BY <1>1
  <2> QED BY <1>1, <2>1 DEF Distinct
<1>4. Head(s) \notin Range(t)
  BY <1>1, <1>3 DEF Range
<1> QED BY <1>2, <1>4 DEF Distinct, t

\* What putting o in the place of e does to a list.
LEMMA Replaced ==
  ASSUME NEW S, NEW s \in Seq(S), Distinct(s), NEW e \in Range(s), NEW o \in S, o \notin Range(s)
  PROVE  LET t == [i \in DOMAIN s |-> IF s[i] = e THEN o ELSE s[i]]
         IN  t \in Seq(S) /\ Distinct(t) /\ Range(t) = (Range(s) \ {e}) \cup {o}
<1> DEFINE t == [i \in DOMAIN s |-> IF s[i] = e THEN o ELSE s[i]]
<1>1. Len(s) \in Nat /\ DOMAIN s = 1 .. Len(s) /\ \A i \in DOMAIN s : s[i] \in S /\ s[i] # o
  BY LenProperties, ElementOfSeq DEF Range
<1>2. DOMAIN t = DOMAIN s /\ \A i \in DOMAIN s : t[i] = IF s[i] = e THEN o ELSE s[i]
  OBVIOUS
<1>3. t \in [1 .. Len(s) -> S]
  BY <1>1
<1>4. t \in Seq(S)
  BY <1>1, <1>3, SeqDef
<1> HIDE DEF t
<1>5. Distinct(t)
  BY <1>1, <1>2 DEF Distinct
<1>6. Range(t) = (Range(s) \ {e}) \cup {o}
  <2>1. ASSUME NEW x \in Range(t) PROVE x \in (Range(s) \ {e}) \cup {o}
    BY <1>2 DEF Range
  <2>2. ASSUME NEW x \in Range(s) \ {e} PROVE x \in Range(t)
    <3>1. PICK i \in DOMAIN s : s[i] = x
      BY DEF Range
    <3>2. t[i] = x
      BY <1>2, <3>1
    <3> QED BY <1>2, <3>1, <3>2 DEF Range
  <2>3. o \in Range(t)
    <3>1. PICK i \in DOMAIN s : s[i] = e
      BY DEF Range
    <3>2. t[i] = o
      BY <1>2, <3>1
    <3> QED BY <1>2, <3>1, <3>2 DEF Range
  <2> QED BY <2>1, <2>2, <2>3
<1> QED BY <1>4, <1>5, <1>6 DEF t
-----------------------------------------------------------------------------
(* Events: types                                                           *)

LEMMA AppendRange ==
  \A s \in Seq(Events) : \A x \in Events : Range(Append(s, x)) = Range(s) \cup {x}
  BY Appended

\* An emit in progress is of an event that is counted, and goes through a
\* copy of the list in which each subscriber is once.
Copies ==
    \A e \in Emitters :
        emitter[e].op # Idle => emitter[e].count # 0 /\ Distinct(emitter[e].op.to)

TInv == TypeOK /\ Copies

LEMMA OpKinds ==
  ASSUME TInv, NEW e \in Emitters, emitter[e].op # Idle
  PROVE  /\ emitter[e].op \in [at : {"offer"}, to : Seq(Clients), next : Nat \ {0}]
         /\ Event(e) \in Events
         /\ emitter[e].count \in 1 .. MaxEvents
<1>1. emitter[e] \in [count : 0 .. MaxEvents, op : Emittings]
  BY DEF TypeOK, TInv
<1>2. emitter[e].count \in 0 .. MaxEvents
  BY <1>1
<1>3. emitter[e].op \in [at : {"offer"}, to : Seq(Clients), next : Nat \ {0}]
  BY <1>1 DEF Emittings
<1>4. emitter[e].count # 0
  BY DEF Copies, TInv
<1>5. emitter[e].count \in 1 .. MaxEvents
  BY <1>2, <1>4, EventConstants
<1> QED BY <1>3, <1>5 DEF Event, Events

LEMMA WriteKinds ==
  ASSUME TypeOK, NEW c \in Clients, stream[c].at = "write"
  PROVE  stream[c] = Writing(stream[c].event) /\ stream[c].event \in Events \cup {None}
<1>1. stream[c] \in [at : {"write"}, event : Events \cup {None}]
  <2>1. stream[c] \in StreamStates
    BY DEF TypeOK
  <2>2. CASE stream[c] = Ask
    BY <2>2 DEF Ask
  <2>3. CASE stream[c] \in [at : {"new", "finally", "ended"}]
    BY <2>3
  <2> QED BY <2>1, <2>2, <2>3 DEF StreamStates
<1> QED BY <1>1 DEF Writing

LEMMA TypeEmit ==
  ASSUME TInv, NEW e \in Emitters, Emit(e) PROVE TInv'
<1>1. emitter[e].count \in 0 .. MaxEvents
  BY DEF TInv, TypeOK
<1> DEFINE o == [at |-> "offer", to |-> subs, next |-> 1]
<1>2. o \in Emittings
  BY DEF TInv, TypeOK, Emittings
<1> DEFINE new == [count |-> emitter[e].count + 1, op |-> o]
<1>3. new \in [count : 0 .. MaxEvents, op : Emittings]
  BY <1>1, <1>2, EventConstants DEF Emit
<1>4. emitter' = [emitter EXCEPT ![e] = new]
  BY DEF Emit
<1>5. emitter' \in [Emitters -> [count : 0 .. MaxEvents, op : Emittings]]
  <2> HIDE DEF new
  <2> QED BY <1>3, <1>4 DEF TInv, TypeOK
<1>6. UNCHANGED <<subs, queue, stream, net, sent>>
  BY DEF Emit
<1>7. TypeOK'
  BY <1>5, <1>6 DEF TInv, TypeOK
<1>8. new.count # 0 /\ new.op.to = subs /\ Distinct(subs)
  BY <1>1 DEF TInv, TypeOK, Distinct
<1>9. Copies'
  <2> HIDE DEF new
  <2> QED BY <1>4, <1>8 DEF TInv, TypeOK, Copies
<1> QED BY <1>7, <1>9 DEF TInv

LEMMA TypeOffer ==
  ASSUME TInv, NEW e \in Emitters, Offer(e) PROVE TInv'
<1> DEFINE op == emitter[e].op
<1>1. /\ op # Idle /\ op \in [at : {"offer"}, to : Seq(Clients), next : Nat \ {0}]
      /\ Event(e) \in Events
      /\ emitter[e].count \in 1 .. MaxEvents
  BY OpKinds DEF Offer
<1>2. UNCHANGED <<subs, stream, net, sent>>
  BY DEF Offer, OfferNext
<1>3. CASE op.next \in DOMAIN op.to
  <2> DEFINE c == op.to[op.next]
             more == [op EXCEPT !.next = @ + 1]
  <2>1. c \in Clients
    BY <1>1, <1>3
  <2>2. ~(op.next > Len(op.to))
    BY <1>1, <1>3
  <2>3. /\ queue' = [queue EXCEPT ![c] =
              IF Len(@) < QueueSize[c] THEN Append(@, Event(e)) ELSE @]
        /\ emitter' = [emitter EXCEPT ![e].op.next = @ + 1]
    BY <2>2, Zenon DEF Offer, OfferNext
  <2>4. more \in Emittings /\ more.to = op.to
    BY <1>1 DEF Emittings
  <2>5. emitter' = [emitter EXCEPT ![e] = [emitter[e] EXCEPT !.op = more]]
    BY <2>3
  <2>6. [emitter[e] EXCEPT !.op = more] \in [count : 0 .. MaxEvents, op : Emittings]
    <3> HIDE DEF more
    <3>1. emitter[e] \in [count : 0 .. MaxEvents, op : Emittings]
      BY DEF TInv, TypeOK
    <3> QED BY <2>4, <3>1
  <2> DEFINE new == [emitter[e] EXCEPT !.op = more]
  <2>7. new.count = emitter[e].count /\ new.op.to = op.to
    <3> HIDE DEF more
    <3>1. emitter[e] \in [count : 0 .. MaxEvents, op : Emittings]
      BY DEF TInv, TypeOK
    <3> QED BY <2>4, <3>1
  <2>8. emitter' \in [Emitters -> [count : 0 .. MaxEvents, op : Emittings]]
    <3> HIDE DEF more, new
    <3> QED BY <2>5, <2>6 DEF TInv, TypeOK, new
  <2>9. Copies'
    <3>1. emitter[e].count # 0 /\ Distinct(op.to)
      BY <1>1 DEF TInv, Copies
    <3>2. emitter' = [emitter EXCEPT ![e] = new]
      BY <2>5
    <3> HIDE DEF new
    <3> QED BY <2>7, <3>1, <3>2 DEF TInv, TypeOK, Copies
  <2>10. queue' \in [Clients -> Seq(Events)] /\ \A d \in Clients : Len(queue'[d]) <= QueueSize[d]
    <3>1. queue[c] \in Seq(Events) /\ Len(queue[c]) <= QueueSize[c] /\ QueueSize[c] \in Nat
      BY <2>1, EventConstants DEF TInv, TypeOK
    <3> DEFINE q == IF Len(queue[c]) < QueueSize[c] THEN Append(queue[c], Event(e)) ELSE queue[c]
    <3>2. q \in Seq(Events) /\ Len(q) <= QueueSize[c]
      BY <1>1, <3>1, Appended
    <3>3. queue' = [queue EXCEPT ![c] = q]
      BY <2>3
    <3> HIDE DEF q, c
    <3> QED BY <2>1, <3>2, <3>3 DEF TInv, TypeOK
  <2>11. TypeOK'
    BY <1>2, <2>8, <2>10 DEF TInv, TypeOK
  <2> QED BY <2>9, <2>11 DEF TInv
<1>4. CASE op.next \notin DOMAIN op.to
  <2>1. emitter' = [emitter EXCEPT ![e] = [emitter[e] EXCEPT !.op = Idle]] /\ queue' = queue
    BY <1>4 DEF Offer, OfferNext
  <2>2. [emitter[e] EXCEPT !.op = Idle] \in [count : 0 .. MaxEvents, op : Emittings]
    <3>1. emitter[e] \in [count : 0 .. MaxEvents, op : Emittings] /\ Idle \in Emittings
      BY DEF TInv, TypeOK, Emittings
    <3> QED BY <3>1
  <2>3. emitter' \in [Emitters -> [count : 0 .. MaxEvents, op : Emittings]]
    BY <2>1, <2>2 DEF TInv, TypeOK
  <2>4. TypeOK'
    BY <1>2, <2>1, <2>3 DEF TInv, TypeOK
  <2>5. Copies'
    BY <2>1 DEF TInv, TypeOK, Copies
  <2> QED BY <2>4, <2>5 DEF TInv
<1> QED BY <1>3, <1>4

\* The steps of the streams, the clients and the network.
LEMMA TypeClient ==
  ASSUME TInv, NEW c \in Clients,
         Subscribe(c) \/ StreamGoesOn(c) \/ Write(c) \/ Leave(c) \/ Reset(c)
  PROVE  TInv'
<1>1. emitter' = emitter
  BY DEF Subscribe, StreamGoesOn, Take, KeepAlive, Write, WriteRaises, Unsubscribe,
         Leave, Reset, Turns
<1>2. Copies'
  BY <1>1 DEF TInv, Copies
<1>3. None \notin Events /\ c \in DOMAIN stream
  BY EventConstants DEF Events, TInv, TypeOK
<1> USE DEF TypeOK, TInv
<1>4. CASE Subscribe(c)
  <2>1. c \notin Range(subs) /\ subs \in Seq(Clients) /\ Distinct(subs)
    BY <1>4 DEF Subscribe, Distinct
  <2>2. /\ subs' \in Seq(Clients) /\ DOMAIN subs' = 1 .. Len(subs) + 1 /\ Len(subs) \in Nat
        /\ DOMAIN subs = 1 .. Len(subs)
        /\ \A i \in 1 .. Len(subs) : subs'[i] = subs[i]
        /\ subs'[Len(subs) + 1] = c
        /\ Range(subs') = Range(subs) \cup {c}
    BY <1>4, <2>1, Appended DEF Subscribe
  <2>3. \A i, j \in DOMAIN subs' : subs'[i] = subs'[j] => i = j
    <3>1. subs' = Append(subs, c)
      BY <1>4 DEF Subscribe
    <3>2. Distinct(Append(subs, c))
      <4> HIDE DEF TypeOK, TInv
      <4> QED BY <2>1, AppendDistinct
    <3> QED BY <3>1, <3>2 DEF Distinct
  <2>4. stream' \in [Clients -> StreamStates] /\ stream'[c].at = "get"
        /\ \A d \in Clients \ {c} : stream'[d] = stream[d]
    BY <1>4 DEF Subscribe, Goto, StreamStates, Ask
  <2>5. \A d \in Clients : d \in Range(subs') <=> stream'[d].at \notin {"new", "ended"}
    BY <2>2, <2>4
  <2>6. UNCHANGED <<queue, net, sent>>
    BY <1>4 DEF Subscribe
  <2> QED BY <1>1, <1>2, <2>2, <2>3, <2>4, <2>5, <2>6
<1>5. CASE Take(c)
  <2>1. queue[c] \in Seq(Events) /\ queue[c] # <<>> /\ Len(queue[c]) <= QueueSize[c]
        /\ QueueSize[c] \in Nat
    BY <1>5, EventConstants DEF Take
  <2>2. /\ Tail(queue[c]) \in Seq(Events) /\ Head(queue[c]) \in Events
        /\ Len(Tail(queue[c])) <= QueueSize[c]
    BY <2>1, Tailed
  <2>3. Writing(Head(queue[c])) \in StreamStates
    BY <2>2 DEF Writing, StreamStates
  <2>4. /\ stream' = [stream EXCEPT ![c] = Writing(Head(queue[c]))]
        /\ queue' = [queue EXCEPT ![c] = Tail(queue[c])]
        /\ UNCHANGED <<subs, net, sent>>
    BY <1>5 DEF Take, Goto
  <2>5. Writing(Head(queue[c])).at = "write" /\ stream[c].at = "get"
    BY <1>5 DEF Writing, Take
  <2>6. queue' \in [Clients -> Seq(Events)] /\ \A d \in Clients : Len(queue'[d]) <= QueueSize[d]
    BY <2>2, <2>4
  <2>7. /\ stream' \in [Clients -> StreamStates]
        /\ \A d \in Clients : d \in Range(subs') <=> stream'[d].at \notin {"new", "ended"}
    BY <2>3, <2>4, <2>5
  <2> QED BY <1>1, <1>2, <2>4, <2>6, <2>7
<1>6. ASSUME UNCHANGED <<subs, queue, net>>, sent' \in [Clients -> Seq(Events)],
             NEW s \in StreamStates, stream' = [stream EXCEPT ![c] = s],
             stream[c].at \notin {"new", "ended"}, s.at \notin {"new", "ended"}
      PROVE  TInv'
  <2>1. /\ stream' \in [Clients -> StreamStates]
        /\ \A d \in Clients : d \in Range(subs') <=> stream'[d].at \notin {"new", "ended"}
    BY <1>6
  <2> QED BY <1>1, <1>2, <1>6, <2>1
<1>7. CASE KeepAlive(c)
  <2>1. Writing(None) \in StreamStates /\ Writing(None).at = "write"
    BY DEF Writing, StreamStates
  <2>2. stream[c].at = "get" /\ stream' = [stream EXCEPT ![c] = Writing(None)]
        /\ UNCHANGED <<subs, queue, net, sent>>
    BY <1>7 DEF KeepAlive, Goto
  <2> HIDE DEF TInv
  <2> QED BY <1>6, <2>1, <2>2 DEF TInv
<1>8. CASE Write(c)
  <2>1. Ask \in StreamStates /\ Ask.at = "get"
    BY DEF Ask, StreamStates
  <2>2. stream[c].at = "write" /\ stream' = [stream EXCEPT ![c] = Ask]
        /\ UNCHANGED <<subs, queue, net>>
    BY <1>8 DEF Write, Goto
  <2>3. sent' \in [Clients -> Seq(Events)]
    <3>1. stream[c].event \in Events \cup {None}
      BY <2>2, WriteKinds
    <3>2. CASE stream[c].event = None
      BY <1>8, <3>2 DEF Write
    <3>3. CASE stream[c].event # None
      <4>1. Append(sent[c], stream[c].event) \in Seq(Events)
        BY <3>1, <3>3, Appended
      <4>2. sent' = [sent EXCEPT ![c] = Append(sent[c], stream[c].event)]
        BY <1>8, <3>3 DEF Write
      <4> QED BY <4>1, <4>2
    <3> QED BY <3>2, <3>3
  <2> QED BY <1>6, <2>1, <2>2, <2>3
<1>9. CASE WriteRaises(c)
  <2>1. [at |-> "finally"] \in StreamStates /\ [at |-> "finally"].at = "finally"
    BY DEF StreamStates
  <2>2. stream[c].at = "write" /\ stream' = [stream EXCEPT ![c] = [at |-> "finally"]]
        /\ UNCHANGED <<subs, queue, net, sent>>
    BY <1>9 DEF WriteRaises, Goto
  <2> QED BY <1>6, <2>1, <2>2
<1>10. CASE Unsubscribe(c)
  <2>1. stream[c].at = "finally" /\ stream' = [stream EXCEPT ![c] = [at |-> "ended"]]
        /\ subs' = Without(subs, c) /\ UNCHANGED <<queue, net, sent>>
    BY <1>10 DEF Unsubscribe, Goto
  <2>2. c \in Range(subs) /\ Distinct(subs)
    BY <2>1 DEF Distinct
  <2>3. subs' \in Seq(Clients) /\ Distinct(subs') /\ Range(subs') = Range(subs) \ {c}
    BY <2>1, <2>2, TakenOut
  <2>4. stream' \in [Clients -> StreamStates]
    BY <2>1 DEF StreamStates
  <2>5. \A d \in Clients : d \in Range(subs') <=> stream'[d].at \notin {"new", "ended"}
    BY <2>1, <2>3
  <2>6. \A i, j \in DOMAIN subs' : subs'[i] = subs'[j] => i = j
    BY <2>3 DEF Distinct
  <2> QED BY <1>1, <1>2, <2>1, <2>3, <2>4, <2>5, <2>6
<1>11. CASE Leave(c) \/ Reset(c)
  <2>1. UNCHANGED <<subs, queue, stream, sent>> /\ net' \in [Clients -> {"there", "left", "gone"}]
    BY <1>11 DEF Leave, Reset, Turns
  <2> QED BY <1>1, <1>2, <2>1
<1> QED BY <1>4, <1>5, <1>7, <1>8, <1>9, <1>10, <1>11 DEF StreamGoesOn

LEMMA TypeInit == Init => TInv
<1> SUFFICES ASSUME Init PROVE TInv
  OBVIOUS
<1>1. \A e \in Emitters : emitter[e].op = Idle
  BY DEF Init
<1>2. emitter \in [Emitters -> [count : 0 .. MaxEvents, op : Emittings]]
  BY EventConstants DEF Init, Emittings
<1>3. stream \in [Clients -> StreamStates] /\ \A c \in Clients : stream[c].at = "new"
  BY DEF Init, StreamStates
<1>4. subs = <<>> /\ subs \in Seq(Clients) /\ Range(subs) = {}
  BY DEF Init, Range
<1>5. /\ queue \in [Clients -> Seq(Events)]
      /\ \A c \in Clients : Len(queue[c]) <= QueueSize[c]
      /\ sent \in [Clients -> Seq(Events)]
      /\ net \in [Clients -> {"there", "left", "gone"}]
  BY EventConstants DEF Init
<1> QED BY <1>1, <1>2, <1>3, <1>4, <1>5 DEF TInv, TypeOK, Copies

LEMMA TypeStep == TInv /\ [Next]_vars => TInv'
<1> SUFFICES ASSUME TInv, [Next]_vars PROVE TInv'
  OBVIOUS
<1>1. CASE UNCHANGED vars
  BY <1>1 DEF vars, TInv, TypeOK, Copies
<1> QED BY <1>1, TypeEmit, TypeOffer, TypeClient DEF Next

\* Types hold; no queue is over its size; and the subscribers are the streams
\* that are served, each once, whatever threads emit, come and go.
THEOREM TypeCorrect == Spec => []TypeOK
<1>1. TInv => TypeOK
  BY DEF TInv
<1> QED BY <1>1, TypeInit, TypeStep, PTL DEF Spec

\* The history takes no part in the steps.
LEMMA HistoryOnly == HSpec => Spec
<1>1. HInit => Init
  BY DEF HInit
<1>2. [HNext]_hvars => [Next]_vars
  BY DEF HNext, HEmit, HOffer, Next, hvars
<1> QED BY <1>1, <1>2, PTL DEF HSpec, Spec

-----------------------------------------------------------------------------
(* The order of events                                                     *)

\* The event is on its way to the client, or has been sent to it.
InFlow(c, m) ==
    \/ m \in Range(sent[c])
    \/ stream[c].at = "write" /\ stream[c].event = m
    \/ m \in Range(queue[c])

\* The emit of the event is in progress and has been at the client's queue.
Offered(c, m) ==
    LET op == emitter[m[1]].op
    IN  /\ op # Idle
        /\ m = Event(m[1])
        /\ \E j \in DOMAIN op.to : j < op.next /\ op.to[j] = c

\* What has returned is over; what an event comes after had returned.
Past ==
    /\ returned \subseteq Events
    /\ \A m \in returned :
        /\ m[2] <= emitter[m[1]].count
        /\ emitter[m[1]].op # Idle => m # Event(m[1])
    /\ earlier \in [Events -> SUBSET Events]
    /\ \A m \in Events : earlier[m] \subseteq returned

\* Nothing is on its way but what has been emitted.
FlowEmitted ==
    \A c \in Clients : \A m \in Events :
        InFlow(c, m) => m \in returned \/ Offered(c, m)

MayFollow(m, n) == m # n /\ n \notin earlier[m]

\* What has been sent (s), then the event being written (by a stream in state
\* t), then the queue (q): of any two, the second may follow the first.
InTurn(s, t, q) ==
    /\ \A i, j \in DOMAIN s : i < j => MayFollow(s[i], s[j])
    /\ \A i, j \in DOMAIN q : i < j => MayFollow(q[i], q[j])
    /\ \A i \in DOMAIN s, j \in DOMAIN q : MayFollow(s[i], q[j])
    /\ t.at = "write" /\ t.event # None =>
        /\ \A i \in DOMAIN s : MayFollow(s[i], t.event)
        /\ \A j \in DOMAIN q : MayFollow(t.event, q[j])

FlowOrdered == \A c \in Clients : InTurn(sent[c], stream[c], queue[c])

Order == Past /\ FlowEmitted /\ FlowOrdered

LEMMA FlowTyped ==
  ASSUME TInv, NEW c \in Clients
  PROVE  /\ sent[c] \in Seq(Events) /\ queue[c] \in Seq(Events)
         /\ None \notin Events
         /\ Range(sent[c]) \subseteq Events /\ Range(queue[c]) \subseteq Events
  BY EventConstants DEF TInv, TypeOK, Events, Range

\* The order of the flow depends on the order of the events in it.
LEMMA OrderKept ==
  ASSUME TInv, FlowOrdered, UNCHANGED <<queue, stream, sent>>,
         \A c \in Clients : \A n \in Events : \A o :
             InFlow(c, n) /\ MayFollow(n, o) => MayFollow(n, o)'
  PROVE  FlowOrdered'
<1> SUFFICES ASSUME NEW c \in Clients
             PROVE  InTurn(sent[c], stream[c], queue[c])'
  BY DEF FlowOrdered
<1>1. /\ \A i \in DOMAIN sent[c] : InFlow(c, sent[c][i]) /\ sent[c][i] \in Events
      /\ \A i \in DOMAIN queue[c] : InFlow(c, queue[c][i]) /\ queue[c][i] \in Events
      /\ stream[c].at = "write" /\ stream[c].event # None =>
            InFlow(c, stream[c].event) /\ stream[c].event \in Events
  BY FlowTyped, WriteKinds DEF InFlow, Range, TInv
<1> QED BY <1>1 DEF FlowOrdered, InTurn, MayFollow

LEMMA OrderEmit ==
  ASSUME TInv, Order, NEW e \in Emitters, HEmit(e) PROVE Order'
<1> DEFINE m == <<e, emitter[e].count + 1>>
<1>1. /\ m \in Events /\ emitter[e].count \in Nat /\ emitter[e].op = Idle
  BY EventConstants DEF HEmit, Emit, TInv, TypeOK, Events
<1>2. /\ UNCHANGED <<queue, stream, sent, returned>>
      /\ earlier' = [earlier EXCEPT ![m] = returned]
  BY DEF HEmit, Emit
<1>3. /\ \A d \in Emitters \ {e} : emitter'[d] = emitter[d]
      /\ emitter'[e].count = emitter[e].count + 1 /\ emitter'[e].op.next = 1
      /\ emitter'[e].op.to = subs
  BY DEF HEmit, Emit, TInv, TypeOK
<1>4. m \notin returned
  BY <1>1 DEF Order, Past
<1>5. Past'
  <2>1. \A n \in returned : n[1] \in Emitters /\ n[2] \in Nat
    BY EventConstants DEF Order, Past, Events
  <2>2. ASSUME NEW n \in returned
        PROVE  /\ n[2] <= emitter'[n[1]].count
               /\ emitter'[n[1]].op # Idle => n # Event(n[1])'
    <3>1. CASE n[1] = e
      <4>1. n[2] <= emitter[e].count /\ n[2] \in Nat
        BY <2>1, <3>1 DEF Order, Past
      <4> QED BY <1>1, <1>3, <3>1, <4>1 DEF Event
    <3>2. CASE n[1] # e
      BY <1>3, <2>1, <3>2 DEF Order, Past, Event
    <3> QED BY <3>1, <3>2
  <2>3. /\ earlier' \in [Events -> SUBSET Events]
        /\ \A n \in Events : earlier'[n] \subseteq returned
    BY <1>1, <1>2 DEF Order, Past
  <2> QED BY <1>2, <2>2, <2>3 DEF Order, Past
<1>6. \A c \in Clients : ~InFlow(c, m)
  <2>1. \A c \in Clients : ~Offered(c, m)
    BY <1>1 DEF Offered
  <2> QED BY <1>1, <1>4, <2>1 DEF Order, FlowEmitted
<1>7. FlowEmitted'
  <2> SUFFICES ASSUME NEW c \in Clients, NEW n \in Events, InFlow(c, n)
               PROVE  n \in returned \/ Offered(c, n)'
    BY <1>2 DEF FlowEmitted, InFlow
  <2>1. n \in returned \/ Offered(c, n)
    BY DEF Order, FlowEmitted
  <2>2. n[1] \in Emitters
    BY DEF Events
  <2>3. CASE n[1] = e
    BY <1>1, <2>1, <2>3 DEF Offered
  <2>4. CASE n[1] # e
    BY <1>3, <2>1, <2>2, <2>4 DEF Offered, Event
  <2> QED BY <2>3, <2>4
<1>8. \A c \in Clients : \A n \in Events : \A o :
          InFlow(c, n) /\ MayFollow(n, o) => MayFollow(n, o)'
  BY <1>1, <1>2, <1>6 DEF MayFollow, Order, Past
<1>9. FlowOrdered'
  BY <1>2, <1>8, OrderKept DEF Order
<1> QED BY <1>5, <1>7, <1>9 DEF Order

\* An event that is being offered is not in the flow of a client whose queue
\* it has not been at yet.
LEMMA OfferFresh ==
  ASSUME TInv, Past, FlowEmitted, NEW e \in Emitters, emitter[e].op # Idle,
         emitter[e].op.next \in DOMAIN emitter[e].op.to
  PROVE  ~InFlow(emitter[e].op.to[emitter[e].op.next], Event(e))
<1> DEFINE op == emitter[e].op
           c == op.to[op.next]
<1>1. /\ op \in [at : {"offer"}, to : Seq(Clients), next : Nat \ {0}]
      /\ Event(e) \in Events /\ Event(e)[1] = e
  BY OpKinds DEF Event
<1>2. c \in Clients
  BY <1>1
<1>3. Event(e) \notin returned
  BY <1>1 DEF Past
<1>4. ~Offered(c, Event(e))
  <2>1. Distinct(op.to)
    BY DEF TInv, Copies
  <2>2. \A j \in DOMAIN op.to : j < op.next => op.to[j] # c
    BY <1>1, <2>1 DEF Distinct
  <2> QED BY <1>1, <2>2 DEF Offered
<1> QED BY <1>1, <1>2, <1>3, <1>4 DEF FlowEmitted

\* The event goes to the end of a queue, or is dropped.
LEMMA OrderDeliver ==
  ASSUME TInv, Order, NEW e \in Emitters, HOffer(e),
         emitter[e].op.next \in DOMAIN emitter[e].op.to
  PROVE  Order'
<1> DEFINE op == emitter[e].op
           c == op.to[op.next]
           m == Event(e)
<1>1. /\ op # Idle /\ op \in [at : {"offer"}, to : Seq(Clients), next : Nat \ {0}]
      /\ m \in Events /\ m[1] = e
  BY OpKinds DEF HOffer, Offer, Event
<1>2. c \in Clients
  BY <1>1
<1>3. ~(op.next > Len(op.to))
  BY <1>1
<1>4. /\ queue' = [queue EXCEPT ![c] =
              IF Len(@) < QueueSize[c] THEN Append(@, Event(e)) ELSE @]
      /\ emitter' = [emitter EXCEPT ![e].op.next = @ + 1]
  BY <1>3, Zenon DEF HOffer, Offer, OfferNext
<1>5. UNCHANGED <<stream, sent, earlier>>
  BY DEF HOffer, Offer, OfferNext
<1>6. /\ \A d \in Emitters \ {e} : emitter'[d] = emitter[d]
      /\ emitter'[e].count = emitter[e].count
      /\ emitter'[e].op = [op EXCEPT !.next = @ + 1]
  <2>1. emitter \in [Emitters -> [count : 0 .. MaxEvents, op : Emittings]]
    BY DEF TInv, TypeOK
  <2>2. emitter' = [emitter EXCEPT ![e] = [emitter[e] EXCEPT !.op = [op EXCEPT !.next = @ + 1]]]
    BY <1>4
  <2> DEFINE o == [op EXCEPT !.next = @ + 1]
  <2>3. emitter' = [emitter EXCEPT ![e] = [emitter[e] EXCEPT !.op = o]]
    BY <2>2
  <2> HIDE DEF o
  <2>4. /\ \A d \in Emitters \ {e} : emitter'[d] = emitter[d]
        /\ emitter'[e].count = emitter[e].count
        /\ emitter'[e].op = o
    BY <2>1, <2>3
  <2> QED BY <2>4 DEF o
<1>7. /\ emitter'[e].op # Idle /\ emitter'[e].op.to = op.to
      /\ emitter'[e].op.next = op.next + 1
  BY <1>1, <1>6 DEF Idle
<1>8. returned' = returned
  BY <1>7 DEF HOffer
<1>9. Past'
  BY <1>5, <1>6, <1>7, <1>8, <1>1 DEF Order, Past, Event, Events
<1>10. \A d \in Clients, n \in Events :
           Offered(d, n) \/ (d = c /\ n = m) => Offered(d, n)'
  <2>1. \A n \in Events : n[1] \in Emitters
    BY DEF Events
  <2>2. op.next < op.next + 1 /\ \A j \in DOMAIN op.to : j < op.next => j < op.next + 1
    BY <1>1
  <2>3. ASSUME NEW d \in Clients, NEW n \in Events, n = m, d = c PROVE Offered(d, n)'
    <3>1. n = Event(n[1])'
      BY <1>1, <1>6, <2>3 DEF Event
    <3>2. op.next \in DOMAIN op.to /\ op.to[op.next] = d
      BY <2>3
    <3>3. /\ emitter'[n[1]].op # Idle
          /\ \E j \in DOMAIN emitter'[n[1]].op.to :
                j < emitter'[n[1]].op.next /\ emitter'[n[1]].op.to[j] = d
      BY <1>1, <1>7, <2>2, <2>3, <3>2
    <3> QED BY <3>1, <3>3 DEF Offered
  <2>4. ASSUME NEW d \in Clients, NEW n \in Events, Offered(d, n) PROVE Offered(d, n)'
    <3>1. CASE n[1] = e
      <4>1. n = Event(n[1])'
        BY <1>6, <2>4, <3>1 DEF Offered, Event
      <4> QED BY <1>7, <2>2, <2>4, <3>1, <4>1 DEF Offered
    <3>2. CASE n[1] # e
      BY <1>6, <2>1, <2>4, <3>2 DEF Offered, Event
    <3> QED BY <3>1, <3>2
  <2> QED BY <2>3, <2>4
<1>11. ~InFlow(c, m)
  BY <1>1, OfferFresh DEF Order
<1>12. CASE queue' = queue
  <2>1. FlowEmitted'
    BY <1>5, <1>8, <1>10, <1>12 DEF Order, FlowEmitted, InFlow
  <2>2. FlowOrdered'
    BY <1>5, <1>12 DEF Order, FlowOrdered, InTurn, MayFollow
  <2> QED BY <1>9, <2>1, <2>2 DEF Order
<1>13. CASE queue' = [queue EXCEPT ![c] = Append(queue[c], m)]
  <2> DEFINE q == queue[c]
             r == Append(q, m)
             s == sent[c]
  <2>1. /\ q \in Seq(Events) /\ s \in Seq(Events)
        /\ Range(q) \subseteq Events /\ Range(s) \subseteq Events
    BY <1>2, FlowTyped
  <2>2. /\ Len(q) \in Nat /\ DOMAIN q = 1 .. Len(q) /\ DOMAIN r = 1 .. Len(q) + 1
        /\ \A i \in 1 .. Len(q) : r[i] = q[i]
        /\ r[Len(q) + 1] = m /\ Range(r) = Range(q) \cup {m}
    <3>1. m \in Events
      BY <1>1
    <3> HIDE DEF m, q
    <3> QED BY <2>1, <3>1, Appended
  <2>3. queue'[c] = r /\ \A d \in Clients \ {c} : queue'[d] = queue[d]
    BY <1>2, <1>13 DEF TInv, TypeOK
  <2> HIDE DEF r, m, c
  <2>4. FlowEmitted'
    <3> SUFFICES ASSUME NEW d \in Clients, NEW n \in Events, InFlow(d, n)'
                 PROVE  n \in returned \/ Offered(d, n)'
      BY <1>8 DEF FlowEmitted
    <3>1. InFlow(d, n) \/ (d = c /\ n = m)
      BY <1>5, <2>2, <2>3 DEF InFlow
    <3> QED BY <1>10, <3>1 DEF Order, FlowEmitted
  <2>5. \A n \in Events : InFlow(c, n) => MayFollow(n, m)
    BY <1>1, <1>11 DEF MayFollow, Order, Past, m
  <2>6. /\ \A i \in 1 .. Len(q) : MayFollow(q[i], m)
        /\ \A i \in DOMAIN s : MayFollow(s[i], m)
        /\ stream[c].at = "write" /\ stream[c].event # None => MayFollow(stream[c].event, m)
    BY <1>2, <2>1, <2>2, <2>5, WriteKinds DEF InFlow, Range, TInv
  <2>7. \A i, j \in DOMAIN r : i < j => MayFollow(r[i], r[j])
    <3> SUFFICES ASSUME NEW i \in DOMAIN r, NEW j \in DOMAIN r, i < j PROVE MayFollow(r[i], r[j])
      OBVIOUS
    <3>1. i \in 1 .. Len(q)
      BY <2>2
    <3>2. CASE j = Len(q) + 1
      BY <2>2, <2>6, <3>1, <3>2
    <3>3. CASE j \in 1 .. Len(q)
      BY <1>2, <2>2, <3>1, <3>3 DEF Order, FlowOrdered, InTurn
    <3> QED BY <2>2, <3>2, <3>3
  <2>8. \A i \in DOMAIN s, j \in DOMAIN r : MayFollow(s[i], r[j])
    BY <1>2, <2>2, <2>6 DEF Order, FlowOrdered, InTurn
  <2>9. stream[c].at = "write" /\ stream[c].event # None =>
            \A j \in DOMAIN r : MayFollow(stream[c].event, r[j])
    BY <1>2, <2>2, <2>6 DEF Order, FlowOrdered, InTurn
  <2>10. FlowOrdered'
    <3> SUFFICES ASSUME NEW d \in Clients
                 PROVE  InTurn(sent[d], stream[d], queue'[d])
      BY <1>5 DEF FlowOrdered, InTurn, MayFollow
    <3>1. CASE d = c
      BY <2>3, <2>7, <2>8, <2>9, <3>1 DEF Order, FlowOrdered, InTurn
    <3>2. CASE d # c
      BY <2>3, <3>2 DEF Order, FlowOrdered, InTurn
    <3> QED BY <3>1, <3>2
  <2> QED BY <1>9, <2>4, <2>10 DEF Order
<1>14. queue' = queue \/ queue' = [queue EXCEPT ![c] = Append(queue[c], m)]
  <2>1. queue = [queue EXCEPT ![c] = queue[c]]
    BY <1>2 DEF TInv, TypeOK
  <2> QED BY <1>4, <2>1
<1> QED BY <1>12, <1>13, <1>14

LEMMA OrderReturn ==
  ASSUME TInv, Order, NEW e \in Emitters, HOffer(e),
         emitter[e].op.next \notin DOMAIN emitter[e].op.to
  PROVE  Order'
<1>1. emitter[e].op # Idle /\ Event(e) \in Events /\ emitter[e].count \in Nat
  BY OpKinds DEF HOffer, Offer
<1>2. /\ emitter' = [emitter EXCEPT ![e].op = Idle]
      /\ UNCHANGED <<queue, stream, sent, earlier>>
  BY DEF HOffer, Offer, OfferNext
<1>3. /\ \A d \in Emitters \ {e} : emitter'[d] = emitter[d]
      /\ emitter'[e].count = emitter[e].count /\ emitter'[e].op = Idle
  BY <1>2 DEF TInv, TypeOK
<1>4. returned' = returned \cup {Event(e)}
  BY <1>3 DEF HOffer
<1>5. Past'
  BY <1>1, <1>2, <1>3, <1>4 DEF Order, Past, Event, Events
<1>6. FlowEmitted'
  <2> SUFFICES ASSUME NEW c \in Clients, NEW n \in Events, InFlow(c, n)
               PROVE  n \in returned' \/ Offered(c, n)'
    BY <1>2 DEF FlowEmitted, InFlow
  <2>1. n \in returned \/ Offered(c, n)
    BY DEF Order, FlowEmitted
  <2>2. n[1] \in Emitters
    BY DEF Events
  <2>3. CASE n[1] = e
    BY <1>4, <2>1, <2>3 DEF Offered
  <2>4. CASE n[1] # e
    BY <1>3, <1>4, <2>1, <2>2, <2>4 DEF Offered, Event
  <2> QED BY <2>3, <2>4
<1>7. FlowOrdered'
  BY <1>2 DEF Order, FlowOrdered, InTurn, MayFollow
<1> QED BY <1>5, <1>6, <1>7 DEF Order

\* The steps of the streams, the clients and the network.
LEMMA OrderClient ==
  ASSUME TInv, Order, NEW c \in Clients,
         Subscribe(c) \/ StreamGoesOn(c) \/ Write(c) \/ Leave(c) \/ Reset(c),
         UNCHANGED <<earlier, returned>>
  PROVE  Order'
<1>1. emitter' = emitter
  BY DEF Subscribe, StreamGoesOn, Take, KeepAlive, Write, WriteRaises, Unsubscribe,
         Leave, Reset, Turns
<1>2. Past'
  BY <1>1 DEF Order, Past, Event
<1>3. \A d \in Clients : \A n \in Events : n \in returned \/ Offered(d, n) =>
            n \in returned' \/ Offered(d, n)'
  BY <1>1 DEF Offered, Event
<1>4. None \notin Events /\ sent[c] \in Seq(Events) /\ queue[c] \in Seq(Events)
  BY FlowTyped
<1>5. c \in DOMAIN stream /\ c \in DOMAIN sent /\ c \in DOMAIN queue
  BY DEF TInv, TypeOK
<1>6. ASSUME UNCHANGED <<queue, sent>>, \A d \in Clients \ {c} : stream'[d] = stream[d],
             stream'[c] = stream[c] \/ stream'[c].at # "write" \/ stream'[c].event = None
      PROVE  Order'
  <2>1. FlowEmitted'
    BY <1>3, <1>4, <1>6 DEF Order, FlowEmitted, InFlow
  <2>2. FlowOrdered'
    <3> SUFFICES ASSUME NEW d \in Clients
                 PROVE  InTurn(sent[d], stream'[d], queue[d])
      BY <1>6 DEF FlowOrdered, InTurn, MayFollow
    <3>1. CASE d = c
      BY <1>6, <3>1 DEF Order, FlowOrdered, InTurn
    <3>2. CASE d # c
      BY <1>6, <3>2 DEF Order, FlowOrdered, InTurn
    <3> QED BY <3>1, <3>2
  <2> QED BY <1>2, <2>1, <2>2 DEF Order
<1>7. CASE Subscribe(c)
  BY <1>5, <1>6, <1>7 DEF Subscribe, Goto, Ask
<1>8. CASE KeepAlive(c)
  BY <1>5, <1>6, <1>8 DEF KeepAlive, Goto, Writing
<1>9. CASE WriteRaises(c)
  BY <1>5, <1>6, <1>9 DEF WriteRaises, Goto
<1>10. CASE Unsubscribe(c)
  BY <1>5, <1>6, <1>10 DEF Unsubscribe, Goto
<1>11. CASE Leave(c) \/ Reset(c)
  BY <1>6, <1>11 DEF Leave, Reset, Turns
<1>12. CASE Take(c)
  <2> DEFINE q == queue[c]
             h == Head(q)
             t == Tail(q)
             s == sent[c]
  <2>1. q # <<>> /\ stream[c].at = "get" /\ sent' = sent
    BY <1>12 DEF Take
  <2>2. /\ queue'[c] = t /\ stream'[c].at = "write" /\ stream'[c].event = h
        /\ \A d \in Clients \ {c} : queue'[d] = queue[d] /\ stream'[d] = stream[d]
    BY <1>5, <1>12 DEF Take, Goto, Writing
  <2>3. /\ h = q[1] /\ Len(q) \in Nat \ {0} /\ DOMAIN q = 1 .. Len(q)
        /\ DOMAIN t = 1 .. Len(q) - 1 /\ \A i \in 1 .. Len(q) - 1 : t[i] = q[i + 1]
        /\ Range(q) = Range(t) \cup {h}
    <3> HIDE DEF q
    <3>1. q \in Seq(Events)
      BY <1>4 DEF q
    <3> QED BY <2>1, <3>1, Tailed
  <2>4. /\ \A i, j \in DOMAIN s : i < j => MayFollow(s[i], s[j])
        /\ \A i, j \in DOMAIN q : i < j => MayFollow(q[i], q[j])
        /\ \A i \in DOMAIN s, j \in DOMAIN q : MayFollow(s[i], q[j])
    BY DEF Order, FlowOrdered, InTurn
  <2> HIDE DEF q, h, t
  <2>5. /\ \A i, j \in DOMAIN t : i < j => MayFollow(t[i], t[j])
        /\ \A i \in DOMAIN s, j \in DOMAIN t : MayFollow(s[i], t[j])
        /\ \A i \in DOMAIN s : MayFollow(s[i], h)
        /\ \A j \in DOMAIN t : MayFollow(h, t[j])
    <3> HIDE DEF s
    <3>1. \A i \in DOMAIN t : i + 1 \in DOMAIN q /\ 1 < i + 1
      BY <2>3
    <3>2. 1 \in DOMAIN q
      BY <2>3
    <3>3. \A i, j \in DOMAIN t : i < j => i + 1 < j + 1
      BY <2>3
    <3> QED BY <2>3, <2>4, <3>1, <3>2, <3>3
  <2>6. FlowEmitted'
    <3> SUFFICES ASSUME NEW d \in Clients, NEW n \in Events, InFlow(d, n)'
                 PROVE  n \in returned' \/ Offered(d, n)'
      BY DEF FlowEmitted
    <3>1. InFlow(d, n)
      <4>1. CASE d = c
        BY <2>1, <2>2, <2>3, <4>1 DEF InFlow, q
      <4>2. CASE d # c
        BY <2>1, <2>2, <4>2 DEF InFlow
      <4> QED BY <4>1, <4>2
    <3> QED BY <1>3, <3>1 DEF Order, FlowEmitted
  <2>7. FlowOrdered'
    <3> SUFFICES ASSUME NEW d \in Clients
                 PROVE  InTurn(sent[d], stream'[d], queue'[d])
      BY <2>1 DEF FlowOrdered, InTurn, MayFollow
    <3>1. CASE d = c
      BY <2>2, <2>4, <2>5, <3>1 DEF InTurn
    <3>2. CASE d # c
      BY <2>2, <3>2 DEF Order, FlowOrdered, InTurn
    <3> QED BY <3>1, <3>2
  <2> QED BY <1>2, <2>6, <2>7 DEF Order
<1>13. CASE Write(c)
  <2> DEFINE s == sent[c]
             x == stream[c].event
             t == Append(s, x)
             q == queue[c]
  <2>1. /\ stream[c].at = "write" /\ stream'[c].at = "get" /\ queue' = queue
        /\ \A d \in Clients \ {c} : stream'[d] = stream[d]
    BY <1>5, <1>13 DEF Write, Goto, Ask
  <2>2. CASE x = None
    <3>1. sent' = sent
      BY <1>13, <2>2 DEF Write
    <3> QED BY <1>6, <2>1, <3>1
  <2>3. CASE x # None
    <3>1. x \in Events
      BY <2>1, <2>3, WriteKinds DEF TInv
    <3>2. sent' = [sent EXCEPT ![c] = t]
      BY <1>13, <2>3 DEF Write
    <3>3. sent'[c] = t /\ \A d \in Clients \ {c} : sent'[d] = sent[d]
      BY <1>5, <3>2
    <3>4. /\ Len(s) \in Nat /\ DOMAIN s = 1 .. Len(s) /\ DOMAIN t = 1 .. Len(s) + 1
          /\ \A i \in 1 .. Len(s) : t[i] = s[i]
          /\ t[Len(s) + 1] = x /\ Range(t) = Range(s) \cup {x}
      <4> HIDE DEF s, x
      <4>1. s \in Seq(Events)
        BY <1>4 DEF s
      <4> QED BY <3>1, <4>1, Appended
    <3>5. /\ \A i, j \in DOMAIN s : i < j => MayFollow(s[i], s[j])
          /\ \A i, j \in DOMAIN q : i < j => MayFollow(q[i], q[j])
          /\ \A i \in DOMAIN s, j \in DOMAIN q : MayFollow(s[i], q[j])
          /\ \A i \in DOMAIN s : MayFollow(s[i], x)
          /\ \A j \in DOMAIN q : MayFollow(x, q[j])
      BY <2>1, <2>3 DEF Order, FlowOrdered, InTurn
    <3> HIDE DEF s, x, t, q
    <3>6. \A i, j \in DOMAIN t : i < j => MayFollow(t[i], t[j])
      <4> SUFFICES ASSUME NEW i \in DOMAIN t, NEW j \in DOMAIN t, i < j PROVE MayFollow(t[i], t[j])
        OBVIOUS
      <4>1. i \in 1 .. Len(s)
        BY <3>4
      <4>2. CASE j = Len(s) + 1
        BY <3>4, <3>5, <4>1, <4>2
      <4>3. CASE j \in 1 .. Len(s)
        BY <3>4, <3>5, <4>1, <4>3
      <4> QED BY <3>4, <4>2, <4>3
    <3>7. \A i \in DOMAIN t, j \in DOMAIN q : MayFollow(t[i], q[j])
      BY <3>4, <3>5
    <3>8. FlowEmitted'
      <4> SUFFICES ASSUME NEW d \in Clients, NEW n \in Events, InFlow(d, n)'
                   PROVE  n \in returned' \/ Offered(d, n)'
        BY DEF FlowEmitted
      <4>1. InFlow(d, n)
        <5>1. CASE d = c
          BY <2>1, <3>3, <3>4, <5>1 DEF InFlow, s, x
        <5>2. CASE d # c
          BY <2>1, <3>3, <5>2 DEF InFlow
        <5> QED BY <5>1, <5>2
      <4> QED BY <1>3, <4>1 DEF Order, FlowEmitted
    <3>9. FlowOrdered'
      <4> SUFFICES ASSUME NEW d \in Clients
                   PROVE  InTurn(sent'[d], stream'[d], queue[d])
        BY <2>1 DEF FlowOrdered, InTurn, MayFollow
      <4>1. CASE d = c
        BY <2>1, <3>3, <3>5, <3>6, <3>7, <4>1 DEF InTurn, q
      <4>2. CASE d # c
        BY <2>1, <3>3, <4>2 DEF Order, FlowOrdered, InTurn
      <4> QED BY <4>1, <4>2
    <3> QED BY <1>2, <3>8, <3>9 DEF Order
  <2> QED BY <2>2, <2>3
<1> QED BY <1>7, <1>8, <1>9, <1>10, <1>11, <1>12, <1>13 DEF StreamGoesOn

LEMMA OrderInit == HInit => Order
<1> SUFFICES ASSUME HInit PROVE Order
  OBVIOUS
<1>1. \A c \in Clients : /\ sent[c] = <<>> /\ queue[c] = <<>> /\ stream[c].at = "new"
  BY DEF HInit, Init
<1>2. returned = {} /\ earlier = [m \in Events |-> {}]
  BY DEF HInit
<1> QED BY <1>1, <1>2 DEF Order, Past, FlowEmitted, FlowOrdered, InTurn, InFlow, Range

LEMMA OrderStep == TInv /\ Order /\ [HNext]_hvars => Order'
<1> SUFFICES ASSUME TInv, Order, [HNext]_hvars PROVE Order'
  OBVIOUS
<1>1. CASE UNCHANGED hvars
  BY <1>1 DEF hvars, vars, Order, Past, FlowEmitted, FlowOrdered, InTurn, InFlow, Offered, MayFollow, Event
<1>2. ASSUME NEW e \in Emitters, HOffer(e) PROVE Order'
  BY <1>2, OrderDeliver, OrderReturn
<1>3. CASE HNext
  BY <1>2, <1>3, OrderEmit, OrderClient DEF HNext
<1> QED BY <1>1, <1>3

LEMMA TypeHolds == HSpec => []TInv
<1>1. Spec => []TInv
  BY TypeInit, TypeStep, PTL DEF Spec
<1> QED BY <1>1, HistoryOnly, PTL

\* No stream sends an event twice, or one after another that was emitted when
\* its own emit had returned.
THEOREM StreamsInOrder == HSpec => []InOrder
<1>1. Order => InOrder
  BY DEF Order, FlowOrdered, InTurn, MayFollow, InOrder
<1> QED BY <1>1, OrderInit, OrderStep, TypeHolds, PTL DEF HSpec

-----------------------------------------------------------------------------
(* No event is lost                                                        *)

\* The event has gone the way of the stream's events, unless the stream ended.
Arrived(c, m) ==
    stream[c].at \in {"get", "write"} =>
        \/ m \in Range(sent[c]) \cup Range(queue[c]) \cup dropped[c]
        \/ stream[c] = Writing(m)

\* The emit of the event is in progress, and the client is in its copy.
Pending(c, m) ==
    LET op == emitter[m[1]].op
    IN  /\ op # Idle
        /\ m = Event(m[1])
        /\ c \in Range(op.to)

\* What is due to a client has arrived, if its emit has returned or been at
\* the client's queue; and if not, the emit will come there.
Served ==
    /\ due \in [Clients -> SUBSET Events]
    /\ dropped \in [Clients -> SUBSET Events]
    /\ \A c \in Clients : \A m \in due[c] :
        /\ stream[c].at # "new"
        /\ m \in returned \/ Pending(c, m)
        /\ m \in returned \/ Offered(c, m) => Arrived(c, m)

LEMMA ServedEmit ==
  ASSUME TInv, Order, Served, NEW e \in Emitters, HEmit(e) PROVE Served'
<1> DEFINE m == <<e, emitter[e].count + 1>>
<1>1. /\ m \in Events /\ emitter[e].count \in Nat /\ emitter[e].op = Idle
  BY EventConstants DEF HEmit, Emit, TInv, TypeOK, Events
<1>2. UNCHANGED <<queue, stream, sent, returned, dropped>>
  BY DEF HEmit, Emit
<1>3. /\ \A d \in Emitters \ {e} : emitter'[d] = emitter[d]
      /\ emitter'[e].count = emitter[e].count + 1 /\ emitter'[e].op.next = 1
      /\ emitter'[e].op.to = subs /\ emitter'[e].op.at = "offer"
  BY DEF HEmit, Emit, TInv, TypeOK
<1>4. m \notin returned
  BY <1>1 DEF Order, Past
<1>5. \A c \in Clients :
          due'[c] = IF c \in Range(subs) THEN due[c] \cup {m} ELSE due[c]
  BY DEF HEmit
<1>6. due' \in [Clients -> SUBSET Events]
  BY <1>1 DEF HEmit, Served
<1>7. ASSUME NEW c \in Clients, NEW n \in due[c]
      PROVE  /\ n \in returned \/ Pending(c, n)'
             /\ n \in returned \/ Offered(c, n)' => Arrived(c, n)'
  <2>1. n \in returned \/ Pending(c, n)
    BY DEF Served
  <2>2. n \in Events /\ n[1] \in Emitters
    BY DEF Served, Events
  <2>3. CASE n[1] = e
    BY <1>1, <1>2, <2>1, <2>3 DEF Pending, Served, Arrived
  <2>4. CASE n[1] # e
    BY <1>2, <1>3, <2>1, <2>2, <2>4 DEF Pending, Offered, Event, Served, Arrived
  <2> QED BY <2>3, <2>4
<1>8. ASSUME NEW c \in Clients, c \in Range(subs), NEW n, n = m
      PROVE  /\ stream[c].at # "new"
             /\ Pending(c, n)' /\ n \notin returned /\ ~Offered(c, n)'
  <2>1. stream[c].at # "new"
    BY <1>8 DEF TInv, TypeOK
  <2>2. emitter'[e].op # Idle /\ n = Event(e)' /\ n[1] = e
    BY <1>3, <1>8 DEF Event, Idle
  <2>3. Pending(c, n)'
    BY <1>3, <1>8, <2>2 DEF Pending
  <2>4. ~Offered(c, n)'
    <3>1. DOMAIN subs = 1 .. Len(subs) /\ Len(subs) \in Nat
      BY LenProperties DEF TInv, TypeOK
    <3>2. \A j \in DOMAIN subs : ~(j < 1)
      BY <3>1
    <3> QED BY <1>3, <2>2, <3>2 DEF Offered
  <2> QED BY <1>4, <1>8, <2>1, <2>3, <2>4
<1>9. ASSUME NEW c \in Clients, NEW n \in due'[c]
      PROVE  /\ stream[c].at # "new"
             /\ n \in returned \/ Pending(c, n)'
             /\ n \in returned \/ Offered(c, n)' => Arrived(c, n)'
  <2>1. CASE n \in due[c]
    BY <1>7, <2>1 DEF Served
  <2>2. CASE n \notin due[c]
    BY <1>5, <1>8, <1>9, <2>2
  <2> QED BY <2>1, <2>2
<1> QED BY <1>2, <1>6, <1>9 DEF Served

LEMMA ServedOffer ==
  ASSUME TInv, Order, Served, NEW e \in Emitters, HOffer(e) PROVE Served'
<1> DEFINE op == emitter[e].op
           m == Event(e)
<1>1. /\ op # Idle /\ op \in [at : {"offer"}, to : Seq(Clients), next : Nat \ {0}]
      /\ m \in Events /\ m[1] = e
  BY OpKinds DEF HOffer, Offer, Event
<1>2. UNCHANGED <<stream, sent, due>>
  BY DEF HOffer, Offer, OfferNext
<1>3. /\ DOMAIN op.to = 1 .. Len(op.to) /\ Len(op.to) \in Nat
  BY <1>1, LenProperties
<1>4. dropped' \in [Clients -> SUBSET Events] /\ \A d \in Clients : dropped[d] \subseteq dropped'[d]
  BY <1>1 DEF HOffer, Served
<1>5. CASE op.next \in DOMAIN op.to
  <2> DEFINE c == op.to[op.next]
  <2>1. c \in Clients /\ ~(op.next > Len(op.to))
    BY <1>1, <1>3, <1>5
  <2>2. /\ queue' = [queue EXCEPT ![c] =
                IF Len(@) < QueueSize[c] THEN Append(@, Event(e)) ELSE @]
        /\ emitter' = [emitter EXCEPT ![e].op.next = @ + 1]
    BY <2>1, Zenon DEF HOffer, Offer, OfferNext
  <2>3. /\ \A d \in Emitters \ {e} : emitter'[d] = emitter[d]
        /\ emitter'[e].count = emitter[e].count
        /\ emitter'[e].op = [op EXCEPT !.next = @ + 1]
    <3>1. emitter \in [Emitters -> [count : 0 .. MaxEvents, op : Emittings]]
      BY DEF TInv, TypeOK
    <3> DEFINE o == [op EXCEPT !.next = @ + 1]
    <3>2. emitter' = [emitter EXCEPT ![e] = [emitter[e] EXCEPT !.op = o]]
      BY <2>2
    <3> HIDE DEF o
    <3>3. /\ \A d \in Emitters \ {e} : emitter'[d] = emitter[d]
          /\ emitter'[e].count = emitter[e].count
          /\ emitter'[e].op = o
      BY <3>1, <3>2
    <3> QED BY <3>3 DEF o
  <2>4. /\ emitter'[e].op # Idle /\ emitter'[e].op.to = op.to
        /\ emitter'[e].op.next = op.next + 1 /\ Event(e)' = m
    BY <1>1, <2>3 DEF Idle, Event
  <2>5. returned' = returned
    BY <2>4 DEF HOffer
  <2>6. \A d \in Clients : \A n \in due[d] : Pending(d, n) => Pending(d, n)'
    <3> SUFFICES ASSUME NEW d \in Clients, NEW n \in due[d], Pending(d, n) PROVE Pending(d, n)'
      OBVIOUS
    <3>1. n[1] \in Emitters
      BY DEF Served, Events
    <3>2. CASE n[1] = e
      BY <2>4, <3>2 DEF Pending
    <3>3. CASE n[1] # e
      BY <2>3, <3>1, <3>3 DEF Pending, Event
    <3> QED BY <3>2, <3>3
  <2>7. \A d \in Clients : \A n \in due[d] : Offered(d, n)' =>
            Offered(d, n) \/ (n = m /\ d = c)
    <3> SUFFICES ASSUME NEW d \in Clients, NEW n \in due[d], Offered(d, n)'
                 PROVE  Offered(d, n) \/ (n = m /\ d = c)
      OBVIOUS
    <3>1. n[1] \in Emitters
      BY DEF Served, Events
    <3>2. CASE n[1] = e
      <4>1. PICK j \in DOMAIN op.to : j < op.next + 1 /\ op.to[j] = d
        BY <2>4, <3>2 DEF Offered
      <4>2. n = m
        BY <2>4, <3>2 DEF Offered
      <4>3. j < op.next \/ j = op.next
        BY <1>1, <1>3, <4>1
      <4> QED BY <1>1, <3>2, <4>1, <4>2, <4>3 DEF Offered
    <3>3. CASE n[1] # e
      BY <2>3, <3>1, <3>3 DEF Offered, Event
    <3> QED BY <3>2, <3>3
  <2>8. /\ \A d \in Clients \ {c} : queue'[d] = queue[d]
        /\ Range(queue[c]) \subseteq Range(queue'[c])
        /\ m \in Range(queue'[c]) \/ m \in dropped'[c]
    <3>1. queue[c] \in Seq(Events) /\ c \in DOMAIN queue /\ Len(queue[c]) <= QueueSize[c]
          /\ Len(queue[c]) \in Nat /\ QueueSize[c] \in Nat
      BY <2>1, EventConstants, LenProperties DEF TInv, TypeOK
    <3>2. CASE Len(queue[c]) < QueueSize[c]
      <4>1. Range(Append(queue[c], m)) = Range(queue[c]) \cup {m}
        BY <1>1, <3>1, AppendRange
      <4> DEFINE r == Append(queue[c], m)
      <4>2. queue' = [queue EXCEPT ![c] = r]
        BY <2>2, <3>2
      <4>3. m \in Range(r) /\ Range(queue[c]) \subseteq Range(r)
        BY <4>1
      <4> HIDE DEF r, c, m
      <4>4. queue'[c] = r /\ \A d \in Clients \ {c} : queue'[d] = queue[d]
        BY <3>1, <4>2 DEF TInv, TypeOK
      <4> QED BY <4>3, <4>4
    <3>3. CASE ~(Len(queue[c]) < QueueSize[c])
      <4>1. queue'[c] = queue[c] /\ \A d \in Clients \ {c} : queue'[d] = queue[d]
        <5>1. queue' = [queue EXCEPT ![c] = queue[c]]
          <6>1. queue' = [queue EXCEPT ![c] = IF Len(queue[c]) < QueueSize[c]
                                              THEN Append(queue[c], m) ELSE queue[c]]
            BY <2>2
          <6> HIDE DEF c, m
          <6> QED BY <3>3, <6>1
        <5> HIDE DEF c
        <5> QED BY <3>1, <5>1
      <4>2. Len(queue[c]) = QueueSize[c]
        BY <3>1, <3>3
      <4>3. m \in dropped'[c]
        BY <1>5, <2>1, <4>2 DEF HOffer
      <4> QED BY <4>1, <4>3
    <3> QED BY <3>2, <3>3
  <2>9. \A d \in Clients : Range(queue[d]) \subseteq Range(queue'[d])
    BY <2>8
  <2>10. \A d \in Clients : \A n \in due[d] : Arrived(d, n) => Arrived(d, n)'
    BY <1>2, <1>4, <2>9 DEF Arrived
  <2>11. \A d \in Clients : \A n \in due[d] : n = m /\ d = c => Arrived(d, n)'
    BY <2>8 DEF Arrived
  <2> QED BY <1>2, <1>4, <2>5, <2>6, <2>7, <2>10, <2>11 DEF Served
<1>6. CASE op.next \notin DOMAIN op.to
  <2>1. /\ emitter' = [emitter EXCEPT ![e].op = Idle] /\ queue' = queue
    BY <1>6 DEF HOffer, Offer, OfferNext
  <2>2. /\ \A d \in Emitters \ {e} : emitter'[d] = emitter[d]
        /\ emitter'[e].count = emitter[e].count /\ emitter'[e].op = Idle
    BY <2>1 DEF TInv, TypeOK
  <2>3. returned' = returned \cup {m}
    BY <2>2 DEF HOffer
  <2>4. op.next > Len(op.to)
    BY <1>1, <1>3, <1>6
  <2>5. \A d \in Clients : \A n \in due[d] : Arrived(d, n) => Arrived(d, n)'
    BY <1>2, <1>4, <2>1 DEF Arrived
  <2>6. ASSUME NEW d \in Clients, NEW n \in due[d]
        PROVE  /\ n \in returned' \/ Pending(d, n)'
               /\ n \in returned' \/ Offered(d, n)' => Arrived(d, n)
    <3>1. n[1] \in Emitters
      BY DEF Served, Events
    <3>2. CASE n = m
      <4>1. Pending(d, n) \/ n \in returned
        BY DEF Served
      <4>2. Pending(d, n) => Offered(d, n)
        <5>1. \A j \in DOMAIN op.to : j < op.next
          BY <1>1, <1>3, <2>4
        <5> QED BY <1>1, <3>2, <5>1 DEF Pending, Offered, Range
      <4> QED BY <2>3, <3>2, <4>1, <4>2 DEF Served
    <3>3. CASE n # m /\ n[1] = e
      <4>1. ~Pending(d, n) /\ ~Offered(d, n)'
        BY <2>2, <3>3 DEF Pending, Offered
      <4> QED BY <2>3, <3>3, <4>1 DEF Served
    <3>4. CASE n # m /\ n[1] # e
      BY <2>2, <2>3, <3>1, <3>4 DEF Pending, Offered, Event, Served
    <3> QED BY <3>2, <3>3, <3>4
  <2> QED BY <1>2, <1>4, <2>5, <2>6 DEF Served
<1> QED BY <1>5, <1>6

LEMMA ServedClient ==
  ASSUME TInv, Served, NEW c \in Clients,
         Subscribe(c) \/ StreamGoesOn(c) \/ Write(c) \/ Leave(c) \/ Reset(c),
         UNCHANGED <<returned, due, dropped>>
  PROVE  Served'
<1>1. emitter' = emitter
  BY DEF Subscribe, StreamGoesOn, Take, KeepAlive, Write, WriteRaises, Unsubscribe,
         Leave, Reset, Turns
<1>2. \A d \in Clients : \A n \in due[d] :
          /\ Pending(d, n)' <=> Pending(d, n)
          /\ Offered(d, n)' <=> Offered(d, n)
  BY <1>1 DEF Pending, Offered, Event
<1>3. c \in DOMAIN stream /\ c \in DOMAIN sent /\ c \in DOMAIN queue
  BY DEF TInv, TypeOK
<1>4. sent[c] \in Seq(Events) /\ queue[c] \in Seq(Events) /\ None \notin Events
  BY FlowTyped
<1>5. SUFFICES ASSUME NEW d \in Clients, NEW n \in due[d], stream[d].at # "new"
               PROVE  stream'[d].at # "new" /\ (Arrived(d, n) => Arrived(d, n)')
  BY <1>2 DEF Served
<1>6. n \in Events
  BY DEF Served
<1>7. ASSUME stream'[d] = stream[d], sent'[d] = sent[d], queue'[d] = queue[d]
      PROVE  stream'[d].at # "new" /\ (Arrived(d, n) => Arrived(d, n)')
  BY <1>5, <1>7 DEF Arrived
<1>8. CASE d # c
  <2>1. /\ stream'[d] = stream[d] /\ sent'[d] = sent[d] /\ queue'[d] = queue[d]
    BY <1>8 DEF TInv, TypeOK, Subscribe, StreamGoesOn, Take, KeepAlive, Write, WriteRaises,
           Unsubscribe, Leave, Reset, Turns, Goto
  <2> QED BY <1>7, <2>1
<1>9. CASE d = c
  <2>1. ~Subscribe(c)
    BY <1>5, <1>9 DEF Subscribe
  <2>2. CASE Leave(c) \/ Reset(c)
    BY <1>7, <1>9, <2>2 DEF Leave, Reset, Turns
  <2>3. CASE Take(c)
    <3>1. /\ queue[c] # <<>> /\ stream[c].at = "get" /\ sent' = sent
          /\ stream'[c] = Writing(Head(queue[c])) /\ queue'[c] = Tail(queue[c])
      BY <1>3, <2>3 DEF Take, Goto
    <3>2. Range(queue[c]) = Range(Tail(queue[c])) \cup {Head(queue[c])}
      BY <1>4, <3>1, Tailed
    <3>3. stream[c] # Writing(n)
      BY <3>1 DEF Writing
    <3>4. stream'[c].at = "write"
      BY <3>1 DEF Writing
    <3>5. ASSUME Arrived(c, n) PROVE Arrived(c, n)'
      <4>1. n \in Range(sent[c]) \cup Range(queue[c]) \cup dropped[c]
        BY <3>1, <3>3, <3>5 DEF Arrived
      <4> QED BY <3>1, <3>2, <4>1 DEF Arrived
    <3> QED BY <1>9, <3>4, <3>5
  <2>4. CASE KeepAlive(c)
    <3>1. /\ stream[c].at = "get" /\ stream'[c] = Writing(None) /\ stream'[c].at = "write"
          /\ UNCHANGED <<sent, queue>>
      BY <1>3, <2>4 DEF KeepAlive, Goto, Writing
    <3>2. stream[c] # Writing(n)
      BY <3>1 DEF Writing
    <3> QED BY <1>9, <3>1, <3>2 DEF Arrived
  <2>5. CASE Write(c)
    <3> DEFINE x == stream[c].event
    <3>1. /\ stream[c].at = "write" /\ stream'[c].at = "get" /\ queue' = queue
      BY <1>3, <2>5 DEF Write, Goto, Ask
    <3>2. Range(sent[c]) \subseteq Range(sent'[c]) /\ (x # None => x \in Range(sent'[c]))
      <4>1. CASE x = None
        BY <2>5, <4>1 DEF Write
      <4>2. CASE x # None
        <5>1. x \in Events
          BY <3>1, <4>2, WriteKinds DEF TInv
        <5>2. sent'[c] = Append(sent[c], x)
          BY <1>3, <2>5, <4>2 DEF Write
        <5>3. Range(Append(sent[c], x)) = Range(sent[c]) \cup {x}
          BY <1>4, <5>1, AppendRange
        <5> QED BY <5>2, <5>3
      <4> QED BY <4>1, <4>2
    <3>3. stream[c] = Writing(n) => n \in Range(sent'[c])
      BY <1>4, <1>6, <3>2 DEF Writing
    <3> QED BY <1>9, <3>1, <3>2, <3>3 DEF Arrived
  <2>6. CASE WriteRaises(c) \/ Unsubscribe(c)
    <3>1. stream'[c].at \in {"finally", "ended"}
      BY <1>3, <2>6 DEF WriteRaises, Unsubscribe, Goto
    <3> QED BY <1>9, <3>1 DEF Arrived
  <2> QED BY <2>1, <2>2, <2>3, <2>4, <2>5, <2>6 DEF StreamGoesOn
<1> QED BY <1>8, <1>9

LEMMA ServedInit == HInit => Served
<1> SUFFICES ASSUME HInit PROVE Served
  OBVIOUS
<1>1. /\ due = [c \in Clients |-> {}] /\ dropped = [c \in Clients |-> {}]
  BY DEF HInit
<1> QED BY <1>1 DEF Served

LEMMA ServedStep == TInv /\ Order /\ Served /\ [HNext]_hvars => Served'
<1> SUFFICES ASSUME TInv, Order, Served, [HNext]_hvars PROVE Served'
  OBVIOUS
<1>1. CASE UNCHANGED hvars
  BY <1>1 DEF hvars, vars, Served, Pending, Offered, Arrived, Event
<1>2. CASE HNext
  BY <1>2, ServedEmit, ServedOffer, ServedClient DEF HNext
<1> QED BY <1>1, <1>2

\* An event emitted while a stream is subscribed has reached it, or found its
\* queue full, when emit returns.
THEOREM NothingLost == HSpec => []NotLost
<1>1. Served => NotLost
  BY DEF Served, Arrived, NotLost
<1> QED BY <1>1, OrderInit, OrderStep, ServedInit, ServedStep, TypeHolds, PTL DEF HSpec

-----------------------------------------------------------------------------
(* Peers: their ids, and what the steps do                                 *)

LEMMA PeerIds ==
  /\ \A o \in Ids : /\ HostOf(o) \in Hosts
                    /\ o \in Hosts => HostOf(o) = o
                    /\ o \notin Hosts => o = Static(HostOf(o))
  /\ \A h \in Hosts : Static(h) \in Ids \ Hosts /\ HostOf(Static(h)) = h
<1>1. ASSUME NEW h \in Hosts PROVE Static(h) \in Ids \ Hosts /\ HostOf(Static(h)) = h
  <2>1. Static(h) \notin Hosts /\ Static(h)[2] = h
    BY DiscoveryConstants DEF Static
  <2> QED BY <2>1 DEF Ids, HostOf
<1>2. ASSUME NEW o \in Ids
      PROVE  /\ HostOf(o) \in Hosts
             /\ o \in Hosts => HostOf(o) = o
             /\ o \notin Hosts => o = Static(HostOf(o))
  <2>1. CASE o \in Hosts
    BY <2>1 DEF HostOf
  <2>2. CASE o \notin Hosts
    <3>1. PICK h \in Hosts : o = Static(h)
      BY <2>2 DEF Ids
    <3> QED BY <1>1, <2>2, <3>1
  <2> QED BY <2>1, <2>2
<1> QED BY <1>1, <1>2

\* The constants, one by one.
LEMMA PeerNumbers ==
  /\ OfflineAfter \in Nat \ {0} /\ ProbeInterval \in Nat \ {0}
  /\ ProbeTimeout \in Nat \ {0} /\ MaxAge \in Nat \ {0} /\ OfflineAfter <= MaxAge
  /\ Flaky \subseteq Hosts /\ Heard \subseteq Hosts
  /\ Seeds \in Seq(Hosts) /\ Distinct(Seeds)
  /\ ProbeLimit \in Nat \ {0} /\ IsFiniteSet(Hosts)
<1>1. ProbeOps \in Nat \ {0} /\ ProbeTimeout \in Nat \ {0}
  BY DiscoveryConstants
<1>2. ProbeOps * ProbeTimeout \in Nat \ {0}
  BY <1>1
<1> QED BY <1>2, DiscoveryConstants DEF ProbeLimit

LEMMA EntryTyped ==
  ASSUME PeersTyped, NEW o \in DOMAIN peer
  PROVE  /\ o \in Ids /\ HostOf(o) \in Hosts
         /\ peer[o] = [id |-> peer[o].id, age |-> peer[o].age]
         /\ peer[o].age \in 0 .. MaxAge
         /\ peer[o].id \in {o, HostOf(o)} /\ peer[o].id \in Ids
         /\ peer[o].id \in Hosts <=> peer[o].id = HostOf(o)
         /\ peer[o].id \notin Hosts => peer[o].id = o
<1>1. o \in Ids /\ peer[o] \in Entry /\ peer[o].id \in {o, HostOf(o)}
  BY DEF PeersTyped
<1> QED BY <1>1, PeerIds DEF Entry

LEMMA InTable ==
  ASSUME PeersTyped
  PROVE  /\ Range(table) \subseteq DOMAIN peer
         /\ \A i \in DOMAIN table : table[i] \in Range(table)
BY ElementOfSeq DEF PeersTyped, Range

\* The probe loop is in one of three places.
LEMMA ProberKinds ==
  ASSUME PeersTyped
  PROVE  /\ prober.at = "wait" =>
             prober = Waiting(prober.left) /\ prober.left \in 0 .. ProbeInterval
         /\ prober.at = "sweep" =>
             /\ prober.todo \in Todos /\ prober.elapsed \in 0 .. ProbeLimit
             /\ prober = [at |-> "sweep", todo |-> prober.todo, elapsed |-> prober.elapsed]
         /\ prober.at = "promote" => prober.todo \in Todos /\ prober.todo # <<>>
         /\ prober.at \in {"wait", "sweep", "promote"}
BY DEF PeersTyped, Waiting

\* Of a beacon, an entry is new or its age starts again.
LEMMA BeaconGoes ==
  ASSUME PeersTyped, NEW h \in Hosts, Beacon(h)
  PROVE  /\ UNCHANGED <<prober, up, found>>
         /\ \/ /\ \A o \in Range(table) : peer[o].id # h
               /\ peer' = [o \in DOMAIN peer \cup {h} |->
                              IF o = h THEN [id |-> h, age |-> 0] ELSE peer[o]]
               /\ table' = Append(table, h)
            \/ /\ peer' = [o \in DOMAIN peer |->
                              IF o \in Range(table) /\ peer[o].id = h
                              THEN [id |-> peer[o].id, age |-> 0] ELSE peer[o]]
               /\ UNCHANGED table
<1> DEFINE known == {o \in DOMAIN peer : peer[o].id = h /\ \E i \in DOMAIN table : table[i] = o}
<1>1. known = {o \in Range(table) : peer[o].id = h}
  BY InTable DEF Range
<1>2. /\ UNCHANGED <<prober, up, found>>
      /\ IF known = {}
         THEN /\ peer' = [o \in DOMAIN peer \cup {h} |->
                              IF o = h THEN [id |-> h, age |-> 0] ELSE peer[o]]
              /\ table' = Append(table, h)
         ELSE /\ peer' = [o \in DOMAIN peer |->
                              IF o \in known THEN [peer[o] EXCEPT !.age = 0] ELSE peer[o]]
              /\ UNCHANGED table
  BY DEF Beacon
<1>3. ASSUME NEW o \in DOMAIN peer
      PROVE  [peer[o] EXCEPT !.age = 0] = [id |-> peer[o].id, age |-> 0]
  BY EntryTyped
<1> HIDE DEF known
<1>4. CASE known = {}
  BY <1>1, <1>2, <1>4
<1>5. CASE known # {}
  <2>1. peer' = [o \in DOMAIN peer |-> IF o \in known THEN [peer[o] EXCEPT !.age = 0] ELSE peer[o]]
        /\ UNCHANGED table
    BY <1>2, <1>5
  <2>2. \A o \in DOMAIN peer : o \in known <=> o \in Range(table) /\ peer[o].id = h
    BY <1>1
  <2>3. peer' = [o \in DOMAIN peer |->
                              IF o \in Range(table) /\ peer[o].id = h
                              THEN [id |-> peer[o].id, age |-> 0] ELSE peer[o]]
    BY <1>3, <2>1, <2>2
  <2> QED BY <1>2, <2>1, <2>3
<1> QED BY <1>4, <1>5

\* A second more, up to the bound.
Older(n) == IF n < MaxAge THEN n + 1 ELSE n

LEMMA TickGoes ==
  ASSUME PeersTyped, Tick
  PROVE  /\ UNCHANGED <<table, up, found>>
         /\ peer' = [o \in DOMAIN peer |-> [id |-> peer[o].id, age |-> Older(peer[o].age)]]
         /\ \/ /\ prober.at = "wait" /\ prober.left > 0
               /\ prober' = Waiting(prober.left - 1)
            \/ /\ prober.at = "sweep" /\ prober.todo # <<>>
               /\ prober.elapsed < ProbeLimit
               /\ prober' = [at |-> "sweep", todo |-> prober.todo, elapsed |-> prober.elapsed + 1]
<1>1. ASSUME NEW o \in DOMAIN peer
      PROVE  [peer[o] EXCEPT !.age = IF @ < MaxAge THEN @ + 1 ELSE @]
               = [id |-> peer[o].id, age |-> Older(peer[o].age)]
  BY EntryTyped DEF Older
<1>2. peer' = [o \in DOMAIN peer |-> [id |-> peer[o].id, age |-> Older(peer[o].age)]]
  BY <1>1 DEF Tick
<1>3. CASE prober.at = "wait"
  <2>1. prober.left > 0 /\ prober' = Waiting(prober.left - 1)
    BY <1>3 DEF Tick, Probing
  <2> QED BY <1>2, <1>3, <2>1 DEF Tick
<1>4. CASE prober.at # "wait"
  <2>1. /\ \E o \in Ids : Probing(o)
        /\ prober.elapsed < ProbeLimit
        /\ prober' = [prober EXCEPT !.elapsed = @ + 1]
    BY <1>4 DEF Tick
  <2>2. prober.at = "sweep" /\ prober.todo # <<>>
    BY <2>1 DEF Probing
  <2>3. prober = [at |-> "sweep", todo |-> prober.todo, elapsed |-> prober.elapsed]
    BY <2>2, ProberKinds
  <2>4. [prober EXCEPT !.elapsed = @ + 1]
          = [at |-> "sweep", todo |-> prober.todo, elapsed |-> prober.elapsed + 1]
    BY <2>3
  <2> QED BY <1>2, <2>1, <2>2, <2>4 DEF Tick
<1> QED BY <1>3, <1>4

\* A probe that is under way is of an entry that was in the table.
LEMMA ProbeOf ==
  ASSUME PeersTyped, NEW o \in Ids, Probing(o)
  PROVE  /\ prober.at = "sweep" /\ prober.todo \in Todos /\ prober.todo # <<>>
         /\ o = Head(prober.todo) /\ o \in DOMAIN peer /\ Tail(prober.todo) \in Todos
         /\ Range(prober.todo) = Range(Tail(prober.todo)) \cup {o}
         /\ prober.elapsed \in 0 .. ProbeLimit
<1>1. /\ prober.at = "sweep" /\ prober.todo # <<>> /\ o = Head(prober.todo)
      /\ prober.todo \in Seq(DOMAIN peer) /\ prober.elapsed \in 0 .. ProbeLimit
  BY ProberKinds DEF Probing, Todos
<1> QED BY <1>1, Tailed DEF Todos

LEMMA PromoteOf ==
  ASSUME PeersTyped, prober.at = "promote"
  PROVE  /\ prober.todo \in Todos /\ prober.todo # <<>>
         /\ Head(prober.todo) \in DOMAIN peer /\ Tail(prober.todo) \in Todos
         /\ Range(prober.todo) = Range(Tail(prober.todo)) \cup {Head(prober.todo)}
<1>1. prober.todo # <<>> /\ prober.todo \in Seq(DOMAIN peer)
  BY ProberKinds DEF Todos
<1> QED BY <1>1, Tailed DEF Todos

LEMMA ProbeOkGoes ==
  ASSUME PeersTyped, NEW o \in Ids, ProbeOk(o)
  PROVE  /\ Probing(o) /\ HostOf(o) \in up /\ UNCHANGED <<table, up>>
         /\ found' = found \cup {HostOf(o)}
         /\ prober' = [at |-> "promote", todo |-> prober.todo]
         /\ peer' = [peer EXCEPT ![o] = [id |-> peer[o].id, age |-> 0]]
<1>1. /\ Probing(o) /\ HostOf(o) \in up /\ UNCHANGED <<table, up>>
      /\ found' = found \cup {HostOf(o)}
      /\ prober' = [at |-> "promote", todo |-> prober.todo]
      /\ peer' = [peer EXCEPT ![o].age = 0]
  BY DEF ProbeOk
<1>2. peer[o] = [id |-> peer[o].id, age |-> peer[o].age]
  BY <1>1, ProbeOf, EntryTyped
<1>3. [peer[o] EXCEPT !.age = 0] = [id |-> peer[o].id, age |-> 0]
  BY <1>2
<1> QED BY <1>1, <1>3

-----------------------------------------------------------------------------
(* What the table, the ids and the probe loop satisfy                      *)

\* The entry that has answered its probe and may still have to be promoted.
Answered == IF prober.at = "promote" THEN {Head(prober.todo)} ELSE {}

\* The table has every entry once and every id once.
TableKeyed ==
    /\ Distinct(table)
    /\ \A o, q \in Range(table) : peer[o].id = peer[q].id => o = q

\* A seed whose real id is not known has never answered.
SeedsOffline ==
    \A o \in Range(table) : peer[o].id \notin Hosts /\ o \notin Answered => ~Online(o)

\* An entry leaves the table only when the seed of its host takes its place.
Orphans == \A o \in DOMAIN peer \ Range(table) : o \in Hosts /\ o \in Flaky \cup found

\* A sweep has each entry once; time passes only in a probe, and none passes
\* between an answer and the promotion.
ProbesInOrder ==
    /\ Hosts \ Flaky \subseteq up
    /\ prober.at # "wait" => Distinct(prober.todo)
    /\ prober.at = "sweep" /\ prober.elapsed # 0 =>
          prober.todo # <<>>
    /\ prober.at = "promote" =>
          /\ HostOf(Head(prober.todo)) \in Flaky \cup found
          /\ peer[Head(prober.todo)].age = 0

TableRight == PeersTyped /\ TableKeyed /\ SeedsOffline /\ Orphans /\ ProbesInOrder

\* After an answer nothing changes, or a seed gets its real id and is alone
\* under it.
LEMMA PromoteGoes ==
  ASSUME PeersTyped, TableKeyed, Orphans, NEW o \in Ids, Promote(o)
  PROVE  /\ prober.at = "promote" /\ o = Head(prober.todo) /\ o \in DOMAIN peer
         /\ prober' = Sweeping(Tail(prober.todo)) /\ UNCHANGED <<up, found>>
         /\ \/ peer[o].id = HostOf(o) /\ UNCHANGED <<peer, table>>
            \/ /\ peer[o].id \notin Hosts /\ o \in Range(table) \ Hosts
               /\ peer' = [peer EXCEPT ![o] = [id |-> HostOf(o), age |-> peer[o].age]]
               /\ table' \in Seq(DOMAIN peer) /\ Distinct(table')
               /\ Range(table') = {q \in Range(table) : q = o \/ peer[q].id # HostOf(o)}
<1> DEFINE real == HostOf(o)
           rest == Without(table, o)
<1>1. prober.at = "promote" /\ o = Head(prober.todo) /\ prober' = Sweeping(Tail(prober.todo))
      /\ UNCHANGED <<up, found>>
  BY DEF Promote
<1>2. o \in DOMAIN peer
  BY <1>1, PromoteOf
<1>3. CASE peer[o].id = real
  <2>1. UNCHANGED <<peer, table>>
    BY <1>3 DEF Promote
  <2> QED BY <1>1, <1>2, <1>3, <2>1
<1>4. CASE peer[o].id # real
  <2>1. /\ peer' = [peer EXCEPT ![o].id = real]
        /\ table' = IF \E i \in DOMAIN rest : peer[rest[i]].id = real
                    THEN [i \in DOMAIN rest |-> IF peer[rest[i]].id = real THEN o ELSE rest[i]]
                    ELSE Append(rest, o)
    BY <1>4 DEF Promote
  <2>2. peer[o].id \notin Hosts /\ peer[o].id = o
    BY <1>2, <1>4, EntryTyped
  <2>3. o \in Range(table)
    BY <1>2, <2>2 DEF Orphans
  <2>4. peer' = [peer EXCEPT ![o] = [id |-> real, age |-> peer[o].age]]
    <3>1. peer[o] = [id |-> peer[o].id, age |-> peer[o].age]
      BY <1>2, EntryTyped
    <3> HIDE DEF real
    <3>2. [peer[o] EXCEPT !.id = real] = [id |-> real, age |-> peer[o].age]
      BY <3>1
    <3> QED BY <2>1, <3>2
  <2>5. rest \in Seq(DOMAIN peer) /\ Distinct(rest) /\ Range(rest) = Range(table) \ {o}
    <3>1. table \in Seq(DOMAIN peer) /\ Distinct(table)
      BY DEF PeersTyped, TableKeyed
    <3> QED BY <2>3, <3>1, TakenOut
  <2> HIDE DEF rest, real
  <2>6. CASE \E i \in DOMAIN rest : peer[rest[i]].id = real
    <3>1. PICK i \in DOMAIN rest : peer[rest[i]].id = real
      BY <2>6
    <3> DEFINE e == rest[i]
    <3>2. e \in Range(rest) /\ peer[e].id = real
      BY <3>1 DEF Range
    <3>3. \A j \in DOMAIN rest : peer[rest[j]].id = real <=> rest[j] = e
      <4>1. \A j \in DOMAIN rest : rest[j] \in Range(table)
        BY <2>5 DEF Range
      <4> QED BY <3>2, <4>1, <2>5 DEF TableKeyed
    <3> HIDE DEF e
    <3>4. table' = [j \in DOMAIN rest |-> IF rest[j] = e THEN o ELSE rest[j]]
      BY <2>1, <2>6, <3>3
    <3>5. table' \in Seq(DOMAIN peer) /\ Distinct(table')
          /\ Range(table') = (Range(rest) \ {e}) \cup {o}
      BY <1>2, <2>5, <3>2, <3>4, Replaced
    <3>6. \A q \in Range(table) : peer[q].id = real => q = e
      BY <2>5, <3>2 DEF TableKeyed
    <3>7. Range(table') = {q \in Range(table) : q = o \/ peer[q].id # real}
      BY <2>3, <2>5, <3>2, <3>5, <3>6
    <3> QED BY <1>1, <1>2, <2>2, <2>3, <2>4, <3>5, <3>7 DEF real
  <2>7. CASE ~\E i \in DOMAIN rest : peer[rest[i]].id = real
    <3>1. table' = Append(rest, o)
      BY <2>1, <2>7
    <3>2. table' \in Seq(DOMAIN peer) /\ Distinct(table') /\ Range(table') = Range(rest) \cup {o}
      BY <1>2, <2>5, <3>1, Appended, AppendDistinct
    <3>3. \A q \in Range(rest) : peer[q].id # real
      BY <2>7 DEF Range
    <3>4. Range(table') = {q \in Range(table) : q = o \/ peer[q].id # real}
      BY <2>3, <2>5, <3>2, <3>3
    <3> QED BY <1>1, <1>2, <2>2, <2>3, <2>4, <3>2, <3>4 DEF real
  <2> QED BY <2>6, <2>7
<1> QED BY <1>3, <1>4 DEF real

LEMMA ProbeFailsGoes ==
  ASSUME PeersTyped, Hosts \ Flaky \subseteq up, NEW o \in Ids, ProbeFails(o)
  PROVE  /\ Probing(o) /\ HostOf(o) \in Flaky
         /\ prober' = Sweeping(Tail(prober.todo)) /\ UNCHANGED <<peer, table, up, found>>
BY PeerIds DEF ProbeFails

-----------------------------------------------------------------------------
(* Peers: types                                                            *)

LEMMA ListsGrow == \A S, T : S \subseteq T => Seq(S) \subseteq Seq(T)
<1> SUFFICES ASSUME NEW S, NEW T, S \subseteq T, NEW s \in Seq(S) PROVE s \in Seq(T)
  OBVIOUS
<1>1. Len(s) \in Nat /\ s \in [1 .. Len(s) -> S]
  BY LenProperties
<1>2. s \in [1 .. Len(s) -> T]
  BY <1>1
<1> QED BY <1>1, <1>2, SeqDef

\* What the probe loop may hold, whatever the entries.
Probers(T) ==
  [at : {"wait"}, left : 0 .. ProbeInterval]
    \cup [at : {"sweep"}, todo : T, elapsed : 0 .. ProbeLimit]
    \cup [at : {"promote"}, todo : T \ {<<>>}]

LEMMA TypedParts ==
  /\ PeersTyped => prober \in Probers(Todos)
  /\ PeersTyped' <=> /\ (DOMAIN peer \subseteq Ids /\ peer \in [DOMAIN peer -> Entry])'
                     /\ (\A o \in DOMAIN peer : peer[o].id \in {o, HostOf(o)})'
                     /\ table' \in Todos' /\ prober' \in Probers(Todos')
                     /\ up' \subseteq Hosts /\ found' \subseteq up'
BY DEF PeersTyped, Todos, Probers

LEMMA PeersTypedInit == PeersInit => PeersTyped
<1> SUFFICES ASSUME PeersInit PROVE PeersTyped
  OBVIOUS
<1> DEFINE D == {Static(Seeds[i]) : i \in DOMAIN Seeds}
<1>1. Len(Seeds) \in Nat /\ DOMAIN Seeds = 1 .. Len(Seeds) /\ \A i \in DOMAIN Seeds : Seeds[i] \in Hosts
  BY PeerNumbers, LenProperties, ElementOfSeq
<1>2. D \subseteq Ids /\ DOMAIN peer = D /\ \A o \in D : peer[o] = [id |-> o, age |-> MaxAge]
  BY <1>1, PeerIds DEF PeersInit
<1>3. peer \in [DOMAIN peer -> Entry] /\ \A o \in DOMAIN peer : peer[o].id = o
  <2>1. peer = [o \in D |-> [id |-> o, age |-> MaxAge]]
    BY DEF PeersInit
  <2> HIDE DEF D
  <2>2. \A o \in D : [id |-> o, age |-> MaxAge] \in Entry
    BY <1>2, PeerNumbers DEF Entry
  <2> QED BY <1>2, <2>1, <2>2
<1>4. table \in Seq(DOMAIN peer)
  <2>1. table \in [1 .. Len(Seeds) -> D]
    BY <1>1 DEF PeersInit
  <2> QED BY <1>1, <1>2, <2>1, SeqDef
<1>5. prober \in [at : {"wait"}, left : 0 .. ProbeInterval] /\ up \subseteq Hosts /\ found = {}
  BY PeerNumbers DEF PeersInit, Waiting
<1> QED BY <1>2, <1>3, <1>4, <1>5 DEF PeersTyped

LEMMA BeaconTyped ==
  ASSUME PeersTyped, NEW h \in Hosts, Beacon(h)
  PROVE  PeersTyped'
<1>1. UNCHANGED <<prober, up, found>>
  BY BeaconGoes
<1>2. /\ DOMAIN peer \subseteq DOMAIN peer' /\ DOMAIN peer' \subseteq Ids /\ peer' \in [DOMAIN peer' -> Entry]
      /\ \A o \in DOMAIN peer' : peer'[o].id \in {o, HostOf(o)}
      /\ table' \in Seq(DOMAIN peer')
  <2>1. h \in Ids /\ [id |-> h, age |-> 0] \in Entry
    BY PeerNumbers DEF Ids, Entry
  <2>2. \A o \in DOMAIN peer : /\ o \in Ids /\ peer[o] \in Entry
                               /\ [id |-> peer[o].id, age |-> 0] \in Entry
                               /\ peer[o].id \in {o, HostOf(o)}
    BY EntryTyped, PeerNumbers DEF PeersTyped, Entry
  <2>3. table \in Seq(DOMAIN peer)
    BY DEF PeersTyped
  <2>4. CASE /\ peer' = [o \in DOMAIN peer \cup {h} |->
                              IF o = h THEN [id |-> h, age |-> 0] ELSE peer[o]]
             /\ table' = Append(table, h)
    <3>1. DOMAIN peer' = DOMAIN peer \cup {h}
      BY <2>4
    <3>2. \A o \in DOMAIN peer' : peer'[o] \in Entry /\ peer'[o].id \in {o, HostOf(o)}
      BY <2>1, <2>2, <2>4
    <3>3. peer' \in [DOMAIN peer' -> Entry]
      BY <2>4, <3>1, <3>2
    <3>4. table \in Seq(DOMAIN peer')
      BY <2>3, <3>1, ListsGrow
    <3>5. table' \in Seq(DOMAIN peer')
      BY <2>4, <3>1, <3>4, AppendProperties
    <3> QED BY <2>1, <2>2, <3>1, <3>2, <3>3, <3>5
  <2>5. CASE /\ peer' = [o \in DOMAIN peer |->
                              IF o \in Range(table) /\ peer[o].id = h
                              THEN [id |-> peer[o].id, age |-> 0] ELSE peer[o]]
             /\ UNCHANGED table
    <3>1. DOMAIN peer' = DOMAIN peer
      BY <2>5
    <3>2. \A o \in DOMAIN peer : peer'[o] \in Entry /\ peer'[o].id = peer[o].id
      BY <2>2, <2>5
    <3>3. peer' \in [DOMAIN peer' -> Entry]
      BY <2>5, <3>1, <3>2
    <3> QED BY <2>2, <2>3, <2>5, <3>1, <3>2, <3>3
  <2> QED BY <2>4, <2>5, BeaconGoes
<1>3. Todos \subseteq Todos'
  BY <1>2, ListsGrow DEF Todos
<1>4. prober' \in Probers(Todos')
  BY <1>1, <1>3, TypedParts DEF Probers
<1>5. up' \subseteq Hosts /\ found' \subseteq up'
  BY <1>1 DEF PeersTyped
<1> QED BY <1>2, <1>4, <1>5, TypedParts DEF Todos

\* A step of the probe loop or of the clock makes no entry.
LEMMA SameEntries ==
  ASSUME PeersTyped, peer' \in [DOMAIN peer -> Entry],
         \A o \in DOMAIN peer : peer'[o].id \in {peer[o].id, HostOf(o)},
         table' \in Seq(DOMAIN peer), prober' \in Probers(Todos),
         up' \subseteq Hosts, found' \subseteq up'
  PROVE  PeersTyped'
<1>1. DOMAIN peer' = DOMAIN peer
  OBVIOUS
<1>2. \A o \in DOMAIN peer : o \in Ids /\ peer[o].id \in {o, HostOf(o)}
  BY DEF PeersTyped
<1> QED BY <1>1, <1>2, TypedParts DEF Todos

LEMMA TickTyped ==
  ASSUME PeersTyped, Tick
  PROVE  PeersTyped'
<1>1. peer' = [o \in DOMAIN peer |-> [id |-> peer[o].id, age |-> Older(peer[o].age)]]
      /\ UNCHANGED <<table, up, found>>
  BY TickGoes
<1>2. \A o \in DOMAIN peer : peer'[o] \in Entry /\ peer'[o].id = peer[o].id
  <2> SUFFICES ASSUME NEW o \in DOMAIN peer PROVE peer'[o] \in Entry /\ peer'[o].id = peer[o].id
    OBVIOUS
  <2>1. peer[o].id \in Ids /\ peer[o].age \in 0 .. MaxAge
    BY EntryTyped
  <2>2. Older(peer[o].age) \in 0 .. MaxAge
    BY <2>1, PeerNumbers DEF Older
  <2>3. peer'[o] = [id |-> peer[o].id, age |-> Older(peer[o].age)]
    BY <1>1
  <2> QED BY <2>1, <2>2, <2>3 DEF Entry
<1>3. prober' \in Probers(Todos)
  <2>1. CASE prober.at = "wait"
    <3>1. prober.left > 0 /\ prober' = Waiting(prober.left - 1)
      BY <2>1, TickGoes
    <3>2. prober.left \in 0 .. ProbeInterval
      BY <2>1, ProberKinds
    <3> QED BY <3>1, <3>2, PeerNumbers DEF Waiting, Probers
  <2>2. CASE prober.at # "wait"
    <3>1. prober.at = "sweep" /\ prober.elapsed < ProbeLimit
          /\ prober' = [at |-> "sweep", todo |-> prober.todo, elapsed |-> prober.elapsed + 1]
      BY <2>2, TickGoes
    <3>2. prober.todo \in Todos /\ prober.elapsed \in 0 .. ProbeLimit
      BY <3>1, ProberKinds
    <3> QED BY <3>1, <3>2, PeerNumbers DEF Probers
  <2> QED BY <2>1, <2>2
<1>4. peer' \in [DOMAIN peer -> Entry]
  BY <1>1, <1>2
<1> QED BY <1>1, <1>2, <1>3, <1>4, SameEntries DEF PeersTyped

LEMMA ProberTyped ==
  ASSUME TableRight, ProberStep
  PROVE  PeersTyped'
<1> USE DEF TableRight
<1>1. /\ peer \in [DOMAIN peer -> Entry] /\ table \in Seq(DOMAIN peer) /\ up \subseteq Hosts
      /\ found \subseteq up /\ prober \in Probers(Todos)
      /\ \A o \in DOMAIN peer : peer[o].id \in {peer[o].id, HostOf(o)}
  BY TypedParts DEF PeersTyped
<1>2. ASSUME NEW t \in Todos PROVE Sweeping(t) \in Probers(Todos)
  BY PeerNumbers DEF Sweeping, Probers
<1>3. CASE SweepStart
  BY <1>1, <1>2, <1>3, SameEntries DEF SweepStart, Todos
<1>4. CASE SweepEnd
  <2>1. Waiting(ProbeInterval) \in Probers(Todos)
    BY PeerNumbers DEF Waiting, Probers
  <2> QED BY <1>1, <1>4, <2>1, SameEntries DEF SweepEnd
<1>5. ASSUME NEW o \in Ids, ProbeOk(o) PROVE PeersTyped'
  <2>1. /\ Probing(o) /\ HostOf(o) \in up /\ UNCHANGED <<table, up>>
        /\ found' = found \cup {HostOf(o)} /\ prober' = [at |-> "promote", todo |-> prober.todo]
        /\ peer' = [peer EXCEPT ![o] = [id |-> peer[o].id, age |-> 0]]
    BY <1>5, ProbeOkGoes
  <2>2. prober.todo \in Todos /\ prober.todo # <<>> /\ o \in DOMAIN peer
    BY <2>1, ProbeOf
  <2>3. prober' \in Probers(Todos)
    BY <2>1, <2>2 DEF Probers
  <2>4. [id |-> peer[o].id, age |-> 0] \in Entry
    BY <2>2, EntryTyped, PeerNumbers DEF Entry
  <2>5. peer' \in [DOMAIN peer -> Entry] /\ \A q \in DOMAIN peer : peer'[q].id = peer[q].id
    BY <1>1, <2>1, <2>2, <2>4
  <2> QED BY <1>1, <2>1, <2>3, <2>5, SameEntries
<1>6. ASSUME NEW o \in Ids, ProbeFails(o) PROVE PeersTyped'
  <2>1. prober' = Sweeping(Tail(prober.todo)) /\ UNCHANGED <<peer, table, up, found>>
        /\ Tail(prober.todo) \in Todos
    BY <1>6, ProbeOf DEF ProbeFails
  <2> QED BY <1>1, <1>2, <2>1, SameEntries
<1>7. ASSUME NEW o \in Ids, Promote(o) PROVE PeersTyped'
  <2>1. /\ prober.at = "promote" /\ o \in DOMAIN peer
        /\ prober' = Sweeping(Tail(prober.todo)) /\ UNCHANGED <<up, found>>
    BY <1>7, PromoteGoes
  <2>2. prober' \in Probers(Todos)
    BY <1>2, <2>1, PromoteOf
  <2>3. CASE UNCHANGED <<peer, table>>
    BY <1>1, <2>1, <2>2, <2>3, SameEntries
  <2>4. CASE /\ peer' = [peer EXCEPT ![o] = [id |-> HostOf(o), age |-> peer[o].age]]
             /\ table' \in Seq(DOMAIN peer)
    <3>1. [id |-> HostOf(o), age |-> peer[o].age] \in Entry
      BY <2>1, EntryTyped DEF Entry, Ids
    <3>2. peer' \in [DOMAIN peer -> Entry]
          /\ \A q \in DOMAIN peer : peer'[q].id \in {peer[q].id, HostOf(q)}
      BY <1>1, <2>1, <2>4, <3>1
    <3> QED BY <1>1, <2>1, <2>2, <2>4, <3>2, SameEntries
  <2> QED BY <1>7, <2>3, <2>4, PromoteGoes
<1> QED BY <1>3, <1>4, <1>5, <1>6, <1>7 DEF ProberStep

LEMMA HostsTyped ==
  ASSUME PeersTyped, NEW h \in Hosts, Stop(h) \/ Start(h)
  PROVE  PeersTyped'
<1>1. UNCHANGED <<peer, table, prober>> /\ up' \subseteq Hosts /\ found' \subseteq up'
  BY DEF PeersTyped, Stop, Start
<1> QED BY <1>1, TypedParts DEF PeersTyped, Todos, Probers

-----------------------------------------------------------------------------
(* What the table, the ids and the probe loop satisfy is kept              *)

LEMMA TableInit == PeersInit => TableRight
<1> SUFFICES ASSUME PeersInit PROVE TableRight
  OBVIOUS
<1>1. PeersTyped
  BY PeersTypedInit
<1>2. /\ DOMAIN table = DOMAIN Seeds /\ \A i \in DOMAIN Seeds : table[i] = Static(Seeds[i])
      /\ \A o \in DOMAIN peer : peer[o] = [id |-> o, age |-> MaxAge]
      /\ DOMAIN peer = {Static(Seeds[i]) : i \in DOMAIN Seeds}
      /\ prober = Waiting(0) /\ Hosts \ Flaky \subseteq up
  BY DEF PeersInit
<1>3. \A o \in DOMAIN peer : peer[o].id = o /\ peer[o].age = MaxAge
  <2> SUFFICES ASSUME NEW o \in DOMAIN peer PROVE peer[o].id = o /\ peer[o].age = MaxAge
    OBVIOUS
  <2>1. peer[o] = [id |-> o, age |-> MaxAge]
    BY <1>2
  <2> QED BY <2>1
<1>4. Distinct(table)
  <2>1. ASSUME NEW i \in DOMAIN Seeds, NEW j \in DOMAIN Seeds, Static(Seeds[i]) = Static(Seeds[j])
        PROVE  i = j
    <3>1. Seeds[i] = Seeds[j]
      BY <2>1 DEF Static
    <3> QED BY <3>1, PeerNumbers DEF Distinct
  <2> QED BY <1>2, <2>1 DEF Distinct
<1>5. Range(table) = DOMAIN peer
  BY <1>2 DEF Range
<1>6. TableKeyed
  BY <1>3, <1>4, <1>5 DEF TableKeyed
<1>7. SeedsOffline
  <2>1. \A o \in DOMAIN peer : ~Online(o)
    BY <1>3, PeerNumbers DEF Online
  <2> QED BY <1>5, <2>1 DEF SeedsOffline
<1>8. Orphans
  BY <1>5 DEF Orphans
<1>9. ProbesInOrder
  <2>1. prober.at = "wait"
    BY <1>2 DEF Waiting
  <2> QED BY <1>2, <2>1 DEF ProbesInOrder
<1> QED BY <1>1, <1>6, <1>7, <1>8, <1>9 DEF TableRight

LEMMA BeaconTable ==
  ASSUME TableRight, NEW h \in Hosts, Beacon(h)
  PROVE  TableRight'
<1> USE DEF TableRight
<1>1. PeersTyped'
  BY BeaconTyped
<1>2. UNCHANGED <<prober, up, found>>
  BY BeaconGoes
<1>3. Range(table) \subseteq DOMAIN peer /\ table \in Seq(DOMAIN peer) /\ Distinct(table)
  BY InTable DEF PeersTyped, TableKeyed
<1>4. prober.at = "promote" => Head(prober.todo) \in DOMAIN peer
  BY PromoteOf
<1>5. CASE /\ \A o \in Range(table) : peer[o].id # h
           /\ peer' = [o \in DOMAIN peer \cup {h} |->
                              IF o = h THEN [id |-> h, age |-> 0] ELSE peer[o]]
           /\ table' = Append(table, h)
  <2>1. h \notin Range(table)
    <3> SUFFICES ASSUME h \in Range(table) PROVE FALSE
      OBVIOUS
    <3>1. peer[h].id \in {h, HostOf(h)} /\ HostOf(h) = h
      BY <1>3, EntryTyped, PeerIds
    <3> QED BY <1>5, <3>1
  <2>2. DOMAIN peer' = DOMAIN peer \cup {h} /\ peer'[h] = [id |-> h, age |-> 0]
        /\ \A o \in DOMAIN peer : o # h => peer'[o] = peer[o]
    BY <1>5
  <2>3. Distinct(table') /\ Range(table') = Range(table) \cup {h}
    <3>1. table \in Seq(DOMAIN peer \cup {h})
      BY <1>3, ListsGrow
    <3> QED BY <1>3, <1>5, <2>1, <3>1, Appended, AppendDistinct
  <2>4. TableKeyed'
    BY <1>3, <1>5, <2>1, <2>2, <2>3 DEF TableKeyed
  <2>5. SeedsOffline'
    BY <1>2, <1>3, <2>1, <2>2, <2>3 DEF SeedsOffline, Online, Answered
  <2>6. Orphans'
    BY <1>2, <2>2, <2>3 DEF Orphans
  <2>7. ProbesInOrder'
    BY <1>2, <1>4, <2>2 DEF ProbesInOrder
  <2> QED BY <1>1, <2>4, <2>5, <2>6, <2>7
<1>6. CASE /\ peer' = [o \in DOMAIN peer |->
                              IF o \in Range(table) /\ peer[o].id = h
                              THEN [id |-> peer[o].id, age |-> 0] ELSE peer[o]]
           /\ UNCHANGED table
  <2>1. DOMAIN peer' = DOMAIN peer
        /\ \A o \in DOMAIN peer : /\ peer'[o].id = peer[o].id
                                  /\ peer'[o] = peer[o] \/ peer'[o].age = 0
                                  /\ o \in Range(table) /\ peer[o].id \notin Hosts => peer'[o] = peer[o]
    BY <1>6
  <2>2. TableKeyed'
    BY <1>3, <1>6, <2>1 DEF TableKeyed
  <2>3. SeedsOffline'
    BY <1>2, <1>3, <1>6, <2>1 DEF SeedsOffline, Online, Answered
  <2>4. Orphans'
    BY <1>2, <1>6, <2>1 DEF Orphans
  <2>5. ProbesInOrder'
    BY <1>2, <1>4, <2>1 DEF ProbesInOrder
  <2> QED BY <1>1, <2>2, <2>3, <2>4, <2>5
<1> QED BY <1>5, <1>6, BeaconGoes

LEMMA TickTable ==
  ASSUME TableRight, Tick
  PROVE  TableRight'
<1> USE DEF TableRight
<1>1. PeersTyped'
  BY TickTyped
<1>2. UNCHANGED <<table, up, found>>
  BY TickGoes
<1>3. DOMAIN peer' = DOMAIN peer /\ Range(table) \subseteq DOMAIN peer
      /\ \A o \in DOMAIN peer : peer'[o].id = peer[o].id /\ peer'[o].age = Older(peer[o].age)
  BY TickGoes, InTable
<1>4. TableKeyed'
  BY <1>2, <1>3 DEF TableKeyed
<1>5. prober.at # "promote" /\ prober'.at # "promote"
  BY TickGoes DEF Waiting
<1>6. SeedsOffline'
  <2>1. ASSUME NEW o \in DOMAIN peer, ~Online(o) PROVE ~Online(o)'
    <3>1. peer[o].age \in 0 .. MaxAge /\ peer[o].age >= OfflineAfter
      BY <2>1, EntryTyped, PeerNumbers DEF Online
    <3> QED BY <1>3, <3>1, PeerNumbers DEF Online, Older
  <2> QED BY <1>2, <1>3, <1>5, <2>1 DEF SeedsOffline, Answered
<1>7. Orphans'
  BY <1>2, <1>3 DEF Orphans
<1>8. ProbesInOrder'
  <2>1. CASE prober.at = "wait"
    <3>1. prober'.at = "wait"
      BY <2>1, TickGoes DEF Waiting
    <3> QED BY <1>2, <3>1 DEF ProbesInOrder
  <2>2. CASE prober.at # "wait"
    <3>1. /\ prober.at = "sweep" /\ prober.todo # <<>>
          /\ prober' = [at |-> "sweep", todo |-> prober.todo, elapsed |-> prober.elapsed + 1]
      BY <2>2, TickGoes
    <3>2. prober'.at = "sweep" /\ prober'.todo = prober.todo
      BY <3>1
    <3> QED BY <1>2, <2>2, <3>1, <3>2 DEF ProbesInOrder
  <2> QED BY <2>1, <2>2
<1> QED BY <1>1, <1>4, <1>6, <1>7, <1>8

LEMMA HostsTable ==
  ASSUME TableRight, NEW h \in Hosts, Stop(h) \/ Start(h)
  PROVE  TableRight'
<1> USE DEF TableRight
<1>1. PeersTyped'
  BY HostsTyped
<1>2. UNCHANGED <<peer, table, prober>> /\ Hosts \ Flaky \subseteq up'
      /\ Flaky \cup found \subseteq Flaky \cup found'
  BY DEF Stop, Start, ProbesInOrder
<1>3. TableKeyed'
  BY <1>2 DEF TableKeyed
<1>4. SeedsOffline'
  BY <1>2 DEF SeedsOffline, Online, Answered
<1>5. Orphans'
  BY <1>2 DEF Orphans
<1>6. ProbesInOrder'
  BY <1>2 DEF ProbesInOrder
<1> QED BY <1>1, <1>3, <1>4, <1>5, <1>6

LEMMA ProberTable ==
  ASSUME TableRight, ProberStep
  PROVE  TableRight'
<1> USE DEF TableRight
<1>1. PeersTyped'
  BY ProberTyped
<1>2. Range(table) \subseteq DOMAIN peer /\ Distinct(table)
  BY InTable DEF TableKeyed
<1>3. CASE SweepStart
  <2>1. prober.at = "wait" /\ prober'.at = "sweep" /\ prober'.todo = table /\ prober'.elapsed = 0
    BY <1>3 DEF SweepStart, Waiting, Sweeping
  <2>2. UNCHANGED <<peer, table, up, found>>
    BY <1>3 DEF SweepStart
  <2>3. TableKeyed' /\ Orphans'
    BY <2>2 DEF TableKeyed, Orphans
  <2>4. SeedsOffline'
    BY <2>1, <2>2 DEF SeedsOffline, Online, Answered
  <2>5. ProbesInOrder'
    BY <1>2, <2>1, <2>2 DEF ProbesInOrder
  <2> QED BY <1>1, <2>3, <2>4, <2>5
<1>4. CASE SweepEnd
  <2>1. prober.at = "sweep" /\ prober'.at = "wait" /\ UNCHANGED <<peer, table, up, found>>
    BY <1>4 DEF SweepEnd, Waiting
  <2>2. TableKeyed' /\ Orphans'
    BY <2>1 DEF TableKeyed, Orphans
  <2>3. SeedsOffline'
    BY <2>1 DEF SeedsOffline, Online, Answered
  <2>4. ProbesInOrder'
    BY <2>1 DEF ProbesInOrder
  <2> QED BY <1>1, <2>2, <2>3, <2>4
<1>5. ASSUME NEW o \in Ids, ProbeOk(o) PROVE TableRight'
  <2>1. /\ Probing(o) /\ HostOf(o) \in up /\ UNCHANGED <<table, up>>
        /\ found' = found \cup {HostOf(o)} /\ prober' = [at |-> "promote", todo |-> prober.todo]
        /\ peer' = [peer EXCEPT ![o] = [id |-> peer[o].id, age |-> 0]]
    BY <1>5, ProbeOkGoes
  <2>2. prober.at = "sweep" /\ o = Head(prober.todo) /\ o \in DOMAIN peer
    BY <2>1, ProbeOf
  <2>3. /\ prober'.at = "promote" /\ Head(prober'.todo) = o /\ prober'.todo = prober.todo
        /\ DOMAIN peer' = DOMAIN peer /\ \A q \in DOMAIN peer : peer'[q].id = peer[q].id
        /\ \A q \in DOMAIN peer : q # o => peer'[q] = peer[q]
        /\ peer'[o].age = 0
    BY <2>1, <2>2
  <2>4. TableKeyed'
    BY <1>2, <2>1, <2>3 DEF TableKeyed
  <2>5. Orphans'
    BY <2>1, <2>3 DEF Orphans
  <2>6. SeedsOffline'
    BY <1>2, <2>1, <2>2, <2>3 DEF SeedsOffline, Online, Answered
  <2>7. ProbesInOrder'
    BY <2>1, <2>2, <2>3 DEF ProbesInOrder
  <2> QED BY <1>1, <2>4, <2>5, <2>6, <2>7
<1>6. ASSUME NEW o \in Ids, ProbeFails(o) PROVE TableRight'
  <2>1. Probing(o) /\ prober' = Sweeping(Tail(prober.todo)) /\ UNCHANGED <<peer, table, up, found>>
    BY <1>6 DEF ProbeFails
  <2>2. prober.at = "sweep" /\ prober.todo \in Seq(DOMAIN peer) /\ prober.todo # <<>>
    BY <2>1, ProbeOf DEF Todos
  <2>3. Distinct(Tail(prober.todo))
    BY <2>2, TailDistinct DEF ProbesInOrder
  <2>4. prober'.at = "sweep" /\ prober'.todo = Tail(prober.todo) /\ prober'.elapsed = 0
    BY <2>1 DEF Sweeping
  <2>5. TableKeyed' /\ Orphans'
    BY <2>1 DEF TableKeyed, Orphans
  <2>6. SeedsOffline'
    BY <2>1, <2>2, <2>4 DEF SeedsOffline, Online, Answered
  <2>7. ProbesInOrder'
    BY <2>1, <2>3, <2>4 DEF ProbesInOrder
  <2> QED BY <1>1, <2>5, <2>6, <2>7
<1>7. ASSUME NEW o \in Ids, Promote(o) PROVE TableRight'
  <2>1. /\ prober.at = "promote" /\ o = Head(prober.todo) /\ o \in DOMAIN peer
        /\ prober' = Sweeping(Tail(prober.todo)) /\ UNCHANGED <<up, found>>
    BY <1>7, PromoteGoes
  <2>2. prober.todo \in Seq(DOMAIN peer) /\ prober.todo # <<>>
    BY <2>1, PromoteOf DEF Todos
  <2>3. Distinct(Tail(prober.todo))
    BY <2>1, <2>2, TailDistinct DEF ProbesInOrder
  <2>4. prober'.at = "sweep" /\ prober'.todo = Tail(prober.todo) /\ prober'.elapsed = 0
    BY <2>1 DEF Sweeping
  <2>5. ProbesInOrder'
    BY <2>1, <2>3, <2>4 DEF ProbesInOrder
  <2>6. CASE peer[o].id = HostOf(o) /\ UNCHANGED <<peer, table>>
    <3>1. TableKeyed' /\ Orphans'
      BY <2>1, <2>6 DEF TableKeyed, Orphans
    <3>2. peer[o].id \in Hosts
      BY <2>1, <2>6, EntryTyped
    <3>3. SeedsOffline'
      BY <2>1, <2>4, <2>6, <3>2 DEF SeedsOffline, Online, Answered
    <3> QED BY <1>1, <2>5, <3>1, <3>3
  <2>7. CASE /\ peer[o].id \notin Hosts /\ o \in Range(table) \ Hosts
             /\ peer' = [peer EXCEPT ![o] = [id |-> HostOf(o), age |-> peer[o].age]]
             /\ table' \in Seq(DOMAIN peer) /\ Distinct(table')
             /\ Range(table') = {q \in Range(table) : q = o \/ peer[q].id # HostOf(o)}
    <3>1. /\ DOMAIN peer' = DOMAIN peer /\ peer'[o].id = HostOf(o)
          /\ \A q \in DOMAIN peer : q # o => peer'[q] = peer[q]
      BY <2>1, <2>7
    <3>2. TableKeyed'
      BY <1>2, <2>7, <3>1 DEF TableKeyed
    <3>3. HostOf(o) \in Hosts
      BY <2>1, EntryTyped
    <3>4. SeedsOffline'
      BY <1>2, <2>1, <2>4, <2>7, <3>1, <3>3 DEF SeedsOffline, Online, Answered
    <3>5. Orphans'
      <4> SUFFICES ASSUME NEW q \in DOMAIN peer, q \notin Range(table')
                   PROVE  q \in Hosts /\ q \in Flaky \cup found
        BY <2>1, <3>1 DEF Orphans
      <4>1. CASE q \notin Range(table)
        BY <4>1 DEF Orphans
      <4>2. CASE q \in Range(table)
        <5>1. q # o /\ peer[q].id = HostOf(o)
          BY <2>7, <4>2
        <5>2. HostOf(q) = HostOf(o) /\ q \in Ids /\ o \in Ids
          BY <2>1, <3>3, <5>1, EntryTyped
        <5>3. q \in Hosts
          BY <2>7, <5>1, <5>2, PeerIds
        <5>4. q = HostOf(o)
          BY <5>2, <5>3, PeerIds
        <5> QED BY <2>1, <5>3, <5>4 DEF ProbesInOrder
      <4> QED BY <4>1, <4>2
    <3> QED BY <1>1, <2>5, <3>2, <3>4, <3>5
  <2> QED BY <1>7, <2>6, <2>7, PromoteGoes
<1> QED BY <1>3, <1>4, <1>5, <1>6, <1>7 DEF ProberStep

LEMMA TableStep == TableRight /\ [PeersNext]_pvars => TableRight'
<1> SUFFICES ASSUME TableRight, [PeersNext]_pvars PROVE TableRight'
  OBVIOUS
<1>1. CASE UNCHANGED pvars
  BY <1>1 DEF pvars, TableRight, PeersTyped, Todos, TableKeyed, SeedsOffline, Orphans, ProbesInOrder,
              Online, Answered
<1>2. CASE PeersNext
  BY <1>2, BeaconTable, HostsTable, ProberTable, TickTable DEF PeersNext
<1> QED BY <1>1, <1>2

LEMMA TableHolds == PeersSpec => []TableRight
BY TableInit, TableStep, PTL DEF PeersSpec

\* Types of the peers' entries and of the probe loop; no probe takes longer
\* than its timeout (_probe).
THEOREM PeersAreTyped == PeersSpec => []PeersTyped
<1>1. TableRight => PeersTyped
  BY DEF TableRight
<1> QED BY <1>1, TableHolds, PTL

\* One worker is not online under two entries, the placeholder of a seed and
\* the one a beacon made, except between an answer and the promotion.
THEOREM OneEntryOnline == PeersSpec => []NoTwins
<1>1. TableRight => NoTwins
  <2> SUFFICES ASSUME TableRight, prober.at # "promote", NEW h \in Hosts
               PROVE  Cardinality({i \in EntriesOf(h) : Online(table[i])}) <= 1
    BY DEF NoTwins
  <2> USE DEF TableRight
  <2> DEFINE E == {i \in EntriesOf(h) : Online(table[i])}
  <2>1. ASSUME NEW i \in E PROVE i \in DOMAIN table /\ table[i] \in Range(table) /\ peer[table[i]].id = h
    <3>1. i \in DOMAIN table /\ HostOf(table[i]) = h /\ Online(table[i])
      BY DEF EntriesOf
    <3>2. table[i] \in Range(table) /\ table[i] \in DOMAIN peer
      BY <3>1, InTable
    <3>3. peer[table[i]].id \in Hosts
      BY <3>1, <3>2 DEF SeedsOffline, Answered
    <3>4. peer[table[i]].id = HostOf(table[i])
      BY <3>2, <3>3, EntryTyped
    <3> QED BY <3>1, <3>2, <3>4
  <2> HIDE DEF E
  <2>2. ASSUME NEW i \in E, NEW j \in E PROVE i = j
    <3>1. table[i] = table[j]
      BY <2>1 DEF TableKeyed
    <3> QED BY <2>1, <3>1 DEF TableKeyed, Distinct
  <2>3. CASE E = {}
    BY <2>3, FS_EmptySet DEF E
  <2>4. CASE E # {}
    <3>1. PICK i \in E : TRUE
      BY <2>4
    <3>2. E = {i}
      BY <2>2, <3>1
    <3>3. Cardinality(E) = 1
      BY <3>2, FS_Singleton
    <3> QED BY <3>3 DEF E
  <2> QED BY <2>3, <2>4
<1> QED BY <1>1, TableHolds, PTL

\* Who is once known under the real id stays known, whatever the steps of the
\* listener, the probe loop and the workers.
THEOREM KnownForGood == PeersSpec => KnownStays
<1>1. ASSUME TableRight, [PeersNext]_pvars, NEW h \in Hosts, Known(h) PROVE Known(h)'
  <2> USE DEF TableRight
  <2>1. PICK i \in DOMAIN table : peer[table[i]].id = h
    BY <1>1 DEF Known
  <2> DEFINE o == table[i]
  <2>2. o \in Range(table) /\ o \in DOMAIN peer /\ peer[o].id = h
    BY <1>1, <2>1, InTable
  <2> HIDE DEF o
  <2>3. SUFFICES \E q \in Range(table') : peer'[q].id = h
    BY DEF Known, Range
  <2>4. ASSUME UNCHANGED <<peer, table>> PROVE \E q \in Range(table') : peer'[q].id = h
    BY <2>2, <2>4
  <2>5. ASSUME NEW g \in Hosts, Beacon(g) PROVE \E q \in Range(table') : peer'[q].id = h
    <3>1. CASE /\ \A q \in Range(table) : peer[q].id # g
               /\ peer' = [q \in DOMAIN peer \cup {g} |->
                              IF q = g THEN [id |-> g, age |-> 0] ELSE peer[q]]
               /\ table' = Append(table, g)
      <4>1. o # g
        BY <1>1, <2>2, <3>1, EntryTyped, PeerIds
      <4>2. peer'[o] = peer[o]
        BY <2>2, <3>1, <4>1
      <4>3. table \in Seq(DOMAIN peer \cup {g})
        BY <1>1, ListsGrow DEF PeersTyped
      <4>4. o \in Range(table')
        BY <2>2, <3>1, <4>3, Appended
      <4> QED BY <2>2, <4>2, <4>4
    <3>2. CASE /\ peer' = [q \in DOMAIN peer |->
                              IF q \in Range(table) /\ peer[q].id = g
                              THEN [id |-> peer[q].id, age |-> 0] ELSE peer[q]]
               /\ UNCHANGED table
      BY <2>2, <3>2
    <3> QED BY <1>1, <2>5, <3>1, <3>2, BeaconGoes
  <2>6. ASSUME Tick PROVE \E q \in Range(table') : peer'[q].id = h
    BY <1>1, <2>2, <2>6, TickGoes
  <2>7. ASSUME NEW q \in Ids, ProbeOk(q) PROVE \E x \in Range(table') : peer'[x].id = h
    <3>1. UNCHANGED table /\ peer' = [peer EXCEPT ![q] = [id |-> peer[q].id, age |-> 0]]
      BY <1>1, <2>7, ProbeOkGoes
    <3> QED BY <2>2, <3>1
  <2>8. ASSUME NEW q \in Ids, Promote(q) PROVE \E x \in Range(table') : peer'[x].id = h
    <3>1. CASE UNCHANGED <<peer, table>>
      BY <2>4, <3>1
    <3>2. CASE /\ peer[q].id \notin Hosts /\ q \in Range(table) \ Hosts
               /\ peer' = [peer EXCEPT ![q] = [id |-> HostOf(q), age |-> peer[q].age]]
               /\ Range(table') = {x \in Range(table) : x = q \/ peer[x].id # HostOf(q)}
      <4>1. o # q
        BY <2>2, <3>2
      <4>2. CASE h = HostOf(q)
        <5>1. q \in Range(table') /\ peer'[q].id = h
          BY <1>1, <3>2, <4>2, InTable
        <5> QED BY <5>1
      <4>3. CASE h # HostOf(q)
        BY <2>2, <3>2, <4>1, <4>3
      <4> QED BY <4>2, <4>3
    <3> QED BY <1>1, <2>8, <3>1, <3>2, PromoteGoes
  <2>9. CASE UNCHANGED pvars
    BY <2>4, <2>9 DEF pvars
  <2>10. CASE PeersNext
    <3>1. SweepStart \/ SweepEnd \/ (\E q \in Ids : ProbeFails(q)) \/ (\E g \in Hosts : Stop(g) \/ Start(g))
          => UNCHANGED <<peer, table>>
      BY DEF SweepStart, SweepEnd, ProbeFails, Stop, Start
    <3> QED BY <2>4, <2>5, <2>6, <2>7, <2>8, <2>10, <3>1 DEF PeersNext, ProberStep
  <2> QED BY <1>1, <2>9, <2>10
<1>2. TableRight /\ [PeersNext]_pvars => [\A h \in Hosts : Known(h) => Known(h)']_pvars
  BY <1>1
<1> QED BY <1>2, TableHolds, PTL DEF PeersSpec, KnownStays

-----------------------------------------------------------------------------
(* The time a probe takes to come round                                    *)

\* The time the probes of the entries of a list may take, and the time a whole
\* sweep may: each host may be in the table twice.
Left(s) == ProbeLimit * Cardinality(Range(s))
Budget == ProbeLimit * (2 * Cardinality(Hosts))

LEMMA Timings == ProbeLimit \in Nat /\ ProbeInterval \in Nat
BY PeerNumbers

LEMMA HostsFinite == IsFiniteSet(Hosts) /\ Cardinality(Hosts) \in Nat /\ Budget \in Nat
<1>1. IsFiniteSet(Hosts) /\ Cardinality(Hosts) \in Nat
  BY PeerNumbers, FS_CardinalityType
<1> DEFINE n == Cardinality(Hosts)
<1> HIDE DEF n
<1>2. n \in Nat
  BY <1>1 DEF n
<1>3. ProbeLimit * (2 * n) \in Nat
  BY <1>2, Timings
<1> QED BY <1>1, <1>3 DEF Budget, n

\* There are two ids for a host.
LEMMA IdsFinite ==
  IsFiniteSet(Ids) /\ Cardinality(Ids) \in Nat /\ Cardinality(Ids) <= 2 * Cardinality(Hosts)
<1> DEFINE T == {Static(h) : h \in Hosts}
           f == [h \in Hosts |-> Static(h)]
           n == Cardinality(Hosts)
<1>1. IsFiniteSet(Hosts) /\ n \in Nat
  BY HostsFinite
<1>2. IsFiniteSet(T) /\ Cardinality(T) <= n /\ Cardinality(T) \in Nat
  <2>1. f \in Surjection(Hosts, T)
    BY DEF Surjection
  <2>2. IsFiniteSet(T) /\ Cardinality(T) <= n
    BY <1>1, <2>1, FS_Surjection
  <2> QED BY <2>2, FS_CardinalityType
<1>3. Ids = Hosts \cup T
  BY DEF Ids
<1> HIDE DEF T
<1>4. /\ IsFiniteSet(Ids)
      /\ Cardinality(Ids) = n + Cardinality(T) - Cardinality(Hosts \cap T)
  BY <1>1, <1>2, <1>3, FS_Union
<1>5. Cardinality(Hosts \cap T) \in Nat /\ Cardinality(Ids) \in Nat
  BY <1>1, <1>4, FS_Subset, FS_CardinalityType
<1> QED BY <1>1, <1>2, <1>4, <1>5

LEMMA LeftTyped ==
  ASSUME NEW s \in Seq(Ids)
  PROVE  IsFiniteSet(Range(s)) /\ Cardinality(Range(s)) \in Nat /\ Left(s) \in 0 .. Budget
<1> DEFINE n == Cardinality(Hosts)
           k == Cardinality(Range(s))
<1>1. Range(s) \subseteq Ids
  BY ElementOfSeq DEF Range
<1>2. IsFiniteSet(Range(s)) /\ k <= Cardinality(Ids) /\ k \in Nat
  BY <1>1, IdsFinite, FS_Subset, FS_CardinalityType
<1>3. n \in Nat /\ k <= 2 * n
  BY <1>2, HostsFinite, IdsFinite
<1> HIDE DEF k, n
<1>4. ProbeLimit * k \in Nat /\ ProbeLimit * k <= ProbeLimit * (2 * n)
  BY <1>2, <1>3, PeerNumbers
<1> QED BY <1>2, <1>4, HostsFinite DEF Left, Budget, k, n

LEMMA LeftTail ==
  ASSUME NEW s \in Seq(Ids), s # <<>>, Distinct(s)
  PROVE  Left(s) = Left(Tail(s)) + ProbeLimit
<1> DEFINE h == Head(s)
           t == Tail(s)
           k == Cardinality(Range(t))
<1>1. /\ t \in Seq(Ids) /\ Range(s) = Range(t) \cup {h} /\ h \notin Range(t)
  BY Tailed, TailDistinct
<1>2. IsFiniteSet(Range(t)) /\ k \in Nat
  BY <1>1, LeftTyped
<1> HIDE DEF h, t
<1>3. Cardinality(Range(s)) = k + 1
  BY <1>1, <1>2, FS_AddElement
<1> HIDE DEF k
<1>4. ProbeLimit * (k + 1) = ProbeLimit * k + ProbeLimit
  BY <1>2, PeerNumbers
<1> QED BY <1>3, <1>4 DEF Left, h, t, k

LEMMA LeftNone == Left(<<>>) = 0
<1>1. Range(<<>>) = {}
  BY DEF Range
<1>2. Cardinality(Range(<<>>)) = 0
  BY <1>1, FS_EmptySet
<1> QED BY <1>2, PeerNumbers DEF Left

\* What a sweep adds to the age of o until todo is left of it: all it took if
\* o was probed in it, and what went before if o is still to come.
Late(o, todo) ==
    (IF o \in Range(todo) THEN Budget + ProbeInterval ELSE 0) + (Budget - Left(todo))

InTime(o) ==
    /\ prober.at = "wait" => peer[o].age <= Budget + (ProbeInterval - prober.left)
    /\ prober.at = "sweep" => peer[o].age <= Late(o, prober.todo) + prober.elapsed
    /\ prober.at = "promote" => peer[o].age <= Late(o, Tail(prober.todo))

\* The entry that stands for h: the one under its real id, or the one that is
\* just getting it.
StandsFor(o, h) == peer[o].id = h \/ (o \in Answered /\ HostOf(o) = h)

Reached ==
    \A h \in found \ Flaky : \E o \in Range(table) : StandsFor(o, h) /\ InTime(o)

LEMMA LateTyped ==
  ASSUME PeersTyped, NEW todo \in Todos, NEW o
  PROVE  /\ Late(o, todo) \in Nat /\ Left(todo) \in 0 .. Budget /\ Budget \in Nat
         /\ o \notin Range(todo) => Late(o, todo) = Budget - Left(todo)
         /\ o \in Range(todo) => Late(o, todo) = Budget + ProbeInterval + (Budget - Left(todo))
<1>1. todo \in Seq(Ids)
  BY ListsGrow DEF PeersTyped, Todos
<1>2. Left(todo) \in 0 .. Budget /\ Budget \in Nat
  BY <1>1, LeftTyped, HostsFinite
<1> QED BY <1>2, PeerNumbers DEF Late

\* When the probe of the first of todo is over, no more than its time is spent.
LEMMA LateTail ==
  ASSUME PeersTyped, NEW todo \in Todos, todo # <<>>, Distinct(todo), NEW o, o # Head(todo)
  PROVE  Late(o, Tail(todo)) = Late(o, todo) + ProbeLimit
<1>1. todo \in Seq(Ids) /\ Tail(todo) \in Todos /\ (o \in Range(todo) <=> o \in Range(Tail(todo)))
  <2>1. todo \in Seq(DOMAIN peer)
    BY DEF Todos
  <2> QED BY <2>1, Tailed, ListsGrow DEF PeersTyped, Todos
<1> DEFINE e == IF o \in Range(todo) THEN Budget + ProbeInterval ELSE 0
           x == Left(todo)
           y == Left(Tail(todo))
<1>2. x \in Int /\ y \in Int /\ Budget \in Int /\ e \in Int /\ ProbeLimit \in Int
  BY <1>1, LateTyped, Timings
<1>3. x = y + ProbeLimit
  BY <1>1, LeftTail
<1>4. Late(o, todo) = e + (Budget - x) /\ Late(o, Tail(todo)) = e + (Budget - y)
  BY <1>1 DEF Late
<1> HIDE DEF e, x, y
<1> QED BY <1>2, <1>3, <1>4

LEMMA StandsHost ==
  ASSUME PeersTyped, NEW h \in Hosts, NEW o \in Range(table), StandsFor(o, h)
  PROVE  HostOf(o) = h /\ o \in DOMAIN peer /\ peer[o].age \in Nat
<1>1. o \in DOMAIN peer
  BY InTable
<1>2. peer[o].id = h => HostOf(o) = h
  BY <1>1, EntryTyped
<1> QED BY <1>1, <1>2, EntryTyped DEF StandsFor

LEMMA ReachedBeacon ==
  ASSUME TableRight, Reached, NEW g \in Hosts, Beacon(g)
  PROVE  Reached'
<1> SUFFICES ASSUME NEW h \in found \ Flaky
             PROVE  \E o \in Range(table') : StandsFor(o, h)' /\ InTime(o)'
  <2>1. found' = found
    BY BeaconGoes DEF TableRight
  <2> QED BY <2>1 DEF Reached
<1>1. PeersTyped
  BY DEF TableRight
<1>2. PICK o \in Range(table) : StandsFor(o, h) /\ InTime(o)
  BY DEF Reached
<1>3. o \in DOMAIN peer /\ o \in Ids /\ peer[o].age \in Nat /\ UNCHANGED <<prober, up, found>>
  <2>1. UNCHANGED <<prober, up, found>>
    BY <1>1, BeaconGoes
  <2>2. o \in DOMAIN peer
    BY <1>1, InTable
  <2> QED BY <1>1, <2>1, <2>2, EntryTyped
<1>4. o \in Range(table') /\ peer'[o].id = peer[o].id /\ peer'[o].age \in {peer[o].age, 0}
  <2>1. CASE /\ \A q \in Range(table) : peer[q].id # g
             /\ peer' = [q \in DOMAIN peer \cup {g} |->
                            IF q = g THEN [id |-> g, age |-> 0] ELSE peer[q]]
             /\ table' = Append(table, g)
    <3>1. o # g
      BY <1>1, <1>2, <1>3, <2>1, EntryTyped, PeerIds
    <3>2. peer'[o] = peer[o]
      BY <1>3, <2>1, <3>1
    <3>3. table \in Seq(DOMAIN peer \cup {g})
      BY <1>1, ListsGrow DEF PeersTyped
    <3>4. o \in Range(table')
      BY <1>2, <2>1, <3>3, Appended
    <3> QED BY <3>2, <3>4
  <2>2. CASE /\ peer' = [q \in DOMAIN peer |->
                            IF q \in Range(table) /\ peer[q].id = g
                            THEN [id |-> peer[q].id, age |-> 0] ELSE peer[q]]
             /\ UNCHANGED table
    BY <1>2, <1>3, <2>2
  <2> QED BY <1>1, <2>1, <2>2, BeaconGoes
<1>5. StandsFor(o, h)'
  BY <1>2, <1>3, <1>4 DEF StandsFor, Answered
<1>6. InTime(o)'
  <2>1. CASE prober.at = "wait"
    <3>1. prober.left \in 0 .. ProbeInterval
      BY <1>1, <2>1, ProberKinds
    <3> QED BY <1>2, <1>3, <1>4, <2>1, <3>1, Timings, HostsFinite DEF InTime
  <2>2. CASE prober.at = "sweep"
    <3>1. prober.todo \in Todos /\ prober.elapsed \in Nat
      BY <1>1, <2>2, ProberKinds
    <3>2. Late(o, prober.todo) \in Nat
      BY <1>1, <3>1, LateTyped
    <3> QED BY <1>2, <1>3, <1>4, <2>2, <3>1, <3>2 DEF InTime
  <2>3. CASE prober.at = "promote"
    <3>1. Late(o, Tail(prober.todo)) \in Nat
      BY <1>1, <2>3, PromoteOf, LateTyped
    <3> QED BY <1>2, <1>3, <1>4, <2>3, <3>1 DEF InTime
  <2> QED BY <1>1, <2>1, <2>2, <2>3, ProberKinds
<1> QED BY <1>4, <1>5, <1>6

LEMMA ReachedTick ==
  ASSUME TableRight, Reached, Tick
  PROVE  Reached'
<1>1. PeersTyped
  BY DEF TableRight
<1>2. UNCHANGED <<table, up, found>>
  BY <1>1, TickGoes
<1> SUFFICES ASSUME NEW h \in found \ Flaky
             PROVE  \E o \in Range(table) : StandsFor(o, h)' /\ InTime(o)'
  BY <1>2 DEF Reached
<1>3. PICK o \in Range(table) : StandsFor(o, h) /\ InTime(o)
  BY DEF Reached
<1>4. o \in DOMAIN peer /\ peer[o].age \in Nat /\ h \in Hosts
  BY <1>1, InTable, EntryTyped DEF PeersTyped
<1>5. peer'[o].id = peer[o].id /\ peer'[o].age \in Nat /\ peer'[o].age <= peer[o].age + 1
  <2>1. peer'[o] = [id |-> peer[o].id, age |-> Older(peer[o].age)]
    BY <1>1, <1>4, TickGoes
  <2>2. Older(peer[o].age) \in Nat /\ Older(peer[o].age) <= peer[o].age + 1
    BY <1>4, PeerNumbers DEF Older
  <2> QED BY <2>1, <2>2
<1>6. CASE prober.at = "wait"
  <2>1. prober' = Waiting(prober.left - 1) /\ prober.left \in Nat
    BY <1>1, <1>6, TickGoes, ProberKinds
  <2>2. prober'.at = "wait" /\ prober'.left = prober.left - 1
    BY <2>1 DEF Waiting
  <2>3. peer[o].age <= Budget + (ProbeInterval - prober.left)
    BY <1>3, <1>6 DEF InTime
  <2>4. InTime(o)'
    BY <1>4, <1>5, <2>1, <2>2, <2>3, Timings, HostsFinite DEF InTime
  <2>5. StandsFor(o, h)'
    BY <1>3, <1>5, <1>6 DEF StandsFor, Answered
  <2> QED BY <2>4, <2>5
<1>7. CASE prober.at # "wait"
  <2>1. prober.at = "sweep"
        /\ prober' = [at |-> "sweep", todo |-> prober.todo, elapsed |-> prober.elapsed + 1]
    BY <1>1, <1>7, TickGoes
  <2>2. prober.todo \in Todos /\ prober.elapsed \in Nat /\ Late(o, prober.todo) \in Nat
    BY <1>1, <2>1, ProberKinds, LateTyped
  <2>3. prober'.at = "sweep" /\ prober'.todo = prober.todo /\ prober'.elapsed = prober.elapsed + 1
    BY <2>1
  <2>4. peer[o].age <= Late(o, prober.todo) + prober.elapsed
    BY <1>3, <2>1 DEF InTime
  <2>5. InTime(o)'
    BY <1>4, <1>5, <2>2, <2>3, <2>4 DEF InTime
  <2>6. StandsFor(o, h)'
    BY <1>3, <1>5, <2>1 DEF StandsFor, Answered
  <2> QED BY <2>5, <2>6
<1> QED BY <1>6, <1>7

LEMMA ReachedSweep ==
  ASSUME TableRight, Reached, SweepStart \/ SweepEnd
  PROVE  Reached'
<1>1. PeersTyped /\ UNCHANGED <<peer, table, up, found>>
  BY DEF TableRight, SweepStart, SweepEnd
<1> SUFFICES ASSUME NEW h \in found \ Flaky
             PROVE  \E o \in Range(table) : StandsFor(o, h)' /\ InTime(o)'
  BY <1>1 DEF Reached
<1>2. PICK o \in Range(table) : StandsFor(o, h) /\ InTime(o)
  BY DEF Reached
<1>3. peer[o].age \in Nat
  BY <1>1, InTable, EntryTyped
<1>4. CASE SweepStart
  <2>1. prober.at = "wait" /\ prober.left = 0 /\ prober'.at = "sweep" /\ prober'.todo = table
        /\ prober'.elapsed = 0
    BY <1>4 DEF SweepStart, Waiting, Sweeping
  <2>2. table \in Todos
    BY <1>1 DEF PeersTyped, Todos
  <2>3. /\ Late(o, table) = Budget + ProbeInterval + (Budget - Left(table))
        /\ Left(table) \in 0 .. Budget /\ Budget \in Nat
    BY <1>1, <2>2, LateTyped
  <2>4. peer[o].age <= Budget + (ProbeInterval - 0)
    BY <1>2, <2>1 DEF InTime
  <2>5. peer[o].age <= Late(o, table) + 0
    BY <1>3, <2>3, <2>4, PeerNumbers
  <2>6. InTime(o)'
    BY <1>1, <2>1, <2>5 DEF InTime
  <2>7. StandsFor(o, h)'
    BY <1>1, <1>2, <2>1 DEF StandsFor, Answered
  <2> QED BY <2>6, <2>7
<1>5. CASE SweepEnd
  <2>1. prober.at = "sweep" /\ prober.todo = <<>> /\ prober'.at = "wait"
        /\ prober'.left = ProbeInterval
    BY <1>5 DEF SweepEnd, Waiting
  <2>2. prober.elapsed = 0
    BY <2>1 DEF TableRight, ProbesInOrder
  <2>3. Late(o, <<>>) = Budget
    BY LeftNone, HostsFinite DEF Late, Range
  <2>4. peer[o].age <= Budget + 0
    BY <1>2, <2>1, <2>2, <2>3 DEF InTime
  <2>5. peer[o].age <= Budget + (ProbeInterval - ProbeInterval)
    BY <2>4, PeerNumbers
  <2>6. InTime(o)'
    BY <1>1, <2>1, <2>5 DEF InTime
  <2>7. StandsFor(o, h)'
    BY <1>1, <1>2, <2>1 DEF StandsFor, Answered
  <2> QED BY <2>6, <2>7
<1> QED BY <1>4, <1>5

\* When a probe is over, an entry that was not the one probed is as late as it
\* was.
LEMMA LaterProbe ==
  ASSUME TableRight, NEW q \in Ids, Probing(q), NEW o \in DOMAIN peer, o # q, InTime(o)
  PROVE  /\ Tail(prober.todo) \in Todos
         /\ peer[o].age <= Late(o, Tail(prober.todo))
<1>1. /\ PeersTyped /\ prober.at = "sweep" /\ prober.todo \in Todos /\ prober.todo # <<>>
      /\ q = Head(prober.todo) /\ Distinct(prober.todo) /\ prober.elapsed \in 0 .. ProbeLimit
      /\ Tail(prober.todo) \in Todos
  BY ProbeOf DEF TableRight, ProbesInOrder
<1>2. peer[o].age \in Nat /\ peer[o].age <= Late(o, prober.todo) + prober.elapsed
  BY <1>1, EntryTyped DEF InTime
<1>3. Late(o, prober.todo) \in Nat
  BY <1>1, LateTyped
<1>4. Late(o, Tail(prober.todo)) = Late(o, prober.todo) + ProbeLimit
  BY <1>1, LateTail
<1> QED BY <1>1, <1>2, <1>3, <1>4, PeerNumbers

LEMMA ReachedOk ==
  ASSUME TableRight, Reached, NEW q \in Ids, ProbeOk(q)
  PROVE  Reached'
<1>1. PeersTyped
  BY DEF TableRight
<1>2. /\ Probing(q) /\ UNCHANGED <<table, up>> /\ found' = found \cup {HostOf(q)}
      /\ prober' = [at |-> "promote", todo |-> prober.todo]
      /\ peer' = [peer EXCEPT ![q] = [id |-> peer[q].id, age |-> 0]]
  BY <1>1, ProbeOkGoes
<1>3. /\ prober.at = "sweep" /\ q = Head(prober.todo) /\ q \in DOMAIN peer
      /\ Tail(prober.todo) \in Todos
  BY <1>1, <1>2, ProbeOf
<1>4. /\ prober'.at = "promote" /\ prober'.todo = prober.todo /\ Answered' = {q}
      /\ peer'[q].age = 0 /\ \A o \in DOMAIN peer : peer'[o].id = peer[o].id
      /\ \A o \in DOMAIN peer : o # q => peer'[o] = peer[o]
  BY <1>2, <1>3 DEF Answered
<1>5. InTime(q)'
  <2>1. Late(q, Tail(prober.todo)) \in Nat
    BY <1>1, <1>3, LateTyped
  <2> QED BY <1>4, <2>1 DEF InTime
<1>6. ASSUME NEW o \in Range(table), InTime(o) PROVE InTime(o)'
  <2>1. CASE o = q
    BY <1>5, <2>1
  <2>2. CASE o # q
    <3>1. o \in DOMAIN peer
      BY <1>1, InTable
    <3>2. peer[o].age <= Late(o, Tail(prober.todo))
      BY <1>2, <1>6, <2>2, <3>1, LaterProbe
    <3> QED BY <1>4, <2>2, <3>1, <3>2 DEF InTime
  <2> QED BY <2>1, <2>2
<1>7. ASSUME NEW h \in found \ Flaky
      PROVE  \E o \in Range(table) : StandsFor(o, h)' /\ InTime(o)'
  <2>1. PICK o \in Range(table) : StandsFor(o, h) /\ InTime(o)
    BY DEF Reached
  <2>2. peer[o].id = h /\ o \in DOMAIN peer
    BY <1>1, <1>3, <2>1, InTable DEF StandsFor, Answered
  <2>3. StandsFor(o, h)'
    BY <1>4, <2>2 DEF StandsFor
  <2> QED BY <1>6, <2>1, <2>3
<1>8. CASE q \in Range(table)
  <2>1. StandsFor(q, HostOf(q))'
    BY <1>4 DEF StandsFor
  <2> QED BY <1>2, <1>5, <1>7, <1>8, <2>1 DEF Reached
<1>9. CASE q \notin Range(table)
  <2>1. q \in Hosts /\ q \in Flaky \cup found
    BY <1>3, <1>9 DEF TableRight, Orphans
  <2>2. HostOf(q) \in Flaky \cup found
    BY <2>1, PeerIds
  <2> QED BY <1>2, <1>7, <2>2 DEF Reached
<1> QED BY <1>8, <1>9

LEMMA ReachedFails ==
  ASSUME TableRight, Reached, NEW q \in Ids, ProbeFails(q)
  PROVE  Reached'
<1>1. PeersTyped
  BY DEF TableRight
<1>2. /\ Probing(q) /\ HostOf(q) \in Flaky
      /\ prober' = Sweeping(Tail(prober.todo)) /\ UNCHANGED <<peer, table, up, found>>
  BY <1>1, ProbeFailsGoes DEF TableRight, ProbesInOrder
<1>3. prober.at = "sweep" /\ prober'.at = "sweep" /\ prober'.todo = Tail(prober.todo)
      /\ prober'.elapsed = 0
  BY <1>1, <1>2, ProbeOf DEF Sweeping
<1> SUFFICES ASSUME NEW h \in found \ Flaky
             PROVE  \E o \in Range(table) : StandsFor(o, h)' /\ InTime(o)'
  BY <1>2 DEF Reached
<1>4. PICK o \in Range(table) : StandsFor(o, h) /\ InTime(o)
  BY DEF Reached
<1>5. HostOf(o) = h /\ o \in DOMAIN peer /\ peer[o].age \in Nat /\ o # q
  BY <1>1, <1>2, <1>4, StandsHost DEF PeersTyped
<1>6. Tail(prober.todo) \in Todos /\ peer[o].age <= Late(o, Tail(prober.todo))
  BY <1>2, <1>4, <1>5, LaterProbe
<1>7. InTime(o)'
  <2>1. Late(o, Tail(prober.todo)) \in Nat
    BY <1>1, <1>6, LateTyped
  <2>2. peer[o].age <= Late(o, Tail(prober.todo)) + 0
    BY <1>5, <1>6, <2>1
  <2> QED BY <1>2, <1>3, <2>2 DEF InTime
<1>8. StandsFor(o, h)'
  BY <1>2, <1>3, <1>4 DEF StandsFor, Answered
<1> QED BY <1>7, <1>8

LEMMA ReachedPromote ==
  ASSUME TableRight, Reached, NEW q \in Ids, Promote(q)
  PROVE  Reached'
<1>1. PeersTyped /\ TableKeyed /\ Orphans
  BY DEF TableRight
<1>2. /\ prober.at = "promote" /\ q = Head(prober.todo) /\ q \in DOMAIN peer
      /\ prober' = Sweeping(Tail(prober.todo)) /\ UNCHANGED <<up, found>>
  BY <1>1, PromoteGoes
<1>3. /\ prober'.at = "sweep" /\ prober'.todo = Tail(prober.todo) /\ prober'.elapsed = 0
      /\ Tail(prober.todo) \in Todos /\ Answered = {q}
      /\ peer[q].age = 0
  BY <1>1, <1>2, PromoteOf DEF Sweeping, Answered, TableRight, ProbesInOrder
<1>4. ASSUME NEW o \in DOMAIN peer, InTime(o), peer'[o].age = peer[o].age PROVE InTime(o)'
  <2>1. Late(o, Tail(prober.todo)) \in Nat /\ peer[o].age \in Nat
    BY <1>1, <1>3, <1>4, LateTyped, EntryTyped
  <2>2. peer[o].age <= Late(o, Tail(prober.todo)) + 0
    BY <1>2, <1>4, <2>1 DEF InTime
  <2> QED BY <1>3, <1>4, <2>2 DEF InTime
<1>5. InTime(q)
  <2>1. Late(q, Tail(prober.todo)) \in Nat
    BY <1>1, <1>3, LateTyped
  <2> QED BY <1>2, <1>3, <2>1 DEF InTime
<1> SUFFICES ASSUME NEW h \in found \ Flaky
             PROVE  \E o \in Range(table') : StandsFor(o, h)' /\ InTime(o)'
  BY <1>2 DEF Reached
<1>6. PICK o \in Range(table) : StandsFor(o, h) /\ InTime(o)
  BY DEF Reached
<1>7. HostOf(o) = h /\ o \in DOMAIN peer /\ h \in Hosts
  BY <1>1, <1>6, StandsHost DEF PeersTyped
<1>8. CASE peer[q].id = HostOf(q) /\ UNCHANGED <<peer, table>>
  <2>1. peer[o].id = h
    BY <1>3, <1>6, <1>7, <1>8 DEF StandsFor
  <2>2. StandsFor(o, h)'
    BY <1>8, <2>1 DEF StandsFor
  <2>3. InTime(o)'
    BY <1>4, <1>6, <1>7, <1>8
  <2> QED BY <1>6, <1>8, <2>2, <2>3
<1>9. CASE /\ peer[q].id \notin Hosts /\ q \in Range(table) \ Hosts
           /\ peer' = [peer EXCEPT ![q] = [id |-> HostOf(q), age |-> peer[q].age]]
           /\ Range(table') = {x \in Range(table) : x = q \/ peer[x].id # HostOf(q)}
  <2>1. peer'[q].id = HostOf(q) /\ peer'[q].age = peer[q].age
        /\ \A x \in DOMAIN peer : x # q => peer'[x] = peer[x]
    BY <1>2, <1>9
  <2>2. CASE h = HostOf(q)
    <3>1. q \in Range(table')
      BY <1>9
    <3>2. StandsFor(q, h)'
      BY <2>1, <2>2 DEF StandsFor
    <3>3. InTime(q)'
      BY <1>2, <1>4, <1>5, <2>1
    <3> QED BY <3>1, <3>2, <3>3
  <2>3. CASE h # HostOf(q)
    <3>1. o # q /\ peer[o].id = h
      BY <1>3, <1>6, <1>7, <2>3 DEF StandsFor
    <3>2. o \in Range(table') /\ peer'[o] = peer[o]
      BY <1>6, <1>7, <1>9, <2>1, <2>3, <3>1
    <3>3. StandsFor(o, h)'
      BY <3>1, <3>2 DEF StandsFor
    <3>4. InTime(o)'
      BY <1>4, <1>6, <1>7, <3>2
    <3> QED BY <3>2, <3>3, <3>4
  <2> QED BY <2>2, <2>3
<1> QED BY <1>1, <1>8, <1>9, PromoteGoes

LEMMA ReachedStep == TableRight /\ Reached /\ [PeersNext]_pvars => Reached'
<1> SUFFICES ASSUME TableRight, Reached, [PeersNext]_pvars PROVE Reached'
  OBVIOUS
<1>1. CASE UNCHANGED pvars
  BY <1>1 DEF pvars, Reached, StandsFor, Answered, InTime
<1>2. ASSUME NEW h \in Hosts, Stop(h) \/ Start(h) PROVE Reached'
  <2>1. UNCHANGED <<peer, table, prober>> /\ found' \ Flaky = found \ Flaky
    BY <1>2 DEF Stop, Start
  <2> QED BY <2>1 DEF Reached, StandsFor, Answered, InTime
<1>3. CASE PeersNext
  BY <1>2, <1>3, ReachedBeacon, ReachedTick, ReachedSweep, ReachedOk, ReachedFails, ReachedPromote
     DEF PeersNext, ProberStep
<1> QED BY <1>1, <1>3

\* A worker that stays up and has answered is probed again within one wait and
\* four probes for each host.
THEOREM AskedAgain == PeersSpec => []ProbedInTime
<1>1. PeersInit => Reached
  BY DEF PeersInit, Reached
<1>2. PeersSpec => []Reached
  BY <1>1, ReachedStep, TableHolds, PTL DEF PeersSpec
<1>3. TableRight /\ Reached => ProbedInTime
  <2> SUFFICES ASSUME TableRight, Reached, NEW h \in found \ Flaky
               PROVE  \E i \in EntriesOf(h) :
                        peer[table[i]].age <= ProbeInterval + 4 * ProbeLimit * Cardinality(Hosts)
    BY DEF ProbedInTime
  <2>1. PeersTyped
    BY DEF TableRight
  <2>2. PICK o \in Range(table) : StandsFor(o, h) /\ InTime(o)
    BY DEF Reached
  <2>3. HostOf(o) = h /\ o \in DOMAIN peer /\ peer[o].age \in Nat
    BY <2>1, <2>2, StandsHost DEF PeersTyped
  <2>4. 4 * ProbeLimit * Cardinality(Hosts) = Budget + Budget /\ Budget \in Nat
    <3> DEFINE n == Cardinality(Hosts)
    <3>1. n \in Nat
      BY HostsFinite
    <3> HIDE DEF n
    <3>2. 4 * ProbeLimit * n = ProbeLimit * (2 * n) + ProbeLimit * (2 * n)
      BY <3>1, Timings
    <3> QED BY <3>2, HostsFinite DEF Budget, n
  <2>5. peer[o].age <= ProbeInterval + (Budget + Budget)
    <3>1. CASE prober.at = "wait"
      <4>1. prober.left \in Nat
        BY <2>1, <3>1, ProberKinds
      <4> QED BY <2>2, <2>3, <2>4, <3>1, <4>1, Timings DEF InTime
    <3>2. CASE prober.at = "sweep"
      <4> DEFINE todo == prober.todo
      <4>1. /\ todo \in Todos /\ prober.elapsed \in 0 .. ProbeLimit
            /\ prober.elapsed # 0 => todo # <<>>
            /\ Distinct(todo)
        BY <2>1, <3>2, ProberKinds DEF TableRight, ProbesInOrder
      <4>2. Left(todo) \in 0 .. Budget
            /\ (Late(o, todo) = Budget - Left(todo)
                \/ Late(o, todo) = Budget + ProbeInterval + (Budget - Left(todo)))
        BY <2>1, <4>1, LateTyped
      <4>3. prober.elapsed # 0 => Left(todo) >= ProbeLimit
        <5> SUFFICES ASSUME prober.elapsed # 0 PROVE Left(todo) >= ProbeLimit
          OBVIOUS
        <5>1. todo \in Seq(Ids) /\ todo # <<>>
          BY <2>1, <4>1, ListsGrow DEF Todos, PeersTyped
        <5>2. Left(todo) = Left(Tail(todo)) + ProbeLimit
          BY <4>1, <5>1, LeftTail
        <5>3. Left(Tail(todo)) \in Nat
          <6>1. Tail(todo) \in Seq(Ids)
            BY <5>1, Tailed
          <6>2. Left(Tail(todo)) \in 0 .. Budget
            BY <6>1, LeftTyped
          <6> HIDE DEF todo
          <6> QED BY <6>2, HostsFinite
        <5> QED BY <5>2, <5>3, Timings
      <4>4. peer[o].age <= Late(o, todo) + prober.elapsed
        BY <2>2, <3>2 DEF InTime
      <4> DEFINE k == Left(todo)
                 l == Late(o, todo)
      <4> HIDE DEF todo
      <4>5. k \in Nat /\ k <= Budget /\ l \in Int /\ l <= ProbeInterval + (Budget + Budget) - k
        <5> HIDE DEF k
        <5>1. k \in Nat /\ k <= Budget
              /\ (l = Budget - k \/ l = Budget + ProbeInterval + (Budget - k))
          BY <2>4, <4>2 DEF k
        <5> HIDE DEF l
        <5> QED BY <2>4, <5>1, Timings
      <4>6. prober.elapsed \in Nat /\ prober.elapsed <= k
        BY <4>1, <4>3, <4>5, Timings
      <4> HIDE DEF k
      <4> QED BY <2>3, <2>4, <4>4, <4>5, <4>6, Timings
    <3>3. CASE prober.at = "promote"
      <4>1. Tail(prober.todo) \in Todos
        BY <2>1, <3>3, PromoteOf
      <4> DEFINE todo == Tail(prober.todo)
      <4>2. Left(todo) \in 0 .. Budget
            /\ (Late(o, todo) = Budget - Left(todo)
                \/ Late(o, todo) = Budget + ProbeInterval + (Budget - Left(todo)))
        BY <2>1, <4>1, LateTyped
      <4>3. peer[o].age <= Late(o, todo)
        BY <2>2, <3>3 DEF InTime
      <4> HIDE DEF todo
      <4> QED BY <2>3, <2>4, <4>2, <4>3, Timings
    <3> QED BY <2>1, <3>1, <3>2, <3>3, ProberKinds
  <2>6. PICK i \in DOMAIN table : table[i] = o
    BY DEF Range
  <2>7. i \in EntriesOf(h)
    BY <2>3, <2>6 DEF EntriesOf
  <2> QED BY <2>4, <2>5, <2>6, <2>7
<1> QED BY <1>2, <1>3, TableHolds, PTL
=============================================================================
