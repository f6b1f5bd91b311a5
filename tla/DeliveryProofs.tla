--------------------------- MODULE DeliveryProofs ---------------------------
(* Proofs about what is on its way and may not get lost: the events in the  *)
(* agent's upload queue, for every queue limit, batch size, number of       *)
(* events and number of connections; and the HRIS webhooks, for any number  *)
(* of processes, receipts, dead letters and executions.                     *)
EXTENDS AgentEvents, HrisWorkers, FiniteSetTheorems, SequenceTheorems, NaturalsInduction,
        WellFoundedInduction, TLAPS

-----------------------------------------------------------------------------
(* Sequences of events: what the slices and joins of the queue contain.    *)

\* Joining two sequences joins their elements.
LEMMA ElemsConcat ==
    ASSUME NEW s \in Seq(Nat), NEW t \in Seq(Nat)
    PROVE  Elems(s \o t) = Elems(s) \cup Elems(t)
<1>1. s \o t \in Seq(Nat) /\ Len(s \o t) = Len(s) + Len(t)
  BY ConcatProperties
<1>2. \A i \in 1 .. Len(s) + Len(t) : (s \o t)[i] = IF i <= Len(s) THEN s[i] ELSE t[i - Len(s)]
  BY ConcatProperties
<1>3. ASSUME NEW i \in DOMAIN t PROVE t[i] \in Elems(s \o t)
  <2>1. i + Len(s) \in 1 .. Len(s) + Len(t) /\ (s \o t)[i + Len(s)] = t[i]
    BY <1>2, LenProperties
  <2> QED
    BY <1>1, <2>1 DEF Elems
<1>4. ASSUME NEW i \in DOMAIN s PROVE s[i] \in Elems(s \o t)
  <2>1. i \in 1 .. Len(s) + Len(t) /\ (s \o t)[i] = s[i]
    BY <1>2, LenProperties
  <2> QED
    BY <1>1, <2>1 DEF Elems
<1>5. ASSUME NEW i \in DOMAIN (s \o t) PROVE (s \o t)[i] \in Elems(s) \cup Elems(t)
  <2>1. CASE i <= Len(s)
    BY <1>1, <1>2, <2>1 DEF Elems
  <2>2. CASE i > Len(s)
    <3>1. i - Len(s) \in DOMAIN t /\ (s \o t)[i] = t[i - Len(s)]
      BY <1>1, <1>2, <2>2
    <3> QED
      BY <3>1 DEF Elems
  <2> QED
    BY <1>1, <2>1, <2>2
<1> QED
  BY <1>3, <1>4, <1>5 DEF Elems

\* The elements of a sequence of events are events.
LEMMA ElemsNat ==
    ASSUME NEW s \in Seq(Nat)
    PROVE  Elems(s) \subseteq Nat
BY ElementOfSeq, LenProperties DEF Elems

\* A join is in order exactly when both parts are and the first comes before the second.
LEMMA IncreasingConcat ==
    ASSUME NEW s \in Seq(Nat), NEW t \in Seq(Nat)
    PROVE  Increasing(s \o t) <=> Increasing(s) /\ Increasing(t) /\ Before(Elems(s), Elems(t))
<1>1. s \o t \in Seq(Nat) /\ Len(s \o t) = Len(s) + Len(t)
  BY ConcatProperties
<1>2. \A i \in 1 .. Len(s) + Len(t) : (s \o t)[i] = IF i <= Len(s) THEN s[i] ELSE t[i - Len(s)]
  BY ConcatProperties
<1>3. ASSUME Increasing(s \o t) PROVE Increasing(s) /\ Increasing(t) /\ Before(Elems(s), Elems(t))
  <2>1. ASSUME NEW i \in DOMAIN s, NEW j \in DOMAIN s, i < j PROVE s[i] < s[j]
    <3>1. i \in DOMAIN (s \o t) /\ j \in DOMAIN (s \o t)
      BY <1>1
    <3>2. (s \o t)[i] = s[i] /\ (s \o t)[j] = s[j]
      BY <1>2
    <3> QED
      BY <1>3, <2>1, <3>1, <3>2 DEF Increasing
  <2>2. ASSUME NEW i \in DOMAIN t, NEW j \in DOMAIN t, i < j PROVE t[i] < t[j]
    <3>1. i + Len(s) \in DOMAIN (s \o t) /\ j + Len(s) \in DOMAIN (s \o t) /\ i + Len(s) < j + Len(s)
      BY <1>1, <2>2
    <3>2. (s \o t)[i + Len(s)] = t[i] /\ (s \o t)[j + Len(s)] = t[j]
      BY <1>2
    <3> QED
      BY <1>3, <3>1, <3>2 DEF Increasing
  <2>3. ASSUME NEW i \in DOMAIN s, NEW j \in DOMAIN t PROVE s[i] < t[j]
    <3>1. i \in DOMAIN (s \o t) /\ j + Len(s) \in DOMAIN (s \o t) /\ i < j + Len(s)
      BY <1>1
    <3>2. (s \o t)[i] = s[i] /\ (s \o t)[j + Len(s)] = t[j]
      BY <1>2
    <3> QED
      BY <1>3, <3>1, <3>2 DEF Increasing
  <2> QED
    BY <2>1, <2>2, <2>3 DEF Increasing, Before, Elems
<1>4. ASSUME Increasing(s), Increasing(t), Before(Elems(s), Elems(t)) PROVE Increasing(s \o t)
  <2> SUFFICES ASSUME NEW i \in DOMAIN (s \o t), NEW j \in DOMAIN (s \o t), i < j
               PROVE  (s \o t)[i] < (s \o t)[j]
    BY DEF Increasing
  <2>1. CASE j <= Len(s)
    BY <1>1, <1>2, <1>4, <2>1 DEF Increasing
  <2>2. CASE i <= Len(s) /\ j > Len(s)
    <3>1. i \in DOMAIN s /\ j - Len(s) \in DOMAIN t
      BY <1>1, <2>2
    <3>2. (s \o t)[i] = s[i] /\ (s \o t)[j] = t[j - Len(s)]
      BY <1>1, <1>2, <2>2
    <3> QED
      BY <1>4, <3>1, <3>2 DEF Before, Elems
  <2>3. CASE i > Len(s)
    <3>1. i - Len(s) \in DOMAIN t /\ j - Len(s) \in DOMAIN t /\ i - Len(s) < j - Len(s)
      BY <1>1, <2>3
    <3>2. (s \o t)[i] = t[i - Len(s)] /\ (s \o t)[j] = t[j - Len(s)]
      BY <1>1, <1>2, <2>3
    <3> QED
      BY <1>4, <3>1, <3>2 DEF Increasing
  <2> QED
    BY <1>1, <2>1, <2>2, <2>3
<1> QED
  BY <1>3, <1>4

\* A queue cut after n events: the two parts are sequences and make up the whole.
LEMMA Cut ==
    ASSUME NEW s \in Seq(Nat), NEW n \in 0 .. Len(s)
    PROVE  /\ SubSeq(s, 1, n) \in Seq(Nat) /\ Len(SubSeq(s, 1, n)) = n
           /\ SubSeq(s, n + 1, Len(s)) \in Seq(Nat) /\ Len(SubSeq(s, n + 1, Len(s))) = Len(s) - n
           /\ SubSeq(s, 1, n) \o SubSeq(s, n + 1, Len(s)) = s
<1>1. Len(s) \in Nat /\ \A i \in 1 .. Len(s) : s[i] \in Nat
  BY LenProperties
<1>2. /\ SubSeq(s, 1, n) \in Seq(Nat)
      /\ Len(SubSeq(s, 1, n)) = IF 1 <= n THEN n - 1 + 1 ELSE 0
  BY <1>1, SubSeqProperties
<1>3. /\ SubSeq(s, n + 1, Len(s)) \in Seq(Nat)
      /\ Len(SubSeq(s, n + 1, Len(s))) = IF n + 1 <= Len(s) THEN Len(s) - (n + 1) + 1 ELSE 0
  BY <1>1, SubSeqProperties
<1>4. SubSeq(s, 1, n) \o SubSeq(s, n + 1, Len(s)) = SubSeq(s, 1, Len(s))
  <2>1. 1 \in 1 .. Len(s) + 1 /\ n \in 1 - 1 .. Len(s) /\ Len(s) \in n .. Len(s)
    BY <1>1
  <2> QED
    BY <2>1, ConcatAdjacentSubSeq
<1>5. SubSeq(s, 1, Len(s)) = s
  BY SubSeqFull
<1>6. Len(SubSeq(s, 1, n)) = n /\ Len(SubSeq(s, n + 1, Len(s))) = Len(s) - n
  <2> DEFINE a == Len(SubSeq(s, 1, n))
             b == Len(SubSeq(s, n + 1, Len(s)))
             l == Len(s)
  <2>1. l \in Nat /\ n \in 0 .. l /\ a = (IF 1 <= n THEN n - 1 + 1 ELSE 0)
        /\ b = (IF n + 1 <= l THEN l - (n + 1) + 1 ELSE 0)
    BY <1>1, <1>2, <1>3
  <2> HIDE DEF a, b, l
  <2>2. a = n /\ b = l - n
    BY <2>1
  <2> QED
    BY <2>2 DEF a, b, l
<1> QED
  BY <1>2, <1>3, <1>4, <1>5, <1>6

\* Appending an event.
LEMMA Appended ==
    ASSUME NEW s \in Seq(Nat), NEW e \in Nat
    PROVE  /\ Append(s, e) \in Seq(Nat) /\ Len(Append(s, e)) = Len(s) + 1
           /\ Elems(Append(s, e)) = Elems(s) \cup {e}
           /\ Increasing(s) /\ (\A x \in Elems(s) : x < e) => Increasing(Append(s, e))
<1>1. Append(s, e) = s \o <<e>> /\ Append(s, e) \in Seq(Nat) /\ Len(Append(s, e)) = Len(s) + 1
  BY AppendIsConcat, AppendProperties
<1>2. <<e>> \in Seq(Nat) /\ Elems(<<e>>) = {e} /\ Increasing(<<e>>)
  BY DEF Elems, Increasing
<1> QED
  BY <1>1, <1>2, ElemsConcat, IncreasingConcat DEF Before

\* Taking the first event off.
LEMMA Taken ==
    ASSUME NEW s \in Seq(Nat), s # <<>>
    PROVE  /\ Head(s) \in Nat /\ Tail(s) \in Seq(Nat)
           /\ Elems(s) = {Head(s)} \cup Elems(Tail(s))
           /\ Increasing(s) => Increasing(Tail(s))
<1>1. Len(s) \in Nat \ {0} /\ Head(s) \in Nat /\ Tail(s) \in Seq(Nat)
  BY EmptySeq, HeadTailProperties
<1>2. s = <<s[1]>> \o SubSeq(s, 2, Len(s))
  <2>1. SubSeq(s, 1, Len(s)) = <<s[1]>> \o SubSeq(s, 1 + 1, Len(s))
    BY <1>1, SubSeqRecursiveFirst
  <2> QED
    BY <2>1, SubSeqFull
<1>3. Head(s) = s[1] /\ Tail(s) = SubSeq(s, 2, Len(s))
  BY TailIsSubSeq
<1>4. <<Head(s)>> \in Seq(Nat) /\ Elems(<<Head(s)>>) = {Head(s)}
  BY <1>1 DEF Elems
<1>5. s = <<Head(s)>> \o Tail(s)
  BY <1>2, <1>3
<1>6. Elems(<<Head(s)>> \o Tail(s)) = {Head(s)} \cup Elems(Tail(s))
  BY <1>1, <1>4, ElemsConcat
<1>7. Increasing(<<Head(s)>> \o Tail(s)) => Increasing(Tail(s))
  BY <1>1, <1>4, IncreasingConcat
<1> QED
  BY <1>1, <1>5, <1>6, <1>7

-----------------------------------------------------------------------------
(* Types.                                                                  *)

\* Every step of the agent, the network and the cloud keeps the types.
LEMMA TypeStep == TypeOK /\ [Next]_vars => TypeOK'
<1> SUFFICES ASSUME TypeOK, [Next]_vars PROVE TypeOK'
  OBVIOUS
<1> USE AgentEventsAssumption
<1>a. <<>> \in Seq(Nat)
  OBVIOUS
<1>b. ASSUME NEW s \in Seq(Nat) PROVE Elems(s) \subseteq Nat
  BY ElemsNat
<1>c. queue \in Seq(Nat) /\ batch \in Seq(Nat) /\ Len(queue) \in Nat
  BY DEF TypeOK
<1>1. CASE QueueEvent
  <2>1. Overflow \in 0 .. Len(queue)
    BY <1>c DEF Overflow
  <2>2. /\ SubSeq(queue, Overflow + 1, Len(queue)) \in Seq(Nat)
        /\ SubSeq(queue, 1, Overflow) \in Seq(Nat)
    BY <1>c, <2>1, Cut
  <2>3. issued + 1 \in Nat
    BY DEF TypeOK
  <2>4. queue' \in Seq(Nat)
    BY <1>1, <2>2, <2>3, Appended DEF QueueEvent
  <2>5. dropped' \subseteq Nat
    BY <1>1, <1>b, <2>2 DEF QueueEvent, TypeOK
  <2>6. counter' \in Nat /\ issued' \in 0 .. MaxEvents /\ matter \in 0 .. issued'
    BY <1>1, <2>1 DEF QueueEvent, TypeOK
  <2> QED
    BY <1>1, <2>4, <2>5, <2>6 DEF QueueEvent, TypeOK, netVars
<1>2. CASE MatterStateChanged
  <2>1. issued + 1 \in Nat
    BY DEF TypeOK
  <2>2. queue' \in Seq(Nat)
    BY <1>2, <1>c, <2>1, Appended DEF MatterStateChanged
  <2>3. issued' \in 0 .. MaxEvents /\ matter' \in 0 .. issued'
    BY <1>2 DEF MatterStateChanged, TypeOK
  <2> QED
    BY <1>2, <2>2, <2>3 DEF MatterStateChanged, TypeOK, netVars
<1>3. ASSUME NEW last \in BOOLEAN, PushEvents(last) PROVE TypeOK'
  <2>1. CASE SkipEmpty(last)
    BY <1>3, <2>1 DEF PushEvents, SkipEmpty, TypeOK, netVars, histVars
  <2>2. CASE SkipBackoff(last)
    <3>1. backoff' \in 0 .. BackoffMax
      BY <2>2 DEF SkipBackoff, TypeOK
    <3> QED
      BY <1>3, <2>2, <3>1 DEF PushEvents, SkipBackoff, TypeOK, netVars, histVars
  <2>3. CASE TakeBatch
    <3>1. BatchSize \in 0 .. Len(queue)
      BY <1>c DEF BatchSize, Lesser
    <3>2. queue' \in Seq(Nat) /\ batch' \in Seq(Nat)
      BY <1>c, <2>3, <3>1, Cut DEF TakeBatch
    <3>3. backoff' \in 0 .. BackoffMax
      BY <2>3 DEF TakeBatch
    <3> QED
      BY <1>3, <2>3, <3>2, <3>3 DEF PushEvents, TakeBatch, TypeOK, netVars, histVars
  <2> QED
    BY <1>3, <2>1, <2>2, <2>3 DEF PushEvents
<1>4. CASE SendOverWebSocket
  <2>1. Elems(batch) \subseteq Nat
    BY <1>b, <1>c
  <2>2. lost' \subseteq Nat
    BY <1>4, <2>1 DEF SendOverWebSocket, TypeOK
  <2>3. wire' \in [Conns -> Seq(Nat)]
    <3>1. \A c \in Conns : wire[c] \o batch \in Seq(Nat)
      BY <1>c, ConcatProperties DEF TypeOK
    <3>2. wire' = wire \/ wire' = [wire EXCEPT ![connNo] = wire[connNo] \o batch]
      BY <1>4 DEF SendOverWebSocket
    <3> QED
      BY <3>1, <3>2 DEF TypeOK
  <2> QED
    BY <1>4, <1>a, <2>2, <2>3 DEF SendOverWebSocket, TypeOK
<1>5. CASE FallBackToHTTP
  BY <1>5 DEF FallBackToHTTP, TypeOK, netVars, histVars
<1>6. CASE HTTPAnswered
  <2>1. refused' \subseteq Nat
    BY <1>6, <1>b, <1>c DEF HTTPAnswered, TypeOK
  <2> QED
    BY <1>6, <1>a, <2>1 DEF HTTPAnswered, TypeOK, netVars
<1>7. CASE HTTPTransportError
  BY <1>7 DEF HTTPTransportError, TypeOK, netVars, histVars
<1>8. CASE PushSucceeded
  <2>1. backoff' \in 0 .. BackoffMax /\ fails' \in 0 .. MaxFails /\ counter' \in Nat
    BY <1>8 DEF PushSucceeded
  <2> QED
    BY <1>8, <2>1 DEF PushSucceeded, TypeOK, netVars
<1>9. CASE PushFailed
  <2>1. queue' \in Seq(Nat)
    BY <1>9, <1>c, ConcatProperties DEF PushFailed
  <2>2. backoff' \in 0 .. BackoffMax /\ fails' \in 0 .. MaxFails
    BY <1>9 DEF PushFailed, NextBackoff, Lesser, TypeOK
  <2> QED
    BY <1>9, <1>a, <2>1, <2>2 DEF PushFailed, TypeOK, netVars
<1>10. CASE WSConnect
  <2>1. connNo' \in 0 .. MaxConns /\ reading' \subseteq Conns
    BY <1>10 DEF WSConnect, TypeOK, Conns
  <2> QED
    BY <1>10, <2>1 DEF WSConnect, TypeOK, agentVars, histVars
<1>11. CASE WSDisconnect
  BY <1>11 DEF WSDisconnect, TypeOK, agentVars, histVars
<1>12. ASSUME NEW c \in Conns, SessionEnds(c) PROVE TypeOK'
  <2>1. Elems(wire[c]) \subseteq Nat
    BY <1>b DEF TypeOK
  <2>2. wire' \in [Conns -> Seq(Nat)]
    BY <1>12, <1>a DEF SessionEnds, TypeOK
  <2> QED
    BY <1>12, <2>1, <2>2 DEF SessionEnds, TypeOK, agentVars
<1>13. ASSUME NEW c \in Conns, CloudIngest(c) PROVE TypeOK'
  <2>1. wire[c] \in Seq(Nat) /\ wire[c] # <<>>
    BY <1>13 DEF CloudIngest, TypeOK
  <2>2. Head(wire[c]) \in Nat /\ Tail(wire[c]) \in Seq(Nat)
    BY <2>1, Taken
  <2>3. cloud' \in Seq(Nat)
    BY <1>13, <2>2, Appended DEF CloudIngest, TypeOK
  <2>4. wire' \in [Conns -> Seq(Nat)]
    BY <1>13, <2>2 DEF CloudIngest, TypeOK
  <2> QED
    BY <1>13, <2>3, <2>4 DEF CloudIngest, TypeOK, agentVars, histVars
<1>14. CASE Stop
  BY <1>14 DEF Stop, TypeOK, netVars, histVars
<1>15. CASE Exit
  <2>1. lost' \subseteq Nat
    BY <1>15, <1>b, <1>c DEF Exit, TypeOK
  <2> QED
    BY <1>15, <1>a, <2>1 DEF Exit, TypeOK
<1>16. CASE UNCHANGED vars
  BY <1>16 DEF vars, agentVars, netVars, histVars, TypeOK
<1> QED
  BY <1>1, <1>2, <1>3, <1>4, <1>5, <1>6, <1>7, <1>8, <1>9, <1>10, <1>11, <1>12, <1>13, <1>14,
     <1>15, <1>16 DEF Next

-----------------------------------------------------------------------------
(* The inductive invariant.  The properties speak of Held, the batch in    *)
(* flight in front of the queue; the two are kept apart here.              *)

Pending == Elems(batch) \cup Elems(queue)
OnWires == UNION {Elems(wire[c]) : c \in Conns}

\* A batch is out of the queue only between its critical sections.
InFlight ==
    /\ pc \notin {"send", "http", "fail"} => batch = <<>>
    /\ Len(batch) <= BatchMax

Order ==
    /\ Increasing(batch) /\ Increasing(queue) /\ Before(Elems(batch), Elems(queue))
    /\ \A c \in Conns : Increasing(wire[c]) /\ Before(Elems(wire[c]), Pending)
    /\ Before(Elems(cloud), Pending)

Accounted == 1 .. issued = Pending \cup Elems(cloud) \cup OnWires \cup dropped \cup refused \cup lost

Bounded == Len(batch) + Len(queue) <= QueueMax + BatchMax + matter

Inv == TypeOK /\ InFlight /\ Order /\ Accounted /\ Bounded

\* The empty sequence holds nothing and is in order.
LEMMA NothingHeld == /\ Elems(<<>>) = {} /\ Increasing(<<>>) /\ Len(<<>>) = 0
                     /\ \A S : Before(S, {}) /\ Before({}, S)
BY DEF Elems, Increasing, Before

\* Nothing has been appended yet.
LEMMA InvInit == Init => Inv
<1> SUFFICES ASSUME Init PROVE Inv
  OBVIOUS
<1> USE AgentEventsAssumption
<1>1. TypeOK
  <2>1. wire \in [Conns -> Seq(Nat)]
    BY DEF Init
  <2>2. queue \in Seq(Nat) /\ batch \in Seq(Nat) /\ cloud \in Seq(Nat)
    BY DEF Init
  <2>3. /\ backoff \in 0 .. BackoffMax /\ counter \in Nat /\ connNo \in 0 .. MaxConns
        /\ issued \in 0 .. MaxEvents /\ matter \in 0 .. issued /\ fails \in 0 .. MaxFails
    BY DEF Init
  <2> QED
    BY <2>1, <2>2, <2>3 DEF Init, TypeOK
<1>2. Pending = {} /\ OnWires = {} /\ Elems(cloud) = {}
  BY NothingHeld DEF Init, Pending, OnWires
<1>3. InFlight /\ Bounded
  BY NothingHeld DEF Init, InFlight, Bounded
<1>4. Order
  BY <1>2, NothingHeld DEF Init, Order
<1>5. Accounted
  BY <1>2 DEF Init, Accounted
<1> QED
  BY <1>1, <1>3, <1>4, <1>5 DEF Inv

\* A step that moves no event and leaves the histories of events alone keeps the invariant.
LEMMA NothingMoves ==
    ASSUME Inv, TypeOK', UNCHANGED <<queue, batch, wire, cloud, issued, matter, dropped, refused, lost>>,
           pc' \in {"send", "http", "fail"} \/ batch = <<>>
    PROVE  Inv'
<1>1. Pending' = Pending /\ OnWires' = OnWires
  BY DEF Pending, OnWires
<1>2. InFlight'
  BY DEF Inv, InFlight
<1>3. Order'
  BY <1>1 DEF Inv, Order
<1>4. Accounted' /\ Bounded'
  BY <1>1 DEF Inv, Accounted, Bounded
<1> QED
  BY <1>2, <1>3, <1>4 DEF Inv

\* Appending to a queue q cut from the present one, whose other elements were dropped.
LEMMA AppendStep ==
    ASSUME Inv, TypeOK', NEW front \in Seq(Nat), NEW rest \in Seq(Nat),
           queue = front \o rest, queue' = Append(rest, issued + 1), issued' = issued + 1,
           dropped' = dropped \cup Elems(front),
           UNCHANGED <<batch, pc, wire, cloud, refused, lost>>
    PROVE  InFlight' /\ Order' /\ Accounted' /\ Len(queue') = Len(rest) + 1
<1> USE AgentEventsAssumption
<1>1. Elems(queue) = Elems(front) \cup Elems(rest) /\ Increasing(rest)
  BY ElemsConcat, IncreasingConcat DEF Inv, Order
<1>2. issued + 1 \in Nat /\ issued \in Nat
  BY DEF Inv, TypeOK
<1>3. Pending \cup Elems(cloud) \cup OnWires \subseteq 1 .. issued
  BY DEF Inv, Accounted
<1>4. Elems(queue') = Elems(rest) \cup {issued + 1} /\ Len(queue') = Len(rest) + 1
  BY <1>2, Appended
<1>5. \A x \in Pending \cup Elems(cloud) \cup OnWires : x < issued + 1
  BY <1>2, <1>3
<1>6. Pending' = Elems(batch) \cup Elems(rest) \cup {issued + 1}
  BY <1>4 DEF Pending
<1>7. \A c \in Conns : Elems(wire[c]) \subseteq OnWires
  BY DEF OnWires
<1>8. Order'
  <2>1. Increasing(queue')
    BY <1>1, <1>2, <1>5, Appended DEF Pending
  <2>2. Before(Elems(batch), Elems(queue'))
    BY <1>1, <1>4, <1>5 DEF Inv, Order, Before, Pending
  <2>3. \A c \in Conns : Before(Elems(wire[c]), Pending')
    BY <1>1, <1>5, <1>6, <1>7 DEF Inv, Order, Before, Pending
  <2>4. Before(Elems(cloud), Pending')
    BY <1>1, <1>5, <1>6 DEF Inv, Order, Before, Pending
  <2> QED
    BY <2>1, <2>2, <2>3, <2>4 DEF Inv, Order
<1>9. Accounted'
  <2>1. 1 .. issued' = (1 .. issued) \cup {issued + 1}
    BY <1>2
  <2>2. OnWires' = OnWires
    BY DEF OnWires
  <2> QED
    BY <1>1, <1>6, <2>1, <2>2 DEF Inv, Accounted, Pending
<1> QED
  BY <1>4, <1>8, <1>9 DEF Inv, InFlight

\* Events that leave the batch or the agent: what is held shrinks and what left is in `lost' or
\* `refused'.
LEMMA LeaveStep ==
    ASSUME Inv, TypeOK', batch' = <<>>, queue' = queue \/ queue' = <<>>,
           refused' \cup lost' = refused \cup lost \cup (Pending \ Pending'),
           UNCHANGED <<wire, cloud, dropped, issued, matter>>
    PROVE  Inv'
<1> USE AgentEventsAssumption
<1>1. Pending' \subseteq Pending
  BY NothingHeld DEF Pending
<1>2. InFlight'
  BY NothingHeld DEF InFlight
<1>3. Order'
  <2>1. Increasing(batch') /\ Increasing(queue') /\ Before(Elems(batch'), Elems(queue'))
    BY NothingHeld DEF Inv, Order
  <2>2. \A c \in Conns : Before(Elems(wire[c]), Pending')
    BY <1>1 DEF Inv, Order, Before
  <2>3. Before(Elems(cloud), Pending')
    BY <1>1 DEF Inv, Order, Before
  <2> QED
    BY <2>1, <2>2, <2>3 DEF Inv, Order
<1>4. Accounted'
  <2>1. OnWires' = OnWires
    BY DEF OnWires
  <2> QED
    BY <1>1, <2>1 DEF Inv, Accounted
<1>5. Bounded'
  <2>1. Len(batch') = 0 /\ Len(batch) \in Nat /\ Len(queue) \in Nat
        /\ (Len(queue') = Len(queue) \/ Len(queue') = 0)
    BY NothingHeld DEF Inv, TypeOK
  <2>2. matter \in Nat
    BY DEF Inv, TypeOK
  <2> QED
    BY <2>1, <2>2 DEF Inv, Bounded
<1> QED
  BY <1>2, <1>3, <1>4, <1>5 DEF Inv

\* Every step keeps the invariant: one case per action.
LEMMA InvStep == Inv /\ [Next]_vars => Inv'
<1> SUFFICES ASSUME Inv, [Next]_vars PROVE Inv'
  OBVIOUS
<1> USE AgentEventsAssumption
<1>a. TypeOK'
  BY TypeStep DEF Inv
<1>b. /\ queue \in Seq(Nat) /\ batch \in Seq(Nat) /\ Len(queue) \in Nat /\ Len(batch) \in Nat
      /\ matter \in Nat /\ Len(batch) <= BatchMax
  BY DEF Inv, TypeOK, InFlight
<1>1. CASE QueueEvent
  <2> DEFINE front == SubSeq(queue, 1, Overflow)
             rest == SubSeq(queue, Overflow + 1, Len(queue))
  <2>1. Overflow \in 0 .. Len(queue) /\ Len(queue) - Overflow + 1 <= QueueMax
    BY <1>b DEF Overflow
  <2>2. /\ front \in Seq(Nat) /\ rest \in Seq(Nat) /\ queue = front \o rest
        /\ Len(rest) = Len(queue) - Overflow
    BY <1>b, <2>1, Cut
  <2>3. /\ queue' = Append(rest, issued + 1) /\ issued' = issued + 1
        /\ dropped' = dropped \cup Elems(front)
        /\ UNCHANGED <<batch, pc, wire, cloud, refused, lost, matter>>
    BY <1>1 DEF QueueEvent, netVars
  <2> HIDE DEF front, rest
  <2>4. InFlight' /\ Order' /\ Accounted' /\ Len(queue') = Len(rest) + 1
    BY <1>a, <2>2, <2>3, AppendStep
  <2>5. Bounded'
    BY <1>b, <2>1, <2>2, <2>3, <2>4 DEF Bounded
  <2> QED
    BY <1>a, <2>4, <2>5 DEF Inv
<1>2. CASE MatterStateChanged
  <2>1. /\ queue' = Append(queue, issued + 1) /\ issued' = issued + 1 /\ matter' = matter + 1
        /\ UNCHANGED <<batch, pc, wire, cloud, dropped, refused, lost>>
    BY <1>2 DEF MatterStateChanged, netVars
  <2>2. <<>> \in Seq(Nat) /\ queue = <<>> \o queue /\ dropped' = dropped \cup Elems(<<>>)
    BY <1>b, <2>1, ConcatEmptySeq, NothingHeld
  <2>3. InFlight' /\ Order' /\ Accounted' /\ Len(queue') = Len(queue) + 1
    BY <1>a, <1>b, <2>1, <2>2, AppendStep
  <2>4. Bounded'
    BY <1>b, <2>1, <2>3 DEF Inv, Bounded
  <2> QED
    BY <1>a, <2>3, <2>4 DEF Inv
<1>3. ASSUME NEW last \in BOOLEAN, PushEvents(last) PROVE Inv'
  <2>1. pc = "idle" /\ batch = <<>> /\ UNCHANGED <<wire, cloud, issued, matter, dropped, refused, lost>>
    BY <1>3 DEF PushEvents, Inv, InFlight, netVars, histVars
  <2>2. CASE SkipEmpty(last) \/ SkipBackoff(last)
    BY <1>a, <2>1, <2>2, NothingMoves DEF SkipEmpty, SkipBackoff
  <2>3. CASE TakeBatch
    <3>1. BatchSize \in 0 .. Len(queue) /\ BatchSize <= BatchMax
      BY <1>b DEF BatchSize, Lesser
    <3>2. /\ queue = batch' \o queue' /\ batch' \in Seq(Nat) /\ queue' \in Seq(Nat)
          /\ Len(batch') = BatchSize /\ Len(queue') = Len(queue) - BatchSize
      BY <1>b, <2>3, <3>1, Cut DEF TakeBatch
    <3>3. /\ Elems(queue) = Elems(batch') \cup Elems(queue')
          /\ Increasing(batch') /\ Increasing(queue') /\ Before(Elems(batch'), Elems(queue'))
      BY <3>2, ElemsConcat, IncreasingConcat DEF Inv, Order
    <3>4. Pending' = Pending /\ OnWires' = OnWires
      BY <2>1, <3>3, NothingHeld DEF Pending, OnWires
    <3>5. InFlight'
      BY <2>3, <3>1, <3>2 DEF TakeBatch, InFlight
    <3>6. Order' /\ Accounted'
      BY <2>1, <3>3, <3>4 DEF Inv, Order, Accounted
    <3>7. Bounded'
      BY <1>b, <2>1, <3>1, <3>2 DEF Inv, Bounded
    <3> QED
      BY <1>a, <3>5, <3>6, <3>7 DEF Inv
  <2> QED
    BY <1>3, <2>2, <2>3 DEF PushEvents
<1>4. CASE SendOverWebSocket
  <2>1. batch' = <<>> /\ UNCHANGED <<queue, cloud, dropped, refused, issued, matter>>
    BY <1>4 DEF SendOverWebSocket
  <2>2. CASE connNo \notin reading
    <3>1. lost' = lost \cup Elems(batch) /\ wire' = wire
      BY <1>4, <2>2 DEF SendOverWebSocket
    <3>2. Pending' = Elems(queue)
      BY <2>1, NothingHeld DEF Pending
    <3>3. refused' \cup lost' = refused \cup lost \cup (Pending \ Pending')
      <4>1. \A x \in Elems(batch) : x \notin Elems(queue)
        BY <1>b, ElemsNat DEF Inv, Order, Before
      <4> QED
        BY <2>1, <3>1, <3>2, <4>1 DEF Pending
    <3> QED
      BY <1>a, <2>1, <3>1, <3>3, LeaveStep
  <2>3. CASE connNo \in reading
    <3>1. /\ connNo \in Conns /\ wire[connNo] \in Seq(Nat) /\ lost' = lost
          /\ wire' = [wire EXCEPT ![connNo] = wire[connNo] \o batch]
      BY <1>4, <2>3 DEF SendOverWebSocket, Inv, TypeOK
    <3>2. /\ wire'[connNo] = wire[connNo] \o batch
          /\ \A c \in Conns \ {connNo} : wire'[c] = wire[c]
      BY <3>1 DEF Inv, TypeOK
    <3>3. Elems(wire'[connNo]) = Elems(wire[connNo]) \cup Elems(batch)
      BY <1>b, <3>1, <3>2, ElemsConcat
    <3>4. Pending' = Elems(queue) /\ Elems(batch) \cup Elems(queue) = Pending
      BY <2>1, NothingHeld DEF Pending
    <3>5. OnWires' = OnWires \cup Elems(batch)
      BY <3>1, <3>2, <3>3 DEF OnWires
    <3>6. Increasing(wire'[connNo])
      BY <1>b, <3>1, <3>2, <3>4, IncreasingConcat DEF Inv, Order, Before
    <3>7. \A c \in Conns : Increasing(wire'[c]) /\ Before(Elems(wire'[c]), Pending')
      <4> TAKE c \in Conns
      <4>1. CASE c = connNo
        BY <3>3, <3>4, <3>6, <4>1 DEF Inv, Order, Before
      <4>2. CASE c # connNo
        BY <3>2, <3>4, <4>2 DEF Inv, Order, Before
      <4> QED
        BY <4>1, <4>2
    <3>8. Order'
      <4>1. Increasing(batch') /\ Increasing(queue') /\ Before(Elems(batch'), Elems(queue'))
        BY <2>1, NothingHeld DEF Inv, Order
      <4>2. Before(Elems(cloud'), Pending')
        BY <2>1, <3>4 DEF Inv, Order, Before
      <4> QED
        BY <3>7, <4>1, <4>2 DEF Order
    <3>9. Accounted'
      BY <2>1, <3>1, <3>4, <3>5 DEF Inv, Accounted
    <3>10. InFlight' /\ Bounded'
      BY <1>b, <2>1, NothingHeld DEF Inv, InFlight, Bounded
    <3> QED
      BY <1>a, <3>8, <3>9, <3>10 DEF Inv
  <2> QED
    BY <2>2, <2>3
<1>5. CASE FallBackToHTTP
  BY <1>5, <1>a, NothingMoves DEF FallBackToHTTP, netVars, histVars
<1>6. CASE HTTPAnswered
  <2>1. /\ batch' = <<>> /\ UNCHANGED <<queue, wire, cloud, dropped, issued, matter, lost>>
        /\ refused' = refused \cup Elems(batch)
    BY <1>6 DEF HTTPAnswered, netVars
  <2>2. Pending' = Elems(queue)
    BY <2>1, NothingHeld DEF Pending
  <2>3. \A x \in Elems(batch) : x \notin Elems(queue)
    BY <1>b, ElemsNat DEF Inv, Order, Before
  <2>4. refused' \cup lost' = refused \cup lost \cup (Pending \ Pending')
    BY <2>1, <2>2, <2>3 DEF Pending
  <2> QED
    BY <1>a, <2>1, <2>4, LeaveStep
<1>7. CASE HTTPTransportError
  BY <1>7, <1>a, NothingMoves DEF HTTPTransportError, netVars, histVars
<1>8. CASE PushSucceeded
  <2>1. batch = <<>>
    BY <1>8 DEF PushSucceeded, Inv, InFlight
  <2> QED
    BY <1>8, <1>a, <2>1, NothingMoves DEF PushSucceeded, netVars
<1>9. CASE PushFailed
  <2>1. /\ queue' = batch \o queue /\ batch' = <<>>
        /\ UNCHANGED <<wire, cloud, issued, matter, dropped, refused, lost>>
    BY <1>9 DEF PushFailed, netVars
  <2>2. /\ Elems(queue') = Pending /\ Increasing(queue') /\ Len(queue') = Len(batch) + Len(queue)
    BY <1>b, <2>1, ElemsConcat, IncreasingConcat, ConcatProperties DEF Inv, Order, Pending
  <2>3. Pending' = Pending /\ OnWires' = OnWires
    BY <2>1, <2>2, NothingHeld DEF Pending, OnWires
  <2>4. Order' /\ Accounted'
    BY <2>1, <2>2, <2>3, NothingHeld DEF Inv, Order, Accounted
  <2>5. InFlight' /\ Bounded'
    BY <1>b, <2>1, <2>2, NothingHeld DEF Inv, InFlight, Bounded
  <2> QED
    BY <1>a, <2>4, <2>5 DEF Inv
<1>10. CASE WSConnect \/ WSDisconnect \/ Stop
  BY <1>10, <1>a, NothingMoves
     DEF WSConnect, WSDisconnect, Stop, agentVars, netVars, histVars, Inv, InFlight
<1>11. ASSUME NEW c \in Conns, SessionEnds(c) PROVE Inv'
  <2>1. /\ lost' = lost \cup Elems(wire[c]) /\ wire' = [wire EXCEPT ![c] = <<>>]
        /\ UNCHANGED <<queue, batch, pc, cloud, issued, matter, dropped, refused>>
    BY <1>11 DEF SessionEnds, agentVars
  <2>2. wire'[c] = <<>> /\ \A d \in Conns \ {c} : wire'[d] = wire[d]
    BY <2>1 DEF Inv, TypeOK
  <2>3. Pending' = Pending
    BY <2>1 DEF Pending
  <2>4. OnWires' \cup Elems(wire[c]) = OnWires
    BY <2>2, NothingHeld DEF OnWires
  <2>5. \A d \in Conns : Increasing(wire'[d]) /\ Before(Elems(wire'[d]), Pending')
    BY <2>2, <2>3, NothingHeld DEF Inv, Order
  <2>6. Order'
    BY <2>1, <2>3, <2>5 DEF Inv, Order
  <2>7. Accounted'
    BY <2>1, <2>3, <2>4 DEF Inv, Accounted
  <2> QED
    BY <1>a, <2>1, <2>6, <2>7 DEF Inv, InFlight, Bounded
<1>12. ASSUME NEW c \in Conns, CloudIngest(c) PROVE Inv'
  <2>1. /\ cloud' = Append(cloud, Head(wire[c])) /\ wire' = [wire EXCEPT ![c] = Tail(wire[c])]
        /\ wire[c] \in Seq(Nat) /\ wire[c] # <<>> /\ cloud \in Seq(Nat)
        /\ UNCHANGED <<queue, batch, pc, issued, matter, dropped, refused, lost>>
    BY <1>12 DEF CloudIngest, agentVars, histVars, Inv, TypeOK
  <2>2. wire'[c] = Tail(wire[c]) /\ \A d \in Conns \ {c} : wire'[d] = wire[d]
    BY <2>1 DEF Inv, TypeOK
  <2>3. /\ Head(wire[c]) \in Nat /\ Elems(wire[c]) = {Head(wire[c])} \cup Elems(wire'[c])
        /\ Increasing(wire[c]) => Increasing(wire'[c])
    BY <2>1, <2>2, Taken
  <2>4. Elems(cloud') = Elems(cloud) \cup {Head(wire[c])}
    BY <2>1, <2>3, Appended
  <2>5. Pending' = Pending
    BY <2>1 DEF Pending
  <2>6. OnWires' \cup {Head(wire[c])} = OnWires
    BY <2>2, <2>3 DEF OnWires
  <2>7. \A d \in Conns : Increasing(wire'[d]) /\ Before(Elems(wire'[d]), Pending')
    <3> TAKE d \in Conns
    <3>1. CASE d = c
      BY <2>3, <2>5, <3>1 DEF Inv, Order, Before
    <3>2. CASE d # c
      BY <2>2, <2>5, <3>2 DEF Inv, Order
    <3> QED
      BY <3>1, <3>2
  <2>8. Before(Elems(cloud'), Pending')
    BY <2>3, <2>4, <2>5 DEF Inv, Order, Before
  <2>9. Order'
    BY <2>1, <2>7, <2>8 DEF Inv, Order
  <2>10. Accounted'
    BY <2>1, <2>4, <2>5, <2>6 DEF Inv, Accounted
  <2> QED
    BY <1>a, <2>1, <2>9, <2>10 DEF Inv, InFlight, Bounded
<1>13. CASE Exit
  <2>1. /\ batch' = <<>> /\ queue' = <<>> /\ lost' = lost \cup Elems(batch) \cup Elems(queue)
        /\ UNCHANGED <<wire, cloud, dropped, issued, matter, refused>>
    BY <1>13 DEF Exit
  <2>2. Pending' = {}
    BY <2>1, NothingHeld DEF Pending
  <2>3. refused' \cup lost' = refused \cup lost \cup (Pending \ Pending')
    BY <2>1, <2>2 DEF Pending
  <2> QED
    BY <1>a, <2>1, <2>3, LeaveStep
<1>14. CASE UNCHANGED vars
  BY <1>14, <1>a, NothingMoves DEF vars, agentVars, netVars, histVars, Inv, InFlight
<1> QED
  BY <1>1, <1>2, <1>3, <1>4, <1>5, <1>6, <1>7, <1>8, <1>9, <1>10, <1>11, <1>12, <1>13, <1>14 DEF Next

\* The invariant says of Held what the properties say.
LEMMA HeldParts ==
    ASSUME Inv
    PROVE  UploadOrder /\ EveryEventAccounted /\ RetainedBound
<1>1. batch \in Seq(Nat) /\ queue \in Seq(Nat)
  BY DEF Inv, TypeOK
<1>2. Elems(Held) = Pending /\ Len(Held) = Len(batch) + Len(queue)
  BY <1>1, ElemsConcat, ConcatProperties DEF Held, Pending
<1>3. Increasing(Held)
  BY <1>1, IncreasingConcat DEF Held, Inv, Order
<1>4. UploadOrder
  BY <1>2, <1>3 DEF UploadOrder, Inv, Order
<1>5. EveryEventAccounted
  <2>1. 1 .. issued = Elems(Held) \cup Elems(cloud) \cup OnWires \cup dropped \cup refused \cup lost
    BY <1>2 DEF Inv, Accounted
  <2> QED
    BY <2>1 DEF EveryEventAccounted, OnWires
<1>6. RetainedBound
  BY <1>2 DEF RetainedBound, Inv, Bounded
<1> QED
  BY <1>4, <1>5, <1>6

-----------------------------------------------------------------------------
(* The theorems.                                                           *)

\* The invariant holds in every reachable state.
LEMMA AlwaysInv == Spec => []Inv
BY InvInit, InvStep, PTL DEF Spec

\* Whatever the limits, batch sizes and failures, and however readers, the push goroutine, the
\* WebSocket and the sessions of the cloud interleave (queueEvent, pushEvents, SendEvents,
\* gatewayWebSocket): events leave the agent in the order they happened, and a batch that is put
\* back neither overtakes nor repeats what was sent.
THEOREM UploadsInOrder == Spec => []UploadOrder
<1>1. Inv => UploadOrder
  BY HeldParts
<1> QED
  BY <1>1, AlwaysInv, PTL

\* Every event ever appended is held, on a wire, ingested, dropped by the ring buffer, answered
\* over HTTP or gone with a connection or the process: pushEvents mislays none between the critical
\* sections in which it takes a batch and puts it back.
THEOREM NoEventMislaid == Spec => []EveryEventAccounted
<1>1. Inv => EveryEventAccounted
  BY HeldParts
<1> QED
  BY <1>1, AlwaysInv, PTL

\* The memory of the upload queue, batch in flight included, never exceeds the queue limit by more
\* than one batch and what the Matter callback appended past the limit.
THEOREM QueueBounded == Spec => []RetainedBound
<1>1. Inv => RetainedBound
  BY HeldParts
<1> QED
  BY <1>1, AlwaysInv, PTL

-----------------------------------------------------------------------------
(* HRIS webhooks: HrisWorkers implements Inbox.                             *)
(*                                                                         *)
(* The argument is about one receipt. Either something shields it (it was   *)
(* handled, it has an open dead letter, or it has an excuse), or somebody   *)
(* can still take it up; and a process that has it knows that a failure     *)
(* now leaves it in one of these two states. Two processes that have it at  *)
(* the same time have excused it, so an unshielded receipt changes only in  *)
(* the steps of the one process that has it.                                *)

(* A process has a receipt once it claimed it, and until it reports.        *)
Waiting == {"queue", "target", "requeue", "complete", "ack"}
On(c, r) == c.r = r /\ c.pc \notin Waiting

\* What keeps a receipt from being lost for good: it was handled, it has an
\* open dead letter, or it has an excuse. (With a single attempt a receipt can be
\* lost without an excuse, so nothing is claimed of it.)
Shielded(r) == \/ handled[r] > 0 \/ OpenEntry(r) # {} \/ r \in unfiled \union overlapped
               \/ MaxAttempts = 1

\* A receipt that somebody can still take up, or that was never received.
Alive(c) == \/ c.status \in {"none", "received", "processing"}
            \/ c.status = "failed" /\ c.attempts < MaxAttempts
Unspent(c) == c.status \in {"none", "received"} => c.attempts = 0

Known(r) == r \in Receipts /\ receipts[r].status # "none"
Letter(e) == e \in Entries /\ entries[e].status # "none"
LetterOf(e, r) == Letter(e) /\ entries[e].receipt = r

ReceiptsOK == \A r \in Receipts: Unspent(receipts[r]) /\ (Shielded(r) \/ Alive(receipts[r]))

EntriesOK == \A e \in Entries: Letter(e) =>
    /\ Known(entries[e].receipt)
    /\ entries[e].status = "resolved" => handled[entries[e].receipt] > 0

ExecsOK == \A x \in Execs: executions[x].status # "none" =>
    /\ x <= lastExec
    /\ IF executions[x].kind = "receipt" THEN Known(executions[x].target) ELSE Letter(executions[x].target)

\* Two processes on one receipt are on record.
Apart == \A p, q \in Procs: \A r \in Receipts:
    p # q /\ On(procs[p], r) /\ On(procs[q], r) => r \in overlapped

\* A snapshot that a failed dispatch would write back.
ReceiptSnap(c) == /\ c.orig \in ReceiptRecs /\ c.orig.status # "none"
                  /\ Unspent(c.orig)
                  /\ Shielded(c.r) \/ Alive(c.orig)
EntrySnap(c) == /\ c.orig \in EntryRecs /\ c.orig.status # "none" /\ c.orig.receipt = c.r
                /\ c.orig.status = "resolved" => handled[c.r] > 0

\* Which receipt, dead letter and execution a process has where it is.
Holding(c) ==
    /\ c.pc \in {"idle", "tick", "due", "claim"} => c.r = 0 /\ c.e = 0
    /\ c.pc = "claim" => /\ c.x \in Execs /\ c.x <= lastExec
                         /\ executions[c.x].status # "none" => executions[c.x].kind = c.kind
    /\ c.pc = "target" => IF c.kind = "receipt" THEN c.e = 0 /\ Known(c.r) ELSE c.r = 0 /\ Letter(c.e)
    /\ c.pc \in {"queue", "create", "enqueue", "goroutine"} =>
          IF c.kind = "receipt" THEN c.e = 0 /\ Known(c.r) ELSE LetterOf(c.e, c.r) /\ Known(c.r)
    /\ c.pc \in {"start", "run", "markok", "markdlq"} => Known(c.r) /\ (c.e = 0 \/ LetterOf(c.e, c.r))
    /\ c.pc \in {"replay", "entry", "redlq"} => LetterOf(c.e, c.r) /\ Known(c.r)
    /\ c.pc \in {"queue", "create"} => IF c.kind = "receipt" THEN ReceiptSnap(c) ELSE EntrySnap(c)

\* What a process that has a receipt knows of it.
Within(c, n) == /\ receipts[c.r].status \in {"received", "processing"}
                /\ c.dlq \/ receipts[c.r].attempts + n < MaxAttempts
Knowing(c) ==
    /\ c.pc = "markok" => handled[c.r] > 0
    /\ c.pc = "entry" /\ c.ok => handled[c.r] > 0
    /\ c.pc = "markdlq" => Shielded(c.r)
    /\ c.pc = "start" => Shielded(c.r) \/ Within(c, 1)
    /\ c.pc \in {"run", "create", "enqueue", "goroutine"} => Shielded(c.r) \/ Within(c, 0)

ProcsOK == \A p \in Procs: Holding(procs[p]) /\ Knowing(procs[p])

InboxInv == HrisTypeOK /\ ReceiptsOK /\ EntriesOK /\ ExecsOK /\ Apart /\ ProcsOK

-----------------------------------------------------------------------------

\* Zero is no receipt, no dead letter and no execution.
LEMMA HrisZero == 0 \notin Receipts /\ 0 \notin Entries /\ 0 \notin Execs /\ Execs \subseteq Nat /\ Entries \subseteq Nat
<1>1. ASSUME NEW S, IsFiniteSet(S), S = 1..Cardinality(S)
      PROVE  0 \notin S /\ S \subseteq Nat
  <2>1. PICK n \in Nat: n = Cardinality(S)
    BY <1>1, FS_CardinalityType
  <2>2. S = 1..n
    BY <1>1, <2>1
  <2> QED
    BY <2>2
<1> QED
  BY <1>1, HrisFinite, HrisNoZero, HrisBounds, DlqBounds

\* Every nonempty set of naturals has a least element.
LEMMA LeastEntry ==
    ASSUME NEW T \in SUBSET Nat, T # {}
    PROVE  \E x \in T : \A y \in T : x <= y
<1>1. PICK R : IsWellFoundedOn(R, Nat) /\ \A x, y \in Nat : x < y => <<x, y>> \in R
  <2>1. \A x, y \in Nat : x < y => <<x, y>> \in OpToRel(<, Nat)
    BY DEF OpToRel
  <2> QED
    BY <2>1, NatLessThanWellFounded
<1>2. T \subseteq Nat
  OBVIOUS
<1>3. PICK x \in T : \A y \in T : ~(<<y, x>> \in R)
  <2>1. IsWellFoundedOn(R, Nat) /\ T # {}
    BY <1>1
  <2> QED
    BY <1>2, <2>1, WFMin, Zenon
<1>4. ASSUME NEW y \in T PROVE x <= y
  <2>1. ~(y < x)
    BY <1>1, <1>2, <1>3, Zenon
  <2> QED
    BY <1>2, <2>1
<1> QED
  BY <1>4

\* Two different members make a finite set of more than one.
LEMMA TwoMembers ==
    ASSUME NEW S, IsFiniteSet(S), NEW a \in S, NEW b \in S, a # b
    PROVE  Cardinality(S) > 1
<1>1. {a, b} \subseteq S
  OBVIOUS
<1>2. Cardinality({a, b}) = 2
  <2>1. Cardinality({a}) = 1 /\ IsFiniteSet({a})
    BY FS_Singleton
  <2>2. Cardinality({a} \union {b}) = Cardinality({a}) + 1
    BY <2>1, FS_AddElement
  <2>3. {a, b} = {a} \union {b}
    OBVIOUS
  <2> QED
    BY <2>1, <2>2, <2>3
<1>3. IsFiniteSet({a, b}) /\ Cardinality({a, b}) <= Cardinality(S)
  BY <1>1, FS_Subset
<1>4. Cardinality(S) \in Nat
  BY FS_CardinalityType
<1> QED
  BY <1>2, <1>3, <1>4

\* A process that moves on, and the record of two processes on one receipt.
LEMMA GotoFacts ==
    ASSUME HrisTypeOK, NEW p \in Procs, NEW d \in ProcRecs, Goto(p, d)
    PROVE  /\ procs' \in [Procs -> ProcRecs] /\ procs'[p] = d
           /\ \A q \in Procs: q # p => procs'[q] = procs[q]
           /\ overlapped' \subseteq Receipts /\ overlapped \subseteq overlapped'
           /\ \A q1, q2 \in Procs: \A s \in Receipts:
                 q1 # q2 /\ On(procs'[q1], s) /\ On(procs'[q2], s) => s \in overlapped'
<1>1. /\ procs' \in [Procs -> ProcRecs] /\ procs'[p] = d
      /\ \A q \in Procs: q # p => procs'[q] = procs[q]
  BY DEF Goto, HrisTypeOK
<1>2. overlapped' \subseteq Receipts /\ overlapped \subseteq overlapped'
  BY DEF Goto, HrisTypeOK
<1>3. ASSUME NEW q1 \in Procs, NEW q2 \in Procs, NEW s \in Receipts,
             q1 # q2, On(procs'[q1], s), On(procs'[q2], s)
      PROVE  s \in overlapped'
  <2>1. q1 \in OnReceipt(s)' /\ q2 \in OnReceipt(s)'
    BY <1>3 DEF OnReceipt, On, Waiting
  <2>2. IsFiniteSet(OnReceipt(s)')
    <3>1. OnReceipt(s)' \subseteq Procs
      BY DEF OnReceipt
    <3> QED
      BY <3>1, HrisFinite, FS_Subset
  <2>3. Cardinality(OnReceipt(s)') > 1
    BY <1>3, <2>1, <2>2, TwoMembers
  <2> QED
    BY <2>3 DEF Goto
<1> QED
  BY <1>1, <1>2, <1>3

\* A step of one process that concerns at most one receipt.
Frame(p, r) ==
    /\ \A q \in Procs: q # p => procs'[q] = procs[q]
    /\ overlapped \subseteq overlapped' /\ unfiled \subseteq unfiled'
    /\ \A q1, q2 \in Procs: \A s \in Receipts:
          q1 # q2 /\ On(procs'[q1], s) /\ On(procs'[q2], s) => s \in overlapped'
    /\ \A s \in Receipts: s # r =>
          /\ receipts'[s].status = receipts[s].status /\ receipts'[s].attempts = receipts[s].attempts
          /\ handled'[s] = handled[s]
          /\ OpenEntry(s)' = OpenEntry(s)
          /\ On(procs'[p], s) <=> On(procs[p], s)
    /\ r \in Receipts =>
          /\ Known(r) => Known(r)'
          /\ handled'[r] >= handled[r]
          /\ OpenEntry(r) # {} => OpenEntry(r)' # {} \/ handled'[r] > 0
          /\ \/ ~ Known(r) \/ On(procs[p], r) \/ On(procs'[p], r)
             \/ receipts'[r].status = receipts[r].status /\ receipts'[r].attempts = receipts[r].attempts
          /\ handled[r] = 0 /\ OpenEntry(r) = {} /\ ~ On(procs[p], r) /\ On(procs'[p], r) => Alive(receipts[r])
          /\ handled[r] = 0 /\ OpenEntry(r) = {} /\ ~ Known(r)
                => handled'[r] = 0 /\ OpenEntry(r)' = {} /\ receipts'[r].status \in {"none", "received"}
          /\ Unspent(receipts[r])' /\ (Shielded(r)' \/ Alive(receipts[r])')
    /\ \A e \in Entries: Letter(e) => Letter(e)' /\ entries'[e].receipt = entries[e].receipt
    /\ lastExec' >= lastExec
    /\ \A x \in Execs: x <= lastExec /\ executions'[x].status # "none" =>
          executions[x].status # "none" /\ executions'[x].kind = executions[x].kind

\* The rest of what a step has to show.
Good(p) ==
    /\ HrisTypeOK' /\ EntriesOK' /\ ExecsOK'
    /\ Holding(procs[p])' /\ Knowing(procs[p])'
    /\ \E r \in Receipts \union {0}: Frame(p, r)

\* What shields a receipt stays, and a bystander keeps what it has.
LEMMA ShieldStays ==
    ASSUME InboxInv, HrisTypeOK', NEW p, NEW r, Frame(p, r), NEW s \in Receipts, Shielded(s)
    PROVE  Shielded(s)'
<1>1. CASE s = r
  <2>1. handled[r] \in Nat /\ handled'[r] \in Nat /\ handled'[r] >= handled[r]
    BY <1>1 DEF InboxInv, HrisTypeOK, Frame
  <2>2. OpenEntry(r) # {} => OpenEntry(r)' # {} \/ handled'[r] > 0
    BY <1>1 DEF Frame
  <2>3. r \in unfiled \union overlapped => r \in unfiled' \union overlapped'
    BY DEF Frame
  <2> QED
    BY <1>1, <2>1, <2>2, <2>3 DEF Shielded
<1>2. CASE s # r
  <2>1. handled'[s] = handled[s] /\ OpenEntry(s)' = OpenEntry(s)
    BY <1>2 DEF Frame
  <2>2. s \in unfiled \union overlapped => s \in unfiled' \union overlapped'
    BY DEF Frame
  <2> QED
    BY <2>1, <2>2 DEF Shielded
<1> QED
  BY <1>1, <1>2

LEMMA KnownStays ==
    ASSUME NEW p, NEW r, Frame(p, r), NEW s, Known(s)
    PROVE  Known(s)'
BY DEF Frame, Known

LEMMA HandledStays ==
    ASSUME InboxInv, HrisTypeOK', NEW p, NEW r, Frame(p, r), NEW s \in Receipts, handled[s] > 0
    PROVE  handled'[s] > 0
<1>1. handled[s] \in Nat /\ handled'[s] \in Nat /\ handled'[s] >= handled[s]
  BY DEF InboxInv, HrisTypeOK, Frame
<1> QED
  BY <1>1

\* What a process has and knows it keeps, unless its receipt is changed.
LEMMA HoldingStays ==
    ASSUME InboxInv, HrisTypeOK', NEW p \in Procs, NEW r, Frame(p, r), NEW c \in ProcRecs, Holding(c)
    PROVE  Holding(c)'
<1>2. \A s: Known(s) => Known(s)'
  BY KnownStays
<1>3. \A e: Letter(e) => Letter(e)'
  BY DEF Frame, Letter
<1>4. \A e, s: LetterOf(e, s) => LetterOf(e, s)'
  BY DEF Frame, Letter, LetterOf
<1>5. c.pc = "claim" => /\ c.x \in Execs /\ c.x <= lastExec'
                        /\ executions'[c.x].status # "none" => executions'[c.x].kind = c.kind
  <2> HAVE c.pc = "claim"
  <2>1. /\ c.x \in Execs /\ c.x <= lastExec
        /\ executions[c.x].status # "none" => executions[c.x].kind = c.kind
    BY DEF Holding
  <2>2. c.x \in Nat /\ lastExec \in Nat /\ lastExec' \in Nat /\ lastExec <= lastExec'
    BY <2>1, HrisZero DEF Frame, InboxInv, HrisTypeOK
  <2> QED
    BY <2>1, <2>2 DEF Frame
<1>6. ASSUME c.pc \in {"queue", "create"}
      PROVE  IF c.kind = "receipt" THEN ReceiptSnap(c)' ELSE EntrySnap(c)'
  <2>1. Known(c.r)
    BY <1>6 DEF Holding
  <2>2. c.r \in Receipts
    BY <2>1 DEF Known
  <2>3. Shielded(c.r) => Shielded(c.r)'
    BY <2>2, ShieldStays
  <2>4. handled[c.r] > 0 => handled'[c.r] > 0
    BY <2>2, HandledStays
  <2>5. ReceiptSnap(c) => ReceiptSnap(c)'
    BY <2>3 DEF ReceiptSnap
  <2>6. EntrySnap(c) => EntrySnap(c)'
    BY <2>4 DEF EntrySnap
  <2> QED
    BY <1>6, <2>5, <2>6 DEF Holding
<1> QED
  BY <1>2, <1>3, <1>4, <1>5, <1>6 DEF Holding

LEMMA KnowingStays ==
    ASSUME InboxInv, HrisTypeOK', NEW p \in Procs, NEW r, Frame(p, r), NEW c \in ProcRecs, Holding(c), Knowing(c),
           On(c, c.r) /\ c.r \in Receipts =>
              \/ Shielded(c.r)'
              \/ receipts'[c.r].status = receipts[c.r].status /\ receipts'[c.r].attempts = receipts[c.r].attempts
    PROVE  Knowing(c)'
<1>2. SUFFICES ASSUME c.pc \in {"markok", "entry", "markdlq", "start", "run", "create", "enqueue", "goroutine"}
               PROVE  Knowing(c)'
  BY DEF Knowing
<1>3. Known(c.r) /\ c.r \in Receipts
  BY <1>2 DEF Holding, Known
<1>4. On(c, c.r)
  BY <1>2 DEF On, Waiting
<1>5. Shielded(c.r) => Shielded(c.r)'
  BY <1>3, ShieldStays
<1>6. handled[c.r] > 0 => handled'[c.r] > 0
  BY <1>3, HandledStays
<1>8. ASSUME NEW n PROVE Shielded(c.r) \/ Within(c, n) => Shielded(c.r)' \/ Within(c, n)'
  BY <1>3, <1>4, <1>5 DEF Within
<1> QED
  BY <1>2, <1>5, <1>6, <1>8 DEF Knowing

LEMMA ProcFacts ==
    ASSUME InboxInv, NEW p \in Procs
    PROVE  procs[p] \in ProcRecs /\ Holding(procs[p]) /\ Knowing(procs[p])
BY DEF InboxInv, HrisTypeOK, ProcsOK

\* Whoever has a receipt has one that was received.
LEMMA OnKnown ==
    ASSUME InboxInv, NEW p \in Procs, NEW r \in Receipts, On(procs[p], r)
    PROVE  Known(r)
<1>1. procs[p] \in ProcRecs /\ Holding(procs[p])
  BY ProcFacts
<1>2. procs[p].r # 0 /\ procs[p].pc \in Pcs \ Waiting
  BY <1>1, HrisZero DEF On, ProcRecs
<1> QED
  BY <1>1, <1>2 DEF Holding, Pcs, Waiting, On

LEMMA BystanderStays ==
    ASSUME InboxInv, HrisTypeOK', NEW p \in Procs, NEW r, Frame(p, r), NEW q \in Procs, q # p
    PROVE  Holding(procs[q])' /\ Knowing(procs[q])'
<1>0. PICK c: c = procs[q]
  OBVIOUS
<1>1. procs'[q] = c /\ Holding(c) /\ Knowing(c) /\ c \in ProcRecs
  BY <1>0 DEF Frame, InboxInv, ProcsOK, HrisTypeOK
<1>2. ASSUME c.r \in Receipts, On(c, c.r)
      PROVE  \/ Shielded(c.r)'
             \/ receipts'[c.r].status = receipts[c.r].status /\ receipts'[c.r].attempts = receipts[c.r].attempts
  <2>1. CASE On(procs'[p], c.r)
    <3>1. c.r \in overlapped'
      BY <1>1, <1>2, <2>1 DEF Frame
    <3> QED
      BY <3>1 DEF Shielded
  <2>2. CASE On(procs[p], c.r)
    <3>1. c.r \in overlapped
      BY <1>0, <1>2, <2>2 DEF InboxInv, Apart
    <3>2. Shielded(c.r)
      BY <3>1 DEF Shielded
    <3> QED
      BY <1>2, <3>2, ShieldStays
  <2>3. CASE ~ On(procs'[p], c.r) /\ ~ On(procs[p], c.r)
    <3>1. Known(c.r)
      BY <1>0, <1>2, OnKnown
    <3> QED
      BY <1>2, <2>3, <3>1 DEF Frame
  <2> QED
    BY <2>1, <2>2, <2>3
<1>3. Holding(c)'
  BY <1>1, HoldingStays
<1>4. Knowing(c)'
  BY <1>1, <1>2, KnowingStays
<1> QED
  BY <1>1, <1>3, <1>4

\* The invariant holds after a good step.
LEMMA GoodKeeps ==
    ASSUME InboxInv, NEW p \in Procs, Good(p)
    PROVE  InboxInv'
<1>1. PICK r \in Receipts \union {0}: Frame(p, r)
  BY DEF Good
<1>2. HrisTypeOK' /\ EntriesOK' /\ ExecsOK'
  BY DEF Good
<1>3. ProcsOK'
  <2>1. ASSUME NEW q \in Procs PROVE Holding(procs[q])' /\ Knowing(procs[q])'
    <3>1. CASE q = p
      BY <3>1 DEF Good
    <3>2. CASE q # p
      BY <1>1, <1>2, <3>2, BystanderStays
    <3> QED
      BY <3>1, <3>2
  <2> QED
    BY <2>1 DEF ProcsOK
<1>4. Apart'
  BY <1>1 DEF Frame, Apart
<1>5. ReceiptsOK'
  <2>1. ASSUME NEW s \in Receipts PROVE Unspent(receipts[s])' /\ (Shielded(s)' \/ Alive(receipts[s])')
    <3>1. CASE s = r
      BY <1>1, <3>1 DEF Frame
    <3>2. CASE s # r
      <4>1. receipts'[s].status = receipts[s].status /\ receipts'[s].attempts = receipts[s].attempts
        BY <1>1, <3>2 DEF Frame
      <4>2. Unspent(receipts[s]) /\ (Shielded(s) \/ Alive(receipts[s]))
        BY DEF InboxInv, ReceiptsOK
      <4>3. Shielded(s) => Shielded(s)'
        BY <1>1, <1>2, ShieldStays
      <4> QED
        BY <4>1, <4>2, <4>3 DEF Unspent, Alive
    <3> QED
      BY <3>1, <3>2
  <2> QED
    BY <2>1 DEF ReceiptsOK
<1> QED
  BY <1>2, <1>3, <1>4, <1>5 DEF InboxInv

\* InboxState, spelled out.
LEMMA InboxStates ==
    ASSUME HrisTypeOK, NEW r \in Receipts
    PROVE  /\ handled[r] > 0 <=> InboxState(r) = "done"
           /\ handled[r] = 0 /\ OpenEntry(r) # {} <=> InboxState(r) = "parked"
           /\ handled[r] = 0 /\ OpenEntry(r) = {} /\ ~ Known(r) <=> InboxState(r) = "absent"
           /\ handled[r] = 0 /\ OpenEntry(r) = {} /\ Known(r) /\ InHand(r) <=> InboxState(r) = "pending"
           /\ handled[r] = 0 /\ OpenEntry(r) = {} /\ Known(r) /\ ~ InHand(r) <=> InboxState(r) = "lost"
           /\ InboxState(r) \in {"done", "parked", "absent", "pending", "lost"}
<1>1. handled[r] \in Nat
  BY DEF HrisTypeOK
<1> QED
  BY <1>1 DEF InboxState, Known

\* The state of a receipt that a step does not concern.
LEMMA OthersStay ==
    ASSUME InboxInv, NEW p \in Procs, NEW r, Frame(p, r), NEW s \in Receipts, s # r
    PROVE  InboxState(s)' = InboxState(s)
<1>1. /\ receipts'[s].status = receipts[s].status /\ receipts'[s].attempts = receipts[s].attempts
      /\ handled'[s] = handled[s] /\ OpenEntry(s)' = OpenEntry(s)
      /\ On(procs'[p], s) <=> On(procs[p], s)
  BY DEF Frame
<1>2. \A q \in Procs: On(procs'[q], s) <=> On(procs[q], s)
  BY <1>1 DEF Frame
<1>3. OnReceipt(s)' = OnReceipt(s)
  BY <1>2 DEF OnReceipt, On, Waiting
<1>4. InHand(s)' = InHand(s)
  BY <1>1, <1>3 DEF InHand
<1> QED
  BY <1>1, <1>4 DEF InboxState

\* What becomes of the receipt it does concern: never lost without an excuse,
\* and neither a dead letter nor a lost receipt goes back to waiting.
LEMMA OwnMoves ==
    ASSUME MaxAttempts > 1, InboxInv, InboxInv', NEW p \in Procs, NEW r \in Receipts, Frame(p, r)
    PROVE  \/ InboxState(r)' = InboxState(r)
           \/ InboxState(r) = "absent" /\ InboxState(r)' = "pending"
           \/ InboxState(r) \in {"pending", "parked", "lost"} /\ InboxState(r)' = "done"
           \/ InboxState(r) \in {"pending", "lost"} /\ InboxState(r)' = "parked"
           \/ InboxState(r) = "pending" /\ InboxState(r)' = "lost" /\ r \in unfiled' \union overlapped'
<1>1. /\ Known(r) => Known(r)'
      /\ OpenEntry(r) # {} => OpenEntry(r)' # {} \/ handled'[r] > 0
      /\ handled[r] \in Nat /\ handled'[r] \in Nat /\ handled'[r] >= handled[r]
  BY DEF Frame, InboxInv, HrisTypeOK
<1>2. handled[r] = 0 /\ OpenEntry(r) = {} /\ ~ Known(r)
         => handled'[r] = 0 /\ OpenEntry(r)' = {} /\ receipts'[r].status \in {"none", "received"}
  BY DEF Frame
<1>3. ASSUME handled[r] = 0, OpenEntry(r) = {}, Known(r), ~ InHand(r), handled'[r] = 0, OpenEntry(r)' = {}
      PROVE  ~ InHand(r)'
  <2>1. ~ Alive(receipts[r]) /\ ~ On(procs[p], r) /\ \A q \in Procs: ~ On(procs[q], r)
    BY <1>3 DEF InHand, Alive, Known, OnReceipt, On, Waiting
  <2>2. ~ On(procs'[p], r)
    BY <1>3, <2>1 DEF Frame
  <2>3. receipts'[r].status = receipts[r].status /\ receipts'[r].attempts = receipts[r].attempts
    BY <1>3, <2>1, <2>2 DEF Frame
  <2>4. \A q \in Procs: ~ On(procs'[q], r)
    BY <2>1, <2>2 DEF Frame
  <2>5. OnReceipt(r)' = {}
    BY <2>4 DEF OnReceipt, On, Waiting
  <2> QED
    BY <2>1, <2>3, <2>5 DEF InHand, Alive
<1>4. ASSUME handled'[r] = 0, OpenEntry(r)' = {}, Known(r)', ~ InHand(r)'
      PROVE  r \in unfiled' \union overlapped'
  <2>1. ~ Alive(receipts[r])'
    BY <1>4 DEF InHand, Alive, Known
  <2>2. Shielded(r)'
    BY <2>1 DEF InboxInv, ReceiptsOK
  <2> QED
    BY <1>4, <2>2, HrisBounds DEF Shielded
<1>5. receipts'[r].status = "received" => InHand(r)'
  BY DEF InHand
<1>6. HrisTypeOK /\ HrisTypeOK'
  BY DEF InboxInv
<1>7. /\ handled[r] > 0 <=> InboxState(r) = "done"
      /\ handled[r] = 0 /\ OpenEntry(r) # {} <=> InboxState(r) = "parked"
      /\ handled[r] = 0 /\ OpenEntry(r) = {} /\ ~ Known(r) <=> InboxState(r) = "absent"
      /\ handled[r] = 0 /\ OpenEntry(r) = {} /\ Known(r) /\ InHand(r) <=> InboxState(r) = "pending"
      /\ handled[r] = 0 /\ OpenEntry(r) = {} /\ Known(r) /\ ~ InHand(r) <=> InboxState(r) = "lost"
      /\ InboxState(r) \in {"done", "parked", "absent", "pending", "lost"}
  BY <1>6, InboxStates
<1>8. /\ handled'[r] > 0 <=> InboxState(r)' = "done"
      /\ handled'[r] = 0 /\ OpenEntry(r)' # {} <=> InboxState(r)' = "parked"
      /\ handled'[r] = 0 /\ OpenEntry(r)' = {} /\ ~ Known(r)' <=> InboxState(r)' = "absent"
      /\ handled'[r] = 0 /\ OpenEntry(r)' = {} /\ Known(r)' /\ InHand(r)' <=> InboxState(r)' = "pending"
      /\ handled'[r] = 0 /\ OpenEntry(r)' = {} /\ Known(r)' /\ ~ InHand(r)' <=> InboxState(r)' = "lost"
      /\ InboxState(r)' \in {"done", "parked", "absent", "pending", "lost"}
  BY <1>1 DEF InboxState, Known
<1>9. receipts'[r].status = "received" \/ receipts'[r].status = "none" \/ Known(r)'
  BY DEF Known
<1> QED
  BY <1>1, <1>2, <1>3, <1>4, <1>5, <1>7, <1>8, <1>9 DEF Known

-----------------------------------------------------------------------------
\* A good step is a step of Inbox.
LEMMA GoodMoves ==
    ASSUME MaxAttempts > 1, InboxInv, InboxInv', NEW p \in Procs, Good(p)
    PROVE  Promise!Next
<1>1. PICK r \in Receipts \union {0}: Frame(p, r)
  BY DEF Good
<1> DEFINE st == [s \in Receipts |-> InboxState(s)]
<1>2. Promise!Excuse
  <2>1. /\ unfiled \subseteq unfiled' /\ overlapped \subseteq overlapped'
        /\ unfiled' \union overlapped' \subseteq Receipts
    BY <1>1 DEF Frame, InboxInv, HrisTypeOK
  <2>2. unfiled' \union overlapped' = (unfiled \union overlapped) \union (unfiled' \union overlapped')
    BY <2>1
  <2> QED
    BY <2>1, <2>2 DEF Promise!Excuse
<1>3. \A s \in Receipts: s # r => InboxState(s)' = InboxState(s)
  BY <1>1, OthersStay
<1>4. CASE r \notin Receipts \/ InboxState(r)' = InboxState(r)
  <2>1. \A s \in Receipts: InboxState(s)' = InboxState(s)
    BY <1>3, <1>4
  <2>2. st' = st
    BY <2>1
  <2> QED
    BY <1>2, <2>2 DEF Promise!Next
<1>5. CASE r \in Receipts /\ InboxState(r)' # InboxState(r)
  <2>1. st' = [st EXCEPT ![r] = InboxState(r)']
    BY <1>3, <1>5
  <2>2. \/ InboxState(r) = "absent" /\ InboxState(r)' = "pending"
        \/ InboxState(r) \in {"pending", "parked", "lost"} /\ InboxState(r)' = "done"
        \/ InboxState(r) \in {"pending", "lost"} /\ InboxState(r)' = "parked"
        \/ InboxState(r) = "pending" /\ InboxState(r)' = "lost" /\ r \in unfiled' \union overlapped'
    BY <1>1, <1>5, OwnMoves
  <2>3. st[r] = InboxState(r)
    BY <1>5
  <2>4. Promise!Accept(r) \/ Promise!Handle(r) \/ Promise!Park(r) \/ Promise!Lose(r)
    BY <2>1, <2>2, <2>3 DEF Promise!Accept, Promise!Handle, Promise!Park, Promise!Lose, Promise!Move
  <2> QED
    BY <1>2, <1>5, <2>4 DEF Promise!Next
<1> QED
  BY <1>1, <1>4, <1>5

-----------------------------------------------------------------------------
(* What an action does to each store, as far as the promise is concerned.   *)

\* The receipt r, which is known, has a new record; p has it, or claims it.
ReceiptMove(p, d, r) ==
    /\ receipts' \in [Receipts -> ReceiptRecs] /\ handled' \in [Receipts -> Nat]
    /\ \A s \in Receipts: s # r => /\ receipts'[s] = receipts[s] /\ handled'[s] = handled[s]
                                   /\ On(d, s) <=> On(procs[p], s)
    /\ unfiled \subseteq unfiled' /\ unfiled' \subseteq Receipts
    /\ r \in Receipts =>
          /\ Known(r) /\ receipts'[r].status # "none"
          /\ handled'[r] >= handled[r]
          /\ On(procs[p], r) \/ On(d, r) \/ receipts'[r] = receipts[r]
          /\ handled[r] = 0 /\ OpenEntry(r) = {} /\ ~ On(procs[p], r) /\ On(d, r) => Alive(receipts[r])
          /\ Unspent(receipts'[r]) /\ (Shielded(r)' \/ Alive(receipts'[r]))

\* At most dead letters of r change, and one is resolved only for a receipt that was handled.
EntryMove(r) ==
    /\ entries' \in [Entries -> EntryRecs]
    /\ \A e \in Entries: entries'[e] # entries[e] =>
          /\ r \in Receipts /\ entries'[e].receipt = r /\ entries'[e].status # "none"
          /\ entries[e].status = "none" \/ entries[e].receipt = r
          /\ entries'[e].status = "resolved" => handled'[r] > 0
    /\ r \in Receipts => (OpenEntry(r) # {} => OpenEntry(r)' # {} \/ handled'[r] > 0)

\* Executions change their status or are cut off; a new one has a fresh id and a target.
ExecMove ==
    /\ executions' \in [Execs -> ExecRecs]
    /\ lastExec' \in Nat /\ lastExec' >= lastExec
    /\ \A x \in Execs: executions'[x].status # "none" =>
          \/ /\ executions[x].status # "none" /\ executions'[x].kind = executions[x].kind
             /\ executions'[x].target = executions[x].target
          \/ /\ x > lastExec /\ x <= lastExec'
             /\ IF executions'[x].kind = "receipt" THEN Known(executions'[x].target) ELSE Letter(executions'[x].target)

LEMMA MovesMakeFrame ==
    ASSUME InboxInv, NEW p \in Procs, NEW d \in ProcRecs, Goto(p, d), NEW r \in Receipts \union {0},
           ReceiptMove(p, d, r), EntryMove(r), ExecMove
    PROVE  HrisTypeOK' /\ Frame(p, r) /\ procs'[p] = d
<1>1. HrisTypeOK
  BY DEF InboxInv
<1>2. /\ procs' \in [Procs -> ProcRecs] /\ procs'[p] = d
      /\ \A q \in Procs: q # p => procs'[q] = procs[q]
      /\ overlapped' \subseteq Receipts /\ overlapped \subseteq overlapped'
      /\ \A q1, q2 \in Procs: \A s \in Receipts:
            q1 # q2 /\ On(procs'[q1], s) /\ On(procs'[q2], s) => s \in overlapped'
  BY <1>1, GotoFacts
<1>3. HrisTypeOK'
  BY <1>2 DEF HrisTypeOK, ReceiptMove, EntryMove, ExecMove
<1>4. \A e \in Entries: Letter(e) => Letter(e)' /\ entries'[e].receipt = entries[e].receipt
  BY DEF EntryMove, Letter
<1>5. ASSUME NEW s \in Receipts, s # r
      PROVE  OpenEntry(s)' = OpenEntry(s)
  <2>1. ASSUME NEW e \in Entries PROVE e \in OpenEntry(s)' <=> e \in OpenEntry(s)
    <3>1. CASE entries'[e] = entries[e]
      BY <3>1 DEF OpenEntry
    <3>2. CASE entries'[e] # entries[e]
      BY <1>5, <3>2 DEF OpenEntry, EntryMove
    <3> QED
      BY <3>1, <3>2
  <2> QED
    BY <2>1 DEF OpenEntry
<1>6. \A x \in Execs: x <= lastExec /\ executions'[x].status # "none" =>
          executions[x].status # "none" /\ executions'[x].kind = executions[x].kind
  <2>1. lastExec \in Nat /\ Execs \subseteq Nat
    BY <1>1, HrisZero DEF HrisTypeOK
  <2> QED
    BY <2>1 DEF ExecMove
<1>7. ASSUME NEW s \in Receipts, s # r
      PROVE  /\ receipts'[s].status = receipts[s].status /\ receipts'[s].attempts = receipts[s].attempts
             /\ handled'[s] = handled[s]
             /\ On(procs'[p], s) <=> On(procs[p], s)
  BY <1>2, <1>7 DEF ReceiptMove
<1>8. ASSUME r \in Receipts
      PROVE  /\ Known(r) => Known(r)'
             /\ handled'[r] >= handled[r]
             /\ OpenEntry(r) # {} => OpenEntry(r)' # {} \/ handled'[r] > 0
             /\ \/ On(procs[p], r) \/ On(procs'[p], r)
                \/ receipts'[r].status = receipts[r].status /\ receipts'[r].attempts = receipts[r].attempts
             /\ handled[r] = 0 /\ OpenEntry(r) = {} /\ ~ On(procs[p], r) /\ On(procs'[p], r) => Alive(receipts[r])
             /\ handled[r] = 0 /\ OpenEntry(r) = {} /\ ~ Known(r)
                   => handled'[r] = 0 /\ OpenEntry(r)' = {} /\ receipts'[r].status \in {"none", "received"}
             /\ Unspent(receipts[r])' /\ (Shielded(r)' \/ Alive(receipts[r])')
  <2>1. /\ Known(r) /\ receipts'[r].status # "none"
        /\ handled'[r] >= handled[r]
        /\ On(procs[p], r) \/ On(d, r) \/ receipts'[r] = receipts[r]
        /\ handled[r] = 0 /\ OpenEntry(r) = {} /\ ~ On(procs[p], r) /\ On(d, r) => Alive(receipts[r])
        /\ Unspent(receipts'[r]) /\ (Shielded(r)' \/ Alive(receipts'[r]))
    BY <1>8 DEF ReceiptMove
  <2>2. OpenEntry(r) # {} => OpenEntry(r)' # {} \/ handled'[r] > 0
    BY <1>8 DEF EntryMove
  <2>3. Known(r)'
    BY <1>8, <2>1 DEF Known
  <2>4. Unspent(receipts[r])' /\ (Shielded(r)' \/ Alive(receipts[r])')
    BY <2>1 DEF Unspent, Alive
  <2> QED
    BY <1>2, <2>1, <2>2, <2>3, <2>4
<1>9. unfiled \subseteq unfiled' /\ lastExec' >= lastExec
  BY DEF ReceiptMove, ExecMove
<1>10. Frame(p, r)
  BY <1>2, <1>4, <1>5, <1>6, <1>7, <1>8, <1>9 DEF Frame
<1> QED
  BY <1>2, <1>3, <1>10

\* The step is good when its process ends where it has what it needs.
LEMMA MovesAreGood ==
    ASSUME InboxInv, NEW p \in Procs, NEW d \in ProcRecs, Goto(p, d), NEW r \in Receipts \union {0},
           ReceiptMove(p, d, r), EntryMove(r), ExecMove,
           Holding(d), Knowing(d)'
    PROVE  Good(p)
<1>1. HrisTypeOK' /\ Frame(p, r) /\ procs'[p] = d
  BY MovesMakeFrame
<1>2. Holding(d)'
  BY <1>1, HoldingStays
<1>3. \A s: Known(s) => Known(s)'
  BY <1>1, KnownStays
<1>4. \A e: Letter(e) => Letter(e)'
  BY <1>1 DEF Frame, Letter
<1>5. EntriesOK'
  <2>1. ASSUME NEW e \in Entries, Letter(e)'
        PROVE  /\ Known(entries[e].receipt)'
               /\ entries'[e].status = "resolved" => handled'[entries'[e].receipt] > 0
    <3>1. CASE entries'[e] = entries[e]
      <4>1. Letter(e)
        BY <2>1, <3>1 DEF Letter
      <4>2. Known(entries[e].receipt) /\ (entries[e].status = "resolved" => handled[entries[e].receipt] > 0)
        BY <4>1 DEF InboxInv, EntriesOK
      <4>3. PICK s: s = entries[e].receipt
        OBVIOUS
      <4>4. Known(s)' /\ s \in Receipts
        BY <1>3, <4>2, <4>3 DEF Known
      <4>5. handled[s] > 0 => handled'[s] > 0
        BY <1>1, <4>4, HandledStays
      <4> QED
        BY <3>1, <4>2, <4>3, <4>4, <4>5
    <3>2. CASE entries'[e] # entries[e]
      <4>1. r \in Receipts /\ entries'[e].receipt = r /\ (entries'[e].status = "resolved" => handled'[r] > 0)
        BY <3>2 DEF EntryMove
      <4>2. Known(r)'
        BY <1>3, <4>1 DEF ReceiptMove
      <4> QED
        BY <4>1, <4>2
    <3> QED
      BY <3>1, <3>2
  <2> QED
    BY <2>1 DEF EntriesOK
<1>6. ExecsOK'
  <2>1. ASSUME NEW x \in Execs, executions'[x].status # "none"
        PROVE  /\ x <= lastExec'
               /\ IF executions'[x].kind = "receipt" THEN Known(executions[x].target)' ELSE Letter(executions[x].target)'
    <3>0. lastExec \in Nat /\ lastExec' \in Nat /\ x \in Nat /\ lastExec' >= lastExec
      BY HrisZero DEF InboxInv, HrisTypeOK, ExecMove
    <3>1. PICK t: t = executions'[x].target
      OBVIOUS
    <3>2. CASE /\ executions[x].status # "none" /\ executions'[x].kind = executions[x].kind
               /\ executions'[x].target = executions[x].target
      <4>1. x <= lastExec /\ IF executions[x].kind = "receipt" THEN Known(t) ELSE Letter(t)
        BY <3>1, <3>2 DEF InboxInv, ExecsOK
      <4>2. IF executions[x].kind = "receipt" THEN Known(t)' ELSE Letter(t)'
        BY <1>3, <1>4, <4>1
      <4> QED
        BY <3>0, <3>1, <3>2, <4>1, <4>2
    <3>3. CASE /\ x > lastExec /\ x <= lastExec'
               /\ IF executions'[x].kind = "receipt" THEN Known(executions'[x].target) ELSE Letter(executions'[x].target)
      <4>1. IF executions'[x].kind = "receipt" THEN Known(t)' ELSE Letter(t)'
        BY <1>3, <1>4, <3>1, <3>3
      <4> QED
        BY <3>1, <3>3, <4>1
    <3> QED
      BY <2>1, <3>2, <3>3 DEF ExecMove
  <2> QED
    BY <2>1 DEF ExecsOK
<1> QED
  BY <1>1, <1>2, <1>5, <1>6 DEF Good

-----------------------------------------------------------------------------
(* Steps that leave receipts and dead letters alone.                        *)

LEMMA IdleFacts == Idle \in ProcRecs /\ Holding(Idle) /\ Knowing(Idle) /\ \A s \in Receipts: ~ On(Idle, s)
<1>1. NoReceipt \in ReceiptRecs
  BY DEF NoReceipt, ReceiptRecs, ReceiptStatus
<1>2. Idle \in ProcRecs
  BY <1>1 DEF Idle, ProcRecs, Pcs, Kinds, ExecStatus
<1> QED
  BY <1>2, HrisZero DEF Idle, Holding, Knowing, On

LEMMA IdleKnowing == Knowing(Idle)'
BY DEF Idle, Knowing

\* A dead letter of it shields a receipt.
LEMMA LetterShields ==
    ASSUME InboxInv, NEW e, NEW r, LetterOf(e, r)
    PROVE  Shielded(r)
<1>1. e \in Entries /\ entries[e] \in EntryRecs
  BY DEF LetterOf, Letter, InboxInv, HrisTypeOK
<1>2. entries[e].status \in {"dlq", "replaying", "resolved"}
  BY <1>1 DEF EntryRecs, EntryStatus, LetterOf, Letter
<1>3. entries[e].status = "resolved" => handled[r] > 0
  BY <1>1 DEF LetterOf, Letter, InboxInv, EntriesOK
<1>4. entries[e].status # "resolved" => e \in OpenEntry(r)
  BY <1>1, <1>2 DEF LetterOf, OpenEntry
<1> QED
  BY <1>3, <1>4 DEF Shielded

LEMMA ExecStill ==
    ASSUME InboxInv, UNCHANGED <<executions, lastExec>>
    PROVE  ExecMove
BY DEF InboxInv, HrisTypeOK, ExecMove

LEMMA ExecUpdate ==
    ASSUME InboxInv, NEW x, NEW st \in ExecStatus, updateHRISWebhookExecution(x, st), UNCHANGED lastExec
    PROVE  ExecMove
<1>1. executions \in [Execs -> ExecRecs] /\ lastExec \in Nat
  BY DEF InboxInv, HrisTypeOK
<1>2. ASSUME NEW y \in Execs
      PROVE  /\ executions'[y] \in ExecRecs
             /\ executions'[y].status # "none" => /\ executions[y].status # "none"
                                                  /\ executions'[y].kind = executions[y].kind
                                                  /\ executions'[y].target = executions[y].target
  <2>1. \/ executions'[y] = executions[y]
        \/ executions[y].status # "none" /\ executions'[y] = [executions[y] EXCEPT !.status = st, !.due = FALSE]
    BY <1>1 DEF updateHRISWebhookExecution
  <2> QED
    BY <1>1, <2>1 DEF ExecRecs
<1>3. executions' \in [Execs -> ExecRecs]
  <2>1. executions' = [y \in Execs |-> executions'[y]]
    BY <1>1 DEF updateHRISWebhookExecution
  <2> QED
    BY <1>2, <2>1
<1> QED
  BY <1>1, <1>2, <1>3 DEF ExecMove

LEMMA QuietGood ==
    ASSUME InboxInv, NEW p \in Procs, NEW d \in ProcRecs, Goto(p, d), NEW r \in Receipts \union {0},
           UNCHANGED <<receipts, entries, handled, unfiled>>, ExecMove,
           \A s \in Receipts: s # r => (On(d, s) <=> On(procs[p], s)),
           r \in Receipts => Known(r) /\ (On(procs[p], r) \/ Alive(receipts[r]) \/ OpenEntry(r) # {} \/ ~ On(d, r)),
           Holding(d), Knowing(d)
    PROVE  Good(p)
<1>1. HrisTypeOK /\ ReceiptsOK
  BY DEF InboxInv
<1>2. r \in Receipts => Unspent(receipts'[r]) /\ (Shielded(r)' \/ Alive(receipts'[r]))
  <2> HAVE r \in Receipts
  <2>1. Unspent(receipts[r]) /\ (Shielded(r) \/ Alive(receipts[r]))
    BY <1>1 DEF ReceiptsOK
  <2>2. overlapped \subseteq overlapped'
    BY <1>1, GotoFacts
  <2>3. Shielded(r) => Shielded(r)'
    BY <2>2 DEF Shielded, OpenEntry
  <2> QED
    BY <2>1, <2>3
<1>3. ReceiptMove(p, d, r)
  <2>1. /\ receipts' \in [Receipts -> ReceiptRecs] /\ handled' \in [Receipts -> Nat]
        /\ unfiled \subseteq unfiled' /\ unfiled' \subseteq Receipts
    BY <1>1 DEF HrisTypeOK
  <2>2. ASSUME r \in Receipts
        PROVE  /\ Known(r) /\ receipts'[r].status # "none"
               /\ handled'[r] >= handled[r]
               /\ receipts'[r] = receipts[r]
               /\ handled[r] = 0 /\ OpenEntry(r) = {} /\ ~ On(procs[p], r) /\ On(d, r) => Alive(receipts[r])
    <3>1. handled[r] \in Nat
      BY <1>1, <2>2 DEF HrisTypeOK
    <3> QED
      BY <2>2, <3>1 DEF Known
  <2> QED
    BY <1>2, <2>1, <2>2 DEF ReceiptMove
<1>4. EntryMove(r)
  BY <1>1 DEF EntryMove, HrisTypeOK, OpenEntry
<1>5. Knowing(d)'
  <2>1. HrisTypeOK' /\ Frame(p, r)
    BY <1>3, <1>4, MovesMakeFrame
  <2> QED
    BY <2>1, KnowingStays
<1> QED
  BY <1>3, <1>4, <1>5, MovesAreGood

\* The process ends, and stores nothing more.
LEMMA QuietEnd ==
    ASSUME InboxInv, NEW p \in Procs, Goto(p, Idle),
           UNCHANGED <<receipts, entries, handled, unfiled>>, ExecMove
    PROVE  Good(p)
<1>1. PICK c: c = procs[p]
  OBVIOUS
<1>2. c \in ProcRecs
  BY <1>1, ProcFacts
<1>3. \A s \in Receipts: ~ On(Idle, s)
  BY IdleFacts
<1>4. Idle \in ProcRecs /\ Holding(Idle) /\ Knowing(Idle)
  BY IdleFacts
<1>5. CASE c.r \in Receipts /\ On(c, c.r)
  <2>1. \A s \in Receipts: s # c.r => (On(Idle, s) <=> On(procs[p], s))
    BY <1>1, <1>3 DEF On
  <2>2. Known(c.r)
    BY <1>1, <1>5, OnKnown
  <2> QED
    BY <1>1, <1>3, <1>4, <1>5, <2>1, <2>2, QuietGood
<1>6. CASE ~(c.r \in Receipts /\ On(c, c.r))
  <2>1. \A s \in Receipts: ~ On(c, s)
    BY <1>6 DEF On
  <2>2. 0 \notin Receipts
    BY HrisZero
  <2> QED
    BY <1>1, <1>3, <1>4, <2>1, <2>2, QuietGood
<1> QED
  BY <1>5, <1>6

\* A step between places where the process has no receipt.
LEMMA QuietAside ==
    ASSUME InboxInv, NEW p \in Procs, NEW d \in ProcRecs, Goto(p, d),
           UNCHANGED <<receipts, entries, handled, unfiled>>, ExecMove,
           \A s \in Receipts: ~ On(d, s) /\ ~ On(procs[p], s),
           Holding(d), Knowing(d)
    PROVE  Good(p)
<1>1. 0 \notin Receipts
  BY HrisZero
<1> QED
  BY <1>1, QuietGood

LEMMA CompleteGood ==
    ASSUME InboxInv, NEW p \in Procs, CompleteExecution(p)
    PROVE  Good(p)
<1>1. PICK c: c = procs[p]
  OBVIOUS
<1>2. c \in ProcRecs /\ c.pc = "complete"
  BY <1>1, ProcFacts DEF CompleteExecution, At
<1>3. UNCHANGED <<receipts, entries, handled, unfiled, lastExec>>
  BY DEF CompleteExecution, historyVars
<1>4. ExecMove
  <2>1. \/ UNCHANGED executions
        \/ \E failed \in BOOLEAN: AcknowledgeHRISWebhookExecution(c.x, failed)
    BY <1>1 DEF CompleteExecution
  <2>2. CASE UNCHANGED executions
    BY <1>3, <2>2, ExecStill
  <2>3. ASSUME NEW failed \in BOOLEAN, AcknowledgeHRISWebhookExecution(c.x, failed) PROVE ExecMove
    <3>1. (IF failed THEN "failed" ELSE "succeeded") \in ExecStatus
      BY DEF ExecStatus
    <3> QED
      BY <1>3, <2>3, <3>1, ExecUpdate DEF AcknowledgeHRISWebhookExecution
  <2> QED
    BY <2>1, <2>2, <2>3
<1>5. CASE Goto(p, Idle)
  BY <1>3, <1>4, <1>5, QuietEnd
<1>6. CASE Goto(p, [c EXCEPT !.pc = "ack"])
  <2>1. PICK d: d = [c EXCEPT !.pc = "ack"]
    OBVIOUS
  <2>2. d \in ProcRecs /\ d.pc = "ack"
    BY <1>2, <2>1 DEF ProcRecs, Pcs
  <2>3. Holding(d) /\ Knowing(d) /\ \A s \in Receipts: ~ On(d, s) /\ ~ On(procs[p], s)
    BY <1>1, <1>2, <2>2 DEF Holding, Knowing, On, Waiting
  <2> QED
    BY <1>3, <1>4, <1>6, <2>1, <2>2, <2>3, QuietAside
<1> QED
  BY <1>1, <1>5, <1>6 DEF CompleteExecution

\* Steps that only look at queues and leases, and end.
LEMMA EndingsGood ==
    ASSUME InboxInv, NEW p \in Procs,
           AckQueue(p) \/ RequeueQueue(p) \/ TickIdle(p) \/ EnqueueExecution(p) \/ Crash(p)
    PROVE  Good(p)
<1>1. Goto(p, Idle)
  BY DEF AckQueue, RequeueQueue, TickIdle, EnqueueExecution, Crash
<1>2. UNCHANGED <<receipts, entries, handled, unfiled, executions, lastExec>>
  BY DEF AckQueue, RequeueQueue, TickIdle, EnqueueExecution, Crash, receiptVars, historyVars
<1>3. ExecMove
  BY <1>2, ExecStill
<1> QED
  BY <1>1, <1>2, <1>3, QuietEnd

LEMMA StartTickGood ==
    ASSUME InboxInv, NEW p \in Procs, NEW k \in Kinds, StartTick(p, k)
    PROVE  Good(p)
<1>1. PICK d: d = [Idle EXCEPT !.pc = "tick", !.kind = k, !.tick = TRUE]
  OBVIOUS
<1>2. Goto(p, d) /\ UNCHANGED <<receipts, entries, handled, unfiled, executions, lastExec>>
  BY <1>1 DEF StartTick, receiptVars, historyVars
<1>3. d \in ProcRecs /\ d.pc = "tick" /\ d.r = 0 /\ d.e = 0
  BY <1>1, IdleFacts DEF ProcRecs, Pcs, Idle
<1>4. procs[p] \in ProcRecs /\ Holding(procs[p]) /\ procs[p].pc = "idle"
  BY ProcFacts DEF StartTick, At
<1>5. Holding(d) /\ Knowing(d) /\ \A s \in Receipts: ~ On(d, s) /\ ~ On(procs[p], s)
  BY <1>3, <1>4, HrisZero DEF Holding, Knowing, On
<1> QED
  BY <1>2, <1>3, <1>5, ExecStill, QuietAside

LEMMA TickQueueGood ==
    ASSUME InboxInv, NEW p \in Procs, TickQueue(p)
    PROVE  Good(p)
<1>1. PICK c: c = procs[p]
  OBVIOUS
<1>2. c \in ProcRecs /\ c.pc = "tick" /\ Holding(c)
  BY <1>1, ProcFacts DEF TickQueue, At
<1>3. UNCHANGED <<receipts, entries, handled, unfiled, executions, lastExec>>
  BY DEF TickQueue, receiptVars, historyVars
<1>4. c.r = 0 /\ c.e = 0
  BY <1>2 DEF Holding
<1>5. ASSUME NEW d \in ProcRecs, Goto(p, d), d.r = 0, d.e = 0,
             \/ d.pc = "due"
             \/ d.pc = "claim" /\ d.x \in Execs /\ d.kind = c.kind /\ Candidate(c.kind, d.x)
      PROVE  Good(p)
  <2>1. d.pc = "claim" => d.x <= lastExec /\ executions[d.x].kind = d.kind
    BY <1>5 DEF Candidate, Active, InboxInv, ExecsOK
  <2>2. Holding(d) /\ Knowing(d)
    BY <1>5, <2>1 DEF Holding, Knowing
  <2>3. \A s \in Receipts: ~ On(d, s) /\ ~ On(procs[p], s)
    BY <1>1, <1>4, <1>5, HrisZero DEF On
  <2> QED
    BY <1>3, <1>5, <2>2, <2>3, ExecStill, QuietAside
<1>6. ASSUME NEW x, Candidate(c.kind, x), NEW tok \in BOOLEAN,
             Goto(p, [c EXCEPT !.pc = "claim", !.x = x, !.tok = tok, !.was = executions[x].status])
      PROVE  Good(p)
  <2>1. x \in Execs /\ executions[x] \in ExecRecs
    BY <1>6 DEF Candidate, InboxInv, HrisTypeOK
  <2>2. PICK d: d = [c EXCEPT !.pc = "claim", !.x = x, !.tok = tok, !.was = executions[x].status]
    OBVIOUS
  <2>3. d \in ProcRecs /\ d.pc = "claim" /\ d.x = x /\ d.kind = c.kind /\ d.r = 0 /\ d.e = 0
    BY <1>2, <1>4, <2>1, <2>2 DEF ProcRecs, Pcs, ExecRecs
  <2> QED
    BY <1>5, <1>6, <2>1, <2>2, <2>3
<1>7. CASE Goto(p, [c EXCEPT !.pc = "due"])
  <2>1. PICK d: d = [c EXCEPT !.pc = "due"]
    OBVIOUS
  <2>2. d \in ProcRecs /\ d.pc = "due" /\ d.r = 0 /\ d.e = 0
    BY <1>2, <1>4, <2>1 DEF ProcRecs, Pcs
  <2> QED
    BY <1>5, <1>7, <2>1, <2>2
<1>8. ASSUME NEW y \in Fallback(c.kind), Goto(p, [c EXCEPT !.pc = "claim", !.x = y, !.was = executions[y].status])
      PROVE  Good(p)
  <2>1. Candidate(c.kind, y)
    BY DEF Fallback, Indexed
  <2>2. [c EXCEPT !.pc = "claim", !.x = y, !.was = executions[y].status]
          = [c EXCEPT !.pc = "claim", !.x = y, !.tok = c.tok, !.was = executions[y].status] /\ c.tok \in BOOLEAN
    BY <1>2 DEF ProcRecs
  <2> QED
    BY <1>6, <1>8, <2>1, <2>2
<1> QED
  <2>1. PICK x: x = ClaimedItem(queues[c.kind])
    OBVIOUS
  <2>2. CASE Candidate(c.kind, x)
    BY <1>1, <1>6, <2>1, <2>2 DEF TickQueue
  <2>3. CASE ~ Candidate(c.kind, x)
    <3>1. \/ Goto(p, [c EXCEPT !.pc = "due"])
          \/ \E y \in Fallback(c.kind): Goto(p, [c EXCEPT !.pc = "claim", !.x = y, !.was = executions[y].status])
      BY <1>1, <2>1, <2>3 DEF TickQueue
    <3> QED
      BY <1>7, <1>8, <3>1
  <2> QED
    BY <2>2, <2>3

LEMMA ClaimExecutionGood ==
    ASSUME InboxInv, NEW p \in Procs, ClaimExecution(p)
    PROVE  Good(p)
<1>1. PICK c: c = procs[p]
  OBVIOUS
<1>2. c \in ProcRecs /\ c.pc = "claim" /\ Holding(c)
  BY <1>1, ProcFacts DEF ClaimExecution, At
<1>3. UNCHANGED <<receipts, entries, handled, unfiled, lastExec>>
  BY DEF ClaimExecution, historyVars
<1>4. /\ c.r = 0 /\ c.e = 0 /\ c.x \in Execs
      /\ executions[c.x].status # "none" => executions[c.x].kind = c.kind
  BY <1>2 DEF Holding
<1>5. CASE hrisWebhookExecutionClaimReason(executions[c.x], TRUE) = ""
  <2>1. executions[c.x].status \in {"queued", "running"}
    BY <1>5 DEF hrisWebhookExecutionClaimReason
  <2>2. updateHRISWebhookExecution(c.x, "running")
    BY <1>1, <1>5 DEF ClaimExecution, ClaimHRISWebhookExecution
  <2>3. ExecMove
    <3>1. "running" \in ExecStatus
      BY DEF ExecStatus
    <3> QED
      BY <1>3, <2>2, <3>1, ExecUpdate
  <2>4. PICK d: d = IF c.kind = "receipt" THEN [c EXCEPT !.pc = "target", !.r = executions[c.x].target]
                    ELSE [c EXCEPT !.pc = "target", !.e = executions[c.x].target]
    OBVIOUS
  <2>5. Goto(p, d)
    BY <1>1, <1>5, <2>4 DEF ClaimExecution
  <2>6. IF c.kind = "receipt" THEN Known(executions[c.x].target) ELSE Letter(executions[c.x].target)
    BY <1>4, <2>1 DEF InboxInv, ExecsOK
  <2>7. d \in ProcRecs /\ d.pc = "target" /\ d.kind = c.kind
    BY <1>2, <2>4, <2>6 DEF ProcRecs, Pcs, Known, Letter
  <2>8. IF d.kind = "receipt" THEN d.e = 0 /\ Known(d.r) ELSE d.r = 0 /\ Letter(d.e)
    BY <1>2, <1>4, <2>4, <2>6 DEF ProcRecs
  <2>9. Holding(d) /\ Knowing(d)
    BY <2>7, <2>8 DEF Holding, Knowing
  <2>10. \A s \in Receipts: ~ On(d, s) /\ ~ On(procs[p], s)
    BY <1>1, <1>4, <2>7, HrisZero DEF On, Waiting
  <2> QED
    BY <1>3, <2>3, <2>5, <2>7, <2>9, <2>10, QuietAside
<1>6. CASE hrisWebhookExecutionClaimReason(executions[c.x], TRUE) # ""
  <2>1. UNCHANGED executions
    BY <1>1, <1>6 DEF ClaimExecution
  <2>2. PICK d: d = [c EXCEPT !.pc = "due", !.x = 0, !.tok = FALSE, !.was = "none"]
    OBVIOUS
  <2>3. Goto(p, d)
    BY <1>1, <1>6, <2>2 DEF ClaimExecution
  <2>4. d \in ProcRecs /\ d.pc = "due" /\ d.r = 0 /\ d.e = 0
    BY <1>2, <1>4, <2>2 DEF ProcRecs, Pcs, ExecStatus
  <2>5. Holding(d) /\ Knowing(d) /\ \A s \in Receipts: ~ On(d, s) /\ ~ On(procs[p], s)
    BY <1>1, <1>4, <2>4, HrisZero DEF Holding, Knowing, On
  <2> QED
    BY <1>3, <2>1, <2>3, <2>4, <2>5, ExecStill, QuietAside
<1> QED
  BY <1>5, <1>6

LEMMA RequeueGood ==
    ASSUME InboxInv, NEW p \in Procs, procs[p].pc = "target", RequeueForFreshTarget(p),
           UNCHANGED <<receipts, entries, handled, unfiled, lastExec>>
    PROVE  Good(p)
<1>1. PICK c: c = procs[p]
  OBVIOUS
<1>2. c \in ProcRecs /\ c.pc = "target"
  BY <1>1, ProcFacts
<1>3. ExecMove
  <2>1. "queued" \in ExecStatus
    BY DEF ExecStatus
  <2> QED
    BY <2>1, ExecUpdate DEF RequeueForFreshTarget, RequeueHRISWebhookExecution
<1>4. PICK d: d = [c EXCEPT !.pc = IF executions[c.x].status = "none" THEN "ack" ELSE "requeue"]
  OBVIOUS
<1>5. Goto(p, d)
  BY <1>1, <1>4 DEF RequeueForFreshTarget
<1>6. d \in ProcRecs /\ d.pc \in {"ack", "requeue"}
  BY <1>2, <1>4 DEF ProcRecs, Pcs
<1>7. Holding(d) /\ Knowing(d) /\ \A s \in Receipts: ~ On(d, s) /\ ~ On(procs[p], s)
  BY <1>1, <1>2, <1>6 DEF Holding, Knowing, On, Waiting
<1> QED
  BY <1>3, <1>5, <1>6, <1>7, QuietAside

\* The receipt of an execution: one that was put back to "received" is started
\* again with its first attempt, which is not the last one.
LEMMA ReceiptTargetGood ==
    ASSUME InboxInv, NEW p \in Procs, ReceiptTarget(p)
    PROVE  Good(p)
<1>1. PICK c: c = procs[p]
  OBVIOUS
<1>2. c \in ProcRecs /\ c.pc = "target" /\ c.kind = "receipt" /\ Holding(c)
  BY <1>1, ProcFacts DEF ReceiptTarget, At
<1>3. UNCHANGED <<receipts, entries, handled, unfiled, lastExec>>
  BY DEF ReceiptTarget, historyVars
<1>4. c.e = 0 /\ Known(c.r) /\ c.r \in Receipts
  BY <1>2 DEF Holding, Known
<1>5. receipts[c.r] \in ReceiptRecs /\ Unspent(receipts[c.r]) /\ MaxAttempts \in Nat
  BY <1>4, HrisBounds DEF InboxInv, HrisTypeOK, ReceiptsOK
<1>6. CASE RequeueForFreshTarget(p)
  BY <1>1, <1>2, <1>3, <1>6, RequeueGood
<1>7. ASSUME NEW ok \in BOOLEAN, Goto(p, [c EXCEPT !.pc = "complete", !.was = "none", !.ok = ok]), UNCHANGED executions
      PROVE  Good(p)
  <2>1. PICK d: d = [c EXCEPT !.pc = "complete", !.was = "none", !.ok = ok]
    OBVIOUS
  <2>2. d \in ProcRecs /\ d.pc = "complete"
    BY <1>2, <2>1 DEF ProcRecs, Pcs, ExecStatus
  <2>3. Holding(d) /\ Knowing(d) /\ \A s \in Receipts: ~ On(d, s) /\ ~ On(procs[p], s)
    BY <1>1, <1>2, <2>2 DEF Holding, Knowing, On, Waiting
  <2> QED
    BY <1>3, <1>7, <2>1, <2>2, <2>3, ExecStill, QuietAside
<1>8. ASSUME NEW go, go = IF receipts[c.r].status = "processing" THEN "run" ELSE "start",
             receipts[c.r].status \notin {"processed", "skipped", "failed", "dlq"}, UNCHANGED executions,
             NEW dlq, dlq = (receipts[c.r].attempts >= MaxAttempts),
             Goto(p, [c EXCEPT !.was = "none", !.pc = go, !.dlq = dlq])
      PROVE  Good(p)
  <2>1. PICK d: d = [c EXCEPT !.was = "none", !.pc = go, !.dlq = dlq]
    OBVIOUS
  <2>2. dlq \in BOOLEAN /\ go \in {"run", "start"}
    BY <1>8
  <2>3. d \in ProcRecs /\ d.pc = go /\ d.r = c.r /\ d.e = 0 /\ d.dlq = dlq
    BY <1>2, <1>4, <2>1, <2>2 DEF ProcRecs, Pcs, ExecStatus
  <2>4. Holding(d)
    BY <1>4, <2>2, <2>3 DEF Holding
  <2>5. receipts[c.r].status \in {"received", "processing"} /\ receipts[c.r].attempts \in Nat
    BY <1>4, <1>5, <1>8 DEF ReceiptRecs, ReceiptStatus, Known
  <2>6. Within(d, 0)
    <3>1. CASE dlq
      BY <2>3, <2>5, <3>1 DEF Within
    <3>2. CASE ~ dlq
      <4>1. ~ (receipts[c.r].attempts >= MaxAttempts)
        BY <1>8, <3>2, Zenon
      <4>2. receipts[c.r].attempts + 0 < MaxAttempts
        BY <1>5, <2>5, <4>1
      <4> QED
        BY <2>3, <2>5, <4>2 DEF Within
    <3> QED
      BY <3>1, <3>2
  <2>7. go = "start" => Shielded(d.r) \/ Within(d, 1)
    <3> SUFFICES ASSUME go = "start", MaxAttempts # 1 PROVE Within(d, 1)
      BY DEF Shielded
    <3>1. receipts[c.r].status = "received"
      BY <1>8, <2>5
    <3>2. receipts[c.r].attempts = 0
      BY <1>5, <3>1 DEF Unspent
    <3> QED
      BY <1>5, <2>3, <2>5, <3>2, HrisBounds DEF Within
  <2>8. Knowing(d)
    BY <2>2, <2>3, <2>6, <2>7 DEF Knowing
  <2>9. Alive(receipts[c.r])
    BY <2>5 DEF Alive
  <2>10. \A s \in Receipts: s # c.r => (On(d, s) <=> On(procs[p], s))
    BY <1>1, <2>3 DEF On
  <2> QED
    BY <1>3, <1>4, <1>8, <2>1, <2>3, <2>4, <2>8, <2>9, <2>10, ExecStill, QuietGood
<1>9. CASE ~ RequeueForFreshTarget(p)
  <2>1. UNCHANGED executions
    BY <1>9 DEF ReceiptTarget
  <2>2. CASE receipts[c.r].status \in {"processed", "skipped"}
    <3>1. Goto(p, [c EXCEPT !.pc = "complete", !.was = "none", !.ok = TRUE])
      BY <1>1, <1>9, <2>2 DEF ReceiptTarget
    <3> QED
      BY <1>7, <2>1, <3>1
  <2>3. CASE receipts[c.r].status \in {"failed", "dlq"}
    <3>1. Goto(p, [c EXCEPT !.pc = "complete", !.was = "none", !.ok = FALSE])
      BY <1>1, <1>9, <2>3 DEF ReceiptTarget
    <3> QED
      BY <1>7, <2>1, <3>1
  <2>4. CASE receipts[c.r].status \notin {"processed", "skipped", "failed", "dlq"}
    <3>1. Goto(p, [c EXCEPT !.was = "none", !.pc = IF receipts[c.r].status = "processing" THEN "run" ELSE "start",
                            !.dlq = receipts[c.r].attempts >= MaxAttempts])
      BY <1>1, <1>9, <2>4 DEF ReceiptTarget
    <3> QED
      BY <1>8, <2>1, <2>4, <3>1
  <2> QED
    BY <2>2, <2>3, <2>4
<1> QED
  BY <1>6, <1>9

LEMMA EntryTargetGood ==
    ASSUME InboxInv, NEW p \in Procs, EntryTarget(p)
    PROVE  Good(p)
<1>1. PICK c: c = procs[p]
  OBVIOUS
<1>2. c \in ProcRecs /\ c.pc = "target" /\ c.kind = "dlq" /\ Holding(c)
  BY <1>1, ProcFacts DEF EntryTarget, At
<1>3. UNCHANGED <<receipts, entries, handled, unfiled, lastExec>>
  BY DEF EntryTarget, historyVars
<1>4. c.r = 0 /\ Letter(c.e) /\ c.e \in Entries
  BY <1>2 DEF Holding, Letter
<1>5. Known(entries[c.e].receipt)
  BY <1>4 DEF InboxInv, EntriesOK
<1>6. CASE RequeueForFreshTarget(p)
  BY <1>1, <1>2, <1>3, <1>6, RequeueGood
<1>7. CASE ~ RequeueForFreshTarget(p) /\ entries[c.e].status # "replaying"
  <2>1. PICK ok \in BOOLEAN: ok = (entries[c.e].status = "resolved")
    OBVIOUS
  <2>2. PICK d: d = [c EXCEPT !.pc = "complete", !.was = "none", !.ok = ok]
    OBVIOUS
  <2>3. Goto(p, d) /\ UNCHANGED executions
    BY <1>1, <1>7, <2>1, <2>2 DEF EntryTarget
  <2>4. d \in ProcRecs /\ d.pc = "complete"
    BY <1>2, <2>2 DEF ProcRecs, Pcs, ExecStatus
  <2>5. Holding(d) /\ Knowing(d) /\ \A s \in Receipts: ~ On(d, s) /\ ~ On(procs[p], s)
    BY <1>1, <1>2, <2>4 DEF Holding, Knowing, On, Waiting
  <2> QED
    BY <1>3, <2>3, <2>4, <2>5, ExecStill, QuietAside
<1>8. CASE ~ RequeueForFreshTarget(p) /\ entries[c.e].status = "replaying"
  <2>1. PICK r: r = entries[c.e].receipt
    OBVIOUS
  <2>2. PICK d: d = [c EXCEPT !.pc = "replay", !.was = "none", !.r = r]
    OBVIOUS
  <2>3. Goto(p, d) /\ UNCHANGED executions
    BY <1>1, <1>8, <2>1, <2>2 DEF EntryTarget
  <2>4. r \in Receipts /\ Known(r) /\ LetterOf(c.e, r)
    BY <1>4, <1>5, <2>1 DEF Known, LetterOf
  <2>5. d \in ProcRecs /\ d.pc = "replay" /\ d.r = r /\ d.e = c.e
    BY <1>2, <2>2, <2>4 DEF ProcRecs, Pcs, ExecStatus
  <2>6. c.e \in OpenEntry(r)
    BY <1>4, <1>8, <2>1 DEF OpenEntry
  <2>7. Holding(d) /\ Knowing(d)
    BY <2>4, <2>5 DEF Holding, Knowing
  <2>8. \A s \in Receipts: s # r => (On(d, s) <=> On(procs[p], s))
    BY <1>1, <1>4, <2>5, HrisZero DEF On
  <2> QED
    BY <1>3, <2>3, <2>4, <2>5, <2>6, <2>7, <2>8, ExecStill, QuietGood
<1> QED
  BY <1>6, <1>7, <1>8

LEMMA ReplayEntryGood ==
    ASSUME InboxInv, NEW p \in Procs, ReplayEntry(p)
    PROVE  Good(p)
<1>1. PICK c: c = procs[p]
  OBVIOUS
<1>2. c \in ProcRecs /\ c.pc = "replay" /\ Holding(c)
  BY <1>1, ProcFacts DEF ReplayEntry, At
<1>3. LetterOf(c.e, c.r) /\ Known(c.r) /\ c.r \in Receipts
  BY <1>2 DEF Holding, Known
<1>4. PICK d: d = [c EXCEPT !.dlq = FALSE, !.pc = IF receipts[c.r].status = "processing" THEN "run" ELSE "start"]
  OBVIOUS
<1>5. Goto(p, d) /\ UNCHANGED <<receipts, entries, handled, unfiled, executions, lastExec>>
  BY <1>1, <1>4 DEF ReplayEntry, receiptVars, historyVars
<1>6. d \in ProcRecs /\ d.pc \in {"run", "start"} /\ d.r = c.r /\ d.e = c.e
  BY <1>2, <1>4 DEF ProcRecs, Pcs
<1>7. Holding(d)
  BY <1>3, <1>6 DEF Holding
<1>8. Knowing(d)
  BY <1>3, <1>6, LetterShields DEF Knowing
<1>9. On(procs[p], c.r) /\ \A s \in Receipts: s # c.r => (On(d, s) <=> On(procs[p], s))
  BY <1>1, <1>2, <1>6 DEF On, Waiting
<1> QED
  BY <1>3, <1>5, <1>6, <1>7, <1>8, <1>9, ExecStill, QuietGood

LEMMA RunGoroutineGood ==
    ASSUME InboxInv, NEW p \in Procs, RunQueuedReceipt(p) \/ RunQueuedEntry(p)
    PROVE  Good(p)
<1>1. PICK c: c = procs[p]
  OBVIOUS
<1>2. PICK next: /\ next \in {"run", "replay"} /\ (next = "run" <=> c.kind = "receipt")
                 /\ RunGoroutine(p, c.kind, next)
  BY <1>1 DEF RunQueuedReceipt, RunQueuedEntry, RunGoroutine
<1>3. c \in ProcRecs /\ c.pc = "goroutine" /\ Holding(c) /\ Knowing(c)
  BY <1>1, <1>2, ProcFacts DEF RunGoroutine, At
<1>4. Known(c.r) /\ c.r \in Receipts /\ IF c.kind = "receipt" THEN c.e = 0 ELSE LetterOf(c.e, c.r)
  BY <1>3 DEF Holding, Known
<1>5. PICK d: d = [c EXCEPT !.pc = next]
  OBVIOUS
<1>6. Goto(p, d) /\ UNCHANGED <<receipts, entries, handled, unfiled, lastExec>>
  BY <1>1, <1>2, <1>5 DEF RunGoroutine, historyVars
<1>7. ExecMove
  <2>1. "running" \in ExecStatus
    BY DEF ExecStatus
  <2> QED
    BY <1>2, <1>6, <2>1, ExecUpdate DEF RunGoroutine, MarkHRISWebhookExecutionRunning
<1>8. d \in ProcRecs /\ d.pc = next /\ d.r = c.r /\ d.e = c.e /\ d.dlq = c.dlq
  BY <1>2, <1>3, <1>5 DEF ProcRecs, Pcs
<1>9. Holding(d)
  BY <1>2, <1>4, <1>8 DEF Holding
<1>10. Knowing(d)
  BY <1>2, <1>3, <1>8 DEF Knowing, Within
<1>11. On(procs[p], c.r) /\ \A s \in Receipts: s # c.r => (On(d, s) <=> On(procs[p], s))
  BY <1>1, <1>2, <1>3, <1>8 DEF On, Waiting
<1> QED
  BY <1>4, <1>6, <1>7, <1>8, <1>9, <1>10, <1>11, QuietGood

\* An operator's request has read a snapshot.
LEMMA QueueWorkGood ==
    ASSUME InboxInv, NEW p \in Procs, NEW k \in Kinds, NEW t, NEW src \in Execs \union {0},
           IF k = "receipt" THEN t \in Receipts ELSE t \in Entries,
           QueueWork(p, k, t, src)
    PROVE  Good(p)
<1>1. PICK r: r = IF k = "receipt" THEN t ELSE entries[t].receipt
  OBVIOUS
<1>2. PICK e: e = IF k = "receipt" THEN 0 ELSE t
  OBVIOUS
<1>3. PICK o: o = IF k = "receipt" THEN receipts[t] ELSE entries[t]
  OBVIOUS
<1>4. PICK d: d = [Idle EXCEPT !.pc = "queue", !.kind = k, !.src = src, !.r = r, !.e = e, !.orig = o]
  OBVIOUS
<1>5. Goto(p, d) /\ UNCHANGED <<receipts, entries, handled, unfiled, executions, lastExec>>
  BY <1>1, <1>2, <1>3, <1>4 DEF QueueWork, receiptVars, historyVars
<1>6. IF k = "receipt" THEN Known(r) /\ e = 0 ELSE LetterOf(e, r) /\ Known(r)
  BY <1>1, <1>2 DEF QueueWork, Known, LetterOf, Letter, InboxInv, EntriesOK
<1>7. IF k = "receipt" THEN o = receipts[r] /\ o \in ReceiptRecs ELSE o = entries[e] /\ o \in EntryRecs
  BY <1>1, <1>2, <1>3 DEF InboxInv, HrisTypeOK
<1>8. d \in ProcRecs
  <2>1. r \in Receipts /\ e \in Entries \union {0} /\ o \in ReceiptRecs \union EntryRecs
    BY <1>6, <1>7 DEF Known, LetterOf, Letter
  <2> QED
    BY <1>4, <2>1, IdleFacts DEF ProcRecs, Pcs
<1>9. d.pc = "queue" /\ d.kind = k /\ d.r = r /\ d.e = e /\ d.orig = o
  BY <1>4 DEF Idle
<1>10. IF k = "receipt" THEN ReceiptSnap(d) ELSE EntrySnap(d)
  <2>1. CASE k = "receipt"
    <3>1. r \in Receipts /\ o.status # "none" /\ Unspent(o) /\ (Shielded(r) \/ Alive(o))
      BY <1>6, <1>7, <2>1 DEF Known, InboxInv, ReceiptsOK
    <3> QED
      BY <1>7, <1>9, <2>1, <3>1 DEF ReceiptSnap
  <2>2. CASE k # "receipt"
    <3>1. o.status # "none" /\ o.receipt = r /\ (o.status = "resolved" => handled[r] > 0)
      BY <1>6, <1>7, <2>2 DEF LetterOf, Letter, InboxInv, EntriesOK
    <3> QED
      BY <1>7, <1>9, <2>2, <3>1 DEF EntrySnap
  <2> QED
    BY <2>1, <2>2
<1>11. Holding(d) /\ Knowing(d)
  BY <1>6, <1>9, <1>10 DEF Holding, Knowing
<1>12. procs[p] \in ProcRecs /\ Holding(procs[p]) /\ procs[p].pc = "idle"
  BY ProcFacts DEF QueueWork, At
<1>13. \A s \in Receipts: ~ On(d, s) /\ ~ On(procs[p], s)
  BY <1>9, <1>12, HrisZero DEF Holding, On, Waiting
<1> QED
  BY <1>5, <1>8, <1>11, <1>13, ExecStill, QuietAside

LEMMA QueueRequestsGood ==
    ASSUME InboxInv, NEW p \in Procs, QueueReceipt(p) \/ QueueEntry(p) \/ ReplayExecution(p)
    PROVE  Good(p)
<1>1. CASE QueueReceipt(p)
  <2>1. PICK r \in Receipts: QueueWork(p, "receipt", r, 0)
    BY <1>1 DEF QueueReceipt
  <2> QED
    BY <2>1, QueueWorkGood DEF Kinds
<1>2. CASE QueueEntry(p)
  <2>1. PICK e \in Entries: QueueWork(p, "dlq", e, 0)
    BY <1>2 DEF QueueEntry
  <2> QED
    BY <2>1, QueueWorkGood DEF Kinds
<1>3. CASE ReplayExecution(p)
  <2>1. PICK x \in Execs: executions[x].status = "failed" /\ QueueWork(p, executions[x].kind, executions[x].target, x)
    BY <1>3 DEF ReplayExecution
  <2>2. /\ executions[x].kind \in Kinds
        /\ IF executions[x].kind = "receipt" THEN executions[x].target \in Receipts ELSE executions[x].target \in Entries
    BY <2>1 DEF InboxInv, HrisTypeOK, ExecRecs, ExecsOK, Known, Letter
  <2> QED
    BY <2>1, <2>2, QueueWorkGood
<1> QED
  BY <1>1, <1>2, <1>3

-----------------------------------------------------------------------------
(* Steps that change a receipt, and leave the dead letters alone.           *)

\* A receipt handled once more, or not.
Counted(r) == handled' = handled \/ handled' = [handled EXCEPT ![r] = @ + 1]

LEMMA ShieldKept ==
    ASSUME InboxInv, NEW p \in Procs, NEW d \in ProcRecs, Goto(p, d), NEW r \in Receipts,
           UNCHANGED entries, Counted(r), unfiled \subseteq unfiled'
    PROVE  /\ Shielded(r) => Shielded(r)'
           /\ OpenEntry(r)' = OpenEntry(r)
           /\ handled'[r] >= handled[r]
           /\ handled' \in [Receipts -> Nat] /\ \A s \in Receipts: s # r => handled'[s] = handled[s]
           /\ handled[r] \in Nat /\ handled'[r] \in Nat
<1>1. handled \in [Receipts -> Nat] /\ HrisTypeOK
  BY DEF InboxInv, HrisTypeOK
<1>2. /\ handled' \in [Receipts -> Nat] /\ \A s \in Receipts: s # r => handled'[s] = handled[s]
      /\ handled[r] \in Nat /\ handled'[r] \in Nat /\ handled'[r] >= handled[r]
  BY <1>1 DEF Counted
<1>3. overlapped \subseteq overlapped'
  BY <1>1, GotoFacts
<1>4. OpenEntry(r)' = OpenEntry(r)
  BY DEF OpenEntry
<1> QED
  BY <1>2, <1>3, <1>4 DEF Shielded

LEMMA ReceiptGood ==
    ASSUME InboxInv, NEW p \in Procs, NEW d \in ProcRecs, Goto(p, d), NEW r \in Receipts, Known(r),
           NEW w \in ReceiptRecs, receipts' = [receipts EXCEPT ![r] = w], w.status # "none", Unspent(w),
           UNCHANGED entries, Counted(r), unfiled \subseteq unfiled', unfiled' \subseteq Receipts, ExecMove,
           \A s \in Receipts: s # r => (On(d, s) <=> On(procs[p], s)),
           On(procs[p], r) \/ (On(d, r) /\ (Alive(receipts[r]) \/ OpenEntry(r) # {})),
           Shielded(r) \/ handled'[r] > 0 \/ r \in unfiled' \/ Alive(w),
           Holding(d), Knowing(d)'
    PROVE  Good(p)
<1>1. receipts \in [Receipts -> ReceiptRecs] /\ entries \in [Entries -> EntryRecs]
  BY DEF InboxInv, HrisTypeOK
<1>2. /\ Shielded(r) => Shielded(r)'
      /\ OpenEntry(r)' = OpenEntry(r)
      /\ handled'[r] >= handled[r]
      /\ handled' \in [Receipts -> Nat] /\ \A s \in Receipts: s # r => handled'[s] = handled[s]
  BY ShieldKept
<1>3. receipts' \in [Receipts -> ReceiptRecs] /\ receipts'[r] = w /\ \A s \in Receipts: s # r => receipts'[s] = receipts[s]
  BY <1>1
<1>4. Shielded(r)' \/ Alive(w)
  BY <1>2 DEF Shielded
<1>5. ReceiptMove(p, d, r)
  BY <1>2, <1>3, <1>4 DEF ReceiptMove
<1>6. EntryMove(r)
  BY <1>1, <1>2 DEF EntryMove
<1> QED
  BY <1>5, <1>6, MovesAreGood

\* Where a process goes after its receipt.
LEMMA AfterFacts ==
    ASSUME InboxInv, NEW p \in Procs, NEW c, c = procs[p], NEW ok \in BOOLEAN,
           c.pc \in {"run", "markok", "markdlq", "entry", "redlq"}, After(p, c, ok),
           ok => handled'[c.r] > 0
    PROVE  \E d \in ProcRecs: /\ Goto(p, d) /\ Holding(d) /\ Knowing(d)'
                              /\ \A s \in Receipts: s # c.r => (On(d, s) <=> On(procs[p], s))
<1>1. c \in ProcRecs /\ Holding(c)
  BY ProcFacts
<1>2. CASE Goto(p, Idle)
  <2>1. \A s \in Receipts: s # c.r => (On(Idle, s) <=> On(procs[p], s))
    BY IdleFacts DEF On
  <2> QED
    BY <1>2, <2>1, IdleFacts, IdleKnowing
<1>3. ASSUME NEW d, d = [c EXCEPT !.pc = "complete", !.ok = ok, !.dlq = FALSE], Goto(p, d)
      PROVE  /\ d \in ProcRecs /\ Holding(d) /\ Knowing(d)'
             /\ \A s \in Receipts: s # c.r => (On(d, s) <=> On(procs[p], s))
  <2>1. d \in ProcRecs /\ d.pc = "complete" /\ d.r = c.r
    BY <1>1, <1>3 DEF ProcRecs, Pcs
  <2>2. Holding(d) /\ Knowing(d)'
    BY <2>1 DEF Holding, Knowing
  <2>3. \A s \in Receipts: s # c.r => (On(d, s) <=> On(procs[p], s))
    BY <2>1 DEF On
  <2> QED
    BY <2>1, <2>2, <2>3
<1>4. ASSUME NEW d, d = [c EXCEPT !.pc = "entry", !.ok = ok, !.dlq = FALSE], Goto(p, d), c.e # 0, c.pc # "redlq", c.pc # "entry"
      PROVE  /\ d \in ProcRecs /\ Holding(d) /\ Knowing(d)'
             /\ \A s \in Receipts: s # c.r => (On(d, s) <=> On(procs[p], s))
  <2>1. d \in ProcRecs /\ d.pc = "entry" /\ d.r = c.r /\ d.e = c.e /\ d.ok = ok
    BY <1>1, <1>4 DEF ProcRecs, Pcs
  <2>2. LetterOf(c.e, c.r) /\ Known(c.r)
    BY <1>1, <1>4 DEF Holding
  <2>3. Holding(d)
    BY <2>1, <2>2 DEF Holding
  <2>4. Knowing(d)'
    BY <2>1 DEF Knowing
  <2>5. \A s \in Receipts: s # c.r => (On(d, s) <=> On(procs[p], s))
    BY <2>1 DEF On
  <2> QED
    BY <2>1, <2>3, <2>4, <2>5
<1>5. CASE c.e # 0 /\ c.pc # "redlq" /\ c.pc # "entry"
  BY <1>4, <1>5 DEF After
<1>6. CASE ~(c.e # 0 /\ c.pc # "redlq" /\ c.pc # "entry") /\ c.x # 0
  BY <1>3, <1>6 DEF After
<1>7. CASE ~(c.e # 0 /\ c.pc # "redlq" /\ c.pc # "entry") /\ c.x = 0
  BY <1>2, <1>7 DEF After
<1> QED
  BY <1>5, <1>6, <1>7

\* What a claim and a mark make of a receipt.
LEMMA StartedRecs ==
    ASSUME InboxInv, NEW r \in Receipts
    PROVE  /\ receipts[r] \in ReceiptRecs /\ receipts[r].attempts \in Nat
           /\ Started(receipts[r]) \in ReceiptRecs
           /\ Started(receipts[r]).status = "processing" /\ Started(receipts[r]).attempts = receipts[r].attempts + 1
           /\ receipts = [receipts EXCEPT ![r] = receipts[r]]
<1>1. receipts \in [Receipts -> ReceiptRecs]
  BY DEF InboxInv, HrisTypeOK
<1>2. receipts = [receipts EXCEPT ![r] = receipts[r]] /\ receipts[r] \in ReceiptRecs
  BY <1>1
<1>4. receipts[r].attempts \in Nat
  BY <1>2 DEF ReceiptRecs
<1>8. /\ Started(receipts[r]) \in ReceiptRecs
      /\ Started(receipts[r]).status = "processing" /\ Started(receipts[r]).attempts = receipts[r].attempts + 1
  BY <1>4 DEF ReceiptRecs, Started, ReceiptStatus
<1> QED
  BY <1>2, <1>4, <1>8

\* Whether an attempt is the last one.
LEMMA LastAttempt ==
    ASSUME InboxInv, NEW r \in Receipts
    PROVE  \E b \in BOOLEAN: b = (receipts[r].attempts + 1 >= MaxAttempts)
<1>1. receipts[r].attempts \in Nat /\ MaxAttempts \in Nat
  BY StartedRecs, HrisBounds
<1>2. (receipts[r].attempts + 1 >= MaxAttempts) \in BOOLEAN
  BY <1>1
<1> QED
  BY <1>2, Zenon

LEMMA StartReceiptGood ==
    ASSUME InboxInv, NEW p \in Procs, StartReceipt(p)
    PROVE  Good(p)
<1>1. PICK c: c = procs[p]
  OBVIOUS
<1>2. c \in ProcRecs /\ c.pc = "start" /\ Holding(c) /\ Knowing(c)
  BY <1>1, ProcFacts DEF StartReceipt, At
<1>3. PICK r \in Receipts: r = c.r /\ Known(r)
  BY <1>2 DEF Holding, Known
<1>4. PICK d: d = [c EXCEPT !.pc = "run"]
  OBVIOUS
<1>5. Goto(p, d) /\ UNCHANGED <<executions, lastExec, entries, handled, unfiled>>
  BY <1>1, <1>4 DEF StartReceipt, historyVars
<1>6. d \in ProcRecs /\ d.pc = "run" /\ d.r = r /\ d.e = c.e /\ d.dlq = c.dlq
  BY <1>2, <1>3, <1>4 DEF ProcRecs, Pcs
<1>7. Holding(d)
  BY <1>2, <1>3, <1>6 DEF Holding
<1>8. On(procs[p], r) /\ \A s \in Receipts: s # r => (On(d, s) <=> On(procs[p], s))
  BY <1>1, <1>2, <1>3, <1>6 DEF On, Waiting
<1>9. PICK w \in ReceiptRecs: /\ receipts' = [receipts EXCEPT ![r] = w] /\ w.status # "none" /\ Unspent(w)
                              /\ w = receipts[r] \/ (w.status = "processing" /\ w.attempts = receipts[r].attempts + 1)
  <2>1. receipts' = receipts \/ receipts' = [receipts EXCEPT ![r] = Started(receipts[r])]
    BY <1>1, <1>3 DEF StartReceipt, MarkHRISWebhookReceiptStarted
  <2>2. /\ receipts[r] \in ReceiptRecs /\ Started(receipts[r]) \in ReceiptRecs
        /\ Started(receipts[r]).status = "processing" /\ Started(receipts[r]).attempts = receipts[r].attempts + 1
        /\ receipts = [receipts EXCEPT ![r] = receipts[r]]
    BY StartedRecs
  <2>3. receipts[r].status # "none" /\ Unspent(receipts[r])
    BY <1>3 DEF Known, InboxInv, ReceiptsOK
  <2>4. Unspent(Started(receipts[r]))
    BY <2>2 DEF Unspent
  <2> QED
    BY <2>1, <2>2, <2>3, <2>4
<1>10. Counted(r) /\ unfiled \subseteq unfiled' /\ unfiled' \subseteq Receipts
  BY <1>5 DEF Counted, InboxInv, HrisTypeOK
<1>11. Shielded(r) \/ Alive(w)
  <2>1. Shielded(r) \/ Alive(receipts[r])
    BY DEF InboxInv, ReceiptsOK
  <2> QED
    BY <1>9, <2>1 DEF Alive
<1>12. receipts \in [Receipts -> ReceiptRecs] /\ receipts'[r] = w
  <2>1. receipts \in [Receipts -> ReceiptRecs]
    BY DEF InboxInv, HrisTypeOK
  <2> QED
    BY <1>9, <2>1
<1>13. Shielded(r) => Shielded(r)'
  BY <1>5, <1>6, <1>10, ShieldKept
<1>14. Knowing(d)'
  <2>1. Shielded(r) \/ Within(c, 1)
    BY <1>2, <1>3 DEF Knowing
  <2>2. Within(c, 1) => Within(d, 0)'
    <3>1. receipts[r].attempts \in Nat /\ w.attempts \in Nat /\ MaxAttempts \in Nat
      BY <1>12, HrisBounds DEF ReceiptRecs
    <3>2. receipts[r].attempts + 1 < MaxAttempts => w.attempts + 0 < MaxAttempts
      BY <1>9, <3>1
    <3>3. receipts[r].status \in {"received", "processing"} => w.status \in {"received", "processing"}
      BY <1>9
    <3> QED
      BY <1>3, <1>6, <1>12, <3>2, <3>3 DEF Within
  <2>3. Shielded(d.r)' \/ Within(d, 0)'
    BY <1>6, <1>13, <2>1, <2>2
  <2> QED
    BY <1>6, <2>3 DEF Knowing
<1>15. ExecMove
  BY <1>5, ExecStill
<1>16. UNCHANGED entries
  BY <1>5
<1>17. receipts' = [receipts EXCEPT ![r] = w] /\ w.status # "none" /\ Unspent(w)
  BY <1>9
<1> QED
  BY <1>3, <1>5, <1>6, <1>7, <1>8, <1>10, <1>11, <1>14, <1>15, <1>16, <1>17, ReceiptGood

\* The last mark of a receipt, and what comes after it.
LEMMA AfterGood ==
    ASSUME InboxInv, NEW p \in Procs, NEW c, c = procs[p], NEW ok \in BOOLEAN,
           c.pc \in {"run", "markok", "markdlq", "redlq"}, After(p, c, ok), ok => handled'[c.r] > 0,
           UNCHANGED <<executions, lastExec, entries>>,
           Counted(c.r), unfiled \subseteq unfiled', unfiled' \subseteq Receipts,
           \/ UNCHANGED receipts
           \/ \E st \in {"processed", "skipped", "failed", "dlq"}:
                 /\ MarkHRISWebhookReceipt(c.r, st)
                 /\ \/ Shielded(c.r) \/ handled'[c.r] > 0 \/ c.r \in unfiled'
                    \/ st = "failed" /\ receipts[c.r].attempts < MaxAttempts
    PROVE  Good(p)
<1>1. c \in ProcRecs /\ Holding(c)
  BY ProcFacts
<1>2. PICK r \in Receipts: r = c.r /\ Known(r)
  BY <1>1 DEF Holding, Known
<1>3. PICK d \in ProcRecs: /\ Goto(p, d) /\ Holding(d) /\ Knowing(d)'
                           /\ \A s \in Receipts: s # c.r => (On(d, s) <=> On(procs[p], s))
  BY AfterFacts
<1>4. On(procs[p], r)
  BY <1>2 DEF On, Waiting
<1>5. PICK w \in ReceiptRecs: /\ receipts' = [receipts EXCEPT ![r] = w] /\ w.status # "none" /\ Unspent(w)
                              /\ Shielded(r) \/ handled'[r] > 0 \/ r \in unfiled' \/ Alive(w)
  <2>1. CASE UNCHANGED receipts
    <3>1. receipts[r].status # "none" /\ Unspent(receipts[r]) /\ (Shielded(r) \/ Alive(receipts[r]))
      BY <1>2 DEF Known, InboxInv, ReceiptsOK
    <3>2. receipts[r] \in ReceiptRecs /\ receipts' = [receipts EXCEPT ![r] = receipts[r]]
      <4>1. receipts[r] \in ReceiptRecs /\ receipts = [receipts EXCEPT ![r] = receipts[r]]
        BY StartedRecs
      <4> QED
        BY <2>1, <4>1
    <3> QED
      BY <3>1, <3>2
  <2>2. ASSUME NEW st \in {"processed", "skipped", "failed", "dlq"}, MarkHRISWebhookReceipt(c.r, st),
               \/ Shielded(c.r) \/ handled'[c.r] > 0 \/ c.r \in unfiled'
               \/ st = "failed" /\ receipts[c.r].attempts < MaxAttempts
        PROVE  \E w \in ReceiptRecs: /\ receipts' = [receipts EXCEPT ![r] = w] /\ w.status # "none" /\ Unspent(w)
                                     /\ Shielded(r) \/ handled'[r] > 0 \/ r \in unfiled' \/ Alive(w)
    <3>1. PICK w: w = [receipts[r] EXCEPT !.status = st, !.due = FALSE]
      OBVIOUS
    <3>2. st \in ReceiptStatus \ {"none", "received"}
      BY DEF ReceiptStatus
    <3>3. w \in ReceiptRecs /\ w.status = st /\ w.attempts = receipts[r].attempts /\ Unspent(w)
      <4>1. receipts[r] \in ReceiptRecs
        BY StartedRecs
      <4>2. w \in ReceiptRecs /\ w.status = st /\ w.attempts = receipts[r].attempts
        BY <3>1, <3>2, <4>1 DEF ReceiptRecs
      <4> QED
        BY <3>2, <4>2 DEF Unspent
    <3>4. receipts' = [receipts EXCEPT ![r] = w]
      BY <1>2, <2>2, <3>1 DEF MarkHRISWebhookReceipt
    <3>5. Shielded(r) \/ handled'[r] > 0 \/ r \in unfiled' \/ Alive(w)
      BY <1>2, <2>2, <3>3 DEF Alive
    <3> QED
      BY <3>2, <3>3, <3>4, <3>5
  <2> QED
    BY <2>1, <2>2
<1>6. ExecMove
  BY ExecStill
<1>7. receipts' = [receipts EXCEPT ![r] = w] /\ w.status # "none" /\ Unspent(w)
  BY <1>5
<1>8. Shielded(r) \/ handled'[r] > 0 \/ r \in unfiled' \/ Alive(w)
  BY <1>5
<1>9. Goto(p, d) /\ Holding(d) /\ Knowing(d)' /\ \A s \in Receipts: s # r => (On(d, s) <=> On(procs[p], s))
  BY <1>2, <1>3
<1> QED
  BY <1>2, <1>4, <1>6, <1>7, <1>8, <1>9, ReceiptGood

LEMMA SkipReceiptGood ==
    ASSUME InboxInv, NEW p \in Procs, SkipReceipt(p)
    PROVE  Good(p)
<1>1. PICK c: c = procs[p]
  OBVIOUS
<1>2. c \in ProcRecs /\ c.pc = "run" /\ Holding(c)
  BY <1>1, ProcFacts DEF SkipReceipt, At
<1>3. PICK r \in Receipts: r = c.r /\ Known(r)
  BY <1>2 DEF Holding, Known
<1>4. UNCHANGED <<executions, lastExec, entries>> /\ unfiled' = unfiled
  BY DEF SkipReceipt
<1>5. handled' = [handled EXCEPT ![r] = @ + 1] /\ After(p, c, TRUE)
  BY <1>1, <1>3 DEF SkipReceipt
<1>6. handled'[r] > 0
  <2>1. handled \in [Receipts -> Nat]
    BY DEF InboxInv, HrisTypeOK
  <2> QED
    BY <1>5, <2>1
<1>7. unfiled \subseteq unfiled' /\ unfiled' \subseteq Receipts
  BY <1>4 DEF InboxInv, HrisTypeOK
<1>8. UNCHANGED receipts \/ MarkHRISWebhookReceipt(c.r, "skipped")
  BY <1>1 DEF SkipReceipt, MarkHRISWebhookReceiptSkipped
<1> QED
  BY <1>1, <1>2, <1>3, <1>4, <1>5, <1>6, <1>7, <1>8, AfterGood DEF Counted

LEMMA SyncReceiptGood ==
    ASSUME InboxInv, NEW p \in Procs, SyncReceipt(p)
    PROVE  Good(p)
<1>1. PICK c: c = procs[p]
  OBVIOUS
<1>2. c \in ProcRecs /\ c.pc = "run" /\ Holding(c)
  BY <1>1, ProcFacts DEF SyncReceipt, At
<1>3. PICK r \in Receipts: r = c.r /\ Known(r)
  BY <1>2 DEF Holding, Known
<1>4. UNCHANGED <<receipts, executions, lastExec, entries>> /\ unfiled' = unfiled
  BY DEF SyncReceipt, receiptVars
<1>5. PICK d: d = [c EXCEPT !.pc = "markok"]
  OBVIOUS
<1>6. handled' = [handled EXCEPT ![r] = @ + 1] /\ Goto(p, d)
  BY <1>1, <1>3, <1>5 DEF SyncReceipt
<1>7. d \in ProcRecs /\ d.pc = "markok" /\ d.r = r /\ d.e = c.e
  BY <1>2, <1>3, <1>5 DEF ProcRecs, Pcs
<1>8. handled'[r] > 0
  <2>1. handled \in [Receipts -> Nat]
    BY DEF InboxInv, HrisTypeOK
  <2> QED
    BY <1>6, <2>1
<1>9. unfiled \subseteq unfiled' /\ unfiled' \subseteq Receipts
  BY <1>4 DEF InboxInv, HrisTypeOK
<1>10. Holding(d)
  BY <1>2, <1>3, <1>7 DEF Holding
<1>11. Knowing(d)'
  BY <1>7, <1>8 DEF Knowing
<1>12. On(procs[p], r) /\ \A s \in Receipts: s # r => (On(d, s) <=> On(procs[p], s))
  BY <1>1, <1>2, <1>3, <1>7 DEF On, Waiting
<1>13. receipts[r] \in ReceiptRecs /\ receipts' = [receipts EXCEPT ![r] = receipts[r]]
  BY <1>4, StartedRecs
<1>14. receipts[r].status # "none" /\ Unspent(receipts[r])
  BY <1>3 DEF Known, InboxInv, ReceiptsOK
<1>15. ExecMove /\ Counted(r)
  BY <1>4, <1>6, ExecStill DEF Counted
<1> QED
  BY <1>3, <1>4, <1>6, <1>7, <1>8, <1>9, <1>10, <1>11, <1>12, <1>13, <1>14, <1>15, ReceiptGood

LEMMA FinishReceiptGood ==
    ASSUME InboxInv, NEW p \in Procs, FinishReceipt(p)
    PROVE  Good(p)
<1>1. PICK c: c = procs[p]
  OBVIOUS
<1>2. c \in ProcRecs /\ c.pc \in {"markok", "markdlq"} /\ Holding(c) /\ Knowing(c)
  BY <1>1, ProcFacts DEF FinishReceipt
<1>4. UNCHANGED <<executions, lastExec, entries, handled, unfiled>>
  BY DEF FinishReceipt, historyVars
<1>5. PICK ok \in BOOLEAN: ok = (c.pc = "markok") /\ After(p, c, ok)
  BY <1>1 DEF FinishReceipt
<1>6. ok => handled'[c.r] > 0
  BY <1>2, <1>4, <1>5 DEF Knowing
<1>7. unfiled \subseteq unfiled' /\ unfiled' \subseteq Receipts /\ Counted(c.r)
  BY <1>4 DEF InboxInv, HrisTypeOK, Counted
<1>8. \/ UNCHANGED receipts
      \/ c.pc = "markok" /\ MarkHRISWebhookReceipt(c.r, "processed")
      \/ c.pc = "markdlq" /\ MarkHRISWebhookReceipt(c.r, "dlq")
  BY <1>1, <1>2 DEF FinishReceipt, MarkHRISWebhookReceiptProcessed, MarkHRISWebhookReceiptDLQ
<1>9. Shielded(c.r)
  BY <1>2 DEF Knowing, Shielded
<1> QED
  BY <1>1, <1>2, <1>4, <1>5, <1>6, <1>7, <1>8, <1>9, AfterGood

LEMMA RestoreReceiptDLQGood ==
    ASSUME InboxInv, NEW p \in Procs, RestoreReceiptDLQ(p)
    PROVE  Good(p)
<1>1. PICK c: c = procs[p]
  OBVIOUS
<1>2. c \in ProcRecs /\ c.pc = "redlq" /\ Holding(c)
  BY <1>1, ProcFacts DEF RestoreReceiptDLQ, At
<1>3. Shielded(c.r)
  BY <1>2, LetterShields DEF Holding
<1>4. UNCHANGED <<executions, lastExec, entries, handled, unfiled>> /\ After(p, c, FALSE)
  BY <1>1 DEF RestoreReceiptDLQ, historyVars
<1>5. unfiled \subseteq unfiled' /\ unfiled' \subseteq Receipts /\ Counted(c.r)
  BY <1>4 DEF InboxInv, HrisTypeOK, Counted
<1>6. UNCHANGED receipts \/ MarkHRISWebhookReceipt(c.r, "dlq")
  BY <1>1 DEF RestoreReceiptDLQ, MarkHRISWebhookReceiptDLQ
<1> QED
  BY <1>1, <1>2, <1>3, <1>4, <1>5, <1>6, AfterGood

\* A receipt that is claimed.
LEMMA ClaimGood ==
    ASSUME InboxInv, NEW p \in Procs, NEW r \in Receipts, ClaimHRISWebhookReceiptForProcessing(r),
           NEW d \in ProcRecs, Goto(p, d), d.pc \in {"run", "create"}, d.r = r, d.e = 0, Holding(d),
           d.dlq = (receipts[r].attempts + 1 >= MaxAttempts),
           \A s \in Receipts: ~ On(procs[p], s),
           UNCHANGED <<executions, lastExec, entries, handled, unfiled>>
    PROVE  Good(p)
<1>1. receipts[r] \in ReceiptRecs
  BY DEF InboxInv, HrisTypeOK
<1>2. Known(r) /\ Alive(receipts[r])
  <2>1. receipts[r].status = "none" => hrisWebhookReceiptClaimReason(receipts[r]) = "not_queueable"
    BY DEF hrisWebhookReceiptClaimReason
  <2>2. hrisWebhookReceiptClaimReason(receipts[r]) = ""
    BY DEF ClaimHRISWebhookReceiptForProcessing
  <2>3. receipts[r].status \in {"received", "processing"} \/ (receipts[r].status = "failed" /\ ~(receipts[r].attempts >= MaxAttempts))
    BY <1>1, <2>2 DEF hrisWebhookReceiptClaimReason, ReceiptRecs, ReceiptStatus
  <2>4. receipts[r].attempts \in Nat /\ MaxAttempts \in Nat
    BY <1>1, HrisBounds DEF ReceiptRecs
  <2> QED
    BY <2>3, <2>4 DEF Known, Alive
<1>3. PICK w \in ReceiptRecs: /\ receipts' = [receipts EXCEPT ![r] = w] /\ w.status = "processing"
                              /\ w.attempts = receipts[r].attempts + 1
  <2>1. Started(receipts[r]) \in ReceiptRecs /\ Started(receipts[r]).status = "processing"
        /\ Started(receipts[r]).attempts = receipts[r].attempts + 1
    BY StartedRecs
  <2> QED
    BY <2>1 DEF ClaimHRISWebhookReceiptForProcessing
<1>4. receipts'[r] = w
  <2>1. receipts \in [Receipts -> ReceiptRecs]
    BY DEF InboxInv, HrisTypeOK
  <2> QED
    BY <1>3, <2>1
<1>5. Within(d, 0)'
  <2>1. receipts[r].attempts \in Nat /\ MaxAttempts \in Nat /\ d.dlq \in BOOLEAN
    BY <1>1, HrisBounds DEF ReceiptRecs, ProcRecs
  <2>2. CASE d.dlq
    BY <1>3, <1>4, <2>2 DEF Within
  <2>3. CASE ~ d.dlq
    <3>1. ~(receipts[r].attempts + 1 >= MaxAttempts)
      BY <2>3, Zenon
    <3>2. w.attempts + 0 < MaxAttempts
      BY <1>3, <2>1, <3>1
    <3> QED
      BY <1>3, <1>4, <3>2 DEF Within
  <2> QED
    BY <2>1, <2>2, <2>3
<1>6. Knowing(d)'
  BY <1>5 DEF Knowing
<1>7. Unspent(w) /\ Alive(w) /\ w.status # "none"
  BY <1>3 DEF Unspent, Alive
<1>8. On(d, r) /\ \A s \in Receipts: s # r => (On(d, s) <=> On(procs[p], s))
  BY DEF On, Waiting
<1>9. ExecMove /\ Counted(r) /\ unfiled \subseteq unfiled' /\ unfiled' \subseteq Receipts
  BY ExecStill DEF Counted, InboxInv, HrisTypeOK
<1>10. receipts' = [receipts EXCEPT ![r] = w]
  BY <1>3
<1> QED
  BY <1>2, <1>6, <1>7, <1>8, <1>9, <1>10, ReceiptGood

LEMMA TickReceiptGood ==
    ASSUME InboxInv, NEW p \in Procs, TickReceipt(p)
    PROVE  Good(p)
<1>1. PICK c: c = procs[p]
  OBVIOUS
<1>2. c \in ProcRecs /\ c.pc = "due" /\ Holding(c)
  BY <1>1, ProcFacts DEF TickReceipt, At
<1>3. UNCHANGED <<executions, lastExec, entries, handled, unfiled>>
  BY DEF TickReceipt, historyVars
<1>4. PICK r \in Receipts: /\ ClaimHRISWebhookReceiptForProcessing(r)
                           /\ Goto(p, [c EXCEPT !.pc = "run", !.r = r, !.dlq = receipts[r].attempts + 1 >= MaxAttempts])
  BY <1>1 DEF TickReceipt, DueReceipts
<1>5. PICK b \in BOOLEAN: b = (receipts[r].attempts + 1 >= MaxAttempts)
  BY LastAttempt
<1>6. PICK d: d = [c EXCEPT !.pc = "run", !.r = r, !.dlq = b]
  OBVIOUS
<1>7. d \in ProcRecs /\ d.pc = "run" /\ d.r = r /\ d.e = 0 /\ d.dlq = b
  BY <1>2, <1>6 DEF ProcRecs, Pcs, Holding
<1>8. Goto(p, d)
  BY <1>4, <1>5, <1>6
<1>9. Known(r)
  <2>1. receipts[r].status # "none"
    BY <1>4 DEF ClaimHRISWebhookReceiptForProcessing, hrisWebhookReceiptClaimReason
  <2> QED
    BY <2>1 DEF Known
<1>10. Holding(d)
  BY <1>7, <1>9 DEF Holding
<1>11. \A s \in Receipts: ~ On(procs[p], s)
  BY <1>1, <1>2, HrisZero DEF On, Holding
<1> QED
  BY <1>3, <1>4, <1>5, <1>7, <1>8, <1>10, <1>11, ClaimGood

LEMMA ProcessReceiptGood ==
    ASSUME InboxInv, NEW p \in Procs, NEW r \in Receipts, ProcessReceipt(p, r)
    PROVE  Good(p)
<1>1. PICK c: c = procs[p]
  OBVIOUS
<1>2. c \in ProcRecs /\ c.pc = "idle" /\ Holding(c)
  BY <1>1, ProcFacts DEF ProcessReceipt, At
<1>3. UNCHANGED <<executions, lastExec, entries, handled, unfiled>> /\ ClaimHRISWebhookReceiptForProcessing(r)
  BY DEF ProcessReceipt, historyVars
<1>5. PICK b \in BOOLEAN: b = (receipts[r].attempts + 1 >= MaxAttempts)
  BY LastAttempt
<1>6. PICK d: d = [Idle EXCEPT !.pc = "run", !.r = r, !.dlq = b]
  OBVIOUS
<1>7. d \in ProcRecs /\ d.pc = "run" /\ d.r = r /\ d.e = 0 /\ d.dlq = b
  <2>1. d \in ProcRecs
    BY <1>6, IdleFacts DEF ProcRecs, Pcs
  <2> QED
    BY <1>6, <2>1 DEF Idle
<1>8. Goto(p, d)
  BY <1>5, <1>6 DEF ProcessReceipt
<1>9. Known(r)
  <2>1. receipts[r].status # "none"
    BY <1>3 DEF ClaimHRISWebhookReceiptForProcessing, hrisWebhookReceiptClaimReason
  <2> QED
    BY <2>1 DEF Known
<1>10. Holding(d)
  BY <1>7, <1>9 DEF Holding
<1>11. \A s \in Receipts: ~ On(procs[p], s)
  BY <1>1, <1>2, HrisZero DEF On, Holding
<1> QED
  BY <1>3, <1>5, <1>7, <1>8, <1>10, <1>11, ClaimGood

LEMMA ClaimQueuedReceiptGood ==
    ASSUME InboxInv, NEW p \in Procs, ClaimQueuedReceipt(p)
    PROVE  Good(p)
<1>1. PICK c: c = procs[p]
  OBVIOUS
<1>2. c \in ProcRecs /\ c.pc = "queue" /\ c.kind = "receipt" /\ Holding(c)
  BY <1>1, ProcFacts DEF ClaimQueuedReceipt, At
<1>3. UNCHANGED <<executions, lastExec, entries, handled, unfiled>>
  BY DEF ClaimQueuedReceipt, historyVars
<1>4. CASE hrisWebhookReceiptClaimReason(receipts[c.r]) # ""
  <2>1. Goto(p, Idle) /\ UNCHANGED receipts
    BY <1>1, <1>4 DEF ClaimQueuedReceipt
  <2>2. ExecMove
    BY <1>3, ExecStill
  <2> QED
    BY <1>3, <2>1, <2>2, QuietEnd
<1>5. CASE hrisWebhookReceiptClaimReason(receipts[c.r]) = ""
  <2>1. PICK r \in Receipts: r = c.r /\ Known(r)
    BY <1>2 DEF Holding, Known
  <2>2. PICK b \in BOOLEAN: b = (receipts[r].attempts + 1 >= MaxAttempts)
    BY LastAttempt
  <2>3. PICK d: d = [c EXCEPT !.pc = "create", !.dlq = b]
    OBVIOUS
  <2>4. Goto(p, d) /\ ClaimHRISWebhookReceiptForProcessing(r)
    BY <1>1, <1>5, <2>1, <2>2, <2>3 DEF ClaimQueuedReceipt
  <2>5. d \in ProcRecs /\ d.pc = "create" /\ d.r = r /\ d.e = c.e /\ d.dlq = b /\ d.kind = "receipt" /\ d.orig = c.orig
    BY <1>2, <2>1, <2>3 DEF ProcRecs, Pcs
  <2>6. c.e = 0 /\ ReceiptSnap(c)
    BY <1>2 DEF Holding
  <2>7. ReceiptSnap(d)
    BY <2>1, <2>5, <2>6 DEF ReceiptSnap
  <2>8. Holding(d)
    BY <2>1, <2>5, <2>6, <2>7 DEF Holding
  <2>9. \A s \in Receipts: ~ On(procs[p], s)
    BY <1>1, <1>2 DEF On, Waiting
  <2> QED
    BY <1>3, <2>2, <2>4, <2>5, <2>6, <2>8, <2>9, ClaimGood
<1> QED
  BY <1>4, <1>5

-----------------------------------------------------------------------------
(* Steps that change a dead letter.                                         *)

LEMMA EntryGood ==
    ASSUME InboxInv, NEW p \in Procs, NEW d \in ProcRecs, Goto(p, d), NEW r \in Receipts, Known(r),
           NEW e \in Entries, LetterOf(e, r) \/ entries[e].status = "none",
           NEW v \in EntryRecs, entries' = [entries EXCEPT ![e] = v], v.receipt = r, v.status # "none",
           v.status = "resolved" => handled[r] > 0,
           UNCHANGED <<receipts, handled, unfiled>>, ExecMove,
           \A s \in Receipts: s # r => (On(d, s) <=> On(procs[p], s)),
           On(procs[p], r) \/ OpenEntry(r) # {} \/ ~ On(d, r),
           Holding(d), Knowing(d) \/ Knowing(d)'
    PROVE  Good(p)
<1>1. HrisTypeOK /\ ReceiptsOK
  BY DEF InboxInv
<1>2. entries' \in [Entries -> EntryRecs] /\ entries'[e] = v /\ \A f \in Entries: f # e => entries'[f] = entries[f]
  BY <1>1 DEF HrisTypeOK
<1>3. handled[r] \in Nat
  BY <1>1 DEF HrisTypeOK
<1>4. v.status = "resolved" \/ e \in OpenEntry(r)'
  <2>1. v.status \in {"dlq", "replaying", "resolved"}
    BY DEF EntryRecs, EntryStatus
  <2> QED
    BY <1>2, <2>1 DEF OpenEntry
<1>5. OpenEntry(r)' # {} \/ handled'[r] > 0
  BY <1>4
<1>6. ReceiptMove(p, d, r)
  <2>1. Unspent(receipts'[r]) /\ (Shielded(r)' \/ Alive(receipts'[r]))
    BY <1>1, <1>5 DEF ReceiptsOK, Shielded
  <2>2. /\ receipts' \in [Receipts -> ReceiptRecs] /\ handled' \in [Receipts -> Nat]
        /\ unfiled \subseteq unfiled' /\ unfiled' \subseteq Receipts
    BY <1>1 DEF HrisTypeOK
  <2> QED
    BY <1>3, <2>1, <2>2 DEF ReceiptMove, Known
<1>7. EntryMove(r)
  BY <1>2, <1>5 DEF EntryMove, LetterOf
<1>8. Knowing(d)'
  <2>1. HrisTypeOK' /\ Frame(p, r)
    BY <1>6, <1>7, MovesMakeFrame
  <2>2. Knowing(d) => Knowing(d)'
    BY <2>1, KnowingStays
  <2> QED
    BY <2>2
<1> QED
  BY <1>6, <1>7, <1>8, MovesAreGood

LEMMA FailReceiptGood ==
    ASSUME InboxInv, NEW p \in Procs, FailReceipt(p)
    PROVE  Good(p)
<1>1. PICK c: c = procs[p]
  OBVIOUS
<1>2. c \in ProcRecs /\ c.pc = "run" /\ Holding(c) /\ Knowing(c)
  BY <1>1, ProcFacts DEF FailReceipt, At
<1>3. PICK r \in Receipts: r = c.r /\ Known(r)
  BY <1>2 DEF Holding, Known
<1>4. UNCHANGED <<executions, lastExec>> /\ handled' = handled
  BY DEF FailReceipt
<1>5. ExecMove
  BY <1>4, ExecStill
<1>6. unfiled \subseteq Receipts /\ handled[r] \in Nat
  BY DEF InboxInv, HrisTypeOK
<1>7. CASE c.dlq /\ AppendFailure(c.r) /\ Goto(p, [c EXCEPT !.pc = "markdlq"]) /\ UNCHANGED <<receipts, left, lease, unfiled>>
  <2>1. PICK d: d = [c EXCEPT !.pc = "markdlq"]
    OBVIOUS
  <2>2. d \in ProcRecs /\ d.pc = "markdlq" /\ d.r = r /\ d.e = c.e
    BY <1>2, <1>3, <2>1 DEF ProcRecs, Pcs
  <2>3. Holding(d)
    BY <1>2, <1>3, <2>2 DEF Holding
  <2>4. On(procs[p], r) /\ \A s \in Receipts: s # r => (On(d, s) <=> On(procs[p], s))
    BY <1>1, <1>2, <1>3, <2>2 DEF On, Waiting
  <2>5. CASE InDlq(r) # {} /\ UNCHANGED entries
    <3>1. Shielded(r)
      BY <2>5 DEF InDlq, Shielded, OpenEntry
    <3>2. Knowing(d)
      BY <2>2, <3>1 DEF Knowing
    <3> QED
      BY <1>3, <1>4, <1>5, <1>7, <2>1, <2>2, <2>3, <2>4, <2>5, <3>2, QuietGood
  <2>6. CASE /\ InDlq(r) = {} /\ FreeEntry # {}
             /\ LET e == CHOOSE f \in FreeEntry: \A g \in FreeEntry: f <= g IN
                entries' = [entries EXCEPT ![e] = [status |-> "dlq", receipt |-> r, count |-> 0, due |-> TRUE]]
    <3>1. PICK e: e = CHOOSE f \in FreeEntry: \A g \in FreeEntry: f <= g
      OBVIOUS
    <3>2. e \in FreeEntry
      <4>1. \E f \in FreeEntry: \A g \in FreeEntry: f <= g
        <5>1. FreeEntry \in SUBSET Nat /\ FreeEntry # {}
          BY <2>6, HrisZero DEF FreeEntry
        <5> QED
          BY <5>1, LeastEntry
      <4> QED
        BY <3>1, <4>1
    <3>3. PICK v: v = [status |-> "dlq", receipt |-> r, count |-> 0, due |-> TRUE]
      OBVIOUS
    <3>4. v \in EntryRecs /\ v.status = "dlq" /\ v.receipt = r
      BY <3>3 DEF EntryRecs, EntryStatus
    <3>5. entries' = [entries EXCEPT ![e] = v]
      BY <2>6, <3>1, <3>3
    <3>6. e \in Entries /\ entries[e].status = "none"
      BY <3>2 DEF FreeEntry
    <3>7. e \in OpenEntry(r)'
      <4>1. entries \in [Entries -> EntryRecs]
        BY DEF InboxInv, HrisTypeOK
      <4>2. entries'[e] = v
        BY <3>5, <3>6, <4>1
      <4> QED
        BY <3>4, <3>6, <4>2 DEF OpenEntry
    <3>8. Knowing(d)'
      BY <2>2, <3>7 DEF Knowing, Shielded
    <3>9. UNCHANGED <<receipts, handled, unfiled>> /\ Goto(p, d)
      BY <1>4, <1>7, <2>1
    <3> QED
      BY <1>3, <1>5, <2>2, <2>3, <2>4, <3>4, <3>5, <3>6, <3>8, <3>9, EntryGood
  <2> QED
    BY <1>3, <1>7, <2>5, <2>6 DEF AppendFailure
<1>8. CASE /\ c.dlq /\ MarkHRISWebhookReceiptFailed(c.r) /\ unfiled' = unfiled \union {c.r}
           /\ After(p, c, FALSE) /\ UNCHANGED entries
  <2>1. /\ unfiled \subseteq unfiled' /\ unfiled' \subseteq Receipts /\ c.r \in unfiled' /\ Counted(c.r)
        /\ MarkHRISWebhookReceipt(c.r, "failed")
    BY <1>3, <1>4, <1>6, <1>8 DEF Counted, MarkHRISWebhookReceiptFailed
  <2> QED
    BY <1>1, <1>2, <1>4, <1>8, <2>1, AfterGood
<1>9. CASE /\ ~ c.dlq /\ (UNCHANGED receipts \/ MarkHRISWebhookReceiptFailed(c.r))
           /\ After(p, c, FALSE) /\ UNCHANGED <<entries, unfiled>>
  <2>1. unfiled \subseteq unfiled' /\ unfiled' \subseteq Receipts /\ Counted(c.r)
    BY <1>4, <1>6, <1>9 DEF Counted
  <2>2. Shielded(c.r) \/ receipts[c.r].attempts < MaxAttempts
    <3>1. Shielded(c.r) \/ Within(c, 0)
      BY <1>2 DEF Knowing
    <3>2. receipts[c.r].attempts \in Nat
      BY <1>3, StartedRecs
    <3> QED
      BY <1>9, <3>1, <3>2 DEF Within
  <2>3. UNCHANGED receipts \/ MarkHRISWebhookReceipt(c.r, "failed")
    BY <1>9 DEF MarkHRISWebhookReceiptFailed
  <2> QED
    BY <1>1, <1>2, <1>4, <1>9, <2>1, <2>2, <2>3, AfterGood
<1> QED
  BY <1>1, <1>7, <1>8, <1>9 DEF FailReceipt

\* What the end of a replay, and a claim, make of a dead letter.
LEMMA EndedRecs ==
    ASSUME NEW c \in EntryRecs, NEW st \in EntryStatus
    PROVE  Ended(c, st) \in EntryRecs /\ Ended(c, st).status = st /\ Ended(c, st).receipt = c.receipt
<1>1. c.count \in Nat /\ c.count + 1 \in Nat
  BY DEF EntryRecs
<1>2. PICK n \in Nat: n = IF c.status = "replaying" THEN c.count ELSE c.count + 1
  BY <1>1
<1>3. Ended(c, st) = [c EXCEPT !.status = st, !.due = FALSE, !.count = n]
  BY <1>2 DEF Ended, EntryRecs
<1> QED
  BY <1>3 DEF EntryRecs

LEMMA ClaimedRecs ==
    ASSUME NEW c \in EntryRecs
    PROVE  \E v \in EntryRecs: /\ v = [c EXCEPT !.status = "replaying", !.count = c.count + 1, !.due = FALSE]
                               /\ v.status = "replaying" /\ v.receipt = c.receipt
<1>1. PICK n \in Nat: n = c.count + 1
  BY DEF EntryRecs
<1>2. [c EXCEPT !.status = "replaying", !.count = c.count + 1, !.due = FALSE]
         = [c EXCEPT !.status = "replaying", !.count = n, !.due = FALSE]
  BY <1>1 DEF EntryRecs
<1>3. [c EXCEPT !.status = "replaying", !.count = n, !.due = FALSE] \in EntryRecs
  BY DEF EntryRecs, EntryStatus
<1> QED
  BY <1>2, <1>3 DEF EntryRecs

LEMMA EndReplayGood ==
    ASSUME InboxInv, NEW p \in Procs, EndReplay(p)
    PROVE  Good(p)
<1>1. PICK c: c = procs[p]
  OBVIOUS
<1>2. c \in ProcRecs /\ c.pc = "entry" /\ Holding(c) /\ Knowing(c)
  BY <1>1, ProcFacts DEF EndReplay, At
<1>3. PICK r \in Receipts: r = c.r /\ Known(r) /\ LetterOf(c.e, r)
  BY <1>2 DEF Holding, Known
<1>4. UNCHANGED <<receipts, executions, lastExec, handled, unfiled>>
  BY DEF EndReplay, receiptVars, historyVars
<1>5. ExecMove
  BY <1>4, ExecStill
<1>6. PICK ok \in BOOLEAN:
          /\ IF ~ ok THEN UNCHANGED entries ELSE IF c.ok THEN MarkResolved(c.e) ELSE MarkReplayFailed(c.e)
          /\ IF ok /\ ~ c.ok THEN Goto(p, [c EXCEPT !.pc = "redlq"]) ELSE After(p, c, c.ok /\ ok)
  BY <1>1 DEF EndReplay
<1>7. c.e \in Entries /\ entries[c.e] \in EntryRecs /\ entries \in [Entries -> EntryRecs] /\ c.ok \in BOOLEAN
  BY <1>2, <1>3 DEF LetterOf, Letter, InboxInv, HrisTypeOK, ProcRecs
<1>8. On(procs[p], r)
  BY <1>1, <1>2, <1>3 DEF On, Waiting
<1>9. \E d \in ProcRecs: /\ Goto(p, d) /\ Holding(d) /\ (Knowing(d) \/ Knowing(d)')
                         /\ \A s \in Receipts: s # r => (On(d, s) <=> On(procs[p], s))
  <2>1. CASE ok /\ ~ c.ok
    <3>1. PICK d: d = [c EXCEPT !.pc = "redlq"]
      OBVIOUS
    <3>2. d \in ProcRecs /\ d.pc = "redlq" /\ d.r = r /\ d.e = c.e
      BY <1>2, <1>3, <3>1 DEF ProcRecs, Pcs
    <3>3. Holding(d) /\ Knowing(d)
      BY <1>3, <3>2 DEF Holding, Knowing
    <3>4. \A s \in Receipts: s # r => (On(d, s) <=> On(procs[p], s))
      BY <1>1, <1>3, <3>2 DEF On
    <3> QED
      BY <1>6, <2>1, <3>1, <3>2, <3>3, <3>4
  <2>2. CASE ~(ok /\ ~ c.ok)
    <3>1. PICK b \in BOOLEAN: b = (c.ok /\ ok) /\ After(p, c, b)
      BY <1>6, <1>7, <2>2
    <3>2. b => handled'[c.r] > 0
      BY <1>2, <1>4, <3>1 DEF Knowing
    <3> QED
      BY <1>1, <1>2, <1>3, <3>1, <3>2, AfterFacts
  <2> QED
    BY <2>1, <2>2
<1>10. PICK d \in ProcRecs: /\ Goto(p, d) /\ Holding(d) /\ (Knowing(d) \/ Knowing(d)')
                            /\ \A s \in Receipts: s # r => (On(d, s) <=> On(procs[p], s))
  BY <1>9
<1>11. PICK v \in EntryRecs: /\ entries' = [entries EXCEPT ![c.e] = v] /\ v.receipt = r /\ v.status # "none"
                             /\ v.status = "resolved" => handled[r] > 0
  <2>1. CASE ~ ok
    <3>1. entries' = [entries EXCEPT ![c.e] = entries[c.e]]
      BY <1>6, <1>7, <2>1
    <3>2. entries[c.e].receipt = r /\ entries[c.e].status # "none" /\ (entries[c.e].status = "resolved" => handled[r] > 0)
      BY <1>3, <1>7 DEF LetterOf, Letter, InboxInv, EntriesOK
    <3> QED
      BY <1>7, <3>1, <3>2
  <2>2. ASSUME NEW st \in {"resolved", "dlq"}, st = "resolved" => c.ok,
               entries' = [entries EXCEPT ![c.e] = Ended(@, st)]
        PROVE  \E v \in EntryRecs: /\ entries' = [entries EXCEPT ![c.e] = v] /\ v.receipt = r /\ v.status # "none"
                                   /\ v.status = "resolved" => handled[r] > 0
    <3>1. PICK v: v = Ended(entries[c.e], st)
      OBVIOUS
    <3>2. v \in EntryRecs /\ v.status = st /\ v.receipt = r
      <4>1. entries[c.e].receipt = r
        BY <1>3 DEF LetterOf
      <4> QED
        BY <1>7, <3>1, <4>1, EndedRecs DEF EntryStatus
    <3>3. c.ok => handled[r] > 0
      BY <1>2, <1>3 DEF Knowing
    <3>4. entries' = [entries EXCEPT ![c.e] = v]
      BY <1>7, <2>2, <3>1
    <3> QED
      BY <2>2, <3>2, <3>3, <3>4
  <2>3. CASE ok /\ c.ok
    BY <1>6, <2>2, <2>3 DEF MarkResolved
  <2>4. CASE ok /\ ~ c.ok
    BY <1>6, <2>2, <2>4 DEF MarkReplayFailed
  <2> QED
    BY <2>1, <2>3, <2>4
<1>12. entries' = [entries EXCEPT ![c.e] = v] /\ v.receipt = r /\ v.status # "none" /\ (v.status = "resolved" => handled[r] > 0)
  BY <1>11
<1>13. UNCHANGED <<receipts, handled, unfiled>>
  BY <1>4
<1> QED
  BY <1>3, <1>5, <1>7, <1>8, <1>10, <1>12, <1>13, EntryGood

\* A dead letter that is claimed.
LEMMA ClaimEntryGood ==
    ASSUME InboxInv, NEW p \in Procs, NEW e \in Entries, NEW max, NEW cool, ClaimEntryForReplay(e, max, cool),
           NEW d \in ProcRecs, Goto(p, d), d.pc \in {"replay", "create"}, d.r = entries[e].receipt, d.e = e, Holding(d),
           \A s \in Receipts: ~ On(procs[p], s),
           UNCHANGED <<executions, lastExec, receipts, handled, unfiled>>
    PROVE  Good(p)
<1>1. entries[e] \in EntryRecs /\ entries \in [Entries -> EntryRecs]
  BY DEF InboxInv, HrisTypeOK
<1>2. entries[e].status \in {"dlq", "replaying"}
  BY <1>1 DEF ClaimEntryForReplay, dlqReplayClaimReason, EntryRecs, EntryStatus
<1>3. PICK r \in Receipts: r = entries[e].receipt /\ Known(r) /\ LetterOf(e, r)
  BY <1>2 DEF Known, LetterOf, Letter, InboxInv, EntriesOK
<1>4. e \in OpenEntry(r)
  BY <1>2, <1>3 DEF OpenEntry
<1>5. Knowing(d)
  BY <1>3, <1>4 DEF Knowing, Shielded
<1>6. PICK v \in EntryRecs: /\ v = [entries[e] EXCEPT !.status = "replaying", !.count = entries[e].count + 1, !.due = FALSE]
                            /\ v.status = "replaying" /\ v.receipt = entries[e].receipt
  BY <1>1, ClaimedRecs
<1>7. v.status = "replaying" /\ v.receipt = r /\ v.status # "none" /\ v.status # "resolved"
  BY <1>3, <1>6
<1>8. entries' = [entries EXCEPT ![e] = v]
  BY <1>6 DEF ClaimEntryForReplay
<1>9. \A s \in Receipts: s # r => (On(d, s) <=> On(procs[p], s))
  BY <1>3 DEF On
<1>10. ExecMove
  BY ExecStill
<1> QED
  BY <1>3, <1>4, <1>5, <1>7, <1>8, <1>9, <1>10, EntryGood

LEMMA TickEntryGood ==
    ASSUME InboxInv, NEW p \in Procs, TickEntry(p)
    PROVE  Good(p)
<1>1. PICK c: c = procs[p]
  OBVIOUS
<1>2. c \in ProcRecs /\ c.pc = "due" /\ c.kind = "dlq" /\ Holding(c)
  BY <1>1, ProcFacts DEF TickEntry, At
<1>3. UNCHANGED <<receipts, executions, lastExec, handled, unfiled>>
  BY DEF TickEntry, receiptVars, historyVars
<1>4. PICK e \in Entries: /\ ClaimEntryForReplay(e, MaxReplays, TRUE)
                          /\ Goto(p, [c EXCEPT !.pc = "replay", !.e = e, !.r = entries[e].receipt])
  BY <1>1 DEF TickEntry, DueEntries
<1>5. LetterOf(e, entries[e].receipt) /\ Known(entries[e].receipt)
  <2>1. entries[e].status # "none"
    BY <1>4 DEF ClaimEntryForReplay, dlqReplayClaimReason
  <2> QED
    BY <2>1 DEF LetterOf, Letter, InboxInv, EntriesOK
<1>6. PICK d: d = [c EXCEPT !.pc = "replay", !.e = e, !.r = entries[e].receipt]
  OBVIOUS
<1>7. d \in ProcRecs /\ d.pc = "replay" /\ d.r = entries[e].receipt /\ d.e = e
  BY <1>2, <1>5, <1>6 DEF ProcRecs, Pcs, Known
<1>8. Holding(d)
  BY <1>5, <1>7 DEF Holding
<1>9. \A s \in Receipts: ~ On(procs[p], s)
  BY <1>1, <1>2, HrisZero DEF On, Holding
<1> QED
  BY <1>3, <1>4, <1>6, <1>7, <1>8, <1>9, ClaimEntryGood

LEMMA ProcessEntryGood ==
    ASSUME InboxInv, NEW p \in Procs, NEW e \in Entries, ProcessEntry(p, e)
    PROVE  Good(p)
<1>1. procs[p] \in ProcRecs /\ procs[p].pc = "idle" /\ Holding(procs[p])
  BY ProcFacts DEF ProcessEntry, At
<1>3. UNCHANGED <<receipts, executions, lastExec, handled, unfiled>> /\ ClaimEntryForReplay(e, 0, FALSE)
  BY DEF ProcessEntry, receiptVars, historyVars
<1>5. LetterOf(e, entries[e].receipt) /\ Known(entries[e].receipt)
  <2>1. entries[e].status # "none"
    BY <1>3 DEF ClaimEntryForReplay, dlqReplayClaimReason
  <2> QED
    BY <2>1 DEF LetterOf, Letter, InboxInv, EntriesOK
<1>6. PICK d: d = [Idle EXCEPT !.pc = "replay", !.kind = "dlq", !.e = e, !.r = entries[e].receipt]
  OBVIOUS
<1>7. d \in ProcRecs /\ d.pc = "replay" /\ d.r = entries[e].receipt /\ d.e = e
  <2>1. d \in ProcRecs
    BY <1>5, <1>6, IdleFacts DEF ProcRecs, Pcs, Known, Kinds
  <2> QED
    BY <1>6, <2>1 DEF Idle
<1>8. Holding(d) /\ Goto(p, d)
  BY <1>5, <1>6, <1>7 DEF Holding, ProcessEntry
<1>9. \A s \in Receipts: ~ On(procs[p], s)
  BY <1>1, HrisZero DEF On, Holding
<1> QED
  BY <1>3, <1>7, <1>8, <1>9, ClaimEntryGood

LEMMA ClaimQueuedEntryGood ==
    ASSUME InboxInv, NEW p \in Procs, ClaimQueuedEntry(p)
    PROVE  Good(p)
<1>1. PICK c: c = procs[p]
  OBVIOUS
<1>2. c \in ProcRecs /\ c.pc = "queue" /\ c.kind = "dlq" /\ Holding(c)
  BY <1>1, ProcFacts DEF ClaimQueuedEntry, At
<1>3. UNCHANGED <<receipts, executions, lastExec, handled, unfiled>>
  BY DEF ClaimQueuedEntry, receiptVars, historyVars
<1>4. CASE dlqReplayClaimReason(entries[c.e], 0, FALSE) # ""
  <2>1. Goto(p, Idle) /\ UNCHANGED entries
    BY <1>1, <1>4 DEF ClaimQueuedEntry
  <2>2. ExecMove
    BY <1>3, ExecStill
  <2> QED
    BY <1>3, <2>1, <2>2, QuietEnd
<1>5. CASE dlqReplayClaimReason(entries[c.e], 0, FALSE) = ""
  <2>1. LetterOf(c.e, c.r) /\ Known(c.r) /\ EntrySnap(c) /\ c.e \in Entries /\ entries[c.e].receipt = c.r
    BY <1>2 DEF Holding, LetterOf, Letter
  <2>2. PICK d: d = [c EXCEPT !.pc = "create"]
    OBVIOUS
  <2>3. Goto(p, d) /\ ClaimEntryForReplay(c.e, 0, FALSE)
    BY <1>1, <1>5, <2>2 DEF ClaimQueuedEntry
  <2>4. d \in ProcRecs /\ d.pc = "create" /\ d.r = c.r /\ d.e = c.e /\ d.kind = "dlq" /\ d.orig = c.orig
    BY <1>2, <2>2 DEF ProcRecs, Pcs
  <2>5. EntrySnap(d)
    BY <2>1, <2>4 DEF EntrySnap
  <2>6. Holding(d)
    BY <2>1, <2>4, <2>5 DEF Holding
  <2>7. \A s \in Receipts: ~ On(procs[p], s)
    BY <1>1, <1>2 DEF On, Waiting
  <2> QED
    BY <1>3, <2>1, <2>3, <2>4, <2>6, <2>7, ClaimEntryGood
<1> QED
  BY <1>4, <1>5

-----------------------------------------------------------------------------
(* The dispatch, the endpoint, and time.                                    *)

\* A new execution has a fresh id and a target; others are at most cut off.
LEMMA CreateMoves ==
    ASSUME InboxInv, NEW k \in Kinds, NEW t, NEW src \in Execs \union {0}, NEW x, x = NextExec(lastExec), x # 0,
           CreateHRISWebhookExecution(x, k, t, src), lastExec' = x,
           IF k = "receipt" THEN Known(t) ELSE Letter(t)
    PROVE  ExecMove /\ x \in Execs
<1>1. executions \in [Execs -> ExecRecs] /\ lastExec \in Nat
  BY DEF InboxInv, HrisTypeOK
<1>2. PICK n \in Nat: n = Cardinality(Execs)
  BY HrisFinite, FS_CardinalityType
<1>3. x = lastExec + 1 /\ lastExec < n /\ Execs = 1..n
  BY <1>1, <1>2, HrisBounds DEF NextExec
<1>4. x \in Execs /\ x \in Nat /\ x > lastExec
  BY <1>1, <1>3
<1>5. t \in Receipts \union Entries \union {0}
  BY DEF Known, Letter
<1>6. PICK new \in ExecRecs: new = [status |-> "queued", kind |-> k, target |-> t, due |-> TRUE, src |-> src]
  BY <1>5 DEF ExecRecs, ExecStatus
<1>7. NoExec \in ExecRecs /\ NoExec.status = "none"
  BY DEF NoExec, ExecRecs, ExecStatus, Kinds
<1>8. PICK all: all = [executions EXCEPT ![x] = new]
  OBVIOUS
<1>9. /\ executions' = [y \in Execs |-> executions'[y]]
      /\ \A y \in Execs: executions'[y] = NoExec \/ executions'[y] = all[y]
  BY <1>6, <1>8 DEF CreateHRISWebhookExecution
<1>10. ASSUME NEW y \in Execs
       PROVE  /\ executions'[y] \in ExecRecs
              /\ executions'[y].status # "none" =>
                    \/ y # x /\ executions'[y] = executions[y]
                    \/ y = x /\ executions'[y] = new
  BY <1>1, <1>4, <1>7, <1>8, <1>9
<1>11. executions' \in [Execs -> ExecRecs]
  BY <1>9, <1>10
<1>12. new.kind = k /\ new.target = t
  BY <1>6
<1>13. ASSUME NEW y \in Execs, executions'[y].status # "none"
       PROVE  \/ /\ executions[y].status # "none" /\ executions'[y].kind = executions[y].kind
                 /\ executions'[y].target = executions[y].target
              \/ /\ y > lastExec /\ y <= lastExec'
                 /\ IF executions'[y].kind = "receipt" THEN Known(executions'[y].target) ELSE Letter(executions'[y].target)
  <2>1. CASE y # x /\ executions'[y] = executions[y]
    BY <1>13, <2>1
  <2>2. CASE y = x /\ executions'[y] = new
    BY <1>4, <1>12, <2>2
  <2> QED
    BY <1>10, <1>13, <2>1, <2>2
<1> QED
  BY <1>1, <1>4, <1>11, <1>13 DEF ExecMove

LEMMA DispatchGood ==
    ASSUME InboxInv, NEW p \in Procs, DispatchReceipt(p) \/ DispatchEntry(p)
    PROVE  Good(p)
<1>1. PICK c: c = procs[p]
  OBVIOUS
<1>2. PICK t: t = IF c.kind = "receipt" THEN c.r ELSE c.e
  OBVIOUS
<1>3. c \in ProcRecs /\ c.pc = "create" /\ Holding(c) /\ Knowing(c)
  BY <1>1, ProcFacts DEF DispatchReceipt, DispatchEntry, Dispatch, At
<1>4. Dispatch(p, c.kind, t) /\ c.kind \in Kinds
  BY <1>1, <1>2, <1>3 DEF DispatchReceipt, DispatchEntry, Dispatch, ProcRecs
<1>5. Known(c.r) /\ c.r \in Receipts /\ (IF c.kind = "receipt" THEN c.e = 0 ELSE LetterOf(c.e, c.r))
  BY <1>3 DEF Holding, Known
<1>6. PICK x: x = NextExec(lastExec)
  OBVIOUS
<1>7. PICK go \in {"enqueue", "goroutine"}: go = IF c.kind \in workers THEN "enqueue" ELSE "goroutine"
  OBVIOUS
<1>8. PICK d: d = [c EXCEPT !.pc = go, !.x = x, !.orig = NoReceipt, !.src = 0]
  OBVIOUS
<1>9. /\ Goto(p, d) /\ UNCHANGED <<receipts, entries, handled, unfiled>>
      /\ x # 0 /\ CreateHRISWebhookExecution(x, c.kind, t, c.src) /\ lastExec' = x
  BY <1>1, <1>4, <1>6, <1>7, <1>8 DEF Dispatch, historyVars
<1>10. ExecMove /\ x \in Execs
  <2>1. c.src \in Execs \union {0}
    BY <1>3 DEF ProcRecs
  <2>2. IF c.kind = "receipt" THEN Known(t) ELSE Letter(t)
    BY <1>2, <1>5 DEF LetterOf
  <2> QED
    BY <1>4, <1>6, <1>9, <2>1, <2>2, CreateMoves
<1>11. d \in ProcRecs /\ d.pc = go /\ d.r = c.r /\ d.e = c.e /\ d.kind = c.kind /\ d.dlq = c.dlq
  <2>1. NoReceipt \in ReceiptRecs
    BY DEF NoReceipt, ReceiptRecs, ReceiptStatus
  <2> QED
    BY <1>3, <1>8, <1>10, <2>1 DEF ProcRecs, Pcs
<1>12. Holding(d)
  BY <1>5, <1>11 DEF Holding
<1>13. Knowing(d)
  BY <1>3, <1>11 DEF Knowing, Within
<1>14. On(procs[p], c.r) /\ \A s \in Receipts: s # c.r => (On(d, s) <=> On(procs[p], s))
  BY <1>1, <1>3, <1>11 DEF On, Waiting
<1> QED
  BY <1>5, <1>9, <1>10, <1>11, <1>12, <1>13, <1>14, QuietGood

\* The snapshot that is written back leaves the receipt claimable, unless it was
\* shielded already when the snapshot was read.
LEMMA DispatchFailsGood ==
    ASSUME InboxInv, NEW p \in Procs, DispatchFails(p)
    PROVE  Good(p)
<1>1. PICK c: c = procs[p]
  OBVIOUS
<1>2. c \in ProcRecs /\ c.pc = "create" /\ Holding(c)
  BY <1>1, ProcFacts DEF DispatchFails, At
<1>3. PICK r \in Receipts: /\ r = c.r /\ Known(r)
                           /\ IF c.kind = "receipt" THEN ReceiptSnap(c) ELSE EntrySnap(c) /\ LetterOf(c.e, r)
  BY <1>2 DEF Holding, Known
<1>4. UNCHANGED <<executions, lastExec, handled, unfiled>> /\ Goto(p, Idle)
  BY DEF DispatchFails, historyVars
<1>5. ExecMove
  BY <1>4, ExecStill
<1>6. On(procs[p], r) /\ \A s \in Receipts: s # r => (On(Idle, s) <=> On(procs[p], s))
  BY <1>1, <1>2, <1>3, IdleFacts DEF On, Waiting
<1>7. Idle \in ProcRecs /\ Holding(Idle) /\ Knowing(Idle) /\ Knowing(Idle)'
  BY IdleFacts, IdleKnowing
<1>8. CASE c.kind = "receipt"
  <2>1. PICK w \in ReceiptRecs: w = c.orig /\ w.status # "none" /\ Unspent(w) /\ (Shielded(r) \/ Alive(w))
    BY <1>3, <1>8 DEF ReceiptSnap
  <2>2. receipts' = [receipts EXCEPT ![r] = w] /\ UNCHANGED entries
    BY <1>1, <1>3, <1>8, <2>1 DEF DispatchFails, RestoreHRISWebhookReceipt
  <2>3. Counted(r) /\ unfiled \subseteq unfiled' /\ unfiled' \subseteq Receipts
    BY <1>4 DEF Counted, InboxInv, HrisTypeOK
  <2> QED
    BY <1>3, <1>4, <1>5, <1>6, <1>7, <2>1, <2>2, <2>3, ReceiptGood
<1>9. CASE c.kind # "receipt"
  <2>1. PICK v \in EntryRecs: /\ v = c.orig /\ v.status # "none" /\ v.receipt = r
                              /\ v.status = "resolved" => handled[r] > 0
    BY <1>3, <1>9 DEF EntrySnap
  <2>2. entries' = [entries EXCEPT ![c.e] = v] /\ UNCHANGED <<receipts, handled, unfiled>>
    BY <1>1, <1>4, <1>9, <2>1 DEF DispatchFails, RestoreEntry
  <2>3. c.e \in Entries /\ LetterOf(c.e, r)
    BY <1>3, <1>9 DEF LetterOf, Letter
  <2> QED
    BY <1>3, <1>4, <1>5, <1>6, <1>7, <2>1, <2>2, <2>3, EntryGood
<1> QED
  BY <1>8, <1>9

\* A webhook that is received.
LEMMA ReceiveWebhookGood ==
    ASSUME InboxInv, NEW p \in Procs, NEW r \in Receipts, ReceiveWebhook(p, r)
    PROVE  Good(p)
<1>1. HrisTypeOK /\ ReceiptsOK /\ EntriesOK /\ ExecsOK
  BY DEF InboxInv
<1>2. UNCHANGED <<executions, entries, lastExec, handled, unfiled>>
  BY DEF ReceiveWebhook, historyVars
<1>3. PICK w \in ReceiptRecs: /\ receipts' = [receipts EXCEPT ![r] = w]
                              /\ w.status = "received" /\ w.attempts = receipts[r].attempts
  <2>1. receipts[r] \in ReceiptRecs
    BY <1>1 DEF HrisTypeOK
  <2>2. PICK w: w = [receipts[r] EXCEPT !.status = "received"]
    OBVIOUS
  <2>3. w \in ReceiptRecs /\ w.status = "received" /\ w.attempts = receipts[r].attempts
    BY <2>1, <2>2 DEF ReceiptRecs, ReceiptStatus
  <2>4. receipts' = [receipts EXCEPT ![r] = w]
    BY <2>2 DEF ReceiveWebhook, ReceiveHRISWebhookReceipt
  <2> QED
    BY <2>3, <2>4
<1>4. receipts[r].status = "none" /\ ~ Known(r)
  BY DEF ReceiveWebhook, ReceiveHRISWebhookReceipt, Known
<1>5. /\ receipts' \in [Receipts -> ReceiptRecs] /\ receipts'[r] = w
      /\ \A s \in Receipts: s # r => receipts'[s] = receipts[s]
  BY <1>1, <1>3 DEF HrisTypeOK
<1>6. \A s: Known(s) => Known(s)'
  BY <1>4, <1>5 DEF Known
<1>7. \A s: OpenEntry(s)' = OpenEntry(s)
  BY <1>2 DEF OpenEntry
<1>8. /\ procs' \in [Procs -> ProcRecs]
      /\ \A q \in Procs: q # p => procs'[q] = procs[q]
      /\ overlapped' \subseteq Receipts /\ overlapped \subseteq overlapped'
      /\ \A q1, q2 \in Procs: \A s \in Receipts:
            q1 # q2 /\ On(procs'[q1], s) /\ On(procs'[q2], s) => s \in overlapped'
      /\ procs'[p] = procs[p] \/ /\ procs'[p] = [Idle EXCEPT !.pc = "start", !.r = r, !.dlq = TRUE]
                                 /\ procs[p].pc = "idle"
  <2>1. CASE UNCHANGED <<procs, overlapped>>
    <3>1. procs \in [Procs -> ProcRecs] /\ overlapped \subseteq Receipts /\ Apart
      BY DEF InboxInv, HrisTypeOK
    <3> QED
      BY <2>1, <3>1 DEF Apart
  <2>2. CASE At(p, "idle") /\ Goto(p, [Idle EXCEPT !.pc = "start", !.r = r, !.dlq = TRUE])
    <3>1. [Idle EXCEPT !.pc = "start", !.r = r, !.dlq = TRUE] \in ProcRecs
      BY IdleFacts DEF ProcRecs, Pcs
    <3> QED
      BY <1>1, <2>2, <3>1, GotoFacts DEF At
  <2> QED
    BY <2>1, <2>2 DEF ReceiveWebhook
<1>9. HrisTypeOK'
  BY <1>1, <1>2, <1>5, <1>8 DEF HrisTypeOK
<1>10. PICK c: c = procs[p]
  OBVIOUS
<1>11. c \in ProcRecs /\ Holding(c) /\ Knowing(c)
  BY <1>10, ProcFacts
<1>12. \A q \in Procs: ~ On(procs[q], r)
  BY <1>4, OnKnown
<1>13. ASSUME NEW s \in Receipts, s # r
       PROVE  /\ receipts'[s].status = receipts[s].status /\ receipts'[s].attempts = receipts[s].attempts
              /\ handled'[s] = handled[s] /\ OpenEntry(s)' = OpenEntry(s)
              /\ On(procs'[p], s) <=> On(procs[p], s)
  <2>1. CASE procs'[p] = procs[p]
    BY <1>2, <1>5, <1>7, <1>13, <2>1
  <2>2. CASE procs'[p] = [Idle EXCEPT !.pc = "start", !.r = r, !.dlq = TRUE] /\ procs[p].pc = "idle"
    <3>1. procs'[p].r = r
      BY <2>2 DEF Idle
    <3>2. procs[p].r = 0
      BY <1>10, <1>11, <2>2 DEF Holding
    <3>3. ~ On(procs'[p], s) /\ ~ On(procs[p], s)
      BY <1>13, <3>1, <3>2, HrisZero DEF On
    <3> QED
      BY <1>2, <1>5, <1>7, <1>13, <3>3
  <2> QED
    BY <1>8, <2>1, <2>2
<1>14. Unspent(receipts[r])' /\ Alive(receipts[r])' /\ Alive(receipts[r]) /\ Known(r)'
  <2>1. receipts[r].attempts = 0
    BY <1>1, <1>4 DEF ReceiptsOK, Unspent
  <2> QED
    BY <1>3, <1>4, <1>5, <2>1 DEF Unspent, Alive, Known
<1>15. Frame(p, r)
  <2>1. handled[r] \in Nat /\ lastExec \in Nat
    BY <1>1 DEF HrisTypeOK
  <2>2. \A e \in Entries: Letter(e) => Letter(e)' /\ entries'[e].receipt = entries[e].receipt
    BY <1>2 DEF Letter
  <2>3. /\ Known(r) => Known(r)'
        /\ handled'[r] >= handled[r]
        /\ OpenEntry(r) # {} => OpenEntry(r)' # {} \/ handled'[r] > 0
        /\ handled[r] = 0 /\ OpenEntry(r) = {} /\ ~ Known(r)
              => handled'[r] = 0 /\ OpenEntry(r)' = {} /\ receipts'[r].status \in {"none", "received"}
    BY <1>2, <1>3, <1>5, <1>6, <1>7, <2>1
  <2>4. /\ overlapped \subseteq overlapped' /\ unfiled \subseteq unfiled' /\ lastExec' >= lastExec
        /\ \A x \in Execs: x <= lastExec /\ executions'[x].status # "none" =>
              executions[x].status # "none" /\ executions'[x].kind = executions[x].kind
    BY <1>2, <1>8, <2>1
  <2> QED
    BY <1>4, <1>8, <1>13, <1>14, <2>2, <2>3, <2>4 DEF Frame
<1>16. EntriesOK'
  <2>1. ASSUME NEW e \in Entries, Letter(e)'
        PROVE  Known(entries[e].receipt)' /\ (entries'[e].status = "resolved" => handled'[entries'[e].receipt] > 0)
    <3>1. PICK s: s = entries[e].receipt
      OBVIOUS
    <3>2. Known(s) /\ (entries[e].status = "resolved" => handled[s] > 0)
      BY <1>1, <1>2, <2>1, <3>1 DEF EntriesOK, Letter
    <3>3. Known(s)'
      BY <1>6, <3>2
    <3> QED
      BY <1>2, <3>1, <3>2, <3>3
  <2> QED
    BY <2>1 DEF EntriesOK
<1>17. ExecsOK'
  <2>1. ASSUME NEW x \in Execs, executions'[x].status # "none"
        PROVE  /\ x <= lastExec'
               /\ IF executions'[x].kind = "receipt" THEN Known(executions[x].target)' ELSE Letter(executions[x].target)'
    <3>1. PICK t: t = executions[x].target
      OBVIOUS
    <3>2. x <= lastExec /\ IF executions[x].kind = "receipt" THEN Known(t) ELSE Letter(t)
      BY <1>1, <1>2, <2>1, <3>1 DEF ExecsOK
    <3>3. IF executions[x].kind = "receipt" THEN Known(t)' ELSE Letter(t)'
      BY <1>2, <1>6, <3>2 DEF Letter
    <3> QED
      BY <1>2, <3>1, <3>2, <3>3
  <2> QED
    BY <2>1 DEF ExecsOK
<1>18. Holding(procs[p])' /\ Knowing(procs[p])'
  <2>1. CASE procs'[p] = procs[p]
    <3>1. Holding(c)'
      BY <1>9, <1>11, <1>15, HoldingStays
    <3>2. c.r \in Receipts /\ On(c, c.r) => receipts'[c.r] = receipts[c.r]
      BY <1>5, <1>10, <1>12
    <3>3. Knowing(c)'
      BY <1>9, <1>11, <1>15, <3>2, KnowingStays
    <3> QED
      BY <1>10, <2>1, <3>1, <3>3
  <2>2. CASE procs'[p] = [Idle EXCEPT !.pc = "start", !.r = r, !.dlq = TRUE]
    <3>1. PICK d: d = procs'[p]
      OBVIOUS
    <3>2. d.pc = "start" /\ d.r = r /\ d.dlq /\ d.e = 0
      BY <2>2, <3>1 DEF Idle
    <3>3. Holding(d)'
      BY <1>14, <3>2 DEF Holding
    <3>4. Within(d, 1)'
      BY <1>3, <1>5, <3>2 DEF Within
    <3>5. Knowing(d)'
      BY <3>2, <3>4 DEF Knowing
    <3> QED
      BY <3>1, <3>3, <3>5
  <2> QED
    BY <1>8, <2>1, <2>2
<1> QED
  BY <1>9, <1>15, <1>16, <1>17, <1>18 DEF Good

\* A step in which only a clock runs: no status, no attempt and no process changes.
Calm ==
    /\ UNCHANGED <<procs, overlapped, lastExec, handled, unfiled>>
    /\ receipts' \in [Receipts -> ReceiptRecs] /\ entries' \in [Entries -> EntryRecs]
    /\ executions' \in [Execs -> ExecRecs]
    /\ \A r \in Receipts: receipts'[r].status = receipts[r].status /\ receipts'[r].attempts = receipts[r].attempts
    /\ \A e \in Entries: entries'[e].status = entries[e].status /\ entries'[e].receipt = entries[e].receipt
    /\ \A x \in Execs: /\ executions'[x].status = executions[x].status /\ executions'[x].kind = executions[x].kind
                       /\ executions'[x].target = executions[x].target

LEMMA ElapseCalm ==
    ASSUME InboxInv, Elapse \/ UNCHANGED hrisVars
    PROVE  Calm
<1>1. /\ receipts \in [Receipts -> ReceiptRecs] /\ entries \in [Entries -> EntryRecs]
      /\ executions \in [Execs -> ExecRecs]
  BY DEF InboxInv, HrisTypeOK
<1>2. CASE \E r \in Receipts: ReceiptFallsDue(r) /\ UNCHANGED <<entries, procs, overlapped, lastExec, handled, unfiled>>
  <2>1. PICK r \in Receipts: /\ receipts' = [receipts EXCEPT ![r].due = TRUE]
                             /\ UNCHANGED <<executions, entries, procs, overlapped, lastExec, handled, unfiled>>
    BY <1>2 DEF ReceiptFallsDue
  <2>2. PICK w: w = [receipts[r] EXCEPT !.due = TRUE]
    OBVIOUS
  <2>3. receipts[r] \in ReceiptRecs
    BY <1>1
  <2>4. w \in ReceiptRecs /\ w.status = receipts[r].status /\ w.attempts = receipts[r].attempts
    BY <2>2, <2>3 DEF ReceiptRecs
  <2>5. receipts' = [receipts EXCEPT ![r] = w]
    BY <2>1, <2>2
  <2>6. /\ receipts' \in [Receipts -> ReceiptRecs]
        /\ \A s \in Receipts: receipts'[s].status = receipts[s].status /\ receipts'[s].attempts = receipts[s].attempts
    BY <1>1, <2>4, <2>5
  <2> QED
    BY <1>1, <2>1, <2>6 DEF Calm
<1>3. CASE \E e \in Entries: /\ EntryFallsDue(e)
                             /\ UNCHANGED <<receipts, executions, procs, overlapped, lastExec, handled, unfiled>>
  <2>1. PICK e \in Entries: /\ entries' = [entries EXCEPT ![e].due = TRUE]
                            /\ UNCHANGED <<executions, receipts, procs, overlapped, lastExec, handled, unfiled>>
    BY <1>3 DEF EntryFallsDue
  <2>2. PICK w: w = [entries[e] EXCEPT !.due = TRUE]
    OBVIOUS
  <2>3. entries[e] \in EntryRecs
    BY <1>1
  <2>4. w \in EntryRecs /\ w.status = entries[e].status /\ w.receipt = entries[e].receipt
    BY <2>2, <2>3 DEF EntryRecs
  <2>5. entries' = [entries EXCEPT ![e] = w]
    BY <2>1, <2>2
  <2>6. /\ entries' \in [Entries -> EntryRecs]
        /\ \A f \in Entries: entries'[f].status = entries[f].status /\ entries'[f].receipt = entries[f].receipt
    BY <1>1, <2>4, <2>5
  <2> QED
    BY <1>1, <2>1, <2>6 DEF Calm
<1>4. CASE \E x \in Execs: ExecutionFallsDue(x) /\ UNCHANGED <<entries, procs, overlapped, lastExec, handled, unfiled>>
  <2>1. PICK x \in Execs: /\ executions' = [executions EXCEPT ![x].due = TRUE]
                          /\ UNCHANGED <<entries, receipts, procs, overlapped, lastExec, handled, unfiled>>
    BY <1>4 DEF ExecutionFallsDue
  <2>2. PICK w: w = [executions[x] EXCEPT !.due = TRUE]
    OBVIOUS
  <2>3. executions[x] \in ExecRecs
    BY <1>1
  <2>4. /\ w \in ExecRecs /\ w.status = executions[x].status /\ w.kind = executions[x].kind
        /\ w.target = executions[x].target
    BY <2>2, <2>3 DEF ExecRecs
  <2>5. executions' = [executions EXCEPT ![x] = w]
    BY <2>1, <2>2
  <2>6. /\ executions' \in [Execs -> ExecRecs]
        /\ \A y \in Execs: /\ executions'[y].status = executions[y].status /\ executions'[y].kind = executions[y].kind
                           /\ executions'[y].target = executions[y].target
    BY <1>1, <2>4, <2>5
  <2> QED
    BY <1>1, <2>1, <2>6 DEF Calm
<1>5. CASE UNCHANGED <<receipts, executions, entries, procs, overlapped, lastExec, handled, unfiled>>
  BY <1>1, <1>5 DEF Calm
<1>6. CASE Elapse
  BY <1>2, <1>3, <1>4, <1>5, <1>6 DEF Elapse, receiptVars, historyVars
<1>7. CASE UNCHANGED hrisVars
  BY <1>5, <1>7 DEF hrisVars
<1> QED
  BY <1>6, <1>7

LEMMA CalmKeeps ==
    ASSUME InboxInv, Calm
    PROVE  InboxInv' /\ \A r \in Receipts: InboxState(r)' = InboxState(r)
<1>1. HrisTypeOK /\ ReceiptsOK /\ EntriesOK /\ ExecsOK /\ Apart /\ ProcsOK
  BY DEF InboxInv
<1>2. /\ \A s: Known(s)' = Known(s)
      /\ \A e: Letter(e)' = Letter(e)
      /\ \A e, s: LetterOf(e, s)' = LetterOf(e, s)
  BY DEF Calm, Known, Letter, LetterOf
<1>3. \A s: OpenEntry(s)' = OpenEntry(s)
  BY DEF Calm, OpenEntry
<1>4. \A s: Shielded(s)' = Shielded(s)
  BY <1>3 DEF Calm, Shielded
<1>5. \A s \in Receipts: Unspent(receipts[s])' = Unspent(receipts[s]) /\ Alive(receipts[s])' = Alive(receipts[s])
  BY DEF Calm, Unspent, Alive
<1>6. HrisTypeOK' /\ ReceiptsOK'
  BY <1>1, <1>4, <1>5 DEF Calm, HrisTypeOK, ReceiptsOK
<1>7. EntriesOK'
  <2>1. ASSUME NEW e \in Entries, Letter(e)'
        PROVE  Known(entries[e].receipt)' /\ (entries'[e].status = "resolved" => handled'[entries'[e].receipt] > 0)
    <3>1. PICK s: s = entries[e].receipt
      OBVIOUS
    <3>2. entries'[e].receipt = s /\ entries'[e].status = entries[e].status /\ handled' = handled
      BY <3>1 DEF Calm
    <3>3. Known(s) /\ (entries[e].status = "resolved" => handled[s] > 0)
      BY <1>1, <1>2, <2>1, <3>1 DEF EntriesOK
    <3> QED
      BY <1>2, <3>2, <3>3
  <2> QED
    BY <2>1 DEF EntriesOK
<1>8. ExecsOK'
  <2>1. ASSUME NEW x \in Execs, executions'[x].status # "none"
        PROVE  /\ x <= lastExec'
               /\ IF executions'[x].kind = "receipt" THEN Known(executions[x].target)' ELSE Letter(executions[x].target)'
    <3>1. PICK t: t = executions[x].target
      OBVIOUS
    <3>2. /\ executions'[x].target = t /\ executions'[x].status = executions[x].status
          /\ executions'[x].kind = executions[x].kind /\ lastExec' = lastExec
      BY <3>1 DEF Calm
    <3>3. x <= lastExec /\ IF executions[x].kind = "receipt" THEN Known(t) ELSE Letter(t)
      BY <1>1, <2>1, <3>1, <3>2 DEF ExecsOK
    <3> QED
      BY <1>2, <3>2, <3>3
  <2> QED
    BY <2>1 DEF ExecsOK
<1>9. Apart'
  BY <1>1 DEF Apart, Calm
<1>10. ProcsOK'
  <2>1. ASSUME NEW p \in Procs PROVE Holding(procs[p])' /\ Knowing(procs[p])'
    <3>1. PICK c: c = procs[p]
      OBVIOUS
    <3>2. procs'[p] = c /\ c \in ProcRecs /\ Holding(c) /\ Knowing(c)
      BY <3>1, ProcFacts DEF Calm
    <3>3. ReceiptSnap(c)' = ReceiptSnap(c) /\ EntrySnap(c)' = EntrySnap(c)
      BY <1>4 DEF ReceiptSnap, EntrySnap, Calm
    <3>4. c.pc = "claim" => /\ c.x \in Execs /\ c.x <= lastExec'
                            /\ executions'[c.x].status # "none" => executions'[c.x].kind = c.kind
      BY <3>2 DEF Holding, Calm
    <3>5. Holding(c)'
      BY <1>2, <3>2, <3>3, <3>4 DEF Holding
    <3>6. ASSUME c.pc \in {"start", "run", "create", "enqueue", "goroutine"}, NEW n, Within(c, n) PROVE Within(c, n)'
      <4>1. c.r \in Receipts
        BY <3>2, <3>6 DEF Holding, Known
      <4> QED
        BY <3>6, <4>1 DEF Within, Calm
    <3>7. Knowing(c)'
      BY <1>4, <3>2, <3>6 DEF Knowing, Calm
    <3> QED
      BY <3>2, <3>5, <3>7
  <2> QED
    BY <2>1 DEF ProcsOK
<1>11. ASSUME NEW r \in Receipts PROVE InboxState(r)' = InboxState(r)
  <2>1. OnReceipt(r)' = OnReceipt(r)
    BY DEF OnReceipt, Calm
  <2>2. InHand(r)' = InHand(r)
    BY <2>1 DEF InHand, Calm
  <2> QED
    BY <1>3, <2>2 DEF InboxState, Calm
<1> QED
  BY <1>6, <1>7, <1>8, <1>9, <1>10, <1>11 DEF InboxInv

-----------------------------------------------------------------------------

LEMMA InboxInit ==
    ASSUME HrisInit
    PROVE  InboxInv /\ Promise!Init
<1>1. receipts = [r \in Receipts |-> NoReceipt] /\ NoReceipt \in ReceiptRecs
  BY DEF HrisInit, ReceiptsInit, NoReceipt, ReceiptRecs, ReceiptStatus
<1>2. executions = [x \in Execs |-> NoExec] /\ NoExec \in ExecRecs
  BY DEF HrisInit, ReceiptsInit, NoExec, ExecRecs, ExecStatus, Kinds
<1>3. entries = [e \in Entries |-> NoEntry] /\ NoEntry \in EntryRecs
  BY DEF HrisInit, DlqInit, NoEntry, EntryRecs, EntryStatus
<1>4. procs = [p \in Procs |-> Idle] /\ lastExec = 0 /\ handled = [r \in Receipts |-> 0] /\ unfiled = {} /\ overlapped = {}
  BY DEF HrisInit
<1>5. HrisTypeOK
  BY <1>1, <1>2, <1>3, <1>4, IdleFacts DEF HrisTypeOK
<1>6. ReceiptsOK
  BY <1>1 DEF ReceiptsOK, Unspent, Alive, NoReceipt
<1>7. EntriesOK /\ \A r \in Receipts: OpenEntry(r) = {}
  BY <1>3 DEF EntriesOK, Letter, NoEntry, OpenEntry
<1>8. ExecsOK
  BY <1>2 DEF ExecsOK, NoExec
<1>9. Apart /\ ProcsOK
  BY <1>4, IdleFacts DEF Apart, ProcsOK
<1>10. \A r \in Receipts: InboxState(r) = "absent"
  BY <1>1, <1>4, <1>7 DEF InboxState, NoReceipt
<1>11. Promise!Init
  BY <1>4, <1>10 DEF Promise!Init
<1> QED
  BY <1>5, <1>6, <1>7, <1>8, <1>9, <1>11 DEF InboxInv

\* Every step of a process, and every request, is good.
LEMMA HrisStepGood ==
    ASSUME InboxInv, NEW p \in Procs, Step(p) \/ Request(p) \/ Tick(p) \/ Crash(p)
    PROVE  Good(p)
<1>1. CASE Step(p)
  BY <1>1, StartReceiptGood, SkipReceiptGood, FailReceiptGood, SyncReceiptGood, FinishReceiptGood,
     ReplayEntryGood, EndReplayGood, RestoreReceiptDLQGood, CompleteGood, EndingsGood, TickQueueGood,
     ClaimExecutionGood, ReceiptTargetGood, EntryTargetGood, TickReceiptGood, TickEntryGood,
     ClaimQueuedReceiptGood, ClaimQueuedEntryGood, DispatchGood, DispatchFailsGood, RunGoroutineGood
     DEF Step
<1>2. CASE Request(p)
  BY <1>2, ReceiveWebhookGood, ProcessReceiptGood, ProcessEntryGood, QueueRequestsGood DEF Request
<1>3. CASE Tick(p)
  <2>1. PICK k \in Kinds: StartTick(p, k)
    BY <1>3 DEF Tick, StartReceiptTick, StartEntryTick, Kinds
  <2> QED
    BY <2>1, StartTickGood
<1>4. CASE Crash(p)
  BY <1>4, EndingsGood
<1> QED
  BY <1>1, <1>2, <1>3, <1>4

LEMMA HrisNextGood ==
    ASSUME InboxInv, [HrisNext]_hrisVars
    PROVE  InboxInv' /\ (MaxAttempts > 1 => Promise!Next)
<1>1. CASE Elapse \/ UNCHANGED hrisVars
  <2>1. Calm
    BY <1>1, ElapseCalm
  <2>2. InboxInv' /\ \A r \in Receipts: InboxState(r)' = InboxState(r)
    BY <2>1, CalmKeeps
  <2>3. [r \in Receipts |-> InboxState(r)]' = [r \in Receipts |-> InboxState(r)]
    BY <2>2
  <2>4. Promise!Excuse
    <3>1. (unfiled \union overlapped)' = (unfiled \union overlapped) \union {}
      BY <2>1 DEF Calm
    <3> QED
      BY <3>1 DEF Promise!Excuse
  <2> QED
    BY <2>2, <2>3, <2>4 DEF Promise!Next
<1>2. ASSUME NEW p \in Procs, Step(p) \/ Request(p) \/ Tick(p) \/ Crash(p)
      PROVE  InboxInv' /\ (MaxAttempts > 1 => Promise!Next)
  <2>1. Good(p)
    BY <1>2, HrisStepGood
  <2>2. InboxInv'
    BY <2>1, GoodKeeps
  <2> QED
    BY <2>1, <2>2, GoodMoves
<1> QED
  BY <1>1, <1>2 DEF HrisNext

\* The pipeline implements Inbox, whatever crashes, fails and times out, for any
\* number of processes, receipts, dead letters and executions, if a receipt has
\* more than one attempt: a webhook that was accepted is handled, has an open dead
\* letter or can be taken up, unless a dead letter could not be stored or two
\* processes had it at the same time.
THEOREM WebhooksNotLost == MaxAttempts > 1 => (HrisSafetySpec => NotLost)
<1> SUFFICES ASSUME MaxAttempts > 1 PROVE HrisSafetySpec => NotLost
  OBVIOUS
<1>1. HrisInit => InboxInv /\ Promise!Init
  BY InboxInit
<1>2. InboxInv /\ [HrisNext]_hrisVars => InboxInv' /\ Promise!Next
  BY HrisNextGood
<1> QED
  BY <1>1, <1>2, PTL DEF HrisSafetySpec, NotLost, Promise!Spec

\* The stores, the processes and the history keep the shape the code gives them.
THEOREM HrisTypeCorrect == HrisSafetySpec => []HrisTypeOK
<1>1. HrisInit => InboxInv
  BY InboxInit
<1>2. InboxInv /\ [HrisNext]_hrisVars => InboxInv'
  BY HrisNextGood
<1>3. InboxInv => HrisTypeOK
  BY DEF InboxInv
<1> QED
  BY <1>1, <1>2, <1>3, PTL DEF HrisSafetySpec
-----------------------------------------------------------------------------
(* HRIS webhooks: a receipt is handled once.                                *)
(*                                                                         *)
(* The right to work on a receipt is with one process or with one queued    *)
(* execution, and the same holds for a dead letter. While somebody has it,  *)
(* the receipt is processing (the dead letter is replaying) with a timeout   *)
(* that has not passed, so nobody else can claim it. A receipt that was      *)
(* handled, or that has a dead letter, is shut: it cannot be claimed as a    *)
(* receipt again, and it is reopened only by the one who has the letter.    *)

\* No store call has failed, no process has crashed, and no timeout has passed
\* during the work it guards.
Untroubled == "receipt" \in workers /\ left.faults = MaxFaults /\ left.late = MaxLate
LeftOK == /\ left \in [faults: Nat, late: Nat, manual: Nat, total: Nat]
          /\ left.faults <= MaxFaults /\ left.late <= MaxLate

NoLetter(r) == \A e \in Entries: ~ LetterOf(e, r)

\* Who has the right to work on a receipt: a process c or a queued execution z.
ReceiptJob(c, r) == c.r = r /\ c.e = 0 /\ c.pc \in {"create", "target", "run", "markok"}
ReceiptQueued(z, r) == z.status = "queued" /\ z.kind = "receipt" /\ z.target = r
\* The same for a dead letter.
EntryJob(c, e) ==
    c.e = e /\ c.pc \in {"create", "goroutine", "target", "replay", "start", "run", "markok", "entry"}
EntryQueued(z, e) == "dlq" \in workers /\ z.status = "queued" /\ z.kind = "dlq" /\ z.target = e

\* The process has handled its receipt and has yet to report it.
Handled(c) == c.pc = "markok" \/ (c.pc = "entry" /\ c.ok)
Writing == {"run", "markok", "markdlq"}
\* Where a process answers for the execution it runs.
Linked == {"target", "replay", "start", "run", "markok", "markdlq", "entry", "redlq", "complete"}

Claimed(r) == receipts[r].status = "processing" /\ ~ receipts[r].due
Replaying(e) == entries[e].status = "replaying" /\ ~ entries[e].due
Shut(r) == \/ receipts[r].status \in {"processed", "skipped", "dlq"}
           \/ receipts[r].status = "failed" /\ receipts[r].attempts >= MaxAttempts
           \/ Claimed(r) /\ \E q \in Procs: procs[q].r = r /\ procs[q].pc \in Writing

ReceiptOnce(r) ==
    /\ \A p \in Procs: ReceiptJob(procs[p], r) => Claimed(r) /\ NoLetter(r) /\ (handled[r] = 0 \/ Handled(procs[p]))
    /\ \A x \in Execs: ReceiptQueued(executions[x], r) => Claimed(r) /\ NoLetter(r) /\ handled[r] = 0
    /\ \A p, q \in Procs: ReceiptJob(procs[p], r) /\ ReceiptJob(procs[q], r) => p = q
    /\ \A p \in Procs: \A x \in Execs: ~ (ReceiptJob(procs[p], r) /\ ReceiptQueued(executions[x], r))
    /\ \A x, y \in Execs: ReceiptQueued(executions[x], r) /\ ReceiptQueued(executions[y], r) => x = y
    /\ ~ NoLetter(r) => receipts[r].attempts >= MaxAttempts
    /\ ~ NoLetter(r) \/ handled[r] > 0 => Shut(r)
    /\ handled[r] <= 1

EntryOnce(e) ==
    /\ \A p \in Procs: EntryJob(procs[p], e) =>
          Replaying(e) /\ (handled[entries[e].receipt] = 0 \/ Handled(procs[p]))
    /\ \A x \in Execs: EntryQueued(executions[x], e) => Replaying(e) /\ handled[entries[e].receipt] = 0
    /\ \A p, q \in Procs: EntryJob(procs[p], e) /\ EntryJob(procs[q], e) => p = q
    /\ \A p \in Procs: \A x \in Execs: ~ (EntryJob(procs[p], e) /\ EntryQueued(executions[x], e))
    /\ \A x, y \in Execs: EntryQueued(executions[x], e) /\ EntryQueued(executions[y], e) => x = y
    /\ Letter(e) /\ handled[entries[e].receipt] > 0 =>
          \/ entries[e].status = "resolved"
          \/ Replaying(e) /\ \E q \in Procs: EntryJob(procs[q], e) /\ Handled(procs[q])

\* A receipt has one dead letter.
LettersOnce == \A e, f \in Entries: Letter(e) /\ Letter(f) /\ entries[e].receipt = entries[f].receipt => e = f

\* A running execution has a process that answers for it.
RunningOnce(x) == executions[x].status = "running" =>
    /\ ~ executions[x].due
    /\ \E p \in Procs: procs[p].x = x /\ procs[p].pc \in Linked

Own(c) ==
    /\ c.pc = "start" => c.e # 0
    /\ c.pc \in {"start", "run"} /\ c.e # 0 => ~ c.dlq
    /\ c.pc = "run" /\ c.dlq => receipts[c.r].attempts >= MaxAttempts
    /\ c.pc = "markdlq" => c.e = 0 /\ ~ NoLetter(c.r)
    /\ c.pc = "target" => /\ c.x \in Execs /\ c.x <= lastExec
                          /\ executions[c.x].status # "none" =>
                                /\ executions[c.x].kind = c.kind
                                /\ executions[c.x].target = IF c.kind = "receipt" THEN c.r ELSE c.e
    /\ c.pc \in {"tick", "claim", "due", "target"} => c.kind \in workers
    /\ c.pc = "goroutine" => c.kind \notin workers

Once == /\ \A r \in Receipts: ReceiptOnce(r)
        /\ \A e \in Entries: EntryOnce(e)
        /\ LettersOnce
        /\ \A x \in Execs: RunningOnce(x)
        /\ \A p \in Procs: Own(procs[p])

OnceInv == InboxInv /\ LeftOK /\ (Untroubled => Once)

-----------------------------------------------------------------------------
(* A step of one process that concerns at most one receipt, one dead letter *)
(* and one execution.                                                       *)

Reach(p, r, e, x) ==
    /\ \A q \in Procs: q # p => procs'[q] = procs[q]
    /\ workers' = workers /\ lastExec' >= lastExec
    /\ \A s \in Receipts: s # r =>
          /\ receipts'[s] = receipts[s] /\ handled'[s] = handled[s]
          /\ ~ ReceiptJob(procs[p], s) /\ ~ ReceiptJob(procs'[p], s)
          /\ \A y \in Execs: ReceiptQueued(executions'[y], s) => ReceiptQueued(executions[y], s)
    /\ \A f \in Entries: f # e =>
          /\ entries'[f] = entries[f]
          /\ ~ EntryJob(procs[p], f) /\ ~ EntryJob(procs'[p], f)
          /\ \A y \in Execs: EntryQueued(executions'[y], f) => EntryQueued(executions[y], f)
          /\ Letter(f) => handled'[entries[f].receipt] = handled[entries[f].receipt]
    /\ \A y \in Execs: y # x => executions'[y] = executions[y] \/ executions'[y].status = "none"
    /\ \A y \in Execs: y <= lastExec /\ executions'[y].status # "none" =>
          /\ executions[y].status # "none"
          /\ executions'[y].kind = executions[y].kind /\ executions'[y].target = executions[y].target
    /\ \A f \in Entries: Letter(f) => Letter(f)' /\ entries'[f].receipt = entries[f].receipt
    /\ \A f \in Entries: Letter(f)' /\ ~ Letter(f) => entries'[f].receipt = r /\ NoLetter(r)
    /\ procs[p].pc \in Writing => procs[p].r = r
    /\ procs[p].pc \in Linked /\ procs[p].x \notin {0, x} => procs'[p].x = procs[p].x /\ procs'[p].pc \in Linked
    /\ \A s \in Receipts: receipts'[s].attempts >= receipts[s].attempts \/ ReceiptJob(procs[p], s)

\* Nobody else has the receipt or the dead letter.
SoleReceipt(p, r, x) == /\ \A q \in Procs: q # p => ~ ReceiptJob(procs[q], r)
                        /\ \A y \in Execs: y # x => ~ ReceiptQueued(executions[y], r)
SoleEntry(p, e, x) == /\ \A q \in Procs: q # p => ~ EntryJob(procs[q], e)
                      /\ \A y \in Execs: y # x => ~ EntryQueued(executions[y], e)

\* What the step does to the three.
ReceiptDone(p, r, x) ==
    /\ SoleReceipt(p, r, x)
    /\ ReceiptJob(procs'[p], r) => Claimed(r)' /\ NoLetter(r)' /\ (handled'[r] = 0 \/ Handled(procs'[p]))
    /\ x \in Execs /\ ReceiptQueued(executions'[x], r) =>
          Claimed(r)' /\ NoLetter(r)' /\ handled'[r] = 0 /\ ~ ReceiptJob(procs'[p], r)
    /\ ~ NoLetter(r)' => receipts'[r].attempts >= MaxAttempts
    /\ ~ NoLetter(r)' \/ handled'[r] > 0 => Shut(r)'
    /\ handled'[r] <= 1
EntryDone(p, e, x) ==
    /\ SoleEntry(p, e, x)
    /\ EntryJob(procs'[p], e) => Replaying(e)' /\ (handled'[entries'[e].receipt] = 0 \/ Handled(procs'[p]))
    /\ x \in Execs /\ EntryQueued(executions'[x], e) =>
          Replaying(e)' /\ handled'[entries'[e].receipt] = 0 /\ ~ EntryJob(procs'[p], e)
    /\ Letter(e)' /\ handled'[entries'[e].receipt] > 0 =>
          entries'[e].status = "resolved" \/ (Replaying(e)' /\ EntryJob(procs'[p], e) /\ Handled(procs'[p]))
ExecDone(p, x) ==
    executions'[x].status = "running" => ~ executions'[x].due /\ procs'[p].x = x /\ procs'[p].pc \in Linked

Sound(p, r, e, x) == /\ Reach(p, r, e, x)
                     /\ r \in Receipts => ReceiptDone(p, r, x)
                     /\ e \in Entries => EntryDone(p, e, x)
                     /\ x \in Execs => ExecDone(p, x)
                     /\ Own(procs[p])'

LEMMA LettersElsewhere ==
    ASSUME NEW p, NEW r, NEW e, NEW x, Reach(p, r, e, x), NEW s \in Receipts
    PROVE  (s # r => (NoLetter(s)' <=> NoLetter(s))) /\ (~ NoLetter(s) => ~ NoLetter(s)')
<1>1. ASSUME NEW f \in Entries PROVE LetterOf(f, s) => LetterOf(f, s)'
  BY DEF Reach, LetterOf
<1>2. ASSUME NEW f \in Entries, s # r PROVE LetterOf(f, s)' => LetterOf(f, s)
  BY <1>2 DEF Reach, LetterOf
<1> QED
  BY <1>1, <1>2 DEF NoLetter

LEMMA ReceiptsElsewhere ==
    ASSUME NEW p \in Procs, NEW r, NEW e, NEW x, Reach(p, r, e, x), NEW s \in Receipts, s # r, ReceiptOnce(s)
    PROVE  ReceiptOnce(s)'
<1>1. NoLetter(s)' <=> NoLetter(s)
  BY LettersElsewhere
<1>2. receipts'[s] = receipts[s] /\ handled'[s] = handled[s] /\ (Claimed(s)' <=> Claimed(s))
  BY DEF Reach, Claimed
<1>3. \A q \in Procs: ReceiptJob(procs'[q], s) => procs'[q] = procs[q] /\ ReceiptJob(procs[q], s)
  BY DEF Reach
<1>4. \A y \in Execs: ReceiptQueued(executions'[y], s) => ReceiptQueued(executions[y], s)
  BY DEF Reach
<1>5. Shut(s) => Shut(s)'
  <2>1. ASSUME NEW q \in Procs, procs[q].r = s, procs[q].pc \in Writing
        PROVE  procs'[q] = procs[q]
    BY <2>1 DEF Reach
  <2> QED
    BY <1>2, <2>1 DEF Shut
<1> QED
  BY <1>1, <1>2, <1>3, <1>4, <1>5 DEF ReceiptOnce

LEMMA ReceiptHere ==
    ASSUME NEW p \in Procs, NEW r \in Receipts, NEW e, NEW x, Reach(p, r, e, x), ReceiptDone(p, r, x)
    PROVE  ReceiptOnce(r)'
<1>1. \A q \in Procs: ReceiptJob(procs'[q], r) => q = p
  BY DEF Reach, ReceiptDone, SoleReceipt
<1>2. \A y \in Execs: ReceiptQueued(executions'[y], r) => y = x
  BY DEF Reach, ReceiptDone, SoleReceipt, ReceiptQueued
<1> QED
  BY <1>1, <1>2 DEF ReceiptOnce, ReceiptDone

LEMMA EntriesElsewhere ==
    ASSUME NEW p \in Procs, NEW r, NEW e, NEW x, Reach(p, r, e, x), NEW f \in Entries, f # e, EntryOnce(f)
    PROVE  EntryOnce(f)'
<1>1. entries'[f] = entries[f] /\ (Replaying(f)' <=> Replaying(f)) /\ (Letter(f)' <=> Letter(f)) /\ (Replaying(f) => Letter(f))
  BY DEF Reach, Replaying, Letter
<1>2. Letter(f) => handled'[entries'[f].receipt] = handled[entries[f].receipt]
  BY <1>1 DEF Reach
<1>3. \A q \in Procs: EntryJob(procs'[q], f) <=> EntryJob(procs[q], f)
  BY DEF Reach
<1>4. \A q \in Procs: EntryJob(procs[q], f) => procs'[q] = procs[q]
  BY DEF Reach
<1>5. \A y \in Execs: EntryQueued(executions[y], f)' => EntryQueued(executions[y], f)
  BY DEF Reach, EntryQueued
<1> QED
  BY <1>1, <1>2, <1>3, <1>4, <1>5 DEF EntryOnce

LEMMA EntryHere ==
    ASSUME NEW p \in Procs, NEW r, NEW e \in Entries, NEW x, Reach(p, r, e, x), EntryDone(p, e, x)
    PROVE  EntryOnce(e)'
<1>1. \A q \in Procs: EntryJob(procs'[q], e) => q = p
  BY DEF Reach, EntryDone, SoleEntry
<1>2. \A y \in Execs: EntryQueued(executions[y], e)' => y = x
  BY DEF Reach, EntryDone, SoleEntry, EntryQueued
<1>3. \A y \in Execs: EntryQueued(executions[y], e)' <=> EntryQueued(executions'[y], e)
  BY DEF EntryQueued, Reach
<1> QED
  BY <1>1, <1>2, <1>3 DEF EntryOnce, EntryDone

LEMMA OwnStays ==
    ASSUME InboxInv, HrisTypeOK', NEW p \in Procs, NEW r, NEW e, NEW x, Reach(p, r, e, x), Once,
           NEW q \in Procs, q # p
    PROVE  Own(procs[q])'
<1>1. PICK c: c = procs[q]
  OBVIOUS
<1>2. procs'[q] = c /\ c \in ProcRecs /\ Own(c) /\ Holding(c)
  BY <1>1, ProcFacts DEF Reach, Once
<1>3. ASSUME c.pc = "run", c.dlq PROVE receipts'[c.r].attempts >= MaxAttempts
  <2>1. c.e = 0 /\ c.r \in Receipts /\ receipts[c.r].attempts >= MaxAttempts
    BY <1>2, <1>3 DEF Own, Holding, Known
  <2>2. ReceiptJob(c, c.r)
    BY <1>3, <2>1 DEF ReceiptJob
  <2>3. ~ ReceiptJob(procs[p], c.r)
    BY <1>1, <2>1, <2>2 DEF Once, ReceiptOnce
  <2>4. receipts'[c.r].attempts >= receipts[c.r].attempts
    BY <2>1, <2>3 DEF Reach
  <2>5. receipts'[c.r].attempts \in Nat /\ receipts[c.r].attempts \in Nat /\ MaxAttempts \in Nat
    BY <2>1, HrisBounds DEF InboxInv, HrisTypeOK, ReceiptRecs
  <2> QED
    BY <2>1, <2>4, <2>5
<1>4. ASSUME c.pc = "markdlq" PROVE c.e = 0 /\ ~ NoLetter(c.r)'
  <2>1. c.e = 0 /\ ~ NoLetter(c.r) /\ c.r \in Receipts
    BY <1>2, <1>4 DEF Own, Holding, Known
  <2> QED
    BY <2>1, LettersElsewhere
<1>5. ASSUME c.pc = "target"
      PROVE  /\ c.x \in Execs /\ c.x <= lastExec'
             /\ executions'[c.x].status # "none" =>
                   /\ executions'[c.x].kind = c.kind
                   /\ executions'[c.x].target = IF c.kind = "receipt" THEN c.r ELSE c.e
  <2>1. /\ c.x \in Execs /\ c.x <= lastExec
        /\ executions[c.x].status # "none" =>
              /\ executions[c.x].kind = c.kind
              /\ executions[c.x].target = IF c.kind = "receipt" THEN c.r ELSE c.e
    BY <1>2, <1>5 DEF Own
  <2>2. c.x \in Nat /\ lastExec \in Nat /\ lastExec' \in Nat /\ lastExec' >= lastExec
    BY <2>1, HrisZero DEF InboxInv, HrisTypeOK, Reach
  <2>3. executions'[c.x].status # "none" =>
          /\ executions[c.x].status # "none"
          /\ executions'[c.x].kind = executions[c.x].kind /\ executions'[c.x].target = executions[c.x].target
    BY <2>1 DEF Reach
  <2> QED
    BY <2>1, <2>2, <2>3
<1>6. workers' = workers
  BY DEF Reach
<1>7. Own(c)'
  BY <1>2, <1>3, <1>4, <1>5, <1>6 DEF Own
<1> QED
  BY <1>2, <1>7

LEMMA SoundKeeps ==
    ASSUME InboxInv, HrisTypeOK', NEW p \in Procs, NEW r, NEW e, NEW x, Sound(p, r, e, x), Once
    PROVE  Once'
<1>1. /\ Reach(p, r, e, x) /\ (r \in Receipts => ReceiptDone(p, r, x)) /\ (e \in Entries => EntryDone(p, e, x))
      /\ (x \in Execs => ExecDone(p, x)) /\ Own(procs[p])'
  BY DEF Sound
<1>2. ASSUME NEW s \in Receipts PROVE ReceiptOnce(s)'
  BY <1>1, ReceiptsElsewhere, ReceiptHere DEF Once
<1>3. ASSUME NEW f \in Entries PROVE EntryOnce(f)'
  BY <1>1, EntriesElsewhere, EntryHere DEF Once
<1>4. LettersOnce'
  <2>1. ASSUME NEW f \in Entries, NEW g \in Entries, Letter(f)', Letter(g)', entries'[f].receipt = entries'[g].receipt
        PROVE  f = g
    <3>1. CASE Letter(f) /\ Letter(g)
      BY <1>1, <2>1, <3>1 DEF Reach, Once, LettersOnce
    <3>2. CASE ~ Letter(f) /\ ~ Letter(g)
      BY <1>1, <2>1, <3>2 DEF Reach, Letter
    <3>3. ASSUME NEW h \in Entries, Letter(h), NEW k \in Entries, ~ Letter(k), Letter(k)', entries'[h].receipt = entries'[k].receipt
          PROVE  FALSE
      <4>1. NoLetter(r) /\ entries'[k].receipt = r /\ entries'[h].receipt = entries[h].receipt
        BY <1>1, <3>3 DEF Reach
      <4> QED
        BY <3>3, <4>1 DEF NoLetter, LetterOf
    <3> QED
      BY <2>1, <3>1, <3>2, <3>3
  <2> QED
    BY <2>1 DEF LettersOnce
<1>5. ASSUME NEW y \in Execs PROVE RunningOnce(y)'
  <2>1. CASE y = x
    BY <1>1, <2>1 DEF RunningOnce, ExecDone
  <2>2. CASE y # x
    <3> SUFFICES ASSUME executions'[y].status = "running"
                 PROVE  ~ executions'[y].due /\ \E q \in Procs: procs'[q].x = y /\ procs'[q].pc \in Linked
      BY DEF RunningOnce
    <3>1. executions'[y] = executions[y]
      BY <1>1, <2>2 DEF Reach
    <3>2. ~ executions[y].due /\ \E q \in Procs: procs[q].x = y /\ procs[q].pc \in Linked
      BY <3>1 DEF Once, RunningOnce
    <3>3. PICK q \in Procs: procs[q].x = y /\ procs[q].pc \in Linked
      BY <3>2
    <3>4. y # 0
      BY HrisZero
    <3>5. procs'[q].x = y /\ procs'[q].pc \in Linked
      BY <1>1, <2>2, <3>3, <3>4 DEF Reach
    <3> QED
      BY <3>1, <3>2, <3>5
  <2> QED
    BY <2>1, <2>2
<1>6. ASSUME NEW q \in Procs PROVE Own(procs[q])'
  BY <1>1, OwnStays
<1> QED
  BY <1>2, <1>3, <1>4, <1>5, <1>6 DEF Once

-----------------------------------------------------------------------------
(* No call fails and no timeout passes during the work in a smooth step.    *)

Smooth == LeftOK /\ "receipt" \in workers /\ left'.faults = left.faults /\ left'.late = left.late

LEMMA LeftOver == \A n \in Nat: n # n - 1 /\ (~ (n > 0) => n = 0)
OBVIOUS

LEMMA NoFault ==
    ASSUME Smooth
    PROVE  /\ ~ Spend("faults") /\ ~ Spend("late")
           /\ \A ok \in BOOLEAN: StoreCall(ok) => ok
           /\ \A live: Passes(live) => ~ live
<1>1. left \in [faults: Nat, late: Nat, manual: Nat, total: Nat] /\ left'.faults = left.faults /\ left'.late = left.late
  BY DEF Smooth, LeftOK
<1>2. ~ Spend("faults")
  <2> SUFFICES ASSUME left' = [left EXCEPT !["faults"] = @ - 1, !.total = @ - 1] PROVE FALSE
    BY DEF Spend
  <2>1. left'.faults = left.faults - 1 /\ left.faults \in Nat
    BY <1>1, Zenon
  <2> QED
    BY <1>1, <2>1, LeftOver, Zenon
<1>3. ~ Spend("late")
  <2> SUFFICES ASSUME left' = [left EXCEPT !["late"] = @ - 1, !.total = @ - 1] PROVE FALSE
    BY DEF Spend
  <2>1. left'.late = left.late - 1 /\ left.late \in Nat
    BY <1>1, Zenon
  <2> QED
    BY <1>1, <2>1, LeftOver, Zenon
<1> QED
  BY <1>2, <1>3 DEF StoreCall, Passes

(* Who can claim, and who has, a receipt or a dead letter is alone.         *)

LEMMA ClaimableAlone ==
    ASSUME InboxInv, Once, NEW r \in Receipts, hrisWebhookReceiptClaimReason(receipts[r]) = ""
    PROVE  /\ \A q \in Procs: ~ ReceiptJob(procs[q], r)
           /\ \A y \in Execs: ~ ReceiptQueued(executions[y], r)
           /\ NoLetter(r) /\ handled[r] = 0
<1>1. ~ Claimed(r) /\ receipts[r].status \notin {"processed", "skipped", "dlq"}
  BY DEF Claimed, hrisWebhookReceiptClaimReason
<1>2. ~ (receipts[r].status = "failed" /\ receipts[r].attempts >= MaxAttempts)
  BY DEF hrisWebhookReceiptClaimReason
<1>3. ~ Shut(r) /\ ReceiptOnce(r) /\ handled[r] \in Nat
  BY <1>1, <1>2 DEF Shut, Once, InboxInv, HrisTypeOK
<1>4. NoLetter(r) /\ ~ (handled[r] > 0)
  BY <1>3, Zenon DEF ReceiptOnce
<1>5. /\ \A q \in Procs: ~ ReceiptJob(procs[q], r)
      /\ \A y \in Execs: ~ ReceiptQueued(executions[y], r)
  BY <1>1, <1>3, Zenon DEF ReceiptOnce
<1>6. handled[r] = 0
  BY <1>3, <1>4, LeftOver, Zenon
<1> QED
  BY <1>4, <1>5, <1>6

LEMMA JobAlone ==
    ASSUME InboxInv, Once, NEW r \in Receipts, NEW p \in Procs, ReceiptJob(procs[p], r)
    PROVE  /\ \A q \in Procs: q # p => ~ ReceiptJob(procs[q], r)
           /\ \A y \in Execs: ~ ReceiptQueued(executions[y], r)
           /\ Claimed(r) /\ NoLetter(r) /\ (handled[r] = 0 \/ Handled(procs[p])) /\ handled[r] <= 1
BY DEF Once, ReceiptOnce

LEMMA QueuedAlone ==
    ASSUME InboxInv, Once, NEW r \in Receipts, NEW x \in Execs, ReceiptQueued(executions[x], r)
    PROVE  /\ \A q \in Procs: ~ ReceiptJob(procs[q], r)
           /\ \A y \in Execs: y # x => ~ ReceiptQueued(executions[y], r)
           /\ Claimed(r) /\ NoLetter(r) /\ handled[r] = 0
BY DEF Once, ReceiptOnce

LEMMA LetterAlone ==
    ASSUME InboxInv, Once, NEW r \in Receipts, ~ NoLetter(r)
    PROVE  /\ \A q \in Procs: ~ ReceiptJob(procs[q], r)
           /\ \A y \in Execs: ~ ReceiptQueued(executions[y], r)
           /\ receipts[r].attempts >= MaxAttempts /\ Shut(r) /\ handled[r] <= 1
BY DEF Once, ReceiptOnce

LEMMA EntryClaimableAlone ==
    ASSUME InboxInv, Once, NEW e \in Entries, NEW max, NEW cooldown, dlqReplayClaimReason(entries[e], max, cooldown) = ""
    PROVE  /\ \A q \in Procs: ~ EntryJob(procs[q], e)
           /\ \A y \in Execs: ~ EntryQueued(executions[y], e)
           /\ Letter(e) /\ handled[entries[e].receipt] = 0
<1>1. ~ Replaying(e) /\ entries[e].status \in {"dlq", "replaying"}
  BY DEF Replaying, dlqReplayClaimReason
<1>2. EntryOnce(e) /\ Letter(e)
  BY <1>1 DEF Once, Letter
<1>3. handled[entries[e].receipt] \in Nat
  BY <1>2 DEF InboxInv, EntriesOK, HrisTypeOK, Known
<1>4. ~ (handled[entries[e].receipt] > 0)
  BY <1>1, <1>2, Zenon DEF EntryOnce
<1>5. /\ \A q \in Procs: ~ EntryJob(procs[q], e)
      /\ \A y \in Execs: ~ EntryQueued(executions[y], e)
  BY <1>1, <1>2, Zenon DEF EntryOnce
<1>6. handled[entries[e].receipt] = 0
  BY <1>3, <1>4, LeftOver, Zenon
<1> QED
  BY <1>2, <1>5, <1>6

LEMMA EntryJobAlone ==
    ASSUME InboxInv, Once, NEW e \in Entries, NEW p \in Procs, EntryJob(procs[p], e)
    PROVE  /\ \A q \in Procs: q # p => ~ EntryJob(procs[q], e)
           /\ \A y \in Execs: ~ EntryQueued(executions[y], e)
           /\ Replaying(e) /\ (handled[entries[e].receipt] = 0 \/ Handled(procs[p]))
BY DEF Once, EntryOnce

LEMMA EntryQueuedAlone ==
    ASSUME InboxInv, Once, NEW e \in Entries, NEW x \in Execs, EntryQueued(executions[x], e)
    PROVE  /\ \A q \in Procs: ~ EntryJob(procs[q], e)
           /\ \A y \in Execs: y # x => ~ EntryQueued(executions[y], e)
           /\ Replaying(e) /\ handled[entries[e].receipt] = 0
BY DEF Once, EntryOnce

-----------------------------------------------------------------------------
(* How far a step reaches.                                                  *)

JobIn(c, r, e) ==
    /\ c.e = 0 /\ c.pc \in {"create", "target", "run", "markok"} => c.r = r
    /\ c.pc \in {"create", "goroutine", "target", "replay", "start", "run", "markok", "entry"} => c.e \in {0, e}

LEMMA ReachBy ==
    ASSUME InboxInv, Once, NEW p \in Procs, NEW d \in ProcRecs, Goto(p, d), NEW r, NEW e, NEW x,
           workers' = workers, ExecMove,
           \A s \in Receipts: s # r => receipts'[s] = receipts[s] /\ handled'[s] = handled[s],
           \A f \in Entries: f # e => entries'[f] = entries[f],
           handled' = handled \/ NoLetter(r) \/ LetterOf(e, r),
           \A y \in Execs: y # x => executions'[y] = executions[y] \/ executions'[y].status = "none",
           x \in Execs /\ executions'[x].status = "queued" =>
              executions'[x].target = IF executions'[x].kind = "receipt" THEN r ELSE e,
           JobIn(procs[p], r, e), JobIn(d, r, e),
           procs[p].pc \in Writing => procs[p].r = r,
           procs[p].pc \in Linked /\ procs[p].x \notin {0, x} => d.x = procs[p].x /\ d.pc \in Linked,
           e \in Entries => /\ Letter(e) => Letter(e)' /\ entries'[e].receipt = entries[e].receipt
                            /\ Letter(e)' /\ ~ Letter(e) => entries'[e].receipt = r /\ NoLetter(r),
           r \in Receipts => receipts'[r].attempts >= receipts[r].attempts \/ ReceiptJob(procs[p], r)
    PROVE  Reach(p, r, e, x) /\ procs'[p] = d
<1>1. HrisTypeOK
  BY DEF InboxInv
<1>2. procs'[p] = d /\ \A q \in Procs: q # p => procs'[q] = procs[q]
  BY <1>1, GotoFacts
<1>3. lastExec \in Nat /\ Execs \subseteq Nat /\ 0 \notin Entries /\ 0 \notin Execs
  BY <1>1, HrisZero DEF HrisTypeOK
<1>4. lastExec' >= lastExec /\ \A y \in Execs: y <= lastExec /\ executions'[y].status # "none" =>
          /\ executions[y].status # "none"
          /\ executions'[y].kind = executions[y].kind /\ executions'[y].target = executions[y].target
  BY <1>3 DEF ExecMove
<1>5. ASSUME NEW s \in Receipts, s # r
      PROVE  /\ ~ ReceiptJob(procs[p], s) /\ ~ ReceiptJob(procs'[p], s)
             /\ \A y \in Execs: ReceiptQueued(executions'[y], s) => ReceiptQueued(executions[y], s)
  <2>1. ~ ReceiptJob(procs[p], s) /\ ~ ReceiptJob(procs'[p], s)
    BY <1>2, <1>5 DEF JobIn, ReceiptJob
  <2>2. ASSUME NEW y \in Execs, ReceiptQueued(executions'[y], s) PROVE ReceiptQueued(executions[y], s)
    BY <1>5, <2>2 DEF ReceiptQueued
  <2> QED
    BY <2>1, <2>2
<1>6. ASSUME NEW f \in Entries, f # e
      PROVE  /\ ~ EntryJob(procs[p], f) /\ ~ EntryJob(procs'[p], f)
             /\ \A y \in Execs: EntryQueued(executions'[y], f) => EntryQueued(executions[y], f)
             /\ Letter(f) => handled'[entries[f].receipt] = handled[entries[f].receipt]
  <2>1. ~ EntryJob(procs[p], f) /\ ~ EntryJob(procs'[p], f)
    BY <1>2, <1>3, <1>6 DEF JobIn, EntryJob
  <2>2. ASSUME NEW y \in Execs, EntryQueued(executions'[y], f) PROVE EntryQueued(executions[y], f)
    BY <1>6, <2>2 DEF EntryQueued
  <2>3. ASSUME Letter(f), handled' # handled PROVE handled'[entries[f].receipt] = handled[entries[f].receipt]
    <3>1. entries[f].receipt \in Receipts
      BY <2>3 DEF InboxInv, EntriesOK, Known
    <3>2. entries[f].receipt # r
      BY <1>6, <2>3 DEF NoLetter, LetterOf, Letter, Once, LettersOnce
    <3> QED
      BY <3>1, <3>2
  <2> QED
    BY <2>1, <2>2, <2>3
<1>7. \A f \in Entries: /\ Letter(f) => Letter(f)' /\ entries'[f].receipt = entries[f].receipt
                        /\ Letter(f)' /\ ~ Letter(f) => entries'[f].receipt = r /\ NoLetter(r)
  BY DEF Letter
<1>8. \A s \in Receipts: receipts'[s].attempts >= receipts[s].attempts \/ ReceiptJob(procs[p], s)
  <2>1. \A s \in Receipts: receipts[s].attempts \in Nat
    BY <1>1 DEF HrisTypeOK, ReceiptRecs
  <2> QED
    BY <2>1
<1> QED
  BY <1>2, <1>4, <1>5, <1>6, <1>7, <1>8 DEF Reach

Fine(p) == \E r, e, x: Sound(p, r, e, x)

-----------------------------------------------------------------------------
(* Steps of a process that has no receipt and no dead letter.               *)

Loose == {"idle", "tick", "claim", "due", "queue", "enqueue", "ack", "requeue"}

LEMMA AsideFine ==
    ASSUME InboxInv, Once, NEW p \in Procs, NEW d \in ProcRecs, Goto(p, d),
           UNCHANGED <<receipts, entries, executions, handled, lastExec, workers>>,
           procs[p].pc \in Loose, d.pc \in Loose, d.pc \in {"tick", "claim", "due"} => d.kind \in workers
    PROVE  Fine(p)
<1>1. ExecMove
  BY ExecStill
<1>2. JobIn(procs[p], 0, 0) /\ JobIn(d, 0, 0) /\ procs[p].pc \notin Writing /\ procs[p].pc \notin Linked
  BY DEF Loose, JobIn, Writing, Linked
<1>3. 0 \notin Receipts /\ 0 \notin Entries /\ 0 \notin Execs
  BY HrisZero
<1>4. Reach(p, 0, 0, 0) /\ procs'[p] = d
  BY <1>1, <1>2, <1>3, ReachBy
<1>5. Own(d)'
  BY DEF Own, Loose
<1> QED
  BY <1>3, <1>4, <1>5 DEF Fine, Sound

LEMMA IdleLoose == Idle \in ProcRecs /\ Idle.pc \in Loose /\ Idle.pc \notin {"tick", "claim", "due"}
BY IdleFacts DEF Idle, Loose

LEMMA EndingsFine ==
    ASSUME InboxInv, Once, NEW p \in Procs, AckQueue(p) \/ RequeueQueue(p) \/ TickIdle(p) \/ EnqueueExecution(p)
    PROVE  Fine(p)
<1>1. Goto(p, Idle) /\ procs[p].pc \in Loose
  BY DEF AckQueue, RequeueQueue, TickIdle, EnqueueExecution, At, Loose
<1>2. UNCHANGED <<receipts, entries, executions, handled, lastExec, workers>>
  BY DEF AckQueue, RequeueQueue, TickIdle, EnqueueExecution, receiptVars, historyVars
<1> QED
  BY <1>1, <1>2, IdleLoose, AsideFine

LEMMA StartTickFine ==
    ASSUME InboxInv, Once, NEW p \in Procs, NEW k \in Kinds, StartTick(p, k)
    PROVE  Fine(p)
<1>1. PICK d: d = [Idle EXCEPT !.pc = "tick", !.kind = k, !.tick = TRUE]
  OBVIOUS
<1>2. Goto(p, d) /\ UNCHANGED <<receipts, entries, executions, handled, lastExec, workers>>
  BY <1>1 DEF StartTick, receiptVars, historyVars
<1>3. d \in ProcRecs /\ d.pc = "tick" /\ d.kind = k
  BY <1>1, IdleFacts DEF ProcRecs, Pcs
<1>4. procs[p].pc = "idle" /\ k \in workers
  BY DEF StartTick, At
<1> QED
  BY <1>2, <1>3, <1>4, AsideFine DEF Loose

LEMMA TickQueueFine ==
    ASSUME InboxInv, Once, NEW p \in Procs, TickQueue(p)
    PROVE  Fine(p)
<1>1. PICK c: c = procs[p]
  OBVIOUS
<1>2. c \in ProcRecs /\ c.pc = "tick" /\ c.kind \in workers
  BY <1>1, ProcFacts DEF TickQueue, At, Once, Own
<1>3. UNCHANGED <<receipts, entries, executions, handled, lastExec, workers>>
  BY DEF TickQueue, receiptVars, historyVars
<1>4. ASSUME NEW d, Goto(p, d), d \in ProcRecs, d.pc \in {"claim", "due"}, d.kind = c.kind PROVE Fine(p)
  BY <1>1, <1>2, <1>3, <1>4, AsideFine DEF Loose
<1>5. ASSUME NEW x, Candidate(c.kind, x), NEW tok \in BOOLEAN,
             Goto(p, [c EXCEPT !.pc = "claim", !.x = x, !.tok = tok, !.was = executions[x].status])
      PROVE  Fine(p)
  <2>1. x \in Execs /\ executions[x] \in ExecRecs
    BY <1>5 DEF Candidate, InboxInv, HrisTypeOK
  <2>2. PICK d: d = [c EXCEPT !.pc = "claim", !.x = x, !.tok = tok, !.was = executions[x].status]
    OBVIOUS
  <2>3. d \in ProcRecs /\ d.pc = "claim" /\ d.kind = c.kind
    BY <1>2, <2>1, <2>2 DEF ProcRecs, Pcs, ExecRecs
  <2> QED
    BY <1>4, <1>5, <2>2, <2>3
<1>6. CASE Goto(p, [c EXCEPT !.pc = "due"])
  <2>1. PICK d: d = [c EXCEPT !.pc = "due"]
    OBVIOUS
  <2>2. d \in ProcRecs /\ d.pc = "due" /\ d.kind = c.kind
    BY <1>2, <2>1 DEF ProcRecs, Pcs
  <2> QED
    BY <1>4, <1>6, <2>1, <2>2
<1>7. ASSUME NEW y \in Fallback(c.kind), Goto(p, [c EXCEPT !.pc = "claim", !.x = y, !.was = executions[y].status])
      PROVE  Fine(p)
  <2>1. Candidate(c.kind, y)
    BY DEF Fallback, Indexed
  <2>2. [c EXCEPT !.pc = "claim", !.x = y, !.was = executions[y].status]
          = [c EXCEPT !.pc = "claim", !.x = y, !.tok = c.tok, !.was = executions[y].status] /\ c.tok \in BOOLEAN
    BY <1>2 DEF ProcRecs
  <2> QED
    BY <1>5, <1>7, <2>1, <2>2
<1>8. PICK x: x = ClaimedItem(queues[c.kind])
  OBVIOUS
<1>9. CASE Candidate(c.kind, x)
  BY <1>1, <1>5, <1>8, <1>9 DEF TickQueue
<1>10. CASE ~ Candidate(c.kind, x)
  <2>1. \/ Goto(p, [c EXCEPT !.pc = "due"])
        \/ \E y \in Fallback(c.kind): Goto(p, [c EXCEPT !.pc = "claim", !.x = y, !.was = executions[y].status])
    BY <1>1, <1>8, <1>10 DEF TickQueue
  <2> QED
    BY <1>6, <1>7, <2>1
<1> QED
  BY <1>9, <1>10

LEMMA QueueWorkFine ==
    ASSUME InboxInv, InboxInv', Once, NEW p \in Procs, QueueReceipt(p) \/ QueueEntry(p) \/ ReplayExecution(p)
    PROVE  Fine(p)
<1>1. PICK k, t, src: QueueWork(p, k, t, src)
  BY DEF QueueReceipt, QueueEntry, ReplayExecution
<1>2. PICK d: /\ d = [Idle EXCEPT !.pc = "queue", !.kind = k, !.src = src,
                          !.r = IF k = "receipt" THEN t ELSE entries[t].receipt,
                          !.e = IF k = "receipt" THEN 0 ELSE t,
                          !.orig = IF k = "receipt" THEN receipts[t] ELSE entries[t]]
              /\ Goto(p, d)
  BY <1>1 DEF QueueWork
<1>3. d.pc = "queue"
  BY <1>2 DEF Idle
<1>4. procs' = [procs EXCEPT ![p] = d] /\ procs \in [Procs -> ProcRecs] /\ procs' \in [Procs -> ProcRecs]
  BY <1>2 DEF Goto, InboxInv, HrisTypeOK
<1>5. d \in ProcRecs
  BY <1>4
<1>6. procs[p].pc = "idle" /\ UNCHANGED <<receipts, entries, executions, handled, lastExec, workers>>
  BY <1>1 DEF QueueWork, At, receiptVars, historyVars
<1> QED
  BY <1>2, <1>3, <1>5, <1>6, AsideFine DEF Loose

-----------------------------------------------------------------------------
(* Steps of executions.                                                     *)

\* What an update does to an execution.
LEMMA ExecUpdated ==
    ASSUME InboxInv, NEW x, NEW st \in ExecStatus, updateHRISWebhookExecution(x, st)
    PROVE  /\ \A y \in Execs: y # x => executions'[y] = executions[y]
           /\ x \in Execs => \/ executions[x].status = "none" /\ executions'[x] = executions[x]
                             \/ /\ executions[x].status # "none"
                                /\ executions'[x].status = st /\ ~ executions'[x].due
                                /\ executions'[x].kind = executions[x].kind /\ executions'[x].target = executions[x].target
<1>1. executions \in [Execs -> ExecRecs]
  BY DEF InboxInv, HrisTypeOK
<1>2. \A y \in Execs: y # x => executions'[y] = executions[y]
  BY <1>1 DEF updateHRISWebhookExecution
<1>3. ASSUME x \in Execs, executions[x].status = "none" PROVE executions'[x] = executions[x]
  BY <1>1, <1>3 DEF updateHRISWebhookExecution
<1>4. ASSUME x \in Execs, executions[x].status # "none"
      PROVE  /\ executions'[x].status = st /\ ~ executions'[x].due
             /\ executions'[x].kind = executions[x].kind /\ executions'[x].target = executions[x].target
  <2>1. executions'[x] = [executions[x] EXCEPT !.status = st, !.due = FALSE] /\ executions[x] \in ExecRecs
    BY <1>1, <1>4 DEF updateHRISWebhookExecution
  <2> QED
    BY <2>1 DEF ExecRecs
<1> QED
  BY <1>2, <1>3, <1>4

LEMMA CompleteFine ==
    ASSUME InboxInv, Once, Smooth, NEW p \in Procs, CompleteExecution(p)
    PROVE  Fine(p)
<1>1. PICK c: c = procs[p]
  OBVIOUS
<1>2. c \in ProcRecs /\ c.pc = "complete"
  BY <1>1, ProcFacts DEF CompleteExecution, At
<1>3. UNCHANGED <<receipts, entries, handled, lastExec, workers>>
  BY DEF CompleteExecution, historyVars
<1>4. PICK st \in {"failed", "succeeded"}: updateHRISWebhookExecution(c.x, st)
  <2>1. PICK failed \in BOOLEAN: AcknowledgeHRISWebhookExecution(c.x, failed)
    BY <1>1, NoFault DEF CompleteExecution
  <2> QED
    BY <2>1 DEF AcknowledgeHRISWebhookExecution
<1>5. st \in ExecStatus /\ st \notin {"running", "queued", "none"}
  BY DEF ExecStatus
<1>6. ExecMove
  BY <1>3, <1>4, <1>5, ExecUpdate
<1>7. /\ \A y \in Execs: y # c.x => executions'[y] = executions[y]
      /\ c.x \in Execs => executions'[c.x].status \notin {"running", "queued"}
  BY <1>4, <1>5, ExecUpdated
<1>8. PICK d \in ProcRecs: Goto(p, d) /\ d.pc \in {"ack", "idle"}
  <2>1. CASE Goto(p, Idle)
    BY <2>1, IdleFacts DEF Idle
  <2>2. CASE Goto(p, [c EXCEPT !.pc = "ack"])
    <3>1. PICK d: d = [c EXCEPT !.pc = "ack"]
      OBVIOUS
    <3>2. d \in ProcRecs /\ d.pc = "ack"
      BY <1>2, <3>1 DEF ProcRecs, Pcs
    <3> QED
      BY <2>2, <3>1, <3>2
  <2> QED
    BY <1>1, <2>1, <2>2 DEF CompleteExecution
<1>9. JobIn(c, 0, 0) /\ JobIn(d, 0, 0) /\ c.pc \notin Writing
  BY <1>2, <1>8 DEF JobIn, Writing
<1>10. 0 \notin Receipts /\ 0 \notin Entries
  BY HrisZero
<1>11. Reach(p, 0, 0, c.x) /\ procs'[p] = d
  BY <1>1, <1>3, <1>6, <1>7, <1>8, <1>9, <1>10, ReachBy
<1>12. Own(d)'
  BY <1>8 DEF Own
<1> QED
  BY <1>7, <1>10, <1>11, <1>12 DEF Fine, Sound, ExecDone

LEMMA SameLetters ==
    ASSUME UNCHANGED entries
    PROVE  \A r: NoLetter(r)' = NoLetter(r)
BY DEF NoLetter, LetterOf, Letter

LEMMA ClaimReceiptExecutionFine ==
    ASSUME InboxInv, Once, NEW p \in Procs, NEW c, c = procs[p], c.pc = "claim", c.kind = "receipt",
           NEW t, t = executions[c.x].target, executions[c.x].status = "queued",
           updateHRISWebhookExecution(c.x, "running"), Goto(p, [c EXCEPT !.pc = "target", !.r = t]),
           UNCHANGED <<receipts, entries, handled, lastExec, workers>>
    PROVE  Fine(p)
<1>1. c \in ProcRecs /\ Holding(c) /\ c.kind \in workers
  BY ProcFacts DEF Once, Own
<1>2. c.e = 0 /\ c.x \in Execs /\ c.x <= lastExec /\ executions[c.x].kind = "receipt"
  BY <1>1 DEF Holding
<1>3. t \in Receipts
  BY <1>2 DEF InboxInv, ExecsOK, Known
<1>4. PICK d: d = [c EXCEPT !.pc = "target", !.r = t]
  OBVIOUS
<1>5. Goto(p, d) /\ d \in ProcRecs /\ d.pc = "target" /\ d.r = t /\ d.e = 0 /\ d.x = c.x /\ d.kind = "receipt"
  <2>1. Goto(p, d)
    BY <1>4
  <2>2. d \in ProcRecs
    BY <1>1, <1>3, <1>4 DEF ProcRecs, Pcs
  <2>3. d.pc = "target" /\ d.r = t /\ d.e = c.e /\ d.x = c.x /\ d.kind = c.kind
    BY <1>1, <1>4 DEF ProcRecs
  <2> QED
    BY <1>2, <2>1, <2>2, <2>3
<1>6. "running" \in ExecStatus
  BY DEF ExecStatus
<1>7. ExecMove
  BY <1>6, ExecUpdate
<1>8. /\ \A y \in Execs: y # c.x => executions'[y] = executions[y]
      /\ executions'[c.x].status = "running" /\ ~ executions'[c.x].due
      /\ executions'[c.x].kind = "receipt" /\ executions'[c.x].target = t
  BY <1>2, <1>6, ExecUpdated
<1>9. ReceiptQueued(executions[c.x], t)
  BY <1>2 DEF ReceiptQueued
<1>10. /\ \A q \in Procs: ~ ReceiptJob(procs[q], t)
       /\ \A y \in Execs: y # c.x => ~ ReceiptQueued(executions[y], t)
       /\ Claimed(t) /\ NoLetter(t) /\ handled[t] = 0
  BY <1>2, <1>3, <1>9, QueuedAlone
<1>11. JobIn(c, t, 0) /\ JobIn(d, t, 0) /\ c.pc \notin Writing /\ c.pc \notin Linked
  BY <1>5 DEF JobIn, Writing, Linked
<1>12. 0 \notin Entries /\ receipts'[t].attempts >= receipts[t].attempts
  BY <1>3, HrisZero DEF InboxInv, HrisTypeOK, ReceiptRecs
<1>13. Reach(p, t, 0, c.x) /\ procs'[p] = d
  <2>1. /\ JobIn(procs[p], t, 0) /\ JobIn(d, t, 0) /\ procs[p].pc \notin Writing /\ procs[p].pc \notin Linked
        /\ executions'[c.x].status # "queued"
    BY <1>8, <1>11
  <2> QED
    BY <1>5, <1>7, <1>8, <1>12, <2>1, ReachBy
<1>14. NoLetter(t)' /\ Claimed(t)' /\ handled'[t] = 0
  BY <1>10, SameLetters DEF Claimed
<1>15. ReceiptDone(p, t, c.x)
  BY <1>8, <1>10, <1>14 DEF ReceiptDone, SoleReceipt, ReceiptQueued
<1>16. Own(d)'
  BY <1>1, <1>2, <1>5, <1>8 DEF Own
<1>17. ExecDone(p, c.x)
  BY <1>5, <1>8, <1>13 DEF ExecDone, Linked
<1> QED
  BY <1>12, <1>13, <1>15, <1>16, <1>17 DEF Fine, Sound

LEMMA ClaimEntryExecutionFine ==
    ASSUME InboxInv, Once, NEW p \in Procs, NEW c, c = procs[p], c.pc = "claim", c.kind = "dlq",
           NEW t, t = executions[c.x].target, executions[c.x].status = "queued",
           updateHRISWebhookExecution(c.x, "running"), Goto(p, [c EXCEPT !.pc = "target", !.e = t]),
           UNCHANGED <<receipts, entries, handled, lastExec, workers>>
    PROVE  Fine(p)
<1>1. c \in ProcRecs /\ Holding(c) /\ c.kind \in workers
  BY ProcFacts DEF Once, Own
<1>2. c.r = 0 /\ c.x \in Execs /\ c.x <= lastExec /\ executions[c.x].kind = "dlq"
  BY <1>1 DEF Holding
<1>3. t \in Entries /\ Letter(t)
  BY <1>2 DEF InboxInv, ExecsOK, Letter
<1>4. PICK d: d = [c EXCEPT !.pc = "target", !.e = t]
  OBVIOUS
<1>5. Goto(p, d) /\ d \in ProcRecs /\ d.pc = "target" /\ d.e = t /\ d.r = 0 /\ d.x = c.x /\ d.kind = "dlq"
  <2>1. Goto(p, d)
    BY <1>4
  <2>2. d \in ProcRecs
    BY <1>1, <1>3, <1>4 DEF ProcRecs, Pcs
  <2>3. d.pc = "target" /\ d.e = t /\ d.r = c.r /\ d.x = c.x /\ d.kind = c.kind
    BY <1>1, <1>4 DEF ProcRecs
  <2> QED
    BY <1>2, <2>1, <2>2, <2>3
<1>6. "running" \in ExecStatus
  BY DEF ExecStatus
<1>7. ExecMove
  BY <1>6, ExecUpdate
<1>8. /\ \A y \in Execs: y # c.x => executions'[y] = executions[y]
      /\ executions'[c.x].status = "running" /\ ~ executions'[c.x].due
      /\ executions'[c.x].kind = "dlq" /\ executions'[c.x].target = t
  BY <1>2, <1>6, ExecUpdated
<1>9. EntryQueued(executions[c.x], t)
  BY <1>1, <1>2 DEF EntryQueued
<1>10. /\ \A q \in Procs: ~ EntryJob(procs[q], t)
       /\ \A y \in Execs: y # c.x => ~ EntryQueued(executions[y], t)
       /\ Replaying(t) /\ handled[entries[t].receipt] = 0
  BY <1>2, <1>3, <1>9, EntryQueuedAlone
<1>11. 0 \notin Receipts /\ 0 \notin Entries
  BY HrisZero
<1>12. JobIn(c, 0, t) /\ JobIn(d, 0, t) /\ c.pc \notin Writing /\ c.pc \notin Linked
  BY <1>3, <1>5, <1>11 DEF JobIn, Writing, Linked
<1>13. Letter(t)' /\ entries'[t].receipt = entries[t].receipt
  BY <1>3 DEF Letter
<1>14. Reach(p, 0, t, c.x) /\ procs'[p] = d
  <2>1. /\ JobIn(procs[p], 0, t) /\ JobIn(d, 0, t) /\ procs[p].pc \notin Writing /\ procs[p].pc \notin Linked
        /\ executions'[c.x].status # "queued"
    BY <1>8, <1>12
  <2>2. /\ Letter(t) => Letter(t)' /\ entries'[t].receipt = entries[t].receipt
        /\ Letter(t)' /\ ~ Letter(t) => entries'[t].receipt = 0 /\ NoLetter(0)
    BY <1>3, <1>13
  <2> QED
    BY <1>5, <1>7, <1>8, <1>11, <2>1, <2>2, ReachBy
<1>15. Replaying(t)' /\ handled'[entries'[t].receipt] = 0
  BY <1>10 DEF Replaying
<1>16. EntryDone(p, t, c.x)
  BY <1>8, <1>10, <1>15 DEF EntryDone, SoleEntry, EntryQueued
<1>17. Own(d)'
  BY <1>1, <1>2, <1>5, <1>8 DEF Own
<1>18. ExecDone(p, c.x)
  BY <1>5, <1>8, <1>14 DEF ExecDone, Linked
<1> QED
  BY <1>11, <1>14, <1>16, <1>17, <1>18 DEF Fine, Sound

LEMMA ClaimExecutionFine ==
    ASSUME InboxInv, Once, NEW p \in Procs, ClaimExecution(p)
    PROVE  Fine(p)
<1>1. PICK c: c = procs[p]
  OBVIOUS
<1>2. c \in ProcRecs /\ c.pc = "claim" /\ Holding(c) /\ c.kind \in workers
  BY <1>1, ProcFacts DEF ClaimExecution, At, Once, Own
<1>3. UNCHANGED <<receipts, entries, handled, lastExec, workers>>
  BY DEF ClaimExecution, historyVars
<1>4. CASE hrisWebhookExecutionClaimReason(executions[c.x], TRUE) = ""
  <2>1. executions[c.x].status = "queued"
    <3>1. c.x \in Execs
      BY <1>2 DEF Holding
    <3>2. executions[c.x].status = "queued" \/ (executions[c.x].status = "running" /\ executions[c.x].due)
      BY <1>4 DEF hrisWebhookExecutionClaimReason
    <3> QED
      BY <3>1, <3>2 DEF Once, RunningOnce
  <2>2. updateHRISWebhookExecution(c.x, "running")
    BY <1>1, <1>4 DEF ClaimExecution, ClaimHRISWebhookExecution
  <2>3. PICK t: t = executions[c.x].target
    OBVIOUS
  <2>4. Goto(p, IF c.kind = "receipt" THEN [c EXCEPT !.pc = "target", !.r = t] ELSE [c EXCEPT !.pc = "target", !.e = t])
    BY <1>1, <1>4, <2>3 DEF ClaimExecution
  <2>5. c.kind \in {"receipt", "dlq"}
    BY <1>2 DEF ProcRecs, Kinds
  <2>6. CASE c.kind = "receipt"
    BY <1>1, <1>2, <1>3, <2>1, <2>2, <2>3, <2>4, <2>6, ClaimReceiptExecutionFine
  <2>7. CASE c.kind = "dlq"
    BY <1>1, <1>2, <1>3, <2>1, <2>2, <2>3, <2>4, <2>7, ClaimEntryExecutionFine
  <2> QED
    BY <2>5, <2>6, <2>7
<1>5. CASE hrisWebhookExecutionClaimReason(executions[c.x], TRUE) # ""
  <2>1. UNCHANGED executions
    BY <1>1, <1>5 DEF ClaimExecution
  <2>2. PICK d: d = [c EXCEPT !.pc = "due", !.x = 0, !.tok = FALSE, !.was = "none"]
    OBVIOUS
  <2>3. Goto(p, d)
    BY <1>1, <1>5, <2>2 DEF ClaimExecution
  <2>4. d \in ProcRecs /\ d.pc = "due" /\ d.kind = c.kind
    BY <1>2, <2>2 DEF ProcRecs, Pcs, ExecStatus
  <2> QED
    BY <1>1, <1>2, <1>3, <2>1, <2>3, <2>4, AsideFine DEF Loose
<1> QED
  BY <1>4, <1>5

\* A replay goes on, its dead letter stays as it is.
LEMMA EntryGoesOn ==
    ASSUME InboxInv, Once, NEW p \in Procs, NEW d \in ProcRecs, Goto(p, d), NEW e \in Entries,
           EntryJob(procs[p], e), procs[p].pc \notin {"run", "markok", "entry"}, EntryJob(d, e),
           UNCHANGED <<receipts, entries, handled, workers>>, ExecMove, NEW x,
           \A y \in Execs: y # x => executions'[y] = executions[y] \/ executions'[y].status = "none",
           x \in Execs => executions'[x].status # "queued" /\ (executions'[x].status = "running" => ~ executions'[x].due),
           d.x = procs[p].x, d.pc \in Linked, x \in {0, d.x}, Own(d)'
    PROVE  Fine(p)
<1>1. /\ \A q \in Procs: q # p => ~ EntryJob(procs[q], e)
      /\ \A y \in Execs: ~ EntryQueued(executions[y], e)
      /\ Replaying(e) /\ handled[entries[e].receipt] = 0
  BY EntryJobAlone DEF Handled
<1>2. 0 \notin Receipts /\ 0 \notin Execs /\ e # 0
  BY HrisZero
<1>3. JobIn(procs[p], 0, e) /\ JobIn(d, 0, e) /\ procs[p].pc \notin Writing
  BY <1>2 DEF JobIn, EntryJob, Writing
<1>4. /\ Letter(e) => Letter(e)' /\ entries'[e].receipt = entries[e].receipt
      /\ Letter(e)' /\ ~ Letter(e) => entries'[e].receipt = 0 /\ NoLetter(0)
  BY DEF Letter
<1>5. Reach(p, 0, e, x) /\ procs'[p] = d
  BY <1>2, <1>3, <1>4, ReachBy
<1>6. Replaying(e)' /\ handled'[entries'[e].receipt] = 0
  BY <1>1 DEF Replaying
<1>7. EntryDone(p, e, x)
  BY <1>1, <1>5, <1>6 DEF EntryDone, SoleEntry, EntryQueued
<1>8. x \in Execs => ExecDone(p, x)
  BY <1>2, <1>5 DEF ExecDone
<1> QED
  BY <1>2, <1>5, <1>7, <1>8 DEF Fine, Sound

LEMMA RequeueReceiptFine ==
    ASSUME InboxInv, Once, NEW p \in Procs, procs[p].pc = "target", procs[p].kind = "receipt", RequeueForFreshTarget(p),
           UNCHANGED <<receipts, entries, handled, lastExec, workers>>
    PROVE  Fine(p)
<1>1. PICK c: c = procs[p]
  OBVIOUS
<1>2. c \in ProcRecs /\ Holding(c) /\ Own(c) /\ c.pc = "target" /\ c.kind = "receipt"
  BY <1>1, ProcFacts DEF Once
<1>3. c.e = 0 /\ c.r \in Receipts /\ c.x \in Execs
      /\ (executions[c.x].status # "none" => executions[c.x].kind = "receipt" /\ executions[c.x].target = c.r)
  BY <1>2 DEF Holding, Own, Known
<1>4. PICK r \in Receipts: r = c.r
  BY <1>3
<1>5. PICK d: d = [c EXCEPT !.pc = IF executions[c.x].status = "none" THEN "ack" ELSE "requeue"]
  OBVIOUS
<1>6. Goto(p, d) /\ d \in ProcRecs /\ d.pc \in {"ack", "requeue"}
  <2>1. Goto(p, d)
    BY <1>1, <1>5 DEF RequeueForFreshTarget
  <2> QED
    BY <1>2, <1>5, <2>1 DEF ProcRecs, Pcs
<1>7. updateHRISWebhookExecution(c.x, "queued") /\ "queued" \in ExecStatus
  BY <1>1 DEF RequeueForFreshTarget, RequeueHRISWebhookExecution, ExecStatus
<1>8. ExecMove
  BY <1>7, ExecUpdate
<1>9. /\ \A y \in Execs: y # c.x => executions'[y] = executions[y]
      /\ executions'[c.x].status \in {"none", "queued"}
      /\ executions'[c.x].status = "queued" => executions'[c.x].kind = "receipt" /\ executions'[c.x].target = r
  BY <1>3, <1>4, <1>7, ExecUpdated
<1>10. ReceiptJob(procs[p], r) /\ ~ Handled(procs[p])
  BY <1>1, <1>2, <1>3, <1>4 DEF ReceiptJob, Handled
<1>11. /\ \A q \in Procs: q # p => ~ ReceiptJob(procs[q], r)
       /\ \A y \in Execs: ~ ReceiptQueued(executions[y], r)
       /\ Claimed(r) /\ NoLetter(r) /\ handled[r] = 0
  BY <1>10, JobAlone
<1>12. JobIn(procs[p], r, 0) /\ JobIn(d, r, 0) /\ procs[p].pc \notin Writing /\ ~ ReceiptJob(d, r)
  BY <1>1, <1>2, <1>3, <1>4, <1>6 DEF JobIn, Writing, ReceiptJob
<1>13. 0 \notin Entries
  BY HrisZero
<1>14. Reach(p, r, 0, c.x) /\ procs'[p] = d
  <2>1. procs[p].x = c.x
    BY <1>1
  <2> QED
    BY <1>6, <1>8, <1>9, <1>10, <1>12, <1>13, <2>1, ReachBy
<1>15. NoLetter(r)' /\ Claimed(r)' /\ handled'[r] = 0
  BY <1>11, SameLetters DEF Claimed
<1>16. ReceiptDone(p, r, c.x)
  BY <1>11, <1>12, <1>14, <1>15 DEF ReceiptDone, SoleReceipt
<1>17. Own(d)' /\ ExecDone(p, c.x)
  BY <1>6, <1>9 DEF Own, ExecDone
<1> QED
  BY <1>13, <1>14, <1>16, <1>17 DEF Fine, Sound

LEMMA RequeueEntryFine ==
    ASSUME InboxInv, Once, NEW p \in Procs, procs[p].pc = "target", procs[p].kind = "dlq", RequeueForFreshTarget(p),
           UNCHANGED <<receipts, entries, handled, lastExec, workers>>
    PROVE  Fine(p)
<1>1. PICK c: c = procs[p]
  OBVIOUS
<1>2. c \in ProcRecs /\ Holding(c) /\ Own(c) /\ c.pc = "target" /\ c.kind = "dlq"
  BY <1>1, ProcFacts DEF Once
<1>3. c.r = 0 /\ Letter(c.e) /\ c.x \in Execs
      /\ (executions[c.x].status # "none" => executions[c.x].kind = "dlq" /\ executions[c.x].target = c.e)
  BY <1>2 DEF Holding, Own
<1>4. PICK e \in Entries: e = c.e /\ Letter(e)
  BY <1>3 DEF Letter
<1>5. PICK d: d = [c EXCEPT !.pc = IF executions[c.x].status = "none" THEN "ack" ELSE "requeue"]
  OBVIOUS
<1>6. Goto(p, d) /\ d \in ProcRecs /\ d.pc \in {"ack", "requeue"}
  <2>1. Goto(p, d)
    BY <1>1, <1>5 DEF RequeueForFreshTarget
  <2> QED
    BY <1>2, <1>5, <2>1 DEF ProcRecs, Pcs
<1>7. updateHRISWebhookExecution(c.x, "queued") /\ "queued" \in ExecStatus
  BY <1>1 DEF RequeueForFreshTarget, RequeueHRISWebhookExecution, ExecStatus
<1>8. ExecMove
  BY <1>7, ExecUpdate
<1>9. /\ \A y \in Execs: y # c.x => executions'[y] = executions[y]
      /\ executions'[c.x].status \in {"none", "queued"}
      /\ executions'[c.x].status = "queued" => executions'[c.x].kind = "dlq" /\ executions'[c.x].target = e
  BY <1>3, <1>4, <1>7, ExecUpdated
<1>10. EntryJob(procs[p], e) /\ ~ Handled(procs[p])
  BY <1>1, <1>2, <1>3, <1>4 DEF EntryJob, Handled
<1>11. /\ \A q \in Procs: q # p => ~ EntryJob(procs[q], e)
       /\ \A y \in Execs: ~ EntryQueued(executions[y], e)
       /\ Replaying(e) /\ handled[entries[e].receipt] = 0
  BY <1>10, EntryJobAlone
<1>12. 0 \notin Receipts /\ e # 0
  BY HrisZero
<1>13. JobIn(procs[p], 0, e) /\ JobIn(d, 0, e) /\ procs[p].pc \notin Writing /\ ~ EntryJob(d, e)
  BY <1>1, <1>2, <1>3, <1>4, <1>6, <1>12 DEF JobIn, Writing, EntryJob
<1>14. /\ Letter(e) => Letter(e)' /\ entries'[e].receipt = entries[e].receipt
       /\ Letter(e)' /\ ~ Letter(e) => entries'[e].receipt = 0 /\ NoLetter(0)
  BY DEF Letter
<1>15. Reach(p, 0, e, c.x) /\ procs'[p] = d
  <2>1. procs[p].x = c.x
    BY <1>1
  <2> QED
    BY <1>6, <1>8, <1>9, <1>12, <1>13, <1>14, <2>1, ReachBy
<1>16. Replaying(e)' /\ handled'[entries'[e].receipt] = 0
  BY <1>11 DEF Replaying
<1>17. EntryDone(p, e, c.x)
  BY <1>11, <1>13, <1>15, <1>16 DEF EntryDone, SoleEntry
<1>18. Own(d)' /\ ExecDone(p, c.x)
  BY <1>6, <1>9 DEF Own, ExecDone
<1> QED
  BY <1>12, <1>15, <1>17, <1>18 DEF Fine, Sound

\* The receipt of a claimed execution is still claimed, so it is processed.
LEMMA ReceiptTargetFine ==
    ASSUME InboxInv, Once, NEW p \in Procs, ReceiptTarget(p)
    PROVE  Fine(p)
<1>1. PICK c: c = procs[p]
  OBVIOUS
<1>2. c \in ProcRecs /\ Holding(c) /\ c.pc = "target" /\ c.kind = "receipt"
  BY <1>1, ProcFacts DEF ReceiptTarget, At
<1>3. PICK r \in Receipts: r = c.r /\ c.e = 0
  BY <1>2 DEF Holding, Known
<1>4. UNCHANGED <<receipts, entries, handled, lastExec, workers>>
  BY DEF ReceiptTarget, historyVars
<1>5. CASE RequeueForFreshTarget(p)
  BY <1>1, <1>2, <1>4, <1>5, RequeueReceiptFine
<1>6. CASE ~ RequeueForFreshTarget(p)
  <2>1. ReceiptJob(procs[p], r) /\ ~ Handled(procs[p])
    BY <1>1, <1>2, <1>3 DEF ReceiptJob, Handled
  <2>2. /\ \A q \in Procs: q # p => ~ ReceiptJob(procs[q], r)
        /\ \A y \in Execs: ~ ReceiptQueued(executions[y], r)
        /\ Claimed(r) /\ NoLetter(r) /\ handled[r] = 0
    BY <2>1, JobAlone
  <2>3. receipts[r].status = "processing" /\ receipts[r].attempts \in Nat /\ MaxAttempts \in Nat
    BY <2>2, HrisBounds DEF Claimed, InboxInv, HrisTypeOK, ReceiptRecs
  <2>4. PICK b \in BOOLEAN: b = (receipts[r].attempts >= MaxAttempts)
    <3>1. (receipts[r].attempts >= MaxAttempts) \in BOOLEAN
      BY <2>3
    <3> QED
      BY <3>1, Zenon
  <2>5. PICK d: d = [c EXCEPT !.was = "none", !.pc = "run", !.dlq = b]
    OBVIOUS
  <2>6. Goto(p, d) /\ UNCHANGED executions
    <3>1. Goto(p, [c EXCEPT !.was = "none", !.pc = IF receipts[c.r].status = "processing" THEN "run" ELSE "start",
                            !.dlq = receipts[c.r].attempts >= MaxAttempts]) /\ UNCHANGED executions
      <4>1. receipts[c.r].status \notin {"processed", "skipped", "failed", "dlq"}
        BY <1>3, <2>3
      <4> QED
        BY <1>1, <1>6, <4>1 DEF ReceiptTarget
    <3> QED
      BY <1>3, <2>3, <2>4, <2>5, <3>1
  <2>7. d \in ProcRecs /\ d.pc = "run" /\ d.r = r /\ d.e = 0 /\ d.dlq = b /\ d.x = c.x
    BY <1>2, <1>3, <2>5 DEF ProcRecs, Pcs, ExecStatus
  <2>8. JobIn(procs[p], r, 0) /\ JobIn(d, r, 0) /\ procs[p].pc \notin Writing /\ d.x = procs[p].x /\ d.pc \in Linked
    BY <1>1, <1>2, <1>3, <2>7 DEF JobIn, Writing, Linked
  <2>9. 0 \notin Entries /\ 0 \notin Execs /\ ExecMove
    BY <1>4, <2>6, HrisZero, ExecStill
  <2>10. Reach(p, r, 0, 0) /\ procs'[p] = d
    BY <1>4, <2>1, <2>6, <2>7, <2>8, <2>9, ReachBy
  <2>11. NoLetter(r)' /\ Claimed(r)' /\ handled'[r] = 0
    BY <1>4, <2>2, SameLetters DEF Claimed
  <2>12. ReceiptDone(p, r, 0)
    BY <2>2, <2>9, <2>10, <2>11 DEF ReceiptDone, SoleReceipt
  <2>13. d.dlq => receipts'[r].attempts >= MaxAttempts
    BY <1>4, <2>4, <2>7
  <2>14. Own(d)'
    BY <2>7, <2>13 DEF Own
  <2> QED
    BY <2>9, <2>10, <2>12, <2>14 DEF Fine, Sound
<1> QED
  BY <1>5, <1>6

LEMMA EntryTargetFine ==
    ASSUME InboxInv, Once, NEW p \in Procs, EntryTarget(p)
    PROVE  Fine(p)
<1>1. PICK c: c = procs[p]
  OBVIOUS
<1>2. c \in ProcRecs /\ Holding(c) /\ c.pc = "target" /\ c.kind = "dlq"
  BY <1>1, ProcFacts DEF EntryTarget, At
<1>3. PICK e \in Entries: e = c.e /\ Letter(e)
  BY <1>2 DEF Holding, Letter
<1>4. UNCHANGED <<receipts, entries, handled, lastExec, workers>>
  BY DEF EntryTarget, historyVars
<1>5. CASE RequeueForFreshTarget(p)
  BY <1>1, <1>2, <1>4, <1>5, RequeueEntryFine
<1>6. CASE ~ RequeueForFreshTarget(p)
  <2>1. EntryJob(procs[p], e)
    BY <1>1, <1>2, <1>3 DEF EntryJob
  <2>2. entries[e].status = "replaying"
    BY <2>1, EntryJobAlone DEF Replaying
  <2>3. PICK r \in Receipts: r = entries[e].receipt
    BY <1>3 DEF InboxInv, EntriesOK, Known
  <2>4. PICK d: d = [c EXCEPT !.pc = "replay", !.was = "none", !.r = r]
    OBVIOUS
  <2>5. Goto(p, d) /\ UNCHANGED executions
    BY <1>1, <1>3, <1>6, <2>2, <2>3, <2>4 DEF EntryTarget
  <2>6. d \in ProcRecs /\ d.pc = "replay" /\ d.e = e /\ d.x = c.x
    BY <1>2, <1>3, <2>4 DEF ProcRecs, Pcs, ExecStatus
  <2>7. 0 \notin Execs /\ ExecMove
    BY <1>4, <2>5, HrisZero, ExecStill
  <2>8. EntryJob(d, e) /\ d.pc \in Linked /\ d.x = procs[p].x /\ procs[p].pc \notin {"run", "markok", "entry"}
    BY <1>1, <1>2, <2>6 DEF EntryJob, Linked
  <2>9. Own(d)'
    BY <2>6 DEF Own
  <2> QED
    BY <1>4, <2>1, <2>5, <2>6, <2>7, <2>8, <2>9, EntryGoesOn
<1> QED
  BY <1>5, <1>6

LEMMA ReplayEntryFine ==
    ASSUME InboxInv, Once, NEW p \in Procs, ReplayEntry(p)
    PROVE  Fine(p)
<1>1. PICK c: c = procs[p]
  OBVIOUS
<1>2. c \in ProcRecs /\ Holding(c) /\ c.pc = "replay"
  BY <1>1, ProcFacts DEF ReplayEntry, At
<1>3. PICK e \in Entries: e = c.e
  BY <1>2 DEF Holding, LetterOf, Letter
<1>4. UNCHANGED <<receipts, entries, executions, handled, lastExec, workers>>
  BY DEF ReplayEntry, receiptVars, historyVars
<1>5. PICK d: d = [c EXCEPT !.dlq = FALSE, !.pc = IF receipts[c.r].status = "processing" THEN "run" ELSE "start"]
  OBVIOUS
<1>6. Goto(p, d)
  BY <1>1, <1>5 DEF ReplayEntry
<1>7. d \in ProcRecs /\ d.pc \in {"run", "start"} /\ d.e = e /\ d.x = c.x /\ ~ d.dlq
  <2>1. PICK t \in {"run", "start"}: t = IF receipts[c.r].status = "processing" THEN "run" ELSE "start"
    OBVIOUS
  <2>2. d = [c EXCEPT !.dlq = FALSE, !.pc = t]
    BY <1>5, <2>1
  <2>3. t \in Pcs
    BY DEF Pcs
  <2> QED
    BY <1>2, <1>3, <2>2, <2>3 DEF ProcRecs
<1>8. 0 \notin Execs /\ ExecMove /\ e # 0
  BY <1>4, HrisZero, ExecStill
<1>9. /\ EntryJob(procs[p], e) /\ EntryJob(d, e) /\ d.pc \in Linked /\ d.x = procs[p].x
      /\ procs[p].pc \notin {"run", "markok", "entry"}
  BY <1>1, <1>2, <1>3, <1>7 DEF EntryJob, Linked
<1>10. Own(d)'
  BY <1>7, <1>8 DEF Own
<1> QED
  BY <1>4, <1>6, <1>7, <1>8, <1>9, <1>10, EntryGoesOn

\* With the receipt worker enabled only a dead letter is left to a goroutine.
LEMMA RunGoroutineFine ==
    ASSUME InboxInv, Once, Smooth, NEW p \in Procs, RunQueuedReceipt(p) \/ RunQueuedEntry(p)
    PROVE  Fine(p)
<1>1. PICK c: c = procs[p]
  OBVIOUS
<1>2. c \in ProcRecs /\ Holding(c) /\ Own(c) /\ c.pc = "goroutine"
  BY <1>1, ProcFacts DEF RunQueuedReceipt, RunQueuedEntry, RunGoroutine, At, Once
<1>3. c.kind = "dlq" /\ RunGoroutine(p, "dlq", "replay")
  <2>1. c.kind # "receipt"
    BY <1>2 DEF Own, Smooth
  <2> QED
    BY <1>1, <2>1 DEF RunQueuedReceipt, RunQueuedEntry, RunGoroutine
<1>4. PICK e \in Entries: e = c.e
  BY <1>2, <1>3 DEF Holding, LetterOf, Letter
<1>5. UNCHANGED <<receipts, entries, handled, lastExec, workers>>
  BY <1>3 DEF RunGoroutine, historyVars
<1>6. PICK d: d = [c EXCEPT !.pc = "replay"]
  OBVIOUS
<1>7. Goto(p, d) /\ updateHRISWebhookExecution(c.x, "running")
  BY <1>1, <1>3, <1>6 DEF RunGoroutine, MarkHRISWebhookExecutionRunning
<1>8. d \in ProcRecs /\ d.pc = "replay" /\ d.e = e /\ d.x = c.x
  BY <1>2, <1>4, <1>6 DEF ProcRecs, Pcs
<1>9. "running" \in ExecStatus
  BY DEF ExecStatus
<1>10. ExecMove
  BY <1>5, <1>7, <1>9, ExecUpdate
<1>11. /\ \A y \in Execs: y # c.x => executions'[y] = executions[y]
       /\ c.x \in Execs => executions'[c.x].status # "queued" /\ (executions'[c.x].status = "running" => ~ executions'[c.x].due)
  BY <1>7, <1>9, ExecUpdated
<1>12. /\ EntryJob(procs[p], e) /\ EntryJob(d, e) /\ d.pc \in Linked /\ d.x = procs[p].x
       /\ procs[p].pc \notin {"run", "markok", "entry"} /\ c.x \in {0, d.x}
  BY <1>1, <1>2, <1>4, <1>8 DEF EntryJob, Linked
<1>13. Own(d)'
  BY <1>8 DEF Own
<1> QED
  BY <1>5, <1>7, <1>8, <1>10, <1>11, <1>12, <1>13, EntryGoesOn

-----------------------------------------------------------------------------
(* Claims.                                                                  *)

\* A step that changes one receipt and no dead letter.
LEMMA WorkReach ==
    ASSUME InboxInv, Once, NEW p \in Procs, NEW d \in ProcRecs, Goto(p, d), NEW r \in Receipts, NEW e,
           UNCHANGED <<entries, executions, lastExec, workers>>,
           \A s \in Receipts: s # r => receipts'[s] = receipts[s] /\ handled'[s] = handled[s],
           handled' = handled \/ NoLetter(r) \/ LetterOf(e, r),
           JobIn(procs[p], r, e), JobIn(d, r, e), procs[p].pc \in Writing => procs[p].r = r,
           procs[p].pc \in Linked /\ procs[p].x # 0 => d.x = procs[p].x /\ d.pc \in Linked,
           receipts'[r].attempts >= receipts[r].attempts \/ ReceiptJob(procs[p], r)
    PROVE  Reach(p, r, e, 0) /\ procs'[p] = d /\ (NoLetter(r)' <=> NoLetter(r))
<1>1. 0 \notin Execs /\ ExecMove
  BY HrisZero, ExecStill
<1>2. /\ Letter(e) => Letter(e)' /\ entries'[e].receipt = entries[e].receipt
      /\ Letter(e)' /\ ~ Letter(e) => entries'[e].receipt = r /\ NoLetter(r)
  BY DEF Letter
<1>3. Reach(p, r, e, 0) /\ procs'[p] = d
  BY <1>1, <1>2, ReachBy
<1> QED
  BY <1>3, SameLetters

LEMMA ClaimFine ==
    ASSUME InboxInv, Once, NEW p \in Procs, NEW r \in Receipts, ClaimHRISWebhookReceiptForProcessing(r),
           NEW d \in ProcRecs, Goto(p, d), d.pc \in {"run", "create"}, d.r = r, d.e = 0,
           d.dlq = (receipts[r].attempts + 1 >= MaxAttempts), procs[p].pc \in Loose,
           UNCHANGED <<executions, lastExec, entries, handled, workers>>
    PROVE  Fine(p)
<1>1. /\ \A q \in Procs: ~ ReceiptJob(procs[q], r)
      /\ \A y \in Execs: ~ ReceiptQueued(executions[y], r)
      /\ NoLetter(r) /\ handled[r] = 0
  <2>1. hrisWebhookReceiptClaimReason(receipts[r]) = ""
    BY DEF ClaimHRISWebhookReceiptForProcessing
  <2> QED
    BY <2>1, ClaimableAlone
<1>2. PICK w \in ReceiptRecs: /\ receipts' = [receipts EXCEPT ![r] = w] /\ w.status = "processing" /\ ~ w.due
                              /\ w.attempts = receipts[r].attempts + 1
  <2>1. Started(receipts[r]).due = FALSE
    BY DEF Started
  <2> QED
    BY <2>1, StartedRecs DEF ClaimHRISWebhookReceiptForProcessing
<1>3. receipts'[r] = w /\ w.attempts >= receipts[r].attempts /\ \A s \in Receipts: s # r => receipts'[s] = receipts[s]
  BY <1>2, StartedRecs DEF InboxInv, HrisTypeOK
<1>4. JobIn(procs[p], r, 0) /\ JobIn(d, r, 0) /\ procs[p].pc \notin Writing /\ procs[p].pc \notin Linked
  BY DEF Loose, JobIn, Writing, Linked
<1>5. Reach(p, r, 0, 0) /\ procs'[p] = d /\ (NoLetter(r)' <=> NoLetter(r))
  <2>1. /\ \A s \in Receipts: s # r => receipts'[s] = receipts[s] /\ handled'[s] = handled[s]
        /\ receipts'[r].attempts >= receipts[r].attempts
    BY <1>3
  <2> QED
    BY <1>4, <2>1, WorkReach
<1>6. 0 \notin Entries /\ 0 \notin Execs
  BY HrisZero
<1>7. Claimed(r)' /\ NoLetter(r)' /\ handled'[r] = 0
  BY <1>1, <1>2, <1>3, <1>5 DEF Claimed
<1>8. ReceiptDone(p, r, 0)
  BY <1>1, <1>5, <1>6, <1>7 DEF ReceiptDone, SoleReceipt
<1>9. d.dlq => receipts'[r].attempts >= MaxAttempts
  BY <1>2, <1>3
<1>10. Own(d)'
  BY <1>9 DEF Own
<1> QED
  BY <1>5, <1>6, <1>8, <1>10 DEF Fine, Sound

LEMMA TickReceiptFine ==
    ASSUME InboxInv, Once, NEW p \in Procs, TickReceipt(p)
    PROVE  Fine(p)
<1>1. PICK c: c = procs[p]
  OBVIOUS
<1>2. c \in ProcRecs /\ c.pc = "due" /\ Holding(c)
  BY <1>1, ProcFacts DEF TickReceipt, At
<1>3. UNCHANGED <<executions, lastExec, entries, handled, workers>>
  BY DEF TickReceipt, historyVars
<1>4. PICK r \in Receipts: /\ ClaimHRISWebhookReceiptForProcessing(r)
                           /\ Goto(p, [c EXCEPT !.pc = "run", !.r = r, !.dlq = receipts[r].attempts + 1 >= MaxAttempts])
  BY <1>1 DEF TickReceipt, DueReceipts
<1>5. PICK b \in BOOLEAN: b = (receipts[r].attempts + 1 >= MaxAttempts)
  BY LastAttempt
<1>6. PICK d: d = [c EXCEPT !.pc = "run", !.r = r, !.dlq = b]
  OBVIOUS
<1>7. d \in ProcRecs /\ d.pc = "run" /\ d.r = r /\ d.e = 0 /\ d.dlq = b
  BY <1>2, <1>6 DEF ProcRecs, Pcs, Holding
<1>8. Goto(p, d) /\ procs[p].pc \in Loose
  BY <1>1, <1>2, <1>4, <1>5, <1>6 DEF Loose
<1> QED
  BY <1>3, <1>4, <1>5, <1>7, <1>8, ClaimFine

LEMMA ProcessReceiptFine ==
    ASSUME InboxInv, Once, NEW p \in Procs, NEW r \in Receipts, ProcessReceipt(p, r)
    PROVE  Fine(p)
<1>1. UNCHANGED <<executions, lastExec, entries, handled, workers>> /\ ClaimHRISWebhookReceiptForProcessing(r)
  BY DEF ProcessReceipt, historyVars
<1>2. PICK b \in BOOLEAN: b = (receipts[r].attempts + 1 >= MaxAttempts)
  BY LastAttempt
<1>3. PICK d: d = [Idle EXCEPT !.pc = "run", !.r = r, !.dlq = b]
  OBVIOUS
<1>4. d \in ProcRecs /\ d.pc = "run" /\ d.r = r /\ d.e = 0 /\ d.dlq = b
  <2>1. d \in ProcRecs
    BY <1>3, IdleFacts DEF ProcRecs, Pcs
  <2> QED
    BY <1>3, <2>1 DEF Idle
<1>5. Goto(p, d) /\ procs[p].pc \in Loose
  BY <1>2, <1>3 DEF ProcessReceipt, At, Loose
<1> QED
  BY <1>1, <1>2, <1>4, <1>5, ClaimFine

LEMMA ClaimQueuedReceiptFine ==
    ASSUME InboxInv, Once, NEW p \in Procs, ClaimQueuedReceipt(p)
    PROVE  Fine(p)
<1>1. PICK c: c = procs[p]
  OBVIOUS
<1>2. c \in ProcRecs /\ c.pc = "queue" /\ c.kind = "receipt" /\ Holding(c)
  BY <1>1, ProcFacts DEF ClaimQueuedReceipt, At
<1>3. UNCHANGED <<executions, lastExec, entries, handled, workers>> /\ procs[p].pc \in Loose
  BY <1>1, <1>2 DEF ClaimQueuedReceipt, historyVars, Loose
<1>4. CASE hrisWebhookReceiptClaimReason(receipts[c.r]) # ""
  <2>1. Goto(p, Idle) /\ UNCHANGED receipts
    BY <1>1, <1>4 DEF ClaimQueuedReceipt
  <2> QED
    BY <1>3, <2>1, IdleLoose, AsideFine
<1>5. CASE hrisWebhookReceiptClaimReason(receipts[c.r]) = ""
  <2>1. PICK r \in Receipts: r = c.r /\ c.e = 0
    BY <1>2 DEF Holding, Known
  <2>2. PICK b \in BOOLEAN: b = (receipts[r].attempts + 1 >= MaxAttempts)
    BY LastAttempt
  <2>3. PICK d: d = [c EXCEPT !.pc = "create", !.dlq = b]
    OBVIOUS
  <2>4. Goto(p, d) /\ ClaimHRISWebhookReceiptForProcessing(r)
    BY <1>1, <1>5, <2>1, <2>2, <2>3 DEF ClaimQueuedReceipt
  <2>5. d \in ProcRecs /\ d.pc = "create" /\ d.r = r /\ d.e = 0 /\ d.dlq = b
    BY <1>2, <2>1, <2>3 DEF ProcRecs, Pcs
  <2> QED
    BY <1>3, <2>2, <2>4, <2>5, ClaimFine
<1> QED
  BY <1>4, <1>5

\* A step that changes a dead letter and no receipt.
LEMMA LetterReach ==
    ASSUME InboxInv, Once, NEW p \in Procs, NEW d \in ProcRecs, Goto(p, d), NEW e \in Entries, Letter(e),
           UNCHANGED <<receipts, executions, lastExec, handled, workers>>,
           \A f \in Entries: f # e => entries'[f] = entries[f],
           entries'[e].status # "none", entries'[e].receipt = entries[e].receipt,
           JobIn(procs[p], 0, e), JobIn(d, 0, e), procs[p].pc \notin Writing,
           procs[p].pc \in Linked /\ procs[p].x # 0 => d.x = procs[p].x /\ d.pc \in Linked
    PROVE  Reach(p, 0, e, 0) /\ procs'[p] = d
<1>1. 0 \notin Receipts /\ 0 \notin Execs /\ ExecMove
  BY HrisZero, ExecStill
<1>2. /\ Letter(e) => Letter(e)' /\ entries'[e].receipt = entries[e].receipt
      /\ Letter(e)' /\ ~ Letter(e) => entries'[e].receipt = 0 /\ NoLetter(0)
  BY DEF Letter
<1> QED
  BY <1>1, <1>2, ReachBy

LEMMA ClaimEntryFine ==
    ASSUME InboxInv, Once, NEW p \in Procs, NEW e \in Entries, NEW max, NEW cool, ClaimEntryForReplay(e, max, cool),
           NEW d \in ProcRecs, Goto(p, d), d.pc \in {"replay", "create"}, d.e = e, procs[p].pc \in Loose,
           UNCHANGED <<executions, lastExec, receipts, handled, workers>>
    PROVE  Fine(p)
<1>1. /\ \A q \in Procs: ~ EntryJob(procs[q], e)
      /\ \A y \in Execs: ~ EntryQueued(executions[y], e)
      /\ Letter(e) /\ handled[entries[e].receipt] = 0
  <2>1. dlqReplayClaimReason(entries[e], max, cool) = ""
    BY DEF ClaimEntryForReplay
  <2> QED
    BY <2>1, EntryClaimableAlone
<1>2. PICK v \in EntryRecs: /\ entries' = [entries EXCEPT ![e] = v] /\ v.status = "replaying" /\ ~ v.due
                            /\ v.receipt = entries[e].receipt
  <2>1. entries[e] \in EntryRecs
    BY DEF InboxInv, HrisTypeOK
  <2>2. PICK v \in EntryRecs: /\ v = [entries[e] EXCEPT !.status = "replaying", !.count = entries[e].count + 1, !.due = FALSE]
                              /\ v.status = "replaying" /\ v.receipt = entries[e].receipt
    BY <2>1, ClaimedRecs
  <2>3. ~ v.due
    BY <2>1, <2>2 DEF EntryRecs
  <2> QED
    BY <2>2, <2>3 DEF ClaimEntryForReplay
<1>3. /\ entries'[e] = v /\ entries'[e].status # "none" /\ entries'[e].receipt = entries[e].receipt
      /\ \A f \in Entries: f # e => entries'[f] = entries[f]
  BY <1>2 DEF InboxInv, HrisTypeOK
<1>4. 0 \notin Receipts /\ 0 \notin Execs /\ e # 0
  BY HrisZero
<1>5. JobIn(procs[p], 0, e) /\ JobIn(d, 0, e) /\ procs[p].pc \notin Writing /\ procs[p].pc \notin Linked
  BY <1>4 DEF Loose, JobIn, Writing, Linked
<1>6. Reach(p, 0, e, 0) /\ procs'[p] = d
  BY <1>1, <1>3, <1>5, LetterReach
<1>7. Replaying(e)' /\ handled'[entries'[e].receipt] = 0
  BY <1>1, <1>2, <1>3, <1>6 DEF Replaying
<1>8. EntryDone(p, e, 0)
  BY <1>1, <1>4, <1>7 DEF EntryDone, SoleEntry
<1>9. Own(d)'
  BY DEF Own
<1> QED
  BY <1>4, <1>6, <1>8, <1>9 DEF Fine, Sound

LEMMA TickEntryFine ==
    ASSUME InboxInv, Once, NEW p \in Procs, TickEntry(p)
    PROVE  Fine(p)
<1>1. PICK c: c = procs[p]
  OBVIOUS
<1>2. c \in ProcRecs /\ c.pc = "due"
  BY <1>1, ProcFacts DEF TickEntry, At
<1>3. UNCHANGED <<executions, lastExec, receipts, handled, workers>>
  BY DEF TickEntry, receiptVars, historyVars
<1>4. PICK e \in Entries: /\ ClaimEntryForReplay(e, MaxReplays, TRUE)
                          /\ Goto(p, [c EXCEPT !.pc = "replay", !.e = e, !.r = entries[e].receipt])
  BY <1>1 DEF TickEntry, DueEntries
<1>5. PICK r \in Receipts \union {0}: r = entries[e].receipt
  BY DEF InboxInv, HrisTypeOK, EntryRecs
<1>6. PICK d: d = [c EXCEPT !.pc = "replay", !.e = e, !.r = r]
  OBVIOUS
<1>7. d \in ProcRecs /\ d.pc = "replay" /\ d.e = e
  BY <1>2, <1>6 DEF ProcRecs, Pcs
<1>8. Goto(p, d) /\ procs[p].pc \in Loose
  BY <1>1, <1>2, <1>4, <1>5, <1>6 DEF Loose
<1> QED
  BY <1>3, <1>4, <1>7, <1>8, ClaimEntryFine

LEMMA ProcessEntryFine ==
    ASSUME InboxInv, Once, NEW p \in Procs, NEW e \in Entries, ProcessEntry(p, e)
    PROVE  Fine(p)
<1>1. UNCHANGED <<executions, lastExec, receipts, handled, workers>> /\ ClaimEntryForReplay(e, 0, FALSE)
  BY DEF ProcessEntry, receiptVars, historyVars
<1>2. PICK r \in Receipts \union {0}: r = entries[e].receipt
  BY DEF InboxInv, HrisTypeOK, EntryRecs
<1>3. PICK d: d = [Idle EXCEPT !.pc = "replay", !.kind = "dlq", !.e = e, !.r = r]
  OBVIOUS
<1>4. d \in ProcRecs /\ d.pc = "replay" /\ d.e = e
  <2>1. d \in ProcRecs
    BY <1>3, IdleFacts DEF ProcRecs, Pcs, Kinds
  <2> QED
    BY <1>3, <2>1 DEF Idle
<1>5. Goto(p, d) /\ procs[p].pc \in Loose
  BY <1>2, <1>3 DEF ProcessEntry, At, Loose
<1> QED
  BY <1>1, <1>4, <1>5, ClaimEntryFine

LEMMA ClaimQueuedEntryFine ==
    ASSUME InboxInv, Once, NEW p \in Procs, ClaimQueuedEntry(p)
    PROVE  Fine(p)
<1>1. PICK c: c = procs[p]
  OBVIOUS
<1>2. c \in ProcRecs /\ c.pc = "queue" /\ c.kind = "dlq" /\ Holding(c)
  BY <1>1, ProcFacts DEF ClaimQueuedEntry, At
<1>3. UNCHANGED <<executions, lastExec, receipts, handled, workers>> /\ procs[p].pc \in Loose
  BY <1>1, <1>2 DEF ClaimQueuedEntry, receiptVars, historyVars, Loose
<1>4. CASE dlqReplayClaimReason(entries[c.e], 0, FALSE) # ""
  <2>1. Goto(p, Idle) /\ UNCHANGED entries
    BY <1>1, <1>4 DEF ClaimQueuedEntry
  <2> QED
    BY <1>3, <2>1, IdleLoose, AsideFine
<1>5. CASE dlqReplayClaimReason(entries[c.e], 0, FALSE) = ""
  <2>1. PICK e \in Entries: e = c.e
    BY <1>2 DEF Holding, LetterOf, Letter
  <2>2. PICK d: d = [c EXCEPT !.pc = "create"]
    OBVIOUS
  <2>3. Goto(p, d) /\ ClaimEntryForReplay(e, 0, FALSE)
    BY <1>1, <1>5, <2>1, <2>2 DEF ClaimQueuedEntry
  <2>4. d \in ProcRecs /\ d.pc = "create" /\ d.e = e
    BY <1>2, <2>1, <2>2 DEF ProcRecs, Pcs
  <2> QED
    BY <1>3, <2>3, <2>4, ClaimEntryFine
<1> QED
  BY <1>4, <1>5

-----------------------------------------------------------------------------
(* The dispatch.                                                            *)

LEMMA CreateOnly ==
    ASSUME InboxInv, NEW k, NEW t, NEW src, NEW x \in Execs, CreateHRISWebhookExecution(x, k, t, src)
    PROVE  /\ \A y \in Execs: y # x => executions'[y] = executions[y] \/ executions'[y].status = "none"
           /\ executions'[x].status # "running"
           /\ executions'[x].status = "queued" => executions'[x].kind = k /\ executions'[x].target = t
<1>1. executions \in [Execs -> ExecRecs]
  BY DEF InboxInv, HrisTypeOK
<1>2. PICK new: new = [status |-> "queued", kind |-> k, target |-> t, due |-> TRUE, src |-> src]
  OBVIOUS
<1>3. PICK all: all = [executions EXCEPT ![x] = new]
  OBVIOUS
<1>4. \A y \in Execs: executions'[y] = NoExec \/ executions'[y] = all[y]
  BY <1>2, <1>3 DEF CreateHRISWebhookExecution
<1>5. all[x] = new /\ \A y \in Execs: y # x => all[y] = executions[y]
  BY <1>1, <1>3
<1>6. NoExec.status = "none" /\ new.status = "queued" /\ new.kind = k /\ new.target = t
  BY <1>2 DEF NoExec
<1> QED
  BY <1>4, <1>5, <1>6

LEMMA DispatchReceiptFine ==
    ASSUME InboxInv, Once, Smooth, NEW p \in Procs, DispatchReceipt(p)
    PROVE  Fine(p)
<1>1. PICK c: c = procs[p]
  OBVIOUS
<1>2. c \in ProcRecs /\ c.pc = "create" /\ c.kind = "receipt" /\ Holding(c)
  BY <1>1, ProcFacts DEF DispatchReceipt, Dispatch, At
<1>3. PICK r \in Receipts: r = c.r /\ c.e = 0 /\ Known(r)
  BY <1>2 DEF Holding, Known
<1>4. PICK x: x = NextExec(lastExec)
  OBVIOUS
<1>5. PICK d: d = [c EXCEPT !.pc = "enqueue", !.x = x, !.orig = NoReceipt, !.src = 0]
  OBVIOUS
<1>6. /\ UNCHANGED <<receipts, entries, handled, workers>>
      /\ x # 0 /\ CreateHRISWebhookExecution(x, "receipt", r, c.src) /\ lastExec' = x
  BY <1>1, <1>3, <1>4 DEF DispatchReceipt, Dispatch, historyVars
<1>7. Goto(p, d)
  <2>1. "receipt" \in workers
    BY DEF Smooth
  <2> QED
    BY <1>1, <1>4, <1>5, <2>1 DEF DispatchReceipt, Dispatch
<1>8. ExecMove /\ x \in Execs
  <2>1. c.src \in Execs \union {0} /\ "receipt" \in Kinds
    BY <1>2 DEF ProcRecs, Kinds
  <2> QED
    BY <1>3, <1>4, <1>6, <2>1, CreateMoves
<1>9. /\ \A y \in Execs: y # x => executions'[y] = executions[y] \/ executions'[y].status = "none"
      /\ executions'[x].status # "running"
      /\ executions'[x].status = "queued" => executions'[x].kind = "receipt" /\ executions'[x].target = r
  BY <1>6, <1>8, CreateOnly
<1>10. d \in ProcRecs /\ d.pc = "enqueue"
  <2>1. NoReceipt \in ReceiptRecs
    BY DEF NoReceipt, ReceiptRecs, ReceiptStatus
  <2> QED
    BY <1>2, <1>5, <1>8, <2>1 DEF ProcRecs, Pcs
<1>11. ReceiptJob(procs[p], r) /\ ~ Handled(procs[p]) /\ ~ ReceiptJob(d, r)
  BY <1>1, <1>2, <1>3, <1>10 DEF ReceiptJob, Handled
<1>12. /\ \A q \in Procs: q # p => ~ ReceiptJob(procs[q], r)
       /\ \A y \in Execs: ~ ReceiptQueued(executions[y], r)
       /\ Claimed(r) /\ NoLetter(r) /\ handled[r] = 0
  BY <1>11, JobAlone
<1>13. JobIn(procs[p], r, 0) /\ JobIn(d, r, 0) /\ procs[p].pc \notin Writing /\ procs[p].pc \notin Linked
  BY <1>1, <1>2, <1>3, <1>10 DEF JobIn, Writing, Linked
<1>14. 0 \notin Entries
  BY HrisZero
<1>15. Reach(p, r, 0, x) /\ procs'[p] = d
  <2>1. executions'[x].status = "queued" => executions'[x].target = IF executions'[x].kind = "receipt" THEN r ELSE 0
    BY <1>9
  <2> QED
    BY <1>6, <1>7, <1>8, <1>9, <1>10, <1>11, <1>13, <1>14, <2>1, ReachBy
<1>16. NoLetter(r)' /\ Claimed(r)' /\ handled'[r] = 0
  BY <1>6, <1>12, SameLetters DEF Claimed
<1>17. ReceiptDone(p, r, x)
  BY <1>11, <1>12, <1>15, <1>16 DEF ReceiptDone, SoleReceipt
<1>18. Own(d)' /\ ExecDone(p, x)
  BY <1>9, <1>10 DEF Own, ExecDone
<1> QED
  BY <1>14, <1>15, <1>17, <1>18 DEF Fine, Sound

LEMMA DispatchEntryFine ==
    ASSUME InboxInv, Once, NEW p \in Procs, DispatchEntry(p)
    PROVE  Fine(p)
<1>1. PICK c: c = procs[p]
  OBVIOUS
<1>2. c \in ProcRecs /\ c.pc = "create" /\ c.kind = "dlq" /\ Holding(c)
  BY <1>1, ProcFacts DEF DispatchEntry, Dispatch, At
<1>3. PICK e \in Entries: e = c.e /\ Letter(e)
  BY <1>2 DEF Holding, LetterOf, Letter
<1>4. PICK x: x = NextExec(lastExec)
  OBVIOUS
<1>5. PICK go \in {"enqueue", "goroutine"}: go = IF "dlq" \in workers THEN "enqueue" ELSE "goroutine"
  OBVIOUS
<1>6. PICK d: d = [c EXCEPT !.pc = go, !.x = x, !.orig = NoReceipt, !.src = 0]
  OBVIOUS
<1>7. /\ UNCHANGED <<receipts, entries, handled, workers>>
      /\ x # 0 /\ CreateHRISWebhookExecution(x, "dlq", e, c.src) /\ lastExec' = x
  BY <1>1, <1>3, <1>4 DEF DispatchEntry, Dispatch, historyVars
<1>8. Goto(p, d)
  BY <1>1, <1>4, <1>5, <1>6 DEF DispatchEntry, Dispatch
<1>9. ExecMove /\ x \in Execs
  <2>1. c.src \in Execs \union {0} /\ "dlq" \in Kinds
    BY <1>2 DEF ProcRecs, Kinds
  <2> QED
    BY <1>3, <1>4, <1>7, <2>1, CreateMoves
<1>10. /\ \A y \in Execs: y # x => executions'[y] = executions[y] \/ executions'[y].status = "none"
       /\ executions'[x].status # "running"
       /\ executions'[x].status = "queued" => executions'[x].kind = "dlq" /\ executions'[x].target = e
  BY <1>7, <1>9, CreateOnly
<1>11. d \in ProcRecs /\ d.pc = go /\ d.e = e /\ d.kind = "dlq"
  <2>1. NoReceipt \in ReceiptRecs
    BY DEF NoReceipt, ReceiptRecs, ReceiptStatus
  <2> QED
    BY <1>2, <1>3, <1>6, <1>9, <2>1 DEF ProcRecs, Pcs
<1>12. EntryJob(procs[p], e) /\ ~ Handled(procs[p])
  BY <1>1, <1>2, <1>3 DEF EntryJob, Handled
<1>13. /\ \A q \in Procs: q # p => ~ EntryJob(procs[q], e)
       /\ \A y \in Execs: ~ EntryQueued(executions[y], e)
       /\ Replaying(e) /\ handled[entries[e].receipt] = 0
  BY <1>12, EntryJobAlone
<1>14. 0 \notin Receipts /\ e # 0
  BY HrisZero
<1>15. JobIn(procs[p], 0, e) /\ JobIn(d, 0, e) /\ procs[p].pc \notin Writing /\ procs[p].pc \notin Linked
  BY <1>1, <1>2, <1>3, <1>11, <1>14 DEF JobIn, Writing, Linked
<1>16. /\ Letter(e) => Letter(e)' /\ entries'[e].receipt = entries[e].receipt
       /\ Letter(e)' /\ ~ Letter(e) => entries'[e].receipt = 0 /\ NoLetter(0)
  BY <1>7 DEF Letter
<1>17. Reach(p, 0, e, x) /\ procs'[p] = d
  <2>1. executions'[x].status = "queued" => executions'[x].target = IF executions'[x].kind = "receipt" THEN 0 ELSE e
    BY <1>10
  <2> QED
    BY <1>7, <1>8, <1>9, <1>10, <1>11, <1>14, <1>15, <1>16, <2>1, ReachBy
<1>18. Replaying(e)' /\ handled'[entries'[e].receipt] = 0
  BY <1>7, <1>13 DEF Replaying
<1>19. EntryQueued(executions'[x], e) => ~ EntryJob(d, e)
  BY <1>5, <1>11 DEF EntryQueued, EntryJob
<1>20. EntryDone(p, e, x)
  BY <1>13, <1>17, <1>18, <1>19 DEF EntryDone, SoleEntry
<1>21. Own(d)' /\ ExecDone(p, x)
  BY <1>5, <1>7, <1>10, <1>11 DEF Own, ExecDone
<1> QED
  BY <1>14, <1>17, <1>20, <1>21 DEF Fine, Sound

\* The receipt or the dead letter whose snapshot is written back was not handled
\* since the snapshot was read.
LEMMA DispatchFailsFine ==
    ASSUME InboxInv, Once, NEW p \in Procs, DispatchFails(p)
    PROVE  Fine(p)
<1>1. PICK c: c = procs[p]
  OBVIOUS
<1>2. c \in ProcRecs /\ c.pc = "create" /\ Holding(c)
  BY <1>1, ProcFacts DEF DispatchFails, At
<1>3. UNCHANGED <<executions, lastExec, handled, workers>> /\ Goto(p, Idle)
  BY DEF DispatchFails, historyVars
<1>4. Idle \in ProcRecs /\ Idle.pc = "idle"
  BY IdleFacts DEF Idle
<1>5. Own(Idle)'
  BY <1>4 DEF Own
<1>6. 0 \notin Receipts /\ 0 \notin Entries /\ 0 \notin Execs
  BY HrisZero
<1>7. procs[p].pc \notin Writing /\ procs[p].pc \notin Linked /\ ~ Handled(procs[p])
  BY <1>1, <1>2 DEF Writing, Linked, Handled
<1>8. CASE c.kind = "receipt"
  <2>1. PICK r \in Receipts: r = c.r /\ c.e = 0
    BY <1>2, <1>8 DEF Holding, Known
  <2>2. UNCHANGED entries /\ \A s \in Receipts: s # r => receipts'[s] = receipts[s] /\ handled'[s] = handled[s]
    BY <1>1, <1>3, <1>8, <2>1 DEF DispatchFails, RestoreHRISWebhookReceipt, InboxInv, HrisTypeOK
  <2>3. ReceiptJob(procs[p], r) /\ ~ ReceiptJob(Idle, r)
    BY <1>1, <1>2, <1>4, <2>1 DEF ReceiptJob
  <2>4. /\ \A q \in Procs: q # p => ~ ReceiptJob(procs[q], r)
        /\ \A y \in Execs: ~ ReceiptQueued(executions[y], r)
        /\ NoLetter(r) /\ handled[r] = 0
    BY <1>7, <2>3, JobAlone
  <2>5. JobIn(procs[p], r, 0) /\ JobIn(Idle, r, 0)
    BY <1>1, <1>2, <1>4, <2>1 DEF JobIn
  <2>6. Reach(p, r, 0, 0) /\ procs'[p] = Idle /\ (NoLetter(r)' <=> NoLetter(r))
    BY <1>3, <1>4, <1>7, <2>2, <2>3, <2>5, WorkReach
  <2>7. ReceiptDone(p, r, 0)
    BY <1>3, <1>6, <2>3, <2>4, <2>6 DEF ReceiptDone, SoleReceipt
  <2> QED
    BY <1>5, <1>6, <2>6, <2>7 DEF Fine, Sound
<1>9. CASE c.kind # "receipt"
  <2>1. PICK e \in Entries: e = c.e /\ Letter(e) /\ EntrySnap(c) /\ c.r = entries[e].receipt
    BY <1>2, <1>9 DEF Holding, LetterOf, Letter
  <2>2. entries' = [entries EXCEPT ![e] = c.orig] /\ UNCHANGED receipts
    BY <1>1, <1>9, <2>1 DEF DispatchFails, RestoreEntry
  <2>3. /\ entries'[e].status # "none" /\ entries'[e].receipt = entries[e].receipt
        /\ \A f \in Entries: f # e => entries'[f] = entries[f]
    <3>1. entries'[e] = c.orig /\ \A f \in Entries: f # e => entries'[f] = entries[f]
      BY <2>2 DEF InboxInv, HrisTypeOK
    <3> QED
      BY <2>1, <3>1 DEF EntrySnap
  <2>4. EntryJob(procs[p], e) /\ ~ EntryJob(Idle, e)
    BY <1>1, <1>2, <1>4, <2>1 DEF EntryJob
  <2>5. /\ \A q \in Procs: q # p => ~ EntryJob(procs[q], e)
        /\ \A y \in Execs: ~ EntryQueued(executions[y], e)
        /\ handled[entries[e].receipt] = 0
    BY <1>7, <2>4, EntryJobAlone
  <2>6. JobIn(procs[p], 0, e) /\ JobIn(Idle, 0, e)
    <3>1. e # 0
      BY <1>6
    <3> QED
      BY <1>1, <1>2, <1>4, <2>1, <3>1 DEF JobIn
  <2>7. Reach(p, 0, e, 0) /\ procs'[p] = Idle
    BY <1>3, <1>4, <1>7, <2>1, <2>2, <2>3, <2>6, LetterReach
  <2>8. handled'[entries'[e].receipt] = 0
    BY <1>3, <2>3, <2>5
  <2>9. EntryDone(p, e, 0)
    BY <1>6, <2>4, <2>5, <2>7, <2>8 DEF EntryDone, SoleEntry
  <2> QED
    BY <1>5, <1>6, <2>7, <2>9 DEF Fine, Sound
<1> QED
  BY <1>8, <1>9

-----------------------------------------------------------------------------
(* The work on a receipt.                                                   *)

\* What a process at work on receipt r and dead letter e knows.
LEMMA AtWork ==
    ASSUME InboxInv, Once, NEW p \in Procs, procs[p].pc \in {"run", "markok"}
    PROVE  \E r \in Receipts:
              /\ procs[p].r = r /\ handled[r] \in Nat /\ handled[r] <= 1 /\ (handled[r] = 0 \/ procs[p].pc = "markok")
              /\ \A q \in Procs: q # p => ~ ReceiptJob(procs[q], r)
              /\ \A y \in Execs: ~ ReceiptQueued(executions[y], r)
              /\ \/ procs[p].e = 0 /\ ReceiptJob(procs[p], r) /\ NoLetter(r) /\ Claimed(r)
                 \/ \E e \in Entries:
                       /\ procs[p].e = e /\ EntryJob(procs[p], e) /\ LetterOf(e, r) /\ Replaying(e)
                       /\ receipts[r].attempts >= MaxAttempts /\ Shut(r) /\ ~ NoLetter(r)
                       /\ \A q \in Procs: q # p => ~ EntryJob(procs[q], e)
                       /\ \A y \in Execs: ~ EntryQueued(executions[y], e)
<1>1. PICK c: c = procs[p]
  OBVIOUS
<1>2. c \in ProcRecs /\ Holding(c) /\ c.pc \in {"run", "markok"}
  BY <1>1, ProcFacts
<1>3. PICK r \in Receipts: r = c.r /\ (c.e = 0 \/ LetterOf(c.e, r))
  BY <1>2 DEF Holding, Known
<1>4. handled[r] \in Nat
  BY DEF InboxInv, HrisTypeOK
<1>5. Handled(c) => c.pc = "markok"
  BY <1>2 DEF Handled
<1>6. CASE c.e = 0
  <2>1. ReceiptJob(procs[p], r)
    BY <1>1, <1>2, <1>3, <1>6 DEF ReceiptJob
  <2>2. /\ \A q \in Procs: q # p => ~ ReceiptJob(procs[q], r)
        /\ \A y \in Execs: ~ ReceiptQueued(executions[y], r)
        /\ Claimed(r) /\ NoLetter(r) /\ (handled[r] = 0 \/ Handled(procs[p])) /\ handled[r] <= 1
    BY <2>1, JobAlone
  <2> QED
    BY <1>1, <1>3, <1>4, <1>5, <1>6, <2>1, <2>2
<1>7. CASE c.e # 0
  <2>1. PICK e \in Entries: e = c.e /\ LetterOf(e, r) /\ entries[e].receipt = r
    BY <1>3, <1>7 DEF LetterOf, Letter
  <2>2. EntryJob(procs[p], e)
    BY <1>1, <1>2, <2>1 DEF EntryJob
  <2>3. /\ \A q \in Procs: q # p => ~ EntryJob(procs[q], e)
        /\ \A y \in Execs: ~ EntryQueued(executions[y], e)
        /\ Replaying(e) /\ (handled[r] = 0 \/ Handled(procs[p]))
    BY <2>1, <2>2, EntryJobAlone
  <2>4. ~ NoLetter(r)
    BY <2>1 DEF NoLetter
  <2>5. /\ \A q \in Procs: ~ ReceiptJob(procs[q], r)
        /\ \A y \in Execs: ~ ReceiptQueued(executions[y], r)
        /\ receipts[r].attempts >= MaxAttempts /\ Shut(r) /\ handled[r] <= 1
    BY <2>4, LetterAlone
  <2> QED
    BY <1>1, <1>3, <1>4, <1>5, <2>1, <2>2, <2>3, <2>4, <2>5
<1> QED
  BY <1>6, <1>7

\* Where a process goes after its receipt.
LEMMA AfterWork ==
    ASSUME InboxInv, NEW p \in Procs, NEW ok \in BOOLEAN, After(p, procs[p], ok)
    PROVE  \E d \in ProcRecs:
              /\ Goto(p, d) /\ (procs[p].x # 0 => d.x = procs[p].x /\ d.pc \in Linked) /\ Own(d)'
              /\ IF procs[p].e # 0 /\ procs[p].pc \notin {"redlq", "entry"}
                 THEN d.pc = "entry" /\ d.e = procs[p].e /\ d.ok = ok
                 ELSE d.pc \in {"complete", "idle"}
<1>1. PICK c: c = procs[p]
  OBVIOUS
<1>2. c \in ProcRecs
  BY <1>1, ProcFacts
<1>3. CASE c.e # 0 /\ c.pc \notin {"redlq", "entry"}
  <2>1. PICK d: d = [c EXCEPT !.pc = "entry", !.ok = ok, !.dlq = FALSE]
    OBVIOUS
  <2>2. Goto(p, d)
    BY <1>1, <1>3, <2>1 DEF After
  <2>3. d \in ProcRecs /\ d.pc = "entry" /\ d.e = c.e /\ d.ok = ok /\ d.x = c.x
    BY <1>2, <2>1 DEF ProcRecs, Pcs
  <2>4. Own(d)' /\ d.pc \in Linked
    BY <2>3 DEF Own, Linked
  <2> QED
    BY <1>1, <1>3, <2>2, <2>3, <2>4
<1>4. CASE ~ (c.e # 0 /\ c.pc \notin {"redlq", "entry"}) /\ c.x # 0
  <2>1. PICK d: d = [c EXCEPT !.pc = "complete", !.ok = ok, !.dlq = FALSE]
    OBVIOUS
  <2>2. Goto(p, d)
    BY <1>1, <1>4, <2>1 DEF After
  <2>3. d \in ProcRecs /\ d.pc = "complete" /\ d.x = c.x
    BY <1>2, <2>1 DEF ProcRecs, Pcs
  <2>4. Own(d)' /\ d.pc \in Linked
    BY <2>3 DEF Own, Linked
  <2> QED
    BY <1>1, <1>4, <2>2, <2>3, <2>4
<1>5. CASE ~ (c.e # 0 /\ c.pc \notin {"redlq", "entry"}) /\ c.x = 0
  <2>1. Goto(p, Idle)
    BY <1>1, <1>5 DEF After
  <2>2. Idle \in ProcRecs /\ Idle.pc = "idle"
    BY IdleFacts DEF Idle
  <2>3. Own(Idle)'
    BY <2>2 DEF Own
  <2> QED
    BY <1>1, <1>5, <2>1, <2>2, <2>3
<1> QED
  BY <1>3, <1>4, <1>5

LEMMA MarkFacts ==
    ASSUME InboxInv, NEW r \in Receipts, NEW st, MarkHRISWebhookReceipt(r, st)
    PROVE  /\ receipts'[r].status = st /\ receipts'[r].attempts = receipts[r].attempts
           /\ receipts[r].attempts \in Nat /\ receipts'[r].attempts >= receipts[r].attempts
           /\ \A s \in Receipts: s # r => receipts'[s] = receipts[s]
<1>1. receipts \in [Receipts -> ReceiptRecs] /\ receipts[r].attempts \in Nat
  BY StartedRecs DEF InboxInv, HrisTypeOK
<1>2. receipts'[r] = [receipts[r] EXCEPT !.status = st, !.due = FALSE] /\ \A s \in Receipts: s # r => receipts'[s] = receipts[s]
  BY <1>1 DEF MarkHRISWebhookReceipt
<1>3. receipts'[r].status = st /\ receipts'[r].attempts = receipts[r].attempts
  <2>1. receipts[r] \in ReceiptRecs
    BY <1>1
  <2> QED
    BY <1>2, <2>1 DEF ReceiptRecs
<1> QED
  BY <1>1, <1>2, <1>3

\* The receipt gets its last mark, or fails in a replay or with attempts left.
LEMMA MarkFine ==
    ASSUME InboxInv, Once, NEW p \in Procs, procs[p].pc \in {"run", "markok"},
           NEW ok \in BOOLEAN, After(p, procs[p], ok),
           NEW st, MarkHRISWebhookReceipt(procs[p].r, st), IF ok THEN st \in {"processed", "skipped"} ELSE st = "failed",
           \A s \in Receipts: s # procs[p].r => handled'[s] = handled[s],
           handled'[procs[p].r] = IF ok THEN 1 ELSE handled[procs[p].r],
           ~ ok => handled' = handled /\ procs[p].pc = "run",
           UNCHANGED <<entries, executions, lastExec, workers>>
    PROVE  Fine(p)
<1>1. PICK r \in Receipts:
              /\ procs[p].r = r /\ handled[r] \in Nat /\ handled[r] <= 1 /\ (handled[r] = 0 \/ procs[p].pc = "markok")
              /\ \A q \in Procs: q # p => ~ ReceiptJob(procs[q], r)
              /\ \A y \in Execs: ~ ReceiptQueued(executions[y], r)
              /\ \/ procs[p].e = 0 /\ ReceiptJob(procs[p], r) /\ NoLetter(r) /\ Claimed(r)
                 \/ \E e \in Entries:
                       /\ procs[p].e = e /\ EntryJob(procs[p], e) /\ LetterOf(e, r) /\ Replaying(e)
                       /\ receipts[r].attempts >= MaxAttempts /\ Shut(r) /\ ~ NoLetter(r)
                       /\ \A q \in Procs: q # p => ~ EntryJob(procs[q], e)
                       /\ \A y \in Execs: ~ EntryQueued(executions[y], e)
  BY AtWork
<1>2. PICK d \in ProcRecs:
              /\ Goto(p, d) /\ (procs[p].x # 0 => d.x = procs[p].x /\ d.pc \in Linked) /\ Own(d)'
              /\ IF procs[p].e # 0 /\ procs[p].pc \notin {"redlq", "entry"}
                 THEN d.pc = "entry" /\ d.e = procs[p].e /\ d.ok = ok
                 ELSE d.pc \in {"complete", "idle"}
  BY AfterWork
<1>3. /\ receipts'[r].status = st /\ receipts'[r].attempts = receipts[r].attempts
      /\ receipts'[r].attempts >= receipts[r].attempts
      /\ \A s \in Receipts: s # r => receipts'[s] = receipts[s]
  BY <1>1, MarkFacts
<1>4. 0 \notin Entries /\ 0 \notin Execs
  BY HrisZero
<1>5. /\ \A s \in Receipts: s # r => receipts'[s] = receipts[s] /\ handled'[s] = handled[s]
      /\ ok => handled'[r] = 1
      /\ ~ ok => handled'[r] = 0 /\ handled' = handled /\ st = "failed"
  BY <1>1, <1>3
<1>6. handled'[r] <= 1
  BY <1>1, <1>5
<1>7. ok => Shut(r)'
  BY <1>3 DEF Shut
<1>8. CASE procs[p].e = 0
  <2>1. ReceiptJob(procs[p], r) /\ NoLetter(r) /\ d.pc \in {"complete", "idle"}
    BY <1>1, <1>2, <1>4, <1>8
  <2>2. JobIn(procs[p], r, 0) /\ JobIn(d, r, 0) /\ ~ ReceiptJob(d, r)
    BY <1>1, <1>8, <2>1 DEF JobIn, ReceiptJob
  <2>3. Reach(p, r, 0, 0) /\ procs'[p] = d /\ (NoLetter(r)' <=> NoLetter(r))
    <3>1. /\ Goto(p, d) /\ (procs[p].pc \in Writing => procs[p].r = r)
          /\ (procs[p].pc \in Linked /\ procs[p].x # 0 => d.x = procs[p].x /\ d.pc \in Linked)
      BY <1>1, <1>2
    <3> QED
      BY <1>5, <2>1, <2>2, <3>1, WorkReach
  <2>4. ReceiptDone(p, r, 0)
    <3>1. handled'[r] > 0 => Shut(r)'
      BY <1>5, <1>7
    <3> QED
      BY <1>1, <1>4, <1>6, <2>1, <2>2, <2>3, <3>1 DEF ReceiptDone, SoleReceipt
  <2> QED
    BY <1>2, <1>4, <2>3, <2>4 DEF Fine, Sound
<1>9. ASSUME procs[p].e # 0 PROVE Fine(p)
  <2>1. PICK e \in Entries:
                       /\ procs[p].e = e /\ EntryJob(procs[p], e) /\ LetterOf(e, r) /\ Replaying(e)
                       /\ receipts[r].attempts >= MaxAttempts /\ Shut(r) /\ ~ NoLetter(r)
                       /\ \A q \in Procs: q # p => ~ EntryJob(procs[q], e)
                       /\ \A y \in Execs: ~ EntryQueued(executions[y], e)
    BY <1>1, <1>9
  <2>2. d.pc = "entry" /\ d.e = e /\ d.ok = ok
    BY <1>2, <1>9, <2>1
  <2>3. e # 0 /\ entries'[e].receipt = r /\ Replaying(e)'
    BY <1>4, <2>1 DEF LetterOf, Replaying
  <2>4. JobIn(procs[p], r, e) /\ JobIn(d, r, e) /\ ~ ReceiptJob(d, r) /\ EntryJob(d, e) /\ (ok => Handled(d))
    BY <1>1, <2>1, <2>2, <2>3 DEF JobIn, ReceiptJob, EntryJob, Handled
  <2>5. Reach(p, r, e, 0) /\ procs'[p] = d /\ (NoLetter(r)' <=> NoLetter(r))
    <3>1. /\ Goto(p, d) /\ (procs[p].pc \in Writing => procs[p].r = r)
          /\ (procs[p].pc \in Linked /\ procs[p].x # 0 => d.x = procs[p].x /\ d.pc \in Linked)
      BY <1>1, <1>2
    <3> QED
      BY <1>3, <1>5, <2>1, <2>4, <3>1, WorkReach
  <2>6. Shut(r)'
    BY <1>3, <1>5, <1>7, <2>1 DEF Shut
  <2>7. ReceiptDone(p, r, 0)
    BY <1>1, <1>3, <1>4, <1>6, <2>1, <2>4, <2>5, <2>6 DEF ReceiptDone, SoleReceipt
  <2>8. EntryDone(p, e, 0)
    <3>1. handled'[r] = 0 \/ Handled(d)
      BY <1>5, <2>4
    <3>2. handled'[r] > 0 => Handled(d)
      BY <1>5, <2>4
    <3> QED
      BY <1>4, <2>1, <2>3, <2>4, <2>5, <3>1, <3>2 DEF EntryDone, SoleEntry
  <2> QED
    BY <1>2, <1>4, <2>5, <2>7, <2>8 DEF Fine, Sound
<1> QED
  BY <1>8, <1>9

LEMMA SkipReceiptFine ==
    ASSUME InboxInv, Once, Smooth, NEW p \in Procs, SkipReceipt(p)
    PROVE  Fine(p)
<1>1. PICK r \in Receipts: procs[p].r = r /\ handled[r] = 0
  <2>1. procs[p].pc \in {"run", "markok"} /\ procs[p].pc # "markok"
    BY DEF SkipReceipt, At
  <2> QED
    BY <2>1, AtWork
<1>2. MarkHRISWebhookReceipt(procs[p].r, "skipped")
  BY NoFault DEF SkipReceipt, MarkHRISWebhookReceiptSkipped
<1>3. /\ handled' = [handled EXCEPT ![procs[p].r] = @ + 1] /\ After(p, procs[p], TRUE)
      /\ UNCHANGED <<entries, executions, lastExec, workers>> /\ procs[p].pc = "run"
  BY DEF SkipReceipt, At
<1>4. handled'[procs[p].r] = 1 /\ \A s \in Receipts: s # procs[p].r => handled'[s] = handled[s]
  BY <1>1, <1>3 DEF InboxInv, HrisTypeOK
<1> QED
  BY <1>2, <1>3, <1>4, MarkFine

\* A receipt that has a dead letter is marked "dlq".
LEMMA MarkDlqFine ==
    ASSUME InboxInv, Once, NEW p \in Procs, procs[p].pc = "redlq" \/ (procs[p].pc = "markdlq" /\ procs[p].e = 0),
           NEW r \in Receipts, r = procs[p].r, ~ NoLetter(r), After(p, procs[p], FALSE), MarkHRISWebhookReceipt(r, "dlq"),
           UNCHANGED <<entries, executions, lastExec, handled, workers>>
    PROVE  Fine(p)
<1>1. PICK d \in ProcRecs:
              /\ Goto(p, d) /\ (procs[p].x # 0 => d.x = procs[p].x /\ d.pc \in Linked) /\ Own(d)'
              /\ IF procs[p].e # 0 /\ procs[p].pc \notin {"redlq", "entry"}
                 THEN d.pc = "entry" /\ d.e = procs[p].e /\ d.ok = FALSE
                 ELSE d.pc \in {"complete", "idle"}
  BY AfterWork
<1>2. Goto(p, d) /\ d.pc \in {"complete", "idle"} /\ Own(d)'
  BY <1>1
<1>3. /\ receipts'[r].status = "dlq" /\ receipts'[r].attempts = receipts[r].attempts
      /\ receipts'[r].attempts >= receipts[r].attempts
      /\ \A s \in Receipts: s # r => receipts'[s] = receipts[s] /\ handled'[s] = handled[s]
  BY MarkFacts
<1>4. 0 \notin Entries /\ 0 \notin Execs
  BY HrisZero
<1>5. JobIn(procs[p], r, 0) /\ JobIn(d, r, 0) /\ ~ ReceiptJob(d, r)
  BY <1>2 DEF JobIn, ReceiptJob
<1>6. Reach(p, r, 0, 0) /\ procs'[p] = d /\ (NoLetter(r)' <=> NoLetter(r))
  <2>1. procs[p].pc \in Linked /\ procs[p].x # 0 => d.x = procs[p].x /\ d.pc \in Linked
    BY <1>1
  <2> QED
    BY <1>2, <1>3, <1>5, <2>1, WorkReach
<1>7. /\ \A q \in Procs: ~ ReceiptJob(procs[q], r)
      /\ \A y \in Execs: ~ ReceiptQueued(executions[y], r)
      /\ receipts[r].attempts >= MaxAttempts /\ handled[r] <= 1
  BY LetterAlone
<1>8. Shut(r)'
  BY <1>3 DEF Shut
<1>9. ReceiptDone(p, r, 0)
  BY <1>3, <1>4, <1>5, <1>6, <1>7, <1>8 DEF ReceiptDone, SoleReceipt
<1> QED
  BY <1>2, <1>4, <1>6, <1>9 DEF Fine, Sound

LEMMA FinishReceiptFine ==
    ASSUME InboxInv, Once, Smooth, NEW p \in Procs, FinishReceipt(p)
    PROVE  Fine(p)
<1>1. procs[p].pc \in {"markok", "markdlq"} /\ Holding(procs[p]) /\ Knowing(procs[p]) /\ Own(procs[p])
  BY ProcFacts DEF FinishReceipt, Once
<1>2. UNCHANGED <<entries, executions, lastExec, handled, workers>>
  BY DEF FinishReceipt, historyVars
<1>3. PICK ok \in BOOLEAN: ok = (procs[p].pc = "markok") /\ After(p, procs[p], ok)
  BY DEF FinishReceipt
<1>4. CASE procs[p].pc = "markok"
  <2>1. ok = TRUE /\ MarkHRISWebhookReceipt(procs[p].r, "processed")
    BY <1>3, <1>4, NoFault DEF FinishReceipt, MarkHRISWebhookReceiptProcessed
  <2>2. PICK r \in Receipts: procs[p].r = r /\ handled[r] \in Nat /\ handled[r] <= 1
    BY <1>4, AtWork
  <2>3. handled[r] = 1
    <3>1. handled[r] > 0
      BY <1>1, <1>4, <2>2 DEF Knowing
    <3> QED
      BY <2>2, <3>1
  <2>4. /\ handled'[procs[p].r] = 1 /\ \A s \in Receipts: s # procs[p].r => handled'[s] = handled[s]
        /\ UNCHANGED <<entries, executions, lastExec, workers>>
    BY <1>2, <2>2, <2>3
  <2> QED
    BY <1>3, <1>4, <2>1, <2>4, MarkFine
<1>5. CASE procs[p].pc = "markdlq"
  <2>1. ok = FALSE /\ MarkHRISWebhookReceipt(procs[p].r, "dlq")
    BY <1>3, <1>5, NoFault DEF FinishReceipt, MarkHRISWebhookReceiptDLQ
  <2>2. procs[p].r \in Receipts /\ procs[p].e = 0 /\ ~ NoLetter(procs[p].r)
    BY <1>1, <1>5 DEF Own, Holding, Known
  <2> QED
    BY <1>2, <1>3, <1>5, <2>1, <2>2, MarkDlqFine
<1> QED
  BY <1>1, <1>4, <1>5

LEMMA RestoreReceiptDLQFine ==
    ASSUME InboxInv, Once, Smooth, NEW p \in Procs, RestoreReceiptDLQ(p)
    PROVE  Fine(p)
<1>1. procs[p].pc = "redlq" /\ Holding(procs[p])
  BY ProcFacts DEF RestoreReceiptDLQ, At
<1>2. UNCHANGED <<entries, executions, lastExec, handled, workers>> /\ After(p, procs[p], FALSE)
  BY DEF RestoreReceiptDLQ, historyVars
<1>3. MarkHRISWebhookReceipt(procs[p].r, "dlq")
  BY NoFault DEF RestoreReceiptDLQ, MarkHRISWebhookReceiptDLQ
<1>4. procs[p].r \in Receipts /\ ~ NoLetter(procs[p].r)
  BY <1>1 DEF Holding, Known, NoLetter, LetterOf, Letter
<1> QED
  BY <1>1, <1>2, <1>3, <1>4, MarkDlqFine

LEMMA StartReceiptFine ==
    ASSUME InboxInv, Once, Smooth, NEW p \in Procs, StartReceipt(p)
    PROVE  Fine(p)
<1>1. PICK c: c = procs[p]
  OBVIOUS
<1>2. c \in ProcRecs /\ c.pc = "start" /\ Holding(c) /\ Own(c)
  BY <1>1, ProcFacts DEF StartReceipt, At, Once
<1>3. PICK r \in Receipts: r = c.r /\ c.e # 0 /\ LetterOf(c.e, r) /\ ~ c.dlq
  BY <1>2 DEF Holding, Known, Own
<1>4. PICK e \in Entries: e = c.e /\ LetterOf(e, r) /\ entries[e].receipt = r
  BY <1>3 DEF LetterOf, Letter
<1>5. UNCHANGED <<entries, executions, lastExec, handled, workers>>
  BY DEF StartReceipt, historyVars
<1>6. PICK w \in ReceiptRecs: /\ receipts' = [receipts EXCEPT ![r] = w] /\ w.status = "processing" /\ ~ w.due
                              /\ w.attempts = receipts[r].attempts + 1 /\ receipts[r].attempts \in Nat
  <2>1. Started(receipts[r]).due = FALSE
    BY DEF Started
  <2>2. MarkHRISWebhookReceiptStarted(r)
    BY <1>1, <1>3, NoFault DEF StartReceipt
  <2> QED
    BY <2>1, <2>2, StartedRecs DEF MarkHRISWebhookReceiptStarted
<1>7. /\ receipts'[r] = w /\ receipts'[r].attempts >= receipts[r].attempts
      /\ \A s \in Receipts: s # r => receipts'[s] = receipts[s] /\ handled'[s] = handled[s]
  BY <1>5, <1>6 DEF InboxInv, HrisTypeOK
<1>8. PICK d: d = [c EXCEPT !.pc = "run"]
  OBVIOUS
<1>9. Goto(p, d)
  BY <1>1, <1>8 DEF StartReceipt
<1>10. d \in ProcRecs /\ d.pc = "run" /\ d.r = r /\ d.e = e /\ d.x = c.x /\ ~ d.dlq
  BY <1>2, <1>3, <1>4, <1>8 DEF ProcRecs, Pcs
<1>11. 0 \notin Execs /\ e # 0
  BY HrisZero
<1>12. EntryJob(procs[p], e) /\ ~ Handled(procs[p])
  BY <1>1, <1>2, <1>4 DEF EntryJob, Handled
<1>13. /\ \A q \in Procs: q # p => ~ EntryJob(procs[q], e)
       /\ \A y \in Execs: ~ EntryQueued(executions[y], e)
       /\ Replaying(e) /\ handled[r] = 0
  BY <1>4, <1>12, EntryJobAlone
<1>14. ~ NoLetter(r)
  BY <1>4 DEF NoLetter
<1>15. /\ \A q \in Procs: ~ ReceiptJob(procs[q], r)
       /\ \A y \in Execs: ~ ReceiptQueued(executions[y], r)
       /\ receipts[r].attempts >= MaxAttempts
  BY <1>14, LetterAlone
<1>16. JobIn(procs[p], r, e) /\ JobIn(d, r, e) /\ procs[p].pc \notin Writing /\ d.x = procs[p].x /\ d.pc \in Linked
       /\ ~ ReceiptJob(d, r)
  BY <1>1, <1>2, <1>4, <1>10, <1>11 DEF JobIn, Writing, Linked, ReceiptJob
<1>17. Reach(p, r, e, 0) /\ procs'[p] = d /\ (NoLetter(r)' <=> NoLetter(r))
  BY <1>5, <1>7, <1>9, <1>10, <1>16, WorkReach
<1>18. Shut(r)'
  <2>1. Claimed(r)' /\ procs'[p].r = r /\ procs'[p].pc \in Writing
    BY <1>6, <1>7, <1>10, <1>17 DEF Claimed, Writing
  <2> QED
    BY <2>1 DEF Shut
<1>19. receipts'[r].attempts >= MaxAttempts
  BY <1>6, <1>7, <1>15, HrisBounds
<1>20. ReceiptDone(p, r, 0)
  BY <1>5, <1>11, <1>13, <1>15, <1>16, <1>17, <1>18, <1>19 DEF ReceiptDone, SoleReceipt
<1>21. Replaying(e)' /\ handled'[entries'[e].receipt] = 0
  BY <1>4, <1>5, <1>13 DEF Replaying
<1>22. EntryDone(p, e, 0)
  BY <1>11, <1>13, <1>21 DEF EntryDone, SoleEntry
<1>23. Own(d)'
  BY <1>10 DEF Own
<1> QED
  BY <1>11, <1>17, <1>20, <1>22, <1>23 DEF Fine, Sound

LEMMA SyncReceiptFine ==
    ASSUME InboxInv, Once, NEW p \in Procs, SyncReceipt(p)
    PROVE  Fine(p)
<1>1. PICK c: c = procs[p]
  OBVIOUS
<1>2. c \in ProcRecs /\ c.pc = "run"
  BY <1>1, ProcFacts DEF SyncReceipt, At
<1>3. PICK r \in Receipts:
              /\ procs[p].r = r /\ handled[r] \in Nat /\ handled[r] <= 1 /\ (handled[r] = 0 \/ procs[p].pc = "markok")
              /\ \A q \in Procs: q # p => ~ ReceiptJob(procs[q], r)
              /\ \A y \in Execs: ~ ReceiptQueued(executions[y], r)
              /\ \/ procs[p].e = 0 /\ ReceiptJob(procs[p], r) /\ NoLetter(r) /\ Claimed(r)
                 \/ \E e \in Entries:
                       /\ procs[p].e = e /\ EntryJob(procs[p], e) /\ LetterOf(e, r) /\ Replaying(e)
                       /\ receipts[r].attempts >= MaxAttempts /\ Shut(r) /\ ~ NoLetter(r)
                       /\ \A q \in Procs: q # p => ~ EntryJob(procs[q], e)
                       /\ \A y \in Execs: ~ EntryQueued(executions[y], e)
  BY <1>1, <1>2, AtWork
<1>4. UNCHANGED <<receipts, entries, executions, lastExec, workers>> /\ handled' = [handled EXCEPT ![r] = @ + 1]
  BY <1>3 DEF SyncReceipt, receiptVars
<1>5. /\ handled'[r] = 1 /\ handled'[r] <= 1
      /\ \A s \in Receipts: s # r => receipts'[s] = receipts[s] /\ handled'[s] = handled[s]
  <2>1. handled[r] = 0 /\ handled \in [Receipts -> Nat]
    BY <1>1, <1>2, <1>3 DEF InboxInv, HrisTypeOK
  <2> QED
    BY <1>4, <2>1
<1>6. PICK d: d = [c EXCEPT !.pc = "markok"]
  OBVIOUS
<1>7. Goto(p, d)
  BY <1>1, <1>6 DEF SyncReceipt
<1>8. d \in ProcRecs /\ d.pc = "markok" /\ d.r = r /\ d.e = c.e /\ d.x = c.x
  BY <1>1, <1>2, <1>3, <1>6 DEF ProcRecs, Pcs
<1>9. 0 \notin Entries /\ 0 \notin Execs
  BY HrisZero
<1>10. Handled(d) /\ Own(d)' /\ d.pc \in Writing /\ d.pc \in Linked /\ d.x = procs[p].x
  BY <1>1, <1>8 DEF Handled, Own, Writing, Linked
<1>11. receipts'[r].attempts >= receipts[r].attempts
  BY <1>4, StartedRecs
<1>12. CASE procs[p].e = 0
  <2>1. ReceiptJob(procs[p], r) /\ NoLetter(r) /\ Claimed(r)
    BY <1>3, <1>9, <1>12
  <2>2. JobIn(procs[p], r, 0) /\ JobIn(d, r, 0)
    BY <1>1, <1>3, <1>8, <1>12 DEF JobIn
  <2>3. Reach(p, r, 0, 0) /\ procs'[p] = d /\ (NoLetter(r)' <=> NoLetter(r))
    BY <1>3, <1>4, <1>5, <1>7, <1>8, <1>10, <1>11, <2>1, <2>2, WorkReach
  <2>4. Claimed(r)' /\ Shut(r)'
    BY <1>4, <1>8, <1>10, <2>1, <2>3 DEF Claimed, Shut
  <2>5. ReceiptDone(p, r, 0)
    BY <1>3, <1>5, <1>9, <1>10, <2>1, <2>3, <2>4 DEF ReceiptDone, SoleReceipt
  <2> QED
    BY <1>9, <1>10, <2>3, <2>5 DEF Fine, Sound
<1>13. CASE procs[p].e # 0
  <2>1. PICK e \in Entries:
                       /\ procs[p].e = e /\ EntryJob(procs[p], e) /\ LetterOf(e, r) /\ Replaying(e)
                       /\ receipts[r].attempts >= MaxAttempts /\ Shut(r) /\ ~ NoLetter(r)
                       /\ \A q \in Procs: q # p => ~ EntryJob(procs[q], e)
                       /\ \A y \in Execs: ~ EntryQueued(executions[y], e)
    BY <1>3, <1>13
  <2>2. e # 0 /\ d.e = e /\ entries'[e].receipt = r /\ Replaying(e)'
    BY <1>1, <1>4, <1>8, <1>9, <2>1 DEF LetterOf, Replaying
  <2>3. JobIn(procs[p], r, e) /\ JobIn(d, r, e) /\ ~ ReceiptJob(d, r) /\ EntryJob(d, e)
    BY <1>3, <1>8, <2>1, <2>2 DEF JobIn, ReceiptJob, EntryJob
  <2>4. Reach(p, r, e, 0) /\ procs'[p] = d /\ (NoLetter(r)' <=> NoLetter(r))
    BY <1>3, <1>4, <1>5, <1>7, <1>8, <1>10, <1>11, <2>1, <2>3, WorkReach
  <2>5. Shut(r)'
    <3>1. ASSUME NEW q \in Procs, procs[q].r = r, procs[q].pc \in Writing PROVE procs'[q].r = r /\ procs'[q].pc \in Writing
      BY <1>8, <1>10, <2>4, <3>1 DEF Reach
    <3> QED
      BY <1>4, <2>1, <3>1 DEF Shut, Claimed
  <2>6. ReceiptDone(p, r, 0)
    BY <1>3, <1>4, <1>5, <1>9, <2>1, <2>3, <2>4, <2>5 DEF ReceiptDone, SoleReceipt
  <2>7. EntryDone(p, e, 0)
    BY <1>9, <1>10, <2>1, <2>2, <2>3, <2>4 DEF EntryDone, SoleEntry
  <2> QED
    BY <1>9, <1>10, <2>4, <2>6, <2>7 DEF Fine, Sound
<1> QED
  BY <1>12, <1>13

\* The last attempt failed, and the receipt gets its dead letter.
LEMMA FileLetterFine ==
    ASSUME InboxInv, Once, NEW p \in Procs, procs[p].pc = "run", procs[p].dlq, AppendFailure(procs[p].r),
           Goto(p, [procs[p] EXCEPT !.pc = "markdlq"]),
           UNCHANGED <<receipts, executions, lastExec, handled, workers>>
    PROVE  Fine(p)
<1>1. PICK c: c = procs[p]
  OBVIOUS
<1>2. c \in ProcRecs /\ c.pc = "run" /\ Own(c) /\ Holding(c) /\ c.dlq
  BY <1>1, ProcFacts DEF Once
<1>3. PICK r \in Receipts: r = c.r /\ c.e = 0 /\ receipts[r].attempts >= MaxAttempts
  BY <1>2 DEF Holding, Known, Own
<1>4. ReceiptJob(procs[p], r) /\ ~ Handled(procs[p])
  BY <1>1, <1>2, <1>3 DEF ReceiptJob, Handled
<1>5. /\ \A q \in Procs: q # p => ~ ReceiptJob(procs[q], r)
      /\ \A y \in Execs: ~ ReceiptQueued(executions[y], r)
      /\ Claimed(r) /\ NoLetter(r) /\ handled[r] = 0
  BY <1>4, JobAlone
<1>6. InDlq(r) = {}
  BY <1>5 DEF InDlq, NoLetter, LetterOf, Letter
<1>7. PICK e \in Entries: /\ entries[e].status = "none"
                          /\ entries' = [entries EXCEPT ![e] = [status |-> "dlq", receipt |-> r, count |-> 0, due |-> TRUE]]
  <2>1. PICK e: e = CHOOSE f \in FreeEntry: \A g \in FreeEntry: f <= g
    OBVIOUS
  <2>2. FreeEntry # {} /\ entries' = [entries EXCEPT ![e] = [status |-> "dlq", receipt |-> r, count |-> 0, due |-> TRUE]]
    BY <1>1, <1>3, <1>6, <2>1 DEF AppendFailure
  <2>3. \E f \in FreeEntry: \A g \in FreeEntry: f <= g
    <3>1. FreeEntry \in SUBSET Nat /\ FreeEntry # {}
      BY <2>2, HrisZero DEF FreeEntry
    <3> QED
      BY <3>1, LeastEntry
  <2>4. e \in FreeEntry
    BY <2>1, <2>3
  <2> QED
    BY <2>2, <2>4 DEF FreeEntry
<1>8. /\ entries'[e].status = "dlq" /\ entries'[e].receipt = r
      /\ \A f \in Entries: f # e => entries'[f] = entries[f]
  <2>1. /\ entries'[e] = [status |-> "dlq", receipt |-> r, count |-> 0, due |-> TRUE]
        /\ \A f \in Entries: f # e => entries'[f] = entries[f]
    BY <1>7 DEF InboxInv, HrisTypeOK
  <2> QED
    BY <2>1
<1>9. ~ Letter(e) /\ Letter(e)' /\ LetterOf(e, r)'
  BY <1>7, <1>8 DEF Letter, LetterOf
<1>10. PICK d: d = [c EXCEPT !.pc = "markdlq"]
  OBVIOUS
<1>11. Goto(p, d)
  BY <1>1, <1>10
<1>12. d \in ProcRecs /\ d.pc = "markdlq" /\ d.r = r /\ d.e = 0 /\ d.x = c.x
  BY <1>2, <1>3, <1>10 DEF ProcRecs, Pcs
<1>13. JobIn(procs[p], r, e) /\ JobIn(d, r, e) /\ ~ ReceiptJob(d, r) /\ ~ EntryJob(d, e)
  BY <1>1, <1>2, <1>3, <1>12 DEF JobIn, ReceiptJob, EntryJob
<1>14. 0 \notin Execs /\ ExecMove
  BY HrisZero, ExecStill
<1>15. procs[p].r = r /\ d.x = procs[p].x /\ d.pc \in Linked /\ d.pc \in Writing
  BY <1>1, <1>3, <1>12 DEF Linked, Writing
<1>16. Reach(p, r, e, 0) /\ procs'[p] = d
  <2>1. /\ \A s \in Receipts: s # r => receipts'[s] = receipts[s] /\ handled'[s] = handled[s]
        /\ \A y \in Execs: y # 0 => executions'[y] = executions[y]
        /\ workers' = workers /\ handled' = handled
    OBVIOUS
  <2>2. /\ Letter(e) => Letter(e)' /\ entries'[e].receipt = entries[e].receipt
        /\ Letter(e)' /\ ~ Letter(e) => entries'[e].receipt = r /\ NoLetter(r)
    BY <1>5, <1>8, <1>9
  <2> QED
    BY <1>4, <1>8, <1>11, <1>12, <1>13, <1>14, <1>15, <2>1, <2>2, ReachBy
<1>17. ~ NoLetter(r)'
  BY <1>9 DEF NoLetter
<1>18. Shut(r)'
  BY <1>5, <1>12, <1>15, <1>16 DEF Shut, Claimed
<1>19. ReceiptDone(p, r, 0)
  BY <1>3, <1>5, <1>13, <1>14, <1>16, <1>18 DEF ReceiptDone, SoleReceipt
<1>20. SoleEntry(p, e, 0)
  <2>1. ~ Replaying(e) /\ EntryOnce(e)
    BY <1>7 DEF Replaying, Once
  <2> QED
    BY <2>1 DEF EntryOnce, SoleEntry
<1>21. EntryDone(p, e, 0)
  <2>1. handled'[entries'[e].receipt] = 0
    BY <1>5, <1>8
  <2> QED
    BY <1>13, <1>14, <1>16, <1>20, <2>1 DEF EntryDone
<1>22. Own(d)'
  BY <1>12, <1>17 DEF Own
<1> QED
  BY <1>14, <1>16, <1>19, <1>21, <1>22 DEF Fine, Sound

LEMMA FailReceiptFine ==
    ASSUME InboxInv, Once, Smooth, NEW p \in Procs, FailReceipt(p)
    PROVE  Fine(p)
<1>1. procs[p].pc = "run" /\ UNCHANGED <<executions, lastExec, handled, workers>>
  BY DEF FailReceipt, At
<1>2. CASE procs[p].dlq /\ AppendFailure(procs[p].r) /\ Goto(p, [procs[p] EXCEPT !.pc = "markdlq"]) /\ UNCHANGED receipts
  BY <1>1, <1>2, FileLetterFine
<1>3. CASE ~ procs[p].dlq /\ MarkHRISWebhookReceiptFailed(procs[p].r) /\ After(p, procs[p], FALSE) /\ UNCHANGED entries
  <2>1. MarkHRISWebhookReceipt(procs[p].r, "failed")
    BY <1>3 DEF MarkHRISWebhookReceiptFailed
  <2>2. /\ \A s \in Receipts: s # procs[p].r => handled'[s] = handled[s]
        /\ handled'[procs[p].r] = handled[procs[p].r] /\ UNCHANGED <<entries, executions, lastExec, workers>>
    BY <1>1, <1>3
  <2> QED
    BY <1>1, <1>3, <2>1, <2>2, MarkFine
<1>4. ~ StoreCall(FALSE) /\ \A ok \in BOOLEAN: StoreCall(ok) => ok
  BY NoFault
<1> QED
  BY <1>2, <1>3, <1>4 DEF FailReceipt

LEMMA EndReplayFine ==
    ASSUME InboxInv, Once, Smooth, NEW p \in Procs, EndReplay(p)
    PROVE  Fine(p)
<1>1. PICK c: c = procs[p]
  OBVIOUS
<1>2. c \in ProcRecs /\ c.pc = "entry" /\ Holding(c) /\ c.ok \in BOOLEAN
  BY <1>1, ProcFacts DEF EndReplay, At, ProcRecs
<1>3. PICK e \in Entries: e = c.e /\ Letter(e)
  BY <1>2 DEF Holding, LetterOf, Letter
<1>4. UNCHANGED <<receipts, executions, lastExec, handled, workers>>
  BY DEF EndReplay, receiptVars, historyVars
<1>5. /\ IF c.ok THEN MarkResolved(e) ELSE MarkReplayFailed(e)
      /\ IF c.ok THEN After(p, procs[p], TRUE) ELSE Goto(p, [c EXCEPT !.pc = "redlq"])
  <2>1. /\ IF c.ok THEN MarkResolved(c.e) ELSE MarkReplayFailed(c.e)
        /\ IF ~ c.ok THEN Goto(p, [c EXCEPT !.pc = "redlq"]) ELSE After(p, c, c.ok)
    BY <1>1, <1>2, NoFault DEF EndReplay
  <2>2. c.ok => c.ok = TRUE
    BY <1>2
  <2> QED
    BY <1>1, <1>3, <2>1, <2>2
<1>6. PICK st \in {"resolved", "dlq"}: (c.ok => st = "resolved") /\ entries' = [entries EXCEPT ![e] = Ended(@, st)]
  BY <1>5 DEF MarkResolved, MarkReplayFailed
<1>7. /\ entries'[e].status = st /\ entries'[e].status # "none" /\ entries'[e].receipt = entries[e].receipt
      /\ \A f \in Entries: f # e => entries'[f] = entries[f]
  <2>1. entries \in [Entries -> EntryRecs] /\ entries[e] \in EntryRecs /\ st \in EntryStatus
    BY DEF InboxInv, HrisTypeOK, EntryStatus
  <2>2. entries'[e] = Ended(entries[e], st) /\ \A f \in Entries: f # e => entries'[f] = entries[f]
    BY <1>6, <2>1
  <2> QED
    BY <2>1, <2>2, EndedRecs
<1>8. PICK d \in ProcRecs: /\ Goto(p, d) /\ d.pc \in {"complete", "idle", "redlq"} /\ Own(d)'
                           /\ procs[p].x # 0 => d.x = procs[p].x /\ d.pc \in Linked
  <2>1. CASE c.ok
    BY <1>1, <1>2, <1>5, <2>1, AfterWork
  <2>2. CASE ~ c.ok
    <3>1. PICK d: d = [c EXCEPT !.pc = "redlq"]
      OBVIOUS
    <3>2. d \in ProcRecs /\ d.pc = "redlq" /\ d.x = c.x
      BY <1>2, <3>1 DEF ProcRecs, Pcs
    <3>3. Own(d)' /\ d.pc \in Linked
      BY <3>2 DEF Own, Linked
    <3> QED
      BY <1>1, <1>5, <2>2, <3>1, <3>2, <3>3
  <2> QED
    BY <2>1, <2>2
<1>9. 0 \notin Receipts /\ 0 \notin Execs /\ e # 0
  BY HrisZero
<1>10. EntryJob(procs[p], e) /\ (Handled(procs[p]) => c.ok)
  BY <1>1, <1>2, <1>3 DEF EntryJob, Handled
<1>11. /\ \A q \in Procs: q # p => ~ EntryJob(procs[q], e)
       /\ \A y \in Execs: ~ EntryQueued(executions[y], e)
       /\ handled[entries[e].receipt] = 0 \/ Handled(procs[p])
  BY <1>10, EntryJobAlone
<1>12. JobIn(procs[p], 0, e) /\ JobIn(d, 0, e) /\ procs[p].pc \notin Writing /\ ~ EntryJob(d, e)
  BY <1>1, <1>2, <1>3, <1>8, <1>9 DEF JobIn, Writing, EntryJob
<1>13. Reach(p, 0, e, 0) /\ procs'[p] = d
  <2>1. Goto(p, d) /\ (procs[p].pc \in Linked /\ procs[p].x # 0 => d.x = procs[p].x /\ d.pc \in Linked)
    BY <1>8
  <2> QED
    BY <1>3, <1>4, <1>7, <1>12, <2>1, LetterReach
<1>14. handled'[entries'[e].receipt] > 0 => entries'[e].status = "resolved"
  BY <1>4, <1>6, <1>7, <1>10, <1>11
<1>15. EntryDone(p, e, 0)
  BY <1>9, <1>11, <1>12, <1>13, <1>14 DEF EntryDone, SoleEntry
<1> QED
  BY <1>8, <1>9, <1>13, <1>15 DEF Fine, Sound

-----------------------------------------------------------------------------
(* Steps of no process: a webhook arrives, or time passes.                  *)

\* What changes is in nobody's hands.
Aside ==
    /\ UNCHANGED <<procs, handled, workers, lastExec>>
    /\ \A s \in Receipts: /\ receipts'[s].attempts = receipts[s].attempts
                          /\ \/ receipts'[s] = receipts[s]
                             \/ /\ ~ Shut(s) /\ \A q \in Procs: ~ ReceiptJob(procs[q], s)
                                /\ \A y \in Execs: ~ ReceiptQueued(executions[y], s)
    /\ \A e \in Entries: \/ entries'[e] = entries[e]
                         \/ /\ entries'[e].status = entries[e].status /\ entries'[e].receipt = entries[e].receipt
                            /\ \A q \in Procs: ~ EntryJob(procs[q], e)
                            /\ \A y \in Execs: ~ EntryQueued(executions[y], e)
    /\ \A x \in Execs: /\ executions'[x].status = executions[x].status /\ executions'[x].kind = executions[x].kind
                       /\ executions'[x].target = executions[x].target
                       /\ executions[x].status = "running" => executions'[x] = executions[x]

LEMMA AsideKeeps ==
    ASSUME InboxInv, Once, Aside
    PROVE  Once'
<1>1. procs' = procs /\ handled' = handled /\ workers' = workers /\ lastExec' = lastExec
  BY DEF Aside
<1>2. \A e \in Entries: Letter(e)' = Letter(e) /\ entries'[e].receipt = entries[e].receipt /\ entries'[e].status = entries[e].status
  BY DEF Aside, Letter
<1>3. \A s: NoLetter(s)' <=> NoLetter(s)
  BY <1>2 DEF NoLetter, LetterOf
<1>4. \A x \in Execs: /\ \A s: ReceiptQueued(executions'[x], s) <=> ReceiptQueued(executions[x], s)
                      /\ \A e: EntryQueued(executions[x], e)' <=> EntryQueued(executions[x], e)
  BY <1>1 DEF Aside, ReceiptQueued, EntryQueued
<1>5. ASSUME NEW s \in Receipts PROVE ReceiptOnce(s)'
  <2>1. ReceiptOnce(s)
    BY DEF Once
  <2>2. CASE receipts'[s] = receipts[s]
    <3>1. (Claimed(s)' <=> Claimed(s)) /\ (Shut(s)' <=> Shut(s))
      BY <1>1, <2>2 DEF Claimed, Shut
    <3> QED
      BY <1>1, <1>3, <1>4, <2>1, <2>2, <3>1 DEF ReceiptOnce
  <2>3. CASE receipts'[s] # receipts[s]
    <3>1. /\ ~ Shut(s) /\ \A q \in Procs: ~ ReceiptJob(procs[q], s)
          /\ \A y \in Execs: ~ ReceiptQueued(executions[y], s)
      BY <2>3 DEF Aside
    <3>2. NoLetter(s) /\ ~ (handled[s] > 0) /\ handled[s] <= 1
      BY <2>1, <3>1 DEF ReceiptOnce
    <3> QED
      BY <1>1, <1>3, <1>4, <3>1, <3>2 DEF ReceiptOnce
  <2> QED
    BY <2>2, <2>3
<1>6. ASSUME NEW e \in Entries PROVE EntryOnce(e)'
  <2>1. EntryOnce(e)
    BY DEF Once
  <2>2. CASE entries'[e] = entries[e]
    <3>1. Replaying(e)' <=> Replaying(e)
      BY <2>2 DEF Replaying
    <3> QED
      BY <1>1, <1>2, <1>4, <2>1, <2>2, <3>1 DEF EntryOnce
  <2>3. CASE entries'[e] # entries[e]
    <3>1. /\ \A q \in Procs: ~ EntryJob(procs[q], e)
          /\ \A y \in Execs: ~ EntryQueued(executions[y], e)
      BY <2>3 DEF Aside
    <3>2. Letter(e) /\ handled[entries[e].receipt] > 0 => entries[e].status = "resolved"
      BY <2>1, <3>1 DEF EntryOnce
    <3> QED
      BY <1>1, <1>2, <1>4, <3>1, <3>2 DEF EntryOnce
  <2> QED
    BY <2>2, <2>3
<1>7. LettersOnce'
  BY <1>2 DEF Once, LettersOnce
<1>8. ASSUME NEW x \in Execs PROVE RunningOnce(x)'
  BY <1>1 DEF Aside, Once, RunningOnce
<1>9. ASSUME NEW p \in Procs PROVE Own(procs[p])'
  <2>1. PICK c: c = procs[p]
    OBVIOUS
  <2>2. c \in ProcRecs /\ Own(c) /\ Holding(c) /\ procs'[p] = c
    BY <1>1, <2>1, ProcFacts DEF Once
  <2>3. c.pc = "run" => receipts'[c.r].attempts = receipts[c.r].attempts
    BY <2>2 DEF Aside, Holding, Known
  <2>4. c.pc = "target" => /\ executions'[c.x].status = executions[c.x].status /\ executions'[c.x].kind = executions[c.x].kind
                           /\ executions'[c.x].target = executions[c.x].target
    BY <2>2 DEF Aside, Own
  <2>5. Own(c)'
    BY <1>1, <1>3, <2>2, <2>3, <2>4 DEF Own
  <2> QED
    BY <2>2, <2>5
<1> QED
  BY <1>5, <1>6, <1>7, <1>8, <1>9 DEF Once

\* A receipt that was not received yet is nobody's.
LEMMA ReceiveWebhookAside ==
    ASSUME InboxInv, Once, Smooth, NEW p \in Procs, NEW r \in Receipts, ReceiveWebhook(p, r)
    PROVE  Aside
<1>1. UNCHANGED <<procs, handled, workers, lastExec, executions, entries>>
  BY DEF ReceiveWebhook, Smooth, historyVars
<1>2. receipts[r].status = "none" /\ receipts' = [receipts EXCEPT ![r] = [@ EXCEPT !.status = "received"]]
  BY DEF ReceiveWebhook, ReceiveHRISWebhookReceipt
<1>3. /\ receipts'[r].attempts = receipts[r].attempts
      /\ \A s \in Receipts: s # r => receipts'[s] = receipts[s]
  <2>1. receipts \in [Receipts -> ReceiptRecs] /\ receipts[r] \in ReceiptRecs
    BY DEF InboxInv, HrisTypeOK
  <2>2. receipts'[r] = [receipts[r] EXCEPT !.status = "received"] /\ \A s \in Receipts: s # r => receipts'[s] = receipts[s]
    BY <1>2, <2>1
  <2> QED
    BY <2>1, <2>2 DEF ReceiptRecs
<1>4. ~ Shut(r) /\ ~ Claimed(r) /\ ReceiptOnce(r)
  BY <1>2 DEF Shut, Claimed, Once
<1>5. /\ \A q \in Procs: ~ ReceiptJob(procs[q], r)
      /\ \A y \in Execs: ~ ReceiptQueued(executions[y], r)
  BY <1>4 DEF ReceiptOnce
<1> QED
  BY <1>1, <1>3, <1>4, <1>5 DEF Aside

\* A processing receipt whose timeout passes in a smooth step has nobody at work on it.
LEMMA ReceiptDueAside ==
    ASSUME InboxInv, Once, Smooth, NEW r \in Receipts, ReceiptFallsDue(r),
           Passes(receipts[r].status = "processing" /\ (OnReceipt(r) # {} \/ Sought(r, 0) \/ Awaited("receipt", r))),
           UNCHANGED <<procs, handled, workers, lastExec, entries>>
    PROVE  Aside
<1>1. /\ UNCHANGED executions /\ ~ receipts[r].due /\ receipts' = [receipts EXCEPT ![r].due = TRUE]
      /\ receipts[r].status = "processing" \/ (receipts[r].status = "failed" /\ receipts[r].attempts < MaxAttempts)
  BY DEF ReceiptFallsDue
<1>2. /\ receipts'[r].attempts = receipts[r].attempts
      /\ \A s \in Receipts: s # r => receipts'[s] = receipts[s]
  <2>1. receipts \in [Receipts -> ReceiptRecs] /\ receipts[r] \in ReceiptRecs
    BY DEF InboxInv, HrisTypeOK
  <2>2. receipts'[r] = [receipts[r] EXCEPT !.due = TRUE] /\ \A s \in Receipts: s # r => receipts'[s] = receipts[s]
    BY <1>1, <2>1
  <2> QED
    BY <2>1, <2>2 DEF ReceiptRecs
<1>3. ~ (receipts[r].status = "processing" /\ (OnReceipt(r) # {} \/ Sought(r, 0) \/ Awaited("receipt", r)))
  BY NoFault
<1>4. /\ ~ Shut(r) /\ \A q \in Procs: ~ ReceiptJob(procs[q], r)
      /\ \A y \in Execs: ~ ReceiptQueued(executions[y], r)
  <2>1. CASE receipts[r].status = "processing"
    <3>1. OnReceipt(r) = {} /\ ~ Sought(r, 0) /\ ~ Awaited("receipt", r)
      BY <1>3, <2>1
    <3>2. ASSUME NEW q \in Procs, procs[q].r = r
          PROVE  procs[q].pc \notin Writing /\ ~ ReceiptJob(procs[q], r)
      BY <3>1, <3>2 DEF OnReceipt, Sought, At, Writing, ReceiptJob
    <3>3. \A q \in Procs: ~ ReceiptJob(procs[q], r)
      BY <3>2 DEF ReceiptJob
    <3>4. \A y \in Execs: ~ ReceiptQueued(executions[y], r)
      BY <3>1 DEF Awaited, Active, ReceiptQueued
    <3>5. ~ Shut(r)
      BY <2>1, <3>2 DEF Shut
    <3> QED
      BY <3>3, <3>4, <3>5
  <2>2. CASE receipts[r].status # "processing"
    <3>1. receipts[r].status = "failed" /\ receipts[r].attempts < MaxAttempts
      BY <1>1, <2>2
    <3>2. receipts[r].attempts \in Nat /\ MaxAttempts \in Nat
      BY StartedRecs, HrisBounds
    <3>3. ~ (receipts[r].attempts >= MaxAttempts)
      BY <3>1, <3>2
    <3>4. ~ Claimed(r) /\ ~ Shut(r) /\ ReceiptOnce(r)
      BY <3>1, <3>3 DEF Claimed, Shut, Once
    <3> QED
      BY <3>4 DEF ReceiptOnce
  <2> QED
    BY <2>1, <2>2
<1> QED
  BY <1>1, <1>2, <1>4 DEF Aside

LEMMA EntryDueAside ==
    ASSUME InboxInv, Once, Smooth, NEW e \in Entries, EntryFallsDue(e),
           Passes(entries[e].status = "replaying" /\ (OnEntry(e) # {} \/ Sought(0, e) \/ Awaited("dlq", e))),
           UNCHANGED <<procs, handled, workers, lastExec, receipts, executions>>
    PROVE  Aside
<1>1. entries' = [entries EXCEPT ![e].due = TRUE]
  BY DEF EntryFallsDue
<1>2. /\ entries'[e].status = entries[e].status /\ entries'[e].receipt = entries[e].receipt
      /\ \A f \in Entries: f # e => entries'[f] = entries[f]
  <2>1. entries \in [Entries -> EntryRecs] /\ entries[e] \in EntryRecs
    BY DEF InboxInv, HrisTypeOK
  <2>2. entries'[e] = [entries[e] EXCEPT !.due = TRUE] /\ \A f \in Entries: f # e => entries'[f] = entries[f]
    BY <1>1, <2>1
  <2> QED
    BY <2>1, <2>2 DEF EntryRecs
<1>3. ~ (entries[e].status = "replaying" /\ (OnEntry(e) # {} \/ Sought(0, e) \/ Awaited("dlq", e)))
  BY NoFault
<1>4. EntryOnce(e)
  BY DEF Once
<1>5. ASSUME NEW q \in Procs, EntryJob(procs[q], e) PROVE FALSE
  <2>1. PICK c: c = procs[q]
    OBVIOUS
  <2>2. c \in ProcRecs /\ Holding(c) /\ c.e = e /\ e # 0
    BY <1>5, <2>1, ProcFacts, HrisZero DEF EntryJob
  <2>3. entries[e].status = "replaying"
    BY <1>4, <1>5 DEF EntryOnce, Replaying
  <2>4. OnEntry(e) = {} /\ ~ Sought(0, e)
    BY <1>3, <2>3
  <2>5. c.pc = "target"
    BY <1>5, <2>1, <2>4 DEF OnEntry, EntryJob
  <2>6. c.r = 0
    BY <2>2, <2>5 DEF Holding
  <2> QED
    BY <2>1, <2>2, <2>4, <2>5, <2>6 DEF Sought, At
<1>6. ASSUME NEW y \in Execs, EntryQueued(executions[y], e) PROVE FALSE
  <2>1. entries[e].status = "replaying"
    BY <1>4, <1>6 DEF EntryOnce, Replaying
  <2> QED
    BY <1>3, <1>6, <2>1 DEF Awaited, Active, EntryQueued
<1> QED
  BY <1>2, <1>5, <1>6 DEF Aside

LEMMA ExecutionDueAside ==
    ASSUME InboxInv, Once, Smooth, NEW x \in Execs, ExecutionFallsDue(x),
           Passes(executions[x].status = "running" /\ OnExec(x) # {}),
           UNCHANGED <<procs, handled, workers, lastExec, entries>>
    PROVE  Aside
<1>1. executions' = [executions EXCEPT ![x].due = TRUE] /\ UNCHANGED receipts
  BY DEF ExecutionFallsDue
<1>2. /\ executions'[x].status = executions[x].status /\ executions'[x].kind = executions[x].kind
      /\ executions'[x].target = executions[x].target
      /\ \A y \in Execs: y # x => executions'[y] = executions[y]
  <2>1. executions \in [Execs -> ExecRecs] /\ executions[x] \in ExecRecs
    BY DEF InboxInv, HrisTypeOK
  <2>2. executions'[x] = [executions[x] EXCEPT !.due = TRUE] /\ \A y \in Execs: y # x => executions'[y] = executions[y]
    BY <1>1, <2>1
  <2> QED
    BY <2>1, <2>2 DEF ExecRecs
<1>3. ~ (executions[x].status = "running" /\ OnExec(x) # {})
  BY NoFault
<1>4. executions[x].status # "running"
  <2> SUFFICES ASSUME executions[x].status = "running" PROVE FALSE
    OBVIOUS
  <2>1. PICK q \in Procs: procs[q].x = x /\ procs[q].pc \in Linked
    BY DEF Once, RunningOnce
  <2>2. q \in OnExec(x)
    BY <2>1 DEF OnExec, Busy, At, Linked
  <2> QED
    BY <1>3, <2>2
<1> QED
  BY <1>1, <1>2, <1>4 DEF Aside

LEMMA ElapseAside ==
    ASSUME InboxInv, Once, Smooth, Elapse \/ UNCHANGED hrisVars
    PROVE  Aside
<1>1. CASE UNCHANGED <<procs, handled, workers, lastExec, receipts, executions, entries>>
  BY <1>1 DEF Aside
<1>2. CASE UNCHANGED hrisVars
  BY <1>1, <1>2 DEF hrisVars
<1>3. CASE Elapse
  BY <1>1, <1>3, ReceiptDueAside, EntryDueAside, ExecutionDueAside DEF Elapse, receiptVars, historyVars
<1> QED
  BY <1>2, <1>3

-----------------------------------------------------------------------------

\* Every step of a process, and every request, is fine.
LEMMA HrisStepFine ==
    ASSUME InboxInv, InboxInv', Once, Smooth, NEW p \in Procs, Step(p) \/ Request(p) \/ Tick(p) \/ Crash(p)
    PROVE  Fine(p) \/ Aside
<1>1. CASE Step(p)
  BY <1>1, StartReceiptFine, SkipReceiptFine, FailReceiptFine, SyncReceiptFine, FinishReceiptFine,
     ReplayEntryFine, EndReplayFine, RestoreReceiptDLQFine, CompleteFine, EndingsFine, TickQueueFine,
     ClaimExecutionFine, ReceiptTargetFine, EntryTargetFine, TickReceiptFine, TickEntryFine,
     ClaimQueuedReceiptFine, ClaimQueuedEntryFine, DispatchReceiptFine, DispatchEntryFine, DispatchFailsFine,
     RunGoroutineFine DEF Step
<1>2. CASE Request(p)
  BY <1>2, ReceiveWebhookAside, ProcessReceiptFine, ProcessEntryFine, QueueWorkFine DEF Request
<1>3. CASE Tick(p)
  <2>1. PICK k \in Kinds: StartTick(p, k)
    BY <1>3 DEF Tick, StartReceiptTick, StartEntryTick, Kinds
  <2> QED
    BY <2>1, StartTickFine
<1>4. CASE Crash(p)
  BY <1>4, NoFault DEF Crash
<1> QED
  BY <1>1, <1>2, <1>3, <1>4

\* A step uses up at most one of the bounds, and the configuration stays.
LEMMA HrisSpends ==
    ASSUME [HrisNext]_hrisVars
    PROVE  workers' = workers /\ (left' = left \/ Spend("faults") \/ Spend("late") \/ Spend("manual"))
<1>1. CASE UNCHANGED hrisVars
  BY <1>1 DEF hrisVars
<1>2. CASE Elapse
  BY <1>2 DEF Elapse, Passes, ReceiptFallsDue, ExecutionFallsDue
<1>3. ASSUME NEW p \in Procs, Step(p)
      PROVE  workers' = workers /\ (left' = left \/ Spend("faults"))
  <2>1. CASE StartReceipt(p) \/ SkipReceipt(p) \/ SyncReceipt(p) \/ FinishReceipt(p) \/ ReplayEntry(p) \/ RestoreReceiptDLQ(p)
    BY <2>1 DEF StartReceipt, SkipReceipt, SyncReceipt, FinishReceipt, ReplayEntry, RestoreReceiptDLQ, StoreCall
  <2>2. CASE FailReceipt(p) \/ EndReplay(p) \/ CompleteExecution(p) \/ AckQueue(p) \/ DispatchFails(p)
    BY <2>2 DEF FailReceipt, EndReplay, CompleteExecution, AckQueue, DispatchFails, StoreCall
  <2>3. CASE TickQueue(p) \/ ClaimExecution(p) \/ ReceiptTarget(p) \/ EntryTarget(p) \/ RequeueQueue(p)
             \/ TickReceipt(p) \/ TickEntry(p) \/ TickIdle(p)
    BY <2>3 DEF TickQueue, ClaimExecution, ReceiptTarget, EntryTarget, RequeueQueue, TickReceipt, TickEntry, TickIdle
  <2>4. CASE ClaimQueuedReceipt(p) \/ ClaimQueuedEntry(p) \/ DispatchReceipt(p) \/ DispatchEntry(p)
             \/ EnqueueExecution(p) \/ RunQueuedReceipt(p) \/ RunQueuedEntry(p)
    BY <2>4 DEF ClaimQueuedReceipt, ClaimQueuedEntry, DispatchReceipt, DispatchEntry, Dispatch, EnqueueExecution,
       RunQueuedReceipt, RunQueuedEntry, RunGoroutine
  <2> QED
    BY <1>3, <2>1, <2>2, <2>3, <2>4 DEF Step
<1>4. ASSUME NEW p \in Procs, Request(p)
      PROVE  workers' = workers /\ (left' = left \/ Spend("manual"))
  BY <1>4 DEF Request, ReceiveWebhook, ProcessReceipt, ProcessEntry, QueueReceipt, QueueEntry, ReplayExecution,
     QueueWork, ManualCall
<1>5. ASSUME NEW p \in Procs, Tick(p) \/ Crash(p)
      PROVE  workers' = workers /\ (left' = left \/ Spend("faults"))
  BY <1>5 DEF Tick, StartReceiptTick, StartEntryTick, StartTick, Crash
<1> QED
  BY <1>1, <1>2, <1>3, <1>4, <1>5 DEF HrisNext

LEMMA OneLess == \A n \in Nat: n > 0 => n - 1 \in Nat /\ n - 1 <= n
OBVIOUS

LEMMA LeftShrinks ==
    ASSUME LeftOK, NEW sort \in {"faults", "late", "manual"}, Spend(sort)
    PROVE  /\ left' \in [faults: Nat, late: Nat, manual: Nat, total: Nat]
           /\ left'.faults <= left.faults /\ left'.late <= left.late
<1>1. left \in [faults: Nat, late: Nat, manual: Nat, total: Nat]
  BY DEF LeftOK
<1>2. /\ left.faults \in Nat /\ left.late \in Nat /\ left.manual \in Nat /\ left.total \in Nat
      /\ left.faults <= left.faults /\ left.late <= left.late
  BY <1>1
<1>3. left' = [left EXCEPT ![sort] = @ - 1, !.total = @ - 1] /\ left[sort] > 0 /\ left.total > 0
  BY DEF Spend
<1>4. left.total - 1 \in Nat
  BY <1>2, <1>3, OneLess, Zenon
<1>5. left[sort] \in Nat
  <2>1. sort = "faults" \/ sort = "late" \/ sort = "manual"
    OBVIOUS
  <2> QED
    BY <1>2, <2>1, Zenon
<1>6. left[sort] - 1 \in Nat /\ left[sort] - 1 <= left[sort]
  BY <1>3, <1>5, OneLess, Zenon
<1>7. PICK m \in Nat, t \in Nat: m = left[sort] - 1 /\ t = left.total - 1
  BY <1>4, <1>6, Zenon
<1>8. left' = [left EXCEPT ![sort] = m, !.total = t] /\ m <= left[sort]
  BY <1>3, <1>6, <1>7, Zenon
<1>9. left' \in [faults: Nat, late: Nat, manual: Nat, total: Nat]
  BY <1>1, <1>8
<1>10. left'.faults <= left.faults /\ left'.late <= left.late
  BY <1>1, <1>2, <1>8
<1> QED
  BY <1>9, <1>10

LEMMA OnceInit ==
    ASSUME HrisInit
    PROVE  OnceInv
<1>1. InboxInv
  BY InboxInit
<1>2. /\ receipts = [r \in Receipts |-> NoReceipt] /\ executions = [x \in Execs |-> NoExec] /\ entries = [e \in Entries |-> NoEntry]
      /\ procs = [p \in Procs |-> Idle] /\ handled = [r \in Receipts |-> 0]
  BY DEF HrisInit, ReceiptsInit, DlqInit
<1>3. \A e \in Entries: ~ Letter(e)
  BY <1>2 DEF Letter, NoEntry
<1>4. \A p \in Procs: procs[p].pc = "idle" /\ \A r, e: ~ ReceiptJob(procs[p], r) /\ ~ EntryJob(procs[p], e)
  BY <1>2 DEF Idle, ReceiptJob, EntryJob
<1>5. \A x \in Execs: executions[x].status = "none" /\ \A r, e: ~ ReceiptQueued(executions[x], r) /\ ~ EntryQueued(executions[x], e)
  BY <1>2 DEF NoExec, ReceiptQueued, EntryQueued
<1>6. \A r \in Receipts: ReceiptOnce(r)
  <2>1. \A r \in Receipts: handled[r] = 0 /\ NoLetter(r)
    BY <1>2, <1>3 DEF NoLetter, LetterOf
  <2>2. \A r \in Receipts: ~ (handled[r] > 0) /\ handled[r] <= 1
    BY <2>1
  <2>3. ASSUME NEW r \in Receipts PROVE ReceiptOnce(r)
    BY <1>4, <1>5, <2>1, <2>2, <2>3, Zenon DEF ReceiptOnce
  <2> QED
    BY <2>3
<1>7. \A e \in Entries: EntryOnce(e)
  BY <1>3, <1>4, <1>5 DEF EntryOnce
<1>8. LettersOnce /\ (\A x \in Execs: RunningOnce(x)) /\ \A p \in Procs: Own(procs[p])
  BY <1>3, <1>4, <1>5 DEF LettersOnce, RunningOnce, Own
<1>9. LeftOK
  <2>1. left = [faults |-> MaxFaults, late |-> MaxLate, manual |-> MaxManual, total |-> MaxTotal]
    BY DEF HrisInit
  <2> QED
    BY <2>1, HrisLimits DEF LeftOK
<1> QED
  BY <1>1, <1>6, <1>7, <1>8, <1>9 DEF OnceInv, Once

LEMMA OnceStep ==
    ASSUME OnceInv, [HrisNext]_hrisVars
    PROVE  OnceInv'
<1>1. InboxInv /\ LeftOK /\ InboxInv'
  BY HrisNextGood DEF OnceInv
<1>2. workers' = workers /\ (left' = left \/ Spend("faults") \/ Spend("late") \/ Spend("manual"))
  BY HrisSpends
<1>3. /\ left \in [faults: Nat, late: Nat, manual: Nat, total: Nat] /\ left' \in [faults: Nat, late: Nat, manual: Nat, total: Nat]
      /\ left'.faults <= left.faults /\ left'.late <= left.late
  <2>1. CASE left' = left
    BY <1>1, <2>1 DEF LeftOK
  <2>2. CASE left' # left
    BY <1>1, <1>2, <2>2, LeftShrinks DEF LeftOK
  <2> QED
    BY <2>1, <2>2
<1>4. left.faults <= MaxFaults /\ left.late <= MaxLate
  BY <1>1 DEF LeftOK
<1>5. /\ left.faults \in Nat /\ left.late \in Nat /\ left'.faults \in Nat /\ left'.late \in Nat
      /\ MaxFaults \in Nat /\ MaxLate \in Nat
  BY <1>3, HrisLimits
<1>6. LeftOK'
  BY <1>3, <1>4, <1>5 DEF LeftOK
<1>7. ASSUME Untroubled' PROVE Once'
  <2>1. left.faults = MaxFaults /\ left.late = MaxLate /\ left'.faults = MaxFaults /\ left'.late = MaxLate /\ "receipt" \in workers
    BY <1>2, <1>3, <1>4, <1>5, <1>7 DEF Untroubled
  <2>2. Once /\ Smooth
    BY <1>1, <2>1 DEF OnceInv, Untroubled, Smooth
  <2>3. CASE Elapse \/ UNCHANGED hrisVars
    BY <1>1, <2>2, <2>3, ElapseAside, AsideKeeps
  <2>4. ASSUME NEW p \in Procs, Step(p) \/ Request(p) \/ Tick(p) \/ Crash(p) PROVE Once'
    <3>1. Fine(p) \/ Aside
      BY <1>1, <2>2, <2>4, HrisStepFine
    <3>2. HrisTypeOK'
      BY <1>1 DEF InboxInv
    <3>3. CASE Fine(p)
      <4>1. PICK r, e, x: Sound(p, r, e, x)
        BY <3>3 DEF Fine
      <4> QED
        BY <1>1, <2>2, <3>2, <4>1, SoundKeeps
    <3> QED
      BY <1>1, <2>2, <3>1, <3>3, AsideKeeps
  <2> QED
    BY <2>3, <2>4 DEF HrisNext
<1> QED
  BY <1>1, <1>6, <1>7 DEF OnceInv

\* With the receipt worker enabled a receipt is applied or skipped at most once,
\* whatever the workers, the operators and the replays of dead letters do, as long
\* as no store call fails, no process crashes and no timeout passes during the
\* work it guards: for any number of processes, receipts, dead letters and
\* executions, and also when executions are cut off at their limit.
THEOREM ReceiptsHandledOnce == HrisSafetySpec => []HandledOnce
<1>1. HrisInit => OnceInv
  BY OnceInit
<1>2. OnceInv /\ [HrisNext]_hrisVars => OnceInv'
  BY OnceStep
<1>3. OnceInv => HandledOnce
  BY DEF OnceInv, Untroubled, Once, ReceiptOnce, HandledOnce
<1> QED
  BY <1>1, <1>2, <1>3, PTL DEF HrisSafetySpec
=============================================================================
