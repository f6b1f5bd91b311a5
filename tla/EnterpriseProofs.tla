-------------------------- MODULE EnterpriseProofs --------------------------
(* Proofs about the enterprise service, for any processes, lineages, people *)
(* and budgets.                                                             *)
EXTENDS SyncAlerts, EnterpriseLogin, HrisPull, FiniteSetTheorems, SequenceTheorems, TLAPS

-----------------------------------------------------------------------------
(* Numbers: the least, the greatest and the k-th of a set.                 *)

\* Every nonempty set of naturals has a least element.
LEMMA LeastNumber ==
    ASSUME NEW T \in SUBSET Nat, T # {}
    PROVE  \E x \in T : \A y \in T : x <= y
<1>1. PICK R : IsWellFoundedOn(R, Nat) /\ \A x, y \in Nat : x < y => <<x, y>> \in R
  <2>1. \A x, y \in Nat : x < y => <<x, y>> \in OpToRel(<, Nat)
    BY DEF OpToRel
  <2> QED
    BY <2>1, NatLessThanWellFounded
<1>2. T \subseteq Nat
  OBVIOUS
<1>3. PICK x \in T : \A y \in T : ~(<<y, x>> \in R)
  <2>1. IsWellFoundedOn(R, Nat) /\ T # {}
    BY <1>1
  <2> QED
    BY <1>2, <2>1, WFMin, Zenon
<1>4. ASSUME NEW y \in T PROVE x <= y
  <2>1. ~(y < x)
    BY <1>1, <1>2, <1>3, Zenon
  <2> QED
    BY <1>2, <2>1
<1> QED
  BY <1>4

\* The numbers a sequence of them holds are bounded: the shortest prefix without a bound would be
\* one longer than a prefix that has one.
LEMMA NumbersBounded ==
    ASSUME NEW s \in Seq(Nat)
    PROVE  \E b \in Nat : \A i \in DOMAIN s : s[i] <= b
<1> DEFINE Bounded(n) == \E b \in Nat : \A i \in 1 .. n : s[i] <= b
           Wild == {n \in 0 .. Len(s) : ~Bounded(n)}
<1>1. Len(s) \in Nat /\ DOMAIN s = 1 .. Len(s) /\ \A i \in 1 .. Len(s) : s[i] \in Nat
  OBVIOUS
<1>2. Bounded(0)
  <2>1. \A i \in 1 .. 0 : s[i] <= 0
    OBVIOUS
  <2> QED
    BY <2>1
<1>3. ASSUME NEW n \in 1 .. Len(s), Bounded(n - 1) PROVE Bounded(n)
  <2>1. PICK b \in Nat : \A i \in 1 .. (n - 1) : s[i] <= b
    BY <1>3
  <2>2. s[n] \in Nat
    BY <1>1
  <2>3. PICK c \in Nat : c = b + s[n]
    BY <2>2
  <2>4. ASSUME NEW i \in 1 .. n PROVE s[i] <= c
    <3>1. s[i] \in Nat /\ n \in Nat /\ i \in Nat
      BY <1>1
    <3>2. CASE i = n
      BY <2>2, <2>3, <3>2
    <3>3. CASE i # n
      <4>1. i \in 1 .. (n - 1)
        BY <3>1, <3>3
      <4>2. s[i] <= b
        BY <2>1, <4>1
      <4> QED
        BY <2>2, <2>3, <3>1, <4>2
    <3> QED
      BY <3>2, <3>3
  <2> QED
    BY <2>4
<1> HIDE DEF Bounded
<1>4. Wild = {}
  <2>1. SUFFICES ASSUME Wild # {} PROVE FALSE
    OBVIOUS
  <2>2. PICK n \in Wild : \A m \in Wild : n <= m
    <3>1. Wild \in SUBSET Nat
      BY <1>1
    <3> QED
      BY <2>1, <3>1, LeastNumber
  <2>3. n \in 1 .. Len(s) /\ ~Bounded(n)
    <3>1. n \in 0 .. Len(s) /\ ~Bounded(n)
      BY <2>2
    <3>2. n # 0
      BY <1>2, <3>1
    <3> QED
      BY <1>1, <3>1, <3>2
  <2>4. n - 1 \in 0 .. Len(s) /\ ~(n <= n - 1)
    BY <1>1, <2>3
  <2>5. Bounded(n - 1)
    BY <2>2, <2>4
  <2> QED
    BY <1>3, <2>3, <2>5
<1> QED
  <2>1. Bounded(Len(s))
    <3>1. Len(s) \in 0 .. Len(s)
      BY <1>1
    <3> QED
      BY <1>4, <3>1
  <2> QED
    BY <1>1, <2>1 DEF Bounded

\* A nonempty bounded set of naturals has a greatest element, which is Max.
LEMMA GreatestNumber ==
    ASSUME NEW n \in Nat, NEW T \in SUBSET Nat, T # {}, \A t \in T : t <= n
    PROVE  X!Max(T) \in T
<1> DEFINE U == {x \in Nat : x <= n /\ n - x \in T}
<1>1. U \subseteq Nat /\ U # {}
  <2>1. PICK t \in T : TRUE
    OBVIOUS
  <2>2. n - t \in U
    BY <2>1
  <2> QED
    BY <2>2
<1>2. PICK u \in U : \A y \in U : u <= y
  BY <1>1, LeastNumber
<1>3. n - u \in T /\ \A y \in T : y <= n - u
  <2>1. ASSUME NEW y \in T PROVE y <= n - u
    <3>1. y \in Nat /\ y <= n
      OBVIOUS
    <3>2. n - y \in U
      BY <3>1
    <3>3. u \in Nat /\ u <= n - y
      BY <1>2, <3>2
    <3> QED
      BY <3>1, <3>3
  <2> QED
    BY <2>1
<1> QED
  BY <1>3 DEF X!Max

\* How many numbers of a set are smaller.
Below(I, i) == Cardinality({j \in I : j < i})

\* In a finite set the greater number has more below it.
LEMMA BelowGrows ==
    ASSUME NEW I \in SUBSET Nat, IsFiniteSet(I), NEW i \in I, NEW j \in I, i < j
    PROVE  Below(I, i) \in Nat /\ Below(I, j) \in Nat /\ Below(I, i) < Below(I, j)
<1> DEFINE A == {x \in I : x < i}
           B == {x \in I : x < j}
<1>1. A \in SUBSET I /\ B \in SUBSET I /\ A \in SUBSET B
  <2>1. ASSUME NEW x \in I, x < i PROVE x < j
    BY <2>1
  <2> QED
    BY <2>1
<1>2. IsFiniteSet(A) /\ IsFiniteSet(B)
  BY <1>1, FS_Subset
<1>3. i \in B /\ i \notin A
  OBVIOUS
<1>4. Cardinality(A) \in Nat /\ Cardinality(B) \in Nat
  BY <1>2, FS_CardinalityType
<1>5. Cardinality(A) <= Cardinality(B) /\ Cardinality(A) # Cardinality(B)
  BY <1>1, <1>2, <1>3, FS_Subset
<1> HIDE DEF A, B
<1>6. Cardinality(A) < Cardinality(B)
  BY <1>4, <1>5
<1> QED
  BY <1>4, <1>6 DEF A, B, Below

\* Nth finds a number of the set for every place, and every number of the set has a place.
LEMMA NthSound ==
    ASSUME NEW I \in SUBSET Nat, IsFiniteSet(I)
    PROVE  /\ Cardinality(I) \in Nat
           /\ \A k \in 1 .. Cardinality(I) : Nth(I, k) \in I
           /\ \A i \in I : \E k \in 1 .. Cardinality(I) : Nth(I, k) = i
<1> DEFINE n == Cardinality(I)
           rank == [i \in I |-> Below(I, i)]
<1>1. n \in Nat
  BY FS_CardinalityType
<1>2. ASSUME NEW i \in I PROVE Below(I, i) \in 0 .. (n - 1)
  <2> DEFINE A == {j \in I : j < i}
  <2>1. A \in SUBSET I /\ i \notin A
    OBVIOUS
  <2>2. IsFiniteSet(A) /\ Cardinality(A) <= n /\ Cardinality(A) # n
    BY <2>1, FS_Subset
  <2>3. Cardinality(A) \in Nat
    BY <2>2, FS_CardinalityType
  <2> HIDE DEF A
  <2>4. Cardinality(A) \in 0 .. (n - 1)
    <3> HIDE DEF n
    <3> QED
      BY <1>1, <2>2, <2>3
  <2> QED
    BY <2>4 DEF A, Below
<1>3. ASSUME NEW i \in I, NEW j \in I, Below(I, i) = Below(I, j) PROVE i = j
  <2>1. i \in Nat /\ j \in Nat
    OBVIOUS
  <2>2. CASE i < j
    BY <1>3, <2>2, BelowGrows
  <2>3. CASE j < i
    BY <1>3, <2>3, BelowGrows
  <2> QED
    BY <2>1, <2>2, <2>3
<1> HIDE DEF n
<1>4. rank \in Injection(I, 0 .. (n - 1))
  BY <1>2, <1>3 DEF Injection, IsInjective
<1>5. IsFiniteSet(0 .. (n - 1)) /\ Cardinality(0 .. (n - 1)) = n
  BY <1>1, FS_Interval
<1>6. rank \in Surjection(I, 0 .. (n - 1))
  <2>1. Cardinality(I) = Cardinality(0 .. (n - 1))
    BY <1>5 DEF n
  <2> HIDE DEF rank
  <2> QED
    BY <1>4, <1>5, <2>1, FS_Injection
<1>7. ASSUME NEW k \in 1 .. n PROVE Nth(I, k) \in I /\ Below(I, Nth(I, k)) = k - 1
  <2>1. k - 1 \in 0 .. (n - 1)
    BY <1>1
  <2>2. \E i \in I : rank[i] = k - 1
    BY <1>6, <2>1 DEF Surjection
  <2>3. \E i \in I : Cardinality({j \in I : j < i}) = k - 1
    BY <2>2 DEF Below
  <2> QED
    BY <2>3 DEF Nth, Below
<1>8. ASSUME NEW i \in I PROVE \E k \in 1 .. n : Nth(I, k) = i
  <2>1. Below(I, i) + 1 \in 1 .. n /\ (Below(I, i) + 1) - 1 = Below(I, i)
    BY <1>1, <1>2
  <2>2. Below(I, Nth(I, Below(I, i) + 1)) = Below(I, i) /\ Nth(I, Below(I, i) + 1) \in I
    BY <1>7, <2>1
  <2>3. Nth(I, Below(I, i) + 1) = i
    BY <1>3, <2>2
  <2> QED
    BY <2>1, <2>3
<1> QED
  BY <1>1, <1>7, <1>8 DEF n

-----------------------------------------------------------------------------
(* Snapshots.                                                              *)

Outcomes == {"ready", "skipped", "failed", "sent"}
Reasons == {"", "subscription_disabled", "cooldown", "idempotent_already_sent", "auto_retry_attempt_limit",
            "manual_suppressed", "manual_suppressed_restored", "dispatch_commit_unknown",
            "dispatch_commit_confirmed", "dispatch_commit_confirmation_timeout"}
Notes == [id : Nat, line : Lineages, st : Outcomes, why : Reasons, again : BOOLEAN, attempt : Nat, sent : BOOLEAN]
Flights == [note : Notes, expired : BOOLEAN]
Snaps == [log : Seq(Notes), flights : SUBSET Flights, cool : BOOLEAN, on : BOOLEAN]
SnapOK(s) == s \in Snaps /\ IsFiniteSet(s.flights)

Carried(s, id) == \E f \in s.flights : f.note.id = id

\* t has every notification s had, in the log or in a flight, and no flight that s had not.
Settles(s, t) ==
    /\ t.flights \subseteq s.flights
    /\ \A id \in Nat : Knows(s.log, id) => Knows(t.log, id)
    /\ \A id \in Nat : Carried(s, id) => Knows(t.log, id) \/ Carried(t, id)

\* And every flight of s that has not expired.
Keeps(s, t) == Settles(s, t) /\ \A f \in s.flights : ~f.expired => f \in t.flights

\* What is prepended to a log is known of, and what was known of still is.
LEMMA PrependKnows ==
    ASSUME NEW a \in Seq(Notes), NEW b \in Seq(Notes)
    PROVE  /\ a \o b \in Seq(Notes)
           /\ \A i \in DOMAIN a : Knows(a \o b, a[i].id)
           /\ \A id \in Nat : Knows(b, id) => Knows(a \o b, id)
<1> DEFINE c == a \o b
<1>1. /\ Len(a) \in Nat /\ Len(b) \in Nat
      /\ DOMAIN a = 1 .. Len(a) /\ DOMAIN b = 1 .. Len(b)
  OBVIOUS
<1>2. /\ c \in Seq(Notes) /\ Len(c) = Len(a) + Len(b)
      /\ \A i \in 1 .. Len(a) + Len(b) : c[i] = IF i <= Len(a) THEN a[i] ELSE b[i - Len(a)]
  BY ConcatProperties
<1>3. DOMAIN c = 1 .. Len(a) + Len(b)
  BY <1>2
<1> HIDE DEF c
<1>4. ASSUME NEW i \in DOMAIN a PROVE Knows(c, a[i].id)
  <2>1. i \in DOMAIN c /\ c[i] = a[i]
    BY <1>1, <1>2, <1>3
  <2> QED
    BY <2>1 DEF Knows
<1>5. ASSUME NEW id \in Nat, Knows(b, id) PROVE Knows(c, id)
  <2>1. PICK i \in DOMAIN b : b[i].id = id
    BY <1>5 DEF Knows
  <2>2. i + Len(a) \in 1 .. Len(a) + Len(b) /\ ~(i + Len(a) <= Len(a)) /\ (i + Len(a)) - Len(a) = i
    BY <1>1, <2>1
  <2>3. c[i + Len(a)] = b[i]
    BY <1>2, <2>2
  <2> QED
    BY <1>3, <2>1, <2>2, <2>3 DEF Knows
<1> QED
  BY <1>2, <1>4, <1>5 DEF c

\* A notification prepended to the log.
LEMMA PrependOne ==
    ASSUME NEW n \in Notes, NEW b \in Seq(Notes)
    PROVE  /\ <<n>> \o b \in Seq(Notes)
           /\ Knows(<<n>> \o b, n.id)
           /\ \A id \in Nat : Knows(b, id) => Knows(<<n>> \o b, id)
<1>1. <<n>> \in Seq(Notes) /\ 1 \in DOMAIN <<n>> /\ <<n>>[1] = n
  OBVIOUS
<1> QED
  BY <1>1, PrependKnows

\* The attempt after those of a lineage has a number.
LEMMA NextAttemptType ==
    ASSUME NEW log \in Seq(Notes), NEW l
    PROVE  nextAttempt(log, l) \in Nat
<1> DEFINE own == {j \in DOMAIN log : log[j].line = l}
           T == {0} \cup {log[i].attempt : i \in own}
           s == [i \in 1 .. Len(log) |-> log[i].attempt]
<1>1. Len(log) \in Nat /\ DOMAIN log = 1 .. Len(log) /\ \A i \in DOMAIN log : log[i] \in Notes
  OBVIOUS
<1>2. \A i \in DOMAIN log : log[i].attempt \in Nat
  BY <1>1 DEF Notes
<1>3. s \in Seq(Nat) /\ DOMAIN s = DOMAIN log
  <2>1. s \in [1 .. Len(log) -> Nat]
    BY <1>1, <1>2
  <2> QED
    BY <1>1, <2>1
<1>4. PICK b \in Nat : \A i \in DOMAIN s : s[i] <= b
  <2> HIDE DEF s
  <2> QED
    BY <1>3, NumbersBounded
<1>5. T \in SUBSET Nat /\ T # {} /\ \A t \in T : t <= b
  <2>1. ASSUME NEW t \in T PROVE t \in Nat /\ t <= b
    <3>1. CASE t = 0
      BY <3>1
    <3>2. CASE t # 0
      <4>1. PICK i \in own : t = log[i].attempt
        BY <3>2
      <4>2. i \in DOMAIN s /\ s[i] = t
        BY <1>1, <4>1
      <4>3. t \in Nat
        BY <1>2, <4>1
      <4> QED
        BY <1>4, <4>2, <4>3
    <3> QED
      BY <3>1, <3>2
  <2> QED
    BY <2>1
<1> HIDE DEF T
<1>6. X!Max(T) \in Nat
  BY <1>5, GreatestNumber
<1>7. nextAttempt(log, l) = 1 + X!Max(T)
  BY DEF nextAttempt, T
<1> QED
  BY <1>6, <1>7

\* find answers with a notification of the log.
LEMMA FindType ==
    ASSUME NEW log \in Seq(Notes), NEW id, Knows(log, id)
    PROVE  find(log, id) \in Notes
<1> DEFINE T == {i \in DOMAIN log : log[i].id = id}
<1>1. T \in SUBSET Nat /\ T # {}
  BY DEF Knows
<1>2. \E x \in T : \A y \in T : x <= y
  <2> HIDE DEF T
  <2> QED
    BY <1>1, LeastNumber
<1>3. X!Min(T) \in T
  BY <1>2 DEF X!Min
<1>4. X!Min(T) \in DOMAIN log
  BY <1>3
<1> HIDE DEF T
<1>5. log[X!Min(T)] \in Notes
  BY <1>4
<1> QED
  BY <1>5 DEF find, T

\* Recovery puts every expired flight into the log.
LEMMA RecoverKeeps ==
    ASSUME NEW s, SnapOK(s)
    PROVE  /\ SnapOK(recoverExpired(s))
           /\ recoverExpired(s).flights = s.flights
           /\ recoverExpired(s).on = s.on
           /\ \A id \in Nat : Knows(s.log, id) => Knows(recoverExpired(s).log, id)
           /\ \A f \in s.flights : f.expired => Knows(recoverExpired(s).log, f.note.id)
<1> DEFINE lost == {f \in s.flights : f.expired /\ ~Knows(s.log, f.note.id)}
           ids == {f.note.id : f \in lost}
           n == Cardinality(ids)
           with(id) == CHOOSE f \in lost : f.note.id = id
           new == [i \in 1 .. n |-> recovered(with(Nth(ids, n + 1 - i)))]
           t == [s EXCEPT !.log = new \o @, !.cool = @ \/ lost # {}]
<1>1. s \in Snaps /\ s.log \in Seq(Notes) /\ s.flights \in SUBSET Flights /\ s.cool \in BOOLEAN /\ IsFiniteSet(s.flights)
  BY DEF SnapOK, Snaps
<1>2. \A f \in s.flights : f.note \in Notes /\ f.note.id \in Nat
  BY <1>1 DEF Flights, Notes
<1>3. lost \in SUBSET s.flights /\ IsFiniteSet(lost)
  <2>1. lost \in SUBSET s.flights
    OBVIOUS
  <2> QED
    BY <1>1, <2>1, FS_Subset
<1>4. ids \in SUBSET Nat /\ IsFiniteSet(ids)
  <2>1. ids \in SUBSET Nat
    BY <1>2
  <2> DEFINE name == [f \in lost |-> f.note.id]
  <2>2. name \in Surjection(lost, ids)
    BY DEF Surjection
  <2> HIDE DEF name, lost, ids
  <2>3. IsFiniteSet(ids)
    BY <1>3, <2>2, FS_Surjection
  <2> QED
    BY <2>1, <2>3
<1>5. ASSUME NEW id \in ids PROVE with(id) \in lost /\ with(id).note.id = id
  OBVIOUS
<1>6. ASSUME NEW f \in s.flights PROVE recovered(f) \in Notes /\ recovered(f).id = f.note.id
  <2>1. f.note \in Notes
    BY <1>2
  <2> DEFINE a == [f.note EXCEPT !.st = "failed"]
             b == [a EXCEPT !.why = "dispatch_commit_unknown"]
             c == [b EXCEPT !.again = TRUE]
  <2>2. a \in Notes /\ a.id = f.note.id
    BY <2>1 DEF Notes, Outcomes
  <2> HIDE DEF a
  <2>3. b \in Notes /\ b.id = f.note.id
    BY <2>2 DEF Notes, Reasons
  <2> HIDE DEF b
  <2>4. c \in Notes /\ c.id = f.note.id
    BY <2>3 DEF Notes
  <2> HIDE DEF c
  <2>5. [c EXCEPT !.sent = FALSE] \in Notes /\ [c EXCEPT !.sent = FALSE].id = f.note.id
    BY <2>4 DEF Notes
  <2>6. recovered(f) = [c EXCEPT !.sent = FALSE]
    BY DEF recovered, a, b, c
  <2> QED
    BY <2>5, <2>6
<1>7. /\ n \in Nat /\ \A k \in 1 .. n : Nth(ids, k) \in ids
      /\ \A id \in ids : \E k \in 1 .. n : Nth(ids, k) = id
  <2> HIDE DEF ids
  <2> QED
    BY <1>4, NthSound
<1> HIDE DEF n
<1>8. ASSUME NEW i \in 1 .. n PROVE n + 1 - i \in 1 .. n /\ n + 1 - (n + 1 - i) = i
  BY <1>7
<1>9. ASSUME NEW i \in 1 .. n
      PROVE  /\ recovered(with(Nth(ids, n + 1 - i))) \in Notes
             /\ recovered(with(Nth(ids, n + 1 - i))).id = Nth(ids, n + 1 - i)
  <2> HIDE DEF with, ids, lost
  <2>1. Nth(ids, n + 1 - i) \in ids
    BY <1>7, <1>8
  <2>2. with(Nth(ids, n + 1 - i)) \in lost /\ with(Nth(ids, n + 1 - i)).note.id = Nth(ids, n + 1 - i)
    BY <1>5, <2>1
  <2> QED
    BY <1>3, <1>6, <2>2
<1>10. new \in Seq(Notes) /\ DOMAIN new = 1 .. n /\ \A i \in 1 .. n : new[i].id = Nth(ids, n + 1 - i)
  <2> HIDE DEF with, ids, lost
  <2>1. new \in [1 .. n -> Notes]
    BY <1>9
  <2>2. \A i \in 1 .. n : new[i].id = Nth(ids, n + 1 - i)
    BY <1>9
  <2> QED
    BY <1>7, <2>1, <2>2
<1>11. recoverExpired(s) = t
  BY DEF recoverExpired, n
<1> HIDE DEF new
<1>12. t.log = new \o s.log /\ t.flights = s.flights /\ t.on = s.on /\ t \in Snaps
  <2>1. new \o s.log \in Seq(Notes)
    BY <1>1, <1>10, PrependKnows
  <2>2. (s.cool \/ lost # {}) \in BOOLEAN
    OBVIOUS
  <2> HIDE DEF lost
  <2> QED
    BY <1>1, <2>1, <2>2 DEF Snaps
<1>13. ASSUME NEW f \in s.flights, f.expired PROVE Knows(t.log, f.note.id)
  <2>1. CASE Knows(s.log, f.note.id)
    BY <1>1, <1>2, <1>10, <1>12, <2>1, PrependKnows
  <2>2. CASE ~Knows(s.log, f.note.id)
    <3>1. f.note.id \in ids
      BY <1>13, <2>2
    <3> HIDE DEF ids, lost, with, t
    <3>2. PICK k \in 1 .. n : Nth(ids, k) = f.note.id
      BY <1>7, <3>1
    <3>3. n + 1 - k \in DOMAIN new /\ new[n + 1 - k].id = f.note.id
      BY <1>8, <1>10, <3>2
    <3>4. Knows(new \o s.log, new[n + 1 - k].id)
      BY <1>1, <1>10, <3>3, PrependKnows
    <3> QED
      BY <1>12, <3>3, <3>4
  <2> QED
    BY <2>1, <2>2
<1>14. \A id \in Nat : Knows(s.log, id) => Knows(t.log, id)
  <2> HIDE DEF t
  <2> QED
    BY <1>1, <1>10, <1>12, PrependKnows
<1> HIDE DEF t
<1> QED
  BY <1>1, <1>11, <1>12, <1>13, <1>14 DEF SnapOK

\* A refresh loses no notification: what it drops it has recovered.
LEMMA RefreshKeeps ==
    ASSUME NEW s, SnapOK(s)
    PROVE  SnapOK(refresh(s)) /\ Keeps(s, refresh(s))
<1> DEFINE r == recoverExpired(s)
           t == refresh(s)
<1>1. /\ SnapOK(r) /\ r.flights = s.flights
      /\ \A id \in Nat : Knows(s.log, id) => Knows(r.log, id)
      /\ \A f \in s.flights : f.expired => Knows(r.log, f.note.id)
  BY RecoverKeeps
<1> HIDE DEF r
<1>2. t = [r EXCEPT !.flights = {f \in @ : ~f.expired}]
  BY DEF refresh, pruneExpired, r
<1>3. r \in Snaps /\ r.flights \in SUBSET Flights /\ IsFiniteSet(r.flights)
  BY <1>1 DEF SnapOK, Snaps
<1>4. {f \in r.flights : ~f.expired} \in SUBSET r.flights
  OBVIOUS
<1>5. t.flights = {f \in r.flights : ~f.expired} /\ t.log = r.log /\ t \in Snaps
  BY <1>2, <1>3, <1>4 DEF Snaps
<1> HIDE DEF t
<1>6. SnapOK(t)
  BY <1>3, <1>4, <1>5, FS_Subset DEF SnapOK
<1>7. ASSUME NEW id \in Nat, Carried(s, id) PROVE Knows(t.log, id) \/ Carried(t, id)
  <2>1. PICK f \in s.flights : f.note.id = id
    BY <1>7 DEF Carried
  <2>2. CASE f.expired
    BY <1>1, <1>5, <2>1, <2>2
  <2>3. CASE ~f.expired
    BY <1>1, <1>5, <2>1, <2>3 DEF Carried
  <2> QED
    BY <2>2, <2>3
<1> QED
  BY <1>1, <1>5, <1>6, <1>7 DEF Keeps, Settles, t

\* What is written as a notification is one.
LEMMA NoteType ==
    ASSUME NEW id \in Nat, NEW l \in Lineages, NEW st \in Outcomes, NEW why \in Reasons, NEW k \in Nat
    PROVE  Note(id, l, st, why, k) \in Notes /\ Note(id, l, st, why, k).id = id
BY DEF Note, Notes

\* A notification that gets its id stays one.
LEMMA NamedType ==
    ASSUME NEW n \in Notes, NEW id \in Nat
    PROVE  /\ [n EXCEPT !.id = id] \in Notes
           /\ [n EXCEPT !.id = id].id = id /\ [n EXCEPT !.id = id].line = n.line
BY DEF Notes

\* A notification that is settled stays one.
LEMMA OutcomeType ==
    ASSUME NEW n \in Notes, NEW id \in Nat
    PROVE  outcome(n, id) \in Notes
<1> DEFINE a == [n EXCEPT !.id = id]
           b == [a EXCEPT !.st = "sent"]
           c == [b EXCEPT !.why = "dispatch_commit_confirmed"]
<1>1. a \in Notes
  BY DEF Notes
<1>2. outcome(n, id) \in {[c EXCEPT !.again = FALSE], [a EXCEPT !.why = "dispatch_commit_confirmation_timeout"]}
  BY DEF outcome
<1> HIDE DEF a
<1>3. b \in Notes /\ [a EXCEPT !.why = "dispatch_commit_confirmation_timeout"] \in Notes
  BY <1>1 DEF Notes, Outcomes, Reasons
<1> HIDE DEF b
<1>4. c \in Notes
  BY <1>3 DEF Notes, Reasons
<1> HIDE DEF c
<1>5. [c EXCEPT !.again = FALSE] \in Notes
  BY <1>4 DEF Notes
<1> QED
  BY <1>2, <1>3, <1>5

\* A notification that sums up what the channels answered stays one.
LEMMA SummaryType ==
    ASSUME NEW n \in Notes, NEW results
    PROVE  /\ summarizeJobAlertChannelResults(n, results) \in Notes
           /\ summarizeJobAlertChannelResults(n, results).id = n.id
           /\ summarizeJobAlertChannelResults(n, results).line = n.line
<1> DEFINE sum == summarizeJobAlertChannelResults(n, results)
           a == [n EXCEPT !.st = "sent"]
           b == [n EXCEPT !.st = "failed"]
           again == "provider_transient_error" \in results
<1>1. a \in Notes /\ b \in Notes /\ a.id = n.id /\ a.line = n.line /\ b.id = n.id /\ b.line = n.line
  BY DEF Notes, Outcomes
<1>2. sum \in {[a EXCEPT !.sent = TRUE], [b EXCEPT !.again = again]}
  BY DEF summarizeJobAlertChannelResults
<1>3. again \in BOOLEAN
  OBVIOUS
<1> HIDE DEF a, b, again, sum
<1>4. /\ [a EXCEPT !.sent = TRUE] \in Notes /\ [b EXCEPT !.again = again] \in Notes
      /\ [a EXCEPT !.sent = TRUE].id = n.id /\ [b EXCEPT !.again = again].id = n.id
      /\ [a EXCEPT !.sent = TRUE].line = n.line /\ [b EXCEPT !.again = again].line = n.line
  BY <1>1, <1>3 DEF Notes
<1> QED
  BY <1>2, <1>4 DEF sum

\* A snapshot whose log alone grows.
LEMMA LogGrows ==
    ASSUME NEW s, SnapOK(s), NEW new \in Seq(Notes), NEW cool \in BOOLEAN
    PROVE  LET t == [s EXCEPT !.log = new \o @, !.cool = cool]
           IN  SnapOK(t) /\ Keeps(s, t)
<1> DEFINE t == [s EXCEPT !.log = new \o @, !.cool = cool]
<1>1. s \in Snaps /\ s.log \in Seq(Notes) /\ IsFiniteSet(s.flights)
  BY DEF SnapOK, Snaps
<1>2. /\ new \o s.log \in Seq(Notes)
      /\ \A id \in Nat : Knows(s.log, id) => Knows(new \o s.log, id)
  BY <1>1, PrependKnows
<1>3. t \in Snaps /\ t.log = new \o s.log /\ t.flights = s.flights
  BY <1>1, <1>2 DEF Snaps
<1> HIDE DEF t
<1>4. SnapOK(t) /\ Keeps(s, t)
  BY <1>1, <1>2, <1>3 DEF SnapOK, Keeps, Settles, Carried
<1> QED
  BY <1>4 DEF t

\* One notification more in the log.
LEMMA LogGrowsByOne ==
    ASSUME NEW s, SnapOK(s), NEW n \in Notes
    PROVE  LET t == [s EXCEPT !.log = <<n>> \o @]
           IN  SnapOK(t) /\ Keeps(s, t)
<1> DEFINE t == [s EXCEPT !.log = <<n>> \o @]
<1>1. s \in Snaps /\ s.log \in Seq(Notes) /\ IsFiniteSet(s.flights)
  BY DEF SnapOK, Snaps
<1>2. /\ <<n>> \o s.log \in Seq(Notes)
      /\ \A id \in Nat : Knows(s.log, id) => Knows(<<n>> \o s.log, id)
  BY <1>1, PrependOne
<1>3. t \in Snaps /\ t.log = <<n>> \o s.log /\ t.flights = s.flights
  BY <1>1, <1>2 DEF Snaps
<1> HIDE DEF t
<1>4. SnapOK(t) /\ Keeps(s, t)
  BY <1>1, <1>2, <1>3 DEF SnapOK, Keeps, Settles, Carried
<1> QED
  BY <1>4 DEF t

\* Two steps that keep every notification are one that does.
LEMMA KeepsChain ==
    ASSUME NEW r, NEW s, NEW t, Keeps(r, s), Keeps(s, t)
    PROVE  Keeps(r, t)
BY DEF Keeps, Settles

\* Nothing is lost where nothing changes.
LEMMA KeepsSelf ==
    ASSUME NEW s
    PROVE  Keeps(s, s)
BY DEF Keeps, Settles

\* The confirmations add to the log and take names that nobody has.
LEMMA ConfirmKeeps ==
    ASSUME NEW s, SnapOK(s), fresh \in Nat, ConfirmSyncWorkerAlertNotifications(s)
    PROVE  SnapOK(snap') /\ Keeps(s, snap') /\ fresh' \in Nat /\ fresh <= fresh' /\ ahist' = ahist
<1>1. PICK late \in BOOLEAN :
        LET log == s.log
            firsts == {i \in DOMAIN log : isPending(log[i]) /\ \A j \in 1..(i - 1) : log[j].line # log[i].line}
            settled == {i \in firsts : settles(log[i], late)}
            n == Cardinality(settled)
            new == [k \in 1..n |-> outcome(log[Nth(settled, k)], fresh + k - 1)]
        IN  /\ snap' = [s EXCEPT !.log = new \o @, !.cool = @ \/ \E k \in 1..n : new[k].st = "sent"]
            /\ fresh' = fresh + n
            /\ UNCHANGED ahist
  BY DEF ConfirmSyncWorkerAlertNotifications
<1> DEFINE log == s.log
           firsts == {i \in DOMAIN log : isPending(log[i]) /\ \A j \in 1..(i - 1) : log[j].line # log[i].line}
           settled == {i \in firsts : settles(log[i], late)}
           n == Cardinality(settled)
           new == [k \in 1..n |-> outcome(log[Nth(settled, k)], fresh + k - 1)]
           cool == s.cool \/ \E k \in 1..n : new[k].st = "sent"
<1>2. log \in Seq(Notes) /\ s.cool \in BOOLEAN
  BY DEF SnapOK, Snaps
<1>3. settled \in SUBSET (1 .. Len(log)) /\ Len(log) \in Nat /\ DOMAIN log = 1 .. Len(log)
  BY <1>2
<1> HIDE DEF settled
<1>4. settled \in SUBSET Nat /\ IsFiniteSet(settled)
  <2>1. IsFiniteSet(1 .. Len(log))
    BY <1>3, FS_Interval
  <2>2. IsFiniteSet(settled)
    BY <1>3, <2>1, FS_Subset
  <2> QED
    BY <1>3, <2>2
<1>5. n \in Nat /\ \A k \in 1 .. n : Nth(settled, k) \in settled
  BY <1>4, NthSound
<1> HIDE DEF n
<1>6. ASSUME NEW k \in 1 .. n PROVE outcome(log[Nth(settled, k)], fresh + k - 1) \in Notes
  <2>1. log[Nth(settled, k)] \in Notes
    <3>1. Nth(settled, k) \in 1 .. Len(log)
      BY <1>3, <1>5
    <3> HIDE DEF log
    <3> QED
      BY <1>2, <3>1
  <2>2. fresh + k - 1 \in Nat
    BY <1>5
  <2> QED
    BY <2>1, <2>2, OutcomeType
<1>7. new \in Seq(Notes)
  <2>1. new \in [1 .. n -> Notes]
    BY <1>6
  <2> QED
    BY <1>5, <2>1
<1>8. cool \in BOOLEAN
  BY <1>2
<1>9. snap' = [s EXCEPT !.log = new \o @, !.cool = cool] /\ fresh' = fresh + n /\ ahist' = ahist
  BY <1>1 DEF n, settled
<1> HIDE DEF new, cool
<1>10. SnapOK(snap') /\ Keeps(s, snap')
  BY <1>7, <1>8, <1>9, LogGrows
<1> QED
  BY <1>5, <1>9, <1>10

-----------------------------------------------------------------------------
(* Alerts: the invariant.                                                  *)

Kinds == {"dispatch", "retry", "auto", "tick"}
Contents == [log : Seq(Notes), flights : SUBSET Notes, cool : BOOLEAN, on : BOOLEAN]
States ==
    {Rest}
    \cup [pc : {"ready"}, kind : {"dispatch"}, line : Lineages, on : BOOLEAN]
    \cup [pc : {"ready"}, kind : {"retry"}, id : Nat]
    \cup [pc : {"ready"}, kind : {"auto", "tick"}]
    \cup [pc : {"acquire"}, kind : Kinds, note : Notes, got : BOOLEAN]
    \cup [pc : {"swap"}, kind : Kinds, note : Notes, got : BOOLEAN, read : Contents]
    \cup [pc : {"call", "record"}, kind : Kinds, note : Notes]

AlertTyped ==
    /\ SnapOK(snap)
    /\ proc \in [Procs -> States]
    /\ fresh \in Nat \ {0}
    /\ ahist \in [called : SUBSET Nat, bare : SUBSET Nat, late : SUBSET Nat]

\* What a request was asked to retry is in the log: it is looked up there after the lock.
RetryKnown == \A p \in Procs : proc[p].pc = "ready" /\ proc[p].kind = "retry" => Knows(snap.log, proc[p].id)

\* A lineage has at most one flight, whether it has expired or not.
FlightsApart ==
    /\ \A f, g \in snap.flights : f.note.line = g.note.line => f = g
    /\ \A f \in snap.flights : f.note.id < fresh

\* A process that calls the provider, or has called it and has the outcome to write.
Flying(x) == x.pc \in {"call", "record"} /\ x.note.id # Unnamed

\* Two such have two names, and a call and its flight are about one lineage.
CallsApart ==
    /\ \A p \in Procs : proc[p].pc = "call" => Flying(proc[p])
    /\ \A p \in Procs : Flying(proc[p]) =>
          /\ proc[p].note.id < fresh
          /\ \A f \in snap.flights : f.note.id = proc[p].note.id => f.note.line = proc[p].note.line
    /\ \A p, q \in Procs : p # q /\ Flying(proc[p]) /\ Flying(proc[q]) => proc[p].note.id # proc[q].note.id

\* A flight that has expired is late, and a call has its flight until then, unless it began without one.
CallsCarried ==
    /\ \A f \in snap.flights : f.expired => f.note.id \in ahist.late
    /\ \A p \in Procs : proc[p].pc = "call" /\ proc[p].note.id \notin ahist.late \cup ahist.bare
                         => Carried(snap, proc[p].note.id)

AlertInv == AlertTyped /\ EveryDispatchAccounted /\ RetryKnown /\ FlightsApart /\ CallsApart /\ CallsCarried

\* What a process may become without touching the flights.
Calm(x) == /\ x \in States /\ x.pc # "call"
           /\ x.pc = "record" => x.note.id = Unnamed
           /\ x.pc = "ready" /\ x.kind = "retry" => Knows(snap.log, x.id)

\* Or when the provider has answered.
Answers(x, y) == /\ x.pc = "call" /\ y \in States /\ y.pc = "record"
                 /\ y.note.id = x.note.id /\ y.note.line = x.note.line

\* What the processes are is a case of seven.
LEMMA StateCases ==
    ASSUME NEW x \in States
    PROVE  /\ x.pc = "ready" => x.kind \in Kinds
           /\ x.pc = "ready" /\ x.kind = "dispatch" => x.line \in Lineages /\ x.on \in BOOLEAN
           /\ x.pc = "ready" /\ x.kind = "retry" => x.id \in Nat
           /\ x.pc \in {"acquire", "swap", "call", "record"} => x.kind \in Kinds /\ x.note \in Notes
           /\ x.pc \in {"acquire", "swap"} => x.got \in BOOLEAN
           /\ x.pc \in {"idle", "ready", "acquire", "swap", "call", "record"}
<1>1. CASE x = Rest
  BY <1>1 DEF Rest
<1>2. CASE x \in [pc : {"ready"}, kind : {"dispatch"}, line : Lineages, on : BOOLEAN]
  BY <1>2 DEF Kinds
<1>3. CASE x \in [pc : {"ready"}, kind : {"retry"}, id : Nat]
  BY <1>3 DEF Kinds
<1>4. CASE x \in [pc : {"ready"}, kind : {"auto", "tick"}]
  BY <1>4 DEF Kinds
<1>5. CASE x \in [pc : {"acquire"}, kind : Kinds, note : Notes, got : BOOLEAN]
  BY <1>5
<1>6. CASE x \in [pc : {"swap"}, kind : Kinds, note : Notes, got : BOOLEAN, read : Contents]
  BY <1>6
<1>7. CASE x \in [pc : {"call", "record"}, kind : Kinds, note : Notes]
  BY <1>7
<1> QED
  BY <1>1, <1>2, <1>3, <1>4, <1>5, <1>6, <1>7 DEF States

\* A step that keeps every notification and the flights of the calls, claims no flight and starts no call
\* keeps the invariant.
LEMMA QuietStep ==
    ASSUME AlertInv, SnapOK(snap'), Settles(snap, snap'), fresh' \in Nat, fresh <= fresh', ahist' = ahist,
           \A f \in snap.flights : ~f.expired =>
              f \in snap'.flights \/ \A p \in Procs : proc'[p].pc = "call" => proc'[p].note.id # f.note.id,
           proc' \in [Procs -> States],
           \A p \in Procs : proc'[p] = proc[p] \/ Calm(proc'[p]) \/ Answers(proc[p], proc'[p])
    PROVE  AlertInv'
<1>1. AlertTyped /\ EveryDispatchAccounted /\ RetryKnown /\ FlightsApart /\ CallsApart /\ CallsCarried
  BY DEF AlertInv
<1>2. AlertTyped'
  BY <1>1 DEF AlertTyped
<1>3. EveryDispatchAccounted'
  <2>1. ASSUME NEW id \in ahist.called \ ahist.bare PROVE Knows(snap'.log, id) \/ Carried(snap', id)
    <3>1. id \in Nat
      BY <1>1 DEF AlertTyped
    <3>2. Knows(snap.log, id) \/ Carried(snap, id)
      BY <1>1 DEF EveryDispatchAccounted, Carried
    <3> QED
      BY <3>1, <3>2 DEF Settles
  <2> QED
    BY <2>1 DEF EveryDispatchAccounted, Carried
<1>4. RetryKnown'
  <2>1. ASSUME NEW p \in Procs, proc'[p].pc = "ready", proc'[p].kind = "retry" PROVE Knows(snap'.log, proc'[p].id)
    <3>1. proc'[p].id \in Nat
      BY <2>1, StateCases
    <3>2. Knows(snap.log, proc'[p].id)
      BY <1>1, <2>1 DEF RetryKnown, Calm, Answers
    <3> QED
      BY <3>1, <3>2 DEF Settles
  <2> QED
    BY <2>1 DEF RetryKnown
<1>5. FlightsApart'
  <2>1. ASSUME NEW f \in snap'.flights PROVE f \in snap.flights /\ f.note.id < fresh'
    <3>1. f \in snap.flights /\ f.note.id < fresh
      BY <1>1 DEF Settles, FlightsApart
    <3>2. f.note.id \in Nat /\ fresh \in Nat
      BY <1>1, <3>1 DEF AlertTyped, SnapOK, Snaps, Flights, Notes
    <3> QED
      BY <3>1, <3>2
  <2> QED
    BY <1>1, <2>1 DEF FlightsApart
<1>6. ASSUME NEW p \in Procs, proc'[p].pc = "call" PROVE proc'[p] = proc[p]
  BY <1>6 DEF Calm, Answers
<1>7. CallsApart'
  <2>1. ASSUME NEW p \in Procs, Flying(proc'[p])
        PROVE  /\ Flying(proc[p]) /\ proc'[p].note.id = proc[p].note.id
               /\ proc'[p].note.line = proc[p].note.line
    BY <1>1, <2>1 DEF Calm, Answers, Flying, CallsApart
  <2>2. ASSUME NEW p \in Procs, Flying(proc'[p])
        PROVE  /\ proc'[p].note.id < fresh'
               /\ \A f \in snap'.flights : f.note.id = proc'[p].note.id => f.note.line = proc'[p].note.line
    <3>1. proc[p].note.id \in Nat /\ fresh \in Nat
      <4>1. proc[p].note \in Notes
        BY <1>1, <2>1, <2>2, StateCases DEF AlertTyped, Flying
      <4> QED
        BY <1>1, <4>1 DEF AlertTyped, Notes
    <3>2. proc[p].note.id < fresh
      BY <1>1, <2>1, <2>2 DEF CallsApart
    <3>3. \A f \in snap'.flights : f.note.id = proc[p].note.id => f.note.line = proc[p].note.line
      BY <1>1, <2>1, <2>2 DEF CallsApart, Settles
    <3> QED
      BY <2>1, <2>2, <3>1, <3>2, <3>3
  <2>3. ASSUME NEW p \in Procs, NEW q \in Procs, p # q, Flying(proc'[p]), Flying(proc'[q])
        PROVE  proc'[p].note.id # proc'[q].note.id
    BY <1>1, <2>1, <2>3 DEF CallsApart
  <2>4. ASSUME NEW p \in Procs, proc'[p].pc = "call" PROVE Flying(proc'[p])
    BY <1>1, <1>6, <2>4 DEF CallsApart
  <2> QED
    BY <2>2, <2>3, <2>4 DEF CallsApart
<1>8. CallsCarried'
  <2>1. ASSUME NEW f \in snap'.flights, f.expired PROVE f.note.id \in ahist'.late
    BY <1>1, <2>1 DEF CallsCarried, Settles
  <2>2. ASSUME NEW p \in Procs, proc'[p].pc = "call", proc'[p].note.id \notin ahist'.late \cup ahist'.bare
        PROVE  \E f \in snap'.flights : f.note.id = proc'[p].note.id
    <3>1. proc'[p] = proc[p]
      BY <1>6, <2>2
    <3>2. PICK f \in snap.flights : f.note.id = proc'[p].note.id
      BY <1>1, <2>2, <3>1 DEF CallsCarried, Carried
    <3>3. ~f.expired
      BY <1>1, <2>2, <3>2 DEF CallsCarried
    <3> QED
      BY <2>2, <3>2, <3>3
  <2> QED
    BY <2>1, <2>2 DEF CallsCarried, Carried
<1> QED
  BY <1>2, <1>3, <1>4, <1>5, <1>7, <1>8 DEF AlertInv

\* The same where one process has become something else.
LEMMA QuietSet ==
    ASSUME AlertInv, SnapOK(snap'), Keeps(snap, snap'), fresh' \in Nat, fresh <= fresh', ahist' = ahist,
           NEW p \in Procs, \E x : Calm(x) /\ Set(p, x)
    PROVE  AlertInv'
<1>1. PICK x : Calm(x) /\ proc' = [proc EXCEPT ![p] = x]
  BY DEF Set
<1>2. proc \in [Procs -> States] /\ x \in States
  BY <1>1 DEF AlertInv, AlertTyped, Calm
<1>3. proc' \in [Procs -> States] /\ \A q \in Procs : proc'[q] = IF q = p THEN x ELSE proc[q]
  BY <1>1, <1>2
<1>4. \A q \in Procs : proc'[q] = proc[q] \/ Calm(proc'[q])
  BY <1>1, <1>3
<1> QED
  BY <1>3, <1>4, QuietStep DEF Keeps

\* A process at rest, and one with a notification to claim or an unclaimed one to record, are calm.
LEMMA CalmStates ==
    /\ Calm(Rest)
    /\ \A k \in Kinds, n \in Notes : n.id = Unnamed => Calm([pc |-> "record", kind |-> k, note |-> n])
    /\ \A k \in Kinds, n \in Notes, got \in BOOLEAN : Calm([pc |-> "acquire", kind |-> k, note |-> n, got |-> got])
    /\ \A k \in Kinds, n \in Notes, got \in BOOLEAN, c \in Contents :
          Calm([pc |-> "swap", kind |-> k, note |-> n, got |-> got, read |-> c])
    /\ \A l \in Lineages, on \in BOOLEAN : Calm([pc |-> "ready", kind |-> "dispatch", line |-> l, on |-> on])
    /\ \A id \in Nat : Knows(snap.log, id) => Calm([pc |-> "ready", kind |-> "retry", id |-> id])
    /\ \A k \in {"auto", "tick"} : Calm([pc |-> "ready", kind |-> k])
<1>1. Calm(Rest)
  BY DEF Calm, States, Rest
<1>2. ASSUME NEW k \in Kinds, NEW n \in Notes, n.id = Unnamed
      PROVE  Calm([pc |-> "record", kind |-> k, note |-> n])
  BY <1>2 DEF Calm, States
<1>6. ASSUME NEW k \in Kinds, NEW n \in Notes, NEW got \in BOOLEAN
      PROVE  Calm([pc |-> "acquire", kind |-> k, note |-> n, got |-> got])
  BY DEF Calm, States
<1>7. ASSUME NEW k \in Kinds, NEW n \in Notes, NEW got \in BOOLEAN, NEW c \in Contents
      PROVE  Calm([pc |-> "swap", kind |-> k, note |-> n, got |-> got, read |-> c])
  BY DEF Calm, States
<1>3. ASSUME NEW l \in Lineages, NEW on \in BOOLEAN
      PROVE  Calm([pc |-> "ready", kind |-> "dispatch", line |-> l, on |-> on])
  BY DEF Calm, States
<1>4. ASSUME NEW id \in Nat, Knows(snap.log, id) PROVE Calm([pc |-> "ready", kind |-> "retry", id |-> id])
  BY <1>4 DEF Calm, States
<1>5. ASSUME NEW k \in {"auto", "tick"} PROVE Calm([pc |-> "ready", kind |-> k])
  BY DEF Calm, States
<1> QED
  BY <1>1, <1>2, <1>3, <1>4, <1>5, <1>6, <1>7

\* A request that is taken in confirms what is pending first.
LEMMA ArriveStep ==
    ASSUME AlertInv, NEW p \in Procs, NEW s, SnapOK(s), Keeps(snap, s), ConfirmSyncWorkerAlertNotifications(s),
           \E x : Calm(x) /\ Set(p, x)
    PROVE  AlertInv'
<1>1. fresh \in Nat
  BY DEF AlertInv, AlertTyped
<1>2. SnapOK(snap') /\ Keeps(s, snap') /\ fresh' \in Nat /\ fresh <= fresh' /\ ahist' = ahist
  BY <1>1, ConfirmKeeps
<1>3. Keeps(snap, snap')
  BY <1>2, KeepsChain
<1> QED
  BY <1>2, <1>3, QuietSet

\* The requests.
LEMMA RequestStep ==
    ASSUME AlertInv, NEW p \in Procs, Requests(p)
    PROVE  AlertInv'
<1>1. SnapOK(snap) /\ snap \in Snaps /\ snap.log \in Seq(Notes) /\ snap.on \in BOOLEAN /\ fresh \in Nat
  BY DEF AlertInv, AlertTyped, SnapOK, Snaps
<1>2. SnapOK(refresh(snap)) /\ Keeps(snap, refresh(snap)) /\ Keeps(snap, snap)
  BY <1>1, RefreshKeeps, KeepsSelf
<1>3. ASSUME NEW i \in DOMAIN snap.log
      PROVE  snap.log[i] \in Notes /\ snap.log[i].id \in Nat /\ snap.log[i].line \in Lineages /\ Knows(snap.log, snap.log[i].id)
  <2>1. snap.log[i] \in Notes
    BY <1>1
  <2>2. snap.log[i].id \in Nat /\ snap.log[i].line \in Lineages
    BY <2>1 DEF Notes
  <2> QED
    BY <2>1, <2>2 DEF Knows
<1>4. ASSUME Answered(p) PROVE \E x : Calm(x) /\ Set(p, x)
  BY <1>4, CalmStates DEF Answered, ArriveAs
<1>5. CASE dispatchEnterpriseSyncWorkerAlerts(p)
  <2>1. PICK l \in Lineages :
          /\ Set(p, [pc |-> "ready", kind |-> "dispatch", line |-> l, on |-> snap.on])
          /\ ConfirmSyncWorkerAlertNotifications(refresh(snap))
    BY <1>5 DEF dispatchEnterpriseSyncWorkerAlerts, Arrive, ArriveAs
  <2>2. Calm([pc |-> "ready", kind |-> "dispatch", line |-> l, on |-> snap.on])
    BY <1>1, CalmStates
  <2> QED
    BY <1>2, <2>1, <2>2, ArriveStep
<1>6. CASE retryEnterpriseSyncWorkerAlertNotification(p) \/ retryEnterpriseSyncWorkerAlertNotificationsBatch(p)
  <2>1. PICK i \in DOMAIN snap.log :
          /\ Set(p, [pc |-> "ready", kind |-> "retry", id |-> snap.log[i].id])
          /\ ConfirmSyncWorkerAlertNotifications(snap)
    BY <1>6 DEF retryEnterpriseSyncWorkerAlertNotification, retryEnterpriseSyncWorkerAlertNotificationsBatch, Arrive, ArriveAs
  <2>2. Calm([pc |-> "ready", kind |-> "retry", id |-> snap.log[i].id])
    BY <1>3, CalmStates
  <2> QED
    BY <1>1, <1>2, <2>1, <2>2, ArriveStep
<1>7. CASE autoRetryEnterpriseSyncWorkerAlertNotifications(p)
  <2>1. Set(p, [pc |-> "ready", kind |-> "auto"]) /\ ConfirmSyncWorkerAlertNotifications(snap)
    BY <1>7 DEF autoRetryEnterpriseSyncWorkerAlertNotifications, Arrive, ArriveAs
  <2>2. Calm([pc |-> "ready", kind |-> "auto"])
    BY CalmStates
  <2> QED
    BY <1>1, <1>2, <2>1, <2>2, ArriveStep
<1>8. CASE \/ listEnterpriseSyncWorkerAlertNotifications(p)
           \/ exportEnterpriseSyncWorkerAlertNotificationsCSV(p)
  <2>1. Answered(p) /\ ConfirmSyncWorkerAlertNotifications(refresh(snap))
    BY <1>8 DEF listEnterpriseSyncWorkerAlertNotifications, exportEnterpriseSyncWorkerAlertNotificationsCSV,
                ListSyncWorkerAlertNotificationPage
  <2> QED
    BY <1>2, <1>4, <2>1, ArriveStep
<1>9. CASE upsertEnterpriseSyncWorkerAlertSubscription(p)
  <2>1. PICK on \in BOOLEAN : /\ Answered(p) /\ UNCHANGED <<fresh, ahist>>
                              /\ snap' = [refresh(snap) EXCEPT !.on = on]
    BY <1>9 DEF upsertEnterpriseSyncWorkerAlertSubscription, UpsertSyncWorkerAlertSubscription
  <2> DEFINE s == refresh(snap)
  <2>2. SnapOK(s) /\ Keeps(snap, s) /\ snap' = [s EXCEPT !.on = on]
    BY <1>2, <2>1
  <2> HIDE DEF s
  <2>3. snap' \in Snaps /\ snap'.flights = s.flights /\ snap'.log = s.log
    BY <2>2 DEF SnapOK, Snaps
  <2>4. SnapOK(snap') /\ Keeps(snap, snap')
    BY <2>2, <2>3 DEF SnapOK, Keeps, Settles, Carried
  <2>5. fresh' = fresh /\ ahist' = ahist
    BY <2>1
  <2> QED
    BY <1>1, <1>4, <2>1, <2>4, <2>5, QuietSet
<1>10. CASE suppressEnterpriseSyncWorkerAlertNotificationsBatch(p)
  <2>1. PICK i \in DOMAIN snap.log :
          /\ Answered(p) /\ fresh' = fresh + 1 /\ ahist' = ahist
          /\ snap' = BatchSuppressSyncWorkerAlertNotifications(snap, snap.log[i], fresh)
    BY <1>10 DEF suppressEnterpriseSyncWorkerAlertNotificationsBatch
  <2> DEFINE n == Note(fresh, snap.log[i].line, "skipped", "manual_suppressed", nextAttempt(snap.log, snap.log[i].line))
  <2>2. nextAttempt(snap.log, snap.log[i].line) \in Nat
    BY <1>1, NextAttemptType
  <2>3. n \in Notes
    <3>1. "skipped" \in Outcomes /\ "manual_suppressed" \in Reasons
      BY DEF Outcomes, Reasons
    <3> QED
      BY <1>1, <1>3, <2>2, <3>1, NoteType
  <2>4. snap' = [snap EXCEPT !.log = <<n>> \o @]
    BY <2>1 DEF BatchSuppressSyncWorkerAlertNotifications
  <2> HIDE DEF n
  <2>5. SnapOK(snap') /\ Keeps(snap, snap')
    BY <1>1, <2>3, <2>4, LogGrowsByOne
  <2>6. fresh' \in Nat /\ fresh <= fresh' /\ ahist' = ahist
    BY <1>1, <2>1
  <2> QED
    BY <1>4, <2>1, <2>5, <2>6, QuietSet
<1>11. CASE restoreEnterpriseSyncWorkerAlertNotificationsBatch(p)
  <2> DEFINE s == refresh(snap)
  <2>1. PICK i \in DOMAIN snap.log :
          /\ Answered(p) /\ fresh' = fresh + 1 /\ ahist' = ahist
          /\ snap' = BatchRestoreSyncWorkerAlertNotifications(s, snap.log[i], fresh)
    BY <1>11 DEF restoreEnterpriseSyncWorkerAlertNotificationsBatch
  <2>2. SnapOK(s) /\ Keeps(snap, s)
    BY <1>2
  <2> HIDE DEF s
  <2> DEFINE m == Note(fresh, snap.log[i].line, "failed", "manual_suppressed_restored", nextAttempt(s.log, snap.log[i].line))
             n == [m EXCEPT !.again = TRUE]
  <2>3. nextAttempt(s.log, snap.log[i].line) \in Nat
    BY <2>2, NextAttemptType DEF SnapOK, Snaps
  <2>4. m \in Notes
    <3>1. "failed" \in Outcomes /\ "manual_suppressed_restored" \in Reasons
      BY DEF Outcomes, Reasons
    <3> QED
      BY <1>1, <1>3, <2>3, <3>1, NoteType
  <2>5. snap' = [s EXCEPT !.log = <<n>> \o @]
    BY <2>1 DEF BatchRestoreSyncWorkerAlertNotifications
  <2> HIDE DEF m
  <2>6. n \in Notes
    BY <2>4 DEF Notes
  <2> HIDE DEF n
  <2>7. SnapOK(snap') /\ Keeps(s, snap')
    BY <2>2, <2>5, <2>6, LogGrowsByOne
  <2>8. fresh' \in Nat /\ fresh <= fresh' /\ ahist' = ahist /\ Keeps(snap, snap')
    BY <1>1, <2>1, <2>2, <2>7, KeepsChain
  <2> QED
    BY <1>4, <2>1, <2>7, <2>8, QuietSet
<1> QED
  BY <1>5, <1>6, <1>7, <1>8, <1>9, <1>10, <1>11 DEF Requests

\* A retry ends, or goes on to claim a flight or to record that it was not needed.
LEMMA RetryCalm ==
    ASSUME NEW p \in Procs, NEW log \in Seq(Notes), NEW r \in Notes, proc[p].kind \in Kinds, Retry(p, log, r)
    PROVE  \E x : Calm(x) /\ Set(p, x)
<1>1. r.line \in Lineages /\ nextAttempt(log, r.line) \in Nat /\ Unnamed \in Nat /\ 0 \in Nat
  BY NextAttemptType DEF Notes, Unnamed
<1>2. /\ "skipped" \in Outcomes /\ "ready" \in Outcomes
      /\ "idempotent_already_sent" \in Reasons /\ "" \in Reasons
  BY DEF Outcomes, Reasons
<1>3. CASE Done(p)
  BY <1>3, CalmStates DEF Done
<1>4. CASE Write(p, Note(Unnamed, r.line, "skipped", "idempotent_already_sent", 0))
  <2> DEFINE n == Note(Unnamed, r.line, "skipped", "idempotent_already_sent", 0)
  <2>1. n \in Notes /\ n.id = Unnamed
    <3>1. n \in Notes
      BY <1>1, <1>2, NoteType
    <3>2. n.id = Unnamed
      BY DEF Note
    <3> QED
      BY <3>1, <3>2
  <2> HIDE DEF n
  <2>2. Calm([pc |-> "record", kind |-> proc[p].kind, note |-> n])
    BY <2>1, CalmStates
  <2>3. Set(p, [pc |-> "record", kind |-> proc[p].kind, note |-> n])
    BY <1>4 DEF Write, n
  <2> QED
    BY <2>2, <2>3
<1>5. CASE Try(p, Attempt(r.line, nextAttempt(log, r.line)))
  <2> DEFINE n == Attempt(r.line, nextAttempt(log, r.line))
  <2>1. n \in Notes
    BY <1>1, <1>2, NoteType DEF Attempt
  <2> HIDE DEF n
  <2>2. Calm([pc |-> "acquire", kind |-> proc[p].kind, note |-> n, got |-> FALSE])
    BY <2>1, CalmStates
  <2>3. Set(p, [pc |-> "acquire", kind |-> proc[p].kind, note |-> n, got |-> FALSE])
    BY <1>5 DEF Try, n
  <2> QED
    BY <2>2, <2>3
<1> QED
  BY <1>3, <1>4, <1>5 DEF Retry

\* So does a dispatch.
LEMMA DispatchCalm ==
    ASSUME NEW p \in Procs, NEW s, SnapOK(s), NEW l \in Lineages, NEW on \in BOOLEAN, NEW cooling \in BOOLEAN,
           proc[p].kind \in Kinds, Dispatch(p, s, l, on, cooling)
    PROVE  \E x : Calm(x) /\ Set(p, x)
<1>1. s.log \in Seq(Notes)
  BY DEF SnapOK, Snaps
<1>2. nextAttempt(s.log, l) \in Nat /\ Unnamed \in Nat /\ 0 \in Nat
  BY <1>1, NextAttemptType DEF Unnamed
<1>3. /\ "skipped" \in Outcomes /\ "ready" \in Outcomes /\ "" \in Reasons
      /\ Plan(on, cooling) # "ready" => Plan(on, cooling) \in Reasons
  BY DEF Outcomes, Reasons, Plan
<1>4. CASE Done(p)
  BY <1>4, CalmStates DEF Done
<1>5. CASE Plan(on, cooling) # "ready" /\ Write(p, Note(Unnamed, l, "skipped", Plan(on, cooling), 0))
  <2> DEFINE n == Note(Unnamed, l, "skipped", Plan(on, cooling), 0)
  <2>1. n \in Notes /\ n.id = Unnamed
    <3>1. n \in Notes
      BY <1>2, <1>3, <1>5, NoteType
    <3>2. n.id = Unnamed
      BY DEF Note
    <3> QED
      BY <3>1, <3>2
  <2> HIDE DEF n
  <2>2. Calm([pc |-> "record", kind |-> proc[p].kind, note |-> n])
    BY <2>1, CalmStates
  <2>3. Set(p, [pc |-> "record", kind |-> proc[p].kind, note |-> n])
    BY <1>5 DEF Write, n
  <2> QED
    BY <2>2, <2>3
<1>6. CASE Try(p, Attempt(l, nextAttempt(s.log, l)))
  <2> DEFINE n == Attempt(l, nextAttempt(s.log, l))
  <2>1. n \in Notes
    BY <1>2, <1>3, NoteType DEF Attempt
  <2> HIDE DEF n
  <2>2. Calm([pc |-> "acquire", kind |-> proc[p].kind, note |-> n, got |-> FALSE])
    BY <2>1, CalmStates
  <2>3. Set(p, [pc |-> "acquire", kind |-> proc[p].kind, note |-> n, got |-> FALSE])
    BY <1>6 DEF Try, n
  <2> QED
    BY <2>2, <2>3
<1> QED
  BY <1>4, <1>5, <1>6 DEF Dispatch

\* And an automatic retry, of the newest notification.
LEMMA AutoRetryCalm ==
    ASSUME NEW p \in Procs, NEW log \in Seq(Notes), proc[p].kind \in Kinds, AutoRetry(p, log)
    PROVE  \E x : Calm(x) /\ Set(p, x)
<1>1. CASE Done(p)
  BY <1>1, CalmStates DEF Done
<1>2. CASE ~Done(p)
  <2>1. log # <<>>
    BY <1>2 DEF AutoRetry
  <2>2. log[1] \in Notes
    BY <2>1
  <2>3. CASE Retry(p, log, log[1])
    BY <2>2, <2>3, RetryCalm
  <2>4. CASE Write(p, Note(Unnamed, log[1].line, "skipped", "auto_retry_attempt_limit", nextAttempt(log, log[1].line)))
    <3> DEFINE n == Note(Unnamed, log[1].line, "skipped", "auto_retry_attempt_limit", nextAttempt(log, log[1].line))
    <3>1. log[1].line \in Lineages /\ nextAttempt(log, log[1].line) \in Nat /\ Unnamed \in Nat
      BY <2>2, NextAttemptType DEF Notes, Unnamed
    <3>2. "skipped" \in Outcomes /\ "auto_retry_attempt_limit" \in Reasons
      BY DEF Outcomes, Reasons
    <3>3. n \in Notes /\ n.id = Unnamed
      BY <3>1, <3>2, NoteType
    <3> HIDE DEF n
    <3>4. Calm([pc |-> "record", kind |-> proc[p].kind, note |-> n])
      BY <3>3, CalmStates
    <3>5. Set(p, [pc |-> "record", kind |-> proc[p].kind, note |-> n])
      BY <2>4 DEF Write, n
    <3> QED
      BY <3>4, <3>5
  <2> QED
    BY <1>2, <2>3, <2>4 DEF AutoRetry
<1> QED
  BY <1>1, <1>2

\* A process decides on a refreshed snapshot.
LEMMA DecideStep ==
    ASSUME AlertInv, NEW p \in Procs, Decide(p)
    PROVE  AlertInv'
<1> DEFINE s == refresh(snap)
<1>1. SnapOK(snap) /\ fresh \in Nat /\ proc[p] \in States
  BY DEF AlertInv, AlertTyped
<1>2. SnapOK(s) /\ Keeps(snap, s)
  BY <1>1, RefreshKeeps
<1>3. PICK cooling \in BOOLEAN :
        /\ proc[p].pc = "ready" /\ snap' = s /\ UNCHANGED <<fresh, ahist, left>>
        /\ CASE proc[p].kind = "dispatch" -> Dispatch(p, s, proc[p].line, proc[p].on, cooling)
             [] proc[p].kind = "retry" -> Retry(p, s.log, find(s.log, proc[p].id))
             [] proc[p].kind \in {"auto", "tick"} -> AutoRetry(p, s.log)
  BY DEF Decide
<1> HIDE DEF s
<1>4. s.log \in Seq(Notes)
  BY <1>2 DEF SnapOK, Snaps
<1>5. proc[p].kind \in Kinds
  BY <1>1, <1>3, StateCases
<1>6. \E x : Calm(x) /\ Set(p, x)
  <2>1. CASE proc[p].kind = "dispatch"
    <3>1. proc[p].line \in Lineages /\ proc[p].on \in BOOLEAN
      BY <1>1, <1>3, <2>1, StateCases
    <3>2. Dispatch(p, s, proc[p].line, proc[p].on, cooling)
      BY <1>3, <2>1
    <3> QED
      BY <1>2, <1>5, <3>1, <3>2, DispatchCalm
  <2>2. CASE proc[p].kind = "retry"
    <3>1. proc[p].id \in Nat /\ Knows(snap.log, proc[p].id)
      BY <1>1, <1>3, <2>2, StateCases DEF AlertInv, RetryKnown
    <3>2. Knows(s.log, proc[p].id)
      BY <1>2, <3>1 DEF Keeps, Settles
    <3>3. find(s.log, proc[p].id) \in Notes
      BY <1>4, <3>2, FindType
    <3>4. Retry(p, s.log, find(s.log, proc[p].id))
      BY <1>3, <2>2
    <3> QED
      BY <1>4, <1>5, <3>3, <3>4, RetryCalm
  <2>3. CASE proc[p].kind \in {"auto", "tick"}
    <3>1. AutoRetry(p, s.log)
      BY <1>3, <2>3
    <3> QED
      BY <1>4, <1>5, <3>1, AutoRetryCalm
  <2> QED
    BY <1>5, <2>1, <2>2, <2>3 DEF Kinds
<1>7. fresh' = fresh /\ ahist' = ahist /\ fresh' \in Nat /\ fresh <= fresh'
  BY <1>1, <1>3
<1> QED
  BY <1>2, <1>3, <1>6, <1>7, QuietSet

\* The snapshot is loaded; nothing is claimed yet.
LEMMA LoadStep ==
    ASSUME AlertInv, NEW p \in Procs, acquireSyncWorkerAlertDispatchFlight(p)
    PROVE  AlertInv'
<1>1. SnapOK(snap) /\ fresh \in Nat /\ proc[p] \in States
  BY DEF AlertInv, AlertTyped
<1>2. proc[p].kind \in Kinds /\ proc[p].note \in Notes /\ proc[p].got \in BOOLEAN
  BY <1>1, StateCases DEF acquireSyncWorkerAlertDispatchFlight
<1> DEFINE F == {f.note : f \in snap.flights}
           c == content(snap)
           got == proc[p].got \/ acquirable(snap, proc[p].note.line)
<1>3. c \in Contents
  <2>1. snap \in Snaps /\ snap.flights \in SUBSET Flights
    BY <1>1 DEF SnapOK, Snaps
  <2>2. F \in SUBSET Notes
    BY <2>1 DEF Flights
  <2>3. c = [snap EXCEPT !.flights = F]
    BY DEF content
  <2> HIDE DEF F, c
  <2> QED
    BY <2>1, <2>2, <2>3 DEF Snaps, Contents
<1>4. got \in BOOLEAN
  BY <1>2 DEF acquirable
<1>5. /\ Set(p, [pc |-> "swap", kind |-> proc[p].kind, note |-> proc[p].note, got |-> got, read |-> c])
      /\ snap' = snap /\ fresh' = fresh /\ ahist' = ahist
  BY DEF acquireSyncWorkerAlertDispatchFlight
<1> HIDE DEF c, got
<1>6. Calm([pc |-> "swap", kind |-> proc[p].kind, note |-> proc[p].note, got |-> got, read |-> c])
  BY <1>2, <1>3, <1>4, CalmStates
<1> QED
  BY <1>1, <1>5, <1>6, KeepsSelf, QuietSet

\* A claimed flight is the only one of its lineage, the call it is for has a name of its own, and a call
\* that begins without a flight is remembered.
LEMMA SwapStep ==
    ASSUME AlertInv, NEW p \in Procs, swapSyncWorkerAlertState(p)
    PROVE  AlertInv'
<1>1. /\ SnapOK(snap) /\ fresh \in Nat /\ fresh \in Nat \ {0} /\ proc \in [Procs -> States]
      /\ ahist \in [called : SUBSET Nat, bare : SUBSET Nat, late : SUBSET Nat] /\ proc[p] \in States
  BY DEF AlertInv, AlertTyped
<1>2. snap \in Snaps /\ snap.flights \in SUBSET Flights /\ IsFiniteSet(snap.flights)
  BY <1>1 DEF SnapOK, Snaps
<1>3. proc[p].pc = "swap" /\ proc[p].kind \in Kinds /\ proc[p].note \in Notes /\ proc[p].got \in BOOLEAN
  BY <1>1, StateCases DEF swapSyncWorkerAlertState
<1> DEFINE n == [proc[p].note EXCEPT !.id = fresh]
           g == [note |-> n, expired |-> FALSE]
           x == [pc |-> "call", kind |-> proc[p].kind, note |-> n]
           free == acquirable(snap, n.line)
           G == IF free THEN {g} ELSE {}
           B == IF free THEN ahist.bare ELSE ahist.bare \cup {fresh}
<1>4. n \in Notes /\ n.id = fresh
  BY <1>1, <1>3, NamedType
<1>5. \/ /\ \/ Set(p, Rest)
            \/ Set(p, [pc |-> "acquire", kind |-> proc[p].kind, note |-> proc[p].note, got |-> proc[p].got])
         /\ snap' = snap /\ fresh' = fresh /\ ahist' = ahist
      \/ /\ snap' = IF free THEN [snap EXCEPT !.flights = @ \cup {g}] ELSE snap
         /\ proc' = [proc EXCEPT ![p] = x]
         /\ fresh' = fresh + 1
         /\ ahist' = [ahist EXCEPT !.called = @ \cup {fresh}, !.bare = B]
  BY DEF swapSyncWorkerAlertState, Done, Set, acquire
<1> HIDE DEF n
<1>6. CASE /\ \/ Set(p, Rest)
              \/ Set(p, [pc |-> "acquire", kind |-> proc[p].kind, note |-> proc[p].note, got |-> proc[p].got])
           /\ snap' = snap /\ fresh' = fresh /\ ahist' = ahist
  <2>1. /\ Calm(Rest)
        /\ Calm([pc |-> "acquire", kind |-> proc[p].kind, note |-> proc[p].note, got |-> proc[p].got])
    BY <1>3, CalmStates
  <2> QED
    BY <1>1, <1>6, <2>1, KeepsSelf, QuietSet
<1>7. CASE /\ snap' = IF free THEN [snap EXCEPT !.flights = @ \cup {g}] ELSE snap
           /\ proc' = [proc EXCEPT ![p] = x]
           /\ fresh' = fresh + 1
           /\ ahist' = [ahist EXCEPT !.called = @ \cup {fresh}, !.bare = B]
  <2>1. x \in States /\ x.pc = "call" /\ x.note = n
    BY <1>3, <1>4 DEF States
  <2>2. g \in Flights /\ g.note = n /\ ~g.expired
    BY <1>4 DEF Flights
  <2>3. G \in SUBSET {g} /\ (G # {} => free) /\ (G = {} => fresh \in B) /\ B \in SUBSET Nat /\ ahist.bare \subseteq B
    BY <1>1
  <2>4. snap' \in Snaps /\ snap'.flights = snap.flights \cup G /\ snap'.log = snap.log
    <3>1. CASE free
      <4>1. snap' = [snap EXCEPT !.flights = @ \cup {g}] /\ G = {g}
        BY <1>7, <3>1
      <4> HIDE DEF g, G, free
      <4> QED
        BY <1>2, <2>2, <4>1 DEF Snaps
    <3>2. CASE ~free
      BY <1>2, <1>7, <3>2
    <3> QED
      BY <3>1, <3>2
  <2>5. \A f \in snap.flights : free => f.note.line # n.line
    BY DEF acquirable
  <2>6. /\ proc' \in [Procs -> States]
        /\ \A q \in Procs : proc'[q] = IF q = p THEN x ELSE proc[q]
    BY <1>1, <1>7, <2>1
  <2> HIDE DEF x, g, G, B, free
  <2>7. /\ ahist' \in [called : SUBSET Nat, bare : SUBSET Nat, late : SUBSET Nat]
        /\ ahist'.called = ahist.called \cup {fresh} /\ ahist'.bare = B /\ ahist'.late = ahist.late
    BY <1>1, <1>7, <2>3
  <2>8. IsFiniteSet(snap.flights \cup G)
    <3>1. CASE G = {}
      BY <1>2, <3>1
    <3>2. CASE G = {g}
      BY <1>2, <3>2, FS_AddElement
    <3> QED
      BY <2>3, <3>1, <3>2
  <2>9. AlertTyped'
    <3>1. SnapOK(snap')
      BY <2>4, <2>8 DEF SnapOK
    <3>2. fresh' \in Nat \ {0}
      BY <1>1, <1>7
    <3> QED
      BY <2>6, <2>7, <3>1, <3>2 DEF AlertTyped
  <2>10. EveryDispatchAccounted'
    <3>1. ASSUME NEW id \in (ahist.called \cup {fresh}) \ B
          PROVE  Knows(snap.log, id) \/ \E f \in snap.flights \cup G : f.note.id = id
      <4>1. CASE id = fresh
        BY <1>4, <2>2, <2>3, <4>1
      <4>2. CASE id \in ahist.called \ ahist.bare
        BY <4>2 DEF AlertInv, EveryDispatchAccounted
      <4> QED
        BY <2>3, <4>1, <4>2
    <3> QED
      BY <2>4, <2>7, <3>1 DEF EveryDispatchAccounted
  <2>11. RetryKnown'
    <3>1. ASSUME NEW q \in Procs, proc'[q].pc = "ready", proc'[q].kind = "retry" PROVE Knows(snap.log, proc'[q].id)
      BY <2>1, <2>6, <3>1 DEF AlertInv, RetryKnown
    <3> QED
      BY <2>4, <3>1 DEF RetryKnown
  <2>12. ASSUME NEW f \in snap.flights PROVE f.note.id < fresh /\ f.note.id \in Nat
    <3>1. f.note.id < fresh
      BY DEF AlertInv, FlightsApart
    <3>2. f.note.id \in Nat
      BY <1>2 DEF Flights, Notes
    <3> QED
      BY <3>1, <3>2
  <2>13. FlightsApart'
    <3>1. ASSUME NEW e \in snap.flights \cup G, NEW f \in snap.flights \cup G, e.note.line = f.note.line
          PROVE  e = f
      <4>1. CASE e \in snap.flights /\ f \in snap.flights
        BY <3>1, <4>1 DEF AlertInv, FlightsApart
      <4>2. CASE e \in G
        BY <2>2, <2>3, <2>5, <3>1, <4>2
      <4>3. CASE f \in G
        BY <2>2, <2>3, <2>5, <3>1, <4>3
      <4> QED
        BY <4>1, <4>2, <4>3
    <3>2. ASSUME NEW f \in snap.flights \cup G PROVE f.note.id < fresh + 1
      BY <1>1, <1>4, <2>2, <2>3, <2>12
    <3> QED
      BY <1>7, <2>4, <3>1, <3>2 DEF FlightsApart
  <2>14. ASSUME NEW q \in Procs, Flying(proc[q])
         PROVE  /\ proc[q].note.id < fresh /\ proc[q].note.id \in Nat
                /\ \A f \in snap.flights : f.note.id = proc[q].note.id => f.note.line = proc[q].note.line
    <3>1. proc[q].note \in Notes
      BY <1>1, <2>14, StateCases DEF Flying
    <3>2. proc[q].note.id \in Nat
      BY <3>1 DEF Notes
    <3> QED
      BY <2>14, <3>2 DEF AlertInv, CallsApart
  <2>15. ASSUME NEW q \in Procs, q # p, Flying(proc'[q]) PROVE proc'[q] = proc[q] /\ Flying(proc[q])
    BY <2>6, <2>15
  <2>16. CallsApart'
    <3>1. ASSUME NEW q \in Procs, Flying(proc'[q])
          PROVE  /\ proc'[q].note.id < fresh + 1
                 /\ \A f \in snap.flights \cup G : f.note.id = proc'[q].note.id => f.note.line = proc'[q].note.line
      <4>1. CASE q = p
        <5>1. proc'[q].note = n
          BY <2>1, <2>6, <4>1
        <5>2. fresh < fresh + 1
          BY <1>1
        <5>3. ASSUME NEW f \in snap.flights \cup G, f.note.id = n.id PROVE f.note.line = n.line
          <6>1. CASE f \in G
            BY <2>2, <2>3, <6>1
          <6>2. CASE f \in snap.flights
            BY <1>1, <1>4, <2>12, <5>3, <6>2
          <6> QED
            BY <6>1, <6>2
        <5> QED
          BY <1>4, <5>1, <5>2, <5>3
      <4>2. CASE q # p
        <5>1. proc'[q] = proc[q] /\ Flying(proc[q])
          BY <2>15, <3>1, <4>2
        <5>2. /\ proc[q].note.id < fresh /\ proc[q].note.id \in Nat
              /\ \A f \in snap.flights : f.note.id = proc[q].note.id => f.note.line = proc[q].note.line
          BY <2>14, <5>1
        <5>3. \A f \in G : f.note.id # proc[q].note.id
          BY <1>1, <1>4, <2>2, <2>3, <5>2
        <5>4. proc[q].note.id < fresh + 1
          BY <1>1, <5>2
        <5> QED
          BY <5>1, <5>2, <5>3, <5>4
      <4> QED
        BY <4>1, <4>2
    <3>2. ASSUME NEW q \in Procs, NEW r \in Procs, q # r, Flying(proc'[q]), Flying(proc'[r])
          PROVE  proc'[q].note.id # proc'[r].note.id
      <4>1. CASE q # p /\ r # p
        BY <2>15, <3>2, <4>1 DEF AlertInv, CallsApart
      <4>2. CASE q = p
        <5>1. proc'[q].note.id = fresh /\ proc'[r] = proc[r] /\ Flying(proc[r])
          BY <1>4, <2>1, <2>6, <2>15, <3>2, <4>2
        <5> QED
          BY <1>1, <2>14, <5>1
      <4>3. CASE r = p
        <5>1. proc'[r].note.id = fresh /\ proc'[q] = proc[q] /\ Flying(proc[q])
          BY <1>4, <2>1, <2>6, <2>15, <3>2, <4>3
        <5> QED
          BY <1>1, <2>14, <5>1
      <4> QED
        BY <4>1, <4>2, <4>3
    <3>3. ASSUME NEW q \in Procs, proc'[q].pc = "call" PROVE Flying(proc'[q])
      <4>1. CASE q = p
        <5>1. fresh # Unnamed
          BY <1>1 DEF Unnamed
        <5> QED
          BY <1>4, <2>1, <2>6, <4>1, <5>1 DEF Flying
      <4>2. CASE q # p
        BY <2>6, <3>3, <4>2 DEF AlertInv, CallsApart
      <4> QED
        BY <4>1, <4>2
    <3> QED
      BY <1>7, <2>4, <3>1, <3>2, <3>3 DEF CallsApart
  <2>17. CallsCarried'
    <3>1. ASSUME NEW f \in snap.flights \cup G, f.expired PROVE f.note.id \in ahist.late
      BY <2>2, <2>3, <3>1 DEF AlertInv, CallsCarried
    <3>2. ASSUME NEW q \in Procs, proc'[q].pc = "call", proc'[q].note.id \notin ahist.late \cup B
          PROVE  \E f \in snap.flights \cup G : f.note.id = proc'[q].note.id
      <4>1. CASE q = p
        <5>1. proc'[q].note.id = fresh
          BY <1>4, <2>1, <2>6, <4>1
        <5>2. g \in G
          BY <2>3, <3>2, <5>1
        <5> QED
          BY <1>4, <2>2, <5>1, <5>2
      <4>2. CASE q # p
        <5>1. proc'[q] = proc[q] /\ proc[q].note.id \notin ahist.late \cup ahist.bare
          BY <2>3, <2>6, <3>2, <4>2
        <5> QED
          BY <3>2, <5>1 DEF AlertInv, CallsCarried, Carried
      <4> QED
        BY <4>1, <4>2
    <3> QED
      BY <2>4, <2>7, <3>1, <3>2 DEF CallsCarried, Carried
  <2> QED
    BY <2>9, <2>10, <2>11, <2>13, <2>16, <2>17 DEF AlertInv
<1> QED
  BY <1>5, <1>6, <1>7

\* A flight that is released leaves its notification in the log.
LEMMA FinalizeKeeps ==
    ASSUME NEW s, SnapOK(s), NEW n \in Notes
    PROVE  /\ SnapOK(finalize(s, n)) /\ Settles(s, finalize(s, n))
           /\ \A f \in s.flights : f.note.id # n.id => f \in finalize(s, n).flights
<1> DEFINE F == {f \in s.flights : f.note.id # n.id}
           cool == s.cool \/ n.st = "sent"
           t == [s EXCEPT !.flights = F, !.log = <<n>> \o @, !.cool = cool]
<1>1. s \in Snaps /\ s.log \in Seq(Notes) /\ s.flights \in SUBSET Flights /\ IsFiniteSet(s.flights) /\ s.cool \in BOOLEAN
  BY DEF SnapOK, Snaps
<1>2. /\ <<n>> \o s.log \in Seq(Notes) /\ Knows(<<n>> \o s.log, n.id)
      /\ \A id \in Nat : Knows(s.log, id) => Knows(<<n>> \o s.log, id)
  BY <1>1, PrependOne
<1>3. finalize(s, n) = t
  BY DEF finalize
<1>4. F \in SUBSET s.flights /\ cool \in BOOLEAN
  BY <1>1
<1>5. \A f \in s.flights : f \in F \/ f.note.id = n.id
  OBVIOUS
<1> HIDE DEF F, cool
<1>6. t \in Snaps /\ t.log = <<n>> \o s.log /\ t.flights = F
  BY <1>1, <1>2, <1>4 DEF Snaps
<1> HIDE DEF t
<1>7. SnapOK(t)
  BY <1>1, <1>4, <1>6, FS_Subset DEF SnapOK
<1>8. Settles(s, t)
  <2>1. ASSUME NEW id \in Nat, Carried(s, id) PROVE Knows(t.log, id) \/ Carried(t, id)
    BY <1>2, <1>5, <1>6, <2>1 DEF Carried
  <2> QED
    BY <1>2, <1>4, <1>6, <2>1 DEF Settles
<1> QED
  BY <1>3, <1>5, <1>6, <1>7, <1>8

\* The other steps of a process at work.
LEMMA WorkStep ==
    ASSUME AlertInv, NEW p \in Procs,
           \/ DispatchAlert(p) \/ finalizeSyncWorkerAlertDispatchFlights(p) \/ SaveFails(p) \/ Stop(p)
           \/ runEnterpriseSyncWorkerAlertAutoRetryWorkerTickWithLease(p)
    PROVE  AlertInv'
<1>1. SnapOK(snap) /\ fresh \in Nat /\ proc[p] \in States /\ proc \in [Procs -> States]
  BY DEF AlertInv, AlertTyped
<1>2. Calm(Rest) /\ Keeps(snap, snap) /\ fresh <= fresh
  BY <1>1, CalmStates, KeepsSelf
<1>3. CASE DispatchAlert(p)
  <2>1. PICK results :
          /\ proc[p].pc = "call" /\ snap' = snap /\ fresh' = fresh /\ ahist' = ahist
          /\ Set(p, [pc |-> "record", kind |-> proc[p].kind,
                     note |-> summarizeJobAlertChannelResults(proc[p].note, results)])
    BY <1>3 DEF DispatchAlert
  <2>2. proc[p].kind \in Kinds /\ proc[p].note \in Notes
    BY <1>1, <2>1, StateCases
  <2> DEFINE n == summarizeJobAlertChannelResults(proc[p].note, results)
             y == [pc |-> "record", kind |-> proc[p].kind, note |-> n]
  <2>3. n \in Notes /\ n.id = proc[p].note.id /\ n.line = proc[p].note.line
    BY <2>2, SummaryType
  <2> HIDE DEF n
  <2>4. y \in States /\ Answers(proc[p], y)
    BY <2>1, <2>2, <2>3 DEF States, Answers
  <2>5. proc' = [proc EXCEPT ![p] = y]
    BY <2>1 DEF n, Set
  <2> HIDE DEF y
  <2>6. proc' \in [Procs -> States] /\ \A q \in Procs : proc'[q] = IF q = p THEN y ELSE proc[q]
    BY <1>1, <2>4, <2>5
  <2>7. \A q \in Procs : proc'[q] = proc[q] \/ Calm(proc'[q]) \/ Answers(proc[q], proc'[q])
    BY <2>4, <2>6
  <2>8. /\ SnapOK(snap') /\ Settles(snap, snap') /\ fresh' \in Nat /\ fresh <= fresh' /\ ahist' = ahist
        /\ \A f \in snap.flights : f \in snap'.flights
    BY <1>1, <1>2, <2>1 DEF Keeps
  <2> QED
    BY <2>6, <2>7, <2>8, QuietStep
<1>4. CASE finalizeSyncWorkerAlertDispatchFlights(p)
  <2> DEFINE n == proc[p].note
             m == IF n.id = Unnamed THEN [n EXCEPT !.id = fresh] ELSE n
  <2>1. proc[p].pc = "record" /\ proc' = [proc EXCEPT ![p] = Rest] /\ ahist' = ahist
    BY <1>4 DEF finalizeSyncWorkerAlertDispatchFlights, Done, Set
  <2>2. n \in Notes
    BY <1>1, <2>1, StateCases
  <2>3. /\ snap' = finalize(snap, m)
        /\ fresh' = IF n.id = Unnamed THEN fresh + 1 ELSE fresh
    BY <1>4 DEF finalizeSyncWorkerAlertDispatchFlights
  <2>4. [n EXCEPT !.id = fresh] \in Notes /\ [n EXCEPT !.id = fresh].id = fresh
    BY <1>1, <2>2, NamedType
  <2>5. m \in Notes /\ (n.id = Unnamed => m.id = fresh) /\ (n.id # Unnamed => m.id = n.id)
    BY <2>2, <2>4
  <2> HIDE DEF m
  <2>6. /\ SnapOK(snap') /\ Settles(snap, snap')
        /\ \A f \in snap.flights : f.note.id # m.id => f \in snap'.flights
    BY <1>1, <2>3, <2>5, FinalizeKeeps
  <2>7. fresh' \in Nat /\ fresh <= fresh'
    BY <1>1, <2>3
  <2>8. Rest \in States
    BY DEF States
  <2>9. proc' \in [Procs -> States] /\ \A q \in Procs : proc'[q] = IF q = p THEN Rest ELSE proc[q]
    BY <1>1, <2>1, <2>8
  <2>10. \A q \in Procs : proc'[q] = proc[q] \/ Calm(proc'[q])
    BY <1>2, <2>9
  <2>11. ASSUME NEW f \in snap.flights, NEW q \in Procs, proc'[q].pc = "call", proc'[q].note.id = f.note.id
         PROVE  f \in snap'.flights
    <3>1. q # p
      BY <2>9, <2>11 DEF Rest
    <3>2. proc'[q] = proc[q]
      BY <2>9, <3>1
    <3>3. Flying(proc[q]) /\ proc[q].note.id < fresh /\ proc[q].note.id = f.note.id
      BY <2>11, <3>2 DEF AlertInv, CallsApart
    <3>4. proc[q].note.id \in Nat
      <4>1. proc[q].note \in Notes
        BY <1>1, <3>3, StateCases DEF Flying
      <4> QED
        BY <4>1 DEF Notes
    <3>5. CASE n.id = Unnamed
      <4>1. f.note.id # m.id
        BY <1>1, <2>5, <3>3, <3>4, <3>5
      <4> QED
        BY <2>6, <4>1
    <3>6. CASE n.id # Unnamed
      <4>1. Flying(proc[p])
        BY <2>1, <3>6 DEF Flying
      <4>2. f.note.id # m.id
        BY <2>5, <3>1, <3>3, <3>6, <4>1 DEF AlertInv, CallsApart
      <4> QED
        BY <2>6, <4>2
    <3> QED
      BY <3>5, <3>6
  <2> QED
    BY <2>1, <2>6, <2>7, <2>9, <2>10, <2>11, QuietStep
<1>5. CASE SaveFails(p) \/ Stop(p)
  <2>1. Set(p, Rest) /\ snap' = snap /\ fresh' = fresh /\ ahist' = ahist
    BY <1>5 DEF SaveFails, Stop, Done
  <2> QED
    BY <1>1, <1>2, <2>1, QuietSet
<1>6. CASE runEnterpriseSyncWorkerAlertAutoRetryWorkerTickWithLease(p)
  <2>1. /\ snap' = refresh(snap) /\ fresh' = fresh /\ ahist' = ahist
        /\ Set(p, [pc |-> "ready", kind |-> "tick"]) \/ proc' = proc
    BY <1>6 DEF runEnterpriseSyncWorkerAlertAutoRetryWorkerTickWithLease
  <2>2. SnapOK(snap') /\ Keeps(snap, snap')
    BY <1>1, <2>1, RefreshKeeps
  <2>3. CASE Set(p, [pc |-> "ready", kind |-> "tick"])
    <3>1. Calm([pc |-> "ready", kind |-> "tick"])
      BY CalmStates
    <3> QED
      BY <1>1, <1>2, <2>1, <2>2, <2>3, <3>1, QuietSet
  <2>4. CASE proc' = proc
    BY <1>1, <1>2, <2>1, <2>2, <2>4, QuietStep DEF Keeps
  <2> QED
    BY <2>1, <2>3, <2>4
<1> QED
  BY <1>3, <1>4, <1>5, <1>6

\* A flight that expires keeps its place, its name and its lineage.
LEMMA ExpireStep ==
    ASSUME AlertInv, FlightExpires
    PROVE  AlertInv'
<1>1. PICK f \in snap.flights :
        /\ snap' = [snap EXCEPT !.flights = (@ \ {f}) \cup {[f EXCEPT !.expired = TRUE]}]
        /\ proc' = proc /\ fresh' = fresh /\ ahist' = [ahist EXCEPT !.late = @ \cup {f.note.id}]
  BY DEF FlightExpires
<1> DEFINE g == [f EXCEPT !.expired = TRUE]
           F == (snap.flights \ {f}) \cup {g}
<1>2. AlertTyped /\ SnapOK(snap) /\ snap \in Snaps /\ snap.flights \in SUBSET Flights /\ IsFiniteSet(snap.flights)
  BY DEF AlertInv, AlertTyped, SnapOK, Snaps
<1>3. g \in Flights /\ g.note = f.note /\ f.note.id \in Nat
  <2>1. f \in Flights
    BY <1>2
  <2> QED
    BY <2>1 DEF Flights, Notes
<1> HIDE DEF g
<1>13. /\ ahist' \in [called : SUBSET Nat, bare : SUBSET Nat, late : SUBSET Nat]
       /\ ahist'.called = ahist.called /\ ahist'.bare = ahist.bare /\ ahist'.late = ahist.late \cup {f.note.id}
  BY <1>1, <1>2, <1>3 DEF AlertTyped
<1>4. F \in SUBSET Flights /\ IsFiniteSet(F)
  <2>1. IsFiniteSet(snap.flights \ {f})
    BY <1>2, FS_RemoveElement
  <2> QED
    BY <1>2, <1>3, <2>1, FS_AddElement
<1>5. ASSUME NEW e \in F PROVE \E h \in snap.flights : h.note = e.note
  BY <1>3
<1>6. ASSUME NEW h \in snap.flights PROVE \E e \in F : h.note = e.note
  BY <1>3
<1>7. snap' \in Snaps /\ snap'.flights = F /\ snap'.log = snap.log
  <2>1. snap' = [snap EXCEPT !.flights = F]
    BY <1>1 DEF F, g
  <2> HIDE DEF F
  <2> QED
    BY <1>2, <1>4, <2>1 DEF Snaps
<1>8. AlertTyped'
  BY <1>1, <1>2, <1>4, <1>7, <1>13 DEF AlertTyped, SnapOK
<1>9. FlightsApart'
  <2>1. ASSUME NEW d \in F, NEW e \in F, d.note.line = e.note.line PROVE d = e
    BY <1>3, <2>1 DEF AlertInv, FlightsApart
  <2>2. ASSUME NEW e \in F PROVE e.note.id < fresh
    BY <1>5 DEF AlertInv, FlightsApart
  <2> QED
    BY <1>1, <1>7, <2>1, <2>2 DEF FlightsApart
<1> HIDE DEF F
<1>10. EveryDispatchAccounted'
  <2>1. ASSUME NEW id \in ahist.called \ ahist.bare PROVE Knows(snap.log, id) \/ \E e \in F : e.note.id = id
    BY <1>6 DEF AlertInv, EveryDispatchAccounted
  <2> QED
    BY <1>7, <1>13, <2>1 DEF EveryDispatchAccounted
<1>11. RetryKnown'
  BY <1>1, <1>7 DEF AlertInv, RetryKnown
<1>12. CallsApart'
  <2>1. ASSUME NEW p \in Procs, Flying(proc[p]), NEW e \in F, e.note.id = proc[p].note.id
        PROVE  e.note.line = proc[p].note.line
    BY <1>5, <2>1 DEF AlertInv, CallsApart
  <2> QED
    BY <1>1, <1>7, <2>1 DEF AlertInv, CallsApart
<1>14. CallsCarried'
  <2>1. ASSUME NEW e \in F, e.expired PROVE e.note.id \in ahist.late \cup {f.note.id}
    BY <1>3, <2>1 DEF AlertInv, CallsCarried, F
  <2>2. ASSUME NEW p \in Procs, proc[p].pc = "call", proc[p].note.id \notin ahist.late \cup ahist.bare
        PROVE  \E e \in F : e.note.id = proc[p].note.id
    BY <1>6, <2>2 DEF AlertInv, CallsCarried, Carried
  <2> QED
    BY <1>1, <1>7, <1>13, <2>1, <2>2 DEF CallsCarried, Carried
<1> QED
  BY <1>8, <1>9, <1>10, <1>11, <1>12, <1>14 DEF AlertInv

\* The invariant is inductive.
LEMMA AlertInvHolds == AlertsSpec => []AlertInv
<1>1. AlertsInit => AlertInv
  <2>1. SUFFICES ASSUME AlertsInit PROVE AlertInv
    OBVIOUS
  <2>2. /\ snap = [log |-> <<>>, flights |-> {}, cool |-> FALSE, on |-> TRUE]
        /\ proc = [p \in Procs |-> Rest] /\ fresh = 1 /\ ahist = [called |-> {}, bare |-> {}, late |-> {}]
    BY <2>1 DEF AlertsInit
  <2>3. SnapOK(snap) /\ snap.flights = {}
    <3>1. <<>> \in Seq(Notes)
      OBVIOUS
    <3>2. snap \in Snaps /\ snap.flights = {}
      BY <2>2, <3>1 DEF Snaps
    <3> QED
      BY <3>2, FS_EmptySet DEF SnapOK
  <2>4. \A p \in Procs : proc[p].pc = "idle"
    BY <2>2 DEF Rest
  <2>5. AlertTyped
    <3>1. proc \in [Procs -> States]
      BY <2>2 DEF States
    <3> QED
      BY <2>2, <2>3, <3>1 DEF AlertTyped
  <2>6. EveryDispatchAccounted
    BY <2>2 DEF EveryDispatchAccounted
  <2>7. RetryKnown /\ FlightsApart /\ CallsApart /\ CallsCarried
    BY <2>3, <2>4 DEF RetryKnown, FlightsApart, CallsApart, CallsCarried, Flying
  <2> QED
    BY <2>5, <2>6, <2>7 DEF AlertInv
<1>2. AlertInv /\ [AlertsNext]_alertVars => AlertInv'
  <2>1. SUFFICES ASSUME AlertInv, [AlertsNext]_alertVars PROVE AlertInv'
    OBVIOUS
  <2>2. SnapOK(snap) /\ fresh \in Nat /\ fresh <= fresh /\ proc \in [Procs -> States]
    BY <2>1 DEF AlertInv, AlertTyped
  <2>3. ASSUME NEW p \in Procs, Requests(p) PROVE AlertInv'
    BY <2>1, <2>3, RequestStep
  <2>4. ASSUME NEW p \in Procs, Steps(p) PROVE AlertInv'
    BY <2>1, <2>4, DecideStep, LoadStep, SwapStep, WorkStep DEF Steps
  <2>5. ASSUME NEW p \in Procs,
               SaveFails(p) \/ Stop(p) \/ runEnterpriseSyncWorkerAlertAutoRetryWorkerTickWithLease(p)
        PROVE  AlertInv'
    BY <2>1, <2>5, WorkStep
  <2>6. CASE FlightExpires
    BY <2>1, <2>6, ExpireStep
  <2>7. CASE LeaseExpires \/ UNCHANGED alertVars
    <3>1. snap' = snap /\ proc' = proc /\ fresh' = fresh /\ ahist' = ahist
      BY <2>7 DEF LeaseExpires, alertVars
    <3> QED
      BY <2>1, <2>2, <3>1, KeepsSelf, QuietStep DEF Keeps
  <2> QED
    BY <2>1, <2>3, <2>4, <2>5, <2>6, <2>7 DEF AlertsNext
<1> QED
  BY <1>1, <1>2, PTL DEF AlertsSpec

\* No call of a provider that began with a flight is mislaid: it is in the log or in a flight that will be
\* recovered into it.
THEOREM DispatchesAccounted == AlertsSpec => []EveryDispatchAccounted
<1>1. AlertInv => EveryDispatchAccounted
  BY DEF AlertInv
<1> QED
  BY <1>1, AlertInvHolds, PTL

\* No two processes call the provider for the same lineage, unless the flight of one has expired or one
\* began its call without a flight, after it lost a swap.
THEOREM OneCallAtATime == AlertsSpec => []OneCallPerLineage
<1>1. AlertInv => OneCallPerLineage
  <2>1. SUFFICES ASSUME AlertInv, NEW p \in Procs, NEW q \in Procs, p # q, proc[p].pc = "call", proc[q].pc = "call",
                        proc[p].note.line = proc[q].note.line,
                        proc[p].note.id \notin ahist.late \cup ahist.bare, proc[q].note.id \notin ahist.late \cup ahist.bare
                 PROVE  FALSE
    BY DEF OneCallPerLineage
  <2>2. PICK f \in snap.flights : f.note.id = proc[p].note.id
    BY <2>1 DEF AlertInv, CallsCarried, Carried
  <2>3. PICK g \in snap.flights : g.note.id = proc[q].note.id
    BY <2>1 DEF AlertInv, CallsCarried, Carried
  <2>4. Flying(proc[p]) /\ Flying(proc[q])
    BY <2>1 DEF AlertInv, CallsApart
  <2>5. f.note.line = g.note.line
    BY <2>1, <2>2, <2>3, <2>4 DEF AlertInv, CallsApart
  <2>6. f = g
    BY <2>1, <2>5 DEF AlertInv, FlightsApart
  <2> QED
    BY <2>1, <2>2, <2>3, <2>4, <2>6 DEF AlertInv, CallsApart
<1> QED
  BY <1>1, AlertInvHolds, PTL

-----------------------------------------------------------------------------
(* Logins: the invariant.  What the directory's rows are does not matter   *)
(* to it, so they are left untyped.                                        *)

Ids == [email : Emails, ext : Exts \cup {NoExt}, act : BOOLEAN]
Approvals == [email : Emails, ext : Exts \cup {NoExt}, st : {"pending", "approved", "rejected"},
              sync : {"none", "pending", "synced", "failed"}, tries : Nat]

\* A core state, with approvals that are on record where they were given.
IsCore(c) == c = [dom |-> c.dom, idp |-> c.idp, emps |-> c.emps, recs |-> c.recs, apprs |-> c.apprs]
Given(apprs, approved) ==
    \A i \in DOMAIN apprs : apprs[i].st = "approved" => [email |-> apprs[i].email, ext |-> apprs[i].ext] \in approved
CoreOK(c, approved) == IsCore(c) /\ c.apprs \in Seq(Approvals) /\ Given(c.apprs, approved)

IsHist(h) == h = [order |-> h.order, answered |-> h.answered, out |-> h.out, approved |-> h.approved, made |-> h.made]

\* A login under way.  Once it has provisioned, its subject is what the directory says.
Checking == {"begin", "approve", "unapproved", "provision", "inactive"}
Admitted == {"probe", "trusted"}
IsLogin(x) ==
    /\ x.pc \in Checking \cup Admitted
    /\ x = [pc |-> x.pc, id |-> x.id, jit |-> x.jit, raced |-> x.raced, known |-> x.known]
    /\ x.id = [email |-> x.id.email, ext |-> x.id.ext, act |-> x.id.act]
    /\ x.pc \in Checking => x.id \in Ids

\* An admitted login of somebody who was deprovisioned since is known to have raced.
Marked(x, out) == x.pc \in Admitted /\ x.id.email \in out => x.raced

\* A login that is about to provision was approved, or found in the directory.
Cleared(x, approved) ==
    ApprovalRequired /\ x.pc = "provision" =>
        x.known \/ \E a \in approved : a.email = x.id.email /\ MaySubject(a, x.id)

LoginOK(x, out, approved) == x = NoLogin \/ (IsLogin(x) /\ Marked(x, out) /\ Cleared(x, approved))

LoginInv ==
    /\ IsHist(dhist)
    /\ CoreOK(core, dhist.approved)
    /\ CoreOK(stored, dhist.approved)
    /\ slot = [l \in Slots |-> slot[l]]
    /\ \A l \in Slots : LoginOK(slot[l], dhist.out, dhist.approved)
    /\ DeprovisionHolds
    /\ ProvisionedWasApproved

\* More approvals on record leave everything as good as it was.
LEMMA MoreApproved ==
    ASSUME NEW A, NEW B, A \subseteq B
    PROVE  /\ \A c : CoreOK(c, A) => CoreOK(c, B)
           /\ \A x, out : LoginOK(x, out, A) => LoginOK(x, out, B)
<1>1. ASSUME NEW c, CoreOK(c, A) PROVE CoreOK(c, B)
  BY <1>1 DEF CoreOK, Given
<1>2. ASSUME NEW x, NEW out, LoginOK(x, out, A) PROVE LoginOK(x, out, B)
  BY <1>2 DEF LoginOK, Cleared
<1> QED
  BY <1>1, <1>2

\* A save changes what the core state is, or leaves the saved one as it was.
LEMMA Persisted ==
    ASSUME NEW c, NEW ok \in BOOLEAN, NEW A, persistLocked(c, ok), CoreOK(c, A), CoreOK(stored, A)
    PROVE  CoreOK(core', A) /\ CoreOK(stored', A)
<1>1. core' = c /\ (stored' = c \/ stored' = stored)
  BY DEF persistLocked
<1> QED
  BY <1>1

\* What changes in a core state besides the approvals does not matter.
LEMMA OtherFields ==
    ASSUME NEW c, NEW A, CoreOK(c, A), NEW v
    PROVE  /\ CoreOK([c EXCEPT !.dom = v], A)
           /\ CoreOK([c EXCEPT !.idp = v], A)
           /\ CoreOK([c EXCEPT !.emps = v], A)
           /\ CoreOK([c EXCEPT !.recs = v], A)
<1>1. IsCore(c)
  BY DEF CoreOK
<1>2. \A d \in {[c EXCEPT !.dom = v], [c EXCEPT !.idp = v], [c EXCEPT !.emps = v], [c EXCEPT !.recs = v]} :
        IsCore(d) /\ d.apprs = c.apprs
  BY <1>1 DEF IsCore
<1> QED
  BY <1>2 DEF CoreOK

\* A step of the directory: the logins and the approvals are as they were.
LEMMA DirStep ==
    ASSUME LoginInv, slot' = slot, sessions' = sessions,
           CoreOK(core', dhist.approved), CoreOK(stored', dhist.approved), IsHist(dhist'), dhist'.out = dhist.out, dhist'.approved = dhist.approved, dhist'.made = dhist.made
    PROVE  LoginInv'
<1>1. slot' = [l \in Slots |-> slot'[l]] /\ \A l \in Slots : LoginOK(slot'[l], dhist'.out, dhist'.approved)
  BY DEF LoginInv
<1>2. DeprovisionHolds' /\ ProvisionedWasApproved'
  BY DEF LoginInv, DeprovisionHolds, ProvisionedWasApproved
<1> QED
  BY <1>1, <1>2 DEF LoginInv

\* What a synchronisation remembers of itself does not matter to a login.
LEMMA OtherHistory ==
    ASSUME NEW h, IsHist(h), NEW v
    PROVE  /\ \A d \in {h, [h EXCEPT !.order = v], [h EXCEPT !.answered = v]} :
                 IsHist(d) /\ d.out = h.out /\ d.approved = h.approved /\ d.made = h.made
BY DEF IsHist

\* Every operation of the directory.
LEMMA DirNextStep ==
    ASSUME LoginInv, DirNext, UNCHANGED loginVars
    PROVE  LoginInv'
<1> DEFINE A == dhist.approved
           Fine == IsHist(dhist') /\ dhist'.out = dhist.out /\ dhist'.approved = dhist.approved /\ dhist'.made = dhist.made
<1>1. IsHist(dhist) /\ CoreOK(core, A) /\ CoreOK(stored, A)
  BY DEF LoginInv
<1>2. ASSUME CoreOK(core', A), CoreOK(stored', A), Fine PROVE LoginInv'
  <2>1. slot' = slot /\ sessions' = sessions
    BY DEF loginVars
  <2> QED
    BY <1>2, <2>1, DirStep
<1>3. ASSUME dhist' = dhist PROVE Fine
  BY <1>1, <1>3
<1>4. ASSUME UNCHANGED <<core, stored, dhist>> PROVE LoginInv'
  <2>1. core' = core /\ stored' = stored /\ dhist' = dhist
    BY <1>4
  <2> QED
    BY <1>1, <1>2, <1>3, <2>1
<1>5. ASSUME NEW req, Answer(req) PROVE Fine
  <2>1. dhist' = dhist \/ dhist' = [dhist EXCEPT !.answered = @ \cup {req}]
    BY <1>5 DEF Answer
  <2>2. CASE dhist' = dhist
    BY <1>3, <2>2
  <2>3. CASE dhist' = [dhist EXCEPT !.answered = dhist.answered \cup {req}]
    BY <1>1, <2>3, OtherHistory
  <2> QED
    BY <2>1, <2>2, <2>3
<1> HIDE DEF A, Fine
<1>6. CASE createEnterpriseDomainMapping \/ updateEnterpriseDomainMappingStatus
  <2>1. PICK st \in {"active", "inactive"}, ok \in BOOLEAN : persistLocked([core EXCEPT !.dom = st], ok) /\ dhist' = dhist
    BY <1>6 DEF createEnterpriseDomainMapping, updateEnterpriseDomainMappingStatus, CreateDomainMapping,
                UpdateDomainMappingStatus
  <2>2. CoreOK([core EXCEPT !.dom = st], A)
    BY <1>1, OtherFields
  <2> QED
    BY <1>1, <1>2, <1>3, <2>1, <2>2, Persisted
<1>7. CASE upsertEnterpriseIDPConfig
  <2>1. PICK provider \in {"oidc", "saml"}, on \in BOOLEAN, jit \in BOOLEAN, ok \in BOOLEAN :
          persistLocked([core EXCEPT !.idp = [provider |-> provider, on |-> on, jit |-> jit]], ok) /\ dhist' = dhist
    BY <1>7 DEF upsertEnterpriseIDPConfig, UpsertIDPConfig
  <2> DEFINE config == [provider |-> provider, on |-> on, jit |-> jit]
  <2> HIDE DEF config
  <2>2. CoreOK([core EXCEPT !.idp = config], A)
    BY <1>1, OtherFields
  <2>3. persistLocked([core EXCEPT !.idp = config], ok)
    BY <2>1 DEF config
  <2> QED
    BY <1>1, <1>2, <1>3, <2>1, <2>2, <2>3, Persisted
<1>8. ASSUME NEW req, syncEnterpriseEmployees(req) PROVE LoginInv'
  <2>1. PICK batch \in Batches, ok \in BOOLEAN : SyncEmployeesWithAccessUpsert(req, batch, ok)
    BY <1>8 DEF syncEnterpriseEmployees
  <2>2. CASE knows(req)
    <3>1. UNCHANGED <<core, stored, dhist>>
      BY <2>1, <2>2 DEF SyncEmployeesWithAccessUpsert
    <3> QED
      BY <1>4, <3>1
  <2>3. CASE ~knows(req)
    <3>1. PICK emps, recs :
            /\ persistLocked([core EXCEPT !.emps = emps, !.recs = recs], ok)
            /\ dhist' = [dhist EXCEPT !.order = Executed(req)]
      BY <2>1, <2>3 DEF SyncEmployeesWithAccessUpsert
    <3> DEFINE c == [core EXCEPT !.emps = emps]
    <3>2. CoreOK(c, A)
      BY <1>1, OtherFields
    <3>3. [core EXCEPT !.emps = emps, !.recs = recs] = [c EXCEPT !.recs = recs]
      BY DEF c
    <3> HIDE DEF c
    <3>4. CoreOK([c EXCEPT !.recs = recs], A)
      BY <3>2, OtherFields
    <3>5. CoreOK(core', A) /\ CoreOK(stored', A)
      BY <1>1, <3>1, <3>3, <3>4, Persisted
    <3>6. Fine
      BY <1>1, <3>1, OtherHistory DEF Fine
    <3> QED
      BY <1>2, <3>5, <3>6
  <2> QED
    BY <2>2, <2>3
<1>9. CASE \/ reconcileEnterpriseEmployeeSync \/ reconcilePendingEnterpriseSyncRequests
           \/ runEnterpriseSyncReconcileWorkerTick
  <2>1. UNCHANGED <<core, stored, dhist>>
    BY <1>9 DEF reconcileEnterpriseEmployeeSync, reconcilePendingEnterpriseSyncRequests,
                runEnterpriseSyncReconcileWorkerTick, ReconcilePending
  <2> QED
    BY <1>4, <2>1
<1>10. CASE applyAccessForSyncRecordLocked
  <2>1. PICK req \in job.todo, takes \in BOOLEAN, saves \in BOOLEAN :
          \/ UNCHANGED <<core, stored, dhist>>
          \/ UNCHANGED <<core, stored>> /\ Answer(req)
          \/ /\ persistLocked([core EXCEPT !.recs[req].applied = takes, !.recs[req].attempts = @ + 1], saves)
             /\ Answer(req) \/ UNCHANGED dhist
    <3>1. PICK req \in job.todo, takes \in BOOLEAN, saves \in BOOLEAN :
            IF req # NoRequest /\ (IF req = NoRequest THEN Record(<<>>) ELSE core.recs[req]).applied
            THEN UNCHANGED <<core, stored>> /\ Answer(req)
            ELSE IF req = NoRequest
                 THEN UNCHANGED <<core, stored, dhist>>
                 ELSE /\ persistLocked([core EXCEPT !.recs[req].applied = takes, !.recs[req].attempts = @ + 1], saves)
                      /\ IF takes THEN Answer(req) ELSE UNCHANGED dhist
      BY <1>10, Zenon DEF applyAccessForSyncRecordLocked
    <3> QED
      BY <3>1, Zenon
  <2>2. CASE UNCHANGED <<core, stored, dhist>>
    BY <1>4, <2>2
  <2>3. CASE UNCHANGED <<core, stored>> /\ Answer(req)
    <3>1. core' = core /\ stored' = stored
      BY <2>3
    <3> QED
      BY <1>1, <1>2, <1>5, <2>3, <3>1
  <2>4. CASE /\ persistLocked([core EXCEPT !.recs[req].applied = takes, !.recs[req].attempts = @ + 1], saves)
             /\ Answer(req) \/ UNCHANGED dhist
    <3> DEFINE c == [core EXCEPT !.recs = [core.recs EXCEPT ![req].applied = takes]]
               d == [c EXCEPT !.recs = [c.recs EXCEPT ![req].attempts = @ + 1]]
    <3>1. CoreOK(c, A)
      BY <1>1, OtherFields
    <3>2. [core EXCEPT !.recs[req].applied = takes, !.recs[req].attempts = @ + 1] = d
      BY DEF c, d
    <3> HIDE DEF c
    <3>3. CoreOK(d, A)
      BY <3>1, OtherFields
    <3> HIDE DEF d
    <3>4. CoreOK(core', A) /\ CoreOK(stored', A)
      BY <1>1, <2>4, <3>2, <3>3, Persisted
    <3> QED
      BY <1>2, <1>3, <1>5, <2>4, <3>4
  <2> QED
    BY <2>1, <2>2, <2>3, <2>4
<1>11. CASE rollbackSync
  <2> DEFINE emps == job.undo[1].emps
             recs == job.undo[1].recs
  <2>1. PICK ok \in BOOLEAN : persistLocked([core EXCEPT !.emps = emps, !.recs = recs], ok) /\ dhist' = dhist
    BY <1>11 DEF rollbackSync
  <2> HIDE DEF emps, recs
  <2> DEFINE c == [core EXCEPT !.emps = emps]
  <2>2. CoreOK(c, A)
    BY <1>1, OtherFields
  <2>3. [core EXCEPT !.emps = emps, !.recs = recs] = [c EXCEPT !.recs = recs]
    BY DEF c
  <2> HIDE DEF c
  <2>4. CoreOK([c EXCEPT !.recs = recs], A)
    BY <2>2, OtherFields
  <2> QED
    BY <1>1, <1>2, <1>3, <2>1, <2>3, <2>4, Persisted
<1> QED
  BY <1>6, <1>7, <1>8, <1>9, <1>10, <1>11 DEF DirNext

\* A login begins and moves on.
LEMMA BeginOK ==
    ASSUME NEW id \in Ids, NEW jit, NEW out, NEW A
    PROVE  LoginOK([pc |-> "begin", id |-> id, jit |-> jit, raced |-> FALSE, known |-> FALSE], out, A)
<1> DEFINE x == [pc |-> "begin", id |-> id, jit |-> jit, raced |-> FALSE, known |-> FALSE]
<1>1. /\ x.pc = "begin" /\ x.id = id
      /\ x = [pc |-> x.pc, id |-> x.id, jit |-> x.jit, raced |-> x.raced, known |-> x.known]
  OBVIOUS
<1>2. id = [email |-> id.email, ext |-> id.ext, act |-> id.act]
  BY DEF Ids
<1> HIDE DEF x
<1>3. IsLogin(x)
  BY <1>1, <1>2 DEF IsLogin, Checking
<1>4. Marked(x, out) /\ Cleared(x, A)
  BY <1>1 DEF Marked, Cleared, Admitted
<1> QED
  BY <1>3, <1>4 DEF LoginOK, x

\* From one check to the next.
LEMMA MoveOK ==
    ASSUME NEW x, IsLogin(x), x.pc \in Checking, NEW pc \in Checking \ {"provision"}, NEW out, NEW A
    PROVE  LoginOK([x EXCEPT !.pc = pc], out, A)
<1> DEFINE y == [x EXCEPT !.pc = pc]
<1>1. /\ y.pc = pc /\ y.id = x.id
      /\ y = [pc |-> y.pc, id |-> y.id, jit |-> y.jit, raced |-> y.raced, known |-> y.known]
  BY DEF IsLogin
<1> HIDE DEF y
<1>2. IsLogin(y)
  BY <1>1 DEF IsLogin
<1>3. Marked(y, out) /\ Cleared(y, A)
  BY <1>1 DEF Marked, Cleared, Admitted, Checking
<1> QED
  BY <1>2, <1>3 DEF LoginOK, y

\* A login that found its person in the directory goes on to provision.
LEMMA KnownOK ==
    ASSUME NEW x, IsLogin(x), x.pc \in Checking, NEW out, NEW A
    PROVE  LoginOK([x EXCEPT !.pc = "provision", !.known = ApprovalRequired], out, A)
<1> DEFINE a == [x EXCEPT !.pc = "provision"]
           y == [a EXCEPT !.known = ApprovalRequired]
<1>1. /\ a.pc = "provision" /\ a.id = x.id
      /\ a = [pc |-> a.pc, id |-> a.id, jit |-> a.jit, raced |-> a.raced, known |-> a.known]
  BY DEF IsLogin
<1>2. [x EXCEPT !.pc = "provision", !.known = ApprovalRequired] = y
  BY DEF a, y
<1> HIDE DEF a
<1>3. ASSUME NEW k
      PROVE  LET z == [a EXCEPT !.known = k]
             IN  /\ z.pc = "provision" /\ z.id = a.id /\ z.known = k
                 /\ z = [pc |-> z.pc, id |-> z.id, jit |-> z.jit, raced |-> z.raced, known |-> z.known]
  BY <1>1
<1>4. /\ y.pc = "provision" /\ y.id = a.id /\ y.known = ApprovalRequired
      /\ y = [pc |-> y.pc, id |-> y.id, jit |-> y.jit, raced |-> y.raced, known |-> y.known]
  BY <1>3, Zenon
<1> HIDE DEF y
<1>5. IsLogin(y)
  BY <1>1, <1>4 DEF IsLogin, Checking
<1>6. Marked(y, out) /\ Cleared(y, A)
  BY <1>4 DEF Marked, Cleared, Admitted
<1> QED
  BY <1>2, <1>5, <1>6 DEF LoginOK

\* One login changes, the others are as good as they were.
LEMMA OneLogin ==
    ASSUME LoginInv, NEW l \in Slots, NEW x, Go(l, x), LoginOK(x, dhist'.out, dhist'.approved),
           dhist.approved \subseteq dhist'.approved, dhist'.out \subseteq dhist.out
    PROVE  slot' = [m \in Slots |-> slot'[m]] /\ \A m \in Slots : LoginOK(slot'[m], dhist'.out, dhist'.approved)
<1>1. slot = [m \in Slots |-> slot[m]] /\ slot' = [slot EXCEPT ![l] = x]
  BY DEF LoginInv, Go
<1>2. slot' = [m \in Slots |-> slot'[m]] /\ \A m \in Slots : slot'[m] = IF m = l THEN x ELSE slot[m]
  BY <1>1
<1>3. ASSUME NEW m \in Slots PROVE LoginOK(slot[m], dhist'.out, dhist'.approved)
  BY DEF LoginInv, LoginOK, Marked, Cleared
<1> QED
  BY <1>2, <1>3

\* A step of one login that leaves the directory and what is remembered alone.
LEMMA LoginMoves ==
    ASSUME LoginInv, NEW l \in Slots, NEW x, Go(l, x), LoginOK(x, dhist.out, dhist.approved),
           core' = core, stored' = stored, dhist' = dhist, DeprovisionHolds'
    PROVE  LoginInv'
<1>1. slot' = [m \in Slots |-> slot'[m]] /\ \A m \in Slots : LoginOK(slot'[m], dhist'.out, dhist'.approved)
  BY OneLogin
<1>2. ProvisionedWasApproved'
  BY DEF LoginInv, ProvisionedWasApproved
<1> QED
  BY <1>1, <1>2 DEF LoginInv

\* Arriving at a login.
LEMMA ArrivalStep ==
    ASSUME LoginInv, enterpriseAuthStart \/ enterpriseOIDCCallback \/ enterpriseSAMLCallback
                     \/ enterpriseAuthExchange \/ StateTokenExpires
    PROVE  LoginInv'
<1>1. core' = core /\ stored' = stored /\ dhist' = dhist /\ sessions' = sessions
  BY DEF enterpriseAuthStart, enterpriseOIDCCallback, enterpriseSAMLCallback, enterpriseAuthExchange,
         StateTokenExpires, dirVars
<1>2. DeprovisionHolds' /\ CoreOK(core', dhist.approved) /\ CoreOK(stored', dhist.approved) /\ IsHist(dhist')
  BY <1>1 DEF LoginInv, DeprovisionHolds
<1>3. slot' = slot \/ \E l \in Slots, id \in Ids : issueEnterpriseTrustedSession(l, id)
  <2>1. Identities \subseteq Ids
    BY IdentitiesAssumption DEF Ids
  <2>2. CASE enterpriseAuthStart \/ StateTokenExpires
    BY <2>2 DEF enterpriseAuthStart, StateTokenExpires
  <2>3. CASE enterpriseOIDCCallback \/ enterpriseSAMLCallback
    BY <2>1, <2>3 DEF enterpriseOIDCCallback, enterpriseSAMLCallback
  <2>4. CASE enterpriseAuthExchange
    <3>1. PICK l \in Slots, id \in Identities, subject \in Exts : issueEnterpriseTrustedSession(l, [id EXCEPT !.ext = subject])
      BY <2>4 DEF enterpriseAuthExchange
    <3>2. [id EXCEPT !.ext = subject] \in Ids
      BY <2>1 DEF Ids
    <3> QED
      BY <3>1, <3>2
  <2> QED
    BY <2>2, <2>3, <2>4
<1>4. CASE slot' = slot
  BY <1>1, <1>2, <1>4, DirStep
<1>5. CASE \E l \in Slots, id \in Ids : issueEnterpriseTrustedSession(l, id)
  <2>1. PICK l \in Slots, id \in Ids :
          Go(l, [pc |-> "begin", id |-> id, jit |-> core.idp.jit, raced |-> FALSE, known |-> FALSE])
    BY <1>5 DEF issueEnterpriseTrustedSession
  <2> DEFINE x == [pc |-> "begin", id |-> id, jit |-> core.idp.jit, raced |-> FALSE, known |-> FALSE]
  <2>2. LoginOK(x, dhist.out, dhist.approved) /\ Go(l, x)
    BY <2>1, BeginOK
  <2> HIDE DEF x
  <2> QED
    BY <1>1, <1>2, <2>2, LoginMoves
<1> QED
  BY <1>3, <1>4, <1>5

\* One approval is rewritten.
LEMMA ApprovalRow ==
    ASSUME NEW c, NEW A, NEW B, CoreOK(c, A), A \subseteq B, NEW i \in DOMAIN c.apprs, NEW row \in Approvals,
           row.st = "approved" => [email |-> row.email, ext |-> row.ext] \in B
    PROVE  LET d == [c EXCEPT !.apprs = [c.apprs EXCEPT ![i] = row]]
           IN  CoreOK(d, B) /\ DOMAIN d.apprs = DOMAIN c.apprs /\ d.apprs[i] = row
<1> DEFINE new == [c.apprs EXCEPT ![i] = row]
           d == [c EXCEPT !.apprs = new]
<1>1. IsCore(c) /\ c.apprs \in Seq(Approvals) /\ Given(c.apprs, A)
  BY DEF CoreOK
<1>2. i \in 1 .. Len(c.apprs) /\ DOMAIN c.apprs = 1 .. Len(c.apprs)
  BY <1>1
<1>3. new \in Seq(Approvals)
  BY <1>1, <1>2, ExceptSeq
<1>4. DOMAIN new = DOMAIN c.apprs /\ \A j \in DOMAIN c.apprs : new[j] = IF j = i THEN row ELSE c.apprs[j]
  BY <1>1
<1> HIDE DEF new
<1>5. Given(new, B)
  BY <1>1, <1>4 DEF Given
<1>6. IsCore(d) /\ d.apprs = new
  BY <1>1 DEF IsCore
<1> HIDE DEF d
<1>7. CoreOK(d, B) /\ DOMAIN d.apprs = DOMAIN c.apprs /\ d.apprs[i] = row
  BY <1>3, <1>4, <1>5, <1>6 DEF CoreOK
<1> QED
  BY <1>7 DEF d, new

\* What was told of an approval, whatever was decided since.
LEMMA ExternalSyncStep ==
    ASSUME LoginInv, \/ updateEnterpriseJITProvisionApprovalExternalSync
                     \/ enterpriseJITApprovalExternalSyncCallback
                     \/ runEnterpriseJITApprovalExternalSyncWorkerTick
    PROVE  LoginInv'
<1> DEFINE A == dhist.approved
<1>1. CoreOK(core, A) /\ CoreOK(stored, A) /\ IsHist(dhist)
  BY DEF LoginInv
<1>2. PICK i \in DOMAIN core.apprs, st \in {"synced", "failed"}, ok \in BOOLEAN :
        updateExternalSync(i, st, ok) /\ dhist' = dhist /\ slot' = slot /\ sessions' = sessions
  <2>1. CASE updateEnterpriseJITProvisionApprovalExternalSync \/ enterpriseJITApprovalExternalSyncCallback
    BY <2>1 DEF updateEnterpriseJITProvisionApprovalExternalSync, enterpriseJITApprovalExternalSyncCallback, loginVars
  <2>2. CASE runEnterpriseJITApprovalExternalSyncWorkerTick
    <3>1. PICK i \in DOMAIN core.apprs, ok \in BOOLEAN :
            updateExternalSync(i, "synced", ok) /\ dhist' = dhist /\ slot' = slot /\ sessions' = sessions
      BY <2>2 DEF runEnterpriseJITApprovalExternalSyncWorkerTick, loginVars
    <3> QED
      BY <3>1
  <2> QED
    BY <2>1, <2>2
<1> DEFINE a == core.apprs[i]
           b == [a EXCEPT !.sync = st]
           c == [core EXCEPT !.apprs = [core.apprs EXCEPT ![i] = b]]
           e == [c.apprs[i] EXCEPT !.tries = IF st = "failed" THEN @ + 1 ELSE @]
           d == [c EXCEPT !.apprs = [c.apprs EXCEPT ![i] = e]]
<1>3. core.apprs \in Seq(Approvals) /\ Given(core.apprs, A) /\ A \subseteq A
  BY <1>1 DEF CoreOK
<1>4. a \in Approvals /\ (a.st = "approved" => [email |-> a.email, ext |-> a.ext] \in A)
  BY <1>3 DEF Given
<1>5. persistLocked(d, ok)
  BY <1>2 DEF updateExternalSync, d, e, c, b, a
<1> HIDE DEF a
<1>6. b \in Approvals /\ b.st = a.st /\ b.email = a.email /\ b.ext = a.ext
  BY <1>4 DEF Approvals
<1> HIDE DEF b, A
<1>7. CoreOK(c, A) /\ DOMAIN c.apprs = DOMAIN core.apprs /\ c.apprs[i] = b
  <2>1. b.st = "approved" => [email |-> b.email, ext |-> b.ext] \in A
    BY <1>4, <1>6
  <2>2. i \in DOMAIN core.apprs
    BY <1>2
  <2> DEFINE B == A
  <2>3. A \subseteq B /\ (b.st = "approved" => [email |-> b.email, ext |-> b.ext] \in B)
    BY <2>1
  <2> HIDE DEF B
  <2>4. CoreOK(c, B) /\ DOMAIN c.apprs = DOMAIN core.apprs /\ c.apprs[i] = b
    BY <1>1, <1>6, <2>2, <2>3, ApprovalRow
  <2> QED
    BY <2>4 DEF B
<1> HIDE DEF c
<1>8. e \in Approvals /\ e.st = b.st /\ e.email = b.email /\ e.ext = b.ext
  <2> DEFINE n == IF st = "failed" THEN b.tries + 1 ELSE b.tries
  <2>1. n \in Nat
    BY <1>6 DEF Approvals
  <2>2. e = [b EXCEPT !.tries = n]
    BY <1>7 DEF e, n
  <2> HIDE DEF n, e
  <2> QED
    BY <1>6, <2>1, <2>2 DEF Approvals
<1> HIDE DEF e
<1>9. CoreOK(d, A)
  BY <1>3, <1>4, <1>6, <1>7, <1>8, ApprovalRow
<1> HIDE DEF d
<1>10. CoreOK(core', A) /\ CoreOK(stored', A)
  BY <1>1, <1>5, <1>9, Persisted
<1> QED
  BY <1>1, <1>2, <1>10, DirStep DEF A

\* A decision: an approval that is given is on record, in memory and in what is saved.
LEMMA ReviewStep ==
    ASSUME LoginInv, reviewEnterpriseJITProvisionApproval
    PROVE  LoginInv'
<1> DEFINE A == dhist.approved
           B == dhist'.approved
<1>1. CoreOK(core, A) /\ CoreOK(stored, A) /\ IsHist(dhist)
  BY DEF LoginInv
<1>2. PICK i \in DOMAIN core.apprs, dec \in {"approved", "rejected"}, ok \in BOOLEAN :
        /\ persistLocked(ReviewJITProvisionApproval(core, i, dec), ok)
        /\ dhist' = IF dec = "approved"
                    THEN [dhist EXCEPT !.approved = @ \cup {[email |-> core.apprs[i].email, ext |-> core.apprs[i].ext]}]
                    ELSE dhist
        /\ slot' = slot /\ sessions' = sessions
  BY DEF reviewEnterpriseJITProvisionApproval, loginVars
<1> DEFINE a == core.apprs[i]
           b == [a EXCEPT !.st = dec]
           c == [core EXCEPT !.apprs = [core.apprs EXCEPT ![i] = b]]
           e == [c.apprs[i] EXCEPT !.sync = "pending"]
           d == [c EXCEPT !.apprs = [c.apprs EXCEPT ![i] = e]]
<1>3. /\ IsHist(dhist') /\ dhist'.out = dhist.out /\ dhist'.made = dhist.made /\ A \subseteq B
      /\ dec = "approved" => [email |-> a.email, ext |-> a.ext] \in B
  <2> DEFINE more == A \cup {[email |-> a.email, ext |-> a.ext]}
  <2>1. CASE dec = "approved"
    <3>1. dhist' = [dhist EXCEPT !.approved = more]
      BY <1>2, <2>1
    <3>2. A \subseteq more /\ [email |-> a.email, ext |-> a.ext] \in more
      OBVIOUS
    <3> HIDE DEF more
    <3>3. IsHist(dhist') /\ dhist'.out = dhist.out /\ dhist'.made = dhist.made /\ B = more
      BY <1>1, <3>1 DEF IsHist
    <3> QED
      BY <3>2, <3>3
  <2>2. CASE dec # "approved"
    BY <1>1, <1>2, <2>2
  <2> QED
    BY <2>1, <2>2
<1>4. core.apprs \in Seq(Approvals) /\ a \in Approvals
  BY <1>1 DEF CoreOK
<1>5. persistLocked(d, ok)
  BY <1>2 DEF ReviewJITProvisionApproval, d, e, c, b, a
<1> HIDE DEF a, A, B
<1>6. b \in Approvals /\ b.st = dec /\ b.email = a.email /\ b.ext = a.ext
  BY <1>4 DEF Approvals
<1> HIDE DEF b
<1>7. CoreOK(c, B) /\ DOMAIN c.apprs = DOMAIN core.apprs /\ c.apprs[i] = b
  BY <1>1, <1>3, <1>6, ApprovalRow
<1> HIDE DEF c
<1>8. e \in Approvals /\ e.st = dec /\ e.email = a.email /\ e.ext = a.ext
  BY <1>6, <1>7 DEF Approvals
<1> HIDE DEF e
<1>9. CoreOK(d, B)
  <2>1. B \subseteq B
    OBVIOUS
  <2> QED
    BY <1>3, <1>7, <1>8, <2>1, ApprovalRow
<1> HIDE DEF d
<1>10. CoreOK(stored, B)
  BY <1>1, <1>3, MoreApproved
<1>11. CoreOK(core', B) /\ CoreOK(stored', B)
  BY <1>5, <1>9, <1>10, Persisted
<1>12. slot' = [m \in Slots |-> slot'[m]] /\ \A m \in Slots : LoginOK(slot'[m], dhist'.out, B)
  <2>1. slot = [m \in Slots |-> slot[m]] /\ \A m \in Slots : LoginOK(slot[m], dhist.out, A)
    BY DEF LoginInv, A
  <2> QED
    BY <1>2, <1>3, <2>1, MoreApproved
<1>13. DeprovisionHolds' /\ ProvisionedWasApproved'
  BY <1>2, <1>3 DEF LoginInv, DeprovisionHolds, ProvisionedWasApproved, A, B
<1> QED
  BY <1>3, <1>11, <1>12, <1>13 DEF LoginInv, B

\* A session that is opened for a login is as good as the login.
LEMMA SessionOpens ==
    ASSUME LoginInv, NEW l \in Slots, NEW e, dhist' = dhist,
           sessions' = sessions \/ sessions' = sessions \cup {Session(e, l)},
           e \in dhist.out => slot[l].raced \/ ~slot[l].jit
    PROVE  DeprovisionHolds'
<1>1. ASSUME NEW s \in sessions', s.email \in dhist.out PROVE s.kept \/ s.raced \/ ~s.jit
  <2>1. CASE s \in sessions
    BY <1>1, <2>1 DEF LoginInv, DeprovisionHolds
  <2>2. CASE s = Session(e, l)
    BY <1>1, <2>2 DEF Session
  <2> QED
    BY <1>1, <2>1, <2>2
<1> QED
  BY <1>1 DEF DeprovisionHolds

\* The checks of a login and the sessions it opens.
LEMMA CheckStep ==
    ASSUME LoginInv, NEW l \in Slots,
           \/ PlainLogin(l) \/ HasActiveJITEmployeeIdentity(l) \/ HasApprovedJITProvisionApproval(l)
           \/ Probe(l) \/ LoginByTrustedUser(l)
    PROVE  LoginInv'
<1> DEFINE x == slot[l]
           A == dhist.approved
<1>1. core' = core /\ stored' = stored /\ dhist' = dhist
  BY DEF PlainLogin, HasActiveJITEmployeeIdentity, HasApprovedJITProvisionApproval, Probe, LoginByTrustedUser, dirVars
<1>2. LoginOK(x, dhist.out, A) /\ LoginOK(NoLogin, dhist.out, A)
  BY DEF LoginInv, LoginOK
<1>3. x.pc # "none" => IsLogin(x) /\ Marked(x, dhist.out) /\ Cleared(x, A)
  BY <1>2 DEF LoginOK, NoLogin
<1>4. ASSUME sessions' = sessions PROVE DeprovisionHolds'
  BY <1>1, <1>4 DEF LoginInv, DeprovisionHolds
<1>5. CASE PlainLogin(l)
  <2>1. /\ ~x.jit /\ Go(l, NoLogin)
        /\ sessions' = sessions \/ sessions' = sessions \cup {Session(x.id.email, l)}
    BY <1>5 DEF PlainLogin, LoginByTrustedIdentity, End
  <2>2. DeprovisionHolds'
    BY <1>1, <2>1, SessionOpens
  <2> QED
    BY <1>1, <1>2, <2>1, <2>2, LoginMoves
<1>6. CASE HasActiveJITEmployeeIdentity(l)
  <2>1. x.pc = "begin" /\ sessions' = sessions
    BY <1>6 DEF HasActiveJITEmployeeIdentity, At
  <2>2. IsLogin(x) /\ x.pc \in Checking
    BY <1>3, <2>1 DEF Checking
  <2>3. \/ Go(l, [x EXCEPT !.pc = "inactive"]) \/ Go(l, NoLogin) \/ Go(l, [x EXCEPT !.pc = "approve"])
        \/ Go(l, [x EXCEPT !.pc = "provision", !.known = ApprovalRequired])
    BY <1>6 DEF HasActiveJITEmployeeIdentity, Refuse, To, End
  <2> DEFINE y == [x EXCEPT !.pc = "provision", !.known = ApprovalRequired]
  <2>4. LoginOK(y, dhist.out, A)
    BY <2>2, KnownOK
  <2> HIDE DEF x, A
  <2>5. LoginOK([x EXCEPT !.pc = "inactive"], dhist.out, A) /\ LoginOK([x EXCEPT !.pc = "approve"], dhist.out, A)
    <3>1. "inactive" \in Checking \ {"provision"} /\ "approve" \in Checking \ {"provision"}
      BY DEF Checking
    <3> QED
      BY <2>2, <3>1, MoveOK
  <2>6. PICK z : Go(l, z) /\ LoginOK(z, dhist.out, A)
    <3> HIDE DEF y
    <3> QED
      BY <1>2, <2>3, <2>4, <2>5 DEF y
  <2> QED
    BY <1>1, <1>4, <2>1, <2>6, LoginMoves DEF A
<1>7. CASE HasApprovedJITProvisionApproval(l)
  <2>1. x.pc = "approve" /\ sessions' = sessions
    BY <1>7 DEF HasApprovedJITProvisionApproval, At
  <2>2. IsLogin(x) /\ x.pc \in Checking
    BY <1>3, <2>1 DEF Checking
  <2>3. \/ Go(l, [x EXCEPT !.pc = "unapproved"])
        \/ approvedFor(x.id) /\ Go(l, [x EXCEPT !.pc = "provision"])
    BY <1>7 DEF HasApprovedJITProvisionApproval, To
  <2> DEFINE y == [x EXCEPT !.pc = "provision"]
  <2>4. ASSUME approvedFor(x.id) PROVE LoginOK(y, dhist.out, A)
    <3>1. /\ y.pc = "provision" /\ y.id = x.id
          /\ y = [pc |-> y.pc, id |-> y.id, jit |-> y.jit, raced |-> y.raced, known |-> y.known]
      BY <2>2 DEF IsLogin
    <3>2. \E a \in A : a.email = x.id.email /\ MaySubject(a, x.id)
      <4>1. PICK i \in DOMAIN core.apprs : /\ core.apprs[i].email = x.id.email /\ core.apprs[i].st = "approved"
                                           /\ MaySubject(core.apprs[i], x.id)
        BY <2>4 DEF approvedFor
      <4>2. [email |-> core.apprs[i].email, ext |-> core.apprs[i].ext] \in A
        BY <4>1 DEF LoginInv, CoreOK, Given
      <4> QED
        BY <4>1, <4>2 DEF MaySubject
    <3> HIDE DEF y
    <3>3. IsLogin(y)
      BY <2>2, <3>1 DEF IsLogin, Checking
    <3>4. Marked(y, dhist.out) /\ Cleared(y, A)
      BY <3>1, <3>2 DEF Marked, Cleared, Admitted
    <3> QED
      BY <3>3, <3>4 DEF LoginOK
  <2> HIDE DEF x, A
  <2>5. LoginOK([x EXCEPT !.pc = "unapproved"], dhist.out, A)
    <3>1. "unapproved" \in Checking \ {"provision"}
      BY DEF Checking
    <3> QED
      BY <2>2, <3>1, MoveOK
  <2>6. PICK z : Go(l, z) /\ LoginOK(z, dhist.out, A)
    <3> HIDE DEF y
    <3> QED
      BY <2>3, <2>4, <2>5 DEF y
  <2> QED
    BY <1>1, <1>4, <2>1, <2>6, LoginMoves DEF A
<1>8. CASE Probe(l)
  <2>1. /\ x.pc = "probe" /\ Go(l, [x EXCEPT !.pc = "trusted"])
        /\ sessions' = sessions \/ sessions' = sessions \cup {Session(x.id.email, l)}
    BY <1>8 DEF Probe, LoginByTrustedIdentity, To, At
  <2>2. IsLogin(x) /\ Marked(x, dhist.out)
    BY <1>3, <2>1
  <2>3. DeprovisionHolds'
    BY <1>1, <2>1, <2>2, SessionOpens DEF Marked, Admitted
  <2> DEFINE y == [x EXCEPT !.pc = "trusted"]
  <2>4. LoginOK(y, dhist.out, A)
    <3>1. /\ y.pc = "trusted" /\ y.id = x.id /\ y.raced = x.raced
          /\ y = [pc |-> y.pc, id |-> y.id, jit |-> y.jit, raced |-> y.raced, known |-> y.known]
      BY <2>2 DEF IsLogin
    <3> HIDE DEF y
    <3>2. IsLogin(y)
      BY <2>2, <3>1 DEF IsLogin, Checking, Admitted
    <3>3. Marked(y, dhist.out) /\ Cleared(y, A)
      BY <2>1, <2>2, <3>1 DEF Marked, Cleared, Admitted
    <3> QED
      BY <3>2, <3>3 DEF LoginOK
  <2> HIDE DEF y
  <2>5. Go(l, y)
    BY <2>1 DEF y
  <2> QED
    BY <1>1, <2>3, <2>4, <2>5, LoginMoves
<1>9. CASE LoginByTrustedUser(l)
  <2>1. /\ x.pc = "trusted" /\ Go(l, NoLogin)
        /\ sessions' = sessions \/ sessions' = sessions \cup {Session(x.id.email, l)}
    BY <1>9 DEF LoginByTrustedUser, End, At
  <2>2. DeprovisionHolds'
    BY <1>1, <1>3, <2>1, SessionOpens DEF Marked, Admitted
  <2> QED
    BY <1>1, <1>2, <2>1, <2>2, LoginMoves
<1> QED
  BY <1>5, <1>6, <1>7, <1>8, <1>9

\* A request for an approval is pending, and takes the subject only where one was pending.
LEMMA UpsertApprovalOK ==
    ASSUME NEW c, NEW A, CoreOK(c, A), NEW id \in Ids
    PROVE  CoreOK([c EXCEPT !.apprs = upsertApproval(c.apprs, id)], A)
<1> DEFINE apprs == c.apprs
           new == upsertApproval(apprs, id)
           same == {i \in DOMAIN apprs : apprs[i].email = id.email /\ apprs[i].st = "pending" /\ MaySubject(apprs[i], id)}
<1>1. IsCore(c) /\ apprs \in Seq(Approvals) /\ Given(apprs, A)
  BY DEF CoreOK
<1>2. Len(apprs) \in Nat /\ DOMAIN apprs = 1 .. Len(apprs)
  BY <1>1
<1>3. new \in Seq(Approvals) /\ Given(new, A)
  <2>1. CASE same = {}
    <3> DEFINE a == Approval(id)
    <3>1. a \in Approvals /\ a.st = "pending"
      <4>1. id.email \in Emails /\ id.ext \in Exts \cup {NoExt}
        BY DEF Ids
      <4> QED
        BY <4>1 DEF Approval, Approvals
    <3>2. new = <<a>> \o apprs
      BY <2>1 DEF upsertApproval
    <3> HIDE DEF a, new, apprs
    <3>3. <<a>> \in Seq(Approvals) /\ Len(<<a>>) = 1 /\ <<a>>[1] = a
      BY <3>1
    <3>4. /\ new \in Seq(Approvals) /\ Len(new) = 1 + Len(apprs)
          /\ \A j \in 1 .. 1 + Len(apprs) : new[j] = IF j <= 1 THEN <<a>>[j] ELSE apprs[j - 1]
      BY <1>1, <3>2, <3>3, ConcatProperties
    <3>5. ASSUME NEW j \in DOMAIN new, new[j].st = "approved"
          PROVE  [email |-> new[j].email, ext |-> new[j].ext] \in A
      <4>1. j \in 1 .. 1 + Len(apprs)
        BY <3>4
      <4>2. j # 1
        BY <3>1, <3>3, <3>4, <3>5, <1>2
      <4>3. j - 1 \in DOMAIN apprs /\ ~(j <= 1)
        BY <1>2, <4>1, <4>2
      <4>4. new[j] = apprs[j - 1]
        BY <3>4, <4>1, <4>3
      <4> QED
        BY <1>1, <3>5, <4>3, <4>4 DEF Given
    <3> QED
      BY <3>4, <3>5 DEF Given
  <2>2. CASE same # {}
    <3> DEFINE i == CHOOSE n \in same : \A m \in same : n <= m
    <3>1. same \in SUBSET Nat
      BY <1>2
    <3>2. \E n \in same : \A m \in same : n <= m
      <4> HIDE DEF same
      <4> QED
        BY <2>2, <3>1, LeastNumber
    <3>3. i \in same
      <4> HIDE DEF same
      <4> QED
        BY <3>2
    <3>4. i \in DOMAIN apprs /\ apprs[i].st = "pending" /\ apprs[i] \in Approvals
      <4>1. i \in DOMAIN apprs /\ apprs[i].st = "pending"
        BY <3>3
      <4> HIDE DEF i, apprs
      <4> QED
        BY <1>1, <4>1
    <3> DEFINE x == IF id.ext = NoExt THEN apprs[i].ext ELSE id.ext
               row == [apprs[i] EXCEPT !.ext = x]
    <3>5. new = [apprs EXCEPT ![i] = row]
      BY <2>2 DEF upsertApproval
    <3>6. x \in Exts \cup {NoExt}
      BY <3>4 DEF Ids, Approvals
    <3> HIDE DEF i, x, new, apprs, same
    <3>7. row \in Approvals /\ row.st = "pending"
      BY <3>4, <3>6 DEF Approvals
    <3> HIDE DEF row
    <3>8. new \in Seq(Approvals)
      BY <1>1, <1>2, <3>4, <3>5, <3>7, ExceptSeq
    <3>9. DOMAIN new = DOMAIN apprs /\ \A j \in DOMAIN apprs : new[j] = IF j = i THEN row ELSE apprs[j]
      BY <1>1, <3>5
    <3> QED
      BY <1>1, <3>7, <3>8, <3>9 DEF Given
  <2> QED
    BY <2>1, <2>2
<1> DEFINE d == [c EXCEPT !.apprs = new]
<1> HIDE DEF new
<1>4. IsCore(d) /\ d.apprs = new
  BY <1>1 DEF IsCore
<1>5. CoreOK(d, A)
  <2> HIDE DEF d
  <2> QED
    BY <1>3, <1>4 DEF CoreOK
<1> QED
  BY <1>5 DEF new

\* A login that needs an approval asks for it.
LEMMA UnapprovedStep ==
    ASSUME LoginInv, NEW l \in Slots, applyEnterpriseJITApprovalRequiredAudit(l)
    PROVE  LoginInv'
<1> DEFINE A == dhist.approved
<1>1. CoreOK(core, A) /\ CoreOK(stored, A) /\ IsHist(dhist) /\ LoginOK(slot[l], dhist.out, A)
  BY DEF LoginInv
<1>2. /\ slot[l].pc = "unapproved" /\ Go(l, NoLogin) /\ dhist' = dhist /\ sessions' = sessions
  BY DEF applyEnterpriseJITApprovalRequiredAudit, At, End
<1>3. slot[l].id \in Ids
  BY <1>1, <1>2 DEF LoginOK, NoLogin, IsLogin, Checking
<1>4. PICK ok \in BOOLEAN :
        \/ persistLocked([core EXCEPT !.apprs = upsertApproval(core.apprs, slot[l].id)], ok)
        \/ core' = core /\ stored' = stored
  BY DEF applyEnterpriseJITApprovalRequiredAudit
<1>5. CoreOK([core EXCEPT !.apprs = upsertApproval(core.apprs, slot[l].id)], A)
  BY <1>1, <1>3, UpsertApprovalOK
<1>6. CoreOK(core', A) /\ CoreOK(stored', A)
  BY <1>1, <1>4, <1>5, Persisted
<1>7. LoginOK(NoLogin, dhist'.out, dhist'.approved) /\ dhist.approved \subseteq dhist'.approved /\ dhist'.out \subseteq dhist.out
  BY <1>2 DEF LoginOK
<1>8. slot' = [m \in Slots |-> slot'[m]] /\ \A m \in Slots : LoginOK(slot'[m], dhist'.out, dhist'.approved)
  BY <1>2, <1>7, OneLogin
<1>9. DeprovisionHolds' /\ ProvisionedWasApproved'
  BY <1>2 DEF LoginInv, DeprovisionHolds, ProvisionedWasApproved
<1> QED
  BY <1>1, <1>2, <1>6, <1>8, <1>9 DEF LoginInv

\* A login provisions: somebody who was approved or known, and who is not out any more.
LEMMA ProvisionStep ==
    ASSUME LoginInv, NEW l \in Slots, ResolveOrProvisionJITEmployee(l)
    PROVE  LoginInv'
<1> DEFINE x == slot[l]
           A == dhist.approved
           id == slot[l].id
           k == findJITEmployeeMatch(core.emps, id)
           why == Refused(core.emps, id)
           new == [id |-> NextId(core.emps), email |-> id.email, ext |-> id.ext, act |-> TRUE, by |-> NoRequest]
           emps == IF k = 0 THEN <<new>> \o core.emps
                   ELSE [core.emps EXCEPT ![k].email = id.email, ![k].ext = IF id.ext = NoExt THEN @ ELSE id.ext]
           row == [email |-> id.email, ext |-> id.ext, known |-> x.known]
           made == IF k = 0 THEN dhist.made \cup {row} ELSE dhist.made
           out == dhist.out \ {id.email}
           ext == emps[IF k = 0 THEN 1 ELSE k].ext
<1>1. PICK ok \in BOOLEAN :
        /\ x.pc = "provision" /\ sessions' = sessions
        /\ IF why # "no"
           THEN Refuse(l, why) /\ UNCHANGED <<dirVars>>
           ELSE /\ persistLocked([core EXCEPT !.emps = emps], ok)
                /\ dhist' = [dhist EXCEPT !.made = made, !.out = out]
                /\ IF ok THEN Go(l, [x EXCEPT !.pc = "probe", !.id.ext = ext]) ELSE Go(l, NoLogin)
  BY DEF ResolveOrProvisionJITEmployee, At, End
<1>2. IsHist(dhist) /\ CoreOK(core, A) /\ CoreOK(stored, A)
  BY DEF LoginInv
<1>3. IsLogin(x) /\ Cleared(x, A) /\ x.pc \in Checking
  BY <1>1 DEF LoginInv, LoginOK, NoLogin, Checking
<1> HIDE DEF why, k, new, ext
<1>4. CASE why # "no"
  <2>1. core' = core /\ stored' = stored /\ dhist' = dhist
    BY <1>1, <1>4 DEF dirVars
  <2>2. Go(l, [x EXCEPT !.pc = "inactive"]) \/ Go(l, NoLogin)
    BY <1>1, <1>4 DEF Refuse, To, End
  <2>3. LoginOK([x EXCEPT !.pc = "inactive"], dhist.out, A) /\ LoginOK(NoLogin, dhist.out, A)
    <3>1. "inactive" \in Checking \ {"provision"}
      BY DEF Checking
    <3>2. LoginOK(NoLogin, dhist.out, A)
      BY DEF LoginOK
    <3> HIDE DEF x
    <3> QED
      BY <1>3, <3>1, <3>2, MoveOK
  <2>4. PICK z : Go(l, z) /\ LoginOK(z, dhist.out, A)
    <3> HIDE DEF x, A
    <3> QED
      BY <2>2, <2>3
  <2>5. DeprovisionHolds'
    BY <1>1, <2>1 DEF LoginInv, DeprovisionHolds
  <2> QED
    BY <2>1, <2>4, <2>5, LoginMoves
<1>5. CASE why = "no"
  <2> DEFINE y == [x EXCEPT !.pc = "probe", !.id.ext = ext]
  <2>1. /\ persistLocked([core EXCEPT !.emps = emps], ok)
        /\ dhist' = [dhist EXCEPT !.made = made, !.out = out]
        /\ Go(l, y) \/ Go(l, NoLogin)
    BY <1>1, <1>5
  <2>2. out \subseteq dhist.out /\ id.email \notin out
    OBVIOUS
  <2>3. \A m \in made : m \in dhist.made \/ m = row
    OBVIOUS
  <2> HIDE DEF emps, made, out
  <2>4. CoreOK(core', A) /\ CoreOK(stored', A)
    <3>1. CoreOK([core EXCEPT !.emps = emps], A)
      BY <1>2, OtherFields
    <3> HIDE DEF A
    <3> QED
      BY <1>2, <2>1, <3>1, Persisted
  <2>5. IsHist(dhist') /\ dhist'.made = made /\ dhist'.out = out /\ dhist'.approved = A
    <3> DEFINE h == [dhist EXCEPT !.made = made]
    <3>1. IsHist(h) /\ h.made = made /\ h.approved = A
      BY <1>2 DEF IsHist
    <3>2. dhist' = [h EXCEPT !.out = out]
      BY <2>1 DEF h
    <3> HIDE DEF h, A
    <3> QED
      BY <3>1, <3>2 DEF IsHist
  <2>6. LoginOK(y, out, A) /\ LoginOK(NoLogin, out, A)
    <3> DEFINE b == [x EXCEPT !.pc = "probe"]
               jd == [id EXCEPT !.ext = ext]
    <3>1. /\ b.pc = "probe" /\ b.id = id
          /\ b = [pc |-> b.pc, id |-> b.id, jit |-> b.jit, raced |-> b.raced, known |-> b.known]
      BY <1>3 DEF IsLogin
    <3>2. jd.email = id.email /\ jd = [email |-> jd.email, ext |-> jd.ext, act |-> jd.act]
      BY <1>3 DEF IsLogin
    <3>3. y = [b EXCEPT !.id = [b.id EXCEPT !.ext = ext]]
      BY DEF y, b
    <3> HIDE DEF b
    <3>4. y = [b EXCEPT !.id = jd]
      BY <3>1, <3>3
    <3> HIDE DEF y, jd
    <3>5. /\ y.pc = "probe" /\ y.id = jd
          /\ y = [pc |-> y.pc, id |-> y.id, jit |-> y.jit, raced |-> y.raced, known |-> y.known]
      BY <3>1, <3>4
    <3>6. IsLogin(y)
      BY <3>2, <3>5 DEF IsLogin, Admitted, Checking
    <3>7. Marked(y, out) /\ Cleared(y, A)
      BY <2>2, <3>2, <3>5 DEF Marked, Cleared
    <3> QED
      BY <3>6, <3>7 DEF LoginOK
  <2> HIDE DEF y
  <2>7. slot' = [m \in Slots |-> slot'[m]] /\ \A m \in Slots : LoginOK(slot'[m], dhist'.out, dhist'.approved)
    <3>1. PICK z : Go(l, z) /\ LoginOK(z, dhist'.out, dhist'.approved)
      BY <2>1, <2>5, <2>6
    <3>2. dhist.approved \subseteq dhist'.approved /\ dhist'.out \subseteq dhist.out
      BY <2>2, <2>5
    <3> QED
      BY <3>1, <3>2, OneLogin
  <2>8. DeprovisionHolds'
    <3>1. \A s \in sessions : s.email \in out => s.kept \/ s.raced \/ ~s.jit
      BY <2>2 DEF LoginInv, DeprovisionHolds
    <3> QED
      BY <1>1, <2>5, <3>1 DEF DeprovisionHolds
  <2>9. ProvisionedWasApproved'
    <3>1. ASSUME ApprovalRequired, NEW m \in made
          PROVE  m.known \/ \E a \in A : a.email = m.email /\ MaySubject(a, m)
      <4>1. CASE m \in dhist.made
        BY <3>1, <4>1 DEF LoginInv, ProvisionedWasApproved
      <4>2. CASE m = row
        <5>1. x.known \/ \E a \in A : a.email = id.email /\ MaySubject(a, id)
          BY <1>1, <1>3, <3>1 DEF Cleared
        <5>2. m.known = x.known /\ m.email = id.email /\ m.ext = id.ext
          BY <4>2
        <5> HIDE DEF row, x, id, A
        <5> QED
          BY <5>1, <5>2 DEF MaySubject
      <4> QED
        BY <2>3, <4>1, <4>2
    <3> QED
      BY <2>5, <3>1 DEF ProvisionedWasApproved
  <2> QED
    BY <2>4, <2>5, <2>7, <2>8, <2>9 DEF LoginInv
<1> QED
  BY <1>4, <1>5

\* The sessions of somebody who is not active any more end, and the logins that were admitted are marked.
LEMMA DeprovisionStep ==
    ASSUME LoginInv, NEW l \in Slots, applyEnterpriseJITDeprovisionOnInactive(l)
    PROVE  LoginInv'
<1> DEFINE e == slot[l].id.email
           A == dhist.approved
           out == dhist.out \cup {e}
<1>1. /\ core' = core /\ stored' = stored
      /\ \E ok \in BOOLEAN : RevokeRefreshTokens(e, ok)
      /\ dhist' = [dhist EXCEPT !.out = out]
      /\ slot' = [m \in Slots |-> IF m = l THEN NoLogin
                                  ELSE IF slot[m].pc \in {"probe", "trusted"} /\ slot[m].id.email = e
                                  THEN [slot[m] EXCEPT !.raced = TRUE] ELSE slot[m]]
  BY DEF applyEnterpriseJITDeprovisionOnInactive
<1>2. IsHist(dhist) /\ CoreOK(core, A) /\ CoreOK(stored, A)
  BY DEF LoginInv
<1>3. IsHist(dhist') /\ dhist'.out = out /\ dhist'.approved = A /\ dhist'.made = dhist.made
  <2> HIDE DEF out
  <2> QED
    BY <1>1, <1>2 DEF IsHist
<1>4. ASSUME NEW m \in Slots PROVE LoginOK(slot'[m], out, A)
  <2>1. LoginOK(slot[m], dhist.out, A)
    BY DEF LoginInv
  <2>2. CASE m = l
    BY <1>1, <2>2 DEF LoginOK
  <2>3. CASE m # l /\ slot[m].pc \in Admitted /\ slot[m].id.email = e
    <3> DEFINE x == slot[m]
               y == [x EXCEPT !.raced = TRUE]
    <3>1. IsLogin(x)
      BY <2>1, <2>3 DEF LoginOK, NoLogin, Admitted
    <3>3. slot'[m] = y
      BY <1>1, <2>3 DEF Admitted
    <3>2. /\ y.pc = x.pc /\ y.id = x.id /\ y.raced = TRUE
          /\ y = [pc |-> y.pc, id |-> y.id, jit |-> y.jit, raced |-> y.raced, known |-> y.known]
      <4> HIDE DEF x
      <4>1. ASSUME NEW k
            PROVE  LET z == [x EXCEPT !.raced = k]
                   IN  /\ z.pc = x.pc /\ z.id = x.id /\ z.raced = k
                       /\ z = [pc |-> z.pc, id |-> z.id, jit |-> z.jit, raced |-> z.raced, known |-> z.known]
        BY <3>1 DEF IsLogin
      <4> QED
        BY <4>1, Zenon
    <3> HIDE DEF x, y
    <3>4. IsLogin(y) /\ Marked(y, out)
      BY <3>1, <3>2 DEF IsLogin, Marked
    <3>5. y.pc # "provision"
      BY <2>3, <3>2 DEF Admitted, x
    <3> QED
      BY <3>3, <3>4, <3>5 DEF LoginOK, Cleared
  <2>4. CASE m # l /\ ~(slot[m].pc \in Admitted /\ slot[m].id.email = e)
    <3>1. slot'[m] = slot[m]
      BY <1>1, <2>4 DEF Admitted
    <3>2. Marked(slot[m], dhist.out) => Marked(slot[m], out)
      BY <2>4 DEF Marked
    <3> QED
      BY <2>1, <3>1, <3>2 DEF LoginOK
  <2> QED
    BY <2>2, <2>3, <2>4
<1>5. slot' = [m \in Slots |-> slot'[m]]
  BY <1>1
<1>6. DeprovisionHolds'
  <2>1. ASSUME NEW s \in sessions', s.email \in out PROVE s.kept \/ s.raced \/ ~s.jit
    <3>1. PICK ok \in BOOLEAN : RevokeRefreshTokens(e, ok)
      BY <1>1
    <3>2. CASE ok
      <4>1. s \in sessions /\ s.email # e
        BY <2>1, <3>1, <3>2 DEF RevokeRefreshTokens
      <4> QED
        BY <2>1, <4>1 DEF LoginInv, DeprovisionHolds
    <3>3. CASE ~ok
      <4>1. (s \in sessions /\ s.email # e) \/ \E r \in sessions : s = Kept(r)
        BY <2>1, <3>1, <3>3 DEF RevokeRefreshTokens
      <4>2. CASE s \in sessions /\ s.email # e
        BY <2>1, <4>2 DEF LoginInv, DeprovisionHolds
      <4>3. CASE \E r \in sessions : s = Kept(r)
        BY <4>3 DEF Kept
      <4> QED
        BY <4>1, <4>2, <4>3
    <3> QED
      BY <3>2, <3>3
  <2> QED
    BY <1>3, <2>1 DEF DeprovisionHolds
<1>7. ProvisionedWasApproved'
  BY <1>3 DEF LoginInv, ProvisionedWasApproved
<1> QED
  BY <1>1, <1>2, <1>3, <1>4, <1>5, <1>6, <1>7 DEF LoginInv

\* The invariant is inductive.
LEMMA LoginInvHolds == LoginSpec => []LoginInv
<1>1. LoginInit => LoginInv
  <2>1. SUFFICES ASSUME LoginInit PROVE LoginInv
    OBVIOUS
  <2>2. PICK dom \in {"none", "active"} : core =
          [dom |-> dom, idp |-> [provider |-> "saml", on |-> TRUE, jit |-> TRUE], emps |-> <<>>,
           recs |-> [r \in RequestIds |-> NoRecord], apprs |-> <<>>]
    BY <2>1 DEF LoginInit, DirInit
  <2>3. /\ stored = core /\ sessions = {} /\ slot = [l \in Slots |-> NoLogin]
        /\ dhist = [order |-> <<>>, answered |-> {}, out |-> {}, approved |-> {}, made |-> {}]
    BY <2>1 DEF LoginInit, DirInit
  <2>4. IsCore(core) /\ core.apprs = <<>>
    BY <2>2 DEF IsCore
  <2>5. CoreOK(core, dhist.approved)
    BY <2>4 DEF CoreOK, Given
  <2>6. IsHist(dhist) /\ dhist.made = {}
    BY <2>3 DEF IsHist
  <2>7. slot = [l \in Slots |-> slot[l]] /\ \A l \in Slots : LoginOK(slot[l], dhist.out, dhist.approved)
    BY <2>3 DEF LoginOK
  <2>8. DeprovisionHolds /\ ProvisionedWasApproved
    BY <2>3, <2>6 DEF DeprovisionHolds, ProvisionedWasApproved
  <2> QED
    BY <2>3, <2>5, <2>6, <2>7, <2>8 DEF LoginInv
<1>2. LoginInv /\ [LoginNext \/ (DirNext /\ UNCHANGED loginVars)]_allDirVars => LoginInv'
  <2>1. SUFFICES ASSUME LoginInv, [LoginNext \/ (DirNext /\ UNCHANGED loginVars)]_allDirVars PROVE LoginInv'
    OBVIOUS
  <2>2. IsHist(dhist) /\ CoreOK(core, dhist.approved) /\ CoreOK(stored, dhist.approved)
    BY <2>1 DEF LoginInv
  <2>3. CASE LoginRequests
    BY <2>1, <2>3, ArrivalStep, ReviewStep, ExternalSyncStep DEF LoginRequests
  <2>4. ASSUME NEW l \in Slots, LoginSteps(l) PROVE LoginInv'
    BY <2>1, <2>4, CheckStep, UnapprovedStep, ProvisionStep, DeprovisionStep DEF LoginSteps
  <2>5. CASE runEnterpriseJITApprovalExternalSyncWorkerTick
    BY <2>1, <2>5, ExternalSyncStep
  <2>6. CASE StateTokenExpires
    BY <2>1, <2>6, ArrivalStep
  <2>7. CASE RestartDirectory
    <3>1. core' = stored /\ stored' = stored /\ dhist' = dhist /\ sessions' = sessions /\ slot' = [l \in Slots |-> NoLogin]
      BY <2>7 DEF RestartDirectory
    <3>2. slot' = [l \in Slots |-> slot'[l]] /\ \A l \in Slots : LoginOK(slot'[l], dhist'.out, dhist'.approved)
      BY <3>1 DEF LoginOK
    <3>3. DeprovisionHolds' /\ ProvisionedWasApproved'
      BY <2>1, <3>1 DEF LoginInv, DeprovisionHolds, ProvisionedWasApproved
    <3> QED
      BY <2>2, <3>1, <3>2, <3>3 DEF LoginInv
  <2>8. CASE DirNext /\ UNCHANGED loginVars
    BY <2>1, <2>8, DirNextStep
  <2>9. CASE UNCHANGED allDirVars
    <3>1. core' = core /\ stored' = stored /\ dhist' = dhist /\ slot' = slot /\ sessions' = sessions
      BY <2>9 DEF allDirVars, dirVars, loginVars
    <3> QED
      BY <2>1, <2>2, <3>1, DirStep
  <2> QED
    BY <2>1, <2>3, <2>4, <2>5, <2>6, <2>7, <2>8, <2>9 DEF LoginNext
<1> QED
  BY <1>1, <1>2, PTL DEF LoginSpec

\* Once a login was refused because its employee left, no login that checks the directory afterwards
\* gives the person a session until one finds them active again.
THEOREM DeprovisioningHolds == LoginSpec => []DeprovisionHolds
<1>1. LoginInv => DeprovisionHolds
  BY DEF LoginInv
<1> QED
  BY <1>1, LoginInvHolds, PTL

\* Where an approval is needed, only somebody approved, or known when the login was checked, is provisioned.
THEOREM ProvisioningApproved == LoginSpec => []ProvisionedWasApproved
<1>1. LoginInv => ProvisionedWasApproved
  BY DEF LoginInv
<1> QED
  BY <1>1, LoginInvHolds, PTL

(* ------------------------- the pull of employees ----------------------- *)

Rows == [at : Int, on : BOOLEAN]
DirRows == [at : Int, on : BOOLEAN, ref : Int]

\* The directory d has what the HR system says of who changed up to c, or has refused it; it has as inactive
\* who left by then, or has refused to.
Has(who, d, c) ==
    \A s \in Staff : who[s].on /\ who[s].at <= c => (d[s].at = who[s].at /\ d[s].on) \/ d[s].ref >= who[s].at
HasLeft(who, d, c) ==
    \A s \in Staff : ~who[s].on /\ who[s].at <= c => ~d[s].on \/ d[s].ref >= who[s].at

\* What a worker's list brings a directory to.
Brings(who, w, d) == Has(who, d, w.now) /\ (w.mode = "full" => HasLeft(who, d, w.now))

\* A worker that has saved what its list made and may still move the cursor; one that has yet to apply it.
Landed(w) == w.pc = "succeed"
Ahead(w) == w.pc \in {"read", "apply"}

\* The times that the cursor is at or may be moved to; those that an incremental list starts from.
Reached(pl, wk) == {pl.cursor} \cup {wk[q].now : q \in {r \in PullProcs : Landed(wk[r])}}
ReachedFull(pl, wk) == {pl.full} \cup {wk[q].now : q \in {r \in PullProcs : Landed(wk[r]) /\ wk[r].mode = "full"}}
Bases(wk, F) == {wk[q].cursor : q \in {r \in F : Ahead(wk[r])}}

HasAll(who, d, C, D) == (\A c \in C : Has(who, d, c)) /\ (\A c \in D : HasLeft(who, d, c))

\* What a directory that is to be trusted has.
Trusted(who, pl, wk, F, d) == HasAll(who, d, Reached(pl, wk) \cup Bases(wk, F), ReachedFull(pl, wk))

\* No time that matters is after n.
UpTo(n, pl, wk) == \A c \in Reached(pl, wk) \cup ReachedFull(pl, wk) \cup Bases(wk, PullProcs) : c <= n

\* A full pull that began after the last save of an old copy has been applied: it has mended the directory.
Mends(wk, mk, p) == Landed(wk[p]) /\ wk[p].mode = "full" /\ p \notin mk.during
Mended(wk, mk) == ~mk.dirty \/ \E p \in PullProcs : Mends(wk, mk, p)

IsTick(w) ==
    /\ w = [pc |-> w.pc, now |-> w.now, mode |-> w.mode, seen |-> w.seen, cursor |-> w.cursor, list |-> w.list]
    /\ w.pc \in {"claim", "read", "apply", "synced", "succeed", "fail"}
    /\ w.now \in Int /\ w.cursor \in Int
    /\ w.mode \in {"full", "incremental"}
IsWorker(w) == w = Idle \/ IsTick(w)

\* A list has nobody who has left by its time, and as they are; it has everybody it should.
ListOK(who, w) == w.pc = "apply" =>
    /\ \A s \in DOMAIN w.list : w.list[s] \in Rows
    /\ \A s \in Staff : who[s].at <= w.now =>
          /\ s \in DOMAIN w.list => w.list[s] = who[s] /\ who[s].on
          /\ who[s].on /\ (w.mode = "full" \/ who[s].at > w.cursor) => s \in DOMAIN w.list

IsCopy(c) == c = [dir |-> c.dir, conn |-> c.conn] /\ c.dir \in [Staff -> DirRows]
IsHr(h) == h = [who |-> h.who, clock |-> h.clock] /\ h.who \in [Staff -> Rows] /\ h.clock \in Int
IsPull(s) == /\ s = [st |-> s.st, fails |-> s.fails, cursor |-> s.cursor, full |-> s.full, lease |-> s.lease]
             /\ s.cursor \in Int /\ s.full \in Int
IsMarks(m) == /\ m = [fresh |-> m.fresh, dirty |-> m.dirty, during |-> m.during]
              /\ m.fresh \subseteq PullProcs /\ m.during \subseteq PullProcs /\ m.dirty \in BOOLEAN

PullTyped ==
    /\ IsHr(hr) /\ IsPull(pull) /\ IsMarks(marks) /\ IsCopy(saved)
    /\ copy = [p \in PullProcs |-> copy[p]] /\ \A p \in PullProcs : IsCopy(copy[p])
    /\ worker = [p \in PullProcs |-> worker[p]] /\ \A p \in PullProcs : IsWorker(worker[p])

\* Nothing is later than now, and nothing that matters is later than a worker that has seen every save
\* since it began.
InTime ==
    /\ UpTo(hr.clock, pull, worker)
    /\ \A p \in PullProcs : worker[p].pc # "idle" => worker[p].now <= hr.clock
    /\ \A p \in marks.fresh \ marks.during : worker[p].pc # "idle" => UpTo(worker[p].now, pull, worker)

ListsOK == \A p \in PullProcs : ListOK(hr.who, worker[p])

MendedTrusted == Mended(worker, marks) =>
    /\ \A p \in marks.fresh \cap marks.during : worker[p].pc = "idle"
    /\ Trusted(hr.who, pull, worker, marks.fresh, saved.dir)
    /\ \A p \in marks.fresh : Trusted(hr.who, pull, worker, marks.fresh, copy[p].dir)

\* Between its two saves a worker's copy has what its list says: after a full one, or if it was to be trusted.
Counts(p) == worker[p].mode = "full" \/ (p \in marks.fresh /\ Mended(worker, marks))
SyncedOK == \A p \in PullProcs : worker[p].pc = "synced" /\ Counts(p) => Brings(hr.who, worker[p], copy[p].dir)

PullInv == PullTyped /\ InTime /\ ListsOK /\ MendedTrusted /\ SyncedOK

\* Applying a list keeps what the directory has up to the list's time, and brings it there.
LEMMA ReconciledHas ==
    ASSUME NEW who \in [Staff -> Rows], NEW d \in [Staff -> DirRows],
           NEW w, IsTick(w), w.pc = "apply", ListOK(who, w), NEW refused
    PROVE  LET R == reconciled(d, w.list, w.mode, w.now, refused)
           IN  /\ R \in [Staff -> DirRows]
               /\ \A c \in Int : c <= w.now => /\ Has(who, d, c) => Has(who, R, c)
                                               /\ HasLeft(who, d, c) => HasLeft(who, R, c)
                                               /\ w.mode = "full" => Has(who, R, c) /\ HasLeft(who, R, c)
                                               /\ Has(who, d, w.cursor) => Has(who, R, c)
<1> DEFINE R == reconciled(d, w.list, w.mode, w.now, refused)
<1>0. /\ w.now \in Int /\ w.cursor \in Int /\ w.mode \in {"full", "incremental"}
      /\ \A s \in DOMAIN w.list : w.list[s] \in Rows
      /\ \A s \in Staff : who[s].at <= w.now =>
            /\ s \in DOMAIN w.list => w.list[s] = who[s] /\ who[s].on
            /\ who[s].on /\ (w.mode = "full" \/ who[s].at > w.cursor) => s \in DOMAIN w.list
  BY DEF IsTick, ListOK
<1>1. /\ \A r \in Rows : Taken(r) \in DirRows /\ Taken(r).at = r.at /\ Taken(r).on = r.on
      /\ \A r \in DirRows : Inactive(r) \in DirRows /\ ~Inactive(r).on
      /\ \A r \in DirRows : RefusedAt(r, w.now) \in DirRows /\ RefusedAt(r, w.now).ref = w.now
  BY <1>0 DEF Rows, DirRows, Taken, Inactive, RefusedAt, Never
<1>2. /\ R = [s \in Staff |-> IF s \in refused THEN RefusedAt(d[s], w.now)
                              ELSE IF s \in DOMAIN w.list THEN Taken(w.list[s])
                              ELSE IF w.mode = "full" THEN Inactive(d[s]) ELSE d[s]]
  BY DEF reconciled
<1> HIDE DEF R
<1>3. \A s \in Staff : who[s] \in Rows /\ d[s] \in DirRows /\ who[s].at \in Int
  BY DEF Rows
<1>4. R \in [Staff -> DirRows]
  BY <1>0, <1>1, <1>2, <1>3
<1>5. ASSUME NEW c \in Int, c <= w.now
      PROVE  /\ Has(who, d, c) => Has(who, R, c)
             /\ HasLeft(who, d, c) => HasLeft(who, R, c)
             /\ w.mode = "full" => Has(who, R, c) /\ HasLeft(who, R, c)
             /\ Has(who, d, w.cursor) => Has(who, R, c)
  <2> DEFINE In(e, s) == (e[s].at = who[s].at /\ e[s].on) \/ e[s].ref >= who[s].at
             Out(e, s) == ~e[s].on \/ e[s].ref >= who[s].at
  <2>1. ASSUME NEW s \in Staff, who[s].at <= c
        PROVE  /\ who[s].on /\ In(d, s) => In(R, s)
               /\ who[s].on /\ w.mode = "full" => In(R, s)
               /\ who[s].on /\ who[s].at > w.cursor => In(R, s)
               /\ ~who[s].on /\ Out(d, s) => Out(R, s)
               /\ ~who[s].on /\ w.mode = "full" => Out(R, s)
    <3>1. who[s].at <= w.now
      BY <1>0, <1>3, <1>5, <2>1
    <3>2. /\ s \in DOMAIN w.list => w.list[s] = who[s] /\ who[s].on
          /\ who[s].on /\ (w.mode = "full" \/ who[s].at > w.cursor) => s \in DOMAIN w.list
      BY <1>0, <3>1
    <3>3. CASE s \in refused
      <4>1. R[s].ref = w.now
        BY <1>1, <1>2, <1>3, <3>3
      <4> QED
        BY <1>0, <1>3, <3>1, <4>1
    <3>4. CASE s \notin refused /\ s \in DOMAIN w.list
      <4>1. R[s] = Taken(who[s])
        BY <1>2, <3>2, <3>4
      <4>2. R[s].at = who[s].at /\ R[s].on
        BY <1>1, <1>3, <3>2, <3>4, <4>1
      <4> QED
        BY <3>2, <3>4, <4>2
    <3>5. CASE s \notin refused /\ s \notin DOMAIN w.list
      <4>1. R[s] = IF w.mode = "full" THEN Inactive(d[s]) ELSE d[s]
        BY <1>2, <3>5
      <4>2. CASE w.mode = "full"
        BY <1>1, <1>3, <3>2, <3>5, <4>1, <4>2
      <4>3. CASE w.mode # "full"
        BY <3>2, <3>5, <4>1, <4>3
      <4> QED
        BY <4>2, <4>3
    <3> QED
      BY <3>3, <3>4, <3>5
  <2>2. ASSUME Has(who, d, w.cursor) PROVE Has(who, R, c)
    <3>1. SUFFICES ASSUME NEW s \in Staff, who[s].on, who[s].at <= c PROVE In(R, s)
      BY DEF Has
    <3>2. CASE who[s].at > w.cursor
      BY <2>1, <3>1, <3>2
    <3>3. CASE who[s].at <= w.cursor
      <4>1. In(d, s)
        BY <2>2, <3>1, <3>3 DEF Has
      <4> HIDE DEF In, Out
      <4> QED
        BY <2>1, <3>1, <4>1
    <3> QED
      BY <1>0, <1>3, <3>2, <3>3
  <2>3. /\ Has(who, d, c) => Has(who, R, c)
        /\ w.mode = "full" => Has(who, R, c)
    BY <2>1 DEF Has
  <2>4. /\ HasLeft(who, d, c) => HasLeft(who, R, c)
        /\ w.mode = "full" => HasLeft(who, R, c)
    BY <2>1 DEF HasLeft
  <2> QED
    BY <2>2, <2>3, <2>4
<1> QED
  BY <1>4, <1>5 DEF R

\* A step of one worker that promises nothing new: it goes on from where it was, or from the cursor.
GoesOn(pl, x, w) ==
    /\ Landed(w) => Landed(x) /\ w.now = x.now /\ w.mode = x.mode
    /\ Ahead(w) => w.cursor = pl.cursor \/ (Ahead(x) /\ w.cursor = x.cursor)

LEMMA Shrinks ==
    ASSUME NEW pl, NEW ql, NEW wk, NEW p \in PullProcs, NEW w, wk = [q \in PullProcs |-> wk[q]],
           ql.cursor \in Reached(pl, wk), ql.full \in ReachedFull(pl, wk), GoesOn(pl, wk[p], w)
    PROVE  LET vk == [wk EXCEPT ![p] = w]
           IN  /\ Reached(ql, vk) \subseteq Reached(pl, wk)
               /\ ReachedFull(ql, vk) \subseteq ReachedFull(pl, wk)
               /\ \A F \in SUBSET PullProcs : Bases(vk, F) \subseteq Reached(pl, wk) \cup Bases(wk, F)
<1> DEFINE vk == [wk EXCEPT ![p] = w]
<1>1. vk[p] = w /\ \A q \in PullProcs : q # p => vk[q] = wk[q]
  OBVIOUS
<1> HIDE DEF vk
<1>2. ASSUME NEW q \in PullProcs
      PROVE  /\ Landed(vk[q]) => Landed(wk[q]) /\ vk[q].now = wk[q].now /\ vk[q].mode = wk[q].mode
             /\ Ahead(vk[q]) => vk[q].cursor = pl.cursor \/ (Ahead(wk[q]) /\ vk[q].cursor = wk[q].cursor)
  BY <1>1 DEF GoesOn
<1>3. Reached(ql, vk) \subseteq Reached(pl, wk)
  BY <1>2 DEF Reached
<1>4. ReachedFull(ql, vk) \subseteq ReachedFull(pl, wk)
  BY <1>2 DEF ReachedFull
<1>5. ASSUME NEW F \in SUBSET PullProcs PROVE Bases(vk, F) \subseteq Reached(pl, wk) \cup Bases(wk, F)
  BY <1>2 DEF Bases, Reached
<1> QED
  BY <1>3, <1>4, <1>5 DEF vk

\* What matters is a time.
LEMMA TimesInt ==
    ASSUME PullTyped
    PROVE  Reached(pull, worker) \cup ReachedFull(pull, worker) \cup Bases(worker, PullProcs) \subseteq Int
<1>1. \A p \in PullProcs : Landed(worker[p]) \/ Ahead(worker[p]) => worker[p].now \in Int /\ worker[p].cursor \in Int
  BY DEF PullTyped, IsWorker, IsTick, Idle, Landed, Ahead
<1>2. pull.cursor \in Int /\ pull.full \in Int
  BY DEF PullTyped, IsPull
<1> QED
  BY <1>1, <1>2 DEF Reached, ReachedFull, Bases

\* UpTo and Trusted after such a step, and when fewer processes have seen the last save.
LEMMA StillUpTo ==
    ASSUME NEW pl, NEW ql, NEW wk, NEW p \in PullProcs, NEW w, wk = [q \in PullProcs |-> wk[q]],
           ql.cursor \in Reached(pl, wk), ql.full \in ReachedFull(pl, wk), GoesOn(pl, wk[p], w),
           NEW n, UpTo(n, pl, wk)
    PROVE  UpTo(n, ql, [wk EXCEPT ![p] = w])
BY Shrinks DEF UpTo

LEMMA StillTrusted ==
    ASSUME NEW pl, NEW ql, NEW wk, NEW p \in PullProcs, NEW w, wk = [q \in PullProcs |-> wk[q]],
           ql.cursor \in Reached(pl, wk), ql.full \in ReachedFull(pl, wk), GoesOn(pl, wk[p], w),
           NEW who, NEW d, NEW F \in SUBSET PullProcs, NEW G \in SUBSET PullProcs,
           \A q \in G \ F : ~Ahead([wk EXCEPT ![p] = w][q]),
           Trusted(who, pl, wk, F, d)
    PROVE  Trusted(who, ql, [wk EXCEPT ![p] = w], G, d)
<1> DEFINE vk == [wk EXCEPT ![p] = w]
<1>1. /\ Reached(ql, vk) \subseteq Reached(pl, wk)
      /\ ReachedFull(ql, vk) \subseteq ReachedFull(pl, wk)
      /\ Bases(vk, F) \subseteq Reached(pl, wk) \cup Bases(wk, F)
  BY Shrinks
<1> HIDE DEF vk
<1>2. Bases(vk, G) \subseteq Bases(vk, F)
  BY DEF Bases, vk
<1> QED
  BY <1>1, <1>2 DEF Trusted, HasAll, vk

\* What such a step does besides: nothing; a full pull that mends the directory succeeds; the process
\* restarts; or it begins a tick.
Beside(p, w) ==
    \/ /\ copy' = copy /\ marks' = marks
       /\ w.pc # "idle" => worker[p].pc # "idle" /\ w.now = worker[p].now
    \/ /\ copy' = copy /\ w = Idle
       /\ Mends(worker, marks, p) /\ marks' = [marks EXCEPT !.dirty = FALSE]
    \/ /\ copy' = [copy EXCEPT ![p] = saved] /\ w = Idle
       /\ marks' = [marks EXCEPT !.fresh = @ \cup {p}]
    \/ /\ copy' = [copy EXCEPT ![p] = saved] /\ w.pc = "claim" /\ w.now = hr.clock
       /\ marks' = [marks EXCEPT !.fresh = @ \cup {p}, !.during = @ \ {p}]

\* A step that saves nothing keeps the invariant.
LEMMA UnsavedStep ==
    ASSUME PullInv, NEW p \in PullProcs, NEW w, IsWorker(w), ListOK(hr.who, w), GoesOn(pull, worker[p], w),
           worker' = [worker EXCEPT ![p] = w], hr' = hr, saved' = saved, IsPull(pull'),
           pull'.cursor \in Reached(pull, worker), pull'.full \in ReachedFull(pull, worker),
           w.pc # "idle" => w.now <= hr.clock,
           w.pc = "synced" => copy' = copy /\ marks' = marks
                              /\ (w.mode = "full" \/ (p \in marks.fresh /\ Mended(worker, marks))
                                     => Brings(hr.who, w, copy[p].dir)),
           Beside(p, w)
    PROVE  PullInv'
<1> DEFINE fr == marks'.fresh
           du == marks'.during
<1>1. /\ worker = [q \in PullProcs |-> worker[q]] /\ copy = [q \in PullProcs |-> copy[q]]
      /\ IsMarks(marks) /\ IsCopy(saved) /\ IsHr(hr)
      /\ \A q \in PullProcs : IsCopy(copy[q]) /\ IsWorker(worker[q]) /\ ListOK(hr.who, worker[q])
  BY DEF PullInv, PullTyped, ListsOK
<1>2. /\ worker' = [q \in PullProcs |-> worker'[q]] /\ worker'[p] = w
      /\ \A q \in PullProcs : q # p => worker'[q] = worker[q]
  BY <1>1
<1>3. /\ IsMarks(marks')
      /\ fr \subseteq marks.fresh \cup {p}
      /\ \A q \in PullProcs : q # p => (q \in fr <=> q \in marks.fresh) /\ (q \in du <=> q \in marks.during)
      /\ ~marks'.dirty => ~marks.dirty \/ Mends(worker, marks, p)
      /\ p \in fr => \/ w = Idle
                     \/ p \notin du /\ w.now = hr.clock /\ ~Ahead(w)
                     \/ /\ p \in marks.fresh /\ worker[p].pc # "idle" /\ w.now = worker[p].now
                        /\ (p \in du <=> p \in marks.during)
      /\ p \in fr \ marks.fresh => ~Ahead(w)
      /\ Landed(w) => (p \in du <=> p \in marks.during)
  <2>1. CASE copy' = copy /\ marks' = marks /\ (w.pc # "idle" => worker[p].pc # "idle" /\ w.now = worker[p].now)
    <3>1. w = Idle \/ w.pc # "idle"
      BY DEF IsWorker, IsTick
    <3> QED
      BY <1>1, <2>1, <3>1
  <2>2. CASE w = Idle /\ Mends(worker, marks, p) /\ marks' = [marks EXCEPT !.dirty = FALSE]
    BY <1>1, <2>2 DEF Idle, Ahead, Landed, IsMarks
  <2>3. CASE w = Idle /\ marks' = [marks EXCEPT !.fresh = @ \cup {p}]
    <3>1. fr = marks.fresh \cup {p} /\ du = marks.during /\ (~marks'.dirty => ~marks.dirty) /\ IsMarks(marks')
      BY <1>1, <2>3 DEF IsMarks
    <3> QED
      BY <2>3, <3>1 DEF Idle, Ahead, Landed
  <2>4. CASE w.pc = "claim" /\ w.now = hr.clock /\ marks' = [marks EXCEPT !.fresh = @ \cup {p}, !.during = @ \ {p}]
    <3>1. fr = marks.fresh \cup {p} /\ du = marks.during \ {p} /\ (~marks'.dirty => ~marks.dirty) /\ IsMarks(marks')
      BY <1>1, <2>4 DEF IsMarks
    <3> QED
      BY <2>4, <3>1 DEF Ahead, Landed
  <2> QED
    BY <2>1, <2>2, <2>3, <2>4 DEF Beside
<1>4. /\ copy' = [q \in PullProcs |-> copy'[q]]
      /\ \A q \in PullProcs : copy'[q] = copy[q] \/ copy'[q] = saved
      /\ \A q \in fr : (q \in marks.fresh /\ copy'[q] = copy[q]) \/ copy'[q] = saved
  <2>1. CASE copy' = copy /\ fr = marks.fresh
    BY <1>1, <2>1
  <2>2. CASE copy' = [copy EXCEPT ![p] = saved]
    BY <1>1, <1>3, <2>2 DEF IsMarks
  <2> QED
    BY <1>1, <2>1, <2>2 DEF Beside, IsMarks
<1>5. PullTyped'
  <2>1. \A q \in PullProcs : IsWorker(worker'[q]) /\ IsCopy(copy'[q])
    BY <1>1, <1>2, <1>4
  <2>2. /\ copy' = [q \in PullProcs |-> copy'[q]]
        /\ worker' = [q \in PullProcs |-> worker'[q]]
        /\ IsMarks(marks') /\ IsHr(hr') /\ IsCopy(saved')
    BY <1>1, <1>2, <1>3, <1>4
  <2> HIDE DEF fr, du
  <2> QED
    BY <2>1, <2>2 DEF PullTyped
<1>6. \A n : UpTo(n, pull, worker) => UpTo(n, pull', worker')
  BY <1>1, StillUpTo
<1>7. InTime'
  <2>1. UpTo(hr.clock, pull', worker')
    BY <1>6 DEF PullInv, InTime
  <2>2. \A q \in PullProcs : worker'[q].pc # "idle" => worker'[q].now <= hr.clock
    BY <1>2 DEF PullInv, InTime
  <2>3. ASSUME NEW q \in fr \ du, worker'[q].pc # "idle" PROVE UpTo(worker'[q].now, pull', worker')
    <3>1. CASE worker'[q].now = hr.clock
      BY <2>1, <3>1
    <3>2. CASE q \in marks.fresh \ marks.during /\ worker[q].pc # "idle" /\ worker'[q].now = worker[q].now
      BY <1>6, <3>2 DEF PullInv, InTime
    <3>3. q \in PullProcs
      BY <1>3 DEF IsMarks
    <3> QED
      BY <1>2, <1>3, <2>3, <3>1, <3>2, <3>3 DEF Idle
  <2> QED
    BY <2>1, <2>2, <2>3 DEF InTime
<1>8. ListsOK'
  BY <1>1, <1>2 DEF ListsOK
<1>10. Mended(worker', marks') => Mended(worker, marks)
  <2>1. ASSUME NEW q \in PullProcs, Mends(worker', marks', q) PROVE Mends(worker, marks, q)
    <3>1. CASE q = p
      BY <1>2, <1>3, <2>1, <3>1 DEF Mends, GoesOn
    <3>2. CASE q # p
      BY <1>2, <1>3, <2>1, <3>2 DEF Mends
    <3> QED
      BY <3>1, <3>2
  <2> QED
    BY <1>3, <2>1 DEF Mended
<1>9. MendedTrusted'
  <2>1. SUFFICES ASSUME Mended(worker', marks')
                 PROVE  /\ \A q \in fr \cap du : worker'[q].pc = "idle"
                        /\ Trusted(hr.who, pull', worker', fr, saved.dir)
                        /\ \A q \in fr : Trusted(hr.who, pull', worker', fr, copy'[q].dir)
    BY DEF MendedTrusted
  <2>2. Mended(worker, marks)
    BY <1>10, <2>1
  <2>3. /\ \A q \in marks.fresh \cap marks.during : worker[q].pc = "idle"
        /\ Trusted(hr.who, pull, worker, marks.fresh, saved.dir)
        /\ \A q \in marks.fresh : Trusted(hr.who, pull, worker, marks.fresh, copy[q].dir)
    BY <2>2 DEF PullInv, MendedTrusted
  <2>4. ASSUME NEW q \in fr \cap du PROVE worker'[q].pc = "idle"
    <3>1. q \in PullProcs
      BY <1>3 DEF IsMarks
    <3>2. CASE q = p
      BY <1>2, <1>3, <2>3, <3>2 DEF Idle
    <3>3. CASE q # p
      BY <1>2, <1>3, <2>3, <3>1, <3>3
    <3> QED
      BY <3>2, <3>3
  <2>5. ASSUME NEW d, Trusted(hr.who, pull, worker, marks.fresh, d) PROVE Trusted(hr.who, pull', worker', fr, d)
    <3>1. marks.fresh \in SUBSET PullProcs /\ fr \in SUBSET PullProcs
      BY <1>1, <1>3 DEF IsMarks
    <3>2. \A q \in fr \ marks.fresh : ~Ahead([worker EXCEPT ![p] = w][q])
      BY <1>1, <1>2, <1>3
    <3> HIDE DEF fr
    <3> QED
      BY <1>1, <2>5, <3>1, <3>2, StillTrusted
  <2> QED
    BY <1>4, <2>3, <2>4, <2>5
<1>11. SyncedOK'
  <2>1. SUFFICES ASSUME NEW q \in PullProcs, worker'[q].pc = "synced",
                        worker'[q].mode = "full" \/ (q \in fr /\ Mended(worker', marks'))
                 PROVE  Brings(hr.who, worker'[q], copy'[q].dir)
    BY DEF SyncedOK, Counts
  <2>2. CASE q = p
    <3>1. copy' = copy /\ fr = marks.fresh /\ worker'[q] = w
      BY <1>2, <2>1, <2>2
    <3> QED
      BY <1>10, <2>1, <2>2, <3>1
  <2>3. CASE q # p
    <3>1. worker'[q] = worker[q] /\ copy'[q] = copy[q] /\ (q \in fr <=> q \in marks.fresh)
      BY <1>1, <1>2, <1>3, <2>3 DEF Beside
    <3> QED
      BY <1>10, <2>1, <3>1 DEF PullInv, SyncedOK, Counts
  <2> QED
    BY <2>2, <2>3
<1> QED
  BY <1>5, <1>7, <1>8, <1>9, <1>11 DEF PullInv

\* The core state and the workers after a save.
LEMMA SaveTyped ==
    ASSUME PullInv, NEW p \in PullProcs, NEW c, IsCopy(c), NEW ok \in BOOLEAN, saveCore(p, c, ok),
           NEW w, IsWorker(w), ListOK(hr.who, w), worker' = [worker EXCEPT ![p] = w], hr' = hr, pull' = pull
    PROVE  /\ PullTyped' /\ ListsOK'
           /\ copy'[p] = c /\ worker'[p] = w
           /\ \A q \in PullProcs : q # p => copy'[q] = copy[q] /\ worker'[q] = worker[q]
           /\ ~ok => saved' = saved /\ marks' = marks
           /\ ok => saved' = c
           /\ ok /\ p \in marks.fresh => /\ marks'.fresh = {p} /\ marks'.during = marks.during
                                         /\ ~marks'.dirty => ~marks.dirty
           /\ ok /\ p \notin marks.fresh => /\ marks'.fresh = {p} /\ marks'.during = {q \in PullProcs : Busy(q)}
                                            /\ marks'.dirty
<1>1. /\ worker = [q \in PullProcs |-> worker[q]] /\ copy = [q \in PullProcs |-> copy[q]]
      /\ IsMarks(marks) /\ IsCopy(saved) /\ IsHr(hr) /\ IsPull(pull)
      /\ \A q \in PullProcs : IsCopy(copy[q]) /\ IsWorker(worker[q]) /\ ListOK(hr.who, worker[q])
  BY DEF PullInv, PullTyped, ListsOK
<1>2. /\ worker' = [q \in PullProcs |-> worker'[q]] /\ worker'[p] = w
      /\ \A q \in PullProcs : q # p => worker'[q] = worker[q]
  BY <1>1
<1>3. /\ copy' = [q \in PullProcs |-> copy'[q]] /\ copy'[p] = c
      /\ \A q \in PullProcs : q # p => copy'[q] = copy[q]
  BY <1>1 DEF saveCore
<1>4. /\ ~ok => saved' = saved /\ marks' = marks
      /\ ok => saved' = c
  BY DEF saveCore
<1>5. ASSUME ok, p \in marks.fresh
      PROVE  /\ marks'.fresh = {p} /\ marks'.during = marks.during
             /\ ~marks'.dirty => ~marks.dirty
             /\ IsMarks(marks')
  <2>1. marks' = [marks EXCEPT !.fresh = {p}]
    BY <1>5 DEF saveCore
  <2> QED
    BY <1>1, <2>1 DEF IsMarks
<1>6. ASSUME ok, p \notin marks.fresh
      PROVE  /\ marks'.fresh = {p} /\ marks'.during = {q \in PullProcs : Busy(q)}
             /\ marks'.dirty
             /\ IsMarks(marks')
  <2> DEFINE B == {q \in PullProcs : Busy(q)}
  <2>1. marks' = [fresh |-> {p}, dirty |-> TRUE, during |-> B]
    BY <1>6 DEF saveCore
  <2>2. B \subseteq PullProcs
    OBVIOUS
  <2> HIDE DEF B
  <2>3. marks'.fresh = {p} /\ marks'.during = B /\ marks'.dirty = TRUE
    BY <2>1
  <2>4. IsMarks(marks')
    BY <2>1, <2>2 DEF IsMarks
  <2> QED
    BY <2>3, <2>4 DEF B
<1>7. IsMarks(marks') /\ IsCopy(saved')
  BY <1>1, <1>4, <1>5, <1>6
<1>8. PullTyped'
  <2>1. \A q \in PullProcs : IsWorker(worker'[q]) /\ IsCopy(copy'[q])
    BY <1>1, <1>2, <1>3
  <2> QED
    BY <1>1, <1>2, <1>3, <1>7, <2>1 DEF PullTyped
<1>9. ListsOK'
  BY <1>1, <1>2 DEF ListsOK
<1> QED
  BY <1>2, <1>3, <1>4, <1>5, <1>6, <1>8, <1>9

\* A save of an old copy: nothing is known of the directory until a full pull that begins later.
LEMMA StaleSave ==
    ASSUME PullInv, NEW p \in PullProcs, NEW c, IsCopy(c), saveCore(p, c, TRUE), p \notin marks.fresh,
           NEW w, IsWorker(w), ListOK(hr.who, w), worker' = [worker EXCEPT ![p] = w], hr' = hr, pull' = pull,
           w.pc # "idle" => worker[p].pc # "idle" /\ w.now = worker[p].now,
           UpTo(hr.clock, pull, worker'), w.pc = "synced" /\ w.mode = "full" => Brings(hr.who, w, c.dir)
    PROVE  PullInv'
<1>1. /\ PullTyped' /\ ListsOK'
      /\ worker'[p] = w
      /\ \A q \in PullProcs : q # p => worker'[q] = worker[q]
      /\ marks'.fresh = {p} /\ marks'.during = {q \in PullProcs : worker[q].pc # "idle"}
      /\ marks'.dirty
  BY SaveTyped DEF Busy
<1>2. InTime'
  <2>1. \A q \in PullProcs : worker'[q].pc # "idle" => worker'[q].now <= hr.clock
    BY <1>1 DEF PullInv, InTime
  <2>2. \A q \in marks'.fresh \ marks'.during : worker'[q].pc = "idle"
    BY <1>1
  <2> QED
    BY <2>1, <2>2 DEF InTime
<1>3. \A q \in PullProcs : ~Mends(worker', marks', q)
  BY <1>1 DEF Mends, Landed
<1>4. MendedTrusted'
  BY <1>1, <1>3 DEF MendedTrusted, Mended
<1>5. SyncedOK'
  <2>1. SUFFICES ASSUME NEW q \in PullProcs, worker'[q].pc = "synced", worker'[q].mode = "full"
                 PROVE  Brings(hr.who, worker'[q], copy'[q].dir)
    BY <1>1, <1>3 DEF SyncedOK, Counts, Mended
  <2>2. copy'[p] = c /\ \A r \in PullProcs : r # p => copy'[r] = copy[r]
    BY SaveTyped
  <2> QED
    BY <1>1, <2>1, <2>2 DEF PullInv, SyncedOK, Counts
<1> QED
  BY <1>1, <1>2, <1>4, <1>5 DEF PullInv

\* A save of what the directory is, or one that fails.
LEMMA GoodSave ==
    ASSUME PullInv, NEW p \in PullProcs, NEW c, IsCopy(c), NEW ok \in BOOLEAN, saveCore(p, c, ok),
           ok => p \in marks.fresh,
           NEW w, IsWorker(w), ListOK(hr.who, w), worker' = [worker EXCEPT ![p] = w], hr' = hr, pull' = pull,
           w.pc # "idle" => worker[p].pc # "idle" /\ w.now = worker[p].now,
           worker[p].pc = "idle" => w.pc = "idle",
           GoesOn(pull, worker[p], w),
           w.pc = "synced" /\ (w.mode = "full" \/ (p \in marks.fresh /\ Mended(worker, marks))) => Brings(hr.who, w, c.dir),
           p \in marks.fresh /\ Mended(worker, marks) => Trusted(hr.who, pull, worker, marks.fresh, c.dir)
    PROVE  PullInv'
<1> DEFINE fr == marks'.fresh
<1>1. /\ PullTyped' /\ ListsOK'
      /\ copy'[p] = c /\ worker'[p] = w
      /\ \A q \in PullProcs : q # p => copy'[q] = copy[q] /\ worker'[q] = worker[q]
      /\ ok => saved' = c
      /\ ~ok => saved' = saved
      /\ ~marks'.dirty => ~marks.dirty
      /\ marks'.during = marks.during
      /\ ok => fr = {p}
      /\ ~ok => fr = marks.fresh
  <2>1. CASE ok
    BY <2>1, SaveTyped
  <2>2. CASE ~ok
    <3>1. /\ PullTyped' /\ ListsOK'
          /\ copy'[p] = c /\ worker'[p] = w
          /\ \A q \in PullProcs : q # p => copy'[q] = copy[q] /\ worker'[q] = worker[q]
      <4>1. saveCore(p, c, FALSE)
        BY <2>2 DEF saveCore
      <4> QED
        BY <4>1, SaveTyped
    <3>2. saved' = saved /\ marks' = marks
      BY <2>2 DEF saveCore
    <3> QED
      BY <2>2, <3>1, <3>2, Zenon
  <2> QED
    BY <2>1, <2>2
<1>2. fr \subseteq marks.fresh /\ marks.fresh \subseteq PullProcs
  BY <1>1 DEF PullInv, PullTyped, IsMarks
<1>3. /\ worker = [q \in PullProcs |-> worker[q]]
      /\ pull.cursor \in Reached(pull, worker) /\ pull.full \in ReachedFull(pull, worker)
  BY DEF PullInv, PullTyped, Reached, ReachedFull
<1> HIDE DEF fr
<1>4. \A n : UpTo(n, pull, worker) => UpTo(n, pull, worker')
  BY <1>3, StillUpTo
<1>5. InTime'
  <2>1. UpTo(hr.clock, pull, worker')
    BY <1>4 DEF PullInv, InTime
  <2>2. \A q \in PullProcs : worker'[q].pc # "idle" => worker'[q].now <= hr.clock
    BY <1>1 DEF PullInv, InTime
  <2>3. ASSUME NEW q \in fr \ marks.during, worker'[q].pc # "idle" PROVE UpTo(worker'[q].now, pull, worker')
    BY <1>1, <1>2, <1>4, <2>3 DEF PullInv, InTime
  <2> QED
    BY <1>1, <2>1, <2>2, <2>3 DEF InTime, fr
<1>7. Mended(worker', marks') => Mended(worker, marks)
  <2>1. ASSUME NEW q \in PullProcs, Mends(worker', marks', q) PROVE Mends(worker, marks, q)
    BY <1>1, <2>1 DEF Mends, GoesOn
  <2> QED
    BY <1>1, <2>1 DEF Mended
<1>6. MendedTrusted'
  <2>1. SUFFICES ASSUME Mended(worker', marks')
                 PROVE  /\ \A q \in fr \cap marks.during : worker'[q].pc = "idle"
                        /\ Trusted(hr.who, pull, worker', fr, saved'.dir)
                        /\ \A q \in fr : Trusted(hr.who, pull, worker', fr, copy'[q].dir)
    BY <1>1 DEF MendedTrusted, fr
  <2>2. Mended(worker, marks)
    BY <1>7, <2>1
  <2>3. /\ \A q \in marks.fresh \cap marks.during : worker[q].pc = "idle"
        /\ Trusted(hr.who, pull, worker, marks.fresh, saved.dir)
        /\ \A q \in marks.fresh : Trusted(hr.who, pull, worker, marks.fresh, copy[q].dir)
    BY <2>2 DEF PullInv, MendedTrusted
  <2>4. \A q \in fr \cap marks.during : worker'[q].pc = "idle"
    BY <1>1, <1>2, <2>3
  <2>5. ASSUME NEW d, Trusted(hr.who, pull, worker, marks.fresh, d) PROVE Trusted(hr.who, pull, worker', fr, d)
    BY <1>2, <1>3, <2>5, StillTrusted
  <2>6. \A q \in fr : Trusted(hr.who, pull, worker, marks.fresh, copy'[q].dir)
    BY <1>1, <1>2, <2>2, <2>3
  <2>7. Trusted(hr.who, pull, worker, marks.fresh, saved'.dir)
    BY <1>1, <2>2, <2>3
  <2> QED
    BY <2>4, <2>5, <2>6, <2>7
<1>8. SyncedOK'
  <2>1. SUFFICES ASSUME NEW q \in PullProcs, worker'[q].pc = "synced",
                        worker'[q].mode = "full" \/ (q \in fr /\ Mended(worker', marks'))
                 PROVE  Brings(hr.who, worker'[q], copy'[q].dir)
    BY DEF SyncedOK, Counts, fr
  <2>2. worker'[q].mode = "full" \/ (q \in marks.fresh /\ Mended(worker, marks))
    BY <1>2, <1>7, <2>1
  <2>3. CASE q = p
    BY <1>1, <2>1, <2>2, <2>3
  <2>4. CASE q # p
    BY <1>1, <2>1, <2>2, <2>4 DEF PullInv, SyncedOK, Counts
  <2> QED
    BY <2>3, <2>4
<1> QED
  BY <1>1, <1>5, <1>6, <1>8 DEF PullInv

\* Any save by a process whose worker promises nothing new.
LEMMA AnySave ==
    ASSUME PullInv, NEW p \in PullProcs, NEW c, IsCopy(c), NEW ok \in BOOLEAN, saveCore(p, c, ok),
           NEW w, IsWorker(w), ListOK(hr.who, w), worker' = [worker EXCEPT ![p] = w], hr' = hr, pull' = pull,
           w.pc # "idle" => worker[p].pc # "idle" /\ w.now = worker[p].now,
           worker[p].pc = "idle" => w.pc = "idle",
           GoesOn(pull, worker[p], w),
           w.pc = "synced" /\ (w.mode = "full" \/ (p \in marks.fresh /\ Mended(worker, marks))) => Brings(hr.who, w, c.dir),
           p \in marks.fresh /\ Mended(worker, marks) => Trusted(hr.who, pull, worker, marks.fresh, c.dir)
    PROVE  PullInv'
<1>1. CASE ok => p \in marks.fresh
  BY <1>1, GoodSave
<1>2. CASE ok /\ p \notin marks.fresh
  <2>1. /\ worker = [q \in PullProcs |-> worker[q]]
        /\ pull.cursor \in Reached(pull, worker) /\ pull.full \in ReachedFull(pull, worker)
        /\ UpTo(hr.clock, pull, worker)
    BY DEF PullInv, PullTyped, InTime, Reached, ReachedFull
  <2>2. UpTo(hr.clock, pull, worker')
    BY <2>1, StillUpTo
  <2> QED
    BY <1>2, <2>2, StaleSave
<1> QED
  BY <1>1, <1>2

LEMMA TickMoves ==
    ASSUME NEW x, IsTick(x), NEW k \in {"claim", "read", "apply", "synced", "succeed", "fail"}
    PROVE  LET w == [x EXCEPT !.pc = k]
           IN  IsTick(w) /\ w.pc = k /\ w.now = x.now /\ w.cursor = x.cursor /\ w.mode = x.mode /\ w.list = x.list
<1> DEFINE w == [x EXCEPT !.pc = k]
<1>1. /\ w.pc = k /\ w.now = x.now /\ w.cursor = x.cursor /\ w.mode = x.mode /\ w.list = x.list
      /\ w = [pc |-> w.pc, now |-> w.now, mode |-> w.mode, seen |-> w.seen, cursor |-> w.cursor, list |-> w.list]
  BY DEF IsTick
<1> HIDE DEF w
<1>2. IsTick(w)
  BY <1>1 DEF IsTick
<1> QED
  BY <1>1, <1>2 DEF w

\* A list that a worker which has seen every save applies has the directory it makes trusted.
LEMMA AppliedTrusted ==
    ASSUME PullInv, NEW p \in marks.fresh, worker[p].pc = "apply", Mended(worker, marks),
           NEW refused, NEW R, R = reconciled(copy[p].dir, worker[p].list, worker[p].mode, worker[p].now, refused)
    PROVE  /\ Trusted(hr.who, pull, worker, marks.fresh, R)
           /\ Has(hr.who, R, worker[p].now)
<1> DEFINE x == worker[p]
           d == copy[p].dir
<1>1. /\ p \in PullProcs /\ IsTick(x) /\ ListOK(hr.who, x)
      /\ hr.who \in [Staff -> Rows] /\ d \in [Staff -> DirRows]
  BY DEF PullInv, PullTyped, ListsOK, IsMarks, IsHr, IsCopy, IsWorker, Idle
<1>2. /\ UpTo(x.now, pull, worker)
      /\ Trusted(hr.who, pull, worker, marks.fresh, d)
  BY DEF PullInv, InTime, MendedTrusted
<1>3. /\ Bases(worker, marks.fresh) \subseteq Bases(worker, PullProcs)
      /\ Reached(pull, worker) \cup ReachedFull(pull, worker) \cup Bases(worker, PullProcs) \subseteq Int
  BY TimesInt DEF PullInv, PullTyped, IsMarks, Bases
<1>4. x.cursor \in Bases(worker, marks.fresh) /\ x.now \in Int
  BY <1>1 DEF Bases, Ahead, IsTick
<1> HIDE DEF x, d
<1>5. \A c \in Int : c <= x.now => /\ Has(hr.who, d, c) => Has(hr.who, R, c)
                                   /\ HasLeft(hr.who, d, c) => HasLeft(hr.who, R, c)
                                   /\ Has(hr.who, d, x.cursor) => Has(hr.who, R, c)
  BY <1>1, ReconciledHas DEF x, d
<1>6. Has(hr.who, R, x.now)
  BY <1>2, <1>4, <1>5 DEF Trusted, HasAll
<1>7. Trusted(hr.who, pull, worker, marks.fresh, R)
  BY <1>2, <1>3, <1>5 DEF Trusted, HasAll, UpTo
<1> QED
  BY <1>6, <1>7 DEF x

\* The times that matter once a worker has landed.
LEMMA Lands ==
    ASSUME NEW pl, NEW wk, NEW p \in PullProcs, NEW w, wk = [q \in PullProcs |-> wk[q]], Landed(w)
    PROVE  LET vk == [wk EXCEPT ![p] = w]
           IN  /\ Reached(pl, vk) \subseteq Reached(pl, wk) \cup {w.now}
               /\ ReachedFull(pl, vk) \subseteq ReachedFull(pl, wk) \cup {c \in {w.now} : w.mode = "full"}
               /\ Bases(vk, {p}) = {}
               /\ Bases(vk, PullProcs) \subseteq Bases(wk, PullProcs)
<1> DEFINE vk == [wk EXCEPT ![p] = w]
<1>1. vk[p] = w /\ \A q \in PullProcs : q # p => vk[q] = wk[q]
  OBVIOUS
<1> HIDE DEF vk
<1>2. Reached(pl, vk) \subseteq Reached(pl, wk) \cup {w.now}
  BY <1>1 DEF Reached
<1>3. ReachedFull(pl, vk) \subseteq ReachedFull(pl, wk) \cup {c \in {w.now} : w.mode = "full"}
  BY <1>1 DEF ReachedFull
<1>4. Bases(vk, {p}) = {} /\ Bases(vk, PullProcs) \subseteq Bases(wk, PullProcs)
  BY <1>1 DEF Bases, Ahead, Landed
<1> QED
  BY <1>2, <1>3, <1>4 DEF vk

\* A worker's list brings the directory it is applied to there: a full one any, another one that is trusted.
LEMMA AppliedBrings ==
    ASSUME PullInv, NEW p \in PullProcs, worker[p].pc = "apply", Counts(p),
           NEW refused, NEW R, R = reconciled(copy[p].dir, worker[p].list, worker[p].mode, worker[p].now, refused)
    PROVE  Brings(hr.who, worker[p], R)
<1>1. /\ IsTick(worker[p]) /\ ListOK(hr.who, worker[p]) /\ worker[p].now \in Int
      /\ hr.who \in [Staff -> Rows] /\ copy[p].dir \in [Staff -> DirRows]
  BY DEF PullInv, PullTyped, ListsOK, IsHr, IsCopy, IsWorker, IsTick, Idle
<1>2. CASE worker[p].mode = "full"
  <2>1. \A c \in Int : c <= worker[p].now => Has(hr.who, R, c) /\ HasLeft(hr.who, R, c)
    BY <1>1, <1>2, ReconciledHas
  <2> QED
    BY <1>1, <2>1 DEF Brings
<1>3. CASE worker[p].mode # "full"
  BY <1>3, AppliedTrusted DEF Brings, Counts
<1> QED
  BY <1>2, <1>3

\* A list is applied: what it makes is saved, or not, or taken back; or there is nothing to apply.
LEMMA ApplyStep ==
    ASSUME PullInv, NEW p \in PullProcs, applyPull(p)
    PROVE  PullInv'
<1> DEFINE x == worker[p]
           R(no) == reconciled(copy[p].dir, x.list, x.mode, x.now, no)
           next(no) == [copy[p] EXCEPT !.dir = R(no)]
           W(k) == [x EXCEPT !.pc = k]
<1>1. /\ x.pc = "apply" /\ hr' = hr /\ pull' = pull
      /\ \/ /\ inputs(copy[p].dir, x.list, x.mode) = {} /\ UNCHANGED <<saved, copy, marks>>
            /\ worker' = [worker EXCEPT ![p] = W("synced")]
         \/ \E no : saveCore(p, next(no), TRUE) /\ worker' = [worker EXCEPT ![p] = W("synced")]
         \/ \E no : saveCore(p, next(no), FALSE) /\ worker' = [worker EXCEPT ![p] = W("fail")]
         \/ saveCore(p, copy[p], TRUE) /\ worker' = [worker EXCEPT ![p] = W("fail")]
  <2>1. /\ x.pc = "apply" /\ hr' = hr /\ pull' = pull
        /\ \/ /\ inputs(copy[p].dir, x.list, x.mode) = {} /\ UNCHANGED <<saved, copy, marks>>
              /\ worker' = [worker EXCEPT ![p] = W("synced")]
           \/ \E result \in {"taken", "not saved", "rolled back"} : \E no :
                 /\ saveCore(p, IF result = "rolled back" THEN copy[p] ELSE next(no), result # "not saved")
                 /\ worker' = [worker EXCEPT ![p] = W(IF result = "taken" THEN "synced" ELSE "fail")]
    BY DEF applyPull, Step, Work
  <2> HIDE DEF x, next, W
  <2>2. ASSUME NEW result \in {"taken", "not saved", "rolled back"}, NEW no,
               saveCore(p, IF result = "rolled back" THEN copy[p] ELSE next(no), result # "not saved"),
               worker' = [worker EXCEPT ![p] = W(IF result = "taken" THEN "synced" ELSE "fail")]
        PROVE  \/ saveCore(p, next(no), TRUE) /\ worker' = [worker EXCEPT ![p] = W("synced")]
               \/ saveCore(p, next(no), FALSE) /\ worker' = [worker EXCEPT ![p] = W("fail")]
               \/ saveCore(p, copy[p], TRUE) /\ worker' = [worker EXCEPT ![p] = W("fail")]
    BY <2>2 DEF saveCore
  <2> QED
    BY <2>1, <2>2
<1>2. /\ IsTick(x) /\ ListOK(hr.who, x) /\ IsCopy(copy[p]) /\ copy[p].dir \in [Staff -> DirRows]
      /\ hr.who \in [Staff -> Rows]
      /\ worker = [q \in PullProcs |-> worker[q]]
      /\ x.now <= hr.clock
  BY <1>1 DEF PullInv, PullTyped, InTime, ListsOK, IsHr, IsCopy, IsWorker, Idle
<1>3. ASSUME NEW no PROVE IsCopy(next(no)) /\ next(no).dir = R(no)
  <2>1. R(no) \in [Staff -> DirRows]
    BY <1>1, <1>2, ReconciledHas
  <2> HIDE DEF R
  <2> QED
    BY <1>2, <2>1 DEF IsCopy
<1>4. ASSUME NEW k \in {"synced", "fail"}
      PROVE  IsWorker(W(k)) /\ ListOK(hr.who, W(k)) /\ W(k).pc = k /\ W(k).now = x.now /\ W(k).mode = x.mode
  <2>1. IsTick(W(k)) /\ W(k).pc = k /\ W(k).now = x.now /\ W(k).mode = x.mode
    <3>1. k \in {"claim", "read", "apply", "synced", "succeed", "fail"}
      OBVIOUS
    <3>2. IsTick(x)
      BY <1>2
    <3> HIDE DEF x
    <3> QED
      BY <3>1, <3>2, TickMoves
  <2> HIDE DEF x, W
  <2> QED
    BY <2>1 DEF IsWorker, ListOK
<1>5. ASSUME NEW no
      PROVE  /\ p \in marks.fresh /\ Mended(worker, marks) => Trusted(hr.who, pull, worker, marks.fresh, R(no))
             /\ Counts(p) => Brings(hr.who, W("synced"), R(no))
  <2>1. p \in marks.fresh /\ Mended(worker, marks) => Trusted(hr.who, pull, worker, marks.fresh, R(no))
    BY <1>1, AppliedTrusted
  <2>2. Counts(p) => Brings(hr.who, x, R(no))
    BY <1>1, AppliedBrings
  <2>3. W("synced").now = x.now /\ W("synced").mode = x.mode
    BY <1>4
  <2> HIDE DEF W, R, x
  <2> QED
    BY <2>1, <2>2, <2>3 DEF Brings
<1>6. ASSUME NEW k \in {"synced", "fail"} PROVE GoesOn(pull, x, W(k)) /\ W(k).pc # "idle"
  <2> HIDE DEF W
  <2> QED
    BY <1>4 DEF GoesOn, Landed, Ahead
<1>7. CASE inputs(copy[p].dir, x.list, x.mode) = {} /\ UNCHANGED <<saved, copy, marks>>
           /\ worker' = [worker EXCEPT ![p] = W("synced")]
  <2>1. R({}) = copy[p].dir
    <3>1. DOMAIN x.list = {} /\ \A s \in Staff : x.mode = "full" => ~copy[p].dir[s].on
      BY <1>7 DEF inputs
    <3>2. \A s \in Staff : x.mode = "full" => Inactive(copy[p].dir[s]) = copy[p].dir[s]
      <4>1. \A s \in Staff : copy[p].dir[s] \in DirRows /\ (x.mode = "full" => copy[p].dir[s].on = FALSE)
        BY <1>2, <3>1 DEF DirRows
      <4>2. ASSUME NEW r \in DirRows, r.on = FALSE PROVE Inactive(r) = r
        BY <4>2 DEF DirRows, Inactive
      <4> QED
        BY <4>1, <4>2
    <3>3. R({}) = [s \in Staff |-> copy[p].dir[s]]
      BY <3>1, <3>2 DEF reconciled
    <3> QED
      BY <1>2, <3>3
  <2>2. Counts(p) => Brings(hr.who, W("synced"), copy[p].dir)
    BY <1>5, <2>1
  <2>3. IsPull(pull') /\ pull'.cursor \in Reached(pull, worker) /\ pull'.full \in ReachedFull(pull, worker)
    BY <1>1 DEF PullInv, PullTyped, Reached, ReachedFull
  <2>4. W("synced").mode = x.mode /\ W("synced").now = x.now /\ W("synced").pc = "synced"
    BY <1>4
  <2>5. saved' = saved /\ copy' = copy /\ marks' = marks /\ worker' = [worker EXCEPT ![p] = W("synced")]
    BY <1>7
  <2> HIDE DEF W, R, next
  <2>6. Beside(p, W("synced"))
    BY <1>1, <2>4, <2>5 DEF Beside
  <2>7. W("synced").mode = "full" \/ (p \in marks.fresh /\ Mended(worker, marks)) => Brings(hr.who, W("synced"), copy[p].dir)
    BY <2>2, <2>4 DEF Counts
  <2>8. IsWorker(W("synced")) /\ ListOK(hr.who, W("synced")) /\ GoesOn(pull, x, W("synced")) /\ W("synced").now <= hr.clock
    BY <1>2, <1>4, <1>6
  <2> QED
    BY <1>1, <2>3, <2>5, <2>6, <2>7, <2>8, UnsavedStep
<1> HIDE DEF R, next, W
<1>8. ASSUME NEW no, NEW ok \in BOOLEAN, NEW k \in {"synced", "fail"},
             saveCore(p, next(no), ok), worker' = [worker EXCEPT ![p] = W(k)]
      PROVE  PullInv'
  <2>1. p \in marks.fresh /\ Mended(worker, marks) => Trusted(hr.who, pull, worker, marks.fresh, next(no).dir)
    BY <1>3, <1>5
  <2>2. W(k).pc = "synced" /\ (W(k).mode = "full" \/ (p \in marks.fresh /\ Mended(worker, marks)))
        => Brings(hr.who, W(k), next(no).dir)
    <3>1. CASE k = "synced"
      <4>1. W(k).mode = x.mode
        BY <1>4
      <4> QED
        BY <1>3, <1>5, <3>1, <4>1 DEF Counts
    <3>2. CASE k = "fail"
      BY <1>4, <3>2
    <3> QED
      BY <3>1, <3>2
  <2>3. IsWorker(W(k)) /\ ListOK(hr.who, W(k)) /\ W(k).now = worker[p].now /\ worker[p].pc # "idle" /\ GoesOn(pull, worker[p], W(k))
    BY <1>1, <1>4, <1>6
  <2> QED
    BY <1>1, <1>3, <1>8, <2>1, <2>2, <2>3, AnySave
<1>9. CASE saveCore(p, copy[p], TRUE) /\ worker' = [worker EXCEPT ![p] = W("fail")]
  <2>1. p \in marks.fresh /\ Mended(worker, marks) => Trusted(hr.who, pull, worker, marks.fresh, copy[p].dir)
    BY DEF PullInv, MendedTrusted
  <2>2. IsWorker(W("fail")) /\ ListOK(hr.who, W("fail")) /\ W("fail").now = worker[p].now /\ W("fail").pc = "fail"
        /\ worker[p].pc # "idle" /\ GoesOn(pull, worker[p], W("fail"))
    BY <1>1, <1>4, <1>6
  <2> QED
    BY <1>1, <1>2, <1>9, <2>1, <2>2, AnySave
<1> QED
  BY <1>1, <1>7, <1>8, <1>9

\* A save that no worker makes.
LEMMA PlainSave ==
    ASSUME PullInv, NEW p \in PullProcs, NEW c, IsCopy(c), NEW ok \in BOOLEAN, saveCore(p, c, ok),
           hr' = hr, pull' = pull, worker' = worker,
           worker[p].pc = "synced" /\ Counts(p) => Brings(hr.who, worker[p], c.dir),
           p \in marks.fresh /\ Mended(worker, marks) => Trusted(hr.who, pull, worker, marks.fresh, c.dir)
    PROVE  PullInv'
<1> DEFINE w == worker[p]
<1>1. IsWorker(w) /\ ListOK(hr.who, w) /\ worker = [worker EXCEPT ![p] = w]
  BY DEF PullInv, PullTyped, ListsOK
<1>2. GoesOn(pull, worker[p], w)
  BY DEF GoesOn
<1>3. worker' = [worker EXCEPT ![p] = w]
  BY <1>1
<1>4. w.pc = "synced" /\ (w.mode = "full" \/ (p \in marks.fresh /\ Mended(worker, marks))) => Brings(hr.who, w, c.dir)
  BY DEF Counts
<1> QED
  BY <1>1, <1>2, <1>3, <1>4, AnySave

LEMMA CoreKnown ==
    ASSUME PullInv, NEW p \in PullProcs
    PROVE  /\ IsCopy(copy[p])
           /\ worker[p].pc = "synced" /\ Counts(p) => Brings(hr.who, worker[p], copy[p].dir)
           /\ p \in marks.fresh /\ Mended(worker, marks) => Trusted(hr.who, pull, worker, marks.fresh, copy[p].dir)
BY DEF PullInv, PullTyped, MendedTrusted, SyncedOK

\* What the directory has may be replaced by what the HR system says now.
LEMMA RowTrusted ==
    ASSUME NEW who \in [Staff -> Rows], NEW s \in Staff, NEW d \in [Staff -> DirRows]
    PROVE  LET e == [d EXCEPT ![s] = Taken(who[s])]
           IN  /\ e \in [Staff -> DirRows]
               /\ \A c : (Has(who, d, c) => Has(who, e, c)) /\ (HasLeft(who, d, c) => HasLeft(who, e, c))
<1> DEFINE e == [d EXCEPT ![s] = Taken(who[s])]
<1>1. Taken(who[s]) \in DirRows /\ Taken(who[s]).at = who[s].at /\ Taken(who[s]).on = who[s].on
  <2>1. who[s] \in Rows
    OBVIOUS
  <2> QED
    BY <2>1 DEF Taken, Rows, DirRows, Never
<1>2. e \in [Staff -> DirRows] /\ \A t \in Staff : e[t] = IF t = s THEN Taken(who[s]) ELSE d[t]
  BY <1>1
<1> HIDE DEF e
<1>3. \A c : (Has(who, d, c) => Has(who, e, c)) /\ (HasLeft(who, d, c) => HasLeft(who, e, c))
  BY <1>1, <1>2 DEF Has, HasLeft
<1> QED
  BY <1>2, <1>3 DEF e

\* The requests: they change a connector or one row of the directory.
LEMMA RequestSteps ==
    ASSUME PullInv,
           createEnterpriseHRISConnector \/ updateEnterpriseHRISConnector \/ webhookSync
    PROVE  PullInv'
<1>1. CASE createEnterpriseHRISConnector
  <2>1. PICK p \in PullProcs, st \in {"active", "disabled"}, ok \in BOOLEAN :
            /\ hr' = hr /\ pull' = pull /\ worker' = worker
            /\ \/ saveCore(p, CreateHRISConnector(copy[p], st), ok)
               \/ saved' = saved /\ copy' = copy /\ marks' = marks
    BY <1>1 DEF createEnterpriseHRISConnector
  <2> DEFINE c == CreateHRISConnector(copy[p], st)
  <2>2. IsCopy(c) /\ c.dir = copy[p].dir
    <3>1. IsCopy(copy[p])
      BY CoreKnown
    <3> QED
      BY <3>1 DEF CreateHRISConnector, IsCopy
  <2>3. CASE saveCore(p, c, ok)
    <3> HIDE DEF c
    <3> QED
      BY <2>1, <2>2, <2>3, CoreKnown, PlainSave
  <2>4. CASE saved' = saved /\ copy' = copy /\ marks' = marks
    BY <2>1, <2>4 DEF PullInv, PullTyped, InTime, ListsOK, MendedTrusted, SyncedOK, Counts
  <2> QED
    BY <2>1, <2>3, <2>4
<1>2. CASE updateEnterpriseHRISConnector
  <2>1. PICK p \in PullProcs, st \in {"active", "disabled"}, ok \in BOOLEAN :
            /\ hr' = hr /\ pull' = pull /\ worker' = worker
            /\ saveCore(p, UpdateHRISConnector(copy[p], st), ok)
    BY <1>2 DEF updateEnterpriseHRISConnector
  <2> DEFINE c == UpdateHRISConnector(copy[p], st)
  <2>2. IsCopy(c) /\ c.dir = copy[p].dir
    <3>1. IsCopy(copy[p])
      BY CoreKnown
    <3> QED
      BY <3>1 DEF UpdateHRISConnector, IsCopy
  <2>3. saveCore(p, c, ok)
    BY <2>1
  <2> HIDE DEF c
  <2> QED
    BY <2>1, <2>2, <2>3, CoreKnown, PlainSave
<1>3. CASE webhookSync
  <2>1. PICK p \in PullProcs, s \in Staff, refused \in BOOLEAN, ok \in BOOLEAN :
            /\ hr' = hr /\ pull' = pull /\ worker' = worker
            /\ saveCore(p, [copy[p] EXCEPT !.dir[s] = IF refused THEN @ ELSE Taken(hr.who[s])], ok)
    BY <1>3 DEF webhookSync, Row
  <2> DEFINE row == IF refused THEN copy[p].dir[s] ELSE Taken(hr.who[s])
             d == [copy[p].dir EXCEPT ![s] = row]
             c == [copy[p] EXCEPT !.dir = d]
  <2>2. hr.who \in [Staff -> Rows] /\ copy[p].dir \in [Staff -> DirRows]
    BY CoreKnown DEF PullInv, PullTyped, IsHr, IsCopy
  <2>3. /\ d \in [Staff -> DirRows]
        /\ \A t : (Has(hr.who, copy[p].dir, t) => Has(hr.who, d, t)) /\ (HasLeft(hr.who, copy[p].dir, t) => HasLeft(hr.who, d, t))
    <3>1. CASE refused
      <4>1. d = copy[p].dir
        BY <2>2, <3>1
      <4> QED
        BY <2>2, <4>1
    <3>2. CASE ~refused
      <4>1. d = [copy[p].dir EXCEPT ![s] = Taken(hr.who[s])]
        BY <3>2
      <4> QED
        BY <2>2, <4>1, RowTrusted
    <3> QED
      BY <3>1, <3>2
  <2>6. saveCore(p, c, ok)
    BY <2>1
  <2> HIDE DEF d
  <2>4. /\ p \in marks.fresh /\ Mended(worker, marks) => Trusted(hr.who, pull, worker, marks.fresh, d)
        /\ worker[p].pc = "synced" /\ Counts(p) => Brings(hr.who, worker[p], d)
    BY <2>3, CoreKnown DEF Trusted, HasAll, Brings
  <2>5. IsCopy(c) /\ c.dir = d
    <3>1. IsCopy(copy[p])
      BY CoreKnown
    <3> QED
      BY <2>3, <3>1 DEF IsCopy
  <2> HIDE DEF c
  <2> QED
    BY <2>1, <2>4, <2>5, <2>6, PlainSave
<1> QED
  BY <1>1, <1>2, <1>3

\* The HR system changes: nothing that matters is later than before the change.
LEMMA HrStep ==
    ASSUME PullInv, HrChanges
    PROVE  PullInv'
<1>1. PICK s \in Staff, on \in BOOLEAN :
          /\ hr' = [who |-> [hr.who EXCEPT ![s] = [at |-> hr.clock + 1, on |-> on]], clock |-> hr.clock + 1]
          /\ UNCHANGED <<saved, copy, vault, pull, worker, marks, pullLeft>>
  BY DEF HrChanges
<1> DEFINE row == [at |-> hr.clock + 1, on |-> on]
           who2 == hr'.who
<1>2. IsHr(hr) /\ hr.clock \in Int /\ hr.who \in [Staff -> Rows]
  BY DEF PullInv, PullTyped, IsHr
<1>3. row \in Rows /\ row.at = hr.clock + 1
  BY <1>2 DEF Rows
<1> HIDE DEF row
<1>4. /\ hr'.clock = hr.clock + 1 /\ who2 = [hr.who EXCEPT ![s] = row] /\ IsHr(hr')
  <2>1. hr' = [who |-> [hr.who EXCEPT ![s] = row], clock |-> hr.clock + 1]
    BY <1>1 DEF row
  <2> QED
    BY <1>2, <1>3, <2>1 DEF IsHr
<1>5. \A t \in Staff : who2[t] = hr.who[t] \/ who2[t].at = hr.clock + 1
  BY <1>2, <1>3, <1>4
<1>6. \A t \in Staff : hr.who[t] \in Rows /\ who2[t] \in Rows /\ who2[t].at \in Int
  BY <1>2, <1>4 DEF IsHr, Rows
<1> HIDE DEF who2
<1>7. ASSUME NEW c \in Int, c <= hr.clock
      PROVE  \A t \in Staff : who2[t].at <= c => who2[t] = hr.who[t]
  BY <1>2, <1>5, <1>7
<1>8. ASSUME NEW c \in Int, c <= hr.clock, NEW d
      PROVE  (Has(hr.who, d, c) => Has(who2, d, c)) /\ (HasLeft(hr.who, d, c) => HasLeft(who2, d, c))
  BY <1>7, <1>8 DEF Has, HasLeft
<1>9. /\ Reached(pull, worker) \cup ReachedFull(pull, worker) \cup Bases(worker, PullProcs) \subseteq Int
      /\ UpTo(hr.clock, pull, worker)
      /\ Bases(worker, marks.fresh) \subseteq Bases(worker, PullProcs)
  BY TimesInt DEF PullInv, PullTyped, InTime, IsMarks, Bases
<1>10. ASSUME NEW d, Trusted(hr.who, pull, worker, marks.fresh, d) PROVE Trusted(who2, pull, worker, marks.fresh, d)
  BY <1>8, <1>9, <1>10 DEF Trusted, HasAll, UpTo
<1>11. PullTyped'
  BY <1>1, <1>4 DEF PullInv, PullTyped
<1>12. \A q \in PullProcs : worker[q].pc # "idle" => worker[q].now \in Int /\ worker[q].now <= hr.clock
  BY DEF PullInv, PullTyped, InTime, IsWorker, IsTick, Idle
<1>13. InTime'
  <2>1. UpTo(hr'.clock, pull, worker)
    BY <1>2, <1>4, <1>9 DEF UpTo
  <2>2. \A q \in PullProcs : worker[q].pc # "idle" => worker[q].now <= hr'.clock
    BY <1>2, <1>4, <1>12
  <2> QED
    BY <1>1, <2>1, <2>2 DEF PullInv, InTime
<1>14. ListsOK'
  <2>1. ASSUME NEW q \in PullProcs PROVE ListOK(who2, worker[q])
    <3>1. SUFFICES ASSUME worker[q].pc = "apply" PROVE ListOK(who2, worker[q])
      BY DEF ListOK
    <3>2. ListOK(hr.who, worker[q])
      BY DEF PullInv, ListsOK
    <3>3. \A t \in Staff : who2[t].at <= worker[q].now => who2[t] = hr.who[t]
      BY <1>7, <1>12, <3>1
    <3> QED
      BY <3>2, <3>3 DEF ListOK
  <2> QED
    BY <1>1, <2>1 DEF ListsOK, who2
<1>15. MendedTrusted'
  BY <1>1, <1>10 DEF PullInv, MendedTrusted, who2
<1>16. SyncedOK'
  <2>1. ASSUME NEW q \in PullProcs, worker[q].pc = "synced", Counts(q) PROVE Brings(who2, worker[q], copy[q].dir)
    <3>1. Brings(hr.who, worker[q], copy[q].dir)
      BY <2>1 DEF PullInv, SyncedOK
    <3> QED
      BY <1>8, <1>12, <2>1, <3>1 DEF Brings
  <2> QED
    BY <1>1, <2>1 DEF SyncedOK, Counts, who2
<1> QED
  BY <1>11, <1>13, <1>14, <1>15, <1>16 DEF PullInv

\* The steps of a worker that save nothing.
LEMMA StartStep ==
    ASSUME PullInv, NEW p \in PullProcs, startPullTick(p)
    PROVE  PullInv'
<1>1. PICK due \in BOOLEAN :
          /\ copy' = [copy EXCEPT ![p] = saved]
          /\ worker' = [worker EXCEPT ![p] =
                [pc |-> "claim", now |-> hr.clock, mode |-> pullMode(saved.conn, due), seen |-> pull.cursor, cursor |-> Never, list |-> <<>>]]
          /\ pull' = IF PullLeased THEN [pull EXCEPT !.lease = p] ELSE pull
          /\ marks' = [marks EXCEPT !.fresh = @ \cup {p}, !.during = @ \ {p}]
          /\ hr' = hr /\ saved' = saved
  BY DEF startPullTick, Work
<1> DEFINE m == pullMode(saved.conn, due)
           w == [pc |-> "claim", now |-> hr.clock, mode |-> m, seen |-> pull.cursor, cursor |-> Never, list |-> <<>>]
<1>2. m \in {"full", "incremental"} /\ hr.clock \in Int /\ IsPull(pull)
  BY DEF pullMode, PullInv, PullTyped, IsHr
<1> HIDE DEF m
<1>3. IsTick(w) /\ w.pc = "claim" /\ w.now = hr.clock
  BY <1>2 DEF IsTick, Never
<1>4. worker' = [worker EXCEPT ![p] = w]
  BY <1>1 DEF m
<1> HIDE DEF w
<1>5. IsWorker(w) /\ ListOK(hr.who, w) /\ GoesOn(pull, worker[p], w)
  BY <1>3 DEF IsWorker, ListOK, GoesOn, Landed, Ahead
<1>6. IsPull(pull') /\ pull'.cursor = pull.cursor /\ pull'.full = pull.full
  BY <1>1, <1>2 DEF IsPull
<1>7. pull'.cursor \in Reached(pull, worker) /\ pull'.full \in ReachedFull(pull, worker)
  BY <1>6 DEF Reached, ReachedFull
<1>8. Beside(p, w)
  BY <1>1, <1>3 DEF Beside
<1> QED
  <2>1. (w.pc # "idle" => w.now <= hr.clock) /\ w.pc # "synced"
    BY <1>2, <1>3
  <2> QED
    BY <1>1, <1>4, <1>5, <1>6, <1>7, <1>8, <2>1, UnsavedStep

LEMMA CrashStep ==
    ASSUME PullInv, NEW p \in PullProcs, PullCrash(p)
    PROVE  PullInv'
<1>1. /\ copy' = [copy EXCEPT ![p] = saved] /\ worker' = [worker EXCEPT ![p] = Idle]
      /\ marks' = [marks EXCEPT !.fresh = @ \cup {p}]
      /\ hr' = hr /\ saved' = saved /\ pull' = pull
  BY DEF PullCrash, Work
<1>2. IsWorker(Idle) /\ ListOK(hr.who, Idle) /\ GoesOn(pull, worker[p], Idle) /\ Idle.pc = "idle"
  BY DEF IsWorker, ListOK, GoesOn, Landed, Ahead, Idle
<1>3. IsPull(pull') /\ pull'.cursor \in Reached(pull, worker) /\ pull'.full \in ReachedFull(pull, worker)
  BY <1>1 DEF PullInv, PullTyped, Reached, ReachedFull
<1>4. Beside(p, Idle)
  BY <1>1 DEF Beside
<1> QED
  BY <1>1, <1>2, <1>3, <1>4, UnsavedStep

\* A step of a worker that has a tick to go on with, which changes no mark.
LEMMA TickStep ==
    ASSUME PullInv, NEW p \in PullProcs, NEW w, IsWorker(w), ListOK(hr.who, w), GoesOn(pull, worker[p], w),
           worker[p].pc # "idle", w.pc # "synced", w.pc # "idle" => w.now = worker[p].now,
           worker' = [worker EXCEPT ![p] = w], hr' = hr, saved' = saved, copy' = copy, marks' = marks,
           IsPull(pull'), pull'.cursor = pull.cursor, pull'.full = pull.full
    PROVE  PullInv'
<1>1. pull'.cursor \in Reached(pull, worker) /\ pull'.full \in ReachedFull(pull, worker)
  BY DEF Reached, ReachedFull
<1>2. w.pc # "idle" => w.now <= hr.clock
  BY DEF PullInv, InTime
<1>3. Beside(p, w)
  BY DEF Beside
<1> QED
  BY <1>1, <1>2, <1>3, UnsavedStep

LEMMA IdleStep ==
    ASSUME PullInv, NEW p \in PullProcs, worker[p].pc # "idle", worker' = [worker EXCEPT ![p] = Idle],
           hr' = hr, saved' = saved, copy' = copy, marks' = marks,
           IsPull(pull'), pull'.cursor = pull.cursor, pull'.full = pull.full
    PROVE  PullInv'
<1>1. IsWorker(Idle) /\ ListOK(hr.who, Idle) /\ GoesOn(pull, worker[p], Idle) /\ Idle.pc = "idle"
  BY DEF IsWorker, ListOK, GoesOn, Landed, Ahead, Idle
<1> QED
  BY <1>1, TickStep

\* The lease and the state of a pull may change: the cursors do not.
SameCursors(r, s) == IsPull(r) /\ r.cursor = s.cursor /\ r.full = s.full

LEMMA StateMoves == ASSUME NEW s, IsPull(s), NEW k PROVE SameCursors([s EXCEPT !.st = k], s)
BY DEF IsPull, SameCursors

LEMMA FailsMove == ASSUME NEW s, IsPull(s), NEW n PROVE SameCursors([s EXCEPT !.fails = n], s)
BY DEF IsPull, SameCursors

LEMMA LeaseMoves == ASSUME NEW s, IsPull(s), NEW l PROVE SameCursors([s EXCEPT !.lease = l], s)
BY DEF IsPull, SameCursors

LEMMA ReleaseMoves == ASSUME NEW s, IsPull(s), NEW p PROVE SameCursors(Released(p, s), s)
BY LeaseMoves DEF Released

LEMMA OutcomeMoves == ASSUME NEW s, IsPull(s), NEW k, NEW n PROVE SameCursors([s EXCEPT !.st = k, !.fails = n], s)
<1> DEFINE t == [s EXCEPT !.st = k]
           r == [t EXCEPT !.fails = n]
<1>1. SameCursors(t, s)
  BY StateMoves
<1>2. [s EXCEPT !.st = k, !.fails = n] = r
  OBVIOUS
<1> HIDE DEF t
<1>3. SameCursors(r, t)
  BY <1>1, FailsMove DEF SameCursors
<1> HIDE DEF r
<1> QED
  BY <1>1, <1>2, <1>3 DEF SameCursors

LEMMA ClaimStep ==
    ASSUME PullInv, NEW p \in PullProcs, claimPull(p)
    PROVE  PullInv'
<1> DEFINE x == worker[p]
           a == [x EXCEPT !.pc = "read"]
           w == [a EXCEPT !.cursor = pull.cursor]
<1>1. /\ x.pc = "claim" /\ hr' = hr /\ saved' = saved /\ copy' = copy /\ marks' = marks
      /\ \/ pull' = MarkStarted /\ worker' = [worker EXCEPT ![p] = w]
         \/ pull' = Released(p, pull) /\ worker' = [worker EXCEPT ![p] = Idle]
  BY DEF claimPull, EndTick, Work
<1>2. IsTick(x) /\ IsPull(pull) /\ pull.cursor \in Int
  BY <1>1 DEF PullInv, PullTyped, IsWorker, IsPull, Idle
<1>3. IsTick(a) /\ a.pc = "read" /\ a.now = x.now
  <2> HIDE DEF x
  <2> QED
    BY <1>2, TickMoves
<1> HIDE DEF a
<1>4. IsTick(w) /\ w.pc = "read" /\ w.now = x.now /\ w.cursor = pull.cursor
  <2>1. /\ w.pc = "read" /\ w.now = a.now /\ w.mode = a.mode /\ w.cursor = pull.cursor
        /\ w = [pc |-> w.pc, now |-> w.now, mode |-> w.mode, seen |-> w.seen, cursor |-> w.cursor, list |-> w.list]
    BY <1>3 DEF IsTick
  <2> HIDE DEF w
  <2> QED
    BY <1>2, <1>3, <2>1 DEF IsTick
<1> HIDE DEF w
<1>5. CASE pull' = MarkStarted /\ worker' = [worker EXCEPT ![p] = w]
  <2>1. IsPull(pull') /\ pull'.cursor = pull.cursor /\ pull'.full = pull.full
    BY <1>2, <1>5, StateMoves DEF MarkStarted, SameCursors
  <2>2. IsWorker(w) /\ ListOK(hr.who, w) /\ GoesOn(pull, worker[p], w)
    BY <1>4 DEF IsWorker, ListOK, GoesOn, Landed, Ahead
  <2> QED
    BY <1>1, <1>4, <1>5, <2>1, <2>2, TickStep
<1>6. CASE pull' = Released(p, pull) /\ worker' = [worker EXCEPT ![p] = Idle]
  <2>1. IsPull(pull') /\ pull'.cursor = pull.cursor /\ pull'.full = pull.full
    BY <1>2, <1>6, ReleaseMoves DEF SameCursors
  <2> QED
    BY <1>1, <1>6, <2>1, IdleStep
<1> QED
  BY <1>1, <1>5, <1>6

\* A step to "fail", from anywhere.
LEMMA FailsStep ==
    ASSUME PullInv, NEW p \in PullProcs, IsTick(worker[p]), worker' = [worker EXCEPT ![p] = [worker[p] EXCEPT !.pc = "fail"]],
           hr' = hr, saved' = saved, copy' = copy, marks' = marks, pull' = pull
    PROVE  PullInv'
<1> DEFINE x == worker[p]
           w == [x EXCEPT !.pc = "fail"]
<1>1. IsTick(w) /\ w.pc = "fail" /\ w.now = x.now
  <2> HIDE DEF x
  <2>1. IsTick(x)
    BY DEF x
  <2> QED
    BY <2>1, TickMoves
<1>2. worker' = [worker EXCEPT ![p] = w]
  OBVIOUS
<1>3. x.pc # "idle"
  BY DEF IsTick
<1> HIDE DEF w
<1>4. IsWorker(w) /\ ListOK(hr.who, w) /\ GoesOn(pull, x, w)
  BY <1>1 DEF IsWorker, ListOK, GoesOn, Landed, Ahead
<1>5. IsPull(pull') /\ pull'.cursor = pull.cursor /\ pull'.full = pull.full
  BY DEF PullInv, PullTyped
<1> QED
  BY <1>1, <1>2, <1>3, <1>4, <1>5, TickStep

LEMMA ReadStep ==
    ASSUME PullInv, NEW p \in PullProcs, readPull(p)
    PROVE  PullInv'
<1> DEFINE x == worker[p]
           mode == IF x.seen = Never THEN "full" ELSE x.mode
           people == Listed(mode, x.cursor, x.now)
           list == [s \in people |-> hr.who[s]]
           a == [x EXCEPT !.pc = "apply"]
           b == [a EXCEPT !.mode = mode]
           w == [b EXCEPT !.list = list]
<1>1. /\ x.pc = "read" /\ hr' = hr /\ saved' = saved /\ copy' = copy /\ marks' = marks /\ pull' = pull
      /\ \/ worker' = [worker EXCEPT ![p] = [x EXCEPT !.pc = "apply", !.mode = mode, !.list = list]]
         \/ worker' = [worker EXCEPT ![p] = [x EXCEPT !.pc = "fail"]]
  BY DEF readPull, Step, Work, Row
<1>2. IsTick(x) /\ hr.who \in [Staff -> Rows] /\ IsPull(pull)
  BY <1>1 DEF PullInv, PullTyped, IsWorker, IsHr, Idle
<1>3. mode \in {"full", "incremental"} /\ x.now \in Int /\ x.cursor \in Int
  BY <1>2 DEF IsTick
<1>4. /\ people \subseteq Staff
      /\ \A s \in Staff : s \in people <=> hr.who[s].on /\ (mode = "incremental" => hr.who[s].at \in (x.cursor + 1)..x.now)
  BY DEF Listed
<1>5. DOMAIN list = people /\ \A s \in people : list[s] = hr.who[s] /\ list[s] \in Rows
  BY <1>2, <1>4
<1>6. [x EXCEPT !.pc = "apply", !.mode = mode, !.list = list] = w
  BY Zenon
<1> HIDE DEF mode, people, list
<1>7. IsTick(a) /\ a.pc = "apply" /\ a.now = x.now /\ a.cursor = x.cursor
  <2> HIDE DEF x
  <2> QED
    BY <1>2, TickMoves
<1> HIDE DEF a
<1>8. /\ b.pc = "apply" /\ b.now = x.now /\ b.cursor = x.cursor /\ b.mode = mode
      /\ b = [pc |-> b.pc, now |-> b.now, mode |-> b.mode, seen |-> b.seen, cursor |-> b.cursor, list |-> b.list]
  BY <1>7 DEF IsTick
<1> HIDE DEF b
<1>9. /\ w.pc = "apply" /\ w.now = x.now /\ w.cursor = x.cursor /\ w.mode = mode /\ w.list = list
      /\ w = [pc |-> w.pc, now |-> w.now, mode |-> w.mode, seen |-> w.seen, cursor |-> w.cursor, list |-> w.list]
  BY <1>8
<1> HIDE DEF w
<1>10. IsTick(w)
  BY <1>3, <1>9 DEF IsTick
<1>11. ListOK(hr.who, w)
  <2>1. \A s \in DOMAIN w.list : w.list[s] \in Rows
    BY <1>5, <1>9
  <2>2. ASSUME NEW s \in Staff, hr.who[s].at <= w.now
        PROVE  /\ s \in DOMAIN w.list => w.list[s] = hr.who[s] /\ hr.who[s].on
               /\ hr.who[s].on /\ (w.mode = "full" \/ hr.who[s].at > w.cursor) => s \in DOMAIN w.list
    <3>1. s \in DOMAIN w.list <=> s \in people
      BY <1>5, <1>9
    <3>2. hr.who[s].at \in Int
      BY <1>2 DEF Rows
    <3>3. s \in people => w.list[s] = hr.who[s] /\ hr.who[s].on
      BY <1>4, <1>5, <1>9
    <3>4. hr.who[s].on /\ (mode = "full" \/ hr.who[s].at > x.cursor) => s \in people
      BY <1>3, <1>4, <1>9, <2>2, <3>2
    <3> QED
      BY <1>9, <3>1, <3>3, <3>4
  <2> QED
    BY <2>1, <2>2 DEF ListOK
<1>12. CASE worker' = [worker EXCEPT ![p] = w]
  <2>1. IsWorker(w) /\ GoesOn(pull, x, w)
    BY <1>1, <1>9, <1>10 DEF IsWorker, GoesOn, Landed, Ahead
  <2> QED
    BY <1>1, <1>2, <1>9, <1>11, <1>12, <2>1, TickStep
<1>13. CASE worker' = [worker EXCEPT ![p] = [x EXCEPT !.pc = "fail"]]
  BY <1>1, <1>2, <1>13, FailsStep
<1> QED
  BY <1>1, <1>6, <1>12, <1>13

\* The second save of a worker: with it the cursor may move to the time it began.
LEMMA SyncedStep ==
    ASSUME PullInv, NEW p \in PullProcs, MarkHRISConnectorSynced(p)
    PROVE  PullInv'
<1> DEFINE x == worker[p]
           c == [copy[p] EXCEPT !.conn.last = x.now]
           W(k) == [x EXCEPT !.pc = k]
<1>1. /\ x.pc = "synced" /\ hr' = hr /\ pull' = pull
      /\ \/ saveCore(p, c, TRUE) /\ worker' = [worker EXCEPT ![p] = W("succeed")]
         \/ saveCore(p, c, FALSE) /\ worker' = [worker EXCEPT ![p] = W("fail")]
  BY DEF MarkHRISConnectorSynced, Step, Work
<1>2. /\ IsTick(x) /\ IsCopy(copy[p]) /\ x.now \in Int
      /\ worker = [q \in PullProcs |-> worker[q]]
      /\ UpTo(hr.clock, pull, worker) /\ x.now <= hr.clock
  BY <1>1 DEF PullInv, PullTyped, InTime, IsWorker, IsTick, Idle
<1>3. ASSUME NEW k \in {"succeed", "fail"}
      PROVE  IsWorker(W(k)) /\ ListOK(hr.who, W(k)) /\ W(k).pc = k /\ W(k).now = x.now /\ W(k).mode = x.mode
  <2>1. k \in {"claim", "read", "apply", "synced", "succeed", "fail"}
    OBVIOUS
  <2>2. IsTick(W(k)) /\ W(k).pc = k /\ W(k).now = x.now /\ W(k).mode = x.mode
    <3> HIDE DEF x
    <3> QED
      BY <1>2, <2>1, TickMoves
  <2> HIDE DEF x, W
  <2> QED
    BY <2>2 DEF IsWorker, ListOK
<1>4. IsCopy(c) /\ c.dir = copy[p].dir
  BY <1>2 DEF IsCopy
<1> HIDE DEF W, c
<1>5. CASE saveCore(p, c, FALSE) /\ worker' = [worker EXCEPT ![p] = W("fail")]
  <2>1. IsWorker(W("fail")) /\ ListOK(hr.who, W("fail")) /\ GoesOn(pull, x, W("fail")) /\ W("fail").pc = "fail"
        /\ W("fail").now = x.now
    BY <1>1, <1>3 DEF GoesOn, Landed, Ahead
  <2>2. p \in marks.fresh /\ Mended(worker, marks) => Trusted(hr.who, pull, worker, marks.fresh, c.dir)
    BY <1>4, CoreKnown
  <2> QED
    BY <1>1, <1>4, <1>5, <2>1, <2>2, AnySave
<1>6. CASE saveCore(p, c, TRUE) /\ worker' = [worker EXCEPT ![p] = W("succeed")]
  <2> DEFINE w == W("succeed")
  <2>1. Landed(w) /\ w.now = x.now /\ w.mode = x.mode /\ IsWorker(w) /\ ListOK(hr.who, w) /\ w.pc = "succeed"
    BY <1>3 DEF Landed
  <2> HIDE DEF w
  <2>2. /\ Reached(pull, worker') \subseteq Reached(pull, worker) \cup {x.now}
        /\ ReachedFull(pull, worker') \subseteq ReachedFull(pull, worker) \cup {t \in {x.now} : x.mode = "full"}
        /\ Bases(worker', {p}) = {}
        /\ Bases(worker', PullProcs) \subseteq Bases(worker, PullProcs)
    <3>1. worker' = [worker EXCEPT ![p] = w]
      BY <1>6 DEF w
    <3>2. worker = [q \in PullProcs |-> worker[q]] /\ Landed(w)
      BY <1>2, <2>1
    <3> DEFINE vk == [worker EXCEPT ![p] = w]
    <3>3. /\ Reached(pull, vk) \subseteq Reached(pull, worker) \cup {w.now}
          /\ ReachedFull(pull, vk) \subseteq ReachedFull(pull, worker) \cup {t \in {w.now} : w.mode = "full"}
          /\ Bases(vk, {p}) = {}
          /\ Bases(vk, PullProcs) \subseteq Bases(worker, PullProcs)
      BY <3>2, Lands, Zenon
    <3> HIDE DEF vk
    <3> QED
      BY <2>1, <3>1, <3>3 DEF vk
  <2>3. ASSUME NEW n, UpTo(n, pull, worker), x.now <= n PROVE UpTo(n, pull, worker')
    BY <2>2, <2>3 DEF UpTo
  <2>4. UpTo(hr.clock, pull, worker')
    BY <1>2, <2>3
  <2>5. CASE p \notin marks.fresh
    <3>1. worker' = [worker EXCEPT ![p] = w] /\ saveCore(p, c, TRUE)
      BY <1>6 DEF w
    <3> QED
      BY <1>1, <1>4, <2>1, <2>4, <2>5, <3>1, StaleSave
  <2>6. CASE p \in marks.fresh
    <3>1. /\ PullTyped' /\ ListsOK'
          /\ copy'[p] = c /\ worker'[p] = w
          /\ \A q \in PullProcs : q # p => copy'[q] = copy[q] /\ worker'[q] = worker[q]
          /\ saved' = c
          /\ marks'.fresh = {p} /\ marks'.during = marks.during
          /\ ~marks'.dirty => ~marks.dirty
      <4>1. worker' = [worker EXCEPT ![p] = w] /\ saveCore(p, c, TRUE) /\ hr' = hr /\ pull' = pull
        BY <1>1, <1>6 DEF w
      <4> HIDE DEF x
      <4> QED
        BY <1>4, <2>1, <2>6, <4>1, SaveTyped
    <3>3. p \notin marks.during => UpTo(x.now, pull, worker)
      BY <1>1, <2>6 DEF PullInv, InTime
    <3>4. InTime'
      <4>1. \A q \in PullProcs : worker'[q].pc # "idle" => worker'[q].now <= hr.clock
        BY <1>2, <2>1, <3>1 DEF PullInv, InTime
      <4>2. \A q \in marks'.fresh \ marks'.during : UpTo(worker'[q].now, pull, worker')
        BY <1>2, <2>1, <2>3, <3>1, <3>3
      <4> QED
        BY <1>1, <2>4, <4>1, <4>2 DEF InTime
    <3>5. ASSUME Mended(worker', marks')
          PROVE  p \notin marks.during /\ Trusted(hr.who, pull, worker', {p}, copy[p].dir)
      <4>1. Mended(worker, marks) \/ (x.mode = "full" /\ p \notin marks.during)
        <5>1. \A q \in PullProcs : q # p /\ Mends(worker', marks', q) => Mends(worker, marks, q)
          BY <3>1 DEF Mends
        <5>2. Mends(worker', marks', p) => x.mode = "full" /\ p \notin marks.during
          BY <2>1, <3>1 DEF Mends
        <5> QED
          BY <3>1, <3>5, <5>1, <5>2 DEF Mended
      <4>2. p \notin marks.during
        BY <1>1, <2>6, <4>1 DEF PullInv, MendedTrusted
      <4>3. /\ Reached(pull, worker) \cup ReachedFull(pull, worker) \cup Bases(worker, PullProcs) \subseteq Int
            /\ \A t \in Reached(pull, worker) \cup ReachedFull(pull, worker) : t <= x.now
        BY <3>3, <4>2, TimesInt DEF PullInv, UpTo
      <4>4. Brings(hr.who, x, copy[p].dir)
        BY <1>1, <2>6, <4>1, CoreKnown DEF Counts
      <4>5. CASE x.mode = "full"
        <5>1. \A t \in Int : t <= x.now => Has(hr.who, copy[p].dir, t) /\ HasLeft(hr.who, copy[p].dir, t)
          <6>1. \A s \in Staff : hr.who[s].at \in Int
            BY DEF PullInv, PullTyped, IsHr, Rows
          <6>2. Has(hr.who, copy[p].dir, x.now) /\ HasLeft(hr.who, copy[p].dir, x.now)
            BY <4>4, <4>5 DEF Brings
          <6>3. ASSUME NEW t \in Int, t <= x.now, NEW s \in Staff, hr.who[s].at <= t PROVE hr.who[s].at <= x.now
            BY <1>2, <6>1, <6>3
          <6> HIDE DEF x
          <6> QED
            BY <6>2, <6>3 DEF Has, HasLeft
        <5>2. /\ \A t \in Reached(pull, worker') \cup Bases(worker', {p}) : t \in Int /\ t <= x.now
              /\ \A t \in ReachedFull(pull, worker') : t \in Int /\ t <= x.now
          <6>1. PICK n : n = x.now /\ n \in Int
            BY <1>2
          <6>2. n <= n
            BY <6>1
          <6>3. /\ Reached(pull, worker') \subseteq Reached(pull, worker) \cup {n} /\ Bases(worker', {p}) = {}
                /\ ReachedFull(pull, worker') \subseteq ReachedFull(pull, worker) \cup {n}
            BY <2>2, <6>1
          <6>4. \A t \in Reached(pull, worker) \cup ReachedFull(pull, worker) : t \in Int /\ t <= n
            BY <4>3, <6>1
          <6> HIDE DEF x
          <6> QED
            BY <6>1, <6>2, <6>3, <6>4, Zenon
        <5> QED
          BY <4>2, <5>1, <5>2 DEF Trusted, HasAll
      <4>6. CASE x.mode # "full"
        <5>1. /\ Trusted(hr.who, pull, worker, marks.fresh, copy[p].dir)
              /\ Has(hr.who, copy[p].dir, x.now)
          BY <2>6, <4>1, <4>4, <4>6, CoreKnown DEF Brings
        <5> QED
          BY <2>2, <4>2, <4>6, <5>1 DEF Trusted, HasAll
      <4> QED
        BY <4>5, <4>6
    <3>6. MendedTrusted'
      <4>1. \A q \in marks'.fresh : q = p
        BY <3>1
      <4> QED
        BY <1>1, <1>4, <3>1, <3>5, <4>1 DEF MendedTrusted
    <3>7. SyncedOK'
      <4>1. SUFFICES ASSUME NEW q \in PullProcs, worker'[q].pc = "synced",
                            worker'[q].mode = "full" \/ (q \in marks'.fresh /\ Mended(worker', marks'))
                     PROVE  Brings(hr.who, worker'[q], copy'[q].dir)
        BY <1>1 DEF SyncedOK, Counts
      <4>2. q # p
        BY <2>1, <3>1, <4>1
      <4>3. worker'[q].mode = "full"
        BY <3>1, <4>1, <4>2
      <4> QED
        BY <3>1, <4>1, <4>2, <4>3 DEF PullInv, SyncedOK, Counts
    <3> QED
      BY <3>1, <3>4, <3>6, <3>7 DEF PullInv
  <2> QED
    BY <2>5, <2>6
<1> QED
  BY <1>1, <1>5, <1>6

LEMMA SucceedStep ==
    ASSUME PullInv, NEW p \in PullProcs, succeedPull(p)
    PROVE  PullInv'
<1> DEFINE x == worker[p]
           s == MarkSucceeded(x.mode, x.now)
<1>1. PICK ok \in BOOLEAN :
        /\ x.pc = "succeed" /\ hr' = hr /\ saved' = saved /\ copy' = copy
        /\ marks' = IF ok /\ x.mode = "full" /\ p \notin marks.during THEN [marks EXCEPT !.dirty = FALSE] ELSE marks
        /\ ok => pull' = Released(p, s) /\ worker' = [worker EXCEPT ![p] = Idle]
        /\ ~ok => pull' = pull /\ worker' = [worker EXCEPT ![p] = [x EXCEPT !.pc = "fail"]]
  BY DEF succeedPull, EndTick, Step, Work
<1>2. IsTick(x) /\ IsPull(pull) /\ x.now \in Int /\ pull.full \in Int
  BY <1>1 DEF PullInv, PullTyped, IsWorker, IsTick, IsPull, Idle
<1>3. CASE ~ok
  BY <1>1, <1>2, <1>3, FailsStep
<1>4. CASE ok
  <2>1. IsPull(s) /\ s.cursor = x.now /\ (s.full = pull.full \/ (s.full = x.now /\ x.mode = "full"))
    <3> DEFINE a == [pull EXCEPT !.st = "succeeded", !.fails = 0]
               b == [a EXCEPT !.cursor = x.now]
               f == IF x.mode = "full" THEN x.now ELSE pull.full
               e == [b EXCEPT !.full = f]
    <3>1. IsPull(a) /\ a.full = pull.full
      BY <1>2, OutcomeMoves DEF SameCursors
    <3>2. s = e
      BY <1>2 DEF MarkSucceeded, IsPull
    <3> HIDE DEF a, x
    <3>3. IsPull(b) /\ b.cursor = x.now
      BY <1>2, <3>1 DEF IsPull
    <3>4. f \in Int /\ (f = pull.full \/ (f = x.now /\ x.mode = "full"))
      BY <1>2
    <3> HIDE DEF b, f
    <3>5. IsPull(e) /\ e.cursor = x.now /\ e.full = f
      BY <3>3, <3>4 DEF IsPull
    <3> HIDE DEF e, s
    <3> QED
      BY <3>2, <3>4, <3>5
  <2> HIDE DEF s
  <2>2. IsPull(pull') /\ pull'.cursor = s.cursor /\ pull'.full = s.full
    BY <1>1, <1>4, <2>1, ReleaseMoves DEF SameCursors
  <2>3. Landed(x)
    BY <1>1 DEF Landed
  <2>4. pull'.cursor \in Reached(pull, worker) /\ pull'.full \in ReachedFull(pull, worker)
    BY <2>1, <2>2, <2>3 DEF Reached, ReachedFull
  <2>5. IsWorker(Idle) /\ ListOK(hr.who, Idle) /\ GoesOn(pull, x, Idle) /\ Idle.pc = "idle"
    BY DEF IsWorker, ListOK, GoesOn, Landed, Ahead, Idle
  <2>6. Beside(p, Idle)
    <3>1. CASE x.mode = "full" /\ p \notin marks.during
      BY <1>1, <1>4, <2>3, <3>1 DEF Beside, Mends
    <3>2. CASE ~(x.mode = "full" /\ p \notin marks.during)
      BY <1>1, <1>4, <2>5, <3>2 DEF Beside
    <3> QED
      BY <3>1, <3>2
  <2> QED
    BY <1>1, <1>4, <2>2, <2>4, <2>5, <2>6, UnsavedStep
<1> QED
  BY <1>3, <1>4

LEMMA FailStep ==
    ASSUME PullInv, NEW p \in PullProcs, failPull(p)
    PROVE  PullInv'
<1>1. PICK ok \in BOOLEAN :
        /\ worker[p].pc = "fail" /\ hr' = hr /\ saved' = saved /\ copy' = copy /\ marks' = marks
        /\ pull' = Released(p, IF ok THEN MarkFailed ELSE pull) /\ worker' = [worker EXCEPT ![p] = Idle]
  BY DEF failPull, EndTick, Work
<1> DEFINE s == IF ok THEN MarkFailed ELSE pull
<1>2. IsPull(pull)
  BY DEF PullInv, PullTyped
<1>3. IsPull(s) /\ s.cursor = pull.cursor /\ s.full = pull.full
  <2>1. SameCursors(MarkFailed, pull)
    BY <1>2, OutcomeMoves DEF MarkFailed
  <2>2. SameCursors(pull, pull)
    BY <1>2 DEF SameCursors
  <2> QED
    BY <2>1, <2>2 DEF SameCursors
<1> HIDE DEF s
<1>4. IsPull(pull') /\ pull'.cursor = pull.cursor /\ pull'.full = pull.full
  BY <1>1, <1>3, ReleaseMoves DEF s, SameCursors
<1> QED
  BY <1>1, <1>4, IdleStep

\* Steps that change neither the directory nor a cursor nor a worker.
LEMMA AsideStep ==
    ASSUME PullInv, IsPull(pull'), pull'.cursor = pull.cursor, pull'.full = pull.full,
           hr' = hr, saved' = saved, copy' = copy, worker' = worker, marks' = marks
    PROVE  PullInv'
<1>1. Reached(pull', worker) = Reached(pull, worker) /\ ReachedFull(pull', worker) = ReachedFull(pull, worker)
  BY DEF Reached, ReachedFull
<1>2. PullTyped'
  BY DEF PullInv, PullTyped
<1>3. \A n : UpTo(n, pull', worker) <=> UpTo(n, pull, worker)
  BY <1>1 DEF UpTo
<1>4. \A d : Trusted(hr.who, pull', worker, marks.fresh, d) <=> Trusted(hr.who, pull, worker, marks.fresh, d)
  BY <1>1 DEF Trusted
<1>5. InTime'
  BY <1>3 DEF PullInv, InTime
<1>6. ListsOK' /\ MendedTrusted' /\ SyncedOK'
  BY <1>4 DEF PullInv, ListsOK, MendedTrusted, SyncedOK, Counts
<1> QED
  BY <1>2, <1>5, <1>6 DEF PullInv

LEMMA PullInvHolds == PullSpec => []PullInv
<1>1. PullInit => PullInv
  <2>1. SUFFICES ASSUME PullInit PROVE PullInv
    OBVIOUS
  <2> DEFINE rows == [s \in Staff |-> NoRow]
  <2>2. rows \in [Staff -> Rows] /\ \A s \in Staff : rows[s] = NoRow /\ ~NoRow.on
    BY DEF NoRow, Rows, Never
  <2> DEFINE dir == [s \in Staff |-> Taken(NoRow)]
  <2>15. dir \in [Staff -> DirRows] /\ \A s \in Staff : ~dir[s].on
    BY DEF NoRow, DirRows, Never, Taken
  <2> HIDE DEF rows, dir
  <2>3. PICK conn \in {"none", "active"} : saved = [dir |-> dir, conn |-> [st |-> conn, last |-> Never]]
    BY <2>1 DEF PullInit, dir
  <2>4. /\ hr = [who |-> rows, clock |-> 0] /\ copy = [p \in PullProcs |-> saved]
        /\ pull = [st |-> "idle", fails |-> 0, cursor |-> Never, full |-> Never, lease |-> Nobody]
        /\ worker = [p \in PullProcs |-> Idle]
        /\ marks = [fresh |-> PullProcs, dirty |-> FALSE, during |-> {}]
    BY <2>1 DEF PullInit, rows
  <2>5. IsCopy(saved) /\ saved.dir = dir
    BY <2>15, <2>3 DEF IsCopy
  <2>6. IsHr(hr) /\ hr.who = rows /\ hr.clock = 0
    BY <2>2, <2>4 DEF IsHr
  <2>7. IsPull(pull) /\ pull.cursor = Never /\ pull.full = Never
    BY <2>4 DEF IsPull, Never
  <2>8. IsMarks(marks) /\ marks.fresh = PullProcs /\ marks.during = {}
    BY <2>4 DEF IsMarks
  <2>9. \A p \in PullProcs : worker[p] = Idle /\ copy[p] = saved /\ Idle.pc = "idle"
    BY <2>4 DEF Idle
  <2>10. PullTyped
    BY <2>4, <2>5, <2>6, <2>7, <2>8, <2>9 DEF PullTyped, IsWorker
  <2>11. /\ Reached(pull, worker) = {Never} /\ ReachedFull(pull, worker) = {Never}
         /\ \A F \in SUBSET PullProcs : Bases(worker, F) = {}
    BY <2>7, <2>9 DEF Reached, ReachedFull, Bases, Landed, Ahead
  <2>12. InTime
    <3>1. UpTo(hr.clock, pull, worker)
      BY <2>6, <2>11 DEF UpTo, Never
    <3> QED
      BY <2>8, <2>9, <3>1 DEF InTime
  <2>13. ListsOK
    BY <2>9 DEF ListsOK, ListOK
  <2>14. MendedTrusted
    <3>1. Has(rows, dir, Never) /\ HasLeft(rows, dir, Never)
      BY <2>2, <2>15 DEF Has, HasLeft
    <3>2. Trusted(rows, pull, worker, PullProcs, dir)
      BY <2>11, <3>1 DEF Trusted, HasAll
    <3> QED
      BY <2>5, <2>6, <2>8, <2>9, <3>2 DEF MendedTrusted
  <2>16. SyncedOK
    BY <2>9 DEF SyncedOK
  <2> QED
    BY <2>10, <2>12, <2>13, <2>14, <2>16 DEF PullInv
<1>2. PullInv /\ [PullNext]_pullVars => PullInv'
  <2>1. SUFFICES ASSUME PullInv, [PullNext]_pullVars PROVE PullInv'
    OBVIOUS
  <2>2. IsPull(pull)
    BY <2>1 DEF PullInv, PullTyped
  <2>3. CASE upsertEnterpriseHRISSecret
    BY <2>1, <2>2, <2>3, AsideStep DEF upsertEnterpriseHRISSecret
  <2>4. CASE createEnterpriseHRISConnector \/ updateEnterpriseHRISConnector \/ webhookSync
    BY <2>1, <2>4, RequestSteps
  <2>5. CASE HrChanges
    BY <2>1, <2>5, HrStep
  <2>6. ASSUME NEW p \in PullProcs, startPullTick(p) \/ PullSteps(p) \/ PullCrash(p) PROVE PullInv'
    <3>1. CASE startPullTick(p)
      BY <2>1, <3>1, StartStep
    <3>2. CASE claimPull(p)
      BY <2>1, <3>2, ClaimStep
    <3>3. CASE readPull(p)
      BY <2>1, <3>3, ReadStep
    <3>4. CASE applyPull(p)
      BY <2>1, <3>4, ApplyStep
    <3>5. CASE MarkHRISConnectorSynced(p)
      BY <2>1, <3>5, SyncedStep
    <3>6. CASE succeedPull(p)
      BY <2>1, <3>6, SucceedStep
    <3>7. CASE failPull(p)
      BY <2>1, <3>7, FailStep
    <3>8. CASE PullCrash(p)
      BY <2>1, <3>8, CrashStep
    <3> QED
      BY <2>6, <3>1, <3>2, <3>3, <3>4, <3>5, <3>6, <3>7, <3>8 DEF PullSteps
  <2>7. CASE PullLeaseLapses
    <3>1. /\ pull' = [pull EXCEPT !.lease = Nobody] /\ hr' = hr /\ saved' = saved /\ copy' = copy
          /\ worker' = worker /\ marks' = marks
      BY <2>7 DEF PullLeaseLapses
    <3>2. IsPull(pull') /\ pull'.cursor = pull.cursor /\ pull'.full = pull.full
      BY <2>2, <3>1, LeaseMoves DEF SameCursors
    <3> QED
      BY <2>1, <3>1, <3>2, AsideStep
  <2>8. CASE UNCHANGED pullVars
    BY <2>1, <2>2, <2>8, AsideStep DEF pullVars
  <2> QED
    BY <2>1, <2>3, <2>4, <2>5, <2>6, <2>7, <2>8 DEF PullNext
<1> QED
  BY <1>1, <1>2, PTL DEF PullSpec

(***************************************************************************)
(* The cursor of a connector never passes a change that the directory does *)
(* not have or has not refused (pull_worker.go MarkSucceeded,              *)
(* router_workers_hris.go), for any number of processes, people, failures, *)
(* crashes and takeovers.                                                  *)
(***************************************************************************)
THEOREM CursorsCovered == PullSpec => []CursorCovers
<1>1. PullInv => CursorCovers
  <2>1. SUFFICES ASSUME PullInv, ~marks.dirty PROVE CursorCovers
    BY DEF CursorCovers
  <2>2. Trusted(hr.who, pull, worker, marks.fresh, saved.dir)
    BY <2>1 DEF PullInv, MendedTrusted, Mended
  <2>3. Has(hr.who, saved.dir, pull.cursor) /\ HasLeft(hr.who, saved.dir, pull.full)
    BY <2>2 DEF Trusted, HasAll, Reached, ReachedFull
  <2> QED
    BY <2>3 DEF CursorCovers, Has, HasLeft
<1> QED
  BY <1>1, PullInvHolds, PTL
=============================================================================
