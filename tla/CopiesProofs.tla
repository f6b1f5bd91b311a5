---------------------------- MODULE CopiesProofs ----------------------------
(* Proofs about the two places where the cloud keeps copies that must       *)
(* follow their source: the authorization caches built from the            *)
(* credentials, for any set of credentials, users, devices and handlers    *)
(* and any bounds, and the projections of the state store, for any         *)
(* processes, keys and batch sizes.                                        *)
EXTENDS AuthzCache, StateStore, FiniteSetTheorems, SequenceTheorems, TLAPS

-----------------------------------------------------------------------------
(* The credential service.                                                 *)

\* Every operation of the credential service keeps the types of its records
\* and of its snapshot, whether the save succeeds or not.
LEMMA CredTypeStep == CredTypeOK /\ CredOperation => CredTypeOK'
<1> SUFFICES ASSUME CredTypeOK, CredOperation PROVE CredTypeOK'
  OBVIOUS
<1> USE DEF CredTypeOK, Statuses
<1>1. ASSUME status' \in [Creds -> Statuses], lapsed' \in [Creds -> BOOLEAN], Persist
      PROVE  CredTypeOK'
  <2>1. CASE stored' = [status |-> status', lapsed |-> lapsed']
    BY <1>1, <2>1
  <2>2. CASE stored' = stored
    BY <1>1, <2>2
  <2> QED
    BY <1>1, <2>1, <2>2 DEF Persist
<1>2. ASSUME NEW c \in Creds, RegisterDevice(c) PROVE CredTypeOK'
  <2>1. status' \in [Creds -> Statuses] /\ lapsed' \in [Creds -> BOOLEAN]
    BY <1>2 DEF RegisterDevice
  <2> QED
    BY <1>1, <1>2, <2>1 DEF RegisterDevice
<1>3. ASSUME NEW c \in Creds, RevokeCredential(c) \/ SuspendCredential(c) \/ ActivateCredential(c)
      PROVE  CredTypeOK'
  <2>1. status' \in [Creds -> Statuses] /\ lapsed' \in [Creds -> BOOLEAN]
    BY <1>3 DEF RevokeCredential, SuspendCredential, ActivateCredential
  <2> QED
    BY <1>1, <1>3, <2>1 DEF RevokeCredential, SuspendCredential, ActivateCredential
<1>4. ASSUME NEW c \in Creds, RefreshCredential(c) PROVE CredTypeOK'
  <2>1. status' \in [Creds -> Statuses] /\ lapsed' \in [Creds -> BOOLEAN]
    BY <1>4 DEF RefreshCredential
  <2> QED
    BY <1>1, <1>4, <2>1 DEF RefreshCredential
<1>5. ASSUME NEW c \in Creds, Lapse(c) PROVE CredTypeOK'
  BY <1>5 DEF Lapse
<1>6. ASSUME NEW u \in Users, RevokeAllUserCredentials(u) PROVE CredTypeOK'
  <2>1. status' \in [Creds -> Statuses] /\ lapsed' \in [Creds -> BOOLEAN]
    BY <1>6 DEF RevokeAllUserCredentials
  <2> QED
    BY <1>1, <1>6, <2>1 DEF RevokeAllUserCredentials
<1>7. CASE CloudRestart
  BY <1>7 DEF CloudRestart
<1> QED
  BY <1>2, <1>3, <1>4, <1>5, <1>6, <1>7 DEF CredOperation

\* Operations that change credentials in a handler, and a restart of the cloud,
\* are operations of the credential service.
LEMMA HandlersOperate ==
    (\/ \E h \in Handlers : RevokeHandler(h) \/ \E u \in Users : RevokeUserHandler(h, u)
     \/ QuietHandler \/ CloudRestarts) => CredOperation
BY DEF RevokeHandler, RevokeUserHandler, QuietHandler, CloudRestarts, CredOperation

-----------------------------------------------------------------------------
(* Types.                                                                  *)

\* TypeOK is not inductive: a frame is written from a handler's cache, which
\* must be one that was built.
WritesBuiltCache == \A h \in Handlers : handler[h].pc = "write" => handler[h].cache \in Caches

TypeInv == TypeOK /\ WritesBuiltCache

\* What the cloud builds is a cache.
LEMMA BuildCacheType == now \in 0 .. MaxTime => BuildCache \in Caches
BY DEF BuildCache, Caches, ActiveCredentials

\* The history of when credentials were listed keeps its type.
LEMMA WitnessedType ==
    ASSUME lastActive \in [Creds -> -1 .. MaxTime], now' \in 0 .. MaxTime, Witnessed
    PROVE  lastActive' \in [Creds -> -1 .. MaxTime]
BY DEF Witnessed

LEMMA TypeInvInit == Init => TypeInv
<1> SUFFICES ASSUME Init PROVE TypeInv
  OBVIOUS
<1>1. CredTypeOK
  BY DEF Init, CredInit, CredTypeOK, Statuses
<1>2. now \in 0 .. MaxTime /\ ops \in 0 .. MaxOps /\ updatedAt \in -1 .. MaxTime
  BY AuthzCacheAssumption DEF Init
<1>3. lastActive \in [Creds -> -1 .. MaxTime]
  BY AuthzCacheAssumption DEF Init
<1>4. handler \in [Handlers -> [pc : {"idle", "build", "write"}, kind : HandlerKinds,
                                cache : Caches \cup {NoCache}]]
  BY DEF Init, Idle, HandlerKinds
<1>5. WritesBuiltCache
  BY DEF Init, Idle, WritesBuiltCache
<1>6. connected \in BOOLEAN
  BY Zenon DEF Init
<1>7. wire \in Seq(Caches) /\ cache \in Caches \cup {NoCache}
      /\ pull \in [pc : {"idle", "answered"}, cache : Caches \cup {NoCache}]
  BY DEF Init
<1> QED
  BY <1>1, <1>2, <1>3, <1>4, <1>5, <1>6, <1>7 DEF TypeInv, TypeOK

\* Steps that leave the credential service alone keep its types.
LEMMA CredTypeStutter == CredTypeOK /\ UNCHANGED credVars => CredTypeOK'
BY DEF credVars, CredTypeOK

LEMMA TypeInvStep == TypeInv /\ [Next]_vars => TypeInv'
<1> SUFFICES ASSUME TypeInv, [Next]_vars PROVE TypeInv'
  OBVIOUS
<1> USE AuthzCacheAssumption DEF TypeInv, TypeOK, WritesBuiltCache, agentVars, pushVars, HandlerKinds
<1>1. ASSUME NEW h \in Handlers, RevokeHandler(h) \/ \E u \in Users : RevokeUserHandler(h, u)
      PROVE  TypeInv'
  <2>1. CredTypeOK'
    BY <1>1, HandlersOperate, CredTypeStep
  <2>2. lastActive' \in [Creds -> -1 .. MaxTime]
    BY <1>1, WitnessedType DEF RevokeHandler, RevokeUserHandler
  <2>3. (StartPush(h, "revoke") \/ StartPush(h, "revokeUser")) /\ CountOp /\ UNCHANGED <<now, connected, wire, agentVars>>
    BY <1>1 DEF RevokeHandler, RevokeUserHandler
  <2>4. /\ handler' \in [Handlers -> [pc : {"idle", "build", "write"},
                                      kind : HandlerKinds,
                                      cache : Caches \cup {NoCache}]]
        /\ WritesBuiltCache'
    <3>1. PICK k \in HandlerKinds :
            handler' = [handler EXCEPT ![h] = [pc |-> "build", kind |-> k, cache |-> NoCache]]
      BY <2>3 DEF StartPush
    <3>2. handler' \in [Handlers -> [pc : {"idle", "build", "write"}, kind : HandlerKinds,
                                     cache : Caches \cup {NoCache}]]
      BY <3>1
    <3>3. WritesBuiltCache'
      BY <3>1
    <3> QED
      BY <3>2, <3>3
  <2> QED
    BY <2>1, <2>2, <2>3, <2>4 DEF CountOp
<1>2. CASE QuietHandler
  <2>1. CredTypeOK'
    BY <1>2, HandlersOperate, CredTypeStep
  <2>2. lastActive' \in [Creds -> -1 .. MaxTime]
    BY <1>2, WitnessedType DEF QuietHandler
  <2> QED
    BY <1>2, <2>1, <2>2 DEF QuietHandler, CountOp
<1>3. ASSUME NEW h \in Handlers, BuildForPush(h) \/ BuildInitial(h) PROVE TypeInv'
  <2>1. /\ handler' = [handler EXCEPT ![h].pc = "write", ![h].cache = BuildCache]
        /\ UNCHANGED <<credVars, now, ops, lastActive, connected, wire, agentVars>>
    BY <1>3 DEF BuildForPush, BuildInitial
  <2>2. BuildCache \in Caches
    BY BuildCacheType
  <2> QED
    BY <2>1, <2>2, CredTypeStutter
<1>4. ASSUME NEW h \in Handlers, SkipInitial(h) PROVE TypeInv'
  BY <1>4, CredTypeStutter DEF SkipInitial, Idle
<1>5. ASSUME NEW h \in Handlers, WritePush(h) PROVE TypeInv'
  BY <1>5, CredTypeStutter DEF WritePush, Idle
<1>6. ASSUME NEW h \in Handlers, WSConnect(h) PROVE TypeInv'
  <2>1. connected' \in BOOLEAN
    BY <1>6, Zenon DEF WSConnect
  <2> QED
    BY <1>6, <2>1, CredTypeStutter DEF WSConnect, CountOp
<1>7. CASE WSDisconnect
  <2>1. connected' \in BOOLEAN
    BY <1>7, Zenon DEF WSDisconnect
  <2> QED
    BY <1>7, <2>1, CredTypeStutter DEF WSDisconnect
<1>8. CASE ReceivePush
  BY <1>8, CredTypeStutter DEF ReceivePush, Install
<1>9. CASE PullBuild
  BY <1>9, CredTypeStutter, BuildCacheType DEF PullBuild
<1>10. CASE PullApply \/ PullFail
  BY <1>10, CredTypeStutter DEF PullApply, PullFail, Install
<1>11. CASE AgentRestart
  <2>1. connected' \in BOOLEAN
    BY <1>11, Zenon DEF AgentRestart
  <2> QED
    BY <1>11, <2>1, CredTypeStutter DEF AgentRestart, CountOp
<1>12. CASE CloudRestarts
  <2>1. CredTypeOK'
    BY <1>12, HandlersOperate, CredTypeStep
  <2>2. connected' \in BOOLEAN
    BY <1>12, Zenon DEF CloudRestarts
  <2>3. lastActive' \in [Creds -> -1 .. MaxTime]
    BY <1>12, WitnessedType DEF CloudRestarts
  <2> QED
    BY <1>12, <2>1, <2>2, <2>3 DEF CloudRestarts, CountOp, Idle
<1>13. CASE Tick
  <2>1. now' \in 0 .. MaxTime
    BY <1>13 DEF Tick
  <2>2. lastActive' \in [Creds -> -1 .. MaxTime]
    BY <1>13, <2>1, WitnessedType DEF Tick
  <2> QED
    BY <1>13, <2>1, <2>2, CredTypeStutter DEF Tick
<1>14. CASE UNCHANGED vars
  BY <1>14, CredTypeStutter DEF vars
<1> QED
  BY <1>1, <1>2, <1>3, <1>4, <1>5, <1>6, <1>7, <1>8, <1>9, <1>10, <1>11, <1>12, <1>13, <1>14
     DEF Next

\* Statuses, snapshots, handlers, frames and the agent's rules keep their types
\* through every interleaving of handlers, connection, poll, restarts and time.
THEOREM TypeCorrect == Spec => []TypeOK
<1>1. TypeInv => TypeOK
  BY DEF TypeInv
<1> QED
  BY <1>1, TypeInvInit, TypeInvStep, PTL DEF Spec

-----------------------------------------------------------------------------
(* The revocation window.  The clock and the history only advance; whoever *)
(* holds a cache, its rules were listed by the cloud when it was built or  *)
(* later, so order and delay of delivery do not matter.                    *)

Fresh(k, listed, t) == k.built <= t /\ \A c \in k.rules : k.built <= listed[c]

\* The cloud lists now exactly what is active now.
NowListed ==
    \A c \in Creds : /\ lastActive[c] <= now
                     /\ c \in ActiveCredentials => lastActive[c] = now

\* Every cache anywhere (handlers, connection, agent, poll) is fresh.
CachesFresh ==
    /\ \A h \in Handlers : Fresh(handler[h].cache, lastActive, now)
    /\ \A i \in 1 .. Len(wire) : Fresh(wire[i], lastActive, now)
    /\ Fresh(cache, lastActive, now) /\ Fresh(pull.cache, lastActive, now)

WindowInv == NowListed /\ CachesFresh

Histories == [Creds -> -1 .. MaxTime]

\* A fresh cache stays fresh while the clock and the history advance.
LEMMA FreshStays ==
    ASSUME NEW k \in Caches \cup {NoCache}, NEW l1 \in Histories, NEW l2 \in Histories,
           NEW t1 \in Int, NEW t2 \in Int, t1 <= t2, \A c \in Creds : l1[c] <= l2[c],
           Fresh(k, l1, t1)
    PROVE  Fresh(k, l2, t2)
BY AuthzCacheAssumption DEF Fresh, Caches, NoCache, Histories

\* What the cloud builds is fresh, and so is having no rules.
LEMMA BuiltIsFresh ==
    ASSUME TypeOK, NowListed
    PROVE  Fresh(BuildCache, lastActive, now) /\ Fresh(NoCache, lastActive, now)
BY DEF Fresh, BuildCache, NoCache, NowListed, ActiveCredentials, TypeOK

\* Recording what is listed after a change advances the history.
LEMMA WitnessedAdvances ==
    ASSUME TypeOK, now' \in Int, now <= now', NowListed, Witnessed
    PROVE  NowListed' /\ \A c \in Creds : lastActive[c] <= lastActive'[c]
BY AuthzCacheAssumption DEF Witnessed, NowListed, TypeOK

\* No step turns the clock or the history back.
LEMMA Advances ==
    ASSUME TypeOK, TypeOK', NowListed, [Next]_vars
    PROVE  NowListed' /\ now <= now' /\ \A c \in Creds : lastActive[c] <= lastActive'[c]
<1>1. CASE Witnessed /\ now' \in {now, now + 1}
  BY <1>1, WitnessedAdvances DEF TypeOK
<1>2. CASE UNCHANGED <<credVars, now, lastActive>>
  BY <1>2 DEF NowListed, ActiveCredentials, credVars, TypeOK
<1>3. (Witnessed /\ now' \in {now, now + 1}) \/ UNCHANGED <<credVars, now, lastActive>>
  BY DEF Next, RevokeHandler, RevokeUserHandler, QuietHandler, BuildForPush, BuildInitial,
         SkipInitial, WritePush, WSConnect, WSDisconnect, ReceivePush, PullBuild, PullApply,
         PullFail, AgentRestart, CloudRestarts, Tick, vars
<1> QED
  BY <1>1, <1>2, <1>3

LEMMA WindowInvStep == TypeInv /\ TypeInv' /\ WindowInv /\ [Next]_vars => WindowInv'
<1> SUFFICES ASSUME TypeInv, TypeInv', WindowInv, [Next]_vars PROVE WindowInv'
  OBVIOUS
<1> DEFINE Ok(k) == Fresh(k, lastActive', now')
<1>1. TypeOK /\ TypeOK' /\ NowListed /\ CachesFresh
  BY DEF TypeInv, WindowInv
<1>2. NowListed' /\ now <= now' /\ \A c \in Creds : lastActive[c] <= lastActive'[c]
  BY <1>1, Advances
<1>3. ASSUME NEW k \in Caches \cup {NoCache}, Fresh(k, lastActive, now) PROVE Ok(k)
  <2>1. lastActive \in Histories /\ lastActive' \in Histories /\ now \in Int /\ now' \in Int
    BY <1>1 DEF TypeOK, Histories
  <2> QED
    BY <1>2, <1>3, <2>1, FreshStays
<1>4. Ok(BuildCache) /\ Ok(NoCache) /\ Ok(cache) /\ Ok(pull.cache)
  <2>1. BuildCache \in Caches
    BY <1>1, BuildCacheType DEF TypeOK
  <2>2. Fresh(BuildCache, lastActive, now) /\ Fresh(NoCache, lastActive, now)
    BY <1>1, BuiltIsFresh
  <2>3. cache \in Caches \cup {NoCache} /\ pull.cache \in Caches \cup {NoCache}
    BY <1>1 DEF TypeOK
  <2> QED
    BY <1>1, <1>3, <2>1, <2>2, <2>3 DEF CachesFresh
<1>5. \A h \in Handlers : Ok(handler[h].cache)
  BY <1>1, <1>3 DEF CachesFresh, TypeOK
<1>6. wire \in Seq(Caches) /\ \A i \in 1 .. Len(wire) : Ok(wire[i])
  BY <1>1, <1>3 DEF CachesFresh, TypeOK
<1> HIDE DEF Ok
<1>7. \A h \in Handlers : handler'[h].cache \in {handler[h].cache, BuildCache, NoCache, cache}
  <2>1. \/ handler' = handler \/ handler' = [h \in Handlers |-> Idle]
        \/ \E h \in Handlers :
             \/ handler' = [handler EXCEPT ![h].pc = "write", ![h].cache = BuildCache]
             \/ handler' = [handler EXCEPT ![h] = Idle]
             \/ \E k \in HandlerKinds :
                  handler' = [handler EXCEPT ![h] = [pc |-> "build", kind |-> k, cache |-> NoCache]]
             \/ handler' = [handler EXCEPT ![h] = [pc |-> "build", kind |-> "initial", cache |-> cache]]
    BY DEF Next, RevokeHandler, RevokeUserHandler, QuietHandler,
           BuildForPush, BuildInitial, SkipInitial, WritePush, WSConnect, WSDisconnect,
           ReceivePush, PullBuild, PullApply, PullFail, AgentRestart, CloudRestarts, Tick,
           StartPush, HandlerKinds, pushVars, vars
  <2>2. \A h \in Handlers : handler[h] \in [pc : {"idle", "build", "write"},
                                             kind : HandlerKinds,
                                             cache : Caches \cup {NoCache}]
    BY <1>1 DEF TypeOK
  <2>3. DOMAIN handler = Handlers
    BY <1>1 DEF TypeOK
  <2>4. ASSUME NEW h \in Handlers,
               handler' = [handler EXCEPT ![h].pc = "write", ![h].cache = BuildCache]
        PROVE  \A g \in Handlers : handler'[g].cache \in {handler[g].cache, BuildCache}
    BY <2>2, <2>3, <2>4
  <2>5. ASSUME NEW h \in Handlers, NEW r, r.cache \in {NoCache, cache},
               handler' = [handler EXCEPT ![h] = r]
        PROVE  \A g \in Handlers : handler'[g].cache \in {handler[g].cache, NoCache, cache}
    BY <2>3, <2>5
  <2>6. /\ Idle.cache = NoCache
        /\ [pc |-> "build", kind |-> "initial", cache |-> cache].cache = cache
        /\ \A k \in HandlerKinds : [pc |-> "build", kind |-> k, cache |-> NoCache].cache = NoCache
    BY DEF Idle
  <2>7. CASE handler' = handler \/ handler' = [h \in Handlers |-> Idle]
    BY <2>6, <2>7
  <2>8. ASSUME NEW h \in Handlers,
               \/ handler' = [handler EXCEPT ![h] = Idle]
               \/ \E k \in HandlerKinds :
                    handler' = [handler EXCEPT ![h] = [pc |-> "build", kind |-> k, cache |-> NoCache]]
               \/ handler' = [handler EXCEPT ![h] = [pc |-> "build", kind |-> "initial", cache |-> cache]]
        PROVE  \A g \in Handlers : handler'[g].cache \in {handler[g].cache, NoCache, cache}
    <3>1. PICK r : r.cache \in {NoCache, cache} /\ handler' = [handler EXCEPT ![h] = r]
      BY <2>6, <2>8
    <3> QED
      BY <2>5, <3>1
  <2> QED
    BY <2>1, <2>4, <2>7, <2>8
<1>8. cache' \in {cache, NoCache, pull.cache} \/ (wire # <<>> /\ cache' = Head(wire))
  BY DEF Next, RevokeHandler, RevokeUserHandler, QuietHandler,
         BuildForPush, BuildInitial, SkipInitial, WritePush, WSConnect, WSDisconnect,
         ReceivePush, PullBuild, PullApply, PullFail, AgentRestart, CloudRestarts, Tick,
         Install, agentVars, vars
<1>9. pull'.cache \in {pull.cache, NoCache, BuildCache}
  <2>1. \/ pull' = pull \/ pull' = [pc |-> "idle", cache |-> NoCache]
        \/ pull' = [pc |-> "answered", cache |-> BuildCache]
    BY DEF Next, RevokeHandler, RevokeUserHandler, QuietHandler,
           BuildForPush, BuildInitial, SkipInitial, WritePush, WSConnect, WSDisconnect,
           ReceivePush, PullBuild, PullApply, PullFail, AgentRestart, CloudRestarts, Tick,
           agentVars, vars
  <2> QED
    BY <2>1
<1>10. \/ wire' = wire \/ wire' = <<>> \/ (wire # <<>> /\ wire' = Tail(wire))
       \/ \E h \in Handlers : handler[h].pc = "write" /\ wire' = Append(wire, handler[h].cache)
  BY DEF Next, RevokeHandler, RevokeUserHandler, QuietHandler,
         BuildForPush, BuildInitial, SkipInitial, WritePush, WSConnect, WSDisconnect,
         ReceivePush, PullBuild, PullApply, PullFail, AgentRestart, CloudRestarts, Tick,
         pushVars, vars
<1>11. \A i \in 1 .. Len(wire') : Ok(wire'[i])
  <2>1. CASE wire' = wire \/ wire' = <<>>
    BY <1>6, <2>1
  <2>2. CASE wire # <<>> /\ wire' = Tail(wire)
    BY <1>6, <2>2
  <2>3. ASSUME NEW h \in Handlers, handler[h].pc = "write",
               wire' = Append(wire, handler[h].cache)
        PROVE  \A i \in 1 .. Len(wire') : Ok(wire'[i])
    <3>1. handler[h].cache \in Caches
      BY <2>3 DEF TypeInv, WritesBuiltCache
    <3> QED
      BY <1>5, <1>6, <2>3, <3>1
  <2> QED
    BY <1>10, <2>1, <2>2, <2>3
<1>12. Ok(cache')
  BY <1>4, <1>6, <1>8
<1> QED
  BY <1>2, <1>4, <1>5, <1>7, <1>9, <1>11, <1>12 DEF WindowInv, CachesFresh, Ok

\* The security invariant of agent.go: for any number of handlers pushing at
\* once, any loss, delay or overtaking of pushes and poll answers and any
\* restarts, a credential the cloud stopped listing opens a door for at most
\* MaxOffline after it was last listed.
THEOREM RevocationWindowHolds == Spec => []RevocationWindow
<1>1. Init => WindowInv
  BY DEF Init, CredInit, WindowInv, NowListed, CachesFresh, Fresh, NoCache, Idle, ActiveCredentials
<1>2. TypeInv /\ WindowInv => RevocationWindow
  BY AuthzCacheAssumption
     DEF TypeInv, TypeOK, WindowInv, CachesFresh, Fresh, RevocationWindow, VerifyCredential,
         Caches, NoCache
<1> QED
  BY <1>1, <1>2, TypeInvInit, TypeInvStep, WindowInvStep, PTL DEF Spec

-----------------------------------------------------------------------------
(* Revocations that reached the store.                                     *)

RevokedBoth(c) == status[c] = "revoked" /\ stored.status[c] = "revoked"

\* No operation of the credential service, saved or not, and no restart touches
\* a credential that is revoked in memory and in the snapshot.
LEMMA RevokedStaysRevoked ==
    ASSUME CredTypeOK, CredOperation, NEW c \in Creds, RevokedBoth(c)
    PROVE  RevokedBoth(c)'
<1> USE DEF RevokedBoth, CredTypeOK
<1>1. status'[c] = "revoked"
  BY DEF CredOperation, RegisterDevice, RevokeCredential, SuspendCredential, ActivateCredential,
         RefreshCredential, Lapse, RevokeAllUserCredentials, ActiveOf, CloudRestart
<1>2. \/ stored' = [status |-> status', lapsed |-> lapsed'] \/ stored' = stored
      \/ \E d \in Creds : stored' = [stored EXCEPT !.lapsed[d] = TRUE]
  BY DEF CredOperation, RegisterDevice, RevokeCredential, SuspendCredential, ActivateCredential,
         RefreshCredential, Lapse, RevokeAllUserCredentials, CloudRestart, Persist
<1>3. stored'.status[c] = "revoked"
  BY <1>1, <1>2
<1> QED
  BY <1>1, <1>3

\* A revocation that reached the store is final for every set of credentials:
\* no later operation, failed save or restart brings the credential back.
THEOREM StoredRevocationHolds == Spec => StoredRevocationFinal
<1>1. TypeOK /\ [Next]_vars =>
        [\A c \in Creds : (status[c] = "revoked" /\ stored.status[c] = "revoked")
                            => (status'[c] = "revoked" /\ stored'.status[c] = "revoked")]_vars
  <2> SUFFICES ASSUME TypeOK, [Next]_vars, NEW c \in Creds, RevokedBoth(c)
               PROVE  RevokedBoth(c)'
    BY DEF RevokedBoth
  <2>1. CredOperation \/ UNCHANGED credVars
    BY DEF Next, RevokeHandler, RevokeUserHandler, QuietHandler, CredOperation,
           BuildForPush, BuildInitial, SkipInitial, WritePush, WSConnect, WSDisconnect,
           ReceivePush, PullBuild, PullApply, PullFail, AgentRestart, CloudRestarts, Tick, vars
  <2>2. CASE CredOperation
    BY <2>2, RevokedStaysRevoked DEF TypeOK
  <2>3. CASE UNCHANGED credVars
    BY <2>3 DEF RevokedBoth, credVars
  <2> QED
    BY <2>1, <2>2, <2>3
<1> QED
  BY <1>1, TypeCorrect, PTL DEF Spec, StoredRevocationFinal

-----------------------------------------------------------------------------
(* The least and the greatest of a set of changes.                         *)

\* Every nonempty set of naturals has a least element.
LEMMA LeastNat ==
    ASSUME NEW T \in SUBSET Nat, T # {}
    PROVE  \E x \in T : \A y \in T : x <= y
<1>1. PICK R : IsWellFoundedOn(R, Nat) /\ \A x, y \in Nat : x < y => <<x, y>> \in R
  <2>1. \A x, y \in Nat : x < y => <<x, y>> \in OpToRel(<, Nat)
    BY DEF OpToRel
  <2> QED
    BY <2>1, NatLessThanWellFounded
<1>2. T \subseteq Nat
  OBVIOUS
<1>3. PICK x \in T : \A y \in T : ~(<<y, x>> \in R)
  <2>1. IsWellFoundedOn(R, Nat) /\ T # {}
    BY <1>1
  <2> QED
    BY <1>2, <2>1, WFMin, Zenon
<1>4. ASSUME NEW y \in T PROVE x <= y
  <2>1. ~(y < x)
    BY <1>1, <1>2, <1>3, Zenon
  <2> QED
    BY <1>2, <2>1
<1> QED
  BY <1>4

\* Min picks the least change of a nonempty set.
LEMMA MinPicks ==
    ASSUME NEW T \in SUBSET Nat, T # {}
    PROVE  X!Min(T) \in T /\ \A y \in T : X!Min(T) <= y
BY LeastNat DEF X!Min

\* Max picks the greatest change of a nonempty bounded set.
LEMMA MaxPicks ==
    ASSUME NEW n \in Nat, NEW T \in SUBSET (0 .. n), T # {}
    PROVE  X!Max(T) \in T /\ \A y \in T : y <= X!Max(T)
<1> DEFINE U == {x \in Nat : x <= n /\ n - x \in T}
<1>1. U \subseteq Nat /\ U # {}
  <2>1. PICK t \in T : TRUE
    OBVIOUS
  <2>2. n - t \in U
    BY <2>1
  <2> QED
    BY <2>2
<1>2. PICK u \in U : \A y \in U : u <= y
  BY <1>1, LeastNat
<1>3. n - u \in T /\ \A y \in T : y <= n - u
  <2>1. ASSUME NEW y \in T PROVE y <= n - u
    <3>1. n - y \in U
      OBVIOUS
    <3> QED
      BY <1>2, <3>1
  <2> QED
    BY <2>1
<1> QED
  BY <1>3 DEF X!Max

-----------------------------------------------------------------------------
(* A batch: the oldest `limit' changes of a backlog.                       *)

Rank(R, i) == Cardinality({j \in R : j < i})
Oldest(R, limit) == {i \in R : Rank(R, i) < limit}

\* Of a backlog that is not empty a batch takes something.
LEMMA BatchTakes ==
    ASSUME NEW R \in SUBSET Nat, R # {}, NEW limit \in Nat \ {0}
    PROVE  Oldest(R, limit) # {}
<1>1. PICK x \in R : \A y \in R : x <= y
  BY LeastNat
<1>2. {j \in R : j < x} = {}
  <2>1. ASSUME NEW j \in R PROVE ~(j < x)
    BY <1>1
  <2> QED
    BY <2>1
<1>3. Rank(R, x) = 0
  BY <1>2, FS_EmptySet DEF Rank
<1> QED
  BY <1>3 DEF Oldest

\* What lies behind a batch is a full batch smaller than the backlog was, or nothing.
LEMMA BatchShrinks ==
    ASSUME NEW n \in Nat, NEW R \in SUBSET (0 .. n), NEW limit \in Nat \ {0}, NEW batches \in Nat \ {0},
           Cardinality(R) <= batches * limit, NEW m \in Oldest(R, limit),
           \A i \in Oldest(R, limit) : i <= m
    PROVE  Cardinality({i \in R : i > m}) <= (batches - 1) * limit
<1> DEFINE T == Oldest(R, limit)
           Behind == {i \in R : i > m}
<1>1. IsFiniteSet(R) /\ R \subseteq Nat /\ Cardinality(R) \in Nat
  <2>1. IsFiniteSet(0 .. n)
    BY FS_Interval
  <2>2. IsFiniteSet(R)
    BY <2>1, FS_Subset
  <2> QED
    BY <2>2, FS_CardinalityType
<1>2. ASSUME NEW i \in R, NEW j \in R, i <= j PROVE Rank(R, i) <= Rank(R, j) /\ Rank(R, i) \in Nat /\ Rank(R, j) \in Nat
  <2>1. {x \in R : x < i} \in SUBSET {x \in R : x < j} /\ {x \in R : x < j} \in SUBSET R
    <3>1. ASSUME NEW x \in R, x < i PROVE x < j
      BY <1>1, <1>2, <3>1
    <3> QED
      BY <3>1
  <2>2. IsFiniteSet({x \in R : x < j}) /\ IsFiniteSet({x \in R : x < i})
    BY <1>1, <2>1, FS_Subset
  <2> QED
    BY <2>1, <2>2, FS_Subset, FS_CardinalityType DEF Rank
<1>3. CASE Behind = {}
  <2>1. Cardinality(Behind) = 0
    BY <1>3, FS_EmptySet
  <2>2. (batches - 1) * limit \in Nat
    OBVIOUS
  <2> QED
    BY <2>1, <2>2
<1>4. CASE Behind # {}
  <2>1. PICK x \in Behind : \A y \in Behind : x <= y
    BY <1>1, <1>4, LeastNat
  <2>2. x \in R /\ x > m /\ m \in R /\ Rank(R, m) < limit
    BY <2>1 DEF Oldest
  <2>3. Rank(R, x) >= limit
    <3>1. x \notin T
      BY <1>1, <2>2
    <3>2. Rank(R, x) \in Nat
      BY <1>2, <2>2, <1>1
    <3> QED
      BY <2>2, <3>1, <3>2 DEF Oldest
  <2>4. {j \in R : j < x} = {j \in R : j <= m}
    <3>1. ASSUME NEW j \in R PROVE j < x <=> j <= m
      <4>1. j \in Nat /\ x \in Nat /\ m \in Nat
        BY <1>1, <2>2
      <4>2. j > m => x <= j
        BY <2>1
      <4> QED
        BY <2>2, <4>1, <4>2
    <3> QED
      BY <3>1
  <2> DEFINE Front == {j \in R : j <= m}
  <2>5. Cardinality(Front) >= limit
    BY <2>3, <2>4 DEF Rank
  <2>6. Front \in SUBSET R /\ Behind \in SUBSET R /\ R = Front \cup Behind /\ Front \cap Behind = {}
    <3>1. ASSUME NEW j \in R PROVE ~(j <= m) <=> j > m
      BY <1>1, <2>2
    <3> QED
      BY <3>1
  <2>7. IsFiniteSet(Front) /\ IsFiniteSet(Behind)
    BY <1>1, <2>6, FS_Subset
  <2>8. /\ Cardinality(R) = Cardinality(Front) + Cardinality(Behind) - Cardinality({})
        /\ Cardinality(Front) \in Nat /\ Cardinality(Behind) \in Nat
    BY <2>6, <2>7, FS_Union, FS_CardinalityType
  <2>9. Cardinality({}) = 0
    BY FS_EmptySet
  <2> HIDE DEF Front, Behind, T
  <2>10. Cardinality(Behind) <= batches * limit - limit
    BY <1>1, <2>5, <2>8, <2>9
  <2>11. batches * limit - limit = (batches - 1) * limit
    OBVIOUS
  <2> QED
    BY <2>10, <2>11 DEF Behind
<1> QED
  BY <1>3, <1>4

-----------------------------------------------------------------------------
(* The inductive invariant.                                                *)

Untils == {"saved", "checkpoint", "manual"}
Expectations == Contents \cup {Absent, Blind}
LoadedWork == [pc : {"loaded"}, key : StateKeys, expected : Contents \cup {Absent}]
CreatingWork == [pc : {"creating"}, key : StateKeys, content : Contents, expects : Expectations, looked : Nat]
ReplayWork == [pc : {"replay"}, key : StateKeys, target : Nat, batches : Nat \ {0}, until : Untils,
               alone : BOOLEAN]
ProjectWork == [pc : {"project"}, key : StateKeys, target : Nat, batches : Nat \ {0}, until : Untils,
                alone : BOOLEAN, todo : SUBSET Nat, last : Nat, some : BOOLEAN]
StartWork == [pc : {"starting"}, todo : SUBSET StateKeys]
SyncWork == [pc : {"sync"}, key : StateKeys, found : Nat, todo : SUBSET StateKeys, alone : BOOLEAN]
Works == {AtRest} \cup LoadedWork \cup CreatingWork \cup ReplayWork \cup ProjectWork \cup StartWork \cup SyncWork

Changes == [key : StateKeys, content : Contents, expects : Expectations, looked : Nat]

StoreTyped ==
    /\ payload \in [StateKeys -> Nat] /\ checkpoint \in [StateKeys -> Nat]
    /\ changes \in Seq(Changes)
    /\ rows \in [ProjectionTables -> Nat]
    /\ work \in [StoreProcs -> Works]
    /\ clean \subseteq StateKeys

\* The changes of k after id.
Ids(k, id) == {i \in DOMAIN changes : changes[i].key = k /\ i > id}

\* The payload of a key is the last change of the key, and every listed or replayed change is one.
PayloadIsLast ==
    /\ Len(changes) <= MaxChanges
    /\ \A k \in StateKeys :
         /\ payload[k] \in 0 .. Len(changes)
         /\ payload[k] # NoChange => changes[payload[k]].key = k
         /\ \A j \in DOMAIN changes : changes[j].key = k => j <= payload[k]

\* Who believes to be alone with a key is, and nobody is at a clean key.
AloneIsAlone ==
    /\ \A p \in StoreProcs, k \in StateKeys : Projecting(p, k) /\ work[p].alone => Alone(p, k)
    /\ \A p \in StoreProcs, k \in clean : ~Projecting(p, k)

\* A save that is alone with its key projects its own change, the last one, in the batches it has.
Reaches(w) ==
    w.pc \in {"replay", "project"} /\ w.until = "saved" /\ w.alone =>
      /\ w.target = payload[w.key] /\ checkpoint[w.key] < w.target
      /\ w.pc = "replay" => Cardinality(Ids(w.key, checkpoint[w.key])) <= w.batches * ReplayLimit
      /\ w.pc = "project" =>
           /\ w.some
           /\ Cardinality(Ids(w.key, w.last)) <= (w.batches - 1) * ReplayLimit
           /\ \A i \in w.todo : i <= w.last
           /\ w.todo # {} => w.last \in w.todo
           /\ w.todo = {} => \A t \in tablesOf(w.key) : rows[t] = w.last

\* A start that is alone with a key found what is stored.
Found(w) == w.pc = "sync" /\ w.alone => w.found = payload[w.key]

\* No replay runs ahead of the stored payload.
NotAhead(w) == w.pc = "project" => w.last <= payload[w.key] /\ w.todo \subseteq 0 .. Len(changes)

WorkInv == \A p \in StoreProcs : Reaches(work[p]) /\ Found(work[p]) /\ NotAhead(work[p])
CheckpointBehind == \A k \in StateKeys : checkpoint[k] <= payload[k]

StoreInv ==
    /\ StoreTyped /\ PayloadIsLast /\ AloneIsAlone /\ WorkInv /\ CheckpointBehind
    /\ ProjectionFollows

-----------------------------------------------------------------------------
(* What the steps have in common.                                          *)

\* The work a process is at has the fields of its kind.
LEMMA WorkKinds ==
    ASSUME NEW w \in Works
    PROVE  /\ w.pc = "loaded" => w \in LoadedWork
           /\ w.pc = "creating" => w \in CreatingWork
           /\ w.pc = "replay" => w \in ReplayWork
           /\ w.pc = "project" => w \in ProjectWork
           /\ w.pc = "starting" => w \in StartWork
           /\ w.pc = "sync" => w \in SyncWork
BY DEF Works, AtRest, LoadedWork, CreatingWork, ReplayWork, ProjectWork, StartWork, SyncWork

At(w, k) == w.pc \in {"replay", "project", "sync"} /\ w.key = k

\* A process that projects a key has a flag that says whether it is alone.
LEMMA AtFields ==
    ASSUME NEW w \in Works, NEW k, At(w, k)
    PROVE  /\ k \in StateKeys /\ w.alone \in BOOLEAN
           /\ [w EXCEPT !.alone = FALSE] \in Works
           /\ ~[w EXCEPT !.alone = FALSE].alone
           /\ [w EXCEPT !.alone = FALSE].pc = w.pc /\ [w EXCEPT !.alone = FALSE].key = w.key
           /\ w.pc = "project" => /\ [w EXCEPT !.alone = FALSE].last = w.last
                                  /\ [w EXCEPT !.alone = FALSE].todo = w.todo
<1>1. CASE w.pc = "replay"
  <2>1. w \in ReplayWork
    BY <1>1, WorkKinds
  <2> QED
    BY <1>1, <2>1 DEF At, ReplayWork, Works
<1>2. CASE w.pc = "project"
  <2>1. w \in ProjectWork
    BY <1>2, WorkKinds
  <2> QED
    BY <1>2, <2>1 DEF At, ProjectWork, Works
<1>3. CASE w.pc = "sync"
  <2>1. w \in SyncWork
    BY <1>3, WorkKinds
  <2> QED
    BY <1>3, <2>1 DEF At, SyncWork, Works
<1> QED
  BY <1>1, <1>2, <1>3 DEF At

\* No table belongs to two keys.
LEMMA TablesDisjoint ==
    ASSUME NEW j, NEW k, j # k, NEW t \in tablesOf(j)
    PROVE  t \notin tablesOf(k)
BY DEF tablesOf, tenantTables, spaceTables, accessTables, gatewayTables, enterpriseTables, eventTables,
       alarmTables, auditTables, walletTables

\* The tables of a key are projection tables.
LEMMA TablesProjected ==
    ASSUME NEW k, NEW t \in tablesOf(k)
    PROVE  t \in ProjectionTables
BY DEF tablesOf, ProjectionTables

\* What a step may change of the keys in K, and of no others.
Frame(K) ==
    /\ \A k \in StateKeys \ K : /\ payload'[k] = payload[k] /\ checkpoint'[k] = checkpoint[k]
                                /\ \A id \in Nat : Ids(k, id)' = Ids(k, id)
                                /\ \A t \in tablesOf(k) : rows'[t] = rows[t]
    /\ \A k \in K : payload[k] <= payload'[k]
    /\ Len(changes) <= Len(changes')

\* What a step does to a process that does not take it.
Bystander(q, K) ==
    \/ work'[q] = work[q] /\ \A k \in K : At(work[q], k) => ~work[q].alone
    \/ (\E k \in K : At(work[q], k)) /\ work'[q] = [work[q] EXCEPT !.alone = FALSE]

\* A bystander's work stays sound.
LEMMA BystanderSound ==
    ASSUME StoreInv, NEW K \in SUBSET StateKeys, Frame(K), StoreTyped', NEW q \in StoreProcs, Bystander(q, K)
    PROVE  Reaches(work[q])' /\ Found(work[q])' /\ NotAhead(work[q])'
<1> DEFINE w == work[q]
<1>1. /\ w \in Works /\ Reaches(w) /\ Found(w) /\ NotAhead(w)
      /\ payload \in [StateKeys -> Nat] /\ checkpoint \in [StateKeys -> Nat]
      /\ payload' \in [StateKeys -> Nat] /\ Len(changes) \in Nat /\ Len(changes') \in Nat
  BY DEF StoreInv, StoreTyped, WorkInv
<1>2. \A k \in StateKeys : payload[k] <= payload'[k]
  BY <1>1 DEF Frame
<1>3. NotAhead(work[q])'
  <2>1. /\ work'[q].pc = w.pc
        /\ w.pc = "project" => work'[q].key = w.key /\ work'[q].last = w.last /\ work'[q].todo = w.todo
    BY <1>1, AtFields DEF Bystander, At
  <2>2. CASE w.pc = "project"
    <3>1. w \in ProjectWork
      BY <1>1, <2>2, WorkKinds
    <3>2. w.last \in Nat /\ w.key \in StateKeys /\ w.last <= payload[w.key] /\ w.todo \subseteq 0 .. Len(changes)
      BY <1>1, <2>2, <3>1 DEF ProjectWork, NotAhead
    <3>3. w.last <= payload'[w.key] /\ w.todo \subseteq 0 .. Len(changes')
      <4>1. payload[w.key] <= payload'[w.key] /\ payload[w.key] \in Nat /\ payload'[w.key] \in Nat
        BY <1>1, <1>2, <3>2
      <4> QED
        BY <1>1, <3>2, <4>1 DEF Frame
    <3> QED
      BY <2>1, <2>2, <3>3 DEF NotAhead
  <2> QED
    BY <2>1, <2>2 DEF NotAhead
<1>4. CASE work'[q] = w /\ \A k \in K : ~At(w, k)
  <2>1. CASE w.pc = "sync" /\ w.alone
    <3>1. w.key \in StateKeys \ K
      BY <1>1, <1>4, <2>1, AtFields DEF At
    <3> QED
      BY <1>1, <1>3, <1>4, <2>1, <3>1 DEF Found, Frame, Reaches
  <2>2. CASE w.pc \in {"replay", "project"} /\ w.until = "saved" /\ w.alone
    <3>1. w.key \in StateKeys \ K
      BY <1>1, <1>4, <2>2, AtFields DEF At
    <3>2. /\ payload'[w.key] = payload[w.key] /\ checkpoint'[w.key] = checkpoint[w.key]
          /\ checkpoint[w.key] \in Nat
          /\ Ids(w.key, checkpoint[w.key])' = Ids(w.key, checkpoint[w.key])
          /\ \A t \in tablesOf(w.key) : rows'[t] = rows[t]
      BY <1>1, <1>4, <3>1 DEF Frame, Ids
    <3>3. w.pc = "project" => Ids(w.key, w.last)' = Ids(w.key, w.last)
      BY <1>1, <1>4, <3>1, WorkKinds DEF Frame, Ids, ProjectWork
    <3>4. Reaches(work[q])'
      BY <1>1, <1>4, <2>2, <3>2, <3>3 DEF Reaches
    <3> QED
      BY <1>3, <1>4, <2>2, <3>4 DEF Found
  <2> QED
    BY <1>3, <1>4, <2>1, <2>2 DEF Reaches, Found
<1>5. CASE (\E k \in K : At(w, k)) /\ ~work'[q].alone
  <2>1. ~(work'[q].pc \in {"replay", "project"} /\ work'[q].until = "saved" /\ work'[q].alone)
    BY <1>5
  <2> QED
    BY <1>3, <1>5 DEF Reaches, Found
<1>6. CASE work'[q] = w /\ \A k \in K : At(w, k) => ~w.alone
  BY <1>4, <1>5, <1>6
<1>7. ASSUME NEW k \in K, At(w, k), work'[q] = [w EXCEPT !.alone = FALSE]
      PROVE  ~work'[q].alone
  BY <1>1, <1>7, AtFields
<1> QED
  BY <1>5, <1>6, <1>7 DEF Bystander

\* Projecting, in terms of the work.
LEMMA ProjectingAt ==
    ASSUME NEW p, NEW k
    PROVE  (Projecting(p, k) <=> At(work[p], k)) /\ (Projecting(p, k)' <=> At(work'[p], k))
BY DEF Projecting, At

\* A step of p that starts no projection, and changes only keys p is at, keeps the invariant when
\* p's own work stays sound and p declares clean only what it has brought up to date alone.
LEMMA LocalStep ==
    ASSUME StoreInv, StoreTyped', NEW p \in StoreProcs, NEW K \in SUBSET StateKeys, Frame(K),
           \A k \in K : At(work[p], k),
           \A q \in StoreProcs \ {p} : work'[q] = work[q],
           \A k \in StateKeys : At(work'[p], k) => At(work[p], k) /\ (work'[p].alone => work[p].alone),
           Reaches(work[p])' /\ Found(work[p])' /\ NotAhead(work[p])',
           \A k \in clean' \ clean : /\ At(work[p], k) /\ work[p].alone /\ ~At(work'[p], k)
                                     /\ \A t \in tablesOf(k) : rows'[t] = payload'[k],
           UNCHANGED <<payload, changes>>, CheckpointBehind'
    PROVE  StoreInv'
<1>1. \A q \in StoreProcs, k \in StateKeys : At(work[q], k) /\ work[q].alone =>
        \A r \in StoreProcs \ {q} : ~At(work[r], k)
  BY ProjectingAt DEF StoreInv, AloneIsAlone, Alone
<1>2. \A q \in StoreProcs, k \in clean : ~At(work[q], k)
  BY ProjectingAt DEF StoreInv, AloneIsAlone
<1>3. clean' \subseteq StateKeys /\ clean \subseteq StateKeys
  BY DEF StoreInv, StoreTyped
<1>4. WorkInv'
  <2>1. ASSUME NEW q \in StoreProcs \ {p} PROVE Reaches(work[q])' /\ Found(work[q])' /\ NotAhead(work[q])'
    <3>1. Bystander(q, K)
      BY <1>1 DEF Bystander
    <3> QED
      BY <3>1, BystanderSound
  <2> QED
    BY <2>1 DEF WorkInv
<1>5. ASSUME NEW q \in StoreProcs, NEW k \in StateKeys, At(work'[q], k), work'[q].alone,
             NEW r \in StoreProcs \ {q}
      PROVE  ~At(work'[r], k)
  <2>1. At(work[q], k) /\ work[q].alone
    BY <1>5
  <2>2. ~At(work[r], k)
    BY <1>1, <2>1
  <2> QED
    BY <2>2
<1>6. ASSUME NEW q \in StoreProcs, NEW k \in clean' PROVE ~At(work'[q], k)
  <2>1. CASE k \in clean
    BY <1>2, <1>3, <2>1
  <2>2. CASE k \notin clean
    BY <1>1, <1>3, <2>2
  <2> QED
    BY <2>1, <2>2
<1>7. AloneIsAlone'
  BY <1>5, <1>6, ProjectingAt DEF AloneIsAlone, Alone
<1>8. ProjectionFollows'
  <2> SUFFICES ASSUME NEW k \in clean' PROVE \A t \in tablesOf(k) : rows'[t] = payload'[k]
    BY DEF ProjectionFollows
  <2>1. CASE k \in clean
    <3>1. k \in StateKeys \ K
      BY <1>2, <1>3, <2>1
    <3> QED
      BY <2>1, <3>1 DEF Frame, StoreInv, ProjectionFollows
  <2>2. CASE k \notin clean
    BY <2>2
  <2> QED
    BY <2>1, <2>2
<1>9. PayloadIsLast'
  BY DEF StoreInv, PayloadIsLast
<1> QED
  BY <1>4, <1>7, <1>8, <1>9 DEF StoreInv

\* What Disturb does to everybody's work.
LEMMA Disturbed ==
    ASSUME work \in [StoreProcs -> Works], NEW p \in StoreProcs, NEW k \in StateKeys, NEW w \in Works,
           Disturb(p, k, w)
    PROVE  /\ work' \in [StoreProcs -> Works] /\ work'[p] = w
           /\ \A q \in StoreProcs \ {p} : /\ Bystander(q, {k})
                                          /\ \A j : At(work'[q], j) <=> At(work[q], j)
                                          /\ At(work[q], k) => ~work'[q].alone
                                          /\ ~At(work[q], k) => work'[q] = work[q]
<1>1. /\ work' = [q \in StoreProcs |-> IF q = p THEN w ELSE IF At(work[q], k)
                                       THEN [work[q] EXCEPT !.alone = FALSE] ELSE work[q]]
  BY ProjectingAt DEF Disturb
<1>2. ASSUME NEW q \in StoreProcs \ {p}, At(work[q], k)
      PROVE  /\ work'[q] \in Works /\ work'[q] = [work[q] EXCEPT !.alone = FALSE]
             /\ ~work'[q].alone /\ \A j : At(work'[q], j) <=> At(work[q], j)
  BY <1>1, <1>2, AtFields DEF At
<1>3. ASSUME NEW q \in StoreProcs \ {p}, ~At(work[q], k)
      PROVE  work'[q] \in Works /\ work'[q] = work[q]
  BY <1>1, <1>3
<1>4. work' \in [StoreProcs -> Works]
  BY <1>1, <1>2, <1>3
<1> QED
  BY <1>1, <1>2, <1>3, <1>4 DEF Bystander

\* A step that starts to project a key keeps the invariant when the new work is sound.
LEMMA StartStep ==
    ASSUME StoreInv, StoreTyped', NEW p \in StoreProcs, NEW k \in StateKeys, Frame({k}),
           \A j : ~At(work[p], j), NEW w \in Works, At(w, k), w.alone => Alone(p, k),
           Disturb(p, k, w), clean' = clean \ {k},
           Reaches(work[p])' /\ Found(work[p])' /\ NotAhead(work[p])',
           PayloadIsLast' /\ CheckpointBehind'
    PROVE  StoreInv'
<1>1. \A q \in StoreProcs, j \in StateKeys : At(work[q], j) /\ work[q].alone =>
        \A r \in StoreProcs \ {q} : ~At(work[r], j)
  BY ProjectingAt DEF StoreInv, AloneIsAlone, Alone
<1>2. \A q \in StoreProcs, j \in clean : ~At(work[q], j)
  BY ProjectingAt DEF StoreInv, AloneIsAlone
<1>3. /\ work'[p] = w
      /\ \A q \in StoreProcs \ {p} : /\ Bystander(q, {k})
                                     /\ \A j : At(work'[q], j) <=> At(work[q], j)
                                     /\ At(work[q], k) => ~work'[q].alone
                                     /\ ~At(work[q], k) => work'[q] = work[q]
  BY Disturbed DEF StoreInv, StoreTyped
<1>4. \A j : At(w, j) => j = k
  BY DEF At
<1>5. WorkInv'
  <2>1. ASSUME NEW q \in StoreProcs \ {p} PROVE Reaches(work[q])' /\ Found(work[q])' /\ NotAhead(work[q])'
    BY <1>3, BystanderSound
  <2> QED
    BY <2>1 DEF WorkInv
<1>6. ASSUME NEW q \in StoreProcs, NEW j \in StateKeys, At(work'[q], j), work'[q].alone,
             NEW r \in StoreProcs \ {q}
      PROVE  ~At(work'[r], j)
  <2>1. CASE q = p
    <3>1. j = k /\ Alone(p, k)
      BY <1>3, <1>4, <1>6, <2>1
    <3> QED
      BY <1>3, <2>1, <3>1, ProjectingAt DEF Alone
  <2>2. CASE q # p
    <3>1. ~At(work[q], k) /\ work'[q] = work[q] /\ At(work[q], j) /\ j # k
      BY <1>3, <1>6, <2>2
    <3>2. ~At(work[r], j)
      BY <1>1, <1>6, <3>1
    <3> QED
      BY <1>3, <1>4, <3>1, <3>2
  <2> QED
    BY <2>1, <2>2
<1>7. ASSUME NEW q \in StoreProcs, NEW j \in clean' PROVE ~At(work'[q], j)
  BY <1>2, <1>3, <1>4
<1>8. AloneIsAlone'
  BY <1>6, <1>7, ProjectingAt DEF AloneIsAlone, Alone
<1>9. ProjectionFollows'
  <2> SUFFICES ASSUME NEW j \in clean' PROVE \A t \in tablesOf(j) : rows'[t] = payload'[j]
    BY DEF ProjectionFollows
  <2>1. j \in StateKeys \ {k} /\ j \in clean
    BY DEF StoreInv, StoreTyped
  <2> QED
    BY <2>1 DEF Frame, StoreInv, ProjectionFollows
<1> QED
  BY <1>5, <1>8, <1>9 DEF StoreInv

-----------------------------------------------------------------------------
(* The steps.                                                              *)

\* Replacing the work of one process.
LEMMA SetWork ==
    ASSUME work \in [StoreProcs -> Works], NEW p \in StoreProcs, NEW w \in Works, Set(p, w)
    PROVE  /\ work' \in [StoreProcs -> Works] /\ work'[p] = w
           /\ \A q \in StoreProcs \ {p} : work'[q] = work[q]
BY DEF Set

\* A step that touches no payload, change, checkpoint or row.
LEMMA FrameNothing ==
    ASSUME StoreTyped, UNCHANGED <<payload, changes, checkpoint, rows>>, NEW K \in SUBSET StateKeys
    PROVE  Frame(K)
<1>1. payload \in [StateKeys -> Nat] /\ Len(changes) \in Nat
  BY DEF StoreTyped
<1>2. \A k, id : Ids(k, id)' = Ids(k, id)
  BY DEF Ids
<1> QED
  BY <1>1, <1>2 DEF Frame

\* A process comes to rest, or to work that projects nothing.
LEMMA QuietStep ==
    ASSUME StoreInv, NEW p \in StoreProcs, NEW w \in Works, w.pc \notin {"replay", "project", "sync"},
           Set(p, w), UNCHANGED <<payload, changes, checkpoint, rows, clean>>
    PROVE  StoreInv'
<1>1. /\ work' \in [StoreProcs -> Works] /\ work'[p] = w
      /\ \A q \in StoreProcs \ {p} : work'[q] = work[q]
  BY SetWork DEF StoreInv, StoreTyped
<1>2. StoreTyped'
  BY <1>1 DEF StoreInv, StoreTyped
<1>3. Frame({})
  BY FrameNothing DEF StoreInv
<1>4. \A k \in StateKeys : ~At(work'[p], k)
  BY <1>1 DEF At
<1>5. Reaches(work[p])' /\ Found(work[p])' /\ NotAhead(work[p])'
  BY <1>1 DEF Reaches, Found, NotAhead
<1>6. CheckpointBehind'
  BY DEF StoreInv, CheckpointBehind
<1> QED
  BY <1>1, <1>2, <1>3, <1>4, <1>5, <1>6, LocalStep

\* The tables of a key are overwritten, and no others.
LEMMA FrameRows ==
    ASSUME StoreTyped, NEW k \in StateKeys, NEW id \in Nat, applyProjection(k, id),
           UNCHANGED <<payload, changes, checkpoint>>
    PROVE  /\ Frame({k}) /\ rows' \in [ProjectionTables -> Nat]
           /\ \A t \in tablesOf(k) : rows'[t] = id
<1>1. payload \in [StateKeys -> Nat] /\ Len(changes) \in Nat /\ rows \in [ProjectionTables -> Nat]
  BY DEF StoreTyped
<1>2. \A j, i : Ids(j, i)' = Ids(j, i)
  BY DEF Ids
<1>3. rows' = [t \in ProjectionTables |-> IF t \in tablesOf(k) THEN id ELSE rows[t]]
  BY <1>1 DEF applyProjection
<1>4. rows' \in [ProjectionTables -> Nat]
  BY <1>1, <1>3
<1>5. \A t \in tablesOf(k) : rows'[t] = id
  BY <1>3, TablesProjected
<1>6. ASSUME NEW j \in StateKeys \ {k}, NEW t \in tablesOf(j) PROVE rows'[t] = rows[t]
  BY <1>3, TablesProjected, TablesDisjoint
<1> QED
  BY <1>1, <1>2, <1>4, <1>5, <1>6 DEF Frame

\* The changes of a key after an id are finitely many and none is later than the payload.
LEMMA IdsBounded ==
    ASSUME StoreInv, NEW k \in StateKeys, NEW id \in Nat
    PROVE  /\ Ids(k, id) \subseteq 0 .. payload[k] /\ payload[k] \in Nat /\ payload[k] <= Len(changes)
           /\ IsFiniteSet(Ids(k, id)) /\ Cardinality(Ids(k, id)) \in Nat
           /\ id < payload[k] => payload[k] \in Ids(k, id)
<1>1. payload[k] \in Nat /\ payload[k] \in 0 .. Len(changes) /\ Len(changes) \in Nat
  BY DEF StoreInv, StoreTyped, PayloadIsLast
<1>2. Ids(k, id) \subseteq 0 .. payload[k]
  BY <1>1 DEF StoreInv, StoreTyped, PayloadIsLast, Ids
<1>3. IsFiniteSet(Ids(k, id))
  <2>1. IsFiniteSet(0 .. payload[k])
    BY <1>1, FS_Interval
  <2> QED
    BY <1>2, <2>1, FS_Subset
<1>4. id < payload[k] => payload[k] \in Ids(k, id)
  BY <1>1 DEF StoreInv, StoreTyped, PayloadIsLast, Ids, NoChange
<1> QED
  BY <1>1, <1>2, <1>3, <1>4, FS_CardinalityType

\* The list a replay works through is the oldest of the changes after the id.
LEMMA Listed ==
    ASSUME NEW k, NEW id, NEW limit
    PROVE  changesFrom(k, id, limit) = Oldest(Ids(k, id), limit)
BY DEF changesFrom, Oldest, Ids, Rank

\* ReplayStateChangesFromCheckpoint lists a batch that ends at most at the payload; a save that is
\* alone with its key lists something, and has room for the rest in the batches it has left.
LEMMA ListStep ==
    ASSUME StoreInv, NEW p \in StoreProcs, ReplayStateChangesFromCheckpoint(p)
    PROVE  StoreInv'
<1> USE BatchesAssumption
<1> DEFINE w == work[p]
           R == Ids(w.key, checkpoint[w.key])
           todo == changesFrom(w.key, checkpoint[w.key], ReplayLimit)
           last == IF todo = {} THEN checkpoint[w.key] ELSE X!Max(todo)
           v == [pc |-> "project", key |-> w.key, target |-> w.target, batches |-> w.batches,
                 until |-> w.until, alone |-> w.alone, todo |-> todo, last |-> last, some |-> todo # {}]
<1>1. w \in ReplayWork /\ w.pc = "replay" /\ Set(p, v) /\ UNCHANGED <<payload, changes, checkpoint, rows, clean>>
  BY WorkKinds DEF StoreInv, StoreTyped, ReplayStateChangesFromCheckpoint
<1>2. w.key \in StateKeys /\ checkpoint[w.key] \in Nat /\ payload[w.key] \in Nat
      /\ checkpoint[w.key] <= payload[w.key] /\ w.batches \in Nat \ {0}
  BY <1>1 DEF StoreInv, StoreTyped, ReplayWork, CheckpointBehind
<1>3. /\ R \subseteq 0 .. payload[w.key] /\ payload[w.key] <= Len(changes) /\ R \subseteq Nat
      /\ checkpoint[w.key] < payload[w.key] => payload[w.key] \in R
  <2>1. /\ R \subseteq 0 .. payload[w.key] /\ payload[w.key] <= Len(changes)
        /\ checkpoint[w.key] < payload[w.key] => payload[w.key] \in R
    BY <1>2, IdsBounded
  <2> HIDE DEF R
  <2>2. R \subseteq Nat
    BY <2>1
  <2> QED
    BY <2>1, <2>2
<1>4. todo = Oldest(R, ReplayLimit)
  BY Listed
<1>5. todo \subseteq R
  BY <1>4 DEF Oldest
<1>6. /\ last \in Nat /\ last <= payload[w.key]
      /\ \A i \in todo : i <= last
      /\ todo # {} => last \in todo
  <2>1. CASE todo = {}
    BY <1>2, <2>1
  <2>2. CASE todo # {}
    <3>1. X!Max(todo) \in todo /\ \A y \in todo : y <= X!Max(todo)
      BY <1>2, <1>3, <1>5, <2>2, MaxPicks
    <3>2. last = X!Max(todo)
      BY <2>2
    <3> HIDE DEF todo, last, R
    <3>3. last \in 0 .. payload[w.key]
      BY <1>3, <1>5, <3>1, <3>2
    <3>4. last \in Nat /\ last <= payload[w.key]
      BY <1>2, <3>3
    <3> QED
      BY <3>1, <3>2, <3>4
  <2> QED
    BY <2>1, <2>2
<1>7. Reaches(w)
  BY DEF StoreInv, WorkInv
<1>8. CheckpointBehind'
  BY <1>1 DEF StoreInv, CheckpointBehind
<1>9. Frame({})
  BY <1>1, FrameNothing DEF StoreInv
<1>10. Len(changes) \in Nat
  BY DEF StoreInv, StoreTyped
<1>11. ASSUME w.until = "saved", w.alone
       PROVE  /\ todo # {} /\ w.target = payload[w.key] /\ checkpoint[w.key] < w.target
              /\ Cardinality(Ids(w.key, last)) <= (w.batches - 1) * ReplayLimit
  <2>1. /\ w.target = payload[w.key] /\ checkpoint[w.key] < w.target
        /\ Cardinality(R) <= w.batches * ReplayLimit
    BY <1>1, <1>7, <1>11 DEF Reaches
  <2>2. R # {}
    BY <1>3, <2>1
  <2>3. todo # {}
    BY <1>3, <1>4, <2>2, BatchTakes
  <2>4. Cardinality({i \in R : i > last}) <= (w.batches - 1) * ReplayLimit
    <3>1. last \in Oldest(R, ReplayLimit) /\ \A i \in Oldest(R, ReplayLimit) : i <= last
      BY <1>4, <1>6, <2>3
    <3>2. R \in SUBSET (0 .. payload[w.key])
      BY <1>3
    <3> HIDE DEF R, last, todo
    <3> QED
      BY <1>2, <2>1, <3>1, <3>2, BatchShrinks
  <2>5. {i \in R : i > last} = Ids(w.key, last)
    <3>1. last \in R
      BY <1>5, <1>6, <2>3
    <3>2. last > checkpoint[w.key]
      BY <3>1 DEF Ids
    <3>3. \A i \in DOMAIN changes : i > last => i > checkpoint[w.key]
      BY <1>2, <1>6, <3>2 DEF StoreInv, StoreTyped
    <3> QED
      BY <3>3 DEF Ids
  <2> QED
    BY <2>1, <2>3, <2>4, <2>5
<1>12. v \in ProjectWork
  BY <1>1, <1>3, <1>5, <1>6 DEF ReplayWork, ProjectWork
<1>13. /\ v.pc = "project" /\ v.key = w.key /\ v.target = w.target /\ v.batches = w.batches /\ v.until = w.until
       /\ v.alone = w.alone /\ v.todo = todo /\ v.last = last /\ v.some = (todo # {})
  OBVIOUS
<1> HIDE DEF v, last, todo, R
<1>14. /\ work' \in [StoreProcs -> Works] /\ work'[p] = v
       /\ \A q \in StoreProcs \ {p} : work'[q] = work[q]
  BY <1>1, <1>12, SetWork DEF StoreInv, StoreTyped, Works
<1>15. StoreTyped'
  BY <1>1, <1>14 DEF StoreInv, StoreTyped
<1>16. NotAhead(work[p])' /\ Found(work[p])'
  <2>1. todo \subseteq 0 .. Len(changes)
    BY <1>2, <1>3, <1>5, <1>10
  <2> QED
    BY <1>1, <1>6, <1>13, <1>14, <2>1 DEF NotAhead, Found
<1>17. Reaches(work[p])'
  <2>1. \A k, id : Ids(k, id)' = Ids(k, id)
    BY <1>1 DEF Ids
  <2>2. CASE w.until = "saved" /\ w.alone
    <3>1. Ids(work[p].key, work[p].last)' = Ids(w.key, last)
      BY <1>1, <1>13, <1>14 DEF Ids
    <3> QED
      BY <1>1, <1>6, <1>11, <1>13, <1>14, <2>2, <3>1 DEF Reaches
  <2>3. CASE ~(w.until = "saved" /\ w.alone)
    BY <1>13, <1>14, <2>3 DEF Reaches
  <2> QED
    BY <2>2, <2>3
<1>18. \A k \in StateKeys : At(work'[p], k) => At(work[p], k) /\ (work'[p].alone => work[p].alone)
  BY <1>1, <1>13, <1>14 DEF At
<1> QED
  BY <1>1, <1>8, <1>9, <1>14, <1>15, <1>16, <1>17, <1>18, LocalStep

\* ReplayStateChanges: the last change of a list is the last to be projected.
LEMMA ProjectStep ==
    ASSUME StoreInv, NEW p \in StoreProcs, ReplayStateChanges(p)
    PROVE  StoreInv'
<1> DEFINE w == work[p]
           next == X!Min(w.todo)
           v == [w EXCEPT !.todo = @ \ {next}]
<1>1. /\ w \in ProjectWork /\ w.pc = "project" /\ w.todo # {} /\ applyProjection(w.key, next) /\ Set(p, v)
      /\ UNCHANGED <<payload, changes, checkpoint, clean>>
  BY WorkKinds DEF StoreInv, StoreTyped, ReplayStateChanges
<1>2. w.key \in StateKeys /\ w.todo \in SUBSET Nat /\ w.last \in Nat
  BY <1>1 DEF ProjectWork
<1>3. next \in w.todo /\ next \in Nat /\ \A y \in w.todo : next <= y
  BY <1>1, <1>2, MinPicks
<1> HIDE DEF next
<1>4. /\ v \in ProjectWork /\ v.pc = "project" /\ v.key = w.key /\ v.target = w.target
      /\ v.batches = w.batches /\ v.until = w.until /\ v.alone = w.alone /\ v.last = w.last
      /\ v.some = w.some /\ v.todo = w.todo \ {next}
  BY <1>1 DEF ProjectWork
<1> HIDE DEF v
<1>5. /\ work' \in [StoreProcs -> Works] /\ work'[p] = v
      /\ \A q \in StoreProcs \ {p} : work'[q] = work[q]
  BY <1>1, <1>4, SetWork DEF StoreInv, StoreTyped, Works
<1>6. /\ Frame({w.key}) /\ rows' \in [ProjectionTables -> Nat]
      /\ \A t \in tablesOf(w.key) : rows'[t] = next
  BY <1>1, <1>2, <1>3, FrameRows DEF StoreInv
<1>7. StoreTyped'
  BY <1>1, <1>5, <1>6 DEF StoreInv, StoreTyped
<1>8. Reaches(w) /\ NotAhead(w)
  BY DEF StoreInv, WorkInv
<1>9. Found(work[p])' /\ NotAhead(work[p])'
  BY <1>1, <1>4, <1>5, <1>8 DEF Found, NotAhead
<1>10. Reaches(work[p])'
  <2>1. CASE w.until = "saved" /\ w.alone
    <3>1. /\ w.target = payload[w.key] /\ checkpoint[w.key] < w.target /\ w.some
          /\ Cardinality(Ids(w.key, w.last)) <= (w.batches - 1) * ReplayLimit
          /\ \A i \in w.todo : i <= w.last
          /\ w.last \in w.todo
      BY <1>1, <1>8, <2>1 DEF Reaches
    <3>2. v.todo # {} => v.last \in v.todo
      <4>1. ASSUME v.todo # {}, next = w.last PROVE FALSE
        <5>1. PICK y \in w.todo : y # next
          BY <1>4, <4>1
        <5>2. y \in Nat /\ y <= w.last /\ next <= y
          BY <1>2, <1>3, <3>1, <5>1
        <5> QED
          BY <1>2, <4>1, <5>1, <5>2
      <4> QED
        BY <1>4, <3>1, <4>1
    <3>3. v.todo = {} => next = w.last
      BY <1>4, <3>1
    <3>4. \A i \in v.todo : i <= v.last
      BY <1>4, <3>1
    <3>5. Ids(work[p].key, work[p].last)' = Ids(w.key, w.last)
      BY <1>1, <1>4, <1>5 DEF Ids
    <3>6. v.todo = {} => \A t \in tablesOf(v.key) : rows'[t] = v.last
      BY <1>4, <1>6, <3>3
    <3> QED
      BY <1>1, <1>4, <1>5, <3>1, <3>2, <3>4, <3>5, <3>6 DEF Reaches
  <2>2. CASE ~(w.until = "saved" /\ w.alone)
    BY <1>4, <1>5, <2>2 DEF Reaches
  <2> QED
    BY <2>1, <2>2
<1>11. CheckpointBehind'
  BY <1>1 DEF StoreInv, CheckpointBehind
<1>12. /\ \A k \in StateKeys : At(work'[p], k) => At(work[p], k) /\ (work'[p].alone => work[p].alone)
       /\ {w.key} \in SUBSET StateKeys /\ \A k \in {w.key} : At(work[p], k)
  BY <1>1, <1>2, <1>4, <1>5 DEF At
<1> QED
  BY <1>1, <1>5, <1>6, <1>7, <1>9, <1>10, <1>11, <1>12, LocalStep

\* A product of naturals.
LEMMA ProductNat ==
    ASSUME NEW a \in Nat, NEW b \in Nat
    PROVE  a * b \in Nat
OBVIOUS

\* The greater of two numbers.
LEMMA MaxOfTwo ==
    ASSUME NEW a \in Nat, NEW b \in Nat
    PROVE  X!Max({a, b}) \in {a, b} /\ a <= X!Max({a, b}) /\ b <= X!Max({a, b})
<1>1. \E x \in {a, b} : \A y \in {a, b} : x >= y
  <2>1. CASE a <= b
    <3>1. \A y \in {a, b} : b >= y
      BY <2>1
    <3> QED
      BY <3>1
  <2>2. CASE b <= a
    <3>1. \A y \in {a, b} : a >= y
      BY <2>2
    <3> QED
      BY <3>1
  <2> QED
    BY <2>1, <2>2
<1>2. X!Max({a, b}) \in {a, b} /\ \A y \in {a, b} : X!Max({a, b}) >= y
  BY <1>1 DEF X!Max
<1> QED
  BY <1>2

\* upsertReplayCheckpoint: a save that is alone with its key and stops has shown the payload.
LEMMA CheckpointStep ==
    ASSUME StoreInv, NEW p \in StoreProcs, upsertReplayCheckpoint(p)
    PROVE  StoreInv'
<1> USE BatchesAssumption
<1> DEFINE w == work[p]
           k == w.key
           over == w.last >= w.target \/ ~w.some \/ w.batches = 1
           c == X!Max({checkpoint[k], w.last})
           u == [Replay(p, k, w.target, w.batches - 1, w.until) EXCEPT !.alone = w.alone]
           v == IF over THEN AtRest ELSE u
<1>1. /\ w \in ProjectWork /\ w.pc = "project" /\ w.todo = {} /\ checkpoint' = [checkpoint EXCEPT ![k] = c]
      /\ Set(p, v) /\ clean' = (IF over /\ w.alone /\ w.until = "saved" THEN clean \cup {k} ELSE clean)
      /\ UNCHANGED <<payload, changes, rows>>
  BY WorkKinds DEF StoreInv, StoreTyped, upsertReplayCheckpoint
<1>2. /\ k \in StateKeys /\ w.last \in Nat /\ w.target \in Nat /\ w.batches \in Nat \ {0} /\ w.alone \in BOOLEAN
      /\ checkpoint[k] \in Nat /\ payload[k] \in Nat /\ w.until \in Untils /\ Len(changes) \in Nat
      /\ checkpoint \in [StateKeys -> Nat]
  BY <1>1 DEF ProjectWork, StoreInv, StoreTyped
<1>3. c \in {checkpoint[k], w.last} /\ checkpoint[k] <= c /\ w.last <= c /\ c \in Nat
  BY <1>2, MaxOfTwo
<1>4. Reaches(w) /\ NotAhead(w) /\ checkpoint[k] <= payload[k]
  BY <1>2 DEF StoreInv, WorkInv, CheckpointBehind
<1>5. c <= payload[k]
  BY <1>1, <1>3, <1>4 DEF NotAhead
<1>6. u = [pc |-> "replay", key |-> k, target |-> w.target, batches |-> w.batches - 1, until |-> w.until,
           alone |-> w.alone]
  BY DEF Replay
<1> HIDE DEF c, u
<1>a. ~over => w.batches - 1 \in Nat \ {0}
  BY <1>2
<1>7. ~over => /\ u \in ReplayWork /\ u.pc = "replay" /\ u.key = k /\ u.target = w.target
               /\ u.batches = w.batches - 1 /\ u.until = w.until /\ u.alone = w.alone
  BY <1>2, <1>6, <1>a DEF ReplayWork
<1>8. v \in Works /\ (over => v = AtRest) /\ (~over => v = u)
  BY <1>7 DEF Works
<1> HIDE DEF v
<1>9. /\ work' \in [StoreProcs -> Works] /\ work'[p] = v
      /\ \A q \in StoreProcs \ {p} : work'[q] = work[q]
  BY <1>1, <1>8, SetWork DEF StoreInv, StoreTyped
<1>10. checkpoint'[k] = c /\ \A j \in StateKeys \ {k} : checkpoint'[j] = checkpoint[j]
  BY <1>1, <1>2
<1>11. StoreTyped'
  BY <1>1, <1>2, <1>3, <1>9 DEF StoreInv, StoreTyped
<1>12. CheckpointBehind'
  <2> SUFFICES ASSUME NEW j \in StateKeys PROVE checkpoint'[j] <= payload[j]
    BY <1>1 DEF CheckpointBehind
  <2>1. CASE j = k
    BY <1>5, <1>10, <2>1
  <2>2. CASE j # k
    BY <1>10, <2>2 DEF StoreInv, CheckpointBehind
  <2> QED
    BY <2>1, <2>2
<1>13. Frame({k})
  <2>1. \A j, id : Ids(j, id)' = Ids(j, id)
    BY <1>1 DEF Ids
  <2> QED
    BY <1>1, <1>2, <1>10, <2>1 DEF Frame
<1>14. ASSUME w.until = "saved", w.alone
       PROVE  /\ w.target = payload[k] /\ checkpoint[k] < w.target /\ w.some
              /\ Cardinality(Ids(k, w.last)) <= (w.batches - 1) * ReplayLimit
              /\ \A t \in tablesOf(k) : rows[t] = w.last
  BY <1>1, <1>4, <1>14 DEF Reaches
<1>15. ASSUME over, w.until = "saved", w.alone PROVE w.last = payload[k]
  <2>1. w.last <= payload[k]
    BY <1>1, <1>4 DEF NotAhead
  <2>2. CASE w.last >= w.target
    BY <1>2, <1>14, <1>15, <2>1, <2>2
  <2>3. CASE w.batches = 1
    <3>1. (w.batches - 1) * ReplayLimit = 0
      BY <2>3
    <3>2. Cardinality(Ids(k, w.last)) <= 0
      BY <1>14, <1>15, <3>1
    <3>3. Ids(k, w.last) = {}
      <4>1. IsFiniteSet(Ids(k, w.last)) /\ Cardinality(Ids(k, w.last)) \in Nat
        BY <1>2, IdsBounded
      <4>2. Cardinality(Ids(k, w.last)) = 0
        BY <3>2, <4>1
      <4> QED
        BY <4>1, <4>2, FS_EmptySet
    <3>4. ~(w.last < payload[k])
      BY <1>2, <3>3, IdsBounded
    <3> QED
      BY <1>2, <2>1, <3>4
  <2> QED
    BY <1>14, <1>15, <2>2, <2>3
<1>16. Found(work[p])' /\ NotAhead(work[p])'
  BY <1>7, <1>8, <1>9 DEF Found, NotAhead, AtRest
<1>17. Reaches(work[p])'
  <2>1. CASE ~over /\ w.until = "saved" /\ w.alone
    <3>1. c < w.target
      BY <1>2, <1>3, <1>14, <2>1
    <3>2. Ids(k, c) \in SUBSET Ids(k, w.last)
      BY <1>2, <1>3 DEF Ids, StoreInv, StoreTyped
    <3>3. Cardinality(Ids(k, c)) <= Cardinality(Ids(k, w.last))
      BY <1>2, <3>2, IdsBounded, FS_Subset
    <3>4. Cardinality(Ids(k, c)) <= (w.batches - 1) * ReplayLimit
      <4>1. Cardinality(Ids(k, c)) \in Nat /\ Cardinality(Ids(k, w.last)) \in Nat
        BY <1>2, <1>3, IdsBounded
      <4>2. w.batches - 1 \in Nat /\ ReplayLimit \in Nat
        BY <1>2
      <4>3. (w.batches - 1) * ReplayLimit \in Nat
        BY <4>2, ProductNat
      <4> QED
        BY <1>14, <2>1, <3>3, <4>1, <4>3
    <3>5. /\ work'[p].key = k /\ work'[p].pc = "replay" /\ work'[p].target = w.target
          /\ work'[p].batches = w.batches - 1 /\ checkpoint'[k] = c
      BY <1>7, <1>8, <1>9, <1>10, <2>1
    <3>6. checkpoint'[work'[p].key] = c
      BY <3>5
    <3>7. Ids(work[p].key, checkpoint[work[p].key])' = Ids(k, c)
      BY <1>1, <3>5, <3>6 DEF Ids
    <3>8. payload'[work'[p].key] = w.target
      BY <1>1, <1>14, <2>1, <3>5
    <3> HIDE DEF k, over
    <3> QED
      BY <3>1, <3>4, <3>5, <3>6, <3>7, <3>8 DEF Reaches
  <2>2. CASE over
    BY <1>8, <1>9, <2>2 DEF Reaches, AtRest
  <2>3. CASE ~over /\ ~(w.until = "saved" /\ w.alone)
    BY <1>7, <1>8, <1>9, <2>3 DEF Reaches
  <2> QED
    BY <2>1, <2>2, <2>3
<1>18. \A j \in StateKeys : At(work'[p], j) => At(work[p], j) /\ (work'[p].alone => work[p].alone)
  BY <1>1, <1>7, <1>8, <1>9 DEF At, AtRest
<1>19. ASSUME NEW j \in clean' \ clean
       PROVE  /\ At(work[p], j) /\ work[p].alone /\ ~At(work'[p], j)
              /\ \A t \in tablesOf(j) : rows'[t] = payload'[j]
  <2>1. over /\ w.alone /\ w.until = "saved" /\ j = k
    BY <1>1, <1>19
  <2>2. At(work[p], j) /\ ~At(work'[p], j)
    BY <1>1, <1>8, <1>9, <2>1 DEF At, AtRest
  <2> QED
    BY <1>1, <1>14, <1>15, <2>1, <2>2
<1>20. {k} \in SUBSET StateKeys /\ \A j \in {k} : At(work[p], j)
  BY <1>1, <1>2 DEF At
<1> QED
  BY <1>1, <1>9, <1>11, <1>12, <1>13, <1>16, <1>17, <1>18, <1>19, <1>20, LocalStep

\* syncProjectionTables: a start that was alone with the key has shown what is stored.
LEMMA SyncStep ==
    ASSUME StoreInv, NEW p \in StoreProcs, syncProjectionTables(p)
    PROVE  StoreInv'
<1> DEFINE w == work[p]
           v == [pc |-> "starting", todo |-> w.todo]
<1>1. /\ w \in SyncWork /\ w.pc = "sync" /\ applyProjection(w.key, w.found) /\ Set(p, v)
      /\ clean' = (IF w.alone THEN clean \cup {w.key} ELSE clean)
      /\ UNCHANGED <<payload, changes, checkpoint>>
  BY WorkKinds DEF StoreInv, StoreTyped, syncProjectionTables
<1>2. w.key \in StateKeys /\ w.found \in Nat /\ v \in Works /\ v.pc = "starting"
  BY <1>1 DEF SyncWork, StartWork, Works
<1> HIDE DEF v
<1>3. /\ work' \in [StoreProcs -> Works] /\ work'[p] = v
      /\ \A q \in StoreProcs \ {p} : work'[q] = work[q]
  BY <1>1, <1>2, SetWork DEF StoreInv, StoreTyped
<1>4. /\ Frame({w.key}) /\ rows' \in [ProjectionTables -> Nat]
      /\ \A t \in tablesOf(w.key) : rows'[t] = w.found
  BY <1>1, <1>2, FrameRows DEF StoreInv
<1>5. StoreTyped'
  BY <1>1, <1>2, <1>3, <1>4 DEF StoreInv, StoreTyped
<1>6. Reaches(work[p])' /\ Found(work[p])' /\ NotAhead(work[p])'
  BY <1>2, <1>3 DEF Reaches, Found, NotAhead
<1>7. CheckpointBehind'
  BY <1>1 DEF StoreInv, CheckpointBehind
<1>8. \A k \in StateKeys : ~At(work'[p], k)
  BY <1>2, <1>3 DEF At
<1>9. ASSUME NEW k \in clean' \ clean
      PROVE  /\ At(work[p], k) /\ work[p].alone /\ ~At(work'[p], k)
             /\ \A t \in tablesOf(k) : rows'[t] = payload'[k]
  <2>1. k = w.key /\ w.alone
    BY <1>1, <1>9
  <2>2. w.found = payload[w.key]
    BY <1>1, <2>1 DEF StoreInv, WorkInv, Found
  <2> QED
    BY <1>1, <1>2, <1>4, <1>8, <2>1, <2>2 DEF At
<1>10. {w.key} \in SUBSET StateKeys /\ \A k \in {w.key} : At(work[p], k)
  BY <1>1, <1>2 DEF At
<1> QED
  BY <1>1, <1>3, <1>4, <1>5, <1>6, <1>7, <1>8, <1>9, <1>10, LocalStep

\* A new change of a key is the last of the log and of the key.
LEMMA LogGrows ==
    ASSUME StoreInv, NEW k \in StateKeys, NEW d \in Changes,
           payload' = [payload EXCEPT ![k] = Len(changes) + 1],
           changes' = Append(changes, d)
    PROVE  /\ changes' \in Seq(Changes) /\ Len(changes') = Len(changes) + 1
           /\ payload' \in [StateKeys -> Nat] /\ payload'[k] = Len(changes) + 1
           /\ \A j \in StateKeys \ {k} : payload'[j] = payload[j]
           /\ \A i \in DOMAIN changes : i \in DOMAIN changes' /\ changes'[i] = changes[i]
           /\ DOMAIN changes' = 1 .. Len(changes) + 1 /\ DOMAIN changes = 1 .. Len(changes)
           /\ changes'[Len(changes) + 1] = d
           /\ Len(changes) \in Nat
<1>1. changes \in Seq(Changes) /\ payload \in [StateKeys -> Nat]
  BY DEF StoreInv, StoreTyped
<1>2. /\ changes' \in Seq(Changes) /\ Len(changes') = Len(changes) + 1
      /\ \A i \in 1 .. Len(changes) : changes'[i] = changes[i]
      /\ changes'[Len(changes) + 1] = d
  BY <1>1, AppendProperties
<1>3. Len(changes) \in Nat /\ DOMAIN changes = 1 .. Len(changes) /\ DOMAIN changes' = 1 .. Len(changes')
  BY <1>1, <1>2, LenProperties
<1>4. payload' \in [StateKeys -> Nat] /\ payload'[k] = Len(changes) + 1
      /\ \A j \in StateKeys \ {k} : payload'[j] = payload[j]
  BY <1>1, <1>3
<1> QED
  BY <1>2, <1>3, <1>4

\* One more change makes a set of them at most one larger.
LEMMA OneMore ==
    ASSUME NEW S, IsFiniteSet(S), NEW x
    PROVE  IsFiniteSet(S \cup {x}) /\ Cardinality(S \cup {x}) <= Cardinality(S) + 1
<1>1. Cardinality(S) \in Nat
  BY FS_CardinalityType
<1>2. IsFiniteSet(S \cup {x}) /\ Cardinality(S \cup {x}) = IF x \in S THEN Cardinality(S) ELSE Cardinality(S) + 1
  BY FS_AddElement
<1> QED
  BY <1>1, <1>2

\* appendStateChange, whatever it was compared with.
LEMMA AppendStep ==
    ASSUME StoreInv, NEW p \in StoreProcs, NEW k \in StateKeys, NEW c \in Contents, NEW e \in Expectations,
           NEW l \in Nat, appendStateChange(p, k, c, e, l), \A j : ~At(work[p], j)
    PROVE  StoreInv'
<1> USE BatchesAssumption
<1>0. PICK d \in Changes : d = [key |-> k, content |-> c, expects |-> e, looked |-> l]
  BY DEF Changes
<1> DEFINE id == Len(changes) + 1
           v == Saved(p, k, id)
           b == Alone(p, k) /\ WorkedOff(k)
<1>1. /\ Len(changes) < MaxChanges /\ payload' = [payload EXCEPT ![k] = Len(changes) + 1]
      /\ changes' = Append(changes, d) /\ d.key = k
      /\ clean' = clean \ {k} /\ Disturb(p, k, v) /\ UNCHANGED <<checkpoint, rows>>
  BY <1>0 DEF appendStateChange
<1>2. /\ changes' \in Seq(Changes) /\ Len(changes') = Len(changes) + 1
      /\ payload' \in [StateKeys -> Nat] /\ payload'[k] = Len(changes) + 1
      /\ \A j \in StateKeys \ {k} : payload'[j] = payload[j]
      /\ \A i \in DOMAIN changes : i \in DOMAIN changes' /\ changes'[i] = changes[i]
      /\ DOMAIN changes' = 1 .. Len(changes) + 1 /\ DOMAIN changes = 1 .. Len(changes)
      /\ changes'[Len(changes) + 1] = d /\ d.key = k
      /\ Len(changes) \in Nat
  BY <1>1, LogGrows
<1>3. /\ \A j \in StateKeys : /\ payload[j] \in 0 .. Len(changes)
                              /\ payload[j] # NoChange => changes[payload[j]].key = j
                              /\ \A i \in DOMAIN changes : changes[i].key = j => i <= payload[j]
      /\ checkpoint \in [StateKeys -> Nat] /\ \A j \in StateKeys : checkpoint[j] <= payload[j]
  BY DEF StoreInv, StoreTyped, PayloadIsLast, CheckpointBehind
<1>4. /\ v = [pc |-> "replay", key |-> k, target |-> id, batches |-> ReplayBatches, until |-> "saved", alone |-> b]
      /\ b \in BOOLEAN /\ (b => Alone(p, k) /\ WorkedOff(k))
  BY DEF Saved
<1> HIDE DEF v, b
<1>5. /\ v \in ReplayWork /\ v.pc = "replay" /\ v.key = k /\ v.target = id /\ v.batches = ReplayBatches
      /\ v.until = "saved" /\ (v.alone => Alone(p, k) /\ WorkedOff(k)) /\ v \in Works /\ At(v, k)
  BY <1>2, <1>4 DEF ReplayWork, Works, Untils, At
<1>6. work' \in [StoreProcs -> Works] /\ work'[p] = v
  <2>1. work \in [StoreProcs -> Works]
    BY DEF StoreInv, StoreTyped
  <2>2. Disturb(p, k, v) /\ v \in Works
    BY <1>1, <1>5
  <2> QED
    BY <2>1, <2>2, Disturbed
<1>7. StoreTyped'
  BY <1>1, <1>2, <1>6 DEF StoreInv, StoreTyped
<1>8. Frame({k})
  <2>1. ASSUME NEW j \in StateKeys \ {k}, NEW i \in Nat PROVE Ids(j, i)' = Ids(j, i)
    <3>1. changes'[Len(changes) + 1].key # j
      BY <1>2
    <3>2. \A x \in DOMAIN changes' : x \in DOMAIN changes \/ x = Len(changes) + 1
      BY <1>2
    <3> QED
      BY <1>2, <3>1, <3>2 DEF Ids
  <2>2. payload[k] <= payload'[k] /\ Len(changes) <= Len(changes')
    BY <1>2, <1>3
  <2> QED
    BY <1>1, <1>2, <2>1, <2>2 DEF Frame
<1>9. PayloadIsLast'
  <2>1. Len(changes') <= MaxChanges
    BY <1>1, <1>2
  <2>2. ASSUME NEW j \in StateKeys
        PROVE  /\ payload'[j] \in 0 .. Len(changes')
               /\ payload'[j] # NoChange => changes'[payload'[j]].key = j
               /\ \A i \in DOMAIN changes' : changes'[i].key = j => i <= payload'[j]
    <3>1. CASE j = k
      BY <1>2, <3>1
    <3>2. CASE j # k
      <4>1. payload'[j] = payload[j] /\ payload[j] \in 0 .. Len(changes)
        BY <1>2, <1>3, <3>2
      <4>2. payload[j] # NoChange => payload[j] \in DOMAIN changes
        BY <1>2, <4>1 DEF NoChange
      <4>3. ASSUME NEW i \in DOMAIN changes', changes'[i].key = j PROVE i <= payload[j]
        <5>1. i # Len(changes) + 1
          BY <1>2, <3>2, <4>3
        <5>2. i \in DOMAIN changes
          BY <1>2, <5>1
        <5> QED
          BY <1>2, <1>3, <4>3, <5>2
      <4>4. payload'[j] \in 0 .. Len(changes')
        BY <1>2, <4>1
      <4>5. ASSUME payload'[j] # NoChange PROVE changes'[payload'[j]].key = j
        <5>1. payload[j] \in DOMAIN changes /\ changes[payload[j]].key = j
          BY <1>3, <4>1, <4>2, <4>5
        <5>2. changes'[payload[j]] = changes[payload[j]]
          BY <1>2, <5>1
        <5> QED
          BY <4>1, <5>1, <5>2
      <4> QED
        BY <4>1, <4>3, <4>4, <4>5
    <3> QED
      BY <3>1, <3>2
  <2> QED
    BY <2>1, <2>2 DEF PayloadIsLast
<1>11. CheckpointBehind'
  <2> SUFFICES ASSUME NEW j \in StateKeys PROVE checkpoint[j] <= payload'[j]
    BY <1>1 DEF CheckpointBehind
  <2>1. checkpoint[j] \in Nat /\ payload[j] \in 0 .. Len(changes) /\ checkpoint[j] <= payload[j]
    BY <1>3
  <2>2. CASE j = k
    BY <1>2, <2>1, <2>2
  <2>3. CASE j # k
    BY <1>2, <2>1, <2>3
  <2> QED
    BY <2>2, <2>3
<1>12. Found(work[p])' /\ NotAhead(work[p])'
  BY <1>5, <1>6 DEF Found, NotAhead
<1>13. Reaches(work[p])'
  <2>1. checkpoint[k] < id /\ payload'[k] = id
    BY <1>2, <1>3
  <2>2. Ids(k, checkpoint[k])' \subseteq Ids(k, checkpoint[k]) \cup {id}
    BY <1>1, <1>2 DEF Ids
  <2>3. IsFiniteSet(Ids(k, checkpoint[k])) /\ Cardinality(Ids(k, checkpoint[k])) \in Nat
    BY <1>3, IdsBounded
  <2>4. /\ IsFiniteSet(Ids(k, checkpoint[k]) \cup {id})
        /\ Cardinality(Ids(k, checkpoint[k]) \cup {id}) <= Cardinality(Ids(k, checkpoint[k])) + 1
    <3>1. IsFiniteSet(Ids(k, checkpoint[k]))
      BY <2>3
    <3> QED
      BY <3>1, OneMore
  <2>5. /\ Cardinality(Ids(k, checkpoint[k])') <= Cardinality(Ids(k, checkpoint[k]) \cup {id})
        /\ Cardinality(Ids(k, checkpoint[k])') \in Nat /\ Cardinality(Ids(k, checkpoint[k]) \cup {id}) \in Nat
    BY <2>2, <2>4, FS_Subset, FS_CardinalityType
  <2>6. v.alone => Cardinality(Ids(k, checkpoint[k])') <= ReplayBatches * ReplayLimit
    <3>1. ReplayLimit * ReplayBatches = ReplayBatches * ReplayLimit /\ ReplayBatches * ReplayLimit \in Nat
      BY ProductNat
    <3>2. WorkedOff(k) => Cardinality(Ids(k, checkpoint[k])) < ReplayLimit * ReplayBatches
      BY DEF WorkedOff, Backlog, Ids
    <3>3. ASSUME NEW n \in Nat, n < ReplayLimit * ReplayBatches PROVE n + 1 <= ReplayBatches * ReplayLimit
      BY <3>1, <3>3
    <3> QED
      BY <1>5, <2>3, <2>4, <2>5, <3>1, <3>2, <3>3
  <2>7. Ids(work[p].key, checkpoint[work[p].key])' = Ids(k, checkpoint[k])'
    BY <1>5, <1>6
  <2> QED
    BY <1>1, <1>5, <1>6, <2>1, <2>6, <2>7 DEF Reaches
<1> QED
  BY <1>1, <1>5, <1>7, <1>8, <1>9, <1>11, <1>12, <1>13, StartStep

\* What a payload says is a content, or it is absent.
LEMMA StoredTyped ==
    ASSUME StoreInv, NEW k \in StateKeys
    PROVE  /\ storedContent(k) \in Contents \cup {Absent}
           /\ payload[k] # NoChange => storedContent(k) = changes[payload[k]].content /\ storedContent(k) \in Contents
<1>1. changes \in Seq(Changes) /\ payload[k] \in 0 .. Len(changes) /\ Len(changes) \in Nat
  BY DEF StoreInv, StoreTyped, PayloadIsLast
<1>2. payload[k] # NoChange => payload[k] \in 1 .. Len(changes)
  BY <1>1 DEF NoChange
<1>3. payload[k] # NoChange => changes[payload[k]] \in Changes
  BY <1>1, <1>2, ElementOfSeq
<1> QED
  BY <1>3 DEF storedContent, Changes

\* upsert of a row that is there, or the look at one that is not.
LEMMA UpsertStep ==
    ASSUME StoreInv, NEW p \in StoreProcs, NEW k \in StateKeys, NEW c \in Contents, NEW e \in Expectations,
           upsert(p, k, c, e), work[p].pc \notin {"replay", "project", "sync"}
    PROVE  StoreInv'
<1>1. Len(changes) \in Nat
  BY DEF StoreInv, StoreTyped
<1>2. \A j : ~At(work[p], j)
  BY DEF At
<1>3. CASE payload[k] = NoChange
  <2>1. PICK w : w = [pc |-> "creating", key |-> k, content |-> c, expects |-> e, looked |-> Len(changes)]
    OBVIOUS
  <2>2. w \in Works /\ w.pc = "creating"
    BY <1>1, <2>1 DEF Works, CreatingWork
  <2>3. Set(p, w) /\ UNCHANGED <<payload, changes, checkpoint, rows, clean>>
    BY <1>3, <2>1 DEF upsert
  <2> QED
    BY <2>2, <2>3, QuietStep
<1>4. CASE payload[k] # NoChange
  <2>1. appendStateChange(p, k, c, e, Len(changes))
    BY <1>4 DEF upsert
  <2> QED
    BY <1>1, <1>2, <2>1, AppendStep
<1> QED
  BY <1>3, <1>4

\* Save, CompareAndSwap and UpsertStatePayload.
LEMMA WriteStep ==
    ASSUME StoreInv, NEW p \in StoreProcs, Load(p) \/ Save(p) \/ CompareAndSwap(p) \/ UpsertStatePayload(p)
    PROVE  StoreInv'
<1>1. work[p] \in Works
  BY DEF StoreInv, StoreTyped
<1>2. CASE Load(p)
  <2>1. PICK k \in StateKeys :
          /\ Set(p, [pc |-> "loaded", key |-> k, expected |-> storedContent(k)])
          /\ UNCHANGED <<payload, changes, checkpoint, rows, clean>>
    BY <1>2 DEF Load
  <2>2. [pc |-> "loaded", key |-> k, expected |-> storedContent(k)] \in Works
    BY StoredTyped DEF Works, LoadedWork
  <2> QED
    BY <2>1, <2>2, QuietStep
<1>3. CASE Save(p)
  <2>1. PICK k \in StateKeys, c \in Contents : work[p] = AtRest /\ upsert(p, k, c, Blind)
    BY <1>3 DEF Save
  <2>2. work[p].pc = "idle" /\ Blind \in Expectations
    BY <2>1 DEF AtRest, Expectations
  <2> QED
    BY <2>1, <2>2, UpsertStep
<1>4. CASE CompareAndSwap(p)
  <2> DEFINE w == work[p]
  <2>1. w \in LoadedWork /\ w.pc = "loaded"
    BY <1>1, <1>4, WorkKinds DEF CompareAndSwap
  <2>2. w.key \in StateKeys /\ w.expected \in Expectations
    BY <2>1 DEF LoadedWork, Expectations
  <2>3. CASE Set(p, AtRest) /\ UNCHANGED <<payload, changes, checkpoint, rows, clean>>
    <3>1. AtRest \in Works /\ AtRest.pc = "idle"
      BY DEF Works, AtRest
    <3> QED
      BY <2>3, <3>1, QuietStep
  <2>4. CASE \E c \in Contents : upsert(p, w.key, c, w.expected)
    BY <2>1, <2>2, <2>4, UpsertStep
  <2> QED
    BY <1>4, <2>3, <2>4 DEF CompareAndSwap
<1>5. CASE UpsertStatePayload(p)
  <2>1. work[p].pc = "creating" /\ appendStateChange(p, work[p].key, work[p].content, work[p].expects, work[p].looked)
    BY <1>5 DEF UpsertStatePayload
  <2>2. work[p] \in CreatingWork
    BY <1>1, <2>1, WorkKinds
  <2>3. work[p].key \in StateKeys /\ work[p].content \in Contents /\ work[p].expects \in Expectations /\ work[p].looked \in Nat
    BY <2>2 DEF CreatingWork
  <2>4. \A j : ~At(work[p], j)
    BY <2>1 DEF At
  <2> QED
    BY <2>1, <2>3, <2>4, AppendStep
<1> QED
  BY <1>2, <1>3, <1>4, <1>5

\* The invariant parts that say nothing of the work and the tables.
LEMMA LogKept ==
    ASSUME StoreInv, UNCHANGED <<payload, changes, checkpoint, rows>>
    PROVE  PayloadIsLast' /\ CheckpointBehind'
BY DEF StoreInv, PayloadIsLast, CheckpointBehind

\* replayStateChangeLog and replayStateChangeLogFromCheckpoint promise nothing about the tables.
LEMMA ManualStep ==
    ASSUME StoreInv, NEW p \in StoreProcs, replayStateChangeLog(p) \/ replayStateChangeLogFromCheckpoint(p)
    PROVE  StoreInv'
<1>1. PICK k \in StateKeys :
        /\ work[p] = AtRest /\ clean' = clean \ {k} /\ UNCHANGED <<payload, changes, checkpoint, rows>>
        /\ \/ \E from \in 0..(MaxChanges - 1), limit \in 1..ReplayLimit :
                 Disturb(p, k, [pc |-> "project", key |-> k, target |-> NoChange, batches |-> 1,
                                until |-> "manual", alone |-> FALSE, todo |-> changesFrom(k, from, limit),
                                last |-> NoChange, some |-> TRUE])
           \/ Disturb(p, k, Replay(p, k, NoChange, 1, "checkpoint"))
  BY DEF replayStateChangeLog, replayStateChangeLogFromCheckpoint
<1>2. \A j : ~At(work[p], j)
  BY <1>1 DEF At, AtRest
<1>3. Frame({k})
  BY <1>1, FrameNothing DEF StoreInv
<1>4. PayloadIsLast' /\ CheckpointBehind'
  BY <1>1, LogKept
<1>5. work \in [StoreProcs -> Works] /\ payload \in [StateKeys -> Nat] /\ Len(changes) \in Nat
  BY DEF StoreInv, StoreTyped
<1>6. ASSUME NEW v \in Works, At(v, k), v.alone => Alone(p, k), v.until # "saved", v.pc # "sync",
             v.pc = "project" => v.last = 0 /\ v.todo \subseteq 0 .. Len(changes), Disturb(p, k, v)
      PROVE  StoreInv'
  <2>1. work' \in [StoreProcs -> Works] /\ work'[p] = v
    BY <1>5, <1>6, Disturbed
  <2>2. StoreTyped'
    BY <1>1, <2>1 DEF StoreInv, StoreTyped
  <2>3. v.key \in StateKeys /\ payload[v.key] \in Nat
    BY <1>5, <1>6 DEF At
  <2>4. Reaches(work[p])' /\ Found(work[p])' /\ NotAhead(work[p])'
    BY <1>1, <1>6, <2>1, <2>3 DEF Reaches, Found, NotAhead
  <2> QED
    BY <1>1, <1>2, <1>3, <1>4, <1>6, <2>2, <2>4, StartStep
<1>7. ASSUME NEW from \in 0..(MaxChanges - 1), NEW limit \in 1..ReplayLimit,
             Disturb(p, k, [pc |-> "project", key |-> k, target |-> NoChange, batches |-> 1,
                            until |-> "manual", alone |-> FALSE, todo |-> changesFrom(k, from, limit),
                            last |-> NoChange, some |-> TRUE])
      PROVE  StoreInv'
  <2> DEFINE todo == changesFrom(k, from, limit)
             v == [pc |-> "project", key |-> k, target |-> NoChange, batches |-> 1, until |-> "manual",
                   alone |-> FALSE, todo |-> todo, last |-> NoChange, some |-> TRUE]
  <2>1. todo \subseteq 0 .. Len(changes)
    <3>1. from \in Nat
      BY BatchesAssumption
    <3>2. Ids(k, from) \subseteq 0 .. payload[k] /\ payload[k] \in Nat /\ payload[k] <= Len(changes)
      BY <3>1, IdsBounded
    <3>3. Ids(k, from) \subseteq 0 .. Len(changes)
      BY <1>5, <3>2
    <3> QED
      BY <3>3, Listed DEF Oldest
  <2> HIDE DEF todo
  <2>2. /\ v \in ProjectWork /\ v.pc = "project" /\ v.key = k /\ ~v.alone /\ v.until = "manual"
        /\ v.todo = todo /\ v.last = 0
    BY <1>5, <2>1 DEF ProjectWork, Untils, NoChange
  <2>3. Disturb(p, k, v)
    BY <1>7 DEF todo
  <2> HIDE DEF v
  <2>4. v \in Works /\ At(v, k)
    BY <2>2 DEF Works, At
  <2> QED
    BY <1>6, <2>1, <2>2, <2>3, <2>4
<1>8. CASE Disturb(p, k, Replay(p, k, NoChange, 1, "checkpoint"))
  <2> DEFINE v == Replay(p, k, NoChange, 1, "checkpoint")
  <2>1. /\ v = [pc |-> "replay", key |-> k, target |-> NoChange, batches |-> 1, until |-> "checkpoint",
                alone |-> Alone(p, k)]
        /\ Alone(p, k) \in BOOLEAN
    BY DEF Replay, Alone
  <2>2. /\ v \in ReplayWork /\ v.pc = "replay" /\ v.key = k /\ v.until = "checkpoint"
        /\ (v.alone => Alone(p, k))
    BY <2>1 DEF ReplayWork, Untils, NoChange
  <2>3. Disturb(p, k, v)
    BY <1>8
  <2> HIDE DEF v
  <2>4. v \in Works /\ At(v, k)
    BY <2>2 DEF Works, At
  <2> QED
    BY <1>6, <2>2, <2>3, <2>4
<1> QED
  BY <1>1, <1>7, <1>8

\* loadRawPayload: what a start reads of a key is stored as long as it is alone with the key.
LEMMA LoadStep ==
    ASSUME StoreInv, NEW p \in StoreProcs, loadRawPayload(p)
    PROVE  StoreInv'
<1>1. PICK k \in StateKeys :
        /\ work[p].pc = "starting" /\ clean' = clean \ {k} /\ UNCHANGED <<payload, changes, checkpoint, rows>>
        /\ Disturb(p, k, [pc |-> "sync", key |-> k, found |-> payload[k], todo |-> work[p].todo \ {k},
                          alone |-> Alone(p, k)])
  BY DEF loadRawPayload
<1> DEFINE v == [pc |-> "sync", key |-> k, found |-> payload[k], todo |-> work[p].todo \ {k},
                 alone |-> Alone(p, k)]
<1>2. work \in [StoreProcs -> Works] /\ payload \in [StateKeys -> Nat]
  BY DEF StoreInv, StoreTyped
<1>3. work[p].todo \subseteq StateKeys
  BY <1>1, <1>2, WorkKinds DEF StartWork
<1>4. /\ v \in SyncWork /\ v.pc = "sync" /\ v.key = k /\ v.found = payload[k] /\ (v.alone => Alone(p, k))
  <2>1. Alone(p, k) \in BOOLEAN
    BY DEF Alone
  <2> QED
    BY <1>2, <1>3, <2>1 DEF SyncWork
<1>5. Disturb(p, k, v)
  BY <1>1
<1> HIDE DEF v
<1>6. v \in Works /\ At(v, k)
  BY <1>4 DEF Works, At
<1>7. work' \in [StoreProcs -> Works] /\ work'[p] = v
  BY <1>2, <1>5, <1>6, Disturbed
<1>8. StoreTyped'
  BY <1>1, <1>7 DEF StoreInv, StoreTyped
<1>9. Reaches(work[p])' /\ Found(work[p])' /\ NotAhead(work[p])'
  BY <1>1, <1>4, <1>7 DEF Reaches, Found, NotAhead
<1>10. Frame({k})
  BY <1>1, FrameNothing DEF StoreInv
<1>11. PayloadIsLast' /\ CheckpointBehind'
  BY <1>1, LogKept
<1>12. \A j : ~At(work[p], j)
  BY <1>1 DEF At
<1> QED
  BY <1>1, <1>4, <1>5, <1>6, <1>8, <1>9, <1>10, <1>11, <1>12, StartStep

\* ReplayedByHand, ProjectionFails, Restart and EnsureSchema leave the tables as they are.
LEMMA StopStep ==
    ASSUME StoreInv, NEW p \in StoreProcs, ReplayedByHand(p) \/ ProjectionFails(p) \/ Restart(p) \/ EnsureSchema(p)
    PROVE  StoreInv'
<1>1. CASE Set(p, AtRest) /\ UNCHANGED <<payload, changes, checkpoint, rows, clean>>
  <2>1. AtRest \in Works /\ AtRest.pc = "idle"
    BY DEF Works, AtRest
  <2> QED
    BY <1>1, <2>1, QuietStep
<1>2. CASE Restart(p)
  <2> DEFINE v == [pc |-> "starting", todo |-> {k \in StateKeys : payload[k] # NoChange}]
  <2>1. v \in StartWork /\ v.pc = "starting"
    BY DEF StartWork
  <2>2. Set(p, v) /\ UNCHANGED <<payload, changes, checkpoint, rows, clean>>
    BY <1>2 DEF Restart
  <2> HIDE DEF v
  <2>3. v \in Works
    BY <2>1 DEF Works
  <2> QED
    BY <2>1, <2>2, <2>3, QuietStep
<1> QED
  BY <1>1, <1>2 DEF ReplayedByHand, ProjectionFails, EnsureSchema

\* Every step of every process keeps the invariant.
LEMMA StoreStep ==
    ASSUME StoreInv, [StoreNext]_storeVars
    PROVE  StoreInv'
<1>1. CASE UNCHANGED storeVars
  <2>1. PayloadIsLast' /\ CheckpointBehind'
    BY <1>1, LogKept DEF storeVars
  <2>2. StoreTyped' /\ ProjectionFollows'
    BY <1>1 DEF storeVars, StoreInv, StoreTyped, ProjectionFollows
  <2>3. AloneIsAlone'
    BY <1>1 DEF storeVars, StoreInv, AloneIsAlone, Alone, Projecting
  <2>4. WorkInv'
    <3>1. Frame({})
      BY <1>1, FrameNothing DEF storeVars, StoreInv
    <3>2. ASSUME NEW q \in StoreProcs PROVE Bystander(q, {})
      BY <1>1 DEF storeVars, Bystander
    <3> QED
      BY <2>2, <3>1, <3>2, BystanderSound DEF WorkInv
  <2> QED
    BY <2>1, <2>2, <2>3, <2>4 DEF StoreInv
<1>2. ASSUME NEW p \in StoreProcs,
             \/ Load(p) \/ Save(p) \/ CompareAndSwap(p) \/ UpsertStatePayload(p)
             \/ ReplayStateChangesFromCheckpoint(p) \/ ReplayStateChanges(p) \/ upsertReplayCheckpoint(p)
             \/ replayStateChangeLog(p) \/ ReplayedByHand(p) \/ replayStateChangeLogFromCheckpoint(p)
             \/ ProjectionFails(p) \/ Restart(p) \/ loadRawPayload(p) \/ syncProjectionTables(p)
             \/ EnsureSchema(p)
      PROVE  StoreInv'
  BY <1>2, WriteStep, ListStep, ProjectStep, CheckpointStep, ManualStep, LoadStep, SyncStep, StopStep
<1> QED
  BY <1>1, <1>2 DEF StoreNext

\* The empty store.
LEMMA StoreStart ==
    ASSUME StoreInit
    PROVE  StoreInv
<1>1. /\ \A k \in StateKeys : payload[k] = 0 /\ checkpoint[k] = 0
      /\ \A p \in StoreProcs : work[p].pc = "idle"
      /\ changes = <<>> /\ clean = {}
  BY DEF StoreInit, NoChange, AtRest
<1>2. Len(changes) = 0 /\ DOMAIN changes = {}
  BY <1>1
<1>3. StoreTyped
  BY DEF StoreInit, StoreTyped, Works, NoChange
<1>4. PayloadIsLast
  BY <1>1, <1>2, BatchesAssumption DEF PayloadIsLast, NoChange
<1>5. AloneIsAlone
  BY <1>1 DEF AloneIsAlone, Projecting
<1>6. WorkInv
  BY <1>1 DEF WorkInv, Reaches, Found, NotAhead
<1>7. CheckpointBehind /\ ProjectionFollows
  BY <1>1, <1>2 DEF CheckpointBehind, ProjectionFollows
<1> QED
  BY <1>3, <1>4, <1>5, <1>6, <1>7 DEF StoreInv

\* The invariant holds in every state of the store.
LEMMA StoreSound == StoreSpec => []StoreInv
<1>1. StoreInit => StoreInv
  BY StoreStart
<1>2. StoreInv /\ [StoreNext]_storeVars => StoreInv'
  BY StoreStep
<1> QED
  BY <1>1, <1>2, PTL DEF StoreSpec

-----------------------------------------------------------------------------
(* Swaps.                                                                  *)

\* Who found no row has seen every change of the key there was.
CreatorsLooked ==
    \A p \in StoreProcs : work[p].pc = "creating" =>
        /\ work[p].expects \notin Contents /\ work[p].looked <= Len(changes)
        /\ \A j \in DOMAIN changes : changes[j].key = work[p].key => j > work[p].looked

SwapInv == SwapReplacesWhatItRead /\ CreatorsLooked

\* A step that appends no change and starts to create no row.
LEMMA SwapsKept ==
    ASSUME SwapInv, changes' = changes,
           \A q \in StoreProcs : work'[q] = work[q] \/ work'[q].pc # "creating"
    PROVE  SwapInv'
<1>1. SwapReplacesWhatItRead'
  BY DEF SwapInv, SwapReplacesWhatItRead, Before
<1>2. CreatorsLooked'
  BY DEF SwapInv, CreatorsLooked
<1> QED
  BY <1>1, <1>2 DEF SwapInv

\* Nobody starts to create a row when a process is disturbed or takes a step of its own.
LEMMA NoCreator ==
    ASSUME StoreInv, NEW p \in StoreProcs, NEW w, w.pc # "creating",
           Set(p, w) \/ \E k \in StateKeys : Disturb(p, k, w)
    PROVE  \A q \in StoreProcs : work'[q] = work[q] \/ work'[q].pc # "creating"
<1>1. work \in [StoreProcs -> Works]
  BY DEF StoreInv, StoreTyped
<1>2. CASE Set(p, w)
  BY <1>1, <1>2 DEF Set
<1>3. ASSUME NEW k \in StateKeys, Disturb(p, k, w), NEW q \in StoreProcs
      PROVE  work'[q] = work[q] \/ work'[q].pc # "creating"
  <2>1. CASE q # p /\ At(work[q], k)
    <3>1. work'[q] = [work[q] EXCEPT !.alone = FALSE]
      BY <1>1, <1>3, <2>1, ProjectingAt DEF Disturb
    <3>2. work'[q].pc = work[q].pc /\ work[q].pc # "creating"
      BY <1>1, <2>1, <3>1, AtFields DEF At
    <3> QED
      BY <3>2
  <2>2. CASE q # p /\ ~At(work[q], k)
    BY <1>3, <2>2, ProjectingAt DEF Disturb
  <2>3. CASE q = p
    BY <1>3, <2>3 DEF Disturb
  <2> QED
    BY <2>1, <2>2, <2>3
<1> QED
  BY <1>2, <1>3

\* A change that was compared with the payload under its lock, or whose creator found no row.
LEMMA SwapAppends ==
    ASSUME StoreInv, SwapInv, NEW p \in StoreProcs, NEW k \in StateKeys, NEW c \in Contents, NEW e \in Expectations,
           NEW l \in Nat, appendStateChange(p, k, c, e, l),
           e \in Contents => payload[k] # NoChange /\ changes[payload[k]].content = e,
           e = Absent => \A j \in DOMAIN changes : changes[j].key = k => j > l
    PROVE  SwapInv'
<1>1. PICK d \in Changes : d = [key |-> k, content |-> c, expects |-> e, looked |-> l]
  BY DEF Changes
<1>2. /\ payload' = [payload EXCEPT ![k] = Len(changes) + 1] /\ changes' = Append(changes, d)
      /\ Disturb(p, k, Saved(p, k, Len(changes) + 1))
      /\ d.key = k /\ d.content = c /\ d.expects = e /\ d.looked = l
  BY <1>1 DEF appendStateChange
<1>3. /\ Len(changes') = Len(changes) + 1 /\ Len(changes) \in Nat
      /\ \A i \in DOMAIN changes : i \in DOMAIN changes' /\ changes'[i] = changes[i]
      /\ DOMAIN changes' = 1 .. Len(changes) + 1 /\ DOMAIN changes = 1 .. Len(changes)
      /\ changes'[Len(changes) + 1] = d
  BY <1>2, LogGrows
<1>4. ASSUME NEW i \in DOMAIN changes PROVE Before(i)' = Before(i)
  <2>1. i \in Nat /\ i <= Len(changes)
    BY <1>3
  <2>2. \A j \in 1 .. i - 1 : j \in DOMAIN changes
    BY <1>3, <2>1
  <2> QED
    BY <1>3, <2>2 DEF Before
<1>5. ASSUME NEW i, i = Len(changes) + 1
      PROVE  {j \in 1 .. i - 1 : changes'[j].key = changes'[i].key} = {j \in DOMAIN changes : changes[j].key = k}
  <2>1. 1 .. i - 1 = DOMAIN changes
    BY <1>3, <1>5
  <2>2. changes'[i].key = k
    BY <1>2, <1>3, <1>5
  <2>3. \A j \in DOMAIN changes : changes'[j] = changes[j]
    BY <1>3
  <2> QED
    BY <2>1, <2>2, <2>3
<1>6. SwapReplacesWhatItRead'
  <2> SUFFICES ASSUME NEW i \in DOMAIN changes'
               PROVE  /\ changes'[i].expects \in Contents =>
                           \E j \in Before(i)' : /\ \A m \in Before(i)' : m <= j
                                                 /\ changes'[j].content = changes'[i].expects
                      /\ changes'[i].expects = Absent => \A j \in Before(i)' : j > changes'[i].looked
    BY DEF SwapReplacesWhatItRead
  <2>1. CASE i \in DOMAIN changes
    <3>1. changes'[i] = changes[i] /\ Before(i)' = Before(i)
      BY <1>3, <1>4, <2>1
    <3>2. \A j \in Before(i) : j \in DOMAIN changes /\ changes'[j] = changes[j]
      BY <1>3, <2>1 DEF Before
    <3>3. /\ changes[i].expects \in Contents =>
               \E j \in Before(i) : /\ \A m \in Before(i) : m <= j
                                    /\ changes[j].content = changes[i].expects
          /\ changes[i].expects = Absent => \A j \in Before(i) : j > changes[i].looked
      BY <2>1 DEF SwapInv, SwapReplacesWhatItRead
    <3> QED
      BY <3>1, <3>2, <3>3
  <2>2. CASE i = Len(changes) + 1
    <3>1. changes'[i] = d /\ Before(i)' = {j \in DOMAIN changes : changes[j].key = k}
      BY <1>3, <1>5, <2>2 DEF Before
    <3>2. ASSUME e \in Contents
          PROVE  \E j \in Before(i)' : (\A m \in Before(i)' : m <= j) /\ changes'[j].content = e
      <4>1. payload[k] \in DOMAIN changes /\ changes[payload[k]].key = k /\ changes[payload[k]].content = e
            /\ \A j \in DOMAIN changes : changes[j].key = k => j <= payload[k]
        BY <1>3, <3>2 DEF StoreInv, PayloadIsLast, NoChange
      <4> QED
        BY <1>3, <3>1, <4>1
    <3> QED
      BY <1>2, <3>1, <3>2
  <2> QED
    BY <1>3, <2>1, <2>2
<1>7. CreatorsLooked'
  <2>1. Saved(p, k, Len(changes) + 1).pc # "creating"
    BY DEF Saved
  <2>2. \A q \in StoreProcs : work'[q] = work[q] \/ work'[q].pc # "creating"
    BY <1>2, <2>1, NoCreator
  <2>3. ASSUME NEW q \in StoreProcs, work'[q].pc = "creating"
        PROVE  /\ work'[q].expects \notin Contents /\ work'[q].looked <= Len(changes')
               /\ \A j \in DOMAIN changes' : changes'[j].key = work'[q].key => j > work'[q].looked
    <3>1. work'[q] = work[q] /\ work[q].pc = "creating"
      BY <2>2, <2>3
    <3>2. work[q].looked \in Nat
      BY <3>1, WorkKinds DEF StoreInv, StoreTyped, CreatingWork
    <3>3. /\ work[q].expects \notin Contents /\ work[q].looked <= Len(changes)
          /\ \A j \in DOMAIN changes : changes[j].key = work[q].key => j > work[q].looked
      BY <3>1 DEF SwapInv, CreatorsLooked
    <3>4. \A j \in DOMAIN changes' : j \in DOMAIN changes \/ j = Len(changes) + 1
      BY <1>3
    <3> QED
      BY <1>3, <3>1, <3>2, <3>3, <3>4
  <2> QED
    BY <2>3 DEF CreatorsLooked
<1> QED
  BY <1>6, <1>7 DEF SwapInv

\* upsert: compared under the lock of the row, or the row is not there.
LEMMA SwapUpserts ==
    ASSUME StoreInv, SwapInv, NEW p \in StoreProcs, NEW k \in StateKeys, NEW c \in Contents, NEW e \in Expectations,
           upsert(p, k, c, e), e = Blind \/ e = storedContent(k)
    PROVE  SwapInv'
<1>1. Len(changes) \in Nat /\ work \in [StoreProcs -> Works] /\ DOMAIN changes = 1 .. Len(changes)
  BY DEF StoreInv, StoreTyped
<1>2. CASE payload[k] = NoChange
  <2>1. PICK w : w = [pc |-> "creating", key |-> k, content |-> c, expects |-> e, looked |-> Len(changes)]
    OBVIOUS
  <2>2. work' = [work EXCEPT ![p] = w] /\ changes' = changes
    BY <1>2, <2>1 DEF upsert, Set
  <2>3. \A j \in DOMAIN changes : changes[j].key # k
    BY <1>1, <1>2 DEF StoreInv, PayloadIsLast, NoChange
  <2>4. e \notin Contents
    BY <1>2, ContentsAssumption DEF storedContent
  <2>5. CreatorsLooked'
    BY <1>1, <2>1, <2>2, <2>3, <2>4 DEF SwapInv, CreatorsLooked
  <2>6. SwapReplacesWhatItRead'
    BY <2>2 DEF SwapInv, SwapReplacesWhatItRead, Before
  <2> QED
    BY <2>5, <2>6 DEF SwapInv
<1>3. CASE payload[k] # NoChange
  <2>1. appendStateChange(p, k, c, e, Len(changes))
    BY <1>3 DEF upsert
  <2>2. storedContent(k) = changes[payload[k]].content /\ storedContent(k) \in Contents
    BY <1>3, StoredTyped
  <2>3. e # Absent /\ (e \in Contents => changes[payload[k]].content = e)
    BY <2>2, ContentsAssumption DEF Absent, Blind
  <2> QED
    BY <1>1, <1>3, <2>1, <2>3, SwapAppends
<1> QED
  BY <1>2, <1>3

\* Every step keeps it.
LEMMA SwapStep ==
    ASSUME StoreInv, SwapInv, [StoreNext]_storeVars
    PROVE  SwapInv'
<1>1. CASE UNCHANGED storeVars
  BY <1>1, SwapsKept DEF storeVars
<1>2. ASSUME NEW p \in StoreProcs, Save(p) PROVE SwapInv'
  <2>1. PICK k \in StateKeys, c \in Contents : upsert(p, k, c, Blind)
    BY <1>2 DEF Save
  <2> QED
    BY <2>1, SwapUpserts DEF Expectations
<1>3. ASSUME NEW p \in StoreProcs, CompareAndSwap(p) PROVE SwapInv'
  <2> DEFINE w == work[p]
  <2>1. w \in LoadedWork /\ w.pc = "loaded"
    BY <1>3, WorkKinds DEF CompareAndSwap, StoreInv, StoreTyped
  <2>2. w.key \in StateKeys /\ w.expected \in Expectations
    BY <2>1 DEF LoadedWork, Expectations
  <2>3. CASE Set(p, AtRest) /\ changes' = changes
    <3>1. AtRest.pc # "creating"
      BY DEF AtRest
    <3> QED
      BY <2>3, <3>1, NoCreator, SwapsKept
  <2>4. CASE \E c \in Contents : upsert(p, w.key, c, w.expected) /\ storedContent(w.key) = w.expected
    BY <2>2, <2>4, SwapUpserts
  <2> QED
    BY <1>3, <2>3, <2>4 DEF CompareAndSwap, expectedStored
<1>4. ASSUME NEW p \in StoreProcs, UpsertStatePayload(p) PROVE SwapInv'
  <2>1. work[p].pc = "creating" /\ appendStateChange(p, work[p].key, work[p].content, work[p].expects, work[p].looked)
    BY <1>4 DEF UpsertStatePayload
  <2>2. work[p] \in CreatingWork
    BY <2>1, WorkKinds DEF StoreInv, StoreTyped
  <2>3. work[p].key \in StateKeys /\ work[p].content \in Contents /\ work[p].expects \in Expectations /\ work[p].looked \in Nat
    BY <2>2 DEF CreatingWork
  <2>4. /\ work[p].expects \notin Contents
        /\ \A j \in DOMAIN changes : changes[j].key = work[p].key => j > work[p].looked
    BY <2>1 DEF SwapInv, CreatorsLooked
  <2> QED
    BY <2>1, <2>3, <2>4, SwapAppends
<1>5. ASSUME NEW p \in StoreProcs,
             \/ Load(p) \/ ReplayStateChangesFromCheckpoint(p) \/ ReplayStateChanges(p) \/ upsertReplayCheckpoint(p)
             \/ replayStateChangeLog(p) \/ ReplayedByHand(p) \/ replayStateChangeLogFromCheckpoint(p)
             \/ ProjectionFails(p) \/ Restart(p) \/ loadRawPayload(p) \/ syncProjectionTables(p) \/ EnsureSchema(p)
      PROVE  SwapInv'
  <2>1. changes' = changes
    BY <1>5 DEF Load, ReplayStateChangesFromCheckpoint, ReplayStateChanges, upsertReplayCheckpoint,
         replayStateChangeLog, ReplayedByHand, replayStateChangeLogFromCheckpoint, ProjectionFails, Restart,
         loadRawPayload, syncProjectionTables, EnsureSchema
  <2>2. \E w : w.pc # "creating" /\ (Set(p, w) \/ \E k \in StateKeys : Disturb(p, k, w))
    <3>1. CASE Load(p)
      BY <3>1 DEF Load
    <3>2. CASE ReplayStateChangesFromCheckpoint(p)
      BY <3>2 DEF ReplayStateChangesFromCheckpoint
    <3>3. CASE ReplayStateChanges(p)
      <4> DEFINE w == [work[p] EXCEPT !.todo = @ \ {X!Min(work[p].todo)}]
      <4>1. Set(p, w) /\ work[p].pc = "project"
        BY <3>3 DEF ReplayStateChanges
      <4>2. work[p] \in ProjectWork
        BY <4>1, WorkKinds DEF StoreInv, StoreTyped
      <4>3. w.pc = "project"
        BY <4>1, <4>2 DEF ProjectWork
      <4> HIDE DEF w
      <4> QED
        BY <4>1, <4>3
    <3>4. CASE upsertReplayCheckpoint(p)
      <4> DEFINE again == [Replay(p, work[p].key, work[p].target, work[p].batches - 1, work[p].until)
                             EXCEPT !.alone = work[p].alone]
      <4>1. Set(p, AtRest) \/ Set(p, again)
        BY <3>4 DEF upsertReplayCheckpoint
      <4>2. AtRest.pc # "creating" /\ again.pc # "creating"
        BY DEF AtRest, Replay
      <4> HIDE DEF again
      <4> QED
        BY <4>1, <4>2
    <3>5. CASE replayStateChangeLog(p)
      BY <3>5 DEF replayStateChangeLog
    <3>6. CASE ReplayedByHand(p) \/ ProjectionFails(p) \/ EnsureSchema(p)
      <4>1. Set(p, AtRest)
        BY <3>6 DEF ReplayedByHand, ProjectionFails, EnsureSchema
      <4>2. AtRest.pc # "creating"
        BY DEF AtRest
      <4> QED
        BY <4>1, <4>2
    <3>7. CASE replayStateChangeLogFromCheckpoint(p)
      BY <3>7 DEF replayStateChangeLogFromCheckpoint, Replay
    <3>8. CASE Restart(p)
      BY <3>8 DEF Restart
    <3>9. CASE loadRawPayload(p)
      BY <3>9 DEF loadRawPayload
    <3>10. CASE syncProjectionTables(p)
      BY <3>10 DEF syncProjectionTables
    <3> QED
      BY <1>5, <3>1, <3>2, <3>3, <3>4, <3>5, <3>6, <3>7, <3>8, <3>9, <3>10
  <2> QED
    BY <2>1, <2>2, NoCreator, SwapsKept
<1> QED
  BY <1>1, <1>2, <1>3, <1>4, <1>5 DEF StoreNext

(***************************************************************************)
(* CompareAndSwap of postgres_store.go: no update is lost to a swap that   *)
(* found a row, and one that found none replaces nothing that was there    *)
(* when it looked, for any number of processes that save and swap the same *)
(* keys at the same time and any contents, changed back or not.            *)
(***************************************************************************)
THEOREM SwapsReplaceWhatTheyRead == StoreSpec => []SwapReplacesWhatItRead
<1>1. ASSUME StoreInit PROVE SwapInv
  <2>1. changes = <<>> /\ \A p \in StoreProcs : work[p] = AtRest
    BY <1>1 DEF StoreInit
  <2> QED
    BY <2>1 DEF SwapInv, SwapReplacesWhatItRead, CreatorsLooked, AtRest
<1>2. StoreInv /\ SwapInv /\ [StoreNext]_storeVars => SwapInv'
  BY SwapStep
<1>3. SwapInv => SwapReplacesWhatItRead
  BY DEF SwapInv
<1> QED
  BY <1>1, <1>2, <1>3, StoreSound, PTL DEF StoreSpec

(***************************************************************************)
(* syncProjectionFromChangeLog and EnsureSchema: what a save or a start    *)
(* has projected to the end undisturbed shows what is stored, for any      *)
(* number of processes and keys, any batch size and any backlog that the   *)
(* batches of a save can work off.                                         *)
(***************************************************************************)
THEOREM ProjectionsFollow == StoreSpec => []ProjectionFollows
<1>1. StoreInv => ProjectionFollows
  BY DEF StoreInv
<1> QED
  BY <1>1, StoreSound, PTL
=============================================================================
