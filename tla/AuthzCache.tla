----------------------------- MODULE AuthzCache -----------------------------
(***************************************************************************)
(* How a change of a credential reaches a door: the cloud handlers that    *)
(* change credentials and push a fresh authorization cache                 *)
(* (api/internal/http), the WebSocket to one gateway, the gateway agent's  *)
(* config poll, and the agent's in-memory rules that decide offline        *)
(* (api/cmd/gateway-agent).                                                *)
(*                                                                         *)
(* A push is made of separate steps: change the credential, build the      *)
(* cache, write it to the connection.  Handlers run concurrently, so caches*)
(* may be written in another order than they were built.  A cache stands   *)
(* for its rules and the time it was built at.                             *)
(***************************************************************************)
EXTENDS Credentials, Sequences

CONSTANTS
    Handlers,    \* concurrent handler goroutines of the cloud
    MaxOffline,  \* rulesCacheTTL = 72h = the ValidUntil the cloud issues
    MaxTime,     \* bound: clock
    MaxOps,      \* bound: credential changes, restarts and reconnects
    WireMax      \* bound: frames in the connection

ASSUME AuthzCacheAssumption ==
    /\ MaxOffline \in Nat \ {0} /\ MaxTime \in Nat /\ MaxOps \in Nat /\ WireMax \in Nat \ {0}

VARIABLES
    now,
    ops,         \* history: bounded changes made so far
    lastActive,  \* history: last time the cloud listed the credential, -1 = never
    handler,     \* per handler goroutine: where it is and the cache it built
    connected,   \* the gateway's connection is registered
    wire,        \* config_push frames on it
    cache,       \* the agent's accessRules and when the cloud built them
    updatedAt,   \* the agent's rulesUpdatedAt
    pull         \* the agent's config/pull request

pushVars == <<handler, connected, wire>>
agentVars == <<cache, updatedAt, pull>>
vars == <<credVars, now, ops, lastActive, pushVars, agentVars>>

Caches == [rules : SUBSET Creds, built : 0 .. MaxTime]
NoCache == [rules |-> {}, built |-> -1]        \* zero rulesUpdatedAt, ruleVersion ""
HandlerKinds == {"none", "revoke", "revokeUser", "initial"}
Idle == [pc |-> "idle", kind |-> "none", cache |-> NoCache]

Init ==
    /\ CredInit
    /\ now = 0 /\ ops = 0 /\ lastActive = [c \in Creds |-> -1]
    /\ handler = [h \in Handlers |-> Idle]
    /\ connected = FALSE /\ wire = <<>>
    /\ cache = NoCache /\ updatedAt = -1
    /\ pull = [pc |-> "idle", cache |-> NoCache]

\* buildGatewayConfigAuthzCache: every rule is valid until now + 72h.
BuildCache == [rules |-> ActiveCredentials, built |-> now]

\* gatewayConfigAuthzCacheVersion hashes doors, policies, users and the COUNT
\* of access rules, not the rules.
Version(k) == IF k = NoCache THEN -1 ELSE Cardinality(k.rules)

CountOp == ops < MaxOps /\ ops' = ops + 1

Witnessed == lastActive' = [c \in Creds |-> IF c \in ActiveCredentials' THEN now'
                                            ELSE lastActive[c]]

-----------------------------------------------------------------------------
(* Credential handlers.  Those that revoke go on to push.                  *)

StartPush(h, kind) ==
    /\ handler[h] = Idle
    /\ handler' = [handler EXCEPT ![h] = [pc |-> "build", kind |-> kind, cache |-> NoCache]]

RevokeHandler(h) ==
    /\ \E c \in Creds : RevokeCredential(c)
    /\ StartPush(h, "revoke") /\ CountOp
    /\ UNCHANGED <<now, connected, wire, agentVars>>
    /\ Witnessed

RevokeUserHandler(h, u) ==
    /\ RevokeAllUserCredentials(u)
    /\ StartPush(h, "revokeUser") /\ CountOp
    /\ UNCHANGED <<now, connected, wire, agentVars>>
    /\ Witnessed

\* Registration, suspension, activation, refresh, and the revocations SCIM and
\* directory sync make, change the credential and push nothing.
QuietHandler ==
    /\ \/ \E c \in Creds : \/ RegisterDevice(c) \/ SuspendCredential(c)
                           \/ ActivateCredential(c) \/ RefreshCredential(c) \/ Lapse(c)
       \/ \E u \in Users : RevokeAllUserCredentials(u)
    /\ CountOp
    /\ UNCHANGED <<now, pushVars, agentVars>>
    /\ Witnessed

\* pushGatewayAuthzCache and wsInitialConfigPush build without any lock that
\* would keep two of them in order.
BuildForPush(h) ==
    /\ handler[h].pc = "build" /\ handler[h].kind # "initial"
    /\ handler' = [handler EXCEPT ![h].pc = "write", ![h].cache = BuildCache]
    /\ UNCHANGED <<credVars, now, ops, lastActive, connected, wire, agentVars>>

\* handler[h].cache holds what the gateway reported when it connected.
BuildInitial(h) ==
    /\ handler[h].pc = "build" /\ handler[h].kind = "initial"
    /\ Version(BuildCache) # Version(handler[h].cache)
    /\ handler' = [handler EXCEPT ![h].pc = "write", ![h].cache = BuildCache]
    /\ UNCHANGED <<credVars, now, ops, lastActive, connected, wire, agentVars>>

\* "Only push if version differs from what gateway reported".
SkipInitial(h) ==
    /\ handler[h].pc = "build" /\ handler[h].kind = "initial"
    /\ Version(BuildCache) = Version(handler[h].cache)
    /\ handler' = [handler EXCEPT ![h] = Idle]
    /\ UNCHANGED <<credVars, now, ops, lastActive, connected, wire, agentVars>>

\* PushConfig writes to whatever connection is registered now, if any.
WritePush(h) ==
    /\ handler[h].pc = "write" /\ Len(wire) < WireMax
    /\ wire' = IF connected THEN Append(wire, handler[h].cache) ELSE wire
    /\ handler' = [handler EXCEPT ![h] = Idle]
    /\ UNCHANGED <<credVars, now, ops, lastActive, connected, agentVars>>

-----------------------------------------------------------------------------
(* The connection.                                                         *)

WSConnect(h) ==
    /\ ~connected /\ handler[h] = Idle /\ CountOp
    /\ connected' = TRUE
    /\ handler' = [handler EXCEPT ![h] = [pc |-> "build", kind |-> "initial", cache |-> cache]]
    /\ UNCHANGED <<credVars, now, lastActive, wire, agentVars>>

WSDisconnect ==
    /\ connected
    /\ connected' = FALSE /\ wire' = <<>>
    /\ UNCHANGED <<credVars, now, ops, lastActive, handler, agentVars>>

-----------------------------------------------------------------------------
(* The agent.                                                              *)

\* handleConfigPush and pullConfig replace the rules by what they received,
\* whatever they hold, and stamp them with the local time.
Install(k) == cache' = k /\ updatedAt' = now

ReceivePush ==
    /\ wire # <<>>
    /\ Install(Head(wire))
    /\ wire' = Tail(wire)
    /\ UNCHANGED <<credVars, now, ops, lastActive, handler, connected, pull>>

PullBuild ==
    /\ pull.pc = "idle"
    /\ pull' = [pc |-> "answered", cache |-> BuildCache]
    /\ UNCHANGED <<credVars, now, ops, lastActive, pushVars, cache, updatedAt>>

\* Mutant: an answer with the version the agent holds is not installed.
PullApply_IfVersionDiffers ==
    /\ pull.pc = "answered"
    /\ IF Version(pull.cache) = Version(cache) THEN UNCHANGED <<cache, updatedAt>>
                                               ELSE Install(pull.cache)
    /\ pull' = [pc |-> "idle", cache |-> NoCache]
    /\ UNCHANGED <<credVars, now, ops, lastActive, pushVars>>

PullApply ==
    /\ pull.pc = "answered"
    /\ Install(pull.cache)
    /\ pull' = [pc |-> "idle", cache |-> NoCache]
    /\ UNCHANGED <<credVars, now, ops, lastActive, pushVars>>

PullFail ==
    /\ pull.pc = "answered"
    /\ pull' = [pc |-> "idle", cache |-> NoCache]
    /\ UNCHANGED <<credVars, now, ops, lastActive, pushVars, cache, updatedAt>>

AgentRestart ==
    /\ CountOp
    /\ cache' = NoCache /\ updatedAt' = -1 /\ pull' = [pc |-> "idle", cache |-> NoCache]
    /\ connected' = FALSE /\ wire' = <<>>
    /\ UNCHANGED <<credVars, now, lastActive, handler>>

\* Mutant: only the age of the cache counts, as in VerifyBLEAuth.
VerifyCredential_CacheAgeOnly(c) ==
    /\ updatedAt # -1 => now - updatedAt <= MaxOffline
    /\ c \in cache.rules

\* VerifyCredential / VerifyAuthResponseV2 for a door the rule covers: deny all
\* when the rules are older than rulesCacheTTL, else the rule must not have
\* expired.
VerifyCredential(c) ==
    /\ updatedAt # -1 => now - updatedAt <= MaxOffline
    /\ c \in cache.rules
    /\ now <= cache.built + MaxOffline

-----------------------------------------------------------------------------
Tick ==
    /\ now < MaxTime
    /\ now' = now + 1
    /\ UNCHANGED <<credVars, ops, pushVars, agentVars>>
    /\ Witnessed

\* The API process restarts: handlers and connections are gone with it.
CloudRestarts ==
    /\ CloudRestart /\ CountOp
    /\ handler' = [h \in Handlers |-> Idle]
    /\ connected' = FALSE /\ wire' = <<>>
    /\ pull' = [pc |-> "idle", cache |-> NoCache]
    /\ UNCHANGED <<now, cache, updatedAt>>
    /\ Witnessed

Next ==
    \/ \E h \in Handlers : \/ RevokeHandler(h) \/ WSConnect(h)
                           \/ \E u \in Users : RevokeUserHandler(h, u)
                           \/ BuildForPush(h) \/ BuildInitial(h) \/ SkipInitial(h)
                           \/ WritePush(h)
    \/ QuietHandler
    \/ WSDisconnect \/ ReceivePush
    \/ PullBuild \/ PullApply \/ PullFail
    \/ AgentRestart \/ CloudRestarts \/ Tick

Spec == Init /\ [][Next]_vars

\* Goroutines run to their end, frames on a live connection are read, the poll
\* loop keeps polling and does not fail every time.
Fairness ==
    /\ \A h \in Handlers : WF_vars(BuildForPush(h) \/ BuildInitial(h) \/ SkipInitial(h) \/ WritePush(h))
    /\ WF_vars(ReceivePush)
    /\ WF_vars(PullBuild) /\ SF_vars(PullApply)

FairSpec == Spec /\ Fairness

-----------------------------------------------------------------------------
(* Properties.                                                             *)

\* Type invariant: statuses, the store's snapshot, caches in handlers, on the
\* wire, in the agent and in the poll.
TypeOK ==
    /\ CredTypeOK
    /\ now \in 0 .. MaxTime /\ ops \in 0 .. MaxOps
    /\ lastActive \in [Creds -> -1 .. MaxTime]
    /\ handler \in [Handlers -> [pc : {"idle", "build", "write"},
                                 kind : HandlerKinds,
                                 cache : Caches \cup {NoCache}]]
    /\ connected \in BOOLEAN /\ wire \in Seq(Caches)
    /\ cache \in Caches \cup {NoCache} /\ updatedAt \in -1 .. MaxTime
    /\ pull \in [pc : {"idle", "answered"}, cache : Caches \cup {NoCache}]

\* agent.go, "Security invariant - MaxOfflineDuration": a credential the cloud
\* no longer lists (revoked, suspended, replaced or lapsed) opens a door for at
\* most MaxOffline after it was last listed, whatever pushes and poll answers
\* overtake each other, are lost or arrive late.
RevocationWindow ==
    \A c \in Creds : VerifyCredential(c) => now - lastActive[c] <= MaxOffline

\* A revocation that reached the store is final: no later operation, failed
\* save or restart brings the credential back (ActivateCredential,
\* RefreshCredential, restoreFromStateStore).
StoredRevocationFinal ==
    [][\A c \in Creds : (status[c] = "revoked" /\ stored.status[c] = "revoked")
                          => (status'[c] = "revoked" /\ stored'.status[c] = "revoked")]_vars

\* Once credentials stop changing the agent's rules become the cloud's and stay
\* so: overtaken pushes are repaired by the poll (configPollLoop).
RulesConverge == <>[](cache.rules = ActiveCredentials)

-----------------------------------------------------------------------------
(* What comments say and the code does not do.                             *)

\* routes_credential_admin.go: "revokes all credentials for a user (employee
\* termination)": after it none of the user's credentials can come back.
RevokeUserRevokesAll ==
    [][\A h \in Handlers : (handler[h] = Idle /\ handler'[h].kind = "revokeUser") =>
         \A c, d \in Creds :
           (UserOf[c] = UserOf[d] /\ status[c] = "active" /\ status'[c] = "revoked")
             => status'[d] \in {"none", "revoked"}]_vars
=============================================================================
