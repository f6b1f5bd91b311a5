----------------------------- MODULE AuthProofs -----------------------------
(* Proofs about the auth service, for any number of users, passkeys, token *)
(* pairs and concurrent requests, any bound on draws, requests and faults. *)
EXTENDS Auth, TLAPS

-----------------------------------------------------------------------------
(* The inductive invariant.                                                *)

Hows == {"password", "trusted", "webauthn", "code"}
LoginReq == [op : {"login", "disable"}, how : Hows, u : Users, role : Roles, phase : {"mfa", "issue"}]
LoadReq == [op : {"login", "disable"}, how : Hows, u : Users, role : Roles, phase : {"load", "issue"},
            row : MfaType]
CodeReq == [op : {"login", "disable"}, how : Hows, u : Users, role : Roles, phase : {"consume", "issue"},
            code : 1..MaxGen]
TokenReq == [op : {"refresh", "revoke"}, p : Pairs, phase : {"copy", "commit"}, late : BOOLEAN]
VerifyReq == [op : {"verify"}, p : Pairs, phase : {"store", "memory", "accept"}, late : BOOLEAN]
WriteReq == [op : {"change", "downgrade", "external"}, u : Users, hash : 0..MaxGen]
Reqs == {Idle} \cup LoginReq \cup LoadReq \cup CodeReq \cup TokenReq \cup VerifyReq \cup WriteReq

\* A request that read a row still has it, unless memory has the state by
\* now; one that will copy a session read it before it ended; a hash read
\* before is not newer than the last one drawn.
ReqOne(r) ==
    /\ r \in LoadReq /\ r.phase = "load" /\ r.u \notin loaded => r.row = mfaDb[r.u]
    /\ r \in TokenReq => r.p \notin Unused /\ (r.phase = "copy" => ~r.late)
    /\ r \in WriteReq => r.hash <= gen

ReqInv == /\ req \in [Threads -> Reqs]
          /\ \A t \in Threads : ReqOne(req[t])

\* A hash is one that was drawn.
UsersInv == /\ users \in [Users -> UserType] /\ gen \in 1..MaxGen /\ ops \in 0..MaxOps
            /\ \A u \in Users : users[u].hash <= gen
            /\ resets \in [Users -> 0..MaxOps] /\ \A u \in Users : resets[u] <= ops

\* The copy in memory is empty until it is loaded; codes are ones drawn.
MfaInv == /\ mfa \in [Users -> MfaType] /\ mfaDb \in [Users -> MfaType]
          /\ loaded \subseteq Users /\ rows \subseteq Users
          /\ \A u \in Users : mfa[u].codes \subseteq 1..gen /\ mfaDb[u].codes \subseteq 1..gen
          /\ \A u \in Users : u \notin loaded => mfa[u] = Zero

\* A code that let a login through is in neither copy.
SpentInv == /\ spent \in [Users -> [1..MaxGen -> 0..1]]
            /\ \A u \in Users, c \in 1..MaxGen : spent[u][c] = 1 =>
                  c <= gen /\ c \notin mfa[u].codes /\ c \notin mfaDb[u].codes

\* Tokens in use were issued; a session that ended has left the store.
TokensInv == /\ owner \in [Pairs -> Users \cup {Nobody}]
             /\ sessions \cup store \cup revoked \cup revStore \cup expired \cup dead \subseteq Pairs \ Unused
             /\ ended \subseteq Pairs \ Unused
             /\ ended \cap store = {}

KeysInv == /\ keyDb \in [Users -> SUBSET Keys] /\ keyMem \in [Users -> SUBSET Keys]
           /\ keyLoaded \subseteq Users /\ chal \in [Users -> SUBSET {"register", "login"}]

Inv == /\ UsersInv /\ MfaInv /\ SpentInv /\ TokensInv /\ KeysInv /\ ReqInv
       /\ faults \in 0..MaxFaults

-----------------------------------------------------------------------------
(* Requests.                                                               *)

\* What a step may do to the state a waiting request refers to.
Frame == /\ \A v \in Users : v \notin loaded' => v \notin loaded /\ mfaDb'[v] = mfaDb[v]
         /\ Unused' \subseteq Unused
         /\ gen \in Nat /\ gen' \in Nat /\ gen <= gen'

\* The operation and the phase of a request tell its shape.
LEMMA ReqKind ==
    ASSUME NEW r \in Reqs
    PROVE  /\ r.op \in {"login", "disable"} =>
                 /\ r \in LoginReq \cup LoadReq \cup CodeReq
                 /\ r.u \in Users /\ r.role \in Roles /\ r.how \in Hows
                 /\ r.phase = "load" => r \in LoadReq /\ r.row \in MfaType
                 /\ r.phase = "consume" => r \in CodeReq /\ r.code \in 1..MaxGen
           /\ r.op \in {"refresh", "revoke"} => r \in TokenReq /\ r.p \in Pairs
           /\ r.op = "verify" => r \in VerifyReq /\ r.p \in Pairs
           /\ r.op \in {"change", "downgrade", "external"} =>
                 r \in WriteReq /\ r.u \in Users /\ r.hash \in 0..MaxGen
BY DEF Reqs, Idle, LoginReq, LoadReq, CodeReq, TokenReq, VerifyReq, WriteReq

\* A request without a row, a session to copy or a hash owes nothing.
LEMMA Harmless ==
    /\ Idle \in Reqs /\ ReqOne(Idle)'
    /\ \A r \in LoginReq \cup CodeReq \cup VerifyReq : r \in Reqs /\ ReqOne(r)'
    /\ \A r \in LoadReq : r.phase = "issue" => r \in Reqs /\ ReqOne(r)'
BY DEF Reqs, ReqOne, Idle, LoginReq, LoadReq, CodeReq, TokenReq, VerifyReq, WriteReq

\* A request that passed the second factor owes nothing.
LEMMA PassedOne ==
    ASSUME NEW r \in LoginReq \cup LoadReq \cup CodeReq
    PROVE  [r EXCEPT !.phase = "issue"] \in Reqs /\ ReqOne([r EXCEPT !.phase = "issue"])'
<1> DEFINE q == [r EXCEPT !.phase = "issue"]
<1>1. r \in LoginReq => q \in LoginReq
  BY DEF LoginReq
<1>2. r \in LoadReq => q \in LoadReq /\ q.phase = "issue"
  BY DEF LoadReq
<1>3. r \in CodeReq => q \in CodeReq
  BY DEF CodeReq
<1> QED
  BY <1>1, <1>2, <1>3, Harmless

\* What holds of a request goes on holding while it waits.
LEMMA OneStays ==
    ASSUME NEW r \in Reqs, ReqOne(r), Frame
    PROVE  ReqOne(r)'
<1>1. ASSUME r \in LoadReq, r.phase = "load", r.u \notin loaded' PROVE r.row = mfaDb'[r.u]
  <2>1. r.u \in Users
    BY <1>1 DEF LoadReq
  <2> QED
    BY <1>1, <2>1 DEF Frame, ReqOne
<1>2. ASSUME r \in TokenReq PROVE r.p \notin Unused' /\ (r.phase = "copy" => ~r.late)
  BY <1>2 DEF Frame, ReqOne
<1>3. ASSUME r \in WriteReq PROVE r.hash <= gen'
  BY <1>3, AuthAccountsAssumption DEF Frame, ReqOne, WriteReq
<1> QED
  BY <1>1, <1>2, <1>3 DEF ReqOne

\* One request changes: the others wait.
LEMMA ReqSet ==
    ASSUME ReqInv, Frame, NEW t \in Threads, NEW r \in Reqs, ReqOne(r)', Become(t, r)
    PROVE  ReqInv'
<1>1. req' = [req EXCEPT ![t] = r]
  BY DEF Become
<1>2. req' \in [Threads -> Reqs]
  BY <1>1 DEF ReqInv
<1>3. ASSUME NEW x \in Threads PROVE ReqOne(req[x])'
  <2>1. CASE x = t
    <3>1. req'[x] = r
      BY <1>1, <2>1 DEF ReqInv
    <3> QED
      BY <3>1 DEF ReqOne
  <2>2. CASE x # t
    <3>1. PICK y \in Reqs : y = req[x] /\ y = req'[x]
      BY <1>1, <2>2 DEF ReqInv
    <3>2. ReqOne(y)
      BY <3>1 DEF ReqInv, ReqOne
    <3>3. ReqOne(y)'
      BY <3>2, OneStays
    <3> QED
      BY <3>1, <3>3 DEF ReqOne
  <2> QED
    BY <2>1, <2>2
<1> QED
  BY <1>2, <1>3 DEF ReqInv

\* No request changes.
LEMMA ReqStay ==
    ASSUME ReqInv, Frame, req' = req
    PROVE  ReqInv'
<1>1. ASSUME NEW x \in Threads PROVE ReqOne(req[x])'
  <2>1. PICK y \in Reqs : y = req[x] /\ y = req'[x]
    BY DEF ReqInv
  <2>2. ReqOne(y)
    BY <2>1 DEF ReqInv, ReqOne
  <2>3. ReqOne(y)'
    BY <2>2, OneStays
  <2> QED
    BY <2>1, <2>3 DEF ReqOne
<1> QED
  BY <1>1 DEF ReqInv

\* The request of t ends.
LEMMA ReqDone ==
    ASSUME ReqInv, Frame, NEW t \in Threads, Done(t)
    PROVE  ReqInv'
<1>1. Become(t, Idle)
  BY DEF Done, Become
<1> QED
  BY <1>1, ReqSet, Harmless

\* The request of t passes the second factor.
LEMMA ReqPassed ==
    ASSUME ReqInv, Frame, NEW t \in Threads, req[t].op \in {"login", "disable"}, Passed(t)
    PROVE  ReqInv'
<1>1. PICK r \in Reqs : r = req[t]
  BY DEF ReqInv
<1>2. r \in LoginReq \cup LoadReq \cup CodeReq
  BY <1>1, ReqKind
<1>3. PICK q : q = [r EXCEPT !.phase = "issue"]
  OBVIOUS
<1>4. q \in Reqs /\ ReqOne(q)'
  BY <1>2, <1>3, PassedOne
<1>5. Become(t, q)
  BY <1>1, <1>3 DEF Passed
<1> QED
  BY <1>4, <1>5, ReqSet

-----------------------------------------------------------------------------
(* Accounts and second factors.                                            *)

\* A step that leaves accounts, sessions' owners and the drawn values alone.
LEMMA FrameStays ==
    ASSUME UsersInv, loaded' = loaded, mfaDb' = mfaDb, owner' = owner, gen' = gen
    PROVE  Frame
<1>1. gen \in Nat
  BY AuthAccountsAssumption DEF UsersInv
<1> QED
  BY <1>1 DEF Frame, Unused

\* A second factor is cached: the state found, or the row read by a request.
LEMMA CacheKeeps ==
    ASSUME MfaInv, SpentInv, gen \in Nat, NEW u \in Users, CacheMfa(u, FindMfaLocked(u)),
           UNCHANGED <<mfaDb, rows, gen, spent>>
    PROVE  MfaInv' /\ SpentInv'
<1> DEFINE s == FindMfaLocked(u)
<1>1. /\ s \in MfaType /\ s.codes \subseteq 1..gen
      /\ \A c \in 1..MaxGen : spent[u][c] = 1 => c \notin s.codes
  BY DEF FindMfaLocked, MfaInv, SpentInv
<1>2. mfa' = [mfa EXCEPT ![u] = s] /\ loaded' = loaded \cup {u}
  BY DEF CacheMfa
<1> HIDE DEF s
<1>3. MfaInv'
  BY <1>1, <1>2 DEF MfaInv
<1>4. SpentInv'
  BY <1>1, <1>2 DEF SpentInv, MfaInv
<1> QED
  BY <1>3, <1>4

\* persistAdminMFAStateLocked: what it may write, and what it leaves to the
\* requests that wait.
LEMMA PersistKeeps ==
    ASSUME MfaInv, SpentInv, gen \in Nat, gen' \in Nat, gen <= gen',
           NEW u \in Users, NEW s \in MfaType, NEW ok \in BOOLEAN,
           PersistMfa(u, s, ok), s.codes \subseteq 1..gen',
           spent' \in [Users -> [1..MaxGen -> 0..1]],
           \A v \in Users \ {u} : spent'[v] = spent[v],
           \A c \in 1..MaxGen : spent'[u][c] = 1 =>
               IF ok THEN c <= gen' /\ c \notin s.codes ELSE spent[u][c] = 1
    PROVE  /\ MfaInv' /\ SpentInv'
           /\ \A v \in Users : v \notin loaded' => v \notin loaded /\ mfaDb'[v] = mfaDb[v]
<1> DEFINE f == FindMfaLocked(u)
<1>1. /\ f \in MfaType /\ f.codes \subseteq 1..gen
      /\ \A c \in 1..MaxGen : spent[u][c] = 1 => c \notin f.codes
  BY DEF FindMfaLocked, MfaInv, SpentInv
<1>2. 1..gen \subseteq 1..gen'
  OBVIOUS
<1> HIDE DEF f
<1>3. CASE ok
  <2>1. /\ mfa' = [mfa EXCEPT ![u] = s] /\ loaded' = loaded \cup {u}
        /\ mfaDb' = [mfaDb EXCEPT ![u] = s] /\ rows' = rows \cup {u}
    BY <1>3 DEF PersistMfa, CacheMfa, WriteRow, UpsertAuthAdminMFAState
  <2>2. MfaInv'
    BY <2>1, <1>2 DEF MfaInv
  <2>3. SpentInv'
    BY <2>1, <1>2, <1>3 DEF SpentInv, MfaInv
  <2> QED
    BY <2>1, <2>2, <2>3 DEF MfaInv
<1>4. CASE ~ok
  <2>1. mfaDb' = mfaDb /\ rows' = rows
    BY <1>4 DEF PersistMfa, WriteRow
  <2>2. \/ mfa' = [mfa EXCEPT ![u] = f] /\ loaded' = loaded \cup {u}
        \/ mfa' = mfa /\ loaded' = loaded
    BY <1>4 DEF PersistMfa, CacheMfa, f
  <2>3. MfaInv'
    BY <2>1, <2>2, <1>1, <1>2 DEF MfaInv
  <2>4. \A v \in Users, c \in 1..MaxGen : spent'[v][c] = 1 => spent[v][c] = 1
    BY <1>4
  <2>5. SpentInv'
    <3>1. ASSUME NEW v \in Users, NEW c \in 1..MaxGen, spent'[v][c] = 1
          PROVE  c <= gen' /\ c \notin mfa'[v].codes /\ c \notin mfaDb'[v].codes
      <4>1. c <= gen /\ c \notin mfa[v].codes /\ c \notin mfaDb[v].codes /\ (v = u => c \notin f.codes)
        BY <2>4, <3>1, <1>1 DEF SpentInv
      <4>2. c <= gen'
        BY <4>1, AuthAccountsAssumption
      <4> QED
        BY <4>1, <4>2, <2>1, <2>2 DEF MfaInv
    <3> QED
      BY <3>1 DEF SpentInv
  <2> QED
    BY <2>1, <2>2, <2>3, <2>5
<1> QED
  BY <1>3, <1>4

\* A row of users is written with a hash that was drawn.
LEMMA UsersKeep ==
    ASSUME UsersInv, gen' \in gen..MaxGen, ops' \in ops..MaxOps, NEW u \in Users,
           NEW row \in UserType, row.hash <= gen', NEW ok \in BOOLEAN, PersistUser(u, row, ok),
           resets' \in [Users -> 0..MaxOps], \A v \in Users : resets'[v] <= ops'
    PROVE  UsersInv'
<1>1. users' = users \/ users' = [users EXCEPT ![u] = row]
  BY DEF PersistUser, UpsertAuthUser
<1>2. gen \in Nat /\ gen' \in 1..MaxGen /\ ops' \in 0..MaxOps /\ gen <= gen'
  BY AuthAccountsAssumption DEF UsersInv
<1>3. \A v \in Users : users[v].hash \in Nat /\ users[v].hash <= gen
  BY DEF UsersInv, UserType
<1>4. users' \in [Users -> UserType]
  BY <1>1 DEF UsersInv
<1>5. \A v \in Users : users'[v].hash <= gen'
  BY <1>1, <1>2, <1>3 DEF UsersInv
<1> QED
  BY <1>2, <1>4, <1>5 DEF UsersInv

\* The other parts of the account state while a step leaves it alone or
\* only draws.
LEMMA AccountsStay ==
    ASSUME UsersInv, MfaInv, SpentInv, UNCHANGED <<mfaVars, spent>>, gen' \in gen..MaxGen
    PROVE  MfaInv' /\ SpentInv' /\ gen \in Nat /\ gen' \in Nat /\ gen <= gen'
<1>1. gen \in Nat /\ gen' \in Nat /\ gen <= gen' /\ 1..gen \subseteq 1..gen'
  BY AuthAccountsAssumption DEF UsersInv
<1>2. MfaInv'
  BY <1>1 DEF MfaInv, mfaVars
<1>3. SpentInv'
  BY <1>1, AuthAccountsAssumption DEF SpentInv, mfaVars
<1> QED
  BY <1>1, <1>2, <1>3

\* A request is counted, or not.
LEMMA Counted ==
    ASSUME UsersInv, UNCHANGED <<users, resets, gen>>, ops' = ops \/ Begin
    PROVE  UsersInv'
<1>1. ops \in Nat /\ ops' \in 0..MaxOps /\ ops <= ops'
  BY AuthAccountsAssumption DEF UsersInv, Begin
<1>2. \A u \in Users : resets[u] \in Nat /\ resets[u] <= ops
  BY DEF UsersInv
<1> QED
  BY <1>1, <1>2 DEF UsersInv

-----------------------------------------------------------------------------
(* Token pairs.                                                            *)

LEMMA TokensStay ==
    ASSUME TokensInv, UNCHANGED <<tokenVars, ended>>
    PROVE  TokensInv'
BY DEF TokensInv, tokenVars, Unused

\* Memory and the store lose tokens: no pair changes hands.
LEMMA TokensShrink ==
    ASSUME TokensInv, owner' = owner, sessions' \subseteq sessions, store' \subseteq store,
           revoked' \cup revStore' \cup expired' \cup dead' \cup ended' \subseteq Pairs \ Unused,
           ended' \cap store' = {}
    PROVE  TokensInv'
<1>1. Unused' = Unused
  BY DEF Unused
<1> QED
  BY <1>1 DEF TokensInv

\* issueTokenPairLocked takes a pair nobody has had, so none that ended.
LEMMA IssueKeeps ==
    ASSUME TokensInv, NEW u \in Users, NEW p \in Unused, NEW S, NEW M, NEW ok \in BOOLEAN,
           S \subseteq store, M \subseteq sessions,
           IssueTokenPair(u, p, [store |-> S, sessions |-> M], ok),
           revoked' = CleanRevoked, UNCHANGED <<revStore, expired, dead>>,
           ended' \subseteq Pairs \ Unused, ended' \cap S = {}
    PROVE  /\ TokensInv' /\ Unused' \subseteq Unused
           /\ ended' \cap sessions' \subseteq ended' \cap M
<1>1. /\ owner' = [owner EXCEPT ![p] = u]
      /\ store' \subseteq S \cup {p} /\ sessions' \subseteq M \cup {p}
  BY DEF IssueTokenPair, UpsertAuthRefreshSession
<1>2. p \in Pairs /\ u # Nobody
  BY NobodyAssumption DEF Unused
<1>3. Unused' = Unused \ {p}
  BY <1>1, <1>2 DEF Unused, TokensInv
<1>4. p \notin ended'
  OBVIOUS
<1>5. owner' \in [Pairs -> Users \cup {Nobody}]
  BY <1>1 DEF TokensInv
<1>6. TokensInv'
  BY <1>1, <1>2, <1>3, <1>4, <1>5 DEF TokensInv, CleanRevoked
<1> QED
  BY <1>1, <1>3, <1>4, <1>6

-----------------------------------------------------------------------------
(* Passkeys.                                                               *)

LEMMA KeysStay ==
    ASSUME KeysInv, UNCHANGED <<keyDb, keyMem, keyLoaded, chal>>
    PROVE  KeysInv'
BY DEF KeysInv

\* A list is put in memory, a passkey written or deleted, a challenge set.
LEMMA KeysChange ==
    ASSUME KeysInv, NEW u \in Users, NEW S \in SUBSET Keys, NEW in \in BOOLEAN, SetKeys(u, S, in),
           NEW D \in SUBSET Keys, keyDb' = keyDb \/ keyDb' = [keyDb EXCEPT ![u] = D],
           NEW C \in SUBSET {"register", "login"}, chal' = chal \/ chal' = [chal EXCEPT ![u] = C]
    PROVE  KeysInv'
BY DEF KeysInv, SetKeys

LEMMA PasskeysType ==
    ASSUME KeysInv, NEW u \in Users, NEW read \in BOOLEAN
    PROVE  Passkeys(u, read) \in SUBSET Keys /\ Loads(u, read) \in BOOLEAN
           /\ keyDb[u] \in SUBSET Keys /\ chal[u] \in SUBSET {"register", "login"}
BY DEF Passkeys, KeysInv, Loads

-----------------------------------------------------------------------------
(* The two action properties, and the steps that cannot disturb them.      *)

HashStep == \A u \in Users : users'[u].hash < users[u].hash =>
    \/ \E t \in Threads : /\ req[t].op \in {"downgrade", "external"} /\ req[t].u = u
                          /\ req[t].hash = users'[u].hash /\ req'[t] = Idle
    \/ /\ faults' = faults + 1
       /\ \/ u \in demo /\ users'[u] = DemoRow
          \/ users'[u] = [users[u] EXCEPT !.hash = 0]

EndedStep == \A p \in (ended' \cap sessions') \ (ended \cap sessions) :
    \E t \in Threads : /\ req[t].op \in {"refresh", "revoke"} /\ req[t].phase = "copy"
                       /\ req[t].p = p /\ ~req[t].late

LEMMA HashQuiet ==
    ASSUME UsersInv, users' = users
    PROVE  HashStep
<1>1. \A u \in Users : users[u].hash \in Nat
  BY AuthAccountsAssumption DEF UsersInv, UserType
<1> QED
  BY <1>1 DEF HashStep

LEMMA EndedQuiet ==
    ASSUME ended' \cap sessions' \subseteq ended \cap sessions
    PROVE  EndedStep
BY DEF EndedStep

-----------------------------------------------------------------------------
(* One lemma per action.                                                   *)

Good == Inv' /\ HashStep /\ EndedStep

\* The parts that a step on requests alone leaves as they were.
LEMMA Quiet ==
    ASSUME Inv, UNCHANGED <<users, resets, mfaVars, gen, tokenVars, history, faults>>,
           ops' = ops \/ Begin
    PROVE  /\ UsersInv' /\ MfaInv' /\ SpentInv' /\ TokensInv' /\ Frame
           /\ HashStep /\ EndedStep /\ faults' \in 0..MaxFaults
<1>1. UsersInv'
  BY Counted DEF Inv
<1>2. gen' \in gen..MaxGen
  BY AuthAccountsAssumption DEF Inv, UsersInv
<1>3. MfaInv' /\ SpentInv'
  BY <1>2, AccountsStay DEF Inv, history
<1>4. TokensInv'
  BY TokensStay DEF Inv, history
<1>5. Frame
  BY FrameStays DEF Inv, mfaVars, tokenVars
<1>6. HashStep /\ EndedStep
  BY HashQuiet, EndedQuiet DEF Inv, history, tokenVars
<1> QED
  BY <1>1, <1>3, <1>4, <1>5, <1>6 DEF Inv

\* Passkeys stay as they are.
LEMMA KeysQuiet ==
    ASSUME Inv, UNCHANGED keyVars
    PROVE  KeysInv'
BY KeysStay DEF Inv, keyVars

LEMMA StartLoginGood ==
    ASSUME Inv, NEW t \in Threads, NEW u \in Users, NEW how \in {"password", "trusted"},
           StartLogin(t, u, how)
    PROVE  Good
<1> DEFINE r == [op |-> "login", how |-> how, u |-> u, role |-> users[u].role,
                 phase |-> IF how = "trusted" THEN "issue" ELSE "mfa"]
<1>1. PICK q : q = r
  OBVIOUS
<1>2. users[u].role \in Roles
  BY DEF Inv, UsersInv, UserType
<1>3. q \in LoginReq
  BY <1>1, <1>2 DEF LoginReq, Hows
<1>4. Become(t, q)
  BY <1>1 DEF StartLogin
<1>5. q \in Reqs /\ ReqOne(q)'
  BY <1>3, Harmless
<1>6. /\ UsersInv' /\ MfaInv' /\ SpentInv' /\ TokensInv' /\ Frame
      /\ HashStep /\ EndedStep /\ faults' \in 0..MaxFaults /\ KeysInv'
  BY Quiet, KeysQuiet DEF StartLogin
<1>7. ReqInv'
  BY <1>4, <1>5, <1>6, ReqSet DEF Inv
<1> QED
  BY <1>6, <1>7 DEF Good, Inv

\* A request whose shape is a login's is set and nothing else but counters.
LEMMA LoginSet ==
    ASSUME Inv, NEW t \in Threads, NEW q \in LoginReq, Become(t, q), Frame
    PROVE  ReqInv'
<1>1. q \in Reqs /\ ReqOne(q)'
  BY Harmless
<1> QED
  BY <1>1, ReqSet DEF Inv

LEMMA WebAuthnReq ==
    ASSUME Inv, NEW t \in Threads, NEW u \in Users, NEW how \in Hows, LoginByWebAuthn(t, u, how)
    PROVE  \E q \in LoginReq : Become(t, q)
<1>1. users[u].role \in Roles
  BY DEF Inv, UsersInv, UserType
<1>2. [op |-> "login", how |-> how, u |-> u, role |-> users[u].role, phase |-> "mfa"] \in LoginReq
  BY <1>1 DEF LoginReq
<1> QED
  BY <1>2 DEF LoginByWebAuthn

LEMMA WorksBound ==
    ASSUME faults \in 0..MaxFaults, NEW ok \in BOOLEAN, Works(ok)
    PROVE  faults' \in 0..MaxFaults
BY AuthAssumption DEF Works

\* A second factor is loaded; the rest of the accounts stays.
LEMMA CacheQuiet ==
    ASSUME Inv, NEW u \in Users, CacheMfa(u, FindMfaLocked(u)),
           UNCHANGED <<users, resets, mfaDb, rows, gen, tokenVars, history>>, ops' = ops \/ Begin
    PROVE  /\ UsersInv' /\ MfaInv' /\ SpentInv' /\ TokensInv' /\ Frame /\ HashStep /\ EndedStep
<1>1. UsersInv' /\ HashStep
  BY Counted, HashQuiet DEF Inv
<1>2. gen \in Nat
  BY AuthAccountsAssumption DEF Inv, UsersInv
<1>3. MfaInv' /\ SpentInv'
  BY <1>2, CacheKeeps DEF Inv, history
<1>4. TokensInv' /\ EndedStep
  BY TokensStay, EndedQuiet DEF Inv, history, tokenVars
<1>5. Frame
  BY <1>2 DEF Frame, CacheMfa, Unused, tokenVars
<1> QED
  BY <1>1, <1>3, <1>4, <1>5

LEMMA AppVerify2FAGood ==
    ASSUME Inv, NEW t \in Threads, NEW u \in Users, AppVerify2FA(t, u)
    PROVE  Good
<1>1. /\ UsersInv' /\ MfaInv' /\ SpentInv' /\ TokensInv' /\ Frame /\ HashStep /\ EndedStep
  BY CacheQuiet DEF AppVerify2FA
<1>2. PICK q \in LoginReq : Become(t, q)
  BY WebAuthnReq DEF AppVerify2FA, Hows
<1>3. ReqInv'
  BY <1>1, <1>2, LoginSet
<1>4. KeysInv' /\ faults' \in 0..MaxFaults
  BY KeysQuiet DEF AppVerify2FA, Inv
<1> QED
  BY <1>1, <1>3, <1>4 DEF Good, Inv

\* A step on requests and passkeys that may fail.
LEMMA QuietFault ==
    ASSUME Inv, UNCHANGED <<users, resets, mfaVars, gen, tokenVars, history>>, ops' = ops \/ Begin
    PROVE  /\ UsersInv' /\ MfaInv' /\ SpentInv' /\ TokensInv' /\ Frame /\ HashStep /\ EndedStep
<1>1. UsersInv'
  BY Counted DEF Inv
<1>2. gen' \in gen..MaxGen
  BY AuthAccountsAssumption DEF Inv, UsersInv
<1>3. MfaInv' /\ SpentInv'
  BY <1>2, AccountsStay DEF Inv, history
<1>4. TokensInv' /\ EndedStep
  BY TokensStay, EndedQuiet DEF Inv, history, tokenVars
<1>5. Frame /\ HashStep
  BY FrameStays, HashQuiet DEF Inv, mfaVars, tokenVars
<1> QED
  BY <1>1, <1>3, <1>4, <1>5

LEMMA FinishLoginKeys ==
    ASSUME Inv, NEW u \in Users, NEW k \in Keys, NEW read \in BOOLEAN, NEW ok \in BOOLEAN,
           FinishLogin(u, k, read, ok)
    PROVE  KeysInv'
<1>1. KeysInv
  BY DEF Inv
<1>2. /\ Passkeys(u, read) \in SUBSET Keys /\ Loads(u, read) \in BOOLEAN
      /\ keyDb[u] \cup {k} \in SUBSET Keys /\ chal[u] \ {"login"} \in SUBSET {"register", "login"}
  BY <1>1, PasskeysType
<1>3. /\ keyDb' = keyDb \/ keyDb' = [keyDb EXCEPT ![u] = keyDb[u] \cup {k}]
      /\ chal' = [chal EXCEPT ![u] = chal[u] \ {"login"}]
      /\ SetKeys(u, Passkeys(u, read), Loads(u, read))
  BY DEF FinishLogin, UpsertWebAuthnCredential
<1> QED
  BY <1>1, <1>2, <1>3, KeysChange

LEMMA WebAuthnLoginFinishGood ==
    ASSUME Inv, NEW t \in Threads, NEW u \in Users, NEW k \in Keys, NEW read \in BOOLEAN,
           NEW ok \in BOOLEAN, WebAuthnLoginFinish(t, u, k, read, ok)
    PROVE  Good
<1>1. /\ UsersInv' /\ MfaInv' /\ SpentInv' /\ TokensInv' /\ Frame /\ HashStep /\ EndedStep
  BY QuietFault DEF WebAuthnLoginFinish
<1>2. KeysInv'
  BY FinishLoginKeys DEF WebAuthnLoginFinish
<1>3. (read /\ ok) \in BOOLEAN /\ Works(read /\ ok)
  BY DEF WebAuthnLoginFinish
<1>4. faults' \in 0..MaxFaults
  BY <1>3, WorksBound DEF Inv
<1>5. ReqInv'
  <2>1. CASE req' = req
    BY <1>1, <2>1, ReqStay DEF Inv
  <2>2. CASE LoginByWebAuthn(t, u, "webauthn")
    <3>1. PICK q \in LoginReq : Become(t, q)
      BY <2>2, WebAuthnReq DEF Hows
    <3> QED
      BY <3>1, <1>1, LoginSet
  <2> QED
    BY <2>1, <2>2 DEF WebAuthnLoginFinish
<1> QED
  BY <1>1, <1>2, <1>4, <1>5 DEF Good, Inv

LEMMA WebAuthnLoginCodeGood ==
    ASSUME Inv, NEW t \in Threads, NEW u \in Users, WebAuthnLoginCode(t, u)
    PROVE  Good
<1>1. /\ UsersInv' /\ MfaInv' /\ SpentInv' /\ TokensInv' /\ Frame
      /\ HashStep /\ EndedStep /\ faults' \in 0..MaxFaults
  BY Quiet DEF WebAuthnLoginCode
<1>2. PICK q \in LoginReq : Become(t, q)
  BY WebAuthnReq DEF WebAuthnLoginCode, Hows
<1>3. ReqInv'
  BY <1>1, <1>2, LoginSet
<1>4. KeysInv'
  BY KeysStay DEF WebAuthnLoginCode, ConsumeVerifiedSession, Inv
<1> QED
  BY <1>1, <1>3, <1>4 DEF Good, Inv

LEMMA DisableUserMFAGood ==
    ASSUME Inv, NEW t \in Threads, NEW u \in Users, NEW b \in BOOLEAN, DisableUserMFA(t, u, b)
    PROVE  Good
<1>1. users[u].role \in Roles
  BY DEF Inv, UsersInv, UserType
<1>2. PICK q : q = [op |-> "disable", how |-> "code", u |-> u, role |-> users[u].role,
                    phase |-> IF b THEN "mfa" ELSE "issue"]
  OBVIOUS
<1>3. q \in LoginReq
  BY <1>1, <1>2 DEF LoginReq, Hows
<1>4. Become(t, q)
  BY <1>2 DEF DisableUserMFA
<1>5. /\ UsersInv' /\ MfaInv' /\ SpentInv' /\ TokensInv' /\ Frame
      /\ HashStep /\ EndedStep /\ faults' \in 0..MaxFaults /\ KeysInv'
  BY Quiet, KeysQuiet DEF DisableUserMFA
<1>6. ReqInv'
  BY <1>3, <1>4, <1>5, LoginSet
<1> QED
  BY <1>5, <1>6 DEF Good, Inv

LEMMA VerifyAccessTokenGood ==
    ASSUME Inv, NEW t \in Threads, NEW p \in Pairs, VerifyAccessToken(t, p)
    PROVE  Good
<1> DEFINE b == p \in loggedOut
<1>1. b \in BOOLEAN
  OBVIOUS
<1>2. Become(t, [op |-> "verify", p |-> p, phase |-> "store", late |-> b])
  BY DEF VerifyAccessToken
<1> HIDE DEF b
<1>3. PICK q : q = [op |-> "verify", p |-> p, phase |-> "store", late |-> b]
  OBVIOUS
<1>4. q \in VerifyReq
  BY <1>1, <1>3 DEF VerifyReq
<1>5. q \in Reqs /\ ReqOne(q)' /\ Become(t, q)
  BY <1>2, <1>3, <1>4, Harmless
<1>6. /\ UsersInv' /\ MfaInv' /\ SpentInv' /\ TokensInv' /\ Frame
      /\ HashStep /\ EndedStep /\ faults' \in 0..MaxFaults /\ KeysInv'
  BY Quiet, KeysQuiet DEF VerifyAccessToken
<1>7. ReqInv'
  BY <1>5, <1>6, ReqSet DEF Inv
<1> QED
  BY <1>6, <1>7 DEF Good, Inv

\* A session that ended is not in the store, so the request that finds it
\* there is not late.
LEMMA FindRefreshSessionGood ==
    ASSUME Inv, NEW t \in Threads, NEW p \in Pairs, NEW op \in {"refresh", "revoke"},
           FindRefreshSession(t, p, op)
    PROVE  Good
<1> DEFINE b == p \in ended
           ph == IF p \in store THEN "copy" ELSE "commit"
<1>1. b \in BOOLEAN /\ ph \in {"copy", "commit"}
  OBVIOUS
<1>2. Become(t, [op |-> op, p |-> p, phase |-> ph, late |-> b])
  BY DEF FindRefreshSession
<1>3. ph = "copy" => ~b
  BY DEF Inv, TokensInv
<1>4. p \notin Unused
  BY DEF FindRefreshSession
<1> HIDE DEF b, ph
<1>5. PICK q : q = [op |-> op, p |-> p, phase |-> ph, late |-> b]
  OBVIOUS
<1>6. q \in TokenReq /\ q.p = p /\ q.phase = ph /\ q.late = b
  BY <1>1, <1>5 DEF TokenReq
<1>7. /\ UsersInv' /\ MfaInv' /\ SpentInv' /\ TokensInv' /\ Frame
      /\ HashStep /\ EndedStep /\ faults' \in 0..MaxFaults /\ KeysInv'
  BY Quiet, KeysQuiet DEF FindRefreshSession
<1>8. q.p \notin Unused' /\ (q.phase = "copy" => ~q.late)
  BY <1>3, <1>4, <1>6, <1>7 DEF Frame
<1>9. q \notin LoadReq /\ q \notin WriteReq /\ q \in Reqs
  BY <1>6 DEF LoadReq, WriteReq, TokenReq, Reqs
<1>10. ReqOne(q)' /\ Become(t, q)
  BY <1>2, <1>5, <1>8, <1>9 DEF ReqOne
<1>11. ReqInv'
  BY <1>7, <1>9, <1>10, ReqSet DEF Inv
<1> QED
  BY <1>7, <1>11 DEF Good, Inv

LEMMA FindUserGood ==
    ASSUME Inv, NEW t \in Threads, NEW u \in Users, NEW op \in {"change", "downgrade", "external"},
           FindUser(t, u, op)
    PROVE  Good
<1>1. users[u].hash \in 0..MaxGen /\ users[u].hash <= gen
  BY DEF Inv, UsersInv, UserType
<1>2. PICK q : q = [op |-> op, u |-> u, hash |-> users[u].hash]
  OBVIOUS
<1>3. q \in WriteReq /\ q.hash <= gen
  BY <1>1, <1>2 DEF WriteReq
<1>4. q \notin LoadReq /\ q \notin TokenReq /\ q \in Reqs
  BY <1>3 DEF LoadReq, WriteReq, TokenReq, Reqs
<1>5. /\ UsersInv' /\ MfaInv' /\ SpentInv' /\ TokensInv' /\ Frame
      /\ HashStep /\ EndedStep /\ faults' \in 0..MaxFaults /\ KeysInv' /\ gen' = gen
  BY Quiet, KeysQuiet DEF FindUser
<1>6. ReqOne(q)' /\ Become(t, q)
  BY <1>2, <1>3, <1>4, <1>5 DEF ReqOne, FindUser
<1>7. ReqInv'
  BY <1>4, <1>5, <1>6, ReqSet DEF Inv
<1> QED
  BY <1>5, <1>7 DEF Good, Inv

\* enforceAdminMFA leaves the request ended, passed or about to consume.
LEMMA EnforceReq ==
    ASSUME Inv, NEW t \in Threads, req[t].op \in {"login", "disable"}, NEW s, Enforce(t, s), Frame
    PROVE  ReqInv' /\ KeysInv'
<1>1. ASSUME Done(t) PROVE ReqInv'
  BY <1>1, ReqDone DEF Inv
<1>2. ASSUME Passed(t) PROVE ReqInv'
  BY <1>2, ReqPassed DEF Inv
<1>3. ASSUME NEW c \in 1..gen,
             Become(t, [op |-> req[t].op, how |-> req[t].how, u |-> req[t].u, role |-> req[t].role,
                        phase |-> "consume", code |-> c])
      PROVE  ReqInv'
  <2>1. PICK q : q = [op |-> req[t].op, how |-> req[t].how, u |-> req[t].u, role |-> req[t].role,
                      phase |-> "consume", code |-> c]
    OBVIOUS
  <2>2. req[t] \in Reqs
    BY DEF Inv, ReqInv
  <2>3. c \in 1..MaxGen
    BY AuthAccountsAssumption DEF Inv, UsersInv
  <2>4. q \in CodeReq
    BY <2>1, <2>2, <2>3, ReqKind DEF CodeReq
  <2>5. q \in Reqs /\ ReqOne(q)'
    BY <2>4, Harmless
  <2> QED
    BY <1>3, <2>1, <2>5, ReqSet DEF Inv
<1>4. ReqInv'
  BY <1>1, <1>2, <1>3 DEF Enforce
<1>5. UNCHANGED <<keyDb, keyMem, keyLoaded, chal>>
  BY DEF Enforce, CreateVerifiedSession, keyVars
<1> QED
  BY <1>4, <1>5, KeysStay DEF Inv

LEMMA EnforceMFAGood ==
    ASSUME Inv, NEW t \in Threads, EnforceMFA(t)
    PROVE  Good
<1>1. /\ UsersInv' /\ MfaInv' /\ SpentInv' /\ TokensInv' /\ Frame
      /\ HashStep /\ EndedStep /\ faults' \in 0..MaxFaults
  BY Quiet DEF EnforceMFA, accountVars, mfaVars
<1>2. req[t] \in Reqs /\ req[t].op \in {"login", "disable"}
  BY DEF Inv, ReqInv, EnforceMFA
<1> DEFINE u == req[t].u
<1>3. ReqInv' /\ KeysInv'
  <2>1. CASE Enforce(t, mfa[u])
    BY <2>1, <1>1, <1>2, EnforceReq
  <2>2. CASE /\ u \notin loaded
             /\ Become(t, [op |-> req[t].op, how |-> req[t].how, u |-> u,
                           role |-> req[t].role, phase |-> "load", row |-> mfaDb[u]])
             /\ UNCHANGED keyVars
    <3>1. PICK q : q = [op |-> req[t].op, how |-> req[t].how, u |-> u,
                        role |-> req[t].role, phase |-> "load", row |-> mfaDb[u]]
      OBVIOUS
    <3>2. u \in Users /\ mfaDb[u] \in MfaType
      BY <1>2, ReqKind DEF Inv, MfaInv
    <3>3. q \in LoadReq /\ q.row = mfaDb[q.u]
      BY <3>1, <3>2, <1>2, ReqKind DEF LoadReq
    <3>4. mfaDb' = mfaDb
      BY DEF EnforceMFA, accountVars
    <3>5. q \notin TokenReq /\ q \notin WriteReq /\ q \in Reqs
      BY <3>3 DEF TokenReq, WriteReq, LoadReq, Reqs
    <3>6. ReqOne(q)'
      BY <3>3, <3>4, <3>5 DEF ReqOne
    <3>7. ReqInv'
      BY <1>1, <2>2, <3>1, <3>5, <3>6, ReqSet DEF Inv
    <3> QED
      BY <2>2, <3>7, KeysQuiet
  <2> QED
    BY <2>1, <2>2 DEF EnforceMFA
<1> QED
  BY <1>1, <1>3 DEF Good, Inv

\* The row a request read is the one in the database as long as nobody has
\* loaded the state, so what is cached is what findAdminMFAStateLocked finds.
LEMMA LoadMFAGood ==
    ASSUME Inv, NEW t \in Threads, LoadMFA(t)
    PROVE  Good
<1> DEFINE u == req[t].u
           s == IF u \in loaded THEN mfa[u] ELSE req[t].row
<1>1. req[t] \in Reqs /\ req[t].op \in {"login", "disable"} /\ req[t].phase = "load"
  BY DEF Inv, ReqInv, LoadMFA
<1>2. u \in Users /\ req[t] \in LoadReq
  BY <1>1, ReqKind
<1>3. ReqOne(req[t])
  BY DEF Inv, ReqInv
<1>4. s = FindMfaLocked(u)
  BY <1>1, <1>2, <1>3 DEF FindMfaLocked, ReqOne
<1>5. /\ CacheMfa(u, FindMfaLocked(u)) /\ Enforce(t, s)
      /\ UNCHANGED <<users, resets, mfaDb, rows, gen, ops, tokenVars, history, faults>>
  BY <1>4 DEF LoadMFA
<1>6. /\ UsersInv' /\ MfaInv' /\ SpentInv' /\ TokensInv' /\ Frame /\ HashStep /\ EndedStep
  BY <1>2, <1>5, CacheQuiet
<1>7. ReqInv' /\ KeysInv'
  BY <1>1, <1>5, <1>6, EnforceReq
<1> QED
  BY <1>5, <1>6, <1>7 DEF Good, Inv

\* A second factor is written, or the write fails; the rest of the accounts
\* and the tokens stay.
LEMMA PersistQuiet ==
    ASSUME Inv, NEW u \in Users, NEW s \in MfaType, NEW ok \in BOOLEAN, PersistMfa(u, s, ok),
           s.codes \subseteq 1..gen', gen' \in gen..MaxGen,
           spent' \in [Users -> [1..MaxGen -> 0..1]],
           \A v \in Users \ {u} : spent'[v] = spent[v],
           \A c \in 1..MaxGen : spent'[u][c] = 1 =>
               IF ok THEN c <= gen' /\ c \notin s.codes ELSE spent[u][c] = 1,
           UNCHANGED <<users, resets, tokenVars, ended>>, ops' = ops \/ Begin
    PROVE  /\ UsersInv' /\ MfaInv' /\ SpentInv' /\ TokensInv' /\ Frame /\ HashStep /\ EndedStep
<1>1. gen \in Nat /\ gen' \in Nat /\ gen <= gen' /\ gen' \in 1..MaxGen
  BY AuthAccountsAssumption DEF Inv, UsersInv
<1>2. /\ MfaInv' /\ SpentInv'
      /\ \A v \in Users : v \notin loaded' => v \notin loaded /\ mfaDb'[v] = mfaDb[v]
  BY <1>1, PersistKeeps DEF Inv
<1>3. Frame
  BY <1>1, <1>2 DEF Frame, Unused, tokenVars
<1>4. UsersInv'
  <2>1. ops \in Nat /\ ops' \in 0..MaxOps /\ ops <= ops'
    BY AuthAccountsAssumption DEF Inv, UsersInv, Begin
  <2>2. \A v \in Users : /\ resets[v] \in Nat /\ resets[v] <= ops
                         /\ users[v].hash \in Nat /\ users[v].hash <= gen
    BY AuthAccountsAssumption DEF Inv, UsersInv, UserType
  <2> QED
    BY <1>1, <2>1, <2>2 DEF Inv, UsersInv
<1>5. TokensInv' /\ EndedStep /\ HashStep
  BY TokensStay, EndedQuiet, HashQuiet DEF Inv, tokenVars
<1> QED
  BY <1>2, <1>3, <1>4, <1>5

\* The state found under the lock has its type and no code that was spent.
LEMMA FoundState ==
    ASSUME Inv, NEW u \in Users
    PROVE  /\ FindMfaLocked(u) \in MfaType /\ FindMfaLocked(u).codes \subseteq 1..gen
           /\ \A c \in 1..MaxGen : spent[u][c] = 1 => c <= gen /\ c \notin FindMfaLocked(u).codes
           /\ \A c \in 1..MaxGen : spent[u][c] \in 0..1
BY DEF FindMfaLocked, Inv, MfaInv, SpentInv

\* Disable keeps the recovery codes.
LEMMA DisabledShape ==
    ASSUME NEW s \in MfaType
    PROVE  Disabled(s) \in MfaType /\ Disabled(s).codes = s.codes
<1> DEFINE a == [s EXCEPT !.secret = 0, !.pending = 0]
<1>0. 0 \in 0..MaxGen
  BY AuthAccountsAssumption
<1>1. a \in MfaType /\ a.codes = s.codes
  BY <1>0 DEF MfaType
<1>. DEFINE d == [a EXCEPT !.enabled = FALSE]
<1>2. d \in MfaType /\ d.codes = a.codes
  BY <1>1 DEF MfaType
<1>3. Disabled(s) = d
  BY DEF Disabled, MfaType
<1> QED
  BY <1>1, <1>2, <1>3

LEMMA ConsumeRecoveryCodeGood ==
    ASSUME Inv, NEW t \in Threads, NEW ok \in BOOLEAN, ConsumeRecoveryCode(t, ok)
    PROVE  Good
<1>1. PICK u : u = req[t].u
  OBVIOUS
<1>2. PICK c : c = req[t].code
  OBVIOUS
<1>3. PICK s : s = FindMfaLocked(u)
  OBVIOUS
<1>4. req[t] \in Reqs /\ req[t].op \in {"login", "disable"} /\ req[t].phase = "consume"
  BY DEF Inv, ReqInv, ConsumeRecoveryCode
<1>5. u \in Users /\ c \in 1..MaxGen
  BY <1>1, <1>2, <1>4, ReqKind
<1>6. /\ s \in MfaType /\ s.codes \subseteq 1..gen
      /\ \A x \in 1..MaxGen : spent[u][x] = 1 => x <= gen /\ x \notin s.codes
      /\ \A x \in 1..MaxGen : spent[u][x] \in 0..1
  BY <1>3, <1>5, FoundState
<1>7. /\ UNCHANGED <<users, resets, gen, ops, keyVars, tokenVars, ended, loggedOut>>
      /\ gen' \in gen..MaxGen
  BY AuthAccountsAssumption DEF ConsumeRecoveryCode, Inv, UsersInv
<1>8. KeysInv'
  BY <1>7, KeysQuiet
<1>9. CASE s.enabled /\ c \in s.codes
  <2>1. PICK n : n = [s EXCEPT !.codes = s.codes \ {c}]
    OBVIOUS
  <2>2. /\ PersistMfa(u, n, ok) /\ Works(ok)
        /\ spent' = IF ok THEN [spent EXCEPT ![u][c] = @ + 1] ELSE spent
        /\ IF ok THEN Passed(t) ELSE Done(t)
    BY <1>1, <1>2, <1>3, <1>9, <2>1 DEF ConsumeRecoveryCode
  <2>3. n \in MfaType /\ n.codes = s.codes \ {c}
    BY <1>6, <2>1 DEF MfaType
  <2>4. spent[u][c] = 0
    BY <1>5, <1>6, <1>9
  <2>5. /\ spent' \in [Users -> [1..MaxGen -> 0..1]]
        /\ \A v \in Users \ {u} : spent'[v] = spent[v]
        /\ \A x \in 1..MaxGen : spent'[u][x] = 1 => (IF ok THEN x = c \/ spent[u][x] = 1 ELSE spent[u][x] = 1)
    BY <1>5, <2>2, <2>4 DEF Inv, SpentInv
  <2>6. \A x \in 1..MaxGen : spent'[u][x] = 1 =>
            IF ok THEN x <= gen' /\ x \notin n.codes ELSE spent[u][x] = 1
    BY <1>5, <1>6, <1>7, <1>9, <2>3, <2>5
  <2>7. n.codes \subseteq 1..gen'
    BY <1>6, <1>7, <2>3
  <2>8. /\ UsersInv' /\ MfaInv' /\ SpentInv' /\ TokensInv' /\ Frame /\ HashStep /\ EndedStep
    BY <1>5, <1>7, <2>2, <2>3, <2>5, <2>6, <2>7, PersistQuiet
  <2>9. ReqInv'
    BY <1>4, <2>2, <2>8, ReqPassed, ReqDone DEF Inv
  <2>10. faults' \in 0..MaxFaults
    BY <2>2, WorksBound DEF Inv
  <2> QED
    BY <1>8, <2>8, <2>9, <2>10 DEF Good, Inv
<1>10. CASE ~(s.enabled /\ c \in s.codes)
  <2>1. Done(t) /\ UNCHANGED <<mfaVars, spent, faults>>
    BY <1>1, <1>2, <1>3, <1>10 DEF ConsumeRecoveryCode
  <2>2. /\ UsersInv' /\ MfaInv' /\ SpentInv' /\ TokensInv' /\ Frame
        /\ HashStep /\ EndedStep /\ faults' \in 0..MaxFaults
    BY <1>7, <2>1, Quiet DEF history
  <2>3. ReqInv'
    BY <2>1, <2>2, ReqDone DEF Inv
  <2> QED
    BY <1>8, <2>2, <2>3 DEF Good, Inv
<1> QED
  BY <1>9, <1>10

LEMMA DisableUserMFAWriteGood ==
    ASSUME Inv, NEW t \in Threads, NEW ok \in BOOLEAN, DisableUserMFAWrite(t, ok)
    PROVE  Good
<1>1. PICK u : u = req[t].u
  OBVIOUS
<1>2. req[t] \in Reqs /\ req[t].op = "disable"
  BY DEF Inv, ReqInv, DisableUserMFAWrite
<1>3. u \in Users
  BY <1>1, <1>2, ReqKind
<1>4. PICK s : s = FindMfaLocked(u)
  OBVIOUS
<1>5. /\ s \in MfaType /\ s.codes \subseteq 1..gen
      /\ \A x \in 1..MaxGen : spent[u][x] = 1 => x <= gen /\ x \notin s.codes
  BY <1>3, <1>4, FoundState
<1>6. PICK n : n = Disabled(s)
  OBVIOUS
<1>7. n \in MfaType /\ n.codes = s.codes
  BY <1>5, <1>6, DisabledShape
<1>8. /\ PersistMfa(u, n, ok) /\ Done(t) /\ Works(ok)
      /\ UNCHANGED <<users, resets, gen, ops, keyVars, tokenVars, history>>
  BY <1>1, <1>4, <1>6 DEF DisableUserMFAWrite
<1>9. gen' \in gen..MaxGen
  BY <1>8, AuthAccountsAssumption DEF Inv, UsersInv
<1>10. /\ spent' \in [Users -> [1..MaxGen -> 0..1]] /\ spent' = spent /\ ended' = ended
  BY <1>8 DEF Inv, SpentInv, history
<1>11. /\ UsersInv' /\ MfaInv' /\ SpentInv' /\ TokensInv' /\ Frame /\ HashStep /\ EndedStep
  BY <1>3, <1>5, <1>7, <1>8, <1>9, <1>10, PersistQuiet
<1>12. ReqInv' /\ KeysInv' /\ faults' \in 0..MaxFaults
  BY <1>8, <1>11, ReqDone, KeysQuiet, WorksBound DEF Inv
<1> QED
  BY <1>11, <1>12 DEF Good, Inv

\* The tokens change and a request ends; the accounts stay.
LEMMA TokenStep ==
    ASSUME Inv, NEW t \in Threads, Done(t), UNCHANGED <<accountVars, keyVars, spent>>,
           TokensInv', Unused' \subseteq Unused, ended' \cap sessions' \subseteq ended \cap sessions,
           faults' \in 0..MaxFaults
    PROVE  Good
<1>1. UsersInv' /\ HashStep /\ EndedStep
  BY Counted, HashQuiet, EndedQuiet DEF Inv, accountVars
<1>2. gen' \in gen..MaxGen
  BY AuthAccountsAssumption DEF Inv, UsersInv, accountVars
<1>3. MfaInv' /\ SpentInv' /\ gen \in Nat /\ gen' \in Nat /\ gen <= gen'
  BY <1>2, AccountsStay DEF Inv, mfaVars, accountVars
<1>4. Frame
  BY <1>3 DEF Frame, accountVars
<1>5. ReqInv' /\ KeysInv'
  BY <1>4, ReqDone, KeysQuiet DEF Inv
<1> QED
  BY <1>1, <1>3, <1>5 DEF Good, Inv

LEMMA IssueTokensGood ==
    ASSUME Inv, NEW t \in Threads, NEW ok \in BOOLEAN, IssueTokens(t, ok)
    PROVE  Good
<1>1. req[t] \in Reqs /\ req[t].op = "login"
  BY DEF Inv, ReqInv, IssueTokens
<1>2. req[t].u \in Users
  BY <1>1, ReqKind
<1>3. PICK p \in Unused : IssueTokenPair(req[t].u, p, Now, ok)
  BY DEF IssueTokens
<1>4. IssueTokenPair(req[t].u, p, [store |-> store, sessions |-> CleanSessions], ok)
  BY <1>3 DEF Now
<1>5. ended' = ended /\ ended \subseteq Pairs \ Unused /\ ended \cap store = {} /\ TokensInv
  BY DEF IssueTokens, history, Inv, TokensInv
<1>6. /\ TokensInv' /\ Unused' \subseteq Unused
      /\ ended' \cap sessions' \subseteq ended' \cap CleanSessions
  <2>1. store \subseteq store /\ CleanSessions \subseteq sessions
    BY DEF CleanSessions
  <2>2. revoked' = CleanRevoked /\ UNCHANGED <<revStore, expired, dead>>
    BY DEF IssueTokens
  <2> QED
    BY <1>2, <1>4, <1>5, <2>1, <2>2, IssueKeeps
<1>7. ended' \cap sessions' \subseteq ended \cap sessions
  BY <1>5, <1>6 DEF CleanSessions
<1>8. faults' \in 0..MaxFaults
  BY WorksBound DEF IssueTokens, Inv
<1> QED
  BY <1>6, <1>7, <1>8, TokenStep DEF IssueTokens, history

LEMMA CopyRefreshSessionGood ==
    ASSUME Inv, NEW t \in Threads, CopyRefreshSession(t)
    PROVE  Good
<1>1. req[t] \in Reqs /\ req[t].op \in {"refresh", "revoke"} /\ req[t].phase = "copy"
  BY DEF Inv, ReqInv, CopyRefreshSession
<1>2. req[t] \in TokenReq /\ req[t].p \in Pairs
  BY <1>1, ReqKind
<1>3. req[t].p \notin Unused /\ ~req[t].late
  BY <1>1, <1>2 DEF Inv, ReqInv, ReqOne
<1>4. EndedStep
  BY <1>1, <1>3 DEF EndedStep, CopyRefreshSession, history
<1>5. UsersInv' /\ HashStep
  BY Counted, HashQuiet DEF Inv, accountVars, CopyRefreshSession
<1>6. gen' \in gen..MaxGen
  BY AuthAccountsAssumption DEF Inv, UsersInv, accountVars, CopyRefreshSession
<1>7. MfaInv' /\ SpentInv' /\ gen \in Nat /\ gen' \in Nat /\ gen <= gen'
  BY <1>6, AccountsStay DEF Inv, mfaVars, accountVars, history, CopyRefreshSession
<1>8. Unused' = Unused
  BY DEF Unused, CopyRefreshSession
<1>9. Frame
  BY <1>7, <1>8 DEF Frame, accountVars, CopyRefreshSession
<1>10. TokensInv'
  BY <1>2, <1>3, <1>8 DEF TokensInv, CopyRefreshSession, history, Inv
<1>11. ReqInv'
  <2>1. PICK r : r = req[t]
    OBVIOUS
  <2>2. PICK q : q = [r EXCEPT !.phase = "commit"]
    OBVIOUS
  <2>3. r \in TokenReq
    BY <2>1, <1>2
  <2>4. q \in TokenReq /\ q.p = r.p /\ q.phase = "commit"
    BY <2>2, <2>3 DEF TokenReq
  <2>5. q \notin LoadReq /\ q \notin WriteReq /\ q \in Reqs
    BY <2>4 DEF LoadReq, WriteReq, TokenReq, Reqs
  <2>6. ReqOne(q)'
    BY <2>1, <2>4, <2>5, <1>3, <1>8 DEF ReqOne
  <2>7. Become(t, q)
    BY <2>1, <2>2 DEF CopyRefreshSession
  <2> QED
    BY <1>9, <2>5, <2>6, <2>7, ReqSet DEF Inv
<1>12. KeysInv' /\ faults' \in 0..MaxFaults
  BY KeysQuiet DEF CopyRefreshSession, Inv
<1> QED
  BY <1>4, <1>5, <1>7, <1>10, <1>11, <1>12 DEF Good, Inv

LEMMA RefreshRefusedGood ==
    ASSUME Inv, NEW t \in Threads, RefreshRefused(t)
    PROVE  Good
<1>1. /\ owner' = owner /\ sessions' \subseteq sessions /\ store' \subseteq store
      /\ revoked' \cup revStore' \cup expired' \cup dead' \cup ended' \subseteq Pairs \ Unused
      /\ ended' \cap store' = {} /\ ended' = ended
  BY DEF RefreshRefused, CleanSessions, CleanRevoked, history, Inv, TokensInv
<1>2. TokensInv' /\ Unused' = Unused
  BY <1>1, TokensShrink DEF Inv, Unused
<1> QED
  BY <1>1, <1>2, TokenStep DEF RefreshRefused, history, Inv

LEMMA RefreshFailsGood ==
    ASSUME Inv, NEW t \in Threads, RefreshFails(t)
    PROVE  Good
<1>1. TokensInv' /\ Unused' = Unused /\ ended' = ended /\ sessions' = sessions
  BY TokensStay DEF RefreshFails, history, Inv, Unused, tokenVars
<1>2. faults' \in 0..MaxFaults
  BY WorksBound DEF RefreshFails, Inv
<1> QED
  BY <1>1, <1>2, TokenStep DEF RefreshFails, history

\* The session that is deleted ended; the new pair is another one.
LEMMA RefreshCommitGood ==
    ASSUME Inv, NEW t \in Threads, NEW ok \in BOOLEAN, RefreshCommit(t, ok)
    PROVE  Good
<1>1. PICK p : p = req[t].p
  OBVIOUS
<1>2. req[t] \in Reqs /\ req[t].op \in {"refresh", "revoke"}
  BY DEF Inv, ReqInv, RefreshCommit
<1>3. req[t] \in TokenReq /\ p \in Pairs
  BY <1>1, <1>2, ReqKind
<1>4. p \notin Unused
  BY <1>1, <1>3 DEF Inv, ReqInv, ReqOne
<1>5. owner[p] \in Users
  BY <1>3, <1>4 DEF Unused, Inv, TokensInv
<1> DEFINE S == store \ {p}
           M == CleanSessions \ {p}
<1>6. /\ S \subseteq store /\ M \subseteq sessions /\ ended' = ended \cup {p}
      /\ ended' \subseteq Pairs \ Unused /\ ended' \cap S = {} /\ TokensInv
      /\ revoked' = CleanRevoked /\ UNCHANGED <<revStore, expired, dead>>
  BY <1>1, <1>3, <1>4 DEF RefreshCommit, Inv, TokensInv, CleanSessions
<1>7. DeleteRefreshSession(p) = [store |-> S, sessions |-> M]
  BY DEF DeleteRefreshSession, DeleteAuthRefreshSession
<1>8. TokensInv' /\ Unused' \subseteq Unused /\ ended' \cap sessions' \subseteq ended' \cap M
  <2>1. CASE req[t].op = "refresh"
    <3>1. PICK q \in Unused : IssueTokenPair(owner[p], q, [store |-> S, sessions |-> M], ok)
      BY <1>1, <1>7, <2>1 DEF RefreshCommit
    <3> HIDE DEF S, M
    <3> QED
      BY <1>5, <1>6, <3>1, IssueKeeps
  <2>2. CASE req[t].op # "refresh"
    <3>1. store' = S /\ sessions' = M /\ owner' = owner
      BY <1>1, <1>7, <2>2 DEF RefreshCommit
    <3>2. revoked' \cup revStore' \cup expired' \cup dead' \cup ended' \subseteq Pairs \ Unused
      BY <1>6 DEF TokensInv, CleanRevoked
    <3>3. TokensInv' /\ Unused' = Unused
      BY <1>6, <3>1, <3>2, TokensShrink DEF Unused
    <3> QED
      BY <3>1, <3>3
  <2> QED
    BY <2>1, <2>2
<1>9. ended' \cap sessions' \subseteq ended \cap sessions
  BY <1>6, <1>8
<1>10. faults' \in 0..MaxFaults
  BY WorksBound DEF RefreshCommit, Inv
<1> QED
  BY <1>8, <1>9, <1>10, TokenStep DEF RefreshCommit

LEMMA VerifyStepGood ==
    ASSUME Inv, NEW t \in Threads, VerifyStep(t)
    PROVE  Good
<1>1. /\ UsersInv' /\ MfaInv' /\ SpentInv' /\ TokensInv' /\ Frame
      /\ HashStep /\ EndedStep /\ faults' \in 0..MaxFaults /\ KeysInv'
  BY Quiet, KeysQuiet DEF VerifyStep, accountVars, mfaVars
<1>2. PICK r : r = req[t]
  OBVIOUS
<1>3. r \in VerifyReq
  BY <1>2, ReqKind DEF Inv, ReqInv, VerifyStep
<1>4. ASSUME NEW ph \in {"memory", "accept"}, Become(t, [r EXCEPT !.phase = ph]) PROVE ReqInv'
  <2>1. PICK q : q = [r EXCEPT !.phase = ph]
    OBVIOUS
  <2>2. q \in VerifyReq
    BY <1>3, <2>1 DEF VerifyReq
  <2>3. q \in Reqs /\ ReqOne(q)' /\ Become(t, q)
    BY <1>4, <2>1, <2>2, Harmless
  <2> QED
    BY <2>3, <1>1, ReqSet DEF Inv
<1>5. ReqInv'
  BY <1>1, <1>2, <1>4, ReqDone DEF VerifyStep, Inv
<1> QED
  BY <1>1, <1>5 DEF Good, Inv

\* A row of users is written, with whatever hash; second factors stay.
LEMMA UserWrite ==
    ASSUME Inv, NEW u \in Users, NEW row \in UserType, NEW ok \in BOOLEAN, PersistUser(u, row, ok),
           gen' \in gen..MaxGen, row.hash <= gen', ops' = ops \/ Begin,
           resets' \in [Users -> 0..MaxOps], \A v \in Users : resets'[v] <= resets[v],
           UNCHANGED <<mfaVars, spent>>
    PROVE  /\ UsersInv' /\ MfaInv' /\ SpentInv'
           /\ gen \in Nat /\ gen' \in Nat /\ gen <= gen'
           /\ row.hash >= users[u].hash => HashStep
<1>1. MfaInv' /\ SpentInv' /\ gen \in Nat /\ gen' \in Nat /\ gen <= gen'
  BY AccountsStay DEF Inv
<1>2. ops \in Nat /\ ops' \in ops..MaxOps
  BY AuthAccountsAssumption DEF Inv, UsersInv, Begin
<1>3. \A v \in Users : resets[v] \in Nat /\ resets'[v] \in Nat /\ resets[v] <= ops
  BY DEF Inv, UsersInv
<1>4. \A v \in Users : resets'[v] <= ops'
  BY <1>2, <1>3
<1>5. UsersInv'
  BY <1>2, <1>4, UsersKeep DEF Inv
<1>6. ASSUME row.hash >= users[u].hash PROVE HashStep
  <2>1. \A v \in Users : users[v].hash \in Nat
    BY AuthAccountsAssumption DEF Inv, UsersInv, UserType
  <2>2. row.hash \in Nat
    BY AuthAccountsAssumption DEF UserType
  <2>3. users' = users \/ users' = [users EXCEPT ![u] = row]
    BY DEF PersistUser, UpsertAuthUser
  <2>4. \A v \in Users : ~(users'[v].hash < users[v].hash)
    BY <1>6, <2>1, <2>2, <2>3 DEF Inv, UsersInv
  <2> QED
    BY <2>4 DEF HashStep
<1> QED
  BY <1>1, <1>5, <1>6

\* A hash just drawn is above every other.
LEMMA Drawn ==
    ASSUME Inv, Draw, NEW u \in Users
    PROVE  /\ gen + 1 \in 0..MaxGen /\ gen' = gen + 1 /\ gen' \in gen..MaxGen
           /\ gen + 1 >= users[u].hash /\ gen \in Nat
           /\ [users[u] EXCEPT !.hash = gen + 1] \in UserType
           /\ [users[u] EXCEPT !.hash = gen + 1].hash = gen + 1
<1>1. gen + 1 \in 0..MaxGen /\ gen' = gen + 1 /\ gen' \in gen..MaxGen /\ gen \in Nat
  BY AuthAccountsAssumption DEF Inv, UsersInv, Draw
<1>2. users[u] \in UserType /\ users[u].hash \in Nat /\ users[u].hash <= gen
  BY AuthAccountsAssumption DEF Inv, UsersInv, UserType
<1>3. gen + 1 >= users[u].hash
  BY <1>1, <1>2
<1>4. /\ [users[u] EXCEPT !.hash = gen + 1] \in UserType
      /\ [users[u] EXCEPT !.hash = gen + 1].hash = gen + 1
  BY <1>1, <1>2 DEF UserType
<1> QED
  BY <1>1, <1>3, <1>4

LEMMA ChangePasswordGood ==
    ASSUME Inv, NEW t \in Threads, NEW ok \in BOOLEAN, ChangePassword(t, ok)
    PROVE  Good
<1>1. PICK u : u = req[t].u
  OBVIOUS
<1>2. u \in Users
  BY <1>1, ReqKind DEF Inv, ReqInv, ChangePassword
<1>3. PICK row : row = [users[u] EXCEPT !.hash = gen + 1]
  OBVIOUS
<1>4. Draw /\ PersistUser(u, row, ok)
  BY <1>1, <1>3 DEF ChangePassword
<1>5. row \in UserType /\ row.hash <= gen' /\ row.hash >= users[u].hash /\ gen' \in gen..MaxGen
  BY <1>2, <1>3, <1>4, Drawn
<1>6. /\ UsersInv' /\ MfaInv' /\ SpentInv' /\ HashStep
      /\ gen \in Nat /\ gen' \in Nat /\ gen <= gen'
  <2>1. resets' = resets /\ ops' = ops /\ UNCHANGED <<mfaVars, spent>>
    BY DEF ChangePassword, history
  <2>2. \A v \in Users : resets[v] \in Nat /\ resets'[v] <= resets[v]
    BY <2>1, AuthAccountsAssumption DEF Inv, UsersInv
  <2>3. resets' \in [Users -> 0..MaxOps]
    BY <2>1 DEF Inv, UsersInv
  <2> QED
    BY <1>2, <1>4, <1>5, <2>1, <2>2, <2>3, UserWrite
<1>7. TokensInv' /\ EndedStep
  BY TokensStay, EndedQuiet DEF ChangePassword, Inv, history, tokenVars
<1>8. Frame
  BY <1>6 DEF Frame, ChangePassword, mfaVars, tokenVars, Unused
<1>9. ReqInv' /\ KeysInv' /\ faults' \in 0..MaxFaults
  BY <1>8, ReqDone, KeysQuiet, WorksBound DEF ChangePassword, Inv
<1> QED
  BY <1>6, <1>7, <1>9 DEF Good, Inv

\* The two writers of a hash read before: what they write back is what
\* their request holds.
LEMMA StaleWrite ==
    ASSUME Inv, NEW t \in Threads, req[t].op \in {"downgrade", "external"}, NEW role \in Roles,
           NEW ok \in BOOLEAN, PersistUser(req[t].u, [role |-> role, hash |-> req[t].hash], ok),
           Done(t), UNCHANGED <<resets, mfaVars, spent, gen, ops>>
    PROVE  /\ UsersInv' /\ MfaInv' /\ SpentInv' /\ HashStep
           /\ gen \in Nat /\ gen' \in Nat /\ gen <= gen'
<1>1. PICK u : u = req[t].u
  OBVIOUS
<1>2. PICK row : row = [role |-> role, hash |-> req[t].hash]
  OBVIOUS
<1>3. req[t] \in Reqs /\ ReqOne(req[t])
  BY DEF Inv, ReqInv
<1>4. req[t] \in WriteReq /\ u \in Users /\ req[t].hash \in 0..MaxGen
  BY <1>1, <1>3, ReqKind
<1>5. row \in UserType /\ row.hash <= gen'
  BY <1>2, <1>3, <1>4 DEF UserType, ReqOne
<1>6. resets' \in [Users -> 0..MaxOps] /\ \A v \in Users : resets'[v] <= resets[v]
  <2>1. \A v \in Users : resets[v] \in Nat /\ resets'[v] <= resets[v]
    BY AuthAccountsAssumption DEF Inv, UsersInv
  <2> QED
    BY <2>1 DEF Inv, UsersInv
<1>7. gen' \in gen..MaxGen
  BY AuthAccountsAssumption DEF Inv, UsersInv
<1>8. /\ UsersInv' /\ MfaInv' /\ SpentInv' /\ gen \in Nat /\ gen' \in Nat /\ gen <= gen'
  BY <1>1, <1>2, <1>4, <1>5, <1>6, <1>7, UserWrite
<1>9. HashStep
  <2>1. \A v \in Users : users[v].hash \in Nat
    BY AuthAccountsAssumption DEF Inv, UsersInv, UserType
  <2>2. users' = users \/ users' = [users EXCEPT ![u] = row]
    BY <1>1, <1>2 DEF PersistUser, UpsertAuthUser
  <2>3. req'[t] = Idle
    BY DEF Done, Inv, ReqInv
  <2>4. ASSUME NEW v \in Users, users'[v].hash < users[v].hash PROVE v = u /\ users'[u].hash = req[t].hash
    BY <1>2, <1>4, <2>1, <2>2, <2>4 DEF Inv, UsersInv
  <2> QED
    BY <1>1, <2>3, <2>4 DEF HashStep
<1> QED
  BY <1>8, <1>9

LEMMA DowngradeTrustedUserGood ==
    ASSUME Inv, NEW t \in Threads, NEW ok \in BOOLEAN, DowngradeTrustedUser(t, ok)
    PROVE  Good
<1>1. /\ UsersInv' /\ MfaInv' /\ SpentInv' /\ HashStep
      /\ gen \in Nat /\ gen' \in Nat /\ gen <= gen'
  BY StaleWrite DEF DowngradeTrustedUser, Roles, history
<1>2. /\ owner' = owner /\ sessions' \subseteq sessions /\ store' \subseteq store
      /\ revoked' \cup revStore' \cup expired' \cup dead' \cup ended' \subseteq Pairs \ Unused
      /\ ended' \cap store' = {} /\ ended' = ended
  BY DEF DowngradeTrustedUser, CleanSessions, CleanRevoked, history, Inv, TokensInv
<1>3. TokensInv' /\ Unused' = Unused /\ EndedStep
  BY <1>2, TokensShrink, EndedQuiet DEF Inv, Unused
<1>4. Frame
  BY <1>1, <1>3 DEF Frame, DowngradeTrustedUser, mfaVars
<1>5. ReqInv' /\ KeysInv' /\ faults' \in 0..MaxFaults
  BY <1>4, ReqDone, KeysQuiet, WorksBound DEF DowngradeTrustedUser, Inv
<1> QED
  BY <1>1, <1>3, <1>5 DEF Good, Inv

LEMMA LoginByTrustedUserGood ==
    ASSUME Inv, NEW t \in Threads, NEW role \in Roles, NEW ok \in BOOLEAN,
           LoginByTrustedUser(t, role, ok)
    PROVE  Good
<1>1. /\ UsersInv' /\ MfaInv' /\ SpentInv' /\ HashStep
      /\ gen \in Nat /\ gen' \in Nat /\ gen <= gen'
  BY StaleWrite DEF LoginByTrustedUser, history
<1>2. req[t].u \in Users
  BY ReqKind DEF Inv, ReqInv, LoginByTrustedUser
<1>3. PICK p \in Unused : IssueTokenPair(req[t].u, p, [store |-> store, sessions |-> CleanSessions], ok)
  BY DEF LoginByTrustedUser, Now
<1>4. ended' = ended /\ ended \subseteq Pairs \ Unused /\ ended \cap store = {} /\ TokensInv
  BY DEF LoginByTrustedUser, history, Inv, TokensInv
<1>5. /\ TokensInv' /\ Unused' \subseteq Unused
      /\ ended' \cap sessions' \subseteq ended' \cap CleanSessions
  <2>1. store \subseteq store /\ CleanSessions \subseteq sessions
    BY DEF CleanSessions
  <2>2. revoked' = CleanRevoked /\ UNCHANGED <<revStore, expired, dead>>
    BY DEF LoginByTrustedUser
  <2> QED
    BY <1>2, <1>3, <1>4, <2>1, <2>2, IssueKeeps
<1>6. EndedStep
  BY <1>4, <1>5, EndedQuiet DEF CleanSessions
<1>7. Frame
  BY <1>1, <1>5 DEF Frame, LoginByTrustedUser, mfaVars
<1>8. ReqInv' /\ KeysInv' /\ faults' \in 0..MaxFaults
  BY <1>7, ReqDone, KeysQuiet, WorksBound DEF LoginByTrustedUser, Inv
<1> QED
  BY <1>1, <1>5, <1>6, <1>8 DEF Good, Inv

LEMMA PostRegisterGood ==
    ASSUME Inv, NEW t \in Threads, NEW u \in Users, NEW ok \in BOOLEAN, PostRegister(t, u, ok)
    PROVE  Good
<1>1. PICK row : row = [role |-> "resident", hash |-> gen + 1]
  OBVIOUS
<1>2. Draw /\ PersistUser(u, row, ok) /\ Begin
  BY <1>1 DEF PostRegister, CreateUser
<1>3. row \in UserType /\ row.hash <= gen' /\ row.hash >= users[u].hash /\ gen' \in gen..MaxGen
  <2>1. gen + 1 \in 0..MaxGen /\ gen' = gen + 1 /\ gen' \in gen..MaxGen /\ gen + 1 >= users[u].hash /\ gen \in Nat
    BY <1>2, Drawn
  <2>2. row \in UserType /\ row.hash = gen + 1
    BY <1>1, <2>1 DEF UserType, Roles
  <2> QED
    BY <2>1, <2>2
<1>4. /\ UsersInv' /\ MfaInv' /\ SpentInv' /\ HashStep
      /\ gen \in Nat /\ gen' \in Nat /\ gen <= gen'
  <2>1. resets' = resets /\ UNCHANGED <<mfaVars, spent>>
    BY DEF PostRegister, CreateUser, history
  <2>2. \A v \in Users : resets[v] \in Nat /\ resets'[v] <= resets[v]
    BY <2>1, AuthAccountsAssumption DEF Inv, UsersInv
  <2>3. resets' \in [Users -> 0..MaxOps]
    BY <2>1 DEF Inv, UsersInv
  <2> QED
    BY <1>2, <1>3, <2>1, <2>2, <2>3, UserWrite
<1>5. TokensInv' /\ EndedStep
  BY TokensStay, EndedQuiet DEF PostRegister, Inv, history, tokenVars
<1>6. Frame
  BY <1>4 DEF Frame, PostRegister, CreateUser, mfaVars, tokenVars, Unused
<1>7. ReqInv'
  <2>1. CASE ok
    <3>1. PICK q : q = [op |-> "login", how |-> "trusted", u |-> u, role |-> "resident", phase |-> "issue"]
      OBVIOUS
    <3>2. q \in LoginReq
      BY <3>1 DEF LoginReq, Hows, Roles
    <3>3. Become(t, q)
      BY <2>1, <3>1 DEF PostRegister
    <3> QED
      BY <3>2, <3>3, <1>6, LoginSet
  <2>2. CASE ~ok
    BY <2>2, <1>6, ReqStay DEF PostRegister, Inv
  <2> QED
    BY <2>1, <2>2
<1>8. KeysInv' /\ faults' \in 0..MaxFaults
  BY KeysQuiet, WorksBound DEF PostRegister, Inv
<1> QED
  BY <1>4, <1>5, <1>7, <1>8 DEF Good, Inv

\* A request served under one lock that writes no second factor.
LEMMA ServeUsers ==
    ASSUME Inv, NEW ok \in BOOLEAN, Works(ok), UNCHANGED <<keyVars, tokenVars, req, history, mfaVars>>,
           NEW u \in Users, NEW row \in UserType, NEW w \in BOOLEAN, PersistUser(u, row, w),
           row.hash <= gen', row.hash >= users[u].hash, gen' \in gen..MaxGen, ops' = ops \/ Begin,
           resets' \in [Users -> 0..MaxOps], \A v \in Users : resets'[v] <= resets[v]
    PROVE  Good
<1>1. /\ UsersInv' /\ MfaInv' /\ SpentInv' /\ HashStep
      /\ gen \in Nat /\ gen' \in Nat /\ gen <= gen'
  BY UserWrite DEF history
<1>2. TokensInv' /\ EndedStep
  BY TokensStay, EndedQuiet DEF Inv, history, tokenVars
<1>3. Frame
  BY <1>1 DEF Frame, mfaVars, tokenVars, Unused
<1>4. ReqInv' /\ KeysInv' /\ faults' \in 0..MaxFaults
  BY <1>3, ReqStay, KeysQuiet, WorksBound DEF Inv
<1> QED
  BY <1>1, <1>2, <1>4 DEF Good, Inv

\* ... and one that writes a second factor.
LEMMA ServeMfa ==
    ASSUME Inv, NEW ok \in BOOLEAN, Works(ok), UNCHANGED <<keyVars, tokenVars, req, history, users, resets>>,
           NEW u \in Users, NEW s \in MfaType, NEW w \in BOOLEAN, PersistMfa(u, s, w),
           gen' \in gen..MaxGen, s.codes \subseteq 1..gen',
           \A c \in 1..MaxGen : spent[u][c] = 1 => c <= gen /\ c \notin s.codes, ops' = ops \/ Begin
    PROVE  Good
<1>1. spent' = spent /\ ended' = ended /\ spent' \in [Users -> [1..MaxGen -> 0..1]]
  BY DEF history, Inv, SpentInv
<1>2. gen \in Nat /\ gen' \in Nat /\ gen <= gen'
  BY AuthAccountsAssumption DEF Inv, UsersInv
<1>3. \A c \in 1..MaxGen : spent'[u][c] = 1 => c <= gen' /\ c \notin s.codes /\ spent[u][c] = 1
  BY <1>1, <1>2, AuthAccountsAssumption
<1>4. /\ UsersInv' /\ MfaInv' /\ SpentInv' /\ TokensInv' /\ Frame /\ HashStep /\ EndedStep
  BY <1>1, <1>3, PersistQuiet
<1>5. ReqInv' /\ KeysInv' /\ faults' \in 0..MaxFaults
  BY <1>4, ReqStay, KeysQuiet, WorksBound DEF Inv
<1> QED
  BY <1>4, <1>5 DEF Good, Inv

LEMMA DrawnCode ==
    ASSUME Inv, Draw, NEW u \in Users
    PROVE  /\ gen + 1 \in 1..MaxGen /\ {gen + 1} \in SUBSET (1..MaxGen) /\ {gen + 1} \subseteq 1..gen'
           /\ \A c \in 1..MaxGen : spent[u][c] = 1 => c <= gen /\ c \notin {gen + 1}
<1>1. gen + 1 \in 1..MaxGen /\ gen' = gen + 1 /\ gen \in Nat
  BY AuthAccountsAssumption DEF Inv, UsersInv, Draw
<1>2. \A c \in 1..MaxGen : spent[u][c] = 1 => c <= gen
  BY DEF Inv, SpentInv
<1>3. \A c \in 1..MaxGen : c <= gen => c \notin {gen + 1}
  BY <1>1, AuthAccountsAssumption
<1> QED
  BY <1>1, <1>2, <1>3

LEMMA ServeAccountGood ==
    ASSUME Inv, NEW ok \in BOOLEAN, ServeAccount(ok)
    PROVE  Good
<1>1. Works(ok) /\ UNCHANGED <<keyVars, tokenVars, req, history>>
  BY DEF ServeAccount
<1>2. PICK u \in Users :
        \/ UpdateUserProfile(u, ok) \/ RequestPasswordReset(u)
        \/ \E x \in BOOLEAN : ConfirmPasswordReset(u, x, ok)
        \/ StartUserMFAEnrollment(u) \/ EnableUserMFA(u, ok)
        \/ RegenerateAdminMFARecoveryCodes(u, ok) \/ DisableAdminMFA(u, ok)
  BY DEF ServeAccount, AccountRequest, PutProfile, PostPasswordReset, PostPasswordResetConfirm,
         PostUserMfaSetup, PostAdminMfaSetup, StartAdminMFAEnrollment, PostUserMfaEnable,
         PostAdminMfaEnable, EnableAdminMFA, PostRecoveryCodes, PostAdminMfaDisable, PutBuildingScope,
         UpdateUserBuildingScope
<1>3. /\ gen \in Nat /\ gen \in gen..MaxGen /\ ops \in Nat
      /\ resets \in [Users -> 0..MaxOps] /\ users[u] \in UserType
      /\ users[u].hash \in Nat /\ users[u].hash <= gen
      /\ \A v \in Users : resets[v] \in Nat /\ resets[v] <= ops
  BY AuthAccountsAssumption DEF Inv, UsersInv, UserType
<1>4. CASE UpdateUserProfile(u, ok)
  <2>1. /\ PersistUser(u, users[u], ok) /\ Begin /\ resets' = resets /\ gen' = gen
        /\ UNCHANGED mfaVars
    BY <1>4 DEF UpdateUserProfile, FindAuthUser
  <2>2. /\ users[u].hash <= gen' /\ users[u].hash >= users[u].hash /\ gen' \in gen..MaxGen
        /\ resets' \in [Users -> 0..MaxOps] /\ \A v \in Users : resets'[v] <= resets[v]
    BY <1>3, <2>1
  <2> QED
    BY <1>1, <1>3, <2>1, <2>2, ServeUsers
<1>5. CASE RequestPasswordReset(u)
  <2>1. ops < MaxOps /\ ops' = ops + 1 /\ resets' = [resets EXCEPT ![u] = resets[u] + 1]
        /\ UNCHANGED <<users, mfaVars, gen>>
    BY <1>5 DEF RequestPasswordReset, Begin
  <2>2. resets' \in [Users -> 0..MaxOps]
    BY <1>3, <2>1, AuthAccountsAssumption
  <2>3. \A v \in Users : resets'[v] <= ops'
    BY <1>3, <2>1
  <2>4. UsersInv'
    BY <1>3, <2>1, <2>2, <2>3, AuthAccountsAssumption DEF Inv, UsersInv
  <2>5. MfaInv' /\ SpentInv' /\ HashStep
    BY <1>1, <1>3, <2>1, AccountsStay, HashQuiet DEF Inv, history
  <2>6. TokensInv' /\ EndedStep
    BY <1>1, TokensStay, EndedQuiet DEF Inv, history, tokenVars
  <2>7. Frame
    BY <1>1, <2>1, FrameStays DEF Inv, mfaVars, tokenVars
  <2>8. ReqInv' /\ KeysInv' /\ faults' \in 0..MaxFaults
    BY <1>1, <2>7, ReqStay, KeysQuiet, WorksBound DEF Inv
  <2> QED
    BY <2>4, <2>5, <2>6, <2>8 DEF Good, Inv
<1>6. ASSUME NEW x \in BOOLEAN, ConfirmPasswordReset(u, x, ok) PROVE Good
  <2>1. PICK row : row = [users[u] EXCEPT !.hash = gen + 1]
    OBVIOUS
  <2>2. PICK w \in BOOLEAN : w = (ok /\ ~x)
    OBVIOUS
  <2>3. /\ Begin /\ Draw /\ resets[u] > 0 /\ resets' = [resets EXCEPT ![u] = resets[u] - 1]
        /\ PersistUser(u, row, w) /\ UNCHANGED mfaVars
    BY <1>6, <2>1, <2>2 DEF ConfirmPasswordReset
  <2>4. row \in UserType /\ row.hash <= gen' /\ row.hash >= users[u].hash /\ gen' \in gen..MaxGen
    BY <2>1, <2>3, Drawn
  <2>5. resets' \in [Users -> 0..MaxOps] /\ \A v \in Users : resets'[v] <= resets[v]
    BY <1>3, <2>3, AuthAccountsAssumption
  <2> QED
    BY <1>1, <2>3, <2>4, <2>5, ServeUsers
<1>7. CASE StartUserMFAEnrollment(u)
  <2>1. PICK s : s = [mfa[u] EXCEPT !.pending = gen + 1]
    OBVIOUS
  <2>2. Begin /\ Draw /\ PersistMfa(u, s, TRUE) /\ UNCHANGED <<users, resets>>
    BY <1>7, <2>1 DEF StartUserMFAEnrollment
  <2>3. gen + 1 \in 0..MaxGen /\ gen' \in gen..MaxGen /\ gen' = gen + 1
    BY <2>2, Drawn
  <2>4. s \in MfaType /\ s.codes = mfa[u].codes
    BY <2>1, <2>3 DEF Inv, MfaInv, MfaType
  <2>5. s.codes \subseteq 1..gen' /\ \A c \in 1..MaxGen : spent[u][c] = 1 => c <= gen /\ c \notin s.codes
    <3>1. mfa[u].codes \subseteq 1..gen
      BY DEF Inv, MfaInv
    <3>2. 1..gen \subseteq 1..gen'
      BY <1>3, <2>3
    <3> QED
      BY <2>4, <3>1, <3>2 DEF Inv, SpentInv
  <2> QED
    BY <1>1, <2>2, <2>3, <2>4, <2>5, ServeMfa
<1>8. CASE EnableUserMFA(u, ok)
  <2>1. PICK s : s = FindMfaLocked(u)
    OBVIOUS
  <2>2. PICK n : n = [secret |-> s.pending, pending |-> 0, enabled |-> TRUE, codes |-> {gen + 1}]
    OBVIOUS
  <2>3. Begin /\ Draw /\ PersistMfa(u, n, ok) /\ UNCHANGED <<users, resets>>
    BY <1>8, <2>1, <2>2 DEF EnableUserMFA
  <2>4. s.pending \in 0..MaxGen /\ 0 \in 0..MaxGen
    BY <2>1, FoundState, AuthAccountsAssumption DEF MfaType
  <2>5. /\ {gen + 1} \in SUBSET (1..MaxGen) /\ {gen + 1} \subseteq 1..gen'
        /\ \A c \in 1..MaxGen : spent[u][c] = 1 => c <= gen /\ c \notin {gen + 1}
    BY <2>3, DrawnCode
  <2>6. n \in MfaType /\ n.codes = {gen + 1}
    BY <2>2, <2>4, <2>5 DEF MfaType
  <2>7. gen' \in gen..MaxGen
    BY <2>3, Drawn
  <2> QED
    BY <1>1, <2>3, <2>5, <2>6, <2>7, ServeMfa
<1>9. CASE RegenerateAdminMFARecoveryCodes(u, ok)
  <2>1. PICK s : s = FindMfaLocked(u)
    OBVIOUS
  <2>2. PICK n : n = [s EXCEPT !.codes = {gen + 1}]
    OBVIOUS
  <2>3. Begin /\ Draw /\ PersistMfa(u, n, ok) /\ UNCHANGED <<users, resets>>
    BY <1>9, <2>1, <2>2 DEF RegenerateAdminMFARecoveryCodes
  <2>4. s \in MfaType
    BY <2>1, FoundState
  <2>5. /\ {gen + 1} \in SUBSET (1..MaxGen) /\ {gen + 1} \subseteq 1..gen'
        /\ \A c \in 1..MaxGen : spent[u][c] = 1 => c <= gen /\ c \notin {gen + 1}
    BY <2>3, DrawnCode
  <2>6. n \in MfaType /\ n.codes = {gen + 1}
    BY <2>2, <2>4, <2>5 DEF MfaType
  <2>7. gen' \in gen..MaxGen
    BY <2>3, Drawn
  <2> QED
    BY <1>1, <2>3, <2>5, <2>6, <2>7, ServeMfa
<1>10. CASE DisableAdminMFA(u, ok)
  <2>1. PICK s : s = FindMfaLocked(u)
    OBVIOUS
  <2>2. PICK n : n = Disabled(s)
    OBVIOUS
  <2>3. Begin /\ PersistMfa(u, n, ok) /\ UNCHANGED <<users, resets, gen>>
    BY <1>10, <2>1, <2>2 DEF DisableAdminMFA
  <2>4. /\ s \in MfaType /\ s.codes \subseteq 1..gen
        /\ \A c \in 1..MaxGen : spent[u][c] = 1 => c <= gen /\ c \notin s.codes
    BY <2>1, FoundState
  <2>5. n \in MfaType /\ n.codes = s.codes
    BY <2>2, <2>4, DisabledShape
  <2> QED
    BY <1>1, <1>3, <2>3, <2>4, <2>5, ServeMfa
<1> QED
  BY <1>2, <1>4, <1>5, <1>6, <1>7, <1>8, <1>9, <1>10

\* The hash that could not be read is written as none.
LEMMA ServePasswordAuthGood ==
    ASSUME Inv, NEW read \in BOOLEAN, NEW ok \in BOOLEAN, ServePasswordAuth(read, ok)
    PROVE  Good
<1>1. PICK u \in Users : UpdateUserPasswordAuth(u, read, ok)
  BY DEF ServePasswordAuth
<1>2. Works(read /\ ok) /\ UNCHANGED <<keyVars, tokenVars, req, history>>
  BY DEF ServePasswordAuth
<1>3. /\ gen \in Nat /\ gen \in gen..MaxGen /\ resets \in [Users -> 0..MaxOps] /\ users \in [Users -> UserType]
      /\ users[u].hash \in Nat /\ users[u].hash <= gen /\ users[u].hash >= users[u].hash
      /\ \A v \in Users : resets[v] \in Nat /\ resets[v] <= resets[v] /\ users[v].hash \in Nat
  BY AuthAccountsAssumption DEF Inv, UsersInv, UserType
<1>4. PICK none : none = [users[u] EXCEPT !.hash = 0]
  OBVIOUS
<1>5. none \in UserType /\ none.hash = 0
  BY <1>3, <1>4, AuthAccountsAssumption DEF UserType
<1>6. Begin /\ UNCHANGED <<resets, mfaVars, gen>> /\ PersistUser(u, IF read THEN users[u] ELSE none, ok)
  BY <1>1, <1>4 DEF UpdateUserPasswordAuth, FindAuthUser
<1>7. PICK w \in BOOLEAN : w = (read /\ ok)
  OBVIOUS
<1>8. CASE read
  BY <1>2, <1>3, <1>6, <1>7, <1>8, ServeUsers
<1>9. CASE ~read
  <2>1. PersistUser(u, none, ok) /\ faults' = faults + 1
    BY <1>2, <1>6, <1>9 DEF Works
  <2>2. UNCHANGED <<mfaVars, spent>> /\ gen' \in gen..MaxGen /\ none.hash <= gen'
    BY <1>2, <1>3, <1>5, <1>6 DEF history
  <2>3. resets' \in [Users -> 0..MaxOps] /\ \A v \in Users : resets'[v] <= resets[v]
    BY <1>3, <1>6
  <2>4. UsersInv' /\ MfaInv' /\ SpentInv' /\ gen \in Nat /\ gen' \in Nat /\ gen <= gen'
    BY <1>5, <1>6, <2>1, <2>2, <2>3, UserWrite
  <2>5. HashStep
    <3>1. users' = users \/ users' = [users EXCEPT ![u] = none]
      BY <2>1 DEF PersistUser, UpsertAuthUser
    <3>2. \A v \in Users : users'[v].hash < users[v].hash => v = u /\ users'[v] = none
      BY <1>3, <3>1
    <3> QED
      BY <1>4, <2>1, <3>2, Zenon DEF HashStep
  <2>6. TokensInv' /\ EndedStep
    BY <1>2, TokensStay, EndedQuiet DEF Inv, history, tokenVars
  <2>7. Frame
    BY <1>2, <1>6, <2>4 DEF Frame, mfaVars, tokenVars, Unused
  <2>8. ReqInv' /\ KeysInv' /\ faults' \in 0..MaxFaults
    BY <1>2, <1>7, <2>7, ReqStay, KeysQuiet, WorksBound DEF Inv
  <2> QED
    BY <2>4, <2>5, <2>6, <2>8 DEF Good, Inv
<1> QED
  BY <1>8, <1>9

LEMMA ServePasskeyGood ==
    ASSUME Inv, NEW read \in BOOLEAN, NEW ok \in BOOLEAN, ServePasskey(read, ok)
    PROVE  Good
<1>1. PICK u \in Users : \/ BeginRegistration(u, read) \/ BeginLogin(u, read)
                         \/ \E k \in Keys : \/ FinishRegistration(u, k, read, ok)
                                            \/ DeleteCredential(u, k, read, ok)
  BY DEF ServePasskey, PasskeyRequest, WebAuthnRegisterBegin, WebAuthnLoginBegin,
         WebAuthnRegisterFinish, WebAuthnDeleteCredential
<1>2. KeysInv
  BY DEF Inv
<1> DEFINE P == Passkeys(u, read)
           L == Loads(u, read)
<1>3. /\ P \in SUBSET Keys /\ L \in BOOLEAN /\ keyDb[u] \in SUBSET Keys
      /\ chal[u] \in SUBSET {"register", "login"}
  BY <1>2, PasskeysType
<1>4. Begin /\ KeysInv'
  <2>1. CASE BeginRegistration(u, read)
    <3>1. /\ SetKeys(u, P, L) /\ Begin /\ keyDb' = keyDb
          /\ chal' = [chal EXCEPT ![u] = chal[u] \cup {"register"}]
      BY <2>1 DEF BeginRegistration
    <3>2. chal[u] \cup {"register"} \in SUBSET {"register", "login"}
      BY <1>3
    <3> HIDE DEF P, L
    <3> QED
      BY <1>2, <1>3, <3>1, <3>2, KeysChange
  <2>2. CASE BeginLogin(u, read)
    <3>1. /\ SetKeys(u, P, L) /\ Begin /\ keyDb' = keyDb
          /\ chal' = [chal EXCEPT ![u] = chal[u] \cup {"login"}]
      BY <2>2 DEF BeginLogin
    <3>2. chal[u] \cup {"login"} \in SUBSET {"register", "login"}
      BY <1>3
    <3> HIDE DEF P, L
    <3> QED
      BY <1>2, <1>3, <3>1, <3>2, KeysChange
  <2>3. ASSUME NEW k \in Keys, FinishRegistration(u, k, read, ok) PROVE Begin /\ KeysInv'
    <3>1. PICK S : S = P \cup (IF ok THEN {k} ELSE {})
      OBVIOUS
    <3>2. /\ SetKeys(u, S, TRUE) /\ Begin
          /\ keyDb' = keyDb \/ keyDb' = [keyDb EXCEPT ![u] = keyDb[u] \cup {k}]
          /\ chal' = [chal EXCEPT ![u] = chal[u] \ {"register"}]
      BY <2>3, <3>1 DEF FinishRegistration, UpsertWebAuthnCredential
    <3>3. /\ chal[u] \ {"register"} \in SUBSET {"register", "login"}
          /\ S \in SUBSET Keys /\ keyDb[u] \cup {k} \in SUBSET Keys
      BY <1>3, <3>1
    <3> HIDE DEF P, L
    <3> QED
      BY <1>2, <1>3, <3>2, <3>3, KeysChange
  <2>4. ASSUME NEW k \in Keys, DeleteCredential(u, k, read, ok) PROVE Begin /\ KeysInv'
    <3>1. PICK S : S = IF ok THEN P \ {k} ELSE P
      OBVIOUS
    <3>2. /\ SetKeys(u, S, L) /\ Begin /\ chal' = chal
          /\ keyDb' = keyDb \/ keyDb' = [keyDb EXCEPT ![u] = keyDb[u] \ {k}]
      BY <2>4, <3>1 DEF DeleteCredential, DeleteWebAuthnCredential
    <3>3. /\ S \in SUBSET Keys /\ keyDb[u] \ {k} \in SUBSET Keys
      BY <1>3, <3>1
    <3> HIDE DEF P, L
    <3> QED
      BY <1>2, <1>3, <3>2, <3>3 DEF KeysInv, SetKeys
  <2> QED
    BY <1>1, <2>1, <2>2, <2>3, <2>4
<1>5. /\ UsersInv' /\ MfaInv' /\ SpentInv' /\ TokensInv' /\ Frame /\ HashStep /\ EndedStep
  BY <1>4, QuietFault DEF ServePasskey
<1>6. (read /\ ok) \in BOOLEAN /\ Works(read /\ ok)
  BY DEF ServePasskey
<1>7. faults' \in 0..MaxFaults
  BY <1>6, WorksBound DEF Inv
<1>8. ReqInv'
  BY <1>5, ReqStay DEF ServePasskey, Inv
<1> QED
  BY <1>4, <1>5, <1>7, <1>8 DEF Good, Inv

\* Tokens and one counter change under one lock; no request does.
LEMMA ServeTokens ==
    ASSUME Inv, UNCHANGED <<users, resets, mfaVars, gen, keyVars, req, spent>>, Begin,
           TokensInv', owner' = owner, ended' \cap sessions' \subseteq ended \cap sessions,
           faults' \in 0..MaxFaults
    PROVE  Good
<1>1. UsersInv' /\ HashStep /\ EndedStep
  BY Counted, HashQuiet, EndedQuiet DEF Inv
<1>2. gen' \in gen..MaxGen
  BY AuthAccountsAssumption DEF Inv, UsersInv
<1>3. MfaInv' /\ SpentInv'
  BY <1>2, AccountsStay DEF Inv
<1>4. Frame
  BY FrameStays DEF Inv, mfaVars
<1>5. ReqInv' /\ KeysInv'
  BY <1>4, ReqStay, KeysQuiet DEF Inv
<1> QED
  BY <1>1, <1>3, <1>5 DEF Good, Inv

LEMMA ServeRevokeSessionGood ==
    ASSUME Inv, ServeRevokeSession
    PROVE  Good
<1>1. PICK u \in Users, p \in Pairs :
        /\ RevokeSession(u, p) /\ ended' = ended \cup {p}
        /\ UNCHANGED <<users, resets, mfaVars, gen, keyVars, req, spent, loggedOut, faults>>
  BY DEF ServeRevokeSession
<1>2. p \notin Unused
  BY <1>1 DEF RevokeSession, Inv, TokensInv
<1>3. /\ owner' = owner /\ sessions' = sessions \ {p} /\ store' = store \ {p} /\ Begin
      /\ UNCHANGED <<revoked, revStore, expired, dead>>
  BY <1>1 DEF RevokeSession, DeleteAuthRefreshSession
<1>4. TokensInv'
  BY <1>1, <1>2, <1>3, TokensShrink DEF Inv, TokensInv
<1> QED
  BY <1>1, <1>3, <1>4, ServeTokens DEF Inv

LEMMA ServeRevokeAllGood ==
    ASSUME Inv, NEW ok \in BOOLEAN, ServeRevokeAll(ok)
    PROVE  Good
<1>1. PICK u \in Users :
        /\ RevokeRefreshTokensByUserEmail(u, ok) /\ Works(ok)
        /\ ended' = IF ok THEN ended \cup Of(u) ELSE ended
        /\ UNCHANGED <<users, resets, mfaVars, gen, keyVars, req, spent, loggedOut>>
  BY DEF ServeRevokeAll
<1>2. Of(u) \subseteq Pairs \ Unused
  BY NobodyAssumption DEF Of, Unused
<1>3. /\ owner' = owner /\ sessions' = CleanSessions \ Of(u) /\ store' \subseteq store /\ Begin
      /\ ok => store' \cap Of(u) = {}
      /\ revoked' = CleanRevoked /\ UNCHANGED <<revStore, expired, dead>>
  BY <1>1 DEF RevokeRefreshTokensByUserEmail, DeleteAuthRefreshSessionsByUserID
<1>4. /\ sessions' \subseteq sessions
      /\ revoked' \cup revStore' \cup expired' \cup dead' \cup ended' \subseteq Pairs \ Unused
      /\ ended' \cap store' = {} /\ ended' \cap sessions' \subseteq ended \cap sessions
  BY <1>1, <1>2, <1>3 DEF Inv, TokensInv, CleanSessions, CleanRevoked
<1>5. TokensInv'
  BY <1>3, <1>4, TokensShrink DEF Inv
<1>6. faults' \in 0..MaxFaults
  BY <1>1, WorksBound DEF Inv
<1> QED
  BY <1>1, <1>3, <1>4, <1>5, <1>6, ServeTokens

LEMMA ServeLogoutGood ==
    ASSUME Inv, ServeLogout
    PROVE  Good
<1>1. PICK p \in Pairs :
        /\ Logout(p)
        /\ UNCHANGED <<users, resets, mfaVars, gen, keyVars, req, spent, ended, faults>>
  BY DEF ServeLogout
<1>2. /\ owner' = owner /\ sessions' \subseteq sessions /\ store' \subseteq store /\ Begin
      /\ revoked' \cup revStore' \cup expired' \cup dead' \cup ended' \subseteq Pairs \ Unused
      /\ ended' \cap store' = {}
  BY <1>1 DEF Logout, UpsertAuthRevokedAccessToken, CleanRevoked, CleanSessions, Inv, TokensInv
<1>3. TokensInv'
  BY <1>2, TokensShrink DEF Inv
<1> QED
  BY <1>1, <1>2, <1>3, ServeTokens DEF Inv

LEMMA ExpiryGood ==
    ASSUME Inv, Expiry
    PROVE  Good
<1>1. UNCHANGED <<users, resets, mfaVars, gen, req, history, faults>>
  BY DEF Expiry
<1>2. ASSUME NEW p \in Pairs, AccessExpires(p) \/ RefreshExpires(p), UNCHANGED keyVars PROVE Good
  <2>1. /\ owner' = owner /\ sessions' \subseteq sessions /\ store' \subseteq store /\ Begin
        /\ revoked' \cup revStore' \cup expired' \cup dead' \cup ended' \subseteq Pairs \ Unused
        /\ ended' \cap store' = {} /\ ended' = ended
    BY <1>1, <1>2 DEF AccessExpires, RefreshExpires, history, Inv, TokensInv
  <2>2. TokensInv'
    BY <2>1, TokensShrink DEF Inv
  <2> QED
    BY <1>1, <1>2, <2>1, <2>2, ServeTokens DEF Inv, history
<1>3. ASSUME NEW u \in Users, UNCHANGED tokenVars,
             VerifiedExpires(u) \/ \E c \in {"register", "login"} : ChallengeExpires(u, c)
      PROVE  Good
  <2>1. Begin /\ UNCHANGED <<keyDb, keyMem, keyLoaded>>
        /\ (chal' = chal \/ \E c \in {"register", "login"} : chal' = [chal EXCEPT ![u] = chal[u] \ {c}])
    BY <1>3 DEF VerifiedExpires, ChallengeExpires
  <2>2. KeysInv'
    BY <2>1 DEF Inv, KeysInv
  <2>3. /\ UsersInv' /\ MfaInv' /\ SpentInv' /\ TokensInv' /\ Frame
        /\ HashStep /\ EndedStep /\ faults' \in 0..MaxFaults
    BY <1>1, <1>3, <2>1, Quiet
  <2>4. ReqInv'
    BY <1>1, <2>3, ReqStay DEF Inv
  <2> QED
    BY <2>2, <2>3, <2>4 DEF Good, Inv
<1> QED
  BY <1>2, <1>3 DEF Expiry

\* What a restart leaves in memory is nothing: no request waits and no
\* second factor is loaded.
LEMMA RestartGood ==
    ASSUME Inv, Restart
    PROVE  Good
<1>1. UsersInv'
  <2>1. \A u \in Users : resets'[u] = 0
    BY DEF Restart, AccountsRestart
  <2>2. resets' \in [Users -> 0..MaxOps] /\ 0 <= ops
    BY AuthAccountsAssumption DEF Restart, AccountsRestart, Inv, UsersInv
  <2>3. DemoRow \in UserType /\ DemoRow.hash = 1 /\ 1 <= gen
    BY AuthAccountsAssumption DEF DemoRow, UserType, Roles, Inv, UsersInv
  <2>4. \A u \in Users : users'[u] = users[u] \/ users'[u] = DemoRow
    BY DEF Restart, AccountsRestart
  <2>5. users' = [u \in Users |-> users'[u]]
    BY DEF Restart, AccountsRestart
  <2>6. \A u \in Users : users'[u] \in UserType /\ users'[u].hash <= gen
    BY <2>3, <2>4 DEF Inv, UsersInv
  <2>7. users' \in [Users -> UserType]
    BY <2>5, <2>6
  <2> QED
    BY <2>1, <2>2, <2>6, <2>7 DEF Restart, AccountsRestart, Inv, UsersInv
<1>2. Zero \in MfaType /\ Zero.codes = {}
  BY AuthAccountsAssumption DEF Zero, MfaType
<1>3. MfaInv' /\ SpentInv'
  BY <1>2 DEF Restart, AccountsRestart, Inv, MfaInv, SpentInv, history
<1>4. TokensInv' /\ EndedStep
  BY DEF Restart, AccountsRestart, TokensRestart, Inv, TokensInv, Unused, history, EndedStep
<1>8. HashStep
  <2>1. \A u \in Users : users'[u] = users[u] \/ (u \in demo /\ users'[u] = DemoRow)
    BY DEF Restart, AccountsRestart
  <2>2. \A u \in Users : users[u].hash \in Nat /\ ~(users[u].hash < users[u].hash)
    BY AuthAccountsAssumption DEF Inv, UsersInv, UserType
  <2>3. faults' = faults + 1
    BY DEF Restart, Works
  <2> QED
    BY <2>1, <2>2, <2>3, Zenon DEF HashStep
<1>5. KeysInv'
  BY DEF Restart, KeysRestart, Inv, KeysInv
<1>6. ReqInv'
  BY Harmless DEF Restart, ReqInv, ReqOne
<1>7. faults' \in 0..MaxFaults
  BY WorksBound DEF Restart, Inv
<1> QED
  BY <1>1, <1>3, <1>4, <1>5, <1>6, <1>7, <1>8 DEF Good, Inv

-----------------------------------------------------------------------------
(* The theorems.                                                           *)

LEMMA InitInv == Init => Inv
<1> SUFFICES ASSUME Init PROVE Inv
  OBVIOUS
<1>0. 0 \in 0..MaxGen /\ 1 \in 0..MaxGen /\ 1 \in 1..MaxGen /\ 0 \in 0..MaxOps /\ 0 \in 0..MaxFaults
  BY AuthAccountsAssumption, AuthAssumption
<1>1. UsersInv
  <2>1. \A r \in {NoAccount} \cup {[role |-> x, hash |-> 1] : x \in Roles \ {"none"}} :
           r \in UserType /\ r.hash <= 1
    BY <1>0 DEF NoAccount, UserType, Roles
  <2>2. users \in [Users -> UserType] /\ \A u \in Users : users[u].hash <= 1
    BY <2>1 DEF Init, AccountsInit
  <2> QED
    BY <1>0, <2>2 DEF Init, AccountsInit, UsersInv
<1>2. MfaInv
  <2>1. Zero \in MfaType /\ Zero.codes = {}
    BY <1>0 DEF Zero, MfaType
  <2>2. Enrolled \in MfaType /\ Enrolled.codes = {1}
    BY <1>0 DEF Enrolled, MfaType
  <2> QED
    BY <2>1, <2>2 DEF Init, AccountsInit, MfaInv
<1>3. SpentInv
  BY DEF Init, SpentInv
<1>4. TokensInv
  <2>1. PICK S \in {{}} \cup {{p} : p \in Pairs}, u \in Users :
          /\ owner = [p \in Pairs |-> IF p \in S THEN u ELSE Nobody] /\ store = S
    BY DEF Init, TokensInit
  <2>2. S \subseteq Pairs \ Unused /\ owner \in [Pairs -> Users \cup {Nobody}]
    BY <2>1, NobodyAssumption DEF Unused
  <2> QED
    BY <2>1, <2>2 DEF Init, TokensInit, TokensInv
<1>5. KeysInv
  BY DEF Init, KeysInit, KeysInv
<1>6. ReqInv
  BY DEF Init, ReqInv, ReqOne, Reqs, Idle, LoadReq, TokenReq, WriteReq
<1> QED
  BY <1>0, <1>1, <1>2, <1>3, <1>4, <1>5, <1>6 DEF Inv, Init

\* Every step keeps the invariant and obeys the two action properties.
LEMMA StepGood == ASSUME Inv, Next PROVE Good
<1>1. ASSUME NEW t \in Threads, Start(t) PROVE Good
  <2>1. ASSUME NEW u \in Users, Login(t, u) \/ LoginByTrustedIdentity(t, u) PROVE Good
    BY <2>1, StartLoginGood DEF Login, LoginByTrustedIdentity
  <2> QED
    BY <1>1, <2>1, AppVerify2FAGood, WebAuthnLoginFinishGood, PostRegisterGood,
       WebAuthnLoginCodeGood, DisableUserMFAGood, VerifyAccessTokenGood, FindRefreshSessionGood,
       FindUserGood DEF Start
<1>2. ASSUME NEW t \in Threads, NEW ok \in BOOLEAN, Step(t, ok) PROVE Good
  BY <1>2, EnforceMFAGood, LoadMFAGood, ConsumeRecoveryCodeGood, IssueTokensGood,
     DisableUserMFAWriteGood, CopyRefreshSessionGood, RefreshRefusedGood, RefreshCommitGood,
     RefreshFailsGood, VerifyStepGood, ChangePasswordGood, DowngradeTrustedUserGood,
     LoginByTrustedUserGood DEF Step
<1>3. ASSUME NEW ok \in BOOLEAN, ServeAccount(ok) \/ ServeRevokeAll(ok) PROVE Good
  BY <1>3, ServeAccountGood, ServeRevokeAllGood
<1> QED
  BY <1>1, <1>2, <1>3, ServePasskeyGood, ServePasswordAuthGood, ServeRevokeSessionGood, ServeLogoutGood,
     ExpiryGood, RestartGood DEF Next, ServiceNext

LEMMA StutterInv == ASSUME Inv, UNCHANGED vars PROVE Inv'
<1>1. UNCHANGED <<users, resets, mfaVars, gen, tokenVars, history, faults, ops, keyVars, req>>
  BY DEF vars, accountVars, mfaVars
<1>2. /\ UsersInv' /\ MfaInv' /\ SpentInv' /\ TokensInv' /\ Frame /\ faults' \in 0..MaxFaults /\ KeysInv'
  BY <1>1, Quiet, KeysQuiet
<1>3. ReqInv'
  BY <1>1, <1>2, ReqStay DEF Inv
<1> QED
  BY <1>2, <1>3 DEF Inv

LEMMA Invariance == Spec => []Inv
<1>1. Inv /\ [Next]_vars => Inv'
  BY StepGood, StutterInv DEF Good
<1> QED
  BY InitInv, <1>1, PTL DEF Spec

\* The state of the service keeps its types: accounts, second factors,
\* passkeys and tokens, and only pairs that were issued are in use.
THEOREM AuthTypeCorrect == Spec => []TypeOK
<1>1. Inv /\ demo \subseteq Users => TypeOK
  <2> SUFFICES ASSUME Inv, demo \subseteq Users PROVE TypeOK
    OBVIOUS
  <2>1. spent \in [Users -> [1..MaxGen -> Nat]]
    BY DEF Inv, SpentInv
  <2> QED
    BY <2>1 DEF Inv, UsersInv, MfaInv, TokensInv, KeysInv, TypeOK
<1>2. Init => demo \subseteq Users
  BY DemoAssumption DEF Init, AccountsInit
<1>3. demo \subseteq Users /\ [Next]_vars => (demo \subseteq Users)'
  BY DEF Next, vars
<1>4. Spec => [](demo \subseteq Users)
  BY <1>2, <1>3, PTL DEF Spec
<1> QED
  BY Invariance, <1>1, <1>4, PTL

\* A recovery code of a user lets at most one login through, whatever the
\* order of concurrent logins, failed writes and restarts.
THEOREM RecoveryCodeUsedOnce == Spec => []RecoveryCodeOnce
<1>1. Inv => RecoveryCodeOnce
  <2>1. ASSUME Inv, NEW u \in Users, NEW c \in 1..MaxGen PROVE spent[u][c] <= 1
    <3>1. spent[u][c] \in 0..1
      BY <2>1 DEF Inv, SpentInv
    <3> QED
      BY <3>1
  <2> QED
    BY <2>1 DEF RecoveryCodeOnce
<1> QED
  BY Invariance, <1>1, PTL

\* A session that ended comes back to memory only by a request that read it
\* from the store before it ended (findRefreshSession).
THEOREM EndedStaysEnded == Spec => EndedOnlyByReader
<1>1. Inv /\ [Next]_vars => [EndedStep]_vars
  BY StepGood DEF Good
<1>2. Spec => [][EndedStep]_vars
  BY Invariance, <1>1, PTL DEF Spec
<1> QED
  BY <1>2 DEF EndedStep, EndedOnlyByReader

\* A hash goes back only through a downgrade or an external login whose
\* request read the account before, through the start of a deployment with
\* demonstration accounts, or through a failed read (SetPersistence,
\* UpdateUserPasswordAuth).
THEOREM PasswordStays == Spec => PasswordKept
<1>1. Inv /\ [Next]_vars => [HashStep]_vars
  BY StepGood DEF Good
<1>2. Spec => [][HashStep]_vars
  BY Invariance, <1>1, PTL DEF Spec
<1> QED
  BY <1>2 DEF HashStep, PasswordKept
=============================================================================
