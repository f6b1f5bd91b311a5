-------------------------------- MODULE Auth --------------------------------
(***************************************************************************)
(* The auth service of one API process: requests that read outside the     *)
(* mutex and write under it (logins, refresh, token checks, password and   *)
(* role changes), over the accounts, passkeys and tokens, with failing     *)
(* stores and restarts.                                                    *)
(***************************************************************************)
EXTENDS AuthTokens

CONSTANTS Threads, AdminMFARequired, MaxFaults

VARIABLES req,       \* Threads -> request in progress, Idle when none
          spent,     \* history: user -> recovery code -> logins it let through
          ended,     \* history: sessions whose revocation or rotation succeeded
          loggedOut, \* history: access tokens whose logout succeeded
          faults     \* failed store calls and restarts so far

ASSUME AuthAssumption == AdminMFARequired \in BOOLEAN /\ MaxFaults \in Nat

history == <<spent, ended, loggedOut>>
vars == <<accountVars, keyVars, tokenVars, req, history, faults, demo>>

Idle == [op |-> "idle"]
Done(t) == req' = [req EXCEPT ![t] = Idle]
Become(t, r) == req' = [req EXCEPT ![t] = r]

\* A store call works, or it fails and counts against the bound.
Works(ok) == IF ok THEN UNCHANGED faults ELSE faults < MaxFaults /\ faults' = faults + 1

Init == /\ AccountsInit /\ KeysInit /\ TokensInit
        /\ req = [t \in Threads |-> Idle]
        /\ spent = [u \in Users |-> [c \in 1..MaxGen |-> 0]]
        /\ ended = {} /\ loggedOut = {} /\ faults = 0

-----------------------------------------------------------------------------
(* Logins.  How: "password", "trusted" (no MFA), "webauthn" (passkey just   *)
(* verified, no code yet), "code" (after a passkey or app login);           *)
(* "disable" is disableUserMFA, which re-authenticates the same way.        *)

StartLogin(t, u, how) ==
    /\ req[t] = Idle /\ Begin /\ Exists(u)
    /\ how = "password" => PasswordAuthEnabled(users[u])
    /\ Become(t, [op |-> "login", how |-> how, u |-> u, role |-> users[u].role,
                  phase |-> IF how = "trusted" THEN "issue" ELSE "mfa"])
    /\ UNCHANGED <<users, resets, mfaVars, gen, keyVars, tokenVars, history, faults>>

\* LoginByWebAuthn begins: the user owes a code if enrolled.
LoginByWebAuthn(t, u, how) ==
    Become(t, [op |-> "login", how |-> how, u |-> u, role |-> users[u].role, phase |-> "mfa"])

Login(t, u)                  == StartLogin(t, u, "password")
LoginByTrustedIdentity(t, u) == StartLogin(t, u, "trusted")

\* appVerify2FA: GetUserMFAStatus, which loads the state, must say enabled.
AppVerify2FA(t, u) ==
    /\ req[t] = Idle /\ Begin /\ Exists(u) /\ Active(FindMfaLocked(u))
    /\ CacheMfa(u, FindMfaLocked(u))
    /\ LoginByWebAuthn(t, u, "code")
    /\ UNCHANGED <<users, resets, mfaDb, rows, gen, keyVars, tokenVars, history, faults>>

\* webAuthnLoginFinish, path B: FinishLogin, then LoginByWebAuthn without a
\* code if the passkey verified.
WebAuthnLoginFinish(t, u, k, read, ok) ==
    /\ req[t] = Idle /\ Begin
    /\ FinishLogin(u, k, read, ok)
    /\ IF k \in Passkeys(u, read) /\ ok
         THEN LoginByWebAuthn(t, u, "webauthn")
         ELSE UNCHANGED req
    /\ Works(read /\ ok)
    /\ UNCHANGED <<users, resets, mfaVars, gen, tokenVars, history>>

\* webAuthnLoginFinish, path A: the token of path B and an MFA code.
WebAuthnLoginCode(t, u) ==
    /\ req[t] = Idle /\ Begin
    /\ ConsumeVerifiedSession(u)
    /\ LoginByWebAuthn(t, u, "code")
    /\ UNCHANGED <<users, resets, mfaVars, gen, tokenVars, history, faults>>

\* The request has passed enforceAdminMFA.
Passed(t) == Become(t, [req[t] EXCEPT !.phase = "issue"])

\* enforceAdminMFA on the copy s of the state.  c = 0: no code; TRUE: a
\* TOTP code of s.secret; otherwise a recovery code, consumed under the lock.
Enforce(t, s) ==
    IF ~Active(s)
    THEN /\ IF (IsAdminRole(req[t].role) /\ AdminMFARequired) \/ req[t].op = "disable"
              THEN Done(t) ELSE Passed(t)
         /\ UNCHANGED keyVars
    ELSE IF req[t].how = "webauthn"
    THEN Done(t) /\ CreateVerifiedSession(req[t].u)
    ELSE /\ \/ Done(t)                                    \* no code or a wrong one
            \/ Passed(t)                                  \* TOTP
            \/ \E c \in 1..gen : Become(t, [op |-> req[t].op, how |-> req[t].how,
                 u |-> req[t].u, role |-> req[t].role, phase |-> "consume", code |-> c])
         /\ UNCHANGED keyVars

\* findAdminMFAState: memory, else a read of the row outside the lock.
EnforceMFA(t) ==
    LET u == req[t].u
    IN  /\ req[t].op \in {"login", "disable"} /\ req[t].phase = "mfa"
        /\ IF u \in loaded \/ u \notin rows
             THEN Enforce(t, mfa[u])
             ELSE /\ Become(t, [op |-> req[t].op, how |-> req[t].how, u |-> u,
                                role |-> req[t].role, phase |-> "load", row |-> mfaDb[u]])
                  /\ UNCHANGED keyVars
        /\ UNCHANGED <<accountVars, tokenVars, history, faults>>

\* What is in memory by now wins over the row read before.
LoadMFA(t) ==
    LET u == req[t].u
        s == IF u \in loaded THEN mfa[u] ELSE req[t].row
    IN  /\ req[t].op \in {"login", "disable"} /\ req[t].phase = "load"
        /\ CacheMfa(u, s)
        /\ Enforce(t, s)
        /\ UNCHANGED <<users, resets, mfaDb, rows, gen, ops, tokenVars, history, faults>>

\* The code is accepted and stays in the list.
ConsumeRecoveryCode_Bug(t, ok) ==
    LET u == req[t].u  c == req[t].code  s == FindMfaLocked(u)
    IN  /\ req[t].op \in {"login", "disable"} /\ req[t].phase = "consume"
        /\ s.enabled /\ c \in s.codes /\ ok
        /\ PersistMfa(u, s, ok)
        /\ spent' = [spent EXCEPT ![u][c] = @ + 1]
        /\ Passed(t)
        /\ UNCHANGED <<users, resets, gen, ops, faults, keyVars, tokenVars, ended, loggedOut>>

\* The recovery code: the state is read again under the lock.
ConsumeRecoveryCode(t, ok) ==
    LET u == req[t].u  c == req[t].code  s == FindMfaLocked(u)
    IN  /\ req[t].op \in {"login", "disable"} /\ req[t].phase = "consume"
        /\ IF s.enabled /\ c \in s.codes
             THEN /\ PersistMfa(u, [s EXCEPT !.codes = @ \ {c}], ok)
                  /\ spent' = IF ok THEN [spent EXCEPT ![u][c] = @ + 1] ELSE spent
                  /\ IF ok THEN Passed(t) ELSE Done(t)
                  /\ Works(ok)
             ELSE Done(t) /\ ok /\ UNCHANGED <<mfaVars, spent, faults>>
        /\ UNCHANGED <<users, resets, gen, ops, keyVars, tokenVars, ended, loggedOut>>

\* The end of a login, under the lock.
IssueTokens(t, ok) ==
    /\ req[t].op = "login" /\ req[t].phase = "issue"
    /\ \E p \in Unused : IssueTokenPair(req[t].u, p, Now, ok)
    /\ revoked' = CleanRevoked
    /\ Done(t) /\ Works(ok)
    /\ UNCHANGED <<accountVars, keyVars, revStore, expired, dead, history>>

\* disableUserMFA: re-authentication by password or by code, then Disable.
DisableUserMFA(t, u, byCode) ==
    /\ req[t] = Idle /\ Begin /\ Exists(u)
    /\ byCode \/ PasswordAuthEnabled(users[u])
    /\ Become(t, [op |-> "disable", how |-> "code", u |-> u, role |-> users[u].role,
                  phase |-> IF byCode THEN "mfa" ELSE "issue"])
    /\ UNCHANGED <<users, resets, mfaVars, gen, keyVars, tokenVars, history, faults>>

DisableUserMFAWrite(t, ok) ==
    /\ req[t].op = "disable" /\ req[t].phase = "issue"
    /\ PersistMfa(req[t].u, Disabled(FindMfaLocked(req[t].u)), ok)
    /\ Done(t) /\ Works(ok)
    /\ UNCHANGED <<users, resets, gen, ops, keyVars, tokenVars, history>>

-----------------------------------------------------------------------------
(* Refresh and RevokeRefreshToken: a look outside the lock, which also      *)
(* copies what the store has into memory, then the same look under it.      *)

FindRefreshSession(t, p, op) ==
    /\ req[t] = Idle /\ Begin /\ p \notin Unused \cup dead
    /\ p \in store \cup sessions
    /\ Become(t, [op |-> op, p |-> p, phase |-> IF p \in store THEN "copy" ELSE "commit",
                  late |-> p \in ended])
    /\ UNCHANGED <<users, resets, mfaVars, gen, keyVars, tokenVars, history, faults>>

CopyRefreshSession(t) ==
    /\ req[t].op \in {"refresh", "revoke"} /\ req[t].phase = "copy"
    /\ sessions' = sessions \cup {req[t].p}
    /\ Become(t, [req[t] EXCEPT !.phase = "commit"])
    /\ UNCHANGED <<accountVars, keyVars, owner, store, revoked, revStore, expired, dead, history, faults>>

\* Neither found: the request is refused.
RefreshRefused(t) ==
    /\ req[t].op \in {"refresh", "revoke"} /\ req[t].phase = "commit"
    /\ req[t].p \notin store \cup CleanSessions
    /\ sessions' = CleanSessions /\ revoked' = CleanRevoked
    /\ Done(t)
    /\ UNCHANGED <<accountVars, keyVars, owner, store, revStore, expired, dead, history, faults>>

\* The session is deleted and, for Refresh, a new pair issued; when that
\* last write fails the caller has lost the old pair and has no new one.
RefreshCommit(t, ok) ==
    LET p == req[t].p
    IN  /\ req[t].op \in {"refresh", "revoke"} /\ req[t].phase = "commit"
        /\ p \in store \cup CleanSessions
        /\ IF req[t].op = "refresh"
             THEN \E q \in Unused : IssueTokenPair(owner[p], q, DeleteRefreshSession(p), ok)
             ELSE /\ store' = DeleteRefreshSession(p).store
                  /\ sessions' = DeleteRefreshSession(p).sessions
                  /\ ok /\ UNCHANGED owner
        /\ ended' = ended \cup {p}
        /\ revoked' = CleanRevoked
        /\ Done(t) /\ Works(ok)
        /\ UNCHANGED <<accountVars, keyVars, revStore, expired, dead, spent, loggedOut>>

\* The lookup of the user, or the delete, fails: what memory holds stays.
RefreshFails(t) ==
    /\ req[t].op \in {"refresh", "revoke"} /\ req[t].phase = "commit"
    /\ Done(t) /\ Works(FALSE)
    /\ UNCHANGED <<accountVars, keyVars, tokenVars, history>>

-----------------------------------------------------------------------------
(* VerifyAccessToken: the store, then memory, then the user.                *)

VerifyAccessToken(t, p) ==
    /\ req[t] = Idle /\ Begin /\ p \notin Unused \cup expired
    /\ Become(t, [op |-> "verify", p |-> p, phase |-> "store", late |-> p \in loggedOut])
    /\ UNCHANGED <<users, resets, mfaVars, gen, keyVars, tokenVars, history, faults>>

VerifyStep(t) ==
    LET p == req[t].p
    IN  /\ req[t].op = "verify"
        /\ \/ /\ req[t].phase = "store"
              /\ IF IsAuthAccessTokenRevoked(p) THEN Done(t) ELSE Become(t, [req[t] EXCEPT !.phase = "memory"])
           \/ /\ req[t].phase = "memory"
              /\ IF p \in revoked THEN Done(t) ELSE Become(t, [req[t] EXCEPT !.phase = "accept"])
           \/ req[t].phase = "accept" /\ Done(t)
        /\ UNCHANGED <<accountVars, keyVars, tokenVars, history, faults>>

-----------------------------------------------------------------------------
(* Writers of an account that read it before they lock: ChangePassword,     *)
(* DowngradeTrustedUserToLeastPrivilegeByEmail and LoginByTrustedUser.      *)

FindUser(t, u, op) ==
    /\ req[t] = Idle /\ Begin
    /\ Exists(u) \/ op = "external"
    /\ op = "change" => users[u].hash # 0
    /\ Become(t, [op |-> op, u |-> u, hash |-> users[u].hash])
    /\ UNCHANGED <<users, resets, mfaVars, gen, keyVars, tokenVars, history, faults>>

\* The old password was right; the row is read again under the lock.
ChangePassword(t, ok) ==
    /\ req[t].op = "change" /\ Draw
    /\ PersistUser(req[t].u, [users[req[t].u] EXCEPT !.hash = gen + 1], ok)
    /\ Done(t) /\ Works(ok)
    /\ UNCHANGED <<resets, mfaVars, ops, keyVars, tokenVars, history>>

\* The hash read before the lock is written back.
DowngradeTrustedUser(t, ok) ==
    /\ req[t].op = "downgrade"
    /\ PersistUser(req[t].u, [role |-> "resident", hash |-> req[t].hash], ok)
    /\ sessions' = CleanSessions /\ revoked' = CleanRevoked
    /\ Done(t) /\ Works(ok)
    /\ UNCHANGED <<resets, mfaVars, gen, ops, keyVars, owner, store, revStore, expired, dead, history>>

\* The role comes from the identity provider.
LoginByTrustedUser(t, role, ok) ==
    /\ req[t].op = "external"
    /\ PersistUser(req[t].u, [role |-> role, hash |-> req[t].hash], TRUE)
    /\ \E p \in Unused : IssueTokenPair(req[t].u, p, Now, ok)
    /\ revoked' = CleanRevoked
    /\ Done(t) /\ Works(ok)
    /\ UNCHANGED <<resets, mfaVars, gen, ops, keyVars, revStore, expired, dead, history>>

-----------------------------------------------------------------------------
\* appRegister: CreateUser, then a trusted login for the new user.
PostRegister(t, u, ok) ==
    /\ req[t] = Idle
    /\ CreateUser(u, ok) /\ Works(ok)
    /\ IF ok THEN Become(t, [op |-> "login", how |-> "trusted", u |-> u, role |-> "resident",
                            phase |-> "issue"])
             ELSE UNCHANGED req
    /\ UNCHANGED <<keyVars, tokenVars, history>>

ServeAccount(ok) == AccountRequest(ok) /\ Works(ok) /\ UNCHANGED <<keyVars, tokenVars, req, history>>

\* updateAuthUserPasswordAuth.
ServePasswordAuth(read, ok) == \E u \in Users :
    /\ UpdateUserPasswordAuth(u, read, ok) /\ Works(read /\ ok)
    /\ UNCHANGED <<keyVars, tokenVars, req, history>>

ServePasskey(read, ok) ==
    /\ PasskeyRequest(read, ok) /\ Works(read /\ ok)
    /\ UNCHANGED <<users, resets, mfaVars, gen, tokenVars, req, history>>

ServeRevokeSession == \E u \in Users, p \in Pairs :
    /\ RevokeSession(u, p)
    /\ ended' = ended \cup {p}
    /\ UNCHANGED <<users, resets, mfaVars, gen, keyVars, req, spent, loggedOut, faults>>

ServeRevokeAll(ok) == \E u \in Users :
    /\ RevokeRefreshTokensByUserEmail(u, ok) /\ Works(ok)
    /\ ended' = IF ok THEN ended \cup Of(u) ELSE ended
    /\ UNCHANGED <<users, resets, mfaVars, gen, keyVars, req, spent, loggedOut>>

ServeLogout == \E p \in Pairs :
    /\ Logout(p)
    /\ loggedOut' = loggedOut \cup {p}
    /\ UNCHANGED <<users, resets, mfaVars, gen, keyVars, req, spent, ended, faults>>

Expiry == /\ \/ \E p \in Pairs : (AccessExpires(p) \/ RefreshExpires(p)) /\ UNCHANGED keyVars
             \/ /\ \E u \in Users : VerifiedExpires(u) \/ \E c \in {"register", "login"} : ChallengeExpires(u, c)
                /\ UNCHANGED tokenVars
          /\ UNCHANGED <<users, resets, mfaVars, gen, req, history, faults>>

\* The process dies with its requests; the rows and the store remain.
Restart == /\ AccountsRestart /\ KeysRestart /\ TokensRestart
           /\ req' = [t \in Threads |-> Idle]
           /\ Works(FALSE) /\ UNCHANGED history

Step(t, ok) == \/ EnforceMFA(t) \/ LoadMFA(t) \/ ConsumeRecoveryCode(t, ok)
               \/ IssueTokens(t, ok) \/ DisableUserMFAWrite(t, ok)
               \/ CopyRefreshSession(t) \/ RefreshRefused(t) \/ RefreshCommit(t, ok)
               \/ RefreshFails(t) \/ VerifyStep(t)
               \/ ChangePassword(t, ok) \/ DowngradeTrustedUser(t, ok)
               \/ \E role \in Roles \ {"none"} : LoginByTrustedUser(t, role, ok)

Start(t) == \/ \E u \in Users : Login(t, u) \/ LoginByTrustedIdentity(t, u) \/ AppVerify2FA(t, u)
            \/ \E u \in Users, k \in Keys, read, ok \in BOOLEAN : WebAuthnLoginFinish(t, u, k, read, ok)
            \/ \E u \in Users, ok \in BOOLEAN : PostRegister(t, u, ok)
            \/ \E u \in Users : WebAuthnLoginCode(t, u) \/ \E b \in BOOLEAN : DisableUserMFA(t, u, b)
            \/ \E p \in Pairs : VerifyAccessToken(t, p) \/ \E op \in {"refresh", "revoke"} : FindRefreshSession(t, p, op)
            \/ \E u \in Users, op \in {"change", "downgrade", "external"} : FindUser(t, u, op)

ServiceNext ==
    \/ \E t \in Threads : Start(t) \/ \E ok \in BOOLEAN : Step(t, ok)
    \/ \E ok \in BOOLEAN : ServeAccount(ok) \/ ServeRevokeAll(ok)
    \/ \E read, ok \in BOOLEAN : ServePasskey(read, ok) \/ ServePasswordAuth(read, ok)
    \/ ServeRevokeSession \/ ServeLogout \/ Expiry \/ Restart

Next == ServiceNext /\ UNCHANGED demo

Spec == Init /\ [][Next]_vars

-----------------------------------------------------------------------------
TypeOK == /\ users \in [Users -> UserType] /\ resets \in [Users -> 0..MaxOps]
          /\ mfa \in [Users -> MfaType] /\ mfaDb \in [Users -> MfaType]
          /\ loaded \cup rows \subseteq Users /\ gen \in 1..MaxGen /\ ops \in 0..MaxOps
          /\ keyDb \in [Users -> SUBSET Keys] /\ keyMem \in [Users -> SUBSET Keys]
          /\ keyLoaded \subseteq Users /\ chal \in [Users -> SUBSET {"register", "login"}]
          /\ owner \in [Pairs -> Users \cup {Nobody}]
          /\ sessions \cup store \cup revoked \cup revStore \cup expired \cup dead \subseteq Pairs \ Unused
          /\ spent \in [Users -> [1..MaxGen -> Nat]] /\ faults \in 0..MaxFaults
          /\ demo \subseteq Users

\* A recovery code of a user lets at most one login through, whatever the order of
\* concurrent logins, failed writes and restarts (enforceAdminMFA consumes
\* it under the lock and persists before it answers).
RecoveryCodeOnce == \A u \in Users, c \in 1..MaxGen : spent[u][c] <= 1

\* ... and it comes back to memory only by a request that had read it from
\* the store before it ended (findRefreshSession copies without re-checking).
EndedOnlyByReader ==
    [][\A p \in (ended' \cap sessions') \ (ended \cap sessions) :
          \E t \in Threads : /\ req[t].op \in {"refresh", "revoke"} /\ req[t].phase = "copy"
                             /\ req[t].p = p /\ ~req[t].late]_vars

\* A password is lost to an older one or to none in three ways only, whatever runs at the
\* same time, fails or restarts: a request that read the account before the change writes
\* the old hash back (downgrade, login of an external identity), a start writes a
\* demonstration account anew, or UpdateUserPasswordAuth could not read the hash a second time.
PasswordKept ==
    [][\A u \in Users : users'[u].hash < users[u].hash =>
          \/ \E t \in Threads : /\ req[t].op \in {"downgrade", "external"} /\ req[t].u = u
                                /\ req[t].hash = users'[u].hash /\ req'[t] = Idle
          \/ /\ faults' = faults + 1
             /\ \/ u \in demo /\ users'[u] = DemoRow
                \/ users'[u] = [users[u] EXCEPT !.hash = 0]]_vars
=============================================================================
