---------------------------- MODULE AuthAccounts ----------------------------
(***************************************************************************)
(* Accounts and second factors of the cloud's auth service                 *)
(* (api/internal/modules/auth): the user rows, the password reset tokens   *)
(* and the MFA state, which is a row in the database and a copy in memory. *)
(* Passwords, TOTP secrets and sets of recovery codes are drawn from one   *)
(* counter; a set of recovery codes is represented by one code.            *)
(***************************************************************************)
EXTENDS Naturals, FiniteSets

CONSTANTS Users, MaxGen, MaxOps,
          DemoUsers   \* the demonstration accounts

VARIABLES users,   \* Users -> [role, hash]: row of auth_users
          resets,  \* Users -> reset tokens outstanding
          mfa,     \* Users -> state in Service.adminMFA, Zero when not loaded
          loaded,  \* users whose MFA state is in memory
          mfaDb,   \* Users -> state in the database, Zero when there is no row
          rows,    \* users with a row
          demo,    \* the demonstration accounts of this deployment (ENABLE_DEMO_USERS)
          gen,     \* last password, secret or code drawn
          ops      \* requests begun, a bound of the model

ASSUME AuthAccountsAssumption == MaxGen \in Nat \ {0} /\ MaxOps \in Nat
ASSUME DemoAssumption == DemoUsers \subseteq Users

accountVars == <<users, resets, mfa, loaded, mfaDb, rows, gen, ops>>
mfaVars     == <<mfa, loaded, mfaDb, rows>>

Roles    == {"none", "resident", "admin"}
UserType == [role: Roles, hash: 0..MaxGen]
Zero     == [secret |-> 0, pending |-> 0, enabled |-> FALSE, codes |-> {}]
MfaType  == [secret: 0..MaxGen, pending: 0..MaxGen, enabled: BOOLEAN, codes: SUBSET (1..MaxGen)]

Exists(u)  == users[u].role # "none"
IsAdminRole(role) == role = "admin"

\* The flag is no column of auth_users: a row read back has it exactly when
\* it has a hash (findUserByEmail, cacheUserLocked).
PasswordAuthEnabled(r) == r.hash # 0

Begin == ops < MaxOps /\ ops' = ops + 1
Draw  == gen < MaxGen /\ gen' = gen + 1

Active(s) == s.enabled /\ s.secret # 0

-----------------------------------------------------------------------------
\* A service that starts on a database with or without the account, which
\* may be enrolled.
NoAccount == [role |-> "none", hash |-> 0]
Enrolled == [secret |-> 1, pending |-> 0, enabled |-> TRUE, codes |-> {1}]

\* buildDemoUsers: role and password of a demonstration account, always the same.
DemoRow == [role |-> "admin", hash |-> 1]

AccountsInit ==
    /\ demo \in {{}, DemoUsers}
    /\ users \in [Users -> {NoAccount} \cup {[role |-> r, hash |-> 1] : r \in Roles \ {"none"}}]
    /\ \A u \in demo : users[u] = DemoRow
    /\ mfaDb \in [Users -> {Zero, Enrolled}]
    /\ \A u \in Users : Exists(u) \/ mfaDb[u] = Zero
    /\ rows = {u \in Users : mfaDb[u] # Zero}
    /\ resets = [u \in Users |-> 0]
    /\ mfa = [u \in Users |-> Zero]
    /\ loaded = {}
    /\ gen = 1 /\ ops = 0

\* The rows: an upsert by id of everything the caller holds, hash included.
UpsertAuthUser(u, row) == users' = [users EXCEPT ![u] = row]
FindAuthUser(u)        == users[u]

\* persistUserLocked: the row first; memory only when the row was written.
PersistUser(u, row, ok) == IF ok THEN UpsertAuthUser(u, row) ELSE UNCHANGED users

\* CreateUser, existence checked under the lock.
CreateUser(u, ok) ==
    /\ Begin /\ Draw /\ ~Exists(u)
    /\ PersistUser(u, [role |-> "resident", hash |-> gen + 1], ok)
    /\ UNCHANGED <<resets, mfaVars>>

UpdateUserProfile_Bug(u, ok) ==
    /\ Begin /\ Exists(u)
    /\ PersistUser(u, [users[u] EXCEPT !.hash = 0], ok)
    /\ UNCHANGED <<resets, mfaVars, gen>>

\* Name and language change; the row is written back with the hash found
\* under the lock.
UpdateUserProfile(u, ok) ==
    /\ Begin /\ Exists(u)
    /\ PersistUser(u, FindAuthUser(u), ok)
    /\ UNCHANGED <<resets, mfaVars, gen>>

\* The same for the buildings of a building administrator.
UpdateUserBuildingScope(u, ok) == ~IsAdminRole(users[u].role) /\ UpdateUserProfile(u, ok)

\* The flag is stored nowhere; the hash is read a second time, and an error of that read is
\* taken for an account without a password.
UpdateUserPasswordAuth(u, read, ok) ==
    /\ Begin /\ Exists(u)
    /\ PersistUser(u, IF read THEN FindAuthUser(u) ELSE [FindAuthUser(u) EXCEPT !.hash = 0], ok)
    /\ UNCHANGED <<resets, mfaVars, gen>>

RequestPasswordReset(u) ==
    /\ Begin /\ Exists(u)
    /\ resets' = [resets EXCEPT ![u] = @ + 1]
    /\ UNCHANGED <<users, mfaVars, gen>>

\* The token is gone even when it has expired or the row cannot be written.
ConfirmPasswordReset(u, expired, ok) ==
    /\ Begin /\ Draw /\ resets[u] > 0
    /\ resets' = [resets EXCEPT ![u] = @ - 1]
    /\ PersistUser(u, [users[u] EXCEPT !.hash = gen + 1], ok /\ ~expired)
    /\ UNCHANGED mfaVars

-----------------------------------------------------------------------------
\* findAdminMFAStateLocked: memory, else the row.
FindMfaLocked(u) == IF u \in loaded THEN mfa[u] ELSE mfaDb[u]

CacheMfa(u, s) == /\ mfa' = [mfa EXCEPT ![u] = s]
                  /\ loaded' = loaded \cup {u}

UpsertAuthAdminMFAState(u, s) == /\ mfaDb' = [mfaDb EXCEPT ![u] = s]
                                 /\ rows' = rows \cup {u}

WriteRow(u, s, ok) == IF ok THEN UpsertAuthAdminMFAState(u, s) ELSE UNCHANGED <<mfaDb, rows>>

\* persistAdminMFAStateLocked after findAdminMFAStateLocked: when the row
\* cannot be written only what the read brought to memory stays.
PersistMfa(u, s, ok) ==
    /\ IF ok \/ u \in rows THEN CacheMfa(u, IF ok THEN s ELSE FindMfaLocked(u))
                          ELSE UNCHANGED <<mfa, loaded>>
    /\ WriteRow(u, s, ok)

\* Start...MFAEnrollment takes the state from memory alone, a zero state
\* when the row has not been loaded since the process started.  (A write
\* that fails changes nothing.)
StartUserMFAEnrollment(u) ==
    /\ Begin /\ Draw /\ Exists(u)
    /\ PersistMfa(u, [mfa[u] EXCEPT !.pending = gen + 1], TRUE)
    /\ UNCHANGED <<users, resets>>

StartAdminMFAEnrollment(u) == IsAdminRole(users[u].role) /\ StartUserMFAEnrollment(u)

\* The code is the pending secret's; recovery codes are drawn anew.
EnableUserMFA(u, ok) ==
    LET s == FindMfaLocked(u)
    IN  /\ Begin /\ Draw /\ Exists(u) /\ s.pending # 0
        /\ PersistMfa(u, [secret |-> s.pending, pending |-> 0, enabled |-> TRUE,
                          codes |-> {gen + 1}], ok)
        /\ UNCHANGED <<users, resets>>

EnableAdminMFA(u, ok) == IsAdminRole(users[u].role) /\ EnableUserMFA(u, ok)

RegenerateAdminMFARecoveryCodes(u, ok) ==
    LET s == FindMfaLocked(u)
    IN  /\ Begin /\ Draw /\ s.enabled
        /\ PersistMfa(u, [s EXCEPT !.codes = {gen + 1}], ok)
        /\ UNCHANGED <<users, resets>>

Disabled(s) == [s EXCEPT !.enabled = FALSE, !.secret = 0, !.pending = 0]

DisableAdminMFA(u, ok) ==
    /\ Begin /\ IsAdminRole(users[u].role)
    /\ PersistMfa(u, Disabled(FindMfaLocked(u)), ok)
    /\ UNCHANGED <<users, resets, gen>>

\* The handlers of these operations; an audit entry follows each of them.
PutProfile(u, ok)          == UpdateUserProfile(u, ok)
PutBuildingScope(u, ok)    == UpdateUserBuildingScope(u, ok)
PostPasswordReset(u)       == RequestPasswordReset(u)
PostPasswordResetConfirm(u, expired, ok) == ConfirmPasswordReset(u, expired, ok)
PostUserMfaSetup(u)        == StartUserMFAEnrollment(u)
PostAdminMfaSetup(u)       == StartAdminMFAEnrollment(u)
PostUserMfaEnable(u, ok)   == EnableUserMFA(u, ok)
PostAdminMfaEnable(u, ok)  == EnableAdminMFA(u, ok)
PostRecoveryCodes(u, ok)   == RegenerateAdminMFARecoveryCodes(u, ok)
PostAdminMfaDisable(u, ok) == DisableAdminMFA(u, ok)

\* Requests served under one lock.
AccountRequest(ok) == \E u \in Users :
    \/ PutProfile(u, ok) \/ PutBuildingScope(u, ok) \/ PostPasswordReset(u)
    \/ \E expired \in BOOLEAN : PostPasswordResetConfirm(u, expired, ok)
    \/ PostUserMfaSetup(u) \/ PostAdminMfaSetup(u)
    \/ PostUserMfaEnable(u, ok) \/ PostAdminMfaEnable(u, ok)
    \/ PostRecoveryCodes(u, ok) \/ PostAdminMfaDisable(u, ok)

\* What a restart leaves: the rows, but SetPersistence writes the demonstration accounts anew.
AccountsRestart ==
    /\ users' = [u \in Users |-> IF u \in demo THEN DemoRow ELSE users[u]]
    /\ resets' = [u \in Users |-> 0]
    /\ mfa' = [u \in Users |-> Zero]
    /\ loaded' = {}
    /\ UNCHANGED <<mfaDb, rows, gen, ops>>
=============================================================================
