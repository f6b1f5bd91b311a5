---------------------------- MODULE AuthPasskeys ----------------------------
(***************************************************************************)
(* WebAuthnEngine (api/internal/modules/auth/webauthn.go): pending         *)
(* challenges, passkeys in memory and in the database, and the tokens that *)
(* say a user passed WebAuthn and still owes an MFA code.  Every operation *)
(* runs under the engine's one mutex.                                      *)
(***************************************************************************)
EXTENDS AuthAccounts

CONSTANT Keys

VARIABLES keyDb,     \* Users -> passkeys in the database
          keyMem,    \* Users -> passkeys in memory, {} when not loaded
          keyLoaded, \* users whose list is in memory
          chal,      \* Users -> ceremonies with a challenge outstanding
          verified   \* Users -> verified-session tokens outstanding

keyVars == <<keyDb, keyMem, keyLoaded, chal, verified>>

KeysInit ==
    /\ keyDb \in [Users -> {{}} \cup {{k} : k \in Keys}]
    /\ \A u \in Users : Exists(u) \/ keyDb[u] = {}
    /\ keyMem = [u \in Users |-> {}]
    /\ keyLoaded = {}
    /\ chal = [u \in Users |-> {}]
    /\ verified = [u \in Users |-> 0]

\* ensureCredentialsLoaded: a failed read, like a user without passkeys,
\* leaves the list unloaded.
Loads(u, read)  == u \in keyLoaded \/ (read /\ keyDb[u] # {})
Passkeys(u, read) == IF u \in keyLoaded THEN keyMem[u] ELSE IF read THEN keyDb[u] ELSE {}

UpsertWebAuthnCredential(u, k) == keyDb' = [keyDb EXCEPT ![u] = @ \cup {k}]
DeleteWebAuthnCredential(u, k) == keyDb' = [keyDb EXCEPT ![u] = @ \ {k}]

SetKeys(u, S, in) == /\ keyMem' = [keyMem EXCEPT ![u] = S]
                     /\ keyLoaded' = IF in THEN keyLoaded \cup {u} ELSE keyLoaded

\* Challenges outlive neither their five minutes nor the process.
ChallengeExpires(u, c) ==
    /\ Begin /\ c \in chal[u]
    /\ chal' = [chal EXCEPT ![u] = @ \ {c}]
    /\ UNCHANGED <<keyDb, keyMem, keyLoaded, verified>>

VerifiedExpires(u) ==
    /\ Begin /\ verified[u] > 0
    /\ verified' = [verified EXCEPT ![u] = @ - 1]
    /\ UNCHANGED <<keyDb, keyMem, keyLoaded, chal>>

BeginRegistration(u, read) ==
    /\ Begin /\ Exists(u)
    /\ SetKeys(u, Passkeys(u, read), Loads(u, read))
    /\ chal' = [chal EXCEPT ![u] = @ \cup {"register"}]
    /\ UNCHANGED <<keyDb, verified>>

\* A passkey whose row cannot be written is taken out of memory again; the
\* list counts as loaded from then on.
FinishRegistration(u, k, read, ok) ==
    /\ Begin /\ "register" \in chal[u] /\ k \notin Passkeys(u, read) \cup keyDb[u]
    /\ chal' = [chal EXCEPT ![u] = @ \ {"register"}]
    /\ SetKeys(u, Passkeys(u, read) \cup (IF ok THEN {k} ELSE {}), TRUE)
    /\ IF ok THEN UpsertWebAuthnCredential(u, k) ELSE UNCHANGED keyDb
    /\ UNCHANGED verified

BeginLogin(u, read) ==
    /\ Begin /\ Exists(u) /\ Passkeys(u, read) # {}
    /\ SetKeys(u, Passkeys(u, read), Loads(u, read))
    /\ chal' = [chal EXCEPT ![u] = @ \cup {"login"}]
    /\ UNCHANGED <<keyDb, verified>>

\* FinishLogin with passkey k: the challenge is consumed whether or not the
\* assertion verifies; the new sign count is written to k's row.
FinishLogin(u, k, read, ok) ==
    /\ "login" \in chal[u]
    /\ chal' = [chal EXCEPT ![u] = @ \ {"login"}]
    /\ SetKeys(u, Passkeys(u, read), Loads(u, read))
    /\ IF k \in Passkeys(u, read) /\ ok THEN UpsertWebAuthnCredential(u, k) ELSE UNCHANGED keyDb
    /\ UNCHANGED verified

DeleteCredential(u, k, read, ok) ==
    /\ Begin /\ k \in Passkeys(u, read)
    /\ IF ok THEN DeleteWebAuthnCredential(u, k) ELSE UNCHANGED keyDb
    /\ SetKeys(u, IF ok THEN Passkeys(u, read) \ {k} ELSE Passkeys(u, read), Loads(u, read))
    /\ UNCHANGED <<chal, verified>>

CreateVerifiedSession(u) == /\ verified' = [verified EXCEPT ![u] = @ + 1]
                            /\ UNCHANGED <<keyDb, keyMem, keyLoaded, chal>>

ConsumeVerifiedSession(u) == /\ verified[u] > 0
                             /\ verified' = [verified EXCEPT ![u] = @ - 1]
                             /\ UNCHANGED <<keyDb, keyMem, keyLoaded, chal>>

\* The handlers; registration needs the organisation's toggle, taken as on.
WebAuthnRegisterBegin(u, read)         == BeginRegistration(u, read)
WebAuthnRegisterFinish(u, k, read, ok) == FinishRegistration(u, k, read, ok)
WebAuthnLoginBegin(u, read)            == BeginLogin(u, read)
WebAuthnDeleteCredential(u, k, read, ok) == DeleteCredential(u, k, read, ok)

PasskeyRequest(read, ok) == \E u \in Users :
    \/ WebAuthnRegisterBegin(u, read) \/ WebAuthnLoginBegin(u, read)
    \/ \E k \in Keys : \/ WebAuthnRegisterFinish(u, k, read, ok)
                       \/ WebAuthnDeleteCredential(u, k, read, ok)

KeysRestart ==
    /\ keyMem' = [u \in Users |-> {}]
    /\ keyLoaded' = {}
    /\ chal' = [u \in Users |-> {}]
    /\ verified' = [u \in Users |-> 0]
    /\ UNCHANGED keyDb
=============================================================================
