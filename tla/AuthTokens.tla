----------------------------- MODULE AuthTokens -----------------------------
(***************************************************************************)
(* Token pairs of the auth service: refresh sessions and revoked access    *)
(* tokens, each in the shared store (Redis, else PostgreSQL) and in the    *)
(* memory of the process.  A pair is one access token and one refresh      *)
(* token issued together.                                                  *)
(***************************************************************************)
EXTENDS AuthPasskeys

CONSTANTS Pairs, Nobody

VARIABLES owner,    \* Pairs -> user it was issued to, Nobody while unused
          sessions, \* refresh sessions in memory
          store,    \* refresh sessions in the store
          revoked,  \* revoked access tokens in memory
          revStore, \* revoked access tokens in the store
          expired,  \* pairs whose access token has expired
          dead      \* pairs whose refresh token has expired

ASSUME NobodyAssumption == Nobody \notin Users

tokenVars == <<owner, sessions, store, revoked, revStore, expired, dead>>

Unused == {p \in Pairs : owner[p] = Nobody}
Of(u)  == {p \in Pairs : owner[p] = u}

\* Sessions of an earlier life of the process may be in the store.
TokensInit ==
    /\ \E S \in {{}} \cup {{p} : p \in Pairs} : \E u \in Users :
          /\ Exists(u) \/ S = {}
          /\ owner = [p \in Pairs |-> IF p \in S THEN u ELSE Nobody]
          /\ store = S
    /\ sessions = {} /\ revoked = {} /\ revStore = {} /\ expired = {} /\ dead = {}

\* cleanupExpiredLocked on the two maps of memory.
CleanRevoked  == revoked \ expired
CleanSessions == sessions \ dead

\* The store's operations on sessions and on revoked access tokens.
UpsertAuthRefreshSession(S, p) == S \cup {p}
DeleteAuthRefreshSession(S, p) == S \ {p}

\* Deletes one by one: a failure leaves any part of the user's sessions.
DeleteAuthRefreshSessionsByUserID(u, ok) ==
    \E S \in SUBSET (store \cap Of(u)) :
        (ok => S = store \cap Of(u)) /\ store' = store \ S

UpsertAuthRevokedAccessToken(p) == revStore' = revStore \cup {p}
IsAuthAccessTokenRevoked(p)     == p \in revStore

\* issueTokenPairLocked: the session is in memory only if the store took it.
IssueTokenPair(u, p, from, ok) ==
    /\ owner' = [owner EXCEPT ![p] = u]
    /\ store' = IF ok THEN UpsertAuthRefreshSession(from.store, p) ELSE from.store
    /\ sessions' = IF ok THEN from.sessions \cup {p} ELSE from.sessions

Now == [store |-> store, sessions |-> CleanSessions]

\* The session leaves the store and stays in memory.
DeleteRefreshSession_BugMemory(p) ==
    [store |-> DeleteAuthRefreshSession(store, p), sessions |-> CleanSessions]

\* deleteRefreshSessionLocked when the store obeys; otherwise nothing happens.
DeleteRefreshSession(p) ==
    [store |-> DeleteAuthRefreshSession(store, p), sessions |-> CleanSessions \ {p}]

\* RevokeSession looks for the session in memory only.
RevokeSession(u, p) ==
    /\ Begin /\ p \in sessions /\ owner[p] = u
    /\ store' = DeleteAuthRefreshSession(store, p) /\ sessions' = sessions \ {p}
    /\ UNCHANGED <<owner, revoked, revStore, expired, dead>>

\* RevokeRefreshTokensByUserEmail: memory is cleared whatever the store
\* answers; a store that fails may have deleted some of the sessions.
RevokeRefreshTokensByUserEmail(u, ok) ==
    /\ Begin /\ Exists(u)
    /\ sessions' = CleanSessions \ Of(u)
    /\ DeleteAuthRefreshSessionsByUserID(u, ok)
    /\ revoked' = CleanRevoked
    /\ UNCHANGED <<owner, revStore, expired, dead>>

\* Logout of a token that parses; when the store fails nothing is revoked
\* and the caller is told so.
Logout(p) ==
    /\ Begin /\ p \notin Unused \cup expired
    /\ UpsertAuthRevokedAccessToken(p)
    /\ revoked' = CleanRevoked \cup {p}
    /\ sessions' = CleanSessions
    /\ UNCHANGED <<owner, store, expired, dead>>

\* An access token reaches its expiry (expiries share the bound on requests); the store drops its revocation.
AccessExpires(p) ==
    /\ Begin /\ p \notin Unused \cup expired
    /\ expired' = expired \cup {p}
    /\ revStore' = revStore \ {p}
    /\ UNCHANGED <<owner, sessions, store, revoked, dead>>

\* A refresh token reaches its expiry; the store drops its session.
RefreshExpires(p) ==
    /\ Begin /\ p \notin Unused \cup dead
    /\ dead' = dead \cup {p}
    /\ store' = store \ {p}
    /\ UNCHANGED <<owner, sessions, revoked, revStore, expired>>

TokensRestart == /\ sessions' = {} /\ revoked' = {}
                 /\ UNCHANGED <<owner, store, revStore, expired, dead>>
=============================================================================
