---------------------------- MODULE Credentials ----------------------------
(***************************************************************************)
(* Mobile credentials in the cloud                                         *)
(* (api/internal/modules/credential/service.go).  Every operation runs     *)
(* under Service.mu and ends in persistLocked, which only logs when the    *)
(* store refuses the snapshot: memory is then ahead of the store until the *)
(* next successful save.  A restart loads the last snapshot saved.         *)
(* A credential's own lifetime (14 to 90 days) is abstracted to whether it *)
(* has run out.                                                            *)
(***************************************************************************)
EXTENDS Integers, FiniteSets

CONSTANTS
    Creds,      \* credential IDs, each registered at most once
    UserOf,     \* credential -> user
    DeviceOf    \* credential -> that user's device

ASSUME CredentialsAssumption ==
    /\ IsFiniteSet(Creds)
    /\ DOMAIN UserOf = Creds /\ DOMAIN DeviceOf = Creds

VARIABLES
    status,     \* MobileCredential.Status, "none" before it is registered
    lapsed,     \* ~ExpiresAt.After(now)
    stored      \* the snapshot in the state store

credVars == <<status, lapsed, stored>>

Statuses == {"none", "active", "suspended", "revoked"}
Users == {UserOf[c] : c \in Creds}

CredInit ==
    /\ status = [c \in Creds |-> "none"]
    /\ lapsed = [c \in Creds |-> FALSE]
    /\ stored = [status |-> status, lapsed |-> lapsed]

\* persistLocked: the save succeeds, or fails and is only logged.
Persist == stored' \in {[status |-> status', lapsed |-> lapsed'], stored}

\* ListActiveCredentials.
ActiveCredentials == {c \in Creds : status[c] = "active" /\ ~lapsed[c]}

\* Re-registration revokes the ACTIVE credential of the same user and device.
RegisterDevice(c) ==
    /\ status[c] = "none"
    /\ LET replaced == {d \in Creds : /\ UserOf[d] = UserOf[c] /\ DeviceOf[d] = DeviceOf[c]
                                      /\ status[d] = "active"}
       IN  status' = [d \in Creds |-> IF d = c THEN "active"
                                      ELSE IF d \in replaced THEN "revoked" ELSE status[d]]
    /\ lapsed' = [lapsed EXCEPT ![c] = FALSE]
    /\ Persist

RevokeCredential(c) ==
    /\ status[c] \in {"active", "suspended"}
    /\ status' = [status EXCEPT ![c] = "revoked"]
    /\ UNCHANGED lapsed
    /\ Persist

SuspendCredential(c) ==
    /\ status[c] = "active"
    /\ status' = [status EXCEPT ![c] = "suspended"]
    /\ UNCHANGED lapsed
    /\ Persist

\* Mutant: any credential that is not active is activated.
ActivateCredential_AnyStatus(c) ==
    /\ status[c] \in {"suspended", "revoked"}
    /\ status' = [status EXCEPT ![c] = "active"]
    /\ UNCHANGED lapsed
    /\ Persist

ActivateCredential(c) ==
    /\ status[c] = "suspended"
    /\ status' = [status EXCEPT ![c] = "active"]
    /\ UNCHANGED lapsed
    /\ Persist

ActiveOf(u) == {c \in Creds : UserOf[c] = u /\ status[c] = "active"}

RevokeAllUserCredentials(u) ==
    /\ ActiveOf(u) # {}
    /\ status' = [c \in Creds |-> IF c \in ActiveOf(u) THEN "revoked" ELSE status[c]]
    /\ UNCHANGED lapsed
    /\ Persist

\* RefreshCredential extends ExpiresAt, of a lapsed credential too.
RefreshCredential(c) ==
    /\ status[c] = "active"
    /\ lapsed' = [lapsed EXCEPT ![c] = FALSE]
    /\ UNCHANGED status
    /\ Persist

\* Time passes ExpiresAt.  Nothing is written: it is a date, and the one in
\* the snapshot is never later than the one in memory.
Lapse(c) ==
    /\ status[c] # "none" /\ ~lapsed[c]
    /\ lapsed' = [lapsed EXCEPT ![c] = TRUE]
    /\ stored' = [stored EXCEPT !.lapsed[c] = TRUE]
    /\ UNCHANGED status

\* restoreFromStateStore.
CloudRestart ==
    /\ status' = stored.status
    /\ lapsed' = stored.lapsed
    /\ UNCHANGED stored

\* Any of the operations above: what a handler of the service may do.
CredOperation ==
    \/ \E c \in Creds : \/ RegisterDevice(c) \/ RevokeCredential(c) \/ SuspendCredential(c)
                        \/ ActivateCredential(c) \/ RefreshCredential(c) \/ Lapse(c)
    \/ \E u \in Users : RevokeAllUserCredentials(u)
    \/ CloudRestart

\* The part of the type invariant that is about the service and its snapshot.
CredTypeOK ==
    /\ status \in [Creds -> Statuses] /\ lapsed \in [Creds -> BOOLEAN]
    /\ stored \in [status : [Creds -> Statuses], lapsed : [Creds -> BOOLEAN]]
=============================================================================
