---------------------------- MODULE AccessPeople ----------------------------
(***************************************************************************)
(* The handlers that create, change, invite, suspend and sign off users:   *)
(* the console, the mobile administration, SCIM, Lark, Google Workspace    *)
(* and the directory synchronisation.                                      *)
(***************************************************************************)
EXTENDS AccessState

Groupings == {{}, {2}}

(* ------------------- requests of one locked step ----------------------- *)

createUser == \E e \in Emails, st \in {"active", "suspended"}, gs \in Groupings :
    Request(CreateUser(mem, next, e, st, gs), FALSE, Asks(Names(hist, gs), {next}, st))

appAdminAddUser == \E e \in Emails :
    Request(CreateUser(mem, next, e, "active", {}), FALSE, hist)

deleteUser == \E u \in DOMAIN mem.users : Request(DeleteUser(mem, u), TRUE, hist)

appAdminRemoveUser == \E u \in DOMAIN mem.users : Request(DeleteUser(mem, u), TRUE, hist)

deleteReferenceMember == \E u \in DOMAIN mem.users : Request(DeleteUser(mem, u), TRUE, hist)

deleteCurrentUser == \E u \in DOMAIN mem.users : Request(DeleteUser(mem, u), TRUE, hist)

\* Nothing is saved when no user of the batch is there or changes.
batchUpdateUserStatus == \E U \in SUBSET DOMAIN mem.users, st \in Statuses :
    /\ Changed(mem, U, st) # {}
    /\ Request(BatchUpdateUserStatus(mem, U, st), FALSE, Asks(hist, U, st))

batchDeleteUsers == \E U \in SUBSET DOMAIN mem.users :
    /\ U # {}
    /\ Request(BatchDeleteUsers(mem, U), FALSE, hist)

\* One record of the file; a record without a status states "active".
importUsersCSV == \E e \in Emails, st \in {"active", "suspended"} :
    LET found == FindUserByEmail(mem, e)
        u == IF found = {} THEN next ELSE X!Max(found)
    IN  Request(UpsertUserByEmail(mem, next, e, st), FALSE, Asks(hist, {u}, st))

\* applyEmployees of the directory synchronisation and of the HRIS events: a batch.
Items == [email : Emails, st : {"active", "suspended"}, ref : Refs \cup {NoRef}]

upsertEmployees == \E n \in 1..MaxBatch : \E items \in [1..n -> Items] :
    LET b == UpsertUsersByEmail(mem, next, items)
        U == b.hit \cup DOMAIN b.made
        all == Over(b.made, b.users)
    IN  /\ U # {}
        /\ Request([mem EXCEPT !.users = all], TRUE,
                   [hist EXCEPT !.susp = (@ \ U) \cup {u \in DOMAIN all : u \in U /\ all[u].st = "suspended"}])

(* ------------------------------ invitations ---------------------------- *)

\* inviteUser: the delivery is queued, then handed to the mail provider.
inviteUser == \E u \in DOMAIN mem.users :
    /\ pending = Idle
    /\ Save(CreateUserInvitationDelivery(mem, next, u), FALSE, hist, 1)
    /\ pending' = IF stored' = stored THEN Idle ELSE [op |-> "dispatch", id |-> next]
    /\ UNCHANGED <<family, creds>>

resendInvitation == \E i \in DOMAIN mem.invites :
    /\ pending = Idle /\ mem.invites[i].user \in DOMAIN mem.users
    /\ Save(ResendInvitationDelivery(mem, next, i), FALSE, hist, 1)
    /\ pending' = IF stored' = stored THEN Idle ELSE [op |-> "dispatch", id |-> next]
    /\ UNCHANGED <<family, creds>>

\* The provider's answer is recorded, whatever became of the delivery meanwhile.
dispatchUserInvitationEmail == \E st \in {"sent", "failed"} :
    /\ pending.op = "dispatch"
    /\ Finish(pending.id \in DOMAIN mem.invites, RecordUserInvitationReceipt(mem, pending.id, st), FALSE, hist)

recordUserInvitationReceipt == \E i \in DOMAIN mem.invites, st \in {"queued", "sent", "failed"} :
    /\ mem.invites[i].user \in DOMAIN mem.users
    /\ Request(RecordUserInvitationReceipt(mem, i, st), FALSE, hist)

receiveUserInvitationProviderReceipt == \E i \in DOMAIN mem.invites, st \in {"queued", "sent", "failed"} :
    /\ mem.invites[i].user \in DOMAIN mem.users
    /\ Request(RecordUserInvitationReceipt(mem, i, st), FALSE, hist)

cancelInvitation == \E i \in DOMAIN mem.invites :
    /\ mem.invites[i].st \notin {"sent", "cancelled"}
    /\ Request(CancelInvitationDelivery(mem, i), FALSE, hist)

\* batchInviteUsers: the users are read once, suspended ones are skipped, and each of the
\* others gets a delivery in a locked step of its own; a failed one is skipped.
batchInviteUsers == \E U \in SUBSET DOMAIN mem.users :
    LET todo == {u \in U : mem.users[u].st # "suspended"}
    IN  todo # {} /\ Begin([op |-> "batchInvite", todo |-> todo], {})

BatchInviteUsers ==
    /\ pending.op = "batchInvite"
    /\ LET u == X!Max(pending.todo)
           rest == IF Cardinality(pending.todo) = 1 THEN Idle ELSE [pending EXCEPT !.todo = @ \ {u}]
       IN  IF u \in DOMAIN mem.users
           THEN GoOn(CreateUserInvitationDelivery(mem, next, u), FALSE, hist, rest)
           ELSE pending' = rest /\ UNCHANGED <<family, mem, stored, creds, next, hist, budget>>

(* ---------------- requests that read, merge and write ------------------ *)

Row(u) == mem.users[u]

\* The record a handler will write over user u: ask says that the request states the status,
\* off that the credentials were revoked with it, seen is the status it read.
Merged(u, e, st, gs, ask, off) ==
    [op |-> "write", id |-> u, email |-> e, st |-> st, groups |-> gs, ask |-> ask, off |-> off, seen |-> Row(u).st]

updateUser == \E u \in DOMAIN mem.users, e \in Emails, gs \in Groupings : \E st \in Statuses, ask \in BOOLEAN :
    /\ ask \/ st = Row(u).st
    /\ Begin(Merged(u, e, st, gs, ask, FALSE), {})

updateReferenceMember == \E u \in DOMAIN mem.users, e \in Emails, st \in Statuses, ask \in BOOLEAN :
    /\ ask \/ st = Row(u).st
    /\ Begin(Merged(u, e, st, Row(u).groups, ask, FALSE), {})

\* A slip: the role is written with the status a new user gets.
appAdminUpdateUserRole_Bug == \E u \in DOMAIN mem.users :
    Begin(Merged(u, Row(u).email, "active", Row(u).groups, FALSE, FALSE), {})

appAdminUpdateUserRole == \E u \in DOMAIN mem.users :
    Begin(Merged(u, Row(u).email, Row(u).st, Row(u).groups, FALSE, FALSE), {})

\* What SCIM's active flag makes of the status it read.
Activity(st, active) ==
    IF active /\ st = "suspended" THEN "active" ELSE IF ~active /\ st = "active" THEN "suspended" ELSE st

\* A slip: the credentials are left when the user is deactivated.
scimReplaceUser_Bug == \E u \in DOMAIN mem.users, e \in Emails, active \in BOOLEAN :
    LET st == Activity(Row(u).st, active)
    IN  Begin(Merged(u, e, st, Row(u).groups, st # Row(u).st, ~active /\ st # Row(u).st), {})

scimReplaceUser == \E u \in DOMAIN mem.users, e \in Emails, active \in BOOLEAN :
    LET st == Activity(Row(u).st, active)
        off == ~active /\ st # Row(u).st
    IN  Begin(Merged(u, e, st, Row(u).groups, st # Row(u).st, off), IF off THEN {u} ELSE {})

\* A replace operation with a path states active; one without a path is first read as
\* active = FALSE, the value being an object, and then by the object's own flag, if it has one.
scimPatchUser == \E u \in DOMAIN mem.users, flags \in {<<TRUE>>, <<FALSE>>, <<FALSE, TRUE>>, <<FALSE, FALSE>>} :
    LET first == Activity(Row(u).st, flags[1])
        st == IF Len(flags) = 1 THEN first ELSE Activity(first, flags[2])
        off == ~flags[1] /\ Row(u).st = "active"
    IN  Begin(Merged(u, Row(u).email, st, Row(u).groups, st # Row(u).st, off /\ st = "suspended"),
              IF off THEN {u} ELSE {})

scimDeleteUser == \E u \in DOMAIN mem.users :
    Begin(Merged(u, Row(u).email, "suspended", Row(u).groups, TRUE, TRUE), {u})

handleLarkUserDeleted == \E e \in Emails :
    /\ FindUserByEmail(mem, e) # {}
    /\ LET u == X!Max(FindUserByEmail(mem, e))
       IN  Begin(Merged(u, e, "suspended", Row(u).groups, TRUE, TRUE), {u})

\* Resigned or frozen signs off, activated lifts a suspension; without a change nothing is written.
handleLarkUserUpdated == \E e \in Emails, gone \in BOOLEAN, activated \in BOOLEAN, renamed \in BOOLEAN :
    /\ FindUserByEmail(mem, e) # {}
    /\ LET u == X!Max(FindUserByEmail(mem, e))
           st == IF gone THEN "suspended"
                 ELSE IF activated /\ Row(u).st = "suspended" THEN "active" ELSE Row(u).st
       IN  /\ renamed \/ st # Row(u).st
           /\ Begin(Merged(u, e, st, Row(u).groups, st # Row(u).st, gone), IF gone THEN {u} ELSE {})

\* UpdateUser under the lock, with the record merged from the read.
WriteUser ==
    /\ pending.op = "write"
    /\ LET u == pending.id
           here == u \in DOMAIN mem.users
           h == Names(IF pending.ask THEN Asks(hist, {u}, pending.st)
                      ELSE IF here /\ Row(u).st # pending.seen THEN Asks(hist, {u}, pending.seen)
                      ELSE hist, pending.groups)
       IN  Finish(here, UpdateUser(mem, u, pending.email, pending.st, pending.groups), FALSE,
                  [h EXCEPT !.off = IF pending.off THEN @ \cup ({u} \ hist.reg) ELSE @])

(* ------------------- requests that look before they create ------------- *)

\* A request with an external id writes the created record a second time.
scimCreateUser == \E e \in Emails, st \in {"active", "suspended"}, external \in BOOLEAN :
    /\ FindUserByEmail(mem, e) = {}
    /\ Begin([op |-> "create", email |-> e, st |-> st, again |-> external], {})

handleLarkUserCreated == \E e \in Emails :
    /\ FindUserByEmail(mem, e) = {}
    /\ Begin([op |-> "create", email |-> e, st |-> "active", again |-> FALSE], {})

\* The lookup and CreateUser are two locked steps: a second user may get the address.
CreateAfterLookup ==
    /\ pending.op = "create"
    /\ Save(CreateUser(mem, next, pending.email, pending.st, {}), FALSE, Asks(hist, {next}, pending.st), 0)
    /\ pending' = IF ~pending.again \/ stored' = stored THEN Idle
                  ELSE [op |-> "write", id |-> next, email |-> pending.email, st |-> pending.st, groups |-> {},
                        ask |-> FALSE, off |-> FALSE, seen |-> pending.st]
    /\ UNCHANGED <<family, creds>>

\* The synchronisation lists the users once: the map keeps the oldest row of an address.
ComputeGWSyncActions(e, inDirectory) ==
    LET found == FindUserByEmail(mem, e)
    IN  IF found = {} /\ inDirectory THEN [op |-> "create", email |-> e, st |-> "active", again |-> FALSE]
        ELSE IF found # {} /\ ~inDirectory THEN [op |-> "signOff", id |-> X!Min(found), email |-> e]
        ELSE Idle

googleWorkspaceSyncUsers == \E e \in Emails, inDirectory \in BOOLEAN :
    LET p == ComputeGWSyncActions(e, inDirectory) IN p # Idle /\ Begin(p, {})

\* The listed user is revoked and gets the fields of the newest one with the address.
GoogleSignOff ==
    /\ pending.op = "signOff"
    /\ LET found == FindUserByEmail(mem, pending.email)
           v == X!Max(found)
       IN  pending' = IF found = {} THEN Idle
                      ELSE [op |-> "write", id |-> pending.id, email |-> pending.email, st |-> "suspended",
                            groups |-> Row(v).groups, ask |-> TRUE, off |-> TRUE, seen |-> Row(v).st]
    /\ RevokeAllUserCredentials({pending.id}, [hist EXCEPT !.reg = {}], 0)
    /\ UNCHANGED <<family, mem, stored, next>>

(* ------------------------- mobile credentials -------------------------- *)

CredentialRequest(c, h) == PersistCredentials(c, h, 1) /\ UNCHANGED <<family, mem, stored, pending, next>>

Puts(u) == [hist EXCEPT !.off = @ \ {u}, !.reg = @ \cup {u}]

\* Registration asks for a session, not for the user's status; activation for no user at all.
appRegisterMobileCredential == \E u \in DOMAIN mem.users :
    CredentialRequest(RegisterDevice(creds.held, u), Puts(u))

\* The user the body names is not looked up.
appAdminCreateCredential == \E u \in DOMAIN mem.users \cup hist.gone :
    CredentialRequest(RegisterDevice(creds.held, u), Puts(u))

appAdminActivateCredential == \E u \in creds.held.suspended :
    CredentialRequest(ActivateCredential(creds.held, u), Puts(u))

appAdminSuspendCredential == \E u \in creds.held.active :
    CredentialRequest(SuspendCredential(creds.held, u), hist)

\* A refresh changes the end of an active credential only, and saves them all.
appRefreshMobileCredential == \E u \in creds.held.active : CredentialRequest(creds.held, hist)

\* One credential, active or suspended.
RevokeOne ==
    \/ \E u \in creds.held.active : CredentialRequest(RevokeCredential(creds.held, {u}, {}), hist)
    \/ \E u \in creds.held.suspended : CredentialRequest(RevokeCredential(creds.held, {}, {u}), hist)

appRevokeMobileCredential == RevokeOne

adminRevokeMobileCredential == RevokeOne

appAdminRevokeCredential == RevokeOne

adminRevokeAllUserCredentials == \E u \in DOMAIN mem.users :
    RevokeAllUserCredentials({u}, hist, 1) /\ UNCHANGED <<family, mem, stored, pending, next>>

MobileCredentials ==
    \/ appRegisterMobileCredential \/ appAdminActivateCredential \/ appAdminSuspendCredential
    \/ appRevokeMobileCredential \/ adminRevokeMobileCredential \/ appAdminRevokeCredential
    \/ adminRevokeAllUserCredentials \/ appRefreshMobileCredential \/ appAdminCreateCredential

Accounts ==
    \/ createUser \/ appAdminAddUser \/ deleteUser \/ appAdminRemoveUser \/ deleteReferenceMember
    \/ deleteCurrentUser \/ batchUpdateUserStatus \/ batchDeleteUsers \/ importUsersCSV
    \/ updateUser \/ updateReferenceMember \/ appAdminUpdateUserRole \/ WriteUser

Batches == upsertEmployees \/ deleteUser \/ importUsersCSV

DirectorySync ==
    \/ scimReplaceUser \/ scimPatchUser \/ scimDeleteUser \/ handleLarkUserDeleted
    \/ handleLarkUserUpdated \/ WriteUser \/ scimCreateUser \/ handleLarkUserCreated \/ CreateAfterLookup
    \/ googleWorkspaceSyncUsers \/ GoogleSignOff \/ deleteUser \/ appAdminUpdateUserRole
    \/ MobileCredentials

Invitations ==
    \/ inviteUser \/ resendInvitation \/ dispatchUserInvitationEmail \/ recordUserInvitationReceipt
    \/ receiveUserInvitationProviderReceipt \/ cancelInvitation \/ batchInviteUsers \/ BatchInviteUsers
    \/ deleteUser \/ appAdminAddUser
=============================================================================
