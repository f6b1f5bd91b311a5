--------------------------- MODULE AccessDirectory --------------------------
(***************************************************************************)
(* The handlers of groups, group links, teams, role assignments, shares    *)
(* and the review of access rights: the reference interface, the older     *)
(* console one and the mobile administration.                              *)
(***************************************************************************)
EXTENDS AccessState

\* The ids a request may name: the rows there are, and the one NewService had.
Known(t) == DOMAIN mem[t] \cup DOMAIN NewService[t]
Team == "Team"
User == "User"
Guest == "Guest"
Place == 0        \* a right that applies to a place, not to a group

(* -------------------------------- groups ------------------------------- *)

createUserGroup == \E ms \in SUBSET Known("users") :
    Request(CreateUserGroup(mem, next, ms), FALSE, Names(hist, ms))

updateUserGroup == \E g \in DOMAIN mem.groups, ms \in SUBSET Known("users") :
    Request(UpdateUserGroup(mem, g, ms), FALSE, Names(hist, ms))

deleteReferenceGroupZone == \E g \in DOMAIN mem.groups : Request(DeleteUserGroup(mem, g), TRUE, hist)

deleteReferenceGroup == \E g \in DOMAIN mem.groups : Request(DeleteUserGroup(mem, g), TRUE, hist)

appAdminCreateGroup == Request(CreateUserGroup(mem, next, {}), FALSE, hist)

appAdminDeleteGroup == \E g \in DOMAIN mem.groups : Request(DeleteUserGroup(mem, g), TRUE, hist)

\* The restrictions of a request that has some are a second locked step after a saved first.
Then(restrict, id) ==
    pending' = IF restrict /\ stored' # stored THEN [op |-> "restrict", id |-> id] ELSE Idle

createReferenceGroup == \E ms \in SUBSET Known("users"), restrict \in BOOLEAN :
    /\ pending = Idle
    /\ Save(CreateUserGroup(mem, next, ms), FALSE, Names(hist, ms), 1)
    /\ Then(restrict, next)
    /\ UNCHANGED <<family, creds>>

RestrictGroup ==
    /\ pending.op = "restrict"
    /\ Finish(pending.id \in DOMAIN mem.groups, UpdateUserGroupRestrictions(mem, pending.id), FALSE, hist)

\* The members a handler will write over those of group g.
NewMembers(g, ms) == [op |-> "group", id |-> g, members |-> ms]

\* A request without members writes back those it read.
updateReferenceGroup == \E g \in DOMAIN mem.groups, ms \in SUBSET Known("users") :
    Begin(NewMembers(g, IF ms = {} THEN mem.groups[g].members ELSE ms), {})

appAdminUpdateGroup == \E g \in DOMAIN mem.groups : Begin(NewMembers(g, mem.groups[g].members), {})

appAdminAddGroupMember == \E g \in DOMAIN mem.groups, e \in Emails :
    /\ FindUserByEmail(mem, e) # {}
    /\ Begin(NewMembers(g, mem.groups[g].members \cup {X!Max(FindUserByEmail(mem, e))}), {})

appAdminRemoveGroupMember == \E g \in DOMAIN mem.groups : \E u \in mem.groups[g].members :
    Begin(NewMembers(g, mem.groups[g].members \ {u}), {})

WriteGroup ==
    /\ pending.op = "group"
    /\ Finish(pending.id \in DOMAIN mem.groups, UpdateUserGroup(mem, pending.id, pending.members), FALSE,
              Names(hist, pending.members))

(* ------------------------------ group links ---------------------------- *)

createReferenceGroupLink == \E g \in DOMAIN mem.groups, on \in BOOLEAN :
    Request(CreateGroupLink(mem, next, g, on), FALSE, hist)

\* A link whose group is gone is not found by the handlers.
Reachable == {l \in DOMAIN mem.links : mem.links[l].group \in DOMAIN mem.groups}

updateReferenceGroupLink == \E l \in Reachable, g \in DOMAIN mem.groups, on \in BOOLEAN :
    Request(UpdateGroupLink(mem, l, g, on), TRUE, hist)

deleteReferenceGroupLink == \E l \in Reachable : Request(DeleteGroupLink(mem, l), TRUE, hist)

verifyReferenceGroupLinkToken == \E l \in DOMAIN mem.links :
    /\ mem.links[l].on
    /\ Request(VerifyGroupLinkToken(mem, l), TRUE, hist)

(* --------------------------------- teams ------------------------------- *)

createReferenceTeam == Request(CreateTeam(mem, next), FALSE, hist)

updateReferenceTeam == \E t \in DOMAIN mem.teams : Request(UpdateTeam(mem, t), FALSE, hist)

deleteReferenceTeam == \E t \in DOMAIN mem.teams : Request(DeleteTeam(mem, t), TRUE, hist)

\* The type of an assignee or member, and the table that holds its row.
Holders == [User |-> "users", Team |-> "teams", Guest |-> "guests"]

createReferenceTeamMembership == \E t \in DOMAIN mem.teams, kind \in {User, Guest} : \E who \in Known(Holders[kind]) :
    Request(CreateTeamMembership(mem, next, t, kind, who), FALSE, Names(hist, {who}))

deleteReferenceTeamMembership == \E m \in DOMAIN mem.members :
    Request(DeleteTeamMembership(mem, m), TRUE, hist)

\* The user is found by address first; the membership is written in a later step.
appAdminAddTeamMember == \E t \in DOMAIN mem.teams, e \in Emails :
    /\ FindUserByEmail(mem, e) # {}
    /\ Begin([op |-> "member", team |-> t, who |-> X!Max(FindUserByEmail(mem, e))], {})

WriteMember ==
    /\ pending.op = "member"
    /\ Finish(pending.team \in DOMAIN mem.teams, CreateTeamMembership(mem, next, pending.team, User, pending.who),
              FALSE, Names(hist, {pending.who}))

appAdminRemoveTeamMember == \E m \in DOMAIN mem.members :
    /\ DOMAIN mem.teams # {}
    /\ Request(DeleteTeamMembership(mem, m), TRUE, hist)

(* ---------------------------- role assignments ------------------------- *)

Scopes == Known("groups") \cup {Place}

\* Neither the assignee nor the group of a right is looked up.
createReferenceRoleAssignment == \E kind \in DOMAIN Holders : \E who \in Known(Holders[kind]), to \in Scopes :
        Request(CreateRoleAssignment(mem, next, kind, who, to), FALSE, Names(hist, {who, to}))

updateReferenceRoleAssignment == \E r \in DOMAIN mem.rights, kind \in DOMAIN Holders :
    \E who \in Known(Holders[kind]), to \in Scopes :
        Request(UpdateRoleAssignment(mem, r, kind, who, to), FALSE, Names(hist, {who, to}))

deleteReferenceRoleAssignment == \E r \in DOMAIN mem.rights :
    Request(DeleteRoleAssignment(mem, r), TRUE, hist)

appAdminRemoveTeamAccessRight == \E r \in DOMAIN mem.rights :
    Request(DeleteRoleAssignment(mem, r), TRUE, hist)

\* The team is looked up, and may be gone when the right is written.
appAdminAssignTeamAccessRight == \E t \in DOMAIN mem.teams, to \in Scopes :
    Begin([op |-> "teamRight", team |-> t, to |-> to], {})

WriteTeamRight ==
    /\ pending.op = "teamRight"
    /\ Finish(TRUE, CreateRoleAssignment(mem, next, Team, pending.team, pending.to), FALSE,
              Names(hist, {pending.team, pending.to}))

(* --------------------------- shares and reviews ------------------------ *)

createReferenceShare == Request(CreateTemporaryAccessWithInput(mem, next), FALSE, hist)

createTemporaryAccess == Request(CreateTemporaryAccessWithInput(mem, next), FALSE, hist)

\* One share for each door, each saved on its own; the first failure ends the request.
appAdminShareAccess == \E doors \in 1..2 :
    /\ pending = Idle /\ DOMAIN mem.users # {}
    /\ Save(CreateTemporaryAccessWithInput(mem, next), FALSE, hist, 1)
    /\ pending' = IF doors = 2 /\ stored' # stored THEN [op |-> "door"] ELSE Idle
    /\ UNCHANGED <<family, creds>>

ShareNextDoor ==
    /\ pending.op = "door"
    /\ Finish(TRUE, CreateTemporaryAccessWithInput(mem, next), FALSE, hist)

\* The review of a share is read with it and written back with it.
updateReferenceShare == \E s \in DOMAIN mem.shares :
    Begin([op |-> "share", id |-> s, reviewed |-> mem.shares[s].reviewed], {})

WriteShare ==
    /\ pending.op = "share"
    /\ Finish(pending.id \in DOMAIN mem.shares, UpdateTemporaryAccess(mem, pending.id, pending.reviewed), FALSE, hist)

deleteReferenceShare == \E s \in DOMAIN mem.shares : Request(DeleteTemporaryAccess(mem, s), TRUE, hist)

reviewReferenceAccessRights == \E R \in SUBSET DOMAIN mem.rights, S \in SUBSET DOMAIN mem.shares :
    /\ R \cup S # {}
    /\ Request(ReviewAccessRights(mem, R, S), TRUE, hist)

\* Each selected right or share is read and then written back with a new end; a selection of one.
updateReferenceAccessRightsSchedule ==
    \/ \E s \in DOMAIN mem.shares :
           Begin([op |-> "share", id |-> s, reviewed |-> mem.shares[s].reviewed], {})
    \/ \E r \in DOMAIN mem.rights : Begin([op |-> "right", id |-> r, row |-> mem.rights[r]], {})

WriteRight ==
    /\ pending.op = "right"
    /\ LET row == pending.row
       IN  Finish(pending.id \in DOMAIN mem.rights,
                  UpdateRoleAssignment(mem, pending.id, row.kind, row.who, row.to), FALSE,
                  Names(hist, {row.who, row.to}))

Groups ==
    \/ createUserGroup \/ updateUserGroup \/ deleteReferenceGroupZone \/ deleteReferenceGroup
    \/ appAdminCreateGroup \/ appAdminDeleteGroup \/ createReferenceGroup \/ RestrictGroup
    \/ updateReferenceGroup \/ appAdminUpdateGroup \/ appAdminAddGroupMember \/ appAdminRemoveGroupMember
    \/ WriteGroup \/ createReferenceGroupLink \/ updateReferenceGroupLink \/ deleteReferenceGroupLink
    \/ verifyReferenceGroupLinkToken

Rights ==
    \/ createReferenceTeam \/ updateReferenceTeam \/ deleteReferenceTeam \/ createReferenceTeamMembership
    \/ deleteReferenceTeamMembership \/ appAdminAddTeamMember \/ WriteMember \/ appAdminRemoveTeamMember
    \/ createReferenceRoleAssignment \/ updateReferenceRoleAssignment \/ deleteReferenceRoleAssignment
    \/ appAdminRemoveTeamAccessRight \/ appAdminAssignTeamAccessRight \/ WriteTeamRight \/ deleteReferenceGroup
    \/ reviewReferenceAccessRights \/ updateReferenceAccessRightsSchedule \/ WriteRight \/ WriteShare

Shares ==
    \/ createReferenceShare \/ createTemporaryAccess \/ appAdminShareAccess \/ ShareNextDoor
    \/ updateReferenceShare \/ WriteShare \/ deleteReferenceShare \/ reviewReferenceAccessRights
=============================================================================
