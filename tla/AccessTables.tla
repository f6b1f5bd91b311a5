---------------------------- MODULE AccessTables ----------------------------
(***************************************************************************)
(* The tables of the access service (modules/access) and what each service *)
(* method makes of them; those of the space service, which SpaceTopology   *)
(* writes, are named with them.  A table maps the ids of its rows to the rows; an *)
(* id is a number, the larger one is the newer row (rows are prepended).   *)
(* One tenant; names, texts and instants that no property tells apart are  *)
(* left out.  A method that finds nothing to change is not an operator:    *)
(* the actions that call it carry the guard.                               *)
(***************************************************************************)
EXTENDS Integers, Sequences, FiniteSets
F == INSTANCE Functions
X == INSTANCE FiniteSetsExt

CONSTANTS Emails,   \* the e-mail addresses
          Refs      \* the identities of the directory being synchronised

SpaceTables == {"buildings", "floors", "areas", "doors", "doorGroups"}   \* saved together, none kept when stored empty
Tables == {"users", "invites", "groups", "policies", "shares", "passes", "guests",
           "rights", "teams", "members", "links", "spaces", "bookings", "clients",
           "codes", "org", "schedules", "calendars", "elevators", "stops", "groupStops",
           "terminals", "imports"} \cup SpaceTables
Volatile == {"codes", "org", "schedules", "calendars", "elevators", "stops", "groupStops",
             "terminals", "imports"}   \* kept in memory only
Statuses == {"active", "inactive", "suspended"}
None == <<>>
NoRef == 0

Ids(d) == UNION {DOMAIN d[t] : t \in Tables}
One(id, row) == [i \in {id} |-> row]
Over(f, g) == [i \in DOMAIN f \cup DOMAIN g |-> IF i \in DOMAIN f THEN f[i] ELSE g[i]]
Put(d, t, id, row) == [d EXCEPT ![t] = Over(One(id, row), @)]
Drop(d, t, S) == [d EXCEPT ![t] = F!Restrict(@, DOMAIN @ \ S)]
Rows(d, t, P(_)) == {i \in DOMAIN d[t] : P(d[t][i])}

(* ------------------------- service.go, restart ------------------------- *)

\* The demonstration rows of the space service: two buildings, one with a door.
NewSpaceService ==
    [t \in SpaceTables |->
        CASE t = "buildings"  -> [b \in {11, 12} |-> "active"]
          [] t = "floors"     -> [f \in {13, 14} |-> [b |-> IF f = 13 THEN 11 ELSE 12]]
          [] t = "areas"      -> One(15, [b |-> 11, f |-> 13])
          [] t = "doors"      -> One(16, [b |-> 11, f |-> 13, a |-> 15])
          [] t = "doorGroups" -> One(17, {16})]

\* NewService: the demonstration rows a service without a state starts with, one or two for the
\* several of a table.
NewService ==
    [t \in Tables |->
        CASE t = "users"    -> One(1, [st |-> "active", email |-> CHOOSE e \in Emails : TRUE, ref |-> NoRef, groups |-> {2}])
          [] t = "groups"   -> One(2, [members |-> {1}])
          [] t = "rights"   -> One(3, [kind |-> "User", who |-> 1, to |-> 2, reviewed |-> FALSE])
          [] t = "teams"    -> One(4, "team")
          [] t = "members"  -> One(5, [team |-> 4, kind |-> "User", who |-> 1])
          [] t = "links"    -> One(6, [group |-> 2, on |-> TRUE])
          [] t = "shares"   -> One(7, [reviewed |-> FALSE])
          [] t = "policies" -> One(8, "active")
          [] t = "schedules" -> [s \in {18, 19} |-> [calendar |-> 0]]
          [] t \in SpaceTables -> NewSpaceService[t]
          [] OTHER          -> None]

\* persistLocked: the snapshot names every table but the ones kept in memory only.
persistLocked(d) == [t \in Tables |-> IF t \in Volatile THEN None ELSE d[t]]

\* restoreFromStateStore: a table stored empty leaves the rows of NewService in place ...
KeptWhenEmpty == {"rights", "teams", "members", "links", "spaces", "bookings", "clients"}

\* ... and a plausible slip: every table is treated that way.
restoreFromStateStore_Bug(st) ==
    [t \in Tables |-> IF DOMAIN st[t] = {} THEN NewService[t] ELSE st[t]]

restoreFromStateStore(st) ==
    [t \in Tables |-> IF t \in KeptWhenEmpty \cup Volatile /\ DOMAIN st[t] = {} THEN NewService[t] ELSE st[t]]

(* --------------------------- service_users.go -------------------------- *)

FindUserByEmail(d, e) == Rows(d, "users", LAMBDA u : u.email = e)

CreateUser(d, id, e, st, gs) == Put(d, "users", id, [st |-> st, email |-> e, ref |-> NoRef, groups |-> gs])

UpdateUser(d, u, e, st, gs) ==
    [d EXCEPT !.users[u] = [st |-> st, email |-> e, ref |-> @.ref, groups |-> gs]]

\* What DeleteUser and BatchDeleteUsers remove with the users U.
RemoveUsers(d, U) ==
    LET rights == Rows(d, "rights", LAMBDA r : r.kind = "User" /\ r.who \in U)
        members == Rows(d, "members", LAMBDA m : m.kind = "User" /\ m.who \in U)
    IN  [Drop(Drop(Drop(d, "users", U), "rights", rights), "members", members)
            EXCEPT !.groups = [g \in DOMAIN @ |-> [members |-> @[g].members \ U]]]

\* A slip: the memberships of the user's teams are forgotten.
DeleteUser_Bug(d, u) ==
    [Drop(Drop(d, "users", {u}), "rights", Rows(d, "rights", LAMBDA r : r.kind = "User" /\ r.who = u))
        EXCEPT !.groups = [g \in DOMAIN @ |-> [members |-> @[g].members \ {u}]]]

DeleteUser(d, u) == RemoveUsers(d, {u})

BatchDeleteUsers(d, U) == RemoveUsers(d, U \cap DOMAIN d.users)

\* The users of a batch whose status really changes.
Changed(d, U, st) == {u \in U \cap DOMAIN d.users : d.users[u].st # st}

BatchUpdateUserStatus(d, U, st) ==
    [d EXCEPT !.users = [u \in DOMAIN @ |-> IF u \in Changed(d, U, st) THEN [@[u] EXCEPT !.st = st] ELSE @[u]]]

CreateUserInvitationDelivery(d, id, u) == Put(d, "invites", id, [user |-> u, st |-> "queued"])

RecordUserInvitationReceipt(d, i, st) == [d EXCEPT !.invites[i].st = st]

CancelInvitationDelivery(d, i) == [d EXCEPT !.invites[i].st = "cancelled"]

ResendInvitationDelivery(d, id, i) == CreateUserInvitationDelivery(d, id, d.invites[i].user)

\* The newest user with the address is overwritten, without one a user is created.
UpsertUserByEmail(d, id, e, st) ==
    LET found == FindUserByEmail(d, e)
    IN  IF found = {} THEN CreateUser(d, id, e, st, {})
        ELSE UpdateUser(d, X!Max(found), e, st, {})

\* UpsertUsersByEmail.  A batch item is [email, st, ref].  The maps built from the users
\* keep the last index of a key, the oldest row; the created rows are looked up apart.
LastIndex(us, f, v) ==
    LET S == {u \in DOMAIN us : us[u][f] = v} IN IF S = {} THEN 0 ELSE X!Min(S)

LookupBefore(d) ==
    [users |-> d.users, made |-> None, hit |-> {},
     byEmail |-> [e \in Emails |-> LastIndex(d.users, "email", e)],
     byRef |-> [r \in Refs |-> LastIndex(d.users, "ref", r)],
     madeByEmail |-> [e \in Emails |-> 0], madeByRef |-> [r \in Refs |-> 0]]

\* The row an item is for: [id, made], id 0 for a new row, -1 for a rejected item.
TargetOf(b, item) ==
    LET er == IF item.ref = NoRef THEN 0 ELSE b.byRef[item.ref]
        cr == IF item.ref = NoRef THEN 0 ELSE b.madeByRef[item.ref]
        ee == b.byEmail[item.email]
        ce == b.madeByEmail[item.email]
        old(i) == [id |-> i, made |-> FALSE]
        new(i) == [id |-> i, made |-> TRUE]
    IN  IF er + cr > 0 /\ ee + ce > 0
        THEN IF er > 0 /\ er = ee THEN old(er)
             ELSE IF cr > 0 /\ cr = ce THEN new(cr) ELSE old(-1)
        ELSE IF er > 0 THEN old(er) ELSE IF cr > 0 THEN new(cr)
        ELSE IF ee > 0 THEN old(ee) ELSE new(ce)

\* The row r after an item, and the map m of addresses once row i has moved to the item's.
Overwrite(r, item) ==
    [r EXCEPT !.email = item.email, !.st = item.st, !.groups = {},
              !.ref = IF item.ref = NoRef THEN @ ELSE item.ref]

Readdress(m, i, from, to) ==
    [e \in Emails |-> IF e = to THEN i ELSE IF e = from /\ m[e] = i THEN 0 ELSE m[e]]

\* One item of the batch; id is the id a created row gets.
UpsertItem(b, item, id) ==
    LET t == TargetOf(b, item)
        cur == IF t.id < 1 THEN NoRef ELSE IF t.made THEN b.made[t.id].ref ELSE b.users[t.id].ref
        known(m, i) == IF item.ref = NoRef THEN m ELSE [m EXCEPT ![item.ref] = i]
    IN  IF t.id = -1 \/ (item.ref # NoRef /\ cur # NoRef /\ item.ref # cur) THEN b
        ELSE IF t.id = 0
        THEN [b EXCEPT !.made = Over(One(id, [st |-> item.st, email |-> item.email, ref |-> item.ref, groups |-> {}]), @),
                       !.madeByEmail[item.email] = id, !.madeByRef = known(@, id)]
        ELSE IF t.made
        THEN [b EXCEPT !.made[t.id] = Overwrite(@, item), !.madeByRef = known(@, t.id),
                       !.madeByEmail = Readdress(@, t.id, b.made[t.id].email, item.email)]
        ELSE [b EXCEPT !.users[t.id] = Overwrite(@, item), !.byRef = known(@, t.id), !.hit = @ \cup {t.id},
                       !.byEmail = Readdress(@, t.id, b.users[t.id].email, item.email)]

\* The items in turn, at most MaxBatch of them.  The created rows keep their order at the head
\* of the list: the first is the newest.
MaxBatch == 2

UpsertUsersByEmail(d, next, items) ==
    LET first == UpsertItem(LookupBefore(d), items[1], next + Len(items) - 1)
    IN  IF Len(items) = MaxBatch THEN UpsertItem(first, items[MaxBatch], next) ELSE first

CreateTeam(d, id) == Put(d, "teams", id, "team")

UpdateTeam(d, t) == Put(d, "teams", t, "team")

DeleteTeam(d, t) ==
    Drop(Drop(Drop(d, "teams", {t}), "members", Rows(d, "members", LAMBDA m : m.team = t)),
         "rights", Rows(d, "rights", LAMBDA r : r.kind = "Team" /\ r.who = t))

\* A member the team already has is only refreshed.
CreateTeamMembership(d, id, t, kind, who) ==
    IF Rows(d, "members", LAMBDA m : m.team = t /\ m.kind = kind /\ m.who = who) = {}
    THEN Put(d, "members", id, [team |-> t, kind |-> kind, who |-> who]) ELSE d

DeleteTeamMembership(d, m) == Drop(d, "members", {m})

CreateUserGroup(d, id, ms) == Put(d, "groups", id, [members |-> ms])

UpdateUserGroup(d, g, ms) == Put(d, "groups", g, [members |-> ms])

\* The restrictions are no part of the row here: the call saves what is there.
UpdateUserGroupRestrictions(d, g) == d

Leave(row, g) == [row EXCEPT !.groups = @ \ {g}]

DeleteUserGroup(d, g) ==
    [Drop(Drop(Drop(d, "groups", {g}), "rights", Rows(d, "rights", LAMBDA r : r.to = g)),
          "links", Rows(d, "links", LAMBDA l : l.group = g))
        EXCEPT !.users = [u \in DOMAIN @ |-> Leave(@[u], g)]]

CreateGroupLink(d, id, g, on) == Put(d, "links", id, [group |-> g, on |-> on])

UpdateGroupLink(d, l, g, on) == Put(d, "links", l, [group |-> g, on |-> on])

DeleteGroupLink(d, l) == Drop(d, "links", {l})

\* Only an enabled link is honoured; its last use is no part of the row here.
VerifyGroupLinkToken(d, l) == d

(* --------------------- service.go, service_policies.go ----------------- *)

CreateRoleAssignment(d, id, kind, who, to) ==
    Put(d, "rights", id, [kind |-> kind, who |-> who, to |-> to, reviewed |-> FALSE])

\* The review of the old right stays on the new one.
UpdateRoleAssignment(d, r, kind, who, to) ==
    [d EXCEPT !.rights[r] = [kind |-> kind, who |-> who, to |-> to, reviewed |-> @.reviewed]]

DeleteRoleAssignment(d, r) == Drop(d, "rights", {r})

Review(row, reviewed) == [row EXCEPT !.reviewed = @ \/ reviewed]

ReviewAccessRights(d, R, S) ==
    [d EXCEPT !.rights = [r \in DOMAIN @ |-> Review(@[r], r \in R)],
              !.shares = [s \in DOMAIN @ |-> [reviewed |-> @[s].reviewed \/ s \in S]]]

CreatePolicy(d, id, st) == Put(d, "policies", id, st)

UpdatePolicy(d, p, st) == Put(d, "policies", p, st)

CreateTemporaryAccessWithInput(d, id) == Put(d, "shares", id, [reviewed |-> FALSE])

UpdateTemporaryAccess(d, s, reviewed) == Put(d, "shares", s, [reviewed |-> reviewed])

DeleteTemporaryAccess(d, s) == Drop(d, "shares", {s})

CreateVisitorPass(d, id) == Put(d, "passes", id, "pass")

CreateGuest(d, id) == Put(d, "guests", id, "expected")

UpdateGuestStatus(d, g, st) == Put(d, "guests", g, st)

DeleteGuest(d, g) == Drop(d, "guests", {g})

(* -------------------------- service_bookings.go ------------------------ *)

CreateBookableSpace(d, id, mode, cap) == Put(d, "spaces", id, [mode |-> mode, cap |-> cap, occ |-> 0])

UpdateBookableSpace(d, s, mode, cap) == [d EXCEPT !.spaces[s].mode = mode, !.spaces[s].cap = cap]

DeleteBookableSpace(d, s) == Drop(d, "spaces", {s})

Live == {"confirmed", "checked_in"}

\* The live bookings of space s that meet the time from a to z.
Overlapping(d, s, a, z) ==
    Rows(d, "bookings", LAMBDA b : b.space = s /\ b.st \in Live /\ a < b.end /\ z > b.start)

\* A slip: a booking that is already checked in is not counted.
Free_Bug(d, s, a, z) ==
    LET n == Cardinality({b \in Overlapping(d, s, a, z) : d.bookings[b].st = "confirmed"})
    IN  /\ d.spaces[s].mode = "single_occupancy" => n = 0
        /\ d.spaces[s].mode = "limited_capacity" /\ d.spaces[s].cap > 0 => n < d.spaces[s].cap

\* The capacity check of CreateBooking.
Free(d, s, a, z) ==
    LET n == Cardinality(Overlapping(d, s, a, z))
    IN  /\ d.spaces[s].mode = "single_occupancy" => n = 0
        /\ d.spaces[s].mode = "limited_capacity" /\ d.spaces[s].cap > 0 => n < d.spaces[s].cap

CreateBooking(d, id, s, a, z) ==
    Put(d, "bookings", id, [space |-> s, start |-> a, end |-> z, st |-> "confirmed"])

UpdateBooking(d, b, a, z, st) ==
    [d EXCEPT !.bookings[b].start = a, !.bookings[b].end = z, !.bookings[b].st = st]

DeleteBooking(d, b) == Drop(d, "bookings", {b})

\* The occupancy of the space of booking b, when that space is still there, plus n.
Occupy(d, b, n) ==
    LET s == d.bookings[b].space
    IN  IF s \in DOMAIN d.spaces THEN [d EXCEPT !.spaces[s].occ = X!Max({0, @ + n})] ELSE d

CheckInBooking(d, b) == [Occupy(d, b, 1) EXCEPT !.bookings[b].st = "checked_in"]

CheckOutBooking(d, b) == [Occupy(d, b, -1) EXCEPT !.bookings[b].st = "completed"]

CreateOAuth2Client(d, id) == Put(d, "clients", id, [on |-> TRUE])

UpdateOAuth2Client(d, c, on) == Put(d, "clients", c, [on |-> on])

DeleteOAuth2Client(d, c) == Drop(d, "clients", {c})

(* ---- service_schedules.go and the rest of service_policies.go: tables - *)
(* ---- the snapshot does not name; their rows carry what refers to them - *)

CreateHolidayCalendar(d, id) == Put(d, "calendars", id, "calendar")

UpdateHolidayCalendar(d, c) == Put(d, "calendars", c, "calendar")

DeleteHolidayCalendar(d, c) == Drop(d, "calendars", {c})

CreateSchedule(d, id, cal) == Put(d, "schedules", id, [calendar |-> cal])

UpdateSchedule(d, s, cal) == Put(d, "schedules", s, [calendar |-> cal])

DeleteSchedule(d, s) == Drop(d, "schedules", {s})

CreateElevator(d, id) == Put(d, "elevators", id, "elevator")

UpdateElevator(d, e) == Put(d, "elevators", e, "elevator")

DeleteElevator(d, e) == Drop(d, "elevators", {e})

CreateElevatorStop(d, id, e) == Put(d, "stops", id, [elevator |-> e, st |-> "active"])

UpdateElevatorStop(d, s) == d

DeleteElevatorStop(d, s) == Drop(d, "stops", {s})

SetElevatorStopStatus(d, s, st) == [d EXCEPT !.stops[s].st = st]

CreateGroupElevatorStop(d, id, g, s) == Put(d, "groupStops", id, [group |-> g, stop |-> s])

DeleteGroupElevatorStop(d, x) == Drop(d, "groupStops", {x})

CreateGroupTerminal(d, id, g) == Put(d, "terminals", id, [group |-> g])

DeleteGroupTerminal(d, x) == Drop(d, "terminals", {x})

CreateCSVCardImport(d, id) == Put(d, "imports", id, "import")

\* The settings of the tenant: no row until a request first writes one.
Org == 9
OrgStatus(d) == IF Org \in DOMAIN d.org THEN d.org[Org] ELSE "active"

UpdateOrganizationSettings(d) == Put(d, "org", Org, OrgStatus(d))

RotateWebhookSecret(d) == Put(d, "org", Org, OrgStatus(d))

DisableOrganization(d) == Put(d, "org", Org, "disabled")

\* Five tables go to the other tenant; settings that have a row are marked.
Moving == {"users", "groups", "policies", "invites", "rights"}

TransferOrganization(d) ==
    [t \in Tables |-> IF t \in Moving THEN None
                      ELSE IF t = "org" /\ Org \in DOMAIN d.org THEN One(Org, "transferred")
                      ELSE d[t]]
=============================================================================
