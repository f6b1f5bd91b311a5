------------------------------- MODULE Access -------------------------------
(***************************************************************************)
(* The access service behind its HTTP handlers.  A behaviour exercises one *)
(* family of them; a process crash may come between any two steps.         *)
(***************************************************************************)
EXTENDS AccessPeople, AccessDirectory, AccessVisits, SpaceTopology

Next ==
    \/ family = "accounts" /\ Accounts
    \/ family = "batches" /\ Batches
    \/ family = "sync" /\ DirectorySync
    \/ family = "invitations" /\ Invitations
    \/ family = "groups" /\ (Groups \/ createUser \/ deleteUser)
    \/ family = "rights" /\ (Rights \/ deleteUser \/ batchDeleteUsers \/ createGuest \/ deleteGuest)
    \/ family = "shares" /\ Shares
    \/ family = "bookings" /\ Bookings
    \/ family = "visits" /\ Visits
    \/ family = "premises" /\ Premises
    \/ family = "oauth2" /\ OAuth2
    \/ family = "topology" /\ Topology
    \/ Crash

Spec == Init /\ [][Next]_vars

Images == {mem, stored}

\* The rows NewService brings back: into a table stored empty, and into one the snapshot does not name.
Seeds == UNION {DOMAIN NewService[t] : t \in KeptWhenEmpty \cup Volatile}

(***************************************************************************)
(* A row whose deletion was answered never comes back, in memory or in the *)
(* snapshot, by a request that had read it, a failed save or a restart:    *)
(* DeleteUser and the like under restoreFromStateStore.  The demonstration *)
(* rows of the tables restored only when not empty, and of the schedules,  *)
(* which no snapshot names, are excepted.                                  *)
(***************************************************************************)
DeletedStaysDeleted == \A d \in Images : Ids(d) \cap (hist.gone \ Seeds) = {}

(***************************************************************************)
(* Users and teams that are members or hold rights, groups of rights, of   *)
(* links and of users are rows that exist: DeleteUser, BatchDeleteUsers,   *)
(* DeleteTeam and DeleteUserGroup take with them what names the row.       *)
(* Excepted are ids a request itself named when they were not there, and   *)
(* the demonstration rows a restart brings back.  Nothing of the kind is   *)
(* said of guests: DeleteGuest takes neither their rights nor their        *)
(* memberships along.                                                      *)
(***************************************************************************)
Lasting(row) == IF row.kind = Guest THEN {} ELSE {row.who}

Referred(d) ==
    (UNION {d.groups[g].members : g \in DOMAIN d.groups})
    \cup (UNION {d.users[u].groups : u \in DOMAIN d.users})
    \cup (UNION {{d.rights[r].to} \cup Lasting(d.rights[r]) : r \in DOMAIN d.rights \ Seeds})
    \cup (UNION {{d.members[m].team} \cup Lasting(d.members[m]) : m \in DOMAIN d.members \ Seeds})
    \cup {d.links[l].group : l \in DOMAIN d.links \ Seeds}

NoDanglingGrant == \A d \in Images : Referred(d) \subseteq Ids(d) \cup hist.named \cup {Place}

(***************************************************************************)
(* A user suspended by a request that saved it stays suspended, in memory  *)
(* and across a restart, until a request states another status or writes   *)
(* back a record it read before the suspension.                            *)
(***************************************************************************)
SuspensionHolds ==
    \A d \in Images : \A u \in hist.susp \cap DOMAIN d.users : d.users[u].st = "suspended"

(***************************************************************************)
(* A user a directory has signed off (SCIM, Lark, Google Workspace) has no *)
(* active mobile credential, also after a restart, unless one was          *)
(* registered, or a suspended one activated, after the sign-off began.     *)
(* Excepted are users whose credential was revoked or suspended without a  *)
(* save, from when on a restart may bring it back.                         *)
(***************************************************************************)
OffboardedHasNoCredential == creds.held.active \cap hist.off \subseteq hist.lost

(***************************************************************************)
(* A booking finds fewer older live bookings at its time than its space    *)
(* has places: the capacity check of CreateBooking holds over failed saves *)
(* and restarts.  Bookings moved or revived without the check, and spaces  *)
(* whose capacity was edited, are excepted.                                *)
(***************************************************************************)
Capacity(sp) == IF sp.mode = "single_occupancy" THEN 1 ELSE sp.cap
Limited(sp) == sp.mode = "single_occupancy" \/ sp.cap > 0

NoDoubleBooking ==
    \A d \in Images : \A b \in DOMAIN d.bookings \ hist.moved :
        LET s == d.bookings[b].space
            older == {c \in Overlapping(d, s, d.bookings[b].start, d.bookings[b].end) : c < b} \ hist.moved
        IN  s \in DOMAIN d.spaces \ hist.moved /\ Limited(d.spaces[s]) /\ d.bookings[b].st \in Live
                => Cardinality(older) < Capacity(d.spaces[s])

(***************************************************************************)
(* Floors, areas and doors lie in buildings that are not archived, on      *)
(* floors and in areas that exist and lie where the row says, and door     *)
(* groups name doors that exist: DeleteBuilding, DeleteFloor and           *)
(* DeleteDoor take everything below with them, UpdateFloor and UpdateArea  *)
(* move it.  Excepted are rows whose creation checked its parents and was  *)
(* overtaken by a change of them before the row was written.               *)
(***************************************************************************)
TopologySound ==
    \A d \in Images :
        /\ \A f \in DOMAIN d.floors \ hist.raced : FloorFits(d, d.floors[f].b)
        /\ \A a \in DOMAIN d.areas \ hist.raced : AreaFits(d, d.areas[a].b, d.areas[a].f)
        /\ \A x \in DOMAIN d.doors \ hist.raced : DoorFits(d, d.doors[x].b, d.doors[x].f, d.doors[x].a)
        /\ \A g \in DOMAIN d.doorGroups \ hist.raced : GroupFits(d, d.doorGroups[g])
=============================================================================
