---------------------------- MODULE AccessProofs ----------------------------
(***************************************************************************)
(* Proofs about the access service.  Every handler is shown to have a      *)
(* shape: the tables it may touch, the ids it may add to them, and what it *)
(* may change of what the properties remember.  A property is then proved  *)
(* from the shapes of the families that leave its tables alone and from    *)
(* the handlers of the others.                                             *)
(***************************************************************************)
EXTENDS Access, FiniteSetTheorems, NaturalsInduction, WellFoundedInduction, TLAPS

(* ------------------------------ the tables ----------------------------- *)

\* Writing one row of table t, as every Create and Update does, leaves the other tables and rows alone.
LEMMA PutTables ==
    ASSUME NEW d, DOMAIN d = Tables, NEW t \in Tables, NEW id, NEW row
    PROVE  /\ DOMAIN Put(d, t, id, row) = Tables
           /\ \A s \in Tables \ {t} : Put(d, t, id, row)[s] = d[s]
           /\ DOMAIN Put(d, t, id, row)[t] = {id} \cup DOMAIN d[t]
           /\ Put(d, t, id, row)[t][id] = row
           /\ \A i \in DOMAIN d[t] \ {id} : Put(d, t, id, row)[t][i] = d[t][i]
    BY DEF Put, One, Over

\* Removing the rows S of table t, as every Delete does, leaves the rest alone.
LEMMA DropTables ==
    ASSUME NEW d, DOMAIN d = Tables, NEW t \in Tables, NEW S
    PROVE  /\ DOMAIN Drop(d, t, S) = Tables
           /\ \A s \in Tables \ {t} : Drop(d, t, S)[s] = d[s]
           /\ DOMAIN Drop(d, t, S)[t] = DOMAIN d[t] \ S
           /\ \A i \in DOMAIN d[t] \ S : Drop(d, t, S)[t][i] = d[t][i]
    BY DEF Drop, F!Restrict

\* persistLocked stores every table but the volatile ones as it is.
LEMMA PersistTables ==
    ASSUME NEW d, DOMAIN d = Tables
    PROVE  /\ DOMAIN persistLocked(d) = Tables
           /\ \A t \in Tables \ Volatile : persistLocked(d)[t] = d[t]
           /\ \A t \in Volatile : persistLocked(d)[t] = None
    BY DEF persistLocked, Tables, Volatile

LEMMA NoRows == DOMAIN None = {}
    BY DEF None

(* ------------------------------ the shapes ----------------------------- *)

HistFields == {"gone", "named", "susp", "off", "reg", "lost", "moved", "raced"}

\* The ids a request may give to new rows of table t: two at most, in a batch of the directory.
Fresh(t) == IF t = "org" THEN {Org} ELSE {next, next + 1}

\* The tables d differ from those in memory in the tables T only, and hold no other new ids.
Grows(d, T) ==
    /\ DOMAIN d = Tables
    /\ \A t \in Tables \ T : d[t] = mem[t]
    /\ \A t \in T : DOMAIN d[t] \subseteq DOMAIN mem[t] \cup Fresh(t)
    /\ DOMAIN mem.org \subseteq DOMAIN d.org

\* h is hist but for the fields H.
Recalls(h, H) ==
    /\ DOMAIN h = HistFields
    /\ \A x \in HistFields \ (H \cup {"reg"}) : h[x] = hist[x]

\* The three outcomes of a request that makes d of the tables: saved, undone, or kept without a save.
Effect(d) ==
    /\ next' = NextId(d)
    /\ \/ mem' = d /\ stored' = persistLocked(d) /\ hist'.gone = hist.gone \cup (Ids(mem) \ Ids(d))
       \/ mem' \in {mem, d} /\ stored' = stored /\ hist'.gone = hist.gone

\* A step that touches the tables T and changes of creds and the fields of hist only those in H.
Shape(T, H) ==
    /\ family' = family
    /\ creds' = creds \/ "creds" \in H
    /\ DOMAIN hist' = HistFields
    /\ \A x \in HistFields \ (H \cup {"gone", "reg"}) : hist'[x] = hist[x]
    /\ \/ \E d : Grows(d, T) /\ Effect(d)
       \/ UNCHANGED <<mem, stored, next>> /\ hist'.gone = hist.gone

Base == DOMAIN mem = Tables /\ DOMAIN mem.org \subseteq {Org} /\ DOMAIN hist = HistFields /\ next \in Nat

LEMMA RecallsItself == Base => \A H : Recalls(hist, H)
    BY DEF Base, Recalls

LEMMA GrowsPut ==
    ASSUME Base, NEW T \in SUBSET Tables, NEW t \in T, NEW id \in DOMAIN mem[t] \cup Fresh(t), NEW row
    PROVE  Grows(Put(mem, t, id, row), T)
    BY PutTables, "org" \in Tables DEF Base, Grows, Tables

LEMMA GrowsDrop ==
    ASSUME Base, NEW T \in SUBSET Tables, NEW t \in T, t # "org", NEW S
    PROVE  Grows(Drop(mem, t, S), T)
  <1>1. "org" \in Tables
    BY DEF Tables
  <1>2. t \in Tables /\ DOMAIN mem = Tables
    BY DEF Base
  <1>3. Drop(mem, t, S).org = mem.org
    BY <1>1, <1>2, DropTables
  <1>4. DOMAIN Drop(mem, t, S)[t] \subseteq DOMAIN mem[t]
    BY <1>2, DropTables
  <1>5. \A s \in Tables \ {t} : Drop(mem, t, S)[s] = mem[s]
    BY <1>2, DropTables
  <1>6. DOMAIN Drop(mem, t, S) = Tables
    BY <1>2, DropTables
  <1> QED
    BY <1>3, <1>4, <1>5, <1>6 DEF Grows

LEMMA GrowsNot == ASSUME Base, NEW T \in SUBSET Tables PROVE Grows(mem, T)
    BY DEF Base, Grows

\* Save, whatever becomes of it, has the shape of the tables it is given.
LEMMA SaveShape ==
    ASSUME Base, NEW d, NEW T, NEW H, "gone" \notin H, Grows(d, T), NEW h, Recalls(h, H), NEW undo, NEW cost,
           Save(d, undo, h, cost), family' = family, creds' = creds
    PROVE  Shape(T, H)
  <1>1. PICK f \in 0..1 : next' = NextId(d) /\ IF f = 0 THEN Saved(d, h) ELSE NotSaved(d, undo, h)
    BY DEF Save
  <1>2. CASE Saved(d, h)
    <2>1. hist' = [h EXCEPT !.gone = @ \cup (Ids(mem) \ Ids(d))] /\ mem' = d /\ stored' = persistLocked(d)
      BY <1>2 DEF Saved
    <2>2. h.gone = hist.gone
      BY DEF Recalls, HistFields
    <2>3. DOMAIN hist' = HistFields /\ hist'.gone = hist.gone \cup (Ids(mem) \ Ids(d))
      BY <2>1, <2>2 DEF Recalls, HistFields
    <2>4. \A x \in HistFields \ (H \cup {"gone", "reg"}) : hist'[x] = hist[x]
      BY <2>1 DEF Recalls
    <2> QED
      BY <1>1, <2>1, <2>3, <2>4 DEF Shape, Effect
  <1>3. CASE NotSaved(d, undo, h)
    <2>1. mem' \in {mem, d} /\ stored' = stored
      BY <1>3 DEF NotSaved
    <2>2. CASE hist' = hist
      BY <1>1, <2>1, <2>2 DEF Shape, Effect, Base
    <2>3. CASE hist' = [h EXCEPT !.susp = @ \cap hist.susp, !.off = @ \cap hist.off]
      <3>1. DOMAIN hist' = HistFields /\ hist'.gone = hist.gone
        BY <2>3 DEF Recalls, HistFields
      <3>2. \A x \in HistFields \ (H \cup {"gone", "reg"}) : hist'[x] = hist[x]
        BY <2>3 DEF Recalls, HistFields
      <3> QED
        BY <1>1, <2>1, <3>1, <3>2 DEF Shape, Effect
    <2> QED
      BY <1>3, <2>2, <2>3 DEF NotSaved
  <1> QED
    BY <1>1, <1>2, <1>3

LEMMA RequestShape ==
    ASSUME Base, NEW d, NEW T, NEW H, "gone" \notin H, Grows(d, T), NEW h, Recalls(h, H), NEW undo, Request(d, undo, h)
    PROVE  Shape(T, H)
    BY SaveShape DEF Request

\* A save of the credential service changes of what is remembered only which saves were lost.
Recorded(h) == DOMAIN hist' = HistFields /\ \A x \in HistFields \ {"lost"} : hist'[x] = h[x]

LEMMA PersistRecorded ==
    ASSUME NEW c, NEW h, NEW cost, DOMAIN h = HistFields, PersistCredentials(c, h, cost)
    PROVE  Recorded(h)
  <1>1. PICK L : hist' = [h EXCEPT !.lost = L]
    BY DEF PersistCredentials
  <1> QED
    BY <1>1 DEF Recorded, HistFields

LEMMA RevokeRecorded ==
    ASSUME NEW U, NEW h, NEW cost, DOMAIN h = HistFields, RevokeAllUserCredentials(U, h, cost)
    PROVE  Recorded(h) /\ (U = {} => creds' = creds /\ hist'.lost = h.lost)
  <1>1. CASE U \cap creds.held.active # {}
    BY <1>1, PersistRecorded DEF RevokeAllUserCredentials
  <1>2. CASE U \cap creds.held.active = {}
    BY <1>2 DEF RevokeAllUserCredentials, Recorded
  <1> QED
    BY <1>1, <1>2

\* The read of a request of several steps.
LEMMA BeginFrame ==
    ASSUME Base, NEW p, NEW U, Begin(p, U)
    PROVE  /\ pending' = p /\ UNCHANGED <<family, mem, stored, next>>
           /\ DOMAIN hist' = HistFields /\ \A x \in HistFields \ {"reg", "lost"} : hist'[x] = hist[x]
           /\ U = {} => creds' = creds /\ hist'.lost = hist.lost
  <1> DEFINE h == [hist EXCEPT !.reg = {}]
  <1>1. DOMAIN h = HistFields /\ \A x \in HistFields \ {"reg"} : h[x] = hist[x]
    BY DEF Base, HistFields
  <1>2. RevokeAllUserCredentials(U, h, 1) /\ pending' = p /\ UNCHANGED <<family, mem, stored, next>>
    BY DEF Begin
  <1> HIDE DEF h
  <1>3. Recorded(h) /\ (U = {} => creds' = creds /\ hist'.lost = h.lost)
    BY <1>1, <1>2, RevokeRecorded
  <1> QED
    BY <1>1, <1>2, <1>3 DEF Recorded, HistFields

LEMMA BeginShape ==
    ASSUME Base, NEW T, NEW H, NEW p, NEW U, Begin(p, U), U = {} \/ {"creds", "lost"} \subseteq H
    PROVE  Shape(T, H)
    BY BeginFrame DEF Shape, HistFields

\* Its last write.
LEMMA FinishShape ==
    ASSUME Base, NEW d, NEW T, NEW H, "gone" \notin H, NEW guard, guard => Grows(d, T), NEW h, Recalls(h, H), NEW undo,
           Finish(guard, d, undo, h)
    PROVE  Shape(T, H)
  <1>1. CASE guard
    BY <1>1, SaveShape DEF Finish, GoOn
  <1>2. CASE ~guard
    BY <1>2 DEF Finish, Shape, Base
  <1> QED
    BY <1>1, <1>2

LEMMA InMemoryShape ==
    ASSUME Base, NEW d, NEW T, NEW H, "gone" \notin H, Grows(d, T), NEW h, Recalls(h, H), NEW p, InMemory(d, h, p)
    PROVE  Shape(T, H)
    BY DEF InMemory, Shape, Effect, Recalls, HistFields

\* Requests that write, or remove, rows of one table and remember nothing.
LEMMA PutRequest ==
    ASSUME Base, NEW T \in SUBSET Tables, NEW t \in T, NEW id \in DOMAIN mem[t] \cup Fresh(t), NEW row, NEW undo,
           NEW H, "gone" \notin H, Request(Put(mem, t, id, row), undo, hist)
    PROVE  Shape(T, H)
    BY GrowsPut, RequestShape, RecallsItself

LEMMA DropRequest ==
    ASSUME Base, NEW T \in SUBSET Tables, NEW t \in T, t # "org", NEW S, NEW undo,
           NEW H, "gone" \notin H, Request(Drop(mem, t, S), undo, hist)
    PROVE  Shape(T, H)
    BY GrowsDrop, RequestShape, RecallsItself

LEMMA IdleRequest ==
    ASSUME Base, NEW T \in SUBSET Tables, NEW undo, NEW H, "gone" \notin H, Request(mem, undo, hist)
    PROVE  Shape(T, H)
    BY GrowsNot, RequestShape, RecallsItself

LEMMA NextFresh == \A t : t # "org" => next \in Fresh(t)
    BY DEF Fresh

(* ------------------------ the shapes of the families ------------------- *)

VisitTables == {"guests", "passes", "policies"}

LEMMA VisitsShape == Base /\ Visits => Shape(VisitTables, {})
  <1> SUFFICES ASSUME Base, Visits PROVE Shape(VisitTables, {})
    OBVIOUS
  <1>T. VisitTables \in SUBSET Tables
    BY DEF VisitTables, Tables
  <1>t. "guests" \in VisitTables /\ "passes" \in VisitTables /\ "policies" \in VisitTables
    BY DEF VisitTables
  <1>1. CASE createGuest \/ appAdminCreateGuest
    BY <1>1, <1>T, <1>t, PutRequest, NextFresh DEF createGuest, appAdminCreateGuest, CreateGuest
  <1>2. CASE updateGuestStatus \/ appAdminUpdateGuestStatus
    BY <1>2, <1>T, <1>t, PutRequest DEF updateGuestStatus, appAdminUpdateGuestStatus, UpdateGuestStatus
  <1>3. CASE deleteGuest \/ appAdminDeleteGuest
    BY <1>3, <1>T, <1>t, DropRequest DEF deleteGuest, appAdminDeleteGuest, DeleteGuest
  <1>4. CASE createVisitorPass \/ appCreateVisitorPass \/ appCreateVisitorPassEnhanced
    BY <1>4, <1>T, <1>t, PutRequest, NextFresh
    DEF createVisitorPass, appCreateVisitorPass, appCreateVisitorPassEnhanced, CreateVisitorPass
  <1>5. CASE createAccessPolicy
    BY <1>5, <1>T, <1>t, PutRequest, NextFresh DEF createAccessPolicy, CreatePolicy
  <1>6. CASE updateAccessPolicy
    BY <1>6, <1>T, <1>t, PutRequest DEF updateAccessPolicy, UpdatePolicy
  <1> QED
    BY <1>1, <1>2, <1>3, <1>4, <1>5, <1>6 DEF Visits

PremiseTables == Volatile \cup Moving

LEMMA VolatileNames ==
    \A t \in {"org", "schedules", "calendars", "elevators", "stops", "groupStops", "terminals", "imports"} : t \in Volatile
    BY DEF Volatile

LEMMA PremiseNames == PremiseTables \in SUBSET Tables /\ Volatile \in SUBSET Tables /\ Volatile \subseteq PremiseTables
    BY DEF PremiseTables, Volatile, Moving, Tables

LEMMA SchedulesShape ==
    ASSUME Base, NEW T \in SUBSET Tables, Volatile \subseteq T, NEW H, "gone" \notin H,
           \/ createHolidayCalendar \/ updateHolidayCalendar \/ deleteHolidayCalendar \/ createSchedule \/ updateSchedule
           \/ deleteSchedule \/ appAdminCreateSchedule \/ appAdminUpdateSchedule \/ appAdminDeleteSchedule
    PROVE  Shape(T, H)
  <1> USE VolatileNames
  <1>1. CASE createHolidayCalendar
    BY <1>1, PutRequest, NextFresh DEF createHolidayCalendar, CreateHolidayCalendar
  <1>2. CASE updateHolidayCalendar
    BY <1>2, PutRequest DEF updateHolidayCalendar, UpdateHolidayCalendar
  <1>3. CASE deleteHolidayCalendar
    BY <1>3, DropRequest DEF deleteHolidayCalendar, DeleteHolidayCalendar
  <1>4. CASE createSchedule \/ appAdminCreateSchedule
    BY <1>4, PutRequest, NextFresh DEF createSchedule, appAdminCreateSchedule, CreateSchedule
  <1>5. CASE updateSchedule \/ appAdminUpdateSchedule
    BY <1>5, PutRequest DEF updateSchedule, appAdminUpdateSchedule, UpdateSchedule
  <1>6. CASE deleteSchedule \/ appAdminDeleteSchedule
    BY <1>6, DropRequest DEF deleteSchedule, appAdminDeleteSchedule, DeleteSchedule
  <1> QED
    BY <1>1, <1>2, <1>3, <1>4, <1>5, <1>6

LEMMA ElevatorsShape ==
    ASSUME Base, NEW T \in SUBSET Tables, Volatile \subseteq T, NEW H, "gone" \notin H,
           \/ createElevator \/ updateElevator \/ deleteElevator \/ createElevatorStop \/ updateElevatorStop
           \/ deleteElevatorStop \/ lockDownElevatorStop \/ cancelElevatorStopLockdown \/ createGroupElevatorStop
           \/ deleteGroupElevatorStop \/ createGroupTerminal \/ deleteGroupTerminal \/ createCSVCardImport
    PROVE  Shape(T, H)
  <1> USE VolatileNames
  <1>1. CASE createElevator
    BY <1>1, PutRequest, NextFresh DEF createElevator, CreateElevator
  <1>2. CASE updateElevator
    BY <1>2, PutRequest DEF updateElevator, UpdateElevator
  <1>3. CASE deleteElevator
    BY <1>3, DropRequest DEF deleteElevator, DeleteElevator
  <1>4. CASE createElevatorStop
    BY <1>4, PutRequest, NextFresh DEF createElevatorStop, CreateElevatorStop
  <1>5. CASE updateElevatorStop
    BY <1>5, IdleRequest DEF updateElevatorStop, UpdateElevatorStop
  <1>6. CASE deleteElevatorStop
    BY <1>6, DropRequest DEF deleteElevatorStop, DeleteElevatorStop
  <1>7. CASE lockDownElevatorStop \/ cancelElevatorStopLockdown
    <2>1. \A s, st : Grows(SetElevatorStopStatus(mem, s, st), T)
      BY "stops" \in Tables, "org" \in Tables DEF SetElevatorStopStatus, Grows, Base, Tables
    <2> QED
      BY <1>7, <2>1, RequestShape, RecallsItself DEF lockDownElevatorStop, cancelElevatorStopLockdown
  <1>8. CASE createGroupElevatorStop
    BY <1>8, PutRequest, NextFresh DEF createGroupElevatorStop, CreateGroupElevatorStop
  <1>9. CASE deleteGroupElevatorStop
    BY <1>9, DropRequest DEF deleteGroupElevatorStop, DeleteGroupElevatorStop
  <1>10. CASE createGroupTerminal
    BY <1>10, PutRequest, NextFresh DEF createGroupTerminal, CreateGroupTerminal
  <1>11. CASE deleteGroupTerminal
    BY <1>11, DropRequest DEF deleteGroupTerminal, DeleteGroupTerminal
  <1>12. CASE createCSVCardImport
    BY <1>12, PutRequest, NextFresh DEF createCSVCardImport, CreateCSVCardImport
  <1> QED
    BY <1>1, <1>2, <1>3, <1>4, <1>5, <1>6, <1>7, <1>8, <1>9, <1>10, <1>11, <1>12

LEMMA SettingsShape ==
    ASSUME Base, NEW T \in SUBSET Tables, Volatile \subseteq T, NEW H, "gone" \notin H,
           updateOrganizationSettings \/ rotateOrganizationWebhooks \/ disableOrganization
    PROVE  Shape(T, H)
  <1>1. Org \in Fresh("org")
    BY DEF Fresh
  <1> QED
    BY <1>1, VolatileNames, PutRequest
    DEF updateOrganizationSettings, rotateOrganizationWebhooks, disableOrganization, UpdateOrganizationSettings,
        RotateWebhookSecret, DisableOrganization

LEMMA TransferGrows == ASSUME Base PROVE Grows(TransferOrganization(mem), PremiseTables)
  <1>1. DOMAIN TransferOrganization(mem) = Tables
    BY DEF TransferOrganization
  <1>2. \A t \in Moving : DOMAIN TransferOrganization(mem)[t] = {}
    BY NoRows DEF TransferOrganization, Moving, Tables
  <1>3. "org" \in Tables /\ "org" \notin Moving
    BY DEF Tables, Moving
  <1>4. DOMAIN TransferOrganization(mem).org = DOMAIN mem.org
    BY <1>3 DEF TransferOrganization, One, Base
  <1>5. \A t \in Tables \ (Moving \cup {"org"}) : TransferOrganization(mem)[t] = mem[t]
    BY DEF TransferOrganization
  <1> QED
    BY <1>1, <1>2, <1>3, <1>4, <1>5, PremiseNames, VolatileNames DEF Grows, PremiseTables, Base

LEMMA TransferShape == ASSUME Base, transferOrganization PROVE Shape(PremiseTables, {"named"})
  <1>1. PICK N : Request(TransferOrganization(mem), FALSE, [hist EXCEPT !.named = N])
    BY DEF transferOrganization
  <1>2. Recalls([hist EXCEPT !.named = N], {"named"})
    BY DEF Recalls, Base, HistFields
  <1> QED
    BY <1>1, <1>2, TransferGrows, RequestShape

LEMMA PremisesShape == ASSUME Base, Premises PROVE Shape(PremiseTables, {"named"})
    BY PremiseNames, SchedulesShape, ElevatorsShape, SettingsShape, TransferShape DEF Premises

OAuth2Tables == {"clients", "codes"}

LEMMA OAuth2Shape == ASSUME Base, OAuth2 PROVE Shape(OAuth2Tables, {})
  <1>T. OAuth2Tables \in SUBSET Tables /\ "clients" \in OAuth2Tables /\ "codes" \in OAuth2Tables
    BY DEF OAuth2Tables, Tables
  <1> USE <1>T
  <1>1. CASE registerOAuth2Client
    BY <1>1, PutRequest, NextFresh DEF registerOAuth2Client, CreateOAuth2Client
  <1>2. CASE updateOAuth2Client \/ oauth2Authorize
    BY <1>2, BeginShape DEF updateOAuth2Client, oauth2Authorize
  <1>3. CASE WriteClient
    BY <1>3, FinishShape, GrowsPut, RecallsItself DEF WriteClient, UpdateOAuth2Client
  <1>4. CASE deleteOAuth2Client
    BY <1>4, SaveShape, GrowsDrop, RecallsItself DEF deleteOAuth2Client, DeleteOAuth2Client
  <1>5. CASE DropCodes
    BY <1>5, InMemoryShape, GrowsDrop, RecallsItself DEF DropCodes
  <1>6. CASE StoreCode
    BY <1>6, InMemoryShape, GrowsPut, NextFresh, RecallsItself DEF StoreCode
  <1>7. CASE oauth2Token
    <2>1. \A k : Grows([mem EXCEPT !.codes[k].used = TRUE], OAuth2Tables)
      BY "codes" \in Tables, "org" \in Tables DEF Grows, Base, Tables
    <2> QED
      BY <1>7, <2>1, InMemoryShape, GrowsDrop, RecallsItself DEF oauth2Token
  <1>8. CASE oauth2IssueAccessToken
    BY <1>8, InMemoryShape, GrowsNot, RecallsItself DEF oauth2IssueAccessToken
  <1> QED
    BY <1>1, <1>2, <1>3, <1>4, <1>5, <1>6, <1>7, <1>8 DEF OAuth2

ShareTables == {"shares", "rights"}

LEMMA ReviewGrows ==
    ASSUME Base, NEW T \in SUBSET Tables, "shares" \in T, "rights" \in T, NEW R, NEW S
    PROVE  Grows(ReviewAccessRights(mem, R, S), T)
    BY "org" \in Tables DEF Grows, Base, ReviewAccessRights, Tables

LEMMA SharesShape == ASSUME Base, Shares PROVE Shape(ShareTables, {})
  <1>T. ShareTables \in SUBSET Tables /\ "shares" \in ShareTables /\ "rights" \in ShareTables
    BY DEF ShareTables, Tables
  <1> USE <1>T
  <1>1. CASE createReferenceShare \/ createTemporaryAccess
    BY <1>1, PutRequest, NextFresh DEF createReferenceShare, createTemporaryAccess, CreateTemporaryAccessWithInput
  <1>2. CASE appAdminShareAccess
    BY <1>2, SaveShape, GrowsPut, NextFresh, RecallsItself DEF appAdminShareAccess, CreateTemporaryAccessWithInput
  <1>3. CASE ShareNextDoor
    BY <1>3, FinishShape, GrowsPut, NextFresh, RecallsItself DEF ShareNextDoor, CreateTemporaryAccessWithInput
  <1>4. CASE updateReferenceShare
    BY <1>4, BeginShape DEF updateReferenceShare
  <1>5. CASE WriteShare
    BY <1>5, FinishShape, GrowsPut, RecallsItself DEF WriteShare, UpdateTemporaryAccess
  <1>6. CASE deleteReferenceShare
    BY <1>6, DropRequest DEF deleteReferenceShare, DeleteTemporaryAccess
  <1>7. CASE reviewReferenceAccessRights
    BY <1>7, ReviewGrows, RequestShape, RecallsItself DEF reviewReferenceAccessRights
  <1> QED
    BY <1>1, <1>2, <1>3, <1>4, <1>5, <1>6, <1>7 DEF Shares

BookingTables == {"spaces", "bookings"}

LEMMA MovesRecalls == ASSUME Base, NEW S PROVE Recalls(Moves(hist, S), {"moved"})
    BY DEF Base, Recalls, Moves, HistFields

LEMMA BookingsGrow ==
    ASSUME Base
    PROVE  /\ \A s, mode, cap : Grows(UpdateBookableSpace(mem, s, mode, cap), BookingTables)
           /\ \A b, a, z, st : Grows(UpdateBooking(mem, b, a, z, st), BookingTables)
           /\ \A b : Grows(CheckInBooking(mem, b), BookingTables)
           /\ \A b : Grows(CheckOutBooking(mem, b), BookingTables)
  <1>T. "spaces" \in Tables /\ "bookings" \in Tables /\ "org" \in Tables
    BY DEF Tables
  <1>1. \A s, mode, cap : Grows(UpdateBookableSpace(mem, s, mode, cap), BookingTables)
    <2> SUFFICES ASSUME NEW s, NEW mode, NEW cap PROVE Grows(UpdateBookableSpace(mem, s, mode, cap), BookingTables)
      OBVIOUS
    <2> DEFINE d == UpdateBookableSpace(mem, s, mode, cap)
    <2>1. DOMAIN d = Tables /\ \A t \in Tables \ {"spaces"} : d[t] = mem[t]
      BY DEF UpdateBookableSpace, Base
    <2>2. DOMAIN d.spaces = DOMAIN mem.spaces
      BY <1>T DEF UpdateBookableSpace, Base
    <2> QED
      BY <1>T, <2>1, <2>2 DEF Grows, Base, BookingTables
  <1>2. \A b, a, z, st : Grows(UpdateBooking(mem, b, a, z, st), BookingTables)
    <2> SUFFICES ASSUME NEW b, NEW a, NEW z, NEW st PROVE Grows(UpdateBooking(mem, b, a, z, st), BookingTables)
      OBVIOUS
    <2> DEFINE d == UpdateBooking(mem, b, a, z, st)
    <2>1. DOMAIN d = Tables /\ \A t \in Tables \ {"bookings"} : d[t] = mem[t]
      BY DEF UpdateBooking, Base
    <2>2. DOMAIN d.bookings = DOMAIN mem.bookings
      BY <1>T DEF UpdateBooking, Base
    <2> QED
      BY <1>T, <2>1, <2>2 DEF Grows, Base, BookingTables
  <1>3. \A b, n : /\ DOMAIN Occupy(mem, b, n) = Tables
                  /\ DOMAIN Occupy(mem, b, n).spaces = DOMAIN mem.spaces
                  /\ \A t \in Tables \ {"spaces"} : Occupy(mem, b, n)[t] = mem[t]
    BY <1>T DEF Base, Occupy
  <1>4. ASSUME NEW b, NEW n, NEW st
        PROVE  Grows([Occupy(mem, b, n) EXCEPT !.bookings[b].st = st], BookingTables)
    BY <1>T, <1>3 DEF Grows, BookingTables, Base
  <1> QED
    BY <1>1, <1>2, <1>4 DEF CheckInBooking, CheckOutBooking

LEMMA BookingsShape == ASSUME Base, Bookings PROVE Shape(BookingTables, {"moved"})
  <1>T. BookingTables \in SUBSET Tables /\ "spaces" \in BookingTables /\ "bookings" \in BookingTables
    BY DEF BookingTables, Tables
  <1> USE <1>T
  <1>1. CASE createBookableSpace
    BY <1>1, PutRequest, NextFresh DEF createBookableSpace, CreateBookableSpace
  <1>2. CASE updateBookableSpace
    BY <1>2, BookingsGrow, MovesRecalls, RequestShape DEF updateBookableSpace
  <1>3. CASE deleteBookableSpace
    BY <1>3, DropRequest DEF deleteBookableSpace, DeleteBookableSpace
  <1>4. CASE createBooking \/ appCreateBooking
    BY <1>4, PutRequest, NextFresh DEF createBooking, appCreateBooking, CreateBooking
  <1>5. CASE updateBooking
    BY <1>5, BookingsGrow, MovesRecalls, RequestShape, InMemoryShape DEF updateBooking
  <1>6. CASE appCancelBooking
    BY <1>6, BookingsGrow, RecallsItself, RequestShape DEF appCancelBooking
  <1>7. CASE deleteBooking
    BY <1>7, DropRequest DEF deleteBooking, DeleteBooking
  <1>8. CASE checkInBooking \/ appCheckInBooking
    BY <1>8, BookingsGrow, RecallsItself, MovesRecalls, RequestShape DEF checkInBooking, appCheckInBooking, Revives
  <1>9. CASE checkOutBooking \/ appCheckOutBooking
    BY <1>9, BookingsGrow, RecallsItself, RequestShape DEF checkOutBooking, appCheckOutBooking
  <1> QED
    BY <1>1, <1>2, <1>3, <1>4, <1>5, <1>6, <1>7, <1>8, <1>9 DEF Bookings

PeopleTables == {"users", "invites", "groups", "rights", "teams", "members", "links", "shares", "guests"}
RowFields == {"named", "susp"}
PeopleFields == RowFields \cup {"off", "creds", "lost"}

LEMMA PeopleNames ==
    /\ PeopleTables \in SUBSET Tables /\ "org" \in Tables \ PeopleTables /\ "gone" \notin PeopleFields \cup RowFields
    /\ \A t \in {"users", "invites", "groups", "rights", "teams", "members", "links", "shares", "guests"} : t \in PeopleTables
    BY DEF PeopleTables, Tables, PeopleFields, RowFields

\* The rights and the memberships that go with the users U.
RightsOf(d, U) == {i \in DOMAIN d.rights : d.rights[i].kind = "User" /\ d.rights[i].who \in U}
MembershipsOf(d, U) == {i \in DOMAIN d.members : d.members[i].kind = "User" /\ d.members[i].who \in U}

\* What DeleteUser and BatchDeleteUsers leave of the tables.
LEMMA RemoveUsersTables ==
    ASSUME NEW d, DOMAIN d = Tables, NEW U
    PROVE  /\ DOMAIN RemoveUsers(d, U) = Tables
           /\ \A t \in Tables \ {"users", "rights", "members", "groups"} : RemoveUsers(d, U)[t] = d[t]
           /\ DOMAIN RemoveUsers(d, U).users = DOMAIN d.users \ U
           /\ \A u \in DOMAIN d.users \ U : RemoveUsers(d, U).users[u] = d.users[u]
           /\ DOMAIN RemoveUsers(d, U).rights = DOMAIN d.rights \ RightsOf(d, U)
           /\ \A x \in DOMAIN d.rights \ RightsOf(d, U) : RemoveUsers(d, U).rights[x] = d.rights[x]
           /\ DOMAIN RemoveUsers(d, U).members = DOMAIN d.members \ MembershipsOf(d, U)
           /\ \A x \in DOMAIN d.members \ MembershipsOf(d, U) : RemoveUsers(d, U).members[x] = d.members[x]
           /\ DOMAIN RemoveUsers(d, U).groups = DOMAIN d.groups
           /\ \A g \in DOMAIN d.groups : RemoveUsers(d, U).groups[g].members = d.groups[g].members \ U
  <1> DEFINE gone == Rows(d, "rights", LAMBDA x : x.kind = "User" /\ x.who \in U)
             left == Rows(d, "members", LAMBDA x : x.kind = "User" /\ x.who \in U)
             d1 == Drop(d, "users", U)
             d2 == Drop(d1, "rights", gone)
             d3 == Drop(d2, "members", left)
             r == [d3 EXCEPT !.groups = [g \in DOMAIN @ |-> [members |-> @[g].members \ U]]]
  <1>T. "users" \in Tables /\ "rights" \in Tables /\ "members" \in Tables /\ "groups" \in Tables
    BY DEF Tables
  <1>0. r = RemoveUsers(d, U)
    BY DEF RemoveUsers
  <1>g. gone = RightsOf(d, U) /\ left = MembershipsOf(d, U)
    BY DEF Rows, RightsOf, MembershipsOf
  <1>1. /\ DOMAIN d1 = Tables /\ \A t \in Tables \ {"users"} : d1[t] = d[t]
        /\ DOMAIN d1.users = DOMAIN d.users \ U /\ \A i \in DOMAIN d.users \ U : d1.users[i] = d.users[i]
    BY <1>T, DropTables
  <1> HIDE DEF gone, left, d1
  <1>2. /\ DOMAIN d2 = Tables /\ \A t \in Tables \ {"rights"} : d2[t] = d1[t]
        /\ DOMAIN d2.rights = DOMAIN d1.rights \ gone /\ \A i \in DOMAIN d1.rights \ gone : d2.rights[i] = d1.rights[i]
    BY <1>T, <1>1, DropTables
  <1> HIDE DEF d2
  <1>3. /\ DOMAIN d3 = Tables /\ \A t \in Tables \ {"members"} : d3[t] = d2[t]
        /\ DOMAIN d3.members = DOMAIN d2.members \ left
        /\ \A i \in DOMAIN d2.members \ left : d3.members[i] = d2.members[i]
    BY <1>T, <1>2, DropTables
  <1> HIDE DEF d3
  <1>4. /\ DOMAIN r = Tables /\ \A t \in Tables \ {"groups"} : r[t] = d3[t]
        /\ r.groups = [g \in DOMAIN d3.groups |-> [members |-> d3.groups[g].members \ U]]
    BY <1>T, <1>3
  <1> HIDE DEF r
  <1>5. d3.groups = d.groups /\ d3.users = d1.users /\ d3.rights = d2.rights /\ d2.members = d.members /\ d1.rights = d.rights
    BY <1>T, <1>1, <1>2, <1>3
  <1>6. \A t \in Tables \ {"users", "rights", "members", "groups"} : r[t] = d[t]
    BY <1>1, <1>2, <1>3, <1>4
  <1>7. r.users = d1.users /\ r.rights = d2.rights /\ r.members = d3.members
    BY <1>T, <1>4, <1>5
  <1>8. DOMAIN r.groups = DOMAIN d.groups
        /\ \A g \in DOMAIN d.groups : r.groups[g].members = d.groups[g].members \ U
    BY <1>4, <1>5
  <1>9. /\ DOMAIN r.users = DOMAIN d.users \ U /\ \A u \in DOMAIN d.users \ U : r.users[u] = d.users[u]
        /\ DOMAIN r.rights = DOMAIN d.rights \ gone /\ \A x \in DOMAIN d.rights \ gone : r.rights[x] = d.rights[x]
        /\ DOMAIN r.members = DOMAIN d.members \ left /\ \A x \in DOMAIN d.members \ left : r.members[x] = d.members[x]
    BY <1>1, <1>2, <1>3, <1>5, <1>7
  <1> QED
    BY <1>0, <1>g, <1>4, <1>6, <1>8, <1>9

LEMMA RemoveUsersGrows == ASSUME Base, NEW U PROVE Grows(RemoveUsers(mem, U), PeopleTables)
  <1>T. "org" \in Tables
    BY DEF Tables
  <1>1. DOMAIN mem = Tables
    BY DEF Base
  <1> DEFINE r == RemoveUsers(mem, U)
  <1>2. DOMAIN r = Tables /\ \A t \in Tables \ {"users", "rights", "members", "groups"} : r[t] = mem[t]
    BY <1>1, RemoveUsersTables
  <1>3. DOMAIN r.users \subseteq DOMAIN mem.users /\ DOMAIN r.rights \subseteq DOMAIN mem.rights
        /\ DOMAIN r.members \subseteq DOMAIN mem.members /\ DOMAIN r.groups \subseteq DOMAIN mem.groups
    BY <1>1, RemoveUsersTables
  <1> HIDE DEF r
  <1>4. \A t \in PeopleTables : DOMAIN r[t] \subseteq DOMAIN mem[t]
    BY <1>2, <1>3, PeopleNames DEF PeopleTables
  <1>5. \A t \in Tables \ PeopleTables : r[t] = mem[t]
    BY <1>2 DEF PeopleTables
  <1>6. Grows(r, PeopleTables)
    BY <1>2, <1>4, <1>5, PeopleNames DEF Grows
  <1> QED
    BY <1>6 DEF r

LEMMA PeopleRecall ==
    ASSUME Base, NEW h, Recalls(h, PeopleFields)
    PROVE  /\ \A S : Recalls(Names(h, S), PeopleFields)
           /\ \A U, st : Recalls(Asks(h, U, st), PeopleFields)
           /\ \A S : Recalls([h EXCEPT !.susp = S], PeopleFields)
           /\ \A S : Recalls([h EXCEPT !.off = S], PeopleFields)
    BY DEF Recalls, Names, Asks, PeopleFields, RowFields, HistFields

LEMMA RowRecall ==
    ASSUME Base, NEW h, Recalls(h, RowFields)
    PROVE  /\ \A S : Recalls(Names(h, S), RowFields)
           /\ \A U, st : Recalls(Asks(h, U, st), RowFields)
           /\ \A S : Recalls([h EXCEPT !.susp = S], RowFields)
    BY DEF Recalls, Names, Asks, RowFields, HistFields

\* One item of a directory batch adds the row it was given at most, and a row it does not hit stays.
BatchFields == {"users", "made", "hit", "byEmail", "byRef", "madeByEmail", "madeByRef"}

LEMMA UpsertItemRows ==
    ASSUME NEW b, DOMAIN b = BatchFields, NEW item, NEW id
    PROVE  LET c == UpsertItem(b, item, id)
           IN  /\ DOMAIN c = BatchFields
               /\ DOMAIN c.users = DOMAIN b.users
               /\ DOMAIN c.made \subseteq DOMAIN b.made \cup {id}
               /\ b.hit \subseteq c.hit
               /\ \A u \in DOMAIN b.users \ c.hit : c.users[u] = b.users[u]
  <1> DEFINE t == TargetOf(b, item)
             known(m, i) == IF item.ref = NoRef THEN m ELSE [m EXCEPT ![item.ref] = i]
             row == [st |-> item.st, email |-> item.email, ref |-> item.ref, groups |-> {}]
             c1 == [b EXCEPT !.made = Over(One(id, row), @),
                             !.madeByEmail[item.email] = id, !.madeByRef = known(@, id)]
             c2 == [b EXCEPT !.made[t.id] = Overwrite(@, item), !.madeByRef = known(@, t.id),
                             !.madeByEmail = Readdress(@, t.id, b.made[t.id].email, item.email)]
             c3 == [b EXCEPT !.users[t.id] = Overwrite(@, item), !.byRef = known(@, t.id), !.hit = @ \cup {t.id},
                             !.byEmail = Readdress(@, t.id, b.users[t.id].email, item.email)]
             Ok(c) == /\ DOMAIN c = BatchFields
                      /\ DOMAIN c.users = DOMAIN b.users
                      /\ DOMAIN c.made \subseteq DOMAIN b.made \cup {id}
                      /\ b.hit \subseteq c.hit
                      /\ \A u \in DOMAIN b.users \ c.hit : c.users[u] = b.users[u]
  <1>1. UpsertItem(b, item, id) \in {b, c1, c2, c3}
    BY DEF UpsertItem
  <1> HIDE DEF known, row, t
  <1>2. Ok(b)
    OBVIOUS
  <1>3. Ok(c1)
    BY DEF BatchFields, Over, One
  <1>4. Ok(c2)
    BY DEF BatchFields
  <1>5. Ok(c3)
    BY DEF BatchFields
  <1> HIDE DEF c1, c2, c3
  <1> QED
    BY <1>1, <1>2, <1>3, <1>4, <1>5

\* ... and so does a batch of one or two items.
LEMMA UpsertRows ==
    ASSUME NEW d, NEW items, Len(items) \in 1..MaxBatch, next \in Int
    PROVE  LET b == UpsertUsersByEmail(d, next, items)
           IN  /\ DOMAIN b.users = DOMAIN d.users
               /\ DOMAIN b.made \subseteq {next, next + 1}
               /\ \A u \in DOMAIN d.users \ b.hit : b.users[u] = d.users[u]
  <1> DEFINE b0 == LookupBefore(d)
             id1 == next + Len(items) - 1
             b1 == UpsertItem(b0, items[1], id1)
             b2 == UpsertItem(b1, items[MaxBatch], next)
             b == UpsertUsersByEmail(d, next, items)
  <1>1. b = IF Len(items) = MaxBatch THEN b2 ELSE b1
    BY DEF UpsertUsersByEmail
  <1>2. DOMAIN b0 = BatchFields /\ b0.users = d.users /\ DOMAIN b0.made = {}
    BY NoRows DEF LookupBefore, BatchFields
  <1>3. id1 \in {next, next + 1}
    <2>1. PICK n \in {1, 2} : n = Len(items)
      BY DEF MaxBatch
    <2>2. id1 = next + n - 1
      BY <2>1
    <2> HIDE DEF id1
    <2> QED
      BY <2>2
  <1> HIDE DEF b0, id1, b
  <1>4. /\ DOMAIN b1 = BatchFields /\ DOMAIN b1.users = DOMAIN b0.users
        /\ DOMAIN b1.made \subseteq DOMAIN b0.made \cup {id1}
        /\ \A u \in DOMAIN b0.users \ b1.hit : b1.users[u] = b0.users[u]
    BY <1>2, UpsertItemRows
  <1> HIDE DEF b1
  <1>5. /\ DOMAIN b2.users = DOMAIN b1.users
        /\ DOMAIN b2.made \subseteq DOMAIN b1.made \cup {next}
        /\ b1.hit \subseteq b2.hit
        /\ \A u \in DOMAIN b1.users \ b2.hit : b2.users[u] = b1.users[u]
    BY <1>4, UpsertItemRows
  <1> HIDE DEF b2
  <1>6. /\ DOMAIN b.users = DOMAIN d.users
        /\ DOMAIN b.made \subseteq {next, next + 1}
        /\ \A u \in DOMAIN d.users \ b.hit : b.users[u] = d.users[u]
    <2>1. CASE b = b1
      BY <2>1, <1>2, <1>3, <1>4
    <2>2. CASE b = b2
      BY <2>2, <1>2, <1>3, <1>4, <1>5
    <2> QED
      BY <1>1, <2>1, <2>2
  <1> QED
    BY <1>6 DEF b

\* A rewritten table of the same or fewer rows.
LEMMA GrowsTable ==
    ASSUME Base, NEW t \in PeopleTables, NEW f, DOMAIN f \subseteq DOMAIN mem[t] \cup {next, next + 1}
    PROVE  Grows([mem EXCEPT ![t] = f], PeopleTables)
  <1>1. t \in Tables /\ t # "org" /\ Fresh(t) = {next, next + 1}
    BY PeopleNames DEF Fresh
  <1> QED
    BY <1>1, PeopleNames DEF Grows, Base

LEMMA UsersGrow ==
    ASSUME Base
    PROVE  /\ \A e, st, gs : Grows(CreateUser(mem, next, e, st, gs), PeopleTables)
           /\ \A u, e, st, gs : Grows(UpdateUser(mem, u, e, st, gs), PeopleTables)
           /\ \A U, st : Grows(BatchUpdateUserStatus(mem, U, st), PeopleTables)
           /\ \A e, st : Grows(UpsertUserByEmail(mem, next, e, st), PeopleTables)
           /\ \A u : Grows(DeleteUser(mem, u), PeopleTables)
           /\ \A U : Grows(BatchDeleteUsers(mem, U), PeopleTables)
           /\ \A u : Grows(CreateUserInvitationDelivery(mem, next, u), PeopleTables)
           /\ \A i : Grows(ResendInvitationDelivery(mem, next, i), PeopleTables)
           /\ \A i, st : Grows(RecordUserInvitationReceipt(mem, i, st), PeopleTables)
           /\ \A i : Grows(CancelInvitationDelivery(mem, i), PeopleTables)
  <1> USE PeopleNames
  <1>1. \A e, st, gs : Grows(CreateUser(mem, next, e, st, gs), PeopleTables)
    BY GrowsPut, NextFresh DEF CreateUser
  <1>2. ASSUME NEW u, NEW e, NEW st, NEW gs PROVE Grows(UpdateUser(mem, u, e, st, gs), PeopleTables)
    <2>1. PICK f : /\ UpdateUser(mem, u, e, st, gs) = [mem EXCEPT !.users = f]
                   /\ DOMAIN f = DOMAIN mem.users
      BY DEF UpdateUser
    <2> QED
      BY <2>1, GrowsTable
  <1>3. ASSUME NEW U, NEW st PROVE Grows(BatchUpdateUserStatus(mem, U, st), PeopleTables)
    <2> DEFINE f == [u \in DOMAIN mem.users |-> IF u \in Changed(mem, U, st) THEN [mem.users[u] EXCEPT !.st = st]
                                                ELSE mem.users[u]]
    <2>1. BatchUpdateUserStatus(mem, U, st) = [mem EXCEPT !.users = f] /\ DOMAIN f = DOMAIN mem.users
      BY DEF BatchUpdateUserStatus
    <2> QED
      BY <2>1, GrowsTable
  <1>4. \A e, st : Grows(UpsertUserByEmail(mem, next, e, st), PeopleTables)
    BY <1>1, <1>2 DEF UpsertUserByEmail
  <1>5. \A u : Grows(DeleteUser(mem, u), PeopleTables)
    BY RemoveUsersGrows DEF DeleteUser
  <1>6. \A U : Grows(BatchDeleteUsers(mem, U), PeopleTables)
    BY RemoveUsersGrows DEF BatchDeleteUsers
  <1>7. \A u : Grows(CreateUserInvitationDelivery(mem, next, u), PeopleTables)
    BY GrowsPut, NextFresh DEF CreateUserInvitationDelivery
  <1>8. \A i : Grows(ResendInvitationDelivery(mem, next, i), PeopleTables)
    BY <1>7 DEF ResendInvitationDelivery
  <1>9. ASSUME NEW i, NEW st PROVE Grows([mem EXCEPT !.invites[i].st = st], PeopleTables)
    <2>1. PICK f : /\ [mem EXCEPT !.invites[i].st = st] = [mem EXCEPT !.invites = f]
                   /\ DOMAIN f = DOMAIN mem.invites
      OBVIOUS
    <2> QED
      BY <2>1, GrowsTable
  <1> QED
    BY <1>1, <1>2, <1>3, <1>4, <1>5, <1>6, <1>7, <1>8, <1>9
    DEF RecordUserInvitationReceipt, CancelInvitationDelivery

LEMMA BatchesShape == ASSUME Base, Batches PROVE Shape(PeopleTables, RowFields)
  <1> USE PeopleNames
  <1>1. CASE upsertEmployees
    <2>1. PICK n \in 1..MaxBatch : \E items \in [1..n -> Items] :
              LET b == UpsertUsersByEmail(mem, next, items)
                  U == b.hit \cup DOMAIN b.made
                  all == Over(b.made, b.users)
              IN  Request([mem EXCEPT !.users = all], TRUE,
                          [hist EXCEPT !.susp = (@ \ U) \cup {u \in DOMAIN all : u \in U /\ all[u].st = "suspended"}])
      BY <1>1 DEF upsertEmployees
    <2>2. PICK items \in [1..n -> Items] :
              LET b == UpsertUsersByEmail(mem, next, items)
                  U == b.hit \cup DOMAIN b.made
                  all == Over(b.made, b.users)
              IN  Request([mem EXCEPT !.users = all], TRUE,
                          [hist EXCEPT !.susp = (@ \ U) \cup {u \in DOMAIN all : u \in U /\ all[u].st = "suspended"}])
      BY <2>1
    <2> DEFINE b == UpsertUsersByEmail(mem, next, items)
               all == Over(b.made, b.users)
    <2>3. PICK S : Request([mem EXCEPT !.users = all], TRUE, [hist EXCEPT !.susp = S])
      BY <2>2
    <2>4. Len(items) \in 1..MaxBatch
      <3>1. n \in Nat /\ Len(items) = n
        BY DEF MaxBatch
      <3> QED
        BY <3>1
    <2>5. DOMAIN b.users = DOMAIN mem.users /\ DOMAIN b.made \subseteq {next, next + 1}
      BY <2>4, UpsertRows DEF Base
    <2> HIDE DEF b
    <2>6. DOMAIN all \subseteq DOMAIN mem.users \cup {next, next + 1}
      BY <2>5 DEF Over
    <2> HIDE DEF all
    <2> QED
      BY <2>3, <2>6, GrowsTable, RowRecall, RecallsItself, RequestShape
  <1>2. CASE deleteUser
    BY <1>2, UsersGrow, RecallsItself, RequestShape DEF deleteUser
  <1>3. CASE importUsersCSV
    BY <1>3, UsersGrow, RecallsItself, RowRecall, RequestShape DEF importUsersCSV
  <1> QED
    BY <1>1, <1>2, <1>3 DEF Batches

LEMMA WriteUserShape == ASSUME Base, WriteUser PROVE Shape(PeopleTables, PeopleFields)
  <1> USE PeopleNames
  <1> DEFINE u == pending.id
             d == UpdateUser(mem, u, pending.email, pending.st, pending.groups)
             g == IF pending.ask THEN Asks(hist, {u}, pending.st)
                  ELSE IF u \in DOMAIN mem.users /\ Row(u).st # pending.seen THEN Asks(hist, {u}, pending.seen)
                  ELSE hist
             h == Names(g, pending.groups)
             off == IF pending.off THEN h.off \cup ({u} \ hist.reg) ELSE h.off
  <1>1. Finish(u \in DOMAIN mem.users, d, FALSE, [h EXCEPT !.off = off])
    BY DEF WriteUser
  <1> HIDE DEF off
  <1>2. Recalls(h, PeopleFields)
    BY RecallsItself, PeopleRecall
  <1> HIDE DEF h
  <1>3. Recalls([h EXCEPT !.off = off], PeopleFields)
    BY <1>2, PeopleRecall
  <1>4. Grows(d, PeopleTables)
    BY UsersGrow
  <1> QED
    BY <1>1, <1>3, <1>4, FinishShape

LEMMA AccountsShape == ASSUME Base, Accounts PROVE Shape(PeopleTables, PeopleFields)
  <1> USE PeopleNames
  <1>1. CASE createUser
    BY <1>1, UsersGrow, RecallsItself, PeopleRecall, RequestShape DEF createUser
  <1>2. CASE appAdminAddUser
    BY <1>2, UsersGrow, RecallsItself, RequestShape DEF appAdminAddUser
  <1>3. CASE deleteUser \/ appAdminRemoveUser \/ deleteReferenceMember \/ deleteCurrentUser
    BY <1>3, UsersGrow, RecallsItself, RequestShape
    DEF deleteUser, appAdminRemoveUser, deleteReferenceMember, deleteCurrentUser
  <1>4. CASE batchUpdateUserStatus
    BY <1>4, UsersGrow, RecallsItself, PeopleRecall, RequestShape DEF batchUpdateUserStatus
  <1>5. CASE batchDeleteUsers
    BY <1>5, UsersGrow, RecallsItself, RequestShape DEF batchDeleteUsers
  <1>6. CASE importUsersCSV
    BY <1>6, UsersGrow, RecallsItself, PeopleRecall, RequestShape DEF importUsersCSV
  <1>7. CASE updateUser \/ updateReferenceMember \/ appAdminUpdateUserRole
    BY <1>7, BeginShape DEF updateUser, updateReferenceMember, appAdminUpdateUserRole
  <1>8. CASE WriteUser
    BY <1>8, WriteUserShape
  <1> QED
    BY <1>1, <1>2, <1>3, <1>4, <1>5, <1>6, <1>7, <1>8 DEF Accounts

\* The requests of the credential service, and the revocation of a sign-off.
Signs == {"off", "reg", "lost"}

CredentialStep ==
    /\ UNCHANGED <<family, mem, stored, next>>
    /\ DOMAIN hist' = HistFields /\ \A x \in HistFields \ Signs : hist'[x] = hist[x]

LEMMA CredentialSteps == ASSUME Base, MobileCredentials \/ GoogleSignOff PROVE CredentialStep
  <1> DEFINE Plain(h) == DOMAIN h = HistFields /\ \A x \in HistFields \ Signs : h[x] = hist[x]
  <1>1. Plain(hist) /\ Plain([hist EXCEPT !.reg = {}]) /\ \A u : Plain(Puts(u))
    BY DEF Base, HistFields, Signs, Puts
  <1>2. \A h : Plain(h) /\ Recorded(h) /\ UNCHANGED <<family, mem, stored, next>> => CredentialStep
    BY DEF Recorded, CredentialStep, Signs
  <1> HIDE DEF Plain
  <1>3. \A h : Plain(h) => DOMAIN h = HistFields
    BY DEF Plain
  <1>4. \A c, h : Plain(h) /\ CredentialRequest(c, h) => CredentialStep
    BY <1>2, <1>3, PersistRecorded DEF CredentialRequest
  <1>5. CASE appRegisterMobileCredential \/ appAdminCreateCredential \/ appAdminActivateCredential
    BY <1>1, <1>4, <1>5 DEF appRegisterMobileCredential, appAdminCreateCredential, appAdminActivateCredential
  <1>6. CASE appAdminSuspendCredential \/ appRefreshMobileCredential
    BY <1>1, <1>4, <1>6 DEF appAdminSuspendCredential, appRefreshMobileCredential
  <1>7. CASE RevokeOne
    BY <1>1, <1>4, <1>7 DEF RevokeOne
  <1>8. CASE adminRevokeAllUserCredentials
    BY <1>1, <1>2, <1>3, <1>8, RevokeRecorded DEF adminRevokeAllUserCredentials
  <1>9. CASE GoogleSignOff
    BY <1>1, <1>2, <1>3, <1>9, RevokeRecorded DEF GoogleSignOff
  <1> QED
    BY <1>5, <1>6, <1>7, <1>8, <1>9
    DEF MobileCredentials, appRevokeMobileCredential, adminRevokeMobileCredential, appAdminRevokeCredential

LEMMA CredentialsWait == MobileCredentials => pending' = pending
    BY DEF MobileCredentials, appRevokeMobileCredential, adminRevokeMobileCredential, appAdminRevokeCredential, RevokeOne,
           appRegisterMobileCredential, appAdminCreateCredential, appAdminActivateCredential, appAdminSuspendCredential,
           appRefreshMobileCredential, adminRevokeAllUserCredentials, CredentialRequest

LEMMA DirectorySyncShape == ASSUME Base, DirectorySync PROVE Shape(PeopleTables, PeopleFields)
  <1> USE PeopleNames
  <1>c. {"creds", "lost"} \subseteq PeopleFields
    BY DEF PeopleFields
  <1>1. CASE scimReplaceUser \/ scimPatchUser \/ scimDeleteUser
    BY <1>1, <1>c, BeginShape DEF scimReplaceUser, scimPatchUser, scimDeleteUser
  <1>2. CASE handleLarkUserDeleted \/ handleLarkUserUpdated
    BY <1>2, <1>c, BeginShape DEF handleLarkUserDeleted, handleLarkUserUpdated
  <1>3. CASE WriteUser
    BY <1>3, WriteUserShape
  <1>4. CASE scimCreateUser \/ handleLarkUserCreated \/ googleWorkspaceSyncUsers \/ appAdminUpdateUserRole
    BY <1>4, BeginShape DEF scimCreateUser, handleLarkUserCreated, googleWorkspaceSyncUsers, appAdminUpdateUserRole
  <1>5. CASE CreateAfterLookup
    BY <1>5, UsersGrow, RecallsItself, PeopleRecall, SaveShape DEF CreateAfterLookup
  <1>6. CASE GoogleSignOff \/ MobileCredentials
    BY <1>6, CredentialSteps DEF CredentialStep, Shape, HistFields, PeopleFields, RowFields, Signs
  <1>7. CASE deleteUser
    BY <1>7, UsersGrow, RecallsItself, RequestShape DEF deleteUser
  <1> QED
    BY <1>1, <1>2, <1>3, <1>4, <1>5, <1>6, <1>7 DEF DirectorySync

LEMMA InvitationsShape == ASSUME Base, Invitations PROVE Shape(PeopleTables, RowFields)
  <1> USE PeopleNames
  <1>1. CASE inviteUser \/ resendInvitation
    BY <1>1, UsersGrow, RecallsItself, SaveShape DEF inviteUser, resendInvitation
  <1>2. CASE dispatchUserInvitationEmail
    BY <1>2, UsersGrow, RecallsItself, FinishShape DEF dispatchUserInvitationEmail
  <1>3. CASE recordUserInvitationReceipt \/ receiveUserInvitationProviderReceipt \/ cancelInvitation
    BY <1>3, UsersGrow, RecallsItself, RequestShape
    DEF recordUserInvitationReceipt, receiveUserInvitationProviderReceipt, cancelInvitation
  <1>4. CASE batchInviteUsers
    BY <1>4, BeginShape DEF batchInviteUsers
  <1>5. CASE BatchInviteUsers
    <2>1. \/ \E u, rest : GoOn(CreateUserInvitationDelivery(mem, next, u), FALSE, hist, rest)
          \/ UNCHANGED <<family, mem, stored, creds, next, hist, budget>>
      BY <1>5 DEF BatchInviteUsers
    <2>2. CASE UNCHANGED <<family, mem, stored, creds, next, hist, budget>>
      BY <2>2 DEF Shape, Base
    <2>3. CASE \E u, rest : GoOn(CreateUserInvitationDelivery(mem, next, u), FALSE, hist, rest)
      BY <2>3, UsersGrow, RecallsItself, SaveShape DEF GoOn
    <2> QED
      BY <2>1, <2>2, <2>3
  <1>6. CASE deleteUser \/ appAdminAddUser
    BY <1>6, UsersGrow, RecallsItself, RequestShape DEF deleteUser, appAdminAddUser
  <1> QED
    BY <1>1, <1>2, <1>3, <1>4, <1>5, <1>6 DEF Invitations

\* What DeleteUserGroup leaves of the tables.
LEMMA DeleteGroupTables ==
    ASSUME NEW d, DOMAIN d = Tables, NEW g
    PROVE  /\ DOMAIN DeleteUserGroup(d, g) = Tables
           /\ \A t \in Tables \ {"groups", "rights", "links", "users"} : DeleteUserGroup(d, g)[t] = d[t]
           /\ DOMAIN DeleteUserGroup(d, g).groups = DOMAIN d.groups \ {g}
           /\ \A x \in DOMAIN d.groups \ {g} : DeleteUserGroup(d, g).groups[x] = d.groups[x]
           /\ DOMAIN DeleteUserGroup(d, g).rights = {x \in DOMAIN d.rights : d.rights[x].to # g}
           /\ \A x \in DOMAIN d.rights : d.rights[x].to # g => DeleteUserGroup(d, g).rights[x] = d.rights[x]
           /\ DOMAIN DeleteUserGroup(d, g).links = {x \in DOMAIN d.links : d.links[x].group # g}
           /\ \A x \in DOMAIN d.links : d.links[x].group # g => DeleteUserGroup(d, g).links[x] = d.links[x]
           /\ DOMAIN DeleteUserGroup(d, g).users = DOMAIN d.users
           /\ \A u \in DOMAIN d.users : DeleteUserGroup(d, g).users[u] = Leave(d.users[u], g)
  <1> DEFINE gone == Rows(d, "rights", LAMBDA r : r.to = g)
             left == Rows(d, "links", LAMBDA l : l.group = g)
             d1 == Drop(d, "groups", {g})
             d2 == Drop(d1, "rights", gone)
             d3 == Drop(d2, "links", left)
             r == [d3 EXCEPT !.users = [u \in DOMAIN @ |-> Leave(@[u], g)]]
  <1>T. "users" \in Tables /\ "rights" \in Tables /\ "links" \in Tables /\ "groups" \in Tables
    BY DEF Tables
  <1>0. r = DeleteUserGroup(d, g)
    BY DEF DeleteUserGroup
  <1>g. gone = {x \in DOMAIN d.rights : d.rights[x].to = g} /\ left = {x \in DOMAIN d.links : d.links[x].group = g}
    BY DEF Rows
  <1>1. /\ DOMAIN d1 = Tables /\ \A t \in Tables \ {"groups"} : d1[t] = d[t]
        /\ DOMAIN d1.groups = DOMAIN d.groups \ {g} /\ \A i \in DOMAIN d.groups \ {g} : d1.groups[i] = d.groups[i]
    BY <1>T, DropTables
  <1> HIDE DEF gone, left, d1
  <1>2. /\ DOMAIN d2 = Tables /\ \A t \in Tables \ {"rights"} : d2[t] = d1[t]
        /\ DOMAIN d2.rights = DOMAIN d1.rights \ gone /\ \A i \in DOMAIN d1.rights \ gone : d2.rights[i] = d1.rights[i]
    BY <1>T, <1>1, DropTables
  <1> HIDE DEF d2
  <1>3. /\ DOMAIN d3 = Tables /\ \A t \in Tables \ {"links"} : d3[t] = d2[t]
        /\ DOMAIN d3.links = DOMAIN d2.links \ left /\ \A i \in DOMAIN d2.links \ left : d3.links[i] = d2.links[i]
    BY <1>T, <1>2, DropTables
  <1> HIDE DEF d3
  <1>4. /\ DOMAIN r = Tables /\ \A t \in Tables \ {"users"} : r[t] = d3[t]
        /\ r.users = [u \in DOMAIN d3.users |-> Leave(d3.users[u], g)]
    <2> DEFINE f == [u \in DOMAIN d3.users |-> Leave(d3.users[u], g)]
    <2>1. r = [d3 EXCEPT !.users = f]
      OBVIOUS
    <2> HIDE DEF f
    <2>2. DOMAIN r = Tables /\ (\A t \in Tables \ {"users"} : r[t] = d3[t]) /\ r.users = f
      BY <1>T, <1>3, <2>1
    <2> QED
      BY <2>2 DEF f
  <1> HIDE DEF r
  <1>5. d3.users = d.users /\ d3.groups = d1.groups /\ d3.rights = d2.rights /\ d2.links = d.links /\ d1.rights = d.rights
    BY <1>T, <1>1, <1>2, <1>3
  <1>6. \A t \in Tables \ {"groups", "rights", "links", "users"} : r[t] = d[t]
    BY <1>1, <1>2, <1>3, <1>4
  <1>7. r.groups = d1.groups /\ r.rights = d2.rights /\ r.links = d3.links
    BY <1>T, <1>4, <1>5
  <1>8. DOMAIN r.users = DOMAIN d.users /\ \A u \in DOMAIN d.users : r.users[u] = Leave(d.users[u], g)
    BY <1>4, <1>5
  <1>9. /\ DOMAIN r.groups = DOMAIN d.groups \ {g} /\ \A x \in DOMAIN d.groups \ {g} : r.groups[x] = d.groups[x]
        /\ DOMAIN r.rights = DOMAIN d.rights \ gone /\ \A x \in DOMAIN d.rights \ gone : r.rights[x] = d.rights[x]
        /\ DOMAIN r.links = DOMAIN d.links \ left /\ \A x \in DOMAIN d.links \ left : r.links[x] = d.links[x]
    BY <1>1, <1>2, <1>3, <1>5, <1>7
  <1>10. /\ DOMAIN r.rights = {x \in DOMAIN d.rights : d.rights[x].to # g}
         /\ \A x \in DOMAIN d.rights : d.rights[x].to # g => r.rights[x] = d.rights[x]
         /\ DOMAIN r.links = {x \in DOMAIN d.links : d.links[x].group # g}
         /\ \A x \in DOMAIN d.links : d.links[x].group # g => r.links[x] = d.links[x]
    BY <1>9, <1>g
  <1> QED
    BY <1>0, <1>4, <1>6, <1>8, <1>9, <1>10

\* What DeleteTeam leaves of the tables.
LEMMA DeleteTeamTables ==
    ASSUME NEW d, DOMAIN d = Tables, NEW k
    PROVE  /\ DOMAIN DeleteTeam(d, k) = Tables
           /\ \A t \in Tables \ {"teams", "members", "rights"} : DeleteTeam(d, k)[t] = d[t]
           /\ DOMAIN DeleteTeam(d, k).teams = DOMAIN d.teams \ {k}
           /\ DOMAIN DeleteTeam(d, k).members = {x \in DOMAIN d.members : d.members[x].team # k}
           /\ \A x \in DOMAIN d.members : d.members[x].team # k => DeleteTeam(d, k).members[x] = d.members[x]
           /\ DOMAIN DeleteTeam(d, k).rights = {x \in DOMAIN d.rights : ~(d.rights[x].kind = "Team" /\ d.rights[x].who = k)}
           /\ \A x \in DOMAIN d.rights :
                  ~(d.rights[x].kind = "Team" /\ d.rights[x].who = k) => DeleteTeam(d, k).rights[x] = d.rights[x]
  <1> DEFINE gone == Rows(d, "members", LAMBDA m : m.team = k)
             left == Rows(d, "rights", LAMBDA r : r.kind = "Team" /\ r.who = k)
             d1 == Drop(d, "teams", {k})
             d2 == Drop(d1, "members", gone)
             d3 == Drop(d2, "rights", left)
  <1>T. "teams" \in Tables /\ "rights" \in Tables /\ "members" \in Tables
    BY DEF Tables
  <1>0. d3 = DeleteTeam(d, k)
    BY DEF DeleteTeam
  <1>g. /\ gone = {x \in DOMAIN d.members : d.members[x].team = k}
        /\ left = {x \in DOMAIN d.rights : d.rights[x].kind = "Team" /\ d.rights[x].who = k}
    BY DEF Rows
  <1>1. /\ DOMAIN d1 = Tables /\ \A t \in Tables \ {"teams"} : d1[t] = d[t]
        /\ DOMAIN d1.teams = DOMAIN d.teams \ {k}
    BY <1>T, DropTables
  <1> HIDE DEF gone, left, d1
  <1>2. /\ DOMAIN d2 = Tables /\ \A t \in Tables \ {"members"} : d2[t] = d1[t]
        /\ DOMAIN d2.members = DOMAIN d1.members \ gone
        /\ \A i \in DOMAIN d1.members \ gone : d2.members[i] = d1.members[i]
    BY <1>T, <1>1, DropTables
  <1> HIDE DEF d2
  <1>3. /\ DOMAIN d3 = Tables /\ \A t \in Tables \ {"rights"} : d3[t] = d2[t]
        /\ DOMAIN d3.rights = DOMAIN d2.rights \ left
        /\ \A i \in DOMAIN d2.rights \ left : d3.rights[i] = d2.rights[i]
    BY <1>T, <1>2, DropTables
  <1> HIDE DEF d3
  <1>5. d3.teams = d1.teams /\ d3.members = d2.members /\ d2.rights = d.rights /\ d1.members = d.members
    BY <1>T, <1>1, <1>2, <1>3
  <1>6. \A t \in Tables \ {"teams", "members", "rights"} : d3[t] = d[t]
    BY <1>1, <1>2, <1>3
  <1>7. /\ DOMAIN d3.members = DOMAIN d.members \ gone /\ \A x \in DOMAIN d.members \ gone : d3.members[x] = d.members[x]
        /\ DOMAIN d3.rights = DOMAIN d.rights \ left /\ \A x \in DOMAIN d.rights \ left : d3.rights[x] = d.rights[x]
    BY <1>2, <1>3, <1>5
  <1>8. /\ DOMAIN d3.members = {x \in DOMAIN d.members : d.members[x].team # k}
        /\ \A x \in DOMAIN d.members : d.members[x].team # k => d3.members[x] = d.members[x]
        /\ DOMAIN d3.rights = {x \in DOMAIN d.rights : ~(d.rights[x].kind = "Team" /\ d.rights[x].who = k)}
        /\ \A x \in DOMAIN d.rights : ~(d.rights[x].kind = "Team" /\ d.rights[x].who = k) => d3.rights[x] = d.rights[x]
    BY <1>7, <1>g
  <1> QED
    BY <1>0, <1>1, <1>3, <1>5, <1>6, <1>8

LEMMA DirectoryGrows ==
    ASSUME Base
    PROVE  /\ \A g : Grows(DeleteUserGroup(mem, g), PeopleTables)
           /\ \A k : Grows(DeleteTeam(mem, k), PeopleTables)
           /\ \A t, kind, who : Grows(CreateTeamMembership(mem, next, t, kind, who), PeopleTables)
           /\ \A r, kind, who, to : Grows(UpdateRoleAssignment(mem, r, kind, who, to), PeopleTables)
           /\ \A R, S : Grows(ReviewAccessRights(mem, R, S), PeopleTables)
           /\ \A ms : Grows(CreateUserGroup(mem, next, ms), PeopleTables)
           /\ \A g \in DOMAIN mem.groups : \A ms : Grows(UpdateUserGroup(mem, g, ms), PeopleTables)
           /\ \A kind, who, to : Grows(CreateRoleAssignment(mem, next, kind, who, to), PeopleTables)
  <1> USE PeopleNames
  <1>m. DOMAIN mem = Tables
    BY DEF Base
  <1>1. ASSUME NEW g PROVE Grows(DeleteUserGroup(mem, g), PeopleTables)
    <2> DEFINE r == DeleteUserGroup(mem, g)
    <2>1. DOMAIN r = Tables /\ \A t \in Tables \ {"groups", "rights", "links", "users"} : r[t] = mem[t]
      BY <1>m, DeleteGroupTables
    <2>2. /\ DOMAIN r.groups \subseteq DOMAIN mem.groups /\ DOMAIN r.rights \subseteq DOMAIN mem.rights
          /\ DOMAIN r.links \subseteq DOMAIN mem.links /\ DOMAIN r.users \subseteq DOMAIN mem.users
      BY <1>m, DeleteGroupTables
    <2> HIDE DEF r
    <2>3. \A t \in PeopleTables : DOMAIN r[t] \subseteq DOMAIN mem[t]
      BY <2>1, <2>2 DEF PeopleTables
    <2>4. \A t \in Tables \ PeopleTables : r[t] = mem[t]
      BY <2>1 DEF PeopleTables
    <2>5. Grows(r, PeopleTables)
      BY <2>1, <2>3, <2>4 DEF Grows
    <2> QED
      BY <2>5 DEF r
  <1>2. ASSUME NEW k PROVE Grows(DeleteTeam(mem, k), PeopleTables)
    <2> DEFINE r == DeleteTeam(mem, k)
    <2>1. DOMAIN r = Tables /\ \A t \in Tables \ {"teams", "members", "rights"} : r[t] = mem[t]
      BY <1>m, DeleteTeamTables
    <2>2. /\ DOMAIN r.teams \subseteq DOMAIN mem.teams /\ DOMAIN r.rights \subseteq DOMAIN mem.rights
          /\ DOMAIN r.members \subseteq DOMAIN mem.members
      BY <1>m, DeleteTeamTables
    <2> HIDE DEF r
    <2>3. \A t \in PeopleTables : DOMAIN r[t] \subseteq DOMAIN mem[t]
      BY <2>1, <2>2 DEF PeopleTables
    <2>4. \A t \in Tables \ PeopleTables : r[t] = mem[t]
      BY <2>1 DEF PeopleTables
    <2>5. Grows(r, PeopleTables)
      BY <2>1, <2>3, <2>4 DEF Grows
    <2> QED
      BY <2>5 DEF r
  <1>3. \A t, kind, who : Grows(CreateTeamMembership(mem, next, t, kind, who), PeopleTables)
    BY GrowsPut, GrowsNot, NextFresh DEF CreateTeamMembership
  <1>4. ASSUME NEW r, NEW kind, NEW who, NEW to PROVE Grows(UpdateRoleAssignment(mem, r, kind, who, to), PeopleTables)
    <2> DEFINE f == [mem.rights EXCEPT ![r] = [kind |-> kind, who |-> who, to |-> to, reviewed |-> @.reviewed]]
    <2>1. UpdateRoleAssignment(mem, r, kind, who, to) = [mem EXCEPT !.rights = f]
      BY DEF UpdateRoleAssignment
    <2>2. DOMAIN f = DOMAIN mem.rights
      OBVIOUS
    <2> HIDE DEF f
    <2> QED
      BY <2>1, <2>2, GrowsTable
  <1>5. \A R, S : Grows(ReviewAccessRights(mem, R, S), PeopleTables)
    BY ReviewGrows
  <1>6. \A ms : Grows(CreateUserGroup(mem, next, ms), PeopleTables)
    BY GrowsPut, NextFresh DEF CreateUserGroup
  <1>7. \A g \in DOMAIN mem.groups : \A ms : Grows(UpdateUserGroup(mem, g, ms), PeopleTables)
    BY GrowsPut DEF UpdateUserGroup
  <1>8. \A kind, who, to : Grows(CreateRoleAssignment(mem, next, kind, who, to), PeopleTables)
    BY GrowsPut, NextFresh DEF CreateRoleAssignment
  <1> QED
    BY <1>1, <1>2, <1>3, <1>4, <1>5, <1>6, <1>7, <1>8

LEMMA GroupsShape == ASSUME Base, Groups \/ createUser \/ deleteUser PROVE Shape(PeopleTables, RowFields)
  <1> USE PeopleNames
  <1>1. CASE createUserGroup \/ updateUserGroup \/ appAdminCreateGroup
    BY <1>1, DirectoryGrows, RecallsItself, RowRecall, RequestShape
    DEF createUserGroup, updateUserGroup, appAdminCreateGroup
  <1>2. CASE deleteReferenceGroupZone \/ deleteReferenceGroup \/ appAdminDeleteGroup
    BY <1>2, DirectoryGrows, RecallsItself, RequestShape
    DEF deleteReferenceGroupZone, deleteReferenceGroup, appAdminDeleteGroup
  <1>3. CASE createReferenceGroup
    BY <1>3, DirectoryGrows, RecallsItself, RowRecall, SaveShape DEF createReferenceGroup
  <1>4. CASE RestrictGroup
    BY <1>4, GrowsNot, RecallsItself, FinishShape DEF RestrictGroup, UpdateUserGroupRestrictions
  <1>5. CASE updateReferenceGroup \/ appAdminUpdateGroup \/ appAdminAddGroupMember \/ appAdminRemoveGroupMember
    BY <1>5, BeginShape DEF updateReferenceGroup, appAdminUpdateGroup, appAdminAddGroupMember, appAdminRemoveGroupMember
  <1>6. CASE WriteGroup
    BY <1>6, DirectoryGrows, RecallsItself, RowRecall, FinishShape DEF WriteGroup
  <1>7. CASE createReferenceGroupLink
    BY <1>7, PutRequest, NextFresh DEF createReferenceGroupLink, CreateGroupLink
  <1>8. CASE updateReferenceGroupLink
    BY <1>8, PutRequest DEF updateReferenceGroupLink, UpdateGroupLink, Reachable
  <1>9. CASE deleteReferenceGroupLink
    BY <1>9, DropRequest DEF deleteReferenceGroupLink, DeleteGroupLink
  <1>10. CASE verifyReferenceGroupLinkToken
    BY <1>10, IdleRequest DEF verifyReferenceGroupLinkToken, VerifyGroupLinkToken
  <1>11. CASE createUser
    BY <1>11, UsersGrow, RecallsItself, RowRecall, RequestShape DEF createUser
  <1>12. CASE deleteUser
    BY <1>12, UsersGrow, RecallsItself, RequestShape DEF deleteUser
  <1> QED
    BY <1>1, <1>2, <1>3, <1>4, <1>5, <1>6, <1>7, <1>8, <1>9, <1>10, <1>11, <1>12 DEF Groups

LEMMA RightsShape == ASSUME Base, Rights \/ deleteUser \/ batchDeleteUsers \/ createGuest \/ deleteGuest PROVE Shape(PeopleTables, RowFields)
  <1> USE PeopleNames
  <1>1. CASE createReferenceTeam
    BY <1>1, PutRequest, NextFresh DEF createReferenceTeam, CreateTeam
  <1>2. CASE updateReferenceTeam
    BY <1>2, PutRequest DEF updateReferenceTeam, UpdateTeam
  <1>3. CASE deleteReferenceTeam \/ deleteReferenceGroup
    BY <1>3, DirectoryGrows, RecallsItself, RequestShape DEF deleteReferenceTeam, deleteReferenceGroup
  <1>4. CASE createReferenceTeamMembership
    BY <1>4, DirectoryGrows, RecallsItself, RowRecall, RequestShape DEF createReferenceTeamMembership
  <1>5. CASE deleteReferenceTeamMembership \/ appAdminRemoveTeamMember
    BY <1>5, DropRequest DEF deleteReferenceTeamMembership, appAdminRemoveTeamMember, DeleteTeamMembership
  <1>6. CASE appAdminAddTeamMember \/ appAdminAssignTeamAccessRight \/ updateReferenceAccessRightsSchedule
    BY <1>6, BeginShape DEF appAdminAddTeamMember, appAdminAssignTeamAccessRight, updateReferenceAccessRightsSchedule
  <1>7. CASE WriteMember
    BY <1>7, DirectoryGrows, RecallsItself, RowRecall, FinishShape DEF WriteMember
  <1>8. CASE createReferenceRoleAssignment \/ updateReferenceRoleAssignment
    BY <1>8, DirectoryGrows, RecallsItself, RowRecall, RequestShape
    DEF createReferenceRoleAssignment, updateReferenceRoleAssignment
  <1>9. CASE deleteReferenceRoleAssignment \/ appAdminRemoveTeamAccessRight
    BY <1>9, DropRequest DEF deleteReferenceRoleAssignment, appAdminRemoveTeamAccessRight, DeleteRoleAssignment
  <1>10. CASE WriteTeamRight
    BY <1>10, DirectoryGrows, RecallsItself, RowRecall, FinishShape DEF WriteTeamRight
  <1>11. CASE reviewReferenceAccessRights
    BY <1>11, DirectoryGrows, RecallsItself, RequestShape DEF reviewReferenceAccessRights
  <1>12. CASE WriteRight
    BY <1>12, DirectoryGrows, RecallsItself, RowRecall, FinishShape DEF WriteRight
  <1>13. CASE WriteShare
    BY <1>13, FinishShape, GrowsPut, RecallsItself DEF WriteShare, UpdateTemporaryAccess
  <1>14. CASE deleteUser \/ batchDeleteUsers
    BY <1>14, UsersGrow, RecallsItself, RequestShape DEF deleteUser, batchDeleteUsers
  <1>15. CASE createGuest
    BY <1>15, PutRequest, NextFresh DEF createGuest, CreateGuest
  <1>16. CASE deleteGuest
    BY <1>16, DropRequest DEF deleteGuest, DeleteGuest
  <1> QED
    BY <1>1, <1>2, <1>3, <1>4, <1>5, <1>6, <1>7, <1>8, <1>9, <1>10, <1>11, <1>12, <1>13, <1>14, <1>15, <1>16 DEF Rights

LEMMA SpaceNames ==
    /\ SpaceTables \in SUBSET Tables /\ "org" \in Tables \ SpaceTables
    /\ \A t \in {"buildings", "floors", "areas", "doors", "doorGroups"} : t \in SpaceTables
    BY DEF SpaceTables, Tables

\* What goes with the areas A and the doors D.
LEMMA ClearTables ==
    ASSUME NEW d, DOMAIN d = Tables, NEW A, NEW D
    PROVE  /\ DOMAIN Clear(d, A, D) = Tables
           /\ \A t \in Tables \ {"areas", "doors", "doorGroups"} : Clear(d, A, D)[t] = d[t]
           /\ DOMAIN Clear(d, A, D).areas = DOMAIN d.areas \ A
           /\ \A a \in DOMAIN d.areas \ A : Clear(d, A, D).areas[a] = d.areas[a]
           /\ DOMAIN Clear(d, A, D).doors = DOMAIN d.doors \ D
           /\ \A x \in DOMAIN d.doors \ D : Clear(d, A, D).doors[x] = d.doors[x]
           /\ DOMAIN Clear(d, A, D).doorGroups = DOMAIN d.doorGroups
           /\ \A g \in DOMAIN d.doorGroups : Clear(d, A, D).doorGroups[g] = d.doorGroups[g] \ D
  <1> DEFINE d1 == Drop(d, "areas", A)
             d2 == Drop(d1, "doors", D)
             r == [d2 EXCEPT !.doorGroups = [g \in DOMAIN @ |-> @[g] \ D]]
  <1>T. "areas" \in Tables /\ "doors" \in Tables /\ "doorGroups" \in Tables
    BY SpaceNames
  <1>0. r = Clear(d, A, D)
    BY DEF Clear, removeDoorIDsFromGroups
  <1>1. /\ DOMAIN d1 = Tables /\ \A t \in Tables \ {"areas"} : d1[t] = d[t]
        /\ DOMAIN d1.areas = DOMAIN d.areas \ A /\ \A a \in DOMAIN d.areas \ A : d1.areas[a] = d.areas[a]
    BY <1>T, DropTables
  <1> HIDE DEF d1
  <1>2. /\ DOMAIN d2 = Tables /\ \A t \in Tables \ {"doors"} : d2[t] = d1[t]
        /\ DOMAIN d2.doors = DOMAIN d1.doors \ D /\ \A x \in DOMAIN d1.doors \ D : d2.doors[x] = d1.doors[x]
    BY <1>T, <1>1, DropTables
  <1> HIDE DEF d2
  <1>3. /\ DOMAIN r = Tables /\ \A t \in Tables \ {"doorGroups"} : r[t] = d2[t]
        /\ r.doorGroups = [g \in DOMAIN d2.doorGroups |-> d2.doorGroups[g] \ D]
    BY <1>T, <1>2
  <1> HIDE DEF r
  <1>4. d1.doors = d.doors /\ d2.doorGroups = d.doorGroups /\ r.areas = d1.areas /\ r.doors = d2.doors
    BY <1>T, <1>1, <1>2, <1>3
  <1> QED
    BY <1>0, <1>1, <1>2, <1>3, <1>4

\* DeleteBuilding and DeleteFloor: the areas and doors below go, then the floors, then the mark.
LEMMA DeleteBuildingTables ==
    ASSUME NEW d, DOMAIN d = Tables, NEW b
    PROVE  /\ DOMAIN DeleteBuilding(d, b) = Tables
           /\ \A t \in Tables \ SpaceTables : DeleteBuilding(d, b)[t] = d[t]
           /\ DOMAIN DeleteBuilding(d, b).buildings = DOMAIN d.buildings
           /\ \A c \in DOMAIN d.buildings :
                  DeleteBuilding(d, b).buildings[c] = IF c = b THEN "archived" ELSE d.buildings[c]
           /\ DOMAIN DeleteBuilding(d, b).floors = {f \in DOMAIN d.floors : d.floors[f].b # b}
           /\ \A f \in DOMAIN d.floors : d.floors[f].b # b => DeleteBuilding(d, b).floors[f] = d.floors[f]
           /\ DOMAIN DeleteBuilding(d, b).areas = {a \in DOMAIN d.areas : d.areas[a].b # b}
           /\ \A a \in DOMAIN d.areas : d.areas[a].b # b => DeleteBuilding(d, b).areas[a] = d.areas[a]
           /\ DOMAIN DeleteBuilding(d, b).doors = {x \in DOMAIN d.doors : d.doors[x].b # b}
           /\ \A x \in DOMAIN d.doors : d.doors[x].b # b => DeleteBuilding(d, b).doors[x] = d.doors[x]
           /\ DOMAIN DeleteBuilding(d, b).doorGroups = DOMAIN d.doorGroups
           /\ \A g \in DOMAIN d.doorGroups :
                  DeleteBuilding(d, b).doorGroups[g] = d.doorGroups[g] \ {x \in DOMAIN d.doors : d.doors[x].b = b}
  <1> DEFINE A == Rows(d, "areas", LAMBDA r : r.b = b)
             D == Rows(d, "doors", LAMBDA r : r.b = b)
             E == Rows(d, "floors", LAMBDA r : r.b = b)
             d1 == Clear(d, A, D)
             d2 == Drop(d1, "floors", E)
             r == [d2 EXCEPT !.buildings[b] = "archived"]
  <1>T. \A t \in {"buildings", "floors", "areas", "doors", "doorGroups"} : t \in Tables
    BY SpaceNames
  <1>0. r = DeleteBuilding(d, b)
    BY DEF DeleteBuilding
  <1>g. /\ A = {a \in DOMAIN d.areas : d.areas[a].b = b} /\ D = {x \in DOMAIN d.doors : d.doors[x].b = b}
        /\ E = {f \in DOMAIN d.floors : d.floors[f].b = b}
    BY DEF Rows
  <1> HIDE DEF A, D, E
  <1>1. /\ DOMAIN d1 = Tables /\ \A t \in Tables \ {"areas", "doors", "doorGroups"} : d1[t] = d[t]
        /\ DOMAIN d1.areas = DOMAIN d.areas \ A /\ \A a \in DOMAIN d.areas \ A : d1.areas[a] = d.areas[a]
        /\ DOMAIN d1.doors = DOMAIN d.doors \ D /\ \A x \in DOMAIN d.doors \ D : d1.doors[x] = d.doors[x]
        /\ DOMAIN d1.doorGroups = DOMAIN d.doorGroups
        /\ \A g \in DOMAIN d.doorGroups : d1.doorGroups[g] = d.doorGroups[g] \ D
    BY ClearTables
  <1> HIDE DEF d1
  <1>2. /\ DOMAIN d2 = Tables /\ \A t \in Tables \ {"floors"} : d2[t] = d1[t]
        /\ DOMAIN d2.floors = DOMAIN d1.floors \ E /\ \A f \in DOMAIN d1.floors \ E : d2.floors[f] = d1.floors[f]
    BY <1>T, <1>1, DropTables
  <1> HIDE DEF d2
  <1>3. /\ DOMAIN r = Tables /\ \A t \in Tables \ {"buildings"} : r[t] = d2[t]
        /\ DOMAIN r.buildings = DOMAIN d2.buildings
        /\ \A c \in DOMAIN d2.buildings : r.buildings[c] = IF c = b THEN "archived" ELSE d2.buildings[c]
    BY <1>T, <1>2
  <1> HIDE DEF r
  <1>4. /\ d1.floors = d.floors /\ r.floors = d2.floors /\ r.areas = d1.areas /\ r.doors = d1.doors
        /\ r.doorGroups = d1.doorGroups /\ d2.buildings = d.buildings
    BY <1>T, <1>1, <1>2, <1>3
  <1>5. \A t \in Tables \ SpaceTables : r[t] = d[t]
    BY <1>1, <1>2, <1>3, SpaceNames DEF SpaceTables
  <1>6. /\ DOMAIN r.areas = {a \in DOMAIN d.areas : d.areas[a].b # b}
        /\ \A a \in DOMAIN d.areas : d.areas[a].b # b => r.areas[a] = d.areas[a]
    BY <1>1, <1>4, <1>g
  <1>7. /\ DOMAIN r.doors = {x \in DOMAIN d.doors : d.doors[x].b # b}
        /\ \A x \in DOMAIN d.doors : d.doors[x].b # b => r.doors[x] = d.doors[x]
        /\ DOMAIN r.doorGroups = DOMAIN d.doorGroups
        /\ \A g \in DOMAIN d.doorGroups : r.doorGroups[g] = d.doorGroups[g] \ {x \in DOMAIN d.doors : d.doors[x].b = b}
    BY <1>1, <1>4, <1>g
  <1>8. /\ DOMAIN r.floors = {f \in DOMAIN d.floors : d.floors[f].b # b}
        /\ \A f \in DOMAIN d.floors : d.floors[f].b # b => r.floors[f] = d.floors[f]
    BY <1>2, <1>4, <1>g
  <1> QED
    BY <1>0, <1>3, <1>4, <1>5, <1>6, <1>7, <1>8

LEMMA DeleteFloorTables ==
    ASSUME NEW d, DOMAIN d = Tables, NEW f
    PROVE  /\ DOMAIN DeleteFloor(d, f) = Tables
           /\ \A t \in Tables \ SpaceTables : DeleteFloor(d, f)[t] = d[t]
           /\ DeleteFloor(d, f).buildings = d.buildings
           /\ DOMAIN DeleteFloor(d, f).floors = DOMAIN d.floors \ {f}
           /\ \A g \in DOMAIN d.floors \ {f} : DeleteFloor(d, f).floors[g] = d.floors[g]
           /\ DOMAIN DeleteFloor(d, f).areas = {a \in DOMAIN d.areas : d.areas[a].f # f}
           /\ \A a \in DOMAIN d.areas : d.areas[a].f # f => DeleteFloor(d, f).areas[a] = d.areas[a]
           /\ DOMAIN DeleteFloor(d, f).doors = {x \in DOMAIN d.doors : d.doors[x].f # f}
           /\ \A x \in DOMAIN d.doors : d.doors[x].f # f => DeleteFloor(d, f).doors[x] = d.doors[x]
           /\ DOMAIN DeleteFloor(d, f).doorGroups = DOMAIN d.doorGroups
           /\ \A g \in DOMAIN d.doorGroups :
                  DeleteFloor(d, f).doorGroups[g] = d.doorGroups[g] \ {x \in DOMAIN d.doors : d.doors[x].f = f}
  <1> DEFINE A == Rows(d, "areas", LAMBDA r : r.f = f)
             D == Rows(d, "doors", LAMBDA r : r.f = f)
             d1 == Clear(d, A, D)
             d2 == Drop(d1, "floors", {f})
  <1>T. \A t \in {"buildings", "floors", "areas", "doors", "doorGroups"} : t \in Tables
    BY SpaceNames
  <1>0. d2 = DeleteFloor(d, f)
    BY DEF DeleteFloor
  <1>g. A = {a \in DOMAIN d.areas : d.areas[a].f = f} /\ D = {x \in DOMAIN d.doors : d.doors[x].f = f}
    BY DEF Rows
  <1> HIDE DEF A, D
  <1>1. /\ DOMAIN d1 = Tables /\ \A t \in Tables \ {"areas", "doors", "doorGroups"} : d1[t] = d[t]
        /\ DOMAIN d1.areas = DOMAIN d.areas \ A /\ \A a \in DOMAIN d.areas \ A : d1.areas[a] = d.areas[a]
        /\ DOMAIN d1.doors = DOMAIN d.doors \ D /\ \A x \in DOMAIN d.doors \ D : d1.doors[x] = d.doors[x]
        /\ DOMAIN d1.doorGroups = DOMAIN d.doorGroups
        /\ \A g \in DOMAIN d.doorGroups : d1.doorGroups[g] = d.doorGroups[g] \ D
    BY ClearTables
  <1> HIDE DEF d1
  <1>2. /\ DOMAIN d2 = Tables /\ \A t \in Tables \ {"floors"} : d2[t] = d1[t]
        /\ DOMAIN d2.floors = DOMAIN d1.floors \ {f} /\ \A g \in DOMAIN d1.floors \ {f} : d2.floors[g] = d1.floors[g]
    BY <1>T, <1>1, DropTables
  <1> HIDE DEF d2
  <1>4. /\ d1.floors = d.floors /\ d2.areas = d1.areas /\ d2.doors = d1.doors
        /\ d2.doorGroups = d1.doorGroups /\ d2.buildings = d.buildings
    BY <1>T, <1>1, <1>2
  <1>5. \A t \in Tables \ SpaceTables : d2[t] = d[t]
    BY <1>1, <1>2, SpaceNames DEF SpaceTables
  <1>6. /\ DOMAIN d2.areas = {a \in DOMAIN d.areas : d.areas[a].f # f}
        /\ \A a \in DOMAIN d.areas : d.areas[a].f # f => d2.areas[a] = d.areas[a]
    BY <1>1, <1>4, <1>g
  <1>7. /\ DOMAIN d2.doors = {x \in DOMAIN d.doors : d.doors[x].f # f}
        /\ \A x \in DOMAIN d.doors : d.doors[x].f # f => d2.doors[x] = d.doors[x]
        /\ DOMAIN d2.doorGroups = DOMAIN d.doorGroups
        /\ \A g \in DOMAIN d.doorGroups : d2.doorGroups[g] = d.doorGroups[g] \ {x \in DOMAIN d.doors : d.doors[x].f = f}
    BY <1>1, <1>4, <1>g
  <1> QED
    BY <1>0, <1>2, <1>4, <1>5, <1>6, <1>7

\* The rows of the space service.
MoveTo(row, b) == [row EXCEPT !.b = b]
Spot(b, f) == [b |-> b, f |-> f]
Leaf(b, f, a) == [b |-> b, f |-> f, a |-> a]

\* UpdateFloor to another building and UpdateArea to another place.
LEMMA UpdateFloorTables ==
    ASSUME NEW d, DOMAIN d = Tables, NEW f \in DOMAIN d.floors, NEW b, d.floors[f].b # b
    PROVE  /\ DOMAIN UpdateFloor(d, f, b) = Tables
           /\ \A t \in Tables \ {"floors", "areas", "doors"} : UpdateFloor(d, f, b)[t] = d[t]
           /\ DOMAIN UpdateFloor(d, f, b).floors = DOMAIN d.floors
           /\ \A g \in DOMAIN d.floors \ {f} : UpdateFloor(d, f, b).floors[g] = d.floors[g]
           /\ UpdateFloor(d, f, b).floors[f] = MoveTo(d.floors[f], b)
           /\ DOMAIN UpdateFloor(d, f, b).areas = DOMAIN d.areas
           /\ \A a \in DOMAIN d.areas : UpdateFloor(d, f, b).areas[a] =
                  IF d.areas[a].f = f THEN MoveTo(d.areas[a], b) ELSE d.areas[a]
           /\ DOMAIN UpdateFloor(d, f, b).doors = DOMAIN d.doors
           /\ \A x \in DOMAIN d.doors : UpdateFloor(d, f, b).doors[x] =
                  IF d.doors[x].f = f THEN MoveTo(d.doors[x], b) ELSE d.doors[x]
  <1> DEFINE A == [a \in DOMAIN d.areas |-> IF d.areas[a].f = f THEN MoveTo(d.areas[a], b) ELSE d.areas[a]]
             D == [x \in DOMAIN d.doors |-> IF d.doors[x].f = f THEN MoveTo(d.doors[x], b) ELSE d.doors[x]]
             r == [d EXCEPT !.floors[f].b = b, !.areas = A, !.doors = D]
  <1>T. "floors" \in Tables /\ "areas" \in Tables /\ "doors" \in Tables
    BY SpaceNames
  <1>0. r = UpdateFloor(d, f, b)
    BY DEF UpdateFloor, MoveTo
  <1>1. DOMAIN A = DOMAIN d.areas /\ \A a \in DOMAIN d.areas : A[a] =
            IF d.areas[a].f = f THEN MoveTo(d.areas[a], b) ELSE d.areas[a]
    OBVIOUS
  <1>2. DOMAIN D = DOMAIN d.doors /\ \A x \in DOMAIN d.doors : D[x] =
            IF d.doors[x].f = f THEN MoveTo(d.doors[x], b) ELSE d.doors[x]
    OBVIOUS
  <1> HIDE DEF A, D
  <1>3. /\ DOMAIN r = Tables /\ \A t \in Tables \ {"floors", "areas", "doors"} : r[t] = d[t]
        /\ r.areas = A /\ r.doors = D
    BY <1>T
  <1>4. /\ DOMAIN r.floors = DOMAIN d.floors /\ \A g \in DOMAIN d.floors \ {f} : r.floors[g] = d.floors[g]
        /\ r.floors[f] = MoveTo(d.floors[f], b)
    BY <1>T DEF MoveTo
  <1> HIDE DEF r
  <1> QED
    BY <1>0, <1>1, <1>2, <1>3, <1>4

LEMMA UpdateAreaTables ==
    ASSUME NEW d, DOMAIN d = Tables, NEW a \in DOMAIN d.areas, NEW b, NEW f, d.areas[a] # Spot(b, f)
    PROVE  /\ DOMAIN UpdateArea(d, a, b, f) = Tables
           /\ \A t \in Tables \ {"areas", "doors"} : UpdateArea(d, a, b, f)[t] = d[t]
           /\ DOMAIN UpdateArea(d, a, b, f).areas = DOMAIN d.areas
           /\ \A c \in DOMAIN d.areas : UpdateArea(d, a, b, f).areas[c] = IF c = a THEN Spot(b, f) ELSE d.areas[c]
           /\ DOMAIN UpdateArea(d, a, b, f).doors = DOMAIN d.doors
           /\ \A x \in DOMAIN d.doors : UpdateArea(d, a, b, f).doors[x] =
                  IF d.doors[x].a = a THEN Leaf(b, f, a) ELSE d.doors[x]
  <1> DEFINE D == [x \in DOMAIN d.doors |-> IF d.doors[x].a = a THEN Leaf(b, f, a) ELSE d.doors[x]]
             r == [d EXCEPT !.areas[a] = Spot(b, f), !.doors = D]
  <1>T. "areas" \in Tables /\ "doors" \in Tables
    BY SpaceNames
  <1>0. r = UpdateArea(d, a, b, f)
    BY DEF UpdateArea, Spot, Leaf
  <1>2. DOMAIN D = DOMAIN d.doors /\ \A x \in DOMAIN d.doors : D[x] =
            IF d.doors[x].a = a THEN Leaf(b, f, a) ELSE d.doors[x]
    OBVIOUS
  <1> HIDE DEF D
  <1>3. /\ DOMAIN r = Tables /\ \A t \in Tables \ {"areas", "doors"} : r[t] = d[t]
        /\ r.doors = D
    BY <1>T
  <1>4. /\ DOMAIN r.areas = DOMAIN d.areas
        /\ \A c \in DOMAIN d.areas : r.areas[c] = IF c = a THEN Spot(b, f) ELSE d.areas[c]
    BY <1>T
  <1> HIDE DEF r
  <1> QED
    BY <1>0, <1>2, <1>3, <1>4

LEMMA SpaceGrows ==
    ASSUME Base
    PROVE  /\ \A b : Grows(DeleteBuilding(mem, b), SpaceTables)
           /\ \A f \in DOMAIN mem.floors : \A b : Grows(UpdateFloor(mem, f, b), SpaceTables)
           /\ \A f : Grows(DeleteFloor(mem, f), SpaceTables)
           /\ \A a \in DOMAIN mem.areas : \A b, f : Grows(UpdateArea(mem, a, b, f), SpaceTables)
           /\ \A x, b, f, a : Grows(UpdateDoor(mem, x, b, f, a), SpaceTables)
           /\ \A x : Grows(DeleteDoor(mem, x), SpaceTables)
           /\ \A g, x : Grows(AddDoorToGroup(mem, g, x), SpaceTables)
           /\ \A g, x : Grows(RemoveDoorFromGroup(mem, g, x), SpaceTables)
  <1>m. DOMAIN mem = Tables
    BY DEF Base
  <1>0. ASSUME NEW r, DOMAIN r = Tables, \A t \in Tables \ SpaceTables : r[t] = mem[t],
               DOMAIN r.buildings \subseteq DOMAIN mem.buildings, DOMAIN r.floors \subseteq DOMAIN mem.floors,
               DOMAIN r.areas \subseteq DOMAIN mem.areas, DOMAIN r.doors \subseteq DOMAIN mem.doors,
               DOMAIN r.doorGroups \subseteq DOMAIN mem.doorGroups
        PROVE  Grows(r, SpaceTables)
    <2>1. \A t \in SpaceTables : DOMAIN r[t] \subseteq DOMAIN mem[t]
      BY <1>0 DEF SpaceTables
    <2> QED
      BY <1>0, <2>1, SpaceNames DEF Grows
  <1>1. ASSUME NEW b PROVE Grows(DeleteBuilding(mem, b), SpaceTables)
    <2>1. DOMAIN DeleteBuilding(mem, b).buildings = DOMAIN mem.buildings
      BY <1>m, DeleteBuildingTables
    <2>2. /\ DOMAIN DeleteBuilding(mem, b).floors \subseteq DOMAIN mem.floors
          /\ DOMAIN DeleteBuilding(mem, b).areas \subseteq DOMAIN mem.areas
          /\ DOMAIN DeleteBuilding(mem, b).doors \subseteq DOMAIN mem.doors
      BY <1>m, DeleteBuildingTables
    <2> QED
      BY <1>m, <1>0, <2>1, <2>2, DeleteBuildingTables
  <1>2. ASSUME NEW f \in DOMAIN mem.floors, NEW b PROVE Grows(UpdateFloor(mem, f, b), SpaceTables)
    <2>1. CASE mem.floors[f].b = b
      BY <2>1, SpaceNames, GrowsNot DEF UpdateFloor
    <2>2. CASE mem.floors[f].b # b
      <3>1. \A t \in Tables \ {"floors", "areas", "doors"} : UpdateFloor(mem, f, b)[t] = mem[t]
        BY <1>m, <2>2, UpdateFloorTables
      <3>2. /\ UpdateFloor(mem, f, b).buildings = mem.buildings
            /\ UpdateFloor(mem, f, b).doorGroups = mem.doorGroups
            /\ \A t \in Tables \ SpaceTables : UpdateFloor(mem, f, b)[t] = mem[t]
        BY <3>1, SpaceNames DEF SpaceTables
      <3>3. /\ DOMAIN UpdateFloor(mem, f, b) = Tables /\ DOMAIN UpdateFloor(mem, f, b).floors = DOMAIN mem.floors
            /\ DOMAIN UpdateFloor(mem, f, b).areas = DOMAIN mem.areas
            /\ DOMAIN UpdateFloor(mem, f, b).doors = DOMAIN mem.doors
        BY <1>m, <2>2, UpdateFloorTables
      <3> QED
        BY <1>0, <3>2, <3>3
    <2> QED
      BY <2>1, <2>2
  <1>3. ASSUME NEW f PROVE Grows(DeleteFloor(mem, f), SpaceTables)
    <2>1. /\ DOMAIN DeleteFloor(mem, f).floors \subseteq DOMAIN mem.floors
          /\ DOMAIN DeleteFloor(mem, f).areas \subseteq DOMAIN mem.areas
          /\ DOMAIN DeleteFloor(mem, f).doors \subseteq DOMAIN mem.doors
      BY <1>m, DeleteFloorTables
    <2> QED
      BY <1>m, <1>0, <2>1, DeleteFloorTables
  <1>4. ASSUME NEW a \in DOMAIN mem.areas, NEW b, NEW f PROVE Grows(UpdateArea(mem, a, b, f), SpaceTables)
    <2>1. CASE mem.areas[a] = Spot(b, f)
      BY <2>1, SpaceNames, GrowsNot DEF UpdateArea, Spot
    <2>2. CASE mem.areas[a] # Spot(b, f)
      <3>1. \A t \in Tables \ {"areas", "doors"} : UpdateArea(mem, a, b, f)[t] = mem[t]
        BY <1>m, <2>2, UpdateAreaTables
      <3>2. /\ UpdateArea(mem, a, b, f).buildings = mem.buildings
            /\ UpdateArea(mem, a, b, f).floors = mem.floors
            /\ UpdateArea(mem, a, b, f).doorGroups = mem.doorGroups
            /\ \A t \in Tables \ SpaceTables : UpdateArea(mem, a, b, f)[t] = mem[t]
        BY <3>1, SpaceNames DEF SpaceTables
      <3>3. /\ DOMAIN UpdateArea(mem, a, b, f) = Tables
            /\ DOMAIN UpdateArea(mem, a, b, f).areas = DOMAIN mem.areas
            /\ DOMAIN UpdateArea(mem, a, b, f).doors = DOMAIN mem.doors
        BY <1>m, <2>2, UpdateAreaTables
      <3> QED
        BY <1>0, <3>2, <3>3
    <2> QED
      BY <2>1, <2>2
  <1>5. ASSUME NEW x, NEW b, NEW f, NEW a PROVE Grows(UpdateDoor(mem, x, b, f, a), SpaceTables)
    BY <1>m, SpaceNames DEF UpdateDoor, Grows
  <1>6. ASSUME NEW x PROVE Grows(DeleteDoor(mem, x), SpaceTables)
    <2>1. /\ DOMAIN Clear(mem, {}, {x}) = Tables
          /\ \A t \in Tables \ {"areas", "doors", "doorGroups"} : Clear(mem, {}, {x})[t] = mem[t]
          /\ DOMAIN Clear(mem, {}, {x}).areas \subseteq DOMAIN mem.areas
          /\ DOMAIN Clear(mem, {}, {x}).doors \subseteq DOMAIN mem.doors
          /\ DOMAIN Clear(mem, {}, {x}).doorGroups = DOMAIN mem.doorGroups
      BY <1>m, ClearTables
    <2>2. Clear(mem, {}, {x}).buildings = mem.buildings /\ Clear(mem, {}, {x}).floors = mem.floors
          /\ \A t \in Tables \ SpaceTables : Clear(mem, {}, {x})[t] = mem[t]
      BY <2>1, SpaceNames DEF SpaceTables
    <2> QED
      BY <1>0, <2>1, <2>2 DEF DeleteDoor
  <1>7. ASSUME NEW g, NEW x PROVE Grows(AddDoorToGroup(mem, g, x), SpaceTables)
    BY <1>m, SpaceNames DEF AddDoorToGroup, Grows
  <1>8. ASSUME NEW g, NEW x PROVE Grows(RemoveDoorFromGroup(mem, g, x), SpaceTables)
    BY <1>m, SpaceNames DEF RemoveDoorFromGroup, Grows
  <1> QED
    BY <1>1, <1>2, <1>3, <1>4, <1>5, <1>6, <1>7, <1>8

LEMMA TopologyShape == ASSUME Base, Topology PROVE Shape(SpaceTables, {"raced"})
  <1> USE SpaceNames
  <1>r. ASSUME NEW fits PROVE Recalls(Races(fits), {"raced"})
    BY DEF Races, Recalls, Base, HistFields
  <1>1. CASE createBuilding \/ createReferencePlace
    BY <1>1, PutRequest, NextFresh DEF createBuilding, createReferencePlace, CreateBuilding
  <1>2. CASE updateReferencePlace
    BY <1>2, IdleRequest DEF updateReferencePlace, UpdateBuilding
  <1>3. CASE deleteReferencePlace
    BY <1>3, SpaceGrows, RecallsItself, RequestShape DEF deleteReferencePlace
  <1>4. CASE createFloor
    BY <1>4, <1>r, BeginShape, FinishShape, GrowsPut, NextFresh DEF createFloor, CreateFloor
  <1>5. CASE updateFloor \/ deleteFloor
    BY <1>5, SpaceGrows, RecallsItself, RequestShape DEF updateFloor, deleteFloor
  <1>6. CASE createArea
    BY <1>6, <1>r, BeginShape, FinishShape, GrowsPut, NextFresh DEF createArea, CreateArea
  <1>7. CASE updateArea
    BY <1>7, SpaceGrows, RecallsItself, RequestShape DEF updateArea
  <1>8. CASE createDoor \/ createReferenceLock
    BY <1>8, <1>r, BeginShape, FinishShape, GrowsPut, NextFresh DEF createDoor, createReferenceLock, addDoor, CreateDoor
  <1>9. CASE updateReferenceLock \/ deleteReferenceLock
    BY <1>9, SpaceGrows, RecallsItself, RequestShape DEF updateReferenceLock, deleteReferenceLock
  <1>10. CASE createDoorGroup
    BY <1>10, <1>r, BeginShape, FinishShape, GrowsPut, NextFresh DEF createDoorGroup, CreateDoorGroup
  <1>11. CASE createReferenceGroupLock \/ deleteReferenceGroupLock
    BY <1>11, SpaceGrows, RecallsItself, RequestShape DEF createReferenceGroupLock, deleteReferenceGroupLock
  <1> QED
    BY <1>1, <1>2, <1>3, <1>4, <1>5, <1>6, <1>7, <1>8, <1>9, <1>10, <1>11 DEF Topology

\* Every step but a crash has a shape, and those of a family the same one.
LEMMA NextShape ==
    ASSUME Base, Next
    PROVE  \/ Crash
           \/ family = "visits" /\ Shape(VisitTables, {})
           \/ family = "premises" /\ Premises /\ Shape(PremiseTables, {"named"})
           \/ family = "oauth2" /\ Shape(OAuth2Tables, {})
           \/ family = "shares" /\ Shares /\ Shape(ShareTables, {})
           \/ family = "bookings" /\ Bookings /\ Shape(BookingTables, {"moved"})
           \/ family = "topology" /\ Topology /\ Shape(SpaceTables, {"raced"})
           \/ family = "accounts" /\ Accounts /\ Shape(PeopleTables, PeopleFields)
           \/ family = "batches" /\ Batches /\ Shape(PeopleTables, RowFields)
           \/ family = "sync" /\ DirectorySync /\ Shape(PeopleTables, PeopleFields)
           \/ family = "invitations" /\ Invitations /\ Shape(PeopleTables, RowFields)
           \/ family = "groups" /\ (Groups \/ createUser \/ deleteUser) /\ Shape(PeopleTables, RowFields)
           \/ family = "rights" /\ (Rights \/ deleteUser \/ batchDeleteUsers \/ createGuest \/ deleteGuest) /\ Shape(PeopleTables, RowFields)
    BY VisitsShape, PremisesShape, OAuth2Shape, SharesShape, BookingsShape, TopologyShape, AccountsShape, BatchesShape,
       DirectorySyncShape, InvitationsShape, GroupsShape, RightsShape DEF Next

LEMMA NextShapes == ASSUME Base, Next PROVE Crash \/ \E T \in SUBSET Tables : \E H : Shape(T, H)
  <1>1. /\ VisitTables \in SUBSET Tables /\ PremiseTables \in SUBSET Tables /\ OAuth2Tables \in SUBSET Tables
        /\ ShareTables \in SUBSET Tables /\ BookingTables \in SUBSET Tables /\ SpaceTables \in SUBSET Tables
        /\ PeopleTables \in SUBSET Tables
    BY DEF VisitTables, PremiseTables, OAuth2Tables, ShareTables, BookingTables, SpaceTables, PeopleTables, Tables,
           Volatile, Moving
  <1> QED
    BY <1>1, NextShape

(* -------------------- a deleted row stays deleted ---------------------- *)

LEMMA IdsOf == ASSUME NEW d PROVE \A i : i \in Ids(d) <=> \E t \in Tables : i \in DOMAIN d[t]
    BY DEF Ids

Below(d) == \A i \in Ids(d) : i \in Nat /\ i < next

\* NextId is above every id of the tables a request makes.
LEMMA NextIdAbove ==
    ASSUME Base, next > Org, Below(mem), NEW T, NEW d, Grows(d, T)
    PROVE  /\ NextId(d) \in Nat /\ NextId(d) >= next
           /\ \A i \in Ids(d) : i \in Nat /\ i < NextId(d)
  <1>1. \A i \in Ids(d) : i \in Ids(mem) \/ i \in {next, next + 1} \/ i = Org
    <2> SUFFICES ASSUME NEW i \in Ids(d) PROVE i \in Ids(mem) \/ i \in {next, next + 1} \/ i = Org
      OBVIOUS
    <2>1. PICK t \in Tables : i \in DOMAIN d[t]
      BY IdsOf
    <2>2. i \in DOMAIN mem[t] \/ i \in Fresh(t)
      BY <2>1 DEF Grows
    <2> QED
      BY <2>2, IdsOf DEF Fresh
  <1>2. next \in Nat
    BY DEF Base
  <1>3. Org \in Nat /\ Org = 9
    BY DEF Org
  <1> DEFINE S == {next} \cup {i + 1 : i \in Ids(d)}
  <1>4. \A i \in Ids(d) : i \in Nat /\ (i < next \/ i = next \/ i = next + 1)
    BY <1>1, <1>2, <1>3 DEF Below
  <1>5. S \subseteq Nat
    BY <1>2, <1>4
  <1>6. \E m \in S : \A y \in S : m >= y
    <2>1. CASE next + 1 \in Ids(d)
      <3>1. (next + 1) + 1 \in S
        BY <2>1
      <3>2. \A y \in S : (next + 1) + 1 >= y
        BY <1>2, <1>4
      <3> QED
        BY <3>1, <3>2
    <2>2. CASE next + 1 \notin Ids(d) /\ next \in Ids(d)
      <3>1. next + 1 \in S
        BY <2>2
      <3>2. \A y \in S : next + 1 >= y
        BY <1>2, <1>4, <2>2
      <3> QED
        BY <3>1, <3>2
    <2>3. CASE next + 1 \notin Ids(d) /\ next \notin Ids(d)
      <3>1. next \in S
        OBVIOUS
      <3>2. \A y \in S : next >= y
        BY <1>2, <1>4, <2>3
      <3> QED
        BY <3>1, <3>2
    <2> QED
      BY <2>1, <2>2, <2>3
  <1>7. NextId(d) \in S /\ \A y \in S : NextId(d) >= y
    BY <1>6 DEF NextId, X!Max
  <1>8. \A i \in Ids(d) : NextId(d) >= i + 1
    BY <1>7
  <1> QED
    BY <1>4, <1>5, <1>7, <1>8

\* The ids in use and the ones that are gone lie below the next one; the settings of the
\* tenant, the one row that may be written anew, are never removed.
IdInv ==
    /\ Base
    /\ DOMAIN stored = Tables /\ \A t \in Volatile : stored[t] = None
    /\ next > 19
    /\ Below(mem) /\ Below(stored)
    /\ \A i \in hist.gone : i \in Nat /\ i < next
    /\ Org \notin hist.gone
    /\ Org \notin Ids(stored) /\ \A t \in Tables \ {"org"} : Org \notin DOMAIN mem[t]
    /\ DeletedStaysDeleted

LEMMA PersistIds == ASSUME NEW d, DOMAIN d = Tables PROVE Ids(persistLocked(d)) \subseteq Ids(d)
  <1> SUFFICES ASSUME NEW i \in Ids(persistLocked(d)) PROVE i \in Ids(d)
    OBVIOUS
  <1>1. PICK t \in Tables : i \in DOMAIN persistLocked(d)[t]
    BY IdsOf
  <1>2. t \notin Volatile
    BY <1>1, PersistTables, NoRows
  <1> QED
    BY <1>1, <1>2, PersistTables, IdsOf

LEMMA GrowsIds ==
    ASSUME Base, NEW T, NEW d, Grows(d, T)
    PROVE  /\ \A i \in Ids(d) : i \in Ids(mem) \/ i \in {next, next + 1} \/ (i = Org /\ i \in DOMAIN d.org)
           /\ DOMAIN d = Tables /\ DOMAIN d.org \subseteq {Org} /\ DOMAIN mem.org \subseteq DOMAIN d.org
           /\ \A t \in Tables \ {"org"} : DOMAIN d[t] \subseteq DOMAIN mem[t] \cup {next, next + 1}
  <1>1. ASSUME NEW i \in Ids(d) PROVE i \in Ids(mem) \/ i \in {next, next + 1} \/ (i = Org /\ i \in DOMAIN d.org)
    <2>1. PICK t \in Tables : i \in DOMAIN d[t]
      BY IdsOf
    <2>2. i \in DOMAIN mem[t] \/ i \in Fresh(t)
      BY <2>1 DEF Grows
    <2> QED
      BY <2>1, <2>2, IdsOf DEF Fresh
  <1>2. DOMAIN d.org \subseteq {Org}
    <2>1. "org" \in Tables
      BY DEF Tables
    <2>2. CASE "org" \in T
      BY <2>2 DEF Grows, Fresh, Base
    <2>3. CASE "org" \notin T
      BY <2>1, <2>3 DEF Grows, Base
    <2> QED
      BY <2>2, <2>3
  <1>3. \A t \in Tables \ {"org"} : DOMAIN d[t] \subseteq DOMAIN mem[t] \cup {next, next + 1}
    BY DEF Grows, Fresh
  <1> QED
    BY <1>1, <1>2, <1>3 DEF Grows

LEMMA ShapeKeepsIds == ASSUME IdInv, NEW T, NEW H, Shape(T, H) PROVE IdInv'
  <1>0. Base /\ next \in Nat /\ Org = 9 /\ next > 19
    BY DEF IdInv, Base, Org
  <1>g. /\ DOMAIN stored = Tables /\ (\A t \in Volatile : stored[t] = None) /\ Below(mem) /\ Below(stored)
        /\ (\A i \in hist.gone : i \in Nat /\ i < next) /\ Org \notin hist.gone
        /\ Org \notin Ids(stored) /\ (\A t \in Tables \ {"org"} : Org \notin DOMAIN mem[t])
        /\ Ids(mem) \cap (hist.gone \ Seeds) = {} /\ Ids(stored) \cap (hist.gone \ Seeds) = {}
    BY DEF IdInv, DeletedStaysDeleted, Images
  <1>h. DOMAIN hist' = HistFields
    BY DEF Shape
  <1>1. CASE UNCHANGED <<mem, stored, next>> /\ hist'.gone = hist.gone
    <2>1. Ids(mem') = Ids(mem) /\ Ids(stored') = Ids(stored)
      BY <1>1
    <2> QED
      BY <1>0, <1>g, <1>h, <1>1, <2>1 DEF IdInv, Base, Below, DeletedStaysDeleted, Images
  <1>2. CASE \E d : Grows(d, T) /\ Effect(d)
    <2>1. PICK d : Grows(d, T) /\ Effect(d)
      BY <1>2
    <2>2. /\ next' \in Nat /\ next' >= next /\ \A i \in Ids(d) : i \in Nat /\ i < next'
      BY <1>0, <1>g, <2>1, NextIdAbove DEF Effect
    <2>3. /\ \A i \in Ids(d) : i \in Ids(mem) \/ i \in {next, next + 1} \/ (i = Org /\ i \in DOMAIN d.org)
          /\ DOMAIN d = Tables /\ DOMAIN d.org \subseteq {Org} /\ DOMAIN mem.org \subseteq DOMAIN d.org
          /\ \A t \in Tables \ {"org"} : DOMAIN d[t] \subseteq DOMAIN mem[t] \cup {next, next + 1}
      BY <1>0, <2>1, GrowsIds
    <2>4. \A t \in Tables \ {"org"} : Org \notin DOMAIN d[t]
      BY <1>0, <1>g, <2>3
    <2>5. Ids(d) \cap (hist.gone \ Seeds) = {}
      BY <1>0, <1>g, <2>3
    <2>6. DOMAIN mem = Tables /\ DOMAIN mem.org \subseteq {Org} /\ next' > 19
      BY <1>0, <2>2 DEF Base
    <2>7. CASE mem' = d /\ stored' = persistLocked(d) /\ hist'.gone = hist.gone \cup (Ids(mem) \ Ids(d))
      <3>1. Base'
        BY <1>h, <2>2, <2>3, <2>7 DEF Base
      <3>2. DOMAIN stored' = Tables /\ \A t \in Volatile : stored'[t] = None
        BY <2>3, <2>7, PersistTables
      <3>3. Ids(stored') \subseteq Ids(d)
        BY <2>3, <2>7, PersistIds
      <3>4. Below(mem)' /\ Below(stored)'
        BY <2>2, <2>7, <3>3 DEF Below
      <3>5. \A i \in hist'.gone : i \in Nat /\ i < next'
        BY <1>0, <1>g, <2>2, <2>7 DEF Below
      <3>6. Org \notin hist'.gone
        <4>1. Org \in Ids(mem) => Org \in Ids(d)
          <5>1. "org" \in Tables
            BY DEF Tables
          <5> QED
            BY <1>g, <2>3, <5>1, IdsOf DEF Base
        <4> QED
          BY <1>g, <2>7, <4>1
      <3>7. Ids(mem') \cap (hist'.gone \ Seeds) = {} /\ Ids(stored') \cap (hist'.gone \ Seeds) = {}
        BY <2>5, <2>7, <3>3
      <3>8. Org \notin Ids(stored')
        <4>1. ASSUME Org \in Ids(stored') PROVE FALSE
          <5>1. PICK t \in Tables : Org \in DOMAIN stored'[t]
            BY <4>1, IdsOf
          <5>2. t \notin Volatile /\ Org \in DOMAIN d[t]
            BY <2>3, <2>7, <5>1, PersistTables, NoRows
          <5>3. "org" \in Volatile
            BY DEF Volatile
          <5> QED
            BY <2>4, <5>2, <5>3
        <4> QED
          BY <4>1
      <3> QED
        BY <3>8, <2>4, <2>6, <2>7, <3>1, <3>2, <3>4, <3>5, <3>6, <3>7 DEF IdInv, DeletedStaysDeleted, Images
    <2>8. CASE mem' \in {mem, d} /\ stored' = stored /\ hist'.gone = hist.gone
      <3>1. Base'
        BY <1>h, <2>2, <2>3, <2>6, <2>8 DEF Base
      <3>2. Below(mem)' /\ Below(stored)'
        BY <1>0, <1>g, <2>2, <2>8 DEF Below
      <3>3. \A i \in hist'.gone : i \in Nat /\ i < next'
        BY <1>0, <1>g, <2>2, <2>8
      <3>4. Ids(mem') \cap (hist'.gone \ Seeds) = {} /\ Ids(stored') \cap (hist'.gone \ Seeds) = {}
        BY <1>g, <2>5, <2>8
      <3>5. \A t \in Tables \ {"org"} : Org \notin DOMAIN mem'[t]
        BY <1>g, <2>4, <2>8
      <3> QED
        BY <1>g, <2>6, <2>8, <3>1, <3>2, <3>3, <3>4, <3>5 DEF IdInv, DeletedStaysDeleted, Images
    <2> QED
      BY <2>1, <2>7, <2>8 DEF Effect
  <1> QED
    BY <1>1, <1>2 DEF Shape

\* The rows NewService brings back have ids below the next one, and the tables it fills are not settings.
LEMMA SeedRows ==
    /\ DOMAIN NewService = Tables
    /\ DOMAIN NewService.org = {}
    /\ \A t \in Tables : \A i \in DOMAIN NewService[t] : i \in Nat /\ i < 20 /\ i # Org
    /\ \A t \in KeptWhenEmpty \cup Volatile : DOMAIN NewService[t] \subseteq Seeds
  <1>1. DOMAIN NewService = Tables
    BY DEF NewService
  <1>2. DOMAIN NewService.org = {}
    BY NoRows DEF NewService, Tables, SpaceTables
  <1>3. ASSUME NEW t \in Tables, NEW i \in DOMAIN NewService[t] PROVE i \in 1..8 \cup 11..19
    <2>1. CASE t \in SpaceTables
      <3>1. NewService[t] = NewSpaceService[t]
        BY <2>1 DEF NewService, SpaceTables
      <3>2. DOMAIN NewSpaceService[t] \subseteq {11, 12, 13, 14, 15, 16, 17}
        BY <2>1 DEF NewSpaceService, SpaceTables, One
      <3> QED
        BY <3>1, <3>2
    <2>2. CASE t \notin SpaceTables
      <3>1. DOMAIN NewService[t] \subseteq {1, 2, 3, 4, 5, 6, 7, 8, 18, 19}
        BY <2>2, NoRows DEF NewService, One
      <3> QED
        BY <3>1
    <2> QED
      BY <2>1, <2>2
  <1>4. \A t \in KeptWhenEmpty \cup Volatile : DOMAIN NewService[t] \subseteq Seeds
    BY DEF Seeds
  <1> QED
    BY <1>1, <1>2, <1>3, <1>4 DEF Org

\* What restoreFromStateStore makes of a snapshot.
LEMMA RestoreTables ==
    ASSUME NEW st, DOMAIN st = Tables
    PROVE  /\ DOMAIN restoreFromStateStore(st) = Tables
           /\ \A t \in Tables \ (KeptWhenEmpty \cup Volatile) : restoreFromStateStore(st)[t] = st[t]
           /\ \A t \in KeptWhenEmpty \cup Volatile :
                  /\ DOMAIN st[t] # {} => restoreFromStateStore(st)[t] = st[t]
                  /\ DOMAIN st[t] = {} => restoreFromStateStore(st)[t] = NewService[t]
  <1>1. KeptWhenEmpty \subseteq Tables /\ Volatile \subseteq Tables
    BY DEF KeptWhenEmpty, Volatile, Tables
  <1> QED
    BY <1>1 DEF restoreFromStateStore

LEMMA CrashKeepsIds == ASSUME IdInv, Crash PROVE IdInv'
  <1>1. /\ DOMAIN stored = Tables /\ (\A t \in Volatile : stored[t] = None) /\ Below(stored) /\ next \in Nat /\ next > 19
        /\ Ids(stored) \cap (hist.gone \ Seeds) = {} /\ Org \notin hist.gone
        /\ (\A i \in hist.gone : i \in Nat /\ i < next) /\ DOMAIN hist = HistFields
    BY DEF IdInv, DeletedStaysDeleted, Images, Base
  <1>2. mem' = restoreFromStateStore(stored) /\ stored' = stored /\ next' = next /\ hist' = hist
    BY DEF Crash
  <1>3. ASSUME NEW i \in Ids(mem') PROVE i \in Ids(stored) \/ (i \in Seeds /\ i \in Nat /\ i < 20 /\ i # Org)
    <2>1. PICK t \in Tables : i \in DOMAIN mem'[t]
      BY <1>3, IdsOf
    <2>2. CASE i \in DOMAIN stored[t]
      BY <2>2, IdsOf
    <2>3. CASE t \in KeptWhenEmpty \cup Volatile /\ i \in DOMAIN NewService[t]
      BY <2>1, <2>3, SeedRows
    <2> QED
      BY <1>1, <1>2, <2>1, <2>2, <2>3, RestoreTables
  <1>4. "org" \in Tables /\ "org" \in Volatile
    BY DEF Tables, Volatile
  <1>5. DOMAIN mem' = Tables /\ DOMAIN mem'.org = {}
    BY <1>1, <1>2, <1>4, RestoreTables, SeedRows, NoRows
  <1>6. Base'
    BY <1>1, <1>2, <1>5 DEF Base
  <1>7. Below(mem)' /\ Below(stored)'
    BY <1>1, <1>2, <1>3 DEF Below
  <1>8. \A t \in Tables \ {"org"} : Org \notin DOMAIN mem'[t]
    <2>1. Org \notin Ids(stored) /\ Org \notin Ids(mem')
      BY <1>3 DEF IdInv
    <2> QED
      BY <2>1, IdsOf
  <1>9. Ids(mem') \cap (hist'.gone \ Seeds) = {}
    BY <1>1, <1>2, <1>3
  <1> QED
    BY <1>1, <1>2, <1>6, <1>7, <1>8, <1>9 DEF IdInv, DeletedStaysDeleted, Images

LEMMA SetUpRows ==
    ASSUME NEW f
    PROVE  /\ DOMAIN SetUp(f) = Tables
           /\ \A t \in Tables \ {"spaces", "clients"} : SetUp(f)[t] = NewService[t]
           /\ DOMAIN SetUp(f).spaces \subseteq {10} /\ DOMAIN SetUp(f).clients \subseteq {10}
  <1>T. "spaces" \in Tables /\ "clients" \in Tables
    BY DEF Tables
  <1>1. DOMAIN NewService = Tables
    BY SeedRows
  <1>2. DOMAIN NewService.spaces = {} /\ DOMAIN NewService.clients = {}
    BY NoRows DEF NewService, Tables, SpaceTables
  <1>3. CASE f = "bookings"
    BY <1>T, <1>1, <1>2, <1>3, PutTables DEF SetUp, CreateBookableSpace
  <1>4. CASE f = "oauth2"
    BY <1>T, <1>1, <1>2, <1>4, PutTables DEF SetUp, CreateOAuth2Client
  <1>5. CASE f # "bookings" /\ f # "oauth2"
    BY <1>1, <1>2, <1>5 DEF SetUp
  <1> QED
    BY <1>3, <1>4, <1>5

LEMMA InitIds == ASSUME Init PROVE IdInv
  <1>0. /\ mem = SetUp(family) /\ stored = persistLocked(mem) /\ next = 20 /\ hist = NoHistory
    BY DEF Init
  <1>1. DOMAIN mem = Tables
    BY <1>0, SetUpRows
  <1>2. \A i \in Ids(mem) : i \in Nat /\ i < 20 /\ i # Org
    <2> SUFFICES ASSUME NEW i \in Ids(mem) PROVE i \in Nat /\ i < 20 /\ i # Org
      OBVIOUS
    <2>1. PICK t \in Tables : i \in DOMAIN mem[t]
      BY IdsOf
    <2>2. CASE t \in {"spaces", "clients"}
      BY <1>0, <2>1, <2>2, SetUpRows DEF Org
    <2>3. CASE t \notin {"spaces", "clients"}
      BY <1>0, <2>1, <2>3, SetUpRows, SeedRows
    <2> QED
      BY <2>2, <2>3
  <1>3. DOMAIN stored = Tables /\ (\A t \in Volatile : stored[t] = None) /\ Ids(stored) \subseteq Ids(mem)
    BY <1>0, <1>1, PersistTables, PersistIds
  <1>4. DOMAIN mem.org = {}
    <2>1. "org" \in Tables \ {"spaces", "clients"}
      BY DEF Tables
    <2> QED
      BY <1>0, <2>1, SetUpRows, SeedRows
  <1>5. DOMAIN hist = HistFields /\ hist.gone = {}
    BY <1>0 DEF NoHistory, HistFields
  <1>6. Base
    BY <1>0, <1>1, <1>4, <1>5 DEF Base
  <1>7. Below(mem) /\ Below(stored)
    BY <1>0, <1>2, <1>3 DEF Below
  <1>8. Org \notin Ids(stored) /\ \A t \in Tables \ {"org"} : Org \notin DOMAIN mem[t]
    BY <1>2, <1>3, IdsOf
  <1> QED
    BY <1>0, <1>3, <1>5, <1>6, <1>7, <1>8 DEF IdInv, DeletedStaysDeleted, Images

LEMMA NextKeepsIds == ASSUME IdInv, [Next]_vars PROVE IdInv'
  <1>1. CASE Next
    <2>1. Base
      BY DEF IdInv
    <2> QED
      BY <1>1, <2>1, NextShapes, ShapeKeepsIds, CrashKeepsIds
  <1>2. CASE UNCHANGED vars
    BY <1>2 DEF vars, IdInv, Base, Below, DeletedStaysDeleted, Images
  <1> QED
    BY <1>1, <1>2

(***************************************************************************)
(* DeletedStaysDeleted is an invariant of every instance: no handler, no   *)
(* failed save and no restart brings back a row whose deletion was         *)
(* answered, whatever the number of requests, faults and crashes.          *)
(***************************************************************************)
THEOREM DeletionIsFinal == Spec => []DeletedStaysDeleted
  <1>1. IdInv => DeletedStaysDeleted
    BY DEF IdInv
  <1> QED
    BY <1>1, InitIds, NextKeepsIds, PTL DEF Spec

(* ------------------------- the space service --------------------------- *)

\* TopologySound of one image d, without the rows R that were overtaken, and the fields of its rows.
SpaceRows(d) ==
    /\ \A f \in DOMAIN d.floors : "b" \in DOMAIN d.floors[f]
    /\ \A a \in DOMAIN d.areas : "b" \in DOMAIN d.areas[a] /\ "f" \in DOMAIN d.areas[a]
    /\ \A x \in DOMAIN d.doors : "b" \in DOMAIN d.doors[x] /\ "f" \in DOMAIN d.doors[x] /\ "a" \in DOMAIN d.doors[x]

OnFloors(d, R) == \A f \in DOMAIN d.floors \ R : FloorFits(d, d.floors[f].b)
InAreas(d, R) == \A a \in DOMAIN d.areas \ R : AreaFits(d, d.areas[a].b, d.areas[a].f)
AtDoors(d, R) == \A x \in DOMAIN d.doors \ R : DoorFits(d, d.doors[x].b, d.doors[x].f, d.doors[x].a)
Grouped(d, R) == \A g \in DOMAIN d.doorGroups \ R : GroupFits(d, d.doorGroups[g])

SpaceSound(d, R) == SpaceRows(d) /\ OnFloors(d, R) /\ InAreas(d, R) /\ AtDoors(d, R) /\ Grouped(d, R)

LEMMA SpaceFrame ==
    ASSUME NEW d, NEW e, \A t \in SpaceTables : e[t] = d[t], NEW R, NEW S, R \subseteq S, SpaceSound(d, R)
    PROVE  SpaceSound(e, S)
  <1>1. e.buildings = d.buildings /\ e.floors = d.floors /\ e.areas = d.areas /\ e.doors = d.doors
        /\ e.doorGroups = d.doorGroups
    BY SpaceNames
  <1> QED
    BY <1>1 DEF SpaceSound, SpaceRows, OnFloors, InAreas, AtDoors, Grouped, FloorFits, AreaFits, DoorFits, GroupFits, findBuilding

\* A new row: a building, or one whose parents are what they have to be unless it is excepted.
LEMMA CreateSound ==
    ASSUME NEW d, DOMAIN d = Tables, NEW R, SpaceSound(d, R), NEW id, \A t \in Tables : id \notin DOMAIN d[t]
    PROVE  /\ SpaceSound(CreateBuilding(d, id), R)
           /\ \A b : /\ FloorFits(d, b) => SpaceSound(CreateFloor(d, id, b), R)
                     /\ SpaceSound(CreateFloor(d, id, b), R \cup {id})
           /\ \A b, f : /\ AreaFits(d, b, f) => SpaceSound(CreateArea(d, id, b, f), R)
                        /\ SpaceSound(CreateArea(d, id, b, f), R \cup {id})
           /\ \A b, f, a : /\ DoorFits(d, b, f, a) => SpaceSound(CreateDoor(d, id, b, f, a), R)
                           /\ SpaceSound(CreateDoor(d, id, b, f, a), R \cup {id})
           /\ \A D : /\ GroupFits(d, D) => SpaceSound(CreateDoorGroup(d, id, D), R)
                     /\ SpaceSound(CreateDoorGroup(d, id, D), R \cup {id})
  <1>T. \A t \in {"buildings", "floors", "areas", "doors", "doorGroups"} : t \in Tables /\ id \notin DOMAIN d[t]
    BY SpaceNames
  <1>1. SpaceSound(CreateBuilding(d, id), R)
    <2> DEFINE r == CreateBuilding(d, id)
    <2>1. /\ r.floors = d.floors /\ r.areas = d.areas /\ r.doors = d.doors /\ r.doorGroups = d.doorGroups
          /\ DOMAIN r.buildings = {id} \cup DOMAIN d.buildings
          /\ \A c \in DOMAIN d.buildings : r.buildings[c] = d.buildings[c]
      BY <1>T, PutTables DEF CreateBuilding
    <2> HIDE DEF r
    <2>2. SpaceRows(r)
      BY <2>1 DEF SpaceSound, SpaceRows
    <2>3. OnFloors(r, R)
      BY <2>1 DEF SpaceSound, OnFloors, FloorFits, findBuilding
    <2>4. InAreas(r, R)
      BY <2>1 DEF SpaceSound, InAreas, AreaFits, FloorFits, findBuilding
    <2>5. AtDoors(r, R)
      BY <2>1 DEF SpaceSound, AtDoors, DoorFits, AreaFits, FloorFits, findBuilding
    <2>6. Grouped(r, R)
      BY <2>1 DEF SpaceSound, Grouped, GroupFits
    <2> QED
      BY <2>2, <2>3, <2>4, <2>5, <2>6 DEF SpaceSound, r
  <1>2. ASSUME NEW b, NEW S, (S = R /\ FloorFits(d, b)) \/ S = R \cup {id} PROVE SpaceSound(CreateFloor(d, id, b), S)
    <2> DEFINE r == CreateFloor(d, id, b)
    <2>1. /\ r.buildings = d.buildings /\ r.areas = d.areas /\ r.doors = d.doors /\ r.doorGroups = d.doorGroups
          /\ DOMAIN r.floors = {id} \cup DOMAIN d.floors /\ r.floors[id] = [b |-> b]
          /\ \A c \in DOMAIN d.floors : r.floors[c] = d.floors[c]
      BY <1>T, PutTables DEF CreateFloor
    <2> HIDE DEF r
    <2>2. SpaceRows(r)
      BY <1>2, <2>1 DEF SpaceSound, SpaceRows
    <2>3. OnFloors(r, S)
      BY <1>2, <2>1 DEF SpaceSound, OnFloors, FloorFits, findBuilding
    <2>4. InAreas(r, S)
      BY <1>2, <2>1 DEF SpaceSound, InAreas, AreaFits, FloorFits, findBuilding
    <2>5. AtDoors(r, S)
      BY <1>2, <2>1 DEF SpaceSound, AtDoors, DoorFits, AreaFits, FloorFits, findBuilding
    <2>6. Grouped(r, S)
      BY <1>2, <2>1 DEF SpaceSound, Grouped, GroupFits
    <2> QED
      BY <2>2, <2>3, <2>4, <2>5, <2>6 DEF SpaceSound, r
  <1>3. ASSUME NEW b, NEW f, NEW S, (S = R /\ AreaFits(d, b, f)) \/ S = R \cup {id} PROVE SpaceSound(CreateArea(d, id, b, f), S)
    <2> DEFINE r == CreateArea(d, id, b, f)
    <2>1. /\ r.buildings = d.buildings /\ r.floors = d.floors /\ r.doors = d.doors /\ r.doorGroups = d.doorGroups
          /\ DOMAIN r.areas = {id} \cup DOMAIN d.areas /\ r.areas[id] = [b |-> b, f |-> f]
          /\ \A c \in DOMAIN d.areas : r.areas[c] = d.areas[c]
      BY <1>T, PutTables DEF CreateArea
    <2> HIDE DEF r
    <2>2. SpaceRows(r)
      BY <1>3, <2>1 DEF SpaceSound, SpaceRows
    <2>3. OnFloors(r, S)
      BY <1>3, <2>1 DEF SpaceSound, OnFloors, FloorFits, findBuilding
    <2>4. InAreas(r, S)
      BY <1>3, <2>1 DEF SpaceSound, InAreas, AreaFits, FloorFits, findBuilding
    <2>5. AtDoors(r, S)
      BY <1>3, <2>1 DEF SpaceSound, AtDoors, DoorFits, AreaFits, FloorFits, findBuilding
    <2>6. Grouped(r, S)
      BY <1>3, <2>1 DEF SpaceSound, Grouped, GroupFits
    <2> QED
      BY <2>2, <2>3, <2>4, <2>5, <2>6 DEF SpaceSound, r
  <1>4. ASSUME NEW b, NEW f, NEW a, NEW S, (S = R /\ DoorFits(d, b, f, a)) \/ S = R \cup {id}
        PROVE  SpaceSound(CreateDoor(d, id, b, f, a), S)
    <2> DEFINE r == CreateDoor(d, id, b, f, a)
    <2>1. /\ r.buildings = d.buildings /\ r.floors = d.floors /\ r.areas = d.areas /\ r.doorGroups = d.doorGroups
          /\ DOMAIN r.doors = {id} \cup DOMAIN d.doors /\ r.doors[id] = [b |-> b, f |-> f, a |-> a]
          /\ \A c \in DOMAIN d.doors : r.doors[c] = d.doors[c]
      BY <1>T, PutTables DEF CreateDoor
    <2> HIDE DEF r
    <2>2. SpaceRows(r)
      BY <1>4, <2>1 DEF SpaceSound, SpaceRows
    <2>3. OnFloors(r, S)
      BY <1>4, <2>1 DEF SpaceSound, OnFloors, FloorFits, findBuilding
    <2>4. InAreas(r, S)
      BY <1>4, <2>1 DEF SpaceSound, InAreas, AreaFits, FloorFits, findBuilding
    <2>5. AtDoors(r, S)
      BY <1>4, <2>1 DEF SpaceSound, AtDoors, DoorFits, AreaFits, FloorFits, findBuilding
    <2>6. Grouped(r, S)
      BY <1>4, <2>1 DEF SpaceSound, Grouped, GroupFits
    <2> QED
      BY <2>2, <2>3, <2>4, <2>5, <2>6 DEF SpaceSound, r
  <1>5. ASSUME NEW D, NEW S, (S = R /\ GroupFits(d, D)) \/ S = R \cup {id} PROVE SpaceSound(CreateDoorGroup(d, id, D), S)
    <2> DEFINE r == CreateDoorGroup(d, id, D)
    <2>1. /\ r.buildings = d.buildings /\ r.floors = d.floors /\ r.areas = d.areas /\ r.doors = d.doors
          /\ DOMAIN r.doorGroups = {id} \cup DOMAIN d.doorGroups /\ r.doorGroups[id] = D
          /\ \A c \in DOMAIN d.doorGroups : r.doorGroups[c] = d.doorGroups[c]
      BY <1>T, PutTables DEF CreateDoorGroup
    <2> HIDE DEF r
    <2>2. SpaceRows(r)
      BY <1>5, <2>1 DEF SpaceSound, SpaceRows
    <2>3. OnFloors(r, S)
      BY <1>5, <2>1 DEF SpaceSound, OnFloors, FloorFits, findBuilding
    <2>4. InAreas(r, S)
      BY <1>5, <2>1 DEF SpaceSound, InAreas, AreaFits, FloorFits, findBuilding
    <2>5. AtDoors(r, S)
      BY <1>5, <2>1 DEF SpaceSound, AtDoors, DoorFits, AreaFits, FloorFits, findBuilding
    <2>6. Grouped(r, S)
      BY <1>5, <2>1 DEF SpaceSound, Grouped, GroupFits
    <2> QED
      BY <2>2, <2>3, <2>4, <2>5, <2>6 DEF SpaceSound, r
  <1> QED
    BY <1>1, <1>2, <1>3, <1>4, <1>5

\* A building, a floor or a door that goes takes everything below with it.
LEMMA RemoveSound ==
    ASSUME NEW d, DOMAIN d = Tables, NEW R, SpaceSound(d, R)
    PROVE  /\ \A b : SpaceSound(DeleteBuilding(d, b), R)
           /\ \A f : SpaceSound(DeleteFloor(d, f), R)
           /\ \A x : SpaceSound(DeleteDoor(d, x), R)
  <1>T. "buildings" \in Tables /\ "floors" \in Tables
    BY SpaceNames
  <1>1. ASSUME NEW b PROVE SpaceSound(DeleteBuilding(d, b), R)
    <2> DEFINE r == DeleteBuilding(d, b)
    <2>1. /\ DOMAIN r.buildings = DOMAIN d.buildings
          /\ \A c \in DOMAIN d.buildings : r.buildings[c] = IF c = b THEN "archived" ELSE d.buildings[c]
          /\ DOMAIN r.floors = {f \in DOMAIN d.floors : d.floors[f].b # b}
          /\ \A f \in DOMAIN d.floors : d.floors[f].b # b => r.floors[f] = d.floors[f]
          /\ DOMAIN r.areas = {a \in DOMAIN d.areas : d.areas[a].b # b}
          /\ \A a \in DOMAIN d.areas : d.areas[a].b # b => r.areas[a] = d.areas[a]
          /\ DOMAIN r.doors = {x \in DOMAIN d.doors : d.doors[x].b # b}
          /\ \A x \in DOMAIN d.doors : d.doors[x].b # b => r.doors[x] = d.doors[x]
          /\ DOMAIN r.doorGroups = DOMAIN d.doorGroups
          /\ \A g \in DOMAIN d.doorGroups : r.doorGroups[g] = d.doorGroups[g] \ {x \in DOMAIN d.doors : d.doors[x].b = b}
      BY DeleteBuildingTables
    <2> HIDE DEF r
    <2>2. SpaceRows(r)
      BY <2>1 DEF SpaceSound, SpaceRows
    <2>3. OnFloors(r, R)
      BY <2>1 DEF SpaceSound, OnFloors, FloorFits, findBuilding
    <2>4. InAreas(r, R)
      BY <2>1 DEF SpaceSound, InAreas, AreaFits, FloorFits, findBuilding
    <2>5. AtDoors(r, R)
      BY <2>1 DEF SpaceSound, AtDoors, DoorFits, AreaFits, FloorFits, findBuilding
    <2>6. Grouped(r, R)
      BY <2>1 DEF SpaceSound, Grouped, GroupFits
    <2> QED
      BY <2>2, <2>3, <2>4, <2>5, <2>6 DEF SpaceSound, r
  <1>2. ASSUME NEW f PROVE SpaceSound(DeleteFloor(d, f), R)
    <2> DEFINE r == DeleteFloor(d, f)
    <2>1. /\ r.buildings = d.buildings
          /\ DOMAIN r.floors = DOMAIN d.floors \ {f}
          /\ \A g \in DOMAIN d.floors \ {f} : r.floors[g] = d.floors[g]
          /\ DOMAIN r.areas = {a \in DOMAIN d.areas : d.areas[a].f # f}
          /\ \A a \in DOMAIN d.areas : d.areas[a].f # f => r.areas[a] = d.areas[a]
          /\ DOMAIN r.doors = {x \in DOMAIN d.doors : d.doors[x].f # f}
          /\ \A x \in DOMAIN d.doors : d.doors[x].f # f => r.doors[x] = d.doors[x]
          /\ DOMAIN r.doorGroups = DOMAIN d.doorGroups
          /\ \A g \in DOMAIN d.doorGroups : r.doorGroups[g] = d.doorGroups[g] \ {x \in DOMAIN d.doors : d.doors[x].f = f}
      BY DeleteFloorTables
    <2> HIDE DEF r
    <2>2. SpaceRows(r)
      BY <2>1 DEF SpaceSound, SpaceRows
    <2>3. OnFloors(r, R)
      BY <2>1 DEF SpaceSound, OnFloors, FloorFits, findBuilding
    <2>4. InAreas(r, R)
      BY <2>1 DEF SpaceSound, InAreas, AreaFits, FloorFits, findBuilding
    <2>5. AtDoors(r, R)
      BY <2>1 DEF SpaceSound, AtDoors, DoorFits, AreaFits, FloorFits, findBuilding
    <2>6. Grouped(r, R)
      BY <2>1 DEF SpaceSound, Grouped, GroupFits
    <2> QED
      BY <2>2, <2>3, <2>4, <2>5, <2>6 DEF SpaceSound, r
  <1>3. ASSUME NEW x PROVE SpaceSound(DeleteDoor(d, x), R)
    <2> DEFINE r == DeleteDoor(d, x)
    <2>1. /\ r.buildings = d.buildings /\ r.floors = d.floors
          /\ DOMAIN r.areas = DOMAIN d.areas /\ \A a \in DOMAIN d.areas : r.areas[a] = d.areas[a]
          /\ DOMAIN r.doors = DOMAIN d.doors \ {x} /\ \A y \in DOMAIN d.doors \ {x} : r.doors[y] = d.doors[y]
          /\ DOMAIN r.doorGroups = DOMAIN d.doorGroups
          /\ \A g \in DOMAIN d.doorGroups : r.doorGroups[g] = d.doorGroups[g] \ {x}
      <3>1. PICK A, D : A = {} /\ D = {x}
        OBVIOUS
      <3>2. /\ \A t \in Tables \ {"areas", "doors", "doorGroups"} : Clear(d, A, D)[t] = d[t]
            /\ DOMAIN Clear(d, A, D).areas = DOMAIN d.areas \ A
            /\ \A a \in DOMAIN d.areas \ A : Clear(d, A, D).areas[a] = d.areas[a]
            /\ DOMAIN Clear(d, A, D).doors = DOMAIN d.doors \ D
            /\ \A y \in DOMAIN d.doors \ D : Clear(d, A, D).doors[y] = d.doors[y]
            /\ DOMAIN Clear(d, A, D).doorGroups = DOMAIN d.doorGroups
            /\ \A g \in DOMAIN d.doorGroups : Clear(d, A, D).doorGroups[g] = d.doorGroups[g] \ D
        BY ClearTables
      <3>3. r = Clear(d, A, D)
        BY <3>1 DEF DeleteDoor
      <3> HIDE DEF r
      <3> QED
        BY <1>T, <3>1, <3>2, <3>3
    <2> HIDE DEF r
    <2>2. SpaceRows(r)
      BY <2>1 DEF SpaceSound, SpaceRows
    <2>3. OnFloors(r, R)
      BY <2>1 DEF SpaceSound, OnFloors, FloorFits, findBuilding
    <2>4. InAreas(r, R)
      BY <2>1 DEF SpaceSound, InAreas, AreaFits, FloorFits, findBuilding
    <2>5. AtDoors(r, R)
      BY <2>1 DEF SpaceSound, AtDoors, DoorFits, AreaFits, FloorFits, findBuilding
    <2>6. Grouped(r, R)
      BY <2>1 DEF SpaceSound, Grouped, GroupFits
    <2> QED
      BY <2>2, <2>3, <2>4, <2>5, <2>6 DEF SpaceSound, r
  <1> QED
    BY <1>1, <1>2, <1>3

\* A floor or an area that moves takes along what lies on or in it.
LEMMA MoveSound ==
    ASSUME NEW d, DOMAIN d = Tables, NEW R, SpaceSound(d, R)
    PROVE  /\ \A f \in DOMAIN d.floors : \A b : FloorFits(d, b) => SpaceSound(UpdateFloor(d, f, b), R)
           /\ \A a \in DOMAIN d.areas : \A b, f : AreaFits(d, b, f) => SpaceSound(UpdateArea(d, a, b, f), R)
  <1>T. "buildings" \in Tables /\ "floors" \in Tables /\ "doorGroups" \in Tables
    BY SpaceNames
  <1>1. ASSUME NEW f \in DOMAIN d.floors, NEW b, FloorFits(d, b) PROVE SpaceSound(UpdateFloor(d, f, b), R)
    <2>0. CASE d.floors[f].b = b
      BY <2>0 DEF UpdateFloor
    <2>9. CASE d.floors[f].b # b
      <3> DEFINE r == UpdateFloor(d, f, b)
      <3>1. /\ r.buildings = d.buildings /\ r.doorGroups = d.doorGroups
            /\ DOMAIN r.floors = DOMAIN d.floors
            /\ \A g \in DOMAIN d.floors \ {f} : r.floors[g] = d.floors[g]
            /\ r.floors[f] = MoveTo(d.floors[f], b)
            /\ DOMAIN r.areas = DOMAIN d.areas
            /\ \A a \in DOMAIN d.areas : r.areas[a] = IF d.areas[a].f = f THEN MoveTo(d.areas[a], b) ELSE d.areas[a]
            /\ DOMAIN r.doors = DOMAIN d.doors
            /\ \A x \in DOMAIN d.doors : r.doors[x] = IF d.doors[x].f = f THEN MoveTo(d.doors[x], b) ELSE d.doors[x]
        BY <1>T, <2>9, UpdateFloorTables
      <3> HIDE DEF r
      <3>m. ASSUME NEW row, "b" \in DOMAIN row
            PROVE  DOMAIN MoveTo(row, b) = DOMAIN row /\ MoveTo(row, b).b = b
                   /\ \A k \in DOMAIN row \ {"b"} : MoveTo(row, b)[k] = row[k]
        BY DEF MoveTo
      <3>k. /\ r.floors[f].b = b
            /\ \A a \in DOMAIN d.areas : d.areas[a].f = f => r.areas[a].b = b /\ r.areas[a].f = f
            /\ \A x \in DOMAIN d.doors : d.doors[x].f = f =>
                   r.doors[x].b = b /\ r.doors[x].f = f /\ r.doors[x].a = d.doors[x].a
        BY <3>1, <3>m DEF SpaceSound, SpaceRows
      <3>n. \A c, e : MoveTo(Spot(c, e), b) = Spot(b, e)
        BY DEF MoveTo, Spot
      <3>2. SpaceRows(r)
        BY <3>1, <3>m DEF SpaceSound, SpaceRows
      <3>3. OnFloors(r, R)
        BY <1>1, <3>1, <3>k DEF SpaceSound, OnFloors, FloorFits, findBuilding
      <3>4. InAreas(r, R)
        BY <1>1, <3>1, <3>k DEF SpaceSound, InAreas, AreaFits, FloorFits, findBuilding
      <3>5. AtDoors(r, R)
        <4> SUFFICES ASSUME NEW x \in DOMAIN d.doors \ R
                     PROVE  DoorFits(r, r.doors[x].b, r.doors[x].f, r.doors[x].a)
          BY <3>1 DEF AtDoors
        <4>1. AreaFits(d, d.doors[x].b, d.doors[x].f) /\ d.doors[x].a \in DOMAIN d.areas
              /\ d.areas[d.doors[x].a] = Spot(d.doors[x].b, d.doors[x].f)
          BY DEF SpaceSound, AtDoors, DoorFits, Spot
        <4>2. CASE d.doors[x].f = f
          <5>1. d.areas[d.doors[x].a].f = f
            BY <4>1, <4>2 DEF Spot
          <5>2. r.areas[d.doors[x].a] = Spot(b, f)
            BY <3>1, <3>n, <4>1, <4>2, <5>1
          <5>3. AreaFits(r, b, f)
            BY <1>1, <3>1, <3>k DEF AreaFits, FloorFits, findBuilding
          <5> QED
            BY <3>1, <3>k, <4>1, <4>2, <5>2, <5>3 DEF DoorFits, Spot
        <4>3. CASE d.doors[x].f # f
          <5>1. d.areas[d.doors[x].a].f # f
            BY <4>1, <4>3 DEF Spot
          <5>2. AreaFits(r, d.doors[x].b, d.doors[x].f)
            BY <3>1, <4>1, <4>3 DEF AreaFits, FloorFits, findBuilding
          <5> QED
            BY <3>1, <4>1, <4>3, <5>1, <5>2 DEF DoorFits, Spot
        <4> QED
          BY <4>2, <4>3
      <3>6. Grouped(r, R)
        BY <3>1 DEF SpaceSound, Grouped, GroupFits
      <3> QED
        BY <3>2, <3>3, <3>4, <3>5, <3>6 DEF SpaceSound, r
    <2> QED
      BY <2>0, <2>9
  <1>2. ASSUME NEW a \in DOMAIN d.areas, NEW b, NEW f, AreaFits(d, b, f) PROVE SpaceSound(UpdateArea(d, a, b, f), R)
    <2>0. CASE d.areas[a] = Spot(b, f)
      BY <2>0 DEF UpdateArea, Spot
    <2>9. CASE d.areas[a] # Spot(b, f)
      <3> DEFINE r == UpdateArea(d, a, b, f)
      <3>1. /\ r.buildings = d.buildings /\ r.floors = d.floors /\ r.doorGroups = d.doorGroups
            /\ DOMAIN r.areas = DOMAIN d.areas
            /\ \A c \in DOMAIN d.areas : r.areas[c] = IF c = a THEN Spot(b, f) ELSE d.areas[c]
            /\ DOMAIN r.doors = DOMAIN d.doors
            /\ \A x \in DOMAIN d.doors : r.doors[x] = IF d.doors[x].a = a THEN Leaf(b, f, a) ELSE d.doors[x]
        BY <1>T, <2>9, UpdateAreaTables
      <3> HIDE DEF r
      <3>k. /\ Spot(b, f).b = b /\ Spot(b, f).f = f /\ DOMAIN Spot(b, f) = {"b", "f"}
            /\ Leaf(b, f, a).b = b /\ Leaf(b, f, a).f = f /\ Leaf(b, f, a).a = a
            /\ DOMAIN Leaf(b, f, a) = {"b", "f", "a"}
        BY DEF Spot, Leaf
      <3>2. SpaceRows(r)
        BY <3>1, <3>k DEF SpaceSound, SpaceRows
      <3>3. OnFloors(r, R)
        BY <3>1 DEF SpaceSound, OnFloors, FloorFits, findBuilding
      <3>4. InAreas(r, R)
        BY <1>2, <3>1, <3>k DEF SpaceSound, InAreas, AreaFits, FloorFits, findBuilding
      <3>5. AtDoors(r, R)
        <4> SUFFICES ASSUME NEW x \in DOMAIN d.doors \ R
                     PROVE  DoorFits(r, r.doors[x].b, r.doors[x].f, r.doors[x].a)
          BY <3>1 DEF AtDoors
        <4>1. DoorFits(d, d.doors[x].b, d.doors[x].f, d.doors[x].a)
          BY DEF SpaceSound, AtDoors
        <4>2. AreaFits(r, b, f)
          BY <1>2, <3>1 DEF AreaFits, FloorFits, findBuilding
        <4>3. CASE d.doors[x].a = a
          BY <3>1, <3>k, <4>1, <4>2, <4>3 DEF DoorFits, Spot
        <4>4. CASE d.doors[x].a # a
          <5>1. AreaFits(r, d.doors[x].b, d.doors[x].f)
            BY <3>1, <4>1 DEF DoorFits, AreaFits, FloorFits, findBuilding
          <5> QED
            BY <3>1, <4>1, <4>4, <5>1 DEF DoorFits
        <4> QED
          BY <4>3, <4>4
      <3>6. Grouped(r, R)
        BY <3>1 DEF SpaceSound, Grouped, GroupFits
      <3> QED
        BY <3>2, <3>3, <3>4, <3>5, <3>6 DEF SpaceSound, r
    <2> QED
      BY <2>0, <2>9
  <1> QED
    BY <1>1, <1>2

\* A door that moves to a place that fits, and a change of what a group names.
LEMMA EditSound ==
    ASSUME NEW d, DOMAIN d = Tables, NEW R, SpaceSound(d, R)
    PROVE  /\ \A x \in DOMAIN d.doors : \A b, f, a : DoorFits(d, b, f, a) => SpaceSound(UpdateDoor(d, x, b, f, a), R)
           /\ \A g \in DOMAIN d.doorGroups : \A x \in DOMAIN d.doors : SpaceSound(AddDoorToGroup(d, g, x), R)
           /\ \A g \in DOMAIN d.doorGroups : \A x : SpaceSound(RemoveDoorFromGroup(d, g, x), R)
  <1>T. "buildings" \in Tables /\ "floors" \in Tables /\ "areas" \in Tables /\ "doors" \in Tables /\ "doorGroups" \in Tables
    BY SpaceNames
  <1>1. ASSUME NEW x \in DOMAIN d.doors, NEW b, NEW f, NEW a, DoorFits(d, b, f, a)
        PROVE  SpaceSound(UpdateDoor(d, x, b, f, a), R)
    <2> DEFINE r == UpdateDoor(d, x, b, f, a)
    <2>1. /\ r.buildings = d.buildings /\ r.floors = d.floors /\ r.areas = d.areas /\ r.doorGroups = d.doorGroups
          /\ DOMAIN r.doors = DOMAIN d.doors /\ r.doors[x] = [b |-> b, f |-> f, a |-> a]
          /\ \A y \in DOMAIN d.doors \ {x} : r.doors[y] = d.doors[y]
      BY <1>T DEF UpdateDoor
    <2> HIDE DEF r
    <2>2. SpaceRows(r)
      BY <1>1, <2>1 DEF SpaceSound, SpaceRows
    <2>3. OnFloors(r, R)
      BY <1>1, <2>1 DEF SpaceSound, OnFloors, FloorFits, findBuilding
    <2>4. InAreas(r, R)
      BY <1>1, <2>1 DEF SpaceSound, InAreas, AreaFits, FloorFits, findBuilding
    <2>5. AtDoors(r, R)
      BY <1>1, <2>1 DEF SpaceSound, AtDoors, DoorFits, AreaFits, FloorFits, findBuilding
    <2>6. Grouped(r, R)
      BY <1>1, <2>1 DEF SpaceSound, Grouped, GroupFits
    <2> QED
      BY <2>2, <2>3, <2>4, <2>5, <2>6 DEF SpaceSound, r
  <1>2. ASSUME NEW g \in DOMAIN d.doorGroups, NEW x \in DOMAIN d.doors PROVE SpaceSound(AddDoorToGroup(d, g, x), R)
    <2> DEFINE r == AddDoorToGroup(d, g, x)
    <2>1. /\ r.buildings = d.buildings /\ r.floors = d.floors /\ r.areas = d.areas /\ r.doors = d.doors
          /\ DOMAIN r.doorGroups = DOMAIN d.doorGroups /\ r.doorGroups[g] = d.doorGroups[g] \cup {x}
          /\ \A k \in DOMAIN d.doorGroups \ {g} : r.doorGroups[k] = d.doorGroups[k]
      BY <1>T DEF AddDoorToGroup
    <2> HIDE DEF r
    <2>2. SpaceRows(r)
      BY <2>1 DEF SpaceSound, SpaceRows
    <2>3. OnFloors(r, R)
      BY <2>1 DEF SpaceSound, OnFloors, FloorFits, findBuilding
    <2>4. InAreas(r, R)
      BY <2>1 DEF SpaceSound, InAreas, AreaFits, FloorFits, findBuilding
    <2>5. AtDoors(r, R)
      BY <2>1 DEF SpaceSound, AtDoors, DoorFits, AreaFits, FloorFits, findBuilding
    <2>6. Grouped(r, R)
      BY <2>1 DEF SpaceSound, Grouped, GroupFits
    <2> QED
      BY <2>2, <2>3, <2>4, <2>5, <2>6 DEF SpaceSound, r
  <1>3. ASSUME NEW g \in DOMAIN d.doorGroups, NEW x PROVE SpaceSound(RemoveDoorFromGroup(d, g, x), R)
    <2> DEFINE r == RemoveDoorFromGroup(d, g, x)
    <2>1. /\ r.buildings = d.buildings /\ r.floors = d.floors /\ r.areas = d.areas /\ r.doors = d.doors
          /\ DOMAIN r.doorGroups = DOMAIN d.doorGroups /\ r.doorGroups[g] = d.doorGroups[g] \ {x}
          /\ \A k \in DOMAIN d.doorGroups \ {g} : r.doorGroups[k] = d.doorGroups[k]
      BY <1>T DEF RemoveDoorFromGroup
    <2> HIDE DEF r
    <2>2. SpaceRows(r)
      BY <2>1 DEF SpaceSound, SpaceRows
    <2>3. OnFloors(r, R)
      BY <2>1 DEF SpaceSound, OnFloors, FloorFits, findBuilding
    <2>4. InAreas(r, R)
      BY <2>1 DEF SpaceSound, InAreas, AreaFits, FloorFits, findBuilding
    <2>5. AtDoors(r, R)
      BY <2>1 DEF SpaceSound, AtDoors, DoorFits, AreaFits, FloorFits, findBuilding
    <2>6. Grouped(r, R)
      BY <2>1 DEF SpaceSound, Grouped, GroupFits
    <2> QED
      BY <2>2, <2>3, <2>4, <2>5, <2>6 DEF SpaceSound, r
  <1> QED
    BY <1>1, <1>2, <1>3

SpaceInv == SpaceSound(mem, hist.raced) /\ SpaceSound(stored, hist.raced)

\* A save of sound tables leaves both images sound, whatever becomes of it.
LEMMA SaveSound ==
    ASSUME IdInv, SpaceInv, NEW d, DOMAIN d = Tables, NEW h, DOMAIN h = HistFields, hist.raced \subseteq h.raced,
           SpaceSound(d, h.raced), NEW undo \in BOOLEAN, NEW cost, Save(d, undo, h, cost)
    PROVE  SpaceInv'
  <1>1. PICK f \in 0..1 : IF f = 0 THEN Saved(d, h) ELSE NotSaved(d, undo, h)
    BY DEF Save
  <1>2. CASE Saved(d, h)
    <2>1. mem' = d /\ stored' = persistLocked(d) /\ hist'.raced = h.raced
      BY <1>2 DEF Saved, HistFields
    <2>2. \A t \in SpaceTables : persistLocked(d)[t] = d[t]
      <3>1. SpaceTables \subseteq Tables \ Volatile
        BY DEF SpaceTables, Tables, Volatile
      <3> QED
        BY <3>1, PersistTables
    <2>3. SpaceSound(persistLocked(d), h.raced)
      BY <2>2, SpaceFrame
    <2> QED
      BY <2>1, <2>3 DEF SpaceInv
  <1>3. CASE NotSaved(d, undo, h)
    <2>1. stored' = stored /\ ((mem' = mem /\ hist' = hist) \/ (mem' = d /\ hist'.raced = h.raced))
      <3>1. CASE undo = TRUE
        BY <1>3, <3>1 DEF NotSaved
      <3>2. CASE undo = FALSE
        BY <1>3, <3>2 DEF NotSaved, HistFields
      <3> QED
        BY <3>1, <3>2
    <2>2. SpaceSound(stored, h.raced)
      BY SpaceFrame DEF SpaceInv
    <2> QED
      BY <2>1, <2>2 DEF SpaceInv
  <1> QED
    BY <1>1, <1>2, <1>3

LEMMA RequestSound ==
    ASSUME IdInv, SpaceInv, NEW d, DOMAIN d = Tables, SpaceSound(d, hist.raced), NEW undo \in BOOLEAN, Request(d, undo, hist)
    PROVE  SpaceInv'
    BY SaveSound DEF Request, IdInv, Base

LEMMA BeginSound == ASSUME IdInv, SpaceInv, NEW p, NEW U, Begin(p, U) PROVE SpaceInv'
    BY BeginFrame DEF SpaceInv, IdInv, HistFields

\* The write of a creation: the row fits, or it is remembered as overtaken.
LEMMA CreationSound ==
    ASSUME IdInv, SpaceInv, NEW d, DOMAIN d = Tables, NEW fits \in BOOLEAN, SpaceSound(d, IF fits THEN hist.raced ELSE hist.raced \cup {next}),
           Finish(TRUE, d, FALSE, Races(fits))
    PROVE  SpaceInv'
  <1>1. /\ DOMAIN Races(fits) = HistFields /\ hist.raced \subseteq Races(fits).raced
        /\ Races(fits).raced = IF fits THEN hist.raced ELSE hist.raced \cup {next}
    BY DEF Races, IdInv, Base, HistFields
  <1> QED
    BY <1>1, SaveSound DEF Finish, GoOn

LEMMA TopologyKeeps == ASSUME IdInv, SpaceInv, Topology PROVE SpaceInv'
  <1>0. DOMAIN mem = Tables /\ (\A t \in Tables : next \notin DOMAIN mem[t]) /\ SpaceSound(mem, hist.raced)
    <2>1. \A i \in Ids(mem) : i < next
      BY DEF IdInv, Below
    <2>2. next \in Nat
      BY DEF IdInv, Base
    <2> QED
      BY <2>1, <2>2, IdsOf DEF IdInv, Base, SpaceInv
  <1>d. Base
    BY DEF IdInv
  <1>p. \A t \in Tables : \A id, row : DOMAIN Put(mem, t, id, row) = Tables
    BY <1>0, PutTables
  <1>1. CASE createBuilding \/ createReferencePlace
    BY <1>0, <1>1, <1>p, SpaceNames, CreateSound, RequestSound DEF createBuilding, createReferencePlace, CreateBuilding
  <1>2. CASE updateReferencePlace
    BY <1>0, <1>2, RequestSound DEF updateReferencePlace, UpdateBuilding
  <1>3. CASE deleteReferencePlace
    BY <1>0, <1>d, <1>3, RemoveSound, SpaceGrows, RequestSound DEF deleteReferencePlace, Grows
  <1>4. CASE updateFloor
    BY <1>0, <1>d, <1>4, MoveSound, SpaceGrows, RequestSound DEF updateFloor, Grows, FloorFits
  <1>5. CASE deleteFloor
    BY <1>0, <1>d, <1>5, RemoveSound, SpaceGrows, RequestSound DEF deleteFloor, Grows
  <1>6. CASE updateArea
    <2>1. PICK a, b, f : a \in DOMAIN mem.areas /\ AreaFits(mem, b, f) /\ Request(UpdateArea(mem, a, b, f), FALSE, hist)
      BY <1>6 DEF updateArea
    <2>2. SpaceSound(UpdateArea(mem, a, b, f), hist.raced)
      BY <1>0, <2>1, MoveSound
    <2>3. DOMAIN UpdateArea(mem, a, b, f) = Tables
      BY <1>d, <2>1, SpaceGrows DEF Grows
    <2> QED
      BY <2>1, <2>2, <2>3, RequestSound
  <1>7. CASE updateReferenceLock
    <2>1. PICK x, b, f, a :
              x \in DOMAIN mem.doors /\ DoorFits(mem, b, f, a) /\ Request(UpdateDoor(mem, x, b, f, a), FALSE, hist)
      BY <1>7 DEF updateReferenceLock
    <2>2. SpaceSound(UpdateDoor(mem, x, b, f, a), hist.raced)
      BY <1>0, <2>1, EditSound
    <2>3. DOMAIN UpdateDoor(mem, x, b, f, a) = Tables
      BY <1>d, <2>1, SpaceGrows DEF Grows
    <2> QED
      BY <2>1, <2>2, <2>3, RequestSound
  <1>8. CASE deleteReferenceLock
    BY <1>0, <1>d, <1>8, RemoveSound, SpaceGrows, RequestSound DEF deleteReferenceLock, Grows
  <1>9. CASE createReferenceGroupLock \/ deleteReferenceGroupLock
    <2>1. PICK g, x :
           /\ g \in DOMAIN mem.doorGroups
           /\ \/ x \in DOMAIN mem.doors /\ Request(AddDoorToGroup(mem, g, x), FALSE, hist)
              \/ Request(RemoveDoorFromGroup(mem, g, x), FALSE, hist)
      BY <1>9 DEF createReferenceGroupLock, deleteReferenceGroupLock
    <2>2. /\ x \in DOMAIN mem.doors => SpaceSound(AddDoorToGroup(mem, g, x), hist.raced)
          /\ SpaceSound(RemoveDoorFromGroup(mem, g, x), hist.raced)
      BY <1>0, <2>1, EditSound
    <2>3. DOMAIN AddDoorToGroup(mem, g, x) = Tables /\ DOMAIN RemoveDoorFromGroup(mem, g, x) = Tables
      BY <1>d, <2>1, SpaceGrows DEF Grows
    <2> QED
      BY <2>1, <2>2, <2>3, RequestSound
  <1>10. CASE createFloor
    <2>1. CASE \E p, U : Begin(p, U)
      BY <2>1, BeginSound
    <2>2. CASE Finish(TRUE, CreateFloor(mem, next, pending.b), FALSE, Races(FloorFits(mem, pending.b)))
      <3>1. PICK fits \in BOOLEAN : fits = FloorFits(mem, pending.b)
        <4>1. (pending.b \in findBuilding(mem)) \in BOOLEAN
          OBVIOUS
        <4> QED
          BY <4>1, Zenon DEF FloorFits
      <3>2. SpaceSound(CreateFloor(mem, next, pending.b), IF fits THEN hist.raced ELSE hist.raced \cup {next})
        BY <1>0, <3>1, CreateSound
      <3>3. DOMAIN CreateFloor(mem, next, pending.b) = Tables
        BY <1>p, SpaceNames DEF CreateFloor
      <3> QED
        BY <2>2, <3>1, <3>2, <3>3, CreationSound
    <2> QED
      BY <1>10, <2>1, <2>2 DEF createFloor
  <1>11. CASE createArea
    <2>1. CASE \E p, U : Begin(p, U)
      BY <2>1, BeginSound
    <2>2. CASE Finish(TRUE, CreateArea(mem, next, pending.b, pending.f), FALSE, Races(AreaFits(mem, pending.b, pending.f)))
      <3>1. PICK fits \in BOOLEAN : fits = AreaFits(mem, pending.b, pending.f)
        BY DEF AreaFits
      <3>2. SpaceSound(CreateArea(mem, next, pending.b, pending.f), IF fits THEN hist.raced ELSE hist.raced \cup {next})
        BY <1>0, <3>1, CreateSound
      <3>3. DOMAIN CreateArea(mem, next, pending.b, pending.f) = Tables
        BY <1>p, SpaceNames DEF CreateArea
      <3> QED
        BY <2>2, <3>1, <3>2, <3>3, CreationSound
    <2> QED
      BY <1>11, <2>1, <2>2 DEF createArea
  <1>12. CASE createDoor \/ createReferenceLock
    <2>1. CASE \E p, U : Begin(p, U)
      BY <2>1, BeginSound
    <2>2. CASE Finish(TRUE, CreateDoor(mem, next, pending.b, pending.f, pending.a), FALSE,
                      Races(DoorFits(mem, pending.b, pending.f, pending.a)))
      <3>1. PICK fits \in BOOLEAN : fits = DoorFits(mem, pending.b, pending.f, pending.a)
        BY DEF DoorFits
      <3>2. SpaceSound(CreateDoor(mem, next, pending.b, pending.f, pending.a),
                       IF fits THEN hist.raced ELSE hist.raced \cup {next})
        BY <1>0, <3>1, CreateSound
      <3>3. DOMAIN CreateDoor(mem, next, pending.b, pending.f, pending.a) = Tables
        BY <1>p, SpaceNames DEF CreateDoor
      <3> QED
        BY <2>2, <3>1, <3>2, <3>3, CreationSound
    <2> QED
      BY <1>12, <2>1, <2>2 DEF createDoor, createReferenceLock, addDoor
  <1>13. CASE createDoorGroup
    <2>1. CASE \E p, U : Begin(p, U)
      BY <2>1, BeginSound
    <2>2. CASE Finish(TRUE, CreateDoorGroup(mem, next, pending.doors), FALSE, Races(GroupFits(mem, pending.doors)))
      <3>1. PICK fits \in BOOLEAN : fits = GroupFits(mem, pending.doors)
        BY DEF GroupFits
      <3>2. SpaceSound(CreateDoorGroup(mem, next, pending.doors), IF fits THEN hist.raced ELSE hist.raced \cup {next})
        BY <1>0, <3>1, CreateSound
      <3>3. DOMAIN CreateDoorGroup(mem, next, pending.doors) = Tables
        BY <1>p, SpaceNames DEF CreateDoorGroup
      <3> QED
        BY <2>2, <3>1, <3>2, <3>3, CreationSound
    <2> QED
      BY <1>13, <2>1, <2>2 DEF createDoorGroup
  <1> QED
    BY <1>1, <1>2, <1>3, <1>4, <1>5, <1>6, <1>7, <1>8, <1>9, <1>10, <1>11, <1>12, <1>13 DEF Topology

\* A step that leaves the tables of the space service and the overtaken rows alone.
LEMMA ElsewhereSound ==
    ASSUME IdInv, SpaceInv, NEW T, NEW H, Shape(T, H), T \cap SpaceTables = {}, "raced" \notin H
    PROVE  SpaceInv'
  <1>0. SpaceTables \subseteq Tables /\ SpaceTables \cap Volatile = {}
    BY DEF SpaceTables, Tables, Volatile
  <1>1. hist'.raced = hist.raced
    BY DEF Shape, HistFields
  <1>2. CASE UNCHANGED <<mem, stored, next>>
    BY <1>1, <1>2 DEF SpaceInv
  <1>3. CASE \E d : Grows(d, T) /\ Effect(d)
    <2>1. PICK d : Grows(d, T) /\ Effect(d)
      BY <1>3
    <2>2. \A t \in SpaceTables : d[t] = mem[t]
      BY <1>0, <2>1 DEF Grows
    <2>3. \A t \in SpaceTables : persistLocked(d)[t] = mem[t]
      BY <1>0, <2>1, <2>2, PersistTables DEF Grows
    <2>4. SpaceSound(d, hist.raced) /\ SpaceSound(persistLocked(d), hist.raced)
      BY <2>2, <2>3, SpaceFrame DEF SpaceInv
    <2> QED
      BY <1>1, <2>1, <2>4 DEF Effect, SpaceInv
  <1> QED
    BY <1>2, <1>3 DEF Shape

LEMMA CrashSound == ASSUME IdInv, SpaceInv, Crash PROVE SpaceInv'
  <1>1. SpaceTables \subseteq Tables \ (KeptWhenEmpty \cup Volatile)
    BY DEF SpaceTables, Tables, KeptWhenEmpty, Volatile
  <1>2. \A t \in SpaceTables : restoreFromStateStore(stored)[t] = stored[t]
    BY <1>1, RestoreTables DEF IdInv
  <1> QED
    BY <1>2, SpaceFrame DEF Crash, SpaceInv

LEMMA InitSound == ASSUME Init PROVE SpaceInv
  <1>0. mem = SetUp(family) /\ stored = persistLocked(mem) /\ hist = NoHistory
    BY DEF Init
  <1>1. SpaceTables \subseteq Tables \ {"spaces", "clients"} /\ SpaceTables \cap Volatile = {}
    BY DEF SpaceTables, Tables, Volatile
  <1>2. \A t \in SpaceTables : NewService[t] = NewSpaceService[t]
    BY <1>1 DEF NewService, SpaceTables
  <1>3. \A t \in SpaceTables : mem[t] = NewSpaceService[t] /\ stored[t] = NewSpaceService[t]
    BY <1>0, <1>1, <1>2, SetUpRows, PersistTables
  <1>4. /\ NewSpaceService.buildings = [b \in {11, 12} |-> "active"]
        /\ NewSpaceService.floors = [f \in {13, 14} |-> [b |-> IF f = 13 THEN 11 ELSE 12]]
        /\ NewSpaceService.areas = One(15, [b |-> 11, f |-> 13])
        /\ NewSpaceService.doors = One(16, [b |-> 11, f |-> 13, a |-> 15])
        /\ NewSpaceService.doorGroups = One(17, {16})
    BY DEF NewSpaceService, SpaceTables
  <1>5. SpaceSound(NewSpaceService, {})
    <2>1. SpaceRows(NewSpaceService) /\ OnFloors(NewSpaceService, {}) /\ Grouped(NewSpaceService, {})
      BY <1>4 DEF SpaceRows, OnFloors, Grouped, GroupFits, FloorFits, findBuilding, One
    <2>2. InAreas(NewSpaceService, {}) /\ AtDoors(NewSpaceService, {})
      BY <1>4 DEF InAreas, AtDoors, DoorFits, AreaFits, FloorFits, findBuilding, One
    <2> QED
      BY <2>1, <2>2 DEF SpaceSound
  <1>6. hist.raced = {}
    BY <1>0 DEF NoHistory
  <1> QED
    BY <1>3, <1>5, <1>6, SpaceFrame DEF SpaceInv

LEMMA NextKeepsSpaces == ASSUME IdInv, SpaceInv, [Next]_vars PROVE SpaceInv'
  <1>1. CASE Next
    <2>1. Base
      BY DEF IdInv
    <2>2. /\ VisitTables \cap SpaceTables = {} /\ PremiseTables \cap SpaceTables = {} /\ OAuth2Tables \cap SpaceTables = {}
          /\ ShareTables \cap SpaceTables = {} /\ BookingTables \cap SpaceTables = {} /\ PeopleTables \cap SpaceTables = {}
      BY DEF VisitTables, PremiseTables, OAuth2Tables, ShareTables, BookingTables, SpaceTables, PeopleTables, Volatile, Moving
    <2>3. "raced" \notin PeopleFields \cup RowFields
      BY DEF PeopleFields, RowFields
    <2> QED
      BY <1>1, <2>1, <2>2, <2>3, NextShape, ElsewhereSound, TopologyKeeps, CrashSound
  <1>2. CASE UNCHANGED vars
    BY <1>2 DEF vars, SpaceInv
  <1> QED
    BY <1>1, <1>2

(***************************************************************************)
(* TopologySound is an invariant of every instance: whatever is deleted,   *)
(* moved, lost with a failed save or restored, floors, areas, doors and    *)
(* door groups lie where they say, but for creations that were overtaken.  *)
(***************************************************************************)
THEOREM TopologyStaysSound == Spec => []TopologySound
  <1>1. SpaceInv => TopologySound
    BY DEF SpaceInv, SpaceSound, OnFloors, InAreas, AtDoors, Grouped, TopologySound, Images
  <1> QED
    BY <1>1, InitIds, NextKeepsIds, InitSound, NextKeepsSpaces, PTL DEF Spec

(* --------------- users signed off and their credentials ---------------- *)

\* A user about to be recorded as signed off has no active credential, got one since, or lost a save.
Careful(p) == p.op = "write" => (p.off /\ p.id \in creds.held.active => p.id \in hist.reg \cup hist.lost)

SignOffInv ==
    /\ creds.held.active \cap hist.off \subseteq hist.lost
    /\ creds.kept.active \subseteq creds.held.active \cup hist.lost
    /\ family \in {"accounts", "sync"} => Careful(pending)

\* A step that leaves the credentials, the sign-offs and the request under way alone.
LEMMA SignOffFrame ==
    ASSUME SignOffInv, creds' = creds, hist'.off = hist.off, hist'.lost = hist.lost, family' = family,
           \/ family \notin {"accounts", "sync"}
           \/ hist'.reg = hist.reg /\ (pending' = pending \/ pending'.op # "write" \/ pending'.off = FALSE)
    PROVE  SignOffInv'
    BY DEF SignOffInv, Careful

LEMMA SaveSignOff ==
    ASSUME Base, NEW d, NEW undo \in BOOLEAN, NEW h, Recalls(h, RowFields), h.reg = hist.reg, NEW cost, Save(d, undo, h, cost)
    PROVE  hist'.off = hist.off /\ hist'.reg = hist.reg /\ hist'.lost = hist.lost
  <1>0. h.off = hist.off /\ h.lost = hist.lost /\ DOMAIN h = HistFields
    BY DEF Recalls, RowFields, HistFields
  <1>1. PICK f \in 0..1 : IF f = 0 THEN Saved(d, h) ELSE NotSaved(d, undo, h)
    BY DEF Save
  <1>2. CASE Saved(d, h)
    BY <1>0, <1>2 DEF Saved, HistFields
  <1>3. CASE NotSaved(d, undo, h)
    <2>1. CASE undo = TRUE
      BY <1>3, <2>1 DEF NotSaved
    <2>2. CASE undo = FALSE
      BY <1>0, <1>3, <2>2 DEF NotSaved, HistFields
    <2> QED
      BY <2>1, <2>2
  <1> QED
    BY <1>1, <1>2, <1>3

LEMMA RequestSignOff ==
    ASSUME Base, SignOffInv, NEW d, NEW undo \in BOOLEAN, NEW h, Recalls(h, RowFields), h.reg = hist.reg, Request(d, undo, h)
    PROVE  SignOffInv'
    BY SaveSignOff, SignOffFrame DEF Request

\* A step of the credential service that leaves A as the users with an active credential: what a lost
\* save would bring back is on record, and stays so while it is in use.
Left(A) ==
    /\ creds'.held.active = A
    /\ creds'.kept.active \subseteq A \cup hist'.lost
    /\ A \cap hist.lost \subseteq hist'.lost

LEMMA PersistLeft ==
    ASSUME NEW c, NEW h, NEW cost, DOMAIN h = HistFields, h.lost = hist.lost, PersistCredentials(c, h, cost)
    PROVE  Left(c.active)
  <1>1. PICK f, L : /\ creds' = [held |-> c, kept |-> IF f = 0 THEN c ELSE creds.kept]
                    /\ hist' = [h EXCEPT !.lost = L]
                    /\ L = IF f = 0 THEN hist.lost \cap c.active ELSE hist.lost \cup (creds.kept.active \ c.active)
    BY DEF PersistCredentials
  <1>2. hist'.lost = L
    BY <1>1 DEF HistFields
  <1>3. CASE f = 0
    BY <1>1, <1>2, <1>3 DEF Left
  <1>4. CASE f # 0
    BY <1>1, <1>2, <1>4 DEF Left
  <1> QED
    BY <1>3, <1>4

LEMMA RevokeLeft ==
    ASSUME SignOffInv, NEW U, NEW h, NEW cost, DOMAIN h = HistFields, h.lost = hist.lost,
           RevokeAllUserCredentials(U, h, cost)
    PROVE  Left(creds.held.active \ U)
  <1>1. CASE U \cap creds.held.active # {}
    <2>1. RevokeCredential(creds.held, U, {}).active = creds.held.active \ U
      BY DEF RevokeCredential
    <2> QED
      BY <1>1, <2>1, PersistLeft DEF RevokeAllUserCredentials
  <1>2. CASE U \cap creds.held.active = {}
    <2>1. creds' = creds /\ hist' = h
      BY <1>2 DEF RevokeAllUserCredentials
    <2> QED
      BY <1>2, <2>1 DEF Left, SignOffInv
  <1> QED
    BY <1>1, <1>2

LEMMA BeginSignOff ==
    ASSUME Base, SignOffInv, NEW p, NEW U, p.op = "write" => (p.off => p.id \in U), Begin(p, U)
    PROVE  SignOffInv'
  <1> DEFINE h == [hist EXCEPT !.reg = {}]
  <1>1. DOMAIN h = HistFields /\ h.lost = hist.lost /\ h.off = hist.off /\ h.reg = {}
    BY DEF Base, HistFields
  <1>2. RevokeAllUserCredentials(U, h, 1) /\ pending' = p
    BY DEF Begin
  <1> HIDE DEF h
  <1>3. Left(creds.held.active \ U) /\ hist'.off = hist.off
    BY <1>1, <1>2, RevokeLeft, RevokeRecorded DEF Recorded, HistFields
  <1> QED
    BY <1>2, <1>3 DEF SignOffInv, Careful, Left

\* What a request remembers of names and statuses leaves the rest alone.
LEMMA RowHistory ==
    ASSUME Base
    PROVE  /\ Recalls(hist, RowFields)
           /\ \A S, U, st : Recalls(Asks(Names(hist, S), U, st), RowFields) /\ Asks(Names(hist, S), U, st).reg = hist.reg
           /\ \A U, st : Recalls(Asks(hist, U, st), RowFields) /\ Asks(hist, U, st).reg = hist.reg
    BY DEF Base, Recalls, Names, Asks, RowFields, HistFields

LEMMA MergedSignOff ==
    ASSUME Base, SignOffInv, NEW u, NEW e, NEW st, NEW gs, NEW ask, NEW off, NEW U, off => u \in U,
           Begin(Merged(u, e, st, gs, ask, off), U)
    PROVE  SignOffInv'
  <1> DEFINE m == Merged(u, e, st, gs, ask, off)
  <1>1. m.id = u /\ m.off = off
    BY DEF Merged
  <1> HIDE DEF m
  <1>2. Begin(m, U)
    BY DEF m
  <1> QED
    BY <1>1, <1>2, BeginSignOff

LEMMA WriteUserSignOff == ASSUME Base, SignOffInv, family \in {"accounts", "sync"}, WriteUser PROVE SignOffInv'
  <1> DEFINE u == pending.id
             d == UpdateUser(mem, u, pending.email, pending.st, pending.groups)
             g == IF pending.ask THEN Asks(hist, {u}, pending.st)
                  ELSE IF u \in DOMAIN mem.users /\ Row(u).st # pending.seen THEN Asks(hist, {u}, pending.seen)
                  ELSE hist
             h == Names(g, pending.groups)
             off == IF pending.off THEN h.off \cup ({u} \ hist.reg) ELSE h.off
             k == [h EXCEPT !.off = off]
  <1>1. Finish(u \in DOMAIN mem.users, d, FALSE, k)
    BY DEF WriteUser
  <1>2. DOMAIN g = HistFields /\ g.off = hist.off /\ g.lost = hist.lost
    BY DEF Asks, Base, HistFields
  <1> HIDE DEF g
  <1>3. DOMAIN h = HistFields /\ h.off = hist.off /\ h.lost = hist.lost
    BY <1>2 DEF Names, HistFields
  <1> HIDE DEF h
  <1>4. off = hist.off \/ (pending.off /\ off = hist.off \cup ({u} \ hist.reg))
    BY <1>3
  <1>5. creds.held.active \cap off \subseteq hist.lost
    <2>1. CASE off = hist.off
      BY <2>1 DEF SignOffInv
    <2>2. CASE pending.off /\ off = hist.off \cup ({u} \ hist.reg)
      <3>1. pending.op = "write"
        BY DEF WriteUser
      <3>2. u \in creds.held.active => u \in hist.reg \cup hist.lost
        BY <2>2, <3>1 DEF SignOffInv, Careful
      <3> QED
        BY <2>2, <3>2 DEF SignOffInv
    <2> QED
      BY <1>4, <2>1, <2>2
  <1> HIDE DEF off
  <1>6. DOMAIN k = HistFields /\ k.off = off /\ k.lost = hist.lost
    BY <1>3 DEF HistFields
  <1> HIDE DEF k
  <1>7. pending' = Idle /\ creds' = creds /\ hist'.off \subseteq off \cup hist.off /\ hist'.lost = hist.lost
    <2>1. CASE u \in DOMAIN mem.users
      <3>1. GoOn(d, FALSE, k, Idle)
        BY <1>1, <2>1 DEF Finish
      <3> HIDE DEF d
      <3>2. Saved(d, k) \/ NotSaved(d, FALSE, k)
        BY <3>1 DEF GoOn, Save
      <3>3. hist'.off \subseteq off \cup hist.off /\ hist'.lost = hist.lost
        BY <3>2, <1>6 DEF Saved, NotSaved, HistFields
      <3> QED
        BY <3>1, <3>3 DEF GoOn
    <2>2. CASE u \notin DOMAIN mem.users
      BY <1>1, <2>2 DEF Finish
    <2> QED
      BY <2>1, <2>2
  <1> QED
    BY <1>5, <1>7 DEF SignOffInv, Careful, Idle

LEMMA AccountsSignOff == ASSUME Base, SignOffInv, family = "accounts", Accounts PROVE SignOffInv'
  <1>1. CASE createUser
    BY <1>1, RowHistory, RequestSignOff DEF createUser
  <1>2. CASE appAdminAddUser
    BY <1>2, RowHistory, RequestSignOff DEF appAdminAddUser
  <1>3. CASE deleteUser \/ appAdminRemoveUser \/ deleteReferenceMember \/ deleteCurrentUser
    BY <1>3, RowHistory, RequestSignOff DEF deleteUser, appAdminRemoveUser, deleteReferenceMember, deleteCurrentUser
  <1>4. CASE batchUpdateUserStatus
    BY <1>4, RowHistory, RequestSignOff DEF batchUpdateUserStatus
  <1>5. CASE batchDeleteUsers
    BY <1>5, RowHistory, RequestSignOff DEF batchDeleteUsers
  <1>6. CASE importUsersCSV
    BY <1>6, RowHistory, RequestSignOff DEF importUsersCSV
  <1>7. CASE updateUser \/ updateReferenceMember \/ appAdminUpdateUserRole
    BY <1>7, MergedSignOff DEF updateUser, updateReferenceMember, appAdminUpdateUserRole
  <1>8. CASE WriteUser
    BY <1>8, WriteUserSignOff
  <1> QED
    BY <1>1, <1>2, <1>3, <1>4, <1>5, <1>6, <1>7, <1>8 DEF Accounts

\* A request of the credential service: the users it gives an active credential are on record.
LEMMA CredentialsSignOff == ASSUME Base, SignOffInv, MobileCredentials PROVE SignOffInv'
  <1>1. ASSUME NEW A, NEW S, A \subseteq creds.held.active \cup S, Left(A), hist'.off = hist.off \ S,
               hist.reg \cup S = hist'.reg, pending' = pending, family' = family
        PROVE  SignOffInv'
    BY <1>1 DEF SignOffInv, Left, Careful
  <1>a. ASSUME NEW A, A \subseteq creds.held.active, Left(A), hist'.off = hist.off, hist'.reg = hist.reg,
               pending' = pending, family' = family
        PROVE  SignOffInv'
    BY <1>a DEF SignOffInv, Left, Careful
  <1>2. DOMAIN hist = HistFields
    BY DEF Base
  <1>3. ASSUME NEW c, CredentialRequest(c, hist), c.active \subseteq creds.held.active
        PROVE  SignOffInv'
    <2>1. PersistCredentials(c, hist, 1) /\ pending' = pending /\ family' = family
      BY <1>3 DEF CredentialRequest
    <2>2. Left(c.active) /\ hist'.off = hist.off /\ hist'.reg = hist.reg
      BY <1>2, <2>1, PersistLeft, PersistRecorded DEF Recorded, HistFields
    <2> QED
      BY <1>a, <1>3, <2>1, <2>2
  <1>4. ASSUME NEW c, NEW u, CredentialRequest(c, Puts(u)), c.active = creds.held.active \cup {u}
        PROVE  SignOffInv'
    <2>1. PersistCredentials(c, Puts(u), 1) /\ pending' = pending /\ family' = family
      BY <1>4 DEF CredentialRequest
    <2>2. /\ DOMAIN Puts(u) = HistFields /\ Puts(u).lost = hist.lost
          /\ Puts(u).off = hist.off \ {u} /\ Puts(u).reg = hist.reg \cup {u}
      BY <1>2 DEF Puts, HistFields
    <2>3. Left(c.active) /\ hist'.off = hist.off \ {u} /\ hist'.reg = hist.reg \cup {u}
      BY <2>1, <2>2, PersistLeft, PersistRecorded DEF Recorded, HistFields
    <2> QED
      BY <1>1, <1>4, <2>1, <2>3
  <1>5. CASE appRegisterMobileCredential \/ appAdminCreateCredential \/ appAdminActivateCredential
    <2>1. \A u : /\ RegisterDevice(creds.held, u).active = creds.held.active \cup {u}
                /\ ActivateCredential(creds.held, u).active = creds.held.active \cup {u}
      BY DEF RegisterDevice, ActivateCredential
    <2> QED
      BY <1>4, <1>5, <2>1 DEF appRegisterMobileCredential, appAdminCreateCredential, appAdminActivateCredential
  <1>6. CASE appAdminSuspendCredential \/ appRefreshMobileCredential \/ RevokeOne
    <2>1. /\ \A u : SuspendCredential(creds.held, u).active \subseteq creds.held.active
          /\ \A A, S : RevokeCredential(creds.held, A, S).active \subseteq creds.held.active
      BY DEF SuspendCredential, RevokeCredential
    <2> QED
      BY <1>3, <1>6, <2>1 DEF appAdminSuspendCredential, appRefreshMobileCredential, RevokeOne
  <1>7. CASE adminRevokeAllUserCredentials
    <2>1. PICK u : RevokeAllUserCredentials({u}, hist, 1) /\ pending' = pending /\ family' = family
      BY <1>7 DEF adminRevokeAllUserCredentials
    <2>2. Left(creds.held.active \ {u}) /\ hist'.off = hist.off /\ hist'.reg = hist.reg
      BY <1>2, <2>1, RevokeLeft, RevokeRecorded DEF Recorded, HistFields
    <2> QED
      BY <1>a, <2>1, <2>2
  <1> QED
    BY <1>5, <1>6, <1>7
    DEF MobileCredentials, appRevokeMobileCredential, adminRevokeMobileCredential, appAdminRevokeCredential

LEMMA SyncSignOff == ASSUME Base, SignOffInv, family = "sync", DirectorySync PROVE SignOffInv'
  <1>1. CASE scimReplaceUser
    <2>1. PICK u \in DOMAIN mem.users, e \in Emails, active \in BOOLEAN :
              LET st == Activity(Row(u).st, active)
                  off == ~active /\ st # Row(u).st
              IN  Begin(Merged(u, e, st, Row(u).groups, st # Row(u).st, off), IF off THEN {u} ELSE {})
      BY <1>1 DEF scimReplaceUser
    <2> DEFINE st == Activity(Row(u).st, active)
    <2>2. PICK off \in BOOLEAN : off = (~active /\ st # Row(u).st)
      OBVIOUS
    <2>3. PICK ask \in BOOLEAN : ask = (st # Row(u).st)
      OBVIOUS
    <2>4. Begin(Merged(u, e, st, Row(u).groups, ask, off), IF off THEN {u} ELSE {})
      BY <2>1, <2>2, <2>3
    <2> HIDE DEF st
    <2> QED
      BY <2>4, MergedSignOff
  <1>2. CASE scimPatchUser
    <2>1. PICK u \in DOMAIN mem.users, flags \in {<<TRUE>>, <<FALSE>>, <<FALSE, TRUE>>, <<FALSE, FALSE>>} :
              LET first == Activity(Row(u).st, flags[1])
                  st == IF Len(flags) = 1 THEN first ELSE Activity(first, flags[2])
                  off == ~flags[1] /\ Row(u).st = "active"
              IN  Begin(Merged(u, Row(u).email, st, Row(u).groups, st # Row(u).st, off /\ st = "suspended"),
                        IF off THEN {u} ELSE {})
      BY <1>2 DEF scimPatchUser
    <2> DEFINE first == Activity(Row(u).st, flags[1])
               st == IF Len(flags) = 1 THEN first ELSE Activity(first, flags[2])
    <2>2. PICK off \in BOOLEAN : off = (~flags[1] /\ Row(u).st = "active")
      OBVIOUS
    <2>3. PICK ask \in BOOLEAN : ask = (st # Row(u).st)
      OBVIOUS
    <2>4. PICK out \in BOOLEAN : out = (off /\ st = "suspended")
      OBVIOUS
    <2>5. Begin(Merged(u, Row(u).email, st, Row(u).groups, ask, out), IF off THEN {u} ELSE {})
      BY <2>1, <2>2, <2>3, <2>4
    <2> HIDE DEF first, st
    <2> QED
      BY <2>4, <2>5, MergedSignOff
  <1>3. CASE scimDeleteUser \/ handleLarkUserDeleted
    <2>1. PICK u, e, gs : Begin(Merged(u, e, "suspended", gs, TRUE, TRUE), {u})
      BY <1>3 DEF scimDeleteUser, handleLarkUserDeleted
    <2>2. PICK U, yes : U = {u} /\ yes = TRUE /\ Begin(Merged(u, e, "suspended", gs, yes, yes), U)
      BY <2>1
    <2> QED
      BY <2>2, MergedSignOff
  <1>4. CASE handleLarkUserUpdated
    BY <1>4, MergedSignOff DEF handleLarkUserUpdated
  <1>5. CASE WriteUser
    BY <1>5, WriteUserSignOff
  <1>6. CASE scimCreateUser \/ handleLarkUserCreated
    BY <1>6, BeginSignOff DEF scimCreateUser, handleLarkUserCreated
  <1>7. CASE googleWorkspaceSyncUsers
    <2>1. \A e, in : ComputeGWSyncActions(e, in).op # "write"
      BY DEF ComputeGWSyncActions, Idle
    <2> QED
      BY <1>7, <2>1, BeginSignOff DEF googleWorkspaceSyncUsers
  <1>8. CASE appAdminUpdateUserRole
    BY <1>8, MergedSignOff DEF appAdminUpdateUserRole
  <1>9. CASE CreateAfterLookup
    <2>1. hist'.off = hist.off /\ hist'.reg = hist.reg /\ hist'.lost = hist.lost
      BY <1>9, RowHistory, SaveSignOff DEF CreateAfterLookup
    <2>2. pending'.op # "write" \/ pending'.off = FALSE
      BY <1>9 DEF CreateAfterLookup, Idle
    <2> QED
      BY <1>9, <2>1, <2>2, SignOffFrame DEF CreateAfterLookup
  <1>10. CASE GoogleSignOff
    <2> DEFINE h == [hist EXCEPT !.reg = {}]
    <2>1. DOMAIN h = HistFields /\ h.lost = hist.lost /\ h.off = hist.off
      BY DEF Base, HistFields
    <2>2. RevokeAllUserCredentials({pending.id}, h, 0)
      BY <1>10 DEF GoogleSignOff
    <2> HIDE DEF h
    <2>3. Left(creds.held.active \ {pending.id}) /\ hist'.off = hist.off
      BY <2>1, <2>2, RevokeLeft, RevokeRecorded DEF Recorded, HistFields
    <2>4. pending'.op = "write" => pending'.id = pending.id
      BY <1>10 DEF GoogleSignOff, Idle
    <2> QED
      BY <2>3, <2>4 DEF SignOffInv, Careful, Left
  <1>11. CASE MobileCredentials
    BY <1>11, CredentialsSignOff
  <1>12. CASE deleteUser
    BY <1>12, RowHistory, RequestSignOff DEF deleteUser
  <1> QED
    BY <1>1, <1>2, <1>3, <1>4, <1>5, <1>6, <1>7, <1>8, <1>9, <1>10, <1>11, <1>12 DEF DirectorySync

LEMMA NextKeepsSignOffs == ASSUME Base, SignOffInv, [Next]_vars PROVE SignOffInv'
  <1>1. ASSUME NEW T, NEW H, Shape(T, H), H \cap {"off", "creds", "lost"} = {}, family \notin {"accounts", "sync"} PROVE SignOffInv'
    <2>1. creds' = creds /\ family' = family /\ hist'.off = hist.off /\ hist'.lost = hist.lost
      BY <1>1 DEF Shape, HistFields
    <2> QED
      BY <1>1, <2>1, SignOffFrame
  <1>2. CASE Next
    <2>1. RowFields \cap {"off", "creds", "lost"} = {}
      BY DEF RowFields
    <2>2. CASE Crash
      <3>1. pending' = Idle /\ creds'.held = creds.kept /\ creds'.kept = creds.kept /\ hist' = hist
        BY <2>2 DEF Crash
      <3> QED
        BY <3>1 DEF SignOffInv, Careful, Idle
    <2> QED
      BY <1>1, <1>2, <2>1, <2>2, NextShape, AccountsSignOff, SyncSignOff
  <1>3. CASE UNCHANGED vars
    BY <1>3 DEF vars, SignOffInv, Careful
  <1> QED
    BY <1>2, <1>3

(***************************************************************************)
(* OffboardedHasNoCredential is an invariant of every instance: between    *)
(* the revocation of a credential and the sign-off that SCIM, Lark or      *)
(* Google Workspace writes a step later only a registration or an          *)
(* activation brings one back, which is on record; what a restart can      *)
(* bring back later is what a lost save left in the state store.           *)
(***************************************************************************)
THEOREM SignedOffWithoutCredential == Spec => []OffboardedHasNoCredential
  <1>1. Init => SignOffInv
    BY DEF Init, SignOffInv, Careful, NoHistory, Idle, DemoCredentials
  <1>2. IdInv => Base
    BY DEF IdInv
  <1>3. SignOffInv => OffboardedHasNoCredential
    BY DEF SignOffInv, OffboardedHasNoCredential
  <1> QED
    BY <1>1, <1>2, <1>3, InitIds, NextKeepsIds, NextKeepsSignOffs, PTL DEF Spec

(* ----------------------------- suspensions ----------------------------- *)

HasStatus(d) == \A u \in DOMAIN d.users : "st" \in DOMAIN d.users[u]
Susp(d, S) == HasStatus(d) /\ \A u \in S \cap DOMAIN d.users : d.users[u].st = "suspended"

SuspInv ==
    /\ Susp(mem, hist.susp) /\ Susp(stored, hist.susp)
    /\ \A u \in hist.susp : u \in Nat /\ u < next

\* A record about to be written states its status or has the one that was read.
Told(p) == p.op = "write" => (p.ask \/ p.st = p.seen)
ToldInv == family \in {"accounts", "sync"} => Told(pending)

\* The tables d have no status that those in memory do not have, but of users just created.
Quiet(d) ==
    /\ HasStatus(d)
    /\ \A u \in DOMAIN d.users : u \in {next, next + 1} \/ (u \in DOMAIN mem.users /\ d.users[u].st = mem.users[u].st)

LEMMA QuietSusp == ASSUME Base, SuspInv, NEW d, Quiet(d) PROVE Susp(d, hist.susp)
  <1>1. next \notin hist.susp /\ next + 1 \notin hist.susp
    BY DEF Base, SuspInv
  <1> QED
    BY <1>1 DEF Quiet, Susp, SuspInv

LEMMA SaveSusp ==
    ASSUME IdInv, SuspInv, NEW T, NEW d, Grows(d, T), NEW undo \in BOOLEAN, NEW h, DOMAIN h = HistFields, Susp(d, h.susp),
           \A u \in h.susp : u \in hist.susp \/ u \in DOMAIN d.users, NEW cost, Save(d, undo, h, cost)
    PROVE  SuspInv'
  <1>0. DOMAIN d = Tables /\ "users" \in Tables \ Volatile
    BY DEF Grows, Tables, Volatile
  <1>1. /\ next' \in Nat /\ next' >= next /\ next \in Nat
        /\ \A i \in Ids(d) : i \in Nat /\ i < next'
    <2>1. next' = NextId(d)
      BY DEF Save
    <2>2. Base /\ next > Org /\ Below(mem) /\ next \in Nat
      BY DEF IdInv, Org, Base
    <2> QED
      BY <2>1, <2>2, NextIdAbove
  <1>2. \A u \in hist.susp : u \in Nat /\ u < next'
    BY <1>1 DEF SuspInv
  <1>3. \A u \in DOMAIN d.users : u \in Nat /\ u < next'
    BY <1>0, <1>1, IdsOf
  <1>4. PICK f \in 0..1 : IF f = 0 THEN Saved(d, h) ELSE NotSaved(d, undo, h)
    BY DEF Save
  <1>5. CASE Saved(d, h)
    <2>1. mem' = d /\ stored' = persistLocked(d) /\ hist'.susp = h.susp
      BY <1>5 DEF Saved, HistFields
    <2>2. persistLocked(d).users = d.users
      BY <1>0, PersistTables
    <2> QED
      BY <1>2, <1>3, <2>1, <2>2 DEF SuspInv, Susp, HasStatus
  <1>6. CASE NotSaved(d, undo, h)
    <2>1. CASE undo = TRUE
      <3>1. mem' = mem /\ stored' = stored /\ hist' = hist
        BY <1>6, <2>1 DEF NotSaved
      <3> QED
        BY <1>2, <3>1 DEF SuspInv
    <2>2. CASE undo = FALSE
      <3>1. mem' = d /\ stored' = stored /\ hist'.susp = h.susp \cap hist.susp
        BY <1>6, <2>2 DEF NotSaved, HistFields
      <3> QED
        BY <1>2, <3>1 DEF SuspInv, Susp, HasStatus
    <2> QED
      BY <2>1, <2>2
  <1> QED
    BY <1>4, <1>5, <1>6

LEMMA QuietSave ==
    ASSUME IdInv, SuspInv, NEW T, NEW d, Grows(d, T), Quiet(d), NEW undo \in BOOLEAN, NEW h, DOMAIN h = HistFields,
           h.susp = hist.susp, NEW cost, Save(d, undo, h, cost)
    PROVE  SuspInv'
    BY QuietSusp, SaveSusp DEF IdInv

LEMMA QuietRequest ==
    ASSUME IdInv, SuspInv, NEW T, NEW d, Grows(d, T), Quiet(d), NEW undo \in BOOLEAN, NEW h, DOMAIN h = HistFields,
           h.susp = hist.susp, Request(d, undo, h)
    PROVE  SuspInv'
    BY QuietSave DEF Request

LEMMA QuietFinish ==
    ASSUME IdInv, SuspInv, NEW T, NEW d, NEW guard, guard => Grows(d, T) /\ Quiet(d), NEW undo \in BOOLEAN, NEW h,
           DOMAIN h = HistFields, h.susp = hist.susp, Finish(guard, d, undo, h)
    PROVE  SuspInv'
  <1>1. CASE guard
    BY <1>1, QuietSave DEF Finish, GoOn
  <1>2. CASE ~guard
    BY <1>2 DEF Finish, SuspInv
  <1> QED
    BY <1>1, <1>2

LEMMA BeginSusp == ASSUME IdInv, SuspInv, NEW p, NEW U, Begin(p, U) PROVE SuspInv'
    BY BeginFrame DEF SuspInv, IdInv, HistFields

LEMMA Remembered ==
    ASSUME Base
    PROVE  /\ DOMAIN hist = HistFields
           /\ \A S : DOMAIN Names(hist, S) = HistFields /\ Names(hist, S).susp = hist.susp
    BY DEF Base, Names, HistFields

\* What leaves the table of users alone is quiet ...
LEMMA QuietTables ==
    ASSUME Base, HasStatus(mem)
    PROVE  /\ Quiet(mem)
           /\ \A t \in Tables \ {"users"} : \A id, row : Quiet(Put(mem, t, id, row))
           /\ \A t \in Tables \ {"users"} : \A S : Quiet(Drop(mem, t, S))
  <1>m. DOMAIN mem = Tables /\ "users" \in Tables
    BY DEF Base, Tables
  <1>1. ASSUME NEW d, d.users = mem.users PROVE Quiet(d)
    BY <1>1 DEF Quiet, HasStatus
  <1>2. ASSUME NEW t \in Tables \ {"users"}, NEW id, NEW row PROVE Quiet(Put(mem, t, id, row))
    BY <1>m, <1>1, PutTables
  <1>3. ASSUME NEW t \in Tables \ {"users"}, NEW S PROVE Quiet(Drop(mem, t, S))
    BY <1>m, <1>1, DropTables
  <1> QED
    BY <1>1, <1>2, <1>3

\* ... and so are the operations that create or remove users or take groups from them.
LEMMA QuietOperations ==
    ASSUME Base, HasStatus(mem)
    PROVE  /\ \A e, st, gs : Quiet(CreateUser(mem, next, e, st, gs))
           /\ \A U : Quiet(RemoveUsers(mem, U))
           /\ \A u : Quiet(DeleteUser(mem, u))
           /\ \A U : Quiet(BatchDeleteUsers(mem, U))
           /\ \A u : Quiet(CreateUserInvitationDelivery(mem, next, u))
           /\ \A i : Quiet(ResendInvitationDelivery(mem, next, i))
           /\ \A i, st : Quiet(RecordUserInvitationReceipt(mem, i, st))
           /\ \A i : Quiet(CancelInvitationDelivery(mem, i))
           /\ \A g : Quiet(DeleteUserGroup(mem, g))
           /\ \A k : Quiet(DeleteTeam(mem, k))
           /\ \A t, kind, who : Quiet(CreateTeamMembership(mem, next, t, kind, who))
           /\ \A r, kind, who, to : Quiet(UpdateRoleAssignment(mem, r, kind, who, to))
           /\ \A R, S : Quiet(ReviewAccessRights(mem, R, S))
           /\ \A id, ms : Quiet(CreateUserGroup(mem, id, ms)) /\ Quiet(UpdateUserGroup(mem, id, ms))
           /\ \A kind, who, to : Quiet(CreateRoleAssignment(mem, next, kind, who, to))
           /\ Quiet(TransferOrganization(mem))
  <1>m. DOMAIN mem = Tables
    BY DEF Base
  <1>t. /\ "users" \in Tables /\ \A t \in {"invites", "groups", "rights", "members", "shares"} : t \in Tables \ {"users"}
    BY DEF Tables
  <1>0. ASSUME NEW d, d.users = mem.users PROVE Quiet(d)
    BY <1>0 DEF Quiet, HasStatus
  <1>1. \A e, st, gs : Quiet(CreateUser(mem, next, e, st, gs))
    BY <1>m, <1>t, PutTables DEF CreateUser, Quiet, HasStatus
  <1>2. \A U : Quiet(RemoveUsers(mem, U))
    BY <1>m, RemoveUsersTables DEF Quiet, HasStatus
  <1>3. \A u : Quiet(CreateUserInvitationDelivery(mem, next, u))
    BY <1>t, QuietTables DEF CreateUserInvitationDelivery
  <1>4. \A i, st : Quiet([mem EXCEPT !.invites[i].st = st])
    BY <1>m, <1>t, <1>0
  <1>5. ASSUME NEW g PROVE Quiet(DeleteUserGroup(mem, g))
    <2> DEFINE d == DeleteUserGroup(mem, g)
    <2>1. DOMAIN d.users = DOMAIN mem.users /\ \A u \in DOMAIN mem.users : d.users[u] = Leave(mem.users[u], g)
      BY <1>m, DeleteGroupTables
    <2>2. \A row : DOMAIN Leave(row, g) = DOMAIN row /\ ("st" \in DOMAIN row => Leave(row, g).st = row.st)
      BY DEF Leave
    <2> HIDE DEF d
    <2>3. Quiet(d)
      BY <2>1, <2>2 DEF Quiet, HasStatus
    <2> QED
      BY <2>3 DEF d
  <1>6. ASSUME NEW k PROVE Quiet(DeleteTeam(mem, k))
    <2>1. "users" \in Tables \ {"teams", "members", "rights"}
      BY <1>t
    <2>2. DeleteTeam(mem, k).users = mem.users
      BY <1>m, <2>1, DeleteTeamTables
    <2> QED
      BY <1>0, <2>2
  <1>7. \A t, kind, who : Quiet(CreateTeamMembership(mem, next, t, kind, who))
    BY <1>t, QuietTables DEF CreateTeamMembership
  <1>8. ASSUME NEW r, NEW kind, NEW who, NEW to PROVE Quiet(UpdateRoleAssignment(mem, r, kind, who, to))
    BY <1>m, <1>t, <1>0 DEF UpdateRoleAssignment
  <1>9. ASSUME NEW R, NEW S PROVE Quiet(ReviewAccessRights(mem, R, S))
    BY <1>m, <1>t, <1>0 DEF ReviewAccessRights
  <1>10. \A id, ms : Quiet(CreateUserGroup(mem, id, ms)) /\ Quiet(UpdateUserGroup(mem, id, ms))
    BY <1>t, QuietTables DEF CreateUserGroup, UpdateUserGroup
  <1>11. \A kind, who, to : Quiet(CreateRoleAssignment(mem, next, kind, who, to))
    BY <1>t, QuietTables DEF CreateRoleAssignment
  <1>12. Quiet(TransferOrganization(mem))
    <2>1. TransferOrganization(mem).users = None
      BY <1>t DEF TransferOrganization, Moving
    <2> QED
      BY <2>1, NoRows DEF Quiet, HasStatus
  <1> QED
    BY <1>1, <1>2, <1>3, <1>4, <1>5, <1>6, <1>7, <1>8, <1>9, <1>10, <1>11, <1>12
    DEF DeleteUser, BatchDeleteUsers, ResendInvitationDelivery, RecordUserInvitationReceipt, CancelInvitationDelivery

\* The operations that state the status st of the users U.
LEMMA AskSusp ==
    ASSUME Base, SuspInv, NEW d, HasStatus(d), NEW U, U \subseteq DOMAIN d.users, NEW st, NEW h, DOMAIN h = HistFields,
           h.susp = hist.susp, \A u \in U : d.users[u].st = st,
           \A u \in DOMAIN d.users \ U : u \in DOMAIN mem.users /\ d.users[u].st = mem.users[u].st
    PROVE  /\ DOMAIN Asks(h, U, st) = HistFields
           /\ Susp(d, Asks(h, U, st).susp)
           /\ \A u \in Asks(h, U, st).susp : u \in hist.susp \/ u \in DOMAIN d.users
  <1>1. /\ DOMAIN Asks(h, U, st) = HistFields
        /\ Asks(h, U, st).susp = IF st = "suspended" THEN hist.susp \cup U ELSE hist.susp \ U
    BY DEF Asks, HistFields
  <1>2. Susp(d, IF st = "suspended" THEN hist.susp \cup U ELSE hist.susp \ U)
    <2>1. CASE st = "suspended"
      BY <2>1 DEF SuspInv, Susp
    <2>2. CASE st # "suspended"
      BY <2>2 DEF SuspInv, Susp
    <2> QED
      BY <2>1, <2>2
  <1> QED
    BY <1>1, <1>2

\* What CreateUser, UpdateUser and BatchUpdateUserStatus make of the statuses.
LEMMA CreatedStatus ==
    ASSUME Base, HasStatus(mem), NEW e, NEW st, NEW gs
    PROVE  LET d == CreateUser(mem, next, e, st, gs)
           IN  /\ HasStatus(d) /\ next \in DOMAIN d.users /\ d.users[next].st = st
               /\ \A u \in DOMAIN d.users \ {next} : u \in DOMAIN mem.users /\ d.users[u].st = mem.users[u].st
  <1>m. DOMAIN mem = Tables /\ "users" \in Tables
    BY DEF Base, Tables
  <1> DEFINE row == [st |-> st, email |-> e, ref |-> NoRef, groups |-> gs]
             d == CreateUser(mem, next, e, st, gs)
  <1>1. "st" \in DOMAIN row /\ row.st = st
    OBVIOUS
  <1>2. d = Put(mem, "users", next, row)
    BY DEF CreateUser
  <1> HIDE DEF row, d
  <1>3. /\ DOMAIN d.users = {next} \cup DOMAIN mem.users /\ d.users[next] = row
        /\ \A u \in DOMAIN mem.users \ {next} : d.users[u] = mem.users[u]
    BY <1>m, <1>2, PutTables
  <1>4. /\ HasStatus(d) /\ next \in DOMAIN d.users /\ d.users[next].st = st
        /\ \A u \in DOMAIN d.users \ {next} : u \in DOMAIN mem.users /\ d.users[u].st = mem.users[u].st
    BY <1>1, <1>3 DEF HasStatus
  <1> QED
    BY <1>4 DEF d

LEMMA UpdatedStatus ==
    ASSUME Base, HasStatus(mem), NEW v \in DOMAIN mem.users, NEW e, NEW st, NEW gs
    PROVE  LET d == UpdateUser(mem, v, e, st, gs)
           IN  /\ HasStatus(d) /\ DOMAIN d.users = DOMAIN mem.users /\ d.users[v].st = st
               /\ \A u \in DOMAIN d.users \ {v} : d.users[u].st = mem.users[u].st
  <1>m. DOMAIN mem = Tables /\ "users" \in Tables
    BY DEF Base, Tables
  <1> DEFINE row == [st |-> st, email |-> e, ref |-> mem.users[v].ref, groups |-> gs]
             d == UpdateUser(mem, v, e, st, gs)
  <1>1. "st" \in DOMAIN row /\ row.st = st
    OBVIOUS
  <1>2. d = [mem EXCEPT !.users[v] = row]
    BY DEF UpdateUser
  <1> HIDE DEF row, d
  <1>3. DOMAIN d.users = DOMAIN mem.users /\ d.users[v] = row /\ \A u \in DOMAIN mem.users \ {v} : d.users[u] = mem.users[u]
    BY <1>m, <1>2
  <1>4. /\ HasStatus(d) /\ DOMAIN d.users = DOMAIN mem.users /\ d.users[v].st = st
        /\ \A u \in DOMAIN d.users \ {v} : d.users[u].st = mem.users[u].st
    BY <1>1, <1>3 DEF HasStatus
  <1> QED
    BY <1>4 DEF d

LEMMA BatchStatus ==
    ASSUME Base, HasStatus(mem), NEW U \in SUBSET DOMAIN mem.users, NEW st
    PROVE  LET d == BatchUpdateUserStatus(mem, U, st)
           IN  /\ HasStatus(d) /\ DOMAIN d.users = DOMAIN mem.users /\ \A u \in U : d.users[u].st = st
               /\ \A u \in DOMAIN d.users \ U : d.users[u].st = mem.users[u].st
  <1>m. DOMAIN mem = Tables /\ "users" \in Tables
    BY DEF Base, Tables
  <1> DEFINE C == Changed(mem, U, st)
             f == [u \in DOMAIN mem.users |-> IF u \in C THEN [mem.users[u] EXCEPT !.st = st] ELSE mem.users[u]]
             d == BatchUpdateUserStatus(mem, U, st)
  <1>1. d = [mem EXCEPT !.users = f]
    BY DEF BatchUpdateUserStatus
  <1>2. C \subseteq U /\ \A u \in U \ C : mem.users[u].st = st
    BY DEF Changed
  <1> HIDE DEF C
  <1>3. /\ DOMAIN f = DOMAIN mem.users
        /\ \A u \in DOMAIN mem.users \ C : f[u] = mem.users[u]
        /\ \A u \in C : "st" \in DOMAIN f[u] /\ f[u].st = st
    BY <1>2 DEF HasStatus
  <1> HIDE DEF f, d
  <1>4. d.users = f
    BY <1>m, <1>1
  <1>5. /\ HasStatus(d) /\ DOMAIN d.users = DOMAIN mem.users /\ \A u \in U : d.users[u].st = st
        /\ \A u \in DOMAIN d.users \ U : d.users[u].st = mem.users[u].st
    BY <1>2, <1>3, <1>4 DEF HasStatus
  <1> QED
    BY <1>5 DEF d

\* A nonempty set of ids has a least and a greatest one, and Max and Min find them.
LEMMA LeastId ==
    ASSUME NEW S \in SUBSET Nat, S # {}
    PROVE  \E x \in S : \A y \in S : x <= y
  <1>1. PICK R : IsWellFoundedOn(R, Nat) /\ \A x, y \in Nat : x < y => <<x, y>> \in R
    <2>1. \A x, y \in Nat : x < y => <<x, y>> \in OpToRel(<, Nat)
      BY DEF OpToRel
    <2> QED
      BY <2>1, NatLessThanWellFounded
  <1>2. S \subseteq Nat
    OBVIOUS
  <1>3. PICK x \in S : \A y \in S : ~(<<y, x>> \in R)
    <2>1. IsWellFoundedOn(R, Nat) /\ S # {}
      BY <1>1
    <2> QED
      BY <1>2, <2>1, WFMin, Zenon
  <1>4. ASSUME NEW y \in S PROVE x <= y
    <2>1. ~(y < x)
      BY <1>1, <1>2, <1>3, Zenon
    <2> QED
      BY <1>2, <2>1
  <1> QED
    BY <1>4

LEMMA GreatestId ==
    ASSUME NEW n \in Nat, NEW S \in SUBSET Nat, S # {}, \A i \in S : i < n
    PROVE  X!Max(S) \in S
  <1> DEFINE D == {n - i : i \in S}
  <1>1. D \in SUBSET Nat /\ D # {}
    <2>1. PICK i \in S : TRUE
      OBVIOUS
    <2>2. n - i \in D
      OBVIOUS
    <2>3. \A j \in S : n - j \in Nat
      OBVIOUS
    <2> QED
      BY <2>2, <2>3
  <1>2. PICK x \in D : \A y \in D : x <= y
    <2> HIDE DEF D
    <2> QED
      BY <1>1, LeastId
  <1>3. PICK m \in S : x = n - m
    BY <1>2
  <1>4. ASSUME NEW i \in S PROVE m >= i
    <2>1. n - i \in D /\ i \in Nat /\ m \in Nat
      OBVIOUS
    <2>2. n - m <= n - i
      BY <1>2, <1>3, <2>1
    <2> HIDE DEF D
    <2> QED
      BY <2>1, <2>2
  <1> QED
    BY <1>4 DEF X!Max

\* The user that a lookup by address finds is a user.
LEMMA FoundUser ==
    ASSUME IdInv, NEW e, FindUserByEmail(mem, e) # {}
    PROVE  X!Max(FindUserByEmail(mem, e)) \in DOMAIN mem.users
  <1> DEFINE S == FindUserByEmail(mem, e)
  <1>1. S \subseteq DOMAIN mem.users
    BY DEF FindUserByEmail, Rows
  <1>2. next \in Nat /\ \A i \in DOMAIN mem.users : i \in Nat /\ i < next
    <2>1. "users" \in Tables
      BY DEF Tables
    <2> QED
      BY <2>1, IdsOf DEF IdInv, Base, Below
  <1> HIDE DEF S
  <1>3. S \in SUBSET Nat /\ \A i \in S : i < next
    BY <1>1, <1>2
  <1>4. S # {} => X!Max(S) \in S
    BY <1>2, <1>3, GreatestId
  <1> QED
    BY <1>1, <1>4 DEF S

\* A directory batch gives every row a status ...
Rowed(b) == (\A u \in DOMAIN b.users : "st" \in DOMAIN b.users[u]) /\ (\A u \in DOMAIN b.made : "st" \in DOMAIN b.made[u])

LEMMA UpsertItemStatus ==
    ASSUME NEW b, DOMAIN b = BatchFields, Rowed(b), NEW item, NEW id
    PROVE  Rowed(UpsertItem(b, item, id))
  <1> DEFINE t == TargetOf(b, item)
             known(m, i) == IF item.ref = NoRef THEN m ELSE [m EXCEPT ![item.ref] = i]
             row == [st |-> item.st, email |-> item.email, ref |-> item.ref, groups |-> {}]
             c1 == [b EXCEPT !.made = Over(One(id, row), @),
                             !.madeByEmail[item.email] = id, !.madeByRef = known(@, id)]
             c2 == [b EXCEPT !.made[t.id] = Overwrite(@, item), !.madeByRef = known(@, t.id),
                             !.madeByEmail = Readdress(@, t.id, b.made[t.id].email, item.email)]
             c3 == [b EXCEPT !.users[t.id] = Overwrite(@, item), !.byRef = known(@, t.id), !.hit = @ \cup {t.id},
                             !.byEmail = Readdress(@, t.id, b.users[t.id].email, item.email)]
  <1>1. UpsertItem(b, item, id) \in {b, c1, c2, c3}
    BY DEF UpsertItem
  <1>2. "st" \in DOMAIN row
    OBVIOUS
  <1>3. \A r : DOMAIN Overwrite(r, item) = DOMAIN r
    BY DEF Overwrite
  <1> HIDE DEF known, row, t
  <1>4. Rowed(c1)
    <2>1. c1.users = b.users /\ c1.made = Over(One(id, row), b.made)
      BY DEF BatchFields
    <2> HIDE DEF c1
    <2> QED
      BY <1>2, <2>1 DEF Rowed, Over, One
  <1>5. Rowed(c2)
    <2>1. c2.users = b.users /\ c2.made = [b.made EXCEPT ![t.id] = Overwrite(b.made[t.id], item)]
      BY DEF BatchFields
    <2> HIDE DEF c2
    <2> QED
      BY <1>3, <2>1 DEF Rowed
  <1>6. Rowed(c3)
    <2>1. c3.made = b.made /\ c3.users = [b.users EXCEPT ![t.id] = Overwrite(b.users[t.id], item)]
      BY DEF BatchFields
    <2> HIDE DEF c3
    <2> QED
      BY <1>3, <2>1 DEF Rowed
  <1> HIDE DEF c1, c2, c3
  <1> QED
    BY <1>1, <1>4, <1>5, <1>6

LEMMA UpsertStatus ==
    ASSUME NEW d, HasStatus(d), NEW items
    PROVE  Rowed(UpsertUsersByEmail(d, next, items))
  <1> DEFINE b0 == LookupBefore(d)
             id1 == next + Len(items) - 1
             b1 == UpsertItem(b0, items[1], id1)
             b2 == UpsertItem(b1, items[MaxBatch], next)
  <1>1. UpsertUsersByEmail(d, next, items) \in {b1, b2}
    BY DEF UpsertUsersByEmail
  <1>2. DOMAIN b0 = BatchFields /\ Rowed(b0)
    BY NoRows DEF LookupBefore, BatchFields, Rowed, HasStatus
  <1> HIDE DEF b0, id1
  <1>3. DOMAIN b1 = BatchFields /\ Rowed(b1)
    BY <1>2, UpsertItemRows, UpsertItemStatus
  <1> HIDE DEF b1
  <1>4. Rowed(b2)
    BY <1>3, UpsertItemStatus
  <1> HIDE DEF b2
  <1> QED
    BY <1>1, <1>3, <1>4

\* ... and remembers as suspended, of the rows it writes, those it states so.
LEMMA UpsertSusp == ASSUME IdInv, SuspInv, upsertEmployees PROVE SuspInv'
  <1>1. PICK n \in 1..MaxBatch : \E items \in [1..n -> Items] :
            LET b == UpsertUsersByEmail(mem, next, items)
                U == b.hit \cup DOMAIN b.made
                all == Over(b.made, b.users)
            IN  Request([mem EXCEPT !.users = all], TRUE,
                        [hist EXCEPT !.susp = (@ \ U) \cup {u \in DOMAIN all : u \in U /\ all[u].st = "suspended"}])
    BY DEF upsertEmployees
  <1>2. PICK items \in [1..n -> Items] :
            LET b == UpsertUsersByEmail(mem, next, items)
                U == b.hit \cup DOMAIN b.made
                all == Over(b.made, b.users)
            IN  Request([mem EXCEPT !.users = all], TRUE,
                        [hist EXCEPT !.susp = (@ \ U) \cup {u \in DOMAIN all : u \in U /\ all[u].st = "suspended"}])
    BY <1>1
  <1> DEFINE b == UpsertUsersByEmail(mem, next, items)
             all == Over(b.made, b.users)
             U == b.hit \cup DOMAIN b.made
             S == (hist.susp \ U) \cup {u \in DOMAIN all : u \in U /\ all[u].st = "suspended"}
             d == [mem EXCEPT !.users = all]
             h == [hist EXCEPT !.susp = S]
  <1>3. Request(d, TRUE, h)
    BY <1>2
  <1>4. Len(items) \in 1..MaxBatch
    <2>1. n \in Nat /\ Len(items) = n
      BY DEF MaxBatch
    <2> QED
      BY <2>1
  <1>b. Base /\ HasStatus(mem)
    BY DEF IdInv, SuspInv, Susp
  <1>5. /\ DOMAIN b.users = DOMAIN mem.users /\ DOMAIN b.made \subseteq {next, next + 1}
        /\ \A u \in DOMAIN mem.users \ b.hit : b.users[u] = mem.users[u]
        /\ Rowed(b)
    BY <1>4, <1>b, UpsertRows, UpsertStatus DEF Base
  <1> HIDE DEF b
  <1>6. /\ DOMAIN all = DOMAIN b.made \cup DOMAIN mem.users
        /\ \A u \in DOMAIN all : "st" \in DOMAIN all[u]
        /\ \A u \in DOMAIN all \ U : all[u] = mem.users[u] /\ u \in DOMAIN mem.users
    BY <1>5 DEF Over, Rowed
  <1> HIDE DEF all, U
  <1>7. S \subseteq hist.susp \cup DOMAIN all /\ \A u \in S \cap DOMAIN all : all[u].st = "suspended"
    BY <1>6 DEF SuspInv, Susp
  <1> HIDE DEF S
  <1>8. d.users = all
    BY <1>b DEF Base, Tables
  <1>9. DOMAIN h = HistFields /\ h.susp = S
    BY <1>b DEF Base, HistFields
  <1>10. Grows(d, PeopleTables)
    BY <1>b, <1>5, <1>6, GrowsTable, PeopleNames
  <1> HIDE DEF d, h
  <1>11. Susp(d, h.susp) /\ \A u \in h.susp : u \in hist.susp \/ u \in DOMAIN d.users
    BY <1>6, <1>7, <1>8, <1>9 DEF Susp, HasStatus
  <1>12. PICK undo \in BOOLEAN : undo = TRUE
    OBVIOUS
  <1>13. Save(d, undo, h, 1)
    BY <1>3, <1>12 DEF Request
  <1> QED
    BY <1>9, <1>10, <1>11, <1>13, SaveSusp

\* A save that states the status of the users U.
LEMMA AskSave ==
    ASSUME IdInv, SuspInv, NEW T, NEW d, Grows(d, T), HasStatus(d), NEW U, U \subseteq DOMAIN d.users, NEW st, NEW h,
           DOMAIN h = HistFields, h.susp = hist.susp, \A u \in U : d.users[u].st = st,
           \A u \in DOMAIN d.users \ U : u \in DOMAIN mem.users /\ d.users[u].st = mem.users[u].st,
           NEW undo \in BOOLEAN, NEW cost, Save(d, undo, Asks(h, U, st), cost)
    PROVE  SuspInv'
  <1>1. Base
    BY DEF IdInv
  <1> DEFINE k == Asks(h, U, st)
  <1>2. DOMAIN k = HistFields /\ Susp(d, k.susp) /\ \A u \in k.susp : u \in hist.susp \/ u \in DOMAIN d.users
    BY <1>1, AskSusp
  <1>3. Save(d, undo, k, cost)
    OBVIOUS
  <1> HIDE DEF k
  <1> QED
    BY <1>2, <1>3, SaveSusp

LEMMA CreateSusp ==
    ASSUME IdInv, SuspInv, NEW e, NEW st, NEW gs, NEW h, DOMAIN h = HistFields, h.susp = hist.susp, NEW cost,
           Save(CreateUser(mem, next, e, st, gs), FALSE, Asks(h, {next}, st), cost)
    PROVE  SuspInv'
  <1> DEFINE d == CreateUser(mem, next, e, st, gs)
  <1>b. Base /\ HasStatus(mem)
    BY DEF IdInv, SuspInv, Susp
  <1>1. /\ HasStatus(d) /\ next \in DOMAIN d.users /\ d.users[next].st = st
        /\ \A u \in DOMAIN d.users \ {next} : u \in DOMAIN mem.users /\ d.users[u].st = mem.users[u].st
    BY <1>b, CreatedStatus
  <1>2. Grows(d, PeopleTables)
    BY <1>b, UsersGrow
  <1>3. PICK U : U = {next}
    OBVIOUS
  <1>4. PICK undo \in BOOLEAN : Save(d, undo, Asks(h, U, st), cost)
    BY <1>3
  <1> HIDE DEF d
  <1>5. /\ U \subseteq DOMAIN d.users /\ \A u \in U : d.users[u].st = st
        /\ \A u \in DOMAIN d.users \ U : u \in DOMAIN mem.users /\ d.users[u].st = mem.users[u].st
    BY <1>1, <1>3
  <1> QED
    BY <1>1, <1>2, <1>4, <1>5, AskSave

LEMMA UpdateSusp ==
    ASSUME IdInv, SuspInv, NEW v \in DOMAIN mem.users, NEW e, NEW st, NEW gs, NEW h, DOMAIN h = HistFields,
           h.susp = hist.susp, NEW cost, Save(UpdateUser(mem, v, e, st, gs), FALSE, Asks(h, {v}, st), cost)
    PROVE  SuspInv'
  <1> DEFINE d == UpdateUser(mem, v, e, st, gs)
  <1>b. Base /\ HasStatus(mem)
    BY DEF IdInv, SuspInv, Susp
  <1>1. /\ HasStatus(d) /\ DOMAIN d.users = DOMAIN mem.users /\ d.users[v].st = st
        /\ \A u \in DOMAIN d.users \ {v} : d.users[u].st = mem.users[u].st
    BY <1>b, UpdatedStatus
  <1>2. Grows(d, PeopleTables)
    BY <1>b, UsersGrow
  <1>3. PICK U : U = {v}
    OBVIOUS
  <1>4. PICK undo \in BOOLEAN : Save(d, undo, Asks(h, U, st), cost)
    BY <1>3
  <1> HIDE DEF d
  <1>5. /\ U \subseteq DOMAIN d.users /\ \A u \in U : d.users[u].st = st
        /\ \A u \in DOMAIN d.users \ U : u \in DOMAIN mem.users /\ d.users[u].st = mem.users[u].st
    BY <1>1, <1>3
  <1> QED
    BY <1>1, <1>2, <1>4, <1>5, AskSave

\* The requests that state a status in one locked step.
LEMMA AskingRequests ==
    ASSUME IdInv, SuspInv, createUser \/ importUsersCSV \/ batchUpdateUserStatus
    PROVE  SuspInv'
  <1>b. Base /\ HasStatus(mem)
    BY DEF IdInv, SuspInv, Susp
  <1>h. DOMAIN hist = HistFields /\ \A S : DOMAIN Names(hist, S) = HistFields /\ Names(hist, S).susp = hist.susp
    BY <1>b, Remembered
  <1>1. CASE createUser
    <2>1. PICK e \in Emails, st \in {"active", "suspended"}, gs \in Groupings :
              Save(CreateUser(mem, next, e, st, gs), FALSE, Asks(Names(hist, gs), {next}, st), 1)
      BY <1>1 DEF createUser, Request
    <2>2. PICK h : h = Names(hist, gs)
      OBVIOUS
    <2>3. DOMAIN h = HistFields /\ h.susp = hist.susp
      BY <1>h, <2>2
    <2> QED
      BY <2>1, <2>2, <2>3, CreateSusp
  <1>2. CASE importUsersCSV
    <2>1. PICK e \in Emails, st \in {"active", "suspended"} :
              LET found == FindUserByEmail(mem, e)
                  u == IF found = {} THEN next ELSE X!Max(found)
              IN  Save(UpsertUserByEmail(mem, next, e, st), FALSE, Asks(hist, {u}, st), 1)
      BY <1>2 DEF importUsersCSV, Request
    <2>2. CASE FindUserByEmail(mem, e) = {}
      <3>1. Save(CreateUser(mem, next, e, st, {}), FALSE, Asks(hist, {next}, st), 1)
        BY <2>1, <2>2 DEF UpsertUserByEmail
      <3> QED
        BY <1>h, <3>1, CreateSusp
    <2>3. CASE FindUserByEmail(mem, e) # {}
      <3>1. PICK v \in DOMAIN mem.users : v = X!Max(FindUserByEmail(mem, e))
        BY <2>3, FoundUser
      <3>2. Save(UpdateUser(mem, v, e, st, {}), FALSE, Asks(hist, {v}, st), 1)
        BY <2>1, <2>3, <3>1 DEF UpsertUserByEmail
      <3> QED
        BY <1>h, <3>2, UpdateSusp
    <2> QED
      BY <2>2, <2>3
  <1>3. CASE batchUpdateUserStatus
    <2>1. PICK U \in SUBSET DOMAIN mem.users, st \in Statuses :
              Save(BatchUpdateUserStatus(mem, U, st), FALSE, Asks(hist, U, st), 1)
      BY <1>3 DEF batchUpdateUserStatus, Request
    <2> DEFINE d == BatchUpdateUserStatus(mem, U, st)
    <2>2. /\ HasStatus(d) /\ DOMAIN d.users = DOMAIN mem.users /\ \A u \in U : d.users[u].st = st
          /\ \A u \in DOMAIN d.users \ U : d.users[u].st = mem.users[u].st
      BY <1>b, BatchStatus
    <2>3. Grows(d, PeopleTables)
      BY <1>b, UsersGrow
    <2>4. PICK undo \in BOOLEAN : undo = FALSE /\ Save(d, undo, Asks(hist, U, st), 1)
      BY <2>1
    <2> HIDE DEF d
    <2> QED
      BY <1>h, <2>2, <2>3, <2>4, AskSave
  <1> QED
    BY <1>1, <1>2, <1>3

\* The write of a merged record: the status was stated, or it is the one that was read and, if
\* another was written meanwhile, that one is given up.
LEMMA WriteUserSusp == ASSUME IdInv, SuspInv, Told(pending), WriteUser PROVE SuspInv'
  <1> DEFINE u == pending.id
             d == UpdateUser(mem, u, pending.email, pending.st, pending.groups)
             g == IF pending.ask THEN Asks(hist, {u}, pending.st)
                  ELSE IF u \in DOMAIN mem.users /\ Row(u).st # pending.seen THEN Asks(hist, {u}, pending.seen)
                  ELSE hist
             h == Names(g, pending.groups)
             off == IF pending.off THEN h.off \cup ({u} \ hist.reg) ELSE h.off
             k == [h EXCEPT !.off = off]
  <1>b. Base /\ HasStatus(mem) /\ DOMAIN hist = HistFields
    BY DEF IdInv, SuspInv, Susp, Base
  <1>1. Finish(u \in DOMAIN mem.users, d, FALSE, k)
    BY DEF WriteUser
  <1>2. CASE u \notin DOMAIN mem.users
    BY <1>1, <1>2 DEF Finish, SuspInv
  <1>3. CASE u \in DOMAIN mem.users
    <2>1. GoOn(d, FALSE, k, Idle)
      BY <1>1, <1>3 DEF Finish
    <2>2. pending.ask \/ pending.st = pending.seen
      BY DEF WriteUser, Told
    <2>3. g = Asks(hist, {u}, pending.st) \/ (g = hist /\ mem.users[u].st = pending.st)
      BY <1>3, <2>2 DEF Row
    <2>4. /\ HasStatus(d) /\ DOMAIN d.users = DOMAIN mem.users /\ d.users[u].st = pending.st
          /\ \A v \in DOMAIN d.users \ {u} : d.users[v].st = mem.users[v].st
      BY <1>b, <1>3, UpdatedStatus
    <2>5. Grows(d, PeopleTables)
      BY <1>b, UsersGrow
    <2> HIDE DEF d, g
    <2>6. DOMAIN g = HistFields /\ Susp(d, g.susp) /\ \A v \in g.susp : v \in hist.susp \/ v \in DOMAIN d.users
      <3>1. CASE g = Asks(hist, {u}, pending.st)
        <4>1. PICK U : U = {u}
          OBVIOUS
        <4>2. /\ U \subseteq DOMAIN d.users /\ \A v \in U : d.users[v].st = pending.st
              /\ \A v \in DOMAIN d.users \ U : v \in DOMAIN mem.users /\ d.users[v].st = mem.users[v].st
          BY <1>3, <2>4, <4>1
        <4> QED
          BY <1>b, <2>4, <3>1, <4>1, <4>2, AskSusp
      <3>2. CASE g = hist /\ mem.users[u].st = pending.st
        <4>1. Quiet(d)
          BY <2>4, <3>2 DEF Quiet
        <4> QED
          BY <1>b, <3>2, <4>1, QuietSusp
      <3> QED
        BY <2>3, <3>1, <3>2
    <2>7. DOMAIN k = HistFields /\ k.susp = g.susp
      BY <2>6 DEF Names, HistFields
    <2> HIDE DEF k
    <2>8. PICK undo \in BOOLEAN : undo = FALSE
      OBVIOUS
    <2>9. Save(d, undo, k, 0)
      BY <2>1, <2>8 DEF GoOn
    <2> QED
      BY <2>5, <2>6, <2>7, <2>9, SaveSusp
  <1> QED
    BY <1>2, <1>3

\* The requests that leave every status as it is.
LEMMA QuietUsers ==
    ASSUME IdInv, SuspInv,
           \/ appAdminAddUser \/ deleteUser \/ appAdminRemoveUser \/ deleteReferenceMember \/ deleteCurrentUser
           \/ batchDeleteUsers
    PROVE  SuspInv'
  <1>b. Base /\ HasStatus(mem) /\ DOMAIN hist = HistFields
    BY DEF IdInv, SuspInv, Susp, Base
  <1>1. PICK d : Grows(d, PeopleTables) /\ Quiet(d) /\ \E undo \in BOOLEAN : Request(d, undo, hist)
    <2>1. CASE appAdminAddUser
      BY <1>b, <2>1, UsersGrow, QuietOperations DEF appAdminAddUser
    <2>2. CASE deleteUser \/ appAdminRemoveUser \/ deleteReferenceMember \/ deleteCurrentUser
      BY <1>b, <2>2, UsersGrow, QuietOperations DEF deleteUser, appAdminRemoveUser, deleteReferenceMember, deleteCurrentUser
    <2>3. CASE batchDeleteUsers
      BY <1>b, <2>3, UsersGrow, QuietOperations DEF batchDeleteUsers
    <2> QED
      BY <2>1, <2>2, <2>3
  <1> QED
    BY <1>b, <1>1, QuietRequest

LEMMA AccountsSusp == ASSUME IdInv, SuspInv, Told(pending), Accounts PROVE SuspInv'
  <1>1. CASE updateUser \/ updateReferenceMember \/ appAdminUpdateUserRole
    BY <1>1, BeginSusp DEF updateUser, updateReferenceMember, appAdminUpdateUserRole
  <1> QED
    BY <1>1, QuietUsers, AskingRequests, WriteUserSusp DEF Accounts

LEMMA BatchesSusp == ASSUME IdInv, SuspInv, Batches PROVE SuspInv'
    BY UpsertSusp, QuietUsers, AskingRequests DEF Batches

LEMMA SyncSusp == ASSUME IdInv, SuspInv, Told(pending), DirectorySync PROVE SuspInv'
  <1>1. CASE scimReplaceUser \/ scimPatchUser \/ scimDeleteUser
    BY <1>1, BeginSusp DEF scimReplaceUser, scimPatchUser, scimDeleteUser
  <1>2. CASE handleLarkUserDeleted \/ handleLarkUserUpdated \/ appAdminUpdateUserRole
    BY <1>2, BeginSusp DEF handleLarkUserDeleted, handleLarkUserUpdated, appAdminUpdateUserRole
  <1>3. CASE scimCreateUser \/ handleLarkUserCreated \/ googleWorkspaceSyncUsers
    BY <1>3, BeginSusp DEF scimCreateUser, handleLarkUserCreated, googleWorkspaceSyncUsers
  <1>4. CASE CreateAfterLookup
    BY <1>4, CreateSusp DEF CreateAfterLookup, IdInv, Base
  <1>5. CASE GoogleSignOff \/ MobileCredentials
    <2>1. mem' = mem /\ stored' = stored /\ next' = next /\ hist'.susp = hist.susp
      BY <1>5, CredentialSteps DEF CredentialStep, Signs, IdInv, HistFields
    <2> QED
      BY <2>1 DEF SuspInv
  <1> QED
    BY <1>1, <1>2, <1>3, <1>4, <1>5, WriteUserSusp, QuietUsers DEF DirectorySync

LEMMA InvitationsSusp == ASSUME IdInv, SuspInv, Invitations PROVE SuspInv'
  <1>b. Base /\ HasStatus(mem) /\ DOMAIN hist = HistFields
    BY DEF IdInv, SuspInv, Susp, Base
  <1>1. ASSUME NEW d, Grows(d, PeopleTables), Quiet(d), NEW cost, Save(d, FALSE, hist, cost) PROVE SuspInv'
    BY <1>b, <1>1, QuietSave
  <1>2. CASE inviteUser
    BY <1>b, <1>1, <1>2, UsersGrow, QuietOperations DEF inviteUser
  <1>3. CASE resendInvitation
    BY <1>b, <1>1, <1>3, UsersGrow, QuietOperations DEF resendInvitation
  <1>4. CASE dispatchUserInvitationEmail
    BY <1>b, <1>4, UsersGrow, QuietOperations, QuietFinish DEF dispatchUserInvitationEmail
  <1>5. CASE recordUserInvitationReceipt \/ receiveUserInvitationProviderReceipt
    BY <1>b, <1>1, <1>5, UsersGrow, QuietOperations DEF recordUserInvitationReceipt, receiveUserInvitationProviderReceipt, Request
  <1>6. CASE cancelInvitation
    BY <1>b, <1>1, <1>6, UsersGrow, QuietOperations DEF cancelInvitation, Request
  <1>7. CASE batchInviteUsers
    BY <1>7, BeginSusp DEF batchInviteUsers
  <1>8. CASE BatchInviteUsers
    <2>1. PICK u, rest : IF u \in DOMAIN mem.users
                         THEN GoOn(CreateUserInvitationDelivery(mem, next, u), FALSE, hist, rest)
                         ELSE pending' = rest /\ UNCHANGED <<family, mem, stored, creds, next, hist, budget>>
      BY <1>8 DEF BatchInviteUsers
    <2>2. CASE u \in DOMAIN mem.users
      BY <1>b, <1>1, <2>1, <2>2, UsersGrow, QuietOperations DEF GoOn
    <2>3. CASE u \notin DOMAIN mem.users
      BY <2>1, <2>3 DEF SuspInv
    <2> QED
      BY <2>2, <2>3
  <1> QED
    BY <1>2, <1>3, <1>4, <1>5, <1>6, <1>7, <1>8, QuietUsers DEF Invitations

LEMMA GroupsSusp == ASSUME IdInv, SuspInv, Groups \/ createUser \/ deleteUser PROVE SuspInv'
  <1>b. Base /\ HasStatus(mem)
    BY DEF IdInv, SuspInv, Susp
  <1>h. DOMAIN hist = HistFields /\ \A S : DOMAIN Names(hist, S) = HistFields /\ Names(hist, S).susp = hist.susp
    BY <1>b, Remembered
  <1> USE PeopleNames
  <1>t. "groups" \in Tables \ {"users"} /\ "links" \in Tables \ {"users"}
    BY DEF Tables
  <1>1. CASE createUserGroup \/ updateUserGroup \/ appAdminCreateGroup
    BY <1>b, <1>h, <1>1, DirectoryGrows, QuietOperations, QuietRequest
    DEF createUserGroup, updateUserGroup, appAdminCreateGroup
  <1>2. CASE deleteReferenceGroupZone \/ deleteReferenceGroup \/ appAdminDeleteGroup
    BY <1>b, <1>h, <1>2, DirectoryGrows, QuietOperations, QuietRequest
    DEF deleteReferenceGroupZone, deleteReferenceGroup, appAdminDeleteGroup
  <1>3. CASE createReferenceGroup
    BY <1>b, <1>h, <1>3, DirectoryGrows, QuietOperations, QuietSave DEF createReferenceGroup
  <1>4. CASE RestrictGroup
    BY <1>b, <1>h, <1>4, GrowsNot, QuietTables, QuietFinish DEF RestrictGroup, UpdateUserGroupRestrictions
  <1>5. CASE updateReferenceGroup \/ appAdminUpdateGroup \/ appAdminAddGroupMember \/ appAdminRemoveGroupMember
    BY <1>5, BeginSusp DEF updateReferenceGroup, appAdminUpdateGroup, appAdminAddGroupMember, appAdminRemoveGroupMember
  <1>6. CASE WriteGroup
    BY <1>b, <1>h, <1>6, DirectoryGrows, QuietOperations, QuietFinish DEF WriteGroup
  <1>7. CASE createReferenceGroupLink
    BY <1>b, <1>h, <1>t, <1>7, GrowsPut, NextFresh, QuietTables, QuietRequest DEF createReferenceGroupLink, CreateGroupLink
  <1>8. CASE updateReferenceGroupLink
    BY <1>b, <1>h, <1>t, <1>8, GrowsPut, QuietTables, QuietRequest DEF updateReferenceGroupLink, UpdateGroupLink, Reachable
  <1>9. CASE deleteReferenceGroupLink
    BY <1>b, <1>h, <1>t, <1>9, GrowsDrop, QuietTables, QuietRequest DEF deleteReferenceGroupLink, DeleteGroupLink
  <1>10. CASE verifyReferenceGroupLinkToken
    BY <1>b, <1>h, <1>10, GrowsNot, QuietTables, QuietRequest DEF verifyReferenceGroupLinkToken, VerifyGroupLinkToken
  <1> QED
    BY <1>1, <1>2, <1>3, <1>4, <1>5, <1>6, <1>7, <1>8, <1>9, <1>10, QuietUsers, AskingRequests DEF Groups

LEMMA RightsSusp == ASSUME IdInv, SuspInv, Rights \/ deleteUser \/ batchDeleteUsers \/ createGuest \/ deleteGuest PROVE SuspInv'
  <1>b. Base /\ HasStatus(mem)
    BY DEF IdInv, SuspInv, Susp
  <1>h. DOMAIN hist = HistFields /\ \A S : DOMAIN Names(hist, S) = HistFields /\ Names(hist, S).susp = hist.susp
    BY <1>b, Remembered
  <1> USE PeopleNames
  <1>t. \A t \in {"teams", "members", "rights", "shares", "guests"} : t \in Tables \ {"users"}
    BY DEF Tables
  <1>1. CASE createReferenceTeam
    BY <1>b, <1>h, <1>t, <1>1, GrowsPut, NextFresh, QuietTables, QuietRequest DEF createReferenceTeam, CreateTeam
  <1>2. CASE updateReferenceTeam
    BY <1>b, <1>h, <1>t, <1>2, GrowsPut, QuietTables, QuietRequest DEF updateReferenceTeam, UpdateTeam
  <1>3. CASE deleteReferenceTeam \/ deleteReferenceGroup
    BY <1>b, <1>h, <1>3, DirectoryGrows, QuietOperations, QuietRequest DEF deleteReferenceTeam, deleteReferenceGroup
  <1>4. CASE createReferenceTeamMembership
    BY <1>b, <1>h, <1>4, DirectoryGrows, QuietOperations, QuietRequest DEF createReferenceTeamMembership
  <1>5. CASE deleteReferenceTeamMembership \/ appAdminRemoveTeamMember
    BY <1>b, <1>h, <1>t, <1>5, GrowsDrop, QuietTables, QuietRequest
    DEF deleteReferenceTeamMembership, appAdminRemoveTeamMember, DeleteTeamMembership
  <1>6. CASE appAdminAddTeamMember \/ appAdminAssignTeamAccessRight \/ updateReferenceAccessRightsSchedule
    BY <1>6, BeginSusp DEF appAdminAddTeamMember, appAdminAssignTeamAccessRight, updateReferenceAccessRightsSchedule
  <1>7. CASE WriteMember
    BY <1>b, <1>h, <1>7, DirectoryGrows, QuietOperations, QuietFinish DEF WriteMember
  <1>8. CASE createReferenceRoleAssignment \/ updateReferenceRoleAssignment
    <2>1. PICK d, S : Grows(d, PeopleTables) /\ Quiet(d) /\ Request(d, FALSE, Names(hist, S))
      <3>1. CASE createReferenceRoleAssignment
        BY <1>b, <3>1, DirectoryGrows, QuietOperations DEF createReferenceRoleAssignment
      <3>2. CASE updateReferenceRoleAssignment
        BY <1>b, <3>2, DirectoryGrows, QuietOperations DEF updateReferenceRoleAssignment
      <3> QED
        BY <1>8, <3>1, <3>2
    <2> QED
      BY <1>h, <2>1, QuietRequest
  <1>9. CASE deleteReferenceRoleAssignment \/ appAdminRemoveTeamAccessRight
    BY <1>b, <1>h, <1>t, <1>9, GrowsDrop, QuietTables, QuietRequest
    DEF deleteReferenceRoleAssignment, appAdminRemoveTeamAccessRight, DeleteRoleAssignment
  <1>10. CASE WriteTeamRight
    BY <1>b, <1>h, <1>10, DirectoryGrows, QuietOperations, QuietFinish DEF WriteTeamRight
  <1>11. CASE reviewReferenceAccessRights
    BY <1>b, <1>h, <1>11, DirectoryGrows, QuietOperations, QuietRequest DEF reviewReferenceAccessRights
  <1>12. CASE WriteRight
    BY <1>b, <1>h, <1>12, DirectoryGrows, QuietOperations, QuietFinish DEF WriteRight
  <1>13. CASE WriteShare
    BY <1>b, <1>h, <1>t, <1>13, GrowsPut, QuietTables, QuietFinish DEF WriteShare, UpdateTemporaryAccess
  <1>14. CASE createGuest
    BY <1>b, <1>h, <1>t, <1>14, GrowsPut, NextFresh, QuietTables, QuietRequest DEF createGuest, CreateGuest
  <1>15. CASE deleteGuest
    BY <1>b, <1>h, <1>t, <1>15, GrowsDrop, QuietTables, QuietRequest DEF deleteGuest, DeleteGuest
  <1> QED
    BY <1>1, <1>2, <1>3, <1>4, <1>5, <1>6, <1>7, <1>8, <1>9, <1>10, <1>11, <1>12, <1>13, <1>14, <1>15, QuietUsers DEF Rights

\* A step that leaves the users alone, and what is remembered of them.
LEMMA ElsewhereSusp ==
    ASSUME IdInv, SuspInv, NEW T \in SUBSET Tables, NEW H, Shape(T, H), "users" \notin T, "susp" \notin H
    PROVE  SuspInv'
  <1>t. "users" \in Tables \ Volatile
    BY DEF Tables, Volatile
  <1>1. hist'.susp = hist.susp
    BY DEF Shape, HistFields
  <1>2. CASE UNCHANGED <<mem, stored, next>>
    BY <1>1, <1>2 DEF SuspInv
  <1>3. CASE \E d : Grows(d, T) /\ Effect(d)
    <2>1. PICK d : Grows(d, T) /\ Effect(d)
      BY <1>3
    <2>2. d.users = mem.users /\ DOMAIN d = Tables
      BY <1>t, <2>1 DEF Grows
    <2>3. Base /\ next > Org /\ Below(mem) /\ next \in Nat
      BY DEF IdInv, Org, Base
    <2>4. next' \in Nat /\ next' >= next
      BY <2>1, <2>3, NextIdAbove DEF Effect
    <2>5. persistLocked(d).users = d.users
      BY <1>t, <2>2, PersistTables
    <2>6. mem'.users = mem.users /\ stored'.users \in {stored.users, mem.users}
      BY <2>1, <2>2, <2>5 DEF Effect
    <2> QED
      BY <1>1, <2>3, <2>4, <2>6 DEF SuspInv, Susp, HasStatus
  <1> QED
    BY <1>2, <1>3 DEF Shape

LEMMA PremisesSusp == ASSUME IdInv, SuspInv, Premises PROVE SuspInv'
  <1>b. Base /\ HasStatus(mem) /\ DOMAIN hist = HistFields
    BY DEF IdInv, SuspInv, Susp, Base
  <1>1. CASE transferOrganization
    <2>1. PICK N : Request(TransferOrganization(mem), FALSE, [hist EXCEPT !.named = N])
      BY <1>1 DEF transferOrganization
    <2>2. PICK h : h = [hist EXCEPT !.named = N]
      OBVIOUS
    <2>3. DOMAIN h = HistFields /\ h.susp = hist.susp
      BY <1>b, <2>2 DEF HistFields
    <2> QED
      BY <1>b, <2>1, <2>2, <2>3, TransferGrows, QuietOperations, QuietRequest
  <1>2. CASE Shape(Volatile, {"named"})
    <2>1. "users" \notin Volatile /\ "susp" \notin {"named"}
      BY DEF Volatile
    <2> QED
      BY <1>2, <2>1, PremiseNames, ElsewhereSusp
  <1> QED
    BY <1>b, <1>1, <1>2, PremiseNames, SchedulesShape, ElevatorsShape, SettingsShape DEF Premises

LEMMA CrashSusp == ASSUME IdInv, SuspInv, Crash PROVE SuspInv'
  <1>1. "users" \in Tables \ (KeptWhenEmpty \cup Volatile)
    BY DEF Tables, KeptWhenEmpty, Volatile
  <1>2. mem'.users = stored.users
    BY <1>1, RestoreTables DEF Crash, IdInv
  <1>3. stored' = stored /\ hist' = hist /\ next' = next
    BY DEF Crash
  <1> QED
    BY <1>2, <1>3 DEF SuspInv, Susp, HasStatus

LEMMA InitSusp == ASSUME Init PROVE SuspInv /\ ToldInv
  <1>1. mem = SetUp(family) /\ stored = persistLocked(mem) /\ hist.susp = {} /\ pending.op = "idle"
    BY DEF Init, NoHistory, Idle
  <1>t. "users" \in Tables \ {"spaces", "clients"} /\ "users" \in Tables \ Volatile
    BY DEF Tables, Volatile
  <1>2. mem.users = NewService.users /\ DOMAIN mem = Tables
    BY <1>1, <1>t, SetUpRows
  <1>3. stored.users = mem.users
    BY <1>1, <1>2, <1>t, PersistTables
  <1>4. \A u \in DOMAIN NewService.users : "st" \in DOMAIN NewService.users[u]
    <2>1. PICK e : e = CHOOSE x \in Emails : TRUE
      OBVIOUS
    <2>2. NewService.users = One(1, [st |-> "active", email |-> e, ref |-> NoRef, groups |-> {2}])
      BY <1>t, <2>1 DEF NewService, SpaceTables
    <2> QED
      BY <2>2 DEF One
  <1> QED
    BY <1>1, <1>2, <1>3, <1>4 DEF SuspInv, Susp, HasStatus, ToldInv, Told

\* A record is merged with a status the request states or with the one it read.
LEMMA MergedTold ==
    ASSUME NEW u, NEW e, NEW st, NEW gs, NEW ask, NEW off, NEW c, ask \/ st = Row(u).st, Begin(Merged(u, e, st, gs, ask, off), c)
    PROVE  Told(pending')
    BY DEF Begin, Merged, Told

LEMMA BeginTold == ASSUME NEW p, NEW c, p.op # "write", Begin(p, c) PROVE Told(pending')
    BY DEF Begin, Told

LEMMA WriteEnds == ASSUME WriteUser PROVE Told(pending')
  <1>1. PICK d, h : Finish(pending.id \in DOMAIN mem.users, d, FALSE, h)
    BY DEF WriteUser
  <1>2. pending' = Idle
    BY <1>1 DEF Finish, GoOn
  <1> QED
    BY <1>2 DEF Told, Idle

LEMMA AccountsTold == ASSUME Told(pending), Accounts PROVE Told(pending')
  <1>1. CASE updateUser \/ updateReferenceMember
    BY <1>1, MergedTold DEF updateUser, updateReferenceMember
  <1>2. CASE appAdminUpdateUserRole
    BY <1>2, MergedTold DEF appAdminUpdateUserRole
  <1>3. CASE WriteUser
    BY <1>3, WriteEnds
  <1>4. CASE pending' = pending
    BY <1>4
  <1>5. CASE createUser \/ appAdminAddUser \/ deleteUser \/ appAdminRemoveUser \/ deleteReferenceMember \/ deleteCurrentUser
    BY <1>4, <1>5 DEF createUser, appAdminAddUser, deleteUser, appAdminRemoveUser, deleteReferenceMember, deleteCurrentUser,
                      Request
  <1>6. CASE batchUpdateUserStatus \/ batchDeleteUsers \/ importUsersCSV
    BY <1>4, <1>6 DEF batchUpdateUserStatus, batchDeleteUsers, importUsersCSV, Request
  <1> QED
    BY <1>1, <1>2, <1>3, <1>5, <1>6 DEF Accounts

LEMMA SyncTold == ASSUME Told(pending), DirectorySync PROVE Told(pending')
  <1>1. CASE scimReplaceUser
    <2>1. PICK u, e, st, off, c :
              Begin(Merged(u, e, st, Row(u).groups, st # Row(u).st, off), c)
      BY <1>1 DEF scimReplaceUser
    <2>2. PICK ask \in BOOLEAN : ask = (st # Row(u).st)
      OBVIOUS
    <2>3. Begin(Merged(u, e, st, Row(u).groups, ask, off), c)
      BY <2>1, <2>2
    <2> QED
      BY <2>2, <2>3, MergedTold
  <1>2. CASE scimPatchUser
    <2>1. PICK u, e, st, off, c :
              Begin(Merged(u, e, st, Row(u).groups, st # Row(u).st, off), c)
      BY <1>2 DEF scimPatchUser
    <2>2. PICK ask \in BOOLEAN : ask = (st # Row(u).st)
      OBVIOUS
    <2>3. Begin(Merged(u, e, st, Row(u).groups, ask, off), c)
      BY <2>1, <2>2
    <2> QED
      BY <2>2, <2>3, MergedTold
  <1>3. CASE handleLarkUserUpdated
    <2>1. PICK u, e, st, off, c :
              Begin(Merged(u, e, st, Row(u).groups, st # Row(u).st, off), c)
      BY <1>3 DEF handleLarkUserUpdated
    <2>2. PICK ask \in BOOLEAN : ask = (st # Row(u).st)
      OBVIOUS
    <2>3. Begin(Merged(u, e, st, Row(u).groups, ask, off), c)
      BY <2>1, <2>2
    <2> QED
      BY <2>2, <2>3, MergedTold
  <1>4. CASE scimDeleteUser \/ handleLarkUserDeleted \/ appAdminUpdateUserRole
    BY <1>4, MergedTold DEF scimDeleteUser, handleLarkUserDeleted, appAdminUpdateUserRole
  <1>5. CASE scimCreateUser \/ handleLarkUserCreated
    BY <1>5, BeginTold DEF scimCreateUser, handleLarkUserCreated
  <1>6. CASE googleWorkspaceSyncUsers
    <2>1. \A e, in : ComputeGWSyncActions(e, in).op # "write"
      BY DEF ComputeGWSyncActions, Idle
    <2> QED
      BY <1>6, <2>1, BeginTold DEF googleWorkspaceSyncUsers
  <1>7. CASE WriteUser
    BY <1>7, WriteEnds
  <1>8. CASE CreateAfterLookup
    BY <1>8 DEF CreateAfterLookup, Told, Idle
  <1>9. CASE GoogleSignOff
    BY <1>9 DEF GoogleSignOff, Told, Idle
  <1>10. CASE MobileCredentials \/ deleteUser
    BY <1>10, CredentialsWait DEF deleteUser, Request, Told
  <1> QED
    BY <1>1, <1>2, <1>3, <1>4, <1>5, <1>6, <1>7, <1>8, <1>9, <1>10 DEF DirectorySync

LEMMA NextKeepsTold == ASSUME Base, ToldInv, [Next]_vars PROVE ToldInv'
  <1>1. CASE family \notin {"accounts", "sync"} /\ family' = family
    BY <1>1 DEF ToldInv
  <1>2. CASE Crash
    BY <1>2 DEF Crash, ToldInv, Told, Idle
  <1>3. CASE UNCHANGED vars
    BY <1>3 DEF vars, ToldInv, Told
  <1>4. CASE family = "accounts" /\ Accounts
    BY <1>4, AccountsTold DEF ToldInv, Told
  <1>5. CASE family = "sync" /\ DirectorySync
    BY <1>5, SyncTold DEF ToldInv, Told
  <1>6. ASSUME NEW T, NEW H, Shape(T, H) PROVE family' = family
    BY <1>6 DEF Shape
  <1>7. CASE Next
    BY <1>1, <1>2, <1>4, <1>5, <1>6, <1>7, NextShape
  <1> QED
    BY <1>3, <1>7

LEMMA NextKeepsSusp == ASSUME IdInv, SuspInv, ToldInv, [Next]_vars PROVE SuspInv'
  <1>b. Base
    BY DEF IdInv
  <1>1. CASE UNCHANGED vars
    BY <1>1 DEF vars, SuspInv
  <1>2. /\ VisitTables \in SUBSET Tables /\ OAuth2Tables \in SUBSET Tables /\ ShareTables \in SUBSET Tables
        /\ BookingTables \in SUBSET Tables /\ SpaceTables \in SUBSET Tables
        /\ "users" \notin VisitTables \cup OAuth2Tables \cup ShareTables \cup BookingTables \cup SpaceTables
        /\ "susp" \notin {"moved"} /\ "susp" \notin {"raced"}
    BY DEF VisitTables, OAuth2Tables, ShareTables, BookingTables, SpaceTables, Tables
  <1>3. CASE Next
    <2>1. CASE family = "accounts" /\ Accounts
      BY <2>1, AccountsSusp DEF ToldInv
    <2>2. CASE family = "sync" /\ DirectorySync
      BY <2>2, SyncSusp DEF ToldInv
    <2>3. CASE Shape(VisitTables, {}) \/ Shape(OAuth2Tables, {}) \/ Shape(ShareTables, {})
      BY <1>2, <2>3, ElsewhereSusp
    <2>4. CASE Shape(BookingTables, {"moved"}) \/ Shape(SpaceTables, {"raced"})
      BY <1>2, <2>4, ElsewhereSusp
    <2> QED
      BY <1>b, <1>3, <2>1, <2>2, <2>3, <2>4, NextShape, CrashSusp, PremisesSusp, BatchesSusp, InvitationsSusp, GroupsSusp,
         RightsSusp
  <1> QED
    BY <1>1, <1>3

(***************************************************************************)
(* SuspensionHolds is an invariant of every instance: a handler that       *)
(* merges and writes a record states the status or writes the one it read, *)
(* every other handler leaves the statuses of the users it does not name   *)
(* as they are, and an id that was suspended is never given again.         *)
(***************************************************************************)
THEOREM SuspensionsHold == Spec => []SuspensionHolds
  <1>1. SuspInv => SuspensionHolds
    BY DEF SuspInv, Susp, SuspensionHolds, Images
  <1>2. IdInv => Base
    BY DEF IdInv
  <1> QED
    BY <1>1, <1>2, InitIds, NextKeepsIds, InitSusp, NextKeepsTold, NextKeepsSusp, PTL DEF Spec

(* ------------------------------ bookings ------------------------------- *)

\* The booking x takes a place at the time of booking y.
Meets(x, y) == x.space = y.space /\ x.st \in Live /\ y.start < x.end /\ y.end > x.start

\* The older bookings, but for M, that booking b finds at its time.
Olders(d, b, M) == {c \in Overlapping(d, d.bookings[b].space, d.bookings[b].start, d.bookings[b].end) : c < b} \ M

Fits(d, b, M) ==
    LET s == d.bookings[b].space
    IN  s \in DOMAIN d.spaces \ M /\ Limited(d.spaces[s]) /\ d.bookings[b].st \in Live
            => Cardinality(Olders(d, b, M)) < Capacity(d.spaces[s])

Room(d, M) == \A b \in DOMAIN d.bookings \ M : Fits(d, b, M)

SpaceRow(r) == DOMAIN r = {"mode", "cap", "occ"} /\ r.mode \in Modes /\ r.cap \in Nat
BookingRow(r, n) == DOMAIN r = {"space", "start", "end", "st"} /\ r.space \in Nat /\ r.space < n

BookRows(d, n) ==
    /\ \A s \in DOMAIN d.spaces : SpaceRow(d.spaces[s])
    /\ \A b \in DOMAIN d.bookings : BookingRow(d.bookings[b], n)

BookInv ==
    /\ BookRows(mem, next) /\ BookRows(stored, next)
    /\ Room(mem, hist.moved) /\ Room(stored, hist.moved)

LEMMA RoomIsIt == ASSUME BookInv PROVE NoDoubleBooking
    BY DEF BookInv, Room, Fits, Olders, NoDoubleBooking, Images

LEMMA OlderOnes ==
    ASSUME NEW d, NEW b, NEW M
    PROVE  \A c : c \in Olders(d, b, M) <=>
                  (c \in DOMAIN d.bookings /\ c \notin M /\ c < b /\ Meets(d.bookings[c], d.bookings[b]))
    BY DEF Olders, Overlapping, Rows, Meets

\* A table of bookings with ids below n is finite, and so is what a booking finds in it.
LEMMA FewBookings ==
    ASSUME NEW d, NEW n \in Nat, \A b \in DOMAIN d.bookings : b \in Nat /\ b < n
    PROVE  /\ IsFiniteSet(DOMAIN d.bookings)
           /\ \A b, M : IsFiniteSet(Olders(d, b, M))
           /\ \A s, a, z : IsFiniteSet(Overlapping(d, s, a, z))
  <1>1. DOMAIN d.bookings \in SUBSET Nat /\ \A b \in DOMAIN d.bookings : b <= n
    OBVIOUS
  <1>2. IsFiniteSet(DOMAIN d.bookings)
    BY <1>1, FS_BoundedSetOfNaturals
  <1>3. \A s, a, z : Overlapping(d, s, a, z) \in SUBSET DOMAIN d.bookings
    BY DEF Overlapping, Rows
  <1>4. \A b, M : Olders(d, b, M) \in SUBSET DOMAIN d.bookings
    BY OlderOnes
  <1> QED
    BY <1>2, <1>3, <1>4, FS_Subset

\* A row that takes no place the row it replaces did not take.
Keeps(new, old) ==
    /\ new.space = old.space /\ new.start = old.start /\ new.end = old.end
    /\ new.st \in Live => old.st \in Live

\* The bookings of e that N does not except find no more than they found in d, when they and the
\* spaces are those of d; n, a booking newer than those of d, may be new.
LEMMA RoomFrame ==
    ASSUME NEW k \in Nat, NEW n \in Nat, NEW d, BookRows(d, k), \A b \in DOMAIN d.bookings : b \in Nat /\ b < n,
           NEW M, Room(d, M), NEW N, M \subseteq N, NEW e,
           \A b \in DOMAIN e.bookings \ N : b = n \/ (b \in DOMAIN d.bookings /\ Keeps(e.bookings[b], d.bookings[b])),
           \A s \in DOMAIN e.spaces \ N :
               \/ s \in DOMAIN d.spaces /\ e.spaces[s].mode = d.spaces[s].mode /\ e.spaces[s].cap = d.spaces[s].cap
               \/ \A b \in DOMAIN d.bookings : d.bookings[b].space # s
    PROVE  \A b \in DOMAIN e.bookings \ N : b = n \/ Fits(e, b, N)
  <1> SUFFICES ASSUME NEW b \in DOMAIN e.bookings \ N, b # n PROVE Fits(e, b, N)
    OBVIOUS
  <1> DEFINE s == e.bookings[b].space
  <1>1. b \in DOMAIN d.bookings /\ Keeps(e.bookings[b], d.bookings[b]) /\ b \in Nat /\ b < n
    OBVIOUS
  <1>2. s = d.bookings[b].space
    BY <1>1 DEF Keeps
  <1> SUFFICES ASSUME s \in DOMAIN e.spaces \ N, Limited(e.spaces[s]), e.bookings[b].st \in Live
               PROVE  Cardinality(Olders(e, b, N)) < Capacity(e.spaces[s])
    BY DEF Fits
  <1>3. s \in DOMAIN d.spaces \ M /\ e.spaces[s].mode = d.spaces[s].mode /\ e.spaces[s].cap = d.spaces[s].cap
    BY <1>1, <1>2
  <1>4. Limited(d.spaces[s]) /\ Capacity(e.spaces[s]) = Capacity(d.spaces[s]) /\ d.bookings[b].st \in Live
    BY <1>1, <1>3 DEF Limited, Capacity, Keeps
  <1>5. Cardinality(Olders(d, b, M)) < Capacity(d.spaces[s])
    BY <1>1, <1>2, <1>3, <1>4 DEF Room, Fits
  <1>6. Olders(e, b, N) \in SUBSET Olders(d, b, M)
    <2> SUFFICES ASSUME NEW c \in Olders(e, b, N) PROVE c \in Olders(d, b, M)
      OBVIOUS
    <2>1. c \in DOMAIN e.bookings /\ c \notin N /\ c < b /\ Meets(e.bookings[c], e.bookings[b])
      BY OlderOnes
    <2>2. c # n
      BY <1>1, <2>1
    <2>3. c \in DOMAIN d.bookings /\ Keeps(e.bookings[c], d.bookings[c])
      BY <2>1, <2>2
    <2>4. Meets(d.bookings[c], d.bookings[b])
      BY <1>1, <2>1, <2>3 DEF Meets, Keeps
    <2> QED
      BY <2>1, <2>3, <2>4, OlderOnes
  <1>7. IsFiniteSet(Olders(d, b, M))
    BY FewBookings
  <1>8. Cardinality(Olders(e, b, N)) <= Cardinality(Olders(d, b, M))
    BY <1>6, <1>7, FS_Subset
  <1>9. Cardinality(Olders(e, b, N)) \in Nat /\ Cardinality(Olders(d, b, M)) \in Nat
    BY <1>6, <1>7, FS_Subset, FS_CardinalityType
  <1>10. Capacity(d.spaces[s]) \in Int
    BY <1>3 DEF Capacity, BookRows, SpaceRow
  <1> HIDE DEF s
  <1>11. PICK p, q, r \in Int : p = Cardinality(Olders(e, b, N)) /\ q = Cardinality(Olders(d, b, M)) /\ r = Capacity(d.spaces[s])
    BY <1>9, <1>10
  <1>12. p < r
    BY <1>5, <1>8, <1>11
  <1> QED
    BY <1>4, <1>11, <1>12

\* Where the booking ids lie.
LEMMA BookingIds ==
    ASSUME IdInv
    PROVE  /\ next \in Nat
           /\ \A b \in DOMAIN mem.bookings : b \in Nat /\ b < next
           /\ \A b \in DOMAIN stored.bookings : b \in Nat /\ b < next
           /\ \A s \in DOMAIN mem.spaces : s \in Nat /\ s < next
  <1>1. "bookings" \in Tables /\ "spaces" \in Tables
    BY DEF Tables
  <1> QED
    BY <1>1, IdsOf DEF IdInv, Base, Below

LEMMA KeepsItself == \A r : Keeps(r, r)
    BY DEF Keeps

\* More may be excepted.
LEMMA RoomExcepts ==
    ASSUME NEW n \in Nat, NEW d, BookRows(d, n), \A b \in DOMAIN d.bookings : b \in Nat /\ b < n, NEW M, Room(d, M),
           NEW N, M \subseteq N
    PROVE  Room(d, N)
  <1>1. \A b \in DOMAIN d.bookings \ N : b = n \/ (b \in DOMAIN d.bookings /\ Keeps(d.bookings[b], d.bookings[b]))
    BY KeepsItself
  <1>2. \A b \in DOMAIN d.bookings \ N : b = n \/ Fits(d, b, N)
    BY <1>1, RoomFrame
  <1>3. n \notin DOMAIN d.bookings
    OBVIOUS
  <1> QED
    BY <1>2, <1>3 DEF Room

LEMMA RowsAbove == ASSUME NEW d, NEW n \in Nat, NEW k \in Nat, k >= n, BookRows(d, n) PROVE BookRows(d, k)
    BY DEF BookRows, BookingRow

LEMMA SaveRoom ==
    ASSUME IdInv, BookInv, NEW e, Grows(e, BookingTables), BookRows(e, next), NEW h, DOMAIN h = HistFields,
           hist.moved \subseteq h.moved, Room(e, h.moved), NEW undo \in BOOLEAN, NEW cost, Save(e, undo, h, cost)
    PROVE  BookInv'
  <1>t. DOMAIN e = Tables /\ "bookings" \in Tables \ Volatile /\ "spaces" \in Tables \ Volatile
    BY DEF Grows, Tables, Volatile
  <1>1. next' \in Nat /\ next' >= next /\ next \in Nat
    <2>1. next' = NextId(e)
      BY DEF Save
    <2>2. Base /\ next > Org /\ Below(mem) /\ next \in Nat
      BY DEF IdInv, Org, Base
    <2> QED
      BY <2>1, <2>2, NextIdAbove
  <1>2. BookRows(e, next') /\ BookRows(mem, next') /\ BookRows(stored, next')
    BY <1>1, RowsAbove DEF BookInv
  <1>3. Room(stored, h.moved)
    BY BookingIds, RoomExcepts DEF BookInv
  <1>4. PICK f \in 0..1 : IF f = 0 THEN Saved(e, h) ELSE NotSaved(e, undo, h)
    BY DEF Save
  <1>5. CASE Saved(e, h)
    <2>1. mem' = e /\ stored' = persistLocked(e) /\ hist'.moved = h.moved
      BY <1>5 DEF Saved, HistFields
    <2>2. persistLocked(e).bookings = e.bookings /\ persistLocked(e).spaces = e.spaces
      BY <1>t, PersistTables
    <2>3. PICK p : p = persistLocked(e)
      OBVIOUS
    <2>4. p.bookings = e.bookings /\ p.spaces = e.spaces
      BY <2>2, <2>3
    <2>5. \A b, M : Olders(p, b, M) = Olders(e, b, M)
      BY <2>4 DEF Olders, Overlapping, Rows
    <2>6. BookRows(p, next') /\ Room(p, h.moved)
      BY <1>2, <2>4, <2>5 DEF BookRows, Room, Fits
    <2> QED
      BY <1>2, <2>1, <2>3, <2>6 DEF BookInv
  <1>6. CASE NotSaved(e, undo, h)
    <2>1. CASE undo = TRUE
      <3>1. mem' = mem /\ stored' = stored /\ hist' = hist
        BY <1>6, <2>1 DEF NotSaved
      <3> QED
        BY <1>2, <3>1 DEF BookInv
    <2>2. CASE undo = FALSE
      <3>1. mem' = e /\ stored' = stored /\ hist'.moved = h.moved
        BY <1>6, <2>2 DEF NotSaved, HistFields
      <3> QED
        BY <1>2, <1>3, <3>1 DEF BookInv
    <2> QED
      BY <2>1, <2>2
  <1> QED
    BY <1>4, <1>5, <1>6

LEMMA RequestRoom ==
    ASSUME IdInv, BookInv, NEW e, Grows(e, BookingTables), BookRows(e, next), NEW h, DOMAIN h = HistFields,
           hist.moved \subseteq h.moved, Room(e, h.moved), Request(e, FALSE, h)
    PROVE  BookInv'
    BY SaveRoom DEF Request

LEMMA InMemoryRoom ==
    ASSUME IdInv, BookInv, NEW e, Grows(e, BookingTables), BookRows(e, next), NEW h, DOMAIN h = HistFields,
           hist.moved \subseteq h.moved, Room(e, h.moved), NEW p, InMemory(e, h, p)
    PROVE  BookInv'
  <1>1. next' \in Nat /\ next' >= next /\ next \in Nat
    <2>1. next' = NextId(e)
      BY DEF InMemory
    <2>2. Base /\ next > Org /\ Below(mem) /\ next \in Nat
      BY DEF IdInv, Org, Base
    <2> QED
      BY <2>1, <2>2, NextIdAbove
  <1>2. BookRows(e, next') /\ BookRows(stored, next')
    BY <1>1, RowsAbove DEF BookInv
  <1>3. Room(stored, h.moved)
    BY BookingIds, RoomExcepts DEF BookInv
  <1>4. mem' = e /\ stored' = stored /\ hist' = h
    BY DEF InMemory
  <1> QED
    BY <1>2, <1>3, <1>4 DEF BookInv

\* Tables whose bookings and spaces are those in memory, but for N and for spaces nobody booked.
LEMMA RoomLeft ==
    ASSUME IdInv, BookInv, NEW N, hist.moved \subseteq N, NEW e,
           \A b \in DOMAIN e.bookings \ N : b \in DOMAIN mem.bookings /\ Keeps(e.bookings[b], mem.bookings[b]),
           \A s \in DOMAIN e.spaces \ N :
               \/ s \in DOMAIN mem.spaces /\ e.spaces[s].mode = mem.spaces[s].mode /\ e.spaces[s].cap = mem.spaces[s].cap
               \/ s = next
    PROVE  Room(e, N)
  <1>1. /\ next \in Nat /\ BookRows(mem, next) /\ Room(mem, hist.moved)
        /\ \A b \in DOMAIN mem.bookings : b \in Nat /\ b < next
    BY BookingIds DEF BookInv
  <1>2. \A b \in DOMAIN mem.bookings : mem.bookings[b].space # next
    BY <1>1 DEF BookRows, BookingRow
  <1>3. /\ \A b \in DOMAIN e.bookings \ N : b = next \/ (b \in DOMAIN mem.bookings /\ Keeps(e.bookings[b], mem.bookings[b]))
        /\ \A s \in DOMAIN e.spaces \ N :
               \/ s \in DOMAIN mem.spaces /\ e.spaces[s].mode = mem.spaces[s].mode /\ e.spaces[s].cap = mem.spaces[s].cap
               \/ \A b \in DOMAIN mem.bookings : mem.bookings[b].space # s
    BY <1>2
  <1>4. \A b \in DOMAIN e.bookings \ N : b = next \/ Fits(e, b, N)
    BY <1>1, <1>3, RoomFrame
  <1>5. next \notin DOMAIN e.bookings \ N
    BY <1>1
  <1> QED
    BY <1>4, <1>5 DEF Room

\* The rows of spaces and bookings after an edit.
LEMMA EditedSpace ==
    ASSUME Base, BookRows(mem, next), NEW s \in DOMAIN mem.spaces, NEW mode \in Modes, NEW cap \in Nat
    PROVE  LET e == UpdateBookableSpace(mem, s, mode, cap)
           IN  /\ e.bookings = mem.bookings /\ DOMAIN e.spaces = DOMAIN mem.spaces
               /\ \A x \in DOMAIN mem.spaces \ {s} : e.spaces[x] = mem.spaces[x]
               /\ SpaceRow(e.spaces[s])
  <1>t. DOMAIN mem = Tables /\ "bookings" \in Tables /\ "spaces" \in Tables
    BY DEF Base, Tables
  <1> DEFINE row == [[mem.spaces[s] EXCEPT !.mode = mode] EXCEPT !.cap = cap]
             e == UpdateBookableSpace(mem, s, mode, cap)
  <1>1. SpaceRow(row)
    BY DEF BookRows, SpaceRow
  <1> HIDE DEF row
  <1>2. e.bookings = mem.bookings /\ e.spaces = [mem.spaces EXCEPT ![s] = row]
    BY <1>t DEF UpdateBookableSpace, row
  <1> HIDE DEF e
  <1>3. /\ e.bookings = mem.bookings /\ DOMAIN e.spaces = DOMAIN mem.spaces
        /\ \A x \in DOMAIN mem.spaces \ {s} : e.spaces[x] = mem.spaces[x]
        /\ SpaceRow(e.spaces[s])
    BY <1>1, <1>2
  <1> QED
    BY <1>3 DEF e

LEMMA EditedBooking ==
    ASSUME Base, BookRows(mem, next), NEW b \in DOMAIN mem.bookings, NEW a, NEW z, NEW st
    PROVE  LET e == UpdateBooking(mem, b, a, z, st)
           IN  /\ e.spaces = mem.spaces /\ DOMAIN e.bookings = DOMAIN mem.bookings
               /\ \A x \in DOMAIN mem.bookings \ {b} : e.bookings[x] = mem.bookings[x]
               /\ BookingRow(e.bookings[b], next) /\ e.bookings[b].space = mem.bookings[b].space
               /\ e.bookings[b].start = a /\ e.bookings[b].end = z /\ e.bookings[b].st = st
  <1>t. DOMAIN mem = Tables /\ "bookings" \in Tables /\ "spaces" \in Tables
    BY DEF Base, Tables
  <1> DEFINE row == [[[mem.bookings[b] EXCEPT !.start = a] EXCEPT !.end = z] EXCEPT !.st = st]
             e == UpdateBooking(mem, b, a, z, st)
  <1>1. /\ BookingRow(row, next) /\ row.space = mem.bookings[b].space
        /\ row.start = a /\ row.end = z /\ row.st = st
    BY DEF BookRows, BookingRow
  <1> HIDE DEF row
  <1>2. e.spaces = mem.spaces /\ e.bookings = [mem.bookings EXCEPT ![b] = row]
    BY <1>t DEF UpdateBooking, row
  <1> HIDE DEF e
  <1>3. /\ e.spaces = mem.spaces /\ DOMAIN e.bookings = DOMAIN mem.bookings
        /\ \A x \in DOMAIN mem.bookings \ {b} : e.bookings[x] = mem.bookings[x]
        /\ e.bookings[b] = row
    BY <1>2
  <1> QED
    BY <1>1, <1>3 DEF e

\* What CheckInBooking and CheckOutBooking make of the tables.
Turned(d, b, n, st) == [Occupy(d, b, n) EXCEPT !.bookings[b].st = st]

LEMMA OccupiedSpace ==
    ASSUME Base, BookRows(mem, next), NEW b \in DOMAIN mem.bookings, NEW n, NEW st
    PROVE  LET e == Turned(mem, b, n, st)
           IN  /\ DOMAIN e.spaces = DOMAIN mem.spaces /\ DOMAIN e.bookings = DOMAIN mem.bookings
               /\ \A s \in DOMAIN mem.spaces :
                      SpaceRow(e.spaces[s]) /\ e.spaces[s].mode = mem.spaces[s].mode /\ e.spaces[s].cap = mem.spaces[s].cap
               /\ \A x \in DOMAIN mem.bookings \ {b} : e.bookings[x] = mem.bookings[x]
               /\ BookingRow(e.bookings[b], next) /\ e.bookings[b].space = mem.bookings[b].space
               /\ e.bookings[b].start = mem.bookings[b].start /\ e.bookings[b].end = mem.bookings[b].end
               /\ e.bookings[b].st = st
  <1>t. DOMAIN mem = Tables /\ "bookings" \in Tables /\ "spaces" \in Tables
    BY DEF Base, Tables
  <1> DEFINE o == Occupy(mem, b, n)
             row == [mem.bookings[b] EXCEPT !.st = st]
             e == [o EXCEPT !.bookings[b].st = st]
  <1>1. /\ DOMAIN o = Tables /\ o.bookings = mem.bookings /\ DOMAIN o.spaces = DOMAIN mem.spaces
        /\ \A s \in DOMAIN mem.spaces :
               SpaceRow(o.spaces[s]) /\ o.spaces[s].mode = mem.spaces[s].mode /\ o.spaces[s].cap = mem.spaces[s].cap
    <2> DEFINE s == mem.bookings[b].space
               new == [mem.spaces[s] EXCEPT !.occ = X!Max({0, @ + n})]
    <2>1. CASE s \notin DOMAIN mem.spaces
      BY <1>t, <2>1 DEF Occupy, BookRows
    <2>2. CASE s \in DOMAIN mem.spaces
      <3>1. SpaceRow(new) /\ new.mode = mem.spaces[s].mode /\ new.cap = mem.spaces[s].cap
        BY <2>2 DEF BookRows, SpaceRow
      <3>2. o = [mem EXCEPT !.spaces[s] = new]
        BY <2>2 DEF Occupy
      <3> HIDE DEF new, s, o
      <3>3. DOMAIN o = Tables /\ o.bookings = mem.bookings /\ o.spaces = [mem.spaces EXCEPT ![s] = new]
        BY <1>t, <3>2
      <3> QED
        BY <3>1, <3>3 DEF BookRows
    <2> QED
      BY <2>1, <2>2
  <1>2. /\ BookingRow(row, next) /\ row.space = mem.bookings[b].space
        /\ row.start = mem.bookings[b].start /\ row.end = mem.bookings[b].end /\ row.st = st
    BY DEF BookRows, BookingRow
  <1> HIDE DEF o
  <1>3. e.spaces = o.spaces /\ e.bookings = [mem.bookings EXCEPT ![b] = row]
    BY <1>t, <1>1
  <1> HIDE DEF row, e
  <1>4. /\ DOMAIN e.bookings = DOMAIN mem.bookings /\ e.bookings[b] = row
        /\ \A x \in DOMAIN mem.bookings \ {b} : e.bookings[x] = mem.bookings[x]
    BY <1>3
  <1>5. /\ DOMAIN e.spaces = DOMAIN mem.spaces /\ DOMAIN e.bookings = DOMAIN mem.bookings
        /\ \A s \in DOMAIN mem.spaces :
               SpaceRow(e.spaces[s]) /\ e.spaces[s].mode = mem.spaces[s].mode /\ e.spaces[s].cap = mem.spaces[s].cap
        /\ \A x \in DOMAIN mem.bookings \ {b} : e.bookings[x] = mem.bookings[x]
        /\ BookingRow(e.bookings[b], next) /\ e.bookings[b].space = mem.bookings[b].space
        /\ e.bookings[b].start = mem.bookings[b].start /\ e.bookings[b].end = mem.bookings[b].end
        /\ e.bookings[b].st = st
    BY <1>1, <1>2, <1>3, <1>4
  <1> QED
    BY <1>5 DEF e, o, Turned

\* CreateBooking writes a booking only where the capacity check found a place.
LEMMA CreateRoom ==
    ASSUME IdInv, BookInv, NEW s \in DOMAIN mem.spaces, NEW a, NEW z, Free(mem, s, a, z)
    PROVE  LET e == CreateBooking(mem, next, s, a, z) IN BookRows(e, next) /\ Room(e, hist.moved)
  <1>t. DOMAIN mem = Tables /\ "bookings" \in Tables /\ "spaces" \in Tables \ {"bookings"}
    BY DEF IdInv, Base, Tables
  <1>0. /\ next \in Nat /\ BookRows(mem, next) /\ Room(mem, hist.moved)
        /\ \A b \in DOMAIN mem.bookings : b \in Nat /\ b < next
        /\ s \in Nat /\ s < next /\ SpaceRow(mem.spaces[s])
    BY BookingIds DEF BookInv, BookRows
  <1> DEFINE row == [space |-> s, start |-> a, end |-> z, st |-> "confirmed"]
             e == CreateBooking(mem, next, s, a, z)
             M == hist.moved
  <1>1. BookingRow(row, next) /\ row.space = s /\ row.start = a /\ row.end = z
    BY <1>0 DEF BookingRow
  <1>2. e = Put(mem, "bookings", next, row)
    BY DEF CreateBooking
  <1> HIDE DEF row, e
  <1>3. /\ e.spaces = mem.spaces /\ DOMAIN e.bookings = {next} \cup DOMAIN mem.bookings /\ e.bookings[next] = row
        /\ \A b \in DOMAIN mem.bookings \ {next} : e.bookings[b] = mem.bookings[b]
    BY <1>t, <1>2, PutTables
  <1>4. BookRows(e, next)
    BY <1>0, <1>1, <1>3 DEF BookRows
  <1>5. \A b \in DOMAIN e.bookings \ M : b = next \/ Fits(e, b, M)
    <2>1. \A b \in DOMAIN e.bookings \ M : b = next \/ (b \in DOMAIN mem.bookings /\ Keeps(e.bookings[b], mem.bookings[b]))
      BY <1>3, KeepsItself
    <2> HIDE DEF M
    <2>2. M \subseteq M /\ Room(mem, M)
      BY <1>0 DEF M
    <2> QED
      BY <1>0, <1>3, <2>1, <2>2, RoomFrame
  <1>6. Fits(e, next, M)
    <2> DEFINE O == Overlapping(mem, s, a, z)
    <2>1. Olders(e, next, M) \in SUBSET O
      <3> SUFFICES ASSUME NEW c \in Olders(e, next, M) PROVE c \in O
        OBVIOUS
      <3>1. c \in DOMAIN e.bookings /\ c < next /\ Meets(e.bookings[c], e.bookings[next])
        BY OlderOnes
      <3>2. c \in DOMAIN mem.bookings /\ e.bookings[c] = mem.bookings[c]
        BY <1>0, <1>3, <3>1
      <3>3. Meets(mem.bookings[c], row)
        BY <1>3, <3>1, <3>2
      <3> QED
        BY <1>1, <3>2, <3>3 DEF Meets, Overlapping, Rows
    <2>2. IsFiniteSet(O)
      BY <1>0, FewBookings
    <2> DEFINE n == Cardinality(O)
    <2>3. /\ mem.spaces[s].mode = "single_occupancy" => n = 0
          /\ mem.spaces[s].mode = "limited_capacity" /\ mem.spaces[s].cap > 0 => n < mem.spaces[s].cap
      BY DEF Free
    <2> HIDE DEF O
    <2>4. /\ Cardinality(Olders(e, next, M)) \in Nat /\ n \in Nat
          /\ Cardinality(Olders(e, next, M)) <= n
      BY <2>1, <2>2, FS_Subset, FS_CardinalityType
    <2>5. PICK k \in Nat : k = Cardinality(Olders(e, next, M))
      BY <2>4
    <2> HIDE DEF n
    <2>6. Limited(mem.spaces[s]) => k < Capacity(mem.spaces[s])
      BY <1>0, <2>3, <2>4, <2>5 DEF Limited, Capacity, SpaceRow, Modes
    <2> QED
      BY <1>1, <1>3, <2>5, <2>6 DEF Fits
  <1>7. Room(e, M)
    BY <1>5, <1>6 DEF Room
  <1> QED
    BY <1>4, <1>7 DEF e

LEMMA BookingsRoom == ASSUME IdInv, BookInv, Bookings PROVE BookInv'
  <1>b. Base /\ DOMAIN mem = Tables /\ DOMAIN hist = HistFields /\ BookRows(mem, next)
    BY DEF IdInv, Base, BookInv
  <1>t. /\ BookingTables \in SUBSET Tables /\ "spaces" \in BookingTables /\ "bookings" \in BookingTables
        /\ "spaces" \in Tables \ {"bookings"} /\ "bookings" \in Tables \ {"spaces"} /\ "spaces" # "org" /\ "bookings" # "org"
    BY DEF BookingTables, Tables
  <1>h. \A S : DOMAIN Moves(hist, S) = HistFields /\ Moves(hist, S).moved = hist.moved \cup S
    BY <1>b DEF Moves, HistFields
  <1>k. \A r : Keeps(r, r)
    BY KeepsItself
  <1>1. CASE createBookableSpace
    <2>1. PICK mode \in Modes, cap \in 0..2 : Request(CreateBookableSpace(mem, next, mode, cap), FALSE, hist)
      BY <1>1 DEF createBookableSpace
    <2> DEFINE row == [mode |-> mode, cap |-> cap, occ |-> 0]
               e == CreateBookableSpace(mem, next, mode, cap)
    <2>2. SpaceRow(row)
      BY DEF SpaceRow
    <2>3. e = Put(mem, "spaces", next, row)
      BY DEF CreateBookableSpace
    <2> HIDE DEF row, e
    <2>4. /\ e.bookings = mem.bookings /\ DOMAIN e.spaces = {next} \cup DOMAIN mem.spaces /\ e.spaces[next] = row
          /\ \A s \in DOMAIN mem.spaces \ {next} : e.spaces[s] = mem.spaces[s]
      BY <1>b, <1>t, <2>3, PutTables
    <2>5. BookRows(e, next)
      BY <1>b, <2>2, <2>4 DEF BookRows
    <2>6. Room(e, hist.moved)
      BY <1>k, <2>4, RoomLeft
    <2>7. Grows(e, BookingTables)
      BY <1>b, <1>t, <2>3, GrowsPut, NextFresh
    <2> QED
      BY <1>b, <2>1, <2>5, <2>6, <2>7, RequestRoom DEF e
  <1>2. CASE updateBookableSpace
    <2>1. PICK s \in DOMAIN mem.spaces, mode \in Modes, cap \in 0..2 :
              Request(UpdateBookableSpace(mem, s, mode, cap), FALSE, Moves(hist, {s}))
      BY <1>2 DEF updateBookableSpace
    <2> DEFINE e == UpdateBookableSpace(mem, s, mode, cap)
               h == Moves(hist, {s})
    <2>2. /\ e.bookings = mem.bookings /\ DOMAIN e.spaces = DOMAIN mem.spaces
          /\ \A x \in DOMAIN mem.spaces \ {s} : e.spaces[x] = mem.spaces[x]
          /\ SpaceRow(e.spaces[s])
      BY <1>b, EditedSpace
    <2>3. Grows(e, BookingTables)
      BY <1>b, BookingsGrow
    <2> HIDE DEF e
    <2>4. BookRows(e, next)
      BY <1>b, <2>2 DEF BookRows
    <2>5. DOMAIN h = HistFields /\ hist.moved \subseteq h.moved /\ s \in h.moved
      BY <1>h
    <2> HIDE DEF h
    <2>6. Room(e, h.moved)
      BY <1>k, <2>2, <2>5, RoomLeft
    <2> QED
      BY <2>1, <2>3, <2>4, <2>5, <2>6, RequestRoom DEF e, h
  <1>3. CASE deleteBookableSpace
    <2>1. PICK s \in DOMAIN mem.spaces : Request(Drop(mem, "spaces", {s}), FALSE, hist)
      BY <1>3 DEF deleteBookableSpace, DeleteBookableSpace
    <2> DEFINE e == Drop(mem, "spaces", {s})
    <2>2. /\ e.bookings = mem.bookings /\ DOMAIN e.spaces = DOMAIN mem.spaces \ {s}
          /\ \A x \in DOMAIN mem.spaces \ {s} : e.spaces[x] = mem.spaces[x]
      BY <1>b, <1>t, DropTables
    <2>3. Grows(e, BookingTables)
      BY <1>b, <1>t, GrowsDrop
    <2> HIDE DEF e
    <2>4. BookRows(e, next) /\ Room(e, hist.moved)
      BY <1>b, <1>k, <2>2, RoomLeft DEF BookRows
    <2> QED
      BY <1>b, <2>1, <2>3, <2>4, RequestRoom DEF e
  <1>4. CASE createBooking \/ appCreateBooking
    <2>1. PICK s \in DOMAIN mem.spaces, a, z \in Hours :
              Free(mem, s, a, z) /\ Request(CreateBooking(mem, next, s, a, z), FALSE, hist)
      BY <1>4 DEF createBooking, appCreateBooking
    <2> DEFINE e == CreateBooking(mem, next, s, a, z)
    <2>2. BookRows(e, next) /\ Room(e, hist.moved)
      BY <2>1, CreateRoom
    <2>3. Grows(e, BookingTables)
      BY <1>b, <1>t, GrowsPut, NextFresh DEF CreateBooking
    <2> HIDE DEF e
    <2> QED
      BY <1>b, <2>1, <2>2, <2>3, RequestRoom DEF e
  <1>5. CASE updateBooking
    <2>1. PICK b \in DOMAIN mem.bookings, a, z \in Hours, st \in BookingStatuses :
              \/ Request(UpdateBooking(mem, b, a, z, st), FALSE, Moves(hist, {b}))
              \/ InMemory(UpdateBooking(mem, b, a, z, st), Moves(hist, {b}), pending)
      BY <1>5 DEF updateBooking
    <2> DEFINE e == UpdateBooking(mem, b, a, z, st)
               h == Moves(hist, {b})
    <2>2. /\ e.spaces = mem.spaces /\ DOMAIN e.bookings = DOMAIN mem.bookings
          /\ \A x \in DOMAIN mem.bookings \ {b} : e.bookings[x] = mem.bookings[x]
          /\ BookingRow(e.bookings[b], next)
      BY <1>b, EditedBooking
    <2>3. Grows(e, BookingTables)
      BY <1>b, BookingsGrow
    <2>4. DOMAIN h = HistFields /\ hist.moved \subseteq h.moved /\ b \in h.moved
      BY <1>h
    <2> HIDE DEF e, h
    <2>5. BookRows(e, next)
      BY <1>b, <2>2 DEF BookRows
    <2>6. Room(e, h.moved)
      BY <1>k, <2>2, <2>4, RoomLeft
    <2>7. Request(e, FALSE, h) \/ InMemory(e, h, pending)
      BY <2>1 DEF e, h
    <2> QED
      BY <2>3, <2>4, <2>5, <2>6, <2>7, RequestRoom, InMemoryRoom
  <1>6. CASE appCancelBooking
    <2>1. PICK b \in DOMAIN mem.bookings :
              Request(UpdateBooking(mem, b, mem.bookings[b].start, mem.bookings[b].end, "cancelled"), FALSE, hist)
      BY <1>6 DEF appCancelBooking
    <2> DEFINE e == UpdateBooking(mem, b, mem.bookings[b].start, mem.bookings[b].end, "cancelled")
    <2>2. /\ e.spaces = mem.spaces /\ DOMAIN e.bookings = DOMAIN mem.bookings
          /\ \A x \in DOMAIN mem.bookings \ {b} : e.bookings[x] = mem.bookings[x]
          /\ BookingRow(e.bookings[b], next) /\ e.bookings[b].st \notin Live
          /\ Keeps(e.bookings[b], mem.bookings[b])
      BY <1>b, EditedBooking DEF Live, Keeps
    <2>3. Grows(e, BookingTables)
      BY <1>b, BookingsGrow
    <2> HIDE DEF e
    <2>4. BookRows(e, next)
      BY <1>b, <2>2 DEF BookRows
    <2>5. Room(e, hist.moved)
      BY <1>k, <2>2, RoomLeft
    <2> QED
      BY <1>b, <2>1, <2>3, <2>4, <2>5, RequestRoom DEF e
  <1>7. CASE deleteBooking
    <2>1. PICK b \in DOMAIN mem.bookings : Request(Drop(mem, "bookings", {b}), FALSE, hist)
      BY <1>7 DEF deleteBooking, DeleteBooking
    <2> DEFINE e == Drop(mem, "bookings", {b})
    <2>2. /\ e.spaces = mem.spaces /\ DOMAIN e.bookings = DOMAIN mem.bookings \ {b}
          /\ \A x \in DOMAIN mem.bookings \ {b} : e.bookings[x] = mem.bookings[x]
      BY <1>b, <1>t, DropTables
    <2>3. Grows(e, BookingTables)
      BY <1>b, <1>t, GrowsDrop
    <2> HIDE DEF e
    <2>4. BookRows(e, next) /\ Room(e, hist.moved)
      BY <1>b, <1>k, <2>2, RoomLeft DEF BookRows
    <2> QED
      BY <1>b, <2>1, <2>3, <2>4, RequestRoom DEF e
  <1>8. ASSUME NEW b \in DOMAIN mem.bookings, NEW n, NEW st, NEW h, h \in {hist, Moves(hist, {b})},
               b \in h.moved \/ (st \in Live => mem.bookings[b].st \in Live),
               Grows(Turned(mem, b, n, st), BookingTables), Request(Turned(mem, b, n, st), FALSE, h)
        PROVE  BookInv'
    <2> DEFINE e == Turned(mem, b, n, st)
    <2>1. /\ DOMAIN e.spaces = DOMAIN mem.spaces /\ DOMAIN e.bookings = DOMAIN mem.bookings
          /\ \A s \in DOMAIN mem.spaces :
                 SpaceRow(e.spaces[s]) /\ e.spaces[s].mode = mem.spaces[s].mode /\ e.spaces[s].cap = mem.spaces[s].cap
          /\ \A x \in DOMAIN mem.bookings \ {b} : e.bookings[x] = mem.bookings[x]
          /\ BookingRow(e.bookings[b], next) /\ e.bookings[b].space = mem.bookings[b].space
          /\ e.bookings[b].start = mem.bookings[b].start /\ e.bookings[b].end = mem.bookings[b].end
          /\ e.bookings[b].st = st
      BY <1>b, OccupiedSpace
    <2>2. DOMAIN h = HistFields /\ hist.moved \subseteq h.moved
      BY <1>b, <1>h, <1>8
    <2>3. Grows(e, BookingTables) /\ Request(e, FALSE, h)
      BY <1>8
    <2> HIDE DEF e
    <2>4. BookRows(e, next)
      BY <1>b, <2>1 DEF BookRows
    <2>5. b \in h.moved \/ Keeps(e.bookings[b], mem.bookings[b])
      BY <1>8, <2>1 DEF Keeps
    <2>6. Room(e, h.moved)
      BY <1>k, <2>1, <2>2, <2>5, RoomLeft
    <2> QED
      BY <2>2, <2>3, <2>4, <2>6, RequestRoom
  <1>9. CASE checkInBooking \/ appCheckInBooking
    <2>1. PICK b \in DOMAIN mem.bookings : Request(CheckInBooking(mem, b), FALSE, Revives(hist, b))
      BY <1>9 DEF checkInBooking, appCheckInBooking
    <2> DEFINE h == Revives(hist, b)
    <2>2. h \in {hist, Moves(hist, {b})} /\ (b \in h.moved \/ mem.bookings[b].st \in Live)
      BY <1>h DEF Revives
    <2> HIDE DEF h
    <2>3. Grows(CheckInBooking(mem, b), BookingTables) /\ Request(CheckInBooking(mem, b), FALSE, h)
      BY <1>b, <2>1, BookingsGrow DEF h
    <2> QED
      BY <1>8, <2>2, <2>3 DEF CheckInBooking, Turned
  <1>10. CASE checkOutBooking \/ appCheckOutBooking
    <2>1. PICK b \in DOMAIN mem.bookings : Request(CheckOutBooking(mem, b), FALSE, hist)
      BY <1>10 DEF checkOutBooking, appCheckOutBooking
    <2>2. Grows(CheckOutBooking(mem, b), BookingTables)
      BY <1>b, BookingsGrow
    <2>3. "completed" \notin Live
      BY DEF Live
    <2> QED
      BY <1>8, <2>1, <2>2, <2>3 DEF CheckOutBooking, Turned
  <1> QED
    BY <1>1, <1>2, <1>3, <1>4, <1>5, <1>6, <1>7, <1>9, <1>10 DEF Bookings

\* A step that leaves the spaces and the bookings alone, and what is remembered of them.
LEMMA ElsewhereRoom ==
    ASSUME IdInv, BookInv, NEW T \in SUBSET Tables, NEW H, Shape(T, H), T \cap BookingTables = {}, "moved" \notin H
    PROVE  BookInv'
  <1>t. "bookings" \in Tables \ Volatile /\ "spaces" \in Tables \ Volatile /\ "bookings" \notin T /\ "spaces" \notin T
    BY DEF Tables, Volatile, BookingTables
  <1>1. hist'.moved = hist.moved
    BY DEF Shape, HistFields
  <1>2. CASE UNCHANGED <<mem, stored, next>>
    BY <1>1, <1>2 DEF BookInv
  <1>3. CASE \E d : Grows(d, T) /\ Effect(d)
    <2>1. PICK d : Grows(d, T) /\ Effect(d)
      BY <1>3
    <2>2. d.bookings = mem.bookings /\ d.spaces = mem.spaces /\ DOMAIN d = Tables
      BY <1>t, <2>1 DEF Grows
    <2>3. Base /\ next > Org /\ Below(mem) /\ next \in Nat
      BY DEF IdInv, Org, Base
    <2>4. next' \in Nat /\ next' >= next
      BY <2>1, <2>3, NextIdAbove DEF Effect
    <2>5. persistLocked(d).bookings = d.bookings /\ persistLocked(d).spaces = d.spaces
      BY <1>t, <2>2, PersistTables
    <2>6. ASSUME NEW x, NEW y, x.bookings = y.bookings, x.spaces = y.spaces, BookRows(y, next), Room(y, hist.moved)
          PROVE  BookRows(x, next') /\ Room(x, hist.moved)
      <3>1. \A b, M : Olders(x, b, M) = Olders(y, b, M)
        BY <2>6 DEF Olders, Overlapping, Rows
      <3>2. BookRows(x, next) /\ Room(x, hist.moved)
        BY <2>6, <3>1 DEF BookRows, Room, Fits
      <3> QED
        BY <2>3, <2>4, <3>2, RowsAbove
    <2>7. /\ mem'.bookings = mem.bookings /\ mem'.spaces = mem.spaces
          /\ \/ stored'.bookings = mem.bookings /\ stored'.spaces = mem.spaces
             \/ stored' = stored
      BY <2>1, <2>2, <2>5 DEF Effect
    <2>8. BookRows(mem', next') /\ Room(mem', hist.moved)
      BY <2>6, <2>7 DEF BookInv
    <2>9. BookRows(stored', next') /\ Room(stored', hist.moved)
      BY <2>6, <2>7 DEF BookInv
    <2> QED
      BY <1>1, <2>8, <2>9 DEF BookInv
  <1> QED
    BY <1>2, <1>3 DEF Shape

LEMMA CrashRoom == ASSUME IdInv, BookInv, Crash PROVE BookInv'
  <1>t. "bookings" \in KeptWhenEmpty \cup Volatile /\ "spaces" \in KeptWhenEmpty \cup Volatile
    BY DEF KeptWhenEmpty
  <1>1. NewService.bookings = None /\ NewService.spaces = None
    BY DEF NewService, Tables, SpaceTables
  <1>2. mem' = restoreFromStateStore(stored) /\ stored' = stored /\ hist' = hist /\ next' = next
    BY DEF Crash
  <1> DEFINE e == restoreFromStateStore(stored)
  <1>3. /\ DOMAIN e.bookings = DOMAIN stored.bookings /\ \A b \in DOMAIN stored.bookings : e.bookings[b] = stored.bookings[b]
        /\ DOMAIN e.spaces = DOMAIN stored.spaces /\ \A s \in DOMAIN stored.spaces : e.spaces[s] = stored.spaces[s]
    <2>1. DOMAIN stored = Tables
      BY DEF IdInv
    <2>2. \A t \in KeptWhenEmpty \cup Volatile : e[t] = stored[t] \/ (DOMAIN stored[t] = {} /\ e[t] = NewService[t])
      BY <2>1, RestoreTables
    <2> HIDE DEF e
    <2> QED
      BY <1>t, <1>1, <2>2, NoRows
  <1> HIDE DEF e
  <1>4. BookRows(e, next)
    BY <1>3 DEF BookInv, BookRows
  <1>5. \A b \in DOMAIN e.bookings : \A M : Olders(e, b, M) = Olders(stored, b, M)
    BY <1>3 DEF Olders, Overlapping, Rows
  <1>6. Room(e, hist.moved)
    BY <1>3, <1>5 DEF BookInv, Room, Fits
  <1> QED
    BY <1>2, <1>4, <1>6 DEF BookInv, e

LEMMA InitRoom == ASSUME Init PROVE BookInv
  <1>1. mem = SetUp(family) /\ stored = persistLocked(mem) /\ next = 20 /\ hist.moved = {}
    BY DEF Init, NoHistory
  <1>t. /\ "bookings" \in Tables \ {"spaces", "clients"} /\ "bookings" \in Tables \ Volatile
        /\ "spaces" \in Tables \ Volatile /\ "spaces" \in Tables \ {"clients"} /\ "clients" \in Tables
    BY DEF Tables, Volatile
  <1>2. DOMAIN NewService = Tables /\ NewService.bookings = None /\ NewService.spaces = None
    BY SeedRows DEF NewService, Tables, SpaceTables
  <1>3. mem.bookings = None /\ DOMAIN mem = Tables
    BY <1>1, <1>2, <1>t, SetUpRows
  <1>4. \A s \in DOMAIN mem.spaces : SpaceRow(mem.spaces[s])
    <2>1. CASE family = "bookings"
      <3> DEFINE row == [mode |-> "limited_capacity", cap |-> 1, occ |-> 0]
      <3>1. SpaceRow(row)
        BY DEF SpaceRow, Modes
      <3>2. mem = Put(NewService, "spaces", 10, row)
        BY <1>1, <2>1 DEF SetUp, CreateBookableSpace
      <3> HIDE DEF row
      <3>3. DOMAIN mem.spaces = {10} \cup DOMAIN NewService.spaces /\ mem.spaces[10] = row
        BY <1>2, <1>t, <3>2, PutTables
      <3> QED
        BY <1>2, <3>1, <3>3, NoRows
    <2>2. CASE family # "bookings"
      <3>1. mem.spaces = None
        <4>1. CASE family = "oauth2"
          <5>1. PICK row : mem = Put(NewService, "clients", 10, row)
            BY <1>1, <4>1 DEF SetUp, CreateOAuth2Client
          <5> QED
            BY <1>2, <1>t, <5>1, PutTables
        <4>2. CASE family # "oauth2"
          BY <1>1, <1>2, <2>2, <4>2 DEF SetUp
        <4> QED
          BY <4>1, <4>2
      <3> QED
        BY <3>1, NoRows
    <2> QED
      BY <2>1, <2>2
  <1>5. stored.bookings = mem.bookings /\ stored.spaces = mem.spaces
    BY <1>1, <1>3, <1>t, PersistTables
  <1> QED
    BY <1>1, <1>3, <1>4, <1>5, NoRows DEF BookInv, BookRows, Room

LEMMA NextKeepsRoom == ASSUME IdInv, BookInv, [Next]_vars PROVE BookInv'
  <1>b. Base
    BY DEF IdInv
  <1>1. CASE UNCHANGED vars
    BY <1>1 DEF vars, BookInv
  <1>2. /\ VisitTables \in SUBSET Tables /\ OAuth2Tables \in SUBSET Tables /\ ShareTables \in SUBSET Tables
        /\ PremiseTables \in SUBSET Tables /\ SpaceTables \in SUBSET Tables /\ PeopleTables \in SUBSET Tables
    BY DEF VisitTables, OAuth2Tables, ShareTables, PremiseTables, Volatile, Moving, SpaceTables, PeopleTables, Tables
  <1>3. /\ VisitTables \cap BookingTables = {} /\ OAuth2Tables \cap BookingTables = {} /\ ShareTables \cap BookingTables = {}
        /\ PremiseTables \cap BookingTables = {} /\ SpaceTables \cap BookingTables = {} /\ PeopleTables \cap BookingTables = {}
    BY DEF VisitTables, OAuth2Tables, ShareTables, PremiseTables, Volatile, Moving, SpaceTables, PeopleTables, BookingTables
  <1>4. "moved" \notin {"named"} /\ "moved" \notin {"raced"} /\ "moved" \notin PeopleFields /\ "moved" \notin RowFields
    BY DEF PeopleFields, RowFields
  <1>5. CASE Next
    <2>1. CASE Shape(VisitTables, {}) \/ Shape(OAuth2Tables, {}) \/ Shape(ShareTables, {})
      BY <1>2, <1>3, <2>1, ElsewhereRoom
    <2>2. CASE Shape(PremiseTables, {"named"}) \/ Shape(SpaceTables, {"raced"})
      BY <1>2, <1>3, <1>4, <2>2, ElsewhereRoom
    <2>3. CASE Shape(PeopleTables, PeopleFields) \/ Shape(PeopleTables, RowFields)
      BY <1>2, <1>3, <1>4, <2>3, ElsewhereRoom
    <2> QED
      BY <1>b, <1>5, <2>1, <2>2, <2>3, NextShape, CrashRoom, BookingsRoom
  <1> QED
    BY <1>1, <1>5

(***************************************************************************)
(* NoDoubleBooking is an invariant of every instance: a booking is written *)
(* only where CreateBooking found a place, a later request that is not     *)
(* excepted takes no place, and a space is booked only after it exists.    *)
(***************************************************************************)
THEOREM BookingsFit == Spec => []NoDoubleBooking
  <1>1. BookInv => NoDoubleBooking
    BY RoomIsIt
  <1> QED
    BY <1>1, InitIds, NextKeepsIds, InitRoom, NextKeepsRoom, PTL DEF Spec

(* ------------------------------- grants -------------------------------- *)

\* A number that is or was the id of a row of table t, and of no other table.
Only(i, t) ==
    /\ i \in Nat /\ i < next /\ i # Org
    /\ \A s \in Tables \ {t} : i \notin DOMAIN mem[s] /\ i \notin DOMAIN stored[s] /\ i \notin DOMAIN NewService[s]

\* A row of table t of the tables d, or an id of N: one that was named when it was not there.
Existing(d, N, i, t) == i \in DOMAIN d[t] \/ i \in N

\* An assignee or a member is one of these, unless it is a guest.
Assignees(kind) == IF kind = User THEN "users" ELSE "teams"
Present(d, N, kind, who) == kind = Guest \/ Existing(d, N, who, Assignees(kind))

UserOk(d, N, row) == "groups" \in DOMAIN row /\ \A g \in row.groups : Existing(d, N, g, "groups")
GroupOk(d, N, row) == \A u \in row.members : Existing(d, N, u, "users")
RightOk(d, N, row) ==
    /\ DOMAIN row = {"kind", "who", "to", "reviewed"}
    /\ row.kind \in {User, Team, Guest} /\ Present(d, N, row.kind, row.who)
    /\ row.to = Place \/ Existing(d, N, row.to, "groups")
MemberOk(d, N, row) ==
    /\ Existing(d, N, row.team, "teams")
    /\ row.kind \in {User, Guest} /\ Present(d, N, row.kind, row.who)
LinkOk(d, N, row) == Existing(d, N, row.group, "groups")

\* The rows of table t that name others name rows that exist, each in the table where it belongs.
RowOk(d, N, t, row) ==
    /\ t = "users" => UserOk(d, N, row)
    /\ t = "groups" => GroupOk(d, N, row)
    /\ t = "rights" => RightOk(d, N, row)
    /\ t = "members" => MemberOk(d, N, row)
    /\ t = "links" => LinkOk(d, N, row)

Naming == {"users", "groups", "rights", "members", "links"}
Named == {"users", "groups", "teams"}
Excepted(t) == IF t \in KeptWhenEmpty THEN Seeds ELSE {}

Closed(d, N) == \A t \in Naming : \A i \in DOMAIN d[t] \ Excepted(t) : RowOk(d, N, t, d[t][i])

\* The inductive invariant: the ids of users, groups and teams, the demonstration rows among
\* them, are of one table only.
Rooted(i, t) == i \in DOMAIN mem[t] \/ i \in DOMAIN stored[t] \/ i \in DOMAIN NewService[t]
Home == \A t \in Named : \A i : Rooted(i, t) => Only(i, t)
GrantInv == Home /\ Closed(mem, hist.named) /\ Closed(stored, hist.named)

LEMMA GrantTables ==
    /\ Naming \subseteq Tables \ Volatile /\ Named \subseteq Tables \ Volatile
    /\ Naming \subseteq Tables /\ Named \subseteq Tables
    /\ "users" \in Naming /\ "groups" \in Naming /\ "rights" \in Naming /\ "members" \in Naming /\ "links" \in Naming
    /\ "users" \in Named /\ "groups" \in Named /\ "teams" \in Named
    BY DEF Naming, Named, Tables, Volatile

LEMMA ClosedIsIt == ASSUME GrantInv PROVE NoDanglingGrant
  <1> SUFFICES ASSUME NEW d \in Images PROVE Referred(d) \subseteq Ids(d) \cup hist.named \cup {Place}
    BY DEF NoDanglingGrant
  <1>1. Closed(d, hist.named)
    BY DEF GrantInv, Images
  <1> DEFINE A == Ids(d) \cup hist.named \cup {Place}
  <1>2. \A i, t : t \in Named /\ Existing(d, hist.named, i, t) => i \in A
    BY IdsOf, GrantTables DEF Existing
  <1> HIDE DEF A
  <1>x. Excepted("users") = {} /\ Excepted("groups") = {} /\ Excepted("rights") = Seeds /\ Excepted("members") = Seeds
        /\ Excepted("links") = Seeds
    BY DEF Excepted, KeptWhenEmpty
  <1>3. \A g \in DOMAIN d.groups : d.groups[g].members \subseteq A
    BY <1>1, <1>2, <1>x, GrantTables DEF Closed, RowOk, GroupOk
  <1>4. \A u \in DOMAIN d.users : d.users[u].groups \subseteq A
    BY <1>1, <1>2, <1>x, GrantTables DEF Closed, RowOk, UserOk
  <1>l. \A row : Present(d, hist.named, row.kind, row.who) => Lasting(row) \subseteq A
    <2>1. \A k : Assignees(k) \in Named
      BY GrantTables DEF Assignees
    <2> QED
      BY <1>2, <2>1 DEF Present, Lasting
  <1>5. \A r \in DOMAIN d.rights \ Seeds : Lasting(d.rights[r]) \subseteq A /\ d.rights[r].to \in A
    <2>1. Place \in A
      BY DEF A
    <2> QED
      BY <1>1, <1>2, <1>l, <1>x, <2>1, GrantTables DEF Closed, RowOk, RightOk
  <1>6. \A m \in DOMAIN d.members \ Seeds : d.members[m].team \in A /\ Lasting(d.members[m]) \subseteq A
    BY <1>1, <1>2, <1>l, <1>x, GrantTables DEF Closed, RowOk, MemberOk
  <1>7. \A l \in DOMAIN d.links \ Seeds : d.links[l].group \in A
    BY <1>1, <1>2, <1>x, GrantTables DEF Closed, RowOk, LinkOk
  <1>8. Referred(d) \subseteq A
    BY <1>3, <1>4, <1>5, <1>6, <1>7 DEF Referred
  <1> QED
    BY <1>8 DEF A

\* An id of one table stays one: what a request adds is new, or the settings.
LEMMA OnlyKept ==
    ASSUME IdInv, NEW T, NEW d, Grows(d, T), mem' \in {mem, d}, stored' \in {stored, persistLocked(d)}, next' = NextId(d)
    PROVE  \A i, t : Only(i, t) => Only(i, t)'
  <1> SUFFICES ASSUME NEW i, NEW t, Only(i, t) PROVE Only(i, t)'
    OBVIOUS
  <1>1. Base /\ next > Org /\ Below(mem) /\ next \in Nat
    BY DEF IdInv, Org, Base
  <1>2. next' \in Nat /\ next' >= next
    BY <1>1, NextIdAbove
  <1>3. /\ DOMAIN d = Tables /\ DOMAIN d.org \subseteq {Org}
        /\ \A s \in Tables \ {"org"} : DOMAIN d[s] \subseteq DOMAIN mem[s] \cup {next, next + 1}
    BY <1>1, GrowsIds
  <1>4. i \in Nat /\ i < next /\ i # Org
    BY DEF Only
  <1>5. \A s \in Tables \ {t} : i \notin DOMAIN d[s]
    BY <1>1, <1>3, <1>4 DEF Only
  <1>6. \A s \in Tables \ {t} : i \notin DOMAIN persistLocked(d)[s]
    BY <1>3, <1>5, PersistTables, NoRows
  <1>7. i < next'
    BY <1>1, <1>2, <1>4
  <1>8. ASSUME NEW s \in Tables \ {t}
        PROVE  i \notin DOMAIN mem'[s] /\ i \notin DOMAIN stored'[s] /\ i \notin DOMAIN NewService[s]
    BY <1>5, <1>6 DEF Only
  <1> QED
    BY <1>4, <1>7, <1>8 DEF Only

\* Only one table grows.
Single(d) == \E t \in Tables : \A s \in Tables \ {t} : \A i \in DOMAIN d[s] : i \in DOMAIN mem[s] \/ i = Org

\* A new row of such a table has an id of its own.
LEMMA OnlyNew ==
    ASSUME IdInv, NEW T, NEW d, Grows(d, T), mem' \in {mem, d}, stored' \in {stored, persistLocked(d)}, next' = NextId(d),
           Single(d), NEW t \in Named, NEW i \in DOMAIN d[t], i \notin DOMAIN mem[t]
    PROVE  Only(i, t)'
  <1>1. Base /\ next > Org /\ Below(mem) /\ Below(stored) /\ next \in Nat /\ next > 19 /\ Org = 9
    BY DEF IdInv, Org, Base
  <1>2. next' \in Nat /\ next' >= next /\ \A j \in Ids(d) : j < next'
    BY <1>1, NextIdAbove
  <1>3. /\ DOMAIN d = Tables /\ DOMAIN d.org \subseteq {Org}
        /\ \A s \in Tables \ {"org"} : DOMAIN d[s] \subseteq DOMAIN mem[s] \cup {next, next + 1}
    BY <1>1, GrowsIds
  <1>4. t \in Tables /\ t # "org"
    BY DEF Named, Tables
  <1>5. i \in {next, next + 1} /\ i \in Nat /\ i # Org /\ i > 19 /\ i >= next
    BY <1>1, <1>3, <1>4
  <1>6. i < next'
    BY <1>2, <1>4, IdsOf
  <1>7. \A s \in Tables : i \notin DOMAIN mem[s] /\ i \notin DOMAIN stored[s]
    <2>1. i \notin Ids(mem) /\ i \notin Ids(stored)
      BY <1>1, <1>5 DEF Below
    <2> QED
      BY <2>1, IdsOf
  <1>8. \A s \in Tables : i \notin DOMAIN NewService[s]
    BY <1>5, SeedRows
  <1>9. \A s \in Tables \ {t} : i \notin DOMAIN d[s]
    BY <1>4, <1>5, <1>7 DEF Single
  <1>10. \A s \in Tables \ {t} : i \notin DOMAIN persistLocked(d)[s]
    BY <1>3, <1>9, PersistTables, NoRows
  <1>11. ASSUME NEW s \in Tables \ {t}
         PROVE  i \notin DOMAIN mem'[s] /\ i \notin DOMAIN stored'[s] /\ i \notin DOMAIN NewService[s]
    BY <1>7, <1>8, <1>9, <1>10
  <1> QED
    BY <1>5, <1>6, <1>11 DEF Only

LEMMA HomeKept ==
    ASSUME IdInv, Home, NEW T, NEW d, Grows(d, T), mem' \in {mem, d}, stored' \in {stored, persistLocked(d)},
           next' = NextId(d), Single(d)
    PROVE  Home'
  <1> SUFFICES ASSUME NEW t \in Named, NEW i, Rooted(i, t)' PROVE Only(i, t)'
    BY DEF Home
  <1>1. DOMAIN d = Tables /\ t \in Tables
    BY GrantTables DEF Grows
  <1>2. i \in DOMAIN persistLocked(d)[t] => i \in DOMAIN d[t]
    BY <1>1, PersistTables, NoRows
  <1>3. Rooted(i, t) \/ i \in DOMAIN d[t]
    BY <1>2 DEF Rooted
  <1>4. CASE Rooted(i, t)
    BY <1>4, OnlyKept DEF Home
  <1>5. CASE i \in DOMAIN d[t] /\ i \notin DOMAIN mem[t]
    BY <1>5, OnlyNew
  <1> QED
    BY <1>3, <1>4, <1>5 DEF Rooted

\* What a row names goes on existing when the named tables and N only grow ...
LEMMA RowMore ==
    ASSUME NEW d, NEW e, NEW N, NEW M, N \subseteq M, \A t \in Named : DOMAIN d[t] \subseteq DOMAIN e[t]
    PROVE  \A t, row : RowOk(d, N, t, row) => RowOk(e, M, t, row)
  <1>1. \A t \in Named : \A i : Existing(d, N, i, t) => Existing(e, M, i, t)
    BY DEF Existing
  <1>2. \A k : Assignees(k) \in Named
    BY GrantTables DEF Assignees
  <1>3. \A row : UserOk(d, N, row) => UserOk(e, M, row)
    BY <1>1, GrantTables DEF UserOk
  <1>4. \A row : GroupOk(d, N, row) => GroupOk(e, M, row)
    BY <1>1, GrantTables DEF GroupOk
  <1>5. \A row : RightOk(d, N, row) => RightOk(e, M, row)
    BY <1>1, <1>2, GrantTables DEF RightOk, Present
  <1>6. \A row : MemberOk(d, N, row) => MemberOk(e, M, row)
    BY <1>1, <1>2, GrantTables DEF MemberOk, Present
  <1>7. \A row : LinkOk(d, N, row) => LinkOk(e, M, row)
    BY <1>1, GrantTables DEF LinkOk
  <1> QED
    BY <1>3, <1>4, <1>5, <1>6, <1>7 DEF RowOk

\* ... so tables that keep their rows, or get rows that name what exists, stay closed.
LEMMA ClosedFrom ==
    ASSUME NEW d, NEW N, Closed(d, N), NEW e, NEW M, N \subseteq M, \A t \in Named : DOMAIN d[t] \subseteq DOMAIN e[t],
           \A t \in Naming : \A i \in DOMAIN e[t] \ Excepted(t) :
               (i \in DOMAIN d[t] /\ e[t][i] = d[t][i]) \/ RowOk(d, M, t, e[t][i])
    PROVE  Closed(e, M)
  <1> SUFFICES ASSUME NEW t \in Naming, NEW i \in DOMAIN e[t] \ Excepted(t) PROVE RowOk(e, M, t, e[t][i])
    BY DEF Closed
  <1>1. CASE i \in DOMAIN d[t] /\ e[t][i] = d[t][i]
    <2>1. RowOk(d, N, t, e[t][i])
      BY <1>1 DEF Closed
    <2> QED
      BY <2>1, RowMore
  <1>2. CASE RowOk(d, M, t, e[t][i])
    BY <1>2, RowMore
  <1> QED
    BY <1>1, <1>2

LEMMA ClosedMore == ASSUME NEW d, NEW N, Closed(d, N), NEW M, N \subseteq M PROVE Closed(d, M)
    BY ClosedFrom

LEMMA ClosedSame ==
    ASSUME NEW d, NEW N, Closed(d, N), NEW e, \A t \in Naming \cup Named : e[t] = d[t]
    PROVE  Closed(e, N)
    BY ClosedFrom

LEMMA ClosedStored == ASSUME NEW d, DOMAIN d = Tables, NEW N, Closed(d, N) PROVE Closed(persistLocked(d), N)
    BY ClosedSame, PersistTables, GrantTables

\* Save, whatever becomes of it, keeps the images closed when the tables it is given are.
LEMMA SaveGrants ==
    ASSUME IdInv, GrantInv, NEW T, NEW d, Grows(d, T), Single(d), NEW undo \in BOOLEAN, NEW h, DOMAIN h = HistFields,
           hist.named \subseteq h.named, Closed(d, h.named), NEW cost, Save(d, undo, h, cost)
    PROVE  GrantInv' /\ hist.named \subseteq hist'.named
  <1>0. DOMAIN d = Tables
    BY DEF Grows
  <1>1. PICK f \in 0..1 : next' = NextId(d) /\ IF f = 0 THEN Saved(d, h) ELSE NotSaved(d, undo, h)
    BY DEF Save
  <1>g. Home /\ Closed(mem, hist.named) /\ Closed(stored, hist.named)
    BY DEF GrantInv
  <1>2. mem' \in {mem, d} /\ stored' \in {stored, persistLocked(d)}
    BY <1>1 DEF Saved, NotSaved
  <1>3. Home'
    BY <1>g, <1>1, <1>2, HomeKept
  <1>4. CASE Saved(d, h)
    <2>1. mem' = d /\ stored' = persistLocked(d) /\ hist'.named = h.named
      BY <1>4 DEF Saved, HistFields
    <2>2. Closed(persistLocked(d), h.named)
      BY <1>0, ClosedStored
    <2> QED
      BY <1>3, <2>1, <2>2 DEF GrantInv
  <1>5. CASE NotSaved(d, undo, h)
    <2>1. CASE undo = TRUE
      <3>1. mem' = mem /\ stored' = stored /\ hist' = hist
        BY <1>5, <2>1 DEF NotSaved
      <3> QED
        BY <1>3, <1>g, <3>1 DEF GrantInv
    <2>2. CASE undo = FALSE
      <3>1. mem' = d /\ stored' = stored /\ hist'.named = h.named
        BY <1>5, <2>2 DEF NotSaved, HistFields
      <3>2. Closed(stored, h.named)
        BY <1>g, ClosedMore
      <3> QED
        BY <1>3, <3>1, <3>2 DEF GrantInv
    <2> QED
      BY <2>1, <2>2
  <1> QED
    BY <1>1, <1>4, <1>5

\* The tables a request may save: one of them grows at most, and what their rows name exists or is in N.
Sound(d, N) == Grows(d, PeopleTables) /\ Single(d) /\ Closed(d, N)

LEMMA SingleTable ==
    ASSUME NEW d, NEW t \in Tables, \A s \in Tables \ {t} : DOMAIN d[s] \subseteq DOMAIN mem[s]
    PROVE  Single(d)
    BY DEF Single

LEMMA SoundPut ==
    ASSUME Base, Closed(mem, hist.named), NEW t \in PeopleTables, NEW id, id = next \/ id \in DOMAIN mem[t], NEW row,
           NEW N, hist.named \subseteq N, RowOk(mem, N, t, row) \/ id \in Excepted(t)
    PROVE  Sound(Put(mem, t, id, row), N)
  <1> DEFINE d == Put(mem, t, id, row)
  <1>1. t \in Tables /\ DOMAIN mem = Tables /\ t # "org"
    BY PeopleNames DEF Base
  <1>2. Grows(d, PeopleTables)
    BY <1>1, PeopleNames, GrowsPut, NextFresh
  <1>3. /\ \A s \in Tables \ {t} : d[s] = mem[s]
        /\ DOMAIN d[t] = {id} \cup DOMAIN mem[t] /\ d[t][id] = row
        /\ \A i \in DOMAIN mem[t] \ {id} : d[t][i] = mem[t][i]
    BY <1>1, PutTables
  <1> HIDE DEF d
  <1>4. Single(d)
    BY <1>1, <1>3, SingleTable
  <1>5. \A s \in Named : DOMAIN mem[s] \subseteq DOMAIN d[s]
    BY <1>3, GrantTables
  <1>6. ASSUME NEW s \in Naming, NEW i \in DOMAIN d[s] \ Excepted(s)
        PROVE  (i \in DOMAIN mem[s] /\ d[s][i] = mem[s][i]) \/ RowOk(mem, N, s, d[s][i])
    <2>1. CASE s # t
      BY <1>3, <2>1, GrantTables
    <2>2. CASE s = t /\ i = id
      BY <1>3, <1>6, <2>2
    <2>3. CASE s = t /\ i # id
      BY <1>3, <2>3
    <2> QED
      BY <2>1, <2>2, <2>3
  <1>7. Closed(d, N)
    BY <1>5, <1>6, ClosedFrom
  <1> QED
    BY <1>2, <1>4, <1>7 DEF Sound, d

LEMMA SoundDrop ==
    ASSUME Base, Closed(mem, hist.named), NEW t \in PeopleTables \ Named, NEW S
    PROVE  Sound(Drop(mem, t, S), hist.named)
  <1> DEFINE d == Drop(mem, t, S)
  <1>1. t \in Tables /\ DOMAIN mem = Tables /\ t # "org"
    BY PeopleNames DEF Base
  <1>2. Grows(d, PeopleTables)
    BY <1>1, PeopleNames, GrowsDrop
  <1>3. /\ \A s \in Tables \ {t} : d[s] = mem[s]
        /\ DOMAIN d[t] = DOMAIN mem[t] \ S
        /\ \A i \in DOMAIN mem[t] \ S : d[t][i] = mem[t][i]
    BY <1>1, DropTables
  <1> HIDE DEF d
  <1>4. Single(d)
    BY <1>1, <1>3, SingleTable
  <1>5. \A s \in Named : DOMAIN mem[s] \subseteq DOMAIN d[s]
    BY <1>3, GrantTables
  <1>6. \A s \in Naming : \A i \in DOMAIN d[s] : i \in DOMAIN mem[s] /\ d[s][i] = mem[s][i]
    BY <1>3, GrantTables
  <1>7. Closed(d, hist.named)
    BY <1>5, <1>6, ClosedFrom
  <1> QED
    BY <1>2, <1>4, <1>7 DEF Sound, d

LEMMA SoundNot == ASSUME Base, Closed(mem, hist.named) PROVE Sound(mem, hist.named)
    BY PeopleNames, GrowsNot DEF Sound, Single

With(d, t, f) == [d EXCEPT ![t] = f]

\* One table rewritten, without the loss of a row.
LEMMA SoundTable ==
    ASSUME Base, Closed(mem, hist.named), NEW t \in PeopleTables, NEW f, DOMAIN mem[t] \subseteq DOMAIN f,
           DOMAIN f \subseteq DOMAIN mem[t] \cup {next, next + 1}, NEW N, hist.named \subseteq N,
           \A i \in DOMAIN f \ Excepted(t) : (i \in DOMAIN mem[t] /\ f[i] = mem[t][i]) \/ RowOk(mem, N, t, f[i])
    PROVE  Sound(With(mem, t, f), N)
  <1> DEFINE d == With(mem, t, f)
  <1>1. t \in Tables /\ DOMAIN mem = Tables /\ t # "org"
    BY PeopleNames DEF Base
  <1>2. Grows(d, PeopleTables)
    BY GrowsTable DEF With
  <1>3. d[t] = f /\ \A s \in Tables \ {t} : d[s] = mem[s]
    BY <1>1 DEF With
  <1> HIDE DEF d
  <1>4. Single(d)
    BY <1>1, <1>3, SingleTable
  <1>5. \A s \in Named : DOMAIN mem[s] \subseteq DOMAIN d[s]
    BY <1>3, GrantTables
  <1>6. ASSUME NEW s \in Naming, NEW i \in DOMAIN d[s] \ Excepted(s)
        PROVE  (i \in DOMAIN mem[s] /\ d[s][i] = mem[s][i]) \/ RowOk(mem, N, s, d[s][i])
    <2>1. CASE s # t
      BY <1>3, <2>1, GrantTables
    <2>2. CASE s = t
      BY <1>3, <2>2
    <2> QED
      BY <2>1, <2>2
  <1>7. Closed(d, N)
    BY <1>5, <1>6, ClosedFrom
  <1> QED
    BY <1>2, <1>4, <1>7 DEF Sound, d

LEMMA Exceptions ==
    /\ Excepted("users") = {} /\ Excepted("groups") = {}
    /\ Excepted("rights") = Seeds /\ Excepted("members") = Seeds /\ Excepted("links") = Seeds
    BY DEF Excepted, KeptWhenEmpty

\* The rows of the tables in memory, for the operations that remove what is named.
LEMMA ClosedRows ==
    ASSUME NEW d, NEW N
    PROVE  Closed(d, N) <=>
           /\ \A i \in DOMAIN d.users : UserOk(d, N, d.users[i])
           /\ \A i \in DOMAIN d.groups : GroupOk(d, N, d.groups[i])
           /\ \A i \in DOMAIN d.rights \ Seeds : RightOk(d, N, d.rights[i])
           /\ \A i \in DOMAIN d.members \ Seeds : MemberOk(d, N, d.members[i])
           /\ \A i \in DOMAIN d.links \ Seeds : LinkOk(d, N, d.links[i])
  <1>1. \A t \in Naming : t = "users" \/ t = "groups" \/ t = "rights" \/ t = "members" \/ t = "links"
    BY DEF Naming
  <1> QED
    BY <1>1, GrantTables, Exceptions DEF Closed, RowOk

\* DeleteUser and BatchDeleteUsers take with them what names the users.
LEMMA SoundRemoveUsers ==
    ASSUME Base, Closed(mem, hist.named), NEW U
    PROVE  Sound(RemoveUsers(mem, U), hist.named)
  <1> DEFINE d == RemoveUsers(mem, U)
  <1>m. DOMAIN mem = Tables
    BY DEF Base
  <1>1. Grows(d, PeopleTables)
    BY RemoveUsersGrows
  <1>2. /\ \A t \in Tables \ {"users", "rights", "members", "groups"} : d[t] = mem[t]
        /\ DOMAIN d.users = DOMAIN mem.users \ U
        /\ \A u \in DOMAIN mem.users \ U : d.users[u] = mem.users[u]
        /\ DOMAIN d.rights = DOMAIN mem.rights \ RightsOf(mem, U)
        /\ \A x \in DOMAIN mem.rights \ RightsOf(mem, U) : d.rights[x] = mem.rights[x]
        /\ DOMAIN d.members = DOMAIN mem.members \ MembershipsOf(mem, U)
        /\ \A x \in DOMAIN mem.members \ MembershipsOf(mem, U) : d.members[x] = mem.members[x]
        /\ DOMAIN d.groups = DOMAIN mem.groups
        /\ \A g \in DOMAIN mem.groups : d.groups[g].members = mem.groups[g].members \ U
    BY <1>m, RemoveUsersTables
  <1> HIDE DEF d
  <1>3. d.teams = mem.teams /\ d.links = mem.links
    BY <1>2 DEF Tables
  <1>t. "users" \in Tables /\ "rights" \in Tables /\ "members" \in Tables /\ "groups" \in Tables
    BY DEF Tables
  <1>4. Single(d)
    <2>1. \A s \in Tables : DOMAIN d[s] \subseteq DOMAIN mem[s]
      BY <1>2
    <2> QED
      BY <1>t, <2>1, SingleTable
  <1> DEFINE N == hist.named
  <1>c. /\ \A i \in DOMAIN mem.users : UserOk(mem, N, mem.users[i])
        /\ \A i \in DOMAIN mem.groups : GroupOk(mem, N, mem.groups[i])
        /\ \A i \in DOMAIN mem.rights \ Seeds : RightOk(mem, N, mem.rights[i])
        /\ \A i \in DOMAIN mem.members \ Seeds : MemberOk(mem, N, mem.members[i])
        /\ \A i \in DOMAIN mem.links \ Seeds : LinkOk(mem, N, mem.links[i])
    BY ClosedRows
  <1> HIDE DEF N
  <1>e. /\ \A i : Existing(mem, N, i, "groups") => Existing(d, N, i, "groups")
        /\ \A i : Existing(mem, N, i, "teams") => Existing(d, N, i, "teams")
        /\ \A i : Existing(mem, N, i, "users") /\ i \notin U => Existing(d, N, i, "users")
    BY <1>2, <1>3 DEF Existing
  <1>5. \A i \in DOMAIN d.users : UserOk(d, N, d.users[i])
    BY <1>2, <1>c, <1>e DEF UserOk
  <1>6. \A i \in DOMAIN d.groups : GroupOk(d, N, d.groups[i])
    BY <1>2, <1>c, <1>e DEF GroupOk
  <1>7. \A i \in DOMAIN d.rights \ Seeds : RightOk(d, N, d.rights[i])
    BY <1>2, <1>c, <1>e DEF RightOk, RightsOf, Assignees, Present, User, Team, Guest
  <1>8. \A i \in DOMAIN d.members \ Seeds : MemberOk(d, N, d.members[i])
    BY <1>2, <1>c, <1>e DEF MemberOk, MembershipsOf, Assignees, Present, User, Guest
  <1>9. \A i \in DOMAIN d.links \ Seeds : LinkOk(d, N, d.links[i])
    BY <1>3, <1>c, <1>e DEF LinkOk
  <1>10. Closed(d, N)
    BY <1>5, <1>6, <1>7, <1>8, <1>9, ClosedRows
  <1> QED
    BY <1>1, <1>4, <1>10 DEF Sound, d, N

\* DeleteUserGroup takes its rights and links and leaves no user in the group.
LEMMA SoundDeleteGroup ==
    ASSUME Base, Closed(mem, hist.named), NEW g
    PROVE  Sound(DeleteUserGroup(mem, g), hist.named)
  <1> DEFINE d == DeleteUserGroup(mem, g)
  <1>m. DOMAIN mem = Tables
    BY DEF Base
  <1>1. Grows(d, PeopleTables)
    BY DirectoryGrows
  <1>2. /\ \A t \in Tables \ {"groups", "rights", "links", "users"} : d[t] = mem[t]
        /\ DOMAIN d.groups = DOMAIN mem.groups \ {g}
        /\ \A x \in DOMAIN mem.groups \ {g} : d.groups[x] = mem.groups[x]
        /\ DOMAIN d.rights = {x \in DOMAIN mem.rights : mem.rights[x].to # g}
        /\ \A x \in DOMAIN mem.rights : mem.rights[x].to # g => d.rights[x] = mem.rights[x]
        /\ DOMAIN d.links = {x \in DOMAIN mem.links : mem.links[x].group # g}
        /\ \A x \in DOMAIN mem.links : mem.links[x].group # g => d.links[x] = mem.links[x]
        /\ DOMAIN d.users = DOMAIN mem.users
        /\ \A u \in DOMAIN mem.users : d.users[u] = Leave(mem.users[u], g)
    BY <1>m, DeleteGroupTables
  <1> HIDE DEF d
  <1>3. d.teams = mem.teams /\ d.members = mem.members
    BY <1>2 DEF Tables
  <1>t. "users" \in Tables /\ "rights" \in Tables /\ "links" \in Tables /\ "groups" \in Tables
    BY DEF Tables
  <1>4. Single(d)
    <2>1. \A s \in Tables : DOMAIN d[s] \subseteq DOMAIN mem[s]
      BY <1>2
    <2> QED
      BY <1>t, <2>1, SingleTable
  <1> DEFINE N == hist.named
  <1>c. /\ \A i \in DOMAIN mem.users : UserOk(mem, N, mem.users[i])
        /\ \A i \in DOMAIN mem.groups : GroupOk(mem, N, mem.groups[i])
        /\ \A i \in DOMAIN mem.rights \ Seeds : RightOk(mem, N, mem.rights[i])
        /\ \A i \in DOMAIN mem.members \ Seeds : MemberOk(mem, N, mem.members[i])
        /\ \A i \in DOMAIN mem.links \ Seeds : LinkOk(mem, N, mem.links[i])
    BY ClosedRows
  <1> HIDE DEF N
  <1>e. /\ \A i : Existing(mem, N, i, "groups") /\ i # g => Existing(d, N, i, "groups")
        /\ \A i : Existing(mem, N, i, "teams") => Existing(d, N, i, "teams")
        /\ \A i : Existing(mem, N, i, "users") => Existing(d, N, i, "users")
    BY <1>2, <1>3 DEF Existing
  <1>5. \A i \in DOMAIN d.users : UserOk(d, N, d.users[i])
    <2>1. \A row : "groups" \in DOMAIN row => "groups" \in DOMAIN Leave(row, g) /\ Leave(row, g).groups = row.groups \ {g}
      BY DEF Leave
    <2> QED
      BY <1>2, <1>c, <1>e, <2>1 DEF UserOk
  <1>6. \A i \in DOMAIN d.groups : GroupOk(d, N, d.groups[i])
    BY <1>2, <1>c, <1>e DEF GroupOk
  <1>7. \A i \in DOMAIN d.rights \ Seeds : RightOk(d, N, d.rights[i])
    BY <1>2, <1>c, <1>e DEF RightOk, Assignees, Present
  <1>8. \A i \in DOMAIN d.members \ Seeds : MemberOk(d, N, d.members[i])
    BY <1>3, <1>c, <1>e DEF MemberOk, Assignees, Present
  <1>9. \A i \in DOMAIN d.links \ Seeds : LinkOk(d, N, d.links[i])
    BY <1>2, <1>c, <1>e DEF LinkOk
  <1>10. Closed(d, N)
    BY <1>5, <1>6, <1>7, <1>8, <1>9, ClosedRows
  <1> QED
    BY <1>1, <1>4, <1>10 DEF Sound, d, N

\* DeleteTeam takes its memberships and its rights.
LEMMA SoundDeleteTeam ==
    ASSUME Base, Closed(mem, hist.named), NEW k
    PROVE  Sound(DeleteTeam(mem, k), hist.named)
  <1> DEFINE d == DeleteTeam(mem, k)
  <1>m. DOMAIN mem = Tables
    BY DEF Base
  <1>1. Grows(d, PeopleTables)
    BY DirectoryGrows
  <1>2. /\ \A t \in Tables \ {"teams", "members", "rights"} : d[t] = mem[t]
        /\ DOMAIN d.teams = DOMAIN mem.teams \ {k}
        /\ DOMAIN d.members = {x \in DOMAIN mem.members : mem.members[x].team # k}
        /\ \A x \in DOMAIN mem.members : mem.members[x].team # k => d.members[x] = mem.members[x]
        /\ DOMAIN d.rights = {x \in DOMAIN mem.rights : ~(mem.rights[x].kind = "Team" /\ mem.rights[x].who = k)}
        /\ \A x \in DOMAIN mem.rights :
               ~(mem.rights[x].kind = "Team" /\ mem.rights[x].who = k) => d.rights[x] = mem.rights[x]
    BY <1>m, DeleteTeamTables
  <1> HIDE DEF d
  <1>3. d.users = mem.users /\ d.groups = mem.groups /\ d.links = mem.links
    BY <1>2 DEF Tables
  <1>t. "teams" \in Tables /\ "rights" \in Tables /\ "members" \in Tables
    BY DEF Tables
  <1>4. Single(d)
    <2>1. \A s \in Tables : DOMAIN d[s] \subseteq DOMAIN mem[s]
      BY <1>2
    <2> QED
      BY <1>t, <2>1, SingleTable
  <1> DEFINE N == hist.named
  <1>c. /\ \A i \in DOMAIN mem.users : UserOk(mem, N, mem.users[i])
        /\ \A i \in DOMAIN mem.groups : GroupOk(mem, N, mem.groups[i])
        /\ \A i \in DOMAIN mem.rights \ Seeds : RightOk(mem, N, mem.rights[i])
        /\ \A i \in DOMAIN mem.members \ Seeds : MemberOk(mem, N, mem.members[i])
        /\ \A i \in DOMAIN mem.links \ Seeds : LinkOk(mem, N, mem.links[i])
    BY ClosedRows
  <1> HIDE DEF N
  <1>e. /\ \A i : Existing(mem, N, i, "groups") => Existing(d, N, i, "groups")
        /\ \A i : Existing(mem, N, i, "teams") /\ i # k => Existing(d, N, i, "teams")
        /\ \A i : Existing(mem, N, i, "users") => Existing(d, N, i, "users")
    BY <1>2, <1>3 DEF Existing
  <1>5. \A i \in DOMAIN d.users : UserOk(d, N, d.users[i])
    BY <1>3, <1>c, <1>e DEF UserOk
  <1>6. \A i \in DOMAIN d.groups : GroupOk(d, N, d.groups[i])
    BY <1>3, <1>c, <1>e DEF GroupOk
  <1>7. \A i \in DOMAIN d.rights \ Seeds : RightOk(d, N, d.rights[i])
    BY <1>2, <1>c, <1>e DEF RightOk, Assignees, Present, User, Team, Guest
  <1>8. \A i \in DOMAIN d.members \ Seeds : MemberOk(d, N, d.members[i])
    BY <1>2, <1>c, <1>e DEF MemberOk, Assignees, Present, User, Guest
  <1>9. \A i \in DOMAIN d.links \ Seeds : LinkOk(d, N, d.links[i])
    BY <1>3, <1>c, <1>e DEF LinkOk
  <1>10. Closed(d, N)
    BY <1>5, <1>6, <1>7, <1>8, <1>9, ClosedRows
  <1> QED
    BY <1>1, <1>4, <1>10 DEF Sound, d, N

(* ---- the requests: what a step shows of the images and of the names --- *)

Kept == GrantInv' /\ hist.named \subseteq hist'.named

LEMMA SoundSave ==
    ASSUME IdInv, GrantInv, NEW d, NEW undo \in BOOLEAN, NEW h, DOMAIN h = HistFields, hist.named \subseteq h.named,
           Sound(d, h.named), NEW cost, Save(d, undo, h, cost)
    PROVE  Kept
    BY SaveGrants DEF Sound, Kept

LEMMA SoundRequest ==
    ASSUME IdInv, GrantInv, NEW d, NEW undo \in BOOLEAN, NEW h, DOMAIN h = HistFields, hist.named \subseteq h.named,
           Sound(d, h.named), Request(d, undo, h)
    PROVE  Kept
    BY SoundSave DEF Request

LEMMA SoundFinish ==
    ASSUME IdInv, GrantInv, NEW guard, NEW d, NEW undo \in BOOLEAN, NEW h, DOMAIN h = HistFields, hist.named \subseteq h.named,
           guard => Sound(d, h.named), Finish(guard, d, undo, h)
    PROVE  Kept
  <1>1. CASE guard
    BY <1>1, SoundSave DEF Finish, GoOn
  <1>2. CASE ~guard
    <2>1. mem' = mem /\ stored' = stored /\ next' = next /\ hist' = hist
      BY <1>2 DEF Finish
    <2> QED
      BY <2>1 DEF Kept, GrantInv, Home, Only, Rooted
  <1> QED
    BY <1>1, <1>2

LEMMA TablesKept ==
    ASSUME GrantInv, mem' = mem, stored' = stored, next' = next, hist'.named = hist.named
    PROVE  Kept
    BY DEF Kept, GrantInv, Home, Only, Rooted

LEMMA BeginKept == ASSUME IdInv, GrantInv, NEW p, NEW U, Begin(p, U) PROVE Kept
    BY BeginFrame, TablesKept DEF IdInv, HistFields

\* What Names and Asks make of the names.
LEMMA NamesNamed ==
    ASSUME NEW h, DOMAIN h = HistFields
    PROVE  /\ \A S : DOMAIN Names(h, S) = HistFields /\ Names(h, S).named = h.named \cup (S \ Ids(mem))
           /\ \A U, st : DOMAIN Asks(h, U, st) = HistFields /\ Asks(h, U, st).named = h.named
    BY DEF Names, Asks, HistFields

\* An id a request holds: of one table, or named when it was not there.
Accounted(i, t) == i \in hist.named \/ Only(i, t)

\* Names makes it one that exists.
LEMMA AccountedExists ==
    ASSUME NEW t \in Tables, NEW N, hist.named \subseteq N, NEW i, Accounted(i, t), i \in Ids(mem) \/ i \in N
    PROVE  Existing(mem, N, i, t)
    BY IdsOf DEF Accounted, Only, Existing

\* What a row names is accounted for, and so are the rows of the named tables and of NewService.
LEMMA ExistingAccounted ==
    ASSUME GrantInv, NEW t \in Named, NEW i, Existing(mem, hist.named, i, t) \/ i \in Known(t)
    PROVE  Accounted(i, t)
    BY DEF Existing, Accounted, GrantInv, Home, Rooted, Known

(* ------------------------- users and invitations ----------------------- *)

LEMMA SoundCreateUser ==
    ASSUME Base, Closed(mem, hist.named), NEW e, NEW st, NEW gs, NEW N, hist.named \subseteq N,
           \A g \in gs : Existing(mem, N, g, "groups")
    PROVE  Sound(CreateUser(mem, next, e, st, gs), N)
  <1>1. PICK row : row = [st |-> st, email |-> e, ref |-> NoRef, groups |-> gs]
    OBVIOUS
  <1>2. UserOk(mem, N, row)
    BY <1>1 DEF UserOk
  <1>3. RowOk(mem, N, "users", row)
    BY <1>2 DEF RowOk
  <1>4. CreateUser(mem, next, e, st, gs) = Put(mem, "users", next, row)
    BY <1>1 DEF CreateUser
  <1> QED
    BY <1>3, <1>4, SoundPut, PeopleNames

LEMMA SoundUpdateUser ==
    ASSUME Base, Closed(mem, hist.named), NEW v \in DOMAIN mem.users, NEW e, NEW st, NEW gs, NEW N, hist.named \subseteq N,
           \A g \in gs : Existing(mem, N, g, "groups")
    PROVE  Sound(UpdateUser(mem, v, e, st, gs), N)
  <1>1. PICK row : row = [st |-> st, email |-> e, ref |-> mem.users[v].ref, groups |-> gs]
    OBVIOUS
  <1>2. UserOk(mem, N, row)
    BY <1>1 DEF UserOk
  <1>3. RowOk(mem, N, "users", row)
    BY <1>2 DEF RowOk
  <1>4. PICK f : f = [mem.users EXCEPT ![v] = row]
    OBVIOUS
  <1>5. UpdateUser(mem, v, e, st, gs) = With(mem, "users", f)
    BY <1>1, <1>4 DEF UpdateUser, With
  <1>6. DOMAIN f = DOMAIN mem.users /\ f[v] = row /\ \A i \in DOMAIN mem.users \ {v} : f[i] = mem.users[i]
    BY <1>4
  <1>7. \A i \in DOMAIN f : (i \in DOMAIN mem.users /\ f[i] = mem.users[i]) \/ RowOk(mem, N, "users", f[i])
    BY <1>3, <1>6
  <1> QED
    BY <1>5, <1>6, <1>7, SoundTable, PeopleNames

LEMMA SoundBatchStatus ==
    ASSUME Base, Closed(mem, hist.named), NEW U, NEW st
    PROVE  Sound(BatchUpdateUserStatus(mem, U, st), hist.named)
  <1> DEFINE C == Changed(mem, U, st)
             row(u) == [mem.users[u] EXCEPT !.st = st]
  <1>1. PICK f : f = [u \in DOMAIN mem.users |-> IF u \in C THEN row(u) ELSE mem.users[u]]
    OBVIOUS
  <1>2. BatchUpdateUserStatus(mem, U, st) = With(mem, "users", f)
    BY <1>1 DEF BatchUpdateUserStatus, With
  <1>3. ASSUME NEW u \in DOMAIN mem.users PROVE RowOk(mem, hist.named, "users", row(u))
    <2>1. UserOk(mem, hist.named, mem.users[u])
      BY ClosedRows
    <2>2. "groups" \in DOMAIN row(u) /\ row(u).groups = mem.users[u].groups
      BY <2>1 DEF UserOk
    <2> HIDE DEF row
    <2>3. UserOk(mem, hist.named, row(u))
      BY <2>1, <2>2 DEF UserOk
    <2> QED
      BY <2>3 DEF RowOk
  <1> HIDE DEF C, row
  <1>4. DOMAIN f = DOMAIN mem.users /\ \A u \in DOMAIN f : f[u] = mem.users[u] \/ f[u] = row(u)
    BY <1>1
  <1>5. \A i \in DOMAIN f : (i \in DOMAIN mem.users /\ f[i] = mem.users[i]) \/ RowOk(mem, hist.named, "users", f[i])
    BY <1>3, <1>4
  <1> QED
    BY <1>2, <1>4, <1>5, SoundTable, PeopleNames

\* A directory batch leaves a row as it is or takes its groups.
Blank(row) == "groups" \in DOMAIN row /\ row.groups = {}
Emptied(b, us) ==
    /\ \A u \in DOMAIN b.users : u \in DOMAIN us /\ (b.users[u] = us[u] \/ Blank(b.users[u]))
    /\ \A u \in DOMAIN b.made : Blank(b.made[u])

LEMMA UpsertItemEmptied ==
    ASSUME NEW us, \A u \in DOMAIN us : "groups" \in DOMAIN us[u],
           NEW b, DOMAIN b = BatchFields, Emptied(b, us), NEW item, NEW id
    PROVE  Emptied(UpsertItem(b, item, id), us)
  <1> DEFINE t == TargetOf(b, item)
             known(m, i) == IF item.ref = NoRef THEN m ELSE [m EXCEPT ![item.ref] = i]
             row == [st |-> item.st, email |-> item.email, ref |-> item.ref, groups |-> {}]
             c1 == [b EXCEPT !.made = Over(One(id, row), @),
                             !.madeByEmail[item.email] = id, !.madeByRef = known(@, id)]
             c2 == [b EXCEPT !.made[t.id] = Overwrite(@, item), !.madeByRef = known(@, t.id),
                             !.madeByEmail = Readdress(@, t.id, b.made[t.id].email, item.email)]
             c3 == [b EXCEPT !.users[t.id] = Overwrite(@, item), !.byRef = known(@, t.id), !.hit = @ \cup {t.id},
                             !.byEmail = Readdress(@, t.id, b.users[t.id].email, item.email)]
  <1>1. UpsertItem(b, item, id) \in {b, c1, c2, c3}
    BY DEF UpsertItem
  <1>2. Blank(row)
    BY DEF Blank
  <1>3. \A r : "groups" \in DOMAIN r => Blank(Overwrite(r, item))
    BY DEF Overwrite, Blank
  <1> HIDE DEF known, row, t
  <1>4. Emptied(c1, us)
    <2>1. c1.users = b.users /\ c1.made = Over(One(id, row), b.made)
      BY DEF BatchFields
    <2> HIDE DEF c1
    <2> QED
      BY <1>2, <2>1 DEF Emptied, Over, One
  <1>5. Emptied(c2, us)
    <2>1. c2.users = b.users /\ c2.made = [b.made EXCEPT ![t.id] = Overwrite(b.made[t.id], item)]
      BY DEF BatchFields
    <2> HIDE DEF c2
    <2>2. \A u \in DOMAIN b.made : "groups" \in DOMAIN b.made[u]
      BY DEF Emptied, Blank
    <2> QED
      BY <1>3, <2>1, <2>2 DEF Emptied
  <1>6. Emptied(c3, us)
    <2>1. c3.made = b.made /\ c3.users = [b.users EXCEPT ![t.id] = Overwrite(b.users[t.id], item)]
      BY DEF BatchFields
    <2> HIDE DEF c3
    <2>2. \A u \in DOMAIN b.users : "groups" \in DOMAIN b.users[u]
      BY DEF Emptied, Blank
    <2> QED
      BY <1>3, <2>1, <2>2 DEF Emptied
  <1> HIDE DEF c1, c2, c3
  <1> QED
    BY <1>1, <1>4, <1>5, <1>6

LEMMA UpsertEmptied ==
    ASSUME NEW d, \A u \in DOMAIN d.users : "groups" \in DOMAIN d.users[u], NEW items
    PROVE  Emptied(UpsertUsersByEmail(d, next, items), d.users)
  <1> DEFINE b0 == LookupBefore(d)
             id1 == next + Len(items) - 1
             b1 == UpsertItem(b0, items[1], id1)
             b2 == UpsertItem(b1, items[MaxBatch], next)
  <1>1. UpsertUsersByEmail(d, next, items) \in {b1, b2}
    BY DEF UpsertUsersByEmail
  <1>2. DOMAIN b0 = BatchFields /\ Emptied(b0, d.users)
    BY NoRows DEF LookupBefore, BatchFields, Emptied
  <1> HIDE DEF b0, id1
  <1>3. DOMAIN b1 = BatchFields /\ Emptied(b1, d.users)
    BY <1>2, UpsertItemRows, UpsertItemEmptied
  <1> HIDE DEF b1
  <1>4. Emptied(b2, d.users)
    BY <1>3, UpsertItemEmptied
  <1> HIDE DEF b2
  <1> QED
    BY <1>1, <1>3, <1>4

LEMMA UpsertKept == ASSUME IdInv, GrantInv, upsertEmployees PROVE Kept
  <1>1. PICK n \in 1..MaxBatch : \E items \in [1..n -> Items] : \E s :
            LET b == UpsertUsersByEmail(mem, next, items)
            IN  Request([mem EXCEPT !.users = Over(b.made, b.users)], TRUE, [hist EXCEPT !.susp = s])
    BY DEF upsertEmployees
  <1>2. PICK items \in [1..n -> Items] : \E s :
            LET b == UpsertUsersByEmail(mem, next, items)
            IN  Request([mem EXCEPT !.users = Over(b.made, b.users)], TRUE, [hist EXCEPT !.susp = s])
    BY <1>1
  <1>3. PICK s :
            LET b == UpsertUsersByEmail(mem, next, items)
            IN  Request([mem EXCEPT !.users = Over(b.made, b.users)], TRUE, [hist EXCEPT !.susp = s])
    BY <1>2
  <1> DEFINE b == UpsertUsersByEmail(mem, next, items)
             all == Over(b.made, b.users)
             d == With(mem, "users", all)
             h == [hist EXCEPT !.susp = s]
  <1>4. Request(d, TRUE, h)
    BY <1>3 DEF With
  <1>5. Len(items) \in 1..MaxBatch
    <2>1. n \in Nat /\ Len(items) = n
      BY DEF MaxBatch
    <2> QED
      BY <2>1
  <1>b. Base /\ Closed(mem, hist.named) /\ next \in Int
    BY DEF IdInv, GrantInv, Base
  <1>6. \A u \in DOMAIN mem.users : "groups" \in DOMAIN mem.users[u]
    BY <1>b, ClosedRows DEF UserOk
  <1>7. DOMAIN b.users = DOMAIN mem.users /\ DOMAIN b.made \subseteq {next, next + 1} /\ Emptied(b, mem.users)
    BY <1>5, <1>6, <1>b, UpsertRows, UpsertEmptied
  <1> HIDE DEF b
  <1>8. /\ DOMAIN all = DOMAIN b.made \cup DOMAIN mem.users
        /\ \A u \in DOMAIN all : (u \in DOMAIN mem.users /\ all[u] = mem.users[u]) \/ Blank(all[u])
    BY <1>7 DEF Over, Emptied
  <1> HIDE DEF all
  <1>9. \A row : Blank(row) => RowOk(mem, hist.named, "users", row)
    BY DEF Blank, RowOk, UserOk
  <1>10. Sound(d, hist.named)
    BY <1>b, <1>7, <1>8, <1>9, SoundTable, PeopleNames
  <1>11. DOMAIN h = HistFields /\ h.named = hist.named
    BY <1>b DEF Base, HistFields
  <1> HIDE DEF d, h
  <1>12. PICK undo \in BOOLEAN : Request(d, undo, h)
    BY <1>4
  <1> QED
    BY <1>10, <1>11, <1>12, SoundRequest

LEMMA GrantBase == ASSUME IdInv, GrantInv PROVE Base /\ Closed(mem, hist.named) /\ DOMAIN hist = HistFields
    BY DEF IdInv, GrantInv, Base

\* A save of what is sound with the names of before.
LEMMA SoundPlain ==
    ASSUME IdInv, GrantInv, NEW d, Sound(d, hist.named), NEW undo \in BOOLEAN, NEW cost, NEW h, DOMAIN h = HistFields,
           h.named = hist.named, Save(d, undo, h, cost)
    PROVE  Kept
    BY SoundSave

LEMMA SavedUsers ==
    ASSUME IdInv, GrantInv
    PROVE  /\ \A e, st : Sound(CreateUser(mem, next, e, st, {}), hist.named)
           /\ \A v \in DOMAIN mem.users : \A e, st : Sound(UpdateUser(mem, v, e, st, {}), hist.named)
           /\ \A u : Sound(DeleteUser(mem, u), hist.named)
           /\ \A U : Sound(BatchDeleteUsers(mem, U), hist.named)
           /\ \A U, st : Sound(BatchUpdateUserStatus(mem, U, st), hist.named)
           /\ \A e, st : Sound(UpsertUserByEmail(mem, next, e, st), hist.named)
  <1>b. Base /\ Closed(mem, hist.named)
    BY GrantBase
  <1>1. \A e, st : Sound(CreateUser(mem, next, e, st, {}), hist.named)
    BY <1>b, SoundCreateUser
  <1>2. \A v \in DOMAIN mem.users : \A e, st : Sound(UpdateUser(mem, v, e, st, {}), hist.named)
    BY <1>b, SoundUpdateUser
  <1>3. \A e, st : Sound(UpsertUserByEmail(mem, next, e, st), hist.named)
    BY <1>1, <1>2, FoundUser DEF UpsertUserByEmail
  <1> QED
    BY <1>b, <1>1, <1>2, <1>3, SoundRemoveUsers, SoundBatchStatus DEF DeleteUser, BatchDeleteUsers

\* The requests on users of one locked step.
LEMMA UserRequestsKept ==
    ASSUME IdInv, GrantInv,
           \/ appAdminAddUser \/ deleteUser \/ appAdminRemoveUser \/ deleteReferenceMember \/ deleteCurrentUser
           \/ batchDeleteUsers \/ batchUpdateUserStatus \/ importUsersCSV
    PROVE  Kept
  <1>h. DOMAIN hist = HistFields /\ \A U, st : DOMAIN Asks(hist, U, st) = HistFields /\ Asks(hist, U, st).named = hist.named
    BY GrantBase, NamesNamed
  <1>1. CASE appAdminAddUser
    BY <1>1, <1>h, SavedUsers, SoundPlain DEF appAdminAddUser, Request
  <1>2. CASE deleteUser \/ appAdminRemoveUser \/ deleteReferenceMember \/ deleteCurrentUser
    BY <1>2, <1>h, SavedUsers, SoundPlain DEF deleteUser, appAdminRemoveUser, deleteReferenceMember, deleteCurrentUser, Request
  <1>3. CASE batchDeleteUsers
    BY <1>3, <1>h, SavedUsers, SoundPlain DEF batchDeleteUsers, Request
  <1>4. CASE batchUpdateUserStatus
    BY <1>4, <1>h, SavedUsers, SoundPlain DEF batchUpdateUserStatus, Request
  <1>5. CASE importUsersCSV
    <2>1. PICK e, st, U : Save(UpsertUserByEmail(mem, next, e, st), FALSE, Asks(hist, U, st), 1)
      BY <1>5 DEF importUsersCSV, Request
    <2> QED
      BY <2>1, <1>h, SavedUsers, SoundPlain
  <1> QED
    BY <1>1, <1>2, <1>3, <1>4, <1>5

LEMMA SeedGroup == 2 \in DOMAIN NewService.groups
    BY DEF NewService, Tables, SpaceTables, One

LEMMA CreateUserKept == ASSUME IdInv, GrantInv, createUser PROVE Kept
  <1>b. Base /\ Closed(mem, hist.named) /\ DOMAIN hist = HistFields
    BY GrantBase
  <1>1. PICK e \in Emails, st \in {"active", "suspended"}, gs \in Groupings :
            Save(CreateUser(mem, next, e, st, gs), FALSE, Asks(Names(hist, gs), {next}, st), 1)
    BY DEF createUser, Request
  <1>2. PICK k : k = Names(hist, gs)
    OBVIOUS
  <1>3. DOMAIN k = HistFields /\ k.named = hist.named \cup (gs \ Ids(mem))
    BY <1>b, <1>2, NamesNamed
  <1>4. PICK h : h = Asks(k, {next}, st)
    OBVIOUS
  <1>5. DOMAIN h = HistFields /\ h.named = hist.named \cup (gs \ Ids(mem))
    BY <1>3, <1>4, NamesNamed
  <1>6. ASSUME NEW g \in gs PROVE Existing(mem, h.named, g, "groups")
    <2>1. g \in Known("groups")
      BY SeedGroup DEF Groupings, Known
    <2>2. Accounted(g, "groups")
      BY <2>1, ExistingAccounted, GrantTables
    <2> QED
      BY <1>5, <2>2, AccountedExists, GrantTables
  <1>7. Sound(CreateUser(mem, next, e, st, gs), h.named)
    BY <1>b, <1>5, <1>6, SoundCreateUser
  <1>8. PICK d : d = CreateUser(mem, next, e, st, gs)
    OBVIOUS
  <1>9. PICK undo \in BOOLEAN : Save(d, undo, h, 1)
    BY <1>1, <1>2, <1>4, <1>8
  <1> QED
    BY <1>5, <1>7, <1>8, <1>9, SoundSave

\* The write of a merged record, with the groups that were read.
HeldGroups(p) == p.op = "write" => \A g \in p.groups : Accounted(g, "groups")

LEMMA WriteUserKept == ASSUME IdInv, GrantInv, HeldGroups(pending), WriteUser PROVE Kept
  <1> DEFINE u == pending.id
             gs == pending.groups
             d == UpdateUser(mem, u, pending.email, pending.st, gs)
             g == IF pending.ask THEN Asks(hist, {u}, pending.st)
                  ELSE IF u \in DOMAIN mem.users /\ Row(u).st # pending.seen THEN Asks(hist, {u}, pending.seen)
                  ELSE hist
             h == Names(g, gs)
             off == IF pending.off THEN h.off \cup ({u} \ hist.reg) ELSE h.off
             k == [h EXCEPT !.off = off]
  <1>b. Base /\ Closed(mem, hist.named) /\ DOMAIN hist = HistFields
    BY GrantBase
  <1>1. Finish(u \in DOMAIN mem.users, d, FALSE, k)
    BY DEF WriteUser
  <1>2. DOMAIN g = HistFields /\ g.named = hist.named
    <2>1. g = hist \/ \E U, st : g = Asks(hist, U, st)
      OBVIOUS
    <2> HIDE DEF g
    <2> QED
      BY <1>b, <2>1, NamesNamed
  <1> HIDE DEF g
  <1>3. DOMAIN h = HistFields /\ h.named = hist.named \cup (gs \ Ids(mem))
    BY <1>2, NamesNamed
  <1> HIDE DEF h, off
  <1>4. DOMAIN k = HistFields /\ k.named = hist.named \cup (gs \ Ids(mem))
    BY <1>3 DEF HistFields
  <1> HIDE DEF k
  <1>5. \A x \in gs : Existing(mem, k.named, x, "groups")
    BY <1>4, AccountedExists, GrantTables DEF HeldGroups, WriteUser
  <1>6. u \in DOMAIN mem.users => Sound(d, k.named)
    BY <1>b, <1>4, <1>5, SoundUpdateUser
  <1>7. CASE u \notin DOMAIN mem.users
    BY <1>1, <1>7, TablesKept DEF Finish
  <1>8. CASE u \in DOMAIN mem.users
    <2>1. PICK undo \in BOOLEAN : Save(d, undo, k, 0)
      BY <1>1, <1>8 DEF Finish, GoOn
    <2> HIDE DEF d
    <2> QED
      BY <1>4, <1>6, <1>8, <2>1, SoundSave
  <1> QED
    BY <1>7, <1>8

LEMMA AccountsKept == ASSUME IdInv, GrantInv, HeldGroups(pending), Accounts PROVE Kept
  <1>1. CASE updateUser \/ updateReferenceMember \/ appAdminUpdateUserRole
    BY <1>1, BeginKept DEF updateUser, updateReferenceMember, appAdminUpdateUserRole
  <1> QED
    BY <1>1, UserRequestsKept, CreateUserKept, WriteUserKept DEF Accounts

LEMMA BatchesKept == ASSUME IdInv, GrantInv, Batches PROVE Kept
    BY UpsertKept, UserRequestsKept DEF Batches

LEMMA SyncKept == ASSUME IdInv, GrantInv, HeldGroups(pending), DirectorySync PROVE Kept
  <1>1. CASE scimReplaceUser \/ scimPatchUser \/ scimDeleteUser
    BY <1>1, BeginKept DEF scimReplaceUser, scimPatchUser, scimDeleteUser
  <1>2. CASE handleLarkUserDeleted \/ handleLarkUserUpdated \/ appAdminUpdateUserRole
    BY <1>2, BeginKept DEF handleLarkUserDeleted, handleLarkUserUpdated, appAdminUpdateUserRole
  <1>3. CASE scimCreateUser \/ handleLarkUserCreated \/ googleWorkspaceSyncUsers
    BY <1>3, BeginKept DEF scimCreateUser, handleLarkUserCreated, googleWorkspaceSyncUsers
  <1>4. CASE CreateAfterLookup
    <2>1. Save(CreateUser(mem, next, pending.email, pending.st, {}), FALSE, Asks(hist, {next}, pending.st), 0)
      BY <1>4 DEF CreateAfterLookup
    <2> QED
      BY <2>1, GrantBase, NamesNamed, SavedUsers, SoundPlain
  <1>5. CASE GoogleSignOff \/ MobileCredentials
    BY <1>5, CredentialSteps, TablesKept, GrantBase DEF CredentialStep, HistFields, Signs
  <1> QED
    BY <1>1, <1>2, <1>3, <1>4, <1>5, WriteUserKept, UserRequestsKept DEF DirectorySync

\* Rows of the tables that name nothing.
LEMMA SoundElsewhere ==
    ASSUME Base, Closed(mem, hist.named), NEW t \in {"invites", "shares", "teams", "guests"}, NEW id, id = next \/ id \in DOMAIN mem[t],
           NEW row
    PROVE  Sound(Put(mem, t, id, row), hist.named)
  <1>1. RowOk(mem, hist.named, t, row)
    BY DEF RowOk
  <1> QED
    BY <1>1, SoundPut, PeopleNames

LEMMA SoundInvites ==
    ASSUME IdInv, GrantInv
    PROVE  /\ \A u : Sound(CreateUserInvitationDelivery(mem, next, u), hist.named)
           /\ \A i : Sound(ResendInvitationDelivery(mem, next, i), hist.named)
           /\ \A i, st : Sound(RecordUserInvitationReceipt(mem, i, st), hist.named)
           /\ \A i : Sound(CancelInvitationDelivery(mem, i), hist.named)
  <1>b. Base /\ Closed(mem, hist.named)
    BY GrantBase
  <1>1. \A u : Sound(CreateUserInvitationDelivery(mem, next, u), hist.named)
    BY <1>b, SoundElsewhere DEF CreateUserInvitationDelivery
  <1>2. ASSUME NEW i, NEW st PROVE Sound([mem EXCEPT !.invites[i].st = st], hist.named)
    <2>1. PICK f : /\ [mem EXCEPT !.invites[i].st = st] = With(mem, "invites", f)
                   /\ DOMAIN f = DOMAIN mem.invites
      BY DEF With
    <2>2. \A row : RowOk(mem, hist.named, "invites", row)
      BY DEF RowOk
    <2> QED
      BY <1>b, <2>1, <2>2, SoundTable, PeopleNames
  <1> QED
    BY <1>1, <1>2 DEF ResendInvitationDelivery, RecordUserInvitationReceipt, CancelInvitationDelivery

LEMMA InvitationsKept == ASSUME IdInv, GrantInv, Invitations PROVE Kept
  <1>h. DOMAIN hist = HistFields
    BY GrantBase
  <1>1. ASSUME NEW d, Sound(d, hist.named), NEW cost, Save(d, FALSE, hist, cost) PROVE Kept
    BY <1>1, <1>h, SoundPlain
  <1>2. CASE inviteUser
    BY <1>1, <1>2, SoundInvites DEF inviteUser
  <1>3. CASE resendInvitation
    BY <1>1, <1>3, SoundInvites DEF resendInvitation
  <1>4. CASE dispatchUserInvitationEmail
    BY <1>h, <1>4, SoundInvites, SoundFinish DEF dispatchUserInvitationEmail
  <1>5. CASE recordUserInvitationReceipt \/ receiveUserInvitationProviderReceipt
    BY <1>1, <1>5, SoundInvites DEF recordUserInvitationReceipt, receiveUserInvitationProviderReceipt, Request
  <1>6. CASE cancelInvitation
    BY <1>1, <1>6, SoundInvites DEF cancelInvitation, Request
  <1>7. CASE batchInviteUsers
    BY <1>7, BeginKept DEF batchInviteUsers
  <1>8. CASE BatchInviteUsers
    <2>1. PICK u, rest : IF u \in DOMAIN mem.users
                         THEN GoOn(CreateUserInvitationDelivery(mem, next, u), FALSE, hist, rest)
                         ELSE pending' = rest /\ UNCHANGED <<family, mem, stored, creds, next, hist, budget>>
      BY <1>8 DEF BatchInviteUsers
    <2>2. CASE u \in DOMAIN mem.users
      BY <1>1, <2>1, <2>2, SoundInvites DEF GoOn
    <2>3. CASE u \notin DOMAIN mem.users
      BY <2>1, <2>3, TablesKept
    <2> QED
      BY <2>2, <2>3
  <1> QED
    BY <1>2, <1>3, <1>4, <1>5, <1>6, <1>7, <1>8, UserRequestsKept DEF Invitations

(* ---------------------- groups, teams and rights ----------------------- *)

LEMMA SoundGroup ==
    ASSUME Base, Closed(mem, hist.named), NEW id, id = next \/ id \in DOMAIN mem.groups, NEW ms, NEW N, hist.named \subseteq N,
           \A u \in ms : Existing(mem, N, u, "users")
    PROVE  Sound(CreateUserGroup(mem, id, ms), N) /\ Sound(UpdateUserGroup(mem, id, ms), N)
  <1>1. PICK row : row = [members |-> ms]
    OBVIOUS
  <1>2. GroupOk(mem, N, row)
    BY <1>1 DEF GroupOk
  <1>3. RowOk(mem, N, "groups", row)
    BY <1>2 DEF RowOk
  <1>4. CreateUserGroup(mem, id, ms) = Put(mem, "groups", id, row) /\ UpdateUserGroup(mem, id, ms) = Put(mem, "groups", id, row)
    BY <1>1 DEF CreateUserGroup, UpdateUserGroup
  <1> QED
    BY <1>3, <1>4, SoundPut, PeopleNames

\* A request that writes the members of a group, each accounted for, and names them.
LEMMA GroupNames ==
    ASSUME IdInv, GrantInv, NEW ms, \A u \in ms : Accounted(u, "users")
    PROVE  /\ DOMAIN Names(hist, ms) = HistFields /\ hist.named \subseteq Names(hist, ms).named
           /\ Sound(CreateUserGroup(mem, next, ms), Names(hist, ms).named)
           /\ \A g \in DOMAIN mem.groups : Sound(UpdateUserGroup(mem, g, ms), Names(hist, ms).named)
  <1>b. Base /\ Closed(mem, hist.named) /\ DOMAIN hist = HistFields
    BY GrantBase
  <1>1. PICK h : h = Names(hist, ms)
    OBVIOUS
  <1>2. DOMAIN h = HistFields /\ h.named = hist.named \cup (ms \ Ids(mem))
    BY <1>b, <1>1, NamesNamed
  <1>3. \A u \in ms : Existing(mem, h.named, u, "users")
    BY <1>2, AccountedExists, GrantTables
  <1> QED
    BY <1>b, <1>1, <1>2, <1>3, SoundGroup

HeldMembers(p) == p.op = "group" => \A u \in p.members : Accounted(u, "users")

LEMMA KnownAccounted == ASSUME GrantInv PROVE \A t \in Named : \A i \in Known(t) : Accounted(i, t)
    BY ExistingAccounted

LEMMA GroupRequestsKept ==
    ASSUME IdInv, GrantInv, createUserGroup \/ updateUserGroup \/ appAdminCreateGroup \/ createReferenceGroup
    PROVE  Kept
  <1>1. ASSUME NEW ms \in SUBSET Known("users")
        PROVE  /\ DOMAIN Names(hist, ms) = HistFields /\ hist.named \subseteq Names(hist, ms).named
               /\ Sound(CreateUserGroup(mem, next, ms), Names(hist, ms).named)
               /\ \A g \in DOMAIN mem.groups : Sound(UpdateUserGroup(mem, g, ms), Names(hist, ms).named)
    BY <1>1, KnownAccounted, GroupNames, GrantTables
  <1>2. CASE createUserGroup
    BY <1>1, <1>2, SoundRequest DEF createUserGroup
  <1>3. CASE updateUserGroup
    BY <1>1, <1>3, SoundRequest DEF updateUserGroup
  <1>4. CASE createReferenceGroup
    <2>1. PICK ms \in SUBSET Known("users") : Save(CreateUserGroup(mem, next, ms), FALSE, Names(hist, ms), 1)
      BY <1>4 DEF createReferenceGroup
    <2> QED
      BY <1>1, <2>1, SoundSave
  <1>5. CASE appAdminCreateGroup
    <2>1. Base /\ Closed(mem, hist.named) /\ DOMAIN hist = HistFields
      BY GrantBase
    <2>2. Sound(CreateUserGroup(mem, next, {}), hist.named)
      BY <2>1, SoundGroup
    <2> QED
      BY <1>5, <2>1, <2>2, SoundRequest DEF appAdminCreateGroup
  <1> QED
    BY <1>2, <1>3, <1>4, <1>5

LEMMA WriteGroupKept == ASSUME IdInv, GrantInv, HeldMembers(pending), WriteGroup PROVE Kept
  <1>1. PICK g, ms : g = pending.id /\ ms = pending.members
    OBVIOUS
  <1>2. \A u \in ms : Accounted(u, "users")
    BY <1>1 DEF WriteGroup, HeldMembers
  <1>3. Finish(g \in DOMAIN mem.groups, UpdateUserGroup(mem, g, ms), FALSE, Names(hist, ms))
    BY <1>1 DEF WriteGroup
  <1>4. /\ DOMAIN Names(hist, ms) = HistFields /\ hist.named \subseteq Names(hist, ms).named
        /\ g \in DOMAIN mem.groups => Sound(UpdateUserGroup(mem, g, ms), Names(hist, ms).named)
    BY <1>2, GroupNames
  <1> QED
    BY <1>3, <1>4, SoundFinish

LEMMA SoundLink ==
    ASSUME Base, Closed(mem, hist.named), NEW id, id = next \/ id \in DOMAIN mem.links, NEW g \in DOMAIN mem.groups, NEW on
    PROVE  Sound(CreateGroupLink(mem, id, g, on), hist.named) /\ Sound(UpdateGroupLink(mem, id, g, on), hist.named)
  <1>1. PICK row : row = [group |-> g, on |-> on]
    OBVIOUS
  <1>2. LinkOk(mem, hist.named, row)
    BY <1>1 DEF LinkOk, Existing
  <1>3. RowOk(mem, hist.named, "links", row)
    BY <1>2 DEF RowOk
  <1>4. CreateGroupLink(mem, id, g, on) = Put(mem, "links", id, row) /\ UpdateGroupLink(mem, id, g, on) = Put(mem, "links", id, row)
    BY <1>1 DEF CreateGroupLink, UpdateGroupLink
  <1> QED
    BY <1>3, <1>4, SoundPut, PeopleNames

LEMMA NotNamed == \A t \in {"rights", "members", "links", "shares", "guests"} : t \in PeopleTables \ Named
    BY DEF PeopleTables, Named

LEMMA DeleteGroupKept ==
    ASSUME IdInv, GrantInv, deleteReferenceGroupZone \/ deleteReferenceGroup \/ appAdminDeleteGroup
    PROVE  Kept
    BY GrantBase, SoundDeleteGroup, SoundRequest DEF deleteReferenceGroupZone, deleteReferenceGroup, appAdminDeleteGroup

LEMMA GroupsKept == ASSUME IdInv, GrantInv, HeldMembers(pending), Groups \/ createUser \/ deleteUser PROVE Kept
  <1>b. Base /\ Closed(mem, hist.named) /\ DOMAIN hist = HistFields
    BY GrantBase
  <1>1. CASE RestrictGroup
    BY <1>b, <1>1, SoundNot, SoundFinish DEF RestrictGroup, UpdateUserGroupRestrictions
  <1>2. CASE updateReferenceGroup \/ appAdminUpdateGroup \/ appAdminAddGroupMember \/ appAdminRemoveGroupMember
    BY <1>2, BeginKept DEF updateReferenceGroup, appAdminUpdateGroup, appAdminAddGroupMember, appAdminRemoveGroupMember
  <1>3. CASE createReferenceGroupLink
    BY <1>b, <1>3, SoundLink, SoundRequest DEF createReferenceGroupLink
  <1>4. CASE updateReferenceGroupLink
    BY <1>b, <1>4, SoundLink, SoundRequest DEF updateReferenceGroupLink, Reachable
  <1>5. CASE deleteReferenceGroupLink
    BY <1>b, <1>5, SoundDrop, NotNamed, SoundRequest DEF deleteReferenceGroupLink, DeleteGroupLink
  <1>6. CASE verifyReferenceGroupLinkToken
    BY <1>b, <1>6, SoundNot, SoundRequest DEF verifyReferenceGroupLinkToken, VerifyGroupLinkToken
  <1> QED
    BY <1>1, <1>2, <1>3, <1>4, <1>5, <1>6, GroupRequestsKept, WriteGroupKept, DeleteGroupKept, CreateUserKept, UserRequestsKept
    DEF Groups

\* A user or team that is accounted for, or any guest.
Holding(kind, who) == kind = Guest \/ Accounted(who, Assignees(kind))

LEMMA KnownHolding ==
    ASSUME GrantInv, NEW kind \in DOMAIN Holders, NEW who \in Known(Holders[kind])
    PROVE  kind \in {User, Team, Guest} /\ Holding(kind, who)
  <1>1. kind \in {User, Team, Guest} /\ (kind = Guest \/ Holders[kind] = Assignees(kind))
    BY DEF Holders, User, Team, Guest, Assignees
  <1>2. Assignees(kind) \in Named
    BY GrantTables DEF Assignees
  <1> QED
    BY <1>1, <1>2, KnownAccounted DEF Holding

LEMMA SoundMember ==
    ASSUME IdInv, GrantInv, NEW t \in DOMAIN mem.teams, NEW kind \in {User, Guest}, NEW u, Holding(kind, u)
    PROVE  Sound(CreateTeamMembership(mem, next, t, kind, u), Names(hist, {u}).named)
  <1>b. Base /\ Closed(mem, hist.named) /\ DOMAIN hist = HistFields
    BY GrantBase
  <1>1. PICK N : N = Names(hist, {u}).named
    OBVIOUS
  <1>2. N = hist.named \cup ({u} \ Ids(mem))
    BY <1>b, <1>1, NamesNamed
  <1>3. Present(mem, N, kind, u)
    BY <1>2, AccountedExists, GrantTables DEF Holding, Present, Assignees
  <1>4. PICK row : row = [team |-> t, kind |-> kind, who |-> u]
    OBVIOUS
  <1>5. MemberOk(mem, N, row)
    BY <1>3, <1>4 DEF MemberOk, Existing
  <1>6. RowOk(mem, N, "members", row)
    BY <1>5 DEF RowOk
  <1>7. Sound(Put(mem, "members", next, row), N)
    BY <1>b, <1>2, <1>6, SoundPut, PeopleNames
  <1>8. Sound(mem, N)
    <2>1. Closed(mem, N)
      BY <1>b, <1>2, ClosedMore
    <2> QED
      BY <1>b, <2>1, SoundNot DEF Sound
  <1>9. CreateTeamMembership(mem, next, t, kind, u) \in {mem, Put(mem, "members", next, row)}
    BY <1>4 DEF CreateTeamMembership
  <1> QED
    BY <1>1, <1>7, <1>8, <1>9

\* The assignee and the group of a right.
AccountedScope(i) == i = Place \/ Accounted(i, "groups")

LEMMA RightNames ==
    ASSUME IdInv, GrantInv, NEW kind \in {User, Team, Guest}, NEW who, Holding(kind, who), NEW to, AccountedScope(to),
           NEW row, row.kind = kind, row.who = who, row.to = to, DOMAIN row = {"kind", "who", "to", "reviewed"}
    PROVE  RowOk(mem, Names(hist, {who, to}).named, "rights", row)
  <1>b. DOMAIN hist = HistFields
    BY GrantBase
  <1>1. PICK N : N = Names(hist, {who, to}).named
    OBVIOUS
  <1>2. N = hist.named \cup ({who, to} \ Ids(mem))
    BY <1>b, <1>1, NamesNamed
  <1>3. Assignees(kind) \in Tables /\ "groups" \in Tables
    BY GrantTables DEF Assignees
  <1>4. Present(mem, N, kind, who)
    BY <1>2, <1>3, AccountedExists DEF Holding, Present
  <1>5. to = Place \/ Existing(mem, N, to, "groups")
    BY <1>2, <1>3, AccountedExists DEF AccountedScope
  <1>6. RightOk(mem, N, row)
    BY <1>4, <1>5 DEF RightOk
  <1> QED
    BY <1>1, <1>6 DEF RowOk

LEMMA SoundRight ==
    ASSUME IdInv, GrantInv, NEW kind \in {User, Team, Guest}, NEW who, Holding(kind, who), NEW to, AccountedScope(to)
    PROVE  /\ Sound(CreateRoleAssignment(mem, next, kind, who, to), Names(hist, {who, to}).named)
           /\ \A r \in DOMAIN mem.rights : Sound(UpdateRoleAssignment(mem, r, kind, who, to), Names(hist, {who, to}).named)
  <1>b. Base /\ Closed(mem, hist.named) /\ DOMAIN hist = HistFields
    BY GrantBase
  <1>1. PICK N : N = Names(hist, {who, to}).named
    OBVIOUS
  <1>2. hist.named \subseteq N
    BY <1>b, <1>1, NamesNamed
  <1>3. Sound(CreateRoleAssignment(mem, next, kind, who, to), N)
    <2>1. PICK row : row = [kind |-> kind, who |-> who, to |-> to, reviewed |-> FALSE]
      OBVIOUS
    <2>2. RowOk(mem, N, "rights", row)
      BY <1>1, <2>1, RightNames
    <2>3. CreateRoleAssignment(mem, next, kind, who, to) = Put(mem, "rights", next, row)
      BY <2>1 DEF CreateRoleAssignment
    <2> QED
      BY <1>b, <1>2, <2>2, <2>3, SoundPut, PeopleNames
  <1>4. ASSUME NEW r \in DOMAIN mem.rights PROVE Sound(UpdateRoleAssignment(mem, r, kind, who, to), N)
    <2>1. PICK row : row = [kind |-> kind, who |-> who, to |-> to, reviewed |-> mem.rights[r].reviewed]
      OBVIOUS
    <2>2. RowOk(mem, N, "rights", row)
      BY <1>1, <2>1, RightNames
    <2>3. PICK f : f = [mem.rights EXCEPT ![r] = row]
      OBVIOUS
    <2>4. UpdateRoleAssignment(mem, r, kind, who, to) = With(mem, "rights", f)
      BY <2>1, <2>3 DEF UpdateRoleAssignment, With
    <2>5. DOMAIN f = DOMAIN mem.rights /\ f[r] = row /\ \A i \in DOMAIN mem.rights \ {r} : f[i] = mem.rights[i]
      BY <2>3
    <2>6. \A i \in DOMAIN f : (i \in DOMAIN mem.rights /\ f[i] = mem.rights[i]) \/ RowOk(mem, N, "rights", f[i])
      BY <2>2, <2>5
    <2> QED
      BY <1>b, <1>2, <2>4, <2>5, <2>6, SoundTable, PeopleNames
  <1> QED
    BY <1>1, <1>3, <1>4

\* A demonstration right may be rewritten with anything.
LEMMA SoundSeedRight ==
    ASSUME IdInv, GrantInv, NEW r \in Seeds, r \in DOMAIN mem.rights, NEW kind, NEW who, NEW to, NEW N, hist.named \subseteq N
    PROVE  Sound(UpdateRoleAssignment(mem, r, kind, who, to), N)
  <1>b. Base /\ Closed(mem, hist.named)
    BY GrantBase
  <1>1. PICK f : f = [mem.rights EXCEPT ![r] = [kind |-> kind, who |-> who, to |-> to, reviewed |-> @.reviewed]]
    OBVIOUS
  <1>2. UpdateRoleAssignment(mem, r, kind, who, to) = With(mem, "rights", f)
    BY <1>1 DEF UpdateRoleAssignment, With
  <1>3. DOMAIN f = DOMAIN mem.rights /\ \A i \in DOMAIN mem.rights \ {r} : f[i] = mem.rights[i]
    BY <1>1
  <1>4. \A i \in DOMAIN f \ Excepted("rights") : i \in DOMAIN mem.rights /\ f[i] = mem.rights[i]
    BY <1>3, Exceptions
  <1> QED
    BY <1>b, <1>2, <1>3, <1>4, SoundTable, PeopleNames

LEMMA SoundReview ==
    ASSUME IdInv, GrantInv, NEW R, NEW S
    PROVE  Sound(ReviewAccessRights(mem, R, S), hist.named)
  <1>b. Base /\ Closed(mem, hist.named) /\ DOMAIN mem = Tables
    BY GrantBase DEF Base
  <1> DEFINE d == ReviewAccessRights(mem, R, S)
  <1>1. Grows(d, PeopleTables)
    BY <1>b, ReviewGrows, PeopleNames
  <1>2. PICK f : f = [r \in DOMAIN mem.rights |-> Review(mem.rights[r], r \in R)]
    OBVIOUS
  <1>3. PICK g : DOMAIN g = DOMAIN mem.shares /\ d = [mem EXCEPT !.rights = f, !.shares = g]
    BY <1>2 DEF ReviewAccessRights
  <1>t. "rights" \in Tables /\ "shares" \in Tables /\ "rights" # "shares"
    BY DEF Tables
  <1>4. d.rights = f /\ d.shares = g /\ \A t \in Tables \ {"rights", "shares"} : d[t] = mem[t]
    BY <1>b, <1>t, <1>3
  <1> HIDE DEF d
  <1>5. DOMAIN f = DOMAIN mem.rights
    BY <1>2
  <1>6. Single(d)
    BY <1>t, <1>3, <1>4, <1>5, SingleTable
  <1>7. \A t \in Named : DOMAIN mem[t] \subseteq DOMAIN d[t]
    <2>1. \A t \in Named : t \in Tables \ {"rights", "shares"}
      BY DEF Named, Tables
    <2> QED
      BY <1>4, <2>1
  <1>8. ASSUME NEW r \in DOMAIN mem.rights \ Seeds PROVE RowOk(mem, hist.named, "rights", f[r])
    <2>1. RightOk(mem, hist.named, mem.rights[r])
      BY <1>b, ClosedRows
    <2>2. PICK row : row = mem.rights[r]
      OBVIOUS
    <2>3. PICK x : x = (r \in R)
      OBVIOUS
    <2>4. f[r] = Review(row, x)
      BY <1>2, <2>2, <2>3
    <2>5. DOMAIN row = {"kind", "who", "to", "reviewed"}
      BY <2>1, <2>2 DEF RightOk
    <2>6. /\ DOMAIN Review(row, x) = DOMAIN row /\ Review(row, x).kind = row.kind /\ Review(row, x).who = row.who
          /\ Review(row, x).to = row.to
      BY <2>5 DEF Review
    <2>7. RightOk(mem, hist.named, f[r])
      BY <2>1, <2>2, <2>4, <2>6 DEF RightOk
    <2> QED
      BY <2>7 DEF RowOk
  <1>9. ASSUME NEW t \in Naming, NEW i \in DOMAIN d[t] \ Excepted(t)
        PROVE  (i \in DOMAIN mem[t] /\ d[t][i] = mem[t][i]) \/ RowOk(mem, hist.named, t, d[t][i])
    <2>1. CASE t = "rights"
      BY <1>4, <1>5, <1>8, <2>1, Exceptions
    <2>2. CASE t # "rights"
      <3>1. t \in Tables \ {"rights", "shares"}
        BY <2>2, GrantTables DEF Naming
      <3> QED
        BY <1>4, <3>1
    <2> QED
      BY <2>1, <2>2
  <1>10. Closed(d, hist.named)
    BY <1>b, <1>7, <1>9, ClosedFrom
  <1> QED
    BY <1>1, <1>6, <1>10 DEF Sound, d

HeldRights(p) ==
    /\ p.op = "member" => Accounted(p.who, "users")
    /\ p.op = "teamRight" => Accounted(p.team, "teams") /\ AccountedScope(p.to)
    /\ p.op = "right" => \/ p.id \in Seeds
                         \/ /\ p.row.kind \in {User, Team, Guest} /\ Holding(p.row.kind, p.row.who)
                            /\ AccountedScope(p.row.to)

LEMMA NamesGrow == ASSUME IdInv, GrantInv PROVE \A S : DOMAIN Names(hist, S) = HistFields /\ hist.named \subseteq Names(hist, S).named
    BY GrantBase, NamesNamed

LEMMA MembershipsKept ==
    ASSUME IdInv, GrantInv, HeldRights(pending), createReferenceTeamMembership \/ WriteMember
    PROVE  Kept
  <1>1. CASE createReferenceTeamMembership
    <2>1. PICK t \in DOMAIN mem.teams, kind \in {User, Guest} : \E u \in Known(Holders[kind]) :
              Request(CreateTeamMembership(mem, next, t, kind, u), FALSE, Names(hist, {u}))
      BY <1>1 DEF createReferenceTeamMembership
    <2>2. PICK u \in Known(Holders[kind]) : Request(CreateTeamMembership(mem, next, t, kind, u), FALSE, Names(hist, {u}))
      BY <2>1
    <2>3. kind \in DOMAIN Holders
      BY DEF Holders, User, Guest
    <2>4. Sound(CreateTeamMembership(mem, next, t, kind, u), Names(hist, {u}).named)
      BY <2>3, KnownHolding, SoundMember
    <2> QED
      BY <2>2, <2>4, NamesGrow, SoundRequest
  <1>2. CASE WriteMember
    <2>1. PICK t, u : t = pending.team /\ u = pending.who
      OBVIOUS
    <2>2. /\ Accounted(u, "users")
          /\ Finish(t \in DOMAIN mem.teams, CreateTeamMembership(mem, next, t, User, u), FALSE, Names(hist, {u}))
      BY <1>2, <2>1 DEF WriteMember, HeldRights
    <2>3. t \in DOMAIN mem.teams => Sound(CreateTeamMembership(mem, next, t, User, u), Names(hist, {u}).named)
      BY <2>2, SoundMember DEF Holding, Assignees
    <2> QED
      BY <2>2, <2>3, NamesGrow, SoundFinish
  <1> QED
    BY <1>1, <1>2

LEMMA AssignmentsKept ==
    ASSUME IdInv, GrantInv, HeldRights(pending),
           createReferenceRoleAssignment \/ updateReferenceRoleAssignment \/ WriteTeamRight \/ WriteRight
    PROVE  Kept
  <1>s. \A to \in Scopes : AccountedScope(to)
    BY KnownAccounted, GrantTables DEF Scopes, AccountedScope
  <1>w. \A kind \in DOMAIN Holders : \A who \in Known(Holders[kind]) : kind \in {User, Team, Guest} /\ Holding(kind, who)
    BY KnownHolding
  <1>1. CASE createReferenceRoleAssignment
    <2>1. PICK kind \in DOMAIN Holders : \E who \in Known(Holders[kind]), to \in Scopes :
              Request(CreateRoleAssignment(mem, next, kind, who, to), FALSE, Names(hist, {who, to}))
      BY <1>1 DEF createReferenceRoleAssignment
    <2>2. PICK who \in Known(Holders[kind]), to \in Scopes :
              Request(CreateRoleAssignment(mem, next, kind, who, to), FALSE, Names(hist, {who, to}))
      BY <2>1
    <2>3. Sound(CreateRoleAssignment(mem, next, kind, who, to), Names(hist, {who, to}).named)
      BY <1>s, <1>w, SoundRight
    <2> QED
      BY <2>2, <2>3, NamesGrow, SoundRequest
  <1>2. CASE updateReferenceRoleAssignment
    <2>1. PICK r \in DOMAIN mem.rights, kind \in DOMAIN Holders :
              \E who \in Known(Holders[kind]), to \in Scopes :
                  Request(UpdateRoleAssignment(mem, r, kind, who, to), FALSE, Names(hist, {who, to}))
      BY <1>2 DEF updateReferenceRoleAssignment
    <2>2. PICK who \in Known(Holders[kind]), to \in Scopes :
              Request(UpdateRoleAssignment(mem, r, kind, who, to), FALSE, Names(hist, {who, to}))
      BY <2>1
    <2>3. Sound(UpdateRoleAssignment(mem, r, kind, who, to), Names(hist, {who, to}).named)
      BY <1>s, <1>w, SoundRight
    <2> QED
      BY <2>2, <2>3, NamesGrow, SoundRequest
  <1>3. CASE WriteTeamRight
    <2>1. PICK k, to : k = pending.team /\ to = pending.to
      OBVIOUS
    <2>2. Accounted(k, "teams") /\ AccountedScope(to)
      BY <1>3, <2>1 DEF WriteTeamRight, HeldRights
    <2>3. Team \in {User, Team, Guest} /\ Assignees(Team) = "teams"
      BY DEF Assignees, Team, User
    <2>4. Sound(CreateRoleAssignment(mem, next, Team, k, to), Names(hist, {k, to}).named)
      BY <2>2, <2>3, SoundRight DEF Holding
    <2>5. Finish(TRUE, CreateRoleAssignment(mem, next, Team, k, to), FALSE, Names(hist, {k, to}))
      BY <1>3, <2>1 DEF WriteTeamRight
    <2> QED
      BY <2>4, <2>5, NamesGrow, SoundFinish
  <1>4. CASE WriteRight
    <2>1. PICK r, kind, who, to : r = pending.id /\ kind = pending.row.kind /\ who = pending.row.who /\ to = pending.row.to
      OBVIOUS
    <2>2. \/ r \in Seeds
          \/ kind \in {User, Team, Guest} /\ Holding(kind, who) /\ AccountedScope(to)
      BY <1>4, <2>1 DEF WriteRight, HeldRights
    <2>3. Finish(r \in DOMAIN mem.rights, UpdateRoleAssignment(mem, r, kind, who, to), FALSE, Names(hist, {who, to}))
      BY <1>4, <2>1 DEF WriteRight
    <2>4. r \in DOMAIN mem.rights => Sound(UpdateRoleAssignment(mem, r, kind, who, to), Names(hist, {who, to}).named)
      BY <2>2, SoundRight, SoundSeedRight, NamesGrow
    <2> QED
      BY <2>3, <2>4, NamesGrow, SoundFinish
  <1> QED
    BY <1>1, <1>2, <1>3, <1>4

LEMMA SharesKept == ASSUME IdInv, GrantInv, Shares \/ WriteShare \/ reviewReferenceAccessRights PROVE Kept
  <1>b. Base /\ Closed(mem, hist.named) /\ DOMAIN hist = HistFields
    BY GrantBase
  <1>1. CASE createReferenceShare \/ createTemporaryAccess
    BY <1>b, <1>1, SoundElsewhere, SoundRequest DEF createReferenceShare, createTemporaryAccess, CreateTemporaryAccessWithInput
  <1>2. CASE appAdminShareAccess
    BY <1>b, <1>2, SoundElsewhere, SoundPlain DEF appAdminShareAccess, CreateTemporaryAccessWithInput
  <1>3. CASE ShareNextDoor
    BY <1>b, <1>3, SoundElsewhere, SoundFinish DEF ShareNextDoor, CreateTemporaryAccessWithInput
  <1>4. CASE updateReferenceShare
    BY <1>4, BeginKept DEF updateReferenceShare
  <1>5. CASE WriteShare
    BY <1>b, <1>5, SoundElsewhere, SoundFinish DEF WriteShare, UpdateTemporaryAccess
  <1>6. CASE deleteReferenceShare
    BY <1>b, <1>6, SoundDrop, NotNamed, SoundRequest DEF deleteReferenceShare, DeleteTemporaryAccess
  <1>7. CASE reviewReferenceAccessRights
    BY <1>b, <1>7, SoundReview, SoundRequest DEF reviewReferenceAccessRights
  <1> QED
    BY <1>1, <1>2, <1>3, <1>4, <1>5, <1>6, <1>7 DEF Shares

LEMMA RightsKept == ASSUME IdInv, GrantInv, HeldRights(pending), Rights \/ deleteUser \/ batchDeleteUsers \/ createGuest \/ deleteGuest PROVE Kept
  <1>b. Base /\ Closed(mem, hist.named) /\ DOMAIN hist = HistFields
    BY GrantBase
  <1>1. CASE createReferenceTeam \/ updateReferenceTeam
    BY <1>b, <1>1, SoundElsewhere, SoundRequest DEF createReferenceTeam, updateReferenceTeam, CreateTeam, UpdateTeam
  <1>2. CASE deleteReferenceTeam
    BY <1>b, <1>2, SoundDeleteTeam, SoundRequest DEF deleteReferenceTeam
  <1>3. CASE deleteReferenceTeamMembership \/ appAdminRemoveTeamMember
    BY <1>b, <1>3, SoundDrop, NotNamed, SoundRequest
    DEF deleteReferenceTeamMembership, appAdminRemoveTeamMember, DeleteTeamMembership
  <1>4. CASE appAdminAddTeamMember \/ appAdminAssignTeamAccessRight \/ updateReferenceAccessRightsSchedule
    BY <1>4, BeginKept DEF appAdminAddTeamMember, appAdminAssignTeamAccessRight, updateReferenceAccessRightsSchedule
  <1>5. CASE deleteReferenceRoleAssignment \/ appAdminRemoveTeamAccessRight
    BY <1>b, <1>5, SoundDrop, NotNamed, SoundRequest
    DEF deleteReferenceRoleAssignment, appAdminRemoveTeamAccessRight, DeleteRoleAssignment
  <1>6. CASE createGuest
    BY <1>b, <1>6, SoundElsewhere, SoundRequest DEF createGuest, CreateGuest
  <1>7. CASE deleteGuest
    BY <1>b, <1>7, SoundDrop, NotNamed, SoundRequest DEF deleteGuest, DeleteGuest
  <1> QED
    BY <1>1, <1>2, <1>3, <1>4, <1>5, <1>6, <1>7, MembershipsKept, AssignmentsKept, SharesKept, DeleteGroupKept, UserRequestsKept DEF Rights

(* ---------------------- the other families, restarts ------------------- *)

\* A transfer names what it takes away.
LEMMA TransferKept == ASSUME IdInv, GrantInv, transferOrganization PROVE Kept
  <1>b. Base /\ Closed(mem, hist.named) /\ DOMAIN hist = HistFields
    BY GrantBase
  <1> DEFINE d == TransferOrganization(mem)
             M == UNION {DOMAIN mem[t] : t \in Moving}
             h == [hist EXCEPT !.named = hist.named \cup M]
  <1>1. Request(d, FALSE, h)
    BY DEF transferOrganization
  <1>2. DOMAIN h = HistFields /\ h.named = hist.named \cup M
    BY <1>b DEF HistFields
  <1>3. \A t \in Moving : DOMAIN mem[t] \subseteq M
    OBVIOUS
  <1>4. Grows(d, PremiseTables)
    BY <1>b, TransferGrows
  <1>5. /\ \A t \in Moving : DOMAIN d[t] = {}
        /\ \A t \in Tables \ (Moving \cup {"org"}) : d[t] = mem[t]
        /\ DOMAIN d.org \subseteq {Org}
    <2>1. Moving \subseteq Tables /\ "org" \in Tables \ Moving
      BY DEF Moving, Tables
    <2> QED
      BY <1>b, <2>1, NoRows DEF TransferOrganization, One, Base
  <1> HIDE DEF d, h, M
  <1>6. Single(d)
    <2>1. "org" \in Tables
      BY DEF Tables
    <2>2. \A s \in Tables \ {"org"} : DOMAIN d[s] \subseteq DOMAIN mem[s]
      BY <1>5
    <2> QED
      BY <2>1, <2>2, SingleTable
  <1>7. Closed(d, h.named)
    <2>1. /\ "users" \in Moving /\ "groups" \in Moving /\ "rights" \in Moving
          /\ "members" \in Tables \ (Moving \cup {"org"}) /\ "links" \in Tables \ (Moving \cup {"org"})
          /\ "teams" \in Tables \ (Moving \cup {"org"})
      BY DEF Moving, Tables
    <2>2. \A i : /\ Existing(mem, hist.named, i, "users") => Existing(d, h.named, i, "users")
                 /\ Existing(mem, hist.named, i, "groups") => Existing(d, h.named, i, "groups")
                 /\ Existing(mem, hist.named, i, "teams") => Existing(d, h.named, i, "teams")
      BY <1>2, <1>3, <1>5, <2>1 DEF Existing
    <2>3. d.members = mem.members /\ d.links = mem.links
      BY <1>5, <2>1
    <2>4. /\ \A i \in DOMAIN mem.members \ Seeds : MemberOk(mem, hist.named, mem.members[i])
          /\ \A i \in DOMAIN mem.links \ Seeds : LinkOk(mem, hist.named, mem.links[i])
      BY <1>b, ClosedRows
    <2>5. /\ \A i \in DOMAIN d.members \ Seeds : MemberOk(d, h.named, d.members[i])
          /\ \A i \in DOMAIN d.links \ Seeds : LinkOk(d, h.named, d.links[i])
      BY <2>2, <2>3, <2>4 DEF MemberOk, LinkOk, Assignees, Present
    <2>6. DOMAIN d.users = {} /\ DOMAIN d.groups = {} /\ DOMAIN d.rights = {}
      BY <1>5, <2>1
    <2> QED
      BY <2>5, <2>6, ClosedRows
  <1>8. PICK undo \in BOOLEAN : Save(d, undo, h, 1)
    BY <1>1 DEF Request
  <1> QED
    BY <1>2, <1>4, <1>6, <1>7, <1>8, SaveGrants DEF Kept

\* A step that leaves alone the tables that name and are named, and what is remembered of names.
LEMMA ElsewhereKept ==
    ASSUME IdInv, GrantInv, NEW T \in SUBSET Tables, NEW H, Shape(T, H), T \cap (Naming \cup Named) = {}, "named" \notin H
    PROVE  Kept
  <1>1. hist'.named = hist.named
    BY DEF Shape, HistFields
  <1>2. CASE UNCHANGED <<mem, stored, next>>
    BY <1>1, <1>2, TablesKept
  <1>3. CASE \E d : Grows(d, T) /\ Effect(d)
    <2>1. PICK d : Grows(d, T) /\ Effect(d)
      BY <1>3
    <2>2. DOMAIN d = Tables /\ \A t \in Naming \cup Named : d[t] = mem[t]
      BY <2>1, GrantTables DEF Grows
    <2>3. mem' \in {mem, d} /\ stored' \in {stored, persistLocked(d)} /\ next' = NextId(d)
      BY <2>1 DEF Effect
    <2>4. \A t \in Naming \cup Named : persistLocked(d)[t] = d[t]
      BY <2>2, PersistTables, GrantTables
    <2>5. Home'
      <3> SUFFICES ASSUME NEW t \in Named, NEW i, Rooted(i, t)' PROVE Only(i, t)'
        BY DEF Home
      <3>1. Rooted(i, t)
        BY <2>2, <2>3, <2>4 DEF Rooted
      <3>2. Only(i, t)
        BY <3>1 DEF GrantInv, Home
      <3> QED
        BY <2>1, <2>3, <3>2, OnlyKept
    <2>6. Closed(mem, hist.named) /\ Closed(stored, hist.named)
      BY DEF GrantInv
    <2>7. Closed(d, hist.named)
      BY <2>2, <2>6, ClosedSame
    <2>8. Closed(persistLocked(d), hist.named)
      BY <2>2, <2>7, ClosedStored
    <2>9. Closed(mem', hist.named) /\ Closed(stored', hist.named)
      BY <2>3, <2>6, <2>7, <2>8
    <2> QED
      BY <1>1, <2>5, <2>9 DEF GrantInv, Kept
  <1> QED
    BY <1>2, <1>3 DEF Shape

LEMMA PremisesKept == ASSUME IdInv, GrantInv, Premises PROVE Kept
  <1>b. Base
    BY GrantBase
  <1>1. "gone" \notin {} /\ "named" \notin {} /\ Volatile \subseteq Volatile
    OBVIOUS
  <1>2. Volatile \cap (Naming \cup Named) = {}
    BY GrantTables
  <1>3. CASE Shape(Volatile, {})
    BY <1>1, <1>2, <1>3, PremiseNames, ElsewhereKept
  <1> QED
    BY <1>b, <1>1, <1>3, TransferKept, PremiseNames, SchedulesShape, ElevatorsShape, SettingsShape DEF Premises

\* A restart brings back the snapshot and rows that are excepted, and no id of another table.
LEMMA CrashOnly == ASSUME IdInv, Crash PROVE \A i, t : Only(i, t) => Only(i, t)'
  <1> SUFFICES ASSUME NEW i, NEW t, Only(i, t) PROVE Only(i, t)'
    OBVIOUS
  <1>1. mem' = restoreFromStateStore(stored) /\ stored' = stored /\ next' = next
    BY DEF Crash
  <1>2. \A s \in Tables : mem'[s] \in {stored[s], NewService[s]}
    BY <1>1, RestoreTables DEF IdInv
  <1>3. \A s \in Tables \ {t} : i \notin DOMAIN stored[s] /\ i \notin DOMAIN NewService[s]
    BY DEF Only
  <1>4. \A s \in Tables \ {t} : i \notin DOMAIN mem'[s]
    BY <1>2, <1>3
  <1>5. i \in Nat /\ i < next' /\ i # Org
    BY <1>1 DEF Only
  <1>6. \A s \in Tables \ {t} : i \notin DOMAIN mem'[s] /\ i \notin DOMAIN stored'[s] /\ i \notin DOMAIN NewService[s]
    BY <1>1, <1>3, <1>4
  <1> QED
    BY <1>5, <1>6 DEF Only

LEMMA CrashKept == ASSUME IdInv, GrantInv, Crash PROVE Kept
  <1>1. mem' = restoreFromStateStore(stored) /\ stored' = stored /\ next' = next /\ hist' = hist
    BY DEF Crash
  <1>2. \A s \in Tables : mem'[s] \in {stored[s], NewService[s]}
    BY <1>1, RestoreTables DEF IdInv
  <1>3. Home'
    <2> SUFFICES ASSUME NEW t \in Named, NEW i, Rooted(i, t)' PROVE Only(i, t)'
      BY DEF Home
    <2>1. Rooted(i, t)
      BY <1>1, <1>2, GrantTables DEF Rooted
    <2>2. Only(i, t)
      BY <2>1 DEF GrantInv, Home
    <2> QED
      BY <2>2, CrashOnly
  <1>4. Closed(mem', hist.named)
    <2>1. Closed(stored, hist.named)
      BY DEF GrantInv
    <2>2. \A t \in Tables : DOMAIN stored[t] \subseteq DOMAIN mem'[t]
      BY <1>1, RestoreTables DEF IdInv
    <2>3. ASSUME NEW t \in Naming, NEW i \in DOMAIN mem'[t] \ Excepted(t)
          PROVE  i \in DOMAIN stored[t] /\ mem'[t][i] = stored[t][i]
      <3>1. CASE mem'[t] = stored[t]
        BY <3>1
      <3>2. CASE t \in KeptWhenEmpty /\ mem'[t] = NewService[t]
        BY <3>2, SeedRows DEF Excepted
      <3> QED
        BY <1>1, <3>1, <3>2, RestoreTables, GrantTables DEF IdInv
    <2> QED
      BY <2>1, <2>2, <2>3, GrantTables, ClosedFrom
  <1> QED
    BY <1>1, <1>3, <1>4 DEF GrantInv, Kept

\* The demonstration rows: a user, a group with it, a team.
LEMMA SeedHomes ==
    /\ DOMAIN NewService.users = {1} /\ DOMAIN NewService.groups = {2} /\ DOMAIN NewService.teams = {4}
    /\ "groups" \in DOMAIN NewService.users[1] /\ NewService.users[1].groups = {2} /\ NewService.groups[2].members = {1}
    /\ \A s \in Tables \ {"users"} : 1 \notin DOMAIN NewService[s]
    /\ \A s \in Tables \ {"groups"} : 2 \notin DOMAIN NewService[s]
    /\ \A s \in Tables \ {"teams"} : 4 \notin DOMAIN NewService[s]
  <1>t. "users" \in Tables /\ "groups" \in Tables /\ "teams" \in Tables
    BY DEF Tables
  <1>1. PICK e : e = CHOOSE x \in Emails : TRUE
    OBVIOUS
  <1>2. NewService.users = One(1, [st |-> "active", email |-> e, ref |-> NoRef, groups |-> {2}])
    BY <1>t, <1>1 DEF NewService, SpaceTables
  <1>3. NewService.groups = One(2, [members |-> {1}]) /\ NewService.teams = One(4, "team")
    BY <1>t DEF NewService, SpaceTables
  <1>4. ASSUME NEW s \in Tables, s \notin {"users", "groups", "teams"}
        PROVE  1 \notin DOMAIN NewService[s] /\ 2 \notin DOMAIN NewService[s] /\ 4 \notin DOMAIN NewService[s]
    <2>1. CASE s \in SpaceTables
      <3>1. NewService[s] = NewSpaceService[s]
        BY <2>1 DEF NewService, SpaceTables
      <3>2. DOMAIN NewSpaceService[s] \subseteq {11, 12, 13, 14, 15, 16, 17}
        BY <2>1 DEF NewSpaceService, SpaceTables, One
      <3> QED
        BY <3>1, <3>2
    <2>2. CASE s \notin SpaceTables
      <3>1. DOMAIN NewService[s] \subseteq {3, 5, 6, 7, 8, 18, 19}
        BY <1>4, <2>2, NoRows DEF NewService, One
      <3> QED
        BY <3>1
    <2> QED
      BY <2>1, <2>2
  <1> QED
    BY <1>2, <1>3, <1>4 DEF One

LEMMA InitGrants == ASSUME Init PROVE GrantInv
  <1>1. mem = SetUp(family) /\ stored = persistLocked(mem) /\ next = 20 /\ hist.named = {}
    BY DEF Init, NoHistory
  <1>2. /\ DOMAIN mem = Tables /\ \A t \in Tables \ {"spaces", "clients"} : mem[t] = NewService[t]
        /\ DOMAIN mem.spaces \subseteq {10} /\ DOMAIN mem.clients \subseteq {10}
    BY <1>1, SetUpRows
  <1>3. \A t \in Tables : \A i \in DOMAIN mem[t] : i \in DOMAIN NewService[t] \/ i = 10
    BY <1>2
  <1>4. \A t \in Tables : DOMAIN stored[t] \subseteq DOMAIN mem[t]
    BY <1>1, <1>2, PersistTables, NoRows
  <1>n. Named = {"users", "groups", "teams"} /\ Named \subseteq Tables \ {"spaces", "clients"}
        /\ Naming \subseteq Tables \ {"spaces", "clients"}
    BY DEF Named, Naming, Tables
  <1>5. Home
    <2> SUFFICES ASSUME NEW t \in Named, NEW i, Rooted(i, t) PROVE Only(i, t)
      BY DEF Home
    <2>1. i \in DOMAIN NewService[t]
      BY <1>2, <1>4, <1>n DEF Rooted
    <2>2. i \in {1, 2, 4} /\ \A s \in Tables \ {t} : i \notin DOMAIN NewService[s]
      BY <1>n, <2>1, SeedHomes
    <2>3. \A s \in Tables \ {t} : i \notin DOMAIN mem[s] /\ i \notin DOMAIN stored[s]
      BY <1>3, <1>4, <2>2
    <2>4. i \in Nat /\ i < next /\ i # Org
      BY <1>1, <2>2 DEF Org
    <2> QED
      BY <2>2, <2>3, <2>4 DEF Only
  <1>6. Closed(mem, {})
    <2>1. /\ mem.users = NewService.users /\ mem.groups = NewService.groups /\ mem.rights = NewService.rights
          /\ mem.members = NewService.members /\ mem.links = NewService.links
      BY <1>2, GrantTables, <1>n
    <2>2. DOMAIN mem.rights \subseteq Seeds /\ DOMAIN mem.members \subseteq Seeds /\ DOMAIN mem.links \subseteq Seeds
      BY <2>1, SeedRows DEF KeptWhenEmpty
    <2>3. \A u \in DOMAIN mem.users : UserOk(mem, {}, mem.users[u])
      BY <2>1, SeedHomes DEF UserOk, Existing
    <2>4. \A g \in DOMAIN mem.groups : GroupOk(mem, {}, mem.groups[g])
      BY <2>1, SeedHomes DEF GroupOk, Existing
    <2> QED
      BY <2>2, <2>3, <2>4, ClosedRows
  <1>7. Closed(stored, {})
    BY <1>1, <1>2, <1>6, ClosedStored
  <1> QED
    BY <1>1, <1>5, <1>6, <1>7 DEF GrantInv

(* ------------------- what a waiting request has read ------------------- *)

HeldInv ==
    /\ family \in {"accounts", "sync"} => HeldGroups(pending)
    /\ family = "groups" => HeldMembers(pending)
    /\ family = "rights" => HeldRights(pending)

\* An id that is accounted for stays so.
LEMMA AccountedStays ==
    ASSUME IdInv, GrantInv, Next, hist.named \subseteq hist'.named
    PROVE  \A i, t : Accounted(i, t) => Accounted(i, t)'
  <1> SUFFICES ASSUME NEW i, NEW t, Accounted(i, t) PROVE Accounted(i, t)'
    OBVIOUS
  <1>1. \A j, s : Only(j, s) => Only(j, s)'
    <2>1. CASE Crash
      BY <2>1, CrashOnly
    <2>2. CASE \E T, H : Shape(T, H)
      <3>1. PICK T, H : Shape(T, H)
        BY <2>2
      <3>2. CASE UNCHANGED <<mem, stored, next>>
        BY <3>2 DEF Only
      <3>3. CASE \E d : Grows(d, T) /\ Effect(d)
        <4>1. PICK d : Grows(d, T) /\ Effect(d)
          BY <3>3
        <4>2. mem' \in {mem, d} /\ stored' \in {stored, persistLocked(d)} /\ next' = NextId(d)
          BY <4>1 DEF Effect
        <4> QED
          BY <4>1, <4>2, OnlyKept
      <3> QED
        BY <3>1, <3>2, <3>3 DEF Shape
    <2> QED
      BY <2>1, <2>2, NextShapes, GrantBase
  <1> QED
    BY <1>1 DEF Accounted

LEMMA HeldStays ==
    ASSUME \A i, t : Accounted(i, t) => Accounted(i, t)', pending' = pending
    PROVE  /\ HeldGroups(pending) => HeldGroups(pending)'
           /\ HeldMembers(pending) => HeldMembers(pending)'
           /\ HeldRights(pending) => HeldRights(pending)'
  <1>1. HeldGroups(pending) => HeldGroups(pending)'
    BY DEF HeldGroups
  <1>2. HeldMembers(pending) => HeldMembers(pending)'
    BY DEF HeldMembers
  <1>3. \A i : AccountedScope(i) => AccountedScope(i)'
    BY DEF AccountedScope
  <1>4. HeldRights(pending) => HeldRights(pending)'
    BY <1>3 DEF HeldRights, Holding
  <1> QED
    BY <1>1, <1>2, <1>4

\* A request that holds no ids.
LEMMA HeldNothing ==
    ASSUME pending'.op \notin {"write", "group", "member", "teamRight", "right"}
    PROVE  HeldGroups(pending)' /\ HeldMembers(pending)' /\ HeldRights(pending)'
    BY DEF HeldGroups, HeldMembers, HeldRights

\* The groups a handler reads from a user are accounted for.
LEMMA RowGroups == ASSUME GrantInv, NEW u \in DOMAIN mem.users PROVE \A g \in Row(u).groups : Accounted(g, "groups")
  <1>1. UserOk(mem, hist.named, mem.users[u])
    BY ClosedRows DEF GrantInv
  <1> QED
    BY <1>1, ExistingAccounted, GrantTables DEF UserOk, Row

LEMMA GroupingsAccounted == ASSUME GrantInv PROVE \A gs \in Groupings : \A g \in gs : Accounted(g, "groups")
  <1>1. Accounted(2, "groups")
    BY SeedGroup, ExistingAccounted, GrantTables DEF Known
  <1> QED
    BY <1>1 DEF Groupings

LEMMA MergedHeld ==
    ASSUME \A i, t : Accounted(i, t) => Accounted(i, t)',
           NEW u, NEW e, NEW st, NEW gs, NEW ask, NEW off, NEW c, \A g \in gs : Accounted(g, "groups"),
           Begin(Merged(u, e, st, gs, ask, off), c)
    PROVE  HeldGroups(pending)'
  <1>1. pending'.groups = gs
    BY DEF Begin, Merged
  <1>2. \A g \in pending'.groups : Accounted(g, "groups")'
    BY <1>1
  <1> QED
    BY <1>2 DEF HeldGroups

\* The record of a user, merged with what the request states, keeps the groups that were read.
LEMMA RowHeld ==
    ASSUME GrantInv, \A i, t : Accounted(i, t) => Accounted(i, t)',
           NEW u \in DOMAIN mem.users, NEW e, NEW st, NEW ask, NEW off, NEW c, Begin(Merged(u, e, st, Row(u).groups, ask, off), c)
    PROVE  HeldGroups(pending)'
    BY RowGroups, MergedHeld

LEMMA AccountsHeld ==
    ASSUME IdInv, GrantInv, \A i, t : Accounted(i, t) => Accounted(i, t)', HeldGroups(pending), Accounts
    PROVE  HeldGroups(pending)'
  <1>1. CASE updateUser
    BY <1>1, GroupingsAccounted, MergedHeld DEF updateUser
  <1>2. CASE updateReferenceMember
    BY <1>2, RowHeld DEF updateReferenceMember
  <1>3. CASE appAdminUpdateUserRole
    BY <1>3, RowHeld DEF appAdminUpdateUserRole
  <1>4. CASE WriteUser
    <2>1. pending' = Idle
      BY <1>4 DEF WriteUser, Finish, GoOn
    <2> QED
      BY <2>1, HeldNothing DEF Idle
  <1>5. CASE pending' = pending
    BY <1>5, HeldStays
  <1>6. CASE createUser \/ appAdminAddUser \/ deleteUser \/ appAdminRemoveUser \/ deleteReferenceMember \/ deleteCurrentUser
    BY <1>5, <1>6 DEF createUser, appAdminAddUser, deleteUser, appAdminRemoveUser, deleteReferenceMember, deleteCurrentUser,
                      Request
  <1>7. CASE batchUpdateUserStatus \/ batchDeleteUsers \/ importUsersCSV
    BY <1>5, <1>7 DEF batchUpdateUserStatus, batchDeleteUsers, importUsersCSV, Request
  <1> QED
    BY <1>1, <1>2, <1>3, <1>4, <1>6, <1>7 DEF Accounts

LEMMA SyncHeld ==
    ASSUME IdInv, GrantInv, \A i, t : Accounted(i, t) => Accounted(i, t)', HeldGroups(pending), DirectorySync
    PROVE  HeldGroups(pending)'
  <1>1. CASE scimReplaceUser
    <2>1. PICK u, e, st, ask, off, c : u \in DOMAIN mem.users /\ Begin(Merged(u, e, st, Row(u).groups, ask, off), c)
      BY <1>1 DEF scimReplaceUser
    <2> QED
      BY <2>1, RowHeld
  <1>2. CASE scimPatchUser
    <2>1. PICK u, e, st, ask, off, c : u \in DOMAIN mem.users /\ Begin(Merged(u, e, st, Row(u).groups, ask, off), c)
      BY <1>2 DEF scimPatchUser
    <2> QED
      BY <2>1, RowHeld
  <1>3. CASE scimDeleteUser \/ appAdminUpdateUserRole
    BY <1>3, RowHeld DEF scimDeleteUser, appAdminUpdateUserRole
  <1>4. CASE handleLarkUserDeleted
    BY <1>4, FoundUser, RowHeld DEF handleLarkUserDeleted
  <1>5. CASE handleLarkUserUpdated
    <2>1. PICK x \in Emails : FindUserByEmail(mem, x) # {}
              /\ \E st, ask, off, c : LET u == X!Max(FindUserByEmail(mem, x)) IN Begin(Merged(u, x, st, Row(u).groups, ask, off), c)
      BY <1>5 DEF handleLarkUserUpdated
    <2> QED
      BY <2>1, FoundUser, RowHeld
  <1>6. CASE scimCreateUser \/ handleLarkUserCreated
    <2>1. pending'.op = "create"
      BY <1>6 DEF scimCreateUser, handleLarkUserCreated, Begin
    <2> QED
      BY <2>1, HeldNothing
  <1>7. CASE googleWorkspaceSyncUsers
    <2>1. \A e, in : ComputeGWSyncActions(e, in).op \in {"create", "signOff", "idle"}
      BY DEF ComputeGWSyncActions, Idle
    <2>2. pending'.op \in {"create", "signOff", "idle"}
      BY <1>7, <2>1 DEF googleWorkspaceSyncUsers, Begin
    <2> QED
      BY <2>2, HeldNothing
  <1>8. CASE WriteUser
    <2>1. pending' = Idle
      BY <1>8 DEF WriteUser, Finish, GoOn
    <2> QED
      BY <2>1, HeldNothing DEF Idle
  <1>9. CASE CreateAfterLookup
    BY <1>9 DEF CreateAfterLookup, HeldGroups, Idle
  <1>10. CASE GoogleSignOff
    <2>1. CASE pending' = Idle
      BY <2>1, HeldNothing DEF Idle
    <2>2. CASE FindUserByEmail(mem, pending.email) # {}
      <3>1. PICK v \in DOMAIN mem.users : v = X!Max(FindUserByEmail(mem, pending.email))
        BY <2>2, FoundUser
      <3>2. pending'.groups = Row(v).groups
        BY <1>10, <2>2, <3>1 DEF GoogleSignOff
      <3>3. \A g \in Row(v).groups : Accounted(g, "groups")
        BY RowGroups
      <3>4. \A g \in pending'.groups : Accounted(g, "groups")'
        BY <3>2, <3>3
      <3> QED
        BY <3>4 DEF HeldGroups
    <2> QED
      BY <1>10, <2>1, <2>2 DEF GoogleSignOff
  <1>11. CASE MobileCredentials \/ deleteUser
    <2>1. pending' = pending
      BY <1>11, CredentialsWait DEF deleteUser, Request
    <2> QED
      BY <2>1, HeldStays
  <1> QED
    BY <1>1, <1>2, <1>3, <1>4, <1>5, <1>6, <1>7, <1>8, <1>9, <1>10, <1>11 DEF DirectorySync

LEMMA GroupHeld ==
    ASSUME \A i, t : Accounted(i, t) => Accounted(i, t)', NEW g, NEW ms, NEW c, \A u \in ms : Accounted(u, "users"),
           Begin(NewMembers(g, ms), c)
    PROVE  HeldMembers(pending)'
  <1>1. pending'.members = ms
    BY DEF Begin, NewMembers
  <1>2. \A u \in pending'.members : Accounted(u, "users")'
    BY <1>1
  <1> QED
    BY <1>2 DEF HeldMembers

LEMMA GroupsHeld ==
    ASSUME IdInv, GrantInv, \A i, t : Accounted(i, t) => Accounted(i, t)', HeldMembers(pending),
           Groups \/ createUser \/ deleteUser
    PROVE  HeldMembers(pending)'
  <1>m. ASSUME NEW g \in DOMAIN mem.groups PROVE \A u \in mem.groups[g].members : Accounted(u, "users")
    <2>1. GroupOk(mem, hist.named, mem.groups[g])
      BY ClosedRows DEF GrantInv
    <2> QED
      BY <2>1, ExistingAccounted, GrantTables DEF GroupOk
  <1>k. \A u \in Known("users") : Accounted(u, "users")
    BY KnownAccounted, GrantTables
  <1>1. CASE updateReferenceGroup
    <2>1. PICK g \in DOMAIN mem.groups, ms \in SUBSET Known("users") :
              Begin(NewMembers(g, IF ms = {} THEN mem.groups[g].members ELSE ms), {})
      BY <1>1 DEF updateReferenceGroup
    <2>2. \A u \in (IF ms = {} THEN mem.groups[g].members ELSE ms) : Accounted(u, "users")
      BY <1>m, <1>k
    <2> QED
      BY <2>1, <2>2, GroupHeld
  <1>2. CASE appAdminUpdateGroup
    BY <1>2, <1>m, GroupHeld DEF appAdminUpdateGroup
  <1>3. CASE appAdminAddGroupMember
    <2>1. PICK g \in DOMAIN mem.groups, e \in Emails : FindUserByEmail(mem, e) # {}
              /\ Begin(NewMembers(g, mem.groups[g].members \cup {X!Max(FindUserByEmail(mem, e))}), {})
      BY <1>3 DEF appAdminAddGroupMember
    <2>2. X!Max(FindUserByEmail(mem, e)) \in Known("users")
      BY <2>1, FoundUser DEF Known
    <2>3. \A u \in mem.groups[g].members \cup {X!Max(FindUserByEmail(mem, e))} : Accounted(u, "users")
      BY <1>m, <1>k, <2>2
    <2> QED
      BY <2>1, <2>3, GroupHeld
  <1>4. CASE appAdminRemoveGroupMember
    <2>1. PICK g, u : g \in DOMAIN mem.groups /\ Begin(NewMembers(g, mem.groups[g].members \ {u}), {})
      BY <1>4 DEF appAdminRemoveGroupMember
    <2>2. \A x \in mem.groups[g].members \ {u} : Accounted(x, "users")
      BY <1>m, <2>1
    <2> QED
      BY <2>1, <2>2, GroupHeld
  <1>5. CASE WriteGroup \/ RestrictGroup
    <2>1. pending' = Idle
      BY <1>5 DEF WriteGroup, RestrictGroup, Finish, GoOn
    <2> QED
      BY <2>1, HeldNothing DEF Idle
  <1>6. CASE createReferenceGroup
    <2>1. pending'.op \in {"restrict", "idle"}
      BY <1>6 DEF createReferenceGroup, Then, Idle
    <2> QED
      BY <2>1, HeldNothing
  <1>7. CASE pending' = pending
    BY <1>7, HeldStays
  <1>8. CASE createUserGroup \/ updateUserGroup \/ deleteReferenceGroupZone \/ deleteReferenceGroup \/ appAdminCreateGroup
    BY <1>7, <1>8 DEF createUserGroup, updateUserGroup, deleteReferenceGroupZone, deleteReferenceGroup, appAdminCreateGroup, Request
  <1>9. CASE appAdminDeleteGroup \/ createReferenceGroupLink \/ updateReferenceGroupLink \/ deleteReferenceGroupLink
    BY <1>7, <1>9 DEF appAdminDeleteGroup, createReferenceGroupLink, updateReferenceGroupLink, deleteReferenceGroupLink, Request
  <1>10. CASE verifyReferenceGroupLinkToken \/ createUser \/ deleteUser
    BY <1>7, <1>10 DEF verifyReferenceGroupLinkToken, createUser, deleteUser, Request
  <1> QED
    BY <1>1, <1>2, <1>3, <1>4, <1>5, <1>6, <1>8, <1>9, <1>10 DEF Groups

LEMMA RightsHeld ==
    ASSUME IdInv, GrantInv, \A i, t : Accounted(i, t) => Accounted(i, t)', HeldRights(pending),
           Rights \/ deleteUser \/ batchDeleteUsers \/ createGuest \/ deleteGuest
    PROVE  HeldRights(pending)'
  <1>s. \A i : AccountedScope(i) => AccountedScope(i)'
    BY DEF AccountedScope
  <1>k. \A t \in Named : \A i \in Known(t) : Accounted(i, t)
    BY KnownAccounted
  <1>1. CASE appAdminAddTeamMember
    <2>1. PICK e \in Emails : FindUserByEmail(mem, e) # {} /\ pending'.op = "member" /\ pending'.who = X!Max(FindUserByEmail(mem, e))
      BY <1>1 DEF appAdminAddTeamMember, Begin
    <2>2. pending'.who \in Known("users")
      BY <2>1, FoundUser DEF Known
    <2>3. Accounted(pending'.who, "users")
      BY <1>k, <2>2, GrantTables
    <2>4. PICK w : w = pending'.who
      OBVIOUS
    <2>5. Accounted(w, "users")'
      BY <2>3, <2>4
    <2> QED
      BY <2>1, <2>4, <2>5 DEF HeldRights
  <1>2. CASE appAdminAssignTeamAccessRight
    <2>1. PICK k, to : /\ k \in DOMAIN mem.teams /\ to \in Scopes
                       /\ pending'.op = "teamRight" /\ pending'.team = k /\ pending'.to = to
      BY <1>2 DEF appAdminAssignTeamAccessRight, Begin
    <2>2. Accounted(k, "teams") /\ AccountedScope(to)
      BY <1>k, <2>1, GrantTables DEF Known, Scopes, AccountedScope
    <2>3. Accounted(k, "teams")' /\ AccountedScope(to)'
      BY <1>s, <2>2
    <2> QED
      BY <2>1, <2>3 DEF HeldRights
  <1>3. CASE updateReferenceAccessRightsSchedule
    <2>1. CASE \E r \in DOMAIN mem.rights : Begin([op |-> "right", id |-> r, row |-> mem.rights[r]], {})
      <3>1. PICK r, row : r \in DOMAIN mem.rights /\ row = mem.rights[r] /\ pending'.op = "right" /\ pending'.id = r /\ pending'.row = row
        BY <2>1 DEF Begin
      <3>2. r \notin Seeds => RightOk(mem, hist.named, row)
        BY <3>1, ClosedRows DEF GrantInv
      <3>3. PICK kind, who, to : kind = row.kind /\ who = row.who /\ to = row.to
        OBVIOUS
      <3>4. r \notin Seeds => kind \in {User, Team, Guest} /\ Holding(kind, who) /\ AccountedScope(to)
        BY <3>2, <3>3, ExistingAccounted, GrantTables DEF RightOk, Present, Holding, Assignees, AccountedScope
      <3>5. r \notin Seeds => kind \in {User, Team, Guest} /\ Holding(kind, who)' /\ AccountedScope(to)'
        BY <1>s, <3>4 DEF Holding
      <3> QED
        BY <3>1, <3>3, <3>5 DEF HeldRights
    <2>2. CASE \E s \in DOMAIN mem.shares : Begin([op |-> "share", id |-> s, reviewed |-> mem.shares[s].reviewed], {})
      <3>1. pending'.op = "share"
        BY <2>2 DEF Begin
      <3> QED
        BY <3>1, HeldNothing
    <2> QED
      BY <1>3, <2>1, <2>2 DEF updateReferenceAccessRightsSchedule
  <1>4. CASE WriteMember \/ WriteTeamRight \/ WriteRight \/ WriteShare
    <2>1. pending' = Idle
      BY <1>4 DEF WriteMember, WriteTeamRight, WriteRight, WriteShare, Finish, GoOn
    <2> QED
      BY <2>1, HeldNothing DEF Idle
  <1>5. CASE pending' = pending
    BY <1>5, HeldStays
  <1>6. CASE createReferenceTeam \/ updateReferenceTeam \/ deleteReferenceTeam \/ createReferenceTeamMembership
    BY <1>5, <1>6 DEF createReferenceTeam, updateReferenceTeam, deleteReferenceTeam, createReferenceTeamMembership, Request
  <1>7. CASE deleteReferenceTeamMembership \/ appAdminRemoveTeamMember \/ createReferenceRoleAssignment
    BY <1>5, <1>7 DEF deleteReferenceTeamMembership, appAdminRemoveTeamMember, createReferenceRoleAssignment, Request
  <1>8. CASE updateReferenceRoleAssignment \/ deleteReferenceRoleAssignment \/ appAdminRemoveTeamAccessRight
    BY <1>5, <1>8 DEF updateReferenceRoleAssignment, deleteReferenceRoleAssignment, appAdminRemoveTeamAccessRight, Request
  <1>9. CASE deleteReferenceGroup \/ reviewReferenceAccessRights \/ deleteUser \/ batchDeleteUsers \/ createGuest \/ deleteGuest
    BY <1>5, <1>9 DEF deleteReferenceGroup, reviewReferenceAccessRights, deleteUser, batchDeleteUsers, createGuest, deleteGuest, Request
  <1> QED
    BY <1>1, <1>2, <1>3, <1>4, <1>6, <1>7, <1>8, <1>9 DEF Rights

(* ------------------------------ the theorem ---------------------------- *)

LEMMA NextKept == ASSUME IdInv, GrantInv, HeldInv, Next PROVE Kept
  <1>b. Base
    BY GrantBase
  <1>1. /\ VisitTables \in SUBSET Tables /\ OAuth2Tables \in SUBSET Tables /\ BookingTables \in SUBSET Tables
        /\ SpaceTables \in SUBSET Tables
    BY DEF VisitTables, OAuth2Tables, BookingTables, SpaceTables, Tables
  <1>2. /\ VisitTables \cap (Naming \cup Named) = {} /\ OAuth2Tables \cap (Naming \cup Named) = {}
        /\ BookingTables \cap (Naming \cup Named) = {} /\ SpaceTables \cap (Naming \cup Named) = {}
    BY DEF VisitTables, OAuth2Tables, BookingTables, SpaceTables, Naming, Named
  <1>3. "named" \notin {} /\ "named" \notin {"moved"} /\ "named" \notin {"raced"}
    OBVIOUS
  <1>4. CASE Shape(VisitTables, {}) \/ Shape(OAuth2Tables, {})
    BY <1>1, <1>2, <1>3, <1>4, ElsewhereKept
  <1>5. CASE Shape(BookingTables, {"moved"}) \/ Shape(SpaceTables, {"raced"})
    BY <1>1, <1>2, <1>3, <1>5, ElsewhereKept
  <1>6. CASE family = "accounts" /\ Accounts
    BY <1>6, AccountsKept DEF HeldInv
  <1>7. CASE family = "sync" /\ DirectorySync
    BY <1>7, SyncKept DEF HeldInv
  <1>8. CASE family = "groups" /\ (Groups \/ createUser \/ deleteUser)
    BY <1>8, GroupsKept DEF HeldInv
  <1>9. CASE family = "rights" /\ (Rights \/ deleteUser \/ batchDeleteUsers \/ createGuest \/ deleteGuest)
    BY <1>9, RightsKept DEF HeldInv
  <1> QED
    BY <1>b, <1>4, <1>5, <1>6, <1>7, <1>8, <1>9, NextShape, CrashKept, PremisesKept, SharesKept, BatchesKept, InvitationsKept

LEMMA NextHeld == ASSUME IdInv, GrantInv, HeldInv, Next PROVE HeldInv'
  <1>b. Base
    BY GrantBase
  <1>1. hist.named \subseteq hist'.named
    BY NextKept DEF Kept
  <1>2. \A i, t : Accounted(i, t) => Accounted(i, t)'
    BY <1>1, AccountedStays
  <1>3. CASE Crash
    <2>1. pending'.op = "idle"
      BY <1>3 DEF Crash, Idle
    <2> QED
      BY <2>1, HeldNothing DEF HeldInv
  <1>4. CASE family = "accounts" /\ Accounts /\ family' = family
    BY <1>2, <1>4, AccountsHeld DEF HeldInv
  <1>5. CASE family = "sync" /\ DirectorySync /\ family' = family
    BY <1>2, <1>5, SyncHeld DEF HeldInv
  <1>6. CASE family = "groups" /\ (Groups \/ createUser \/ deleteUser) /\ family' = family
    BY <1>2, <1>6, GroupsHeld DEF HeldInv
  <1>7. CASE family = "rights" /\ (Rights \/ deleteUser \/ batchDeleteUsers \/ createGuest \/ deleteGuest) /\ family' = family
    BY <1>2, <1>7, RightsHeld DEF HeldInv
  <1>8. CASE family \notin {"accounts", "sync", "groups", "rights"} /\ family' = family
    BY <1>8 DEF HeldInv
  <1>9. ASSUME NEW T, NEW H, Shape(T, H) PROVE family' = family
    BY <1>9 DEF Shape
  <1> QED
    BY <1>b, <1>3, <1>4, <1>5, <1>6, <1>7, <1>8, <1>9, NextShape

LEMMA NextKeepsGrants == ASSUME IdInv, GrantInv /\ HeldInv, [Next]_vars PROVE (GrantInv /\ HeldInv)'
  <1>1. CASE UNCHANGED vars
    <2>1. mem' = mem /\ stored' = stored /\ next' = next /\ hist' = hist /\ family' = family /\ pending' = pending
      BY <1>1 DEF vars
    <2>2. GrantInv'
      BY <2>1, TablesKept DEF Kept
    <2>3. \A i, t : Accounted(i, t) => Accounted(i, t)'
      BY <2>1 DEF Accounted, Only
    <2>4. HeldInv'
      BY <2>1, <2>3, HeldStays DEF HeldInv
    <2> QED
      BY <2>2, <2>4
  <1>2. CASE Next
    BY <1>2, NextKept, NextHeld DEF Kept
  <1> QED
    BY <1>1, <1>2

(***************************************************************************)
(* NoDanglingGrant is an invariant of every instance: a deletion takes     *)
(* with it every row that names what it removes, what a waiting request    *)
(* has read is a row of its table or becomes a name when it is written,    *)
(* and no id is ever given to rows of two tables, so that a number that is *)
(* in use is in use where the row that names it means it.                  *)
(***************************************************************************)
THEOREM GrantsNameRows == Spec => []NoDanglingGrant
  <1>1. Init => GrantInv /\ HeldInv
    <2>1. Init => pending.op = "idle"
      BY DEF Init, Idle
    <2>2. pending.op = "idle" => HeldInv
      BY DEF HeldInv, HeldGroups, HeldMembers, HeldRights
    <2> QED
      BY <2>1, <2>2, InitGrants
  <1>2. GrantInv => NoDanglingGrant
    BY ClosedIsIt
  <1> QED
    BY <1>1, <1>2, InitIds, NextKeepsIds, NextKeepsGrants, PTL DEF Spec
=============================================================================
