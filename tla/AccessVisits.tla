---------------------------- MODULE AccessVisits ----------------------------
(***************************************************************************)
(* The handlers of bookable spaces and bookings, and those of guests,      *)
(* visitor passes, policies, schedules, elevators, organization settings   *)
(* and OAuth2 clients with their authorization codes.                      *)
(***************************************************************************)
EXTENDS AccessState

Hours == 1..3
Modes == {"single_occupancy", "limited_capacity"}
BookingStatuses == {"confirmed", "checked_in", "completed", "cancelled", "no_show"}

(* --------------------------- spaces and bookings ----------------------- *)

createBookableSpace == \E mode \in Modes, cap \in 0..2 :
    Request(CreateBookableSpace(mem, next, mode, cap), FALSE, hist)

updateBookableSpace == \E s \in DOMAIN mem.spaces, mode \in Modes, cap \in 0..2 :
    Request(UpdateBookableSpace(mem, s, mode, cap), FALSE, Moves(hist, {s}))

deleteBookableSpace == \E s \in DOMAIN mem.spaces : Request(DeleteBookableSpace(mem, s), FALSE, hist)

createBooking == \E s \in DOMAIN mem.spaces, a, z \in Hours :
    /\ a < z /\ Free(mem, s, a, z)
    /\ Request(CreateBooking(mem, next, s, a, z), FALSE, hist)

appCreateBooking == \E s \in DOMAIN mem.spaces, a, z \in Hours :
    /\ a < z /\ Free(mem, s, a, z)
    /\ Request(CreateBooking(mem, next, s, a, z), FALSE, hist)

CheckedIn(b) == mem.bookings[b].st = "checked_in"

\* The fields are written first: an end before the start is refused after they changed in memory.
updateBooking == \E b \in DOMAIN mem.bookings, a, z \in Hours, st \in BookingStatuses :
    LET d == UpdateBooking(mem, b, a, z, st)
        h == Moves(hist, {b})
    IN  \/ a < z /\ Request(d, FALSE, h)
        \/ /\ a >= z /\ budget.req > 0
           /\ budget' = [budget EXCEPT !.req = @ - 1]
           /\ InMemory(d, h, pending)

\* A checked-in booking may be cancelled: its place stays taken.
appCancelBooking == \E b \in DOMAIN mem.bookings :
    LET row == mem.bookings[b]
    IN  /\ row.start < row.end
        /\ Request(UpdateBooking(mem, b, row.start, row.end, "cancelled"), FALSE, hist)

deleteBooking == \E b \in DOMAIN mem.bookings :
    Request(DeleteBooking(mem, b), FALSE, hist)

\* Any booking that is not checked in can be: an ended one comes back past the capacity check.
Revives(h, b) == IF mem.bookings[b].st \in Live THEN h ELSE Moves(h, {b})

checkInBooking == \E b \in DOMAIN mem.bookings :
    ~CheckedIn(b) /\ Request(CheckInBooking(mem, b), FALSE, Revives(hist, b))

appCheckInBooking == \E b \in DOMAIN mem.bookings :
    ~CheckedIn(b) /\ Request(CheckInBooking(mem, b), FALSE, Revives(hist, b))

checkOutBooking == \E b \in DOMAIN mem.bookings : CheckedIn(b) /\ Request(CheckOutBooking(mem, b), FALSE, hist)

appCheckOutBooking == \E b \in DOMAIN mem.bookings : CheckedIn(b) /\ Request(CheckOutBooking(mem, b), FALSE, hist)

Bookings ==
    \/ createBookableSpace \/ updateBookableSpace \/ deleteBookableSpace \/ createBooking \/ appCreateBooking
    \/ updateBooking \/ appCancelBooking \/ deleteBooking \/ checkInBooking \/ appCheckInBooking
    \/ checkOutBooking \/ appCheckOutBooking

(* ------------------------- visitors and policies ----------------------- *)

GuestStatuses == {"expected", "checked_in", "checked_out", "cancelled"}

createGuest == Request(CreateGuest(mem, next), FALSE, hist)

updateGuestStatus == \E g \in DOMAIN mem.guests, st \in GuestStatuses :
    Request(UpdateGuestStatus(mem, g, st), FALSE, hist)

deleteGuest == \E g \in DOMAIN mem.guests : Request(DeleteGuest(mem, g), FALSE, hist)

appAdminCreateGuest == Request(CreateGuest(mem, next), FALSE, hist)

appAdminUpdateGuestStatus == \E g \in DOMAIN mem.guests, st \in GuestStatuses :
    Request(UpdateGuestStatus(mem, g, st), FALSE, hist)

appAdminDeleteGuest == \E g \in DOMAIN mem.guests : Request(DeleteGuest(mem, g), FALSE, hist)

createVisitorPass == Request(CreateVisitorPass(mem, next), FALSE, hist)

appCreateVisitorPass == Request(CreateVisitorPass(mem, next), FALSE, hist)

appCreateVisitorPassEnhanced == Request(CreateVisitorPass(mem, next), FALSE, hist)

createAccessPolicy == \E st \in {"active", "paused"} : Request(CreatePolicy(mem, next, st), FALSE, hist)

updateAccessPolicy == \E p \in DOMAIN mem.policies, st \in {"active", "paused"} :
    Request(UpdatePolicy(mem, p, st), FALSE, hist)

(* ---------------- schedules, elevators, the organization --------------- *)

NoCalendar == 0
Calendars == DOMAIN mem.calendars \cup {NoCalendar}

createHolidayCalendar == Request(CreateHolidayCalendar(mem, next), FALSE, hist)

updateHolidayCalendar == \E c \in DOMAIN mem.calendars : Request(UpdateHolidayCalendar(mem, c), FALSE, hist)

deleteHolidayCalendar == \E c \in DOMAIN mem.calendars : Request(DeleteHolidayCalendar(mem, c), FALSE, hist)

createSchedule == \E c \in Calendars : Request(CreateSchedule(mem, next, c), FALSE, hist)

updateSchedule == \E s \in DOMAIN mem.schedules, c \in Calendars : Request(UpdateSchedule(mem, s, c), FALSE, hist)

deleteSchedule == \E s \in DOMAIN mem.schedules : Request(DeleteSchedule(mem, s), FALSE, hist)

appAdminCreateSchedule == \E c \in Calendars : Request(CreateSchedule(mem, next, c), FALSE, hist)

appAdminUpdateSchedule == \E s \in DOMAIN mem.schedules, c \in Calendars :
    Request(UpdateSchedule(mem, s, c), FALSE, hist)

appAdminDeleteSchedule == \E s \in DOMAIN mem.schedules : Request(DeleteSchedule(mem, s), FALSE, hist)

createElevator == Request(CreateElevator(mem, next), FALSE, hist)

updateElevator == \E e \in DOMAIN mem.elevators : Request(UpdateElevator(mem, e), FALSE, hist)

deleteElevator == \E e \in DOMAIN mem.elevators : Request(DeleteElevator(mem, e), FALSE, hist)

\* Neither the elevator of a stop nor the group of a stop or terminal is looked up: 0 is one not there.
createElevatorStop == \E e \in DOMAIN mem.elevators \cup {0} : Request(CreateElevatorStop(mem, next, e), FALSE, hist)

updateElevatorStop == \E s \in DOMAIN mem.stops : Request(UpdateElevatorStop(mem, s), FALSE, hist)

deleteElevatorStop == \E s \in DOMAIN mem.stops : Request(DeleteElevatorStop(mem, s), FALSE, hist)

lockDownElevatorStop == \E s \in DOMAIN mem.stops : Request(SetElevatorStopStatus(mem, s, "locked_down"), FALSE, hist)

cancelElevatorStopLockdown == \E s \in DOMAIN mem.stops : Request(SetElevatorStopStatus(mem, s, "active"), FALSE, hist)

createGroupElevatorStop == \E g \in DOMAIN mem.groups \cup {0}, s \in DOMAIN mem.stops \cup {0} :
    Request(CreateGroupElevatorStop(mem, next, g, s), FALSE, hist)

deleteGroupElevatorStop == \E x \in DOMAIN mem.groupStops : Request(DeleteGroupElevatorStop(mem, x), FALSE, hist)

createGroupTerminal == \E g \in DOMAIN mem.groups \cup {0} : Request(CreateGroupTerminal(mem, next, g), FALSE, hist)

deleteGroupTerminal == \E x \in DOMAIN mem.terminals : Request(DeleteGroupTerminal(mem, x), FALSE, hist)

createCSVCardImport == Request(CreateCSVCardImport(mem, next), FALSE, hist)

updateOrganizationSettings == Request(UpdateOrganizationSettings(mem), FALSE, hist)

rotateOrganizationWebhooks == Request(RotateWebhookSecret(mem), FALSE, hist)

disableOrganization == Request(DisableOrganization(mem), FALSE, hist)

\* The tables that stay go on naming the rows that moved.
transferOrganization ==
    /\ OrgStatus(mem) = "active"
    /\ Request(TransferOrganization(mem), FALSE,
               [hist EXCEPT !.named = @ \cup (UNION {DOMAIN mem[t] : t \in Moving})])

(* -------------------- OAuth2 clients and their codes ------------------- *)

registerOAuth2Client == Request(CreateOAuth2Client(mem, next), FALSE, hist)

\* The client is read, edited and written back; whether it is enabled may be left as read.
updateOAuth2Client == \E c \in DOMAIN mem.clients, on \in BOOLEAN :
    Begin([op |-> "client", id |-> c, on |-> on], {})

WriteClient ==
    /\ pending.op = "client"
    /\ Finish(pending.id \in DOMAIN mem.clients, UpdateOAuth2Client(mem, pending.id, pending.on), FALSE, hist)

\* The client goes first; its codes in a step of their own, and not after a failed save.
deleteOAuth2Client == \E c \in DOMAIN mem.clients :
    /\ pending = Idle
    /\ Save(DeleteOAuth2Client(mem, c), FALSE, hist, 1)
    /\ pending' = IF stored' = stored THEN Idle ELSE [op |-> "codes", id |-> c]
    /\ UNCHANGED <<family, creds>>

DropCodes ==
    /\ pending.op = "codes"
    /\ InMemory(Drop(mem, "codes", Rows(mem, "codes", LAMBDA k : k.client = pending.id)), hist, Idle)
    /\ UNCHANGED budget

\* A code is stored a step after the client was found enabled.
oauth2Authorize == \E c \in DOMAIN mem.clients :
    mem.clients[c].on /\ Begin([op |-> "code", id |-> c], {})

StoreCode ==
    /\ pending.op = "code"
    /\ InMemory(Put(mem, "codes", next, [client |-> pending.id, used |-> FALSE]), hist, Idle)
    /\ UNCHANGED budget

\* One use marks the code, the next one removes it; expired codes are removed as well.
oauth2Token == \E k \in DOMAIN mem.codes, expired \in BOOLEAN :
    /\ pending = Idle /\ budget.req > 0
    /\ budget' = [budget EXCEPT !.req = @ - 1]
    /\ IF mem.codes[k].used \/ expired
       THEN InMemory(Drop(mem, "codes", {k}), hist, Idle)
       ELSE InMemory([mem EXCEPT !.codes[k].used = TRUE], hist,
                     [op |-> "token", id |-> k, client |-> mem.codes[k].client])

\* The client and its secret are checked after the code was spent; a token changes no
\* table.
oauth2IssueAccessToken ==
    /\ pending.op = "token"
    /\ InMemory(mem, hist, Idle)
    /\ UNCHANGED budget

Visits ==
    \/ createGuest \/ updateGuestStatus \/ deleteGuest \/ appAdminCreateGuest \/ appAdminUpdateGuestStatus
    \/ appAdminDeleteGuest \/ createVisitorPass \/ appCreateVisitorPass \/ appCreateVisitorPassEnhanced
    \/ createAccessPolicy \/ updateAccessPolicy

Premises ==
    \/ createHolidayCalendar \/ updateHolidayCalendar \/ deleteHolidayCalendar \/ createSchedule \/ updateSchedule
    \/ deleteSchedule \/ appAdminCreateSchedule \/ appAdminUpdateSchedule \/ appAdminDeleteSchedule
    \/ createElevator \/ updateElevator \/ deleteElevator \/ createElevatorStop \/ updateElevatorStop
    \/ deleteElevatorStop \/ lockDownElevatorStop \/ cancelElevatorStopLockdown \/ createGroupElevatorStop
    \/ deleteGroupElevatorStop \/ createGroupTerminal \/ deleteGroupTerminal \/ createCSVCardImport
    \/ updateOrganizationSettings \/ rotateOrganizationWebhooks \/ disableOrganization \/ transferOrganization

OAuth2 ==
    \/ registerOAuth2Client \/ updateOAuth2Client \/ WriteClient \/ deleteOAuth2Client \/ DropCodes
    \/ oauth2Authorize \/ StoreCode \/ oauth2Token \/ oauth2IssueAccessToken
=============================================================================
