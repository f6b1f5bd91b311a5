---------------------------- MODULE AccessState -----------------------------
(***************************************************************************)
(* One API process in front of the access service: its tables in memory,   *)
(* the snapshot in the state store, and at most one request that has read  *)
(* and not yet written.  Every method saves the whole snapshot under the   *)
(* service's lock; a save may fail, and a failed one is undone in memory   *)
(* by some methods only.  The process may stop between any two steps.      *)
(***************************************************************************)
EXTENDS AccessTables

CONSTANTS MaxRequests,            \* bound: the requests of each family
          MaxFaults, MaxCrashes   \* bounds: failed saves, crashes

VARIABLES
    family,   \* the part of the interface this behaviour exercises
    mem,      \* Service: the tables in memory
    stored,   \* the snapshot in the state store
    pending,  \* the request that has read and will write
    creds,    \* credential service: the mobile credentials, held in memory and kept in the state store
    next,     \* the next id
    hist,     \* what the properties remember of the past
    budget    \* what is left of the bounds

vars == <<family, mem, stored, pending, creds, next, hist, budget>>

Families == {"accounts", "batches", "sync", "invitations", "groups", "rights", "shares", "bookings", "visits",
             "premises", "oauth2", "topology"}
Idle == [op |-> "idle"]

(***************************************************************************)
(* hist: gone     ids a request removed and the caller was told so         *)
(*       named    ids a request referred to when their row was not there   *)
(*       susp     users suspended by a saved request, since when no       *)
(*                request stated another status or wrote back an older one *)
(*       off      users a directory signed off, for whom no credential was *)
(*                registered or activated since the request began          *)
(*       reg      users for whom one was since the pending read            *)
(*       lost     users whose credential was taken out of use by a change  *)
(*                that was not saved                                       *)
(*       moved    bookings moved or revived past the capacity check, and   *)
(*                spaces whose capacity was edited                         *)
(*       raced    rows of the space service created on a check that no     *)
(*                longer held when they were written                       *)
(***************************************************************************)
NoHistory == [gone |-> {}, named |-> {}, susp |-> {}, off |-> {}, reg |-> {}, lost |-> {}, moved |-> {},
              raced |-> {}]

Names(h, S) == [h EXCEPT !.named = @ \cup (S \ Ids(mem))]
Asks(h, U, st) == [h EXCEPT !.susp = IF st = "suspended" THEN @ \cup U ELSE @ \ U]
Moves(h, S) == [h EXCEPT !.moved = @ \cup S]

NextId(d) == X!Max({next} \cup {i + 1 : i \in Ids(d)})

(***************************************************************************)
(* A method makes d of the tables and saves.  h is what is remembered once *)
(* the caller has its answer; undo says whether a failed save is undone.   *)
(***************************************************************************)
Saved(d, h) ==
    /\ mem' = d
    /\ stored' = persistLocked(d)
    /\ hist' = [h EXCEPT !.gone = @ \cup (Ids(mem) \ Ids(d))]

NotSaved(d, undo, h) ==
    /\ mem' = IF undo THEN mem ELSE d
    /\ UNCHANGED stored
    /\ hist' = IF undo THEN hist ELSE [h EXCEPT !.susp = @ \cap hist.susp, !.off = @ \cap hist.off]

Save(d, undo, h, cost) ==
    \E f \in 0..1 :
        /\ budget.req >= cost /\ budget.fault >= f
        /\ budget' = [budget EXCEPT !.req = @ - cost, !.fault = @ - f]
        /\ IF f = 0 THEN Saved(d, h) ELSE NotSaved(d, undo, h)
        /\ next' = NextId(d)

\* A request of one locked step ...
Request(d, undo, h) == Save(d, undo, h, 1) /\ UNCHANGED <<family, pending, creds>>

(***************************************************************************)
(* The credential service: the users with an active and the users with a   *)
(* suspended mobile credential.  Its save writes all credentials, and a    *)
(* failed one is only logged.                                              *)
(***************************************************************************)
SuspendCredential(c, u) == [active |-> c.active \ {u}, suspended |-> c.suspended \cup {u}]
ActivateCredential(c, u) == [active |-> c.active \cup {u}, suspended |-> c.suspended \ {u}]
RegisterDevice(c, u) == [active |-> c.active \cup {u}, suspended |-> c.suspended]
RevokeCredential(c, A, S) == [active |-> c.active \ A, suspended |-> c.suspended \ S]

PersistCredentials(c, h, cost) ==
    \E f \in 0..1 :
        /\ budget.req >= cost /\ budget.fault >= f
        /\ budget' = [budget EXCEPT !.req = @ - cost, !.fault = @ - f]
        /\ creds' = [held |-> c, kept |-> IF f = 0 THEN c ELSE creds.kept]
        /\ hist' = [h EXCEPT !.lost = IF f = 0 THEN @ \cap c.active ELSE @ \cup (creds.kept.active \ c.active)]

\* The active credentials of the users U; without one nothing is saved, a suspended one stays.
RevokeAllUserCredentials(U, h, cost) ==
    IF U \cap creds.held.active # {} THEN PersistCredentials(RevokeCredential(creds.held, U, {}), h, cost)
    ELSE /\ budget.req >= cost
         /\ budget' = [budget EXCEPT !.req = @ - cost]
         /\ hist' = h
         /\ UNCHANGED creds

\* ... the read of a request of several, which may revoke the credentials of the users U, and its
\* last write, answered as not found by a FALSE guard.
Begin(p, U) ==
    /\ pending = Idle
    /\ pending' = p
    /\ RevokeAllUserCredentials(U, [hist EXCEPT !.reg = {}], 1)
    /\ UNCHANGED <<family, mem, stored, next>>

GoOn(d, undo, h, p) == Save(d, undo, h, 0) /\ pending' = p /\ UNCHANGED <<family, creds>>

Finish(guard, d, undo, h) ==
    IF guard THEN GoOn(d, undo, h, Idle)
    ELSE pending' = Idle /\ UNCHANGED <<family, mem, stored, creds, next, hist, budget>>

\* A request that changes what only memory holds, outside the service's tables.
InMemory(d, h, p) ==
    /\ mem' = d /\ hist' = h /\ pending' = p
    /\ next' = NextId(d)
    /\ UNCHANGED <<family, stored, creds>>

\* What has been set up before: a space with a limit, an OAuth2 client.
SetUp(f) ==
    CASE f = "bookings" -> CreateBookableSpace(NewService, 10, "limited_capacity", 1)
      [] f = "oauth2"   -> CreateOAuth2Client(NewService, 10)
      [] OTHER          -> NewService

DemoCredentials == [active |-> {1}, suspended |-> {}]

Init ==
    /\ family \in Families
    /\ mem = SetUp(family)
    /\ stored = persistLocked(mem)
    /\ pending = Idle
    /\ creds = [held |-> DemoCredentials, kept |-> DemoCredentials]
    /\ next = 20
    /\ hist = NoHistory
    /\ budget = [req |-> MaxRequests[family], fault |-> MaxFaults, crash |-> MaxCrashes]

\* The process stops, the request it was serving is lost, and a new one restores.
Crash ==
    /\ budget.crash > 0
    /\ budget' = [budget EXCEPT !.crash = @ - 1]
    /\ mem' = restoreFromStateStore(stored)
    /\ creds' = [held |-> creds.kept, kept |-> creds.kept]
    /\ pending' = Idle
    /\ UNCHANGED <<family, stored, next, hist>>
=============================================================================
