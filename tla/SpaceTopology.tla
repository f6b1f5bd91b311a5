--------------------------- MODULE SpaceTopology ----------------------------
(***************************************************************************)
(* The space service (modules/space) behind its handlers: buildings,       *)
(* floors, areas, doors and door groups.  Its tables are saved whole under *)
(* a key of their own; a failed save is not undone.  A creation checks its *)
(* parents under the read lock and adds the row under a later lock; every  *)
(* other method checks and writes under one lock.  Building scopes are     *)
(* left out, and a value a handler reads to fill in what a request leaves  *)
(* out is one a request could name: those handlers are one step.           *)
(***************************************************************************)
EXTENDS AccessState

findBuilding(d) == {b \in DOMAIN d.buildings : d.buildings[b] = "active"}

(* ------------------- what a row's parents have to be ------------------- *)

FloorFits(d, b) == b \in findBuilding(d)
AreaFits(d, b, f) == FloorFits(d, b) /\ f \in DOMAIN d.floors /\ d.floors[f].b = b
DoorFits(d, b, f, a) == AreaFits(d, b, f) /\ a \in DOMAIN d.areas /\ d.areas[a] = [b |-> b, f |-> f]
GroupFits(d, D) == D \subseteq DOMAIN d.doors

(* ------------------------------- service.go ---------------------------- *)

CreateBuilding(d, id) == Put(d, "buildings", id, "active")

\* Name, address and region are no part of the row.
UpdateBuilding(d, b) == d

removeDoorIDsFromGroups(d, D) == [d EXCEPT !.doorGroups = [g \in DOMAIN @ |-> @[g] \ D]]

\* Areas A and doors D go, the doors from their groups too.
Clear(d, A, D) == removeDoorIDsFromGroups(Drop(Drop(d, "areas", A), "doors", D), D)

\* The building stays as archived; what names it goes.
DeleteBuilding(d, b) ==
    LET In(t) == Rows(d, t, LAMBDA r : r.b = b)
    IN  [Drop(Clear(d, In("areas"), In("doors")), "floors", In("floors")) EXCEPT !.buildings[b] = "archived"]

CreateFloor(d, id, b) == Put(d, "floors", id, [b |-> b])

\* A slip: the doors stay in the old building.
UpdateFloor_Bug(d, f, b) ==
    [d EXCEPT !.floors[f].b = b,
              !.areas = [a \in DOMAIN @ |-> IF @[a].f = f THEN [@[a] EXCEPT !.b = b] ELSE @[a]]]

\* A floor that moves takes along what names it.
UpdateFloor(d, f, b) ==
    IF d.floors[f].b = b THEN d
    ELSE [d EXCEPT !.floors[f].b = b,
                   !.areas = [a \in DOMAIN @ |-> IF @[a].f = f THEN [@[a] EXCEPT !.b = b] ELSE @[a]],
                   !.doors = [x \in DOMAIN @ |-> IF @[x].f = f THEN [@[x] EXCEPT !.b = b] ELSE @[x]]]

DeleteFloor(d, f) ==
    LET On(t) == Rows(d, t, LAMBDA r : r.f = f)
    IN  Drop(Clear(d, On("areas"), On("doors")), "floors", {f})

CreateArea(d, id, b, f) == Put(d, "areas", id, [b |-> b, f |-> f])

UpdateArea(d, a, b, f) ==
    IF d.areas[a] = [b |-> b, f |-> f] THEN d
    ELSE [d EXCEPT !.areas[a] = [b |-> b, f |-> f],
                   !.doors = [x \in DOMAIN @ |-> IF @[x].a = a THEN [b |-> b, f |-> f, a |-> a] ELSE @[x]]]

CreateDoor(d, id, b, f, a) == Put(d, "doors", id, [b |-> b, f |-> f, a |-> a])

UpdateDoor(d, x, b, f, a) == [d EXCEPT !.doors[x] = [b |-> b, f |-> f, a |-> a]]

DeleteDoor(d, x) == Clear(d, {}, {x})

CreateDoorGroup(d, id, D) == Put(d, "doorGroups", id, D)

AddDoorToGroup(d, g, x) == [d EXCEPT !.doorGroups[g] = @ \cup {x}]

RemoveDoorFromGroup(d, g, x) == [d EXCEPT !.doorGroups[g] = @ \ {x}]

(* -------------------------------- handlers ----------------------------- *)

createBuilding == Request(CreateBuilding(mem, next), FALSE, hist)
createReferencePlace == Request(CreateBuilding(mem, next), FALSE, hist)

updateReferencePlace == \E b \in findBuilding(mem) : Request(UpdateBuilding(mem, b), FALSE, hist)
deleteReferencePlace == \E b \in findBuilding(mem) : Request(DeleteBuilding(mem, b), FALSE, hist)

\* What the write of a creation leaves to remember when its check no longer holds.
Races(fits) == IF fits THEN hist ELSE [hist EXCEPT !.raced = @ \cup {next}]

createFloor ==
    \/ \E b \in DOMAIN mem.buildings : FloorFits(mem, b) /\ Begin([op |-> "createFloor", b |-> b], {})
    \/ /\ pending.op = "createFloor"
       /\ Finish(TRUE, CreateFloor(mem, next, pending.b), FALSE, Races(FloorFits(mem, pending.b)))

updateFloor == \E f \in DOMAIN mem.floors, b \in findBuilding(mem) : Request(UpdateFloor(mem, f, b), FALSE, hist)
deleteFloor == \E f \in DOMAIN mem.floors : Request(DeleteFloor(mem, f), FALSE, hist)

createArea ==
    \/ \E b \in DOMAIN mem.buildings, f \in DOMAIN mem.floors :
           AreaFits(mem, b, f) /\ Begin([op |-> "createArea", b |-> b, f |-> f], {})
    \/ /\ pending.op = "createArea"
       /\ Finish(TRUE, CreateArea(mem, next, pending.b, pending.f), FALSE, Races(AreaFits(mem, pending.b, pending.f)))

updateArea == \E a \in DOMAIN mem.areas, b \in DOMAIN mem.buildings, f \in DOMAIN mem.floors :
    AreaFits(mem, b, f) /\ Request(UpdateArea(mem, a, b, f), FALSE, hist)

addDoor(op) ==
    \/ \E b \in DOMAIN mem.buildings, f \in DOMAIN mem.floors, a \in DOMAIN mem.areas :
           DoorFits(mem, b, f, a) /\ Begin([op |-> op, b |-> b, f |-> f, a |-> a], {})
    \/ /\ pending.op = op
       /\ Finish(TRUE, CreateDoor(mem, next, pending.b, pending.f, pending.a), FALSE,
                 Races(DoorFits(mem, pending.b, pending.f, pending.a)))

createDoor == addDoor("createDoor")
createReferenceLock == addDoor("createReferenceLock")

updateReferenceLock ==
    \E x \in DOMAIN mem.doors, b \in DOMAIN mem.buildings, f \in DOMAIN mem.floors, a \in DOMAIN mem.areas :
        DoorFits(mem, b, f, a) /\ Request(UpdateDoor(mem, x, b, f, a), FALSE, hist)

deleteReferenceLock == \E x \in DOMAIN mem.doors : Request(DeleteDoor(mem, x), FALSE, hist)

createDoorGroup ==
    \/ \E D \in SUBSET DOMAIN mem.doors : GroupFits(mem, D) /\ Begin([op |-> "createDoorGroup", doors |-> D], {})
    \/ /\ pending.op = "createDoorGroup"
       /\ Finish(TRUE, CreateDoorGroup(mem, next, pending.doors), FALSE, Races(GroupFits(mem, pending.doors)))

\* A door the group has is answered without a save.
createReferenceGroupLock == \E g \in DOMAIN mem.doorGroups, x \in DOMAIN mem.doors :
    x \notin mem.doorGroups[g] /\ Request(AddDoorToGroup(mem, g, x), FALSE, hist)

deleteReferenceGroupLock == \E g \in DOMAIN mem.doorGroups : \E x \in mem.doorGroups[g] :
    Request(RemoveDoorFromGroup(mem, g, x), FALSE, hist)

Topology ==
    \/ createBuilding \/ createReferencePlace \/ updateReferencePlace \/ deleteReferencePlace
    \/ createFloor \/ updateFloor \/ deleteFloor \/ createArea \/ updateArea
    \/ createDoor \/ createReferenceLock \/ updateReferenceLock \/ deleteReferenceLock
    \/ createDoorGroup \/ createReferenceGroupLock \/ deleteReferenceGroupLock
=============================================================================
