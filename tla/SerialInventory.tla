-------------------------- MODULE SerialInventory --------------------------
(***************************************************************************)
(* The cloud's gateway service as the owner of hardware serial numbers     *)
(* (api/internal/modules/gateway/service.go): the inventory of serials,    *)
(* the registered gateways and the devices attached to them.  Registration *)
(* consumes a serial, removal releases it, an administrator may change an  *)
(* inventory status at any time.                                           *)
(*                                                                         *)
(* Every operation runs under Service.mu and changes memory BEFORE it      *)
(* saves; when the save fails, or a batch stops half-way, the caller gets  *)
(* an error and memory keeps the change.  A restart loads the last         *)
(* snapshot saved.  One tenant: operations of another one return early.    *)
(***************************************************************************)
EXTENDS Integers, FiniteSets
Permuting == INSTANCE TLC

CONSTANTS
    Gateways,     \* gateway IDs (gatewayID() never repeats one)
    GwSerials,    \* serials of product type gateway
    DevSerials,   \* serials of devices
    None,         \* the empty string
    Capacity,     \* Gateway.DeviceCapacity
    MaxOps        \* bound: operations

Serials == GwSerials \cup DevSerials
Procured == "mistypass_procured"
Sources == {Procured, "legacy_integration"}

ASSUME SerialInventoryAssumption ==
    /\ IsFiniteSet(DevSerials) /\ GwSerials \cap DevSerials = {}
    /\ None \notin Gateways \cup Serials \cup Sources
    /\ Capacity \in Nat \ {0} /\ MaxOps \in Nat

VARIABLES
    inv,      \* s.serialInventory: status and ConsumedGatewayID per serial
    gw,       \* s.gateways: serial and devices (serial -> Source) per ID
    db,       \* the snapshot in the state store
    used,     \* gateway IDs ever generated
    touched,  \* history: serials whose status an administrator changed
    resourced,\* history: devices registered again under another source
    ops

vars == <<inv, gw, db, used, touched, resourced, ops>>

Statuses == {"available", "consumed", "frozen", "scrapped"}
Absent == [status |-> "absent", by |-> None]      \* not imported
Available == [status |-> "available", by |-> None]
Unregistered == [serial |-> None, source |-> [d \in DevSerials |-> None]]

\* The devices of a gateway record.
Devices(r) == {d \in DevSerials : r.source[d] # None}

\* A piece of hardware has one place in a table of gateways: no two gateways
\* share a serial, no device is attached to two gateways, only registered
\* gateways have devices and none has more than its capacity.
OnePlace(table) ==
    \A g \in Gateways :
      /\ Cardinality(Devices(table[g])) <= Capacity
      /\ table[g].serial = None => Devices(table[g]) = {}
      /\ \A h \in Gateways \ {g} :
           /\ table[g].serial # None => table[h].serial # table[g].serial
           /\ Devices(table[g]) \cap Devices(table[h]) = {}

Items == [status : Statuses \cup {"absent"}, by : Gateways \cup {None}]
Records == [serial : GwSerials \cup {None}, source : [DevSerials -> Sources \cup {None}]]

\* The serials gateway g of a table accounts for: its own and its procured
\* devices'.
Owned(table, g) ==
    {s \in GwSerials : table[g].serial = s} \cup {d \in DevSerials : table[g].source[d] = Procured}

\* serialInventoryFromGateways: an inventory for gateways that come without one.
SerialInventoryFromGateways(table) ==
    [s \in Serials |-> IF \E g \in Gateways : s \in Owned(table, g)
                         THEN [status |-> "consumed",
                               by |-> CHOOSE g \in Gateways : s \in Owned(table, g)]
                         ELSE Absent]

\* NewService and restoreFromStateStore: the seed, or a snapshot from before the
\* inventory existed, is completed and saved.
Init ==
    /\ gw \in [Gateways -> Records] /\ OnePlace(gw)
    /\ inv = SerialInventoryFromGateways(gw)
    /\ db = [inv |-> inv, gw |-> gw]
    /\ used = {g \in Gateways : gw[g].serial # None}
    /\ touched = {} /\ resourced = {} /\ ops = 0

Registered(g) == gw[g].serial # None
Attached(g) == Devices(gw[g])

CountOp == ops < MaxOps /\ ops' = ops + 1

\* persistLocked: saved, or an error and the store is as it was.
Persist == db' \in {[inv |-> inv', gw |-> gw'], db}

-----------------------------------------------------------------------------
(* Inventory.                                                              *)

\* Mutant: importing a known serial again makes it available.
ImportSerialInventory_Resets(S) ==
    /\ CountOp
    /\ inv' = [s \in Serials |-> IF s \in S THEN Available ELSE inv[s]]
    /\ UNCHANGED <<gw, used, touched, resourced>>
    /\ Persist

\* ImportSerialInventory adds serials it does not know.  A bad record in the
\* middle returns early, with the records before it added and nothing saved.
ImportSerialInventory(S) ==
    /\ CountOp
    /\ inv' = [s \in Serials |-> IF s \in S /\ inv[s] = Absent THEN Available ELSE inv[s]]
    /\ UNCHANGED <<gw, used, touched, resourced>>
    /\ Persist

\* applySerialInventoryStatusTransition: what it accepts and what it writes.
TransitionAllowed(item, next) == item.status = "scrapped" => next = "scrapped"

Transition(item, next, g) ==
    IF item.status = next THEN item
    ELSE [status |-> next,
          by |-> CASE next \in {"available", "scrapped"} -> None
                   [] next = "consumed" /\ g # None -> g
                   [] OTHER -> item.by]

UpdateSerialInventoryStatus(s, next, g) ==
    /\ inv[s] # Absent /\ inv[s].status # next /\ TransitionAllowed(inv[s], next)
    /\ CountOp
    /\ inv' = [inv EXCEPT ![s] = Transition(@, next, g)]
    /\ touched' = touched \cup {s}
    /\ UNCHANGED <<gw, used, resourced>>
    /\ Persist

\* The batch applies the transitions one by one; the first refused one returns
\* an error, with the ones before it applied and nothing saved.
BatchUpdateSerialInventoryStatus(S, next, g) ==
    LET good == {s \in S : TransitionAllowed(inv[s], next)}
        Apply(P) == /\ inv' = [s \in Serials |-> IF s \in P THEN Transition(inv[s], next, g)
                                                 ELSE inv[s]]
                    /\ touched' = touched \cup P
    IN  /\ \A s \in S : inv[s] # Absent
        /\ CountOp
        /\ UNCHANGED <<gw, used, resourced>>
        /\ \/ good = S /\ Apply(S) /\ Persist
           \/ good # S /\ (\E P \in SUBSET good : Apply(P)) /\ UNCHANGED db

\* releaseSerialInventoryLocked ignores a refused transition.
Release(s) == IF inv[s] # Absent /\ TransitionAllowed(inv[s], "available")
                THEN Transition(inv[s], "available", None) ELSE inv[s]

-----------------------------------------------------------------------------
(* Gateways and devices.                                                   *)

\* Mutant: the inventory status alone decides whether a serial is free.
SerialRegistered_Unchecked(s) == FALSE

SerialRegistered(s) == \E g \in Gateways : gw[g].serial = s

\* consumeGatewaySerialLocked.
ConsumableGateway(s) == inv[s].status = "available"

Register(g, s) ==
    /\ g \notin used /\ ~SerialRegistered(s)
    /\ ConsumableGateway(s)
    /\ CountOp
    /\ inv' = [inv EXCEPT ![s] = [status |-> "consumed", by |-> g]]
    /\ gw' = [gw EXCEPT ![g].serial = s]
    /\ used' = used \cup {g}
    /\ UNCHANGED <<touched, resourced>>
    /\ Persist

\* Mutant: the gateway's devices are forgotten without releasing their serials.
Deassign_KeepsDevices(g) ==
    /\ Registered(g) /\ CountOp
    /\ inv' = [inv EXCEPT ![gw[g].serial] = Release(gw[g].serial)]
    /\ gw' = [gw EXCEPT ![g] = Unregistered]
    /\ UNCHANGED <<used, touched, resourced>>
    /\ Persist

Deassign(g) ==
    /\ Registered(g) /\ CountOp
    /\ inv' = [s \in Serials |-> IF s \in Owned(gw, g) THEN Release(s) ELSE inv[s]]
    /\ gw' = [gw EXCEPT ![g] = Unregistered]
    /\ UNCHANGED <<used, touched, resourced>>
    /\ Persist

\* consumeDeviceSerialLocked looks at procured devices only.
Consumable(d, g, source) ==
    source = Procured => \/ inv[d].status = "available"
                         \/ inv[d].status = "consumed" /\ inv[d].by \in {None, g}

ConflictElsewhere(d, g) == \E h \in Gateways \ {g} : d \in Attached(h)

\* RegisterDevice of a serial the gateway has already keeps its Source.  (What it makes of the
\* gateway's status, and DeassignDevice after it, is GatewayRuntime's.)
RegisterDevice(g, d, source) ==
    /\ Registered(g) /\ ~ConflictElsewhere(d, g)
    /\ d \in Attached(g) \/ Cardinality(Attached(g)) < Capacity
    /\ Consumable(d, g, source)
    /\ CountOp
    /\ inv' = IF source = Procured THEN [inv EXCEPT ![d] = [status |-> "consumed", by |-> g]]
                                   ELSE inv
    /\ gw' = IF d \in Attached(g) THEN gw ELSE [gw EXCEPT ![g].source[d] = source]
    /\ resourced' = IF d \in Attached(g) /\ gw[g].source[d] # source
                      THEN resourced \cup {d} ELSE resourced
    /\ UNCHANGED <<used, touched>>
    /\ Persist

DeassignDevice(g, d) ==
    /\ d \in Attached(g) /\ CountOp
    /\ inv' = IF gw[g].source[d] = Procured THEN [inv EXCEPT ![d] = Release(d)] ELSE inv
    /\ gw' = [gw EXCEPT ![g].source[d] = None]
    /\ UNCHANGED <<used, touched, resourced>>
    /\ Persist

\* What restoreFromStateStore makes of the snapshot: an empty inventory is
\* completed from the gateways.
Restored == IF \A s \in Serials : db.inv[s] = Absent THEN SerialInventoryFromGateways(db.gw)
                                                     ELSE db.inv

\* restoreFromStateStore of a new process; the completed inventory is saved, or
\* the process does not start.
Restart ==
    /\ CountOp
    /\ inv' = Restored /\ gw' = db.gw
    /\ db' = [inv |-> Restored, gw |-> db.gw]
    /\ UNCHANGED <<used, touched, resourced>>

Next ==
    \/ \E S \in SUBSET Serials \ {{}} : ImportSerialInventory(S)
    \/ \E s \in Serials, next \in Statuses, g \in used \cup {None} :
         UpdateSerialInventoryStatus(s, next, g)
    \/ \E S \in SUBSET Serials \ {{}}, next \in Statuses, g \in used \cup {None} :
         BatchUpdateSerialInventoryStatus(S, next, g)
    \/ \E g \in Gateways, s \in GwSerials : Register(g, s)
    \/ \E g \in Gateways : Deassign(g)
    \/ \E g \in Gateways, d \in DevSerials :
         (\E source \in Sources : RegisterDevice(g, d, source)) \/ DeassignDevice(g, d)
    \/ Restart

Spec == Init /\ [][Next]_vars

\* Gateways, their serials and the devices' serials are interchangeable.
Symmetry == UNION {Permuting!Permutations(S) : S \in {Gateways, GwSerials, DevSerials}}

-----------------------------------------------------------------------------
(* Properties.  Each is about memory and about the snapshot a restart would *)
(* load: v is [inv, gw].                                                    *)

Memory == [inv |-> inv, gw |-> gw]

\* Type invariant.
TypeOK ==
    /\ inv \in [Serials -> Items] /\ gw \in [Gateways -> Records]
    /\ db \in [inv : [Serials -> Items], gw : [Gateways -> Records]]
    /\ used \subseteq Gateways /\ touched \subseteq Serials /\ resourced \subseteq DevSerials
    /\ ops \in 0 .. MaxOps

\* A piece of hardware has one place, in memory and in the store, although an
\* administrator may set a consumed serial back to available while its gateway
\* is registered (Register, RegisterDevice, UpdateSerialInventoryStatus).
HardwareInOnePlace == OnePlace(gw) /\ OnePlace(db.gw)

\* What is registered is consumed: unless an administrator changed its status,
\* the serial of a gateway and of each of its procured devices is consumed by
\* that gateway, so nobody else can register it (consumeGatewaySerialLocked,
\* consumeDeviceSerialLocked, releaseSerialInventoryLocked).
Backed(v) ==
    \A g \in Gateways : \A s \in Owned(v.gw, g) \ touched :
      v.inv[s] = [status |-> "consumed", by |-> g]

RegisteredIsConsumed == Backed(Memory) /\ Backed(db)

\* What is consumed is registered: no sequence of registrations, removals,
\* failed saves and restarts leaks a serial, except that a device registered
\* again under another source keeps its old Source, so removing it does not
\* give its serial back (RegisterDevice, DeassignDevice, Deassign).
Held(v) ==
    \A s \in Serials \ (touched \cup resourced) :
      v.inv[s].status = "consumed" => \E g \in Gateways : v.inv[s].by = g /\ s \in Owned(v.gw, g)

ConsumedIsRegistered == Held(Memory) /\ Held(db)
=============================================================================
