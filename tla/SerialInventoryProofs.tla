----------------------- MODULE SerialInventoryProofs -----------------------
(* Proofs about the serial inventory and the gateway table, for any sets of *)
(* gateways and serials and any capacity.                                  *)
EXTENDS SerialInventory, FiniteSetTheorems, TLAPS

Tables == [Gateways -> Records]

-----------------------------------------------------------------------------
(* Types.                                                                  *)

\* A status transition yields an inventory item.
LEMMA TransitionType ==
    ASSUME NEW item \in Items, NEW next \in Statuses, NEW g \in Gateways \cup {None}
    PROVE  Transition(item, next, g) \in Items
BY DEF Transition, Items, Statuses

\* Releasing a serial yields an inventory item.
LEMMA ReleaseType ==
    ASSUME inv \in [Serials -> Items], NEW s \in Serials
    PROVE  Release(s) \in Items
BY TransitionType DEF Release, Statuses

\* The inventory made from a table of gateways consists of inventory items.
LEMMA FromGatewaysType ==
    ASSUME NEW t \in Tables
    PROVE  SerialInventoryFromGateways(t) \in [Serials -> Items]
<1>1. Absent \in Items
  BY DEF Absent, Items
<1>2. \A s \in Serials : SerialInventoryFromGateways(t)[s] \in Items
  <2> TAKE s \in Serials
  <2>1. CASE \E g \in Gateways : s \in Owned(t, g)
    <3> DEFINE owner == CHOOSE g \in Gateways : s \in Owned(t, g)
    <3>1. owner \in Gateways
      BY <2>1
    <3>2. SerialInventoryFromGateways(t)[s] = [status |-> "consumed", by |-> owner]
      BY <2>1 DEF SerialInventoryFromGateways
    <3> HIDE DEF owner
    <3> QED
      BY <3>1, <3>2 DEF Items, Statuses
  <2>2. CASE ~\E g \in Gateways : s \in Owned(t, g)
    BY <1>1, <2>2 DEF SerialInventoryFromGateways
  <2> QED
    BY <2>1, <2>2
<1> QED
  BY <1>2 DEF SerialInventoryFromGateways

\* Every seed or old snapshot, completed, is well typed.
LEMMA TypeInit == Init => TypeOK
<1> SUFFICES ASSUME Init PROVE TypeOK
  OBVIOUS
<1>1. inv \in [Serials -> Items]
  BY FromGatewaysType DEF Init, Tables
<1>2. ops \in 0 .. MaxOps
  BY SerialInventoryAssumption DEF Init
<1> QED
  BY <1>1, <1>2 DEF Init, TypeOK

\* Every operation keeps the types of memory, and Persist those of the store.
LEMMA TypeStep == TypeOK /\ [Next]_vars => TypeOK'
<1> SUFFICES ASSUME TypeOK, [Next]_vars PROVE TypeOK'
  OBVIOUS
<1>1. inv \in [Serials -> Items] /\ gw \in Tables /\ ops \in 0 .. MaxOps
  BY DEF TypeOK, Tables
<1>2. ASSUME inv' \in [Serials -> Items], gw' \in Tables, Persist, CountOp,
             used' \subseteq Gateways, touched' \subseteq Serials, resourced' \subseteq DevSerials
      PROVE  TypeOK'
  BY <1>2, SerialInventoryAssumption DEF TypeOK, Persist, CountOp, Tables
<1>3. ASSUME NEW S \in SUBSET Serials, ImportSerialInventory(S) PROVE TypeOK'
  <2>1. Available \in Items
    BY DEF Available, Items, Statuses
  <2>2. inv' \in [Serials -> Items]
    BY <1>1, <1>3, <2>1 DEF ImportSerialInventory
  <2> QED
    BY <1>1, <1>2, <1>3, <2>2 DEF ImportSerialInventory, TypeOK
<1>4. ASSUME NEW s \in Serials, NEW next \in Statuses, NEW g \in used \cup {None},
             UpdateSerialInventoryStatus(s, next, g)
      PROVE  TypeOK'
  <2>1. Transition(inv[s], next, g) \in Items
    BY <1>1, TransitionType DEF TypeOK
  <2> QED
    BY <1>1, <1>2, <1>4, <2>1 DEF UpdateSerialInventoryStatus, TypeOK
<1>5. ASSUME NEW S \in SUBSET Serials, NEW next \in Statuses, NEW g \in used \cup {None},
             BatchUpdateSerialInventoryStatus(S, next, g)
      PROVE  TypeOK'
  <2>1. \A s \in Serials : Transition(inv[s], next, g) \in Items
    BY <1>1, TransitionType DEF TypeOK
  <2>2. PICK P \in SUBSET S : /\ inv' = [s \in Serials |-> IF s \in P THEN Transition(inv[s], next, g)
                                                           ELSE inv[s]]
                              /\ touched' = touched \cup P
    BY <1>5 DEF BatchUpdateSerialInventoryStatus
  <2>3. inv' \in [Serials -> Items] /\ touched' \subseteq Serials
    BY <1>1, <2>1, <2>2 DEF TypeOK
  <2>4. CountOp /\ (Persist \/ UNCHANGED db) /\ UNCHANGED <<gw, used, resourced>>
    BY <1>5 DEF BatchUpdateSerialInventoryStatus
  <2>5. Persist
    BY <2>4 DEF Persist
  <2> QED
    BY <1>1, <1>2, <2>3, <2>4, <2>5 DEF TypeOK
<1>6. ASSUME NEW g \in Gateways, NEW s \in GwSerials, Register(g, s) PROVE TypeOK'
  <2>1. inv' \in [Serials -> Items]
    BY <1>1, <1>6 DEF Register, Items, Statuses
  <2>2. gw' \in Tables
    BY <1>1, <1>6 DEF Register, Tables, Records
  <2> QED
    BY <1>2, <1>6, <2>1, <2>2 DEF Register, TypeOK
<1>7. ASSUME NEW g \in Gateways, Deassign(g) PROVE TypeOK'
  <2>1. inv' \in [Serials -> Items]
    BY <1>1, <1>7, ReleaseType DEF Deassign
  <2>2. gw' \in Tables
    BY <1>1, <1>7 DEF Deassign, Tables, Records, Unregistered
  <2> QED
    BY <1>2, <1>7, <2>1, <2>2 DEF Deassign, TypeOK
<1>8. ASSUME NEW g \in Gateways, NEW d \in DevSerials, NEW source \in Sources,
             RegisterDevice(g, d, source)
      PROVE  TypeOK'
  <2>1. inv' \in [Serials -> Items]
    BY <1>1, <1>8 DEF RegisterDevice, Items, Statuses, Serials
  <2>2. gw' \in Tables
    BY <1>1, <1>8 DEF RegisterDevice, Tables, Records
  <2>3. resourced' \subseteq DevSerials
    BY <1>8 DEF RegisterDevice, TypeOK
  <2> QED
    BY <1>2, <1>8, <2>1, <2>2, <2>3 DEF RegisterDevice, TypeOK
<1>9. ASSUME NEW g \in Gateways, NEW d \in DevSerials, DeassignDevice(g, d) PROVE TypeOK'
  <2>1. inv' \in [Serials -> Items]
    BY <1>1, <1>9, ReleaseType DEF DeassignDevice, Serials
  <2>2. gw' \in Tables
    BY <1>1, <1>9 DEF DeassignDevice, Tables, Records
  <2> QED
    BY <1>2, <1>9, <2>1, <2>2 DEF DeassignDevice, TypeOK
<1>10. CASE Restart
  <2>1. Restored \in [Serials -> Items]
    BY FromGatewaysType DEF Restored, TypeOK, Tables
  <2> QED
    BY <1>10, <2>1, SerialInventoryAssumption DEF Restart, TypeOK, CountOp
<1>11. CASE UNCHANGED vars
  BY <1>11 DEF vars, TypeOK
<1> QED
  BY <1>3, <1>4, <1>5, <1>6, <1>7, <1>8, <1>9, <1>10, <1>11 DEF Next

\* Memory and the snapshot keep their types through failed saves, half-applied
\* batches and restarts.
THEOREM TypeCorrect == Spec => []TypeOK
BY TypeInit, TypeStep, PTL DEF Spec

-----------------------------------------------------------------------------
(* One place for every piece of hardware.                                  *)

\* Registering a serial no gateway has keeps hardware in one place.
LEMMA RegisterOnePlace ==
    ASSUME NEW t \in Tables, OnePlace(t), NEW g \in Gateways, NEW s \in GwSerials,
           ~\E h \in Gateways : t[h].serial = s
    PROVE  OnePlace([t EXCEPT ![g].serial = s])
<1> DEFINE u == [t EXCEPT ![g].serial = s]
<1>1. /\ \A h \in Gateways \ {g} : u[h] = t[h]
      /\ u[g].serial = s /\ Devices(u[g]) = Devices(t[g])
  BY DEF Tables, Records, Devices
<1>2. s # None
  BY SerialInventoryAssumption DEF Serials
<1> HIDE DEF u
<1> SUFFICES OnePlace(u)
  BY DEF u
<1> QED
  BY <1>1, <1>2 DEF OnePlace

\* Removing a gateway with its devices keeps hardware in one place.
LEMMA DeassignOnePlace ==
    ASSUME NEW t \in Tables, OnePlace(t), NEW g \in Gateways
    PROVE  OnePlace([t EXCEPT ![g] = Unregistered])
<1> DEFINE u == [t EXCEPT ![g] = Unregistered]
<1>1. Devices(u[g]) = {} /\ u[g].serial = None
  BY DEF Devices, Unregistered, Tables
<1>2. Cardinality({}) = 0
  BY FS_EmptySet
<1>3. \A h \in Gateways \ {g} : u[h] = t[h]
  BY DEF Tables
<1> HIDE DEF u
<1> SUFFICES OnePlace(u)
  BY DEF u
<1> QED
  <2>1. Cardinality(Devices(u[g])) <= Capacity
    BY <1>1, <1>2, SerialInventoryAssumption
  <2>2. ASSUME NEW h \in Gateways \ {g} PROVE u[h].serial # None => u[h].serial # u[g].serial
    BY <1>1
  <2> QED
    BY <1>1, <1>3, <2>1, <2>2 DEF OnePlace

\* Attaching a device that is attached nowhere else, below the capacity of a
\* registered gateway, keeps hardware in one place.
LEMMA AttachOnePlace ==
    ASSUME NEW t \in Tables, OnePlace(t), NEW g \in Gateways, NEW d \in DevSerials,
           NEW source \in Sources, t[g].serial # None, t[g].source[d] = None,
           \A h \in Gateways : t[h].source[d] = None,
           Cardinality(Devices(t[g])) < Capacity
    PROVE  OnePlace([t EXCEPT ![g].source[d] = source])
<1> DEFINE u == [t EXCEPT ![g].source[d] = source]
<1>1. /\ \A h \in Gateways \ {g} : u[h] = t[h]
      /\ u[g].serial = t[g].serial
      /\ \A e \in DevSerials \ {d} : u[g].source[e] = t[g].source[e]
      /\ u[g].source[d] = source
  BY DEF Tables, Records
<1>2. IsFiniteSet(Devices(t[g]))
  BY SerialInventoryAssumption, FS_Subset DEF Devices
<1>3. Devices(u[g]) \subseteq Devices(t[g]) \cup {d}
  BY <1>1 DEF Devices
<1>4. Cardinality(Devices(u[g])) <= Capacity
  <2>1. d \notin Devices(t[g])
    BY DEF Devices
  <2>2. IsFiniteSet(Devices(t[g]) \cup {d})
        /\ Cardinality(Devices(t[g]) \cup {d}) = Cardinality(Devices(t[g])) + 1
    BY <1>2, <2>1, FS_AddElement
  <2>3. Cardinality(Devices(u[g])) <= Cardinality(Devices(t[g]) \cup {d})
    BY <1>3, <2>2, FS_Subset
  <2>4. Cardinality(Devices(t[g])) \in Nat /\ Cardinality(Devices(u[g])) \in Nat
    BY <1>2, <1>3, <2>2, FS_Subset, FS_CardinalityType
  <2> QED
    BY <2>2, <2>3, <2>4, SerialInventoryAssumption
<1> HIDE DEF u
<1> SUFFICES OnePlace(u)
  BY DEF u
<1>5. u[g].serial # None /\ \A h \in Gateways \ {g} : d \notin Devices(u[h])
  BY <1>1 DEF Devices
<1> QED
  BY <1>1, <1>3, <1>4, <1>5 DEF OnePlace

\* Detaching a device keeps hardware in one place.
LEMMA DetachOnePlace ==
    ASSUME NEW t \in Tables, OnePlace(t), NEW g \in Gateways, NEW d \in DevSerials
    PROVE  OnePlace([t EXCEPT ![g].source[d] = None])
<1> DEFINE u == [t EXCEPT ![g].source[d] = None]
<1>1. /\ \A h \in Gateways \ {g} : u[h] = t[h]
      /\ u[g].serial = t[g].serial
      /\ Devices(u[g]) \subseteq Devices(t[g])
      /\ u[g].source[d] = None
  BY DEF Tables, Records, Devices
<1>2. IsFiniteSet(Devices(t[g]))
  BY SerialInventoryAssumption, FS_Subset DEF Devices
<1>3. Cardinality(Devices(u[g])) <= Cardinality(Devices(t[g]))
      /\ Cardinality(Devices(t[g])) \in Nat /\ Cardinality(Devices(u[g])) \in Nat
  BY <1>1, <1>2, FS_Subset, FS_CardinalityType
<1>4. Cardinality(Devices(u[g])) <= Capacity
  BY <1>3, SerialInventoryAssumption DEF OnePlace
<1> HIDE DEF u
<1> SUFFICES OnePlace(u)
  BY DEF u
<1> QED
  BY <1>1, <1>4 DEF OnePlace

\* No operation, saved or not, and no restart puts hardware in two places.
LEMMA OnePlaceStep == TypeOK /\ HardwareInOnePlace /\ [Next]_vars => HardwareInOnePlace'
<1> SUFFICES ASSUME TypeOK, HardwareInOnePlace, [Next]_vars PROVE HardwareInOnePlace'
  OBVIOUS
<1>1. gw \in Tables /\ OnePlace(gw) /\ OnePlace(db.gw)
  BY DEF TypeOK, HardwareInOnePlace, Tables
<1>2. ASSUME OnePlace(gw'), Persist \/ UNCHANGED db PROVE HardwareInOnePlace'
  BY <1>1, <1>2 DEF Persist, HardwareInOnePlace
<1>3. CASE gw' = gw /\ (Persist \/ UNCHANGED db)
  BY <1>1, <1>2, <1>3
<1>4. ASSUME NEW g \in Gateways, NEW s \in GwSerials, Register(g, s) PROVE HardwareInOnePlace'
  BY <1>1, <1>2, <1>4, RegisterOnePlace DEF Register, SerialRegistered
<1>5. ASSUME NEW g \in Gateways, Deassign(g) PROVE HardwareInOnePlace'
  BY <1>1, <1>2, <1>5, DeassignOnePlace DEF Deassign
<1>6. ASSUME NEW g \in Gateways, NEW d \in DevSerials, NEW source \in Sources,
             RegisterDevice(g, d, source)
      PROVE  HardwareInOnePlace'
  <2>1. CASE d \in Attached(g)
    BY <1>3, <1>6, <2>1 DEF RegisterDevice
  <2>2. CASE d \notin Attached(g)
    <3>1. gw[g].serial # None /\ \A h \in Gateways : gw[h].source[d] = None
      BY <1>6, <2>2 DEF RegisterDevice, Attached, Registered, ConflictElsewhere, Devices
    <3>2. Cardinality(Devices(gw[g])) < Capacity
      BY <1>6, <2>2 DEF RegisterDevice, Attached
    <3>3. OnePlace([gw EXCEPT ![g].source[d] = source])
      BY <1>1, <3>1, <3>2, AttachOnePlace
    <3> QED
      BY <1>2, <1>6, <2>2, <3>3 DEF RegisterDevice
  <2> QED
    BY <2>1, <2>2
<1>7. ASSUME NEW g \in Gateways, NEW d \in DevSerials, DeassignDevice(g, d)
      PROVE  HardwareInOnePlace'
  BY <1>1, <1>2, <1>7, DetachOnePlace DEF DeassignDevice
<1>8. CASE Restart
  BY <1>1, <1>8 DEF Restart, HardwareInOnePlace
<1>9. CASE UNCHANGED vars
  BY <1>3, <1>9 DEF vars
<1>10. ASSUME NEW S \in SUBSET Serials, ImportSerialInventory(S) PROVE HardwareInOnePlace'
  BY <1>3, <1>10 DEF ImportSerialInventory
<1>11. ASSUME NEW s \in Serials, NEW next \in Statuses, NEW g \in used \cup {None},
              UpdateSerialInventoryStatus(s, next, g)
       PROVE  HardwareInOnePlace'
  BY <1>3, <1>11 DEF UpdateSerialInventoryStatus
<1>12. ASSUME NEW S \in SUBSET Serials, NEW next \in Statuses, NEW g \in used \cup {None},
              BatchUpdateSerialInventoryStatus(S, next, g)
       PROVE  HardwareInOnePlace'
  BY <1>3, <1>12 DEF BatchUpdateSerialInventoryStatus
<1> QED
  BY <1>4, <1>5, <1>6, <1>7, <1>8, <1>9, <1>10, <1>11, <1>12 DEF Next

\* For any fleet and any sequence of registrations, removals, administrator
\* changes, failed saves and restarts, no serial is registered twice, no device
\* is attached to two gateways and no gateway exceeds its capacity.
THEOREM HardwareStaysInOnePlace == Spec => []HardwareInOnePlace
<1>1. Init => HardwareInOnePlace
  BY DEF Init, HardwareInOnePlace
<1> QED
  BY <1>1, TypeCorrect, OnePlaceStep, PTL DEF Spec

-----------------------------------------------------------------------------
(* What is registered is consumed.                                         *)

\* No serial is owned by two gateways.
LEMMA OwnedOnce ==
    ASSUME NEW t \in Tables, OnePlace(t), NEW g \in Gateways, NEW h \in Gateways, g # h
    PROVE  Owned(t, g) \cap Owned(t, h) = {}
<1>1. \A d \in DevSerials : t[g].source[d] = Procured => t[h].source[d] # Procured
  <2>1. Procured # None
    BY SerialInventoryAssumption DEF Sources
  <2>2. Devices(t[g]) \cap Devices(t[h]) = {}
    BY DEF OnePlace
  <2> QED
    BY <2>1, <2>2 DEF Devices
<1>2. \A s \in GwSerials : t[g].serial = s => t[h].serial # s
  BY SerialInventoryAssumption DEF OnePlace, Serials
<1> QED
  BY <1>1, <1>2, SerialInventoryAssumption DEF Owned

\* The inventory made from a table of gateways backs what the table registers.
LEMMA FromGatewaysBacked ==
    ASSUME NEW t \in Tables, OnePlace(t), NEW g \in Gateways, NEW s \in Owned(t, g)
    PROVE  SerialInventoryFromGateways(t)[s] = [status |-> "consumed", by |-> g]
<1>1. s \in Serials
  BY DEF Owned, Serials
<1>2. \A h \in Gateways : s \in Owned(t, h) => h = g
  BY OwnedOnce
<1>3. (CHOOSE h \in Gateways : s \in Owned(t, h)) = g
  BY <1>2
<1> QED
  BY <1>1, <1>3 DEF SerialInventoryFromGateways

\* What a step leaves alone keeps its backing: a gateway whose record and whose
\* serials' items did not change is backed as before.
LEMMA BackedKept ==
    ASSUME Backed(Memory), touched \subseteq touched', NEW g \in Gateways,
           Owned(gw', g) \subseteq Owned(gw, g),
           \A s \in Owned(gw', g) \ touched' : inv'[s] = inv[s]
    PROVE  \A s \in Owned(gw', g) \ touched' : inv'[s] = [status |-> "consumed", by |-> g]
BY DEF Backed, Memory

\* Every operation backs what it registers and disturbs no one else's backing.
LEMMA BackedStep ==
    TypeOK /\ HardwareInOnePlace /\ RegisteredIsConsumed /\ [Next]_vars => RegisteredIsConsumed'
<1> SUFFICES ASSUME TypeOK, HardwareInOnePlace, RegisteredIsConsumed, [Next]_vars
             PROVE  RegisteredIsConsumed'
  OBVIOUS
<1> DEFINE BackedBy(g) == \A s \in Owned(gw', g) \ touched' : inv'[s] = [status |-> "consumed", by |-> g]
<1>1. gw \in Tables /\ OnePlace(gw) /\ Backed(Memory) /\ Backed(db) /\ inv \in [Serials -> Items]
  BY DEF TypeOK, HardwareInOnePlace, RegisteredIsConsumed, Tables
<1>2. ASSUME touched \subseteq touched', \A g \in Gateways : BackedBy(g), Persist \/ UNCHANGED db
      PROVE  RegisteredIsConsumed'
  <2>1. Backed(Memory)'
    BY <1>2 DEF Backed, Memory
  <2>2. CASE db' = [inv |-> inv', gw |-> gw']
    BY <2>1, <2>2 DEF RegisteredIsConsumed, Memory, Backed
  <2>3. CASE db' = db
    BY <1>1, <1>2, <2>1, <2>3 DEF RegisteredIsConsumed, Backed
  <2> QED
    BY <1>2, <2>2, <2>3 DEF Persist
<1>3. ASSUME touched \subseteq touched', gw' = gw, Persist \/ UNCHANGED db,
             \A g \in Gateways : \A s \in Owned(gw, g) \ touched' : inv'[s] = inv[s]
      PROVE  RegisteredIsConsumed'
  BY <1>1, <1>2, <1>3, BackedKept
<1>4. ASSUME NEW S \in SUBSET Serials, ImportSerialInventory(S) PROVE RegisteredIsConsumed'
  <2>1. \A g \in Gateways : \A s \in Owned(gw, g) \ touched : inv[s] # Absent /\ s \in Serials
    <3>1. ASSUME NEW g \in Gateways, NEW s \in Owned(gw, g) \ touched PROVE inv[s] # Absent
      <4>1. inv[s] = [status |-> "consumed", by |-> g]
        BY <1>1 DEF Backed, Memory
      <4> QED
        BY <4>1 DEF Absent
    <3> QED
      BY <3>1 DEF Owned, Serials
  <2> QED
    BY <1>3, <1>4, <2>1 DEF ImportSerialInventory
<1>5. ASSUME NEW s \in Serials, NEW next \in Statuses, NEW g \in used \cup {None},
             UpdateSerialInventoryStatus(s, next, g)
      PROVE  RegisteredIsConsumed'
  BY <1>1, <1>3, <1>5 DEF UpdateSerialInventoryStatus
<1>6. ASSUME NEW S \in SUBSET Serials, NEW next \in Statuses, NEW g \in used \cup {None},
             BatchUpdateSerialInventoryStatus(S, next, g)
      PROVE  RegisteredIsConsumed'
  <2>1. PICK P \in SUBSET S : /\ inv' = [s \in Serials |-> IF s \in P THEN Transition(inv[s], next, g)
                                                           ELSE inv[s]]
                              /\ touched' = touched \cup P
    BY <1>6 DEF BatchUpdateSerialInventoryStatus
  <2>2. \A h \in Gateways : Owned(gw, h) \subseteq Serials
    BY DEF Owned, Serials
  <2>3. gw' = gw /\ (Persist \/ UNCHANGED db)
    BY <1>6 DEF BatchUpdateSerialInventoryStatus
  <2> QED
    BY <1>3, <2>1, <2>2, <2>3
<1>7. ASSUME NEW g \in Gateways, NEW s \in GwSerials, Register(g, s) PROVE RegisteredIsConsumed'
  <2>1. /\ \A h \in Gateways \ {g} : gw'[h] = gw[h]
        /\ gw'[g].serial = s /\ gw'[g].source = gw[g].source
        /\ inv' = [inv EXCEPT ![s] = [status |-> "consumed", by |-> g]] /\ touched' = touched
    BY <1>1, <1>7 DEF Register, Tables, Records
  <2>2. \A h \in Gateways \ {g} : Owned(gw', h) = Owned(gw, h) /\ s \notin Owned(gw, h)
    <3>1. \A h \in Gateways : gw[h].serial # s
      BY <1>7 DEF Register, SerialRegistered
    <3>2. s \notin DevSerials
      BY SerialInventoryAssumption
    <3> QED
      BY <2>1, <3>1, <3>2 DEF Owned
  <2>3. Owned(gw', g) \subseteq Owned(gw, g) \cup {s}
    BY <2>1 DEF Owned
  <2>4. s \in Serials
    BY DEF Serials
  <2>5. ASSUME NEW h \in Gateways \ {g} PROVE BackedBy(h)
    <3>1. \A x \in Owned(gw, h) : inv'[x] = inv[x]
      BY <1>1, <2>1, <2>2 DEF Owned, Serials
    <3> QED
      BY <1>1, <2>1, <2>2, <3>1, BackedKept
  <2>6. BackedBy(g)
    BY <1>1, <2>1, <2>3, <2>4 DEF Backed, Memory
  <2> QED
    BY <1>2, <1>7, <2>5, <2>6 DEF Register
<1>8. ASSUME NEW g \in Gateways, Deassign(g) PROVE RegisteredIsConsumed'
  <2>1. \A h \in Gateways \ {g} : gw'[h] = gw[h]
    BY <1>1, <1>8 DEF Deassign, Tables
  <2>2. Owned(gw', g) = {}
    <3>1. gw'[g] = Unregistered
      BY <1>1, <1>8 DEF Deassign, Tables
    <3> QED
      BY <3>1, SerialInventoryAssumption DEF Unregistered, Owned, Serials, Sources
  <2>3. ASSUME NEW h \in Gateways \ {g} PROVE BackedBy(h)
    <3>1. Owned(gw', h) = Owned(gw, h) /\ Owned(gw, h) \cap Owned(gw, g) = {}
          /\ Owned(gw, h) \subseteq Serials
      BY <1>1, <2>1, OwnedOnce DEF Owned, Serials
    <3> QED
      BY <1>1, <1>8, <3>1, BackedKept DEF Deassign
  <2> QED
    BY <1>2, <1>8, <2>2, <2>3 DEF Deassign
<1>9. ASSUME NEW g \in Gateways, NEW d \in DevSerials, NEW source \in Sources,
             RegisterDevice(g, d, source)
      PROVE  RegisteredIsConsumed'
  <2>1. d \in Serials /\ touched' = touched /\ Persist
    BY <1>9 DEF RegisterDevice, Serials
  <2>2. \A h \in Gateways \ {g} : gw'[h] = gw[h] /\ d \notin Owned(gw, h)
    <3>1. \A h \in Gateways \ {g} : d \notin Devices(gw[h])
      BY <1>9 DEF RegisterDevice, ConflictElsewhere, Attached
    <3>2. \A h \in Gateways \ {g} : d \notin Owned(gw, h)
      BY <3>1, SerialInventoryAssumption DEF Owned, Devices, Sources
    <3> QED
      BY <1>1, <1>9, <3>2 DEF RegisterDevice, Tables
  <2>3. \A s \in Serials \ {d} : inv'[s] = inv[s]
    BY <1>1, <1>9 DEF RegisterDevice
  <2>4. \A h \in Gateways : Owned(gw, h) \subseteq Serials
    BY DEF Owned, Serials
  <2>5. ASSUME NEW h \in Gateways \ {g} PROVE BackedBy(h)
    <3>1. Owned(gw', h) = Owned(gw, h)
      BY <2>2 DEF Owned
    <3> QED
      BY <1>1, <2>1, <2>2, <2>3, <2>4, <3>1, BackedKept
  <2>6. BackedBy(g)
    <3>1. CASE source = Procured
      <4>1. inv'[d] = [status |-> "consumed", by |-> g]
        BY <1>1, <1>9, <2>1, <3>1 DEF RegisterDevice
      <4>2. Owned(gw', g) \subseteq Owned(gw, g) \cup {d}
        BY <1>1, <1>9 DEF RegisterDevice, Owned, Tables, Records
      <4> QED
        BY <1>1, <2>1, <2>3, <2>4, <4>1, <4>2 DEF Backed, Memory
    <3>2. CASE source # Procured
      <4>1. inv' = inv
        BY <1>9, <3>2 DEF RegisterDevice
      <4>2. Owned(gw', g) \subseteq Owned(gw, g)
        BY <1>1, <1>9, <3>2 DEF RegisterDevice, Owned, Tables, Records
      <4> QED
        BY <1>1, <2>1, <4>1, <4>2, BackedKept
    <3> QED
      BY <3>1, <3>2
  <2> QED
    BY <1>2, <2>1, <2>5, <2>6
<1>10. ASSUME NEW g \in Gateways, NEW d \in DevSerials, DeassignDevice(g, d)
       PROVE  RegisteredIsConsumed'
  <2>1. d \in Serials /\ touched' = touched /\ Persist /\ d \in Devices(gw[g])
    BY <1>10 DEF DeassignDevice, Serials, Attached
  <2>2. \A s \in Serials \ {d} : inv'[s] = inv[s]
    BY <1>1, <1>10 DEF DeassignDevice
  <2>3. /\ \A h \in Gateways \ {g} : gw'[h] = gw[h]
        /\ gw'[g].serial = gw[g].serial
        /\ \A e \in DevSerials : gw'[g].source[e] = IF e = d THEN None ELSE gw[g].source[e]
    BY <1>1, <1>10 DEF DeassignDevice, Tables, Records
  <2>4. \A h \in Gateways \ {g} : Owned(gw', h) = Owned(gw, h) /\ d \notin Owned(gw, h)
    <3>1. \A h \in Gateways \ {g} : d \notin Devices(gw[h])
      BY <1>1, <2>1 DEF OnePlace
    <3>2. \A h \in Gateways \ {g} : d \notin Owned(gw, h)
      BY <3>1, SerialInventoryAssumption DEF Owned, Devices, Sources
    <3> QED
      BY <2>3, <3>2 DEF Owned
  <2>5. Owned(gw', g) \subseteq Owned(gw, g) \ {d}
    BY <2>3, SerialInventoryAssumption DEF Owned, Sources
  <2>6. \A h \in Gateways : Owned(gw, h) \subseteq Serials
    BY DEF Owned, Serials
  <2>7. \A h \in Gateways : BackedBy(h)
    BY <1>1, <2>1, <2>2, <2>4, <2>5, <2>6, BackedKept
  <2> QED
    BY <1>2, <2>1, <2>7
<1>11. CASE Restart
  <2>1. db.gw \in Tables /\ OnePlace(db.gw)
    BY DEF TypeOK, HardwareInOnePlace, Tables
  <2>2. \A g \in Gateways : \A s \in Owned(db.gw, g) \ touched :
          Restored[s] = [status |-> "consumed", by |-> g]
    <3> TAKE g \in Gateways
    <3> TAKE s \in Owned(db.gw, g) \ touched
    <3>1. SerialInventoryFromGateways(db.gw)[s] = [status |-> "consumed", by |-> g]
      BY <2>1, FromGatewaysBacked
    <3>2. db.inv[s] = [status |-> "consumed", by |-> g]
      BY <1>1 DEF Backed
    <3> QED
      BY <3>1, <3>2 DEF Restored
  <2>3. /\ inv' = Restored /\ gw' = db.gw /\ touched' = touched
        /\ db' = [inv |-> Restored, gw |-> db.gw]
    BY <1>11 DEF Restart
  <2> HIDE DEF Restored
  <2> QED
    BY <2>2, <2>3 DEF RegisteredIsConsumed, Backed, Memory
<1>12. CASE UNCHANGED vars
  BY <1>1, <1>12 DEF vars, RegisteredIsConsumed, Backed, Memory
<1> QED
  BY <1>4, <1>5, <1>6, <1>7, <1>8, <1>9, <1>10, <1>11, <1>12 DEF Next

\* For any fleet: unless an administrator changed its status, the serial of a
\* registered gateway and of each of its procured devices is consumed by that
\* gateway, in memory and in the snapshot a restart would load.
THEOREM RegisteredStaysConsumed == Spec => []RegisteredIsConsumed
<1>1. Init => RegisteredIsConsumed
  BY FromGatewaysBacked DEF Init, RegisteredIsConsumed, Backed, Memory, Tables
<1> QED
  BY <1>1, TypeCorrect, HardwareStaysInOnePlace, BackedStep, PTL DEF Spec

-----------------------------------------------------------------------------
(* What is consumed is registered.  Registering under a new ID must not    *)
(* displace the serial of a gateway, so the IDs in use are followed too.   *)

IdsUsed == \A g \in Gateways \ used : gw[g].serial = None /\ db.gw[g].serial = None

\* A gateway ID that was never generated has no gateway, in memory or in the store.
LEMMA IdsUsedStep == TypeOK /\ IdsUsed /\ [Next]_vars => IdsUsed'
<1> SUFFICES ASSUME TypeOK, IdsUsed, [Next]_vars PROVE IdsUsed'
  OBVIOUS
<1>1. gw \in Tables
  BY DEF TypeOK, Tables
<1>2. ASSUME used \subseteq used', \A g \in Gateways \ used' : gw'[g].serial = gw[g].serial,
             Persist \/ UNCHANGED db
      PROVE  IdsUsed'
  <2>1. \A g \in Gateways \ used' : gw'[g].serial = None
    BY <1>2 DEF IdsUsed
  <2>2. CASE db' = [inv |-> inv', gw |-> gw']
    BY <2>1, <2>2 DEF IdsUsed
  <2>3. CASE db' = db
    BY <1>2, <2>1, <2>3 DEF IdsUsed
  <2> QED
    BY <1>2, <2>2, <2>3 DEF Persist
<1>3. ASSUME NEW g \in Gateways, NEW s \in GwSerials, Register(g, s) PROVE IdsUsed'
  BY <1>1, <1>2, <1>3 DEF Register, Tables, Records
<1>4. ASSUME NEW g \in Gateways, Deassign(g) PROVE IdsUsed'
  <2>1. \A h \in Gateways \ used : gw'[h].serial = gw[h].serial
    BY <1>1, <1>4 DEF Deassign, Registered, IdsUsed, Tables, Records
  <2> QED
    BY <1>2, <1>4, <2>1 DEF Deassign
<1>5. ASSUME NEW g \in Gateways, NEW d \in DevSerials, NEW source \in Sources,
             RegisterDevice(g, d, source)
      PROVE  IdsUsed'
  <2>1. \A h \in Gateways : gw'[h].serial = gw[h].serial
    BY <1>1, <1>5 DEF RegisterDevice, Tables, Records
  <2> QED
    BY <1>2, <1>5, <2>1 DEF RegisterDevice
<1>6. ASSUME NEW g \in Gateways, NEW d \in DevSerials, DeassignDevice(g, d) PROVE IdsUsed'
  <2>1. \A h \in Gateways : gw'[h].serial = gw[h].serial
    BY <1>1, <1>6 DEF DeassignDevice, Tables, Records
  <2> QED
    BY <1>2, <1>6, <2>1 DEF DeassignDevice
<1>7. CASE Restart
  BY <1>7 DEF Restart, IdsUsed
<1>8. CASE gw' = gw /\ used' = used /\ (Persist \/ UNCHANGED db)
  BY <1>2, <1>8
<1>9. ASSUME NEW S \in SUBSET Serials, ImportSerialInventory(S) PROVE IdsUsed'
  BY <1>8, <1>9 DEF ImportSerialInventory
<1>10. ASSUME NEW s \in Serials, NEW next \in Statuses, NEW g \in used \cup {None},
              UpdateSerialInventoryStatus(s, next, g)
       PROVE  IdsUsed'
  BY <1>8, <1>10 DEF UpdateSerialInventoryStatus
<1>11. ASSUME NEW S \in SUBSET Serials, NEW next \in Statuses, NEW g \in used \cup {None},
              BatchUpdateSerialInventoryStatus(S, next, g)
       PROVE  IdsUsed'
  BY <1>8, <1>11 DEF BatchUpdateSerialInventoryStatus
<1>12. CASE UNCHANGED vars
  BY <1>8, <1>12 DEF vars
<1> QED
  BY <1>3, <1>4, <1>5, <1>6, <1>7, <1>9, <1>10, <1>11, <1>12 DEF Next

\* A consumed serial of an inventory made from a table of gateways is owned by who consumed it.
LEMMA FromGatewaysHeld ==
    ASSUME NEW t \in Tables, NEW s \in Serials, SerialInventoryFromGateways(t)[s].status = "consumed"
    PROVE  \E g \in Gateways : SerialInventoryFromGateways(t)[s].by = g /\ s \in Owned(t, g)
<1> DEFINE owner == CHOOSE g \in Gateways : s \in Owned(t, g)
<1>1. CASE \E g \in Gateways : s \in Owned(t, g)
  <2>1. owner \in Gateways /\ s \in Owned(t, owner)
    BY <1>1
  <2>2. SerialInventoryFromGateways(t)[s].by = owner
    BY <1>1 DEF SerialInventoryFromGateways
  <2> HIDE DEF owner
  <2> QED
    BY <2>1, <2>2
<1>2. CASE ~\E g \in Gateways : s \in Owned(t, g)
  BY <1>2 DEF SerialInventoryFromGateways, Absent
<1> QED
  BY <1>1, <1>2

\* A released serial that its owner had consumed is not consumed any more.
LEMMA ReleaseFrees ==
    ASSUME NEW s \in Serials, NEW g \in Gateways, inv[s] = [status |-> "consumed", by |-> g]
    PROVE  Release(s).status # "consumed"
<1>1. inv[s] # Absent /\ TransitionAllowed(inv[s], "available")
  BY DEF Absent, TransitionAllowed
<1> QED
  BY <1>1 DEF Release, Transition

\* Every operation consumes only what it registers and frees what it removes.
LEMMA HeldStep ==
    TypeOK /\ HardwareInOnePlace /\ RegisteredIsConsumed /\ IdsUsed /\ ConsumedIsRegistered /\ [Next]_vars
      => ConsumedIsRegistered'
<1> SUFFICES ASSUME TypeOK, HardwareInOnePlace, RegisteredIsConsumed, IdsUsed, ConsumedIsRegistered,
                    [Next]_vars
             PROVE  ConsumedIsRegistered'
  OBVIOUS
<1> DEFINE Owner(s) == inv'[s].status = "consumed" =>
                         \E g \in Gateways : inv'[s].by = g /\ s \in Owned(gw', g)
           Exempt == touched' \cup resourced'
<1>1. gw \in Tables /\ OnePlace(gw) /\ Backed(Memory) /\ Held(Memory) /\ Held(db) /\ inv \in [Serials -> Items]
  BY DEF TypeOK, HardwareInOnePlace, RegisteredIsConsumed, ConsumedIsRegistered, Tables
<1>2. ASSUME touched \cup resourced \subseteq Exempt, \A s \in Serials \ Exempt : Owner(s),
             Persist \/ UNCHANGED db
      PROVE  ConsumedIsRegistered'
  <2>1. Held(Memory)'
    BY <1>2 DEF Held, Memory
  <2>2. CASE db' = [inv |-> inv', gw |-> gw']
    BY <2>1, <2>2 DEF ConsumedIsRegistered, Memory, Held
  <2>3. CASE db' = db
    BY <1>1, <1>2, <2>1, <2>3 DEF ConsumedIsRegistered, Held
  <2> QED
    BY <1>2, <2>2, <2>3 DEF Persist
<1>3. ASSUME NEW s \in Serials \ Exempt, s \notin touched \cup resourced, inv'[s] = inv[s],
             \A g \in Gateways : s \in Owned(gw, g) => s \in Owned(gw', g)
      PROVE  Owner(s)
  BY <1>1, <1>3 DEF Held, Memory
<1>4. ASSUME NEW S \in SUBSET Serials, ImportSerialInventory(S) PROVE ConsumedIsRegistered'
  <2>1. gw' = gw /\ touched' = touched /\ resourced' = resourced
    BY <1>4 DEF ImportSerialInventory
  <2>2. ASSUME NEW s \in Serials \ Exempt PROVE Owner(s)
    <3>1. CASE inv'[s] = inv[s]
      BY <1>3, <2>1, <3>1
    <3>2. CASE inv'[s] = Available
      BY <3>2 DEF Available
    <3> QED
      BY <1>4, <3>1, <3>2 DEF ImportSerialInventory
  <2> QED
    BY <1>2, <1>4, <2>1, <2>2 DEF ImportSerialInventory
<1>5. ASSUME NEW x \in Serials, NEW next \in Statuses, NEW g \in used \cup {None},
             UpdateSerialInventoryStatus(x, next, g)
      PROVE  ConsumedIsRegistered'
  <2>1. gw' = gw /\ touched' = touched \cup {x} /\ resourced' = resourced
    BY <1>5 DEF UpdateSerialInventoryStatus
  <2>2. \A s \in Serials \ {x} : inv'[s] = inv[s]
    BY <1>1, <1>5 DEF UpdateSerialInventoryStatus
  <2>3. \A s \in Serials \ Exempt : Owner(s)
    BY <1>3, <2>1, <2>2
  <2> QED
    BY <1>2, <1>5, <2>1, <2>3 DEF UpdateSerialInventoryStatus
<1>6. ASSUME NEW S \in SUBSET Serials, NEW next \in Statuses, NEW g \in used \cup {None},
             BatchUpdateSerialInventoryStatus(S, next, g)
      PROVE  ConsumedIsRegistered'
  <2>1. PICK P \in SUBSET S : /\ inv' = [s \in Serials |-> IF s \in P THEN Transition(inv[s], next, g)
                                                           ELSE inv[s]]
                              /\ touched' = touched \cup P
    BY <1>6 DEF BatchUpdateSerialInventoryStatus
  <2>2. gw' = gw /\ resourced' = resourced /\ (Persist \/ UNCHANGED db)
    BY <1>6 DEF BatchUpdateSerialInventoryStatus
  <2>3. \A s \in Serials \ Exempt : Owner(s)
    BY <1>3, <2>1, <2>2
  <2> QED
    BY <1>2, <2>1, <2>2, <2>3
<1>7. ASSUME NEW g \in Gateways, NEW x \in GwSerials, Register(g, x) PROVE ConsumedIsRegistered'
  <2>1. /\ \A h \in Gateways \ {g} : gw'[h] = gw[h]
        /\ gw'[g].serial = x /\ gw'[g].source = gw[g].source
        /\ inv' = [inv EXCEPT ![x] = [status |-> "consumed", by |-> g]]
        /\ touched' = touched /\ resourced' = resourced /\ Persist
    BY <1>1, <1>7 DEF Register, Tables, Records
  <2>2. x \in Serials /\ gw[g].serial = None /\ None \notin GwSerials
    BY <1>7, SerialInventoryAssumption DEF Serials, Register, IdsUsed
  <2>3. Owner(x)
    <3>1. x \in Owned(gw', g) /\ inv'[x].by = g
      BY <1>1, <2>1, <2>2 DEF Owned
    <3> QED
      BY <3>1
  <2>4. ASSUME NEW s \in Serials \ Exempt, s # x PROVE Owner(s)
    <3>1. \A h \in Gateways : s \in Owned(gw, h) => s \in Owned(gw', h)
      BY <2>1, <2>2 DEF Owned
    <3> QED
      BY <1>1, <1>3, <2>1, <2>4, <3>1
  <2> QED
    BY <1>2, <2>1, <2>3, <2>4
<1>8. ASSUME NEW g \in Gateways, Deassign(g) PROVE ConsumedIsRegistered'
  <2>1. /\ \A h \in Gateways \ {g} : gw'[h] = gw[h]
        /\ inv' = [s \in Serials |-> IF s \in Owned(gw, g) THEN Release(s) ELSE inv[s]]
        /\ touched' = touched /\ resourced' = resourced /\ Persist
    BY <1>1, <1>8 DEF Deassign, Tables
  <2>2. ASSUME NEW s \in Serials \ Exempt PROVE Owner(s)
    <3>1. CASE s \in Owned(gw, g)
      <4>1. inv[s] = [status |-> "consumed", by |-> g]
        BY <1>1, <2>1, <3>1 DEF Backed, Memory
      <4>2. inv'[s].status # "consumed"
        BY <2>1, <3>1, <4>1, ReleaseFrees
      <4> QED
        BY <4>2
    <3>2. CASE s \notin Owned(gw, g)
      <4>1. \A h \in Gateways : s \in Owned(gw, h) => s \in Owned(gw', h)
        BY <2>1, <3>2 DEF Owned
      <4> QED
        BY <1>3, <2>1, <3>2, <4>1
    <3> QED
      BY <3>1, <3>2
  <2> QED
    BY <1>2, <2>1, <2>2
<1>9. ASSUME NEW g \in Gateways, NEW d \in DevSerials, NEW source \in Sources,
             RegisterDevice(g, d, source)
      PROVE  ConsumedIsRegistered'
  <2>1. d \in Serials /\ touched' = touched /\ resourced \subseteq resourced' /\ Persist
    BY <1>9 DEF RegisterDevice, Serials
  <2>2. \A s \in Serials \ {d} : inv'[s] = inv[s]
    BY <1>1, <1>9 DEF RegisterDevice
  <2>3. /\ \A h \in Gateways \ {g} : gw'[h] = gw[h]
        /\ gw'[g].serial = gw[g].serial
        /\ \A e \in DevSerials \ {d} : gw'[g].source[e] = gw[g].source[e]
        /\ gw'[g].source[d] = IF d \in Attached(g) THEN gw[g].source[d] ELSE source
    BY <1>1, <1>9 DEF RegisterDevice, Tables, Records
  <2>4. ASSUME NEW s \in Serials \ Exempt, s # d PROVE Owner(s)
    <3>1. \A h \in Gateways : s \in Owned(gw, h) => s \in Owned(gw', h)
      BY <2>3, <2>4 DEF Owned
    <3> QED
      BY <1>3, <2>1, <2>2, <2>4, <3>1
  <2>5. ASSUME d \notin Exempt PROVE Owner(d)
    <3>1. d \in Attached(g) => gw[g].source[d] = source
      BY <1>9, <2>5 DEF RegisterDevice
    <3>2. gw'[g].source[d] = source
      BY <2>3, <3>1
    <3>3. CASE source = Procured
      <4>1. inv'[d].by = g /\ d \in Owned(gw', g)
        BY <1>1, <1>9, <2>1, <3>2, <3>3 DEF RegisterDevice, Owned
      <4> QED
        BY <4>1
    <3>4. CASE source # Procured
      <4>1. d \notin Owned(gw, g)
        <5>1. d \notin GwSerials /\ Procured # None
          BY SerialInventoryAssumption DEF Sources
        <5>2. gw[g].source[d] # Procured
          BY <1>1, <3>1, <3>4, <5>1 DEF Attached, Devices, Tables, Records
        <5> QED
          BY <5>1, <5>2 DEF Owned
      <4>2. \A h \in Gateways : d \in Owned(gw, h) => d \in Owned(gw', h)
        BY <2>3, <4>1 DEF Owned
      <4>3. inv'[d] = inv[d]
        BY <1>9, <3>4 DEF RegisterDevice
      <4> QED
        BY <1>3, <2>1, <2>5, <4>2, <4>3
    <3> QED
      BY <3>3, <3>4
  <2> QED
    BY <1>2, <2>1, <2>4, <2>5
<1>10. ASSUME NEW g \in Gateways, NEW d \in DevSerials, DeassignDevice(g, d)
       PROVE  ConsumedIsRegistered'
  <2>1. d \in Serials /\ touched' = touched /\ resourced' = resourced /\ Persist
    BY <1>10 DEF DeassignDevice, Serials
  <2>2. \A s \in Serials \ {d} : inv'[s] = inv[s]
    BY <1>1, <1>10 DEF DeassignDevice
  <2>3. /\ \A h \in Gateways \ {g} : gw'[h] = gw[h]
        /\ gw'[g].serial = gw[g].serial
        /\ \A e \in DevSerials \ {d} : gw'[g].source[e] = gw[g].source[e]
    BY <1>1, <1>10 DEF DeassignDevice, Tables, Records
  <2>4. ASSUME NEW s \in Serials \ Exempt, s # d PROVE Owner(s)
    <3>1. \A h \in Gateways : s \in Owned(gw, h) => s \in Owned(gw', h)
      BY <2>3, <2>4 DEF Owned
    <3> QED
      BY <1>3, <2>1, <2>2, <2>4, <3>1
  <2>5. ASSUME d \notin Exempt PROVE Owner(d)
    <3>1. CASE gw[g].source[d] = Procured
      <4>1. inv[d] = [status |-> "consumed", by |-> g]
        BY <1>1, <2>1, <2>5, <3>1 DEF Backed, Memory, Owned
      <4>2. inv'[d] = Release(d)
        BY <1>1, <1>10, <2>1, <3>1 DEF DeassignDevice
      <4>3. inv'[d].status # "consumed"
        BY <2>1, <4>1, <4>2, ReleaseFrees
      <4> QED
        BY <4>3
    <3>2. CASE gw[g].source[d] # Procured
      <4>1. d \notin Owned(gw, g)
        BY <3>2, SerialInventoryAssumption DEF Owned
      <4>2. \A h \in Gateways : d \in Owned(gw, h) => d \in Owned(gw', h)
        BY <2>3, <4>1 DEF Owned
      <4>3. inv'[d] = inv[d]
        BY <1>10, <3>2 DEF DeassignDevice
      <4> QED
        BY <1>3, <2>1, <2>5, <4>2, <4>3
    <3> QED
      BY <3>1, <3>2
  <2> QED
    BY <1>2, <2>1, <2>4, <2>5
<1>11. CASE Restart
  <2>1. db.gw \in Tables
    BY DEF TypeOK, Tables
  <2>2. \A s \in Serials \ (touched \cup resourced) :
          Restored[s].status = "consumed" => \E g \in Gateways : Restored[s].by = g /\ s \in Owned(db.gw, g)
    <3> TAKE s \in Serials \ (touched \cup resourced)
    <3>1. CASE Restored = db.inv
      BY <1>1, <3>1 DEF Held
    <3>2. CASE Restored = SerialInventoryFromGateways(db.gw)
      BY <2>1, <3>2, FromGatewaysHeld
    <3> QED
      BY <3>1, <3>2 DEF Restored
  <2>3. /\ inv' = Restored /\ gw' = db.gw /\ touched' = touched /\ resourced' = resourced
        /\ db' = [inv |-> Restored, gw |-> db.gw]
    BY <1>11 DEF Restart
  <2> HIDE DEF Restored
  <2> QED
    BY <2>2, <2>3 DEF ConsumedIsRegistered, Held, Memory
<1>12. CASE UNCHANGED vars
  BY <1>1, <1>12 DEF vars, ConsumedIsRegistered, Held, Memory
<1> QED
  BY <1>4, <1>5, <1>6, <1>7, <1>8, <1>9, <1>10, <1>11, <1>12 DEF Next

\* For any fleet: no sequence of registrations, removals, failed saves and restarts leaks a serial.
\* Unless an administrator changed its status or the device was registered again under another
\* source, a consumed serial belongs to the gateway it is consumed by, in memory and in the store.
THEOREM ConsumedStaysRegistered == Spec => []ConsumedIsRegistered
<1>1. Init => ConsumedIsRegistered
  BY FromGatewaysHeld DEF Init, ConsumedIsRegistered, Held, Memory, Tables
<1>2. Init => IdsUsed
  BY DEF Init, IdsUsed
<1> QED
  BY <1>1, <1>2, TypeCorrect, HardwareStaysInOnePlace, RegisteredStaysConsumed, IdsUsedStep, HeldStep, PTL
     DEF Spec
=============================================================================
