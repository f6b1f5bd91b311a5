--------------------------- MODULE GatewayProofs ----------------------------
(* Proofs about the gateway, on the door and in the cloud: the relay        *)
(* drivers for any number of sessions, any unlock duration and either kind *)
(* of Close, and what the cloud keeps of a gateway for any number of       *)
(* handlers, connections, certificates, event keys and batches.            *)
EXTENDS DoorRelay, GatewayRuntime, FiniteSetTheorems, SequenceTheorems, TLAPS

-----------------------------------------------------------------------------
(* The relay drivers.                                                      *)

\* The fields of a driver keep their types: the timer never runs past zero
\* (Unlock, the AfterFunc callback, Close).
THEOREM TypeCorrect == Spec => []TypeOK
<1>1. Init => TypeOK
  <2> SUFFICES ASSUME Init PROVE TypeOK
    OBVIOUS
  <2>1. timer \in Stopped .. Duration /\ unlocks \in 0 .. MaxUnlocks
    BY DoorRelayAssumption DEF Init, Stopped
  <2> QED
    BY <2>1 DEF Init, TypeOK
<1>2. TypeOK /\ [Next]_vars => TypeOK'
  <2> SUFFICES ASSUME TypeOK, [Next]_vars PROVE TypeOK'
    OBVIOUS
  <2> USE DoorRelayAssumption DEF TypeOK, Stopped
  <2>1. ASSUME NEW s \in Sessions, Energise(s) PROVE TypeOK'
    <3>1. failed' \in BOOLEAN
      BY <2>1, Zenon DEF Energise
    <3> QED
      BY <2>1, <3>1 DEF Energise
  <2>2. ASSUME NEW s \in Sessions, EnergiseUnconfirmed(s) PROVE TypeOK'
    BY <2>2 DEF EnergiseUnconfirmed
  <2>3. ASSUME NEW s \in Sessions, Arm(s) PROVE TypeOK'
    BY <2>3 DEF Arm
  <2>4. CASE Fire
    BY <2>4 DEF Fire
  <2>5. CASE Relock
    BY <2>5 DEF Relock
  <2>6. CASE RelockFails
    BY <2>6 DEF RelockFails
  <2>7. CASE Tick
    BY <2>7 DEF Tick
  <2>8. CASE CloseStop \/ CloseWrite
    BY <2>8 DEF CloseStop, CloseWrite
  <2>9. CASE UNCHANGED vars
    BY <2>9 DEF vars
  <2> QED
    BY <2>1, <2>2, <2>3, <2>4, <2>5, <2>6, <2>7, <2>8, <2>9 DEF Next
<1> QED
  BY <1>1, <1>2, PTL DEF Spec

\* Every step of a session, the timer, a callback or Close keeps a re-lock
\* ahead of an unlocked door.
LEMMA RelockPendingStep == TypeOK /\ RelockPending /\ [Next]_vars => RelockPending'
<1> SUFFICES ASSUME TypeOK, RelockPending, [Next]_vars PROVE RelockPending'
  OBVIOUS
<1> USE DoorRelayAssumption DEF TypeOK, RelockPending, Stopped
<1>1. ASSUME NEW s \in Sessions, Energise(s) PROVE RelockPending'
  <2>1. session'[s] = "arm"
    BY <1>1 DEF Energise
  <2> QED
    BY <2>1
<1>2. ASSUME NEW s \in Sessions, EnergiseUnconfirmed(s) PROVE RelockPending'
  BY <1>2 DEF EnergiseUnconfirmed
<1>3. ASSUME NEW s \in Sessions, Arm(s) PROVE RelockPending'
  BY <1>3 DEF Arm
<1>4. CASE Fire
  BY <1>4 DEF Fire
<1>5. CASE Relock \/ RelockFails
  BY <1>5 DEF Relock, RelockFails
<1>6. CASE Tick
  BY <1>6 DEF Tick
<1>7. CASE CloseStop \/ CloseWrite
  BY <1>7 DEF CloseStop, CloseWrite
<1>8. CASE UNCHANGED vars
  BY <1>8 DEF vars
<1> QED
  BY <1>1, <1>2, <1>3, <1>4, <1>5, <1>6, <1>7, <1>8 DEF Next

\* However many sessions unlock at once and however old timers and callbacks
\* interleave with them, an unlocked door has a re-lock ahead of it, unless a
\* command reported an error or the driver is being closed.
THEOREM RelockAlwaysPending == Spec => []RelockPending
<1>1. Init => RelockPending
  BY DEF Init, RelockPending
<1> QED
  BY <1>1, TypeCorrect, RelockPendingStep, PTL DEF Spec

-----------------------------------------------------------------------------
(* What the cloud keeps of a gateway.                                      *)

-----------------------------------------------------------------------------
(* The inductive invariant.                                                *)

EventKeys == AccessKeys \cup DeviceKeys
Totals == [Queues -> Nat \cup {Missing}]
Statuses == {"online", "offline", "disabled", "none"}
RtState == [here : BOOLEAN, status : Statuses, doors : SUBSET {"door"}, desired : {"", "v1", "v2"},
            applied : {"", "v1", "v2"}, ota : OtaStatuses \cup {"none"}, acked : Totals, total : Totals,
            dev : [here : BOOLEAN, up : BOOLEAN, rs485 : BOOLEAN, timeouts : Nat], revoked : SUBSET Certs]
RowState == [keys : SUBSET EventKeys, loose : Nat]
IngestReq == [op : {"ingest"}, todo : Seq(EventKeys), queue : Queues, made : Nat]
AckReq == [op : {"ack"}, queue : Queues, acked : Nat]
AppliedReq == [op : {"applied"}, version : {"v1", "v2"}]
OtaReq == [op : {"ota"}, status : {"dispatching", "succeeded", "failed"}]
CloseReq == [op : {"close"}, all : BOOLEAN, cert : Certs \cup {NoCert}]
Reqs == {Idle} \cup IngestReq \cup AckReq \cup AppliedReq \cup OtaReq \cup CloseReq

GwTyped ==
    /\ rt \in RtState /\ rtSaved \in RtState
    /\ rows \in RowState /\ rowsSaved \in RowState
    /\ IsFiniteSet(rows.keys) /\ IsFiniteSet(rowsSaved.keys)
    /\ req \in [GwHandlers -> Reqs]
    /\ seen \in [made : Nat, unchecked : SUBSET Queues, disabled : BOOLEAN, overtaken : SUBSET GwHandlers]

\* The rows that requests have made and not yet added to a total, one pair each.
Pend == {x \in GwHandlers \X Nat : req[x[1]].op = "ingest" /\ x[2] \in 1 .. req[x[1]].made}

\* A checkpoint that is about to be written was compared.
AckSound ==
    \A h \in GwHandlers : req[h].op = "ack" /\ req[h].queue \notin seen.unchecked => req[h].acked <= seen.made

\* The totals and what requests have still to add to them count rows that were made.
CountInv ==
    /\ Made(rows) <= seen.made /\ Made(rowsSaved) <= seen.made
    /\ IsFiniteSet(Pend)
    /\ \A q \in Queues : /\ Known0(rt.total[q]) + Cardinality(Pend) <= seen.made
                         /\ rtSaved.total[q] <= seen.made
    /\ AckSound
    /\ CheckpointWithinIngested

\* A report that may still enable a disabled gateway was authorised before it was disabled.
DisabledInv ==
    /\ DisabledHolds
    /\ seen.disabled => \A h \in GwHandlers : req[h].op = "applied" => h \in seen.overtaken

GwInv == GwTyped /\ CountInv /\ DisabledInv

-----------------------------------------------------------------------------
(* What the steps have in common.                                          *)

\* The request a handler is at has the fields of its kind.
LEMMA ReqKinds ==
    ASSUME NEW r \in Reqs
    PROVE  /\ r.op = "ingest" => r \in IngestReq
           /\ r.op = "ack" => r \in AckReq
           /\ r.op = "applied" => r \in AppliedReq
           /\ r.op = "ota" => r \in OtaReq
           /\ r.op = "close" => r \in CloseReq
BY DEF Reqs, Idle, IngestReq, AckReq, AppliedReq, OtaReq, CloseReq

\* What is stored of the gateway is what it was or what is in memory.
LEMMA Stored ==
    ASSUME GwTyped, NEW r \in RtState, NEW ok \in BOOLEAN, StoreGateway(r, ok)
    PROVE  rt' = r /\ rtSaved' \in {rtSaved, r} /\ rt' \in RtState /\ rtSaved' \in RtState
BY DEF GwTyped, StoreGateway

\* A total, known or not.
LEMMA TotalType ==
    ASSUME NEW r \in RtState, NEW q \in Queues
    PROVE  /\ r.total[q] \in Int /\ Known0(r.total[q]) \in Nat /\ r.total[q] <= Known0(r.total[q])
           /\ r.acked[q] \in Int
           /\ Known0(Fresh.total[q]) = 0 /\ Fresh.total[q] = -1 /\ Fresh.acked[q] = -1
<1>1. r.total[q] \in Nat \cup {-1} /\ r.acked[q] \in Nat \cup {-1}
  BY DEF RtState, Totals, Missing
<1>2. Fresh.total[q] = -1 /\ Fresh.acked[q] = -1
  BY DEF Fresh, Missing
<1> QED
  BY <1>1, <1>2 DEF Known0, Missing

\* A step that makes no rows and writes no total or checkpoint, except that it may forget them.
LEMMA CountsKept ==
    ASSUME GwTyped, GwTyped', CountInv, UNCHANGED <<rows, rowsSaved>>,
           seen'.made = seen.made, seen.unchecked \subseteq seen'.unchecked,
           \/ rt'.acked = rt.acked /\ rt'.total = rt.total
           \/ rt'.acked = Fresh.acked /\ rt'.total = Fresh.total,
           rtSaved' \in {rtSaved, rt'}, Pend' \subseteq Pend, AckSound'
    PROVE  CountInv'
<1>1. /\ seen.made \in Nat /\ rt \in RtState /\ rt' \in RtState /\ rtSaved \in RtState
      /\ IsFiniteSet(Pend) /\ Cardinality(Pend) \in Nat
  BY FS_CardinalityType DEF GwTyped, CountInv
<1>2. IsFiniteSet(Pend') /\ Cardinality(Pend') <= Cardinality(Pend) /\ Cardinality(Pend') \in Nat
  BY <1>1, FS_Subset, FS_CardinalityType
<1>3. ASSUME NEW q \in Queues
      PROVE  Known0(rt'.total[q]) + Cardinality(Pend') <= seen.made /\ rtSaved'.total[q] <= seen.made
  <2>1. /\ Known0(rt.total[q]) + Cardinality(Pend) <= seen.made /\ rtSaved.total[q] <= seen.made
        /\ Known0(rt.total[q]) \in Nat /\ Known0(rt'.total[q]) \in Nat /\ rt'.total[q] <= Known0(rt'.total[q])
        /\ Known0(Fresh.total[q]) = 0 /\ rt'.total[q] \in Int
    BY <1>1, TotalType DEF CountInv
  <2>2. Known0(rt'.total[q]) <= Known0(rt.total[q])
    BY <2>1
  <2>3. Known0(rt'.total[q]) + Cardinality(Pend') <= seen.made
    BY <1>1, <1>2, <2>1, <2>2
  <2> QED
    BY <1>1, <1>2, <2>1, <2>3
<1>4. CheckpointWithinIngested'
  <2> SUFFICES ASSUME NEW q \in Queues \ seen.unchecked
               PROVE  rt'.acked[q] <= seen.made /\ rtSaved'.acked[q] <= seen.made
    BY DEF CheckpointWithinIngested
  <2>1. rt.acked[q] <= seen.made /\ rtSaved.acked[q] <= seen.made /\ Fresh.acked[q] = -1
    BY <1>1, TotalType DEF CountInv, CheckpointWithinIngested
  <2>2. rt'.acked[q] <= seen.made
    BY <1>1, <2>1
  <2> QED
    BY <2>1, <2>2
<1>5. Made(rows)' <= seen'.made /\ Made(rowsSaved)' <= seen'.made
  BY DEF CountInv, Made
<1> QED
  BY <1>2, <1>3, <1>4, <1>5 DEF CountInv

\* A disabled gateway stays so in a step that leaves its status and the reports alone.
LEMMA DisabledKept ==
    ASSUME DisabledInv,
           seen'.disabled => /\ seen.disabled /\ rt'.status = rt.status /\ seen'.overtaken = seen.overtaken
                             /\ \A h \in GwHandlers : req'[h].op = "applied" => req[h].op = "applied"
    PROVE  DisabledInv'
BY DEF DisabledInv, DisabledHolds, StatusRevoked

\* A handler takes up or ends a request that makes no rows.
LEMMA Switched ==
    ASSUME GwTyped, NEW h \in GwHandlers, NEW r \in Reqs, req' = [req EXCEPT ![h] = r],
           r.op = "ingest" => r.made = 0
    PROVE  /\ req' \in [GwHandlers -> Reqs] /\ req'[h] = r
           /\ \A g \in GwHandlers \ {h} : req'[g] = req[g]
           /\ Pend' \subseteq Pend
<1>1. /\ req' \in [GwHandlers -> Reqs] /\ req'[h] = r /\ \A g \in GwHandlers \ {h} : req'[g] = req[g]
  BY DEF GwTyped
<1>2. ASSUME NEW x \in Pend' PROVE x \in Pend
  <2>1. x \in GwHandlers \X Nat /\ req'[x[1]].op = "ingest" /\ x[2] \in 1 .. req'[x[1]].made
    BY <1>2 DEF Pend
  <2>2. x[1] # h
    BY <1>1, <2>1
  <2> QED
    BY <1>1, <2>1, <2>2 DEF Pend
<1> QED
  BY <1>1, <1>2

\* The checkpoints about to be written stay sound while no request for one begins.
LEMMA AcksKept ==
    ASSUME CountInv, seen'.made = seen.made, seen.unchecked \subseteq seen'.unchecked,
           \A h \in GwHandlers : req'[h] = req[h] \/ req'[h].op # "ack"
    PROVE  AckSound'
BY DEF CountInv, AckSound

\* A request of an administrator: the status changes only with the history.
LEMMA AdministerStep ==
    ASSUME GwInv, NEW r \in RtState, Administer(r),
           \/ r.acked = rt.acked /\ r.total = rt.total
           \/ r.acked = Fresh.acked /\ r.total = Fresh.total,
           seen' \in [made : Nat, unchecked : SUBSET Queues, disabled : BOOLEAN, overtaken : SUBSET GwHandlers],
           seen'.made = seen.made, seen'.unchecked = seen.unchecked,
           ~seen'.disabled \/ (seen' = seen /\ r.status = rt.status)
    PROVE  GwInv'
<1>1. PICK ok \in BOOLEAN : StoreGateway(r, ok)
  BY DEF Administer
<1>2. /\ rt' = r /\ rtSaved' \in {rtSaved, r} /\ rt' \in RtState /\ rtSaved' \in RtState
      /\ UNCHANGED <<rows, rowsSaved, req>>
  BY <1>1, Stored DEF GwInv, Administer
<1>3. GwTyped'
  BY <1>2 DEF GwInv, GwTyped
<1>4. Pend' \subseteq Pend
  BY <1>2 DEF Pend
<1>5. AckSound'
  BY <1>2, AcksKept DEF GwInv
<1>6. CountInv'
  BY <1>2, <1>3, <1>4, <1>5, CountsKept DEF GwInv
<1>7. DisabledInv'
  BY <1>2, DisabledKept DEF GwInv
<1> QED
  BY <1>3, <1>6, <1>7 DEF GwInv

-----------------------------------------------------------------------------
(* The steps.                                                              *)

\* The operations of an administrator.
LEMMA AdminSteps ==
    ASSUME GwInv,
           \/ \E v \in {"v1", "v2"} : publishGatewayConfig(v)
           \/ \E n \in 0 .. 1 : reportGatewayDeviceRS485Telemetry(n)
           \/ \E mine, up, rs485 \in BOOLEAN : registerGatewayDevice(mine, up, rs485)
           \/ \E mine, last \in BOOLEAN : deassignReferenceReader(mine, last)
           \/ rebootGateway \/ updateReferenceReader \/ resetTamperReferenceReader
           \/ bindGatewayDoor("door") \/ unbindGatewayDoor("door")
           \/ createGatewayOTATask \/ (\E status \in OtaStatuses : updateGatewayOTATaskStatus(status))
           \/ deassignReferenceController
    PROVE  GwInv'
<1> DEFINE SeenSet == [made : Nat, unchecked : SUBSET Queues, disabled : BOOLEAN, overtaken : SUBSET GwHandlers]
<1>1. rt \in RtState /\ seen \in SeenSet
  BY DEF GwInv, GwTyped
<1>2. ASSUME NEW r \in RtState, Administer(r), r.acked = rt.acked, r.total = rt.total, r.status = rt.status,
             UNCHANGED seen
      PROVE  GwInv'
  <2>1. /\ seen' \in SeenSet /\ seen'.made = seen.made /\ seen'.unchecked = seen.unchecked
        /\ seen' = seen /\ r.status = rt.status
    BY <1>1, <1>2
  <2> HIDE DEF SeenSet
  <2>2. \/ r.acked = rt.acked /\ r.total = rt.total
        \/ r.acked = Fresh.acked /\ r.total = Fresh.total
    BY <1>2
  <2> QED
    BY <1>2, <2>1, <2>2, AdministerStep, Zenon DEF SeenSet
<1>3. ASSUME NEW r \in RtState, Administer(r), r.acked = rt.acked, r.total = rt.total, Enabled
      PROVE  GwInv'
  <2>1. /\ seen' \in SeenSet /\ seen'.made = seen.made /\ seen'.unchecked = seen.unchecked /\ ~seen'.disabled
    BY <1>1, <1>3 DEF Enabled
  <2> QED
    BY <1>3, <2>1, AdministerStep, Zenon
<1>4. ASSUME NEW v \in {"v1", "v2"}, publishGatewayConfig(v) PROVE GwInv'
  <2>1. [rt EXCEPT !.desired = v] \in RtState
    BY <1>1 DEF RtState
  <2> QED
    BY <1>1, <1>2, <1>4, <2>1 DEF publishGatewayConfig, RtState
<1>5. ASSUME NEW n \in 0 .. 1, reportGatewayDeviceRS485Telemetry(n) PROVE GwInv'
  <2>1. ReportRS485Telemetry(n) \in RtState
    <3> DEFINE t == IF n = 0 THEN 0 ELSE rt.dev.timeouts + n
    <3>a. rt.dev \in [here : BOOLEAN, up : BOOLEAN, rs485 : BOOLEAN, timeouts : Nat]
      BY <1>1 DEF RtState
    <3>b. rt.dev.timeouts \in Nat
      BY <3>a
    <3>1. t \in Nat
      BY <3>b
    <3> HIDE DEF t
    <3>2. [rt EXCEPT !.status = "online", !.dev.timeouts = t] \in RtState
      BY <1>1, <3>a, <3>1 DEF RtState, Statuses
    <3> QED
      BY <3>2 DEF t, ReportRS485Telemetry
  <2>2. ReportRS485Telemetry(n).acked = rt.acked /\ ReportRS485Telemetry(n).total = rt.total
    BY <1>1 DEF RtState, ReportRS485Telemetry
  <2> QED
    BY <1>3, <1>5, <2>1, <2>2 DEF reportGatewayDeviceRS485Telemetry
<1>6. CASE rebootGateway
  <2>1. Reboot \in RtState /\ Reboot.acked = rt.acked /\ Reboot.total = rt.total
    BY <1>1 DEF RtState, Reboot, Statuses
  <2> QED
    BY <1>3, <1>6, <2>1 DEF rebootGateway
<1>7. CASE updateReferenceReader
  <2>1. ASSUME NEW up \in BOOLEAN, NEW rs485 \in BOOLEAN
        PROVE  [rt EXCEPT !.dev.up = up, !.dev.rs485 = rs485] \in RtState
    BY <1>1 DEF RtState
  <2>2. ASSUME NEW up \in BOOLEAN PROVE [rt EXCEPT !.dev.up = up] \in RtState
    BY <1>1 DEF RtState
  <2>3. CASE \E up, rs485 \in BOOLEAN : Administer([rt EXCEPT !.dev.up = up, !.dev.rs485 = rs485])
    <3>1. PICK up \in BOOLEAN, rs485 \in BOOLEAN : Administer([rt EXCEPT !.dev.up = up, !.dev.rs485 = rs485])
      BY <2>3
    <3> DEFINE r == [rt EXCEPT !.dev.up = up, !.dev.rs485 = rs485]
    <3>2. r.acked = rt.acked /\ r.total = rt.total /\ r.status = rt.status /\ r \in RtState
      BY <1>1, <2>1 DEF RtState
    <3> HIDE DEF r
    <3>3. Administer(r)
      BY <3>1 DEF r
    <3> QED
      BY <1>2, <1>7, <3>2, <3>3 DEF updateReferenceReader
  <2>4. CASE \E up \in BOOLEAN : /\ rt.here /\ Free /\ CountGwOp
                                 /\ StoreGateway([rt EXCEPT !.dev.up = up], FALSE)
                                 /\ UNCHANGED <<rows, rowsSaved, req, conn, registry>>
    <3>1. PICK up \in BOOLEAN : /\ rt.here /\ Free /\ CountGwOp
                                /\ StoreGateway([rt EXCEPT !.dev.up = up], FALSE)
                                /\ UNCHANGED <<rows, rowsSaved, req, conn, registry>>
      BY <2>4
    <3> DEFINE r == [rt EXCEPT !.dev.up = up]
    <3>2. r.acked = rt.acked /\ r.total = rt.total /\ r.status = rt.status /\ r \in RtState
      BY <1>1, <2>2 DEF RtState
    <3> HIDE DEF r
    <3>3. Administer(r)
      BY <3>1 DEF r, Administer
    <3> QED
      BY <1>2, <1>7, <3>2, <3>3 DEF updateReferenceReader
  <2> QED
    BY <1>7, <2>3, <2>4 DEF updateReferenceReader, UpdateDevice
<1>8. CASE resetTamperReferenceReader
  <2>1. /\ ResetDeviceTamper \in RtState /\ ResetDeviceTamper.acked = rt.acked
        /\ ResetDeviceTamper.total = rt.total /\ ResetDeviceTamper.status = rt.status
    BY <1>1 DEF RtState, ResetDeviceTamper
  <2> QED
    BY <1>2, <1>8, <2>1 DEF resetTamperReferenceReader
<1>9. CASE bindGatewayDoor("door")
  <2>1. /\ BindDoor("door") \in RtState /\ BindDoor("door").acked = rt.acked
        /\ BindDoor("door").total = rt.total /\ BindDoor("door").status = rt.status
    BY <1>1 DEF RtState, BindDoor
  <2> QED
    BY <1>2, <1>9, <2>1 DEF bindGatewayDoor
<1>10. CASE unbindGatewayDoor("door")
  <2>1. /\ UnbindDoor("door") \in RtState /\ UnbindDoor("door").acked = rt.acked
        /\ UnbindDoor("door").total = rt.total /\ UnbindDoor("door").status = rt.status
    BY <1>1 DEF RtState, UnbindDoor
  <2> QED
    BY <1>2, <1>10, <2>1 DEF unbindGatewayDoor
<1>11. CASE createGatewayOTATask
  <2>1. [rt EXCEPT !.ota = "queued"] \in RtState
    BY <1>1 DEF RtState, OtaStatuses
  <2> QED
    BY <1>1, <1>2, <1>11, <2>1 DEF createGatewayOTATask, RtState
<1>12. ASSUME NEW status \in OtaStatuses, updateGatewayOTATaskStatus(status) PROVE GwInv'
  <2>1. /\ UpdateOTATaskStatus(status) \in RtState /\ UpdateOTATaskStatus(status).acked = rt.acked
        /\ UpdateOTATaskStatus(status).total = rt.total /\ UpdateOTATaskStatus(status).status = rt.status
    BY <1>1 DEF RtState, UpdateOTATaskStatus
  <2> QED
    BY <1>2, <1>12, <2>1 DEF updateGatewayOTATaskStatus
<1>13. CASE deassignReferenceController
  <2>1. /\ removeGatewayRuntimeState \in RtState /\ removeGatewayRuntimeState.acked = Fresh.acked
        /\ removeGatewayRuntimeState.total = Fresh.total
    BY <1>1 DEF RtState, removeGatewayRuntimeState, Fresh, Device, NoDevice, Statuses, Totals, Missing
  <2>2. /\ seen' \in SeenSet /\ seen'.made = seen.made /\ seen'.unchecked = seen.unchecked /\ ~seen'.disabled
    BY <1>1, <1>13 DEF deassignReferenceController
  <2> QED
    BY <1>13, <2>1, <2>2, AdministerStep DEF deassignReferenceController
<1>14. ASSUME NEW mine \in BOOLEAN, NEW up \in BOOLEAN, NEW rs485 \in BOOLEAN, registerGatewayDevice(mine, up, rs485)
       PROVE  GwInv'
  <2> DEFINE r == RegisterDevice(mine, up, rs485)
  <2>1. r \in RtState /\ r.acked = rt.acked /\ r.total = rt.total
    <3>1. CASE mine /\ rt.dev.here
      BY <1>1, <3>1 DEF RtState, RegisterDevice
    <3>2. CASE ~(mine /\ rt.dev.here)
      <4>1. Device(up, rs485) \in [here : BOOLEAN, up : BOOLEAN, rs485 : BOOLEAN, timeouts : Nat]
        BY DEF Device
      <4>2. ASSUME NEW s \in Statuses, NEW d \in [here : BOOLEAN, up : BOOLEAN, rs485 : BOOLEAN, timeouts : Nat],
                   r = [rt EXCEPT !.status = s, !.dev = d]
            PROVE  r \in RtState /\ r.acked = rt.acked /\ r.total = rt.total
        <5> DEFINE x == [rt EXCEPT !.status = s, !.dev = d]
        <5>1. x \in RtState /\ x.acked = rt.acked /\ x.total = rt.total
          BY <1>1 DEF RtState
        <5> QED
          BY <4>2, <5>1, Zenon
      <4> QED
        BY <1>1, <3>2, <4>1, <4>2 DEF RegisterDevice, RtState, Statuses
    <3> QED
      BY <3>1, <3>2
  <2>2. ~(up /\ ~(mine /\ rt.dev.here)) => r.status = rt.status
    BY <1>1 DEF RtState, RegisterDevice
  <2>3. Administer(r) /\ (IF up /\ ~(mine /\ rt.dev.here) THEN Enabled ELSE UNCHANGED seen)
    BY <1>14 DEF registerGatewayDevice
  <2> HIDE DEF r
  <2> QED
    BY <1>2, <1>3, <2>1, <2>2, <2>3
<1>15. ASSUME NEW mine \in BOOLEAN, NEW last \in BOOLEAN, deassignReferenceReader(mine, last) PROVE GwInv'
  <2> DEFINE r == DeassignDevice(mine, last)
  <2>1. r \in RtState /\ r.acked = rt.acked /\ r.total = rt.total /\ (~last => r.status = rt.status)
    BY <1>1 DEF RtState, DeassignDevice, NoDevice, Statuses
  <2>2. Administer(r) /\ (IF last THEN Enabled ELSE UNCHANGED seen)
    BY <1>15 DEF deassignReferenceReader
  <2> HIDE DEF r
  <2> QED
    BY <1>2, <1>3, <2>1, <2>2
<1> QED
  BY <1>4, <1>5, <1>6, <1>7, <1>8, <1>9, <1>10, <1>11, <1>12, <1>13, <1>14, <1>15

\* A step that writes neither total, checkpoint nor row, and enables no disabled gateway.
LEMMA PlainStep ==
    ASSUME GwInv, rt' \in RtState, rtSaved' \in {rtSaved, rt'}, rt'.acked = rt.acked, rt'.total = rt.total,
           UNCHANGED <<rows, rowsSaved>>, req' \in [GwHandlers -> Reqs], Pend' \subseteq Pend, AckSound',
           seen' \in [made : Nat, unchecked : SUBSET Queues, disabled : BOOLEAN, overtaken : SUBSET GwHandlers],
           seen'.made = seen.made, seen.unchecked \subseteq seen'.unchecked, DisabledInv'
    PROVE  GwInv'
<1>1. rtSaved' \in RtState
  BY DEF GwInv, GwTyped
<1>2. GwTyped'
  BY <1>1 DEF GwInv, GwTyped
<1>3. CountInv'
  BY <1>2, CountsKept DEF GwInv
<1> QED
  BY <1>2, <1>3 DEF GwInv

\* A handler takes up, or has done with, a request; nothing else happens.
LEMMA RequestStep ==
    ASSUME GwInv, NEW h \in GwHandlers, NEW r \in Reqs, req' = [req EXCEPT ![h] = r],
           r.op = "ingest" => r.made = 0, r.op # "ack",
           r.op = "applied" => ~StatusRevoked(rt.status),
           rt' \in RtState, rtSaved' \in {rtSaved, rt'}, rt'.acked = rt.acked, rt'.total = rt.total,
           rt'.status = rt.status, UNCHANGED <<rows, rowsSaved, seen>>
    PROVE  GwInv'
<1>1. /\ req' \in [GwHandlers -> Reqs] /\ req'[h] = r
      /\ \A g \in GwHandlers \ {h} : req'[g] = req[g]
      /\ Pend' \subseteq Pend
  BY Switched DEF GwInv
<1>2. AckSound'
  BY <1>1, AcksKept DEF GwInv
<1>3. DisabledInv'
  <2>1. seen.disabled => r.op # "applied"
    BY DEF GwInv, DisabledInv, DisabledHolds
  <2> QED
    BY <1>1, <2>1, DisabledKept DEF GwInv
<1>4. seen' \in [made : Nat, unchecked : SUBSET Queues, disabled : BOOLEAN, overtaken : SUBSET GwHandlers]
  BY DEF GwInv, GwTyped
<1>5. seen'.made = seen.made /\ seen.unchecked \subseteq seen'.unchecked
  OBVIOUS
<1> QED
  BY <1>1, <1>2, <1>3, <1>4, <1>5, PlainStep

\* Nothing that the invariant speaks of changes.
LEMMA StutterStep ==
    ASSUME GwInv, UNCHANGED <<rt, rtSaved, rows, rowsSaved, req, seen>>
    PROVE  GwInv'
BY DEF GwInv, GwTyped, CountInv, DisabledInv, Made, Pend, AckSound, CheckpointWithinIngested, DisabledHolds

\* A gateway that is authorised is not disabled.
LEMMA AuthorizedEnabled ==
    ASSUME DeviceRequest
    PROVE  ~StatusRevoked(rt.status)
BY DEF DeviceRequest, DeviceAuthorized

\* Requests of the gateway that only begin, and sessions.
LEMMA ArrivalSteps ==
    ASSUME GwInv, NEW h \in GwHandlers,
           \/ gatewayBootstrapAccessEvent(h) \/ gatewayBootstrapDeviceEvent(h) \/ gatewayBootstrapEventsBatch(h)
           \/ gatewayBootstrapConfigApplied(h) \/ gatewayBootstrapOTAReport(h) \/ closeGatewaySessions(h)
    PROVE  GwInv'
<1>1. rt \in RtState
  BY DEF GwInv, GwTyped
<1>2. ASSUME NEW r \in Reqs, req' = [req EXCEPT ![h] = r], r.op = "ingest" => r.made = 0, r.op # "ack",
             r.op = "applied" => ~StatusRevoked(rt.status), UNCHANGED <<rt, rtSaved, rows, rowsSaved, seen>>
      PROVE  GwInv'
  <2>1. rt' \in RtState /\ rtSaved' \in {rtSaved, rt'} /\ rt'.acked = rt.acked /\ rt'.total = rt.total
        /\ rt'.status = rt.status
    BY <1>1, <1>2
  <2> QED
    BY <1>2, <2>1, RequestStep
<1>3. ASSUME NEW events \in Seq(EventKeys), NEW queue \in Queues, Ingest(h, events, queue) PROVE GwInv'
  <2> DEFINE r == [op |-> "ingest", todo |-> events, queue |-> queue, made |-> 0]
  <2>1. r \in IngestReq /\ r.op = "ingest" /\ r.made = 0
    BY DEF IngestReq
  <2>2. req' = [req EXCEPT ![h] = r] /\ UNCHANGED <<rt, rtSaved, rows, rowsSaved, seen>>
    BY <1>3 DEF Ingest, Begin
  <2> HIDE DEF r
  <2>3. r \in Reqs
    BY <2>1 DEF Reqs
  <2> QED
    BY <1>2, <2>1, <2>2, <2>3
<1>4. CASE gatewayBootstrapAccessEvent(h) \/ gatewayBootstrapDeviceEvent(h) \/ gatewayBootstrapEventsBatch(h)
  <2>1. "default" \in Queues
    BY DEF Queues
  <2>2. ASSUME NEW k \in EventKeys, Ingest(h, <<k>>, "default") PROVE GwInv'
    <3>1. <<k>> \in Seq(EventKeys)
      OBVIOUS
    <3> QED
      BY <1>3, <2>1, <2>2, <3>1
  <2>3. ASSUME NEW b \in Batches, NEW queue \in Queues, Ingest(h, b, queue) PROVE GwInv'
    BY <1>3, <2>3, GatewayRuntimeAssumption DEF EventKeys
  <2> QED
    BY <1>4, <2>2, <2>3 DEF gatewayBootstrapAccessEvent, gatewayBootstrapDeviceEvent,
                           gatewayBootstrapEventsBatch, EventKeys
<1>5. CASE gatewayBootstrapConfigApplied(h)
  <2>1. PICK v \in {"v1", "v2"} : /\ DeviceRequest /\ req' = [req EXCEPT ![h] = [op |-> "applied", version |-> v]]
                                  /\ UNCHANGED <<rt, rtSaved, rows, rowsSaved, seen>>
    BY <1>5 DEF gatewayBootstrapConfigApplied, Begin
  <2>2. [op |-> "applied", version |-> v] \in Reqs
    BY DEF Reqs, AppliedReq
  <2> QED
    BY <1>2, <2>1, <2>2, AuthorizedEnabled
<1>6. CASE gatewayBootstrapOTAReport(h)
  <2>1. PICK st \in {"dispatching", "succeeded", "failed"} :
          /\ req' = [req EXCEPT ![h] = [op |-> "ota", status |-> st]]
          /\ UNCHANGED <<rt, rtSaved, rows, rowsSaved, seen>>
    BY <1>6 DEF gatewayBootstrapOTAReport, Begin
  <2>2. [op |-> "ota", status |-> st] \in Reqs
    BY DEF Reqs, OtaReq
  <2> QED
    BY <1>2, <2>1, <2>2
<1>7. CASE closeGatewaySessions(h)
  <2>1. req' = [req EXCEPT ![h] = Idle] /\ UNCHANGED <<rt, rtSaved, rows, rowsSaved, seen>>
    BY <1>7 DEF closeGatewaySessions, Finish
  <2>2. Idle \in Reqs /\ Idle.op = "idle"
    BY DEF Reqs, Idle
  <2> QED
    BY <1>2, <2>1, <2>2
<1> QED
  BY <1>4, <1>5, <1>6, <1>7

\* ReportOTA and MarkConfigApplied.
LEMMA ReportSteps ==
    ASSUME GwInv, NEW h \in GwHandlers, ReportOTA(h) \/ MarkConfigApplied(h)
    PROVE  GwInv'
<1>1. rt \in RtState /\ Idle \in Reqs /\ Idle.op = "idle" /\ req[h] \in Reqs
      /\ seen \in [made : Nat, unchecked : SUBSET Queues, disabled : BOOLEAN, overtaken : SUBSET GwHandlers]
  BY DEF GwInv, GwTyped, Reqs, Idle
<1>2. CASE ReportOTA(h)
  <2>1. req' = [req EXCEPT ![h] = Idle] /\ UNCHANGED <<rows, rowsSaved, seen>>
    BY <1>2 DEF ReportOTA, Finish
  <2>2. req[h].op = "ota" /\ req[h].status \in OtaStatuses
    BY <1>1, <1>2, ReqKinds DEF ReportOTA, OtaReq, OtaStatuses
  <2>3. /\ UpdateOTATaskStatus(req[h].status) \in RtState
        /\ UpdateOTATaskStatus(req[h].status).acked = rt.acked
        /\ UpdateOTATaskStatus(req[h].status).total = rt.total
        /\ UpdateOTATaskStatus(req[h].status).status = rt.status
    BY <1>1, <2>2 DEF RtState, UpdateOTATaskStatus
  <2>4. \/ UNCHANGED <<rt, rtSaved>>
        \/ \E ok \in BOOLEAN : StoreGateway(UpdateOTATaskStatus(req[h].status), ok)
    BY <1>2 DEF ReportOTA
  <2>5. /\ rt' \in RtState /\ rtSaved' \in {rtSaved, rt'} /\ rt'.acked = rt.acked /\ rt'.total = rt.total
        /\ rt'.status = rt.status
    BY <1>1, <2>3, <2>4, Stored DEF GwInv
  <2> QED
    BY <1>1, <2>1, <2>5, RequestStep
<1>3. CASE MarkConfigApplied(h)
  <2>1. /\ req' = [req EXCEPT ![h] = Idle] /\ UNCHANGED <<rows, rowsSaved>> /\ req[h].op = "applied"
        /\ seen' = [seen EXCEPT !.disabled = @ /\ h \notin seen.overtaken, !.overtaken = @ \ {h}]
    BY <1>3 DEF MarkConfigApplied, Finish
  <2>2. req[h].version \in {"v1", "v2"}
    BY <1>1, <2>1, ReqKinds DEF AppliedReq
  <2> DEFINE r == [rt EXCEPT !.status = "online", !.applied = req[h].version,
                             !.desired = IF @ = "" THEN req[h].version ELSE @]
  <2>3. r \in RtState /\ r.acked = rt.acked /\ r.total = rt.total
    BY <1>1, <2>2 DEF RtState, Statuses
  <2>4. UNCHANGED <<rt, rtSaved>> \/ \E ok \in BOOLEAN : StoreGateway(r, ok)
    BY <1>3 DEF MarkConfigApplied
  <2> HIDE DEF r
  <2>5. rt' \in RtState /\ rtSaved' \in {rtSaved, rt'} /\ rt'.acked = rt.acked /\ rt'.total = rt.total
    BY <1>1, <2>3, <2>4, Stored DEF GwInv
  <2>6. /\ req' \in [GwHandlers -> Reqs] /\ req'[h] = Idle
        /\ \A g \in GwHandlers \ {h} : req'[g] = req[g]
        /\ Pend' \subseteq Pend
    BY <1>1, <2>1, Switched DEF GwInv
  <2>7. /\ seen'.made = seen.made /\ seen'.unchecked = seen.unchecked
        /\ seen'.disabled = (seen.disabled /\ h \notin seen.overtaken)
        /\ seen'.overtaken = seen.overtaken \ {h}
    BY <1>1, <2>1
  <2>8. seen' \in [made : Nat, unchecked : SUBSET Queues, disabled : BOOLEAN, overtaken : SUBSET GwHandlers]
    BY <1>1, <2>1
  <2>9. AckSound'
    BY <1>1, <2>6, <2>7, AcksKept DEF GwInv
  <2>10. ~seen'.disabled
    BY <2>1, <2>7 DEF GwInv, DisabledInv
  <2>11. DisabledInv'
    BY <2>10 DEF DisabledInv, DisabledHolds
  <2> QED
    BY <2>1, <2>5, <2>6, <2>7, <2>8, <2>9, <2>11, PlainStep
<1> QED
  BY <1>2, <1>3

\* RevokedBy, of a status or a certificate.
LEMMA RevokedByStep ==
    ASSUME GwInv, NEW h \in GwHandlers, NEW reason \in Certs \cup {"disabled"}, NEW task \in CloseReq,
           RevokedBy(h, reason, task), UNCHANGED <<rows, rowsSaved>>
    PROVE  GwInv'
<1> DEFINE r == IF reason \in Certs THEN [rt EXCEPT !.revoked = @ \cup {reason}] ELSE UpdateGatewayStatus(reason)
<1>1. rt \in RtState
      /\ seen \in [made : Nat, unchecked : SUBSET Queues, disabled : BOOLEAN, overtaken : SUBSET GwHandlers]
  BY DEF GwInv, GwTyped
<1>2. PICK ok \in BOOLEAN :
        /\ StoreGateway(r, ok) /\ req' = [req EXCEPT ![h] = IF ok THEN task ELSE Idle]
        /\ seen' = [seen EXCEPT !.disabled = @ \/ reason \notin Certs,
                                !.overtaken = IF reason \in Certs THEN @
                                              ELSE @ \cup {g \in GwHandlers : req[g].op = "applied"}]
  BY DEF RevokedBy, Begin
<1> DEFINE t == IF ok THEN task ELSE Idle
<1>3. /\ r \in RtState /\ r.acked = rt.acked /\ r.total = rt.total
      /\ reason \in Certs => r.status = rt.status
      /\ reason \notin Certs => r.status = "disabled"
  BY <1>1 DEF RtState, UpdateGatewayStatus, Statuses
<1>4. t \in Reqs /\ t.op \in {"close", "idle"}
  BY DEF Reqs, Idle, CloseReq
<1>5. req' = [req EXCEPT ![h] = t]
  BY <1>2
<1> HIDE DEF r, t
<1>6. rt' = r /\ rtSaved' \in {rtSaved, r}
  BY <1>2, <1>3, Stored DEF GwInv
<1>7. /\ req' \in [GwHandlers -> Reqs] /\ req'[h] = t
      /\ \A g \in GwHandlers \ {h} : req'[g] = req[g]
      /\ Pend' \subseteq Pend
  BY <1>4, <1>5, Switched DEF GwInv
<1>8. /\ seen'.made = seen.made /\ seen'.unchecked = seen.unchecked
      /\ seen'.disabled = (seen.disabled \/ reason \notin Certs)
      /\ reason \in Certs => seen'.overtaken = seen.overtaken
      /\ reason \notin Certs => \A g \in GwHandlers : req[g].op = "applied" => g \in seen'.overtaken
  BY <1>1, <1>2
<1>9. seen' \in [made : Nat, unchecked : SUBSET Queues, disabled : BOOLEAN, overtaken : SUBSET GwHandlers]
  BY <1>1, <1>2
<1>10. AckSound'
  BY <1>4, <1>7, <1>8, AcksKept DEF GwInv
<1>11. DisabledInv'
  <2>1. CASE reason \in Certs
    BY <1>3, <1>4, <1>6, <1>7, <1>8, <2>1, DisabledKept DEF GwInv
  <2>2. CASE reason \notin Certs
    BY <1>3, <1>4, <1>6, <1>7, <1>8, <2>2 DEF DisabledInv, DisabledHolds, StatusRevoked
  <2> QED
    BY <2>1, <2>2
<1> QED
  BY <1>3, <1>6, <1>7, <1>8, <1>9, <1>10, <1>11, PlainStep

\* updateGatewayStatus, revokeGatewayCertificateSerial, restoreGatewayCertificateSerial.
LEMMA StatusSteps ==
    ASSUME GwInv,
           \/ \E h \in GwHandlers, status \in {"online", "offline", "disabled"} : updateGatewayStatus(h, status)
           \/ \E h \in GwHandlers, x \in Certs : revokeGatewayCertificateSerial(h, x)
           \/ \E x \in Certs : restoreGatewayCertificateSerial(x)
    PROVE  GwInv'
<1>1. rt \in RtState /\ Idle \in Reqs /\ Idle.op = "idle"
      /\ seen \in [made : Nat, unchecked : SUBSET Queues, disabled : BOOLEAN, overtaken : SUBSET GwHandlers]
  BY DEF GwInv, GwTyped, Reqs, Idle
<1>2. ASSUME NEW h \in GwHandlers, NEW status \in {"online", "offline", "disabled"}, updateGatewayStatus(h, status)
      PROVE  GwInv'
  <2>1. CASE status = "disabled"
    <3>1. [op |-> "close", all |-> TRUE, cert |-> NoCert] \in CloseReq
      BY DEF CloseReq
    <3>2. RevokedBy(h, "disabled", [op |-> "close", all |-> TRUE, cert |-> NoCert]) /\ UNCHANGED <<rows, rowsSaved>>
      BY <1>2, <2>1 DEF updateGatewayStatus, StatusRevoked
    <3> QED
      BY <3>1, <3>2, RevokedByStep
  <2>2. CASE status # "disabled"
    <3>1. /\ req' = [req EXCEPT ![h] = Idle] /\ Enabled /\ UNCHANGED <<rows, rowsSaved>>
          /\ \E ok \in BOOLEAN : StoreGateway(UpdateGatewayStatus(status), ok)
      BY <1>2, <2>2 DEF updateGatewayStatus, StatusRevoked, Begin
    <3>2. /\ UpdateGatewayStatus(status) \in RtState /\ UpdateGatewayStatus(status).acked = rt.acked
          /\ UpdateGatewayStatus(status).total = rt.total
      BY <1>1 DEF UpdateGatewayStatus, RtState, Statuses
    <3>3. rt' \in RtState /\ rtSaved' \in {rtSaved, rt'} /\ rt'.acked = rt.acked /\ rt'.total = rt.total
      BY <3>1, <3>2, Stored DEF GwInv
    <3>4. /\ req' \in [GwHandlers -> Reqs] /\ req'[h] = Idle
          /\ \A g \in GwHandlers \ {h} : req'[g] = req[g]
          /\ Pend' \subseteq Pend
      BY <1>1, <3>1, Switched DEF GwInv
    <3>5. /\ seen' \in [made : Nat, unchecked : SUBSET Queues, disabled : BOOLEAN, overtaken : SUBSET GwHandlers]
          /\ seen'.made = seen.made /\ seen'.unchecked = seen.unchecked /\ ~seen'.disabled
      BY <1>1, <3>1 DEF Enabled
    <3>6. AckSound'
      BY <1>1, <3>4, <3>5, AcksKept DEF GwInv
    <3>7. DisabledInv'
      BY <3>5 DEF DisabledInv, DisabledHolds
    <3> QED
      BY <3>1, <3>3, <3>4, <3>5, <3>6, <3>7, PlainStep
  <2> QED
    BY <2>1, <2>2
<1>3. ASSUME NEW h \in GwHandlers, NEW x \in Certs, revokeGatewayCertificateSerial(h, x) PROVE GwInv'
  <2>1. PICK all \in BOOLEAN : /\ RevokedBy(h, x, [op |-> "close", all |-> all, cert |-> x])
                               /\ UNCHANGED <<rows, rowsSaved>>
    BY <1>3 DEF revokeGatewayCertificateSerial
  <2>2. [op |-> "close", all |-> all, cert |-> x] \in CloseReq
    BY DEF CloseReq
  <2> QED
    BY <2>1, <2>2, RevokedByStep
<1>4. ASSUME NEW x \in Certs, restoreGatewayCertificateSerial(x) PROVE GwInv'
  <2> DEFINE r == [rt EXCEPT !.revoked = @ \ {x}]
  <2>1. r \in RtState /\ r.acked = rt.acked /\ r.total = rt.total /\ r.status = rt.status
    BY <1>1 DEF RtState
  <2>2. (\E ok \in BOOLEAN : StoreGateway(r, ok)) /\ UNCHANGED <<rows, rowsSaved, req, seen>>
    BY <1>4 DEF restoreGatewayCertificateSerial
  <2> HIDE DEF r
  <2>3. rt' \in RtState /\ rtSaved' \in {rtSaved, rt'} /\ rt' = r
    BY <2>1, <2>2, Stored DEF GwInv
  <2>4. Pend' \subseteq Pend /\ req' \in [GwHandlers -> Reqs]
    BY <2>2 DEF Pend, GwInv, GwTyped
  <2>5. AckSound'
    BY <2>2 DEF AckSound, GwInv, CountInv
  <2>6. DisabledInv'
    BY <2>1, <2>2, <2>3, DisabledKept DEF GwInv
  <2> QED
    BY <1>1, <2>1, <2>2, <2>3, <2>4, <2>5, <2>6, PlainStep
<1> QED
  BY <1>2, <1>3, <1>4

\* One more row with a key.
LEMMA RowMade ==
    ASSUME NEW r \in RowState, IsFiniteSet(r.keys), NEW k \in EventKeys, k \notin r.keys
    PROVE  /\ [r EXCEPT !.keys = @ \cup {k}] \in RowState
           /\ IsFiniteSet([r EXCEPT !.keys = @ \cup {k}].keys)
           /\ Made([r EXCEPT !.keys = @ \cup {k}]) = Made(r) + 1 /\ Made(r) \in Nat
<1>1. [r EXCEPT !.keys = @ \cup {k}].keys = r.keys \cup {k} /\ [r EXCEPT !.keys = @ \cup {k}].loose = r.loose
      /\ [r EXCEPT !.keys = @ \cup {k}] \in RowState /\ r.loose \in Nat
  BY DEF RowState
<1>2. /\ IsFiniteSet(r.keys \cup {k}) /\ Cardinality(r.keys \cup {k}) = Cardinality(r.keys) + 1
      /\ Cardinality(r.keys) \in Nat
  BY FS_AddElement, FS_CardinalityType
<1> QED
  BY <1>1, <1>2 DEF Made

\* A step that makes one row: whether it counts for a request or not, the totals stay within.
LEMMA CountsGrow ==
    ASSUME GwInv, GwTyped', seen'.made = seen.made + 1, seen'.unchecked = seen.unchecked, UNCHANGED <<rt, rtSaved>>,
           Made(rows') <= seen.made + 1, rowsSaved' \in {rowsSaved, rows'},
           IsFiniteSet(Pend'), Cardinality(Pend') <= Cardinality(Pend) + 1,
           \A h \in GwHandlers : req'[h] = req[h] \/ req'[h].op # "ack"
    PROVE  CountInv'
<1>1. /\ seen.made \in Nat /\ rt \in RtState /\ rtSaved \in RtState /\ IsFiniteSet(Pend)
      /\ Cardinality(Pend) \in Nat /\ Cardinality(Pend') \in Nat /\ CountInv /\ req \in [GwHandlers -> Reqs]
  BY FS_CardinalityType DEF GwInv, GwTyped, CountInv
<1>2. ASSUME NEW q \in Queues
      PROVE  Known0(rt.total[q]) + Cardinality(Pend') <= seen.made + 1 /\ rtSaved.total[q] <= seen.made + 1
  <2>1. /\ Known0(rt.total[q]) \in Nat /\ rtSaved.total[q] \in Int
        /\ Known0(rt.total[q]) + Cardinality(Pend) <= seen.made /\ rtSaved.total[q] <= seen.made
    BY <1>1, TotalType DEF CountInv
  <2> QED
    BY <1>1, <2>1
<1>3. CheckpointWithinIngested'
  <2> SUFFICES ASSUME NEW q \in Queues \ seen.unchecked
               PROVE  rt.acked[q] <= seen.made + 1 /\ rtSaved.acked[q] <= seen.made + 1
    BY DEF CheckpointWithinIngested
  <2>1. /\ rt.acked[q] <= seen.made /\ rtSaved.acked[q] <= seen.made
        /\ rt.acked[q] \in Int /\ rtSaved.acked[q] \in Int
    BY <1>1, TotalType DEF CountInv, CheckpointWithinIngested
  <2> QED
    BY <1>1, <2>1
<1>4. AckSound'
  <2> SUFFICES ASSUME NEW h \in GwHandlers, req'[h].op = "ack", req'[h].queue \notin seen.unchecked
               PROVE  req'[h].acked <= seen.made + 1
    BY DEF AckSound
  <2>1. req'[h] = req[h] /\ req[h] \in AckReq
    BY <1>1, ReqKinds
  <2>2. req[h].acked \in Nat /\ req[h].acked <= seen.made
    BY <1>1, <2>1 DEF AckReq, CountInv, AckSound
  <2> QED
    BY <1>1, <2>1, <2>2
<1>5. Made(rowsSaved') <= seen.made + 1
  <2>1. Made(rowsSaved) \in Nat /\ Made(rowsSaved) <= seen.made
    BY <1>1, FS_CardinalityType DEF GwInv, GwTyped, RowState, Made, CountInv
  <2> QED
    BY <1>1, <2>1
<1> QED
  BY <1>2, <1>3, <1>4, <1>5 DEF CountInv, Made

\* A request after one of its items.
LEMMA AfterItemReq ==
    ASSUME NEW r \in IngestReq, r.todo # <<>>, NEW made \in Nat
    PROVE  /\ AfterItem(r, made) \in Reqs
           /\ AfterItem(r, made).op \in {"idle", "ingest"}
           /\ AfterItem(r, made).op = "ingest" => AfterItem(r, made).made = made
<1>1. CASE Len(r.todo) = 1 /\ made = 0
  <2>1. AfterItem(r, made) = Idle
    BY <1>1 DEF AfterItem
  <2> QED
    BY <2>1 DEF Reqs, Idle
<1>2. CASE ~(Len(r.todo) = 1 /\ made = 0)
  <2> DEFINE x == [r EXCEPT !.todo = Tail(@), !.made = made]
  <2>1. AfterItem(r, made) = x
    BY <1>2 DEF AfterItem
  <2>2. r.todo \in Seq(EventKeys)
    BY DEF IngestReq
  <2>3. Tail(r.todo) \in Seq(EventKeys)
    BY <2>2, HeadTailProperties
  <2>4. x \in IngestReq /\ x.op = "ingest" /\ x.made = made
    BY <2>3 DEF IngestReq
  <2> HIDE DEF x
  <2> QED
    BY <2>1, <2>4 DEF Reqs
<1> QED
  BY <1>1, <1>2

\* One element more.
LEMMA OneMore ==
    ASSUME NEW S, NEW x, IsFiniteSet(S)
    PROVE  IsFiniteSet(S \cup {x}) /\ Cardinality(S \cup {x}) <= Cardinality(S) + 1 /\ Cardinality(S) \in Nat
<1>1. Cardinality(S) \in Nat
  BY FS_CardinalityType
<1> QED
  BY <1>1, FS_AddElement

\* One item of a request makes at most one row, which the request counts at most once.
LEMMA ItemStep ==
    ASSUME GwInv, NEW h \in GwHandlers, IngestAccessEvent(h) \/ IngestDeviceEvent(h)
    PROVE  GwInv'
<1> DEFINE r == req[h]
           k == Head(r.todo)
<1>1. r \in IngestReq /\ r.op = "ingest" /\ r.todo # <<>> /\ k \in EventKeys /\ IngestItem(h, k)
      /\ UNCHANGED <<rt, rtSaved>> /\ r.made \in Nat
  BY ReqKinds DEF GwInv, GwTyped, IngestAccessEvent, IngestDeviceEvent, EventKeys, IngestReq
<1>2. /\ seen \in [made : Nat, unchecked : SUBSET Queues, disabled : BOOLEAN, overtaken : SUBSET GwHandlers]
      /\ rows \in RowState /\ rowsSaved \in RowState /\ IsFiniteSet(rows.keys) /\ IsFiniteSet(rowsSaved.keys)
      /\ req \in [GwHandlers -> Reqs] /\ IsFiniteSet(Pend) /\ rt \in RtState
      /\ Made(rows) <= seen.made /\ DisabledInv
  BY DEF GwInv, GwTyped, CountInv
<1>3. ASSUME NEW m \in {r.made, r.made + 1}, req' = [req EXCEPT ![h] = AfterItem(r, m)]
      PROVE  /\ req' \in [GwHandlers -> Reqs] /\ \A g \in GwHandlers \ {h} : req'[g] = req[g]
             /\ req'[h].op \notin {"ack", "applied"}
             /\ m = r.made => Pend' \subseteq Pend
             /\ Pend' \subseteq Pend \cup {<<h, r.made + 1>>}
  <2> DEFINE x == AfterItem(r, m)
  <2>1. x \in Reqs /\ x.op \in {"idle", "ingest"} /\ (x.op = "ingest" => x.made = m) /\ m \in Nat
    BY <1>1, <1>3, AfterItemReq
  <2>2. req' = [req EXCEPT ![h] = x]
    BY <1>3
  <2> HIDE DEF x
  <2>3. req' \in [GwHandlers -> Reqs] /\ req'[h] = x /\ \A g \in GwHandlers \ {h} : req'[g] = req[g]
    BY <1>2, <2>1, <2>2
  <2>4. ASSUME NEW y \in Pend', y \notin Pend PROVE y = <<h, r.made + 1>> /\ m # r.made
    <3>1. y \in GwHandlers \X Nat /\ req'[y[1]].op = "ingest" /\ y[2] \in 1 .. req'[y[1]].made
      BY <2>4 DEF Pend
    <3>2. y[1] = h
      BY <2>3, <2>4, <3>1 DEF Pend
    <3>3. y[2] \in 1 .. m /\ y[2] \notin 1 .. r.made
      BY <1>1, <2>1, <2>3, <2>4, <3>1, <3>2 DEF Pend
    <3>4. y[2] = r.made + 1 /\ m # r.made
      BY <1>1, <2>1, <3>3
    <3> QED
      BY <3>1, <3>2, <3>4
  <2> QED
    BY <2>1, <2>3, <2>4
<1>4. CASE Known(k) /\ req' = [req EXCEPT ![h] = AfterItem(@, @.made)] /\ UNCHANGED <<rows, rowsSaved, seen>>
  <2>1. req' = [req EXCEPT ![h] = AfterItem(r, r.made)]
    BY <1>4
  <2>2. /\ req' \in [GwHandlers -> Reqs] /\ \A g \in GwHandlers \ {h} : req'[g] = req[g]
        /\ req'[h].op \notin {"ack", "applied"} /\ Pend' \subseteq Pend
    BY <1>3, <2>1
  <2>3. AckSound'
    BY <1>4, <2>2, AcksKept DEF GwInv
  <2>4. DisabledInv'
    BY <1>1, <1>2, <1>4, <2>2, DisabledKept
  <2> QED
    BY <1>1, <1>2, <1>4, <2>2, <2>3, <2>4, PlainStep
<1>5. ASSUME NEW ok \in BOOLEAN, k \notin rows.keys, StoreEvents([rows EXCEPT !.keys = @ \cup {k}], ok),
             req' = [req EXCEPT ![h] = AfterItem(@, IF ok THEN @.made + 1 ELSE @.made)],
             seen' = [seen EXCEPT !.made = @ + 1]
      PROVE  GwInv'
  <2> DEFINE new == [rows EXCEPT !.keys = @ \cup {k}]
             m == IF ok THEN r.made + 1 ELSE r.made
  <2>1. new \in RowState /\ IsFiniteSet(new.keys) /\ Made(new) = Made(rows) + 1 /\ Made(rows) \in Nat
    BY <1>1, <1>2, <1>5, RowMade
  <2>2. rows' = new /\ rowsSaved' \in {rowsSaved, new}
    BY <1>5 DEF StoreEvents
  <2> HIDE DEF new
  <2>3. m \in {r.made, r.made + 1} /\ req' = [req EXCEPT ![h] = AfterItem(r, m)]
    BY <1>5
  <2> HIDE DEF m
  <2>4. /\ req' \in [GwHandlers -> Reqs] /\ \A g \in GwHandlers \ {h} : req'[g] = req[g]
        /\ req'[h].op \notin {"ack", "applied"} /\ Pend' \subseteq Pend \cup {<<h, r.made + 1>>}
    BY <1>3, <2>3
  <2>5. IsFiniteSet(Pend') /\ Cardinality(Pend') <= Cardinality(Pend) + 1
    <3>1. /\ IsFiniteSet(Pend \cup {<<h, r.made + 1>>})
          /\ Cardinality(Pend \cup {<<h, r.made + 1>>}) <= Cardinality(Pend) + 1
          /\ Cardinality(Pend) \in Nat
      BY <1>2, OneMore
    <3>2. IsFiniteSet(Pend') /\ Cardinality(Pend') <= Cardinality(Pend \cup {<<h, r.made + 1>>})
      BY <2>4, <3>1, FS_Subset
    <3>3. Cardinality(Pend') \in Nat /\ Cardinality(Pend \cup {<<h, r.made + 1>>}) \in Nat
      BY <3>1, <3>2, FS_CardinalityType
    <3> QED
      BY <3>1, <3>2, <3>3
  <2>6. /\ seen' \in [made : Nat, unchecked : SUBSET Queues, disabled : BOOLEAN, overtaken : SUBSET GwHandlers]
        /\ seen'.made = seen.made + 1 /\ seen'.unchecked = seen.unchecked /\ seen'.disabled = seen.disabled
        /\ seen'.overtaken = seen.overtaken
    BY <1>2, <1>5
  <2>7. GwTyped'
    BY <1>1, <1>2, <2>1, <2>2, <2>4, <2>6 DEF GwInv, GwTyped
  <2>8. Made(rows') <= seen.made + 1
    BY <1>2, <2>1, <2>2
  <2>9. CountInv'
    BY <1>1, <2>2, <2>4, <2>5, <2>6, <2>7, <2>8, CountsGrow
  <2>10. DisabledInv'
    BY <1>1, <1>2, <2>4, <2>6, DisabledKept
  <2> QED
    BY <2>7, <2>9, <2>10 DEF GwInv
<1> QED
  BY <1>1, <1>4, <1>5 DEF IngestItem, Known

\* handleGatewayEvent and handleGWWSMessage: a row that no request counts.
LEMMA LooseStep ==
    ASSUME GwInv, NEW ok \in BOOLEAN, IngestLoose(ok), UNCHANGED <<rt, rtSaved, req>>
    PROVE  GwInv'
<1> DEFINE new == [rows EXCEPT !.loose = @ + 1]
<1>1. /\ seen \in [made : Nat, unchecked : SUBSET Queues, disabled : BOOLEAN, overtaken : SUBSET GwHandlers]
      /\ rows \in RowState /\ IsFiniteSet(rows.keys) /\ IsFiniteSet(Pend)
      /\ Made(rows) <= seen.made /\ DisabledInv
  BY DEF GwInv, GwTyped, CountInv
<1>2. new \in RowState /\ new.keys = rows.keys /\ new.loose = rows.loose + 1 /\ rows.loose \in Nat
  BY <1>1 DEF RowState
<1>3. rows' = new /\ rowsSaved' \in {rowsSaved, new} /\ seen' = [seen EXCEPT !.made = @ + 1]
  BY DEF IngestLoose, StoreEvents
<1> HIDE DEF new
<1>4. Made(rows') <= seen.made + 1
  <2>1. Cardinality(rows.keys) \in Nat
    BY <1>1, FS_CardinalityType
  <2> QED
    BY <1>1, <1>2, <1>3, <2>1 DEF Made
<1>5. /\ seen' \in [made : Nat, unchecked : SUBSET Queues, disabled : BOOLEAN, overtaken : SUBSET GwHandlers]
      /\ seen'.made = seen.made + 1 /\ seen'.unchecked = seen.unchecked /\ seen'.disabled = seen.disabled
      /\ seen'.overtaken = seen.overtaken
  BY <1>1, <1>3
<1>6. GwTyped'
  BY <1>1, <1>2, <1>3, <1>5 DEF GwInv, GwTyped
<1>7. Pend' = Pend
  BY DEF Pend
<1>8. IsFiniteSet(Pend') /\ Cardinality(Pend') <= Cardinality(Pend) + 1
  BY <1>1, <1>7, FS_CardinalityType
<1>9. CountInv'
  BY <1>3, <1>4, <1>5, <1>6, <1>8, CountsGrow
<1>10. DisabledInv'
  BY <1>1, <1>5, DisabledKept
<1> QED
  BY <1>6, <1>9, <1>10 DEF GwInv

\* The rows of one request, as pairs.
LEMMA OwnRows ==
    ASSUME NEW h, NEW m \in Nat
    PROVE  IsFiniteSet({h} \X (1 .. m)) /\ Cardinality({h} \X (1 .. m)) = m
<1>1. IsFiniteSet({h}) /\ Cardinality({h}) = 1
  BY FS_Singleton
<1>2. IsFiniteSet(1 .. m) /\ Cardinality(1 .. m) = m
  <2>1. 1 \in Int /\ m \in Int /\ (1 > m => m = 0)
    OBVIOUS
  <2> QED
    BY <2>1, FS_Interval
<1>3. /\ IsFiniteSet({h} \X (1 .. m))
      /\ Cardinality({h} \X (1 .. m)) = Cardinality({h}) * Cardinality(1 .. m)
  BY <1>1, <1>2, FS_Product
<1> QED
  BY <1>1, <1>2, <1>3

\* AddQueueIngestTotal: what the request had still to add is in the total.
LEMMA TotalStep ==
    ASSUME GwInv, NEW h \in GwHandlers, AddQueueIngestTotal(h)
    PROVE  GwInv'
<1> DEFINE r == req[h]
           n == Known0(rt.total[r.queue]) + r.made
           new == [rt EXCEPT !.total[r.queue] = Known0(@) + r.made]
           Own == {h} \X (1 .. r.made)
<1>1. r \in IngestReq /\ r.op = "ingest" /\ r.made \in Nat /\ r.queue \in Queues
  BY ReqKinds DEF GwInv, GwTyped, AddQueueIngestTotal, IngestReq
<1>2. /\ req' = [req EXCEPT ![h] = Idle] /\ UNCHANGED <<rows, rowsSaved, seen>>
      /\ UNCHANGED <<rt, rtSaved>> \/ \E ok \in BOOLEAN : StoreGateway(new, ok)
  BY DEF AddQueueIngestTotal, Finish
<1>3. Idle \in Reqs /\ Idle.op = "idle" /\ rt \in RtState /\ rtSaved \in RtState /\ seen.made \in Nat
      /\ IsFiniteSet(Pend) /\ req \in [GwHandlers -> Reqs] /\ DisabledInv /\ CountInv
      /\ seen \in [made : Nat, unchecked : SUBSET Queues, disabled : BOOLEAN, overtaken : SUBSET GwHandlers]
  BY DEF GwInv, GwTyped, CountInv, Reqs, Idle
<1>4. /\ req' \in [GwHandlers -> Reqs] /\ req'[h] = Idle
      /\ \A g \in GwHandlers \ {h} : req'[g] = req[g]
      /\ Pend' \subseteq Pend
  BY <1>2, <1>3, Switched DEF GwInv
<1>5. AckSound'
  BY <1>2, <1>3, <1>4, AcksKept
<1>6. DisabledInv' \/ rt'.status # rt.status
  BY <1>2, <1>3, <1>4, DisabledKept
<1>7. CASE UNCHANGED <<rt, rtSaved>>
  BY <1>2, <1>3, <1>4, <1>5, <1>6, <1>7, PlainStep
<1>8. ASSUME NEW ok \in BOOLEAN, StoreGateway(new, ok) PROVE GwInv'
  <2>1. Known0(rt.total[r.queue]) \in Nat
    BY <1>1, <1>3, TotalType
  <2>2. /\ new \in RtState /\ new.acked = rt.acked /\ new.status = rt.status
        /\ new.total[r.queue] = n /\ \A q \in Queues \ {r.queue} : new.total[q] = rt.total[q]
    <3>1. n \in Nat /\ rt.total \in Totals
      <4>1. n \in Nat
        BY <1>1, <2>1
      <4>2. rt.total \in Totals
        BY <1>3 DEF RtState
      <4> QED
        BY <4>1, <4>2
    <3>2. [rt.total EXCEPT ![r.queue] = n] \in Totals
      BY <1>1, <3>1 DEF Totals
    <3>3. new = [rt EXCEPT !.total = [rt.total EXCEPT ![r.queue] = n]]
      BY <1>3 DEF RtState
    <3> DEFINE t == [rt.total EXCEPT ![r.queue] = n]
    <3>4. t[r.queue] = n /\ \A q \in Queues \ {r.queue} : t[q] = rt.total[q]
      BY <1>1, <3>1 DEF Totals
    <3>5. new = [rt EXCEPT !.total = t] /\ t \in Totals
      BY <3>2, <3>3
    <3> HIDE DEF n, new, t
    <3>6. new \in RtState /\ new.acked = rt.acked /\ new.status = rt.status /\ new.total = t
      BY <1>3, <3>5 DEF RtState
    <3> QED
      BY <3>4, <3>6
  <2> HIDE DEF new
  <2>3. rt' = new /\ rtSaved' \in {rtSaved, new} /\ rt' \in RtState /\ rtSaved' \in RtState
    BY <1>8, <2>2, Stored DEF GwInv
  <2>4. GwTyped'
    BY <1>2, <1>4, <2>3 DEF GwInv, GwTyped
  <2>5. IsFiniteSet(Own) /\ Cardinality(Own) = r.made
    BY <1>1, OwnRows
  <2>6. Own \subseteq Pend /\ Own \cap Pend' = {}
    <3>1. ASSUME NEW y \in Own PROVE y \in Pend /\ y \notin Pend'
      <4>1. y \in GwHandlers \X Nat /\ y[1] = h /\ y[2] \in 1 .. r.made
        BY <1>1, <3>1
      <4>2. y \in Pend
        BY <1>1, <4>1 DEF Pend
      <4>3. y \notin Pend'
        BY <1>3, <1>4, <4>1 DEF Pend
      <4> QED
        BY <4>2, <4>3
    <3> QED
      BY <3>1
  <2> HIDE DEF Own
  <2>7. /\ IsFiniteSet(Pend') /\ Cardinality(Pend') \in Nat /\ Cardinality(Pend) \in Nat
        /\ Cardinality(Pend') + r.made <= Cardinality(Pend)
    <3>1. IsFiniteSet(Pend') /\ Own \cup Pend' \subseteq Pend
      BY <1>3, <1>4, <2>6, FS_Subset
    <3>2. /\ Cardinality(Own \cup Pend') = Cardinality(Own) + Cardinality(Pend') - Cardinality(Own \cap Pend')
          /\ Cardinality(Own \cup Pend') <= Cardinality(Pend)
      BY <1>3, <2>5, <3>1, FS_Union, FS_Subset
    <3>3. Cardinality(Own \cap Pend') = 0
      BY <2>6, FS_EmptySet
    <3>4. Cardinality(Pend') \in Nat /\ Cardinality(Pend) \in Nat
      BY <1>3, <3>1, FS_CardinalityType
    <3> QED
      BY <1>1, <2>5, <3>1, <3>2, <3>3, <3>4
  <2>8. ASSUME NEW q \in Queues
        PROVE  Known0(new.total[q]) + Cardinality(Pend') <= seen.made /\ rtSaved'.total[q] <= seen.made
    <3>1. /\ Known0(rt.total[q]) + Cardinality(Pend) <= seen.made /\ Known0(rt.total[q]) \in Nat
          /\ rtSaved.total[q] <= seen.made /\ new.total[q] <= Known0(new.total[q]) /\ new.total[q] \in Int
          /\ Known0(new.total[q]) \in Nat
      BY <1>3, <2>2, TotalType DEF CountInv
    <3>2. CASE q = r.queue
      <4>1. Known0(new.total[q]) = n
        BY <1>1, <2>1, <2>2, <3>2 DEF Known0, Missing
      <4>2. Known0(new.total[q]) + Cardinality(Pend') <= seen.made
        BY <1>1, <1>3, <2>1, <2>7, <3>1, <3>2, <4>1
      <4> QED
        BY <1>3, <2>3, <2>7, <3>1, <4>2
    <3>3. CASE q # r.queue
      <4>1. Known0(new.total[q]) + Cardinality(Pend') <= seen.made
        BY <1>1, <1>3, <2>2, <2>7, <3>1, <3>3
      <4> QED
        BY <1>3, <2>3, <2>7, <3>1, <4>1
    <3> QED
      BY <3>2, <3>3
  <2>9. CheckpointWithinIngested'
    BY <1>2, <1>3, <2>2, <2>3 DEF CountInv, CheckpointWithinIngested
  <2>10. CountInv'
    BY <1>2, <1>3, <1>5, <2>3, <2>7, <2>8, <2>9 DEF CountInv, Made
  <2> QED
    BY <1>6, <2>2, <2>3, <2>4, <2>10 DEF GwInv
<1> QED
  BY <1>2, <1>7, <1>8

\* gatewayBootstrapEventsCheckpoint: the total it compares with counts rows that were made.
LEMMA CompareStep ==
    ASSUME GwInv, NEW h \in GwHandlers, gatewayBootstrapEventsCheckpoint(h)
    PROVE  GwInv'
<1>1. PICK queue \in Queues, n \in 0 .. MaxAcked :
        /\ ServerEventTotal(queue) # Missing => n <= ServerEventTotal(queue)
        /\ req' = [req EXCEPT ![h] = [op |-> "ack", queue |-> queue, acked |-> n]]
        /\ seen' = [seen EXCEPT !.unchecked = IF rt.total[queue] = Missing /\ queue # "default"
                                                THEN @ \cup {queue} ELSE @]
        /\ UNCHANGED <<rt, rtSaved, rows, rowsSaved>>
  BY DEF gatewayBootstrapEventsCheckpoint, Begin
<1> DEFINE r == [op |-> "ack", queue |-> queue, acked |-> n]
<1>2. n \in Nat
  BY GatewayRuntimeAssumption
<1>3. r \in AckReq /\ r.op = "ack" /\ r.queue = queue /\ r.acked = n
  BY <1>2 DEF AckReq
<1>4. req' = [req EXCEPT ![h] = r]
  BY <1>1
<1> HIDE DEF r
<1>5. /\ seen \in [made : Nat, unchecked : SUBSET Queues, disabled : BOOLEAN, overtaken : SUBSET GwHandlers]
      /\ rt \in RtState /\ CountInv /\ DisabledInv /\ r \in Reqs /\ GwTyped
  BY <1>3 DEF GwInv, GwTyped, Reqs
<1>6. /\ req' \in [GwHandlers -> Reqs] /\ req'[h] = r
      /\ \A g \in GwHandlers \ {h} : req'[g] = req[g]
      /\ Pend' \subseteq Pend
  BY <1>3, <1>4, <1>5, Switched
<1>7. /\ seen' \in [made : Nat, unchecked : SUBSET Queues, disabled : BOOLEAN, overtaken : SUBSET GwHandlers]
      /\ seen'.made = seen.made /\ seen.unchecked \subseteq seen'.unchecked /\ seen'.disabled = seen.disabled
      /\ seen'.overtaken = seen.overtaken
      /\ rt.total[queue] = Missing /\ queue # "default" => queue \in seen'.unchecked
  BY <1>1, <1>5
<1>8. queue \notin seen'.unchecked => n <= seen.made
  <2> SUFFICES ASSUME queue \notin seen'.unchecked PROVE n <= seen.made
    OBVIOUS
  <2>1. /\ seen.made \in Nat /\ Cardinality(Pend) \in Nat /\ Known0(rt.total[queue]) \in Nat
        /\ Known0(rt.total[queue]) + Cardinality(Pend) <= seen.made /\ Made(rows) <= seen.made
        /\ rt.total[queue] \in Int /\ rt.total[queue] <= Known0(rt.total[queue])
    BY <1>5, TotalType, FS_CardinalityType DEF CountInv
  <2>2. CASE rt.total[queue] # Missing
    <3>1. n <= rt.total[queue]
      BY <1>1, <2>2 DEF ServerEventTotal
    <3> QED
      BY <1>2, <2>1, <3>1
  <2>3. CASE rt.total[queue] = Missing
    <3>1. ServerEventTotal(queue) = Made(rows)
      BY <1>7, <2>3 DEF ServerEventTotal
    <3>2. Made(rows) \in Nat
      BY <1>5, FS_CardinalityType DEF GwTyped, RowState, Made
    <3>3. n <= Made(rows)
      BY <1>1, <3>1, <3>2 DEF Missing
    <3> QED
      BY <1>2, <2>1, <3>2, <3>3
  <2> QED
    BY <2>2, <2>3
<1>9. AckSound'
  <2> SUFFICES ASSUME NEW g \in GwHandlers, req'[g].op = "ack", req'[g].queue \notin seen'.unchecked
               PROVE  req'[g].acked <= seen.made
    BY <1>7 DEF AckSound
  <2>1. CASE g = h
    BY <1>3, <1>6, <1>8, <2>1
  <2>2. CASE g # h
    BY <1>5, <1>6, <1>7, <2>2 DEF CountInv, AckSound
  <2> QED
    BY <2>1, <2>2
<1>10. DisabledInv'
  BY <1>1, <1>3, <1>5, <1>6, <1>7, DisabledKept
<1> QED
  BY <1>1, <1>5, <1>6, <1>7, <1>9, <1>10, PlainStep

\* UpsertEventCheckpoint writes what was compared.
LEMMA UpsertStep ==
    ASSUME GwInv, NEW h \in GwHandlers, UpsertEventCheckpoint(h)
    PROVE  GwInv'
<1> DEFINE r == req[h]
           new == [rt EXCEPT !.acked[r.queue] = r.acked]
<1>1. r \in AckReq /\ r.op = "ack" /\ r.acked \in Nat /\ r.queue \in Queues
  BY ReqKinds DEF GwInv, GwTyped, UpsertEventCheckpoint, AckReq
<1>2. /\ req' = [req EXCEPT ![h] = Idle] /\ UNCHANGED <<rows, rowsSaved, seen>>
      /\ UNCHANGED <<rt, rtSaved>> \/ \E ok \in BOOLEAN : StoreGateway(new, ok)
  BY DEF UpsertEventCheckpoint, Finish
<1>3. Idle \in Reqs /\ Idle.op = "idle" /\ rt \in RtState /\ rtSaved \in RtState /\ seen.made \in Nat
      /\ GwTyped /\ DisabledInv /\ CountInv
      /\ seen \in [made : Nat, unchecked : SUBSET Queues, disabled : BOOLEAN, overtaken : SUBSET GwHandlers]
  BY DEF GwInv, GwTyped, Reqs, Idle
<1>4. /\ req' \in [GwHandlers -> Reqs] /\ req'[h] = Idle
      /\ \A g \in GwHandlers \ {h} : req'[g] = req[g]
      /\ Pend' \subseteq Pend
  BY <1>2, <1>3, Switched
<1>5. AckSound'
  BY <1>2, <1>3, <1>4, AcksKept
<1>6. DisabledInv' \/ rt'.status # rt.status
  BY <1>2, <1>3, <1>4, DisabledKept
<1>7. CASE UNCHANGED <<rt, rtSaved>>
  BY <1>2, <1>3, <1>4, <1>5, <1>6, <1>7, PlainStep
<1>8. ASSUME NEW ok \in BOOLEAN, StoreGateway(new, ok) PROVE GwInv'
  <2> DEFINE t == [rt.acked EXCEPT ![r.queue] = r.acked]
  <2>1. rt.acked \in Totals
    BY <1>3 DEF RtState
  <2>2. t \in Totals /\ t[r.queue] = r.acked /\ \A q \in Queues \ {r.queue} : t[q] = rt.acked[q]
    BY <1>1, <2>1 DEF Totals
  <2>3. new = [rt EXCEPT !.acked = t]
    BY <1>3 DEF RtState
  <2> HIDE DEF t, new
  <2>4. new \in RtState /\ new.total = rt.total /\ new.status = rt.status /\ new.acked = t
    BY <1>3, <2>2, <2>3 DEF RtState
  <2>5. rt' = new /\ rtSaved' \in {rtSaved, new} /\ rt' \in RtState /\ rtSaved' \in RtState
    BY <1>3, <1>8, <2>4, Stored
  <2>6. GwTyped'
    BY <1>2, <1>4, <2>5 DEF GwInv, GwTyped
  <2>7. /\ IsFiniteSet(Pend') /\ Cardinality(Pend') <= Cardinality(Pend)
        /\ Cardinality(Pend') \in Nat /\ Cardinality(Pend) \in Nat
    BY <1>3, <1>4, FS_Subset, FS_CardinalityType DEF CountInv
  <2>8. ASSUME NEW q \in Queues
        PROVE  Known0(rt'.total[q]) + Cardinality(Pend') <= seen.made /\ rtSaved'.total[q] <= seen.made
    <3>1. /\ Known0(rt.total[q]) + Cardinality(Pend) <= seen.made /\ Known0(rt.total[q]) \in Nat
          /\ rtSaved.total[q] <= seen.made /\ rt.total[q] <= Known0(rt.total[q]) /\ rt.total[q] \in Int
      BY <1>3, TotalType DEF CountInv
    <3> QED
      BY <1>3, <2>4, <2>5, <2>7, <3>1
  <2>9. CheckpointWithinIngested'
    <3> SUFFICES ASSUME NEW q \in Queues \ seen.unchecked
                 PROVE  rt'.acked[q] <= seen.made /\ rtSaved'.acked[q] <= seen.made
      BY <1>2 DEF CheckpointWithinIngested
    <3>1. rt.acked[q] <= seen.made /\ rtSaved.acked[q] <= seen.made
      BY <1>3 DEF CountInv, CheckpointWithinIngested
    <3>2. q = r.queue => r.acked <= seen.made
      BY <1>1, <1>3 DEF CountInv, AckSound
    <3>3. t[q] <= seen.made
      BY <2>2, <3>1, <3>2
    <3> QED
      BY <2>4, <2>5, <3>1, <3>3
  <2>10. CountInv'
    BY <1>2, <1>3, <1>5, <2>7, <2>8, <2>9 DEF CountInv, Made
  <2> QED
    BY <1>6, <2>4, <2>5, <2>6, <2>10 DEF GwInv
<1> QED
  BY <1>2, <1>7, <1>8

\* A new process starts from what was saved, which counted no more than what was made.
LEMMA RestartStep ==
    ASSUME GwInv, RestartApi
    PROVE  GwInv'
<1>1. /\ seen \in [made : Nat, unchecked : SUBSET Queues, disabled : BOOLEAN, overtaken : SUBSET GwHandlers]
      /\ rtSaved \in RtState /\ CountInv /\ GwTyped /\ seen.made \in Nat
  BY DEF GwInv, GwTyped
<1>2. /\ rt' = rtSaved /\ rows' = rowsSaved /\ rtSaved' = rtSaved /\ rowsSaved' = rowsSaved
      /\ req' = [h \in GwHandlers |-> Idle]
      /\ seen' = [seen EXCEPT !.disabled = @ /\ StatusRevoked(rtSaved.status), !.overtaken = {}]
  BY DEF RestartApi
<1>3. req' \in [GwHandlers -> Reqs] /\ \A h \in GwHandlers : req'[h].op = "idle"
  BY <1>2 DEF Reqs, Idle
<1>4. /\ seen' \in [made : Nat, unchecked : SUBSET Queues, disabled : BOOLEAN, overtaken : SUBSET GwHandlers]
      /\ seen'.made = seen.made /\ seen'.unchecked = seen.unchecked
      /\ seen'.disabled => StatusRevoked(rtSaved.status)
  BY <1>1, <1>2
<1>5. GwTyped'
  BY <1>1, <1>2, <1>3, <1>4 DEF GwTyped
<1>6. Pend' = {}
  BY <1>3 DEF Pend
<1>7. IsFiniteSet(Pend') /\ Cardinality(Pend') = 0
  BY <1>6, FS_EmptySet
<1>8. ASSUME NEW q \in Queues PROVE Known0(rtSaved.total[q]) <= seen.made /\ rtSaved.total[q] <= seen.made
  BY <1>1 DEF CountInv, Known0, Missing
<1>9. AckSound'
  BY <1>3 DEF AckSound
<1>10. CheckpointWithinIngested'
  BY <1>1, <1>2, <1>4 DEF CountInv, CheckpointWithinIngested
<1>11. CountInv'
  <2>1. ASSUME NEW q \in Queues
        PROVE  Known0(rt'.total[q]) + Cardinality(Pend') <= seen'.made /\ rtSaved'.total[q] <= seen'.made
    BY <1>1, <1>2, <1>4, <1>7, <1>8, TotalType
  <2>2. Made(rows)' <= seen'.made /\ Made(rowsSaved)' <= seen'.made
    BY <1>1, <1>2, <1>4 DEF CountInv, Made
  <2> QED
    BY <1>7, <1>9, <1>10, <2>1, <2>2 DEF CountInv
<1>12. DisabledInv'
  BY <1>2, <1>3, <1>4 DEF DisabledInv, DisabledHolds
<1> QED
  BY <1>5, <1>11, <1>12 DEF GwInv

\* Sessions and the message bus.
LEMMA SessionSteps ==
    ASSUME GwInv,
           \/ \E c \in GwConns : gatewayWebSocket(c) \/ add(c) \/ remove(c) \/ handleGWWSMessage(c)
           \/ handleGatewayEvent
    PROVE  GwInv'
<1>1. CASE UNCHANGED <<rt, rtSaved, rows, rowsSaved, req, seen>>
  BY <1>1, StutterStep
<1>2. CASE (\E ok \in BOOLEAN : IngestLoose(ok)) /\ UNCHANGED <<rt, rtSaved, req>>
  BY <1>2, LooseStep
<1>3. ASSUME NEW c \in GwConns, handleGWWSMessage(c) PROVE GwInv'
  BY <1>1, <1>2, <1>3 DEF handleGWWSMessage
<1>4. ASSUME NEW c \in GwConns, gatewayWebSocket(c) \/ add(c) \/ remove(c) PROVE GwInv'
  BY <1>1, <1>4 DEF gatewayWebSocket, add, remove
<1>5. CASE handleGatewayEvent
  BY <1>2, <1>5 DEF handleGatewayEvent
<1> QED
  BY <1>3, <1>4, <1>5

\* Every step of every handler and session keeps the invariant.
LEMMA GwStep ==
    ASSUME GwInv, [GwNext]_gwVars
    PROVE  GwInv'
<1>1. CASE EventsNext
  BY <1>1, ArrivalSteps, ItemStep, TotalStep, CompareStep, UpsertStep, SessionSteps, AdminSteps, RestartStep
     DEF EventsNext
<1>2. CASE StatusNext
  BY <1>2, ArrivalSteps, ReportSteps, StatusSteps, AdminSteps, RestartStep DEF StatusNext
<1>3. CASE SessionsNext
  BY <1>3, ArrivalSteps, StatusSteps, SessionSteps, AdminSteps, RestartStep DEF SessionsNext
<1>4. CASE UNCHANGED gwVars
  BY <1>4, StutterStep DEF gwVars
<1> QED
  BY <1>1, <1>2, <1>3, <1>4 DEF GwNext

\* A gateway that was just registered.
LEMMA GwStart ==
    ASSUME GwInit
    PROVE  GwInv
<1>1. Fresh \in RtState /\ Idle \in Reqs /\ Idle.op = "idle"
  BY DEF Fresh, Device, RtState, Statuses, Totals, Reqs, Idle
<1>2. /\ rt = Fresh /\ rtSaved = Fresh /\ rows = [keys |-> {}, loose |-> 0] /\ rowsSaved = rows
      /\ seen = [made |-> 0, unchecked |-> {}, disabled |-> FALSE, overtaken |-> {}]
      /\ req = [h \in GwHandlers |-> Idle]
  BY DEF GwInit
<1>3. IsFiniteSet({}) /\ Cardinality({}) = 0
  BY FS_EmptySet
<1>4. GwTyped
  BY <1>1, <1>2, <1>3 DEF GwTyped, RowState
<1>5. Pend = {}
  BY <1>1, <1>2 DEF Pend
<1>6. Made(rows) = 0
  BY <1>2, <1>3 DEF Made
<1>7. ASSUME NEW q \in Queues
      PROVE Known0(rt.total[q]) = 0 /\ rtSaved.total[q] = -1 /\ rt.acked[q] = -1 /\ rtSaved.acked[q] = -1
  BY <1>1, <1>2, TotalType
<1>8. CountInv
  BY <1>1, <1>2, <1>3, <1>5, <1>6, <1>7 DEF CountInv, AckSound, CheckpointWithinIngested
<1>9. DisabledInv
  BY <1>2 DEF DisabledInv, DisabledHolds
<1> QED
  BY <1>4, <1>8, <1>9 DEF GwInv

\* The invariant holds in every state.
LEMMA GwSound == GwSpec => []GwInv
<1>1. GwInit => GwInv
  BY GwStart
<1>2. GwInv /\ [GwNext]_gwVars => GwInv'
  BY GwStep
<1> QED
  BY <1>1, <1>2, PTL DEF GwSpec

(***************************************************************************)
(* gatewayBootstrapEventsCheckpoint, UpsertEventCheckpoint: for any number *)
(* of requests at once and any batches, no checkpoint acknowledges more    *)
(* events than the cloud was given.                                        *)
(***************************************************************************)
THEOREM CheckpointsWithinIngested == GwSpec => []CheckpointWithinIngested
<1>1. GwInv => CheckpointWithinIngested
  BY DEF GwInv, CountInv
<1> QED
  BY <1>1, GwSound, PTL

(***************************************************************************)
(* updateGatewayStatus, MarkConfigApplied: for any number of handlers and  *)
(* sessions, a disabled gateway stays disabled until an administrator      *)
(* touches it again, or a report arrives that was authorised before.       *)
(***************************************************************************)
THEOREM DisabledStays == GwSpec => []DisabledHolds
<1>1. GwInv => DisabledHolds
  BY DEF GwInv, DisabledInv
<1> QED
  BY <1>1, GwSound, PTL
=============================================================================
