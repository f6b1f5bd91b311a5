--------------------------- MODULE GatewayRuntime ---------------------------
(***************************************************************************)
(* What the cloud keeps of one registered gateway beside its hardware      *)
(* (SerialInventory): its status, bound doors, a device, configuration     *)
(* versions, event checkpoints and totals, an OTA task, the revoked        *)
(* certificates (modules/gateway/service.go, cert_revocation.go), its      *)
(* events (modules/event/service.go) and its WebSocket sessions            *)
(* (http/routes_gateway_ws.go), with the handlers that change them.        *)
(*                                                                         *)
(* Every operation of a service runs under that service's lock, changes    *)
(* memory and then saves the service's state whole; a failed save is       *)
(* answered with an error and not undone.  A handler calls several         *)
(* operations, and others run in between.                                  *)
(***************************************************************************)
EXTENDS Integers, Sequences, FiniteSets

CONSTANTS
    GwHandlers,   \* requests served at the same time
    GwConns,      \* WebSocket connections at the same time
    Certs,        \* serial numbers of the gateway's client certificates
    AccessKeys,   \* idempotency keys of access events
    DeviceKeys,   \* idempotency keys of device events
    Batches,      \* batches of events a gateway sends
    MaxAcked,     \* bound: acked_count of a checkpoint
    MaxGwOps      \* bound: requests

ASSUME GatewayRuntimeAssumption ==
    /\ AccessKeys \cap DeviceKeys = {}
    /\ Batches \subseteq Seq(AccessKeys \cup DeviceKeys)
    /\ MaxAcked \in Nat /\ MaxGwOps \in Nat

VARIABLES
    rt,         \* the gateway service's state of the gateway
    rtSaved,    \* the same in the state store
    rows,       \* the event service's rows of the gateway
    rowsSaved,  \* the same in the state store
    req,        \* what each handler has left to do
    conn,       \* per connection: its stage and the certificate it showed
    registry,   \* gwWSRegistry: the connection registered for the gateway
    seen,       \* history, see GwInit
    gwOps

gwVars == <<rt, rtSaved, rows, rowsSaved, req, conn, registry, seen, gwOps>>

Queues == {"default", "priority"}
Missing == -1        \* no record for this queue
NoCert == "no certificate"
NoConn == "no connection"
Idle == [op |-> "idle"]
Closed == [st |-> "none", cert |-> NoCert]

\* A registered device, and the same when it is removed.
Device(up, rs485) == [here |-> TRUE, up |-> up, rs485 |-> rs485, timeouts |-> 0]
NoDevice == [here |-> FALSE, up |-> FALSE, rs485 |-> FALSE, timeouts |-> 0]

Fresh == [here |-> TRUE, status |-> "online", doors |-> {}, desired |-> "", applied |-> "", ota |-> "none",
          acked |-> [q \in Queues |-> Missing], total |-> [q \in Queues |-> Missing],
          dev |-> Device(TRUE, TRUE), revoked |-> {}]

\* made: event rows ever made; unchecked: queues acknowledged without a total to
\* compare with; disabled: an administrator disabled the gateway; overtaken: by which
\* reports.
GwInit ==
    /\ rt = Fresh /\ rtSaved = Fresh
    /\ rows = [keys |-> {}, loose |-> 0] /\ rowsSaved = rows
    /\ req = [h \in GwHandlers |-> Idle]
    /\ conn = [c \in GwConns |-> Closed] /\ registry = NoConn
    /\ seen = [made |-> 0, unchecked |-> {}, disabled |-> FALSE, overtaken |-> {}]
    /\ gwOps = 0

-----------------------------------------------------------------------------
(* Saving and authorisation.                                               *)

\* persistLocked of the gateway service, and of the event service.
StoreGateway(r, ok) == rt' = r /\ rtSaved' = (IF ok THEN r ELSE rtSaved)
StoreEvents(r, ok) == rows' = r /\ rowsSaved' = (IF ok THEN r ELSE rowsSaved)

CountGwOp == gwOps < MaxGwOps /\ gwOps' = gwOps + 1
Begin(h, r) == req[h] = Idle /\ CountGwOp /\ req' = [req EXCEPT ![h] = r]
Finish(h) == req' = [req EXCEPT ![h] = Idle] /\ UNCHANGED gwOps
Free == \E h \in GwHandlers : req[h] = Idle

\* gatewayCertificateStatusRevoked.
StatusRevoked(status) == status \in {"disabled", "revoked"}

\* What a gateway may show: a certificate, its device token, or both.
DeviceCreds == {cred \in [cert : Certs \cup {NoCert}, token : BOOLEAN] : cred.cert # NoCert \/ cred.token}

\* authorizeGatewayClientCertificate.
CertificateAccepted(cert) == cert \in Certs \ rt.revoked /\ rt.here /\ ~StatusRevoked(rt.status)

\* authorizeGatewayDeviceToken: a revoked certificate does not matter to a gateway
\* that shows its token too.
DeviceAuthorized(cred) ==
    /\ rt.here /\ ~StatusRevoked(rt.status)
    /\ CertificateAccepted(cred.cert) \/ cred.token

DeviceRequest == \E cred \in DeviceCreds : DeviceAuthorized(cred)

-----------------------------------------------------------------------------
(* Events.                                                                 *)

Made(r) == Cardinality(r.keys) + r.loose    \* CountEventsByGateway

Ingest(h, events, queue) ==
    /\ DeviceRequest
    /\ Begin(h, [op |-> "ingest", todo |-> events, queue |-> queue, made |-> 0])
    /\ UNCHANGED <<rt, rtSaved, rows, rowsSaved, conn, registry, seen>>

gatewayBootstrapAccessEvent(h) == \E k \in AccessKeys : Ingest(h, <<k>>, "default")
gatewayBootstrapDeviceEvent(h) == \E k \in DeviceKeys : Ingest(h, <<k>>, "default")

\* The loop over access events, then over device events; a failed item is named in
\* the answer's retry subset and the loop goes on.
gatewayBootstrapEventsBatch(h) == \E b \in Batches, queue \in Queues : Ingest(h, b, queue)

\* The handler after one item: the next one, the count, or nothing to count.
AfterItem(r, made) ==
    IF Len(r.todo) = 1 /\ made = 0 THEN Idle ELSE [r EXCEPT !.todo = Tail(@), !.made = made]

Known(k) == k \in rows.keys

\* IngestAccessEvent and IngestDeviceEvent of a row with a key: a known key is a
\* duplicate.  The row of a failed save stays in memory and is not counted.
IngestItem(h, k) ==
    \/ /\ Known(k)
       /\ req' = [req EXCEPT ![h] = AfterItem(@, @.made)]
       /\ UNCHANGED <<rows, rowsSaved, seen>>
    \/ \E ok \in BOOLEAN :
         /\ ~Known(k)
         /\ StoreEvents([rows EXCEPT !.keys = @ \cup {k}], ok)
         /\ req' = [req EXCEPT ![h] = AfterItem(@, IF ok THEN @.made + 1 ELSE @.made)]
         /\ seen' = [seen EXCEPT !.made = @ + 1]

IngestAccessEvent(h) ==
    /\ req[h].op = "ingest" /\ req[h].todo # <<>> /\ Head(req[h].todo) \in AccessKeys
    /\ IngestItem(h, Head(req[h].todo))
    /\ UNCHANGED <<rt, rtSaved, conn, registry, gwOps>>

IngestDeviceEvent(h) ==
    /\ req[h].op = "ingest" /\ req[h].todo # <<>> /\ Head(req[h].todo) \in DeviceKeys
    /\ IngestItem(h, Head(req[h].todo))
    /\ UNCHANGED <<rt, rtSaved, conn, registry, gwOps>>

\* IngestAccessEvent of a row without a key; its error is ignored.
IngestLoose(ok) ==
    /\ StoreEvents([rows EXCEPT !.loose = @ + 1], ok)
    /\ seen' = [seen EXCEPT !.made = @ + 1]

\* handleCommandAck and handleAccessEvent, from the message bus: no gateway is looked
\* up and nothing is counted.
handleGatewayEvent ==
    /\ CountGwOp
    /\ \E ok \in BOOLEAN : IngestLoose(ok)
    /\ UNCHANGED <<rt, rtSaved, req, conn, registry>>

Known0(n) == IF n = Missing THEN 0 ELSE n

\* AddQueueIngestTotal, at the end of a request that made rows.
AddQueueIngestTotal(h) ==
    /\ req[h].op = "ingest" /\ req[h].todo = <<>>
    /\ IF rt.here
         THEN \E ok \in BOOLEAN :
                StoreGateway([rt EXCEPT !.total[req[h].queue] = Known0(@) + req[h].made], ok)
         ELSE UNCHANGED <<rt, rtSaved>>
    /\ Finish(h)
    /\ UNCHANGED <<rows, rowsSaved, conn, registry, seen>>

\* Mutant: a queue without a total has nothing to compare with.
ServerEventTotal_Bug(queue) == rt.total[queue]

\* GetQueueIngestTotal, for the default queue or else the event rows.
ServerEventTotal(queue) ==
    IF rt.total[queue] = Missing /\ queue = "default" THEN Made(rows) ELSE rt.total[queue]

\* The total is read here, the checkpoint written in a later critical section.
gatewayBootstrapEventsCheckpoint(h) ==
    \E queue \in Queues, n \in 0 .. MaxAcked :
      /\ DeviceRequest
      /\ ServerEventTotal(queue) # Missing => n <= ServerEventTotal(queue)
      /\ Begin(h, [op |-> "ack", queue |-> queue, acked |-> n])
      /\ seen' = [seen EXCEPT !.unchecked = IF rt.total[queue] = Missing /\ queue # "default"
                                              THEN @ \cup {queue} ELSE @]
      /\ UNCHANGED <<rt, rtSaved, rows, rowsSaved, conn, registry>>

UpsertEventCheckpoint(h) ==
    /\ req[h].op = "ack"
    /\ IF rt.here /\ req[h].acked >= rt.acked[req[h].queue]
         THEN \E ok \in BOOLEAN : StoreGateway([rt EXCEPT !.acked[req[h].queue] = req[h].acked], ok)
         ELSE UNCHANGED <<rt, rtSaved>>
    /\ Finish(h)
    /\ UNCHANGED <<rows, rowsSaved, conn, registry, seen>>

-----------------------------------------------------------------------------
(* Status, configuration, device, doors, OTA.                              *)

\* A request of an administrator that is one operation of the gateway service.
Administer(r) ==
    /\ rt.here /\ Free /\ CountGwOp
    /\ \E ok \in BOOLEAN : StoreGateway(r, ok)
    /\ UNCHANGED <<rows, rowsSaved, req, conn, registry>>

\* The gateway's status is set otherwise by an administrator.
Enabled == seen' = [seen EXCEPT !.disabled = FALSE, !.overtaken = {}]

\* UpdateGatewayStatus.
UpdateGatewayStatus(status) == [rt EXCEPT !.status = status]

\* Closing sessions is what a handler has left once a revocation is saved.
RevokedBy(h, reason, task) ==
    \E ok \in BOOLEAN :
      /\ StoreGateway(IF reason \in Certs THEN [rt EXCEPT !.revoked = @ \cup {reason}]
                                          ELSE UpdateGatewayStatus(reason), ok)
      /\ Begin(h, IF ok THEN task ELSE Idle)
      /\ seen' = [seen EXCEPT !.disabled = @ \/ reason \notin Certs,
                              !.overtaken = IF reason \in Certs THEN @
                                            ELSE @ \cup {g \in GwHandlers : req[g].op = "applied"}]

updateGatewayStatus(h, status) ==
    /\ rt.here
    /\ IF StatusRevoked(status) THEN RevokedBy(h, status, [op |-> "close", all |-> TRUE, cert |-> NoCert])
       ELSE Begin(h, Idle) /\ Enabled /\ (\E ok \in BOOLEAN : StoreGateway(UpdateGatewayStatus(status), ok))
    /\ UNCHANGED <<rows, rowsSaved, conn, registry>>

\* PublishConfig.
publishGatewayConfig(v) == Administer([rt EXCEPT !.desired = v]) /\ UNCHANGED seen

\* Mutant: the report of a gateway that is not authorised is taken.
gatewayBootstrapConfigApplied_Bug(h) ==
    \E v \in {"v1", "v2"} :
      /\ rt.here /\ Begin(h, [op |-> "applied", version |-> v])
      /\ UNCHANGED <<rt, rtSaved, rows, rowsSaved, conn, registry, seen>>

\* The report of a configuration, authorised before it is applied.
gatewayBootstrapConfigApplied(h) ==
    \E v \in {"v1", "v2"} :
      /\ DeviceRequest /\ Begin(h, [op |-> "applied", version |-> v])
      /\ UNCHANGED <<rt, rtSaved, rows, rowsSaved, conn, registry, seen>>

\* MarkConfigApplied sets the gateway online, whatever its status.
MarkConfigApplied(h) ==
    /\ req[h].op = "applied"
    /\ IF rt.here
         THEN \E ok \in BOOLEAN :
                StoreGateway([rt EXCEPT !.status = "online", !.applied = req[h].version,
                                        !.desired = IF @ = "" THEN req[h].version ELSE @], ok)
         ELSE UNCHANGED <<rt, rtSaved>>
    /\ seen' = [seen EXCEPT !.disabled = @ /\ h \notin seen.overtaken, !.overtaken = @ \ {h}]
    /\ Finish(h)
    /\ UNCHANGED <<rows, rowsSaved, conn, registry>>

\* Reboot sets the gateway online too.
Reboot == [rt EXCEPT !.status = "online"]
rebootGateway == Administer(Reboot) /\ Enabled

\* ReportRS485Telemetry: consecutive timeouts are added up or reset, and the gateway
\* is online.
ReportRS485Telemetry(n) ==
    [rt EXCEPT !.status = "online", !.dev.timeouts = IF n = 0 THEN 0 ELSE @ + n]
reportGatewayDeviceRS485Telemetry(n) ==
    rt.dev.here /\ rt.dev.rs485 /\ Administer(ReportRS485Telemetry(n)) /\ Enabled

\* RegisterDevice of the modelled device (mine) or of another: a device that is known
\* already is written over, a new one that is online sets the gateway online, whatever
\* its status.  (The serial number is SerialInventory's.)
RegisterDevice(mine, up, rs485) ==
    IF mine /\ rt.dev.here THEN [rt EXCEPT !.dev.up = up, !.dev.rs485 = rs485]
    ELSE [rt EXCEPT !.status = IF up THEN "online" ELSE @, !.dev = IF mine THEN Device(up, rs485) ELSE @]

\* registerGatewayDevice and assignReferenceReader.
registerGatewayDevice(mine, up, rs485) ==
    /\ Administer(RegisterDevice(mine, up, rs485))
    /\ IF up /\ ~(mine /\ rt.dev.here) THEN Enabled ELSE UNCHANGED seen

\* DeassignDevice: the gateway whose last device is removed is offline, whatever its status.
DeassignDevice(mine, last) ==
    [rt EXCEPT !.status = IF last THEN "offline" ELSE @, !.dev = IF mine THEN NoDevice ELSE @]

\* deassignReferenceReader and deleteReferenceTerminal.
deassignReferenceReader(mine, last) ==
    /\ mine => rt.dev.here
    /\ ~mine /\ last => ~rt.dev.here
    /\ Administer(DeassignDevice(mine, last))
    /\ IF last THEN Enabled ELSE UNCHANGED seen

\* UpdateDevice writes the status before it refuses the protocol, and returns unsaved.
UpdateDevice ==
    \/ \E up, rs485 \in BOOLEAN : Administer([rt EXCEPT !.dev.up = up, !.dev.rs485 = rs485])
    \/ \E up \in BOOLEAN :
         /\ rt.here /\ Free /\ CountGwOp
         /\ StoreGateway([rt EXCEPT !.dev.up = up], FALSE)
         /\ UNCHANGED <<rows, rowsSaved, req, conn, registry>>
updateReferenceReader == rt.dev.here /\ UpdateDevice /\ UNCHANGED seen

ResetDeviceTamper == [rt EXCEPT !.dev.timeouts = 0]
resetTamperReferenceReader == rt.dev.here /\ Administer(ResetDeviceTamper) /\ UNCHANGED seen

\* BindDoor, UnbindDoor: no other gateway is looked at.
BindDoor(d) == [rt EXCEPT !.doors = @ \cup {d}]
UnbindDoor(d) == [rt EXCEPT !.doors = @ \ {d}]
bindGatewayDoor(d) == d \notin rt.doors /\ Administer(BindDoor(d)) /\ UNCHANGED seen
unbindGatewayDoor(d) == Administer(UnbindDoor(d)) /\ UNCHANGED seen

OtaStatuses == {"queued", "dispatching", "succeeded", "failed", "canceled"}

\* CreateOTATask.
createGatewayOTATask == rt.ota = "none" /\ Administer([rt EXCEPT !.ota = "queued"]) /\ UNCHANGED seen

\* UpdateOTATaskStatus: any status follows any other.
UpdateOTATaskStatus(status) == IF rt.ota = "none" THEN rt ELSE [rt EXCEPT !.ota = status]
updateGatewayOTATaskStatus(status) ==
    rt.ota # "none" /\ Administer(UpdateOTATaskStatus(status)) /\ UNCHANGED seen

gatewayBootstrapOTAReport(h) ==
    \E status \in {"dispatching", "succeeded", "failed"} :
      /\ DeviceRequest /\ Begin(h, [op |-> "ota", status |-> status])
      /\ UNCHANGED <<rt, rtSaved, rows, rowsSaved, conn, registry, seen>>

ReportOTA(h) ==
    /\ req[h].op = "ota"
    /\ IF rt.here /\ rt.ota # "none"
         THEN \E ok \in BOOLEAN : StoreGateway(UpdateOTATaskStatus(req[h].status), ok)
         ELSE UNCHANGED <<rt, rtSaved>>
    /\ Finish(h)
    /\ UNCHANGED <<rows, rowsSaved, conn, registry, seen>>

\* removeGatewayRuntimeStateLocked: nothing of the gateway is kept but the revoked
\* certificates.  Its sessions stay, and so do its events.
removeGatewayRuntimeState ==
    [Fresh EXCEPT !.here = FALSE, !.status = "none", !.dev = NoDevice, !.revoked = rt.revoked]
deassignReferenceController ==
    /\ Administer(removeGatewayRuntimeState)
    /\ seen' = [seen EXCEPT !.disabled = FALSE]

-----------------------------------------------------------------------------
(* WebSocket sessions.                                                     *)

\* gatewayWebSocket up to the upgrade: authorised, not yet registered.
gatewayWebSocket(c) ==
    /\ conn[c] = Closed /\ CountGwOp
    /\ \E cred \in DeviceCreds :
         /\ DeviceAuthorized(cred)
         /\ conn' = [conn EXCEPT ![c] = [st |-> "authorized", cert |-> cred.cert]]
    /\ UNCHANGED <<rt, rtSaved, rows, rowsSaved, req, registry, seen>>

\* gatewayConnectionRevoked, from the present status and gatewayClientSerialRevoked.
gatewayConnectionRevoked(c) == StatusRevoked(rt.status) \/ conn[c].cert \in rt.revoked

\* add, once the first frame is read: a newer connection replaces the older.
add(c) ==
    /\ conn[c].st = "authorized"
    /\ conn' = [d \in GwConns |-> IF d = c THEN [conn[c] EXCEPT !.st = "open"]
                                  ELSE IF d = registry /\ conn[d].st = "open"
                                         THEN [conn[d] EXCEPT !.st = "closing"] ELSE conn[d]]
    /\ registry' = c
    /\ UNCHANGED <<rt, rtSaved, rows, rowsSaved, req, seen, gwOps>>

\* The handler of a connection returns: no first frame, read error, read deadline,
\* session lifetime over, or closed by the server.  remove leaves a newer connection alone.
remove(c) ==
    /\ conn[c].st # "none"
    /\ conn' = [conn EXCEPT ![c] = Closed]
    /\ registry' = IF registry = c THEN NoConn ELSE registry
    /\ UNCHANGED <<rt, rtSaved, rows, rowsSaved, req, seen, gwOps>>

\* Mutant: a session is authorised once, when it is opened.
handleGWWSMessage_Bug(c) ==
    /\ conn[c].st = "open" /\ CountGwOp
    /\ \E ok \in BOOLEAN : IngestLoose(ok)
    /\ UNCHANGED <<rt, rtSaved, req, conn, registry>>

\* A frame is read: the session is closed if it is revoked by now, or a batch of
\* events is ingested.  (An answered ping of a session in order changes nothing.)
handleGWWSMessage(c) ==
    /\ conn[c].st = "open"
    /\ IF gatewayConnectionRevoked(c)
         THEN /\ conn' = [conn EXCEPT ![c].st = "closing"]
              /\ UNCHANGED <<rows, rowsSaved, seen, gwOps>>
         ELSE CountGwOp /\ (\E ok \in BOOLEAN : IngestLoose(ok)) /\ UNCHANGED conn
    /\ UNCHANGED <<rt, rtSaved, req, registry>>

\* RevokeCertificateSerial, with the gateway's ID or for whoever shows the certificate.
revokeGatewayCertificateSerial(h, x) ==
    \E all \in BOOLEAN :
      /\ all => rt.here
      /\ RevokedBy(h, x, [op |-> "close", all |-> all, cert |-> x])
      /\ UNCHANGED <<rows, rowsSaved, conn, registry>>

\* RestoreCertificateSerial.
restoreGatewayCertificateSerial(x) ==
    /\ x \in rt.revoked /\ Free /\ CountGwOp
    /\ \E ok \in BOOLEAN : StoreGateway([rt EXCEPT !.revoked = @ \ {x}], ok)
    /\ UNCHANGED <<rows, rowsSaved, req, conn, registry, seen>>

\* CloseGateway and CloseCertificateSerial, which look at registered connections.
closeGatewaySessions(h) ==
    /\ req[h].op = "close"
    /\ conn' = [c \in GwConns |->
                  IF c = registry /\ conn[c].st = "open" /\ (req[h].all \/ conn[c].cert = req[h].cert)
                    THEN [conn[c] EXCEPT !.st = "closing"] ELSE conn[c]]
    /\ Finish(h)
    /\ UNCHANGED <<rt, rtSaved, rows, rowsSaved, registry, seen>>

-----------------------------------------------------------------------------
\* A new process: the services load what was saved, requests and sessions are gone.
RestartApi ==
    /\ CountGwOp
    /\ rt' = rtSaved /\ rows' = rowsSaved
    /\ req' = [h \in GwHandlers |-> Idle]
    /\ conn' = [c \in GwConns |-> Closed] /\ registry' = NoConn
    /\ seen' = [seen EXCEPT !.disabled = @ /\ StatusRevoked(rtSaved.status), !.overtaken = {}]
    /\ UNCHANGED <<rtSaved, rowsSaved>>

EventsNext ==
    \/ \E h \in GwHandlers :
         \/ gatewayBootstrapAccessEvent(h) \/ gatewayBootstrapDeviceEvent(h) \/ gatewayBootstrapEventsBatch(h)
         \/ IngestAccessEvent(h) \/ IngestDeviceEvent(h) \/ AddQueueIngestTotal(h)
         \/ gatewayBootstrapEventsCheckpoint(h) \/ UpsertEventCheckpoint(h)
    \/ handleGatewayEvent \/ deassignReferenceController \/ RestartApi

StatusNext ==
    \/ \E h \in GwHandlers :
         \/ gatewayBootstrapConfigApplied(h) \/ MarkConfigApplied(h)
         \/ gatewayBootstrapOTAReport(h) \/ ReportOTA(h)
         \/ \E status \in {"online", "offline", "disabled"} : updateGatewayStatus(h, status)
         \/ closeGatewaySessions(h)
    \/ \E v \in {"v1", "v2"} : publishGatewayConfig(v)
    \/ \E n \in 0 .. 1 : reportGatewayDeviceRS485Telemetry(n)
    \/ \E mine, up, rs485 \in BOOLEAN : registerGatewayDevice(mine, up, rs485)
    \/ \E mine, last \in BOOLEAN : deassignReferenceReader(mine, last)
    \/ rebootGateway \/ updateReferenceReader \/ resetTamperReferenceReader
    \/ bindGatewayDoor("door") \/ unbindGatewayDoor("door")
    \/ createGatewayOTATask \/ (\E status \in OtaStatuses : updateGatewayOTATaskStatus(status))
    \/ deassignReferenceController \/ RestartApi

SessionsNext ==
    \/ \E c \in GwConns : gatewayWebSocket(c) \/ add(c) \/ remove(c) \/ handleGWWSMessage(c)
    \/ \E h \in GwHandlers :
         \/ \E status \in {"online", "disabled"} : updateGatewayStatus(h, status)
         \/ \E x \in Certs : revokeGatewayCertificateSerial(h, x)
         \/ closeGatewaySessions(h)
    \/ \E x \in Certs : restoreGatewayCertificateSerial(x)
    \/ deassignReferenceController \/ RestartApi

\* A connected gateway answers every ping, and its answer is read; a silent one runs
\* into the read deadline, which is remove.
GwFairness == \A c \in GwConns : WF_gwVars(handleGWWSMessage(c))

GwNext == EventsNext \/ StatusNext \/ SessionsNext
GwSpec == GwInit /\ [][GwNext]_gwVars

-----------------------------------------------------------------------------
(* Properties.                                                             *)

\* No checkpoint, in memory or in the store, acknowledges more events than the cloud
\* was given, although the total is compared in one critical section and the checkpoint
\* written in another, rows and totals are saved apart and a restart may lose either;
\* a queue other than the default one is not compared before its first total
\* (gatewayBootstrapEventsCheckpoint, UpsertEventCheckpoint).
CheckpointWithinIngested ==
    \A q \in Queues \ seen.unchecked : /\ rt.acked[q] <= seen.made
                                       /\ rtSaved.acked[q] <= seen.made

\* A gateway that an administrator disabled stays disabled, whatever the gateway reports
\* and whichever restart loses a save, until an administrator sets its status, reboots it,
\* files telemetry for it, registers an online device or removes its last one, or until a
\* configuration report arrives that was authorised before (updateGatewayStatus,
\* MarkConfigApplied, RegisterDevice, DeassignDevice).
DisabledHolds == seen.disabled => StatusRevoked(rt.status)

\* A session that is revoked while it is open ends without waiting for its lifetime,
\* also when no handler closed it: the next frame does (handleGWWSMessage).
RevokedSessionEnds ==
    \A c \in GwConns : (conn[c].st = "open" /\ gatewayConnectionRevoked(c))
                         ~> (conn[c].st # "open" \/ ~gatewayConnectionRevoked(c))
=============================================================================
