# MistyPass: TLA+ models, model checking and proofs

MistyPass is a cloud-managed access-control system. A Go API process (`api/cmd/api`,
`api/internal`) keeps tenants, users, credentials, gateways and events; a gateway agent
(`api/cmd/gateway-agent`) runs next to the doors, caches access rules, decides offline
who may enter, drives a relay and uploads what happened. This directory models the parts
of both in which steps of several actors, failures and restarts meet.

## 1. Inventory

| Part | State it keeps | Operations | Talks to |
|---|---|---|---|
| Agent: event upload (`agent.go`, `ws_client.go`) | `eventQueue`, `eventPushBackoff`, the batch in flight | `queueEvent`, the Matter callback, `pushEvents`, `Stop` | cloud WebSocket session, `/gateway/events/batch` |
| Agent: rules and decision | `accessRules`, `ruleVersion`, `rulesUpdatedAt` | `handleConfigPush`, `pullConfig`, `VerifyCredential`, `VerifyAuthResponseV2` | `config_push` frames, `/gateway/config/pull` |
| Agent: relay drivers (`relay.go`, `matter_relay.go`) | the relay, `relockTimer` | `Unlock`, the re-lock callback, `Close` | reader goroutines |
| Agent: readers, nonce cache, mTLS | nonces, sessions, certificates | `Contains`, `Add`, framing | hardware |
| Gateway service (`modules/gateway`) | gateways, devices, serial inventory, config states, totals, checkpoints, OTA tasks, certificate revocations | registration, removal, inventory, status, configuration, checkpoints, OTA, revocation | admin API, gateways, state store |
| Events (`modules/event`) | access and device events | ingestion over HTTP, WebSocket and the bus | gateways, UI |
| WebSocket sessions (`http/routes_gateway_ws.go`) | registry of connections | `add`, `remove`, frames, pushes, closing | agents, other API instances over NATS |
| Mobile credentials (`modules/credential`) | credentials | register, revoke, suspend, activate, refresh, revoke-user | admin, app, SCIM and directory handlers |
| Wallet (`modules/wallet`) | passes, templates, issue jobs, dead letters, cards, card tasks | issue, assign, retry, process, report | workers, Apple and Google |
| Auth (`modules/auth`) | accounts, MFA states, refresh sessions, revoked tokens, passkeys | login, refresh, logout, password, MFA, WebAuthn | Redis, PostgreSQL, every handler |
| Access (`modules/access`) | users, groups, links, teams, rights, shares, bookings, guests, policies, calendars, OAuth2 clients, ... | the admin, reference, app and SCIM APIs | credentials, directories, state store |
| Space (`modules/space`) | buildings, floors, areas, doors, door groups | create, update, delete, grouping | admin and reference APIs |
| Enterprise (`modules/enterprise`) | domains, provider configurations, employees, sync requests, approvals, alerts, webhook receipts, executions | synchronisation, OIDC and SAML login, alert dispatch and retry, HRIS webhooks | auth, access, alert provider, workers |
| HRIS (`modules/hris`) | dead letters, pull states, vault | replay, pull, secrets | HR systems, workers |
| State store and Redis (`state`, `redistore`) | payloads, change log, projections; queues, leases | save, compare-and-swap, replay; claim, acknowledge, lease | every service |
| Alarm, audit, camera, integration clients, tenant, mail, push, PDF | small tables, outbound I/O | | third parties |

Most cloud services have one shape: a mutex, tables in memory, and `persistLocked`, which
saves the whole snapshot at the end of an operation. What is hard in this system:

- **Concurrency**: requests read under one lock and write under a later one; a batch is sent
  outside the lock it was taken under; a relay is driven outside the mutex of its timer;
  several processes claim receipts, pulls, alerts and projections of one database.
- **Failure**: a save fails after memory changed, and most operations keep the change;
  processes die holding claims, leases and queue items; providers leave the outcome of a call
  unknown; a write succeeds and its follow-up does not.
- **Time**: offline windows, re-lock timers, processing timeouts that pass while the work
  still runs, backoffs that must end.

`PROJECT.json` lists every component with its status, and the hazards with the source line
each bites at and the property that would catch it.

What makes each modelled component correct:

- *Event upload*: events arrive in order or are accounted for; memory is bounded; nothing is
  stranded.
- *Credential propagation*: a revoked credential opens no door later than the documented
  offline window; a stored revocation is final; rules converge.
- *Relay*: an unlocked door always has its re-lock ahead of it and is locked again.
- *Serial inventory*: hardware has one place; inventory and gateway table agree, in memory and
  in the snapshot a restart loads.
- *Gateway runtime*: no checkpoint acknowledges more than the cloud was given; a disabled
  gateway stays disabled until one of the named requests sets its status; a revoked session ends.
- *Wallet*: a successful job has a pass of its own; a stored revocation is final; claimed
  jobs are finished.
- *Auth*: a recovery code works once; an ended session comes back only through a request that
  had read it before; a password is lost to an older one or to none in three known ways only.
- *Access and space*: what was deleted stays deleted; no link, right or membership names a user,
  group or team that is gone; suspensions hold; signed-off users have no active credential; spaces are not booked beyond their
  capacity; the topology is sound.
- *Enterprise*: an answered synchronisation is kept; nobody is provisioned without the
  approval required; a deactivated employee has no new session; an alert call that has a flight is
  accounted for, and calls of one lineage exclude each other while their flights last.
- *HRIS*: accepted webhooks are handled once, are not lost and are settled some day; the
  cursor of a pull never passes a change the directory neither has nor refused.
- *State store*: a swap replaces what says the same as what it read; projections follow the payload.

## 2. Modules

| Module | Models | State and actions |
|---|---|---|
| `AgentEvents` | `queueEvent`, `eventPushLoop`, `pushEvents`, the client's connect and read loops, the cloud session that reads, `Stop` and exit | An event is its position in the order of appending. `pc` is where the push goroutine is between its critical sections. Durations are multiples of `eventPushInterval`. |
| `Credentials`, `AuthzCache` | `credential.Service`; the handlers that change a credential and push, the connection, the poll, the offline decision | A handler goroutine builds a cache and then writes it; a cache is its rules and the time it was built. `QuietHandler` is every change that pushes nothing. |
| `DoorRelay` | `Unlock`, the `AfterFunc` callback and `Close` of the GPIO, RS485 and Matter drivers | `Energise` and `Arm` are the two steps of `Unlock`; `Fire` starts a callback, `Relock`/`RelockFails` end it. |
| `SerialInventory` | gateways, devices and serial inventory | `inv` and `gw` are memory, `db` the snapshot; one action per operation, each ending in `Persist`. |
| `GatewayRuntime` | one gateway in the gateway and event services, and its sessions | `rt`/`rows` are memory, `rtSaved`/`rowsSaved` the store; a handler `req[h]` is what is left of a request between two critical sections; registering or removing a device sets the status too; `conn` and `registry` are the WebSocket sessions. |
| `WalletPasses`, `WalletJobs`, `PhysicalCards`, `Wallet` | the wallet service | passes and templates; issue jobs, worker goroutines, retries and dead letters; cards and card tasks; `Wallet` composes them with saves and restarts. |
| `AuthAccounts`, `AuthTokens`, `AuthPasskeys`, `Auth` | the auth service | rows and their copies in memory; `demo` are the demonstration accounts, which every start writes anew; `Auth` has the requests of several steps (`req[t]`), failing stores and restarts. |
| `AccessTables`, `AccessState`, `AccessPeople`, `AccessDirectory`, `AccessVisits`, `SpaceTopology`, `Access` | the access and space services and their handlers | `AccessTables` is what each service method makes of the tables; `AccessState` saving, failing and restarting, and the mobile credentials of the users (`creds.held` in memory, `creds.kept` in the store), whose failed saves are swallowed; the next four one action per handler; `Access` the composition and the properties. |
| `StateStore` | `PostgresStore` | `payload` (the change a row comes from), the change log (who expected what and said what), `checkpoint` and `rows` of each projection; `work[p]` is where a process is in a save, swap or replay. |
| `WorkerQueue`, `HrisReceipts`, `HrisDlq`, `HrisWorkers` | Redis queue and leases, webhook receipts and executions, dead letters, and the endpoints and workers on them | `HrisWorkers` composes the other three; `procs[p]` is where a request, goroutine or tick is. |
| `Inbox` | | the abstract specification `HrisWorkers` implements |
| `HrisPull` | connectors, vault, pull state and pull worker | each process has a copy of the core state; the pull state is shared. |
| `EnterpriseDirectory`, `EnterpriseLogin` | synchronisation of employees; logins through OIDC and SAML, provisioning and its approval | `core` is memory, `stored` the database; `slot[l]` is where a login is. |
| `SyncAlerts` | alert dispatch, flights, retries, suppression, the worker | `snap` is the shared snapshot (a log, newest first, and a set of flights), `proc[p]` where a process is; claiming a flight is a first run of the change and the swap, which may be lost and run again. |
| `MC*` | | the small instances; `MCGateway` and `MCEnterprise` choose one of several parts that share no state, `MCWallet` between more jobs and physical cards; `AgentEvents`, `SerialInventory` and `StateStore` need no definitions of their own and are run as they are, with `MCAgentEvents.cfg`, `MCSerialInventory.cfg` and `StateStore.cfg` |
| `*Proofs` | | theorems and TLAPS proofs |

**Refinement.** `Inbox` says what the webhook pipeline promises: an accepted message is pending until it is handled or
parked where workers and operators find it, and is lost only with an excuse. `HrisWorkers` maps a receipt's status, the dead
letter of it and the processes that hold it to Inbox's `state` (`Promise == INSTANCE Inbox WITH ...`), and the run `hris` checks
`Promise!Spec`, which `DeliveryProofs` proves for every size. Two excuses are needed, and both are in the code: a dead letter that could not be stored at the last attempt,
and two processes that had one receipt at the same time.

Abstractions to know when reading them:

- **Events over HTTP from the agent.** The handler refuses the agent's body before it ingests anything (its decoder rejects
  unknown fields and the agent's field is called `events`), so `HTTPAnswered` of `AgentEvents` ingests nothing.
- **One gateway, one API process** in `AuthzCache` and `GatewayRuntime`. A push that another instance
  delivers over NATS is a push written later, which the separate `WritePush` step covers; that another instance learns
  of a revocation late is not modelled. `GatewayRuntime` has one device, one door, one OTA task and two queues; the revocation check and the ingestion
  of one frame are one step, and so are the lookup of the total and of the row count; nonces and the issuing of device tokens are left out.
- **One tenant** everywhere; operations of another tenant return early. A credential's lifetime is the flag `lapsed`.
- **Auth**: passwords, TOTP secrets and sets of recovery codes are drawn from one counter, a set of codes is one code, spent per user; one API process. Whether the accounts are demonstration accounts is chosen in `Init`; their password is the first generation.
- **Access**: tenant and scope checks and requests that change nothing are left out; at most one request has read and not yet written; a behaviour exercises one family of handlers
  (`family`, chosen in `Init`); what no property tells apart of a row is left out; a batch of users of a synchronisation is applied row by row and has one or two of them (`MaxBatch`). A user has at most one mobile credential of each status, and their expiry is left to `AuthzCache`.
- **HRIS**: a tick has a batch of one item; the failure stages of dead letters are one; a time is a flag that says it has passed; a process of `Procs` is one request, goroutine or tick.
- **Directory and login**: one domain, one provider of each kind; the access service takes or refuses what it is given; roles are left to `Auth`. **Pull**: one connector, time counted in changes of the HR system, pages read as one list; which rows the synchronisation refuses is chosen freely.
- **Alerts**: a write of the snapshot is one step, except for the claim of a flight, whose change remembers the runs before a lost swap; the trimming of the log at 5000 records is left out.
- **State store**: a payload says one of `Contents`, and a swap compares what it says, as the code compares JSON; keys with one or several tables; the SQL of a projection is copying; what is left of a batch under replay is a set, of which the least is next. A save whose batches (four of 500 in the code) do not suffice for the backlog does not count as alone with its key.
- **Wallet**: a card is its number; the reader's UID and the vendor are left out.

## 3. Runs

| Run | Checks | Distinct states |
|---|---|---|
| `agent_events` | `UploadOrder`, `EveryEventAccounted`, `RetainedBound`, `EveryEventLeaves` | 402,262 |
| `authz_cache` | `RevocationWindow`, `StoredRevocationFinal`, `RulesConverge` | 668,137 |
| `gateway` | `RelockPending`, `CheckpointWithinIngested`, `DisabledHolds`, `DoorRelocks`, `RevokedSessionEnds` | 275,013 |
| `serial_inventory` | `HardwareInOnePlace`, `RegisteredIsConsumed`, `ConsumedIsRegistered` | 167,890 |
| `wallet` | `StoredRevokedFinal`, `SuccessHasOwnPass`, `ProcessingEnds` | 903,516 |
| `auth` | `RecoveryCodeOnce`, `EndedOnlyByReader`, `PasswordKept` | 531,398 |
| `hris` | `HandledOnce`, `NotLost` (refinement of `Inbox`) | 1,078,429 |
| `hris_live` | `ReceiptsSettle` | 276,913 |
| `access` | `DeletedStaysDeleted`, `NoDanglingGrant`, `SuspensionHolds`, `OffboardedHasNoCredential`, `NoDoubleBooking`, `TopologySound` | 455,202 |
| `state_store` | `SwapReplacesWhatItRead`, `ProjectionFollows` | 3,785,182 |
| `enterprise` | `EveryDispatchAccounted`, `OneCallPerLineage`, `AnsweredSyncKept`, `DeprovisionHolds`, `ProvisionedWasApproved`, `CursorCovers`, `DueSettles`, `PullSettles` | 606,559 |
| `authz_revoke_user` | expected violation of `RevokeUserRevokesAll` | |

**Bounds and why they are enough.**

- `agent_events`: a ring of 2, batches of 2, 4 events, 2 connections. Four events overflow the ring while a batch is out, and a
  put-back batch takes it above its limit; two connections let an old session deliver beside a new one.
- `authz_cache`: two credentials of one user on one phone, two handlers (so pushes overtake each other), a window of 1 and a
  clock to 2, 3 changes, 1 frame on the wire. The proof covers the other sizes.
- `gateway`: three relay sessions, 5 unlocks, duration 2: an old timer, an old callback and two overlapping unlocks at once.
  Two handlers, two connections, two certificates, one key of each kind, 4 requests: a check, what overtakes it, a failed save and a restart.
- `serial_inventory`: two gateways, two gateway serials, two devices, capacity 1, 3 operations from every consistent seed, which
  reaches what would take seven or eight from an empty table.
- `wallet`: two passes (one issued at the start), one worker, 3 operations and a fault beside the worker's own steps; either two jobs, so that two may claim one pass, or one job
  beside one card and two card tasks, which share nothing with jobs but the save.
- `auth`: one administrator, whose account may be a demonstration account, two passkeys, two token pairs, two concurrent requests, three generations of secrets, 3 requests and one fault.
- `hris`, `hris_live`: one receipt, two attempts, two executions (the list keeps one), two dead letters, two processes; one failed call or crash,
  one timeout that passes during the work, an operator. The interesting cases are two processes on one receipt, hence one receipt; `hris` has both deployments (with and without the workers).
- `access`: two emails, two directory identities, 3 requests in most families (4 where a request takes part of them, 2 for batches), one failed save (of the access or of the credential service) and one crash.
- `state_store`: two processes, two keys, two contents, saves of two batches of one change, and up to four of: a change, a manual replay (at most one), a fault (at most two). A content is changed and changed
  back behind a swap, an interrupted projection meets a second process and a third change, and two failed projections leave a backlog longer than the batches of the third save.
- `enterprise`: alerts with two processes and two attempts, and two requests and a fault, one request, two edits and a fault, or two requests and an edit: two claims of one lineage and what makes one of them
  lose its swap; a directory with two emails, two external ids and six batches, among
  them a changed email, one person twice and one row without external id, which a login that is about to provision meets; two logins at once; a pull with two processes, two HR changes, two pulls and two of a request, a failure and refused rows.

Process and handler sets are symmetric in `serial_inventory`, `auth`, `hris` and `state_store` (there also the contents), which have no liveness property. The bounds stop the
behaviours, hence `CHECK_DEADLOCK FALSE`: agent and services may always idle, and after the last allowed operation the models do. There is no blocking wait in the
modelled code whose deadlock the check would find; claims and leases that nobody gives back are what `ReceiptsSettle`, `PullSettles` and `DueSettles` are about.

**Fairness and why the code justifies it.**

- `agent_events`: the push goroutine is driven by a ticker; sessions the cloud still reads are read; `main` returns once `Stop` has; the network is assumed
  not to refuse every attempt for ever (strong fairness of an accepted send).
- `authz_cache`: handler goroutines run to their end, frames on a live connection are read, the poll loop polls and its answers are not lost every time.
- `gateway`: sessions finish `Unlock`, timers fire and callbacks end, each a guarantee of the Go scheduler. A connected gateway answers the server's pings, so a frame
  is read sooner or later; a silent one runs into the read deadline, which is `remove`.
- `wallet`: a worker that claimed jobs goes on.
- `hris_live`: a process that works goes on; each worker's ticker fires in some process again and again; timeouts pass.
- `enterprise`: tickers fire, a process at work goes on, flights and leases expire.

**Disagreement between a comment and the code.** `authz_revoke_user`: `routes_credential_admin.go` says "revokes all credentials for a user (employee termination)"; suspended
ones are not revoked, and can be activated afterwards.

Every property of a passing run has a mutant: a plausible bug in one definition (defined next to the original, with a suffix) under which TLC finds the property violated.
The `TypeOK` of a module says what its variables hold; it is proved with the invariants of section 5 and is not a property of a run, where it would say nothing about the code.

## 4. Observations

What the models show the code does, or what was met while modelling, where a document or a reader may expect otherwise. The
properties except these cases by name, so everything around them is checked.

*Agent.* The delay is reset before each retry and is always 10 s (`agent.go:567`); any HTTP status counts as delivered (`agent.go:646`; `docs/credential-security-architecture.md:413`
says events are re-queued on failure); an old re-lock callback locks a freshly unlocked door (`relay.go:90`; `matter_relay.go:42` calls it race-safe); `Close` of the RS485 and Matter drivers
leaves an unlocked door unlocked (`relay.go:174`); the version that decides whether a reconnecting gateway is sent rules depends on their number only; `VerifyBLEAuth` checks the age of the cache and not the rule's expiry (`agent.go:755`).

*Gateway.* `MarkConfigApplied`, `Reboot` and telemetry set a gateway online whatever its status, so a report authorised before disablement enables it again; registering an online device (`service.go:964`) and removing the last one (`:1002`) take a gateway out of disabled as well. A queue other than the
default one accepts any `acked_count` before its first total (`docs/architecture/gateway-security-software-status.md:23` says impossible counts are rejected), and a default queue acknowledged by the
row count refuses later checkpoints until the total, which starts at 1, has caught up. A revoked certificate beside a valid device token is still authorised for HTTP and lets a session in until its first frame; the session of a removed gateway
goes on being served (`routes_gateway_ws.go:527`). Any OTA status follows any other, so a late report overwrites a final one. `UpdateDevice` writes the status before it refuses the protocol.

*Wallet.* `setJobFailure` does not look at the status (`service_jobs.go:910`): a job that `RetryJob` completed while a worker was checking its template goes to the dead letters, from where a requeue issues a second pass.
Setting a card task to the status it has repeats its effects (`physical_card.go:124`), so cancelling one again makes a scrapped card available. A claim is saved by whichever operation saves next; a restart then loads a job
that is processing with nobody at work on it.

*Auth.* A refresh session read from the store outside the lock is put back into memory after it was revoked; role changes and external logins write back the password hash they read. `UpdateUserPasswordAuth` stores its flag nowhere, so it changes nothing about
password logins, and when its second read fails it writes the account without a hash (`service.go:1018`). Every start writes the demonstration accounts with their first password and role (`service.go:260`).

*Access and space.* A change whose save failed stays in memory in most operations and is saved by the next one. Role assignments and other tables are loaded only when the snapshot has rows,
so demonstration rows that were deleted come back; schedules, elevators, terminals and organization settings are not in the snapshot (`service_policies.go:1034`), and a deleted demonstration schedule is back after every restart. `DeleteGuest` leaves the rights and team memberships of the guest (`service_policies.go:695`). A directory's sign-off revokes active credentials only: a suspended one can be activated afterwards, and a revocation whose save failed is answered all the same, so a restart brings the credential back (`credential/service.go:625`). `appAdminCreateCredential` registers a credential without looking the user up. Moving a booking checks no overlap; `UpdateBooking` writes its fields before
it refuses them; cancelling a checked-in booking keeps its place taken. A late receipt marks a cancelled invitation sent. `TransferOrganization` moves five tables. `scimDeleteUser` ignores the error of its update and answers 204; `appAdminInviteUser` is always refused because "invited" is no status
(and is not an action for that reason). Floors, areas, doors and groups are created on a check made under an earlier lock. The app's lockdown endpoints change and dispatch nothing.

*Directory and login.* A person twice in one batch: the directory keeps the last row and the access service gets the first. A failed save leaves memory changed, and the repetition is answered from the record. The probe of a login
opens a session of its own. A revocation of sessions that finds no user, or whose delete fails, is answered as done (`auth/service.go:600`), and the session a deactivated employee had stays. Between the check whether the directory knows a person and the provisioning (`router_handlers_enterprise_auth.go:46-70`) a synchronisation may change the email or external id of the row the check found;
the login then makes a second employee, whom nobody approved. `ProvisionedWasApproved` therefore excepts whoever was known when the login was checked; that the stronger form is false came out of an attempt to prove it. Where provisioning is not used at login, nobody checks whether the employee is active. Consumed assertions and state tokens are in memory only.

*Alerts.* `acquired` is not reset when the change runs again after a lost swap (`sync_worker_alert_dispatch.go:1624`): a process that then finds the lineage claimed by another is told that it has the flight, and both call the provider. Its call has no flight, so a crash leaves nothing to recover. A recovered notification records every channel as failed, so `ConfirmAlertDelivery` (`modules/wallet/alert_delivery.go:103`) can never confirm it, although
`docs/wiki/external-api/reference-enterprise-sync-worker-alerts.md:233` says a confirmed one becomes sent; suppression ignores attempts under way; only the newest notification of a fingerprint is retried automatically.

*HRIS.* A dead letter that cannot be stored at the last attempt strands its receipt. With a single attempt (`MaxAttempts` = 1, which `config.go:527` allows; the default is 5) a
receipt can be lost without one of the excuses of `Inbox`: an operator's request that read it as received claims it after a timeout, cannot create its execution and writes "received" back, while the
execution of an earlier request is about to look at its target. That execution decides from no attempts used that a failure is not the last one (`router_workers_hris.go:484`), starts the receipt, fails, and the
receipt is at its limit without a dead letter. The attempt to prove `NotLost` without a hypothesis showed it, and TLC confirms it. Without the workers a webhook is processed without a claim. A receipt whose timeout passed while it is processed is processed twice. Rows that a pull's synchronisation refuses do not hold the cursor back (`router_workers_hris.go:2662`), so they are missed until they change again or a full pull takes them. After `PullAttempts` failures a
connector is never pulled again. Core state and vault are saved whole by every process: a stale save takes back pulled rows while the cursor stays, until the next full pull.

*State store.* `Save` and `CompareAndSwap` answer an error for a payload that is committed when a projection fails; two swaps that expect no row both succeed, the later one over the earlier; a swap compares what the payload says (`postgres_store.go:1532`), so a value changed and changed back in between passes; a save that finds more than 2000 unprojected changes of its key is answered without an error while the tables are behind (`postgres_store.go:1462`); overlapping replays can leave stale rows behind a checkpoint that only grows.

## 5. Proofs

TLAPS proves the following for all values of the constants that satisfy the assumptions named in the modules that declare
them (`DoorRelayAssumption`, `CredentialsAssumption`, `AuthzCacheAssumption`, `SerialInventoryAssumption`, `AgentEventsAssumption`,
`BatchesAssumption`, `GatewayRuntimeAssumption`, `IdentitiesAssumption`, `AuthAssumption`, `AuthAccountsAssumption`, `DemoAssumption`, `NobodyAssumption`, `ContentsAssumption`, `WalletPassesAssumption`, `WalletJobsAssumption`, `NoneAssumption`,
`HrisBounds`, `DlqBounds`, `HrisFinite`, `HrisLimits`, `HrisNoZero` and the others named `...Assumption`). They say that limits are natural numbers, positive where the code's are, that
the inputs offered to the system have their types, that the sets of sessions, credentials, device serials, processes, executions and dead letters are finite, that kinds of keys and serials do not overlap, and that what stands for nobody or nothing is not a user, pass, payload or receipt. The theorems are
about the specifications the runs check, or about `GwSpec`, `AlertsSpec`, `LoginSpec` and `PullSpec`, which are a component of `MCGateway` or `MCEnterprise`
on its own and without fairness.

- `GatewayProofs`, the relay: `TypeCorrect` and `RelockAlwaysPending`. `RelockPending` is inductive with `TypeOK`:
  whichever step ends one of the three pending things (timer, callback, session) starts the next, locks the
  door or records a failure.
- `CopiesProofs`, the copies of the rules: `TypeCorrect`, whose inductive form adds `WritesBuiltCache` (a handler about to
  write holds a cache that was built); `RevocationWindowHolds`; `StoredRevocationHolds`. The window follows from
  `CachesFresh`, that every rule in every cache, wherever it is, names a credential that was listed at or after the time the cache
  was built, and `NowListed`, that what is listed now was last listed now. `RevocationWindow` alone is not inductive: it says nothing of caches on
  the wire, in handlers or in the poll.
- `SerialInventoryProofs`: `TypeCorrect`, `HardwareStaysInOnePlace` (inductive given the types; one lemma per
  operation on the table), `RegisteredStaysConsumed` (inductive given the two others: that no serial
  is owned twice is what keeps one gateway's removal from releasing another's serial) and `ConsumedStaysRegistered`, which needs
  `IdsUsed` as well: an ID that was never generated has no gateway in memory or in the store, so a registration displaces no serial.
- `DeliveryProofs`, the agent's events: `UploadsInOrder`, `NoEventMislaid`, `QueueBounded`, from one invariant. The properties speak of what the agent
  holds, wherever it is; `InFlight` adds that a batch is out of the queue only between the critical sections of a push and is no longer than
  `BatchMax`, without which putting it back could exceed the bound, and `Order` splits the order into batch before queue and everything
  sent before both. The lemmas about slices and joins of sequences come first.
- `CopiesProofs`, the tables projected from a payload: `SwapsReplaceWhatTheyRead` and `ProjectionsFollow`, from `StoreInv` and, for the first, `SwapInv`. A swap that saw a row replaces one that says the same because the payload of a key is its last change (`PayloadIsLast`) and
  the row is locked from the comparison on. One that saw no row has nothing to lock: what it overwrites was made after it looked, as `CreatorsLooked` says of whoever is about to make a row that was missing.
  The projection needs `AloneIsAlone` (who is marked alone with a key is, and nobody is at a clean one), `CheckpointBehind`, and for each process
  `Reaches`: a save that is alone has, in the batches left, room for every change after the checkpoint, and in its current batch the tables show the last change worked off.
  `Reaches` rests on counting lemmas about the oldest `limit` members of a set of changes. Two projections of one key can leave stale rows; a step therefore has a
  `Frame` (the keys it changes) and the others are `Bystander`s.
- `GatewayProofs`, the cloud's side: `CheckpointsWithinIngested` and `DisabledStays`, from `GwInv`. A checkpoint is compared with the total, so `CountInv` bounds the totals:
  a total plus the rows that requests have made and not yet added (`Pend`, one pair for each) is at most the rows ever made, and a checkpoint about to be written was
  compared (`AckSound`). `DisabledInv` adds that a configuration report still under way was let in before the gateway was disabled; registrations and removals of devices, which set the status too, end what the property says.
- `EnterpriseProofs`, three components:
  - `DispatchesAccounted` and `OneCallAtATime`, from `AlertInv`: `FlightsApart` (a lineage has at most one flight, expired or not, with an id already given out),
    `CallsApart` (calls have different ids, and a call and the flight of its id are about one lineage), `CallsCarried` (a call has its flight until that expires, unless it began without one after a lost swap)
    and `RetryKnown` (what is to be retried is in the log). Without the first two an expired flight taken over by a second process could be confused with the first one's.
  - `DeprovisioningHolds` and `ProvisioningApproved`, from `LoginInv`: every approval in memory and in the store is on record (`CoreOK`), an admitted login of somebody
    who was deprovisioned since is marked (`Marked`), and one about to provision was approved or found in the directory (`Cleared`). The directory's synchronisation is
    interleaved with the logins, and a revocation of sessions may fail: what it leaves is marked as kept.
  - `CursorsCovered`, from `PullInv`. `CursorCovers` holds of the saved directory; processes save whole copies, so the invariant speaks of all of them. `MendedTrusted`: once a full pull begun
    after the last stale save has been applied, the saved directory and every fresh copy have all changes up to the cursor, up to the time of every worker that has applied its list
    and not yet moved the cursor, and up to the cursor that lists not yet applied start from. `InTime`: nothing that matters is later than a worker that has seen every save since it began; `ListsOK`: a list has
    what changed after its cursor and by its time. `SyncedOK`: between the save of the synchronisation and that of the pull a worker's copy has what its list says. To have a change is to have the row, or to have refused the person since.

- `AuthProofs`: `AuthTypeCorrect`, `RecoveryCodeUsedOnce` and the action properties `EndedStaysEnded` and `PasswordStays`. A code that let a login through must be in neither copy of the second factor (`SpentInv`), the copy in memory
  is empty until it is loaded (`MfaInv`), and a request that has read the row and not yet loaded it has the row as it is (`ReqInv`); without the last, a load could bring a spent code back.
  A session that ended has left the store (`TokensInv`), so only a request that had read it can put it back.
  `PasswordStays` goes through the writers of an account, the start that writes the demonstration accounts among them.
- `WalletProofs`: `RevocationIsFinal` and `SuccessNamesOwnPass`. A job that names a pass names one on record and names it alone, in memory and in the store, also a job that failed again after it had its pass (`OwnPass`).
- `AccessProofs`, six invariants of about forty handlers. Every handler has a shape (the tables it may touch, the ids it may add, what it may change of the history), and a property is proved from the shapes of the
  families that leave its tables alone and from the handlers of the others.
  - `DeletionIsFinal`, from `IdInv`: ids in use and ids gone lie below the next one. The demonstration rows that a start makes again are excepted, schedules included.
  - `TopologyStaysSound`, from `SpaceInv`: memory and store are sound up to the rows created on a check made before.
  - `SignedOffWithoutCredential`, from `SignOffInv`: whoever has an active credential in the store has one in memory, or lost a save; and a user about to be recorded as signed off has no active one, got one since, or lost a save (`Careful`).
  - `SuspensionsHold`, from `SuspInv` and `ToldInv`: a record about to be written states its status or has the one that was read.
  - `BookingsFit`, from `BookInv`: every booking that was not moved has room among the older ones, in both images; deleting, cancelling and resizing are shown to keep the count.
  - `GrantsNameRows`, from `GrantInv` and `HeldInv`: ids of users, groups and teams are of one table only, and an id that a waiting request holds is one of these or was named when it was not there. Rights and memberships of guests are kept apart, since deleting a guest leaves them. Without `Home` a deleted group could
    leave its id to a row of another table and the link would look sound.
- `DeliveryProofs`, the webhooks: `HrisTypeCorrect` and `WebhooksNotLost`, that `HrisWorkers` implements `Inbox` if a receipt has more than one attempt (section 4 says why not with one). `InboxInv` is about one receipt at a time. Either it is
  `Shielded` (handled, with an open dead letter, or excused) or it is `Alive`, so somebody can take it up (`ReceiptsOK`); what a process has (`Holding`), and what it knows of it (`Knowing`: a failure now leaves attempts, or will make a dead letter),
  survives the steps of others because two processes on one receipt are on record (`Apart`). Snapshots that a failed dispatch writes back are covered too: they were shielded or alive when read, and what shields a receipt stays.
  Each action is then a `Good` step: it concerns one receipt (`Frame`), and a good step keeps the invariant (`GoodKeeps`) and is a step or a stutter of `Inbox` (`GoodMoves`).
- `DeliveryProofs`, the webhooks once more: `ReceiptsHandledOnce`, from `OnceInv`. That a receipt was handled at most once says nothing of who may handle it next, so the invariant is about the right to work on a receipt: while no store
  call has failed, no process has crashed and no timeout has passed, it is with one process or with one queued execution, and the same holds for a dead letter (`ReceiptOnce`, `EntryOnce`). Whoever has it keeps the row processing, or replaying,
  with a timeout that has not passed, which is why nobody else's claim succeeds. A receipt that was handled or has a dead letter is `Shut`: its status, or its attempts, rule out another claim, and only the holder of its one dead letter
  (`LettersOnce`) may open it again. `RunningOnce` says that a running execution has a process that answers for it; without it an execution could be queued again behind that process's back. `Own` is what a process knows of its own receipt
  from its step. Each action is a `Fine` step (it hands on at most one such right) or stays `Aside`, and the budgets of faults and late timeouts only shrink (`LeftShrinks`), so an untroubled state had an untroubled past.

What stays with TLC: the liveness properties (`EveryEventLeaves`, `RulesConverge`, `DoorRelocks`, `RevokedSessionEnds`, `ProcessingEnds`, `ReceiptsSettle`, `DueSettles`, `PullSettles`), which
are outside the prover's reach, and `AnsweredSyncKept`, which is about what folding a batch into the directory computes and would need induction over the batch.

## 6. How the project grew, and what is left

The modules were written component by component, the agent and the gateway first, and the proofs followed in the order of what a failure would cost: doors and revocations, events and the state store, alerts, logins and pulls,
recovery codes and passes, the access service, and last the refinement of `Inbox` and that a receipt is handled once. Of the invariants the runs check, only `AnsweredSyncKept` has no proof.

## 7. Not modelled

- Third-party clients (wallet providers, cameras, directories, mail, push, PDF), cryptography, parsing of OIDC, SAML and vendor payloads, routing, configuration, the web
  UI, deployment files: I/O or data transformation without state of their own. Where a model needs them they succeed, fail or leave the outcome unknown.
- Small tables whose operations stand alone: alarm, audit, tenant.
- The agent's readers, framing, nonce cache, registration, heartbeat and certificate files; the fan-out between API instances; unlock decisions of the cloud (`routes_gateway_verify.go`), place and lock actions, favourites.
- List views, statistics and exports, which change no state.
