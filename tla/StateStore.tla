----------------------------- MODULE StateStore -----------------------------
(***************************************************************************)
(* The PostgreSQL state store (state/postgres_store.go): one JSON payload  *)
(* per module, a log of the changes, and projection tables that a save     *)
(* brings up to date by replaying the log from a checkpoint, in            *)
(* transactions of their own, while other API processes do the same.       *)
(* A stored payload is named by the change that wrote it; two changes may  *)
(* have the same content.                                                  *)
(***************************************************************************)
EXTENDS Integers, Sequences, FiniteSets
X == INSTANCE FiniteSetsExt
Permuting == INSTANCE TLC

CONSTANTS StoreProcs,      \* the API processes
          StateKeys,       \* the keys that are written
          Contents,        \* what a payload may say
          ReplayLimit,     \* maxReplayLimit
          ReplayBatches,   \* batches of one save
          MaxChanges, MaxManual, MaxStoreFaults,    \* bounds: changes, manual replays, failures
          MaxStoreOps      \* bound: all three together

Absent == "absent"    \* no payload is expected
Blind == "blind"      \* no payload is compared

ASSUME BatchesAssumption ==
    ReplayLimit \in Nat \ {0} /\ ReplayBatches \in Nat \ {0} /\ MaxChanges \in Nat
ASSUME ContentsAssumption == Absent \notin Contents /\ Blind \notin Contents

VARIABLES
    payload,   \* payload[k]: the change that wrote the payload of k, NoChange if there is none
    changes,   \* mistypass_change_log
    checkpoint,\* mistypass_change_replay_checkpoints
    rows,      \* rows[t]: the change a projection table shows
    work,      \* what each process is doing
    clean,     \* the keys that were projected to the end with nobody else at it, and not touched since
    quota      \* what is left of the bounds

storeVars == <<payload, changes, checkpoint, rows, work, clean, quota>>

NoChange == 0
AtRest == [pc |-> "idle"]

(* ------------------------------ projection ----------------------------- *)

tenantTables == {"tenants"}
spaceTables == {"buildings", "floors", "areas", "doors", "door_groups"}
accessTables == {"access_users", "access_user_groups", "access_policies", "temporary_access", "visitor_passes"}
gatewayTables == {"gateways", "gateway_devices", "gateway_serial_inventory"}
enterpriseTables == {"enterprise_domain_mappings", "enterprise_hris_connectors", "enterprise_hris_webhook_receipts",
                     "enterprise_idp_configs", "enterprise_employees", "enterprise_sync_jobs"}
eventTables == {"access_events", "device_events"}
alarmTables == {"alarms"}
auditTables == {"audit_logs"}
walletTables == {"wallet_configs", "wallet_templates", "wallet_passes", "wallet_jobs", "wallet_audit_logs"}

\* allowedProjectionDeleteTables: the tables rows may be deleted from.
ProjectionTables ==
    UNION {tenantTables, spaceTables, accessTables, gatewayTables, enterpriseTables, eventTables,
           alarmTables, auditTables, walletTables}


tablesOf(k) ==
    CASE k = "tenant" -> tenantTables
      [] k = "space" -> spaceTables
      [] k = "access" -> accessTables
      [] k = "gateway" -> gatewayTables
      [] k = "enterprise" -> enterpriseTables
      [] k = "event" -> eventTables
      [] k = "alarm" -> alarmTables
      [] k = "audit" -> auditTables
      [] k = "wallet" -> walletTables
      [] OTHER -> {}

\* applyProjection: in one transaction the rows of the snapshot are written and the others
\* deleted, so that every table of the key shows what the snapshot holds.
applyProjection(k, id) == rows' = [t \in DOMAIN rows |-> IF t \in tablesOf(k) THEN id ELSE rows[t]]

(* ------------------------------ bookkeeping ---------------------------- *)

\* There is room for one more change, replay by hand or failure.
Room == Len(changes) + (MaxManual - quota.manual) + (MaxStoreFaults - quota.fault) < MaxStoreOps

Set(p, w) == work' = [work EXCEPT ![p] = w]

\* Somebody else is replaying or projecting the key.
Projecting(p, k) == work[p].pc \in {"replay", "project", "sync"} /\ work[p].key = k
Alone(p, k) == \A q \in StoreProcs \ {p} : ~Projecting(q, k)

\* What everybody does from now on is no longer alone.
Disturb(p, k, w) ==
    work' = [q \in StoreProcs |-> IF q = p THEN w
                                  ELSE IF Projecting(q, k) THEN [work[q] EXCEPT !.alone = FALSE] ELSE work[q]]

Replay(p, k, id, batches, until) ==
    [pc |-> "replay", key |-> k, target |-> id, batches |-> batches, until |-> until, alone |-> Alone(p, k)]

\* The batches of a save work off what the checkpoint is behind; a longer backlog is left when the
\* save is answered, and such a save does not count as alone.
Backlog(k) == Cardinality({i \in DOMAIN changes : changes[i].key = k /\ i > checkpoint[k]})
WorkedOff(k) == Backlog(k) < ReplayLimit * ReplayBatches

Saved(p, k, id) ==
    [pc |-> "replay", key |-> k, target |-> id, batches |-> ReplayBatches, until |-> "saved",
     alone |-> Alone(p, k) /\ WorkedOff(k)]

(* ------------------------------ payloads ------------------------------- *)

\* What the stored payload of a key says.
storedContent(k) == IF payload[k] = NoChange THEN Absent ELSE changes[payload[k]].content

Load(p) == \E k \in StateKeys :
    /\ work[p] = AtRest
    /\ Set(p, [pc |-> "loaded", key |-> k, expected |-> storedContent(k)])
    /\ UNCHANGED <<payload, changes, checkpoint, rows, clean, quota>>

\* The payload and its change in one transaction, begun after the first `looked' changes; the row
\* lock orders the changes of a key.
appendStateChange(p, k, content, expects, looked) ==
    LET id == Len(changes) + 1
    IN  /\ Len(changes) < MaxChanges /\ Room
        /\ payload' = [payload EXCEPT ![k] = id]
        /\ changes' = Append(changes, [key |-> k, content |-> content, expects |-> expects, looked |-> looked])
        /\ clean' = clean \ {k}
        /\ Disturb(p, k, Saved(p, k, id))
        /\ UNCHANGED <<checkpoint, rows, quota>>

\* A row that is there is locked from the comparison to the commit; one that is not cannot be.
upsert(p, k, content, expects) ==
    IF payload[k] = NoChange
      THEN /\ Set(p, [pc |-> "creating", key |-> k, content |-> content, expects |-> expects,
                      looked |-> Len(changes)])
           /\ UNCHANGED <<payload, changes, checkpoint, rows, clean, quota>>
      ELSE appendStateChange(p, k, content, expects, Len(changes))

\* Save of a payload that differs from the stored one; of an equal one it does nothing.
Save(p) == \E k \in StateKeys, content \in Contents :
    /\ work[p] = AtRest /\ storedContent(k) # content
    /\ upsert(p, k, content, Blind)

\* A slip: that there is a payload is compared, what it says is not.
expectedStored_Bug(k, expected) == (payload[k] = NoChange) = (expected = Absent)

\* jsonPayloadEqual: contents are compared, so one that was changed and changed back passes.
expectedStored(k, expected) == storedContent(k) = expected

\* A swap that expects another payload is told so; one that would change nothing succeeds at once.
CompareAndSwap(p) == \E content \in Contents :
    LET k == work[p].key
        e == work[p].expected
    IN  /\ work[p].pc = "loaded"
        /\ IF ~expectedStored(k, e) \/ storedContent(k) = content
           THEN Set(p, AtRest) /\ UNCHANGED <<payload, changes, checkpoint, rows, clean, quota>>
           ELSE upsert(p, k, content, e)

UpsertStatePayload(p) ==
    /\ work[p].pc = "creating"
    /\ appendStateChange(p, work[p].key, work[p].content, work[p].expects, work[p].looked)

(* ------------------------------- replay -------------------------------- *)

\* The changes of a key after an id, the oldest limit of them.  A slip first: the change right
\* after the id is skipped.
changesFrom_Bug(k, id, limit) ==
    LET ids == {i \in DOMAIN changes : changes[i].key = k /\ i > id + 1}
    IN  {i \in ids : Cardinality({j \in ids : j < i}) < limit}

changesFrom(k, id, limit) ==
    LET ids == {i \in DOMAIN changes : changes[i].key = k /\ i > id}
    IN  {i \in ids : Cardinality({j \in ids : j < i}) < limit}

\* ReplayStateChangesFromCheckpoint: the checkpoint is read, the changes listed, each projected.
ReplayStateChangesFromCheckpoint(p) ==
    LET w == work[p]
        todo == changesFrom(w.key, checkpoint[w.key], ReplayLimit)
    IN  /\ w.pc = "replay"
        /\ Set(p, [pc |-> "project", key |-> w.key, target |-> w.target, batches |-> w.batches,
                   until |-> w.until, alone |-> w.alone, todo |-> todo,
                   last |-> IF todo = {} THEN checkpoint[w.key] ELSE X!Max(todo), some |-> todo # {}])
        /\ UNCHANGED <<payload, changes, checkpoint, rows, clean, quota>>

\* Oldest first, each in a transaction of its own.
ReplayStateChanges(p) ==
    LET next == X!Min(work[p].todo)
    IN  /\ work[p].pc = "project" /\ work[p].todo # {}
        /\ applyProjection(work[p].key, next)
        /\ Set(p, [work[p] EXCEPT !.todo = @ \ {next}])
        /\ UNCHANGED <<payload, changes, checkpoint, clean, quota>>

\* The end of a batch: the checkpoint never goes back.  A save goes on until its own change is
\* reached, nothing is left or its batches are used up.
upsertReplayCheckpoint(p) ==
    LET w == work[p]
        over == w.last >= w.target \/ ~w.some \/ w.batches = 1
    IN  /\ w.pc = "project" /\ w.todo = {} /\ w.until # "manual"
        /\ checkpoint' = [checkpoint EXCEPT ![w.key] = X!Max({@, w.last})]
        /\ Set(p, IF over THEN AtRest
                  ELSE [Replay(p, w.key, w.target, w.batches - 1, w.until) EXCEPT !.alone = w.alone])
        /\ clean' = IF over /\ w.alone /\ w.until = "saved" THEN clean \cup {w.key} ELSE clean
        /\ UNCHANGED <<payload, changes, rows, quota>>

\* A replay by hand from any change, which leaves the checkpoint alone.
replayStateChangeLog(p) == \E k \in StateKeys, from \in 0..(MaxChanges - 1), limit \in 1..ReplayLimit :
    /\ work[p] = AtRest /\ quota.manual > 0 /\ Room
    /\ changesFrom(k, from, limit) # {}
    /\ quota' = [quota EXCEPT !.manual = @ - 1]
    /\ clean' = clean \ {k}
    /\ Disturb(p, k, [pc |-> "project", key |-> k, target |-> NoChange, batches |-> 1, until |-> "manual",
                      alone |-> FALSE, todo |-> changesFrom(k, from, limit), last |-> NoChange, some |-> TRUE])
    /\ UNCHANGED <<payload, changes, checkpoint, rows>>

ReplayedByHand(p) ==
    /\ work[p].pc = "project" /\ work[p].todo = {} /\ work[p].until = "manual"
    /\ Set(p, AtRest)
    /\ UNCHANGED <<payload, changes, checkpoint, rows, clean, quota>>

replayStateChangeLogFromCheckpoint(p) == \E k \in StateKeys :
    /\ work[p] = AtRest /\ quota.manual > 0 /\ Room
    /\ quota' = [quota EXCEPT !.manual = @ - 1]
    /\ clean' = clean \ {k}
    /\ Disturb(p, k, Replay(p, k, NoChange, 1, "checkpoint"))
    /\ UNCHANGED <<payload, changes, checkpoint, rows>>

(* ------------------------------- failures ------------------------------ *)

\* A projection fails or the checkpoint cannot be written: the save that was committed is
\* answered with an error.
ProjectionFails(p) ==
    /\ work[p].pc \in {"replay", "project"} /\ quota.fault > 0 /\ Room
    /\ quota' = [quota EXCEPT !.fault = @ - 1]
    /\ Set(p, AtRest)
    /\ UNCHANGED <<payload, changes, checkpoint, rows, clean>>

\* The process stops and starts again: EnsureSchema projects the payload of every key.
Restart(p) ==
    /\ quota.fault > 0 /\ Room /\ work[p].pc \notin {"starting", "sync"}
    /\ quota' = [quota EXCEPT !.fault = @ - 1]
    /\ Set(p, [pc |-> "starting", todo |-> {k \in StateKeys : payload[k] # NoChange}])
    /\ UNCHANGED <<payload, changes, checkpoint, rows, clean>>

loadRawPayload(p) == \E k \in StateKeys :
    /\ work[p].pc = "starting" /\ k \in work[p].todo
    /\ clean' = clean \ {k}
    /\ Disturb(p, k, [pc |-> "sync", key |-> k, found |-> payload[k], todo |-> work[p].todo \ {k},
                      alone |-> Alone(p, k)])
    /\ UNCHANGED <<payload, changes, checkpoint, rows, quota>>

syncProjectionTables(p) ==
    /\ work[p].pc = "sync"
    /\ applyProjection(work[p].key, work[p].found)
    /\ Set(p, [pc |-> "starting", todo |-> work[p].todo])
    /\ clean' = IF work[p].alone THEN clean \cup {work[p].key} ELSE clean
    /\ UNCHANGED <<payload, changes, checkpoint, quota>>

EnsureSchema(p) ==
    /\ work[p].pc = "starting" /\ work[p].todo = {}
    /\ Set(p, AtRest)
    /\ UNCHANGED <<payload, changes, checkpoint, rows, clean, quota>>

StoreInit ==
    /\ payload = [k \in StateKeys |-> NoChange]
    /\ changes = <<>>
    /\ checkpoint = [k \in StateKeys |-> NoChange]
    /\ rows = [t \in ProjectionTables |-> NoChange]
    /\ work = [p \in StoreProcs |-> AtRest]
    /\ clean = {}
    /\ quota = [manual |-> MaxManual, fault |-> MaxStoreFaults]

StoreNext == \E p \in StoreProcs :
    \/ Load(p) \/ Save(p) \/ CompareAndSwap(p) \/ UpsertStatePayload(p)
    \/ ReplayStateChangesFromCheckpoint(p) \/ ReplayStateChanges(p) \/ upsertReplayCheckpoint(p)
    \/ replayStateChangeLog(p) \/ ReplayedByHand(p) \/ replayStateChangeLogFromCheckpoint(p)
    \/ ProjectionFails(p) \/ Restart(p) \/ loadRawPayload(p) \/ syncProjectionTables(p) \/ EnsureSchema(p)

StoreSpec == StoreInit /\ [][StoreNext]_storeVars

\* Processes and contents are interchangeable.
StoreSymmetry == Permuting!Permutations(StoreProcs) \cup Permuting!Permutations(Contents)

(* ------------------------------- properties ---------------------------- *)

\* The changes of the same key before a change.
Before(i) == {j \in 1 .. i - 1 : changes[j].key = changes[i].key}

(***************************************************************************)
(* No update is lost to a swap, whichever processes save and swap at the   *)
(* same time: a swap that was told it succeeded replaced a payload that    *)
(* said what it had read, by the very change before its own.  One that     *)
(* found no row cannot lock it and may replace what others created         *)
(* meanwhile, but nothing that was there when it looked (CompareAndSwap).  *)
(***************************************************************************)
SwapReplacesWhatItRead ==
    \A i \in DOMAIN changes :
        /\ changes[i].expects \in Contents =>
             \E j \in Before(i) : /\ \A l \in Before(i) : l <= j
                                  /\ changes[j].content = changes[i].expects
        /\ changes[i].expects = Absent => \A j \in Before(i) : j > changes[i].looked

(***************************************************************************)
(* When a save whose batches suffice for the backlog it found, or the      *)
(* start of a process, has projected a key with no one else at it, every   *)
(* table of the key shows what is stored, whatever failed, stopped, raced  *)
(* or was replayed by hand before; and it stays so while only other keys   *)
(* are saved.                                                              *)
(***************************************************************************)
ProjectionFollows ==
    \A k \in clean : \A t \in tablesOf(k) : rows[t] = payload[k]
=============================================================================
