------------------------------ MODULE HrisPull ------------------------------
(***************************************************************************)
(* The pull of employees from a tenant's HR system: connectors and their   *)
(* secrets (modules/enterprise/service_hris.go, modules/hris/vault.go),    *)
(* the pull state of a connector (modules/hris/pull_worker.go) and the     *)
(* worker that runs in every API process (router_workers_hris.go).  One    *)
(* connector.  The directory and the connector are in the enterprise       *)
(* service's core state: every process has a copy of it and saves it whole,*)
(* whatever others have saved since.  The pull state is kept in the        *)
(* database with compare-and-swap, so a change of it is one step.          *)
(*                                                                         *)
(* Time is counted in changes of the HR system: a tick that starts after k *)
(* changes has now = k, and a change k is in every list read after it.     *)
(***************************************************************************)
EXTENDS Integers, FiniteSets

CONSTANTS PullProcs,     \* API processes
          Staff,         \* people in the HR system
          PullLeased,        \* the workers share a lease store
          PullAttempts,  \* the worker's limit of consecutive failures
          MaxChanges,    \* bound
          PullBudgets    \* bounds: how many requests (op), failures (fault), refused rows (refused), and
                         \* ticks besides those that find a pull abandoned (pulls)

ASSUME PullAttemptsAssumption == PullAttempts \in Nat \ {0}

VARIABLES
    hr,         \* the HR system: who is listed, and when they last changed; clock
    saved,      \* the core state in the database: dir, conn
    copy,       \* each process's core state
    vault,      \* the connector's credential, in the database and in each process
    pull,       \* the pull state of the connector, and who holds the worker's lease
    worker,     \* what each process's worker is doing
    marks,      \* fresh: who has seen the last save; dirty: a save took back what another process had
                \* saved, and no full pull has mended it; during: the workers that were at work then
    pullLeft    \* what is left of the bounds

pullVars == <<hr, saved, copy, vault, pull, worker, marks, pullLeft>>

Never == -1
NoRow == [at |-> Never, on |-> FALSE]

\* A person's row of the directory, as it was taken from the HR system.  ref is for the properties: when
\* the pull began that refused the person last, if no row of theirs was taken since.
Taken(r) == [at |-> r.at, on |-> r.on, ref |-> Never]
RefusedAt(d, now) == [at |-> d.at, on |-> d.on, ref |-> now]
Inactive(d) == [at |-> d.at, on |-> FALSE, ref |-> d.ref]
Idle == [pc |-> "idle"]
Nobody == "nobody"

PullMay(ok) == ~ok => pullLeft.fault > 0
PullCost(ok) == pullLeft' = IF ok THEN pullLeft ELSE [pullLeft EXCEPT !.fault = @ - 1]
PullAskSaving(ok) == /\ pullLeft.op > 0 /\ PullMay(ok)
                     /\ pullLeft' = [pullLeft EXCEPT !.op = @ - 1, !.fault = IF ok THEN @ ELSE @ - 1]

(* --------------------------- the core state ---------------------------- *)

Busy(p) == worker[p].pc # "idle"

\* persistLocked of a process whose state becomes c: what others saved since it was read is gone.
saveCore(p, c, ok) ==
    /\ copy' = [copy EXCEPT ![p] = c]
    /\ saved' = IF ok THEN c ELSE saved
    /\ marks' = IF ~ok THEN marks
                ELSE IF p \in marks.fresh THEN [marks EXCEPT !.fresh = {p}]
                ELSE [fresh |-> {p}, dirty |-> TRUE, during |-> {q \in PullProcs : Busy(q)}]

(* ------------------------- connectors and secrets ---------------------- *)

\* The vault is not refreshed: a process knows the secrets it stored or found when it started.
UpsertSecret(p, value, ok) ==
    vault' = [saved |-> IF ok THEN value ELSE vault.saved, in |-> [vault.in EXCEPT ![p] = value]]

upsertEnterpriseHRISSecret == \E p \in PullProcs, value \in {"good", "wrong"}, ok \in BOOLEAN :
    /\ PullAskSaving(ok) /\ UpsertSecret(p, value, ok)
    /\ UNCHANGED <<hr, saved, copy, pull, worker, marks>>

\* The secret is stored before the connector is looked at: a request that is refused has changed it.
materializeSecrets(p, value) == IF value = "keep" THEN UNCHANGED vault ELSE UpsertSecret(p, value, TRUE)

CreateHRISConnector(c, st) == [c EXCEPT !.conn = [st |-> st, last |-> Never]]

createEnterpriseHRISConnector == \E p \in PullProcs, st \in {"active", "disabled"}, value \in {"keep", "good"}, ok \in BOOLEAN :
    /\ PullAskSaving(ok)
    /\ materializeSecrets(p, value)
    /\ IF copy[p].conn.st = "none" THEN saveCore(p, CreateHRISConnector(copy[p], st), ok)
       ELSE ok /\ UNCHANGED <<saved, copy, marks>>
    /\ UNCHANGED <<hr, pull, worker>>

UpdateHRISConnector(c, st) == [c EXCEPT !.conn.st = st]

updateEnterpriseHRISConnector == \E p \in PullProcs, st \in {"active", "disabled"}, value \in {"keep", "good"}, ok \in BOOLEAN :
    /\ PullAskSaving(ok)
    /\ copy[p].conn.st # "none"
    /\ materializeSecrets(p, value)
    /\ saveCore(p, UpdateHRISConnector(copy[p], st), ok)
    /\ UNCHANGED <<hr, pull, worker>>

\* A webhook's employee is written to the directory (HrisReceipts has its way there), or refused; the
\* state is saved all the same.
Row(s) == hr.who[s]
webhookSync == \E p \in PullProcs, s \in Staff, refused \in BOOLEAN, ok \in BOOLEAN :
    /\ PullAskSaving(ok)
    /\ Row(s).at # Never
    /\ saveCore(p, [copy[p] EXCEPT !.dir[s] = IF refused THEN @ ELSE Taken(Row(s))], ok)
    /\ UNCHANGED <<hr, vault, pull, worker>>

\* Somebody joins, changes, leaves or comes back.
HrChanges == \E s \in Staff, on \in BOOLEAN :
    /\ hr.clock < MaxChanges
    /\ on \/ hr.who[s].on
    /\ hr' = [who |-> [hr.who EXCEPT ![s] = [at |-> hr.clock + 1, on |-> on]], clock |-> hr.clock + 1]
    /\ UNCHANGED <<saved, copy, vault, pull, worker, marks, pullLeft>>

(* ----------------------------- the pull state -------------------------- *)

\* A slip: a pull that runs is never taken over.
claimable_Bug(owners) == pull.st \in {"idle", "succeeded"} \/ (pull.st = "failed" /\ pull.fails < PullAttempts)

\* ClaimStateForPullWithBackoff: the cooldown of a failure has passed by then; one that runs is taken
\* over when its processing timeout has passed, which may find its worker still at work.
claimable(owners) ==
    \/ pull.st \in {"idle", "succeeded"}
    \/ pull.st = "failed" /\ pull.fails < PullAttempts
    \/ pull.st = "running" /\ (owners = {} \/ pullLeft.fault > 0)

\* A slip: the time when the pull ended, not when it began.
MarkSucceeded_Bug(mode, now) ==
    [pull EXCEPT !.st = "succeeded", !.fails = 0, !.cursor = hr.clock, !.full = IF mode = "full" THEN hr.clock ELSE @]

MarkSucceeded(mode, now) ==
    [pull EXCEPT !.st = "succeeded", !.fails = 0, !.cursor = now, !.full = IF mode = "full" THEN now ELSE @]
MarkFailed == [pull EXCEPT !.st = "failed", !.fails = @ + 1]
MarkStarted == [pull EXCEPT !.st = "running"]

(* -------------------------------- the worker --------------------------- *)

Work(p, x) == worker' = [worker EXCEPT ![p] = x]
Step(p, pc) == Work(p, [worker[p] EXCEPT !.pc = pc])

\* Workers that go on with a pull they claimed, and a pull that nobody goes on with.
Pulling(p) == worker[p].pc \in {"read", "apply", "synced", "succeed", "fail"}
Abandoned == pull.st = "running" /\ \A p \in PullProcs : ~Pulling(p)

\* enterpriseHRISPullConnectorCandidate.
candidate(conn) == conn.st = "active"

lastFullSuccess(conn) == IF pull.full # Never THEN pull.full
                         ELSE IF pull.cursor = Never THEN conn.last ELSE Never

\* enterpriseHRISPullMode; a full pull is due when the reconcile interval has passed.
pullMode(conn, due) ==
    IF (conn.last = Never /\ pull.cursor = Never) \/ lastFullSuccess(conn) = Never \/ due THEN "full" ELSE "incremental"

\* A tick: the lease, if there is one, then the shared state and the mode.
startPullTick(p) == \E due \in BOOLEAN :
    /\ ~Busy(p) /\ pull.lease = Nobody
    /\ Abandoned \/ pullLeft.pulls > 0
    /\ pullLeft' = [pullLeft EXCEPT !.pulls = IF Abandoned THEN @ ELSE @ - 1]
    /\ candidate(saved.conn)
    /\ copy' = [copy EXCEPT ![p] = saved]
    /\ Work(p, [pc |-> "claim", now |-> hr.clock, mode |-> pullMode(saved.conn, due), seen |-> pull.cursor, cursor |-> Never, list |-> <<>>])
    /\ pull' = IF PullLeased THEN [pull EXCEPT !.lease = p] ELSE pull
    /\ marks' = [marks EXCEPT !.fresh = @ \cup {p}, !.during = @ \ {p}]
    /\ UNCHANGED <<hr, saved, vault>>

\* The lease is given back if it is still this process's.
Released(p, s) == [s EXCEPT !.lease = IF @ = p THEN Nobody ELSE @]
EndTick(p, s) == pull' = Released(p, s) /\ Work(p, Idle)

claimPull(p) ==
    LET owners == {q \in PullProcs : q # p /\ Pulling(q)}
        takes == claimable(owners)
    IN  /\ worker[p].pc = "claim"
        /\ PullCost(~takes \/ pull.st # "running" \/ owners = {})
        /\ IF takes
           THEN pull' = MarkStarted /\ Work(p, [worker[p] EXCEPT !.pc = "read", !.cursor = pull.cursor])
           ELSE EndTick(p, pull)
        /\ UNCHANGED <<hr, saved, copy, vault, marks>>

\* Pull: a full list has everybody, an incremental one who changed since the last success and before now.
Listed(mode, cursor, now) ==
    {s \in Staff : hr.who[s].on /\ (mode = "incremental" => hr.who[s].at \in (cursor + 1)..now)}

\* The credential, the mode again, the list.  Without a last success there is no incremental list: the
\* state that was read before the claim decides.
readPull(p) == \E ok \in BOOLEAN :
    LET w == worker[p]
        mode == IF w.seen = Never THEN "full" ELSE w.mode
        people == Listed(mode, w.cursor, w.now)
    IN  /\ w.pc = "read"
        /\ PullMay(ok) /\ PullCost(ok)
        /\ IF ok /\ vault.in[p] = "good"
           THEN Work(p, [w EXCEPT !.pc = "apply", !.mode = mode, !.list = [s \in people |-> Row(s)]])
           ELSE Step(p, "fail")
        /\ UNCHANGED <<hr, saved, copy, vault, pull, marks>>

\* buildEnterpriseHRISPullReconcileInputs: whoever is in the list and, if it is a full one, is active in
\* the directory and not in the list.
inputs(dir, list, mode) == DOMAIN list \cup {s \in Staff : mode = "full" /\ dir[s].on}

\* syncEmployeesLocked: the rows of the list are taken and who is not in a full one is inactive, but for
\* those it refuses: without a good email, outside the tenant's domains, or two people in one.
reconciled(dir, list, mode, now, refused) ==
    [s \in Staff |-> IF s \in refused THEN RefusedAt(dir[s], now)
                     ELSE IF s \in DOMAIN list THEN Taken(list[s])
                     ELSE IF mode = "full" THEN Inactive(dir[s]) ELSE dir[s]]

\* SyncEmployeesWithAccessUpsertMetadata: saved, and taken back if the access service refuses.  A refused
\* row is no error.  Without an input nothing is done.
applyPull(p) ==
    LET w == worker[p]
        all == inputs(copy[p].dir, w.list, w.mode)
        next(refused) == [copy[p] EXCEPT !.dir = reconciled(@, w.list, w.mode, w.now, refused)]
    IN  /\ w.pc = "apply"
        /\ \/ all = {} /\ Step(p, "synced") /\ UNCHANGED <<saved, copy, marks, pullLeft>>
           \/ \E result \in {"taken", "not saved", "rolled back"}, refused \in SUBSET all :
                 /\ all # {}
                 /\ PullMay(result = "taken") /\ Cardinality(refused) <= pullLeft.refused
                 /\ pullLeft' = [pullLeft EXCEPT !.fault = IF result = "taken" THEN @ ELSE @ - 1,
                                                 !.refused = @ - Cardinality(refused)]
                 /\ saveCore(p, IF result = "rolled back" THEN copy[p] ELSE next(refused), result # "not saved")
                 /\ Step(p, IF result = "taken" THEN "synced" ELSE "fail")
        /\ UNCHANGED <<hr, vault, pull>>

MarkHRISConnectorSynced(p) == \E ok \in BOOLEAN :
    /\ worker[p].pc = "synced"
    /\ PullMay(ok) /\ PullCost(ok)
    /\ saveCore(p, [copy[p] EXCEPT !.conn.last = worker[p].now], ok)
    /\ Step(p, IF ok THEN "succeed" ELSE "fail")
    /\ UNCHANGED <<hr, vault, pull>>

succeedPull(p) == \E ok \in BOOLEAN :
    LET w == worker[p]
    IN  /\ w.pc = "succeed"
        /\ PullMay(ok) /\ PullCost(ok)
        /\ IF ok THEN EndTick(p, MarkSucceeded(w.mode, w.now)) ELSE Step(p, "fail") /\ UNCHANGED pull
        /\ marks' = IF ok /\ w.mode = "full" /\ p \notin marks.during THEN [marks EXCEPT !.dirty = FALSE] ELSE marks
        /\ UNCHANGED <<hr, saved, copy, vault>>

\* What the database refuses to note is not noted: the pull counts as running until its timeout.
failPull(p) == \E ok \in BOOLEAN :
    /\ worker[p].pc = "fail"
    /\ PullMay(ok) /\ PullCost(ok)
    /\ EndTick(p, IF ok THEN MarkFailed ELSE pull)
    /\ UNCHANGED <<hr, saved, copy, vault, marks>>

(* ------------------------------ specification -------------------------- *)

\* The lease's time is over: its holder may have crashed, or be late.
PullLeaseLapses ==
    /\ pull.lease # Nobody
    /\ IF Busy(pull.lease) THEN PullMay(FALSE) /\ PullCost(FALSE) ELSE UNCHANGED pullLeft
    /\ pull' = [pull EXCEPT !.lease = Nobody]
    /\ UNCHANGED <<hr, saved, copy, vault, worker, marks>>

PullCrash(p) ==
    /\ PullMay(FALSE) /\ PullCost(FALSE)
    /\ copy' = [copy EXCEPT ![p] = saved]
    /\ vault' = [vault EXCEPT !.in[p] = vault.saved]
    /\ Work(p, Idle)
    /\ marks' = [marks EXCEPT !.fresh = @ \cup {p}]
    /\ UNCHANGED <<hr, saved, pull>>

PullInit ==
    /\ hr = [who |-> [s \in Staff |-> NoRow], clock |-> 0]
    /\ \E conn \in {"none", "active"} :
          saved = [dir |-> [s \in Staff |-> Taken(NoRow)], conn |-> [st |-> conn, last |-> Never]]
    /\ copy = [p \in PullProcs |-> saved]
    /\ vault = [saved |-> "good", in |-> [p \in PullProcs |-> "good"]]
    /\ pull = [st |-> "idle", fails |-> 0, cursor |-> Never, full |-> Never, lease |-> Nobody]
    /\ worker = [p \in PullProcs |-> Idle]
    /\ marks = [fresh |-> PullProcs, dirty |-> FALSE, during |-> {}]
    /\ pullLeft \in PullBudgets

PullSteps(p) ==
    \/ claimPull(p)
    \/ readPull(p)
    \/ applyPull(p)
    \/ MarkHRISConnectorSynced(p)
    \/ succeedPull(p)
    \/ failPull(p)

PullNext ==
    \/ upsertEnterpriseHRISSecret
    \/ createEnterpriseHRISConnector
    \/ updateEnterpriseHRISConnector
    \/ webhookSync
    \/ HrChanges
    \/ \E p \in PullProcs : startPullTick(p) \/ PullSteps(p) \/ PullCrash(p)
    \/ PullLeaseLapses

PullSpec == PullInit /\ [][PullNext]_pullVars

(* ------------------------------- properties ---------------------------- *)

(***************************************************************************)
(* The cursor of a connector never passes a change that the directory does *)
(* not have: what the HR system says of a person who changed before the    *)
(* last success is in the directory, and who left before the last full one *)
(* is inactive there.  Through failures, crashes, takeovers and lapsed     *)
(* leases.  Except of a person whom a pull since that change refused, as   *)
(* refused rows do not hold the cursor back; and until the next full pull  *)
(* after a process has saved an old copy of the core state.                *)
(***************************************************************************)
CursorCovers ==
    ~marks.dirty => \A s \in Staff : LET r == hr.who[s] d == saved.dir[s] IN
        /\ r.on /\ r.at <= pull.cursor => (d.at = r.at /\ d.on) \/ d.ref >= r.at
        /\ ~r.on /\ r.at <= pull.full => ~d.on \/ d.ref >= r.at

(***************************************************************************)
(* A pull that runs comes to an end, whoever claimed it, unless somebody   *)
(* disables the connector meanwhile.                                       *)
(***************************************************************************)
PullSettles == pull.st = "running" ~> (pull.st # "running" \/ ~candidate(saved.conn))
=============================================================================
