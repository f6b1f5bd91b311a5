----------------------------- MODULE SyncAlerts -----------------------------
(***************************************************************************)
(* The notifications the enterprise service sends about its own workers    *)
(* (sync_worker_alert_dispatch.go), behind their HTTP handlers and the     *)
(* auto-retry worker.  Several API processes share one snapshot; each      *)
(* reads it, decides, claims the lineage by a flight in the snapshot,      *)
(* calls the provider and writes the outcome, holding only its own lock.   *)
(* Every write is a load, a change and a compare-and-swap that runs again  *)
(* when another process was faster.  It is one step here, except for the   *)
(* claim of a flight, which remembers what it found in the runs before.    *)
(* One tenant and one fingerprint: one worker action of one connector,     *)
(* whose lineages differ in the request they are about.  With one          *)
(* fingerprint a batch has one notification to work on.  An instant is a   *)
(* choice: whether it has come when it is compared.                        *)
(***************************************************************************)
EXTENDS Integers, Sequences, FiniteSets, TLC
X == INSTANCE FiniteSetsExt

CONSTANTS Procs,                                     \* the API processes
          Lineages,                                  \* the requests alerts are about
          MaxAttempts,                               \* of the auto-retry worker
          AlertBudgets                               \* bounds: how many requests that send (op) and that do
                                                     \* not (edit); failed saves, crashes, stalls (fault)

ASSUME AttemptsAssumption == MaxAttempts \in Nat \ {0}

VARIABLES
    snap,    \* the snapshot: log (newest first), flights, cool, on
    proc,    \* what each process is doing
    lease,   \* the process that holds the lease of the auto-retry worker
    fresh,   \* the next notification id
    ahist,   \* what the properties remember
    left     \* what is left of the bounds

alertVars == <<snap, proc, lease, fresh, ahist, left>>

NoProc == "none"
Rest == [pc |-> "idle"]

(* ------------------------- notifications and flights ------------------- *)

\* The newest record of a lineage, found in the log by its key, and all of them.
OfLineage(log, l) == SelectSeq(log, LAMBDA r : r.line = l)
latest(log, l) == OfLineage(log, l)[1]
hasSent(log, l) == \E i \in DOMAIN log : log[i].line = l /\ log[i].st = "sent"
nextAttempt(log, l) == 1 + X!Max({0} \cup {log[i].attempt : i \in {j \in DOMAIN log : log[j].line = l}})
Knows(log, id) == \E i \in DOMAIN log : log[i].id = id
find(log, id) == log[X!Min({i \in DOMAIN log : log[i].id = id})]

\* A notification gets its id when it is claimed or, unclaimed, when it is recorded.
Unnamed == 0

Note(id, l, st, why, attempt) ==
    [id |-> id, line |-> l, st |-> st, why |-> why, again |-> FALSE, attempt |-> attempt, sent |-> FALSE]

\* buildSyncWorkerAlertRetryRecord: an attempt at the same alert.
Attempt(l, attempt) == Note(Unnamed, l, "ready", "", attempt)

\* Waiting for its next attempt: failed, retryable, with a time.
isDue(r) == r.st = "failed" /\ r.again
isPending(r) == isDue(r) /\ r.why = "dispatch_commit_unknown"

\* recoverExpiredSyncWorkerAlertInFlightLocked: a flight nobody finished says so in the log.
recovered(f) == [f.note EXCEPT !.st = "failed", !.why = "dispatch_commit_unknown", !.again = TRUE, !.sent = FALSE]

\* The k-th number of a set.
Nth(I, k) == CHOOSE i \in I : Cardinality({j \in I : j < i}) = k - 1

\* recoverExpiredSyncWorkerAlertInFlightsLocked: the expired flights the log does not know of, the
\* newest first, which is the one claimed last.
recoverExpired(s) ==
    LET lost == {f \in s.flights : f.expired /\ ~Knows(s.log, f.note.id)}
        ids == {f.note.id : f \in lost}
        n == Cardinality(ids)
        with(id) == CHOOSE f \in lost : f.note.id = id
    IN  [s EXCEPT !.log = [i \in 1..n |-> recovered(with(Nth(ids, n + 1 - i)))] \o @,
                  !.cool = @ \/ lost # {}]

pruneExpired(s) == [s EXCEPT !.flights = {f \in @ : ~f.expired}]

\* Two slips: an expired flight is dropped and not recovered, or recovered and not dropped.
refresh_Bug(s) == pruneExpired(s)

refresh_BugKept(s) == recoverExpired(s)

refresh(s) == pruneExpired(recoverExpired(s))

\* A slip: any flight may be added.
acquirable_Bug(s, l) == TRUE

\* hasActiveSyncWorkerAlertDispatchFlightLocked.  The flights that had expired when the request
\* began are gone since its refresh; one that expired since then counts as active.
acquirable(s, l) == \A f \in s.flights : f.note.line # l

acquire(s, r) == [s EXCEPT !.flights = @ \cup {[note |-> r, expired |-> FALSE]}]

\* The flight is released by its token, the notification prepended, a sent one starts the cooldown.
finalize(s, r) ==
    [s EXCEPT !.flights = {f \in @ : f.note.id # r.id},
              !.log = <<r>> \o @,
              !.cool = @ \/ r.st = "sent"]

(* ------------------------------- bookkeeping --------------------------- *)

Working(p) == proc[p].pc # "idle"

Set(p, x) == proc' = [proc EXCEPT ![p] = x]
Mark(p) == lease' = IF lease = p /\ proc[p].kind = "tick" THEN NoProc ELSE lease
Done(p) == Set(p, Rest) /\ Mark(p)

ArriveAs(p, kind, x) ==
    /\ proc[p] = Rest /\ left[kind] > 0
    /\ left' = [left EXCEPT ![kind] = @ - 1]
    /\ Set(p, x)
    /\ UNCHANGED lease

Arrive(p, x) == ArriveAs(p, "op", x)
Answered(p) == ArriveAs(p, "edit", Rest)

(* ----------------------------- reconciliation -------------------------- *)

\* ConfirmAlertDelivery asks the providers of the channels that are recorded as sent, and a
\* recovered notification records every channel as failed.
ConfirmAlertDelivery(r) == IF r.sent THEN "confirmed" ELSE "pending"

\* finalizeSyncWorkerAlertConfirmationOutcome: confirmed, out of time, or nothing yet.
settles(r, late) == ConfirmAlertDelivery(r) = "confirmed" \/ late
outcome(r, id) ==
    IF ConfirmAlertDelivery(r) = "confirmed"
    THEN [r EXCEPT !.id = id, !.st = "sent", !.why = "dispatch_commit_confirmed", !.again = FALSE]
    ELSE [r EXCEPT !.id = id, !.why = "dispatch_commit_confirmation_timeout"]

\* ConfirmSyncWorkerAlertNotifications: the newest record of each lineage that waits to be
\* confirmed, oldest lineages last.  Every request for notifications begins with it.
ConfirmSyncWorkerAlertNotifications(s) == \E late \in BOOLEAN :
    LET log == s.log
        firsts == {i \in DOMAIN log : isPending(log[i]) /\ \A j \in 1..(i - 1) : log[j].line # log[i].line}
        settled == {i \in firsts : settles(log[i], late)}
        n == Cardinality(settled)
        new == [k \in 1..n |-> outcome(log[Nth(settled, k)], fresh + k - 1)]
    IN  /\ late => firsts # {}
        /\ snap' = [s EXCEPT !.log = new \o @,
                             !.cool = @ \/ \E k \in 1..n : new[k].st = "sent"]
        /\ fresh' = fresh + n
        /\ UNCHANGED ahist

(* --------------------------------- requests ---------------------------- *)

\* The subscription is read (and the state refreshed with it) before anything else.
dispatchEnterpriseSyncWorkerAlerts(p) == \E l \in Lineages :
    /\ Arrive(p, [pc |-> "ready", kind |-> "dispatch", line |-> l, on |-> snap.on])
    /\ ConfirmSyncWorkerAlertNotifications(refresh(snap))

retryEnterpriseSyncWorkerAlertNotification(p) == \E i \in DOMAIN snap.log :
    /\ Arrive(p, [pc |-> "ready", kind |-> "retry", id |-> snap.log[i].id])
    /\ ConfirmSyncWorkerAlertNotifications(snap)

retryEnterpriseSyncWorkerAlertNotificationsBatch(p) == \E i \in DOMAIN snap.log :
    /\ Arrive(p, [pc |-> "ready", kind |-> "retry", id |-> snap.log[i].id])
    /\ ConfirmSyncWorkerAlertNotifications(snap)

autoRetryEnterpriseSyncWorkerAlertNotifications(p) ==
    /\ Arrive(p, [pc |-> "ready", kind |-> "auto"])
    /\ ConfirmSyncWorkerAlertNotifications(snap)

\* A list or an export confirms what is pending and lists what there is after a refresh.
ListSyncWorkerAlertNotificationPage(s) == refresh(s)

listEnterpriseSyncWorkerAlertNotifications(p) ==
    /\ Answered(p)
    /\ ConfirmSyncWorkerAlertNotifications(ListSyncWorkerAlertNotificationPage(snap))

exportEnterpriseSyncWorkerAlertNotificationsCSV(p) ==
    /\ Answered(p)
    /\ ConfirmSyncWorkerAlertNotifications(ListSyncWorkerAlertNotificationPage(snap))

\* What the subscription keeps of the one before is not told apart here.
UpsertSyncWorkerAlertSubscription(s, on) == [s EXCEPT !.on = on]

upsertEnterpriseSyncWorkerAlertSubscription(p) == \E on \in BOOLEAN :
    /\ Answered(p)
    /\ snap' = UpsertSyncWorkerAlertSubscription(refresh(snap), on)
    /\ UNCHANGED <<fresh, ahist>>

BatchSuppressSyncWorkerAlertNotifications(s, r, id) ==
    [s EXCEPT !.log = <<Note(id, r.line, "skipped", "manual_suppressed", nextAttempt(@, r.line))>> \o @]

suppressEnterpriseSyncWorkerAlertNotificationsBatch(p) == \E i \in DOMAIN snap.log :
    LET r == snap.log[i]
    IN  /\ Answered(p)
        /\ r.st = "failed" /\ latest(snap.log, r.line).id = r.id
        /\ snap' = BatchSuppressSyncWorkerAlertNotifications(snap, r, fresh)
        /\ fresh' = fresh + 1
        /\ UNCHANGED ahist

\* Only a suppression that is the newest record of a lineage never sent is ready.
restoreReady(log, r) ==
    /\ r.st = "skipped" /\ r.why = "manual_suppressed"
    /\ latest(log, r.line).id = r.id
    /\ ~hasSent(log, r.line)

BatchRestoreSyncWorkerAlertNotifications(s, r, id) ==
    [s EXCEPT !.log = <<[Note(id, r.line, "failed", "manual_suppressed_restored", nextAttempt(@, r.line))
                            EXCEPT !.again = TRUE]>> \o @]

restoreEnterpriseSyncWorkerAlertNotificationsBatch(p) == \E i \in DOMAIN snap.log :
    LET r == snap.log[i]
        s == refresh(snap)
    IN  /\ Answered(p)
        /\ restoreReady(s.log, r)
        /\ snap' = BatchRestoreSyncWorkerAlertNotifications(s, r, fresh)
        /\ fresh' = fresh + 1
        /\ UNCHANGED ahist

\* The worker's tick: the lease, the tenants with something due, then an automatic retry.
pendingSyncWorkerAlertAutoRetryTenantIDs(s) == \E i \in DOMAIN s.log : isDue(s.log[i])

runEnterpriseSyncWorkerAlertAutoRetryWorkerTickWithLease(p) ==
    /\ proc[p] = Rest /\ lease = NoProc
    /\ snap' = refresh(snap)
    /\ IF pendingSyncWorkerAlertAutoRetryTenantIDs(snap')
       THEN lease' = p /\ Set(p, [pc |-> "ready", kind |-> "tick"])
       ELSE snap' # snap /\ UNCHANGED <<lease, proc>>
    /\ UNCHANGED <<fresh, ahist, left>>

(* ------------------------- dispatch and retry -------------------------- *)

Try(p, r) ==
    /\ Set(p, [pc |-> "acquire", kind |-> proc[p].kind, note |-> r, got |-> FALSE])
    /\ UNCHANGED lease

Write(p, r) ==
    /\ Set(p, [pc |-> "record", kind |-> proc[p].kind, note |-> r])
    /\ UNCHANGED lease

retryAllowed(log, r) == isDue(r) /\ latest(log, r.line).id = r.id

\* retrySyncWorkerAlertNotificationLocked, up to the flight.
Retry(p, log, r) ==
    IF ~retryAllowed(log, r) THEN Done(p)
    ELSE IF hasSent(log, r.line) THEN Write(p, Note(Unnamed, r.line, "skipped", "idempotent_already_sent", 0))
    ELSE Try(p, Attempt(r.line, nextAttempt(log, r.line)))

\* Plan: a subscription that is off or a cooldown that runs skips the alert.
Plan(on, cooling) == IF ~on THEN "subscription_disabled" ELSE IF cooling THEN "cooldown" ELSE "ready"

\* hasPendingSyncWorkerAlertRecoveryLocked.
hasPending(log, l) == OfLineage(log, l) # <<>> /\ isPending(latest(log, l))

\* DispatchSyncWorkerAlerts for one alert: Plan, then what is pending for its lineage.
Dispatch(p, s, l, on, cooling) ==
    IF Plan(on, cooling) # "ready" THEN Write(p, Note(Unnamed, l, "skipped", Plan(on, cooling), 0))
    ELSE IF hasPending(s.log, l) THEN Done(p)
    ELSE Try(p, Attempt(l, nextAttempt(s.log, l)))

\* AutoRetrySyncWorkerAlertNotifications: the newest notification of the fingerprint only.
AutoRetry(p, log) ==
    IF log = <<>> \/ ~isDue(log[1]) THEN Done(p)
    ELSE IF log[1].attempt >= MaxAttempts
    THEN Write(p, Note(Unnamed, log[1].line, "skipped", "auto_retry_attempt_limit", nextAttempt(log, log[1].line)))
    ELSE Retry(p, log, log[1])

\* The process takes its lock, refreshes, and decides on what it has read.
Decide(p) == \E cooling \in BOOLEAN :
    LET s == refresh(snap)
    IN  /\ proc[p].pc = "ready"
        /\ cooling => proc[p].kind = "dispatch" /\ s.cool
        /\ snap' = s
        /\ CASE proc[p].kind = "dispatch" -> Dispatch(p, s, proc[p].line, proc[p].on, cooling)
             [] proc[p].kind = "retry" -> Retry(p, s.log, find(s.log, proc[p].id))
             [] proc[p].kind \in {"auto", "tick"} -> AutoRetry(p, s.log)
        /\ UNCHANGED <<fresh, ahist, left>>

\* What is stored: whether a flight has expired is a matter of the clock.
content(s) == [s EXCEPT !.flights = {f.note : f \in @}]

\* The snapshot is loaded and the flight added to it, if the lineage has none: then it counts as acquired,
\* now and in every run after this one.
acquireSyncWorkerAlertDispatchFlight(p) ==
    LET x == proc[p]
    IN  /\ x.pc = "acquire"
        /\ Set(p, [pc |-> "swap", kind |-> x.kind, note |-> x.note,
                   got |-> x.got \/ acquirable(snap, x.note.line), read |-> content(snap)])
        /\ UNCHANGED <<snap, lease, fresh, ahist, left>>

\* mutateSyncWorkerAlertStateLocked, the swap.  Where it is lost the change runs again on what is stored
\* by then, or all attempts were used up.  The call begins if the flight was acquired in any run, even if
\* there is none in what was stored at last (bare).
swapSyncWorkerAlertState(p) ==
    LET x == proc[p]
        r == [x.note EXCEPT !.id = fresh]
        free == acquirable(snap, r.line)
    IN  /\ x.pc = "swap"
        /\ IF content(snap) # x.read
           THEN /\ \/ Set(p, [pc |-> "acquire", kind |-> x.kind, note |-> x.note, got |-> x.got]) /\ UNCHANGED lease
                   \/ Done(p)
                /\ UNCHANGED <<snap, fresh, ahist>>
           ELSE IF free \/ x.got
           THEN /\ snap' = IF free THEN acquire(snap, r) ELSE snap
                /\ Set(p, [pc |-> "call", kind |-> x.kind, note |-> r]) /\ UNCHANGED lease
                /\ fresh' = fresh + 1
                /\ ahist' = [ahist EXCEPT !.called = @ \cup {fresh}, !.bare = IF free THEN @ ELSE @ \cup {fresh}]
           ELSE Done(p) /\ UNCHANGED <<snap, fresh, ahist>>
        /\ UNCHANGED left

\* What a channel answers: sent, failed for good, or failed for now.
dispatchAlertEmailMessage == {"sent", "provider_error", "provider_transient_error"}
dispatchAlertWhatsAppMessage == {"sent", "provider_error", "provider_transient_error"}

summarizeJobAlertChannelResults(n, results) ==
    IF "sent" \in results THEN [n EXCEPT !.st = "sent", !.sent = TRUE]
    ELSE [n EXCEPT !.st = "failed", !.again = "provider_transient_error" \in results]

DispatchAlert(p) == \E email \in dispatchAlertEmailMessage, whatsApp \in dispatchAlertWhatsAppMessage :
    /\ proc[p].pc = "call"
    /\ Set(p, [pc |-> "record", kind |-> proc[p].kind,
               note |-> summarizeJobAlertChannelResults(proc[p].note, {email, whatsApp})])
    /\ UNCHANGED <<snap, lease, fresh, ahist, left>>

finalizeSyncWorkerAlertDispatchFlights(p) ==
    /\ proc[p].pc = "record"
    /\ LET n == proc[p].note
       IN  IF n.id = Unnamed
           THEN snap' = finalize(snap, [n EXCEPT !.id = fresh]) /\ fresh' = fresh + 1
           ELSE snap' = finalize(snap, n) /\ UNCHANGED fresh
    /\ Done(p)
    /\ UNCHANGED <<ahist, left>>

(* ------------------------------ the world ------------------------------ *)

\* Five minutes have passed since a flight was acquired: its process is gone, or is that late.
Held(f) == \E p \in Procs : proc[p].pc \in {"call", "record"} /\ proc[p].note.id = f.note.id
Leased(p) == proc[p].pc # "idle" /\ proc[p].kind = "tick"

Late(held) == (held => left.fault > 0) /\ left' = IF held THEN [left EXCEPT !.fault = @ - 1] ELSE left

FlightExpires == \E f \in snap.flights :
    /\ ~f.expired
    /\ Late(Held(f))
    /\ snap' = [snap EXCEPT !.flights = (@ \ {f}) \cup {[f EXCEPT !.expired = TRUE]}]
    /\ ahist' = [ahist EXCEPT !.late = @ \cup {f.note.id}]
    /\ UNCHANGED <<proc, lease, fresh>>

LeaseExpires ==
    /\ lease # NoProc
    /\ Late(Leased(lease))
    /\ lease' = NoProc
    /\ UNCHANGED <<snap, proc, fresh, ahist>>

\* A load or a save fails: the request is answered with an error.
SaveFails(p) ==
    /\ Working(p) /\ proc[p].pc # "call" /\ left.fault > 0
    /\ left' = [left EXCEPT !.fault = @ - 1]
    /\ Done(p)
    /\ UNCHANGED <<snap, fresh, ahist>>

\* The process stops; what it had claimed stays claimed until it expires.
Stop(p) ==
    /\ Working(p) /\ left.fault > 0
    /\ left' = [left EXCEPT !.fault = @ - 1]
    /\ Set(p, Rest)
    /\ UNCHANGED <<snap, lease, fresh, ahist>>

AlertsInit ==
    /\ snap = [log |-> <<>>, flights |-> {}, cool |-> FALSE, on |-> TRUE]
    /\ proc = [p \in Procs |-> Rest]
    /\ lease = NoProc
    /\ fresh = 1
    /\ ahist = [called |-> {}, bare |-> {}, late |-> {}]
    /\ left \in AlertBudgets

Requests(p) ==
    \/ dispatchEnterpriseSyncWorkerAlerts(p)
    \/ retryEnterpriseSyncWorkerAlertNotification(p)
    \/ retryEnterpriseSyncWorkerAlertNotificationsBatch(p)
    \/ autoRetryEnterpriseSyncWorkerAlertNotifications(p)
    \/ listEnterpriseSyncWorkerAlertNotifications(p)
    \/ exportEnterpriseSyncWorkerAlertNotificationsCSV(p)
    \/ upsertEnterpriseSyncWorkerAlertSubscription(p)
    \/ suppressEnterpriseSyncWorkerAlertNotificationsBatch(p)
    \/ restoreEnterpriseSyncWorkerAlertNotificationsBatch(p)

\* What a process goes on to do without anyone asking.
Steps(p) ==
    \/ Decide(p)
    \/ acquireSyncWorkerAlertDispatchFlight(p)
    \/ swapSyncWorkerAlertState(p)
    \/ DispatchAlert(p)
    \/ finalizeSyncWorkerAlertDispatchFlights(p)

AlertsNext ==
    \/ \E p \in Procs : \/ Requests(p) \/ Steps(p) \/ SaveFails(p) \/ Stop(p)
                        \/ runEnterpriseSyncWorkerAlertAutoRetryWorkerTickWithLease(p)
    \/ FlightExpires
    \/ LeaseExpires

AlertsSpec == AlertsInit /\ [][AlertsNext]_alertVars

(* ------------------------------- properties ---------------------------- *)

(***************************************************************************)
(* Every call of the provider is accounted for: its notification is in the *)
(* log or in a flight that will be recovered into it, wherever the process *)
(* stopped and whichever save failed.  Except a call that began without a  *)
(* flight, after a lost swap.                                              *)
(***************************************************************************)
EveryDispatchAccounted ==
    \A id \in ahist.called \ ahist.bare :
        Knows(snap.log, id) \/ \E f \in snap.flights : f.note.id = id

(***************************************************************************)
(* No two processes are calling the provider for the same lineage, unless  *)
(* the flight of one of them has expired, or one of them was told that it  *)
(* had a flight after it lost a swap and found the lineage claimed.        *)
(***************************************************************************)
OneCallPerLineage ==
    \A p, q \in Procs :
        p # q /\ proc[p].pc = "call" /\ proc[q].pc = "call" /\ proc[p].note.line = proc[q].note.line
        => {proc[p].note.id, proc[q].note.id} \cap (ahist.late \cup ahist.bare) # {}

(***************************************************************************)
(* A notification that is the newest of its fingerprint and due does not   *)
(* stay so: the worker's ticks try it again until it is sent, fails for    *)
(* good or reaches the limit of attempts, whatever flights a process left. *)
(***************************************************************************)
HeadDue == snap.log # <<>> /\ isDue(snap.log[1])
DueSettles == HeadDue ~> ~HeadDue
=============================================================================
