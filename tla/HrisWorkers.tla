---------------------------- MODULE HrisWorkers ----------------------------
\* The HRIS webhook pipeline of the API servers: the webhook endpoint and the
\* operator endpoints (http/routes_enterprise_hris.go), and the receipt and
\* dead-letter workers (http/router_workers_hris.go), on the shared stores of
\* HrisReceipts and HrisDlq and the Redis queues of WorkerQueue.
\*
\* A process of Procs is a request, a dispatched goroutine or a worker tick; it
\* is idle or somewhere between two calls to a store (pc). A tick has a batch of
\* one item. The batch endpoints run the single operation for every item of the
\* batch, so they add no behaviour to the single ones.
EXTENDS HrisReceipts, HrisDlq, WorkerQueue

CONSTANTS Procs,
          WorkerConfigs, \* the sets of workers a deployment may enable
          MaxFaults,   \* crashes of a process and failed calls to a store
          MaxLate,     \* timeouts that pass while the work they guard goes on
          MaxManual,   \* operator requests
          MaxTotal     \* all three together

ASSUME WorkerConfigsTyped == WorkerConfigs \subseteq SUBSET Kinds
ASSUME HrisFinite == IsFiniteSet(Procs) /\ IsFiniteSet(Execs) /\ IsFiniteSet(Entries)
ASSUME HrisLimits == MaxFaults \in Nat /\ MaxLate \in Nat /\ MaxManual \in Nat /\ MaxTotal \in Nat
ASSUME HrisNoZero == 0 \notin Receipts \* 0 stands for no receipt

VARIABLES workers,   \* the workers the configuration enables: a subset of Kinds
          procs,     \* what each process is doing
          queues,    \* the Redis queue of each kind
          lease,     \* the process that holds each worker's lease, or NoProc
          lastExec,  \* the last execution id used
          left,      \* what is left of the three bounds
          handled,   \* history: how often a receipt was applied to the directory, or skipped
          unfiled,   \* history: receipts whose dead letter could not be stored
          overlapped \* history: receipts two processes had claimed at the same time

historyVars == <<handled, unfiled>>
hrisVars == <<receipts, executions, entries, workers, procs, queues, lease, lastExec,
          left, handled, unfiled, overlapped>>

NoProc == "none"

\* kind: which worker's tick or execution it is. r: the receipt; e: the dead
\* letter that is replayed (0: none); x: the execution that asked for it
\* (0: none); tok: it holds a queue claim; tick: it is a worker tick; dlq:
\* recordDLQ; was: the execution's status before its claim; ok: the result;
\* orig: the snapshot a failed dispatch writes back; src: the execution replayed.
Idle == [pc |-> "idle", kind |-> "receipt", r |-> 0, e |-> 0, x |-> 0, tok |-> FALSE,
         tick |-> FALSE, dlq |-> FALSE, was |-> "none", ok |-> FALSE,
         orig |-> NoReceipt, src |-> 0]

HrisInit ==
    /\ ReceiptsInit /\ DlqInit
    /\ workers \in WorkerConfigs
    /\ procs = [p \in Procs |-> Idle]
    /\ queues = [k \in Kinds |-> EmptyQueue]
    /\ lease = [k \in Kinds |-> NoProc]
    /\ lastExec = 0
    /\ left = [faults |-> MaxFaults, late |-> MaxLate, manual |-> MaxManual, total |-> MaxTotal]
    /\ handled = [r \in Receipts |-> 0]
    /\ unfiled = {}
    /\ overlapped = {}

At(p, pc) == procs[p].pc = pc
\* The processes that work on a receipt, an entry or an execution (a request to
\* queue work, or a tick that looks at the target of an execution, has no claim of
\* its own yet, and a process that reports a result is done with the receipt).
Busy(p) == ~ At(p, "idle")
OnReceipt(r) == {p \in Procs: procs[p].r = r /\ procs[p].pc \notin {"queue", "target", "requeue", "complete", "ack"}}
OnEntry(e) == {p \in Procs: procs[p].e = e /\ procs[p].pc \notin {"queue", "target", "requeue", "complete", "ack"}}
OnExec(x) == {p \in Procs: Busy(p) /\ procs[p].x = x}

Goto(p, c) ==
    /\ procs' = [procs EXCEPT ![p] = c]
    /\ overlapped' = overlapped \union {r \in Receipts: Cardinality(OnReceipt(r)') > 1}

\* One event of a bounded sort; the result of a call to a store; an operator's
\* request.
Spend(sort) ==
    /\ left[sort] > 0 /\ left.total > 0
    /\ left' = [left EXCEPT ![sort] = @ - 1, !.total = @ - 1]
StoreCall(ok) == IF ok THEN UNCHANGED left ELSE Spend("faults")
ManualCall == Spend("manual")

\* A tick ends with ReleaseLease, which frees the lease only if it is still
\* this tick's; any other process just ends.
EndLease(p) ==
    lease' = IF procs[p].tick /\ lease[procs[p].kind] = p
             THEN [lease EXCEPT ![procs[p].kind] = NoProc] ELSE lease

\* After the receipt: the dead letter, then the execution, then the end.
After(p, c, ok) ==
    IF c.e # 0 /\ c.pc # "redlq" /\ c.pc # "entry"
    THEN Goto(p, [c EXCEPT !.pc = "entry", !.ok = ok, !.dlq = FALSE]) /\ UNCHANGED lease
    ELSE IF c.x # 0
    THEN Goto(p, [c EXCEPT !.pc = "complete", !.ok = ok, !.dlq = FALSE]) /\ UNCHANGED lease
    ELSE Goto(p, Idle) /\ EndLease(p)

\* ------------------ processEnterpriseHRISWebhookReceipt ------------------

\* A receipt that is not processing is marked started; an error is ignored.
StartReceipt(p) ==
    /\ At(p, "start")
    /\ \E ok \in BOOLEAN:
          /\ StoreCall(ok)
          /\ IF ok THEN MarkHRISWebhookReceiptStarted(procs[p].r) ELSE UNCHANGED receipts
    /\ Goto(p, [procs[p] EXCEPT !.pc = "run"])
    /\ UNCHANGED <<executions, entries, workers, queues, lease, lastExec, historyVars>>

\* The normalizer defers the event or does not know it.
SkipReceipt(p) ==
    LET c == procs[p] IN
    /\ At(p, "run")
    /\ \E ok \in BOOLEAN:
          /\ StoreCall(ok)
          /\ IF ok THEN MarkHRISWebhookReceiptSkipped(c.r) ELSE UNCHANGED receipts
    /\ handled' = [handled EXCEPT ![c.r] = @ + 1]
    /\ After(p, c, TRUE)
    /\ UNCHANGED <<executions, entries, workers, queues, lastExec, unfiled>>

\* Mutant: the receipt is marked "dlq" without a dead letter.
FailReceipt_NoAppend(p) ==
    LET c == procs[p] IN
    /\ At(p, "run") /\ c.dlq
    /\ Goto(p, [c EXCEPT !.pc = "markdlq"])
    /\ UNCHANGED <<receiptVars, entries, workers, queues, lease, lastExec, left, historyVars>>

\* Normalize, merge or sync fails: with recordDLQ the failure is appended to the
\* dead letters, and the receipt is marked "dlq" in a later step; when the append
\* fails, or without recordDLQ, the receipt is marked failed.
FailReceipt(p) ==
    LET c == procs[p] IN
    /\ At(p, "run")
    /\ \/ /\ c.dlq /\ AppendFailure(c.r)
          /\ Goto(p, [c EXCEPT !.pc = "markdlq"])
          /\ UNCHANGED <<receipts, left, lease, unfiled>>
       \/ /\ c.dlq
          /\ StoreCall(FALSE)
          /\ MarkHRISWebhookReceiptFailed(c.r)
          /\ unfiled' = unfiled \union {c.r}
          /\ After(p, c, FALSE)
          /\ UNCHANGED entries
       \/ /\ ~ c.dlq
          /\ \E ok \in BOOLEAN:
                /\ StoreCall(ok)
                /\ IF ok THEN MarkHRISWebhookReceiptFailed(c.r) ELSE UNCHANGED receipts
          /\ After(p, c, FALSE)
          /\ UNCHANGED <<entries, unfiled>>
    /\ UNCHANGED <<executions, workers, queues, lastExec, handled>>

\* SyncEmployeesWithAccessUpsertMetadata succeeds.
SyncReceipt(p) ==
    /\ At(p, "run")
    /\ handled' = [handled EXCEPT ![procs[p].r] = @ + 1]
    /\ Goto(p, [procs[p] EXCEPT !.pc = "markok"])
    /\ UNCHANGED <<receiptVars, entries, workers, queues, lease, lastExec, left, unfiled>>

\* The last mark of processEnterpriseHRISWebhookReceipt; its error is ignored.
FinishReceipt(p) ==
    LET c == procs[p] IN
    /\ c.pc \in {"markok", "markdlq"}
    /\ \E ok \in BOOLEAN:
          /\ StoreCall(ok)
          /\ IF ~ ok THEN UNCHANGED receipts
             ELSE IF c.pc = "markok" THEN MarkHRISWebhookReceiptProcessed(c.r)
             ELSE MarkHRISWebhookReceiptDLQ(c.r)
    /\ After(p, c, c.pc = "markok")
    /\ UNCHANGED <<executions, entries, workers, queues, lastExec, historyVars>>

\* -------------- replayEnterpriseHRISWebhookDLQClaimedEntry --------------

\* Read the receipt of the claimed entry and process it without recordDLQ.
ReplayEntry(p) ==
    LET c == procs[p] IN
    /\ At(p, "replay")
    /\ Goto(p, [c EXCEPT !.dlq = FALSE,
                  !.pc = IF receipts[c.r].status = "processing" THEN "run" ELSE "start"])
    /\ UNCHANGED <<receiptVars, entries, workers, queues, lease, lastExec, left, historyVars>>

\* MarkResolved, or MarkReplayFailed and then MarkHRISWebhookReceiptDLQ in a
\* step of its own. When the first mark fails the replay is reported as failed.
EndReplay(p) ==
    LET c == procs[p] IN
    /\ At(p, "entry")
    /\ \E ok \in BOOLEAN:
          /\ StoreCall(ok)
          /\ IF ~ ok THEN UNCHANGED entries
             ELSE IF c.ok THEN MarkResolved(c.e) ELSE MarkReplayFailed(c.e)
          /\ IF ok /\ ~ c.ok
             THEN Goto(p, [c EXCEPT !.pc = "redlq"]) /\ UNCHANGED lease
             ELSE After(p, c, c.ok /\ ok)
    /\ UNCHANGED <<receiptVars, workers, queues, lastExec, historyVars>>

RestoreReceiptDLQ(p) ==
    LET c == procs[p] IN
    /\ At(p, "redlq")
    /\ \E ok \in BOOLEAN:
          /\ StoreCall(ok)
          /\ IF ok THEN MarkHRISWebhookReceiptDLQ(c.r) ELSE UNCHANGED receipts
    /\ After(p, c, FALSE)
    /\ UNCHANGED <<executions, entries, workers, queues, lastExec, historyVars>>

\* ------------------------------ executions ------------------------------

\* completeHRISWebhookReceiptExecution reads the receipt again: without an error
\* the execution succeeds only if the receipt is processed or skipped now.
CompleteExecution(p) ==
    LET c == procs[p]
        good == c.ok /\ (c.kind = "dlq" \/ receipts[c.r].status \in {"processed", "skipped"})
    IN
    /\ At(p, "complete")
    /\ \E ok \in BOOLEAN:
          /\ StoreCall(ok)
          /\ IF ok THEN AcknowledgeHRISWebhookExecution(c.x, ~ good) ELSE UNCHANGED executions
    /\ IF c.tok THEN Goto(p, [c EXCEPT !.pc = "ack"]) /\ UNCHANGED lease
       ELSE Goto(p, Idle) /\ EndLease(p)
    /\ UNCHANGED <<receipts, entries, workers, queues, lastExec, historyVars>>

\* acknowledgeQueuedEnterpriseHRISWebhookExecution ends the item.
AckQueue(p) ==
    LET c == procs[p] IN
    /\ At(p, "ack")
    /\ \E ok \in BOOLEAN:
          /\ StoreCall(ok)
          /\ queues' = IF ok THEN [queues EXCEPT ![c.kind] = AckWorkerQueue(@, c.x, p)] ELSE queues
    /\ Goto(p, Idle) /\ EndLease(p)
    /\ UNCHANGED <<receiptVars, entries, workers, lastExec, historyVars>>

\* requeueQueuedEnterpriseHRISWebhookExecution: the claim goes back to the
\* queue, and when it is no longer this process's, the execution is enqueued.
Requeued(q, x, p, tok) ==
    IF tok /\ Holds(q, x, p) THEN RequeueWorkerQueue(q, x, p) ELSE EnqueueWorkerQueue(q, x)

\* ------------------------------ worker ticks ------------------------------

DueReceipts == {r \in Receipts: hrisWebhookReceiptClaimReason(receipts[r]) = ""}
DueEntries == {e \in Entries: dlqReplayClaimReason(entries[e], MaxReplays, TRUE) = ""}
Candidate(k, x) == x \in Execs /\ executions[x].kind = k /\ Active(x)

\* The claimable executions of the store; a queued one only when Redis does not
\* know it.
Indexed(k) == {x \in Execs: Candidate(k, x) /\ hrisWebhookExecutionClaimReason(executions[x], TRUE) = ""}
Fallback(k) ==
    {x \in Indexed(k): executions[x].status = "queued" => DescribeWorkerQueue(queues[k], x) = "missing"}

\* A tick that finds nothing changes nothing, and is left out.
HasWork(k) ==
    \/ ClaimedItem(queues[k]) # NoItem
    \/ Fallback(k) # {}
    \/ IF k = "receipt" THEN DueReceipts # {} ELSE DueEntries # {}

\* run...WorkerTickWithLease: a tick runs under TryAcquireLease.
StartTick(p, k) ==
    /\ At(p, "idle") /\ k \in workers /\ lease[k] = NoProc /\ HasWork(k)
    /\ lease' = [lease EXCEPT ![k] = p]
    /\ Goto(p, [Idle EXCEPT !.pc = "tick", !.kind = k, !.tick = TRUE])
    /\ UNCHANGED <<receiptVars, entries, workers, queues, lastExec, left, historyVars>>

StartReceiptTick(p) == StartTick(p, "receipt")
StartEntryTick(p) == StartTick(p, "dlq")

\* listQueuedEnterpriseHRISWebhookExecutions, first the queue: an item that is
\* not an active execution any more is acknowledged at once. Without an item of
\* the queue it takes one of the store.
TickQueue(p) ==
    LET c == procs[p]
        x == ClaimedItem(queues[c.kind])
        q == ClaimWorkerQueueBatch(queues[c.kind], p)
    IN
    /\ At(p, "tick")
    /\ IF Candidate(c.kind, x)
       THEN /\ queues' = [queues EXCEPT ![c.kind] = q]
            /\ Goto(p, [c EXCEPT !.pc = "claim", !.x = x, !.tok = TRUE, !.was = executions[x].status])
       ELSE /\ queues' = [queues EXCEPT ![c.kind] = IF x = NoItem THEN q ELSE AckWorkerQueue(q, x, p)]
            /\ IF Fallback(c.kind) = {} THEN Goto(p, [c EXCEPT !.pc = "due"])
               ELSE \E y \in Fallback(c.kind):
                       Goto(p, [c EXCEPT !.pc = "claim", !.x = y, !.was = executions[y].status])
    /\ UNCHANGED <<receiptVars, entries, workers, lease, lastExec, left, historyVars>>

\* ClaimHRISWebhookExecution; an execution that cannot be claimed goes back to
\* the queue in its cooldown, is acknowledged otherwise (one that was cut off at
\* the limit is an error and keeps its queue claim), and the tick goes on.
ClaimExecution(p) ==
    LET c == procs[p]
        reason == hrisWebhookExecutionClaimReason(executions[c.x], TRUE)
    IN
    /\ At(p, "claim")
    /\ IF reason = ""
       THEN /\ ClaimHRISWebhookExecution(c.x)
            /\ LET target == executions[c.x].target IN
               Goto(p, IF c.kind = "receipt" THEN [c EXCEPT !.pc = "target", !.r = target]
                       ELSE [c EXCEPT !.pc = "target", !.e = target])
            /\ UNCHANGED queues
       ELSE /\ queues' = [queues EXCEPT ![c.kind] =
                   IF reason = "cooldown" THEN Requeued(@, c.x, p, c.tok)
                   ELSE IF c.tok /\ executions[c.x].status # "none" THEN AckWorkerQueue(@, c.x, p) ELSE @]
            /\ Goto(p, [c EXCEPT !.pc = "due", !.x = 0, !.tok = FALSE, !.was = "none"])
            /\ UNCHANGED executions
    /\ UNCHANGED <<receipts, entries, workers, lease, lastExec, left, historyVars>>

\* describeHRISWebhookReceiptQueueState and describeHRISWebhookDLQReplayState.
ReceiptInFlight(r) == hrisWebhookReceiptClaimReason(receipts[r]) = "in_flight"
EntryInFlight(e) == dlqReplayClaimReason(entries[e], MaxReplays, TRUE) = "in_flight"

\* requeue...ExecutionForFreshTarget: an execution that was cut off at the limit
\* meanwhile cannot be requeued.
RequeueForFreshTarget(p) ==
    LET c == procs[p] IN
    /\ RequeueHRISWebhookExecution(c.x)
    /\ Goto(p, [c EXCEPT !.pc = IF executions[c.x].status = "none" THEN "ack" ELSE "requeue"])

\* The target of a claimed execution. An execution taken over from a worker that
\* timed out waits while its target is still in flight; a finished target
\* completes the execution; otherwise the target is processed.
ReceiptTarget(p) ==
    LET c == procs[p]
        s == receipts[c.r]
    IN
    /\ At(p, "target") /\ c.kind = "receipt"
    /\ IF c.was = "running" /\ ReceiptInFlight(c.r) THEN RequeueForFreshTarget(p)
       ELSE /\ Goto(p, CASE s.status \in {"processed", "skipped"} ->
                              [c EXCEPT !.pc = "complete", !.was = "none", !.ok = TRUE]
                         [] s.status \in {"failed", "dlq"} ->
                              [c EXCEPT !.pc = "complete", !.was = "none", !.ok = FALSE]
                         [] OTHER -> [c EXCEPT !.was = "none", !.pc = IF s.status = "processing" THEN "run" ELSE "start",
                                               !.dlq = s.attempts >= MaxAttempts])
            /\ UNCHANGED executions
    /\ UNCHANGED <<receipts, entries, workers, queues, lease, lastExec, left, historyVars>>

EntryTarget(p) ==
    LET c == procs[p]
        s == entries[c.e]
    IN
    /\ At(p, "target") /\ c.kind = "dlq"
    /\ IF c.was = "running" /\ EntryInFlight(c.e) THEN RequeueForFreshTarget(p)
       ELSE /\ Goto(p, IF s.status = "replaying"
                       THEN [c EXCEPT !.pc = "replay", !.was = "none", !.r = s.receipt]
                       ELSE [c EXCEPT !.pc = "complete", !.was = "none", !.ok = s.status = "resolved"])
            /\ UNCHANGED executions
    /\ UNCHANGED <<receipts, entries, workers, queues, lease, lastExec, left, historyVars>>

RequeueQueue(p) ==
    LET c == procs[p] IN
    /\ At(p, "requeue")
    /\ queues' = [queues EXCEPT ![c.kind] = Requeued(@, c.x, p, c.tok)]
    /\ Goto(p, Idle) /\ EndLease(p)
    /\ UNCHANGED <<receiptVars, entries, workers, lastExec, left, historyVars>>

\* Without a queued execution the tick claims a due receipt or dead letter.
TickReceipt(p) ==
    LET c == procs[p] IN
    /\ At(p, "due") /\ c.kind = "receipt"
    /\ \E r \in DueReceipts:
          /\ ClaimHRISWebhookReceiptForProcessing(r)
          /\ Goto(p, [c EXCEPT !.pc = "run", !.r = r, !.dlq = receipts[r].attempts + 1 >= MaxAttempts])
    /\ UNCHANGED <<executions, entries, workers, queues, lease, lastExec, left, historyVars>>

TickEntry(p) ==
    LET c == procs[p] IN
    /\ At(p, "due") /\ c.kind = "dlq"
    /\ \E e \in DueEntries:
          /\ ClaimEntryForReplay(e, MaxReplays, TRUE)
          /\ Goto(p, [c EXCEPT !.pc = "replay", !.e = e, !.r = entries[e].receipt])
    /\ UNCHANGED <<receiptVars, workers, queues, lease, lastExec, left, historyVars>>

TickIdle(p) ==
    /\ At(p, "due")
    /\ IF procs[p].kind = "receipt" THEN DueReceipts = {} ELSE DueEntries = {}
    /\ Goto(p, Idle) /\ EndLease(p)
    /\ UNCHANGED <<receiptVars, entries, workers, queues, lastExec, left, historyVars>>

\* ------------------------------- endpoints -------------------------------

\* receiveEnterpriseHRISWebhook: without the worker the request processes the
\* receipt itself, and a failure goes to the dead letters at once.
ReceiveWebhook(p, r) ==
    /\ ReceiveHRISWebhookReceipt(r)
    /\ IF "receipt" \in workers THEN UNCHANGED <<procs, overlapped>>
       ELSE At(p, "idle") /\ Goto(p, [Idle EXCEPT !.pc = "start", !.r = r, !.dlq = TRUE])
    /\ UNCHANGED <<executions, entries, workers, queues, lease, lastExec, left, historyVars>>

\* An operator processes a receipt, or replays a dead letter, in the request.
ProcessReceipt(p, r) ==
    /\ At(p, "idle") /\ ManualCall
    /\ ClaimHRISWebhookReceiptForProcessing(r)
    /\ Goto(p, [Idle EXCEPT !.pc = "run", !.r = r, !.dlq = receipts[r].attempts + 1 >= MaxAttempts])
    /\ UNCHANGED <<executions, entries, workers, queues, lease, lastExec, historyVars>>

ProcessEntry(p, e) ==
    /\ At(p, "idle") /\ ManualCall
    /\ ClaimEntryForReplay(e, 0, FALSE)
    /\ Goto(p, [Idle EXCEPT !.pc = "replay", !.kind = "dlq", !.e = e, !.r = entries[e].receipt])
    /\ UNCHANGED <<receiptVars, workers, queues, lease, lastExec, historyVars>>

\* An operator queues the work, for a receipt, a dead letter or the target of a
\* failed execution (src). The snapshot is read before the claim.
QueueWork(p, k, target, src) ==
    /\ At(p, "idle") /\ ManualCall /\ ~ ActiveReplay(src)
    /\ IF k = "receipt" THEN receipts[target].status # "none" ELSE entries[target].status # "none"
    /\ Goto(p, [Idle EXCEPT !.pc = "queue", !.kind = k, !.src = src,
                  !.r = IF k = "receipt" THEN target ELSE entries[target].receipt,
                  !.e = IF k = "receipt" THEN 0 ELSE target,
                  !.orig = IF k = "receipt" THEN receipts[target] ELSE entries[target]])
    /\ UNCHANGED <<receiptVars, entries, workers, queues, lease, lastExec, historyVars>>

QueueReceipt(p) == \E r \in Receipts: QueueWork(p, "receipt", r, 0)
QueueEntry(p) == \E e \in Entries: QueueWork(p, "dlq", e, 0)
ReplayExecution(p) ==
    \E x \in Execs: /\ executions[x].status = "failed"
                    /\ QueueWork(p, executions[x].kind, executions[x].target, x)

\* The claim before the dispatch; a target that cannot be claimed is a conflict.
ClaimQueuedReceipt(p) ==
    LET c == procs[p] IN
    /\ At(p, "queue") /\ c.kind = "receipt"
    /\ IF hrisWebhookReceiptClaimReason(receipts[c.r]) = ""
       THEN /\ ClaimHRISWebhookReceiptForProcessing(c.r)
            /\ Goto(p, [c EXCEPT !.pc = "create", !.dlq = receipts[c.r].attempts + 1 >= MaxAttempts])
       ELSE Goto(p, Idle) /\ UNCHANGED receipts
    /\ UNCHANGED <<executions, entries, workers, queues, lease, lastExec, left, historyVars>>

ClaimQueuedEntry(p) ==
    LET c == procs[p] IN
    /\ At(p, "queue") /\ c.kind = "dlq"
    /\ IF dlqReplayClaimReason(entries[c.e], 0, FALSE) = ""
       THEN /\ ClaimEntryForReplay(c.e, 0, FALSE)
            /\ Goto(p, [c EXCEPT !.pc = "create"])
       ELSE Goto(p, Idle) /\ UNCHANGED entries
    /\ UNCHANGED <<receiptVars, workers, queues, lease, lastExec, left, historyVars>>

\* dispatchQueuedEnterpriseHRISWebhook...: create the execution, then enqueue it
\* for the worker or run it in a goroutine. When the execution cannot be created
\* the snapshot is written back.
Dispatch(p, k, target) ==
    LET c == procs[p]
        x == NextExec(lastExec)
    IN
    /\ At(p, "create") /\ c.kind = k /\ x # 0
    /\ CreateHRISWebhookExecution(x, k, target, c.src)
    /\ lastExec' = x
    /\ Goto(p, [c EXCEPT !.pc = IF k \in workers THEN "enqueue" ELSE "goroutine",
                         !.x = x, !.orig = NoReceipt, !.src = 0])
    /\ UNCHANGED <<receipts, entries, workers, queues, lease, left, historyVars>>

DispatchReceipt(p) == Dispatch(p, "receipt", procs[p].r)
DispatchEntry(p) == Dispatch(p, "dlq", procs[p].e)

DispatchFails(p) ==
    LET c == procs[p] IN
    /\ At(p, "create")
    /\ StoreCall(ActiveReplay(c.src))
    /\ IF c.kind = "receipt"
       THEN RestoreHRISWebhookReceipt(c.r, c.orig) /\ UNCHANGED entries
       ELSE RestoreEntry(c.e, c.orig) /\ UNCHANGED receipts
    /\ Goto(p, Idle)
    /\ UNCHANGED <<executions, workers, queues, lease, lastExec, historyVars>>

\* A failed enqueue is only logged: it is the same as a Crash here.
EnqueueExecution(p) ==
    LET c == procs[p] IN
    /\ At(p, "enqueue")
    /\ queues' = [queues EXCEPT ![c.kind] = EnqueueWorkerQueue(@, c.x)]
    /\ Goto(p, Idle)
    /\ UNCHANGED <<receiptVars, entries, workers, lease, lastExec, left, historyVars>>

\* processQueued... and replayQueued...: the goroutine of a dispatch.
RunGoroutine(p, k, next) ==
    LET c == procs[p] IN
    /\ At(p, "goroutine") /\ c.kind = k
    /\ MarkHRISWebhookExecutionRunning(c.x)
    /\ Goto(p, [c EXCEPT !.pc = next])
    /\ UNCHANGED <<receipts, entries, workers, queues, lease, lastExec, left, historyVars>>

RunQueuedReceipt(p) == RunGoroutine(p, "receipt", "run")
RunQueuedEntry(p) == RunGoroutine(p, "dlq", "replay")

\* ------------------------------ time and faults ------------------------------

\* A timeout may pass while the work it guards goes on, waits in a queue or is
\* looked up by the tick that claimed its execution, which is bounded.
Awaited(k, target) == \E x \in Execs: Active(x) /\ executions[x].kind = k /\ executions[x].target = target
Sought(r, e) == \E p \in Procs: At(p, "target") /\ procs[p].r = r /\ procs[p].e = e
Passes(live) == IF live THEN Spend("late") ELSE UNCHANGED left

Elapse ==
    \/ \E r \in Receipts:
          /\ ReceiptFallsDue(r)
          /\ Passes(receipts[r].status = "processing" /\ (OnReceipt(r) # {} \/ Sought(r, 0) \/ Awaited("receipt", r)))
          /\ UNCHANGED <<entries, workers, procs, overlapped, queues, lease, lastExec, historyVars>>
    \/ \E e \in Entries:
          /\ EntryFallsDue(e)
          /\ Passes(entries[e].status = "replaying" /\ (OnEntry(e) # {} \/ Sought(0, e) \/ Awaited("dlq", e)))
          /\ UNCHANGED <<receiptVars, workers, procs, overlapped, queues, lease, lastExec, historyVars>>
    \/ \E x \in Execs:
          /\ ExecutionFallsDue(x)
          /\ Passes(executions[x].status = "running" /\ OnExec(x) # {})
          /\ UNCHANGED <<entries, workers, procs, overlapped, queues, lease, lastExec, historyVars>>
    \/ \E k \in Kinds: \E i \in DOMAIN queues[k].claim \ queues[k].overdue:
          /\ queues' = [queues EXCEPT ![k] = Overdue(@, i)]
          /\ Passes(\E p \in Procs: procs[p].tok /\ procs[p].x = i /\ Holds(queues[k], i, p))
          /\ UNCHANGED <<receiptVars, entries, workers, procs, overlapped, lease, lastExec, historyVars>>
    \/ \E k \in Kinds:
          /\ lease[k] # NoProc
          /\ lease' = [lease EXCEPT ![k] = NoProc]
          /\ Passes(procs[lease[k]].tick /\ procs[lease[k]].kind = k)
          /\ UNCHANGED <<receiptVars, entries, workers, procs, overlapped, queues, lastExec, historyVars>>

\* The process dies where it is; its lease and its claims stay.
Crash(p) ==
    /\ Busy(p) /\ Spend("faults")
    /\ Goto(p, Idle)
    /\ UNCHANGED <<receiptVars, entries, workers, queues, lease, lastExec, historyVars>>

Step(p) ==
    \/ StartReceipt(p) \/ SkipReceipt(p) \/ FailReceipt(p) \/ SyncReceipt(p) \/ FinishReceipt(p)
    \/ ReplayEntry(p) \/ EndReplay(p) \/ RestoreReceiptDLQ(p)
    \/ CompleteExecution(p) \/ AckQueue(p)
    \/ TickQueue(p) \/ ClaimExecution(p)
    \/ ReceiptTarget(p) \/ EntryTarget(p) \/ RequeueQueue(p)
    \/ TickReceipt(p) \/ TickEntry(p) \/ TickIdle(p)
    \/ ClaimQueuedReceipt(p) \/ ClaimQueuedEntry(p)
    \/ DispatchReceipt(p) \/ DispatchEntry(p) \/ DispatchFails(p)
    \/ EnqueueExecution(p) \/ RunQueuedReceipt(p) \/ RunQueuedEntry(p)

Request(p) ==
    \/ \E r \in Receipts: ReceiveWebhook(p, r) \/ ProcessReceipt(p, r)
    \/ \E e \in Entries: ProcessEntry(p, e)
    \/ QueueReceipt(p) \/ QueueEntry(p) \/ ReplayExecution(p)

Tick(p) == StartReceiptTick(p) \/ StartEntryTick(p)

HrisNext == Elapse \/ \E p \in Procs: Step(p) \/ Request(p) \/ Tick(p) \/ Crash(p)

\* Every process goes on and timeouts pass. The ticker of each enabled worker
\* fires on every instance, and some instance gets the lease: a tick that can
\* start again and again, between others, does start.
HrisFairness ==
    /\ \A p \in Procs: WF_hrisVars(Step(p))
    /\ \A k \in Kinds: SF_hrisVars(\E p \in Procs: StartTick(p, k))
    /\ WF_hrisVars(Elapse)

HrisSafetySpec == HrisInit /\ [][HrisNext]_hrisVars

HrisSpec == HrisInit /\ [][HrisNext]_hrisVars /\ HrisFairness

\* ------------------------------- properties -------------------------------

ReceiptRecs == [status: ReceiptStatus, attempts: Nat, due: BOOLEAN]
ExecRecs == [status: ExecStatus, kind: Kinds, target: Receipts \union Entries \union {0}, due: BOOLEAN, src: Execs \union {0}]
EntryRecs == [status: EntryStatus, receipt: Receipts \union {0}, count: Nat, due: BOOLEAN]
Pcs == {"idle", "tick", "claim", "due", "target", "requeue", "complete", "ack", "queue", "create", "enqueue",
        "goroutine", "start", "run", "markok", "markdlq", "replay", "entry", "redlq"}
ProcRecs == [pc: Pcs, kind: Kinds, r: Receipts \union {0}, e: Entries \union {0}, x: Execs \union {0},
             tok: BOOLEAN, tick: BOOLEAN, dlq: BOOLEAN, was: ExecStatus, ok: BOOLEAN,
             orig: ReceiptRecs \union EntryRecs, src: Execs \union {0}]

\* Every store, every process and the history has the shape the code gives it.
HrisTypeOK ==
    /\ receipts \in [Receipts -> ReceiptRecs]
    /\ executions \in [Execs -> ExecRecs]
    /\ entries \in [Entries -> EntryRecs]
    /\ procs \in [Procs -> ProcRecs]
    /\ lastExec \in Nat
    /\ handled \in [Receipts -> Nat]
    /\ unfiled \subseteq Receipts
    /\ overlapped \subseteq Receipts

\* Where a receipt is, for its sender: it was applied or skipped, it has an open
\* dead letter, or somebody can still take it up (it waits, it is processing and
\* can be claimed again after the timeout, or it has attempts left).
InHand(r) ==
    \/ receipts[r].status \in {"received", "processing"}
    \/ receipts[r].status = "failed" /\ receipts[r].attempts < MaxAttempts
    \/ OnReceipt(r) # {}

InboxState(r) == IF handled[r] > 0 THEN "done"
                 ELSE IF OpenEntry(r) # {} THEN "parked"
                 ELSE IF receipts[r].status = "none" THEN "absent"
                 ELSE IF InHand(r) THEN "pending" ELSE "lost"

Promise == INSTANCE Inbox WITH Messages <- Receipts,
                               state <- [r \in Receipts |-> InboxState(r)],
                               excused <- unfiled \union overlapped

\* The pipeline implements Inbox: an accepted webhook is never lost on the way
\* between receipt, retry, dead letter and replay. The excuses are a dead letter
\* that could not be stored (the receipt is then failed at its attempt limit and
\* neither worker nor operator may claim it), and two processes that had the
\* receipt at the same time: the first decides at its claim whether a failure is
\* the last one, and the second uses up an attempt.
NotLost == Promise!Spec

\* Claims are exclusive: with the receipt worker enabled, and unless a process
\* crashes, a store call fails or a timeout passes during the work, a receipt is
\* applied or skipped once, whatever the workers, the operators and the replays
\* of dead letters do. (Without the worker the webhook request processes its
\* receipt without a claim, and an operator can claim it at the same time.)
HandledOnce ==
    "receipt" \in workers /\ left.faults = MaxFaults /\ left.late = MaxLate => \A r \in Receipts: handled[r] <= 1

\* The receipt is not waiting and nobody works on it: it was applied or skipped,
\* it is in the dead letters, or it has used up its attempts.
Settled(r) ==
    /\ OnReceipt(r) = {}
    /\ \/ receipts[r].status \in {"processed", "skipped", "dlq"}
       \/ receipts[r].status = "failed" /\ receipts[r].attempts >= MaxAttempts

\* With the receipt worker enabled a webhook that was accepted is settled some
\* day, in spite of crashes, failed calls, lost queue items and timeouts: nothing
\* waits for ever on a claim, a lease or a queue item of a process that died.
ReceiptsSettle ==
    \A r \in Receipts:
        ("receipt" \in workers /\ receipts[r].status # "none") ~> Settled(r)
=============================================================================
