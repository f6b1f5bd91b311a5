---------------------------- MODULE HrisReceipts ----------------------------
\* Webhook receipts and executions of the enterprise service
\* (modules/enterprise/service_hris.go). Every mutation loads the shared
\* snapshot, changes it and compare-and-swaps it, so it is atomic across the API
\* instances. Times are a flag: due says that the processing timeout of a
\* processing receipt, the backoff of a failed one, the start time of a queued
\* execution or the timeout of a running one has passed.
EXTENDS Naturals, FiniteSets

CONSTANTS Receipts,     \* receipts that may arrive
          Execs,        \* execution ids, 1..n, in the order of creation
          MaxAttempts,  \* EnterpriseHRISWebhookReceiptWorkerMaxAttempts
          ExecLimit     \* maxWebhookExecutionLimit

ASSUME HrisBounds == /\ MaxAttempts \in Nat \ {0}
                     /\ ExecLimit \in Nat \ {0}
                     /\ Execs = 1..Cardinality(Execs)

VARIABLES receipts, executions

receiptVars == <<receipts, executions>>

ReceiptStatus == {"none", "received", "processing", "processed", "skipped", "failed", "dlq"}
ExecStatus == {"none", "queued", "running", "succeeded", "failed"}
Kinds == {"receipt", "dlq"}

NoReceipt == [status |-> "none", attempts |-> 0, due |-> FALSE]
NoExec == [status |-> "none", kind |-> "receipt", target |-> 0, due |-> FALSE, src |-> 0]

ReceiptsInit == /\ receipts = [r \in Receipts |-> NoReceipt]
                /\ executions = [x \in Execs |-> NoExec]

\* ------------------------------ receipts ------------------------------

ReceiveHRISWebhookReceipt(r) ==
    /\ receipts[r].status = "none"
    /\ receipts' = [receipts EXCEPT ![r] = [@ EXCEPT !.status = "received"]]

\* Mutant: a processing receipt is claimable before its timeout.
hrisWebhookReceiptClaimReason_NoTimeout(c) ==
    CASE c.status \in {"received", "processing"} -> ""
      [] c.status = "failed" ->
            IF c.attempts >= MaxAttempts THEN "attempt_limit"
            ELSE IF c.due THEN "" ELSE "cooldown"
      [] OTHER -> "not_queueable"

\* Mutant: a processing receipt is never claimable.
hrisWebhookReceiptClaimReason_NoTakeover(c) ==
    CASE c.status = "received" -> ""
      [] c.status = "failed" ->
            IF c.attempts >= MaxAttempts THEN "attempt_limit"
            ELSE IF c.due THEN "" ELSE "cooldown"
      [] c.status = "processing" -> "in_flight"
      [] OTHER -> "not_queueable"

\* Why a receipt cannot be claimed; "" when it can. A processing receipt whose
\* timeout has passed can be claimed whatever its attempts.
hrisWebhookReceiptClaimReason(c) ==
    CASE c.status = "received" -> ""
      [] c.status = "failed" ->
            IF c.attempts >= MaxAttempts THEN "attempt_limit"
            ELSE IF c.due THEN "" ELSE "cooldown"
      [] c.status = "processing" -> IF c.due THEN "" ELSE "in_flight"
      [] OTHER -> "not_queueable"

\* The claim and MarkHRISWebhookReceiptStarted write the same fields.
Started(c) == [status |-> "processing", attempts |-> c.attempts + 1, due |-> FALSE]

ClaimHRISWebhookReceiptForProcessing(r) ==
    /\ hrisWebhookReceiptClaimReason(receipts[r]) = ""
    /\ receipts' = [receipts EXCEPT ![r] = Started(@)]

MarkHRISWebhookReceiptStarted(r) == receipts' = [receipts EXCEPT ![r] = Started(@)]

\* updateHRISWebhookReceiptStatus: the status is written whatever it was.
MarkHRISWebhookReceipt(r, status) ==
    receipts' = [receipts EXCEPT ![r] = [@ EXCEPT !.status = status, !.due = FALSE]]

MarkHRISWebhookReceiptProcessed(r) == MarkHRISWebhookReceipt(r, "processed")
MarkHRISWebhookReceiptSkipped(r) == MarkHRISWebhookReceipt(r, "skipped")
MarkHRISWebhookReceiptFailed(r) == MarkHRISWebhookReceipt(r, "failed")
MarkHRISWebhookReceiptDLQ(r) == MarkHRISWebhookReceipt(r, "dlq")

RestoreHRISWebhookReceipt(r, snapshot) == receipts' = [receipts EXCEPT ![r] = snapshot]

\* The processing timeout of a receipt passes, or the backoff of a failed one
\* that has attempts left.
ReceiptFallsDue(r) ==
    /\ \/ receipts[r].status = "processing"
       \/ receipts[r].status = "failed" /\ receipts[r].attempts < MaxAttempts
    /\ ~ receipts[r].due
    /\ receipts' = [receipts EXCEPT ![r].due = TRUE]
    /\ UNCHANGED executions

\* ----------------------------- executions -----------------------------

Present == {x \in Execs: executions[x].status # "none"}
Active(x) == executions[x].status \in {"queued", "running"}

\* findActiveHRISWebhookReplayExecutionLocked: src = 0 is not a replay.
ActiveReplay(src) == src # 0 /\ \E x \in Present: executions[x].src = src /\ Active(x)

\* A fresh id; the oldest executions are cut off at the limit, active or not.
CreateHRISWebhookExecution(x, kind, target, src) ==
    LET all == [executions EXCEPT ![x] = [status |-> "queued", kind |-> kind,
                    target |-> target, due |-> TRUE, src |-> src]]
        newer(y) == Cardinality({z \in Present \union {x}: z > y})
    IN /\ ~ ActiveReplay(src)
       /\ executions' = [y \in Execs |-> IF newer(y) >= ExecLimit THEN NoExec ELSE all[y]]

\* The next execution id; 0 when the bound is used up.
NextExec(used) == IF used < Cardinality(Execs) THEN used + 1 ELSE 0

\* managed: the execution was dispatched to the worker, not to a goroutine.
hrisWebhookExecutionClaimReason(c, managed) ==
    IF ~ managed THEN "not_queueable"
    ELSE CASE c.status = "queued" -> IF c.due THEN "" ELSE "cooldown"
           [] c.status = "running" -> IF c.due THEN "" ELSE "in_flight"
           [] OTHER -> "not_queueable"

\* An execution that was cut off is not found, and nothing changes.
updateHRISWebhookExecution(x, status) ==
    executions' = [executions EXCEPT ![x] =
        IF @.status = "none" THEN @ ELSE [@ EXCEPT !.status = status, !.due = FALSE]]

MarkHRISWebhookExecutionRunning(x) == updateHRISWebhookExecution(x, "running")
ClaimHRISWebhookExecution(x) ==
    /\ hrisWebhookExecutionClaimReason(executions[x], TRUE) = ""
    /\ updateHRISWebhookExecution(x, "running")
RequeueHRISWebhookExecution(x) == updateHRISWebhookExecution(x, "queued")
AcknowledgeHRISWebhookExecution(x, failed) ==
    updateHRISWebhookExecution(x, IF failed THEN "failed" ELSE "succeeded")

ExecutionFallsDue(x) ==
    /\ Active(x) /\ ~ executions[x].due
    /\ executions' = [executions EXCEPT ![x].due = TRUE]
    /\ UNCHANGED receipts
=============================================================================
