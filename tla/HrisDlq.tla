------------------------------ MODULE HrisDlq ------------------------------
\* Dead letters of HRIS webhooks (modules/hris/dlq.go). As in HrisReceipts a
\* mutation is atomic on the shared snapshot and times are a due flag. The
\* failure stages are one stage, so a receipt has at most one entry in "dlq".
EXTENDS Naturals, FiniteSets

CONSTANTS Entries,     \* dead-letter ids, 1..n
          MaxReplays   \* EnterpriseHRISWebhookDLQWorkerMaxAttempts

ASSUME DlqBounds == MaxReplays \in Nat \ {0} /\ Entries = 1..Cardinality(Entries)

VARIABLES entries

EntryStatus == {"none", "dlq", "replaying", "resolved"}
NoEntry == [status |-> "none", receipt |-> 0, count |-> 0, due |-> FALSE]

DlqInit == entries = [e \in Entries |-> NoEntry]

OpenEntry(r) == {e \in Entries: entries[e].receipt = r /\ entries[e].status \in {"dlq", "replaying"}}
InDlq(r) == {e \in Entries: entries[e].receipt = r /\ entries[e].status = "dlq"}
FreeEntry == {e \in Entries: entries[e].status = "none"}

\* The entry of the receipt that is already in "dlq" is updated, else a new
\* entry is added (only the fields left out here change in an update).
AppendFailure(r) ==
    \/ InDlq(r) # {} /\ UNCHANGED entries
    \/ /\ InDlq(r) = {} /\ FreeEntry # {}
       /\ LET e == CHOOSE f \in FreeEntry: \A g \in FreeEntry: f <= g IN
          entries' = [entries EXCEPT ![e] = [status |-> "dlq", receipt |-> r, count |-> 0, due |-> TRUE]]

\* max = 0 and no cooldown for a manual replay.
dlqReplayClaimReason(c, max, cooldown) ==
    CASE c.status = "dlq" ->
            IF max > 0 /\ c.count >= max THEN "attempt_limit"
            ELSE IF cooldown /\ ~ c.due THEN "cooldown" ELSE ""
      [] c.status = "replaying" -> IF c.due THEN "" ELSE "in_flight"
      [] OTHER -> "not_replayable"

ClaimEntryForReplay(e, max, cooldown) ==
    /\ dlqReplayClaimReason(entries[e], max, cooldown) = ""
    /\ entries' = [entries EXCEPT ![e] =
                     [@ EXCEPT !.status = "replaying", !.count = entries[e].count + 1, !.due = FALSE]]

\* A replay that is no longer "replaying" is counted when it ends.
Ended(c, status) ==
    [c EXCEPT !.status = status, !.due = FALSE,
              !.count = IF c.status = "replaying" THEN @ ELSE @ + 1]

MarkReplayFailed(e) == entries' = [entries EXCEPT ![e] = Ended(@, "dlq")]
MarkResolved(e) == entries' = [entries EXCEPT ![e] = Ended(@, "resolved")]
RestoreEntry(e, snapshot) == entries' = [entries EXCEPT ![e] = snapshot]

EntryFallsDue(e) ==
    /\ \/ entries[e].status = "replaying"
       \/ entries[e].status = "dlq" /\ entries[e].count < MaxReplays
    /\ ~ entries[e].due
    /\ entries' = [entries EXCEPT ![e].due = TRUE]
=============================================================================
