---------------------------- MODULE MCEnterprise ----------------------------
(***************************************************************************)
(* The enterprise service in a small instance: its alerts (SyncAlerts),    *)
(* its directory and the logins through it (EnterpriseLogin), or the pull  *)
(* of employees (HrisPull).  They share no state, so a behaviour is of one *)
(* of them: `part' is chosen first.                                        *)
(***************************************************************************)
EXTENDS SyncAlerts, EnterpriseLogin, HrisPull

VARIABLE part   \* "alerts", "sync", "login" or "pull"

vars == <<alertVars, allDirVars, pullVars, part>>

Person(e, x, active) == [email |-> e, ext |-> x, act |-> active]

\* One person; the same one inactive, with a new email, and without an external id; two inputs that are
\* one person.
MCBatches == {<<Person("e1", "x1", TRUE)>>, <<Person("e1", "x1", FALSE)>>, <<Person("e2", "x1", TRUE)>>,
              <<Person("e1", NoExt, TRUE)>>,
              <<Person("e2", "x2", TRUE), Person("e1", NoExt, TRUE)>>,
              <<Person("e1", "x1", TRUE), Person("e2", "x1", TRUE)>>}

MCIdentities == {Person("e1", "x1", TRUE), Person("e2", "x1", TRUE), Person("e1", "x1", FALSE)}

\* Two attempts with a failure or with one request beside them, or one attempt and two requests.
MCAlertBudgets == {[op |-> 2, edit |-> 0, fault |-> 1], [op |-> 1, edit |-> 2, fault |-> 1],
                   [op |-> 2, edit |-> 1, fault |-> 0]}

\* Two of: a request, a failure, refused rows.
MCPullBudgets == {[op |-> 1, fault |-> 1, pulls |-> 2, refused |-> 0],
                  [op |-> 1, fault |-> 0, pulls |-> 2, refused |-> 2],
                  [op |-> 0, fault |-> 1, pulls |-> 2, refused |-> 2]}

Init ==
    /\ part \in {"alerts", "sync", "login", "pull"}
    /\ AlertsInit
    /\ LoginInit
    /\ PullInit
    /\ part # "alerts" => left.op = 1
    /\ part # "sync" => core.dom = "active"
    /\ \A e \in Emails : accounts[e] # NoAccount => part = "login" /\ e = "e1"
    /\ part # "pull" => saved.conn.st = "none" /\ pullLeft.op = 0

Directory(p) == part = p /\ UNCHANGED <<alertVars, pullVars, part>>

\* A login may meet a synchronisation, whose request id does not matter to it.
Next ==
    \/ part = "alerts" /\ AlertsNext /\ UNCHANGED <<allDirVars, pullVars, part>>
    \/ Directory("sync") /\ DirNext /\ UNCHANGED loginVars
    \/ Directory("sync") /\ RestartDirectory
    \/ Directory("login") /\ (updateEnterpriseDomainMappingStatus \/ upsertEnterpriseIDPConfig) /\ UNCHANGED loginVars
    \/ Directory("login") /\ syncEnterpriseEmployees(NoRequest) /\ UNCHANGED loginVars
    \/ Directory("login") /\ applyAccessForSyncRecordLocked /\ UNCHANGED loginVars
    \/ Directory("login") /\ rollbackSync /\ UNCHANGED loginVars
    \/ Directory("login") /\ LoginNext
    \/ part = "pull" /\ PullNext /\ UNCHANGED <<alertVars, allDirVars, part>>

\* The workers' tickers run, a process that is at work goes on, and what is claimed or leased expires.
Fairness ==
    /\ \A p \in Procs : /\ WF_alertVars(part = "alerts" /\ Steps(p))
                        /\ WF_alertVars(part = "alerts" /\ runEnterpriseSyncWorkerAlertAutoRetryWorkerTickWithLease(p))
    /\ WF_alertVars(part = "alerts" /\ FlightExpires)
    /\ WF_alertVars(part = "alerts" /\ LeaseExpires)
    /\ \A p \in PullProcs : /\ WF_pullVars(part = "pull" /\ PullSteps(p))
                            /\ WF_pullVars(part = "pull" /\ startPullTick(p))
    /\ WF_pullVars(part = "pull" /\ PullLeaseLapses)

Spec == Init /\ [][Next]_vars /\ Fairness
=============================================================================
