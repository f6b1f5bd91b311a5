------------------------ MODULE EnterpriseDirectory ------------------------
(***************************************************************************)
(* The directory of the enterprise service: domain mappings, the identity  *)
(* provider, employees and the requests that synchronise them              *)
(* (service.go, service_employees.go), behind their handlers and the       *)
(* reconcile worker.  One API process and one tenant with one domain.  The *)
(* service saves its whole core state after every change; a save that      *)
(* fails leaves the change in memory.  What the access service does with   *)
(* the employees it is given is AccessPeople!upsertEmployees; here it      *)
(* takes them or refuses them.                                             *)
(***************************************************************************)
EXTENDS Integers, Sequences, FiniteSets
SX == INSTANCE SequencesExt

CONSTANTS Emails, Exts,      \* of employees; an employee may have no external id
          RequestIds,        \* of synchronisations
          Batches,           \* what a synchronisation may send: sequences of inputs
          SyncAttempts,      \* of the reconcile worker
          MaxDirOps, MaxDirFaults   \* bounds: requests; failed saves, refusals, restarts

ASSUME SyncAttemptsAssumption == SyncAttempts \in Nat \ {0}

VARIABLES
    core,     \* the state in memory: dom, idp, emps (newest first), recs, apprs (newest first)
    stored,   \* the state saved last
    job,      \* the synchronisation that holds the service's lock
    dhist,    \* what the properties remember
    budget    \* what is left of the bounds

dirVars == <<core, stored, job, dhist, budget>>

NoExt == "no external id"
NoRequest == "no request id"
NoRecord == [known |-> FALSE]
Unlocked == [pc |-> "none"]

Free == job = Unlocked

(* ------------------------------- employees ----------------------------- *)

\* Employees with the two indexes a synchronisation keeps: the last row wins when it builds them.
LastIndex(rows, P(_)) == LET S == {i \in DOMAIN rows : P(rows[i])}
                         IN  IF S = {} THEN 0 ELSE CHOOSE i \in S : \A j \in S : j <= i

Table(rows) == [rows |-> rows,
                byExt |-> [x \in Exts |-> LastIndex(rows, LAMBDA r : r.ext = x)],
                byEmail |-> [e \in Emails |-> LastIndex(rows, LAMBDA r : r.email = e)]]

extMatch(t, in) == IF in.ext = NoExt THEN 0 ELSE t.byExt[in.ext]
emailMatch(t, in) == t.byEmail[in.email]

\* The row is overwritten and its former keys forgotten, if they still led to it.
overwrite(t, k, row) ==
    LET old == t.rows[k]
        noEmail == IF old.email # row.email /\ t.byEmail[old.email] = k THEN [t.byEmail EXCEPT ![old.email] = 0] ELSE t.byEmail
        noExt == IF old.ext \notin {NoExt, row.ext} /\ t.byExt[old.ext] = k THEN [t.byExt EXCEPT ![old.ext] = 0] ELSE t.byExt
    IN  [rows |-> [t.rows EXCEPT ![k] = row],
         byEmail |-> [noEmail EXCEPT ![row.email] = k],
         byExt |-> IF row.ext = NoExt THEN noExt ELSE [noExt EXCEPT ![row.ext] = k]]

append(t, row) ==
    LET k == Len(t.rows) + 1
    IN  [rows |-> Append(t.rows, row),
         byEmail |-> [t.byEmail EXCEPT ![row.email] = k],
         byExt |-> IF row.ext = NoExt THEN t.byExt ELSE [t.byExt EXCEPT ![row.ext] = k]]

Clashes(t, k, in) == in.ext # NoExt /\ t.rows[k].ext \notin {NoExt, in.ext}

\* The row an input is about: in the table as it was, among the rows this batch made, none, or a conflict.
Target(old, made, in) ==
    LET xo == extMatch(old, in)   xm == extMatch(made, in)
        eo == emailMatch(old, in) em == emailMatch(made, in)
        hasExt == xo > 0 \/ xm > 0
        hasEmail == eo > 0 \/ em > 0
    IN  IF hasExt /\ hasEmail
        THEN IF xo > 0 /\ xo = eo THEN <<"old", xo>>
             ELSE IF xm > 0 /\ xm = em THEN <<"made", xm>>
             ELSE <<"conflict", 0>>
        ELSE IF hasExt THEN (IF xo > 0 THEN <<"old", xo>> ELSE <<"made", xm>>)
        ELSE IF hasEmail THEN (IF eo > 0 THEN <<"old", eo>> ELSE <<"made", em>>)
        ELSE <<"none", 0>>

\* One input.  A row that this batch made is overwritten, and the result keeps its first form.
upsertOne(acc, in, req) ==
    LET at == Target(acc.old, acc.made, in)
        k == at[2]
        Row(id) == [id |-> id, email |-> in.email, ext |-> in.ext, act |-> in.act, by |-> req]
    IN  CASE at[1] = "conflict" -> acc
          [] at[1] = "old" -> IF Clashes(acc.old, k, in) THEN acc
                              ELSE [acc EXCEPT !.old = overwrite(@, k, Row(acc.old.rows[k].id)),
                                               !.items = Append(@, Row(acc.old.rows[k].id))]
          [] at[1] = "made" -> IF Clashes(acc.made, k, in) THEN acc
                               ELSE [acc EXCEPT !.made = overwrite(@, k, Row(acc.made.rows[k].id))]
          [] OTHER -> [acc EXCEPT !.made = append(@, Row(acc.next)),
                                  !.items = Append(@, Row(acc.next)),
                                  !.next = @ + 1]

\* The id of a row is new; which number it is does not matter.
NextId(rows) == 1 + (LET S == {rows[i].id : i \in DOMAIN rows}
                     IN  IF S = {} THEN 0 ELSE CHOOSE n \in S : \A m \in S : m <= n)

\* Inputs whose domain is not mapped are rejected, all of them here; new rows come first.
syncEmployeesLocked(s, batch, req) ==
    LET start == [old |-> Table(s.emps), made |-> Table(<<>>), items |-> <<>>, next |-> NextId(s.emps)]
        acc == SX!FoldLeft(LAMBDA a, in : upsertOne(a, in, req), start, batch)
    IN  IF s.dom # "active" THEN [emps |-> s.emps, items |-> <<>>]
        ELSE [emps |-> acc.made.rows \o acc.old.rows, items |-> acc.items]

(* ------------------------------- bookkeeping --------------------------- *)

Ask == budget.op > 0 /\ budget' = [budget EXCEPT !.op = @ - 1]

\* A save, or the access service, fails.
Cost(ok) == budget' = IF ok THEN budget ELSE [budget EXCEPT !.fault = @ - 1]
May(ok) == ~ok => budget.fault > 0

AskSaving(ok) ==
    /\ budget.op > 0 /\ May(ok)
    /\ budget' = [op |-> budget.op - 1, fault |-> IF ok THEN budget.fault ELSE budget.fault - 1]

\* persistLocked: the whole core state, after the change was made in memory.
persistLocked(s, ok) == core' = s /\ stored' = IF ok THEN s ELSE stored

(* ----------------------- domains and identity provider ----------------- *)

CreateDomainMapping(s, st) == [s EXCEPT !.dom = st]
UpdateDomainMappingStatus(s, st) == [s EXCEPT !.dom = st]

\* A configuration replaces the one before; what its URLs are is not told apart.
UpsertIDPConfig(s, config) == [s EXCEPT !.idp = config]

createEnterpriseDomainMapping == \E st \in {"active", "inactive"}, ok \in BOOLEAN :
    /\ Free /\ AskSaving(ok)
    /\ core.dom = "none"
    /\ persistLocked(CreateDomainMapping(core, st), ok)
    /\ UNCHANGED <<job, dhist>>

updateEnterpriseDomainMappingStatus == \E st \in {"active", "inactive"}, ok \in BOOLEAN :
    /\ Free /\ AskSaving(ok)
    /\ core.dom \notin {"none", st}
    /\ persistLocked(UpdateDomainMappingStatus(core, st), ok)
    /\ UNCHANGED <<job, dhist>>

upsertEnterpriseIDPConfig == \E provider \in {"oidc", "saml"}, on, jit, ok \in BOOLEAN :
    /\ Free /\ AskSaving(ok)
    /\ LET config == [provider |-> provider, on |-> on, jit |-> jit]
       IN  config # core.idp /\ persistLocked(UpsertIDPConfig(core, config), ok)
    /\ UNCHANGED <<job, dhist>>

(* ---------------------------- synchronisation -------------------------- *)

Record(items) == [known |-> TRUE, items |-> items, applied |-> FALSE, attempts |-> 0]

\* A slip: a request that was made before is made again.
knows_Bug(req) == FALSE

\* syncRequestRecords[recordKey] exists.
knows(req) == req # NoRequest /\ core.recs[req].known

\* The order in which requests took effect; a request that was answered keeps its place.
Executed(req) == IF req = NoRequest \/ req \in dhist.answered THEN dhist.order
                 ELSE SelectSeq(dhist.order, LAMBDA r : r # req) \o <<req>>

\* The access service is asked next: for these requests, and with what to go back to if it refuses.
ApplyNext(reqs, undo) == job' = [pc |-> "apply", todo |-> reqs, undo |-> undo]

\* SyncEmployeesWithAccessUpsertMetadata, up to the access service: a known request keeps its result.
SyncEmployeesWithAccessUpsert(req, batch, ok) ==
    LET r == syncEmployeesLocked(core, batch, req)
        s == [core EXCEPT !.emps = r.emps,
                          !.recs = IF req = NoRequest THEN @ ELSE [@ EXCEPT ![req] = Record(r.items)]]
    IN  IF knows(req) THEN ok /\ ApplyNext({req}, <<>>) /\ UNCHANGED <<core, stored, dhist>>
        ELSE /\ persistLocked(s, ok)
             /\ dhist' = [dhist EXCEPT !.order = Executed(req)]
             /\ IF ok THEN ApplyNext({req}, <<[emps |-> core.emps, recs |-> core.recs]>>) ELSE job' = Unlocked

syncEnterpriseEmployees(req) == \E batch \in Batches, ok \in BOOLEAN :
    Free /\ AskSaving(ok) /\ SyncEmployeesWithAccessUpsert(req, batch, ok)

\* ReconcileSyncRequestAccess.
ReconcileSyncRequestAccess(req) == knows(req) /\ ApplyNext({req}, <<>>)

reconcileEnterpriseEmployeeSync == \E req \in RequestIds :
    /\ Free /\ Ask /\ ReconcileSyncRequestAccess(req)
    /\ UNCHANGED <<core, stored, dhist>>

\* ReconcilePendingSyncRequestsWithPolicy, for a worker up to its limit of attempts.  The code goes from
\* the oldest record to the newest; what is left of it here does not depend on the order.
Pending(limit) == {r \in RequestIds : /\ core.recs[r].known /\ ~core.recs[r].applied
                                      /\ limit > 0 => core.recs[r].attempts < limit}

ReconcilePending(limit) ==
    /\ Free /\ Pending(limit) # {}
    /\ ApplyNext(Pending(limit), <<>>)
    /\ UNCHANGED <<core, stored, dhist>>

reconcilePendingEnterpriseSyncRequests == Ask /\ ReconcilePending(0)

\* The cooldown of every record has passed, or the tick comes too early and does nothing.
runEnterpriseSyncReconcileWorkerTick == ReconcilePending(SyncAttempts) /\ UNCHANGED budget

\* The answer is a success: what the request made is in the directory.  One whose own save failed and
\* whose retry could not be saved either is answered like any other, and is not remembered here.
Answer(req) ==
    LET rec == core.recs[req]
        kept == \A i \in DOMAIN rec.items : \E j \in DOMAIN stored'.emps : stored'.emps[j].id = rec.items[i].id
    IN  dhist' = IF stored'.recs[req].known /\ kept
                 THEN [dhist EXCEPT !.answered = @ \cup {req}]
                 ELSE dhist

\* applyAccessForSyncRecordLocked: the outcome is noted in the record, and saved if it can be.
applyAccessForSyncRecordLocked == job.pc = "apply" /\ \E req \in job.todo, takes, saves \in BOOLEAN :
    LET rec == IF req = NoRequest THEN Record(<<>>) ELSE core.recs[req]
        rest == IF job.todo = {req} THEN Unlocked ELSE [job EXCEPT !.todo = @ \ {req}]
    IN  /\ May(takes /\ saves)
        /\ Cost(takes /\ saves)
        /\ IF req # NoRequest /\ rec.applied
           THEN takes /\ saves /\ job' = rest /\ UNCHANGED <<core, stored>> /\ Answer(req)
           ELSE /\ job' = IF takes \/ job.undo = <<>> THEN rest ELSE [job EXCEPT !.pc = "undo"]
                /\ IF req = NoRequest
                   THEN saves /\ UNCHANGED <<core, stored, dhist>>
                   ELSE /\ persistLocked([core EXCEPT !.recs[req].applied = takes, !.recs[req].attempts = @ + 1], saves)
                        /\ IF takes THEN Answer(req) ELSE UNCHANGED dhist

\* The access service refused a new request: what it made is taken back, and that is saved.
rollbackSync == \E ok \in BOOLEAN :
    /\ job.pc = "undo" /\ May(ok) /\ Cost(ok)
    /\ persistLocked([core EXCEPT !.emps = job.undo[1].emps, !.recs = job.undo[1].recs], ok)
    /\ job' = Unlocked
    /\ UNCHANGED dhist

(* ------------------------------ specification -------------------------- *)

DirInit ==
    /\ \E dom \in {"none", "active"} : core =
              [dom |-> dom, idp |-> [provider |-> "saml", on |-> TRUE, jit |-> TRUE], emps |-> <<>>,
               recs |-> [r \in RequestIds |-> NoRecord], apprs |-> <<>>]
    /\ stored = core
    /\ job = Unlocked
    /\ dhist = [order |-> <<>>, answered |-> {}, out |-> {}, approved |-> {}, made |-> {}]
    /\ budget = [op |-> MaxDirOps, fault |-> MaxDirFaults]

DirNext ==
    \/ createEnterpriseDomainMapping
    \/ updateEnterpriseDomainMappingStatus
    \/ upsertEnterpriseIDPConfig
    \/ \E req \in RequestIds : syncEnterpriseEmployees(req)
    \/ syncEnterpriseEmployees(NoRequest)
    \/ reconcileEnterpriseEmployeeSync
    \/ reconcilePendingEnterpriseSyncRequests
    \/ runEnterpriseSyncReconcileWorkerTick
    \/ applyAccessForSyncRecordLocked
    \/ rollbackSync

(* ------------------------------- properties ---------------------------- *)

(***************************************************************************)
(* A synchronisation that was answered with a success stays in the         *)
(* directory until a later one replaces it: whatever is retried, refused   *)
(* and rolled back, reconciled or restarted, no employee it wrote goes     *)
(* back to a request that took effect before it.                           *)
(***************************************************************************)
Place(req) == LET S == {i \in DOMAIN dhist.order : dhist.order[i] = req}
              IN  IF S = {} THEN 0 ELSE CHOOSE i \in S : TRUE

AnsweredSyncKept ==
    Free => \A req \in dhist.answered : \A k \in DOMAIN core.recs[req].items :
        \E i \in DOMAIN core.emps :
            /\ core.emps[i].id = core.recs[req].items[k].id
            /\ core.emps[i].by \in dhist.answered => Place(core.emps[i].by) >= Place(req)
=============================================================================
