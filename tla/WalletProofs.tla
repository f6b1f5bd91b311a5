---------------------------- MODULE WalletProofs ----------------------------
(* Proofs about the wallet service, for any number of passes, jobs,        *)
(* workers, cards and tasks and any bounds.                                *)
EXTENDS Wallet, TLAPS

-----------------------------------------------------------------------------
(* The inductive invariant.                                                *)

\* JobType without the bound on attempts.
JobShape == [status : JobStatus, err : JobErr, target : BOOLEAN, retry : Nat, pass : Passes \cup {None}]

\* A job that names a pass names one that is on record, and names it alone;
\* also a job that failed again after it had its pass.
OwnPass(js, ps) ==
    \A j \in Jobs : /\ js[j].status = "success" => js[j].pass # None
                    /\ js[j].pass # None =>
                          /\ ps[js[j].pass].status # "none"
                          /\ \A k \in Jobs \ {j} : js[k].pass # js[j].pass

MemInv == /\ passes \in [Passes -> PassType] /\ jobs \in [Jobs -> JobShape]
          /\ worker \in [Workers -> WorkerType]
          /\ OwnPass(jobs, passes)

DbInv == /\ db.passes \in [Passes -> PassType] /\ db.jobs \in [Jobs -> JobShape]
         /\ OwnPass(db.jobs, db.passes)

Inv == MemInv /\ DbInv /\ StoredRevokedFinal

-----------------------------------------------------------------------------
(* Passes: a pass on record stays on record, a revoked one stays revoked.  *)

PassStep == /\ passes' \in [Passes -> PassType]
            /\ \A p \in Passes : /\ passes[p].status # "none" => passes'[p].status # "none"
                                 /\ passes[p].status = "revoked" => passes'[p].status = "revoked"

\* One pass gets a value that respects both.
LEMMA PassSet ==
    ASSUME passes \in [Passes -> PassType], NEW p \in Passes, NEW v \in PassType,
           passes' = [passes EXCEPT ![p] = v],
           passes[p].status # "none" => v.status # "none",
           passes[p].status = "revoked" => v.status = "revoked"
    PROVE  PassStep
BY DEF PassStep

LEMMA PassStay ==
    ASSUME passes \in [Passes -> PassType], passes' = passes
    PROVE  PassStep
BY DEF PassStep

LEMMA IssuedType == \A u \in BOOLEAN : Issued(u) \in PassType /\ Issued(u).status = "issued"
<1> SUFFICES ASSUME NEW u \in BOOLEAN PROVE Issued(u) \in PassType /\ Issued(u).status = "issued"
  OBVIOUS
<1> QED
  BY DEF Issued, PassType, PassStatus

LEMMA ActiveType ==
    LET v == [status |-> "active", user |-> TRUE] IN v \in PassType /\ v.status = "active"
BY DEF PassType, PassStatus

\* Setting the status of a pass, and what it was before.
LEMMA StatusSet ==
    ASSUME NEW v \in PassType, NEW s \in PassStatus
    PROVE  [v EXCEPT !.status = s] \in PassType /\ [v EXCEPT !.status = s].status = s
BY DEF PassType

LEMMA PassRequestStep ==
    ASSUME passes \in [Passes -> PassType], PassRequest
    PROVE  PassStep
<1>1. CASE UpdateTemplateStatus
  BY <1>1, PassStay DEF UpdateTemplateStatus
<1>2. ASSUME NEW p \in Passes,
             \/ CreateUnassignedCard(p) \/ IssuePass(p) \/ EnrollApplePass(p) \/ RegisterNFCCard(p)
             \/ AssignPass(p) \/ DeassignPass(p)
      PROVE  PassStep
  <2>1. PICK v \in PassType : /\ passes' = [passes EXCEPT ![p] = v] /\ v.status \in {"issued", "active"}
                              /\ passes[p].status # "revoked"
    BY <1>2, IssuedType, ActiveType DEF CreateUnassignedCard, IssuePass, EnrollApplePass,
       RegisterNFCCard, RecordActive, AssignPass, DeassignPass, Fresh
  <2> QED
    BY <2>1, PassSet
<1>3. ASSUME NEW p \in Passes, NEW s \in {"suspended", "active", "revoked"}, UpdatePassStatus(p, s)
      PROVE  PassStep
  <2>1. PICK v : v = [passes[p] EXCEPT !.status = s]
    OBVIOUS
  <2>2. v \in PassType /\ v.status = s
    <3>1. passes[p] \in PassType /\ s \in PassStatus
      BY DEF PassStatus
    <3> QED
      BY <2>1, <3>1, StatusSet
  <2>3. passes' = [passes EXCEPT ![p] = v]
    BY <1>3, <2>1 DEF UpdatePassStatus
  <2>4. passes[p].status = "revoked" => s = "revoked"
    BY <1>3 DEF UpdatePassStatus, CanTransitPassStatus
  <2> QED
    BY <2>2, <2>3, <2>4, PassSet
<1> QED
  BY <1>1, <1>2, <1>3 DEF PassRequest

\* A card touches a pass only where its status may go.
LEMMA CardRequestStep ==
    ASSUME passes \in [Passes -> PassType], CardRequest
    PROVE  PassStep
<1>1. ASSUME NEW t \in Tasks, NEW c \in Cards \cup {Nil}, NEW s \in TaskStatus,
             UpdatePhysicalCardTaskStatus(t, s, c)
      PROVE  PassStep
  <2>1. PICK p : p = tasks[t].pass
    OBVIOUS
  <2>2. PICK v : v = PassAfter(passes[p], tasks[t].type, s)
    OBVIOUS
  <2>3. passes' = [passes EXCEPT ![p] = v]
    BY <1>1, <2>1, <2>2 DEF UpdatePhysicalCardTaskStatus
  <2>4. CASE p \in Passes
    <3>1. v \in PassType /\ (v = passes[p] \/ (v.status \in {"suspended", "active"} /\ passes[p].status # "revoked"))
      BY <2>2, <2>4, StatusSet DEF PassAfter, CanTransitPassStatus, PassStatus
    <3> QED
      BY <2>3, <2>4, <3>1, PassSet
  <2>5. CASE p \notin Passes
    <3>1. passes' = passes
      BY <2>3, <2>5
    <3> QED
      BY <3>1, PassStay
  <2> QED
    BY <2>4, <2>5
<1>2. CASE passes' = passes
  BY <1>2, PassStay
<1> QED
  BY <1>1, <1>2 DEF CardRequest, ScanInventory, CreateInventoryItem, ImportInventory,
     UpdateInventoryStatus, BatchUpdateInventoryStatus, CreatePhysicalCardTask

-----------------------------------------------------------------------------
(* Jobs.                                                                   *)

\* Jobs keep their pass, lose it, or get one that was fresh, each its own.
JobStep ==
    /\ jobs' \in [Jobs -> JobShape]
    /\ \A j \in Jobs : \/ jobs'[j].pass \in {jobs[j].pass, None}
                       \/ jobs'[j].pass \in Fresh /\ passes'[jobs'[j].pass].status # "none"
    /\ \A j \in Jobs : \A k \in Jobs \ {j} : jobs'[j].pass \in Fresh => jobs'[k].pass # jobs'[j].pass
    /\ \A j \in Jobs : jobs'[j].status = "success" => jobs'[j].pass # None

LEMMA OwnKept ==
    ASSUME MemInv, PassStep, JobStep
    PROVE  OwnPass(jobs', passes')
<1> SUFFICES ASSUME NEW j \in Jobs, jobs'[j].pass # None
             PROVE  /\ passes'[jobs'[j].pass].status # "none"
                    /\ \A k \in Jobs \ {j} : jobs'[k].pass # jobs'[j].pass
  BY DEF OwnPass, JobStep
<1>1. CASE jobs'[j].pass \in Fresh
  <2>1. jobs[j].pass # jobs'[j].pass
    BY <1>1 DEF MemInv, OwnPass, Fresh
  <2> QED
    BY <1>1, <2>1 DEF JobStep
<1>2. CASE jobs'[j].pass \notin Fresh
  <2>1. jobs'[j].pass = jobs[j].pass /\ jobs[j].pass \in Passes
    BY <1>2 DEF JobStep, MemInv, JobShape
  <2>2. /\ passes[jobs[j].pass].status # "none"
        /\ \A k \in Jobs \ {j} : jobs[k].pass # jobs[j].pass
    BY <2>1 DEF MemInv, OwnPass
  <2>3. passes'[jobs'[j].pass].status # "none"
    BY <2>1, <2>2 DEF PassStep
  <2>4. ASSUME NEW k \in Jobs \ {j} PROVE jobs'[k].pass # jobs'[j].pass
    BY <1>2, <2>1, <2>2, NoneAssumption DEF JobStep
  <2> QED
    BY <2>3, <2>4
<1> QED
  BY <1>1, <1>2

\* No job changes.
LEMMA JobsStay ==
    ASSUME MemInv, PassStep, jobs' = jobs
    PROVE  jobs' \in [Jobs -> JobShape] /\ OwnPass(jobs', passes')
<1>1. \A j \in Jobs : jobs[j].pass # None => jobs[j].pass \in Passes
  BY DEF MemInv, JobShape
<1> QED
  BY <1>1 DEF MemInv, OwnPass, PassStep

\* Shapes of the jobs the operations write.
LEMMA Shapes ==
    /\ NoJob \in JobShape /\ NoJob.pass = None /\ NoJob.status = "none"
    /\ \A b \in BOOLEAN : NewJob(b) \in JobShape /\ NewJob(b).pass = None /\ NewJob(b).status # "success"
    /\ [NoJob EXCEPT !.status = "removed"] \in JobShape
    /\ [NoJob EXCEPT !.status = "removed"].pass = None
    /\ [NoJob EXCEPT !.status = "removed"].status = "removed"
<1>1. NoJob \in JobShape /\ NoJob.pass = None /\ NoJob.status = "none"
  BY DEF NoJob, JobShape, JobStatus, JobErr
<1>2. ASSUME NEW b \in BOOLEAN
      PROVE  NewJob(b) \in JobShape /\ NewJob(b).pass = None /\ NewJob(b).status # "success"
  <2>1. PICK st, er : st = (IF b THEN "pending" ELSE "failed") /\ er = (IF b THEN "" ELSE "target_id_required")
    OBVIOUS
  <2>2. st \in JobStatus \ {"success"} /\ er \in JobErr
    BY <2>1 DEF JobStatus, JobErr
  <2>3. NewJob(b) = [NoJob EXCEPT !.target = b, !.status = st, !.err = er]
    BY <2>1 DEF NewJob
  <2> QED
    BY <1>1, <2>2, <2>3 DEF JobShape
<1>3. /\ [NoJob EXCEPT !.status = "removed"] \in JobShape
      /\ [NoJob EXCEPT !.status = "removed"].pass = None
      /\ [NoJob EXCEPT !.status = "removed"].status = "removed"
  BY <1>1 DEF JobShape, JobStatus
<1> QED
  BY <1>1, <1>2, <1>3

LEMMA SucceededShape ==
    ASSUME NEW g \in JobShape, NEW p \in Passes
    PROVE  Succeeded(g, p) \in JobShape /\ Succeeded(g, p).pass = p
BY DEF Succeeded, JobShape, JobStatus, JobErr

LEMMA FailedShape ==
    ASSUME NEW g \in JobShape, NEW s \in JobStatus, NEW e \in JobErr
    PROVE  FailedWith(g, s, e) \in JobShape /\ FailedWith(g, s, e).pass = g.pass /\ FailedWith(g, s, e).status = s
BY DEF FailedWith, JobShape

\* A step on jobs alone that gives no pass away.
LEMMA JobsWithoutPass ==
    ASSUME MemInv, passes' = passes, jobs' \in [Jobs -> JobShape],
           \A j \in Jobs : /\ jobs'[j].pass \in {jobs[j].pass, None}
                           /\ jobs'[j].status = "success" => jobs'[j].pass # None
    PROVE  PassStep /\ OwnPass(jobs', passes')
<1>1. PassStep
  BY PassStay DEF MemInv
<1>2. \A j \in Jobs : jobs[j].pass \notin Fresh /\ None \notin Fresh
  BY NoneAssumption DEF MemInv, OwnPass, Fresh
<1>3. JobStep
  BY <1>2 DEF JobStep
<1> QED
  BY <1>1, <1>3, OwnKept

\* One job gets a fresh pass.
LEMMA JobGetsPass ==
    ASSUME MemInv, NEW j \in Jobs, NEW p \in Fresh, NEW g \in JobShape,
           passes' = [passes EXCEPT ![p] = Issued(TRUE)], jobs' = [jobs EXCEPT ![j] = g],
           g.pass = p
    PROVE  PassStep /\ jobs' \in [Jobs -> JobShape] /\ OwnPass(jobs', passes')
<1>1. p \in Passes /\ passes[p].status = "none"
  BY DEF Fresh
<1>2. PassStep
  BY <1>1, IssuedType, PassSet DEF MemInv
<1>3. \A k \in Jobs : jobs[k].pass \notin Fresh /\ None \notin Fresh
  BY NoneAssumption DEF MemInv, OwnPass, Fresh
<1>4. passes'[p].status # "none" /\ jobs' \in [Jobs -> JobShape]
  BY <1>1, IssuedType DEF MemInv
<1>5. /\ jobs'[j].pass = p
      /\ \A k \in Jobs \ {j} : jobs'[k] = jobs[k]
  BY DEF MemInv
<1>6. \A k \in Jobs : jobs[k].status = "success" => jobs[k].pass # None
  BY DEF MemInv, OwnPass
<1>7. JobStep
  BY <1>1, <1>3, <1>4, <1>5, <1>6, NoneAssumption DEF JobStep
<1> QED
  BY <1>2, <1>4, <1>7, OwnKept

LEMMA IssuePassBatchStep ==
    ASSUME MemInv, NEW S \in SUBSET InStatus("none"), NEW withTarget \in SUBSET S,
           NEW done \in SUBSET withTarget, NEW id \in [done -> Fresh],
           \A i, j \in done : id[i] = id[j] => i = j,
           IssuePassBatch(S, withTarget, done, id)
    PROVE  PassStep /\ jobs' \in [Jobs -> JobShape] /\ OwnPass(jobs', passes')
<1>1. \A j \in done : id[j] \in Passes /\ passes[id[j]].status = "none" /\ id[j] \in Fresh
  BY DEF Fresh
<1>2. passes' = [p \in Passes |-> IF \E j \in done : id[j] = p THEN Issued(TRUE) ELSE passes[p]]
  BY DEF IssuePassBatch
<1>3. PassStep
  BY <1>1, <1>2, IssuedType DEF PassStep, MemInv
<1>4. /\ NewJob(TRUE) \in JobShape /\ NewJob(FALSE) \in JobShape
      /\ NewJob(TRUE).pass = None /\ NewJob(FALSE).pass = None /\ NewJob(FALSE).status # "success"
  BY Shapes
<1>5. \A j \in Jobs : /\ j \in done => jobs'[j] = Succeeded(NewJob(TRUE), id[j])
                      /\ j \in withTarget \ done => jobs'[j] = FailedWith(NewJob(TRUE), "failed", "issue_failed")
                      /\ j \in S \ withTarget => jobs'[j] = NewJob(FALSE)
                      /\ j \notin S => jobs'[j] = jobs[j]
  BY DEF IssuePassBatch
<1>6. ASSUME NEW j \in Jobs
      PROVE  /\ jobs'[j] \in JobShape
             /\ j \in done => jobs'[j].pass = id[j]
             /\ j \notin done => jobs'[j].pass \in {jobs[j].pass, None}
             /\ j \notin done /\ jobs'[j].status = "success" => jobs'[j].pass # None
  <2>1. CASE j \in done
    <3>1. PICK f : f = Succeeded(NewJob(TRUE), id[j])
      OBVIOUS
    <3>2. f \in JobShape /\ f.pass = id[j]
      BY <2>1, <3>1, <1>1, <1>4, SucceededShape
    <3>3. jobs'[j] = f
      BY <2>1, <3>1, <1>5
    <3> QED
      BY <2>1, <3>2, <3>3
  <2>2. CASE j \in withTarget \ done
    <3>1. "failed" \in JobStatus /\ "issue_failed" \in JobErr
      BY DEF JobStatus, JobErr
    <3>2. PICK f : f = FailedWith(NewJob(TRUE), "failed", "issue_failed")
      OBVIOUS
    <3>3. f \in JobShape /\ f.pass = None /\ f.status = "failed"
      BY <3>1, <3>2, <1>4, FailedShape
    <3>4. jobs'[j] = f
      BY <2>2, <3>2, <1>5
    <3> QED
      BY <2>2, <3>3, <3>4
  <2>3. CASE j \in S \ withTarget
    BY <2>3, <1>4, <1>5
  <2>4. CASE j \notin S
    BY <2>4, <1>5 DEF MemInv, OwnPass
  <2> QED
    BY <2>1, <2>2, <2>3, <2>4
<1>7. jobs' \in [Jobs -> JobShape]
  <2>1. jobs' = [j \in Jobs |-> jobs'[j]]
    BY DEF IssuePassBatch
  <2> QED
    BY <2>1, <1>6
<1>8. \A k \in Jobs : jobs[k].pass \notin Fresh /\ None \notin Fresh
  BY NoneAssumption DEF MemInv, OwnPass, Fresh
<1>9. \A j \in done : passes'[id[j]].status # "none"
  BY <1>1, <1>2, IssuedType
<1>10. \A j \in Jobs : \A k \in Jobs \ {j} : jobs'[j].pass \in Fresh => jobs'[k].pass # jobs'[j].pass
  BY <1>1, <1>6, <1>8
<1>11. \A j \in Jobs : jobs'[j].status = "success" => jobs'[j].pass # None
  BY <1>1, <1>6, <1>8
<1>12. JobStep
  BY <1>1, <1>6, <1>7, <1>9, <1>10, <1>11 DEF JobStep
<1> QED
  BY <1>3, <1>7, <1>12, OwnKept

\* RetryJob: a job that had not succeeded fails again or gets its pass.
LEMMA RetryJobStep ==
    ASSUME MemInv, NEW j \in Jobs, NEW override \in BOOLEAN, RetryJob(j, override)
    PROVE  PassStep /\ jobs' \in [Jobs -> JobShape] /\ OwnPass(jobs', passes')
<1>1. PICK b \in BOOLEAN : b = (jobs[j].target \/ override)
  OBVIOUS
<1>2. PICK g : g = [jobs[j] EXCEPT !.retry = @ + 1, !.target = b]
  OBVIOUS
<1>3. jobs[j] \in JobShape
  BY DEF MemInv
<1>4. g \in JobShape /\ g.pass = jobs[j].pass
  <2>1. PICK n \in Nat : n = jobs[j].retry + 1
    BY <1>3 DEF JobShape
  <2>2. g = [jobs[j] EXCEPT !.retry = n, !.target = b]
    BY <1>2, <2>1
  <2> QED
    BY <1>3, <2>2 DEF JobShape
<1>5. \/ \E e \in {"target_id_required", "issue_failed"} :
            jobs' = [jobs EXCEPT ![j] = FailedWith(g, "failed", e)] /\ passes' = passes
      \/ \E p \in Fresh : /\ passes' = [passes EXCEPT ![p] = Issued(TRUE)]
                          /\ jobs' = [jobs EXCEPT ![j] = Succeeded(g, p)]
  BY <1>1, <1>2 DEF RetryJob
<1>6. ASSUME NEW e \in {"target_id_required", "issue_failed"},
             jobs' = [jobs EXCEPT ![j] = FailedWith(g, "failed", e)], passes' = passes
      PROVE  PassStep /\ jobs' \in [Jobs -> JobShape] /\ OwnPass(jobs', passes')
  <2>1. "failed" \in JobStatus /\ e \in JobErr
    BY DEF JobStatus, JobErr
  <2>2. PICK f \in JobShape : /\ f = FailedWith(g, "failed", e) /\ f.pass = jobs[j].pass /\ f.status = "failed"
    BY <1>4, <2>1, FailedShape
  <2>3. jobs' = [jobs EXCEPT ![j] = f] /\ jobs' \in [Jobs -> JobShape]
    BY <1>6, <2>2 DEF MemInv
  <2>4. \A k \in Jobs : /\ jobs'[k].pass \in {jobs[k].pass, None}
                        /\ jobs'[k].status = "success" => jobs'[k].pass # None
    BY <2>2, <2>3 DEF MemInv, OwnPass
  <2> QED
    BY <1>6, <2>3, <2>4, JobsWithoutPass
<1>7. ASSUME NEW p \in Fresh, passes' = [passes EXCEPT ![p] = Issued(TRUE)],
             jobs' = [jobs EXCEPT ![j] = Succeeded(g, p)]
      PROVE  PassStep /\ jobs' \in [Jobs -> JobShape] /\ OwnPass(jobs', passes')
  <2>1. p \in Passes
    BY DEF Fresh
  <2>2. Succeeded(g, p) \in JobShape /\ Succeeded(g, p).pass = p
    BY <1>4, <2>1, SucceededShape
  <2> QED
    BY <1>7, <2>2, JobGetsPass
<1> QED
  BY <1>5, <1>6, <1>7

LEMMA JobRequestStep ==
    ASSUME MemInv, JobRequest
    PROVE  PassStep /\ jobs' \in [Jobs -> JobShape] /\ OwnPass(jobs', passes')
<1> DEFINE G == PassStep /\ jobs' \in [Jobs -> JobShape] /\ OwnPass(jobs', passes')
<1>1. ASSUME NEW S \in SUBSET InStatus("none"), NEW withTarget \in SUBSET S,
             IssuePassBatchQueued(S, withTarget)
      PROVE  G
  <2>1. \A j \in Jobs : IF j \in S THEN \E b \in BOOLEAN : jobs'[j] = NewJob(b) ELSE jobs'[j] = jobs[j]
    <3> SUFFICES ASSUME NEW j \in Jobs, j \in S PROVE \E b \in BOOLEAN : jobs'[j] = NewJob(b)
      BY <1>1 DEF IssuePassBatchQueued
    <3>1. jobs'[j] = NewJob(j \in withTarget)
      BY <1>1 DEF IssuePassBatchQueued
    <3>2. (j \in withTarget) \in BOOLEAN
      OBVIOUS
    <3> QED
      BY <3>1, <3>2
  <2>2. \A j \in Jobs : /\ jobs'[j] \in JobShape /\ jobs'[j].pass \in {jobs[j].pass, None}
                        /\ jobs'[j].status = "success" => jobs'[j].pass # None
    BY <2>1, Shapes DEF MemInv, OwnPass
  <2>3. jobs' \in [Jobs -> JobShape] /\ passes' = passes
    BY <1>1, <2>2 DEF IssuePassBatchQueued
  <2> QED
    BY <2>2, <2>3, JobsWithoutPass
<1>2. ASSUME NEW S \in SUBSET Jobs, RequeueDLQJobs(S) PROVE G
  <2>1. \A j \in Jobs : [jobs[j] EXCEPT !.status = "pending", !.retry = 0, !.err = ""] \in JobShape
    <3>1. "pending" \in JobStatus /\ "" \in JobErr
      BY DEF JobStatus, JobErr
    <3> QED
      BY <3>1 DEF MemInv, JobShape
  <2>2. \A j \in Jobs : LET f == [jobs[j] EXCEPT !.status = "pending", !.retry = 0, !.err = ""]
                        IN  f.pass = jobs[j].pass /\ f.status = "pending"
    BY DEF MemInv, JobShape
  <2>3. \A j \in Jobs : /\ jobs'[j] \in JobShape /\ jobs'[j].pass \in {jobs[j].pass, None}
                        /\ jobs'[j].status = "success" => jobs'[j].pass # None
    BY <1>2, <2>1, <2>2 DEF MemInv, OwnPass, RequeueDLQJobs
  <2>4. jobs' \in [Jobs -> JobShape] /\ passes' = passes
    BY <1>2, <2>3 DEF RequeueDLQJobs
  <2> QED
    BY <2>3, <2>4, JobsWithoutPass
<1>3. ASSUME NEW S \in SUBSET Jobs, CleanupDLQJobs(S) PROVE G
  <2>1. \A j \in Jobs : /\ jobs'[j] \in JobShape /\ jobs'[j].pass \in {jobs[j].pass, None}
                        /\ jobs'[j].status = "success" => jobs'[j].pass # None
    BY <1>3, Shapes DEF MemInv, OwnPass, CleanupDLQJobs
  <2>2. jobs' \in [Jobs -> JobShape] /\ passes' = passes
    BY <1>3, <2>1 DEF CleanupDLQJobs
  <2> QED
    BY <2>1, <2>2, JobsWithoutPass
<1>4. ASSUME NEW j \in Jobs, RequeueDLQJob(j) PROVE G
  BY <1>2, <1>4 DEF RequeueDLQJob
<1>5. InStatus("dlq") \in SUBSET Jobs
  BY DEF InStatus
<1> HIDE DEF G
<1>6. G
  BY <1>1, <1>2, <1>3, <1>4, <1>5, RetryJobStep, IssuePassBatchStep DEF JobRequest, G
<1> QED
  BY <1>6 DEF G

\* A claim changes status and counters of jobs, never their pass.
LEMMA ClaimStep ==
    ASSUME MemInv, ClaimProcessableJobs
    PROVE  MemInv'
<1>1. PICK S : jobs' = [j \in Jobs |->
              IF j \notin S THEN jobs[j]
              ELSE [jobs[j] EXCEPT !.status = "processing", !.err = "",
                                   !.retry = IF jobs[j].status = "failed" THEN @ + 1 ELSE @]]
  BY DEF ClaimProcessableJobs
<1>2. ASSUME NEW j \in Jobs
      PROVE  /\ jobs'[j] \in JobShape /\ jobs'[j].pass = jobs[j].pass
             /\ jobs'[j].status = "success" => jobs[j].status = "success"
  <2>1. PICK n \in Nat : n = IF jobs[j].status = "failed" THEN jobs[j].retry + 1 ELSE jobs[j].retry
    BY DEF MemInv, JobShape
  <2>2. jobs'[j] = jobs[j] \/ jobs'[j] = [jobs[j] EXCEPT !.status = "processing", !.err = "", !.retry = n]
    BY <1>1, <2>1
  <2>3. "processing" \in JobStatus /\ "" \in JobErr
    BY DEF JobStatus, JobErr
  <2> QED
    BY <2>2, <2>3 DEF MemInv, JobShape
<1>3. jobs' \in [Jobs -> JobShape]
  BY <1>1, <1>2
<1>4. passes' = passes /\ worker' = worker
  BY DEF ClaimProcessableJobs
<1>5. \A j \in Jobs : /\ jobs'[j].pass \in {jobs[j].pass, None}
                      /\ jobs'[j].status = "success" => jobs'[j].pass # None
  BY <1>2 DEF MemInv, OwnPass
<1>6. PassStep /\ OwnPass(jobs', passes')
  BY <1>3, <1>4, <1>5, JobsWithoutPass
<1> QED
  BY <1>3, <1>4, <1>6 DEF MemInv

\* A worker looks at a job or at the template.
LEMMA LookStep ==
    ASSUME MemInv, NEW w \in Workers, WorkerStep(w) \/ IssueFails(w)
    PROVE  MemInv'
<1>1. passes' = passes /\ jobs' = jobs
  BY DEF WorkerStep, IssueFails, TakeJob, CheckTemplate
<1>2. worker[w] \in WorkerType /\ Idle \in WorkerType
  BY DEF MemInv, Idle, WorkerType, JobErr
<1>3. PICK v \in WorkerType : worker' = [worker EXCEPT ![w] = v]
  <2>1. ASSUME NEW j \in Jobs, TakeJob(w, j) PROVE \E v \in WorkerType : worker' = [worker EXCEPT ![w] = v]
    <3>1. [pc |-> "copied", job |-> j, err |-> ""] \in WorkerType
      BY DEF WorkerType, JobErr
    <3> QED
      BY <2>1, <3>1, <1>2 DEF TakeJob
  <2>2. ASSUME NEW pc \in {"succeed", "fail"}, NEW e \in JobErr,
               worker' = [worker EXCEPT ![w].pc = pc, ![w].err = e]
        PROVE  \E v \in WorkerType : worker' = [worker EXCEPT ![w] = v]
    <3>1. [worker[w] EXCEPT !.pc = pc, !.err = e] \in WorkerType
      BY <1>2 DEF WorkerType
    <3>2. worker' = [worker EXCEPT ![w] = [worker[w] EXCEPT !.pc = pc, !.err = e]]
      BY <2>2 DEF MemInv
    <3> QED
      BY <3>1, <3>2
  <2>3. CASE CheckTemplate(w)
    <3>1. PICK pc \in {"succeed", "fail"}, e \in JobErr :
             /\ pc = IF template THEN "succeed" ELSE "fail"
             /\ e = IF template THEN "" ELSE "template_inactive"
      BY DEF JobErr
    <3> QED
      BY <2>2, <2>3, <3>1 DEF CheckTemplate
  <2>4. CASE IssueFails(w)
    <3>1. "issue_failed" \in JobErr
      BY DEF JobErr
    <3> QED
      BY <2>2, <2>4, <3>1 DEF IssueFails
  <2> QED
    BY <2>1, <2>3, <2>4 DEF WorkerStep
<1>4. worker' \in [Workers -> WorkerType]
  BY <1>3 DEF MemInv
<1> QED
  BY <1>1, <1>4 DEF MemInv

\* What a worker writes: a failure keeps the pass the job has by now, a
\* success gives a fresh one to a job that is still processing.
LEMMA WorkerSavesStep ==
    ASSUME MemInv, NEW w \in Workers, WorkerSaves(w)
    PROVE  PassStep /\ MemInv'
<1>1. PICK j : j = worker[w].job
  OBVIOUS
<1>2. worker' \in [Workers -> WorkerType]
  <2>1. Idle \in WorkerType
    BY DEF Idle, WorkerType, JobErr
  <2> QED
    BY <2>1 DEF WorkerSaves, SetJobFailure, SetJobSuccess, MemInv
<1>3. CASE passes' = passes /\ jobs' = jobs
  BY <1>2, <1>3, PassStay DEF MemInv
<1>4. CASE /\ j \in Jobs /\ passes' = passes
           /\ \E s \in JobStatus \ {"success"}, e \in JobErr : jobs' = [jobs EXCEPT ![j] = FailedWith(jobs[j], s, e)]
  <2>1. PICK s \in JobStatus \ {"success"}, e \in JobErr : jobs' = [jobs EXCEPT ![j] = FailedWith(jobs[j], s, e)]
    BY <1>4
  <2>2. jobs[j] \in JobShape
    BY <1>4 DEF MemInv
  <2>3. PICK f \in JobShape : f = FailedWith(jobs[j], s, e) /\ f.pass = jobs[j].pass /\ f.status = s
    BY <2>2, FailedShape
  <2>4. jobs' = [jobs EXCEPT ![j] = f] /\ jobs' \in [Jobs -> JobShape]
    BY <2>1, <2>3 DEF MemInv
  <2>5. \A k \in Jobs : /\ jobs'[k].pass \in {jobs[k].pass, None}
                        /\ jobs'[k].status = "success" => jobs'[k].pass # None
    BY <1>4, <2>3, <2>4 DEF MemInv, OwnPass
  <2> QED
    BY <1>2, <1>4, <2>4, <2>5, JobsWithoutPass DEF MemInv
<1>5. ASSUME NEW p \in Fresh, passes' = [passes EXCEPT ![p] = Issued(TRUE)],
             jobs' = [jobs EXCEPT ![j] = Succeeded(jobs[j], p)]
      PROVE  PassStep /\ MemInv'
  <2>1. p \in Passes /\ passes[p].status = "none"
    BY DEF Fresh
  <2>2. CASE j \in Jobs
    <3>1. jobs[j] \in JobShape
      BY <2>2 DEF MemInv
    <3>2. Succeeded(jobs[j], p) \in JobShape /\ Succeeded(jobs[j], p).pass = p
      BY <2>1, <3>1, SucceededShape
    <3>3. PassStep /\ jobs' \in [Jobs -> JobShape] /\ OwnPass(jobs', passes')
      BY <1>5, <2>2, <3>2, JobGetsPass
    <3> QED
      BY <1>2, <3>3 DEF MemInv, PassStep
  <2>3. CASE j \notin Jobs
    <3>1. jobs' = jobs
      BY <1>5, <2>3 DEF MemInv
    <3>2. PassStep
      BY <1>5, <2>1, IssuedType, PassSet DEF MemInv
    <3>3. jobs' \in [Jobs -> JobShape] /\ OwnPass(jobs', passes')
      BY <3>1, <3>2, JobsStay
    <3> QED
      BY <1>2, <3>2, <3>3 DEF MemInv, PassStep
  <2> QED
    BY <2>2, <2>3
<1>6. CASE SetJobFailure(w)
  <2>1. worker[w].err \in JobErr
    BY DEF MemInv, WorkerType
  <2>2. PICK s \in JobStatus \ {"success"} : s = ResolveJobFailureStatus(jobs[j], worker[w].err)
    BY DEF ResolveJobFailureStatus, JobStatus
  <2>3. passes' = passes /\ (jobs' = jobs \/ jobs' = [jobs EXCEPT ![j] = FailedWith(jobs[j], s, worker[w].err)])
    BY <1>1, <1>6, <2>2 DEF SetJobFailure
  <2>4. j \notin Jobs => jobs' = jobs
    BY <2>3 DEF MemInv
  <2> QED
    BY <1>3, <1>4, <2>1, <2>3, <2>4
<1>7. CASE SetJobSuccess(w)
  BY <1>1, <1>3, <1>5, <1>7 DEF SetJobSuccess
<1> QED
  BY <1>6, <1>7 DEF WorkerSaves

-----------------------------------------------------------------------------
(* The theorems.                                                           *)

\* A snapshot is what memory is, or the one before stays: either way what it
\* says revoked is revoked in memory.
LEMMA PersistInv ==
    ASSUME Inv, MemInv', PassStep, Persist
    PROVE  Inv'
<1>1. CASE db' = Snapshot'
  <2>1. db'.passes = passes' /\ db'.jobs = jobs'
    BY <1>1 DEF Snapshot
  <2> QED
    BY <2>1 DEF Inv, MemInv, DbInv, StoredRevokedFinal
<1>2. CASE db' = db
  <2>1. \A p \in Passes : db'.passes[p].status = "revoked" => passes'[p].status = "revoked"
    BY <1>2 DEF Inv, StoredRevokedFinal, PassStep
  <2> QED
    BY <1>2, <2>1 DEF Inv, DbInv, StoredRevokedFinal
<1> QED
  BY <1>1, <1>2 DEF Persist

LEMMA InitInv == Init => Inv
<1> SUFFICES ASSUME Init PROVE Inv
  OBVIOUS
<1>1. db.passes = passes /\ db.jobs = jobs
  BY DEF Init, Snapshot
<1>2. passes \in [Passes -> PassType]
  <2>1. PICK S \in SUBSET Stock :
           \E f \in [S -> Existing] : passes = [p \in Passes |-> IF p \in S THEN f[p] ELSE NoPass]
    BY DEF Init, PassesInit
  <2>2. NoPass \in PassType
    BY DEF NoPass, PassType, PassStatus
  <2>3. \A e \in Existing : e \in PassType
    BY DEF Existing, PassType
  <2> QED
    BY <2>1, <2>2, <2>3
<1>3. jobs \in [Jobs -> JobShape] /\ OwnPass(jobs, passes)
  BY Shapes DEF Init, JobsInit, OwnPass
<1>4. worker \in [Workers -> WorkerType]
  BY DEF Init, JobsInit, Idle, WorkerType, JobErr
<1> QED
  BY <1>1, <1>2, <1>3, <1>4 DEF Inv, MemInv, DbInv, StoredRevokedFinal

LEMMA RestartInv == ASSUME Inv, Restart PROVE Inv'
<1>1. passes' = db.passes /\ jobs' = db.jobs /\ db' = db
  BY DEF Restart
<1>2. worker' \in [Workers -> WorkerType]
  BY DEF Restart, Idle, WorkerType, JobErr
<1>3. MemInv' /\ DbInv'
  BY <1>1, <1>2 DEF Inv, DbInv, MemInv
<1> QED
  BY <1>1, <1>3 DEF Inv, StoredRevokedFinal

LEMMA StepInv == ASSUME Inv, [Next]_vars PROVE Inv'
<1>1. CASE ServePassRequest
  <2>1. PassStep /\ jobs' = jobs /\ worker' = worker /\ Persist
    BY <1>1, PassRequestStep DEF ServePassRequest, jobVars, Inv, MemInv
  <2>2. MemInv'
    BY <2>1, JobsStay DEF Inv, MemInv, PassStep
  <2> QED
    BY <2>1, <2>2, PersistInv
<1>2. CASE ServeJobRequest
  <2>1. PassStep /\ jobs' \in [Jobs -> JobShape] /\ OwnPass(jobs', passes')
    BY <1>2, JobRequestStep DEF ServeJobRequest, Inv
  <2>2. worker' = worker /\ Persist
    BY <1>2 DEF ServeJobRequest, JobRequest, IssuePassBatchQueued, IssuePassBatch, RetryJob,
       RequeueDLQJob, RequeueDLQJobs, CleanupDLQJobs
  <2>3. MemInv'
    BY <2>1, <2>2 DEF Inv, MemInv, PassStep
  <2> QED
    BY <2>1, <2>2, <2>3, PersistInv
<1>3. CASE ServeCardRequest
  <2>1. PassStep /\ jobs' = jobs /\ worker' = worker /\ Persist
    BY <1>3, CardRequestStep DEF ServeCardRequest, jobVars, Inv, MemInv
  <2>2. MemInv'
    BY <2>1, JobsStay DEF Inv, MemInv, PassStep
  <2> QED
    BY <2>1, <2>2, PersistInv
<1>4. CASE Claim
  <2>1. MemInv' /\ passes' = passes /\ db' = db
    BY <1>4, ClaimStep DEF Claim, ClaimProcessableJobs, Inv
  <2> QED
    BY <2>1 DEF Inv, DbInv, StoredRevokedFinal
<1>5. ASSUME NEW w \in Workers, Step(w) PROVE Inv'
  <2>1. MemInv' /\ passes' = passes /\ db' = db
    BY <1>5, LookStep DEF Step, WorkerStep, IssueFails, TakeJob, CheckTemplate, Inv
  <2> QED
    BY <2>1 DEF Inv, DbInv, StoredRevokedFinal
<1>6. ASSUME NEW w \in Workers, Save(w) PROVE Inv'
  BY <1>6, WorkerSavesStep, PersistInv DEF Save, Inv
<1>7. CASE UNCHANGED vars
  BY <1>7 DEF vars, passVars, jobVars, Inv, MemInv, DbInv, StoredRevokedFinal
<1> QED
  BY <1>1, <1>2, <1>3, <1>4, <1>5, <1>6, <1>7, RestartInv DEF Next

LEMMA Invariance == Spec => []Inv
<1> QED
  BY InitInv, StepInv, PTL DEF Spec

\* A pass whose revocation has been saved is revoked from then on, in memory
\* and in the store, through requests, jobs, cards and restarts.
THEOREM RevocationIsFinal == Spec => []StoredRevokedFinal
<1>1. Inv => StoredRevokedFinal
  BY DEF Inv
<1> QED
  BY Invariance, <1>1, PTL

\* A job that reports success names a pass on record that no other job
\* names, in memory and in the snapshot a restart loads.
THEOREM SuccessNamesOwnPass == Spec => []SuccessHasOwnPass
<1>1. Inv => SuccessHasOwnPass
  <2> SUFFICES ASSUME Inv,
                      NEW s \in {[jobs |-> jobs, passes |-> passes], [jobs |-> db.jobs, passes |-> db.passes]}
               PROVE  OwnPass(s.jobs, s.passes)
    BY DEF SuccessHasOwnPass, OwnPass
  <2> QED
    BY DEF Inv, MemInv, DbInv
<1> QED
  BY Invariance, <1>1, PTL
=============================================================================
