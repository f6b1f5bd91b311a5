----------------------------- MODULE WalletJobs -----------------------------
(***************************************************************************)
(* Pass-issue jobs of the wallet service: batches, the claim of            *)
(* ProcessIssueJobs, its worker goroutines (which read a job, check the    *)
(* template and write the result in three critical sections), the manual   *)
(* RetryJob, and the dead-letter queue.                                    *)
(***************************************************************************)
EXTENDS WalletPasses

CONSTANTS Jobs, Workers,
          MaxRetry,   \* options.MaxRetry
          Limit       \* options.Limit: jobs claimed by one call

VARIABLES jobs,    \* Jobs -> [status, err, target, retry, pass]
          queue,   \* jobCh: claimed job ids (of all calls), how often each
          worker,  \* what a goroutine of ProcessIssueJobs is doing
          stranded \* history: jobs a restart loaded as "processing"

ASSUME WalletJobsAssumption == MaxRetry \in Nat /\ Limit \in Nat \ {0}

jobVars == <<jobs, queue, worker, stranded>>

None == "none"
JobStatus == {"none", "pending", "processing", "success", "failed", "dlq", "removed"}
JobErr == {"", "target_id_required", "issue_failed", "template_inactive"}
JobType == [status: JobStatus, err: JobErr, target: BOOLEAN,
            retry: 0..(MaxRetry + MaxOps), pass: Passes \cup {None}]
WorkerType == [pc: {"idle", "copied", "succeed", "fail"}, job: Jobs \cup {None}, err: JobErr]

Idle == [pc |-> "idle", job |-> None, err |-> ""]
\* An id is never the word that stands for no pass.
ASSUME NoneAssumption == None \notin Passes

NoJob == [status |-> "none", err |-> "", target |-> FALSE, retry |-> 0, pass |-> None]

InStatus(s) == {j \in Jobs : jobs[j].status = s}
Exists(j) == jobs[j].status \notin {"none", "removed"}

\* The job as it is after an outcome that issued pass p, and after an error.
Succeeded(job, p) == [job EXCEPT !.status = "success", !.err = "", !.pass = p]
FailedWith(job, s, e) == [job EXCEPT !.status = s, !.err = e]

\* A claimed job is owned: its id is in a channel or a goroutine works on it.
Owned(j) == queue[j] > 0 \/ \E w \in Workers : worker[w].job = j

JobsInit == /\ jobs = [j \in Jobs |-> NoJob]
            /\ queue = [j \in Jobs |-> 0]
            /\ worker = [w \in Workers |-> Idle]
            /\ stranded = {}

-----------------------------------------------------------------------------
(* Requests.                                                               *)

\* A target whose id is blank makes a job that failed from the start.
NewJob(hasTarget) ==
    [NoJob EXCEPT !.target = hasTarget,
                  !.status = IF hasTarget THEN "pending" ELSE "failed",
                  !.err    = IF hasTarget THEN "" ELSE "target_id_required"]

IssuePassBatchQueued(S, withTarget) ==
    /\ Request /\ template
    /\ jobs' = [j \in Jobs |-> IF j \in S THEN NewJob(j \in withTarget) ELSE jobs[j]]
    /\ UNCHANGED <<passes, template, queue, worker, stranded>>

\* The inline batch issues while it holds the lock; done is where it could.
IssuePassBatch(S, withTarget, done, id) ==
    /\ Request /\ template
    /\ jobs' = [j \in Jobs |->
         CASE j \in done                -> Succeeded(NewJob(TRUE), id[j])
           [] j \in withTarget \ done   -> FailedWith(NewJob(TRUE), "failed", "issue_failed")
           [] j \in S \ withTarget      -> NewJob(FALSE)
           [] OTHER                     -> jobs[j]]
    /\ passes' = [p \in Passes |-> IF \E j \in done : id[j] = p THEN Issued(TRUE) ELSE passes[p]]
    /\ UNCHANGED <<template, queue, worker, stranded>>

\* RetryJob issues a pass for any job that has not succeeded, whoever has
\* claimed it; override: the request names a target.
RetryJob(j, override) ==
    LET target == jobs[j].target \/ override
        tried  == [jobs[j] EXCEPT !.retry = @ + 1, !.target = target]
    IN  /\ Request /\ Exists(j) /\ jobs[j].status # "success" /\ template
        /\ \/ /\ ~target
              /\ jobs' = [jobs EXCEPT ![j] = FailedWith(tried, "failed", "target_id_required")]
              /\ UNCHANGED passes
           \/ /\ target   \* createPassRecord failed
              /\ jobs' = [jobs EXCEPT ![j] = FailedWith(tried, "failed", "issue_failed")]
              /\ UNCHANGED passes
           \/ /\ target
              /\ \E p \in Fresh :
                   /\ passes' = [passes EXCEPT ![p] = Issued(TRUE)]
                   /\ jobs' = [jobs EXCEPT ![j] = Succeeded(tried, p)]
        /\ UNCHANGED <<template, queue, worker, stranded>>

\* Those the filter and the limit select.  Every job in the dead-letter queue
\* has a target.
RequeueDLQJobs(S) ==
    /\ Request
    /\ jobs' = [j \in Jobs |-> IF j \in S
                               THEN [jobs[j] EXCEPT !.status = "pending", !.retry = 0, !.err = ""]
                               ELSE jobs[j]]
    /\ UNCHANGED <<passes, template, queue, worker, stranded>>

RequeueDLQJob(j) == jobs[j].status = "dlq" /\ RequeueDLQJobs({j})

\* CleanupDLQJobs removes those that are old enough.
CleanupDLQJobs(S) ==
    /\ Request
    /\ jobs' = [j \in Jobs |-> IF j \in S THEN [NoJob EXCEPT !.status = "removed"] ELSE jobs[j]]
    /\ UNCHANGED <<passes, template, queue, worker, stranded>>

JobRequest ==
    \/ \E S \in SUBSET InStatus("none") \ {{}} : \E withTarget \in SUBSET S :
          \/ IssuePassBatchQueued(S, withTarget)
          \/ \E done \in SUBSET withTarget : \E id \in [done -> Fresh] :
                /\ \A i, j \in done : id[i] = id[j] => i = j
                /\ IssuePassBatch(S, withTarget, done, id)
    \/ \E j \in Jobs : RequeueDLQJob(j) \/ \E override \in BOOLEAN : RetryJob(j, override)
    \/ \E S \in SUBSET InStatus("dlq") \ {{}} : RequeueDLQJobs(S) \/ CleanupDLQJobs(S)

-----------------------------------------------------------------------------
(* ProcessIssueJobs.                                                       *)

IsAutoRetryableJob(j) == /\ jobs[j].status = "failed"
                         /\ jobs[j].err = "issue_failed"
                         /\ jobs[j].retry < MaxRetry

Processable == InStatus("pending") \cup {j \in Jobs : IsAutoRetryableJob(j)}

\* The claim is a critical section of its own and saves nothing.
ClaimProcessableJobs ==
    /\ Processable # {}
    /\ \E S \in SUBSET Processable :
         /\ Cardinality(S) = IF Cardinality(Processable) < Limit
                             THEN Cardinality(Processable) ELSE Limit
         /\ jobs' = [j \in Jobs |->
              IF j \notin S THEN jobs[j]
              ELSE [jobs[j] EXCEPT !.status = "processing", !.err = "",
                                   !.retry = IF jobs[j].status = "failed" THEN @ + 1 ELSE @]]
         /\ queue' = [j \in Jobs |-> IF j \in S THEN queue[j] + 1 ELSE queue[j]]
    /\ UNCHANGED <<passes, template, ops, worker, stranded>>

\* First read lock: a job that is gone or no longer "processing" is skipped.
TakeJob(w, j) ==
    /\ worker[w].pc = "idle" /\ queue[j] > 0
    /\ queue' = [queue EXCEPT ![j] = @ - 1]
    /\ worker' = [worker EXCEPT ![w] =
         IF jobs[j].status = "processing" THEN [pc |-> "copied", job |-> j, err |-> ""] ELSE Idle]
    /\ UNCHANGED <<passes, template, ops, jobs, stranded>>

\* A worker that waits until the template is active again.
CheckTemplate_Bug(w) ==
    /\ worker[w].pc = "copied" /\ template
    /\ worker' = [worker EXCEPT ![w].pc = "succeed"]
    /\ UNCHANGED <<passes, template, ops, jobs, queue, stranded>>

\* Second read lock, after the backoff: the template; then the record is
\* created without a lock.  Templates are never deleted and a processing job
\* has a target, so the two other errors of this function cannot occur.
CheckTemplate(w) ==
    /\ worker[w].pc = "copied"
    /\ worker' = [worker EXCEPT ![w].pc = IF template THEN "succeed" ELSE "fail",
                                ![w].err = IF template THEN "" ELSE "template_inactive"]
    /\ UNCHANGED <<passes, template, ops, jobs, queue, stranded>>

IssueFails(w) ==
    /\ worker[w].pc = "succeed"
    /\ worker' = [worker EXCEPT ![w].pc = "fail", ![w].err = "issue_failed"]
    /\ UNCHANGED <<passes, template, ops, jobs, queue, stranded>>

ResolveJobFailureStatus(job, err) ==
    IF err = "issue_failed" /\ job.retry < MaxRetry THEN "failed" ELSE "dlq"

\* setJobFailure does not look at the status the job has by now.
SetJobFailure(w) ==
    LET j == worker[w].job
        e == worker[w].err
    IN  /\ worker[w].pc = "fail"
        /\ jobs' = IF Exists(j)
                   THEN [jobs EXCEPT ![j] = FailedWith(@, ResolveJobFailureStatus(@, e), e)]
                   ELSE jobs
        /\ worker' = [worker EXCEPT ![w] = Idle]
        /\ UNCHANGED <<passes, template, ops, queue, stranded>>

\* The pass list is saved with the job but the pass is not put into it.
SetJobSuccess_Bug(w) ==
    LET j == worker[w].job
    IN  /\ worker[w].pc = "succeed"
        /\ \E p \in Fresh : jobs' = [jobs EXCEPT ![j] = Succeeded(@, p)]
        /\ worker' = [worker EXCEPT ![w] = Idle]
        /\ UNCHANGED <<passes, template, ops, queue, stranded>>

SetJobSuccess(w) ==
    LET j == worker[w].job
    IN  /\ worker[w].pc = "succeed"
        /\ IF jobs[j].status = "processing"
           THEN \E p \in Fresh : /\ passes' = [passes EXCEPT ![p] = Issued(TRUE)]
                                 /\ jobs' = [jobs EXCEPT ![j] = Succeeded(@, p)]
           ELSE UNCHANGED <<passes, jobs>>
        /\ worker' = [worker EXCEPT ![w] = Idle]
        /\ UNCHANGED <<template, ops, queue, stranded>>

WorkerStep(w) == (\E j \in Jobs : TakeJob(w, j)) \/ CheckTemplate(w)
WorkerSaves(w) == SetJobFailure(w) \/ SetJobSuccess(w)
=============================================================================
