------------------------------- MODULE Wallet -------------------------------
(***************************************************************************)
(* The wallet service: jobs and cards over the same passes, one snapshot   *)
(* for all of them, and the restart of the API process.                    *)
(***************************************************************************)
EXTENDS WalletJobs, PhysicalCards

CONSTANT MaxFaults   \* bound on restarts and failed saves together

VARIABLES db,     \* the snapshot in the state store
          faults  \* restarts and failed saves so far

vars == <<passVars, jobVars, cardVars, db, faults>>

Snapshot == [passes |-> passes, template |-> template, jobs |-> jobs,
             cards |-> cards, tasks |-> tasks]

\* persistLocked at the end of an operation; when the save fails memory
\* keeps the change (requests report the error, setJobFailure drops it).
Persist == \/ db' = Snapshot' /\ UNCHANGED faults
           \/ db' = db /\ faults < MaxFaults /\ faults' = faults + 1

\* Any stock of passes and of cards that no task holds yet.
Init == /\ PassesInit /\ JobsInit /\ CardsInit
        /\ db = Snapshot
        /\ faults = 0

\* The process dies and restoreFromStateStore loads the snapshot; channels
\* and goroutines are gone.
Restart ==
    /\ faults < MaxFaults
    /\ faults' = faults + 1
    /\ passes' = db.passes /\ template' = db.template /\ jobs' = db.jobs
    /\ cards' = db.cards /\ tasks' = db.tasks
    /\ queue' = [j \in Jobs |-> 0]
    /\ worker' = [w \in Workers |-> Idle]
    /\ stranded' = {j \in Jobs : db.jobs[j].status = "processing"}
    /\ UNCHANGED <<ops, db>>

ServePassRequest == PassRequest /\ UNCHANGED <<jobVars, cardVars>> /\ Persist
ServeJobRequest  == JobRequest  /\ UNCHANGED cardVars /\ Persist
ServeCardRequest == CardRequest /\ UNCHANGED jobVars /\ Persist
Claim  == ClaimProcessableJobs /\ UNCHANGED <<cardVars, db, faults>>
Step(w) == (WorkerStep(w) \/ IssueFails(w)) /\ UNCHANGED <<cardVars, db, faults>>
Save(w) == WorkerSaves(w) /\ UNCHANGED cardVars /\ Persist

Next == \/ ServePassRequest \/ ServeJobRequest \/ ServeCardRequest
        \/ Claim \/ Restart
        \/ \E w \in Workers : Step(w) \/ Save(w)

\* The goroutines of a call run to their end (WaitGroup).
Spec == Init /\ [][Next]_vars /\ \A w \in Workers : WF_vars(Step(w) \/ Save(w))

-----------------------------------------------------------------------------
TypeOK == /\ passes \in [Passes -> PassType]
          /\ template \in BOOLEAN
          /\ ops \in 0..MaxOps
          /\ jobs \in [Jobs -> JobType]
          /\ queue \in [Jobs -> Nat]
          /\ worker \in [Workers -> WorkerType]
          /\ stranded \in SUBSET Jobs
          /\ cards \in [Cards -> CardType]
          /\ tasks \in [Tasks -> TaskType]
          /\ faults \in 0..MaxFaults

\* A pass whose revocation has been saved is revoked from then on, in memory
\* and in the store: neither assignment, deassignment, a reissued or reported
\* card, a job nor a restart brings it back (updatePassStatus, AssignPass,
\* DeassignPass, UpdatePhysicalCardTaskStatus, restoreFromStateStore).
StoredRevokedFinal ==
    \A p \in Passes : db.passes[p].status = "revoked" => passes[p].status = "revoked"

\* A job that reports success names a pass that is on record and that no other
\* job names, in memory and in the snapshot a restart loads (setJobSuccess,
\* RetryJob, IssuePassBatch).
SuccessHasOwnPass ==
    \A s \in {[jobs |-> jobs, passes |-> passes], [jobs |-> db.jobs, passes |-> db.passes]} :
      \A j \in Jobs : s.jobs[j].status = "success" =>
        /\ s.jobs[j].pass # None /\ s.passes[s.jobs[j].pass].status # "none"
        /\ \A k \in Jobs \ {j} : s.jobs[k].pass # s.jobs[j].pass

\* Every claimed job leaves "processing" again, unless a restart stranded it
\* (ProcessIssueJobs waits for its goroutines).
ProcessingEnds ==
    \A j \in Jobs : jobs[j].status = "processing" ~>
                      (jobs[j].status # "processing" \/ j \in stranded)
=============================================================================
