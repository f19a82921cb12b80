------------------------------ MODULE JobStore ------------------------------
(***************************************************************************)
(* The jobs table of jobs/store.py.  Each method is one SQLite write       *)
(* transaction, so each is one action; a call that raises or returns None  *)
(* changes nothing and is no action.  available_at is never set by a       *)
(* caller, and claim_next and claim_job differ only in who picks the job.  *)
(***************************************************************************)
EXTENDS Naturals

CONSTANTS
    Jobs,          \* job ids
    Runners,       \* runner ids
    NoRunner,
    MaxAttempts    \* max_attempts of each job

ASSUME RunnersAssumption == NoRunner \notin Runners
ASSUME AttemptsAssumption == MaxAttempts \in [Jobs -> Nat \ {0}]

VARIABLES
    jobStatus,     \* "absent", or the status column
    runner,        \* runner_id
    attempts,      \* attempt_count
    notified       \* jobs whose notified_at is set

jobVars == <<jobStatus, runner, attempts, notified>>

Terminal == {"succeeded", "failed", "cancelled", "timed_out"}
JobStatuses == {"absent", "queued", "running"} \cup Terminal

JobTypeOK ==
    /\ jobStatus \in [Jobs -> JobStatuses]
    /\ runner \in [Jobs -> Runners \cup {NoRunner}]
    /\ attempts \in [Jobs -> Nat]
    /\ notified \in SUBSET Jobs

-----------------------------------------------------------------------------
JobInit ==
    /\ jobStatus = [j \in Jobs |-> "absent"]
    /\ runner = [j \in Jobs |-> NoRunner]
    /\ attempts = [j \in Jobs |-> 0]
    /\ notified = {}

(* create_job, and create_job_once where the id is new                     *)
CreateJob(j) ==
    /\ jobStatus[j] = "absent"
    /\ jobStatus' = [jobStatus EXCEPT ![j] = "queued"]
    /\ UNCHANGED <<runner, attempts, notified>>

(* claim_job: the attempt is counted here, and not compared with the limit *)
ClaimJob(r, j) ==
    /\ jobStatus[j] = "queued"
    /\ jobStatus' = [jobStatus EXCEPT ![j] = "running"]
    /\ runner' = [runner EXCEPT ![j] = r]
    /\ attempts' = [attempts EXCEPT ![j] = @ + 1]
    /\ UNCHANGED notified

BugForgetsOwner(r, j) == jobStatus[j] = "running"

(* _require_running_owner *)
RunningFor(r, j) == jobStatus[j] = "running" /\ runner[j] = r

(* mark_succeeded and mark_timed_out *)
EndJob(r, j, outcome) ==
    /\ RunningFor(r, j)
    /\ jobStatus' = [jobStatus EXCEPT ![j] = outcome]
    /\ UNCHANGED <<runner, attempts, notified>>

InBudget(j) == attempts[j] < MaxAttempts[j]

(* mark_failed: the job goes back to the queue only if the caller wants a  *)
(* retry and the budget allows one.                                        *)
FailJob(r, j, retry) ==
    /\ RunningFor(r, j)
    /\ IF retry /\ InBudget(j)
       THEN /\ jobStatus' = [jobStatus EXCEPT ![j] = "queued"]
            /\ runner' = [runner EXCEPT ![j] = NoRunner]
       ELSE /\ jobStatus' = [jobStatus EXCEPT ![j] = "failed"]
            /\ UNCHANGED runner
    /\ UNCHANGED <<attempts, notified>>

(* cancel_job leaves a finished job alone, and a running one its runner.   *)
CancelJob(j) ==
    /\ jobStatus[j] \in {"queued", "running"}
    /\ jobStatus' = [jobStatus EXCEPT ![j] = "cancelled"]
    /\ UNCHANGED <<runner, attempts, notified>>

BugRecoverAlwaysRequeues ==
    /\ jobStatus' = [j \in Jobs |-> IF jobStatus[j] = "running" THEN "queued" ELSE jobStatus[j]]
    /\ runner' = [j \in Jobs |-> IF jobStatus[j] = "running" THEN NoRunner ELSE runner[j]]
    /\ UNCHANGED <<attempts, notified>>

(* recover_interrupted_jobs: every running job, whoever runs it, is queued *)
(* again while its budget lasts, and failed otherwise.                     *)
RecoverJobs ==
    LET Interrupted == {j \in Jobs : jobStatus[j] = "running"}
        Again == {j \in Interrupted : InBudget(j)}
    IN  /\ jobStatus' = [j \in Jobs |-> IF j \in Again THEN "queued"
                                        ELSE IF j \in Interrupted THEN "failed"
                                        ELSE jobStatus[j]]
        /\ runner' = [j \in Jobs |-> IF j \in Again THEN NoRunner ELSE runner[j]]
        /\ UNCHANGED <<attempts, notified>>

(* mark_notified *)
MarkNotified(j) ==
    /\ jobStatus[j] \in Terminal
    /\ notified' = notified \cup {j}
    /\ UNCHANGED <<jobStatus, runner, attempts>>

(* list_unnotified_terminal *)
Unnotified == {j \in Jobs : jobStatus[j] \in Terminal /\ j \notin notified}

JobStep(j) ==
    \/ CreateJob(j)
    \/ \E r \in Runners : ClaimJob(r, j)
    \/ \E r \in Runners, outcome \in {"succeeded", "timed_out"} : EndJob(r, j, outcome)
    \/ \E r \in Runners, retry \in BOOLEAN : FailJob(r, j, retry)
    \/ CancelJob(j)
    \/ MarkNotified(j)

JobNext == (\E j \in Jobs : JobStep(j)) \/ RecoverJobs

JobSpec == JobInit /\ [][JobNext]_jobVars

-----------------------------------------------------------------------------
(* The retry budget holds although claiming never looks at it: no job is   *)
(* started more than max_attempts times, because nothing puts a job back   *)
(* in the queue - a failure, a restart - without an attempt to spare.      *)
AttemptsInBudget ==
    \A j \in Jobs :
        /\ attempts[j] <= MaxAttempts[j]
        /\ jobStatus[j] \in {"absent", "queued"} => attempts[j] < MaxAttempts[j]

(* A job that ended never changes its outcome, whatever a late runner, a   *)
(* cancellation or a recovery tries; nor is a notice taken back.           *)
OutcomeIsFinal ==
    [][/\ \A j \in Jobs : jobStatus[j] \in Terminal => jobStatus'[j] = jobStatus[j]
       /\ notified \subseteq notified']_jobVars

(* A notice was only ever given for a job that is over.                    *)
NoticesAreOfEndedJobs == \A j \in notified : jobStatus[j] \in Terminal

-----------------------------------------------------------------------------
Ledger == INSTANCE JobLedger WITH
    holder <- [j \in Jobs |-> IF jobStatus[j] = "running" THEN runner[j] ELSE NoRunner],
    used <- attempts,
    over <- {j \in Jobs : jobStatus[j] \in Terminal}

(* The table implements the ledger: one runner at a time holds a job, each *)
(* claim uses up an attempt, and a job that is over is never claimed.      *)
LedgerSpec == Ledger!Spec
=============================================================================
