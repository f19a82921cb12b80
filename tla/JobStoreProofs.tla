--------------------------- MODULE JobStoreProofs ---------------------------
(***************************************************************************)
(* Proofs about the jobs table for any jobs, runners and retry budgets,    *)
(* and about the processes of BackgroundJobs that share it.                *)
(***************************************************************************)
EXTENDS BackgroundJobs, TLAPS

JobInv == JobTypeOK /\ AttemptsInBudget /\ NoticesAreOfEndedJobs

LEMMA BudgetIsPositive == \A j \in Jobs : MaxAttempts[j] \in Nat /\ 0 < MaxAttempts[j]
  BY AttemptsAssumption

(* Counting one more attempt stays within a budget that was not used up.   *)
LEMMA OneMoreAttempt ==
    ASSUME NEW j \in Jobs, NEW n \in Nat, n < MaxAttempts[j]
    PROVE  n + 1 \in Nat /\ n + 1 <= MaxAttempts[j]
  BY AttemptsAssumption

LEMMA JobInvInit == JobInit => JobInv
<1> SUFFICES ASSUME JobInit PROVE JobInv
  OBVIOUS
<1>1. JobTypeOK
  BY DEF JobInit, JobTypeOK, JobStatuses
<1>2. AttemptsInBudget
  <2> SUFFICES ASSUME NEW j \in Jobs
               PROVE  attempts[j] <= MaxAttempts[j] /\ attempts[j] < MaxAttempts[j]
    BY DEF AttemptsInBudget
  <2>1. attempts[j] = 0
    BY DEF JobInit
  <2>2. QED
    BY <2>1, BudgetIsPositive
<1>3. NoticesAreOfEndedJobs
  BY DEF JobInit, NoticesAreOfEndedJobs
<1>4. QED
  BY <1>1, <1>2, <1>3 DEF JobInv

LEMMA JobInvStep == JobInv /\ [JobNext]_jobVars => JobInv'
<1> SUFFICES ASSUME JobInv, [JobNext]_jobVars PROVE JobInv'
  OBVIOUS
<1> USE AttemptsAssumption DEF JobInv, JobTypeOK, AttemptsInBudget, NoticesAreOfEndedJobs,
                               JobStatuses, Terminal
<1>1. CASE UNCHANGED jobVars
  BY <1>1 DEF jobVars
<1>2. ASSUME NEW j \in Jobs, CreateJob(j) PROVE JobInv'
  BY <1>2 DEF CreateJob
<1>3. ASSUME NEW j \in Jobs, NEW r \in Runners, ClaimJob(r, j) PROVE JobInv'
  <2>1. attempts[j] + 1 \in Nat /\ attempts[j] + 1 <= MaxAttempts[j]
    BY <1>3, OneMoreAttempt DEF ClaimJob
  <2>2. JobTypeOK'
    BY <1>3, <2>1 DEF ClaimJob
  <2>3. AttemptsInBudget'
    BY <1>3, <2>1 DEF ClaimJob
  <2>4. NoticesAreOfEndedJobs'
    BY <1>3 DEF ClaimJob
  <2>5. QED
    BY <2>2, <2>3, <2>4
<1>4. ASSUME NEW j \in Jobs, NEW r \in Runners, NEW o \in {"succeeded", "timed_out"},
             EndJob(r, j, o)
      PROVE  JobInv'
  BY <1>4 DEF EndJob, RunningFor
<1>5. ASSUME NEW j \in Jobs, NEW r \in Runners, NEW retry \in BOOLEAN, FailJob(r, j, retry)
      PROVE  JobInv'
  <2>1. CASE retry /\ InBudget(j)
    BY <1>5, <2>1 DEF FailJob, RunningFor, InBudget
  <2>2. CASE ~(retry /\ InBudget(j))
    BY <1>5, <2>2 DEF FailJob, RunningFor
  <2>3. QED
    BY <2>1, <2>2
<1>6. ASSUME NEW j \in Jobs, CancelJob(j) PROVE JobInv'
  BY <1>6 DEF CancelJob
<1>7. ASSUME NEW j \in Jobs, MarkNotified(j) PROVE JobInv'
  BY <1>7 DEF MarkNotified
<1>8. CASE RecoverJobs
  <2>1. JobTypeOK'
    BY <1>8 DEF RecoverJobs
  <2>2. AttemptsInBudget'
    BY <1>8 DEF RecoverJobs, InBudget
  <2>3. NoticesAreOfEndedJobs'
    BY <1>8 DEF RecoverJobs
  <2>4. QED
    BY <2>1, <2>2, <2>3
<1>9. QED
  BY <1>1, <1>2, <1>3, <1>4, <1>5, <1>6, <1>7, <1>8 DEF JobNext, JobStep

(* The types, the retry budget and the notices, as one inductive invariant.*)
THEOREM JobInvariant == JobSpec => []JobInv
<1>1. QED
  BY JobInvInit, JobInvStep, PTL DEF JobSpec

(* No job is started more often than its budget allows.                    *)
THEOREM BudgetHolds == JobSpec => []AttemptsInBudget
<1>1. JobInv => AttemptsInBudget
  BY DEF JobInv
<1>2. QED
  BY <1>1, JobInvariant, PTL

(* Only jobs that are over are reported.                                   *)
THEOREM NoticesAreLate == JobSpec => []NoticesAreOfEndedJobs
<1>1. JobInv => NoticesAreOfEndedJobs
  BY DEF JobInv
<1>2. QED
  BY <1>1, JobInvariant, PTL

-----------------------------------------------------------------------------
(* Every step leaves the outcome of the jobs that are over as it is.       *)
THEOREM OutcomesAreFinal == JobSpec => OutcomeIsFinal
<1> DEFINE Kept == /\ \A j \in Jobs : jobStatus[j] \in Terminal => jobStatus'[j] = jobStatus[j]
                   /\ notified \subseteq notified'
<1>1. JobInv /\ [JobNext]_jobVars => [Kept]_jobVars
  <2> SUFFICES ASSUME JobInv, JobNext PROVE Kept
    OBVIOUS
  <2> USE DEF JobInv, JobTypeOK, Terminal
  <2>1. ASSUME NEW j \in Jobs, JobStep(j) PROVE Kept
    BY <2>1 DEF JobStep, CreateJob, ClaimJob, EndJob, FailJob, RunningFor, CancelJob,
                MarkNotified
  <2>2. CASE RecoverJobs
    BY <2>2 DEF RecoverJobs
  <2>3. QED
    BY <2>1, <2>2 DEF JobNext
<1>2. QED
  BY <1>1, JobInvariant, PTL DEF JobSpec, OutcomeIsFinal

-----------------------------------------------------------------------------
heldBy == [j \in Jobs |-> IF jobStatus[j] = "running" THEN runner[j] ELSE NoRunner]
ended == {j \in Jobs : jobStatus[j] \in Terminal}

(* The holders of Again lose their jobs, and the jobs of Lost end.         *)
LetsGo(Again, Lost) ==
    /\ Again \in SUBSET Jobs
    /\ Lost \in SUBSET Jobs
    /\ ended \cap (Again \cup Lost) = {}
    /\ ended' = ended \cup Lost
    /\ heldBy' = [j \in Jobs |-> IF j \in Again \cup Lost THEN NoRunner ELSE heldBy[j]]
    /\ attempts' = attempts

LEMMA LedgerNames ==
    /\ Ledger!vars = <<heldBy, attempts, ended>>
    /\ Ledger!vars' = <<heldBy', attempts', ended'>>
    /\ Ledger!Next <=>
          \/ \E j \in Jobs, r \in Runners : Ledger!Claim(r, j)
          \/ \E S, Ended \in SUBSET Jobs : Ledger!LetGo(S, Ended)
  BY DEF Ledger!vars, Ledger!Next, heldBy, ended

(* Jobs that leave the state "running", and jobs that end, are let go of.  *)
LEMMA LettingGo ==
    ASSUME NEW Again, NEW Lost, LetsGo(Again, Lost)
    PROVE  [Ledger!Next]_(Ledger!vars)
<1>1. Ledger!LetGo(Again, Lost)
  BY DEF LetsGo, Ledger!LetGo, heldBy, ended
<1>2. QED
  BY <1>1, LedgerNames DEF LetsGo

LEMMA LedgerClaim ==
    ASSUME JobInv, NEW j \in Jobs, NEW r \in Runners, ClaimJob(r, j)
    PROVE  [Ledger!Next]_(Ledger!vars)
<1> USE DEF JobInv, JobTypeOK, Terminal
<1>1. ended' = ended
  BY DEF ClaimJob, ended
<1>2. heldBy' = [heldBy EXCEPT ![j] = r]
  BY DEF ClaimJob, heldBy
<1>3. j \notin ended /\ heldBy[j] = NoRunner /\ attempts[j] < MaxAttempts[j]
  BY DEF ClaimJob, ended, heldBy, AttemptsInBudget
<1>4. Ledger!Claim(r, j)
  BY <1>1, <1>2, <1>3 DEF ClaimJob, Ledger!Claim, heldBy, ended
<1>5. QED
  BY <1>4, LedgerNames

LEMMA LedgerStep == JobInv /\ [JobNext]_jobVars => [Ledger!Next]_(Ledger!vars)
<1> SUFFICES ASSUME JobInv, [JobNext]_jobVars PROVE [Ledger!Next]_(Ledger!vars)
  OBVIOUS
<1> USE DEF JobInv, JobTypeOK, Terminal
<1>1. CASE UNCHANGED jobVars
  BY <1>1, LedgerNames DEF jobVars, heldBy, ended
<1>2. ASSUME NEW j \in Jobs, CreateJob(j) \/ MarkNotified(j)
      PROVE  [Ledger!Next]_(Ledger!vars)
  <2>1. heldBy' = heldBy /\ ended' = ended /\ attempts' = attempts
    BY <1>2 DEF CreateJob, MarkNotified, heldBy, ended
  <2>2. QED
    BY <2>1, LedgerNames
<1>3. ASSUME NEW j \in Jobs, NEW r \in Runners, ClaimJob(r, j)
      PROVE  [Ledger!Next]_(Ledger!vars)
  BY <1>3, LedgerClaim DEF JobInv
<1>4. ASSUME NEW j \in Jobs, NEW r \in Runners, NEW o \in {"succeeded", "timed_out"},
             EndJob(r, j, o)
      PROVE  [Ledger!Next]_(Ledger!vars)
  <2>1. LetsGo({}, {j})
    BY <1>4 DEF EndJob, RunningFor, LetsGo, heldBy, ended
  <2>2. QED
    BY <2>1, LettingGo
<1>5. ASSUME NEW j \in Jobs, NEW r \in Runners, NEW retry \in BOOLEAN, FailJob(r, j, retry)
      PROVE  [Ledger!Next]_(Ledger!vars)
  <2>1. CASE retry /\ InBudget(j)
    <3>1. LetsGo({j}, {})
      BY <1>5, <2>1 DEF FailJob, RunningFor, LetsGo, heldBy, ended
    <3>2. QED
      BY <3>1, LettingGo
  <2>2. CASE ~(retry /\ InBudget(j))
    <3>1. LetsGo({}, {j})
      BY <1>5, <2>2 DEF FailJob, RunningFor, LetsGo, heldBy, ended
    <3>2. QED
      BY <3>1, LettingGo
  <2>3. QED
    BY <2>1, <2>2
<1>6. ASSUME NEW j \in Jobs, CancelJob(j) PROVE [Ledger!Next]_(Ledger!vars)
  <2>1. LetsGo({}, {j})
    BY <1>6 DEF CancelJob, LetsGo, heldBy, ended
  <2>2. QED
    BY <2>1, LettingGo
<1>7. CASE RecoverJobs
  <2> DEFINE Interrupted == {j \in Jobs : jobStatus[j] = "running"}
             Lost == {j \in Interrupted : ~InBudget(j)}
  <2>1. ended' = ended \cup Lost /\ ended \cap (Interrupted \cup Lost) = {}
    BY <1>7 DEF RecoverJobs, ended
  <2>2. heldBy' = [j \in Jobs |-> IF j \in Interrupted \cup Lost THEN NoRunner ELSE heldBy[j]]
    BY <1>7 DEF RecoverJobs, heldBy
  <2>3. LetsGo(Interrupted, Lost)
    BY <1>7, <2>1, <2>2 DEF RecoverJobs, LetsGo
  <2>4. QED
    BY <2>3, LettingGo
<1>8. QED
  BY <1>1, <1>2, <1>3, <1>4, <1>5, <1>6, <1>7 DEF JobNext, JobStep

(* The jobs table implements the ledger of holders and attempts; that no   *)
(* claim exceeds the budget is the invariant's doing.                      *)
THEOREM StoreImplementsLedger == JobSpec => LedgerSpec
<1>1. JobInit => Ledger!Init
  BY DEF JobInit, Ledger!Init, Terminal
<1>2. JobInv /\ [JobNext]_jobVars => [Ledger!Next]_(Ledger!vars)
  BY LedgerStep
<1>3. QED
  BY <1>1, <1>2, JobInvariant, PTL DEF JobSpec, LedgerSpec, Ledger!Spec

-----------------------------------------------------------------------------
(* The processes of BackgroundJobs change the table by its methods only.   *)
LEMMA BgJobsStep == [BgNext]_vars => [JobNext]_jobVars
<1> SUFFICES ASSUME [BgNext]_vars PROVE [JobNext]_jobVars
  OBVIOUS
<1>1. CASE UNCHANGED vars
  BY <1>1 DEF vars
<1>2. ASSUME NEW p \in Procs, Boot(p) PROVE [JobNext]_jobVars
  BY <1>2 DEF Boot, JobNext
<1>3. ASSUME NEW p \in Procs, ListEnded(p) \/ Tell(p) \/ Crash(p) PROVE [JobNext]_jobVars
  BY <1>3 DEF ListEnded, Tell, Crash
<1>4. ASSUME NEW p \in Procs, NEW j \in Jobs, ReportRaises(p, j) \/ Resume(p, j)
      PROVE  [JobNext]_jobVars
  BY <1>4 DEF ReportRaises, Resume
<1>5. ASSUME NEW p \in Procs, NEW j \in Jobs,
             Submit(p, j) \/ NoteOne(p, j) \/ ThreadStep(p, j) \/ Execute(p, j)
      PROVE  JobStep(j) \/ UNCHANGED jobVars
  <2>1. CASE Submit(p, j)
    BY <2>1 DEF Submit, JobStep
  <2>2. CASE NoteOne(p, j)
    BY <2>2 DEF NoteOne, JobStep
  <2>3. CASE StartThread(p, j) \/ Execute(p, j)
    BY <2>3 DEF StartThread, Execute
  <2>4. CASE Claim(p, j)
    BY <2>4 DEF Claim, JobStep, Procs
  <2>5. CASE Report(p, j)
    <3>1. CASE EndJob(p, j, "succeeded")
      BY <3>1 DEF JobStep, Procs
    <3>2. CASE FailJob(p, j, FALSE)
      BY <3>2 DEF JobStep, Procs
    <3>3. QED
      BY <2>5, <3>1, <3>2 DEF Report
  <2>6. QED
    BY <1>5, <2>1, <2>2, <2>3, <2>4, <2>5 DEF ThreadStep
<1>6. QED
  BY <1>1, <1>2, <1>3, <1>4, <1>5 DEF BgNext, JobNext

(* So everything proved of the table holds while processes run, crash and  *)
(* are started again.                                                      *)
THEOREM BgUsesTheTable == BgSpec => JobSpec
<1>1. BgInit => JobInit
  BY DEF BgInit
<1>2. QED
  BY <1>1, BgJobsStep, PTL DEF BgSpec, JobSpec

(* Processes that share the table implement the ledger.                    *)
THEOREM ProcessesImplementLedger == BgSpec => LedgerSpec
  BY BgUsesTheTable, StoreImplementsLedger

-----------------------------------------------------------------------------
(* The threads that may execute a call, or have.                           *)
Working == {"executing", "finished", "raised"}

(* Notices: what a process gathered or told is marked, and a job is in at  *)
(* most one of the stages.                                                 *)
NoticesInOrder ==
    \A p \in Procs :
        /\ gathered[p] \cup told[p] \subseteq notified
        /\ gathered[p] \cap told[p] = {}
        /\ listed[p] \cap (gathered[p] \cup told[p]) = {}

BgInv == BgTypeOK /\ JobInv /\ RunningIsWorkedOn /\ NoticesInOrder

LEMMA BgInvInit == BgInit => BgInv
<1> SUFFICES ASSUME BgInit PROVE BgInv
  OBVIOUS
<1>1. JobInv
  BY JobInvInit DEF BgInit
<1>2. BgTypeOK
  BY <1>1, BoundsAssumption DEF BgInit, BgTypeOK, JobInv, NoThreads, ThreadStates
<1>3. RunningIsWorkedOn
  BY DEF BgInit, JobInit, RunningIsWorkedOn
<1>4. NoticesInOrder
  BY DEF BgInit, NoticesInOrder
<1>5. QED
  BY <1>1, <1>2, <1>3, <1>4 DEF BgInv

LEMMA BgTypeStep == BgTypeOK /\ JobTypeOK' /\ [BgNext]_vars => BgTypeOK'
<1> SUFFICES ASSUME BgTypeOK, JobTypeOK', [BgNext]_vars PROVE BgTypeOK'
  OBVIOUS
<1> USE BoundsAssumption DEF BgTypeOK, ThreadStates
<1>1. CASE UNCHANGED vars
  BY <1>1 DEF vars, procVars
<1>2. ASSUME NEW p \in Procs, Boot(p) PROVE BgTypeOK'
  BY <1>2 DEF Boot, noticeVars
<1>3. ASSUME NEW p \in Procs, ListEnded(p) PROVE BgTypeOK'
  BY <1>3 DEF ListEnded, Unnotified
<1>4. ASSUME NEW p \in Procs, Tell(p) PROVE BgTypeOK'
  BY <1>4 DEF Tell
<1>5. ASSUME NEW p \in Procs, Crash(p) PROVE BgTypeOK'
  BY <1>5 DEF Crash, NoThreads
<1>6. ASSUME NEW p \in Procs, NEW j \in Jobs, NoteOne(p, j) PROVE BgTypeOK'
  BY <1>6 DEF NoteOne
<1>7. ASSUME NEW p \in Procs, NEW j \in Jobs, NEW from, NEW to \in ThreadStates,
             Thread(p, j, from, to)
      PROVE  thread' \in [Procs -> [Jobs -> ThreadStates]]
  BY <1>7 DEF Thread
<1>8. ASSUME NEW p \in Procs, NEW j \in Jobs, Submit(p, j) \/ Resume(p, j) PROVE BgTypeOK'
  BY <1>8, <1>7 DEF Submit, Resume, noticeVars
<1>9. ASSUME NEW p \in Procs, NEW j \in Jobs, StartThread(p, j) \/ Claim(p, j)
      PROVE  BgTypeOK'
  BY <1>9, <1>7 DEF StartThread, Claim, noticeVars
<1>10. ASSUME NEW p \in Procs, NEW j \in Jobs, Execute(p, j) PROVE BgTypeOK'
  <2>1. thread' \in [Procs -> [Jobs -> ThreadStates]]
    BY <1>10, <1>7 DEF Execute
  <2>2. effects' \in [Jobs -> Nat]
    BY <1>10 DEF Execute
  <2>3. QED
    BY <1>10, <2>1, <2>2 DEF Execute, noticeVars
<1>11. ASSUME NEW p \in Procs, NEW j \in Jobs, Report(p, j) PROVE BgTypeOK'
  BY <1>11, <1>7 DEF Report, noticeVars
<1>12. ASSUME NEW p \in Procs, NEW j \in Jobs, ReportRaises(p, j) PROVE BgTypeOK'
  <2>1. thread' \in [Procs -> [Jobs -> ThreadStates]]
    BY <1>12, <1>7 DEF ReportRaises
  <2>2. faults' \in 0..MaxFaults
    BY <1>12 DEF ReportRaises
  <2>3. QED
    BY <1>12, <2>1, <2>2 DEF ReportRaises, noticeVars
<1>13. QED
  BY <1>1, <1>2, <1>3, <1>4, <1>5, <1>6, <1>8, <1>9, <1>10, <1>11, <1>12
     DEF BgNext, ThreadStep

(* A thread step of one process leaves every other thread where it was.    *)
LEMMA OneThread ==
    ASSUME BgTypeOK, NEW p \in Procs, NEW j \in Jobs, NEW from, NEW to, Thread(p, j, from, to)
    PROVE  /\ thread[p][j] = from /\ thread'[p][j] = to
           /\ \A q \in Procs, i \in Jobs : q # p \/ i # j => thread'[q][i] = thread[q][i]
  BY DEF BgTypeOK, Thread

(* A claim, a report, the death of the worker and the recovery of a new    *)
(* process are the only steps that end or begin work on a running job.     *)
LEMMA RunningStep == BgInv /\ [BgNext]_vars => RunningIsWorkedOn'
<1> SUFFICES ASSUME BgInv, [BgNext]_vars, NEW j \in Jobs, (jobStatus[j] = "running" /\ faults = 0)'
             PROVE  \/ runner'[j] \notin up'
                    \/ thread'[runner'[j]][j] \in Working
  BY DEF RunningIsWorkedOn, Working
<1> USE DEF BgInv, Working
<1>0. JobTypeOK /\ BgTypeOK
  BY DEF BgTypeOK
<1>1. ASSUME UNCHANGED jobVars, UNCHANGED up, faults = 0,
             \A q \in Procs : thread[q][j] \in Working => thread'[q][j] \in Working
      PROVE  runner'[j] \notin up' \/ thread'[runner'[j]][j] \in Working
  BY <1>0, <1>1 DEF RunningIsWorkedOn, jobVars, JobTypeOK, BgTypeOK, Procs
<1>2. CASE UNCHANGED vars
  BY <1>1, <1>2 DEF vars, procVars
<1>3. ASSUME NEW p \in Procs, Boot(p) PROVE FALSE
  BY <1>0, <1>3 DEF Boot, RecoverJobs, JobTypeOK
<1>4. ASSUME NEW p \in Procs, Crash(p) PROVE runner'[j] \notin up' \/ thread'[runner'[j]][j] \in Working
  BY <1>0, <1>4 DEF Crash, RunningIsWorkedOn, jobVars, JobTypeOK, BgTypeOK
<1>5. ASSUME NEW p \in Procs, ListEnded(p) \/ Tell(p)
      PROVE  runner'[j] \notin up' \/ thread'[runner'[j]][j] \in Working
  BY <1>1, <1>5 DEF ListEnded, Tell, jobVars
<1>6. ASSUME NEW p \in Procs, NEW i \in Jobs, NoteOne(p, i)
      PROVE  runner'[j] \notin up' \/ thread'[runner'[j]][j] \in Working
  BY <1>6 DEF NoteOne, MarkNotified, RunningIsWorkedOn
<1>7. ASSUME NEW p \in Procs, NEW i \in Jobs, Submit(p, i)
      PROVE  runner'[j] \notin up' \/ thread'[runner'[j]][j] \in Working
  BY <1>0, <1>7, OneThread DEF Submit, CreateJob, RunningIsWorkedOn, noticeVars, JobTypeOK, BgTypeOK, Procs
<1>8. ASSUME NEW p \in Procs, NEW i \in Jobs, StartThread(p, i) \/ Resume(p, i) \/ Execute(p, i)
      PROVE  runner'[j] \notin up' \/ thread'[runner'[j]][j] \in Working
  <2>1. \A q \in Procs : thread[q][j] \in Working => thread'[q][j] \in Working
    BY <1>0, <1>8, OneThread DEF StartThread, Resume, Execute
  <2>2. UNCHANGED <<jobVars, up>> /\ faults = 0
    BY <1>8 DEF StartThread, Resume, Execute
  <2>3. QED
    BY <1>1, <2>1, <2>2 DEF jobVars
<1>9. ASSUME NEW p \in Procs, NEW i \in Jobs, Claim(p, i)
      PROVE  runner'[j] \notin up' \/ thread'[runner'[j]][j] \in Working
  <2>1. CASE i = j /\ ClaimJob(p, j) /\ Thread(p, j, "started", "executing")
    BY <1>0, <2>1, OneThread DEF ClaimJob, JobTypeOK
  <2>2. CASE i # j /\ ClaimJob(p, i) /\ Thread(p, i, "started", "executing")
    BY <1>0, <1>9, <2>2, OneThread DEF Claim, ClaimJob, RunningIsWorkedOn, JobTypeOK, BgTypeOK, Procs
  <2>3. CASE Thread(p, i, "started", "none") /\ UNCHANGED jobVars
    <3>1. \A q \in Procs : thread[q][j] \in Working => thread'[q][j] \in Working
      BY <1>0, <2>3, OneThread
    <3>2. QED
      BY <1>1, <1>9, <2>3, <3>1 DEF Claim, jobVars
  <2>4. QED
    BY <1>9, <2>1, <2>2, <2>3 DEF Claim
<1>10. ASSUME NEW p \in Procs, NEW i \in Jobs, Report(p, i)
       PROVE  runner'[j] \notin up' \/ thread'[runner'[j]][j] \in Working
  <2>1. PICK from : Thread(p, i, from, "none")
    BY <1>10 DEF Report
  <2>2. up' = up /\ faults = 0
    BY <1>10 DEF Report
  <2>3. CASE i = j
    <3>1. ~RunningFor(p, j) /\ UNCHANGED jobVars
      BY <1>0, <1>10, <2>3 DEF Report, EndJob, FailJob, RunningFor, JobTypeOK
    <3>2. runner[j] # p /\ runner'[j] = runner[j] /\ jobStatus[j] = "running"
      BY <3>1 DEF RunningFor, jobVars
    <3>3. QED
      BY <1>0, <2>1, <2>2, <3>2, OneThread DEF RunningIsWorkedOn, BgTypeOK, JobTypeOK, Procs
  <2>4. CASE i # j
    <3>1. jobStatus'[j] = jobStatus[j] /\ runner'[j] = runner[j]
      BY <1>0, <1>10, <2>4 DEF Report, EndJob, FailJob, RunningFor, JobTypeOK, jobVars
    <3>2. QED
      BY <1>0, <2>1, <2>2, <2>4, <3>1, OneThread DEF RunningIsWorkedOn, BgTypeOK, JobTypeOK, Procs
  <2>5. QED
    BY <2>3, <2>4
<1>11. ASSUME NEW p \in Procs, NEW i \in Jobs, ReportRaises(p, i) PROVE FALSE
  BY <1>0, <1>11, BoundsAssumption DEF ReportRaises, BgTypeOK
<1>12. QED
  BY <1>2, <1>3, <1>4, <1>5, <1>6, <1>7, <1>8, <1>9, <1>10, <1>11 DEF BgNext, ThreadStep

(* Listing takes only what is not marked, noting moves one job on, and     *)
(* telling moves all of them.                                              *)
LEMMA NoticesStep == BgInv /\ [BgNext]_vars => NoticesInOrder'
<1> SUFFICES ASSUME BgInv, [BgNext]_vars PROVE NoticesInOrder'
  OBVIOUS
<1> USE DEF BgInv, NoticesInOrder, BgTypeOK
<1>1. JobInv' /\ notified \subseteq notified'
  <2>1. [JobNext]_jobVars
    BY BgJobsStep
  <2>2. JobInv'
    BY <2>1, JobInvStep
  <2>3. notified \subseteq notified'
    BY <2>1 DEF JobNext, JobStep, jobVars, CreateJob, ClaimJob, EndJob, FailJob, CancelJob,
                MarkNotified, RecoverJobs
  <2>4. QED
    BY <2>2, <2>3
<1>2. ASSUME UNCHANGED noticeVars PROVE NoticesInOrder'
  BY <1>1, <1>2 DEF noticeVars
<1>3. CASE UNCHANGED vars
  BY <1>2, <1>3 DEF vars, procVars, noticeVars
<1>4. ASSUME NEW p \in Procs, Boot(p) PROVE NoticesInOrder'
  BY <1>2, <1>4 DEF Boot
<1>5. ASSUME NEW p \in Procs, NEW j \in Jobs,
             Submit(p, j) \/ Resume(p, j) \/ ThreadStep(p, j) \/ Execute(p, j) \/ ReportRaises(p, j)
      PROVE  NoticesInOrder'
  BY <1>2, <1>5 DEF Submit, Resume, ThreadStep, ReportRaises, StartThread, Claim, Execute, Report
<1>6. ASSUME NEW p \in Procs, ListEnded(p) PROVE NoticesInOrder'
  BY <1>1, <1>6 DEF ListEnded, Unnotified
<1>7. ASSUME NEW p \in Procs, Tell(p) PROVE NoticesInOrder'
  BY <1>1, <1>7 DEF Tell
<1>8. ASSUME NEW p \in Procs, Crash(p) PROVE NoticesInOrder'
  BY <1>1, <1>8 DEF Crash
<1>9. ASSUME NEW p \in Procs, NEW j \in Jobs, NoteOne(p, j) PROVE NoticesInOrder'
  <2>1. j \in notified' /\ j \in listed[p]
    BY <1>9 DEF NoteOne, MarkNotified
  <2>2. QED
    BY <1>1, <1>9, <2>1 DEF NoteOne
<1>10. QED
  BY <1>3, <1>4, <1>5, <1>6, <1>7, <1>8, <1>9 DEF BgNext

LEMMA BgInvStep == BgInv /\ [BgNext]_vars => BgInv'
<1> SUFFICES ASSUME BgInv, [BgNext]_vars PROVE BgInv'
  OBVIOUS
<1>1. JobInv'
  BY BgJobsStep, JobInvStep DEF BgInv
<1>2. BgTypeOK'
  BY <1>1, BgTypeStep DEF BgInv, JobInv
<1>3. QED
  BY <1>1, <1>2, RunningStep, NoticesStep DEF BgInv

THEOREM BgInvariant == BgSpec => []BgInv
<1>1. QED
  BY BgInvInit, BgInvStep, PTL DEF BgSpec

(* No job is left running without a thread that works on it, unless its    *)
(* process died or a store call raised in that thread.                     *)
THEOREM RunningJobsAreWorkedOn == BgSpec => []RunningIsWorkedOn
<1>1. BgInv => RunningIsWorkedOn
  BY DEF BgInv
<1>2. QED
  BY <1>1, BgInvariant, PTL

(* A conversation is never told of a job twice.                            *)
THEOREM NoticesAreGivenOnce == BgSpec => []ToldOnce
<1>1. BgInv => ToldOnce
  BY DEF BgInv, NoticesInOrder, ToldOnce
<1>2. QED
  BY <1>1, BgInvariant, PTL

-----------------------------------------------------------------------------
(* start creates every job with one attempt.                               *)
OneAttempt == \A j \in Jobs : MaxAttempts[j] = 1

(* Before a call is claimed nothing happened; one thread executes it, and  *)
(* only after its effect is it finished.                                   *)
CallsInOrder ==
    \A j \in Jobs :
        /\ jobStatus[j] = "running" => attempts[j] > 0
        /\ attempts[j] = 0 => effects[j] = 0 /\ \A p \in Procs : thread[p][j] \notin Working
        /\ effects[j] \in {0, 1}
        /\ \A p \in Procs :
              /\ thread[p][j] = "executing" =>
                    /\ effects[j] = 0
                    /\ \A q \in Procs : thread[q][j] = "executing" => q = p
              /\ thread[p][j] = "finished" => effects[j] = 1

CallsInv == BgInv /\ CallsInOrder

LEMMA CallsInOrderInit == BgInit => CallsInOrder
<1> SUFFICES ASSUME BgInit PROVE CallsInOrder
  OBVIOUS
<1>1. \A j \in Jobs : effects[j] = 0
  BY DEF BgInit
<1>2. \A j \in Jobs : effects[j] \in {0, 1}
  BY <1>1
<1>3. \A j \in Jobs : jobStatus[j] # "running"
  BY DEF BgInit, JobInit
<1>4. \A p \in Procs, j \in Jobs : thread[p][j] \notin Working \cup {"executing", "finished"}
  BY DEF BgInit, NoThreads, Working
<1>5. QED
  BY <1>1, <1>2, <1>3, <1>4 DEF CallsInOrder

(* A job that may still be claimed has not been attempted.                 *)
LEMMA QueuedIsUntouched ==
    ASSUME BgInv, OneAttempt, NEW j \in Jobs
    PROVE  /\ attempts[j] \in Nat /\ attempts[j] <= 1 /\ effects[j] \in Nat
           /\ jobStatus[j] \in {"absent", "queued"} => attempts[j] = 0
  BY DEF BgInv, BgTypeOK, JobInv, JobTypeOK, AttemptsInBudget, OneAttempt

(* Steps that leave attempts and effects alone and start no execution.     *)
LEMMA CallsStay ==
    ASSUME CallsInOrder, attempts' = attempts, effects' = effects,
           \A j \in Jobs : jobStatus'[j] = "running" => jobStatus[j] = "running",
           \A p \in Procs, j \in Jobs :
              thread'[p][j] \in Working => thread'[p][j] = thread[p][j]
    PROVE  CallsInOrder'
  BY DEF CallsInOrder, Working

LEMMA CallsInOrderStep == OneAttempt /\ CallsInv /\ [BgNext]_vars => CallsInOrder'
<1> SUFFICES ASSUME OneAttempt, CallsInv, [BgNext]_vars PROVE CallsInOrder'
  OBVIOUS
<1> USE DEF CallsInv, Working
<1>0. BgInv /\ BgTypeOK /\ JobTypeOK
  BY DEF BgInv, BgTypeOK
<1>1. CASE UNCHANGED vars
  BY <1>1, CallsStay DEF vars, procVars, jobVars
<1>2. ASSUME NEW p \in Procs, Boot(p) PROVE CallsInOrder'
  BY <1>0, <1>2, CallsStay DEF Boot, RecoverJobs, JobTypeOK
<1>3. ASSUME NEW p \in Procs, ListEnded(p) \/ Tell(p) PROVE CallsInOrder'
  BY <1>3, CallsStay DEF ListEnded, Tell, jobVars
<1>4. ASSUME NEW p \in Procs, Crash(p) PROVE CallsInOrder'
  BY <1>0, <1>4, CallsStay DEF Crash, jobVars, NoThreads, BgTypeOK
<1>5. ASSUME NEW p \in Procs, NEW i \in Jobs, NoteOne(p, i) PROVE CallsInOrder'
  BY <1>5, CallsStay DEF NoteOne, MarkNotified
<1>6. ASSUME NEW p \in Procs, NEW i \in Jobs, NEW from, NEW to \in {"none", "unborn", "started"},
             Thread(p, i, from, to)
      PROVE  \A q \in Procs, j \in Jobs : thread'[q][j] \in Working => thread'[q][j] = thread[q][j]
  BY <1>0, <1>6, OneThread
<1>7. ASSUME NEW p \in Procs, NEW i \in Jobs,
             Submit(p, i) \/ Resume(p, i) \/ StartThread(p, i) \/ ReportRaises(p, i)
      PROVE  CallsInOrder'
  <2>1. \A q \in Procs, j \in Jobs : thread'[q][j] \in Working => thread'[q][j] = thread[q][j]
    BY <1>6, <1>7 DEF Submit, Resume, StartThread, ReportRaises
  <2>2. attempts' = attempts /\ effects' = effects
    BY <1>7 DEF Submit, Resume, StartThread, ReportRaises, CreateJob, jobVars
  <2>3. \A j \in Jobs : jobStatus'[j] = "running" => jobStatus[j] = "running"
    BY <1>0, <1>7 DEF Submit, Resume, StartThread, ReportRaises, CreateJob, jobVars, JobTypeOK
  <2>4. QED
    BY <2>1, <2>2, <2>3, CallsStay
<1>8. ASSUME NEW p \in Procs, NEW i \in Jobs, Claim(p, i) PROVE CallsInOrder'
  <2>1. CASE ClaimJob(p, i) /\ Thread(p, i, "started", "executing")
    <3>1. attempts[i] = 0 /\ effects[i] = 0 /\ \A q \in Procs : thread[q][i] \notin Working
      BY <2>1, QueuedIsUntouched DEF CallsInOrder, ClaimJob
    <3>2. attempts'[i] = 1 /\ effects' = effects
      BY <1>0, <1>8, <2>1, <3>1 DEF Claim, ClaimJob, JobTypeOK
    <3>3. \A j \in Jobs \ {i} : attempts'[j] = attempts[j] /\ jobStatus'[j] = jobStatus[j]
      BY <1>0, <2>1 DEF ClaimJob, JobTypeOK
    <3>4. /\ thread'[p][i] = "executing"
          /\ \A q \in Procs, j \in Jobs : q # p \/ j # i => thread'[q][j] = thread[q][j]
      BY <1>0, <2>1, OneThread
    <3>5. QED
      BY <3>1, <3>2, <3>3, <3>4 DEF CallsInOrder
  <2>2. CASE Thread(p, i, "started", "none") /\ UNCHANGED jobVars
    BY <1>6, <1>8, <2>2, CallsStay DEF Claim, jobVars
  <2>3. QED
    BY <1>8, <2>1, <2>2 DEF Claim
<1>9. ASSUME NEW p \in Procs, NEW i \in Jobs, Execute(p, i) PROVE CallsInOrder'
  <2>1. UNCHANGED jobVars
    BY <1>9 DEF Execute
  <2>2. PICK to \in {"finished", "raised"} :
              /\ Thread(p, i, "executing", to)
              /\ (effects' = [effects EXCEPT ![i] = @ + 1]) \/ (to = "raised" /\ effects' = effects)
    BY <1>9 DEF Execute
  <2>3. /\ thread[p][i] = "executing" /\ thread'[p][i] = to
        /\ \A q \in Procs, j \in Jobs : q # p \/ j # i => thread'[q][j] = thread[q][j]
    BY <1>0, <2>2, OneThread
  <2>4. effects[i] = 0 /\ attempts[i] # 0
    BY <2>3 DEF CallsInOrder
  <2>5. /\ effects'[i] = 1 \/ (to = "raised" /\ effects'[i] = 0)
        /\ \A j \in Jobs \ {i} : effects'[j] = effects[j]
    BY <1>0, <2>2, <2>4 DEF BgTypeOK
  <2>6. QED
    BY <2>1, <2>3, <2>4, <2>5 DEF CallsInOrder, jobVars
<1>10. ASSUME NEW p \in Procs, NEW i \in Jobs, Report(p, i) PROVE CallsInOrder'
  <2>1. \A q \in Procs, j \in Jobs : thread'[q][j] \in Working => thread'[q][j] = thread[q][j]
    BY <1>6, <1>10 DEF Report
  <2>2. attempts' = attempts /\ effects' = effects
    BY <1>10 DEF Report, EndJob, FailJob, jobVars
  <2>3. \A j \in Jobs : jobStatus'[j] = "running" => jobStatus[j] = "running"
    BY <1>0, <1>10 DEF Report, EndJob, FailJob, jobVars, JobTypeOK
  <2>4. QED
    BY <2>1, <2>2, <2>3, CallsStay
<1>11. QED
  BY <1>1, <1>2, <1>3, <1>4, <1>5, <1>7, <1>8, <1>9, <1>10 DEF BgNext, ThreadStep

-----------------------------------------------------------------------------
begunCalls == {j \in Jobs : attempts[j] > 0}
outcomeOf == [j \in Jobs |-> CASE jobStatus[j] = "succeeded" -> "ok"
                               [] jobStatus[j] = "failed" -> "lost"
                               [] OTHER -> "open"]

LEMMA CallsNames ==
    /\ Calls!vars = <<begunCalls, effects, outcomeOf>>
    /\ Calls!vars' = <<begunCalls', effects', outcomeOf'>>
    /\ Calls!Next <=> \/ \E j \in Jobs : Calls!Begin(j) \/ Calls!TakeEffect(j) \/ Calls!Succeed(j)
                      \/ \E S \in SUBSET Jobs : Calls!Lose(S)
  BY DEF Calls!vars, Calls!Next, begunCalls, outcomeOf

(* The statuses that count as open may change among themselves.            *)
LEMMA CallsStutter ==
    ASSUME attempts' = attempts, effects' = effects,
           \A j \in Jobs : \/ jobStatus'[j] = jobStatus[j]
                           \/ {jobStatus[j], jobStatus'[j]} \cap {"succeeded", "failed"} = {}
    PROVE  UNCHANGED Calls!vars
<1>1. begunCalls' = begunCalls
  BY DEF begunCalls
<1>2. outcomeOf' = outcomeOf
  BY DEF outcomeOf
<1>3. QED
  BY <1>1, <1>2, CallsNames

(* The calls of S, which were running, fail.                               *)
LEMMA CallsLost ==
    ASSUME CallsInv, NEW S \in SUBSET Jobs, attempts' = attempts, effects' = effects,
           \A j \in S : jobStatus[j] = "running",
           \A j \in Jobs : jobStatus'[j] = IF j \in S THEN "failed" ELSE jobStatus[j]
    PROVE  Calls!Next
<1>1. begunCalls' = begunCalls
  BY DEF begunCalls
<1>2. \A j \in S : j \in begunCalls /\ outcomeOf[j] = "open"
  BY DEF CallsInv, CallsInOrder, begunCalls, outcomeOf
<1>3. outcomeOf' = [j \in Jobs |-> IF j \in S THEN "lost" ELSE outcomeOf[j]]
  BY DEF outcomeOf
<1>4. Calls!Lose(S)
  BY <1>1, <1>2, <1>3 DEF Calls!Lose, begunCalls, outcomeOf
<1>5. QED
  BY <1>4, CallsNames

LEMMA CallsStep == OneAttempt /\ CallsInv /\ [BgNext]_vars => [Calls!Next]_(Calls!vars)
<1> SUFFICES ASSUME OneAttempt, CallsInv, [BgNext]_vars PROVE [Calls!Next]_(Calls!vars)
  OBVIOUS
<1>0. BgInv /\ BgTypeOK /\ JobTypeOK /\ CallsInOrder
  BY DEF CallsInv, BgInv, BgTypeOK
<1>1. CASE UNCHANGED vars
  BY <1>1, CallsStutter DEF vars, procVars, jobVars
<1>2. ASSUME NEW p \in Procs, Boot(p) PROVE [Calls!Next]_(Calls!vars)
  <2> DEFINE S == {j \in Jobs : jobStatus[j] = "running"}
  <2>1. \A j \in S : ~InBudget(j)
    BY <1>0, QueuedIsUntouched DEF InBudget, OneAttempt, CallsInOrder
  <2>2. /\ \A j \in Jobs : jobStatus'[j] = IF j \in S THEN "failed" ELSE jobStatus[j]
        /\ attempts' = attempts /\ effects' = effects
    BY <1>0, <1>2, <2>1 DEF Boot, RecoverJobs
  <2>3. QED
    BY <2>2, CallsLost
<1>3. ASSUME NEW p \in Procs, ListEnded(p) \/ Tell(p) \/ Crash(p)
      PROVE  [Calls!Next]_(Calls!vars)
  BY <1>3, CallsStutter DEF ListEnded, Tell, Crash, jobVars
<1>4. ASSUME NEW p \in Procs, NEW i \in Jobs,
             StartThread(p, i) \/ Resume(p, i) \/ ReportRaises(p, i) \/ NoteOne(p, i)
      PROVE  [Calls!Next]_(Calls!vars)
  BY <1>4, CallsStutter DEF StartThread, Resume, ReportRaises, NoteOne, MarkNotified, jobVars
<1>5. ASSUME NEW p \in Procs, NEW i \in Jobs, Submit(p, i) PROVE [Calls!Next]_(Calls!vars)
  BY <1>0, <1>5, CallsStutter DEF Submit, CreateJob, JobTypeOK
<1>6. ASSUME NEW p \in Procs, NEW i \in Jobs, Claim(p, i) PROVE [Calls!Next]_(Calls!vars)
  <2>1. CASE ClaimJob(p, i)
    <3>1. attempts[i] = 0
      BY <1>0, <2>1, QueuedIsUntouched DEF ClaimJob
    <3>2. i \notin begunCalls /\ outcomeOf[i] = "open"
      BY <2>1, <3>1 DEF ClaimJob, begunCalls, outcomeOf
    <3>3. begunCalls' = begunCalls \cup {i}
      BY <1>0, <2>1, <3>1 DEF ClaimJob, begunCalls, JobTypeOK
    <3>4. outcomeOf' = outcomeOf
      BY <1>0, <2>1 DEF ClaimJob, outcomeOf, JobTypeOK
    <3>5. Calls!Begin(i)
      BY <1>6, <3>2, <3>3, <3>4 DEF Claim, Calls!Begin, begunCalls, outcomeOf
    <3>6. QED
      BY <3>5, CallsNames
  <2>2. CASE UNCHANGED jobVars
    BY <1>6, <2>2, CallsStutter DEF Claim, jobVars
  <2>3. QED
    BY <1>6, <2>1, <2>2 DEF Claim
<1>7. ASSUME NEW p \in Procs, NEW i \in Jobs, Execute(p, i) PROVE [Calls!Next]_(Calls!vars)
  <2>1. begunCalls' = begunCalls /\ outcomeOf' = outcomeOf
    BY <1>7 DEF Execute, jobVars, begunCalls, outcomeOf
  <2>2. CASE effects' = effects
    BY <2>1, <2>2, CallsNames
  <2>3. CASE effects' = [effects EXCEPT ![i] = @ + 1]
    <3>1. thread[p][i] = "executing"
      BY <1>7 DEF Execute, Thread
    <3>2. effects[i] = 0 /\ attempts[i] # 0
      BY <1>0, <3>1 DEF CallsInOrder, Working
    <3>3. i \in begunCalls
      BY <1>0, <3>2, QueuedIsUntouched DEF begunCalls
    <3>4. Calls!TakeEffect(i)
      BY <2>1, <2>3, <3>2, <3>3 DEF Calls!TakeEffect, begunCalls, outcomeOf
    <3>5. QED
      BY <3>4, CallsNames
  <2>4. QED
    BY <1>7, <2>2, <2>3 DEF Execute
<1>8. ASSUME NEW p \in Procs, NEW i \in Jobs, Report(p, i) PROVE [Calls!Next]_(Calls!vars)
  <2>1. effects' = effects
    BY <1>8 DEF Report
  <2>2. CASE UNCHANGED jobVars
    BY <2>1, <2>2, CallsStutter DEF jobVars
  <2>3. CASE Thread(p, i, "finished", "none") /\ EndJob(p, i, "succeeded")
    <3>1. effects[i] = 1
      BY <1>0, <2>3 DEF CallsInOrder, Thread
    <3>2. outcomeOf[i] = "open" /\ begunCalls' = begunCalls
      BY <2>3 DEF EndJob, RunningFor, outcomeOf, begunCalls
    <3>3. outcomeOf' = [outcomeOf EXCEPT ![i] = "ok"]
      BY <1>0, <2>3 DEF EndJob, outcomeOf, JobTypeOK
    <3>4. Calls!Succeed(i)
      BY <2>1, <3>1, <3>2, <3>3 DEF Calls!Succeed, begunCalls, outcomeOf
    <3>5. QED
      BY <3>4, CallsNames
  <2>4. CASE FailJob(p, i, FALSE)
    <3>1. /\ jobStatus[i] = "running" /\ attempts' = attempts
          /\ jobStatus' = [jobStatus EXCEPT ![i] = "failed"]
      BY <2>4 DEF FailJob, RunningFor
    <3>2. \A j \in Jobs : jobStatus'[j] = IF j \in {i} THEN "failed" ELSE jobStatus[j]
      BY <1>0, <3>1 DEF JobTypeOK
    <3>3. QED
      BY <2>1, <3>1, <3>2, CallsLost
  <2>5. QED
    BY <1>8, <2>2, <2>3, <2>4 DEF Report
<1>9. QED
  BY <1>1, <1>2, <1>3, <1>4, <1>5, <1>6, <1>7, <1>8 DEF BgNext, ThreadStep

LEMMA CallsInvariant ==
    ASSUME OneAttempt
    PROVE  BgSpec => []CallsInv
<1>1. CallsInv /\ [BgNext]_vars => CallsInv'
  BY BgInvStep, CallsInOrderStep DEF CallsInv
<1>2. BgInit => CallsInv
  BY BgInvInit, CallsInOrderInit DEF CallsInv
<1>3. QED
  BY <1>1, <1>2, PTL DEF BgSpec

(* Background execution implements the promise about tool calls: through   *)
(* crashes, restarts, resumed queues and processes that race for a job,    *)
(* each call takes effect at most once, is said to have succeeded only     *)
(* after that, and keeps its outcome.                                      *)
THEOREM CallsAreNotReplayed ==
    ASSUME OneAttempt
    PROVE  BgSpec => CallsSpec
<1>1. BgInit => Calls!Init
  BY DEF BgInit, JobInit, Calls!Init
<1>2. CallsInv /\ [BgNext]_vars => [Calls!Next]_(Calls!vars)
  BY CallsStep
<1>3. BgSpec => []CallsInv
  BY CallsInvariant
<1>4. QED
  BY <1>1, <1>2, <1>3, PTL DEF BgSpec, CallsSpec, Calls!Spec
=============================================================================
