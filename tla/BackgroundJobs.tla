--------------------------- MODULE BackgroundJobs ---------------------------
(***************************************************************************)
(* jobs/runner.py and BackgroundJobRuntime of jobs/runtime.py: processes   *)
(* that share one jobs table, each running slow tool calls in threads of   *)
(* its own.  A process may die at any point and be started again; its      *)
(* threads and the notices it gathered are gone, the table is not.         *)
(*                                                                         *)
(* _run takes a new runner id each time.  A process has at most one live   *)
(* thread per job and its threads die with it, so the process stands for   *)
(* the runner id.                                                          *)
(***************************************************************************)
EXTENDS JobStore

CONSTANTS
    MaxCrashes,   \* bound on process deaths
    MaxFaults     \* bound on store calls that raise at the end of a thread

ASSUME BoundsAssumption == MaxCrashes \in Nat /\ MaxFaults \in Nat

Procs == Runners

VARIABLES
    up,         \* running processes
    thread,     \* thread[p][j]: ThreadJobRunner._threads and where the thread is
    effects,    \* how often the tool call of a job took effect
    listed,     \* jobs collect_notifications has listed and not marked
    gathered,   \* jobs it has marked, whose notices are not in the conversation
    told,       \* jobs the conversation of a process has a notice for
    crashes, faults

procVars == <<up, thread, effects, listed, gathered, told, crashes, faults>>
noticeVars == <<listed, gathered, told>>
vars == <<jobVars, procVars>>

ThreadStates == {"none", "unborn", "started", "executing", "finished", "raised"}
NoThreads == [j \in Jobs |-> "none"]

BgTypeOK ==
    /\ JobTypeOK
    /\ up \in SUBSET Procs
    /\ thread \in [Procs -> [Jobs -> ThreadStates]]
    /\ effects \in [Jobs -> Nat]
    /\ listed \in [Procs -> SUBSET Jobs]
    /\ gathered \in [Procs -> SUBSET Jobs]
    /\ told \in [Procs -> SUBSET Jobs]
    /\ crashes \in 0..MaxCrashes
    /\ faults \in 0..MaxFaults

BgInit ==
    /\ JobInit
    /\ up = {}
    /\ thread = [p \in Procs |-> NoThreads]
    /\ effects = [j \in Jobs |-> 0]
    /\ listed = [p \in Procs |-> {}]
    /\ gathered = [p \in Procs |-> {}]
    /\ told = [p \in Procs |-> {}]
    /\ crashes = 0
    /\ faults = 0

Thread(p, j, from, to) ==
    /\ thread[p][j] = from
    /\ thread' = [thread EXCEPT ![p][j] = to]

-----------------------------------------------------------------------------
BugBootsWithoutRecovery(p) ==
    /\ p \notin up
    /\ up' = up \cup {p}
    /\ UNCHANGED <<jobVars, thread, effects, noticeVars, crashes, faults>>

(* Importing s20: recover_interrupted, before the process does anything.   *)
Boot(p) ==
    /\ p \notin up
    /\ up' = up \cup {p}
    /\ RecoverJobs
    /\ UNCHANGED <<thread, effects, noticeVars, crashes, faults>>

(* BackgroundJobRuntime.start: the job is created, then its thread.        *)
Submit(p, j) ==
    /\ p \in up
    /\ CreateJob(j)
    /\ Thread(p, j, "none", "unborn")
    /\ UNCHANGED <<up, effects, noticeVars, crashes, faults>>

StartThread(p, j) ==
    /\ Thread(p, j, "unborn", "started")
    /\ UNCHANGED <<jobVars, up, effects, noticeVars, crashes, faults>>

(* resume_queued, at the start of each turn of the lead: a thread for each *)
(* queued job that has none in this process.                               *)
Resume(p, j) ==
    /\ p \in up
    /\ jobStatus[j] = "queued"
    /\ Thread(p, j, "none", "started")
    /\ UNCHANGED <<jobVars, up, effects, noticeVars, crashes, faults>>

BugRunsUnclaimed(p, j) ==
    /\ Thread(p, j, "started", "executing")
    /\ IF jobStatus[j] = "queued" THEN ClaimJob(p, j) ELSE UNCHANGED jobVars
    /\ UNCHANGED <<up, effects, noticeVars, crashes, faults>>

(* claim_job tells the threads that raced for the job who may run it.      *)
Claim(p, j) ==
    /\ \/ /\ jobStatus[j] = "queued"
          /\ ClaimJob(p, j)
          /\ Thread(p, j, "started", "executing")
       \/ /\ jobStatus[j] # "queued"
          /\ Thread(p, j, "started", "none")
          /\ UNCHANGED jobVars
    /\ UNCHANGED <<up, effects, noticeVars, crashes, faults>>

(* The tool handler and the PostToolUse hooks: either may raise, after the *)
(* call took effect or before it.                                          *)
Execute(p, j) ==
    /\ \/ Thread(p, j, "executing", "finished") /\ effects' = [effects EXCEPT ![j] = @ + 1]
       \/ Thread(p, j, "executing", "raised") /\ effects' = [effects EXCEPT ![j] = @ + 1]
       \/ Thread(p, j, "executing", "raised") /\ UNCHANGED effects
    /\ UNCHANGED <<jobVars, up, noticeVars, crashes, faults>>

(* mark_succeeded or mark_failed; a job that is no longer this thread's is *)
(* left as it is.                                                          *)
Report(p, j) ==
    /\ \/ /\ Thread(p, j, "finished", "none")
          /\ IF RunningFor(p, j) THEN EndJob(p, j, "succeeded") ELSE UNCHANGED jobVars
       \/ /\ Thread(p, j, "raised", "none")
          /\ IF RunningFor(p, j) THEN FailJob(p, j, FALSE) ELSE UNCHANGED jobVars
    /\ UNCHANGED <<up, effects, noticeVars, crashes, faults>>

(* An SQLite error in that call ends the thread; the job stays running.    *)
ReportRaises(p, j) ==
    /\ faults < MaxFaults
    /\ faults' = faults + 1
    /\ \E from \in {"finished", "raised"} : Thread(p, j, from, "none")
    /\ UNCHANGED <<jobVars, up, effects, noticeVars, crashes>>

-----------------------------------------------------------------------------
BugListsNotified(p) ==
    /\ p \in up
    /\ listed[p] = {} /\ gathered[p] = {}
    /\ listed' = [listed EXCEPT ![p] = {j \in Jobs : jobStatus[j] \in Terminal}]
    /\ UNCHANGED <<jobVars, up, thread, effects, gathered, told, crashes, faults>>

BugListsSucceeded(p) ==
    /\ p \in up
    /\ listed[p] = {} /\ gathered[p] = {}
    /\ \E j \in Unnotified : jobStatus[j] = "succeeded"
    /\ listed' = [listed EXCEPT ![p] = {j \in Unnotified : jobStatus[j] = "succeeded"}]
    /\ UNCHANGED <<jobVars, up, thread, effects, gathered, told, crashes, faults>>

(* collect_notifications: list, then note and mark one by one, and only    *)
(* then hand the notices to the conversation.                              *)
ListEnded(p) ==
    /\ p \in up
    /\ listed[p] = {} /\ gathered[p] = {}
    /\ Unnotified # {}
    /\ listed' = [listed EXCEPT ![p] = Unnotified]
    /\ UNCHANGED <<jobVars, up, thread, effects, gathered, told, crashes, faults>>

NoteOne(p, j) ==
    /\ j \in listed[p]
    /\ MarkNotified(j)
    /\ listed' = [listed EXCEPT ![p] = @ \ {j}]
    /\ gathered' = [gathered EXCEPT ![p] = @ \cup {j}]
    /\ UNCHANGED <<up, thread, effects, told, crashes, faults>>

Tell(p) ==
    /\ listed[p] = {} /\ gathered[p] # {}
    /\ told' = [told EXCEPT ![p] = @ \cup gathered[p]]
    /\ gathered' = [gathered EXCEPT ![p] = {}]
    /\ UNCHANGED <<jobVars, up, thread, effects, listed, crashes, faults>>

(* The process dies.                                                       *)
Crash(p) ==
    /\ p \in up
    /\ crashes < MaxCrashes
    /\ crashes' = crashes + 1
    /\ up' = up \ {p}
    /\ thread' = [thread EXCEPT ![p] = NoThreads]
    /\ listed' = [listed EXCEPT ![p] = {}]
    /\ gathered' = [gathered EXCEPT ![p] = {}]
    /\ UNCHANGED <<jobVars, effects, told, faults>>

(* What a thread does but for the tool call.                               *)
ThreadStep(p, j) == StartThread(p, j) \/ Claim(p, j) \/ Report(p, j)

BgNext ==
    \/ \E p \in Procs : Boot(p) \/ ListEnded(p) \/ Tell(p) \/ Crash(p)
    \/ \E p \in Procs, j \in Jobs :
          \/ Submit(p, j)
          \/ Resume(p, j)
          \/ ThreadStep(p, j)
          \/ Execute(p, j)
          \/ ReportRaises(p, j)
          \/ NoteOne(p, j)

BgSpec == BgInit /\ [][BgNext]_vars

(* Threads run on up to their tool call and after it; a process that died  *)
(* is started again; turns of the lead keep coming, and each resumes what  *)
(* is queued and collects notices.  Nothing makes a tool call end: it is a *)
(* command, which the executor may wait for without end.                   *)
BgFairness ==
    /\ \A p \in Procs : WF_vars(Boot(p)) /\ WF_vars(ListEnded(p)) /\ WF_vars(Tell(p))
    /\ \A p \in Procs, j \in Jobs :
          WF_vars(ThreadStep(p, j)) /\ WF_vars(Resume(p, j)) /\ WF_vars(NoteOne(p, j))

BgFairSpec == BgSpec /\ BgFairness

-----------------------------------------------------------------------------
Calls == INSTANCE ToolCalls WITH
    begun <- {j \in Jobs : attempts[j] > 0},
    outcome <- [j \in Jobs |-> CASE jobStatus[j] = "succeeded" -> "ok"
                                 [] jobStatus[j] = "failed" -> "lost"
                                 [] OTHER -> "open"]

(* A tool call with side effects is never replayed: through crashes,       *)
(* restarts, resumed queues and two processes racing for the same job, it  *)
(* takes effect at most once, and success is only reported after that.     *)
CallsSpec == Calls!Spec

(* A job that is running is being worked on: by a live thread of the       *)
(* process that claimed it, or that process is dead - unless a store call  *)
(* raised in the thread, which nothing in a live process repairs.          *)
RunningIsWorkedOn ==
    \A j \in Jobs : jobStatus[j] = "running" /\ faults = 0 =>
        \/ runner[j] \notin up
        \/ thread[runner[j]][j] \in {"executing", "finished", "raised"}

(* The conversation of a process is told of a job at most once, through    *)
(* its restarts too, although listing and marking are separate steps.      *)
ToldOnce ==
    \A p \in Procs : gathered[p] \cap told[p] = {} /\ listed[p] \cap told[p] = {}

(* Every submitted job ends, whatever dies in between, provided that its   *)
(* tool call does not stay in one live thread for ever, and unless a store *)
(* call raises; and every job that ends is marked as reported, also then.  *)
JobsEndAndAreReported ==
    \A j \in Jobs :
        /\ (\A p \in Procs : []<>(thread[p][j] # "executing"))
              => (jobStatus[j] = "queued" ~> j \in notified \/ faults > 0)
        /\ jobStatus[j] \in Terminal ~> j \in notified
=============================================================================
