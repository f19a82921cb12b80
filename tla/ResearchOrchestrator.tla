------------------------ MODULE ResearchOrchestrator ------------------------
(***************************************************************************)
(* research/orchestration.py: the tool facade that drives the workflow     *)
(* (ResearchWorkflow) from durable tasks (TaskBoard), method worktrees and *)
(* prover threads (runtime/teammate.py), and saves a snapshot of the run   *)
(* after every successful action.                                          *)
(*                                                                         *)
(* A handler that makes several durable changes runs here as several       *)
(* steps, recorded in `lead', because provers work, leases lapse, calls    *)
(* fail and the process dies between them.  Dying loses the memory - the   *)
(* workflow, the bindings, the provers - and restores the last snapshot;   *)
(* the tasks and the worktree directories stay.                            *)
(***************************************************************************)
EXTENDS ResearchWorkflow, Naturals

CONSTANTS
    Tasks,        \* ids create_task may return
    Provers,      \* teammates whose role matches the method's tasks
    NoOwner, NoTask, NoMethod,
    MaxCrashes,   \* bound on process restarts
    MaxFaults     \* bound on failing durable calls and failing snapshots

ASSUME OrchAssumption ==
    /\ NoTask \notin Tasks
    /\ MaxCrashes \in Nat
    /\ MaxFaults \in Nat

VARIABLES
    status, owner, blockedBy,   \* the task board
    taskTree,     \* tasks whose worktree column is set
    dirs,         \* methods whose worktree directory exists
    bound,        \* binding.step_task_ids
    revTask,      \* binding.revision_task_id
    wtName,       \* methods whose binding.worktree_name is set
    lead,         \* the handler in progress
    ctx,          \* each prover's _TaskContext
    saved,        \* the last snapshot in the trace store
    crashes, faults

boardVars == <<status, owner, blockedBy>>
bindingVars == <<bound, revTask, wtName>>
diskVars == <<taskTree, dirs>>
countVars == <<crashes, faults>>
vars == <<wfVars, boardVars, diskVars, bindingVars, lead, ctx, saved, countVars>>

Board == INSTANCE TaskBoard WITH Workers <- Provers, Imported <- {}

Idle == [op |-> "none", method |-> NoMethod, todo |-> {}, caughtUp |-> FALSE]
NoContext == [task |-> NoTask, proof |-> FALSE]
Unbound == [s \in Steps |-> NoTask]
LeadOps == {"none", "create", "bind", "revise", "rebind", "sync"}

OrchTypeOK ==
    /\ WfTypeOK
    /\ status \in [Tasks -> {"absent", "pending", "in_progress", "completed"}]
    /\ owner \in [Tasks -> Provers \cup {NoOwner}]
    /\ blockedBy \in [Tasks -> SUBSET Tasks]
    /\ taskTree \subseteq Tasks
    /\ dirs \subseteq Methods
    /\ bound \in [Methods -> [Steps -> Tasks \cup {NoTask}]]
    /\ revTask \in [Methods -> Tasks \cup {NoTask}]
    /\ wtName \subseteq Methods
    /\ lead \in [op : LeadOps, method : Methods \cup {NoMethod},
                 todo : SUBSET Steps, caughtUp : BOOLEAN]
    /\ ctx \in [Provers -> [task : Tasks \cup {NoTask}, proof : BOOLEAN]]
    /\ crashes \in 0..MaxCrashes
    /\ faults \in 0..MaxFaults

-----------------------------------------------------------------------------
(* run.to_dict() and binding.to_dict(), as one value.                      *)
Snapshot ==
    [stage |-> stage, methods |-> methods, selected |-> selected, artifact |-> artifact,
     mstage |-> mstage, assigned |-> assigned, plan |-> plan, step |-> step,
     structural |-> structural, detailed |-> detailed, revision |-> revision,
     bound |-> bound, revTask |-> revTask, wtName |-> wtName]

OrchInit ==
    /\ WfInit
    /\ Board!Init
    /\ blockedBy = [t \in Tasks |-> {}]
    /\ taskTree = {}
    /\ dirs = {}
    /\ bound = [m \in Methods |-> Unbound]
    /\ revTask = [m \in Methods |-> NoTask]
    /\ wtName = {}
    /\ lead = Idle
    /\ ctx = [w \in Provers |-> NoContext]
    /\ saved = Snapshot
    /\ crashes = 0
    /\ faults = 0

LeadIdle == lead.op = "none"
Doing(op) == lead.op = op
Finish == lead' = Idle

(* dispatch saves the run when its action succeeds; a failing save is      *)
(* reported and ignored (_save_run_snapshot).                              *)
Save ==
    \/ saved' = Snapshot' /\ UNCHANGED countVars
    \/ /\ faults < MaxFaults
       /\ faults' = faults + 1
       /\ UNCHANGED <<saved, crashes>>

(* The first of the remaining steps in a topological order.                *)
Ready(m, s) == s \in lead.todo /\ plan[m].deps[s] \cap lead.todo = {}
StepDone(s) == lead' = [lead EXCEPT !.todo = @ \ {s}]

-----------------------------------------------------------------------------
(* The actions that change only the workflow and save it.                  *)
WorkflowOnly ==
    /\ LeadIdle
    /\ \/ \E S \in SUBSET Methods : CompleteSurvey(S)
       \/ FailSurvey
       \/ CompleteDirectProof
       \/ \E m \in Methods, v \in Verdicts : RecordStructural(m, v) \/ RecordDetailed(m, v)
       \/ \E S \in SUBSET Methods : BeginSummary(S)
       \/ CompleteSummary
    /\ UNCHANGED <<boardVars, diskVars, bindingVars, lead, ctx>>
    /\ Save

(* request_decomposition asks a teammate for a plan; the run is saved.     *)
RequestDecomposition(m) ==
    /\ LeadIdle
    /\ InStage(m, "decomposition")
    /\ UNCHANGED <<wfVars, boardVars, diskVars, bindingVars, lead, ctx>>
    /\ Save

(* activate_method sets the plan and starts a new generation of bindings   *)
(* before any task exists.                                                 *)
ActivateBegin(m, p) ==
    /\ LeadIdle
    /\ SetMethodPlan(m, p)
    /\ bound' = [bound EXCEPT ![m] = Unbound]
    /\ revTask' = [revTask EXCEPT ![m] = NoTask]
    /\ lead' = [op |-> "create", method |-> m, todo |-> p.steps, caughtUp |-> FALSE]
    /\ UNCHANGED <<boardVars, diskVars, wtName, ctx, saved, countVars>>

BugCreatesUnblocked(s, t) ==
    /\ Doing("create")
    /\ Ready(lead.method, s)
    /\ Board!Create(t, {})
    /\ bound' = [bound EXCEPT ![lead.method][s] = t]
    /\ StepDone(s)
    /\ UNCHANGED <<wfVars, diskVars, revTask, wtName, ctx, saved, countVars>>

(* One durable task per step, blocked by the tasks of its dependencies.    *)
ActivateCreate(s, t) ==
    LET m == lead.method IN
    /\ Doing("create")
    /\ Ready(m, s)
    /\ Board!Create(t, {bound[m][d] : d \in plan[m].deps[s]})
    /\ bound' = [bound EXCEPT ![m][s] = t]
    /\ StepDone(s)
    /\ UNCHANGED <<wfVars, diskVars, revTask, wtName, ctx, saved, countVars>>

(* _ensure_method_worktree, for a method that has a worktree: bind all.    *)
WorktreeKept ==
    LET m == lead.method IN
    /\ Doing("create")
    /\ lead.todo = {}
    /\ m \in wtName
    /\ lead' = [lead EXCEPT !.op = "bind", !.todo = plan[m].steps]
    /\ UNCHANGED <<wfVars, boardVars, diskVars, bindingVars, ctx, saved, countVars>>

(* For one that has none: git worktree add, and bind_task of the first     *)
(* task (inside WorktreeRuntime.create), then of the others.               *)
WorktreeAdded ==
    LET m == lead.method IN
    /\ Doing("create")
    /\ lead.todo = {}
    /\ m \notin wtName
    /\ m \notin dirs
    /\ dirs' = dirs \cup {m}
    /\ wtName' = wtName \cup {m}
    /\ lead' = [lead EXCEPT !.op = "bind", !.todo = plan[m].steps]
    /\ UNCHANGED <<wfVars, boardVars, taskTree, bound, revTask, ctx, saved, countVars>>

(* Where the directory is already there, create returns before it binds    *)
(* its task, with a message the caller does not take for an error: the     *)
(* caller goes on with the remaining tasks only.                           *)
WorktreeExists(first) ==
    LET m == lead.method IN
    /\ Doing("create")
    /\ lead.todo = {}
    /\ m \notin wtName
    /\ m \in dirs
    /\ first \in plan[m].steps
    /\ plan[m].deps[first] = {}
    /\ wtName' = wtName \cup {m}
    /\ lead' = [lead EXCEPT !.op = "bind", !.todo = plan[m].steps \ {first}]
    /\ UNCHANGED <<wfVars, boardVars, diskVars, bound, revTask, ctx, saved, countVars>>

BindTask(s) ==
    /\ Doing("bind")
    /\ s \in lead.todo
    /\ taskTree' = taskTree \cup {bound[lead.method][s]}
    /\ StepDone(s)
    /\ UNCHANGED <<wfVars, boardVars, dirs, bindingVars, ctx, saved, countVars>>

ActivateEnd ==
    /\ Doing("bind")
    /\ lead.todo = {}
    /\ AssignTeammate(lead.method)
    /\ Finish
    /\ UNCHANGED <<boardVars, diskVars, bindingVars, ctx>>
    /\ Save

-----------------------------------------------------------------------------
Unfinished(m) == mstage[m] \notin {"failed", "abandoned", "completed"}

(* sync_method with nothing to read: a finished method, or one that is     *)
(* neither in revision nor being proved.  The run is saved all the same.   *)
SyncNothing(m) ==
    /\ LeadIdle
    /\ m \in methods
    /\ m \notin revision
    /\ mstage[m] # "proving"
    /\ mstage[m] = "completed" \/ \E s \in Steps : bound[m][s] # NoTask
    /\ UNCHANGED <<wfVars, boardVars, diskVars, bindingVars, lead, ctx>>
    /\ Save

BugDropsRevisionTask(m) ==
    /\ LeadIdle
    /\ Unfinished(m)
    /\ m \in revision
    /\ revTask[m] # NoTask
    /\ IF status[revTask[m]] # "pending" THEN CompleteProofRevision(m) ELSE UNCHANGED wfVars
    /\ revTask' = [revTask EXCEPT ![m] = NoTask]
    /\ UNCHANGED <<boardVars, diskVars, bound, wtName, lead, ctx>>
    /\ Save

(* _sync_revision_task: without a revision task it raises.                 *)
SyncRevision(m) ==
    /\ LeadIdle
    /\ Unfinished(m)
    /\ m \in revision
    /\ revTask[m] # NoTask
    /\ IF status[revTask[m]] = "completed"
       THEN /\ CompleteProofRevision(m)
            /\ revTask' = [revTask EXCEPT ![m] = NoTask]
       ELSE UNCHANGED <<wfVars, revTask>>
    /\ UNCHANGED <<boardVars, diskVars, bound, wtName, lead, ctx>>
    /\ Save

AllTasksCompleted(m) ==
    \A s \in plan[m].steps : bound[m][s] # NoTask /\ status[bound[m][s]] = "completed"

(* caughtUp records that every task was already completed when the pass    *)
(* over the steps began.                                                   *)
SyncBegin(m) ==
    /\ LeadIdle
    /\ InStage(m, "proving")
    /\ m \notin revision
    /\ lead' = [op |-> "sync", method |-> m, todo |-> plan[m].steps,
                caughtUp |-> AllTasksCompleted(m) /\ m \in assigned]
    /\ UNCHANGED <<wfVars, boardVars, diskVars, bindingVars, ctx, saved, countVars>>

(* One load_task, and what it says about the step.                         *)
SyncReads(s, taskStatus, stepStatus) ==
    LET t == bound[lead.method][s] IN
    /\ Doing("sync")
    /\ Ready(lead.method, s)
    /\ t # NoTask
    /\ status[t] = taskStatus
    /\ step[lead.method][s] = stepStatus

SyncStarts(s) ==
    /\ SyncReads(s, "in_progress", "pending")
    /\ StartStep(lead.method, s)
    /\ StepDone(s)
    /\ UNCHANGED <<boardVars, diskVars, bindingVars, ctx, saved, countVars>>

BugOnlyStarts(s) ==
    /\ SyncReads(s, "completed", "pending")
    /\ StartStep(lead.method, s)
    /\ StepDone(s)
    /\ UNCHANGED <<boardVars, diskVars, bindingVars, ctx, saved, countVars>>

(* start_step and complete_step in a row.                                  *)
SyncStartsAndCompletes(s) ==
    LET m == lead.method IN
    /\ SyncReads(s, "completed", "pending")
    /\ CanStart(m, s)
    /\ step' = [step EXCEPT ![m][s] = "completed"]
    /\ StepDone(s)
    /\ UNCHANGED <<runVars, mstage, assigned, plan, verdictVars, revision>>
    /\ UNCHANGED <<boardVars, diskVars, bindingVars, ctx, saved, countVars>>

SyncCompletes(s) ==
    /\ SyncReads(s, "completed", "in_progress")
    /\ CompleteStep(lead.method, s)
    /\ StepDone(s)
    /\ UNCHANGED <<boardVars, diskVars, bindingVars, ctx, saved, countVars>>

SyncSkips(s) ==
    /\ \/ \E st \in StepStatuses : SyncReads(s, "pending", st)
       \/ SyncReads(s, "in_progress", "in_progress")
       \/ \E ts \in {"in_progress", "completed"} : SyncReads(s, ts, "completed")
    /\ StepDone(s)
    /\ UNCHANGED <<wfVars, boardVars, diskVars, bindingVars, ctx, saved, countVars>>

(* A step without a task, or one start_step refuses, ends the pass; what   *)
(* the pass did so far stays in memory, and nothing is saved.              *)
SyncRaises(s) ==
    /\ Doing("sync")
    /\ Ready(lead.method, s)
    /\ \/ bound[lead.method][s] = NoTask
       \/ /\ \E ts \in {"in_progress", "completed"} : SyncReads(s, ts, "pending")
          /\ ~CanStart(lead.method, s)
    /\ Finish
    /\ UNCHANGED <<wfVars, boardVars, diskVars, bindingVars, ctx, saved, countVars>>

SyncEnd ==
    LET m == lead.method IN
    /\ Doing("sync")
    /\ lead.todo = {}
    /\ IF AllStepsCompleted(m) THEN SubmitStructural(m) ELSE UNCHANGED wfVars
    /\ Finish
    /\ UNCHANGED <<boardVars, diskVars, bindingVars, ctx>>
    /\ Save

-----------------------------------------------------------------------------
(* record_regulator_action: a new plan drops the bindings.                 *)
RegulateReplan(m, action) ==
    /\ LeadIdle
    /\ action # "revise_proof"
    /\ Regulate(m, action)
    /\ bound' = [bound EXCEPT ![m] = Unbound]
    /\ revTask' = [revTask EXCEPT ![m] = NoTask]
    /\ UNCHANGED <<boardVars, diskVars, wtName, lead, ctx>>
    /\ Save

(* A proof revision is a durable task, created after the workflow moved,   *)
(* and then bound to the worktree.                                         *)
RegulateRevise(m) ==
    /\ LeadIdle
    /\ Regulate(m, "revise_proof")
    /\ lead' = [op |-> "revise", method |-> m, todo |-> {}, caughtUp |-> FALSE]
    /\ UNCHANGED <<boardVars, diskVars, bindingVars, ctx, saved, countVars>>

ReviseCreate(t) ==
    /\ Doing("revise")
    /\ Board!Create(t, {})
    /\ revTask' = [revTask EXCEPT ![lead.method] = t]
    /\ lead' = [lead EXCEPT !.op = "rebind"]
    /\ UNCHANGED <<wfVars, diskVars, bound, wtName, ctx, saved, countVars>>

ReviseBind ==
    /\ Doing("rebind")
    /\ taskTree' = IF lead.method \in wtName
                   THEN taskTree \cup {revTask[lead.method]} ELSE taskTree
    /\ Finish
    /\ UNCHANGED <<wfVars, boardVars, dirs, bindingVars, ctx>>
    /\ Save

-----------------------------------------------------------------------------
(* mark_claimed: the claimed task replaces whatever the prover had, and    *)
(* its proof file is known only if the task is bound to a worktree now.    *)
ProverClaims(w, t) ==
    /\ status[t] = "pending"
    /\ Board!Claim(w, t)
    /\ ctx' = [ctx EXCEPT ![w] = [task |-> t, proof |-> t \in taskTree]]
    /\ UNCHANGED <<wfVars, diskVars, bindingVars, lead, saved, countVars>>

(* run_complete_task: only the task of the context, with a proof file that *)
(* changed since the claim.                                                *)
ProverCompletes(w) ==
    /\ ctx[w].task # NoTask
    /\ ctx[w].proof
    /\ Board!Complete(w, ctx[w].task)
    /\ ctx' = [ctx EXCEPT ![w] = NoContext]
    /\ UNCHANGED <<wfVars, diskVars, bindingVars, lead, saved, countVars>>

(* A lease runs out, and at its next heartbeat the prover forgets the task.*)
LeaseLapses(t) ==
    /\ status[t] = "in_progress"
    /\ Board!Release({t})
    /\ UNCHANGED <<wfVars, diskVars, bindingVars, lead, ctx, saved, countVars>>

HeartbeatFails(w) ==
    /\ ctx[w].task # NoTask
    /\ status[ctx[w].task] # "in_progress" \/ owner[ctx[w].task] # w
    /\ ctx' = [ctx EXCEPT ![w] = NoContext]
    /\ UNCHANGED <<wfVars, boardVars, diskVars, bindingVars, lead, saved, countVars>>

-----------------------------------------------------------------------------
(* A store or git call inside a handler raises: the handler ends where it  *)
(* is.  A failing git worktree add leaves binding.worktree_name unset.     *)
LeadFails ==
    /\ ~LeadIdle
    /\ faults < MaxFaults
    /\ faults' = faults + 1
    /\ Finish
    /\ UNCHANGED <<wfVars, boardVars, diskVars, bindingVars, ctx, saved, crashes>>

BugRestoresRunOnly ==
    /\ crashes < MaxCrashes
    /\ crashes' = crashes + 1
    /\ stage' = saved.stage /\ methods' = saved.methods
    /\ selected' = saved.selected /\ artifact' = saved.artifact
    /\ mstage' = saved.mstage /\ assigned' = saved.assigned
    /\ plan' = saved.plan /\ step' = saved.step
    /\ structural' = saved.structural /\ detailed' = saved.detailed
    /\ revision' = saved.revision
    /\ bound' = [m \in Methods |-> Unbound]
    /\ revTask' = saved.revTask /\ wtName' = saved.wtName
    /\ Finish
    /\ ctx' = [w \in Provers |-> NoContext]
    /\ UNCHANGED <<boardVars, diskVars, saved, faults>>

(* The process dies and starts again: _restore_persisted_state.            *)
Restart ==
    /\ crashes < MaxCrashes
    /\ crashes' = crashes + 1
    /\ stage' = saved.stage /\ methods' = saved.methods
    /\ selected' = saved.selected /\ artifact' = saved.artifact
    /\ mstage' = saved.mstage /\ assigned' = saved.assigned
    /\ plan' = saved.plan /\ step' = saved.step
    /\ structural' = saved.structural /\ detailed' = saved.detailed
    /\ revision' = saved.revision
    /\ bound' = saved.bound /\ revTask' = saved.revTask /\ wtName' = saved.wtName
    /\ Finish
    /\ ctx' = [w \in Provers |-> NoContext]
    /\ UNCHANGED <<boardVars, diskVars, saved, faults>>

LeadStep ==
    \/ WorkflowOnly
    \/ \E m \in Methods : RequestDecomposition(m)
    \/ \E m \in Methods, p \in Plans : ActivateBegin(m, p)
    \/ \E s \in Steps, t \in Tasks : ActivateCreate(s, t)
    \/ WorktreeKept
    \/ WorktreeAdded
    \/ \E s \in Steps : WorktreeExists(s)
    \/ \E s \in Steps : BindTask(s)
    \/ ActivateEnd
    \/ \E m \in Methods : SyncNothing(m)
    \/ \E m \in Methods : SyncRevision(m)
    \/ \E m \in Methods : SyncBegin(m)
    \/ \E s \in Steps : SyncStarts(s)
    \/ \E s \in Steps : SyncStartsAndCompletes(s)
    \/ \E s \in Steps : SyncCompletes(s)
    \/ \E s \in Steps : SyncSkips(s)
    \/ \E s \in Steps : SyncRaises(s)
    \/ SyncEnd
    \/ \E m \in Methods, a \in RegulatorActions : RegulateReplan(m, a)
    \/ \E m \in Methods : RegulateRevise(m)
    \/ \E t \in Tasks : ReviseCreate(t)
    \/ ReviseBind
    \/ LeadFails

ProverStep ==
    \/ \E w \in Provers, t \in Tasks : ProverClaims(w, t)
    \/ \E w \in Provers : ProverCompletes(w)
    \/ \E w \in Provers : HeartbeatFails(w)
    \/ \E t \in Tasks : LeaseLapses(t)

OrchNext == LeadStep \/ ProverStep \/ Restart

OrchSpec == OrchInit /\ [][OrchNext]_vars

-----------------------------------------------------------------------------
Fresh == crashes = 0 /\ faults = 0

(* The two views agree where it matters: the workflow never believes more  *)
(* than the durable tasks show.  A step is done only if the task bound to  *)
(* it is completed, through re-plans, stale snapshots, restarts and        *)
(* half-finished handlers.                                                 *)
StepsBackedByTasks ==
    \A m \in Methods : \A s \in plan[m].steps :
        /\ step[m][s] = "completed" =>
               bound[m][s] # NoTask /\ status[bound[m][s]] = "completed"
        /\ step[m][s] = "in_progress" =>
               bound[m][s] # NoTask /\ status[bound[m][s]] # "absent"

(* The durable tasks of a method depend on each other exactly as its plan  *)
(* says, whatever generation of tasks the binding names.                   *)
TasksMirrorPlan ==
    \A m \in Methods : \A s \in plan[m].steps :
        bound[m][s] # NoTask =>
            blockedBy[bound[m][s]] = {bound[m][d] : d \in plan[m].deps[s]}

(* No task serves two purposes: the tasks bound to different steps or as   *)
(* revision tasks are different, also when a restart brought an old        *)
(* binding back.                                                           *)
BindingsDisjoint ==
    /\ \A m, n \in Methods : \A s, r \in Steps :
           bound[m][s] = bound[n][r] /\ bound[m][s] # NoTask => m = n /\ s = r
    /\ \A m, n \in Methods : \A s \in Steps :
           revTask[m] # NoTask => revTask[m] # bound[n][s]

(* The tasks a plan is bound to are its own, and are arranged like it.     *)
TasksServeThePlan == TasksMirrorPlan /\ BindingsDisjoint

(* As long as nothing failed, no work is left lying about: every task that *)
(* is not completed belongs to the present plan or revision of a method.   *)
NoOrphanTasks ==
    Fresh => \A t \in Tasks : status[t] \in {"pending", "in_progress"} =>
                 \E m \in Methods : revTask[m] = t \/ \E s \in Steps : bound[m][s] = t

(* A pass over a method whose tasks were all completed when it began moves *)
(* the method to review; it neither raises nor stops short.                *)
SyncCatchesUp ==
    [][Doing("sync") /\ lead.caughtUp /\ LeadIdle' /\ faults' = faults /\ crashes' = crashes
           => mstage'[lead.method] = "structural_verify"]_vars

(* What the tests state (test_research_workflow_orchestration.py:181): an  *)
(* activated method has all its step tasks in its worktree, which a prover *)
(* needs to complete them.                                                 *)
ActivatedTasksHaveWorktree ==
    [][Doing("bind") /\ LeadIdle' /\ faults' = faults /\ crashes' = crashes
           => \A s \in plan[lead.method].steps : bound[lead.method][s] \in taskTree]_vars
=============================================================================
