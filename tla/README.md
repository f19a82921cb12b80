# Math_Solver in TLA+

Math_Solver is a Python agent runtime for mathematical research. One process
runs a *lead* agent, whose turns are driven by a command line loop and an
autorun thread, and *teammate* agents, one thread each. They share SQLite tables
(tasks, messages, jobs and schedules, events) and git worktrees, and several
processes may share the same files. The interesting part of the program is not
the mathematics but the coordination: leases on tasks, dependencies, a staged
research workflow with reviews, plans that wait for approval, background calls,
cron firings, calls to remote tool servers, commands in processes of their own,
a shared memory, and all of it across crashes and restarts. That is what these
modules model.

Paths in this file are relative to `src/agent_runtime/` unless they start with
`src/` or `tests/`. `PROJECT.json` maps every definition to its lines.

## 1. Inventory

| component | state it keeps | operations | hard because of | correct when |
|---|---|---|---|---|
| Task store (`tasks/store.py`) | rows of `tasks`: status, owner, lease, dependencies, worktree | create, import, claim, heartbeat, complete, recover; each one `BEGIN IMMEDIATE` transaction | clock read before the lock is granted, leases that lapse, workers that die or report late, legacy rows | a live lease is exclusive, dependencies precede work, completion is final, no row becomes unclaimable |
| Research workflow (`research/workflow.py`) | stage of a run, stages, plans, step statuses and verdicts of its methods | survey, plan, start/complete step, two reviews, regulation, revision, summary | many legal orders; edits must void reviews; plans come from a model | steps follow dependencies; reviews see finished work; only methods approved twice are published; a method being proved can go on |
| Research orchestration (`research/orchestration.py`) | bindings of methods to tasks and worktrees, the run in memory, snapshots in the event store | activate, sync, regulate, restore, dispatch | handlers with many durable steps, provers working between the steps, faults and restarts in the middle | the workflow never believes more than the durable tasks show |
| Worktree runtime (`worktree/runtime.py`) | git worktrees, the task column | create, bind, remove, keep | directories that outlive records | tasks of a method have its worktree |
| Teammate runtime (`runtime/teammate.py`) | per thread: place in the loop, waiting plan, claimed task | spawn, rounds of model and tools, idle poll, claim, complete, heartbeat | inbox read at two places, exits in the middle, names reused by later threads | no tool runs while a plan awaits its decision; asked to stop it stops |
| Team coordination (`team/coordination.py`) | request table, lead's inbox | submit/review plan, request shutdown, match responses | requests forgotten at restart while mailboxes survive; store then send | a request's status tells what happened |
| Message store (`team/store.py`) | rows of `messages` | send, consume_inbox, migrate | several consumers | each message is consumed once, in order |
| Job store (`jobs/store.py`) | rows of `jobs`, `schedules` | create, claim, succeed, fail, cancel, recover, notify; schedule rows | several runners, recovery that takes live jobs | budgets hold, outcomes are final |
| Background jobs (`jobs/runner.py`, `jobs/runtime.py`) | threads of a process, notices | start, run, resume, collect notices | processes racing for a row, crashes between claim, effect and report | a call takes effect at most once and is told once |
| Cron (`jobs/runtime.py`, `jobs/cron.py`) | schedules, firings as jobs, claimed prompts, conversation | migrate, reconcile, tick, claim, deliver | three startup steps, two-step firing, delivery before the turn, threads that an exception ends | one-shots fire once, ended schedules stay quiet, firings are settled while an autorun thread lives |
| MCP client (`research/mcp.py`) | per server: the client's fields, a worker thread with an event loop, coroutines of calls | connect and retry, call a tool, close | the worker outlives joins, calls outlive their limits, the main thread closes at exit | one session at a time; a call takes effect at most once and in order; refused calls are never sent; each call is answered |
| Lead loop and context (`runtime/loop.py`, `context/runtime.py`, `context/budget.py`, `cli/app.py`) | the conversation, the lock, recovery state of the turn | append, begin and end a turn, inject, fit, compact, answer, continue, nudge, run tools | two threads share the conversation and one appends outside the lock; the turn writes back copies of it; replies are cut off; turns end by exceptions | nothing that was said gets lost; each call has its results; a gated turn shows no prose; a query gets its turn |
| Model gateway (`runtime/model_gateway.py`) | the recovery state of a turn: model, streak of overloads | a call with retries, the switch to the fallback | the count lives across the calls of a turn, and three kinds of errors touch it | the fallback is taken after a streak of overloads, and only then |
| Execution tracker, subagents, policy, trace (`runtime/execution.py`, `runtime/subagent.py`, `policy/`, `observability/store.py`) | runs and tool calls, a stack of runs per thread, events on their way, the trace | start and finish runs and calls, decide a call, delegate, spawn, record an event | three kinds of threads, runs that raise anywhere, a sink that fails silently | everything is recorded under its caller; threads, tracker and trace agree |
| Memory (`memory/`) | scopes, rows, a migration mark; per process the active scope | start, switch, leave a scope; remember, read, search, promote, checkpoint; import the legacy file | operations of several transactions, several processes, calls that raise half-way | the problems of two leads stay apart; scopes in use are open and others are not; nothing legacy is lost |
| Command executor (`security/command_executor.py`, `security/process_sandbox.py`) | one process, its descendants, a pipe and its reader | check, launch, wait, give up, close | limits race with exits; descendants inherit the pipe; it is closed between two reads | only trusted programs start; an answer has the output up to the limit, or is a timeout; a command ends where its pipe is let go |
| Archives, SymPy worker, search, tools, texts | little | - | input and output | not modelled |

Interactions: the orchestrator calls the workflow (in memory), the task store
and the worktree runtime (durable), and saves snapshots; provers reach the task
store only. The coordinator and the teammates meet in the message store and in
the request table. Jobs and cron meet in the jobs table. The lead's conversation is a
list that the CLI thread and the autorun thread of cron both extend and replace.
A turn of the lead asks the gateway, reports itself and its tool calls to the
tracker, passes the policy hooks, and runs commands through the executor. Every
process of the program opens the same memory. Startup (`src/s20.py`) calls, in order, recovery of jobs and migration and
reconciliation of schedules before it starts the scheduler thread; the CLI starts the autorun thread. Queued jobs are resumed
at the start of each turn of the lead (`runtime/loop.py:232`).

The hazards, each at its line, are in `PROJECT.json`; the properties were chosen
from that list.

## 2. Modules

    TaskBoard  <== TaskStore                    (refinement; TaskStoreProofs)
        ^
        | INSTANCE
    ResearchOrchestrator -- EXTENDS --> ResearchWorkflow ==> ProofGate
                                        (both, and both refinements; ResearchWorkflowProofs)
    JobLedger  <== JobStore <-- EXTENDS -- BackgroundJobs ==> ToolCalls
                       ^        (both, and both refinements; JobStoreProofs)
                       | INSTANCE on firings
                   CronScheduler                (CronSchedulerProofs)
    LeadTurns                                   (LeadTurnsProofs)
    Teammate, McpClient ==> ToolCalls           (PeersProofs)
    Memory                                      (MemoryProofs)
    ModelGateway, CommandExecutor, AgentRuns    (RuntimeProofs)

The `MC...` modules give the constants values for TLC. Three of them put components
that share no state into one run: `MCServices` (ResearchWorkflow, Memory, AgentRuns,
ModelGateway), `MCBackgroundJobs` (BackgroundJobs, CommandExecutor) and `MCPeers`
(Teammate, McpClient). A variable chosen at the start says which of them a
behaviour steps, so the state space is the sum of theirs and not the product, and the
fairness of each is restated for its steps.

An arrow `==>` reads "implements". Definitions whose names start with `Bug` are
slips in the definition that follows them; no specification uses them.

**TaskStore** has one action per outcome of each transaction. `Begin` is the part
of an operation before `BEGIN IMMEDIATE`, where it reads the clock; `age` is how
long ago that was when the transaction runs, so a client may act on an old time.
A lease is kept as what is left of it (`ttl`), which makes the state space finite
without a horizon: `Tick` lowers every lease and raises every age, and stops
only while a call has waited `MaxAge` (the busy timeout, after which the call
fails). `granted` is history: what a client was last told. The worktree column
and `update_worktree` are in the orchestrator's module. `set_status` has no caller
in the program, so `failed` and `cancelled` rows come from legacy files only.

**TaskBoard** is what users of the table rely on: open tasks are claimed when
their dependencies are completed, claimed ones are released or completed, and
completion is for ever. It has no clock, clients or transactions, and it is the
board the orchestrator is composed with.

**ResearchWorkflow** has one action per method of `ResearchWorkflowCoordinator`;
a guard is a `_require_*` call. Plans are a constant set that also contains cyclic,
dangling and empty ones, which `ValidPlan` (the depth-first search of
`_validate_step_plan`, stated as the existence of a closed subset) must refuse.
**ProofGate** is the promise in four actions: an edit voids both approvals, details
are approved after structure, publication needs both.

**ResearchOrchestrator** extends the workflow with the board, bindings, worktree
directories, snapshots and provers. A handler of the lead is a sequence of steps
(`lead.op`), one per durable call, between which provers claim and complete and
leases lapse; `LeadFails` is an exception in any durable call, after which
`dispatch` reports the error and keeps what was done; `Restart` forgets memory
and restores the last snapshot. Handlers that touch only the workflow are single
steps (`WorkflowOnly`). Literature bookkeeping and prompts are left out.

**JobStore** is the jobs table; **JobLedger** its promise (budgets and final
outcomes). **BackgroundJobs** adds processes, a thread per job and process, and the
three steps in which notices reach a conversation. A tool call is a job with
`max_attempts = 1`; **ToolCalls** says what that buys: begun once, effect at most
once, reported after it. A thread may die with its process at any point, a
store call may raise in it, and its tool call (a command, see CommandExecutor) may never end.

**CronScheduler** uses the same jobs table for firings, which are pairs of a
schedule and a minute (`cron_occurrence_job_id`). The three startup steps, the tick
(read the rows, then for each one enqueue and mark) and the delivery (claim, put into
the conversation, mark) are separate actions. A process has a scheduler thread (`scheduler`) and an
autorun thread (`autorun`: free, in a turn, or dead), and a lead whose turns also claim prompts;
`held` has what each of the two deliverers has claimed and not delivered. Reading the rows of a tick, a
claim or a turn may raise, which ends the thread for the rest of the process (`SchedulerDies`,
`AutorunDies`); `lost` are the prompts that were left running by it, or by a mark that raised, until a start
recovers them. Whether an expression matches is the constant `Matches`. Minutes are a clock with a bound.

**Teammate** is one teammate name through successive threads, the lead's side of
the two protocols and both mailboxes. `at` is the place in `_run_teammate`.
Request ids come from a small set and can return after a restart, because the
table is in memory and the mailboxes are not. Texts are left out; a message is its
type, request id and approval.

**LeadTurns** is the conversation with everything that extends or replaces it. The
CLI thread appends a query, waits for the lock, takes a turn, gives the lock back
and appends its inbox; the autorun thread claims prompts, takes the lock, appends them
and takes a turn. `at` is the place in `_run_impl`; a turn is cut into actions at
every point where the code has read the messages and will write them later
(`copy`): `Fit`/`Refit` for the budget, `Compact`/`Compacted` and
`Compact`/`Reacted` for the summaries, whose model call lies between the two. A
message is its kind, the number of its calls or results, the asks that can be read
in it (`asks`), and the turn in which the model wrote its prose. A summary holds the
asks of what it summarised, because it names the transcript they were written to. A reply that was cut
off inside of a call is a call of none, for the code runs none of its calls. `said`, `turnNo`, `displaced` and
`gated` are history; `displaced` marks a turn whose messages a summary moved to or before `turn_start`.

**McpClient** is one configured server: the entry of `MCPRuntime` and its
`PersistentMCPClient`. Three kinds of actors share the client's fields. The lead
(`lead.at`) connects, starts a worker, waits, picks the session, submits a call, waits
for its answer and closes; turns hold the lock of the conversation, so there is one
lead. A worker thread (`worker`) starts a session, serves, ends, clears the fields and
gathers its coroutines; `task` is the coroutine of a call on its loop. The main thread
closes the client when the program ends, whatever the lead is at. The fields hold the worker
they belong to, so `thread`, `loop`, `client` and `stop` may differ; `loop` is cleared by the
worker, `thread` by a `close` whose join saw the thread end. Every time limit is a step that
may be taken while its owner waits, and a worker, a server or a coroutine may stay where
is for ever. A client whose first connection fails is thrown away; a worker of it
that still lives is an orphan (`orphans`). The same **ToolCalls** is implemented, now by calls
that are reset.

**Memory** is the store under several leads, each in a process of its own. Every
transaction is a step, and `call` is where an operation of several transactions is: the
import and its mark, entering a scope and leaving the old one, reading a row and promoting
it, the items of a checkpoint. A store call ends `done`, `lost` (it raised before the
commit) or `unread` (it raised in the read after it), since `_write_transaction` commits
before the row is read back. A row is its scope, its key and the problem its content is about; a key is what the
upsert replaces by, and `NoKey` is an episode, which is only added. A problem is named by the scope it was
opened in. `met` is what the conversation of a lead holds: the scopes it was told it is in, and what contexts, searches and
promotions showed it. Entering a scope does not cut the conversation, so the lead may write of anything in
`met` into whatever scope it is in, and so does the checkpoint of a compaction, which is made of all
messages (`CheckpointItem`): an earlier problem of the same lead does get into later scopes. `mark` is
history: who archived a scope, and where a failure came in between; `owner` is the first lead that was told it is in a
scope, and `crossed` that a row was promoted, that a search found rows of another lead, or that two leads were told they are in one
scope: the three ways on which problems go from one lead to another.

**AgentRuns** has what really happens next to what is recorded. `frames` is the control
stack of each thread: turns of the lead on the main and the autorun thread under
`agent_lock`, subagents inside a call of the lead, teammates on their own threads.
`context` is the stack the tracker keeps per thread, `runs` and `toolCalls` its tables, `outbox`
the events between the tracker and the sink, `trace` what the trace store derives from them. A
run may raise at every place. `Evaluate` is the order of the default rules on what they ask of
a call. The endings of a call other than blocked are one. `calledBy`, and the `caller` kept with
the parent that `spawn` captured, are history: they name the run whose call it was from the
control stack, never from the tracker.

**ModelGateway** is a turn and its calls: `tries` counts the attempts of a call, the
`RecoveryState` lives as long as the turn. `streak` and `longest` are history.

**CommandExecutor** is one call of `execute`. Its checks work on a request made of what
they tell apart; the process, one descendant inside its group and one outside may each hold the
pipe, write, and exit at any time. The pipe counts bytes: a read returns `Chunk` of them, or the
rest when nobody can write any more, and keeps the pipe's lock until then. The reader is between two reads, `reading`,
`holding` what it has read, `ended`, or `cut`: `Join` waits for it for two seconds at most, and `Close` only
for a read in progress, so a reader that is between two reads is cut off and the answer has what was kept so far. Of what it
reads, `KeepChunk` keeps `ByteLimit` bytes, four for each of the `Limit` characters that the answer shows; `Width` is how
many a character of the output really has.

## 3. What is checked

Each passing run has for every property a mutant: a slip in one mapped
definition that makes TLC report that property.

| run | instance | shows |
|---|---|---|
| `task_store` | 2 clients, 3 tasks (one imported, a chain), lease 2, wait 1 | `DependenciesFirst`, `LeaseHonoured`, and the table implements the board (`BoardSpec`), where completion is final |
| `services`: workflow | 2 methods, 6 plans of up to 3 steps | `ReviewedWorkIsFinished`, `ProvingCanProgress`, and it implements the gate (`GateSpec`), which publishes only what both reviews passed |
| `services`: memory | 2 leads, 3 scopes, 2 rows, 1 key and episodes, 1 exit, 1 call that raises; sessions and scopes alone with a legacy file, and everything without one until something crosses | `ProblemsStayApart`, `ScopesFollowLeads`, `LegacyIsKept` |
| `services`: agent runs | 2 lead threads, 1 teammate, 3 runs, 2 calls, events of 1 run lost | `CallersAreRecorded`, `RecordsAgree` |
| `services`: gateway | 3 calls of 3 tries, fallback after 2 overloads or none | `FallbackIsEarned` |
| `orchestrator` | 2 methods, 3 tasks, 2 crashes, 1 fault | `StepsBackedByTasks`, `TasksServeThePlan`, `NoOrphanTasks`, `SyncCatchesUp` |
| `background`: jobs | 1 call, 2 processes, 2 crashes, 1 fault, fair | the table implements the ledger, in which budgets hold and outcomes are final (`LedgerSpec`); `RunningIsWorkedOn`, `ToldOnce`, calls take effect at most once (`CallsSpec`), `JobsEndAndAreReported` |
| `background`: command | every request, a pipe of 2 bytes, reads of 2, a limit of 1 character (4 bytes), characters of 2 bytes, 5 bytes written, 2 descendants, fair | `AnswersAreTrue`, `CommandsEnd` |
| `cron` | a one-shot from the legacy file that matches every minute, a recurring schedule that matches every other one, 3 minutes, 1 process, 1 crash, 1 call that raises or ends its thread | `OneShotFiresOnce`, `EndedStaysQuiet` |
| `cron_live` | a recurring schedule, 2 processes, 3 crashes, 2 calls that raise or end an autorun or scheduler thread, fair | `DeliveredByHolder`, `FiringsAreSettled` |
| `lead` | 1 query, 1 scheduled prompt, 1 letter, conversations of 4 messages that fit, 2 kept by a reactive compaction, fair | `CallsAreAnswered`, `PromptsSurvive`, `GatedTurnsHideProse`, `QueriesAreTaken` |
| `peers`: teammate | 2 request ids, 2 unread messages a mailbox, 1 crash, 1 fault, fair | `GateHolds`, `ShutdownsAreReal`, `DecidedPlansResume`, `ShutdownRequestsStop` |
| `peers`: MCP client | 2 workers, 2 calls, 1 retry, 1 orphan, fair | `OneSession`, `RefusedIsUnsent`, calls take effect at most once (`NeverReplayed`) and in order (`EffectsInOrder`), `CallsEnd` |
| `task_store_late`, `orchestrator_tree`, `lead_lost`, `command_hang` | | disagreements between a text of the repository and the code, section 6 |

Invariants that only say types, and those whose proof covers what a run would show
(`NoDeadRow`, `StepOrder`, `AttemptsInBudget`, `OutcomeIsFinal`), are left to section 4. `CancelJob` and the outcome
`timed_out` have no caller in the program: they are actions of `JobSpec`, about which
`JobStoreProofs` proves, and of no run.

Why these bounds are enough to meet the hazards: two clients and a lease longer
than one tick give a late claim, heartbeat and completion against a live lease of
somebody else, and a wait of one tick separates the clock from the
transaction. Two methods are the least that can steal each other's tasks or
worktrees; three tasks let a method be re-planned into other tasks while the other
method works, or have a step and its revision. A crash may follow every step
of a handler; the second one meets what the first left behind. Background calls share
nothing but the processes, so one call has all their races; two processes are what
`recover_interrupted_jobs` can confuse. A firing has two attempts, so two crashes
exhaust it and the third finds it failed. A query, a prompt and a letter are the
three ways into the conversation, and each races with one turn and the copies it
holds; four messages that fit and two that are kept let a compaction come with calls
and results, or parts of them, in the part that is kept, and one round of two calls
lets a turn stop before, between and after them. Two request ids
let an old and a new use of an id, or a plan and a shutdown, meet in one mailbox.
Two leads are the least that share or archive each other's scopes, and three scopes are the two they
are in and one to go to, and two rows the least that meet in a scope; one raise and one exit may follow every step. With a legacy file the sessions and scopes are
explored without rows, without one the whole store is, up to the step in which something crosses:
`ProblemsStayApart` says nothing after it, and what rows do leaves the scopes alone. Three runs are a turn with a subagent or
a teammate and the turn that comes after it, and two calls the one they were made in and one of their own. A streak of two
overloads can be cut by each of the other outcomes, within a call and across two. A pipe and a read of
the same size are what `read(8192)` and a full pipe need; the limit of one character keeps four bytes, of which the answer shows two, and the fifth
byte written is dropped.
Two workers are an old one that does not end and a new one, two calls one that was given up and
the next, and one retry is a failure after which `connect` goes on.
The bounds `MaxCrashes`, `MaxFaults`, `MaxOrphans`, `MaxUnread`, `MaxAge`, `MaxRounds`, `MaxCalls`, `MaxScopes`, `MaxRows`,
`MaxExits`, `MaxRaises`, `MaxRuns`, `MaxLost`, `MaxRequests`, `MaxWritten` and `LastMinute` are guards of the actions they name and of nothing else; `Long`, `Recent`,
`MaxRecovery`, `MaxNudges`, `MaxTries`, `Overloads`, `Chunk`, `Capacity`, `Limit` and `Width` are parameters of the code, made small.

`CHECK_DEADLOCK FALSE` where the system may stop: a run that is completed, jobs
that all ended, a clock or a set of tasks at its bound. `task_store` is checked for
deadlock.

### Fairness

* `BgFairness`: the thread of a job runs on before and after its tool call, a dead process is started
  again, and a live one resumes what is queued and asks for notices
  at the start of its turns (`runtime/loop.py:232`), which keep coming. Nothing is assumed of
  submissions, crashes and tool calls: a background call is a command, and the executor may
  wait for one without end (`command_hang`). That the call of a job does not stay in one live thread for ever is therefore a premise of
  `JobsEndAndAreReported`.
* `CronFairness`: a dead process is started again; an autorun thread that is free lists what is queued every
  second and claims what it finds, which is strong fairness, because it is away for turns in between; and a
  turn of the lead appends what it has claimed. The autorun and the scheduler thread may die by an exception and
  stay dead, and nothing makes a turn end or the lead take one. `FiringsAreSettled` has the premise that turns of
  autorun threads end and that some process is, again and again, up with a free one; it exempts what a thread had in
  hand when it died and what could not be marked (`lost`).
* `TmFairness`: the teammate's thread runs on, a decision the lead has begun to send
  is sent, and the lead reads its inbox (each turn does). Nothing is assumed of
  the lead's decisions: `DecidedPlansResume` says what follows one.
* `LdFairSpec`: while the process lives, the turn goes on (the model answers every
  call, a tool call ends), the CLI thread takes a free lock and reads its inbox, and
  the autorun thread delivers what is due. Nothing is assumed of the user, of
  teammates or of the clock; there are finitely many prompts, as in the code the
  autorun thread could otherwise take every free lock, which Python's `Lock` allows.
* `McpFairSpec`: the lead's thread runs on, since each of its waits (start-up, join, answer) has
  a limit. Nothing is assumed of the worker, the server, the coroutines or the main thread.
* `CmdSpec`: the thread of the executor and the reader run on, and the limit of `wait` passes. Nothing is
  assumed of the processes: they may write, fork and live as long as they like. `CommandsEnd`
  has as its premise that, again and again, no descendant holds the pipe; without the premise it is false (section 6).

Where a liveness property ends in `\/ faults > 0`, the code makes no repair after
a store call raised: the property would be false, and the hazards say so.

## 4. What is proved

For every value of the constants, from the assumptions named in the modules only.

* **TaskStoreProofs.** `TypeOK` needs `CallShape` (a call other than recovery names a
  task). `LeaseHonoured` says that whoever was told of a lease that still has time
  is the owner of the row and that row's lease is no shorter; it is inductive with the
  type invariant, because a lease only ever lapses for a transaction at a time
  that is not later than now (`LapsedIsOver`), and a renewed lease never exceeds what
  was announced. `DependenciesFirst` rests on `CompletedStays`. `NoDeadRow` says that a
  row in progress has an owner and a lease unless it was imported so.
  `StoreImplementsBoard` maps every transaction to a board step or a stutter.
* **ResearchWorkflowProofs.** `WfInv` is `RunInv` and, for every method, `MethodInv`: per
  stage, which verdicts may be set, that past proving all steps are completed and no
  revision is outstanding, and that the plan is one that validation accepted. Each
  action changes one method (`OnlyOneMethodMoves`), so preservation is proved once
  for a method and lifted. `NoSelfBlockedMethod` uses that accepted plans have no
  closed subset: if no step could start, the unfinished ones would be one.
  `WorkflowImplementsGate` uses the invariant before and after each step.
* **ResearchWorkflowProofs, orchestrator.** A restart replaces the live run by the last snapshot while
  the tasks have gone on, so an invariant of the live run alone is not inductive. `Sound(x, st, dep)` says of any
  snapshot `x`, against the status and dependencies of the tasks, that plans are closed (`Planned`), that bindings name
  tasks that exist (`Named`), that steps are backed by them (`Backed`), that the tasks are arranged like
  the plan (`Mirrored`) and that none serves two purposes (`Apart`). `OrchInv` is the types, `Sound` of the live run and
  of the saved one, and `HandlerInOrder`: what each place of a handler has done and left to do. A sound
  snapshot stays sound as the board grows (`SoundStays`, with `Grown`: tasks stay, their dependencies too, completion
  is final); the lemmas `SoundMoves`, `SoundStep`, `SoundReplan`, `SoundBinding` and `SoundRevision` are the
  five ways a step may change one. `StepsAreBacked` and `TasksStayWithTheirPlan` are read off it, and
  `SyncAlwaysCatchesUp` needs the handler's part. For `NoTaskIsOrphaned` the invariant holds only while
  nothing failed: `FreshInOrder` adds that a revision task is only dropped when it is done, that a
  method under review has all steps completed, and that a method in decomposition has no bindings, so that a
  new plan drops completed tasks only.
  Three results join the components. `OrchUsesTheBoard`: lead and provers refine the task board.
  `ProversFollowThePlan`: no task of a step is worked on before the tasks of its dependencies are completed; the board's
  order (`BoardInOrder`) and `Mirrored` together. `WorkflowSurvivesRestarts`: what is proved of the workflow alone holds of the
  live run as well, because the snapshot keeps `WfInv` too (`RunInOrder`).
* **JobStoreProofs.** `JobInv` adds to the types that attempts stay in budget and that
  notices are of ended jobs; the ledger follows step by step. The processes only use the table by its own
  transactions (`BgUsesTheTable`), so all of it holds while they run, crash and resume, the ledger included
  (`ProcessesImplementLedger`). `BgInv` adds `RunningIsWorkedOn` and `NoticesInOrder`: what a process gathered or told is
  marked, and a job is in one stage of its notices, from which `ToldOnce` follows. `CallsAreNotReplayed` has the
  hypothesis `OneAttempt` (`jobs/runtime.py:120` creates each background job with one attempt; with more, the
  table would allow a retry of what took effect) and the invariant `CallsInOrder`: nothing happened to a job that was never
  claimed, one thread executes it, and a thread that is finished had its effect.
* **CronSchedulerProofs.** `CronInv` has the types and three parts: a tick is of a minute that came
  and of schedules that exist (`TicksAreReal`), a schedule is inactive from the minute it ended in, and neither its firings
  nor a tick under way are of a later one (`QuietInOrder`), and `DeliveredByHolder`. `OneShotsFireOnce` has the hypothesis
  `OneProcess` (section 5 says why) and the invariant `OneShotsInOrder`: before any call has raised, what is due
  has not fired, and what has fired and is still active is in the hands of the tick or startup is not through. Firings
  are jobs of the same table (`CronUsesTheTable`).
* **PeersProofs, teammate.** `GateHolds` is not inductive. `GateInv` adds `PendingIsAwaited`
  (a plan submitted and undecided is the one the thread waits for, or the process has
  just begun), `ResponsesAreDecisions` (a response in the mailbox to that plan
  exists only once it is decided) and `RequestsAreKnown` (an id in use is not given out
  again while it matters). `ShutdownInv` adds to `ShutdownsAreReal` that answers in the
  lead's mailbox are of threads that stopped.
* **LeadTurnsProofs.** `PromptsSurvive` is not inductive: a turn that holds a copy of the
  messages writes it back, and the step that does so must not lose a prompt.
  `PromptsInv` adds `Locked` (a turn is under way exactly while one of the threads
  holds the lock) and that while a copy is held it contains the prompts said so far.
  Two lemmas carry it: `KeptAlways` (each step keeps the asks of the conversation or
  replaces it by the copy's, and appends what it says) and `CopyFollowed` (while a
  copy is held nobody says a prompt, because prompts are said under the lock). For
  queries and letters the second fails, which is what `lead_lost` shows. The lemmas on
  sequences before them say what appending, joining and hiding prose do to the asks.

  `GatedTurnsHideProse` is about an index into messages that others extend: `ProseInOrder` says that
  no message is of a later turn, and that what lies before `start` has no prose of the turn under way, in the
  conversation and in a copy that is written back. A compaction keeps this up: the turn's index still
  lies before its prose where the summary leaves the length as it is, or where the turn began with
  the first message. In any other case the turn is `displaced`, and the property says nothing of it, because the
  code then does show prose.

  `CallsAreAnswered` becomes inductive as `CallsInOrder`: in the messages, and in a copy that is written back,
  results answer the call before them or were cut off by a summary (`ResultsCalled`), and every call to run is answered
  (`AllAnswered`), but amid tool calls and on the way to the compact tool's summary, where the last one may
  be open (`OpenSoFar`): behind it lie asks only, and what was run of it and is to run add up. The
  second half is kept while nothing has raised in the autorun thread (`Unbroken`). `Beginning` and `Following` say that what is
  added behind a conversation takes no answer away, `ResultsAnswer` that the results go to the open call, and
  `RecentKeeps` what a reactive compaction, which may cut between a call and its results, leaves: results
  at the beginning of the kept part stand right behind the summary.
* **PeersProofs, MCP client.** `OneSession` alone is not inductive: the lead acts on fields it read
  earlier, and a worker that left a field set may be gone. `McpInv` has four parts.
  `Sessions`: a live worker that is no orphan is the client's `thread` and `loop`, one that
  serves or ends is its `stop` too, and a connected client has no worker that only starts.
  `Leading`: what each place of the lead implies for its call, for the entry of the server and for
  the worker it submits to. `Progress`: for each place of a coroutine, what of its call may
  have been sent, answered and told; the call of the lead is the last one issued. `Leftovers`: a
  coroutine that is not over lives on a live worker, and either the lead waits for it or the
  client is not connected and offers nobody a session; no later call has a coroutine. A
  call that is given up on a live loop is followed by a close, after which the client is
  not connected, and a new worker is only started when the old thread is gone, whose loop took
  its coroutines with it. That is the argument for `EffectsInOrder`; the refinement rests on
  `Progress`.

* **MemoryProofs.** `ProblemsStayApart` is about conversations, and what keeps them apart are the scopes. `MemInv` adds
  to the types: a lead is in a scope exactly while it works (`LeadsAreInScopes`); and, until something crosses,
  the owner of a problem's scope is the one lead that has met it and the one that is in it, and a row is about a
  problem of the owner of its scope (`ProblemsHaveOneLead`). So a lead may carry its problems through
  all of its scopes, and its contexts still show no other lead's. Further, the scope a lead is in, and the one
  it goes to, was not archived by that lead (`LeadsDoNotArchiveTheirs`), since a lead only leaves a scope
  for another one; and a process marks the migration after it imported (`ImportComesFirst`). Each action has a lemma;
  what opening a scope, telling a lead of it and storing a row do is said once (`OpenKeeps`, `ToldKeeps`, `StoreKeeps`).
* **RuntimeProofs.** For the gateway `Counted` says that on the primary model with a fallback the count of the
  state is the streak, and below the limit. For the executor the answer follows from what the reader knows:
  at its end everything was read and nobody can write (`ReaderEndsLast`), and what it kept is
  what it read, up to the limit (`ReaderKeeps`); four bytes for a character are enough for any width
  (`LimitKeepsCharacters`); and a process that was killed has taken its group along (`ProcessIsGone`). A reader that was
  cut off knows nothing of the kind, and `AnswersAreComplete` does not speak of it.
  For the agent runs `ArInv` has three parts. `StacksAgree`: the tracker's context of a thread names the runs of
  its control stack, frame by frame; a run is on one stack, once, and exactly while it is running; a lead thread
  without the lock has no frame, which is why a turn starts without a parent. `CallsAgree`: a frame in a call is
  the one that made it, and an open call has such a frame or a run that failed. `TraceFollows`: what is on its way
  to the sink is true, and what has ended is stored, lost or on its way. The actions change one stack each, by its
  last frame (`Growing`, `Shrinking`), so the steps of three kinds have a lemma each: `Starting`, `Calling`,
  `Finishing`, and `Storing` for the sink.

Assumptions on constants are that special values are not members of the sets they stand beside
(`NoTask \notin Tasks`), that the three kinds of asks and the kinds of threads are different things, that bounds and
limits are numbers, positive where the code needs it, and that submitted plans have the shape of a plan, sound or not. The two hypotheses above are the only ones that narrow a
theorem to a use of the program.

The theorems on refinement and on invariants that the runs do not name (completion is
final, selected methods are verified, notices are of ended jobs) are consequences of
the same invariants. Every safety property of a passing run is now a theorem. Only model-checked: the liveness
properties (`JobsEndAndAreReported`, `CommandsEnd`, `FiringsAreSettled`, `QueriesAreTaken`, `DecidedPlansResume`,
`ShutdownRequestsStop`, `CallsEnd`), for the prover has no rules for fairness and `ENABLED`.

## 5. Limits of the models

* `OneShotFiresOnce` is checked for one process. With two processes whose ticks
  straddle a minute, both can fire a one-shot; no text promises otherwise, and the
  hazard records it.
* After a fault in `record_regulator_action` between decision and revision task, each
  later `sync_method` raises until a restart. The model contains it; no property claims
  otherwise.
* Four ways to part calls from their results are in the behaviours of `LeadTurns`, and `CallsAreAnswered` says how far each
  goes. An append from outside the lock puts an ask between a call and its results, and nothing else gets there. A
  reactive compaction may keep results and cut off their calls: these stand right behind its summary. The calls of a
  reply that was cut off are never run and get no results. An exception amid the calls of a turn leaves them unanswered: in a turn of the CLI
  the process ends with it, in one of the autorun thread the conversation goes on without them, which the
  property exempts. A provider may refuse any of these conversations; that it does is not modelled.
* `GatedTurnsHideProse` exempts displaced turns: `turn_start` is an index, and where a summary shortens the messages
  in a turn that did not begin the conversation, it may point behind prose of the turn.
* In `LeadTurns` the size of a conversation is its number of messages, prompts claimed
  together are one message, notices of background jobs and reminders of todos are left
  out, and the transcript a summary points to is taken for kept (its name has a
  resolution of a second). Retries inside a model call are in `ModelGateway`.
* A run that failed stays among the active ones (`runtime/loop.py:130`), so each later turn
  of its scope ends in a workflow failure: in the model's behaviours, and no text says
  otherwise. After a compaction `cli/app.py:97` may print nothing of the answer; printing
  is left out.
* `OneSession` speaks of the client's own workers. A client whose first connection failed is
  thrown away although its worker may still be opening a session (`research/mcp.py:945`); nothing can
  close that one, and no text promises it. A call submitted to a loop that closed since it was
  read raises out of `call_tool` (line 417 is outside the `try`); the model calls it `raised`, and
  `RefusedIsUnsent` covers it. What a server does with a request it received is its own
  affair: an effect is counted when the request is sent.
* Messages that wake a teammate on its way out are read by the next thread of the
  name, and ordinary messages read while a plan is undecided are dropped. Both are in
  the model's behaviours.
* In `Memory` contents are the problem they are about: priorities, queries and the budget of characters that cuts a
  context are left out, so that a context or a search tells a lead of everything it may tell. Scopes do not keep the
  problems of one lead apart: a compaction after a switch of scope writes what the conversation still holds of the
  old problem into the new scope, in the code as in the model, and `ProblemsStayApart` is about different
  leads. It says nothing once a row was promoted, a search found another lead's rows or a scope was shared, for these
  are the ways on which leads are meant to share. The legacy text may be imported twice (a crash between import and mark, or two processes
  that start together); no text promises otherwise.
* In `AgentRuns` a run that a dying process leaves behind stays "running" in the trace for ever: the tracker is in
  memory and nobody closes it. Teammates' calls pass no PreToolUse hooks (`runtime/teammate.py:734`); the properties
  speak of decisions that were made.
* The executor does not wait for a reader for longer than two seconds. Where what outlives the command still writes, the
  close comes between two reads and the answer has a part of the output without a sign of it; `AnswersAreTrue`
  exempts such an answer.
* A scheduler or autorun thread that an exception ended is not started again while its process lives: schedules then do
  not fire, or firings wait for a turn of the lead, another process or the next start. No property promises more.
* `CommandExecutor` is the POSIX side. That a signal kills, and that `os.killpg` reaches the whole group, is assumed.
* Everything in a transaction is one step. SQLite's isolation and the atomicity of
  `BEGIN IMMEDIATE` are assumed.
* Not modelled: input and output (network, archives), the SymPy worker, the Windows sandbox, texts and
  layout, the tables of tools, the evaluation reports, benchmarks.

## 6. Where the code and its texts differ

1. `tasks/store.py:448`: "Heartbeats are rejected once the old lease has already
   expired." The clock is read before the write lock is granted, so a heartbeat that
   waited renews a lease of which no time is left (`task_store_late`). Exclusiveness survives:
   `LeaseHonoured` holds in the same model.
2. `worktree/runtime.py:119`: a directory that exists already makes `create` return
   before it binds the first task, and `_ensure_method_worktree` goes on with the
   others; an activated method then has a task without a worktree, against
   `src/tests/test_research_workflow_orchestration.py:181` (`orchestrator_tree`).
3. `cli/app.py:99`: the query is appended before the lock is taken, while
   `docs/architecture.md:304` says that in-memory locks protect the "Lead's shared
   conversation history". A scheduled turn that is fitting or summarising the
   conversation then overwrites the query (`lead_lost`), and the CLI's own turn
   answers a conversation that does not contain it. Scheduled prompts, appended under
   the lock, do survive (`PromptsSurvive`, proved).
4. `security/command_executor.py:141`: "wall time is bounded, and timeout cleanup terminates the process
   group/tree." The process is awaited and the reader joined with limits, but closing the pipe (line 281)
   needs the lock of the reader's `read`, which returns when the last process that inherited the pipe
   lets go of it. A descendant in a session of its own survives the cleanup, and any descendant survives a
   process that exits by itself: `execute` then waits as long as the descendant lives (`command_hang`).
   `CommandsEnd` is what holds instead.

Two more without a run of their own. The docstring `runtime/teammate.py:189` says "until Lead
approval arrives", and a rejection opens the gate as well; `GateHolds` therefore says
"decided", not "approved". And `jobs/cron.py:56` speaks of "at-least-once semantics
rather than silently dropping an interrupted firing", while a firing is marked
succeeded before the turn that handles it; `docs/architecture.md:312` names this loss
window, so the comment is the one that is out of date.

## 7. Plan

Done so far: the durable core (tasks, workflow, orchestration, jobs, cron, teammates), the lead's
conversation, the MCP client, memory, the execution tracker with policy and trace, the model
gateway and the command executor, with eight proof modules. What would come next:

1. *Algorithms*, pure functions against reference definitions over bounded inputs: cron
   field matching and validation (`jobs/runtime.py:281`), the topological order of a
   plan (`research/orchestration.py:1033`), the cycle search (`research/workflow.py:444`),
   task affinity.
2. *Worktrees*: `remove` and `keep`, and their races with bindings.
3. *Proofs* of what the algorithms above return, as far as they need no induction over data; safety
   steps that the liveness properties rest on (what each wait leaves behind when its limit passes).

Runs stay one for each question: components without shared state are brought together in one run, and
properties that are proved give way to those that are not.
