--------------------------- MODULE CronScheduler ---------------------------
(***************************************************************************)
(* CronSchedulerRuntime of jobs/runtime.py with jobs/cron.py, over the     *)
(* schedules and the jobs of the shared store.  Each process has a         *)
(* scheduler thread, an autorun thread that delivers prompts, and a lead   *)
(* that creates and cancels schedules and delivers prompts in its turns;   *)
(* each store call of theirs is a step.  The two threads are started once, *)
(* and an exception outside of their few try blocks ends them for the rest *)
(* of the process.  A firing of schedule s at minute n is the job <<s, n>>,*)
(* since its id is made from the two (cron_occurrence_job_id).             *)
(***************************************************************************)
EXTENDS Naturals

CONSTANTS
    Schedules,
    Recurring,    \* schedules with recurring set
    Durable,      \* schedules with durable set; the others belong to a session
    Legacy,       \* schedules of the legacy JSON file
    Matches,      \* <<schedule, minute>>: cron expressions that match
    LastMinute,   \* bound on the clock
    Procs, NoProc,
    MaxCrashes, MaxFaults

ASSUME CronAssumption ==
    /\ Recurring \subseteq Schedules
    /\ Durable \subseteq Schedules
    /\ Legacy \subseteq Durable
    /\ LastMinute \in Nat \ {0}
    /\ Matches \subseteq Schedules \X (1..LastMinute)
    /\ NoProc \notin Procs
    /\ MaxCrashes \in Nat /\ MaxFaults \in Nat

Occurrences == Schedules \X (1..LastMinute)

VARIABLES
    jobStatus, runner, attempts, notified,   \* the jobs table
    now,        \* the minute
    active,     \* schedules: "absent", "active" or "inactive"
    fired,      \* last_fired_marker, 0 for NULL
    session,    \* the process whose session a non-durable schedule is of
    legacyFile, \* the legacy file is still there
    phase,      \* what each process is at: down, its startup steps, up
    scheduler,  \* the scheduler thread lives
    tick,       \* its tick
    autorun,    \* the autorun thread: "free", "busy" with a turn, or "dead"
    held,       \* prompts claimed and not delivered, by the thread and by the lead
    lost,       \* claimed prompts that nobody will deliver or mark in this run
    delivered,  \* history: <<process, prompt>> ever appended
    ended,      \* history: the minute a schedule first became inactive
    crashes, faults

jobVars == <<jobStatus, runner, attempts, notified>>
scheduleVars == <<active, fired, session, legacyFile, ended>>
deliveryVars == <<held, lost, delivered>>
threadVars == <<scheduler, autorun>>
countVars == <<crashes, faults>>
vars == <<jobVars, now, scheduleVars, phase, tick, deliveryVars, threadVars, countVars>>

(* enqueue_scheduled_prompt gives every occurrence two attempts.           *)
Store == INSTANCE JobStore WITH
    Jobs <- Occurrences, Runners <- Procs, NoRunner <- NoProc,
    MaxAttempts <- [j \in Occurrences |-> 2]

Deliverers == {"autorun", "lead"}
NothingHeld == [d \in Deliverers |-> {}]

NoTick == [minute |-> 0, due |-> {}, queued |-> {}]

CronTypeOK ==
    /\ Store!JobTypeOK
    /\ now \in 1..LastMinute
    /\ active \in [Schedules -> {"absent", "active", "inactive"}]
    /\ fired \in [Schedules -> 0..LastMinute]
    /\ session \in [Schedules -> Procs \cup {NoProc}]
    /\ legacyFile \in BOOLEAN
    /\ phase \in [Procs -> {"down", "migrate", "reconcile", "up"}]
    /\ tick \in [Procs -> [minute : 0..LastMinute, due : SUBSET Schedules,
                           queued : SUBSET Schedules]]
    /\ scheduler \in [Procs -> BOOLEAN]
    /\ autorun \in [Procs -> {"free", "busy", "dead"}]
    /\ held \in [Procs -> [Deliverers -> SUBSET Occurrences]]
    /\ lost \in SUBSET Occurrences
    /\ delivered \in SUBSET (Procs \X Occurrences)
    /\ ended \in [Schedules -> 0..LastMinute]
    /\ crashes \in 0..MaxCrashes
    /\ faults \in 0..MaxFaults

CronInit ==
    /\ Store!JobInit
    /\ now = 1
    /\ active = [s \in Schedules |-> "absent"]
    /\ fired = [s \in Schedules |-> 0]
    /\ session = [s \in Schedules |-> NoProc]
    /\ legacyFile \in {Legacy # {}, FALSE}
    /\ phase = [p \in Procs |-> "down"]
    /\ tick = [p \in Procs |-> NoTick]
    /\ scheduler = [p \in Procs |-> FALSE]
    /\ autorun = [p \in Procs |-> "dead"]
    /\ held = [p \in Procs |-> NothingHeld]
    /\ lost = {}
    /\ delivered = {}
    /\ ended = [s \in Schedules |-> 0]
    /\ crashes = 0
    /\ faults = 0

Up(p) == phase[p] = "up"
GoTo(p, ph) == phase' = [phase EXCEPT ![p] = ph]

(* visible_schedules *)
Visible(p) == {s \in Schedules : active[s] = "active" /\ (s \in Durable \/ session[s] = p)}

(* schedule_has_fired: there is a job for some occurrence.                 *)
HasFired(s) == \E n \in 1..LastMinute : jobStatus[<<s, n>>] # "absent"

Deactivate(S) ==
    /\ active' = [s \in Schedules |-> IF s \in S THEN "inactive" ELSE active[s]]
    /\ ended' = [s \in Schedules |-> IF s \in S /\ ended[s] = 0 THEN now ELSE ended[s]]

-----------------------------------------------------------------------------
BugSkipsRecovery(p) ==
    /\ phase[p] = "down"
    /\ GoTo(p, "migrate")
    /\ UNCHANGED <<jobVars, now, scheduleVars, tick, deliveryVars, threadVars, countVars>>

(* Importing s20: recover_interrupted, migrate_legacy_file,                *)
(* reconcile_one_shots, and only then the scheduler thread.                *)
BootRecover(p) ==
    /\ phase[p] = "down"
    /\ Store!RecoverJobs
    /\ GoTo(p, "migrate")
    /\ lost' = {}
    /\ UNCHANGED <<now, scheduleVars, tick, held, delivered, threadVars, countVars>>

BugMigrationResurrects(p) ==
    /\ phase[p] = "migrate"
    /\ active' = [s \in Schedules |-> IF legacyFile /\ s \in Legacy THEN "active" ELSE active[s]]
    /\ legacyFile' \in {legacyFile, FALSE}
    /\ GoTo(p, "reconcile")
    /\ UNCHANGED <<jobVars, now, fired, session, ended, tick, deliveryVars, threadVars, countVars>>

(* create_schedule_once leaves a row that is there alone, and a one-shot   *)
(* that has fired is not brought back.  The file goes last, if it can.     *)
BootMigrate(p) ==
    LET Imports == {s \in Legacy : legacyFile /\ active[s] = "absent"
                                     /\ (s \in Recurring \/ ~HasFired(s))}
    IN  /\ phase[p] = "migrate"
        /\ active' = [s \in Schedules |-> IF s \in Imports THEN "active" ELSE active[s]]
        /\ legacyFile' \in {legacyFile, FALSE}
        /\ GoTo(p, "reconcile")
        /\ UNCHANGED <<jobVars, now, fired, session, ended, tick, deliveryVars, threadVars, countVars>>

(* The scheduler thread is started on import, the autorun thread by the    *)
(* CLI, and neither is ever started again.                                 *)
StartThreads(p) ==
    /\ GoTo(p, "up")
    /\ scheduler' = [scheduler EXCEPT ![p] = TRUE]
    /\ autorun' = [autorun EXCEPT ![p] = "free"]

BugSkipsReconciliation(p) ==
    /\ phase[p] = "reconcile"
    /\ StartThreads(p)
    /\ UNCHANGED <<jobVars, now, scheduleVars, tick, deliveryVars, countVars>>

BootReconcile(p) ==
    /\ phase[p] = "reconcile"
    /\ Deactivate({s \in Visible(p) \ Recurring : HasFired(s)})
    /\ StartThreads(p)
    /\ UNCHANGED <<jobVars, now, fired, session, legacyFile, tick, deliveryVars, countVars>>

(* schedule: create_schedule with a new id                                 *)
CreateSchedule(p, s) ==
    /\ Up(p)
    /\ s \notin Legacy
    /\ active[s] = "absent"
    /\ active' = [active EXCEPT ![s] = "active"]
    /\ session' = [session EXCEPT ![s] = IF s \in Durable THEN NoProc ELSE p]
    /\ UNCHANGED <<jobVars, now, fired, legacyFile, ended, phase, tick, deliveryVars, threadVars, countVars>>

(* cancel: for a schedule the session can see                              *)
CancelSchedule(p, s) ==
    /\ Up(p)
    /\ s \in Visible(p)
    /\ Deactivate({s})
    /\ UNCHANGED <<jobVars, now, fired, session, legacyFile, phase, tick, deliveryVars, threadVars, countVars>>

-----------------------------------------------------------------------------
(* tick reads the clock and the rows once; what is due is decided from     *)
(* these rows, however long the calls below take.                          *)
TickBegin(p) ==
    LET Due == {s \in Visible(p) : <<s, now>> \in Matches /\ fired[s] # now} IN
    /\ Up(p) /\ scheduler[p]
    /\ tick[p] = NoTick
    /\ Due # {}
    /\ tick' = [tick EXCEPT ![p] = [minute |-> now, due |-> Due, queued |-> {}]]
    /\ UNCHANGED <<jobVars, now, scheduleVars, phase, deliveryVars, threadVars, countVars>>

(* Reading the rows raises outside of tick's try.                          *)
SchedulerDies(p) ==
    /\ scheduler[p]
    /\ tick[p] = NoTick
    /\ faults < MaxFaults
    /\ faults' = faults + 1
    /\ scheduler' = [scheduler EXCEPT ![p] = FALSE]
    /\ UNCHANGED <<jobVars, now, scheduleVars, phase, tick, deliveryVars, autorun, crashes>>

(* A schedule that is through drops out of the tick, and the tick ends     *)
(* with the last one.                                                      *)
Through(p, s) ==
    tick' = [tick EXCEPT ![p] =
        IF @.due \cup @.queued = {s} THEN NoTick
        ELSE [minute |-> @.minute, due |-> @.due \ {s}, queued |-> @.queued \ {s}]]

(* create_job_once: a firing that is there already stays as it is.         *)
TickEnqueue(p, s) ==
    LET j == <<s, tick[p].minute>> IN
    /\ s \in tick[p].due
    /\ tick[p].queued = {}
    /\ IF jobStatus[j] = "absent" THEN Store!CreateJob(j) ELSE UNCHANGED jobVars
    /\ tick' = [tick EXCEPT ![p] = [minute |-> @.minute, due |-> @.due \ {s}, queued |-> {s}]]
    /\ UNCHANGED <<now, scheduleVars, phase, deliveryVars, threadVars, countVars>>

(* mark_schedule_fired also deactivates a one-shot.                        *)
TickMark(p, s) ==
    /\ s \in tick[p].queued
    /\ IF active[s] = "active"
       THEN /\ fired' = [fired EXCEPT ![s] = tick[p].minute]
            /\ Deactivate({s} \ Recurring)
       ELSE UNCHANGED <<fired, active, ended>>
    /\ Through(p, s)
    /\ UNCHANGED <<jobVars, now, session, legacyFile, phase, deliveryVars, threadVars, countVars>>

(* Either call may raise; the tick goes on with the next schedule.         *)
TickRaises(p, s) ==
    /\ s \in tick[p].due \cup tick[p].queued
    /\ faults < MaxFaults
    /\ faults' = faults + 1
    /\ Through(p, s)
    /\ UNCHANGED <<jobVars, now, scheduleVars, phase, deliveryVars, threadVars, crashes>>

-----------------------------------------------------------------------------
(* claim_prompt_jobs claims one by one what it found queued: at the top of *)
(* the autorun thread's loop, and at the top of the loop of any turn.  One *)
(* turn runs at a time, under agent_lock.                                  *)
ClaimPrompt(p, d, j) ==
    /\ Up(p)
    /\ IF d = "lead" THEN autorun[p] # "busy" ELSE autorun[p] # "dead"
    /\ Store!ClaimJob(p, j)
    /\ held' = [held EXCEPT ![p][d] = @ \cup {j}]
    /\ UNCHANGED <<now, scheduleVars, phase, tick, lost, delivered, threadVars, countVars>>

(* The autorun thread gets agent_lock, delivers what it claimed and runs a *)
(* turn, in which it may claim more.                                       *)
AutorunTurn(p) ==
    /\ autorun[p] = "free"
    /\ held[p]["autorun"] # {}
    /\ held[p]["lead"] = {}
    /\ autorun' = [autorun EXCEPT ![p] = "busy"]
    /\ UNCHANGED <<jobVars, now, scheduleVars, phase, tick, deliveryVars, scheduler, countVars>>

AutorunReturns(p) ==
    /\ autorun[p] = "busy"
    /\ held[p]["autorun"] = {}
    /\ autorun' = [autorun EXCEPT ![p] = "free"]
    /\ UNCHANGED <<jobVars, now, scheduleVars, phase, tick, deliveryVars, scheduler, countVars>>

(* Nothing catches what a claim or the turn raises: the thread ends, and   *)
(* what it had claimed and not delivered is lost with it.  In a turn of    *)
(* the lead the same exception ends the process (Crash).                   *)
AutorunDies(p) ==
    /\ autorun[p] # "dead"
    /\ faults < MaxFaults
    /\ faults' = faults + 1
    /\ autorun' = [autorun EXCEPT ![p] = "dead"]
    /\ lost' = lost \cup {j \in held[p]["autorun"] : Store!RunningFor(p, j)}
    /\ held' = [held EXCEPT ![p]["autorun"] = {}]
    /\ UNCHANGED <<jobVars, now, scheduleVars, phase, tick, delivered, scheduler, crashes>>

(* The prompt enters the conversation...                                   *)
Append(p, d, j) ==
    /\ j \in held[p][d]
    /\ d = "autorun" => autorun[p] = "busy"
    /\ held' = [held EXCEPT ![p][d] = @ \ {j}]
    /\ delivered' = delivered \cup {<<p, j>>}

(* ... and is marked delivered, before the turn that will answer it, which *)
(* is in LeadTurns.  The mark fails where another process has recovered    *)
(* the job in the meantime.                                                *)
Deliver(p, d, j) ==
    /\ Append(p, d, j)
    /\ IF Store!RunningFor(p, j) THEN Store!EndJob(p, j, "succeeded") ELSE UNCHANGED jobVars
    /\ UNCHANGED <<now, scheduleVars, phase, tick, lost, threadVars, countVars>>

(* The mark raises: the prompt is in the conversation all the same.        *)
DeliverUnmarked(p, d, j) ==
    /\ Append(p, d, j)
    /\ faults < MaxFaults
    /\ faults' = faults + 1
    /\ lost' = IF Store!RunningFor(p, j) THEN lost \cup {j} ELSE lost
    /\ UNCHANGED <<jobVars, now, scheduleVars, phase, tick, threadVars, crashes>>

(* A process dies, and with it its session.                                *)
Crash(p) ==
    /\ phase[p] # "down"
    /\ crashes < MaxCrashes
    /\ crashes' = crashes + 1
    /\ GoTo(p, "down")
    /\ session' = [s \in Schedules |-> IF session[s] = p THEN NoProc ELSE session[s]]
    /\ tick' = [tick EXCEPT ![p] = NoTick]
    /\ held' = [held EXCEPT ![p] = NothingHeld]
    /\ scheduler' = [scheduler EXCEPT ![p] = FALSE]
    /\ autorun' = [autorun EXCEPT ![p] = "dead"]
    /\ UNCHANGED <<jobVars, now, active, fired, legacyFile, ended, lost, delivered, faults>>

NextMinute ==
    /\ now < LastMinute
    /\ now' = now + 1
    /\ UNCHANGED <<jobVars, scheduleVars, phase, tick, deliveryVars, threadVars, countVars>>

Boot(p) == BootRecover(p) \/ BootMigrate(p) \/ BootReconcile(p)

CronNext ==
    \/ NextMinute
    \/ \E p \in Procs :
          \/ Boot(p) \/ TickBegin(p) \/ SchedulerDies(p)
          \/ AutorunTurn(p) \/ AutorunReturns(p) \/ AutorunDies(p) \/ Crash(p)
    \/ \E p \in Procs, s \in Schedules :
          \/ CreateSchedule(p, s) \/ CancelSchedule(p, s)
          \/ TickEnqueue(p, s) \/ TickMark(p, s) \/ TickRaises(p, s)
    \/ \E p \in Procs, d \in Deliverers, j \in Occurrences :
          ClaimPrompt(p, d, j) \/ Deliver(p, d, j) \/ DeliverUnmarked(p, d, j)

CronSpec == CronInit /\ [][CronNext]_vars

(* Dead processes are started again.  A free autorun thread lists what is  *)
(* queued round after round and claims what it finds, which is strong      *)
(* fairness, since it is away for turns in between; a turn of the lead     *)
(* appends at once what it has claimed.  Nothing makes the autorun thread  *)
(* get agent_lock, its turns end, or the lead take one.                    *)
CronFairness ==
    /\ \A p \in Procs : WF_vars(Boot(p))
    /\ \A p \in Procs, j \in Occurrences :
          /\ SF_vars(autorun[p] = "free" /\ ClaimPrompt(p, "autorun", j))
          /\ WF_vars(Deliver(p, "lead", j))

CronFairSpec == CronSpec /\ CronFairness

-----------------------------------------------------------------------------
Firings(s) == {n \in 1..LastMinute : jobStatus[<<s, n>>] # "absent"}

(* A one-shot schedule fires once, although enqueueing and deactivating    *)
(* are two transactions and the process may die between them: startup      *)
(* finds the firing before the scheduler runs.  It holds for one process   *)
(* and as long as no call has raised.                                      *)
OneShotFiresOnce ==
    faults = 0 => \A s \in Schedules \ Recurring : \A n, k \in Firings(s) : n = k

(* A schedule that was cancelled or has fired for good stays quiet: no     *)
(* restart, migration or late mark revives it, and though it may still     *)
(* fire for the minute in which it ended, whose tick had read its row, it  *)
(* never fires for a later one.                                            *)
EndedStaysQuiet ==
    \A s \in Schedules : ended[s] # 0 =>
        active[s] = "inactive" /\ \A n \in Firings(s) : n <= ended[s]

(* A firing counts as delivered only if the process that held it put it    *)
(* into its conversation, also where another process recovered the job and *)
(* claimed it again.                                                       *)
DeliveredByHolder ==
    \A j \in Occurrences : jobStatus[j] = "succeeded" => <<runner[j], j>> \in delivered

(* The autorun thread has nothing in hand and is not in a turn.            *)
AtRest(p) == autorun[p] # "busy" /\ held[p]["autorun"] = {}

(* Every firing is settled, delivered or failed after two interruptions,   *)
(* through deaths of processes and of autorun threads, provided that the   *)
(* turns of autorun threads end and that one of these threads lives.  Only *)
(* a prompt whose mark raised, or whose thread died holding it, is left to *)
(* the next start, which queues or fails it.                               *)
FiringsAreSettled ==
    (/\ \A p \in Procs : []<>AtRest(p)
     /\ \E p \in Procs : []<>(AtRest(p) /\ autorun[p] = "free"))
    => \A j \in Occurrences :
          jobStatus[j] = "queued" ~> jobStatus[j] \in {"succeeded", "failed"} \/ j \in lost
=============================================================================
