------------------------------ MODULE AgentRuns ------------------------------
(***************************************************************************)
(* runtime/execution.py and what reports to it: the lead (loop.py), whose  *)
(* turns are taken by the main and the autorun thread under agent_lock,    *)
(* the subagents it delegates to (subagent.py) on the same thread, and the *)
(* teammates it spawns (teammate.py) on threads of their own.  Calls pass  *)
(* the policy hooks (policy/), and events go to the trace store            *)
(* (observability/store.py) outside the tracker's lock.                    *)
(*                                                                         *)
(* `frames' is the control stack of each thread, what really calls what;   *)
(* `context' is what the tracker believes, its thread-local stack.         *)
(***************************************************************************)
EXTENDS Integers, Sequences, FiniteSets

CONSTANTS
    Mates,          \* teammates, each its own thread
    NoThread,
    MaxRuns,        \* bound on runs
    MaxCalls,       \* bound on tool calls
    MaxLost         \* bound on runs the sink loses events of

ASSUME RunsAssumption ==
    /\ {MaxRuns, MaxCalls, MaxLost} \subseteq Nat
    /\ NoThread \notin {"main", "autorun"}
    /\ Mates \cap {"main", "autorun"} = {}

LeadThreads == {"main", "autorun"}
Threads == LeadThreads \cup Mates
Runs == 1..MaxRuns
Calls == 1..MaxCalls

VARIABLES
    agentLock,      \* the thread that holds agent_lock
    frames,         \* live runs of a thread, the innermost last
    context,        \* _thread_context.stack, its run ids
    mate,           \* a teammate that is spawned: the parent captured for it,
                    \*   and, as history, the run whose call it was
    deadThreads,    \* threads an exception has ended
    runs,           \* _runs: status and parent_run_id
    calledBy,       \* history: the run whose tool call started a run
    toolCalls,      \* _tool_calls, the endings other than BLOCKED as one, and
                    \*   the run the policy decision is recorded under
    outbox,         \* events of a thread on their way to the sink
    trace,          \* runtime_run_summary: the status of each run
    lostEvents      \* history: runs with events the sink has lost

trackerVars == <<context, runs, toolCalls>>
traceVars == <<outbox, trace, lostEvents>>
agentVars == <<agentLock, frames, mate, deadThreads, calledBy, trackerVars, traceVars>>

NoRun == 0
NoCall == 0
NotSpawned == [parent |-> NoRun, caller |-> NoRun]
Undecided == -1
Absent == [status |-> "absent", parent |-> NoRun]
Unmade == [run |-> NoRun, status |-> "absent", decidedFor |-> Undecided]
Endings == {"succeeded", "failed"}

Frames == [run : Runs, kind : {"lead", "subagent", "teammate"}, call : Calls \cup {NoCall},
           at : {"model", "hooks", "handler"}]
Events == [run : Runs, type : {"started", "finished"}, status : {"running"} \cup Endings]

RunsTypeOK ==
    /\ agentLock \in LeadThreads \cup {NoThread}
    /\ frames \in [Threads -> Seq(Frames)]
    /\ context \in [Threads -> Seq(Runs)]
    /\ mate \in [Mates -> [parent : Runs \cup {NoRun}, caller : Runs \cup {NoRun}]]
    /\ deadThreads \subseteq Threads
    /\ runs \in [Runs -> [status : {"absent", "running"} \cup Endings, parent : Runs \cup {NoRun}]]
    /\ calledBy \in [Runs -> Runs \cup {NoRun}]
    /\ toolCalls \in [Calls -> [run : Runs \cup {NoRun},
                                status : {"absent", "running", "blocked", "done"},
                                decidedFor : Runs \cup {NoRun, Undecided}]]
    /\ outbox \in [Threads -> Seq(Events)]
    /\ trace \in [Runs -> {"unseen", "running"} \cup Endings]
    /\ lostEvents \subseteq Runs

RunsInit ==
    /\ agentLock = NoThread
    /\ frames = [t \in Threads |-> <<>>]
    /\ context = [t \in Threads |-> <<>>]
    /\ mate = [m \in Mates |-> NotSpawned]
    /\ deadThreads = {}
    /\ runs = [r \in Runs |-> Absent]
    /\ calledBy = [r \in Runs |-> NoRun]
    /\ toolCalls = [c \in Calls |-> Unmade]
    /\ outbox = [t \in Threads |-> <<>>]
    /\ trace = [r \in Runs |-> "unseen"]
    /\ lostEvents = {}

-----------------------------------------------------------------------------
Depth(t) == Len(frames[t])
Frame(t) == frames[t][Depth(t)]
Live(t) == Depth(t) > 0 /\ outbox[t] = <<>>      \* emit returns before the thread goes on
Stands(t, place) == Live(t) /\ Frame(t).at = place
GoOn(t, place, c) ==
    frames' = [frames EXCEPT ![t][Depth(t)] = [@ EXCEPT !.at = place, !.call = c]]

LastOf(s) == s[Len(s)]
ButLast(s) == SubSeq(s, 1, Len(s) - 1)

(* current_run_id                                                          *)
CurrentRun(t) == IF context[t] = <<>> THEN NoRun ELSE LastOf(context[t])

Emit(t, r, type, status) ==
    outbox' = [outbox EXCEPT ![t] = Append(@, [run |-> r, type |-> type, status |-> status])]

(* start_run: AGENT_STARTED and RUN_STARTED, here one event.  `parent' is  *)
(* the argument; without one it is the thread's current run.               *)
StartRun(t, kind, parent, caller) ==
    \E r \in Runs :
        /\ runs[r] = Absent
        /\ \A q \in 1..(r - 1) : runs[q] # Absent
        /\ runs' = [runs EXCEPT ![r] = [status |-> "running",
                        parent |-> IF parent = NoRun THEN CurrentRun(t) ELSE parent]]
        /\ calledBy' = [calledBy EXCEPT ![r] = caller]
        /\ context' = [context EXCEPT ![t] = Append(@, r)]
        /\ frames' = [frames EXCEPT ![t] =
                        Append(@, [run |-> r, kind |-> kind, call |-> NoCall, at |-> "model"])]
        /\ Emit(t, r, "started", "running")

BugPopsOnSuccess(t, status) ==
    LET r == Frame(t).run IN
    /\ runs' = [runs EXCEPT ![r].status = status]
    /\ context' = [context EXCEPT ![t] = IF status = "succeeded" THEN ButLast(@) ELSE @]
    /\ Emit(t, r, "finished", status)

BugReportsSuccess(t, status) ==
    LET r == Frame(t).run IN
    /\ runs' = [runs EXCEPT ![r].status = status]
    /\ context' = [context EXCEPT ![t] = ButLast(@)]
    /\ Emit(t, r, "finished", "succeeded")

(* finish_run: the first status stays; the context is left only where the  *)
(* run is its innermost.                                                   *)
FinishRun(t, status) ==
    LET r == Frame(t).run IN
    IF runs[r].status # "running"
    THEN UNCHANGED <<runs, context, outbox>>
    ELSE /\ runs' = [runs EXCEPT ![r].status = status]
         /\ context' = [context EXCEPT ![t] = IF @ # <<>> /\ LastOf(@) = r THEN ButLast(@) ELSE @]
         /\ Emit(t, r, "finished", status)

(* finish_tool_call, whose event changes no status                         *)
FinishCall(t) ==
    /\ toolCalls' = [toolCalls EXCEPT ![Frame(t).call].status = "done"]
    /\ GoOn(t, "model", NoCall)

-----------------------------------------------------------------------------
(* A turn of the lead, for the user or for a scheduled prompt              *)
BeginTurn(t) ==
    /\ t \in LeadThreads \ deadThreads
    /\ agentLock = NoThread
    /\ agentLock' = t
    /\ StartRun(t, "lead", NoRun, NoRun)
    /\ UNCHANGED <<mate, deadThreads, toolCalls, trace, lostEvents>>

(* start_tool_call, for the lead, a subagent or a teammate; a teammate     *)
(* runs no PreToolUse hooks.                                               *)
BeginCall(t) ==
    \E c \in Calls :
        /\ Stands(t, "model")
        /\ toolCalls[c] = Unmade
        /\ \A d \in 1..(c - 1) : toolCalls[d] # Unmade
        /\ toolCalls' = [toolCalls EXCEPT ![c].run = Frame(t).run, ![c].status = "running"]
        /\ GoOn(t, IF Frame(t).kind = "teammate" THEN "handler" ELSE "hooks", c)
        /\ UNCHANGED <<agentLock, mate, deadThreads, calledBy, context, runs, traceVars>>

(* compact is handled by the loop, before any hook.                        *)
Compact(t) ==
    /\ Stands(t, "hooks")
    /\ Frame(t).kind = "lead"
    /\ FinishCall(t)
    /\ UNCHANGED <<agentLock, mate, deadThreads, calledBy, context, runs, traceVars>>

(* PolicyEngine.evaluate with build_default_rules, the first that matches  *)
ToolUses == [shell : BOOLEAN, denied : BOOLEAN, destructive : BOOLEAN,
             writes : BOOLEAN, escapes : BOOLEAN, deploys : BOOLEAN]
Evaluate(u) ==
    IF u.shell /\ u.denied THEN "deny"
    ELSE IF u.shell /\ u.destructive THEN "ask"
    ELSE IF u.writes /\ u.escapes THEN "deny"
    ELSE IF u.deploys THEN "ask"
    ELSE "allow"

(* permission_hook, and the decision as the trace store has it: under the  *)
(* run that is current in the thread                                       *)
Decide(t) ==
    LET c == Frame(t).call IN
    /\ Stands(t, "hooks")
    /\ \E action \in {Evaluate(u) : u \in ToolUses}, approved \in BOOLEAN :
          LET passes == action = "allow" \/ (action = "ask" /\ approved) IN
          /\ toolCalls' = [toolCalls EXCEPT ![c].decidedFor = CurrentRun(t),
                                            ![c].status = IF passes THEN @ ELSE "blocked"]
          /\ IF passes THEN GoOn(t, "handler", c) ELSE GoOn(t, "model", NoCall)
    /\ UNCHANGED <<agentLock, mate, deadThreads, calledBy, context, runs, traceVars>>

(* The handler returns, or the call was handed to a background job; a      *)
(* TypeError of the handler is an answer too (call_handler).               *)
EndCall(t) ==
    /\ Stands(t, "handler")
    /\ FinishCall(t)
    /\ UNCHANGED <<agentLock, mate, deadThreads, calledBy, context, runs, traceVars>>

(* The task tool: the subagent runs inside of the lead's call.             *)
Delegate(t) ==
    /\ Stands(t, "handler")
    /\ Frame(t).kind = "lead"
    /\ StartRun(t, "subagent", NoRun, Frame(t).run)
    /\ UNCHANGED <<agentLock, mate, deadThreads, toolCalls, trace, lostEvents>>

(* spawn captures the parent in the lead's thread, for the one it starts.  *)
Spawn(t, m) ==
    /\ Stands(t, "handler")
    /\ Frame(t).kind = "lead"
    /\ mate[m] = NotSpawned
    /\ mate' = [mate EXCEPT ![m] = [parent |-> CurrentRun(t), caller |-> Frame(t).run]]
    /\ UNCHANGED <<agentLock, frames, deadThreads, calledBy, trackerVars, traceVars>>

MateBegins(m) ==
    /\ mate[m] # NotSpawned /\ frames[m] = <<>> /\ m \notin deadThreads
    /\ StartRun(m, "teammate", mate[m].parent, mate[m].caller)
    /\ UNCHANGED <<agentLock, mate, deadThreads, toolCalls, trace, lostEvents>>

-----------------------------------------------------------------------------
(* A run ends; a teammate's thread with it.                                *)
EndRun(t, status) ==
    /\ Stands(t, "model")
    /\ status = "failed" => Frame(t).kind = "lead"     \* workflow_failed
    /\ FinishRun(t, status)
    /\ frames' = [frames EXCEPT ![t] = ButLast(@)]
    /\ deadThreads' = IF t \in Mates THEN deadThreads \cup {t} ELSE deadThreads
    /\ UNCHANGED <<agentLock, mate, calledBy, toolCalls, trace, lostEvents>>

(* An exception: the run fails, its open call stays as it is, and it goes  *)
(* on to the caller: to the handler of the lead's call, which passes it on *)
(* or answers it, or out of the thread.                                    *)
Raise(t) ==
    /\ Live(t)
    /\ FinishRun(t, "failed")
    /\ frames' = [frames EXCEPT ![t] = ButLast(@)]
    /\ deadThreads' = IF Depth(t) = 1 THEN deadThreads \cup {t} ELSE deadThreads
    /\ UNCHANGED <<agentLock, mate, calledBy, toolCalls, trace, lostEvents>>

EndTurn(t) ==
    /\ agentLock = t
    /\ frames[t] = <<>> /\ outbox[t] = <<>>
    /\ agentLock' = NoThread
    /\ UNCHANGED <<frames, mate, deadThreads, calledBy, trackerVars, traceVars>>

(* runtime_run_summary: "running", or what the run_finished event says     *)
StatusAfter(e) == IF e.type = "finished" THEN e.status
                  ELSE IF trace[e.run] = "unseen" THEN "running" ELSE trace[e.run]

(* The sink stores the event, or raises and nobody notices.                *)
Sink(t) ==
    /\ outbox[t] # <<>>
    /\ LET e == Head(outbox[t]) IN
          \/ /\ trace' = [trace EXCEPT ![e.run] = StatusAfter(e)]
             /\ UNCHANGED lostEvents
          \/ /\ lostEvents' = lostEvents \cup {e.run}
             /\ Cardinality(lostEvents') <= MaxLost
             /\ UNCHANGED trace
    /\ outbox' = [outbox EXCEPT ![t] = Tail(@)]
    /\ UNCHANGED <<agentLock, frames, mate, deadThreads, calledBy, trackerVars>>

RunsNext ==
    \/ \E t \in LeadThreads : BeginTurn(t) \/ EndTurn(t)
    \/ \E t \in LeadThreads, m \in Mates : Spawn(t, m)
    \/ \E m \in Mates : MateBegins(m)
    \/ \E t \in Threads :
          \/ BeginCall(t) \/ Compact(t) \/ Decide(t) \/ Delegate(t) \/ EndCall(t)
          \/ Raise(t) \/ Sink(t)
          \/ \E status \in Endings : EndRun(t, status)

RunsSpec == RunsInit /\ [][RunsNext]_agentVars

-----------------------------------------------------------------------------
(* Who called whom is recorded as it was, although the tracker only sees   *)
(* starts and ends: every run under the run whose call started it, on this *)
(* thread or on another one, the lead's under none; and every decision     *)
(* under the run that made the call - whatever failed before.              *)
CallersAreRecorded ==
    /\ \A r \in Runs : runs[r].parent = calledBy[r]
    /\ \A c \in Calls : toolCalls[c].decidedFor \in {Undecided, toolCalls[c].run}

(* A run is recorded as running exactly while some thread is in it, and a  *)
(* call is left open only where its run failed.                            *)
EndedRunsAreClosed ==
    /\ \A r \in Runs : runs[r].status = "running" <=>
          \E t \in Threads : \E i \in 1..Depth(t) : frames[t][i].run = r
    /\ \A c \in Calls : toolCalls[c].status = "running" =>
          runs[toolCalls[c].run].status \in {"running", "failed"}

(* The trace never knows better than the tracker: what it reports as ended *)
(* has ended like that, and what has ended is reported unless an event is  *)
(* still on its way or was lost.                                           *)
TraceAgrees ==
    \A r \in Runs :
        /\ trace[r] \in {"unseen", "running", runs[r].status}
        /\ runs[r].status \in Endings =>
              \/ trace[r] = runs[r].status
              \/ r \in lostEvents
              \/ \E t \in Threads : \E i \in 1..Len(outbox[t]) : outbox[t][i].run = r

(* What the threads do, what the tracker knows and what the trace shows    *)
(* are one story.                                                          *)
RecordsAgree == EndedRunsAreClosed /\ TraceAgrees
=============================================================================
