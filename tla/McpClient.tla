----------------------------- MODULE McpClient -----------------------------
(***************************************************************************)
(* One configured server of research/mcp.py: the entry of MCPRuntime and   *)
(* its PersistentMCPClient.  The lead connects and calls tools, one at a   *)
(* time since turns hold agent_lock; a worker thread runs the session on a *)
(* loop of its own; the main thread closes the client when the program     *)
(* ends, whatever the lead is at.  A block under _state_lock is a step, and *)
(* so is what a coroutine does between two awaits.  A worker may hang at   *)
(* any point.  A time limit is a step that may be taken while its owner    *)
(* waits: the clock is left out.                                           *)
(***************************************************************************)
EXTENDS Naturals, FiniteSets

CONSTANTS
    Workers,      \* worker threads; an id is used again when its thread is gone
    NoWorker,
    MaxCalls,     \* bound on tool calls, numbered as they are issued
    Attempts,     \* reconnect_attempts + 1
    MaxOrphans    \* bound on worker threads of clients thrown away

ASSUME McpAssumption ==
    /\ NoWorker \notin Workers
    /\ MaxCalls \in Nat
    /\ Attempts \in Nat \ {0}
    /\ MaxOrphans \in Nat

Calls == 1..MaxCalls

VARIABLES
    worker,       \* what each worker thread is at
    orphans,      \* live workers of clients that were thrown away
    registered,   \* MCPRuntime.clients has the client
    thread, loop, client, stop,   \* the client's fields, as the worker they are of
    connected, ready, startError,
    stopping,     \* workers whose stop event is set
    lead,         \* where the lead is: in a tool call, a connect, a close
    issued,       \* tool calls issued so far
    task,         \* the coroutine of each call, and the worker whose loop runs it
    answer,       \* the future of each call
    sent,         \* how often each call reached the server
    told,         \* what the model was told of each call
    main, joins   \* the main thread, and the worker its close waits for

fieldVars == <<thread, loop, client, stop, connected, ready, startError>>
callVars == <<issued, task, answer, sent, told>>
mainVars == <<main, joins>>
mcpVars == <<worker, orphans, registered, fieldVars, stopping, lead, callVars, mainVars>>

WorkerStates == {"dead", "starting", "serving", "ending", "clearing", "gathering"}
LeadStates == {"idle", "check", "once", "waiting", "pick", "submit", "reply", "close", "join"}
AfterClose == {"none", "again", "retry", "tell", "drop"}
TaskStates == {"none", "queued", "running", "waiting", "over"}
MaybeWorker == Workers \cup {NoWorker}

McpTypeOK ==
    /\ worker \in [Workers -> WorkerStates]
    /\ orphans \in SUBSET Workers
    /\ thread \in MaybeWorker /\ loop \in MaybeWorker
    /\ client \in MaybeWorker /\ stop \in MaybeWorker
    /\ connected \in BOOLEAN /\ ready \in BOOLEAN
    /\ startError \in BOOLEAN /\ registered \in BOOLEAN
    /\ stopping \in SUBSET Workers
    /\ lead \in [at : LeadStates, call : 0..MaxCalls, attempt : 1..Attempts,
                 on : MaybeWorker, then : AfterClose]
    /\ issued \in 0..MaxCalls
    /\ task \in [Calls -> [at : TaskStates, on : MaybeWorker]]
    /\ answer \in [Calls -> {"none", "ok", "error"}]
    /\ sent \in [Calls -> Nat]
    /\ told \in [Calls -> {"none", "result", "reset", "refused", "raised"}]
    /\ main \in {"running", "join", "exited"}
    /\ joins \in MaybeWorker

Over == [at |-> "over", on |-> NoWorker]
Idle == [at |-> "idle", call |-> 0, attempt |-> 1, on |-> NoWorker, then |-> "none"]

McpInit ==
    /\ worker = [w \in Workers |-> "dead"]
    /\ orphans = {}
    /\ registered = FALSE
    /\ thread = NoWorker /\ loop = NoWorker /\ client = NoWorker /\ stop = NoWorker
    /\ connected = FALSE /\ ready = FALSE /\ startError = FALSE
    /\ stopping = {}
    /\ lead = Idle
    /\ issued = 0
    /\ task = [c \in Calls |-> [at |-> "none", on |-> NoWorker]]
    /\ answer = [c \in Calls |-> "none"]
    /\ sent = [c \in Calls |-> 0]
    /\ told = [c \in Calls |-> "none"]
    /\ main = "running" /\ joins = NoWorker

-----------------------------------------------------------------------------
Alive(w) == w \in Workers /\ worker[w] # "dead"

IsConnected == connected /\ Alive(thread) /\ loop # NoWorker

LeadAt(place) == main # "exited" /\ lead.at = place
At(place, on, then) ==
    [at |-> place, call |-> lead.call, attempt |-> lead.attempt, on |-> on, then |-> then]
Goto(place) == lead' = At(place, NoWorker, "none")
CloseThen(next) == lead' = At("close", NoWorker, next)

(* The call returns to the model.                                          *)
Return(verdict) ==
    /\ told' = [told EXCEPT ![lead.call] = verdict]
    /\ lead' = Idle

-----------------------------------------------------------------------------
(* A turn uses connect_mcp, or a tool of a server that has been connected. *)
UseConnect ==
    /\ LeadAt("idle")
    /\ registered \/ Cardinality(orphans) < MaxOrphans
    /\ Goto("check")
    /\ UNCHANGED <<worker, orphans, registered, fieldVars, stopping, callVars, mainVars>>

UseTool ==
    /\ LeadAt("idle")
    /\ registered
    /\ issued < MaxCalls
    /\ issued' = issued + 1
    /\ lead' = [At("check", NoWorker, "none") EXCEPT !.call = issued + 1]
    /\ UNCHANGED <<worker, orphans, registered, fieldVars, stopping, task, answer, sent, told,
                   mainVars>>

(* connect returned the tools                                              *)
Connected ==
    \/ lead.call = 0 /\ lead' = Idle /\ registered' = TRUE
    \/ lead.call > 0 /\ Goto("pick") /\ UNCHANGED registered

CheckConnected ==
    /\ LeadAt("check")
    /\ \/ IsConnected /\ Connected
       \/ ~IsConnected /\ Goto("once") /\ UNCHANGED registered
    /\ UNCHANGED <<worker, orphans, fieldVars, stopping, callVars, mainVars>>

-----------------------------------------------------------------------------
BugStartsBeside == TRUE

(* The thread of an earlier attempt must be gone.                          *)
MayStart == ~Alive(thread)

(* _connect_once, up to the start of the thread                            *)
ConnectOnce ==
    /\ LeadAt("once")
    /\ \/ IsConnected /\ Connected /\ UNCHANGED <<worker, fieldVars>>
       \/ /\ ~IsConnected /\ ~MayStart
          /\ CloseThen("retry")
          /\ UNCHANGED <<worker, registered, fieldVars>>
       \/ /\ ~IsConnected /\ MayStart
          /\ \E w \in Workers :
                /\ worker[w] = "dead"
                /\ worker' = [worker EXCEPT ![w] = "starting"]
                /\ thread' = w /\ loop' = w
          /\ ready' = FALSE /\ startError' = FALSE /\ connected' = FALSE
          /\ Goto("waiting")
          /\ UNCHANGED <<registered, client, stop>>
    /\ UNCHANGED <<orphans, stopping, callVars, mainVars>>

(* ... and after it: the worker is ready, or the limit is over.            *)
StartupSettles ==
    /\ LeadAt("waiting") /\ ready
    /\ \/ connected /\ ~startError /\ Connected
       \/ ~(connected /\ ~startError) /\ CloseThen("retry") /\ UNCHANGED registered
    /\ UNCHANGED <<worker, orphans, fieldVars, stopping, callVars, mainVars>>

StartupTimesOut ==
    /\ LeadAt("waiting") /\ ~ready
    /\ CloseThen("again")
    /\ UNCHANGED <<worker, orphans, registered, fieldVars, stopping, callVars, mainVars>>

-----------------------------------------------------------------------------
(* close: what it signals, and what it forgets when the join is over       *)
Signalled == IF stop \in Workers /\ loop # NoWorker THEN stopping \cup {stop} ELSE stopping

BugForgetsLive(w) == IF w = thread THEN NoWorker ELSE thread

ThreadAfterJoin(w) == IF w = thread /\ ~Alive(w) THEN NoWorker ELSE thread

CloseBegin ==
    /\ LeadAt("close")
    /\ stopping' = Signalled
    /\ lead' = At("join", thread, lead.then)
    /\ UNCHANGED <<worker, orphans, registered, fieldVars, callVars, mainVars>>

JoinEnds(then) ==
    /\ LeadAt("join") /\ lead.then = then
    /\ thread' = ThreadAfterJoin(lead.on)
    /\ connected' = FALSE /\ client' = NoWorker
    /\ UNCHANGED <<loop, stop, ready, startError>>

(* A discovery that timed out has closed the client by itself; connect     *)
(* closes it once more and tries again, as often as it may.                *)
CloseAgain ==
    /\ JoinEnds("again")
    /\ CloseThen("retry")
    /\ UNCHANGED <<worker, orphans, registered, stopping, callVars, mainVars>>

BugRetriesForEver ==
    /\ JoinEnds("retry")
    /\ Goto("once")
    /\ UNCHANGED <<worker, orphans, registered, stopping, callVars, mainVars>>

Retry ==
    /\ JoinEnds("retry")
    /\ lead.attempt < Attempts
    /\ lead' = [At("once", NoWorker, "none") EXCEPT !.attempt = @ + 1]
    /\ UNCHANGED <<worker, orphans, registered, stopping, callVars, mainVars>>

(* connect raises: a tool call is refused, a first connection is closed    *)
(* once more, a reconnection is reported as failed.                        *)
ConnectFails ==
    /\ JoinEnds("retry")
    /\ lead.attempt = Attempts
    /\ \/ lead.call > 0 /\ Return("refused")
       \/ lead.call = 0 /\ registered /\ lead' = Idle /\ UNCHANGED told
       \/ lead.call = 0 /\ ~registered /\ CloseThen("drop") /\ UNCHANGED told
    /\ UNCHANGED <<worker, orphans, registered, stopping, issued, task, answer, sent, mainVars>>

(* MCPRuntime.connect does not keep the client; a worker that outlived the *)
(* join goes on without an owner.                                          *)
Drop ==
    /\ LeadAt("join") /\ lead.then = "drop"
    /\ orphans' = orphans \cup {w \in Workers : w = thread /\ Alive(w)}
    /\ thread' = NoWorker /\ loop' = NoWorker /\ client' = NoWorker /\ stop' = NoWorker
    /\ connected' = FALSE /\ ready' = FALSE /\ startError' = FALSE
    /\ lead' = Idle
    /\ UNCHANGED <<worker, registered, stopping, callVars, mainVars>>

-----------------------------------------------------------------------------
BugChecksTooLate ==
    /\ LeadAt("pick")
    /\ \/ loop = NoWorker /\ Return("refused") /\ UNCHANGED task
       \/ /\ loop # NoWorker /\ ~IsConnected /\ Return("refused")
          /\ task' = [task EXCEPT ![lead.call] = [at |-> "queued", on |-> loop]]
       \/ /\ IsConnected
          /\ lead' = At("submit", loop, "none") /\ UNCHANGED <<told, task>>
    /\ UNCHANGED <<worker, orphans, registered, fieldVars, stopping, issued, answer, sent,
                   mainVars>>

(* call_tool once connected: an unknown tool and a connection that is gone *)
(* are refused; otherwise it takes the session as it is now.               *)
PickSession ==
    /\ LeadAt("pick")
    /\ \/ Return("refused")
       \/ /\ client # NoWorker /\ IsConnected
          /\ lead' = At("submit", loop, "none") /\ UNCHANGED told
    /\ UNCHANGED <<worker, orphans, registered, fieldVars, stopping, issued, task, answer, sent,
                   mainVars>>

(* run_coroutine_threadsafe: the loop may be closed by now, and that error *)
(* is not caught.                                                          *)
Submit ==
    /\ LeadAt("submit")
    /\ \/ /\ Alive(lead.on)
          /\ task' = [task EXCEPT ![lead.call] = [at |-> "queued", on |-> lead.on]]
          /\ Goto("reply")
          /\ UNCHANGED told
       \/ ~Alive(lead.on) /\ Return("raised") /\ UNCHANGED task
    /\ UNCHANGED <<worker, orphans, registered, fieldVars, stopping, issued, answer, sent,
                   mainVars>>

CallSucceeds ==
    /\ LeadAt("reply") /\ answer[lead.call] = "ok"
    /\ Return("result")
    /\ UNCHANGED <<worker, orphans, registered, fieldVars, stopping, issued, task, answer, sent,
                   mainVars>>

BugReplays ==
    /\ LeadAt("reply") /\ answer[lead.call] # "ok"
    /\ Goto("check")
    /\ answer' = [answer EXCEPT ![lead.call] = "none"]
    /\ UNCHANGED <<worker, orphans, registered, fieldVars, stopping, issued, task, sent, told,
                   mainVars>>

(* The future raises, or the limit is over: the connection is reset.  The  *)
(* coroutine may run on until the cancellation reaches it.                 *)
CallFails ==
    /\ LeadAt("reply") /\ answer[lead.call] # "ok"
    /\ CloseThen("tell")
    /\ answer' = [answer EXCEPT ![lead.call] = "error"]
    /\ UNCHANGED <<worker, orphans, registered, fieldVars, stopping, issued, task, sent, told,
                   mainVars>>

TellReset ==
    /\ JoinEnds("tell")
    /\ Return("reset")
    /\ UNCHANGED <<worker, orphans, registered, stopping, issued, task, answer, sent, mainVars>>

-----------------------------------------------------------------------------
(* main's finally: close the registered client, then the process ends.     *)
MainQuits ==
    /\ main = "running"
    /\ IF registered
       THEN main' = "join" /\ joins' = thread /\ stopping' = Signalled
       ELSE main' = "exited" /\ UNCHANGED <<joins, stopping>>
    /\ UNCHANGED <<worker, orphans, registered, fieldVars, lead, callVars>>

MainCloses ==
    /\ main = "join"
    /\ main' = "exited" /\ joins' = NoWorker
    /\ thread' = ThreadAfterJoin(joins)
    /\ connected' = FALSE /\ client' = NoWorker
    /\ UNCHANGED <<worker, orphans, registered, loop, stop, ready, startError, stopping, lead,
                   callVars>>

-----------------------------------------------------------------------------
WorkerGoes(w, from, to) ==
    /\ main # "exited"
    /\ worker[w] = from
    /\ worker' = [worker EXCEPT ![w] = to]
    /\ UNCHANGED <<registered, lead, mainVars>>

(* _session_main: discovery succeeds and the session is published, in the  *)
(* fields of the client the worker belongs to.                             *)
SessionStarts(w) ==
    /\ WorkerGoes(w, "starting", "serving")
    /\ IF w \in orphans
       THEN UNCHANGED <<client, stop, connected, ready>>
       ELSE client' = w /\ stop' = w /\ connected' = TRUE /\ ready' = TRUE
    /\ UNCHANGED <<orphans, thread, loop, startError, stopping, callVars>>

Withdrawn(w) ==
    IF w \in orphans
    THEN UNCHANGED <<client, stop, connected, ready>>
    ELSE client' = NoWorker /\ stop' = NoWorker /\ connected' = FALSE /\ ready' = TRUE

StartupFails(w) ==
    /\ WorkerGoes(w, "starting", "clearing")
    /\ Withdrawn(w)
    /\ startError' = (startError \/ w \notin orphans)
    /\ UNCHANGED <<orphans, thread, loop, stopping, callVars>>

(* The stop event is set, or the transport breaks and takes the session    *)
(* with it.  Leaving the contexts may take long, and the fields still say  *)
(* connected meanwhile.                                                    *)
SessionStops(w) ==
    /\ WorkerGoes(w, "serving", "ending")
    /\ w \in stopping
    /\ UNCHANGED <<orphans, fieldVars, stopping, callVars>>

SessionBreaks(w) ==
    /\ WorkerGoes(w, "serving", "ending")
    /\ w \notin stopping
    /\ UNCHANGED <<orphans, fieldVars, stopping, callVars>>

SessionEnded(w) ==
    /\ WorkerGoes(w, "ending", "clearing")
    /\ Withdrawn(w)
    /\ UNCHANGED <<orphans, thread, loop, startError, stopping, callVars>>

(* _thread_main's finally: cancel what is pending, wait for it, close the  *)
(* loop.  What was submitted since and never ran is lost with the loop.    *)
Gather(w) ==
    /\ WorkerGoes(w, "clearing", "gathering")
    /\ UNCHANGED <<orphans, fieldVars, stopping, callVars>>

WorkerExits(w) ==
    /\ WorkerGoes(w, "gathering", "dead")
    /\ \A c \in Calls : task[c].on = w => task[c].at = "queued"
    /\ task' = [c \in Calls |-> IF task[c].on = w THEN Over ELSE task[c]]
    /\ orphans' = orphans \ {w} /\ stopping' = stopping \ {w}
    /\ loop' = IF loop = w THEN NoWorker ELSE loop
    /\ UNCHANGED <<thread, client, stop, connected, ready, startError, issued, answer, sent, told>>

-----------------------------------------------------------------------------
TaskGoes(c, from, to) ==
    /\ main # "exited"
    /\ task[c].at = from
    /\ task' = [task EXCEPT ![c] = IF to = "over" THEN Over ELSE [@ EXCEPT !.at = to]]
    /\ UNCHANGED <<worker, orphans, registered, fieldVars, stopping, lead, issued, told, mainVars>>

LoopIs(c, states) == Alive(task[c].on) /\ worker[task[c].on] \in states

(* _call_tool_async on the worker's loop: the request goes out while the   *)
(* contexts of the session are open.                                       *)
TaskStarts(c) ==
    /\ TaskGoes(c, "queued", "running")
    /\ LoopIs(c, {"serving", "ending", "gathering"})
    /\ UNCHANGED <<answer, sent>>

TaskSends(c) ==
    /\ TaskGoes(c, "running", "waiting")
    /\ LoopIs(c, {"serving", "ending"})
    /\ sent' = [sent EXCEPT ![c] = @ + 1]
    /\ UNCHANGED answer

TaskAnswers(c) ==
    /\ TaskGoes(c, "waiting", "over")
    /\ LoopIs(c, {"serving", "ending"})
    /\ answer' = [answer EXCEPT ![c] = IF @ = "none" THEN "ok" ELSE @]
    /\ UNCHANGED sent

(* An error of the server or the transport, a limit, a cancellation.       *)
TaskFails(c) ==
    /\ TaskGoes(c, "running", "over") \/ TaskGoes(c, "waiting", "over")
    /\ LoopIs(c, {"serving", "ending", "gathering"})
    /\ answer' = [answer EXCEPT ![c] = "error"]
    /\ UNCHANGED sent

-----------------------------------------------------------------------------
McpLeadStep ==
    \/ CheckConnected \/ ConnectOnce \/ StartupSettles \/ StartupTimesOut
    \/ CloseBegin \/ CloseAgain \/ Retry \/ ConnectFails \/ Drop
    \/ PickSession \/ Submit \/ CallSucceeds \/ CallFails \/ TellReset

WorkerStep(w) ==
    \/ SessionStarts(w) \/ StartupFails(w) \/ SessionStops(w) \/ SessionBreaks(w)
    \/ SessionEnded(w) \/ Gather(w) \/ WorkerExits(w)

TaskStep(c) == TaskStarts(c) \/ TaskSends(c) \/ TaskAnswers(c) \/ TaskFails(c)

McpNext ==
    \/ UseConnect \/ UseTool \/ McpLeadStep
    \/ MainQuits \/ MainCloses
    \/ \E w \in Workers : WorkerStep(w)
    \/ \E c \in Calls : TaskStep(c)

McpSpec == McpInit /\ [][McpNext]_mcpVars

(* The lead's thread runs on, and every wait of it has a limit.  Nothing   *)
(* is assumed of the worker, the server or the main thread.                *)
McpFairSpec == McpSpec /\ WF_mcpVars(McpLeadStep)

-----------------------------------------------------------------------------
(* One session at a time: a worker of this client that still lives, even   *)
(* one that outlived the join of a close, is the one the client holds, so  *)
(* that no second one is started beside it and a later close can stop it.  *)
OneSession ==
    \A w \in Workers :
        /\ Alive(w) /\ w \notin orphans => thread = w /\ loop = w
        /\ worker[w] = "serving" /\ w \notin orphans => stop = w

Effects == INSTANCE ToolCalls WITH
    Jobs <- Calls,
    begun <- {c \in Calls : task[c].at # "none"},
    effects <- sent,
    outcome <- [c \in Calls |-> CASE told[c] = "result" -> "ok"
                                  [] told[c] = "reset" -> "lost"
                                  [] OTHER -> "open"]

(* "The failed tool call is never replayed": whatever is reset or times    *)
(* out, a call takes effect at most once, and a result is only given of a  *)
(* call that did.                                                          *)
NeverReplayed == Effects!Spec

(* A call that was refused, or that raised, never reaches the server, not  *)
(* even later: it is safe for the model to try again.                      *)
RefusedIsUnsent ==
    \A c \in Calls :
        told[c] \in {"refused", "raised"} => task[c].at = "none" /\ sent[c] = 0

(* A call that was given up, whose coroutine may still be running on a     *)
(* worker that does not end, cannot reach the server after a later call    *)
(* has: effects come in the order of the calls.                            *)
EffectsInOrder ==
    [][\A c, d \in Calls : c < d /\ sent[d] > 0 => sent'[c] = sent[c]]_mcpVars

(* The model is told something of every call, though the worker or the     *)
(* server may hang for ever - unless the program ends.                     *)
CallsEnd ==
    \A c \in Calls : issued >= c ~> told[c] # "none" \/ main = "exited"
=============================================================================
