------------------------------ MODULE LeadTurns ------------------------------
(***************************************************************************)
(* The lead's conversation and the turns that work on it: AgentRuntime of  *)
(* runtime/loop.py with ContextRuntime of context/runtime.py, run by the   *)
(* two threads that share the conversation, the CLI (cli/app.py) and the   *)
(* autorun thread of the cron scheduler (jobs/runtime.py).                 *)
(*                                                                         *)
(* A turn holds agent_lock, but the CLI appends what the user typed before *)
(* it takes the lock, and the inbox after it has given it back.  The turn  *)
(* is cut wherever it reads the conversation and writes it back later.     *)
(*                                                                         *)
(* Texts are left out.  A message says what it is, how many tool calls to  *)
(* run or results it holds, which asks can be read in it, and in which     *)
(* turn the model wrote the prose of it.                                   *)
(***************************************************************************)
EXTENDS Naturals, Sequences

CONSTANTS
    Queries,       \* what the user types
    Prompts,       \* scheduled prompts, each of one firing
    Letters,       \* messages of teammates to the lead
    Long,          \* messages that fit the token limit
    Recent,        \* messages that reactive_compact keeps; 5 in the code
    MaxRecovery,   \* max_recovery_retries; 2 in the code
    MaxNudges,     \* reminders of the completion gate; 2 in the code
    MaxCalls,      \* bound on the tool calls of a reply
    MaxRounds,     \* bound on the replies with tool calls in a turn
    MaxFaults      \* bound on exceptions that leave a turn

ASSUME LeadAssumption ==
    /\ Queries \cap Prompts = {}
    /\ Letters \cap (Queries \cup Prompts) = {}
    /\ Recent \in Nat \ {0}
    /\ {Long, MaxRecovery, MaxNudges, MaxCalls, MaxRounds, MaxFaults} \subseteq Nat

VARIABLES
    history,    \* the messages
    holder,     \* the holder of agent_lock, "none" if it is free
    cli, auto,  \* what the two threads are at
    typed,      \* queries the user has typed
    due,        \* firings queued in the store
    held,       \* firings the autorun thread has claimed and not delivered
    unread,     \* letters in the lead's inbox
    said,       \* history: asks ever appended to the conversation
    at,         \* where the turn is
    back,       \* where it goes on after a summary
    copy,       \* what it has read of the messages and will write from
    start,      \* turn_start
    left, done, \* tool calls of the reply to go; results
    escalated, recovery, reacted, nudges,   \* RecoveryState, attempts
    rounds,     \* replies with tool calls in the turn
    research,   \* active research runs: "none", "open" or "failed"
    turnNo,     \* history: turns begun
    displaced,  \* history: a summary moved messages of the turn across its start
    gated,      \* history: the last turn ended in a workflow failure
    faults

threadVars == <<holder, cli, auto>>
askVars == <<typed, due, held, unread, said>>
batchVars == <<left, done, rounds>>
recoveryVars == <<escalated, recovery, reacted, nudges>>
turnVars == <<at, back, copy, start, batchVars, recoveryVars>>
ghostVars == <<turnNo, displaced, gated>>
vars == <<history, threadVars, askVars, turnVars, research, ghostVars, faults>>

Asks == Queries \cup Prompts \cup Letters
Kinds == {"ask", "note", "summary", "call", "results", "text", "failure"}
Messages == [kind : Kinds, count : Nat, asks : SUBSET Asks, prose : Nat]

Message(kind, count, asks, prose) ==
    [kind |-> kind, count |-> count, asks |-> asks, prose |-> prose]
Ask(asks) == Message("ask", 0, asks, 0)
Note == Message("note", 0, {}, 0)
Summary(asks) == Message("summary", 0, asks, 0)
Failure == Message("failure", 0, {}, 0)

AsksOf(h) == UNION {h[i].asks : i \in DOMAIN h}

LdTypeOK ==
    /\ history \in Seq(Messages)
    /\ holder \in {"none", "cli", "auto"}
    /\ cli \in {"reading", "waiting", "turn", "inbox", "exited"}
    /\ auto \in {"sleeping", "holding", "turn", "dead"}
    /\ typed \in SUBSET Queries
    /\ due \in SUBSET Prompts
    /\ held \in SUBSET Prompts
    /\ unread \in SUBSET Letters
    /\ said \in SUBSET Asks
    /\ at \in {"none", "inject", "fit", "refit", "compact", "compacted",
               "react", "reacted", "model", "tools"}
    /\ back \in {"model", "inject"}
    /\ copy \in Seq(Messages)
    /\ {start, left, done, recovery, nudges, rounds, turnNo} \subseteq Nat
    /\ {escalated, reacted, displaced, gated} \subseteq BOOLEAN
    /\ research \in {"none", "open", "failed"}
    /\ faults \in 0..MaxFaults

LdInit ==
    /\ history = <<>>
    /\ holder = "none"
    /\ cli = "reading"
    /\ auto = "sleeping"
    /\ typed = {}
    /\ due = {}
    /\ held = {}
    /\ unread = {}
    /\ said = {}
    /\ at = "none"
    /\ back = "model"
    /\ copy = <<>>
    /\ start = 0
    /\ left = 0
    /\ done = 0
    /\ escalated = FALSE
    /\ recovery = 0
    /\ reacted = FALSE
    /\ nudges = 0
    /\ rounds = 0
    /\ research = "none"
    /\ turnNo = 0
    /\ displaced = FALSE
    /\ gated = FALSE
    /\ faults = 0

-----------------------------------------------------------------------------
(* Bug definitions: the definition that follows with a slip in it; no      *)
(* specification uses them.                                                *)

(* The world: a firing is queued, a teammate writes to the lead.           *)
Fires(p) ==
    /\ p \notin said \cup held \cup due
    /\ due' = due \cup {p}
    /\ UNCHANGED <<history, threadVars, typed, held, unread, said, turnVars, research,
                   ghostVars, faults>>

Writes(m) ==
    /\ m \notin said \cup unread
    /\ unread' = unread \cup {m}
    /\ UNCHANGED <<history, threadVars, typed, due, held, said, turnVars, research,
                   ghostVars, faults>>

(* An append by a thread that may not hold the lock; it may come between   *)
(* tool calls and their results.                                           *)
AppendOutside(asks) ==
    /\ history' = Append(history, Ask(asks))
    /\ said' = said \cup asks

-----------------------------------------------------------------------------
(* The CLI thread                                                          *)
Submit(q) ==
    /\ cli = "reading"
    /\ q \notin typed
    /\ typed' = typed \cup {q}
    /\ AppendOutside({q})
    /\ cli' = "waiting"
    /\ UNCHANGED <<holder, auto, due, held, unread, turnVars, research, ghostVars, faults>>

(* The query q, exit or an empty one: the process ends, whatever the       *)
(* other thread is doing.                                                  *)
Quit ==
    /\ cli = "reading"
    /\ cli' = "exited"
    /\ UNCHANGED <<history, holder, auto, askVars, turnVars, research, ghostVars, faults>>

(* _append_inbox; consume_lead_inbox empties the inbox.                    *)
AppendInbox ==
    /\ cli = "inbox"
    /\ cli' = "reading"
    /\ unread' = {}
    /\ \/ unread # {} /\ AppendOutside(unread)
       \/ unread = {} /\ UNCHANGED <<history, said>>
    /\ UNCHANGED <<holder, auto, typed, due, held, turnVars, research, ghostVars, faults>>

(* _run_impl up to its loop                                                *)
BeginTurn ==
    /\ at' = "inject"
    /\ start' = Len(history')
    /\ escalated' = FALSE
    /\ recovery' = 0
    /\ reacted' = FALSE
    /\ nudges' = 0
    /\ rounds' = 0
    /\ turnNo' = turnNo + 1
    /\ displaced' = FALSE
    /\ gated' = FALSE
    /\ UNCHANGED <<back, copy, left, done, research, faults>>

CliTurn ==
    /\ cli = "waiting"
    /\ holder = "none"
    /\ holder' = "cli"
    /\ cli' = "turn"
    /\ UNCHANGED <<history, auto, askVars>>
    /\ BeginTurn

(* deliver_claimed_once: the claim, and the rest under the lock.  Prompts  *)
(* claimed together are one message here.                                  *)
AutoClaim ==
    /\ auto = "sleeping"
    /\ due # {}
    /\ held' = due
    /\ due' = {}
    /\ auto' = "holding"
    /\ UNCHANGED <<history, holder, cli, typed, unread, said, turnVars, research, ghostVars,
                   faults>>

BugDeliversUnlocked ==
    /\ auto = "holding"
    /\ \/ /\ held # {}
          /\ history' = Append(history, Ask(held))
          /\ said' = said \cup held
          /\ held' = {}
          /\ UNCHANGED <<threadVars, typed, due, unread, turnVars, research, ghostVars, faults>>
       \/ /\ held = {}
          /\ holder = "none"
          /\ holder' = "auto"
          /\ auto' = "turn"
          /\ UNCHANGED <<history, cli, askVars>>
          /\ BeginTurn

AutoTurn ==
    /\ auto = "holding"
    /\ holder = "none"
    /\ holder' = "auto"
    /\ auto' = "turn"
    /\ history' = Append(history, Ask(held))
    /\ said' = said \cup held
    /\ held' = {}
    /\ BeginTurn
    /\ UNCHANGED <<cli, typed, due, unread>>

-----------------------------------------------------------------------------
(* The turn.  It ends by giving the lock back with the messages h.         *)
GiveBack ==
    /\ at' = "none"
    /\ copy' = <<>>
    /\ holder' = "none"
    /\ back' = "model"
    /\ start' = 0
    /\ left' = 0
    /\ done' = 0
    /\ escalated' = FALSE
    /\ recovery' = 0
    /\ reacted' = FALSE
    /\ nudges' = 0
    /\ rounds' = 0
    /\ UNCHANGED askVars

EndTurn(h) ==
    /\ GiveBack
    /\ history' = h
    /\ cli' = IF holder = "cli" THEN "inbox" ELSE cli
    /\ auto' = IF holder = "auto" THEN "sleeping" ELSE auto
    /\ UNCHANGED <<research, turnNo, displaced, faults>>

(* The top of the loop takes in the scheduled prompts.  Notices of         *)
(* background jobs and reminders of the todos, which are appended here     *)
(* too, are left out.                                                      *)
Inject ==
    /\ at = "inject"
    /\ history' = IF due = {} THEN history ELSE Append(history, Ask(due))
    /\ said' = said \cup due
    /\ due' = {}
    /\ at' = "fit"
    /\ UNCHANGED <<threadVars, typed, held, unread, back, copy, start, batchVars, recoveryVars,
                   research, ghostVars, faults>>

(* prepare_context: fit works on a copy of the messages, which then        *)
(* replaces them, and too long a conversation is summarised.  Its size is  *)
(* the number of messages here; the tool results that fit shortens first   *)
(* keep their place.                                                       *)
Fit ==
    /\ at = "fit"
    /\ copy' = history
    /\ at' = "refit"
    /\ UNCHANGED <<history, threadVars, askVars, back, start, batchVars, recoveryVars, research,
                   ghostVars, faults>>

Refit ==
    /\ at = "refit"
    /\ history' = copy
    /\ copy' = <<>>
    /\ at' = IF Len(copy) > Long THEN "compact" ELSE "model"
    /\ back' = "model"
    /\ UNCHANGED <<threadVars, askVars, start, batchVars, recoveryVars, research, ghostVars,
                   faults>>

(* turn_start stays as it is where a summary shortens the messages: those  *)
(* of the turn then lie at or before it, unless it is the first of them.   *)
Displaces(h) == start > 1 /\ Len(h) < Len(history)

(* compact_history writes the messages to a transcript and asks the model  *)
(* for a summary of them, which names the transcript: what was said in     *)
(* them stays in reach.                                                    *)
Compact ==
    /\ at \in {"compact", "react"}
    /\ copy' = history
    /\ at' = IF at = "compact" THEN "compacted" ELSE "reacted"
    /\ UNCHANGED <<history, threadVars, askVars, back, start, batchVars, recoveryVars, research,
                   ghostVars, faults>>

Compacted ==
    /\ at = "compacted"
    /\ history' = <<Summary(AsksOf(copy))>> \o (IF back = "inject" THEN <<Note>> ELSE <<>>)
    /\ copy' = <<>>
    /\ at' = back
    /\ left' = 0
    /\ done' = 0
    /\ displaced' = (displaced \/ Displaces(history'))
    /\ UNCHANGED <<threadVars, askVars, back, start, rounds, recoveryVars, research, turnNo,
                   gated, faults>>

(* The last messages, with which reactive_compact begins after its         *)
(* summary.                                                                *)
Recently(h) == IF Len(h) <= Recent THEN h ELSE SubSeq(h, Len(h) - Recent + 1, Len(h))

BugReactsAgain ==
    /\ at = "reacted"
    /\ history' = <<Summary(AsksOf(copy))>> \o Recently(history)
    /\ copy' = <<>>
    /\ at' = "inject"
    /\ displaced' = (displaced \/ Displaces(history'))
    /\ UNCHANGED <<threadVars, askVars, back, start, batchVars, recoveryVars, research, turnNo,
                   gated, faults>>

Reacted ==
    /\ at = "reacted"
    /\ history' = <<Summary(AsksOf(copy))>> \o Recently(history)
    /\ copy' = <<>>
    /\ at' = "inject"
    /\ reacted' = TRUE
    /\ displaced' = (displaced \/ Displaces(history'))
    /\ UNCHANGED <<threadVars, askVars, back, start, batchVars, escalated, recovery, nudges,
                   research, turnNo, gated, faults>>

-----------------------------------------------------------------------------
(* The replies of the model, and what the loop does with each.             *)
(* _suppress_research_prose: the messages of the turn lose their prose.    *)
Suppressed(h) == [i \in DOMAIN h |-> IF i > start THEN [h[i] EXCEPT !.prose = 0] ELSE h[i]]

Pending == research # "none"
BugShowsEarlierProse(h) ==
    /\ EndTurn(Append(h, Failure))
    /\ gated' = TRUE

EndInFailure(h) ==
    /\ EndTurn(Append(Suppressed(h), Failure))
    /\ gated' = TRUE

(* Prose with no tool call: an answer, unless a research run is open.      *)
Answer ==
    /\ at = "model"
    /\ ~Pending
    /\ EndTurn(Append(history, Message("text", 0, {}, turnNo)))
    /\ UNCHANGED gated

Nudge ==
    /\ at = "model"
    /\ research = "open"
    /\ nudges < MaxNudges
    /\ nudges' = nudges + 1
    /\ history' = Append(history, Note)
    /\ escalated' = FALSE
    /\ at' = "inject"
    /\ UNCHANGED <<threadVars, askVars, back, copy, start, batchVars, recovery, reacted,
                   research, ghostVars, faults>>

GateFails ==
    /\ at = "model"
    /\ Pending
    /\ nudges = MaxNudges \/ research = "failed"
    /\ EndInFailure(history)

CallTools(n) ==
    /\ at = "model"
    /\ rounds < MaxRounds
    /\ rounds' = rounds + 1
    /\ history' = Append(history, Message("call", n, {}, turnNo))
    /\ left' = n
    /\ done' = 0
    /\ escalated' = FALSE
    /\ at' = "tools"
    /\ UNCHANGED <<threadVars, askVars, back, copy, start, recovery, reacted, nudges, research,
                   ghostVars, faults>>

(* A reply cut off at max_tokens: first asked again with more room, then   *)
(* kept and continued.  Tool calls in a cut reply are never run: it is a   *)
(* call of none, which gets no results.                                    *)
Escalate ==
    /\ at = "model"
    /\ ~escalated
    /\ escalated' = TRUE
    /\ at' = "inject"
    /\ UNCHANGED <<history, threadVars, askVars, back, copy, start, batchVars, recovery, reacted,
                   nudges, research, ghostVars, faults>>

CutReply == {Message(kind, 0, {}, turnNo) : kind \in {"text", "call"}}

Continue ==
    /\ at = "model"
    /\ escalated
    /\ recovery < MaxRecovery
    /\ recovery' = recovery + 1
    /\ \E cut \in CutReply : history' = history \o <<cut, Note>>
    /\ at' = "inject"
    /\ UNCHANGED <<threadVars, askVars, back, copy, start, batchVars, escalated, reacted,
                   nudges, research, ghostVars, faults>>

GiveUp ==
    /\ at = "model"
    /\ escalated
    /\ recovery = MaxRecovery
    /\ \E cut \in CutReply :
          IF Pending THEN EndInFailure(Append(history, cut))
          ELSE EndTurn(Append(history, cut)) /\ UNCHANGED gated

(* The call fails: a prompt too long is compacted once.                    *)
TooLong ==
    /\ at = "model"
    /\ ~reacted
    /\ at' = "react"
    /\ UNCHANGED <<history, threadVars, askVars, back, copy, start, batchVars, recoveryVars,
                   research, ghostVars, faults>>

ModelFails ==
    /\ at = "model"
    /\ EndTurn(Append(history, Failure))
    /\ UNCHANGED gated

-----------------------------------------------------------------------------
(* The tool calls of a reply, one after the other.  A call that a hook     *)
(* blocks, one started in the background and one that runs each get a      *)
(* result; one that runs may be of research_workflow.                      *)
BugBlockedUnanswered ==
    /\ at = "tools"
    /\ left > 0
    /\ left' = left - 1
    /\ done' \in {done, done + 1}
    /\ research' = research
    /\ UNCHANGED <<history, threadVars, askVars, at, back, copy, start, rounds, recoveryVars,
                   ghostVars, faults>>

RunTool ==
    /\ at = "tools"
    /\ left > 0
    /\ left' = left - 1
    /\ done' = done + 1
    /\ research' \in CASE research = "none" -> {"none", "open"}
                      [] research = "open" -> {"none", "open", "failed"}
                      [] OTHER -> {"failed"}
    /\ UNCHANGED <<history, threadVars, askVars, at, back, copy, start, rounds, recoveryVars,
                   ghostVars, faults>>

(* The compact tool: the calls before it keep no results, those after it   *)
(* are not run, and the summary takes the place of all of them.            *)
CompactTool ==
    /\ at = "tools"
    /\ left > 0
    /\ at' = "compact"
    /\ back' = "inject"
    /\ UNCHANGED <<history, threadVars, askVars, copy, start, batchVars, recoveryVars, research,
                   ghostVars, faults>>

SendResults ==
    /\ at = "tools"
    /\ left = 0
    /\ history' = Append(history, Message("results", done, {}, 0))
    /\ done' = 0
    /\ at' = "inject"
    /\ UNCHANGED <<threadVars, askVars, back, copy, start, left, rounds, recoveryVars, research,
                   ghostVars, faults>>

(* An exception of a tool, a hook or the file of a transcript leaves the   *)
(* turn: the lock is given back, and the thread ends, the CLI's with the   *)
(* process.                                                                *)
Raise ==
    /\ at \notin {"none", "model"}
    /\ faults < MaxFaults
    /\ faults' = faults + 1
    /\ GiveBack
    /\ cli' = IF holder = "cli" THEN "exited" ELSE cli
    /\ auto' = IF holder = "auto" THEN "dead" ELSE auto
    /\ UNCHANGED <<history, research, ghostVars>>

Turn ==
    \/ Inject \/ Fit \/ Refit \/ Compact \/ Compacted \/ Reacted
    \/ Answer \/ Nudge \/ GateFails \/ Escalate \/ Continue \/ GiveUp \/ TooLong \/ ModelFails
    \/ \E n \in 1..MaxCalls : CallTools(n)
    \/ RunTool \/ CompactTool \/ SendResults \/ Raise

LdNext ==
    /\ cli # "exited"
    /\ \/ \E p \in Prompts : Fires(p)
       \/ \E m \in Letters : Writes(m)
       \/ \E q \in Queries : Submit(q)
       \/ Quit \/ AppendInbox \/ CliTurn \/ AutoClaim \/ AutoTurn \/ Turn

LdSpec == LdInit /\ [][LdNext]_vars

(* The threads run; the model answers every call, and a tool call ends.    *)
LdFairSpec ==
    /\ LdSpec
    /\ WF_vars(cli # "exited" /\ Turn)
    /\ WF_vars(cli # "exited" /\ CliTurn)
    /\ WF_vars(cli # "exited" /\ AppendInbox)
    /\ WF_vars(cli # "exited" /\ (AutoClaim \/ AutoTurn))

-----------------------------------------------------------------------------
(* The message i holds the results of the calls of j, with nothing between *)
(* them but asks that were appended from outside the lock.                 *)
Answers(h, j, i) ==
    /\ j < i /\ h[j].kind = "call" /\ h[i].kind = "results" /\ h[i].count = h[j].count
    /\ \A k \in (j + 1)..(i - 1) : h[k].kind = "ask"

Answered(h, j) == \E i \in DOMAIN h : Answers(h, j, i)

(* Results whose calls a reactive compaction has cut off.                  *)
CutOff(h, i) == \A k \in 1..(i - 1) : h[k].kind \in {"summary", "ask"}

(* Whatever the model is sent, results are those of the calls before them, *)
(* or have lost their calls to the summary right before them; and every    *)
(* call that was taken up has all of its results, unless an exception has  *)
(* ended the autorun thread amid calls.  Blocked, background and           *)
(* delegated calls, budgeting, cut replies, both compactions and appends   *)
(* from outside the lock leave it so.  (runtime/loop.py:370-565)           *)
CallsAreAnswered ==
    at = "model" =>
        /\ \A i \in DOMAIN history : history[i].kind = "results" =>
              CutOff(history, i) \/ \E j \in DOMAIN history : Answers(history, j, i)
        /\ \A j \in DOMAIN history :
              history[j].kind = "call" /\ history[j].count > 0 /\ auto # "dead" =>
                 Answered(history, j)

(* A scheduled prompt that was appended, and so acknowledged, can be read  *)
(* in the conversation or in what a summary points to, however the CLI     *)
(* appends meanwhile.  (jobs/runtime.py:546, context/runtime.py:251)       *)
PromptsSurvive == said \cap Prompts \subseteq AsksOf(history)

(* A turn that ends in a workflow failure shows no prose of its own, not   *)
(* even what it wrote before the run was opened or before a compaction,    *)
(* unless a summary has moved its messages to or before turn_start, which  *)
(* cannot happen to a turn that begins with the first message.             *)
(* (_suppress_research_prose)                                              *)
GatedTurnsHideProse ==
    at = "none" /\ gated /\ ~displaced =>
        \A i \in DOMAIN history : history[i].prose # turnNo

(* A query that waits for the lock gets its turn, and the turn ends.       *)
QueriesAreTaken == cli = "waiting" ~> cli \in {"inbox", "exited"}

(* What the user types stays in the conversation, as the locks are said to *)
(* protect it.  (docs/architecture.md:304)                                 *)
QueriesSurvive == said \cap Queries \subseteq AsksOf(history)
=============================================================================
