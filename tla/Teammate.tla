------------------------------ MODULE Teammate ------------------------------
(***************************************************************************)
(* The plan-approval and shutdown protocol between the lead and a teammate *)
(* of one name: TeammateRuntime of runtime/teammate.py, TeamCoordinator of *)
(* team/coordination.py and the mailboxes of team/store.py.                *)
(*                                                                         *)
(* The mailboxes are durable; the lead's table of requests and the thread  *)
(* of the teammate live and die with the process, and request ids may be   *)
(* used again by the next process.  Reading an inbox empties it in one     *)
(* transaction.  The texts, the claims on tasks and their heartbeats are   *)
(* left out, and a batch of tool calls is one step.                        *)
(***************************************************************************)
EXTENDS Naturals, Sequences

CONSTANTS
    Requests,      \* request ids
    NoRequest,
    MaxUnread,     \* bound on the unread messages of a mailbox
    MaxCrashes,    \* bound on process deaths
    MaxFaults      \* bound on store calls that raise

ASSUME RequestsAssumption == NoRequest \notin Requests
ASSUME BoundsAssumption == MaxUnread \in Nat /\ MaxCrashes \in Nat /\ MaxFaults \in Nat

VARIABLES
    inbox,       \* unread messages to the teammate
    leadBox,     \* unread messages to the lead
    kind,        \* ProtocolState.type of each request, "none" for no request
    status,      \* ProtocolState.status
    outbox,      \* what the lead's operation has decided and not yet sent
    at,          \* where the thread is; "none" if not in active_teammates
    waiting,     \* protocol_ctx["waiting_plan"]
    submitted,   \* history: the last plan the thread submitted
    answered,    \* history: shutdown requests the thread has answered
    earlier,     \* history: those that earlier threads of the name answered
    crashes, faults

leadVars == <<kind, status, outbox>>
threadVars == <<at, waiting, submitted, answered, earlier>>
countVars == <<crashes, faults>>
tmVars == <<inbox, leadBox, kind, status, outbox, at, waiting, submitted, answered, earlier,
            crashes, faults>>

Message(type, r) == [type |-> type, req |-> r]
NoMessage == Message("none", NoRequest)
ToTeammate == [type : {"message"}, req : {NoRequest}]
    \cup [type : {"plan_approval_response", "shutdown_request"}, req : Requests]
ToLead == [type : {"result"}, req : {NoRequest}]
    \cup [type : {"plan_approval_request", "shutdown_response"}, req : Requests]

(* "loop" is the top of a round, where the inbox is read; a leaving thread *)
(* has its result to send, an ending one only its name to give up.         *)
Places == {"none", "loop", "model", "tools", "submitting", "idle", "leaving", "ending"}
Working == at \in {"loop", "model", "tools", "submitting", "idle"}

TmTypeOK ==
    /\ inbox \in Seq(ToTeammate)
    /\ leadBox \in Seq(ToLead)
    /\ kind \in [Requests -> {"none", "plan_approval", "shutdown"}]
    /\ status \in [Requests -> {"none", "pending", "approved", "rejected"}]
    /\ outbox \in ToTeammate \cup {NoMessage}
    /\ at \in Places
    /\ waiting \in Requests \cup {NoRequest}
    /\ submitted \in Requests \cup {NoRequest}
    /\ answered \in SUBSET Requests
    /\ earlier \in SUBSET Requests
    /\ crashes \in 0..MaxCrashes
    /\ faults \in 0..MaxFaults

-----------------------------------------------------------------------------
(* Bug definitions: the definition that follows with a slip in it; no      *)
(* specification uses them.                                                *)

TmInit ==
    /\ inbox = <<>>
    /\ leadBox = <<>>
    /\ kind = [r \in Requests |-> "none"]
    /\ status = [r \in Requests |-> "none"]
    /\ outbox = NoMessage
    /\ at = "none"
    /\ waiting = NoRequest
    /\ submitted = NoRequest
    /\ answered = {}
    /\ earlier = {}
    /\ crashes = 0
    /\ faults = 0

(* MessageBus.send.  The lead begins an operation only where the bound     *)
(* leaves room for its message, which no other sender can take away.       *)
Room(box) == Len(box) < MaxUnread
SendTo(box, m) == Room(box) /\ box' = Append(box, m)

(* new_request_id, and the ProtocolState that is stored under it           *)
OpenRequest(r, k) ==
    /\ kind[r] = "none"
    /\ kind' = [kind EXCEPT ![r] = k]
    /\ status' = [status EXCEPT ![r] = "pending"]

LeadIdle == outbox = NoMessage
Fault == faults < MaxFaults /\ faults' = faults + 1 /\ UNCHANGED crashes

-----------------------------------------------------------------------------
(* spawn: refused while the name is taken.                                 *)
Spawn ==
    /\ LeadIdle
    /\ at = "none"
    /\ at' = "loop"
    /\ waiting' = NoRequest
    /\ submitted' = NoRequest
    /\ answered' = {}
    /\ earlier' = earlier \cup answered
    /\ UNCHANGED <<inbox, leadBox, leadVars, countVars>>

(* send_from_lead and request_plan, and _spawn_or_wake of the orchestrator *)
(* where the name is taken.                                                *)
LeadMessage ==
    /\ LeadIdle
    /\ SendTo(inbox, Message("message", NoRequest))
    /\ UNCHANGED <<leadBox, leadVars, threadVars, countVars>>

(* request_shutdown and review_plan store, and then send.  A plan can be   *)
(* decided again.                                                          *)
RequestShutdown(r) ==
    /\ LeadIdle
    /\ Room(inbox)
    /\ OpenRequest(r, "shutdown")
    /\ outbox' = Message("shutdown_request", r)
    /\ UNCHANGED <<inbox, leadBox, threadVars, countVars>>

ReviewPlan(r, decision) ==
    /\ LeadIdle
    /\ Room(inbox)
    /\ kind[r] = "plan_approval"
    /\ status' = [status EXCEPT ![r] = decision]
    /\ outbox' = Message("plan_approval_response", r)
    /\ UNCHANGED <<inbox, leadBox, kind, threadVars, countVars>>

LeadSends ==
    /\ ~LeadIdle
    /\ SendTo(inbox, outbox)
    /\ outbox' = NoMessage
    /\ UNCHANGED <<leadBox, kind, status, threadVars, countVars>>

LeadSendRaises ==
    /\ ~LeadIdle
    /\ Fault
    /\ outbox' = NoMessage
    /\ UNCHANGED <<inbox, leadBox, kind, status, threadVars>>

HasMessage(box, m) == \E i \in DOMAIN box : box[i] = m

BugMatchesAnyResponse ==
    /\ LeadIdle
    /\ leadBox # <<>>
    /\ leadBox' = <<>>
    /\ status' = [r \in Requests |->
                    IF kind[r] # "none" /\ HasMessage(leadBox, Message("shutdown_response", r))
                    THEN "approved" ELSE status[r]]
    /\ UNCHANGED <<inbox, kind, outbox, threadVars, countVars>>

(* consume_lead_inbox, with match_response: the answer to a shutdown       *)
(* request does not decide a plan.                                         *)
ConsumeLeadInbox ==
    /\ LeadIdle
    /\ leadBox # <<>>
    /\ leadBox' = <<>>
    /\ status' = [r \in Requests |->
                    IF kind[r] = "shutdown" /\ HasMessage(leadBox, Message("shutdown_response", r))
                    THEN "approved" ELSE status[r]]
    /\ UNCHANGED <<inbox, kind, outbox, threadVars, countVars>>

-----------------------------------------------------------------------------
ShutdownAt == {i \in DOMAIN inbox : inbox[i].type = "shutdown_request"}

(* The first shutdown request is answered as soon as it is met; what comes *)
(* after it, read in the same transaction, is gone.                        *)
AnswerShutdown(k) ==
    /\ \A j \in ShutdownAt : k <= j
    /\ inbox' = <<>>
    /\ SendTo(leadBox, Message("shutdown_response", inbox[k].req))
    /\ answered' = answered \cup {inbox[k].req}
    /\ at' = "leaving"
    /\ UNCHANGED <<leadVars, submitted, earlier, countVars>>

(* A round begins with the inbox: _handle_inbox_message for each message.  *)
RoundStops(k) ==
    /\ at = "loop"
    /\ AnswerShutdown(k)
    /\ waiting' = IF \E i \in DOMAIN inbox :
                         i < k /\ inbox[i] = Message("plan_approval_response", waiting)
                  THEN NoRequest ELSE waiting

BugAnyResponseOpens ==
    /\ at = "loop"
    /\ ShutdownAt = {}
    /\ inbox' = <<>>
    /\ waiting' = IF \E r \in Requests : HasMessage(inbox, Message("plan_approval_response", r))
                  THEN NoRequest ELSE waiting
    /\ at' = IF waiting' = NoRequest THEN "model" ELSE "loop"
    /\ UNCHANGED <<leadBox, leadVars, submitted, answered, earlier, countVars>>

(* Only the response to the plan that is waited for ends the wait, be it   *)
(* an approval or a rejection; as long as the thread waits, a round ends   *)
(* here.                                                                   *)
RoundReads ==
    /\ at = "loop"
    /\ ShutdownAt = {}
    /\ inbox' = <<>>
    /\ waiting' = IF HasMessage(inbox, Message("plan_approval_response", waiting))
                  THEN NoRequest ELSE waiting
    /\ at' = IF waiting' = NoRequest THEN "model" ELSE "loop"
    /\ UNCHANGED <<leadBox, leadVars, submitted, answered, earlier, countVars>>

(* The model asks for tools; or it has more to say, or an error that may   *)
(* pass ends the round; or it declares the task finished.  After ten       *)
(* rounds the thread goes idle in any case.                                *)
ModelAnswers ==
    /\ at = "model"
    /\ at' \in {"tools", "loop", "idle"}
    /\ UNCHANGED <<inbox, leadBox, leadVars, waiting, submitted, answered, earlier, countVars>>

(* A permanent error is reported and raised.                               *)
ModelFailsForGood ==
    /\ at = "model"
    /\ SendTo(leadBox, Message("result", NoRequest))
    /\ at' = "ending"
    /\ UNCHANGED <<inbox, leadVars, waiting, submitted, answered, earlier, countVars>>

ToolsRun ==
    /\ at = "tools"
    /\ at' \in {"loop", "idle"}
    /\ UNCHANGED <<inbox, leadBox, leadVars, waiting, submitted, answered, earlier, countVars>>

(* submit_plan ends the batch.  Whether the lead learns of the plan before *)
(* the thread has noted that it waits makes no difference.                 *)
SubmitPlan(r) ==
    /\ at = "tools"
    /\ OpenRequest(r, "plan_approval")
    /\ SendTo(leadBox, Message("plan_approval_request", r))
    /\ submitted' = r
    /\ at' = "submitting"
    /\ UNCHANGED <<inbox, outbox, waiting, answered, earlier, countVars>>

(* The send raises; the exception ends the thread.                         *)
SubmitRaises(r) ==
    /\ at = "tools"
    /\ OpenRequest(r, "plan_approval")
    /\ Fault
    /\ at' = "ending"
    /\ UNCHANGED <<inbox, leadBox, outbox, waiting, submitted, answered, earlier>>

PlanSubmitted ==
    /\ at = "submitting"
    /\ waiting' = submitted
    /\ at' = "loop"
    /\ UNCHANGED <<inbox, leadBox, leadVars, submitted, answered, earlier, countVars>>

BugIdleAnswersAndWorks(k) ==
    /\ at = "idle"
    /\ \A j \in ShutdownAt : k <= j
    /\ inbox' = <<>>
    /\ SendTo(leadBox, Message("shutdown_response", inbox[k].req))
    /\ answered' = answered \cup {inbox[k].req}
    /\ at' = "loop"
    /\ UNCHANGED <<leadVars, waiting, submitted, earlier, countVars>>

(* idle_poll looks for a shutdown request first and otherwise passes the   *)
(* whole inbox on; with no messages it may claim a task or give up.        *)
IdleStops(k) ==
    /\ at = "idle"
    /\ AnswerShutdown(k)
    /\ UNCHANGED waiting

BugIdleMissesShutdown ==
    /\ at = "idle"
    /\ inbox' = <<>>
    /\ at' \in {"loop"} \cup (IF inbox = <<>> THEN {"leaving"} ELSE {})
    /\ UNCHANGED <<leadBox, leadVars, waiting, submitted, answered, earlier, countVars>>

IdleEnds ==
    /\ at = "idle"
    /\ ShutdownAt = {}
    /\ inbox' = <<>>
    /\ at' \in {"loop"} \cup (IF inbox = <<>> THEN {"leaving"} ELSE {})
    /\ UNCHANGED <<leadBox, leadVars, waiting, submitted, answered, earlier, countVars>>

(* The result is sent, and only then the name is given up: what is sent to *)
(* the name in between is read by its next bearer.                         *)
SendResult ==
    /\ at = "leaving"
    /\ SendTo(leadBox, Message("result", NoRequest))
    /\ at' = "ending"
    /\ UNCHANGED <<inbox, leadVars, waiting, submitted, answered, earlier, countVars>>

GiveUpName ==
    /\ at = "ending"
    /\ at' = "none"
    /\ UNCHANGED <<inbox, leadBox, leadVars, waiting, submitted, answered, earlier, countVars>>

(* Reading the inbox, answering a shutdown or sending a result raises.     *)
ThreadRaises ==
    /\ at \in {"loop", "model", "idle", "leaving"}
    /\ Fault
    /\ inbox' \in {inbox} \cup (IF ShutdownAt # {} /\ at \in {"loop", "idle"} THEN {<<>>} ELSE {})
    /\ at' = "ending"
    /\ UNCHANGED <<leadBox, leadVars, waiting, submitted, answered, earlier>>

(* The process dies.                                                       *)
Crash ==
    /\ crashes < MaxCrashes
    /\ crashes' = crashes + 1
    /\ kind' = [r \in Requests |-> "none"]
    /\ status' = [r \in Requests |-> "none"]
    /\ outbox' = NoMessage
    /\ at' = "none"
    /\ waiting' = NoRequest
    /\ submitted' = NoRequest
    /\ answered' = {}
    /\ earlier' = {}
    /\ UNCHANGED <<inbox, leadBox, faults>>

LeadStep ==
    \/ Spawn
    \/ LeadMessage
    \/ \E r \in Requests : RequestShutdown(r)
    \/ \E r \in Requests, d \in {"approved", "rejected"} : ReviewPlan(r, d)
    \/ LeadSends
    \/ LeadSendRaises
    \/ ConsumeLeadInbox

ThreadStep ==
    \/ \E k \in ShutdownAt : RoundStops(k) \/ IdleStops(k)
    \/ RoundReads
    \/ ModelAnswers \/ ModelFailsForGood
    \/ ToolsRun
    \/ \E r \in Requests : SubmitPlan(r)
    \/ PlanSubmitted
    \/ IdleEnds
    \/ SendResult \/ GiveUpName

TmNext ==
    \/ LeadStep
    \/ ThreadStep
    \/ \E r \in Requests : SubmitRaises(r)
    \/ ThreadRaises
    \/ Crash

TmSpec == TmInit /\ [][TmNext]_tmVars

(* The thread runs on, what the lead began to send is sent, and turns of   *)
(* the lead keep coming, each of which reads its inbox.                    *)
TmFairness == WF_tmVars(ThreadStep) /\ WF_tmVars(LeadSends) /\ WF_tmVars(ConsumeLeadInbox)

TmFairSpec == TmSpec /\ TmFairness

-----------------------------------------------------------------------------
(* The gate: once the teammate has submitted a plan, it calls no model and *)
(* no tool before the lead has decided that very plan - whatever is in its *)
(* mailbox from earlier plans, threads and processes, and although ids of  *)
(* requests come back after a restart.                                     *)
GateHolds ==
    at \in {"model", "tools", "idle"} /\ submitted # NoRequest => status[submitted] # "pending"

(* The lead is not told a tale: as long as the process lives, a shutdown   *)
(* counts as approved only when a thread of that name has answered it, and *)
(* a thread that has answered one works no more.                           *)
ShutdownsAreReal ==
    /\ Working => answered = {}
    /\ crashes = 0 => \A r \in Requests : kind[r] = "shutdown" /\ status[r] = "approved"
                          => r \in earlier \cup answered

(* A decided plan never leaves the teammate waiting, unless a store call   *)
(* raised and the decision was never sent.                                 *)
DecidedPlansResume ==
    \A r \in Requests : waiting = r /\ at = "loop" /\ status[r] # "pending"
                            ~> ~(waiting = r /\ at = "loop") \/ faults > 0

(* A teammate at work that has a shutdown request in its mailbox stops,    *)
(* also while it waits for a plan to be decided.                           *)
ShutdownRequestsStop == Working /\ ShutdownAt # {} ~> at = "none"
=============================================================================
