----------------------------- MODULE PeersProofs -----------------------------
(***************************************************************************)
(* Proofs about the two peers of the lead: about the plan gate and the     *)
(* shutdown protocol of a teammate, for any number of requests, messages,  *)
(* crashes and faults; and about the MCP client, for any worker threads    *)
(* and any numbers of calls, attempts and orphans.                         *)
(***************************************************************************)
EXTENDS Teammate, McpClient, TLAPS

Decided(r) == r \in Requests /\ status[r] \in {"approved", "rejected"}
Response(m) == m.type = "plan_approval_response"

(* An undecided plan that was submitted is being waited for.               *)
PendingIsAwaited ==
    submitted # NoRequest /\ status[submitted] = "pending" =>
        \/ at = "submitting"
        \/ waiting = submitted /\ at \in {"loop", "leaving", "ending", "none"}

(* Once a thread has read its inbox, what is left there or on its way      *)
(* comes from this process, and is a decision the lead has made.           *)
Informed == at \in {"model", "tools", "submitting", "idle"} \/ submitted # NoRequest
ResponsesAreDecisions ==
    /\ Response(outbox) => Decided(outbox.req)
    /\ Informed => \A i \in DOMAIN inbox : Response(inbox[i]) => Decided(inbox[i].req)

RequestsAreKnown ==
    /\ \A r \in Requests : kind[r] = "none" <=> status[r] = "none"
    /\ submitted # NoRequest => status[submitted] # "none"

GateInv ==
    /\ TmTypeOK
    /\ PendingIsAwaited
    /\ ResponsesAreDecisions
    /\ RequestsAreKnown

(* What the lead can still read of shutdowns was said by a thread.         *)
AnswersAreReal ==
    crashes = 0 => \A i \in DOMAIN leadBox : leadBox[i].type = "shutdown_response"
                       => leadBox[i].req \in earlier \cup answered

ShutdownInv == TmTypeOK /\ ShutdownsAreReal /\ AnswersAreReal

LEMMA GateInvInit == TmInit => GateInv
<1> SUFFICES ASSUME TmInit PROVE GateInv
  OBVIOUS
<1> USE RequestsAssumption, BoundsAssumption
<1>1. TmTypeOK
  BY DEF TmInit, TmTypeOK, Places
<1>2. PendingIsAwaited /\ RequestsAreKnown
  BY DEF TmInit, PendingIsAwaited, RequestsAreKnown
<1>3. ResponsesAreDecisions
  BY DEF TmInit, ResponsesAreDecisions, Response, NoMessage, Message
<1>4. QED
  BY <1>1, <1>2, <1>3 DEF GateInv

(* Sending keeps a mailbox a sequence and puts the message at its end.     *)
LEMMA SendingAppends ==
    ASSUME NEW S, NEW box \in Seq(S), NEW m \in S
    PROVE  /\ Append(box, m) \in Seq(S)
           /\ DOMAIN Append(box, m) = DOMAIN box \cup {Len(box) + 1}
           /\ \A i \in DOMAIN box : Append(box, m)[i] = box[i]
           /\ Append(box, m)[Len(box) + 1] = m
  OBVIOUS

(* An empty mailbox is a mailbox, and messages are what mailboxes hold.    *)
LEMMA EmptyMailbox == \A S : <<>> \in Seq(S)
  OBVIOUS

LEMMA MessagesAreTyped ==
    ASSUME NEW r \in Requests
    PROVE  /\ Message("message", NoRequest) \in ToTeammate
           /\ Message("plan_approval_response", r) \in ToTeammate
           /\ Message("shutdown_request", r) \in ToTeammate
           /\ Message("plan_approval_request", r) \in ToLead
           /\ Message("shutdown_response", r) \in ToLead
           /\ Message("result", NoRequest) \in ToLead
  BY DEF Message, ToTeammate, ToLead

(* Type correctness is inductive on its own.                               *)
LEMMA TypesKept == TmTypeOK /\ [TmNext]_tmVars => TmTypeOK'
<1> SUFFICES ASSUME TmTypeOK, [TmNext]_tmVars PROVE TmTypeOK'
  OBVIOUS
<1> USE RequestsAssumption, BoundsAssumption
        DEF TmTypeOK, Places, ToTeammate, ToLead, Message, NoMessage, leadVars, threadVars, countVars
<1>0. CASE UNCHANGED tmVars
  BY <1>0 DEF tmVars
<1>1. CASE Spawn
  BY <1>1, SendingAppends, MessagesAreTyped DEF Spawn
<1>2. CASE LeadMessage
  BY <1>2, SendingAppends, MessagesAreTyped DEF LeadMessage, SendTo
<1>3. ASSUME NEW r \in Requests, RequestShutdown(r) PROVE TmTypeOK'
  BY <1>3, SendingAppends, MessagesAreTyped DEF RequestShutdown, OpenRequest
<1>4. ASSUME NEW r \in Requests, NEW d \in {"approved", "rejected"}, ReviewPlan(r, d)
      PROVE TmTypeOK'
  BY <1>4, SendingAppends, MessagesAreTyped DEF ReviewPlan
<1>5. CASE LeadSends
  BY <1>5, SendingAppends, MessagesAreTyped DEF LeadSends, SendTo, LeadIdle
<1>6. CASE LeadSendRaises
  BY <1>6, SendingAppends, MessagesAreTyped DEF LeadSendRaises, Fault
<1>7. CASE ConsumeLeadInbox
  BY <1>7, SendingAppends, MessagesAreTyped DEF ConsumeLeadInbox, HasMessage
<1>8. ASSUME NEW k \in ShutdownAt, RoundStops(k) PROVE TmTypeOK'
  <2>1. inbox[k] \in ToTeammate /\ inbox[k].type = "shutdown_request"
    BY DEF ShutdownAt
  <2>2. inbox[k].req \in Requests
    BY <2>1
  <2>3. leadBox' \in Seq(ToLead) /\ inbox' \in Seq(ToTeammate)
    BY <1>8, <2>2, SendingAppends, MessagesAreTyped DEF RoundStops, AnswerShutdown, SendTo
  <2>4. QED
    BY <1>8, <2>2, <2>3 DEF RoundStops, AnswerShutdown
<1>9. CASE RoundReads
  BY <1>9, SendingAppends, MessagesAreTyped DEF RoundReads, HasMessage
<1>10. CASE ModelAnswers
  BY <1>10, SendingAppends, MessagesAreTyped DEF ModelAnswers
<1>11. CASE ModelFailsForGood
  BY <1>11, SendingAppends, MessagesAreTyped DEF ModelFailsForGood, SendTo
<1>12. CASE ToolsRun
  BY <1>12, SendingAppends, MessagesAreTyped DEF ToolsRun
<1>13. ASSUME NEW r \in Requests, SubmitPlan(r) PROVE TmTypeOK'
  BY <1>13, SendingAppends, MessagesAreTyped DEF SubmitPlan, OpenRequest, SendTo
<1>14. CASE PlanSubmitted
  BY <1>14, SendingAppends, MessagesAreTyped DEF PlanSubmitted
<1>15. ASSUME NEW k \in ShutdownAt, IdleStops(k) PROVE TmTypeOK'
  <2>1. inbox[k] \in ToTeammate /\ inbox[k].type = "shutdown_request"
    BY DEF ShutdownAt
  <2>2. inbox[k].req \in Requests
    BY <2>1
  <2>3. leadBox' \in Seq(ToLead) /\ inbox' \in Seq(ToTeammate)
    BY <1>15, <2>2, SendingAppends, MessagesAreTyped DEF IdleStops, AnswerShutdown, SendTo
  <2>4. QED
    BY <1>15, <2>2, <2>3 DEF IdleStops, AnswerShutdown
<1>16. CASE IdleEnds
  BY <1>16, SendingAppends, MessagesAreTyped DEF IdleEnds
<1>17. CASE SendResult
  BY <1>17, SendingAppends, MessagesAreTyped DEF SendResult, SendTo
<1>18. CASE GiveUpName
  BY <1>18, SendingAppends, MessagesAreTyped DEF GiveUpName
<1>19. ASSUME NEW r \in Requests, SubmitRaises(r) PROVE TmTypeOK'
  BY <1>19, SendingAppends, MessagesAreTyped DEF SubmitRaises, OpenRequest, Fault
<1>20. CASE ThreadRaises
  <2>1. inbox' \in Seq(ToTeammate)
    <3>1. inbox' = inbox \/ inbox' = <<>>
      BY <1>20 DEF ThreadRaises
    <3> HIDE DEF ToTeammate
    <3>2. QED
      BY <3>1, EmptyMailbox
  <2>2. QED
    BY <1>20, <2>1 DEF ThreadRaises, Fault
<1>21. CASE Crash
  BY <1>21, SendingAppends, MessagesAreTyped DEF Crash
<1>22. QED
  BY <1>0, <1>1, <1>2, <1>3, <1>4, <1>5, <1>6, <1>7, <1>8, <1>9, <1>10, <1>11,
     <1>12, <1>13, <1>14, <1>15, <1>16, <1>17, <1>18, <1>19, <1>20, <1>21
  DEF TmNext, LeadStep, ThreadStep

(* Requests of this process have a kind and a status, the submitted plan   *)
(* among them.                                                             *)
LEMMA KnownKept == TmTypeOK /\ RequestsAreKnown /\ [TmNext]_tmVars => RequestsAreKnown'
<1> SUFFICES ASSUME TmTypeOK /\ RequestsAreKnown, [TmNext]_tmVars PROVE RequestsAreKnown'
  OBVIOUS
<1> USE RequestsAssumption DEF TmTypeOK, RequestsAreKnown, leadVars, threadVars, countVars
<1>0. CASE UNCHANGED tmVars
  BY <1>0 DEF tmVars
<1>1. CASE Spawn
  BY <1>1 DEF Spawn
<1>2. CASE LeadMessage
  BY <1>2 DEF LeadMessage, SendTo
<1>3. ASSUME NEW r \in Requests, RequestShutdown(r) PROVE RequestsAreKnown'
  BY <1>3 DEF RequestShutdown, OpenRequest
<1>4. ASSUME NEW r \in Requests, NEW d \in {"approved", "rejected"}, ReviewPlan(r, d)
      PROVE RequestsAreKnown'
  BY <1>4 DEF ReviewPlan
<1>5. CASE LeadSends
  BY <1>5 DEF LeadSends, SendTo, LeadIdle
<1>6. CASE LeadSendRaises
  BY <1>6 DEF LeadSendRaises, Fault
<1>7. CASE ConsumeLeadInbox
  BY <1>7 DEF ConsumeLeadInbox, HasMessage
<1>8. ASSUME NEW k \in ShutdownAt, RoundStops(k) PROVE RequestsAreKnown'
  BY <1>8 DEF RoundStops, AnswerShutdown, SendTo, ShutdownAt
<1>9. CASE RoundReads
  BY <1>9 DEF RoundReads, HasMessage
<1>10. CASE ModelAnswers
  BY <1>10 DEF ModelAnswers
<1>11. CASE ModelFailsForGood
  BY <1>11 DEF ModelFailsForGood, SendTo
<1>12. CASE ToolsRun
  BY <1>12 DEF ToolsRun
<1>13. ASSUME NEW r \in Requests, SubmitPlan(r) PROVE RequestsAreKnown'
  BY <1>13 DEF SubmitPlan, OpenRequest, SendTo
<1>14. CASE PlanSubmitted
  BY <1>14 DEF PlanSubmitted
<1>15. ASSUME NEW k \in ShutdownAt, IdleStops(k) PROVE RequestsAreKnown'
  BY <1>15 DEF IdleStops, AnswerShutdown, SendTo, ShutdownAt
<1>16. CASE IdleEnds
  BY <1>16 DEF IdleEnds
<1>17. CASE SendResult
  BY <1>17 DEF SendResult, SendTo
<1>18. CASE GiveUpName
  BY <1>18 DEF GiveUpName
<1>19. ASSUME NEW r \in Requests, SubmitRaises(r) PROVE RequestsAreKnown'
  BY <1>19 DEF SubmitRaises, OpenRequest, Fault
<1>20. CASE ThreadRaises
  BY <1>20 DEF ThreadRaises, Fault
<1>21. CASE Crash
  BY <1>21 DEF Crash
<1>22. QED
  BY <1>0, <1>1, <1>2, <1>3, <1>4, <1>5, <1>6, <1>7, <1>8, <1>9, <1>10, <1>11,
     <1>12, <1>13, <1>14, <1>15, <1>16, <1>17, <1>18, <1>19, <1>20, <1>21
  DEF TmNext, LeadStep, ThreadStep

(* While a submitted plan is undecided, no response to it can be read.     *)
LEMMA NoEarlyResponse ==
    ASSUME GateInv, submitted # NoRequest, status[submitted] = "pending"
    PROVE  \A i \in DOMAIN inbox : inbox[i] # Message("plan_approval_response", submitted)
  BY DEF GateInv, ResponsesAreDecisions, Informed, Response, Decided, Message

(* A submitted plan is awaited until it is decided.                        *)
LEMMA AwaitedKept == GateInv /\ [TmNext]_tmVars => PendingIsAwaited'
<1> SUFFICES ASSUME GateInv, [TmNext]_tmVars PROVE PendingIsAwaited'
  OBVIOUS
<1> USE RequestsAssumption
        DEF GateInv, TmTypeOK, PendingIsAwaited, RequestsAreKnown, leadVars, threadVars, countVars
<1>0. CASE UNCHANGED tmVars
  BY <1>0 DEF tmVars
<1>1. CASE Spawn
  BY <1>1 DEF Spawn
<1>2. CASE LeadMessage
  BY <1>2 DEF LeadMessage, SendTo
<1>3. ASSUME NEW r \in Requests, RequestShutdown(r) PROVE PendingIsAwaited'
  BY <1>3 DEF RequestShutdown, OpenRequest
<1>4. ASSUME NEW r \in Requests, NEW d \in {"approved", "rejected"}, ReviewPlan(r, d)
      PROVE PendingIsAwaited'
  BY <1>4 DEF ReviewPlan
<1>5. CASE LeadSends
  BY <1>5 DEF LeadSends, SendTo, LeadIdle
<1>6. CASE LeadSendRaises
  BY <1>6 DEF LeadSendRaises, Fault
<1>7. CASE ConsumeLeadInbox
  BY <1>7 DEF ConsumeLeadInbox, HasMessage
<1>8. ASSUME NEW k \in ShutdownAt, RoundStops(k) PROVE PendingIsAwaited'
  <2>1. CASE submitted # NoRequest /\ status[submitted] = "pending"
    <3>1. \A i \in DOMAIN inbox : inbox[i] # Message("plan_approval_response", submitted)
      BY <2>1, NoEarlyResponse
    <3>2. QED
      BY <1>8, <2>1, <3>1 DEF RoundStops, AnswerShutdown
  <2>2. CASE ~(submitted # NoRequest /\ status[submitted] = "pending")
    BY <1>8, <2>2 DEF RoundStops, AnswerShutdown
  <2>3. QED
    BY <2>1, <2>2
<1>9. CASE RoundReads
  <2>1. CASE submitted # NoRequest /\ status[submitted] = "pending"
    <3>1. \A i \in DOMAIN inbox : inbox[i] # Message("plan_approval_response", submitted)
      BY <2>1, NoEarlyResponse
    <3>2. QED
      BY <1>9, <2>1, <3>1 DEF RoundReads, HasMessage
  <2>2. CASE ~(submitted # NoRequest /\ status[submitted] = "pending")
    BY <1>9, <2>2 DEF RoundReads, HasMessage
  <2>3. QED
    BY <2>1, <2>2
<1>10. CASE ModelAnswers
  BY <1>10 DEF ModelAnswers
<1>11. CASE ModelFailsForGood
  BY <1>11 DEF ModelFailsForGood, SendTo
<1>12. CASE ToolsRun
  BY <1>12 DEF ToolsRun
<1>13. ASSUME NEW r \in Requests, SubmitPlan(r) PROVE PendingIsAwaited'
  BY <1>13 DEF SubmitPlan, OpenRequest, SendTo
<1>14. CASE PlanSubmitted
  BY <1>14 DEF PlanSubmitted
<1>15. ASSUME NEW k \in ShutdownAt, IdleStops(k) PROVE PendingIsAwaited'
  BY <1>15 DEF IdleStops, AnswerShutdown, SendTo, ShutdownAt
<1>16. CASE IdleEnds
  BY <1>16 DEF IdleEnds
<1>17. CASE SendResult
  BY <1>17 DEF SendResult, SendTo
<1>18. CASE GiveUpName
  BY <1>18 DEF GiveUpName
<1>19. ASSUME NEW r \in Requests, SubmitRaises(r) PROVE PendingIsAwaited'
  BY <1>19 DEF SubmitRaises, OpenRequest, Fault
<1>20. CASE ThreadRaises
  BY <1>20 DEF ThreadRaises, Fault
<1>21. CASE Crash
  BY <1>21 DEF Crash
<1>22. QED
  BY <1>0, <1>1, <1>2, <1>3, <1>4, <1>5, <1>6, <1>7, <1>8, <1>9, <1>10, <1>11,
     <1>12, <1>13, <1>14, <1>15, <1>16, <1>17, <1>18, <1>19, <1>20, <1>21
  DEF TmNext, LeadStep, ThreadStep

(* What an informed thread can read are decisions of this process.         *)
LEMMA DecisionsKept == GateInv /\ [TmNext]_tmVars => ResponsesAreDecisions'
<1> SUFFICES ASSUME GateInv, [TmNext]_tmVars PROVE ResponsesAreDecisions'
  OBVIOUS
<1> USE RequestsAssumption
        DEF GateInv, TmTypeOK, ResponsesAreDecisions, RequestsAreKnown, Response, Decided, Informed,
            Message, NoMessage, leadVars, threadVars, countVars
<1>0. CASE UNCHANGED tmVars
  BY <1>0 DEF tmVars
<1>1. CASE Spawn
  BY <1>1 DEF Spawn
<1>2. CASE LeadMessage
  BY <1>2 DEF LeadMessage, SendTo
<1>3. ASSUME NEW r \in Requests, RequestShutdown(r) PROVE ResponsesAreDecisions'
  BY <1>3 DEF RequestShutdown, OpenRequest
<1>4. ASSUME NEW r \in Requests, NEW d \in {"approved", "rejected"}, ReviewPlan(r, d)
      PROVE ResponsesAreDecisions'
  BY <1>4 DEF ReviewPlan
<1>5. CASE LeadSends
  BY <1>5 DEF LeadSends, SendTo, LeadIdle
<1>6. CASE LeadSendRaises
  BY <1>6 DEF LeadSendRaises, Fault
<1>7. CASE ConsumeLeadInbox
  BY <1>7 DEF ConsumeLeadInbox, HasMessage
<1>8. ASSUME NEW k \in ShutdownAt, RoundStops(k) PROVE ResponsesAreDecisions'
  BY <1>8 DEF RoundStops, AnswerShutdown, SendTo, ShutdownAt
<1>9. CASE RoundReads
  BY <1>9 DEF RoundReads, HasMessage
<1>10. CASE ModelAnswers
  BY <1>10 DEF ModelAnswers
<1>11. CASE ModelFailsForGood
  BY <1>11 DEF ModelFailsForGood, SendTo
<1>12. CASE ToolsRun
  BY <1>12 DEF ToolsRun
<1>13. ASSUME NEW r \in Requests, SubmitPlan(r) PROVE ResponsesAreDecisions'
  BY <1>13 DEF SubmitPlan, OpenRequest, SendTo
<1>14. CASE PlanSubmitted
  BY <1>14 DEF PlanSubmitted
<1>15. ASSUME NEW k \in ShutdownAt, IdleStops(k) PROVE ResponsesAreDecisions'
  BY <1>15 DEF IdleStops, AnswerShutdown, SendTo, ShutdownAt
<1>16. CASE IdleEnds
  BY <1>16 DEF IdleEnds
<1>17. CASE SendResult
  BY <1>17 DEF SendResult, SendTo
<1>18. CASE GiveUpName
  BY <1>18 DEF GiveUpName
<1>19. ASSUME NEW r \in Requests, SubmitRaises(r) PROVE ResponsesAreDecisions'
  BY <1>19 DEF SubmitRaises, OpenRequest, Fault
<1>20. CASE ThreadRaises
  BY <1>20 DEF ThreadRaises, Fault
<1>21. CASE Crash
  BY <1>21 DEF Crash
<1>22. QED
  BY <1>0, <1>1, <1>2, <1>3, <1>4, <1>5, <1>6, <1>7, <1>8, <1>9, <1>10, <1>11,
     <1>12, <1>13, <1>14, <1>15, <1>16, <1>17, <1>18, <1>19, <1>20, <1>21
  DEF TmNext, LeadStep, ThreadStep

(* Only an answer of a thread makes a shutdown count as approved.          *)
LEMMA ShutdownsKept == ShutdownInv /\ [TmNext]_tmVars => (ShutdownsAreReal /\ AnswersAreReal)'
<1> SUFFICES ASSUME ShutdownInv, [TmNext]_tmVars PROVE (ShutdownsAreReal /\ AnswersAreReal)'
  OBVIOUS
<1> USE RequestsAssumption
        DEF ShutdownInv, TmTypeOK, ShutdownsAreReal, AnswersAreReal, Working, RequestsAreKnown,
            Message, NoMessage, leadVars, threadVars, countVars
<1>0. CASE UNCHANGED tmVars
  BY <1>0 DEF tmVars
<1>1. CASE Spawn
  BY <1>1 DEF Spawn
<1>2. CASE LeadMessage
  BY <1>2 DEF LeadMessage, SendTo
<1>3. ASSUME NEW r \in Requests, RequestShutdown(r) PROVE (ShutdownsAreReal /\ AnswersAreReal)'
  BY <1>3 DEF RequestShutdown, OpenRequest
<1>4. ASSUME NEW r \in Requests, NEW d \in {"approved", "rejected"}, ReviewPlan(r, d)
      PROVE (ShutdownsAreReal /\ AnswersAreReal)'
  BY <1>4 DEF ReviewPlan
<1>5. CASE LeadSends
  BY <1>5 DEF LeadSends, SendTo, LeadIdle
<1>6. CASE LeadSendRaises
  BY <1>6 DEF LeadSendRaises, Fault
<1>7. CASE ConsumeLeadInbox
  BY <1>7 DEF ConsumeLeadInbox, HasMessage
<1>8. ASSUME NEW k \in ShutdownAt, RoundStops(k) PROVE (ShutdownsAreReal /\ AnswersAreReal)'
  BY <1>8 DEF RoundStops, AnswerShutdown, SendTo, ShutdownAt
<1>9. CASE RoundReads
  BY <1>9 DEF RoundReads, HasMessage
<1>10. CASE ModelAnswers
  BY <1>10 DEF ModelAnswers
<1>11. CASE ModelFailsForGood
  BY <1>11 DEF ModelFailsForGood, SendTo
<1>12. CASE ToolsRun
  BY <1>12 DEF ToolsRun
<1>13. ASSUME NEW r \in Requests, SubmitPlan(r) PROVE (ShutdownsAreReal /\ AnswersAreReal)'
  BY <1>13 DEF SubmitPlan, OpenRequest, SendTo
<1>14. CASE PlanSubmitted
  BY <1>14 DEF PlanSubmitted
<1>15. ASSUME NEW k \in ShutdownAt, IdleStops(k) PROVE (ShutdownsAreReal /\ AnswersAreReal)'
  BY <1>15 DEF IdleStops, AnswerShutdown, SendTo, ShutdownAt
<1>16. CASE IdleEnds
  BY <1>16 DEF IdleEnds
<1>17. CASE SendResult
  BY <1>17 DEF SendResult, SendTo
<1>18. CASE GiveUpName
  BY <1>18 DEF GiveUpName
<1>19. ASSUME NEW r \in Requests, SubmitRaises(r) PROVE (ShutdownsAreReal /\ AnswersAreReal)'
  BY <1>19 DEF SubmitRaises, OpenRequest, Fault
<1>20. CASE ThreadRaises
  BY <1>20 DEF ThreadRaises, Fault
<1>21. CASE Crash
  BY <1>21 DEF Crash
<1>22. QED
  BY <1>0, <1>1, <1>2, <1>3, <1>4, <1>5, <1>6, <1>7, <1>8, <1>9, <1>10, <1>11,
     <1>12, <1>13, <1>14, <1>15, <1>16, <1>17, <1>18, <1>19, <1>20, <1>21
  DEF TmNext, LeadStep, ThreadStep

LEMMA GateInvStep == GateInv /\ [TmNext]_tmVars => GateInv'
  BY TypesKept, KnownKept, AwaitedKept, DecisionsKept DEF GateInv

LEMMA GateInvImplies == GateInv => TmTypeOK /\ GateHolds
  BY DEF GateInv, PendingIsAwaited, GateHolds

LEMMA ShutdownInvInit == TmInit => ShutdownInv
  BY GateInvInit DEF GateInv, ShutdownInv, ShutdownsAreReal, AnswersAreReal, TmInit, Working

LEMMA ShutdownInvStep == ShutdownInv /\ [TmNext]_tmVars => ShutdownInv'
  BY TypesKept, ShutdownsKept DEF ShutdownInv

(* Variables stay in their types: mailboxes hold well-formed messages, and *)
(* the thread only waits for ids of requests (teammate.py, coordination.py)*)
THEOREM TmTypeCorrect == TmSpec => []TmTypeOK
<1>1. GateInv /\ [TmNext]_tmVars => GateInv'
  BY GateInvStep
<1>2. QED
  BY <1>1, GateInvInit, GateInvImplies, PTL DEF TmSpec

(* However many requests, messages, restarts and failing calls there are,  *)
(* no model or tool is called between the submission of a plan and the     *)
(* decision of the lead on that plan (_run_teammate, review_plan).         *)
THEOREM PlansGateTools == TmSpec => []GateHolds
<1>1. GateInv /\ [TmNext]_tmVars => GateInv'
  BY GateInvStep
<1>2. QED
  BY <1>1, GateInvInit, GateInvImplies, PTL DEF TmSpec

(* A shutdown counts as approved only when a thread of the name answered   *)
(* it, and a thread that answered one works no more (match_response,       *)
(* _handle_inbox_message, idle_poll).                                      *)
THEOREM ApprovedShutdownsHappened == TmSpec => []ShutdownsAreReal
<1>1. ShutdownInv => ShutdownsAreReal
  BY DEF ShutdownInv
<1>2. QED
  BY <1>1, ShutdownInvInit, ShutdownInvStep, PTL DEF TmSpec

-----------------------------------------------------------------------------
(* The type invariant in parts.                                            *)
Flags ==
    /\ connected \in BOOLEAN /\ ready \in BOOLEAN
    /\ startError \in BOOLEAN /\ registered \in BOOLEAN

Data ==
    /\ worker \in [Workers -> WorkerStates]
    /\ orphans \in SUBSET Workers /\ stopping \in SUBSET Workers
    /\ thread \in MaybeWorker /\ loop \in MaybeWorker
    /\ client \in MaybeWorker /\ stop \in MaybeWorker
    /\ issued \in 0..MaxCalls
    /\ task \in [Calls -> [at : TaskStates, on : MaybeWorker]]
    /\ answer \in [Calls -> {"none", "ok", "error"}]
    /\ sent \in [Calls -> Nat]
    /\ told \in [Calls -> {"none", "result", "reset", "refused", "raised"}]
    /\ main \in {"running", "join", "exited"}
    /\ joins \in MaybeWorker

LeadRecords ==
    [at : LeadStates, call : 0..MaxCalls, attempt : 1..Attempts,
     on : MaybeWorker, then : AfterClose]

Live(c) == task[c].at \in {"queued", "running", "waiting"}

(* The call the lead has submitted and not returned from.                  *)
Calling(c) == lead.call = c /\ (lead.at = "reply" \/ lead.then = "tell")

(* Sessions: OneSession, and who the orphans are.                          *)
Sessions ==
    /\ \A w \in Workers \ orphans : Alive(w) => thread = w /\ loop = w
    /\ \A w \in Workers \ orphans : worker[w] \in {"serving", "ending"} => stop = w
    /\ \A w \in orphans : Alive(w) /\ thread # w
    /\ connected /\ Alive(thread) => worker[thread] # "starting"

(* Where the lead is, and in which call.                                   *)
Leading ==
    /\ lead.call # 0 => lead.call = issued
    /\ lead.at \in {"pick", "submit", "reply"} \/ lead.then = "tell" => lead.call > 0
    /\ lead.then # "none" => lead.at \in {"close", "join"}
    /\ lead.then = "drop" => ~registered /\ lead.call = 0
    /\ issued > 0 => registered
    /\ lead.at = "submit" =>
          /\ lead.on \in Workers \ orphans
          /\ worker[lead.on] # "starting"

(* What a call may have done by where its coroutine is.                    *)
Progress ==
    \A c \in Calls :
        /\ task[c].at = "none" =>
              task[c].on = NoWorker /\ told[c] \in {"none", "refused", "raised"}
        /\ task[c].at \in {"none", "queued", "running"} => sent[c] = 0
        /\ task[c].at = "waiting" => sent[c] = 1
        /\ task[c].at # "none" => c <= issued /\ told[c] \in {"none", "result", "reset"}
        /\ task[c].at = "over" => task[c].on = NoWorker
        /\ told[c] # "none" => c <= issued /\ c # lead.call
        /\ answer[c] = "ok" => task[c].at = "over" /\ sent[c] = 1
        /\ lead.call = c => (Calling(c) <=> task[c].at # "none")

(* A coroutine that is not over belongs to the call the lead waits for, or *)
(* is left over from one whose session is no longer offered.               *)
Leftovers ==
    \A c \in Calls : Live(c) =>
        /\ Alive(task[c].on) /\ task[c].on \notin orphans
        /\ worker[task[c].on] # "starting"
        /\ \/ Calling(c)
           \/ ~connected /\ lead.at \notin {"submit", "reply"} /\ lead.then # "tell"
        /\ \A d \in Calls : c < d => task[d].at = "none"

McpInv == McpTypeOK /\ Sessions /\ Leading /\ Progress /\ Leftovers

(* Type correctness needs no more than itself and where the lead is.       *)
LEMMA TypeKept == ASSUME McpTypeOK, Leading, McpNext PROVE McpTypeOK'
<1>1. CASE UseConnect
  BY <1>1, McpAssumption DEF McpTypeOK, WorkerStates, LeadStates, AfterClose, TaskStates,
    MaybeWorker, Calls, Leading, UseConnect, LeadAt, At, Goto, fieldVars, callVars, mainVars
<1>2. CASE UseTool
  <2>1. Flags'
    BY <1>2, Zenon DEF McpTypeOK, Flags, UseTool, LeadAt, At, Idle, fieldVars, mainVars
  <2>2. Data'
    BY <1>2, McpAssumption DEF Data, McpTypeOK, WorkerStates, LeadStates, AfterClose, TaskStates,
      MaybeWorker, Calls, Leading, UseTool, LeadAt, At, Idle, fieldVars, mainVars
  <2>3. lead' \in LeadRecords
    BY <1>2, McpAssumption DEF LeadRecords, McpTypeOK, WorkerStates, LeadStates, AfterClose,
      TaskStates, MaybeWorker, Calls, UseTool, LeadAt, At, Idle, fieldVars, mainVars
  <2>4. QED
    BY <2>1, <2>2, <2>3 DEF McpTypeOK, Flags, Data, LeadRecords
<1>3. CASE CheckConnected
  <2>1. Flags'
    BY <1>3, Zenon DEF McpTypeOK, Flags, CheckConnected, LeadAt, At, Goto, Idle, Connected,
      IsConnected, fieldVars, callVars, mainVars
  <2>2. Data'
    BY <1>3, McpAssumption DEF Data, McpTypeOK, WorkerStates, LeadStates, AfterClose, TaskStates,
      MaybeWorker, Calls, Leading, CheckConnected, LeadAt, At, Goto, Idle, Connected,
      IsConnected, fieldVars, callVars, mainVars
  <2>3. lead' \in LeadRecords
    BY <1>3, McpAssumption DEF LeadRecords, McpTypeOK, WorkerStates, LeadStates, AfterClose,
      TaskStates, MaybeWorker, Calls, CheckConnected, LeadAt, At, Goto, Idle, Connected,
      IsConnected, fieldVars, callVars, mainVars
  <2>4. QED
    BY <2>1, <2>2, <2>3 DEF McpTypeOK, Flags, Data, LeadRecords
<1>4. CASE ConnectOnce
  <2>1. Flags'
    BY <1>4, Zenon DEF McpTypeOK, Flags, ConnectOnce, LeadAt, At, Goto, Idle, CloseThen,
      Connected, IsConnected, MayStart, fieldVars, callVars, mainVars
  <2>2. Data'
    <3>1. CASE UNCHANGED <<worker, fieldVars>>
      BY <1>4, <3>1 DEF Data, McpTypeOK, WorkerStates, LeadStates, AfterClose, TaskStates,
        MaybeWorker, Calls, ConnectOnce, callVars, mainVars, fieldVars
    <3>2. ASSUME NEW w \in Workers, worker' = [worker EXCEPT ![w] = "starting"],
                 thread' = w, loop' = w, UNCHANGED <<client, stop>>
          PROVE  Data'
      BY <1>4, <3>2 DEF Data, McpTypeOK, WorkerStates, LeadStates, AfterClose, TaskStates,
        MaybeWorker, Calls, ConnectOnce, callVars, mainVars
    <3>3. QED
      BY <1>4, <3>1, <3>2 DEF ConnectOnce, fieldVars
  <2>3. lead' \in LeadRecords
    BY <1>4, McpAssumption DEF LeadRecords, McpTypeOK, WorkerStates, LeadStates, AfterClose,
      TaskStates, MaybeWorker, Calls, ConnectOnce, LeadAt, At, Goto, Idle, CloseThen,
      Connected, IsConnected, MayStart, fieldVars, callVars, mainVars
  <2>4. QED
    BY <2>1, <2>2, <2>3 DEF McpTypeOK, Flags, Data, LeadRecords
<1>5. CASE StartupSettles
  <2>1. Flags'
    BY <1>5, Zenon DEF McpTypeOK, Flags, StartupSettles, LeadAt, At, Goto, Idle, CloseThen,
      Connected, fieldVars, callVars, mainVars
  <2>2. Data'
    BY <1>5, McpAssumption DEF Data, McpTypeOK, WorkerStates, LeadStates, AfterClose, TaskStates,
      MaybeWorker, Calls, Leading, StartupSettles, LeadAt, At, Goto, Idle, CloseThen,
      Connected, fieldVars, callVars, mainVars
  <2>3. lead' \in LeadRecords
    BY <1>5, McpAssumption DEF LeadRecords, McpTypeOK, WorkerStates, LeadStates, AfterClose,
      TaskStates, MaybeWorker, Calls, StartupSettles, LeadAt, At, Goto, Idle, CloseThen,
      Connected, fieldVars, callVars, mainVars
  <2>4. QED
    BY <2>1, <2>2, <2>3 DEF McpTypeOK, Flags, Data, LeadRecords
<1>6. CASE StartupTimesOut
  BY <1>6, McpAssumption DEF McpTypeOK, WorkerStates, LeadStates, AfterClose, TaskStates,
    MaybeWorker, Calls, Leading, StartupTimesOut, LeadAt, At, CloseThen, fieldVars, callVars,
    mainVars
<1>7. CASE CloseBegin
  BY <1>7, McpAssumption DEF McpTypeOK, WorkerStates, LeadStates, AfterClose, TaskStates,
    MaybeWorker, Calls, Leading, CloseBegin, LeadAt, At, Signalled, fieldVars, callVars,
    mainVars
<1>8. CASE CloseAgain
  BY <1>8, McpAssumption DEF McpTypeOK, WorkerStates, LeadStates, AfterClose, TaskStates,
    MaybeWorker, Calls, Leading, CloseAgain, JoinEnds, ThreadAfterJoin, LeadAt, At, CloseThen,
    callVars, mainVars
<1>9. CASE Retry
  <2>1. Flags'
    BY <1>9, Zenon DEF McpTypeOK, Flags, Retry, JoinEnds, ThreadAfterJoin, LeadAt, At, Idle,
      callVars, mainVars
  <2>2. Data'
    BY <1>9, McpAssumption DEF Data, McpTypeOK, WorkerStates, LeadStates, AfterClose, TaskStates,
      MaybeWorker, Calls, Leading, Retry, JoinEnds, ThreadAfterJoin, LeadAt, At, Idle,
      callVars, mainVars
  <2>3. lead' \in LeadRecords
    BY <1>9, McpAssumption DEF LeadRecords, McpTypeOK, WorkerStates, LeadStates, AfterClose,
      TaskStates, MaybeWorker, Calls, Retry, JoinEnds, ThreadAfterJoin, LeadAt, At, Idle,
      callVars, mainVars
  <2>4. QED
    BY <2>1, <2>2, <2>3 DEF McpTypeOK, Flags, Data, LeadRecords
<1>10. CASE ConnectFails
  <2>1. Flags'
    BY <1>10, Zenon DEF McpTypeOK, Flags, ConnectFails, JoinEnds, ThreadAfterJoin, LeadAt, At,
      CloseThen, Return, Idle, mainVars
  <2>2. Data'
    BY <1>10, McpAssumption DEF Data, McpTypeOK, WorkerStates, LeadStates, AfterClose, TaskStates,
      MaybeWorker, Calls, Leading, ConnectFails, JoinEnds, ThreadAfterJoin, LeadAt, At,
      CloseThen, Return, Idle, mainVars
  <2>3. lead' \in LeadRecords
    BY <1>10, McpAssumption DEF LeadRecords, McpTypeOK, WorkerStates, LeadStates, AfterClose,
      TaskStates, MaybeWorker, Calls, ConnectFails, JoinEnds, ThreadAfterJoin, LeadAt, At,
      CloseThen, Return, Idle, mainVars
  <2>4. QED
    BY <2>1, <2>2, <2>3 DEF McpTypeOK, Flags, Data, LeadRecords
<1>11. CASE Drop
  <2>1. Flags'
    BY <1>11, Zenon DEF McpTypeOK, Flags, Drop, LeadAt, Idle, callVars, mainVars
  <2>2. Data'
    BY <1>11, McpAssumption DEF Data, McpTypeOK, WorkerStates, LeadStates, AfterClose, TaskStates,
      MaybeWorker, Calls, Leading, Drop, LeadAt, Idle, callVars, mainVars
  <2>3. lead' \in LeadRecords
    BY <1>11, McpAssumption DEF LeadRecords, McpTypeOK, WorkerStates, LeadStates, AfterClose,
      TaskStates, MaybeWorker, Calls, Drop, LeadAt, Idle, callVars, mainVars
  <2>4. QED
    BY <2>1, <2>2, <2>3 DEF McpTypeOK, Flags, Data, LeadRecords
<1>12. CASE PickSession
  BY <1>12, McpAssumption DEF McpTypeOK, WorkerStates, LeadStates, AfterClose, TaskStates,
    MaybeWorker, Calls, Leading, PickSession, LeadAt, At, Return, Idle, IsConnected, fieldVars,
    mainVars
<1>13. CASE Submit
  <2>1. Flags'
    BY <1>13, Zenon DEF McpTypeOK, Flags, Submit, LeadAt, At, Goto, Return, Idle, fieldVars,
      mainVars
  <2>2. Data'
    <3>1. lead.call \in Calls /\ lead.on \in MaybeWorker
      BY <1>13 DEF Submit, LeadAt, Leading, McpTypeOK, Calls
    <3>2. task' \in [Calls -> [at : TaskStates, on : MaybeWorker]]
      BY <1>13, <3>1 DEF Submit, McpTypeOK, TaskStates
    <3>3. told' \in [Calls -> {"none", "result", "reset", "refused", "raised"}]
      BY <1>13, <3>1 DEF Submit, Return, McpTypeOK
    <3>4. QED
      BY <1>13, <3>2, <3>3 DEF Data, McpTypeOK, Submit, fieldVars, mainVars
  <2>3. lead' \in LeadRecords
    BY <1>13, McpAssumption DEF LeadRecords, McpTypeOK, WorkerStates, LeadStates, AfterClose,
      TaskStates, MaybeWorker, Calls, Submit, LeadAt, At, Goto, Return, Idle, fieldVars,
      mainVars
  <2>4. QED
    BY <2>1, <2>2, <2>3 DEF McpTypeOK, Flags, Data, LeadRecords
<1>14. CASE CallSucceeds
  BY <1>14, McpAssumption DEF McpTypeOK, WorkerStates, LeadStates, AfterClose, TaskStates,
    MaybeWorker, Calls, Leading, CallSucceeds, LeadAt, Return, Idle, fieldVars, mainVars
<1>15. CASE CallFails
  BY <1>15, McpAssumption DEF McpTypeOK, WorkerStates, LeadStates, AfterClose, TaskStates,
    MaybeWorker, Calls, Leading, CallFails, LeadAt, At, CloseThen, fieldVars, mainVars
<1>16. CASE TellReset
  <2>1. Flags'
    BY <1>16, Zenon DEF McpTypeOK, Flags, TellReset, JoinEnds, ThreadAfterJoin, LeadAt, Return,
      Idle, mainVars
  <2>2. Data'
    BY <1>16, McpAssumption DEF Data, McpTypeOK, WorkerStates, LeadStates, AfterClose, TaskStates,
      MaybeWorker, Calls, Leading, TellReset, JoinEnds, ThreadAfterJoin, LeadAt, Return, Idle,
      mainVars
  <2>3. lead' \in LeadRecords
    BY <1>16, McpAssumption DEF LeadRecords, McpTypeOK, WorkerStates, LeadStates, AfterClose,
      TaskStates, MaybeWorker, Calls, TellReset, JoinEnds, ThreadAfterJoin, LeadAt, Return,
      Idle, mainVars
  <2>4. QED
    BY <2>1, <2>2, <2>3 DEF McpTypeOK, Flags, Data, LeadRecords
<1>17. CASE MainQuits
  BY <1>17, McpAssumption DEF McpTypeOK, WorkerStates, LeadStates, AfterClose, TaskStates,
    MaybeWorker, Calls, Leading, MainQuits, Signalled, fieldVars, callVars
<1>18. CASE MainCloses
  <2>1. Flags'
    BY <1>18, Zenon DEF McpTypeOK, Flags, MainCloses
  <2>2. Data'
    BY <1>18, McpAssumption DEF Data, McpTypeOK, WorkerStates, TaskStates, MaybeWorker, Calls,
      MainCloses, ThreadAfterJoin, callVars
  <2>3. lead' \in LeadRecords
    BY <1>18 DEF LeadRecords, McpTypeOK, MainCloses
  <2>4. QED
    BY <2>1, <2>2, <2>3 DEF McpTypeOK, Flags, Data, LeadRecords
<1>19. ASSUME NEW w \in Workers, SessionStarts(w) PROVE McpTypeOK'
  <2>1. Flags'
    BY <1>19, Zenon DEF McpTypeOK, Flags, SessionStarts, WorkerGoes, callVars, mainVars
  <2>2. Data'
    BY <1>19, McpAssumption DEF Data, McpTypeOK, WorkerStates, LeadStates, AfterClose, TaskStates,
      MaybeWorker, Calls, Leading, SessionStarts, WorkerGoes, callVars, mainVars
  <2>3. lead' \in LeadRecords
    BY <1>19, McpAssumption DEF LeadRecords, McpTypeOK, WorkerStates, LeadStates, AfterClose,
      TaskStates, MaybeWorker, Calls, SessionStarts, WorkerGoes, callVars, mainVars
  <2>4. QED
    BY <2>1, <2>2, <2>3 DEF McpTypeOK, Flags, Data, LeadRecords
<1>20. ASSUME NEW w \in Workers, StartupFails(w) PROVE McpTypeOK'
  <2>1. Flags'
    BY <1>20, Zenon DEF McpTypeOK, Flags, StartupFails, WorkerGoes, Withdrawn, callVars, mainVars
  <2>2. Data'
    BY <1>20, McpAssumption DEF Data, McpTypeOK, WorkerStates, LeadStates, AfterClose, TaskStates,
      MaybeWorker, Calls, Leading, StartupFails, WorkerGoes, Withdrawn, callVars, mainVars
  <2>3. lead' \in LeadRecords
    BY <1>20, McpAssumption DEF LeadRecords, McpTypeOK, WorkerStates, LeadStates, AfterClose,
      TaskStates, MaybeWorker, Calls, StartupFails, WorkerGoes, Withdrawn, callVars, mainVars
  <2>4. QED
    BY <2>1, <2>2, <2>3 DEF McpTypeOK, Flags, Data, LeadRecords
<1>21. ASSUME NEW w \in Workers, SessionStops(w) PROVE McpTypeOK'
  BY <1>21, McpAssumption DEF McpTypeOK, WorkerStates, LeadStates, AfterClose, TaskStates,
    MaybeWorker, Calls, Leading, SessionStops, WorkerGoes, fieldVars, callVars, mainVars
<1>22. ASSUME NEW w \in Workers, SessionBreaks(w) PROVE McpTypeOK'
  BY <1>22, McpAssumption DEF McpTypeOK, WorkerStates, LeadStates, AfterClose, TaskStates,
    MaybeWorker, Calls, Leading, SessionBreaks, WorkerGoes, fieldVars, callVars, mainVars
<1>23. ASSUME NEW w \in Workers, SessionEnded(w) PROVE McpTypeOK'
  <2>1. Flags'
    BY <1>23, Zenon DEF McpTypeOK, Flags, SessionEnded, WorkerGoes, Withdrawn, callVars, mainVars
  <2>2. Data'
    BY <1>23, McpAssumption DEF Data, McpTypeOK, WorkerStates, LeadStates, AfterClose, TaskStates,
      MaybeWorker, Calls, Leading, SessionEnded, WorkerGoes, Withdrawn, callVars, mainVars
  <2>3. lead' \in LeadRecords
    BY <1>23, McpAssumption DEF LeadRecords, McpTypeOK, WorkerStates, LeadStates, AfterClose,
      TaskStates, MaybeWorker, Calls, SessionEnded, WorkerGoes, Withdrawn, callVars, mainVars
  <2>4. QED
    BY <2>1, <2>2, <2>3 DEF McpTypeOK, Flags, Data, LeadRecords
<1>24. ASSUME NEW w \in Workers, Gather(w) PROVE McpTypeOK'
  BY <1>24, McpAssumption DEF McpTypeOK, WorkerStates, LeadStates, AfterClose, TaskStates,
    MaybeWorker, Calls, Leading, Gather, WorkerGoes, fieldVars, callVars, mainVars
<1>25. ASSUME NEW w \in Workers, WorkerExits(w) PROVE McpTypeOK'
  BY <1>25, McpAssumption DEF McpTypeOK, WorkerStates, LeadStates, AfterClose, TaskStates,
    MaybeWorker, Calls, Leading, WorkerExits, WorkerGoes, Over, mainVars
<1>26. ASSUME NEW c \in Calls, TaskStarts(c) PROVE McpTypeOK'
  BY <1>26, McpAssumption DEF McpTypeOK, WorkerStates, LeadStates, AfterClose, TaskStates,
    MaybeWorker, Calls, Leading, TaskStarts, TaskGoes, Over, LoopIs, fieldVars, mainVars
<1>27. ASSUME NEW c \in Calls, TaskSends(c) PROVE McpTypeOK'
  <2>1. Flags'
    BY <1>27, Zenon DEF McpTypeOK, Flags, TaskSends, TaskGoes, Over, LoopIs, fieldVars, mainVars
  <2>2. Data'
    <3>1. task' \in [Calls -> [at : TaskStates, on : MaybeWorker]]
      BY <1>27 DEF TaskSends, TaskGoes, Over, McpTypeOK, TaskStates, MaybeWorker
    <3>2. sent' \in [Calls -> Nat]
      BY <1>27 DEF TaskSends, McpTypeOK
    <3>3. QED
      BY <1>27, <3>1, <3>2 DEF Data, McpTypeOK, TaskSends, TaskGoes, fieldVars, mainVars
  <2>3. lead' \in LeadRecords
    BY <1>27, McpAssumption DEF LeadRecords, McpTypeOK, WorkerStates, LeadStates, AfterClose,
      TaskStates, MaybeWorker, Calls, TaskSends, TaskGoes, Over, LoopIs, fieldVars, mainVars
  <2>4. QED
    BY <2>1, <2>2, <2>3 DEF McpTypeOK, Flags, Data, LeadRecords
<1>28. ASSUME NEW c \in Calls, TaskAnswers(c) PROVE McpTypeOK'
  BY <1>28, McpAssumption DEF McpTypeOK, WorkerStates, LeadStates, AfterClose, TaskStates,
    MaybeWorker, Calls, Leading, TaskAnswers, TaskGoes, Over, LoopIs, fieldVars, mainVars
<1>29. ASSUME NEW c \in Calls, TaskFails(c) PROVE McpTypeOK'
  BY <1>29, McpAssumption DEF McpTypeOK, WorkerStates, LeadStates, AfterClose, TaskStates,
    MaybeWorker, Calls, Leading, TaskFails, TaskGoes, Over, LoopIs, fieldVars, mainVars
<1>30. QED
  BY <1>1, <1>2, <1>3, <1>4, <1>5, <1>6, <1>7, <1>8, <1>9, <1>10, <1>11, <1>12, <1>13, <1>14,
    <1>15, <1>16, <1>17, <1>18, <1>19, <1>20, <1>21, <1>22, <1>23, <1>24, <1>25, <1>26, <1>27,
    <1>28, <1>29 DEF McpNext, McpLeadStep, WorkerStep, TaskStep

(* A worker is only started when the last one is gone, and only given up   *)
(* when the client is.                                                     *)
LEMMA SessionsKept == ASSUME McpTypeOK /\ Sessions /\ Leading, McpNext PROVE Sessions'
<1>1. CASE UseConnect
  BY <1>1, McpAssumption DEF Sessions, Leading, McpTypeOK, MaybeWorker, Alive, UseConnect,
    LeadAt, At, Goto, fieldVars, callVars, mainVars
<1>2. CASE UseTool
  BY <1>2, McpAssumption DEF Sessions, Leading, McpTypeOK, MaybeWorker, Alive, UseTool, LeadAt,
    At, Idle, fieldVars, mainVars
<1>3. CASE CheckConnected
  BY <1>3, McpAssumption DEF Sessions, Leading, McpTypeOK, MaybeWorker, Alive, CheckConnected,
    LeadAt, At, Goto, Idle, Connected, IsConnected, fieldVars, callVars, mainVars
<1>4. CASE ConnectOnce
  BY <1>4, McpAssumption DEF Sessions, Leading, McpTypeOK, MaybeWorker, Alive, ConnectOnce,
    LeadAt, At, Goto, Idle, CloseThen, Connected, IsConnected, MayStart, fieldVars, callVars,
    mainVars
<1>5. CASE StartupSettles
  BY <1>5, McpAssumption DEF Sessions, Leading, McpTypeOK, MaybeWorker, Alive, StartupSettles,
    LeadAt, At, Goto, Idle, CloseThen, Connected, fieldVars, callVars, mainVars
<1>6. CASE StartupTimesOut
  BY <1>6, McpAssumption DEF Sessions, Leading, McpTypeOK, MaybeWorker, Alive, StartupTimesOut,
    LeadAt, At, CloseThen, fieldVars, callVars, mainVars
<1>7. CASE CloseBegin
  BY <1>7, McpAssumption DEF Sessions, Leading, McpTypeOK, MaybeWorker, Alive, CloseBegin,
    LeadAt, At, Signalled, fieldVars, callVars, mainVars
<1>8. CASE CloseAgain
  BY <1>8, McpAssumption DEF Sessions, Leading, McpTypeOK, MaybeWorker, Alive, CloseAgain,
    JoinEnds, ThreadAfterJoin, LeadAt, At, CloseThen, callVars, mainVars
<1>9. CASE Retry
  BY <1>9, McpAssumption DEF Sessions, Leading, McpTypeOK, MaybeWorker, Alive, Retry, JoinEnds,
    ThreadAfterJoin, LeadAt, At, Idle, callVars, mainVars
<1>10. CASE ConnectFails
  BY <1>10, McpAssumption DEF Sessions, Leading, McpTypeOK, MaybeWorker, Alive, ConnectFails,
    JoinEnds, ThreadAfterJoin, LeadAt, At, CloseThen, Return, Idle, mainVars
<1>11. CASE Drop
  BY <1>11, McpAssumption DEF Sessions, Leading, McpTypeOK, MaybeWorker, Alive, Drop, LeadAt,
    Idle, callVars, mainVars
<1>12. CASE PickSession
  BY <1>12, McpAssumption DEF Sessions, Leading, McpTypeOK, MaybeWorker, Alive, PickSession,
    LeadAt, At, Return, Idle, IsConnected, fieldVars, mainVars
<1>13. CASE Submit
  BY <1>13, McpAssumption DEF Sessions, Leading, McpTypeOK, MaybeWorker, Alive, Submit, LeadAt,
    At, Goto, Return, Idle, fieldVars, mainVars
<1>14. CASE CallSucceeds
  BY <1>14, McpAssumption DEF Sessions, Leading, McpTypeOK, MaybeWorker, Alive, CallSucceeds,
    LeadAt, Return, Idle, fieldVars, mainVars
<1>15. CASE CallFails
  BY <1>15, McpAssumption DEF Sessions, Leading, McpTypeOK, MaybeWorker, Alive, CallFails,
    LeadAt, At, CloseThen, fieldVars, mainVars
<1>16. CASE TellReset
  BY <1>16, McpAssumption DEF Sessions, Leading, McpTypeOK, MaybeWorker, Alive, TellReset,
    JoinEnds, ThreadAfterJoin, LeadAt, Return, Idle, mainVars
<1>17. CASE MainQuits
  BY <1>17, McpAssumption DEF Sessions, Leading, McpTypeOK, MaybeWorker, Alive, MainQuits,
    Signalled, fieldVars, callVars
<1>18. CASE MainCloses
  BY <1>18, McpAssumption DEF Sessions, Leading, McpTypeOK, MaybeWorker, Alive, MainCloses,
    ThreadAfterJoin, callVars
<1>19. ASSUME NEW w \in Workers, SessionStarts(w) PROVE Sessions'
  BY <1>19, McpAssumption DEF Sessions, Leading, McpTypeOK, MaybeWorker, Alive, SessionStarts,
    WorkerGoes, callVars, mainVars
<1>20. ASSUME NEW w \in Workers, StartupFails(w) PROVE Sessions'
  BY <1>20, McpAssumption DEF Sessions, Leading, McpTypeOK, MaybeWorker, Alive, StartupFails,
    WorkerGoes, Withdrawn, callVars, mainVars
<1>21. ASSUME NEW w \in Workers, SessionStops(w) PROVE Sessions'
  BY <1>21, McpAssumption DEF Sessions, Leading, McpTypeOK, MaybeWorker, Alive, SessionStops,
    WorkerGoes, fieldVars, callVars, mainVars
<1>22. ASSUME NEW w \in Workers, SessionBreaks(w) PROVE Sessions'
  BY <1>22, McpAssumption DEF Sessions, Leading, McpTypeOK, MaybeWorker, Alive, SessionBreaks,
    WorkerGoes, fieldVars, callVars, mainVars
<1>23. ASSUME NEW w \in Workers, SessionEnded(w) PROVE Sessions'
  BY <1>23, McpAssumption DEF Sessions, Leading, McpTypeOK, MaybeWorker, Alive, SessionEnded,
    WorkerGoes, Withdrawn, callVars, mainVars
<1>24. ASSUME NEW w \in Workers, Gather(w) PROVE Sessions'
  BY <1>24, McpAssumption DEF Sessions, Leading, McpTypeOK, MaybeWorker, Alive, Gather,
    WorkerGoes, fieldVars, callVars, mainVars
<1>25. ASSUME NEW w \in Workers, WorkerExits(w) PROVE Sessions'
  BY <1>25, McpAssumption DEF Sessions, Leading, McpTypeOK, MaybeWorker, Alive, WorkerExits,
    WorkerGoes, Over, mainVars
<1>26. ASSUME NEW c \in Calls, TaskStarts(c) PROVE Sessions'
  BY <1>26, McpAssumption DEF Sessions, Leading, McpTypeOK, MaybeWorker, Alive, TaskStarts,
    TaskGoes, Over, LoopIs, fieldVars, mainVars
<1>27. ASSUME NEW c \in Calls, TaskSends(c) PROVE Sessions'
  BY <1>27, McpAssumption DEF Sessions, Leading, McpTypeOK, MaybeWorker, Alive, TaskSends,
    TaskGoes, Over, LoopIs, fieldVars, mainVars
<1>28. ASSUME NEW c \in Calls, TaskAnswers(c) PROVE Sessions'
  BY <1>28, McpAssumption DEF Sessions, Leading, McpTypeOK, MaybeWorker, Alive, TaskAnswers,
    TaskGoes, Over, LoopIs, fieldVars, mainVars
<1>29. ASSUME NEW c \in Calls, TaskFails(c) PROVE Sessions'
  BY <1>29, McpAssumption DEF Sessions, Leading, McpTypeOK, MaybeWorker, Alive, TaskFails,
    TaskGoes, Over, LoopIs, fieldVars, mainVars
<1>30. QED
  BY <1>1, <1>2, <1>3, <1>4, <1>5, <1>6, <1>7, <1>8, <1>9, <1>10, <1>11, <1>12, <1>13, <1>14,
    <1>15, <1>16, <1>17, <1>18, <1>19, <1>20, <1>21, <1>22, <1>23, <1>24, <1>25, <1>26, <1>27,
    <1>28, <1>29 DEF McpNext, McpLeadStep, WorkerStep, TaskStep

(* The lead is in the last call issued, if in one.                         *)
LEMMA LeadingKept == ASSUME McpTypeOK /\ Sessions /\ Leading, McpNext PROVE Leading'
<1>1. CASE UseConnect
  BY <1>1, McpAssumption DEF Sessions, Leading, McpTypeOK, MaybeWorker, Alive, UseConnect,
    LeadAt, At, Goto, fieldVars, callVars, mainVars
<1>2. CASE UseTool
  BY <1>2, McpAssumption DEF Sessions, Leading, McpTypeOK, MaybeWorker, Alive, UseTool, LeadAt,
    At, Idle, fieldVars, mainVars
<1>3. CASE CheckConnected
  BY <1>3, McpAssumption DEF Sessions, Leading, McpTypeOK, MaybeWorker, Alive, CheckConnected,
    LeadAt, At, Goto, Idle, Connected, IsConnected, fieldVars, callVars, mainVars
<1>4. CASE ConnectOnce
  BY <1>4, McpAssumption DEF Sessions, Leading, McpTypeOK, MaybeWorker, Alive, ConnectOnce,
    LeadAt, At, Goto, Idle, CloseThen, Connected, IsConnected, MayStart, fieldVars, callVars,
    mainVars
<1>5. CASE StartupSettles
  BY <1>5, McpAssumption DEF Sessions, Leading, McpTypeOK, MaybeWorker, Alive, StartupSettles,
    LeadAt, At, Goto, Idle, CloseThen, Connected, fieldVars, callVars, mainVars
<1>6. CASE StartupTimesOut
  BY <1>6, McpAssumption DEF Sessions, Leading, McpTypeOK, MaybeWorker, Alive, StartupTimesOut,
    LeadAt, At, CloseThen, fieldVars, callVars, mainVars
<1>7. CASE CloseBegin
  BY <1>7, McpAssumption DEF Sessions, Leading, McpTypeOK, MaybeWorker, Alive, CloseBegin,
    LeadAt, At, Signalled, fieldVars, callVars, mainVars
<1>8. CASE CloseAgain
  BY <1>8, McpAssumption DEF Sessions, Leading, McpTypeOK, MaybeWorker, Alive, CloseAgain,
    JoinEnds, ThreadAfterJoin, LeadAt, At, CloseThen, callVars, mainVars
<1>9. CASE Retry
  BY <1>9, McpAssumption DEF Sessions, Leading, McpTypeOK, MaybeWorker, Alive, Retry, JoinEnds,
    ThreadAfterJoin, LeadAt, At, Idle, callVars, mainVars
<1>10. CASE ConnectFails
  BY <1>10, McpAssumption DEF Sessions, Leading, McpTypeOK, MaybeWorker, Alive, ConnectFails,
    JoinEnds, ThreadAfterJoin, LeadAt, At, CloseThen, Return, Idle, mainVars
<1>11. CASE Drop
  BY <1>11, McpAssumption DEF Sessions, Leading, McpTypeOK, MaybeWorker, Alive, Drop, LeadAt,
    Idle, callVars, mainVars
<1>12. CASE PickSession
  BY <1>12, McpAssumption DEF Sessions, Leading, McpTypeOK, MaybeWorker, Alive, PickSession,
    LeadAt, At, Return, Idle, IsConnected, fieldVars, mainVars
<1>13. CASE Submit
  BY <1>13, McpAssumption DEF Sessions, Leading, McpTypeOK, MaybeWorker, Alive, Submit, LeadAt,
    At, Goto, Return, Idle, fieldVars, mainVars
<1>14. CASE CallSucceeds
  BY <1>14, McpAssumption DEF Sessions, Leading, McpTypeOK, MaybeWorker, Alive, CallSucceeds,
    LeadAt, Return, Idle, fieldVars, mainVars
<1>15. CASE CallFails
  BY <1>15, McpAssumption DEF Sessions, Leading, McpTypeOK, MaybeWorker, Alive, CallFails,
    LeadAt, At, CloseThen, fieldVars, mainVars
<1>16. CASE TellReset
  BY <1>16, McpAssumption DEF Sessions, Leading, McpTypeOK, MaybeWorker, Alive, TellReset,
    JoinEnds, ThreadAfterJoin, LeadAt, Return, Idle, mainVars
<1>17. CASE MainQuits
  BY <1>17, McpAssumption DEF Sessions, Leading, McpTypeOK, MaybeWorker, Alive, MainQuits,
    Signalled, fieldVars, callVars
<1>18. CASE MainCloses
  BY <1>18, McpAssumption DEF Sessions, Leading, McpTypeOK, MaybeWorker, Alive, MainCloses,
    ThreadAfterJoin, callVars
<1>19. ASSUME NEW w \in Workers, SessionStarts(w) PROVE Leading'
  BY <1>19, McpAssumption DEF Sessions, Leading, McpTypeOK, MaybeWorker, Alive, SessionStarts,
    WorkerGoes, callVars, mainVars
<1>20. ASSUME NEW w \in Workers, StartupFails(w) PROVE Leading'
  BY <1>20, McpAssumption DEF Sessions, Leading, McpTypeOK, MaybeWorker, Alive, StartupFails,
    WorkerGoes, Withdrawn, callVars, mainVars
<1>21. ASSUME NEW w \in Workers, SessionStops(w) PROVE Leading'
  BY <1>21, McpAssumption DEF Sessions, Leading, McpTypeOK, MaybeWorker, Alive, SessionStops,
    WorkerGoes, fieldVars, callVars, mainVars
<1>22. ASSUME NEW w \in Workers, SessionBreaks(w) PROVE Leading'
  BY <1>22, McpAssumption DEF Sessions, Leading, McpTypeOK, MaybeWorker, Alive, SessionBreaks,
    WorkerGoes, fieldVars, callVars, mainVars
<1>23. ASSUME NEW w \in Workers, SessionEnded(w) PROVE Leading'
  BY <1>23, McpAssumption DEF Sessions, Leading, McpTypeOK, MaybeWorker, Alive, SessionEnded,
    WorkerGoes, Withdrawn, callVars, mainVars
<1>24. ASSUME NEW w \in Workers, Gather(w) PROVE Leading'
  BY <1>24, McpAssumption DEF Sessions, Leading, McpTypeOK, MaybeWorker, Alive, Gather,
    WorkerGoes, fieldVars, callVars, mainVars
<1>25. ASSUME NEW w \in Workers, WorkerExits(w) PROVE Leading'
  BY <1>25, McpAssumption DEF Sessions, Leading, McpTypeOK, MaybeWorker, Alive, WorkerExits,
    WorkerGoes, Over, mainVars
<1>26. ASSUME NEW c \in Calls, TaskStarts(c) PROVE Leading'
  BY <1>26, McpAssumption DEF Sessions, Leading, McpTypeOK, MaybeWorker, Alive, TaskStarts,
    TaskGoes, Over, LoopIs, fieldVars, mainVars
<1>27. ASSUME NEW c \in Calls, TaskSends(c) PROVE Leading'
  BY <1>27, McpAssumption DEF Sessions, Leading, McpTypeOK, MaybeWorker, Alive, TaskSends,
    TaskGoes, Over, LoopIs, fieldVars, mainVars
<1>28. ASSUME NEW c \in Calls, TaskAnswers(c) PROVE Leading'
  BY <1>28, McpAssumption DEF Sessions, Leading, McpTypeOK, MaybeWorker, Alive, TaskAnswers,
    TaskGoes, Over, LoopIs, fieldVars, mainVars
<1>29. ASSUME NEW c \in Calls, TaskFails(c) PROVE Leading'
  BY <1>29, McpAssumption DEF Sessions, Leading, McpTypeOK, MaybeWorker, Alive, TaskFails,
    TaskGoes, Over, LoopIs, fieldVars, mainVars
<1>30. QED
  BY <1>1, <1>2, <1>3, <1>4, <1>5, <1>6, <1>7, <1>8, <1>9, <1>10, <1>11, <1>12, <1>13, <1>14,
    <1>15, <1>16, <1>17, <1>18, <1>19, <1>20, <1>21, <1>22, <1>23, <1>24, <1>25, <1>26, <1>27,
    <1>28, <1>29 DEF McpNext, McpLeadStep, WorkerStep, TaskStep

(* A coroutine goes through its places once.                               *)
LEMMA ProgressKept == ASSUME McpTypeOK /\ Leading /\ Progress, McpNext PROVE Progress'
<1>1. CASE UseConnect
  BY <1>1, McpAssumption DEF Leading, Progress, Calling, McpTypeOK, Calls, UseConnect, LeadAt,
    At, Goto, fieldVars, callVars, mainVars
<1>2. CASE UseTool
  BY <1>2, McpAssumption DEF Leading, Progress, Calling, McpTypeOK, Calls, UseTool, LeadAt, At,
    Idle, fieldVars, mainVars
<1>3. CASE CheckConnected
  BY <1>3, McpAssumption DEF Leading, Progress, Calling, McpTypeOK, Calls, CheckConnected,
    LeadAt, At, Goto, Idle, Connected, IsConnected, fieldVars, callVars, mainVars
<1>4. CASE ConnectOnce
  BY <1>4, McpAssumption DEF Leading, Progress, Calling, McpTypeOK, Calls, ConnectOnce, LeadAt,
    At, Goto, Idle, CloseThen, Connected, IsConnected, MayStart, fieldVars, callVars, mainVars
<1>5. CASE StartupSettles
  BY <1>5, McpAssumption DEF Leading, Progress, Calling, McpTypeOK, Calls, StartupSettles,
    LeadAt, At, Goto, Idle, CloseThen, Connected, fieldVars, callVars, mainVars
<1>6. CASE StartupTimesOut
  BY <1>6, McpAssumption DEF Leading, Progress, Calling, McpTypeOK, Calls, StartupTimesOut,
    LeadAt, At, CloseThen, fieldVars, callVars, mainVars
<1>7. CASE CloseBegin
  BY <1>7, McpAssumption DEF Leading, Progress, Calling, McpTypeOK, Calls, CloseBegin, LeadAt,
    At, Signalled, fieldVars, callVars, mainVars
<1>8. CASE CloseAgain
  BY <1>8, McpAssumption DEF Leading, Progress, Calling, McpTypeOK, Calls, CloseAgain,
    JoinEnds, ThreadAfterJoin, LeadAt, At, CloseThen, callVars, mainVars
<1>9. CASE Retry
  BY <1>9, McpAssumption DEF Leading, Progress, Calling, McpTypeOK, Calls, Retry, JoinEnds,
    ThreadAfterJoin, LeadAt, At, Idle, callVars, mainVars
<1>10. CASE ConnectFails
  BY <1>10, McpAssumption DEF Leading, Progress, Calling, McpTypeOK, Calls, ConnectFails,
    JoinEnds, ThreadAfterJoin, LeadAt, At, CloseThen, Return, Idle, mainVars
<1>11. CASE Drop
  BY <1>11, McpAssumption DEF Leading, Progress, Calling, McpTypeOK, Calls, Drop, LeadAt, Idle,
    callVars, mainVars
<1>12. CASE PickSession
  BY <1>12, McpAssumption DEF Leading, Progress, Calling, McpTypeOK, Calls, PickSession,
    LeadAt, At, Return, Idle, IsConnected, fieldVars, mainVars
<1>13. CASE Submit
  BY <1>13, McpAssumption DEF Leading, Progress, Calling, McpTypeOK, Calls, Submit, LeadAt, At,
    Goto, Return, Idle, fieldVars, mainVars
<1>14. CASE CallSucceeds
  BY <1>14, McpAssumption DEF Leading, Progress, Calling, McpTypeOK, Calls, CallSucceeds,
    LeadAt, Return, Idle, fieldVars, mainVars
<1>15. CASE CallFails
  BY <1>15, McpAssumption DEF Leading, Progress, Calling, McpTypeOK, Calls, CallFails, LeadAt,
    At, CloseThen, fieldVars, mainVars
<1>16. CASE TellReset
  BY <1>16, McpAssumption DEF Leading, Progress, Calling, McpTypeOK, Calls, TellReset,
    JoinEnds, ThreadAfterJoin, LeadAt, Return, Idle, mainVars
<1>17. CASE MainQuits
  BY <1>17, McpAssumption DEF Leading, Progress, Calling, McpTypeOK, Calls, MainQuits,
    Signalled, fieldVars, callVars
<1>18. CASE MainCloses
  BY <1>18, McpAssumption DEF Leading, Progress, Calling, McpTypeOK, Calls, MainCloses,
    ThreadAfterJoin, callVars
<1>19. ASSUME NEW w \in Workers, SessionStarts(w) PROVE Progress'
  BY <1>19, McpAssumption DEF Leading, Progress, Calling, McpTypeOK, Calls, SessionStarts,
    WorkerGoes, callVars, mainVars
<1>20. ASSUME NEW w \in Workers, StartupFails(w) PROVE Progress'
  BY <1>20, McpAssumption DEF Leading, Progress, Calling, McpTypeOK, Calls, StartupFails,
    WorkerGoes, Withdrawn, callVars, mainVars
<1>21. ASSUME NEW w \in Workers, SessionStops(w) PROVE Progress'
  BY <1>21, McpAssumption DEF Leading, Progress, Calling, McpTypeOK, Calls, SessionStops,
    WorkerGoes, fieldVars, callVars, mainVars
<1>22. ASSUME NEW w \in Workers, SessionBreaks(w) PROVE Progress'
  BY <1>22, McpAssumption DEF Leading, Progress, Calling, McpTypeOK, Calls, SessionBreaks,
    WorkerGoes, fieldVars, callVars, mainVars
<1>23. ASSUME NEW w \in Workers, SessionEnded(w) PROVE Progress'
  BY <1>23, McpAssumption DEF Leading, Progress, Calling, McpTypeOK, Calls, SessionEnded,
    WorkerGoes, Withdrawn, callVars, mainVars
<1>24. ASSUME NEW w \in Workers, Gather(w) PROVE Progress'
  BY <1>24, McpAssumption DEF Leading, Progress, Calling, McpTypeOK, Calls, Gather, WorkerGoes,
    fieldVars, callVars, mainVars
<1>25. ASSUME NEW w \in Workers, WorkerExits(w) PROVE Progress'
  BY <1>25, McpAssumption DEF Leading, Progress, Calling, McpTypeOK, Calls, WorkerExits,
    WorkerGoes, Over, mainVars
<1>26. ASSUME NEW c \in Calls, TaskStarts(c) PROVE Progress'
  BY <1>26, McpAssumption DEF Leading, Progress, Calling, McpTypeOK, Calls, TaskStarts,
    TaskGoes, Over, LoopIs, fieldVars, mainVars
<1>27. ASSUME NEW c \in Calls, TaskSends(c) PROVE Progress'
  BY <1>27, McpAssumption DEF Leading, Progress, Calling, McpTypeOK, Calls, TaskSends,
    TaskGoes, Over, LoopIs, fieldVars, mainVars
<1>28. ASSUME NEW c \in Calls, TaskAnswers(c) PROVE Progress'
  BY <1>28, McpAssumption DEF Leading, Progress, Calling, McpTypeOK, Calls, TaskAnswers,
    TaskGoes, Over, LoopIs, fieldVars, mainVars
<1>29. ASSUME NEW c \in Calls, TaskFails(c) PROVE Progress'
  <2>1. CASE task[c].at = "running"
    BY <1>29, <2>1, McpAssumption DEF Leading, Progress, Calling, McpTypeOK, Calls, TaskFails,
      TaskGoes, Over, LoopIs, fieldVars, mainVars
  <2>2. CASE task[c].at = "waiting"
    BY <1>29, <2>2, McpAssumption DEF Leading, Progress, Calling, McpTypeOK, Calls, TaskFails,
      TaskGoes, Over, LoopIs, fieldVars, mainVars
  <2>3. QED
    BY <1>29, <2>1, <2>2 DEF TaskFails, TaskGoes
<1>30. QED
  BY <1>1, <1>2, <1>3, <1>4, <1>5, <1>6, <1>7, <1>8, <1>9, <1>10, <1>11, <1>12, <1>13, <1>14,
    <1>15, <1>16, <1>17, <1>18, <1>19, <1>20, <1>21, <1>22, <1>23, <1>24, <1>25, <1>26, <1>27,
    <1>28, <1>29 DEF McpNext, McpLeadStep, WorkerStep, TaskStep

(* A new session is only offered when no coroutine of an old one is left.  *)
LEMMA LeftoversKept ==
    ASSUME McpTypeOK /\ Sessions /\ Leading /\ Progress /\ Leftovers, McpNext
    PROVE  Leftovers'
<1>1. CASE UseConnect
  BY <1>1, McpAssumption DEF Sessions, Leading, Progress, Leftovers, Live, Calling, McpTypeOK,
    MaybeWorker, Calls, Alive, UseConnect, LeadAt, At, Goto, fieldVars, callVars, mainVars
<1>2. CASE UseTool
  BY <1>2, McpAssumption DEF Sessions, Leading, Progress, Leftovers, Live, Calling, McpTypeOK,
    MaybeWorker, Calls, Alive, UseTool, LeadAt, At, Idle, fieldVars, mainVars
<1>3. CASE CheckConnected
  BY <1>3, McpAssumption DEF Sessions, Leading, Progress, Leftovers, Live, Calling, McpTypeOK,
    MaybeWorker, Calls, Alive, CheckConnected, LeadAt, At, Goto, Idle, Connected, IsConnected,
    fieldVars, callVars, mainVars
<1>4. CASE ConnectOnce
  BY <1>4, McpAssumption DEF Sessions, Leading, Progress, Leftovers, Live, Calling, McpTypeOK,
    MaybeWorker, Calls, Alive, ConnectOnce, LeadAt, At, Goto, Idle, CloseThen, Connected,
    IsConnected, MayStart, fieldVars, callVars, mainVars
<1>5. CASE StartupSettles
  BY <1>5, McpAssumption DEF Sessions, Leading, Progress, Leftovers, Live, Calling, McpTypeOK,
    MaybeWorker, Calls, Alive, StartupSettles, LeadAt, At, Goto, Idle, CloseThen, Connected,
    fieldVars, callVars, mainVars
<1>6. CASE StartupTimesOut
  BY <1>6, McpAssumption DEF Sessions, Leading, Progress, Leftovers, Live, Calling, McpTypeOK,
    MaybeWorker, Calls, Alive, StartupTimesOut, LeadAt, At, CloseThen, fieldVars, callVars,
    mainVars
<1>7. CASE CloseBegin
  BY <1>7, McpAssumption DEF Sessions, Leading, Progress, Leftovers, Live, Calling, McpTypeOK,
    MaybeWorker, Calls, Alive, CloseBegin, LeadAt, At, Signalled, fieldVars, callVars, mainVars
<1>8. CASE CloseAgain
  BY <1>8, McpAssumption DEF Sessions, Leading, Progress, Leftovers, Live, Calling, McpTypeOK,
    MaybeWorker, Calls, Alive, CloseAgain, JoinEnds, ThreadAfterJoin, LeadAt, At, CloseThen,
    callVars, mainVars
<1>9. CASE Retry
  BY <1>9, McpAssumption DEF Sessions, Leading, Progress, Leftovers, Live, Calling, McpTypeOK,
    MaybeWorker, Calls, Alive, Retry, JoinEnds, ThreadAfterJoin, LeadAt, At, Idle, callVars,
    mainVars
<1>10. CASE ConnectFails
  BY <1>10, McpAssumption DEF Sessions, Leading, Progress, Leftovers, Live, Calling, McpTypeOK,
    MaybeWorker, Calls, Alive, ConnectFails, JoinEnds, ThreadAfterJoin, LeadAt, At, CloseThen,
    Return, Idle, mainVars
<1>11. CASE Drop
  BY <1>11, McpAssumption DEF Sessions, Leading, Progress, Leftovers, Live, Calling, McpTypeOK,
    MaybeWorker, Calls, Alive, Drop, LeadAt, Idle, callVars, mainVars
<1>12. CASE PickSession
  BY <1>12, McpAssumption DEF Sessions, Leading, Progress, Leftovers, Live, Calling, McpTypeOK,
    MaybeWorker, Calls, Alive, PickSession, LeadAt, At, Return, Idle, IsConnected, fieldVars,
    mainVars
<1>13. CASE Submit
  <2>1. \A d \in Calls : ~Live(d)
    BY <1>13 DEF Submit, LeadAt, Leading, Leftovers, Calling
  <2>2. CASE ~Alive(lead.on)
    BY <1>13, <2>1, <2>2 DEF Submit, Leftovers, Live
  <2>3. CASE Alive(lead.on)
    <3>1. lead.call \in Calls /\ lead.call = issued
      BY <1>13 DEF Submit, LeadAt, Leading, McpTypeOK, Calls
    <3>2. task' = [task EXCEPT ![lead.call] = [at |-> "queued", on |-> lead.on]]
      BY <1>13, <2>3 DEF Submit
    <3>3. \A d \in Calls : d # lead.call => task'[d] = task[d]
      BY <3>1, <3>2 DEF McpTypeOK
    <3>4. \A d \in Calls : Live(d)' => d = lead.call
      BY <2>1, <3>3 DEF Live
    <3>5. \A d \in Calls : lead.call < d => task'[d].at = "none"
      <4>1. \A d \in Calls : task[d].at # "none" => d <= issued
        BY Zenon DEF Progress
      <4>2. lead.call \in Nat /\ issued \in Nat /\ Calls \subseteq Nat
        BY <3>1, McpAssumption DEF Calls
      <4>3. QED
        BY <3>1, <3>3, <4>1, <4>2
    <3>6. /\ task'[lead.call].on = lead.on /\ lead.on \in Workers /\ lead.on \notin orphans'
          /\ worker'[lead.on] \notin {"dead", "starting"}
      BY <1>13, <2>3, <3>1, <3>2 DEF Submit, LeadAt, Leading, McpTypeOK, Alive
    <3>7. lead'.call = lead.call /\ lead'.at = "reply"
      BY <1>13, <2>3 DEF Submit, At, Goto
    <3>8. QED
      BY <3>4, <3>5, <3>6, <3>7 DEF Leftovers, Calling, Alive
  <2>4. QED
    BY <2>2, <2>3
<1>14. CASE CallSucceeds
  BY <1>14, McpAssumption DEF Sessions, Leading, Progress, Leftovers, Live, Calling, McpTypeOK,
    MaybeWorker, Calls, Alive, CallSucceeds, LeadAt, Return, Idle, fieldVars, mainVars
<1>15. CASE CallFails
  BY <1>15, McpAssumption DEF Sessions, Leading, Progress, Leftovers, Live, Calling, McpTypeOK,
    MaybeWorker, Calls, Alive, CallFails, LeadAt, At, CloseThen, fieldVars, mainVars
<1>16. CASE TellReset
  BY <1>16, McpAssumption DEF Sessions, Leading, Progress, Leftovers, Live, Calling, McpTypeOK,
    MaybeWorker, Calls, Alive, TellReset, JoinEnds, ThreadAfterJoin, LeadAt, Return, Idle,
    mainVars
<1>17. CASE MainQuits
  BY <1>17, McpAssumption DEF Sessions, Leading, Progress, Leftovers, Live, Calling, McpTypeOK,
    MaybeWorker, Calls, Alive, MainQuits, Signalled, fieldVars, callVars
<1>18. CASE MainCloses
  BY <1>18, McpAssumption DEF Sessions, Leading, Progress, Leftovers, Live, Calling, McpTypeOK,
    MaybeWorker, Calls, Alive, MainCloses, ThreadAfterJoin, callVars
<1>19. ASSUME NEW w \in Workers, SessionStarts(w) PROVE Leftovers'
  BY <1>19, McpAssumption DEF Sessions, Leading, Progress, Leftovers, Live, Calling, McpTypeOK,
    MaybeWorker, Calls, Alive, SessionStarts, WorkerGoes, callVars, mainVars
<1>20. ASSUME NEW w \in Workers, StartupFails(w) PROVE Leftovers'
  BY <1>20, McpAssumption DEF Sessions, Leading, Progress, Leftovers, Live, Calling, McpTypeOK,
    MaybeWorker, Calls, Alive, StartupFails, WorkerGoes, Withdrawn, callVars, mainVars
<1>21. ASSUME NEW w \in Workers, SessionStops(w) PROVE Leftovers'
  BY <1>21, McpAssumption DEF Sessions, Leading, Progress, Leftovers, Live, Calling, McpTypeOK,
    MaybeWorker, Calls, Alive, SessionStops, WorkerGoes, fieldVars, callVars, mainVars
<1>22. ASSUME NEW w \in Workers, SessionBreaks(w) PROVE Leftovers'
  BY <1>22, McpAssumption DEF Sessions, Leading, Progress, Leftovers, Live, Calling, McpTypeOK,
    MaybeWorker, Calls, Alive, SessionBreaks, WorkerGoes, fieldVars, callVars, mainVars
<1>23. ASSUME NEW w \in Workers, SessionEnded(w) PROVE Leftovers'
  BY <1>23, McpAssumption DEF Sessions, Leading, Progress, Leftovers, Live, Calling, McpTypeOK,
    MaybeWorker, Calls, Alive, SessionEnded, WorkerGoes, Withdrawn, callVars, mainVars
<1>24. ASSUME NEW w \in Workers, Gather(w) PROVE Leftovers'
  BY <1>24, McpAssumption DEF Sessions, Leading, Progress, Leftovers, Live, Calling, McpTypeOK,
    MaybeWorker, Calls, Alive, Gather, WorkerGoes, fieldVars, callVars, mainVars
<1>25. ASSUME NEW w \in Workers, WorkerExits(w) PROVE Leftovers'
  BY <1>25, McpAssumption DEF Sessions, Leading, Progress, Leftovers, Live, Calling, McpTypeOK,
    MaybeWorker, Calls, Alive, WorkerExits, WorkerGoes, Over, mainVars
<1>26. ASSUME NEW c \in Calls, TaskStarts(c) PROVE Leftovers'
  BY <1>26, McpAssumption DEF Sessions, Leading, Progress, Leftovers, Live, Calling, McpTypeOK,
    MaybeWorker, Calls, Alive, TaskStarts, TaskGoes, Over, LoopIs, fieldVars, mainVars
<1>27. ASSUME NEW c \in Calls, TaskSends(c) PROVE Leftovers'
  BY <1>27, McpAssumption DEF Sessions, Leading, Progress, Leftovers, Live, Calling, McpTypeOK,
    MaybeWorker, Calls, Alive, TaskSends, TaskGoes, Over, LoopIs, fieldVars, mainVars
<1>28. ASSUME NEW c \in Calls, TaskAnswers(c) PROVE Leftovers'
  BY <1>28, McpAssumption DEF Sessions, Leading, Progress, Leftovers, Live, Calling, McpTypeOK,
    MaybeWorker, Calls, Alive, TaskAnswers, TaskGoes, Over, LoopIs, fieldVars, mainVars
<1>29. ASSUME NEW c \in Calls, TaskFails(c) PROVE Leftovers'
  <2>1. task' = [task EXCEPT ![c] = Over] /\ UNCHANGED <<worker, orphans, connected, lead>>
    BY <1>29 DEF TaskFails, TaskGoes, fieldVars
  <2>2. task[c].at # "none"
    BY <1>29 DEF TaskFails, TaskGoes
  <2>3. \A d \in Calls : Live(d)' => Live(d) /\ task'[d] = task[d]
    BY <2>1 DEF Live, Over, McpTypeOK
  <2>4. \A d \in Calls : task[d].at = "none" => task'[d].at = "none"
    BY <2>1, <2>2 DEF McpTypeOK
  <2>5. QED
    BY <2>1, <2>3, <2>4 DEF Leftovers, Calling, Alive
<1>30. QED
  BY <1>1, <1>2, <1>3, <1>4, <1>5, <1>6, <1>7, <1>8, <1>9, <1>10, <1>11, <1>12, <1>13, <1>14,
    <1>15, <1>16, <1>17, <1>18, <1>19, <1>20, <1>21, <1>22, <1>23, <1>24, <1>25, <1>26, <1>27,
    <1>28, <1>29 DEF McpNext, McpLeadStep, WorkerStep, TaskStep

(* Nothing moves in a step that changes no variable.                       *)
LEMMA InvKept == ASSUME McpInv, [McpNext]_mcpVars PROVE McpInv'
<1>1. CASE McpNext
  BY <1>1, TypeKept, SessionsKept, LeadingKept, ProgressKept, LeftoversKept DEF McpInv
<1>2. CASE UNCHANGED mcpVars
  BY <1>2 DEF McpInv, McpTypeOK, Sessions, Leading, Progress, Leftovers, Live, Calling, Alive,
    mcpVars, fieldVars, callVars, mainVars
<1>3. QED
  BY <1>1, <1>2

LEMMA InvStarts == McpInit => McpInv
<1> SUFFICES ASSUME McpInit PROVE McpInv
  OBVIOUS
<1>1. McpTypeOK
  <2>1. Flags
    BY Zenon DEF McpInit, Flags
  <2>2. Data /\ lead \in LeadRecords
    BY McpAssumption DEF McpInit, Idle, Data, LeadRecords, WorkerStates, LeadStates, AfterClose,
      TaskStates, MaybeWorker, Calls
  <2>3. QED
    BY <2>1, <2>2 DEF McpTypeOK, Flags, Data, LeadRecords
<1>2. Sessions /\ Leading /\ Progress /\ Leftovers
  BY McpAssumption DEF McpInit, Idle, Sessions, Leading, Progress, Leftovers, Live, Calling, Alive,
    Calls
<1>3. QED
  BY <1>1, <1>2 DEF McpInv

(* The inductive invariant holds of every state the client reaches.        *)
THEOREM InvHolds == McpSpec => []McpInv
<1>1. McpInit => McpInv
  BY InvStarts
<1>2. McpInv /\ [McpNext]_mcpVars => McpInv'
  BY InvKept
<1>3. QED
  BY <1>1, <1>2, PTL DEF McpSpec

(* The fields, the coroutines and the threads keep their types.            *)
THEOREM TypeCorrect == McpSpec => []McpTypeOK
<1>1. McpInv => McpTypeOK
  BY DEF McpInv
<1>2. QED
  BY <1>1, InvHolds, PTL

(* However attempts, limits, failures and the closing main thread          *)
(* interleave, no second session of the client ever lives beside a first.  *)
THEOREM SessionsAreSingle == McpSpec => []OneSession
<1>1. McpInv => OneSession
  BY DEF McpInv, Sessions, OneSession
<1>2. QED
  BY <1>1, InvHolds, PTL

(* What was refused, or raised, does not reach the server.                 *)
THEOREM RefusalsAreSafe == McpSpec => []RefusedIsUnsent
<1>1. McpInv => RefusedIsUnsent
  BY DEF McpInv, Progress, RefusedIsUnsent
<1>2. QED
  BY <1>1, InvHolds, PTL

(* Only a coroutine sends, and none of an earlier call is left when a      *)
(* later one exists.                                                       *)
LEMMA Sending ==
    ASSUME [McpNext]_mcpVars
    PROVE  \/ sent' = sent
           \/ \E c \in Calls : task[c].at = "running" /\ sent' = [sent EXCEPT ![c] = @ + 1]
<1>1. UseConnect => sent' = sent
  BY DEF UseConnect, callVars
<1>2. UseTool => sent' = sent
  BY DEF UseTool, callVars
<1>3. CheckConnected => sent' = sent
  BY DEF CheckConnected, callVars
<1>4. ConnectOnce => sent' = sent
  BY DEF ConnectOnce, callVars
<1>5. StartupSettles => sent' = sent
  BY DEF StartupSettles, callVars
<1>6. StartupTimesOut => sent' = sent
  BY DEF StartupTimesOut, callVars
<1>7. CloseBegin => sent' = sent
  BY DEF CloseBegin, callVars
<1>8. CloseAgain => sent' = sent
  BY DEF CloseAgain, callVars, JoinEnds
<1>9. Retry => sent' = sent
  BY DEF Retry, callVars, JoinEnds
<1>10. ConnectFails => sent' = sent
  BY DEF ConnectFails, callVars, JoinEnds
<1>11. Drop => sent' = sent
  BY DEF Drop, callVars
<1>12. PickSession => sent' = sent
  BY DEF PickSession, callVars
<1>13. Submit => sent' = sent
  BY DEF Submit, callVars
<1>14. CallSucceeds => sent' = sent
  BY DEF CallSucceeds, callVars
<1>15. CallFails => sent' = sent
  BY DEF CallFails, callVars
<1>16. TellReset => sent' = sent
  BY DEF TellReset, callVars, JoinEnds
<1>17. MainQuits => sent' = sent
  BY DEF MainQuits, callVars
<1>18. MainCloses => sent' = sent
  BY DEF MainCloses, callVars
<1>19. ASSUME NEW w \in Workers, SessionStarts(w) PROVE sent' = sent
  BY <1>19 DEF SessionStarts, callVars
<1>20. ASSUME NEW w \in Workers, StartupFails(w) PROVE sent' = sent
  BY <1>20 DEF StartupFails, callVars
<1>21. ASSUME NEW w \in Workers, SessionStops(w) PROVE sent' = sent
  BY <1>21 DEF SessionStops, callVars
<1>22. ASSUME NEW w \in Workers, SessionBreaks(w) PROVE sent' = sent
  BY <1>22 DEF SessionBreaks, callVars
<1>23. ASSUME NEW w \in Workers, SessionEnded(w) PROVE sent' = sent
  BY <1>23 DEF SessionEnded, callVars
<1>24. ASSUME NEW w \in Workers, Gather(w) PROVE sent' = sent
  BY <1>24 DEF Gather, callVars
<1>25. ASSUME NEW w \in Workers, WorkerExits(w) PROVE sent' = sent
  BY <1>25 DEF WorkerExits, callVars
<1>26. ASSUME NEW c \in Calls, TaskStarts(c) PROVE sent' = sent
  BY <1>26 DEF TaskStarts, callVars
<1>27. ASSUME NEW c \in Calls, TaskSends(c)
      PROVE  task[c].at = "running" /\ sent' = [sent EXCEPT ![c] = @ + 1]
  BY <1>27 DEF TaskSends, TaskGoes
<1>28. ASSUME NEW c \in Calls, TaskAnswers(c) PROVE sent' = sent
  BY <1>28 DEF TaskAnswers, callVars
<1>29. ASSUME NEW c \in Calls, TaskFails(c) PROVE sent' = sent
  BY <1>29 DEF TaskFails, callVars
<1>30. UNCHANGED mcpVars => sent' = sent
  BY DEF mcpVars, callVars
<1>31. QED
  BY <1>1, <1>2, <1>3, <1>4, <1>5, <1>6, <1>7, <1>8, <1>9, <1>10, <1>11, <1>12, <1>13, <1>14,
    <1>15, <1>16, <1>17, <1>18, <1>19, <1>20, <1>21, <1>22, <1>23, <1>24, <1>25, <1>26, <1>27,
    <1>28, <1>29, <1>30 DEF McpNext, McpLeadStep, WorkerStep, TaskStep

(* Calls take effect in the order they were issued, also those given up.   *)
THEOREM EffectsAreOrdered == McpSpec => EffectsInOrder
<1>1. ASSUME McpInv, [McpNext]_mcpVars, NEW c \in Calls, NEW d \in Calls, c < d, sent[d] > 0
      PROVE  sent'[c] = sent[c]
  <2>1. CASE sent' = sent
    BY <2>1
  <2>2. ASSUME NEW b \in Calls, task[b].at = "running", sent' = [sent EXCEPT ![b] = @ + 1]
        PROVE  sent'[c] = sent[c]
    <3>1. task[d].at # "none"
      BY <1>1 DEF McpInv, Progress
    <3>2. ~Live(c)
      BY <1>1, <3>1 DEF McpInv, Leftovers
    <3>3. b # c
      BY <2>2, <3>2 DEF Live
    <3>4. QED
      BY <1>1, <2>2, <3>3 DEF McpInv, McpTypeOK
  <2>3. QED
    BY <1>1, <2>1, <2>2, Sending
<1>2. McpInv /\ [McpNext]_mcpVars
         => [\A c, d \in Calls : c < d /\ sent[d] > 0 => sent'[c] = sent[c]]_mcpVars
  BY <1>1
<1>3. QED
  BY <1>2, InvHolds, PTL DEF McpSpec, EffectsInOrder

(* What the model is told of a call, as the outcome of the abstract call.  *)
Outcome == [c \in Calls |-> CASE told[c] = "result" -> "ok"
                             [] told[c] = "reset" -> "lost"
                             [] OTHER -> "open"]
Begun == {c \in Calls : task[c].at # "none"}
Open == {"none", "refused", "raised"}

(* A step that the abstract calls do not see.                              *)
Unseen ==
    /\ sent' = sent
    /\ \A c \in Calls : task'[c].at = "none" <=> task[c].at = "none"
    /\ \A c \in Calls : told'[c] = told[c] \/ (told[c] \in Open /\ told'[c] \in Open)

Untold == \A c \in Calls : told'[c] = told[c]

LEMMA Unseeing == ASSUME Unseen PROVE UNCHANGED <<Begun, sent, Outcome>>
<1>1. Begun' = Begun
  BY DEF Unseen, Begun
<1>2. Outcome' = Outcome
  BY DEF Unseen, Outcome, Open
<1>3. QED
  BY <1>1, <1>2 DEF Unseen

LEMMA UnseenSteps ==
    ASSUME McpInv, [McpNext]_mcpVars
    PROVE  Unseen \/ Submit \/ CallSucceeds \/ TellReset \/ \E c \in Calls : TaskSends(c)
<1>1. CASE UseConnect
  BY <1>1, McpAssumption DEF Unseen, UseConnect, callVars
<1>2. CASE UseTool
  BY <1>2, McpAssumption DEF Unseen, UseTool, callVars
<1>3. CASE CheckConnected
  BY <1>3, McpAssumption DEF Unseen, CheckConnected, callVars
<1>4. CASE ConnectOnce
  BY <1>4, McpAssumption DEF Unseen, ConnectOnce, callVars
<1>5. CASE StartupSettles
  BY <1>5, McpAssumption DEF Unseen, StartupSettles, callVars
<1>6. CASE StartupTimesOut
  BY <1>6, McpAssumption DEF Unseen, StartupTimesOut, callVars
<1>7. CASE CloseBegin
  BY <1>7, McpAssumption DEF Unseen, CloseBegin, callVars
<1>8. CASE CloseAgain
  BY <1>8, McpAssumption DEF Unseen, CloseAgain, callVars, JoinEnds
<1>9. CASE Retry
  BY <1>9, McpAssumption DEF Unseen, Retry, callVars, JoinEnds
<1>10. CASE ConnectFails
  BY <1>10, McpAssumption DEF Unseen, ConnectFails, JoinEnds, Return, Open, McpInv, McpTypeOK,
    Leading, Progress, Calls, LeadAt
<1>11. CASE Drop
  BY <1>11, McpAssumption DEF Unseen, Drop, callVars
<1>12. CASE PickSession
  BY <1>12, McpAssumption DEF Unseen, PickSession, Return, Open, McpInv, McpTypeOK, Leading,
    Progress, Calls, LeadAt
<1>13. CASE CallFails
  BY <1>13, McpAssumption DEF Unseen, CallFails, callVars
<1>14. CASE MainQuits
  BY <1>14, McpAssumption DEF Unseen, MainQuits, callVars
<1>15. CASE MainCloses
  BY <1>15, McpAssumption DEF Unseen, MainCloses, callVars
<1>16. ASSUME NEW w \in Workers, SessionStarts(w) PROVE Unseen
  BY <1>16, McpAssumption DEF Unseen, SessionStarts, callVars
<1>17. ASSUME NEW w \in Workers, StartupFails(w) PROVE Unseen
  BY <1>17, McpAssumption DEF Unseen, StartupFails, callVars
<1>18. ASSUME NEW w \in Workers, SessionStops(w) PROVE Unseen
  BY <1>18, McpAssumption DEF Unseen, SessionStops, callVars
<1>19. ASSUME NEW w \in Workers, SessionBreaks(w) PROVE Unseen
  BY <1>19, McpAssumption DEF Unseen, SessionBreaks, callVars
<1>20. ASSUME NEW w \in Workers, SessionEnded(w) PROVE Unseen
  BY <1>20, McpAssumption DEF Unseen, SessionEnded, callVars
<1>21. ASSUME NEW w \in Workers, Gather(w) PROVE Unseen
  BY <1>21, McpAssumption DEF Unseen, Gather, callVars
<1>22. ASSUME NEW w \in Workers, WorkerExits(w) PROVE Unseen
  BY <1>22, McpAssumption DEF Unseen, WorkerExits, McpInv, McpTypeOK, Over, Progress
<1>23. ASSUME NEW c \in Calls, TaskStarts(c) PROVE Unseen
  BY <1>23, McpAssumption DEF Unseen, TaskStarts, TaskGoes, McpInv, McpTypeOK, Over
<1>24. ASSUME NEW c \in Calls, TaskAnswers(c) PROVE Unseen
  BY <1>24, McpAssumption DEF Unseen, TaskAnswers, TaskGoes, McpInv, McpTypeOK, Over
<1>25. ASSUME NEW c \in Calls, TaskFails(c) PROVE Unseen
  BY <1>25, McpAssumption DEF Unseen, TaskFails, TaskGoes, McpInv, McpTypeOK, Over
<1>26. CASE UNCHANGED mcpVars
  BY <1>26 DEF Unseen, mcpVars, callVars
<1>27. QED
  BY <1>1, <1>2, <1>3, <1>4, <1>5, <1>6, <1>7, <1>8, <1>9, <1>10, <1>11, <1>12, <1>13, <1>14,
    <1>15, <1>16, <1>17, <1>18, <1>19, <1>20, <1>21, <1>22, <1>23, <1>24, <1>25, <1>26 DEF
    McpNext, McpLeadStep, WorkerStep, TaskStep

(* The client implements the abstract calls: submitting a coroutine begins *)
(* the call, its request takes effect, and what the model is told settles  *)
(* it.                                                                     *)
THEOREM ClientImplementsCalls == McpSpec => NeverReplayed
<1>1. McpInit => Effects!Init
  BY DEF McpInit, Effects!Init
<1>2. ASSUME McpInv, [McpNext]_mcpVars PROVE [Effects!Next]_(Effects!vars)
  <2>0. /\ Effects!vars = <<Begun, sent, Outcome>>
        /\ DOMAIN sent = Calls /\ DOMAIN told = Calls /\ DOMAIN task = Calls
    BY <1>2 DEF Effects!vars, Begun, Outcome, McpInv, McpTypeOK
  <2>1. CASE Unseen
    BY <2>1, Unseeing DEF Effects!vars, Begun, Outcome
  <2>2. CASE Submit
    <3>1. lead.call \in Calls /\ told[lead.call] = "none" /\ task[lead.call].at = "none"
      BY <1>2, <2>2, McpAssumption
         DEF Submit, LeadAt, McpInv, McpTypeOK, Leading, Progress, Calling, Calls
    <3>2. CASE Alive(lead.on)
      <4>1. task' = [task EXCEPT ![lead.call] = [at |-> "queued", on |-> lead.on]]
            /\ UNCHANGED <<sent, told>>
        BY <2>2, <3>2 DEF Submit
      <4>2. Begun' = Begun \cup {lead.call} /\ lead.call \notin Begun
        BY <2>0, <3>1, <4>1 DEF Begun
      <4>3. Outcome' = Outcome /\ Outcome[lead.call] = "open"
        BY <3>1, <4>1 DEF Outcome
      <4>4. PICK c \in Calls : c = lead.call
        BY <3>1
      <4>5. Effects!Begin(c)
        BY <4>1, <4>2, <4>3, <4>4 DEF Effects!Begin, Begun, Outcome
      <4>6. QED
        BY <4>5 DEF Effects!Next
    <3>3. CASE ~Alive(lead.on)
      <4>1. task' = task /\ sent' = sent /\ told' = [told EXCEPT ![lead.call] = "raised"]
        BY <2>2, <3>3 DEF Submit, Return
      <4>2. Unseen
        BY <2>0, <3>1, <4>1 DEF Unseen, Open
      <4>3. QED
        BY <4>2, Unseeing DEF Effects!vars, Begun, Outcome
    <3>4. QED
      BY <3>2, <3>3
  <2>3. CASE CallSucceeds
    <3>1. lead.call \in Calls /\ told[lead.call] = "none" /\ sent[lead.call] = 1
      BY <1>2, <2>3, McpAssumption
         DEF CallSucceeds, LeadAt, McpInv, McpTypeOK, Leading, Progress, Calls
    <3>2. told' = [told EXCEPT ![lead.call] = "result"] /\ UNCHANGED <<task, sent>>
      BY <2>3 DEF CallSucceeds, Return
    <3>3. Begun' = Begun
      BY <3>2 DEF Begun
    <3>4. Outcome' = [Outcome EXCEPT ![lead.call] = "ok"] /\ Outcome[lead.call] = "open"
      BY <2>0, <3>1, <3>2 DEF Outcome
    <3>5. PICK c \in Calls : c = lead.call
      BY <3>1
    <3>6. Effects!Succeed(c)
      BY <3>1, <3>2, <3>3, <3>4, <3>5 DEF Effects!Succeed, Begun, Outcome
    <3>7. QED
      BY <3>6 DEF Effects!Next
  <2>4. CASE TellReset
    <3>1. lead.call \in Calls /\ told[lead.call] = "none" /\ task[lead.call].at # "none"
      BY <1>2, <2>4, McpAssumption
         DEF TellReset, JoinEnds, McpInv, McpTypeOK, Leading, Progress, Calling, Calls
    <3>2. told' = [told EXCEPT ![lead.call] = "reset"] /\ UNCHANGED <<task, sent>>
      BY <2>4 DEF TellReset, Return
    <3>3. Begun' = Begun /\ lead.call \in Begun
      BY <3>1, <3>2 DEF Begun
    <3>4. /\ Outcome' = [c \in Calls |-> IF c \in {lead.call} THEN "lost" ELSE Outcome[c]]
          /\ Outcome[lead.call] = "open"
      BY <2>0, <3>1, <3>2 DEF Outcome
    <3>5. PICK c \in Calls : c = lead.call
      BY <3>1
    <3>6. Effects!Lose({c})
      BY <3>2, <3>3, <3>4, <3>5 DEF Effects!Lose, Begun, Outcome
    <3>7. QED
      BY <3>6 DEF Effects!Next
  <2>5. ASSUME NEW c \in Calls, TaskSends(c) PROVE Effects!Next
    <3>1. task[c].at = "running" /\ task' = [task EXCEPT ![c] = [@ EXCEPT !.at = "waiting"]]
          /\ sent' = [sent EXCEPT ![c] = @ + 1] /\ told' = told
      BY <2>5 DEF TaskSends, TaskGoes
    <3>2. sent[c] = 0 /\ sent' = [sent EXCEPT ![c] = 1]
      <4>1. sent[c] = 0
        BY <1>2, <3>1 DEF McpInv, Progress
      <4>2. QED
        BY <3>1, <4>1
    <3>3. Begun' = Begun /\ c \in Begun
      <4>1. \A d \in Calls : task'[d].at = "none" <=> task[d].at = "none"
        BY <1>2, <3>1 DEF McpInv, McpTypeOK
      <4>2. QED
        BY <3>1, <4>1 DEF Begun
    <3>4. Outcome' = Outcome
      BY <3>1 DEF Outcome
    <3>5. Effects!TakeEffect(c)
      BY <3>2, <3>3, <3>4 DEF Effects!TakeEffect, Begun, Outcome
    <3>6. QED
      BY <3>5 DEF Effects!Next
  <2>6. QED
    BY <1>2, UnseenSteps, <2>1, <2>2, <2>3, <2>4, <2>5
<1>3. QED
  BY <1>1, <1>2, InvHolds, PTL DEF McpSpec, NeverReplayed, Effects!Spec
==============================================================================
