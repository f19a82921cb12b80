-------------------------- MODULE LeadTurnsProofs --------------------------
(***************************************************************************)
(* Proofs about the lead's conversation, for any numbers of asks, and any  *)
(* bounds on turns, compactions and faults.                                *)
(***************************************************************************)
EXTENDS LeadTurns, TLAPS

(* What AsksOf and the types need to know of sequences of messages.        *)
LEMMA MessagesAreTyped ==
    /\ \A asks \in SUBSET Asks : Ask(asks) \in Messages /\ Summary(asks) \in Messages
    /\ Note \in Messages
    /\ Failure \in Messages
    /\ \A kind \in {"text", "call", "results"}, n, t \in Nat : Message(kind, n, {}, t) \in Messages
  BY DEF Ask, Summary, Note, Failure, Message, Messages, Kinds

LEMMA Appending ==
    ASSUME NEW h \in Seq(Messages), NEW m \in Messages
    PROVE  /\ Append(h, m) \in Seq(Messages)
           /\ AsksOf(Append(h, m)) = AsksOf(h) \cup m.asks
<1>1. Append(h, m) \in Seq(Messages)
  OBVIOUS
<1>2. /\ DOMAIN Append(h, m) = DOMAIN h \cup {Len(h) + 1}
      /\ \A i \in DOMAIN h : Append(h, m)[i] = h[i]
      /\ Append(h, m)[Len(h) + 1] = m
  OBVIOUS
<1>3. AsksOf(Append(h, m)) = AsksOf(h) \cup m.asks
  BY <1>2 DEF AsksOf
<1>4. QED
  BY <1>1, <1>3

LEMMA Joining ==
    ASSUME NEW g \in Seq(Messages), NEW h \in Seq(Messages)
    PROVE  /\ g \o h \in Seq(Messages)
           /\ AsksOf(g \o h) = AsksOf(g) \cup AsksOf(h)
<1>1. /\ g \o h \in Seq(Messages)
      /\ DOMAIN (g \o h) = 1..(Len(g) + Len(h))
      /\ \A i \in 1..Len(g) : (g \o h)[i] = g[i]
      /\ \A i \in 1..Len(h) : (g \o h)[Len(g) + i] = h[i]
  OBVIOUS
<1>2. DOMAIN g = 1..Len(g) /\ DOMAIN h = 1..Len(h) /\ Len(g) \in Nat /\ Len(h) \in Nat
  OBVIOUS
<1>3. \A i \in DOMAIN (g \o h) :
         \/ i \in DOMAIN g /\ (g \o h)[i] = g[i]
         \/ i - Len(g) \in DOMAIN h /\ (g \o h)[i] = h[i - Len(g)]
  <2> TAKE i \in DOMAIN (g \o h)
  <2>1. CASE i <= Len(g)
    BY <2>1, <1>1, <1>2
  <2>2. CASE ~(i <= Len(g))
    <3>1. i - Len(g) \in 1..Len(h) /\ i = Len(g) + (i - Len(g))
      BY <2>2, <1>1, <1>2
    <3>2. QED
      BY <3>1, <1>1, <1>2
  <2>3. QED
    BY <2>1, <2>2
<1>4. \A i \in DOMAIN h : Len(g) + i \in DOMAIN (g \o h)
  BY <1>1, <1>2
<1>5. AsksOf(g \o h) = AsksOf(g) \cup AsksOf(h)
  <2>1. AsksOf(g \o h) \subseteq AsksOf(g) \cup AsksOf(h)
    BY <1>3 DEF AsksOf
  <2>2. AsksOf(g) \subseteq AsksOf(g \o h)
    BY <1>1, <1>2 DEF AsksOf
  <2>3. AsksOf(h) \subseteq AsksOf(g \o h)
    BY <1>1, <1>2, <1>4 DEF AsksOf
  <2>4. QED
    BY <2>1, <2>2, <2>3
<1>6. QED
  BY <1>1, <1>5

LEMMA OneMessage ==
    ASSUME NEW m \in Messages
    PROVE  <<m>> \in Seq(Messages) /\ AsksOf(<<m>>) = m.asks
<1>1. <<m>> \in Seq(Messages) /\ DOMAIN <<m>> = {1} /\ <<m>>[1] = m
  OBVIOUS
<1>2. QED
  BY <1>1 DEF AsksOf

LEMMA NoMessages == <<>> \in Seq(Messages) /\ AsksOf(<<>>) = {}
<1>1. <<>> \in Seq(Messages) /\ DOMAIN <<>> = {}
  OBVIOUS
<1>2. QED
  BY <1>1 DEF AsksOf

LEMMA AsksAreAsks == \A h \in Seq(Messages) : AsksOf(h) \in SUBSET Asks
<1> SUFFICES ASSUME NEW h \in Seq(Messages) PROVE AsksOf(h) \in SUBSET Asks
  OBVIOUS
<1>1. \A i \in DOMAIN h : h[i] \in Messages
  OBVIOUS
<1>2. \A i \in DOMAIN h : h[i].asks \in SUBSET Asks
  BY <1>1 DEF Messages
<1>3. QED
  BY <1>2 DEF AsksOf

(* Hiding prose changes no asks, and what a reactive compaction keeps are  *)
(* messages.                                                               *)
LEMMA Suppressing ==
    ASSUME NEW h \in Seq(Messages)
    PROVE  Suppressed(h) \in Seq(Messages) /\ AsksOf(Suppressed(h)) = AsksOf(h)
<1>0. \A m \in Messages : [m EXCEPT !.prose = 0] \in Messages /\ [m EXCEPT !.prose = 0].asks = m.asks
  BY DEF Messages
<1>1. \A i \in DOMAIN h : /\ Suppressed(h)[i] \in Messages
                          /\ Suppressed(h)[i].asks = h[i].asks
  <2> TAKE i \in DOMAIN h
  <2>1. h[i] \in Messages
    OBVIOUS
  <2>2. Suppressed(h)[i] \in {h[i], [h[i] EXCEPT !.prose = 0]}
    BY DEF Suppressed
  <2>3. QED
    BY <1>0, <2>1, <2>2
<1>2. DOMAIN Suppressed(h) = 1..Len(h) /\ Len(h) \in Nat /\ DOMAIN h = 1..Len(h)
  BY DEF Suppressed
<1>3. Suppressed(h) \in [1..Len(h) -> Messages]
  BY <1>1, <1>2 DEF Suppressed
<1>4. Suppressed(h) \in Seq(Messages)
  BY <1>2, <1>3
<1>5. AsksOf(Suppressed(h)) = AsksOf(h)
  BY <1>1, <1>2 DEF AsksOf
<1>6. QED
  BY <1>4, <1>5

LEMMA KeepingRecent ==
    ASSUME NEW h \in Seq(Messages) PROVE Recently(h) \in Seq(Messages)
  BY LeadAssumption DEF Recently

(* The messages of an action: they stay messages, what is said is appended, *)
(* and nothing leaves the conversation but by way of the copy.             *)
Talk == history \in Seq(Messages) /\ copy \in Seq(Messages)
Reading == at \in {"refit", "compacted", "reacted"}
Kept ==
    /\ history' \in Seq(Messages)
    /\ copy' \in Seq(Messages)
    /\ said' \subseteq said \cup AsksOf(history')
    /\ \/ AsksOf(history) \subseteq AsksOf(history')
       \/ Reading /\ AsksOf(copy) \subseteq AsksOf(history')

LEMMA Silence ==
    ASSUME Talk, history' = history, copy' \in {copy, history, <<>>}, said' = said PROVE Kept
  BY NoMessages DEF Talk, Kept

LEMMA Saying ==
    ASSUME Talk, NEW m \in Messages, history' = Append(history, m), copy' \in {copy, <<>>},
           said' \subseteq said \cup m.asks
    PROVE  Kept
<1>1. history' \in Seq(Messages) /\ AsksOf(history') = AsksOf(history) \cup m.asks
  BY Appending DEF Talk
<1>2. QED
  BY <1>1, NoMessages DEF Talk, Kept

(* A turn that ends in a workflow failure.                                 *)
LEMMA Failing ==
    ASSUME Talk, NEW h \in Seq(Messages), AsksOf(history) \subseteq AsksOf(h),
           history' = Append(Suppressed(h), Failure), copy' = <<>>, said' = said
    PROVE  Kept
<1>1. Suppressed(h) \in Seq(Messages) /\ AsksOf(Suppressed(h)) = AsksOf(h)
  BY Suppressing
<1>2. Failure \in Messages
  BY MessagesAreTyped
<1>3. history' \in Seq(Messages) /\ AsksOf(h) \subseteq AsksOf(history')
  BY <1>1, <1>2, Appending
<1>4. QED
  BY <1>3, NoMessages DEF Talk, Kept

LEMMA Typed == LdTypeOK => Talk /\ unread \in SUBSET Asks /\ held \in SUBSET Asks
                           /\ due \in SUBSET Asks /\ turnNo \in Nat /\ done \in Nat
  BY DEF LdTypeOK, Talk, Asks

LEMMA KeptInTurn == ASSUME LdTypeOK, Turn PROVE Kept
<1> USE DEF askVars
<1>0. Talk /\ due \in SUBSET Asks /\ turnNo \in Nat /\ done \in Nat
  BY Typed
<1>1. CASE Inject
  <2>1. Ask(due) \in Messages /\ Ask(due).asks = due
    BY <1>0, MessagesAreTyped DEF Ask, Message
  <2>2. CASE due = {}
    BY <1>0, <1>1, <2>2, Silence DEF Inject
  <2>3. CASE due # {}
    BY <1>0, <1>1, <2>1, <2>3, Saying DEF Inject
  <2>4. QED
    BY <2>2, <2>3
<1>2. CASE Fit
  BY <1>0, <1>2, Silence DEF Fit
<1>3. CASE Refit
  <2>1. history' = copy /\ copy' = <<>> /\ said' = said /\ at = "refit"
    BY <1>3 DEF Refit
  <2>2. QED
    BY <1>0, <2>1, NoMessages DEF Talk, Kept, Reading
<1>4. CASE Compact
  BY <1>0, <1>4, Silence DEF Compact
<1>5. CASE Compacted
  <2>1. PICK rest \in {<<Note>>, <<>>} : history' = <<Summary(AsksOf(copy))>> \o rest
    BY <1>5 DEF Compacted
  <2>2. Summary(AsksOf(copy)) \in Messages /\ Summary(AsksOf(copy)).asks = AsksOf(copy)
    BY <1>0, MessagesAreTyped, AsksAreAsks DEF Talk, Summary, Message
  <2>3. rest \in Seq(Messages)
    BY MessagesAreTyped, OneMessage, NoMessages
  <2>4. <<Summary(AsksOf(copy))>> \in Seq(Messages) /\ AsksOf(<<Summary(AsksOf(copy))>>) = AsksOf(copy)
    BY <2>2, OneMessage
  <2>5. history' \in Seq(Messages) /\ AsksOf(copy) \subseteq AsksOf(history')
    BY <2>1, <2>3, <2>4, Joining
  <2>6. copy' = <<>> /\ said' = said /\ at = "compacted"
    BY <1>5 DEF Compacted
  <2>7. QED
    BY <2>5, <2>6, NoMessages DEF Kept, Reading
<1>6. CASE Reacted
  <2>1. history' = <<Summary(AsksOf(copy))>> \o Recently(history)
    BY <1>6 DEF Reacted
  <2>2. Summary(AsksOf(copy)) \in Messages /\ Summary(AsksOf(copy)).asks = AsksOf(copy)
    BY <1>0, MessagesAreTyped, AsksAreAsks DEF Talk, Summary, Message
  <2>3. Recently(history) \in Seq(Messages)
    BY <1>0, KeepingRecent DEF Talk
  <2>4. <<Summary(AsksOf(copy))>> \in Seq(Messages) /\ AsksOf(<<Summary(AsksOf(copy))>>) = AsksOf(copy)
    BY <2>2, OneMessage
  <2>5. history' \in Seq(Messages) /\ AsksOf(copy) \subseteq AsksOf(history')
    BY <2>1, <2>3, <2>4, Joining
  <2>6. copy' = <<>> /\ said' = said /\ at = "reacted"
    BY <1>6 DEF Reacted
  <2>7. QED
    BY <2>5, <2>6, NoMessages DEF Kept, Reading
<1>7. CASE Answer
  BY <1>0, <1>7, MessagesAreTyped, Saying DEF Answer, EndTurn, GiveBack
<1>8. CASE Nudge
  BY <1>0, <1>8, MessagesAreTyped, Saying DEF Nudge
<1>9. CASE GateFails
  <2>1. history' = Append(Suppressed(history), Failure) /\ copy' = <<>> /\ said' = said
    BY <1>9 DEF GateFails, EndInFailure, EndTurn, GiveBack
  <2>2. history \in Seq(Messages)
    BY <1>0 DEF Talk
  <2>3. QED
    BY <1>0, <2>1, <2>2, Failing
<1>10. CASE Escalate
  BY <1>0, <1>10, Silence DEF Escalate
<1>11. CASE Continue
  <2>1. PICK cut \in CutReply : history' = history \o <<cut, Note>>
    BY <1>11 DEF Continue
  <2>2. cut \in Messages /\ Note \in Messages
    BY <1>0, MessagesAreTyped DEF CutReply
  <2>3. <<cut, Note>> \in Seq(Messages)
    BY <2>2
  <2>4. history' \in Seq(Messages) /\ AsksOf(history) \subseteq AsksOf(history')
    BY <1>0, <2>1, <2>3, Joining DEF Talk
  <2>5. copy' = copy /\ said' = said
    BY <1>11 DEF Continue
  <2>6. QED
    BY <1>0, <2>4, <2>5 DEF Talk, Kept
<1>12. CASE GiveUp
  <2>1. PICK cut \in CutReply : history' \in {Append(Suppressed(Append(history, cut)), Failure),
                                          Append(history, cut)}
    BY <1>12 DEF GiveUp, EndInFailure, EndTurn
  <2>2. cut \in Messages
    BY <1>0, MessagesAreTyped DEF CutReply
  <2>3. Append(history, cut) \in Seq(Messages) /\ AsksOf(history) \subseteq AsksOf(Append(history, cut))
    BY <1>0, <2>2, Appending DEF Talk
  <2>4. copy' = <<>> /\ said' = said
    BY <1>12 DEF GiveUp, EndInFailure, EndTurn, GiveBack
  <2>5. CASE history' = Append(history, cut)
    BY <1>0, <2>2, <2>4, <2>5, Saying
  <2>6. CASE history' = Append(Suppressed(Append(history, cut)), Failure)
    BY <1>0, <2>3, <2>4, <2>6, Failing
  <2>7. QED
    BY <2>1, <2>5, <2>6
<1>13. CASE TooLong
  BY <1>0, <1>13, Silence DEF TooLong
<1>14. CASE ModelFails
  BY <1>0, <1>14, MessagesAreTyped, Saying DEF ModelFails, EndTurn, GiveBack
<1>15. ASSUME NEW n \in 1..MaxCalls, CallTools(n) PROVE Kept
  <2>1. n \in Nat
    OBVIOUS
  <2>2. QED
    BY <1>0, <1>15, <2>1, MessagesAreTyped, Saying DEF CallTools
<1>16. CASE RunTool
  BY <1>0, <1>16, Silence DEF RunTool
<1>17. CASE CompactTool
  BY <1>0, <1>17, Silence DEF CompactTool
<1>18. CASE SendResults
  BY <1>0, <1>18, MessagesAreTyped, Saying DEF SendResults
<1>19. CASE Raise
  BY <1>0, <1>19, Silence DEF Raise, GiveBack
<1>20. QED
  BY <1>1, <1>2, <1>3, <1>4, <1>5, <1>6, <1>7, <1>8, <1>9, <1>10, <1>11, <1>12, <1>13,
     <1>14, <1>15, <1>16, <1>17, <1>18, <1>19 DEF Turn

LEMMA KeptAlways == ASSUME LdTypeOK, LdNext PROVE Kept
<1> USE DEF askVars, turnVars
<1>0. Talk /\ unread \in SUBSET Asks /\ held \in SUBSET Asks
  BY Typed
<1>1. ASSUME NEW p \in Prompts, Fires(p) PROVE Kept
  BY <1>0, <1>1, Silence DEF Fires
<1>2. ASSUME NEW m \in Letters, Writes(m) PROVE Kept
  BY <1>0, <1>2, Silence DEF Writes
<1>3. ASSUME NEW q \in Queries, Submit(q) PROVE Kept
  <2>1. Ask({q}) \in Messages /\ Ask({q}).asks = {q}
    BY MessagesAreTyped DEF Asks, Ask, Message
  <2>2. QED
    BY <1>0, <1>3, <2>1, Saying DEF Submit, AppendOutside
<1>4. CASE Quit
  BY <1>0, <1>4, Silence DEF Quit
<1>5. CASE AppendInbox
  <2>1. Ask(unread) \in Messages /\ Ask(unread).asks = unread
    BY <1>0, MessagesAreTyped DEF Ask, Message
  <2>2. CASE unread # {}
    BY <1>0, <1>5, <2>1, <2>2, Saying DEF AppendInbox, AppendOutside
  <2>3. CASE unread = {}
    BY <1>0, <1>5, <2>3, Silence DEF AppendInbox
  <2>4. QED
    BY <2>2, <2>3
<1>6. CASE CliTurn
  BY <1>0, <1>6, Silence DEF CliTurn, BeginTurn
<1>7. CASE AutoClaim
  BY <1>0, <1>7, Silence DEF AutoClaim
<1>8. CASE AutoTurn
  <2>1. Ask(held) \in Messages /\ Ask(held).asks = held
    BY <1>0, MessagesAreTyped DEF Ask, Message
  <2>2. QED
    BY <1>0, <1>8, <2>1, Saying DEF AutoTurn, BeginTurn
<1>9. CASE Turn
  BY <1>9, KeptInTurn
<1>10. QED
  BY <1>1, <1>2, <1>3, <1>4, <1>5, <1>6, <1>7, <1>8, <1>9 DEF LdNext

(* The other types, those of the Boolean variables apart.                  *)
Flags ==
    /\ escalated \in BOOLEAN /\ reacted \in BOOLEAN /\ displaced \in BOOLEAN
    /\ gated \in BOOLEAN
Rest ==
    /\ holder \in {"none", "cli", "auto"}
    /\ cli \in {"reading", "waiting", "turn", "inbox", "exited"}
    /\ auto \in {"sleeping", "holding", "turn", "dead"}
    /\ typed \in SUBSET Queries
    /\ due \in SUBSET Prompts
    /\ held \in SUBSET Prompts
    /\ unread \in SUBSET Letters
    /\ said \in SUBSET Asks
    /\ at \in {"none", "inject", "fit", "refit", "compact", "compacted",
               "react", "reacted", "model", "tools"}
    /\ back \in {"model", "inject"}
    /\ start \in Nat /\ left \in Nat /\ done \in Nat /\ recovery \in Nat
    /\ nudges \in Nat /\ rounds \in Nat /\ turnNo \in Nat
    /\ research \in {"none", "open", "failed"}
    /\ faults \in 0..MaxFaults

LEMMA TypeParts == 
    /\ LdTypeOK <=> Talk /\ Rest /\ Flags
    /\ LdTypeOK' <=> Talk' /\ Rest' /\ Flags'
  BY DEF LdTypeOK, Talk, Rest, Flags

LEMMA RestKept == ASSUME LdTypeOK, LdNext, history' \in Seq(Messages) PROVE Rest'
<1> USE LeadAssumption DEF Rest, threadVars, askVars, batchVars, recoveryVars, turnVars, ghostVars
<1>0. Rest /\ Len(history') \in Nat
  BY TypeParts
<1>1. CASE Inject
  BY <1>0, <1>1 DEF Inject, Asks
<1>2. CASE Fit
  BY <1>0, <1>2 DEF Fit, Asks
<1>3. CASE Refit
  BY <1>0, <1>3 DEF Refit, Asks
<1>4. CASE Compact
  BY <1>0, <1>4 DEF Compact, Asks
<1>5. CASE Compacted
  BY <1>0, <1>5 DEF Compacted, Asks
<1>6. CASE Reacted
  BY <1>0, <1>6 DEF Reacted, Asks
<1>7. CASE Answer
  BY <1>0, <1>7 DEF Answer, EndTurn, GiveBack, Asks
<1>8. CASE Nudge
  BY <1>0, <1>8 DEF Nudge, Asks
<1>9. CASE GateFails
  BY <1>0, <1>9 DEF GateFails, EndInFailure, EndTurn, GiveBack, Asks
<1>10. CASE Escalate
  BY <1>0, <1>10 DEF Escalate, Asks
<1>11. CASE Continue
  BY <1>0, <1>11 DEF Continue, Asks
<1>12. CASE GiveUp
  <2>1. PICK cut : IF Pending THEN EndInFailure(Append(history, cut))
                   ELSE EndTurn(Append(history, cut))
    BY <1>12, Zenon DEF GiveUp
  <2>2. CASE Pending
    BY <1>0, <2>1, <2>2 DEF EndInFailure, EndTurn, GiveBack, Asks
  <2>3. CASE ~Pending
    BY <1>0, <2>1, <2>3 DEF EndTurn, GiveBack, Asks
  <2>4. QED
    BY <2>2, <2>3
<1>13. CASE TooLong
  BY <1>0, <1>13 DEF TooLong, Asks
<1>14. CASE ModelFails
  BY <1>0, <1>14 DEF ModelFails, EndTurn, GiveBack, Asks
<1>15. ASSUME NEW n \in 1..MaxCalls, CallTools(n) PROVE Rest'
  BY <1>0, <1>15 DEF CallTools, Asks
<1>16. CASE RunTool
  <2>1. research' \in {"none", "open", "failed"}
    BY <1>16, Zenon DEF RunTool
  <2>2. left > 0 /\ left' = left - 1 /\ done' = done + 1
    BY <1>16, Zenon DEF RunTool
  <2>3. UNCHANGED <<threadVars, askVars, at, back, start, rounds, recoveryVars, ghostVars, faults>>
    BY <1>16, Zenon DEF RunTool
  <2>4. QED
    BY <1>0, <2>1, <2>2, <2>3
<1>17. CASE CompactTool
  BY <1>0, <1>17 DEF CompactTool, Asks
<1>18. CASE SendResults
  BY <1>0, <1>18 DEF SendResults, Asks
<1>19. CASE Raise
  BY <1>0, <1>19 DEF Raise, GiveBack, Asks
<1>20. ASSUME NEW p \in Prompts, Fires(p) PROVE Rest'
  BY <1>0, <1>20 DEF Fires, Asks
<1>21. ASSUME NEW m \in Letters, Writes(m) PROVE Rest'
  BY <1>0, <1>21 DEF Writes, Asks
<1>22. ASSUME NEW q \in Queries, Submit(q) PROVE Rest'
  BY <1>0, <1>22 DEF Submit, AppendOutside, Asks
<1>23. CASE Quit
  BY <1>0, <1>23 DEF Quit, Asks
<1>24. CASE AppendInbox
  BY <1>0, <1>24 DEF AppendInbox, AppendOutside, Asks
<1>25. CASE CliTurn
  BY <1>0, <1>25 DEF CliTurn, BeginTurn, Asks
<1>26. CASE AutoClaim
  BY <1>0, <1>26 DEF AutoClaim, Asks
<1>27. CASE AutoTurn
  BY <1>0, <1>27 DEF AutoTurn, BeginTurn, Asks
<1>28. QED
  BY <1>1, <1>2, <1>3, <1>4, <1>5, <1>6, <1>7, <1>8, <1>9, <1>10, <1>11, <1>12, <1>13,
     <1>14, <1>15, <1>16, <1>17, <1>18, <1>19, <1>20, <1>21, <1>22, <1>23, <1>24, <1>25,
     <1>26, <1>27 DEF LdNext, Turn

LEMMA FlagsKept == ASSUME LdTypeOK, LdNext PROVE Flags'
<1> USE DEF Flags, threadVars, askVars, batchVars, recoveryVars, turnVars, ghostVars
<1>0. Flags
  BY TypeParts
<1>1. CASE Inject
  BY <1>0, <1>1 DEF Inject
<1>2. CASE Fit
  BY <1>0, <1>2 DEF Fit
<1>3. CASE Refit
  BY <1>0, <1>3 DEF Refit
<1>4. CASE Compact
  BY <1>0, <1>4 DEF Compact
<1>5. CASE Compacted
  BY <1>0, <1>5 DEF Compacted
<1>6. CASE Reacted
  BY <1>0, <1>6 DEF Reacted
<1>7. CASE Answer
  BY <1>0, <1>7 DEF Answer, EndTurn, GiveBack
<1>8. CASE Nudge
  BY <1>0, <1>8 DEF Nudge
<1>9. CASE GateFails
  BY <1>0, <1>9 DEF GateFails, EndInFailure, EndTurn, GiveBack
<1>10. CASE Escalate
  BY <1>0, <1>10 DEF Escalate
<1>11. CASE Continue
  BY <1>0, <1>11 DEF Continue
<1>12. CASE GiveUp
  BY <1>0, <1>12 DEF GiveUp, EndInFailure, EndTurn, GiveBack
<1>13. CASE TooLong
  BY <1>0, <1>13 DEF TooLong
<1>14. CASE ModelFails
  BY <1>0, <1>14 DEF ModelFails, EndTurn, GiveBack
<1>15. ASSUME NEW n \in 1..MaxCalls, CallTools(n) PROVE Flags'
  BY <1>0, <1>15 DEF CallTools
<1>16. CASE RunTool
  BY <1>0, <1>16 DEF RunTool
<1>17. CASE CompactTool
  BY <1>0, <1>17 DEF CompactTool
<1>18. CASE SendResults
  BY <1>0, <1>18 DEF SendResults
<1>19. CASE Raise
  BY <1>0, <1>19 DEF Raise, GiveBack
<1>20. ASSUME NEW p \in Prompts, Fires(p) PROVE Flags'
  BY <1>0, <1>20 DEF Fires
<1>21. ASSUME NEW m \in Letters, Writes(m) PROVE Flags'
  BY <1>0, <1>21 DEF Writes
<1>22. ASSUME NEW q \in Queries, Submit(q) PROVE Flags'
  BY <1>0, <1>22 DEF Submit, AppendOutside
<1>23. CASE Quit
  BY <1>0, <1>23 DEF Quit
<1>24. CASE AppendInbox
  BY <1>0, <1>24 DEF AppendInbox, AppendOutside
<1>25. CASE CliTurn
  BY <1>0, <1>25 DEF CliTurn, BeginTurn
<1>26. CASE AutoClaim
  BY <1>0, <1>26 DEF AutoClaim
<1>27. CASE AutoTurn
  BY <1>0, <1>27 DEF AutoTurn, BeginTurn
<1>28. QED
  BY <1>1, <1>2, <1>3, <1>4, <1>5, <1>6, <1>7, <1>8, <1>9, <1>10, <1>11, <1>12, <1>13,
     <1>14, <1>15, <1>16, <1>17, <1>18, <1>19, <1>20, <1>21, <1>22, <1>23, <1>24, <1>25,
     <1>26, <1>27 DEF LdNext, Turn

(* A turn holds the lock, and gives it back when it ends.                  *)
Locked ==
    /\ at = "none" <=> holder = "none"
    /\ cli = "turn" <=> holder = "cli"
    /\ auto = "turn" <=> holder = "auto"

LEMMA LockedKept == ASSUME LdTypeOK, Locked, LdNext PROVE Locked'
<1> USE DEF Locked, threadVars, askVars, batchVars, recoveryVars, turnVars, ghostVars
<1>0. holder \in {"none", "cli", "auto"} /\ back \in {"model", "inject"}
  BY DEF LdTypeOK
<1>1. CASE Inject
  BY <1>0, <1>1 DEF Inject
<1>2. CASE Fit
  BY <1>0, <1>2 DEF Fit
<1>3. CASE Refit
  BY <1>0, <1>3 DEF Refit
<1>4. CASE Compact
  BY <1>0, <1>4 DEF Compact
<1>5. CASE Compacted
  BY <1>0, <1>5 DEF Compacted
<1>6. CASE Reacted
  BY <1>0, <1>6 DEF Reacted
<1>7. CASE Answer
  BY <1>0, <1>7 DEF Answer, EndTurn, GiveBack
<1>8. CASE Nudge
  BY <1>0, <1>8 DEF Nudge
<1>9. CASE GateFails
  BY <1>0, <1>9 DEF GateFails, EndInFailure, EndTurn, GiveBack
<1>10. CASE Escalate
  BY <1>0, <1>10 DEF Escalate
<1>11. CASE Continue
  BY <1>0, <1>11 DEF Continue
<1>12. CASE GiveUp
  BY <1>0, <1>12 DEF GiveUp, EndInFailure, EndTurn, GiveBack
<1>13. CASE TooLong
  BY <1>0, <1>13 DEF TooLong
<1>14. CASE ModelFails
  BY <1>0, <1>14 DEF ModelFails, EndTurn, GiveBack
<1>15. ASSUME NEW n \in 1..MaxCalls, CallTools(n) PROVE Locked'
  BY <1>0, <1>15 DEF CallTools
<1>16. CASE RunTool
  BY <1>0, <1>16 DEF RunTool
<1>17. CASE CompactTool
  BY <1>0, <1>17 DEF CompactTool
<1>18. CASE SendResults
  BY <1>0, <1>18 DEF SendResults
<1>19. CASE Raise
  BY <1>0, <1>19 DEF Raise, GiveBack
<1>20. ASSUME NEW p \in Prompts, Fires(p) PROVE Locked'
  BY <1>0, <1>20 DEF Fires
<1>21. ASSUME NEW m \in Letters, Writes(m) PROVE Locked'
  BY <1>0, <1>21 DEF Writes
<1>22. ASSUME NEW q \in Queries, Submit(q) PROVE Locked'
  BY <1>0, <1>22 DEF Submit, AppendOutside
<1>23. CASE Quit
  BY <1>0, <1>23 DEF Quit
<1>24. CASE AppendInbox
  BY <1>0, <1>24 DEF AppendInbox, AppendOutside
<1>25. CASE CliTurn
  BY <1>0, <1>25 DEF CliTurn, BeginTurn
<1>26. CASE AutoClaim
  BY <1>0, <1>26 DEF AutoClaim
<1>27. CASE AutoTurn
  BY <1>0, <1>27 DEF AutoTurn, BeginTurn
<1>28. QED
  BY <1>1, <1>2, <1>3, <1>4, <1>5, <1>6, <1>7, <1>8, <1>9, <1>10, <1>11, <1>12, <1>13,
     <1>14, <1>15, <1>16, <1>17, <1>18, <1>19, <1>20, <1>21, <1>22, <1>23, <1>24, <1>25,
     <1>26, <1>27 DEF LdNext, Turn

(* While a turn holds a copy nobody else says a prompt, and a copy is      *)
(* taken of the whole conversation.                                        *)
CopyFollows ==
    Reading' => \/ Reading /\ copy' = copy /\ said' \cap Prompts \subseteq said \cap Prompts
                \/ copy' = history /\ said' = said

LEMMA CopyFollowed == ASSUME LdTypeOK, Locked, LdNext PROVE CopyFollows
<1> USE DEF CopyFollows, Reading, threadVars, askVars, batchVars, recoveryVars, turnVars, ghostVars
<1>0. back \in {"model", "inject"} /\ unread \cap Prompts = {} /\ Queries \cap Prompts = {}
  BY LeadAssumption DEF LdTypeOK
<1>00. holder = "none" => ~Reading
  BY DEF Locked
<1>1. CASE Inject
  BY <1>0, <1>00, <1>1 DEF Inject
<1>2. CASE Fit
  BY <1>0, <1>00, <1>2 DEF Fit
<1>3. CASE Refit
  BY <1>0, <1>00, <1>3 DEF Refit
<1>4. CASE Compact
  BY <1>0, <1>00, <1>4 DEF Compact
<1>5. CASE Compacted
  BY <1>0, <1>00, <1>5 DEF Compacted
<1>6. CASE Reacted
  BY <1>0, <1>00, <1>6 DEF Reacted
<1>7. CASE Answer
  BY <1>0, <1>00, <1>7 DEF Answer, EndTurn, GiveBack
<1>8. CASE Nudge
  BY <1>0, <1>00, <1>8 DEF Nudge
<1>9. CASE GateFails
  BY <1>0, <1>00, <1>9 DEF GateFails, EndInFailure, EndTurn, GiveBack
<1>10. CASE Escalate
  BY <1>0, <1>00, <1>10 DEF Escalate
<1>11. CASE Continue
  BY <1>0, <1>00, <1>11 DEF Continue
<1>12. CASE GiveUp
  BY <1>0, <1>00, <1>12 DEF GiveUp, EndInFailure, EndTurn, GiveBack
<1>13. CASE TooLong
  BY <1>0, <1>00, <1>13 DEF TooLong
<1>14. CASE ModelFails
  BY <1>0, <1>00, <1>14 DEF ModelFails, EndTurn, GiveBack
<1>15. ASSUME NEW n \in 1..MaxCalls, CallTools(n) PROVE CopyFollows
  BY <1>0, <1>00, <1>15 DEF CallTools
<1>16. CASE RunTool
  BY <1>0, <1>00, <1>16 DEF RunTool
<1>17. CASE CompactTool
  BY <1>0, <1>00, <1>17 DEF CompactTool
<1>18. CASE SendResults
  BY <1>0, <1>00, <1>18 DEF SendResults
<1>19. CASE Raise
  BY <1>0, <1>00, <1>19 DEF Raise, GiveBack
<1>20. ASSUME NEW p \in Prompts, Fires(p) PROVE CopyFollows
  BY <1>0, <1>00, <1>20 DEF Fires
<1>21. ASSUME NEW m \in Letters, Writes(m) PROVE CopyFollows
  BY <1>0, <1>00, <1>21 DEF Writes
<1>22. ASSUME NEW q \in Queries, Submit(q) PROVE CopyFollows
  BY <1>0, <1>00, <1>22 DEF Submit, AppendOutside
<1>23. CASE Quit
  BY <1>0, <1>00, <1>23 DEF Quit
<1>24. CASE AppendInbox
  BY <1>0, <1>00, <1>24 DEF AppendInbox, AppendOutside
<1>25. CASE CliTurn
  BY <1>0, <1>00, <1>25 DEF CliTurn, BeginTurn
<1>26. CASE AutoClaim
  BY <1>0, <1>00, <1>26 DEF AutoClaim
<1>27. CASE AutoTurn
  BY <1>0, <1>00, <1>27 DEF AutoTurn, BeginTurn
<1>28. QED
  BY <1>1, <1>2, <1>3, <1>4, <1>5, <1>6, <1>7, <1>8, <1>9, <1>10, <1>11, <1>12, <1>13,
     <1>14, <1>15, <1>16, <1>17, <1>18, <1>19, <1>20, <1>21, <1>22, <1>23, <1>24, <1>25,
     <1>26, <1>27 DEF LdNext, Turn

-----------------------------------------------------------------------------
(* The invariant: with the types, that turns hold the lock, and that what  *)
(* is written back of a copy holds the prompts.                            *)
PromptsInv ==
    /\ LdTypeOK
    /\ Locked
    /\ PromptsSurvive
    /\ Reading => said \cap Prompts \subseteq AsksOf(copy)

LEMMA PromptsBegin == LdInit => PromptsInv
<1> SUFFICES ASSUME LdInit PROVE PromptsInv
  OBVIOUS
<1>1. Talk /\ Rest
  BY LeadAssumption, NoMessages DEF LdInit, Talk, Rest
<1>2. Flags
  BY DEF LdInit, Flags
<1>3. QED
  BY <1>1, <1>2, TypeParts DEF LdInit, PromptsInv, Locked, PromptsSurvive, Reading

LEMMA Stuttering == ASSUME PromptsInv, UNCHANGED vars PROVE PromptsInv'
<1>1. Talk' /\ Rest' /\ Flags'
  BY TypeParts DEF PromptsInv, vars, threadVars, askVars, turnVars, batchVars, recoveryVars,
                   ghostVars, Talk, Rest, Flags
<1>2. QED
  BY <1>1, TypeParts DEF PromptsInv, vars, threadVars, askVars, turnVars, Locked, PromptsSurvive,
                         Reading, AsksOf

LEMMA PromptsStep == PromptsInv /\ [LdNext]_vars => PromptsInv'
<1> SUFFICES ASSUME PromptsInv, LdNext PROVE PromptsInv'
  BY Stuttering
<1>1. Kept
  BY KeptAlways DEF PromptsInv
<1>2. LdTypeOK'
  BY <1>1, TypeParts, RestKept, FlagsKept DEF PromptsInv, Kept, Talk
<1>3. Locked'
  BY LockedKept DEF PromptsInv
<1>4. PromptsSurvive'
  <2>1. said \cap Prompts \subseteq AsksOf(history')
    BY <1>1 DEF PromptsInv, PromptsSurvive, Kept
  <2>2. QED
    BY <1>1, <2>1 DEF PromptsSurvive, Kept
<1>5. Reading' => said' \cap Prompts \subseteq AsksOf(copy')
  BY CopyFollowed DEF CopyFollows, PromptsInv, PromptsSurvive
<1>6. QED
  BY <1>2, <1>3, <1>4, <1>5 DEF PromptsInv

(* Every state of the conversation has its type, whatever the bounds.      *)
(* (runtime/loop.py, context/runtime.py)                                   *)
THEOREM TypeCorrect == LdSpec => []LdTypeOK
<1>1. PromptsInv => LdTypeOK
  BY DEF PromptsInv
<1>2. QED
  BY <1>1, PromptsBegin, PromptsStep, PTL DEF LdSpec

(* A scheduled prompt once appended is never lost from the conversation,   *)
(* for any length, any compactions and any interleaving of the two         *)
(* threads: each copy that is written back was taken under the lock that   *)
(* scheduled prompts are appended under.  (jobs/runtime.py:546)            *)
THEOREM PromptsStay == LdSpec => []PromptsSurvive
<1>1. PromptsInv => PromptsSurvive
  BY DEF PromptsInv
<1>2. QED
  BY <1>1, PromptsBegin, PromptsStep, PTL DEF LdSpec
-----------------------------------------------------------------------------
(* What the messages h tell of turn t: no prose is of a later turn, and    *)
(* the first s of them hold none of t itself.                              *)
PastTo(h, t) == \A i \in DOMAIN h : h[i].prose <= t
Spared(h, s, t) == s <= Len(h) /\ \A i \in DOMAIN h : i <= s => h[i].prose # t

LEMMA AppendedProse ==
    ASSUME NEW h \in Seq(Messages), NEW m \in Messages, NEW s \in Nat, NEW t \in Nat,
           m.prose <= t
    PROVE  /\ PastTo(h, t) => PastTo(Append(h, m), t)
           /\ Spared(h, s, t) => Spared(Append(h, m), s, t)
           /\ m.prose # t /\ Spared(h, Len(h), t) => Spared(Append(h, m), Len(Append(h, m)), t)
<1>1. /\ DOMAIN Append(h, m) = DOMAIN h \cup {Len(h) + 1}
      /\ DOMAIN h = 1..Len(h)
      /\ Len(h) \in Nat
      /\ Len(Append(h, m)) = Len(h) + 1
      /\ \A i \in DOMAIN h : Append(h, m)[i] = h[i]
      /\ Append(h, m)[Len(h) + 1] = m
  OBVIOUS
<1>2. PastTo(h, t) => PastTo(Append(h, m), t)
  BY <1>1 DEF PastTo
<1>3. Spared(h, s, t) => Spared(Append(h, m), s, t)
  BY <1>1 DEF Spared
<1>4. m.prose # t /\ Spared(h, Len(h), t) => Spared(Append(h, m), Len(Append(h, m)), t)
  BY <1>1 DEF Spared
<1>5. QED
  BY <1>2, <1>3, <1>4

(* Hiding the prose of a turn leaves none of it.                           *)
LEMMA SuppressedProse ==
    ASSUME NEW h \in Seq(Messages), start \in Nat, NEW t \in Nat \ {0},
           PastTo(h, t)
    PROVE  /\ PastTo(Suppressed(h), t)
           /\ Spared(h, start, t) => Spared(Suppressed(h), Len(Suppressed(h)), t)
<1>1. /\ DOMAIN Suppressed(h) = DOMAIN h
      /\ DOMAIN h = 1..Len(h) /\ Len(h) \in Nat
      /\ Len(Suppressed(h)) \in Nat
      /\ \A i \in DOMAIN h : h[i] \in Messages
      /\ Suppressed(h) \in Seq(Messages)
  BY Suppressing DEF Suppressed
<1>2. \A i \in DOMAIN h : Suppressed(h)[i].prose = IF i > start THEN 0 ELSE h[i].prose
  BY <1>1 DEF Suppressed, Messages
<1>3. PastTo(Suppressed(h), t)
  BY <1>1, <1>2 DEF PastTo
<1>4. Spared(h, start, t) => Spared(Suppressed(h), Len(Suppressed(h)), t)
  BY <1>1, <1>2 DEF Spared
<1>5. QED
  BY <1>3, <1>4

LEMMA KeptProse ==
    ASSUME NEW h \in Seq(Messages), NEW t \in Nat, PastTo(h, t)
    PROVE  PastTo(Recently(h), t)
<1>1. CASE Len(h) <= Recent
  BY <1>1 DEF Recently
<1>2. CASE ~(Len(h) <= Recent)
  <2>1. Recently(h) = SubSeq(h, Len(h) - Recent + 1, Len(h))
    BY <1>2 DEF Recently
  <2>2. /\ DOMAIN Recently(h) = 1..Recent
        /\ \A i \in 1..Recent : Recently(h)[i] = h[Len(h) - Recent + i]
    BY <1>2, <2>1, LeadAssumption
  <2>3. DOMAIN h = 1..Len(h) /\ Len(h) \in Nat /\ Recent \in Nat
    BY LeadAssumption
  <2>4. \A i \in 1..Recent : Len(h) - Recent + i \in DOMAIN h
    BY <1>2, <2>3
  <2>5. QED
    BY <2>2, <2>4 DEF PastTo
<1>3. QED
  BY <1>1, <1>2

LEMMA JoinedProse ==
    ASSUME NEW g \in Seq(Messages), NEW h \in Seq(Messages), NEW s \in Nat, NEW t \in Nat,
           PastTo(g, t), PastTo(h, t)
    PROVE  /\ PastTo(g \o h, t)
           /\ Spared(g, s, t) => Spared(g \o h, s, t)
<1>1. /\ DOMAIN (g \o h) = 1..(Len(g) + Len(h))
      /\ Len(g \o h) = Len(g) + Len(h)
      /\ DOMAIN g = 1..Len(g) /\ DOMAIN h = 1..Len(h) /\ Len(g) \in Nat /\ Len(h) \in Nat
      /\ \A i \in 1..(Len(g) + Len(h)) :
            (g \o h)[i] = IF i <= Len(g) THEN g[i] ELSE h[i - Len(g)]
  OBVIOUS
<1>2. PastTo(g \o h, t)
  <2> SUFFICES ASSUME NEW i \in 1..(Len(g) + Len(h)) PROVE (g \o h)[i].prose <= t
    BY <1>1 DEF PastTo
  <2>1. CASE i <= Len(g)
    BY <1>1, <2>1 DEF PastTo
  <2>2. CASE ~(i <= Len(g))
    <3>1. i - Len(g) \in DOMAIN h /\ (g \o h)[i] = h[i - Len(g)]
      BY <1>1, <2>2
    <3>2. QED
      BY <3>1 DEF PastTo
  <2>3. QED
    BY <2>1, <2>2
<1>3. Spared(g, s, t) => Spared(g \o h, s, t)
  <2> SUFFICES ASSUME Spared(g, s, t) PROVE Spared(g \o h, s, t)
    OBVIOUS
  <2>1. s <= Len(g)
    BY DEF Spared
  <2>2. \A i \in 1..(Len(g) + Len(h)) : i <= s => (i \in DOMAIN g /\ (g \o h)[i] = g[i])
    BY <1>1, <2>1
  <2>3. QED
    BY <1>1, <2>1, <2>2 DEF Spared
<1>4. QED
  BY <1>2, <1>3

(* A summary before the last messages of h that leaves them in their       *)
(* places, or is all that lies up to turn_start.                           *)
LEMMA ReactedProse ==
    ASSUME NEW m \in Messages, m.prose = 0, NEW h \in Seq(Messages), start \in Nat,
           NEW t \in Nat \ {0}, Spared(h, start, t),
           ~(start > 1 /\ Len(<<m>> \o Recently(h)) < Len(h))
    PROVE  Spared(<<m>> \o Recently(h), start, t)
<1> DEFINE g == <<m>> \o Recently(h)
<1>1. /\ Recently(h) \in Seq(Messages) /\ Recent \in Nat \ {0} /\ Len(h) \in Nat
      /\ DOMAIN h = 1..Len(h)
  BY KeepingRecent, LeadAssumption
<1>2. /\ Len(g) = Len(Recently(h)) + 1 /\ DOMAIN g = 1..(Len(Recently(h)) + 1)
      /\ g[1] = m /\ \A i \in 2..(Len(Recently(h)) + 1) : g[i] = Recently(h)[i - 1]
  BY <1>1
<1>3. start <= Len(h) /\ \A i \in 1..Len(h) : i <= start => h[i].prose # t
  BY <1>1 DEF Spared
<1>33. ~(start > 1 /\ Len(g) < Len(h))
  OBVIOUS
<1> HIDE DEF g
<1>4. CASE Len(h) <= Recent
  <2>1. Recently(h) = h
    BY <1>4 DEF Recently
  <2>2. ASSUME NEW i \in DOMAIN g, i <= start PROVE g[i].prose # t
    <3>1. CASE i = 1
      BY <1>2, <3>1
    <3>2. CASE i # 1
      <4>1. i - 1 \in 1..Len(h) /\ i - 1 <= start /\ g[i] = h[i - 1]
        BY <1>1, <1>2, <2>1, <2>2, <3>2
      <4>2. QED
        BY <1>3, <4>1
    <3>3. QED
      BY <3>1, <3>2
  <2>3. start <= Len(g)
    BY <1>1, <1>2, <1>3, <2>1
  <2>4. QED
    BY <2>2, <2>3 DEF Spared, g
<1>5. CASE ~(Len(h) <= Recent)
  <2>1. Recently(h) = SubSeq(h, Len(h) - Recent + 1, Len(h))
    BY <1>5 DEF Recently
  <2>2. /\ Len(Recently(h)) = Recent
        /\ \A i \in 1..Recent : Recently(h)[i] = h[Len(h) - Recent + i]
    BY <1>1, <1>5, <2>1
  <2>3. CASE start <= 1
    BY <1>1, <1>2, <2>2, <2>3 DEF Spared, g
  <2>4. CASE start > 1
    <3>0. Len(g) = Recent + 1
      BY <1>2, <2>2
    <3>00. ~(Recent + 1 < Len(h))
      BY <1>33, <2>4, <3>0
    <3>000. ~(Len(h) <= Recent) /\ Recent \in Nat /\ Len(h) \in Nat
      BY <1>1, <1>5
    <3>1. Len(h) = Recent + 1
      BY <3>00, <3>000
    <3>2. ASSUME NEW i \in DOMAIN g, i <= start PROVE g[i].prose # t
      <4>1. CASE i = 1
        BY <1>2, <4>1
      <4>2. CASE i # 1
        <5>1. i \in Nat /\ i - 1 \in 1..Recent /\ g[i] = Recently(h)[i - 1]
          BY <1>1, <1>2, <2>2, <4>2
        <5>2. Len(h) - Recent + (i - 1) = i /\ i \in 1..Len(h)
          BY <1>1, <3>1, <5>1
        <5>3. g[i] = h[i]
          BY <2>2, <5>1, <5>2
        <5>4. QED
          BY <1>3, <3>2, <5>2, <5>3
      <4>3. QED
        BY <4>1, <4>2
    <3>3. start <= Len(g)
      BY <1>1, <1>2, <1>3, <2>2, <3>1
    <3>4. QED
      BY <3>2, <3>3 DEF Spared, g
  <2>5. QED
    BY <2>3, <2>4
<1>6. QED
  BY <1>4, <1>5 DEF g

(* The invariant: while a turn runs, what lies before its turn_start has    *)
(* no prose of it, in the messages and in the copy that is written back of *)
(* them, and only a turn that ended can have failed the gate.              *)
ProseInOrder ==
    /\ PastTo(history, turnNo)
    /\ turnNo > 0 \/ (at = "none" /\ ~gated)
    /\ at # "none" => ~gated
    /\ at # "none" /\ ~displaced => Spared(history, start, turnNo)
    /\ at = "refit" => PastTo(copy, turnNo)
    /\ at = "refit" /\ ~displaced => Spared(copy, start, turnNo)
    /\ GatedTurnsHideProse

LEMMA ProseHidden ==
    ASSUME LdTypeOK
    PROVE  GatedTurnsHideProse <=>
              (at = "none" /\ gated /\ ~displaced => Spared(history, Len(history), turnNo))
<1>1. Len(history) \in Nat /\ DOMAIN history = 1..Len(history)
  BY DEF LdTypeOK
<1>2. QED
  BY <1>1 DEF GatedTurnsHideProse, Spared

(* A step that starts or ends no turn, and appends no more than a message. *)
SameTurn ==
    /\ turnNo' = turnNo /\ start' = start /\ gated' = gated /\ displaced' = displaced
    /\ at = "none" <=> at' = "none"
    /\ at' = "refit" => \/ copy' = history
                        \/ at = "refit" /\ copy' = copy

LEMMA ProseStays ==
    ASSUME LdTypeOK, LdTypeOK', ProseInOrder, SameTurn, history' = history
    PROVE  ProseInOrder'
  BY DEF LdTypeOK, ProseInOrder, SameTurn, GatedTurnsHideProse

LEMMA ProseGrows ==
    ASSUME LdTypeOK, LdTypeOK', ProseInOrder, SameTurn, NEW m \in Messages,
           m.prose = 0 \/ (at # "none" /\ m.prose = turnNo),
           history' = Append(history, m), at' = "refit" => copy' = copy
    PROVE  ProseInOrder'
<1>1. history \in Seq(Messages) /\ turnNo \in Nat /\ start \in Nat
  BY DEF LdTypeOK
<1>2. m.prose <= turnNo
  BY <1>1
<1>3. PastTo(history', turnNo')
  BY <1>1, <1>2, AppendedProse DEF ProseInOrder, SameTurn
<1>4. at # "none" /\ ~displaced => Spared(history', start, turnNo)
  BY <1>1, <1>2, AppendedProse DEF ProseInOrder, SameTurn
<1>5. at = "none" /\ gated /\ ~displaced => Spared(history', Len(history'), turnNo)
  <2> SUFFICES ASSUME at = "none", gated, ~displaced
               PROVE  Spared(history', Len(history'), turnNo)
    OBVIOUS
  <2>1. m.prose # turnNo /\ Spared(history, Len(history), turnNo)
    BY <1>1, ProseHidden DEF ProseInOrder
  <2>2. QED
    BY <1>1, <1>2, <2>1, AppendedProse
<1>6. GatedTurnsHideProse'
  <2>1. history' \in Seq(Messages) /\ Len(history') \in Nat /\ DOMAIN history' = 1..Len(history')
    BY DEF LdTypeOK
  <2>2. QED
    BY <1>5, <2>1 DEF GatedTurnsHideProse, Spared, SameTurn
<1>7. at' = "refit" => (at = "refit" /\ copy' = copy) \/ copy' = history
  BY DEF SameTurn
<1>8. at' = "refit" => PastTo(copy', turnNo') /\ (~displaced' => Spared(copy', start', turnNo'))
  BY <1>7 DEF ProseInOrder, SameTurn
<1>9. QED
  BY <1>3, <1>4, <1>6, <1>8 DEF ProseInOrder, SameTurn

(* A turn that begins, and one that ends without a failure of the gate.    *)
LEMMA ProseBegins ==
    ASSUME LdTypeOK, LdTypeOK', ProseInOrder, BeginTurn,
           \/ history' = history
           \/ \E asks \in SUBSET Asks : history' = Append(history, Ask(asks))
    PROVE  ProseInOrder'
<1>1. history \in Seq(Messages) /\ turnNo \in Nat /\ history' \in Seq(Messages)
  BY DEF LdTypeOK
<1>2. PastTo(history', turnNo)
  <2>1. CASE history' = history
    BY <2>1 DEF ProseInOrder
  <2>2. CASE \E asks \in SUBSET Asks : history' = Append(history, Ask(asks))
    <3>1. PICK asks \in SUBSET Asks : history' = Append(history, Ask(asks))
      BY <2>2
    <3>2. Ask(asks) \in Messages /\ Ask(asks).prose <= turnNo
      BY <1>1, MessagesAreTyped DEF Ask, Message
    <3>3. QED
      BY <1>1, <3>1, <3>2, AppendedProse DEF ProseInOrder
  <2>3. QED
    BY <2>1, <2>2
<1>3. \A i \in DOMAIN history' : history'[i].prose \in Nat
  <2>1. \A i \in DOMAIN history' : history'[i] \in Messages
    BY <1>1
  <2>2. QED
    BY <2>1 DEF Messages
<1>4. /\ turnNo' = turnNo + 1 /\ start' = Len(history') /\ ~gated' /\ at' = "inject"
  BY DEF BeginTurn
<1>5. PastTo(history', turnNo') /\ Spared(history', start', turnNo')
  BY <1>1, <1>2, <1>3, <1>4 DEF PastTo, Spared
<1>6. QED
  BY <1>1, <1>4, <1>5 DEF ProseInOrder, GatedTurnsHideProse

LEMMA ProseRests ==
    ASSUME LdTypeOK, LdTypeOK', ProseInOrder, turnNo' = turnNo, at # "none", at' = "none", gated' = gated,
           PastTo(history', turnNo)
    PROVE  ProseInOrder'
  BY DEF LdTypeOK, ProseInOrder, GatedTurnsHideProse

(* A turn that ends in a failure of the gate.                              *)
LEMMA ProseIsHidden ==
    ASSUME LdTypeOK, LdTypeOK', ProseInOrder, at # "none", NEW h \in Seq(Messages),
           PastTo(h, turnNo), ~displaced => Spared(h, start, turnNo), EndInFailure(h)
    PROVE  ProseInOrder'
<1>1. turnNo \in Nat \ {0} /\ start \in Nat
  BY DEF LdTypeOK, ProseInOrder
<1>2. /\ history' = Append(Suppressed(h), Failure)
      /\ turnNo' = turnNo /\ displaced' = displaced /\ at' = "none" /\ gated'
  BY DEF EndInFailure, EndTurn, GiveBack
<1>3. Suppressed(h) \in Seq(Messages) /\ Failure \in Messages /\ Failure.prose = 0
  BY Suppressing, MessagesAreTyped DEF Failure, Message
<1>4. /\ PastTo(Suppressed(h), turnNo)
      /\ ~displaced => Spared(Suppressed(h), Len(Suppressed(h)), turnNo)
  BY <1>1, SuppressedProse
<1>5. PastTo(history', turnNo)
  BY <1>1, <1>2, <1>3, <1>4, AppendedProse
<1>6. ~displaced => Spared(history', Len(history'), turnNo)
  BY <1>1, <1>2, <1>3, <1>4, AppendedProse
<1>7. history' \in Seq(Messages) /\ Len(history') \in Nat /\ DOMAIN history' = 1..Len(history')
  BY DEF LdTypeOK
<1>8. GatedTurnsHideProse'
  BY <1>2, <1>6, <1>7 DEF GatedTurnsHideProse, Spared
<1>9. QED
  BY <1>1, <1>2, <1>5, <1>8 DEF ProseInOrder

LEMMA ProseInTurn == ASSUME LdTypeOK, LdTypeOK', ProseInOrder, Turn PROVE ProseInOrder'
<1> USE DEF batchVars, ghostVars
<1>0. /\ history \in Seq(Messages) /\ copy \in Seq(Messages) /\ due \in SUBSET Asks
      /\ turnNo \in Nat /\ done \in Nat /\ start \in Nat /\ back \in {"model", "inject"}
  BY DEF LdTypeOK, Asks
<1>1. CASE Inject
  <2>1. SameTurn
    BY <1>1 DEF Inject, SameTurn
  <2>2. Ask(due) \in Messages /\ Ask(due).prose = 0
    BY <1>0, MessagesAreTyped DEF Ask, Message
  <2>3. at' = "fit" /\ history' \in {history, Append(history, Ask(due))}
    BY <1>1 DEF Inject
  <2>4. QED
    BY <2>1, <2>2, <2>3, ProseStays, ProseGrows
<1>2. CASE Fit
  BY <1>2, ProseStays DEF Fit, SameTurn
<1>3. CASE Refit
  <2>1. /\ at = "refit" /\ at' \in {"compact", "model"} /\ history' = copy
        /\ UNCHANGED <<turnNo, start, gated, displaced>>
    BY <1>3 DEF Refit
  <2>2. QED
    BY <1>0, <2>1 DEF ProseInOrder, GatedTurnsHideProse
<1>4. CASE Compact
  BY <1>4, ProseStays DEF Compact, SameTurn
<1>5. CASE Compacted
  <2>1. PICK rest \in {<<Note>>, <<>>} : history' = <<Summary(AsksOf(copy))>> \o rest
    BY <1>5 DEF Compacted
  <2>2. Summary(AsksOf(copy)) \in Messages /\ Summary(AsksOf(copy)).prose = 0
    BY <1>0, MessagesAreTyped, AsksAreAsks DEF Summary, Message
  <2>3. Note \in Messages /\ Note.prose = 0
    BY MessagesAreTyped DEF Note, Message
  <2>4. rest \in Seq(Messages) /\ PastTo(rest, turnNo)
    <3>1. CASE rest = <<Note>>
      BY <1>0, <2>3, <3>1 DEF PastTo
    <3>2. CASE rest = <<>>
      BY <3>2, NoMessages DEF PastTo
    <3>3. QED
      BY <2>1, <3>1, <3>2
  <2>5. <<Summary(AsksOf(copy))>> \in Seq(Messages) /\ PastTo(<<Summary(AsksOf(copy))>>, turnNo)
    BY <1>0, <2>2 DEF PastTo
  <2>6. PastTo(history', turnNo)
    BY <1>0, <2>1, <2>4, <2>5, JoinedProse
  <2>7. /\ at # "none" /\ at' \in {"model", "inject"} /\ UNCHANGED <<turnNo, start, gated>>
        /\ displaced' = (displaced \/ Displaces(history'))
    BY <1>0, <1>5 DEF Compacted
  <2>8. ASSUME ~displaced' PROVE Spared(history', start, turnNo)
    <3>1. ~displaced /\ ~Displaces(history')
      BY <2>7, <2>8
    <3>2. Len(history') \in Nat /\ Len(history') > 0
      BY <1>0, <2>1, <2>4, <2>5
    <3>3. start <= Len(history) /\ Len(history) \in Nat /\ turnNo # 0
      BY <1>0, <2>7, <3>1 DEF ProseInOrder, Spared
    <3>4. start <= Len(history')
      BY <1>0, <3>1, <3>2, <3>3 DEF Displaces
    <3>5. \A i \in DOMAIN history' : history'[i].prose = 0
      <4>1. CASE rest = <<Note>>
        BY <2>1, <2>2, <2>3, <4>1
      <4>2. CASE rest = <<>>
        BY <2>1, <2>2, <4>2
      <4>3. QED
        BY <2>1, <4>1, <4>2
    <3>6. QED
      BY <3>3, <3>4, <3>5 DEF Spared
  <2>9. QED
    BY <2>6, <2>7, <2>8 DEF ProseInOrder, GatedTurnsHideProse
<1>6. CASE Reacted
  <2>1. history' = <<Summary(AsksOf(copy))>> \o Recently(history)
    BY <1>6 DEF Reacted
  <2>2. Summary(AsksOf(copy)) \in Messages /\ Summary(AsksOf(copy)).prose = 0
    BY <1>0, MessagesAreTyped, AsksAreAsks DEF Summary, Message
  <2>3. Recently(history) \in Seq(Messages) /\ PastTo(Recently(history), turnNo)
    BY <1>0, KeepingRecent, KeptProse DEF ProseInOrder
  <2>4. <<Summary(AsksOf(copy))>> \in Seq(Messages) /\ PastTo(<<Summary(AsksOf(copy))>>, turnNo)
    BY <1>0, <2>2 DEF PastTo
  <2>5. PastTo(history', turnNo)
    BY <1>0, <2>1, <2>3, <2>4, JoinedProse
  <2>6. /\ at # "none" /\ at' = "inject" /\ UNCHANGED <<turnNo, start, gated>>
        /\ displaced' = (displaced \/ Displaces(history'))
    BY <1>6 DEF Reacted
  <2>7. ASSUME ~displaced' PROVE Spared(history', start, turnNo)
    <3>1. ~displaced /\ ~Displaces(history')
      BY <2>6, <2>7
    <3>2. Spared(history, start, turnNo) /\ turnNo \in Nat \ {0}
      BY <1>0, <2>6, <3>1 DEF ProseInOrder
    <3>3. ~(start > 1 /\ Len(<<Summary(AsksOf(copy))>> \o Recently(history)) < Len(history))
      BY <2>1, <3>1, Zenon DEF Displaces
    <3>4. QED
      BY <1>0, <2>1, <2>2, <3>2, <3>3, ReactedProse
  <2>8. QED
    BY <2>5, <2>6, <2>7 DEF ProseInOrder, GatedTurnsHideProse
<1>7. CASE Answer
  <2>1. Message("text", 0, {}, turnNo) \in Messages /\ Message("text", 0, {}, turnNo).prose <= turnNo
    BY <1>0, MessagesAreTyped DEF Message
  <2>2. /\ history' = Append(history, Message("text", 0, {}, turnNo))
        /\ at # "none" /\ at' = "none" /\ UNCHANGED <<turnNo, gated>>
    BY <1>7 DEF Answer, EndTurn, GiveBack
  <2>3. PastTo(history', turnNo)
    BY <1>0, <2>1, <2>2, AppendedProse DEF ProseInOrder
  <2>4. QED
    BY <2>2, <2>3, ProseRests
<1>8. CASE Nudge
  <2>1. Note \in Messages /\ Note.prose = 0
    BY MessagesAreTyped DEF Note, Message
  <2>2. SameTurn /\ history' = Append(history, Note) /\ at' = "inject"
    BY <1>8 DEF Nudge, SameTurn
  <2>3. QED
    BY <2>1, <2>2, ProseGrows
<1>9. CASE GateFails
  <2>1. EndInFailure(history) /\ at # "none"
    BY <1>9 DEF GateFails
  <2>2. QED
    BY <1>0, <2>1, ProseIsHidden DEF ProseInOrder
<1>10. CASE Escalate
  BY <1>10, ProseStays DEF Escalate, SameTurn
<1>11. CASE Continue
  <2>1. PICK cut \in CutReply : history' = history \o <<cut, Note>>
    BY <1>11 DEF Continue
  <2>2. cut \in Messages /\ cut.prose <= turnNo /\ Note \in Messages /\ Note.prose <= turnNo
    BY <1>0, MessagesAreTyped DEF CutReply, Note, Message
  <2>3. <<cut, Note>> \in Seq(Messages) /\ PastTo(<<cut, Note>>, turnNo)
    BY <2>2 DEF PastTo
  <2>4. /\ at # "none" /\ at' = "inject" /\ UNCHANGED <<turnNo, start, gated, displaced>>
    BY <1>11 DEF Continue
  <2>5. PastTo(history', turnNo) /\ (~displaced => Spared(history', start, turnNo))
    BY <1>0, <2>1, <2>3, <2>4, JoinedProse DEF ProseInOrder
  <2>6. QED
    BY <2>4, <2>5 DEF ProseInOrder, GatedTurnsHideProse
<1>12. CASE GiveUp
  <2>1. PICK cut \in CutReply : IF Pending THEN EndInFailure(Append(history, cut))
                                ELSE EndTurn(Append(history, cut)) /\ UNCHANGED gated
    BY <1>12, Zenon DEF GiveUp
  <2>2. cut \in Messages /\ cut.prose <= turnNo
    BY <1>0, MessagesAreTyped DEF CutReply, Message
  <2>3. /\ Append(history, cut) \in Seq(Messages)
        /\ PastTo(Append(history, cut), turnNo)
    BY <1>0, <2>2, Appending, AppendedProse DEF ProseInOrder
  <2>4. at = "model"
    BY <1>12 DEF GiveUp
  <2>5. ~displaced => Spared(Append(history, cut), start, turnNo)
    BY <1>0, <2>2, <2>4, AppendedProse DEF ProseInOrder
  <2>6. CASE Pending
    BY <2>1, <2>3, <2>4, <2>5, <2>6, ProseIsHidden
  <2>7. CASE ~Pending
    <3>1. history' = Append(history, cut) /\ at' = "none" /\ UNCHANGED <<turnNo, gated>>
      BY <2>1, <2>7 DEF EndTurn, GiveBack
    <3>2. QED
      BY <2>3, <2>4, <3>1, ProseRests
  <2>8. QED
    BY <2>6, <2>7
<1>13. CASE TooLong
  BY <1>13, ProseStays DEF TooLong, SameTurn
<1>14. CASE ModelFails
  <2>1. Failure \in Messages /\ Failure.prose <= turnNo
    BY <1>0, MessagesAreTyped DEF Failure, Message
  <2>2. /\ history' = Append(history, Failure)
        /\ at # "none" /\ at' = "none" /\ UNCHANGED <<turnNo, gated>>
    BY <1>14 DEF ModelFails, EndTurn, GiveBack
  <2>3. PastTo(history', turnNo)
    BY <1>0, <2>1, <2>2, AppendedProse DEF ProseInOrder
  <2>4. QED
    BY <2>2, <2>3, ProseRests
<1>15. ASSUME NEW n \in 1..MaxCalls, CallTools(n) PROVE ProseInOrder'
  <2>1. /\ Message("call", n, {}, turnNo) \in Messages
        /\ Message("call", n, {}, turnNo).prose = turnNo
    BY <1>0, MessagesAreTyped DEF Message
  <2>2. /\ SameTurn /\ history' = Append(history, Message("call", n, {}, turnNo))
        /\ at # "none" /\ at' = "tools"
    BY <1>15 DEF CallTools, SameTurn
  <2>3. QED
    BY <2>1, <2>2, ProseGrows
<1>16. CASE RunTool
  BY <1>16, ProseStays DEF RunTool, SameTurn
<1>17. CASE CompactTool
  BY <1>17, ProseStays DEF CompactTool, SameTurn
<1>18. CASE SendResults
  <2>1. /\ Message("results", done, {}, 0) \in Messages
        /\ Message("results", done, {}, 0).prose = 0
    BY <1>0, MessagesAreTyped DEF Message
  <2>2. SameTurn /\ history' = Append(history, Message("results", done, {}, 0)) /\ at' = "inject"
    BY <1>18 DEF SendResults, SameTurn
  <2>3. QED
    BY <2>1, <2>2, ProseGrows
<1>19. CASE Raise
  <2>1. /\ history' = history /\ at # "none" /\ at' = "none" /\ UNCHANGED <<turnNo, gated>>
    BY <1>19 DEF Raise, GiveBack
  <2>2. QED
    BY <2>1, ProseRests DEF ProseInOrder
<1>20. QED
  BY <1>1, <1>2, <1>3, <1>4, <1>5, <1>6, <1>7, <1>8, <1>9, <1>10, <1>11, <1>12, <1>13,
     <1>14, <1>15, <1>16, <1>17, <1>18, <1>19 DEF Turn

LEMMA ProseStep == ASSUME LdTypeOK, LdTypeOK', ProseInOrder, LdNext PROVE ProseInOrder'
<1> USE DEF turnVars, ghostVars
<1>0. unread \in SUBSET Asks /\ held \in SUBSET Asks
  BY DEF LdTypeOK, Asks
<1>00. \A asks \in SUBSET Asks : Ask(asks) \in Messages /\ Ask(asks).prose = 0
  BY MessagesAreTyped DEF Ask, Message
<1>1. ASSUME NEW p \in Prompts, Fires(p) PROVE ProseInOrder'
  BY <1>1, ProseStays DEF Fires, SameTurn
<1>2. ASSUME NEW m \in Letters, Writes(m) PROVE ProseInOrder'
  BY <1>2, ProseStays DEF Writes, SameTurn
<1>3. ASSUME NEW q \in Queries, Submit(q) PROVE ProseInOrder'
  <2>1. SameTurn /\ copy' = copy /\ history' = Append(history, Ask({q}))
    BY <1>3 DEF Submit, AppendOutside, SameTurn
  <2>2. {q} \in SUBSET Asks
    BY DEF Asks
  <2>3. QED
    BY <1>00, <2>1, <2>2, ProseGrows
<1>4. CASE Quit
  BY <1>4, ProseStays DEF Quit, SameTurn
<1>5. CASE AppendInbox
  <2>1. SameTurn /\ copy' = copy /\ history' \in {history, Append(history, Ask(unread))}
    BY <1>5 DEF AppendInbox, AppendOutside, SameTurn
  <2>2. QED
    BY <1>0, <1>00, <2>1, ProseStays, ProseGrows
<1>6. CASE CliTurn
  <2>1. history' = history /\ BeginTurn
    BY <1>6 DEF CliTurn
  <2>2. QED
    BY <2>1, ProseBegins
<1>7. CASE AutoClaim
  BY <1>7, ProseStays DEF AutoClaim, SameTurn
<1>8. CASE AutoTurn
  <2>1. history' = Append(history, Ask(held)) /\ BeginTurn
    BY <1>8 DEF AutoTurn
  <2>2. QED
    BY <1>0, <2>1, ProseBegins
<1>9. CASE Turn
  BY <1>9, ProseInTurn
<1>10. QED
  BY <1>1, <1>2, <1>3, <1>4, <1>5, <1>6, <1>7, <1>8, <1>9 DEF LdNext

(* A turn that fails the completion gate shows no prose of its own, for    *)
(* any number of turns and any length of the conversation, whatever the    *)
(* CLI appends and budgeting drops meanwhile: turn_start stays right, also *)
(* through compactions, until a summary shortens the conversation in a     *)
(* turn that began behind its first message.  (_suppress_research_prose)   *)
THEOREM FailedTurnsShowNothing == LdSpec => []GatedTurnsHideProse
<1>1. LdInit => ProseInOrder
  BY DEF LdInit, ProseInOrder, PastTo, GatedTurnsHideProse
<1>2. LdTypeOK /\ LdTypeOK' /\ ProseInOrder /\ [LdNext]_vars => ProseInOrder'
  <2> SUFFICES ASSUME LdTypeOK, LdTypeOK', ProseInOrder, [LdNext]_vars PROVE ProseInOrder'
    OBVIOUS
  <2>1. CASE LdNext
    BY <2>1, ProseStep
  <2>2. CASE UNCHANGED vars
    BY <2>2 DEF vars, turnVars, ghostVars, ProseInOrder, GatedTurnsHideProse
  <2>3. QED
    BY <2>1, <2>2
<1>3. ProseInOrder => GatedTurnsHideProse
  BY DEF ProseInOrder
<1>4. QED
  BY <1>1, <1>2, <1>3, TypeCorrect, PTL DEF LdSpec
-----------------------------------------------------------------------------
(* The parts of CallsAreAnswered, and calls whose results are still to     *)
(* come: behind them lie asks only.                                        *)
ResultsCalled(h) ==
    \A i \in DOMAIN h : h[i].kind = "results" =>
        CutOff(h, i) \/ \E j \in DOMAIN h : Answers(h, j, i)
ToRun(m) == m.kind = "call" /\ m.count > 0
AllAnswered(h) == \A j \in DOMAIN h : ToRun(h[j]) => Answered(h, j)
Open(h, j) == h[j].kind = "call" /\ \A k \in (j + 1)..Len(h) : h[k].kind = "ask"
OpenSoFar(h) == \A j \in DOMAIN h : ToRun(h[j]) => Answered(h, j) \/ Open(h, j)
KeepsCalls(h, g) ==
    /\ ResultsCalled(h) => ResultsCalled(g)
    /\ AllAnswered(h) => AllAnswered(g)

(* g begins with messages like those of h.                                 *)
Begins(h, g) ==
    \A i \in DOMAIN h : i \in DOMAIN g /\ g[i].kind = h[i].kind /\ g[i].count = h[i].count

LEMMA Beginning ==
    ASSUME NEW h \in Seq(Messages), NEW g \in Seq(Messages), Begins(h, g)
    PROVE  /\ \A i \in DOMAIN h : CutOff(h, i) => CutOff(g, i)
           /\ \A i, j \in DOMAIN h : Answers(h, j, i) => Answers(g, j, i)
           /\ \A j \in DOMAIN h : Answered(h, j) => Answered(g, j)
<1>1. DOMAIN h = 1..Len(h) /\ Len(h) \in Nat
  OBVIOUS
<1>2. ASSUME NEW i \in DOMAIN h, CutOff(h, i) PROVE CutOff(g, i)
  <2>1. \A k \in 1..(i - 1) : k \in DOMAIN h
    BY <1>1
  <2>2. QED
    BY <1>2, <2>1 DEF CutOff, Begins
<1>3. ASSUME NEW i \in DOMAIN h, NEW j \in DOMAIN h, Answers(h, j, i) PROVE Answers(g, j, i)
  <2>1. \A k \in (j + 1)..(i - 1) : k \in DOMAIN h
    BY <1>1
  <2>2. \A k \in (j + 1)..(i - 1) : g[k].kind = "ask"
    BY <1>3, <2>1 DEF Answers, Begins
  <2>3. QED
    BY <1>3, <2>2 DEF Answers, Begins
<1>4. ASSUME NEW j \in DOMAIN h, Answered(h, j) PROVE Answered(g, j)
  <2>1. PICK i \in DOMAIN h : Answers(h, j, i)
    BY <1>4 DEF Answered
  <2>2. Answers(g, j, i) /\ i \in DOMAIN g
    BY <1>3, <2>1 DEF Begins
  <2>3. QED
    BY <2>2 DEF Answered
<1>5. QED
  BY <1>2, <1>3, <1>4

(* What goes behind the messages, if it is no results and no calls to run. *)
LEMMA Following ==
    ASSUME NEW h \in Seq(Messages), NEW g \in Seq(Messages), Begins(h, g),
           \A i \in DOMAIN g : i \in DOMAIN h \/ (g[i].kind # "results" /\ ~ToRun(g[i]))
    PROVE  KeepsCalls(h, g)
<1>1. /\ \A i \in DOMAIN h : CutOff(h, i) => CutOff(g, i)
      /\ \A i, j \in DOMAIN h : Answers(h, j, i) => Answers(g, j, i)
      /\ \A j \in DOMAIN h : Answered(h, j) => Answered(g, j)
  BY Beginning
<1>2. ASSUME ResultsCalled(h) PROVE ResultsCalled(g)
  <2> SUFFICES ASSUME NEW i \in DOMAIN g, g[i].kind = "results"
               PROVE  CutOff(g, i) \/ \E j \in DOMAIN g : Answers(g, j, i)
    BY DEF ResultsCalled
  <2>1. i \in DOMAIN h /\ h[i].kind = "results"
    BY DEF Begins
  <2>2. CutOff(h, i) \/ \E j \in DOMAIN h : Answers(h, j, i)
    BY <1>2, <2>1 DEF ResultsCalled
  <2>3. QED
    BY <1>1, <2>1, <2>2 DEF Begins
<1>3. ASSUME AllAnswered(h) PROVE AllAnswered(g)
  <2> SUFFICES ASSUME NEW j \in DOMAIN g, ToRun(g[j]) PROVE Answered(g, j)
    BY DEF AllAnswered
  <2>1. j \in DOMAIN h /\ ToRun(h[j])
    BY DEF Begins, ToRun
  <2>2. QED
    BY <1>1, <1>3, <2>1 DEF AllAnswered
<1>4. QED
  BY <1>2, <1>3 DEF KeepsCalls

LEMMA AppendBegins ==
    ASSUME NEW h \in Seq(Messages), NEW m \in Messages
    PROVE  /\ Append(h, m) \in Seq(Messages) /\ Begins(h, Append(h, m))
           /\ DOMAIN h = 1..Len(h) /\ Len(h) \in Nat
           /\ Len(Append(h, m)) = Len(h) + 1 /\ DOMAIN Append(h, m) = 1..(Len(h) + 1)
           /\ Append(h, m)[Len(h) + 1] = m
           /\ \A i \in 1..Len(h) : Append(h, m)[i] = h[i]
<1>1. /\ Append(h, m) \in Seq(Messages)
      /\ DOMAIN h = 1..Len(h) /\ Len(h) \in Nat
      /\ Len(Append(h, m)) = Len(h) + 1 /\ DOMAIN Append(h, m) = 1..(Len(h) + 1)
      /\ Append(h, m)[Len(h) + 1] = m
      /\ \A i \in 1..Len(h) : Append(h, m)[i] = h[i]
  OBVIOUS
<1>2. QED
  BY <1>1 DEF Begins

LEMMA AppendKeeps ==
    ASSUME NEW h \in Seq(Messages), NEW m \in Messages, m.kind # "results", ~ToRun(m)
    PROVE  KeepsCalls(h, Append(h, m))
<1>1. /\ Append(h, m) \in Seq(Messages) /\ Begins(h, Append(h, m))
      /\ \A i \in DOMAIN Append(h, m) : i \in DOMAIN h \/ Append(h, m)[i] = m
  BY AppendBegins
<1>2. QED
  BY <1>1, Following

LEMMA SuppressedKeeps ==
    ASSUME NEW h \in Seq(Messages)
    PROVE  Suppressed(h) \in Seq(Messages) /\ KeepsCalls(h, Suppressed(h))
<1>1. /\ Suppressed(h) \in Seq(Messages) /\ DOMAIN Suppressed(h) = DOMAIN h
      /\ \A i \in DOMAIN h : h[i] \in Messages
  BY Suppressing DEF Suppressed
<1>2. \A i \in DOMAIN h : /\ Suppressed(h)[i].kind = h[i].kind
                          /\ Suppressed(h)[i].count = h[i].count
  BY <1>1 DEF Suppressed, Messages
<1>3. Begins(h, Suppressed(h))
  BY <1>1, <1>2 DEF Begins
<1>4. QED
  BY <1>1, <1>3, Following

(* Asks leave calls open; results go to the call that is open, which can   *)
(* only be one; and a call goes behind messages with none open.            *)
LEMMA AsksLeaveOpen ==
    ASSUME NEW h \in Seq(Messages), NEW m \in Messages, m.kind = "ask"
    PROVE  /\ OpenSoFar(h) => OpenSoFar(Append(h, m))
           /\ \A j \in DOMAIN h : Open(h, j) => Open(Append(h, m), j)
<1> DEFINE g == Append(h, m)
<1>1. /\ g \in Seq(Messages) /\ Begins(h, g)
      /\ DOMAIN h = 1..Len(h) /\ Len(h) \in Nat
      /\ Len(g) = Len(h) + 1 /\ DOMAIN g = 1..(Len(h) + 1)
      /\ g[Len(h) + 1] = m
      /\ \A i \in 1..Len(h) : g[i] = h[i]
  BY AppendBegins
<1> HIDE DEF g
<1>2. ASSUME NEW j \in DOMAIN h, Open(h, j) PROVE Open(g, j)
  <2> SUFFICES ASSUME NEW k \in (j + 1)..Len(g) PROVE g[k].kind = "ask"
    BY <1>1, <1>2 DEF Open
  <2>1. CASE k = Len(h) + 1
    BY <1>1, <2>1
  <2>2. CASE k # Len(h) + 1
    <3>1. k \in (j + 1)..Len(h) /\ k \in 1..Len(h)
      BY <1>1, <2>2
    <3>2. QED
      BY <1>1, <1>2, <3>1 DEF Open
  <2>3. QED
    BY <2>1, <2>2
<1>3. ASSUME OpenSoFar(h) PROVE OpenSoFar(g)
  <2> SUFFICES ASSUME NEW j \in DOMAIN g, ToRun(g[j]) PROVE Answered(g, j) \/ Open(g, j)
    BY DEF OpenSoFar
  <2>1. j \in DOMAIN h /\ ToRun(h[j])
    <3>1. g[j] # m
      BY DEF ToRun
    <3>2. j # Len(h) + 1 /\ j \in 1..(Len(h) + 1)
      BY <1>1, <3>1
    <3>3. j \in 1..Len(h)
      BY <1>1, <3>2
    <3>4. QED
      BY <1>1, <3>3
  <2>2. Answered(h, j) \/ Open(h, j)
    BY <1>3, <2>1 DEF OpenSoFar
  <2>3. QED
    BY <1>1, <1>2, <2>1, <2>2, Beginning
<1>4. QED
  BY <1>2, <1>3 DEF g

LEMMA ResultsAnswer ==
    ASSUME NEW h \in Seq(Messages), NEW m \in Messages, m.kind = "results",
           NEW c \in DOMAIN h, Open(h, c), h[c].count = m.count
    PROVE  /\ ResultsCalled(h) => ResultsCalled(Append(h, m))
           /\ OpenSoFar(h) => AllAnswered(Append(h, m))
<1> DEFINE g == Append(h, m)
<1>1. /\ g \in Seq(Messages) /\ Begins(h, g)
      /\ DOMAIN h = 1..Len(h) /\ Len(h) \in Nat
      /\ Len(g) = Len(h) + 1 /\ DOMAIN g = 1..(Len(h) + 1)
      /\ g[Len(h) + 1] = m
      /\ \A i \in 1..Len(h) : g[i] = h[i]
  BY AppendBegins
<1> HIDE DEF g
<1>2. /\ \A i \in DOMAIN h : CutOff(h, i) => CutOff(g, i)
      /\ \A i, j \in DOMAIN h : Answers(h, j, i) => Answers(g, j, i)
      /\ \A j \in DOMAIN h : Answered(h, j) => Answered(g, j)
  BY <1>1, Beginning
<1>3. Answers(g, c, Len(h) + 1)
  <2>1. \A k \in (c + 1)..(Len(h) + 1 - 1) : k \in (c + 1)..Len(h) /\ k \in 1..Len(h)
    BY <1>1
  <2>2. \A k \in (c + 1)..(Len(h) + 1 - 1) : g[k].kind = "ask"
    BY <1>1, <2>1 DEF Open
  <2>3. c < Len(h) + 1 /\ g[c] = h[c]
    BY <1>1
  <2>4. QED
    BY <1>1, <2>2, <2>3 DEF Answers, Open
<1>4. ASSUME ResultsCalled(h) PROVE ResultsCalled(g)
  <2> SUFFICES ASSUME NEW i \in DOMAIN g, g[i].kind = "results"
               PROVE  CutOff(g, i) \/ \E j \in DOMAIN g : Answers(g, j, i)
    BY DEF ResultsCalled
  <2>1. CASE i = Len(h) + 1
    BY <1>1, <1>3, <2>1
  <2>2. CASE i # Len(h) + 1
    <3>1. i \in DOMAIN h /\ h[i].kind = "results"
      BY <1>1, <2>2
    <3>2. CutOff(h, i) \/ \E j \in DOMAIN h : Answers(h, j, i)
      BY <1>4, <3>1 DEF ResultsCalled
    <3>3. QED
      BY <1>1, <1>2, <3>1, <3>2
  <2>3. QED
    BY <2>1, <2>2
<1>5. ASSUME OpenSoFar(h) PROVE AllAnswered(g)
  <2> SUFFICES ASSUME NEW j \in DOMAIN g, ToRun(g[j]) PROVE Answered(g, j)
    BY DEF AllAnswered
  <2>1. j \in DOMAIN h /\ ToRun(h[j])
    <3>1. g[j] # m
      BY DEF ToRun
    <3>2. j # Len(h) + 1 /\ j \in 1..(Len(h) + 1)
      BY <1>1, <3>1
    <3>3. j \in 1..Len(h)
      BY <1>1, <3>2
    <3>4. QED
      BY <1>1, <3>3
  <2>2. Answered(h, j) \/ Open(h, j)
    BY <1>5, <2>1 DEF OpenSoFar
  <2>3. CASE Answered(h, j)
    BY <1>2, <2>1, <2>3
  <2>4. CASE Open(h, j)
    <3>1. h[j].kind = "call" /\ h[c].kind = "call"
      BY <2>4 DEF Open
    <3>2. ~(j < c) /\ ~(c < j)
      <4>1. j < c => c \in (j + 1)..Len(h)
        BY <1>1, <2>1
      <4>2. c < j => j \in (c + 1)..Len(h)
        BY <1>1, <2>1
      <4>3. QED
        BY <2>4, <3>1, <4>1, <4>2 DEF Open
    <3>3. j = c
      BY <1>1, <2>1, <3>2
    <3>4. QED
      BY <1>1, <1>3, <3>3 DEF Answered
  <2>5. QED
    BY <2>2, <2>3, <2>4
<1>6. QED
  BY <1>4, <1>5 DEF g

LEMMA CallOpens ==
    ASSUME NEW h \in Seq(Messages), NEW m \in Messages, m.kind = "call"
    PROVE  /\ Len(h) + 1 \in DOMAIN Append(h, m) /\ Open(Append(h, m), Len(h) + 1)
           /\ ResultsCalled(h) => ResultsCalled(Append(h, m))
           /\ AllAnswered(h) => OpenSoFar(Append(h, m))
<1> DEFINE g == Append(h, m)
<1>1. /\ g \in Seq(Messages) /\ Begins(h, g)
      /\ DOMAIN h = 1..Len(h) /\ Len(h) \in Nat
      /\ Len(g) = Len(h) + 1 /\ DOMAIN g = 1..(Len(h) + 1)
      /\ g[Len(h) + 1] = m
      /\ \A i \in 1..Len(h) : g[i] = h[i]
  BY AppendBegins
<1> HIDE DEF g
<1>2. /\ \A i \in DOMAIN h : CutOff(h, i) => CutOff(g, i)
      /\ \A i, j \in DOMAIN h : Answers(h, j, i) => Answers(g, j, i)
      /\ \A j \in DOMAIN h : Answered(h, j) => Answered(g, j)
  BY <1>1, Beginning
<1>3. Len(h) + 1 \in DOMAIN g /\ Open(g, Len(h) + 1)
  BY <1>1 DEF Open
<1>4. ASSUME ResultsCalled(h) PROVE ResultsCalled(g)
  <2> SUFFICES ASSUME NEW i \in DOMAIN g, g[i].kind = "results"
               PROVE  CutOff(g, i) \/ \E j \in DOMAIN g : Answers(g, j, i)
    BY DEF ResultsCalled
  <2>1. g[i] # m
    OBVIOUS
  <2>2. i # Len(h) + 1 /\ i \in 1..(Len(h) + 1)
    BY <1>1, <2>1
  <2>3. i \in DOMAIN h /\ h[i].kind = "results"
    BY <1>1, <2>2
  <2>4. CutOff(h, i) \/ \E j \in DOMAIN h : Answers(h, j, i)
    BY <1>4, <2>3 DEF ResultsCalled
  <2>5. QED
    BY <1>1, <1>2, <2>3, <2>4
<1>5. ASSUME AllAnswered(h) PROVE OpenSoFar(g)
  <2> SUFFICES ASSUME NEW j \in DOMAIN g, ToRun(g[j]) PROVE Answered(g, j) \/ Open(g, j)
    BY DEF OpenSoFar
  <2>1. CASE j = Len(h) + 1
    BY <1>3, <2>1
  <2>2. CASE j # Len(h) + 1
    <3>1. j \in 1..Len(h)
      BY <1>1, <2>2
    <3>2. j \in DOMAIN h /\ ToRun(h[j])
      BY <1>1, <3>1
    <3>3. QED
      BY <1>2, <1>5, <3>2 DEF AllAnswered
  <2>3. QED
    BY <2>1, <2>2
<1>6. QED
  BY <1>3, <1>4, <1>5 DEF g

(* A reactive compaction keeps the last messages: results whose calls it   *)
(* drops have only asks between them and the summary.                      *)
LEMMA RecentKeeps ==
    ASSUME NEW s \in Messages, s.kind = "summary", NEW h \in Seq(Messages)
    PROVE  KeepsCalls(h, <<s>> \o Recently(h))
<1> DEFINE g == <<s>> \o Recently(h)
           d == IF Len(h) <= Recent THEN 0 ELSE Len(h) - Recent
<1>1. /\ Recently(h) \in Seq(Messages) /\ Recent \in Nat \ {0} /\ Len(h) \in Nat
      /\ DOMAIN h = 1..Len(h)
  BY KeepingRecent, LeadAssumption
<1>2. /\ d \in 0..Len(h) /\ Len(Recently(h)) = Len(h) - d
      /\ \A i \in 1..(Len(h) - d) : Recently(h)[i] = h[d + i]
  <2>1. CASE Len(h) <= Recent
    BY <1>1, <2>1 DEF Recently
  <2>2. CASE ~(Len(h) <= Recent)
    <3>1. Recently(h) = SubSeq(h, Len(h) - Recent + 1, Len(h)) /\ d = Len(h) - Recent
      BY <2>2 DEF Recently
    <3> HIDE DEF d
    <3>2. /\ Len(Recently(h)) = Recent
          /\ \A i \in 1..Recent : Recently(h)[i] = h[Len(h) - Recent + i]
      BY <1>1, <2>2, <3>1
    <3>3. QED
      BY <1>1, <2>2, <3>1, <3>2
  <2>3. QED
    BY <2>1, <2>2
<1> HIDE DEF d
<1>3. /\ Len(g) = Len(h) - d + 1 /\ DOMAIN g = 1..(Len(h) - d + 1)
      /\ g[1] = s /\ \A i \in 2..(Len(h) - d + 1) : g[i] = Recently(h)[i - 1]
  <2>1. /\ Len(g) = Len(Recently(h)) + 1 /\ DOMAIN g = 1..(Len(Recently(h)) + 1)
        /\ g[1] = s /\ \A i \in 2..(Len(Recently(h)) + 1) : g[i] = Recently(h)[i - 1]
    BY <1>1
  <2>2. Len(Recently(h)) = Len(h) - d
    BY <1>2
  <2> HIDE DEF g
  <2>3. QED
    BY <2>1, <2>2
<1> HIDE DEF g
<1>4. \A i \in 2..(Len(h) - d + 1) : d + i - 1 \in DOMAIN h /\ g[i] = h[d + i - 1]
  <2> TAKE i \in 2..(Len(h) - d + 1)
  <2>1. i - 1 \in 1..(Len(h) - d) /\ d + (i - 1) = d + i - 1
    BY <1>1, <1>2
  <2>2. QED
    BY <1>1, <1>2, <1>3, <2>1
<1>5. \A i \in DOMAIN h : i > d =>
          /\ i - d + 1 \in 2..(Len(h) - d + 1) /\ i - d + 1 \in DOMAIN g
          /\ g[i - d + 1] = h[i]
  <2> TAKE i \in DOMAIN h
  <2> SUFFICES ASSUME i > d PROVE /\ i - d + 1 \in 2..(Len(h) - d + 1)
                                  /\ i - d + 1 \in DOMAIN g
                                  /\ g[i - d + 1] = h[i]
    OBVIOUS
  <2>1. i - d + 1 \in 2..(Len(h) - d + 1) /\ d + (i - d + 1) - 1 = i
    BY <1>1, <1>2
  <2>2. QED
    BY <1>2, <1>3, <1>4, <2>1
<1>6. ASSUME NEW i \in DOMAIN g, g[i].kind \in {"call", "results"}
      PROVE  i \in 2..(Len(h) - d + 1) /\ d + i - 1 \in DOMAIN h /\ g[i] = h[d + i - 1]
  <2>1. i # 1
    BY <1>3, <1>6
  <2>2. i \in 2..(Len(h) - d + 1)
    BY <1>1, <1>2, <1>3, <2>1
  <2>3. QED
    BY <1>4, <2>2
<1>7. ASSUME NEW i \in DOMAIN h, NEW j \in DOMAIN h, Answers(h, j, i), j > d
      PROVE  Answers(g, j - d + 1, i - d + 1)
  <2>1. j < i /\ i > d
    BY <1>1, <1>2, <1>7 DEF Answers
  <2>2. g[i - d + 1] = h[i] /\ g[j - d + 1] = h[j]
    BY <1>5, <1>7, <2>1
  <2> DEFINE b == j - d + 1
             e == i - d + 1
  <2>3. ASSUME NEW k \in (b + 1)..(e - 1) PROVE g[k].kind = "ask"
    <3>1. k \in 2..(Len(h) - d + 1) /\ d + k - 1 \in (j + 1)..(i - 1)
      BY <1>1, <1>2, <1>7, <2>1
    <3>2. QED
      BY <1>4, <1>7, <3>1 DEF Answers
  <2>4. b < e
    BY <1>1, <1>2, <2>1
  <2>5. h[j].kind = "call" /\ h[i].kind = "results" /\ h[i].count = h[j].count
    BY <1>7 DEF Answers
  <2>6. g[e] = h[i] /\ g[b] = h[j]
    BY <2>2
  <2> HIDE DEF b, e
  <2>7. Answers(g, b, e)
    BY <2>3, <2>4, <2>5, <2>6 DEF Answers
  <2>8. QED
    BY <2>7 DEF b, e
<1>8. ASSUME ResultsCalled(h) PROVE ResultsCalled(g)
  <2> SUFFICES ASSUME NEW i \in DOMAIN g, g[i].kind = "results"
               PROVE  CutOff(g, i) \/ \E j \in DOMAIN g : Answers(g, j, i)
    BY DEF ResultsCalled
  <2> DEFINE p == d + i - 1
  <2>1. i \in 2..(Len(h) - d + 1) /\ p \in DOMAIN h /\ g[i] = h[p]
    BY <1>6
  <2>2. p > d /\ p - d + 1 = i
    BY <1>1, <1>2, <2>1
  <2>3. \A k \in 2..(i - 1) : /\ g[k] = h[d + k - 1] /\ d + k - 1 \in DOMAIN h
                              /\ d + k - 1 \in (d + 1)..(p - 1)
                              /\ d + k - 1 \in 1..(p - 1)
    <3> TAKE k \in 2..(i - 1)
    <3>1. k \in 2..(Len(h) - d + 1)
      BY <1>1, <1>2, <2>1
    <3>2. d + k - 1 \in (d + 1)..(p - 1) /\ d + k - 1 \in 1..(p - 1)
      BY <1>1, <1>2, <2>1
    <3>3. QED
      BY <1>4, <3>1, <3>2
  <2>4. (\A k \in 2..(i - 1) : g[k].kind \in {"summary", "ask"}) => CutOff(g, i)
    <3> SUFFICES ASSUME \A k \in 2..(i - 1) : g[k].kind \in {"summary", "ask"},
                        NEW k \in 1..(i - 1)
                 PROVE  g[k].kind \in {"summary", "ask"}
      BY DEF CutOff
    <3>1. k = 1 \/ k \in 2..(i - 1)
      BY <1>1, <1>2, <2>1
    <3>2. QED
      BY <1>3, <3>1
  <2>5. CASE CutOff(h, p)
    BY <2>3, <2>4, <2>5 DEF CutOff
  <2>6. ASSUME NEW j \in DOMAIN h, Answers(h, j, p)
        PROVE  CutOff(g, i) \/ \E q \in DOMAIN g : Answers(g, q, i)
    <3>1. CASE j > d
      <4>1. Answers(g, j - d + 1, p - d + 1) /\ j - d + 1 \in DOMAIN g
        BY <1>5, <1>7, <2>1, <2>6, <3>1
      <4>2. QED
        BY <2>2, <4>1
    <3>2. CASE ~(j > d)
      <4>1. \A k \in (d + 1)..(p - 1) : k \in (j + 1)..(p - 1)
        BY <1>1, <1>2, <2>1, <3>2
      <4>2. \A k \in (d + 1)..(p - 1) : h[k].kind = "ask"
        BY <2>6, <4>1 DEF Answers
      <4>3. \A k \in 2..(i - 1) : g[k].kind = "ask"
        BY <2>3, <4>2
      <4>4. QED
        BY <2>4, <4>3
    <3>3. QED
      BY <3>1, <3>2
  <2>7. h[p].kind = "results"
    BY <2>1
  <2>8. CutOff(h, p) \/ \E j \in DOMAIN h : Answers(h, j, p)
    BY <1>8, <2>1, <2>7 DEF ResultsCalled
  <2>9. QED
    BY <2>5, <2>6, <2>8
<1>9. ASSUME AllAnswered(h) PROVE AllAnswered(g)
  <2> SUFFICES ASSUME NEW j \in DOMAIN g, ToRun(g[j]) PROVE Answered(g, j)
    BY DEF AllAnswered
  <2> DEFINE p == d + j - 1
  <2>1. j \in 2..(Len(h) - d + 1) /\ p \in DOMAIN h /\ g[j] = h[p]
    BY <1>6 DEF ToRun
  <2>2. p > d /\ p - d + 1 = j
    BY <1>1, <1>2, <2>1
  <2>3. Answered(h, p)
    BY <1>9, <2>1 DEF AllAnswered
  <2>4. PICK i \in DOMAIN h : Answers(h, p, i)
    BY <2>3 DEF Answered
  <2>5. i > p
    BY <2>4 DEF Answers
  <2>6. i > d
    BY <1>1, <1>2, <2>1, <2>2, <2>5
  <2>7. Answers(g, p - d + 1, i - d + 1) /\ i - d + 1 \in DOMAIN g
    BY <1>5, <1>7, <2>1, <2>2, <2>4, <2>6
  <2>8. QED
    BY <2>2, <2>7 DEF Answered
<1>10. QED
  BY <1>8, <1>9 DEF KeepsCalls, g

(* The invariant: results are called for in the messages and in the copy   *)
(* that is written back; and until the process ends in a turn of the CLI   *)
(* or the autorun thread dies, every call to run is answered, but for the  *)
(* one whose calls are run, which is open up to the summary of the compact *)
(* tool.  The calls run and to run of it add up.                           *)
AmidCalls == at = "tools" \/ (at \in {"compact", "compacted"} /\ back = "inject")
Unbroken == auto # "dead" /\ ~(cli = "exited" /\ at = "none")
CallsInOrder ==
    /\ ResultsCalled(history)
    /\ at = "refit" => ResultsCalled(copy) /\ (Unbroken => AllAnswered(copy))
    /\ at = "tools" => \E c \in DOMAIN history : /\ Open(history, c)
                                                  /\ history[c].count = left + done
    /\ Unbroken /\ AmidCalls => OpenSoFar(history)
    /\ Unbroken /\ ~AmidCalls => AllAnswered(history)

(* The autorun thread does not come back, and the process takes no step    *)
(* after its end.                                                          *)
LEMMA StillUnbroken == ASSUME LdTypeOK, Locked, LdNext PROVE Unbroken' => Unbroken
<1> USE DEF Unbroken, Locked, threadVars
<1>1. cli # "exited"
  BY DEF LdNext
<1>2. CASE Turn
  <2>1. CASE Inject \/ Fit \/ Refit \/ Compact \/ Compacted \/ Reacted
    BY <1>1, <2>1 DEF Inject, Fit, Refit, Compact, Compacted, Reacted
  <2>2. CASE Answer \/ Nudge \/ GateFails \/ Escalate \/ Continue \/ TooLong \/ ModelFails
    BY <1>1, <2>2 DEF Answer, Nudge, GateFails, Escalate, Continue, TooLong, ModelFails,
                      EndInFailure, EndTurn
  <2>3. CASE GiveUp
    <3>1. PICK cut : IF Pending THEN EndInFailure(Append(history, cut))
                     ELSE EndTurn(Append(history, cut))
      BY <2>3, Zenon DEF GiveUp
    <3>2. auto' = IF holder = "auto" THEN "sleeping" ELSE auto
      BY <3>1, Zenon DEF EndInFailure, EndTurn
    <3>3. QED
      BY <1>1, <3>2
  <2>4. ASSUME NEW n \in 1..MaxCalls, CallTools(n) PROVE Unbroken' => Unbroken
    BY <1>1, <2>4 DEF CallTools
  <2>5. CASE RunTool
    <3>1. UNCHANGED threadVars
      BY <2>5, Zenon DEF RunTool
    <3>2. QED
      BY <1>1, <3>1
  <2>6. CASE CompactTool \/ SendResults \/ Raise
    BY <1>1, <2>6 DEF CompactTool, SendResults, Raise
  <2>7. QED
    BY <1>2, <2>1, <2>2, <2>3, <2>4, <2>5, <2>6 DEF Turn
<1>3. CASE \/ \E p \in Prompts : Fires(p)
           \/ \E m \in Letters : Writes(m)
           \/ \E q \in Queries : Submit(q)
           \/ Quit \/ AppendInbox \/ CliTurn
  BY <1>1, <1>3 DEF Fires, Writes, Submit, Quit, AppendInbox, CliTurn
<1>4. CASE AutoClaim \/ AutoTurn
  BY <1>1, <1>4 DEF AutoClaim, AutoTurn
<1>5. QED
  BY <1>2, <1>3, <1>4 DEF LdNext

(* A step that leaves the messages alone, from a place outside of calls or *)
(* staying where it is.                                                    *)
LEMMA CallsStay ==
    ASSUME LdTypeOK, LdTypeOK', CallsInOrder, history' = history, Unbroken' => Unbroken,
           \/ UNCHANGED <<at, back, copy, left, done>>
           \/ /\ ~AmidCalls /\ ~AmidCalls'
              /\ at' = "refit" => copy' = history
    PROVE  CallsInOrder'
<1>1. CASE UNCHANGED <<at, back, copy, left, done>>
  <2>1. AmidCalls' <=> AmidCalls
    BY <1>1 DEF AmidCalls
  <2>2. QED
    BY <1>1, <2>1 DEF CallsInOrder
<1>2. CASE /\ ~AmidCalls /\ ~AmidCalls'
           /\ at' = "refit" => copy' = history
  <2>1. at' # "tools"
    BY <1>2 DEF AmidCalls
  <2>2. QED
    BY <1>2, <2>1 DEF CallsInOrder
<1>3. QED
  BY <1>1, <1>2

LEMMA CallsKept ==
    ASSUME LdTypeOK', CallsInOrder, ~AmidCalls', at' # "refit", ResultsCalled(history'),
           Unbroken' => AllAnswered(history')
    PROVE  CallsInOrder'
<1>1. at' # "tools"
  BY DEF AmidCalls
<1>2. QED
  BY <1>1 DEF CallsInOrder

(* An append from outside the lock.                                        *)
LEMMA CallsParted ==
    ASSUME LdTypeOK, LdTypeOK', CallsInOrder, NEW asks \in SUBSET Asks, AppendOutside(asks),
           Unbroken' => Unbroken, UNCHANGED <<at, back, copy, left, done>>
    PROVE  CallsInOrder'
<1>1. history \in Seq(Messages) /\ history' = Append(history, Ask(asks))
  BY DEF LdTypeOK, AppendOutside
<1>2. Ask(asks) \in Messages /\ Ask(asks).kind = "ask" /\ ~ToRun(Ask(asks))
  BY MessagesAreTyped DEF Ask, Message, ToRun
<1>3. KeepsCalls(history, history')
  BY <1>1, <1>2, AppendKeeps
<1>4. /\ OpenSoFar(history) => OpenSoFar(history')
      /\ \A c \in DOMAIN history : Open(history, c) => Open(history', c)
  BY <1>1, <1>2, AsksLeaveOpen
<1>5. \A c \in DOMAIN history : c \in DOMAIN history' /\ history'[c] = history[c]
  BY <1>1, <1>2, AppendBegins
<1>6. AmidCalls' <=> AmidCalls
  BY DEF AmidCalls
<1>7. at' = "tools" => \E c \in DOMAIN history' : /\ Open(history', c)
                                                   /\ history'[c].count = left' + done'
  BY <1>4, <1>5 DEF CallsInOrder
<1>8. QED
  BY <1>3, <1>4, <1>6, <1>7 DEF CallsInOrder, KeepsCalls

(* A turn that goes on or ends with a message that is no call to run.      *)
LEMMA CallsEnd ==
    ASSUME LdTypeOK, LdTypeOK', CallsInOrder, at = "model", at' \in {"none", "inject"},
           Unbroken' => Unbroken, NEW m \in Messages, m.kind # "results", ~ToRun(m),
           NEW h \in Seq(Messages), KeepsCalls(history, h),
           \/ history' = Append(h, m)
           \/ history' = Append(Suppressed(h), m)
    PROVE  CallsInOrder'
<1>1. ~AmidCalls /\ ~AmidCalls' /\ at' # "refit"
  BY DEF AmidCalls
<1>2. ResultsCalled(history) /\ (Unbroken => AllAnswered(history))
  BY <1>1 DEF CallsInOrder
<1>3. ResultsCalled(h) /\ (Unbroken => AllAnswered(h))
  BY <1>2 DEF KeepsCalls
<1>4. Suppressed(h) \in Seq(Messages) /\ KeepsCalls(h, Suppressed(h))
  BY SuppressedKeeps
<1>5. ResultsCalled(history') /\ (Unbroken => AllAnswered(history'))
  <2>1. CASE history' = Append(h, m)
    <3>1. KeepsCalls(h, history')
      BY <2>1, AppendKeeps
    <3>2. QED
      BY <1>3, <3>1 DEF KeepsCalls
  <2>2. CASE history' = Append(Suppressed(h), m)
    <3>1. KeepsCalls(Suppressed(h), history')
      BY <1>4, <2>2, AppendKeeps
    <3>2. QED
      BY <1>3, <1>4, <3>1 DEF KeepsCalls
  <2>3. QED
    BY <2>1, <2>2
<1>6. QED
  BY <1>1, <1>5, CallsKept

LEMMA Itself == \A h : KeepsCalls(h, h)
  BY DEF KeepsCalls

LEMMA CallsInTurn ==
    ASSUME LdTypeOK, LdTypeOK', Locked, CallsInOrder, Unbroken' => Unbroken, Turn
    PROVE  CallsInOrder'
<1> USE DEF batchVars, ghostVars
<1>0. /\ history \in Seq(Messages) /\ copy \in Seq(Messages) /\ due \in SUBSET Asks
      /\ turnNo \in Nat /\ done \in Nat /\ left \in Nat /\ back \in {"model", "inject"}
      /\ ResultsCalled(history) /\ KeepsCalls(history, history)
  BY Itself DEF LdTypeOK, Asks, CallsInOrder
<1>00. Unbroken' /\ ~AmidCalls => AllAnswered(history)
  BY DEF CallsInOrder
<1>000. /\ Note \in Messages /\ Note.kind = "note" /\ ~ToRun(Note)
        /\ Failure \in Messages /\ Failure.kind = "failure" /\ ~ToRun(Failure)
  BY MessagesAreTyped DEF Note, Failure, Message, ToRun
<1>0000. ASSUME NEW cut \in CutReply
         PROVE  /\ cut \in Messages /\ cut.kind # "results" /\ ~ToRun(cut)
                /\ Append(history, cut) \in Seq(Messages)
                /\ KeepsCalls(history, Append(history, cut))
  <2>1. cut \in Messages /\ cut.kind # "results" /\ ~ToRun(cut)
    BY <1>0, MessagesAreTyped DEF CutReply, Message, ToRun
  <2>2. QED
    BY <1>0, <2>1, AppendKeeps
<1>1. CASE Inject
  <2>1. Ask(due) \in Messages /\ Ask(due).kind = "ask" /\ ~ToRun(Ask(due))
    BY <1>0, MessagesAreTyped DEF Ask, Message, ToRun
  <2>2. /\ at = "inject" /\ at' = "fit"
        /\ history' \in {history, Append(history, Ask(due))}
    BY <1>1 DEF Inject
  <2>3. ~AmidCalls /\ ~AmidCalls'
    BY <2>2 DEF AmidCalls
  <2>4. KeepsCalls(history, history')
    BY <1>0, <2>1, <2>2, AppendKeeps
  <2>5. QED
    BY <1>0, <1>00, <2>2, <2>3, <2>4, CallsKept DEF KeepsCalls
<1>2. CASE Fit
  <2>1. at = "fit" /\ at' = "refit" /\ copy' = history /\ history' = history
    BY <1>2 DEF Fit
  <2>2. ~AmidCalls /\ ~AmidCalls'
    BY <2>1 DEF AmidCalls
  <2>3. QED
    BY <2>1, <2>2, CallsStay
<1>3. CASE Refit
  <2>1. /\ at = "refit" /\ at' \in {"compact", "model"} /\ back' = "model"
        /\ history' = copy
    BY <1>3 DEF Refit
  <2>2. ~AmidCalls' /\ at' # "refit"
    BY <2>1 DEF AmidCalls
  <2>3. ResultsCalled(history') /\ (Unbroken' => AllAnswered(history'))
    BY <2>1 DEF CallsInOrder
  <2>4. QED
    BY <2>2, <2>3, CallsKept
<1>4. CASE Compact
  <2>1. /\ \/ at = "compact" /\ at' = "compacted"
           \/ at = "react" /\ at' = "reacted"
        /\ UNCHANGED <<history, back>>
    BY <1>4 DEF Compact
  <2>2. (AmidCalls' <=> AmidCalls) /\ at' # "refit" /\ at' # "tools"
    BY <2>1 DEF AmidCalls
  <2>3. QED
    BY <2>1, <2>2 DEF CallsInOrder
<1>5. CASE Compacted
  <2> DEFINE s == Summary(AsksOf(copy))
  <2>1. PICK rest \in {<<Note>>, <<>>} : history' = <<s>> \o rest
    BY <1>5 DEF Compacted
  <2>2. s \in Messages /\ s.kind = "summary" /\ ~ToRun(s)
    BY <1>0, MessagesAreTyped, AsksAreAsks DEF Summary, Message, ToRun
  <2> HIDE DEF s
  <2>3. \A i \in DOMAIN history' : history'[i] \in {s, Note}
    <3>1. CASE rest = <<Note>>
      BY <2>1, <3>1
    <3>2. CASE rest = <<>>
      BY <2>1, <3>2
    <3>3. QED
      BY <2>1, <3>1, <3>2
  <2>4. \A i \in DOMAIN history' : history'[i].kind # "results" /\ ~ToRun(history'[i])
    BY <1>000, <2>2, <2>3
  <2>5. ResultsCalled(history') /\ AllAnswered(history')
    BY <2>4 DEF ResultsCalled, AllAnswered
  <2>6. at' \in {"model", "inject"}
    BY <1>0, <1>5 DEF Compacted
  <2>7. QED
    BY <2>5, <2>6, CallsKept DEF AmidCalls
<1>6. CASE Reacted
  <2>1. /\ at = "reacted" /\ at' = "inject"
        /\ history' = <<Summary(AsksOf(copy))>> \o Recently(history)
    BY <1>6 DEF Reacted
  <2>2. Summary(AsksOf(copy)) \in Messages /\ Summary(AsksOf(copy)).kind = "summary"
    BY <1>0, MessagesAreTyped, AsksAreAsks DEF Summary, Message
  <2>3. KeepsCalls(history, history')
    BY <1>0, <2>1, <2>2, RecentKeeps
  <2>4. ~AmidCalls /\ ~AmidCalls' /\ at' # "refit"
    BY <2>1 DEF AmidCalls
  <2>5. QED
    BY <1>0, <1>00, <2>3, <2>4, CallsKept DEF KeepsCalls
<1>7. CASE Answer
  <2>1. /\ Message("text", 0, {}, turnNo) \in Messages
        /\ Message("text", 0, {}, turnNo).kind = "text"
        /\ ~ToRun(Message("text", 0, {}, turnNo))
    BY <1>0, MessagesAreTyped DEF Message, ToRun
  <2>2. QED
    BY <1>0, <1>7, <2>1, CallsEnd DEF Answer, EndTurn, GiveBack
<1>8. CASE Nudge
  BY <1>0, <1>8, <1>000, CallsEnd DEF Nudge
<1>9. CASE GateFails
  BY <1>0, <1>9, <1>000, CallsEnd DEF GateFails, EndInFailure, EndTurn, GiveBack
<1>10. CASE Escalate
  <2>1. at = "model" /\ at' = "inject" /\ history' = history
    BY <1>10 DEF Escalate
  <2>2. QED
    BY <2>1, CallsStay DEF AmidCalls
<1>11. CASE Continue
  <2>1. PICK cut \in CutReply : history' = history \o <<cut, Note>>
    BY <1>11 DEF Continue
  <2>2. at = "model" /\ at' = "inject"
    BY <1>11 DEF Continue
  <2>3. history \o <<cut, Note>> = Append(Append(history, cut), Note)
    BY <1>0, <1>000, <1>0000
  <2>4. Append(history, cut) \in Seq(Messages) /\ KeepsCalls(history, Append(history, cut))
    BY <1>0000
  <2>5. history' = Append(Append(history, cut), Note)
    BY <2>1, <2>3
  <2>6. QED
    BY <1>000, <2>2, <2>4, <2>5, CallsEnd
<1>12. CASE GiveUp
  <2>1. PICK cut \in CutReply : IF Pending THEN EndInFailure(Append(history, cut))
                                ELSE EndTurn(Append(history, cut)) /\ UNCHANGED gated
    BY <1>12, Zenon DEF GiveUp
  <2>2. at = "model" /\ at' = "none"
    BY <1>12, <2>1 DEF GiveUp, EndInFailure, EndTurn, GiveBack
  <2>3. history' \in {Append(history, cut), Append(Suppressed(Append(history, cut)), Failure)}
    BY <2>1 DEF EndInFailure, EndTurn
  <2>4. CASE history' = Append(history, cut)
    BY <1>0, <1>0000, <2>2, <2>4, CallsEnd
  <2>5. CASE history' = Append(Suppressed(Append(history, cut)), Failure)
    <3>1. Append(history, cut) \in Seq(Messages) /\ KeepsCalls(history, Append(history, cut))
      BY <1>0000
    <3>2. QED
      BY <1>000, <2>2, <2>5, <3>1, CallsEnd
  <2>6. QED
    BY <2>3, <2>4, <2>5
<1>13. CASE TooLong
  <2>1. at = "model" /\ at' = "react" /\ history' = history
    BY <1>13 DEF TooLong
  <2>2. QED
    BY <2>1, CallsStay DEF AmidCalls
<1>14. CASE ModelFails
  BY <1>0, <1>14, <1>000, CallsEnd DEF ModelFails, EndTurn, GiveBack
<1>15. ASSUME NEW n \in 1..MaxCalls, CallTools(n) PROVE CallsInOrder'
  <2> DEFINE m == Message("call", n, {}, turnNo)
             c == Len(history) + 1
  <2>1. n \in Nat /\ m \in Messages /\ m.kind = "call" /\ m.count = n
    BY <1>0, MessagesAreTyped DEF Message
  <2>2. /\ at = "model" /\ at' = "tools" /\ history' = Append(history, m)
        /\ left' = n /\ done' = 0
    BY <1>15 DEF CallTools
  <2> HIDE DEF m
  <2>3. /\ c \in DOMAIN history' /\ Open(history', c)
        /\ ResultsCalled(history')
        /\ AllAnswered(history) => OpenSoFar(history')
    BY <1>0, <2>1, <2>2, CallOpens
  <2>4. history'[c].count = left' + done'
    <3>1. history'[c] = m
      BY <1>0, <2>1, <2>2, AppendBegins
    <3>2. QED
      BY <2>1, <2>2, <3>1
  <2> HIDE DEF c
  <2>5. ~AmidCalls /\ AmidCalls'
    BY <2>2 DEF AmidCalls
  <2>6. QED
    BY <1>00, <2>2, <2>3, <2>4, <2>5 DEF CallsInOrder
<1>16. CASE RunTool
  <2>1. left > 0 /\ left' = left - 1 /\ done' = done + 1
    BY <1>16, Zenon DEF RunTool
  <2>2. UNCHANGED <<history, at, back, copy>>
    BY <1>16, Zenon DEF RunTool
  <2>3. left' + done' = left + done
    BY <1>0, <2>1
  <2>4. AmidCalls' <=> AmidCalls
    BY <2>2 DEF AmidCalls
  <2>5. QED
    BY <2>2, <2>3, <2>4 DEF CallsInOrder
<1>17. CASE CompactTool
  <2>1. at = "tools" /\ at' = "compact" /\ back' = "inject" /\ history' = history
    BY <1>17 DEF CompactTool
  <2>2. AmidCalls /\ AmidCalls'
    BY <2>1 DEF AmidCalls
  <2>3. QED
    BY <2>1, <2>2 DEF CallsInOrder
<1>18. CASE SendResults
  <2> DEFINE m == Message("results", done, {}, 0)
  <2>1. m \in Messages /\ m.kind = "results" /\ m.count = done
    BY <1>0, MessagesAreTyped DEF Message
  <2>2. at = "tools" /\ left = 0 /\ at' = "inject" /\ history' = Append(history, m)
    BY <1>18 DEF SendResults
  <2> HIDE DEF m
  <2>3. PICK c \in DOMAIN history : Open(history, c) /\ history[c].count = left + done
    BY <2>2 DEF CallsInOrder
  <2>4. history[c].count = m.count
    BY <1>0, <2>1, <2>2, <2>3
  <2>5. ResultsCalled(history') /\ (OpenSoFar(history) => AllAnswered(history'))
    BY <1>0, <2>1, <2>2, <2>3, <2>4, ResultsAnswer
  <2>6. AmidCalls /\ ~AmidCalls' /\ at' # "refit"
    BY <2>2 DEF AmidCalls
  <2>7. Unbroken' => OpenSoFar(history)
    BY <2>6 DEF CallsInOrder
  <2>8. QED
    BY <2>5, <2>6, <2>7, CallsKept
<1>19. CASE Raise
  <2>1. history' = history /\ at' = "none"
    BY <1>19 DEF Raise, GiveBack
  <2>2. ~AmidCalls' /\ at' # "refit"
    BY <2>1 DEF AmidCalls
  <2>3. Unbroken' => ~AmidCalls
    <3>1. holder \in {"none", "cli", "auto"} /\ holder # "none"
      BY <1>19 DEF LdTypeOK, Raise, Locked
    <3>2. QED
      BY <1>19, <2>1, <3>1 DEF Raise, Unbroken
  <2>4. QED
    BY <1>0, <1>00, <2>1, <2>2, <2>3, CallsKept
<1>20. QED
  BY <1>1, <1>2, <1>3, <1>4, <1>5, <1>6, <1>7, <1>8, <1>9, <1>10, <1>11, <1>12, <1>13,
     <1>14, <1>15, <1>16, <1>17, <1>18, <1>19 DEF Turn

LEMMA CallsStep == ASSUME LdTypeOK, LdTypeOK', Locked, CallsInOrder, LdNext PROVE CallsInOrder'
<1> USE DEF turnVars, batchVars, ghostVars
<1>0. /\ unread \in SUBSET Asks /\ held \in SUBSET Asks /\ history \in Seq(Messages)
      /\ holder = "none" => at = "none"
  BY DEF LdTypeOK, Asks, Locked
<1>00. Unbroken' => Unbroken
  BY StillUnbroken
<1>1. ASSUME NEW p \in Prompts, Fires(p) PROVE CallsInOrder'
  BY <1>00, <1>1, CallsStay DEF Fires
<1>2. ASSUME NEW m \in Letters, Writes(m) PROVE CallsInOrder'
  BY <1>00, <1>2, CallsStay DEF Writes
<1>3. ASSUME NEW q \in Queries, Submit(q) PROVE CallsInOrder'
  <2>1. {q} \in SUBSET Asks
    BY DEF Asks
  <2>2. AppendOutside({q}) /\ UNCHANGED <<at, back, copy, left, done>>
    BY <1>3 DEF Submit
  <2>3. QED
    BY <1>00, <2>1, <2>2, CallsParted
<1>4. CASE Quit
  BY <1>00, <1>4, CallsStay DEF Quit
<1>5. CASE AppendInbox
  <2>1. UNCHANGED <<at, back, copy, left, done>>
    BY <1>5 DEF AppendInbox
  <2>2. AppendOutside(unread) \/ history' = history
    BY <1>5 DEF AppendInbox
  <2>3. QED
    BY <1>0, <1>00, <2>1, <2>2, CallsParted, CallsStay
<1>6. CASE CliTurn
  <2>1. at = "none" /\ at' = "inject" /\ history' = history
    BY <1>0, <1>6 DEF CliTurn, BeginTurn
  <2>2. QED
    BY <1>00, <2>1, CallsStay DEF AmidCalls
<1>7. CASE AutoClaim
  BY <1>00, <1>7, CallsStay DEF AutoClaim
<1>8. CASE AutoTurn
  <2>1. at = "none" /\ at' = "inject" /\ history' = Append(history, Ask(held))
    BY <1>0, <1>8 DEF AutoTurn, BeginTurn
  <2>2. Ask(held) \in Messages /\ Ask(held).kind = "ask" /\ ~ToRun(Ask(held))
    BY <1>0, MessagesAreTyped DEF Ask, Message, ToRun
  <2>3. KeepsCalls(history, history')
    BY <1>0, <2>1, <2>2, AppendKeeps
  <2>4. ~AmidCalls /\ ~AmidCalls' /\ at' # "refit"
    BY <2>1 DEF AmidCalls
  <2>5. ResultsCalled(history) /\ (Unbroken => AllAnswered(history))
    BY <2>4 DEF CallsInOrder
  <2>6. ResultsCalled(history') /\ (Unbroken' => AllAnswered(history'))
    BY <1>00, <2>3, <2>5 DEF KeepsCalls
  <2>7. QED
    BY <2>4, <2>6, CallsKept
<1>9. CASE Turn
  BY <1>00, <1>9, CallsInTurn
<1>10. QED
  BY <1>1, <1>2, <1>3, <1>4, <1>5, <1>6, <1>7, <1>8, <1>9 DEF LdNext

(* Results go to the calls of the reply that asked for them, whatever the  *)
(* CLI appends meanwhile, and no call that was taken up goes without them  *)
(* unless an exception has ended the autorun thread: in any conversation,  *)
(* however often it is compacted.  Results right behind a summary may have *)
(* lost their calls, and the calls of a cut reply get none.                *)
(* (runtime/loop.py:370-565)                                               *)
THEOREM CallsKeepTheirResults == LdSpec => []CallsAreAnswered
<1>1. LdInit => PromptsInv /\ CallsInOrder
  BY PromptsBegin DEF LdInit, CallsInOrder, ResultsCalled, AllAnswered, AmidCalls
<1>2. PromptsInv /\ CallsInOrder /\ [LdNext]_vars => PromptsInv' /\ CallsInOrder'
  <2> SUFFICES ASSUME PromptsInv, CallsInOrder, [LdNext]_vars PROVE PromptsInv' /\ CallsInOrder'
    OBVIOUS
  <2>1. PromptsInv'
    BY PromptsStep
  <2>2. LdTypeOK /\ LdTypeOK' /\ Locked
    BY <2>1 DEF PromptsInv
  <2>3. CASE LdNext
    BY <2>1, <2>2, <2>3, CallsStep
  <2>4. CASE UNCHANGED vars
    <3>1. UNCHANGED <<history, at, back, copy, left, done, auto, cli>>
      BY <2>4 DEF vars, turnVars, batchVars, threadVars
    <3>2. Unbroken' => Unbroken
      BY <3>1 DEF Unbroken
    <3>3. QED
      BY <2>1, <2>2, <3>1, <3>2, CallsStay
  <2>5. QED
    BY <2>1, <2>3, <2>4
<1>3. CallsInOrder => CallsAreAnswered
  <2> SUFFICES ASSUME CallsInOrder, at = "model" PROVE CallsAreAnswered
    BY DEF CallsAreAnswered
  <2>1. ResultsCalled(history) /\ (auto # "dead" => AllAnswered(history))
    BY DEF CallsInOrder, AmidCalls, Unbroken
  <2>2. QED
    BY <2>1 DEF CallsAreAnswered, ResultsCalled, AllAnswered, ToRun
<1>4. QED
  BY <1>1, <1>2, <1>3, PTL DEF LdSpec
=============================================================================
