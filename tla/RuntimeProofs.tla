--------------------------- MODULE RuntimeProofs ---------------------------
(* What holds of the model gateway, of the command executor and of the     *)
(* agent runs for every value of their constants.                          *)
EXTENDS ModelGateway, CommandExecutor, AgentRuns, SequenceTheorems, TLAPS

-----------------------------------------------------------------------------
(* The gateway: as long as a turn with a fallback is on the primary model, *)
(* the count in its RecoveryState is the streak it saw.                    *)
Counted ==
    /\ streak <= longest
    /\ fallback /\ currentModel = "primary" =>
          consecutive529 = streak /\ longest < Overloads
GwInv == GwTypeOK /\ Counted /\ FallbackIsEarned

LEMMA GwInitially == GwInit => GwInv
<1> SUFFICES ASSUME GwInit PROVE GwInv
  OBVIOUS
<1> USE GatewayAssumption DEF GwInit, GatewayAssumption
<1>1. GwTypeOK
  <2>1. fallback \in BOOLEAN /\ reactiveCompact \in BOOLEAN
    OBVIOUS
  <2>2. tries \in 0..MaxTries /\ requests \in 0..MaxRequests
    OBVIOUS
  <2> QED
    BY <2>1, <2>2 DEF GwTypeOK
<1>2. Counted
  BY DEF Counted
<1>3. FallbackIsEarned
  <2>1. ~(longest >= Overloads) /\ currentModel # "fallback"
    OBVIOUS
  <2> QED
    BY <2>1 DEF FallbackIsEarned
<1> QED
  BY <1>1, <1>2, <1>3 DEF GwInv

LEMMA GwSteps == GwInv /\ [GwNext]_gwVars => GwInv'
<1> SUFFICES ASSUME GwInv, [GwNext]_gwVars PROVE GwInv'
  OBVIOUS
<1> USE GatewayAssumption DEF GatewayAssumption, GwInv, GwTypeOK, Counted, FallbackIsEarned
<1>1. CASE Ask
  BY <1>1 DEF Ask, recoveryState
<1>2. CASE Answered
  BY <1>2 DEF Answered
<1>3. CASE RateLimited
  BY <1>3 DEF RateLimited, recoveryState
<1>4. CASE Overloaded
  BY <1>4 DEF Overloaded
<1>5. CASE Fails
  BY <1>5 DEF Fails
<1>6. CASE GivesUp
  BY <1>6 DEF GivesUp, recoveryState
<1>7. CASE UNCHANGED gwVars
  BY <1>7 DEF gwVars, recoveryState
<1> QED
  BY <1>1, <1>2, <1>3, <1>4, <1>5, <1>6, <1>7 DEF GwNext

(* The attempts of a call and what a turn remembers stay in their bounds:  *)
(* no call is tried more often than max_retries.                           *)
THEOREM GatewayTypeCorrect == GwSpec => []GwTypeOK
<1>1. GwInv => GwTypeOK
  BY DEF GwInv
<1> QED
  BY <1>1, GwInitially, GwSteps, PTL DEF GwSpec

(* A turn leaves the primary model exactly when the provider was           *)
(* overloaded max_consecutive_529 times with no answer in between.         *)
THEOREM FallbackOnlyWhenEarned == GwSpec => []FallbackIsEarned
<1>1. GwInv => FallbackIsEarned
  BY DEF GwInv
<1> QED
  BY <1>1, GwInitially, GwSteps, PTL DEF GwSpec

-----------------------------------------------------------------------------
(* The executor.  The reader comes to the end only when nobody can write   *)
(* any more, and has then kept what it read, up to the limit; a read of a  *)
(* closed pipe is never in progress; the process is gone when execute()    *)
(* has stopped waiting for it, and what it was killed with is gone too.    *)
AtEnd == reader = "ended" \/ (reader = "holding" /\ hand = 0)
ReaderEndsLast ==
    /\ stage \in {"idle", "attaching"} => reader = "none"
    /\ stage \in {"waiting", "joining", "closing", "closed"} => reader # "none"
    /\ AtEnd => ~CanWrite /\ drained = written
    /\ Closed => reader # "reading"
    /\ reader = "cut" => Closed
ReaderKeeps ==
    /\ reader # "holding" => hand = 0
    /\ hand <= drained
    /\ kept = UpTo(ByteLimit, drained - hand)
    /\ answer \in {"output", "exit_code", "no_output"} /\ AtEnd => said = Shown(kept)
ProcessIsGone ==
    /\ stage = "idle" => child = "none" /\ holders = {} /\ request \in Requests
    /\ stage \in {"joining", "closing", "closed", "returned"} => child # "running"
    /\ child = "killed" => kin["grouped"] # "alive"
    /\ stage = "returned" <=> answer # "none"
CmdInv == CmdTypeOK /\ ReaderEndsLast /\ ReaderKeeps /\ ProcessIsGone /\ LaunchedIsTrusted

(* The characters of n bytes are at most the limit, and the bound on the   *)
(* bytes takes none away, whatever the width of a character.               *)
LEMMA ShownInRange == ASSUME NEW n \in Nat PROVE Shown(n) \in 0..Limit
<1> USE CommandAssumption DEF CommandAssumption, Shown, UpTo
<1>1. CASE Width = 1
  BY <1>1
<1>2. CASE Width = 2
  BY <1>2
<1>3. CASE Width = 3
  BY <1>3
<1>4. CASE Width = 4
  BY <1>4
<1> QED
  BY <1>1, <1>2, <1>3, <1>4

LEMMA LimitKeepsCharacters ==
    ASSUME NEW n \in Nat PROVE Shown(UpTo(ByteLimit, n)) = Shown(n)
<1> USE CommandAssumption DEF CommandAssumption, Shown, UpTo, ByteLimit
<1>1. CASE Width = 1
  BY <1>1
<1>2. CASE Width = 2
  BY <1>2
<1>3. CASE Width = 3
  BY <1>3
<1>4. CASE Width = 4
  BY <1>4
<1> QED
  BY <1>1, <1>2, <1>3, <1>4

LEMMA CmdInitially == CmdInit => CmdInv
<1> SUFFICES ASSUME CmdInit PROVE CmdInv
  OBVIOUS
<1> USE CommandAssumption DEF CmdInit, CommandAssumption
<1>1. CmdTypeOK
  <2>1. kin \in [Kin -> {"none", "alive", "gone"}]
    BY DEF Kin
  <2>2. timedOut \in BOOLEAN
    OBVIOUS
  <2>3. written \in 0..MaxWritten /\ drained \in 0..written
    OBVIOUS
  <2>4. said \in 0..Limit /\ hand \in 0..Chunk /\ kept \in 0..ByteLimit
    BY DEF ByteLimit
  <2> QED
    BY <2>1, <2>2, <2>3, <2>4 DEF CmdTypeOK
<1>2. ReaderEndsLast /\ ReaderKeeps /\ ProcessIsGone
  BY DEF ReaderEndsLast, ReaderKeeps, ProcessIsGone, AtEnd, Closed, CanWrite, Kin, UpTo, ByteLimit
<1> QED
  BY <1>1, <1>2 DEF CmdInv, LaunchedIsTrusted

LEMMA CmdSteps == CmdInv /\ [CmdNext]_cmdVars => CmdInv'
<1> SUFFICES ASSUME CmdInv, [CmdNext]_cmdVars PROVE CmdInv'
  OBVIOUS
<1> USE CommandAssumption DEF CommandAssumption, CmdInv, CmdTypeOK, ReaderEndsLast, ReaderKeeps,
      AtEnd, Closed, ProcessIsGone, LaunchedIsTrusted, familyVars, pipeVars, answerVars, CanWrite,
      Unread, Exited, Return, Kin
<1>1. CASE Refuse
  BY <1>1 DEF Refuse
<1>2. CASE Launch
  BY <1>2 DEF Launch, Vetted, Resolves, ResolvedFile, NoRequest
<1>3. CASE Attach
  BY <1>3 DEF Attach, Terminate
<1>4. CASE SeeExit
  BY <1>4 DEF SeeExit
<1>5. CASE TimeOut
  BY <1>5 DEF TimeOut, Terminate
<1>6. CASE Join
  BY <1>6 DEF Join
<1>7. CASE Close
  BY <1>7 DEF Close
<1>8. CASE Answer
  <2>1. Shown(kept) \in 0..Limit
    BY ShownInRange DEF ByteLimit
  <2>2. said' \in 0..Limit
    BY <1>8, <2>1 DEF Answer
  <2> QED
    BY <1>8, <2>1, <2>2 DEF Answer, Outcome
<1>9. CASE StartRead
  BY <1>9 DEF StartRead
<1>10. CASE FinishRead
  <2>1. hand' = UpTo(Chunk, Unread) /\ drained' = drained + hand'
    BY <1>10 DEF FinishRead
  <2>2. hand' \in 0..Chunk /\ hand' <= Unread /\ (hand' = 0 => Unread = 0)
    BY <2>1 DEF UpTo
  <2>3. drained' \in 0..written /\ drained' - hand' = drained - hand
    BY <1>10, <2>1, <2>2 DEF FinishRead
  <2>4. hand' = 0 => ~CanWrite /\ drained' = written
    BY <1>10, <2>1, <2>2 DEF FinishRead, UpTo
  <2> QED
    BY <1>10, <2>2, <2>3, <2>4 DEF FinishRead
<1>11. CASE KeepChunk
  <2>1. kept' = UpTo(ByteLimit, drained') /\ kept' \in 0..ByteLimit
    BY <1>11 DEF KeepChunk, UpTo, ByteLimit
  <2>2. hand = 0 => kept' = kept
    BY <1>11 DEF KeepChunk, UpTo, ByteLimit
  <2>3. hand' = 0 /\ drained' - hand' = drained'
    BY <1>11 DEF KeepChunk
  <2> QED
    BY <1>11, <2>1, <2>2, <2>3 DEF KeepChunk
<1>12. CASE Write
  BY <1>12 DEF Write
<1>13. ASSUME NEW k \in Kin, NEW holds \in BOOLEAN, StartKin(k, holds) PROVE CmdInv'
  BY <1>13 DEF StartKin
<1>14. ASSUME NEW k \in Kin, KinExits(k) PROVE CmdInv'
  BY <1>14 DEF KinExits
<1>15. CASE ChildExits
  BY <1>15 DEF ChildExits
<1>16. CASE UNCHANGED cmdVars
  BY <1>16 DEF cmdVars
<1> QED
  BY <1>1, <1>2, <1>3, <1>4, <1>5, <1>6, <1>7, <1>8, <1>9, <1>10, <1>11, <1>12, <1>13, <1>14,
     <1>15, <1>16
  DEF CmdNext, ExecutorStep, Drain

(* The executor, the process, the pipe and its reader keep their types.    *)
THEOREM ExecutorTypeCorrect == CmdSpec => []CmdTypeOK
<1>1. CmdInv => CmdTypeOK
  BY DEF CmdInv
<1> QED
  BY <1>1, CmdInitially, CmdSteps, PTL DEF CmdSpec

(* What runs is the interpreter or an installed program outside of the     *)
(* workspace, whatever the request says.                                   *)
THEOREM OnlyTrustedLaunch == CmdSpec => []LaunchedIsTrusted
<1>1. CmdInv => LaunchedIsTrusted
  BY DEF CmdInv
<1> QED
  BY <1>1, CmdInitially, CmdSteps, PTL DEF CmdSpec

(* An answer whose reader came to the end of the pipe has all of the       *)
(* output up to the limit; the process of a command that was given up runs *)
(* no more, and where it was killed nothing of its group is left.  For any *)
(* sizes of pipe, read, limit and character.                               *)
THEOREM AnswersTellTheTruth == CmdSpec => []AnswersAreTrue
<1>1. CmdInv => AnswersAreComplete
  <2> SUFFICES ASSUME CmdInv, answer \in {"output", "exit_code", "no_output"}, reader = "ended"
               PROVE said = Shown(written) /\ ~CanWrite
    BY DEF AnswersAreComplete
  <2> USE DEF CmdInv, CmdTypeOK, ReaderEndsLast, ReaderKeeps, AtEnd
  <2>1. ~CanWrite /\ drained = written /\ hand = 0 /\ written \in Nat
    OBVIOUS
  <2>2. kept = UpTo(ByteLimit, written) /\ said = Shown(kept)
    BY <2>1
  <2> QED
    BY <2>1, <2>2, LimitKeepsCharacters
<1>2. CmdInv => GivenUpIsKilled
  BY DEF CmdInv, CmdTypeOK, ProcessIsGone, GivenUpIsKilled
<1> QED
  BY <1>1, <1>2, CmdInitially, CmdSteps, PTL DEF CmdSpec, AnswersAreTrue

(* A writer that finds the pipe full is never left alone with it: output   *)
(* beyond the limit is drained like the rest.                              *)
THEOREM FullPipesAreDrained == CmdSpec => []FullPipeIsDrained
<1>1. CmdInv => FullPipeIsDrained
  BY CommandAssumption DEF CommandAssumption, CmdInv, CmdTypeOK, ReaderEndsLast, AtEnd,
         FullPipeIsDrained, Closed, Unread
<1> QED
  BY <1>1, CmdInitially, CmdSteps, PTL DEF CmdSpec

-----------------------------------------------------------------------------
(* The runs.  The tracker's context of a thread is its control stack, and  *)
(* a run is on one stack, once.                                            *)
ContextFollows ==
    \A t \in Threads :
        /\ Len(context[t]) = Len(frames[t])
        /\ \A i \in 1..Len(frames[t]) : context[t][i] = frames[t][i].run
OneFrameEach ==
    \A t, u \in Threads : \A i \in 1..Len(frames[t]), j \in 1..Len(frames[u]) :
        frames[t][i].run = frames[u][j].run => t = u /\ i = j
InFrame(r) == \E t \in Threads : \E i \in 1..Len(frames[t]) : frames[t][i].run = r
LiveRuns == \A r \in Runs : runs[r].status = "running" <=> InFrame(r)
LeadsTakeTurns == \A t \in LeadThreads : agentLock # t => frames[t] = <<>>
MatesRemember == \A m \in Mates : mate[m].parent = mate[m].caller
ParentsAreCallers == \A r \in Runs : runs[r].parent = calledBy[r]
StacksAgree ==
    /\ ContextFollows /\ OneFrameEach /\ LiveRuns
    /\ LeadsTakeTurns /\ MatesRemember /\ ParentsAreCallers

(* A frame in a call is the one that made it, and a call that is open is   *)
(* the one of a frame or of a run that failed.                             *)
CallsOfFrames ==
    \A t \in Threads : \A i \in 1..Len(frames[t]) :
        frames[t][i].at # "model" =>
            /\ frames[t][i].call \in Calls
            /\ toolCalls[frames[t][i].call].run = frames[t][i].run
InCall(c) == \E t \in Threads : \E i \in 1..Len(frames[t]) :
    frames[t][i].at # "model" /\ frames[t][i].call = c
OpenCalls ==
    \A c \in Calls : toolCalls[c].status = "running" =>
        /\ toolCalls[c].run \in Runs
        /\ runs[toolCalls[c].run].status = "failed" \/ InCall(c)
DecidedByCaller == \A c \in Calls : toolCalls[c].decidedFor \in {Undecided, toolCalls[c].run}
CallsAgree == CallsOfFrames /\ OpenCalls /\ DecidedByCaller

(* What is on its way is true, and what has ended is stored, lost or on    *)
(* its way.                                                                *)
EventsAreTrue ==
    \A t \in Threads : \A i \in 1..Len(outbox[t]) :
        outbox[t][i].type = "finished" =>
            runs[outbox[t][i].run].status = outbox[t][i].status /\ outbox[t][i].status \in Endings
OnItsWay(r) == \E t \in Threads : \E i \in 1..Len(outbox[t]) :
    outbox[t][i].run = r /\ outbox[t][i].type = "finished"
EndsAreTold ==
    \A r \in Runs :
        /\ trace[r] \in {"unseen", "running", runs[r].status}
        /\ runs[r].status \in Endings => trace[r] = runs[r].status \/ r \in lostEvents \/ OnItsWay(r)
TraceFollows == EventsAreTrue /\ EndsAreTold

ArInv == RunsTypeOK /\ StacksAgree /\ CallsAgree /\ TraceFollows

LEMMA ArInitially == RunsInit => ArInv
<1> SUFFICES ASSUME RunsInit PROVE ArInv
  OBVIOUS
<1> USE RunsAssumption DEF RunsAssumption, RunsInit, NoRun, NoCall, Undecided
<1>1. RunsTypeOK
  BY DEF RunsTypeOK, Absent, Unmade, NotSpawned, Threads, LeadThreads
<1>2. StacksAgree
  <2>1. ContextFollows /\ OneFrameEach /\ LeadsTakeTurns
    BY DEF ContextFollows, OneFrameEach, LeadsTakeTurns, Threads
  <2>2. LiveRuns
    <3>1. \A r \in Runs : ~InFrame(r)
      BY DEF InFrame
    <3> QED
      BY <3>1 DEF LiveRuns, Absent
  <2>3. MatesRemember /\ ParentsAreCallers
    BY DEF MatesRemember, ParentsAreCallers, NotSpawned, Absent
  <2> QED
    BY <2>1, <2>2, <2>3 DEF StacksAgree
<1>3. CallsAgree
  BY DEF CallsAgree, CallsOfFrames, OpenCalls, DecidedByCaller, Unmade
<1>4. TraceFollows
  BY DEF TraceFollows, EventsAreTrue, EndsAreTold, Endings, Absent
<1> QED
  BY <1>1, <1>2, <1>3, <1>4 DEF ArInv

(* How a family of sequences changes: one of them grows by x, is left by   *)
(* its last, has x for its last, or is left by its first.                  *)
Same(f, g, t) == \A u \in Threads : u # t => g[u] = f[u]
Grown(f, g, t, x) ==
    /\ Same(f, g, t)
    /\ Len(g[t]) = Len(f[t]) + 1 /\ g[t][Len(f[t]) + 1] = x
    /\ \A u \in Threads : \A i \in 1..Len(f[u]) : i \in 1..Len(g[u]) /\ g[u][i] = f[u][i]
    /\ \A u \in Threads : \A i \in 1..Len(g[u]) : i \in 1..Len(f[u]) \/ (u = t /\ i = Len(f[t]) + 1)
Shrunk(f, g, t) ==
    /\ Same(f, g, t)
    /\ Len(g[t]) = Len(f[t]) - 1
    /\ \A u \in Threads : \A i \in 1..Len(g[u]) :
          i \in 1..Len(f[u]) /\ g[u][i] = f[u][i] /\ (u # t \/ i # Len(f[t]))
    /\ \A u \in Threads : \A i \in 1..Len(f[u]) : i \in 1..Len(g[u]) \/ (u = t /\ i = Len(f[t]))
Retouched(f, g, t, x) ==
    /\ Same(f, g, t)
    /\ \A u \in Threads : Len(g[u]) = Len(f[u])
    /\ g[t][Len(f[t])] = x
    /\ \A u \in Threads : \A i \in 1..Len(f[u]) : g[u][i] = f[u][i] \/ (u = t /\ i = Len(f[t]))

LEMMA ButLastOf ==
  ASSUME NEW S, NEW s \in Seq(S), s # <<>>
  PROVE  /\ ButLast(s) \in Seq(S) /\ Len(s) > 0
         /\ Len(ButLast(s)) = Len(s) - 1
         /\ \A i \in 1..(Len(s) - 1) : ButLast(s)[i] = s[i]
<1> DEFINE n == Len(s) - 1
<1>1. Len(s) \in Nat /\ Len(s) > 0
  OBVIOUS
<1>2. n \in Int /\ 1 \in Int /\ n >= 0
  BY <1>1
<1>3. \A i \in 1..n : s[i] \in S
  BY <1>1
<1>4. ButLast(s) = SubSeq(s, 1, n)
  BY DEF ButLast
<1> HIDE DEF n
<1>5. /\ SubSeq(s, 1, n) \in Seq(S)
      /\ Len(SubSeq(s, 1, n)) = (IF 1 <= n THEN n - 1 + 1 ELSE 0)
      /\ \A i \in 1..(n - 1 + 1) : SubSeq(s, 1, n)[i] = s[1 + i - 1]
  BY <1>2, <1>3, SubSeqProperties
<1>6. Len(SubSeq(s, 1, n)) = n /\ \A i \in 1..n : SubSeq(s, 1, n)[i] = s[i]
  BY <1>2, <1>5
<1> QED
  BY <1>1, <1>4, <1>5, <1>6 DEF n

LEMMA Growing ==
  ASSUME NEW S, NEW f \in [Threads -> Seq(S)], NEW t \in Threads, NEW x \in S,
         NEW g \in [Threads -> Seq(S)], Same(f, g, t), g[t] = Append(f[t], x)
  PROVE  Grown(f, g, t, x)
<1>1. \A u \in Threads : Len(f[u]) \in Nat /\ Len(g[u]) \in Nat
  OBVIOUS
<1>2. /\ Len(g[t]) = Len(f[t]) + 1 /\ g[t][Len(f[t]) + 1] = x
      /\ \A i \in 1..Len(f[t]) : i \in 1..Len(g[t]) /\ g[t][i] = f[t][i]
      /\ \A i \in 1..Len(g[t]) : i \in 1..Len(f[t]) \/ i = Len(f[t]) + 1
  BY <1>1
<1>3. ASSUME NEW u \in Threads
      PROVE  \A i \in 1..Len(f[u]) : i \in 1..Len(g[u]) /\ g[u][i] = f[u][i]
  <2>1. CASE u = t
    BY <2>1, <1>1, <1>2
  <2>2. CASE u # t
    <3>1. g[u] = f[u]
      BY <2>2 DEF Same
    <3> QED
      BY <2>2, <3>1, <1>1
  <2> QED
    BY <2>1, <2>2, Zenon
<1>4. ASSUME NEW u \in Threads
      PROVE  \A i \in 1..Len(g[u]) : i \in 1..Len(f[u]) \/ (u = t /\ i = Len(f[t]) + 1)
  <2>1. CASE u = t
    BY <2>1, <1>1, <1>2
  <2>2. CASE u # t
    <3>1. g[u] = f[u]
      BY <2>2 DEF Same
    <3> QED
      BY <2>2, <3>1, <1>1
  <2> QED
    BY <2>1, <2>2, Zenon
<1> QED
  BY <1>2, <1>3, <1>4 DEF Grown

LEMMA Shrinking ==
  ASSUME NEW S, NEW f \in [Threads -> Seq(S)], NEW t \in Threads, f[t] # <<>>,
         NEW g \in [Threads -> Seq(S)], Same(f, g, t), g[t] = ButLast(f[t])
  PROVE  Shrunk(f, g, t)
<1>1. \A u \in Threads : Len(f[u]) \in Nat /\ Len(g[u]) \in Nat
  OBVIOUS
<1>2. /\ Len(g[t]) = Len(f[t]) - 1
      /\ \A i \in 1..Len(g[t]) : i \in 1..Len(f[t]) /\ g[t][i] = f[t][i] /\ i # Len(f[t])
      /\ \A i \in 1..Len(f[t]) : i \in 1..Len(g[t]) \/ i = Len(f[t])
  BY <1>1, ButLastOf
<1>3. ASSUME NEW u \in Threads
      PROVE  \A i \in 1..Len(g[u]) :
                i \in 1..Len(f[u]) /\ g[u][i] = f[u][i] /\ (u # t \/ i # Len(f[t]))
  <2>1. CASE u = t
    BY <2>1, <1>1, <1>2
  <2>2. CASE u # t
    <3>1. g[u] = f[u]
      BY <2>2 DEF Same
    <3> QED
      BY <2>2, <3>1, <1>1
  <2> QED
    BY <2>1, <2>2, Zenon
<1>4. ASSUME NEW u \in Threads
      PROVE  \A i \in 1..Len(f[u]) : i \in 1..Len(g[u]) \/ (u = t /\ i = Len(f[t]))
  <2>1. CASE u = t
    BY <2>1, <1>1, <1>2
  <2>2. CASE u # t
    <3>1. g[u] = f[u]
      BY <2>2 DEF Same
    <3> QED
      BY <2>2, <3>1, <1>1
  <2> QED
    BY <2>1, <2>2, Zenon
<1> QED
  BY <1>2, <1>3, <1>4 DEF Shrunk

(* Start of a run: the parent it gets is the run that called it.           *)
LEMMA Starting ==
  ASSUME ArInv, NEW t \in Threads, NEW kind \in {"lead", "subagent", "teammate"},
         NEW parent \in Runs \cup {NoRun}, NEW caller \in Runs \cup {NoRun},
         StartRun(t, kind, parent, caller),
         caller = IF parent = NoRun THEN CurrentRun(t) ELSE parent,
         t \in LeadThreads => agentLock' = t,
         agentLock' = agentLock \/ agentLock = NoThread,
         agentLock' \in LeadThreads \cup {NoThread},
         UNCHANGED <<mate, deadThreads, toolCalls, trace, lostEvents>>
  PROVE  ArInv'
<1> USE RunsAssumption DEF RunsAssumption, NoRun, NoCall, Undecided, ArInv
<1>1. PICK r \in Runs :
        /\ runs[r] = Absent
        /\ runs' = [runs EXCEPT ![r] = [status |-> "running", parent |-> caller]]
        /\ calledBy' = [calledBy EXCEPT ![r] = caller]
        /\ context' = [context EXCEPT ![t] = Append(@, r)]
        /\ frames' = [frames EXCEPT ![t] =
                        Append(@, [run |-> r, kind |-> kind, call |-> NoCall, at |-> "model"])]
        /\ outbox' = [outbox EXCEPT ![t] =
                        Append(@, [run |-> r, type |-> "started", status |-> "running"])]
  BY DEF StartRun, Emit
<1>2. /\ frames' \in [Threads -> Seq(Frames)]
      /\ Grown(frames, frames', t, [run |-> r, kind |-> kind, call |-> NoCall, at |-> "model"])
  <2>1. frames \in [Threads -> Seq(Frames)]
    BY DEF RunsTypeOK
  <2>2. [run |-> r, kind |-> kind, call |-> NoCall, at |-> "model"] \in Frames
    BY DEF Frames
  <2>3. frames' \in [Threads -> Seq(Frames)] /\ Same(frames, frames', t)
        /\ frames'[t] = Append(frames[t], [run |-> r, kind |-> kind, call |-> NoCall, at |-> "model"])
    BY <1>1, <2>1, <2>2 DEF Same
  <2> QED
    BY <2>1, <2>2, <2>3, Growing
<1>3. context' \in [Threads -> Seq(Runs)] /\ Grown(context, context', t, r)
  <2>1. context \in [Threads -> Seq(Runs)]
    BY DEF RunsTypeOK
  <2>2. r \in Runs
    OBVIOUS
  <2>3. context' \in [Threads -> Seq(Runs)] /\ Same(context, context', t)
        /\ context'[t] = Append(context[t], r)
    BY <1>1, <2>1, <2>2 DEF Same
  <2> QED
    BY <2>1, <2>2, <2>3, Growing
<1>4. /\ outbox' \in [Threads -> Seq(Events)]
      /\ Grown(outbox, outbox', t, [run |-> r, type |-> "started", status |-> "running"])
  <2>1. outbox \in [Threads -> Seq(Events)]
    BY DEF RunsTypeOK
  <2>2. [run |-> r, type |-> "started", status |-> "running"] \in Events
    BY DEF Events
  <2>3. outbox' \in [Threads -> Seq(Events)] /\ Same(outbox, outbox', t)
        /\ outbox'[t] = Append(outbox[t], [run |-> r, type |-> "started", status |-> "running"])
    BY <1>1, <2>1, <2>2 DEF Same
  <2> QED
    BY <2>1, <2>2, <2>3, Growing
<1>5. RunsTypeOK'
  BY <1>1, <1>2, <1>3, <1>4 DEF RunsTypeOK
<1>6. ~InFrame(r)
  BY <1>1 DEF StacksAgree, LiveRuns, Absent
<1>7. \A u \in Threads : Len(frames[u]) \in Nat /\ Len(context[u]) \in Nat /\ Len(outbox[u]) \in Nat
  BY DEF RunsTypeOK
<1>8. StacksAgree'
  <2>1. ContextFollows'
    <3> SUFFICES ASSUME NEW u \in Threads
                 PROVE  /\ Len(context'[u]) = Len(frames'[u])
                        /\ \A i \in 1..Len(frames'[u]) : context'[u][i] = frames'[u][i].run
      BY DEF ContextFollows
    <3>1. CASE u = t
      <4>1. Len(context[t]) = Len(frames[t]) /\ \A i \in 1..Len(frames[t]) : context[t][i] = frames[t][i].run
        BY DEF ContextFollows, StacksAgree
      <4>2. Len(context'[t]) = Len(frames'[t])
        BY <4>1, <1>2, <1>3 DEF Grown
      <4>3. ASSUME NEW i \in 1..Len(frames'[t]) PROVE context'[t][i] = frames'[t][i].run
        <5>1. CASE i \in 1..Len(frames[t])
          <6>1. context'[t][i] = context[t][i] /\ frames'[t][i] = frames[t][i]
            BY <4>1, <5>1, <1>2, <1>3, Zenon DEF Grown
          <6> QED
            BY <4>1, <5>1, <6>1
        <5>2. CASE i = Len(frames[t]) + 1
          BY <4>1, <5>2, <1>2, <1>3 DEF Grown
        <5> QED
          BY <5>1, <5>2, <1>2 DEF Grown
      <4> QED
        BY <3>1, <4>2, <4>3
    <3>2. CASE u # t
      <4>1. context'[u] = context[u] /\ frames'[u] = frames[u]
        BY <3>2, <1>2, <1>3 DEF Grown, Same
      <4> QED
        BY <4>1 DEF ContextFollows, StacksAgree
    <3> QED
      BY <3>1, <3>2
  <2>2. OneFrameEach'
    <3> SUFFICES ASSUME NEW u \in Threads, NEW v \in Threads,
                        NEW i \in 1..Len(frames'[u]), NEW j \in 1..Len(frames'[v]),
                        frames'[u][i].run = frames'[v][j].run
                 PROVE  u = v /\ i = j
      BY Zenon DEF OneFrameEach
    <3>1. /\ i \in 1..Len(frames[u]) \/ (u = t /\ i = Len(frames[t]) + 1)
          /\ j \in 1..Len(frames[v]) \/ (v = t /\ j = Len(frames[t]) + 1)
      BY <1>2, Zenon DEF Grown
    <3>2. CASE i \in 1..Len(frames[u]) /\ j \in 1..Len(frames[v])
      <4>1. frames'[u][i] = frames[u][i] /\ frames'[v][j] = frames[v][j]
        BY <3>2, <1>2, Zenon DEF Grown
      <4> QED
        BY <3>2, <4>1 DEF OneFrameEach, StacksAgree
    <3>3. CASE i \in 1..Len(frames[u]) /\ v = t /\ j = Len(frames[t]) + 1
      <4>1. frames'[u][i] = frames[u][i] /\ frames'[v][j].run = r
        BY <3>3, <1>2 DEF Grown
      <4> QED
        BY <3>3, <4>1, <1>6 DEF InFrame
    <3>4. CASE u = t /\ i = Len(frames[t]) + 1 /\ j \in 1..Len(frames[v])
      <4>1. frames'[v][j] = frames[v][j] /\ frames'[u][i].run = r
        BY <3>4, <1>2 DEF Grown
      <4> QED
        BY <3>4, <4>1, <1>6 DEF InFrame
    <3> QED
      BY <3>1, <3>2, <3>3, <3>4, Zenon
  <2>3. LiveRuns'
    <3>1. \A q \in Runs : InFrame(q)' <=> InFrame(q) \/ q = r
      <4> SUFFICES ASSUME NEW q \in Runs PROVE InFrame(q)' <=> InFrame(q) \/ q = r
        OBVIOUS
      <4>1. InFrame(q)' => InFrame(q) \/ q = r
        <5> SUFFICES ASSUME NEW u \in Threads, NEW i \in 1..Len(frames'[u]), frames'[u][i].run = q
                     PROVE  InFrame(q) \/ q = r
          BY Zenon DEF InFrame
        <5>1. i \in 1..Len(frames[u]) \/ (u = t /\ i = Len(frames[t]) + 1)
          BY <1>2, Zenon DEF Grown
        <5>2. CASE i \in 1..Len(frames[u])
          <6>1. frames'[u][i] = frames[u][i]
            BY <5>2, <1>2, Zenon DEF Grown
          <6> QED
            BY <5>2, <6>1, Zenon DEF InFrame
        <5>3. CASE u = t /\ i = Len(frames[t]) + 1
          BY <5>3, <1>2 DEF Grown
        <5> QED
          BY <5>1, <5>2, <5>3, Zenon
      <4>2. InFrame(q) => InFrame(q)'
        BY <1>2, Zenon DEF Grown, InFrame
      <4>3. InFrame(r)'
        <5>1. Len(frames[t]) + 1 \in 1..Len(frames'[t])
          BY <1>2, <1>7 DEF Grown
        <5>2. frames'[t][Len(frames[t]) + 1].run = r
          BY <1>2 DEF Grown
        <5> QED
          BY <5>1, <5>2, Zenon DEF InFrame
      <4> QED
        BY <4>1, <4>2, <4>3
    <3> QED
      BY <1>1, <3>1 DEF LiveRuns, StacksAgree, RunsTypeOK
  <2>4. LeadsTakeTurns'
    BY <1>2, <1>7 DEF LeadsTakeTurns, StacksAgree, Grown, Same, LeadThreads, Threads
  <2>5. MatesRemember' /\ ParentsAreCallers'
    BY <1>1 DEF MatesRemember, ParentsAreCallers, StacksAgree, RunsTypeOK
  <2> QED
    BY <2>1, <2>2, <2>3, <2>4, <2>5 DEF StacksAgree
<1>9. CallsAgree'
  <2>1. CallsOfFrames'
    <3> SUFFICES ASSUME NEW u \in Threads, NEW i \in 1..Len(frames'[u]), frames'[u][i].at # "model"
                 PROVE  /\ frames'[u][i].call \in Calls
                        /\ toolCalls[frames'[u][i].call].run = frames'[u][i].run
      BY Zenon DEF CallsOfFrames
    <3>1. i \in 1..Len(frames[u]) \/ (u = t /\ i = Len(frames[t]) + 1)
      BY <1>2, Zenon DEF Grown
    <3>2. CASE i \in 1..Len(frames[u])
      <4>1. frames'[u][i] = frames[u][i]
        BY <3>2, <1>2, Zenon DEF Grown
      <4> QED
        BY <3>2, <4>1 DEF CallsOfFrames, CallsAgree
    <3>3. CASE u = t /\ i = Len(frames[t]) + 1
      BY <3>3, <1>2 DEF Grown
    <3> QED
      BY <3>1, <3>2, <3>3, Zenon
  <2>2. \A c \in Calls : InCall(c) => InCall(c)'
    BY <1>2, Zenon DEF InCall, Grown
  <2>3. OpenCalls'
    BY <1>1, <2>2 DEF OpenCalls, CallsAgree, Absent, RunsTypeOK
  <2> QED
    BY <2>1, <2>3 DEF CallsAgree, DecidedByCaller
<1>10. TraceFollows'
  <2>1. EventsAreTrue'
    <3> SUFFICES ASSUME NEW u \in Threads, NEW i \in 1..Len(outbox'[u]),
                        outbox'[u][i].type = "finished"
                 PROVE  /\ runs'[outbox'[u][i].run].status = outbox'[u][i].status
                        /\ outbox'[u][i].status \in Endings
      BY DEF EventsAreTrue
    <3>1. i \in 1..Len(outbox[u]) /\ outbox'[u][i] = outbox[u][i]
      BY <1>4, <1>7 DEF Grown, Same
    <3>2. runs[outbox[u][i].run].status = outbox[u][i].status /\ outbox[u][i].status \in Endings
      BY <3>1 DEF EventsAreTrue, TraceFollows
    <3>3. outbox[u][i].run # r
      BY <1>1, <3>2 DEF Absent, Endings
    <3> QED
      BY <1>1, <3>1, <3>2, <3>3 DEF RunsTypeOK
  <2>2. \A q \in Runs : OnItsWay(q) => OnItsWay(q)'
    <3> SUFFICES ASSUME NEW q \in Runs, OnItsWay(q) PROVE OnItsWay(q)'
      OBVIOUS
    <3>1. PICK u \in Threads :
             \E i \in 1..Len(outbox[u]) : outbox[u][i].run = q /\ outbox[u][i].type = "finished"
      BY Zenon DEF OnItsWay
    <3>2. PICK i \in 1..Len(outbox[u]) : outbox[u][i].run = q /\ outbox[u][i].type = "finished"
      BY <3>1
    <3>3. i \in 1..Len(outbox'[u]) /\ outbox'[u][i] = outbox[u][i]
      BY <1>4, Zenon DEF Grown
    <3> QED
      BY <3>2, <3>3, Zenon DEF OnItsWay
  <2>3. EndsAreTold'
    BY <1>1, <2>2 DEF EndsAreTold, TraceFollows, Absent, Endings, RunsTypeOK
  <2> QED
    BY <2>1, <2>3 DEF TraceFollows
<1> QED
  BY <1>5, <1>8, <1>9, <1>10

CallRecords == [Calls -> [run : Runs \cup {NoRun},
                          status : {"absent", "running", "blocked", "done"},
                          decidedFor : Runs \cup {NoRun, Undecided}]]

(* A step of a call: the frame goes on, and the record of the call with it. *)
LEMMA Calling ==
  ASSUME ArInv, NEW t \in Threads, Live(t),
         NEW place \in {"model", "hooks", "handler"}, NEW c \in Calls \cup {NoCall},
         GoOn(t, place, c),
         toolCalls' \in CallRecords,
         place # "model" => c \in Calls /\ toolCalls'[c].run = Frame(t).run,
         \A d \in Calls : toolCalls[d].run \in Runs => toolCalls'[d].run = toolCalls[d].run,
         \A d \in Calls : toolCalls'[d].status = "running" =>
            \/ d = c /\ place # "model"
            \/ /\ toolCalls[d].status = "running"
               /\ Frame(t).at # "model" => Frame(t).call # d,
         DecidedByCaller',
         UNCHANGED <<agentLock, mate, deadThreads, calledBy, context, runs, traceVars>>
  PROVE  ArInv'
<1> USE RunsAssumption DEF RunsAssumption, NoRun, NoCall, Undecided, ArInv
<1> DEFINE n == Len(frames[t])
           x == [Frame(t) EXCEPT !.at = place, !.call = c]
<1>1. /\ frames \in [Threads -> Seq(Frames)] /\ n \in Nat /\ n \in 1..n
      /\ frames[t][n] \in Frames /\ Frame(t) = frames[t][n]
  BY DEF RunsTypeOK, Live, Depth, Frame
<1>2. x \in Frames /\ x.run = Frame(t).run /\ x.at = place /\ x.call = c
  BY <1>1 DEF Frames
<1>3. frames' = [frames EXCEPT ![t][n] = x]
  BY <1>1 DEF GoOn, Depth, Frame
<1> HIDE DEF x
<1>4. /\ frames' \in [Threads -> Seq(Frames)]
      /\ Retouched(frames, frames', t, x)
  <2>1. frames' \in [Threads -> Seq(Frames)] /\ Same(frames, frames', t)
    BY <1>1, <1>2, <1>3 DEF Same
  <2>2. frames'[t] = [frames[t] EXCEPT ![n] = x]
    BY <1>1, <1>3
  <2>3. Len(frames'[t]) = n /\ frames'[t][n] = x
    BY <1>1, <2>2
  <2>4. \A i \in 1..n : frames'[t][i] = frames[t][i] \/ i = n
    BY <1>1, <2>2
  <2>5. \A u \in Threads : Len(frames'[u]) = Len(frames[u])
    BY <2>1, <2>3 DEF Same
  <2>6. \A u \in Threads : \A i \in 1..Len(frames[u]) :
            frames'[u][i] = frames[u][i] \/ (u = t /\ i = n)
    BY <2>1, <2>4 DEF Same
  <2> QED
    BY <2>1, <2>3, <2>5, <2>6 DEF Retouched
<1>5. RunsTypeOK'
  BY <1>4 DEF RunsTypeOK, traceVars, CallRecords
<1>6. \A u \in Threads : \A i \in 1..Len(frames[u]) : frames'[u][i].run = frames[u][i].run
  BY <1>1, <1>2, <1>4 DEF Retouched
<1>7. \A u \in Threads : Len(frames'[u]) = Len(frames[u])
  BY <1>4, Zenon DEF Retouched
<1>8. StacksAgree'
  <2>1. ContextFollows'
    BY <1>6, <1>7 DEF StacksAgree, ContextFollows
  <2>9. OneFrameEach'
    <3> SUFFICES ASSUME NEW u \in Threads, NEW v \in Threads,
                        NEW i \in 1..Len(frames'[u]), NEW j \in 1..Len(frames'[v]),
                        frames'[u][i].run = frames'[v][j].run
                 PROVE  u = v /\ i = j
      BY Zenon DEF OneFrameEach
    <3>1. i \in 1..Len(frames[u]) /\ j \in 1..Len(frames[v])
      BY <1>7
    <3>2. frames[u][i].run = frames[v][j].run
      BY <3>1, <1>6
    <3> QED
      BY <3>1, <3>2 DEF OneFrameEach, StacksAgree
  <2>2. \A r \in Runs : InFrame(r)' <=> InFrame(r)
    <3> SUFFICES ASSUME NEW r \in Runs PROVE InFrame(r)' <=> InFrame(r)
      OBVIOUS
    <3>1. ASSUME NEW u \in Threads
          PROVE  (\E i \in 1..Len(frames'[u]) : frames'[u][i].run = r)
                    <=> (\E i \in 1..Len(frames[u]) : frames[u][i].run = r)
      BY <1>6, <1>7
    <3> QED
      BY <3>1, Zenon DEF InFrame
  <2>3. LiveRuns'
    BY <2>2 DEF LiveRuns, StacksAgree
  <2>4. LeadsTakeTurns'
    <3>1. \A u \in Threads : u # t => frames'[u] = frames[u]
      BY <1>4 DEF Retouched, Same
    <3>2. frames[t] # <<>>
      BY DEF Live, Depth
    <3> QED
      BY <3>1, <3>2 DEF LeadsTakeTurns, StacksAgree, Threads
  <2> QED
    BY <2>1, <2>3, <2>4, <2>9 DEF StacksAgree, MatesRemember, ParentsAreCallers
<1>9. CallsAgree'
  <2>1. CallsOfFrames'
    <3> SUFFICES ASSUME NEW u \in Threads, NEW i \in 1..Len(frames'[u]), frames'[u][i].at # "model"
                 PROVE  /\ frames'[u][i].call \in Calls
                        /\ toolCalls'[frames'[u][i].call].run = frames'[u][i].run
      BY Zenon DEF CallsOfFrames
    <3>1. CASE u = t /\ i = n
      BY <3>1, <1>1, <1>2, <1>4 DEF Retouched
    <3>2. CASE frames'[u][i] = frames[u][i]
      <4>1. i \in 1..Len(frames[u]) /\ frames[u][i] \in Frames
        BY <1>1, <1>7
      <4>2. frames[u][i].call \in Calls /\ toolCalls[frames[u][i].call].run = frames[u][i].run
        BY <3>2, <4>1 DEF CallsOfFrames, CallsAgree
      <4> QED
        BY <3>2, <4>1, <4>2 DEF Frames
    <3> QED
      BY <3>1, <3>2, <1>4, <1>7 DEF Retouched
  <2>2. OpenCalls'
    <3> SUFFICES ASSUME NEW d \in Calls, toolCalls'[d].status = "running"
                 PROVE  /\ toolCalls'[d].run \in Runs
                        /\ runs'[toolCalls'[d].run].status = "failed" \/ InCall(d)'
      BY Zenon DEF OpenCalls
    <3>1. CASE d = c /\ place # "model"
      <4>1. n \in 1..Len(frames'[t]) /\ frames'[t][n].at # "model" /\ frames'[t][n].call = d
        BY <3>1, <1>1, <1>2, <1>4 DEF Retouched
      <4>2. InCall(d)'
        BY <4>1, Zenon DEF InCall
      <4>3. toolCalls'[d].run \in Runs
        BY <3>1, <1>1 DEF Frames
      <4> QED
        BY <4>2, <4>3
    <3>2. CASE /\ toolCalls[d].status = "running"
               /\ Frame(t).at # "model" => Frame(t).call # d
      <4>1. /\ toolCalls[d].run \in Runs /\ toolCalls'[d].run = toolCalls[d].run
            /\ runs[toolCalls[d].run].status = "failed" \/ InCall(d)
        BY <3>2 DEF OpenCalls, CallsAgree
      <4>2. ASSUME InCall(d) PROVE InCall(d)'
        <5>0. PICK u \in Threads : \E i \in 1..Len(frames[u]) :
                 frames[u][i].at # "model" /\ frames[u][i].call = d
          BY <4>2 DEF InCall
        <5>1. PICK i \in 1..Len(frames[u]) : frames[u][i].at # "model" /\ frames[u][i].call = d
          BY <5>0
        <5>2. ~(u = t /\ i = n)
          BY <5>1, <3>2, <1>1
        <5>3. i \in 1..Len(frames'[u]) /\ frames'[u][i] = frames[u][i]
          BY <5>2, <1>4, <1>7 DEF Retouched
        <5> QED
          BY <5>1, <5>3, Zenon DEF InCall
      <4> QED
        BY <4>1, <4>2
    <3> QED
      BY <3>1, <3>2
  <2> QED
    BY <2>1, <2>2 DEF CallsAgree
<1>10. TraceFollows'
  BY DEF TraceFollows, EventsAreTrue, EndsAreTold, OnItsWay, traceVars
<1> QED
  BY <1>5, <1>8, <1>9, <1>10

(* The end of a run, whatever ends it.                                     *)
LEMMA Finishing ==
  ASSUME ArInv, NEW t \in Threads, Live(t), NEW status \in Endings,
         FinishRun(t, status), frames' = [frames EXCEPT ![t] = ButLast(@)],
         status = "failed" \/ Frame(t).at = "model",
         deadThreads' \subseteq Threads,
         UNCHANGED <<agentLock, mate, calledBy, toolCalls, trace, lostEvents>>
  PROVE  ArInv'
<1> USE RunsAssumption DEF RunsAssumption, NoRun, NoCall, Undecided, ArInv
<1>0. PICK r \in Runs : r = Frame(t).run
  <2>1. frames \in [Threads -> Seq(Frames)] /\ Len(frames[t]) > 0
    BY DEF RunsTypeOK, Live, Depth
  <2>2. frames[t][Len(frames[t])] \in Frames
    BY <2>1
  <2> QED
    BY <2>2 DEF Frame, Depth, Frames
<1> DEFINE n == Len(frames[t])
           e == [run |-> r, type |-> "finished", status |-> status]
<1>1. /\ frames \in [Threads -> Seq(Frames)] /\ n \in Nat /\ n \in 1..n /\ frames[t] # <<>>
      /\ frames[t][n] \in Frames /\ frames[t][n].run = r
  <2>1. frames \in [Threads -> Seq(Frames)] /\ n > 0
    BY DEF RunsTypeOK, Live, Depth
  <2>2. n \in Nat /\ n \in 1..n /\ frames[t] # <<>> /\ frames[t][n] \in Frames
    BY <2>1
  <2> QED
    BY <1>0, <2>1, <2>2 DEF Frame, Depth
<1>2. /\ context \in [Threads -> Seq(Runs)] /\ Len(context[t]) = n /\ context[t] # <<>>
      /\ context[t][n] = r
  <2>1. context \in [Threads -> Seq(Runs)]
    BY DEF RunsTypeOK
  <2>2. Len(context[t]) = n /\ context[t][n] = r
    BY <1>1 DEF StacksAgree, ContextFollows
  <2> QED
    BY <1>1, <2>1, <2>2
<1>3. InFrame(r) /\ runs[r].status = "running"
  BY <1>1 DEF InFrame, StacksAgree, LiveRuns
<1>4. /\ runs' = [runs EXCEPT ![r].status = status]
      /\ context' = [context EXCEPT ![t] = ButLast(@)]
      /\ outbox' = [outbox EXCEPT ![t] = Append(@, e)]
  BY <1>0, <1>2, <1>3 DEF FinishRun, Emit, LastOf
<1>e. e \in Events /\ e.run = r /\ e.type = "finished" /\ e.status = status
  BY <1>1 DEF Events, Endings
<1> HIDE DEF e
<1>5. frames' \in [Threads -> Seq(Frames)] /\ Shrunk(frames, frames', t)
  <2>1. ButLast(frames[t]) \in Seq(Frames)
    BY <1>1, ButLastOf
  <2>2. frames' \in [Threads -> Seq(Frames)] /\ Same(frames, frames', t)
        /\ frames'[t] = ButLast(frames[t])
    BY <1>1, <2>1 DEF Same
  <2> QED
    BY <1>1, <2>2, Shrinking
<1>6. context' \in [Threads -> Seq(Runs)] /\ Shrunk(context, context', t)
  <2>1. ButLast(context[t]) \in Seq(Runs)
    BY <1>2, ButLastOf
  <2>2. context' \in [Threads -> Seq(Runs)] /\ Same(context, context', t)
        /\ context'[t] = ButLast(context[t])
    BY <1>2, <1>4, <2>1 DEF Same
  <2> QED
    BY <1>2, <2>2, Shrinking
<1>7. outbox' \in [Threads -> Seq(Events)] /\ Grown(outbox, outbox', t, e)
  <2>1. outbox \in [Threads -> Seq(Events)]
    BY DEF RunsTypeOK
  <2>3. outbox' \in [Threads -> Seq(Events)] /\ Same(outbox, outbox', t)
        /\ outbox'[t] = Append(outbox[t], e)
    BY <1>4, <1>e, <2>1 DEF Same
  <2> QED
    BY <1>e, <2>1, <2>3, Growing
<1>8. RunsTypeOK'
  <2>1. runs' \in [Runs -> [status : {"absent", "running"} \cup Endings, parent : Runs \cup {NoRun}]]
    <3>1. runs \in [Runs -> [status : {"absent", "running"} \cup Endings, parent : Runs \cup {NoRun}]]
      BY DEF RunsTypeOK
    <3> QED
      BY <1>4, <3>1
  <2> QED
    BY <1>5, <1>6, <1>7, <2>1 DEF RunsTypeOK
<1>9. /\ \A u \in Threads : /\ Len(frames[u]) \in Nat /\ Len(context[u]) \in Nat
                            /\ Len(outbox[u]) \in Nat
      /\ runs \in [Runs -> [status : {"absent", "running"} \cup Endings, parent : Runs \cup {NoRun}]]
  BY DEF RunsTypeOK
<1>10. StacksAgree'
  <2>1. ContextFollows'
    <3> SUFFICES ASSUME NEW u \in Threads
                 PROVE  /\ Len(context'[u]) = Len(frames'[u])
                        /\ \A i \in 1..Len(frames'[u]) : context'[u][i] = frames'[u][i].run
      BY DEF ContextFollows
    <3>1. Len(context[u]) = Len(frames[u]) /\ \A i \in 1..Len(frames[u]) : context[u][i] = frames[u][i].run
      BY DEF ContextFollows, StacksAgree
    <3>2. Len(context'[u]) = Len(frames'[u])
      <4>1. CASE u = t
        BY <4>1, <3>1, <1>5, <1>6 DEF Shrunk
      <4>2. CASE u # t
        <5>1. context'[u] = context[u] /\ frames'[u] = frames[u]
          BY <4>2, <1>5, <1>6 DEF Shrunk, Same
        <5> QED
          BY <5>1, <3>1
      <4> QED
        BY <4>1, <4>2
    <3>3. ASSUME NEW i \in 1..Len(frames'[u]) PROVE context'[u][i] = frames'[u][i].run
      <4>1. i \in 1..Len(frames[u]) /\ frames'[u][i] = frames[u][i]
        BY <1>5, Zenon DEF Shrunk
      <4>2. context'[u][i] = context[u][i]
        BY <3>2, <1>6 DEF Shrunk
      <4> QED
        BY <3>1, <4>1, <4>2
    <3> QED
      BY <3>2, <3>3
  <2>2. OneFrameEach'
    <3>1. \A u \in Threads : \A i \in 1..Len(frames'[u]) :
             i \in 1..Len(frames[u]) /\ frames'[u][i] = frames[u][i]
      BY <1>5, Zenon DEF Shrunk
    <3> QED
      BY <3>1 DEF OneFrameEach, StacksAgree
  <2>3. \A q \in Runs : InFrame(q)' <=> InFrame(q) /\ q # r
    <3> SUFFICES ASSUME NEW q \in Runs PROVE InFrame(q)' <=> InFrame(q) /\ q # r
      OBVIOUS
    <3>1. ASSUME InFrame(q)' PROVE InFrame(q) /\ q # r
      <4>0. PICK u \in Threads : \E i \in 1..Len(frames'[u]) : frames'[u][i].run = q
        BY <3>1, Zenon DEF InFrame
      <4>1. PICK i \in 1..Len(frames'[u]) : frames'[u][i].run = q
        BY <4>0
      <4>2. i \in 1..Len(frames[u]) /\ frames[u][i].run = q /\ (u # t \/ i # n)
        BY <4>1, <1>5 DEF Shrunk
      <4>3. q # r
        BY <4>2, <1>1 DEF OneFrameEach, StacksAgree
      <4> QED
        BY <4>2, <4>3, Zenon DEF InFrame
    <3>2. ASSUME InFrame(q), q # r PROVE InFrame(q)'
      <4>0. PICK u \in Threads : \E i \in 1..Len(frames[u]) : frames[u][i].run = q
        BY <3>2, Zenon DEF InFrame
      <4>1. PICK i \in 1..Len(frames[u]) : frames[u][i].run = q
        BY <4>0
      <4>2. ~(u = t /\ i = n)
        BY <4>1, <3>2, <1>1
      <4>3. i \in 1..Len(frames'[u]) /\ frames'[u][i] = frames[u][i]
        BY <4>2, <1>5 DEF Shrunk
      <4> QED
        BY <4>1, <4>3, Zenon DEF InFrame
    <3> QED
      BY <3>1, <3>2
  <2>4. LiveRuns'
    BY <2>3, <1>1, <1>4, <1>9 DEF LiveRuns, StacksAgree, Endings
  <2>5. LeadsTakeTurns'
    <3>1. \A u \in Threads : u # t => frames'[u] = frames[u]
      BY <1>5 DEF Shrunk, Same
    <3> QED
      BY <1>1, <3>1 DEF LeadsTakeTurns, StacksAgree, Threads
  <2>6. MatesRemember' /\ ParentsAreCallers'
    BY <1>4, <1>9 DEF MatesRemember, ParentsAreCallers, StacksAgree
  <2> QED
    BY <2>1, <2>2, <2>4, <2>5, <2>6 DEF StacksAgree
<1>11. CallsAgree'
  <2>1. CallsOfFrames'
    <3>1. \A u \in Threads : \A i \in 1..Len(frames'[u]) :
             i \in 1..Len(frames[u]) /\ frames'[u][i] = frames[u][i]
      BY <1>5, Zenon DEF Shrunk
    <3> QED
      BY <3>1 DEF CallsOfFrames, CallsAgree
  <2>2. OpenCalls'
    <3> SUFFICES ASSUME NEW d \in Calls, toolCalls[d].status = "running"
                 PROVE  /\ toolCalls[d].run \in Runs
                        /\ runs'[toolCalls[d].run].status = "failed" \/ InCall(d)'
      BY DEF OpenCalls
    <3>1. /\ toolCalls[d].run \in Runs
          /\ runs[toolCalls[d].run].status = "failed" \/ InCall(d)
      BY DEF OpenCalls, CallsAgree
    <3>2. CASE runs[toolCalls[d].run].status = "failed"
      BY <3>1, <3>2, <1>3, <1>4, <1>9
    <3>3. CASE InCall(d)
      <4>0. PICK u \in Threads : \E i \in 1..Len(frames[u]) :
               frames[u][i].at # "model" /\ frames[u][i].call = d
        BY <3>3 DEF InCall
      <4>1. PICK i \in 1..Len(frames[u]) : frames[u][i].at # "model" /\ frames[u][i].call = d
        BY <4>0
      <4>2. CASE u = t /\ i = n
        <5>1. status = "failed" /\ toolCalls[d].run = r
          BY <4>1, <4>2, <1>0, <1>1 DEF CallsOfFrames, CallsAgree, Frame, Depth
        <5> QED
          BY <5>1, <3>1, <1>4, <1>9
      <4>3. CASE ~(u = t /\ i = n)
        <5>1. i \in 1..Len(frames'[u]) /\ frames'[u][i] = frames[u][i]
          BY <4>3, <1>5 DEF Shrunk
        <5>2. InCall(d)'
          BY <4>1, <5>1, Zenon DEF InCall
        <5> QED
          BY <3>1, <5>2
      <4> QED
        BY <4>2, <4>3
    <3> QED
      BY <3>1, <3>2, <3>3
  <2> QED
    BY <2>1, <2>2 DEF CallsAgree, DecidedByCaller
<1>12. TraceFollows'
  <2>1. EventsAreTrue'
    <3> SUFFICES ASSUME NEW u \in Threads, NEW i \in 1..Len(outbox'[u]),
                        outbox'[u][i].type = "finished"
                 PROVE  /\ runs'[outbox'[u][i].run].status = outbox'[u][i].status
                        /\ outbox'[u][i].status \in Endings
      BY DEF EventsAreTrue
    <3>1. CASE i \in 1..Len(outbox[u])
      <4>1. outbox'[u][i] = outbox[u][i]
        BY <3>1, <1>7 DEF Grown
      <4>2. runs[outbox[u][i].run].status = outbox[u][i].status /\ outbox[u][i].status \in Endings
        BY <3>1, <4>1 DEF EventsAreTrue, TraceFollows
      <4>3. outbox[u][i].run # r
        BY <1>3, <4>2 DEF Endings
      <4> QED
        BY <4>1, <4>2, <4>3, <1>4, <1>9
    <3>2. CASE u = t /\ i = Len(outbox[t]) + 1
      <4>1. outbox'[u][i] = e
        BY <3>2, <1>7 DEF Grown
      <4> QED
        BY <4>1, <1>e, <1>1, <1>4, <1>9
    <3> QED
      BY <3>1, <3>2, <1>7 DEF Grown
  <2>2. \A q \in Runs : OnItsWay(q) => OnItsWay(q)'
    <3> SUFFICES ASSUME NEW q \in Runs, OnItsWay(q) PROVE OnItsWay(q)'
      OBVIOUS
    <3>1. PICK u \in Threads :
             \E i \in 1..Len(outbox[u]) : outbox[u][i].run = q /\ outbox[u][i].type = "finished"
      BY Zenon DEF OnItsWay
    <3>2. PICK i \in 1..Len(outbox[u]) : outbox[u][i].run = q /\ outbox[u][i].type = "finished"
      BY <3>1
    <3>3. i \in 1..Len(outbox'[u]) /\ outbox'[u][i] = outbox[u][i]
      BY <1>7, Zenon DEF Grown
    <3> QED
      BY <3>2, <3>3, Zenon DEF OnItsWay
  <2>3. OnItsWay(r)'
    <3>1. Len(outbox[t]) + 1 \in 1..Len(outbox'[t]) /\ outbox'[t][Len(outbox[t]) + 1] = e
      BY <1>7, <1>9 DEF Grown
    <3> QED
      BY <3>1, <1>e, Zenon DEF OnItsWay
  <2>4. EndsAreTold'
    BY <2>2, <2>3, <1>3, <1>4, <1>9 DEF EndsAreTold, TraceFollows, Endings, RunsTypeOK
  <2> QED
    BY <2>1, <2>4 DEF TraceFollows
<1> QED
  BY <1>8, <1>10, <1>11, <1>12

(* What does not change in a step stays in agreement.                      *)
LEMMA StacksStay ==
  ASSUME StacksAgree, UNCHANGED <<frames, context, runs, calledBy>>, LeadsTakeTurns', MatesRemember'
  PROVE  StacksAgree'
<1>1. ContextFollows'
  BY DEF StacksAgree, ContextFollows
<1>2. OneFrameEach'
  BY DEF StacksAgree, OneFrameEach
<1>3. LiveRuns'
  BY DEF StacksAgree, LiveRuns, InFrame
<1>4. ParentsAreCallers'
  BY DEF StacksAgree, ParentsAreCallers
<1> QED
  BY <1>1, <1>2, <1>3, <1>4 DEF StacksAgree

LEMMA CallsStay ==
  ASSUME CallsAgree, UNCHANGED <<frames, runs, toolCalls>>
  PROVE  CallsAgree'
<1>1. CallsOfFrames'
  BY DEF CallsAgree, CallsOfFrames
<1>2. OpenCalls'
  BY DEF CallsAgree, OpenCalls, InCall
<1>3. DecidedByCaller'
  BY DEF CallsAgree, DecidedByCaller
<1> QED
  BY <1>1, <1>2, <1>3 DEF CallsAgree

LEMMA TraceStays ==
  ASSUME TraceFollows, UNCHANGED <<runs, traceVars>>
  PROVE  TraceFollows'
<1>1. EventsAreTrue'
  BY DEF TraceFollows, EventsAreTrue, traceVars
<1>2. EndsAreTold'
  BY DEF TraceFollows, EndsAreTold, OnItsWay, traceVars
<1> QED
  BY <1>1, <1>2 DEF TraceFollows

(* A step of the sink hands on the first event of a thread.                *)
LEMMA Storing == ASSUME ArInv, NEW t \in Threads, Sink(t) PROVE ArInv'
<1> USE RunsAssumption DEF RunsAssumption, NoRun, NoCall, Undecided, ArInv
<1>1. outbox \in [Threads -> Seq(Events)] /\ outbox[t] # <<>>
  BY DEF RunsTypeOK, Sink
<1>2. /\ Head(outbox[t]) = outbox[t][1] /\ Head(outbox[t]) \in Events
      /\ 1 \in 1..Len(outbox[t]) /\ Len(outbox[t]) \in Nat
      /\ Tail(outbox[t]) \in Seq(Events) /\ Len(Tail(outbox[t])) = Len(outbox[t]) - 1
      /\ \A i \in 1..Len(Tail(outbox[t])) : Tail(outbox[t])[i] = outbox[t][i + 1]
  <2>1. outbox[t] \in Seq(Events) /\ Len(outbox[t]) \in Nat /\ Len(outbox[t]) > 0
    BY <1>1
  <2> QED
    BY <1>1, <2>1
<1>3. PICK e \in Events :
        /\ e = Head(outbox[t])
        /\ \/ trace' = [trace EXCEPT ![e.run] = StatusAfter(e)] /\ UNCHANGED lostEvents
           \/ lostEvents' = lostEvents \cup {e.run} /\ UNCHANGED trace
        /\ outbox' = [outbox EXCEPT ![t] = Tail(@)]
        /\ UNCHANGED <<agentLock, frames, mate, deadThreads, calledBy, trackerVars>>
  BY <1>2 DEF Sink
<1>4. /\ outbox' \in [Threads -> Seq(Events)]
      /\ outbox'[t] = Tail(outbox[t])
      /\ \A u \in Threads : u # t => outbox'[u] = outbox[u]
  BY <1>1, <1>2, <1>3
<1>5. e.run \in Runs /\ e.type \in {"started", "finished"} /\ e.status \in {"running"} \cup Endings
  BY DEF Events
<1>6. e.type = "finished" => runs[e.run].status = e.status /\ e.status \in Endings
  BY <1>2, <1>3 DEF TraceFollows, EventsAreTrue
<1>7. RunsTypeOK'
  <2>1. trace \in [Runs -> {"unseen", "running"} \cup Endings] /\ lostEvents \subseteq Runs
    BY DEF RunsTypeOK
  <2>2. StatusAfter(e) \in {"unseen", "running"} \cup Endings
    BY <2>1, <1>5, <1>6 DEF StatusAfter
  <2>3. trace' \in [Runs -> {"unseen", "running"} \cup Endings] /\ lostEvents' \subseteq Runs
    BY <2>1, <2>2, <1>3, <1>5
  <2> QED
    BY <1>3, <1>4, <2>3 DEF RunsTypeOK, trackerVars
<1>8. StacksAgree' /\ CallsAgree'
  <2>1. UNCHANGED <<agentLock, frames, context, runs, mate, calledBy, toolCalls>>
    BY <1>3 DEF trackerVars
  <2> QED
    BY <2>1, StacksStay, CallsStay DEF StacksAgree, LeadsTakeTurns, MatesRemember
<1>9. \A u \in Threads : \A i \in 1..Len(outbox'[u]) :
        \E j \in 1..Len(outbox[u]) : outbox'[u][i] = outbox[u][j]
  <2> SUFFICES ASSUME NEW u \in Threads, NEW i \in 1..Len(outbox'[u])
               PROVE  \E j \in 1..Len(outbox[u]) : outbox'[u][i] = outbox[u][j]
    OBVIOUS
  <2>1. CASE u = t
    <3>1. i + 1 \in 1..Len(outbox[t]) /\ outbox'[t][i] = outbox[t][i + 1]
      BY <2>1, <1>2, <1>4
    <3> QED
      BY <3>1, <2>1
  <2>2. CASE u # t
    <3>1. outbox'[u] = outbox[u]
      BY <2>2, <1>4
    <3> QED
      BY <3>1
  <2> QED
    BY <2>1, <2>2
<1>10. \A q \in Runs : OnItsWay(q) => OnItsWay(q)' \/ (q = e.run /\ e.type = "finished")
  <2> SUFFICES ASSUME NEW q \in Runs, OnItsWay(q), ~(q = e.run /\ e.type = "finished")
               PROVE  OnItsWay(q)'
    OBVIOUS
  <2>1. PICK u \in Threads :
           \E i \in 1..Len(outbox[u]) : outbox[u][i].run = q /\ outbox[u][i].type = "finished"
    BY DEF OnItsWay
  <2>2. PICK i \in 1..Len(outbox[u]) : outbox[u][i].run = q /\ outbox[u][i].type = "finished"
    BY <2>1
  <2>3. \E j \in 1..Len(outbox'[u]) : outbox'[u][j] = outbox[u][i]
    <3>1. CASE u = t
      <4>1. i # 1
        BY <3>1, <2>2, <1>2, <1>3
      <4>2. i - 1 \in 1..Len(outbox'[t]) /\ outbox'[t][i - 1] = outbox[t][i]
        BY <3>1, <4>1, <1>2, <1>4
      <4> QED
        BY <3>1, <4>2
    <3>2. CASE u # t
      <4>1. outbox'[u] = outbox[u]
        BY <3>2, <1>4
      <4> QED
        BY <4>1
    <3> QED
      BY <3>1, <3>2
  <2> QED
    BY <2>2, <2>3, Zenon DEF OnItsWay
<1>11. TraceFollows'
  <2>1. runs' = runs
    BY <1>3 DEF trackerVars
  <2>2. EventsAreTrue'
    <3> SUFFICES ASSUME NEW u \in Threads, NEW i \in 1..Len(outbox'[u]),
                        outbox'[u][i].type = "finished"
                 PROVE  /\ runs'[outbox'[u][i].run].status = outbox'[u][i].status
                        /\ outbox'[u][i].status \in Endings
      BY DEF EventsAreTrue
    <3>1. PICK j \in 1..Len(outbox[u]) : outbox'[u][i] = outbox[u][j]
      BY <1>9
    <3> QED
      BY <2>1, <3>1 DEF EventsAreTrue, TraceFollows
  <2>3. EndsAreTold'
    <3> SUFFICES ASSUME NEW q \in Runs
                 PROVE  /\ trace'[q] \in {"unseen", "running", runs[q].status}
                        /\ runs[q].status \in Endings =>
                              trace'[q] = runs[q].status \/ q \in lostEvents' \/ OnItsWay(q)'
      BY <2>1 DEF EndsAreTold
    <3>1. /\ trace[q] \in {"unseen", "running", runs[q].status}
          /\ runs[q].status \in Endings => trace[q] = runs[q].status \/ q \in lostEvents \/ OnItsWay(q)
          /\ trace \in [Runs -> {"unseen", "running"} \cup Endings]
      BY DEF EndsAreTold, TraceFollows, RunsTypeOK
    <3>2. CASE trace' = [trace EXCEPT ![e.run] = StatusAfter(e)] /\ UNCHANGED lostEvents
      <4>1. CASE q = e.run /\ e.type = "finished"
        BY <3>1, <3>2, <4>1, <1>5, <1>6 DEF StatusAfter
      <4>2. CASE q = e.run /\ e.type # "finished"
        BY <3>1, <3>2, <4>2, <1>10 DEF StatusAfter, Endings
      <4>3. CASE q # e.run
        BY <3>1, <3>2, <4>3, <1>10
      <4> QED
        BY <4>1, <4>2, <4>3
    <3>3. CASE lostEvents' = lostEvents \cup {e.run} /\ UNCHANGED trace
      BY <3>1, <3>3, <1>10
    <3> QED
      BY <3>2, <3>3, <1>3
  <2> QED
    BY <2>2, <2>3 DEF TraceFollows
<1> QED
  BY <1>7, <1>8, <1>11

LEMMA CurrentIsTop ==
  ASSUME ArInv, NEW t \in Threads, Depth(t) > 0
  PROVE  /\ CurrentRun(t) = Frame(t).run /\ Frame(t) \in Frames
         /\ Len(frames[t]) \in 1..Len(frames[t]) /\ Frame(t) = frames[t][Len(frames[t])]
<1>1. frames \in [Threads -> Seq(Frames)] /\ context \in [Threads -> Seq(Runs)]
  BY DEF ArInv, RunsTypeOK
<1>2. Len(frames[t]) \in 1..Len(frames[t])
  BY <1>1 DEF Depth
<1>3. Len(context[t]) = Len(frames[t]) /\ context[t][Len(frames[t])] = Frame(t).run
  BY <1>2 DEF ArInv, StacksAgree, ContextFollows, Frame, Depth
<1>4. context[t] # <<>>
  BY <1>1, <1>2, <1>3
<1> QED
  BY <1>1, <1>2, <1>3, <1>4 DEF CurrentRun, LastOf, Frame, Depth

LEMMA CallerOfFrame ==
  ASSUME ArInv, NEW t \in Threads, Depth(t) > 0, Frame(t).at # "model"
  PROVE  Frame(t).call \in Calls /\ toolCalls[Frame(t).call].run = Frame(t).run
BY CurrentIsTop DEF ArInv, CallsAgree, CallsOfFrames

LEMMA CallsAreRecords == ArInv => toolCalls \in CallRecords
BY DEF ArInv, RunsTypeOK, CallRecords

LEMMA ArSteps == ArInv /\ [RunsNext]_agentVars => ArInv'
<1> SUFFICES ASSUME ArInv, [RunsNext]_agentVars PROVE ArInv'
  OBVIOUS
<1> USE RunsAssumption DEF RunsAssumption
<1>1. ASSUME NEW t \in LeadThreads, BeginTurn(t) PROVE ArInv'
  <2>1. t \in Threads /\ agentLock = NoThread /\ agentLock' = t /\ StartRun(t, "lead", NoRun, NoRun)
        /\ UNCHANGED <<mate, deadThreads, toolCalls, trace, lostEvents>>
    BY <1>1 DEF BeginTurn, Threads
  <2>2. agentLock # t
    BY <2>1 DEF LeadThreads
  <2>3. CurrentRun(t) = NoRun
    <3>1. frames[t] = <<>>
      BY <2>2 DEF ArInv, StacksAgree, LeadsTakeTurns
    <3>2. Len(context[t]) = 0 /\ context[t] \in Seq(Runs)
      BY <2>1, <3>1 DEF ArInv, StacksAgree, ContextFollows, RunsTypeOK
    <3> QED
      BY <3>2 DEF CurrentRun
  <2> QED
    BY <2>1, <2>3, Starting
<1>2. ASSUME NEW t \in LeadThreads, EndTurn(t) PROVE ArInv'
  <2>1. RunsTypeOK'
    BY <1>2 DEF EndTurn, ArInv, RunsTypeOK, trackerVars, traceVars
  <2>2. StacksAgree'
    <3>1. LeadsTakeTurns' /\ MatesRemember'
      BY <1>2 DEF EndTurn, ArInv, StacksAgree, LeadsTakeTurns, MatesRemember
    <3>2. UNCHANGED <<frames, context, runs, calledBy>>
      BY <1>2 DEF EndTurn, trackerVars
    <3> QED
      BY <3>1, <3>2, StacksStay DEF ArInv
  <2>3. CallsAgree' /\ TraceFollows'
    BY <1>2, CallsStay, TraceStays DEF EndTurn, ArInv, trackerVars
  <2> QED
    BY <2>1, <2>2, <2>3 DEF ArInv
<1>3. ASSUME NEW t \in LeadThreads, NEW m \in Mates, Spawn(t, m) PROVE ArInv'
  <2>1. t \in Threads /\ Depth(t) > 0
    BY <1>3 DEF Spawn, Stands, Live, Threads
  <2>2. CurrentRun(t) = Frame(t).run /\ Frame(t).run \in Runs
    BY <2>1, CurrentIsTop DEF Frames
  <2>3. mate' = [mate EXCEPT ![m] = [parent |-> Frame(t).run, caller |-> Frame(t).run]]
        /\ UNCHANGED <<agentLock, frames, deadThreads, calledBy, trackerVars, traceVars>>
    BY <1>3, <2>2 DEF Spawn
  <2>4. RunsTypeOK'
    BY <2>2, <2>3 DEF ArInv, RunsTypeOK, trackerVars, traceVars
  <2>5. StacksAgree'
    <3>1. MatesRemember'
      BY <2>3 DEF ArInv, RunsTypeOK, StacksAgree, MatesRemember
    <3>2. UNCHANGED <<frames, context, runs, calledBy>> /\ LeadsTakeTurns'
      BY <2>3 DEF trackerVars, ArInv, StacksAgree, LeadsTakeTurns
    <3> QED
      BY <3>1, <3>2, StacksStay DEF ArInv
  <2>6. CallsAgree' /\ TraceFollows'
    BY <2>3, CallsStay, TraceStays DEF ArInv, trackerVars
  <2> QED
    BY <2>4, <2>5, <2>6 DEF ArInv
<1>4. ASSUME NEW m \in Mates, MateBegins(m) PROVE ArInv'
  <2>1. m \in Threads /\ m \notin LeadThreads
    BY DEF Threads, LeadThreads
  <2>2. mate[m].parent = mate[m].caller /\ mate[m].parent \in Runs
    BY <1>4 DEF MateBegins, ArInv, StacksAgree, MatesRemember, RunsTypeOK, NotSpawned
  <2>3. mate[m].parent # NoRun
    BY <2>2 DEF Runs, NoRun
  <2>4. StartRun(m, "teammate", mate[m].parent, mate[m].caller)
        /\ UNCHANGED <<agentLock, mate, deadThreads, toolCalls, trace, lostEvents>>
    BY <1>4 DEF MateBegins
  <2>5. agentLock \in LeadThreads \cup {NoThread}
    BY DEF ArInv, RunsTypeOK
  <2> QED
    BY <2>1, <2>2, <2>3, <2>4, <2>5, Starting
<1>5. ASSUME NEW t \in Threads, Delegate(t) PROVE ArInv'
  <2>1. StartRun(t, "subagent", NoRun, Frame(t).run)
        /\ UNCHANGED <<agentLock, mate, deadThreads, toolCalls, trace, lostEvents>>
    BY <1>5 DEF Delegate
  <2>2. Depth(t) > 0 /\ frames[t] # <<>>
    BY <1>5 DEF Delegate, Stands, Live, Depth
  <2>3. CurrentRun(t) = Frame(t).run /\ Frame(t).run \in Runs
    BY <2>2, CurrentIsTop DEF Frames
  <2>4. t \in LeadThreads => agentLock' = t
    BY <2>1, <2>2 DEF ArInv, StacksAgree, LeadsTakeTurns
  <2>5. agentLock' \in LeadThreads \cup {NoThread} /\ agentLock' = agentLock
    BY <2>1 DEF ArInv, RunsTypeOK
  <2> QED
    BY <2>1, <2>3, <2>4, <2>5, Starting
<1>6. ASSUME NEW t \in Threads, BeginCall(t) PROVE ArInv'
  <2>1. Live(t) /\ Frame(t).at = "model" /\ Depth(t) > 0
    BY <1>6 DEF BeginCall, Stands, Live
  <2>2. Frame(t) \in Frames
    BY <2>1, CurrentIsTop
  <2>3. PICK c \in Calls :
          /\ toolCalls[c] = Unmade
          /\ toolCalls' = [toolCalls EXCEPT ![c].run = Frame(t).run, ![c].status = "running"]
          /\ GoOn(t, IF Frame(t).kind = "teammate" THEN "handler" ELSE "hooks", c)
          /\ UNCHANGED <<agentLock, mate, deadThreads, calledBy, context, runs, traceVars>>
    BY <1>6 DEF BeginCall
  <2>4. PICK place \in {"hooks", "handler"} : GoOn(t, place, c)
    BY <2>3
  <2>5. /\ toolCalls' \in CallRecords
        /\ toolCalls'[c].run = Frame(t).run
        /\ \A d \in Calls : d # c => toolCalls'[d] = toolCalls[d]
        /\ toolCalls'[c].decidedFor = Undecided
        /\ toolCalls[c].run = NoRun
    BY <2>2, <2>3, CallsAreRecords DEF CallRecords, Unmade, Frames
  <2>6. DecidedByCaller'
    BY <2>5 DEF ArInv, CallsAgree, DecidedByCaller
  <2>7. \A d \in Calls : toolCalls[d].run \in Runs => toolCalls'[d].run = toolCalls[d].run
    BY <2>5 DEF NoRun, Runs
  <2>8. \A d \in Calls : toolCalls'[d].status = "running" =>
            \/ d = c /\ place # "model"
            \/ /\ toolCalls[d].status = "running"
               /\ Frame(t).at # "model" => Frame(t).call # d
    BY <2>1, <2>5
  <2>9. place \in {"model", "hooks", "handler"} /\ c \in Calls \cup {NoCall}
    OBVIOUS
  <2>10. place # "model" => c \in Calls /\ toolCalls'[c].run = Frame(t).run
    BY <2>5
  <2>11. toolCalls' \in CallRecords
    BY <2>5
  <2>12. UNCHANGED <<agentLock, mate, deadThreads, calledBy, context, runs, traceVars>>
    BY <2>3
  <2> QED
    BY <2>1, <2>4, <2>6, <2>7, <2>8, <2>9, <2>10, <2>11, <2>12, Calling
<1>7. ASSUME NEW t \in Threads, Compact(t) \/ EndCall(t) PROVE ArInv'
  <2>1. /\ Live(t) /\ Depth(t) > 0 /\ Frame(t).at # "model" /\ FinishCall(t)
        /\ UNCHANGED <<agentLock, mate, deadThreads, calledBy, context, runs, traceVars>>
    BY <1>7 DEF Compact, EndCall, Stands, Live
  <2>2. Frame(t).call \in Calls
    BY <2>1, CallerOfFrame
  <2>3. /\ toolCalls' \in CallRecords
        /\ \A d \in Calls : /\ toolCalls'[d].run = toolCalls[d].run
                            /\ toolCalls'[d].decidedFor = toolCalls[d].decidedFor
                            /\ d # Frame(t).call => toolCalls'[d].status = toolCalls[d].status
        /\ toolCalls'[Frame(t).call].status = "done"
    BY <2>1, <2>2, CallsAreRecords DEF CallRecords, FinishCall
  <2>4. DecidedByCaller'
    BY <2>3 DEF ArInv, CallsAgree, DecidedByCaller
  <2>5. GoOn(t, "model", NoCall)
    BY <2>1 DEF FinishCall
  <2>6. \A d \in Calls : toolCalls'[d].status = "running" =>
            toolCalls[d].status = "running" /\ Frame(t).call # d
    BY <2>2, <2>3
  <2> QED
    BY <2>1, <2>3, <2>4, <2>5, <2>6, Calling
<1>8. ASSUME NEW t \in Threads, Decide(t) PROVE ArInv'
  <2>1. /\ Live(t) /\ Depth(t) > 0 /\ Frame(t).at # "model"
        /\ UNCHANGED <<agentLock, mate, deadThreads, calledBy, context, runs, traceVars>>
    BY <1>8 DEF Decide, Stands, Live
  <2> DEFINE c == Frame(t).call
  <2>2. c \in Calls /\ toolCalls[c].run = Frame(t).run /\ CurrentRun(t) = Frame(t).run
        /\ Frame(t).run \in Runs
    BY <2>1, CallerOfFrame, CurrentIsTop DEF Frames
  <2>3. PICK passes \in BOOLEAN :
          /\ toolCalls' = [toolCalls EXCEPT ![c].decidedFor = CurrentRun(t),
                                            ![c].status = IF passes THEN @ ELSE "blocked"]
          /\ IF passes THEN GoOn(t, "handler", c) ELSE GoOn(t, "model", NoCall)
    <3>1. PICK action \in {Evaluate(u) : u \in ToolUses}, approved \in BOOLEAN :
            LET passes == action = "allow" \/ (action = "ask" /\ approved) IN
            /\ toolCalls' = [toolCalls EXCEPT ![c].decidedFor = CurrentRun(t),
                                              ![c].status = IF passes THEN @ ELSE "blocked"]
            /\ IF passes THEN GoOn(t, "handler", c) ELSE GoOn(t, "model", NoCall)
      BY <1>8 DEF Decide
    <3> QED
      BY <3>1
  <2>4. /\ toolCalls' \in CallRecords
        /\ \A d \in Calls : /\ toolCalls'[d].run = toolCalls[d].run
                            /\ d # c => toolCalls'[d] = toolCalls[d]
        /\ toolCalls'[c].decidedFor = Frame(t).run
        /\ toolCalls'[c].status = IF passes THEN toolCalls[c].status ELSE "blocked"
    BY <2>2, <2>3, CallsAreRecords DEF CallRecords
  <2>5. DecidedByCaller'
    BY <2>2, <2>4 DEF ArInv, CallsAgree, DecidedByCaller
  <2> HIDE DEF c
  <2>6. CASE passes
    <3>1. GoOn(t, "handler", c)
      BY <2>3, <2>6
    <3>2. toolCalls'[c].run = Frame(t).run
      BY <2>2, <2>4
    <3>3. \A d \in Calls : toolCalls'[d].status = "running" =>
            \/ d = c /\ "handler" # "model"
            \/ toolCalls[d].status = "running" /\ c # d
      BY <2>4
    <3> QED
      BY <2>1, <2>2, <2>4, <2>5, <3>1, <3>2, <3>3, Calling DEF c
  <2>7. CASE ~passes
    <3>1. GoOn(t, "model", NoCall)
      BY <2>3, <2>7
    <3>2. \A d \in Calls : toolCalls'[d].status = "running" =>
            toolCalls[d].status = "running" /\ c # d
      BY <2>2, <2>4, <2>7
    <3> QED
      BY <2>1, <2>4, <2>5, <3>1, <3>2, Calling DEF c
  <2> QED
    BY <2>6, <2>7
<1>9. ASSUME NEW t \in Threads, NEW status \in Endings, EndRun(t, status) PROVE ArInv'
  BY <1>9, Finishing DEF EndRun, Stands, ArInv, RunsTypeOK
<1>10. ASSUME NEW t \in Threads, Raise(t) PROVE ArInv'
  BY <1>10, Finishing DEF Raise, ArInv, RunsTypeOK, Endings
<1>11. ASSUME NEW t \in Threads, Sink(t) PROVE ArInv'
  BY <1>11, Storing
<1>12. CASE UNCHANGED agentVars
  <2>1. RunsTypeOK'
    BY <1>12 DEF agentVars, trackerVars, traceVars, ArInv, RunsTypeOK
  <2> QED
    BY <1>12, <2>1, StacksStay, CallsStay, TraceStays DEF agentVars, trackerVars, ArInv,
       StacksAgree, LeadsTakeTurns, MatesRemember
<1> QED
  BY <1>1, <1>2, <1>3, <1>4, <1>5, <1>6, <1>7, <1>8, <1>9, <1>10, <1>11, <1>12 DEF RunsNext

(* The tracker's records keep their types, for any number of teammates,    *)
(* runs and calls.                                                         *)
THEOREM RunsTypeCorrect == RunsSpec => []RunsTypeOK
<1>1. ArInv => RunsTypeOK
  BY DEF ArInv
<1> QED
  BY <1>1, ArInitially, ArSteps, PTL DEF RunsSpec

(* Every run is recorded under the run whose call started it, and every    *)
(* decision under the run that made the call.                              *)
THEOREM CallersAlwaysRecorded == RunsSpec => []CallersAreRecorded
<1>1. ArInv => CallersAreRecorded
  BY DEF ArInv, StacksAgree, ParentsAreCallers, CallsAgree, DecidedByCaller, CallersAreRecorded
<1> QED
  BY <1>1, ArInitially, ArSteps, PTL DEF RunsSpec

(* The threads, the tracker and the trace tell one story of what runs and  *)
(* of how it ended.                                                        *)
THEOREM RecordsAlwaysAgree == RunsSpec => []RecordsAgree
<1>1. ArInv => RecordsAgree
  <2> SUFFICES ASSUME ArInv PROVE RecordsAgree
    OBVIOUS
  <2>1. \A c \in Calls : toolCalls[c].status = "running" =>
          runs[toolCalls[c].run].status \in {"running", "failed"}
    <3> SUFFICES ASSUME NEW c \in Calls, toolCalls[c].status = "running",
                        runs[toolCalls[c].run].status # "failed"
                 PROVE  runs[toolCalls[c].run].status = "running"
      OBVIOUS
    <3>1. toolCalls[c].run \in Runs /\ InCall(c)
      BY DEF ArInv, CallsAgree, OpenCalls
    <3>2. PICK t \in Threads : \E i \in 1..Len(frames[t]) :
             frames[t][i].at # "model" /\ frames[t][i].call = c
      BY <3>1 DEF InCall
    <3>3. InFrame(toolCalls[c].run)
      BY <3>2 DEF ArInv, CallsAgree, CallsOfFrames, InFrame
    <3> QED
      BY <3>1, <3>3 DEF ArInv, StacksAgree, LiveRuns
  <2>2. EndedRunsAreClosed
    BY <2>1 DEF ArInv, StacksAgree, LiveRuns, InFrame, EndedRunsAreClosed, Depth
  <2>3. TraceAgrees
    BY DEF ArInv, TraceFollows, EndsAreTold, OnItsWay, TraceAgrees
  <2> QED
    BY <2>2, <2>3 DEF RecordsAgree
<1> QED
  BY <1>1, ArInitially, ArSteps, PTL DEF RunsSpec
=============================================================================
