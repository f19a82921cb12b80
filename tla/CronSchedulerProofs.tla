------------------------ MODULE CronSchedulerProofs ------------------------
(***************************************************************************)
(* Proofs about the cron scheduler, for any schedules, expressions and     *)
(* minutes, any processes, crashes and faults.                             *)
(***************************************************************************)
EXTENDS CronScheduler, TLAPS

(* What a tick is at work on.                                              *)
Ticking(p) == tick[p].due \cup tick[p].queued

(* A tick is of a minute that has come, for schedules that exist, and so   *)
(* are the firings it leaves behind.                                       *)
TicksAreReal ==
    /\ \A p \in Procs : \A s \in Ticking(p) :
          tick[p].minute \in 1..now /\ active[s] # "absent"
    /\ \A s \in Schedules : HasFired(s) => active[s] # "absent"

(* A schedule is inactive from the minute in which it ended on, and what   *)
(* fires or is about to fire is for no later minute.                       *)
QuietInOrder ==
    /\ \A s \in Schedules :
          /\ ended[s] # 0 <=> active[s] = "inactive"
          /\ ended[s] <= now
          /\ \A n \in Firings(s) : n <= now /\ (ended[s] # 0 => n <= ended[s])
    /\ \A p \in Procs : \A s \in Ticking(p) : ended[s] # 0 => tick[p].minute <= ended[s]

CronInv == CronTypeOK /\ TicksAreReal /\ QuietInOrder /\ DeliveredByHolder

LEMMA OccurrencesAre ==
    /\ \A s \in Schedules, n \in 1..LastMinute : <<s, n>> \in Occurrences
    /\ \A j \in Occurrences : \E s \in Schedules, n \in 1..LastMinute : j = <<s, n>>
  BY DEF Occurrences

LEMMA StoreTypeStep ==
    ASSUME Store!JobTypeOK, [Store!JobNext]_(Store!jobVars)
    PROVE  Store!JobTypeOK'
<1> USE DEF Store!JobTypeOK, Store!JobStatuses, Store!Terminal
<1>1. CASE UNCHANGED Store!jobVars
  BY <1>1 DEF Store!jobVars
<1>2. ASSUME NEW j \in Occurrences, Store!JobStep(j) PROVE Store!JobTypeOK'
  BY <1>2 DEF Store!JobStep, Store!CreateJob, Store!ClaimJob, Store!EndJob, Store!FailJob,
              Store!CancelJob, Store!MarkNotified
<1>3. CASE Store!RecoverJobs
  BY <1>3 DEF Store!RecoverJobs
<1>4. QED
  BY <1>1, <1>2, <1>3 DEF Store!JobNext

(* Steps of the threads that touch neither the rows nor a tick.            *)
ThreadOnly(p) == SchedulerDies(p) \/ AutorunTurn(p) \/ AutorunReturns(p) \/ AutorunDies(p)

(* The scheduler changes the table by its methods only.                    *)
LEMMA CronStoreStep == CronTypeOK /\ TicksAreReal /\ [CronNext]_vars => [Store!JobNext]_(Store!jobVars)
<1> SUFFICES ASSUME CronTypeOK, TicksAreReal, [CronNext]_vars
             PROVE  [Store!JobNext]_(Store!jobVars)
  OBVIOUS
<1>1. ASSUME UNCHANGED jobVars PROVE [Store!JobNext]_(Store!jobVars)
  BY <1>1 DEF jobVars, Store!jobVars
<1>2. CASE UNCHANGED vars
  BY <1>1, <1>2 DEF vars
<1>3. CASE NextMinute
  BY <1>1, <1>3 DEF NextMinute
<1>4. ASSUME NEW p \in Procs, Boot(p) PROVE [Store!JobNext]_(Store!jobVars)
  BY <1>1, <1>4 DEF Boot, BootRecover, BootMigrate, BootReconcile, Store!JobNext
<1>5. ASSUME NEW p \in Procs, TickBegin(p) \/ Crash(p) \/ ThreadOnly(p)
      PROVE  [Store!JobNext]_(Store!jobVars)
  BY <1>1, <1>5 DEF TickBegin, Crash, ThreadOnly, SchedulerDies, AutorunTurn, AutorunReturns, AutorunDies
<1>6. ASSUME NEW p \in Procs, NEW s \in Schedules,
             \/ CreateSchedule(p, s) \/ CancelSchedule(p, s)
             \/ TickMark(p, s) \/ TickRaises(p, s)
      PROVE  [Store!JobNext]_(Store!jobVars)
  BY <1>1, <1>6 DEF CreateSchedule, CancelSchedule, TickMark, TickRaises
<1>7. ASSUME NEW p \in Procs, NEW s \in Schedules, TickEnqueue(p, s)
      PROVE  [Store!JobNext]_(Store!jobVars)
  <2>1. s \in Ticking(p)
    BY <1>7 DEF TickEnqueue, Ticking
  <2>2. <<s, tick[p].minute>> \in Occurrences
    BY <2>1, OccurrencesAre DEF TicksAreReal, CronTypeOK
  <2>3. Store!CreateJob(<<s, tick[p].minute>>) \/ UNCHANGED jobVars
    BY <1>7 DEF TickEnqueue
  <2>4. QED
    BY <1>1, <2>2, <2>3 DEF Store!JobNext, Store!JobStep
<1>8. ASSUME NEW p \in Procs, NEW d \in Deliverers, NEW j \in Occurrences,
             ClaimPrompt(p, d, j) \/ Deliver(p, d, j) \/ DeliverUnmarked(p, d, j)
      PROVE  [Store!JobNext]_(Store!jobVars)
  <2>1. CASE ClaimPrompt(p, d, j)
    BY <2>1 DEF ClaimPrompt, Store!JobNext, Store!JobStep
  <2>2. CASE Deliver(p, d, j)
    <3>1. CASE Store!EndJob(p, j, "succeeded")
      BY <3>1 DEF Store!JobNext, Store!JobStep
    <3>2. QED
      BY <1>1, <2>2, <3>1 DEF Deliver
  <2>3. CASE DeliverUnmarked(p, d, j)
    BY <1>1, <2>3 DEF DeliverUnmarked
  <2>4. QED
    BY <1>8, <2>1, <2>2, <2>3
<1>9. QED
  BY <1>2, <1>3, <1>4, <1>5, <1>6, <1>7, <1>8 DEF CronNext, ThreadOnly

-----------------------------------------------------------------------------
(* A schedule that is through leaves its tick, and the rest of it stays.   *)
Shrunk(p, s) ==
    /\ \A q \in Procs \ {p} : tick'[q] = tick[q]
    /\ tick'[p].due \subseteq tick[p].due \ {s}
    /\ tick'[p].queued = tick[p].queued \ {s}
    /\ tick'[p].due \cup tick'[p].queued # {} => tick'[p].minute = tick[p].minute

TickRecords == [minute : 0..LastMinute, due : SUBSET Schedules, queued : SUBSET Schedules]

LEMMA ThroughShrinks ==
    ASSUME tick \in [Procs -> TickRecords], NEW p \in Procs, NEW s \in Schedules,
           s \in Ticking(p), Through(p, s)
    PROVE  Shrunk(p, s) /\ tick' \in [Procs -> TickRecords]
<1>0. /\ tick[p] \in TickRecords
      /\ tick[p].minute \in 0..LastMinute /\ tick[p].due \in SUBSET Schedules
      /\ tick[p].queued \in SUBSET Schedules
  BY DEF TickRecords
<1>1. CASE Ticking(p) = {s}
  <2>1. tick' = [tick EXCEPT ![p] = NoTick]
    BY <1>1 DEF Through, Ticking
  <2>2. /\ tick'[p] = NoTick /\ \A q \in Procs \ {p} : tick'[q] = tick[q]
        /\ tick' \in [Procs -> TickRecords]
    BY <2>1, CronAssumption DEF TickRecords, NoTick
  <2>3. tick'[p].due = {} /\ tick'[p].queued = {}
    BY <2>2 DEF NoTick
  <2>4. tick[p].queued \ {s} = {}
    BY <1>1 DEF Ticking
  <2>5. QED
    BY <2>2, <2>3, <2>4 DEF Shrunk
<1>2. CASE Ticking(p) # {s}
  <2> DEFINE rest == [minute |-> tick[p].minute, due |-> tick[p].due \ {s},
                      queued |-> tick[p].queued \ {s}]
  <2>2. tick' = [tick EXCEPT ![p] = rest]
    BY <1>2 DEF Through, Ticking
  <2>3. rest \in TickRecords
    BY <1>0 DEF TickRecords
  <2>4. tick'[p] = rest /\ tick' \in [Procs -> TickRecords]
        /\ \A q \in Procs \ {p} : tick'[q] = tick[q]
    BY <2>2, <2>3
  <2>5. QED
    BY <2>4 DEF Shrunk
<1>3. QED
  BY <1>1, <1>2

LEMMA CronTypeInit == CronInit => CronTypeOK
<1> SUFFICES ASSUME CronInit PROVE CronTypeOK
  OBVIOUS
<1>1. Store!JobTypeOK
  BY DEF CronInit, Store!JobInit, Store!JobTypeOK, Store!JobStatuses
<1>2. now \in 1..LastMinute /\ crashes \in 0..MaxCrashes /\ faults \in 0..MaxFaults
  BY CronAssumption DEF CronInit
<1>3. NoTick \in TickRecords
  BY CronAssumption DEF NoTick, TickRecords
<1>4. fired \in [Schedules -> 0..LastMinute] /\ ended \in [Schedules -> 0..LastMinute]
  BY CronAssumption DEF CronInit
<1>5. NothingHeld \in [Deliverers -> SUBSET Occurrences]
  BY DEF NothingHeld
<1>6. QED
  BY <1>1, <1>2, <1>3, <1>4, <1>5 DEF CronInit, CronTypeOK, TickRecords

LEMMA DeactivateTypes ==
    ASSUME CronTypeOK, NEW S, Deactivate(S)
    PROVE  /\ active' \in [Schedules -> {"absent", "active", "inactive"}]
           /\ ended' \in [Schedules -> 0..LastMinute]
  BY DEF CronTypeOK, Deactivate

LEMMA CronTypeStep == CronTypeOK /\ TicksAreReal /\ [CronNext]_vars => CronTypeOK'
<1> SUFFICES ASSUME CronTypeOK, TicksAreReal, [CronNext]_vars PROVE CronTypeOK'
  OBVIOUS
<1>0. Store!JobTypeOK'
  BY CronStoreStep, StoreTypeStep DEF CronTypeOK
<1> USE CronAssumption DEF CronTypeOK
<1>1. CASE UNCHANGED vars
  BY <1>0, <1>1 DEF vars, scheduleVars, deliveryVars, threadVars, countVars
<1>2. CASE NextMinute
  BY <1>0, <1>2 DEF NextMinute, scheduleVars, deliveryVars, threadVars, countVars
<1>3. ASSUME NEW p \in Procs, BootRecover(p) PROVE CronTypeOK'
  BY <1>0, <1>3 DEF BootRecover, GoTo, scheduleVars, deliveryVars, threadVars, countVars
<1>4. ASSUME NEW p \in Procs, BootMigrate(p) PROVE CronTypeOK'
  BY <1>0, <1>4 DEF BootMigrate, GoTo, deliveryVars, threadVars, countVars
<1>5. ASSUME NEW p \in Procs, BootReconcile(p) PROVE CronTypeOK'
  BY <1>0, <1>5, DeactivateTypes DEF BootReconcile, StartThreads, GoTo, deliveryVars, countVars
<1>6. ASSUME NEW p \in Procs, NEW s \in Schedules, CreateSchedule(p, s) PROVE CronTypeOK'
  BY <1>0, <1>6 DEF CreateSchedule, deliveryVars, threadVars, countVars
<1>7. ASSUME NEW p \in Procs, NEW s \in Schedules, CancelSchedule(p, s) PROVE CronTypeOK'
  BY <1>0, <1>7, DeactivateTypes DEF CancelSchedule, deliveryVars, threadVars, countVars
<1>8. ASSUME NEW p \in Procs, TickBegin(p) PROVE CronTypeOK'
  BY <1>0, <1>8 DEF TickBegin, Visible, scheduleVars, deliveryVars, threadVars, countVars
<1>9. ASSUME NEW p \in Procs, NEW s \in Schedules, TickEnqueue(p, s) PROVE CronTypeOK'
  <2>1. tick' \in [Procs -> TickRecords]
    BY <1>9 DEF TickEnqueue, TickRecords
  <2>2. QED
    BY <1>0, <1>9, <2>1 DEF TickEnqueue, TickRecords, scheduleVars, deliveryVars, threadVars, countVars
<1>10. ASSUME NEW p \in Procs, NEW s \in Schedules, TickMark(p, s) PROVE CronTypeOK'
  <2>1. tick' \in [Procs -> TickRecords]
    BY <1>10, ThroughShrinks DEF TickMark, Ticking, TickRecords
  <2>2. /\ fired' \in [Schedules -> 0..LastMinute]
        /\ active' \in [Schedules -> {"absent", "active", "inactive"}]
        /\ ended' \in [Schedules -> 0..LastMinute]
    BY <1>10, DeactivateTypes DEF TickMark
  <2>3. QED
    BY <1>0, <1>10, <2>1, <2>2 DEF TickMark, TickRecords, deliveryVars, threadVars, countVars
<1>11. ASSUME NEW p \in Procs, NEW s \in Schedules, TickRaises(p, s) PROVE CronTypeOK'
  <2>1. tick' \in [Procs -> TickRecords]
    BY <1>11, ThroughShrinks DEF TickRaises, Ticking, TickRecords
  <2>2. faults' \in 0..MaxFaults
    BY <1>11 DEF TickRaises
  <2>3. QED
    BY <1>0, <1>11, <2>1, <2>2 DEF TickRaises, TickRecords, scheduleVars, deliveryVars, threadVars
<1>12. ASSUME NEW p \in Procs, NEW d \in Deliverers, NEW j \in Occurrences, ClaimPrompt(p, d, j)
       PROVE  CronTypeOK'
  <2>1. held' \in [Procs -> [Deliverers -> SUBSET Occurrences]]
    BY <1>12 DEF ClaimPrompt
  <2>2. QED
    BY <1>0, <1>12, <2>1 DEF ClaimPrompt, scheduleVars, threadVars, countVars
<1>13. ASSUME NEW p \in Procs, NEW d \in Deliverers, NEW j \in Occurrences, Append(p, d, j)
       PROVE  /\ held' \in [Procs -> [Deliverers -> SUBSET Occurrences]]
              /\ delivered' \in SUBSET (Procs \X Occurrences)
  BY <1>13 DEF Append
<1>14. ASSUME NEW p \in Procs, NEW d \in Deliverers, NEW j \in Occurrences,
              Deliver(p, d, j) \/ DeliverUnmarked(p, d, j)
       PROVE  CronTypeOK'
  <2>1. faults' \in 0..MaxFaults
    BY <1>14 DEF Deliver, DeliverUnmarked, countVars
  <2>2. lost' \in SUBSET Occurrences
    BY <1>14 DEF Deliver, DeliverUnmarked
  <2>3. QED
    BY <1>0, <1>13, <1>14, <2>1, <2>2 DEF Deliver, DeliverUnmarked, scheduleVars, threadVars, countVars
<1>15. ASSUME NEW p \in Procs, Crash(p) PROVE CronTypeOK'
  <2>1. crashes' \in 0..MaxCrashes
    BY <1>15 DEF Crash
  <2>2. NoTick \in TickRecords
    BY DEF NoTick, TickRecords
  <2>3. tick' \in [Procs -> TickRecords]
    BY <1>15, <2>2 DEF Crash, TickRecords
  <2>4. held' \in [Procs -> [Deliverers -> SUBSET Occurrences]]
    BY <1>15 DEF Crash, NothingHeld
  <2>5. QED
    BY <1>0, <1>15, <2>1, <2>3, <2>4 DEF Crash, GoTo, TickRecords
<1>16. ASSUME NEW p \in Procs, ThreadOnly(p) PROVE CronTypeOK'
  <2>1. faults' \in 0..MaxFaults /\ crashes' \in 0..MaxCrashes
    BY <1>16 DEF ThreadOnly, SchedulerDies, AutorunTurn, AutorunReturns, AutorunDies, countVars
  <2>2. /\ scheduler' \in [Procs -> BOOLEAN]
        /\ autorun' \in [Procs -> {"free", "busy", "dead"}]
    BY <1>16 DEF ThreadOnly, SchedulerDies, AutorunTurn, AutorunReturns, AutorunDies
  <2>3. /\ held' \in [Procs -> [Deliverers -> SUBSET Occurrences]]
        /\ lost' \in SUBSET Occurrences /\ delivered' = delivered
    <3>1. CASE AutorunDies(p)
      <4>1. held[p]["autorun"] \in SUBSET Occurrences
        BY DEF Deliverers
      <4>2. QED
        BY <3>1, <4>1 DEF AutorunDies
    <3>2. CASE UNCHANGED deliveryVars
      BY <3>2 DEF deliveryVars
    <3>3. QED
      BY <1>16, <3>1, <3>2 DEF ThreadOnly, SchedulerDies, AutorunTurn, AutorunReturns
  <2>4. UNCHANGED <<now, scheduleVars, phase, tick>>
    BY <1>16 DEF ThreadOnly, SchedulerDies, AutorunTurn, AutorunReturns, AutorunDies
  <2>5. QED
    BY <1>0, <2>1, <2>2, <2>3, <2>4 DEF scheduleVars
<1>17. QED
  BY <1>1, <1>2, <1>3, <1>4, <1>5, <1>6, <1>7, <1>8, <1>9, <1>10, <1>11, <1>12, <1>14, <1>15, <1>16
     DEF CronNext, Boot, ThreadOnly

-----------------------------------------------------------------------------
(* Steps that enqueue no occurrence.                                       *)
NoNewFirings ==
    \A s \in Schedules : \A n \in 1..LastMinute :
        jobStatus'[<<s, n>>] # "absent" => jobStatus[<<s, n>>] # "absent"

(* Steps that put nothing into a tick.                                     *)
NoNewTicks ==
    \A p \in Procs : \A s \in tick'[p].due \cup tick'[p].queued :
        s \in Ticking(p) /\ tick'[p].minute = tick[p].minute

(* A schedule stays, is created, or ends (again).                          *)
Moved(s) ==
    \/ active'[s] = active[s] /\ ended'[s] = ended[s]
    \/ active[s] = "absent" /\ active'[s] = "active" /\ ended'[s] = ended[s]
    \/ /\ active[s] # "absent" /\ active'[s] = "inactive"
       /\ ended'[s] = IF ended[s] = 0 THEN now ELSE ended[s]

LEMMA OldFirings ==
    ASSUME CronTypeOK, Store!RecoverJobs \/ UNCHANGED jobVars
                    \/ \E p \in Procs, j \in Occurrences :
                          Store!ClaimJob(p, j) \/ Store!EndJob(p, j, "succeeded")
    PROVE  NoNewFirings
<1> USE OccurrencesAre DEF CronTypeOK, Store!JobTypeOK, NoNewFirings
<1>1. CASE UNCHANGED jobVars
  BY <1>1 DEF jobVars
<1>2. CASE Store!RecoverJobs
  BY <1>2 DEF Store!RecoverJobs
<1>3. ASSUME NEW p \in Procs, NEW j \in Occurrences,
             Store!ClaimJob(p, j) \/ Store!EndJob(p, j, "succeeded")
      PROVE  NoNewFirings
  BY <1>3 DEF Store!ClaimJob, Store!EndJob, Store!RunningFor
<1>4. QED
  BY <1>1, <1>2, <1>3

LEMMA EndingMoves ==
    ASSUME CronTypeOK, NEW S, \A s \in S : active[s] # "absent", Deactivate(S)
    PROVE  \A s \in Schedules : Moved(s)
  BY DEF CronTypeOK, Deactivate, Moved

(* The invariants survive whatever enqueues nothing and begins no tick:    *)
(* a schedule that ends now ends at or after all its firings and ticks.    *)
LEMMA QuietStays ==
    ASSUME CronTypeOK, TicksAreReal, QuietInOrder, NoNewFirings, NoNewTicks,
           \A s \in Schedules : Moved(s), now' \in Nat, now <= now'
    PROVE  TicksAreReal' /\ QuietInOrder'
<1> USE DEF CronTypeOK
<1>1. \A p \in Procs : \A s \in (Ticking(p))' : s \in Ticking(p) /\ tick'[p].minute = tick[p].minute
  BY DEF NoNewTicks, Ticking
<1>2. \A s \in Schedules : \A n \in (Firings(s))' : n \in Firings(s)
  BY DEF NoNewFirings, Firings
<1>3. \A s \in Schedules : (HasFired(s))' => HasFired(s)
  BY DEF NoNewFirings, HasFired
<1>4. \A p \in Procs : Ticking(p) \subseteq Schedules
  BY DEF Ticking
<1>5. \A s \in Schedules : active[s] # "absent" => active'[s] # "absent"
  BY DEF Moved
<1>6. TicksAreReal'
  BY <1>1, <1>3, <1>4, <1>5 DEF TicksAreReal
<1>7. \A s \in Schedules : /\ ended'[s] # 0 <=> active'[s] = "inactive"
                           /\ ended'[s] <= now'
                           /\ ended'[s] = ended[s] \/ (ended[s] = 0 /\ ended'[s] = now)
  BY DEF Moved, QuietInOrder
<1>8. \A s \in Schedules : \A n \in (Firings(s))' : n <= now' /\ (ended'[s] # 0 => n <= ended'[s])
  BY <1>2, <1>7 DEF QuietInOrder, Firings
<1>9. \A p \in Procs : \A s \in (Ticking(p))' : ended'[s] # 0 => tick'[p].minute <= ended'[s]
  BY <1>1, <1>4, <1>7 DEF QuietInOrder, TicksAreReal
<1>10. QED
  BY <1>6, <1>7, <1>8, <1>9 DEF QuietInOrder

LEMMA QuietBegins ==
    ASSUME CronTypeOK, TicksAreReal, QuietInOrder, NEW p \in Procs, TickBegin(p)
    PROVE  TicksAreReal' /\ QuietInOrder'
<1> USE DEF CronTypeOK
<1>1. PICK Due \in SUBSET Schedules :
         /\ \A s \in Due : active[s] = "active"
         /\ tick' = [tick EXCEPT ![p] = [minute |-> now, due |-> Due, queued |-> {}]]
  BY DEF TickBegin, Visible
<1>2. /\ tick'[p].minute = now /\ (Ticking(p))' = Due
      /\ \A q \in Procs \ {p} : tick'[q] = tick[q]
  BY <1>1 DEF Ticking
<1>3. \A q \in Procs \ {p} : (Ticking(q))' = Ticking(q)
  BY <1>2 DEF Ticking
<1>4. UNCHANGED <<jobVars, now, active, ended>>
  BY DEF TickBegin, scheduleVars
<1>5. \A s \in Schedules : (HasFired(s))' = HasFired(s) /\ (Firings(s))' = Firings(s)
  BY <1>4 DEF HasFired, Firings, jobVars
<1>6. TicksAreReal'
  BY <1>1, <1>2, <1>3, <1>4, <1>5 DEF TicksAreReal
<1>7. \A s \in Due : ended[s] = 0
  BY <1>1 DEF QuietInOrder
<1>8. QuietInOrder'
  BY <1>1, <1>2, <1>3, <1>4, <1>5, <1>7 DEF QuietInOrder
<1>9. QED
  BY <1>6, <1>8

(* The firing is for the tick's minute, which is not after the end.        *)
LEMMA QuietEnqueues ==
    ASSUME CronTypeOK, TicksAreReal, QuietInOrder, NEW p \in Procs, NEW s \in Schedules,
           TickEnqueue(p, s)
    PROVE  TicksAreReal' /\ QuietInOrder'
<1> USE DEF CronTypeOK
<1>0. s \in Ticking(p) /\ UNCHANGED <<now, active, ended>>
  BY DEF TickEnqueue, Ticking, scheduleVars
<1>1. /\ tick'[p].minute = tick[p].minute /\ (Ticking(p))' \subseteq Ticking(p)
      /\ \A q \in Procs \ {p} : tick'[q] = tick[q]
  BY <1>0 DEF TickEnqueue, Ticking
<1>2. \A q \in Procs : (Ticking(q))' \subseteq Ticking(q) /\ tick'[q].minute = tick[q].minute
  BY <1>1 DEF Ticking
<1>3. tick[p].minute \in 1..now /\ (ended[s] # 0 => tick[p].minute <= ended[s])
  BY <1>0 DEF TicksAreReal, QuietInOrder
<1>4. \A x \in Schedules, n \in 1..LastMinute :
         jobStatus'[<<x, n>>] # "absent" =>
            jobStatus[<<x, n>>] # "absent" \/ (x = s /\ n = tick[p].minute)
  BY OccurrencesAre DEF TickEnqueue, Store!CreateJob, Store!JobTypeOK, jobVars
<1>5. \A x \in Schedules : \A n \in (Firings(x))' :
         n \in Firings(x) \/ (x = s /\ n = tick[p].minute)
  BY <1>4 DEF Firings
<1>6. \A x \in Schedules : (HasFired(x))' => HasFired(x) \/ x = s
  BY <1>4 DEF HasFired
<1>7. TicksAreReal'
  BY <1>0, <1>2, <1>6 DEF TicksAreReal
<1>8. QuietInOrder'
  BY <1>0, <1>2, <1>3, <1>5 DEF QuietInOrder
<1>9. QED
  BY <1>7, <1>8

LEMMA QuietStep ==
    CronTypeOK /\ TicksAreReal /\ QuietInOrder /\ [CronNext]_vars => TicksAreReal' /\ QuietInOrder'
<1> SUFFICES ASSUME CronTypeOK, TicksAreReal, QuietInOrder, [CronNext]_vars
             PROVE  TicksAreReal' /\ QuietInOrder'
  OBVIOUS
<1> DEFINE Goal == TicksAreReal' /\ QuietInOrder'
<1> USE DEF CronTypeOK
<1>0. now \in Nat
  BY CronAssumption
<1>1. ASSUME UNCHANGED tick PROVE NoNewTicks
  BY <1>1 DEF NoNewTicks, Ticking
<1>2. ASSUME UNCHANGED <<active, ended>> PROVE \A s \in Schedules : Moved(s)
  BY <1>2 DEF Moved
<1>3. ASSUME UNCHANGED jobVars PROVE NoNewFirings
  BY <1>3, OldFirings
<1> HIDE DEF CronTypeOK
<1>4. CASE UNCHANGED vars
  BY <1>0, <1>1, <1>2, <1>3, <1>4, QuietStays DEF vars, scheduleVars
<1>5. CASE NextMinute
  <2>1. now' \in Nat /\ now <= now'
    BY <1>0, <1>5 DEF NextMinute
  <2>2. QED
    BY <1>1, <1>2, <1>3, <1>5, <2>1, QuietStays DEF NextMinute, scheduleVars
<1>6. ASSUME NEW p \in Procs, Boot(p) PROVE Goal
  <2>1. CASE BootRecover(p)
    <3>1. NoNewFirings
      BY <2>1, OldFirings DEF BootRecover
    <3>2. QED
      BY <1>0, <1>1, <1>2, <2>1, <3>1, QuietStays DEF BootRecover, scheduleVars
  <2>2. CASE BootMigrate(p)
    <3>1. \A s \in Schedules : Moved(s)
      BY <2>2 DEF BootMigrate, Moved, CronTypeOK
    <3>2. QED
      BY <1>0, <1>1, <1>3, <2>2, <3>1, QuietStays DEF BootMigrate
  <2>3. CASE BootReconcile(p)
    <3>1. \A s \in Schedules : Moved(s)
      BY <2>3, EndingMoves DEF BootReconcile, Visible
    <3>2. QED
      BY <1>0, <1>1, <1>3, <2>3, <3>1, QuietStays DEF BootReconcile
  <2>4. QED
    BY <1>6, <2>1, <2>2, <2>3 DEF Boot
<1>7. ASSUME NEW p \in Procs, NEW s \in Schedules, CreateSchedule(p, s) PROVE Goal
  <2>1. \A x \in Schedules : Moved(x)
    BY <1>7 DEF CreateSchedule, Moved, CronTypeOK
  <2>2. QED
    BY <1>0, <1>1, <1>3, <1>7, <2>1, QuietStays DEF CreateSchedule
<1>8. ASSUME NEW p \in Procs, NEW s \in Schedules, CancelSchedule(p, s) PROVE Goal
  <2>1. \A x \in Schedules : Moved(x)
    BY <1>8, EndingMoves DEF CancelSchedule, Visible
  <2>2. QED
    BY <1>0, <1>1, <1>3, <1>8, <2>1, QuietStays DEF CancelSchedule
<1>9. ASSUME NEW p \in Procs, NEW s \in Schedules, s \in Ticking(p), Through(p, s) PROVE NoNewTicks
  <2>1. Shrunk(p, s)
    BY <1>9, ThroughShrinks DEF CronTypeOK, TickRecords
  <2>2. QED
    BY <2>1 DEF Shrunk, NoNewTicks, Ticking
<1>10. ASSUME NEW p \in Procs, NEW s \in Schedules, TickMark(p, s) PROVE Goal
  <2>1. NoNewTicks
    BY <1>9, <1>10 DEF TickMark, Ticking
  <2>2. \A x \in Schedules : Moved(x)
    BY <1>2, <1>10, EndingMoves DEF TickMark
  <2>3. QED
    BY <1>0, <1>3, <1>10, <2>1, <2>2, QuietStays DEF TickMark
<1>11. ASSUME NEW p \in Procs, NEW s \in Schedules, TickRaises(p, s) PROVE Goal
  <2>1. NoNewTicks
    BY <1>9, <1>11 DEF TickRaises, Ticking
  <2>2. QED
    BY <1>0, <1>2, <1>3, <1>11, <2>1, QuietStays DEF TickRaises, scheduleVars
<1>12. ASSUME NEW p \in Procs, NEW d \in Deliverers, NEW j \in Occurrences,
              ClaimPrompt(p, d, j) \/ Deliver(p, d, j) \/ DeliverUnmarked(p, d, j)
       PROVE  Goal
  <2>1. NoNewFirings
    BY <1>3, <1>12, OldFirings DEF ClaimPrompt, Deliver, DeliverUnmarked
  <2>2. QED
    BY <1>0, <1>1, <1>2, <1>12, <2>1, QuietStays
       DEF ClaimPrompt, Deliver, DeliverUnmarked, scheduleVars
<1>13. ASSUME NEW p \in Procs, Crash(p) PROVE Goal
  <2>1. NoNewTicks
    BY <1>13 DEF Crash, NoNewTicks, Ticking, NoTick, CronTypeOK
  <2>2. QED
    BY <1>0, <1>2, <1>3, <1>13, <2>1, QuietStays DEF Crash
<1>14. ASSUME NEW p \in Procs, ThreadOnly(p) PROVE Goal
  <2>1. UNCHANGED <<jobVars, now, scheduleVars, tick>>
    BY <1>14 DEF ThreadOnly, SchedulerDies, AutorunTurn, AutorunReturns, AutorunDies
  <2>2. QED
    BY <1>0, <1>1, <1>2, <1>3, <2>1, QuietStays DEF scheduleVars
<1>15. QED
  BY <1>4, <1>5, <1>6, <1>7, <1>8, <1>10, <1>11, <1>12, <1>13, <1>14, QuietBegins, QuietEnqueues
     DEF CronNext, ThreadOnly

-----------------------------------------------------------------------------
LEMMA DeliveredStep == CronTypeOK /\ DeliveredByHolder /\ [CronNext]_vars => DeliveredByHolder'
<1> SUFFICES ASSUME CronTypeOK, DeliveredByHolder, [CronNext]_vars,
                    NEW j \in Occurrences, jobStatus'[j] = "succeeded"
             PROVE  <<runner'[j], j>> \in delivered'
  BY DEF DeliveredByHolder
<1> USE DEF CronTypeOK, Store!JobTypeOK, DeliveredByHolder
<1>1. ASSUME UNCHANGED jobVars, delivered \subseteq delivered'
      PROVE  <<runner'[j], j>> \in delivered'
  BY <1>1 DEF jobVars
<1>2. CASE UNCHANGED vars
  BY <1>1, <1>2 DEF vars, deliveryVars
<1>3. CASE NextMinute
  BY <1>1, <1>3 DEF NextMinute, deliveryVars
<1>4. ASSUME NEW p \in Procs, Boot(p) PROVE <<runner'[j], j>> \in delivered'
  BY <1>1, <1>4 DEF Boot, BootRecover, Store!RecoverJobs, BootMigrate, BootReconcile, deliveryVars
<1>5. ASSUME NEW p \in Procs, TickBegin(p) \/ Crash(p) \/ ThreadOnly(p)
      PROVE  <<runner'[j], j>> \in delivered'
  BY <1>1, <1>5 DEF TickBegin, Crash, ThreadOnly, SchedulerDies, AutorunTurn, AutorunReturns,
                    AutorunDies, deliveryVars
<1>6. ASSUME NEW p \in Procs, NEW s \in Schedules,
             \/ CreateSchedule(p, s) \/ CancelSchedule(p, s)
             \/ TickMark(p, s) \/ TickRaises(p, s)
      PROVE  <<runner'[j], j>> \in delivered'
  BY <1>1, <1>6 DEF CreateSchedule, CancelSchedule, TickMark, TickRaises, deliveryVars
<1>7. ASSUME NEW p \in Procs, NEW s \in Schedules, TickEnqueue(p, s)
      PROVE  <<runner'[j], j>> \in delivered'
  BY <1>1, <1>7 DEF TickEnqueue, Store!CreateJob, deliveryVars
<1>8. ASSUME NEW p \in Procs, NEW d \in Deliverers, NEW i \in Occurrences,
             ClaimPrompt(p, d, i) \/ DeliverUnmarked(p, d, i)
      PROVE  <<runner'[j], j>> \in delivered'
  BY <1>1, <1>8 DEF ClaimPrompt, DeliverUnmarked, Append, Store!ClaimJob
<1>9. ASSUME NEW p \in Procs, NEW d \in Deliverers, NEW i \in Occurrences, Deliver(p, d, i)
      PROVE  <<runner'[j], j>> \in delivered'
  <2>1. delivered' = delivered \cup {<<p, i>>}
    BY <1>9 DEF Deliver, Append
  <2>2. CASE UNCHANGED jobVars
    BY <1>1, <2>1, <2>2
  <2>3. CASE Store!EndJob(p, i, "succeeded")
    BY <2>1, <2>3 DEF Store!EndJob, Store!RunningFor
  <2>4. QED
    BY <1>9, <2>2, <2>3 DEF Deliver
<1>10. QED
  BY <1>2, <1>3, <1>4, <1>5, <1>6, <1>7, <1>8, <1>9 DEF CronNext, ThreadOnly

LEMMA CronInvInit == CronInit => CronInv
<1> SUFFICES ASSUME CronInit PROVE CronInv
  OBVIOUS
<1>1. CronTypeOK
  BY CronTypeInit
<1>2. /\ \A p \in Procs : Ticking(p) = {}
      /\ \A j \in Occurrences : jobStatus[j] = "absent"
  BY DEF CronInit, Ticking, NoTick, Store!JobInit
<1>3. \A s \in Schedules : ~HasFired(s) /\ Firings(s) = {}
  BY <1>2, OccurrencesAre DEF HasFired, Firings
<1>4. TicksAreReal
  BY <1>2, <1>3 DEF TicksAreReal
<1>5. QuietInOrder
  BY <1>2, <1>3 DEF CronInit, QuietInOrder
<1>6. DeliveredByHolder
  BY <1>2 DEF DeliveredByHolder
<1>7. QED
  BY <1>1, <1>4, <1>5, <1>6 DEF CronInv

LEMMA CronInvStep == CronInv /\ [CronNext]_vars => CronInv'
  BY CronTypeStep, QuietStep, DeliveredStep DEF CronInv

THEOREM CronInvariant == CronSpec => []CronInv
<1>1. QED
  BY CronInvInit, CronInvStep, PTL DEF CronSpec

(* A schedule that ended is not revived, and fires for no later minute,    *)
(* with any number of processes, restarts and late ticks.                  *)
THEOREM EndedSchedulesStayQuiet == CronSpec => []EndedStaysQuiet
<1>1. CronInv => EndedStaysQuiet
  BY DEF CronInv, QuietInOrder, EndedStaysQuiet
<1>2. QED
  BY <1>1, CronInvariant, PTL

(* A firing is recorded as delivered only by the process that delivered it.*)
THEOREM DeliveriesAreReal == CronSpec => []DeliveredByHolder
<1>1. CronInv => DeliveredByHolder
  BY DEF CronInv
<1>2. QED
  BY <1>1, CronInvariant, PTL

-----------------------------------------------------------------------------
(* The scheduler calls the jobs table by its methods, so what holds of the *)
(* table whatever its callers do holds of firings.                         *)
THEOREM CronUsesTheTable == CronSpec => Store!JobSpec
<1>1. CronInit => Store!JobInit
  BY DEF CronInit
<1>2. CronInv /\ [CronNext]_vars => [Store!JobNext]_(Store!jobVars)
  BY CronStoreStep DEF CronInv
<1>3. QED
  BY <1>1, <1>2, CronInvariant, PTL DEF CronSpec, Store!JobSpec

-----------------------------------------------------------------------------
(* One process of the program runs on the store.                           *)
OneProcess == \A p, q \in Procs : p = q

(* Until a store call of a tick has raised: a one-shot that is due has not *)
(* fired, and one that has fired and is still active is being marked, or   *)
(* startup is not yet through.                                             *)
OneShotsInOrder ==
    faults = 0 => \A p \in Procs, s \in Schedules \ Recurring :
        /\ s \in tick[p].due => ~HasFired(s)
        /\ HasFired(s) /\ Up(p) /\ s \in Visible(p) => s \in tick[p].queued

OneShotInv == CronInv /\ OneShotsInOrder /\ OneShotFiresOnce

(* Steps that fire nothing, make nothing due, and bring no fired one-shot  *)
(* before a process that is up or out of the hands of its tick.            *)
LEMMA OneShotsStay ==
    ASSUME OneShotInv, NoNewFirings, faults' = 0 => faults = 0,
           \A p \in Procs : tick'[p].due \subseteq tick[p].due,
           \A p \in Procs, s \in Schedules \ Recurring :
              HasFired(s) /\ phase'[p] = "up" /\ active'[s] = "active"
                 /\ (s \in Durable \/ session'[s] = p)
              => Up(p) /\ s \in Visible(p) /\ (s \in tick[p].queued => s \in tick'[p].queued)
    PROVE  OneShotsInOrder' /\ OneShotFiresOnce'
<1>1. \A s \in Schedules : (HasFired(s))' => HasFired(s)
  BY DEF NoNewFirings, HasFired
<1>2. \A s \in Schedules : (Firings(s))' \subseteq Firings(s)
  BY DEF NoNewFirings, Firings
<1>3. OneShotFiresOnce'
  BY <1>2 DEF OneShotInv, OneShotFiresOnce
<1>4. ASSUME NEW p \in Procs, NEW s \in Schedules \ Recurring, faults' = 0
      PROVE  /\ s \in tick'[p].due => ~(HasFired(s))'
             /\ (HasFired(s))' /\ (Up(p))' /\ s \in (Visible(p))' => s \in tick'[p].queued
  <2>1. s \in tick'[p].due => ~(HasFired(s))'
    BY <1>1, <1>4 DEF OneShotInv, OneShotsInOrder
  <2>2. ASSUME (HasFired(s))', (Up(p))', s \in (Visible(p))' PROVE s \in tick'[p].queued
    <3>1. Up(p) /\ s \in Visible(p) /\ (s \in tick[p].queued => s \in tick'[p].queued)
      BY <1>1, <2>2 DEF Up, Visible
    <3>2. QED
      BY <1>1, <1>4, <2>2, <3>1 DEF OneShotInv, OneShotsInOrder
  <2>3. QED
    BY <2>1, <2>2
<1>5. QED
  BY <1>3, <1>4 DEF OneShotsInOrder

LEMMA OneShotsDue ==
    ASSUME OneShotInv, NEW p \in Procs, TickBegin(p)
    PROVE  OneShotsInOrder' /\ OneShotFiresOnce'
<1> USE DEF OneShotInv
<1>1. PICK Due \in SUBSET Visible(p) :
         tick' = [tick EXCEPT ![p] = [minute |-> now, due |-> Due, queued |-> {}]]
  BY DEF TickBegin
<1>2. /\ Up(p) /\ tick[p].queued = {}
      /\ UNCHANGED <<jobStatus, faults, phase, active, session>>
  BY DEF TickBegin, NoTick, jobVars, scheduleVars, countVars
<1>3. /\ tick'[p].due = Due /\ tick'[p].queued = {}
      /\ \A q \in Procs \ {p} : tick'[q] = tick[q]
  BY <1>1 DEF CronInv, CronTypeOK
<1>4. /\ \A s \in Schedules : (HasFired(s))' = HasFired(s) /\ (Firings(s))' = Firings(s)
      /\ \A q \in Procs : (Up(q))' = Up(q) /\ (Visible(q))' = Visible(q)
  BY <1>2 DEF HasFired, Firings, Up, Visible
<1>5. OneShotFiresOnce'
  BY <1>2, <1>4 DEF OneShotFiresOnce
<1>6. ASSUME faults = 0 PROVE \A s \in Schedules \ Recurring : s \in Visible(p) => ~HasFired(s)
  BY <1>2, <1>6 DEF OneShotsInOrder
<1>7. OneShotsInOrder'
  BY <1>2, <1>3, <1>4, <1>6 DEF OneShotsInOrder
<1>8. QED
  BY <1>5, <1>7

LEMMA OneShotsFire ==
    ASSUME OneProcess, OneShotInv, NEW p \in Procs, NEW s \in Schedules, TickEnqueue(p, s)
    PROVE  OneShotsInOrder' /\ OneShotFiresOnce'
<1> USE DEF OneShotInv
<1>1. /\ s \in tick[p].due /\ tick[p].queued = {}
      /\ UNCHANGED <<faults, phase, active, session>>
  BY DEF TickEnqueue, scheduleVars, countVars
<1>2. tick'[p].due = tick[p].due \ {s} /\ tick'[p].queued = {s}
  BY DEF TickEnqueue, CronInv, CronTypeOK
<1>3. \A x \in Schedules, n \in 1..LastMinute :
         jobStatus'[<<x, n>>] # "absent" =>
            jobStatus[<<x, n>>] # "absent" \/ (x = s /\ n = tick[p].minute)
  BY OccurrencesAre DEF TickEnqueue, CronInv, CronTypeOK, Store!CreateJob, Store!JobTypeOK, jobVars
<1>4. \A x \in Schedules : (HasFired(x))' => HasFired(x) \/ x = s
  BY <1>3 DEF HasFired
<1>5. \A x \in Schedules : \A n \in (Firings(x))' :
         n \in Firings(x) \/ (x = s /\ n = tick[p].minute)
  BY <1>3 DEF Firings
<1>6. \A q \in Procs : q = p
  BY DEF OneProcess
<1>7. (Up(p))' = Up(p) /\ (Visible(p))' = Visible(p)
  BY <1>1 DEF Up, Visible
<1>8. ASSUME faults = 0, s \notin Recurring PROVE Firings(s) = {}
  BY <1>1, <1>8 DEF OneShotsInOrder, HasFired, Firings
<1>9. OneShotFiresOnce'
  BY <1>1, <1>5, <1>8 DEF OneShotFiresOnce
<1>10. OneShotsInOrder'
  BY <1>1, <1>2, <1>4, <1>6, <1>7 DEF OneShotsInOrder
<1>11. QED
  BY <1>9, <1>10

LEMMA OneShotsStep == OneProcess /\ OneShotInv /\ [CronNext]_vars => OneShotInv'
<1> SUFFICES ASSUME OneProcess, OneShotInv, [CronNext]_vars
             PROVE  OneShotsInOrder' /\ OneShotFiresOnce'
  BY CronInvStep DEF OneShotInv
<1> DEFINE Goal == OneShotsInOrder' /\ OneShotFiresOnce'
<1>0. CronTypeOK /\ TicksAreReal
  BY DEF OneShotInv, CronInv
<1>1. ASSUME UNCHANGED jobVars PROVE NoNewFirings
  BY <1>0, <1>1, OldFirings
<1>2. ASSUME NoNewFirings, UNCHANGED <<faults, phase, active, session, tick>> PROVE Goal
  BY <1>2, OneShotsStay DEF Up, Visible
<1>3. CASE UNCHANGED vars
  BY <1>1, <1>2, <1>3 DEF vars, scheduleVars, countVars
<1>4. CASE NextMinute
  BY <1>1, <1>2, <1>4 DEF NextMinute, scheduleVars, countVars
<1>5. ASSUME NEW p \in Procs, BootRecover(p) \/ BootMigrate(p) \/ Crash(p) PROVE Goal
  <2>1. NoNewFirings
    BY <1>0, <1>1, <1>5, OldFirings DEF BootRecover, BootMigrate, Crash
  <2>2. \A q \in Procs : phase'[q] # "up"
    BY <1>0, <1>5 DEF OneProcess, BootRecover, BootMigrate, Crash, GoTo, CronTypeOK
  <2>3. tick'[p].due \subseteq tick[p].due /\ faults' = faults
    <3>1. CASE Crash(p)
      <4>1. tick'[p] = NoTick /\ faults' = faults
        BY <1>0, <3>1 DEF Crash, CronTypeOK
      <4>2. QED
        BY <4>1 DEF NoTick
    <3>2. CASE BootRecover(p) \/ BootMigrate(p)
      BY <3>2 DEF BootRecover, BootMigrate, countVars
    <3>3. QED
      BY <1>5, <3>1, <3>2
  <2>4. \A q \in Procs : tick'[q].due \subseteq tick[q].due
    BY <2>3 DEF OneProcess
  <2>5. QED
    BY <2>1, <2>2, <2>3, <2>4, OneShotsStay
<1>6. ASSUME NEW p \in Procs, BootReconcile(p) PROVE Goal
  <2>1. NoNewFirings /\ UNCHANGED <<tick, faults, session>>
    BY <1>1, <1>6 DEF BootReconcile, countVars
  <2>2. \A s \in Schedules \ Recurring :
           active'[s] = "active" /\ s \in Visible(p) => ~HasFired(s)
    BY <1>6 DEF BootReconcile, Deactivate
  <2>3. \A s \in Schedules : active'[s] = "active" => active[s] = "active"
    BY <1>6 DEF BootReconcile, Deactivate
  <2>4. \A q \in Procs, s \in Schedules \ Recurring :
           HasFired(s) /\ active'[s] = "active" => ~(s \in Durable \/ session'[s] = q)
    BY <2>1, <2>2, <2>3 DEF OneProcess, Visible
  <2>5. QED
    BY <2>1, <2>4, OneShotsStay
<1>7. ASSUME NEW p \in Procs, NEW s \in Schedules, CreateSchedule(p, s) PROVE Goal
  <2>1. NoNewFirings /\ UNCHANGED <<tick, faults, phase>>
    BY <1>1, <1>7 DEF CreateSchedule, countVars
  <2>2. ~HasFired(s)
    BY <1>0, <1>7 DEF CreateSchedule, TicksAreReal
  <2>3. \A x \in Schedules \ {s} : active'[x] = active[x] /\ session'[x] = session[x]
    BY <1>0, <1>7 DEF CreateSchedule, CronTypeOK
  <2>4. QED
    BY <2>1, <2>2, <2>3, OneShotsStay DEF Up, Visible
<1>8. ASSUME NEW p \in Procs, NEW s \in Schedules, CancelSchedule(p, s) PROVE Goal
  <2>1. NoNewFirings /\ UNCHANGED <<tick, faults, phase, session>>
    BY <1>1, <1>8 DEF CancelSchedule, countVars
  <2>2. \A x \in Schedules : active'[x] = "active" => active[x] = "active"
    BY <1>8 DEF CancelSchedule, Deactivate
  <2>3. QED
    BY <2>1, <2>2, OneShotsStay DEF Up, Visible
<1>9. ASSUME NEW p \in Procs, NEW s \in Schedules, TickMark(p, s) PROVE Goal
  <2>1. NoNewFirings /\ UNCHANGED <<faults, phase, session>>
    BY <1>1, <1>9 DEF TickMark, countVars
  <2>2. Shrunk(p, s)
    BY <1>0, <1>9, ThroughShrinks DEF TickMark, Ticking, CronTypeOK, TickRecords
  <2>3. \A x \in Schedules : active'[x] = "active" =>
           active[x] = "active" /\ (x = s => s \in Recurring)
    BY <1>9 DEF TickMark, Deactivate
  <2>4. \A q \in Procs : tick'[q].due \subseteq tick[q].due
                         /\ \A x \in tick[q].queued : x \in tick'[q].queued \/ x = s
    BY <2>2 DEF Shrunk
  <2>5. QED
    BY <2>1, <2>3, <2>4, OneShotsStay DEF Up, Visible
<1>10. ASSUME NEW p \in Procs, NEW s \in Schedules, TickRaises(p, s) PROVE Goal
  <2>1. faults' # 0
    BY <1>0, <1>10 DEF TickRaises, CronTypeOK
  <2>2. QED
    BY <2>1 DEF OneShotsInOrder, OneShotFiresOnce
<1>11. ASSUME NEW p \in Procs, NEW d \in Deliverers, NEW j \in Occurrences,
              ClaimPrompt(p, d, j) \/ Deliver(p, d, j)
       PROVE  Goal
  <2>1. NoNewFirings
    BY <1>0, <1>1, <1>11, OldFirings DEF ClaimPrompt, Deliver
  <2>2. QED
    BY <1>2, <1>11, <2>1 DEF ClaimPrompt, Deliver, scheduleVars, countVars
<1>12. ASSUME NEW p \in Procs, NEW d \in Deliverers, NEW j \in Occurrences, DeliverUnmarked(p, d, j)
       PROVE  Goal
  <2>1. faults' # 0
    BY <1>0, <1>12 DEF DeliverUnmarked, CronTypeOK
  <2>2. QED
    BY <2>1 DEF OneShotsInOrder, OneShotFiresOnce
<1>13. ASSUME NEW p \in Procs, AutorunTurn(p) \/ AutorunReturns(p) PROVE Goal
  BY <1>1, <1>2, <1>13 DEF AutorunTurn, AutorunReturns, scheduleVars, countVars
<1>14. ASSUME NEW p \in Procs, SchedulerDies(p) \/ AutorunDies(p) PROVE Goal
  <2>1. faults' # 0
    BY <1>0, <1>14 DEF SchedulerDies, AutorunDies, CronTypeOK
  <2>2. QED
    BY <2>1 DEF OneShotsInOrder, OneShotFiresOnce
<1>15. QED
  BY <1>3, <1>4, <1>5, <1>6, <1>7, <1>8, <1>9, <1>10, <1>11, <1>12, <1>13, <1>14, OneShotsDue,
     OneShotsFire DEF CronNext, Boot

(* Where one process runs, a one-shot fires once, through crashes between  *)
(* its firing and its deactivation, restarts and the legacy import, unless *)
(* a store call of a tick raises.                                          *)
THEOREM OneShotsFireOnce ==
    ASSUME OneProcess
    PROVE  CronSpec => []OneShotFiresOnce
<1>1. CronInit => OneShotInv
  <2> SUFFICES ASSUME CronInit PROVE OneShotInv
    OBVIOUS
  <2>1. \A s \in Schedules : ~HasFired(s) /\ Firings(s) = {}
    BY OccurrencesAre DEF CronInit, Store!JobInit, HasFired, Firings
  <2>2. QED
    BY <2>1, CronInvInit DEF OneShotInv, OneShotsInOrder, OneShotFiresOnce
<1>2. OneShotInv /\ [CronNext]_vars => OneShotInv'
  BY OneShotsStep
<1>3. OneShotInv => OneShotFiresOnce
  BY DEF OneShotInv
<1>4. QED
  BY <1>1, <1>2, <1>3, PTL DEF CronSpec
====
