-------------------------- MODULE TaskStoreProofs --------------------------
(***************************************************************************)
(* Proofs about the task table for any clients, tasks, dependencies,       *)
(* imported rows, lease length and lock wait.                              *)
(***************************************************************************)
EXTENDS TaskStore, TLAPS

(* The deadlines the store writes fit the range a row's lease can have.    *)
LEMMA DeadlineInRange ==
    ASSUME NEW age \in 0..MaxAge
    PROVE  LeaseDeadline(age) \in (-MaxAge)..LeaseLen /\ LeaseDeadline(age) # NoLease
  BY ConstantsAssumption DEF LeaseDeadline

(* One tick off a running lease, or off what a client knows of it.         *)
LEMMA OneTickLess ==
    /\ \A n \in (-MaxAge)..LeaseLen : n # -MaxAge => n - 1 \in (-MaxAge)..LeaseLen
    /\ \A n \in 0..LeaseLen : (IF n = 0 THEN 0 ELSE n - 1) \in 0..LeaseLen
  BY ConstantsAssumption

(* The empty call and the empty knowledge of a restarted client are well   *)
(* typed.                                                                  *)
LEMMA EmptyTypes ==
    /\ Idle \in [op : Ops, task : Tasks \cup {NoTask}, age : 0..MaxAge]
    /\ NothingHeld \in [Tasks -> 0..LeaseLen]
  BY ConstantsAssumption DEF Idle, NothingHeld, Ops

(* An operation other than recovery names a task.                          *)
CallShape ==
    \A c \in Clients :
        call[c].op \in {"claim", "heartbeat", "complete"} => call[c].task \in Tasks

LEMMA CallShapeInit == Init => CallShape
  BY DEF Init, CallShape, Idle

LEMMA CallShapeStep == TypeOK /\ CallShape /\ [Next]_vars => CallShape'
<1> SUFFICES ASSUME TypeOK, CallShape, [Next]_vars
             PROVE  CallShape'
  OBVIOUS
<1> USE DEF TypeOK, CallShape
<1>1. CASE UNCHANGED vars
  BY <1>1 DEF vars
<1>2. ASSUME NEW t \in Tasks, CreateTask(t) PROVE CallShape'
  BY <1>2 DEF CreateTask
<1>3. ASSUME NEW t \in Tasks, NEW r \in LegacyRows, ImportTask(t, r) PROVE CallShape'
  BY <1>3 DEF ImportTask
<1>4. ASSUME NEW c \in Clients, NEW op \in Ops, NEW t \in Tasks \cup {NoTask}, Begin(c, op, t)
      PROVE CallShape'
  BY <1>4 DEF Begin, Ops
<1>5. ASSUME NEW c \in Clients, Return(c) PROVE CallShape'
  BY <1>5 DEF Return, Idle
<1>6. CASE Tick
  BY <1>6 DEF Tick
<1>7. QED
  BY <1>1, <1>2, <1>3, <1>4, <1>5, <1>6
     DEF Next, Commit, ClaimGranted, ClaimRecoversOnly, ClaimRefused, HeartbeatAccepted,
         CompleteAccepted, UpdateRefused, RecoverExpired, CallFails, Crash

-----------------------------------------------------------------------------
LEMMA TypeInit == Init => TypeOK
  BY EmptyTypes, ConstantsAssumption DEF Init, TypeOK

LEMMA TypeStep == TypeOK /\ CallShape /\ [Next]_vars => TypeOK'
<1> SUFFICES ASSUME TypeOK, CallShape, [Next]_vars
             PROVE  TypeOK'
  OBVIOUS
<1> USE ConstantsAssumption, EmptyTypes DEF TypeOK
<1>1. CASE UNCHANGED vars
  BY <1>1 DEF vars
<1>2. ASSUME NEW t \in Tasks, CreateTask(t) PROVE TypeOK'
  BY <1>2 DEF CreateTask, Statuses
<1>3. ASSUME NEW t \in Tasks, NEW r \in LegacyRows, ImportTask(t, r) PROVE TypeOK'
  <2>1. r.status \in Statuses /\ r.owner \in Clients \cup {NoOwner}
        /\ r.ttl \in ((-MaxAge)..LeaseLen) \cup {NoLease}
    OBVIOUS
  <2>2. QED
    BY <1>3, <2>1 DEF ImportTask
<1>4. ASSUME NEW c \in Clients, NEW op \in Ops, NEW t \in Tasks \cup {NoTask}, Begin(c, op, t)
      PROVE TypeOK'
  BY <1>4 DEF Begin, rowVars
<1>5. ASSUME NEW c \in Clients, Commit(c) PROVE TypeOK'
  <2>1. call[c].age \in 0..MaxAge
    OBVIOUS
  <2>2. call[c].op \in {"claim", "heartbeat", "complete"} => call[c].task \in Tasks
    BY DEF CallShape
  <2>3. LeaseDeadline(call[c].age) \in (-MaxAge)..LeaseLen
    BY <2>1, DeadlineInRange
  <2>4. (IF LeaseDeadline(call[c].age) > 0 THEN LeaseDeadline(call[c].age) ELSE 0) \in 0..LeaseLen
    BY <2>3
  <2>5. CASE ClaimGranted(c)
    BY <2>5, <2>2, <2>3, <2>4 DEF ClaimGranted, Calling, Return, Statuses
  <2>6. CASE ClaimRecoversOnly(c)
    BY <2>6, <2>2 DEF ClaimRecoversOnly, Released, Calling, Return, Statuses
  <2>7. CASE ClaimRefused(c)
    BY <2>7 DEF ClaimRefused, rowVars, Return
  <2>8. CASE HeartbeatAccepted(c)
    BY <2>8, <2>2, <2>3, <2>4 DEF HeartbeatAccepted, Calling, Return
  <2>9. CASE CompleteAccepted(c)
    BY <2>9, <2>2 DEF CompleteAccepted, Calling, Return, Statuses
  <2>10. CASE UpdateRefused(c)
    BY <2>10 DEF UpdateRefused, rowVars, Return
  <2>11. CASE RecoverExpired(c)
    <3>1. status' \in [Tasks -> Statuses \cup {"absent"}]
      BY <2>11 DEF RecoverExpired, Statuses
    <3>2. owner' \in [Tasks -> Clients \cup {NoOwner}]
      BY <2>11 DEF RecoverExpired
    <3>3. ttl' \in [Tasks -> ((-MaxAge)..LeaseLen) \cup {NoLease}]
      BY <2>11 DEF RecoverExpired
    <3>4. QED
      BY <2>11, <3>1, <3>2, <3>3 DEF RecoverExpired, Return
  <2>12. QED
    BY <1>5, <2>5, <2>6, <2>7, <2>8, <2>9, <2>10, <2>11 DEF Commit
<1>6. ASSUME NEW c \in Clients, CallFails(c) PROVE TypeOK'
  BY <1>6 DEF CallFails, rowVars, Return
<1>7. ASSUME NEW c \in Clients, Crash(c) PROVE TypeOK'
  BY <1>7 DEF Crash, rowVars, Return
<1>8. CASE Tick
  <2>1. ttl' \in [Tasks -> ((-MaxAge)..LeaseLen) \cup {NoLease}]
    <3> SUFFICES ASSUME NEW t \in Tasks
                 PROVE  ttl'[t] \in ((-MaxAge)..LeaseLen) \cup {NoLease}
      BY <1>8 DEF Tick
    <3>1. CASE ttl[t] = NoLease \/ ttl[t] = -MaxAge
      BY <1>8, <3>1 DEF Tick
    <3>2. CASE ttl[t] # NoLease /\ ttl[t] # -MaxAge
      <4>1. ttl[t] \in (-MaxAge)..LeaseLen
        BY <3>2
      <4>2. ttl'[t] = ttl[t] - 1
        BY <1>8, <3>2 DEF Tick
      <4>3. ttl[t] - 1 \in (-MaxAge)..LeaseLen
        BY <4>1, <3>2, OneTickLess
      <4>4. QED
        BY <4>2, <4>3
    <3>3. QED
      BY <3>1, <3>2
  <2>2. call' \in [Clients -> [op : Ops, task : Tasks \cup {NoTask}, age : 0..MaxAge]]
    <3> SUFFICES ASSUME NEW c \in Clients
                 PROVE  call'[c] \in [op : Ops, task : Tasks \cup {NoTask}, age : 0..MaxAge]
      BY <1>8 DEF Tick
    <3>1. CASE call[c].op = "none"
      BY <1>8, <3>1 DEF Tick
    <3>2. CASE call[c].op # "none"
      <4>1. call[c].age + 1 \in 0..MaxAge
        BY <1>8, <3>2 DEF Tick
      <4>2. call'[c] = [call[c] EXCEPT !.age = @ + 1]
        BY <1>8, <3>2 DEF Tick
      <4>3. QED
        BY <4>1, <4>2
    <3>3. QED
      BY <3>1, <3>2
  <2>3. granted' \in [Clients -> [Tasks -> 0..LeaseLen]]
    <3>1. \A c \in Clients : granted[c] \in [Tasks -> 0..LeaseLen]
      OBVIOUS
    <3>2. \A c \in Clients, t \in Tasks : granted[c][t] \in 0..LeaseLen
      BY <3>1
    <3>3. \A c \in Clients, t \in Tasks :
             (IF granted[c][t] = 0 THEN 0 ELSE granted[c][t] - 1) \in 0..LeaseLen
      BY <3>2, OneTickLess
    <3>4. QED
      BY <1>8, <3>3, ZenonT(30) DEF Tick
  <2>4. QED
    BY <1>8, <2>1, <2>2, <2>3 DEF Tick
<1>9. QED
  BY <1>1, <1>2, <1>3, <1>4, <1>5, <1>6, <1>7, <1>8 DEF Next

(* Every reachable state of the table is well typed.                       *)
THEOREM TypeCorrect == Spec => [](TypeOK /\ CallShape)
<1>1. Init => TypeOK /\ CallShape
  BY TypeInit, CallShapeInit
<1>2. TypeOK /\ CallShape /\ [Next]_vars => (TypeOK /\ CallShape)'
  BY TypeStep, CallShapeStep
<1>3. QED
  BY <1>1, <1>2, PTL DEF Spec

-----------------------------------------------------------------------------
(* What happens to rows when a client is granted a claim: only a pending,  *)
(* unowned row or one whose lease has run out changes hands.               *)
LEMMA ClaimTakesFreeRow ==
    ASSUME TypeOK, CallShape, NEW c \in Clients, ClaimGranted(c)
    PROVE  LET t == call[c].task IN
           /\ t \in Tasks
           /\ \/ status[t] = "pending"
              \/ status[t] = "in_progress" /\ ttl[t] # NoLease /\ ttl[t] <= 0
<1>1. call[c].task \in Tasks /\ call[c].age \in 0..MaxAge
  BY DEF TypeOK, CallShape, ClaimGranted, Calling
<1>2. QED
  BY <1>1, ConstantsAssumption DEF TypeOK, ClaimGranted, Lapsed, LeaseExpired

(* A call that finds the row lapsed at its captured time sees a lease that *)
(* has also run out now.                                                   *)
LEMMA LapsedIsOver ==
    ASSUME TypeOK, NEW c \in Clients, NEW t \in Tasks, Lapsed(t, call[c].age)
    PROVE  status[t] = "in_progress" /\ ttl[t] # NoLease /\ ttl[t] <= 0
<1>1. call[c].age \in 0..MaxAge
  BY DEF TypeOK
<1>2. QED
  BY <1>1, ConstantsAssumption DEF TypeOK, Lapsed, LeaseExpired

LEMMA DependenciesInit == Init => DependenciesFirst
  BY DEF Init, DependenciesFirst, Started

(* Dependencies are only ever consulted when a task starts, so the step    *)
(* lemma needs that no step takes a task out of completed.                 *)
LEMMA CompletedStays ==
    ASSUME TypeOK, CallShape, [Next]_vars
    PROVE  \A t \in Tasks : status[t] = "completed" =>
               status'[t] = "completed" /\ owner'[t] = owner[t]
<1> SUFFICES ASSUME NEW t \in Tasks, status[t] = "completed"
             PROVE  status'[t] = "completed" /\ owner'[t] = owner[t]
  OBVIOUS
<1> USE DEF TypeOK
<1>1. CASE UNCHANGED vars
  BY <1>1 DEF vars
<1>2. ASSUME NEW u \in Tasks, CreateTask(u) PROVE status'[t] = "completed" /\ owner'[t] = owner[t]
  BY <1>2 DEF CreateTask
<1>3. ASSUME NEW u \in Tasks, NEW r \in LegacyRows, ImportTask(u, r)
      PROVE status'[t] = "completed" /\ owner'[t] = owner[t]
  BY <1>3 DEF ImportTask
<1>4. ASSUME NEW c \in Clients, NEW op \in Ops, NEW u \in Tasks \cup {NoTask}, Begin(c, op, u)
      PROVE status'[t] = "completed" /\ owner'[t] = owner[t]
  BY <1>4 DEF Begin, rowVars
<1>5. ASSUME NEW c \in Clients, Commit(c) PROVE status'[t] = "completed" /\ owner'[t] = owner[t]
  <2>2. CASE ClaimGranted(c)
    BY <2>2, ClaimTakesFreeRow DEF ClaimGranted
  <2>3. CASE ClaimRecoversOnly(c)
    BY <2>3 DEF ClaimRecoversOnly, Released, Lapsed
  <2>4. CASE ClaimRefused(c) \/ UpdateRefused(c)
    BY <2>4 DEF ClaimRefused, UpdateRefused, rowVars
  <2>5. CASE HeartbeatAccepted(c)
    BY <2>5 DEF HeartbeatAccepted
  <2>6. CASE CompleteAccepted(c)
    BY <2>6 DEF CompleteAccepted, MayUpdate
  <2>7. CASE RecoverExpired(c)
    BY <2>7 DEF RecoverExpired, Lapsed
  <2>8. QED
    BY <1>5, <2>2, <2>3, <2>4, <2>5, <2>6, <2>7 DEF Commit
<1>6. ASSUME NEW c \in Clients, CallFails(c) \/ Crash(c)
      PROVE status'[t] = "completed" /\ owner'[t] = owner[t]
  BY <1>6 DEF CallFails, Crash, rowVars
<1>7. CASE Tick
  BY <1>7 DEF Tick
<1>8. QED
  BY <1>1, <1>2, <1>3, <1>4, <1>5, <1>6, <1>7 DEF Next

(* Completion is final and keeps its author, in every execution.           *)
THEOREM CompletionIsFinal == Spec => CompletedFinal
<1>1. TypeOK /\ CallShape /\ [Next]_vars =>
        [\A t \in Tasks : status[t] = "completed" =>
             status'[t] = "completed" /\ owner'[t] = owner[t]]_vars
  BY CompletedStays
<1>2. QED
  BY <1>1, TypeCorrect, PTL DEF Spec, CompletedFinal

LEMMA DependenciesStep ==
    TypeOK /\ CallShape /\ DependenciesFirst /\ [Next]_vars => DependenciesFirst'
<1> SUFFICES ASSUME TypeOK, CallShape, DependenciesFirst, [Next]_vars,
                    NEW t \in Tasks \ Legacy, Started(t)',
                    NEW d \in Deps[t]
             PROVE  status'[d] = "completed"
  BY DEF DependenciesFirst, DependenciesMet
<1>1. d \in Tasks
  BY ConstantsAssumption
<1>2. status[d] = "completed" => status'[d] = "completed"
  BY <1>1, CompletedStays
<1>3. CASE Started(t)
  BY <1>2, <1>3 DEF DependenciesFirst, DependenciesMet
<1>4. CASE ~Started(t)
  <2>1. PICK c \in Clients : ClaimGranted(c) /\ t = call[c].task
    <3> USE <1>4 DEF TypeOK, Started
    <3>1. CASE UNCHANGED vars
      BY <3>1 DEF vars
    <3>2. ASSUME NEW u \in Tasks, CreateTask(u) PROVE FALSE
      BY <3>2 DEF CreateTask
    <3>3. ASSUME NEW u \in Tasks, NEW r \in LegacyRows, ImportTask(u, r) PROVE FALSE
      BY <3>3 DEF ImportTask
    <3>4. ASSUME NEW c \in Clients, NEW op \in Ops, NEW u \in Tasks \cup {NoTask},
                 Begin(c, op, u)
          PROVE FALSE
      BY <3>4 DEF Begin, rowVars
    <3>5. ASSUME NEW c \in Clients, Commit(c)
          PROVE  ClaimGranted(c) /\ t = call[c].task
      <4>1. CASE ClaimGranted(c)
        BY <4>1, ClaimTakesFreeRow DEF ClaimGranted
      <4>2. CASE ClaimRecoversOnly(c)
        BY <4>2 DEF ClaimRecoversOnly, Released
      <4>3. CASE ClaimRefused(c) \/ UpdateRefused(c)
        BY <4>3 DEF ClaimRefused, UpdateRefused, rowVars
      <4>4. CASE HeartbeatAccepted(c)
        BY <4>4 DEF HeartbeatAccepted
      <4>5. CASE CompleteAccepted(c)
        BY <4>5 DEF CompleteAccepted, MayUpdate
      <4>6. CASE RecoverExpired(c)
        BY <4>6 DEF RecoverExpired
      <4>7. QED
        BY <3>5, <4>1, <4>2, <4>3, <4>4, <4>5, <4>6 DEF Commit
    <3>6. ASSUME NEW c \in Clients, CallFails(c) \/ Crash(c) PROVE FALSE
      BY <3>6 DEF CallFails, Crash, rowVars
    <3>7. CASE Tick
      BY <3>7 DEF Tick
    <3>8. QED
      BY <3>1, <3>2, <3>3, <3>4, <3>5, <3>6, <3>7 DEF Next
  <2>2. QED
    BY <2>1, <1>2 DEF ClaimGranted, DependenciesMet
<1>5. QED
  BY <1>3, <1>4

(* No task created through the store starts before its dependencies are    *)
(* completed: DependenciesFirst holds for every table and any clients.     *)
THEOREM DependencyOrder == Spec => []DependenciesFirst
<1>1. TypeOK /\ CallShape /\ DependenciesFirst /\ [Next]_vars => DependenciesFirst'
  BY DependenciesStep
<1>2. QED
  BY <1>1, DependenciesInit, TypeCorrect, PTL DEF Spec

-----------------------------------------------------------------------------
(* The lease one client holds, as one condition per client and task.       *)
Honoured(c, t) ==
    granted[c][t] > 0 => /\ status[t] = "in_progress"
                         /\ owner[t] = c
                         /\ ttl[t] # NoLease
                         /\ ttl[t] >= granted[c][t]

LEMMA LeaseInit == Init => LeaseHonoured
  BY ConstantsAssumption DEF Init, LeaseHonoured, NothingHeld

(* A transaction breaks no lease: one that changes a row either is run by  *)
(* the holder or finds the lease over.                                     *)
LEMMA LeaseCommit ==
    ASSUME TypeOK, CallShape, LeaseHonoured, NEW b \in Clients, Commit(b)
    PROVE  LeaseHonoured'
<1> SUFFICES ASSUME NEW c \in Clients, NEW t \in Tasks
             PROVE  Honoured(c, t)'
  BY DEF LeaseHonoured, Honoured
<1>0. Honoured(c, t)
  BY DEF LeaseHonoured, Honoured
<1>a. granted[c][t] \in 0..LeaseLen /\ granted[c] \in [Tasks -> 0..LeaseLen]
  BY DEF TypeOK
<1>b. ttl[t] \in ((-MaxAge)..LeaseLen) \cup {NoLease}
  BY DEF TypeOK
<1> DEFINE u == call[b].task
           new == LeaseDeadline(call[b].age)
<1>c. new \in Int /\ new # NoLease
  <2>1. call[b].age \in 0..MaxAge
    BY DEF TypeOK
  <2>2. QED
    BY <2>1, DeadlineInRange, ConstantsAssumption
<1>1. CASE ClaimGranted(b)
  <2>1. u \in Tasks /\ (\/ status[u] = "pending"
                        \/ status[u] = "in_progress" /\ ttl[u] # NoLease /\ ttl[u] <= 0)
    BY <1>1, ClaimTakesFreeRow
  <2>2. CASE t # u
    <3>1. /\ status'[t] = status[t] /\ owner'[t] = owner[t] /\ ttl'[t] = ttl[t]
          /\ granted'[c][t] = granted[c][t]
      BY <1>1, <2>1, <2>2, <1>a DEF ClaimGranted, TypeOK
    <3>2. QED
      BY <1>0, <3>1 DEF Honoured
  <2>3. CASE t = u /\ c = b
    <3> HIDE DEF new
    <3>1. /\ status'[t] = "in_progress" /\ owner'[t] = c /\ ttl'[t] = new
          /\ granted'[c][t] = IF new > 0 THEN new ELSE 0
      BY <1>1, <2>1, <2>3, <1>a DEF ClaimGranted, TypeOK, new
    <3>2. QED
      BY <3>1, <1>c DEF Honoured
  <2>4. CASE t = u /\ c # b
    <3>1. granted[c][t] <= 0
      <4>1. CASE status[u] = "pending"
        BY <4>1, <2>4, <1>0, <1>a DEF Honoured
      <4>2. CASE status[u] = "in_progress" /\ ttl[u] # NoLease /\ ttl[u] <= 0
        BY <4>2, <2>4, <1>0, <1>a, <1>b DEF Honoured
      <4>3. QED
        BY <2>1, <4>1, <4>2
    <3>2. granted'[c][t] = granted[c][t]
      BY <1>1, <2>4 DEF ClaimGranted, TypeOK
    <3>3. QED
      BY <3>1, <3>2, <1>a DEF Honoured
  <2>5. QED
    BY <2>2, <2>3, <2>4
<1>2. CASE ClaimRecoversOnly(b)
  <2>1. u \in Tasks
    BY <1>2 DEF ClaimRecoversOnly, CallShape, Calling
  <2>2. status[u] = "in_progress" /\ ttl[u] # NoLease /\ ttl[u] <= 0
    BY <1>2, <2>1, LapsedIsOver DEF ClaimRecoversOnly
  <2>3. CASE t = u
    BY <2>2, <2>3, <1>0, <1>2, <1>a, <1>b DEF Honoured, ClaimRecoversOnly
  <2>4. CASE t # u
    BY <2>1, <2>4, <1>0, <1>2 DEF Honoured, ClaimRecoversOnly, Released, TypeOK
  <2>5. QED
    BY <2>3, <2>4
<1>3. CASE ClaimRefused(b) \/ UpdateRefused(b)
  BY <1>3, <1>0 DEF Honoured, ClaimRefused, UpdateRefused, rowVars
<1>4. CASE HeartbeatAccepted(b)
  <2>1. u \in Tasks /\ status[u] = "in_progress" /\ owner[u] = b
    BY <1>4 DEF HeartbeatAccepted, MayUpdate, CallShape, Calling
  <2>2. CASE t # u
    <3>1. /\ status'[t] = status[t] /\ owner'[t] = owner[t] /\ ttl'[t] = ttl[t]
          /\ granted'[c][t] = granted[c][t]
      BY <1>4, <2>1, <2>2, <1>a DEF HeartbeatAccepted, TypeOK
    <3>2. QED
      BY <1>0, <3>1 DEF Honoured
  <2>3. CASE t = u /\ c = b
    <3> HIDE DEF new
    <3>1. /\ status'[t] = "in_progress" /\ owner'[t] = c /\ ttl'[t] = new
          /\ granted'[c][t] = IF new > 0 THEN new ELSE 0
      BY <1>4, <2>1, <2>3, <1>a DEF HeartbeatAccepted, TypeOK, new, u
    <3>2. QED
      BY <3>1, <1>c DEF Honoured
  <2>4. CASE t = u /\ c # b
    BY <2>1, <2>4, <1>0, <1>4, <1>a DEF Honoured, HeartbeatAccepted, TypeOK
  <2>5. QED
    BY <2>2, <2>3, <2>4
<1>5. CASE CompleteAccepted(b)
  <2>1. u \in Tasks /\ status[u] = "in_progress" /\ owner[u] = b
    BY <1>5 DEF CompleteAccepted, MayUpdate, CallShape, Calling
  <2>2. CASE t # u
    <3>1. /\ status'[t] = status[t] /\ owner'[t] = owner[t] /\ ttl'[t] = ttl[t]
          /\ granted'[c][t] = granted[c][t]
      BY <1>5, <2>1, <2>2, <1>a DEF CompleteAccepted, TypeOK
    <3>2. QED
      BY <1>0, <3>1 DEF Honoured
  <2>3. CASE t = u /\ c = b
    BY <1>5, <2>1, <2>3, <1>a DEF Honoured, CompleteAccepted, TypeOK
  <2>4. CASE t = u /\ c # b
    <3>1. granted'[c][t] = granted[c][t]
      BY <1>5, <2>4 DEF CompleteAccepted, TypeOK
    <3>2. QED
      BY <2>1, <2>4, <1>0, <3>1, <1>a DEF Honoured
  <2>5. QED
    BY <2>2, <2>3, <2>4
<1>6. CASE RecoverExpired(b)
  <2>1. CASE Lapsed(t, call[b].age)
    <3>1. status[t] = "in_progress" /\ ttl[t] # NoLease /\ ttl[t] <= 0
      BY <2>1, LapsedIsOver
    <3>2. granted'[c][t] = granted[c][t]
      BY <1>6 DEF RecoverExpired
    <3>3. QED
      BY <3>1, <3>2, <1>0, <1>a, <1>b DEF Honoured
  <2>2. CASE ~Lapsed(t, call[b].age)
    BY <1>6, <2>2, <1>0 DEF RecoverExpired, Honoured
  <2>3. QED
    BY <2>1, <2>2
<1>7. QED
  BY <1>1, <1>2, <1>3, <1>4, <1>5, <1>6 DEF Commit

LEMMA LeaseStep ==
    TypeOK /\ CallShape /\ LeaseHonoured /\ [Next]_vars => LeaseHonoured'
<1> SUFFICES ASSUME TypeOK, CallShape, LeaseHonoured, [Next]_vars
             PROVE  LeaseHonoured'
  OBVIOUS
<1>1. CASE UNCHANGED vars
  BY <1>1 DEF vars, LeaseHonoured
<1>2. ASSUME NEW u \in Tasks, CreateTask(u) PROVE LeaseHonoured'
  BY <1>2 DEF CreateTask, LeaseHonoured, TypeOK
<1>3. ASSUME NEW u \in Tasks, NEW r \in LegacyRows, ImportTask(u, r) PROVE LeaseHonoured'
  BY <1>3 DEF ImportTask, LeaseHonoured, TypeOK
<1>4. ASSUME NEW c \in Clients, NEW op \in Ops, NEW u \in Tasks \cup {NoTask}, Begin(c, op, u)
      PROVE LeaseHonoured'
  BY <1>4 DEF Begin, rowVars, LeaseHonoured
<1>5. ASSUME NEW c \in Clients, Commit(c) PROVE LeaseHonoured'
  BY <1>5, LeaseCommit
<1>6. ASSUME NEW c \in Clients, CallFails(c) PROVE LeaseHonoured'
  BY <1>6 DEF CallFails, rowVars, LeaseHonoured
<1>7. ASSUME NEW c \in Clients, Crash(c) PROVE LeaseHonoured'
  BY <1>7 DEF Crash, rowVars, LeaseHonoured, NothingHeld, TypeOK
<1>8. CASE Tick
  <2> SUFFICES ASSUME NEW c \in Clients, NEW t \in Tasks
               PROVE  Honoured(c, t)'
    BY DEF LeaseHonoured, Honoured
  <2>1. granted[c][t] \in 0..LeaseLen /\ ttl[t] \in ((-MaxAge)..LeaseLen) \cup {NoLease}
    BY DEF TypeOK
  <2>2. Honoured(c, t)
    BY DEF LeaseHonoured, Honoured
  <2>3. /\ status'[t] = status[t] /\ owner'[t] = owner[t]
        /\ ttl'[t] = IF ttl[t] = NoLease \/ ttl[t] = -MaxAge THEN ttl[t] ELSE ttl[t] - 1
        /\ granted'[c][t] = IF granted[c][t] = 0 THEN 0 ELSE granted[c][t] - 1
    BY <1>8 DEF Tick
  <2>4. CASE granted[c][t] = 0
    BY <2>3, <2>4 DEF Honoured
  <2>5. CASE granted[c][t] > 0
    <3>1. ttl[t] \in (-MaxAge)..LeaseLen /\ ttl[t] >= granted[c][t] /\ ttl[t] # NoLease
      BY <2>1, <2>2, <2>5 DEF Honoured
    <3>2. ttl[t] # -MaxAge
      BY <3>1, <2>1, <2>5, ConstantsAssumption
    <3>3. ttl'[t] = ttl[t] - 1 /\ granted'[c][t] = granted[c][t] - 1
      BY <2>3, <3>1, <3>2, <2>5
    <3>4. ttl[t] - 1 >= granted[c][t] - 1 /\ ttl[t] - 1 # NoLease
      BY <3>1, <2>1, ConstantsAssumption
    <3>5. QED
      BY <2>2, <2>3, <2>5, <3>3, <3>4 DEF Honoured
  <2>6. QED
    BY <2>1, <2>4, <2>5
<1>9. QED
  BY <1>1, <1>2, <1>3, <1>4, <1>5, <1>6, <1>7, <1>8 DEF Next

(* Leases are exclusive for any number of clients and any timing: while    *)
(* the deadline a client was told has not passed, no claim, recovery or    *)
(* completion of another client takes the row (LeaseHonoured).             *)
THEOREM LeaseExclusive == Spec => []LeaseHonoured
<1>1. TypeOK /\ CallShape /\ LeaseHonoured /\ [Next]_vars => LeaseHonoured'
  BY LeaseStep
<1>2. QED
  BY <1>1, LeaseInit, TypeCorrect, PTL DEF Spec

-----------------------------------------------------------------------------
LEMMA NoDeadRowInit == Init => NoDeadRow
  BY DEF Init, NoDeadRow

LEMMA NoDeadRowStep == TypeOK /\ CallShape /\ NoDeadRow /\ [Next]_vars => NoDeadRow'
<1> SUFFICES ASSUME TypeOK, CallShape, NoDeadRow, [Next]_vars
             PROVE  NoDeadRow'
  OBVIOUS
<1> USE DEF TypeOK
<1>1. CASE UNCHANGED vars
  BY <1>1 DEF vars, NoDeadRow
<1>2. ASSUME NEW u \in Tasks, CreateTask(u) PROVE NoDeadRow'
  BY <1>2 DEF CreateTask, NoDeadRow
<1>3. ASSUME NEW u \in Tasks, NEW r \in LegacyRows, ImportTask(u, r) PROVE NoDeadRow'
  BY <1>3 DEF ImportTask, NoDeadRow
<1>4. ASSUME NEW c \in Clients, NEW op \in Ops, NEW u \in Tasks \cup {NoTask}, Begin(c, op, u)
      PROVE NoDeadRow'
  BY <1>4 DEF Begin, rowVars, NoDeadRow
<1>5. ASSUME NEW c \in Clients, Commit(c) PROVE NoDeadRow'
  <2>1. LeaseDeadline(call[c].age) # NoLease /\ c # NoOwner
    <3>1. call[c].age \in 0..MaxAge
      OBVIOUS
    <3>2. QED
      BY <3>1, DeadlineInRange, ConstantsAssumption
  <2>2. CASE ClaimGranted(c)
    BY <2>1, <2>2 DEF ClaimGranted, NoDeadRow
  <2>3. CASE ClaimRecoversOnly(c)
    BY <2>3 DEF ClaimRecoversOnly, Released, NoDeadRow
  <2>4. CASE ClaimRefused(c) \/ UpdateRefused(c)
    BY <2>4 DEF ClaimRefused, UpdateRefused, rowVars, NoDeadRow
  <2>5. CASE HeartbeatAccepted(c)
    BY <2>1, <2>5 DEF HeartbeatAccepted, NoDeadRow
  <2>6. CASE CompleteAccepted(c)
    BY <2>6 DEF CompleteAccepted, NoDeadRow
  <2>7. CASE RecoverExpired(c)
    BY <2>7 DEF RecoverExpired, NoDeadRow
  <2>8. QED
    BY <1>5, <2>2, <2>3, <2>4, <2>5, <2>6, <2>7 DEF Commit
<1>6. ASSUME NEW c \in Clients, CallFails(c) \/ Crash(c) PROVE NoDeadRow'
  BY <1>6 DEF CallFails, Crash, rowVars, NoDeadRow
<1>7. CASE Tick
  <2>1. \A t \in Tasks : ttl[t] # NoLease => ttl'[t] # NoLease
    BY <1>7, ConstantsAssumption DEF Tick
  <2>2. QED
    BY <1>7, <2>1 DEF Tick, NoDeadRow
<1>8. QED
  BY <1>1, <1>2, <1>3, <1>4, <1>5, <1>6, <1>7 DEF Next

(* No created task is ever stranded in a row no claim would accept and no  *)
(* recovery would free (NoDeadRow).                                        *)
THEOREM RowsStayClaimable == Spec => []NoDeadRow
<1>1. TypeOK /\ CallShape /\ NoDeadRow /\ [Next]_vars => NoDeadRow'
  BY NoDeadRowStep
<1>2. QED
  BY <1>1, NoDeadRowInit, TypeCorrect, PTL DEF Spec

-----------------------------------------------------------------------------
(* The refinement: every transaction is a move of the board.               *)
LEMMA BoardCommit ==
    ASSUME TypeOK, CallShape, NEW c \in Clients, Commit(c)
    PROVE  [Board!Next]_(Board!vars)
<1>1. CASE ClaimGranted(c)
  <2>1. call[c].task \in Tasks /\ status[call[c].task] \in {"pending", "in_progress"}
    BY <1>1, ClaimTakesFreeRow
  <2>2. Board!Claim(c, call[c].task)
    BY <1>1, <2>1 DEF ClaimGranted, DependenciesMet, Board!Claim, Board!Open, Board!DependenciesMet
  <2>3. QED
    BY <2>1, <2>2 DEF Board!Next
<1>2. CASE ClaimRecoversOnly(c)
  <2> DEFINE t == call[c].task
  <2>1. t \in Tasks /\ status[t] = "in_progress"
    BY <1>2 DEF ClaimRecoversOnly, CallShape, Calling, Lapsed
  <2>2. Board!Release({t})
    <3>1. /\ status' = [u \in Tasks |-> IF u \in {t} THEN "pending" ELSE status[u]]
          /\ owner' = [u \in Tasks |-> IF u \in {t} THEN NoOwner ELSE owner[u]]
      BY <1>2, <2>1 DEF ClaimRecoversOnly, Released, TypeOK
    <3>2. QED
      BY <2>1, <3>1 DEF Board!Release
  <2>3. QED
    BY <2>1, <2>2 DEF Board!Next
<1>3. CASE ClaimRefused(c) \/ UpdateRefused(c)
  BY <1>3 DEF ClaimRefused, UpdateRefused, rowVars, Board!vars
<1>4. CASE HeartbeatAccepted(c)
  BY <1>4 DEF HeartbeatAccepted, Board!vars
<1>5. CASE CompleteAccepted(c)
  <2>1. call[c].task \in Tasks
    BY <1>5 DEF CompleteAccepted, CallShape, Calling
  <2>2. Board!Complete(c, call[c].task)
    BY <1>5 DEF CompleteAccepted, MayUpdate, Board!Complete
  <2>3. QED
    BY <2>1, <2>2 DEF Board!Next
<1>6. CASE RecoverExpired(c)
  <2> DEFINE gone == {t \in Tasks : Lapsed(t, call[c].age)}
  <2>1. Board!Release(gone)
    BY <1>6 DEF RecoverExpired, Lapsed, Board!Release
  <2>2. QED
    BY <2>1 DEF Board!Next
<1>7. QED
  BY <1>1, <1>2, <1>3, <1>4, <1>5, <1>6 DEF Commit

LEMMA BoardStep == TypeOK /\ CallShape /\ [Next]_vars => [Board!Next]_(Board!vars)
<1> SUFFICES ASSUME TypeOK, CallShape, [Next]_vars
             PROVE  [Board!Next]_(Board!vars)
  OBVIOUS
<1>1. CASE UNCHANGED vars
  BY <1>1 DEF vars, Board!vars
<1>2. ASSUME NEW t \in Tasks, CreateTask(t) PROVE [Board!Next]_(Board!vars)
  <2>1. Deps[t] \in SUBSET Tasks /\ [Deps EXCEPT ![t] = Deps[t]] = Deps
    BY ConstantsAssumption
  <2>2. Board!Create(t, Deps[t])
    BY <1>2, <2>1 DEF CreateTask, Board!Create
  <2>3. QED
    BY <2>1, <2>2 DEF Board!Next
<1>3. ASSUME NEW t \in Tasks, NEW r \in LegacyRows, ImportTask(t, r)
      PROVE  [Board!Next]_(Board!vars)
  <2>1. Board!Import(t)
    BY <1>3 DEF ImportTask, Board!Import, TypeOK
  <2>2. QED
    BY <2>1 DEF Board!Next
<1>4. ASSUME NEW c \in Clients, NEW op \in Ops, NEW t \in Tasks \cup {NoTask}, Begin(c, op, t)
      PROVE  [Board!Next]_(Board!vars)
  BY <1>4 DEF Begin, rowVars, Board!vars
<1>5. ASSUME NEW c \in Clients, Commit(c) PROVE [Board!Next]_(Board!vars)
  BY <1>5, BoardCommit
<1>6. ASSUME NEW c \in Clients, CallFails(c) \/ Crash(c) PROVE [Board!Next]_(Board!vars)
  BY <1>6 DEF CallFails, Crash, rowVars, Board!vars
<1>7. CASE Tick
  BY <1>7 DEF Tick, Board!vars
<1>8. QED
  BY <1>1, <1>2, <1>3, <1>4, <1>5, <1>6, <1>7 DEF Next

(* The table with its clocks, leases and late transactions implements the  *)
(* board that the orchestrator is built on.                                *)
THEOREM StoreImplementsBoard == Spec => BoardSpec
<1>1. Init => Board!Init
  BY DEF Init, Board!Init
<1>2. TypeOK /\ CallShape /\ [Next]_vars => [Board!Next]_(Board!vars)
  BY BoardStep
<1>3. QED
  BY <1>1, <1>2, TypeCorrect, PTL DEF Spec, BoardSpec, Board!Spec
=============================================================================
