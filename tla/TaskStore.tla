----------------------------- MODULE TaskStore -----------------------------
(***************************************************************************)
(* The durable task table of agent_runtime/tasks/store.py and the calls    *)
(* its clients (the lead and the teammate threads) make on it.             *)
(*                                                                         *)
(* Every write operation reads the clock first and only then waits for the *)
(* database's write lock (BEGIN IMMEDIATE), so an operation is two steps   *)
(* here: Begin captures `now', and a commit action runs the transaction    *)
(* with that captured value.  Time is relative: a call carries the age of  *)
(* its `now', and a row carries the time its lease has left (negative once *)
(* the deadline has passed).                                               *)
(***************************************************************************)
EXTENDS Integers, FiniteSets

CONSTANTS
    Clients,      \* owner names: the lead and the teammates
    Tasks,        \* task ids
    Legacy,       \* ids that come from imported .tasks/task_*.json files
    LegacyRows,   \* the rows those files may hold
    Deps,         \* blocked_by of each task
    LeaseLen,     \* default_lease_seconds, in ticks
    MaxAge,       \* longest wait for the write lock (busy timeout), in ticks
    NoOwner,      \* owner IS NULL
    NoLease,      \* lease_until IS NULL
    NoTask        \* no task argument

Statuses == {"pending", "in_progress", "completed", "failed", "cancelled"}
Ops == {"none", "claim", "heartbeat", "complete", "recover"}

ASSUME ConstantsAssumption ==
    /\ LeaseLen \in Nat \ {0}
    /\ MaxAge \in Nat \ {0}
    /\ NoLease \notin Int
    /\ NoOwner \notin Clients
    /\ NoTask \notin Tasks
    /\ Legacy \subseteq Tasks
    /\ Deps \in [Tasks -> SUBSET Tasks]
    /\ LegacyRows \subseteq [status : Statuses,
                             owner  : Clients \cup {NoOwner},
                             ttl    : ((-MaxAge)..LeaseLen) \cup {NoLease}]

VARIABLES
    status,   \* tasks.status, or "absent" where there is no row
    owner,    \* tasks.owner
    ttl,      \* tasks.lease_until minus the time, saturated at -MaxAge
    call,     \* the operation each client has in flight
    granted   \* what is left of the lease a client was last told it holds

rowVars == <<status, owner, ttl>>
vars == <<status, owner, ttl, call, granted>>

Idle == [op |-> "none", task |-> NoTask, age |-> 0]
NothingHeld == [t \in Tasks |-> 0]

TypeOK ==
    /\ status \in [Tasks -> Statuses \cup {"absent"}]
    /\ owner \in [Tasks -> Clients \cup {NoOwner}]
    /\ ttl \in [Tasks -> ((-MaxAge)..LeaseLen) \cup {NoLease}]
    /\ call \in [Clients -> [op : Ops, task : Tasks \cup {NoTask}, age : 0..MaxAge]]
    /\ granted \in [Clients -> [Tasks -> 0..LeaseLen]]

-----------------------------------------------------------------------------
(* Definitions whose names start with Bug are the definition that follows  *)
(* them with a slip in it; no specification uses them, and the properties  *)
(* are shown to notice each.                                               *)

BugExpiresEarly(lease, age) == lease # NoLease /\ lease <= 1 - age

(* _lease_is_expired: no lease never expires; otherwise deadline <= now,   *)
(* where now lies `age' ticks in the past.                                 *)
LeaseExpired(lease, age) == lease # NoLease /\ lease <= -age

(* _lease_deadline: the new deadline counts from the captured now.         *)
LeaseDeadline(age) == IF LeaseLen - age >= -MaxAge THEN LeaseLen - age ELSE -MaxAge

BugIgnoresMissing(t) == \A d \in Deps[t] : status[d] \in {"absent", "completed"}

(* _dependency_problems finds neither a blocked nor a missing dependency.  *)
DependenciesMet(t) == \A d \in Deps[t] : status[d] = "completed"

Lapsed(t, age) == status[t] = "in_progress" /\ LeaseExpired(ttl[t], age)

Released(t) ==
    /\ status' = [status EXCEPT ![t] = "pending"]
    /\ owner' = [owner EXCEPT ![t] = NoOwner]
    /\ ttl' = [ttl EXCEPT ![t] = NoLease]

Calling(c, op) == call[c].op = op
Return(c) == call' = [call EXCEPT ![c] = Idle]

-----------------------------------------------------------------------------
Init ==
    /\ status = [t \in Tasks |-> "absent"]
    /\ owner = [t \in Tasks |-> NoOwner]
    /\ ttl = [t \in Tasks |-> NoLease]
    /\ call = [c \in Clients |-> Idle]
    /\ granted = [c \in Clients |-> NothingHeld]

(* create_task: a second insert of an id fails on the primary key.         *)
CreateTask(t) ==
    /\ t \notin Legacy
    /\ status[t] = "absent"
    /\ status' = [status EXCEPT ![t] = "pending"]
    /\ UNCHANGED <<owner, ttl, call, granted>>

(* import_task(overwrite=False): an existing row is kept as it is.         *)
ImportTask(t, r) ==
    /\ t \in Legacy
    /\ status[t] = "absent"
    /\ status' = [status EXCEPT ![t] = r.status]
    /\ owner' = [owner EXCEPT ![t] = r.owner]
    /\ ttl' = [ttl EXCEPT ![t] = r.ttl]
    /\ UNCHANGED <<call, granted>>

(* The operation reads the clock, then asks for the write lock.            *)
Begin(c, op, t) ==
    /\ Calling(c, "none")
    /\ op # "none"
    /\ (op = "recover") <=> (t = NoTask)
    /\ call' = [call EXCEPT ![c] = [op |-> op, task |-> t, age |-> 0]]
    /\ UNCHANGED <<rowVars, granted>>

(* claim_task: an expired in-progress row is first recovered, and the row  *)
(* that results must be pending, unowned and with its dependencies met.    *)
ClaimGranted(c) ==
    LET t == call[c].task  age == call[c].age IN
    /\ Calling(c, "claim")
    /\ \/ Lapsed(t, age)
       \/ status[t] = "pending" /\ owner[t] = NoOwner
    /\ DependenciesMet(t)
    /\ status' = [status EXCEPT ![t] = "in_progress"]
    /\ owner' = [owner EXCEPT ![t] = c]
    /\ ttl' = [ttl EXCEPT ![t] = LeaseDeadline(age)]
    /\ granted' = [granted EXCEPT ![c][t] = IF LeaseDeadline(age) > 0
                                            THEN LeaseDeadline(age) ELSE 0]
    /\ Return(c)

(* The recovery commits although the claim then fails on a dependency.     *)
ClaimRecoversOnly(c) ==
    LET t == call[c].task IN
    /\ Calling(c, "claim")
    /\ Lapsed(t, call[c].age)
    /\ ~DependenciesMet(t)
    /\ Released(t)
    /\ Return(c)
    /\ UNCHANGED granted

ClaimRefused(c) ==
    LET t == call[c].task IN
    /\ Calling(c, "claim")
    /\ ~Lapsed(t, call[c].age)
    /\ ~(status[t] = "pending" /\ owner[t] = NoOwner /\ DependenciesMet(t))
    /\ Return(c)
    /\ UNCHANGED <<rowVars, granted>>

BugUpdatesAnyOwned(c) ==
    LET t == call[c].task IN
    /\ owner[t] = c
    /\ ~LeaseExpired(ttl[t], call[c].age)

(* The checks heartbeat_task and complete_task share.                      *)
MayUpdate(c) ==
    LET t == call[c].task IN
    /\ status[t] = "in_progress"
    /\ owner[t] = c
    /\ ~LeaseExpired(ttl[t], call[c].age)

HeartbeatAccepted(c) ==
    LET t == call[c].task  age == call[c].age IN
    /\ Calling(c, "heartbeat")
    /\ MayUpdate(c)
    /\ ttl' = [ttl EXCEPT ![t] = LeaseDeadline(age)]
    /\ granted' = [granted EXCEPT ![c][t] = IF LeaseDeadline(age) > 0
                                            THEN LeaseDeadline(age) ELSE 0]
    /\ Return(c)
    /\ UNCHANGED <<status, owner>>

CompleteAccepted(c) ==
    LET t == call[c].task IN
    /\ Calling(c, "complete")
    /\ MayUpdate(c)
    /\ status' = [status EXCEPT ![t] = "completed"]
    /\ ttl' = [ttl EXCEPT ![t] = NoLease]
    /\ granted' = [granted EXCEPT ![c][t] = 0]
    /\ Return(c)
    /\ UNCHANGED owner

UpdateRefused(c) ==
    /\ call[c].op \in {"heartbeat", "complete"}
    /\ ~MayUpdate(c)
    /\ Return(c)
    /\ UNCHANGED <<rowVars, granted>>

(* recover_expired_tasks: every in-progress row whose lease has expired at *)
(* the captured now goes back to pending.                                  *)
RecoverExpired(c) ==
    LET gone == {t \in Tasks : Lapsed(t, call[c].age)} IN
    /\ Calling(c, "recover")
    /\ status' = [t \in Tasks |-> IF t \in gone THEN "pending" ELSE status[t]]
    /\ owner' = [t \in Tasks |-> IF t \in gone THEN NoOwner ELSE owner[t]]
    /\ ttl' = [t \in Tasks |-> IF t \in gone THEN NoLease ELSE ttl[t]]
    /\ Return(c)
    /\ UNCHANGED granted

(* "database is locked": the transaction rolls back.  The client may also  *)
(* die, at any point of its life, and come back under the same name        *)
(* knowing nothing.                                                        *)
CallFails(c) ==
    /\ ~Calling(c, "none")
    /\ Return(c)
    /\ UNCHANGED <<rowVars, granted>>

Crash(c) ==
    /\ Return(c)
    /\ granted' = [granted EXCEPT ![c] = NothingHeld]
    /\ UNCHANGED rowVars

(* Time passes.  No call waits longer than the busy timeout.               *)
Tick ==
    /\ \A c \in Clients : call[c].op # "none" => call[c].age < MaxAge
    /\ ttl' = [t \in Tasks |-> IF ttl[t] = NoLease \/ ttl[t] = -MaxAge
                               THEN ttl[t] ELSE ttl[t] - 1]
    /\ call' = [c \in Clients |-> IF call[c].op = "none" THEN call[c]
                                  ELSE [call[c] EXCEPT !.age = @ + 1]]
    /\ granted' = [c \in Clients |-> [t \in Tasks |->
                      IF granted[c][t] = 0 THEN 0 ELSE granted[c][t] - 1]]
    /\ UNCHANGED <<status, owner>>

Commit(c) ==
    \/ ClaimGranted(c)
    \/ ClaimRecoversOnly(c)
    \/ ClaimRefused(c)
    \/ HeartbeatAccepted(c)
    \/ CompleteAccepted(c)
    \/ UpdateRefused(c)
    \/ RecoverExpired(c)

Next ==
    \/ \E t \in Tasks : CreateTask(t)
    \/ \E t \in Tasks, r \in LegacyRows : ImportTask(t, r)
    \/ \E c \in Clients, op \in Ops, t \in Tasks \cup {NoTask} : Begin(c, op, t)
    \/ \E c \in Clients : Commit(c)
    \/ \E c \in Clients : CallFails(c)
    \/ \E c \in Clients : Crash(c)
    \/ Tick

Spec == Init /\ [][Next]_vars

-----------------------------------------------------------------------------
Started(t) == status[t] \in {"in_progress", "completed"}

(* A task created through create_task is claimed, and so completed, only   *)
(* after every dependency is completed - and stays that way whatever other *)
(* clients, recoveries and restarts do later (store.py claim_task).        *)
DependenciesFirst ==
    \A t \in Tasks \ Legacy : Started(t) =>
        \A d \in Deps[t] : status[d] = "completed"

(* A lease is exclusive: for as long as the deadline a client was told has *)
(* not passed, the row is in progress under that client, with at least     *)
(* that much lease left, however late competing claims and recoveries      *)
(* commit relative to the clock they read.                                 *)
LeaseHonoured ==
    \A c \in Clients, t \in Tasks :
        granted[c][t] > 0 => /\ status[t] = "in_progress"
                             /\ owner[t] = c
                             /\ ttl[t] # NoLease
                             /\ ttl[t] >= granted[c][t]

(* No dead rows: a created task is always either pending and claimable by  *)
(* anyone (no owner left behind, which claim_task would refuse for good)   *)
(* or in progress with a lease that will run out.                          *)
NoDeadRow ==
    \A t \in Tasks \ Legacy :
        /\ status[t] \in {"absent", "pending"} => owner[t] = NoOwner
        /\ status[t] = "in_progress" => owner[t] # NoOwner /\ ttl[t] # NoLease

(* Completion is final and keeps its author: no late heartbeat, claim,     *)
(* recovery or re-import reopens a completed task or gives it away.        *)
CompletedFinal ==
    [][\A t \in Tasks : status[t] = "completed" =>
           status'[t] = "completed" /\ owner'[t] = owner[t]]_vars

(* Without its clocks the table is the board the orchestrator relies on:   *)
(* every transaction is one move of the board or none.                     *)
Board == INSTANCE TaskBoard WITH
    Workers <- Clients, Imported <- Legacy, blockedBy <- Deps
BoardSpec == Board!Spec

(* What the docstring of heartbeat_task promises: a heartbeat is rejected  *)
(* once the old lease has expired (store.py:448).                          *)
ExpiredLeaseStaysExpired ==
    [][\A c \in Clients :
           HeartbeatAccepted(c) => \/ ttl[call[c].task] = NoLease
                                   \/ ttl[call[c].task] > 0]_vars
=============================================================================
