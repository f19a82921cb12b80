----------------------------- MODULE TaskBoard -----------------------------
(***************************************************************************)
(* What the task table promises to the rest of the system, without clocks, *)
(* leases and transactions: tasks wait for their dependencies, one worker  *)
(* at a time holds a task, a holder may lose it again, and a completed     *)
(* task stays completed.  TaskStore implements this board, and             *)
(* ResearchOrchestrator is built on it.                                    *)
(***************************************************************************)
CONSTANTS
    Tasks,
    Workers,
    Imported,    \* tasks that come from legacy files
    NoOwner

VARIABLES
    status,      \* "absent", or the status of the row
    owner,       \* the holder
    blockedBy    \* dependencies given when the task was created

vars == <<status, owner, blockedBy>>

Open == {"pending", "in_progress"}

Init ==
    /\ status = [t \in Tasks |-> "absent"]
    /\ owner = [t \in Tasks |-> NoOwner]

(* create_task, which never returns an id that is in use.                  *)
Create(t, dependencies) ==
    /\ status[t] = "absent"
    /\ status' = [status EXCEPT ![t] = "pending"]
    /\ blockedBy' = [blockedBy EXCEPT ![t] = dependencies]
    /\ UNCHANGED owner

(* A task from a legacy file arrives in whatever state it was left.        *)
Import(t) ==
    /\ t \in Imported
    /\ status[t] = "absent"
    /\ \A u \in Tasks \ {t} : status'[u] = status[u] /\ owner'[u] = owner[u]
    /\ UNCHANGED blockedBy

DependenciesMet(t) == \A d \in blockedBy[t] : status[d] = "completed"

(* claim_task: a pending task, or one whose holder's lease has run out.    *)
Claim(w, t) ==
    /\ status[t] \in Open
    /\ DependenciesMet(t)
    /\ status' = [status EXCEPT ![t] = "in_progress"]
    /\ owner' = [owner EXCEPT ![t] = w]
    /\ UNCHANGED blockedBy

(* Leases run out, of any number of tasks at once.                         *)
Release(S) ==
    /\ \A t \in S : status[t] = "in_progress"
    /\ status' = [t \in Tasks |-> IF t \in S THEN "pending" ELSE status[t]]
    /\ owner' = [t \in Tasks |-> IF t \in S THEN NoOwner ELSE owner[t]]
    /\ UNCHANGED blockedBy

(* complete_task: by the present holder.                                   *)
Complete(w, t) ==
    /\ status[t] = "in_progress"
    /\ owner[t] = w
    /\ status' = [status EXCEPT ![t] = "completed"]
    /\ UNCHANGED <<owner, blockedBy>>

Next ==
    \/ \E t \in Tasks, D \in SUBSET Tasks : Create(t, D)
    \/ \E t \in Tasks : Import(t)
    \/ \E w \in Workers, t \in Tasks : Claim(w, t) \/ Complete(w, t)
    \/ \E S \in SUBSET Tasks : Release(S)

Spec == Init /\ [][Next]_vars
=============================================================================
