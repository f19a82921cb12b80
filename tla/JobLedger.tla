----------------------------- MODULE JobLedger -----------------------------
(***************************************************************************)
(* What the jobs table promises to those who run jobs: a job has at most   *)
(* one holder, is held at most MaxAttempts times, and is over for good.    *)
(***************************************************************************)
EXTENDS Naturals

CONSTANTS Jobs, Runners, NoRunner, MaxAttempts

VARIABLES holder, used, over

vars == <<holder, used, over>>

Init ==
    /\ holder = [j \in Jobs |-> NoRunner]
    /\ used = [j \in Jobs |-> 0]
    /\ over = {}

Claim(r, j) ==
    /\ j \notin over
    /\ holder[j] = NoRunner
    /\ used[j] < MaxAttempts[j]
    /\ holder' = [holder EXCEPT ![j] = r]
    /\ used' = [used EXCEPT ![j] = @ + 1]
    /\ UNCHANGED over

(* Held jobs lose their holders; jobs end, by a holder or by cancellation. *)
LetGo(S, Ended) ==
    /\ over \cap (S \cup Ended) = {}
    /\ over' = over \cup Ended
    /\ holder' = [j \in Jobs |-> IF j \in S \cup Ended THEN NoRunner ELSE holder[j]]
    /\ UNCHANGED used

Next ==
    \/ \E j \in Jobs, r \in Runners : Claim(r, j)
    \/ \E S, Ended \in SUBSET Jobs : LetGo(S, Ended)

Spec == Init /\ [][Next]_vars
=============================================================================
