----------------------------- MODULE ToolCalls -----------------------------
(***************************************************************************)
(* What background execution and the MCP client promise about a tool call  *)
(* with side effects: it is begun at most once and takes effect at most    *)
(* once, is said to have succeeded only after it took effect, and gets one *)
(* outcome for good.                                                       *)
(***************************************************************************)
CONSTANTS Jobs

VARIABLES
    begun,      \* calls handed to a thread that may execute them
    effects,    \* how often each took effect
    outcome     \* "open", "ok" or "lost"

vars == <<begun, effects, outcome>>

Init ==
    /\ begun = {}
    /\ effects = [j \in Jobs |-> 0]
    /\ outcome = [j \in Jobs |-> "open"]

Begin(j) ==
    /\ j \notin begun
    /\ outcome[j] = "open"
    /\ begun' = begun \cup {j}
    /\ UNCHANGED <<effects, outcome>>

(* Possibly after the call was given up for lost.                          *)
TakeEffect(j) ==
    /\ j \in begun
    /\ effects[j] = 0
    /\ effects' = [effects EXCEPT ![j] = 1]
    /\ UNCHANGED <<begun, outcome>>

Succeed(j) ==
    /\ effects[j] = 1
    /\ outcome[j] = "open"
    /\ outcome' = [outcome EXCEPT ![j] = "ok"]
    /\ UNCHANGED <<begun, effects>>

Lose(S) ==
    /\ \A j \in S : j \in begun /\ outcome[j] = "open"
    /\ outcome' = [j \in Jobs |-> IF j \in S THEN "lost" ELSE outcome[j]]
    /\ UNCHANGED <<begun, effects>>

Next ==
    \/ \E j \in Jobs : Begin(j) \/ TakeEffect(j) \/ Succeed(j)
    \/ \E S \in SUBSET Jobs : Lose(S)

Spec == Init /\ [][Next]_vars
=============================================================================
