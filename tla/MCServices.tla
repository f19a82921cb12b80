----------------------------- MODULE MCServices -----------------------------
(* Four components that share no state with each other, in one run: the    *)
(* research state machine, the memory store, the agent runs and the        *)
(* model gateway.  A behaviour steps one of them, chosen at its start, and *)
(* leaves the others where they began.  The memory store is taken twice:   *)
(* its sessions and scopes alone, from a legacy file on, and all of it     *)
(* until something crosses from one lead to another.                       *)
EXTENDS ResearchWorkflow, Memory, AgentRuns, ModelGateway, TLC

CONSTANTS s1, s2, s3, m1, m2,    \* proof steps and methods
          l1, l2, k1,            \* processes and a key of the memory store
          mate1                  \* a teammate

VARIABLE service

(* A chain, a fork, a single step and the plans the validation has to      *)
(* refuse.                                                                 *)
Deps(a, b, c) == (s1 :> a) @@ (s2 :> b) @@ (s3 :> c)

MCPlans ==
    { [steps |-> {s1, s2, s3}, deps |-> Deps({}, {s1}, {s1})],
      [steps |-> {s1, s2}, deps |-> Deps({}, {s1}, {})],
      [steps |-> {s1, s2, s3}, deps |-> Deps({s3}, {s1}, {s2})],
      [steps |-> {s1, s2}, deps |-> Deps({}, {s2}, {})],
      [steps |-> {s1}, deps |-> Deps({s2}, {}, {})],
      [steps |-> {}, deps |-> Deps({}, {}, {})] }

(* Processes and methods are interchangeable.                              *)
MCSymmetry == Permutations(Leads) \cup Permutations(Methods)

MCInit ==
    /\ service \in {"workflow", "scopes", "memory", "agents", "gateway"}
    /\ WfInit /\ MemInit /\ RunsInit /\ GwInit
    /\ legacyText = (service = "scopes")
    /\ service # "gateway" => fallback = FALSE

MCNext ==
    /\ UNCHANGED service
    /\ \/ service = "workflow" /\ WfNext /\ UNCHANGED <<memVars, agentVars, gwVars>>
       \/ /\ \/ service = "scopes" /\ \E p \in Leads : ScopeStep(p)
             \/ service = "memory" /\ ~crossed /\ MemNext
          /\ UNCHANGED <<wfVars, agentVars, gwVars>>
       \/ service = "agents" /\ RunsNext /\ UNCHANGED <<wfVars, memVars, gwVars>>
       \/ service = "gateway" /\ GwNext /\ UNCHANGED <<wfVars, memVars, agentVars>>

MCSpec == MCInit /\ [][MCNext]_<<service, wfVars, memVars, agentVars, gwVars>>

=============================================================================
