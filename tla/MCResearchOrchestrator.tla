---------------------- MODULE MCResearchOrchestrator ----------------------
(* Two methods with a chain of two steps or a single step, so that one can *)
(* be re-planned, revised or left half done while the other goes on.       *)
EXTENDS ResearchOrchestrator, TLC

CONSTANTS s1, s2, w1, m1, m2, t1, t2, t3, t4, t5

MCPlans ==
    { [steps |-> {s1, s2}, deps |-> (s1 :> {}) @@ (s2 :> {s1})],
      [steps |-> {s1}, deps |-> (s1 :> {}) @@ (s2 :> {})] }

(* Task ids are interchangeable, and so are methods.                       *)
Symmetry == Permutations(Tasks) \cup Permutations(Methods)
=============================================================================
