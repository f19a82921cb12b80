-------------------------- MODULE ResearchWorkflow --------------------------
(***************************************************************************)
(* The research state machine of research/workflow.py over the models of   *)
(* research/workflow_models.py: one run, its method attempts, their proof  *)
(* steps, the two review gates and the regulator.                          *)
(*                                                                         *)
(* An operation that raises leaves the run as it was, so only the accepted *)
(* ones are actions.  Goals, notes, sources and the revision counters are  *)
(* left out.                                                               *)
(***************************************************************************)
EXTENDS FiniteSets

CONSTANTS
    Methods,   \* ids a survey may give to method attempts
    Steps,     \* proof step ids
    Plans      \* the decompositions a lead may submit, valid or not

Plan == [steps : SUBSET Steps, deps : [Steps -> SUBSET Steps]]
NoPlan == [steps |-> {}, deps |-> [s \in Steps |-> {}]]

ASSUME PlansAssumption == Plans \subseteq Plan

RunStages == {"literature_survey", "direct_proof", "methods_active",
              "summary", "completed", "failed"}
MethodStages == {"decomposition", "proving", "structural_verify", "detailed_verify",
                 "regulation", "completed", "failed", "abandoned"}
StepStatuses == {"pending", "in_progress", "completed"}
Verdicts == {"done", "continue"}
RegulatorActions == {"revise_proof", "revise_plan", "rewrite"}

VARIABLES
    stage,         \* ResearchRun.stage
    methods,       \* ids in ResearchRun.methods
    selected,      \* ResearchRun.selected_method_ids
    artifact,      \* ResearchRun.final_artifact is set
    mstage,        \* MethodAttempt.stage
    assigned,      \* methods whose teammate is set
    plan,          \* MethodAttempt.steps: the step ids and their depends_on
    step,          \* ProofStep.status
    structural,    \* MethodAttempt.structural_verdict
    detailed,      \* MethodAttempt.detailed_verdict
    revision       \* methods whose revision_pending is set

runVars == <<stage, methods, selected, artifact>>
verdictVars == <<structural, detailed>>
methodVars == <<mstage, assigned, plan, step, structural, detailed, revision>>
wfVars == <<stage, methods, selected, artifact, mstage, assigned, plan, step,
            structural, detailed, revision>>

AllPending == [s \in Steps |-> "pending"]

WfTypeOK ==
    /\ stage \in RunStages
    /\ methods \in SUBSET Methods
    /\ selected \in SUBSET Methods
    /\ artifact \in BOOLEAN
    /\ mstage \in [Methods -> MethodStages]
    /\ assigned \in SUBSET Methods
    /\ plan \in [Methods -> Plan]
    /\ step \in [Methods -> [Steps -> StepStatuses]]
    /\ structural \in [Methods -> Verdicts \cup {"none"}]
    /\ detailed \in [Methods -> Verdicts \cup {"none"}]
    /\ revision \in SUBSET Methods

-----------------------------------------------------------------------------
(* Definitions whose names start with Bug are the definition that follows  *)
(* them with a slip in it; no specification uses them, and the properties  *)
(* are shown to notice each.                                               *)

BugSelfLoopsOnly(p) == \A s \in p.steps : s \notin p.deps[s]

(* The depth-first search of _validate_step_plan accepts exactly the plans *)
(* in which every set of steps has one that waits for none of the others.  *)
Acyclic(p) ==
    \A S \in SUBSET p.steps : S # {} => \E s \in S : p.deps[s] \cap S = {}

ValidPlan(p) ==
    /\ p.steps # {}
    /\ \A s \in p.steps : s \notin p.deps[s] /\ p.deps[s] \subseteq p.steps
    /\ Acyclic(p)

(* MethodAttempt.all_steps_completed                                       *)
AllStepsCompleted(m) ==
    /\ plan[m].steps # {}
    /\ \A s \in plan[m].steps : step[m][s] = "completed"

(* start_step: no incomplete dependency                                    *)
DepsCompleted(m, s) == \A d \in plan[m].deps[s] : step[m][d] = "completed"

(* _method_for_active_run and _require_method_stage                        *)
ActiveMethod(m) == stage = "methods_active" /\ m \in methods
InStage(m, st) == ActiveMethod(m) /\ mstage[m] = st
MoveTo(m, st) == mstage' = [mstage EXCEPT ![m] = st]

-----------------------------------------------------------------------------
(* start_run *)
WfInit ==
    /\ stage = "literature_survey"
    /\ methods = {}
    /\ selected = {}
    /\ artifact = FALSE
    /\ mstage = [m \in Methods |-> "decomposition"]
    /\ assigned = {}
    /\ plan = [m \in Methods |-> NoPlan]
    /\ step = [m \in Methods |-> AllPending]
    /\ structural = [m \in Methods |-> "none"]
    /\ detailed = [m \in Methods |-> "none"]
    /\ revision = {}

(* complete_literature_survey: an easy problem has no methods, any other   *)
(* at least one.                                                           *)
CompleteSurvey(proposals) ==
    /\ stage = "literature_survey"
    /\ methods' = proposals
    /\ stage' = IF proposals = {} THEN "direct_proof" ELSE "methods_active"
    /\ UNCHANGED <<selected, artifact, methodVars>>

FailSurvey ==
    /\ stage = "literature_survey"
    /\ stage' = "failed"
    /\ UNCHANGED <<methods, selected, artifact, methodVars>>

CompleteDirectProof ==
    /\ stage = "direct_proof"
    /\ stage' = "completed"
    /\ artifact' = TRUE
    /\ UNCHANGED <<methods, selected, methodVars>>

AssignTeammate(m) ==
    /\ ActiveMethod(m)
    /\ assigned' = assigned \cup {m}
    /\ UNCHANGED <<runVars, mstage, plan, step, verdictVars, revision>>

SetMethodPlan(m, p) ==
    /\ InStage(m, "decomposition")
    /\ ValidPlan(p)
    /\ plan' = [plan EXCEPT ![m] = p]
    /\ step' = [step EXCEPT ![m] = AllPending]
    /\ MoveTo(m, "proving")
    /\ revision' = revision \ {m}
    /\ structural' = [structural EXCEPT ![m] = "none"]
    /\ detailed' = [detailed EXCEPT ![m] = "none"]
    /\ UNCHANGED <<runVars, assigned>>

CanStart(m, s) ==
    /\ InStage(m, "proving")
    /\ m \in assigned
    /\ m \notin revision
    /\ s \in plan[m].steps
    /\ step[m][s] = "pending"
    /\ DepsCompleted(m, s)

StartStep(m, s) ==
    /\ CanStart(m, s)
    /\ step' = [step EXCEPT ![m][s] = "in_progress"]
    /\ UNCHANGED <<runVars, mstage, assigned, plan, verdictVars, revision>>

CompleteStep(m, s) ==
    /\ InStage(m, "proving")
    /\ s \in plan[m].steps
    /\ step[m][s] = "in_progress"
    /\ step' = [step EXCEPT ![m][s] = "completed"]
    /\ UNCHANGED <<runVars, mstage, assigned, plan, verdictVars, revision>>

BugSubmitsPendingRevision(m) ==
    /\ InStage(m, "proving")
    /\ AllStepsCompleted(m)
    /\ MoveTo(m, "structural_verify")
    /\ UNCHANGED <<runVars, assigned, plan, step, verdictVars, revision>>

SubmitStructural(m) ==
    /\ InStage(m, "proving")
    /\ m \notin revision
    /\ AllStepsCompleted(m)
    /\ MoveTo(m, "structural_verify")
    /\ UNCHANGED <<runVars, assigned, plan, step, verdictVars, revision>>

RecordStructural(m, v) ==
    /\ InStage(m, "structural_verify")
    /\ structural' = [structural EXCEPT ![m] = v]
    /\ MoveTo(m, IF v = "done" THEN "detailed_verify" ELSE "regulation")
    /\ UNCHANGED <<runVars, assigned, plan, step, detailed, revision>>

RecordDetailed(m, v) ==
    /\ InStage(m, "detailed_verify")
    /\ detailed' = [detailed EXCEPT ![m] = v]
    /\ MoveTo(m, IF v = "done" THEN "completed" ELSE "regulation")
    /\ UNCHANGED <<runVars, assigned, plan, step, structural, revision>>

BugKeepsVerdict(m, action) ==
    /\ InStage(m, "regulation")
    /\ detailed' = [detailed EXCEPT ![m] = "none"]
    /\ IF action = "revise_proof"
       THEN /\ revision' = revision \cup {m}
            /\ MoveTo(m, "proving")
            /\ UNCHANGED <<plan, step>>
       ELSE /\ revision' = revision \ {m}
            /\ MoveTo(m, "decomposition")
            /\ plan' = [plan EXCEPT ![m] = NoPlan]
            /\ step' = [step EXCEPT ![m] = AllPending]
    /\ UNCHANGED <<runVars, assigned, structural>>

(* record_regulator_action: both verdicts are void; the proof is revised   *)
(* in place, or the plan is dropped.                                       *)
Regulate(m, action) ==
    /\ InStage(m, "regulation")
    /\ structural' = [structural EXCEPT ![m] = "none"]
    /\ detailed' = [detailed EXCEPT ![m] = "none"]
    /\ IF action = "revise_proof"
       THEN /\ revision' = revision \cup {m}
            /\ MoveTo(m, "proving")
            /\ UNCHANGED <<plan, step>>
       ELSE /\ revision' = revision \ {m}
            /\ MoveTo(m, "decomposition")
            /\ plan' = [plan EXCEPT ![m] = NoPlan]
            /\ step' = [step EXCEPT ![m] = AllPending]
    /\ UNCHANGED <<runVars, assigned>>

CompleteProofRevision(m) ==
    /\ InStage(m, "proving")
    /\ m \in revision
    /\ revision' = revision \ {m}
    /\ MoveTo(m, "structural_verify")
    /\ UNCHANGED <<runVars, assigned, plan, step, verdictVars>>

(* fail_method and abandon_method *)
EndMethod(m, st) ==
    /\ ActiveMethod(m)
    /\ mstage[m] \notin {"completed", "failed", "abandoned"}
    /\ MoveTo(m, st)
    /\ revision' = revision \ {m}
    /\ UNCHANGED <<runVars, assigned, plan, step, verdictVars>>

BeginSummary(S) ==
    /\ stage = "methods_active"
    /\ S # {}
    /\ S \subseteq methods
    /\ \A m \in S : mstage[m] = "completed"
    /\ selected' = S
    /\ stage' = "summary"
    /\ UNCHANGED <<methods, artifact, methodVars>>

CompleteSummary ==
    /\ stage = "summary"
    /\ artifact' = TRUE
    /\ stage' = "completed"
    /\ UNCHANGED <<methods, selected, methodVars>>

MethodStep(m) ==
    \/ AssignTeammate(m)
    \/ \E p \in Plans : SetMethodPlan(m, p)
    \/ \E s \in Steps : StartStep(m, s)
    \/ \E s \in Steps : CompleteStep(m, s)
    \/ SubmitStructural(m)
    \/ \E v \in Verdicts : RecordStructural(m, v)
    \/ \E v \in Verdicts : RecordDetailed(m, v)
    \/ \E a \in RegulatorActions : Regulate(m, a)
    \/ CompleteProofRevision(m)
    \/ EndMethod(m, "failed")
    \/ EndMethod(m, "abandoned")

WfNext ==
    \/ \E S \in SUBSET Methods : CompleteSurvey(S)
    \/ FailSurvey
    \/ CompleteDirectProof
    \/ \E m \in Methods : MethodStep(m)
    \/ \E S \in SUBSET Methods : BeginSummary(S)
    \/ CompleteSummary

WfSpec == WfInit /\ [][WfNext]_wfVars

-----------------------------------------------------------------------------
(* A proof step is worked on, or done, only when the steps it depends on   *)
(* are done, through every start, completion, revision and re-plan.        *)
StepOrder ==
    \A m \in Methods : \A s \in plan[m].steps :
        step[m][s] # "pending" => \A d \in plan[m].deps[s] : step[m][d] = "completed"

(* The reviews only see finished work: while a method is under review, and *)
(* whenever it is completed, it has a plan with all its steps done and no  *)
(* revision outstanding.                                                   *)
ReviewedWorkIsFinished ==
    \A m \in Methods :
        mstage[m] \in {"structural_verify", "detailed_verify", "regulation", "completed"}
            => AllStepsCompleted(m) /\ m \notin revision

(* A result is summarised, and an artifact written where there are         *)
(* methods, only from methods that passed both reviews with no edit since, *)
(* and nothing can reopen them afterwards.                                 *)
SelectedAreVerified ==
    /\ stage = "summary" \/ (artifact /\ methods # {}) => selected # {}
    /\ \A m \in selected :
          /\ mstage[m] = "completed"
          /\ structural[m] = "done" /\ detailed[m] = "done"
          /\ AllStepsCompleted(m)

(* A method being proved never waits on itself: it awaits a revision, all  *)
(* its steps are done, one is being worked on, or one can be started.      *)
ProvingCanProgress ==
    \A m \in Methods : mstage[m] = "proving" =>
        \/ m \in revision
        \/ AllStepsCompleted(m)
        \/ \E s \in plan[m].steps : \/ step[m][s] = "in_progress"
                                    \/ step[m][s] = "pending" /\ DepsCompleted(m, s)

-----------------------------------------------------------------------------
(* The workflow implements the proof gate: the draft of a method is its    *)
(* plan, the status of its steps and whether a revision is outstanding.    *)
GateApprovals(m) ==
    {r \in {"structural", "detailed"} :
        \/ r = "structural" /\ structural[m] = "done"
        \/ r = "detailed" /\ detailed[m] = "done"}

Gate == INSTANCE ProofGate WITH
    draft <- [m \in Methods |-> <<plan[m], step[m], m \in revision>>],
    approvals <- [m \in Methods |-> GateApprovals(m)],
    accepted <- {m \in Methods : mstage[m] = "completed"},
    published <- selected

(* Every step of the workflow is a step of the gate or leaves it alone.    *)
GateSpec == Gate!Spec
=============================================================================
