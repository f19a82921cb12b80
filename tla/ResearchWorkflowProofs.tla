----------------------- MODULE ResearchWorkflowProofs -----------------------
(***************************************************************************)
(* Proofs about the research state machine and about the orchestrator that *)
(* drives it, for any sets of methods, steps, submitted plans, tasks and   *)
(* provers.                                                                *)
(***************************************************************************)
EXTENDS ResearchOrchestrator, TLAPS

InReview == {"structural_verify", "detailed_verify", "regulation", "completed"}

(* The inductive invariant of one method attempt: a plan in force is valid *)
(* and its steps are worked on in order; work under review or revision is  *)
(* finished; and the verdicts say exactly how far the review has come.     *)
MethodInv(m) ==
    /\ plan[m].steps # {} => ValidPlan(plan[m])
    /\ mstage[m] = "proving" => plan[m].steps # {}
    /\ \A s \in plan[m].steps : step[m][s] # "pending" => DepsCompleted(m, s)
    /\ m \in revision => mstage[m] = "proving" /\ AllStepsCompleted(m)
    /\ mstage[m] \in InReview => AllStepsCompleted(m)
    /\ mstage[m] \in {"decomposition", "proving", "structural_verify"} =>
           structural[m] = "none" /\ detailed[m] = "none"
    /\ mstage[m] = "detailed_verify" => structural[m] = "done" /\ detailed[m] = "none"
    /\ mstage[m] = "completed" => structural[m] = "done" /\ detailed[m] = "done"

(* The inductive invariant of the run around them.                         *)
RunInv ==
    /\ stage = "methods_active" => selected = {}
    /\ stage = "literature_survey" => selected = {} /\ methods = {}
    /\ stage = "direct_proof" => methods = {}
    /\ stage = "summary" => selected # {}
    /\ artifact => stage = "completed"
    /\ artifact /\ methods # {} => selected # {}
    /\ \A m \in selected : mstage[m] = "completed"

WfInv ==
    /\ WfTypeOK
    /\ \A m \in Methods : MethodInv(m)
    /\ RunInv

-----------------------------------------------------------------------------
LEMMA EmptyWellTyped == NoPlan \in Plan /\ AllPending \in [Steps -> StepStatuses]
  BY DEF NoPlan, Plan, AllPending, StepStatuses

LEMMA WfTypeInit == WfInit => WfTypeOK
<1> SUFFICES ASSUME WfInit PROVE WfTypeOK
  OBVIOUS
<1>1. plan \in [Methods -> Plan] /\ step \in [Methods -> [Steps -> StepStatuses]]
  BY EmptyWellTyped DEF WfInit
<1>2. /\ mstage \in [Methods -> MethodStages]
      /\ structural \in [Methods -> Verdicts \cup {"none"}]
      /\ detailed \in [Methods -> Verdicts \cup {"none"}]
  BY DEF WfInit, MethodStages
<1>3. QED
  BY <1>1, <1>2 DEF WfInit, WfTypeOK, RunStages

LEMMA WfTypeStep == WfTypeOK /\ [WfNext]_wfVars => WfTypeOK'
<1> SUFFICES ASSUME WfTypeOK, [WfNext]_wfVars
             PROVE  WfTypeOK'
  OBVIOUS
<1> USE DEF WfTypeOK, runVars, verdictVars, methodVars
<1>1. CASE UNCHANGED wfVars
  BY <1>1 DEF wfVars
<1>2. ASSUME NEW S \in SUBSET Methods, CompleteSurvey(S) PROVE WfTypeOK'
  BY <1>2 DEF CompleteSurvey, RunStages
<1>3. CASE FailSurvey \/ CompleteDirectProof \/ CompleteSummary
  BY <1>3 DEF FailSurvey, CompleteDirectProof, CompleteSummary, RunStages
<1>4. ASSUME NEW S \in SUBSET Methods, BeginSummary(S) PROVE WfTypeOK'
  BY <1>4 DEF BeginSummary, RunStages
<1>5. ASSUME NEW m \in Methods, MethodStep(m) PROVE WfTypeOK'
  <2>1. CASE AssignTeammate(m)
    BY <2>1 DEF AssignTeammate
  <2>2. ASSUME NEW p \in Plans, SetMethodPlan(m, p) PROVE WfTypeOK'
    BY <2>2, PlansAssumption, EmptyWellTyped DEF SetMethodPlan, MoveTo, MethodStages
  <2>3. ASSUME NEW s \in Steps, StartStep(m, s) \/ CompleteStep(m, s) PROVE WfTypeOK'
    <3>1. PICK v \in {"in_progress", "completed"} : step' = [step EXCEPT ![m][s] = v]
      BY <2>3 DEF StartStep, CompleteStep
    <3>2. [step[m] EXCEPT ![s] = v] \in [Steps -> StepStatuses]
      BY DEF StepStatuses
    <3>3. step' \in [Methods -> [Steps -> StepStatuses]]
      BY <3>1, <3>2
    <3>4. QED
      BY <2>3, <3>3 DEF StartStep, CompleteStep
  <2>4. CASE SubmitStructural(m) \/ CompleteProofRevision(m)
    BY <2>4 DEF SubmitStructural, CompleteProofRevision, MoveTo, MethodStages
  <2>5. ASSUME NEW v \in Verdicts, RecordStructural(m, v) \/ RecordDetailed(m, v)
        PROVE WfTypeOK'
    BY <2>5 DEF RecordStructural, RecordDetailed, MoveTo, MethodStages
  <2>6. ASSUME NEW a \in RegulatorActions, Regulate(m, a) PROVE WfTypeOK'
    <3>1. CASE a = "revise_proof"
      BY <2>6, <3>1 DEF Regulate, MoveTo, MethodStages
    <3>2. CASE a # "revise_proof"
      <4>1. plan' \in [Methods -> Plan] /\ step' \in [Methods -> [Steps -> StepStatuses]]
        BY <2>6, <3>2, EmptyWellTyped DEF Regulate
      <4>2. QED
        BY <2>6, <3>2, <4>1 DEF Regulate, MoveTo, MethodStages
    <3>3. QED
      BY <3>1, <3>2
  <2>7. CASE EndMethod(m, "failed") \/ EndMethod(m, "abandoned")
    BY <2>7 DEF EndMethod, MoveTo, MethodStages
  <2>8. QED
    BY <1>5, <2>1, <2>2, <2>3, <2>4, <2>5, <2>6, <2>7 DEF MethodStep
<1>6. QED
  BY <1>1, <1>2, <1>3, <1>4, <1>5 DEF WfNext

-----------------------------------------------------------------------------
(* A method whose own fields a step leaves alone keeps its invariant.      *)
Same(m) ==
    /\ mstage'[m] = mstage[m] /\ plan'[m] = plan[m] /\ step'[m] = step[m]
    /\ structural'[m] = structural[m] /\ detailed'[m] = detailed[m]
    /\ (m \in revision') = (m \in revision)

LEMMA SameKeeps ==
    ASSUME NEW m \in Methods, MethodInv(m), Same(m)
    PROVE  MethodInv(m)'
  BY DEF MethodInv, Same, AllStepsCompleted, DepsCompleted, ValidPlan, Acyclic, InReview

(* A step of a method keeps that method's invariant; for the others see    *)
(* OnlyOneMethodMoves and SameKeeps.                                       *)
LEMMA MethodStepKeeps ==
    ASSUME WfTypeOK, NEW m \in Methods, MethodInv(m), MethodStep(m)
    PROVE  MethodInv(m)'
<1> USE DEF WfTypeOK, ActiveMethod, InStage, verdictVars, runVars
<1>1. CASE AssignTeammate(m)
  <2>1. Same(m)
    BY <1>1 DEF AssignTeammate, Same
  <2>2. QED
    BY <2>1, SameKeeps
<1>2. ASSUME NEW p \in Plans, SetMethodPlan(m, p) PROVE MethodInv(m)'
  <2>1. /\ ValidPlan(p) /\ plan'[m] = p /\ step'[m] = AllPending /\ mstage'[m] = "proving"
        /\ m \notin revision' /\ structural'[m] = "none" /\ detailed'[m] = "none"
    BY <1>2 DEF SetMethodPlan, MoveTo
  <2>2. p \in Plan
    BY PlansAssumption
  <2>3. \A s \in p.steps : AllPending[s] = "pending"
    BY <2>2 DEF Plan, AllPending
  <2>4. p.steps # {}
    BY <2>1 DEF ValidPlan
  <2>5. ValidPlan(plan[m])'
    BY <2>1 DEF ValidPlan, Acyclic
  <2>6. QED
    BY <2>1, <2>3, <2>4, <2>5 DEF MethodInv, InReview
<1>3. ASSUME NEW s \in Steps, StartStep(m, s) PROVE MethodInv(m)'
  <2>1. /\ mstage[m] = "proving" /\ m \notin revision /\ s \in plan[m].steps
        /\ step[m][s] = "pending" /\ DepsCompleted(m, s)
    BY <1>3 DEF StartStep, CanStart
  <2>2. /\ plan' = plan /\ mstage' = mstage /\ revision' = revision
        /\ structural' = structural /\ detailed' = detailed
        /\ step'[m] = [step[m] EXCEPT ![s] = "in_progress"]
    BY <1>3 DEF StartStep
  <2>3. ValidPlan(plan[m]) /\ ValidPlan(plan[m])'
    BY <2>1, <2>2 DEF MethodInv, ValidPlan, Acyclic
  <2>a. plan[m].steps \subseteq Steps /\ \A t \in plan[m].steps : plan[m].deps[t] \subseteq Steps
    BY DEF Plan
  <2>4. ASSUME NEW t \in plan[m].steps, step'[m][t] # "pending"
        PROVE  DepsCompleted(m, t)'
    <3>1. DepsCompleted(m, t)
      BY <2>1, <2>2, <2>4, <2>a DEF MethodInv
    <3>2. QED
      BY <3>1, <2>1, <2>2, <2>a DEF DepsCompleted
  <2>5. QED
    BY <2>1, <2>2, <2>3, <2>4 DEF MethodInv, InReview
<1>4. ASSUME NEW s \in Steps, CompleteStep(m, s) PROVE MethodInv(m)'
  <2>1. mstage[m] = "proving" /\ s \in plan[m].steps /\ step[m][s] = "in_progress"
    BY <1>4 DEF CompleteStep
  <2>2. /\ plan' = plan /\ mstage' = mstage /\ revision' = revision
        /\ structural' = structural /\ detailed' = detailed
        /\ step'[m] = [step[m] EXCEPT ![s] = "completed"]
    BY <1>4 DEF CompleteStep
  <2>3. ValidPlan(plan[m])'
    BY <2>1, <2>2 DEF MethodInv, ValidPlan, Acyclic
  <2>a. plan[m].steps \subseteq Steps /\ \A t \in plan[m].steps : plan[m].deps[t] \subseteq Steps
    BY DEF Plan
  <2>4. ASSUME NEW t \in plan[m].steps, step'[m][t] # "pending"
        PROVE  DepsCompleted(m, t)'
    <3>1. DepsCompleted(m, t)
      BY <2>1, <2>2, <2>4, <2>a DEF MethodInv
    <3>2. QED
      BY <3>1, <2>2, <2>a DEF DepsCompleted
  <2>5. m \in revision => AllStepsCompleted(m)'
    BY <2>1, <2>2 DEF MethodInv, AllStepsCompleted
  <2>6. QED
    BY <2>1, <2>2, <2>3, <2>4, <2>5 DEF MethodInv, InReview
<1>5. CASE SubmitStructural(m)
  <2>1. /\ mstage[m] = "proving" /\ AllStepsCompleted(m) /\ m \notin revision'
        /\ mstage'[m] = "structural_verify" /\ plan' = plan /\ step' = step
        /\ structural' = structural /\ detailed' = detailed
    BY <1>5 DEF SubmitStructural, MoveTo
  <2>2. AllStepsCompleted(m)' /\ (\A s \in plan[m].steps : DepsCompleted(m, s) => DepsCompleted(m, s)')
    BY <2>1 DEF AllStepsCompleted, DepsCompleted
  <2>3. ValidPlan(plan[m])'
    BY <2>1 DEF MethodInv, ValidPlan, Acyclic
  <2>4. QED
    BY <2>1, <2>2, <2>3 DEF MethodInv, InReview
<1>6. ASSUME NEW v \in Verdicts, RecordStructural(m, v) \/ RecordDetailed(m, v)
      PROVE MethodInv(m)'
  <2>1. /\ mstage[m] \in {"structural_verify", "detailed_verify"}
        /\ plan' = plan /\ step' = step /\ revision' = revision
        /\ mstage'[m] \in {"detailed_verify", "completed", "regulation"}
    BY <1>6 DEF RecordStructural, RecordDetailed, MoveTo
  <2>2. AllStepsCompleted(m)' /\ (\A s \in plan[m].steps : DepsCompleted(m, s) => DepsCompleted(m, s)')
    BY <2>1 DEF MethodInv, InReview, AllStepsCompleted, DepsCompleted
  <2>3. plan[m].steps # {} => ValidPlan(plan[m])'
    BY <2>1 DEF MethodInv, ValidPlan, Acyclic
  <2>4. m \notin revision
    BY <2>1 DEF MethodInv
  <2>5. /\ mstage'[m] = "detailed_verify" => structural'[m] = "done" /\ detailed'[m] = "none"
        /\ mstage'[m] = "completed" => structural'[m] = "done" /\ detailed'[m] = "done"
    BY <1>6 DEF RecordStructural, RecordDetailed, MoveTo, MethodInv
  <2>6. QED
    BY <2>1, <2>2, <2>3, <2>4, <2>5 DEF MethodInv, InReview
<1>7. ASSUME NEW a \in RegulatorActions, Regulate(m, a) PROVE MethodInv(m)'
  <2>1. mstage[m] = "regulation" /\ AllStepsCompleted(m)
    BY <1>7 DEF Regulate, MethodInv, InReview
  <2>2. structural'[m] = "none" /\ detailed'[m] = "none"
    BY <1>7 DEF Regulate
  <2>3. CASE a = "revise_proof"
    <3>1. mstage'[m] = "proving" /\ plan' = plan /\ step' = step
      BY <1>7, <2>3 DEF Regulate, MoveTo
    <3>2. AllStepsCompleted(m)' /\ (\A s \in plan[m].steps : DepsCompleted(m, s) => DepsCompleted(m, s)')
      BY <2>1, <3>1 DEF AllStepsCompleted, DepsCompleted
    <3>3. ValidPlan(plan[m])' /\ plan[m].steps # {}
      BY <2>1, <3>1 DEF MethodInv, ValidPlan, Acyclic, AllStepsCompleted
    <3>4. QED
      BY <2>2, <3>1, <3>2, <3>3 DEF MethodInv, InReview
  <2>4. CASE a # "revise_proof"
    <3>1. mstage'[m] = "decomposition" /\ plan'[m] = NoPlan /\ m \notin revision'
      BY <1>7, <2>4 DEF Regulate, MoveTo
    <3>2. plan'[m].steps = {}
      BY <3>1 DEF NoPlan
    <3>3. QED
      BY <2>2, <3>1, <3>2 DEF MethodInv, InReview
  <2>5. QED
    BY <2>3, <2>4
<1>8. CASE CompleteProofRevision(m)
  <2>1. /\ mstage[m] = "proving" /\ m \in revision /\ m \notin revision'
        /\ mstage'[m] = "structural_verify" /\ plan' = plan /\ step' = step
        /\ structural' = structural /\ detailed' = detailed
    BY <1>8 DEF CompleteProofRevision, MoveTo
  <2>2. AllStepsCompleted(m)' /\ (\A s \in plan[m].steps : DepsCompleted(m, s) => DepsCompleted(m, s)')
    BY <2>1 DEF MethodInv, AllStepsCompleted, DepsCompleted
  <2>3. ValidPlan(plan[m])'
    BY <2>1 DEF MethodInv, ValidPlan, Acyclic
  <2>4. QED
    BY <2>1, <2>2, <2>3 DEF MethodInv, InReview
<1>9. ASSUME NEW st \in {"failed", "abandoned"}, EndMethod(m, st) PROVE MethodInv(m)'
  <2>1. mstage'[m] = st /\ plan' = plan /\ step' = step /\ m \notin revision'
    BY <1>9 DEF EndMethod, MoveTo
  <2>2. \A s \in plan[m].steps : DepsCompleted(m, s) => DepsCompleted(m, s)'
    BY <2>1 DEF DepsCompleted
  <2>3. plan[m].steps # {} => ValidPlan(plan[m])'
    BY <2>1 DEF MethodInv, ValidPlan, Acyclic
  <2>4. QED
    BY <2>1, <2>2, <2>3 DEF MethodInv, InReview
<1>10. QED
  BY <1>1, <1>2, <1>3, <1>4, <1>5, <1>6, <1>7, <1>8, <1>9 DEF MethodStep

(* A step of one method leaves the fields of all others, and the run, as   *)
(* they were; it happens while the methods are active, and not to a method *)
(* that is completed unless it is the assignment of a teammate.            *)
LEMMA OnlyOneMethodMoves ==
    ASSUME WfTypeOK, NEW m \in Methods, MethodStep(m)
    PROVE  /\ \A n \in Methods \ {m} : Same(n)
           /\ UNCHANGED runVars
           /\ stage = "methods_active"
           /\ mstage[m] = "completed" => Same(m)
<1> USE DEF WfTypeOK, Same, ActiveMethod, InStage, MoveTo, runVars, verdictVars
<1>1. CASE AssignTeammate(m)
  BY <1>1 DEF AssignTeammate
<1>2. ASSUME NEW p \in Plans, SetMethodPlan(m, p)
      PROVE  (\A n \in Methods \ {m} : Same(n)) /\ UNCHANGED runVars
             /\ stage = "methods_active" /\ mstage[m] # "completed"
  BY <1>2 DEF SetMethodPlan
<1>3. ASSUME NEW s \in Steps, StartStep(m, s) \/ CompleteStep(m, s)
      PROVE  (\A n \in Methods \ {m} : Same(n)) /\ UNCHANGED runVars
             /\ stage = "methods_active" /\ mstage[m] # "completed"
  BY <1>3 DEF StartStep, CompleteStep, CanStart
<1>4. CASE SubmitStructural(m) \/ CompleteProofRevision(m)
  BY <1>4 DEF SubmitStructural, CompleteProofRevision
<1>5. ASSUME NEW v \in Verdicts, RecordStructural(m, v) \/ RecordDetailed(m, v)
      PROVE  (\A n \in Methods \ {m} : Same(n)) /\ UNCHANGED runVars
             /\ stage = "methods_active" /\ mstage[m] # "completed"
  BY <1>5 DEF RecordStructural, RecordDetailed
<1>6. ASSUME NEW a \in RegulatorActions, Regulate(m, a)
      PROVE  (\A n \in Methods \ {m} : Same(n)) /\ UNCHANGED runVars
             /\ stage = "methods_active" /\ mstage[m] # "completed"
  <2>1. CASE a = "revise_proof"
    BY <1>6, <2>1 DEF Regulate
  <2>2. CASE a # "revise_proof"
    BY <1>6, <2>2 DEF Regulate
  <2>3. QED
    BY <2>1, <2>2
<1>7. CASE EndMethod(m, "failed") \/ EndMethod(m, "abandoned")
  BY <1>7 DEF EndMethod
<1>8. QED
  BY <1>1, <1>2, <1>3, <1>4, <1>5, <1>6, <1>7 DEF MethodStep

-----------------------------------------------------------------------------
LEMMA WfInvInit == WfInit => WfInv
<1> SUFFICES ASSUME WfInit PROVE WfInv
  OBVIOUS
<1>1. \A m \in Methods : plan[m].steps = {}
  BY DEF WfInit, NoPlan
<1>2. QED
  BY <1>1, WfTypeInit DEF WfInit, WfInv, RunInv, MethodInv, InReview

LEMMA WfInvStep == WfInv /\ [WfNext]_wfVars => WfInv'
<1> SUFFICES ASSUME WfInv, [WfNext]_wfVars
             PROVE  WfInv'
  OBVIOUS
<1>0. WfTypeOK /\ WfTypeOK' /\ RunInv /\ \A m \in Methods : MethodInv(m)
  BY WfTypeStep DEF WfInv
<1>1. CASE UNCHANGED wfVars
  <2>1. (\A m \in Methods : Same(m)) /\ RunInv'
    BY <1>1, <1>0 DEF wfVars, Same, RunInv
  <2>2. QED
    BY <1>0, <2>1, SameKeeps DEF WfInv
<1>2. CASE \E S \in SUBSET Methods : CompleteSurvey(S)
  <2>1. (\A m \in Methods : Same(m)) /\ RunInv'
    BY <1>2, <1>0 DEF CompleteSurvey, methodVars, Same, RunInv
  <2>2. QED
    BY <1>0, <2>1, SameKeeps DEF WfInv
<1>3. CASE FailSurvey \/ CompleteDirectProof \/ CompleteSummary
  <2>1. (\A m \in Methods : Same(m)) /\ RunInv'
    BY <1>3, <1>0 DEF FailSurvey, CompleteDirectProof, CompleteSummary, methodVars, Same, RunInv
  <2>2. QED
    BY <1>0, <2>1, SameKeeps DEF WfInv
<1>4. CASE \E S \in SUBSET Methods : BeginSummary(S)
  <2>1. (\A m \in Methods : Same(m)) /\ RunInv'
    BY <1>4, <1>0 DEF BeginSummary, methodVars, Same, RunInv
  <2>2. QED
    BY <1>0, <2>1, SameKeeps DEF WfInv
<1>5. ASSUME NEW m \in Methods, MethodStep(m) PROVE WfInv'
  <2>1. MethodInv(m)'
    BY <1>0, <1>5, MethodStepKeeps
  <2>2. \A n \in Methods \ {m} : MethodInv(n)'
    BY <1>0, <1>5, OnlyOneMethodMoves, SameKeeps
  <2>3. RunInv'
    <3>1. selected = {} /\ stage = "methods_active" /\ UNCHANGED runVars
      BY <1>0, <1>5, OnlyOneMethodMoves DEF RunInv
    <3>2. QED
      BY <1>0, <3>1 DEF RunInv, runVars
  <2>4. QED
    BY <1>0, <2>1, <2>2, <2>3 DEF WfInv
<1>6. QED
  BY <1>1, <1>2, <1>3, <1>4, <1>5 DEF WfNext

(* The run and all its methods satisfy the inductive invariant.            *)
THEOREM WorkflowInvariant == WfSpec => []WfInv
  BY WfInvInit, WfInvStep, PTL DEF WfSpec

-----------------------------------------------------------------------------
(* What the invariant says of the run as it stands.                        *)
LEMMA WfInvMeans ==
    WfInv => StepOrder /\ ReviewedWorkIsFinished /\ SelectedAreVerified /\ ProvingCanProgress
<1>1. WfInv => StepOrder
  BY DEF WfInv, MethodInv, StepOrder, DepsCompleted
<1>2. WfInv => ReviewedWorkIsFinished
  BY DEF WfInv, MethodInv, ReviewedWorkIsFinished, InReview
<1>3. WfInv => SelectedAreVerified
  BY DEF WfInv, WfTypeOK, MethodInv, RunInv, SelectedAreVerified, InReview
<1>4. WfInv => ProvingCanProgress
  <2> SUFFICES ASSUME WfInv, NEW m \in Methods, mstage[m] = "proving",
                      m \notin revision, ~AllStepsCompleted(m)
               PROVE  \E s \in plan[m].steps :
                          \/ step[m][s] = "in_progress"
                          \/ step[m][s] = "pending" /\ DepsCompleted(m, s)
    BY DEF ProvingCanProgress
  <2> DEFINE open == {s \in plan[m].steps : step[m][s] # "completed"}
  <2>1. plan[m].steps # {} /\ ValidPlan(plan[m])
    BY DEF WfInv, MethodInv
  <2>2. open # {} /\ open \in SUBSET plan[m].steps
    BY <2>1 DEF AllStepsCompleted
  <2>3. PICK s \in open : plan[m].deps[s] \cap open = {}
    BY <2>1, <2>2 DEF ValidPlan, Acyclic
  <2>4. DepsCompleted(m, s)
    BY <2>1, <2>3 DEF ValidPlan, DepsCompleted
  <2>5. step[m][s] \in StepStatuses
    BY <2>3 DEF WfInv, WfTypeOK, Plan
  <2>6. QED
    BY <2>3, <2>4, <2>5 DEF StepStatuses
<1>5. QED
  BY <1>1, <1>2, <1>3, <1>4

(* Proof steps are worked on in dependency order in every run.             *)
THEOREM StepsInOrder == WfSpec => []StepOrder
  BY WfInvMeans, WorkflowInvariant, PTL

(* Reviewers only ever see finished work.                                  *)
THEOREM ReviewsSeeFinishedWork == WfSpec => []ReviewedWorkIsFinished
  BY WfInvMeans, WorkflowInvariant, PTL

(* Whatever the regulator and the reviewers do, a summary rests on methods *)
(* that passed both reviews as they stand.                                 *)
THEOREM SummaryIsVerified == WfSpec => []SelectedAreVerified
  BY WfInvMeans, WorkflowInvariant, PTL

(* The plan validation rules out self-blocked methods: a method in proving *)
(* always has a step to work on, finished work to submit or a revision to  *)
(* wait for.                                                               *)
THEOREM NoSelfBlockedMethod == WfSpec => []ProvingCanProgress
  BY WfInvMeans, WorkflowInvariant, PTL

-----------------------------------------------------------------------------
(* The refinement: what each kind of step looks like at the gate.          *)
LEMMA GateStart == WfInit => Gate!Init
<1> SUFFICES ASSUME WfInit PROVE Gate!Init
  OBVIOUS
<1>1. \A m \in Methods : GateApprovals(m) = {}
  BY DEF WfInit, GateApprovals
<1>2. {m \in Methods : mstage[m] = "completed"} = {}
  BY DEF WfInit
<1>3. QED
  BY <1>1, <1>2 DEF WfInit, Gate!Init

(* Nothing a reader of the gate can see.                                   *)
GateSame ==
    /\ \A m \in Methods : /\ plan'[m] = plan[m] /\ step'[m] = step[m]
                          /\ (m \in revision') = (m \in revision)
                          /\ GateApprovals(m)' = GateApprovals(m)
                          /\ (mstage'[m] = "completed") = (mstage[m] = "completed")
    /\ selected' = selected

LEMMA GateStutter == ASSUME GateSame PROVE UNCHANGED Gate!vars
  BY DEF GateSame, Gate!vars

LEMMA SameAtGate ==
    ASSUME NEW m \in Methods, Same(m)
    PROVE  /\ plan'[m] = plan[m] /\ step'[m] = step[m]
           /\ (m \in revision') = (m \in revision)
           /\ GateApprovals(m)' = GateApprovals(m)
           /\ (mstage'[m] = "completed") = (mstage[m] = "completed")
  BY DEF Same, GateApprovals

(* A step that voids the approvals of an unfinished method is an edit.     *)
LEMMA GateEdit ==
    ASSUME NEW m \in Methods, mstage[m] # "completed", mstage'[m] # "completed",
           \A n \in Methods \ {m} : Same(n),
           selected = {}, selected' = selected, GateApprovals(m)' = {}
    PROVE  Gate!Edit(m)
<1>1. \A n \in Methods \ {m} :
          /\ plan'[n] = plan[n] /\ step'[n] = step[n]
          /\ (n \in revision') = (n \in revision)
          /\ GateApprovals(n)' = GateApprovals(n)
          /\ (mstage'[n] = "completed") = (mstage[n] = "completed")
  BY SameAtGate
<1>2. {n \in Methods : mstage[n] = "completed"}' = {n \in Methods : mstage[n] = "completed"}
  BY <1>1
<1>3. QED
  BY <1>1, <1>2 DEF Gate!Edit, Gate!OthersKeep

LEMMA GateMethodStep ==
    ASSUME WfInv, WfInv', NEW m \in Methods, MethodStep(m)
    PROVE  [Gate!Next]_(Gate!vars)
<1>1. WfTypeOK /\ MethodInv(m) /\ RunInv /\ MethodInv(m)'
  BY DEF WfInv
<1>2. /\ \A n \in Methods \ {m} : Same(n)
      /\ selected = {} /\ selected' = selected
      /\ stage = "methods_active"
      /\ mstage[m] = "completed" => Same(m)
  BY <1>1, OnlyOneMethodMoves DEF RunInv, runVars
<1>3. \A n \in Methods \ {m} :
          /\ plan'[n] = plan[n] /\ step'[n] = step[n]
          /\ (n \in revision') = (n \in revision)
          /\ GateApprovals(n)' = GateApprovals(n)
          /\ (mstage'[n] = "completed") = (mstage[n] = "completed")
  BY <1>2, SameAtGate
<1> USE DEF ActiveMethod, InStage, MoveTo
<1>4. CASE Same(m)
  <2>1. GateSame
    BY <1>2, <1>4, SameAtGate DEF GateSame
  <2>2. QED
    BY <2>1, GateStutter
<1>5. CASE /\ mstage[m] # "completed" /\ mstage'[m] # "completed"
           /\ GateApprovals(m)' = {}
  <2>1. Gate!Edit(m)
    BY <1>2, <1>5, GateEdit
  <2>2. QED
    BY <2>1 DEF Gate!Next
<1>6. CASE /\ mstage[m] # "completed" /\ mstage'[m] # "completed"
           /\ plan'[m] = plan[m] /\ step'[m] = step[m]
           /\ (m \in revision') = (m \in revision)
           /\ GateApprovals(m)' = GateApprovals(m)
  <2>1. GateSame
    BY <1>2, <1>3, <1>6 DEF GateSame
  <2>2. QED
    BY <2>1, GateStutter
<1>7. CASE AssignTeammate(m)
  BY <1>4, <1>7 DEF AssignTeammate, Same, verdictVars, runVars
<1>8. ASSUME NEW p \in Plans, SetMethodPlan(m, p) PROVE [Gate!Next]_(Gate!vars)
  <2>1. /\ mstage[m] = "decomposition" /\ mstage'[m] = "proving"
        /\ structural'[m] = "none" /\ detailed'[m] = "none"
    BY <1>1, <1>8 DEF SetMethodPlan, WfTypeOK
  <2>2. GateApprovals(m)' = {}
    BY <2>1 DEF GateApprovals
  <2>3. QED
    BY <1>5, <2>1, <2>2
<1>9. ASSUME NEW s \in Steps, StartStep(m, s) \/ CompleteStep(m, s)
      PROVE  [Gate!Next]_(Gate!vars)
  <2>1. /\ mstage[m] = "proving" /\ mstage'[m] = "proving"
        /\ structural'[m] = "none" /\ detailed'[m] = "none"
    BY <1>1, <1>9 DEF StartStep, CompleteStep, CanStart, MethodInv, verdictVars
  <2>2. GateApprovals(m)' = {}
    BY <2>1 DEF GateApprovals
  <2>3. QED
    BY <1>5, <2>1, <2>2
<1>10. CASE SubmitStructural(m) \/ CompleteProofRevision(m)
  <2>1. /\ mstage[m] = "proving" /\ mstage'[m] = "structural_verify"
    BY <1>1, <1>10 DEF SubmitStructural, CompleteProofRevision, WfTypeOK
  <2>2. structural'[m] = "none" /\ detailed'[m] = "none"
    BY <1>1, <2>1 DEF MethodInv
  <2>3. GateApprovals(m)' = {}
    BY <2>2 DEF GateApprovals
  <2>4. QED
    BY <1>5, <2>1, <2>3
<1>11. ASSUME NEW v \in Verdicts, RecordStructural(m, v) PROVE [Gate!Next]_(Gate!vars)
  <2>1. /\ mstage[m] = "structural_verify" /\ structural[m] = "none" /\ detailed[m] = "none"
        /\ plan' = plan /\ step' = step /\ revision' = revision
        /\ structural'[m] = v /\ detailed'[m] = "none"
    BY <1>1, <1>11 DEF RecordStructural, MethodInv, WfTypeOK
  <2>2. GateApprovals(m) = {}
    BY <2>1 DEF GateApprovals
  <2>3. CASE v = "continue"
    <3>1. GateApprovals(m)' = {} /\ mstage'[m] # "completed"
      BY <1>1, <2>1, <2>3, <1>11 DEF GateApprovals, RecordStructural, WfTypeOK
    <3>2. QED
      BY <1>5, <2>1, <3>1
  <2>4. CASE v = "done"
    <3>1. GateApprovals(m)' = {"structural"} /\ mstage'[m] = "detailed_verify"
      BY <1>1, <2>1, <2>4, <1>11 DEF GateApprovals, RecordStructural, WfTypeOK
    <3>2. {n \in Methods : mstage[n] = "completed"}' = {n \in Methods : mstage[n] = "completed"}
      BY <1>3, <2>1, <3>1
    <3>3. Gate!ApproveStructure(m)
      BY <1>2, <1>3, <2>1, <2>2, <3>1, <3>2 DEF Gate!ApproveStructure, Gate!OthersKeep
    <3>4. QED
      BY <3>3 DEF Gate!Next
  <2>5. QED
    BY <2>3, <2>4 DEF Verdicts
<1>12. ASSUME NEW v \in Verdicts, RecordDetailed(m, v) PROVE [Gate!Next]_(Gate!vars)
  <2>1. /\ mstage[m] = "detailed_verify" /\ structural[m] = "done" /\ detailed[m] = "none"
        /\ plan' = plan /\ step' = step /\ revision' = revision
        /\ structural'[m] = "done" /\ detailed'[m] = v
    BY <1>1, <1>12 DEF RecordDetailed, MethodInv, WfTypeOK
  <2>2. GateApprovals(m) = {"structural"}
    BY <2>1 DEF GateApprovals
  <2>3. CASE v = "continue"
    <3>1. GateApprovals(m)' = {"structural"} /\ mstage'[m] # "completed"
      BY <1>1, <2>1, <2>3, <1>12 DEF GateApprovals, RecordDetailed, WfTypeOK
    <3>2. QED
      BY <1>6, <2>1, <2>2, <3>1
  <2>4. CASE v = "done"
    <3>1. GateApprovals(m)' = {"structural", "detailed"} /\ mstage'[m] = "completed"
      BY <1>1, <2>1, <2>4, <1>12 DEF GateApprovals, RecordDetailed, WfTypeOK
    <3>2. {n \in Methods : mstage[n] = "completed"}'
              = {n \in Methods : mstage[n] = "completed"} \cup {m}
      BY <1>3, <2>1, <3>1
    <3>3. Gate!ApproveDetails(m)
      BY <1>2, <1>3, <2>1, <2>2, <3>1, <3>2
         DEF Gate!ApproveDetails, Gate!OthersKeep, Gate!Reviews
    <3>4. QED
      BY <3>3 DEF Gate!Next
  <2>5. QED
    BY <2>3, <2>4 DEF Verdicts
<1>13. ASSUME NEW a \in RegulatorActions, Regulate(m, a) PROVE [Gate!Next]_(Gate!vars)
  <2>1. /\ mstage[m] = "regulation" /\ mstage'[m] # "completed"
        /\ structural'[m] = "none" /\ detailed'[m] = "none"
    BY <1>1, <1>13 DEF Regulate, WfTypeOK
  <2>2. GateApprovals(m)' = {}
    BY <2>1 DEF GateApprovals
  <2>3. QED
    BY <1>5, <2>1, <2>2
<1>14. ASSUME NEW st \in {"failed", "abandoned"}, EndMethod(m, st)
       PROVE  [Gate!Next]_(Gate!vars)
  <2>1. /\ mstage[m] # "completed" /\ mstage'[m] # "completed"
        /\ plan' = plan /\ step' = step /\ m \notin revision'
        /\ structural' = structural /\ detailed' = detailed
    BY <1>1, <1>14 DEF EndMethod, WfTypeOK, verdictVars
  <2>2. GateApprovals(m)' = GateApprovals(m)
    BY <2>1 DEF GateApprovals
  <2>3. CASE m \in revision
    <3>1. structural[m] = "none" /\ detailed[m] = "none"
      BY <1>1, <2>3 DEF MethodInv
    <3>2. GateApprovals(m)' = {}
      BY <2>2, <3>1 DEF GateApprovals
    <3>3. QED
      BY <1>5, <2>1, <3>2
  <2>4. CASE m \notin revision
    BY <1>6, <2>1, <2>2, <2>4
  <2>5. QED
    BY <2>3, <2>4
<1>15. QED
  BY <1>7, <1>8, <1>9, <1>10, <1>11, <1>12, <1>13, <1>14 DEF MethodStep

LEMMA GateStep == WfInv /\ WfInv' /\ [WfNext]_wfVars => [Gate!Next]_(Gate!vars)
<1> SUFFICES ASSUME WfInv, WfInv', [WfNext]_wfVars
             PROVE  [Gate!Next]_(Gate!vars)
  OBVIOUS
<1>1. CASE UNCHANGED wfVars
  BY <1>1, GateStutter DEF wfVars, GateSame, GateApprovals
<1>2. ASSUME NEW S \in SUBSET Methods, CompleteSurvey(S) PROVE UNCHANGED Gate!vars
  BY <1>2, GateStutter DEF CompleteSurvey, methodVars, GateSame, GateApprovals
<1>3. CASE FailSurvey \/ CompleteDirectProof \/ CompleteSummary
  BY <1>3, GateStutter
     DEF FailSurvey, CompleteDirectProof, CompleteSummary, methodVars, GateSame, GateApprovals
<1>4. ASSUME NEW m \in Methods, MethodStep(m) PROVE [Gate!Next]_(Gate!vars)
  BY <1>4, GateMethodStep
<1>5. ASSUME NEW S \in SUBSET Methods, BeginSummary(S) PROVE [Gate!Next]_(Gate!vars)
  <2>1. selected = {} /\ selected' = S /\ S # {} /\ \A m \in S : mstage[m] = "completed"
    BY <1>5 DEF BeginSummary, WfInv, RunInv
  <2>2. /\ plan' = plan /\ step' = step /\ revision' = revision /\ mstage' = mstage
        /\ \A m \in Methods : GateApprovals(m)' = GateApprovals(m)
    BY <1>5 DEF BeginSummary, methodVars, GateApprovals
  <2>3. Gate!Publish(S)
    BY <2>1, <2>2 DEF Gate!Publish
  <2>4. QED
    BY <2>3 DEF Gate!Next
<1>6. QED
  BY <1>1, <1>2, <1>3, <1>4, <1>5 DEF WfNext

(* The workflow implements the proof gate: no edit keeps an approval, no   *)
(* method is accepted without both, and no result comes from another.      *)
THEOREM WorkflowImplementsGate == WfSpec => GateSpec
<1>1. WfInit => Gate!Init
  BY GateStart
<1>2. WfInv /\ WfInv' /\ [WfNext]_wfVars => [Gate!Next]_(Gate!vars)
  BY GateStep
<1>3. QED
  BY <1>1, <1>2, WorkflowInvariant, PTL DEF WfSpec, GateSpec, Gate!Spec

-----------------------------------------------------------------------------
(* What holds of a run and its bindings, live or saved, against the status *)
(* st and the dependencies dep of the durable tasks: methods past          *)
(* decomposition have a plan that is closed, bindings name tasks that      *)
(* exist, steps are backed by them, the tasks are arranged like the plan,  *)
(* and none serves two purposes.                                           *)
Snapshots ==
    [stage : RunStages, methods : SUBSET Methods, selected : SUBSET Methods,
     artifact : BOOLEAN, mstage : [Methods -> MethodStages], assigned : SUBSET Methods,
     plan : [Methods -> Plan], step : [Methods -> [Steps -> StepStatuses]],
     structural : [Methods -> Verdicts \cup {"none"}],
     detailed : [Methods -> Verdicts \cup {"none"}], revision : SUBSET Methods,
     bound : [Methods -> [Steps -> Tasks \cup {NoTask}]],
     revTask : [Methods -> Tasks \cup {NoTask}], wtName : SUBSET Methods]

Planned(x) ==
    \A m \in Methods :
        /\ x.mstage[m] # "decomposition" => x.plan[m].steps # {}
        /\ \A s \in x.plan[m].steps : x.plan[m].deps[s] \subseteq x.plan[m].steps
Named(x, st) ==
    \A m \in Methods :
        /\ \A s \in Steps : x.bound[m][s] # NoTask => st[x.bound[m][s]] # "absent"
        /\ x.revTask[m] # NoTask => st[x.revTask[m]] # "absent"
Backed(x, st) ==
    \A m \in Methods : \A s \in x.plan[m].steps :
        /\ x.step[m][s] = "completed" =>
              x.bound[m][s] # NoTask /\ st[x.bound[m][s]] = "completed"
        /\ x.step[m][s] = "in_progress" =>
              x.bound[m][s] # NoTask /\ st[x.bound[m][s]] # "absent"
Mirrored(x, dep) ==
    \A m \in Methods : \A s \in x.plan[m].steps :
        x.bound[m][s] # NoTask =>
            dep[x.bound[m][s]] = {x.bound[m][d] : d \in x.plan[m].deps[s]}
Apart(x) ==
    /\ \A m, n \in Methods : \A s, r \in Steps :
           x.bound[m][s] = x.bound[n][r] /\ x.bound[m][s] # NoTask => m = n /\ s = r
    /\ \A m, n \in Methods : \A s \in Steps :
           x.revTask[m] # NoTask => x.revTask[m] # x.bound[n][s]
Sound(x, st, dep) ==
    /\ x \in Snapshots
    /\ Planned(x)
    /\ Named(x, st)
    /\ Backed(x, st)
    /\ Mirrored(x, dep)
    /\ Apart(x)

(* Tasks once created stay, with their dependencies, and a completed one   *)
(* stays completed.                                                        *)
Grown(st, dep, st2, dep2) ==
    \A t \in Tasks :
        /\ st[t] # "absent" => st2[t] # "absent" /\ dep2[t] = dep[t]
        /\ st[t] = "completed" => st2[t] = "completed"

LEMMA SnapshotFields ==
    ASSUME NEW x \in Snapshots
    PROVE  /\ x.plan \in [Methods -> Plan]
           /\ x.step \in [Methods -> [Steps -> StepStatuses]]
           /\ x.bound \in [Methods -> [Steps -> Tasks \cup {NoTask}]]
           /\ x.revTask \in [Methods -> Tasks \cup {NoTask}]
           /\ \A m \in Methods : /\ x.plan[m].steps \subseteq Steps
                                 /\ x.plan[m].deps \in [Steps -> SUBSET Steps]
                                 /\ \A s \in Steps : x.bound[m][s] \in Tasks \cup {NoTask}
<1>1. /\ x.plan \in [Methods -> Plan]
      /\ x.step \in [Methods -> [Steps -> StepStatuses]]
      /\ x.bound \in [Methods -> [Steps -> Tasks \cup {NoTask}]]
      /\ x.revTask \in [Methods -> Tasks \cup {NoTask}]
  BY DEF Snapshots
<1>2. QED
  BY <1>1 DEF Plan

(* A run stays sound as the board grows.                                   *)
LEMMA SoundStays ==
    ASSUME NEW x, NEW st, NEW dep, NEW st2, NEW dep2,
           Sound(x, st, dep), Grown(st, dep, st2, dep2)
    PROVE  Sound(x, st2, dep2)
<1>1. x \in Snapshots
  BY DEF Sound
<1>2. /\ \A m \in Methods : /\ x.plan[m].steps \subseteq Steps
                            /\ x.revTask[m] \in Tasks \cup {NoTask}
      /\ \A m \in Methods, s \in Steps : x.bound[m][s] \in Tasks \cup {NoTask}
  BY <1>1, SnapshotFields
<1>3. Named(x, st2)
  BY <1>2 DEF Sound, Named, Grown
<1>4. Backed(x, st2)
  BY <1>2 DEF Sound, Backed, Grown
<1>5. Mirrored(x, dep2)
  BY <1>2 DEF Sound, Named, Mirrored, Grown
<1>6. QED
  BY <1>3, <1>4, <1>5 DEF Sound

(* A move of the workflow that leaves plans, steps and bindings alone.     *)
LEMMA SoundMoves ==
    ASSUME NEW x, NEW y \in Snapshots, NEW st, NEW dep, Sound(x, st, dep),
           y.plan = x.plan, y.step = x.step, y.bound = x.bound, y.revTask = x.revTask,
           \A m \in Methods : y.mstage[m] # "decomposition" => x.mstage[m] # "decomposition"
    PROVE  Sound(y, st, dep)
<1>1. Planned(y)
  BY DEF Sound, Planned
<1>2. Named(y, st)
  BY DEF Sound, Named
<1>3. Backed(y, st)
  BY DEF Sound, Backed
<1>4. Mirrored(y, dep)
  BY DEF Sound, Mirrored
<1>5. Apart(y)
  BY DEF Sound, Apart
<1>6. QED
  BY <1>1, <1>2, <1>3, <1>4, <1>5 DEF Sound

(* A step moves as far as its task shows.                                  *)
LEMMA SoundStep ==
    ASSUME NEW x, NEW y \in Snapshots, NEW st, NEW dep, Sound(x, st, dep),
           y.plan = x.plan, y.bound = x.bound, y.revTask = x.revTask, y.mstage = x.mstage,
           NEW m \in Methods, NEW s \in Steps,
           \A n \in Methods, r \in Steps :
              n # m \/ r # s => y.step[n][r] = x.step[n][r],
           x.bound[m][s] # NoTask, st[x.bound[m][s]] # "absent",
           y.step[m][s] = "completed" => st[x.bound[m][s]] = "completed"
    PROVE  Sound(y, st, dep)
<1>1. \A n \in Methods : x.plan[n].steps \subseteq Steps
  BY SnapshotFields DEF Sound
<1>2. Backed(y, st)
  BY <1>1 DEF Sound, Backed
<1>3. Planned(y)
  BY DEF Sound, Planned
<1>4. Named(y, st)
  BY DEF Sound, Named
<1>5. Mirrored(y, dep)
  BY DEF Sound, Mirrored
<1>6. Apart(y)
  BY DEF Sound, Apart
<1>7. QED
  BY <1>2, <1>3, <1>4, <1>5, <1>6 DEF Sound

(* A method gets another plan, and a new generation of bindings.           *)
LEMMA SoundReplan ==
    ASSUME NEW x, NEW y \in Snapshots, NEW st, NEW dep, Sound(x, st, dep),
           NEW m \in Methods,
           \A n \in Methods \ {m} :
              /\ y.plan[n] = x.plan[n] /\ y.step[n] = x.step[n] /\ y.bound[n] = x.bound[n]
              /\ y.revTask[n] = x.revTask[n] /\ y.mstage[n] = x.mstage[n],
           y.step[m] = AllPending, y.bound[m] = Unbound, y.revTask[m] = NoTask,
           y.mstage[m] # "decomposition" => y.plan[m].steps # {},
           \A s \in y.plan[m].steps : y.plan[m].deps[s] \subseteq y.plan[m].steps
    PROVE  Sound(y, st, dep)
<1>1. \A n \in Methods : x.plan[n].steps \subseteq Steps /\ y.plan[n].steps \subseteq Steps
  BY SnapshotFields DEF Sound
<1>2. \A s \in Steps : y.step[m][s] = "pending" /\ y.bound[m][s] = NoTask
  BY DEF AllPending, Unbound
<1>3. Planned(y)
  BY DEF Sound, Planned
<1>4. Named(y, st)
  BY <1>2 DEF Sound, Named
<1>5. Backed(y, st)
  BY <1>1, <1>2 DEF Sound, Backed
<1>6. Mirrored(y, dep)
  <2> SUFFICES ASSUME NEW n \in Methods, NEW s \in y.plan[n].steps, y.bound[n][s] # NoTask
               PROVE  dep[y.bound[n][s]] = {y.bound[n][d] : d \in y.plan[n].deps[s]}
    BY DEF Mirrored
  <2>1. n # m
    BY <1>1, <1>2
  <2>2. y.plan[n] = x.plan[n] /\ y.bound[n] = x.bound[n]
    BY <2>1
  <2>3. QED
    BY <2>2 DEF Sound, Mirrored
<1>7. Apart(y)
  BY <1>2 DEF Sound, Apart
<1>8. QED
  BY <1>3, <1>4, <1>5, <1>6, <1>7 DEF Sound

(* A new task is bound to a step whose dependencies have theirs.           *)
LEMMA SoundBinding ==
    ASSUME NEW x, NEW y \in Snapshots, NEW st, NEW dep, Sound(x, st, dep),
           y.plan = x.plan, y.step = x.step, y.revTask = x.revTask, y.mstage = x.mstage,
           NEW m \in Methods, NEW s \in Steps, NEW t \in Tasks,
           st[t] # "absent",
           \A n \in Methods : x.revTask[n] # t /\ \A r \in Steps : x.bound[n][r] # t,
           \A n \in Methods, r \in Steps :
              y.bound[n][r] = IF n = m /\ r = s THEN t ELSE x.bound[n][r],
           x.bound[m][s] = NoTask,
           \A r \in x.plan[m].steps : x.bound[m][r] # NoTask => s \notin x.plan[m].deps[r],
           s \notin x.plan[m].deps[s],
           dep[t] = {x.bound[m][d] : d \in x.plan[m].deps[s]}
    PROVE  Sound(y, st, dep)
<1>0. t # NoTask
  BY OrchAssumption
<1>1. \A n \in Methods : /\ x.plan[n].steps \subseteq Steps
                         /\ \A r \in Steps : x.plan[n].deps[r] \subseteq Steps
  BY SnapshotFields DEF Sound
<1>2. Planned(y)
  BY DEF Sound, Planned
<1>3. Named(y, st)
  BY DEF Sound, Named
<1>4. Backed(y, st)
  BY <1>1 DEF Sound, Backed
<1>5. Mirrored(y, dep)
  <2> SUFFICES ASSUME NEW n \in Methods, NEW r \in x.plan[n].steps, y.bound[n][r] # NoTask
               PROVE  dep[y.bound[n][r]] = {y.bound[n][d] : d \in x.plan[n].deps[r]}
    BY DEF Mirrored
  <2>1. CASE n = m /\ r = s
    <3>1. \A d \in x.plan[m].deps[s] : y.bound[m][d] = x.bound[m][d]
      BY <1>1
    <3>2. y.bound[n][r] = t
      BY <2>1
    <3>3. QED
      BY <2>1, <3>1, <3>2
  <2>2. CASE ~(n = m /\ r = s)
    <3>1. r \in Steps /\ y.bound[n][r] = x.bound[n][r]
      BY <1>1, <2>2
    <3>2. \A d \in x.plan[n].deps[r] : y.bound[n][d] = x.bound[n][d]
      BY <1>1, <3>1
    <3>3. dep[x.bound[n][r]] = {x.bound[n][d] : d \in x.plan[n].deps[r]}
      BY <3>1 DEF Sound, Mirrored
    <3>4. QED
      BY <3>1, <3>2, <3>3
  <2>3. QED
    BY <2>1, <2>2
<1>6. Apart(y)
  <2>1. \A n, k \in Methods : \A q, r \in Steps :
           y.bound[n][q] = y.bound[k][r] /\ y.bound[n][q] # NoTask => n = k /\ q = r
    BY <1>0 DEF Sound, Apart
  <2>2. \A n, k \in Methods : \A r \in Steps :
           y.revTask[n] # NoTask => y.revTask[n] # y.bound[k][r]
    BY DEF Sound, Apart
  <2>3. QED
    BY <2>1, <2>2 DEF Apart
<1>7. QED
  BY <1>2, <1>3, <1>4, <1>5, <1>6 DEF Sound

(* The revision task of a method is a new one, or none.                    *)
LEMMA SoundRevision ==
    ASSUME NEW x, NEW y \in Snapshots, NEW st, NEW dep, Sound(x, st, dep),
           y.plan = x.plan, y.step = x.step, y.bound = x.bound,
           \A n \in Methods : y.mstage[n] # "decomposition" => x.mstage[n] # "decomposition",
           NEW m \in Methods,
           \A n \in Methods \ {m} : y.revTask[n] = x.revTask[n],
           y.revTask[m] # NoTask =>
              /\ st[y.revTask[m]] # "absent"
              /\ \A n \in Methods, r \in Steps : x.bound[n][r] # y.revTask[m]
    PROVE  Sound(y, st, dep)
<1>1. Planned(y) /\ Backed(y, st) /\ Mirrored(y, dep)
  BY DEF Sound, Planned, Backed, Mirrored
<1>2. Named(y, st)
  BY DEF Sound, Named
<1>3. Apart(y)
  BY DEF Sound, Apart
<1>4. QED
  BY <1>1, <1>2, <1>3 DEF Sound

-----------------------------------------------------------------------------
(* The types, in the parts in which steps change them.                     *)
Handlers == [op : LeadOps, method : Methods \cup {NoMethod},
             todo : SUBSET Steps, caughtUp : BOOLEAN]
BoardTyped ==
    /\ status \in [Tasks -> {"absent", "pending", "in_progress", "completed"}]
    /\ owner \in [Tasks -> Provers \cup {NoOwner}]
    /\ blockedBy \in [Tasks -> SUBSET Tasks]
BindingsTyped ==
    /\ bound \in [Methods -> [Steps -> Tasks \cup {NoTask}]]
    /\ revTask \in [Methods -> Tasks \cup {NoTask}]
    /\ wtName \subseteq Methods
DiskTyped ==
    /\ taskTree \subseteq Tasks
    /\ dirs \subseteq Methods
    /\ ctx \in [Provers -> [task : Tasks \cup {NoTask}, proof : BOOLEAN]]
    /\ crashes \in 0..MaxCrashes
    /\ faults \in 0..MaxFaults

LEMMA OrchTypeParts ==
    /\ OrchTypeOK <=> WfTypeOK /\ BoardTyped /\ BindingsTyped /\ lead \in Handlers /\ DiskTyped
    /\ OrchTypeOK' <=> WfTypeOK' /\ BoardTyped' /\ BindingsTyped' /\ lead' \in Handlers /\ DiskTyped'
  BY DEF OrchTypeOK, BoardTyped, BindingsTyped, Handlers, DiskTyped

LEMMA Live ==
    /\ Snapshot.plan = plan /\ Snapshot.step = step /\ Snapshot.mstage = mstage
    /\ Snapshot.bound = bound /\ Snapshot.revTask = revTask
    /\ Snapshot'.plan = plan' /\ Snapshot'.step = step' /\ Snapshot'.mstage = mstage'
    /\ Snapshot'.bound = bound' /\ Snapshot'.revTask = revTask'
  BY DEF Snapshot

LEMMA LiveTyped ==
    /\ OrchTypeOK => Snapshot \in Snapshots
    /\ OrchTypeOK' => Snapshot' \in Snapshots
  BY DEF OrchTypeOK, WfTypeOK, Snapshot, Snapshots

(* The invariant of the handler in progress: what it has done and what is  *)
(* left to do, and what a pass over completed tasks has caught up with.    *)
HandlerInOrder ==
    LET m == lead.method IN
    /\ ~LeadIdle => m \in Methods
    /\ lead.op \in {"create", "bind", "sync"} => lead.todo \subseteq plan[m].steps
    /\ Doing("create") =>
          /\ mstage[m] = "proving"
          /\ \A s \in plan[m].steps :
                /\ s \in lead.todo => bound[m][s] = NoTask
                /\ s \notin lead.todo => /\ bound[m][s] # NoTask
                                         /\ plan[m].deps[s] \cap lead.todo = {}
    /\ Doing("bind") => \A s \in plan[m].steps : bound[m][s] # NoTask
    /\ Doing("revise") => m \in revision
    /\ Doing("rebind") => revTask[m] # NoTask
    /\ Doing("sync") /\ lead.caughtUp =>
          /\ InStage(m, "proving")
          /\ m \in assigned
          /\ m \notin revision
          /\ AllTasksCompleted(m)
          /\ \A s \in plan[m].steps \ lead.todo : step[m][s] = "completed"

(* The steps of the orchestrator are moves of the workflow ...             *)
LEMMA WfMoves ==
    ASSUME OrchTypeOK, LeadStep \/ ProverStep
    PROVE  [WfNext]_wfVars \/ \E s \in Steps : SyncStartsAndCompletes(s)
<1>0. \A m : ActiveMethod(m) => m \in Methods
  BY DEF OrchTypeOK, WfTypeOK, ActiveMethod
<1>1. CASE ProverStep
  BY <1>1 DEF ProverStep, ProverClaims, ProverCompletes, HeartbeatFails, LeaseLapses
<1>2. CASE WorkflowOnly
  BY <1>2 DEF WorkflowOnly, WfNext, MethodStep
<1>3. ASSUME NEW m \in Methods,
             \/ RequestDecomposition(m) \/ SyncNothing(m) \/ SyncBegin(m)
      PROVE  UNCHANGED wfVars
  BY <1>3 DEF RequestDecomposition, SyncNothing, SyncBegin
<1>4. ASSUME NEW m \in Methods, NEW p \in Plans, ActivateBegin(m, p) PROVE WfNext
  BY <1>4 DEF ActivateBegin, WfNext, MethodStep
<1>5. ASSUME NEW s \in Steps, NEW t \in Tasks, ActivateCreate(s, t) PROVE UNCHANGED wfVars
  BY <1>5 DEF ActivateCreate
<1>6. ASSUME NEW s \in Steps, WorktreeExists(s) \/ BindTask(s) \/ SyncSkips(s) \/ SyncRaises(s)
      PROVE  UNCHANGED wfVars
  BY <1>6 DEF WorktreeExists, BindTask, SyncSkips, SyncRaises
<1>7. CASE WorktreeKept \/ WorktreeAdded \/ ReviseBind \/ LeadFails
  BY <1>7 DEF WorktreeKept, WorktreeAdded, ReviseBind, LeadFails
<1>8. CASE ActivateEnd
  BY <1>0, <1>8 DEF ActivateEnd, WfNext, MethodStep, AssignTeammate
<1>9. ASSUME NEW m \in Methods, SyncRevision(m) PROVE [WfNext]_wfVars
  BY <1>9 DEF SyncRevision, WfNext, MethodStep
<1>10. ASSUME NEW s \in Steps, SyncStarts(s) \/ SyncCompletes(s) PROVE WfNext
  <2>1. StartStep(lead.method, s) \/ CompleteStep(lead.method, s)
    BY <1>10 DEF SyncStarts, SyncCompletes
  <2>2. lead.method \in Methods
    BY <1>0, <2>1 DEF StartStep, CanStart, CompleteStep, InStage
  <2>3. QED
    BY <2>1, <2>2, Zenon DEF WfNext, MethodStep
<1>11. ASSUME SyncEnd PROVE [WfNext]_wfVars
  <2>1. SubmitStructural(lead.method) \/ UNCHANGED wfVars
    BY <1>11, Zenon DEF SyncEnd
  <2>2. SubmitStructural(lead.method) => lead.method \in Methods
    BY <1>0 DEF SubmitStructural, InStage
  <2>3. QED
    BY <2>1, <2>2, Zenon DEF WfNext, MethodStep
<1>12. ASSUME NEW m \in Methods, NEW a \in RegulatorActions, RegulateReplan(m, a) PROVE WfNext
  BY <1>12 DEF RegulateReplan, WfNext, MethodStep
<1>13. ASSUME NEW m \in Methods, RegulateRevise(m) PROVE WfNext
  BY <1>13 DEF RegulateRevise, WfNext, MethodStep, RegulatorActions
<1>14. ASSUME NEW t \in Tasks, ReviseCreate(t) PROVE UNCHANGED wfVars
  BY <1>14 DEF ReviseCreate
<1>15. QED
  BY <1>1, <1>2, <1>3, <1>4, <1>5, <1>6, <1>7, <1>8, <1>9, <1>10, <1>11, <1>12, <1>13,
     <1>14 DEF LeadStep

LEMMA WfTyped ==
    ASSUME OrchTypeOK, saved \in Snapshots, OrchNext, HandlerInOrder PROVE WfTypeOK'
<1>1. WfTypeOK
  BY DEF OrchTypeOK
<1>2. CASE [WfNext]_wfVars
  BY <1>1, <1>2, WfTypeStep
<1>3. ASSUME NEW s \in Steps, SyncStartsAndCompletes(s) PROVE WfTypeOK'
  <2> DEFINE m == lead.method
  <2>1. /\ step' = [step EXCEPT ![m][s] = "completed"]
        /\ UNCHANGED <<runVars, mstage, assigned, plan, verdictVars, revision>>
    BY <1>3 DEF SyncStartsAndCompletes
  <2>2. m \in Methods
    BY <1>3 DEF SyncStartsAndCompletes, SyncReads, Doing, HandlerInOrder, LeadIdle
  <2>3. step[m] \in [Steps -> StepStatuses]
    BY <1>1, <2>2 DEF WfTypeOK
  <2>4. [step[m] EXCEPT ![s] = "completed"] \in [Steps -> StepStatuses]
    BY <2>3 DEF StepStatuses
  <2>5. step' \in [Methods -> [Steps -> StepStatuses]]
    BY <1>1, <2>1, <2>4 DEF WfTypeOK
  <2>6. QED
    BY <1>1, <2>1, <2>5 DEF WfTypeOK, runVars, verdictVars
<1>4. CASE Restart
  BY <1>4 DEF Restart, Snapshots, WfTypeOK
<1>5. QED
  BY <1>2, <1>3, <1>4, WfMoves DEF OrchNext

(* ... and of the task board.                                              *)
BoardStep ==
    \/ \E t \in Tasks, D \in SUBSET Tasks : Board!Create(t, D)
    \/ \E w \in Provers, t \in Tasks : Board!Claim(w, t) \/ Board!Complete(w, t)
    \/ \E t \in Tasks : Board!Release({t})

LEMMA NewTaskDependencies ==
    ASSUME OrchTypeOK, Sound(Snapshot, status, blockedBy), HandlerInOrder,
           NEW s \in Steps, Doing("create"), Ready(lead.method, s)
    PROVE  /\ lead.method \in Methods
           /\ s \in plan[lead.method].steps
           /\ {bound[lead.method][d] : d \in plan[lead.method].deps[s]} \in SUBSET Tasks
<1> DEFINE m == lead.method
<1>1. m \in Methods /\ lead.todo \subseteq plan[m].steps /\ s \in lead.todo
  BY DEF HandlerInOrder, LeadIdle, Doing, Ready
<1>2. plan[m].deps[s] \subseteq plan[m].steps /\ plan[m].steps \subseteq Steps
  <2>1. Planned(Snapshot)
    BY DEF Sound
  <2>2. plan[m].deps[s] \subseteq plan[m].steps
    BY <1>1, <2>1, Live DEF Planned
  <2>3. plan[m].steps \subseteq Steps
    BY <1>1 DEF OrchTypeOK, WfTypeOK, Plan
  <2>4. QED
    BY <2>2, <2>3
<1>3. \A d \in plan[m].deps[s] : d \notin lead.todo
  BY DEF Ready
<1>4. \A d \in plan[m].deps[s] : bound[m][d] # NoTask
  BY <1>2, <1>3 DEF HandlerInOrder
<1>5. \A d \in plan[m].deps[s] : bound[m][d] \in Tasks \cup {NoTask}
  BY <1>1, <1>2 DEF OrchTypeOK
<1>6. QED
  BY <1>1, <1>4, <1>5

LEMMA BoardMoves ==
    ASSUME OrchTypeOK, Sound(Snapshot, status, blockedBy), HandlerInOrder, OrchNext
    PROVE  BoardStep \/ UNCHANGED boardVars
<1>1. ASSUME NEW s \in Steps, NEW t \in Tasks, ActivateCreate(s, t) PROVE BoardStep
  <2>1. Board!Create(t, {bound[lead.method][d] : d \in plan[lead.method].deps[s]})
    BY <1>1 DEF ActivateCreate
  <2>2. {bound[lead.method][d] : d \in plan[lead.method].deps[s]} \in SUBSET Tasks
    BY <1>1, NewTaskDependencies DEF ActivateCreate
  <2>3. QED
    BY <2>1, <2>2, Zenon DEF BoardStep
<1>2. ASSUME NEW t \in Tasks, ReviseCreate(t) PROVE BoardStep
  <2>1. Board!Create(t, {}) /\ {} \in SUBSET Tasks
    BY <1>2 DEF ReviseCreate
  <2>2. QED
    BY <2>1, Zenon DEF BoardStep
<1>3. ASSUME NEW w \in Provers, NEW t \in Tasks, ProverClaims(w, t) PROVE BoardStep
  BY <1>3, Zenon DEF ProverClaims, BoardStep
<1>4. ASSUME NEW w \in Provers, ProverCompletes(w) PROVE BoardStep
  <2>1. Board!Complete(w, ctx[w].task) /\ ctx[w].task # NoTask
    BY <1>4 DEF ProverCompletes
  <2>2. ctx[w].task \in Tasks
    BY <2>1 DEF OrchTypeOK
  <2>3. QED
    BY <2>1, <2>2, Zenon DEF BoardStep
<1>5. ASSUME NEW w \in Provers, HeartbeatFails(w) PROVE UNCHANGED boardVars
  BY <1>5 DEF HeartbeatFails
<1>6. ASSUME NEW t \in Tasks, LeaseLapses(t) PROVE BoardStep
  BY <1>6, Zenon DEF LeaseLapses, BoardStep
<1>7. CASE Restart
  BY <1>7 DEF Restart
<1>8. CASE WorkflowOnly \/ WorktreeKept \/ WorktreeAdded \/ ActivateEnd \/ SyncEnd
           \/ ReviseBind \/ LeadFails
  BY <1>8, Zenon DEF WorkflowOnly, WorktreeKept, WorktreeAdded, ActivateEnd, SyncEnd, ReviseBind,
                     LeadFails
<1>9. ASSUME NEW m \in Methods,
             \/ RequestDecomposition(m) \/ SyncNothing(m) \/ SyncRevision(m) \/ SyncBegin(m)
             \/ RegulateRevise(m)
      PROVE  UNCHANGED boardVars
  BY <1>9, Zenon DEF RequestDecomposition, SyncNothing, SyncRevision, SyncBegin, RegulateRevise
<1>10. ASSUME NEW m \in Methods, NEW p \in Plans, ActivateBegin(m, p) PROVE UNCHANGED boardVars
  BY <1>10, Zenon DEF ActivateBegin
<1>11. ASSUME NEW m \in Methods, NEW a \in RegulatorActions, RegulateReplan(m, a)
       PROVE  UNCHANGED boardVars
  BY <1>11, Zenon DEF RegulateReplan
<1>12. ASSUME NEW s \in Steps,
              \/ WorktreeExists(s) \/ BindTask(s) \/ SyncStarts(s) \/ SyncStartsAndCompletes(s)
              \/ SyncCompletes(s) \/ SyncSkips(s) \/ SyncRaises(s)
       PROVE  UNCHANGED boardVars
  BY <1>12, Zenon DEF WorktreeExists, BindTask, SyncStarts, SyncStartsAndCompletes, SyncCompletes,
                      SyncSkips, SyncRaises
<1>13. CASE LeadStep
  BY <1>1, <1>2, <1>8, <1>9, <1>10, <1>11, <1>12, <1>13 DEF LeadStep
<1>14. CASE ProverStep
  BY <1>3, <1>4, <1>5, <1>6, <1>14 DEF ProverStep
<1>15. QED
  BY <1>7, <1>13, <1>14 DEF OrchNext

LEMMA BoardTypes ==
    ASSUME BoardTyped, BoardStep
    PROVE  BoardTyped' /\ Grown(status, blockedBy, status', blockedBy')
<1> USE DEF BoardTyped, Grown
<1>1. ASSUME NEW t \in Tasks, NEW D \in SUBSET Tasks, Board!Create(t, D)
      PROVE  BoardTyped' /\ Grown(status, blockedBy, status', blockedBy')
  BY <1>1 DEF Board!Create
<1>2. ASSUME NEW w \in Provers, NEW t \in Tasks, Board!Claim(w, t)
      PROVE  BoardTyped' /\ Grown(status, blockedBy, status', blockedBy')
  BY <1>2 DEF Board!Claim, Board!Open
<1>3. ASSUME NEW w \in Provers, NEW t \in Tasks, Board!Complete(w, t)
      PROVE  BoardTyped' /\ Grown(status, blockedBy, status', blockedBy')
  BY <1>3 DEF Board!Complete
<1>4. ASSUME NEW t \in Tasks, Board!Release({t})
      PROVE  BoardTyped' /\ Grown(status, blockedBy, status', blockedBy')
  BY <1>4 DEF Board!Release
<1>5. QED
  BY <1>1, <1>2, <1>3, <1>4 DEF BoardStep

LEMMA BoardKept ==
    ASSUME OrchTypeOK, Sound(Snapshot, status, blockedBy), HandlerInOrder, OrchNext
    PROVE  BoardTyped' /\ Grown(status, blockedBy, status', blockedBy')
<1>1. BoardTyped
  BY OrchTypeParts
<1>2. CASE UNCHANGED boardVars
  BY <1>1, <1>2 DEF boardVars, BoardTyped, Grown
<1>3. QED
  BY <1>1, <1>2, BoardMoves, BoardTypes

(* The bindings, the handler and the rest.                                 *)
LEMMA BindingsKept ==
    ASSUME OrchTypeOK, saved \in Snapshots, HandlerInOrder, OrchNext PROVE BindingsTyped'
<1> USE DEF BindingsTyped, bindingVars
<1>0. BindingsTyped /\ Unbound \in [Steps -> Tasks \cup {NoTask}]
  BY OrchTypeParts DEF Unbound
<1>1. ASSUME NEW s \in Steps, NEW t \in Tasks, ActivateCreate(s, t) PROVE BindingsTyped'
  <2> DEFINE m == lead.method
  <2>1. bound' = [bound EXCEPT ![m][s] = t] /\ UNCHANGED <<revTask, wtName>>
    BY <1>1 DEF ActivateCreate
  <2>2. m \in Methods
    BY <1>1 DEF ActivateCreate, HandlerInOrder, LeadIdle, Doing
  <2>3. [bound[m] EXCEPT ![s] = t] \in [Steps -> Tasks \cup {NoTask}]
    BY <1>0, <2>2
  <2>4. QED
    BY <1>0, <2>1, <2>2, <2>3
<1>2. ASSUME NEW t \in Tasks, ReviseCreate(t) PROVE BindingsTyped'
  <2>1. lead.method \in Methods
    BY <1>2 DEF ReviseCreate, HandlerInOrder, LeadIdle, Doing
  <2>2. QED
    BY <1>0, <1>2, <2>1 DEF ReviseCreate
<1>3. CASE ProverStep
  BY <1>0, <1>3 DEF ProverStep, ProverClaims, ProverCompletes, HeartbeatFails, LeaseLapses
<1>4. CASE Restart
  BY <1>4 DEF Restart, Snapshots
<1>5. CASE WorktreeAdded
  <2>1. lead.method \in Methods
    BY <1>5 DEF WorktreeAdded, HandlerInOrder, LeadIdle, Doing
  <2>2. QED
    BY <1>0, <1>5, <2>1 DEF WorktreeAdded
<1>6. ASSUME NEW s \in Steps, WorktreeExists(s) PROVE BindingsTyped'
  <2>1. lead.method \in Methods
    BY <1>6 DEF WorktreeExists, HandlerInOrder, LeadIdle, Doing
  <2>2. QED
    BY <1>0, <1>6, <2>1 DEF WorktreeExists
<1>7. ASSUME NEW m \in Methods, NEW p \in Plans, ActivateBegin(m, p) PROVE BindingsTyped'
  BY <1>0, <1>7 DEF ActivateBegin
<1>8. ASSUME NEW m \in Methods, NEW a \in RegulatorActions, RegulateReplan(m, a)
      PROVE  BindingsTyped'
  BY <1>0, <1>8 DEF RegulateReplan
<1>9. ASSUME NEW m \in Methods, SyncRevision(m) PROVE BindingsTyped'
  <2>1. revTask' \in {revTask, [revTask EXCEPT ![m] = NoTask]} /\ UNCHANGED <<bound, wtName>>
    BY <1>9 DEF SyncRevision
  <2>2. QED
    BY <1>0, <2>1
<1>10. CASE WorkflowOnly \/ WorktreeKept \/ ActivateEnd \/ SyncEnd \/ ReviseBind \/ LeadFails
  BY <1>0, <1>10 DEF WorkflowOnly, WorktreeKept, ActivateEnd, SyncEnd, ReviseBind, LeadFails
<1>11. ASSUME NEW m \in Methods,
              RequestDecomposition(m) \/ SyncNothing(m) \/ SyncBegin(m) \/ RegulateRevise(m)
       PROVE  BindingsTyped'
  BY <1>0, <1>11 DEF RequestDecomposition, SyncNothing, SyncBegin, RegulateRevise
<1>12. ASSUME NEW s \in Steps,
              \/ BindTask(s) \/ SyncStarts(s) \/ SyncStartsAndCompletes(s)
              \/ SyncCompletes(s) \/ SyncSkips(s) \/ SyncRaises(s)
       PROVE  BindingsTyped'
  BY <1>0, <1>12 DEF BindTask, SyncStarts, SyncStartsAndCompletes, SyncCompletes, SyncSkips,
                     SyncRaises
<1>13. QED
  BY <1>1, <1>2, <1>3, <1>4, <1>5, <1>6, <1>7, <1>8, <1>9, <1>10, <1>11, <1>12
     DEF OrchNext, LeadStep

LEMMA LeadMoves ==
    ASSUME lead \in Handlers, NEW s
    PROVE  /\ StepDone(s) => /\ lead' \in Handlers
                             /\ lead'.op = lead.op /\ lead'.method = lead.method
                             /\ lead'.todo = lead.todo \ {s} /\ lead'.caughtUp = lead.caughtUp
           /\ Finish => lead' \in Handlers /\ lead'.op = "none"
<1>1. StepDone(s) => /\ lead' \in Handlers
                     /\ lead'.op = lead.op /\ lead'.method = lead.method
                     /\ lead'.todo = lead.todo \ {s} /\ lead'.caughtUp = lead.caughtUp
  BY DEF Handlers, StepDone
<1>2. Idle \in Handlers /\ Idle.op = "none"
  BY DEF Handlers, Idle, LeadOps
<1>3. QED
  BY <1>1, <1>2, Zenon DEF Finish

LEMMA HandlerTyped == ASSUME OrchTypeOK, HandlerInOrder, OrchNext PROVE lead' \in Handlers
<1>0. /\ lead \in Handlers
      /\ \A m \in Methods : plan[m].steps \subseteq Steps
      /\ ~LeadIdle => lead.method \in Methods
  <2>1. lead \in Handlers
    BY OrchTypeParts
  <2>2. plan \in [Methods -> Plan]
    BY DEF OrchTypeOK, WfTypeOK
  <2>3. QED
    BY <2>1, <2>2 DEF Plan, HandlerInOrder
<1>1. ASSUME NEW s \in Steps,
             \/ \E t \in Tasks : ActivateCreate(s, t)
             \/ BindTask(s) \/ SyncStarts(s) \/ SyncStartsAndCompletes(s) \/ SyncCompletes(s)
             \/ SyncSkips(s) \/ SyncRaises(s)
      PROVE  lead' \in Handlers
  <2>1. StepDone(s) \/ Finish
    BY <1>1, Zenon DEF ActivateCreate, BindTask, SyncStarts, SyncStartsAndCompletes, SyncCompletes,
                       SyncSkips, SyncRaises
  <2>2. QED
    BY <1>0, <2>1, LeadMoves
<1>2. CASE ActivateEnd \/ SyncEnd \/ ReviseBind \/ LeadFails \/ Restart
  <2>1. Finish
    BY <1>2, Zenon DEF ActivateEnd, SyncEnd, ReviseBind, LeadFails, Restart
  <2>2. QED
    BY <1>0, <2>1, LeadMoves
<1>3. CASE ProverStep \/ WorkflowOnly
  BY <1>0, <1>3
     DEF ProverStep, ProverClaims, ProverCompletes, HeartbeatFails, LeaseLapses, WorkflowOnly
<1>4. ASSUME NEW m \in Methods,
             \/ RequestDecomposition(m) \/ SyncNothing(m) \/ SyncRevision(m)
             \/ \E a \in RegulatorActions : RegulateReplan(m, a)
      PROVE  lead' \in Handlers
  BY <1>0, <1>4 DEF RequestDecomposition, SyncNothing, SyncRevision, RegulateReplan
<1>5. ASSUME NEW m \in Methods, NEW p \in Plans, ActivateBegin(m, p) PROVE lead' \in Handlers
  <2>1. p.steps \subseteq Steps
    BY PlansAssumption DEF Plan
  <2>2. lead' = [op |-> "create", method |-> m, todo |-> p.steps, caughtUp |-> FALSE]
    BY <1>5 DEF ActivateBegin
  <2>3. QED
    BY <2>1, <2>2 DEF Handlers, LeadOps
<1>6. ASSUME NEW m \in Methods, SyncBegin(m) PROVE lead' \in Handlers
  <2>1. lead' = [op |-> "sync", method |-> m, todo |-> plan[m].steps,
                 caughtUp |-> AllTasksCompleted(m) /\ m \in assigned]
    BY <1>6 DEF SyncBegin
  <2>2. QED
    BY <1>0, <2>1 DEF Handlers, LeadOps
<1>7. ASSUME NEW m \in Methods, RegulateRevise(m) PROVE lead' \in Handlers
  BY <1>7 DEF RegulateRevise, Handlers, LeadOps
<1>8. ASSUME NEW t \in Tasks, ReviseCreate(t) PROVE lead' \in Handlers
  BY <1>0, <1>8 DEF ReviseCreate, Handlers, LeadOps
<1>9. ASSUME \/ WorktreeKept \/ WorktreeAdded
             \/ \E s \in Steps : WorktreeExists(s)
      PROVE  lead' \in Handlers
  <2>1. PICK todo \in SUBSET plan[lead.method].steps :
           ~LeadIdle /\ lead' = [lead EXCEPT !.op = "bind", !.todo = todo]
    BY <1>9 DEF WorktreeKept, WorktreeAdded, WorktreeExists, Doing, LeadIdle
  <2>2. todo \subseteq Steps
    BY <1>0, <2>1
  <2>3. QED
    BY <1>0, <2>1, <2>2 DEF Handlers, LeadOps
<1>10. QED
  BY <1>1, <1>2, <1>3, <1>4, <1>5, <1>6, <1>7, <1>8, <1>9 DEF OrchNext, LeadStep

LEMMA DiskKept == ASSUME OrchTypeOK, HandlerInOrder, OrchNext PROVE DiskTyped'
<1> USE OrchAssumption DEF diskVars, countVars
<1>0. DiskTyped
  BY OrchTypeParts
<1>00. Save => crashes' \in 0..MaxCrashes /\ faults' \in 0..MaxFaults
  BY <1>0 DEF DiskTyped, Save
<1>1. ASSUME NEW s \in Steps, BindTask(s) PROVE DiskTyped'
  <2>1. lead.method \in Methods /\ s \in plan[lead.method].steps
    BY <1>1 DEF BindTask, HandlerInOrder, LeadIdle, Doing
  <2>2. bound[lead.method][s] \in Tasks \cup {NoTask} /\ bound[lead.method][s] # NoTask
    BY <1>1, <2>1 DEF BindTask, HandlerInOrder, OrchTypeOK
  <2>3. QED
    BY <1>0, <1>1, <2>2 DEF BindTask, DiskTyped
<1>2. CASE ReviseBind
  <2>1. lead.method \in Methods /\ revTask[lead.method] # NoTask
    BY <1>2 DEF ReviseBind, HandlerInOrder, LeadIdle, Doing
  <2>2. revTask[lead.method] \in Tasks
    BY <2>1 DEF OrchTypeOK
  <2>3. QED
    BY <1>0, <1>00, <1>2, <2>2 DEF ReviseBind, DiskTyped
<1>3. CASE WorktreeAdded
  <2>1. lead.method \in Methods
    BY <1>3 DEF WorktreeAdded, HandlerInOrder, LeadIdle, Doing
  <2>2. QED
    BY <1>0, <1>3, <2>1 DEF WorktreeAdded, DiskTyped
<1>4. CASE LeadFails
  BY <1>0, <1>4 DEF LeadFails, DiskTyped
<1>5. CASE Restart
  BY <1>0, <1>5 DEF Restart, DiskTyped, NoContext
<1>6. CASE ProverStep
  <2>1. ASSUME NEW w \in Provers, NEW t \in Tasks, ProverClaims(w, t) PROVE DiskTyped'
    BY <1>0, <2>1 DEF ProverClaims, DiskTyped
  <2>2. ASSUME NEW w \in Provers, ProverCompletes(w) \/ HeartbeatFails(w) PROVE DiskTyped'
    <3>1. NoContext \in [task : Tasks \cup {NoTask}, proof : BOOLEAN]
      BY DEF NoContext
    <3>2. /\ ctx' = [ctx EXCEPT ![w] = NoContext]
          /\ UNCHANGED <<taskTree, dirs, crashes, faults>>
      BY <2>2 DEF ProverCompletes, HeartbeatFails
    <3>3. QED
      BY <1>0, <3>1, <3>2 DEF DiskTyped
  <2>3. ASSUME NEW t \in Tasks, LeaseLapses(t) PROVE DiskTyped'
    BY <1>0, <2>3 DEF LeaseLapses, DiskTyped
  <2>4. QED
    BY <1>6, <2>1, <2>2, <2>3 DEF ProverStep
<1>7. ASSUME UNCHANGED <<diskVars, ctx>>, Save \/ UNCHANGED countVars PROVE DiskTyped'
  BY <1>0, <1>00, <1>7 DEF DiskTyped
<1>8. CASE WorkflowOnly \/ WorktreeKept \/ ActivateEnd \/ SyncEnd
  BY <1>7, <1>8, Zenon DEF WorkflowOnly, WorktreeKept, ActivateEnd, SyncEnd
<1>9. ASSUME NEW m \in Methods,
             \/ RequestDecomposition(m) \/ SyncNothing(m) \/ SyncRevision(m) \/ SyncBegin(m)
             \/ RegulateRevise(m)
             \/ \E p \in Plans : ActivateBegin(m, p)
             \/ \E a \in RegulatorActions : RegulateReplan(m, a)
      PROVE  DiskTyped'
  BY <1>7, <1>9, Zenon DEF RequestDecomposition, SyncNothing, SyncRevision, SyncBegin, RegulateRevise,
                           ActivateBegin, RegulateReplan
<1>10. ASSUME NEW s \in Steps,
              \/ \E t \in Tasks : ActivateCreate(s, t)
              \/ WorktreeExists(s) \/ SyncStarts(s) \/ SyncStartsAndCompletes(s)
              \/ SyncCompletes(s) \/ SyncSkips(s) \/ SyncRaises(s)
       PROVE  DiskTyped'
  BY <1>7, <1>10, Zenon DEF ActivateCreate, WorktreeExists, SyncStarts, SyncStartsAndCompletes,
                            SyncCompletes, SyncSkips, SyncRaises
<1>11. ASSUME NEW t \in Tasks, ReviseCreate(t) PROVE DiskTyped'
  BY <1>7, <1>11, Zenon DEF ReviseCreate
<1>12. QED
  BY <1>1, <1>2, <1>3, <1>4, <1>5, <1>6, <1>8, <1>9, <1>10, <1>11 DEF OrchNext, LeadStep

LEMMA TypesKept ==
    ASSUME OrchTypeOK, Sound(Snapshot, status, blockedBy), saved \in Snapshots, HandlerInOrder,
           OrchNext
    PROVE  OrchTypeOK'
  BY WfTyped, BoardKept, BindingsKept, HandlerTyped, DiskKept, OrchTypeParts

-----------------------------------------------------------------------------
(* The live run stays sound.                                               *)
MovesOn == \A n \in Methods : mstage'[n] # "decomposition" => mstage[n] # "decomposition"

LEMMA WorkflowMovesOn ==
    ASSUME OrchTypeOK, WorkflowOnly
    PROVE  MovesOn /\ UNCHANGED <<plan, step, bound, revTask>>
<1> USE DEF MovesOn, bindingVars, methodVars, verdictVars, runVars
<1>0. mstage \in [Methods -> MethodStages]
  BY DEF OrchTypeOK, WfTypeOK
<1>1. UNCHANGED <<bound, revTask>>
  BY DEF WorkflowOnly
<1>2. ASSUME NEW m \in Methods, NEW v \in Verdicts, RecordStructural(m, v) \/ RecordDetailed(m, v)
      PROVE  MovesOn /\ UNCHANGED <<plan, step>>
  BY <1>0, <1>2 DEF RecordStructural, RecordDetailed, MoveTo, InStage
<1>3. ASSUME \/ \E S \in SUBSET Methods : CompleteSurvey(S) \/ BeginSummary(S)
             \/ FailSurvey \/ CompleteDirectProof \/ CompleteSummary
      PROVE  MovesOn /\ UNCHANGED <<plan, step>>
  BY <1>3 DEF CompleteSurvey, BeginSummary, FailSurvey, CompleteDirectProof, CompleteSummary
<1>4. QED
  BY <1>1, <1>2, <1>3 DEF WorkflowOnly

LEMMA LiveSound ==
    ASSUME OrchTypeOK, OrchTypeOK', Sound(Snapshot, status, blockedBy),
           Sound(saved, status, blockedBy), HandlerInOrder, OrchNext
    PROVE  Sound(Snapshot', status', blockedBy')
<1> USE DEF bindingVars, runVars, verdictVars
<1>1. /\ Snapshot' \in Snapshots
      /\ Sound(Snapshot, status', blockedBy')
      /\ Sound(saved, status', blockedBy')
  BY LiveTyped, BoardKept, SoundStays
<1>2. /\ mstage \in [Methods -> MethodStages] /\ step \in [Methods -> [Steps -> StepStatuses]]
      /\ plan \in [Methods -> Plan]
      /\ bound \in [Methods -> [Steps -> Tasks \cup {NoTask}]]
      /\ revTask \in [Methods -> Tasks \cup {NoTask}]
      /\ blockedBy \in [Tasks -> SUBSET Tasks]
      /\ status \in [Tasks -> {"absent", "pending", "in_progress", "completed"}]
  BY DEF OrchTypeOK, WfTypeOK
<1>3. ASSUME MovesOn, UNCHANGED <<plan, step, bound, revTask>>
      PROVE  Sound(Snapshot', status', blockedBy')
  BY <1>1, <1>3, Live, SoundMoves DEF MovesOn
<1>4. UNCHANGED mstage => MovesOn
  BY DEF MovesOn
<1>5. ~LeadIdle => lead.method \in Methods
  BY DEF HandlerInOrder
<1>6. CASE ProverStep
  BY <1>3, <1>4, <1>6
     DEF ProverStep, ProverClaims, ProverCompletes, HeartbeatFails, LeaseLapses, wfVars
<1>7. CASE Restart
  <2>1. /\ Snapshot'.plan = saved.plan /\ Snapshot'.step = saved.step
        /\ Snapshot'.bound = saved.bound /\ Snapshot'.revTask = saved.revTask
        /\ Snapshot'.mstage = saved.mstage
    BY <1>7, Live DEF Restart
  <2>2. QED
    BY <1>1, <2>1, SoundMoves
<1>8. CASE WorkflowOnly
  BY <1>3, <1>8, WorkflowMovesOn
<1>9. ASSUME NEW m \in Methods, RequestDecomposition(m) \/ SyncNothing(m) \/ SyncBegin(m)
      PROVE  Sound(Snapshot', status', blockedBy')
  BY <1>3, <1>4, <1>9 DEF RequestDecomposition, SyncNothing, SyncBegin, wfVars
<1>10. CASE WorktreeKept \/ WorktreeAdded \/ ReviseBind \/ LeadFails
  BY <1>3, <1>4, <1>10 DEF WorktreeKept, WorktreeAdded, ReviseBind, LeadFails, wfVars
<1>11. ASSUME NEW s \in Steps, WorktreeExists(s) \/ BindTask(s) \/ SyncSkips(s) \/ SyncRaises(s)
       PROVE  Sound(Snapshot', status', blockedBy')
  BY <1>3, <1>4, <1>11 DEF WorktreeExists, BindTask, SyncSkips, SyncRaises, wfVars
<1>12. CASE ActivateEnd
  BY <1>3, <1>4, <1>12 DEF ActivateEnd, AssignTeammate
<1>13. CASE SyncEnd
  <2>1. UNCHANGED <<plan, step, bound, revTask>> /\ MovesOn
    <3>1. CASE SubmitStructural(lead.method)
      BY <1>2, <1>13, <3>1 DEF SyncEnd, SubmitStructural, MoveTo, InStage, MovesOn
    <3>2. CASE UNCHANGED wfVars
      BY <1>4, <1>13, <3>2 DEF SyncEnd, wfVars
    <3>3. QED
      BY <1>13, <3>1, <3>2, Zenon DEF SyncEnd
  <2>2. QED
    BY <1>3, <2>1
<1>14. ASSUME NEW m \in Methods, RegulateRevise(m) PROVE Sound(Snapshot', status', blockedBy')
  <2>1. UNCHANGED <<plan, step, bound, revTask>>
    BY <1>14 DEF RegulateRevise, Regulate
  <2>2. MovesOn
    BY <1>2, <1>14 DEF RegulateRevise, Regulate, MoveTo, InStage, MovesOn
  <2>3. QED
    BY <1>3, <2>1, <2>2
<1>15. ASSUME NEW m \in Methods, SyncRevision(m) PROVE Sound(Snapshot', status', blockedBy')
  <2>1. UNCHANGED <<plan, step, bound>>
    BY <1>15 DEF SyncRevision, CompleteProofRevision, wfVars
  <2>2. MovesOn
    <3>1. CASE CompleteProofRevision(m)
      BY <1>2, <3>1 DEF CompleteProofRevision, MoveTo, InStage, MovesOn
    <3>2. CASE UNCHANGED wfVars
      BY <1>4, <3>2 DEF wfVars
    <3>3. QED
      BY <1>15, <3>1, <3>2, Zenon DEF SyncRevision
  <2>3. revTask' \in {revTask, [revTask EXCEPT ![m] = NoTask]}
    BY <1>15 DEF SyncRevision
  <2>4. CASE revTask' = revTask
    BY <1>3, <2>1, <2>2, <2>4
  <2>5. CASE revTask' = [revTask EXCEPT ![m] = NoTask]
    <3>1. revTask'[m] = NoTask /\ \A n \in Methods \ {m} : revTask'[n] = revTask[n]
      BY <1>2, <2>5
    <3>2. QED
      BY <1>1, <2>1, <2>2, <3>1, Live, SoundRevision DEF MovesOn
  <2>6. QED
    BY <2>3, <2>4, <2>5
<1>16. ASSUME NEW s \in Steps, SyncStarts(s) \/ SyncStartsAndCompletes(s) \/ SyncCompletes(s)
       PROVE  Sound(Snapshot', status', blockedBy')
  <2> DEFINE m == lead.method
  <2>1. m \in Methods
    BY <1>5, <1>16
       DEF SyncStarts, SyncStartsAndCompletes, SyncCompletes, SyncReads, Doing, LeadIdle
  <2>2. PICK v \in StepStatuses :
           /\ step' = [step EXCEPT ![m][s] = v]
           /\ bound[m][s] # NoTask
           /\ status[bound[m][s]] # "absent"
           /\ v = "completed" => status[bound[m][s]] = "completed"
    BY <1>16
       DEF SyncStarts, SyncStartsAndCompletes, SyncCompletes, SyncReads, StartStep, CompleteStep,
           StepStatuses
  <2>3. UNCHANGED <<plan, mstage, bound, revTask, status, blockedBy>>
    BY <1>16
       DEF SyncStarts, SyncStartsAndCompletes, SyncCompletes, StartStep, CompleteStep, boardVars
  <2>4. /\ step'[m][s] = v
        /\ \A n \in Methods, r \in Steps : n # m \/ r # s => step'[n][r] = step[n][r]
    BY <1>2, <2>1, <2>2
  <2>5. /\ Snapshot'.plan = Snapshot.plan /\ Snapshot'.bound = Snapshot.bound
        /\ Snapshot'.revTask = Snapshot.revTask /\ Snapshot'.mstage = Snapshot.mstage
        /\ \A n \in Methods, r \in Steps :
              n # m \/ r # s => Snapshot'.step[n][r] = Snapshot.step[n][r]
    BY <2>3, <2>4, Live
  <2>6. /\ Snapshot.bound[m][s] # NoTask
        /\ status'[Snapshot.bound[m][s]] # "absent"
        /\ Snapshot'.step[m][s] = "completed" => status'[Snapshot.bound[m][s]] = "completed"
    BY <2>2, <2>3, <2>4, Live
  <2> HIDE DEF m
  <2>7. QED
    BY <1>1, <2>1, <2>5, <2>6, SoundStep
<1>17. ASSUME NEW m \in Methods, NEW p \in Plans, ActivateBegin(m, p)
       PROVE  Sound(Snapshot', status', blockedBy')
  <2>1. /\ plan' = [plan EXCEPT ![m] = p] /\ step' = [step EXCEPT ![m] = AllPending]
        /\ bound' = [bound EXCEPT ![m] = Unbound] /\ revTask' = [revTask EXCEPT ![m] = NoTask]
        /\ mstage' = [mstage EXCEPT ![m] = "proving"]
    BY <1>17 DEF ActivateBegin, SetMethodPlan, MoveTo
  <2>2. p.steps # {} /\ \A s \in p.steps : p.deps[s] \subseteq p.steps
    BY <1>17 DEF ActivateBegin, SetMethodPlan, ValidPlan
  <2>3. /\ plan'[m] = p /\ step'[m] = AllPending /\ bound'[m] = Unbound /\ revTask'[m] = NoTask
        /\ \A n \in Methods \ {m} :
              /\ plan'[n] = plan[n] /\ step'[n] = step[n] /\ bound'[n] = bound[n]
              /\ revTask'[n] = revTask[n] /\ mstage'[n] = mstage[n]
    BY <1>2, <2>1
  <2>4. QED
    BY <1>1, <2>2, <2>3, Live, SoundReplan
<1>18. ASSUME NEW m \in Methods, NEW a \in RegulatorActions, RegulateReplan(m, a)
       PROVE  Sound(Snapshot', status', blockedBy')
  <2>1. /\ plan' = [plan EXCEPT ![m] = NoPlan] /\ step' = [step EXCEPT ![m] = AllPending]
        /\ bound' = [bound EXCEPT ![m] = Unbound] /\ revTask' = [revTask EXCEPT ![m] = NoTask]
        /\ mstage' = [mstage EXCEPT ![m] = "decomposition"]
    BY <1>18 DEF RegulateReplan, Regulate, MoveTo
  <2>2. /\ plan'[m] = NoPlan /\ step'[m] = AllPending /\ bound'[m] = Unbound /\ revTask'[m] = NoTask
        /\ mstage'[m] = "decomposition"
        /\ \A n \in Methods \ {m} :
              /\ plan'[n] = plan[n] /\ step'[n] = step[n] /\ bound'[n] = bound[n]
              /\ revTask'[n] = revTask[n] /\ mstage'[n] = mstage[n]
    BY <1>2, <2>1
  <2>3. plan'[m].steps = {}
    BY <2>2 DEF NoPlan
  <2>4. QED
    BY <1>1, <2>2, <2>3, Live, SoundReplan
<1>19. ASSUME NEW s \in Steps, NEW t \in Tasks, ActivateCreate(s, t)
       PROVE  Sound(Snapshot', status', blockedBy')
  <2> DEFINE m == lead.method
  <2>1. /\ m \in Methods /\ s \in plan[m].steps /\ s \in lead.todo
        /\ plan[m].deps[s] \cap lead.todo = {}
        /\ {bound[m][d] : d \in plan[m].deps[s]} \in SUBSET Tasks
    BY <1>19, NewTaskDependencies DEF ActivateCreate, Ready
  <2>2. /\ bound' = [bound EXCEPT ![m][s] = t]
        /\ UNCHANGED <<plan, step, mstage, revTask>>
        /\ status[t] = "absent"
        /\ status' = [status EXCEPT ![t] = "pending"]
        /\ blockedBy' = [blockedBy EXCEPT ![t] = {bound[m][d] : d \in plan[m].deps[s]}]
    BY <1>19 DEF ActivateCreate, wfVars, Board!Create
  <2>3. bound[m][s] = NoTask
    BY <1>19, <2>1 DEF ActivateCreate, HandlerInOrder
  <2>4. \A r \in plan[m].steps : bound[m][r] # NoTask => s \notin plan[m].deps[r]
    BY <1>19, <2>1 DEF ActivateCreate, HandlerInOrder
  <2>5. s \notin plan[m].deps[s]
    BY <2>1
  <2>6. status'[t] # "absent" /\ blockedBy'[t] = {bound[m][d] : d \in plan[m].deps[s]}
    BY <1>2, <2>2
  <2>7. \A n \in Methods, r \in Steps :
           bound'[n][r] = IF n = m /\ r = s THEN t ELSE bound[n][r]
    BY <1>2, <2>1, <2>2
  <2>8. \A n \in Methods : revTask[n] # t /\ \A r \in Steps : bound[n][r] # t
    BY <1>2, <2>2, Live, OrchAssumption DEF Sound, Named
  <2>9. /\ Snapshot'.plan = Snapshot.plan /\ Snapshot'.step = Snapshot.step
        /\ Snapshot'.revTask = Snapshot.revTask /\ Snapshot'.mstage = Snapshot.mstage
    BY <2>2, Live
  <2>10. /\ \A n \in Methods : /\ Snapshot.revTask[n] # t
                               /\ \A r \in Steps : Snapshot.bound[n][r] # t
         /\ Snapshot.bound[m][s] = NoTask
         /\ \A n \in Methods, r \in Steps :
               Snapshot'.bound[n][r] = IF n = m /\ r = s THEN t ELSE Snapshot.bound[n][r]
    BY <2>3, <2>7, <2>8, Live
  <2>11. /\ \A r \in Snapshot.plan[m].steps :
               Snapshot.bound[m][r] # NoTask => s \notin Snapshot.plan[m].deps[r]
         /\ s \notin Snapshot.plan[m].deps[s]
         /\ blockedBy'[t] = {Snapshot.bound[m][d] : d \in Snapshot.plan[m].deps[s]}
    BY <2>4, <2>5, <2>6, Live
  <2> HIDE DEF m
  <2>12. QED
    BY <1>1, <2>1, <2>6, <2>9, <2>10, <2>11, SoundBinding
<1>20. ASSUME NEW t \in Tasks, ReviseCreate(t) PROVE Sound(Snapshot', status', blockedBy')
  <2> DEFINE m == lead.method
  <2>1. /\ m \in Methods
        /\ revTask' = [revTask EXCEPT ![m] = t]
        /\ UNCHANGED <<plan, step, mstage, bound>>
        /\ status[t] = "absent"
        /\ status' = [status EXCEPT ![t] = "pending"]
    BY <1>5, <1>20 DEF ReviseCreate, wfVars, Board!Create, Doing, LeadIdle
  <2>2. /\ revTask'[m] = t /\ status'[t] # "absent"
        /\ \A n \in Methods \ {m} : revTask'[n] = revTask[n]
    BY <1>2, <2>1
  <2>3. \A n \in Methods, r \in Steps : bound[n][r] # t
    BY <1>2, <2>1, Live, OrchAssumption DEF Sound, Named
  <2>4. MovesOn
    BY <1>4, <2>1
  <2>5. /\ Snapshot'.plan = Snapshot.plan /\ Snapshot'.step = Snapshot.step
        /\ Snapshot'.bound = Snapshot.bound
        /\ \A n \in Methods :
              Snapshot'.mstage[n] # "decomposition" => Snapshot.mstage[n] # "decomposition"
    BY <2>1, <2>4, Live DEF MovesOn
  <2>6. \A n \in Methods \ {m} : Snapshot'.revTask[n] = Snapshot.revTask[n]
    BY <2>2, Live
  <2>7. /\ status'[Snapshot'.revTask[m]] # "absent"
        /\ \A n \in Methods, r \in Steps : Snapshot.bound[n][r] # Snapshot'.revTask[m]
    BY <2>2, <2>3, Live
  <2> HIDE DEF m
  <2>8. QED
    BY <1>1, <2>1, <2>5, <2>6, <2>7, SoundRevision
<1>21. QED
  BY <1>6, <1>7, <1>8, <1>9, <1>10, <1>11, <1>12, <1>13, <1>14, <1>15, <1>16, <1>17, <1>18,
     <1>19, <1>20 DEF OrchNext, LeadStep

(* A snapshot is of the live run.                                          *)
LEMMA SavedMoves == ASSUME OrchNext PROVE saved' = saved \/ saved' = Snapshot'
<1> USE DEF Save
<1>1. CASE ProverStep
  BY <1>1 DEF ProverStep, ProverClaims, ProverCompletes, HeartbeatFails, LeaseLapses
<1>2. CASE Restart \/ LeadFails \/ WorktreeKept \/ WorktreeAdded \/ ReviseBind
           \/ WorkflowOnly \/ ActivateEnd \/ SyncEnd
  BY <1>2, Zenon DEF Restart, LeadFails, WorktreeKept, WorktreeAdded, ReviseBind, WorkflowOnly,
                     ActivateEnd, SyncEnd
<1>3. ASSUME NEW m \in Methods,
             \/ RequestDecomposition(m) \/ SyncNothing(m) \/ SyncRevision(m) \/ SyncBegin(m)
             \/ RegulateRevise(m)
             \/ \E p \in Plans : ActivateBegin(m, p)
             \/ \E a \in RegulatorActions : RegulateReplan(m, a)
      PROVE  saved' = saved \/ saved' = Snapshot'
  BY <1>3, Zenon DEF RequestDecomposition, SyncNothing, SyncRevision, SyncBegin, RegulateRevise,
                     ActivateBegin, RegulateReplan
<1>4. ASSUME NEW s \in Steps,
             \/ \E t \in Tasks : ActivateCreate(s, t)
             \/ WorktreeExists(s) \/ BindTask(s) \/ SyncStarts(s) \/ SyncStartsAndCompletes(s)
             \/ SyncCompletes(s) \/ SyncSkips(s) \/ SyncRaises(s)
      PROVE  saved' = saved
  BY <1>4, Zenon DEF ActivateCreate, WorktreeExists, BindTask, SyncStarts, SyncStartsAndCompletes,
                     SyncCompletes, SyncSkips, SyncRaises
<1>5. ASSUME NEW t \in Tasks, ReviseCreate(t) PROVE saved' = saved
  BY <1>5, Zenon DEF ReviseCreate
<1>6. QED
  BY <1>1, <1>2, <1>3, <1>4, <1>5 DEF OrchNext, LeadStep

-----------------------------------------------------------------------------
(* The handler stays in order.                                             *)
LEMMA HandlerIdles == ASSUME lead'.op = "none" PROVE HandlerInOrder'
  BY DEF HandlerInOrder, LeadIdle, Doing

LEMMA HandlerKept ==
    ASSUME OrchTypeOK, Sound(Snapshot, status, blockedBy), HandlerInOrder, OrchNext
    PROVE  HandlerInOrder'
<1> USE DEF bindingVars, boardVars, wfVars, runVars, verdictVars
<1>1. /\ mstage \in [Methods -> MethodStages] /\ step \in [Methods -> [Steps -> StepStatuses]]
      /\ plan \in [Methods -> Plan]
      /\ bound \in [Methods -> [Steps -> Tasks \cup {NoTask}]]
      /\ revTask \in [Methods -> Tasks \cup {NoTask}]
      /\ lead \in Handlers
      /\ \A m \in Methods : plan[m].steps \subseteq Steps
  <2>1. plan \in [Methods -> Plan]
    BY DEF OrchTypeOK, WfTypeOK
  <2>2. QED
    BY <2>1 DEF OrchTypeOK, WfTypeOK, Handlers, Plan
<1>2. Grown(status, blockedBy, status', blockedBy')
  BY BoardKept
<1>3. ~LeadIdle => lead.method \in Methods
  BY DEF HandlerInOrder
<1>4. ASSUME \/ ActivateEnd \/ SyncEnd \/ ReviseBind \/ LeadFails \/ Restart
             \/ \E s \in Steps : SyncRaises(s)
      PROVE  HandlerInOrder'
  <2>1. Finish
    BY <1>4, Zenon DEF ActivateEnd, SyncEnd, ReviseBind, LeadFails, Restart, SyncRaises
  <2>2. QED
    BY <1>1, <2>1, LeadMoves, HandlerIdles
<1>5. ASSUME \/ WorkflowOnly
             \/ \E m \in Methods :
                   \/ RequestDecomposition(m) \/ SyncNothing(m) \/ SyncRevision(m)
                   \/ \E a \in RegulatorActions : RegulateReplan(m, a)
      PROVE  HandlerInOrder'
  <2>1. LeadIdle /\ lead' = lead
    BY <1>5, Zenon
       DEF WorkflowOnly, RequestDecomposition, SyncNothing, SyncRevision, RegulateReplan
  <2>2. QED
    BY <2>1, HandlerIdles DEF LeadIdle
<1>6. CASE ProverStep
  <2>1. UNCHANGED <<lead, wfVars, bindingVars>>
    BY <1>6 DEF ProverStep, ProverClaims, ProverCompletes, HeartbeatFails, LeaseLapses
  <2>2. ASSUME Doing("sync"), AllTasksCompleted(lead.method) PROVE AllTasksCompleted(lead.method)'
    <3>1. lead.method \in Methods
      BY <1>3, <2>2 DEF LeadIdle, Doing
    <3>2. \A s \in plan[lead.method].steps :
             /\ bound[lead.method][s] # NoTask /\ bound[lead.method][s] \in Tasks
             /\ status[bound[lead.method][s]] = "completed"
      BY <1>1, <2>2, <3>1 DEF AllTasksCompleted
    <3>3. QED
      BY <1>2, <2>1, <3>2 DEF AllTasksCompleted, Grown
  <2>3. QED
    BY <2>1, <2>2 DEF HandlerInOrder, LeadIdle, Doing, InStage, ActiveMethod
<1>7. ASSUME NEW m \in Methods, NEW p \in Plans, ActivateBegin(m, p) PROVE HandlerInOrder'
  <2>1. /\ lead' = [op |-> "create", method |-> m, todo |-> p.steps, caughtUp |-> FALSE]
        /\ plan' = [plan EXCEPT ![m] = p] /\ bound' = [bound EXCEPT ![m] = Unbound]
        /\ mstage' = [mstage EXCEPT ![m] = "proving"]
    BY <1>7 DEF ActivateBegin, SetMethodPlan, MoveTo
  <2>2. /\ lead'.op = "create" /\ lead'.method = m /\ lead'.todo = p.steps
        /\ plan'[m] = p /\ bound'[m] = Unbound /\ mstage'[m] = "proving"
    BY <1>1, <2>1
  <2>3. p.steps \subseteq Steps
    BY PlansAssumption DEF Plan
  <2>4. \A s \in p.steps : bound'[m][s] = NoTask
    BY <2>2, <2>3 DEF Unbound
  <2>5. QED
    BY <2>2, <2>4 DEF HandlerInOrder, LeadIdle, Doing
<1>8. ASSUME NEW s \in Steps, NEW t \in Tasks, ActivateCreate(s, t) PROVE HandlerInOrder'
  <2> DEFINE m == lead.method
  <2>1. /\ m \in Methods /\ s \in plan[m].steps /\ s \in lead.todo
        /\ plan[m].deps[s] \cap lead.todo = {}
    BY <1>8, NewTaskDependencies DEF ActivateCreate, Ready
  <2>2. /\ bound' = [bound EXCEPT ![m][s] = t] /\ UNCHANGED <<plan, mstage>> /\ t # NoTask
    BY <1>8, OrchAssumption DEF ActivateCreate
  <2>3. /\ lead'.op = "create" /\ lead'.method = m /\ lead'.todo = lead.todo \ {s}
    BY <1>1, <1>8, LeadMoves DEF ActivateCreate, Doing
  <2>4. \A r \in Steps : bound'[m][r] = IF r = s THEN t ELSE bound[m][r]
    BY <1>1, <2>1, <2>2
  <2>5. /\ mstage[m] = "proving"
        /\ lead.todo \subseteq plan[m].steps
        /\ \A r \in plan[m].steps :
              /\ r \in lead.todo => bound[m][r] = NoTask
              /\ r \notin lead.todo => bound[m][r] # NoTask /\ plan[m].deps[r] \cap lead.todo = {}
    BY <1>8 DEF ActivateCreate, HandlerInOrder, Doing
  <2>6. /\ \A r \in lead'.todo : bound'[m][r] = NoTask
        /\ \A r \in plan[m].steps \ lead'.todo :
              bound'[m][r] # NoTask /\ plan[m].deps[r] \cap lead'.todo = {}
    BY <1>1, <2>1, <2>2, <2>3, <2>4, <2>5
  <2> HIDE DEF m
  <2>7. QED
    BY <2>1, <2>2, <2>3, <2>5, <2>6 DEF HandlerInOrder, LeadIdle, Doing
<1>9. ASSUME \/ WorktreeKept \/ WorktreeAdded
             \/ \E s \in Steps : WorktreeExists(s)
      PROVE  HandlerInOrder'
  <2> DEFINE m == lead.method
  <2>1. PICK todo \in SUBSET plan[m].steps :
           /\ Doing("create") /\ lead.todo = {}
           /\ lead' = [lead EXCEPT !.op = "bind", !.todo = todo]
           /\ UNCHANGED <<plan, bound>>
    BY <1>9 DEF WorktreeKept, WorktreeAdded, WorktreeExists
  <2>2. lead'.op = "bind" /\ lead'.method = m /\ lead'.todo = todo
    BY <1>1, <2>1 DEF Handlers
  <2>3. m \in Methods /\ \A s \in plan[m].steps : bound[m][s] # NoTask
    BY <2>1 DEF HandlerInOrder, LeadIdle, Doing
  <2> HIDE DEF m
  <2>4. QED
    BY <2>1, <2>2, <2>3 DEF HandlerInOrder, LeadIdle, Doing
<1>10. ASSUME NEW s \in Steps, BindTask(s) PROVE HandlerInOrder'
  <2>1. /\ Doing("bind") /\ UNCHANGED <<plan, bound>> /\ StepDone(s)
    BY <1>10 DEF BindTask
  <2>2. lead'.op = "bind" /\ lead'.method = lead.method /\ lead'.todo = lead.todo \ {s}
    BY <1>1, <2>1, LeadMoves DEF Doing
  <2>3. QED
    BY <2>1, <2>2 DEF HandlerInOrder, LeadIdle, Doing
<1>11. ASSUME NEW m \in Methods, SyncBegin(m) PROVE HandlerInOrder'
  <2>1. /\ lead' = [op |-> "sync", method |-> m, todo |-> plan[m].steps,
                    caughtUp |-> AllTasksCompleted(m) /\ m \in assigned]
        /\ InStage(m, "proving") /\ m \notin revision
        /\ UNCHANGED <<wfVars, boardVars, bindingVars>>
    BY <1>11 DEF SyncBegin
  <2>2. /\ lead'.op = "sync" /\ lead'.method = m /\ lead'.todo = plan[m].steps
        /\ lead'.caughtUp => AllTasksCompleted(m) /\ m \in assigned
    BY <2>1
  <2>3. (AllTasksCompleted(m) => AllTasksCompleted(m)') /\ InStage(m, "proving")'
    BY <2>1 DEF AllTasksCompleted, InStage, ActiveMethod
  <2>4. QED
    BY <2>1, <2>2, <2>3 DEF HandlerInOrder, LeadIdle, Doing, AllTasksCompleted, InStage, ActiveMethod
<1>12. ASSUME NEW s \in Steps,
              SyncStarts(s) \/ SyncStartsAndCompletes(s) \/ SyncCompletes(s) \/ SyncSkips(s)
       PROVE  HandlerInOrder'
  <2> DEFINE m == lead.method
  <2>1. /\ Doing("sync") /\ s \in lead.todo /\ StepDone(s)
        /\ UNCHANGED <<runVars, plan, mstage, assigned, revision, bindingVars, boardVars>>
    BY <1>12 DEF SyncStarts, SyncStartsAndCompletes, SyncCompletes, SyncSkips, SyncReads, Ready,
                 StartStep, CompleteStep
  <2>2. /\ lead'.op = "sync" /\ lead'.method = m /\ lead'.todo = lead.todo \ {s}
        /\ lead'.caughtUp = lead.caughtUp
    BY <1>1, <2>1, LeadMoves DEF Doing
  <2>3. m \in Methods /\ lead.todo \subseteq plan[m].steps
    BY <2>1 DEF HandlerInOrder, LeadIdle, Doing
  <2>4. ASSUME lead.caughtUp PROVE \A r \in plan[m].steps \ lead'.todo : step'[m][r] = "completed"
    <3>1. status[bound[m][s]] = "completed"
      BY <2>1, <2>3, <2>4 DEF HandlerInOrder, AllTasksCompleted
    <3>2. \/ step' = [step EXCEPT ![m][s] = "completed"]
          \/ step' = step /\ step[m][s] = "completed"
      BY <1>12, <3>1
         DEF SyncStarts, SyncStartsAndCompletes, SyncCompletes, SyncSkips, SyncReads, CompleteStep
    <3>3. \A r \in Steps : step'[m][r] = IF r = s THEN "completed" ELSE step[m][r]
      BY <1>1, <2>3, <3>2
    <3>4. \A r \in plan[m].steps \ lead.todo : step[m][r] = "completed"
      BY <2>1, <2>4 DEF HandlerInOrder
    <3>5. QED
      BY <1>1, <2>2, <2>3, <3>3, <3>4
  <2>5. lead.caughtUp => /\ InStage(m, "proving") /\ m \in assigned /\ m \notin revision
                         /\ AllTasksCompleted(m)
    BY <2>1 DEF HandlerInOrder
  <2>6. QED
    BY <2>1, <2>2, <2>3, <2>4, <2>5
       DEF HandlerInOrder, LeadIdle, Doing, AllTasksCompleted, InStage, ActiveMethod
<1>13. ASSUME NEW m \in Methods, RegulateRevise(m) PROVE HandlerInOrder'
  <2>1. /\ lead' = [op |-> "revise", method |-> m, todo |-> {}, caughtUp |-> FALSE]
        /\ revision' = revision \cup {m}
    BY <1>13 DEF RegulateRevise, Regulate
  <2>2. QED
    BY <2>1 DEF HandlerInOrder, LeadIdle, Doing
<1>14. ASSUME NEW t \in Tasks, ReviseCreate(t) PROVE HandlerInOrder'
  <2>1. /\ Doing("revise") /\ lead' = [lead EXCEPT !.op = "rebind"]
        /\ revTask' = [revTask EXCEPT ![lead.method] = t] /\ t # NoTask
    BY <1>14, OrchAssumption DEF ReviseCreate
  <2>2. lead'.op = "rebind" /\ lead'.method = lead.method /\ lead.method \in Methods
    BY <1>1, <1>3, <2>1 DEF Handlers, LeadIdle, Doing
  <2>3. revTask'[lead.method] # NoTask
    BY <1>1, <2>1, <2>2
  <2>4. QED
    BY <2>2, <2>3 DEF HandlerInOrder, LeadIdle, Doing
<1>15. QED
  BY <1>4, <1>5, <1>6, <1>7, <1>8, <1>9, <1>10, <1>11, <1>12, <1>13, <1>14 DEF OrchNext, LeadStep

-----------------------------------------------------------------------------
(* The invariant: the live run and the saved one are both sound against    *)
(* the same board, which is why dying and restoring at any moment is safe. *)
OrchInv ==
    /\ OrchTypeOK
    /\ Sound(Snapshot, status, blockedBy)
    /\ Sound(saved, status, blockedBy)
    /\ HandlerInOrder

LEMMA OrchBegins == OrchInit => OrchInv
<1> SUFFICES ASSUME OrchInit PROVE OrchInv
  OBVIOUS
<1>1. WfTypeOK
  BY WfTypeInit DEF OrchInit
<1>2. OrchTypeOK
  <2>1. BoardTyped
    BY DEF OrchInit, Board!Init, BoardTyped
  <2>2. BindingsTyped
    BY DEF OrchInit, BindingsTyped, Unbound
  <2>3. lead \in Handlers
    BY DEF OrchInit, Handlers, Idle, LeadOps
  <2>4. DiskTyped
    BY OrchAssumption DEF OrchInit, DiskTyped, NoContext
  <2>5. QED
    BY <1>1, <2>1, <2>2, <2>3, <2>4, OrchTypeParts
<1>3. /\ \A m \in Methods : /\ plan[m].steps = {} /\ mstage[m] = "decomposition"
                            /\ revTask[m] = NoTask
      /\ \A m \in Methods, s \in Steps : bound[m][s] = NoTask
  BY DEF OrchInit, WfInit, NoPlan, Unbound
<1>4. Sound(Snapshot, status, blockedBy)
  <2>1. Planned(Snapshot) /\ Named(Snapshot, status)
    BY <1>3, Live DEF Planned, Named
  <2>2. Backed(Snapshot, status) /\ Mirrored(Snapshot, blockedBy)
    BY <1>3, Live DEF Backed, Mirrored
  <2>3. Apart(Snapshot)
    BY <1>3, Live DEF Apart
  <2>4. QED
    BY <1>2, <2>1, <2>2, <2>3, LiveTyped DEF Sound
<1>5. saved = Snapshot
  BY DEF OrchInit
<1>6. HandlerInOrder
  BY DEF OrchInit, Idle, HandlerInOrder, LeadIdle, Doing
<1>7. QED
  BY <1>2, <1>4, <1>5, <1>6 DEF OrchInv

LEMMA OrchStep == OrchInv /\ [OrchNext]_vars => OrchInv'
<1> SUFFICES ASSUME OrchInv, [OrchNext]_vars PROVE OrchInv'
  OBVIOUS
<1>1. CASE OrchNext
  <2>1. saved \in Snapshots
    BY DEF OrchInv, Sound
  <2>2. OrchTypeOK'
    BY <1>1, <2>1, TypesKept DEF OrchInv
  <2>3. Sound(Snapshot', status', blockedBy')
    BY <1>1, <2>2, LiveSound DEF OrchInv
  <2>4. Sound(saved', status', blockedBy')
    <3>1. Sound(saved, status', blockedBy')
      BY <1>1, BoardKept, SoundStays DEF OrchInv
    <3>2. QED
      BY <1>1, <2>3, <3>1, SavedMoves
  <2>5. HandlerInOrder'
    BY <1>1, HandlerKept DEF OrchInv
  <2>6. QED
    BY <2>2, <2>3, <2>4, <2>5 DEF OrchInv
<1>2. CASE UNCHANGED vars
  <2> USE <1>2 DEF vars, wfVars, boardVars, diskVars, bindingVars, countVars
  <2>1. WfTypeOK' /\ BoardTyped' /\ BindingsTyped' /\ lead' \in Handlers /\ DiskTyped'
    BY OrchTypeParts DEF OrchInv, WfTypeOK, BoardTyped, BindingsTyped, DiskTyped
  <2>2. Snapshot' = Snapshot
    BY DEF Snapshot
  <2>3. HandlerInOrder'
    BY DEF OrchInv, HandlerInOrder, LeadIdle, Doing, InStage, ActiveMethod, AllTasksCompleted
  <2>4. QED
    BY <2>1, <2>2, <2>3, OrchTypeParts DEF OrchInv
<1>3. QED
  BY <1>1, <1>2

(* The orchestrator's types, the soundness of the live run and of the last *)
(* snapshot, and the order of its handlers hold through every step of the  *)
(* lead and the provers, every failure and every restart.                  *)
(* (research/orchestration.py)                                             *)
THEOREM OrchInvariant == OrchSpec => []OrchInv
  BY OrchBegins, OrchStep, PTL DEF OrchSpec

(* A step of the workflow is worked on or done only as far as the durable  *)
(* task bound to it shows, for any plans, any number of provers, failing   *)
(* calls and restarts.  (research/orchestration.py)                        *)
THEOREM StepsAreBacked == OrchSpec => []StepsBackedByTasks
<1>1. OrchInv => StepsBackedByTasks
  <2> SUFFICES ASSUME OrchInv PROVE StepsBackedByTasks
    OBVIOUS
  <2>1. Backed(Snapshot, status)
    BY DEF OrchInv, Sound
  <2>2. QED
    BY <2>1, Live DEF Backed, StepsBackedByTasks
<1>2. QED
  BY <1>1, OrchInvariant, PTL

(* Whatever generation of tasks a binding names, they depend on each other *)
(* as the plan says, and no task serves two steps or revisions, for any    *)
(* snapshots and restarts: a new task has an id no snapshot can name.      *)
(* (research/orchestration.py: activate_method, _restore_persisted_state)  *)
THEOREM TasksStayWithTheirPlan == OrchSpec => []TasksServeThePlan
<1>1. OrchInv => TasksServeThePlan
  <2> SUFFICES ASSUME OrchInv PROVE TasksServeThePlan
    OBVIOUS
  <2>1. Mirrored(Snapshot, blockedBy) /\ Apart(Snapshot)
    BY DEF OrchInv, Sound
  <2>2. TasksMirrorPlan
    BY <2>1, Live DEF Mirrored, TasksMirrorPlan
  <2>3. BindingsDisjoint
    BY <2>1, Live DEF Apart, BindingsDisjoint
  <2>4. QED
    BY <2>2, <2>3 DEF TasksServeThePlan
<1>2. QED
  BY <1>1, OrchInvariant, PTL

(* The orchestrator and its provers use the task table only in the ways    *)
(* the board allows, restarts included.                                    *)
THEOREM OrchUsesTheBoard == OrchSpec => Board!Spec
<1>1. OrchInit => Board!Init
  BY DEF OrchInit
<1>2. OrchInv /\ [OrchNext]_vars => [Board!Next]_(Board!vars)
  <2> SUFFICES ASSUME OrchInv, [OrchNext]_vars PROVE [Board!Next]_(Board!vars)
    OBVIOUS
  <2>1. CASE OrchNext
    <3>1. BoardStep \/ UNCHANGED boardVars
      BY <2>1, BoardMoves DEF OrchInv
    <3>2. BoardStep => Board!Next
      <4>1. \A t \in Tasks : {t} \in SUBSET Tasks
        OBVIOUS
      <4>2. QED
        BY <4>1, Zenon DEF BoardStep, Board!Next
    <3>3. QED
      BY <3>1, <3>2 DEF boardVars, Board!vars
  <2>2. CASE UNCHANGED vars
    BY <2>2 DEF vars, boardVars, Board!vars
  <2>3. QED
    BY <2>1, <2>2
<1>3. QED
  BY <1>1, <1>2, OrchInvariant, PTL DEF OrchSpec, Board!Spec

(* A pass that finds every task of a method completed moves the method to  *)
(* review: its steps can be read in the order of their dependencies, none  *)
(* is refused, and none is left.  (research/orchestration.py: sync_method) *)
THEOREM SyncAlwaysCatchesUp == OrchSpec => SyncCatchesUp
<1> DEFINE Caught == Doing("sync") /\ lead.caughtUp /\ LeadIdle' /\ faults' = faults
                     /\ crashes' = crashes => mstage'[lead.method] = "structural_verify"
<1>1. OrchInv /\ [OrchNext]_vars => [Caught]_vars
  <2> SUFFICES ASSUME OrchInv, OrchNext, Doing("sync"), lead.caughtUp, LeadIdle',
                      faults' = faults, crashes' = crashes
               PROVE  mstage'[lead.method] = "structural_verify"
    BY DEF vars
  <2> DEFINE m == lead.method
  <2>1. /\ m \in Methods /\ InStage(m, "proving") /\ m \in assigned /\ m \notin revision
        /\ AllTasksCompleted(m) /\ lead.todo \subseteq plan[m].steps
        /\ \A s \in plan[m].steps \ lead.todo : step[m][s] = "completed"
    BY DEF OrchInv, HandlerInOrder, LeadIdle, Doing
  <2>2. /\ mstage \in [Methods -> MethodStages] /\ crashes \in Nat /\ faults \in Nat
        /\ lead \in Handlers
    BY OrchAssumption, OrchTypeParts DEF OrchInv, OrchTypeOK, WfTypeOK
  <2>3. /\ plan[m].steps # {}
        /\ \A s \in plan[m].steps : plan[m].deps[s] \subseteq plan[m].steps
    <3>1. Planned(Snapshot) /\ mstage[m] = "proving"
      BY <2>1 DEF OrchInv, Sound, InStage
    <3>2. QED
      BY <2>1, <3>1, Live DEF Planned
  <2>4. lead.op = "sync" /\ lead'.op = "none"
    BY DEF Doing, LeadIdle
  <2>5. ASSUME NEW s \in Steps, SyncRaises(s) PROVE FALSE
    <3>1. s \in lead.todo /\ s \in plan[m].steps /\ plan[m].deps[s] \cap lead.todo = {}
      BY <2>1, <2>5 DEF SyncRaises, Ready
    <3>2. bound[m][s] # NoTask
      BY <2>1, <3>1 DEF AllTasksCompleted
    <3>3. step[m][s] = "pending" /\ ~CanStart(m, s)
      BY <2>5, <3>2 DEF SyncRaises, SyncReads
    <3>4. DepsCompleted(m, s)
      BY <2>1, <2>3, <3>1 DEF DepsCompleted
    <3>5. QED
      BY <2>1, <3>1, <3>3, <3>4 DEF CanStart
  <2>6. CASE SyncEnd
    <3>1. lead.todo = {}
      BY <2>6 DEF SyncEnd
    <3>2. AllStepsCompleted(m)
      BY <2>1, <2>3, <3>1 DEF AllStepsCompleted
    <3>3. SubmitStructural(m)
      BY <2>6, <3>2, Zenon DEF SyncEnd
    <3>4. QED
      BY <2>1, <2>2, <3>3 DEF SubmitStructural, MoveTo
  <2>7. ASSUME NEW s \in Steps,
               \/ SyncStarts(s) \/ SyncStartsAndCompletes(s) \/ SyncCompletes(s) \/ SyncSkips(s)
        PROVE  FALSE
    <3>1. StepDone(s)
      BY <2>7, Zenon DEF SyncStarts, SyncStartsAndCompletes, SyncCompletes, SyncSkips
    <3>2. QED
      BY <2>2, <2>4, <3>1, LeadMoves
  <2>8. CASE LeadFails
    BY <2>2, <2>8 DEF LeadFails
  <2>9. CASE Restart
    BY <2>2, <2>9 DEF Restart
  <2>10. CASE ProverStep
    <3>1. lead' = lead
      BY <2>10 DEF ProverStep, ProverClaims, ProverCompletes, HeartbeatFails, LeaseLapses
    <3>2. QED
      BY <2>4, <3>1
  <2>11. CASE WorkflowOnly \/ WorktreeKept \/ WorktreeAdded \/ ActivateEnd \/ ReviseBind
    BY <2>4, <2>11
       DEF WorkflowOnly, WorktreeKept, WorktreeAdded, ActivateEnd, ReviseBind, LeadIdle, Doing
  <2>12. ASSUME NEW k \in Methods,
                \/ RequestDecomposition(k) \/ SyncNothing(k) \/ SyncRevision(k) \/ SyncBegin(k)
                \/ RegulateRevise(k)
                \/ \E p \in Plans : ActivateBegin(k, p)
                \/ \E a \in RegulatorActions : RegulateReplan(k, a)
         PROVE  FALSE
    <3>1. LeadIdle
      BY <2>12, Zenon DEF RequestDecomposition, SyncNothing, SyncRevision, SyncBegin, RegulateRevise,
                          ActivateBegin, RegulateReplan
    <3>2. QED
      BY <2>4, <3>1 DEF LeadIdle
  <2>13. ASSUME NEW s \in Steps,
                (\E t \in Tasks : ActivateCreate(s, t)) \/ WorktreeExists(s) \/ BindTask(s)
         PROVE  FALSE
    BY <2>4, <2>13 DEF ActivateCreate, WorktreeExists, BindTask, Doing
  <2>14. ASSUME NEW t \in Tasks, ReviseCreate(t) PROVE FALSE
    BY <2>4, <2>14 DEF ReviseCreate, Doing
  <2>15. QED
    BY <2>5, <2>6, <2>7, <2>8, <2>9, <2>10, <2>11, <2>12, <2>13, <2>14 DEF OrchNext, LeadStep
<1>2. QED
  BY <1>1, OrchInvariant, PTL DEF OrchSpec, SyncCatchesUp

-----------------------------------------------------------------------------
(* While nothing has failed, every task that is open is bound: a binding   *)
(* is dropped only once its task is completed.  That takes the order of    *)
(* the method's stages, its revision and its bindings.                     *)
Held(t) == \E m \in Methods : revTask[m] = t \/ \E s \in Steps : bound[m][s] = t
FreshMethod(m) ==
    /\ m \in revision => mstage[m] = "proving" /\ AllStepsCompleted(m)
    /\ revTask[m] # NoTask => m \in revision
    /\ mstage[m] = "decomposition" => \A s \in Steps : bound[m][s] = NoTask
    /\ mstage[m] \in InReview => AllStepsCompleted(m)
    /\ \A s \in Steps : bound[m][s] # NoTask => s \in plan[m].steps
FreshInOrder ==
    /\ Doing("revise") => revTask[lead.method] = NoTask
    /\ \A m \in Methods : FreshMethod(m)
    /\ \A t \in Tasks : status[t] \in {"pending", "in_progress"} => Held(t)

(* Failures and restarts are counted, and never forgotten.                 *)
LEMMA FreshBefore ==
    ASSUME OrchTypeOK, OrchNext, Fresh'
    PROVE  Fresh /\ ~LeadFails /\ ~Restart
<1>0. crashes \in Nat /\ faults \in Nat
  BY OrchAssumption DEF OrchTypeOK
<1>1. Save \/ UNCHANGED countVars => Fresh
  BY <1>0 DEF Save, Fresh, countVars
<1>2. ~LeadFails /\ ~Restart
  BY <1>0 DEF LeadFails, Restart, Fresh
<1>3. CASE WorkflowOnly \/ WorktreeKept \/ WorktreeAdded \/ ActivateEnd \/ SyncEnd \/ ReviseBind
  <2>1. Save \/ UNCHANGED countVars
    BY <1>3, Zenon DEF WorkflowOnly, WorktreeKept, WorktreeAdded, ActivateEnd, SyncEnd, ReviseBind
  <2>2. QED
    BY <1>1, <1>2, <2>1, Zenon
<1>4. ASSUME NEW m \in Methods,
             \/ RequestDecomposition(m) \/ SyncNothing(m) \/ SyncRevision(m) \/ SyncBegin(m)
             \/ RegulateRevise(m)
             \/ \E p \in Plans : ActivateBegin(m, p)
             \/ \E a \in RegulatorActions : RegulateReplan(m, a)
      PROVE  Fresh
  BY <1>1, <1>4, Zenon DEF RequestDecomposition, SyncNothing, SyncRevision, SyncBegin,
                           RegulateRevise, ActivateBegin, RegulateReplan
<1>5. ASSUME NEW s \in Steps,
             \/ \E t \in Tasks : ActivateCreate(s, t)
             \/ WorktreeExists(s) \/ BindTask(s) \/ SyncStarts(s) \/ SyncStartsAndCompletes(s)
             \/ SyncCompletes(s) \/ SyncSkips(s) \/ SyncRaises(s)
      PROVE  Fresh
  BY <1>1, <1>5, Zenon DEF ActivateCreate, WorktreeExists, BindTask, SyncStarts,
                           SyncStartsAndCompletes, SyncCompletes, SyncSkips, SyncRaises
<1>6. ASSUME NEW t \in Tasks, ReviseCreate(t) PROVE Fresh
  BY <1>1, <1>6, Zenon DEF ReviseCreate
<1>7. CASE ProverStep
  <2>1. UNCHANGED countVars
    BY <1>7 DEF ProverStep, ProverClaims, ProverCompletes, HeartbeatFails, LeaseLapses
  <2>2. QED
    BY <1>1, <1>2, <2>1
<1>8. QED
  BY <1>2, <1>3, <1>4, <1>5, <1>6, <1>7 DEF OrchNext, LeadStep

(* No task opens but one that is created.                                  *)
LEMMA OpenTasks ==
    ASSUME OrchTypeOK, ProverStep, NEW t \in Tasks, status'[t] \in {"pending", "in_progress"}
    PROVE  status[t] \in {"pending", "in_progress"}
<1>1. status \in [Tasks -> {"absent", "pending", "in_progress", "completed"}]
  BY DEF OrchTypeOK
<1>2. ASSUME NEW w \in Provers, NEW u \in Tasks, ProverClaims(w, u)
      PROVE  status[t] \in {"pending", "in_progress"}
  BY <1>1, <1>2 DEF ProverClaims, Board!Claim, Board!Open
<1>3. ASSUME NEW w \in Provers, ProverCompletes(w) PROVE status[t] \in {"pending", "in_progress"}
  BY <1>1, <1>3 DEF ProverCompletes, Board!Complete
<1>4. ASSUME NEW w \in Provers, HeartbeatFails(w) PROVE status[t] \in {"pending", "in_progress"}
  BY <1>4 DEF HeartbeatFails, boardVars
<1>5. ASSUME NEW u \in Tasks, LeaseLapses(u) PROVE status[t] \in {"pending", "in_progress"}
  BY <1>1, <1>5 DEF LeaseLapses, Board!Release
<1>6. QED
  BY <1>2, <1>3, <1>4, <1>5 DEF ProverStep

(* A step that neither drops nor makes a binding, nor moves a method.      *)
LEMMA FreshStays ==
    ASSUME FreshInOrder, UNCHANGED <<bound, revTask, plan, step, mstage, revision>>,
           Doing("revise")' => lead' = lead,
           \A t \in Tasks : status'[t] \in {"pending", "in_progress"} =>
              status[t] \in {"pending", "in_progress"}
    PROVE  FreshInOrder'
<1>1. \A m \in Methods : FreshMethod(m)'
  BY DEF FreshInOrder, FreshMethod, AllStepsCompleted
<1>2. \A t \in Tasks : status'[t] \in {"pending", "in_progress"} => Held(t)'
  BY DEF FreshInOrder, Held
<1>3. Doing("revise")' => revTask'[lead'.method] = NoTask
  BY DEF FreshInOrder, Doing
<1>4. QED
  BY <1>1, <1>2, <1>3 DEF FreshInOrder

(* A step that moves methods and steps only, and no step back.             *)
LEMMA FreshMoves ==
    ASSUME FreshInOrder, UNCHANGED <<bound, revTask, plan, status>>,
           ~Doing("revise")',
           \A m \in Methods : AllStepsCompleted(m) => AllStepsCompleted(m)',
           \A m \in Methods :
              /\ m \in revision' => m \in revision /\ mstage'[m] = mstage[m]
              /\ m \in revision \ revision' => revTask[m] = NoTask
              /\ mstage'[m] = "decomposition" => mstage[m] = "decomposition"
              /\ mstage'[m] \in InReview => mstage[m] \in InReview \/ AllStepsCompleted(m)'
    PROVE  FreshInOrder'
<1>1. ASSUME NEW m \in Methods PROVE FreshMethod(m)'
  <2>1. FreshMethod(m)
    BY DEF FreshInOrder
  <2>2. QED
    BY <2>1 DEF FreshMethod
<1>2. \A t \in Tasks : status'[t] \in {"pending", "in_progress"} => Held(t)'
  BY DEF FreshInOrder, Held
<1>3. QED
  BY <1>1, <1>2 DEF FreshInOrder

(* What a method is bound to is done with once all its steps are.          *)
LEMMA FreshDone ==
    ASSUME OrchInv, FreshInOrder, NEW m \in Methods, AllStepsCompleted(m), NEW s \in Steps,
           bound[m][s] # NoTask
    PROVE  status[bound[m][s]] = "completed"
<1>1. s \in plan[m].steps
  BY DEF FreshInOrder, FreshMethod
<1>2. step[m][s] = "completed"
  BY <1>1 DEF AllStepsCompleted
<1>3. Backed(Snapshot, status)
  BY DEF OrchInv, Sound
<1>4. QED
  BY <1>1, <1>2, <1>3, Live DEF Backed

(* No step of a run without failures drops the binding of an open task.    *)
LEMMA FreshStep ==
    ASSUME OrchInv, FreshInOrder, OrchNext, ~LeadFails, ~Restart
    PROVE  FreshInOrder'
<1> USE DEF bindingVars, boardVars, wfVars, runVars, verdictVars
<1>1. /\ OrchTypeOK /\ HandlerInOrder
      /\ mstage \in [Methods -> MethodStages] /\ step \in [Methods -> [Steps -> StepStatuses]]
      /\ plan \in [Methods -> Plan]
      /\ bound \in [Methods -> [Steps -> Tasks \cup {NoTask}]]
      /\ revTask \in [Methods -> Tasks \cup {NoTask}]
      /\ status \in [Tasks -> {"absent", "pending", "in_progress", "completed"}]
      /\ NoTask \notin Tasks
      /\ lead \in Handlers
  BY OrchAssumption, OrchTypeParts DEF OrchInv, OrchTypeOK, WfTypeOK
<1>2. \A m \in Methods : FreshMethod(m)
  BY DEF FreshInOrder
<1>3. ~LeadIdle => lead.method \in Methods
  BY DEF OrchInv, HandlerInOrder
<1>4. \A t \in Tasks : status[t] \in {"pending", "in_progress"} => Held(t)
  BY DEF FreshInOrder
<1>5. Finish => ~Doing("revise")'
  BY DEF Finish, Idle, Doing
<1>6. CASE ProverStep
  <2>1. /\ UNCHANGED <<bound, revTask, plan, step, mstage, revision>>
        /\ lead' = lead
    BY <1>6 DEF ProverStep, ProverClaims, ProverCompletes, HeartbeatFails, LeaseLapses
  <2>2. \A t \in Tasks : status'[t] \in {"pending", "in_progress"} =>
           status[t] \in {"pending", "in_progress"}
    BY <1>1, <1>6, OpenTasks
  <2>3. QED
    BY <2>1, <2>2, FreshStays
(* Steps of the lead that leave methods, bindings and tasks alone.         *)
<1>7. ASSUME UNCHANGED <<bound, revTask, plan, step, mstage, revision, status>>,
             lead' = lead \/ ~Doing("revise")'
      PROVE  FreshInOrder'
  BY <1>7, FreshStays
<1>8. ASSUME NEW m \in Methods, RequestDecomposition(m) \/ SyncNothing(m)
      PROVE  FreshInOrder'
  BY <1>7, <1>8 DEF RequestDecomposition, SyncNothing
<1>9. ASSUME NEW m \in Methods, SyncBegin(m) PROVE FreshInOrder'
  <2>1. ~Doing("revise")'
    BY <1>9 DEF SyncBegin, Doing
  <2>2. QED
    BY <1>7, <1>9, <2>1 DEF SyncBegin
<1>10. ASSUME NEW s \in Steps, BindTask(s) \/ SyncSkips(s) PROVE FreshInOrder'
  <2>1. StepDone(s) /\ lead.op \in {"bind", "sync"}
    BY <1>10 DEF BindTask, SyncSkips, SyncReads, Doing
  <2>2. ~Doing("revise")'
    BY <1>1, <2>1, LeadMoves DEF Doing
  <2>3. QED
    BY <1>7, <1>10, <2>2 DEF BindTask, SyncSkips
<1>11. ASSUME NEW s \in Steps, SyncRaises(s) PROVE FreshInOrder'
  BY <1>5, <1>7, <1>11 DEF SyncRaises
<1>12. ASSUME WorktreeKept \/ WorktreeAdded \/ \E s \in Steps : WorktreeExists(s)
       PROVE  FreshInOrder'
  <2>1. lead'.op = "bind"
    BY <1>1, <1>12 DEF WorktreeKept, WorktreeAdded, WorktreeExists, Handlers
  <2>2. UNCHANGED <<bound, revTask, plan, step, mstage, revision, status>>
    BY <1>12 DEF WorktreeKept, WorktreeAdded, WorktreeExists
  <2>3. QED
    BY <1>7, <2>1, <2>2 DEF Doing
<1>13. CASE ActivateEnd \/ ReviseBind
  <2>1. UNCHANGED <<bound, revTask, plan, step, mstage, revision, status>> /\ Finish
    BY <1>13 DEF ActivateEnd, ReviseBind, AssignTeammate
  <2>2. QED
    BY <1>5, <1>7, <2>1
(* Steps that move the workflow.                                           *)
<1>14. CASE WorkflowOnly
  <2>1. UNCHANGED <<bound, revTask, plan, step, status, revision>>
    BY <1>14, WorkflowMovesOn, <1>1 DEF WorkflowOnly, methodVars, CompleteSurvey, FailSurvey,
       CompleteDirectProof, RecordStructural, RecordDetailed, BeginSummary, CompleteSummary
  <2>2. ~Doing("revise")'
    BY <1>14 DEF WorkflowOnly, LeadIdle, Doing
  <2>3. \A m \in Methods : mstage'[m] # mstage[m] =>
           /\ mstage[m] \in {"structural_verify", "detailed_verify"}
           /\ mstage'[m] # "decomposition"
    BY <1>1, <1>14 DEF WorkflowOnly, methodVars, CompleteSurvey, FailSurvey,
       CompleteDirectProof, RecordStructural, RecordDetailed, BeginSummary, CompleteSummary,
       MoveTo, InStage
  <2>4. \A m \in Methods : AllStepsCompleted(m) => AllStepsCompleted(m)'
    BY <2>1 DEF AllStepsCompleted
  <2>5. ASSUME NEW m \in Methods
        PROVE  /\ m \in revision' => m \in revision /\ mstage'[m] = mstage[m]
               /\ m \in revision \ revision' => revTask[m] = NoTask
               /\ mstage'[m] = "decomposition" => mstage[m] = "decomposition"
               /\ mstage'[m] \in InReview => mstage[m] \in InReview \/ AllStepsCompleted(m)'
    BY <1>2, <2>1, <2>3 DEF FreshMethod, InReview
  <2>6. QED
    BY <2>1, <2>2, <2>4, <2>5, FreshMoves
<1>15. ASSUME NEW s \in Steps, SyncStarts(s) \/ SyncStartsAndCompletes(s) \/ SyncCompletes(s)
       PROVE  FreshInOrder'
  <2> DEFINE m == lead.method
  <2>1. m \in Methods /\ lead.op = "sync" /\ StepDone(s)
    BY <1>3, <1>15
       DEF SyncStarts, SyncStartsAndCompletes, SyncCompletes, SyncReads, Doing, LeadIdle
  <2>2. UNCHANGED <<bound, revTask, plan, mstage, revision, status>>
    BY <1>15 DEF SyncStarts, SyncStartsAndCompletes, SyncCompletes, StartStep, CompleteStep
  <2>3. PICK v \in StepStatuses : step' = [step EXCEPT ![m][s] = v]
    BY <1>15
       DEF SyncStarts, SyncStartsAndCompletes, SyncCompletes, StartStep, CompleteStep, StepStatuses
  <2>4. s \in plan[m].steps /\ step[m][s] # "completed"
    BY <1>15 DEF SyncStarts, SyncStartsAndCompletes, SyncCompletes, StartStep, CompleteStep, CanStart
  <2>5. \A n \in Methods : AllStepsCompleted(n) => AllStepsCompleted(n)'
    <3>1. ASSUME NEW n \in Methods, AllStepsCompleted(n) PROVE AllStepsCompleted(n)'
      <4>1. n # m
        BY <2>4, <3>1 DEF AllStepsCompleted
      <4>2. step'[n] = step[n]
        BY <1>1, <2>1, <2>3, <4>1
      <4>3. QED
        BY <2>2, <3>1, <4>2 DEF AllStepsCompleted
    <3>2. QED
      BY <3>1
  <2>6. ~Doing("revise")'
    BY <1>1, <2>1, LeadMoves DEF Doing
  <2>7. QED
    BY <2>2, <2>5, <2>6, FreshMoves
<1>16. CASE SyncEnd
  <2> DEFINE m == lead.method
  <2>1. UNCHANGED <<bound, revTask, status>> /\ Finish /\ m \in Methods
    BY <1>3, <1>16 DEF SyncEnd, LeadIdle, Doing
  <2>2. CASE UNCHANGED wfVars
    BY <1>5, <1>7, <2>1, <2>2
  <2>3. CASE SubmitStructural(m) /\ AllStepsCompleted(m)
    <3>1. UNCHANGED <<plan, step, revision>> /\ m \notin revision
      BY <2>3 DEF SubmitStructural
    <3>2. mstage' = [mstage EXCEPT ![m] = "structural_verify"]
      BY <2>3 DEF SubmitStructural, MoveTo
    <3>3. \A n \in Methods : AllStepsCompleted(n) => AllStepsCompleted(n)'
      BY <3>1 DEF AllStepsCompleted
    <3>4. ASSUME NEW n \in Methods
          PROVE  /\ n \in revision' => n \in revision /\ mstage'[n] = mstage[n]
                 /\ n \in revision \ revision' => revTask[n] = NoTask
                 /\ mstage'[n] = "decomposition" => mstage[n] = "decomposition"
                 /\ mstage'[n] \in InReview => mstage[n] \in InReview \/ AllStepsCompleted(n)'
      BY <1>1, <2>1, <2>3, <3>1, <3>2, <3>3
    <3>5. QED
      BY <1>5, <2>1, <3>1, <3>3, <3>4, FreshMoves
  <2>4. QED
    BY <1>16, <2>2, <2>3, Zenon DEF SyncEnd
(* Steps that drop or make bindings.                                       *)
<1>17. ASSUME NEW m \in Methods, SyncRevision(m) PROVE FreshInOrder'
  <2>1. UNCHANGED <<bound, status, lead>> /\ LeadIdle /\ revTask[m] # NoTask
    BY <1>17 DEF SyncRevision
  <2>2. CASE UNCHANGED <<wfVars, revTask>>
    BY <1>7, <2>1, <2>2
  <2>3. CASE /\ status[revTask[m]] = "completed"
             /\ CompleteProofRevision(m) /\ revTask' = [revTask EXCEPT ![m] = NoTask]
    <3>1. /\ UNCHANGED <<plan, step>> /\ m \in revision /\ revision' = revision \ {m}
          /\ mstage' = [mstage EXCEPT ![m] = "structural_verify"]
      BY <2>3 DEF CompleteProofRevision, MoveTo
    <3>2. AllStepsCompleted(m)
      BY <1>2, <3>1 DEF FreshMethod
    <3>3. ASSUME NEW n \in Methods PROVE FreshMethod(n)'
      <4>1. AllStepsCompleted(n)' <=> AllStepsCompleted(n)
        BY <3>1 DEF AllStepsCompleted
      <4>2. CASE n = m
        <5>1. /\ n \notin revision' /\ revTask'[n] = NoTask
              /\ mstage'[n] = "structural_verify" /\ AllStepsCompleted(n)'
          BY <1>1, <2>3, <3>1, <3>2, <4>1, <4>2
        <5>2. \A s \in Steps : bound'[n][s] # NoTask => s \in plan'[n].steps
          BY <1>2, <2>1, <3>1 DEF FreshMethod
        <5>3. QED
          BY <5>1, <5>2 DEF FreshMethod
      <4>3. CASE n # m
        <5>1. /\ n \in revision' <=> n \in revision
              /\ revTask'[n] = revTask[n] /\ mstage'[n] = mstage[n]
          BY <1>1, <2>3, <3>1, <4>3
        <5>2. QED
          BY <1>2, <2>1, <3>1, <4>1, <5>1 DEF FreshMethod
      <4>4. QED
        BY <4>2, <4>3
    <3>4. ASSUME NEW t \in Tasks, status'[t] \in {"pending", "in_progress"} PROVE Held(t)'
      <4>1. Held(t) /\ revTask[m] # t
        BY <1>4, <2>1, <2>3, <3>4
      <4>2. \A n \in Methods : revTask[n] = t => revTask'[n] = t
        BY <1>1, <2>3, <4>1
      <4>3. QED
        BY <2>1, <4>1, <4>2 DEF Held
    <3>5. ~Doing("revise")'
      BY <2>1 DEF LeadIdle, Doing
    <3>6. QED
      BY <3>3, <3>4, <3>5 DEF FreshInOrder
  <2>4. QED
    BY <1>17, <2>2, <2>3, Zenon DEF SyncRevision
<1>18. ASSUME NEW m \in Methods, NEW a \in RegulatorActions, RegulateReplan(m, a)
       PROVE  FreshInOrder'
  <2>1. /\ UNCHANGED <<status, lead>> /\ LeadIdle
        /\ mstage[m] = "regulation"
        /\ plan' = [plan EXCEPT ![m] = NoPlan] /\ step' = [step EXCEPT ![m] = AllPending]
        /\ bound' = [bound EXCEPT ![m] = Unbound] /\ revTask' = [revTask EXCEPT ![m] = NoTask]
        /\ mstage' = [mstage EXCEPT ![m] = "decomposition"] /\ revision' = revision \ {m}
    BY <1>18 DEF RegulateReplan, Regulate, MoveTo, InStage
  <2>2. AllStepsCompleted(m) /\ revTask[m] = NoTask
    BY <1>2, <2>1 DEF FreshMethod, InReview
  <2>3. /\ bound'[m] = Unbound /\ revTask'[m] = NoTask /\ mstage'[m] = "decomposition"
        /\ m \notin revision'
        /\ \A n \in Methods \ {m} :
              /\ plan'[n] = plan[n] /\ step'[n] = step[n] /\ bound'[n] = bound[n]
              /\ revTask'[n] = revTask[n] /\ mstage'[n] = mstage[n]
              /\ n \in revision' <=> n \in revision
    BY <1>1, <2>1
  <2>4. \A s \in Steps : bound'[m][s] = NoTask
    BY <2>3 DEF Unbound
  <2>5. ASSUME NEW n \in Methods PROVE FreshMethod(n)'
    <3>1. CASE n = m
      BY <2>3, <2>4, <3>1 DEF FreshMethod, InReview
    <3>2. CASE n # m
      BY <1>2, <2>3, <3>2 DEF FreshMethod, AllStepsCompleted
    <3>3. QED
      BY <3>1, <3>2
  <2>6. ASSUME NEW t \in Tasks, status'[t] \in {"pending", "in_progress"} PROVE Held(t)'
    <3>1. PICK n \in Methods : revTask[n] = t \/ \E s \in Steps : bound[n][s] = t
      BY <1>4, <2>1, <2>6 DEF Held
    <3>2. n # m
      <4>1. revTask[m] # t
        BY <1>1, <2>2
      <4>2. \A s \in Steps : bound[m][s] # t
        BY <1>1, <2>1, <2>2, <2>6, FreshDone
      <4>3. QED
        BY <3>1, <4>1, <4>2
    <3>3. revTask'[n] = t \/ \E s \in Steps : bound'[n][s] = t
      BY <2>3, <3>1, <3>2
    <3>4. QED
      BY <3>3 DEF Held
  <2>7. ~Doing("revise")'
    BY <2>1 DEF LeadIdle, Doing
  <2>8. QED
    BY <2>5, <2>6, <2>7 DEF FreshInOrder
<1>19. ASSUME NEW m \in Methods, RegulateRevise(m) PROVE FreshInOrder'
  <2>1. /\ UNCHANGED <<bound, revTask, plan, step, status>>
        /\ mstage[m] = "regulation" /\ revision' = revision \cup {m}
        /\ mstage' = [mstage EXCEPT ![m] = "proving"]
        /\ lead'.method = m
    BY <1>19 DEF RegulateRevise, Regulate, MoveTo, InStage
  <2>2. AllStepsCompleted(m) /\ revTask[m] = NoTask
    BY <1>2, <2>1 DEF FreshMethod, InReview
  <2>3. /\ mstage'[m] = "proving"
        /\ \A n \in Methods \ {m} : mstage'[n] = mstage[n] /\ (n \in revision' <=> n \in revision)
    BY <1>1, <2>1
  <2>4. ASSUME NEW n \in Methods PROVE FreshMethod(n)'
    <3>1. AllStepsCompleted(n)' <=> AllStepsCompleted(n)
      BY <2>1 DEF AllStepsCompleted
    <3>2. CASE n = m
      BY <1>2, <2>1, <2>2, <2>3, <3>1, <3>2 DEF FreshMethod, InReview
    <3>3. CASE n # m
      BY <1>2, <2>1, <2>3, <3>1, <3>3 DEF FreshMethod
    <3>4. QED
      BY <3>2, <3>3
  <2>5. \A t \in Tasks : status'[t] \in {"pending", "in_progress"} => Held(t)'
    BY <1>4, <2>1 DEF Held
  <2>6. revTask'[lead'.method] = NoTask
    BY <2>1, <2>2
  <2>7. QED
    BY <2>4, <2>5, <2>6 DEF FreshInOrder
<1>20. ASSUME NEW m \in Methods, NEW p \in Plans, ActivateBegin(m, p) PROVE FreshInOrder'
  <2>1. /\ UNCHANGED status
        /\ mstage[m] = "decomposition"
        /\ plan' = [plan EXCEPT ![m] = p] /\ step' = [step EXCEPT ![m] = AllPending]
        /\ bound' = [bound EXCEPT ![m] = Unbound] /\ revTask' = [revTask EXCEPT ![m] = NoTask]
        /\ mstage' = [mstage EXCEPT ![m] = "proving"] /\ revision' = revision \ {m}
        /\ lead'.op = "create"
    BY <1>20 DEF ActivateBegin, SetMethodPlan, MoveTo, InStage
  <2>2. revTask[m] = NoTask /\ \A s \in Steps : bound[m][s] = NoTask
    BY <1>2, <2>1 DEF FreshMethod
  <2>3. /\ bound'[m] = Unbound /\ revTask'[m] = NoTask /\ mstage'[m] = "proving"
        /\ m \notin revision'
        /\ \A n \in Methods \ {m} :
              /\ plan'[n] = plan[n] /\ step'[n] = step[n] /\ bound'[n] = bound[n]
              /\ revTask'[n] = revTask[n] /\ mstage'[n] = mstage[n]
              /\ n \in revision' <=> n \in revision
    BY <1>1, <2>1
  <2>4. \A s \in Steps : bound'[m][s] = NoTask
    BY <2>3 DEF Unbound
  <2>5. ASSUME NEW n \in Methods PROVE FreshMethod(n)'
    <3>1. CASE n = m
      BY <2>3, <2>4, <3>1 DEF FreshMethod, InReview
    <3>2. CASE n # m
      BY <1>2, <2>3, <3>2 DEF FreshMethod, AllStepsCompleted
    <3>3. QED
      BY <3>1, <3>2
  <2>6. ASSUME NEW t \in Tasks, status'[t] \in {"pending", "in_progress"} PROVE Held(t)'
    <3>1. PICK n \in Methods : revTask[n] = t \/ \E s \in Steps : bound[n][s] = t
      BY <1>4, <2>1, <2>6 DEF Held
    <3>2. n # m
      BY <1>1, <2>2, <3>1
    <3>3. revTask'[n] = t \/ \E s \in Steps : bound'[n][s] = t
      BY <2>3, <3>1, <3>2
    <3>4. QED
      BY <3>3 DEF Held
  <2>7. ~Doing("revise")'
    BY <2>1 DEF Doing
  <2>8. QED
    BY <2>5, <2>6, <2>7 DEF FreshInOrder
<1>21. ASSUME NEW s \in Steps, NEW t \in Tasks, ActivateCreate(s, t) PROVE FreshInOrder'
  <2> DEFINE m == lead.method
  <2>1. /\ m \in Methods /\ s \in plan[m].steps /\ s \in lead.todo
        /\ mstage[m] = "proving" /\ bound[m][s] = NoTask
    BY <1>3, <1>21 DEF ActivateCreate, OrchInv, HandlerInOrder, Ready, LeadIdle, Doing
  <2>2. /\ UNCHANGED <<plan, step, mstage, revision, revTask>> /\ StepDone(s) /\ lead.op = "create"
        /\ bound' = [bound EXCEPT ![m][s] = t] /\ status' = [status EXCEPT ![t] = "pending"]
    BY <1>21 DEF ActivateCreate, Board!Create, Doing
  <2>3. /\ bound'[m][s] = t
        /\ \A n \in Methods, r \in Steps : n # m \/ r # s => bound'[n][r] = bound[n][r]
        /\ \A u \in Tasks \ {t} : status'[u] = status[u]
    BY <1>1, <2>1, <2>2
  <2>4. ASSUME NEW n \in Methods PROVE FreshMethod(n)'
    <3>1. AllStepsCompleted(n)' <=> AllStepsCompleted(n)
      BY <2>2 DEF AllStepsCompleted
    <3>2. \A r \in Steps : bound'[n][r] # NoTask => r \in plan'[n].steps
      BY <1>2, <2>1, <2>2, <2>3 DEF FreshMethod
    <3>3. mstage'[n] = "decomposition" => \A r \in Steps : bound'[n][r] = NoTask
      BY <1>2, <2>1, <2>2, <2>3 DEF FreshMethod
    <3>4. QED
      BY <1>2, <2>2, <3>1, <3>2, <3>3 DEF FreshMethod
  <2>5. ASSUME NEW u \in Tasks, status'[u] \in {"pending", "in_progress"} PROVE Held(u)'
    <3>1. CASE u = t
      BY <2>1, <2>3, <3>1 DEF Held
    <3>2. CASE u # t
      <4>1. Held(u)
        BY <1>4, <2>3, <2>5, <3>2
      <4>2. \A n \in Methods, r \in Steps : bound[n][r] = u => bound'[n][r] = u
        BY <1>1, <2>1, <2>3
      <4>3. QED
        BY <2>2, <4>1, <4>2 DEF Held
    <3>3. QED
      BY <3>1, <3>2
  <2>6. ~Doing("revise")'
    BY <1>1, <2>2, LeadMoves DEF Doing
  <2>7. QED
    BY <2>4, <2>5, <2>6 DEF FreshInOrder
<1>22. ASSUME NEW t \in Tasks, ReviseCreate(t) PROVE FreshInOrder'
  <2> DEFINE m == lead.method
  <2>1. /\ m \in Methods /\ m \in revision /\ revTask[m] = NoTask
    BY <1>3, <1>22 DEF ReviseCreate, OrchInv, HandlerInOrder, FreshInOrder, LeadIdle, Doing
  <2>2. /\ UNCHANGED <<plan, step, mstage, revision, bound>>
        /\ revTask' = [revTask EXCEPT ![m] = t] /\ status' = [status EXCEPT ![t] = "pending"]
    BY <1>22 DEF ReviseCreate, Board!Create
  <2>3. /\ revTask'[m] = t
        /\ \A n \in Methods \ {m} : revTask'[n] = revTask[n]
        /\ \A u \in Tasks \ {t} : status'[u] = status[u]
    BY <1>1, <2>1, <2>2
  <2>4. ASSUME NEW n \in Methods PROVE FreshMethod(n)'
    <3>1. AllStepsCompleted(n)' <=> AllStepsCompleted(n)
      BY <2>2 DEF AllStepsCompleted
    <3>2. QED
      BY <1>2, <2>1, <2>2, <2>3, <3>1 DEF FreshMethod
  <2>5. ASSUME NEW u \in Tasks, status'[u] \in {"pending", "in_progress"} PROVE Held(u)'
    <3>1. CASE u = t
      BY <2>1, <2>3, <3>1 DEF Held
    <3>2. CASE u # t
      <4>1. Held(u)
        BY <1>4, <2>3, <2>5, <3>2
      <4>2. \A n \in Methods : revTask[n] = u => revTask'[n] = u
        BY <1>1, <2>1, <2>3
      <4>3. QED
        BY <2>2, <4>1, <4>2 DEF Held
    <3>3. QED
      BY <3>1, <3>2
  <2>6. ~Doing("revise")'
    BY <1>1, <1>22 DEF ReviseCreate, Handlers, Doing
  <2>7. QED
    BY <2>4, <2>5, <2>6 DEF FreshInOrder
<1>23. QED
  BY <1>6, <1>8, <1>9, <1>10, <1>11, <1>12, <1>13, <1>14, <1>15, <1>16, <1>17, <1>18, <1>19,
     <1>20, <1>21, <1>22 DEF OrchNext, LeadStep

(* While nothing has failed, every open task belongs to a method's present *)
(* plan or revision: no handler of research/orchestration.py drops a       *)
(* binding whose task is still to be done, and none creates a task that it *)
(* does not bind.                                                          *)
THEOREM NoTaskIsOrphaned == OrchSpec => []NoOrphanTasks
<1>1. OrchInit => FreshInOrder
  <2> SUFFICES ASSUME OrchInit PROVE FreshInOrder
    OBVIOUS
  <2>1. /\ \A m \in Methods : /\ mstage[m] = "decomposition" /\ revTask[m] = NoTask
                              /\ \A s \in Steps : bound[m][s] = NoTask
        /\ revision = {} /\ lead.op = "none"
    BY DEF OrchInit, WfInit, Unbound, Idle
  <2>2. \A t \in Tasks : status[t] = "absent"
    BY DEF OrchInit, Board!Init
  <2>3. QED
    BY <2>1, <2>2 DEF FreshInOrder, FreshMethod, InReview, Doing
<1>2. OrchInv /\ (Fresh => FreshInOrder) /\ [OrchNext]_vars => (Fresh => FreshInOrder)'
  <2> SUFFICES ASSUME OrchInv, Fresh => FreshInOrder, [OrchNext]_vars, Fresh'
               PROVE  FreshInOrder'
    OBVIOUS
  <2>1. CASE OrchNext
    BY <2>1, FreshBefore, FreshStep DEF OrchInv
  <2>2. CASE UNCHANGED vars
    <3>1. Fresh /\ UNCHANGED <<bound, revTask, plan, step, mstage, revision, status, lead>>
      BY <2>2 DEF vars, wfVars, boardVars, bindingVars, countVars, Fresh
    <3>2. QED
      BY <3>1, FreshStays
  <2>3. QED
    BY <2>1, <2>2
<1>3. (Fresh => FreshInOrder) => NoOrphanTasks
  BY DEF NoOrphanTasks, FreshInOrder, Held
<1>4. QED
  BY <1>1, <1>2, <1>3, OrchInvariant, PTL DEF OrchSpec

-----------------------------------------------------------------------------
(* The workflow inside the orchestrator: what is proved of it alone also   *)
(* holds of the live run, through restarts, because the last snapshot is   *)
(* in order as well.  RunInOrder(x) is WfInv of the run in a snapshot x.   *)
DoneIn(x, m) == x.plan[m].steps # {} /\ \A s \in x.plan[m].steps : x.step[m][s] = "completed"
MethodInOrder(x, m) ==
    /\ x.plan[m].steps # {} => ValidPlan(x.plan[m])
    /\ x.mstage[m] = "proving" => x.plan[m].steps # {}
    /\ \A s \in x.plan[m].steps : x.step[m][s] # "pending" =>
           \A d \in x.plan[m].deps[s] : x.step[m][d] = "completed"
    /\ m \in x.revision => x.mstage[m] = "proving" /\ DoneIn(x, m)
    /\ x.mstage[m] \in InReview => DoneIn(x, m)
    /\ x.mstage[m] \in {"decomposition", "proving", "structural_verify"} =>
           x.structural[m] = "none" /\ x.detailed[m] = "none"
    /\ x.mstage[m] = "detailed_verify" => x.structural[m] = "done" /\ x.detailed[m] = "none"
    /\ x.mstage[m] = "completed" => x.structural[m] = "done" /\ x.detailed[m] = "done"
RunInOrder(x) ==
    /\ \A m \in Methods : MethodInOrder(x, m)
    /\ x.stage = "methods_active" => x.selected = {}
    /\ x.stage = "literature_survey" => x.selected = {} /\ x.methods = {}
    /\ x.stage = "direct_proof" => x.methods = {}
    /\ x.stage = "summary" => x.selected # {}
    /\ x.artifact => x.stage = "completed"
    /\ x.artifact /\ x.methods # {} => x.selected # {}
    /\ \A m \in x.selected : x.mstage[m] = "completed"

LEMMA LiveRunInOrder ==
    /\ OrchTypeOK => (WfInv <=> RunInOrder(Snapshot))
    /\ OrchTypeOK' => (WfInv' <=> RunInOrder(Snapshot'))
<1>1. OrchTypeOK => (WfInv <=> RunInOrder(Snapshot))
  <2>1. OrchTypeOK => WfTypeOK
    BY DEF OrchTypeOK
  <2>2. ASSUME NEW m \in Methods PROVE MethodInv(m) <=> MethodInOrder(Snapshot, m)
    BY DEF MethodInv, MethodInOrder, Snapshot, DoneIn, AllStepsCompleted, DepsCompleted
  <2>3. (\A m \in Methods : MethodInv(m)) <=> (\A m \in Methods : MethodInOrder(Snapshot, m))
    BY <2>2
  <2>4. QED
    BY <2>1, <2>3 DEF WfInv, RunInv, RunInOrder, Snapshot
<1>2. OrchTypeOK' => (WfInv' <=> RunInOrder(Snapshot'))
  <2>1. OrchTypeOK' => WfTypeOK'
    BY DEF OrchTypeOK
  <2>2. ASSUME NEW m \in Methods PROVE MethodInv(m)' <=> MethodInOrder(Snapshot', m)
    BY DEF MethodInv, MethodInOrder, Snapshot, DoneIn, AllStepsCompleted, DepsCompleted
  <2>3. (\A m \in Methods : MethodInv(m)') <=> (\A m \in Methods : MethodInOrder(Snapshot', m))
    BY <2>2
  <2>4. QED
    BY <2>1, <2>3 DEF WfInv, RunInv, RunInOrder, Snapshot
<1>3. QED
  BY <1>1, <1>2

(* Two methods of the workflow in a row make one step of the orchestrator. *)
LEMMA StartAndCompleteKeeps ==
    ASSUME OrchTypeOK, OrchTypeOK', WfInv, NEW s \in Steps, SyncStartsAndCompletes(s)
    PROVE  WfInv'
<1>0. lead.method \in Methods
  BY DEF SyncStartsAndCompletes, CanStart, InStage, ActiveMethod, OrchTypeOK, WfTypeOK
<1> SUFFICES ASSUME NEW m \in Methods, m = lead.method PROVE WfInv'
  BY <1>0
<1>1. /\ mstage[m] = "proving" /\ m \notin revision
      /\ s \in plan[m].steps /\ step[m][s] = "pending" /\ DepsCompleted(m, s)
      /\ step' = [step EXCEPT ![m][s] = "completed"]
      /\ UNCHANGED <<stage, methods, selected, artifact, mstage, assigned, plan, structural,
                     detailed, revision>>
  BY DEF SyncStartsAndCompletes, CanStart, InStage, runVars, verdictVars
<1>2. step \in [Methods -> [Steps -> StepStatuses]]
  BY DEF OrchTypeOK, WfTypeOK
<1>3. /\ step'[m][s] = "completed"
      /\ \A n \in Methods, r \in Steps : n # m \/ r # s => step'[n][r] = step[n][r]
  BY <1>1, <1>2
<1>4. \A n \in Methods : plan[n].steps \subseteq Steps /\ \A r \in Steps : plan[n].deps[r] \subseteq Steps
  BY DEF OrchTypeOK, WfTypeOK, Plan
<1>5. WfTypeOK' /\ RunInv'
  BY <1>1 DEF OrchTypeOK, WfInv, RunInv
<1>6. ASSUME NEW n \in Methods PROVE MethodInv(n)'
  <2>1. MethodInv(n)
    BY DEF WfInv
  <2>2. CASE n # m
    <3>1. \A r \in Steps : step'[n][r] = step[n][r]
      BY <1>3, <2>2
    <3>2. AllStepsCompleted(n)' <=> AllStepsCompleted(n)
      BY <1>1, <1>4, <3>1 DEF AllStepsCompleted
    <3>3. \A r \in plan[n].steps : DepsCompleted(n, r)' <=> DepsCompleted(n, r)
      BY <1>1, <1>4, <3>1 DEF DepsCompleted
    <3>4. QED
      BY <1>1, <1>4, <2>1, <3>1, <3>2, <3>3 DEF MethodInv
  <2>3. CASE n = m
    <3>1. \A r \in plan[m].steps : step'[m][r] # "pending" => DepsCompleted(m, r)'
      <4> SUFFICES ASSUME NEW r \in plan[m].steps, step'[m][r] # "pending", NEW d \in plan'[m].deps[r]
                   PROVE  step'[m][d] = "completed"
        BY DEF DepsCompleted
      <4>1. DepsCompleted(m, r)
        BY <1>1, <1>3, <1>4, <2>1, <2>3 DEF MethodInv
      <4>2. step[m][d] = "completed" /\ d \in Steps
        BY <1>1, <1>4, <4>1 DEF DepsCompleted
      <4>3. QED
        BY <1>1, <1>3, <4>2
    <3>2. QED
      BY <1>1, <2>1, <2>3, <3>1 DEF MethodInv, InReview
  <2>4. QED
    BY <2>2, <2>3
<1>7. QED
  BY <1>5, <1>6 DEF WfInv

LEMMA RunsStayInOrder ==
    ASSUME OrchInv, OrchInv', WfInv, RunInOrder(saved), [OrchNext]_vars
    PROVE  WfInv' /\ RunInOrder(saved')
<1>0. OrchTypeOK /\ OrchTypeOK'
  BY DEF OrchInv
<1>1. WfInv'
  <2>1. CASE LeadStep \/ ProverStep
    <3>1. CASE [WfNext]_wfVars
      BY <3>1, WfInvStep
    <3>2. ASSUME NEW s \in Steps, SyncStartsAndCompletes(s) PROVE WfInv'
      BY <1>0, <3>2, StartAndCompleteKeeps
    <3>3. QED
      BY <1>0, <2>1, <3>1, <3>2, WfMoves
  <2>2. CASE Restart
    <3>1. /\ stage' = saved.stage /\ methods' = saved.methods
          /\ selected' = saved.selected /\ artifact' = saved.artifact
          /\ mstage' = saved.mstage /\ plan' = saved.plan /\ step' = saved.step
          /\ structural' = saved.structural /\ detailed' = saved.detailed
          /\ revision' = saved.revision
      BY <2>2 DEF Restart
    <3>2. ASSUME NEW m \in Methods PROVE MethodInOrder(Snapshot', m)
      <4>1. MethodInOrder(saved, m)
        BY DEF RunInOrder
      <4>2. QED
        BY <3>1, <4>1 DEF MethodInOrder, DoneIn, Snapshot
    <3>3. RunInOrder(Snapshot')
      BY <3>1, <3>2 DEF RunInOrder, Snapshot
    <3>4. QED
      BY <1>0, <3>3, LiveRunInOrder
  <2>3. CASE UNCHANGED vars
    <3>1. UNCHANGED wfVars
      BY <2>3 DEF vars, wfVars
    <3>2. QED
      BY <3>1, WfInvStep
  <2>4. QED
    BY <2>1, <2>2, <2>3 DEF OrchNext
<1>2. RunInOrder(saved')
  <2>1. RunInOrder(Snapshot')
    BY <1>0, <1>1, LiveRunInOrder
  <2>2. saved' = saved \/ saved' = Snapshot'
    BY SavedMoves DEF vars
  <2>3. QED
    BY <2>1, <2>2
<1>3. QED
  BY <1>1, <1>2

(* What the workflow guarantees it guarantees in the running program: a    *)
(* run restored from any snapshot, driven by handlers that fail half-way,  *)
(* still works on steps in order, shows its reviewers finished work only,  *)
(* summarises approved methods only, and has no method waiting on itself.  *)
(* (research/orchestration.py: dispatch, _restore_persisted_state)         *)
THEOREM WorkflowSurvivesRestarts ==
    OrchSpec => [](StepOrder /\ ReviewedWorkIsFinished /\ SelectedAreVerified /\ ProvingCanProgress)
<1>1. OrchInit /\ OrchInv => WfInv /\ RunInOrder(saved)
  <2> SUFFICES ASSUME OrchInit, OrchInv PROVE WfInv /\ RunInOrder(saved)
    OBVIOUS
  <2>1. WfInv /\ saved = Snapshot
    BY WfInvInit DEF OrchInit
  <2>2. QED
    BY <2>1, LiveRunInOrder DEF OrchInv
<1>2. OrchInv /\ OrchInv' /\ WfInv /\ RunInOrder(saved) /\ [OrchNext]_vars
        => WfInv' /\ RunInOrder(saved)'
  BY RunsStayInOrder
<1>3. WfInv => StepOrder /\ ReviewedWorkIsFinished /\ SelectedAreVerified /\ ProvingCanProgress
  BY WfInvMeans
<1>4. QED
  BY <1>1, <1>2, <1>3, OrchInvariant, PTL DEF OrchSpec

-----------------------------------------------------------------------------
(* Tasks that are worked on, or done, have the tasks of the steps theirs   *)
(* depends on done: the board orders tasks, and the tasks are arranged     *)
(* like the plan.                                                          *)
Blocked(t) == \E b \in blockedBy[t] : status[b] # "completed"
BoardInOrder == \A t \in Tasks : status[t] \in {"in_progress", "completed"} => ~Blocked(t)
TasksFollowThePlan ==
    \A m \in Methods : \A s \in plan[m].steps :
        bound[m][s] # NoTask /\ status[bound[m][s]] \in {"in_progress", "completed"} =>
            \A d \in plan[m].deps[s] : status[bound[m][d]] = "completed"

LEMMA BoardStaysInOrder ==
    ASSUME BoardTyped, BoardInOrder, BoardStep
    PROVE  BoardInOrder'
<1> USE DEF BoardTyped, BoardInOrder, Blocked
<1>1. ASSUME NEW t \in Tasks, NEW D \in SUBSET Tasks, Board!Create(t, D) PROVE BoardInOrder'
  BY <1>1 DEF Board!Create
<1>2. ASSUME NEW w \in Provers, NEW t \in Tasks, Board!Claim(w, t) PROVE BoardInOrder'
  <2>1. /\ status' = [status EXCEPT ![t] = "in_progress"] /\ blockedBy' = blockedBy
        /\ \A b \in blockedBy[t] : status[b] = "completed"
    BY <1>2 DEF Board!Claim, Board!Open, Board!DependenciesMet
  <2>2. ASSUME NEW u \in Tasks, status'[u] \in {"in_progress", "completed"}, NEW b \in blockedBy'[u]
        PROVE  status'[b] = "completed"
    <3>1. status[b] = "completed"
      BY <2>1, <2>2
    <3>2. status[t] # "completed"
      BY <1>2 DEF Board!Claim, Board!Open, Board!DependenciesMet
    <3>3. QED
      BY <2>1, <3>1, <3>2
  <2>3. QED
    BY <2>2
<1>3. ASSUME NEW w \in Provers, NEW t \in Tasks, Board!Complete(w, t) PROVE BoardInOrder'
  BY <1>3 DEF Board!Complete
<1>4. ASSUME NEW t \in Tasks, Board!Release({t}) PROVE BoardInOrder'
  BY <1>4 DEF Board!Release
<1>5. QED
  BY <1>1, <1>2, <1>3, <1>4 DEF BoardStep

(* A prover is never at work on a proof step before the steps it depends   *)
(* on are proved, whatever became of the run in memory meanwhile.          *)
(* (tasks/store.py: _claim; research/orchestration.py: activate_method)    *)
THEOREM ProversFollowThePlan == OrchSpec => []TasksFollowThePlan
<1>1. OrchInit => BoardInOrder
  BY DEF OrchInit, Board!Init, BoardInOrder
<1>2. OrchInv /\ BoardInOrder /\ [OrchNext]_vars => BoardInOrder'
  <2> SUFFICES ASSUME OrchInv, BoardInOrder, [OrchNext]_vars PROVE BoardInOrder'
    OBVIOUS
  <2>1. BoardStep \/ UNCHANGED boardVars
    BY BoardMoves DEF OrchInv, vars, boardVars
  <2>2. BoardTyped
    BY OrchTypeParts DEF OrchInv
  <2>3. CASE UNCHANGED boardVars
    BY <2>3 DEF boardVars, BoardInOrder, Blocked
  <2>4. QED
    BY <2>1, <2>2, <2>3, BoardStaysInOrder
<1>3. OrchInv /\ BoardInOrder => TasksFollowThePlan
  <2> SUFFICES ASSUME OrchInv, BoardInOrder, NEW m \in Methods, NEW s \in plan[m].steps,
                      bound[m][s] # NoTask,
                      status[bound[m][s]] \in {"in_progress", "completed"},
                      NEW d \in plan[m].deps[s]
               PROVE  status[bound[m][d]] = "completed"
    BY DEF TasksFollowThePlan
  <2>1. s \in Steps /\ bound[m][s] \in Tasks
    BY DEF OrchInv, OrchTypeOK, WfTypeOK, Plan
  <2>2. blockedBy[bound[m][s]] = {bound[m][e] : e \in plan[m].deps[s]}
    BY Live DEF OrchInv, Sound, Mirrored
  <2>3. QED
    BY <2>1, <2>2 DEF BoardInOrder, Blocked
<1>4. QED
  BY <1>1, <1>2, <1>3, OrchInvariant, PTL DEF OrchSpec
=============================================================================
