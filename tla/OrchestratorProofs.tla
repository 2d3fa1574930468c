------------------------- MODULE OrchestratorProofs -------------------------
(***************************************************************************)
(* Theorems about the agent graph, for every set of step ids, LLM plans    *)
(* and findings and for every iteration and retry limit: type correctness, *)
(* the safety invariants of its run and the contract it implements.        *)
(***************************************************************************)
EXTENDS OrchestratorRefinement, TLAPS

ReportType == [says : Reports, overrun : BOOLEAN]

\* The retries left over at each node: the planner is reached only while the
\* error count is within its bound, and query, analyze and critique may each
\* add one before the critic looks again.
RetryBudget ==
    /\ at \in {"clarify", "plan", "query", "paused"} => retries <= MaxRetries
    /\ at = "analyze" => retries <= MaxRetries + 1
    /\ at = "critique" => retries <= MaxRetries + 2

\* A visit in progress is within the limit.
VisitsInBudget == at # "end" => iteration <= MaxIterations

\* A run suspends with its question set.
PausedWithQuestion == at = "paused" => phase = "clarify" /\ clarification

\* No report before the end, and what a report rests on.
ReportFounded ==
    /\ at # "end" => report.says \in {"none", "terminated"}
    /\ report.says = "answer" => ~noData /\ HasRows
    /\ report.says = "answer" /\ CriticDiagnostic => summaries > 0

\* What the critic makes sure of before it lets the run synthesize.
SynthesisReady ==
    at = "synthesize" =>
        \/ Exhausted
        \/ noData
        \/ AllEmpty
        \/ HasRows /\ (CriticDiagnostic => summaries > 0)

IInv == /\ TypeOK
        /\ RetryBudget
        /\ VisitsInBudget
        /\ PlansWithoutNoData
        /\ PausedWithQuestion
        /\ ReportFounded
        /\ SynthesisReady

-----------------------------------------------------------------------------
(* Lemmas about the model's operators *)

\* A step that leaves a node for node n: the visit is counted and, past the
\* limit, the run ends instead.
MovesTo(n, says) ==
    /\ iteration' = iteration + 1
    /\ iteration' \in 1..(MaxIterations + 1)
    /\ \/ at' = n /\ iteration' <= MaxIterations
       \/ at' = "end" /\ iteration' > MaxIterations
    /\ phase' \in Phases
    /\ report' \in ReportType
    /\ report'.says = says

LEMMA RouteMoves ==
    ASSUME IInv, at # "end", resumed' \in BOOLEAN,
           NEW STATE n, NEW STATE ph, NEW STATE rep,
           n \in Nodes, ph \in Phases, rep \in ReportType,
           Route(n, ph, rep)
    PROVE  MovesTo(n, rep.says)
<1>1. iteration \in 1..MaxIterations
  BY BoundsAssumption DEF IInv, TypeOK, VisitsInBudget
<1>2. CASE iteration + 1 > MaxIterations
  <2>1. iteration' = iteration + 1 /\ at' = "end" /\ phase' \in Phases
    BY <1>2, BoundsAssumption DEF Route, Phases
  <2>2. report' = [rep EXCEPT !.overrun = ~resumed']
    BY <1>2 DEF Route
  <2>3. report' \in ReportType /\ report'.says = rep.says
    BY <2>2, Zenon DEF ReportType
  <2>4. QED
    BY <1>1, <1>2, <2>1, <2>3, BoundsAssumption DEF MovesTo
<1>3. CASE ~(iteration + 1 > MaxIterations)
  BY <1>1, <1>3, BoundsAssumption DEF Route, MovesTo
<1>4. QED
  BY <1>2, <1>3

\* The fallback plan is one that _plan_from_llm would accept.
LEMMA HeuristicPlanValid == ValidPlan(HeuristicPlan)
<1> DEFINE long == <<Step("s1", "query", {}), Step("s2", "analyze", {"s1"}),
                     Step("s3", "analyze", {"s1"}), Step("s4", "synthesize", {"s2", "s3"})>>
           short == <<Step("s1", "query", {}), Step("s2", "synthesize", {"s1"})>>
<1>1. ValidPlan(long)
  BY StepIdsAssumption DEF ValidPlan, PlanStep, Step
<1>2. ValidPlan(short)
  BY StepIdsAssumption DEF ValidPlan, PlanStep, Step
<1>3. QED
  BY <1>1, <1>2 DEF HeuristicPlan

-----------------------------------------------------------------------------
(* The invariant is inductive *)

LEMMA InitInv == Init => IInv
<1> SUFFICES ASSUME Init PROVE IInv
  OBVIOUS
<1>1. TypeOK
  <2>1. datasets \in [Names -> {"absent", "empty", "some"}] /\ outputs \in [StepIds -> SUBSET Names]
    BY DEF Init
  <2>2. lastReplan \in [datasets  : [Names -> {"absent", "empty", "some"}],
                       summaries : Nat, found : SUBSET (Findings \cup {Vacuous})]
    BY DEF Init, NoFingerprint
  <2>3. report \in ReportType
    BY DEF Init, ReportType, Reports
  <2>4. phase \in Phases /\ at \in Nodes
    BY DEF Init, Phases, Nodes
  <2>5. iteration \in 1..(MaxIterations + 1) /\ retries \in 0..(MaxRetries + 3) /\ summaries \in Nat
    BY BoundsAssumption DEF Init
  <2>6. QED
    BY <2>1, <2>2, <2>3, <2>4, <2>5, Zenon DEF Init, TypeOK, ReportType
<1>2. QED
  BY <1>1, BoundsAssumption DEF Init, IInv, RetryBudget, VisitsInBudget, PlansWithoutNoData,
     PausedWithQuestion, ReportFounded, SynthesisReady

\* The clarify node's three ways out, and the resumption of a paused run.
LEMMA ClarifyPreserves ==
    ASSUME IInv, ClarifyMerges \/ ClarifyPasses \/ ClarifyAsks \/ Resume PROVE IInv'
<1> USE DEF IInv, TypeOK, RetryBudget, VisitsInBudget, PlansWithoutNoData, PausedWithQuestion,
            ReportFounded, SynthesisReady, ReportType, taskVars, planVars, dataVars, analysisVars,
            HasRows, CriticDiagnostic
<1>1. ASSUME MergeReply PROVE query' \in QueryClass /\ reply' \in BOOLEAN /\ clarification' \in BOOLEAN
  BY <1>1 DEF MergeReply, QueryClass
<1>2. CASE ClarifyMerges
  <2>1. MovesTo("plan", report.says)
    BY <1>2, RouteMoves DEF ClarifyMerges, Nodes, Phases
  <2>2. QED
    BY <1>1, <1>2, <2>1 DEF ClarifyMerges, MovesTo, Nodes
<1>3. CASE ClarifyPasses
  <2>1. MovesTo("plan", report.says)
    BY <1>3, RouteMoves DEF ClarifyPasses, Nodes, Phases
  <2>2. QED
    BY <1>3, <2>1 DEF ClarifyPasses, MovesTo, Nodes
<1>4. CASE ClarifyAsks
  BY <1>4 DEF ClarifyAsks, Suspend, Phases
<1>5. CASE Resume
  <2>1. resumed' \in BOOLEAN /\ at # "end" /\ report \in ReportType
    BY <1>5 DEF Resume
  <2>2. Route("plan", "plan", report) \/ Route("plan", "clarify", report)
    BY <1>5 DEF Resume
  <2>3. "plan" \in Nodes /\ {"plan", "clarify"} \subseteq Phases
    BY DEF Nodes, Phases
  <2>4. MovesTo("plan", report.says)
    BY <2>1, <2>2, <2>3, RouteMoves
  <2>5. QED
    BY <1>1, <1>5, <2>4 DEF Resume, MovesTo, Nodes
<1>6. QED
  BY <1>2, <1>3, <1>4, <1>5

\* A plan starts a round with the datasets and the verdicts it found.
LEMMA PlannerPreserves ==
    ASSUME IInv, PlannerAsks \/ PlannerPlans PROVE IInv'
<1> USE DEF IInv, TypeOK, RetryBudget, VisitsInBudget, PlansWithoutNoData, PausedWithQuestion,
            ReportFounded, SynthesisReady, ReportType, taskVars, planVars, dataVars, analysisVars,
            HasRows, CriticDiagnostic
<1>1. CASE PlannerAsks
  BY <1>1 DEF PlannerAsks, Suspend, Phases
<1>2. CASE PlannerPlans
  <2>1. PICK p \in LlmPlans \cup {HeuristicPlan} : Planned(p)
    BY <1>2 DEF PlannerPlans
  <2>2. ValidPlan(p)
    BY LlmPlansAssumption, HeuristicPlanValid
  <2>3. IdsOf(p) \subseteq StepIds
    <3>1. \A i \in DOMAIN p : p[i] \in PlanStep
      BY <2>2 DEF ValidPlan
    <3>2. QED
      BY <3>1 DEF IdsOf, PlanStep
  <2>4. AfterPlan(p) \in {"query", "analyze", "critique"}
    BY DEF AfterPlan
  <2>5. MovesTo(AfterPlan(p), report.says)
    BY <2>1, <2>4, RouteMoves DEF Planned, Nodes, Phases
  <2>6. QED
    BY <2>1, <2>2, <2>3, <2>4, <2>5, BoundsAssumption DEF Planned, MovesTo, Nodes
<1>3. QED
  BY <1>1, <1>2

\* The variants that a query step fetched are registered under its own names.
LEMMA FetchedTypes ==
    ASSUME NEW step \in PlanStep, NEW r \in Outcomes(step)
    PROVE  /\ Fetched(r) \subseteq Names
           /\ \A n \in Fetched(r) : r[n] \in {"empty", "some"}
<1>1. NamesOf(step) \subseteq Names
  BY DEF NamesOf, Names, PlanStep
<1>2. DOMAIN r = NamesOf(step)
  BY DEF Outcomes
<1>3. QED
  BY <1>1, <1>2 DEF Fetched

LEMMA RegisterTypes ==
    ASSUME TypeOK, NEW STATE step, step \in PlanStep, NEW STATE r, r \in Outcomes(step), Register(r)
    PROVE  /\ datasets' \in [Names -> {"absent", "empty", "some"}]
           /\ fetched' \subseteq Names
<1>1. /\ Fetched(r) \subseteq Names
      /\ \A n \in Fetched(r) : r[n] \in {"empty", "some"}
  BY FetchedTypes
<1>2. QED
  BY <1>1 DEF Register, TypeOK

\* The steps that the query and the analyze node take up are steps of the plan.
LEMMA NextStepType ==
    ASSUME TypeOK, NEW i \in DOMAIN plan PROVE plan[i] \in PlanStep
<1>1. CASE plan = <<>>
  BY <1>1
<1>2. CASE ValidPlan(plan)
  BY <1>2 DEF ValidPlan
<1>3. QED
  BY <1>1, <1>2 DEF TypeOK

\* A query step may set no_data_reason or use up a retry, but does neither on
\* the way back to the planner.
LEMMA QueryPreserves ==
    ASSUME IInv, QueryStep \/ QueryEnds PROVE IInv'
<1> USE DEF IInv, TypeOK, RetryBudget, VisitsInBudget, PlansWithoutNoData, PausedWithQuestion,
            ReportFounded, SynthesisReady, ReportType, taskVars, planVars, dataVars, analysisVars,
            HasRows, CriticDiagnostic
<1>1. CASE QueryStep
  <2>1. PICK i \in DOMAIN plan : \E r \in Outcomes(plan[i]) :
              QueryStepDone(plan[i], r) \/ QueryStepFails(plan[i], r)
    BY <1>1 DEF QueryStep
  <2>2. PICK r \in Outcomes(plan[i]) : QueryStepDone(plan[i], r) \/ QueryStepFails(plan[i], r)
    BY <2>1
  <2>3. plan[i] \in PlanStep
    BY NextStepType
  <2>4. Fetched(r) \subseteq Names
    BY <2>3, FetchedTypes
  <2>5. Register(r)
    BY <2>2 DEF QueryStepDone, QueryStepFails
  <2>6. datasets' \in [Names -> {"absent", "empty", "some"}] /\ fetched' \subseteq Names
    BY <2>3, <2>5, RegisterTypes
  <2>7. CASE QueryStepDone(plan[i], r)
    BY <1>1, <2>4, <2>6, <2>7 DEF QueryStep, QueryStepDone, Within
  <2>8. CASE QueryStepFails(plan[i], r)
    <3>1. PICK rep \in ReportType, ph \in Phases :
              /\ rep.says \in {report.says, "terminated"}
              /\ Route("analyze", ph, rep)
      BY <2>8 DEF QueryStepFails, Phases, Reports
    <3>2. MovesTo("analyze", rep.says)
      BY <1>1, <2>8, <3>1, RouteMoves DEF QueryStep, QueryStepFails, Nodes
    <3>3. QED
      BY <1>1, <2>6, <2>8, <3>1, <3>2, BoundsAssumption
         DEF QueryStep, QueryStepFails, MovesTo, Nodes
  <2>9. QED
    BY <2>2, <2>7, <2>8
<1>2. CASE QueryEnds
  <2>1. MovesTo("analyze", report.says)
    BY <1>2, RouteMoves DEF QueryEnds, Nodes, Phases
  <2>2. QED
    BY <1>2, <2>1, BoundsAssumption DEF QueryEnds, MovesTo, Nodes
<1>3. QED
  BY <1>1, <1>2

LEMMA AnalyzePreserves ==
    ASSUME IInv, AnalyzeSkips \/ AnalyzeStep \/ AnalyzeEnds PROVE IInv'
<1> USE DEF IInv, TypeOK, RetryBudget, VisitsInBudget, PlansWithoutNoData, PausedWithQuestion,
            ReportFounded, SynthesisReady, ReportType, taskVars, planVars, dataVars, analysisVars,
            HasRows, CriticDiagnostic
<1>1. CASE AnalyzeSkips
  <2>1. MovesTo("critique", report.says)
    BY <1>1, RouteMoves DEF AnalyzeSkips, Nodes
  <2>2. QED
    BY <1>1, <2>1, BoundsAssumption DEF AnalyzeSkips, MovesTo, Nodes
<1>2. CASE AnalyzeStep
  <2>1. PICK i \in DOMAIN plan : AnalyzeStepDone(plan[i]) \/ AnalyzeStepFails(plan[i])
    BY <1>2 DEF AnalyzeStep
  <2>2. CASE AnalyzeStepDone(plan[i])
    <3>1. PICK f \in Summary(plan[i]) : found' = found \cup {f}
      BY <2>2 DEF AnalyzeStepDone
    <3>2. found' \subseteq Findings \cup {Vacuous}
      BY <3>1 DEF Summary
    <3>3. QED
      BY <1>2, <2>2, <3>2 DEF AnalyzeStep, AnalyzeStepDone, Within
  <2>3. CASE AnalyzeStepFails(plan[i])
    <3>1. MovesTo("critique", report.says)
      BY <1>2, <2>3, RouteMoves DEF AnalyzeStep, AnalyzeStepFails, Nodes, Phases
    <3>2. QED
      BY <1>2, <2>3, <3>1, BoundsAssumption DEF AnalyzeStep, AnalyzeStepFails, MovesTo, Nodes
  <2>4. QED
    BY <2>1, <2>2, <2>3
<1>3. CASE AnalyzeEnds
  <2>1. MovesTo("critique", report.says)
    BY <1>3, RouteMoves DEF AnalyzeEnds, Nodes, Phases
  <2>2. QED
    BY <1>3, <2>1, BoundsAssumption DEF AnalyzeEnds, MovesTo, Nodes
<1>4. QED
  BY <1>1, <1>2, <1>3

\* The critic is where the run is steered: back to the planner only with data
\* wanting and retries left, on to the report only with what SynthesisReady says.
LEMMA CriticPreserves ==
    ASSUME IInv, \/ CriticSeesNoRows \/ CriticSeesNoDatasets \/ CriticSeesNoSummary
                 \/ CriticProceeds \/ CriticReplans
    PROVE  IInv'
<1> USE DEF IInv, TypeOK, RetryBudget, VisitsInBudget, PlansWithoutNoData, PausedWithQuestion,
            ReportFounded, SynthesisReady, ReportType, taskVars, planVars, dataVars, analysisVars
<1>0. ASSUME NEW STATE n, n \in {"plan", "synthesize"}, at = "critique", Critique(n)
      PROVE  /\ MovesTo(n, report.says)
             /\ (HasRows' <=> HasRows) /\ (AllEmpty' <=> AllEmpty)
             /\ (CriticDiagnostic' <=> CriticDiagnostic)
  <2>1. MovesTo(n, report.says)
    BY <1>0, RouteMoves DEF Critique, Nodes, Phases
  <2>2. QED
    BY <1>0, <2>1 DEF Critique, HasRows, AllEmpty, HasData, CriticDiagnostic
<1>1. CASE CriticSeesNoRows
  <2>1. MovesTo("synthesize", report.says) /\ (HasRows' <=> HasRows) /\ (AllEmpty' <=> AllEmpty)
        /\ (CriticDiagnostic' <=> CriticDiagnostic)
    BY <1>1, <1>0 DEF CriticSeesNoRows
  <2>2. QED
    BY <1>1, <2>1 DEF CriticSeesNoRows, Critique, MovesTo, Nodes
<1>2. CASE CriticSeesNoDatasets
  <2>1. PICK n \in {"plan", "synthesize"} : Critique(n) /\ (n = "plan" <=> ~Exhausted)
    BY <1>2 DEF CriticSeesNoDatasets
  <2>2. MovesTo(n, report.says) /\ (HasRows' <=> HasRows) /\ (AllEmpty' <=> AllEmpty)
        /\ (CriticDiagnostic' <=> CriticDiagnostic)
    BY <1>2, <2>1, <1>0 DEF CriticSeesNoDatasets
  <2>3. QED
    BY <1>2, <2>1, <2>2, BoundsAssumption DEF CriticSeesNoDatasets, Critique, MovesTo, Nodes, Exhausted
<1>3. CASE CriticSeesNoSummary
  <2>1. MovesTo("plan", report.says) /\ (HasRows' <=> HasRows) /\ (CriticDiagnostic' <=> CriticDiagnostic)
    BY <1>3, <1>0 DEF CriticSeesNoSummary
  <2>2. QED
    BY <1>3, <2>1, BoundsAssumption DEF CriticSeesNoSummary, LacksSummary, Exhausted, Critique, MovesTo, Nodes
<1>4. CASE CriticProceeds
  <2>1. MovesTo("synthesize", report.says) /\ (HasRows' <=> HasRows) /\ (CriticDiagnostic' <=> CriticDiagnostic)
    BY <1>4, <1>0 DEF CriticProceeds
  <2>2. QED
    BY <1>4, <2>1 DEF CriticProceeds, LacksSummary, Exhausted, Critique, MovesTo, Nodes
<1>5. CASE CriticReplans
  <2>1. PICK n \in {"plan", "synthesize"} :
            /\ Critique(n)
            /\ n = "plan" <=> retries + 1 <= MaxRetries
            /\ lastReplan' \in {lastReplan, Fingerprint}
    BY <1>5 DEF CriticReplans
  <2>2. MovesTo(n, report.says) /\ (HasRows' <=> HasRows) /\ (CriticDiagnostic' <=> CriticDiagnostic)
    BY <1>5, <2>1, <1>0 DEF CriticReplans
  <2>3. lastReplan' \in [datasets  : [Names -> {"absent", "empty", "some"}],
                         summaries : Nat, found : SUBSET (Findings \cup {Vacuous})]
    BY <2>1 DEF Fingerprint
  <2>4. QED
    BY <1>5, <2>1, <2>2, <2>3, BoundsAssumption DEF CriticReplans, Exhausted, Critique, MovesTo, Nodes
<1>6. QED
  BY <1>1, <1>2, <1>3, <1>4, <1>5

LEMMA SynthesizePreserves == ASSUME IInv, Synthesize PROVE IInv'
<1> USE DEF IInv, TypeOK, RetryBudget, VisitsInBudget, PlansWithoutNoData, PausedWithQuestion,
            ReportFounded, SynthesisReady, ReportType, taskVars, planVars, dataVars, analysisVars
<1>1. report' \in ReportType /\ report'.says = Verdict
  BY DEF Synthesize, Verdict, Reports
<1>2. (HasRows' <=> HasRows) /\ (CriticDiagnostic' <=> CriticDiagnostic)
  BY DEF Synthesize, HasRows, CriticDiagnostic
<1>3. Verdict = "answer" => ~noData /\ HasRows /\ (CriticDiagnostic => summaries > 0)
  BY DEF Synthesize, Verdict, AllEmpty
<1>4. QED
  BY <1>1, <1>2, <1>3 DEF Synthesize, Phases

LEMMA StutterPreserves == ASSUME IInv, UNCHANGED vars PROVE IInv'
BY DEF IInv, TypeOK, RetryBudget, VisitsInBudget, PlansWithoutNoData, PausedWithQuestion,
       ReportFounded, SynthesisReady, vars, taskVars, planVars, dataVars, analysisVars,
       HasRows, HasData, AllEmpty, Exhausted, CriticDiagnostic, ValidPlan

LEMMA NextInv == IInv /\ [Next]_vars => IInv'
<1> SUFFICES ASSUME IInv, [Next]_vars PROVE IInv'
  OBVIOUS
<1>1. CASE Compute
  BY <1>1, ClarifyPreserves, PlannerPreserves, QueryPreserves, AnalyzePreserves,
     CriticPreserves, SynthesizePreserves DEF Compute
<1>2. CASE Resume
  BY <1>2, ClarifyPreserves
<1>3. CASE Finished \/ UNCHANGED vars
  BY <1>3, StutterPreserves DEF Finished
<1>4. QED
  BY <1>1, <1>2, <1>3 DEF Next

-----------------------------------------------------------------------------
(* The invariants of every run *)

\* In every reachable state the strengthened invariant holds.
THEOREM Invariance == Spec => []IInv
<1>1. Init => IInv
  BY InitInv
<1>2. IInv /\ [Next]_vars => IInv'
  BY NextInv
<1>3. QED
  BY <1>1, <1>2, PTL DEF Spec

\* Type correctness, with the error count at most three above its declared bound.
THEOREM TypeCorrect == Spec => []TypeOK
<1>1. IInv => TypeOK
  BY DEF IInv
<1>2. QED
  BY <1>1, Invariance, PTL

\* A paused conversation has a question to show and passes the checks that its
\* resumption starts with, of its retries and of its phase.
THEOREM PauseTheorem == Spec => []PausedIsResumable
<1>1. IInv => PausedIsResumable
  BY DEF IInv, RetryBudget, PausedWithQuestion, PausedIsResumable
<1>2. QED
  BY <1>1, Invariance, PTL

\* No round is planned on top of a no-data verdict.
THEOREM NoStaleVerdict == Spec => []PlansWithoutNoData
<1>1. IInv => PlansWithoutNoData
  BY DEF IInv
<1>2. QED
  BY <1>1, Invariance, PTL

\* An answer rests on rows.
THEOREM AnswersRestOnRows == Spec => []AnswerHasRows
<1>1. IInv => AnswerHasRows
  BY DEF IInv, ReportFounded, AnswerHasRows
<1>2. QED
  BY <1>1, Invariance, PTL

\* An answered why-question has a summary artifact.
THEOREM DiagnosesHaveSummaries == Spec => []DiagnosisHasSummary
<1>1. IInv => DiagnosisHasSummary
  BY DEF IInv, ReportFounded, DiagnosisHasSummary
<1>2. QED
  BY <1>1, Invariance, PTL

-----------------------------------------------------------------------------
(* The agent graph implements the contract *)

\* The initial states map to the contract's.
LEMMA ContractInit == Init => Contract!Init
BY BoundsAssumption DEF Init, Contract!Init, Status, Fuel, EvidenceOf, Outcome,
   HasRows, HasData, AllEmpty

LEMMA EvidenceType == EvidenceOf \in Contract!Evidence
BY DEF EvidenceOf, Contract!Evidence

\* A node visited and left is work, or the end of the budget.
LEMMA LeavingMaps ==
    ASSUME IInv, at \in Nodes, NEW STATE n, n \in Nodes, NEW STATE says, MovesTo(n, says),
           retries' \in {retries, retries + 1}
    PROVE  Contract!Work \/ Contract!CutOff
<1>1. EvidenceOf' \in Contract!Evidence
  BY DEF EvidenceOf, Contract!Evidence
<1>2. Status = "running" /\ Outcome = "none" /\ iteration \in 1..MaxIterations
  BY BoundsAssumption DEF Status, Outcome, Nodes, IInv, TypeOK, VisitsInBudget
<1>3. CASE at' = n /\ iteration' <= MaxIterations
  <2>1. Status' = "running" /\ Outcome' = "none"
    BY <1>3 DEF Status, Outcome, Nodes
  <2>2. QED
    BY <1>1, <1>2, <1>3, <2>1, BoundsAssumption DEF MovesTo, Fuel, Contract!Work
<1>4. CASE at' = "end" /\ iteration' > MaxIterations
  <2>1. Status' = "finished" /\ Outcome' = "overrun"
    BY <1>4 DEF Status, Outcome
  <2>2. QED
    BY <1>1, <1>2, <1>4, <2>1, BoundsAssumption DEF MovesTo, Fuel, Contract!CutOff
<1>5. QED
  BY <1>3, <1>4 DEF MovesTo

\* A step within a node's loop is work.
LEMMA WithinMaps ==
    ASSUME IInv, at \in Nodes, Within, retries' = retries
    PROVE  Contract!Work
<1>1. EvidenceOf' \in Contract!Evidence
  BY DEF EvidenceOf, Contract!Evidence
<1>2. Status = "running" /\ Outcome = "none" /\ iteration \in 1..MaxIterations
  BY BoundsAssumption DEF Status, Outcome, Nodes, IInv, TypeOK, VisitsInBudget
<1>3. Status' = Status /\ Outcome' = Outcome /\ Fuel' = Fuel
  BY DEF Within, Status, Outcome, Fuel
<1>4. QED
  BY <1>1, <1>2, <1>3, BoundsAssumption DEF Fuel, Contract!Work

\* A question asked while failures can still be made up for.
LEMMA SuspendMaps ==
    ASSUME IInv, at \in {"clarify", "plan"}, Suspend
    PROVE  Contract!Ask
<1>1. EvidenceOf' = EvidenceOf /\ Fuel' = Fuel
  BY DEF Suspend, dataVars, EvidenceOf, HasRows, HasData, AllEmpty, Fuel
<1>2. Status = "running" /\ Status' = "waiting" /\ Outcome = "none" /\ Outcome' = "none"
  BY DEF Suspend, Status, Outcome
<1>3. retries <= MaxRetries /\ retries' = retries
  BY DEF IInv, RetryBudget, Suspend
<1>4. QED
  BY <1>1, <1>2, <1>3 DEF Contract!Ask

\* The user's reply starts a new visit, unless there is none left.
LEMMA ResumeMaps ==
    ASSUME IInv, Resume
    PROVE  Contract!Reply \/ Contract!CutOff
<1>1. MovesTo("plan", report.says)
  BY RouteMoves DEF Resume, Nodes, Phases, IInv, TypeOK, ReportType
<1>2. EvidenceOf' = EvidenceOf /\ retries' = retries
  BY DEF Resume, dataVars, EvidenceOf, HasRows, HasData, AllEmpty
<1>3. Status = "waiting" /\ Outcome = "none" /\ iteration \in 1..MaxIterations
  BY BoundsAssumption DEF Resume, Status, Outcome, IInv, TypeOK, VisitsInBudget
<1>4. CASE at' = "plan" /\ iteration' <= MaxIterations
  <2>1. Status' = "running" /\ Outcome' = "none"
    BY <1>4 DEF Status, Outcome
  <2>2. QED
    BY <1>1, <1>2, <1>3, <1>4, <2>1, BoundsAssumption DEF MovesTo, Fuel, Contract!Reply
<1>5. CASE at' = "end" /\ iteration' > MaxIterations
  <2>1. Status' = "finished" /\ Outcome' = "overrun"
    BY <1>5 DEF Status, Outcome
  <2>2. QED
    BY <1>1, <1>2, <1>3, <1>5, <2>1, EvidenceType, BoundsAssumption
       DEF MovesTo, Fuel, Contract!CutOff
<1>6. QED
  BY <1>1, <1>4, <1>5 DEF MovesTo

\* The report is one that the evidence and the failures call for.
LEMMA SynthesizeMaps ==
    ASSUME IInv, Synthesize
    PROVE  Contract!Report
<1>1. EvidenceOf' = EvidenceOf /\ Fuel' = Fuel /\ retries' = retries
  BY DEF Synthesize, dataVars, EvidenceOf, HasRows, HasData, AllEmpty, Fuel
<1>2. Status = "running" /\ Outcome = "none" /\ Status' = "finished"
  BY DEF Synthesize, Status, Outcome
<1>3. iteration' \in 1..MaxIterations
  BY BoundsAssumption DEF Synthesize, IInv, TypeOK, VisitsInBudget
<1>4. report'.says = Verdict
  BY DEF Synthesize, IInv, TypeOK
<1>5. Outcome' = Verdict
  BY <1>3, <1>4, BoundsAssumption DEF Synthesize, Outcome
<1>6. Contract!Honest(Verdict) /\ Verdict \in {"degraded", "nodata", "answer"}
  <2>1. retries \in Nat
    BY BoundsAssumption DEF IInv, TypeOK
  <2>2. QED
    BY <2>1, BoundsAssumption DEF Contract!Honest, Verdict, EvidenceOf, Exhausted, AllEmpty,
       HasData, HasRows, IInv, SynthesisReady, Synthesize
<1>7. QED
  BY <1>1, <1>2, <1>5, <1>6 DEF Contract!Report

LEMMA StutterMaps == ASSUME UNCHANGED vars PROVE UNCHANGED Contract!vars
BY DEF vars, dataVars, Contract!vars, Status, Fuel, EvidenceOf, Outcome, HasRows, HasData, AllEmpty

\* Each action of the graph is a step of the contract.
LEMMA ComputeMaps == ASSUME IInv, Compute PROVE Contract!Next
<1> USE DEF Contract!Next
<1>0. /\ resumed \in BOOLEAN /\ report \in ReportType /\ phase \in Phases
      /\ "plan" \in Nodes /\ "query" \in Nodes /\ "analyze" \in Nodes
      /\ "critique" \in Nodes /\ "synthesize" \in Nodes /\ "clarify" \in Nodes
  BY DEF IInv, TypeOK, ReportType, Nodes
<1>1. CASE ClarifyMerges \/ ClarifyPasses
  <2>1. MovesTo("plan", report.says)
    BY <1>0, <1>1, RouteMoves DEF ClarifyMerges, ClarifyPasses, Phases
  <2>2. QED
    BY <1>0, <1>1, <2>1, LeavingMaps DEF ClarifyMerges, ClarifyPasses
<1>2. CASE ClarifyAsks \/ PlannerAsks
  BY <1>2, SuspendMaps DEF ClarifyAsks, PlannerAsks
<1>3. CASE PlannerPlans
  <2>1. PICK p \in LlmPlans \cup {HeuristicPlan} : Planned(p)
    BY <1>3 DEF PlannerPlans
  <2>2. AfterPlan(p) \in Nodes
    BY DEF AfterPlan, Nodes
  <2>3. MovesTo(AfterPlan(p), report.says)
    BY <1>0, <2>1, <2>2, RouteMoves DEF Planned, Phases
  <2>4. QED
    BY <1>0, <2>1, <2>2, <2>3, LeavingMaps DEF Planned
<1>4. CASE QueryStep
  <2>1. PICK i \in DOMAIN plan : \E r \in Outcomes(plan[i]) :
              QueryStepDone(plan[i], r) \/ QueryStepFails(plan[i], r)
    BY <1>4 DEF QueryStep
  <2>2. PICK r \in Outcomes(plan[i]) : QueryStepDone(plan[i], r) \/ QueryStepFails(plan[i], r)
    BY <2>1
  <2>3. CASE QueryStepDone(plan[i], r)
    BY <1>0, <1>4, <2>3, WithinMaps DEF QueryStep, QueryStepDone
  <2>4. CASE QueryStepFails(plan[i], r)
    <3>1. PICK rep \in ReportType, ph \in Phases : Route("analyze", ph, rep)
      BY <1>0, <2>4 DEF QueryStepFails, Phases, ReportType, Reports
    <3>2. MovesTo("analyze", rep.says)
      BY <1>0, <1>4, <2>4, <3>1, RouteMoves DEF QueryStep, QueryStepFails
    <3>3. QED
      BY <1>0, <1>4, <2>4, <3>2, LeavingMaps DEF QueryStep, QueryStepFails
  <2>5. QED
    BY <2>2, <2>3, <2>4
<1>5. CASE QueryEnds
  <2>1. MovesTo("analyze", report.says)
    BY <1>0, <1>5, RouteMoves DEF QueryEnds, Phases
  <2>2. QED
    BY <1>0, <1>5, <2>1, LeavingMaps DEF QueryEnds
<1>6. CASE AnalyzeSkips \/ AnalyzeEnds
  <2>1. MovesTo("critique", report.says)
    BY <1>0, <1>6, RouteMoves DEF AnalyzeSkips, AnalyzeEnds, Phases
  <2>2. QED
    BY <1>0, <1>6, <2>1, LeavingMaps DEF AnalyzeSkips, AnalyzeEnds
<1>7. CASE AnalyzeStep
  <2>1. PICK i \in DOMAIN plan : AnalyzeStepDone(plan[i]) \/ AnalyzeStepFails(plan[i])
    BY <1>7 DEF AnalyzeStep
  <2>2. CASE AnalyzeStepDone(plan[i])
    BY <1>0, <1>7, <2>2, WithinMaps DEF AnalyzeStep, AnalyzeStepDone
  <2>3. CASE AnalyzeStepFails(plan[i])
    <3>1. MovesTo("critique", report.says)
      BY <1>0, <1>7, <2>3, RouteMoves DEF AnalyzeStep, AnalyzeStepFails, Phases
    <3>2. QED
      BY <1>0, <1>7, <2>3, <3>1, LeavingMaps DEF AnalyzeStep, AnalyzeStepFails
  <2>4. QED
    BY <2>1, <2>2, <2>3
<1>8. CASE \/ CriticSeesNoRows \/ CriticSeesNoDatasets \/ CriticSeesNoSummary
           \/ CriticProceeds \/ CriticReplans
  <2>1. PICK n \in {"plan", "synthesize"} :
            at = "critique" /\ Critique(n) /\ retries' \in {retries, retries + 1}
    BY <1>8 DEF CriticSeesNoRows, CriticSeesNoDatasets, CriticSeesNoSummary,
                CriticProceeds, CriticReplans
  <2>2. MovesTo(n, report.says)
    BY <1>0, <2>1, RouteMoves DEF Critique, Phases
  <2>3. QED
    BY <1>0, <2>1, <2>2, LeavingMaps
<1>9. CASE Synthesize
  BY <1>9, SynthesizeMaps
<1>10. QED
  BY <1>1, <1>2, <1>3, <1>4, <1>5, <1>6, <1>7, <1>8, <1>9 DEF Compute

\* The agent graph implements the contract of a conversation.
THEOREM KeepsContract == Spec => ContractKept
<1>1. Init => Contract!Init
  BY ContractInit
<1>2. IInv /\ [Next]_vars => [Contract!Next]_(Contract!vars)
  <2> SUFFICES ASSUME IInv, [Next]_vars PROVE [Contract!Next]_(Contract!vars)
    OBVIOUS
  <2>1. CASE Compute
    BY <2>1, ComputeMaps
  <2>2. CASE Resume
    BY <2>2, ResumeMaps DEF Contract!Next
  <2>3. CASE Finished \/ UNCHANGED vars
    BY <2>3, StutterMaps DEF Finished
  <2>4. QED
    BY <2>1, <2>2, <2>3 DEF Next
<1>3. QED
  BY <1>1, <1>2, Invariance, PTL DEF Spec, ContractKept, Contract!Spec
=============================================================================
