---------------------------- MODULE Orchestrator ----------------------------
(***************************************************************************)
(* The six-node agent graph of core/orchestrator: the engine of graph.py,  *)
(* the nodes of nodes.py and the edges of agent.py, over one conversation  *)
(* (a first run_agent call and the resume calls that follow its pauses).   *)
(*                                                                         *)
(* The graph is single threaded: `at` is the node the loop is executing.   *)
(* A node is one action, except that the query and analyze nodes take one  *)
(* action per plan step, as their loops do.  The answers of the LLM, of    *)
(* the warehouse and of the sandbox are nondeterministic.                  *)
(***************************************************************************)
EXTENDS Naturals, Sequences

CONSTANTS
    StepIds,        \* the ids plan steps may carry
    LlmPlans,       \* the plans _plan_from_llm may accept from the LLM
    Findings,       \* the distinct summaries the sandbox may save
    MaxIterations,  \* StateGraph(max_iterations), 24 in the code
    MaxRetries      \* state.MAX_RETRIES, 3 in the code

VARIABLES
    at,             \* the node being executed, "paused" or "end"
    resumed,        \* the loop is that of resume(), not that of run()
    phase,          \* AgentState.phase
    iteration,      \* AgentState.iteration
    retries,        \* AgentState.error_context.retries
    query,          \* what the nodes read in user_query
    reply,          \* human_reply is set
    clarification,  \* clarification is set
    plan,           \* plan_steps, without their status
    pending,        \* the ids of the steps whose status is "pending"
    datasets,       \* datasets: what is registered under each name
    outputs,        \* step_outputs: the names each step id produced
    noData,         \* no_data_reason is set
    summaries,      \* number of summary artifacts
    found,          \* the distinct contents of those summaries
    lastReplan,     \* last_replan_fingerprint
    report,         \* what the report says
    fetched         \* history: the names registered since the last plan

taskVars == <<query, reply, clarification>>
planVars == <<plan, pending>>
dataVars == <<datasets, outputs, noData, fetched>>
analysisVars == <<summaries, found, lastReplan>>
vars == <<at, resumed, phase, iteration, retries, taskVars, planVars,
          dataVars, analysisVars, report>>

-----------------------------------------------------------------------------
(* Data *)

Nodes == {"clarify", "plan", "query", "analyze", "critique", "synthesize"}
Phases == {"clarify", "plan", "query", "analyze", "critique", "synthesize", "done"}

\* A step of a plan; dsl and code say whether the planner supplied them.
PlanStep == [id : StepIds, kind : {"query", "analyze", "synthesize"},
             deps : SUBSET StepIds, dsl : BOOLEAN, code : BOOLEAN]

\* What _plan_from_llm accepts: 1 to 6 steps, distinct ids, and dependencies
\* on other steps of the plan.
ValidPlan(p) ==
    /\ p \in Seq(PlanStep)
    /\ Len(p) \in 1..6
    /\ \A i, j \in DOMAIN p : p[i].id = p[j].id => i = j
    /\ \A i \in DOMAIN p : p[i].deps \subseteq {p[j].id : j \in DOMAIN p} \ {p[i].id}

\* A user query: is it specific enough for the clarify node, what its wording
\* asks for, and where its time window lies.  "decline" is a question whose
\* only trigger word is the one the planner and the query node know and the
\* critic does not.  A window "straddles" when only its second half lies
\* beyond the last day of data.
QueryClass == [specific : BOOLEAN,
               kind     : {"scalar", "decline", "diagnostic"},
               window   : {"inside", "straddles", "outside"}]

\* A dataset name: <<id, 0>> for a step with one DSL, <<id, 1>> and <<id, 2>>
\* for the baseline and the current period of a diagnostic pair.
Names == StepIds \X (0..2)

\* The progress fingerprint hashes the datasets and every summary artifact.  The
\* rows and columns of a dataset that has some are not told apart here.
Fingerprint == [datasets |-> datasets, summaries |-> summaries, found |-> found]
NoFingerprint == [datasets |-> [n \in Names |-> "absent"], summaries |-> 0, found |-> {}]

\* What a template saves that has nothing to analyse.
Vacuous == "vacuous"

Reports == {"none", "terminated", "answer", "degraded", "nodata"}

ASSUME StepIdsAssumption == {"s1", "s2", "s3", "s4"} \subseteq StepIds
ASSUME FindingsAssumption == Vacuous \notin Findings
ASSUME LlmPlansAssumption == \A p \in LlmPlans : ValidPlan(p)
ASSUME BoundsAssumption ==
    /\ MaxIterations \in Nat \ {0}
    /\ MaxRetries \in Nat \ {0}

-----------------------------------------------------------------------------
(* What the nodes compute from the state *)

Step(id, kind, deps) ==
    [id |-> id, kind |-> kind, deps |-> deps, dsl |-> FALSE, code |-> FALSE]

\* The planner and the query node's notion of a diagnostic question.
Diagnostic == query.kind \in {"decline", "diagnostic"}

\* The critic's own list of trigger words lacks one of theirs.
CriticDiagnostic == query.kind = "diagnostic"

HeuristicPlan ==
    IF Diagnostic
    THEN <<Step("s1", "query", {}), Step("s2", "analyze", {"s1"}),
           Step("s3", "analyze", {"s1"}), Step("s4", "synthesize", {"s2", "s3"})>>
    ELSE <<Step("s1", "query", {}), Step("s2", "synthesize", {"s1"})>>

IdsOf(p) == {p[i].id : i \in DOMAIN p}

PendingSteps(kind) == {i \in DOMAIN plan : plan[i].kind = kind /\ plan[i].id \in pending}

\* The node's loop takes the pending steps of its kind in plan order.
IsNext(i, kind) ==
    /\ i \in PendingSteps(kind)
    /\ \A j \in PendingSteps(kind) : i <= j

HasData == \E n \in Names : datasets[n] # "absent"
HasRows == \E n \in Names : datasets[n] = "some"
AllEmpty == HasData /\ ~HasRows

Exhausted == retries >= MaxRetries

\* The dataset names a query step fills, one per DSL variant.
NamesOf(step) ==
    IF step.dsl \/ ~Diagnostic THEN {<<step.id, 0>>} ELSE {<<step.id, 1>>, <<step.id, 2>>}

\* The domain guard on the deterministic DSLs: both periods of a pair are cut
\* from the query's own window, the current period from its second half.
OutsideDomain(n) ==
    \/ query.window = "outside"
    \/ query.window = "straddles" /\ n[2] = 2

\* The outcomes of a query step, one per variant: the domain guard blocks
\* exactly the deterministic DSLs outside the domain; an LLM's DSL may name
\* any window.
Outcomes(step) ==
    {r \in [NamesOf(step) -> {"blocked", "empty", "some", "raise"}] :
        step.dsl \/ \A n \in NamesOf(step) : (r[n] = "blocked") <=> OutsideDomain(n)}

\* The variants a step fetched: those with rows or without, before the first
\* variant that raised.
Fetched(r) ==
    {n \in DOMAIN r : /\ r[n] \in {"empty", "some"}
                      /\ \A m \in DOMAIN r : r[m] = "raise" => n[2] < m[2]}

Raised(r) == \E n \in DOMAIN r : r[n] = "raise"

Register(r) ==
    /\ datasets' = [n \in Names |-> IF n \in Fetched(r) THEN r[n] ELSE datasets[n]]
    /\ fetched' = fetched \cup Fetched(r)

\* _resolve_step_inputs: what the declared dependencies produced, or else what
\* the plan's query steps produced, or else every registered dataset.
Registered(ids) == {n \in UNION {outputs[id] : id \in ids} : datasets[n] # "absent"}

StepInputs(step) ==
    LET declared == Registered(step.deps)
        queried  == Registered({plan[i].id : i \in {j \in DOMAIN plan :
                                   plan[j].kind = "query" /\ plan[j].id # step.id}})
    IN  IF declared # {} THEN declared
        ELSE IF queried # {} THEN queried
        ELSE {n \in Names : datasets[n] # "absent"}

-----------------------------------------------------------------------------
(* The engine *)

Init ==
    /\ at = "clarify"
    /\ resumed = FALSE
    /\ iteration = 1
    /\ retries = 0
    /\ query \in QueryClass
    /\ reply \in BOOLEAN
    /\ phase = IF reply THEN "plan" ELSE "clarify"
    /\ clarification = FALSE
    /\ plan = <<>>
    /\ pending = {}
    /\ datasets = [n \in Names |-> "absent"]
    /\ outputs = [id \in StepIds |-> {}]
    /\ noData = FALSE
    /\ summaries = 0
    /\ found = {}
    /\ lastReplan = NoFingerprint
    /\ report = [says |-> "none", overrun |-> FALSE]
    /\ fetched = {}

\* Mutant: the visit is not counted.
RouteUncounted(n, ph, rep) ==
    /\ iteration' = iteration
    /\ at' = n
    /\ phase' = ph
    /\ report' = rep

\* Leave a node for node n with phase ph and report rep.  The loop counts the
\* visit before it runs the node; past the limit it ends the run instead, and
\* only run() notes that in the report.
Route(n, ph, rep) ==
    /\ iteration' = iteration + 1
    /\ IF iteration + 1 > MaxIterations
       THEN /\ at' = "end"
            /\ phase' = "done"
            /\ report' = [rep EXCEPT !.overrun = ~resumed']
       ELSE /\ at' = n
            /\ phase' = ph
            /\ report' = rep

\* A node whose result has phase "clarify" suspends the run.
Suspend ==
    /\ at' = "paused"
    /\ phase' = "clarify"
    /\ clarification' = TRUE
    /\ UNCHANGED <<resumed, iteration, retries, query, reply, planVars, dataVars,
                   analysisVars, report>>

\* A node's own step inside its loop.
Within == UNCHANGED <<at, resumed, phase, iteration, report, taskVars, plan>>

\* The user's reply is appended to the query: its trigger words stay, its
\* window may change.
MergeReply ==
    /\ query' \in [specific : {query.specific},
                   kind     : CASE query.kind = "scalar" -> {"scalar", "decline", "diagnostic"}
                                [] query.kind = "decline" -> {"decline", "diagnostic"}
                                [] query.kind = "diagnostic" -> {"diagnostic"},
                   window   : {"inside", "straddles", "outside"}]
    /\ reply' = FALSE
    /\ clarification' = FALSE

\* Mutant: a resumed run counts its visits from the start.
ResumeAfresh ==
    /\ at = "paused"
    /\ resumed' = TRUE
    /\ MergeReply
    /\ iteration' = 1
    /\ at' = "plan"
    /\ phase' = "plan"
    /\ UNCHANGED <<retries, report, planVars, dataVars, analysisVars>>

\* resume(): a reply is merged first; an empty one leaves phase "clarify".
\* The edge out of clarify leads to the planner.
Resume ==
    /\ at = "paused"
    /\ resumed' = TRUE
    /\ \/ /\ MergeReply
          /\ Route("plan", "plan", report)
       \/ /\ UNCHANGED taskVars
          /\ Route("plan", "clarify", report)
    /\ UNCHANGED <<retries, planVars, dataVars, analysisVars>>

-----------------------------------------------------------------------------
(* clarify_node *)

ClarifyMerges ==
    /\ at = "clarify"
    /\ reply
    /\ MergeReply
    /\ UNCHANGED <<resumed, retries, planVars, dataVars, analysisVars>>
    /\ Route("plan", "plan", report)

ClarifyPasses ==
    /\ at = "clarify"
    /\ ~reply
    /\ query.specific
    /\ UNCHANGED <<resumed, retries, taskVars, planVars, dataVars, analysisVars>>
    /\ Route("plan", "plan", report)

ClarifyAsks ==
    /\ at = "clarify"
    /\ ~reply
    /\ ~query.specific
    /\ Suspend

-----------------------------------------------------------------------------
(* planner_node *)

PlannerAsks ==
    /\ at = "plan"
    /\ Suspend

\* route_from_plan: to the first node that has a pending step.
AfterPlan(p) ==
    IF \E i \in DOMAIN p : p[i].kind = "query" THEN "query"
    ELSE IF \E i \in DOMAIN p : p[i].kind = "analyze" THEN "analyze"
    ELSE "critique"

\* A new plan keeps the datasets, the artifacts and the step outputs.
Planned(p) ==
    /\ at = "plan"
    /\ plan' = p
    /\ pending' = IdsOf(p)
    /\ fetched' = {}
    /\ UNCHANGED <<resumed, retries, taskVars, datasets, outputs, noData, analysisVars>>
    /\ Route(AfterPlan(p), "query", report)

PlannerPlans == \E p \in LlmPlans \cup {HeuristicPlan} : Planned(p)

-----------------------------------------------------------------------------
(* dsl_query_node and _run_query_step *)

\* The step fetched what the guard let through; nothing at all through means
\* that the run has no data.
QueryStepDone(step, r) ==
    /\ ~Raised(r)
    /\ Register(r)
    /\ outputs' = [outputs EXCEPT ![step.id] = Fetched(r)]
    /\ noData' = (Fetched(r) = {})
    /\ pending' = pending \ {step.id}
    /\ UNCHANGED <<retries, analysisVars>>
    /\ Within

\* A variant raised: the earlier variants stay registered, step_outputs is not
\* updated, the rest of the plan's queries are abandoned, and the edge out of
\* the node leads to analyze whatever phase the node asks for.
QueryStepFails(step, r) ==
    /\ Raised(r)
    /\ Register(r)
    /\ retries' = retries + 1
    /\ pending' = pending \ {step.id}
    /\ UNCHANGED <<resumed, taskVars, plan, outputs, noData, analysisVars>>
    /\ IF retries + 1 <= MaxRetries
       THEN Route("analyze", "plan", report)
       ELSE Route("analyze", "done", [report EXCEPT !.says = "terminated"])

QueryStep ==
    /\ at = "query"
    /\ ~noData
    /\ \E i \in DOMAIN plan : /\ IsNext(i, "query")
                              /\ \E r \in Outcomes(plan[i]) : \/ QueryStepDone(plan[i], r)
                                                              \/ QueryStepFails(plan[i], r)

\* Every query step is done; those behind a blocked one are skipped.
QueryEnds ==
    /\ at = "query"
    /\ noData \/ PendingSteps("query") = {}
    /\ pending' = pending \ {plan[i].id : i \in PendingSteps("query")}
    /\ UNCHANGED <<resumed, retries, taskVars, plan, dataVars, analysisVars>>
    /\ Route("analyze", "analyze", report)

-----------------------------------------------------------------------------
(* code_exec_node *)

AnalyzeSkips ==
    /\ at = "analyze"
    /\ noData
    /\ UNCHANGED <<resumed, retries, taskVars, planVars, dataVars, analysisVars>>
    /\ Route("critique", phase, report)

\* The summary a step may save.  The planner's own code may find anything; the
\* templates say that there is nothing to analyse when their inputs are
\* missing or have no rows.
Summary(step) ==
    IF step.code \/ \E n \in StepInputs(step) : datasets[n] = "some"
    THEN Findings ELSE {Vacuous}

AnalyzeStepDone(step) ==
    /\ \E f \in Summary(step) : found' = found \cup {f}
    /\ summaries' = summaries + 1
    /\ pending' = pending \ {step.id}
    /\ UNCHANGED <<retries, dataVars, lastReplan>>
    /\ Within

\* The sandbox failed: the rest of the plan's analyses are abandoned, and the
\* edge out of the node leads to critique whatever phase the node asks for.
AnalyzeStepFails(step) ==
    /\ retries' = retries + 1
    /\ pending' = pending \ {step.id}
    /\ UNCHANGED <<resumed, taskVars, plan, dataVars, analysisVars>>
    /\ Route("critique", IF retries + 1 <= MaxRetries THEN "plan" ELSE "critique", report)

AnalyzeStep ==
    /\ at = "analyze"
    /\ ~noData
    /\ \E i \in DOMAIN plan : /\ IsNext(i, "analyze")
                              /\ AnalyzeStepDone(plan[i]) \/ AnalyzeStepFails(plan[i])

AnalyzeEnds ==
    /\ at = "analyze"
    /\ ~noData
    /\ PendingSteps("analyze") = {}
    /\ UNCHANGED <<resumed, retries, taskVars, planVars, dataVars, analysisVars>>
    /\ Route("critique", "critique", report)

-----------------------------------------------------------------------------
(* critic_node *)

Critique(next) ==
    /\ UNCHANGED <<resumed, taskVars, planVars, dataVars, summaries, found>>
    /\ Route(next, next, report)

\* No data, or nothing but empty datasets: on to the honest report.
CriticSeesNoRows ==
    /\ at = "critique"
    /\ noData \/ AllEmpty
    /\ UNCHANGED <<retries, lastReplan>>
    /\ Critique("synthesize")

\* Mutant: a blocked fetch counts as a failed one and is planned again.
CriticReplansBlocked ==
    /\ at = "critique"
    /\ ~HasData
    /\ UNCHANGED <<retries, lastReplan>>
    /\ Critique(IF Exhausted THEN "synthesize" ELSE "plan")

\* No dataset at all: plan again, at no cost, until the retries are used up.
CriticSeesNoDatasets ==
    /\ at = "critique"
    /\ ~noData
    /\ ~HasData
    /\ UNCHANGED <<retries, lastReplan>>
    /\ Critique(IF Exhausted THEN "synthesize" ELSE "plan")

\* Mutant: a summary is asked for only in the first round.
LacksSummaryOnce == CriticDiagnostic /\ summaries = 0 /\ retries = 0

LacksSummary == CriticDiagnostic /\ summaries = 0 /\ ~Exhausted

\* A diagnostic question without an analysis: plan again, at no cost.
CriticSeesNoSummary ==
    /\ at = "critique"
    /\ ~noData
    /\ HasRows
    /\ LacksSummary
    /\ UNCHANGED <<retries, lastReplan>>
    /\ Critique("plan")

\* The three checks pass, or the reflector's objection cannot be acted on.
CriticProceeds ==
    /\ at = "critique"
    /\ ~noData
    /\ HasRows
    /\ ~LacksSummary
    /\ UNCHANGED <<retries, lastReplan>>
    /\ Critique("synthesize")

\* Mutant: the reflector's replans are not bounded by the retries.
CriticReplansFreely ==
    /\ at = "critique"
    /\ ~noData
    /\ HasRows
    /\ ~LacksSummary
    /\ summaries > 0
    /\ Fingerprint # lastReplan
    /\ retries' = retries + 1
    /\ lastReplan' = Fingerprint
    /\ Critique("plan")

\* The reflector names a gap that the warehouse could fill, and the artifacts
\* changed since the last such replan: plan again, at the cost of a retry.
CriticReplans ==
    /\ at = "critique"
    /\ ~noData
    /\ HasRows
    /\ ~LacksSummary
    /\ summaries > 0
    /\ Fingerprint # lastReplan
    /\ retries' = retries + 1
    /\ IF retries + 1 <= MaxRetries
       THEN lastReplan' = Fingerprint /\ Critique("plan")
       ELSE lastReplan' = lastReplan /\ Critique("synthesize")

-----------------------------------------------------------------------------
(* synthesize_node *)

\* Mutant: the no-data branch looks at the datasets alone.
VerdictOfDatasets ==
    IF Exhausted THEN "degraded"
    ELSE IF AllEmpty THEN "nodata"
    ELSE "answer"

\* Which of its three reports the node writes.
Verdict ==
    IF Exhausted THEN "degraded"
    ELSE IF noData \/ AllEmpty THEN "nodata"
    ELSE "answer"

Synthesize ==
    /\ at = "synthesize"
    /\ at' = "end"
    /\ phase' = "done"
    /\ report' = [report EXCEPT !.says = Verdict]
    /\ UNCHANGED <<resumed, iteration, retries, taskVars, planVars, dataVars, analysisVars>>

-----------------------------------------------------------------------------

\* A finished conversation stays as it is.
Finished == at = "end" /\ UNCHANGED vars

Compute ==
    \/ ClarifyMerges \/ ClarifyPasses \/ ClarifyAsks
    \/ PlannerAsks \/ PlannerPlans
    \/ QueryStep \/ QueryEnds
    \/ AnalyzeSkips \/ AnalyzeStep \/ AnalyzeEnds
    \/ CriticSeesNoRows \/ CriticSeesNoDatasets \/ CriticSeesNoSummary
    \/ CriticProceeds \/ CriticReplans
    \/ Synthesize

Next == Compute \/ Resume \/ Finished

\* The graph loop runs on; nothing makes the user reply to a question.
Spec == Init /\ [][Next]_vars /\ WF_vars(Compute)

-----------------------------------------------------------------------------
(* Properties *)

\* Every variable has its type; the retry count stays within three of its
\* declared bound, which ErrorContext.record passes without validation.
TypeOK ==
    /\ at \in Nodes \cup {"paused", "end"}
    /\ resumed \in BOOLEAN
    /\ phase \in Phases
    /\ iteration \in 1..(MaxIterations + 1)
    /\ retries \in 0..(MaxRetries + 3)
    /\ query \in QueryClass
    /\ reply \in BOOLEAN
    /\ clarification \in BOOLEAN
    /\ plan = <<>> \/ ValidPlan(plan)
    /\ pending \subseteq StepIds
    /\ datasets \in [Names -> {"absent", "empty", "some"}]
    /\ outputs \in [StepIds -> SUBSET Names]
    /\ noData \in BOOLEAN
    /\ fetched \subseteq Names
    /\ summaries \in Nat
    /\ found \subseteq Findings \cup {Vacuous}
    /\ lastReplan \in [datasets  : [Names -> {"absent", "empty", "some"}],
                       summaries : Nat, found : SUBSET (Findings \cup {Vacuous})]
    /\ report \in [says : Reports, overrun : BOOLEAN]

\* A paused conversation can be taken up again: the saved state passes the
\* bound of ErrorContext.retries when the server validates it on resume, the
\* phase is the one resume() insists on, and the question is there to be shown.
\* (It may have made its last visit: then its resumption ends at once.)
PausedIsResumable ==
    at = "paused" => /\ retries <= MaxRetries
                     /\ phase = "clarify"
                     /\ clarification

\* The planner never starts a round with no_data_reason set.  The planner does
\* not clear it, and the query node skips every step while it is set, so such
\* a round would fetch nothing and repeat the verdict of an earlier window.
PlansWithoutNoData == at \in {"clarify", "plan", "paused"} => ~noData

\* A report that answers the question rests on rows, and is never given when
\* the domain guard blocked the last fetch.
AnswerHasRows == report.says = "answer" => HasRows /\ ~noData

\* A why-question, as the critic reads it, is never answered without a summary
\* artifact.
DiagnosisHasSummary == report.says = "answer" /\ CriticDiagnostic => summaries > 0

\* Every run comes to rest, at a question to the user or at its end: the
\* iteration guard covers the replans that cost no retry.
ComesToRest == []<>(at \in {"paused", "end"})

\* The datasets that the next analysis step reads were all fetched in this
\* round, as _resolve_step_inputs says of its inputs.
InputsOfThisRound ==
    at = "analyze" /\ ~noData =>
        \A i \in DOMAIN plan : IsNext(i, "analyze") /\ ~plan[i].code =>
            StepInputs(plan[i]) \subseteq fetched

\* Between two replans asked for by the reflector there is a new dataset or a
\* new finding, as the fingerprint guard of _insufficient_is_actionable says.
ReplanFollowsProgress ==
    [][lastReplan' # lastReplan => \/ lastReplan'.datasets # lastReplan.datasets
                                   \/ lastReplan'.found # lastReplan.found]_vars
=============================================================================
