----------------------------- MODULE ToolAgent -----------------------------
(***************************************************************************)
(* The multi-tool agent of agent/tool_agent.py, with the self-heal loop of *)
(* a query (tools/builtins/_query_core.py) and the export tool's reuse of  *)
(* the output before it (tools/builtins/export_report_tool.py).            *)
(*                                                                         *)
(* One ToolAgent serves all requests of a process: run() keeps the         *)
(* conversation of its caller in two attributes of the object and reads    *)
(* them again when it plans.  Everything else is local to a run.  The LLM, *)
(* the router and the warehouse are nondeterministic.                      *)
(***************************************************************************)
EXTENDS Naturals, Sequences

CONSTANTS
    Requests,       \* calls of ToolAgent.run, one thread each
    MaxSteps,       \* MAX_AGENT_STEPS: executed tool calls of a run
    MaxRewrites,    \* SQL_SELF_HEAL_MAX_RETRIES: rewritten DSLs of a query
    MaxEntities,    \* bound: objects a comparison is decomposed into
    None            \* no conversation

VARIABLES
    llm,            \* whether the process has an LLM: it selects the planner,
                    \* the reflector and the rewriter
    reflecting,     \* AGENT_REFLECTION_ENABLED
    history,        \* _history of the agent: whose conversation it is
    lastDsl,        \* _last_dsl of the agent, likewise
    frame,          \* the local variables of each run
    outputs,        \* the executed calls of each run: its outputs and steps
    result          \* the AgentResult of each run

shared == <<history, lastDsl>>
vars == <<llm, reflecting, shared, frame, outputs, result>>

Queriers == {"query_metric", "trend_analysis"}

\* A call with valid arguments.  The export tool may be given no question, and
\* then depends on the output before it ("export_prior").
Tools == Queriers \cup {"explain_glossary", "export_report", "export_prior"}

\* What a call came to: rows, documents, a file of the rows of the query before
\* it or of its own, a file of an output that has no rows; an error that may be
\* repaired, one of _is_permanent_error.
Outcomes == {"rows", "documents", "file", "hollow", "failed", "denied"}
Failures == {"failed", "denied"}

Outputs == [tool : Tools, outcome : Outcomes]
Succeeded(output) == output.outcome \notin Failures

Places == {"store", "stored", "plan", "call", "tool", "statement", "rewrite",
           "correct", "replan", "reflect", "synthesize", "done"}

ASSUME StepsAssumption == MaxSteps \in 3..5
ASSUME RewritesAssumption == MaxRewrites \in Nat
ASSUME EntitiesAssumption == MaxEntities \in Nat \ {0, 1}
ASSUME NoneAssumption == None \notin Requests

-----------------------------------------------------------------------------
(* Plans *)

Single(tools) == {<<t>> : t \in tools}

\* A decomposed comparison: a query for each of its objects.
Comparisons == {[i \in 1..n |-> "query_metric"] : n \in 2..MaxEntities}

\* The calls of the keyword rules.  An export queries first.
KeywordPlans == Single(Queriers) \cup {<<"query_metric", "export_report">>}

\* The first batch of DeterministicPlanner.plan, which has no call when a
\* clarification turns out to ask nothing, or of LLMPlanner.plan, which has
\* none when the LLM says it is done.
FirstPlans ==
    {<<>>} \cup IF llm THEN Single(Tools)
                ELSE KeywordPlans \cup Comparisons \cup Single({"explain_glossary"})

-----------------------------------------------------------------------------
(* Local state of a run *)

Init ==
    /\ llm \in BOOLEAN
    /\ reflecting \in BOOLEAN
    /\ history = None
    /\ lastDsl = None
    /\ frame \in [Requests ->
           {[at |-> "store", inherited |-> i, calls |-> <<>>, tool |-> "query_metric",
             as |-> "planned", rewrites |-> 0, attempts |-> 0,
             plannedOn |-> <<>>] : i \in BOOLEAN}]
    /\ outputs = [r \in Requests |-> <<>>]
    /\ result = [r \in Requests |->
           [answer |-> "none", error |-> FALSE, replans |-> 0, reflection |-> "none"]]

Steps(r) == Len(outputs[r])
LastSucceeded(r) == outputs[r] # <<>> /\ Succeeded(outputs[r][Steps(r)])

Go(r, place) == frame' = [frame EXCEPT ![r].at = place]

\* A tool call begins: as planned, as the correction of a failed one, or as the
\* reflector's follow-up.
Start(r, tool, as, calls) ==
    frame' = [frame EXCEPT ![r].at = "tool", ![r].tool = tool, ![r].as = as,
                           ![r].calls = calls, ![r].rewrites = 0]

\* The reflection comes once the schedule has ended, if there is a step to
\* reflect on and budget for another.
AfterSchedule(r, steps) ==
    IF reflecting /\ ~frame[r].inherited /\ steps \in 1..(MaxSteps - 1)
    THEN "reflect" ELSE "synthesize"

\* The head of the replanning loop.
AfterBatch(r) ==
    IF llm /\ ~frame[r].inherited /\ Steps(r) < MaxSteps
    THEN "replan" ELSE AfterSchedule(r, Steps(r))

\* Mutant: a follow-up is handled like a call of the plan.
AfterCallAlike(r, outcome) ==
    CASE outcome \notin Failures -> "call"
      [] outcome = "failed" /\ Steps(r) + 1 < MaxSteps -> "correct"
      [] OTHER -> AfterSchedule(r, Steps(r) + 1)

\* Where a run goes after a call with this outcome: the only failure that is
\* repaired is one of a planned call, which is not permanent and leaves budget.
AfterCall(r, outcome) ==
    CASE frame[r].as = "followup" -> "synthesize"
      [] frame[r].as # "followup" /\ outcome \notin Failures -> "call"
      [] frame[r].as = "planned" /\ outcome = "failed" /\ Steps(r) + 1 < MaxSteps -> "correct"
      [] OTHER -> AfterSchedule(r, Steps(r) + 1)

-----------------------------------------------------------------------------
(* Planning *)

StoreHistory(r) ==
    /\ frame[r].at = "store"
    /\ history' = r
    /\ Go(r, "stored")
    /\ UNCHANGED <<llm, reflecting, lastDsl, outputs, result>>

StoreLastDsl(r) ==
    /\ frame[r].at = "stored"
    /\ lastDsl' = r
    /\ Go(r, "plan")
    /\ UNCHANGED <<llm, reflecting, history, outputs, result>>

\* A turn that inherits its DSL is planned by keywords.
PlanInherited(r) ==
    /\ frame[r].at = "plan"
    /\ frame[r].inherited
    /\ \E calls \in KeywordPlans :
           frame' = [frame EXCEPT ![r].at = "call", ![r].calls = calls]
    /\ UNCHANGED <<llm, reflecting, shared, outputs, result>>

\* The planner is given what the agent object holds now: it answers or asks, or
\* gives the first batch of calls.  Its retries may be spent on invalid output,
\* which is the answer of the run.
Plan(r) ==
    /\ frame[r].at = "plan"
    /\ ~frame[r].inherited
    /\ \/ \E calls \in FirstPlans :
              /\ frame' = [frame EXCEPT ![r].at = "call", ![r].calls = calls,
                                        ![r].plannedOn = shared]
              /\ UNCHANGED result
       \/ \E a \in {"direct", "question"} \cup (IF llm THEN {"error"} ELSE {}) :
              /\ frame' = [frame EXCEPT ![r].at = "done", ![r].plannedOn = shared]
              /\ result' = [result EXCEPT ![r].answer = a, ![r].error = (a = "error")]
    /\ UNCHANGED <<llm, reflecting, shared, outputs>>

-----------------------------------------------------------------------------
(* One batch of calls *)

\* Mutant: the budget is tested after the call.
CallUnbudgeted(r) ==
    /\ frame[r].at = "call"
    /\ IF frame[r].calls = <<>> \/ Steps(r) > MaxSteps
       THEN Go(r, AfterBatch(r))
       ELSE Start(r, Head(frame[r].calls), "planned", Tail(frame[r].calls))
    /\ UNCHANGED <<llm, reflecting, shared, outputs, result>>

Call(r) ==
    /\ frame[r].at = "call"
    /\ IF frame[r].calls = <<>> \/ Steps(r) >= MaxSteps
       THEN Go(r, AfterBatch(r))
       ELSE Start(r, Head(frame[r].calls), "planned", Tail(frame[r].calls))
    /\ UNCHANGED <<llm, reflecting, shared, outputs, result>>

\* The call ends with this outcome, which is recorded, after so many more
\* statements.
Finish(r, outcome, statements) ==
    /\ outputs' = [outputs EXCEPT
           ![r] = Append(@, [tool |-> frame[r].tool, outcome |-> outcome])]
    /\ frame' = [frame EXCEPT ![r].at = AfterCall(r, outcome),
                              ![r].attempts = @ + statements]

\* What an export makes of the output before it, which it prefers to its own
\* question whatever tool that is of.
FromPrior(r) == IF outputs[r][Steps(r)].outcome = "rows" THEN "file" ELSE "hollow"

\* A query has its DSL: it is inherited, or parsed from the question, which may
\* fail, and either may be refused by the policy.  A tool that needs no query
\* ends here, an export with its file written or not.
RunTool(r) ==
    /\ frame[r].at = "tool"
    /\ LET tool == frame[r].tool
           exporting == tool \in {"export_report", "export_prior"}
           parsing == tool \in Queriers \/ tool = "export_report"
           inheriting == tool \in Queriers /\ frame[r].inherited
       IN IF exporting /\ LastSucceeded(r)
          THEN \E o \in {FromPrior(r), "failed"} : Finish(r, o, 0)
          ELSE \/ parsing /\ Go(r, "statement") /\ UNCHANGED outputs
               \/ parsing /\ Finish(r, "denied", 0)
               \/ ~inheriting /\ Finish(r, "failed", 0)
               \/ tool = "explain_glossary" /\ Finish(r, "documents", 0)
    /\ UNCHANGED <<llm, reflecting, shared, result>>

\* The LLM rewrites the DSL and the policy accepts it; otherwise the query fails
\* with its first error.  Without an LLM nothing is rewritten.
Rewrite(r) ==
    /\ frame[r].at = "rewrite"
    /\ \/ /\ llm
          /\ frame' = [frame EXCEPT ![r].at = "statement", ![r].rewrites = @ + 1]
          /\ UNCHANGED outputs
       \/ Finish(r, "failed", 0)
    /\ UNCHANGED <<llm, reflecting, shared, result>>

CanRewrite(r) == frame[r].rewrites < MaxRewrites

\* The DSL is compiled and executed, or its result taken from the cache.  An
\* error of the compiler or the execution is given to the rewriter as long as
\* the budget allows; any other ends the query.
RunStatement(r) ==
    /\ frame[r].at = "statement"
    /\ \/ \E o \in {IF frame[r].tool \in Queriers THEN "rows" ELSE "file", "failed"} :
              Finish(r, o, 1)
       \/ /\ CanRewrite(r)
          /\ frame' = [frame EXCEPT ![r].at = "rewrite", ![r].attempts = @ + 1]
          /\ UNCHANGED outputs
    /\ UNCHANGED <<llm, reflecting, shared, result>>

\* Mutant: a failed call that is not corrected is skipped.
CorrectOrSkip(r) ==
    /\ frame[r].at = "correct"
    /\ \/ llm /\ \E t \in Tools : Start(r, t, "corrected", frame[r].calls)
       \/ Go(r, "call")
    /\ UNCHANGED <<llm, reflecting, shared, outputs, result>>

\* Mutant: a planner that has no correction is not provided for.
CorrectOnly(r) ==
    /\ frame[r].at = "correct"
    /\ llm /\ \E t \in Tools : Start(r, t, "corrected", frame[r].calls)
    /\ UNCHANGED <<llm, reflecting, shared, outputs, result>>

\* The planner repairs a failed call once; only an LLM can.
Correct(r) ==
    /\ frame[r].at = "correct"
    /\ \/ llm /\ \E t \in Tools : Start(r, t, "corrected", frame[r].calls)
       \/ Go(r, AfterSchedule(r, Steps(r)))
    /\ UNCHANGED <<llm, reflecting, shared, outputs, result>>

-----------------------------------------------------------------------------
(* Replanning, reflection and the answer *)

\* The LLM has seen the trajectory: it answers or asks, is done or fails, or
\* calls another tool.
Replan(r) ==
    /\ frame[r].at = "replan"
    /\ \/ \E a \in {"replan", "question"} :
              /\ Go(r, "synthesize")
              /\ result' = [result EXCEPT ![r].answer = a]
       \/ Go(r, AfterSchedule(r, Steps(r))) /\ UNCHANGED result
       \/ \E t \in Tools :
              /\ frame' = [frame EXCEPT ![r].at = "call", ![r].calls = <<t>>]
              /\ result' = [result EXCEPT ![r].replans = @ + 1]
    /\ UNCHANGED <<llm, reflecting, shared, outputs>>

\* The reflector finds the trajectory sufficient or not, and the LLM's may call
\* one more tool, or fail and leave no record.
Reflect(r) ==
    /\ frame[r].at = "reflect"
    /\ \/ \E verdict \in {"insufficient"}
              \cup (IF llm \/ \A i \in 1..Steps(r) : Succeeded(outputs[r][i])
                    THEN {"sufficient"} ELSE {})
              \cup (IF llm THEN {"none"} ELSE {}) :
              /\ Go(r, "synthesize")
              /\ result' = [result EXCEPT ![r].reflection = verdict]
       \/ \E t \in Tools :
              /\ llm
              /\ Start(r, t, "followup", <<>>)
              /\ result' = [result EXCEPT ![r].reflection = "followed"]
    /\ UNCHANGED <<llm, reflecting, shared, outputs>>

\* Mutant: a failed call of the trajectory is the error of the run.
ErrsAtAll(r) == \E i \in 1..Steps(r) : ~Succeeded(outputs[r][i])

\* The error of the last call is that of the run, unless the run ends with a
\* question.
Errs(r) == outputs[r] # <<>> /\ ~LastSucceeded(r) /\ result[r].answer # "question"

\* The answer the synthesizer gives: the planner's stands, otherwise the last
\* output is the answer.
Concluded(r) ==
    CASE result[r].answer # "none" -> result[r].answer
      [] result[r].answer = "none" /\ outputs[r] = <<>> -> "chitchat"
      [] result[r].answer = "none" /\ outputs[r] # <<>> /\ Errs(r) -> "error"
      [] OTHER -> "data"

\* The synthesizer may raise over an output that succeeded, the only one whose
\* data it reads (and reads for a question, too, if its text is empty).  That is
\* an error beside the planner's answer, beside none, or beside the answer that
\* was to be polished by the LLM.
Synthesize(r) ==
    /\ frame[r].at = "synthesize"
    /\ \/ result' = [result EXCEPT ![r].error = Errs(r), ![r].answer = Concluded(r)]
       \/ /\ LastSucceeded(r)
          /\ \E a \in {result[r].answer} \cup (IF llm THEN {Concluded(r)} ELSE {}) :
                 result' = [result EXCEPT ![r].error = TRUE, ![r].answer = a]
    /\ Go(r, "done")
    /\ UNCHANGED <<llm, reflecting, shared, outputs>>

-----------------------------------------------------------------------------

Step(r) ==
    \/ StoreHistory(r) \/ StoreLastDsl(r) \/ PlanInherited(r) \/ Plan(r)
    \/ Call(r) \/ RunTool(r) \/ RunStatement(r) \/ Rewrite(r) \/ Correct(r)
    \/ Replan(r) \/ Reflect(r) \/ Synthesize(r)

Next == \E r \in Requests : Step(r)

\* A run is a thread whose calls of the LLM and the warehouse have timeouts.
Spec == Init /\ [][Next]_vars /\ \A r \in Requests : WF_vars(Step(r))

-----------------------------------------------------------------------------
(* Properties *)

Frames ==
    [at : Places, inherited : BOOLEAN, calls : Seq(Tools), tool : Tools,
     as : {"planned", "corrected", "followup"}, rewrites : 0..MaxRewrites,
     attempts : Nat,
     plannedOn : {<<>>} \cup ((Requests \cup {None}) \X (Requests \cup {None}))]

Results ==
    [answer : {"none", "direct", "question", "replan", "chitchat", "data", "error"},
     error : BOOLEAN, replans : Nat,
     reflection : {"none", "sufficient", "insufficient", "followed"}]

\* The types of the variables.
TypeOK ==
    /\ llm \in BOOLEAN
    /\ reflecting \in BOOLEAN
    /\ history \in Requests \cup {None}
    /\ lastDsl \in Requests \cup {None}
    /\ frame \in [Requests -> Frames]
    /\ outputs \in [Requests -> Seq(Outputs)]
    /\ result \in [Requests -> Results]

\* The budgets of planning, repair, reflection and self-heal nest: a run never
\* executes more than MaxSteps calls, however they came about, asks for more
\* calls at most that often, and never compiles more than MaxRewrites + 1
\* statements for each of them.
WorkBounded ==
    \A r \in Requests :
        /\ Steps(r) <= MaxSteps
        /\ result[r].replans <= MaxSteps
        /\ frame[r].attempts <= MaxSteps * (MaxRewrites + 1)

\* A failure stops a run: after a permanent one, or after two in a row, which
\* are a call and its correction, at most the reflection's follow-up is
\* executed, and without an LLM nothing is.
FailureStops ==
    \A r \in Requests : \A i \in 1..Steps(r) :
        ~Succeeded(outputs[r][i]) =>
            /\ ~llm => i = Steps(r)
            /\ outputs[r][i].outcome = "denied" => Steps(r) <= i + 1
            /\ i < Steps(r) /\ ~Succeeded(outputs[r][i + 1]) => Steps(r) <= i + 2

\* The last call decides.  A run whose last call failed has that failure for its
\* answer, and one whose last call succeeded has not, whatever failed before it
\* and was repaired: what the planner concludes or asks never covers a failure.
\* An error beside another answer, or beside none, is one of a synthesizer that
\* raised over a successful output, and only such a run is without an answer.
LastCallDecides ==
    \A r \in Requests : frame[r].at = "done" =>
        /\ outputs[r] # <<>> => (result[r].answer = "error" <=> ~LastSucceeded(r))
        /\ result[r].answer \in {"none", "error"} => result[r].error
        /\ result[r].error => result[r].answer = "error" \/ LastSucceeded(r)

\* As long as no LLM chooses the calls, an export is made of the query just
\* before it, and its file is the rows of that query.
ExportFollowsQuery ==
    \A r \in Requests : \A i \in 1..Steps(r) :
        ~llm /\ outputs[r][i].tool = "export_report" /\ Succeeded(outputs[r][i]) =>
            /\ outputs[r][i].outcome = "file"
            /\ i > 1 /\ outputs[r][i - 1].outcome = "rows"

\* Every run ends with an answer, an error or a question.
RunsEnd == \A r \in Requests : <>(frame[r].at = "done")

\* The planner of a run is given that run's own conversation, as the docstring
\* of run() says of history and last_dsl.
PlansOnOwnContext ==
    \A r \in Requests : frame[r].plannedOn \in {<<>>, <<r, r>>}
=============================================================================
