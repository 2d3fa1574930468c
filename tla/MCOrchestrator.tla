--------------------------- MODULE MCOrchestrator ---------------------------
(* TLC instance of Orchestrator: the plans an LLM may return.  *)
EXTENDS OrchestratorRefinement

LlmStep(id, kind, deps, dsl) ==
    [id |-> id, kind |-> kind, deps |-> deps, dsl |-> dsl, code |-> FALSE]

\* A query with its own DSL and an analysis of what it fetched.
QueryAndAnalyze == <<LlmStep("s1", "query", {}, TRUE), LlmStep("s2", "analyze", {"s1"}, FALSE)>>

\* Two queries, and an analysis that declares no dependency.
TwoQueries == <<LlmStep("s1", "query", {}, TRUE), LlmStep("s2", "query", {}, TRUE),
                LlmStep("s3", "analyze", {}, FALSE)>>

\* An analysis of the data at hand.
AnalyzeOnly == <<LlmStep("s1", "analyze", {}, FALSE)>>

\* Nothing to fetch and nothing to compute.
SynthesizeOnly == <<LlmStep("s1", "synthesize", {}, FALSE)>>

MCLlmPlans == {QueryAndAnalyze, TwoQueries, AnalyzeOnly, SynthesizeOnly}
=============================================================================
