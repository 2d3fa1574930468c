----------------------- MODULE OrchestratorRefinement -----------------------
(* The agent graph as an implementation of AgentContract. *)
EXTENDS Orchestrator

Status ==
    CASE at = "paused" -> "waiting"
      [] at = "end"    -> "finished"
      [] OTHER         -> "running"

\* The visit being made is still part of the budget.
Fuel == MaxIterations + 1 - iteration

EvidenceOf == IF noData \/ AllEmpty THEN "norows" ELSE IF HasRows THEN "rows" ELSE "none"

Outcome ==
    IF at # "end" THEN "none"
    ELSE IF iteration > MaxIterations THEN "overrun"
    ELSE report.says

Contract == INSTANCE AgentContract WITH
    Budget <- MaxIterations, MaxStrikes <- MaxRetries,
    status <- Status, fuel <- Fuel, strikes <- retries,
    evidence <- EvidenceOf, outcome <- Outcome

\* A conversation keeps the agent's contract: over all of its resumptions the
\* graph spends at most max_iterations visits, and it ends once, with the
\* report that its datasets and its error count call for.
ContractKept == Contract!Spec
=============================================================================
