----------------------------- MODULE QueryTurns -----------------------------
(***************************************************************************)
(* The turns of one session, from the question to the SQL: fill an open    *)
(* clarification, route, ask back or plan, parse or merge, normalise,      *)
(* guard, compile, execute, and heal by rewriting (src/web/service.py,     *)
(* src/agent/tool_agent.py, src/agent/pipeline.py and the query tools).    *)
(* The requests of a session come one after another here; ChatSession has  *)
(* those that overlap.  In each turn an LLM is there or is not.            *)
(***************************************************************************)
EXTENDS FollowUps, SqlCompiler, Router

CONSTANTS
    Questions,      \* the questions asked, a set of Question
    PlannerArgs,    \* the explicit arguments of the trend tool
    LlmDsls,        \* the DSLs an LLM may answer with
    MaxRewrites,    \* SQL_SELF_HEAL_MAX_RETRIES
    MaxFills        \* bound: answers put together with one question

ASSUME QuestionsAssumption == Questions \subseteq Question
ASSUME ArgsAssumption ==
    PlannerArgs \subseteq [gran: Granularity \union {"unset"},
                           cmp: Comparison \union {"unset"}, fill: BOOLEAN]
ASSUME LlmAssumption ==
    \A d \in LlmDsls : d \in Dsl /\ d.rls = 0 /\ d # NoDsl /\ Accepted(d)
ASSUME BoundsAssumption == MaxRewrites \in Nat /\ MaxFills \in Nat

VARIABLES
    principal,  \* whose session it is
    pending,    \* the open clarification of the session, or NoPending
    last,       \* the DSL of the last turn that succeeded, or NoDsl
    dsl,        \* the guarded DSL of the turn that runs
    asked,      \* the question it is for, if it was made without an LLM
    made,       \* how it was made
    byLlm,      \* did an LLM write it, or the DSL it goes back to?
    lastByLlm,  \* the same of last
    rewrites,   \* rewrites of this turn
    stage       \* "idle" between two turns, "run" within one

turnVars == <<dsl, asked, made, byLlm, rewrites, stage>>
sessionVars == <<last, lastByLlm>>
vars == <<principal, pending, sessionVars, turnVars>>

Init ==
    /\ principal \in Principals
    /\ pending = NoPending
    /\ last = NoDsl /\ dsl = NoDsl /\ asked = {}
    /\ made = "none" /\ stage = "idle" /\ rewrites = 0
    /\ byLlm = FALSE /\ lastByLlm = FALSE

-----------------------------------------------------------------------------
(* A turn without a query.                                                 *)

\* The text that is routed: an answer goes with the question it fills.
Effective(q) ==
    IF Fills(pending, q) THEN UNION {Joined(p, q) : p \in pending.asked} ELSE {q}
Kept(q) == IF Fills(pending, q) THEN NoPending ELSE pending

\* The decision d is on the text e, which is q or q with the question it
\* answers.
Chat(d) ==
    /\ d.intent = "chitchat"
    /\ pending' = NoPending
    /\ UNCHANGED <<sessionVars, turnVars>>

\* A clarification that asks nothing in particular leaves the open one.  The
\* text is kept up to the bound, past which no answer is taken.
Clarify(q, e, d) ==
    LET fills == IF Fills(pending, q) THEN pending.fills + 1 ELSE 0
    IN
    /\ d.intent = "clarify"
    /\ pending' = IF d.kinds = {} THEN Kept(q)
                  ELSE IF fills < MaxFills THEN Asking(e, d.kinds, fills)
                  ELSE [Asking(e, d.kinds, fills) EXCEPT !.asked = {}]
    /\ UNCHANGED <<sessionVars, turnVars>>

\* A definition is looked up, which gives up the last DSL.
Explain(d) ==
    /\ d.intent = "glossary_explain"
    /\ pending' = NoPending
    /\ last' = NoDsl /\ lastByLlm' = FALSE
    /\ UNCHANGED turnVars

\* A refusal changes nothing, nor does a command that is not a reset, not
\* even the open clarification.  An LLM may take any text for either.
Refuse(q, d) ==
    /\ d.intent = "unsafe_action"
    /\ pending' = Kept(q)
    /\ UNCHANGED <<sessionVars, turnVars>>
SystemAction(q, e, d) ==
    /\ d.intent = "system_action"
    /\ "system" \in e.says => "reset" \notin e.says
    /\ pending' = Kept(q)
    /\ UNCHANGED <<sessionVars, turnVars>>
Reset(e, d) ==
    /\ d.intent = "system_action"
    /\ "system" \in e.says => "reset" \in e.says
    /\ pending' = NoPending
    /\ last' = NoDsl /\ lastByLlm' = FALSE
    /\ UNCHANGED turnVars

\* Clarifications and sessions are forgotten after their time.
Forget ==
    /\ stage = "idle"
    /\ \/ pending' = NoPending /\ UNCHANGED sessionVars
       \/ last' = NoDsl /\ lastByLlm' = FALSE /\ UNCHANGED pending
    /\ UNCHANGED <<principal, turnVars>>

-----------------------------------------------------------------------------
(* A turn with a query.                                                    *)

\* d goes through the guard as often as the path applies it; a principal who
\* may not read what it refers to gets no answer.
Submit(d, by, how, llm) ==
    /\ dsl' = d /\ made' = how /\ byLlm' = llm /\ asked' = by
    /\ stage' = "run" /\ rewrites' = 0
Unanswered ==
    /\ stage' = "idle" /\ dsl' = NoDsl /\ made' = "none" /\ asked' = {}
    /\ byLlm' = FALSE /\ rewrites' = 0
Guarded(d, by, how, llm) ==
    IF d # NoDsl /\ MayRead(d, principal)
    THEN Submit(Guard(d, principal), by, how, llm) ELSE Unanswered

\* A new question resets the session's DSL before it is planned.
Begun(e) == IF Resets(e, last) THEN NoDsl ELSE last
Begin(e) ==
    /\ last' = Begun(e)
    /\ lastByLlm' = (lastByLlm /\ ~Resets(e, last))

\* A data question, which closes what was asked back before.
Data(e, d) ==
    /\ d.intent = "data_query"
    /\ pending' = NoPending
    /\ Begin(e)

\* Mutant of Plans: the planner goes by the decision of the service.
PlansAll(e, llm) == TRUE
\* Without an LLM the planner routes again, with what Begin left.
Plans(e, llm) == llm \/ RuleDecision(e, Begun(e) # NoDsl).intent = "data_query"

\* The planner asks back what the service took for a data question.  An LLM
\* that plans may ask or answer by itself, and no answer fills what it asks.
AskBack(e, d, llm) ==
    /\ d.intent = "data_query" /\ ~Follows(e, last)
    /\ llm \/ ~Plans(e, llm)
    /\ pending' = IF llm THEN NoPending
                  ELSE Asking(e, RuleDecision(e, Begun(e) # NoDsl).kinds, 0)
    /\ Begin(e)
    /\ UNCHANGED turnVars

\* The DSL of a question by itself: of the rules, or of an LLM.
Fresh(e, llm) == [d: {Parse(e)}, llm: {FALSE}] \union
                 (IF llm THEN [d: LlmDsls, llm: {TRUE}] ELSE {})
Alone(e, llm) == IF llm THEN {} ELSE {e}

\* query_metric on a question of its own.
AskMetric(e, d, llm) ==
    /\ Data(e, d)
    /\ ~Follows(e, last) /\ Plans(e, llm)
    /\ \E f \in Fresh(e, llm) : Guarded(f.d, Alone(e, llm), "fresh", f.llm)

\* trend_analysis on a question of its own: the pipeline guards what it
\* parsed, the tool normalises it, and the query core guards it again.
AskTrend(e, d, llm) ==
    /\ Data(e, d)
    /\ ~Follows(e, last) /\ Plans(e, llm)
    /\ \E f \in Fresh(e, llm), args \in PlannerArgs :
          IF f.d = NoDsl
          THEN IF Fallback(e) = NoDsl THEN Unanswered
               ELSE Guarded(NormalizeTrend(Fallback(e), e, args),
                            Alone(e, llm), "fresh", FALSE)
          ELSE IF ~MayRead(f.d, principal) THEN Unanswered
          ELSE Guarded(NormalizeTrend(Guard(f.d, principal), e, args),
                       Alone(e, llm), "fresh", f.llm)

\* A follow-up is not planned again: the merged DSL goes to either tool,
\* which guards it once.
FollowUp(e, d) ==
    /\ Data(e, d)
    /\ Follows(e, last)
    /\ LET base == Merge(e, last, principal)
       IN  \/ Guarded(base, {}, "merged", lastByLlm)
           \/ \E args \in PlannerArgs :
                 Guarded(NormalizeTrend(base, e, args), {}, "merged", lastByLlm)

\* The query compiles and the engine answers: the session keeps its DSL.
Succeed ==
    /\ stage = "run"
    /\ Compile(dsl).ok /\ Resolves(Compile(dsl))
    /\ last' = dsl /\ lastByLlm' = byLlm
    /\ Unanswered
    /\ UNCHANGED <<principal, pending>>

\* It does not compile, or the engine fails: an LLM rewrites it, and what it
\* writes is guarded again.  The row filter may be among what it copies.
Rewrite ==
    /\ stage = "run" /\ rewrites < MaxRewrites
    /\ \E d \in LlmDsls, copied \in 0 .. dsl.rls :
          /\ MayRead(d, principal)
          /\ dsl' = Guard([d EXCEPT !.rls = copied], principal)
    /\ made' = "rewritten" /\ byLlm' = TRUE /\ rewrites' = rewrites + 1
    /\ asked' = {}
    /\ UNCHANGED <<principal, pending, sessionVars, stage>>

\* No LLM, no rewrites left, or the rewrite is refused: the turn fails, and
\* the session keeps the DSL it had.
Fail ==
    /\ stage = "run"
    /\ Unanswered
    /\ UNCHANGED <<principal, pending, sessionVars>>

\* A turn on q, with or without an LLM: q is put together with the question
\* it answers, and the whole is routed.
Turn(q, llm) ==
    /\ stage = "idle"
    /\ Fills(pending, q) => pending.fills < MaxFills
    /\ \E e \in Effective(q) : \E d \in Route(e, last # NoDsl, llm) :
          \/ Chat(d) \/ Clarify(q, e, d) \/ Explain(d) \/ Refuse(q, d)
          \/ SystemAction(q, e, d) \/ Reset(e, d) \/ AskBack(e, d, llm)
          \/ AskMetric(e, d, llm) \/ AskTrend(e, d, llm) \/ FollowUp(e, d)
    /\ UNCHANGED principal
Next ==
    \/ \E q \in Questions, llm \in BOOLEAN : Turn(q, llm)
    \/ Succeed \/ Rewrite \/ Fail \/ Forget

Spec == Init /\ [][Next]_vars
-----------------------------------------------------------------------------
TypeOK ==
    /\ principal \in Principals
    /\ pending.asked \subseteq Question /\ pending.kinds \subseteq Kinds
    /\ pending.fills \in 0 .. MaxFills /\ asked \subseteq Question
    /\ last \in Dsl \union {NoDsl} /\ dsl \in Dsl \union {NoDsl}
    /\ made \in {"none", "fresh", "merged", "rewritten"}
    /\ byLlm \in BOOLEAN /\ lastByLlm \in BOOLEAN
    /\ rewrites \in 0 .. MaxRewrites /\ stage \in {"idle", "run"}

(***************************************************************************)
(* Whatever turns a session takes, the query of a principal with a row     *)
(* filter carries it; and after a merge with an earlier, already guarded   *)
(* DSL it carries it exactly once (memory.py:519-524 promises it).         *)
(***************************************************************************)
RowFilterOnce ==
    stage = "run" /\ Filtered(principal) =>
        /\ dsl.rls >= 1
        /\ made = "merged" => dsl.rls = 1

(***************************************************************************)
(* Long sequence of legal turns: a query that only the rules had a hand in *)
(* and that compiles refers to no alias FROM does not bring in and sorts   *)
(* by no name it does not select, whatever was merged and normalised into  *)
(* it (the FROM clause does not look at the time axis).                    *)
(***************************************************************************)
EngineResolves ==
    stage = "run" /\ ~byLlm /\ Compile(dsl).ok => Resolves(Compile(dsl))

(***************************************************************************)
(* Long sequence of legal turns: without an LLM no query over the whole    *)
(* history is run for a question that names a metric and says nothing of   *)
(* the time, neither as its own nor put together from several: the router, *)
(* whose metrics are in lower case only, and the planner, which routes     *)
(* again after the session was reset, do not miss one between them         *)
(* (clarify.py:3-4, intent_router.py:265).  Time words that the            *)
(* clarification counts and the rules cannot read are excepted.            *)
(***************************************************************************)
HistoryIsAskedFor ==
    stage = "run" /\ made = "fresh" =>
        \A q \in asked : q.words # {} /\ dsl.time = NoTime =>
            q.says \intersect {"time", "all", "group"} # {}

\* An answer that is a time the rules can read and nothing else.
OnlyTime(a) ==
    /\ a.time # "none" /\ a.says = {"time"}
    /\ a = [Silent EXCEPT !.time = a.time, !.says = a.says]

(***************************************************************************)
(* The answer to a clarification of the time leads to the query that was   *)
(* asked for, over that time, whatever turns came between, unless the      *)
(* principal may not read it: no layer takes question and answer for       *)
(* something else or asks again (slotfill.py:150, service.py:318).  A      *)
(* question of a definition or one that the rules take for small talk is   *)
(* excepted: only an LLM asks it back.                                     *)
(***************************************************************************)
AnswerIsUsed ==
    [][\A a \in Questions :
          OnlyTime(a) /\ "missing_time_window" \in pending.kinds /\ Turn(a, FALSE) =>
              \A p \in pending.asked :
                 \/ stage' = "run" /\ dsl'.metrics = Metrics(p) /\ dsl'.time # NoTime
                 \/ stage' = "idle" /\ ~MayRead(Parse(p), principal)
                 \/ RuleDecision(p, FALSE).intent \in {"glossary_explain", "chitchat"}]_vars
=============================================================================
