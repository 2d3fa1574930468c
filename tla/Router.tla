------------------------------- MODULE Router -------------------------------
(***************************************************************************)
(* What is done with a question before any query is made of it: the answer *)
(* to an open clarification is put together with the question it belongs   *)
(* to (src/agent/slotfill.py), the intent is decided                       *)
(* (src/agent/router/intent_router.py), and a data question that does not  *)
(* say its time, or names a metric nobody defined, is asked back           *)
(* (src/agent/clarify.py).                                                 *)
(*                                                                         *)
(* The patterns each step looks for are the marks of a question (says).    *)
(***************************************************************************)
EXTENDS Heuristic

Intents == {"chitchat", "data_query", "glossary_explain", "system_action",
            "clarify", "unsafe_action"}

\* What a clarification asks for; an answer can only fill the first two.
Fillable == {"missing_time_window", "undefined_metric"}
Kinds == Fillable \union {"insufficient_info"}

Decision(intent, kinds) == [intent |-> intent, kinds |-> kinds]

(***************************************************************************)
(* detect_clarifications: an undefined metric comes first.  The time is    *)
(* missing where a metric is named, in whatever spelling, and the question *)
(* has no time expression, is not about all of it and does not group.      *)
(***************************************************************************)
Clarifications(q) ==
    IF q.undefined THEN {"undefined_metric"}
    ELSE IF q.words # {} /\ q.says \intersect {"time", "all", "group"} = {}
    THEN {"missing_time_window"} ELSE {}

\* _fast_path: commands, then what is refused, then a greeting and no more.
FastPath(q) ==
    IF "system" \in q.says THEN "system_action"
    ELSE IF "unsafe" \in q.says THEN "unsafe_action"
    ELSE IF "greeting" \in q.says THEN "chitchat"
    ELSE "none"

\* Mutant of LooksData: a time is no signal of a data question.
LooksDataUntimed(q) == q.says \intersect {"term", "all", "analysis"} # {}
\* The signals of a data question: a metric (in lower case only), a time, an
\* analysis.
LooksData(q) == q.says \intersect {"term", "time", "all", "analysis"} # {}

\* _rule_decision; inherits tells whether the session has a last DSL.
RuleDecision(q, inherits) ==
    IF "glossary" \in q.says THEN Decision("glossary_explain", {})
    ELSE IF "chat" \in q.says THEN Decision("chitchat", {})
    ELSE IF LooksData(q)
    THEN IF Clarifications(q) # {} THEN Decision("clarify", Clarifications(q))
         ELSE Decision("data_query", {})
    ELSE IF inherits THEN Decision("data_query", {})
    ELSE Decision("clarify", {"insufficient_info"})

(***************************************************************************)
(* IntentRouter.route: the fast path, then any intent if an LLM answers    *)
(* and is sure enough, or else the rules.  An LLM that wants to ask back   *)
(* leaves it to detect_clarifications what to ask.                         *)
(***************************************************************************)
Route(q, inherits, llm) ==
    IF FastPath(q) # "none" THEN {Decision(FastPath(q), {})}
    ELSE {RuleDecision(q, inherits)} \union
         (IF llm THEN {Decision(i, IF i = "clarify" THEN Clarifications(q) ELSE {}) :
                         i \in Intents}
          ELSE {})

-----------------------------------------------------------------------------
\* An open clarification: the question, what it lacks, and how many answers
\* it was put together from already.
NoPending == [asked |-> {}, kinds |-> {}, fills |-> 0]
Asking(q, kinds, fills) ==
    IF kinds \intersect Fillable = {} THEN NoPending
    ELSE [asked |-> {q}, kinds |-> kinds, fills |-> fills]

\* attempt_fill: a time fills a missing time, a defined metric stands for
\* the definition of an undefined one.
Fills(pending, answer) ==
    \/ /\ "missing_time_window" \in pending.kinds
       /\ answer.says \intersect {"time", "all"} # {}
    \/ "undefined_metric" \in pending.kinds /\ answer.words # {}

\* Which of two words that exclude each other the rules find first is open.
Either(x, y) == IF x = "none" THEN {y} ELSE IF y = "none" THEN {x} ELSE {x, y}

\* Question and answer in one text: it has the marks of both, but is no
\* longer the bare word of a greeting.
Joined(q, a) ==
    [words: {q.words \union a.words}, groups: {q.groups \union a.groups},
     about: {q.about \union a.about}, says: {(q.says \union a.says) \ {"greeting"}},
     win: Either(q.win, a.win), by: Either(q.by, a.by), fill: Either(q.fill, a.fill),
     cmp: Either(q.cmp, a.cmp), time: Either(q.time, a.time), top: Either(q.top, a.top),
     count: Either(q.count, a.count), place: Either(q.place, a.place),
     paid: Either(q.paid, a.paid), expand: Either(q.expand, a.expand),
     cat: {q.cat \/ a.cat}, list: {q.list \/ a.list}, amount: {q.amount \/ a.amount},
     enum: {q.enum \/ a.enum}, extreme: {q.extreme \/ a.extreme},
     spread: {q.spread \/ a.spread}, only: {q.only \/ a.only},
     undefined: {q.undefined \/ a.undefined}]
=============================================================================
