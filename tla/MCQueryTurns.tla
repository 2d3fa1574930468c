---------------------------- MODULE MCQueryTurns ----------------------------
(***************************************************************************)
(* Questions with a few features each, in every combination of those, with *)
(* the marks that the words for these features leave.                      *)
(***************************************************************************)
EXTENDS QueryTurns

\* A metric in lower case; a time the clarification counts (a quarter is
\* not among them); "cumulated"; an analysis; a grouping.
Mark(m, said) == IF said THEN {m} ELSE {}
Said(q) ==
    [q EXCEPT !.says =
        Mark("term", q.words # {})
        \union Mark("time", q.time \notin {"none", "quarter"})
        \union Mark("all", q.win = "cum")
        \union Mark("analysis", Trend(q) \/ q.count # "none" \/ q.list \/ q.enum)
        \union Mark("group", q.groups # {} \/ q.top # "none" \/ q.extreme
                             \/ "province" \in q.about \/ q.expand = "category")]

\* Questions of their own: a metric, an axis, a comparison, filling, a time.
Series0 ==
    {[Silent EXCEPT !.words = {"gmv"}],
     [Silent EXCEPT !.words = {"gmv"}, !.fill = "whole", !.time = "dated"],
     [Silent EXCEPT !.words = {"refund_amount"}, !.by = "trend", !.time = "month"],
     [Silent EXCEPT !.words = {"refund_amount"}, !.fill = "zero", !.time = "recent"],
     [Silent EXCEPT !.words = {"refund_rate"}, !.time = "quarter"]}
\* Windows, rankings, enumerations, counts and refusals.
Others ==
    {[Silent EXCEPT !.words = {"refund_amount"}, !.win = "cum", !.cmp = "yoy"],
     [Silent EXCEPT !.words = {"gmv"}, !.groups = {"brand"}, !.top = "province",
                    !.place = "region", !.paid = "success", !.amount = TRUE],
     [Silent EXCEPT !.about = {"province"}, !.count = "order", !.enum = TRUE],
     [Silent EXCEPT !.list = TRUE, !.time = "month", !.extreme = TRUE],
     [Silent EXCEPT !.words = {"active_users"}, !.by = "trend", !.undefined = TRUE]}
\* Follow-ups.
Elliptic ==
    {[Silent EXCEPT !.place = "two", !.expand = "register_time"],
     [Silent EXCEPT !.by = "week", !.fill = "zero"],
     [Silent EXCEPT !.cmp = "yoy"],
     [Silent EXCEPT !.only = TRUE, !.place = "one"]}

\* A metric in capitals, which the rules take for no signal; a time alone,
\* and one the rules cannot read; a definition, small talk, a greeting, the
\* commands and what is refused.
Routed ==
    {[Silent EXCEPT !.words = {"gmv"}],
     [Silent EXCEPT !.time = "month", !.says = {"time"}],
     [Silent EXCEPT !.words = {"order_count"}, !.says = {"term", "time"}],
     [Silent EXCEPT !.words = {"gmv"}, !.says = {"term", "glossary"}],
     [Silent EXCEPT !.words = {"gmv"}, !.says = {"term", "chat"}]}
    \union {[Silent EXCEPT !.says = s] :
              s \in {{"chat"}, {"greeting"}, {"system"}, {"system", "reset"}, {"unsafe"}}}

MCQuestions == {Said(q) : q \in Series0 \union Others \union Elliptic} \union Routed
MCArgs ==
    {[gran |-> "unset", cmp |-> "unset", fill |-> FALSE],
     [gran |-> "day", cmp |-> "none", fill |-> TRUE]}

\* What an LLM may write: an aliased axis no table is joined for, a copy of
\* the row filter among its own filters, an order on a comparison's column.
MCLlm ==
    {[NoDsl EXCEPT !.metrics = {MetricOf["gmv"]}, !.dims = {"brand"},
                   !.time = TimeOf("day", "none", "refund_time")],
     [NoDsl EXCEPT !.metrics = {MetricOf["gmv"]}, !.dims = {"category"},
                   !.filters = {RowFilter["restricted"]},
                   !.time = TimeOf("month", "mom", "order_time"),
                   !.order = {[of |-> "gmv", add |-> "mom"]}]}
=============================================================================
