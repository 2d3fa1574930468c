----------------------------- MODULE Heuristic -----------------------------
(***************************************************************************)
(* The rules that turn a question into a DSL without an LLM                *)
(* (src/agent/heuristic.py).  A question is the set of features the        *)
(* keyword tests of the rules find in it; its text is left out.            *)
(***************************************************************************)
EXTENDS SemanticDsl, FiniteSets

\* The metrics a question can name, in words the rules know.
MetricOf ==
    [gmv |-> Aggregate("order_amount", "gmv"),
     order_count |-> Aggregate("order_id", "order_count"),
     active_users |-> Aggregate("user_id", "active_users"),
     avg_order_amount |-> Aggregate("order_amount", "avg_order_amount"),
     refund_amount |-> Aggregate("refund_amount", "refund_amount"),
     refund_rate |-> Ratio("refund_amount", "order_amount", "refund_rate"),
     arpu |-> Ratio("order_amount", "user_id", "arpu")]
Words == DOMAIN MetricOf

\* Dimensions in the order in which the rules look for one to count.
Probed == <<"province", "brand", "category", "user_id", "gender", "pay_status">>
ProbeAlias ==
    [province |-> "region_count", brand |-> "brand_count",
     category |-> "category_count", user_id |-> "user_count",
     gender |-> "gender_count", pay_status |-> "pay_status_count"]

\* The granularity each kind of time phrase gives: the last days, a named
\* month or year, and whole or running weeks, months and quarters.
PhraseGran ==
    [recent |-> "day", dated |-> "day", week |-> "week", month |-> "month",
     quarter |-> "quarter"]

(***************************************************************************)
(* A question: metric words; a window function; the kind of series asked   *)
(* for ("day" and "trend" are words of heuristic.py, "week" and "month"    *)
(* only of the trend tool and the follow-ups); zero filling ("zero" names  *)
(* two words that make a series, "whole" the one that does not); a         *)
(* comparison; the kind of the time phrase; dimensions to group by;        *)
(* the partition of a top-N; dimensions mentioned only; what is counted;   *)
(* the place and the category filtered by; the payment state; single       *)
(* words; and the marks the router and the clarification look for, which   *)
(* are patterns of their own: a metric in lower case, a time expression, a *)
(* marker of all time, of an analysis or of a grouping; what names a       *)
(* definition, small talk or a greeting; a command, one that resets the    *)
(* session, one that is refused.                                           *)
(***************************************************************************)
Marks == {"term", "time", "all", "analysis", "group", "glossary", "chat",
          "greeting", "system", "reset", "unsafe"}
Question ==
    [words: SUBSET Words, win: {"none", "ma", "cum"},
     by: {"none", "day", "trend", "week", "month"},
     fill: {"none", "zero", "whole"}, cmp: Comparison,
     time: {"none"} \union DOMAIN PhraseGran,
     groups: SUBSET {"category", "brand", "product_name", "shop_name",
                     "province", "pay_status"},
     top: {"none", "province", "brand", "category"},
     about: SUBSET {"province", "user_id", "gender"},
     count: {"none", "order", "user", "product", "bare"},
     place: {"none", "one", "two", "region"}, cat: BOOLEAN,
     paid: {"none", "success", "failed"}, list: BOOLEAN, amount: BOOLEAN,
     enum: BOOLEAN, extreme: BOOLEAN, spread: BOOLEAN,
     expand: Fields \union {"none"}, only: BOOLEAN, undefined: BOOLEAN,
     says: SUBSET Marks]

\* A question without any of these.
Silent ==
    [words |-> {}, win |-> "none", by |-> "none", fill |-> "none",
     cmp |-> "none", time |-> "none", groups |-> {}, top |-> "none",
     about |-> {}, count |-> "none", place |-> "none", cat |-> FALSE,
     paid |-> "none", list |-> FALSE, amount |-> FALSE, enum |-> FALSE,
     extreme |-> FALSE, spread |-> FALSE, expand |-> "none", only |-> FALSE,
     undefined |-> FALSE, says |-> {}]

Series(q) == q.by \in {"day", "trend"} \/ q.win # "none" \/ q.fill = "zero"

\* The time axis: refunds over time are dated by the refund.
TimeDimField(q) ==
    IF "refund_amount" \in q.words /\ Series(q) THEN "refund_time" ELSE "order_time"

\* Cumulated or moving averages of orders or revenue.
WindowMetric(q) ==
    LET base == IF "order_count" \in q.words THEN "order_count" ELSE "gmv"
    IN  Window(MetricOf[base], q.win)

\* "How many orders, users, products": a count of the entity's key.
CountEntity(q) ==
    CASE q.count = "order" -> {MetricOf["order_count"]}
      [] q.count = "user" -> {MetricOf["active_users"]}
      [] q.count = "product" -> {Aggregate("product_id", "product_count")}
      [] OTHER -> {}

\* The dimension a question mentions first, in the order of the rules; the
\* words for active users mention the user.
ProbeField(q) ==
    LET users == "active_users" \in q.words \/ q.count = "user"
        said == q.groups \union q.about \union (IF users THEN {"user_id"} ELSE {})
        hits == {i \in DOMAIN Probed : Probed[i] \in said}
    IN  IF hits = {} THEN "none"
        ELSE Probed[CHOOSE i \in hits : \A j \in hits : i <= j]
ProbeMetric(q) ==
    IF ProbeField(q) = "none" THEN {}
    ELSE {Aggregate(ProbeField(q), ProbeAlias[ProbeField(q)])}

\* The metrics: a window function alone, the refund rate alone, the words, a
\* count of rows for a listing, a count of the entity or of the dimension.
Metrics(q) ==
    IF q.win # "none" THEN {WindowMetric(q)}
    ELSE IF "refund_rate" \in q.words THEN {MetricOf["refund_rate"]}
    ELSE IF q.words # {} THEN {MetricOf[w] : w \in q.words}
    ELSE IF q.list THEN {MetricOf["order_count"]}
    ELSE IF CountEntity(q) # {} THEN CountEntity(q)
    ELSE ProbeMetric(q)

\* The alias a ranking sorts by: that of a single metric, else revenue.
PrimaryAlias(q) ==
    IF Cardinality(Metrics(q)) = 1
    THEN (CHOOSE m \in Metrics(q) : TRUE).alias ELSE "gmv"

Dimensions(q) ==
    q.groups
      \union (IF Series(q) \/ q.list THEN {TimeDimField(q)} ELSE {})
      \union (IF q.list THEN {"order_id"} ELSE {})

\* A top-N partitions by a dimension, and adds it to the dimensions.
Top(q) ==
    IF q.top = "none" THEN NoTop
    ELSE [by |-> {q.top}, order |-> {Name(PrimaryAlias(q))}]

\* Is the one metric a count of the dimension that is asked about?
CountsProbe(q) ==
    \E m \in Metrics(q) :
       /\ Metrics(q) = {m}
       /\ m.fields = {ProbeField(q)}
       /\ m.alias \in {ProbeAlias[f] : f \in DOMAIN ProbeAlias} \union {"active_users"}

\* The dimensions of the DSL: an enumeration lists the dimension it asks
\* about, a count of it does not group by it.
GroupBy(q) ==
    LET dims == Dimensions(q) \union Top(q).by
    IN  IF ProbeField(q) = "none" THEN dims
        ELSE IF q.enum THEN dims \union {ProbeField(q)}
        ELSE IF CountsProbe(q) THEN dims \ {ProbeField(q)} ELSE dims

Place(p) ==
    CASE p = "one" -> {[field |-> "province", op |-> "eq", value |-> {"p1"}]}
      [] p = "two" -> {[field |-> "province", op |-> "in", value |-> {"p1", "p2"}]}
      [] p = "region" -> {[field |-> "province", op |-> "in", value |-> {"p1"}]}
      [] OTHER -> {}
Category(asked) ==
    IF asked THEN {[field |-> "category", op |-> "eq", value |-> {"c1"}]} ELSE {}
Paid(p) ==
    IF p = "none" THEN {}
    ELSE {[field |-> "pay_status", op |-> IF p = "success" THEN "eq" ELSE "ne",
           value |-> {"SUCCESS"}]}
Amount(asked) ==
    IF asked THEN {[field |-> "order_amount", op |-> "between", value |-> {"low", "high"}]}
    ELSE {}
FiltersOf(q) ==
    Paid(q.paid) \union Place(q.place) \union Category(q.cat) \union Amount(q.amount)

\* A series is sorted by its time axis, anything else that has dimensions by
\* the metric, unless the question asks for a distribution.
OrderBy(q) ==
    IF Series(q) THEN {Name(TimeDimField(q))}
    ELSE IF q.extreme \/ (Dimensions(q) # {} /\ ~q.spread)
    THEN {Name(PrimaryAlias(q))} ELSE {}

\* The time phrase alone; a comparison without one gets a default window.
TimeOf(gran, cmp, field) == [field |-> field, gran |-> gran, cmp |-> cmp]
TimeFilterOf(q) ==
    IF q.time # "none" THEN TimeOf(PhraseGran[q.time], q.cmp, TimeDimField(q))
    ELSE IF q.cmp # "none" THEN TimeOf("month", q.cmp, TimeDimField(q))
    ELSE NoTime

(***************************************************************************)
(* DeterministicNL2DSL.run: a question with an undefined metric or without *)
(* any is refused, which is NoDsl here; the rest is validated.             *)
(***************************************************************************)
Parse(q) ==
    IF q.undefined \/ Metrics(q) = {} THEN NoDsl
    ELSE Validated([NoDsl EXCEPT !.metrics = Metrics(q), !.dims = GroupBy(q),
                                 !.time = TimeFilterOf(q),
                                 !.filters = FiltersOf(q), !.order = OrderBy(q),
                                 !.fill = q.fill # "none", !.top = Top(q)])
=============================================================================
