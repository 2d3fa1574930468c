---------------------------- MODULE SemanticDsl ----------------------------
(***************************************************************************)
(* The contract between the question and the SQL: the catalogue of logical *)
(* columns and the query DSL (src/semantic/catalog.py, dsl_schema.py).     *)
(*                                                                         *)
(* Kept: which columns, tables and output names a query refers to, its     *)
(* shape (time filter, gap filling, top-N) and what the validators forbid. *)
(* Abstracted: aggregation functions, sort directions, limits, the order   *)
(* of the elements of a list (lists are sets) and the dates of a window    *)
(* (the module TimeWindows has those).                                     *)
(***************************************************************************)
EXTENDS Integers

\* The table of each logical column (the catalogue's built-in default, less
\* five columns that no rule names).
Columns ==
    [order_id |-> "fact_orders", user_id |-> "fact_orders",
     product_id |-> "fact_orders", order_amount |-> "fact_orders",
     pay_status |-> "fact_orders", order_time |-> "fact_orders",
     refund_amount |-> "fact_refunds", refund_time |-> "fact_refunds",
     province |-> "dim_user", gender |-> "dim_user",
     register_time |-> "dim_user",
     category |-> "dim_product", brand |-> "dim_product",
     product_name |-> "dim_product", shop_name |-> "dim_shop"]

Fields == DOMAIN Columns
FactTable == "fact_orders"
\* The tables that may be joined to the fact table: dimensions and refunds.
Joinable == {"dim_user", "dim_product", "dim_shop", "fact_refunds"}
TimeFields == {"order_time", "refund_time", "register_time"}

Granularity == {"day", "week", "month", "quarter"}
Comparison == {"none", "yoy", "mom"}

(***************************************************************************)
(* The name of an output column: the alias of a metric or a dimension (the *)
(* alias of a dimension is its field), or such an alias with the suffix of *)
(* a column that a comparison adds.                                        *)
(***************************************************************************)
Suffixes == {"none", "prev", "yoy", "mom"}
Names == [of: STRING, add: Suffixes]
Name(alias) == [of |-> alias, add |-> "none"]

\* A metric: its kind, the columns it aggregates, and its alias.
Metric == [kind: {"aggregate", "ratio", "window"}, fields: SUBSET Fields,
           alias: STRING]
Aggregate(field, alias) ==
    [kind |-> "aggregate", fields |-> {field}, alias |-> alias]
Ratio(num, den, alias) ==
    [kind |-> "ratio", fields |-> {num, den}, alias |-> alias]
Window(base, alias) ==
    [kind |-> "window", fields |-> base.fields, alias |-> alias]

\* A filter on a column; a scalar value is a set of one.
Filter == [field: Fields, op: {"eq", "ne", "in", "between"},
           value: SUBSET STRING]

NoTime == [field |-> "none", gran |-> "day", cmp |-> "none"]
TimeFilter == [field: TimeFields, gran: Granularity, cmp: Comparison]

NoTop == [by |-> {}, order |-> {}]
TopN == [by: SUBSET Fields, order: SUBSET Names]

\* rls counts the copies of the policy's row filter that apply_policy added.
Dsl == [metrics: SUBSET Metric, dims: SUBSET Fields,
        time: TimeFilter \union {NoTime}, filters: SUBSET Filter, rls: Nat,
        order: SUBSET Names, fill: BOOLEAN, top: TopN]
NoDsl == [metrics |-> {}, dims |-> {}, time |-> NoTime, filters |-> {},
          rls |-> 0, order |-> {}, fill |-> FALSE, top |-> NoTop]

(***************************************************************************)
(* What QueryDSL.model_validate accepts, and what it changes: the order of *)
(* a query without dimensions is erased.  model_copy does neither.         *)
(***************************************************************************)
Accepted(d) ==
    /\ d.metrics # {}
    /\ d.time = NoTime \/ d.time.field \in TimeFields
    /\ d.top # NoTop => d.top.by # {} /\ d.top.order # {}
    /\ \A f \in d.filters : f.op \in {"in", "between"} => f.value # {}
Validated(d) == IF d.dims = {} THEN [d EXCEPT !.order = {}] ELSE d

TimeDims(d) == d.dims \intersect TimeFields
HasWindow(d) == \E m \in d.metrics : m.kind = "window"

\* The columns a query refers to in metrics, dimensions and filters; the
\* row filter of a policy is on the province.
Referenced(d) ==
    (UNION {m.fields : m \in d.metrics}) \union d.dims
       \union {f.field : f \in d.filters}
       \union (IF d.rls > 0 THEN {"province"} ELSE {})
=============================================================================
