----------------------------- MODULE FollowUps -----------------------------
(***************************************************************************)
(* What a turn does with the DSL of the turn before it: the merge of a     *)
(* follow-up into it (src/agent/memory.py), the policy of the principal    *)
(* (src/security/guard.py) and the normalisation of the trend tool         *)
(* (src/tools/builtins/trend_analysis_tool.py).                            *)
(***************************************************************************)
EXTENDS Heuristic

(***************************************************************************)
(* The built-in policies: what a principal may not refer to and the        *)
(* provinces its row filter grants, if it has one.                         *)
(***************************************************************************)
Principals == {"admin", "analyst", "restricted"}
RowFilter ==
    [analyst |-> [field |-> "province", op |-> "in", value |-> {"p1", "p2"}],
     restricted |-> [field |-> "province", op |-> "in", value |-> {"p1"}]]
Filtered(p) == p \in DOMAIN RowFilter
Forbidden(p) ==
    IF p = "restricted"
    THEN {f \in Fields : Columns[f] \in {"fact_refunds", "dim_shop"}} ELSE {}
MayRead(d, p) == Referenced(d) \intersect Forbidden(p) = {}

\* apply_policy appends the row filter, whether or not it is there already.
Guard(d, p) == IF Filtered(p) THEN [d EXCEPT !.rls = @ + 1] ELSE d

\* Mutant of Strip: the row filter of the last turn stays.
StripNothing(d, p) == d

\* strip_rls_filters: every filter equal to the row filter goes.
Strip(d, p) ==
    IF Filtered(p) THEN [d EXCEPT !.rls = 0, !.filters = @ \ {RowFilter[p]}] ELSE d

(***************************************************************************)
(* normalize_filters: one filter for each column.  An equality wins,       *)
(* memberships are united, of other conflicting ones the last stays (which *)
(* one that is, a set does not say).                                       *)
(***************************************************************************)
OnePer(same) ==
    LET eqs == {f \in same : f.op = "eq"}
        ins == {f \in same : f.op = "in"}
    IN  IF eqs # {} THEN CHOOSE f \in eqs : TRUE
        ELSE IF ins = same
        THEN [(CHOOSE f \in ins : TRUE) EXCEPT !.value = UNION {f.value : f \in ins}]
        ELSE CHOOSE f \in same \ ins : TRUE
NormalizeFilters(filters) ==
    {OnePer({f \in filters : f.field = c}) : c \in {f.field : f \in filters}}

(***************************************************************************)
(* What a question is to the last DSL: nothing to inherit from; a new      *)
(* question, since it names a metric or counts something, which resets the *)
(* session; or a follow-up, if it changes anything.                        *)
(***************************************************************************)
Topic(q) ==
    \/ q.words # {} \/ CountEntity(q) # {}
    \/ q.only
    \/ ProbeField(q) # "none" /\ (q.count # "none" \/ q.enum)
Trend(q) ==
    q.by # "none" \/ q.win # "none" \/ q.cmp # "none" \/ q.fill = "zero"
Changes(q) ==
    \/ q.place # "none" \/ q.cat \/ q.time # "none"
    \/ Trend(q) \/ q.expand # "none"
Resets(q, last) == last # NoDsl /\ Topic(q)
Follows(q, last) == last # NoDsl /\ ~Topic(q) /\ Changes(q)

\* _apply_deltas: places and categories replace those of the base, a time
\* phrase replaces the whole time filter.
ApplyDeltas(d, q) ==
    LET gone == (IF q.place # "none" THEN {"province"} ELSE {})
                  \union (IF q.cat THEN {"category"} ELSE {})
        kept == {f \in d.filters : f.field \notin gone}
    IN  [d EXCEPT !.filters = NormalizeFilters(kept \union Place(q.place)
                                                    \union Category(q.cat)),
                  !.time = IF q.time = "none" THEN @
                           ELSE TimeOf(PhraseGran[q.time], "none", "order_time")]

\* resolve_context: the DSL of a follow-up, not guarded yet.
Merge(q, last, p) ==
    LET merged == ApplyDeltas(Strip(last, p), q)
    IN  IF q.expand = "none" THEN merged
        ELSE [merged EXCEPT !.dims = @ \union {q.expand}]

(***************************************************************************)
(* The trend tool.  args are what the planner gave explicitly: a           *)
(* granularity, a comparison ("unset" if not given) and gap filling.       *)
(***************************************************************************)
DefaultWindow(cmp, gran) == TimeOf(gran, cmp, "order_time")

\* The rules once more when the pipeline refused: without the check for
\* undefined metrics, without top-N, and with a default window to compare.
Fallback(q) ==
    IF Metrics(q) = {} \/ (q.cmp # "none" /\ q.fill # "none") THEN NoDsl
    ELSE Validated(
            [NoDsl EXCEPT !.metrics = Metrics(q), !.dims = Dimensions(q),
                          !.filters = FiltersOf(q), !.order = OrderBy(q),
                          !.fill = q.fill # "none",
                          !.time = IF q.cmp # "none" THEN DefaultWindow(q.cmp, "month")
                                   ELSE IF q.time = "none" THEN NoTime
                                   ELSE TimeOf(PhraseGran[q.time], "none",
                                               IF q.time = "recent"
                                               THEN TimeDimField(q) ELSE "order_time")])

Asked(given, said) == IF given # "unset" THEN given ELSE said
GranOf(q, args, d) ==
    Asked(args.gran, IF q.by \in Granularity THEN q.by ELSE d.time.gran)

Ordered(names) ==
    IF \E n \in names : n.of \in TimeFields THEN names
    ELSE names \union {Name("order_time")}

\* A comparison takes the time dimensions away, and every order but one.
Compared(d, cmp, gran) ==
    LET dims == d.dims \ TimeFields
        allowed == {Name(f) : f \in dims}
                     \union [of: {m.alias : m \in d.metrics}, add: {"none", "prev", cmp}]
        orders == d.order \intersect allowed
    IN  [d EXCEPT !.dims = dims, !.fill = FALSE, !.top = NoTop,
                  !.order = IF orders = {} THEN {} ELSE {CHOOSE n \in orders : TRUE},
                  !.time = IF @ = NoTime THEN DefaultWindow(cmp, gran)
                           ELSE [@ EXCEPT !.cmp = cmp, !.gran = gran]]

\* A series needs a time dimension and a window, and is sorted by time; the
\* comparison of the base stays in its time filter.
InSeries(d, gran) ==
    [d EXCEPT !.dims = IF TimeDims(d) = {} THEN @ \union {"order_time"} ELSE @,
              !.time = IF @ = NoTime THEN DefaultWindow("none", gran)
                       ELSE [@ EXCEPT !.gran = gran],
              !.order = Ordered(@)]

NormalizeTrend(d, q, args) ==
    LET cmp == Asked(args.cmp, q.cmp)
        fill == args.fill \/ q.fill # "none"
        gran == GranOf(q, args, d)
    IN  IF cmp # "none" THEN Compared(d, cmp, gran)
        ELSE IF fill
        THEN [InSeries(d, IF gran = "week" THEN "day" ELSE gran)
                 EXCEPT !.fill = TRUE, !.top = NoTop]
        ELSE InSeries(d, gran)
=============================================================================
