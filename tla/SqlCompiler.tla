---------------------------- MODULE SqlCompiler ----------------------------
(***************************************************************************)
(* The deterministic compiler (src/compiler/sql_compiler.py): which DSLs   *)
(* it refuses, and of the SQL it makes the FROM clause, the aliases it     *)
(* uses, the output columns and the names it sorts by.                     *)
(***************************************************************************)
EXTENDS SemanticDsl

\* A query that compiled, or the reason of its CompileError.
Refused(why) ==
    [ok |-> FALSE, why |-> why, from |-> {}, used |-> {},
     out |-> {}, sort |-> {}]

\* Mutant of FromClause: the tables of the filters are forgotten.
FromClauseOfSelect(d) ==
    {FactTable} \union {Columns[f] : f \in (UNION {m.fields : m \in d.metrics}) \union d.dims}

\* The tables FROM and JOIN bring in: those of metrics, dimensions, filters.
FromClause(d) ==
    {FactTable} \union {Columns[f] : f \in Referenced(d)}

\* The tables whose aliases the SELECT and WHERE use: the window filter on
\* the time axis as well.
Used(d) ==
    {Columns[f] : f \in Referenced(d)}
       \union (IF d.time = NoTime THEN {} ELSE {Columns[d.time.field]})

DimNames(d) == {Name(f) : f \in d.dims}
MetricNames(d) == {Name(m.alias) : m \in d.metrics}

Compiled(d, out, sort) ==
    [ok |-> TRUE, why |-> "none", from |-> FromClause(d), used |-> Used(d),
     out |-> out, sort |-> sort]

(***************************************************************************)
(* Current window against base window: of several time dimensions one is   *)
(* kept, every metric gets its base value and its growth, and the order    *)
(* may name any of these columns.                                          *)
(***************************************************************************)
KeptTimeDim(d) == IF TimeDims(d) = {} THEN {} ELSE {CHOOSE f \in TimeDims(d) : TRUE}
CompareNames(d) ==
    {Name(f) : f \in (d.dims \ TimeFields) \union KeptTimeDim(d)}
       \union [of: {m.alias : m \in d.metrics}, add: {"none", "prev", d.time.cmp}]
CompileComparison(d) ==
    IF d.order \subseteq CompareNames(d)
    THEN Compiled(d, CompareNames(d), d.order)
    ELSE Refused("order")

(***************************************************************************)
(* Top-N of each group: partitioned by dimensions, ordered by metrics or   *)
(* dimensions; the outer query sorts by partition, then by those names.    *)
(***************************************************************************)
CompileTopN(d) ==
    IF ~(d.top.by \subseteq d.dims) THEN Refused("partition")
    ELSE IF ~(d.top.order \subseteq MetricNames(d) \union DimNames(d))
    THEN Refused("order")
    ELSE Compiled(d, DimNames(d) \union MetricNames(d),
                  {Name(f) : f \in d.top.by} \union d.top.order)

(***************************************************************************)
(* Gap filling: a spine over the window, left-joined to the aggregate over *)
(* the one time dimension.  The other dimensions are not in the result.    *)
(***************************************************************************)
CompileFillGaps(d) ==
    IF d.time = NoTime THEN Refused("window")
    ELSE IF ~\E f \in d.dims : TimeDims(d) = {f} THEN Refused("time_dim")
    ELSE Compiled(d, {Name(f) : f \in TimeDims(d)} \union MetricNames(d),
                  {Name(f) : f \in TimeDims(d)})

\* Everything else: a query without dimensions is not sorted at all.
CompilePlain(d) ==
    IF HasWindow(d) /\ TimeDims(d) = {} THEN Refused("time_dim")
    ELSE IF d.dims = {} THEN Compiled(d, MetricNames(d), {})
    ELSE IF ~(d.order \subseteq MetricNames(d) \union DimNames(d))
    THEN Refused("order")
    ELSE Compiled(d, DimNames(d) \union MetricNames(d), d.order)

\* compile_sql: the shapes that exclude each other, then the shape's path.
Compile(d) ==
    IF d.time.cmp # "none"
    THEN IF HasWindow(d) \/ d.fill \/ d.top # NoTop
         THEN Refused("exclusive") ELSE CompileComparison(d)
    ELSE IF d.top # NoTop
    THEN IF HasWindow(d) \/ d.fill THEN Refused("exclusive") ELSE CompileTopN(d)
    ELSE IF d.fill
    THEN IF HasWindow(d) THEN Refused("exclusive") ELSE CompileFillGaps(d)
    ELSE CompilePlain(d)

(***************************************************************************)
(* What the engine asks of the SQL: every alias it uses is of a table in   *)
(* FROM, and every name it sorts by is an output column.                   *)
(***************************************************************************)
Resolves(sql) == sql.used \subseteq sql.from /\ sql.sort \subseteq sql.out
=============================================================================
