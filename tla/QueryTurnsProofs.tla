-------------------------- MODULE QueryTurnsProofs --------------------------
(***************************************************************************)
(* Proofs about QueryTurns: for any questions, whatever an LLM writes or   *)
(* decides and in any order of turns, a query carries the row filter of    *)
(* its principal, the engine resolves the names of a query that only the   *)
(* rules made, no query over the whole history is run unasked, and the     *)
(* answer that a question lacked leads to the query that was asked for.    *)
(***************************************************************************)
EXTENDS QueryTurns, TLAPS

\* A DSL, as far as the proofs need its type: the fields that it has, a time
\* filter or none, and a number of row filters.
Shaped(d) ==
    /\ d = [metrics |-> d.metrics, dims |-> d.dims, time |-> d.time, filters |-> d.filters,
            rls |-> d.rls, order |-> d.order, fill |-> d.fill, top |-> d.top]
    /\ d.time = TimeOf(d.time.gran, d.time.cmp, d.time.field)
    /\ d.rls \in Nat

\* A query over refunds, which brings their table into FROM.
OnRefunds(d) == \E m \in d.metrics : "refund_amount" \in m.fields

\* The table of the time axis is in FROM, or the query does not compile: the axis
\* is that of the orders, or of refunds that the query names as well.
Dated(d) ==
    \/ d.time = NoTime \/ d.time.field = "order_time"
    \/ /\ d.time.field = "refund_time"
       /\ \/ OnRefunds(d)
          \/ HasWindow(d) /\ (d.time.cmp # "none" \/ "refund_time" \in d.dims)

-----------------------------------------------------------------------------
(* What the rules make of a question                                       *)

LEMMA NoDslShaped == Shaped(NoDsl) /\ NoDsl.rls = 0 /\ Dated(NoDsl)
BY DEF Shaped, NoDsl, NoTime, TimeOf, Dated

LEMMA LlmShaped == \A d \in LlmDsls : Shaped(d) /\ d.rls = 0
<1> SUFFICES ASSUME NEW d \in LlmDsls PROVE Shaped(d) /\ d.rls = 0
  OBVIOUS
<1>1. d \in Dsl /\ d.rls = 0
  BY LlmAssumption
<1>2. d = [metrics |-> d.metrics, dims |-> d.dims, time |-> d.time, filters |-> d.filters,
           rls |-> d.rls, order |-> d.order, fill |-> d.fill, top |-> d.top]
      /\ d.time \in TimeFilter \union {NoTime}
  BY <1>1 DEF Dsl
<1>3. d.time = TimeOf(d.time.gran, d.time.cmp, d.time.field)
  BY <1>2 DEF TimeFilter, NoTime, TimeOf
<1> QED  BY <1>1, <1>2, <1>3 DEF Shaped

\* Validation erases at most the order.
LEMMA ValidatedKeeps ==
    ASSUME NEW d, Shaped(d)
    PROVE  /\ Shaped(Validated(d))
           /\ Validated(d).metrics = d.metrics /\ Validated(d).dims = d.dims
           /\ Validated(d).time = d.time /\ Validated(d).filters = d.filters
           /\ Validated(d).rls = d.rls
<1>1. Validated(d) = d \/ Validated(d) = [d EXCEPT !.order = {}]
  BY DEF Validated
<1>2. [d EXCEPT !.order = {}] =
          [metrics |-> d.metrics, dims |-> d.dims, time |-> d.time, filters |-> d.filters,
           rls |-> d.rls, order |-> {}, fill |-> d.fill, top |-> d.top]
  BY DEF Shaped
<1> QED  BY <1>1, <1>2 DEF Shaped

LEMMA ParseIs ==
    ASSUME NEW e
    PROVE  /\ Shaped(Parse(e)) /\ Parse(e).rls = 0
           /\ Parse(e) # NoDsl =>
                 /\ Parse(e).metrics = Metrics(e) /\ Parse(e).dims = GroupBy(e)
                 /\ Parse(e).time = TimeFilterOf(e) /\ Parse(e).filters = FiltersOf(e)
<1> DEFINE d == [NoDsl EXCEPT !.metrics = Metrics(e), !.dims = GroupBy(e),
                              !.time = TimeFilterOf(e),
                              !.filters = FiltersOf(e), !.order = OrderBy(e),
                              !.fill = e.fill # "none", !.top = Top(e)]
<1>1. Parse(e) = NoDsl \/ Parse(e) = Validated(d)
  BY DEF Parse
<1>2. TimeFilterOf(e) = TimeOf(TimeFilterOf(e).gran, TimeFilterOf(e).cmp, TimeFilterOf(e).field)
  BY DEF TimeFilterOf, TimeOf, NoTime
<1> HIDE DEF d
<1>3. PICK metrics, dims, time, filters, order, fill, top :
          /\ metrics = Metrics(e) /\ dims = GroupBy(e) /\ time = TimeFilterOf(e)
          /\ filters = FiltersOf(e) /\ order = OrderBy(e) /\ fill = (e.fill # "none")
          /\ top = Top(e)
  OBVIOUS
<1>4. d = [NoDsl EXCEPT !.metrics = metrics, !.dims = dims, !.time = time,
                        !.filters = filters, !.order = order, !.fill = fill, !.top = top]
  BY <1>3, Zenon DEF d
<1>5. time = TimeOf(time.gran, time.cmp, time.field)
  BY <1>2, <1>3
<1>6. /\ d.metrics = metrics /\ d.dims = dims /\ d.time = time /\ d.filters = filters
      /\ d.rls = 0
  BY <1>4 DEF NoDsl
<1>7. d = [metrics |-> d.metrics, dims |-> d.dims, time |-> d.time, filters |-> d.filters,
           rls |-> d.rls, order |-> d.order, fill |-> d.fill, top |-> d.top]
  BY <1>4 DEF NoDsl
<1>8. Shaped(d)
  BY <1>5, <1>6, <1>7 DEF Shaped
<1> QED  BY <1>1, <1>3, <1>6, <1>8, ValidatedKeeps, NoDslShaped

LEMMA ProbeTyped ==
    ASSUME NEW e
    PROVE  ProbeField(e) \in {"none", "province", "brand", "category", "user_id", "gender",
                              "pay_status"}
<1> DEFINE said == e.groups \union e.about \union
                     (IF "active_users" \in e.words \/ e.count = "user" THEN {"user_id"} ELSE {})
           hits == {i \in DOMAIN Probed : Probed[i] \in said}
           first == CHOOSE i \in hits : \A j \in hits : i <= j
<1>1. DOMAIN Probed = 1 .. 6 /\ \A i \in 1 .. 6 :
          Probed[i] \in {"province", "brand", "category", "user_id", "gender", "pay_status"}
  BY DEF Probed
<1>2. ASSUME hits # {} PROVE \E i \in hits : \A j \in hits : i <= j
  BY <1>1, <1>2
<1>3. ProbeField(e) = IF hits = {} THEN "none" ELSE Probed[first]
  BY DEF ProbeField
<1>4. hits \subseteq 1 .. 6
  BY <1>1
<1>5. hits # {} => first \in hits
  BY <1>2
<1> HIDE DEF hits, first
<1> QED  BY <1>1, <1>3, <1>4, <1>5

\* A question for refunds is measured in refunds, or by a window.
LEMMA RefundsMeasured ==
    ASSUME NEW e, "refund_amount" \in e.words, NEW d, d.metrics = Metrics(e)
    PROVE  OnRefunds(d) \/ (HasWindow(d) /\ Series(e))
<1>1. CASE e.win # "none"
  <2>1. d.metrics = {WindowMetric(e)}
    BY <1>1 DEF Metrics
  <2>2. WindowMetric(e).kind = "window"
    BY DEF WindowMetric, Window
  <2> QED  BY <1>1, <2>1, <2>2 DEF HasWindow, Series
<1>2. CASE e.win = "none" /\ "refund_rate" \in e.words
  <2>1. d.metrics = {MetricOf["refund_rate"]}
    BY <1>2 DEF Metrics
  <2>2. "refund_amount" \in MetricOf["refund_rate"].fields
    BY DEF MetricOf, Ratio
  <2> QED  BY <2>1, <2>2 DEF OnRefunds
<1>3. CASE e.win = "none" /\ "refund_rate" \notin e.words
  <2>1. d.metrics = {MetricOf[w] : w \in e.words}
    BY <1>3 DEF Metrics
  <2>2. "refund_amount" \in MetricOf["refund_amount"].fields
    BY DEF MetricOf, Aggregate
  <2> QED  BY <2>1, <2>2 DEF OnRefunds
<1> QED  BY <1>1, <1>2, <1>3

\* The time axis of what is made of a question is in its dimensions as well.
LEMMA AxisDated ==
    ASSUME NEW e, NEW d, d.metrics = Metrics(e), Series(e) => TimeDimField(e) \in d.dims,
           d.time = NoTime \/ d.time.field \in {"order_time", TimeDimField(e)}
    PROVE  Dated(d)
<1>1. CASE "refund_amount" \in e.words /\ Series(e)
  <2>1. TimeDimField(e) = "refund_time" /\ "refund_time" \in d.dims
    BY <1>1 DEF TimeDimField
  <2>2. OnRefunds(d) \/ HasWindow(d)
    BY <1>1, RefundsMeasured
  <2> QED  BY <2>1, <2>2 DEF Dated
<1>2. CASE ~("refund_amount" \in e.words /\ Series(e))
  <2>1. TimeDimField(e) = "order_time"
    BY <1>2 DEF TimeDimField
  <2> QED  BY <2>1 DEF Dated
<1> QED  BY <1>1, <1>2

LEMMA ParseDated == ASSUME NEW e PROVE Dated(Parse(e))
<1>1. CASE Parse(e) = NoDsl
  BY <1>1, NoDslShaped
<1>2. CASE Parse(e) # NoDsl
  <2>1. /\ Parse(e).metrics = Metrics(e) /\ Parse(e).dims = GroupBy(e)
        /\ Parse(e).time = TimeFilterOf(e)
    BY <1>2, ParseIs
  <2>2. TimeFilterOf(e) = NoTime \/ TimeFilterOf(e).field = TimeDimField(e)
    BY DEF TimeFilterOf, TimeOf, NoTime
  <2>3. ASSUME Series(e) PROVE TimeDimField(e) \in GroupBy(e)
    <3>1. TimeDimField(e) \in Dimensions(e) /\ TimeDimField(e) \in {"order_time", "refund_time"}
      BY <2>3 DEF Dimensions, TimeDimField
    <3> QED  BY <3>1, ProbeTyped DEF GroupBy
  <2> QED  BY <2>1, <2>2, <2>3, AxisDated
<1> QED  BY <1>1, <1>2

\* The same of the rules that the trend tool falls back on.
LEMMA FallbackIs ==
    ASSUME NEW e
    PROVE  Shaped(Fallback(e)) /\ Fallback(e).rls = 0 /\ Dated(Fallback(e))
<1> DEFINE axis == IF e.cmp # "none" THEN DefaultWindow(e.cmp, "month")
                   ELSE IF e.time = "none" THEN NoTime
                   ELSE TimeOf(PhraseGran[e.time], "none",
                               IF e.time = "recent" THEN TimeDimField(e) ELSE "order_time")
           d == [NoDsl EXCEPT !.metrics = Metrics(e), !.dims = Dimensions(e),
                              !.filters = FiltersOf(e), !.order = OrderBy(e),
                              !.fill = e.fill # "none", !.time = axis]
<1>1. Fallback(e) = NoDsl \/ Fallback(e) = Validated(d)
  BY DEF Fallback
<1>2. PICK metrics, dims, time, filters, order, fill :
          /\ metrics = Metrics(e) /\ dims = Dimensions(e) /\ time = axis
          /\ filters = FiltersOf(e) /\ order = OrderBy(e) /\ fill = (e.fill # "none")
  OBVIOUS
<1>3. d = [NoDsl EXCEPT !.metrics = metrics, !.dims = dims, !.filters = filters,
                        !.order = order, !.fill = fill, !.time = time]
  BY <1>2, Zenon DEF d
<1>4. /\ time = TimeOf(time.gran, time.cmp, time.field)
      /\ time = NoTime \/ time.field \in {"order_time", TimeDimField(e)}
  BY <1>2 DEF DefaultWindow, TimeOf, NoTime
<1> HIDE DEF d, axis
<1>5. d.metrics = metrics /\ d.dims = dims /\ d.time = time /\ d.rls = 0
  BY <1>3 DEF NoDsl
<1>6. d = [metrics |-> d.metrics, dims |-> d.dims, time |-> d.time, filters |-> d.filters,
           rls |-> d.rls, order |-> d.order, fill |-> d.fill, top |-> d.top]
  BY <1>3 DEF NoDsl
<1>7. Shaped(d)
  BY <1>4, <1>5, <1>6 DEF Shaped
<1>8. /\ Shaped(Validated(d)) /\ Validated(d).rls = 0
      /\ Validated(d).metrics = Metrics(e) /\ Validated(d).dims = Dimensions(e)
      /\ Validated(d).time = time
  BY <1>2, <1>5, <1>7, ValidatedKeeps
<1>9. Series(e) => TimeDimField(e) \in Dimensions(e)
  BY DEF Dimensions
<1>10. Dated(Validated(d))
  BY <1>4, <1>8, <1>9, AxisDated
<1> QED  BY <1>1, <1>8, <1>10, NoDslShaped

-----------------------------------------------------------------------------
(* Policy, merge and normalisation                                         *)

LEMMA Shaping ==
    ASSUME NEW d, Shaped(d)
    PROVE  /\ \A n \in Nat : LET g == [d EXCEPT !.rls = n] IN
                  /\ Shaped(g) /\ g.rls = n /\ g.metrics = d.metrics /\ g.dims = d.dims
                  /\ g.time = d.time /\ g.filters = d.filters
<1> SUFFICES ASSUME NEW n \in Nat, NEW g, g = [d EXCEPT !.rls = n]
             PROVE  /\ Shaped(g) /\ g.rls = n /\ g.metrics = d.metrics /\ g.dims = d.dims
                    /\ g.time = d.time /\ g.filters = d.filters
  OBVIOUS
<1>1. g = [metrics |-> d.metrics, dims |-> d.dims, time |-> d.time, filters |-> d.filters,
           rls |-> n, order |-> d.order, fill |-> d.fill, top |-> d.top]
  BY DEF Shaped
<1> QED  BY <1>1 DEF Shaped

LEMMA GuardKeeps ==
    ASSUME NEW d, Shaped(d), NEW p
    PROVE  /\ Shaped(Guard(d, p))
           /\ Guard(d, p).rls = IF Filtered(p) THEN d.rls + 1 ELSE d.rls
           /\ Guard(d, p).metrics = d.metrics /\ Guard(d, p).dims = d.dims
           /\ Guard(d, p).time = d.time /\ Guard(d, p).filters = d.filters
<1>1. d.rls \in Nat /\ d.rls + 1 \in Nat
  BY DEF Shaped
<1>2. Guard(d, p) = IF Filtered(p) THEN [d EXCEPT !.rls = d.rls + 1] ELSE d
  BY DEF Guard
<1> QED  BY <1>1, <1>2, Shaping

LEMMA GuardDated ==
    ASSUME NEW d, Shaped(d), Dated(d), NEW p
    PROVE  Dated(Guard(d, p))
BY GuardKeeps DEF Dated, OnRefunds, HasWindow

\* The DSL of a follow-up has no row filter of the principal left.
LEMMA MergeKeeps ==
    ASSUME NEW d, Shaped(d), NEW e, NEW p
    PROVE  /\ Shaped(Merge(e, d, p))
           /\ Filtered(p) => Merge(e, d, p).rls = 0
           /\ Dated(d) => Dated(Merge(e, d, p))
<1>1. PICK s : s = Strip(d, p)
  OBVIOUS
<1>2. /\ s = [metrics |-> d.metrics, dims |-> d.dims, time |-> d.time, filters |-> s.filters,
              rls |-> s.rls, order |-> d.order, fill |-> d.fill, top |-> d.top]
      /\ s.rls = IF Filtered(p) THEN 0 ELSE d.rls
  BY <1>1 DEF Strip, Shaped
<1>3. PICK m : m = ApplyDeltas(s, e)
  OBVIOUS
<1>4. PICK filters : filters =
          LET gone == (IF e.place # "none" THEN {"province"} ELSE {})
                        \union (IF e.cat THEN {"category"} ELSE {})
              kept == {f \in s.filters : f.field \notin gone}
          IN  NormalizeFilters(kept \union Place(e.place) \union Category(e.cat))
  OBVIOUS
<1>5. PICK time : time = IF e.time = "none" THEN s.time
                         ELSE TimeOf(PhraseGran[e.time], "none", "order_time")
  OBVIOUS
<1>6. m = [s EXCEPT !.filters = filters, !.time = time]
  BY <1>3, <1>4, <1>5, Zenon DEF ApplyDeltas
<1>7. m.metrics = d.metrics /\ m.dims = d.dims /\ m.time = time /\ m.rls = s.rls
  BY <1>2, <1>6
<1>8. m = [metrics |-> m.metrics, dims |-> m.dims, time |-> m.time, filters |-> m.filters,
           rls |-> m.rls, order |-> m.order, fill |-> m.fill, top |-> m.top]
  BY <1>2, <1>6
<1>9. /\ time = TimeOf(time.gran, time.cmp, time.field)
      /\ time = d.time \/ time.field = "order_time"
      /\ s.rls \in Nat
  BY <1>2, <1>5 DEF TimeOf, Shaped
<1>10. Shaped(m)
  BY <1>7, <1>8, <1>9 DEF Shaped
<1>11. Dated(d) => Dated(m)
  BY <1>7, <1>9 DEF Dated, OnRefunds, HasWindow
<1>12. CASE e.expand = "none"
  <2>1. Merge(e, d, p) = m
    BY <1>1, <1>3, <1>12 DEF Merge
  <2> QED  BY <1>2, <1>7, <1>10, <1>11, <2>1
<1>13. CASE e.expand # "none"
  <2>1. PICK x : x = [m EXCEPT !.dims = m.dims \union {e.expand}]
    OBVIOUS
  <2>2. Merge(e, d, p) = x
    BY <1>1, <1>3, <1>13, <2>1 DEF Merge
  <2>3. x = [metrics |-> m.metrics, dims |-> m.dims \union {e.expand}, time |-> m.time,
             filters |-> m.filters, rls |-> m.rls, order |-> m.order, fill |-> m.fill,
             top |-> m.top]
    BY <1>8, <2>1
  <2>4. Shaped(x) /\ x.rls = m.rls
    BY <1>10, <2>3 DEF Shaped
  <2>5. Dated(m) => Dated(x)
    BY <2>3 DEF Dated, OnRefunds, HasWindow
  <2> QED  BY <1>2, <1>7, <1>11, <2>2, <2>4, <2>5
<1> QED  BY <1>12, <1>13

-----------------------------------------------------------------------------
(* The trend tool                                                          *)

\* What every normalisation of d has in common.
Normal(x, d) ==
    /\ Shaped(x) /\ x.rls = d.rls /\ x.metrics = d.metrics /\ x.filters = d.filters
    /\ x.dims \subseteq d.dims \union {"order_time"}
    /\ Dated(d) => Dated(x)
    /\ x.time.field # "none" \/ (d.time # NoTime /\ x.time.field = d.time.field)

LEMMA ComparedNormal ==
    ASSUME NEW d, Shaped(d), NEW c, c # "none", NEW g
    PROVE  Normal(Compared(d, c, g), d)
<1> DEFINE dims0 == d.dims \ TimeFields
           orders == d.order \intersect
                       ({Name(f) : f \in dims0}
                          \union [of: {m.alias : m \in d.metrics}, add: {"none", "prev", c}])
<1>1. PICK dims, order, time :
          /\ dims = dims0
          /\ order = IF orders = {} THEN {} ELSE {CHOOSE n \in orders : TRUE}
          /\ time = IF d.time = NoTime THEN DefaultWindow(c, g)
                    ELSE [d.time EXCEPT !.cmp = c, !.gran = g]
  OBVIOUS
<1>2. PICK x : x = [d EXCEPT !.dims = dims, !.fill = FALSE, !.top = NoTop, !.order = order,
                             !.time = time]
  OBVIOUS
<1>3. Compared(d, c, g) = x
  BY <1>1, <1>2, Zenon DEF Compared
<1>4. /\ time = TimeOf(time.gran, time.cmp, time.field) /\ time.cmp = c
      /\ IF d.time = NoTime THEN time.field = "order_time" ELSE time.field = d.time.field
  <2>1. d.time = [field |-> d.time.field, gran |-> d.time.gran, cmp |-> d.time.cmp]
    BY DEF Shaped, TimeOf
  <2>2. CASE d.time = NoTime
    <3>1. time = TimeOf(g, c, "order_time")
      BY <1>1, <2>2, Zenon DEF DefaultWindow
    <3> QED  BY <2>2, <3>1 DEF TimeOf
  <2>3. CASE d.time # NoTime
    <3>1. time = [d.time EXCEPT !.cmp = c, !.gran = g]
      BY <1>1, <2>3, Zenon
    <3>2. /\ time.field = d.time.field /\ time.cmp = c /\ time.gran = g
          /\ time = [field |-> time.field, gran |-> time.gran, cmp |-> time.cmp]
      BY <2>1, <3>1
    <3> QED  BY <2>3, <3>2 DEF TimeOf
  <2> QED  BY <2>2, <2>3
<1>5. /\ x.metrics = d.metrics /\ x.dims = dims /\ x.time = time /\ x.filters = d.filters
      /\ x.rls = d.rls
  BY <1>2 DEF Shaped
<1>6. x = [metrics |-> x.metrics, dims |-> x.dims, time |-> x.time, filters |-> x.filters,
           rls |-> x.rls, order |-> x.order, fill |-> x.fill, top |-> x.top]
  BY <1>2 DEF Shaped
<1>7. Shaped(x)
  BY <1>4, <1>5, <1>6 DEF Shaped
<1>8. Dated(d) => Dated(x)
  BY <1>4, <1>5 DEF Dated, OnRefunds, HasWindow
<1>9. x.dims \subseteq d.dims
  BY <1>1, <1>5
<1>10. x.time.field # "none" \/ (d.time # NoTime /\ x.time.field = d.time.field)
  BY <1>4, <1>5
<1>11. Normal(x, d)
  BY <1>5, <1>7, <1>8, <1>9, <1>10 DEF Normal
<1> QED  BY <1>3, <1>11

LEMMA InSeriesNormal ==
    ASSUME NEW d, Shaped(d), NEW g
    PROVE  Normal(InSeries(d, g), d)
<1>1. PICK dims, order, time :
          /\ dims = IF TimeDims(d) = {} THEN d.dims \union {"order_time"} ELSE d.dims
          /\ order = Ordered(d.order)
          /\ time = IF d.time = NoTime THEN DefaultWindow("none", g)
                    ELSE [d.time EXCEPT !.gran = g]
  OBVIOUS
<1>2. PICK x : x = [d EXCEPT !.dims = dims, !.time = time, !.order = order]
  OBVIOUS
<1>3. InSeries(d, g) = x
  BY <1>1, <1>2, Zenon DEF InSeries
<1>4. /\ time = TimeOf(time.gran, time.cmp, time.field)
      /\ IF d.time = NoTime THEN time.field = "order_time"
         ELSE time.field = d.time.field /\ time.cmp = d.time.cmp
  <2>1. d.time = [field |-> d.time.field, gran |-> d.time.gran, cmp |-> d.time.cmp]
    BY DEF Shaped, TimeOf
  <2>2. CASE d.time = NoTime
    <3>1. time = TimeOf(g, "none", "order_time")
      BY <1>1, <2>2, Zenon DEF DefaultWindow
    <3> QED  BY <2>2, <3>1 DEF TimeOf
  <2>3. CASE d.time # NoTime
    <3>1. time = [d.time EXCEPT !.gran = g]
      BY <1>1, <2>3, Zenon
    <3> QED  BY <2>1, <2>3, <3>1 DEF TimeOf
  <2> QED  BY <2>2, <2>3
<1>5. /\ x.metrics = d.metrics /\ x.dims = dims /\ x.time = time /\ x.filters = d.filters
      /\ x.rls = d.rls
  BY <1>2 DEF Shaped
<1>6. x = [metrics |-> x.metrics, dims |-> x.dims, time |-> x.time, filters |-> x.filters,
           rls |-> x.rls, order |-> x.order, fill |-> x.fill, top |-> x.top]
  BY <1>2 DEF Shaped
<1>7. Shaped(x)
  BY <1>4, <1>5, <1>6 DEF Shaped
<1>8. d.dims \subseteq x.dims /\ x.dims \subseteq d.dims \union {"order_time"}
  BY <1>1, <1>5
<1>9. Dated(d) => Dated(x)
  BY <1>4, <1>5, <1>8 DEF Dated, OnRefunds, HasWindow
<1>10. x.time.field # "none" \/ (d.time # NoTime /\ x.time.field = d.time.field)
  BY <1>4, <1>5
<1>11. Normal(x, d)
  BY <1>5, <1>7, <1>8, <1>9, <1>10 DEF Normal
<1> QED  BY <1>3, <1>11

LEMMA TrendNormal ==
    ASSUME NEW d, Shaped(d), NEW e, NEW args
    PROVE  Normal(NormalizeTrend(d, e, args), d)
<1> DEFINE cmp == Asked(args.cmp, e.cmp)
           gran == GranOf(e, args, d)
<1>1. CASE cmp # "none"
  <2>1. NormalizeTrend(d, e, args) = Compared(d, cmp, gran)
    BY <1>1, Zenon DEF NormalizeTrend
  <2> HIDE DEF cmp, gran
  <2> QED  BY <1>1, <2>1, ComparedNormal
<1>2. CASE cmp = "none" /\ (args.fill \/ e.fill # "none")
  <2>1. PICK g : g = IF gran = "week" THEN "day" ELSE gran
    OBVIOUS
  <2>2. PICK y : y = InSeries(d, g)
    OBVIOUS
  <2>3. PICK x : x = [y EXCEPT !.fill = TRUE, !.top = NoTop]
    OBVIOUS
  <2>4. NormalizeTrend(d, e, args) = x
    BY <1>2, <2>1, <2>2, <2>3, Zenon DEF NormalizeTrend
  <2>5. Normal(y, d) /\ Shaped(y)
    BY <2>2, InSeriesNormal DEF Normal
  <2>6. /\ x.metrics = y.metrics /\ x.dims = y.dims /\ x.time = y.time
        /\ x.filters = y.filters /\ x.rls = y.rls
    BY <2>3, <2>5 DEF Shaped
  <2>7. x = [metrics |-> x.metrics, dims |-> x.dims, time |-> x.time, filters |-> x.filters,
             rls |-> x.rls, order |-> x.order, fill |-> x.fill, top |-> x.top]
    BY <2>3, <2>5 DEF Shaped
  <2>8. Shaped(x)
    BY <2>5, <2>6, <2>7 DEF Shaped
  <2>9. Dated(y) => Dated(x)
    BY <2>6 DEF Dated, OnRefunds, HasWindow
  <2>10. Normal(x, d)
    BY <2>5, <2>6, <2>8, <2>9 DEF Normal
  <2> QED  BY <2>4, <2>10
<1>3. CASE cmp = "none" /\ ~(args.fill \/ e.fill # "none")
  <2>1. NormalizeTrend(d, e, args) = InSeries(d, gran)
    BY <1>3, Zenon DEF NormalizeTrend
  <2> HIDE DEF gran
  <2> QED  BY <2>1, InSeriesNormal
<1> QED  BY <1>1, <1>2, <1>3

-----------------------------------------------------------------------------
(* The compiler                                                            *)

\* Every way of compiling sorts by names that it selects.
LEMMA SortsSelected == ASSUME NEW d PROVE Compile(d).sort \subseteq Compile(d).out
<1>1. \A why : Refused(why).sort = {}
  BY DEF Refused
<1>2. \A out, sort : Compiled(d, out, sort).sort = sort /\ Compiled(d, out, sort).out = out
  BY DEF Compiled
<1>3. CompileComparison(d).sort \subseteq CompileComparison(d).out
  BY <1>1, <1>2 DEF CompileComparison
<1>4. CompileTopN(d).sort \subseteq CompileTopN(d).out
  BY <1>1, <1>2 DEF CompileTopN, DimNames
<1>5. CompileFillGaps(d).sort \subseteq CompileFillGaps(d).out
  BY <1>1, <1>2 DEF CompileFillGaps
<1>6. CompilePlain(d).sort \subseteq CompilePlain(d).out
  BY <1>1, <1>2 DEF CompilePlain
<1> QED  BY <1>1, <1>3, <1>4, <1>5, <1>6 DEF Compile

LEMMA FromAndUsed ==
    ASSUME NEW d, Compile(d).ok
    PROVE  /\ Compile(d).from = FromClause(d) /\ Compile(d).used = Used(d)
           /\ HasWindow(d) => d.time.cmp = "none"
<1> DEFINE Made(sql) == ~sql.ok \/ (sql.from = FromClause(d) /\ sql.used = Used(d))
<1>1. \A why : ~Refused(why).ok
  BY DEF Refused
<1>2. \A out, sort : Made(Compiled(d, out, sort))
  BY DEF Compiled
<1>3. Made(CompileComparison(d))
  BY <1>1, <1>2 DEF CompileComparison
<1>4. Made(CompileTopN(d))
  BY <1>1, <1>2 DEF CompileTopN
<1>5. Made(CompileFillGaps(d))
  BY <1>1, <1>2 DEF CompileFillGaps
<1>6. Made(CompilePlain(d))
  BY <1>1, <1>2 DEF CompilePlain
<1> HIDE DEF Made
<1>7. \/ Compile(d) \in {CompileComparison(d), CompileTopN(d), CompileFillGaps(d), CompilePlain(d)}
      \/ Compile(d) = Refused("exclusive")
  BY DEF Compile
<1>8. Made(Compile(d))
  BY <1>1, <1>3, <1>4, <1>5, <1>6, <1>7 DEF Made
<1>9. HasWindow(d) => d.time.cmp = "none"
  BY <1>1 DEF Compile
<1> QED  BY <1>8, <1>9 DEF Made

\* What compiles and is dated finds the table of its time axis in FROM.
LEMMA DatedResolves ==
    ASSUME NEW d, Dated(d), Compile(d).ok
    PROVE  Resolves(Compile(d))
<1>1. /\ Compile(d).from = FromClause(d) /\ Compile(d).used = Used(d)
      /\ HasWindow(d) => d.time.cmp = "none"
  BY FromAndUsed
<1>2. ASSUME d.time # NoTime PROVE Columns[d.time.field] \in FromClause(d)
  <2>1. CASE d.time.field = "order_time"
    BY <2>1 DEF FromClause, Columns, FactTable
  <2>2. CASE d.time.field = "refund_time" /\ "refund_time" \in d.dims
    <3>1. "refund_time" \in Referenced(d)
      BY <2>2 DEF Referenced
    <3> QED  BY <2>2, <3>1 DEF FromClause
  <2>3. CASE d.time.field = "refund_time" /\ OnRefunds(d)
    <3>1. "refund_amount" \in Referenced(d)
      BY <2>3 DEF Referenced, OnRefunds
    <3>2. Columns["refund_time"] = Columns["refund_amount"]
      BY DEF Columns
    <3> QED  BY <2>3, <3>1, <3>2 DEF FromClause
  <2> QED  BY <1>1, <1>2, <2>1, <2>2, <2>3 DEF Dated
<1>3. Used(d) \subseteq FromClause(d)
  BY <1>2 DEF Used, FromClause
<1> QED  BY <1>1, <1>3, SortsSelected DEF Resolves

-----------------------------------------------------------------------------
(* The inductive invariant                                                 *)

\* A question whose time the clarification need not ask for.
TimeAskedFor(q) == q.words # {} => q.says \intersect {"time", "all", "group"} # {}

\* What a session remembers, and what the query of a turn rests on.
Remembered == Shaped(last) /\ (lastByLlm \/ Dated(last))
Running ==
    /\ Shaped(dsl)
    /\ byLlm \/ Dated(dsl)
    /\ stage = "run" /\ Filtered(principal) =>
          dsl.rls >= 1 /\ (made = "merged" => dsl.rls = 1)
    /\ stage = "run" /\ made = "fresh" => \A q \in asked : TimeAskedFor(q)

IInv == Remembered /\ Running

THEOREM Initially == Init => IInv
BY NoDslShaped DEF Init, IInv, Remembered, Running

\* A turn whose query was refused leaves nothing running.
LEMMA Idle == Unanswered => Running'
<1> SUFFICES ASSUME Unanswered PROVE Running'
  OBVIOUS
<1>1. dsl' = NoDsl /\ stage' = "idle"
  BY DEF Unanswered
<1>2. Shaped(dsl)' /\ Dated(dsl)'
  BY <1>1, NoDslShaped DEF Shaped, Dated, OnRefunds, HasWindow
<1> QED  BY <1>1, <1>2 DEF Running

\* What a guarded query of a turn must be like before the guard.
LEMMA GuardedRuns ==
    ASSUME UNCHANGED principal,
           NEW d, Shaped(d), NEW by, NEW how, NEW llm, Guarded(d, by, how, llm),
           llm \/ Dated(d),
           Filtered(principal) /\ how = "merged" => d.rls = 0,
           how = "fresh" => \A q \in by : TimeAskedFor(q)
    PROVE  Running'
<1>1. CASE ~(d # NoDsl /\ MayRead(d, principal))
  BY <1>1, Idle DEF Guarded
<1>2. CASE d # NoDsl /\ MayRead(d, principal)
  <2>1. PICK g : g = Guard(d, principal)
    OBVIOUS
  <2>2. dsl' = g /\ made' = how /\ asked' = by
    BY <1>2, <2>1 DEF Guarded, Submit
  <2>3. byLlm' = llm
    BY <1>2, <2>1, Zenon DEF Guarded, Submit
  <2>4. Shaped(g) /\ g.rls = IF Filtered(principal) THEN d.rls + 1 ELSE d.rls
    BY <2>1, GuardKeeps
  <2>5. Dated(d) => Dated(g)
    BY <2>1, GuardDated
  <2>6. Shaped(dsl')
    BY <2>2, <2>4
  <2>7. byLlm' \/ Dated(dsl')
    BY <2>2, <2>3, <2>5, Zenon
  <2>8. Filtered(principal) => dsl'.rls >= 1 /\ (made' = "merged" => dsl'.rls = 1)
    BY <2>2, <2>4 DEF Shaped
  <2>9. made' = "fresh" => \A q \in asked' : TimeAskedFor(q)
    BY <2>2
  <2> QED  BY <2>6, <2>7, <2>8, <2>9 DEF Running
<1> QED  BY <1>1, <1>2

-----------------------------------------------------------------------------
(* The steps                                                               *)

LEMMA Beginning ==
    ASSUME Remembered, NEW e, Begin(e)
    PROVE  Remembered'
<1>1. CASE Resets(e, last)
  <2>1. last' = NoDsl
    BY <1>1 DEF Begin, Begun
  <2> QED  BY <2>1, NoDslShaped DEF Remembered
<1>2. CASE ~Resets(e, last)
  <2>1. last' = last
    BY <1>2 DEF Begin, Begun
  <2>2. lastByLlm => lastByLlm'
    BY <1>2, Zenon DEF Begin
  <2> QED  BY <2>1, <2>2, Zenon DEF Remembered
<1> QED  BY <1>1, <1>2

\* The planner, which routes again what names a metric, asks for its time.
LEMMA PlannedTime ==
    ASSUME NEW e, Plans(e, FALSE)
    PROVE  TimeAskedFor(e)
<1> SUFFICES ASSUME e.words # {} PROVE e.says \intersect {"time", "all", "group"} # {}
  BY DEF TimeAskedFor
<1>1. Begun(e) = NoDsl
  BY DEF Begun, Resets, Topic
<1>2. RuleDecision(e, FALSE).intent = "data_query"
  BY <1>1 DEF Plans
<1>3. Clarifications(e) = {}
  BY <1>2 DEF RuleDecision, Decision
<1> QED  BY <1>3 DEF Clarifications

LEMMA FreshIs ==
    ASSUME NEW e, NEW llm \in BOOLEAN, NEW f \in Fresh(e, llm)
    PROVE  /\ Shaped(f.d) /\ f.llm \in BOOLEAN
           /\ f.llm \/ f.d = Parse(e)
           /\ f.llm \/ Dated(f.d)
<1>1. \/ f.d = Parse(e) /\ f.llm = FALSE
      \/ f.d \in LlmDsls /\ f.llm = TRUE
  BY DEF Fresh
<1> QED  BY <1>1, ParseIs, ParseDated, LlmShaped

LEMMA AloneTime ==
    ASSUME NEW e, NEW llm \in BOOLEAN, Plans(e, llm)
    PROVE  \A q \in Alone(e, llm) : TimeAskedFor(q)
<1>1. CASE llm
  BY <1>1 DEF Alone
<1>2. CASE ~llm
  BY <1>2, PlannedTime DEF Alone
<1> QED  BY <1>1, <1>2

LEMMA AskMetricKeeps ==
    ASSUME IInv, UNCHANGED principal, NEW e, NEW c, NEW llm \in BOOLEAN, AskMetric(e, c, llm)
    PROVE  IInv'
<1>1. Remembered'
  BY Beginning DEF AskMetric, Data, IInv
<1>2. Plans(e, llm)
  BY DEF AskMetric
<1>3. PICK f \in Fresh(e, llm) : Guarded(f.d, Alone(e, llm), "fresh", f.llm)
  BY DEF AskMetric
<1>4. PICK by : by = Alone(e, llm)
  OBVIOUS
<1>5. Running'
  BY <1>2, <1>3, <1>4, FreshIs, AloneTime, GuardedRuns
<1> QED  BY <1>1, <1>5 DEF IInv

LEMMA AskTrendKeeps ==
    ASSUME IInv, UNCHANGED principal, NEW e, NEW c, NEW llm \in BOOLEAN, AskTrend(e, c, llm)
    PROVE  IInv'
<1>1. Remembered'
  BY Beginning DEF AskTrend, Data, IInv
<1>2. Plans(e, llm)
  BY DEF AskTrend
<1>3. PICK f \in Fresh(e, llm), args \in PlannerArgs :
          IF f.d = NoDsl
          THEN IF Fallback(e) = NoDsl THEN Unanswered
               ELSE Guarded(NormalizeTrend(Fallback(e), e, args),
                            Alone(e, llm), "fresh", FALSE)
          ELSE IF ~MayRead(f.d, principal) THEN Unanswered
          ELSE Guarded(NormalizeTrend(Guard(f.d, principal), e, args),
                       Alone(e, llm), "fresh", f.llm)
  BY DEF AskTrend
<1>4. PICK by : by = Alone(e, llm)
  OBVIOUS
<1>5. \A q \in by : TimeAskedFor(q)
  BY <1>2, <1>4, AloneTime
<1>6. CASE f.d = NoDsl /\ Fallback(e) # NoDsl
  <2>1. PICK d : d = NormalizeTrend(Fallback(e), e, args)
    OBVIOUS
  <2>2. Shaped(d) /\ Dated(d)
    BY <2>1, FallbackIs, TrendNormal DEF Normal
  <2>3. Guarded(d, by, "fresh", FALSE)
    BY <1>3, <1>4, <1>6, <2>1
  <2> QED  BY <1>1, <1>5, <2>2, <2>3, GuardedRuns DEF IInv
<1>7. CASE f.d # NoDsl /\ MayRead(f.d, principal)
  <2>1. PICK g : g = Guard(f.d, principal)
    OBVIOUS
  <2>2. PICK d : d = NormalizeTrend(g, e, args)
    OBVIOUS
  <2>3. Shaped(g) /\ (f.llm \/ Dated(g))
    BY <2>1, FreshIs, GuardKeeps, GuardDated
  <2>4. Shaped(d) /\ (f.llm \/ Dated(d))
    BY <2>2, <2>3, TrendNormal DEF Normal
  <2>5. Guarded(d, by, "fresh", f.llm)
    BY <1>3, <1>4, <1>7, <2>1, <2>2
  <2> QED  BY <1>1, <1>5, <2>4, <2>5, GuardedRuns DEF IInv
<1>8. CASE Unanswered
  BY <1>1, <1>8, Idle DEF IInv
<1> QED  BY <1>3, <1>6, <1>7, <1>8

LEMMA FollowUpKeeps ==
    ASSUME IInv, UNCHANGED principal, NEW e, NEW c, FollowUp(e, c)
    PROVE  IInv'
<1>1. Remembered'
  BY Beginning DEF FollowUp, Data, IInv
<1>2. PICK base : base = Merge(e, last, principal)
  OBVIOUS
<1>3. /\ Shaped(base) /\ (lastByLlm \/ Dated(base))
      /\ Filtered(principal) => base.rls = 0
  BY <1>2, MergeKeeps DEF IInv, Remembered
<1>4. PICK llm : llm = lastByLlm
  OBVIOUS
<1>5. llm \/ Dated(base)
  BY <1>3, <1>4, Zenon
<1>6. CASE Guarded(base, {}, "merged", lastByLlm)
  <2>1. Guarded(base, {}, "merged", llm)
    BY <1>4, <1>6
  <2> QED  BY <1>1, <1>3, <1>5, <2>1, GuardedRuns DEF IInv
<1>7. ASSUME NEW args \in PlannerArgs,
             Guarded(NormalizeTrend(base, e, args), {}, "merged", lastByLlm)
      PROVE  IInv'
  <2>1. PICK d : d = NormalizeTrend(base, e, args)
    OBVIOUS
  <2>2. Normal(d, base)
    BY <1>3, <2>1, TrendNormal
  <2>3. Guarded(d, {}, "merged", llm)
    BY <1>4, <1>7, <2>1
  <2>4. Shaped(d) /\ (Dated(base) => Dated(d)) /\ d.rls = base.rls
    BY <2>2 DEF Normal
  <2>5. llm \/ Dated(d)
    BY <1>5, <2>4, Zenon
  <2> QED  BY <1>1, <1>3, <2>3, <2>4, <2>5, GuardedRuns DEF IInv
<1> QED  BY <1>2, <1>6, <1>7 DEF FollowUp

\* The turns without a query give up the last DSL or keep it.
LEMMA OtherTurnsKeep ==
    ASSUME IInv, UNCHANGED <<principal, turnVars>>,
           UNCHANGED sessionVars \/ (last' = NoDsl /\ lastByLlm' = FALSE) \/ \E e : Begin(e)
    PROVE  IInv'
<1>1. Remembered'
  <2>1. CASE UNCHANGED sessionVars
    BY <2>1 DEF sessionVars, Remembered, IInv
  <2>2. CASE last' = NoDsl
    BY <2>2, NoDslShaped DEF Remembered
  <2>3. CASE \E e : Begin(e)
    BY <2>3, Beginning DEF IInv
  <2> QED  BY <2>1, <2>2, <2>3
<1>2. Running'
  BY DEF IInv, Running, turnVars
<1> QED  BY <1>1, <1>2 DEF IInv

LEMMA TurnKeeps ==
    ASSUME IInv, NEW q \in Questions, NEW llm \in BOOLEAN, Turn(q, llm)
    PROVE  IInv'
<1>1. UNCHANGED principal
  BY DEF Turn
<1>2. PICK e, d :
          \/ Chat(d) \/ Clarify(q, e, d) \/ Explain(d) \/ Refuse(q, d)
          \/ SystemAction(q, e, d) \/ Reset(e, d) \/ AskBack(e, d, llm)
          \/ AskMetric(e, d, llm) \/ AskTrend(e, d, llm) \/ FollowUp(e, d)
  BY Zenon DEF Turn
<1>3. CASE Chat(d)
  BY <1>1, <1>3, OtherTurnsKeep DEF Chat
<1>4. CASE Clarify(q, e, d)
  BY <1>1, <1>4, OtherTurnsKeep DEF Clarify
<1>5. CASE Explain(d)
  BY <1>1, <1>5, OtherTurnsKeep DEF Explain
<1>6. CASE Refuse(q, d)
  BY <1>1, <1>6, OtherTurnsKeep DEF Refuse
<1>7. CASE SystemAction(q, e, d)
  BY <1>1, <1>7, OtherTurnsKeep DEF SystemAction
<1>8. CASE Reset(e, d)
  BY <1>1, <1>8, OtherTurnsKeep DEF Reset
<1>9. CASE AskBack(e, d, llm)
  BY <1>1, <1>9, OtherTurnsKeep DEF AskBack
<1>10. CASE AskMetric(e, d, llm)
  BY <1>1, <1>10, AskMetricKeeps
<1>11. CASE AskTrend(e, d, llm)
  BY <1>1, <1>11, AskTrendKeeps
<1>12. CASE FollowUp(e, d)
  BY <1>1, <1>12, FollowUpKeeps
<1> QED  BY <1>2, <1>3, <1>4, <1>5, <1>6, <1>7, <1>8, <1>9, <1>10, <1>11, <1>12

LEMMA SucceedKeeps == IInv /\ Succeed => IInv'
<1> SUFFICES ASSUME IInv, Succeed PROVE IInv'
  OBVIOUS
<1>1. Running'
  BY Idle DEF Succeed
<1>2. last' = dsl /\ (byLlm => lastByLlm')
  BY DEF Succeed
<1>3. Shaped(dsl) /\ (byLlm \/ Dated(dsl))
  BY DEF IInv, Running
<1>4. Remembered'
  BY <1>2, <1>3, Zenon DEF Remembered
<1> QED  BY <1>1, <1>4 DEF IInv

LEMMA RewriteKeeps == IInv /\ Rewrite => IInv'
<1> SUFFICES ASSUME IInv, Rewrite PROVE IInv'
  OBVIOUS
<1>1. PICK d \in LlmDsls, copied \in 0 .. dsl.rls :
          dsl' = Guard([d EXCEPT !.rls = copied], principal)
  BY DEF Rewrite
<1>2. copied \in Nat
  BY <1>1 DEF IInv, Running, Shaped
<1>3. PICK c : c = [d EXCEPT !.rls = copied]
  OBVIOUS
<1>4. Shaped(c) /\ c.rls = copied
  BY <1>2, <1>3, LlmShaped, Shaping
<1>5. Shaped(dsl') /\ (Filtered(principal) => dsl'.rls >= 1)
  <2>1. dsl' = Guard(c, principal)
    BY <1>1, <1>3, Zenon
  <2>2. PICK g : g = Guard(c, principal)
    OBVIOUS
  <2>3. Shaped(g) /\ (Filtered(principal) => g.rls = copied + 1)
    BY <1>4, <2>2, GuardKeeps
  <2>4. copied + 1 >= 1
    BY <1>2
  <2> QED  BY <2>1, <2>2, <2>3, <2>4
<1>6. Running'
  BY <1>5 DEF Rewrite, Running
<1>7. Remembered'
  BY DEF Rewrite, sessionVars, IInv, Remembered
<1> QED  BY <1>6, <1>7 DEF IInv

THEOREM Invariance == Spec => []IInv
<1>1. IInv /\ [Next]_vars => IInv'
  <2> SUFFICES ASSUME IInv, [Next]_vars PROVE IInv'
    OBVIOUS
  <2>1. ASSUME NEW q \in Questions, NEW llm \in BOOLEAN, Turn(q, llm) PROVE IInv'
    BY <2>1, TurnKeeps
  <2>2. CASE Succeed
    BY <2>2, SucceedKeeps
  <2>3. CASE Rewrite
    BY <2>3, RewriteKeeps
  <2>4. CASE Fail
    <3>1. Running'
      BY <2>4, Idle DEF Fail
    <3>2. Remembered'
      BY <2>4 DEF Fail, sessionVars, IInv, Remembered
    <3> QED  BY <3>1, <3>2 DEF IInv
  <2>5. CASE Forget
    BY <2>5, OtherTurnsKeep DEF Forget
  <2>6. CASE UNCHANGED vars
    BY <2>6 DEF vars, sessionVars, turnVars, IInv, Remembered, Running
  <2> QED  BY <2>1, <2>2, <2>3, <2>4, <2>5, <2>6 DEF Next
<1> QED  BY <1>1, Initially, PTL DEF Spec

\* Every query of a principal with a row filter carries it, after a merge exactly
\* once, whatever turns and rewrites came before (apply_policy and
\* strip_rls_filters of src/security/guard.py).
THEOREM FilterOnce == Spec => []RowFilterOnce
<1>1. IInv => RowFilterOnce
  BY DEF IInv, Running, RowFilterOnce
<1> QED  BY <1>1, Invariance, PTL

\* The engine finds the table of every alias and every name to sort by in a
\* query that only the rules had a hand in and that compiles
\* (src/compiler/sql_compiler.py).
THEOREM NamesResolve == Spec => []EngineResolves
<1>1. IInv => EngineResolves
  BY DatedResolves DEF IInv, Running, EngineResolves
<1> QED  BY <1>1, Invariance, PTL

\* Without an LLM no query over the whole history is run for a question that
\* names a metric and says nothing of the time (src/agent/clarify.py).
THEOREM HistoryAsked == Spec => []HistoryIsAskedFor
<1>1. IInv => HistoryIsAskedFor
  BY DEF IInv, Running, HistoryIsAskedFor, TimeAskedFor
<1> QED  BY <1>1, Invariance, PTL

-----------------------------------------------------------------------------
(* Questions and their answers                                             *)

LEMMA EitherIs == ASSUME NEW x, NEW y PROVE Either(x, y) \subseteq {x, y}
BY DEF Either

\* An answer and its question make a question, with the marks of both.
LEMMA JoinedIs ==
    ASSUME NEW q \in Question, NEW a \in Question, NEW e \in Joined(q, a)
    PROVE  /\ e \in Question
           /\ e.words = q.words \union a.words /\ e.groups = q.groups \union a.groups
           /\ e.about = q.about \union a.about
           /\ e.says = (q.says \union a.says) \ {"greeting"}
           /\ e.win \in Either(q.win, a.win) /\ e.by \in Either(q.by, a.by)
           /\ e.fill \in Either(q.fill, a.fill) /\ e.cmp \in Either(q.cmp, a.cmp)
           /\ e.time \in Either(q.time, a.time) /\ e.top \in Either(q.top, a.top)
           /\ e.count \in Either(q.count, a.count) /\ e.place \in Either(q.place, a.place)
           /\ e.paid \in Either(q.paid, a.paid) /\ e.expand \in Either(q.expand, a.expand)
           /\ e.cat = (q.cat \/ a.cat) /\ e.list = (q.list \/ a.list)
           /\ e.amount = (q.amount \/ a.amount) /\ e.enum = (q.enum \/ a.enum)
           /\ e.extreme = (q.extreme \/ a.extreme) /\ e.spread = (q.spread \/ a.spread)
           /\ e.only = (q.only \/ a.only) /\ e.undefined = (q.undefined \/ a.undefined)
<1>1. /\ e.words = q.words \union a.words /\ e.groups = q.groups \union a.groups
      /\ e.about = q.about \union a.about
      /\ e.says = (q.says \union a.says) \ {"greeting"}
  BY DEF Joined
<1>2. /\ e.win \in Either(q.win, a.win) /\ e.by \in Either(q.by, a.by)
      /\ e.fill \in Either(q.fill, a.fill) /\ e.cmp \in Either(q.cmp, a.cmp)
      /\ e.time \in Either(q.time, a.time) /\ e.top \in Either(q.top, a.top)
      /\ e.count \in Either(q.count, a.count) /\ e.place \in Either(q.place, a.place)
      /\ e.paid \in Either(q.paid, a.paid) /\ e.expand \in Either(q.expand, a.expand)
  BY DEF Joined
<1>3. /\ e.cat = (q.cat \/ a.cat) /\ e.list = (q.list \/ a.list)
      /\ e.amount = (q.amount \/ a.amount) /\ e.enum = (q.enum \/ a.enum)
      /\ e.extreme = (q.extreme \/ a.extreme) /\ e.spread = (q.spread \/ a.spread)
      /\ e.only = (q.only \/ a.only) /\ e.undefined = (q.undefined \/ a.undefined)
  BY DEF Joined
<1>4. e = [words |-> e.words, win |-> e.win, by |-> e.by, fill |-> e.fill, cmp |-> e.cmp,
           time |-> e.time, groups |-> e.groups, top |-> e.top, about |-> e.about,
           count |-> e.count, place |-> e.place, cat |-> e.cat, paid |-> e.paid,
           list |-> e.list, amount |-> e.amount, enum |-> e.enum, extreme |-> e.extreme,
           spread |-> e.spread, expand |-> e.expand, only |-> e.only,
           undefined |-> e.undefined, says |-> e.says]
  BY DEF Joined
<1>5. e.words \in SUBSET Words /\ e.says \in SUBSET Marks
      /\ e.groups \in SUBSET {"category", "brand", "product_name", "shop_name",
                               "province", "pay_status"}
      /\ e.about \in SUBSET {"province", "user_id", "gender"}
  BY <1>1 DEF Question
<1>6. /\ e.win \in {"none", "ma", "cum"}
      /\ e.by \in {"none", "day", "trend", "week", "month"}
      /\ e.fill \in {"none", "zero", "whole"} /\ e.cmp \in Comparison
      /\ e.time \in {"none"} \union DOMAIN PhraseGran
      /\ e.top \in {"none", "province", "brand", "category"}
      /\ e.count \in {"none", "order", "user", "product", "bare"}
      /\ e.place \in {"none", "one", "two", "region"}
      /\ e.paid \in {"none", "success", "failed"} /\ e.expand \in Fields \union {"none"}
  BY <1>2, EitherIs DEF Question
<1>7. /\ e.cat \in BOOLEAN /\ e.list \in BOOLEAN /\ e.amount \in BOOLEAN
      /\ e.enum \in BOOLEAN /\ e.extreme \in BOOLEAN /\ e.spread \in BOOLEAN
      /\ e.only \in BOOLEAN /\ e.undefined \in BOOLEAN
  BY <1>3
<1>8. e \in Question
  BY <1>4, <1>5, <1>6, <1>7 DEF Question
<1> QED  BY <1>1, <1>2, <1>3, <1>8

LEMMA EitherNone == ASSUME NEW x, NEW e \in Either(x, "none") PROVE e = x
BY DEF Either

LEMMA EitherSome == ASSUME NEW x, NEW y, y # "none", NEW e \in Either(x, y)
                    PROVE e # "none"
BY DEF Either

\* A question with a time is the question itself in all that its metrics,
\* dimensions and filters are made of.
SameBut(e, p) ==
    /\ e.words = p.words /\ e.groups = p.groups /\ e.about = p.about
    /\ e.win = p.win /\ e.by = p.by /\ e.fill = p.fill /\ e.top = p.top
    /\ e.count = p.count /\ e.place = p.place /\ e.paid = p.paid /\ e.cat = p.cat
    /\ e.list = p.list /\ e.amount = p.amount /\ e.enum = p.enum
    /\ e.undefined = p.undefined

LEMMA AnsweredIs ==
    ASSUME NEW p \in Question, NEW a \in Question, OnlyTime(a), NEW e \in Joined(p, a)
    PROVE  /\ SameBut(e, p) /\ e.time # "none"
           /\ e.says = (p.says \union {"time"}) \ {"greeting"}
<1>1. /\ a.words = {} /\ a.groups = {} /\ a.about = {} /\ a.says = {"time"}
      /\ a.win = "none" /\ a.by = "none" /\ a.fill = "none" /\ a.top = "none"
      /\ a.count = "none" /\ a.place = "none" /\ a.paid = "none" /\ a.time # "none"
  BY DEF OnlyTime, Silent
<1>2. /\ a.cat = FALSE /\ a.list = FALSE /\ a.amount = FALSE /\ a.enum = FALSE
      /\ a.undefined = FALSE
  BY DEF OnlyTime, Silent
<1>3. /\ e.win = p.win /\ e.by = p.by /\ e.fill = p.fill /\ e.top = p.top
      /\ e.count = p.count /\ e.place = p.place /\ e.paid = p.paid
  BY <1>1, JoinedIs, EitherNone
<1>4. e.time # "none"
  BY <1>1, JoinedIs, EitherSome
<1>5. /\ p.cat \in BOOLEAN /\ p.list \in BOOLEAN /\ p.amount \in BOOLEAN
      /\ p.enum \in BOOLEAN /\ p.undefined \in BOOLEAN
  BY DEF Question
<1>6. /\ e.cat = (p.cat \/ a.cat) /\ e.list = (p.list \/ a.list)
      /\ e.amount = (p.amount \/ a.amount) /\ e.enum = (p.enum \/ a.enum)
      /\ e.undefined = (p.undefined \/ a.undefined)
  BY JoinedIs
<1>7. /\ e.cat = p.cat /\ e.list = p.list /\ e.amount = p.amount /\ e.enum = p.enum
      /\ e.undefined = p.undefined
  BY <1>2, <1>5, <1>6
<1>8. /\ e.words = p.words /\ e.groups = p.groups /\ e.about = p.about
      /\ e.says = (p.says \union {"time"}) \ {"greeting"}
  <2>1. /\ e.words = p.words \union {} /\ e.groups = p.groups \union {}
        /\ e.about = p.about \union {}
        /\ e.says = (p.says \union {"time"}) \ {"greeting"}
    <3>1. /\ e.words = p.words \union a.words /\ e.groups = p.groups \union a.groups
          /\ e.about = p.about \union a.about
          /\ e.says = (p.says \union a.says) \ {"greeting"}
      BY JoinedIs
    <3> QED  BY <1>1, <3>1, Zenon
  <2> QED  BY <2>1
<1> QED  BY <1>3, <1>4, <1>7, <1>8 DEF SameBut

LEMMA SameReading ==
    ASSUME NEW p, NEW e, SameBut(e, p)
    PROVE  Metrics(e) = Metrics(p) /\ GroupBy(e) = GroupBy(p) /\ FiltersOf(e) = FiltersOf(p)
<1>1. ProbeField(e) = ProbeField(p)
  <2> DEFINE said(q) == q.groups \union q.about \union
                          (IF "active_users" \in q.words \/ q.count = "user"
                           THEN {"user_id"} ELSE {})
             hits(q) == {i \in DOMAIN Probed : Probed[i] \in said(q)}
             first(h) == IF h = {} THEN "none"
                         ELSE Probed[CHOOSE i \in h : \A j \in h : i <= j]
  <2>1. ProbeField(e) = first(hits(e))
    BY DEF ProbeField
  <2>2. ProbeField(p) = first(hits(p))
    BY DEF ProbeField
  <2>3. hits(e) = hits(p)
    BY DEF SameBut
  <2> HIDE DEF hits, first
  <2> QED  BY <2>1, <2>2, <2>3
<1>2. ProbeMetric(e) = ProbeMetric(p) /\ CountEntity(e) = CountEntity(p)
  BY <1>1, Zenon DEF SameBut, ProbeMetric, CountEntity
<1>3. WindowMetric(e) = WindowMetric(p)
  BY Zenon DEF SameBut, WindowMetric
<1>4. Metrics(e) = Metrics(p)
  BY <1>2, <1>3, Zenon DEF SameBut, Metrics
<1>5. TimeDimField(e) = TimeDimField(p) /\ Series(e) = Series(p)
  BY DEF SameBut, TimeDimField, Series
<1>6. Dimensions(e) = Dimensions(p)
  BY <1>5 DEF SameBut, Dimensions
<1>7. Top(e).by = Top(p).by
  BY DEF SameBut, Top, NoTop
<1>8. CountsProbe(e) = CountsProbe(p)
  BY <1>1, <1>4, Zenon DEF CountsProbe
<1>9. GroupBy(e) = GroupBy(p)
  BY <1>1, <1>6, <1>7, <1>8 DEF SameBut, GroupBy
<1>10. FiltersOf(e) = FiltersOf(p)
  BY Zenon DEF SameBut, FiltersOf
<1> QED  BY <1>4, <1>9, <1>10

-----------------------------------------------------------------------------
(* Open clarifications                                                     *)

\* At most one question is open, one that no command or greeting is taken for,
\* and what it lacks is what the clarification asked for.
Open(x) ==
    /\ \A p \in x.asked :
          p \in Question /\ FastPath(p) = "none" /\ x.kinds = Clarifications(p)
    /\ \A p, r \in x.asked : p = r

\* What the rules, or an LLM, ask back.
Reasons(e) == {{}, Clarifications(e), {"insufficient_info"}}

LEMMA NothingOpen == Open(NoPending)
BY DEF Open, NoPending

LEMMA AskingOpens ==
    ASSUME NEW e \in Question, FastPath(e) = "none", NEW kinds \in Reasons(e), NEW fills
    PROVE  Open(Asking(e, kinds, fills)) /\ Open([Asking(e, kinds, fills) EXCEPT !.asked = {}])
<1>1. CASE kinds \intersect Fillable = {}
  <2>1. Asking(e, kinds, fills) = NoPending
    BY <1>1 DEF Asking
  <2>2. [NoPending EXCEPT !.asked = {}].asked = {}
    BY DEF NoPending
  <2> QED  BY <2>1, <2>2, NothingOpen DEF Open
<1>2. CASE kinds \intersect Fillable # {}
  <2>1. kinds = Clarifications(e)
    BY <1>2 DEF Reasons, Fillable
  <2>2. PICK x : x = [asked |-> {e}, kinds |-> kinds, fills |-> fills]
    OBVIOUS
  <2>3. Asking(e, kinds, fills) = x
    BY <1>2, <2>2 DEF Asking
  <2>4. x.asked = {e} /\ x.kinds = kinds /\ [x EXCEPT !.asked = {}].asked = {}
    BY <2>2
  <2>5. Open(x)
    BY <2>1, <2>4 DEF Open
  <2>6. Open([x EXCEPT !.asked = {}])
    BY <2>4 DEF Open
  <2> QED  BY <2>3, <2>5, <2>6
<1> QED  BY <1>1, <1>2

LEMMA RuleReasons == ASSUME NEW e, NEW inherits PROVE RuleDecision(e, inherits).kinds \in Reasons(e)
BY DEF RuleDecision, Decision, Reasons

LEMMA RouteReasons ==
    ASSUME NEW e, NEW inherits, NEW llm, NEW d \in Route(e, inherits, llm),
           d.intent \in {"clarify", "data_query"}
    PROVE  FastPath(e) = "none" /\ d.kinds \in Reasons(e)
<1>1. FastPath(e) = "none"
  BY DEF Route, FastPath, Decision
<1>2. d = RuleDecision(e, inherits) \/ d.kinds \in {{}, Clarifications(e)}
  BY <1>1 DEF Route, Decision
<1> QED  BY <1>1, <1>2, RuleReasons DEF Reasons

LEMMA EffectiveIs ==
    ASSUME Open(pending), NEW q \in Questions, NEW e \in Effective(q)
    PROVE  e \in Question
<1>1. q \in Question
  BY QuestionsAssumption
<1>2. CASE Fills(pending, q)
  <2>1. PICK p \in pending.asked : e \in Joined(p, q)
    BY <1>2 DEF Effective
  <2>2. p \in Question
    BY DEF Open
  <2> QED  BY <1>1, <2>1, <2>2, JoinedIs
<1>3. CASE ~Fills(pending, q)
  BY <1>1, <1>3 DEF Effective
<1> QED  BY <1>2, <1>3

LEMMA TurnLeavesOpen ==
    ASSUME Open(pending), NEW q \in Questions, NEW llm \in BOOLEAN, Turn(q, llm)
    PROVE  Open(pending')
<1>0. PICK e \in Effective(q) : \E d \in Route(e, last # NoDsl, llm) :
          \/ Chat(d) \/ Clarify(q, e, d) \/ Explain(d) \/ Refuse(q, d)
          \/ SystemAction(q, e, d) \/ Reset(e, d) \/ AskBack(e, d, llm)
          \/ AskMetric(e, d, llm) \/ AskTrend(e, d, llm) \/ FollowUp(e, d)
  BY Zenon DEF Turn
<1>1. PICK d \in Route(e, last # NoDsl, llm) :
          \/ Chat(d) \/ Clarify(q, e, d) \/ Explain(d) \/ Refuse(q, d)
          \/ SystemAction(q, e, d) \/ Reset(e, d) \/ AskBack(e, d, llm)
          \/ AskMetric(e, d, llm) \/ AskTrend(e, d, llm) \/ FollowUp(e, d)
  BY <1>0
<1>2. e \in Question
  BY EffectiveIs
<1>3. d.intent \in {"clarify", "data_query"} =>
          FastPath(e) = "none" /\ d.kinds \in Reasons(e)
  BY RouteReasons
<1>4. Open(Kept(q))
  BY NothingOpen DEF Kept
<1>5. CASE pending' = NoPending
  BY <1>5, NothingOpen
<1>6. CASE Clarify(q, e, d)
  <2>1. PICK fills : fills = IF Fills(pending, q) THEN pending.fills + 1 ELSE 0
    OBVIOUS
  <2>2. /\ d.intent = "clarify"
        /\ pending' \in {Kept(q), Asking(e, d.kinds, fills),
                         [Asking(e, d.kinds, fills) EXCEPT !.asked = {}]}
    BY <1>6, <2>1, Zenon DEF Clarify
  <2>3. PICK kinds : kinds = d.kinds
    OBVIOUS
  <2>4. kinds \in Reasons(e) /\ FastPath(e) = "none"
    BY <1>3, <2>2, <2>3
  <2>5. Open(Asking(e, kinds, fills)) /\ Open([Asking(e, kinds, fills) EXCEPT !.asked = {}])
    BY <1>2, <2>4, AskingOpens
  <2> QED  BY <1>4, <2>2, <2>3, <2>5
<1>7. CASE Refuse(q, d) \/ SystemAction(q, e, d)
  BY <1>4, <1>7 DEF Refuse, SystemAction
<1>8. CASE AskBack(e, d, llm)
  <2>1. PICK kinds : kinds = RuleDecision(e, Begun(e) # NoDsl).kinds
    OBVIOUS
  <2>2. d.intent = "data_query" /\ pending' \in {NoPending, Asking(e, kinds, 0)}
    BY <1>8, <2>1 DEF AskBack
  <2>3. kinds \in Reasons(e) /\ FastPath(e) = "none"
    BY <1>3, <2>1, <2>2, RuleReasons
  <2> QED  BY <1>2, <2>2, <2>3, AskingOpens, NothingOpen
<1> QED  BY <1>1, <1>5, <1>6, <1>7, <1>8
         DEF Chat, Explain, Reset, AskMetric, AskTrend, FollowUp, Data

LEMMA PendingIsOpen == Spec => []Open(pending)
<1>1. Init => Open(pending)
  BY NothingOpen DEF Init
<1>2. Open(pending) /\ [Next]_vars => Open(pending)'
  <2> SUFFICES ASSUME Open(pending), [Next]_vars PROVE Open(pending')
    BY DEF Open
  <2>1. ASSUME NEW q \in Questions, NEW llm \in BOOLEAN, Turn(q, llm) PROVE Open(pending')
    BY <2>1, TurnLeavesOpen
  <2>2. CASE Succeed \/ Rewrite \/ Fail \/ UNCHANGED vars
    BY <2>2 DEF Succeed, Rewrite, Fail, vars
  <2>3. CASE Forget
    BY <2>3, NothingOpen DEF Forget
  <2> QED  BY <2>1, <2>2, <2>3 DEF Next
<1> QED  BY <1>1, <1>2, PTL DEF Spec

-----------------------------------------------------------------------------
(* The answer that completes a question                                    *)

\* The answer e of a question p that lacks its time is a data question to each
\* layer, unless p is one of a definition or small talk.
Completes(e, p) ==
    /\ SameBut(e, p) /\ e.time # "none"
    /\ e.says = (p.says \union {"time"}) \ {"greeting"}
    /\ FastPath(p) = "none" /\ "missing_time_window" \in Clarifications(p)
    /\ RuleDecision(p, FALSE).intent \notin {"glossary_explain", "chitchat"}

LEMMA CompletedIsData ==
    ASSUME NEW e, NEW p, Completes(e, p), NEW inherits
    PROVE  /\ RuleDecision(e, inherits) = Decision("data_query", {})
           /\ Route(e, inherits, FALSE) = {Decision("data_query", {})}
           /\ e.words # {} /\ ~e.undefined
<1>1. ~p.undefined /\ p.words # {}
  BY DEF Completes, Clarifications
<1>2. ~e.undefined /\ e.words # {}
  BY <1>1 DEF Completes, SameBut
<1>3. "glossary" \notin p.says /\ "chat" \notin p.says
  BY DEF Completes, RuleDecision, Decision
<1>4. "system" \notin p.says /\ "unsafe" \notin p.says
  BY DEF Completes, FastPath
<1>5. /\ "glossary" \notin e.says /\ "chat" \notin e.says /\ "greeting" \notin e.says
      /\ "system" \notin e.says /\ "unsafe" \notin e.says /\ "time" \in e.says
  BY <1>3, <1>4 DEF Completes
<1>6. Clarifications(e) = {}
  BY <1>2, <1>5 DEF Clarifications
<1>7. LooksData(e)
  BY <1>5 DEF LooksData
<1>8. FastPath(e) = "none"
  BY <1>5 DEF FastPath
<1>9. RuleDecision(e, inherits) = Decision("data_query", {})
  BY <1>5, <1>6, <1>7 DEF RuleDecision
<1> QED  BY <1>2, <1>8, <1>9 DEF Route

\* What is parsed of it: the question's query, over the answer's time.
LEMMA CompletedIsParsed ==
    ASSUME NEW e, NEW p, Completes(e, p)
    PROVE  /\ Parse(e) # NoDsl /\ Parse(e).metrics = Metrics(p)
           /\ Parse(e).time.field # "none"
           /\ Referenced(Parse(e)) = Referenced(Parse(p))
<1>1. /\ e.words # {} /\ ~e.undefined /\ p.words # {} /\ ~p.undefined
  BY CompletedIsData DEF Completes, SameBut
<1>2. ASSUME NEW q, q.words # {}, ~q.undefined
      PROVE  /\ Parse(q) # NoDsl /\ Parse(q).metrics = Metrics(q)
             /\ Parse(q).dims = GroupBy(q) /\ Parse(q).filters = FiltersOf(q)
             /\ Parse(q).time = TimeFilterOf(q) /\ Parse(q).rls = 0
  <2>1. Metrics(q) # {}
    BY <1>2 DEF Metrics
  <2>2. PICK dims, time, filters, order, fill, top :
            /\ dims = GroupBy(q) /\ time = TimeFilterOf(q) /\ filters = FiltersOf(q)
            /\ order = OrderBy(q) /\ fill = (q.fill # "none") /\ top = Top(q)
    OBVIOUS
  <2>3. PICK d : d = [NoDsl EXCEPT !.metrics = Metrics(q), !.dims = dims, !.time = time,
                                   !.filters = filters, !.order = order, !.fill = fill,
                                   !.top = top]
    OBVIOUS
  <2>4. Parse(q) = Validated(d)
    BY <1>2, <2>1, <2>2, <2>3, Zenon DEF Parse
  <2>5. Validated(d).metrics = Metrics(q)
    BY <2>3 DEF Validated, NoDsl
  <2>6. NoDsl.metrics = {}
    BY DEF NoDsl
  <2> QED  BY <2>1, <2>4, <2>5, <2>6, ParseIs
<1>3. Metrics(e) = Metrics(p) /\ GroupBy(e) = GroupBy(p) /\ FiltersOf(e) = FiltersOf(p)
  BY SameReading DEF Completes
<1>4. TimeFilterOf(e).field # "none"
  BY DEF TimeFilterOf, TimeOf, Completes, TimeDimField
<1>5. /\ Parse(e) # NoDsl /\ Parse(e).metrics = Parse(p).metrics
      /\ Parse(e).dims = Parse(p).dims /\ Parse(e).filters = Parse(p).filters
      /\ Parse(e).rls = Parse(p).rls /\ Parse(e).time.field # "none"
      /\ Parse(e).metrics = Metrics(p)
  BY <1>1, <1>2, <1>3, <1>4
<1>6. Referenced(Parse(e)) = Referenced(Parse(p))
  BY <1>5, Zenon DEF Referenced
<1> QED  BY <1>5, <1>6

\* The policies leave the province and the time of an order to everyone: a query
\* stays readable when it is guarded and normalised.
LEMMA StaysReadable ==
    ASSUME NEW p, NEW d, MayRead(d, p), NEW x, x.metrics = d.metrics, x.filters = d.filters,
           x.dims \subseteq d.dims \union {"order_time"}
    PROVE  MayRead(x, p)
<1>1. "order_time" \notin Forbidden(p) /\ "province" \notin Forbidden(p)
  BY DEF Forbidden, Columns
<1>2. Referenced(x) \subseteq Referenced(d) \union {"order_time", "province"}
  BY DEF Referenced
<1> QED  BY <1>1, <1>2 DEF MayRead

LEMMA Submitted ==
    ASSUME NEW d, Shaped(d), d.metrics # {}, d.time # NoTime, MayRead(d, principal),
           NEW by, NEW how, NEW llm, Guarded(d, by, how, llm)
    PROVE  stage' = "run" /\ dsl'.metrics = d.metrics /\ dsl'.time # NoTime
<1>1. d # NoDsl
  BY DEF NoDsl
<1>2. dsl' = Guard(d, principal) /\ stage' = "run"
  BY <1>1 DEF Guarded, Submit
<1> QED  BY <1>2, GuardKeeps

LEMMA CompletedRuns ==
    ASSUME NEW e, NEW p, Completes(e, p), NEW d \in Route(e, last # NoDsl, FALSE),
           NEW q, \/ Chat(d) \/ Clarify(q, e, d) \/ Explain(d) \/ Refuse(q, d)
                  \/ SystemAction(q, e, d) \/ Reset(e, d) \/ AskBack(e, d, FALSE)
                  \/ AskMetric(e, d, FALSE) \/ AskTrend(e, d, FALSE) \/ FollowUp(e, d)
    PROVE  \/ stage' = "run" /\ dsl'.metrics = Metrics(p) /\ dsl'.time # NoTime
           \/ stage' = "idle" /\ ~MayRead(Parse(p), principal)
<1>1. d.intent = "data_query"
  <2>1. PICK i : i = (last # NoDsl)
    OBVIOUS
  <2>2. PICK c : c = Decision("data_query", {})
    OBVIOUS
  <2>3. Route(e, i, FALSE) = {c}
    BY <2>2, CompletedIsData
  <2>4. d \in Route(e, i, FALSE)
    BY <2>1, Zenon
  <2>5. c.intent = "data_query"
    BY <2>2 DEF Decision
  <2> QED  BY <2>3, <2>4, <2>5
<1>2. Plans(e, FALSE)
  <2>1. PICK i : i = (Begun(e) # NoDsl)
    OBVIOUS
  <2>2. RuleDecision(e, i) = Decision("data_query", {})
    BY CompletedIsData
  <2>3. RuleDecision(e, i).intent = "data_query"
    BY <2>2 DEF Decision
  <2> QED  BY <2>1, <2>3, Zenon DEF Plans
<1>3. ~Follows(e, last)
  BY CompletedIsData DEF Follows, Topic
<1>4. PICK f : f = Parse(e)
  OBVIOUS
<1>5. /\ Shaped(f) /\ f # NoDsl /\ f.metrics = Metrics(p) /\ f.time.field # "none"
      /\ Referenced(f) = Referenced(Parse(p))
  BY <1>4, ParseIs, CompletedIsParsed
<1>6. MayRead(f, principal) <=> MayRead(Parse(p), principal)
  BY <1>5 DEF MayRead
<1>7. f.time # NoTime /\ f.metrics # {}
  <2>1. p.words # {}
    BY CompletedIsData DEF Completes, SameBut
  <2> QED  BY <1>5, <2>1 DEF NoTime, Metrics
<1>8. AskMetric(e, d, FALSE) \/ AskTrend(e, d, FALSE)
  BY <1>1, <1>2, <1>3
     DEF Chat, Clarify, Explain, Refuse, SystemAction, Reset, AskBack, FollowUp
<1>9. ASSUME NEW g \in Fresh(e, FALSE) PROVE g.d = f /\ g.llm = FALSE
  BY <1>4, <1>9 DEF Fresh
<1>10. CASE Unanswered /\ ~MayRead(f, principal)
  BY <1>6, <1>10 DEF Unanswered
<1>11. CASE AskMetric(e, d, FALSE)
  <2>1. PICK g \in Fresh(e, FALSE) : Guarded(g.d, Alone(e, FALSE), "fresh", g.llm)
    BY <1>11 DEF AskMetric
  <2>2. PICK by : by = Alone(e, FALSE)
    OBVIOUS
  <2>3. Guarded(f, by, "fresh", FALSE)
    BY <1>9, <2>1, <2>2
  <2>4. CASE MayRead(f, principal)
    BY <1>5, <1>7, <2>3, <2>4, Submitted
  <2>5. CASE ~MayRead(f, principal)
    BY <1>10, <2>3, <2>5 DEF Guarded
  <2> QED  BY <2>4, <2>5
<1>12. CASE AskTrend(e, d, FALSE)
  <2>1. PICK g \in Fresh(e, FALSE), args \in PlannerArgs :
            IF g.d = NoDsl
            THEN IF Fallback(e) = NoDsl THEN Unanswered
                 ELSE Guarded(NormalizeTrend(Fallback(e), e, args),
                              Alone(e, FALSE), "fresh", FALSE)
            ELSE IF ~MayRead(g.d, principal) THEN Unanswered
            ELSE Guarded(NormalizeTrend(Guard(g.d, principal), e, args),
                         Alone(e, FALSE), "fresh", g.llm)
    BY <1>12 DEF AskTrend
  <2>2. PICK by, y, n : /\ by = Alone(e, FALSE) /\ y = Guard(f, principal)
                        /\ n = NormalizeTrend(y, e, args)
    OBVIOUS
  <2>3. CASE ~MayRead(f, principal)
    BY <1>5, <1>9, <1>10, <2>1, <2>3
  <2>4. CASE MayRead(f, principal)
    <3>1. Guarded(n, by, "fresh", FALSE)
      BY <1>5, <1>9, <2>1, <2>2, <2>4
    <3>2. /\ Shaped(y) /\ y.metrics = f.metrics /\ y.dims = f.dims
          /\ y.time = f.time /\ y.filters = f.filters
      BY <1>5, <2>2, GuardKeeps
    <3>3. Normal(n, y)
      BY <2>2, <3>2, TrendNormal
    <3>4. Shaped(n) /\ n.metrics = f.metrics /\ n.time # NoTime
      BY <1>5, <3>2, <3>3 DEF Normal, NoTime
    <3>5. MayRead(n, principal)
      BY <2>4, <3>2, <3>3, StaysReadable DEF Normal
    <3> QED  BY <1>5, <1>7, <3>1, <3>4, <3>5, Submitted
  <2> QED  BY <2>3, <2>4
<1> QED  BY <1>8, <1>11, <1>12

\* The answer to a clarification of the time leads to the query that was asked
\* for, over that time, or to a refusal: no layer takes question and answer for
\* something else or asks again (attempt_fill of src/agent/slotfill.py, the router
\* and the rules).
THEOREM AnswersUsed == Spec => AnswerIsUsed
<1>1. Open(pending) =>
         [\A a \in Questions :
             OnlyTime(a) /\ "missing_time_window" \in pending.kinds /\ Turn(a, FALSE) =>
                \A p \in pending.asked :
                   \/ stage' = "run" /\ dsl'.metrics = Metrics(p) /\ dsl'.time # NoTime
                   \/ stage' = "idle" /\ ~MayRead(Parse(p), principal)
                   \/ RuleDecision(p, FALSE).intent \in {"glossary_explain", "chitchat"}]_vars
  <2> SUFFICES ASSUME Open(pending), NEW a \in Questions, OnlyTime(a),
                      "missing_time_window" \in pending.kinds, Turn(a, FALSE),
                      NEW p \in pending.asked,
                      RuleDecision(p, FALSE).intent \notin {"glossary_explain", "chitchat"}
               PROVE  \/ stage' = "run" /\ dsl'.metrics = Metrics(p) /\ dsl'.time # NoTime
                      \/ stage' = "idle" /\ ~MayRead(Parse(p), principal)
    OBVIOUS
  <2>1. PICK e \in Effective(a) : \E d \in Route(e, last # NoDsl, FALSE) :
            \/ Chat(d) \/ Clarify(a, e, d) \/ Explain(d) \/ Refuse(a, d)
            \/ SystemAction(a, e, d) \/ Reset(e, d) \/ AskBack(e, d, FALSE)
            \/ AskMetric(e, d, FALSE) \/ AskTrend(e, d, FALSE) \/ FollowUp(e, d)
    BY Zenon DEF Turn
  <2>2. PICK d \in Route(e, last # NoDsl, FALSE) :
            \/ Chat(d) \/ Clarify(a, e, d) \/ Explain(d) \/ Refuse(a, d)
            \/ SystemAction(a, e, d) \/ Reset(e, d) \/ AskBack(e, d, FALSE)
            \/ AskMetric(e, d, FALSE) \/ AskTrend(e, d, FALSE) \/ FollowUp(e, d)
    BY <2>1
  <2>3. Fills(pending, a)
    BY DEF Fills, OnlyTime
  <2>4. e \in Joined(p, a)
    <3>1. PICK r \in pending.asked : e \in Joined(r, a)
      BY <2>3 DEF Effective
    <3>2. r = p
      BY DEF Open
    <3> QED  BY <3>1, <3>2
  <2>5. /\ p \in Question /\ a \in Question /\ FastPath(p) = "none"
        /\ "missing_time_window" \in Clarifications(p)
    BY QuestionsAssumption DEF Open
  <2>6. PICK t : t = p
    OBVIOUS
  <2>7. Completes(e, t)
    BY <2>4, <2>5, <2>6, AnsweredIs DEF Completes
  <2> QED  BY <2>2, <2>6, <2>7, CompletedRuns
<1> QED  BY <1>1, PendingIsOpen, PTL DEF AnswerIsUsed
=============================================================================
