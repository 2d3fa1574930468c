---------------------------- MODULE TimeWindows ----------------------------
(***************************************************************************)
(* The dates of a query: the window a time filter stands for, the base     *)
(* window of a comparison, and the spine of a gap-filled series            *)
(* (src/compiler/sql_compiler.py), over the filters that the rules make    *)
(* and the turns of a session change (src/agent/heuristic.py,              *)
(* src/agent/time_utils.py, src/agent/memory.py, the trend tool).          *)
(*                                                                         *)
(* Windows are half-open and start and end at midnight.  Days and months   *)
(* are numbers (module Gregorian).                                         *)
(***************************************************************************)
EXTENDS Gregorian, FiniteSets

CONSTANTS
    AsOfDates,      \* the values of settings.AS_OF_DATE, dates
    Amounts,        \* the numbers a question counts units with
    LlmDates,       \* the dates an LLM writes absolute windows with
    LlmRefs         \* the reference dates it writes relative ones with

ASSUME DatesAssumption == AsOfDates \union LlmDates \union LlmRefs \subseteq Dates
ASSUME AmountsAssumption == Amounts \subseteq Nat \ {0}

-----------------------------------------------------------------------------
\* The day of month k that is d days after its first, or its last.
DayOf(k, d) == First(k) + (IF d < Length(k) THEN d ELSE Length(k) - 1)

\* Mutant of SubMonths: the day is not clamped to the end of the month.
SubMonthsUnclamped(n, months) == First(Month(n) - months) + n - First(Month(n))

\* _sub_months and, with months < 0, the engine's addition of months: the day
\* is kept, or the last of the month if that is shorter.
SubMonths(n, months) == DayOf(Month(n) - months, n - First(Month(n)))
SubYears(n, years) == SubMonths(n, 12 * years)
MonthStart(n) == First(Month(n))
QuarterStart(n) == First(Month(n) - (Month(n) % 3))
YearStart(n) == First(Month(n) - (Month(n) % 12))
WeekStart(n) == n - ((n + 6) % 7)

-----------------------------------------------------------------------------
\* Time filters.  An absolute one keeps its two days, a relative one its
\* unit, its amount and its reference_date.
Granularity == {"day", "week", "month", "quarter"}
Comparison == {"none", "yoy", "mom"}
Absolute(start, end) ==
    [mode |-> "absolute", unit |-> "day", amount |-> 1, ref |-> 0, start |-> start, end |-> end]
Relative(mode, amount, unit, ref) ==
    [mode |-> mode, unit |-> unit, amount |-> amount, ref |-> ref, start |-> 0, end |-> 0]
NoFilter == [mode |-> "none"]
Filter(range, gran, cmp) == [range |-> range, gran |-> gran, cmp |-> cmp]

\* No window: a CompileError, or the error of a date that is none or lies
\* outside of the years there are.
NoWindow == [start |-> 1, end |-> 0]
Window(start, end) == [start |-> start, end |-> end]
Dated(w) == IF IsDay(w.start) /\ IsDay(w.end) THEN w ELSE NoWindow

\* _resolve_window, mode by mode.
ToDate(unit, ref) ==
    Window(CASE unit = "month" -> MonthStart(ref)
             [] unit = "quarter" -> QuarterStart(ref)
             [] OTHER -> YearStart(ref), ref)
Calendar(unit, n, ref) ==
    CASE unit = "month" -> Window(SubMonths(MonthStart(ref), n),
                                  SubMonths(MonthStart(ref), n - 1))
      [] unit = "quarter" -> Window(SubMonths(QuarterStart(ref), n * 3),
                                    SubMonths(QuarterStart(ref), (n - 1) * 3))
      [] unit = "year" -> Window(SubYears(YearStart(ref), n),
                                 SubYears(YearStart(ref), n - 1))
      [] OTHER -> NoWindow
LeapDay(n) == Month(n) % 12 = 1 /\ n - First(Month(n)) = 28
Trailing(unit, n, ref) ==
    CASE unit = "day" -> Window(ref - n, ref)
      [] unit = "week" -> Window(ref - 7 * n, ref)
      [] unit = "month" -> Window(SubMonths(ref, n), ref)
      [] unit = "quarter" -> Window(SubMonths(ref, 3 * n), ref)
      [] OTHER -> IF LeapDay(ref) /\ Length(Month(ref) - 12 * n) = 28 THEN NoWindow
                  ELSE Window(SubYears(ref, n), ref)
Resolve(range) ==
    Dated(CASE range.mode = "absolute" -> Window(range.start, range.end)
            [] range.mode = "to_date" -> ToDate(range.unit, range.ref)
            [] range.mode = "calendar" -> Calendar(range.unit, range.amount, range.ref)
            [] OTHER -> Trailing(range.unit, range.amount, range.ref))

\* Mutant of ShiftMonths: a quarter is shifted like a month.
ShiftMonthsAlike(gran, cmp) == IF cmp = "yoy" THEN 12 ELSE 1

\* _shift_window: the base window of a comparison, a month, a quarter or a
\* year earlier.
ShiftMonths(gran, cmp) ==
    IF cmp = "yoy" THEN 12 ELSE IF gran = "quarter" THEN 3 ELSE 1
Shift(w, gran, cmp) ==
    Window(SubMonths(w.start, ShiftMonths(gran, cmp)),
           SubMonths(w.end, ShiftMonths(gran, cmp)))

\* The bucket date_trunc puts a day in, and the buckets of a window.
Trunc(n, gran) ==
    CASE gran = "week" -> WeekStart(n)
      [] gran = "month" -> MonthStart(n)
      [] gran = "quarter" -> QuarterStart(n)
      [] OTHER -> n
Buckets(w, gran) == {Trunc(n, gran) : n \in w.start .. w.end - 1}

\* align_interval: what is added to a bucket of the base window, computed
\* apart from the shift, before the two windows are joined.
AlignMonths(gran, cmp) ==
    IF cmp = "mom" THEN IF gran = "quarter" THEN 3 ELSE 1 ELSE 12
Align(n, gran, cmp) == SubMonths(n, -AlignMonths(gran, cmp))

\* Mutant of Steps: the end of the window is taken as included.
StepsInclusive(w, gran) ==
    {Trunc(n, gran) : n \in w.start .. w.end}

\* The spine: from the start of the window (not of its bucket) in steps of
\* the granularity, up to one step before its end.
Steps(w, gran) ==
    CASE gran = "day" -> w.start .. w.end - 1
      [] gran = "week" -> {n \in w.start .. w.end - 7 : (n - w.start) % 7 = 0}
      [] OTHER ->
           LET months == IF gran = "month" THEN 1 ELSE 3
               last == SubMonths(w.end, months)
           IN  {n \in w.start .. last :
                  \E k \in 0 .. Month(w.end) - Month(w.start) :
                     k % months = 0 /\ n = SubMonths(w.start, -k)}

-----------------------------------------------------------------------------
VARIABLES
    asOf,       \* settings.AS_OF_DATE, a day
    tf          \* the time filter of the session's query, or NoFilter

windowVars == <<asOf, tf>>

WindowInit == asOf \in {Day(t) : t \in AsOfDates} /\ tf = NoFilter

NextMonth(n) == SubMonths(MonthStart(n), -1)
NextQuarter(n) == SubMonths(QuarterStart(n), -3)

\* The windows of the time phrases, with the granularity each comes with:
\* a month or a year by name, this month or quarter, the last month or
\* quarter, the period to date, and the last so many units.
Named(ref) ==
    {Filter(Absolute(MonthStart(n), NextMonth(n)), "day", "none") :
        n \in {ref, SubMonths(ref, 5)}}
      \union {Filter(Absolute(YearStart(ref), SubYears(YearStart(ref), -1)), "day", "none"),
              Filter(Absolute(QuarterStart(ref), NextQuarter(ref)), "quarter", "none")}
Whole(ref) ==
    {Filter(Relative("calendar", 1, "month", ref), "month", "none"),
     Filter(Relative("calendar", 1, "quarter", ref), "quarter", "none")}
SoFar(ref) ==
    {Filter(Relative("to_date", 1, "quarter", ref), "quarter", "none"),
     Filter(Relative("to_date", 1, "month", ref), "day", "none"),
     Filter(Relative("to_date", 1, "year", ref), "month", "none")}
Last(ref) ==
    {Filter(Relative("trailing", n, u, ref), u, "none") : n \in Amounts, u \in Granularity}
Phrases(ref) == Named(ref) \union Whole(ref) \union SoFar(ref) \union Last(ref)

\* default_compare_window: what a series or a comparison without a phrase gets.
DefaultWindow(cmp, gran, ref) ==
    Filter(IF cmp = "yoy" THEN Relative("trailing", 12, "month", ref)
           ELSE IF cmp = "mom" THEN Relative("trailing", 6, "month", ref)
           ELSE CASE gran = "quarter" -> Relative("trailing", 4, "quarter", ref)
                  [] gran = "month" -> Relative("trailing", 6, "month", ref)
                  [] gran = "week" -> Relative("trailing", 12, "week", ref)
                  [] OTHER -> Relative("trailing", 30, "day", ref), gran, cmp)

\* A question with a time phrase, by itself or as a follow-up, with or
\* without a comparison.
Ask(phrase, cmp) ==
    /\ tf' = [phrase EXCEPT !.cmp = cmp]
    /\ UNCHANGED asOf

\* A series or a comparison, which keeps the window of the turn before it
\* or gets the default one, and takes the granularity asked for.
Trend(gran, cmp) ==
    /\ tf' = IF tf = NoFilter THEN DefaultWindow(cmp, gran, asOf)
             ELSE [tf EXCEPT !.gran = gran, !.cmp = IF cmp = "none" THEN @ ELSE cmp]
    /\ UNCHANGED asOf

\* An LLM answers with any time filter that the schema accepts: an absolute
\* start before its end; to-date periods of a month, a quarter or a year.  A
\* reference date that it leaves out is AS_OF_DATE.
LlmRanges(refs) ==
    {Absolute(Day(p[1]), Day(p[2])) :
        p \in {q \in LlmDates \X LlmDates : Day(q[1]) < Day(q[2])}}
      \union {Relative("to_date", 1, u, r) : u \in {"month", "quarter", "year"}, r \in refs}
      \union {Relative(mode, n, u, r) : mode \in {"trailing", "calendar"}, n \in Amounts,
                                        u \in Granularity \union {"year"}, r \in refs}
Answer(range, gran, cmp) ==
    /\ tf' = Filter(range, gran, cmp)
    /\ UNCHANGED asOf

WindowNext ==
    \/ \E p \in Phrases(asOf), c \in Comparison : Ask(p, c)
    \/ \E g \in Granularity, c \in Comparison : Trend(g, c)
    \/ \E r \in LlmRanges({asOf} \union {Day(t) : t \in LlmRefs}),
          g \in Granularity, c \in Comparison : Answer(r, g, c)

WindowSpec == WindowInit /\ [][WindowNext]_windowVars
-----------------------------------------------------------------------------
Current == Resolve(tf.range)
Base == Shift(Current, tf.gran, tf.cmp)
Resolved == tf # NoFilter /\ Current # NoWindow
Compares == Resolved /\ tf.cmp # "none"

PairUp(base, current, gran, cmp) ==
    LET aligned == {Align(b, gran, cmp) : b \in base}
    IN  aligned = current /\ Cardinality(aligned) = Cardinality(base)
IsWhole(w, gran) ==
    w.start < w.end /\ Trunc(w.start, gran) = w.start /\ Trunc(w.end, gran) = w.end
Covers(w, gran) == IsWhole(w, gran) => Steps(w, gran) = Buckets(w, gran)

(***************************************************************************)
(* Boundary arithmetic with leap days and short months: a window never     *)
(* ends before it starts, is empty only for a period that starts on the    *)
(* day itself, and its base window is earlier at both ends and is not      *)
(* reversed either.                                                        *)
(***************************************************************************)
WindowsOrdered ==
    /\ Resolved =>
         \/ Current.start < Current.end
         \/ tf.range.mode = "to_date" /\ Current.start = Current.end
    /\ Compares =>
         /\ Base.start <= Base.end
         /\ Base.start < Current.start /\ Base.end < Current.end

\* The window lies on days of one month that, so many months earlier, are past
\* the last day of the month or on it.
Vanishes(w, months) ==
    LET k == Month(w.start)
    IN  /\ w.start < w.end /\ Month(w.end) = k
        /\ Length(k - months) - 1 <= w.start - First(k)

(***************************************************************************)
(* A comparison over months or quarters joins the buckets of the two       *)
(* windows one to one, wherever the windows start and end: the shift of    *)
(* the window and the alignment of its buckets, computed apart, agree.     *)
(* There is one exception, and no other: of a window that vanishes both    *)
(* ends are clamped to the same day, so that its base is empty and its     *)
(* bucket is compared with nothing.  (Days do not pair up: the last days   *)
(* of a month fall together.)                                              *)
(***************************************************************************)
PeriodsPair ==
    Compares /\ tf.gran \in {"month", "quarter"} =>
        IF Vanishes(Current, ShiftMonths(tf.gran, tf.cmp))
        THEN Base.start = Base.end
        ELSE PairUp(Buckets(Base, tf.gran), Buckets(Current, tf.gran), tf.gran, tf.cmp)

(***************************************************************************)
(* If the window starts and ends where buckets do, the spine of a          *)
(* gap-filled series is exactly the buckets of the window, so that no      *)
(* period is lost, doubled or filled with zero although it has rows.       *)
(***************************************************************************)
SpineCovers == Resolved => Covers(Current, tf.gran)
=============================================================================
