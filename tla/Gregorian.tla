----------------------------- MODULE Gregorian -----------------------------
(***************************************************************************)
(* The calendar that the program's dates are of, as Python's datetime has  *)
(* it: the Gregorian one, extended to all years before and after.  A day   *)
(* is its ordinal, 1 for the first of January of the year 1; a month is    *)
(* twelve times its year, plus 0 for January to 11 for December (the total *)
(* of _sub_months in src/compiler/sql_compiler.py).                        *)
(***************************************************************************)
EXTENDS Integers

Date(y, m, d) == [y |-> y, m |-> m, d |-> d]
Leap(y) == y % 4 = 0 /\ (y % 100 # 0 \/ y % 400 = 0)

\* The first day of year y, and the days of that year before its month m: about
\* 367 to twelve months, less the one or two that February lacks.
NewYear(y) ==
    365 * (y - 1) + ((y - 1) \div 4) - ((y - 1) \div 100) + ((y - 1) \div 400) + 1
Before(y, m) ==
    ((367 * m + 5) \div 12) - (IF m <= 1 THEN 0 ELSE IF Leap(y) THEN 1 ELSE 2)

\* The first day of month k, and its number of days.
First(k) == NewYear(k \div 12) + Before(k \div 12, k % 12)
Length(k) ==
    IF k % 12 = 1 THEN IF Leap(k \div 12) THEN 29 ELSE 28
    ELSE IF k % 12 \in {3, 5, 8, 10} THEN 30 ELSE 31
Day(t) == First(12 * t.y + t.m - 1) + t.d - 1

\* The year a day is in, one of three that its 400 years of 146097 days leave,
\* and the month.
Year(n) ==
    LET y == (400 * n) \div 146097
    IN  CHOOSE z \in y .. y + 2 : NewYear(z) <= n /\ n < NewYear(z + 1)
Month(n) ==
    CHOOSE k \in 12 * Year(n) .. 12 * Year(n) + 11 : First(k) <= n /\ n < First(k + 1)

\* The dates there are: those of the years 1 to 9999.
Years == 1 .. 9999
Dates ==
    {t \in [y : Years, m : 1 .. 12, d : 1 .. 31] : t.d <= Length(12 * t.y + t.m - 1)}
IsDay(n) == First(12) <= n /\ n < First(120000)
=============================================================================
