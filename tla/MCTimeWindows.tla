--------------------------- MODULE MCTimeWindows ---------------------------
(***************************************************************************)
(* Ends of months of every length, around leap days and turns of the year. *)
(***************************************************************************)
EXTENDS TimeWindows

MCAsOf ==
    {Date(2024, 6, 30), Date(2024, 3, 31), Date(2024, 4, 1), Date(2024, 2, 29),
     Date(2025, 2, 28), Date(2024, 1, 1), Date(2023, 12, 31), Date(2024, 5, 13)}
MCDates ==
    {Date(2023, 11, 1), Date(2024, 2, 28), Date(2024, 2, 29), Date(2024, 3, 1),
     Date(2024, 3, 31), Date(2024, 7, 1)}
MCRefs == {Date(2024, 2, 29), Date(2025, 1, 31)}
=============================================================================
