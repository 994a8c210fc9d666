--------------------------- MODULE MCOmitContext ---------------------------
(***************************************************************************)
(* An instance of OmitContext for TLC, around the ends of a leap year and  *)
(* of its February, with room for four days.                               *)
(***************************************************************************)
EXTENDS OmitContext

Date(y, m, d) == [y |-> y, m |-> m, d |-> d]

MCWeekdayOmits == {{5, 6}, {0, 1, 2, 3, 4}}

MCDateOmits == {
    <<Date(1996, 1, 28), Date(1996, 2, 1)>>,            \* over 29 February
    <<Date(1996, 11, 31), Date(1997, 0, 1)>>,
    <<Date(1997, 1, 29), Date(1997, 2, 1)>>,            \* no such date
    <<Date(1997, 0, 2), Date(1996, 11, 31)>>,           \* too late
    <<Date(NO_YR, 11, 31), Date(NO_YR, 0, 1)>>,         \* over the end of the year
    <<Date(NO_YR, 1, 29), Date(NO_YR, 1, NO_DAY)>>,
    <<Date(NO_YR, 1, 29), Date(1996, 2, 1)>>,           \* a year on one side only
    <<Date(NO_YR, 1, 30), Date(NO_YR, 2, 1)>>}          \* no such day

MCAddOmitDates == {-1, DSE(1996, 1, 29), DSE(1996, 11, 31)}
=============================================================================
