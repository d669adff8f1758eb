-------------------------- MODULE MCGoalLifecycle --------------------------
(***************************************************************************)
(* Small instances of GoalLifecycle: reports 1 and 2, the second one       *)
(* ending later.                                                           *)
(***************************************************************************)
EXTENDS GoalLifecycle

MCReports     == {1, 2}
MCEndDate     == [r \in MCReports |-> r]
MCComplete    == {COMPLETE}
MCClosed      == {CLOSED}
MCNotStarted  == {NOT_STARTED}
MCSuspended   == {SUSPENDED}
=============================================================================
