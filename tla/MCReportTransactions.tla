------------------------ MODULE MCReportTransactions ------------------------
(***************************************************************************)
(* Small instances of ReportTransactions: two approvers and two request    *)
(* slots, one of them or both in use.                                      *)
(***************************************************************************)
EXTENDS ReportTransactions, TLC

CONSTANTS u1, u2, r1, r2

MCUsers    == {u1, u2}
MCRequests == {r1, r2}
MCReviews  == {"review"}
MCEdits    == {"review", "submit"}

\* Approvers and request slots are interchangeable (safety runs only).
MCSymmetry == Permutations(MCUsers) \union Permutations(MCRequests)
=============================================================================
