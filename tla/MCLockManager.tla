--------------------------- MODULE MCLockManager ---------------------------
(***************************************************************************)
(* Small instances of LockManager: two worker processes.                   *)
(***************************************************************************)
EXTENDS LockManager

CONSTANTS w1, w2

MCTwoWorkers == {w1, w2}
=============================================================================
