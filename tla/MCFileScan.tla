----------------------------- MODULE MCFileScan -----------------------------
(***************************************************************************)
(* Small instances of FileScan.  Files share nothing, so one file, of any  *)
(* kind, clean or dirty, stands for all.                                   *)
(***************************************************************************)
EXTENDS FileScan
=============================================================================
